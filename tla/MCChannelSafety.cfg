SPECIFICATION Spec
CONSTANTS
  n1 = n1
  n2 = n2
  a1 = a1
  a2 = a2
  a3 = a3
  Gone = Gone
  Hosts = {n1, n2}
  MaxJobs = 2
  Handlers = {h1, h2, h3}
  Agents = {a1, a2, a3}
  AgentHost <- SharedHost
  FaultKinds = {"loss", "crash", "busy"}
  MaxFaults = 2
SYMMETRY SharedSymmetry
INVARIANTS
  SerializableClaim
  NeverTwoPollers
  ClaimsArePrefix
  AtMostOnce
  HostIsolation
  TruthfulResult
  ResultsForRunningJobs
  OrphansNeedFaults
PROPERTIES
  FinalIsFinal
  StartedInOrder
  LifecycleSpec
