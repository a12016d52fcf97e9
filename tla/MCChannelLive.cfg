SPECIFICATION FairSpec
CONSTANTS
  n1 = n1
  n2 = n2
  a1 = a1
  a2 = a2
  a3 = a3
  Gone = Gone
  Hosts = {n1}
  MaxJobs = 2
  Handlers = {h1, h2}
  Agents = {a1, a2}
  AgentHost <- OneHost
  FaultKinds = {"loss", "crash", "busy"}
  MaxFaults = 1
PROPERTIES
  
  ClaimAnswered
  FinishesUnlessFault
