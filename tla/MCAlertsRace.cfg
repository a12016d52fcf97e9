SPECIFICATION Spec
CONSTANTS
  n1 = n1
  agent1 = agent1
  scan1 = scan1
  Hosts = {n1}
  Reporters = {agent1, scan1}
  ReporterHost <- AgentAndScan
  Reports <- BoundaryReports
  MaxReports = 2
  MaxCount = 3
  MaxFailures = 0
INVARIANTS
  OneOpenAlert
