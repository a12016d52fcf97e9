SPECIFICATION FairSpec
CONSTANTS
  n1 = n1
  agent1 = agent1
  scan1 = scan1
  Hosts = {n1}
  Reporters = {agent1}
  ReporterHost <- OneAgent
  Reports <- BoundaryReports
  MaxReports = 3
  MaxCount = 3
  MaxFailures = 1
INVARIANTS
  OneOpenAlert
  AlertsMatchReport
  HealthMatchesAlerts
  CountsReports
PROPERTIES
  FirstSeenKept
  OfflineIsRaised
  OfflineIsResolved
