SPECIFICATION FairSpec
CONSTANTS
  Failed = Failed
  NoMachine = NoMachine
  Interval = 1
  OfflineAfter = 3
  MonInterval = 1
  Machines <- SampleMachines
  Processes <- SampleProcesses
  Horizon = 5
  MaxFaults = 2
INVARIANTS
  SilenceIsNoticed
  ReadableIsReported
  
PROPERTIES
  NoFalseAlarm
  WatchSpec
  ReportsKeepComing
