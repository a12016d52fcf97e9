SPECIFICATION FairSpec
CONSTANTS
  MaxCommits = 3
  MaxFaults = 1
INVARIANTS
  RestIsDeployed
PROPERTIES
  NeverBackwards
  CommitIsDeployed
