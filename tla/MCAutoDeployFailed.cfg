SPECIFICATION FairSpec
CONSTANTS
  MaxCommits = 1
  MaxFaults = 1
PROPERTIES
  NewCommitIsDeployed
