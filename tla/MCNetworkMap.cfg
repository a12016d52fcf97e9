SPECIFICATION Spec
CONSTANTS
  AddrBits = 4
  OctetBits = 2
  MaxHosts = 3
  BannerLength = 2
  Manuf <- SampleManuf
  Agents <- SampleAgents
  Hosts <- SampleHosts
  Places = {1, 5}
  MaxMoves = 2
  MaxScans = 2
INVARIANTS
  ProbesStayInSubnet
  ScanFindsHosts
  NoPhantomDevices
  SteadyHostsAreThemselves
  ProvenClassKept
  MapIsTree
