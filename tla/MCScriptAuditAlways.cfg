SPECIFICATION Spec
CONSTANTS
  Requests = {r1}
  MaxFaults = 0
INVARIANTS
  AuditedAlways
