------------------------------ MODULE MCAlerts ------------------------------
(* Alerts for one host.  The reports are on both sides of each threshold.   *)
EXTENDS Alerts, TLC

CONSTANTS n1, agent1, scan1

OneAgent     == agent1 :> n1
AgentAndScan == (agent1 :> n1) @@ (scan1 :> n1)

Report(c, m, d) == [cpu |-> c, mem |-> m, disk |-> d]

BoundaryReports == {Report(89, 89, 84), Report(90, 97, 10), Report(97, 90, 95)}
=============================================================================
