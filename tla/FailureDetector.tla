--------------------------- MODULE FailureDetector ---------------------------
(***************************************************************************)
(* What the control plane promises an operator about one endpoint: an      *)
(* alarm is raised only of an endpoint that was silent for longer than     *)
(* Limit, withdrawn only of one that was heard since, and neither is put   *)
(* off for ever.                                                           *)
(***************************************************************************)
EXTENDS Naturals

CONSTANTS
  Limit,    \* silence that is still excused
  Horizon   \* bound: the clock of a silence stops here

VARIABLES
  silence,  \* time since the endpoint was heard
  alarm     \* it is shown as offline

vars == <<silence, alarm>>

Init == silence = 0 /\ alarm = FALSE

Heard == silence' = 0 /\ UNCHANGED alarm

TimePasses ==
  /\ silence' = IF silence < Horizon THEN silence + 1 ELSE silence
  /\ UNCHANGED alarm

Raise ==
  /\ ~alarm
  /\ silence > Limit
  /\ alarm' = TRUE
  /\ UNCHANGED silence

Withdraw ==
  /\ alarm
  /\ silence <= Limit
  /\ alarm' = FALSE
  /\ UNCHANGED silence

Next == Heard \/ TimePasses \/ Raise \/ Withdraw

Spec == Init /\ [][Next]_vars

FairSpec == Spec /\ WF_vars(Raise) /\ WF_vars(Withdraw)
=============================================================================
