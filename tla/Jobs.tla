-------------------------------- MODULE Jobs --------------------------------
(***************************************************************************)
(* What every module of the command channel needs to know of a job: its   *)
(* id, handed out in order by the jobs table, the host it is for, and its  *)
(* status.  Kind, shell, command and captured output are left out.         *)
(***************************************************************************)
EXTENDS Naturals

CONSTANTS
  Hosts,     \* hostnames a job may be addressed to
  MaxJobs    \* bound: how many jobs are ever queued

ASSUME MaxJobsIsNat == MaxJobs \in Nat

\* No host: postJob and postPatchApply refuse a job with an empty hostname.
NoHost == ""

ASSUME NoHostIsNoHost == NoHost \notin Hosts

JobIds == 1..MaxJobs

\* The statuses a finished job can have.
Final == {"done", "failed"}

\* "absent": no row has this id yet.
Status == {"absent", "pending", "running"} \cup Final
=============================================================================
