---------------------------- MODULE JobLifecycle ----------------------------
(***************************************************************************)
(* What the command channel promises an operator who queues a job, with no *)
(* mention of HTTP, SQLite, agents or failures: a job is queued for a host *)
(* once, all the queued jobs of a host are handed out together, a handed   *)
(* out job is started on the endpoint at most once, and a result that says *)
(* "done" is the result of a command that was started.                     *)
(*                                                                         *)
(* The lifecycle pending -> running -> done | failed is the one the Job    *)
(* type documents.  CommandChannel implements this specification.          *)
(***************************************************************************)
EXTENDS Jobs

VARIABLES
  lastId,    \* the id of the last queued job (ids are handed out in order)
  hostname,  \* hostname[j]: the host job j is for
  status,    \* status[j]: "absent" until j is queued
  ran        \* ran[j]: how often the command of j was started on an endpoint

lifecycleVars == <<lastId, hostname, status, ran>>

Init ==
  /\ lastId = 0
  /\ hostname = [j \in JobIds |-> NoHost]
  /\ status = [j \in JobIds |-> "absent"]
  /\ ran = [j \in JobIds |-> 0]

Queued(n) == {j \in JobIds : status[j] = "pending" /\ hostname[j] = n}

\* A job is queued under the next id.
Submit(n) ==
  /\ lastId < MaxJobs
  /\ lastId' = lastId + 1
  /\ hostname' = [hostname EXCEPT ![lastId + 1] = n]
  /\ status' = [status EXCEPT ![lastId + 1] = "pending"]
  /\ UNCHANGED ran

\* Every job queued for a host is handed out, in one step.
HandOut(n) ==
  /\ Queued(n) # {}
  /\ status' = [j \in JobIds |-> IF j \in Queued(n) THEN "running" ELSE status[j]]
  /\ UNCHANGED <<lastId, hostname, ran>>

\* The command of a handed out job is started, for the first and only time.
Start(j) ==
  /\ status[j] = "running"
  /\ ran[j] = 0
  /\ ran' = [ran EXCEPT ![j] = 1]
  /\ UNCHANGED <<lastId, hostname, status>>

\* The result is recorded once; only a command that was started is "done".
Finish(j, s) ==
  /\ status[j] = "running"
  /\ s = "done" => ran[j] = 1
  /\ status' = [status EXCEPT ![j] = s]
  /\ UNCHANGED <<lastId, hostname, ran>>

Next ==
  \/ \E n \in Hosts : Submit(n) \/ HandOut(n)
  \/ \E j \in JobIds : Start(j)
  \/ \E j \in JobIds, s \in Final : Finish(j, s)

Spec == Init /\ [][Next]_lifecycleVars
=============================================================================
