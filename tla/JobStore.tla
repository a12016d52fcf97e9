------------------------------ MODULE JobStore ------------------------------
(***************************************************************************)
(* The jobs table of the control plane and the handlers that claim from    *)
(* it: EnqueueJob, ClaimJobs and CompleteJob of SQLiteStore, with the HTTP *)
(* handlers that call them.                                                *)
(*                                                                         *)
(* EnqueueJob and CompleteJob are one autocommit statement each.  ClaimJobs*)
(* is a transaction of several statements, on a pooled connection of its   *)
(* own; the handlers of concurrent polls interleave between them.  What    *)
(* keeps them apart is SQLite's file locking in the mode the store opens   *)
(* it in (rollback journal, deferred BEGIN; external):                     *)
(*   - a transaction that has read holds a shared lock until it ends;      *)
(*   - one that has written also holds the reserved lock, of which there   *)
(*     is one; a reader that asks for it while another has it is refused;  *)
(*   - a commit that changed rows needs every other lock to be gone.       *)
(* The environment is open: any host is polled for at any time, a result   *)
(* may come for any job that was handed out, more than once, and the       *)
(* server may restart between any two statements.  CommandChannel closes   *)
(* it with the agents.                                                     *)
(***************************************************************************)
EXTENDS Jobs

CONSTANT Handlers   \* bound: how many polls are served at the same time

VARIABLES
  lastId,    \* the AUTOINCREMENT id of the last inserted job
  hostname,  \* hostname[j]: column hostname
  status,    \* status[j]: column status, as committed
  hpc,       \* hpc[h]: where handler h is in claimJobs
  polled,    \* polled[h]: the {hostname} of the poll that h serves
  out        \* out[h]: the ids ClaimJobs collected for h

jobVars   == <<lastId, hostname, status>>
claimVars == <<hpc, polled, out>>
storeVars == <<lastId, hostname, status, hpc, polled, out>>

\* Types of the jobs table and of the claims under way.
StoreTypeOK ==
  /\ lastId \in 0..MaxJobs
  /\ hostname \in [JobIds -> Hosts \cup {NoHost}]
  /\ status \in [JobIds -> Status]
  /\ hpc \in [Handlers -> {"idle", "begun", "read", "written", "replying"}]
  /\ polled \in [Handlers -> Hosts \cup {NoHost}]
  /\ out \in [Handlers -> SUBSET JobIds]

StoreInit ==
  /\ lastId = 0
  /\ hostname = [j \in JobIds |-> NoHost]
  /\ status = [j \in JobIds |-> "absent"]
  /\ hpc = [h \in Handlers |-> "idle"]
  /\ polled = [h \in Handlers |-> NoHost]
  /\ out = [h \in Handlers |-> {}]

\* Variant: the SELECT has no hostname condition.
PendingForAnyone(n) == {j \in JobIds : status[j] = "pending"}

PendingFor(n) == {j \in JobIds : status[j] = "pending" /\ hostname[j] = n}

\* Variant: the SELECT is not part of the transaction.
LockingWriters(h) == hpc[h] = "written"

\* A claim that has read holds (at least) the shared lock.
Locking(h) == hpc[h] \in {"read", "written"}

Others(h) == Handlers \ {h}

\* No other claim has the reserved lock.
NoOtherWriter(h) == \A g \in Others(h) : hpc[g] # "written"

\* No other claim has any lock: what a commit needs.
NoOtherLock(h) == \A g \in Others(h) : ~Locking(g)

\* No claim has a lock: what an autocommit statement that writes needs.
NoLock == \A h \in Handlers : ~Locking(h)

\* postJob, postPatchApply: INSERT with status 'pending'.
EnqueueJob(n) ==
  /\ NoLock
  /\ lastId < MaxJobs
  /\ lastId' = lastId + 1
  /\ hostname' = [hostname EXCEPT ![lastId + 1] = n]
  /\ status' = [status EXCEPT ![lastId + 1] = "pending"]
  /\ UNCHANGED claimVars

\* A poll reaches the server and its transaction is begun; a deferred BEGIN
\* takes no lock.
ReceivePoll(h, n) ==
  /\ hpc[h] = "idle"
  /\ hpc' = [hpc EXCEPT ![h] = "begun"]
  /\ polled' = [polled EXCEPT ![h] = n]
  /\ UNCHANGED <<jobVars, out>>

\* The SELECT finds nothing: the transaction ends, the reply is the empty list.
ClaimNothing(h) ==
  /\ hpc[h] = "begun"
  /\ PendingFor(polled[h]) = {}
  /\ hpc' = [hpc EXCEPT ![h] = "replying"]
  /\ out' = [out EXCEPT ![h] = {}]
  /\ UNCHANGED <<jobVars, polled>>

\* Variant: the newest pending job only.
ClaimNewest(h) ==
  /\ hpc[h] = "begun"
  /\ PendingFor(polled[h]) # {}
  /\ hpc' = [hpc EXCEPT ![h] = "read"]
  /\ out' = [out EXCEPT ![h] = {j \in PendingFor(polled[h]) :
                                  \A i \in PendingFor(polled[h]) : i <= j}]
  /\ UNCHANGED <<jobVars, polled>>

\* The SELECT finds pending jobs; the shared lock stays with the transaction.
ClaimSelect(h) ==
  /\ hpc[h] = "begun"
  /\ PendingFor(polled[h]) # {}
  /\ hpc' = [hpc EXCEPT ![h] = "read"]
  /\ out' = [out EXCEPT ![h] = PendingFor(polled[h])]
  /\ UNCHANGED <<jobVars, polled>>

\* The UPDATE of each collected id.  The first takes the reserved lock; the
\* changes are seen by others only after the commit.
ClaimUpdate(h) ==
  /\ hpc[h] = "read"
  /\ NoOtherWriter(h)
  /\ hpc' = [hpc EXCEPT ![h] = "written"]
  /\ UNCHANGED <<jobVars, polled, out>>

\* The commit: the collected ids that are still pending are running.  The reply
\* carries every collected id.
ClaimCommit(h) ==
  /\ hpc[h] = "written"
  /\ NoOtherLock(h)
  /\ status' = [j \in JobIds |-> IF j \in out[h] /\ status[j] = "pending"
                                 THEN "running" ELSE status[j]]
  /\ hpc' = [hpc EXCEPT ![h] = "replying"]
  /\ UNCHANGED <<lastId, hostname, polled, out>>

\* A statement of the claim fails, or its context is cancelled: the deferred
\* Rollback undoes the claim and the poll is answered with an error.
ClaimFails(h) ==
  /\ hpc[h] \in {"begun", "read", "written"}
  /\ hpc' = [hpc EXCEPT ![h] = "idle"]
  /\ polled' = [polled EXCEPT ![h] = NoHost]
  /\ out' = [out EXCEPT ![h] = {}]
  /\ UNCHANGED jobVars

\* The claimed jobs are written to the connection of the poller.
Reply(h) ==
  /\ hpc[h] = "replying"
  /\ hpc' = [hpc EXCEPT ![h] = "idle"]
  /\ polled' = [polled EXCEPT ![h] = NoHost]
  /\ out' = [out EXCEPT ![h] = {}]
  /\ UNCHANGED jobVars

\* Variant: the payload is not looked at.
NormaliseAll(s) == "done"

\* What CompleteJob makes of the status in the payload.
Normalise(s) == IF s \in Final THEN s ELSE "done"

\* jobResult: UPDATE of the row with this id, whatever its status.  (With no
\* such row it is an error that changes nothing.)
CompleteJob(j, s) ==
  /\ NoLock
  /\ j <= lastId
  /\ status' = [status EXCEPT ![j] = Normalise(s)]
  /\ UNCHANGED <<lastId, hostname, claimVars>>

\* Variant: jobs found running at the start are queued again.
RestartRequeues ==
  /\ status' = [j \in JobIds |-> IF status[j] = "running" THEN "pending" ELSE status[j]]
  /\ hpc' = [h \in Handlers |-> "idle"]
  /\ polled' = [h \in Handlers |-> NoHost]
  /\ out' = [h \in Handlers |-> {}]
  /\ UNCHANGED <<lastId, hostname>>

\* The server stops and starts: open transactions are rolled back when the
\* file is opened again, replies not yet written are lost.
Restart ==
  /\ hpc' = [h \in Handlers |-> "idle"]
  /\ polled' = [h \in Handlers |-> NoHost]
  /\ out' = [h \in Handlers |-> {}]
  /\ UNCHANGED jobVars

\* An agent only knows the ids of jobs that were handed out.
HandedOut(j) == status[j] \in {"running"} \cup Final

StoreNext ==
  \/ \E n \in Hosts : EnqueueJob(n)
  \/ \E h \in Handlers, n \in Hosts : ReceivePoll(h, n)
  \/ \E h \in Handlers :
       \/ ClaimNothing(h) \/ ClaimSelect(h) \/ ClaimUpdate(h)
       \/ ClaimCommit(h) \/ ClaimFails(h) \/ Reply(h)
  \/ \E j \in JobIds, s \in Final \cup {"other"} : HandedOut(j) /\ CompleteJob(j, s)
  \/ Restart

StoreSpec == StoreInit /\ [][StoreNext]_storeVars

-----------------------------------------------------------------------------
(* Properties *)

\* The ids are handed out in order and rows are never deleted.
IdsInOrder == \A j \in JobIds : status[j] = "absent" <=> j > lastId

\* What a claim has read stays true until it ends: nobody queues a job for its
\* host, claims or completes one of its jobs between the SELECT and the COMMIT.
SerializableClaim ==
  \A h \in Handlers : Locking(h) => out[h] = PendingFor(polled[h])

\* "A job is never handed to two pollers": two replies on their way to pollers
\* have no job in common, and no reply has a job another poll can still claim.
NeverTwoPollers ==
  \A h \in Handlers : hpc[h] = "replying" =>
    /\ \A j \in out[h] : status[j] # "pending"
    /\ \A g \in Others(h) : Locking(g) \/ hpc[g] = "replying" => out[g] \cap out[h] = {}

\* Jobs of a host leave the queue in the order they entered it.
ClaimsArePrefix ==
  \A i, j \in JobIds :
    i < j /\ hostname[i] = hostname[j] /\ HandedOut(j) => status[i] # "pending"

\* No row goes back: pending and running are left for good.
StatusMovesForward ==
  [][\A j \in JobIds :
       /\ status[j] = "pending" => status'[j] \in {"pending", "running"}
       /\ HandedOut(j) => status'[j] \in {"running"} \cup Final
       /\ status[j] \in Final => status'[j] \in Final]_storeVars
=============================================================================
