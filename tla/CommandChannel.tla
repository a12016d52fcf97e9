--------------------------- MODULE CommandChannel ---------------------------
(***************************************************************************)
(* The command channel end to end: operators queue jobs, the agents poll   *)
(* the control plane for the jobs of their hosts, execute them and post    *)
(* the results.  Composition of JobStore and AgentJobs over HTTP.          *)
(*                                                                         *)
(* What fails, at most MaxFaults times and of the kinds in FaultKinds:     *)
(*   "loss"   a connection breaks: the reply to a poll or a posted result  *)
(*            does not arrive, or the sender gives up on a request that    *)
(*            the server is still to handle;                               *)
(*   "crash"  an agent or the control plane stops and starts again;        *)
(*   "busy"   SQLite refuses a statement because of another's lock where   *)
(*            it could also have waited.                                   *)
(* The transport has no retry: transport.rs leaves it to a later version.  *)
(***************************************************************************)
EXTENDS JobStore, AgentJobs

CONSTANTS
  Gone,         \* stands for a poller that closed its connection
  FaultKinds,   \* kinds of faults that may happen
  MaxFaults     \* bound on the number of faults

ASSUME GoneIsNoAgent == Gone \notin Agents
ASSUME MaxFaultsIsNat == MaxFaults \in Nat

VARIABLES
  caller,   \* caller[h]: the agent that waits for the reply of handler h
  posts,    \* results sent and neither handled nor lost
  faults    \* how many faults happened

netVars == <<caller, posts, faults>>
vars    == <<lastId, hostname, status, hpc, polled, out,
             apc, batch, cur, ran, verdict, caller, posts, faults>>

Posts == [id : JobIds, status : Final]

\* Types of the store, of the agents and of what is between them.
TypeOK ==
  /\ StoreTypeOK
  /\ AgentTypeOK
  /\ caller \in [Handlers -> Agents \cup {Gone}]
  /\ posts \subseteq Posts
  /\ faults \in 0..MaxFaults

Init ==
  /\ StoreInit
  /\ AgentInit
  /\ caller = [h \in Handlers |-> Gone]
  /\ posts = {}
  /\ faults = 0

Fault(kind) ==
  /\ kind \in FaultKinds
  /\ faults < MaxFaults
  /\ faults' = faults + 1

Submit(n) == EnqueueJob(n) /\ UNCHANGED <<agentVars, netVars>>

-----------------------------------------------------------------------------
(* Polls.  A poll that does not reach the server changes nothing. *)

Poll(a, h) ==
  /\ PollJobs(a)
  /\ ReceivePoll(h, AgentHost[a])
  /\ caller' = [caller EXCEPT ![h] = a]
  /\ UNCHANGED <<posts, faults>>

\* Statements of a claim that succeed.
Claim(h) ==
  /\ ClaimNothing(h) \/ ClaimSelect(h) \/ ClaimUpdate(h) \/ ClaimCommit(h)
  /\ UNCHANGED <<agentVars, netVars>>

HangUp(h) == caller' = [caller EXCEPT ![h] = Gone]

\* The agent that still waits for the claim of h gets an error status.
RefusePoll(h) ==
  /\ ClaimFails(h)
  /\ IF caller[h] = Gone THEN UNCHANGED agentVars ELSE PollFails(caller[h])
  /\ HangUp(h)
  /\ UNCHANGED posts

\* Variant: the second of two readers that want to write waits for the first.
ClaimWaits(h) == FALSE

\* Two readers want to write: the second is refused, however long it waits.
ClaimRefused(h) == hpc[h] = "read" /\ ~NoOtherWriter(h) /\ RefusePoll(h) /\ UNCHANGED faults

\* SQLITE_BUSY where waiting would have helped: a first read during a write, a
\* commit that meets readers.
ClaimBusy(h) ==
  /\ \/ hpc[h] = "begun" /\ ~NoOtherWriter(h)
     \/ hpc[h] = "written" /\ ~NoOtherLock(h)
  /\ RefusePoll(h)
  /\ Fault("busy")

\* The request context is cancelled when the client is gone; how far the claim
\* gets before it notices is open.
ClaimCancelled(h) == caller[h] = Gone /\ RefusePoll(h) /\ UNCHANGED faults

ReplyArrives(h) ==
  /\ caller[h] # Gone
  /\ GetJobs(caller[h], out[h])
  /\ Reply(h)
  /\ HangUp(h)
  /\ UNCHANGED <<posts, faults>>

\* Nobody reads the reply: its jobs are running, for the store.
ReplyUnread(h) == caller[h] = Gone /\ Reply(h) /\ UNCHANGED <<agentVars, netVars>>

\* The connection of a poll breaks; the server may notice later or not at all.
PollBreaks(h) ==
  /\ Fault("loss")
  /\ caller[h] # Gone
  /\ PollFails(caller[h])
  /\ HangUp(h)
  /\ UNCHANGED <<storeVars, posts>>

-----------------------------------------------------------------------------
(* Execution and results *)

Execute(a) ==
  /\ \/ \E j \in JobIds : StartCommand(a, j) \/ CannotStart(a, j)
     \/ BatchDone(a)
  /\ UNCHANGED <<storeVars, netVars>>

CommandExits(a) == (\E s \in Final : CommandEnds(a, s)) /\ UNCHANGED <<storeVars, netVars>>

Result(a) == [id |-> cur[a], status |-> verdict[cur[a]]]

SendResult(a) ==
  /\ PostResult(a)
  /\ posts' = posts \cup {Result(a)}
  /\ UNCHANGED <<storeVars, caller, faults>>

\* jobResult handles a post.
RecordResult(m) ==
  /\ m \in posts
  /\ CompleteJob(m.id, m.status)
  /\ posts' = posts \ {m}
  /\ UNCHANGED <<agentVars, caller, faults>>

\* The UPDATE meets a lock: 502, and the result is not recorded.
ResultBusy(m) ==
  /\ m \in posts
  /\ ~NoLock
  /\ Fault("busy")
  /\ posts' = posts \ {m}
  /\ UNCHANGED <<storeVars, agentVars, caller>>

ResultLost(m) ==
  /\ m \in posts
  /\ Fault("loss")
  /\ posts' = posts \ {m}
  /\ UNCHANGED <<storeVars, agentVars, caller>>

\* The post was answered, with whatever status, or lost.
ResultAnswered(a) ==
  /\ PostReturns(a)
  /\ Result(a) \notin posts
  /\ UNCHANGED <<storeVars, netVars>>

\* The agent loses the connection before the server has handled the post.
ResultAbandoned(a) ==
  /\ PostReturns(a)
  /\ Result(a) \in posts
  /\ Fault("loss")
  /\ UNCHANGED <<storeVars, caller, posts>>

-----------------------------------------------------------------------------
(* Crashes *)

AgentCrash(a) ==
  /\ Fault("crash")
  /\ Crash(a)
  /\ caller' = [h \in Handlers |-> IF caller[h] = a THEN Gone ELSE caller[h]]
  /\ UNCHANGED <<storeVars, posts>>

\* Open connections are closed: pollers get an error, posts are lost.
ServerCrash ==
  /\ Fault("crash")
  /\ Restart
  /\ apc' = [a \in Agents |-> IF apc[a] = "polling" THEN "idle" ELSE apc[a]]
  /\ caller' = [h \in Handlers |-> Gone]
  /\ posts' = {}
  /\ UNCHANGED <<batch, cur, ran, verdict>>

Next ==
  \/ \E n \in Hosts : Submit(n)
  \/ \E a \in Agents, h \in Handlers : Poll(a, h)
  \/ \E h \in Handlers :
       \/ Claim(h) \/ ClaimRefused(h) \/ ClaimBusy(h) \/ ClaimCancelled(h)
       \/ ReplyArrives(h) \/ ReplyUnread(h) \/ PollBreaks(h)
  \/ \E a \in Agents :
       \/ Execute(a) \/ CommandExits(a) \/ SendResult(a)
       \/ ResultAnswered(a) \/ ResultAbandoned(a) \/ AgentCrash(a)
  \/ \E m \in Posts : RecordResult(m) \/ ResultBusy(m) \/ ResultLost(m)
  \/ ServerCrash

Spec == Init /\ [][Next]_vars

-----------------------------------------------------------------------------
(* Fairness.  The agent's loop polls for ever, a goroutine takes its next  *)
(* statement, a post that is not lost is handled.  Strong fairness where   *)
(* another's step can disable one for a while: a commit and a result wait  *)
(* for locks (SQLite's pending lock holds off new readers), a poll for a   *)
(* handler (the server has no bound on them).  CommandsExit is not the     *)
(* code's: the agent waits for a command without a timeout.                *)

ServerFairness ==
  \A h \in Handlers :
    /\ WF_vars(Claim(h) \/ ClaimRefused(h) \/ ReplyArrives(h) \/ ReplyUnread(h))
    /\ SF_vars(ClaimCommit(h) /\ UNCHANGED <<agentVars, netVars>>)

AgentFairness ==
  \A a \in Agents :
    /\ SF_vars(\E h \in Handlers : Poll(a, h))
    /\ WF_vars(Execute(a) \/ SendResult(a) \/ ResultAnswered(a))

ResultFairness ==
  \A j \in JobIds : SF_vars(\E s \in Final : RecordResult([id |-> j, status |-> s]))

CommandsExit == \A a \in Agents : WF_vars(CommandExits(a))

FairSpec == Spec /\ ServerFairness /\ AgentFairness /\ ResultFairness /\ CommandsExit

-----------------------------------------------------------------------------
(* Properties *)

\* No command runs twice, whatever is lost, crashes or is polled concurrently:
\* a script or a patch is not idempotent.
AtMostOnce == \A j \in JobIds : ran[j] <= 1

\* An agent executes and reports the jobs of its own host only.
HostIsolation == \A a \in Agents : cur[a] # 0 => hostname[cur[a]] = AgentHost[a]

\* What the dashboard shows of a finished job is what the agent concluded, and
\* a job shown as done was executed.
TruthfulResult ==
  \A j \in JobIds : status[j] \in Final =>
    /\ verdict[j] = status[j]
    /\ status[j] = "done" => ran[j] = 1

\* CompleteJob updates by id alone.  It is safe because any result on its way
\* is the only one for its job, and its job is running.
ResultsForRunningJobs ==
  \A m \in posts :
    /\ status[m.id] = "running"
    /\ \A p \in posts : p.id = m.id => p = m

\* Whoever holds a job to be executed: a live reply or the batch of an agent.
Holders(j) ==
  {h \in Handlers : hpc[h] = "replying" /\ caller[h] # Gone /\ j \in out[h]}
    \cup {a \in Agents : j \in batch[a]}

\* A job of which nobody will ever report a result.
Orphan(j) ==
  /\ status[j] = "running"
  /\ Holders(j) = {}
  /\ \A a \in Agents : cur[a] # j \/ apc[a] = "posting"
  /\ \A m \in posts : m.id # j

\* Contention, concurrent polls and slow commands alone lose no job: one that is
\* running with nobody to report it is the work of a fault.
OrphansNeedFaults == (\E j \in JobIds : Orphan(j)) => faults > 0

\* On a host with one agent commands start in the order they were queued.
SoleAgent(n) == \A a, b \in Agents : AgentHost[a] = n /\ AgentHost[b] = n => a = b

StartedInOrder ==
  [][\A i, j \in JobIds :
       i < j /\ hostname[i] = hostname[j] /\ SoleAgent(hostname[i]) /\ ran[j] > 0
         => ran'[i] = ran[i]]_vars

\* The recorded outcome of a job is never overwritten.
FinalIsFinal ==
  [][\A j \in JobIds : status[j] \in Final => status'[j] = status[j]]_vars

\* The channel does what JobLifecycle promises.
Lifecycle == INSTANCE JobLifecycle

LifecycleSpec == Lifecycle!Spec

Served(n) == \E a \in Agents : AgentHost[a] = n

\* Once the faults stop, a job queued for a host with an agent is handed out.
PendingIsClaimed ==
  \A j \in JobIds :
    (status[j] = "pending" /\ Served(hostname[j])) ~> (status[j] # "pending")

\* The locks never leave two claims waiting for each other: a poll that is being
\* served is answered or refused.
ClaimAnswered == \A h \in Handlers : (hpc[h] # "idle") ~> (hpc[h] = "idle")

\* Without faults, a job that was handed out gets a result.
FinishesUnlessFault ==
  \A j \in JobIds : (status[j] = "running") ~> (status[j] \in Final \/ faults > 0)

\* "Lifecycle: pending -> running -> done|failed": a running job gets a result.
RunningFinishes == \A j \in JobIds : (status[j] = "running") ~> (status[j] \in Final)

\* "failed" = could not dispatch: the command was not started.
FailedMeansNotDispatched ==
  \A j \in JobIds : verdict[j] = "failed" => ran[j] = 0
=============================================================================
