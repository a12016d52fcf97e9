----------------------------- MODULE AgentJobs -----------------------------
(***************************************************************************)
(* The command-channel thread of an agent: poll_and_run in a loop.  It     *)
(* polls for the jobs of its host, and for each job of the reply, in       *)
(* order, executes the command and posts a result.  Errors are logged and  *)
(* swallowed: a result whose post fails is not kept.                       *)
(*                                                                         *)
(* The thread waits for the command (wait_with_output, output), with no    *)
(* timeout.  What the server answers comes from CommandChannel.            *)
(***************************************************************************)
EXTENDS Jobs

CONSTANTS
  Agents,      \* agent processes
  AgentHost    \* AgentHost[a]: the host name agent a polls with

ASSUME AgentHostIsHost == AgentHost \in [Agents -> Hosts]

VARIABLES
  apc,      \* apc[a]: where the thread of a is in poll_and_run
  batch,    \* batch[a]: the jobs of the reply not executed yet
  cur,      \* cur[a]: the job a is executing or reporting, 0 for none
  ran,      \* ran[j]: how often the command of j was started (history)
  verdict   \* verdict[j]: the status execute() gave to j, if it did (history)

historyVars == <<ran, verdict>>
agentVars   == <<apc, batch, cur, ran, verdict>>

Verdicts == {"none"} \cup Final

\* Types of the state of the agents' threads.
AgentTypeOK ==
  /\ apc \in [Agents -> {"idle", "polling", "batch", "running", "reporting", "posting"}]
  /\ batch \in [Agents -> SUBSET JobIds]
  /\ cur \in [Agents -> JobIds \cup {0}]
  /\ ran \in [JobIds -> Nat]
  /\ verdict \in [JobIds -> Verdicts]

AgentInit ==
  /\ apc = [a \in Agents |-> "idle"]
  /\ batch = [a \in Agents |-> {}]
  /\ cur = [a \in Agents |-> 0]
  /\ ran = [j \in JobIds |-> 0]
  /\ verdict = [j \in JobIds |-> "none"]

\* GET /v1/agent/jobs/{host} is sent.
PollJobs(a) ==
  /\ apc[a] = "idle"
  /\ apc' = [apc EXCEPT ![a] = "polling"]
  /\ UNCHANGED <<batch, cur, historyVars>>

\* Variant: only the first job of the reply is kept.
GetFirstJob(a, S) ==
  /\ apc[a] = "polling"
  /\ apc' = [apc EXCEPT ![a] = "batch"]
  /\ batch' = [batch EXCEPT ![a] = {j \in S : \A i \in S : j <= i}]
  /\ UNCHANGED <<cur, historyVars>>

\* The reply is the list of jobs in S.
GetJobs(a, S) ==
  /\ apc[a] = "polling"
  /\ apc' = [apc EXCEPT ![a] = "batch"]
  /\ batch' = [batch EXCEPT ![a] = S]
  /\ UNCHANGED <<cur, historyVars>>

\* Variant: an error ends the thread.
PollFailsForGood(a) ==
  /\ apc[a] = "polling"
  /\ UNCHANGED agentVars

\* An error status, a transport error or an undecodable body: try again later.
PollFails(a) ==
  /\ apc[a] = "polling"
  /\ apc' = [apc EXCEPT ![a] = "idle"]
  /\ UNCHANGED <<batch, cur, historyVars>>

\* Variant: the list is executed from its end.
IsLast(a, j) == j \in batch[a] /\ \A i \in batch[a] : j >= i

\* The jobs of a reply are executed in its order, that of their ids.
IsNext(a, j) == j \in batch[a] /\ \A i \in batch[a] : j <= i

TakeNext(a, j) ==
  /\ apc[a] = "batch"
  /\ IsNext(a, j)
  /\ batch' = [batch EXCEPT ![a] = @ \ {j}]
  /\ cur' = [cur EXCEPT ![a] = j]

\* execute: the child process is spawned.
StartCommand(a, j) ==
  /\ TakeNext(a, j)
  /\ apc' = [apc EXCEPT ![a] = "running"]
  /\ ran' = [ran EXCEPT ![j] = @ + 1]
  /\ UNCHANGED verdict

\* Variant: a command that could not be started is reported as done.
CannotStartIsDone(a, j) ==
  /\ TakeNext(a, j)
  /\ apc' = [apc EXCEPT ![a] = "reporting"]
  /\ verdict' = [verdict EXCEPT ![j] = "done"]
  /\ UNCHANGED ran

\* execute: unknown shell, or the spawn fails.
CannotStart(a, j) ==
  /\ TakeNext(a, j)
  /\ apc' = [apc EXCEPT ![a] = "reporting"]
  /\ verdict' = [verdict EXCEPT ![j] = "failed"]
  /\ UNCHANGED ran

\* The child process exited, with any exit code ("done"); or writing its stdin
\* or waiting for it failed after it was spawned ("failed").
CommandEnds(a, s) ==
  /\ apc[a] = "running"
  /\ apc' = [apc EXCEPT ![a] = "reporting"]
  /\ verdict' = [verdict EXCEPT ![cur[a]] = s]
  /\ UNCHANGED <<batch, cur, ran>>

\* POST /v1/agent/jobs/{id}/result is sent.
PostResult(a) ==
  /\ apc[a] = "reporting"
  /\ apc' = [apc EXCEPT ![a] = "posting"]
  /\ UNCHANGED <<batch, cur, historyVars>>

\* Variants: the post, or the whole job, is tried again.
PostAgain(a) ==
  /\ apc[a] = "posting"
  /\ apc' = [apc EXCEPT ![a] = "reporting"]
  /\ UNCHANGED <<batch, cur, historyVars>>

ExecuteAgain(a) ==
  /\ apc[a] = "posting"
  /\ apc' = [apc EXCEPT ![a] = "batch"]
  /\ batch' = [batch EXCEPT ![a] = @ \cup {cur[a]}]
  /\ cur' = [cur EXCEPT ![a] = 0]
  /\ UNCHANGED historyVars

\* The post returns, Ok or Err: either way the result is dropped.
PostReturns(a) ==
  /\ apc[a] = "posting"
  /\ apc' = [apc EXCEPT ![a] = "batch"]
  /\ cur' = [cur EXCEPT ![a] = 0]
  /\ UNCHANGED <<batch, historyVars>>

\* End of the for loop; the thread sleeps until the next poll.
BatchDone(a) ==
  /\ apc[a] = "batch"
  /\ batch[a] = {}
  /\ apc' = [apc EXCEPT ![a] = "idle"]
  /\ UNCHANGED <<batch, cur, historyVars>>

\* The agent process stops and starts again; nothing of it is persisted.
Crash(a) ==
  /\ apc' = [apc EXCEPT ![a] = "idle"]
  /\ batch' = [batch EXCEPT ![a] = {}]
  /\ cur' = [cur EXCEPT ![a] = 0]
  /\ UNCHANGED historyVars
=============================================================================
