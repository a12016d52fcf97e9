---------------------------- MODULE ScriptAudit ----------------------------
(***************************************************************************)
(* Remote scripts over WinRM: postScriptRun runs a script on an endpoint   *)
(* and records it in the audit trail, under one context that ends when the *)
(* client leaves or after four minutes.                                    *)
(*                                                                         *)
(* Handlers of concurrent requests interleave.  The endpoint and the WinRM *)
(* client are external: a script is dispatched or not, it may never end,   *)
(* and the connection may break while it runs.                             *)
(***************************************************************************)
EXTENDS Naturals

CONSTANTS
  Requests,   \* requests to run a script
  MaxFaults   \* bound: broken connections, refused INSERTs and restarts

ASSUME MaxFaultsIsNat == MaxFaults \in Nat

VARIABLES
  pc,       \* pc[r]: where the handler of r is
  alive,    \* alive[r]: the context of r has not ended
  outcome,  \* outcome[r]: audit.Status, from the error RunScript returned
  runId,    \* runId[r]: the id SaveScriptRun returned, 0 with an error
  rows,     \* the rows of script_runs
  lastId,   \* the AUTOINCREMENT id of the last row
  answer,   \* answer[r]: run_id and status of the response
  started,  \* started[r]: the script was started on the endpoint (history)
  exited,   \* exited[r]: the script came to its end there (history)
  unsaved,  \* the requests whose INSERT was refused (history)
  faults    \* how many faults happened

vars == <<pc, alive, outcome, runId, rows, lastId, answer, started, exited, unsaved, faults>>

NoAnswer == [id |-> 0, status |-> "none"]

Outcomes == {"ok", "failed"}

InFlight == {"dispatching", "dispatched", "saving", "replying"}

\* Types: the handlers, the trail and the answers; run ids are ids of rows.
TypeOK ==
  /\ pc \in [Requests -> {"new", "done", "lost"} \cup InFlight]
  /\ alive \in [Requests -> BOOLEAN]
  /\ outcome \in [Requests -> {"none"} \cup Outcomes]
  /\ lastId \in Nat
  /\ runId \in [Requests -> 0..lastId]
  /\ rows \subseteq [id : 1..lastId, req : Requests, status : Outcomes]
  /\ answer \in [Requests -> {NoAnswer} \cup [id : 0..lastId, status : Outcomes \cup {"refused"}]]
  /\ started \in [Requests -> BOOLEAN]
  /\ exited \in [Requests -> BOOLEAN]
  /\ unsaved \subseteq Requests
  /\ faults \in 0..MaxFaults

Init ==
  /\ pc = [r \in Requests |-> "new"]
  /\ alive = [r \in Requests |-> TRUE]
  /\ outcome = [r \in Requests |-> "none"]
  /\ runId = [r \in Requests |-> 0]
  /\ rows = {}
  /\ lastId = 0
  /\ answer = [r \in Requests |-> NoAnswer]
  /\ started = [r \in Requests |-> FALSE]
  /\ exited = [r \in Requests |-> FALSE]
  /\ unsaved = {}
  /\ faults = 0

Fault == faults < MaxFaults /\ faults' = faults + 1

Go(r, from, to) == pc[r] = from /\ pc' = [pc EXCEPT ![r] = to]

-----------------------------------------------------------------------------
(* RunScript *)

\* The request lacks a field: 400, nothing is run and nothing recorded.
Refuse(r) ==
  /\ Go(r, "new", "done")
  /\ answer' = [answer EXCEPT ![r] = [id |-> 0, status |-> "refused"]]
  /\ UNCHANGED <<alive, outcome, runId, rows, lastId, started, exited, unsaved, faults>>

Receive(r) ==
  /\ Go(r, "new", "dispatching")
  /\ UNCHANGED <<alive, outcome, runId, rows, lastId, answer, started, exited, unsaved, faults>>

\* RunScript returns.
Returns(r, from, o) ==
  /\ Go(r, from, "saving")
  /\ outcome' = [outcome EXCEPT ![r] = o]
  /\ UNCHANGED <<alive, runId, rows, lastId, answer, started, unsaved>>

\* An unknown shell, no connection, access denied: an error, before the script
\* is started.
NotDispatched(r) == Returns(r, "dispatching", "failed") /\ UNCHANGED <<exited, faults>>

\* The script is started on the endpoint.
Dispatch(r) ==
  /\ Go(r, "dispatching", "dispatched")
  /\ alive[r]
  /\ started' = [started EXCEPT ![r] = TRUE]
  /\ UNCHANGED <<alive, outcome, runId, rows, lastId, answer, exited, unsaved, faults>>

\* The script ends, with whatever exit code.
ScriptExits(r) ==
  /\ Returns(r, "dispatched", "ok")
  /\ exited' = [exited EXCEPT ![r] = TRUE]
  /\ UNCHANGED faults

\* Variant: the error is dropped, the empty result is taken for a result.
BrokenIsOk(r) == Fault /\ Returns(r, "dispatched", "ok") /\ UNCHANGED exited

\* The connection breaks while the script runs: an error.
ConnectionBreaks(r) == Fault /\ Returns(r, "dispatched", "failed") /\ UNCHANGED exited

\* Variant: the client is called without the context.
NeverCancelled(r) == FALSE

\* The context has ended: an error, whatever becomes of the script.
Cancelled(r) ==
  /\ ~alive[r]
  /\ \/ Returns(r, "dispatching", "failed")
     \/ Returns(r, "dispatched", "failed")
  /\ UNCHANGED <<exited, faults>>

ContextEnds(r) ==
  /\ pc[r] \in InFlight
  /\ alive[r]
  /\ alive' = [alive EXCEPT ![r] = FALSE]
  /\ UNCHANGED <<pc, outcome, runId, rows, lastId, answer, started, exited, unsaved, faults>>

-----------------------------------------------------------------------------
(* SaveScriptRun and the response *)

Save(r) ==
  /\ Go(r, "saving", "replying")
  /\ alive[r]
  /\ lastId' = lastId + 1
  /\ rows' = rows \cup {[id |-> lastId + 1, req |-> r, status |-> outcome[r]]}
  /\ runId' = [runId EXCEPT ![r] = lastId + 1]
  /\ UNCHANGED <<alive, outcome, answer, started, exited, unsaved, faults>>

\* Variant: the handler returns on an error of RunScript before it saves.
SkipsFailed(r) ==
  /\ Go(r, "saving", "replying")
  /\ ~alive[r] \/ outcome[r] = "failed"
  /\ UNCHANGED <<alive, outcome, runId, rows, lastId, answer, started, exited, unsaved, faults>>

\* ExecContext does not run with a context that has ended.  The error is logged.
NotSaved(r) ==
  /\ Go(r, "saving", "replying")
  /\ ~alive[r]
  /\ UNCHANGED <<alive, outcome, runId, rows, lastId, answer, started, exited, unsaved, faults>>

\* The INSERT meets another's lock.  The error is logged.
SaveBusy(r) ==
  /\ Fault
  /\ Go(r, "saving", "replying")
  /\ unsaved' = unsaved \cup {r}
  /\ UNCHANGED <<alive, outcome, runId, rows, lastId, answer, started, exited>>

\* Variant: the id of the last row is asked for when it is needed.
ReplyLastId(r) ==
  /\ Go(r, "replying", "done")
  /\ answer' = [answer EXCEPT ![r] = [id |-> lastId, status |-> outcome[r]]]
  /\ UNCHANGED <<alive, outcome, runId, rows, lastId, started, exited, unsaved, faults>>

Reply(r) ==
  /\ Go(r, "replying", "done")
  /\ answer' = [answer EXCEPT ![r] = [id |-> runId[r], status |-> outcome[r]]]
  /\ UNCHANGED <<alive, outcome, runId, rows, lastId, started, exited, unsaved, faults>>

\* The control plane stops: requests in flight are gone, rows stay.
Restart ==
  /\ Fault
  /\ pc' = [r \in Requests |-> IF pc[r] \in InFlight THEN "lost" ELSE pc[r]]
  /\ UNCHANGED <<alive, outcome, runId, rows, lastId, answer, started, exited, unsaved>>

Idle == (\A r \in Requests : pc[r] \in {"done", "lost"}) /\ UNCHANGED vars

Next ==
  \/ \E r \in Requests :
       \/ Refuse(r) \/ Receive(r) \/ NotDispatched(r) \/ Dispatch(r) \/ ScriptExits(r)
       \/ ConnectionBreaks(r) \/ Cancelled(r) \/ ContextEnds(r)
       \/ Save(r) \/ NotSaved(r) \/ SaveBusy(r) \/ Reply(r)
  \/ Restart
  \/ Idle

Spec == Init /\ [][Next]_vars

\* A handler takes its next step, and four minutes pass.  Nothing is assumed of
\* the endpoint: a script need not end.
Fairness ==
  \A r \in Requests :
    WF_vars(Cancelled(r) \/ ContextEnds(r) \/ Save(r) \/ NotSaved(r) \/ Reply(r))

FairSpec == Spec /\ Fairness

-----------------------------------------------------------------------------
(* Properties *)

RowsOf(r) == {w \in rows : w.req = r}

\* A run shown as ok came to its end on the endpoint, and a request has one row
\* at most.
TrailIsTruthful ==
  /\ \A w \in rows : w.status = "ok" => exited[w.req]
  /\ \A v, w \in rows : v.req = w.req => v = w

\* The run_id a client gets is that of its own row, whoever saves in between.
AnswerNamesRow ==
  \A r \in Requests : answer[r].id # 0 =>
    [id |-> answer[r].id, req |-> r, status |-> answer[r].status] \in rows

\* A script that was started and whose request was answered is in the trail,
\* unless its context ended or its INSERT met a lock: whatever RunScript
\* returned, an error included, the handler saves it.
MissingRowHasCause ==
  \A r \in Requests : pc[r] = "done" /\ started[r] /\ RowsOf(r) = {} =>
    ~alive[r] \/ r \in unsaved

\* A script that hangs does not hang the request.
RequestEnds == \A r \in Requests : (pc[r] \in InFlight) ~> (pc[r] \in {"done", "lost"})

\* "Records the result in the audit trail - ALWAYS": every script that was
\* started and whose request is over is in the trail.
AuditedAlways == \A r \in Requests : pc[r] = "done" /\ started[r] => RowsOf(r) # {}
=============================================================================
