------------------------- MODULE ScriptAuditProofs -------------------------
(***************************************************************************)
(* The audit trail of remote scripts, for any number of requests and       *)
(* faults: it tells the truth, the ids in answers are right, and a missing *)
(* row has one of two causes.                                              *)
(***************************************************************************)
EXTENDS ScriptAudit, TLAPS

\* How far a request is tells what is known of its script.
StageIsKnown ==
  \A r \in Requests :
    /\ pc[r] \in {"new", "dispatching"} => ~started[r]
    /\ pc[r] \in {"new", "dispatching", "dispatched"} => outcome[r] = "none"
    /\ pc[r] \in {"saving", "replying"} => outcome[r] \in Outcomes
    /\ outcome[r] = "ok" => exited[r]

\* A row is what its request saved; only then is there an id for it.
RowsAreSaved ==
  \A w \in rows :
    /\ pc[w.req] \in {"replying", "done", "lost"}
    /\ w.id = runId[w.req]
    /\ w.status = outcome[w.req]

IdsAreOfRows ==
  \A r \in Requests : runId[r] # 0 =>
    [id |-> runId[r], req |-> r, status |-> outcome[r]] \in rows

\* A request past its INSERT has a row, or there is a cause.
PastSaveHasCause ==
  \A r \in Requests : pc[r] \in {"replying", "done"} /\ started[r] =>
    \/ \E w \in rows : w.req = r
    \/ ~alive[r]
    \/ r \in unsaved

AuditInv ==
  TypeOK /\ StageIsKnown /\ RowsAreSaved /\ IdsAreOfRows /\ AnswerNamesRow /\ PastSaveHasCause

LEMMA AuditInitInv == Init => AuditInv
  BY MaxFaultsIsNat DEF Init, AuditInv, TypeOK, StageIsKnown, RowsAreSaved, IdsAreOfRows,
     AnswerNamesRow, PastSaveHasCause, NoAnswer

\* The variables keep their types.
LEMMA AuditTypes ==
  ASSUME TypeOK, StageIsKnown, [Next]_vars
  PROVE  TypeOK'
<1> USE MaxFaultsIsNat DEF TypeOK, Go, Fault, InFlight, Outcomes
<1>1. ASSUME NEW r \in Requests, Refuse(r) PROVE TypeOK'
  BY <1>1 DEF Refuse
<1>2. ASSUME NEW r \in Requests, Receive(r) PROVE TypeOK'
  BY <1>2 DEF Receive
<1>3. ASSUME NEW r \in Requests, NotDispatched(r) PROVE TypeOK'
  BY <1>3 DEF NotDispatched, Returns
<1>4. ASSUME NEW r \in Requests, Dispatch(r) PROVE TypeOK'
  BY <1>4 DEF Dispatch
<1>5. ASSUME NEW r \in Requests, ScriptExits(r) PROVE TypeOK'
  BY <1>5 DEF ScriptExits, Returns
<1>6. ASSUME NEW r \in Requests, ConnectionBreaks(r) PROVE TypeOK'
  BY <1>6 DEF ConnectionBreaks, Returns
<1>7. ASSUME NEW r \in Requests, Cancelled(r) PROVE TypeOK'
  BY <1>7 DEF Cancelled, Returns
<1>8. ASSUME NEW r \in Requests, ContextEnds(r) PROVE TypeOK'
  BY <1>8 DEF ContextEnds
<1>9. ASSUME NEW r \in Requests, Save(r) PROVE TypeOK'
  <2>1. outcome[r] \in Outcomes
    BY <1>9 DEF Save, StageIsKnown
  <2>2. /\ lastId' = lastId + 1 /\ lastId' \in Nat /\ 0..lastId \subseteq 0..lastId'
        /\ 1..lastId \subseteq 1..lastId' /\ lastId' \in 1..lastId' /\ lastId' \in 0..lastId'
    BY <1>9 DEF Save
  <2>3. rows' \subseteq [id : 1..lastId', req : Requests, status : Outcomes]
    BY <1>9, <2>1, <2>2 DEF Save
  <2>4. runId' \in [Requests -> 0..lastId']
    BY <1>9, <2>2 DEF Save
  <2>5. answer' \in [Requests -> {NoAnswer} \cup [id : 0..lastId',
                                                 status : Outcomes \cup {"refused"}]]
    BY <1>9, <2>2 DEF Save
  <2> QED BY <1>9, <2>2, <2>3, <2>4, <2>5 DEF Save
<1>10. ASSUME NEW r \in Requests, NotSaved(r) \/ SaveBusy(r) PROVE TypeOK'
  BY <1>10 DEF NotSaved, SaveBusy
<1>11. ASSUME NEW r \in Requests, Reply(r) PROVE TypeOK'
  <2>1. outcome[r] \in Outcomes /\ runId[r] \in 0..lastId
    BY <1>11 DEF Reply, StageIsKnown
  <2> QED BY <1>11, <2>1 DEF Reply
<1>12. CASE Restart
  BY <1>12 DEF Restart
<1>13. CASE UNCHANGED vars
  BY <1>13 DEF vars
<1> QED BY <1>1, <1>2, <1>3, <1>4, <1>5, <1>6, <1>7, <1>8, <1>9, <1>10, <1>11, <1>12, <1>13
        DEF Next, Idle

\* A request whose script is not over has no row.
LEMMA NoRowYet ==
  ASSUME AuditInv, NEW r \in Requests, pc[r] \in {"dispatching", "dispatched"}
  PROVE  runId[r] = 0
<1> SUFFICES ASSUME runId[r] # 0 PROVE FALSE
  OBVIOUS
<1>1. PICK w \in rows : w = [id |-> runId[r], req |-> r, status |-> outcome[r]]
  BY DEF AuditInv, IdsAreOfRows
<1>2. w.req = r
  BY <1>1
<1> QED BY <1>2 DEF AuditInv, RowsAreSaved

\* Every step keeps the invariant.
LEMMA AuditNextInv ==
  ASSUME AuditInv, [Next]_vars
  PROVE  AuditInv'
<1> USE DEF AuditInv, TypeOK, Go, Fault, InFlight, Outcomes
<1>0. TypeOK'
  BY AuditTypes
<1>1. ASSUME NEW r \in Requests, Refuse(r) PROVE AuditInv'
  <2>1. StageIsKnown'
    BY <1>1 DEF Refuse, StageIsKnown
  <2>2. RowsAreSaved'
    BY <1>1 DEF Refuse, RowsAreSaved
  <2>3. IdsAreOfRows'
    BY <1>1 DEF Refuse, IdsAreOfRows
  <2>4. AnswerNamesRow'
    BY <1>1 DEF Refuse, AnswerNamesRow
  <2>5. PastSaveHasCause'
    BY <1>1 DEF Refuse, PastSaveHasCause, StageIsKnown
  <2> QED BY <1>0, <2>1, <2>2, <2>3, <2>4, <2>5
<1>2. ASSUME NEW r \in Requests, Receive(r) PROVE AuditInv'
  <2>1. StageIsKnown'
    BY <1>2 DEF Receive, StageIsKnown
  <2>2. RowsAreSaved'
    BY <1>2 DEF Receive, RowsAreSaved
  <2>3. IdsAreOfRows'
    BY <1>2 DEF Receive, IdsAreOfRows
  <2>4. AnswerNamesRow'
    BY <1>2 DEF Receive, AnswerNamesRow
  <2>5. PastSaveHasCause'
    BY <1>2 DEF Receive, PastSaveHasCause
  <2> QED BY <1>0, <2>1, <2>2, <2>3, <2>4, <2>5
<1>3. ASSUME NEW r \in Requests, NotDispatched(r) PROVE AuditInv'
  <2>1. StageIsKnown'
    BY <1>3 DEF NotDispatched, Returns, StageIsKnown
  <2>2. RowsAreSaved'
    BY <1>3 DEF NotDispatched, Returns, RowsAreSaved
  <2>3. IdsAreOfRows'
    <3>1. pc[r] \in {"dispatching", "dispatched"}
      BY <1>3 DEF NotDispatched, Returns
    <3>2. runId[r] = 0
      BY <3>1, NoRowYet
    <3> QED BY <1>3, <3>2 DEF NotDispatched, Returns, IdsAreOfRows
  <2>4. AnswerNamesRow'
    BY <1>3 DEF NotDispatched, Returns, AnswerNamesRow
  <2>5. PastSaveHasCause'
    BY <1>3 DEF NotDispatched, Returns, PastSaveHasCause
  <2> QED BY <1>0, <2>1, <2>2, <2>3, <2>4, <2>5
<1>4. ASSUME NEW r \in Requests, Dispatch(r) PROVE AuditInv'
  <2>1. StageIsKnown'
    BY <1>4 DEF Dispatch, StageIsKnown
  <2>2. RowsAreSaved'
    BY <1>4 DEF Dispatch, RowsAreSaved
  <2>3. IdsAreOfRows'
    BY <1>4 DEF Dispatch, IdsAreOfRows
  <2>4. AnswerNamesRow'
    BY <1>4 DEF Dispatch, AnswerNamesRow
  <2>5. PastSaveHasCause'
    BY <1>4 DEF Dispatch, PastSaveHasCause
  <2> QED BY <1>0, <2>1, <2>2, <2>3, <2>4, <2>5
<1>5. ASSUME NEW r \in Requests, ScriptExits(r) PROVE AuditInv'
  <2>1. StageIsKnown'
    BY <1>5 DEF ScriptExits, Returns, StageIsKnown
  <2>2. RowsAreSaved'
    BY <1>5 DEF ScriptExits, Returns, RowsAreSaved
  <2>3. IdsAreOfRows'
    <3>1. pc[r] \in {"dispatching", "dispatched"}
      BY <1>5 DEF ScriptExits, Returns
    <3>2. runId[r] = 0
      BY <3>1, NoRowYet
    <3> QED BY <1>5, <3>2 DEF ScriptExits, Returns, IdsAreOfRows
  <2>4. AnswerNamesRow'
    BY <1>5 DEF ScriptExits, Returns, AnswerNamesRow
  <2>5. PastSaveHasCause'
    BY <1>5 DEF ScriptExits, Returns, PastSaveHasCause
  <2> QED BY <1>0, <2>1, <2>2, <2>3, <2>4, <2>5
<1>6. ASSUME NEW r \in Requests, ConnectionBreaks(r) PROVE AuditInv'
  <2>1. StageIsKnown'
    BY <1>6 DEF ConnectionBreaks, Returns, StageIsKnown
  <2>2. RowsAreSaved'
    BY <1>6 DEF ConnectionBreaks, Returns, RowsAreSaved
  <2>3. IdsAreOfRows'
    <3>1. pc[r] \in {"dispatching", "dispatched"}
      BY <1>6 DEF ConnectionBreaks, Returns
    <3>2. runId[r] = 0
      BY <3>1, NoRowYet
    <3> QED BY <1>6, <3>2 DEF ConnectionBreaks, Returns, IdsAreOfRows
  <2>4. AnswerNamesRow'
    BY <1>6 DEF ConnectionBreaks, Returns, AnswerNamesRow
  <2>5. PastSaveHasCause'
    BY <1>6 DEF ConnectionBreaks, Returns, PastSaveHasCause
  <2> QED BY <1>0, <2>1, <2>2, <2>3, <2>4, <2>5
<1>7. ASSUME NEW r \in Requests, Cancelled(r) PROVE AuditInv'
  <2>1. StageIsKnown'
    BY <1>7 DEF Cancelled, Returns, StageIsKnown
  <2>2. RowsAreSaved'
    BY <1>7 DEF Cancelled, Returns, RowsAreSaved
  <2>3. IdsAreOfRows'
    <3>1. pc[r] \in {"dispatching", "dispatched"}
      BY <1>7 DEF Cancelled, Returns
    <3>2. runId[r] = 0
      BY <3>1, NoRowYet
    <3> QED BY <1>7, <3>2 DEF Cancelled, Returns, IdsAreOfRows
  <2>4. AnswerNamesRow'
    BY <1>7 DEF Cancelled, Returns, AnswerNamesRow
  <2>5. PastSaveHasCause'
    BY <1>7 DEF Cancelled, Returns, PastSaveHasCause
  <2> QED BY <1>0, <2>1, <2>2, <2>3, <2>4, <2>5
<1>8. ASSUME NEW r \in Requests, ContextEnds(r) PROVE AuditInv'
  <2>1. StageIsKnown'
    BY <1>8 DEF ContextEnds, StageIsKnown
  <2>2. RowsAreSaved'
    BY <1>8 DEF ContextEnds, RowsAreSaved
  <2>3. IdsAreOfRows'
    BY <1>8 DEF ContextEnds, IdsAreOfRows
  <2>4. AnswerNamesRow'
    BY <1>8 DEF ContextEnds, AnswerNamesRow
  <2>5. PastSaveHasCause'
    BY <1>8 DEF ContextEnds, PastSaveHasCause
  <2> QED BY <1>0, <2>1, <2>2, <2>3, <2>4, <2>5
<1>9. ASSUME NEW r \in Requests, Save(r) PROVE AuditInv'
  <2>1. StageIsKnown'
    BY <1>9 DEF Save, StageIsKnown
  <2>2. RowsAreSaved'
    BY <1>9 DEF Save, RowsAreSaved
  <2>3. IdsAreOfRows'
    BY <1>9 DEF Save, IdsAreOfRows
  <2>4. AnswerNamesRow'
    BY <1>9 DEF Save, AnswerNamesRow
  <2>5. PastSaveHasCause'
    <3>1. \E w \in rows' : w.req = r
      <4> DEFINE w == [id |-> lastId + 1, req |-> r, status |-> outcome[r]]
      <4>1. w \in rows' /\ w.req = r
        BY <1>9 DEF Save
      <4> QED BY <4>1
    <3> QED BY <1>9, <3>1 DEF Save, PastSaveHasCause
  <2> QED BY <1>0, <2>1, <2>2, <2>3, <2>4, <2>5
<1>10. ASSUME NEW r \in Requests, NotSaved(r) PROVE AuditInv'
  <2>1. StageIsKnown'
    BY <1>10 DEF NotSaved, StageIsKnown
  <2>2. RowsAreSaved'
    BY <1>10 DEF NotSaved, RowsAreSaved
  <2>3. IdsAreOfRows'
    BY <1>10 DEF NotSaved, IdsAreOfRows
  <2>4. AnswerNamesRow'
    BY <1>10 DEF NotSaved, AnswerNamesRow
  <2>5. PastSaveHasCause'
    BY <1>10 DEF NotSaved, PastSaveHasCause
  <2> QED BY <1>0, <2>1, <2>2, <2>3, <2>4, <2>5
<1>11. ASSUME NEW r \in Requests, SaveBusy(r) PROVE AuditInv'
  <2>1. StageIsKnown'
    BY <1>11 DEF SaveBusy, StageIsKnown
  <2>2. RowsAreSaved'
    BY <1>11 DEF SaveBusy, RowsAreSaved
  <2>3. IdsAreOfRows'
    BY <1>11 DEF SaveBusy, IdsAreOfRows
  <2>4. AnswerNamesRow'
    BY <1>11 DEF SaveBusy, AnswerNamesRow
  <2>5. PastSaveHasCause'
    BY <1>11 DEF SaveBusy, PastSaveHasCause
  <2> QED BY <1>0, <2>1, <2>2, <2>3, <2>4, <2>5
<1>12. ASSUME NEW r \in Requests, Reply(r) PROVE AuditInv'
  <2>1. StageIsKnown'
    BY <1>12 DEF Reply, StageIsKnown
  <2>2. RowsAreSaved'
    BY <1>12 DEF Reply, RowsAreSaved
  <2>3. IdsAreOfRows'
    BY <1>12 DEF Reply, IdsAreOfRows
  <2>4. AnswerNamesRow'
    BY <1>12 DEF Reply, AnswerNamesRow, IdsAreOfRows
  <2>5. PastSaveHasCause'
    BY <1>12 DEF Reply, PastSaveHasCause
  <2> QED BY <1>0, <2>1, <2>2, <2>3, <2>4, <2>5
<1>13. CASE Restart
  BY <1>0, <1>13 DEF Restart, StageIsKnown, RowsAreSaved, IdsAreOfRows, AnswerNamesRow,
     PastSaveHasCause
<1>14. CASE UNCHANGED vars
  BY <1>0, <1>14 DEF vars, StageIsKnown, RowsAreSaved, IdsAreOfRows, AnswerNamesRow,
     PastSaveHasCause
<1> QED BY <1>1, <1>2, <1>3, <1>4, <1>5, <1>6, <1>7, <1>8, <1>9, <1>10, <1>11, <1>12, <1>13, <1>14
        DEF Next, Idle

LEMMA AuditInvariant == Spec => []AuditInv
<1>1. AuditInv /\ [Next]_vars => AuditInv'
  BY AuditNextInv
<1> QED BY <1>1, AuditInitInv, PTL DEF Spec

\* The trail tells the truth: "ok" only of a script that came to its end, and no
\* request twice.
THEOREM TrailTellsTruth == Spec => []TrailIsTruthful
<1>1. AuditInv => TrailIsTruthful
  BY DEF AuditInv, TypeOK, StageIsKnown, RowsAreSaved, TrailIsTruthful
<1> QED BY <1>1, AuditInvariant, PTL

\* The run_id of an answer is that of the row of its own request.
THEOREM AnswersNameRows == Spec => []AnswerNamesRow
<1>1. AuditInv => AnswerNamesRow
  BY DEF AuditInv
<1> QED BY <1>1, AuditInvariant, PTL

\* No path through the handler skips the audit: a script that was started and has
\* no row when its request was answered lost it to the end of the context or to a
\* lock its INSERT met.
THEOREM MissingRowsHaveCause == Spec => []MissingRowHasCause
<1>1. AuditInv => MissingRowHasCause
  BY DEF AuditInv, PastSaveHasCause, MissingRowHasCause, RowsOf
<1> QED BY <1>1, AuditInvariant, PTL
=============================================================================
