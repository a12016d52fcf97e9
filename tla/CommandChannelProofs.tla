------------------------ MODULE CommandChannelProofs ------------------------
(***************************************************************************)
(* The safety of the command channel, for any number of hosts, jobs,       *)
(* handlers, agents and faults of every kind.                              *)
(*                                                                         *)
(* The argument follows a job through the places that can hold it.  While  *)
(* it is pending, in a reply or in a batch it is fresh: its command was    *)
(* never started and it has no verdict.  Replies and batches are disjoint. *)
(* Leaving a batch costs it its freshness, so it enters none again.        *)
(***************************************************************************)
EXTENDS CommandChannel, JobStoreProofs

Fresh(j) == ran[j] = 0 /\ verdict[j] = "none"

Active(a) == apc[a] \in {"running", "reporting", "posting"}

\* A job that was not handed out is fresh.
UnclaimedIsFresh == \A j \in JobIds : ~HandedOut(j) => Fresh(j)

\* So is a job in a reply.
RepliesAreFresh ==
  \A h \in Handlers : hpc[h] = "replying" =>
    \A j \in out[h] : status[j] = "running" /\ Fresh(j)

\* So is a job in a batch, which is of the agent's host, and of no other batch
\* and no reply.
BatchesAreFresh ==
  \A a \in Agents : \A j \in batch[a] :
    /\ status[j] = "running"
    /\ Fresh(j)
    /\ hostname[j] = AgentHost[a]
    /\ \A b \in Agents : j \in batch[b] => a = b
    /\ \A h \in Handlers : hpc[h] = "replying" => j \notin out[h]

\* The claim an agent waits for is one for its host, and the only one.
CallersWait ==
  \A h \in Handlers : caller[h] # Gone =>
    /\ apc[caller[h]] = "polling"
    /\ hpc[h] # "idle"
    /\ polled[h] = AgentHost[caller[h]]
    /\ \A g \in Handlers : caller[g] = caller[h] => g = h

\* What is known of the job an agent is executing or reporting.
CurrentJobs ==
  \A a \in Agents :
    /\ Active(a) <=> cur[a] # 0
    /\ Active(a) =>
         /\ hostname[cur[a]] = AgentHost[a]
         /\ HandedOut(cur[a])
         /\ \A b \in Agents : cur[b] = cur[a] => a = b
    /\ apc[a] = "running" =>
         status[cur[a]] = "running" /\ ran[cur[a]] = 1 /\ verdict[cur[a]] = "none"
    /\ apc[a] \in {"reporting", "posting"} => verdict[cur[a]] # "none"
    /\ apc[a] = "reporting" =>
         status[cur[a]] = "running" /\ \A m \in posts : m.id # cur[a]

\* A result on its way is the agent's verdict on a job that has no other result.
PostsAreVerdicts ==
  \A m \in posts : status[m.id] = "running" /\ verdict[m.id] = m.status

\* What is known of the history of a job.
Histories ==
  \A j \in JobIds :
    /\ ran[j] <= 1
    /\ verdict[j] = "done" => ran[j] = 1
    /\ status[j] \in Final => verdict[j] = status[j]

ChannelInv ==
  /\ TypeOK
  /\ UnclaimedIsFresh
  /\ RepliesAreFresh
  /\ BatchesAreFresh
  /\ CallersWait
  /\ CurrentJobs
  /\ PostsAreVerdicts
  /\ Histories

\* The channel starts in a good state.
LEMMA ChannelInitInv == Init => StoreInv /\ ChannelInv
<1> SUFFICES ASSUME Init PROVE ChannelInv
  BY StoreInitInv DEF Init
<1>1. TypeOK
  BY StoreInitInv, MaxFaultsIsNat
  DEF Init, AgentInit, TypeOK, StoreInv, AgentTypeOK, Verdicts
<1>2. UnclaimedIsFresh /\ RepliesAreFresh /\ BatchesAreFresh /\ CallersWait
  BY DEF Init, AgentInit, StoreInit, UnclaimedIsFresh, RepliesAreFresh, BatchesAreFresh,
     CallersWait, Fresh
<1>3. CurrentJobs /\ PostsAreVerdicts /\ Histories
  BY DEF Init, AgentInit, StoreInit, CurrentJobs, PostsAreVerdicts, Histories, Active, Final
<1> QED
  BY <1>1, <1>2, <1>3 DEF ChannelInv

\* What a step of the channel does to the store is a step of JobStore, whose
\* environment only reports jobs that were handed out.
LEMMA StoreStep == ChannelInv /\ [Next]_vars => [StoreNext]_storeVars
<1> SUFFICES ASSUME ChannelInv, Next PROVE [StoreNext]_storeVars
  BY DEF vars, storeVars
<1>1. ASSUME NEW n \in Hosts, Submit(n) PROVE StoreNext
  BY <1>1 DEF Submit, StoreNext
<1>2. ASSUME NEW a \in Agents, NEW h \in Handlers, Poll(a, h) PROVE StoreNext
  BY <1>2, AgentHostIsHost DEF Poll, StoreNext
<1>3. ASSUME NEW h \in Handlers, Claim(h) PROVE StoreNext
  BY <1>3 DEF Claim, StoreNext
<1>4. ASSUME NEW h \in Handlers, RefusePoll(h) PROVE StoreNext
  BY <1>4 DEF RefusePoll, StoreNext
<1>5. ASSUME NEW h \in Handlers, ReplyArrives(h) \/ ReplyUnread(h) PROVE StoreNext
  BY <1>5 DEF ReplyArrives, ReplyUnread, StoreNext
<1>6. ASSUME NEW m \in Posts, RecordResult(m) PROVE StoreNext
  <2>1. m.id \in JobIds /\ m.status \in Final \cup {"other"} /\ HandedOut(m.id)
    BY <1>6 DEF Posts, RecordResult, ChannelInv, PostsAreVerdicts, HandedOut
  <2> QED
    BY <1>6, <2>1 DEF RecordResult, StoreNext
<1>7. CASE ServerCrash
  BY <1>7 DEF ServerCrash, StoreNext
<1>8. ASSUME \/ \E h \in Handlers : PollBreaks(h)
             \/ \E a \in Agents : \/ Execute(a) \/ CommandExits(a) \/ SendResult(a)
                                  \/ ResultAnswered(a) \/ ResultAbandoned(a) \/ AgentCrash(a)
             \/ \E m \in Posts : ResultBusy(m) \/ ResultLost(m)
      PROVE UNCHANGED storeVars
  BY <1>8 DEF PollBreaks, Execute, CommandExits, SendResult, ResultAnswered, ResultAbandoned,
     AgentCrash, ResultBusy, ResultLost
<1> QED
  BY <1>1, <1>2, <1>3, <1>4, <1>5, <1>6, <1>7, <1>8
  DEF Next, ClaimRefused, ClaimBusy, ClaimCancelled
\* Every step of the channel keeps its invariant.
LEMMA ChannelNextInv ==
  StoreInv /\ ChannelInv /\ [Next]_vars => ChannelInv'
<1> SUFFICES ASSUME StoreInv, ChannelInv, [Next]_vars PROVE ChannelInv'
  OBVIOUS
<1>0. StoreTypeOK'
  BY StoreStep, StoreNextInv DEF StoreInv
<1> USE <1>0, MaxJobsIsNat, AgentHostIsHost, GoneIsNoAgent, MaxFaultsIsNat
  DEF ChannelInv, TypeOK, AgentTypeOK, StoreTypeOK, JobIds, Final, Posts, Fresh, Active,
      HandedOut, agentVars, historyVars, netVars, storeVars, jobVars, claimVars
<1>1. ASSUME NEW n \in Hosts, Submit(n)
      PROVE  ChannelInv'
  <2> USE <1>1 DEF Submit, EnqueueJob, NoLock, StoreInv, IdsInOrder, Status
  <2>1. TypeOK'
    OBVIOUS
  <2>2. UnclaimedIsFresh'
    BY DEF UnclaimedIsFresh
  <2>3. RepliesAreFresh'
    BY DEF RepliesAreFresh
  <2>4. BatchesAreFresh'
    BY DEF BatchesAreFresh
  <2>5. CallersWait'
    BY DEF CallersWait
  <2>6. CurrentJobs'
    BY DEF CurrentJobs
  <2>7. PostsAreVerdicts'
    BY DEF PostsAreVerdicts
  <2>8. Histories'
    BY DEF Histories
  <2> QED
    BY <2>1, <2>2, <2>3, <2>4, <2>5, <2>6, <2>7, <2>8
<1>2. ASSUME NEW a \in Agents, NEW h \in Handlers, Poll(a, h)
      PROVE  ChannelInv'
  <2> USE <1>2 DEF Poll, PollJobs, ReceivePoll
  <2>1. TypeOK'
    OBVIOUS
  <2>2. UnclaimedIsFresh'
    BY DEF UnclaimedIsFresh
  <2>3. RepliesAreFresh'
    BY DEF RepliesAreFresh
  <2>4. BatchesAreFresh'
    BY DEF BatchesAreFresh
  <2>5. CallersWait'
    BY DEF CallersWait
  <2>6. CurrentJobs'
    BY DEF CurrentJobs
  <2>7. PostsAreVerdicts'
    BY DEF PostsAreVerdicts
  <2>8. Histories'
    BY DEF Histories
  <2> QED
    BY <2>1, <2>2, <2>3, <2>4, <2>5, <2>6, <2>7, <2>8
<1>3. ASSUME NEW h \in Handlers, ClaimNothing(h), UNCHANGED <<agentVars, netVars>>
      PROVE  ChannelInv'
  <2> USE <1>3 DEF ClaimNothing
  <2>1. TypeOK'
    OBVIOUS
  <2>2. UnclaimedIsFresh'
    BY DEF UnclaimedIsFresh
  <2>3. RepliesAreFresh'
    BY DEF RepliesAreFresh
  <2>4. BatchesAreFresh'
    BY DEF BatchesAreFresh
  <2>5. CallersWait'
    BY DEF CallersWait
  <2>6. CurrentJobs'
    BY DEF CurrentJobs
  <2>7. PostsAreVerdicts'
    BY DEF PostsAreVerdicts
  <2>8. Histories'
    BY DEF Histories
  <2> QED
    BY <2>1, <2>2, <2>3, <2>4, <2>5, <2>6, <2>7, <2>8
<1>4. ASSUME NEW h \in Handlers, ClaimSelect(h) \/ ClaimUpdate(h), UNCHANGED <<agentVars, netVars>>
      PROVE  ChannelInv'
  <2> USE <1>4 DEF ClaimSelect, ClaimUpdate
  <2>f1. /\ \A g \in Handlers : hpc'[g] = "replying" <=> hpc[g] = "replying"
         /\ \A g \in Handlers : hpc[g] = "replying" => out'[g] = out[g]
         /\ \A g \in Handlers : hpc'[g] = "idle" <=> hpc[g] = "idle"
    OBVIOUS
  <2>1. TypeOK'
    OBVIOUS
  <2>2. UnclaimedIsFresh'
    BY DEF UnclaimedIsFresh
  <2>3. RepliesAreFresh'
    BY DEF RepliesAreFresh
  <2>4. BatchesAreFresh'
    BY DEF UnclaimedIsFresh, RepliesAreFresh, BatchesAreFresh, CurrentJobs, Histories
  <2>5. CallersWait'
    BY DEF CallersWait
  <2>6. CurrentJobs'
    BY DEF CurrentJobs
  <2>7. PostsAreVerdicts'
    BY DEF PostsAreVerdicts
  <2>8. Histories'
    BY DEF Histories
  <2> QED
    BY <2>1, <2>2, <2>3, <2>4, <2>5, <2>6, <2>7, <2>8
<1>5. ASSUME NEW h \in Handlers, ClaimCommit(h), UNCHANGED <<agentVars, netVars>>
      PROVE  ChannelInv'
  <2> USE <1>5 DEF ClaimCommit
  <2>f1. out[h] = PendingFor(polled[h])
    BY DEF StoreInv, SerializableClaim, Locking
  <2>f2. \A j \in out[h] : j \in JobIds /\ status[j] = "pending" /\ status'[j] = "running"
    BY <2>f1 DEF PendingFor
  <2>f3. \A j \in out[h] : Fresh(j)
    BY <2>f2 DEF UnclaimedIsFresh
  <2>f4. \A j \in JobIds : status[j] # "pending" => status'[j] = status[j]
    OBVIOUS
  <2>f5. /\ \A g \in Handlers : hpc'[g] = "replying" => g = h \/ hpc[g] = "replying"
         /\ out' = out
    OBVIOUS
  <2>1. TypeOK'
    OBVIOUS
  <2>2. UnclaimedIsFresh'
    BY DEF UnclaimedIsFresh
  <2>3. RepliesAreFresh'
    <3>1. ASSUME NEW g \in Handlers, hpc'[g] = "replying", NEW i \in out'[g]
          PROVE  status'[i] = "running" /\ ran'[i] = 0 /\ verdict'[i] = "none"
      <4>1. CASE g = h
        BY <4>1, <2>f2, <2>f3, <2>f5
      <4>2. CASE g # h
        BY <3>1, <4>2, <2>f4, <2>f5 DEF RepliesAreFresh
      <4> QED
        BY <4>1, <4>2
    <3> QED
      BY ONLY <3>1 DEF RepliesAreFresh, Fresh
  <2>4. BatchesAreFresh'
    <3>1. ASSUME NEW a \in Agents, NEW i \in batch[a]
          PROVE  /\ i \in JobIds /\ status'[i] = "running"
                 /\ \A g \in Handlers : hpc'[g] = "replying" => i \notin out'[g]
      <4>1. i \in JobIds /\ status[i] = "running"
        BY DEF BatchesAreFresh
      <4>2. i \notin out[h]
        BY <4>1, <2>f2
      <4>3. \A g \in Handlers : hpc[g] = "replying" => i \notin out[g]
        BY DEF BatchesAreFresh
      <4> QED
        BY <4>1, <4>2, <4>3, <2>f4, <2>f5
    <3>2. batch' = batch /\ ran' = ran /\ verdict' = verdict /\ hostname' = hostname
      OBVIOUS
    <3> QED
      BY ONLY <3>1, <3>2, BatchesAreFresh DEF BatchesAreFresh, Fresh
  <2>5. CallersWait'
    BY DEF CallersWait
  <2>6. CurrentJobs'
    BY DEF CurrentJobs
  <2>7. PostsAreVerdicts'
    BY DEF PostsAreVerdicts
  <2>8. Histories'
    BY DEF Histories
  <2> QED
    BY <2>1, <2>2, <2>3, <2>4, <2>5, <2>6, <2>7, <2>8
<1>6. ASSUME NEW h \in Handlers, RefusePoll(h), UNCHANGED faults \/ Fault("busy")
      PROVE  ChannelInv'
  <2> USE <1>6 DEF RefusePoll, HangUp, ClaimFails, PollFails, Fault
  <2>1. TypeOK'
    OBVIOUS
  <2>2. UnclaimedIsFresh'
    BY DEF UnclaimedIsFresh
  <2>3. RepliesAreFresh'
    BY DEF RepliesAreFresh
  <2>4. BatchesAreFresh'
    BY DEF BatchesAreFresh
  <2>5. CallersWait'
    BY DEF CallersWait
  <2>6. CurrentJobs'
    BY DEF CurrentJobs
  <2>7. PostsAreVerdicts'
    BY DEF PostsAreVerdicts
  <2>8. Histories'
    BY DEF Histories
  <2> QED
    BY <2>1, <2>2, <2>3, <2>4, <2>5, <2>6, <2>7, <2>8
<1>7. ASSUME NEW h \in Handlers, ReplyArrives(h)
      PROVE  ChannelInv'
  <2> USE <1>7 DEF ReplyArrives, GetJobs, Reply, HangUp, StoreInv, OutIsForPolled, NeverTwoPollers, Others
  <2>1. TypeOK'
    OBVIOUS
  <2>2. UnclaimedIsFresh'
    BY DEF UnclaimedIsFresh
  <2>3. RepliesAreFresh'
    BY DEF RepliesAreFresh
  <2>4. BatchesAreFresh'
    BY DEF RepliesAreFresh, BatchesAreFresh, CallersWait
  <2>5. CallersWait'
    BY DEF CallersWait
  <2>6. CurrentJobs'
    BY DEF CurrentJobs
  <2>7. PostsAreVerdicts'
    BY DEF PostsAreVerdicts
  <2>8. Histories'
    BY DEF Histories
  <2> QED
    BY <2>1, <2>2, <2>3, <2>4, <2>5, <2>6, <2>7, <2>8
<1>8. ASSUME NEW h \in Handlers, ReplyUnread(h)
      PROVE  ChannelInv'
  <2> USE <1>8 DEF ReplyUnread, Reply
  <2>1. TypeOK'
    OBVIOUS
  <2>2. UnclaimedIsFresh'
    BY DEF UnclaimedIsFresh
  <2>3. RepliesAreFresh'
    BY DEF RepliesAreFresh
  <2>4. BatchesAreFresh'
    BY DEF BatchesAreFresh
  <2>5. CallersWait'
    BY DEF CallersWait
  <2>6. CurrentJobs'
    BY DEF CurrentJobs
  <2>7. PostsAreVerdicts'
    BY DEF PostsAreVerdicts
  <2>8. Histories'
    BY DEF Histories
  <2> QED
    BY <2>1, <2>2, <2>3, <2>4, <2>5, <2>6, <2>7, <2>8
<1>9. ASSUME NEW h \in Handlers, PollBreaks(h)
      PROVE  ChannelInv'
  <2> USE <1>9 DEF PollBreaks, PollFails, HangUp, Fault
  <2>1. TypeOK'
    OBVIOUS
  <2>2. UnclaimedIsFresh'
    BY DEF UnclaimedIsFresh
  <2>3. RepliesAreFresh'
    BY DEF RepliesAreFresh
  <2>4. BatchesAreFresh'
    BY DEF BatchesAreFresh
  <2>5. CallersWait'
    BY DEF CallersWait
  <2>6. CurrentJobs'
    BY DEF CurrentJobs
  <2>7. PostsAreVerdicts'
    BY DEF PostsAreVerdicts
  <2>8. Histories'
    BY DEF Histories
  <2> QED
    BY <2>1, <2>2, <2>3, <2>4, <2>5, <2>6, <2>7, <2>8
<1>10. ASSUME NEW a \in Agents, NEW j \in JobIds, StartCommand(a, j), UNCHANGED <<storeVars, netVars>>
      PROVE  ChannelInv'
  <2> USE <1>10 DEF StartCommand, TakeNext, IsNext
  <2>f1. Fresh(j) /\ status[j] = "running" /\ hostname[j] = AgentHost[a]
    BY DEF BatchesAreFresh
  <2>f2. \A b \in Agents, h \in Handlers : j \notin batch'[b] /\ (hpc[h] = "replying" => j \notin out[h])
    BY DEF BatchesAreFresh
  <2>f3. \A i \in JobIds : ran'[i] = IF i = j THEN 1 ELSE ran[i]
    BY <2>f1
  <2>1. TypeOK'
    BY <2>f3
  <2>2. UnclaimedIsFresh'
    BY DEF UnclaimedIsFresh, BatchesAreFresh
  <2>3. RepliesAreFresh'
    BY DEF RepliesAreFresh, BatchesAreFresh
  <2>4. BatchesAreFresh'
    BY DEF BatchesAreFresh
  <2>5. CallersWait'
    BY DEF CallersWait
  <2>6. CurrentJobs'
    BY DEF BatchesAreFresh, CurrentJobs
  <2>7. PostsAreVerdicts'
    BY DEF PostsAreVerdicts
  <2>8. Histories'
    BY DEF BatchesAreFresh, Histories
  <2> QED
    BY <2>1, <2>2, <2>3, <2>4, <2>5, <2>6, <2>7, <2>8
<1>11. ASSUME NEW a \in Agents, NEW j \in JobIds, CannotStart(a, j), UNCHANGED <<storeVars, netVars>>
      PROVE  ChannelInv'
  <2> USE <1>11 DEF CannotStart, TakeNext, IsNext
  <2>f1. Fresh(j) /\ status[j] = "running" /\ hostname[j] = AgentHost[a]
    BY DEF BatchesAreFresh
  <2>f2. \A b \in Agents, h \in Handlers : j \notin batch'[b] /\ (hpc[h] = "replying" => j \notin out[h])
    BY DEF BatchesAreFresh
  <2>f3. \A m \in posts : m.id # j
    BY DEF PostsAreVerdicts, BatchesAreFresh
  <2>1. TypeOK'
    BY DEF Verdicts
  <2>2. UnclaimedIsFresh'
    BY DEF UnclaimedIsFresh, BatchesAreFresh
  <2>3. RepliesAreFresh'
    BY DEF RepliesAreFresh, BatchesAreFresh
  <2>4. BatchesAreFresh'
    BY DEF BatchesAreFresh
  <2>5. CallersWait'
    BY DEF CallersWait
  <2>6. CurrentJobs'
    BY DEF BatchesAreFresh, CurrentJobs, PostsAreVerdicts, Histories
  <2>7. PostsAreVerdicts'
    BY DEF BatchesAreFresh, PostsAreVerdicts
  <2>8. Histories'
    BY DEF BatchesAreFresh, Histories
  <2> QED
    BY <2>1, <2>2, <2>3, <2>4, <2>5, <2>6, <2>7, <2>8
<1>12. ASSUME NEW a \in Agents, BatchDone(a), UNCHANGED <<storeVars, netVars>>
      PROVE  ChannelInv'
  <2> USE <1>12 DEF BatchDone
  <2>1. TypeOK'
    OBVIOUS
  <2>2. UnclaimedIsFresh'
    BY DEF UnclaimedIsFresh
  <2>3. RepliesAreFresh'
    BY DEF RepliesAreFresh
  <2>4. BatchesAreFresh'
    BY DEF BatchesAreFresh
  <2>5. CallersWait'
    BY DEF CallersWait
  <2>6. CurrentJobs'
    BY DEF CurrentJobs
  <2>7. PostsAreVerdicts'
    BY DEF PostsAreVerdicts
  <2>8. Histories'
    BY DEF Histories
  <2> QED
    BY <2>1, <2>2, <2>3, <2>4, <2>5, <2>6, <2>7, <2>8
<1>13. ASSUME NEW a \in Agents, NEW s \in Final, CommandEnds(a, s), UNCHANGED <<storeVars, netVars>>
      PROVE  ChannelInv'
  <2> USE <1>13 DEF CommandEnds
  <2>f1. cur[a] \in JobIds
    BY DEF CurrentJobs
  <2>f2. \A m \in posts : m.id # cur[a]
    BY DEF PostsAreVerdicts, CurrentJobs
  <2>1. TypeOK'
    BY DEF Verdicts
  <2>2. UnclaimedIsFresh'
    BY DEF UnclaimedIsFresh, CurrentJobs
  <2>3. RepliesAreFresh'
    BY DEF RepliesAreFresh, CurrentJobs
  <2>4. BatchesAreFresh'
    BY DEF BatchesAreFresh, CurrentJobs
  <2>5. CallersWait'
    BY DEF CallersWait
  <2>6. CurrentJobs'
    BY <2>f2 DEF CurrentJobs
  <2>7. PostsAreVerdicts'
    BY DEF CurrentJobs, PostsAreVerdicts
  <2>8. Histories'
    BY DEF CurrentJobs, Histories
  <2> QED
    BY <2>1, <2>2, <2>3, <2>4, <2>5, <2>6, <2>7, <2>8
<1>14. ASSUME NEW a \in Agents, SendResult(a)
      PROVE  ChannelInv'
  <2> USE <1>14 DEF SendResult, PostResult, Result
  <2>f1. cur[a] \in JobIds
    BY DEF CurrentJobs
  <2>f2. verdict[cur[a]] \in Final
    BY DEF CurrentJobs, Verdicts
  <2>1. TypeOK'
    BY <2>f1, <2>f2
  <2>2. UnclaimedIsFresh'
    BY DEF UnclaimedIsFresh
  <2>3. RepliesAreFresh'
    BY DEF RepliesAreFresh
  <2>4. BatchesAreFresh'
    BY DEF BatchesAreFresh
  <2>5. CallersWait'
    BY DEF CallersWait
  <2>6. CurrentJobs'
    BY DEF CurrentJobs
  <2>7. PostsAreVerdicts'
    BY DEF CurrentJobs, PostsAreVerdicts
  <2>8. Histories'
    BY DEF Histories
  <2> QED
    BY <2>1, <2>2, <2>3, <2>4, <2>5, <2>6, <2>7, <2>8
<1>15. ASSUME NEW a \in Agents, ResultAnswered(a)
      PROVE  ChannelInv'
  <2> USE <1>15 DEF ResultAnswered, PostReturns
  <2>1. TypeOK'
    OBVIOUS
  <2>2. UnclaimedIsFresh'
    BY DEF UnclaimedIsFresh
  <2>3. RepliesAreFresh'
    BY DEF RepliesAreFresh
  <2>4. BatchesAreFresh'
    BY DEF BatchesAreFresh
  <2>5. CallersWait'
    BY DEF CallersWait
  <2>6. CurrentJobs'
    BY DEF CurrentJobs
  <2>7. PostsAreVerdicts'
    BY DEF PostsAreVerdicts
  <2>8. Histories'
    BY DEF Histories
  <2> QED
    BY <2>1, <2>2, <2>3, <2>4, <2>5, <2>6, <2>7, <2>8
<1>16. ASSUME NEW a \in Agents, ResultAbandoned(a)
      PROVE  ChannelInv'
  <2> USE <1>16 DEF ResultAbandoned, PostReturns, Fault
  <2>1. TypeOK'
    OBVIOUS
  <2>2. UnclaimedIsFresh'
    BY DEF UnclaimedIsFresh
  <2>3. RepliesAreFresh'
    BY DEF RepliesAreFresh
  <2>4. BatchesAreFresh'
    BY DEF BatchesAreFresh
  <2>5. CallersWait'
    BY DEF CallersWait
  <2>6. CurrentJobs'
    BY DEF CurrentJobs
  <2>7. PostsAreVerdicts'
    BY DEF PostsAreVerdicts
  <2>8. Histories'
    BY DEF Histories
  <2> QED
    BY <2>1, <2>2, <2>3, <2>4, <2>5, <2>6, <2>7, <2>8
<1>17. ASSUME NEW a \in Agents, AgentCrash(a)
      PROVE  ChannelInv'
  <2> USE <1>17 DEF AgentCrash, Crash, Fault
  <2>1. TypeOK'
    OBVIOUS
  <2>2. UnclaimedIsFresh'
    BY DEF UnclaimedIsFresh
  <2>3. RepliesAreFresh'
    BY DEF RepliesAreFresh
  <2>4. BatchesAreFresh'
    BY DEF BatchesAreFresh
  <2>5. CallersWait'
    BY DEF CallersWait
  <2>6. CurrentJobs'
    BY DEF CurrentJobs
  <2>7. PostsAreVerdicts'
    BY DEF PostsAreVerdicts
  <2>8. Histories'
    BY DEF Histories
  <2> QED
    BY <2>1, <2>2, <2>3, <2>4, <2>5, <2>6, <2>7, <2>8
<1>18. ASSUME NEW m \in Posts, RecordResult(m)
      PROVE  ChannelInv'
  <2> USE <1>18 DEF RecordResult, CompleteJob, Normalise, NoLock
  <2>1. TypeOK'
    OBVIOUS
  <2>2. UnclaimedIsFresh'
    BY DEF UnclaimedIsFresh
  <2>3. RepliesAreFresh'
    BY DEF RepliesAreFresh, PostsAreVerdicts
  <2>4. BatchesAreFresh'
    BY DEF BatchesAreFresh, PostsAreVerdicts
  <2>5. CallersWait'
    BY DEF CallersWait
  <2>6. CurrentJobs'
    BY DEF CurrentJobs, PostsAreVerdicts
  <2>7. PostsAreVerdicts'
    BY DEF UnclaimedIsFresh, PostsAreVerdicts
  <2>8. Histories'
    BY DEF PostsAreVerdicts, Histories
  <2> QED
    BY <2>1, <2>2, <2>3, <2>4, <2>5, <2>6, <2>7, <2>8
<1>19. ASSUME NEW m \in Posts, ResultBusy(m) \/ ResultLost(m)
      PROVE  ChannelInv'
  <2> USE <1>19 DEF ResultBusy, ResultLost, Fault
  <2>1. TypeOK'
    OBVIOUS
  <2>2. UnclaimedIsFresh'
    BY DEF UnclaimedIsFresh
  <2>3. RepliesAreFresh'
    BY DEF RepliesAreFresh
  <2>4. BatchesAreFresh'
    BY DEF BatchesAreFresh
  <2>5. CallersWait'
    BY DEF CallersWait
  <2>6. CurrentJobs'
    BY DEF CurrentJobs
  <2>7. PostsAreVerdicts'
    BY DEF PostsAreVerdicts
  <2>8. Histories'
    BY DEF Histories
  <2> QED
    BY <2>1, <2>2, <2>3, <2>4, <2>5, <2>6, <2>7, <2>8
<1>20. CASE ServerCrash
  <2> USE <1>20 DEF ServerCrash, Restart, Fault
  <2>1. TypeOK'
    OBVIOUS
  <2>2. UnclaimedIsFresh'
    BY DEF UnclaimedIsFresh
  <2>3. RepliesAreFresh'
    BY DEF RepliesAreFresh
  <2>4. BatchesAreFresh'
    BY DEF BatchesAreFresh
  <2>5. CallersWait'
    BY DEF CallersWait
  <2>6. CurrentJobs'
    BY DEF CurrentJobs
  <2>7. PostsAreVerdicts'
    BY DEF PostsAreVerdicts
  <2>8. Histories'
    BY DEF Histories
  <2> QED
    BY <2>1, <2>2, <2>3, <2>4, <2>5, <2>6, <2>7, <2>8
<1>21. CASE UNCHANGED vars
  <2> USE <1>21 DEF vars
  <2>1. TypeOK'
    OBVIOUS
  <2>2. UnclaimedIsFresh'
    BY DEF UnclaimedIsFresh
  <2>3. RepliesAreFresh'
    BY DEF RepliesAreFresh
  <2>4. BatchesAreFresh'
    BY DEF BatchesAreFresh
  <2>5. CallersWait'
    BY DEF CallersWait
  <2>6. CurrentJobs'
    BY DEF CurrentJobs
  <2>7. PostsAreVerdicts'
    BY DEF PostsAreVerdicts
  <2>8. Histories'
    BY DEF Histories
  <2> QED
    BY <2>1, <2>2, <2>3, <2>4, <2>5, <2>6, <2>7, <2>8
<1>22. CASE \E n \in Hosts : Submit(n)
  BY <1>1, <1>22
<1>23. CASE \E a \in Agents, h \in Handlers : Poll(a, h)
  BY <1>2, <1>23
<1>24. CASE \E h \in Handlers :
               \/ Claim(h) \/ ClaimRefused(h) \/ ClaimBusy(h) \/ ClaimCancelled(h)
               \/ ReplyArrives(h) \/ ReplyUnread(h) \/ PollBreaks(h)
  BY ONLY <1>3, <1>4, <1>5, <1>6, <1>7, <1>8, <1>9, <1>24
  DEF Claim, ClaimRefused, ClaimBusy, ClaimCancelled
<1>25. CASE \E a \in Agents :
               \/ Execute(a) \/ CommandExits(a) \/ SendResult(a)
               \/ ResultAnswered(a) \/ ResultAbandoned(a) \/ AgentCrash(a)
  BY ONLY <1>10, <1>11, <1>12, <1>13, <1>14, <1>15, <1>16, <1>17, <1>25
  DEF Execute, CommandExits
<1>26. CASE \E m \in Posts : RecordResult(m) \/ ResultBusy(m) \/ ResultLost(m)
  BY ONLY <1>18, <1>19, <1>26
<1> QED
  BY ONLY [Next]_vars, <1>20, <1>21, <1>22, <1>23, <1>24, <1>25, <1>26 DEF Next

\* Both invariants hold throughout.
LEMMA ChannelInvariant == Spec => [](StoreInv /\ ChannelInv)
<1>1. StoreInv /\ ChannelInv /\ [Next]_vars => StoreInv' /\ ChannelInv'
  BY StoreStep, StoreNextInv, ChannelNextInv
<1> QED
  BY ChannelInitInv, <1>1, PTL DEF Spec

\* The agents, the network and the faults are an environment that the store was
\* specified for: all that is proved of StoreSpec holds in the channel.
THEOREM ChannelImplementsStore == Spec => StoreSpec
<1>1. Init => StoreInit
  BY DEF Init
<1> QED
  BY <1>1, ChannelInvariant, StoreStep, PTL DEF Spec, StoreSpec

\* The variables keep their types.
THEOREM TypeCorrect == Spec => []TypeOK
  BY ChannelInvariant, PTL DEF ChannelInv

\* No command is started twice, whatever is lost or crashes.
THEOREM CommandsRunAtMostOnce == Spec => []AtMostOnce
<1>1. ChannelInv => AtMostOnce
  BY DEF ChannelInv, Histories, AtMostOnce
<1> QED
  BY <1>1, ChannelInvariant, PTL

\* An agent touches jobs of its own host only.
THEOREM HostsAreIsolated == Spec => []HostIsolation
<1>1. ChannelInv => HostIsolation
  BY DEF ChannelInv, CurrentJobs, HostIsolation
<1> QED
  BY <1>1, ChannelInvariant, PTL

\* The recorded status of a finished job is the verdict of the agent that had it.
THEOREM ResultsAreTruthful == Spec => []TruthfulResult
<1>1. ChannelInv => TruthfulResult
  BY DEF ChannelInv, Histories, TruthfulResult
<1> QED
  BY <1>1, ChannelInvariant, PTL

\* A result that reaches CompleteJob is the only one for a job that is running.
THEOREM ResultsMeetRunningJobs == Spec => []ResultsForRunningJobs
<1>1. ChannelInv => ResultsForRunningJobs
  BY DEF ChannelInv, TypeOK, PostsAreVerdicts, Posts, ResultsForRunningJobs
<1> QED
  BY <1>1, ChannelInvariant, PTL

\* What a step of the channel does to a job is a step of its documented lifecycle.
LEMMA LifecycleStep ==
  StoreInv /\ ChannelInv /\ [Next]_vars => [Lifecycle!Next]_(Lifecycle!lifecycleVars)
<1> SUFFICES ASSUME StoreInv, ChannelInv, Next
             PROVE  Lifecycle!Next \/ UNCHANGED Lifecycle!lifecycleVars
  BY DEF vars, Lifecycle!lifecycleVars
<1> USE DEF Lifecycle!lifecycleVars, Lifecycle!JobIds, Lifecycle!Final,
      JobIds, Final, agentVars, historyVars, netVars, jobVars, claimVars, storeVars
<1>1. ASSUME NEW n \in Hosts, Submit(n) PROVE Lifecycle!Next
  BY <1>1 DEF Submit, EnqueueJob, Lifecycle!Next, Lifecycle!Submit
<1>2. ASSUME NEW h \in Handlers, ClaimCommit(h), UNCHANGED <<agentVars, netVars>>
      PROVE  Lifecycle!Next \/ UNCHANGED Lifecycle!lifecycleVars
  <2>1. out[h] = PendingFor(polled[h])
    BY <1>2 DEF ClaimCommit, StoreInv, SerializableClaim, Locking
  <2>2. PendingFor(polled[h]) = Lifecycle!Queued(polled[h])
    BY DEF PendingFor, Lifecycle!Queued
  <2>3. status' = [j \in JobIds |-> IF j \in PendingFor(polled[h]) THEN "running" ELSE status[j]]
    BY <1>2, <2>1 DEF ClaimCommit, PendingFor
  <2>4. CASE PendingFor(polled[h]) = {}
    <3>1. status' = status
      BY <2>3, <2>4 DEF StoreInv, StoreTypeOK
    <3> QED
      BY <1>2, <3>1 DEF ClaimCommit
  <2>5. CASE PendingFor(polled[h]) # {}
    <3>1. polled[h] \in Hosts
      BY <2>5 DEF PendingFor, StoreInv, RowsHaveHost
    <3>2. Lifecycle!HandOut(polled[h])
      BY <1>2, <2>2, <2>3, <2>5 DEF ClaimCommit, Lifecycle!HandOut
    <3> QED
      BY <3>1, <3>2 DEF Lifecycle!Next
  <2> QED
    BY <2>4, <2>5
<1>3. ASSUME NEW a \in Agents, NEW j \in JobIds, StartCommand(a, j), UNCHANGED <<storeVars, netVars>>
      PROVE  Lifecycle!Next
  <2>1. status[j] = "running" /\ ran[j] = 0
    BY <1>3 DEF StartCommand, TakeNext, IsNext, ChannelInv, BatchesAreFresh, Fresh
  <2>2. ran' = [ran EXCEPT ![j] = 1]
    BY <1>3, <2>1 DEF StartCommand
  <2> QED
    BY <1>3, <2>1, <2>2 DEF Lifecycle!Next, Lifecycle!Start
<1>4. ASSUME NEW m \in Posts, RecordResult(m) PROVE Lifecycle!Next
  <2>1. m.id \in JobIds /\ m.status \in Final
    BY DEF Posts
  <2>2. status[m.id] = "running" /\ (m.status = "done" => ran[m.id] = 1)
    BY <1>4, <2>1 DEF RecordResult, ChannelInv, PostsAreVerdicts, Histories
  <2>3. Lifecycle!Finish(m.id, m.status)
    BY <1>4, <2>1, <2>2 DEF RecordResult, CompleteJob, Normalise, Lifecycle!Finish
  <2> QED
    BY <2>1, <2>3 DEF Lifecycle!Next
<1>5. ASSUME NEW h \in Handlers, NEW a \in Agents, Poll(a, h)
      PROVE  UNCHANGED Lifecycle!lifecycleVars
  BY <1>5 DEF Poll, PollJobs, ReceivePoll
<1>6. ASSUME NEW a \in Agents,
             \/ (\E j \in JobIds : CannotStart(a, j)) /\ UNCHANGED <<storeVars, netVars>>
             \/ BatchDone(a) /\ UNCHANGED <<storeVars, netVars>>
             \/ CommandExits(a) \/ SendResult(a) \/ ResultAnswered(a)
             \/ ResultAbandoned(a) \/ AgentCrash(a)
      PROVE  UNCHANGED Lifecycle!lifecycleVars
  BY <1>6 DEF CannotStart, TakeNext, BatchDone, CommandExits, CommandEnds, SendResult, PostResult,
     ResultAnswered, PostReturns, ResultAbandoned, AgentCrash, Crash
<1>7. ASSUME (\E m \in Posts : ResultBusy(m) \/ ResultLost(m)) \/ ServerCrash
      PROVE  UNCHANGED Lifecycle!lifecycleVars
  BY <1>7 DEF ResultBusy, ResultLost, ServerCrash, Restart
<1>8. CASE \E n \in Hosts : Submit(n)
  BY <1>1, <1>8
<1>9. CASE \E a \in Agents, h \in Handlers : Poll(a, h)
  BY <1>5, <1>9
<1>10. CASE \E h \in Handlers :
               \/ Claim(h) \/ ClaimRefused(h) \/ ClaimBusy(h) \/ ClaimCancelled(h)
               \/ ReplyArrives(h) \/ ReplyUnread(h) \/ PollBreaks(h)
  BY <1>2, <1>10 DEF Claim, ClaimRefused, ClaimBusy, ClaimCancelled, RefusePoll, ClaimFails, PollFails,
     ReplyArrives, GetJobs, Reply, ReplyUnread, PollBreaks, ClaimNothing, ClaimSelect, ClaimUpdate
<1>11. CASE \E a \in Agents :
               \/ Execute(a) \/ CommandExits(a) \/ SendResult(a)
               \/ ResultAnswered(a) \/ ResultAbandoned(a) \/ AgentCrash(a)
  BY <1>3, <1>6, <1>11 DEF Execute
<1>12. CASE \E m \in Posts : RecordResult(m) \/ ResultBusy(m) \/ ResultLost(m)
  BY <1>4, <1>7, <1>12
<1> QED
  BY <1>7, <1>8, <1>9, <1>10, <1>11, <1>12 DEF Next

\* The channel implements the abstract lifecycle: handed out together, started at
\* most once, finished from running only and by a command that was started.
THEOREM ChannelImplementsLifecycle == Spec => LifecycleSpec
<1>1. Init => Lifecycle!Init
  BY DEF Init, StoreInit, AgentInit, Lifecycle!Init, JobIds, Lifecycle!JobIds, NoHost, Lifecycle!NoHost
<1> QED
  BY <1>1, ChannelInvariant, LifecycleStep, PTL DEF Spec, LifecycleSpec, Lifecycle!Spec

\* The outcome of a job is recorded once.
THEOREM OutcomesAreKept == Spec => FinalIsFinal
<1>1. StoreInv /\ ChannelInv /\ [Next]_vars =>
        [\A j \in JobIds : status[j] \in Final => status'[j] = status[j]]_vars
  <2> SUFFICES ASSUME StoreInv, ChannelInv, [Next]_vars, NEW j \in JobIds, status[j] \in Final
               PROVE  status'[j] = status[j]
    OBVIOUS
  <2>0. status[j] # "absent" /\ status[j] # "pending" /\ j # lastId + 1
    BY MaxJobsIsNat DEF StoreInv, StoreTypeOK, IdsInOrder, JobIds, Final
  <2>1. CASE \E n \in Hosts : Lifecycle!Submit(n) \/ Lifecycle!HandOut(n)
    BY <2>0, <2>1 DEF Lifecycle!Submit, Lifecycle!HandOut, Lifecycle!Queued, Lifecycle!JobIds,
       StoreInv, StoreTypeOK, JobIds
  <2>2. CASE \E i \in JobIds : Lifecycle!Start(i)
    BY <2>2 DEF Lifecycle!Start
  <2>3. CASE \E i \in JobIds, s \in Final : Lifecycle!Finish(i, s)
    BY <2>3 DEF Lifecycle!Finish, StoreInv, StoreTypeOK, Final
  <2>4. CASE UNCHANGED Lifecycle!lifecycleVars
    BY <2>4 DEF Lifecycle!lifecycleVars
  <2> QED
    BY LifecycleStep, <2>1, <2>2, <2>3, <2>4
    DEF Lifecycle!Next, Lifecycle!JobIds, Lifecycle!Final, JobIds, Final
<1> QED
  BY <1>1, ChannelInvariant, PTL DEF Spec, FinalIsFinal

-----------------------------------------------------------------------------
(* What is left behind, and in which order. *)

\* A job that waits on a host with one agent, in the reply to its poll or in its
\* batch, was queued before every job of the host that was started.
OlderThanStarted(i) ==
  \A j \in JobIds : i < j /\ hostname[i] = hostname[j] => ran[j] = 0

InOrder ==
  /\ \A a \in Agents : \A i \in batch[a] :
       SoleAgent(hostname[i]) => OlderThanStarted(i)
  /\ \A h \in Handlers : hpc[h] = "replying" /\ caller[h] # Gone =>
       \A i \in out[h] : SoleAgent(hostname[i]) => OlderThanStarted(i)

\* An agent that asks for jobs has done those it had.
IdleIsDone == \A a \in Agents : apc[a] \in {"idle", "polling"} => batch[a] = {}

\* Every claim has somebody waiting for it, and every running job somebody to report it.
Waited == \A h \in Handlers : hpc[h] # "idle" => caller[h] # Gone

Nowhere(j) ==
  /\ Holders(j) = {}
  /\ \A a \in Agents : cur[a] # j \/ apc[a] = "posting"
  /\ \A m \in posts : m.id # j

NoneLeft == \A j \in JobIds : status[j] = "running" => ~Nowhere(j)

Attended == faults = 0 => Waited /\ NoneLeft

AttendedInv == InOrder /\ IdleIsDone /\ Attended
\* Agents have nothing left when they ask.
LEMMA IdleIsDoneNext == ChannelInv /\ IdleIsDone /\ [Next]_vars => IdleIsDone'
<1> SUFFICES ASSUME ChannelInv, IdleIsDone, [Next]_vars
             PROVE  IdleIsDone'
  OBVIOUS
<1> USE DEF ChannelInv, TypeOK, AgentTypeOK, IdleIsDone, agentVars, historyVars
<1>1. ASSUME NEW a \in Agents, NEW h \in Handlers, Poll(a, h)
      PROVE  IdleIsDone'
  BY <1>1 DEF Poll, PollJobs
<1>2. ASSUME NEW h \in Handlers, RefusePoll(h)
      PROVE  IdleIsDone'
  BY <1>2 DEF RefusePoll, PollFails
<1>3. ASSUME NEW h \in Handlers, ReplyArrives(h) \/ PollBreaks(h)
      PROVE  IdleIsDone'
  BY <1>3 DEF ReplyArrives, GetJobs, PollBreaks, PollFails
<1>4. ASSUME NEW a \in Agents, NEW j \in JobIds, StartCommand(a, j) \/ CannotStart(a, j)
      PROVE  IdleIsDone'
  BY <1>4 DEF StartCommand, CannotStart, TakeNext
<1>5. ASSUME NEW a \in Agents, BatchDone(a) \/ CommandExits(a) \/ SendResult(a)
      PROVE  IdleIsDone'
  BY <1>5 DEF BatchDone, CommandExits, CommandEnds, SendResult, PostResult
<1>6. ASSUME NEW a \in Agents, ResultAnswered(a) \/ ResultAbandoned(a)
      PROVE  IdleIsDone'
  BY <1>6 DEF ResultAnswered, ResultAbandoned, PostReturns
<1>7. ASSUME NEW a \in Agents, AgentCrash(a)
      PROVE  IdleIsDone'
  BY <1>7 DEF AgentCrash, Crash
<1>8. CASE ServerCrash
  BY <1>8 DEF ServerCrash
<1>9. CASE UNCHANGED agentVars
  BY <1>9
<1> QED
  BY <1>1, <1>2, <1>3, <1>4, <1>5, <1>6, <1>7, <1>8, <1>9
  DEF Next, vars, Submit, Claim, ClaimRefused, ClaimBusy, ClaimCancelled, ReplyUnread, Execute,
      RecordResult, ResultBusy, ResultLost

\* What a claim has read is older than everything started on its host: the jobs of
\* a host are claimed as a prefix of its queue.
LEMMA ClaimedIsOlder ==
  ASSUME StoreInv, ChannelInv, NEW h \in Handlers, hpc[h] = "written", NEW i \in out[h]
  PROVE  OlderThanStarted(i)
<1>1. i \in JobIds /\ status[i] = "pending"
  BY DEF StoreInv, SerializableClaim, Locking, PendingFor
<1>2. \A j \in JobIds : i < j /\ hostname[i] = hostname[j] => ~HandedOut(j)
  BY <1>1 DEF StoreInv, ClaimsArePrefix
<1> QED
  BY <1>2 DEF OlderThanStarted, ChannelInv, UnclaimedIsFresh, Fresh

\* The order is kept by every step.
LEMMA InOrderNext == StoreInv /\ ChannelInv /\ InOrder /\ [Next]_vars => InOrder'
<1> SUFFICES ASSUME StoreInv, ChannelInv, InOrder, [Next]_vars
             PROVE  InOrder'
  OBVIOUS
<1> USE DEF agentVars, historyVars, netVars, storeVars, jobVars, claimVars
<1> DEFINE Live(h) == hpc[h] = "replying" /\ caller[h] # Gone
<1>a. /\ StoreTypeOK
      /\ AgentTypeOK
      /\ caller \in [Handlers -> Agents \cup {Gone}]
  BY DEF ChannelInv, TypeOK
\* Nothing new in a batch or a reply, and no command started.
<1>b. ASSUME ran' = ran, hostname' = hostname,
             \A a \in Agents : batch'[a] \subseteq batch[a],
             \A h \in Handlers : Live(h)' => Live(h) /\ out'[h] = out[h]
      PROVE  InOrder'
  BY <1>b DEF InOrder, OlderThanStarted, SoleAgent
<1>1. ASSUME NEW n \in Hosts, Submit(n)
      PROVE  InOrder'
  <2>1. /\ lastId + 1 \in JobIds
        /\ \A i \in JobIds : i # lastId + 1 => hostname'[i] = hostname[i]
        /\ ran'[lastId + 1] = 0
    BY <1>1, <1>a, MaxJobsIsNat
    DEF Submit, EnqueueJob, StoreTypeOK, JobIds, StoreInv, IdsInOrder, ChannelInv, UnclaimedIsFresh,
        Fresh, HandedOut, Final
  <2>2. ASSUME NEW i \in JobIds, i # lastId + 1, SoleAgent(hostname[i]) => OlderThanStarted(i)
        PROVE  SoleAgent(hostname[i])' => OlderThanStarted(i)'
    BY <1>1, <2>1, <2>2 DEF Submit, OlderThanStarted, SoleAgent
  <2>3. \A a \in Agents : \A i \in batch[a] : i \in JobIds /\ i # lastId + 1
    BY <1>a, <2>1 DEF AgentTypeOK, ChannelInv, BatchesAreFresh, StoreInv, IdsInOrder, StoreTypeOK, JobIds
  <2>4. \A h \in Handlers : Live(h) => \A i \in out[h] : i \in JobIds /\ i # lastId + 1
    BY <1>a, <2>1 DEF StoreTypeOK, ChannelInv, RepliesAreFresh, StoreInv, IdsInOrder, JobIds
  <2> QED
    BY <1>1, <2>2, <2>3, <2>4 DEF Submit, EnqueueJob, InOrder
<1>2. ASSUME NEW h \in Handlers, ClaimCommit(h), UNCHANGED <<agentVars, netVars>>
      PROVE  InOrder'
  BY <1>2, <1>a, ClaimedIsOlder
  DEF ClaimCommit, InOrder, OlderThanStarted, SoleAgent, StoreTypeOK
<1>3. ASSUME NEW h \in Handlers, ReplyArrives(h)
      PROVE  InOrder'
  BY <1>3, <1>a DEF ReplyArrives, GetJobs, Reply, HangUp, InOrder, OlderThanStarted, SoleAgent,
     StoreTypeOK, AgentTypeOK
<1>4. ASSUME NEW a \in Agents, NEW j \in JobIds, StartCommand(a, j), UNCHANGED <<storeVars, netVars>>
      PROVE  InOrder'
  <2>1. j \in batch[a] /\ hostname[j] = AgentHost[a] /\ apc[a] = "batch"
    BY <1>4 DEF StartCommand, TakeNext, IsNext, ChannelInv, BatchesAreFresh
  <2>2. ASSUME NEW i \in JobIds, i < j, hostname[i] = hostname[j], SoleAgent(hostname[i])
        PROVE  /\ \A b \in Agents : i \notin batch[b]
               /\ \A h \in Handlers : Live(h) => i \notin out[h]
    <3>1. \A b \in Agents : AgentHost[b] = hostname[i] => b = a
      BY <2>1, <2>2 DEF SoleAgent
    <3>2. i \notin batch[a]
      BY <1>4, <2>2, MaxJobsIsNat DEF StartCommand, TakeNext, IsNext, JobIds
    <3>3. \A b \in Agents : i \notin batch[b]
      BY <3>1, <3>2 DEF ChannelInv, BatchesAreFresh
    <3>4. ASSUME NEW h \in Handlers, Live(h), i \in out[h]
          PROVE  FALSE
      <4>1. hostname[i] = AgentHost[caller[h]] /\ apc[caller[h]] = "polling"
        BY <3>4 DEF ChannelInv, CallersWait, StoreInv, OutIsForPolled
      <4> QED
        BY <1>a, <2>1, <3>1, <3>4, <4>1
    <3> QED
      BY <3>3, <3>4
  <2>3. /\ \A i \in JobIds : i # j => ran'[i] = ran[i]
        /\ \A b \in Agents : batch'[b] \subseteq batch[b]
        /\ UNCHANGED <<hostname, hpc, out, caller>>
    BY <1>4, <1>a DEF StartCommand, TakeNext, AgentTypeOK
  <2>4. ASSUME NEW i \in JobIds, SoleAgent(hostname[i]), OlderThanStarted(i),
               (\E b \in Agents : i \in batch[b]) \/ (\E h \in Handlers : Live(h) /\ i \in out[h])
        PROVE  OlderThanStarted(i)'
    BY <2>2, <2>3, <2>4 DEF OlderThanStarted
  <2> HIDE DEF Live
  <2>5. \A b \in Agents : \A i \in batch'[b] : SoleAgent(hostname[i]) => OlderThanStarted(i)'
    BY <1>a, <2>3, <2>4 DEF InOrder, AgentTypeOK
  <2>6. \A h \in Handlers : Live(h) => \A i \in out[h] : SoleAgent(hostname[i]) => OlderThanStarted(i)'
    BY <1>a, <2>4 DEF InOrder, StoreTypeOK, Live
  <2> QED
    BY <2>3, <2>5, <2>6 DEF InOrder, SoleAgent, Live
<1>5. CASE \/ \E a \in Agents, h \in Handlers : Poll(a, h)
           \/ \E h \in Handlers : \/ (ClaimNothing(h) \/ ClaimSelect(h) \/ ClaimUpdate(h))
                                       /\ UNCHANGED <<agentVars, netVars>>
                                  \/ RefusePoll(h) \/ ReplyUnread(h) \/ PollBreaks(h)
  <2>1. ASSUME NEW a \in Agents, NEW h \in Handlers, Poll(a, h)
        PROVE  InOrder'
    BY <1>a, <1>b, <2>1 DEF Poll, PollJobs, ReceivePoll, StoreTypeOK
  <2>2. ASSUME NEW h \in Handlers, ClaimNothing(h) \/ ClaimSelect(h) \/ ClaimUpdate(h),
               UNCHANGED <<agentVars, netVars>>
        PROVE  InOrder'
    <3>1. CASE ClaimNothing(h)
      BY <1>a, <2>2, <3>1 DEF ClaimNothing, InOrder, OlderThanStarted, SoleAgent, StoreTypeOK
    <3>2. CASE ClaimSelect(h) \/ ClaimUpdate(h)
      BY <1>a, <1>b, <2>2, <3>2 DEF ClaimSelect, ClaimUpdate, StoreTypeOK
    <3> QED
      BY <2>2, <3>1, <3>2
  <2>3. ASSUME NEW h \in Handlers, RefusePoll(h)
        PROVE  InOrder'
    BY <1>a, <1>b, <2>3 DEF RefusePoll, ClaimFails, PollFails, HangUp, StoreTypeOK
  <2>4. ASSUME NEW h \in Handlers, ReplyUnread(h) \/ PollBreaks(h)
        PROVE  InOrder'
    BY <1>a, <1>b, <2>4 DEF ReplyUnread, Reply, PollBreaks, PollFails, HangUp, StoreTypeOK
  <2> QED
    BY <1>5, <2>1, <2>2, <2>3, <2>4
<1>6. CASE \E a \in Agents : \/ ((\E j \in JobIds : CannotStart(a, j)) \/ BatchDone(a))
                                   /\ UNCHANGED <<storeVars, netVars>>
                             \/ CommandExits(a) \/ SendResult(a)
                             \/ ResultAnswered(a) \/ ResultAbandoned(a) \/ AgentCrash(a)
  <2>1. /\ ran' = ran /\ UNCHANGED storeVars
        /\ \A a \in Agents : batch'[a] \subseteq batch[a]
    BY <1>6, <1>a DEF CannotStart, TakeNext, BatchDone, CommandExits, CommandEnds, SendResult, PostResult,
       ResultAnswered, ResultAbandoned, PostReturns, AgentCrash, Crash, AgentTypeOK
  <2>2. \A h \in Handlers : caller'[h] # Gone => caller[h] # Gone
    BY <1>6 DEF CommandExits, SendResult, ResultAnswered, ResultAbandoned, AgentCrash
  <2> QED
    BY <1>b, <2>1, <2>2
<1>7. CASE (\E m \in Posts : RecordResult(m) \/ ResultBusy(m) \/ ResultLost(m)) \/ ServerCrash
  BY <1>7, <1>b DEF RecordResult, CompleteJob, ResultBusy, ResultLost, ServerCrash, Restart
<1>8. CASE UNCHANGED vars
  BY <1>8, <1>b DEF vars
<1> QED
  BY <1>1, <1>2, <1>3, <1>4, <1>5, <1>6, <1>7, <1>8
  DEF Next, Claim, ClaimRefused, ClaimBusy, ClaimCancelled, Execute
\* Without a failure, no step leaves a claim without its poller or a running job
\* without anybody.
LEMMA AttendedNext ==
  StoreInv /\ ChannelInv /\ IdleIsDone /\ Attended /\ [Next]_vars => Attended'
<1> SUFFICES ASSUME StoreInv, ChannelInv, IdleIsDone, Attended, [Next]_vars, faults' = 0
             PROVE  Waited' /\ NoneLeft'
  BY DEF Attended
<1> USE DEF Waited, Nowhere, NoneLeft, agentVars, historyVars, netVars, storeVars, jobVars, claimVars
<1>a. /\ StoreTypeOK /\ AgentTypeOK /\ faults \in Nat
      /\ caller \in [Handlers -> Agents \cup {Gone}]
      /\ posts \subseteq Posts
  BY MaxFaultsIsNat DEF ChannelInv, TypeOK
<1>b. \A kind \in {"loss", "crash", "busy"} : ~Fault(kind)
  BY <1>a DEF Fault
<1>c. faults' = faults
  BY <1>b DEF Next, vars, Submit, Poll, Claim, ClaimRefused, ClaimBusy, ClaimCancelled, ReplyArrives,
     ReplyUnread, PollBreaks, Execute, CommandExits, SendResult, ResultAnswered, ResultAbandoned,
     AgentCrash, RecordResult, ResultBusy, ResultLost, ServerCrash
<1>d. Waited /\ NoneLeft
  BY <1>c DEF Attended
\* Whoever had a job still has it.
<1>e. ASSUME \A j \in JobIds : status'[j] = "running" => status[j] = "running",
             \A j \in JobIds : status'[j] = "running" /\ Nowhere(j)' => Nowhere(j)
      PROVE  NoneLeft'
  BY <1>d, <1>e
<1>1. ASSUME NEW n \in Hosts, Submit(n)
      PROVE  Waited' /\ NoneLeft'
  <2>1. Waited'
    BY <1>1, <1>d DEF Submit, EnqueueJob
  <2>2. \A j \in JobIds : Nowhere(j)' => Nowhere(j)
    BY <1>1 DEF Submit, EnqueueJob, Holders
  <2>3. \A j \in JobIds : status'[j] = "running" => status[j] = "running"
    BY <1>1, <1>a DEF Submit, EnqueueJob, StoreTypeOK
  <2> QED
    BY <2>1, <2>2, <2>3, <1>e
<1>2. ASSUME NEW a \in Agents, NEW h \in Handlers, Poll(a, h)
      PROVE  Waited' /\ NoneLeft'
  <2>1. Waited'
    BY <1>2, <1>a, <1>d, GoneIsNoAgent DEF Poll, PollJobs, ReceivePoll, StoreTypeOK
  <2>2. \A j \in JobIds : Holders(j) \subseteq Holders(j)'
    BY <1>2, <1>a, GoneIsNoAgent DEF Poll, PollJobs, ReceivePoll, Holders, StoreTypeOK
  <2>3. \A j \in JobIds : Nowhere(j)' => Nowhere(j)
    BY <1>2, <1>a, <2>2 DEF Poll, PollJobs, ReceivePoll, AgentTypeOK
  <2>4. status' = status
    BY <1>2 DEF Poll, ReceivePoll
  <2> QED
    BY <2>1, <2>3, <2>4, <1>e
<1>3. ASSUME NEW h \in Handlers, Claim(h)
      PROVE  Waited' /\ NoneLeft'
  <2>1. Waited'
    BY <1>3, <1>a, <1>d DEF Claim, ClaimNothing, ClaimSelect, ClaimUpdate, ClaimCommit, StoreTypeOK
  <2>2. \A g \in Handlers : hpc[g] = "replying" => hpc'[g] = "replying" /\ out'[g] = out[g]
    BY <1>3, <1>a DEF Claim, ClaimNothing, ClaimSelect, ClaimUpdate, ClaimCommit, StoreTypeOK
  <2>3. \A j \in JobIds : Holders(j) \subseteq Holders(j)'
    BY <1>3, <2>2 DEF Claim, Holders
  <2>4. \A j \in JobIds : Nowhere(j)' => Nowhere(j)
    BY <1>3, <2>3 DEF Claim
  <2>5. CASE ClaimCommit(h)
    <3>1. ASSUME NEW j \in JobIds, status'[j] = "running"
          PROVE  status[j] = "running" \/ j \in out[h]
      BY <2>5, <3>1 DEF ClaimCommit
    <3>2. hpc'[h] = "replying" /\ out' = out /\ caller'[h] # Gone
      BY <1>3, <1>a, <1>d, <2>5 DEF Claim, ClaimCommit, StoreTypeOK
    <3>3. \A j \in JobIds : j \in out[h] => h \in Holders(j)'
      BY <3>2 DEF Holders
    <3>4. NoneLeft'
      BY <1>d, <2>4, <3>1, <3>3
    <3> QED
      BY <2>1, <3>4
  <2>6. CASE status' = status
    BY <2>1, <2>4, <2>6, <1>e
  <2> QED
    BY <1>3, <2>5, <2>6 DEF Claim, ClaimNothing, ClaimSelect, ClaimUpdate
<1>4. ASSUME NEW h \in Handlers, RefusePoll(h)
      PROVE  Waited' /\ NoneLeft'
  <2>1. Waited'
    BY <1>4, <1>a, <1>d DEF RefusePoll, ClaimFails, HangUp, StoreTypeOK
  <2>2. \A j \in JobIds : Holders(j) \subseteq Holders(j)'
    BY <1>4, <1>a DEF RefusePoll, ClaimFails, PollFails, HangUp, Holders, StoreTypeOK
  <2>3. \A j \in JobIds : Nowhere(j)' => Nowhere(j)
    BY <1>4, <1>a, <2>2 DEF RefusePoll, PollFails, AgentTypeOK
  <2>4. status' = status
    BY <1>4 DEF RefusePoll, ClaimFails
  <2> QED
    BY <2>1, <2>3, <2>4, <1>e
<1>5. ASSUME NEW h \in Handlers, ReplyArrives(h)
      PROVE  Waited' /\ NoneLeft'
  <2>1. Waited'
    BY <1>5, <1>a, <1>d DEF ReplyArrives, Reply, HangUp, StoreTypeOK
  <2>2. batch[caller[h]] = {} /\ caller[h] \in Agents
    BY <1>5, <1>a DEF ReplyArrives, GetJobs, IdleIsDone
  <2>3. ASSUME NEW j \in JobIds, Holders(j) # {}
        PROVE  Holders(j)' # {}
    <3>1. CASE j \in out[h]
      <4>1. j \in batch'[caller[h]]
        BY <1>5, <1>a, <2>2, <3>1 DEF ReplyArrives, GetJobs, AgentTypeOK
      <4> QED
        BY <2>2, <4>1 DEF Holders
    <3>2. CASE j \notin out[h]
      <4>1. \A a \in Agents : j \in batch[a] => j \in batch'[a]
        BY <1>5, <1>a, <2>2 DEF ReplyArrives, GetJobs, AgentTypeOK
      <4>2. \A g \in Handlers : hpc[g] = "replying" /\ caller[g] # Gone /\ j \in out[g]
                                  => hpc'[g] = "replying" /\ caller'[g] # Gone /\ j \in out'[g]
        BY <1>5, <1>a, <3>2 DEF ReplyArrives, Reply, HangUp, StoreTypeOK
      <4> QED
        BY <2>3, <4>1, <4>2 DEF Holders
    <3> QED
      BY <3>1, <3>2
  <2>4. \A j \in JobIds : Nowhere(j)' => Nowhere(j)
    BY <1>5, <1>a, <2>3 DEF ReplyArrives, GetJobs, AgentTypeOK
  <2>5. status' = status
    BY <1>5 DEF ReplyArrives, Reply
  <2> QED
    BY <2>1, <2>4, <2>5, <1>e
<1>6. ASSUME NEW h \in Handlers, ReplyUnread(h)
      PROVE  FALSE
  BY <1>6, <1>d DEF ReplyUnread, Reply
<1>7. ASSUME NEW a \in Agents, NEW j \in JobIds, StartCommand(a, j) \/ CannotStart(a, j),
             UNCHANGED <<storeVars, netVars>>
      PROVE  Waited' /\ NoneLeft'
  <2>1. Waited'
    BY <1>7, <1>d
  <2>2. cur'[a] = j /\ apc'[a] \in {"running", "reporting"}
    BY <1>7, <1>a DEF StartCommand, CannotStart, TakeNext, AgentTypeOK
  <2>3. ~Nowhere(j)'
    BY <2>2
  <2>4. ASSUME NEW i \in JobIds, i # j
        PROVE  Holders(i)' = Holders(i)
    BY <1>7, <1>a, <2>4 DEF StartCommand, CannotStart, TakeNext, Holders, AgentTypeOK
  <2>5. \A b \in Agents : cur[b] # 0 /\ apc[b] # "posting" => cur'[b] = cur[b] /\ apc'[b] # "posting"
    <3>1. cur[a] = 0
      BY <1>7 DEF StartCommand, CannotStart, TakeNext, ChannelInv, CurrentJobs, Active
    <3> QED
      BY <1>7, <1>a, <3>1 DEF StartCommand, CannotStart, TakeNext, AgentTypeOK
  <2>6. \A i \in JobIds : i # j /\ Nowhere(i)' => Nowhere(i)
    BY <1>7, <2>4, <2>5 DEF JobIds
  <2> QED
    BY <1>7, <2>1, <2>3, <2>6, <1>e
<1>8. ASSUME NEW a \in Agents, BatchDone(a), UNCHANGED <<storeVars, netVars>>
      PROVE  Waited' /\ NoneLeft'
  BY <1>8, <1>a, <1>d DEF BatchDone, Holders, AgentTypeOK
<1>9. ASSUME NEW a \in Agents, CommandExits(a)
      PROVE  Waited' /\ NoneLeft'
  BY <1>9, <1>a, <1>d DEF CommandExits, CommandEnds, Holders, AgentTypeOK
<1>10. ASSUME NEW a \in Agents, SendResult(a)
      PROVE  Waited' /\ NoneLeft'
  <2>1. Waited'
    BY <1>10, <1>d DEF SendResult
  <2>2. \A j \in JobIds : Holders(j)' = Holders(j)
    BY <1>10 DEF SendResult, PostResult, Holders
  <2>3. ASSUME NEW j \in JobIds, j = cur[a]
        PROVE  ~Nowhere(j)'
    <3>1. Result(a) \in posts' /\ Result(a).id = j
      BY <1>10, <2>3 DEF SendResult, Result
    <3> QED
      BY <3>1
  <2>4. \A j \in JobIds : j # cur[a] /\ Nowhere(j)' => Nowhere(j)
    BY <1>10, <1>a, <2>2 DEF SendResult, PostResult, AgentTypeOK
  <2> QED
    BY <1>10, <2>1, <2>3, <2>4, <1>e DEF SendResult
<1>11. ASSUME NEW a \in Agents, ResultAnswered(a)
      PROVE  Waited' /\ NoneLeft'
  BY <1>11, <1>a, <1>d DEF ResultAnswered, PostReturns, Holders, AgentTypeOK
<1>12. ASSUME NEW m \in Posts, RecordResult(m)
      PROVE  Waited' /\ NoneLeft'
  <2>1. Waited'
    BY <1>12, <1>d DEF RecordResult, CompleteJob
  <2>2. \A j \in JobIds : status'[j] = IF j = m.id THEN m.status ELSE status[j]
    BY <1>12, <1>a DEF RecordResult, CompleteJob, Normalise, StoreTypeOK, Posts
  <2>3. m.status # "running"
    BY DEF Posts, Final
  <2>4. \A j \in JobIds : j # m.id /\ Nowhere(j)' => Nowhere(j)
    BY <1>12 DEF RecordResult, CompleteJob, Holders
  <2> QED
    BY <2>1, <2>2, <2>3, <2>4, <1>e
<1>13. CASE UNCHANGED vars
  <2>1. \A j \in JobIds : Nowhere(j)' <=> Nowhere(j)
    BY <1>13 DEF vars, Holders
  <2>2. Waited' /\ status' = status
    BY <1>13, <1>d DEF vars
  <2> QED
    BY <2>1, <2>2, <1>e
<1> HIDE DEF Waited, Nowhere, NoneLeft
<1>14. CASE \E h \in Handlers :
               \/ Claim(h) \/ ClaimRefused(h) \/ ClaimBusy(h) \/ ClaimCancelled(h)
               \/ ReplyArrives(h) \/ ReplyUnread(h) \/ PollBreaks(h)
  BY ONLY <1>b, <1>3, <1>4, <1>5, <1>6, <1>14 DEF ClaimRefused, ClaimBusy, ClaimCancelled, PollBreaks
<1>15. CASE \E a \in Agents :
               \/ Execute(a) \/ CommandExits(a) \/ SendResult(a)
               \/ ResultAnswered(a) \/ ResultAbandoned(a) \/ AgentCrash(a)
  BY ONLY <1>b, <1>7, <1>8, <1>9, <1>10, <1>11, <1>15 DEF Execute, ResultAbandoned, AgentCrash
<1>16. CASE (\E m \in Posts : RecordResult(m) \/ ResultBusy(m) \/ ResultLost(m)) \/ ServerCrash
  BY ONLY <1>b, <1>12, <1>16 DEF ResultBusy, ResultLost, ServerCrash
<1>17. Waited' /\ NoneLeft'
  BY ONLY [Next]_vars, <1>1, <1>2, <1>13, <1>14, <1>15, <1>16 DEF Next
<1> QED
  BY <1>17

LEMMA AttendedInvariant == Spec => [](StoreInv /\ ChannelInv /\ AttendedInv)
<1>1. Init => AttendedInv
  <2> SUFFICES ASSUME Init
               PROVE  AttendedInv
    OBVIOUS
  <2>1. /\ \A a \in Agents : batch[a] = {}
        /\ \A h \in Handlers : hpc[h] = "idle"
        /\ \A j \in JobIds : status[j] = "absent"
    BY DEF Init, AgentInit, StoreInit
  <2> QED
    BY <2>1 DEF AttendedInv, InOrder, IdleIsDone, Attended, Waited, NoneLeft
<1>2. StoreInv /\ ChannelInv /\ AttendedInv /\ [Next]_vars => AttendedInv'
  BY InOrderNext, IdleIsDoneNext, AttendedNext DEF AttendedInv
<1> QED
  BY <1>1, <1>2, ChannelInvariant, PTL DEF Spec

\* A running job that nobody will report is the work of a fault: contention, polls at the
\* same time and slow commands alone lose none.
THEOREM OnlyFaultsOrphan == Spec => []OrphansNeedFaults
<1>1. ChannelInv /\ AttendedInv => OrphansNeedFaults
  BY MaxFaultsIsNat DEF ChannelInv, TypeOK, AttendedInv, Attended, NoneLeft, Nowhere, OrphansNeedFaults, Orphan
<1> QED
  BY <1>1, AttendedInvariant, PTL

\* On a host with one agent, no job is started after one that was queued later.
THEOREM CommandsStartInOrder == Spec => StartedInOrder
<1>1. StoreInv /\ ChannelInv /\ AttendedInv /\ [Next]_vars =>
        [\A i, j \in JobIds :
           i < j /\ hostname[i] = hostname[j] /\ SoleAgent(hostname[i]) /\ ran[j] > 0
             => ran'[i] = ran[i]]_vars
  <2> SUFFICES ASSUME ChannelInv, AttendedInv, Next, NEW i \in JobIds, NEW j \in JobIds,
                      i < j, hostname[i] = hostname[j], SoleAgent(hostname[i]), ran[j] > 0
               PROVE  ran'[i] = ran[i]
    OBVIOUS
  <2>1. \A a \in Agents : i \notin batch[a]
    BY DEF AttendedInv, InOrder, OlderThanStarted
  <2>2. ASSUME NEW a \in Agents, NEW k \in JobIds, StartCommand(a, k)
        PROVE  ran'[i] = ran[i]
    BY <2>1, <2>2 DEF StartCommand, TakeNext, IsNext, ChannelInv, TypeOK, AgentTypeOK
  <2>3. (\E a \in Agents, k \in JobIds : StartCommand(a, k)) \/ ran' = ran
    BY DEF Next, agentVars, historyVars, Submit, Poll, PollJobs, Claim, ClaimRefused, ClaimBusy, ClaimCancelled,
       RefusePoll, PollFails, ReplyArrives, GetJobs, ReplyUnread, PollBreaks, Execute, CannotStart,
       BatchDone, CommandExits, CommandEnds, SendResult, PostResult, ResultAnswered, ResultAbandoned,
       PostReturns, AgentCrash, Crash, RecordResult, ResultBusy, ResultLost, ServerCrash
  <2> QED
    BY <2>2, <2>3
<1> QED
  BY <1>1, AttendedInvariant, PTL DEF Spec, StartedInOrder
=============================================================================
