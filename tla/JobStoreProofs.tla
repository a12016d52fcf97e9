--------------------------- MODULE JobStoreProofs ---------------------------
(***************************************************************************)
(* The safety of the jobs table, for any number of hosts, jobs and         *)
(* handlers.                                                               *)
(*                                                                         *)
(* SerializableClaim carries the argument: between its SELECT and its      *)
(* COMMIT a claim knows exactly the pending jobs of its host.  It is       *)
(* inductive because what would falsify it (a queued job, a result, the    *)
(* commit of another claim) needs the locks of that claim to be gone.      *)
(***************************************************************************)
EXTENDS JobStore, TLAPS

\* The jobs of a reply have been handed out, and stay so: a reply has no job
\* that is still to be inserted.
RepliesAreHandedOut ==
  \A h \in Handlers : hpc[h] = "replying" => \A j \in out[h] : HandedOut(j)

\* A claim holds jobs of the polled host only.
OutIsForPolled ==
  \A h \in Handlers : Locking(h) \/ hpc[h] = "replying" =>
    \A j \in out[h] : hostname[j] = polled[h]

\* A row of the table has a host.
RowsHaveHost == \A j \in JobIds : status[j] # "absent" => hostname[j] \in Hosts

StoreInv ==
  /\ StoreTypeOK
  /\ IdsInOrder
  /\ SerializableClaim
  /\ RepliesAreHandedOut
  /\ OutIsForPolled
  /\ NeverTwoPollers
  /\ ClaimsArePrefix
  /\ RowsHaveHost

\* The store starts in a good state.
LEMMA StoreInitInv == StoreInit => StoreInv
  BY MaxJobsIsNat DEF StoreInit, StoreInv, StoreTypeOK, IdsInOrder, SerializableClaim,
     RepliesAreHandedOut, OutIsForPolled, NeverTwoPollers, ClaimsArePrefix, RowsHaveHost, Locking,
     HandedOut, JobIds, Status, Final

\* Every step of the store keeps it in one.
LEMMA StoreNextInv == StoreInv /\ [StoreNext]_storeVars => StoreInv'
<1> SUFFICES ASSUME StoreInv, [StoreNext]_storeVars PROVE StoreInv'
  OBVIOUS
<1> USE MaxJobsIsNat DEF StoreInv, StoreTypeOK, JobIds, Status, Final, HandedOut, Locking
<1>1. ASSUME NEW n \in Hosts, EnqueueJob(n) PROVE StoreInv'
  <2> USE <1>1 DEF EnqueueJob, claimVars, NoLock
  <2>0. lastId + 1 \in JobIds /\ status[lastId + 1] = "absent"
    BY DEF IdsInOrder
  <2>1. StoreTypeOK'
    BY <2>0
  <2>2. IdsInOrder'
    BY <2>0 DEF IdsInOrder
  <2>3. SerializableClaim'
    BY DEF SerializableClaim
  <2>4. RepliesAreHandedOut'
    BY <2>0 DEF RepliesAreHandedOut
  <2>5. OutIsForPolled'
    BY <2>0 DEF OutIsForPolled, RepliesAreHandedOut
  <2>6. NeverTwoPollers'
    BY <2>0 DEF NeverTwoPollers, RepliesAreHandedOut, Others
  <2>7. ClaimsArePrefix'
    BY <2>0 DEF ClaimsArePrefix, IdsInOrder
  <2>8. RowsHaveHost'
    BY DEF RowsHaveHost
  <2> QED
    BY <2>1, <2>2, <2>3, <2>4, <2>5, <2>6, <2>7, <2>8
<1>2. ASSUME NEW h \in Handlers, NEW n \in Hosts, ReceivePoll(h, n) PROVE StoreInv'
  BY <1>2 DEF ReceivePoll, jobVars, IdsInOrder, SerializableClaim, PendingFor,
     RepliesAreHandedOut, OutIsForPolled, NeverTwoPollers, Others, ClaimsArePrefix, RowsHaveHost
<1>3. ASSUME NEW h \in Handlers, ClaimNothing(h) PROVE StoreInv'
  BY <1>3 DEF ClaimNothing, jobVars, IdsInOrder, SerializableClaim, PendingFor,
     RepliesAreHandedOut, OutIsForPolled, NeverTwoPollers, Others, ClaimsArePrefix, RowsHaveHost
<1>4. ASSUME NEW h \in Handlers, ClaimSelect(h) PROVE StoreInv'
  BY <1>4 DEF ClaimSelect, jobVars, IdsInOrder, SerializableClaim, PendingFor,
     RepliesAreHandedOut, OutIsForPolled, NeverTwoPollers, Others, ClaimsArePrefix, RowsHaveHost
<1>5. ASSUME NEW h \in Handlers, ClaimUpdate(h) PROVE StoreInv'
  BY <1>5 DEF ClaimUpdate, jobVars, IdsInOrder, SerializableClaim, PendingFor,
     RepliesAreHandedOut, OutIsForPolled, NeverTwoPollers, Others, ClaimsArePrefix, RowsHaveHost
<1>6. ASSUME NEW h \in Handlers, ClaimCommit(h) PROVE StoreInv'
  <2> USE <1>6 DEF ClaimCommit, NoOtherLock, Others
  <2>0. out[h] = PendingFor(polled[h])
    BY DEF SerializableClaim
  <2>1. StoreTypeOK'
    OBVIOUS
  <2>2. IdsInOrder'
    BY DEF IdsInOrder
  <2>3. SerializableClaim'
    BY DEF SerializableClaim
  <2>4. RepliesAreHandedOut'
    BY <2>0 DEF RepliesAreHandedOut, PendingFor
  <2>5. OutIsForPolled'
    BY <2>0 DEF OutIsForPolled, PendingFor
  <2>6. NeverTwoPollers'
    BY <2>0 DEF NeverTwoPollers, PendingFor
  <2>7. ClaimsArePrefix'
    BY <2>0 DEF ClaimsArePrefix, PendingFor
  <2>8. RowsHaveHost'
    BY DEF RowsHaveHost
  <2> QED
    BY <2>1, <2>2, <2>3, <2>4, <2>5, <2>6, <2>7, <2>8
<1>7. ASSUME NEW h \in Handlers, ClaimFails(h) \/ Reply(h) PROVE StoreInv'
  BY <1>7 DEF ClaimFails, Reply, jobVars, IdsInOrder, SerializableClaim, PendingFor,
     RepliesAreHandedOut, OutIsForPolled, NeverTwoPollers, Others, ClaimsArePrefix, RowsHaveHost
<1>8. ASSUME NEW j \in JobIds, NEW s \in Final \cup {"other"}, HandedOut(j), CompleteJob(j, s)
      PROVE StoreInv'
  BY <1>8 DEF CompleteJob, Normalise, NoLock, claimVars, IdsInOrder, SerializableClaim,
     PendingFor, RepliesAreHandedOut, OutIsForPolled, NeverTwoPollers, Others, ClaimsArePrefix, RowsHaveHost
<1>9. CASE Restart
  BY <1>9 DEF Restart, jobVars, IdsInOrder, SerializableClaim, PendingFor,
     RepliesAreHandedOut, OutIsForPolled, NeverTwoPollers, Others, ClaimsArePrefix, RowsHaveHost
<1>10. CASE UNCHANGED storeVars
  BY <1>10 DEF storeVars, IdsInOrder, SerializableClaim, PendingFor,
     RepliesAreHandedOut, OutIsForPolled, NeverTwoPollers, Others, ClaimsArePrefix, RowsHaveHost
<1> QED
  BY <1>1, <1>2, <1>3, <1>4, <1>5, <1>6, <1>7, <1>8, <1>9, <1>10 DEF StoreNext

\* The claims are serializable: between the SELECT and the COMMIT of ClaimJobs
\* nothing changes the pending jobs of its host.
THEOREM ClaimsSerializable == StoreSpec => []SerializableClaim
  BY StoreInitInv, StoreNextInv, PTL DEF StoreSpec, StoreInv

\* "A job is never handed to two pollers" by concurrent polls.
THEOREM NoDoubleClaim == StoreSpec => []NeverTwoPollers
  BY StoreInitInv, StoreNextInv, PTL DEF StoreSpec, StoreInv

\* Jobs of a host are claimed in the order they were queued.
THEOREM ClaimsInOrder == StoreSpec => []ClaimsArePrefix
  BY StoreInitInv, StoreNextInv, PTL DEF StoreSpec, StoreInv

\* No row of the jobs table goes back, whatever results come and however often the
\* server restarts: pending and running are left for good.
THEOREM RowsMoveForward == StoreSpec => StatusMovesForward
<1>1. StoreInv /\ [StoreNext]_storeVars
        => [\A j \in JobIds :
              /\ status[j] = "pending" => status'[j] \in {"pending", "running"}
              /\ HandedOut(j) => status'[j] \in {"running"} \cup Final
              /\ status[j] \in Final => status'[j] \in Final]_storeVars
  <2> SUFFICES ASSUME StoreInv, StoreNext, NEW j \in JobIds
               PROVE  /\ status[j] = "pending" => status'[j] \in {"pending", "running"}
                      /\ HandedOut(j) => status'[j] \in {"running"} \cup Final
                      /\ status[j] \in Final => status'[j] \in Final
    OBVIOUS
  <2> USE DEF StoreInv, StoreTypeOK, HandedOut, Final
  <2>1. CASE UNCHANGED status
    BY <2>1
  <2>2. ASSUME NEW n \in Hosts, EnqueueJob(n)
        PROVE  status[j] = "absent" \/ status'[j] = status[j]
    BY <2>2, MaxJobsIsNat DEF EnqueueJob, IdsInOrder, JobIds
  <2>3. ASSUME NEW h \in Handlers, ClaimCommit(h)
        PROVE  status'[j] = status[j] \/ (status[j] = "pending" /\ status'[j] = "running")
    BY <2>3 DEF ClaimCommit
  <2>4. ASSUME NEW i \in JobIds, NEW s \in Final \cup {"other"}, HandedOut(i), CompleteJob(i, s)
        PROVE  status'[j] = status[j] \/ (HandedOut(j) /\ status'[j] \in Final)
    BY <2>4 DEF CompleteJob, Normalise
  <2>5. \/ \E n \in Hosts : EnqueueJob(n)
        \/ \E h \in Handlers : ClaimCommit(h)
        \/ \E i \in JobIds, s \in Final \cup {"other"} : HandedOut(i) /\ CompleteJob(i, s)
        \/ UNCHANGED status
    BY DEF StoreNext, ReceivePoll, ClaimNothing, ClaimSelect, ClaimUpdate, ClaimFails, Reply,
           Restart, jobVars
  <2> QED
    BY <2>1, <2>2, <2>3, <2>4, <2>5
<1> QED
  BY <1>1, StoreInitInv, StoreNextInv, PTL DEF StoreSpec, StatusMovesForward
=============================================================================
