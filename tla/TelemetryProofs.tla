--------------------------- MODULE TelemetryProofs ---------------------------
(***************************************************************************)
(* Proofs about Telemetry, for all intervals, thresholds and machines:     *)
(* alarms are justified, silence is noticed, the control plane is a        *)
(* failure detector, what can be read is reported, and the updates of a    *)
(* report are those winget lists.                                          *)
(*                                                                         *)
(* The silence of an endpoint is what it spent working, the whole sleeps   *)
(* before posts that were lost, and the part of the sleep it is in.        *)
(*                                                                         *)
(* A line of winget's table is its cells, each padded to its column, so    *)
(* the header tells where the columns begin and cutting there gives the    *)
(* cells back; the updates are the lines at a list of places behind the    *)
(* header, and a list of the places of the rows is unique.                 *)
(***************************************************************************)
EXTENDS Telemetry, DataLemmas, TLAPS

\* What is collected concerns no clock.
Steady == UNCHANGED <<nap, scanning, server, lost, busy, faults>>

\* The steps of collect only move the loop on.
LEMMA CollectIsSteady ==
  ASSUME Collect
  PROVE  /\ Steady
         /\ phase \in {"collecting"} \cup Reading
         /\ phase' \in Reading \cup {"posting"}
<1>1. CASE \E m \in Machines : ReadFirstSections(m)
  BY <1>1 DEF ReadFirstSections, Steady, Reading
<1>2. CASE ReadUpdates
  BY <1>2 DEF ReadUpdates, Steady, Reading
<1>3. CASE ReadConnections
  BY <1>3 DEF ReadConnections, Steady, Reading
<1>4. CASE ReadProcesses
  BY <1>4 DEF ReadProcesses, Steady, Reading
<1>5. CASE SendReport
  BY <1>5 DEF SendReport, Steady, Reading
<1> QED
  BY <1>1, <1>2, <1>3, <1>4, <1>5 DEF Collect

\* A clock stays in its range.
LEMMA LaterIsClock ==
  ASSUME NEW t \in 0..Horizon
  PROVE  /\ Later(t) \in 0..Horizon
         /\ t < Horizon => Later(t) = t + 1
         /\ Later(t) >= t
  BY HorizonIsFar DEF Later

-----------------------------------------------------------------------------
(* Types *)

LEMMA TypeInit == Init => TypeOK
<1> SUFFICES ASSUME Init
             PROVE  TypeOK
  OBVIOUS
<1>1. /\ phase = "collecting" /\ nap \in 0..Interval /\ tick \in 0..MonInterval
      /\ age \in 0..Horizon /\ busy \in 0..Horizon /\ unwatched \in 0..Horizon /\ lost \in 0..Horizon
      /\ faults \in 0..MaxFaults
  BY IntervalsAreTimes, HorizonIsFar, FaultsAreNat DEF Init
<1>2. scanning \in BOOLEAN /\ up \in BOOLEAN /\ known \in BOOLEAN /\ offline \in BOOLEAN
  BY DEF Init
<1> QED
  BY <1>1, <1>2 DEF TypeOK

LEMMA TypeStep == TypeOK /\ [Next]_vars => TypeOK'
<1> SUFFICES ASSUME TypeOK, [Next]_vars
             PROVE  TypeOK'
  OBVIOUS
<1> USE IntervalsAreTimes, HorizonIsFar, FaultsAreNat DEF TypeOK
<1>1. CASE Collect
  BY <1>1, CollectIsSteady DEF Steady, server
<1>2. CASE StoreReport
  BY <1>2 DEF StoreReport, Reading
<1>3. CASE PostReturns
  BY <1>3 DEF PostReturns, Sleep, server
<1>4. CASE PostFails
  <2>1. lost' \in 0..Horizon
    BY <1>4, LaterIsClock DEF PostFails
  <2>2. faults' \in 0..MaxFaults
    BY <1>4 DEF PostFails
  <2> QED
    BY <1>4, <2>1, <2>2 DEF PostFails, Sleep, server
<1>5. CASE WakeUp
  BY <1>5 DEF WakeUp, server
<1>6. CASE \E procs \in Processes : ProcessesChange(procs)
  BY <1>6 DEF ProcessesChange, server
<1>7. CASE Scan
  BY <1>7 DEF Scan, StartScan, EndScan, server
<1>8. CASE AgentStops
  <2>1. faults' \in 0..MaxFaults /\ nap' \in 0..Interval /\ phase' = "down"
    BY <1>8 DEF AgentStops
  <2>2. scanning' = FALSE /\ UNCHANGED <<server, lost, busy>>
    BY <1>8 DEF AgentStops
  <2> QED
    BY <2>1, <2>2 DEF server
<1>9. CASE AgentStarts
  BY <1>9 DEF AgentStarts, server
<1>10. CASE Evaluate
  <2>1. offline' \in BOOLEAN
    BY <1>10 DEF Evaluate, IsOverdue
  <2> QED
    BY <1>10, <2>1 DEF Evaluate
<1>11. CASE EvaluationFails
  BY <1>11 DEF EvaluationFails
<1>12. CASE ServerStops
  <2>1. faults' \in 0..MaxFaults
    BY <1>12 DEF ServerStops
  <2>2. up' = FALSE /\ UNCHANGED <<phase, nap, scanning, known, age, tick, offline, unwatched, lost, busy>>
    BY <1>12 DEF ServerStops
  <2> QED
    BY <2>1, <2>2
<1>13. CASE ServerStarts
  BY <1>13 DEF ServerStarts
<1>14. CASE Wait
  <2>1. age' \in 0..Horizon /\ busy' \in 0..Horizon /\ unwatched' \in 0..Horizon
    BY <1>14, LaterIsClock DEF Wait
  <2>2. tick' \in 0..MonInterval /\ nap' \in 0..Interval
    BY <1>14 DEF Wait
  <2> QED
    BY <1>14, <2>1, <2>2 DEF Wait
<1>15. CASE UNCHANGED vars
  BY <1>15 DEF vars, server
<1> QED
  BY <1>1, <1>2, <1>3, <1>4, <1>5, <1>6, <1>7, <1>8, <1>9, <1>10, <1>11, <1>12, <1>13,
     <1>14, <1>15 DEF Next, Loop

\* Type correctness: sleeps, ticks and clocks stay in their ranges.
THEOREM TelemetryTypeCorrect == Spec => []TypeOK
  BY TypeInit, TypeStep, PTL DEF Spec

-----------------------------------------------------------------------------
(* Silence is accounted for *)

Slept == lost * Interval

\* The silence of a known endpoint, by the place its loop is at.
Accounted ==
  known =>
    /\ phase = "sleeping" => age <= busy + Slept + (Interval - nap)
    /\ phase = "answered" => lost = 0 /\ age <= busy
    /\ phase \notin {"sleeping", "answered"} => age <= busy + Slept + Interval

\* Sleeps add up; at the bound they exceed every clock.
LEMMA SleepsAddUp ==
  ASSUME NEW l \in 0..Horizon
  PROVE  /\ l * Interval \in Nat
         /\ (l + 1) * Interval = l * Interval + Interval
         /\ Later(l) * Interval >= l * Interval
         /\ l < Horizon => Later(l) * Interval = l * Interval + Interval
         /\ l = Horizon => Later(l) = Horizon /\ (Interval = 0 \/ l * Interval >= Horizon)
<1>1. l * Interval \in Nat /\ (l + 1) * Interval = l * Interval + Interval
  BY IntervalsAreTimes, HorizonIsFar
<1>2. CASE l < Horizon
  BY <1>1, <1>2, IntervalsAreTimes, HorizonIsFar DEF Later
<1>3. CASE l = Horizon
  <2>1. Later(l) = Horizon
    BY <1>3, HorizonIsFar DEF Later
  <2>2. Interval = 0 \/ Horizon * Interval >= Horizon
    BY IntervalsAreTimes, HorizonIsFar
  <2> QED
    BY <1>1, <1>3, <2>1, <2>2, IntervalsAreTimes, HorizonIsFar
<1> QED
  BY <1>2, <1>3, HorizonIsFar

LEMMA AccountedStep == TypeOK /\ Accounted /\ [Next]_vars => Accounted'
<1> SUFFICES ASSUME TypeOK, Accounted, [Next]_vars, known'
             PROVE  /\ phase' = "sleeping" => age' <= busy' + Slept' + (Interval - nap')
                    /\ phase' = "answered" => lost' = 0 /\ age' <= busy'
                    /\ phase' \notin {"sleeping", "answered"} => age' <= busy' + Slept' + Interval
  BY DEF Accounted
<1> USE IntervalsAreTimes, HorizonIsFar
<1>1. /\ nap \in 0..Interval /\ age \in 0..Horizon /\ busy \in 0..Horizon /\ lost \in 0..Horizon
      /\ Slept \in Nat
  BY SleepsAddUp DEF TypeOK, Slept
<1>2. known => age <= busy + Slept + Interval
  BY <1>1 DEF Accounted
<1>3. CASE Collect
  <2>1. UNCHANGED <<known, age, busy, lost>> /\ phase' \notin {"sleeping", "answered"}
    BY <1>3, CollectIsSteady DEF Steady, server, Reading
  <2> QED
    BY <1>2, <2>1 DEF Slept
<1>4. CASE StoreReport
  <2>1. age' = 0 /\ busy' = 0 /\ lost' = 0 /\ phase' = "answered"
    BY <1>4 DEF StoreReport
  <2> QED
    BY <2>1
<1>5. CASE PostReturns
  BY <1>5, <1>1 DEF PostReturns, Sleep, server, Accounted, Slept
<1>6. CASE PostFails
  <2>1. /\ UNCHANGED <<known, age, busy>> /\ lost' = Later(lost)
        /\ phase = "posting" /\ phase' = "sleeping" /\ nap' = Interval
    BY <1>6 DEF PostFails, Sleep, server
  <2>2. age <= busy + Slept + Interval
    BY <1>2, <2>1
  <2>3. CASE lost < Horizon
    <3>1. Slept' = Slept + Interval
      BY <1>1, <2>1, <2>3, SleepsAddUp DEF Slept
    <3> QED
      BY <1>1, <2>1, <2>2, <3>1
  <2>4. CASE lost = Horizon
    <3>1. Slept' = Slept /\ (Interval = 0 \/ Slept >= Horizon)
      BY <1>1, <2>1, <2>4, SleepsAddUp DEF Slept
    <3> QED
      BY <1>1, <2>1, <2>2, <3>1
  <2> QED
    BY <1>1, <2>3, <2>4
<1>7. CASE WakeUp
  <2>1. UNCHANGED <<known, age, busy, lost>> /\ phase' = "collecting"
    BY <1>7 DEF WakeUp, server
  <2> QED
    BY <1>2, <2>1 DEF Slept
<1>8. CASE AgentStops \/ AgentStarts
  <2>1. UNCHANGED <<known, age, busy, lost>> /\ phase' \notin {"sleeping", "answered"}
    BY <1>8 DEF AgentStops, AgentStarts, server
  <2> QED
    BY <1>2, <2>1 DEF Slept
<1>9. CASE \/ \E procs \in Processes : ProcessesChange(procs)
           \/ Scan \/ Evaluate \/ EvaluationFails \/ ServerStops \/ ServerStarts
           \/ UNCHANGED vars
  <2>1. UNCHANGED <<known, age, busy, lost, phase, nap>>
    BY <1>9 DEF ProcessesChange, Scan, Evaluate, EvaluationFails, ServerStops, ServerStarts,
                vars, server
  <2> QED
    BY <2>1 DEF Accounted, Slept
<1>10. CASE Wait
  <2>0. UNCHANGED <<known, lost, phase>> /\ known
    BY <1>10 DEF Wait
  <2>1. /\ UNCHANGED <<lost, phase>> /\ age' = Later(age)
        /\ phase # "sleeping" => busy' = Later(busy) /\ nap' = nap
        /\ phase = "sleeping" => busy' = busy /\ nap' = nap - 1 /\ nap > 0
    BY <1>10, <1>1, <2>0 DEF Wait, Due
  <2>2. age' \in 0..Horizon /\ age' <= age + 1
    BY <1>1, <2>1 DEF Later
  <2>3. CASE phase = "sleeping"
    BY <1>1, <2>0, <2>1, <2>2, <2>3 DEF Accounted, Slept
  <2>4. CASE phase # "sleeping"
    <3>1. busy' = busy + 1 \/ busy' = Horizon
      BY <1>1, <2>1, <2>4 DEF Later
    <3>2. Slept' = Slept
      BY <2>1 DEF Slept
    <3>3. CASE phase = "answered"
      BY <1>1, <2>0, <2>1, <2>2, <3>1, <3>3 DEF Accounted
    <3>4. CASE phase # "answered"
      BY <1>1, <1>2, <2>0, <2>1, <2>2, <2>4, <3>1, <3>2, <3>4
    <3> QED
      BY <3>3, <3>4
  <2> QED
    BY <2>3, <2>4
<1> QED
  BY <1>3, <1>4, <1>5, <1>6, <1>7, <1>8, <1>9, <1>10 DEF Next, Loop

LEMMA SilenceIsAccounted == Spec => [](TypeOK /\ Accounted)
<1>1. Init => TypeOK /\ Accounted
  BY TypeInit DEF Init, Accounted
<1>2. TypeOK /\ Accounted /\ [Next]_vars => (TypeOK /\ Accounted)'
  BY TypeStep, AccountedStep
<1> QED
  BY <1>1, <1>2, PTL DEF Spec

\* Only an evaluation changes what is shown of the endpoint.
LEMMA OnlyEvaluateAlarms ==
  ASSUME [Next]_vars
  PROVE  Evaluate \/ UNCHANGED offline
<1>1. CASE Collect
  BY <1>1, CollectIsSteady DEF Steady, server
<1>2. CASE ~Collect
  BY <1>2 DEF Next, Loop, StoreReport, PostReturns, PostFails, WakeUp, ProcessesChange, Scan,
              AgentStops, AgentStarts, EvaluationFails, ServerStops, ServerStarts, Wait, vars, server
<1> QED
  BY <1>1, <1>2

\* An alarm is raised only if lost reports, work and outages make up the silence; sleeps
\* between reports that arrive, and scans, never do.
THEOREM AlarmsAreJustified == Spec => NoFalseAlarm
<1>1. TypeOK /\ Accounted /\ [Next]_vars
        => [~offline /\ offline' => (lost + 1) * Interval + busy > OfflineAfter]_vars
  <2> SUFFICES ASSUME TypeOK, Accounted, [Next]_vars, ~offline, offline'
               PROVE  (lost + 1) * Interval + busy > OfflineAfter
    OBVIOUS
  <2>1. known /\ age > OfflineAfter
    BY OnlyEvaluateAlarms DEF Evaluate, IsOverdue, TypeOK
  <2>2. /\ lost \in 0..Horizon /\ busy \in 0..Horizon /\ age \in 0..Horizon /\ nap \in 0..Interval
        /\ Slept \in Nat /\ (lost + 1) * Interval = Slept + Interval
    BY SleepsAddUp DEF TypeOK, Slept
  <2>3. age <= busy + Slept + Interval
    BY <2>1, <2>2, IntervalsAreTimes, HorizonIsFar DEF Accounted
  <2> QED
    BY <2>1, <2>2, <2>3, IntervalsAreTimes, HorizonIsFar
<1> QED
  BY <1>1, SilenceIsAccounted, PTL DEF Spec, NoFalseAlarm

-----------------------------------------------------------------------------
(* Silence is noticed *)

LEMMA NoticedStep == TypeOK /\ SilenceIsNoticed /\ [Next]_vars => SilenceIsNoticed'
<1> SUFFICES ASSUME TypeOK, SilenceIsNoticed, [Next]_vars,
                    known', unwatched' < age', age' < Horizon
             PROVE  offline' <=> age' - unwatched' > OfflineAfter
  BY DEF SilenceIsNoticed
<1> USE IntervalsAreTimes, HorizonIsFar
<1>1. CASE StoreReport
  BY <1>1 DEF StoreReport, TypeOK
<1>2. CASE Evaluate
  <2>1. UNCHANGED <<known, age>> /\ unwatched' = 0 /\ (offline' <=> known /\ age > OfflineAfter)
    BY <1>2 DEF Evaluate, IsOverdue
  <2>2. age' - unwatched' = age
    BY <2>1 DEF TypeOK
  <2> QED
    BY <2>1, <2>2
<1>3. CASE Wait
  <2>1. /\ UNCHANGED <<known, offline>> /\ age' = Later(age) /\ unwatched' = Later(unwatched)
        /\ age \in 0..Horizon /\ unwatched \in 0..Horizon
    BY <1>3 DEF Wait, TypeOK
  <2>2. age' = age + 1 /\ age < Horizon
    BY <2>1 DEF Later
  <2>3. unwatched' = unwatched + 1
    BY <2>1, <2>2 DEF Later
  <2> QED
    BY <2>1, <2>2, <2>3 DEF SilenceIsNoticed
<1>4. CASE ~StoreReport /\ ~Evaluate /\ ~Wait
  <2>1. CASE Collect
    <3>1. UNCHANGED <<known, age, unwatched, offline>>
      BY <2>1, CollectIsSteady DEF Steady, server
    <3> QED
      BY <3>1 DEF SilenceIsNoticed
  <2>2. CASE ~Collect
    <3>1. UNCHANGED <<known, age, unwatched, offline>>
      BY <1>4, <2>2 DEF Next, Loop, PostReturns, PostFails, WakeUp, ProcessesChange, Scan,
           AgentStops, AgentStarts, EvaluationFails, ServerStops, ServerStarts, vars, server
    <3> QED
      BY <3>1 DEF SilenceIsNoticed
  <2> QED
    BY <2>1, <2>2
<1> QED
  BY <1>1, <1>2, <1>3, <1>4

\* An endpoint heard before the last evaluation is shown as it was then, on both
\* sides of the threshold and at it.
THEOREM SilenceNoticed == Spec => []SilenceIsNoticed
<1>1. Init => SilenceIsNoticed
  BY DEF Init, SilenceIsNoticed
<1> QED
  BY <1>1, NoticedStep, TelemetryTypeCorrect, PTL DEF Spec

-----------------------------------------------------------------------------
(* The control plane is a failure detector *)

\* An endpoint that was never heard has no clock and no alert.
KnownFirst == ~known => age = 0 /\ ~offline

LEMMA KnownFirstStep == TypeOK /\ KnownFirst /\ [Next]_vars => KnownFirst'
<1> SUFFICES ASSUME TypeOK, KnownFirst, [Next]_vars, ~known'
             PROVE  age' = 0 /\ ~offline'
  BY DEF KnownFirst
<1>1. CASE Collect
  BY <1>1, CollectIsSteady DEF Steady, server, KnownFirst
<1>2. CASE StoreReport
  BY <1>2 DEF StoreReport
<1>3. CASE Evaluate
  BY <1>3 DEF Evaluate, IsOverdue, KnownFirst
<1>4. CASE Wait
  BY <1>4 DEF Wait, KnownFirst
<1>5. CASE ~Collect /\ ~StoreReport /\ ~Evaluate /\ ~Wait
  <2>1. UNCHANGED <<known, age, offline>>
    BY <1>5 DEF Next, Loop, PostReturns, PostFails, WakeUp, ProcessesChange, Scan, AgentStops,
         AgentStarts, EvaluationFails, ServerStops, ServerStarts, vars, server
  <2> QED
    BY <2>1 DEF KnownFirst
<1> QED
  BY <1>1, <1>2, <1>3, <1>4, <1>5

\* Every step of the system is one of the failure detector, or leaves the silence and
\* the alert alone: alerts are raised beyond the threshold and resolved below it only.
THEOREM DetectsFailures == Spec => Watch!Spec
<1>1. Init => Watch!Init /\ KnownFirst
  BY DEF Init, Watch!Init, KnownFirst
<1>2. TypeOK /\ KnownFirst /\ [Next]_vars => [Watch!Next]_Watch!vars
  <2> SUFFICES ASSUME TypeOK, KnownFirst, [Next]_vars
               PROVE  Watch!Next \/ UNCHANGED Watch!vars
    OBVIOUS
  <2>1. CASE StoreReport
    BY <2>1 DEF StoreReport, Watch!Next, Watch!Heard
  <2>2. CASE Wait
    <3>1. CASE known
      BY <2>2, <3>1 DEF Wait, Later, Watch!Next, Watch!TimePasses
    <3>2. CASE ~known
      BY <2>2, <3>2 DEF Wait, Watch!vars
    <3> QED
      BY <3>1, <3>2
  <2>3. CASE Evaluate
    <3>1. (offline' <=> IsOverdue) /\ offline' \in BOOLEAN /\ UNCHANGED age
      BY <2>3 DEF Evaluate, IsOverdue
    <3>2. offline \in BOOLEAN /\ age \in Nat /\ OfflineAfter \in Nat
      BY IntervalsAreTimes, HorizonIsFar DEF TypeOK
    <3>3. CASE IsOverdue
      BY <3>1, <3>2, <3>3 DEF IsOverdue, Watch!Next, Watch!Raise, Watch!vars
    <3>4. CASE ~IsOverdue
      <4>1. CASE offline
        <5>1. age <= OfflineAfter
          BY <3>2, <3>4, <4>1 DEF IsOverdue, KnownFirst
        <5> QED
          BY <3>1, <3>4, <4>1, <5>1 DEF Watch!Next, Watch!Withdraw
      <4>2. CASE ~offline
        BY <3>1, <3>2, <3>4, <4>2 DEF Watch!vars
      <4> QED
        BY <4>1, <4>2
    <3> QED
      BY <3>3, <3>4
  <2>4. CASE ~StoreReport /\ ~Wait /\ ~Evaluate
    <3>1. CASE Collect
      BY <3>1, CollectIsSteady DEF Steady, server, Watch!vars
    <3>2. CASE ~Collect
      BY <2>4, <3>2 DEF Next, Loop, PostReturns, PostFails, WakeUp, ProcessesChange, Scan,
           AgentStops, AgentStarts, EvaluationFails, ServerStops, ServerStarts, vars, server,
           Watch!vars
    <3> QED
      BY <3>1, <3>2
  <2> QED
    BY <2>1, <2>2, <2>3, <2>4
<1> QED
  BY <1>1, <1>2, KnownFirstStep, TelemetryTypeCorrect, PTL DEF Spec, Watch!Spec

-----------------------------------------------------------------------------
(* The sections of the inventory *)

\* What is kept of a sequence is a sequence of just those elements.
LEMMA KeptIsThere ==
  ASSUME NEW S, NEW s \in Seq(S), NEW keep \in SUBSET DOMAIN s,
         NEW T, \A i \in keep : s[i] \in T
  PROVE  /\ AtIndexes(s, keep) \in Seq(T)
         /\ \A i \in keep : s[i] \in ToSet(AtIndexes(s, keep))
<1> DEFINE R == {p \in Nat \X Nat : p[1] < p[2]}
           B(i) == {j \in keep : j < i}
           at == [k \in 1..Cardinality(keep) |-> Nth(keep, <, k)]
<1>1. keep \in SUBSET Nat
  OBVIOUS
<1>2. \A i \in keep : Place(R, keep, i) = Cardinality(B(i))
  <2>1. \A i \in keep : {j \in keep : <<j, i>> \in R} = B(i)
    BY <1>1
  <2> HIDE DEF B, R
  <2> QED
    BY <2>1 DEF Place
<1>3. IsStrictOrder(R, keep)
  BY <1>1 DEF IsStrictOrder
<1>4. \A k \in 1..Cardinality(keep) : at[k] = CHOOSE i \in keep : Cardinality(B(i)) = k - 1
  BY DEF Nth
<1> HIDE DEF B, R, at
<1>5. IsArrangement(at, R, keep)
  BY <1>2, <1>4 DEF IsArrangement
<1>6. AtIndexes(s, keep) = [k \in 1..Cardinality(keep) |-> s[at[k]]]
  BY DEF AtIndexes, at
<1>7. LET t == [k \in 1..Cardinality(keep) |-> s[at[k]]]
      IN  t \in Seq(T) /\ \A i \in keep : s[i] \in ToSet(t)
  BY <1>3, <1>5, ArrangedIsThere
<1> QED
  BY <1>6, <1>7

\* A run of equal elements keeps its first.
LEMMA OneOfEachRunIsKept ==
  ASSUME NEW S, NEW s \in Seq(S), NEW e \in ToSet(s)
  PROVE  e \in ToSet(AtIndexes(s, {i \in DOMAIN s : i = 1 \/ s[i] # s[i - 1]}))
<1> DEFINE hits == {i \in DOMAIN s : s[i] = e}
           keep == {i \in DOMAIN s : i = 1 \/ s[i] # s[i - 1]}
<1>1. hits \in SUBSET Nat /\ hits # {}
  BY DEF ToSet
<1>2. PICK i \in hits : \A j \in hits : i <= j
  <2> HIDE DEF hits
  <2> QED
    BY <1>1, LeastElement
<1>3. i \in keep
  <2> SUFFICES ASSUME i # 1, s[i] = s[i - 1]
               PROVE  FALSE
    OBVIOUS
  <2>1. i - 1 \in hits /\ i \in Nat
    OBVIOUS
  <2> QED
    BY <1>2, <2>1
<1>4. keep \in SUBSET DOMAIN s /\ \A k \in keep : s[k] \in S
  OBVIOUS
<1>5. s[i] = e
  OBVIOUS
<1> HIDE DEF keep
<1>6. s[i] \in ToSet(AtIndexes(s, keep))
  BY <1>3, <1>4, KeptIsThere
<1> QED
  BY <1>5, <1>6 DEF keep

\* What can be opened is read.
LEMMA OpenAreRead ==
  ASSUME NEW S, NEW hives \in Seq(Answer(S)), NEW h \in DOMAIN hives, hives[h] # Failed,
         NEW open, open = AtIndexes(hives, {i \in DOMAIN hives : hives[i] # Failed})
  PROVE  FlattenSeq(open) \in Seq(S) /\ ToSet(hives[h]) \subseteq ToSet(FlattenSeq(open))
<1> DEFINE keep == {i \in DOMAIN hives : hives[i] # Failed}
<1>1. keep \in SUBSET DOMAIN hives /\ h \in keep /\ \A i \in keep : hives[i] \in Seq(S)
  BY DEF Answer
<1> HIDE DEF keep
<1>2. open \in Seq(Seq(S)) /\ hives[h] \in ToSet(open)
  BY <1>1, KeptIsThere DEF keep
<1>3. PICK i \in DOMAIN open : hives[h] = open[i]
  BY <1>2 DEF ToSet
<1>4. /\ FlattenSeq(open) \in Seq(S)
      /\ \A k \in DOMAIN open : ToSet(open[k]) \subseteq ToSet(FlattenSeq(open))
  BY <1>2, FlattenKeeps
<1> QED
  BY <1>3, <1>4

\* What the list says of an app.
Named == [name : Nat \X STRING, version : Nat]

\* The sort of the list leaves nothing out.
LEMMA AppsAreSorted ==
  ASSUME NEW apps \in Seq(Named)
  PROVE  LET precedes(i, j) == \/ apps[i].name[1] < apps[j].name[1]
                               \/ apps[i].name[1] = apps[j].name[1] /\ i < j
             sorted == [k \in DOMAIN apps |-> apps[Nth(DOMAIN apps, precedes, k)]]
         IN  sorted \in Seq(Named) /\ ToSet(apps) \subseteq ToSet(sorted)
<1> DEFINE precedes(i, j) == \/ apps[i].name[1] < apps[j].name[1]
                             \/ apps[i].name[1] = apps[j].name[1] /\ i < j
           sorted == [k \in DOMAIN apps |-> apps[Nth(DOMAIN apps, precedes, k)]]
           letters(i) == apps[i].name[1]
           S == DOMAIN apps
           R == {p \in S \X S : precedes(p[1], p[2])}
           B(i) == {j \in S : precedes(j, i)}
           at == [k \in S |-> Nth(S, precedes, k)]
<1>1. S = 1..Len(apps) /\ Len(apps) \in Nat /\ \A i \in S : apps[i] \in Named
  OBVIOUS
<1>2. \A i \in S : letters(i) \in Nat /\ i \in Nat
  <2>1. \A n \in Named : n.name[1] \in Nat
    BY DEF Named
  <2> QED
    BY <1>1, <2>1
<1>3. IsStrictOrder(R, S)
  <2>1. \A i, j \in S : <<i, j>> \in R
                          <=> \/ letters(i) < letters(j)
                              \/ letters(i) = letters(j) /\ i < j
    OBVIOUS
  <2> HIDE DEF letters, R, S
  <2> QED
    BY <1>2, <2>1 DEF IsStrictOrder
<1>4. \A i \in S : Place(R, S, i) = Cardinality(B(i))
  <2>1. \A i \in S : {j \in S : <<j, i>> \in R} = B(i)
    OBVIOUS
  <2> HIDE DEF B, R, precedes
  <2> QED
    BY <2>1 DEF Place
<1>5. \A k \in S : at[k] = CHOOSE i \in S : Cardinality(B(i)) = k - 1
  BY DEF Nth
<1>6. S = 1..Cardinality(S)
  <2>1. ASSUME NEW n \in Nat
        PROVE  Cardinality(1..n) = n
    BY FS_Interval
  <2> HIDE DEF S
  <2> QED
    BY <1>1, <2>1
<1>7. sorted = [k \in S |-> apps[at[k]]]
  OBVIOUS
<1> HIDE DEF R, B, at, precedes, sorted
<1>8. IsArrangement(at, R, S)
  <2> HIDE DEF S
  <2> QED
    BY <1>4, <1>5, <1>6 DEF IsArrangement
<1>9. \E f, ord : /\ IsStrictOrder(ord, DOMAIN apps) /\ IsArrangement(f, ord, DOMAIN apps)
                  /\ sorted = [k \in DOMAIN apps |-> apps[f[k]]]
  BY <1>3, <1>7, <1>8
<1> HIDE DEF S
<1>10. sorted \in Seq(Named) /\ ToSet(apps) \subseteq ToSet(sorted)
  BY <1>9, SortedIsThere
<1> QED
  BY <1>10 DEF sorted, precedes

\* An app with a name that is in an open hive is in the list, whatever the sort and the
\* removal of repetitions do.
LEMMA SoftwareIsRead ==
  ASSUME NEW hives \in Seq(Answer(InstalledApp)), NEW h \in DOMAIN hives, hives[h] # Failed,
         NEW a \in ToSet(hives[h]), Shown(a)
  PROVE  Contains(ReadSoftware(hives), [name |-> a.name, version |-> a.version])
<1> DEFINE flat == FlattenSeq(OpenHives(hives))
           shown == {i \in DOMAIN flat : Shown(flat[i])}
           chosen == AtIndexes(flat, shown)
           apps == [i \in DOMAIN chosen |-> [name |-> chosen[i].name, version |-> chosen[i].version]]
           precedes(i, j) == \/ apps[i].name[1] < apps[j].name[1]
                             \/ apps[i].name[1] = apps[j].name[1] /\ i < j
           sorted == [k \in DOMAIN apps |-> apps[Nth(DOMAIN apps, precedes, k)]]
           keep == {i \in DOMAIN sorted : i = 1 \/ sorted[i] # sorted[i - 1]}
           e == [name |-> a.name, version |-> a.version]
<1>1. ReadSoftware(hives) = AtIndexes(sorted, keep)
  BY DEF ReadSoftware, Chosen, SeqMap
<1>2. flat \in Seq(InstalledApp) /\ a \in ToSet(flat)
  <2>1. OpenHives(hives) = AtIndexes(hives, {i \in DOMAIN hives : hives[i] # Failed})
    BY DEF OpenHives, Chosen
  <2> QED
    BY <2>1, OpenAreRead
<1> HIDE DEF flat
<1>3. chosen \in Seq({b \in InstalledApp : Shown(b)}) /\ a \in ToSet(chosen)
  <2>1. shown \in SUBSET DOMAIN flat /\ \A i \in shown : flat[i] \in {b \in InstalledApp : Shown(b)}
    BY <1>2
  <2>2. PICK i \in DOMAIN flat : a = flat[i]
    BY <1>2 DEF ToSet
  <2>3. i \in shown
    BY <2>2
  <2> HIDE DEF shown
  <2> QED
    BY <1>2, <2>1, <2>2, <2>3, KeptIsThere
<1> HIDE DEF chosen
<1>4. apps \in Seq(Named) /\ e \in ToSet(apps) /\ DOMAIN apps = DOMAIN chosen
  <2>1. \A b \in InstalledApp : Shown(b) => [name |-> b.name, version |-> b.version] \in Named
    BY DEF InstalledApp, Shown, Named
  <2>2. apps \in [DOMAIN chosen -> Named]
    BY <1>3, <2>1
  <2>3. \E i \in DOMAIN chosen : apps[i] = e
    BY <1>3 DEF ToSet
  <2> HIDE DEF apps, e
  <2>4. apps \in Seq(Named) /\ DOMAIN apps = DOMAIN chosen
    BY <1>3, <2>2, EachIsMapped
  <2> QED
    BY <2>3, <2>4 DEF ToSet
<1> HIDE DEF apps
<1>5. sorted \in Seq(Named) /\ e \in ToSet(sorted)
  <2> HIDE DEF e
  <2>1. sorted \in Seq(Named) /\ ToSet(apps) \subseteq ToSet(sorted)
    BY <1>4, AppsAreSorted
  <2> QED
    BY <1>4, <2>1
<1> HIDE DEF sorted, e
<1>6. e \in ToSet(AtIndexes(sorted, keep))
  BY <1>5, OneOfEachRunIsKept
<1>7. AtIndexes(sorted, keep) \in Seq(Named)
  <2>1. keep \in SUBSET DOMAIN sorted /\ \A i \in keep : sorted[i] \in Named
    BY <1>5
  <2> HIDE DEF keep
  <2> QED
    BY <1>5, <2>1, KeptIsThere
<1> QED
  BY <1>1, <1>6, <1>7, ContainsIsIn DEF e

\* The values of every Run key that can be opened are in the list.
LEMMA StartupIsRead ==
  ASSUME NEW S, NEW keys \in Seq(Answer(S)), NEW k \in DOMAIN keys, keys[k] # Failed
  PROVE  ToSet(keys[k]) \subseteq ToSet(ReadStartupItems(keys))
  BY OpenAreRead DEF ReadStartupItems, Chosen

\* The default is for what is absent.
LEMMA DefaultIsNotUsed ==
  ASSUME NEW option, option # {}, NEW v, NEW w
  PROVE  Or(option, v) = Or(option, w)
  BY DEF Or

\* A row that is chosen is among those chosen.
LEMMA ChosenIsThere ==
  ASSUME NEW S, NEW query \in Answer(S), NEW keep \in SUBSET DOMAIN Rows(query)
  PROVE  LET chosen == AtIndexes(Rows(query), keep)
         IN  chosen \in Seq(S) /\ \A i \in keep : \E k \in DOMAIN chosen : Rows(query)[i] = chosen[k]
<1> DEFINE chosen == AtIndexes(Rows(query), keep)
<1>1. Rows(query) \in Seq(S)
  BY DEF Rows, Answer
<1>2. keep \in SUBSET DOMAIN Rows(query) /\ \A i \in keep : Rows(query)[i] \in S
  BY <1>1
<1>3. chosen \in Seq(S) /\ \A i \in keep : Rows(query)[i] \in ToSet(chosen)
  BY <1>1, <1>2, KeptIsThere
<1> QED
  BY <1>3 DEF ToSet

\* A named disk that predicts a failure is warned of.
LEMMA WarningsAreRead ==
  ASSUME NEW smart \in Answer(SmartStatus), NEW r \in ToSet(Rows(smart)),
         r.predicts = {TRUE}, r.name # {}
  PROVE  Contains(HealthWarnings(smart), Or(r.name, ""))
<1> DEFINE keep == {i \in DOMAIN Rows(smart) : Rows(smart)[i].predicts = {TRUE}}
           chosen == AtIndexes(Rows(smart), keep)
           t == [i \in DOMAIN chosen |-> Or(chosen[i].name, "unknown disk")]
<1>1. PICK i \in keep : r = Rows(smart)[i]
  BY DEF ToSet
<1>2. HealthWarnings(smart) = t
  BY DEF HealthWarnings, Chosen, SeqMap
<1>3. \A k \in DOMAIN chosen : t[k] = Or(chosen[k].name, "unknown disk")
  OBVIOUS
<1>4. Or(r.name, "unknown disk") = Or(r.name, "")
  BY DefaultIsNotUsed
<1>5. keep \in SUBSET DOMAIN Rows(smart) /\ t = [k \in DOMAIN chosen |-> t[k]]
  OBVIOUS
<1> HIDE DEF keep, t
<1>6. chosen \in Seq(SmartStatus) /\ \E k \in DOMAIN chosen : r = chosen[k]
  BY <1>1, <1>5, ChosenIsThere
<1> HIDE DEF chosen
<1>7. \A k \in DOMAIN chosen : Contains(t, t[k])
  BY <1>5, <1>6, MappedIsContained
<1> QED
  BY <1>2, <1>3, <1>4, <1>6, <1>7

\* A connection that lasts is in the list, with the process its pid has in the table.
LEMMA ConnectionsAreRead ==
  ASSUME NEW conns \in Answer(Connection), NEW c \in ToSet(Rows(conns)), Lasting(c), NEW procs
  PROVE  LET pid == Or(c.pid, 0)
         IN  Contains(Connections(conns, procs),
                      [local |-> c.local, pid |-> pid, process |-> NameOf(pid, Rows(procs))])
<1> DEFINE keep == {i \in DOMAIN Rows(conns) : Lasting(Rows(conns)[i])}
           chosen == AtIndexes(Rows(conns), keep)
           shown(d) == [local |-> d.local, pid |-> Or(d.pid, 0),
                        process |-> NameOf(Or(d.pid, 0), Rows(procs))]
           t == [i \in DOMAIN chosen |-> shown(chosen[i])]
<1>1. PICK i \in keep : c = Rows(conns)[i]
  BY DEF ToSet
<1>2. Connections(conns, procs) = t
  BY DEF Connections, Chosen, SeqMap
<1>3. \A k \in DOMAIN chosen : t[k] = shown(chosen[k])
  OBVIOUS
<1>4. keep \in SUBSET DOMAIN Rows(conns) /\ t = [k \in DOMAIN chosen |-> t[k]]
  OBVIOUS
<1> HIDE DEF keep, t
<1>5. chosen \in Seq(Connection) /\ \E k \in DOMAIN chosen : c = chosen[k]
  BY <1>1, <1>4, ChosenIsThere
<1> HIDE DEF chosen
<1>6. \A k \in DOMAIN chosen : Contains(t, t[k])
  BY <1>4, <1>5, MappedIsContained
<1> HIDE DEF shown
<1>7. Contains(t, shown(c))
  BY <1>3, <1>5, <1>6
<1> QED
  BY <1>2, <1>7 DEF shown

Disks(drives) == SeqMap(LAMBDA serial : Or(serial, ""), Rows(drives))

\* There is an entry for each disk.
LEMMA DisksAreRead ==
  ASSUME NEW S, NEW drives \in Answer(S), drives # Failed
  PROVE  Len(Disks(drives)) = Len(drives)
<1> DEFINE t == [i \in DOMAIN drives |-> Or(drives[i], "")]
<1>1. drives \in Seq(S) /\ Rows(drives) = drives
  BY DEF Answer, Rows
<1>2. t = [i \in DOMAIN drives |-> t[i]]
  OBVIOUS
<1>3. Disks(drives) = t
  BY <1>1 DEF Disks, SeqMap
<1> HIDE DEF t
<1> QED
  BY <1>1, <1>2, <1>3, MappedIsContained

-----------------------------------------------------------------------------
(* The table of winget: lines that are kept *)

\* t holds what s has at the first m places of g.
Holds(t, s, g, m) == t = [k \in 1..m |-> s[g[k]]]

\* What is kept of a sequence stands at a list of its places.
LEMMA KeptIsListed ==
  ASSUME NEW n \in Nat, NEW s, NEW keep \in SUBSET (1..n), NEW t, t = AtIndexes(s, keep)
  PROVE  \E e, m : Lists(e, m, keep) /\ Holds(t, s, e, m)
<1> DEFINE R == {p \in Nat \X Nat : p[1] < p[2]}
           B(i) == {j \in keep : j < i}
           at == [k \in 1..Cardinality(keep) |-> Nth(keep, <, k)]
<1>1. keep \in SUBSET Nat
  OBVIOUS
<1>2. \A i \in keep : Place(R, keep, i) = Cardinality(B(i))
  <2>1. \A i \in keep : {j \in keep : <<j, i>> \in R} = B(i)
    BY <1>1
  <2> HIDE DEF B, R
  <2> QED
    BY <2>1 DEF Place
<1>3. \A i, j \in keep : <<i, j>> \in R <=> i < j
  BY <1>1
<1>4. \A k \in 1..Cardinality(keep) : at[k] = CHOOSE i \in keep : Cardinality(B(i)) = k - 1
  BY DEF Nth
<1>5. Holds(t, s, at, Cardinality(keep))
  BY DEF AtIndexes, Holds
<1> HIDE DEF B, R, at
<1>6. IsArrangement(at, R, keep)
  BY <1>2, <1>4 DEF IsArrangement
<1>7. Lists(at, Cardinality(keep), keep)
  BY <1>3, <1>6, ArrangedIsListed
<1> QED
  BY <1>5, <1>7

\* The places it has them from.
LEMMA HoldsThere ==
  ASSUME NEW S, NEW s \in Seq(S), NEW t, NEW g, NEW m, NEW K \in SUBSET (1..Len(s)),
         Lists(g, m, K), Holds(t, s, g, m)
  PROVE  /\ t \in Seq(S) /\ Len(t) = m /\ DOMAIN t = 1..m
         /\ \A k \in 1..m : t[k] = s[g[k]]
<1>1. m \in Nat /\ \A k \in 1..m : g[k] \in 1..Len(s)
  BY DEF Lists
<1>2. \A k \in 1..m : s[g[k]] \in S
  BY <1>1
<1>3. t = [k \in 1..m |-> s[g[k]]]
  BY DEF Holds
<1> QED
  BY <1>1, <1>2, <1>3

\* p is the first place of keep where s has one of H.
IsFirst(p, H, s, keep) == p \in keep /\ s[p] \in H /\ \A i \in keep : s[i] \in H => p <= i

\* Of what is kept of s, those in U are chosen behind the first in H.
IsCut(s, keep, H, U, kept, hits, rest, chosen) ==
  /\ kept = AtIndexes(s, keep)
  /\ hits = {i \in DOMAIN kept : kept[i] \in H}
  /\ rest = SubSeq(kept, Min(hits) + 1, Len(kept))
  /\ chosen = AtIndexes(rest, {i \in DOMAIN rest : rest[i] \in U})

\* The chosen stand at a list of their places in s.
AreListed(chosen, s, later) == \E g, m : Lists(g, m, later) /\ Holds(chosen, s, g, m)

AreBehind(later, s, keep, p, U) == later = {i \in keep : i > p /\ s[i] \in U}

IsFound(s, p, kept, hits) == hits # {} /\ kept[Min(hits)] = s[p]

\* The first in H is found, and what is chosen stands at a list of places behind it.
LEMMA AfterTheFirst ==
  ASSUME NEW S, NEW s \in Seq(S), NEW keep \in SUBSET (1..Len(s)),
         NEW H, NEW p, IsFirst(p, H, s, keep),
         NEW U, NEW kept, NEW hits, NEW rest, NEW chosen,
         IsCut(s, keep, H, U, kept, hits, rest, chosen),
         NEW later, AreBehind(later, s, keep, p, U)
  PROVE  IsFound(s, p, kept, hits) /\ AreListed(chosen, s, later)
<1>1. p \in keep /\ s[p] \in H /\ \A i \in keep : s[i] \in H => p <= i
  BY DEF IsFirst
<1>2. /\ kept = AtIndexes(s, keep) /\ hits = {i \in DOMAIN kept : kept[i] \in H}
      /\ rest = SubSeq(kept, Min(hits) + 1, Len(kept))
      /\ chosen = AtIndexes(rest, {i \in DOMAIN rest : rest[i] \in U})
  BY DEF IsCut
<1>3. later = {i \in keep : i > p /\ s[i] \in U}
  BY DEF AreBehind
<1> USE <1>1, <1>2, <1>3
<1>4. keep \in SUBSET Nat /\ later \in SUBSET keep /\ p \in Nat
  OBVIOUS
<1>5. PICK e, m : Lists(e, m, keep) /\ Holds(kept, s, e, m)
  <2>1. Len(s) \in Nat
    OBVIOUS
  <2> QED
    BY <2>1, KeptIsListed
<1>6. m \in Nat /\ (\A k \in 1..m : e[k] \in keep) /\ (\A i \in keep : \E k \in 1..m : e[k] = i)
  BY <1>5 DEF Lists
<1>7. kept \in Seq(S) /\ Len(kept) = m /\ DOMAIN kept = 1..m /\ \A k \in 1..m : kept[k] = s[e[k]]
  BY <1>5, HoldsThere
<1>8. PICK h \in 1..m : e[h] = p
  BY <1>6
<1>9. h \in hits /\ hits \in SUBSET (1..m)
  BY <1>7, <1>8
<1>10. \A i \in hits : e[h] <= e[i]
  BY <1>6, <1>7, <1>8
<1>11. Min(hits) = h
  BY <1>4, <1>5, <1>9, <1>10, FirstIsListed
<1>12. rest = SubSeq(kept, h + 1, Len(kept)) /\ h \in 1..Len(kept)
  BY <1>7, <1>11
<1>13. /\ rest \in Seq(S) /\ Len(rest) = m - h
       /\ \A j \in 1..(m - h) : j + h \in 1..m /\ rest[j] = kept[j + h]
  <2>1. m = Len(kept) /\ IsRest(rest, kept, h)
    BY <1>7, <1>12 DEF IsRest
  <2>2. rest \in Seq(S) /\ IsShifted(rest, kept, h)
    BY <1>7, <2>1, RestIsShifted
  <2> QED
    BY <2>1, <2>2 DEF IsShifted
<1>14. /\ Len(rest) \in Nat /\ DOMAIN rest = 1..(m - h)
       /\ \A j \in 1..(m - h) : e[j + h] \in keep /\ rest[j] = s[e[j + h]]
  <2>1. Len(rest) \in Nat /\ DOMAIN rest = 1..Len(rest)
    BY <1>13
  <2> QED
    BY <1>6, <1>7, <1>13, <2>1
<1> DEFINE J == {i \in DOMAIN rest : rest[i] \in U}
<1>15. J \in SUBSET (1..(m - h)) /\ \A j \in 1..(m - h) : j \in J <=> rest[j] \in U
  BY <1>14
<1>16. chosen = AtIndexes(rest, J)
  OBVIOUS
<1> HIDE DEF J
<1>17. PICK d, n : Lists(d, n, J) /\ Holds(chosen, rest, d, n)
  <2>1. m - h \in Nat
    BY <1>13, <1>14
  <2> QED
    BY <1>15, <1>16, <2>1, KeptIsListed
<1>18. \A i \in later : e[h] < i
  BY <1>4, <1>8
<1>19. ASSUME NEW j \in 1..(m - h)
       PROVE  j \in J <=> e[j + h] \in later
  <2>1. j + h \in 1..m /\ e[j + h] \in keep /\ (j \in J <=> s[e[j + h]] \in U)
    BY <1>13, <1>14, <1>15
  <2>2. h < j + h
    BY <1>6
  <2>3. e[h] < e[j + h]
    BY <1>5, <2>1, <2>2 DEF Lists
  <2>4. e[j + h] > p
    BY <1>4, <1>8, <2>1, <2>3
  <2> QED
    BY <2>1, <2>4
<1> DEFINE g == [k \in 1..n |-> e[d[k] + h]]
<1>20. \A k \in 1..n : g[k] = e[d[k] + h]
  OBVIOUS
<1>21. Holds(chosen, s, g, n)
  <2>1. \A k \in 1..n : d[k] \in J
    BY <1>17 DEF Lists
  <2>2. \A k \in 1..n : rest[d[k]] = s[g[k]]
    BY <1>14, <1>15, <1>20, <2>1
  <2> HIDE DEF g
  <2> QED
    BY <1>17, <2>2 DEF Holds
<1> HIDE DEF g
<1>22. Lists(g, n, later)
  <2>1. LaterAt(e, m, h, J, later) /\ Shifted(g, e, h, d, n)
    BY <1>15, <1>18, <1>19, <1>20 DEF LaterAt, Shifted
  <2> QED
    BY <1>4, <1>5, <1>17, <2>1, LaterAreListed
<1>23. hits # {} /\ kept[Min(hits)] = s[p]
  BY <1>7, <1>8, <1>9, <1>11
<1> QED
  BY <1>21, <1>22, <1>23 DEF AreListed, IsFound
-----------------------------------------------------------------------------
(* The table of winget: blanks *)

Black(s) == {i \in DOMAIN s : s[i] # " "}

\* What is no blank has a place.
LEMMA BlackArePlaces ==
  ASSUME NEW S, NEW s \in Seq(S)
  PROVE  Black(s) \in SUBSET (1..Len(s)) /\ Black(s) \in SUBSET Nat
<1>1. DOMAIN s = 1..Len(s) /\ Len(s) \in Nat
  OBVIOUS
<1>2. Black(s) \in SUBSET (1..Len(s))
  BY <1>1 DEF Black
<1> QED
  BY <1>1, <1>2

\* a and b are the first and the last that is no blank; what is trimmed goes from a to b.
Ends(s, a, b) ==
  /\ a \in Black(s) /\ b \in Black(s) /\ a <= b
  /\ \A i \in Black(s) : a <= i /\ i <= b
  /\ a = Min(Black(s)) /\ b = Max(Black(s))
  /\ Len(Trim(s)) = b - a + 1
  /\ \A k \in 1..(b - a + 1) : Trim(s)[k] = s[a + k - 1]

\* What is trimmed has ends, if something is left.
LEMMA TrimHasEnds ==
  ASSUME NEW S, NEW s \in Seq(S), Black(s) # {}
  PROVE  Trim(s) \in Seq(S) /\ \E a, b : Ends(s, a, b)
<1>1. DOMAIN s = 1..Len(s) /\ Len(s) \in Nat
  OBVIOUS
<1>2. Black(s) \in SUBSET (1..Len(s))
  BY <1>1 DEF Black
<1>3. Black(s) \in SUBSET Nat /\ \A y \in Black(s) : y <= Len(s)
  BY <1>1, <1>2
<1>4. PICK a : a = Min(Black(s)) /\ a \in Black(s) /\ \A y \in Black(s) : a <= y
  BY <1>3, MinIsLeast
<1>5. PICK b : b = Max(Black(s)) /\ b \in Black(s) /\ \A y \in Black(s) : y <= b
  BY <1>1, <1>3, MaxIsGreatest
<1>6. Trim(s) = SubSeq(s, a, b)
  BY <1>4, <1>5 DEF Trim, Black
<1>7. a \in 1..Len(s) /\ b \in 1..Len(s) /\ a <= b /\ a \in Int /\ b \in Int
  BY <1>1, <1>2, <1>4, <1>5
<1>8. \A i \in a..b : s[i] \in S
  BY <1>1, <1>7
<1>9. /\ Trim(s) \in Seq(S) /\ Len(Trim(s)) = b - a + 1
      /\ \A k \in 1..(b - a + 1) : Trim(s)[k] = s[a + k - 1]
  BY <1>6, <1>7, <1>8, SubSeqProperties
<1>10. Ends(s, a, b)
  BY <1>4, <1>5, <1>7, <1>9 DEF Ends
<1> QED
  BY <1>9, <1>10

\* What is no blank is still there.
LEMMA TrimKeeps ==
  ASSUME NEW S, NEW s \in Seq(S), NEW i \in Black(s)
  PROVE  /\ Trim(s) \in Seq(S) /\ Trim(s) # <<>> /\ Len(Trim(s)) \in Nat \ {0}
         /\ s[i] \in ToSet(Trim(s))
<1>1. Black(s) # {} /\ Black(s) \in SUBSET Nat /\ i \in Nat
  BY BlackArePlaces
<1>2. Trim(s) \in Seq(S) /\ \E a, b : Ends(s, a, b)
  BY <1>1, TrimHasEnds
<1>3. PICK a, b : Ends(s, a, b)
  BY <1>2
<1>4. a \in Nat /\ b \in Nat /\ a <= b /\ a <= i /\ i <= b
  BY <1>1, <1>3 DEF Ends
<1>5. i - a + 1 \in 1..(b - a + 1) /\ a + (i - a + 1) - 1 = i
  BY <1>1, <1>4
<1>6. Trim(s)[i - a + 1] = s[i] /\ Len(Trim(s)) = b - a + 1
  BY <1>3, <1>5 DEF Ends
<1>7. i - a + 1 \in DOMAIN Trim(s)
  BY <1>2, <1>5, <1>6
<1>8. Len(Trim(s)) \in Nat \ {0}
  BY <1>4, <1>6
<1>9. Trim(s) # <<>>
  BY <1>8
<1> QED
  BY <1>2, <1>6, <1>7, <1>8, <1>9 DEF ToSet

\* It begins with the first that is no blank.
LEMMA TrimBegins ==
  ASSUME NEW S, NEW s \in Seq(S), NEW i \in Black(s), \A j \in Black(s) : i <= j
  PROVE  Trim(s)[1] = s[i]
<1>1. Black(s) # {} /\ Black(s) \in SUBSET Nat /\ i \in Nat
  BY BlackArePlaces
<1>2. PICK a, b : Ends(s, a, b)
  BY <1>1, TrimHasEnds
<1>3. a \in Nat /\ b \in Nat /\ a <= b /\ a <= i /\ i <= a
  BY <1>1, <1>2 DEF Ends
<1>4. a = i /\ 1 \in 1..(b - a + 1) /\ a + 1 - 1 = i
  BY <1>1, <1>3
<1>5. Trim(s)[1] = s[a + 1 - 1]
  BY <1>2, <1>4 DEF Ends
<1> QED
  BY <1>4, <1>5

\* Blanks behind do not count.
IsPadding(t, s) == GoesOn(t, s, " ")

\* What is padded is trimmed to the same.
LEMMA TrimIgnoresPadding ==
  ASSUME NEW S, NEW s \in Seq(S), NEW t \in Seq(S), IsPadding(t, s)
  PROVE  Trim(t) = Trim(s)
<1>1. DOMAIN s = 1..Len(s) /\ Len(s) \in Nat
  BY LenProperties
<1>2. DOMAIN t = 1..Len(t) /\ Len(t) \in Nat
  BY LenProperties
<1>3. \A i \in 1..Len(s) : i \in 1..Len(t) /\ t[i] = s[i]
  <2>1. Len(s) <= Len(t) /\ \A i \in 1..Len(s) : t[i] = s[i]
    BY DEF IsPadding, GoesOn
  <2>2. \A n, m \in Nat : n <= m => \A i \in 1..n : i \in 1..m
    OBVIOUS
  <2>3. \A i \in 1..Len(s) : i \in 1..Len(t)
    BY <1>1, <1>2, <2>1, <2>2
  <2> QED
    BY <2>1, <2>3
<1>4. Black(t) = Black(s)
  <2>1. \A i \in 1..Len(t) : i \in 1..Len(s) \/ t[i] = " "
    <3>1. \A i \in 1..Len(t) : i > Len(s) => t[i] = " "
      BY DEF IsPadding, GoesOn
    <3>2. \A n, m \in Nat : \A i \in 1..m : i \in 1..n \/ i > n
      OBVIOUS
    <3>3. \A i \in 1..Len(t) : i \in 1..Len(s) \/ i > Len(s)
      BY <1>1, <1>2, <3>2
    <3> QED
      BY <3>1, <3>3
  <2> QED
    BY <1>1, <1>2, <1>3, <2>1 DEF Black
<1>5. CASE Black(s) = {}
  BY <1>4, <1>5 DEF Trim, Black
<1>6. CASE Black(s) # {}
  <2>1. Trim(s) \in Seq(S) /\ \E a, b : Ends(s, a, b)
    BY <1>6, TrimHasEnds
  <2>2. Trim(t) \in Seq(S) /\ \E a, b : Ends(t, a, b)
    BY <1>4, <1>6, TrimHasEnds
  <2>3. PICK a, b : Ends(s, a, b)
    BY <2>1
  <2>4. PICK c, d : Ends(t, c, d)
    BY <2>2
  <2>5. c = a /\ d = b
    BY <1>4, <2>3, <2>4 DEF Ends
  <2>6. a \in 1..Len(s) /\ b \in 1..Len(s) /\ a \in Nat /\ b \in Nat
    BY <2>3, BlackArePlaces DEF Ends
  <2>7. ASSUME NEW k \in 1..(b - a + 1)
        PROVE  a + k - 1 \in 1..Len(s)
    <3>1. k \in Nat /\ 1 <= k /\ k <= b - a + 1
      BY <2>6
    <3>2. b <= Len(s)
      BY <2>6
    <3> QED
      BY <1>1, <2>6, <3>1, <3>2
  <2>8. Len(Trim(s)) = b - a + 1 /\ Len(Trim(t)) = b - a + 1
    BY <2>3, <2>4, <2>5 DEF Ends
  <2>9. \A k \in 1..(b - a + 1) : Trim(t)[k] = Trim(s)[k]
    <3>1. \A k \in 1..(b - a + 1) : Trim(s)[k] = s[a + k - 1] /\ Trim(t)[k] = t[a + k - 1]
      BY <2>3, <2>4, <2>5 DEF Ends
    <3> QED
      BY <1>3, <2>7, <3>1
  <2> QED
    BY <2>1, <2>2, <2>8, <2>9, SeqEqual
<1> QED
  BY <1>5, <1>6

\* What is trimmed begins with something.
LEMMA TrimmedBegins ==
  ASSUME NEW S, NEW s \in Seq(S), s # <<>>, Trim(s) = s
  PROVE  1 \in Black(s)
<1>1. Black(s) # {}
  BY DEF Trim, Black
<1>2. PICK a, b : Ends(s, a, b)
  BY <1>1, TrimHasEnds
<1>3. a \in Black(s) /\ a \in Nat /\ b \in Nat /\ a <= b
  BY <1>2, BlackArePlaces DEF Ends
<1>4. 1 \in 1..(b - a + 1) /\ a + 1 - 1 = a
  BY <1>3
<1>5. s[1] = s[a]
  BY <1>2, <1>4 DEF Ends
<1>6. 1 \in DOMAIN s
  OBVIOUS
<1> QED
  BY <1>3, <1>5, <1>6 DEF Black
-----------------------------------------------------------------------------
(* The table of winget: columns *)

\* The characters of a table.  The strings that are named are in STRING, but no prover
\* knows.
Char == STRING \cup {" ", "-", "winget"} \cup {Titles[c] : c \in 1..5}

Row == [1..4 -> Seq(Char)]

\* The texts of the machines are made of those characters.
LEMMA TextsAreOfChars == Seq(STRING) \subseteq Seq(Char)
<1>1. STRING \subseteq Char
  BY DEF Char
<1>2. \A s \in Seq(STRING) : s \in Seq(Char)
  BY <1>1, SeqMonotonic
<1> QED
  BY <1>2

\* The width of a text is a number, and its length if no character takes two places.
LEMMA WidthIsNumber ==
  ASSUME NEW S, NEW s \in Seq(S)
  PROVE  Width(s) \in Nat /\ (WideChar \notin ToSet(s) => Width(s) = Len(s))
<1> DEFINE wide == {i \in DOMAIN s : s[i] = WideChar}
<1>1. DOMAIN s = 1..Len(s) /\ Len(s) \in Nat
  BY LenProperties
<1>2. IsFiniteSet(wide)
  <2>1. IsFiniteSet(1..Len(s)) /\ wide \in SUBSET (1..Len(s))
    BY <1>1, FS_Interval
  <2> HIDE DEF wide
  <2> QED
    BY <2>1, FS_Subset
<1>3. Cardinality(wide) \in Nat
  <2> HIDE DEF wide
  <2> QED
    BY <1>2, FS_CardinalityType
<1>4. WideChar \notin ToSet(s) => wide = {}
  BY DEF ToSet
<1>5. Width(s) = Len(s) + Cardinality(wide)
  BY DEF Width
<1> HIDE DEF wide
<1>6. Width(s) \in Nat
  BY <1>1, <1>3, <1>5
<1>7. ASSUME WideChar \notin ToSet(s)
      PROVE  Width(s) = Len(s)
  <2>1. Cardinality(wide) = 0
    BY <1>4, <1>7, FS_EmptySet
  <2> QED
    BY <1>1, <1>5, <2>1
<1> QED
  BY <1>6, <1>7

\* A column has room for each of its cells and a blank.
LEMMA ColumnFits ==
  ASSUME NEW rows \in Seq(Row), NEW c \in 1..4
  PROVE  /\ ColumnWidth(rows, c) \in Nat /\ 1 < ColumnWidth(rows, c)
         /\ \A i \in DOMAIN rows : Width(rows[i][c]) < ColumnWidth(rows, c)
<1> DEFINE f == [i \in DOMAIN rows |-> Width(rows[i][c])]
           widths == {Width(r[c]) : r \in ToSet(rows)}
           all == {1} \cup widths
<1>1. DOMAIN rows = 1..Len(rows) /\ Len(rows) \in Nat
  BY LenProperties
<1>2. \A i \in DOMAIN rows : rows[i][c] \in Seq(Char)
  BY DEF Row
<1>3. \A i \in DOMAIN rows : f[i] = Width(rows[i][c]) /\ Width(rows[i][c]) \in Nat
  BY <1>2, WidthIsNumber
<1>4. \A w \in widths : \E i \in DOMAIN rows : w = f[i]
  BY DEF ToSet
<1>5. \A i \in DOMAIN rows : f[i] \in widths
  BY <1>3 DEF ToSet
<1> HIDE DEF f, widths
<1>6. PICK b \in Nat : \A i \in 1..Len(rows) : f[i] <= b
  BY <1>1, <1>3, NumbersAreBounded
<1>7. all \in SUBSET Nat /\ all # {} /\ b + 1 \in Nat /\ \A w \in all : w <= b + 1
  <2>1. \A w \in widths : w \in Nat /\ w <= b
    BY <1>1, <1>3, <1>4, <1>6
  <2>2. \A w \in widths : w <= b + 1
    BY <2>1
  <2>3. 1 <= b + 1
    OBVIOUS
  <2> QED
    BY <2>1, <2>2, <2>3
<1>8. 1 \in all /\ \A i \in DOMAIN rows : f[i] \in all
  BY <1>5
<1> HIDE DEF all
<1>9. Max(all) \in all /\ \A w \in all : w <= Max(all)
  BY <1>7, MaxIsGreatest
<1>10. ColumnWidth(rows, c) = 1 + Max(all)
  BY DEF ColumnWidth, all, widths
<1>11. Max(all) \in Nat /\ 1 <= Max(all)
  BY <1>7, <1>8, <1>9
<1>12. ColumnWidth(rows, c) \in Nat /\ 1 < ColumnWidth(rows, c)
  BY <1>10, <1>11
<1>13. ASSUME NEW i \in DOMAIN rows
       PROVE  Width(rows[i][c]) < ColumnWidth(rows, c)
  <2>1. f[i] \in Nat /\ f[i] <= Max(all) /\ f[i] = Width(rows[i][c])
    BY <1>3, <1>8, <1>9
  <2> QED
    BY <1>10, <1>11, <2>1
<1> QED
  BY <1>12, <1>13

\* Where the columns begin, and where a line ends that has one character in the last.
Begins(rows) ==
  << 0, ColumnWidth(rows, 1), ColumnWidth(rows, 1) + ColumnWidth(rows, 2), AvailableOffset(rows),
     AvailableOffset(rows) + ColumnWidth(rows, 4), AvailableOffset(rows) + ColumnWidth(rows, 4) + 1 >>

\* A column begins where the one before it ends.
LEMMA ColumnsBegin ==
  ASSUME NEW rows \in Seq(Row), NEW b, b = Begins(rows)
  PROVE  /\ \A c \in 1..6 : b[c] \in Nat
         /\ b[1] = 0 /\ \A c \in 1..4 : b[c + 1] = b[c] + ColumnWidth(rows, c)
         /\ b[6] = b[5] + 1 /\ \A c \in 1..5 : b[c] <= b[6]
<1> DEFINE w(c) == ColumnWidth(rows, c)
<1>1. w(1) \in Nat /\ w(2) \in Nat /\ w(3) \in Nat /\ w(4) \in Nat
  <2>1. \A c \in 1..4 : w(c) \in Nat
    BY ColumnFits
  <2> HIDE DEF w
  <2> QED
    BY <2>1
<1>2. /\ b[1] = 0 /\ b[2] = w(1) /\ b[3] = w(1) + w(2) /\ b[4] = w(1) + w(2) + w(3)
      /\ b[5] = w(1) + w(2) + w(3) + w(4) /\ b[6] = w(1) + w(2) + w(3) + w(4) + 1
  BY DEF Begins, AvailableOffset
<1> HIDE DEF w
<1>3. ASSUME NEW c \in 1..4
      PROVE  b[c + 1] = b[c] + w(c)
  <2>1. c = 1 \/ c = 2 \/ c = 3 \/ c = 4
    OBVIOUS
  <2>2. /\ b[1 + 1] = b[1] + w(1) /\ b[2 + 1] = b[2] + w(2)
        /\ b[3 + 1] = b[3] + w(3) /\ b[4 + 1] = b[4] + w(4)
    BY <1>1, <1>2
  <2> QED
    BY <2>1, <2>2
<1>4. ASSUME NEW c \in 1..6
      PROVE  b[c] \in Nat
  <2>1. c = 1 \/ c = 2 \/ c = 3 \/ c = 4 \/ c = 5 \/ c = 6
    OBVIOUS
  <2>2. b[1] \in Nat /\ b[2] \in Nat /\ b[3] \in Nat /\ b[4] \in Nat /\ b[5] \in Nat /\ b[6] \in Nat
    BY <1>1, <1>2
  <2> QED
    BY <2>1, <2>2
<1>5. b[6] = b[5] + 1
  BY <1>1, <1>2
<1>6. ASSUME NEW c \in 1..5
      PROVE  b[c] <= b[6]
  <2>1. c = 1 \/ c = 2 \/ c = 3 \/ c = 4 \/ c = 5
    OBVIOUS
  <2>2. b[1] <= b[6] /\ b[2] <= b[6] /\ b[3] <= b[6] /\ b[4] <= b[6] /\ b[5] <= b[6]
    BY <1>1, <1>2
  <2> QED
    BY <2>1, <2>2
<1> QED
  BY <1>2, <1>3, <1>4, <1>5, <1>6 DEF w

\* They begin one behind the other.
LEMMA ColumnsAreOrdered ==
  ASSUME NEW rows \in Seq(Row), NEW b, b = Begins(rows)
  PROVE  /\ b[2] \in Nat /\ b[4] \in Nat /\ b[5] \in Nat
         /\ b[2] <= b[3] /\ b[2] <= b[4] /\ b[2] <= b[5] /\ b[4] <= b[5]
         /\ b[6] = b[5] + 1
<1> DEFINE w(c) == ColumnWidth(rows, c)
<1>1. w(1) \in Nat /\ w(2) \in Nat /\ w(3) \in Nat /\ w(4) \in Nat
  <2>1. \A c \in 1..4 : w(c) \in Nat
    BY ColumnFits
  <2> HIDE DEF w
  <2> QED
    BY <2>1
<1>2. /\ b[2] = w(1) /\ b[3] = w(1) + w(2) /\ b[4] = w(1) + w(2) + w(3)
      /\ b[5] = w(1) + w(2) + w(3) + w(4) /\ b[6] = w(1) + w(2) + w(3) + w(4) + 1
  BY DEF Begins, AvailableOffset
<1> HIDE DEF w
<1> QED
  BY <1>1, <1>2

\* Cells that take the places they have characters, and fit their columns.
Fits(rows, cells) ==
  /\ cells \in [1..5 -> Seq(Char)]
  /\ Len(cells[5]) = 1
  /\ \A c \in 1..4 : Width(cells[c]) = Len(cells[c]) /\ Len(cells[c]) < ColumnWidth(rows, c)

\* A blank is a character.
LEMMA BlankIsChar == " " \in Char
<1> DEFINE titles == {Titles[c] : c \in 1..5}
<1>1. Char = STRING \cup {" ", "-", "winget"} \cup titles
  BY DEF Char
<1> HIDE DEF titles
<1> QED
  BY <1>1

\* A cell that fits its column is padded to its width.
LEMMA PaddedCell ==
  ASSUME NEW s \in Seq(Char), NEW w \in Nat, Width(s) = Len(s), Len(s) < w
  PROVE  Padded(s, w) \in Seq(Char) /\ Len(Padded(s, w)) = w /\ IsPadding(Padded(s, w), s)
<1>1. Len(s) \in Nat
  BY LenProperties
<1>2. PICK n : n = w - Width(s)
  OBVIOUS
<1>3. n \in Nat /\ Len(s) + n = w
  <2>1. \A k \in Nat : k < w => w - k \in Nat /\ k + (w - k) = w
    OBVIOUS
  <2>2. n = w - Len(s)
    BY <1>2
  <2> QED
    BY <1>1, <2>1, <2>2
<1>4. PICK blanks : Same(blanks, n, " ") /\ Padded(s, w) = s \o blanks
  BY <1>2 DEF Same, Padded
<1>5. /\ Padded(s, w) \in Seq(Char) /\ Len(Padded(s, w)) = Len(s) + n
      /\ GoesOn(Padded(s, w), s, " ")
  <2> HIDE <1>3
  <2>1. n \in Nat /\ " " \in Char
    BY <1>3, BlankIsChar
  <2> QED
    BY <1>4, <2>1, WithTheSame
<1> QED
  BY <1>3, <1>5 DEF IsPadding

\* The cells as a line has them.
Parts(rows, cells) ==
  [c \in 1..5 |-> IF c = 5 THEN cells[5] ELSE Padded(cells[c], ColumnWidth(rows, c))]

ArePadded(p, cells, b) ==
  /\ \A c \in 1..5 : p[c] \in Seq(Char) /\ b[c + 1] = b[c] + Len(p[c])
  /\ \A c \in 1..4 : IsPadding(p[c], cells[c])
  /\ p[5] = cells[5] /\ Len(cells[5]) = 1

\* Each part is as long as its column is wide.
LEMMA PartsArePadded ==
  ASSUME NEW rows \in Seq(Row), NEW cells, Fits(rows, cells), NEW b, b = Begins(rows),
         NEW p, p = Parts(rows, cells)
  PROVE  ArePadded(p, cells, b)
<1>1. /\ \A c \in 1..5 : cells[c] \in Seq(Char)
      /\ Len(cells[5]) = 1
      /\ \A c \in 1..4 : Width(cells[c]) = Len(cells[c]) /\ Len(cells[c]) < ColumnWidth(rows, c)
  BY DEF Fits
<1>2. \A c \in 1..4 : p[c] = Padded(cells[c], ColumnWidth(rows, c))
  BY DEF Parts
<1>3. p[5] = cells[5]
  BY DEF Parts
<1>4. /\ \A c \in 1..4 : b[c + 1] = b[c] + ColumnWidth(rows, c)
      /\ b[6] = b[5] + 1
  BY ColumnsBegin
<1>5. \A c \in 1..4 : ColumnWidth(rows, c) \in Nat
  BY ColumnFits
<1>6. \A c \in 1..4 : /\ p[c] \in Seq(Char) /\ Len(p[c]) = ColumnWidth(rows, c)
                      /\ IsPadding(p[c], cells[c])
  <2> SUFFICES ASSUME NEW c \in 1..4
               PROVE  /\ p[c] \in Seq(Char) /\ Len(p[c]) = ColumnWidth(rows, c)
                      /\ IsPadding(p[c], cells[c])
    OBVIOUS
  <2>1. cells[c] \in Seq(Char)
    BY <1>1
  <2>2. Width(cells[c]) = Len(cells[c]) /\ Len(cells[c]) < ColumnWidth(rows, c)
    BY <1>1
  <2>3. ColumnWidth(rows, c) \in Nat
    BY <1>5
  <2>4. p[c] = Padded(cells[c], ColumnWidth(rows, c))
    BY <1>2
  <2> QED
    BY <2>1, <2>2, <2>3, <2>4, PaddedCell
<1>7. \A c \in 1..5 : c \in 1..4 \/ c = 5
  OBVIOUS
<1>8. 5 + 1 = 6
  OBVIOUS
<1>9. p[5] \in Seq(Char) /\ b[5 + 1] = b[5] + Len(p[5])
  <2>1. p[5] \in Seq(Char) /\ Len(p[5]) = 1
    BY <1>1, <1>3
  <2>2. b[5 + 1] = b[6]
    BY <1>8
  <2> HIDE <1>1
  <2> QED
    BY <1>4, <2>1, <2>2
<1>10. \A c \in 1..5 : p[c] \in Seq(Char) /\ b[c + 1] = b[c] + Len(p[c])
  BY <1>4, <1>6, <1>7, <1>9
<1> QED
  BY <1>1, <1>3, <1>6, <1>10 DEF ArePadded

\* A line is made of its parts.
LEMMA LineIsMadeOf ==
  ASSUME NEW rows \in Seq(Row), NEW cells, Fits(rows, cells), NEW b, b = Begins(rows),
         NEW p, p = Parts(rows, cells), NEW l, l = TableLine(rows, cells)
  PROVE  l \in Seq(Char) /\ StartsAt(b, p, 5) /\ IsMadeOf(l, p, b, 5)
<1>1. ArePadded(p, cells, b)
  BY PartsArePadded
<1>2. \A c \in 1..5 : p[c] \in Seq(Char) /\ b[c + 1] = b[c] + Len(p[c])
  BY <1>1 DEF ArePadded
<1>3. (\A c \in 1..6 : b[c] \in Nat) /\ b[1] = 0
  BY ColumnsBegin
<1>4. StartsAt(b, p, 5)
  <2>1. 5 + 1 = 6
    OBVIOUS
  <2> QED
    BY <1>2, <1>3, <2>1 DEF StartsAt
<1>5. l = ((((p[1] \o p[2]) \o p[3]) \o p[4]) \o p[5])
  <2>1. p[1] = Padded(cells[1], ColumnWidth(rows, 1)) /\ p[2] = Padded(cells[2], ColumnWidth(rows, 2))
    BY DEF Parts
  <2>2. p[3] = Padded(cells[3], ColumnWidth(rows, 3)) /\ p[4] = Padded(cells[4], ColumnWidth(rows, 4))
    BY DEF Parts
  <2>3. p[5] = cells[5]
    BY DEF Parts
  <2> QED
    BY <2>1, <2>2, <2>3 DEF TableLine
<1>6. /\ p[1] \in Seq(Char) /\ p[1 + 1] \in Seq(Char) /\ p[2 + 1] \in Seq(Char)
      /\ p[3 + 1] \in Seq(Char) /\ p[4 + 1] \in Seq(Char)
  BY <1>2
<1>7. p[1 + 1] = p[2] /\ p[2 + 1] = p[3] /\ p[3 + 1] = p[4] /\ p[4 + 1] = p[5]
  OBVIOUS
<1>8. IsMadeOf(p[1], p, b, 1)
  <2>1. 5 \in Nat \ {0} /\ p[1] \in Seq(Char)
    BY <1>6
  <2> QED
    BY <1>4, <2>1, FirstPart
<1> DEFINE l2 == p[1] \o p[2]
           l3 == l2 \o p[3]
           l4 == l3 \o p[4]
           l5 == l4 \o p[5]
<1>9. l2 \in Seq(Char) /\ IsMadeOf(l2, p, b, 2)
  <2>1. p[1] \o p[1 + 1] \in Seq(Char) /\ IsMadeOf(p[1] \o p[1 + 1], p, b, 1 + 1)
    BY <1>4, <1>6, <1>8, NextPart
  <2>2. 1 + 1 = 2
    OBVIOUS
  <2> QED
    BY <1>7, <2>1, <2>2
<1> HIDE DEF l2
<1>10. l3 \in Seq(Char) /\ IsMadeOf(l3, p, b, 3)
  <2>1. l2 \o p[2 + 1] \in Seq(Char) /\ IsMadeOf(l2 \o p[2 + 1], p, b, 2 + 1)
    BY <1>4, <1>6, <1>9, NextPart
  <2>2. 2 + 1 = 3
    OBVIOUS
  <2> QED
    BY <1>7, <2>1, <2>2
<1> HIDE DEF l3
<1>11. l4 \in Seq(Char) /\ IsMadeOf(l4, p, b, 4)
  <2>1. l3 \o p[3 + 1] \in Seq(Char) /\ IsMadeOf(l3 \o p[3 + 1], p, b, 3 + 1)
    BY <1>4, <1>6, <1>10, NextPart
  <2>2. 3 + 1 = 4
    OBVIOUS
  <2> QED
    BY <1>7, <2>1, <2>2
<1> HIDE DEF l4
<1>12. l5 \in Seq(Char) /\ IsMadeOf(l5, p, b, 5)
  <2>1. l4 \o p[4 + 1] \in Seq(Char) /\ IsMadeOf(l4 \o p[4 + 1], p, b, 4 + 1)
    BY <1>4, <1>6, <1>11, NextPart
  <2>2. 4 + 1 = 5
    OBVIOUS
  <2> QED
    BY <1>7, <2>1, <2>2
<1>13. l = l5
  BY <1>5 DEF l2, l3, l4
<1> HIDE DEF l5
<1> QED
  BY <1>4, <1>12, <1>13

\* What is in a line: its cells, each from the begin of its column, and blanks.
LaidOut(l, cells, b) ==
  /\ l \in Seq(Char) /\ Len(l) = b[6]
  /\ \A c \in 1..5 : \A j \in 1..Len(cells[c]) : b[c] + j \in 1..b[6] /\ l[b[c] + j] = cells[c][j]
  /\ \A i \in 1..b[6] : l[i] = " " \/ \E c \in 1..5 : \E j \in 1..Len(cells[c]) : i = b[c] + j
  /\ \A c \in 1..4 : Slice(l, b[c], b[c + 1]) = Trim(cells[c])

\* Each cell is where its column begins and can be cut out again.
LEMMA LineIsLaidOut ==
  ASSUME NEW rows \in Seq(Row), NEW cells, Fits(rows, cells), NEW b, b = Begins(rows),
         NEW l, l = TableLine(rows, cells)
  PROVE  LaidOut(l, cells, b)
<1>1. PICK p : p = Parts(rows, cells)
  OBVIOUS
<1>2. l \in Seq(Char) /\ StartsAt(b, p, 5) /\ IsMadeOf(l, p, b, 5)
  BY <1>1, LineIsMadeOf
<1>3. ArePadded(p, cells, b)
  BY <1>1, PartsArePadded
<1>4. \A c \in 1..5 : cells[c] \in Seq(Char)
  BY DEF Fits
<1>5. /\ \A c \in 1..6 : b[c] \in Nat
      /\ \A c \in 1..4 : b[c + 1] = b[c] + ColumnWidth(rows, c)
      /\ b[6] = b[5] + 1
  BY ColumnsBegin
<1>6. \A c \in 1..5 : /\ Len(cells[c]) \in Nat /\ Len(p[c]) \in Nat /\ Len(cells[c]) <= Len(p[c])
                      /\ \A j \in 1..Len(cells[c]) : p[c][j] = cells[c][j]
                      /\ \A j \in 1..Len(p[c]) : p[c][j] = " " \/ j \in 1..Len(cells[c])
  <2> SUFFICES ASSUME NEW c \in 1..5
               PROVE  /\ Len(cells[c]) \in Nat /\ Len(p[c]) \in Nat /\ Len(cells[c]) <= Len(p[c])
                      /\ \A j \in 1..Len(cells[c]) : p[c][j] = cells[c][j]
                      /\ \A j \in 1..Len(p[c]) : p[c][j] = " " \/ j \in 1..Len(cells[c])
    OBVIOUS
  <2>1. Len(cells[c]) \in Nat
    BY <1>4, LenProperties
  <2>2. p[c] \in Seq(Char)
    BY <1>3 DEF ArePadded
  <2>3. Len(p[c]) \in Nat
    BY <2>2, LenProperties
  <2>4. CASE c = 5
    <3>1. p[c] = cells[c]
      BY <1>3, <2>4 DEF ArePadded
    <3>2. Len(p[c]) = Len(cells[c]) /\ \A n \in Nat : n <= n
      BY <3>1
    <3> QED
      BY <2>1, <2>3, <3>1, <3>2
  <2>5. CASE c # 5
    <3>1. c \in 1..4
      BY <2>5
    <3>2. GoesOn(p[c], cells[c], " ")
      BY <1>3, <3>1 DEF ArePadded, IsPadding
    <3>3. /\ Len(cells[c]) <= Len(p[c])
          /\ \A j \in 1..Len(cells[c]) : p[c][j] = cells[c][j]
          /\ \A j \in 1..Len(p[c]) : j > Len(cells[c]) => p[c][j] = " "
      BY <3>2 DEF GoesOn
    <3>4. \A n, m \in Nat : \A j \in 1..m : j > n \/ j \in 1..n
      OBVIOUS
    <3>5. \A j \in 1..Len(p[c]) : j > Len(cells[c]) \/ j \in 1..Len(cells[c])
      BY <2>1, <2>3, <3>4
    <3> QED
      BY <2>1, <2>3, <3>3, <3>5
  <2> QED
    BY <2>4, <2>5
<1>7. /\ Len(l) = b[6]
      /\ \A c \in 1..5 : \A j \in 1..Len(p[c]) : b[c] + j \in 1..b[6] /\ l[b[c] + j] = p[c][j]
      /\ \A i \in 1..b[6] : \E c \in 1..5 : \E j \in 1..Len(p[c]) : i = b[c] + j
  <2>1. 5 + 1 = 6
    OBVIOUS
  <2> QED
    BY <1>2, <2>1 DEF IsMadeOf
<1>8. \A c \in 1..5 : \A j \in 1..Len(cells[c]) : j \in 1..Len(p[c])
  <2>1. \A n, m \in Nat : n <= m => \A j \in 1..n : j \in 1..m
    OBVIOUS
  <2> QED
    BY <1>6, <2>1
<1>9. \A c \in 1..5 : \A j \in 1..Len(cells[c]) : b[c] + j \in 1..b[6] /\ l[b[c] + j] = cells[c][j]
  BY <1>6, <1>7, <1>8
<1>10. ASSUME NEW i \in 1..b[6]
       PROVE  l[i] = " " \/ \E c \in 1..5 : \E j \in 1..Len(cells[c]) : i = b[c] + j
  <2>1. PICK c \in 1..5 : \E j \in 1..Len(p[c]) : i = b[c] + j
    BY <1>7
  <2>2. PICK j \in 1..Len(p[c]) : i = b[c] + j
    BY <2>1
  <2>3. l[i] = p[c][j]
    BY <1>7, <2>2
  <2> QED
    BY <1>6, <2>2, <2>3
<1>11. ASSUME NEW c \in 1..4
       PROVE  Slice(l, b[c], b[c + 1]) = Trim(cells[c])
  <2>1. c \in 1..5 /\ p[c] \in Seq(Char) /\ cells[c] \in Seq(Char) /\ IsPadding(p[c], cells[c])
    BY <1>3, <1>4 DEF ArePadded
  <2>2. SubSeq(l, b[c] + 1, b[c + 1]) = p[c]
    BY <1>2, <2>1, PartIsCut
  <2>3. Trim(p[c]) = Trim(cells[c])
    BY <2>1, TrimIgnoresPadding
  <2>4. b[c + 1] \in Nat /\ b[6] \in Nat /\ b[c + 1] <= b[6]
    <3>1. c + 1 \in 1..5 /\ c + 1 \in 1..6 /\ 6 \in 1..6
      OBVIOUS
    <3> QED
      BY <3>1, ColumnsBegin
  <2>5. Min({b[c + 1], Len(l)}) = b[c + 1]
    BY <1>7, <2>4, MinOfTwo
  <2> QED
    BY <2>2, <2>3, <2>5 DEF Slice
<1> QED
  BY <1>2, <1>7, <1>9, <1>10, <1>11 DEF LaidOut

-----------------------------------------------------------------------------
(* The table of winget: its header and the lines of its rows *)

\* The titles differ from each other and from what noise is made of.
LEMMA TitlesAreNoOthers ==
  /\ \A c, d \in 1..5 : Titles[c] = Titles[d] => c = d
  /\ \A c \in 1..5 : Titles[c] \notin {" ", "bar", WideChar, "-", "\\", "|", "/"}
<1>1. /\ Titles[1] = "Name" /\ Titles[2] = "Id" /\ Titles[3] = "Version"
      /\ Titles[4] = "Available" /\ Titles[5] = "Source"
  BY DEF Titles
<1>2. \A c \in 1..5 : c = 1 \/ c = 2 \/ c = 3 \/ c = 4 \/ c = 5
  OBVIOUS
<1>3. \A c, d \in 1..5 : Titles[c] = Titles[d] => c = d
  BY <1>1, <1>2
<1>4. \A c \in 1..5 : Titles[c] \notin {" ", "bar", WideChar, "-", "\\", "|", "/"}
  <2> SUFFICES ASSUME NEW c \in 1..5
               PROVE  Titles[c] \notin {" ", "bar", WideChar, "-", "\\", "|", "/"}
    OBVIOUS
  <2> HIDE <1>3
  <2>1. Titles[c] \in {"Name", "Id", "Version", "Available", "Source"}
    BY <1>1, <1>2
  <2> QED
    BY <2>1 DEF WideChar
<1> QED
  BY <1>3, <1>4

TitleCells == [c \in 1..5 |-> <<Titles[c]>>]

\* A title is one character, so each fits its column.
LEMMA TitlesFit ==
  ASSUME NEW rows \in Seq(Row)
  PROVE  /\ Fits(rows, TitleCells)
         /\ \A c \in 1..5 : Len(TitleCells[c]) = 1 /\ TitleCells[c][1] = Titles[c]
<1>1. \A c \in 1..5 : TitleCells[c] = <<Titles[c]>>
  BY DEF TitleCells
<1>2. \A c \in 1..5 : Titles[c] \in Char
  BY DEF Char
<1>3. ASSUME NEW c \in 1..5
      PROVE  /\ TitleCells[c] \in Seq(Char) /\ Len(TitleCells[c]) = 1 /\ TitleCells[c][1] = Titles[c]
             /\ WideChar \notin ToSet(TitleCells[c])
  <2> DEFINE t == Titles[c]
  <2>1. TitleCells[c] = <<t>> /\ t \in Char /\ t # WideChar
    BY <1>1, <1>2, TitlesAreNoOthers
  <2> HIDE DEF t
  <2>2. <<t>> \in Seq(Char) /\ Len(<<t>>) = 1 /\ <<t>>[1] = t
    BY <2>1
  <2>3. DOMAIN <<t>> = {1}
    OBVIOUS
  <2>4. WideChar \notin ToSet(<<t>>)
    BY <2>1, <2>2, <2>3 DEF ToSet
  <2> QED
    BY <2>1, <2>2, <2>4 DEF t
<1>4. ASSUME NEW c \in 1..4
      PROVE  Width(TitleCells[c]) = Len(TitleCells[c]) /\ Len(TitleCells[c]) < ColumnWidth(rows, c)
  <2>1. c \in 1..5
    OBVIOUS
  <2>2. Width(TitleCells[c]) = Len(TitleCells[c]) /\ Len(TitleCells[c]) = 1
    BY <1>3, <2>1, WidthIsNumber
  <2>3. 1 < ColumnWidth(rows, c)
    BY ColumnFits
  <2> QED
    BY <2>2, <2>3
<1>5. TitleCells \in [1..5 -> Seq(Char)]
  <2>1. TitleCells = [c \in 1..5 |-> TitleCells[c]]
    BY DEF TitleCells
  <2> QED
    BY <1>3, <2>1
<1>6. Len(TitleCells[5]) = 1
  BY <1>3
<1> QED
  BY <1>3, <1>4, <1>5, <1>6 DEF Fits

\* h is a header: each title is at the begin of its column, and only there.
IsTitled(h, b) ==
  /\ h \in Seq(Char) /\ Len(h) = b[6] /\ DOMAIN h = 1..b[6]
  /\ \A c \in 1..5 : b[c] \in Nat /\ b[c] + 1 \in 1..b[6] /\ h[b[c] + 1] = Titles[c]
  /\ \A i \in 1..b[6] : h[i] = " " \/ \E c \in 1..5 : i = b[c] + 1 /\ h[i] = Titles[c]

\* The header that winget prints is one.
LEMMA HeaderIsTitled ==
  ASSUME NEW rows \in Seq(Row), NEW b, b = Begins(rows), NEW h, h = Header(rows)
  PROVE  IsTitled(h, b)
<1>1. LaidOut(h, TitleCells, b)
  <2>1. h = TableLine(rows, TitleCells)
    BY DEF Header, TitleCells
  <2> QED
    BY <2>1, TitlesFit, LineIsLaidOut
<1>2. \A c \in 1..5 : Len(TitleCells[c]) = 1 /\ TitleCells[c][1] = Titles[c]
  BY TitlesFit
<1>3. /\ h \in Seq(Char) /\ Len(h) = b[6]
      /\ \A c \in 1..5 : \A j \in 1..Len(TitleCells[c]) :
            b[c] + j \in 1..b[6] /\ h[b[c] + j] = TitleCells[c][j]
      /\ \A i \in 1..b[6] : h[i] = " " \/ \E c \in 1..5 : \E j \in 1..Len(TitleCells[c]) : i = b[c] + j
  BY <1>1 DEF LaidOut
<1>4. \A c \in 1..5 : b[c] \in Nat
  <2>1. \A c \in 1..6 : b[c] \in Nat
    BY ColumnsBegin
  <2>2. \A c \in 1..5 : c \in 1..6
    OBVIOUS
  <2> HIDE <1>3
  <2> QED
    BY <2>1, <2>2
<1>5. DOMAIN h = 1..b[6]
  BY <1>3, LenProperties
<1>6. ASSUME NEW c \in 1..5
      PROVE  b[c] + 1 \in 1..b[6] /\ h[b[c] + 1] = Titles[c]
  <2>1. 1 \in 1..Len(TitleCells[c])
    BY <1>2
  <2>2. b[c] + 1 \in 1..b[6] /\ h[b[c] + 1] = TitleCells[c][1]
    BY <1>3, <2>1
  <2> QED
    BY <1>2, <2>2
<1>7. ASSUME NEW i \in 1..b[6]
      PROVE  h[i] = " " \/ \E c \in 1..5 : i = b[c] + 1 /\ h[i] = Titles[c]
  <2>1. CASE h[i] = " "
    BY <2>1
  <2>2. CASE \E c \in 1..5 : \E j \in 1..Len(TitleCells[c]) : i = b[c] + j
    <3>1. PICK c \in 1..5 : \E j \in 1..Len(TitleCells[c]) : i = b[c] + j
      BY <2>2
    <3>2. PICK j \in 1..Len(TitleCells[c]) : i = b[c] + j
      BY <3>1
    <3>3. Len(TitleCells[c]) = 1 /\ \A k \in 1..1 : k = 1
      BY <1>2
    <3>4. i = b[c] + 1
      BY <3>2, <3>3
    <3> QED
      BY <1>6, <3>4
  <2> QED
    BY <1>3, <2>1, <2>2
<1> QED
  BY <1>3, <1>4, <1>5, <1>6, <1>7 DEF IsTitled

\* The header is found and is no noise, and every column is where the rows have it.
LEMMA HeaderIsRead ==
  ASSUME NEW rows \in Seq(Row), NEW b, b = Begins(rows), NEW h, h = Header(rows)
  PROVE  /\ IsHeader(h) /\ ~IsNoise(h)
         /\ \A lines : \A c \in 2..5 : ColumnOffset(lines, h, c) = b[c]
<1>1. IsTitled(h, b)
  BY HeaderIsTitled
<1>2. /\ h \in Seq(Char) /\ Len(h) = b[6] /\ DOMAIN h = 1..b[6]
      /\ \A c \in 1..5 : b[c] \in Nat /\ b[c] + 1 \in 1..b[6] /\ h[b[c] + 1] = Titles[c]
      /\ \A i \in 1..b[6] : h[i] = " " \/ \E c \in 1..5 : i = b[c] + 1 /\ h[i] = Titles[c]
  BY <1>1 DEF IsTitled
<1>3. \A c \in 1..5 : Contains(h, Titles[c])
  BY <1>2 DEF Contains
<1>4. IsHeader(h)
  <2>1. \A c \in 1..4 : c \in 1..5
    OBVIOUS
  <2> QED
    BY <1>3, <2>1 DEF IsHeader
<1>5. ~IsNoise(h)
  <2>1. \A c \in 1..5 : Titles[c] \notin {" ", "bar", WideChar, "-", "\\", "|", "/"}
    BY TitlesAreNoOthers
  <2>2. ~Contains(h, "bar")
    <3>1. \A i \in 1..b[6] : h[i] # "bar"
      BY <1>2, <2>1
    <3> QED
      BY <1>2, <3>1 DEF Contains
  <2>3. 1 \in 1..5 /\ Titles[1] # " "
    <3>1. 1 \in 1..5
      OBVIOUS
    <3> QED
      BY <2>1, <3>1
  <2>4. b[1] + 1 \in Black(h) /\ h[b[1] + 1] = Titles[1]
    BY <1>2, <2>3 DEF Black
  <2>5. Trim(h) # <<>> /\ Titles[1] \in ToSet(Trim(h))
    BY <1>2, <2>4, TrimKeeps
  <2>6. Titles[1] \notin {"-", "\\", "|", "/"}
    BY <2>1, <2>3
  <2> QED
    BY <2>2, <2>5, <2>6 DEF IsNoise
<1>6. ASSUME NEW lines, NEW c \in 2..5
      PROVE  ColumnOffset(lines, h, c) = b[c]
  <2>0. c \in 1..5
    OBVIOUS
  <2>1. b[c] \in Nat /\ b[c] + 1 \in 1..b[6] /\ h[b[c] + 1] = Titles[c]
    BY <1>2, <2>0
  <2> DEFINE at == {i \in DOMAIN h : h[i] = Titles[c]}
  <2>2. \A i \in at : i = b[c] + 1
    <3> SUFFICES ASSUME NEW i \in at
                 PROVE  i = b[c] + 1
      OBVIOUS
    <3>1. i \in 1..b[6] /\ h[i] = Titles[c] /\ h[i] # " "
      BY <1>2, <2>0, TitlesAreNoOthers
    <3>2. PICK d \in 1..5 : i = b[d] + 1 /\ h[i] = Titles[d]
      BY <1>2, <3>1
    <3>3. d = c
      BY <2>0, <3>1, <3>2, TitlesAreNoOthers
    <3> QED
      BY <3>2, <3>3
  <2>3. at = {b[c] + 1}
    <3>1. b[c] + 1 \in at
      BY <1>2, <2>1
    <3> HIDE DEF at
    <3> QED
      BY <2>2, <3>1
  <2>4. Min(at) = b[c] + 1
    <3>1. b[c] + 1 \in Nat
      BY <2>1
    <3>2. at \in SUBSET Nat /\ at # {}
      BY <2>3, <3>1
    <3>3. Min(at) \in at
      BY <3>2, MinIsLeast
    <3> HIDE DEF at
    <3> QED
      BY <2>3, <3>3
  <2>5. (b[c] + 1) - 1 = b[c]
    BY <2>1
  <2>6. ColumnOffset(lines, h, c) = Min(at) - 1
    BY <1>3, <2>0 DEF ColumnOffset
  <2> HIDE DEF at
  <2> QED
    BY <2>4, <2>5, <2>6
<1> QED
  BY <1>4, <1>5, <1>6

\* The columns begin at these offsets.
AreOffsets(offset, b) == \A c \in 2..5 : offset[c] = b[c]

\* A row and the name of the source.
WithSource(row) == row \o << <<"winget">> >>

\* The source is the fifth cell, and the others stay.
LEMMA SourceIsFifth ==
  ASSUME NEW row \in Row
  PROVE  /\ WithSource(row) \in [1..5 -> Seq(Char)] /\ WithSource(row)[5] = <<"winget">>
         /\ \A c \in 1..4 : WithSource(row)[c] = row[c]
<1> DEFINE s == <<"winget">>
<1>1. "winget" \in Char
  <2> DEFINE titles == {Titles[c] : c \in 1..5}
  <2>1. Char = STRING \cup {" ", "-", "winget"} \cup titles
    BY DEF Char
  <2> HIDE DEF titles
  <2> QED
    BY <2>1
<1>2. s \in Seq(Char)
  BY <1>1
<1> HIDE DEF s
<1>3. PICK n \in Nat : n = 4
  OBVIOUS
<1>4. PICK t : t = row \o <<s>> /\ IsOneMore(t, row, s)
  BY DEF IsOneMore
<1>5. t \in [1..(n + 1) -> Seq(Char)] /\ t[n + 1] = s /\ \A c \in 1..n : t[c] = row[c]
  <2>1. PICK S : S = Seq(Char)
    OBVIOUS
  <2>2. row \in [1..n -> S] /\ s \in S
    BY <1>2, <1>3, <2>1 DEF Row
  <2>3. t \in [1..(n + 1) -> S] /\ t[n + 1] = s /\ \A c \in 1..n : t[c] = row[c]
    <3>1. IsExtended(t, row, s, n, S)
      BY <1>4, <2>2, OneMore
    <3> QED
      BY <3>1 DEF IsExtended
  <2> QED
    BY <2>1, <2>3
<1>6. t \in [1..5 -> Seq(Char)] /\ t[5] = s /\ \A c \in 1..4 : t[c] = row[c]
  BY <1>3, <1>5
<1>7. WithSource(row) = t
  BY <1>4 DEF WithSource, s
<1> QED
  BY <1>6, <1>7 DEF s

\* What makes the line of a readable row one.
LEMMA ReadableFits ==
  ASSUME NEW rows \in Seq(Row), NEW i \in DOMAIN rows, Readable(rows[i])
  PROVE  Fits(rows, WithSource(rows[i]))
<1>1. PICK row : row = rows[i]
  OBVIOUS
<1>2. row \in Row /\ Readable(row)
  BY <1>1
<1>3. /\ WithSource(row) \in [1..5 -> Seq(Char)] /\ WithSource(row)[5] = <<"winget">>
      /\ \A c \in 1..4 : WithSource(row)[c] = row[c]
  BY <1>2, SourceIsFifth
<1>4. Len(WithSource(row)[5]) = 1
  BY <1>3
<1>5. ASSUME NEW c \in 1..4
      PROVE  /\ Width(WithSource(row)[c]) = Len(WithSource(row)[c])
             /\ Len(WithSource(row)[c]) < ColumnWidth(rows, c)
  <2>1. WithSource(row)[c] = row[c] /\ row[c] \in Seq(Char)
    BY <1>2, <1>3 DEF Row
  <2>2. WideChar \notin ToSet(row[c])
    BY <1>2 DEF Readable
  <2>3. Width(row[c]) = Len(row[c])
    BY <2>1, <2>2, WidthIsNumber
  <2>4. Width(rows[i][c]) < ColumnWidth(rows, c)
    BY ColumnFits
  <2> QED
    BY <1>1, <2>1, <2>3, <2>4
<1> QED
  BY <1>1, <1>3, <1>4, <1>5 DEF Fits

\* l is the line of row: its cells are where the columns begin, and nothing else.
IsLineOf(l, row, b) ==
  /\ l \in Seq(Char) /\ Len(l) = b[6] /\ DOMAIN l = 1..b[6]
  /\ \A c \in 1..4 : \A j \in DOMAIN row[c] : b[c] + j \in 1..b[6] /\ l[b[c] + j] = row[c][j]
  /\ b[5] + 1 \in 1..b[6] /\ l[b[5] + 1] = "winget"
  /\ \A i \in 1..b[6] : \/ l[i] = " "
                        \/ l[i] = "winget" /\ i = b[5] + 1
                        \/ \E c \in 1..4 : \E j \in DOMAIN row[c] : i = b[c] + j /\ l[i] = row[c][j]
  /\ \A c \in 1..4 : Slice(l, b[c], b[c + 1]) = Trim(row[c])

\* The line of a readable row is that.
LEMMA ReadableLine ==
  ASSUME NEW rows \in Seq(Row), NEW i \in DOMAIN rows, Readable(rows[i]),
         NEW b, b = Begins(rows), NEW l, l = TableLine(rows, WithSource(rows[i]))
  PROVE  IsLineOf(l, rows[i], b)
<1>1. PICK row : row = rows[i]
  OBVIOUS
<1>2. row \in Row
  BY <1>1
<1>3. PICK cells : cells = WithSource(row)
  OBVIOUS
<1>4. /\ cells \in [1..5 -> Seq(Char)] /\ cells[5] = <<"winget">>
      /\ \A c \in 1..4 : cells[c] = row[c]
  BY <1>2, <1>3, SourceIsFifth
<1>5. LaidOut(l, cells, b)
  BY <1>1, <1>3, ReadableFits, LineIsLaidOut
<1>6. /\ l \in Seq(Char) /\ Len(l) = b[6]
      /\ \A c \in 1..5 : \A j \in 1..Len(cells[c]) : b[c] + j \in 1..b[6] /\ l[b[c] + j] = cells[c][j]
      /\ \A k \in 1..b[6] : l[k] = " " \/ \E c \in 1..5 : \E j \in 1..Len(cells[c]) : k = b[c] + j
      /\ \A c \in 1..4 : Slice(l, b[c], b[c + 1]) = Trim(cells[c])
  BY <1>5 DEF LaidOut
<1>7. DOMAIN l = 1..b[6]
  BY <1>6, LenProperties
<1>8. \A c \in 1..4 : DOMAIN row[c] = 1..Len(cells[c]) /\ cells[c] = row[c]
  <2> SUFFICES ASSUME NEW c \in 1..4
               PROVE  DOMAIN row[c] = 1..Len(cells[c]) /\ cells[c] = row[c]
    OBVIOUS
  <2>1. row[c] \in Seq(Char)
    BY <1>2 DEF Row
  <2>2. cells[c] = row[c]
    BY <1>4
  <2> QED
    BY <2>1, <2>2, LenProperties
<1>9. Len(cells[5]) = 1 /\ cells[5][1] = "winget"
  BY <1>4
<1>10. (\A c \in 1..4 : c \in 1..5) /\ 5 \in 1..5 /\ \A c \in 1..5 : c \in 1..4 \/ c = 5
  OBVIOUS
<1>11. b[5] + 1 \in 1..b[6] /\ l[b[5] + 1] = "winget"
  <2>1. 1 \in 1..Len(cells[5])
    BY <1>9
  <2>2. b[5] + 1 \in 1..b[6] /\ l[b[5] + 1] = cells[5][1]
    BY <1>6, <1>10, <2>1
  <2> QED
    BY <1>9, <2>2
<1>12. ASSUME NEW c \in 1..4, NEW j \in DOMAIN row[c]
       PROVE  b[c] + j \in 1..b[6] /\ l[b[c] + j] = row[c][j]
  <2>1. c \in 1..5
    BY <1>10
  <2>2. j \in 1..Len(cells[c]) /\ cells[c] = row[c]
    BY <1>8
  <2>3. b[c] + j \in 1..b[6] /\ l[b[c] + j] = cells[c][j]
    BY <1>6, <2>1, <2>2
  <2> QED
    BY <2>2, <2>3
<1>13. ASSUME NEW k \in 1..b[6]
       PROVE  \/ l[k] = " "
              \/ l[k] = "winget" /\ k = b[5] + 1
              \/ \E c \in 1..4 : \E j \in DOMAIN row[c] : k = b[c] + j /\ l[k] = row[c][j]
  <2>1. CASE l[k] = " "
    BY <2>1
  <2>2. CASE \E c \in 1..5 : \E j \in 1..Len(cells[c]) : k = b[c] + j
    <3>1. PICK c \in 1..5 : \E j \in 1..Len(cells[c]) : k = b[c] + j
      BY <2>2
    <3>2. PICK j \in 1..Len(cells[c]) : k = b[c] + j
      BY <3>1
    <3>3. CASE c = 5
      <4>1. j \in 1..1
        BY <1>9, <3>2, <3>3
      <4>2. j = 1
        BY <4>1
      <4>3. k = b[5] + 1
        BY <3>2, <3>3, <4>2
      <4> QED
        BY <1>11, <4>3
    <3>4. CASE c # 5
      <4>1. c \in 1..4
        BY <1>10, <3>4
      <4>2. j \in DOMAIN row[c]
        BY <1>8, <3>2, <4>1
      <4> QED
        BY <1>12, <3>2, <4>1, <4>2
    <3> QED
      BY <3>3, <3>4
  <2> QED
    BY <1>6, <2>1, <2>2
<1>14. \A c \in 1..4 : Slice(l, b[c], b[c + 1]) = Trim(row[c])
  BY <1>6, <1>8
<1>15. IsLineOf(l, row, b)
  BY <1>6, <1>7, <1>11, <1>12, <1>13, <1>14 DEF IsLineOf
<1> QED
  BY <1>1, <1>15

\* No place of the first two cells is before another that is no blank: the line begins
\* with the name, or with the id if there is none.
LEMMA RowBegins ==
  ASSUME NEW rows \in Seq(Row), NEW b, b = Begins(rows), NEW row \in Row, Readable(row),
         NEW l, IsLineOf(l, row, b)
  PROVE  Trim(l)[1] # "-"
<1>1. /\ l \in Seq(Char) /\ DOMAIN l = 1..b[6]
      /\ \A c \in 1..4 : \A j \in DOMAIN row[c] : b[c] + j \in 1..b[6] /\ l[b[c] + j] = row[c][j]
      /\ \A i \in 1..b[6] : \/ l[i] = " "
                            \/ l[i] = "winget" /\ i = b[5] + 1
                            \/ \E c \in 1..4 : \E j \in DOMAIN row[c] : i = b[c] + j /\ l[i] = row[c][j]
  BY DEF IsLineOf
<1>2. row[1] \in Seq(Char) /\ row[2] \in Seq(Char)
  BY DEF Row
<1>3. row[2] # <<>> /\ Trim(row[1]) = row[1] /\ Trim(row[2]) = row[2] /\ Head(row[1] \o row[2]) # "-"
  <2>1. 1 \in 1..4 /\ 2 \in 1..4
    OBVIOUS
  <2>2. (\A c \in 1..4 : Trim(row[c]) = row[c]) /\ row[2] # <<>> /\ Head(row[1] \o row[2]) # "-"
    BY DEF Readable
  <2> QED
    BY <2>1, <2>2
<1>4. /\ b[1] = 0 /\ b[1] \in Nat /\ b[2] \in Nat /\ b[3] \in Nat
      /\ b[4] \in Nat /\ b[5] \in Nat /\ b[6] \in Nat
  <2>1. \A c \in 1..6 : b[c] \in Nat
    BY ColumnsBegin
  <2>2. b[1] = 0
    BY ColumnsBegin
  <2>3. 1 \in 1..6 /\ 2 \in 1..6 /\ 3 \in 1..6 /\ 4 \in 1..6 /\ 5 \in 1..6 /\ 6 \in 1..6
    OBVIOUS
  <2> QED
    BY <2>1, <2>2, <2>3
<1>5. CASE row[1] # <<>>
  <2>1. 1 \in Black(row[1])
    BY <1>2, <1>3, <1>5, TrimmedBegins
  <2>2. 1 \in DOMAIN row[1] /\ row[1][1] # " "
    BY <2>1 DEF Black
  <2>3. b[1] + 1 = 1
    BY <1>4
  <2>4. 1 \in 1..b[6] /\ l[1] = row[1][1]
    <3>1. 1 \in 1..4
      OBVIOUS
    <3>2. b[1] + 1 \in 1..b[6] /\ l[b[1] + 1] = row[1][1]
      BY <1>1, <2>2, <3>1
    <3> QED
      BY <2>3, <3>2
  <2>5. 1 \in Black(l)
    BY <1>1, <2>2, <2>4 DEF Black
  <2>6. \A j \in Black(l) : 1 <= j
    <3>1. Black(l) \in SUBSET (1..Len(l))
      BY <1>1, BlackArePlaces
    <3>2. \A j \in 1..Len(l) : 1 <= j
      OBVIOUS
    <3> QED
      BY <3>1, <3>2
  <2>7. Trim(l)[1] = row[1][1]
    <3> HIDE <2>2
    <3>1. Trim(l)[1] = l[1]
      BY <1>1, <2>5, <2>6, TrimBegins
    <3> QED
      BY <2>4, <3>1
  <2>8. Head(row[1] \o row[2]) = row[1][1]
    BY <1>2, <1>5, HeadOfConcat
  <2> QED
    BY <1>3, <2>7, <2>8
<1>6. CASE row[1] = <<>>
  <2>1. 1 \in Black(row[2])
    BY <1>2, <1>3, TrimmedBegins
  <2>2. 1 \in DOMAIN row[2] /\ row[2][1] # " "
    BY <2>1 DEF Black
  <2> DEFINE a == b[2] + 1
  <2>3. a \in 1..b[6] /\ l[a] = row[2][1]
    <3>1. 2 \in 1..4
      OBVIOUS
    <3> QED
      BY <1>1, <2>2, <3>1
  <2>4. a \in Black(l)
    BY <1>1, <2>2, <2>3 DEF Black
  <2>5. ASSUME NEW j \in Black(l)
        PROVE  a <= j
    <3>1. j \in 1..b[6] /\ l[j] # " "
      BY <1>1 DEF Black
    <3>2. b[2] <= b[3] /\ b[2] <= b[4] /\ b[2] <= b[5]
      BY ColumnsAreOrdered
    <3>3. CASE j = b[5] + 1
      BY <1>4, <3>2, <3>3
    <3>4. CASE \E c \in 1..4 : \E k \in DOMAIN row[c] : j = b[c] + k /\ l[j] = row[c][k]
      <4>1. PICK c \in 1..4 : \E k \in DOMAIN row[c] : j = b[c] + k
        BY <3>4
      <4>2. PICK k \in DOMAIN row[c] : j = b[c] + k
        BY <4>1
      <4>3. c # 1
        <5>1. DOMAIN row[1] = {}
          BY <1>6
        <5> QED
          BY <4>2, <5>1
      <4>4. k \in Nat /\ 1 <= k
        <5>1. row[c] \in Seq(Char)
          BY DEF Row
        <5>2. DOMAIN row[c] = 1..Len(row[c]) /\ Len(row[c]) \in Nat
          BY <5>1, LenProperties
        <5> QED
          BY <4>2, <5>2
      <4>5. b[c] \in Nat /\ b[2] <= b[c]
        <5>1. c = 2 \/ c = 3 \/ c = 4
          BY <4>3
        <5>2. \A n \in Nat : n <= n
          OBVIOUS
        <5> QED
          BY <1>4, <3>2, <5>1, <5>2
      <4> QED
        BY <1>4, <4>2, <4>4, <4>5
    <3> QED
      BY <1>1, <3>1, <3>3, <3>4
  <2>6. Trim(l)[1] = l[a]
    <3> HIDE DEF a
    <3> QED
      BY <1>1, <2>4, <2>5, TrimBegins
  <2>7. Head(row[1] \o row[2]) = row[2][1]
    BY <1>2, <1>3, <1>6, HeadOfConcat
  <2> QED
    BY <1>3, <2>3, <2>6, <2>7
<1> QED
  BY <1>5, <1>6

\* The line of a readable row is no noise: the source is in it.
LEMMA RowIsNoNoise ==
  ASSUME NEW row \in Row, Readable(row), NEW b, NEW l, IsLineOf(l, row, b)
  PROVE  ~IsNoise(l)
<1>1. /\ l \in Seq(Char) /\ Len(l) = b[6] /\ DOMAIN l = 1..b[6]
      /\ b[5] + 1 \in 1..b[6] /\ l[b[5] + 1] = "winget"
      /\ \A i \in 1..b[6] : \/ l[i] = " "
                            \/ l[i] = "winget" /\ i = b[5] + 1
                            \/ \E c \in 1..4 : \E j \in DOMAIN row[c] : i = b[c] + j /\ l[i] = row[c][j]
  BY DEF IsLineOf
<1>2. ~Contains(l, "bar")
  <2>1. \A c \in 1..4 : \A j \in DOMAIN row[c] : row[c][j] # "bar"
    BY DEF Readable, ToSet
  <2>2. ASSUME NEW i \in 1..b[6]
        PROVE  l[i] # "bar"
    BY <1>1, <2>1
  <2> QED
    BY <1>1, <2>2 DEF Contains
<1>3. b[5] + 1 \in Black(l)
  BY <1>1 DEF Black
<1>4. Trim(l) # <<>> /\ "winget" \in ToSet(Trim(l))
  BY <1>1, <1>3, TrimKeeps
<1>5. "winget" \notin {"-", "\\", "|", "/"}
  OBVIOUS
<1> QED
  BY <1>2, <1>4, <1>5 DEF IsNoise

\* It is an update, and its cells are those of the row.
LEMMA RowIsRead ==
  ASSUME NEW rows \in Seq(Row), NEW b, b = Begins(rows), NEW row \in Row, Readable(row),
         NEW l, IsLineOf(l, row, b), NEW offset, AreOffsets(offset, b)
  PROVE  IsUpdate(l, offset) /\ Cells(l, offset) = row
<1>1. \A c \in 1..4 : Slice(l, b[c], b[c + 1]) = row[c]
  BY DEF IsLineOf, Readable
<1>2. offset[2] = b[2] /\ offset[3] = b[3] /\ offset[4] = b[4] /\ offset[5] = b[5]
  BY DEF AreOffsets
<1>3. /\ Slice(l, b[1], b[2]) = row[1] /\ Slice(l, b[2], b[3]) = row[2]
      /\ Slice(l, b[3], b[4]) = row[3] /\ Slice(l, b[4], b[5]) = row[4]
  <2>1. 1 + 1 = 2 /\ 2 + 1 = 3 /\ 3 + 1 = 4 /\ 4 + 1 = 5
    OBVIOUS
  <2>2. /\ Slice(l, b[1], b[1 + 1]) = row[1] /\ Slice(l, b[2], b[2 + 1]) = row[2]
        /\ Slice(l, b[3], b[3 + 1]) = row[3] /\ Slice(l, b[4], b[4 + 1]) = row[4]
    BY <1>1
  <2> QED
    BY <2>1, <2>2
<1>4. b[1] = 0
  BY ColumnsBegin
<1>5. Cells(l, offset) = <<row[1], row[2], row[3], row[4]>>
  BY <1>2, <1>3, <1>4 DEF Cells
<1>6. row = <<row[1], row[2], row[3], row[4]>>
  <2>1. row = [c \in 1..4 |-> row[c]]
    BY DEF Row
  <2>2. \A c \in 1..4 : row[c] = <<row[1], row[2], row[3], row[4]>>[c]
    <3>1. \A c \in 1..4 : c = 1 \/ c = 2 \/ c = 3 \/ c = 4
      OBVIOUS
    <3> QED
      BY <3>1
  <2>3. DOMAIN <<row[1], row[2], row[3], row[4]>> = 1..4
    OBVIOUS
  <2> QED
    BY <2>1, <2>2, <2>3
<1>7. Cells(l, offset) = row
  BY <1>5, <1>6
<1>8. row[2] # <<>> /\ row[4] # <<>>
  BY DEF Readable
<1>9. Trim(l)[1] # "-"
  BY RowBegins
<1>10. Len(l) > offset[2]
  <2>1. Len(l) = b[6]
    BY DEF IsLineOf
  <2>2. b[2] <= b[5] /\ b[6] = b[5] + 1 /\ b[2] \in Nat /\ b[5] \in Nat
    BY ColumnsAreOrdered
  <2> QED
    BY <1>2, <2>1, <2>2
<1> QED
  BY <1>7, <1>8, <1>9, <1>10 DEF IsUpdate

\* The line of dashes under the header is no update.
LEMMA DashesAreNone ==
  ASSUME NEW rows \in Seq(Row), NEW d, d = [i \in DOMAIN Header(rows) |-> "-"], NEW offset
  PROVE  d \in Seq(Char) /\ ~IsUpdate(d, offset)
<1>1. PICK n \in Nat \ {0} : DOMAIN Header(rows) = 1..n
  <2>1. PICK b : b = Begins(rows)
    OBVIOUS
  <2>2. IsTitled(Header(rows), b)
    BY <2>1, HeaderIsTitled
  <2>3. DOMAIN Header(rows) = 1..b[6]
    BY <2>2 DEF IsTitled
  <2>4. b[6] = b[5] + 1 /\ b[5] \in Nat
    BY <2>1, ColumnsAreOrdered
  <2>5. b[6] \in Nat \ {0}
    BY <2>4
  <2> QED
    BY <2>3, <2>5
<1>2. PICK e : e = "-" /\ e \in Char
  <2> DEFINE titles == {Titles[c] : c \in 1..5}
  <2>1. Char = STRING \cup {" ", "-", "winget"} \cup titles
    BY DEF Char
  <2> HIDE DEF titles
  <2> QED
    BY <2>1
<1>3. Same(d, n, e)
  BY <1>1, <1>2 DEF Same
<1>4. d \in Seq(Char) /\ Len(d) = n /\ \A i \in 1..n : d[i] = e
  BY <1>2, <1>3, SameIsSequence
<1>5. DOMAIN d = 1..n /\ 1 \in 1..n /\ \A i \in 1..n : 1 <= i
  BY <1>1
<1>6. 1 \in Black(d) /\ \A j \in Black(d) : 1 <= j
  BY <1>2, <1>4, <1>5 DEF Black
<1>7. Trim(d)[1] = d[1]
  BY <1>4, <1>6, TrimBegins
<1>8. Trim(d)[1] = "-"
  BY <1>2, <1>4, <1>5, <1>7
<1> QED
  BY <1>4, <1>8 DEF IsUpdate

\* Nor is a trailing line that ends before the fourth column.
LEMMA TrailerIsNone ==
  ASSUME NEW rows \in Seq(Row), NEW b, b = Begins(rows), NEW offset, AreOffsets(offset, b),
         NEW t \in Seq(Char), Len(t) <= AvailableOffset(rows)
  PROVE  ~IsUpdate(t, offset)
<1>1. b[4] = AvailableOffset(rows)
  BY DEF Begins
<1>2. offset[4] = b[4] /\ offset[5] = b[5]
  BY DEF AreOffsets
<1>3. b[4] \in Nat /\ b[5] \in Nat /\ b[4] <= b[5]
  BY ColumnsAreOrdered
<1>4. Len(t) \in Nat
  BY LenProperties
<1>5. Min({b[5], Len(t)}) = Len(t)
  <2>1. Len(t) <= b[5]
    BY <1>1, <1>3, <1>4
  <2>2. Min({Len(t), b[5]}) = Len(t)
    BY <1>3, <1>4, <2>1, MinOfTwo
  <2>3. {Len(t), b[5]} = {b[5], Len(t)}
    OBVIOUS
  <2> QED
    BY <2>2, <2>3
<1>6. SubSeq(t, b[4] + 1, Len(t)) = <<>>
  <2>1. b[4] + 1 > Len(t)
    BY <1>1, <1>3, <1>4
  <2> QED
    BY <1>3, <1>4, <2>1, CutBehind
<1>7. Trim(<<>>) = <<>>
  <2>1. DOMAIN <<>> = {}
    OBVIOUS
  <2> QED
    BY <2>1 DEF Trim
<1>8. Slice(t, offset[4], offset[5]) = <<>>
  BY <1>2, <1>5, <1>6, <1>7 DEF Slice
<1>9. Cells(t, offset)[4] = <<>>
  BY <1>8 DEF Cells
<1> QED
  BY <1>9 DEF IsUpdate

-----------------------------------------------------------------------------
(* The table of winget: its text *)

\* The line of a row is a text, whether the row is readable or not.
LEMMA LineIsOfChars ==
  ASSUME NEW rows \in Seq(Row), NEW i \in DOMAIN rows
  PROVE  TableLine(rows, WithSource(rows[i])) \in Seq(Char)
<1>1. PICK cells : cells = WithSource(rows[i])
  OBVIOUS
<1>2. cells \in [1..5 -> Seq(Char)] /\ \A c \in 1..4 : cells[c] = rows[i][c]
  <2>1. PICK row : row = rows[i]
    OBVIOUS
  <2>2. row \in Row
    BY <2>1
  <2>3. WithSource(row) \in [1..5 -> Seq(Char)] /\ \A c \in 1..4 : WithSource(row)[c] = row[c]
    BY <2>2, SourceIsFifth
  <2> QED
    BY <1>1, <2>1, <2>3
<1>3. ASSUME NEW c \in 1..4
      PROVE  Padded(cells[c], ColumnWidth(rows, c)) \in Seq(Char)
  <2>1. PICK s : s = cells[c]
    OBVIOUS
  <2>2. s \in Seq(Char) /\ s = rows[i][c]
    BY <1>2, <2>1
  <2>3. PICK w, k : w = ColumnWidth(rows, c) /\ k = Width(s)
    OBVIOUS
  <2>4. w \in Nat /\ k \in Nat /\ k < w
    <3>1. ColumnWidth(rows, c) \in Nat /\ Width(rows[i][c]) < ColumnWidth(rows, c)
      BY ColumnFits
    <3>2. Width(s) \in Nat
      BY <2>2, WidthIsNumber
    <3> QED
      BY <2>2, <2>3, <3>1, <3>2
  <2>5. PICK n \in Nat : n = w - k
    BY <2>4
  <2>6. PICK blanks : Same(blanks, n, " ") /\ Padded(s, w) = s \o blanks
    BY <2>3, <2>5 DEF Same, Padded
  <2>7. blanks \in Seq(Char)
    BY <2>6, BlankIsChar, SameIsSequence
  <2>8. s \o blanks \in Seq(Char)
    BY <2>2, <2>7, ConcatProperties
  <2> QED
    BY <2>1, <2>3, <2>6, <2>8
<1>4. PICK p1, p2, p3, p4 : /\ p1 = Padded(cells[1], ColumnWidth(rows, 1))
                            /\ p2 = Padded(cells[2], ColumnWidth(rows, 2))
                            /\ p3 = Padded(cells[3], ColumnWidth(rows, 3))
                            /\ p4 = Padded(cells[4], ColumnWidth(rows, 4))
  OBVIOUS
<1>5. /\ p1 \in Seq(Char) /\ p2 \in Seq(Char) /\ p3 \in Seq(Char) /\ p4 \in Seq(Char)
      /\ cells[5] \in Seq(Char)
  BY <1>2, <1>3, <1>4
<1>6. TableLine(rows, cells) = (((p1 \o p2) \o p3) \o p4) \o cells[5]
  BY <1>4 DEF TableLine
<1>7. p1 \o p2 \in Seq(Char)
  BY <1>5, ConcatProperties
<1>8. (p1 \o p2) \o p3 \in Seq(Char)
  BY <1>5, <1>7, ConcatProperties
<1>9. ((p1 \o p2) \o p3) \o p4 \in Seq(Char)
  BY <1>5, <1>8, ConcatProperties
<1>10. (((p1 \o p2) \o p3) \o p4) \o cells[5] \in Seq(Char)
  BY <1>5, <1>9, ConcatProperties
<1> QED
  BY <1>1, <1>6, <1>10

\* What winget prints.
IsOutput(o) ==
  /\ o.rows \in Seq(Row) /\ o.trailer \in Seq(Char)
  /\ o.frames \in Seq(Seq(Char)) /\ \A i \in DOMAIN o.frames : ~IsHeader(o.frames[i])

\* Its lines: the frames, the header, the dashes, the rows and what trails.
IsText(text, o, nf, n) ==
  /\ nf \in Nat /\ n \in Nat /\ DOMAIN o.rows = 1..n
  /\ text \in Seq(Seq(Char)) /\ Len(text) = nf + n + 3
  /\ \A i \in 1..nf : ~IsHeader(text[i])
  /\ text[nf + 1] = Header(o.rows)
  /\ text[nf + 2] = [i \in DOMAIN Header(o.rows) |-> "-"]
  /\ \A i \in 1..n : text[nf + 2 + i] = TableLine(o.rows, WithSource(o.rows[i]))
  /\ text[nf + n + 3] = o.trailer

\* What winget prints has these lines.
LEMMA OutputIsText ==
  ASSUME NEW o, IsOutput(o)
  PROVE  \E nf, n : IsText(FlattenSeq(WingetOutput(o)), o, nf, n)
<1>1. PICK rows, frames, t : rows = o.rows /\ frames = o.frames /\ t = o.trailer
  OBVIOUS
<1>2. /\ rows \in Seq(Row) /\ t \in Seq(Char) /\ frames \in Seq(Seq(Char))
      /\ \A i \in DOMAIN frames : ~IsHeader(frames[i])
  BY <1>1 DEF IsOutput
<1>3. PICK n, nf \in Nat : n = Len(rows) /\ nf = Len(frames)
  BY <1>2, LenProperties
<1>4. DOMAIN rows = 1..n /\ DOMAIN frames = 1..nf
  BY <1>2, <1>3, LenProperties
<1>5. PICK h, d : h = Header(rows) /\ d = [i \in DOMAIN Header(rows) |-> "-"]
  OBVIOUS
<1>6. h \in Seq(Char) /\ d \in Seq(Char)
  <2>1. h \in Seq(Char)
    BY <1>2, <1>5, HeaderIsTitled DEF IsTitled
  <2>2. d \in Seq(Char)
    BY <1>2, <1>5, DashesAreNone
  <2> QED
    BY <2>1, <2>2
<1>7. PICK x : x = frames \o <<h>>
  OBVIOUS
<1>8. x \in Seq(Seq(Char)) /\ Len(x) = nf + 1 /\ x[nf + 1] = h /\ \A i \in 1..nf : x[i] = frames[i]
  <2>1. PICK S : S = Seq(Char)
    OBVIOUS
  <2>2. frames \in [1..nf -> S] /\ h \in S /\ IsOneMore(x, frames, h)
    <3>1. frames \in Seq(S)
      BY <1>2, <2>1
    <3>2. frames \in [1..nf -> S]
      BY <1>3, <3>1, LenProperties
    <3> QED
      BY <1>6, <1>7, <2>1, <3>2 DEF IsOneMore
  <2>3. /\ x \in [1..(nf + 1) -> S] /\ x[nf + 1] = h
        /\ \A c \in 1..nf : x[c] = frames[c]
    <3>1. IsExtended(x, frames, h, nf, S)
      BY <2>2, OneMore
    <3> QED
      BY <3>1 DEF IsExtended
  <2>4. x \in Seq(S) /\ Len(x) = nf + 1
    BY <2>3
  <2> QED
    BY <2>1, <2>3, <2>4
<1>9. PICK y, z : y = <<d>> /\ z = <<t>>
  OBVIOUS
<1>10. /\ y \in Seq(Seq(Char)) /\ Len(y) = 1 /\ y[1] = d
       /\ z \in Seq(Seq(Char)) /\ Len(z) = 1 /\ z[1] = t
  BY <1>2, <1>6, <1>9
<1>11. PICK m : m = SeqMap(LAMBDA row : RowLine(rows, row), rows)
  OBVIOUS
<1>12. /\ m \in Seq(Seq(Seq(Char))) /\ Len(m) = n
       /\ \A i \in 1..n : Len(m[i]) = 1 /\ m[i][1] = TableLine(rows, WithSource(rows[i]))
  <2>1. m = [i \in 1..n |-> RowLine(rows, rows[i])]
    BY <1>4, <1>11 DEF SeqMap
  <2>2. ASSUME NEW i \in 1..n
        PROVE  /\ RowLine(rows, rows[i]) \in Seq(Seq(Char)) /\ Len(RowLine(rows, rows[i])) = 1
               /\ RowLine(rows, rows[i])[1] = TableLine(rows, WithSource(rows[i]))
    <3>1. PICK l : l = TableLine(rows, WithSource(rows[i]))
      OBVIOUS
    <3>2. l \in Seq(Char)
      BY <1>2, <1>4, <3>1, LineIsOfChars
    <3>3. RowLine(rows, rows[i]) = <<l>>
      BY <3>1 DEF RowLine, WithSource
    <3>4. <<l>> \in Seq(Seq(Char)) /\ Len(<<l>>) = 1 /\ <<l>>[1] = l
      BY <3>2
    <3> QED
      BY <3>1, <3>3, <3>4
  <2>3. m \in Seq(Seq(Seq(Char))) /\ Len(m) = n
    BY <2>1, <2>2
  <2> QED
    BY <2>1, <2>2, <2>3
<1>13. PICK ss : ss = WingetOutput(o)
  OBVIOUS
<1>14. IsFramed(ss, x, y, m, z)
  BY <1>1, <1>5, <1>7, <1>9, <1>11, <1>13 DEF WingetOutput, IsFramed
<1>15. /\ ss \in Seq(Seq(Seq(Char))) /\ Len(ss) = n + 3
       /\ ss[1] = x /\ ss[2] = y /\ ss[n + 3] = z
       /\ \A i \in 1..n : ss[2 + i] = m[i]
  <2>1. PICK S : S = Seq(Seq(Char))
    OBVIOUS
  <2>2. x \in S /\ y \in S /\ z \in S /\ m \in Seq(S)
    BY <1>8, <1>10, <1>12, <2>1
  <2>3. /\ ss \in Seq(S) /\ Len(ss) = Len(m) + 3
        /\ ss[1] = x /\ ss[2] = y /\ ss[Len(m) + 3] = z
        /\ \A i \in 1..Len(m) : ss[2 + i] = m[i]
    BY <1>14, <2>2, FramedElements
  <2>4. Len(m) = n
    BY <1>12
  <2> QED
    BY <2>1, <2>3, <2>4
<1>16. ss # <<>> /\ \A j \in 2..Len(ss) : Len(ss[j]) = 1
  <2>1. ASSUME NEW j \in 2..(n + 3)
        PROVE  Len(ss[j]) = 1
    <3>1. j = 2 \/ j = n + 3 \/ j - 2 \in 1..n
      OBVIOUS
    <3>2. ASSUME j - 2 \in 1..n
          PROVE  ss[j] = m[j - 2]
      <4>1. 2 + (j - 2) = j
        OBVIOUS
      <4> QED
        BY <1>15, <3>2, <4>1
    <3> QED
      BY <1>10, <1>12, <1>15, <3>1, <3>2
  <2>2. n + 3 # 0
    OBVIOUS
  <2>3. ss # <<>>
    BY <1>15, <2>2
  <2> QED
    BY <1>15, <2>1, <2>3
<1>17. PICK F : F = FlattenSeq(ss)
  OBVIOUS
<1>18. /\ F \in Seq(Seq(Char))
       /\ Len(F) = Len(ss[1]) + Len(ss) - 1
       /\ \A i \in 1..Len(ss[1]) : F[i] = ss[1][i]
       /\ \A j \in 2..Len(ss) : F[Len(ss[1]) + j - 1] = ss[j][1]
  <2>1. PICK S : S = Seq(Char)
    OBVIOUS
  <2>2. ss \in Seq(Seq(S))
    BY <1>15, <2>1
  <2>3. /\ FlattenSeq(ss) \in Seq(S)
        /\ Len(FlattenSeq(ss)) = Len(ss[1]) + Len(ss) - 1
        /\ \A i \in 1..Len(ss[1]) : FlattenSeq(ss)[i] = ss[1][i]
        /\ \A j \in 2..Len(ss) : FlattenSeq(ss)[Len(ss[1]) + j - 1] = ss[j][1]
    BY <1>16, <2>2, FlattenSingles
  <2> QED
    BY <1>17, <2>1, <2>3
<1>19. /\ Len(F) = (nf + 1) + (n + 3) - 1
       /\ \A i \in 1..(nf + 1) : F[i] = x[i]
       /\ \A j \in 2..(n + 3) : F[(nf + 1) + j - 1] = ss[j][1]
  <2>1. Len(ss[1]) = nf + 1 /\ Len(ss) = n + 3 /\ ss[1] = x
    BY <1>8, <1>15
  <2> QED
    BY <1>18, <2>1
<1>20. \A j \in 2..(n + 3) : F[nf + j] = ss[j][1]
  <2>1. \A j \in 2..(n + 3) : (nf + 1) + j - 1 = nf + j
    OBVIOUS
  <2> QED
    BY <1>19, <2>1
<1>21. Len(F) = nf + n + 3
  <2>1. (nf + 1) + (n + 3) - 1 = nf + n + 3
    OBVIOUS
  <2> QED
    BY <1>19, <2>1
<1>22. ASSUME NEW i \in 1..nf
       PROVE  ~IsHeader(F[i])
  <2>1. i \in 1..(nf + 1)
    OBVIOUS
  <2>2. F[i] = frames[i]
    BY <1>8, <1>19, <2>1
  <2> QED
    BY <1>2, <1>4, <2>2
<1>23. F[nf + 1] = h
  <2>1. nf + 1 \in 1..(nf + 1)
    OBVIOUS
  <2> QED
    BY <1>8, <1>19, <2>1
<1>24. F[nf + 2] = d
  <2>1. 2 \in 2..(n + 3)
    OBVIOUS
  <2>2. F[nf + 2] = ss[2][1]
    BY <1>20, <2>1
  <2> QED
    BY <1>10, <1>15, <2>2
<1>25. ASSUME NEW i \in 1..n
       PROVE  F[nf + 2 + i] = TableLine(rows, WithSource(rows[i]))
  <2>1. 2 + i \in 2..(n + 3) /\ nf + (2 + i) = nf + 2 + i
    OBVIOUS
  <2>2. F[nf + (2 + i)] = ss[2 + i][1]
    BY <1>20, <2>1
  <2>3. ss[2 + i] = m[i]
    BY <1>15
  <2>4. m[i][1] = TableLine(rows, WithSource(rows[i]))
    BY <1>12
  <2>5. F[nf + 2 + i] = ss[2 + i][1]
    BY <2>1, <2>2
  <2> QED
    BY <2>3, <2>4, <2>5
<1>26. F[nf + n + 3] = t
  <2>1. n + 3 \in 2..(n + 3) /\ nf + (n + 3) = nf + n + 3
    OBVIOUS
  <2>2. F[nf + (n + 3)] = ss[n + 3][1]
    BY <1>20, <2>1
  <2>3. F[nf + n + 3] = ss[n + 3][1]
    BY <2>1, <2>2
  <2> QED
    BY <1>10, <1>15, <2>3
<1>27. IsText(F, o, nf, n)
  BY <1>1, <1>4, <1>5, <1>18, <1>21, <1>22, <1>23, <1>24, <1>25, <1>26 DEF IsText
<1> QED
  BY <1>13, <1>17, <1>27

\* The header is the first of the lines kept that looks like one, and the updates are
\* what stands behind it at a list of places, those of the updates.
Behind(text, nf, offset) ==
  {i \in DOMAIN text : i > nf + 1 /\ ~IsNoise(text[i]) /\ IsUpdate(text[i], offset)}

IsReadFrom(o, text, nf, b, offset, chosen) ==
  /\ AreOffsets(offset, b)
  /\ ParseWingetTable(WingetOutput(o)) = SeqMap(LAMBDA l : Cells(l, offset), chosen)
  /\ AreListed(chosen, text, Behind(text, nf, offset))

\* The parser reads what is behind the header.
LEMMA UpdatesAreListed ==
  ASSUME NEW o, IsOutput(o), NEW text, text = FlattenSeq(WingetOutput(o)),
         NEW nf, NEW n, IsText(text, o, nf, n), NEW b, b = Begins(o.rows)
  PROVE  \E offset, chosen : IsReadFrom(o, text, nf, b, offset, chosen)
<1>1. PICK S : S = Seq(Char)
  OBVIOUS
<1>2. /\ nf \in Nat /\ n \in Nat
      /\ text \in Seq(S) /\ Len(text) = nf + n + 3
      /\ \A i \in 1..nf : ~IsHeader(text[i])
      /\ text[nf + 1] = Header(o.rows)
  BY <1>1 DEF IsText
<1>3. DOMAIN text = 1..Len(text)
  BY <1>2, LenProperties
<1>4. PICK keep : keep = {i \in DOMAIN text : ~IsNoise(text[i])}
  OBVIOUS
<1>5. keep \in SUBSET (1..Len(text))
  BY <1>3, <1>4
<1>6. PICK p : p = nf + 1
  OBVIOUS
<1>7. /\ IsHeader(text[p]) /\ ~IsNoise(text[p])
      /\ \A lines : \A c \in 2..5 : ColumnOffset(lines, text[p], c) = b[c]
  <2>1. o.rows \in Seq(Row)
    BY DEF IsOutput
  <2>2. text[p] = Header(o.rows)
    BY <1>2, <1>6
  <2> QED
    BY <2>1, <2>2, HeaderIsRead
<1>8. p \in keep
  <2>1. p \in 1..(nf + n + 3)
    BY <1>2, <1>6
  <2> QED
    BY <1>2, <1>3, <1>4, <1>7, <2>1
<1>9. PICK H : H = {l \in S : IsHeader(l)}
  OBVIOUS
<1>10. \A i \in 1..Len(text) : text[i] \in S
  BY <1>2
<1>11. text[p] \in H
  BY <1>5, <1>7, <1>8, <1>9, <1>10
<1>12. \A i \in keep : text[i] \in H => p <= i
  <2> SUFFICES ASSUME NEW i \in keep, IsHeader(text[i])
               PROVE  p <= i
    BY <1>9
  <2>1. i \in 1..(nf + n + 3) /\ ~(i \in 1..nf)
    BY <1>2, <1>5
  <2> QED
    BY <1>2, <1>6, <2>1
<1>13. IsFirst(p, H, text, keep)
  BY <1>8, <1>11, <1>12 DEF IsFirst
<1>14. PICK lines : lines = AtIndexes(text, keep)
  OBVIOUS
<1>15. lines = TableLines(WingetOutput(o))
  BY <1>4, <1>14 DEF TableLines, Chosen
<1>16. lines \in Seq(S)
  <2>1. \E e, k : Lists(e, k, keep) /\ Holds(lines, text, e, k)
    <3>1. Len(text) \in Nat
      BY <1>2, LenProperties
    <3> QED
      BY <1>5, <1>14, <3>1, KeptIsListed
  <2>2. PICK e, k : Lists(e, k, keep) /\ Holds(lines, text, e, k)
    BY <2>1
  <2> QED
    BY <1>2, <1>5, <2>2, HoldsThere
<1>17. PICK headers : headers = {i \in DOMAIN lines : IsHeader(lines[i])}
  OBVIOUS
<1>18. headers = {i \in DOMAIN lines : lines[i] \in H}
  <2>1. \A i \in DOMAIN lines : lines[i] \in S
    BY <1>16
  <2> QED
    BY <1>9, <1>17, <2>1
<1>19. PICK rest : rest = SubSeq(lines, Min(headers) + 1, Len(lines))
  OBVIOUS
<1>20. headers # {} /\ lines[Min(headers)] = text[p]
  <2>1. PICK U, chosen, later :
          /\ U = {} /\ chosen = AtIndexes(rest, {i \in DOMAIN rest : rest[i] \in U})
          /\ later = {i \in keep : i > p /\ text[i] \in U}
    OBVIOUS
  <2>2. IsCut(text, keep, H, U, lines, headers, rest, chosen)
    BY <1>14, <1>18, <1>19, <2>1 DEF IsCut
  <2>3. AreBehind(later, text, keep, p, U)
    BY <2>1 DEF AreBehind
  <2>4. IsFound(text, p, lines, headers)
    BY <1>2, <1>5, <1>13, <2>2, <2>3, AfterTheFirst
  <2> QED
    BY <2>4 DEF IsFound
<1>21. PICK offset : offset = [c \in 2..5 |-> ColumnOffset(lines, lines[Min(headers)], c)]
  OBVIOUS
<1>22. AreOffsets(offset, b)
  <2>1. \A c \in 2..5 : offset[c] = ColumnOffset(lines, text[p], c)
    BY <1>20, <1>21
  <2> QED
    BY <1>7, <2>1 DEF AreOffsets
<1>23. rest \in Seq(S)
  <2>1. DOMAIN lines = 1..Len(lines)
    BY <1>16, LenProperties
  <2>2. headers \in SUBSET (1..Len(lines))
    BY <1>17, <2>1
  <2>3. headers \in SUBSET Nat
    BY <2>2
  <2>4. Min(headers) \in headers
    BY <1>20, <2>3, MinIsLeast
  <2>5. PICK h : h = Min(headers)
    OBVIOUS
  <2>6. IsRest(rest, lines, h)
    BY <1>19, <2>2, <2>4, <2>5 DEF IsRest
  <2> QED
    BY <1>16, <2>6, RestIsShifted
<1>24. PICK U : U = {l \in S : IsUpdate(l, offset)}
  OBVIOUS
<1>25. PICK chosen : chosen = Chosen(rest, LAMBDA l : IsUpdate(l, offset))
  OBVIOUS
<1>26. chosen = AtIndexes(rest, {i \in DOMAIN rest : rest[i] \in U})
  <2>1. \A i \in DOMAIN rest : rest[i] \in S
    BY <1>23
  <2>2. {i \in DOMAIN rest : rest[i] \in U} = {i \in DOMAIN rest : IsUpdate(rest[i], offset)}
    BY <1>24, <2>1
  <2>3. chosen = AtIndexes(rest, {i \in DOMAIN rest : IsUpdate(rest[i], offset)})
    BY <1>25 DEF Chosen
  <2> QED
    BY <2>2, <2>3
<1>27. PICK later : later = {i \in keep : i > p /\ text[i] \in U}
  OBVIOUS
<1>28. later = Behind(text, nf, offset)
  <2>1. \A i \in DOMAIN text : text[i] \in U <=> IsUpdate(text[i], offset)
    BY <1>3, <1>10, <1>24
  <2> QED
    BY <1>4, <1>6, <1>27, <2>1 DEF Behind
<1>29. AreListed(chosen, text, later)
  <2>1. IsCut(text, keep, H, U, lines, headers, rest, chosen)
    BY <1>14, <1>18, <1>19, <1>26 DEF IsCut
  <2>2. AreBehind(later, text, keep, p, U)
    BY <1>27 DEF AreBehind
  <2> QED
    BY <1>2, <1>5, <1>13, <2>1, <2>2, AfterTheFirst
<1>30. ParseWingetTable(WingetOutput(o)) = SeqMap(LAMBDA l : Cells(l, offset), chosen)
  BY <1>15, <1>17, <1>19, <1>20, <1>21, <1>25 DEF ParseWingetTable
<1> QED
  BY <1>22, <1>28, <1>29, <1>30 DEF IsReadFrom

\* Every readable row is behind the header ...
LEMMA ReadableIsBehind ==
  ASSUME NEW o, IsOutput(o), NEW text, NEW nf, NEW n, IsText(text, o, nf, n),
         NEW b, b = Begins(o.rows), NEW offset, AreOffsets(offset, b),
         NEW i \in 1..n, Readable(o.rows[i])
  PROVE  /\ nf + 2 + i \in Behind(text, nf, offset)
         /\ Cells(text[nf + 2 + i], offset) = o.rows[i]
<1>1. PICK rows, row : rows = o.rows /\ row = o.rows[i]
  OBVIOUS
<1>2. /\ nf \in Nat /\ n \in Nat /\ DOMAIN rows = 1..n
      /\ text \in Seq(Seq(Char)) /\ Len(text) = nf + n + 3
      /\ text[nf + 2 + i] = TableLine(rows, WithSource(row))
  BY <1>1 DEF IsText
<1>3. rows \in Seq(Row) /\ b = Begins(rows)
  BY <1>1 DEF IsOutput
<1>4. i \in DOMAIN rows /\ row = rows[i] /\ row \in Row /\ Readable(row)
  <2>1. i \in DOMAIN rows /\ row = rows[i]
    BY <1>1, <1>2
  <2>2. Readable(row)
    BY <1>1
  <2> QED
    BY <1>3, <2>1, <2>2
<1>5. PICK l : l = TableLine(rows, WithSource(row))
  OBVIOUS
<1>6. IsLineOf(l, row, b)
  BY <1>3, <1>4, <1>5, ReadableLine
<1>7. ~IsNoise(l)
  BY <1>4, <1>6, RowIsNoNoise
<1>8. IsUpdate(l, offset) /\ Cells(l, offset) = row
  BY <1>3, <1>4, <1>6, RowIsRead
<1>9. nf + 2 + i \in DOMAIN text /\ nf + 2 + i > nf + 1
  <2>1. nf + 2 + i \in 1..(nf + n + 3) /\ nf + 2 + i > nf + 1
    BY <1>2
  <2>2. DOMAIN text = 1..(nf + n + 3)
    BY <1>2, LenProperties
  <2> QED
    BY <2>1, <2>2
<1>10. text[nf + 2 + i] = l
  BY <1>2, <1>5
<1> QED
  BY <1>1, <1>7, <1>8, <1>9, <1>10 DEF Behind

\* ... and nothing else but what trails, if that reaches the fourth column.
LEMMA OnlyRowsAreBehind ==
  ASSUME NEW o, IsOutput(o), NEW text, NEW nf, NEW n, IsText(text, o, nf, n),
         NEW b, b = Begins(o.rows), NEW offset, AreOffsets(offset, b),
         NEW i \in Behind(text, nf, offset)
  PROVE  \/ \E k \in 1..n : i = nf + 2 + k
         \/ i = nf + n + 3 /\ Len(o.trailer) > AvailableOffset(o.rows)
<1>1. PICK rows, t : rows = o.rows /\ t = o.trailer
  OBVIOUS
<1>2. /\ nf \in Nat /\ n \in Nat
      /\ text \in Seq(Seq(Char)) /\ Len(text) = nf + n + 3
      /\ text[nf + 2] = [k \in DOMAIN Header(rows) |-> "-"] /\ text[nf + n + 3] = t
  BY <1>1 DEF IsText
<1>3. rows \in Seq(Row) /\ b = Begins(rows) /\ t \in Seq(Char)
  BY <1>1 DEF IsOutput
<1>4. i \in 1..(nf + n + 3) /\ i > nf + 1 /\ IsUpdate(text[i], offset)
  <2>1. DOMAIN text = 1..(nf + n + 3)
    BY <1>2, LenProperties
  <2> QED
    BY <2>1 DEF Behind
<1>5. i # nf + 2
  <2> SUFFICES ASSUME i = nf + 2
               PROVE  FALSE
    OBVIOUS
  <2>1. ~IsUpdate(text[nf + 2], offset)
    BY <1>2, <1>3, DashesAreNone
  <2> QED
    BY <1>4, <2>1
<1>6. i = nf + n + 3 => Len(t) > AvailableOffset(rows)
  <2> SUFFICES ASSUME i = nf + n + 3, Len(t) <= AvailableOffset(rows)
               PROVE  FALSE
    <3>1. Len(t) \in Nat /\ AvailableOffset(rows) \in Nat
      <4>1. b[4] \in Nat /\ b[4] = AvailableOffset(rows)
        BY <1>3, ColumnsAreOrdered DEF Begins
      <4> QED
        BY <1>3, <4>1, LenProperties
    <3> QED
      BY <3>1
  <2>1. ~IsUpdate(t, offset)
    BY <1>3, TrailerIsNone
  <2> QED
    BY <1>2, <1>4, <2>1
<1>7. CASE i = nf + n + 3
  BY <1>1, <1>6, <1>7
<1>8. CASE i # nf + n + 3
  <2>1. i - (nf + 2) \in 1..n /\ i = nf + 2 + (i - (nf + 2))
    BY <1>2, <1>4, <1>5, <1>8
  <2> QED
    BY <2>1
<1> QED
  BY <1>7, <1>8

\* The parser undoes what winget prints, as far as it is readable.
ReadsBack(updates, rows, long) ==
  /\ \A i \in DOMAIN rows : Readable(rows[i]) => Contains(updates, rows[i])
  /\ ~long /\ (\A i \in DOMAIN rows : Readable(rows[i])) => updates = rows
  /\ Len(updates) <= Len(rows) + (IF long THEN 1 ELSE 0)

\* The parser reads the rows back.
LEMMA OutputIsReadBack ==
  ASSUME NEW o, IsOutput(o), NEW updates, updates = ParseWingetTable(WingetOutput(o)),
         NEW long \in BOOLEAN, long = (Len(o.trailer) > AvailableOffset(o.rows))
  PROVE  ReadsBack(updates, o.rows, long)
<1>1. PICK rows, text, b : rows = o.rows /\ text = FlattenSeq(WingetOutput(o)) /\ b = Begins(o.rows)
  OBVIOUS
<1>2. PICK nf, n : IsText(text, o, nf, n)
  BY <1>1, OutputIsText
<1>3. /\ nf \in Nat /\ n \in Nat /\ DOMAIN rows = 1..n
      /\ text \in Seq(Seq(Char)) /\ Len(text) = nf + n + 3
  BY <1>1, <1>2 DEF IsText
<1>4. rows \in Seq(Row) /\ Len(rows) = n
  <2>1. rows \in Seq(Row)
    BY <1>1 DEF IsOutput
  <2> QED
    BY <1>3, <2>1, LenProperties
<1>5. PICK offset, chosen : IsReadFrom(o, text, nf, b, offset, chosen)
  <2>1. \E offset, chosen : IsReadFrom(o, text, nf, b, offset, chosen)
    BY <1>1, <1>2, UpdatesAreListed
  <2> QED
    BY <2>1
<1>6. AreOffsets(offset, b) /\ updates = SeqMap(LAMBDA l : Cells(l, offset), chosen)
  BY <1>5 DEF IsReadFrom
<1>7. PICK K : K = Behind(text, nf, offset)
  OBVIOUS
<1>8. PICK g, m : Lists(g, m, K) /\ Holds(chosen, text, g, m)
  BY <1>5, <1>7 DEF IsReadFrom, AreListed
<1>9. K \in SUBSET (1..Len(text)) /\ K \in SUBSET Nat
  <2>1. DOMAIN text = 1..Len(text) /\ Len(text) \in Nat
    BY <1>3, LenProperties
  <2>2. K \in SUBSET (1..Len(text))
    BY <1>7, <2>1 DEF Behind
  <2> QED
    BY <2>1, <2>2
<1>10. m \in Nat /\ \A i \in K : \E k \in 1..m : g[k] = i
  BY <1>8 DEF Lists
<1>11. DOMAIN chosen = 1..m /\ \A k \in 1..m : chosen[k] = text[g[k]]
  <2>1. PICK S : S = Seq(Char)
    OBVIOUS
  <2>2. text \in Seq(S)
    BY <1>3, <2>1
  <2> QED
    BY <1>9, <1>8, <2>2, HoldsThere
<1>12. updates = [k \in 1..m |-> Cells(text[g[k]], offset)]
  <2>1. updates = [k \in DOMAIN chosen |-> Cells(chosen[k], offset)]
    BY <1>6 DEF SeqMap
  <2> QED
    BY <1>11, <2>1
<1>13. Len(updates) = m /\ \A k \in 1..m : updates[k] = Cells(text[g[k]], offset)
  BY <1>10, <1>12
<1>14. ASSUME NEW i \in 1..n, Readable(rows[i])
       PROVE  nf + 2 + i \in K /\ Cells(text[nf + 2 + i], offset) = rows[i]
  <2>1. Readable(o.rows[i])
    BY <1>1, <1>14
  <2>2. /\ nf + 2 + i \in Behind(text, nf, offset)
        /\ Cells(text[nf + 2 + i], offset) = o.rows[i]
    BY <1>1, <1>2, <1>6, <2>1, ReadableIsBehind
  <2> QED
    BY <1>1, <1>7, <2>2
<1>15. ASSUME NEW i \in 1..n, Readable(rows[i])
       PROVE  Contains(updates, rows[i])
  <2>1. PICK k \in 1..m : g[k] = nf + 2 + i
    BY <1>10, <1>14, <1>15
  <2>2. updates[k] = rows[i]
    BY <1>13, <1>14, <1>15, <2>1
  <2> QED
    BY <1>13, <2>2 DEF Contains
<1>16. \A i \in K : (\E k \in 1..n : i = nf + 2 + k) \/ (i = nf + n + 3 /\ long)
  <2> SUFFICES ASSUME NEW i \in K
               PROVE  (\E k \in 1..n : i = nf + 2 + k) \/ (i = nf + n + 3 /\ long)
    OBVIOUS
  <2>1. i \in Behind(text, nf, offset)
    BY <1>7
  <2>2. \/ \E k \in 1..n : i = nf + 2 + k
        \/ i = nf + n + 3 /\ Len(o.trailer) > AvailableOffset(o.rows)
    BY <1>1, <1>2, <1>6, <2>1, OnlyRowsAreBehind
  <2> QED
    BY <2>2
<1>17. PICK a \in Nat : a = nf + 2
  BY <1>3
<1>18. ASSUME ~long
       PROVE  K \in SUBSET ((a + 1)..(a + n))
  <2>1. \A k \in 1..n : nf + 2 + k \in (a + 1)..(a + n)
    BY <1>3, <1>17
  <2> QED
    BY <1>16, <1>18, <2>1
<1>19. ASSUME long
       PROVE  K \in SUBSET ((a + 1)..(a + (n + 1)))
  <2>1. \A k \in 1..n : nf + 2 + k \in (a + 1)..(a + (n + 1))
    BY <1>3, <1>17
  <2>2. nf + n + 3 \in (a + 1)..(a + (n + 1))
    BY <1>3, <1>17
  <2> QED
    BY <1>16, <2>1, <2>2
<1>20. Len(updates) <= Len(rows) + (IF long THEN 1 ELSE 0)
  <2>1. CASE long
    <3>1. n + 1 \in Nat
      BY <1>3
    <3>2. m <= n + 1
      BY <1>17, <1>19, <1>8, <2>1, <3>1, ListIsShort
    <3> QED
      BY <1>4, <1>13, <2>1, <3>2
  <2>2. CASE ~long
    <3>1. m <= n
      BY <1>3, <1>17, <1>18, <1>8, <2>2, ListIsShort
    <3>2. n + 0 = n
      BY <1>3
    <3> QED
      BY <1>4, <1>13, <2>2, <3>1, <3>2
  <2> QED
    BY <2>1, <2>2
<1>21. ASSUME ~long, \A i \in DOMAIN rows : Readable(rows[i])
       PROVE  updates = rows
  <2>1. \A i \in 1..n : nf + 2 + i \in K /\ Cells(text[nf + 2 + i], offset) = rows[i]
    BY <1>3, <1>14, <1>21
  <2>2. K = (a + 1)..(a + n)
    <3>1. \A j \in (a + 1)..(a + n) : j - a \in 1..n /\ nf + 2 + (j - a) = j
      BY <1>3, <1>17
    <3>2. \A j \in (a + 1)..(a + n) : j \in K
      BY <2>1, <3>1
    <3> QED
      BY <1>18, <1>21, <3>2
  <2>3. PICK h : h = [k \in 1..n |-> a + k]
    OBVIOUS
  <2>4. Lists(h, n, K)
    BY <1>3, <1>17, <2>2, <2>3, IntervalIsListed
  <2>5. m = n /\ \A k \in 1..m : g[k] = h[k]
    BY <1>9, <1>8, <2>4, ListIsUnique
  <2>6. \A k \in 1..n : g[k] = nf + 2 + k
    BY <1>17, <2>3, <2>5
  <2>7. \A k \in 1..n : updates[k] = rows[k]
    BY <1>13, <2>1, <2>5, <2>6
  <2>8. updates = [k \in 1..n |-> updates[k]]
    BY <1>12, <2>5
  <2>9. rows = [k \in 1..n |-> rows[k]]
    BY <1>3, <1>4
  <2> QED
    BY <2>7, <2>8, <2>9
<1> QED
  BY <1>1, <1>3, <1>15, <1>20, <1>21 DEF ReadsBack

\* What the machines of the model print is such an output.
LEMMA MachinePrints ==
  ASSUME NEW m \in Machine, m.winget # Failed
  PROVE  IsOutput(m.winget)
<1>1. PICK o : o = m.winget
  OBVIOUS
<1>2. /\ o.rows \in Seq([1..4 -> Seq(STRING)]) /\ o.trailer \in Seq(STRING)
      /\ o.frames \in Seq({l \in Seq(STRING) : ~IsHeader(l)})
  BY <1>1 DEF Machine
<1>3. [1..4 -> Seq(STRING)] \subseteq Row
  BY TextsAreOfChars DEF Row
<1>4. o.rows \in Seq(Row)
  <2>1. PICK R, S : R = [1..4 -> Seq(STRING)] /\ S = Row
    OBVIOUS
  <2>2. R \subseteq S /\ o.rows \in Seq(R)
    BY <1>2, <1>3, <2>1
  <2>3. o.rows \in Seq(S)
    BY <2>2, SeqMonotonic
  <2> QED
    BY <2>1, <2>3
<1>5. o.trailer \in Seq(Char)
  BY <1>2, TextsAreOfChars
<1>6. o.frames \in Seq(Seq(Char)) /\ \A i \in DOMAIN o.frames : ~IsHeader(o.frames[i])
  <2>1. PICK R, S : R = {l \in Seq(STRING) : ~IsHeader(l)} /\ S = Seq(Char)
    OBVIOUS
  <2>2. R \subseteq S /\ o.frames \in Seq(R)
    BY <1>2, <2>1, TextsAreOfChars
  <2>3. o.frames \in Seq(S)
    BY <2>2, SeqMonotonic
  <2>4. \A i \in DOMAIN o.frames : o.frames[i] \in R
    BY <2>2
  <2> QED
    BY <2>1, <2>3, <2>4
<1>7. IsOutput(o)
  BY <1>4, <1>5, <1>6 DEF IsOutput
<1> QED
  BY <1>1, <1>7

-----------------------------------------------------------------------------
(* One query that fails costs its own section *)

\* What the sections of a report say of the machine, by the stage collect is at.
Sections ==
  /\ machine \in Machine
  /\ {"found", "disks", "software", "warnings", "updates", "services", "startup", "connections"}
       \subseteq DOMAIN hardware
  /\ hardware.found
  /\ hardware.software = ReadSoftware(machine.hives)
  /\ hardware.warnings = HealthWarnings(machine.smart)
  /\ hardware.disks = Disks(machine.drives)
  /\ phase # "winget" => /\ hardware.startup = ReadStartupItems(machine.keys)
                          /\ hardware.updates = ReadWingetUpdates(machine.winget)
  /\ phase = "processes" => table = machine.conns
  /\ phase = "collected" /\ machine.conns # Failed =>
       hardware.connections = Connections(machine.conns, machine.procs)

\* Without COM or WMI collect is through at once.
SectionsInv ==
  /\ phase \in {"winget", "connections", "processes"} => Sections
  /\ InReport => Sections

LEMMA SectionsStep == SectionsInv /\ [Next]_vars => SectionsInv'
<1> SUFFICES ASSUME SectionsInv, [Next]_vars
             PROVE  SectionsInv'
  OBVIOUS
<1>1. ASSUME phase' \notin Reading
      PROVE  SectionsInv'
  BY <1>1 DEF SectionsInv, InReport, Reading
<1>2. ASSUME UNCHANGED <<phase, reading>>
      PROVE  SectionsInv'
  BY <1>2 DEF SectionsInv, InReport, Sections, reading
<1>3. CASE \E m \in Machines : ReadFirstSections(m)
  <2>1. PICK m \in Machines : ReadFirstSections(m)
    BY <1>3
  <2>2. /\ machine' = m /\ hardware' = FirstSections(m)
        /\ phase' = IF m.wmi THEN "winget" ELSE "collected"
    BY <2>1 DEF ReadFirstSections
  <2>3. m \in Machine
    BY MachinesAreTyped
  <2>4. CASE m.wmi
    <3>1. /\ {"found", "disks", "software", "warnings", "updates", "services", "startup",
              "connections"} \subseteq DOMAIN hardware'
          /\ hardware'.found /\ hardware'.software = ReadSoftware(m.hives)
          /\ hardware'.warnings = HealthWarnings(m.smart) /\ hardware'.disks = Disks(m.drives)
      BY <2>2, <2>4 DEF FirstSections, SeqMap, Disks
    <3>2. Sections'
      BY <2>2, <2>3, <2>4, <3>1 DEF Sections
    <3> QED
      BY <3>2 DEF SectionsInv
  <2>5. CASE ~m.wmi
    <3>1. phase' = "collected" /\ ~hardware'.found
      BY <2>2, <2>5 DEF FirstSections, NoInventory
    <3> QED
      BY <3>1 DEF SectionsInv, InReport
  <2> QED
    BY <2>4, <2>5
<1>4. CASE ReadUpdates
  <2>1. /\ phase = "winget" /\ phase' = "connections" /\ machine' = machine
        /\ hardware' = WithUpdates(hardware, machine)
    BY <1>4 DEF ReadUpdates
  <2>2. Sections
    BY <2>1 DEF SectionsInv
  <2>3. /\ DOMAIN hardware' = DOMAIN hardware
        /\ hardware'.found = hardware.found /\ hardware'.software = hardware.software
        /\ hardware'.warnings = hardware.warnings /\ hardware'.disks = hardware.disks
        /\ hardware'.startup = ReadStartupItems(machine.keys)
        /\ hardware'.updates = ReadWingetUpdates(machine.winget)
    BY <2>1, <2>2 DEF WithUpdates, Sections
  <2>4. Sections'
    BY <2>1, <2>2, <2>3 DEF Sections
  <2> QED
    BY <2>1, <2>4 DEF SectionsInv
<1>5. CASE ReadConnections
  <2>1. /\ phase = "connections" /\ UNCHANGED <<machine, hardware>> /\ table' = machine.conns
        /\ phase' = IF machine.conns = Failed THEN "collected" ELSE "processes"
    BY <1>5 DEF ReadConnections
  <2>2. Sections
    BY <2>1 DEF SectionsInv
  <2>3. Sections'
    BY <2>1, <2>2 DEF Sections
  <2> QED
    BY <2>1, <2>3 DEF SectionsInv, InReport
<1>6. CASE \E procs \in Processes : ProcessesChange(procs)
  <2>1. PICK procs \in Processes : ProcessesChange(procs)
    BY <1>6
  <2>2. /\ phase = "processes" /\ UNCHANGED <<phase, hardware, table>>
        /\ machine' = [machine EXCEPT !.procs = procs]
    BY <2>1 DEF ProcessesChange
  <2>3. Sections
    BY <2>2 DEF SectionsInv
  <2>4. procs \in Answer(Process)
    BY MachinesAreTyped DEF Answer
  <2>5. machine \in Machine
    BY <2>3 DEF Sections
  <2>6. machine' \in Machine
    BY <2>2, <2>4, <2>5 DEF Machine
  <2>7. /\ machine'.hives = machine.hives /\ machine'.smart = machine.smart
        /\ machine'.drives = machine.drives /\ machine'.keys = machine.keys
        /\ machine'.conns = machine.conns /\ machine'.winget = machine.winget
    BY <2>2, <2>5 DEF Machine
  <2>8. Sections'
    BY <2>2, <2>3, <2>6, <2>7 DEF Sections
  <2> QED
    BY <2>2, <2>8 DEF SectionsInv, InReport
<1>7. CASE ReadProcesses
  <2>1. /\ phase = "processes" /\ phase' = "collected" /\ UNCHANGED <<machine, table>>
        /\ hardware' = [hardware EXCEPT !.connections = Connections(table, machine.procs)]
    BY <1>7 DEF ReadProcesses
  <2>2. Sections
    BY <2>1 DEF SectionsInv
  <2>3. /\ DOMAIN hardware' = DOMAIN hardware
        /\ hardware'.found = hardware.found /\ hardware'.software = hardware.software
        /\ hardware'.warnings = hardware.warnings /\ hardware'.disks = hardware.disks
        /\ hardware'.startup = hardware.startup /\ hardware'.updates = hardware.updates
        /\ hardware'.connections = Connections(table, machine.procs)
    BY <2>1, <2>2 DEF Sections
  <2>4. Sections'
    BY <2>1, <2>2, <2>3 DEF Sections
  <2> QED
    BY <2>1, <2>4 DEF SectionsInv
<1>8. CASE SendReport \/ Loop \/ AgentStops \/ AgentStarts
  <2>1. phase' \notin Reading
    BY <1>8 DEF SendReport, Loop, StoreReport, PostReturns, PostFails, Sleep, WakeUp, AgentStops,
                AgentStarts, Reading
  <2> QED
    BY <1>1, <2>1
<1>9. CASE \/ Scan \/ Evaluate \/ EvaluationFails \/ ServerStops \/ ServerStarts \/ Wait
           \/ UNCHANGED vars
  <2>1. UNCHANGED <<phase, reading>>
    BY <1>9 DEF Scan, Evaluate, EvaluationFails, ServerStops, ServerStarts, Wait, vars
  <2> QED
    BY <1>2, <2>1
<1> QED
  BY <1>3, <1>4, <1>5, <1>6, <1>7, <1>8, <1>9 DEF Next, Collect

\* A report tells all that could be read, whichever other queries failed, in whatever
\* order processes came and went.
LEMMA SectionsAreComplete == SectionsInv => ReadableIsReported
<1> SUFFICES ASSUME Sections, phase = "collected"
             PROVE  /\ \A i \in DOMAIN machine.hives : machine.hives[i] # Failed =>
                         \A a \in ToSet(machine.hives[i]) : Shown(a) =>
                           Contains(hardware.software, [name |-> a.name, version |-> a.version])
                    /\ \A i \in DOMAIN machine.keys : machine.keys[i] # Failed =>
                         ToSet(machine.keys[i]) \subseteq ToSet(hardware.startup)
                    /\ \A r \in ToSet(Rows(machine.smart)) : r.predicts = {TRUE} /\ r.name # {} =>
                         Contains(hardware.warnings, Or(r.name, ""))
                    /\ machine.drives # Failed => Len(hardware.disks) = Len(machine.drives)
                    /\ machine.conns # Failed =>
                         \A c \in ToSet(machine.conns) : Lasting(c) =>
                           LET pid == Or(c.pid, 0)
                               owner == NameOf(pid, Rows(before))
                           IN  \E name \in {owner, NameOf(pid, Rows(machine.procs))} \cup {""} :
                                 /\ Contains(hardware.connections,
                                             [local |-> c.local, pid |-> pid, process |-> name])
                                 /\ owner = NameOf(pid, Rows(machine.procs)) => name = owner
  BY DEF SectionsInv, InReport, ReadableIsReported
<1>1. /\ machine.hives \in Seq(Answer(InstalledApp)) /\ machine.keys \in Seq(Answer(STRING))
      /\ machine.smart \in Answer(SmartStatus) /\ machine.drives \in Answer(Option(STRING))
      /\ machine.conns \in Answer(Connection)
  BY DEF Sections, Machine
<1>2. \A i \in DOMAIN machine.hives : machine.hives[i] # Failed =>
        \A a \in ToSet(machine.hives[i]) : Shown(a) =>
          Contains(hardware.software, [name |-> a.name, version |-> a.version])
  BY <1>1, SoftwareIsRead DEF Sections
<1>3. \A i \in DOMAIN machine.keys : machine.keys[i] # Failed =>
        ToSet(machine.keys[i]) \subseteq ToSet(hardware.startup)
  BY <1>1, StartupIsRead DEF Sections
<1>4. \A r \in ToSet(Rows(machine.smart)) : r.predicts = {TRUE} /\ r.name # {} =>
        Contains(hardware.warnings, Or(r.name, ""))
  BY <1>1, WarningsAreRead DEF Sections
<1>5. machine.drives # Failed => Len(hardware.disks) = Len(machine.drives)
  BY <1>1, DisksAreRead DEF Sections
<1>6. ASSUME machine.conns # Failed, NEW c \in ToSet(machine.conns), Lasting(c)
      PROVE  LET pid == Or(c.pid, 0)
                 name == NameOf(pid, Rows(machine.procs))
             IN  Contains(hardware.connections, [local |-> c.local, pid |-> pid, process |-> name])
  <2>1. hardware.connections = Connections(machine.conns, machine.procs)
    BY <1>6 DEF Sections
  <2>2. c \in ToSet(Rows(machine.conns))
    BY <1>6 DEF Rows
  <2> QED
    BY <1>1, <1>6, <2>1, <2>2, ConnectionsAreRead
<1> QED
  BY <1>2, <1>3, <1>4, <1>5, <1>6

\* One query that fails costs its own section and no other: whatever could be read of
\* software, autorun entries, warnings, disks and connections is in the report.
THEOREM WhatIsReadIsReported == Spec => []ReadableIsReported
<1>1. Init => SectionsInv
  BY DEF Init, SectionsInv, InReport
<1> QED
  BY <1>1, SectionsStep, SectionsAreComplete, PTL DEF Spec

\* The updates that are in a report are those of winget's table.
LEMMA UpdatesAreRead == SectionsInv => UpdatesAreRows
<1> SUFFICES ASSUME SectionsInv, InReport, machine.winget # Failed
             PROVE  LET rows == machine.winget.rows
                        long == Len(machine.winget.trailer) > AvailableOffset(rows)
                    IN  /\ \A i \in DOMAIN rows : Readable(rows[i]) => Contains(hardware.updates, rows[i])
                        /\ ~long /\ (\A i \in DOMAIN rows : Readable(rows[i])) => hardware.updates = rows
                        /\ Len(hardware.updates) <= Len(rows) + (IF long THEN 1 ELSE 0)
  BY DEF UpdatesAreRows
<1>1. Sections /\ phase = "collected"
  BY DEF SectionsInv, InReport
<1>2. PICK o : o = machine.winget
  OBVIOUS
<1>3. IsOutput(o)
  BY <1>1, <1>2, MachinePrints DEF Sections
<1>4. hardware.updates = ParseWingetTable(WingetOutput(o))
  BY <1>1, <1>2 DEF Sections, ReadWingetUpdates
<1>5. PICK long \in BOOLEAN : long = (Len(o.trailer) > AvailableOffset(o.rows))
  <2>1. (Len(o.trailer) > AvailableOffset(o.rows)) \in BOOLEAN
    OBVIOUS
  <2> QED
    BY <2>1
<1>6. ReadsBack(hardware.updates, o.rows, long)
  BY <1>3, <1>4, <1>5, OutputIsReadBack
<1> QED
  BY <1>2, <1>5, <1>6 DEF ReadsBack

\* Pending updates are those winget lists: each readable row with its own name and
\* versions, whatever is in the others, and nothing made up but what trails the table.
THEOREM UpdatesAreThoseListed == Spec => []UpdatesAreRows
<1>1. Init => SectionsInv
  BY DEF Init, SectionsInv, InReport
<1> QED
  BY <1>1, SectionsStep, UpdatesAreRead, PTL DEF Spec
=============================================================================
