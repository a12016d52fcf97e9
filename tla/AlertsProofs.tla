---------------------------- MODULE AlertsProofs ----------------------------
(***************************************************************************)
(* Proofs about Alerts, for any hosts, reports and bounds: types, and one  *)
(* open alert for each host and kind as long as a host has one source of   *)
(* reports.                                                                *)
(***************************************************************************)
EXTENDS Alerts, TLAPS, FiniteSetTheorems, FunctionTheorems, SequenceTheorems

\* No two sources report for the same host.
OneSource == \A v, w \in Reporters : ReporterHost[v] = ReporterHost[w] => v = w

Checks == [host : Hosts, kind : AlertKinds, level : Levels]

\* The checks a worker may have to do: a reporter those of its own host.
ChecksOf(w) == {c \in Checks : IF w = Monitor THEN c.kind = "offline"
                               ELSE c.host = ReporterHost[w] /\ c.kind \in Kinds}

\* A worker that has read is about to raise an alert; what it is about to
\* insert is not there.
FoundIsCurrent ==
  \A w \in Workers :
    /\ found[w] # Unread => todo[w] # <<>> /\ Head(todo[w]).level # "ok"
    /\ found[w] = NoRow => Matching(w) = {}

OwnChecks == \A w \in Workers : todo[w] \in Seq(ChecksOf(w))

AlertInv == TypeOK /\ OwnChecks /\ FoundIsCurrent /\ OneOpenAlert

-----------------------------------------------------------------------------
(* Thresholds *)

\* The thresholds of health and of evaluateAlerts, written down twice in the
\* code, agree: an endpoint's health is the worst level of its metrics.
THEOREM HealthIsWorstLevel ==
  \A report \in [cpu : Nat, mem : Nat, disk : Nat] :
    Health(report) = Worst({Level(report, k) : k \in Kinds})
<1> TAKE report \in [cpu : Nat, mem : Nat, disk : Nat]
<1> DEFINE L == {Level(report, k) : k \in Kinds}
           Reaches(level) == \/ MetricLevel(report.cpu, 90, 97) = level
                             \/ MetricLevel(report.mem, 90, 97) = level
                             \/ MetricLevel(report.disk, 85, 95) = level
<1>1. \A level : level \in L <=> Reaches(level)
  BY DEF Level, Kinds
<1>2. report.cpu \in Nat /\ report.mem \in Nat /\ report.disk \in Nat
  OBVIOUS
<1>3. Reaches("critical") <=> report.disk >= 95 \/ report.cpu >= 97 \/ report.mem >= 97
  BY <1>2 DEF MetricLevel
<1>4. ~Reaches("critical") =>
        (Reaches("warning") <=> report.disk >= 85 \/ report.cpu >= 90 \/ report.mem >= 90)
  BY <1>2, <1>3 DEF MetricLevel
<1> HIDE DEF L, Reaches
<1>5. Worst(L) = (IF Reaches("critical") THEN "critical"
                 ELSE IF Reaches("warning") THEN "warning" ELSE "ok")
  BY <1>1 DEF Worst
<1>6. Worst(L) = Health(report)
  BY <1>3, <1>4, <1>5 DEF Health
<1> QED BY <1>6 DEF L

LEMMA LevelType ==
  ASSUME NEW report \in Reports, NEW k \in Kinds
  PROVE  Level(report, k) \in Levels
BY DEF Level, MetricLevel, Levels, Kinds

-----------------------------------------------------------------------------
(* Sequences of checks *)

\* SetToSeq of a finite set of checks is a sequence of its elements.
LEMMA SetToSeqType ==
  ASSUME NEW S, IsFiniteSet(S)
  PROVE  SetToSeq(S) \in Seq(S)
<1>1. /\ Cardinality(S) \in Nat
      /\ ExistsBijection(1..Cardinality(S), S)
  BY FS_CardinalityType
<1>2. \E f \in [1..Cardinality(S) -> S] : IsInjective(f)
  BY <1>1 DEF ExistsBijection, Bijection, Injection
<1>3. SetToSeq(S) \in [1..Cardinality(S) -> S]
  BY <1>2 DEF SetToSeq
<1> QED BY <1>1, <1>3, SeqDef

\* The checks of a tick: one for each endpoint, so finitely many.
LEMMA TickChecksFinite ==
  ASSUME NEW S \in SUBSET Hosts, NEW f \in [Hosts -> Levels]
  PROVE  SetToSeq({Check(h, "offline", f[h]) : h \in S}) \in Seq(ChecksOf(Monitor))
<1> DEFINE T == {Check(h, "offline", f[h]) : h \in S}
           g == [c \in T |-> c.host]
<1>1. g \in Injection(T, Hosts)
  BY DEF Injection, IsInjective, Check
<1>2. IsFiniteSet(T)
  BY <1>1, HostsAreFinite, FS_Injection
<1>3. T \subseteq ChecksOf(Monitor)
  BY DEF ChecksOf, Check, Checks, AlertKinds
<1>4. SetToSeq(T) \in Seq(T)
  BY <1>2, SetToSeqType
<1> QED BY <1>3, <1>4, SeqMonotonic

\* What is known of the next check of a worker, and of the ones after it.
LEMMA NextCheck ==
  ASSUME AlertInv, NEW w \in Workers, todo[w] # <<>>
  PROVE  /\ Head(todo[w]) \in ChecksOf(w)
         /\ Tail(todo[w]) \in Seq(ChecksOf(w))
         /\ Head(todo[w]) \in Checks
         /\ Tail(todo[w]) \in Seq(Checks)
<1>1. todo[w] \in Seq(ChecksOf(w)) /\ todo[w] \in Seq(Checks)
  BY DEF AlertInv, OwnChecks, TypeOK, Checks
<1> QED BY <1>1, HeadTailProperties

\* Two workers never have the same condition to check next.
LEMMA KeysApart ==
  ASSUME AlertInv, OneSource, NEW v \in Workers, NEW w \in Workers, v # w,
         todo[v] # <<>>, todo[w] # <<>>
  PROVE  ~(Head(todo[v]).host = Head(todo[w]).host /\ Head(todo[v]).kind = Head(todo[w]).kind)
<1>1. Head(todo[v]) \in ChecksOf(v) /\ Head(todo[w]) \in ChecksOf(w)
  BY NextCheck
<1>2. CASE v = Monitor \/ w = Monitor
  BY <1>1, <1>2 DEF ChecksOf, Kinds
<1>3. CASE v # Monitor /\ w # Monitor
  BY <1>1, <1>3 DEF ChecksOf, OneSource, Workers
<1> QED BY <1>2, <1>3

\* A worker goes on to its next check; the others are not concerned.
LEMMA AdvanceStep ==
  ASSUME AlertInv, NEW w \in Workers, todo[w] # <<>>, Advance(w), lastId' \in Nat, lastId' >= lastId
  PROVE  /\ todo' \in [Workers -> Seq(Checks)]
         /\ OwnChecks'
         /\ found' \in [Workers -> {Unread, NoRow} \cup [id : 1..lastId', count : 1..MaxCount]]
         /\ found'[w] = Unread
         /\ \A v \in Workers : v # w => todo'[v] = todo[v] /\ found'[v] = found[v]
<1> USE DEF Advance, AlertInv, TypeOK, Checks
<1>1. Tail(todo[w]) \in Seq(ChecksOf(w)) /\ Tail(todo[w]) \in Seq(Checks)
  BY NextCheck
<1>2. todo' \in [Workers -> Seq(Checks)]
  BY <1>1
<1>3. OwnChecks'
  BY <1>1 DEF OwnChecks, ChecksOf
<1>4. 1..lastId \subseteq 1..lastId'
  OBVIOUS
<1>5. found' \in [Workers -> {Unread, NoRow} \cup [id : 1..lastId', count : 1..MaxCount]]
  BY <1>4
<1> QED BY <1>2, <1>3, <1>5

\* A step that resets what w has found, and leaves the others their checks and
\* no alert where they saw none.
LEMMA OthersStayCurrent ==
  ASSUME FoundIsCurrent, NEW w \in Workers, found'[w] = Unread,
         \A v \in Workers : v # w => todo'[v] = todo[v] /\ found'[v] = found[v],
         \A v \in Workers : v # w /\ found[v] = NoRow => Matching(v)' = {}
  PROVE  FoundIsCurrent'
<1> SUFFICES ASSUME NEW v \in Workers
             PROVE  /\ found'[v] # Unread => todo'[v] # <<>> /\ Head(todo'[v]).level # "ok"
                    /\ found'[v] = NoRow => Matching(v)' = {}
  BY DEF FoundIsCurrent, Unread, NoRow, Matching
<1>1. CASE v = w
  BY <1>1 DEF Unread, NoRow
<1>2. CASE v # w
  BY <1>2 DEF FoundIsCurrent
<1> QED BY <1>1, <1>2

-----------------------------------------------------------------------------
(* The invariant *)

LEMMA AlertInitInv == Init => AlertInv
<1> SUFFICES ASSUME Init PROVE AlertInv
  OBVIOUS
<1> USE DEF Init
<1>1. \A S : <<>> \in Seq(S)
  BY EmptySeq
<1>2. TypeOK
  BY <1>1, BoundsAreNat DEF TypeOK, NoReport, Unread, NoRow
<1>3. OwnChecks
  BY <1>1 DEF OwnChecks
<1>4. FoundIsCurrent
  BY DEF FoundIsCurrent, Unread, NoRow
<1> QED BY <1>2, <1>3, <1>4 DEF AlertInv, OneOpenAlert

LEMMA StoreReportInv ==
  ASSUME AlertInv, NEW w \in Reporters, NEW report \in Reports, StoreReport(w, report)
  PROVE  AlertInv'
<1> USE DEF StoreReport
<1> DEFINE h == ReporterHost[w]
           new == <<Check(h, "cpu", Level(report, "cpu")), Check(h, "mem", Level(report, "mem")),
                    Check(h, "disk", Level(report, "disk"))>>
<1>1. w \in Workers /\ w # Monitor /\ h \in Hosts
  BY MonitorIsNoReporter, ReporterHostIsHost DEF Workers
<1>2. new \in Seq(ChecksOf(w)) /\ new \in Seq(Checks)
  <2>1. \A k \in Kinds : Check(h, k, Level(report, k)) \in ChecksOf(w)
    BY <1>1, LevelType DEF ChecksOf, Check, Checks, AlertKinds
  <2>2. ChecksOf(w) \subseteq Checks
    BY DEF ChecksOf
  <2> QED BY <2>1, <2>2 DEF Kinds
<1>3. TypeOK'
  <2>1. todo' \in [Workers -> Seq(Checks)]
    BY <1>2 DEF AlertInv, TypeOK, Checks
  <2>2. latest' \in [Hosts -> Reports \cup {NoReport}] /\ silent' \in [Hosts -> BOOLEAN]
        /\ missed' \in [Hosts -> BOOLEAN]
    BY DEF AlertInv, TypeOK
  <2>3. streak' \in [Hosts -> [Kinds -> 0..MaxCount]]
    <3>1. \A n \in 0..MaxCount : Capped(n + 1) \in 0..MaxCount
      BY BoundsAreNat DEF Capped
    <3>2. 0 \in 0..MaxCount
      BY BoundsAreNat
    <3>3. [k \in Kinds |-> IF Level(report, k) = "ok" THEN 0 ELSE Capped(streak[h][k] + 1)]
            \in [Kinds -> 0..MaxCount]
      BY <1>1, <3>1, <3>2 DEF AlertInv, TypeOK
    <3> QED BY <3>3, <1>1 DEF AlertInv, TypeOK
  <2>4. reports' \in 0..MaxReports
    BY BoundsAreNat DEF AlertInv, TypeOK
  <2> QED BY <2>1, <2>2, <2>3, <2>4 DEF AlertInv, TypeOK, Checks
<1>4. OwnChecks'
  BY <1>1, <1>2 DEF AlertInv, TypeOK, OwnChecks, ChecksOf
<1>5. FoundIsCurrent'
  <2>1. found[w] = Unread
    BY <1>1 DEF AlertInv, FoundIsCurrent
  <2>2. ASSUME NEW v \in Workers, v # w PROVE todo'[v] = todo[v]
    BY <2>2 DEF AlertInv, TypeOK
  <2>3. ASSUME NEW v \in Workers, v # w PROVE Matching(v)' = Matching(v)
    BY <2>2, <2>3 DEF Matching, OpenAlerts
  <2> QED BY <2>1, <2>2, <2>3 DEF AlertInv, FoundIsCurrent, Unread, NoRow
<1> QED BY <1>3, <1>4, <1>5 DEF AlertInv, OneOpenAlert

LEMMA TickInv ==
  ASSUME AlertInv, Tick
  PROVE  AlertInv'
<1> USE DEF Tick
<1> DEFINE f == [h \in Hosts |-> IF silent[h] THEN "critical" ELSE "ok"]
           new == SetToSeq({Check(h, "offline", IF silent[h] THEN "critical" ELSE "ok") : h \in Seen})
<1>1. Monitor \in Workers
  BY DEF Workers
<1>2. new \in Seq(ChecksOf(Monitor))
  <2>1. f \in [Hosts -> Levels] /\ Seen \in SUBSET Hosts
    BY DEF Levels, Seen
  <2>2. {Check(h, "offline", IF silent[h] THEN "critical" ELSE "ok") : h \in Seen}
          = {Check(h, "offline", f[h]) : h \in Seen}
    BY DEF Seen
  <2> HIDE DEF f
  <2> QED BY <2>1, <2>2, TickChecksFinite
<1>3. new \in Seq(Checks)
  BY <1>2, SeqMonotonic DEF ChecksOf
<1> HIDE DEF new
<1>4. todo' = [todo EXCEPT ![Monitor] = new]
  BY DEF new
<1>5. TypeOK'
  <2>1. todo' \in [Workers -> Seq(Checks)]
    BY <1>3, <1>4 DEF AlertInv, TypeOK, Checks
  <2> QED BY <2>1 DEF AlertInv, TypeOK, Checks
<1>6. OwnChecks'
  BY <1>2, <1>4 DEF AlertInv, TypeOK, OwnChecks, ChecksOf
<1>7. FoundIsCurrent'
  <2>1. found[Monitor] = Unread
    BY <1>1 DEF AlertInv, FoundIsCurrent
  <2>2. ASSUME NEW v \in Workers, v # Monitor PROVE todo'[v] = todo[v]
    BY <2>2, <1>4 DEF AlertInv, TypeOK
  <2>3. ASSUME NEW v \in Workers, v # Monitor PROVE Matching(v)' = Matching(v)
    BY <2>2, <2>3 DEF Matching, OpenAlerts
  <2> QED BY <2>1, <2>2, <2>3 DEF AlertInv, FoundIsCurrent, Unread, NoRow
<1> QED BY <1>5, <1>6, <1>7 DEF AlertInv, OneOpenAlert

LEMMA ResolveAlertInv ==
  ASSUME AlertInv, NEW w \in Workers, ResolveAlert(w)
  PROVE  AlertInv'
<1> USE DEF ResolveAlert
<1>1. lastId' \in Nat /\ lastId' >= lastId /\ todo[w] # <<>> /\ Advance(w)
  BY DEF AlertInv, TypeOK
<1>2. /\ todo' \in [Workers -> Seq(Checks)]
      /\ OwnChecks'
      /\ found' \in [Workers -> {Unread, NoRow} \cup [id : 1..lastId', count : 1..MaxCount]]
      /\ found'[w] = Unread
      /\ \A v \in Workers : v # w => todo'[v] = todo[v] /\ found'[v] = found[v]
  BY <1>1, AdvanceStep
<1>3. TypeOK'
  BY <1>2 DEF AlertInv, TypeOK, Checks
<1>4. FoundIsCurrent'
  <2>1. ASSUME NEW v \in Workers, v # w PROVE Matching(v)' \subseteq Matching(v)
    BY <1>2, <2>1 DEF Matching, OpenAlerts
  <2>2. FoundIsCurrent /\ \A v \in Workers : found[v] = NoRow => Matching(v) = {}
    BY DEF AlertInv, FoundIsCurrent
  <2> HIDE DEF ResolveAlert
  <2> QED BY <1>2, <2>1, <2>2, OthersStayCurrent
<1>5. OneOpenAlert'
  BY DEF AlertInv, OneOpenAlert
<1> QED BY <1>2, <1>3, <1>4, <1>5 DEF AlertInv

LEMMA SelectAlertInv ==
  ASSUME AlertInv, NEW w \in Workers, SelectAlert(w)
  PROVE  AlertInv'
<1> USE DEF SelectAlert
<1>1. Matching(w) \subseteq open
  BY DEF Matching, OpenAlerts
<1>2. \A r \in open : r \in [id : 1..lastId, host : Hosts, kind : AlertKinds,
                             severity : Levels \ {"ok"}, count : 1..MaxCount]
  BY DEF AlertInv, TypeOK
<1>3. \A r \in open : [id |-> r.id, count |-> r.count] \in [id : 1..lastId, count : 1..MaxCount]
  BY <1>2
<1>4. found' \in [Workers -> {Unread, NoRow} \cup [id : 1..lastId, count : 1..MaxCount]]
  <2>1. found \in [Workers -> {Unread, NoRow} \cup [id : 1..lastId, count : 1..MaxCount]]
    BY DEF AlertInv, TypeOK
  <2>2. CASE Matching(w) = {}
    BY <2>1, <2>2
  <2>3. CASE Matching(w) # {}
    BY <2>1, <2>3, <1>1, <1>3
  <2> QED BY <2>2, <2>3
<1>5. TypeOK'
  BY <1>4 DEF AlertInv, TypeOK
<1>6. /\ \A v \in Workers : v # w => found'[v] = found[v]
      /\ found'[w] = NoRow => Matching(w) = {}
  <2>1. DOMAIN found = Workers
    BY DEF AlertInv, TypeOK
  <2>2. \A r \in open : [id |-> r.id, count |-> r.count] # NoRow
    BY <1>2 DEF NoRow
  <2> QED BY <1>1, <2>1, <2>2
<1>7. FoundIsCurrent'
  <2>1. ASSUME NEW v \in Workers PROVE Matching(v)' = Matching(v)
    BY DEF Matching, OpenAlerts
  <2>2. FoundIsCurrent
    BY DEF AlertInv
  <2> QED BY <1>6, <2>1, <2>2 DEF FoundIsCurrent
<1> QED BY <1>5, <1>7 DEF AlertInv, OwnChecks, ChecksOf, OneOpenAlert

LEMMA InsertAlertInv ==
  ASSUME AlertInv, OneSource, NEW w \in Workers, InsertAlert(w)
  PROVE  AlertInv'
<1> USE DEF InsertAlert
<1>1. lastId' \in Nat /\ lastId' >= lastId /\ Advance(w) /\ lastId' = lastId + 1
  BY DEF AlertInv, TypeOK
<1>2. todo[w] # <<>> /\ Head(todo[w]).level # "ok" /\ Matching(w) = {}
  BY DEF AlertInv, FoundIsCurrent, Unread, NoRow
<1>3. /\ todo' \in [Workers -> Seq(Checks)]
      /\ OwnChecks'
      /\ found' \in [Workers -> {Unread, NoRow} \cup [id : 1..lastId', count : 1..MaxCount]]
      /\ found'[w] = Unread
      /\ \A v \in Workers : v # w => todo'[v] = todo[v] /\ found'[v] = found[v]
  BY <1>1, <1>2, AdvanceStep
<1>4. /\ NewAlert(w).host = Head(todo[w]).host
      /\ NewAlert(w).kind = Head(todo[w]).kind
      /\ NewAlert(w) \in [id : 1..lastId', host : Hosts, kind : AlertKinds,
                          severity : Levels \ {"ok"}, count : 1..MaxCount]
  <2>1. Head(todo[w]) \in Checks
    BY <1>2, NextCheck
  <2>2. lastId + 1 \in 1..lastId' /\ 1 \in 1..MaxCount
    BY <1>1, BoundsAreNat DEF AlertInv, TypeOK
  <2> QED BY <1>2, <2>1, <2>2 DEF NewAlert, Checks
<1>5. TypeOK'
  <2>1. \A r \in open' : r \in [id : 1..lastId', host : Hosts, kind : AlertKinds,
                                severity : Levels \ {"ok"}, count : 1..MaxCount]
    <3>1. 1..lastId \subseteq 1..lastId'
      BY <1>1 DEF AlertInv, TypeOK
    <3>2. \A r \in open : r \in [id : 1..lastId, host : Hosts, kind : AlertKinds,
                                 severity : Levels \ {"ok"}, count : 1..MaxCount]
      BY DEF AlertInv, TypeOK
    <3>3. \A r \in open : r \in [id : 1..lastId', host : Hosts, kind : AlertKinds,
                                 severity : Levels \ {"ok"}, count : 1..MaxCount]
      BY <3>1, <3>2
    <3> QED BY <1>4, <3>3
  <2> QED BY <1>1, <1>3, <2>1 DEF AlertInv, TypeOK, Checks
<1>6. FoundIsCurrent'
  <2>1. ASSUME NEW v \in Workers, v # w, found[v] = NoRow PROVE Matching(v)' = {}
    <3>1. todo[v] # <<>> /\ Matching(v) = {}
      BY <2>1 DEF AlertInv, FoundIsCurrent, Unread, NoRow
    <3>2. ~(Head(todo[v]).host = Head(todo[w]).host /\ Head(todo[v]).kind = Head(todo[w]).kind)
      BY <1>2, <2>1, <3>1, KeysApart
    <3>3. todo'[v] = todo[v]
      BY <1>3, <2>1
    <3> QED BY <1>4, <3>1, <3>2, <3>3 DEF Matching, OpenAlerts
  <2>2. FoundIsCurrent
    BY DEF AlertInv
  <2> HIDE DEF InsertAlert
  <2> QED BY <1>3, <2>1, <2>2, OthersStayCurrent
<1>7. OneOpenAlert'
  <2>1. \A r \in open : ~(r.host = NewAlert(w).host /\ r.kind = NewAlert(w).kind)
    BY <1>2, <1>4 DEF Matching, OpenAlerts
  <2>2. open' = open \cup {NewAlert(w)}
    OBVIOUS
  <2> HIDE DEF InsertAlert
  <2> QED BY <2>1, <2>2 DEF AlertInv, OneOpenAlert
<1> QED BY <1>3, <1>5, <1>6, <1>7 DEF AlertInv

LEMMA UpdateAlertInv ==
  ASSUME AlertInv, NEW w \in Workers, UpdateAlert(w)
  PROVE  AlertInv'
<1> USE DEF UpdateAlert
<1>1. lastId' \in Nat /\ lastId' >= lastId /\ lastId' = lastId /\ Advance(w)
  BY DEF AlertInv, TypeOK
<1>2. todo[w] # <<>> /\ Head(todo[w]).level # "ok"
  BY DEF AlertInv, FoundIsCurrent
<1>3. /\ todo' \in [Workers -> Seq(Checks)]
      /\ OwnChecks'
      /\ found' \in [Workers -> {Unread, NoRow} \cup [id : 1..lastId', count : 1..MaxCount]]
      /\ found'[w] = Unread
      /\ \A v \in Workers : v # w => todo'[v] = todo[v] /\ found'[v] = found[v]
  BY <1>1, <1>2, AdvanceStep
<1> DEFINE Row == [id : 1..lastId, host : Hosts, kind : AlertKinds,
                   severity : Levels \ {"ok"}, count : 1..MaxCount]
<1>4. \A r \in open : r \in Row
  BY DEF AlertInv, TypeOK
<1>5. \A r \in Row : /\ Updated(w, r) \in Row
                     /\ Updated(w, r).host = r.host
                     /\ Updated(w, r).kind = r.kind
  <2>1. Head(todo[w]).level \in Levels \ {"ok"}
    BY <1>2, NextCheck DEF Checks
  <2>2. found[w] \in [id : 1..lastId, count : 1..MaxCount]
    BY DEF AlertInv, TypeOK
  <2>3. Capped(found[w].count + 1) \in 1..MaxCount
    BY <2>2, BoundsAreNat DEF Capped
  <2> QED BY <2>1, <2>3 DEF Updated
<1>6. open' = {IF r.id = found[w].id THEN Updated(w, r) ELSE r : r \in open}
  OBVIOUS
<1>7. TypeOK'
  <2>1. \A r \in open' : r \in Row
    BY <1>4, <1>5, <1>6
  <2> QED BY <1>1, <1>3, <2>1 DEF AlertInv, TypeOK, Checks
<1>8. FoundIsCurrent'
  <2>1. ASSUME NEW v \in Workers, v # w, Matching(v) = {} PROVE Matching(v)' = {}
    <3>1. todo'[v] = todo[v]
      BY <1>3, <2>1
    <3>2. \A r \in open : ~(r.host = Head(todo[v]).host /\ r.kind = Head(todo[v]).kind)
      BY <2>1 DEF Matching, OpenAlerts
    <3>3. \A r \in open' : ~(r.host = Head(todo[v]).host /\ r.kind = Head(todo[v]).kind)
      BY <1>4, <1>5, <1>6, <3>2
    <3> QED BY <3>1, <3>3 DEF Matching, OpenAlerts
  <2>2. FoundIsCurrent /\ \A v \in Workers : found[v] = NoRow => Matching(v) = {}
    BY DEF AlertInv, FoundIsCurrent
  <2> HIDE DEF UpdateAlert
  <2> QED BY <1>3, <2>1, <2>2, OthersStayCurrent
<1>9. OneOpenAlert'
  <2>1. OneOpenAlert
    BY DEF AlertInv
  <2> HIDE DEF UpdateAlert
  <2> QED BY <1>4, <1>5, <1>6, <2>1 DEF OneOpenAlert
<1> QED BY <1>3, <1>7, <1>8, <1>9 DEF AlertInv

LEMMA StatementFailsInv ==
  ASSUME AlertInv, NEW w \in Workers, StatementFails(w)
  PROVE  AlertInv'
<1> USE DEF StatementFails
<1>1. \A S : <<>> \in Seq(S)
  BY EmptySeq
<1>2. TypeOK'
  <2>1. missed' \in [Hosts -> BOOLEAN]
    <3>1. \A h \in Hosts : missed[h] \in BOOLEAN
      BY DEF AlertInv, TypeOK
    <3> QED BY <3>1
  <2>2. todo' \in [Workers -> Seq([host : Hosts, kind : AlertKinds, level : Levels])]
    BY <1>1 DEF AlertInv, TypeOK
  <2>3. found' \in [Workers -> {Unread, NoRow} \cup [id : 1..lastId, count : 1..MaxCount]]
    BY DEF AlertInv, TypeOK
  <2>4. failures' \in 0..MaxFailures
    BY BoundsAreNat DEF AlertInv, TypeOK
  <2> QED BY <2>1, <2>2, <2>3, <2>4 DEF AlertInv, TypeOK
<1>3. OwnChecks'
  BY <1>1 DEF AlertInv, TypeOK, OwnChecks, ChecksOf
<1>4. FoundIsCurrent'
  <2>1. ASSUME NEW v \in Workers, v # w
        PROVE  todo'[v] = todo[v] /\ found'[v] = found[v] /\ Matching(v)' = Matching(v)
    BY <2>1 DEF AlertInv, TypeOK, Matching, OpenAlerts
  <2>2. found'[w] = Unread
    BY DEF AlertInv, TypeOK
  <2>3. FoundIsCurrent /\ \A v \in Workers : found[v] = NoRow => Matching(v) = {}
    BY DEF AlertInv, FoundIsCurrent
  <2> HIDE DEF StatementFails
  <2> QED BY <2>1, <2>2, <2>3, OthersStayCurrent
<1> QED BY <1>2, <1>3, <1>4 DEF AlertInv, OneOpenAlert

\* Every step keeps the invariant, if a host has one source of reports.
LEMMA AlertNextInv ==
  ASSUME AlertInv, OneSource, [Next]_vars
  PROVE  AlertInv'
<1>1. ASSUME NEW w \in Reporters, NEW report \in Reports, StoreReport(w, report) PROVE AlertInv'
  BY <1>1, StoreReportInv
<1>2. CASE Tick
  BY <1>2, TickInv
<1>3. ASSUME NEW w \in Workers, Statement(w) PROVE AlertInv'
  BY <1>3, ResolveAlertInv, SelectAlertInv, InsertAlertInv, UpdateAlertInv DEF Statement
<1>4. ASSUME NEW w \in Workers, StatementFails(w) PROVE AlertInv'
  BY <1>4, StatementFailsInv
<1>5. ASSUME NEW h \in Hosts, GoSilent(h) PROVE AlertInv'
  BY <1>5 DEF GoSilent, AlertInv, TypeOK, OwnChecks, ChecksOf, FoundIsCurrent, Matching, OpenAlerts,
     OneOpenAlert
<1>6. CASE UNCHANGED vars
  BY <1>6 DEF vars, AlertInv, TypeOK, OwnChecks, ChecksOf, FoundIsCurrent, Matching, OpenAlerts,
     OneOpenAlert
<1> QED BY <1>1, <1>2, <1>3, <1>4, <1>5, <1>6 DEF Next

LEMMA AlertInvariant ==
  ASSUME OneSource
  PROVE  Spec => []AlertInv
<1>1. AlertInv /\ [Next]_vars => AlertInv'
  BY AlertNextInv
<1> QED BY <1>1, AlertInitInv, PTL DEF Spec

\* The variables keep their types.
THEOREM AlertsTypeCorrect ==
  ASSUME OneSource
  PROVE  Spec => []TypeOK
<1>1. AlertInv => TypeOK
  BY DEF AlertInv
<1> QED BY <1>1, AlertInvariant, PTL

\* If every host has one source of reports, raiseAlert keeps one open alert for
\* each host and kind, although its SELECT and its INSERT are no transaction.
THEOREM OneTicketPerCondition ==
  ASSUME OneSource
  PROVE  Spec => []OneOpenAlert
<1>1. AlertInv => OneOpenAlert
  BY DEF AlertInv
<1> QED BY <1>1, AlertInvariant, PTL

-----------------------------------------------------------------------------
(* What the tickets of an endpoint say *)

Severities(h, k) == {r.severity : r \in OpenAlerts(h, k)}

KindsLeft(w) == {todo[w][i].kind : i \in 1..Len(todo[w])}

IdsUnique == \A r, s \in open : r.id = s.id => r = s

\* The row a worker is about to update is there and has the key it looked for.
FoundIsOpen ==
  \A w \in Workers : found[w] \notin {Unread, NoRow} =>
    \E r \in Matching(w) : r.id = found[w].id

\* A reporter checks each metric of its last report at most once.
ChecksAreCurrent ==
  \A w \in Reporters :
    /\ \A i \in 1..Len(todo[w]) :
         todo[w][i].level = Level(latest[ReporterHost[w]], todo[w][i].kind)
    /\ \A i, j \in 1..Len(todo[w]) : todo[w][i].kind = todo[w][j].kind => i = j

\* A metric that is not to be checked any more has the ticket it should have.
CheckedMatch ==
  \A h \in Hosts, k \in Kinds :
    ~missed[h] /\ (\A w \in Reporters : ReporterHost[w] = h => k \notin KindsLeft(w))
      => Severities(h, k) = {Level(latest[h], k)} \ {"ok"}

MatchInv == AlertInv /\ IdsUnique /\ FoundIsOpen /\ ChecksAreCurrent /\ CheckedMatch

\* The tickets of the key c of a check of w are resolved, raised or updated.
TicketWritten(w, c) ==
  \/ c.level = "ok" /\ OpenAlerts(c.host, c.kind)' = {}
  \/ c.level # "ok" /\ OpenAlerts(c.host, c.kind) = {} /\ OpenAlerts(c.host, c.kind)' = {NewAlert(w)}
  \/ /\ c.level # "ok" /\ found[w] \notin {Unread, NoRow}
     /\ \E q \in OpenAlerts(c.host, c.kind) :
          q.id = found[w].id /\ OpenAlerts(c.host, c.kind)' = {Updated(w, q)}

\* The effect of a statement that writes: the tickets of the key that is checked
\* become what the check says, all others stay.
LEMMA WriteEffect ==
  ASSUME MatchInv, NEW w \in Workers, ResolveAlert(w) \/ InsertAlert(w) \/ UpdateAlert(w),
         NEW c, c = Head(todo[w])
  PROVE  /\ todo[w] # <<>> /\ Advance(w) /\ latest' = latest /\ missed' = missed
         /\ \A h \in Hosts, k \in AlertKinds : ~(h = c.host /\ k = c.kind) =>
              OpenAlerts(h, k)' = OpenAlerts(h, k)
         /\ Severities(c.host, c.kind)' = {c.level} \ {"ok"}
         /\ IdsUnique'
         /\ TicketWritten(w, c)
<1>1. /\ FoundIsCurrent /\ OneOpenAlert /\ IdsUnique /\ FoundIsOpen
      /\ lastId \in Nat /\ \A r \in open : r.id \in 1..lastId
  BY DEF MatchInv, AlertInv, TypeOK
<1>2. CASE ResolveAlert(w)
  <2>1. /\ todo[w] # <<>> /\ Advance(w) /\ latest' = latest /\ missed' = missed
        /\ c.level = "ok" /\ open' = open \ OpenAlerts(c.host, c.kind)
    BY <1>2 DEF ResolveAlert, Matching
  <2>2. \A h \in Hosts, k \in AlertKinds : ~(h = c.host /\ k = c.kind) =>
          OpenAlerts(h, k)' = OpenAlerts(h, k)
    BY <2>1 DEF OpenAlerts
  <2>3. OpenAlerts(c.host, c.kind)' = {}
    BY <2>1 DEF OpenAlerts
  <2>4. Severities(c.host, c.kind)' = {c.level} \ {"ok"} /\ IdsUnique'
    BY <1>1, <2>1, <2>3 DEF Severities, IdsUnique
  <2> QED BY <2>1, <2>2, <2>3, <2>4 DEF TicketWritten
<1>3. CASE InsertAlert(w)
  <2> DEFINE n == NewAlert(w)
  <2>1. /\ todo[w] # <<>> /\ Advance(w) /\ latest' = latest /\ missed' = missed
        /\ c.level # "ok" /\ open' = open \cup {n} /\ OpenAlerts(c.host, c.kind) = {}
    BY <1>1, <1>3 DEF InsertAlert, FoundIsCurrent, Unread, NoRow, Matching
  <2>2. n.id = lastId + 1 /\ n.host = c.host /\ n.kind = c.kind /\ n.severity = c.level
    BY DEF NewAlert
  <2> HIDE DEF n
  <2>3. \A h \in Hosts, k \in AlertKinds : ~(h = c.host /\ k = c.kind) =>
          OpenAlerts(h, k)' = OpenAlerts(h, k)
    BY <2>1, <2>2 DEF OpenAlerts
  <2>4. OpenAlerts(c.host, c.kind)' = {n}
    BY <2>1, <2>2 DEF OpenAlerts
  <2>5. IdsUnique'
    <3>1. \A r \in open : r.id # n.id
      BY <1>1, <2>2
    <3> QED BY <1>1, <2>1, <3>1 DEF IdsUnique
  <2>6. Severities(c.host, c.kind)' = {c.level} \ {"ok"}
    BY <2>1, <2>2, <2>4 DEF Severities
  <2> QED BY <2>1, <2>3, <2>4, <2>5, <2>6 DEF TicketWritten, n
<1>4. CASE UpdateAlert(w)
  <2> DEFINE u(r) == IF r.id = found[w].id THEN Updated(w, r) ELSE r
  <2>1. /\ todo[w] # <<>> /\ Advance(w) /\ latest' = latest /\ missed' = missed
        /\ c.level # "ok" /\ open' = {u(r) : r \in open}
    BY <1>1, <1>4 DEF UpdateAlert, FoundIsCurrent
  <2>2. PICK q \in OpenAlerts(c.host, c.kind) : q.id = found[w].id
    BY <1>1, <1>4 DEF UpdateAlert, FoundIsOpen, Matching
  <2>3. q \in open /\ q.host = c.host /\ q.kind = c.kind
    BY <2>2 DEF OpenAlerts
  <2>4. \A r \in open : u(r) = IF r = q THEN Updated(w, q) ELSE r
    BY <1>1, <2>2, <2>3 DEF IdsUnique
  <2>5. /\ Updated(w, q).id = q.id /\ Updated(w, q).host = q.host
        /\ Updated(w, q).kind = q.kind /\ Updated(w, q).severity = c.level
    <3>1. q \in [id : 1..lastId, host : Hosts, kind : AlertKinds,
                 severity : Levels \ {"ok"}, count : 1..MaxCount]
      BY <2>3 DEF MatchInv, AlertInv, TypeOK
    <3> QED BY <3>1 DEF Updated
  <2>6. open' = (open \ {q}) \cup {Updated(w, q)}
    BY <2>1, <2>3, <2>4
  <2> HIDE DEF u
  <2>7. \A h \in Hosts, k \in AlertKinds : ~(h = c.host /\ k = c.kind) =>
          OpenAlerts(h, k)' = OpenAlerts(h, k)
    BY <2>3, <2>5, <2>6 DEF OpenAlerts
  <2>8. OpenAlerts(c.host, c.kind)' = {Updated(w, q)}
    BY <1>1, <2>3, <2>5, <2>6 DEF OpenAlerts, OneOpenAlert
  <2>9. IdsUnique'
    BY <1>1, <2>3, <2>5, <2>6 DEF IdsUnique
  <2>10. Severities(c.host, c.kind)' = {c.level} \ {"ok"}
    BY <2>1, <2>5, <2>8 DEF Severities
  <2>11. found[w] \notin {Unread, NoRow}
    BY <1>4 DEF UpdateAlert
  <2> QED BY <2>1, <2>2, <2>7, <2>8, <2>9, <2>10, <2>11 DEF TicketWritten
<1> QED BY <1>2, <1>3, <1>4

\* The kinds left after the first check is done.
LEMMA KindsLeftAfter ==
  ASSUME AlertInv, NEW w \in Workers, todo[w] # <<>>, todo'[w] = Tail(todo[w])
  PROVE  /\ \A i \in 1..Len(todo[w])' : i + 1 \in 1..Len(todo[w]) /\ todo'[w][i] = todo[w][i + 1]
         /\ KindsLeft(w)' \subseteq KindsLeft(w)
         /\ KindsLeft(w) \subseteq KindsLeft(w)' \cup {Head(todo[w]).kind}
         /\ 1 \in 1..Len(todo[w]) /\ Head(todo[w]) = todo[w][1]
<1>1. todo[w] \in Seq(Checks)
  BY DEF AlertInv, TypeOK, Checks
<1>2. /\ Len(Tail(todo[w])) = Len(todo[w]) - 1
      /\ \A i \in 1..Len(Tail(todo[w])) : Tail(todo[w])[i] = todo[w][i + 1]
  BY <1>1, HeadTailProperties
<1>3. Len(todo[w]) \in Nat \ {0} /\ Head(todo[w]) = todo[w][1]
  BY <1>1, EmptySeq
<1>4. \A i \in 1..Len(todo[w])' : i + 1 \in 1..Len(todo[w]) /\ todo'[w][i] = todo[w][i + 1]
  BY <1>2, <1>3
<1>5. KindsLeft(w)' \subseteq KindsLeft(w)
  BY <1>4 DEF KindsLeft
<1>6. ASSUME NEW i \in 1..Len(todo[w]), i # 1
      PROVE  todo[w][i].kind \in KindsLeft(w)'
  <2>1. i - 1 \in 1..Len(todo[w])'
    BY <1>2, <1>3, <1>6
  <2>2. todo'[w][i - 1] = todo[w][i]
    BY <1>4, <2>1
  <2> QED BY <2>1, <2>2 DEF KindsLeft
<1>7. ASSUME NEW k \in KindsLeft(w)
      PROVE  k \in KindsLeft(w)' \cup {Head(todo[w]).kind}
  <2>1. PICK i \in 1..Len(todo[w]) : k = todo[w][i].kind
    BY DEF KindsLeft
  <2>2. CASE i = 1
    BY <1>3, <2>1, <2>2
  <2>3. CASE i # 1
    BY <1>6, <2>1, <2>3
  <2> QED BY <2>2, <2>3
<1>8. 1 \in 1..Len(todo[w])
  BY <1>3
<1> QED BY <1>3, <1>4, <1>5, <1>7, <1>8

LEMMA WriteInv ==
  ASSUME MatchInv, OneSource, NEW w \in Workers,
         ResolveAlert(w) \/ InsertAlert(w) \/ UpdateAlert(w)
  PROVE  MatchInv'
<1> PICK c : c = Head(todo[w])
  OBVIOUS
<1>1. /\ todo[w] # <<>> /\ Advance(w) /\ latest' = latest /\ missed' = missed
      /\ \A h \in Hosts, k \in AlertKinds : ~(h = c.host /\ k = c.kind) =>
           OpenAlerts(h, k)' = OpenAlerts(h, k)
      /\ Severities(c.host, c.kind)' = {c.level} \ {"ok"}
      /\ IdsUnique'
  BY WriteEffect
<1>2. AlertInv /\ AlertInv'
  BY AlertNextInv DEF MatchInv, Next, Statement
<1>3. /\ todo'[w] = Tail(todo[w]) /\ found'[w] = Unread
      /\ \A v \in Workers : v # w => todo'[v] = todo[v] /\ found'[v] = found[v]
  BY <1>1, <1>2 DEF Advance, AlertInv, TypeOK
<1>4. /\ \A i \in 1..Len(todo[w])' : i + 1 \in 1..Len(todo[w]) /\ todo'[w][i] = todo[w][i + 1]
      /\ KindsLeft(w)' \subseteq KindsLeft(w)
      /\ KindsLeft(w) \subseteq KindsLeft(w)' \cup {c.kind}
      /\ 1 \in 1..Len(todo[w]) /\ c = todo[w][1]
  BY <1>1, <1>2, <1>3, KindsLeftAfter
<1>5. c \in ChecksOf(w)
  BY <1>1, <1>2, NextCheck
<1>6. FoundIsOpen'
  <2> SUFFICES ASSUME NEW v \in Workers, found'[v] \notin {Unread, NoRow}
               PROVE  \E r \in Matching(v)' : r.id = found'[v].id
    BY DEF FoundIsOpen, Unread, NoRow, Matching
  <2>1. v # w /\ todo'[v] = todo[v] /\ found'[v] = found[v]
    BY <1>3
  <2>2. todo[v] # <<>> /\ \E r \in Matching(v) : r.id = found[v].id
    BY <1>2, <2>1 DEF MatchInv, FoundIsOpen, AlertInv, FoundIsCurrent
  <2>3. ~(Head(todo[v]).host = c.host /\ Head(todo[v]).kind = c.kind)
    BY <1>1, <1>2, <2>1, <2>2, KeysApart
  <2>4. Head(todo[v]) \in Checks
    BY <1>2, <2>2, NextCheck
  <2>5. Matching(v)' = Matching(v)
    BY <1>1, <2>1, <2>3, <2>4 DEF Matching, Checks, OpenAlerts
  <2> QED BY <2>1, <2>2, <2>5
<1>7. ChecksAreCurrent'
  <2> SUFFICES ASSUME NEW v \in Reporters
               PROVE  /\ \A i \in 1..Len(todo[v])' :
                           todo'[v][i].level = Level(latest[ReporterHost[v]], todo'[v][i].kind)
                      /\ \A i, j \in 1..Len(todo[v])' : todo'[v][i].kind = todo'[v][j].kind => i = j
    BY <1>1 DEF ChecksAreCurrent, Level
  <2>1. v \in Workers
    BY DEF Workers
  <2>2. CASE v = w
    <3>1. /\ \A i \in 1..Len(todo[w]) :
               todo[w][i].level = Level(latest[ReporterHost[w]], todo[w][i].kind)
          /\ \A i, j \in 1..Len(todo[w]) : todo[w][i].kind = todo[w][j].kind => i = j
      BY <2>2 DEF MatchInv, ChecksAreCurrent
    <3>2. ASSUME NEW i \in 1..Len(todo[w])'
          PROVE  todo'[w][i].level = Level(latest[ReporterHost[w]], todo'[w][i].kind)
      <4>1. i + 1 \in 1..Len(todo[w]) /\ todo'[w][i] = todo[w][i + 1]
        BY <1>4
      <4>2. todo[w][i + 1].level = Level(latest[ReporterHost[w]], todo[w][i + 1].kind)
        BY <3>1, <4>1
      <4> QED BY <4>1, <4>2
    <3>3. ASSUME NEW i \in 1..Len(todo[w])', NEW j \in 1..Len(todo[w])',
                 todo'[w][i].kind = todo'[w][j].kind
          PROVE  i = j
      <4>1. /\ i + 1 \in 1..Len(todo[w]) /\ todo'[w][i] = todo[w][i + 1]
            /\ j + 1 \in 1..Len(todo[w]) /\ todo'[w][j] = todo[w][j + 1]
        BY <1>4
      <4>2. todo[w][i + 1].kind = todo[w][j + 1].kind
        BY <3>3, <4>1
      <4>3. i + 1 = j + 1
        BY <3>1, <4>1, <4>2
      <4> QED BY <4>3
    <3> QED BY <2>2, <3>2, <3>3
  <2>3. CASE v # w
    BY <1>3, <2>1, <2>3 DEF MatchInv, ChecksAreCurrent
  <2> QED BY <2>2, <2>3
<1>8. CheckedMatch'
  <2> SUFFICES ASSUME NEW h \in Hosts, NEW k \in Kinds, ~missed[h],
                      \A v \in Reporters : ReporterHost[v] = h => k \notin KindsLeft(v)'
               PROVE  Severities(h, k)' = {Level(latest[h], k)} \ {"ok"}
    BY <1>1 DEF CheckedMatch, Level
  <2>1. k \in AlertKinds /\ k # "offline"
    BY DEF AlertKinds, Kinds
  <2>2. CASE h = c.host /\ k = c.kind
    <3>1. w \in Reporters /\ ReporterHost[w] = h
      BY <1>5, <2>1, <2>2 DEF ChecksOf, Workers
    <3>2. c.level = Level(latest[h], k)
      BY <1>4, <2>2, <3>1 DEF MatchInv, ChecksAreCurrent
    <3> QED BY <1>1, <2>2, <3>2
  <2>3. CASE ~(h = c.host /\ k = c.kind)
    <3>1. Severities(h, k)' = Severities(h, k)
      BY <1>1, <2>1, <2>3 DEF Severities
    <3>2. ASSUME NEW v \in Reporters, ReporterHost[v] = h PROVE k \notin KindsLeft(v)
      <4>1. CASE v = w
        <5>1. c.host = h
          BY <1>5, <3>2, <4>1, MonitorIsNoReporter DEF ChecksOf
        <5> QED BY <1>4, <2>3, <3>2, <4>1, <5>1
      <4>2. CASE v # w
        BY <1>3, <3>2, <4>2 DEF KindsLeft, Workers
      <4> QED BY <4>1, <4>2
    <3> QED BY <3>1, <3>2 DEF MatchInv, CheckedMatch
  <2> QED BY <2>2, <2>3
<1> QED BY <1>1, <1>2, <1>6, <1>7, <1>8 DEF MatchInv

LEMMA MatchInitInv == Init => MatchInv
<1> SUFFICES ASSUME Init PROVE MatchInv
  OBVIOUS
<1> USE DEF Init
<1>1. IdsUnique /\ FoundIsOpen
  BY DEF IdsUnique, FoundIsOpen
<1>2. ChecksAreCurrent
  <2>1. \A w \in Reporters : Len(todo[w]) = 0
    BY EmptySeq DEF Workers
  <2> QED BY <2>1 DEF ChecksAreCurrent
<1>3. CheckedMatch
  <2>1. \A h \in Hosts, k \in Kinds : Level(latest[h], k) = "ok"
    BY DEF Level, MetricLevel, NoReport, Kinds
  <2>2. \A h \in Hosts, k \in Kinds : Severities(h, k) = {}
    BY DEF Severities, OpenAlerts
  <2> QED BY <2>1, <2>2 DEF CheckedMatch
<1> QED BY <1>1, <1>2, <1>3, AlertInitInv DEF MatchInv

LEMMA StoreReportMatch ==
  ASSUME MatchInv, OneSource, NEW w \in Reporters, NEW report \in Reports, StoreReport(w, report)
  PROVE  MatchInv'
<1> USE DEF StoreReport
<1> DEFINE g == ReporterHost[w]
           new == <<Check(g, "cpu", Level(report, "cpu")), Check(g, "mem", Level(report, "mem")),
                    Check(g, "disk", Level(report, "disk"))>>
<1>1. AlertInv /\ AlertInv'
  BY AlertNextInv DEF MatchInv, Next
<1>2. /\ w \in Workers /\ g \in Hosts /\ todo'[w] = new /\ latest'[g] = report
      /\ \A v \in Workers : v # w => todo'[v] = todo[v]
      /\ \A h \in Hosts : h # g => latest'[h] = latest[h] /\ missed'[h] = missed[h]
  BY <1>1, ReporterHostIsHost DEF AlertInv, TypeOK, Workers
<1>3. /\ Len(new) = 3
      /\ new[1] = Check(g, "cpu", Level(report, "cpu"))
      /\ new[2] = Check(g, "mem", Level(report, "mem"))
      /\ new[3] = Check(g, "disk", Level(report, "disk"))
  OBVIOUS
<1>4. \A v \in Reporters : v # w => v \in Workers /\ ReporterHost[v] \in Hosts /\ ReporterHost[v] # g
  BY ReporterHostIsHost DEF OneSource, Workers
<1> HIDE DEF new
<1>5. IdsUnique'
  BY DEF MatchInv, IdsUnique
<1>6. FoundIsOpen'
  <2> SUFFICES ASSUME NEW v \in Workers, found[v] \notin {Unread, NoRow}
               PROVE  \E r \in Matching(v)' : r.id = found[v].id
    BY DEF FoundIsOpen, Unread, NoRow, Matching
  <2>1. v # w
    BY <1>1, <1>2 DEF AlertInv, FoundIsCurrent
  <2>2. Matching(v)' = Matching(v)
    BY <1>2, <2>1 DEF Matching, OpenAlerts
  <2> QED BY <2>2 DEF MatchInv, FoundIsOpen
<1>7. ChecksAreCurrent'
  <2> SUFFICES ASSUME NEW v \in Reporters
               PROVE  /\ \A i \in 1..Len(todo'[v]) :
                           todo'[v][i].level = Level(latest'[ReporterHost[v]], todo'[v][i].kind)
                      /\ \A i, j \in 1..Len(todo'[v]) : todo'[v][i].kind = todo'[v][j].kind => i = j
    BY DEF ChecksAreCurrent, Level
  <2>1. CASE v = w
    <3>1. \A i \in 1..Len(new) : i = 1 \/ i = 2 \/ i = 3
      BY <1>3
    <3>2. /\ new[1].kind = "cpu" /\ new[1].level = Level(report, "cpu")
          /\ new[2].kind = "mem" /\ new[2].level = Level(report, "mem")
          /\ new[3].kind = "disk" /\ new[3].level = Level(report, "disk")
      BY <1>3 DEF Check
    <3> HIDE DEF StoreReport
    <3>3. \A i \in 1..Len(new) : new[i].level = Level(report, new[i].kind)
      BY <3>1, <3>2
    <3>4. \A i, j \in 1..Len(new) : new[i].kind = new[j].kind => i = j
      BY <3>1, <3>2
    <3> QED BY <1>2, <2>1, <3>3, <3>4
  <2>2. CASE v # w
    BY <1>2, <1>4, <2>2 DEF MatchInv, ChecksAreCurrent
  <2> QED BY <2>1, <2>2
<1>8. CheckedMatch'
  <2> SUFFICES ASSUME NEW h \in Hosts, NEW k \in Kinds, ~missed'[h],
                      \A v \in Reporters : ReporterHost[v] = h => k \notin KindsLeft(v)'
               PROVE  Severities(h, k)' = {Level(latest'[h], k)} \ {"ok"}
    BY DEF CheckedMatch, Level
  <2>1. Kinds \subseteq KindsLeft(w)'
    <3>1. /\ 1 \in 1..Len(new) /\ 2 \in 1..Len(new) /\ 3 \in 1..Len(new)
          /\ new[1].kind = "cpu" /\ new[2].kind = "mem" /\ new[3].kind = "disk"
      BY <1>3 DEF Check
    <3> QED BY <1>2, <3>1 DEF KindsLeft, Kinds
  <2>2. h # g
    BY <2>1
  <2>3. Severities(h, k)' = Severities(h, k)
    BY DEF Severities, OpenAlerts
  <2>4. \A v \in Reporters : ReporterHost[v] = h => k \notin KindsLeft(v)
    BY <1>2, <1>4, <2>2 DEF KindsLeft
  <2> QED BY <1>2, <2>2, <2>3, <2>4 DEF MatchInv, CheckedMatch
<1> QED BY <1>1, <1>5, <1>6, <1>7, <1>8 DEF MatchInv

\* Steps that change neither a report, nor an alert, nor the checks of a
\* reporter for which no evaluation was missed.
LEMMA ReaderMatch ==
  ASSUME MatchInv, AlertInv', UNCHANGED <<latest, open>>,
         \A w \in Workers : found'[w] \notin {Unread, NoRow} =>
           \E r \in Matching(w)' : r.id = found'[w].id,
         \A w \in Reporters :
           \/ todo'[w] = todo[w]
           \/ todo'[w] = <<>> /\ missed'[ReporterHost[w]],
         \A h \in Hosts : missed[h] => missed'[h]
  PROVE  MatchInv'
<1>1. IdsUnique'
  BY DEF MatchInv, IdsUnique
<1>2. FoundIsOpen'
  BY DEF FoundIsOpen, Unread, NoRow, Matching
<1>3. ChecksAreCurrent'
  <2> SUFFICES ASSUME NEW w \in Reporters
               PROVE  /\ \A i \in 1..Len(todo'[w]) :
                           todo'[w][i].level = Level(latest'[ReporterHost[w]], todo'[w][i].kind)
                      /\ \A i, j \in 1..Len(todo'[w]) : todo'[w][i].kind = todo'[w][j].kind => i = j
    BY DEF ChecksAreCurrent, Level
  <2>1. CASE todo'[w] = todo[w]
    BY <2>1 DEF MatchInv, ChecksAreCurrent
  <2>2. CASE todo'[w] = <<>>
    <3>1. Len(todo'[w]) = 0
      BY <2>2, EmptySeq
    <3> QED BY <3>1
  <2> QED BY <2>1, <2>2
<1>4. CheckedMatch'
  <2> SUFFICES ASSUME NEW h \in Hosts, NEW k \in Kinds, ~missed'[h],
                      \A v \in Reporters : ReporterHost[v] = h => k \notin KindsLeft(v)'
               PROVE  Severities(h, k)' = {Level(latest'[h], k)} \ {"ok"}
    BY DEF CheckedMatch, Level
  <2>1. Severities(h, k)' = Severities(h, k) /\ latest' = latest
    BY DEF Severities, OpenAlerts
  <2>2. \A v \in Reporters : ReporterHost[v] = h => k \notin KindsLeft(v)
    BY DEF KindsLeft
  <2> QED BY <2>1, <2>2 DEF MatchInv, CheckedMatch
<1> QED BY <1>1, <1>2, <1>3, <1>4 DEF MatchInv

LEMMA MatchNextInv ==
  ASSUME MatchInv, OneSource, [Next]_vars
  PROVE  MatchInv'
<1> USE DEF Workers
<1>1. AlertInv /\ AlertInv' /\ FoundIsOpen
  BY AlertNextInv DEF MatchInv
<1>2. ASSUME NEW w \in Reporters, NEW report \in Reports, StoreReport(w, report) PROVE MatchInv'
  BY <1>2, StoreReportMatch
<1>3. CASE Tick
  <2>1. \A w \in Reporters : todo'[w] = todo[w]
    BY <1>1, <1>3, MonitorIsNoReporter DEF Tick, AlertInv, TypeOK
  <2>2. found[Monitor] = Unread /\ UNCHANGED <<latest, open, found, missed>>
    BY <1>1, <1>3 DEF Tick, AlertInv, FoundIsCurrent
  <2>3. \A w \in Workers : found'[w] \notin {Unread, NoRow} =>
          \E r \in Matching(w)' : r.id = found'[w].id
    BY <1>1, <2>1, <2>2 DEF FoundIsOpen, Matching, OpenAlerts
  <2> QED BY <1>1, <2>1, <2>2, <2>3, ReaderMatch
<1>4. ASSUME NEW w \in Workers, Statement(w) PROVE MatchInv'
  <2>1. CASE ResolveAlert(w) \/ InsertAlert(w) \/ UpdateAlert(w)
    BY <2>1, WriteInv
  <2>2. CASE SelectAlert(w)
    <3>1. UNCHANGED <<latest, open, todo, missed>>
      BY <2>2 DEF SelectAlert
    <3>2. \A v \in Workers : v # w => found'[v] = found[v]
      BY <1>1, <2>2 DEF SelectAlert, AlertInv, TypeOK
    <3>3. found'[w] = NoRow \/ \E r \in Matching(w) : found'[w] = [id |-> r.id, count |-> r.count]
      BY <1>1, <2>2 DEF SelectAlert, AlertInv, TypeOK
    <3>4. \A v \in Workers : Matching(v)' = Matching(v)
      BY <3>1 DEF Matching, OpenAlerts
    <3>5. \A v \in Workers : found'[v] \notin {Unread, NoRow} =>
            \E r \in Matching(v)' : r.id = found'[v].id
      <4> SUFFICES ASSUME NEW v \in Workers, found'[v] \notin {Unread, NoRow}
                   PROVE  \E r \in Matching(v) : r.id = found'[v].id
        BY <3>4
      <4>1. CASE v = w
        <5>1. PICK r \in Matching(w) : found'[w] = [id |-> r.id, count |-> r.count]
          BY <3>3, <4>1
        <5>2. found'[w].id = r.id
          BY <5>1
        <5> QED BY <4>1, <5>2
      <4>2. CASE v # w
        BY <1>1, <3>2, <4>2 DEF FoundIsOpen
      <4> QED BY <4>1, <4>2
    <3> QED BY <1>1, <3>1, <3>5, ReaderMatch
  <2> QED BY <1>4, <2>1, <2>2 DEF Statement
<1>5. ASSUME NEW w \in Workers, StatementFails(w) PROVE MatchInv'
  <2>1. /\ UNCHANGED <<latest, open>> /\ todo'[w] = <<>> /\ found'[w] = Unread
        /\ \A v \in Workers : v # w => todo'[v] = todo[v] /\ found'[v] = found[v]
    BY <1>1, <1>5 DEF StatementFails, AlertInv, TypeOK
  <2>2. \A h \in Hosts : missed[h] => missed'[h]
    BY <1>5 DEF StatementFails
  <2>3. w \in Reporters => missed'[ReporterHost[w]]
    BY <1>5, MonitorIsNoReporter, ReporterHostIsHost DEF StatementFails
  <2>4. \A v \in Workers : found'[v] \notin {Unread, NoRow} =>
          \E r \in Matching(v)' : r.id = found'[v].id
    BY <1>1, <2>1 DEF FoundIsOpen, Matching, OpenAlerts
  <2> QED BY <1>1, <2>1, <2>2, <2>3, <2>4, ReaderMatch
<1>6. ASSUME UNCHANGED <<latest, open, todo, found, missed>> PROVE MatchInv'
  <2>1. \A v \in Workers : found'[v] \notin {Unread, NoRow} =>
          \E r \in Matching(v)' : r.id = found'[v].id
    BY <1>1, <1>6 DEF FoundIsOpen, Matching, OpenAlerts
  <2> QED BY <1>1, <1>6, <2>1, ReaderMatch
<1>7. ASSUME NEW h \in Hosts, GoSilent(h) PROVE MatchInv'
  BY <1>6, <1>7 DEF GoSilent
<1>8. CASE UNCHANGED vars
  BY <1>6, <1>8 DEF vars
<1> QED BY <1>2, <1>3, <1>4, <1>5, <1>7, <1>8 DEF Next

\* Of a host whose last evaluation went through, the tickets are those its last
\* report calls for.
LEMMA SettledMatch ==
  ASSUME MatchInv
  PROVE  AlertsMatchReport
<1> SUFFICES ASSUME NEW h \in Hosts, Settled(h), NEW k \in Kinds
             PROVE  Severities(h, k) = {Level(latest[h], k)} \ {"ok"}
  BY DEF AlertsMatchReport, Severities
<1>1. ASSUME NEW w \in Reporters, ReporterHost[w] = h PROVE k \notin KindsLeft(w)
  <2>1. Len(todo[w]) = 0
    BY <1>1, EmptySeq DEF Settled
  <2> QED BY <2>1 DEF KindsLeft
<1> QED BY <1>1 DEF MatchInv, CheckedMatch, Settled

\* The health of such a host is the worst severity of its tickets.
LEMMA SettledHealth ==
  ASSUME MatchInv
  PROVE  HealthMatchesAlerts
<1> SUFFICES ASSUME NEW h \in Hosts, Settled(h)
             PROVE  Health(latest[h]) =
                      Worst({r.severity : r \in {s \in open : s.host = h /\ s.kind \in Kinds}})
  BY DEF HealthMatchesAlerts
<1> DEFINE S == {r.severity : r \in {s \in open : s.host = h /\ s.kind \in Kinds}}
           L == {Level(latest[h], k) : k \in Kinds}
<1>1. \A k \in Kinds : Severities(h, k) = {Level(latest[h], k)} \ {"ok"}
  BY SettledMatch DEF AlertsMatchReport, Severities
<1>2. \A s : s \in S <=> \E k \in Kinds : s \in Severities(h, k)
  BY DEF Severities, OpenAlerts
<1>3. S = L \ {"ok"}
  BY <1>1, <1>2
<1>4. latest[h] \in [cpu : Nat, mem : Nat, disk : Nat]
  BY ReportsAreReports DEF MatchInv, AlertInv, TypeOK, NoReport
<1>5. Health(latest[h]) = Worst(L)
  BY <1>4, HealthIsWorstLevel
<1> HIDE DEF S, L
<1>6. Worst(L) = Worst(S)
  BY <1>3 DEF Worst
<1> QED BY <1>5, <1>6 DEF S

LEMMA MatchInvariant ==
  ASSUME OneSource
  PROVE  Spec => []MatchInv
<1>1. MatchInv /\ [Next]_vars => MatchInv'
  BY MatchNextInv
<1> QED BY <1>1, MatchInitInv, PTL DEF Spec

\* If every host has one source of reports, then after the evaluation of a report
\* the host has the tickets its report calls for and no other.
THEOREM TicketsMatchReport ==
  ASSUME OneSource
  PROVE  Spec => []AlertsMatchReport
<1>1. MatchInv => AlertsMatchReport
  BY SettledMatch
<1> QED BY <1>1, MatchInvariant, PTL

\* If every host has one source of reports, the dashboard's health of an endpoint
\* and its tickets tell the same.
THEOREM HealthAgreesWithTickets ==
  ASSUME OneSource
  PROVE  Spec => []HealthMatchesAlerts
<1>1. MatchInv => HealthMatchesAlerts
  BY SettledHealth
<1> QED BY <1>1, MatchInvariant, PTL

-----------------------------------------------------------------------------
(* A ticket over time *)

\* If every host has one source of reports, the ticket of a metric stays the same
\* one, with the first_seen it has, until a report is under the threshold.
THEOREM TicketsKeepFirstSeen ==
  ASSUME OneSource
  PROVE  Spec => FirstSeenKept
<1>1. MatchInv /\ [Next]_vars =>
        [\A r \in open : r.kind \in Kinds /\ Level(latest[r.host], r.kind) # "ok" =>
           \E s \in open' : s.id = r.id]_vars
  <2> SUFFICES ASSUME MatchInv, Next, NEW r \in open, r.kind \in Kinds,
                      Level(latest[r.host], r.kind) # "ok"
               PROVE  \E s \in open' : s.id = r.id
    OBVIOUS
  <2>1. ASSUME NEW w \in Workers, ResolveAlert(w), r \notin open'
        PROVE  FALSE
    <3>1. todo[w] # <<>> /\ Head(todo[w]).level = "ok" /\ r \in Matching(w)
      BY <2>1 DEF ResolveAlert
    <3>2. AlertInv /\ Head(todo[w]) \in ChecksOf(w)
      BY <3>1, NextCheck DEF MatchInv
    <3>3. /\ r.host = Head(todo[w]).host /\ r.kind = Head(todo[w]).kind
      BY <3>1 DEF Matching, OpenAlerts
    <3>4. w \in Reporters /\ r.host = ReporterHost[w]
      BY <3>2, <3>3 DEF ChecksOf, Kinds, Workers
    <3>5. 1 \in 1..Len(todo[w]) /\ Head(todo[w]) = todo[w][1]
      BY <3>1, <3>2, EmptySeq DEF AlertInv, TypeOK
    <3> QED BY <3>1, <3>3, <3>4, <3>5 DEF MatchInv, ChecksAreCurrent
  <2>2. ASSUME NEW w \in Workers, UpdateAlert(w)
        PROVE  \E s \in open' : s.id = r.id
    <3>1. r \in [id : 1..lastId, host : Hosts, kind : AlertKinds,
                 severity : Levels \ {"ok"}, count : 1..MaxCount]
      BY DEF MatchInv, AlertInv, TypeOK
    <3>2. Updated(w, r).id = r.id
      BY <3>1 DEF Updated
    <3> QED BY <2>2, <3>2 DEF UpdateAlert
  <2>3. ASSUME NEW w \in Workers, InsertAlert(w)
        PROVE  r \in open'
    BY <2>3 DEF InsertAlert
  <2> QED BY <2>1, <2>2, <2>3
      DEF Next, StoreReport, Tick, Statement, SelectAlert, StatementFails, GoSilent
<1> QED BY <1>1, MatchInvariant, PTL DEF Spec, FirstSeenKept

\* A metric of the last report of h is still to be checked.
Due(h, k) == \E w \in Reporters : ReporterHost[w] = h /\ k \in KindsLeft(w)

\* What a worker has read of the row it is about to update is what the row says.
FoundIsRow ==
  \A w \in Workers : found[w] \notin {Unread, NoRow} =>
    \E r \in Matching(w) : r.id = found[w].id /\ r.count = found[w].count

\* The count of a ticket is the streak of its condition, or one behind as long as the
\* last report was not evaluated.
CountIsStreak(h, k) ==
  IF ~Due(h, k)
  THEN /\ \A r \in OpenAlerts(h, k) : r.count = streak[h][k]
       /\ OpenAlerts(h, k) = {} => streak[h][k] = 0
  ELSE IF Level(latest[h], k) = "ok"
  THEN streak[h][k] = 0
  ELSE /\ \A r \in OpenAlerts(h, k) : streak[h][k] = Capped(r.count + 1)
       /\ OpenAlerts(h, k) = {} => streak[h][k] = 1

CountInv ==
  /\ FoundIsRow
  /\ failures = 0 => \A h \in Hosts, k \in Kinds : CountIsStreak(h, k)

LEMMA CountInit == Init => CountInv
<1> SUFFICES ASSUME Init PROVE CountInv
  OBVIOUS
<1> USE DEF Init
<1>1. FoundIsRow
  BY DEF FoundIsRow
<1>2. \A h \in Hosts, k \in Kinds : OpenAlerts(h, k) = {} /\ streak[h][k] = 0
  BY DEF OpenAlerts
<1>3. \A w \in Reporters : KindsLeft(w) = {}
  <2>1. \A w \in Reporters : Len(todo[w]) = 0
    BY EmptySeq DEF Workers
  <2> QED BY <2>1 DEF KindsLeft
<1> QED BY <1>1, <1>2, <1>3 DEF CountInv, CountIsStreak, Due

\* Nothing that the count of a ticket depends on has changed.
LEMMA SameCount ==
  ASSUME NEW h \in Hosts, NEW k \in Kinds, CountIsStreak(h, k),
         latest'[h] = latest[h], streak'[h] = streak[h],
         Due(h, k)' <=> Due(h, k), OpenAlerts(h, k)' = OpenAlerts(h, k)
  PROVE  CountIsStreak(h, k)'
<1>1. Level(latest[h], k)' = Level(latest[h], k)
  BY DEF Level
<1>2. CASE ~Due(h, k)
  BY <1>2 DEF CountIsStreak
<1>3. CASE Due(h, k) /\ Level(latest[h], k) = "ok"
  BY <1>1, <1>3 DEF CountIsStreak
<1>4. CASE Due(h, k) /\ Level(latest[h], k) # "ok"
  BY <1>1, <1>4 DEF CountIsStreak, Capped
<1> QED BY <1>2, <1>3, <1>4

\* A statement that writes makes the count of its ticket the streak, and leaves the
\* other tickets alone.
LEMMA CountWrite ==
  ASSUME MatchInv, CountInv, OneSource, NEW w \in Workers,
         ResolveAlert(w) \/ InsertAlert(w) \/ UpdateAlert(w)
  PROVE  CountInv'
<1> PICK c : c = Head(todo[w])
  OBVIOUS
<1>1. /\ todo[w] # <<>> /\ Advance(w) /\ latest' = latest /\ missed' = missed
      /\ \A h \in Hosts, k \in AlertKinds : ~(h = c.host /\ k = c.kind) =>
           OpenAlerts(h, k)' = OpenAlerts(h, k)
      /\ Severities(c.host, c.kind)' = {c.level} \ {"ok"}
      /\ IdsUnique'
      /\ TicketWritten(w, c)
  BY WriteEffect
<1>2. AlertInv /\ streak' = streak /\ failures' = failures
  BY DEF MatchInv, ResolveAlert, InsertAlert, UpdateAlert
<1>3. /\ todo'[w] = Tail(todo[w]) /\ found'[w] = Unread
      /\ \A v \in Workers : v # w => todo'[v] = todo[v] /\ found'[v] = found[v]
  BY <1>1, <1>2 DEF Advance, AlertInv, TypeOK
<1>4. /\ \A i \in 1..Len(todo[w])' : i + 1 \in 1..Len(todo[w]) /\ todo'[w][i] = todo[w][i + 1]
      /\ KindsLeft(w)' \subseteq KindsLeft(w)
      /\ KindsLeft(w) \subseteq KindsLeft(w)' \cup {c.kind}
      /\ 1 \in 1..Len(todo[w]) /\ c = todo[w][1]
  BY <1>1, <1>2, <1>3, KindsLeftAfter
<1>5. c \in ChecksOf(w)
  BY <1>1, <1>2, NextCheck
<1>6. FoundIsRow'
  <2> SUFFICES ASSUME NEW v \in Workers, found'[v] \notin {Unread, NoRow}
               PROVE  \E r \in Matching(v)' : r.id = found'[v].id /\ r.count = found'[v].count
    BY DEF FoundIsRow, Unread, NoRow, Matching
  <2>1. v # w /\ todo'[v] = todo[v] /\ found'[v] = found[v]
    BY <1>3
  <2>2. todo[v] # <<>> /\ \E r \in Matching(v) : r.id = found[v].id /\ r.count = found[v].count
    BY <1>2, <2>1 DEF CountInv, FoundIsRow, AlertInv, FoundIsCurrent
  <2>3. ~(Head(todo[v]).host = c.host /\ Head(todo[v]).kind = c.kind)
    BY <1>1, <1>2, <2>1, <2>2, KeysApart
  <2>4. Head(todo[v]) \in Checks
    BY <1>2, <2>2, NextCheck
  <2>5. Matching(v)' = Matching(v)
    BY <1>1, <2>1, <2>3, <2>4 DEF Matching, Checks, OpenAlerts
  <2> QED BY <2>1, <2>2, <2>5
<1>7. ASSUME NEW h \in Hosts, NEW k \in Kinds, CountIsStreak(h, k)
      PROVE  CountIsStreak(h, k)'
  <2>1. k \in AlertKinds /\ k # "offline"
    BY DEF AlertKinds, Kinds
  <2>2. CASE h = c.host /\ k = c.kind
    <3>1. w \in Reporters /\ ReporterHost[w] = h
      BY <1>5, <2>1, <2>2 DEF ChecksOf, Workers
    <3>2. c.level = Level(latest[h], k)
      BY <1>4, <2>2, <3>1 DEF MatchInv, ChecksAreCurrent
    <3>3. Due(h, k)
      BY <1>4, <2>2, <3>1 DEF Due, KindsLeft
    <3>4. ~Due(h, k)'
      <4>1. \A i \in 1..Len(todo[w])' : todo'[w][i].kind # k
        <5> SUFFICES ASSUME NEW i \in 1..Len(todo[w])', todo'[w][i].kind = k
                     PROVE  FALSE
          OBVIOUS
        <5>1. i + 1 \in 1..Len(todo[w]) /\ todo[w][i + 1].kind = todo[w][1].kind
          BY <1>4, <2>2
        <5>2. i + 1 = 1
          BY <1>4, <3>1, <5>1 DEF MatchInv, ChecksAreCurrent
        <5>3. i \in Nat \ {0}
          BY <1>2, <1>4, <5>1, LenProperties DEF AlertInv, TypeOK
        <5> QED BY <5>2, <5>3
      <4> QED BY <3>1, <4>1 DEF Due, KindsLeft, OneSource
    <3>5. OpenAlerts(h, k)' = {} => Level(latest[h], k) = "ok"
      BY <1>1, <2>2, <3>2 DEF TicketWritten
    <3>6. OpenAlerts(h, k)' = {} => streak[h][k] = 0
      BY <1>7, <3>3, <3>5 DEF CountIsStreak
    <3>7. ASSUME NEW r \in OpenAlerts(h, k)'
          PROVE  r.count = streak[h][k]
      <4>1. c.level # "ok" /\ Level(latest[h], k) # "ok"
        BY <1>1, <2>2, <3>2, <3>7 DEF TicketWritten
      <4>2. CASE OpenAlerts(h, k) = {} /\ r = NewAlert(w)
        BY <1>7, <3>3, <4>1, <4>2 DEF CountIsStreak, NewAlert
      <4>3. ASSUME NEW q \in OpenAlerts(h, k), q.id = found[w].id, r = Updated(w, q),
                   found[w] \notin {Unread, NoRow}
            PROVE  r.count = streak[h][k]
        <5>1. q \in [id : 1..lastId, host : Hosts, kind : AlertKinds,
                     severity : Levels \ {"ok"}, count : 1..MaxCount]
          BY <1>2 DEF OpenAlerts, AlertInv, TypeOK
        <5>2. r.count = Capped(found[w].count + 1)
          BY <4>3, <5>1 DEF Updated
        <5>3. q.count = found[w].count
          BY <4>3 DEF CountInv, FoundIsRow, MatchInv, IdsUnique, Matching, OpenAlerts
        <5>4. streak[h][k] = Capped(q.count + 1)
          BY <1>7, <3>3, <4>1 DEF CountIsStreak
        <5> QED BY <5>2, <5>3, <5>4
      <4> QED BY <1>1, <2>2, <3>7, <4>1, <4>2, <4>3 DEF TicketWritten
    <3> QED BY <1>2, <3>4, <3>6, <3>7 DEF CountIsStreak
  <2>3. CASE ~(h = c.host /\ k = c.kind)
    <3>1. OpenAlerts(h, k)' = OpenAlerts(h, k)
      BY <1>1, <2>1, <2>3
    <3>2. ASSUME NEW v \in Reporters, ReporterHost[v] = h
          PROVE  k \in KindsLeft(v)' <=> k \in KindsLeft(v)
      <4>1. CASE v = w
        <5>1. c.host = h
          BY <1>5, <3>2, <4>1, MonitorIsNoReporter DEF ChecksOf
        <5> QED BY <1>4, <2>3, <4>1, <5>1
      <4>2. CASE v # w
        BY <1>3, <4>2 DEF KindsLeft, Workers
      <4> QED BY <4>1, <4>2
    <3>3. Due(h, k)' <=> Due(h, k)
      BY <3>2 DEF Due
    <3> QED BY <1>1, <1>2, <1>7, <3>1, <3>3, SameCount
  <2> QED BY <2>2, <2>3
<1> QED BY <1>2, <1>6, <1>7 DEF CountInv

\* A new report puts the count of its tickets one behind.
LEMMA CountReport ==
  ASSUME MatchInv, CountInv, OneSource, NEW w \in Reporters, NEW report \in Reports,
         StoreReport(w, report)
  PROVE  CountInv'
<1> DEFINE g == ReporterHost[w]
           new == <<Check(g, "cpu", Level(report, "cpu")), Check(g, "mem", Level(report, "mem")),
                    Check(g, "disk", Level(report, "disk"))>>
<1>1. AlertInv /\ MatchInv'
  BY MatchNextInv DEF MatchInv, Next
<1>2. /\ w \in Workers /\ g \in Hosts /\ todo[w] = <<>> /\ todo'[w] = new /\ latest'[g] = report
      /\ \A v \in Workers : v # w => todo'[v] = todo[v]
      /\ \A h \in Hosts : h # g => latest'[h] = latest[h] /\ streak'[h] = streak[h]
      /\ \A k \in Kinds : streak'[g][k] = IF Level(report, k) = "ok" THEN 0 ELSE Capped(streak[g][k] + 1)
      /\ UNCHANGED <<open, found, failures>>
  BY <1>1, ReporterHostIsHost DEF StoreReport, AlertInv, TypeOK, Workers
<1>3. FoundIsRow'
  <2> SUFFICES ASSUME NEW v \in Workers, found[v] \notin {Unread, NoRow}
               PROVE  \E r \in Matching(v)' : r.id = found[v].id /\ r.count = found[v].count
    BY <1>2 DEF FoundIsRow, Unread, NoRow, Matching
  <2>1. v # w
    BY <1>1, <1>2 DEF AlertInv, FoundIsCurrent
  <2>2. Matching(v)' = Matching(v)
    BY <1>2, <2>1 DEF Matching, OpenAlerts
  <2> QED BY <2>2 DEF CountInv, FoundIsRow
<1>4. ASSUME NEW h \in Hosts, NEW k \in Kinds, CountIsStreak(h, k)
      PROVE  CountIsStreak(h, k)'
  <2>1. OpenAlerts(h, k)' = OpenAlerts(h, k)
    BY <1>2 DEF OpenAlerts
  <2>2. CASE h = g
    <3>1. ~Due(h, k)
      <4>1. KindsLeft(w) = {}
        <5>1. Len(todo[w]) = 0
          BY <1>2, EmptySeq
        <5> QED BY <5>1 DEF KindsLeft
      <4> QED BY <2>2, <4>1 DEF Due, OneSource
    <3>2. Due(h, k)'
      <4>1. /\ Len(new) = 3 /\ new[1].kind = "cpu" /\ new[2].kind = "mem" /\ new[3].kind = "disk"
        BY DEF Check
      <4> HIDE DEF new
      <4>2. k \in KindsLeft(w)'
        BY <1>2, <4>1 DEF KindsLeft, Kinds
      <4> QED BY <2>2, <4>2 DEF Due
    <3>3. /\ \A r \in OpenAlerts(h, k) : r.count = streak[h][k]
          /\ OpenAlerts(h, k) = {} => streak[h][k] = 0
      BY <1>4, <3>1 DEF CountIsStreak
    <3>4. Capped(0 + 1) = 1
      BY BoundsAreNat DEF Capped
    <3>5. Level(latest[h], k)' = Level(report, k)
      BY <1>2, <2>2 DEF Level
    <3>6. Level(report, k) = "ok" => streak'[h][k] = 0
      BY <1>2, <2>2
    <3>7. Level(report, k) # "ok" => streak'[h][k] = Capped(streak[h][k] + 1)
      BY <1>2, <2>2
    <3> QED BY <2>1, <3>2, <3>3, <3>4, <3>5, <3>6, <3>7 DEF CountIsStreak, Capped
  <2>3. CASE h # g
    <3>1. \A v \in Reporters : ReporterHost[v] = h => KindsLeft(v)' = KindsLeft(v)
      BY <1>2, <2>3 DEF KindsLeft, Workers
    <3>2. Due(h, k)' <=> Due(h, k)
      BY <3>1 DEF Due
    <3> QED BY <1>2, <1>4, <2>1, <2>3, <3>2, SameCount
  <2> QED BY <2>2, <2>3
<1> QED BY <1>2, <1>3, <1>4 DEF CountInv

\* Steps that change no report, no alert and no check of a reporter.
LEMMA CountKept ==
  ASSUME CountInv, UNCHANGED <<latest, open, streak, failures>>,
         \A w \in Reporters : todo'[w] = todo[w], FoundIsRow'
  PROVE  CountInv'
<1>1. \A h \in Hosts, k \in Kinds :
        (Due(h, k)' <=> Due(h, k)) /\ OpenAlerts(h, k)' = OpenAlerts(h, k)
  BY DEF Due, KindsLeft, OpenAlerts
<1>2. ASSUME NEW h \in Hosts, NEW k \in Kinds, CountIsStreak(h, k)
      PROVE  CountIsStreak(h, k)'
  BY <1>1, <1>2, SameCount
<1> QED BY <1>2 DEF CountInv

LEMMA CountNext ==
  ASSUME MatchInv, CountInv, OneSource, [Next]_vars
  PROVE  CountInv'
<1> USE DEF Workers
<1>1. AlertInv /\ FoundIsRow
  BY DEF MatchInv, CountInv
<1>2. ASSUME NEW w \in Reporters, NEW report \in Reports, StoreReport(w, report)
      PROVE  CountInv'
  BY <1>2, CountReport
<1>3. CASE Tick
  <2>1. /\ \A w \in Reporters : todo'[w] = todo[w]
        /\ found[Monitor] = Unread /\ UNCHANGED <<latest, open, found, streak, failures>>
    BY <1>1, <1>3, MonitorIsNoReporter DEF Tick, AlertInv, TypeOK, FoundIsCurrent
  <2>2. FoundIsRow'
    BY <1>1, <2>1 DEF FoundIsRow, Matching, OpenAlerts
  <2> QED BY <2>1, <2>2, CountKept
<1>4. ASSUME NEW w \in Workers, Statement(w)
      PROVE  CountInv'
  <2>1. CASE ResolveAlert(w) \/ InsertAlert(w) \/ UpdateAlert(w)
    BY <2>1, CountWrite
  <2>2. CASE SelectAlert(w)
    <3>1. UNCHANGED <<latest, open, todo, streak, failures>>
      BY <2>2 DEF SelectAlert
    <3>2. \A v \in Workers : Matching(v)' = Matching(v)
      BY <3>1 DEF Matching, OpenAlerts
    <3>3. FoundIsRow'
      <4> SUFFICES ASSUME NEW v \in Workers, found'[v] \notin {Unread, NoRow}
                   PROVE  \E r \in Matching(v) : r.id = found'[v].id /\ r.count = found'[v].count
        BY <3>2 DEF FoundIsRow, Unread, NoRow
      <4>1. CASE v = w
        <5>1. PICK r \in Matching(w) : found'[w] = [id |-> r.id, count |-> r.count]
          BY <1>1, <2>2, <4>1 DEF SelectAlert, AlertInv, TypeOK
        <5>2. found'[w].id = r.id /\ found'[w].count = r.count
          BY <5>1
        <5> QED BY <4>1, <5>2
      <4>2. CASE v # w
        <5>1. found'[v] = found[v]
          BY <1>1, <2>2, <4>2 DEF SelectAlert, AlertInv, TypeOK
        <5> QED BY <1>1, <5>1 DEF FoundIsRow
      <4> QED BY <4>1, <4>2
    <3> QED BY <3>1, <3>3, CountKept
  <2> QED BY <1>4, <2>1, <2>2 DEF Statement
<1>5. ASSUME NEW w \in Workers, StatementFails(w)
      PROVE  CountInv'
  <2>1. /\ open' = open /\ found'[w] = Unread
        /\ \A v \in Workers : v # w => todo'[v] = todo[v] /\ found'[v] = found[v]
        /\ failures' # 0
    BY <1>1, <1>5, BoundsAreNat DEF StatementFails, AlertInv, TypeOK
  <2>2. FoundIsRow'
    BY <1>1, <2>1 DEF FoundIsRow, Matching, OpenAlerts
  <2> QED BY <2>1, <2>2 DEF CountInv
<1>6. ASSUME UNCHANGED <<latest, open, todo, found, streak, failures>>
      PROVE  CountInv'
  <2>1. FoundIsRow'
    BY <1>1, <1>6 DEF FoundIsRow, Matching, OpenAlerts
  <2> QED BY <1>6, <2>1, CountKept
<1>7. ASSUME NEW h \in Hosts, GoSilent(h)
      PROVE  CountInv'
  BY <1>6, <1>7 DEF GoSilent
<1>8. CASE UNCHANGED vars
  BY <1>6, <1>8 DEF vars
<1> QED BY <1>2, <1>3, <1>4, <1>5, <1>7, <1>8 DEF Next

\* If every host has one source of reports and no statement failed, a ticket counts the
\* consecutive reports that kept it open.
THEOREM TicketsCountReports ==
  ASSUME OneSource
  PROVE  Spec => []CountsReports
<1>1. MatchInv /\ CountInv /\ [Next]_vars => CountInv'
  BY CountNext
<1>2. CountInv => CountsReports
  <2> SUFFICES ASSUME CountInv, NEW h \in Hosts, NEW k \in Kinds, Settled(h), failures = 0,
                      NEW r \in OpenAlerts(h, k)
               PROVE  r.count = streak[h][k]
    BY DEF CountsReports
  <2>1. ASSUME NEW w \in Reporters, ReporterHost[w] = h PROVE k \notin KindsLeft(w)
    <3>1. Len(todo[w]) = 0
      BY <2>1, EmptySeq DEF Settled
    <3> QED BY <3>1 DEF KindsLeft
  <2> QED BY <2>1 DEF CountInv, CountIsStreak, Due
<1> QED BY <1>1, <1>2, CountInit, MatchInvariant, PTL DEF Spec
=============================================================================
