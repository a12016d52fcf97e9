------------------------------- MODULE Alerts -------------------------------
(***************************************************************************)
(* Ingest and alerting of the control plane: SaveReport with               *)
(* evaluateAlerts, raiseAlert and resolveAlert, and the monitor loop that  *)
(* evaluates offline endpoints.                                            *)
(*                                                                         *)
(* None of it is a transaction: every SQL statement is a step of its own,  *)
(* and the handlers of concurrent reports and the monitor interleave       *)
(* between them.  A worker is what executes statements: one per source of  *)
(* reports (an agent's telemetry loop or an operator's agentless scans,    *)
(* each of which waits for its answer) and the monitor.                    *)
(*                                                                         *)
(* Time is left out but for what the code makes of it: an endpoint is      *)
(* silent once its last telemetry is older than the offline threshold.     *)
(***************************************************************************)
EXTENDS Naturals, Sequences, FiniteSets, SequencesExt

CONSTANTS
  Hosts,         \* hostnames in reports
  Reporters,     \* sources of reports
  ReporterHost,  \* ReporterHost[r]: the hostname in the reports of r
  Reports,       \* the reports that may be sent
  MaxReports,    \* bound on the number of reports
  MaxCount,      \* bound: an alert's count (and the streak) stops here
  MaxFailures    \* bound on the number of statements that fail

ASSUME HostsAreFinite == IsFiniteSet(Hosts)
ASSUME BoundsAreNat == MaxReports \in Nat /\ MaxFailures \in Nat /\ MaxCount \in Nat \ {0}
ASSUME ReporterHostIsHost == ReporterHost \in [Reporters -> Hosts]
ASSUME ReportsAreReports == Reports \subseteq [cpu : Nat, mem : Nat, disk : Nat]

Monitor == "monitor"

ASSUME MonitorIsNoReporter == Monitor \notin Reporters

Workers == Reporters \cup {Monitor}

Kinds == {"cpu", "mem", "disk"}

-----------------------------------------------------------------------------
(* Thresholds *)

\* Variant: the value must exceed the critical threshold.
MetricLevelAbove(value, warn, crit) ==
  IF value > crit THEN "critical" ELSE IF value >= warn THEN "warning" ELSE "ok"

MetricLevel(value, warn, crit) ==
  IF value >= crit THEN "critical" ELSE IF value >= warn THEN "warning" ELSE "ok"

\* The health of an endpoint, from its latest report.
Health(report) ==
  IF report.disk >= 95 \/ report.cpu >= 97 \/ report.mem >= 97 THEN "critical"
  ELSE IF report.disk >= 85 \/ report.cpu >= 90 \/ report.mem >= 90 THEN "warning"
  ELSE "ok"

\* The level evaluateAlerts gives to each metric of a report.
Level(report, kind) ==
  CASE kind = "cpu"  -> MetricLevel(report.cpu, 90, 97)
    [] kind = "mem"  -> MetricLevel(report.mem, 90, 97)
    [] kind = "disk" -> MetricLevel(report.disk, 85, 95)

\* The worst of a set of levels.
Worst(levels) ==
  IF "critical" \in levels THEN "critical"
  ELSE IF "warning" \in levels THEN "warning"
  ELSE "ok"

-----------------------------------------------------------------------------
VARIABLES
  latest,    \* latest[h]: the last row of telemetry of h; NoReport for none
  silent,    \* silent[h]: that row is older than the offline threshold
  open,      \* the alerts rows with status 'open'
  lastId,    \* id of the last inserted alert; stands for first_seen, too
  todo,      \* todo[w]: the checks w still has to evaluate
  found,     \* found[w]: what the SELECT of raiseAlert returned to w
  reports,   \* how many reports were stored
  failures,  \* how many statements failed
  streak,    \* streak[h][k]: consecutive reports of h with k over (history)
  missed     \* missed[h]: the last evaluation of h was cut short (history)

vars == <<latest, silent, open, lastId, todo, found, reports, failures, streak, missed>>

NoReport == [cpu |-> 0, mem |-> 0, disk |-> 0]

\* The SELECT was not made; it returned no row.  (There is no alert 0.)
Unread == [id |-> 0, count |-> 0]
NoRow  == [id |-> 0, count |-> 1]

AlertKinds == Kinds \cup {"offline"}
Levels     == {"ok", "warning", "critical"}

\* Types: the rows of telemetry and alerts, and the statements under way.
TypeOK ==
  /\ latest \in [Hosts -> Reports \cup {NoReport}]
  /\ silent \in [Hosts -> BOOLEAN]
  /\ lastId \in Nat
  /\ \A r \in open : r \in [id : 1..lastId, host : Hosts, kind : AlertKinds,
                            severity : Levels \ {"ok"}, count : 1..MaxCount]
  /\ todo \in [Workers -> Seq([host : Hosts, kind : AlertKinds, level : Levels])]
  /\ found \in [Workers -> {Unread, NoRow} \cup [id : 1..lastId, count : 1..MaxCount]]
  /\ reports \in 0..MaxReports
  /\ failures \in 0..MaxFailures
  /\ streak \in [Hosts -> [Kinds -> 0..MaxCount]]
  /\ missed \in [Hosts -> BOOLEAN]

Init ==
  /\ latest = [h \in Hosts |-> NoReport]
  /\ silent = [h \in Hosts |-> FALSE]
  /\ open = {}
  /\ lastId = 0
  /\ todo = [w \in Workers |-> <<>>]
  /\ found = [w \in Workers |-> Unread]
  /\ reports = 0
  /\ failures = 0
  /\ streak = [h \in Hosts |-> [k \in Kinds |-> 0]]
  /\ missed = [h \in Hosts |-> FALSE]

Capped(n) == IF n > MaxCount THEN MaxCount ELSE n

\* Endpoints the monitor knows of: those with a row of telemetry.
Seen == {h \in Hosts : latest[h] # NoReport}

OpenAlerts(h, k) == {r \in open : r.host = h /\ r.kind = k}

Check(h, k, l) == [host |-> h, kind |-> k, level |-> l]

-----------------------------------------------------------------------------
(* Actions *)

\* SaveReport: the row of telemetry is inserted; evaluateAlerts begins.
StoreReport(w, report) ==
  LET h == ReporterHost[w] IN
  /\ todo[w] = <<>>
  /\ reports < MaxReports
  /\ reports' = reports + 1
  /\ latest' = [latest EXCEPT ![h] = report]
  /\ silent' = [silent EXCEPT ![h] = FALSE]
  /\ todo' = [todo EXCEPT ![w] = <<Check(h, "cpu", Level(report, "cpu")),
                                   Check(h, "mem", Level(report, "mem")),
                                   Check(h, "disk", Level(report, "disk"))>>]
  /\ streak' = [streak EXCEPT ![h] =
                  [k \in Kinds |-> IF Level(report, k) = "ok" THEN 0 ELSE Capped(@[k] + 1)]]
  /\ missed' = [missed EXCEPT ![h] = FALSE]
  /\ UNCHANGED <<open, lastId, found, failures>>

\* Variant: a silent endpoint is not looked at again once it has its alert.
TickUnlessRaised ==
  /\ todo[Monitor] = <<>>
  /\ todo' = [todo EXCEPT ![Monitor] =
                SetToSeq({Check(h, "offline", IF silent[h] THEN "critical" ELSE "ok") :
                            h \in {g \in Seen : OpenAlerts(g, "offline") = {}}})]
  /\ UNCHANGED <<latest, silent, open, lastId, found, reports, failures, streak, missed>>

\* Variant: the query leaves out the endpoints that are silent.
TickActive ==
  /\ todo[Monitor] = <<>>
  /\ todo' = [todo EXCEPT ![Monitor] =
                SetToSeq({Check(h, "offline", "ok") : h \in {g \in Seen : ~silent[g]}})]
  /\ UNCHANGED <<latest, silent, open, lastId, found, reports, failures, streak, missed>>

\* EvaluateOffline begins: the last telemetry of every endpoint is read at once.
Tick ==
  /\ todo[Monitor] = <<>>
  /\ todo' = [todo EXCEPT ![Monitor] =
                SetToSeq({Check(h, "offline", IF silent[h] THEN "critical" ELSE "ok") :
                            h \in Seen})]
  /\ UNCHANGED <<latest, silent, open, lastId, found, reports, failures, streak, missed>>

\* The next check of w is done.
Advance(w) ==
  /\ todo' = [todo EXCEPT ![w] = Tail(@)]
  /\ found' = [found EXCEPT ![w] = Unread]

\* Variant: the severity is part of the key.
MatchingSeverity(w) ==
  {r \in OpenAlerts(Head(todo[w]).host, Head(todo[w]).kind) : r.severity = Head(todo[w]).level}

\* The open alerts with the hostname and kind of the next check of w.
Matching(w) == OpenAlerts(Head(todo[w]).host, Head(todo[w]).kind)

\* resolveAlert: every open alert of the host and kind is resolved.
ResolveAlert(w) ==
  /\ todo[w] # <<>>
  /\ Head(todo[w]).level = "ok"
  /\ open' = open \ Matching(w)
  /\ Advance(w)
  /\ UNCHANGED <<latest, silent, lastId, reports, failures, streak, missed>>

\* raiseAlert, its SELECT: the id and the count of an open alert, or no row.
SelectAlert(w) ==
  /\ todo[w] # <<>>
  /\ Head(todo[w]).level # "ok"
  /\ found[w] = Unread
  /\ IF Matching(w) = {} THEN found' = [found EXCEPT ![w] = NoRow]
     ELSE \E r \in Matching(w) : found' = [found EXCEPT ![w] = [id |-> r.id, count |-> r.count]]
  /\ UNCHANGED <<latest, silent, open, lastId, todo, reports, failures, streak, missed>>

\* Variant: only the repetitions are counted.
NewUncounted(w) ==
  [id |-> lastId + 1, host |-> Head(todo[w]).host, kind |-> Head(todo[w]).kind,
   severity |-> Head(todo[w]).level, count |-> 0]

NewAlert(w) ==
  [id |-> lastId + 1, host |-> Head(todo[w]).host, kind |-> Head(todo[w]).kind,
   severity |-> Head(todo[w]).level, count |-> 1]

\* raiseAlert, its INSERT.
InsertAlert(w) ==
  /\ found[w] = NoRow
  /\ lastId' = lastId + 1
  /\ open' = open \cup {NewAlert(w)}
  /\ Advance(w)
  /\ UNCHANGED <<latest, silent, reports, failures, streak, missed>>

\* Variants: the severity stays what it was when the alert was raised; the row
\* is replaced by a new one.
UpdatedCount(w, r) == [r EXCEPT !.count = Capped(found[w].count + 1)]
Replaced(w, r)     == [r EXCEPT !.id = lastId + 1, !.severity = Head(todo[w]).level]

Updated(w, r) == [r EXCEPT !.severity = Head(todo[w]).level, !.count = Capped(found[w].count + 1)]

\* raiseAlert, its UPDATE: by id, with the count that was read.
UpdateAlert(w) ==
  /\ found[w] \notin {Unread, NoRow}
  /\ open' = {IF r.id = found[w].id THEN Updated(w, r) ELSE r : r \in open}
  /\ Advance(w)
  /\ UNCHANGED <<latest, silent, lastId, reports, failures, streak, missed>>

\* A statement fails (SQLite is busy, the client is gone): the rest of the
\* evaluation is skipped.  Of a report the error is swallowed.
StatementFails(w) ==
  /\ todo[w] # <<>>
  /\ failures < MaxFailures
  /\ failures' = failures + 1
  /\ todo' = [todo EXCEPT ![w] = <<>>]
  /\ found' = [found EXCEPT ![w] = Unread]
  /\ missed' = [h \in Hosts |-> IF w # Monitor /\ h = ReporterHost[w] THEN TRUE ELSE missed[h]]
  /\ UNCHANGED <<latest, silent, open, lastId, reports, streak>>

\* Time passes without telemetry from h.
GoSilent(h) ==
  /\ h \in Seen
  /\ ~silent[h]
  /\ silent' = [silent EXCEPT ![h] = TRUE]
  /\ UNCHANGED <<latest, open, lastId, todo, found, reports, failures, streak, missed>>

Statement(w) == ResolveAlert(w) \/ SelectAlert(w) \/ InsertAlert(w) \/ UpdateAlert(w)

Next ==
  \/ \E w \in Reporters, report \in Reports : StoreReport(w, report)
  \/ Tick
  \/ \E w \in Workers : Statement(w) \/ StatementFails(w)
  \/ \E h \in Hosts : GoSilent(h)

Spec == Init /\ [][Next]_vars

\* Each worker takes its next statement; the ticker fires for ever.
Fairness == WF_vars(Tick) /\ \A w \in Workers : WF_vars(Statement(w))

FairSpec == Spec /\ Fairness

-----------------------------------------------------------------------------
(* Properties *)

\* An alert is keyed by host and kind: a condition has one ticket.
OneOpenAlert == \A r, s \in open : r.host = s.host /\ r.kind = s.kind => r = s

\* The evaluation of the last report of h went through.
Settled(h) == ~missed[h] /\ \A w \in Reporters : ReporterHost[w] = h => todo[w] = <<>>

\* After the evaluation of a report its host has the tickets its report calls
\* for and no other, whatever earlier evaluations left undone.
AlertsMatchReport ==
  \A h \in Hosts : Settled(h) => \A k \in Kinds :
    {r.severity : r \in OpenAlerts(h, k)} = {Level(latest[h], k)} \ {"ok"}

\* The dashboard's health of an endpoint is the worst of its open tickets.
HealthMatchesAlerts ==
  \A h \in Hosts : Settled(h) =>
    Health(latest[h]) = Worst({r.severity : r \in {s \in open : s.host = h /\ s.kind \in Kinds}})

\* "How many consecutive reports kept it open", if no evaluation was cut short.
CountsReports ==
  \A h \in Hosts, k \in Kinds : Settled(h) /\ failures = 0 =>
    \A r \in OpenAlerts(h, k) : r.count = streak[h][k]

\* "Keeps its first_seen": the ticket of a metric is the same one until a report
\* is under the threshold.
FirstSeenKept ==
  [][\A r \in open : r.kind \in Kinds /\ Level(latest[r.host], r.kind) # "ok" =>
       \E s \in open' : s.id = r.id]_vars

\* An endpoint that stays silent gets its offline ticket, even if it fell silent
\* while a tick that still saw it alive was under way.
OfflineIsRaised ==
  \A h \in Hosts : silent[h] ~> (~silent[h] \/ OpenAlerts(h, "offline") # {})

\* An endpoint that reports again loses it, even if the report came while a tick
\* that still saw it silent was under way.
OfflineIsResolved ==
  \A h \in Hosts : (OpenAlerts(h, "offline") # {} /\ ~silent[h]) ~>
    (silent[h] \/ OpenAlerts(h, "offline") = {})
=============================================================================
