----------------------------- MODULE Telemetry -----------------------------
(***************************************************************************)
(* The telemetry of one endpoint: the loop of its agent, which collects a  *)
(* report, posts it and sleeps, and the control plane, which stores what   *)
(* arrives and looks every now and then for endpoints that fell silent.    *)
(*                                                                         *)
(* Time passes in units of which the intervals of the code are multiples.  *)
(* Collecting and posting take any time, since nothing in the code bounds  *)
(* them.  The statements of SaveReport and EvaluateOffline are far         *)
(* shorter than a unit; how they interleave is the matter of Alerts.       *)
(***************************************************************************)
EXTENDS Inventory

CONSTANTS
  Interval,      \* WATCHCLAW_INTERVAL: sleep between two reports
  OfflineAfter,  \* WATCHCLAW_OFFLINE_AFTER: silence that is still excused
  MonInterval,   \* WATCHCLAW_MONITOR_INTERVAL: time between two evaluations
  Machines,      \* what the system may answer
  Processes,     \* process tables the system may have
  NoMachine,     \* between two collections, a model value
  Horizon,       \* bound: clocks of silence stop here
  MaxFaults      \* bound on crashes, lost posts and failed evaluations

ASSUME IntervalsAreTimes == Interval \in Nat /\ OfflineAfter \in Nat /\ MonInterval \in Nat \ {0}
ASSUME HorizonIsFar == Horizon \in Nat /\ OfflineAfter + MonInterval < Horizon
ASSUME FaultsAreNat == MaxFaults \in Nat
ASSUME MachinesAreTyped == Machines \subseteq Machine /\ Processes \subseteq Seq(Process)

VARIABLES
  phase,      \* where the telemetry loop is
  nap,        \* sleep that is left
  machine,    \* what the system answers to the queries of this collection
  metrics,    \* the report under construction
  hardware,
  table,      \* the connections collect has read
  before,     \* the processes when it read them (history)
  scanning,   \* the scan thread is in scan()
  up,         \* the control plane is running
  known,      \* it has a row of telemetry of the endpoint
  age,        \* time since the last row was received
  tick,       \* time until the monitor's next tick
  offline,    \* there is an open offline alert
  lost,       \* posts that failed in a row (history)
  busy,       \* time since the last row not spent sleeping (history)
  unwatched,  \* time since the last evaluation that went through (history)
  faults

reading == <<machine, metrics, hardware, table, before>>
server  == <<up, known, age, tick, offline, unwatched>>
vars    == <<phase, nap, reading, scanning, server, lost, busy, faults>>

Later(t) == IF t < Horizon THEN t + 1 ELSE t

\* The stages of collect after the first answer.
Reading == {"winget", "connections", "processes", "collected"}

NoMetrics == [mem |-> 0, disks |-> <<>>]

Init ==
  /\ phase = "collecting" /\ nap = 0
  /\ machine = NoMachine /\ metrics = NoMetrics /\ hardware = NoInventory
  /\ table = Failed /\ before = Failed
  /\ scanning = FALSE
  /\ up = TRUE /\ known = FALSE /\ age = 0 /\ tick = MonInterval /\ offline = FALSE
  /\ lost = 0 /\ busy = 0 /\ unwatched = 0 /\ faults = 0

-----------------------------------------------------------------------------
(* collect() *)

\* The metrics and the sections up to winget.  Whatever time the queries and winget
\* take is spent before.
ReadFirstSections(m) ==
  /\ phase = "collecting"
  /\ machine' = m
  /\ metrics' = Metrics(m)
  /\ hardware' = FirstSections(m)
  /\ phase' = IF m.wmi THEN "winget" ELSE "collected"
  /\ UNCHANGED <<nap, table, before, scanning, server, lost, busy, faults>>

\* The table of winget; services and autorun entries are read.
ReadUpdates ==
  /\ phase = "winget"
  /\ hardware' = WithUpdates(hardware, machine)
  /\ phase' = "connections"
  /\ UNCHANGED <<nap, machine, metrics, table, before, scanning, server, lost, busy, faults>>

ReadConnections ==
  /\ phase = "connections"
  /\ table' = machine.conns
  /\ before' = machine.procs
  /\ phase' = IF machine.conns = Failed THEN "collected" ELSE "processes"
  /\ UNCHANGED <<nap, machine, metrics, hardware, scanning, server, lost, busy, faults>>

\* Meanwhile processes start and exit, and pids are used again.
ProcessesChange(procs) ==
  /\ phase = "processes"
  /\ machine.procs # Failed
  /\ machine' = [machine EXCEPT !.procs = procs]
  /\ UNCHANGED <<phase, nap, metrics, hardware, table, before, scanning, server, lost, busy, faults>>

ReadProcesses ==
  /\ phase = "processes"
  /\ hardware' = [hardware EXCEPT !.connections = Connections(table, machine.procs)]
  /\ phase' = "collected"
  /\ UNCHANGED <<nap, machine, metrics, table, before, scanning, server, lost, busy, faults>>

-----------------------------------------------------------------------------
(* deliver() and the sleep *)

ForgetReading ==
  /\ machine' = NoMachine /\ metrics' = NoMetrics /\ hardware' = NoInventory
  /\ table' = Failed /\ before' = Failed

\* The report is sent; nothing here depends on what it says any more.
SendReport ==
  /\ phase = "collected"
  /\ phase' = "posting"
  /\ ForgetReading
  /\ UNCHANGED <<nap, scanning, server, lost, busy, faults>>

\* postTelemetry, SaveReport: the row is stamped with the server's clock.
StoreReport ==
  /\ phase = "posting"
  /\ up
  /\ known' = TRUE
  /\ age' = 0
  /\ phase' = "answered"
  /\ lost' = 0
  /\ busy' = 0
  /\ UNCHANGED <<nap, reading, scanning, up, tick, offline, unwatched, faults>>

Sleep ==
  /\ phase' = "sleeping"
  /\ nap' = Interval
  /\ UNCHANGED reading

\* With a success or an error: nothing depends on it.
PostReturns ==
  /\ phase = "answered"
  /\ Sleep
  /\ UNCHANGED <<scanning, server, lost, busy, faults>>

\* Variant: the loop ends as a single delivery does.
PostFailsForGood ==
  /\ phase = "posting"
  /\ \/ ~up /\ UNCHANGED faults
     \/ faults < MaxFaults /\ faults' = faults + 1
  /\ phase' = "exited"
  /\ lost' = Later(lost)
  /\ UNCHANGED <<nap, reading, scanning, server, busy>>

\* The control plane is down, the connection breaks, or the row is not stored.  The
\* report is dropped.
PostFails ==
  /\ phase = "posting"
  /\ \/ ~up /\ UNCHANGED faults
     \/ faults < MaxFaults /\ faults' = faults + 1
  /\ lost' = Later(lost)
  /\ Sleep
  /\ UNCHANGED <<scanning, server, busy>>

\* Variant: the scan is part of the loop, the next report has to wait for it.
DueBetweenScans == phase = "sleeping" /\ nap = 0 /\ ~scanning

\* The loop must go on: it does not sleep longer than the interval.
Due == phase = "sleeping" /\ nap = 0

WakeUp ==
  /\ phase = "sleeping"
  /\ nap = 0
  /\ phase' = "collecting"
  /\ UNCHANGED <<nap, reading, scanning, server, lost, busy, faults>>

\* The scan has its own thread, and takes any time; its pace is left out.
StartScan == phase # "down" /\ ~scanning /\ scanning' = TRUE
EndScan   == scanning /\ scanning' = FALSE

Scan == (StartScan \/ EndScan) /\ UNCHANGED <<phase, nap, reading, server, lost, busy, faults>>

\* The agent or its machine stops; later it is started again.
AgentStops ==
  /\ phase # "down"
  /\ faults < MaxFaults
  /\ faults' = faults + 1
  /\ phase' = "down"
  /\ nap' = 0
  /\ scanning' = FALSE
  /\ ForgetReading
  /\ UNCHANGED <<server, lost, busy>>

AgentStarts ==
  /\ phase = "down"
  /\ phase' = "collecting"
  /\ UNCHANGED <<nap, reading, scanning, server, lost, busy, faults>>

-----------------------------------------------------------------------------
(* The control plane *)

\* Variants: the threshold itself is enough; an alert is never taken back.
IsOverdueAt  == known /\ age >= OfflineAfter
IsOverdueNow == known /\ (offline \/ age > OfflineAfter)

IsOverdue == known /\ age > OfflineAfter

\* EvaluateOffline raises the alert or resolves it.
Evaluate ==
  /\ up
  /\ tick = 0
  /\ tick' = MonInterval
  /\ offline' = IsOverdue
  /\ unwatched' = 0
  /\ UNCHANGED <<phase, nap, reading, scanning, up, known, age, lost, busy, faults>>

\* The evaluation fails and is logged; the ticker goes on.
EvaluationFails ==
  /\ up
  /\ tick = 0
  /\ faults < MaxFaults
  /\ faults' = faults + 1
  /\ tick' = MonInterval
  /\ UNCHANGED <<phase, nap, reading, scanning, up, known, age, offline, unwatched, lost, busy>>

ServerStops ==
  /\ up
  /\ faults < MaxFaults
  /\ faults' = faults + 1
  /\ up' = FALSE
  /\ UNCHANGED <<phase, nap, reading, scanning, known, age, tick, offline, unwatched, lost, busy>>

\* The ticker of the monitor begins anew.
ServerStarts ==
  /\ ~up
  /\ up' = TRUE
  /\ tick' = MonInterval
  /\ UNCHANGED <<phase, nap, reading, scanning, known, age, offline, unwatched, lost, busy, faults>>

-----------------------------------------------------------------------------
\* A unit of time passes, unless a sleep or a tick is over.
Wait ==
  /\ phase \notin Reading
  /\ ~Due
  /\ up => tick > 0
  /\ tick' = IF up THEN tick - 1 ELSE tick
  /\ nap' = IF phase = "sleeping" /\ nap > 0 THEN nap - 1 ELSE nap
  /\ age' = IF known THEN Later(age) ELSE age
  /\ busy' = IF known /\ phase # "sleeping" THEN Later(busy) ELSE busy
  /\ unwatched' = Later(unwatched)
  /\ UNCHANGED <<phase, reading, scanning, up, known, offline, lost, faults>>

Collect ==
  \/ \E m \in Machines : ReadFirstSections(m)
  \/ ReadUpdates
  \/ ReadConnections
  \/ ReadProcesses
  \/ SendReport

Loop == StoreReport \/ PostReturns \/ PostFails \/ WakeUp

Next ==
  \/ Collect \/ Loop
  \/ \E procs \in Processes : ProcessesChange(procs)
  \/ Scan
  \/ AgentStops \/ AgentStarts
  \/ Evaluate \/ EvaluationFails
  \/ ServerStops \/ ServerStarts
  \/ Wait

Spec == Init /\ [][Next]_vars

\* Time passes, the monitor ticks, docker starts the control plane again, the loop goes
\* on.  That collect and a post come to an end is an assumption: the code gives neither
\* winget nor the post a timeout.
CollectEnds == phase \in {"collecting"} \cup Reading ~> phase \notin {"collecting"} \cup Reading

Fairness == WF_vars(Wait) /\ WF_vars(Evaluate \/ ServerStarts) /\ WF_vars(Loop) /\ CollectEnds

FairSpec == Spec /\ Fairness

-----------------------------------------------------------------------------
(* Properties *)

\* Types.
TypeOK ==
  /\ phase \in {"down", "sleeping", "collecting", "posting", "answered"} \cup Reading
  /\ nap \in 0..Interval
  /\ scanning \in BOOLEAN /\ up \in BOOLEAN /\ known \in BOOLEAN /\ offline \in BOOLEAN
  /\ age \in 0..Horizon /\ busy \in 0..Horizon /\ unwatched \in 0..Horizon /\ lost \in 0..Horizon
  /\ tick \in 0..MonInterval
  /\ faults \in 0..MaxFaults

\* "A scan that runs longer than the offline threshold would make the endpoint flap
\* to offline": an endpoint becomes offline only if so many of its reports were lost, or
\* it was down, collecting or posting for so long, that its sleeps alone do not make
\* up the silence.  Scans, however long, do not count.
NoFalseAlarm ==
  [][~offline /\ offline' => (lost + 1) * Interval + busy > OfflineAfter]_vars

\* An endpoint that was heard before the last evaluation is shown as what it was then:
\* offline after a silence beyond the threshold, at the threshold not yet.
SilenceIsNoticed ==
  known /\ unwatched < age /\ age < Horizon => (offline <=> age - unwatched > OfflineAfter)

\* The control plane is a failure detector: alarms are justified, and neither they nor
\* their withdrawal are put off for ever, whatever fails in between.
Watch == INSTANCE FailureDetector WITH silence <- age, alarm <- offline, Limit <- OfflineAfter

WatchSpec == Watch!FairSpec

\* "A transient hiccup must not kill the agent": as long as it is not stopped its
\* reports keep coming, whatever was lost.
ReportsKeepComing == <>[](phase # "down") => []<>(known /\ age = 0)

InReport == phase = "collected" /\ hardware.found

\* One query that fails costs its own section and no other: what could be read of
\* software, autorun entries, disks and connections is in the report; a connection is
\* named by its process if that is there when the processes are read, later.
ReadableIsReported ==
  InReport =>
    /\ \A i \in DOMAIN machine.hives : machine.hives[i] # Failed =>
         \A a \in ToSet(machine.hives[i]) : Shown(a) =>
           Contains(hardware.software, [name |-> a.name, version |-> a.version])
    /\ \A i \in DOMAIN machine.keys : machine.keys[i] # Failed =>
         ToSet(machine.keys[i]) \subseteq ToSet(hardware.startup)
    /\ \A r \in ToSet(Rows(machine.smart)) : r.predicts = {TRUE} /\ r.name # {} =>
         Contains(hardware.warnings, Or(r.name, ""))
    /\ machine.drives # Failed => Len(hardware.disks) = Len(machine.drives)
    /\ machine.conns # Failed =>
         \A c \in ToSet(machine.conns) : Lasting(c) =>
           LET pid == Or(c.pid, 0)
               owner == NameOf(pid, Rows(before))
           IN  \E name \in {owner, NameOf(pid, Rows(machine.procs))} \cup {""} :
                 /\ Contains(hardware.connections, [local |-> c.local, pid |-> pid, process |-> name])
                 /\ owner = NameOf(pid, Rows(machine.procs)) => name = owner

\* What the table shows of a row is what it says: no character takes two places or is one
\* of a progress bar, no cell ends in blanks, there are an id and a version to update to,
\* and the line is no separator.
Readable(row) ==
  /\ \A c \in 1..4 : ToSet(row[c]) \cap {WideChar, "bar"} = {} /\ Trim(row[c]) = row[c]
  /\ row[2] # <<>> /\ row[4] # <<>>
  /\ Head(row[1] \o row[2]) # "-"

\* Pending updates are those winget lists, each with its own name and versions, whatever
\* is in the other rows and the lengths of the cells, and behind any spinner.  A trailing
\* line that reaches the fourth column is taken for an update, and rows that are not
\* readable may be misread or left out; nothing else is made up.
UpdatesAreRows ==
  InReport /\ machine.winget # Failed =>
    LET rows == machine.winget.rows
        long == Len(machine.winget.trailer) > AvailableOffset(rows)
    IN  /\ \A i \in DOMAIN rows : Readable(rows[i]) => Contains(hardware.updates, rows[i])
        /\ ~long /\ (\A i \in DOMAIN rows : Readable(rows[i])) => hardware.updates = rows
        /\ Len(hardware.updates) <= Len(rows) + (IF long THEN 1 ELSE 0)
=============================================================================
