----------------------------- MODULE Inventory -----------------------------
(***************************************************************************)
(* What the agent makes of the answers of the operating system: the        *)
(* metrics of collector.rs and the inventory of inventory.rs (Windows).    *)
(* Pure functions; Telemetry calls them in the order of the code.          *)
(*                                                                         *)
(* The answer to a query is a sequence of rows, or Failed.  A field of a   *)
(* row that may be absent is {} or a set of one value.  A text is a        *)
(* sequence of characters; a word is one character where nothing depends   *)
(* on its letters, such as a title of a table.                             *)
(***************************************************************************)
EXTENDS Integers, SequencesExt

CONSTANT Failed   \* the answer to a query that fails, a model value

Rows(query) == IF query = Failed THEN <<>> ELSE query

Or(option, default) == IF option = {} THEN default ELSE CHOOSE v \in option : TRUE

\* A field of the first row, if there is one and it has it.
FirstOr(query, default) == IF Rows(query) = <<>> THEN default ELSE Or(Head(query), default)

SeqMap(f(_), s) == [i \in DOMAIN s |-> f(s[i])]

\* The one of S that has k - 1 others before it.
Nth(S, before(_, _), k) == CHOOSE i \in S : Cardinality({j \in S : before(j, i)}) = k - 1

\* The elements of s that are left of the indexes in keep, in their order.
AtIndexes(s, keep) == [k \in 1..Cardinality(keep) |-> s[Nth(keep, <, k)]]

\* SelectSeq, by the indexes it keeps.
Chosen(s, test(_)) == AtIndexes(s, {i \in DOMAIN s : test(s[i])})

\* The answers: a row of a query whose fields may be absent; registry hives and keys that
\* cannot be opened; what winget prints.
Option(value) == {o \in SUBSET value : \A v, w \in o : v = w}
Answer(row) == {Failed} \cup Seq(row)

\* A name is <<letters, case>>; the letters are ordered as numbers are.
InstalledApp == [name : {<<>>} \cup (Nat \X STRING), version : Nat, component : BOOLEAN]

SmartStatus == [name : Option(STRING), predicts : Option(BOOLEAN)]
Connection  == [local : STRING, state : Option(Nat), pid : Option(Nat)]
Process     == [id : Option(Nat), name : Option(STRING)]

\* The titles of winget's table; a line with the first four is its header.
Titles == <<"Name", "Id", "Version", "Available", "Source">>

IsHeader(l) == \A c \in 1..4 : Contains(l, Titles[c])

\* What winget draws before its table is no header.
Machine ==
  [wmi : BOOLEAN, mem : [used : Nat, total : Nat], volumes : Seq([total : Nat, avail : Nat]),
   system : Answer(Option(STRING)), bios : Answer(Option(STRING)), board : Answer(Option(STRING)),
   drives : Answer(Option(STRING)),
   usb : Answer([id : Option(Seq(STRING)), name : Option(STRING)]),
   hives : Seq(Answer(InstalledApp)),
   hotfixes : Answer(Option(STRING)),
   smart : Answer(SmartStatus),
   winget : {Failed} \cup [rows : Seq([1..4 -> Seq(STRING)]), trailer : Seq(STRING),
                           frames : Seq({l \in Seq(STRING) : ~IsHeader(l)})],
   services : Answer(Option(STRING)),
   keys : Seq(Answer(STRING)),
   conns : Answer(Connection),
   procs : Answer(Process)]

Trim(s) ==
  LET black == {i \in DOMAIN s : s[i] # " "}
  IN  IF black = {} THEN <<>> ELSE SubSeq(s, Min(black), Max(black))

-----------------------------------------------------------------------------
(* Metrics *)

\* A share in hundredths of a percent, rounded.
Percent(used, total) == IF total = 0 THEN 0 ELSE (20000 * used + total) \div (2 * total)

\* A volume may have more space available than it has in total (quotas).
UsagePct(volume) ==
  Percent(IF volume.avail > volume.total THEN 0 ELSE volume.total - volume.avail, volume.total)

Metrics(machine) ==
  [mem |-> Percent(machine.mem.used, machine.mem.total), disks |-> SeqMap(UsagePct, machine.volumes)]

-----------------------------------------------------------------------------
(* Devices and software *)

\* The word after the first one that is key, in an id such as USB, \, VID_, 046D, &,
\* PID_, C52B, \, 5&AB.
After(id, key) ==
  LET hits == {i \in DOMAIN id : id[i] = key}
  IN  IF hits = {} \/ Min(hits) = Len(id) THEN "" ELSE id[Min(hits) + 1]

UsbDevice(row) ==
  LET id == Or(row.id, <<>>)
      slashes == {i \in DOMAIN id : id[i] = "\\"}
  IN  [name |-> Or(row.name, ""), vid |-> After(id, "VID_"), pid |-> After(id, "PID_"),
       serial |-> IF slashes = {} THEN id ELSE SubSeq(id, Max(slashes) + 1, Len(id))]

\* Apps without a name and system components are left out.
Shown(app) == app.name # <<>> /\ ~app.component

\* Variant: the first hive that cannot be opened ends the reading.
OpenHivesToFirst(hives) ==
  LET closed == {i \in DOMAIN hives : hives[i] = Failed}
  IN  IF closed = {} THEN hives ELSE SubSeq(hives, 1, Min(closed) - 1)

\* A hive that cannot be opened is passed over.
OpenHives(hives) == Chosen(hives, LAMBDA h : h # Failed)

\* Sorted by letters alone, in a stable sort; then an app that is equal to the one
\* before it is left out.
ReadSoftware(hives) ==
  LET apps   == SeqMap(LAMBDA a : [name |-> a.name, version |-> a.version],
                       Chosen(FlattenSeq(OpenHives(hives)), Shown))
      before(i, j) == \/ apps[i].name[1] < apps[j].name[1]
                      \/ apps[i].name[1] = apps[j].name[1] /\ i < j
      sorted == [k \in DOMAIN apps |-> apps[Nth(DOMAIN apps, before, k)]]
  IN  AtIndexes(sorted, {i \in DOMAIN sorted : i = 1 \/ sorted[i] # sorted[i - 1]})

\* The values of the Run keys that can be opened.
ReadStartupItems(keys) == FlattenSeq(Chosen(keys, LAMBDA k : k # Failed))

\* Disks whose SMART status predicts a failure.
HealthWarnings(smart) ==
  SeqMap(LAMBDA r : Or(r.name, "unknown disk"),
         Chosen(Rows(smart), LAMBDA r : r.predicts = {TRUE}))

-----------------------------------------------------------------------------
(* Connections and their processes *)

\* State 2 is Listen, 5 is Established; the others are left out.
Lasting(row) == row.state \in {{2}, {5}}

\* The name of the last process listed with the pid; a process without id or name
\* is passed over.
NameOf(pid, procs) ==
  LET hits == {i \in DOMAIN procs : procs[i].id = {pid} /\ procs[i].name # {}}
  IN  IF hits = {} THEN "" ELSE Or(procs[Max(hits)].name, "")

Connections(conns, procs) ==
  SeqMap(LAMBDA c : [local |-> c.local, pid |-> Or(c.pid, 0),
                     process |-> NameOf(Or(c.pid, 0), Rows(procs))],
         Chosen(Rows(conns), Lasting))

-----------------------------------------------------------------------------
(* The table of winget *)

\* winget pads cells to the width they take on a terminal, where some characters
\* take two places.  Spinner frames precede the header and are overwritten by a
\* carriage return; trailing lines follow the rows.
WideChar == "wide"
Width(s) == Len(s) + Cardinality({i \in DOMAIN s : s[i] = WideChar})

ColumnWidth(rows, c) == 1 + Max({1} \cup {Width(r[c]) : r \in ToSet(rows)})

AvailableOffset(rows) == ColumnWidth(rows, 1) + ColumnWidth(rows, 2) + ColumnWidth(rows, 3)

Padded(s, width) == s \o [i \in 1..(width - Width(s)) |-> " "]

TableLine(rows, cells) ==
  Padded(cells[1], ColumnWidth(rows, 1)) \o Padded(cells[2], ColumnWidth(rows, 2))
    \o Padded(cells[3], ColumnWidth(rows, 3)) \o Padded(cells[4], ColumnWidth(rows, 4)) \o cells[5]

Header(rows) == TableLine(rows, [c \in 1..5 |-> <<Titles[c]>>])

RowLine(rows, row) == <<TableLine(rows, row \o << <<"winget">> >>)>>

WingetOutput(o) ==
  << o.frames \o <<Header(o.rows)>>, <<[i \in DOMAIN Header(o.rows) |-> "-"]>> >>
    \o SeqMap(LAMBDA row : RowLine(o.rows, row), o.rows) \o << <<o.trailer>> >>

\* A line that is blank, a progress bar, or a frame of the spinner.
IsNoise(l) ==
  \/ Trim(l) = <<>>
  \/ Contains(l, "bar")
  \/ Len(Trim(l)) <= 2 /\ ToSet(Trim(l)) \subseteq {"-", "\\", "|", "/"}

\* Variant: a carriage return does not end a line.
LinesOfText(text) == Chosen(SeqMap(LAMBDA parts : FlattenSeq(parts), text),
                               LAMBDA l : ~IsNoise(l))

\* A text is a sequence of lines, a line a sequence of what carriage returns part.
TableLines(text) == Chosen(FlattenSeq(text), LAMBDA l : ~IsNoise(l))

Slice(l, from, to) == Trim(SubSeq(l, from + 1, Min({to, Len(l)})))

\* A column begins where its title does in the header.  A table without the last title
\* ends with its lines.
ColumnOffset(lines, header, c) ==
  IF Contains(header, Titles[c])
  THEN Min({i \in DOMAIN header : header[i] = Titles[c]}) - 1
  ELSE Max({Len(lines[i]) : i \in DOMAIN lines})

Cells(l, offset) ==
  << Slice(l, 0, offset[2]), Slice(l, offset[2], offset[3]),
     Slice(l, offset[3], offset[4]), Slice(l, offset[4], offset[5]) >>

\* A line is an update if it has an id and an available version.
IsUpdate(l, offset) ==
  /\ Trim(l)[1] # "-"
  /\ Len(l) > offset[2]
  /\ Cells(l, offset)[2] # <<>> /\ Cells(l, offset)[4] # <<>>

ParseWingetTable(text) ==
  LET lines   == TableLines(text)
      headers == {i \in DOMAIN lines : IsHeader(lines[i])}
      offset  == [c \in 2..5 |-> ColumnOffset(lines, lines[Min(headers)], c)]
  IN  IF headers = {} THEN <<>>
      ELSE SeqMap(LAMBDA l : Cells(l, offset),
                  Chosen(SubSeq(lines, Min(headers) + 1, Len(lines)), LAMBDA l : IsUpdate(l, offset)))

\* Best effort: no updates if winget cannot be run.
ReadWingetUpdates(winget) ==
  IF winget = Failed THEN <<>> ELSE ParseWingetTable(WingetOutput(winget))

-----------------------------------------------------------------------------
(* The inventory, in three parts: what is read before winget, its table, the rest. *)

NoInventory == [found |-> FALSE]

\* Without COM or WMI there is no inventory; any single query may fail.
FirstSections(m) ==
  IF ~m.wmi THEN NoInventory
  ELSE [found |-> TRUE,
        maker |-> FirstOr(m.system, ""), bios |-> FirstOr(m.bios, ""), board |-> FirstOr(m.board, ""),
        disks |-> SeqMap(LAMBDA serial : Or(serial, ""), Rows(m.drives)),
        usb |-> SeqMap(UsbDevice, Rows(m.usb)),
        software |-> ReadSoftware(m.hives),
        hotfixes |-> SeqMap(LAMBDA q : Or(q, ""), Chosen(Rows(m.hotfixes), LAMBDA q : q # {})),
        warnings |-> HealthWarnings(m.smart),
        updates |-> <<>>, services |-> <<>>, startup |-> <<>>, connections |-> <<>>]

\* The updates, the auto-start services and the Run keys.
WithUpdates(inv, m) ==
  [inv EXCEPT !.updates  = ReadWingetUpdates(m.winget),
              !.services = SeqMap(LAMBDA path : Or(path, ""), Rows(m.services)),
              !.startup  = ReadStartupItems(m.keys)]
=============================================================================
