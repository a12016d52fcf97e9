----------------------------- MODULE MCTelemetry -----------------------------
(* Telemetry in units of a minute: a report and an evaluation every minute, *)
(* offline after three.                                                      *)
EXTENDS Telemetry

App(letters, case, version) ==
  [name |-> <<letters, case>>, version |-> version, component |-> FALSE]

Nameless  == [name |-> <<>>, version |-> 1, component |-> FALSE]
Component == [name |-> <<2, "a">>, version |-> 1, component |-> TRUE]

Conn(local, state, pid) == [local |-> local, state |-> state, pid |-> pid]
Proc(id, name)          == [id |-> id, name |-> name]

Lines(rows, frames, trailer) == [rows |-> rows, frames |-> frames, trailer |-> trailer]

Sevenzip == << <<"7", "-">>, <<"7", ".", "7">>, <<"2">>, <<"3">> >>
Editor   == << <<"E", " ", "d", "x">>, <<"e">>, <<"1", ".">>, <<"2", ".">> >>
Wide     == << <<"wide", "y">>, <<"w", "w">>, <<"1">>, <<"2">> >>
Unnamed  == << <<>>, <<"u">>, <<>>, <<"2">> >>
Dashed   == << <<"-", "d">>, <<"d">>, <<"1">>, <<"2">> >>

Summary == <<"2", " ", "u", "p">>
Pins    == <<"p", "i", "n", "s", " ", "a", "r", "e", " ", "k", "e", "p", "t", " ", "b", "a", "c", "k">>

Base ==
  [ wmi |-> TRUE, mem |-> [used |-> 1, total |-> 3],
    volumes |-> << [total |-> 0, avail |-> 0], [total |-> 2, avail |-> 3], [total |-> 3, avail |-> 1] >>,
    system |-> <<{"maker"}>>, bios |-> <<{}>>, board |-> <<>>,
    drives |-> <<{"s1"}, {}>>,
    usb |-> << [id |-> {<<"USB", "\\", "VID_", "046D", "&", "PID_", "C52B", "\\", "5">>}, name |-> {"hub"}] >>,
    hives |-> << <<App(2, "a", 1), Nameless, App(1, "a", 1)>>, <<App(1, "a", 1), Component>>,
                 <<App(1, "A", 1), App(1, "a", 2)>> >>,
    hotfixes |-> <<{"kb1"}, {}>>,
    smart |-> << [name |-> {"d1"}, predicts |-> {TRUE}], [name |-> {}, predicts |-> {TRUE}],
                 [name |-> {"d2"}, predicts |-> {}] >>,
    winget |-> Lines(<<Sevenzip, Editor>>, <<<<"-">>, <<" ", "\\">>, <<"bar", "bar">>>>, Summary),
    services |-> <<{"path"}>>,
    keys |-> << <<"run1">>, <<>>, <<"run2", "run3">> >>,
    conns |-> <<Conn("l1", {2}, {4}), Conn("l2", {5}, {8}), Conn("l3", {8}, {4}), Conn("l4", {2}, {})>>,
    procs |-> <<Proc({4}, {"sshd"}), Proc({8}, {"curl"}), Proc({9}, {}), Proc({}, {"x"})>> ]

\* The base, and one in which each answer is missing or odd.
SampleMachines ==
  { Base,
    [Base EXCEPT !.wmi = FALSE],
    [Base EXCEPT !.system = Failed, !.drives = Failed, !.smart = Failed, !.hotfixes = Failed,
                 !.hives = <<Failed, @[2], @[3]>>, !.winget.frames = <<>>, !.winget.trailer = Pins,
                 !.conns = Failed],
    [Base EXCEPT !.usb = Failed, !.services = Failed, !.keys = <<Failed, @[1], @[3]>>,
                 !.winget.rows = <<Wide, Unnamed, Dashed, Sevenzip>>],
    [Base EXCEPT !.winget = Failed, !.procs = Failed] }

\* A process has exited, another has its pid.
SampleProcesses == { <<Proc({8}, {"other"}), Proc({9}, {})>> }
=============================================================================
