---------------------------- MODULE MCNetworkMap ----------------------------
(* NetworkMap with addresses of four bits, the last two being the last part *)
(* of an address: subnets of 16, 8 and 4 addresses, of which at most three  *)
(* are probed.                                                              *)
EXTENDS NetworkMap

Interface(kind, ip, prefix) == [kind |-> kind, ip |-> ip, prefix |-> prefix]
Agent(os, interfaces, gateway, old) ==
  [system |-> os, interfaces |-> interfaces, gateway |-> gateway, old |-> old]

\* No subnet at all; a LAN behind a VPN and the loopback; a small LAN that the
\* address of another network does not hide; a mask of zeros.
SampleAgents ==
  { Agent("linux", <<Interface("loopback", 0, 1), Interface("public", 9, 4)>>, 5, FALSE),
    Agent("linux", <<Interface("public", 9, 3), Interface("linklocal", 12, 1), Interface("private", 2, 1)>>,
          5, FALSE),
    Agent("windows", <<Interface("public", 6, 2), Interface("public", 9, 1)>>, NoAddr, FALSE),
    Agent("other", <<Interface("private", 3, 0)>>, NoAddr, TRUE) }

Line(header, text) == [header |-> header, text |-> text]

\* A laptop with a telling name, a printer that speaks SSDP, mDNS and HTTP, and a
\* host that drops connections and announces much.
Laptop  == [Nobody EXCEPT !.tcp = TRUE, !.ports = {22, 445}, !.mac = "02:00:01",
                          !.ptr = {"laptop-", "srv"},
                          !.greets = (22 :> <<Line("", <<>>), Line("", <<"s", Control, "s", "h">>)>>)]
Printer == [Nobody EXCEPT !.tcp = TRUE, !.ports = {80, 8080, 9100}, !.mac = "02:00:02",
                          !.sts = {"basic:1"}, !.name = {"nas"}, !.services = {"_ipp"},
                          !.greets = (80 :> <<Line("", <<"o", "k">>), Line("server", <<"w">>)>>)
                                       @@ (8080 :> <<Line("", <<Control>>)>>)]
Silent  == [Nobody EXCEPT !.mac = "02:00:03", !.sts = {"rootdevice", "dial"}, !.name = {"esp"},
                          !.services = {"_http", "_ssh"}]

SampleHosts == {Laptop, Printer, Silent}

Row(oui, short) == [oui |-> oui, short |-> short]

\* The zero OUI has a vendor; one OUI has none, and one is divided among several.
SampleManuf ==
  << Row("00:00:00", {"xerox"}), Row("02:00:01", {}), Row("02:00:01", {"tp-link"}),
     Row("02:00:01", {"hp"}), Row("02:00:02", {"canon"}) >>
=============================================================================
