--------------------------- MODULE Announcements ---------------------------
(***************************************************************************)
(* What the LAN scan learns of a device besides its open ports: the maker  *)
(* of its network card, its SSDP and mDNS announcements, the banners of    *)
(* its services.                                                           *)
(*                                                                         *)
(* Of a MAC address only its first 24 bits count, the OUI.  Vendors, names *)
(* and search targets are sets of words as in Fingerprint; {} is empty.    *)
(***************************************************************************)
EXTENDS Naturals, SequencesExt, TLC

CONSTANTS
  Manuf,         \* the rows of manuf.txt
  BannerLength   \* how much of a banner is kept: 120

ASSUME BannerLengthIsNat == BannerLength \in Nat

ZeroMac      == "00:00:00"   \* Linux lists it for an entry that is not resolved
BroadcastMac == "FF:FF:FF"

\* Longer blocks fall onto their OUI; its first row with a name counts.
Vendor(mac) ==
  LET rows == {i \in DOMAIN Manuf : Manuf[i].oui = mac /\ Manuf[i].short # {}}
  IN  IF rows = {} THEN {} ELSE Manuf[Min(rows)].short

-----------------------------------------------------------------------------
(* Announcements, collected by address *)

Put(f, ip, v) == [a \in DOMAIN f \cup {ip} |-> IF a = ip THEN v ELSE f[a]]

\* The first response of an address counts.
WithResponse(ssdp, ip, st) == IF ip \in DOMAIN ssdp THEN ssdp ELSE Put(ssdp, ip, st)

NoServices == [name |-> {}, services |-> {}]

\* Services add up; the first name counts.
WithService(mdns, ip, name, service) ==
  LET old == IF ip \in DOMAIN mdns THEN mdns[ip] ELSE NoServices
  IN  Put(mdns, ip, [name     |-> IF old.name = {} THEN name ELSE old.name,
                     services |-> old.services \cup {service}])

-----------------------------------------------------------------------------
(* Banners *)

Labels ==
  (22 :> "ssh") @@ (21 :> "ftp") @@ (23 :> "telnet") @@ (25 :> "smtp") @@ (587 :> "smtp")
    @@ (110 :> "pop3") @@ (143 :> "imap") @@ (80 :> "http") @@ (8080 :> "http")

Control == "ctl"   \* any control character

Sanitize(text) ==
  LET shown == SelectSeq(text, LAMBDA c : c # Control)
  IN  SubSeq(shown, 1, Min({BannerLength, Len(shown)}))

\* An answer is a sequence of lines, a line its header's name, if any, and its text.
\* Of an HTTP answer the Server header is taken or else the status line, of another
\* service the first line that is not empty.
Greeting(port, lines) ==
  LET telling == {i \in DOMAIN lines :
                    IF Labels[port] = "http" THEN lines[i].header = "server"
                    ELSE lines[i].text # <<>>}
  IN  IF telling # {} THEN lines[Min(telling)].text
      ELSE IF Labels[port] = "http" /\ lines # <<>> THEN lines[1].text ELSE <<>>

\* The banner of a port, if it is one that is asked and something is left of the answer.
Grab(port, lines) ==
  IF port \notin DOMAIN Labels \/ Sanitize(Greeting(port, lines)) = <<>> THEN {}
  ELSE {[label |-> Labels[port], text |-> Sanitize(Greeting(port, lines))]}
=============================================================================
