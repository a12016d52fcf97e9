-------------------------- MODULE NetworkMapProofs --------------------------
(***************************************************************************)
(* Proofs about NetworkMap, for all LANs, agents, subnets and registries:  *)
(* only hosts of the subnet are probed; a scan makes no device up, finds   *)
(* the hosts that stay and describes them by what is their own; no         *)
(* announcement or name overrides the class that is proven by ports; the   *)
(* map is a tree.                                                          *)
(***************************************************************************)
EXTENDS NetworkMap, DataLemmas, TLAPS

\* What Put leaves and what it sets.
LEMMA PutIsUpdate ==
  ASSUME NEW f, NEW ip, NEW v
  PROVE  /\ DOMAIN Put(f, ip, v) = {ip} \cup DOMAIN f
         /\ \A a \in DOMAIN Put(f, ip, v) : Put(f, ip, v)[a] = IF a = ip THEN v ELSE f[a]
  BY DEF Put

-----------------------------------------------------------------------------
(* Subnets *)

\* A network address and its subnet: all of it are addresses, and all have that base.
LEMMA BaseIsAligned ==
  ASSUME NEW ip \in Addr, NEW prefix \in 0..AddrBits, NEW s, s = 2^(AddrBits - prefix),
         NEW base, base = NetworkBase(ip, prefix)
  PROVE  /\ s \in Nat \ {0}
         /\ base \in Nat
         /\ base + s <= 2^AddrBits
         /\ \A x \in base..(base + s - 1) : NetworkBase(x, prefix) = base
<1>1. AddrBits \in Nat /\ prefix \in Nat /\ AddrBits - prefix \in Nat
  BY WidthsArePositive
<1>2. s \in Nat \ {0} /\ 2^prefix \in Nat
  BY <1>1, PowerPositive
<1>3. 2^AddrBits = s * 2^prefix
  <2>1. (AddrBits - prefix) + prefix = AddrBits
    BY <1>1
  <2> QED
    BY <1>1, <2>1, PowerSum
<1>4. 2^AddrBits \in Nat /\ ip \in Nat /\ ip < 2^AddrBits
  BY <1>1, PowerType DEF Addr
<1>5. PICK q \in Nat : q = ip \div s
  BY <1>2, <1>4, Division
<1>6. ip % s \in 0..(s - 1) /\ ip = s * q + (ip % s)
  BY <1>2, <1>4, <1>5, Division
<1>7. base = s * q /\ base \in Nat
  <2>1. base = ip - (ip % s)
    BY DEF NetworkBase
  <2>2. s * q \in Nat
    BY <1>2
  <2> QED
    BY <1>6, <2>1, <2>2
<1>8. base + s <= 2^AddrBits
  <2>1. s * q < s * 2^prefix
    BY <1>3, <1>4, <1>6, <1>7
  <2> QED
    BY <1>2, <1>3, <1>7, <2>1, NextMultiple
<1>9. ASSUME NEW x \in base..(base + s - 1)
      PROVE  NetworkBase(x, prefix) = base
  <2>1. PICK r \in 0..(s - 1) : x = s * q + r
    <3>1. x - base \in 0..(s - 1) /\ x = base + (x - base)
      BY <1>2, <1>7
    <3> QED
      BY <1>7, <3>1
  <2>2. x % s = r
    BY <1>2, <2>1, Remainder
  <2> QED
    BY <1>7, <2>1, <2>2 DEF NetworkBase
<1> QED
  BY <1>2, <1>7, <1>8, <1>9

IsSubnet(n) == n.found /\ \E a \in Agents : n = LocalSubnet(a.interfaces)

\* The subnet of an agent has room for hosts, and lies within the addresses.
LEMMA SubnetIsSound ==
  ASSUME NEW n, IsSubnet(n)
  PROVE  /\ n.prefix \in 0..(AddrBits - 2)
         /\ n.base \in Nat
         /\ Broadcast(n) \in Addr
         /\ n.base + 3 <= Broadcast(n)
         /\ \A x \in n.base..Broadcast(n) : InSubnet(x, n)
<1>1. PICK a \in Agents : n = LocalSubnet(a.interfaces)
  BY DEF IsSubnet
<1> DEFINE eligible(i) == a.interfaces[i].kind \in {"private", "public"}
                            /\ a.interfaces[i].prefix < AddrBits - 1
           all     == {i \in DOMAIN a.interfaces : eligible(i)}
           private == {i \in all : a.interfaces[i].kind = "private"}
           i0      == Min(IF private # {} THEN private ELSE all)
<1>2. all # {}
  BY <1>1 DEF LocalSubnet, NoNet, IsSubnet
<1>3. i0 \in all
  <2>1. all \subseteq Nat
    BY AgentsAreTyped
  <2>2. (IF private # {} THEN private ELSE all) \in SUBSET Nat
    BY <2>1
  <2>3. (IF private # {} THEN private ELSE all) # {}
    BY <1>2
  <2> HIDE DEF all
  <2>4. i0 \in (IF private # {} THEN private ELSE all)
    BY <2>2, <2>3, MinIsLeast
  <2> QED
    BY <2>4
<1>4. n = [base |-> NetworkBase(a.interfaces[i0].ip, a.interfaces[i0].prefix),
           prefix |-> a.interfaces[i0].prefix, found |-> TRUE]
  BY <1>1, <1>2 DEF LocalSubnet
<1>5. /\ a.interfaces[i0].ip \in Addr
      /\ a.interfaces[i0].prefix \in 0..AddrBits
      /\ a.interfaces[i0].prefix < AddrBits - 1
  BY <1>3, AgentsAreTyped
<1> HIDE DEF i0
<1> DEFINE s == 2^(AddrBits - n.prefix)
<1>6. /\ n.prefix \in 0..(AddrBits - 2)
      /\ n.base = NetworkBase(a.interfaces[i0].ip, n.prefix)
  BY <1>4, <1>5, WidthsArePositive
<1>7. /\ s \in Nat \ {0}
      /\ n.base \in Nat
      /\ n.base + s <= 2^AddrBits
      /\ \A x \in n.base..(n.base + s - 1) : NetworkBase(x, n.prefix) = n.base
  BY <1>4, <1>5, <1>6, BaseIsAligned
<1>8. s >= 4
  <2>1. PICK k \in Nat : AddrBits - n.prefix = k + 1 + 1
    BY <1>6, WidthsArePositive
  <2>2. 2^(k + 1 + 1) = 2 * 2^(k + 1) /\ 2^(k + 1) = 2 * 2^k
    BY PowerStep
  <2>3. 2^k \in Nat \ {0}
    BY PowerPositive
  <2> QED
    BY <2>1, <2>2, <2>3
<1>9. 2^AddrBits \in Nat
  BY WidthsArePositive, PowerType
<1> HIDE DEF s
<1>10. Broadcast(n) = n.base + s - 1
  BY DEF Broadcast, s
<1>11. Broadcast(n) \in Addr /\ n.base + 3 <= Broadcast(n)
  BY <1>7, <1>8, <1>9, <1>10 DEF Addr
<1>12. \A x \in n.base..Broadcast(n) : InSubnet(x, n)
  BY <1>7, <1>10 DEF InSubnet
<1> QED
  BY <1>6, <1>7, <1>11, <1>12

\* What is probed lies between the network and the broadcast address; it is everything
\* up to the cap, and no more than the cap allows.
LEMMA RangeIsSound ==
  ASSUME NEW n, IsSubnet(n)
  PROVE  /\ HostRange(n) \subseteq Usable(n)
         /\ \A ip \in Usable(n) : ip <= n.base + MaxHosts => ip \in HostRange(n)
         /\ IsFiniteSet(HostRange(n))
         /\ Cardinality(HostRange(n)) <= MaxHosts
<1> DEFINE W == 2^AddrBits
           s == 2^(AddrBits - n.prefix)
           end == Wrap(n.base + Size(n.prefix) + W - 2)
           last == IF end - (n.base + 1) + 1 > MaxHosts THEN n.base + 1 + MaxHosts - 1 ELSE end
<1>1. /\ n.prefix \in 0..(AddrBits - 2)
      /\ n.base \in Nat
      /\ Broadcast(n) \in Addr
      /\ n.base + 3 <= Broadcast(n)
  BY SubnetIsSound
<1>2. W \in Nat \ {0}
  BY WidthsArePositive, PowerPositive
<1>3. s \in Nat \ {0}
  <2>1. AddrBits - n.prefix \in Nat
    BY <1>1, WidthsArePositive
  <2> QED
    BY <2>1, PowerPositive
<1>4. Broadcast(n) = n.base + s - 1 /\ Broadcast(n) <= W - 1
  BY <1>1, <1>2, <1>3 DEF Broadcast, Addr
<1>5. HostRange(n) = (n.base + 1)..last
  BY <1>1, WidthsArePositive DEF HostRange, Capped
<1>6. MaxHosts \in Nat /\ 1 <= MaxHosts /\ MaxHosts <= W - 2
  BY <1>2, MaxHostsIsPositive
<1>7. /\ last \in Nat
      /\ n.base + 1 <= last
      /\ last < Broadcast(n)
      /\ last < n.base + 1 + MaxHosts
      /\ last = Broadcast(n) - 1 \/ last = n.base + MaxHosts
  <2>1. CASE n.prefix = 0
    <3>1. s = W
      BY <2>1, WidthsArePositive
    <3>2. n.base = 0
      BY <1>1, <1>2, <1>4, <3>1
    <3>3. Size(n.prefix) = 1
      <4>1. (AddrBits - n.prefix) % AddrBits = 0
        BY <2>1, WidthsArePositive
      <4>2. 2^0 = 1
        OBVIOUS
      <4> QED
        BY <4>1, <4>2 DEF Size
    <3>4. end = W - 1
      <4>1. n.base + Size(n.prefix) + W - 2 = W - 1
        BY <1>2, <3>2, <3>3
      <4>2. (W - 1) % W = W - 1
        BY <1>2
      <4> QED
        BY <4>1, <4>2 DEF Wrap
    <3>5. last = MaxHosts
      <4> HIDE DEF end
      <4> QED
        BY <1>2, <1>6, <3>2, <3>4
    <3> HIDE DEF last
    <3> QED
      BY <1>2, <1>4, <1>6, <3>1, <3>2, <3>5
  <2>2. CASE n.prefix # 0
    <3>1. Size(n.prefix) = s
      <4>1. (AddrBits - n.prefix) % AddrBits = AddrBits - n.prefix
        BY <1>1, <2>2, WidthsArePositive
      <4> QED
        BY <4>1 DEF Size
    <3>2. end = n.base + s - 2
      <4> HIDE DEF s
      <4>1. n.base + s - 2 \in 0..(W - 1)
        BY <1>1, <1>2, <1>3, <1>4
      <4>2. n.base + Size(n.prefix) + W - 2 = W * 1 + (n.base + s - 2)
        BY <1>1, <1>2, <1>3, <3>1
      <4>3. (W * 1 + (n.base + s - 2)) % W = n.base + s - 2
        BY <1>2, <4>1, Remainder
      <4> QED
        BY <4>2, <4>3 DEF Wrap
    <3> HIDE DEF end, s
    <3>3. last = IF n.base + s - 2 - (n.base + 1) + 1 > MaxHosts
                 THEN n.base + 1 + MaxHosts - 1 ELSE n.base + s - 2
      BY <1>1, <1>3, <1>6, <3>2
    <3> HIDE DEF last
    <3> QED
      BY <1>1, <1>3, <1>4, <1>6, <3>3
  <2> QED
    BY <2>1, <2>2
<1> HIDE DEF last
<1>8. HostRange(n) \subseteq Usable(n)
  BY <1>1, <1>2, <1>4, <1>5, <1>7 DEF Usable, Addr
<1>9. ASSUME NEW ip \in Usable(n), ip <= n.base + MaxHosts
      PROVE  ip \in HostRange(n)
  BY <1>1, <1>2, <1>4, <1>5, <1>6, <1>7, <1>9 DEF Usable, Addr
<1>10. /\ IsFiniteSet((n.base + 1)..last)
       /\ Cardinality((n.base + 1)..last) = last - (n.base + 1) + 1
  <2>1. n.base + 1 \in Int /\ last \in Int
    BY <1>1, <1>7
  <2>2. /\ IsFiniteSet((n.base + 1)..last)
        /\ Cardinality((n.base + 1)..last) =
             IF n.base + 1 > last THEN 0 ELSE last - (n.base + 1) + 1
    BY <2>1, FS_Interval
  <2>3. ~(n.base + 1 > last)
    BY <1>1, <1>7
  <2> QED
    BY <2>2, <2>3
<1> QED
  BY <1>1, <1>5, <1>6, <1>7, <1>8, <1>9, <1>10

-----------------------------------------------------------------------------
(* Classes *)

\* What rules in a sequence say is the class of one of them.
LEMMA FirstMatchIsRule ==
  ASSUME NEW rules, \A i \in DOMAIN rules : i \in Nat, NEW words, FirstMatch(rules, words) # ""
  PROVE  \E i \in DOMAIN rules : FirstMatch(rules, words) = rules[i].class
<1> DEFINE hits == {i \in DOMAIN rules : rules[i].words \cap words # {}}
<1>1. hits # {} /\ FirstMatch(rules, words) = rules[Min(hits)].class
  BY DEF FirstMatch
<1>2. hits \in SUBSET Nat /\ hits \subseteq DOMAIN rules
  OBVIOUS
<1> HIDE DEF hits
<1>3. Min(hits) \in hits
  BY <1>1, <1>2, MinIsLeast
<1> QED
  BY <1>1, <1>2, <1>3

\* Ports never prove that a device is a mere "device".
LEMMA PortsProveClasses ==
  ASSUME NEW ports
  PROVE  ByPort(ports) # "device"
<1>1. FirstMatch(StrongPorts, ports) # "device"
  <2>1. DOMAIN StrongPorts = 1..3 /\ \A i \in 1..3 : i \in Nat
    BY DEF StrongPorts
  <2>2. \A i \in 1..3 : StrongPorts[i].class # "device"
    BY DEF StrongPorts, Rule
  <2>3. FirstMatch(StrongPorts, ports) # "" =>
          \E i \in 1..3 : FirstMatch(StrongPorts, ports) = StrongPorts[i].class
    BY <2>1, FirstMatchIsRule
  <2> QED
    BY <2>2, <2>3
<1>2. FirstMatch(LaterPorts, ports) # "device"
  <2>1. DOMAIN LaterPorts = 1..2 /\ \A i \in 1..2 : i \in Nat
    BY DEF LaterPorts
  <2>2. \A i \in 1..2 : LaterPorts[i].class # "device"
    BY DEF LaterPorts, Rule
  <2>3. FirstMatch(LaterPorts, ports) # "" =>
          \E i \in 1..2 : FirstMatch(LaterPorts, ports) = LaterPorts[i].class
    BY <2>1, FirstMatchIsRule
  <2> QED
    BY <2>2, <2>3
<1>3. \A class, other : class # "device" /\ other # "device" => OrElse(class, other) # "device"
  BY DEF OrElse
<1>4. \/ ByPort(ports) = OrElse(FirstMatch(StrongPorts, ports), "nas")
      \/ ByPort(ports) = OrElse(FirstMatch(StrongPorts, ports), FirstMatch(LaterPorts, ports))
  <2>1. CASE 5000 \in ports /\ 5001 \in ports
    BY <2>1 DEF ByPort
  <2>2. CASE ~(5000 \in ports /\ 5001 \in ports)
    BY <2>2 DEF ByPort
  <2> QED
    BY <2>1, <2>2
<1> QED
  BY <1>1, <1>2, <1>3, <1>4

KeepsProven(d) ==
  ByPort(d.ports) # "" =>
    d.type = ByPort(d.ports) \/ (ByPort(d.ports) = "workstation" /\ d.type = "server")

IsDevice(d) == "ports" \in DOMAIN d /\ "type" \in DOMAIN d

\* The identity pipeline keeps a proven class, whatever it is told.
LEMMA IdentifyKeepsProven ==
  ASSUME NEW d, IsDevice(d), NEW st, NEW services, NEW name
  PROVE  IsDevice(Identify(d, st, services, name)) /\ KeepsProven(Identify(d, st, services, name))
<1> DEFINE proven == ByPort(d.ports)
           bySsdp == RefineWith(StRules, Classify(d.ports, d.vendor), st)
           byMdns == RefineWith(ServiceRules, bySsdp, services)
           new    == Identify(d, st, services, name)
<1>1. /\ IsDevice(new)
      /\ new.ports = d.ports
      /\ new.type = RefineWithHostname(byMdns, name)
  BY DEF Identify, IsDevice
<1>2. ASSUME proven # ""
      PROVE  byMdns = proven
  <2>1. Classify(d.ports, d.vendor) = proven
    BY <1>2 DEF Classify, OrElse
  <2>2. proven # "device"
    BY PortsProveClasses
  <2> QED
    BY <2>1, <2>2 DEF RefineWith
<1>3. ASSUME proven # ""
      PROVE  new.type = proven \/ (proven = "workstation" /\ new.type = "server")
  <2>1. proven # "device"
    BY PortsProveClasses
  <2> QED
    BY <1>1, <1>2, <1>3, <2>1 DEF RefineWithHostname
<1> QED
  BY <1>1, <1>3 DEF KeepsProven

-----------------------------------------------------------------------------
(* Where devices come from *)

Allowed == met \cup (IF agent.system = "windows" THEN {Broadcast(net)} ELSE {})

IsScan(s) == "devices" \in DOMAIN s

\* Whatever signs of life there are, they are of hosts that were met.
SignsOfLife ==
  /\ lan \in [Addr -> Hosts \cup {Nobody}]
  /\ \A ip \in Addr : lan[ip] # Nobody => ip \in met
  /\ \A ip \in DOMAIN cache : cache[ip] # ZeroMac => ip \in met
  /\ DOMAIN probed \subseteq met

\* The scan under construction is empty before the ARP listing is read; its devices
\* have addresses with signs of life, and from the naming on they have their class.
ScanInv ==
  /\ IsScan(scan)
  /\ stage \in {"sleeping", "probing", "ssdp", "mdns", "naming", "grabbing", "posting"}
  /\ stage \in {"sleeping", "probing"} => scan = EmptyScan
  /\ \A ip \in DOMAIN scan.devices :
       /\ ip \in Allowed
       /\ IsDevice(scan.devices[ip])
       /\ stage \in {"grabbing", "posting"} => KeepsProven(scan.devices[ip])

MapInv == SignsOfLife /\ ScanInv

LEMMA MapInit == Init => MapInv
  BY DEF Init, MapInv, SignsOfLife, ScanInv, IsScan, EmptyScan

\* Steps that leave the scan alone, and what it depends on.
LEMMA ScanUntouched ==
  ASSUME ScanInv, UNCHANGED <<scan, net, agent>>, met \subseteq met', UNCHANGED stage
  PROVE  ScanInv'
  BY DEF ScanInv, IsScan, IsDevice, KeepsProven, Allowed, Broadcast

LEMMA AllowedKept ==
  ASSUME UNCHANGED <<met, net, agent>>
  PROVE  Allowed' = Allowed
  BY DEF Allowed, Broadcast

LEMMA MapStep == MapInv /\ [Next]_vars => MapInv'
<1> SUFFICES ASSUME SignsOfLife, ScanInv, [Next]_vars
             PROVE  SignsOfLife' /\ ScanInv'
  BY DEF MapInv
<1>1. ASSUME NEW ip \in Places, NEW host \in Hosts \cup {Nobody}, Move(ip, host)
      PROVE  SignsOfLife' /\ ScanInv'
  <2>1. met \subseteq met' /\ (host # Nobody => ip \in met')
    BY <1>1 DEF Move
  <2>2. SignsOfLife'
    BY <1>1, <2>1, PlacesAreAddresses DEF Move, SignsOfLife
  <2>3. ScanInv'
    BY <1>1, <2>1, ScanUntouched DEF Move
  <2> QED
    BY <2>2, <2>3
<1>2. ASSUME NEW ip \in Places, Expire(ip)
      PROVE  SignsOfLife' /\ ScanInv'
  <2>1. SignsOfLife'
    BY <1>2 DEF Expire, SignsOfLife
  <2>2. ScanInv'
    BY <1>2, ScanUntouched DEF Expire
  <2> QED
    BY <2>1, <2>2
<1>3. ASSUME NEW a \in Agents, StartScan(a)
      PROVE  SignsOfLife' /\ ScanInv'
  <2>1. SignsOfLife'
    BY <1>3 DEF StartScan, SignsOfLife
  <2>2. scan = EmptyScan /\ scan' = scan /\ stage' \in {"probing", "posting"}
    BY <1>3 DEF StartScan, ScanInv
  <2>3. ScanInv'
    BY <2>2 DEF ScanInv, IsScan, EmptyScan
  <2> QED
    BY <2>1, <2>3
<1>4. ASSUME NEW ip \in Addr, Probe(ip)
      PROVE  SignsOfLife' /\ ScanInv'
  <2>1. UNCHANGED <<lan, met, stage, scan, net, agent>>
    BY <1>4 DEF Probe, history
  <2>2. cache' = Put(cache, ip, lan[ip].mac)
    BY <1>4 DEF Probe
  <2>3. lan[ip] # Nobody => ip \in met
    BY DEF SignsOfLife
  <2>4. \A b \in DOMAIN cache' : cache'[b] # ZeroMac => b \in met'
    <3>1. lan[ip].mac # ZeroMac => ip \in met
      BY <2>3 DEF Nobody
    <3>2. /\ DOMAIN cache' = {ip} \cup DOMAIN cache
          /\ \A a \in DOMAIN cache' : cache'[a] = IF a = ip THEN lan[ip].mac ELSE cache[a]
      BY <2>2 DEF Put
    <3>3. \A b \in DOMAIN cache : cache[b] # ZeroMac => b \in met
      BY DEF SignsOfLife
    <3> QED
      BY <2>1, <3>1, <3>2, <3>3
  <2>5. DOMAIN probed' \subseteq met'
    <3>1. lan[ip].tcp => ip \in met
      BY <2>3 DEF Nobody
    <3>2. CASE lan[ip].tcp
      <4>1. probed' = Put(probed, ip, lan[ip].ports)
        BY <1>4, <3>2 DEF Probe
      <4>2. DOMAIN probed' = {ip} \cup DOMAIN probed
        BY <4>1, PutIsUpdate
      <4> QED
        BY <2>1, <3>1, <3>2, <4>2 DEF SignsOfLife
    <3>3. CASE ~lan[ip].tcp
      BY <1>4, <2>1, <3>3 DEF Probe, SignsOfLife
    <3> QED
      BY <3>2, <3>3
  <2>6. ScanInv'
    BY <2>1, ScanUntouched
  <2> QED
    BY <2>1, <2>4, <2>5, <2>6 DEF SignsOfLife
<1>5. CASE ReadArp
  <2>1. /\ UNCHANGED <<lan, cache, probed, met, net, agent>>
        /\ stage = "probing" /\ stage' = "ssdp"
        /\ scan' = [scan EXCEPT !.devices = Merge]
    BY <1>5 DEF ReadArp, history
  <2>2. DOMAIN Resolved \subseteq met
    BY DEF SignsOfLife, Resolved
  <2>3. DOMAIN ArpTable \subseteq Allowed
    <3>1. CASE agent.system = "windows"
      <4>1. ArpTable = Put(Resolved, Broadcast(net), BroadcastMac)
        BY <3>1 DEF ArpTable
      <4>2. DOMAIN ArpTable = {Broadcast(net)} \cup DOMAIN Resolved
        BY <4>1, PutIsUpdate
      <4> QED
        BY <2>2, <3>1, <4>2 DEF Allowed
    <3>2. CASE agent.system # "windows"
      BY <2>2, <3>2 DEF ArpTable, Allowed
    <3> QED
      BY <3>1, <3>2
  <2>4. DOMAIN Merge \subseteq Allowed /\ \A ip \in DOMAIN Merge : IsDevice(Merge[ip])
    BY <2>3 DEF Merge, Allowed, SignsOfLife, Device, IsDevice
  <2>5. scan'.devices = Merge /\ IsScan(scan')
    BY <2>1 DEF ScanInv, IsScan
  <2>6. SignsOfLife'
    BY <2>1 DEF SignsOfLife
  <2>7. ScanInv'
    BY <2>1, <2>4, <2>5, AllowedKept DEF ScanInv, IsScan, IsDevice
  <2> QED
    BY <2>6, <2>7
<1>6. CASE \/ \E ip \in Places : \E st \in lan[ip].sts : HearResponse(ip, st)
           \/ \E ip \in Places : \E service \in lan[ip].services : HearService(ip, service)
  <2>1. UNCHANGED <<lan, cache, probed, met, stage, scan, net, agent>>
    BY <1>6 DEF HearResponse, HearService, history
  <2> QED
    BY <2>1, ScanUntouched DEF SignsOfLife
<1>7. CASE Deadline
  <2>1. UNCHANGED <<lan, cache, probed, met, scan, net, agent>>
    BY <1>7 DEF Deadline, history
  <2>2. stage \in {"ssdp", "mdns"} /\ stage' \in {"mdns", "naming"}
    BY <1>7 DEF Deadline
  <2> QED
    BY <2>1, <2>2, AllowedKept DEF SignsOfLife, ScanInv, IsScan, IsDevice
<1>8. CASE NameDevices
  <2>1. /\ UNCHANGED <<lan, cache, probed, met, net, agent>>
        /\ stage = "naming" /\ stage' = "grabbing"
        /\ scan' = [scan EXCEPT !.devices = [ip \in DOMAIN scan.devices |-> Named(ip)]]
    BY <1>8 DEF NameDevices, history
  <2>2. scan'.devices = [ip \in DOMAIN scan.devices |-> Named(ip)] /\ IsScan(scan')
    BY <2>1 DEF ScanInv, IsScan
  <2>3. \A ip \in DOMAIN scan.devices : IsDevice(Named(ip)) /\ KeepsProven(Named(ip))
    BY IdentifyKeepsProven DEF Named, ScanInv
  <2>4. \A ip \in DOMAIN scan'.devices :
          ip \in Allowed /\ IsDevice(scan'.devices[ip]) /\ KeepsProven(scan'.devices[ip])
    BY <2>2, <2>3 DEF ScanInv
  <2>5. SignsOfLife'
    BY <2>1 DEF SignsOfLife
  <2>6. ScanInv'
    BY <2>1, <2>2, <2>4, AllowedKept DEF ScanInv, IsScan, IsDevice, KeepsProven
  <2> QED
    BY <2>5, <2>6
<1>9. CASE GrabBanners
  <2>1. /\ UNCHANGED <<lan, cache, probed, met, net, agent>>
        /\ stage = "grabbing" /\ stage' = "posting"
        /\ scan' = [gateway |-> agent.gateway,
                    devices |-> [ip \in DOMAIN scan.devices |->
                                   [scan.devices[ip] EXCEPT !.banners = BannersAt(ip)]]]
    BY <1>9 DEF GrabBanners, history
  <2>2. \A ip \in DOMAIN scan'.devices :
          LET d == [scan.devices[ip] EXCEPT !.banners = BannersAt(ip)]
          IN  ip \in DOMAIN scan.devices /\ scan'.devices[ip] = d /\ d.ports = scan.devices[ip].ports
                /\ d.type = scan.devices[ip].type /\ IsDevice(d)
    BY <2>1 DEF ScanInv, IsDevice
  <2>3. \A ip \in DOMAIN scan'.devices :
          ip \in Allowed /\ IsDevice(scan'.devices[ip]) /\ KeepsProven(scan'.devices[ip])
    <3>1. \A ip \in DOMAIN scan.devices : ip \in Allowed /\ KeepsProven(scan.devices[ip])
      BY <2>1 DEF ScanInv
    <3> QED
      BY <2>2, <3>1 DEF KeepsProven
  <2>4. SignsOfLife'
    BY <2>1 DEF SignsOfLife
  <2>5. ScanInv'
    <3>1. IsScan(scan')
      BY <2>1 DEF IsScan
    <3> QED
      BY <2>1, <2>3, <3>1, AllowedKept DEF ScanInv, IsScan, IsDevice, KeepsProven
  <2> QED
    BY <2>4, <2>5
<1>10. CASE StoreScan \/ ScanLost
  <2>1. /\ UNCHANGED <<lan, cache, met>> /\ probed' = <<>>
        /\ stage' = "sleeping" /\ scan' = EmptyScan
    BY <1>10 DEF StoreScan, ScanLost, Deliver
  <2> QED
    BY <2>1 DEF SignsOfLife, ScanInv, IsScan, EmptyScan
<1>11. CASE Done \/ UNCHANGED vars
  <2>1. UNCHANGED <<lan, cache, probed, met, stage, scan, net, agent>>
    BY <1>11 DEF Done, vars, history
  <2> QED
    BY <2>1, ScanUntouched DEF SignsOfLife
<1> QED
  BY <1>1, <1>2, <1>3, <1>4, <1>5, <1>6, <1>7, <1>8, <1>9, <1>10, <1>11 DEF Next

LEMMA MapInvariant == Spec => []MapInv
  BY MapInit, MapStep, PTL DEF Spec

\* A scan makes no device up: each is at an address where there was a host, but for the
\* broadcast address on Windows, whatever the LAN, the cache and the moment.
THEOREM NoDeviceIsMadeUp == Spec => []NoPhantomDevices
<1>1. MapInv => NoPhantomDevices
  BY DEF MapInv, ScanInv, NoPhantomDevices, Allowed
<1> QED
  BY <1>1, MapInvariant, PTL

\* A class that is proven by ports is never overridden by what a device, or another at
\* its address by then, announces; only a workstation may become a server.
THEOREM ProvenClassesAreKept == Spec => []ProvenClassKept
<1>1. MapInv => ProvenClassKept
  BY DEF MapInv, ScanInv, ProvenClassKept, KeepsProven
<1> QED
  BY <1>1, MapInvariant, PTL

-----------------------------------------------------------------------------
(* The course of a scan *)

\* What a scan thread has at each stage.
Phases ==
  /\ stage # "sleeping" => agent \in Agents /\ net = LocalSubnet(agent.interfaces)
  /\ stage \notin {"sleeping", "posting"} => net.found
  /\ stage \in {"sleeping", "probing"} => ssdp = <<>> /\ mdns = <<>>
  /\ stage = "sleeping" => probed = <<>> /\ steady = {}
  /\ stage # "probing" => todo = {}
  /\ stage = "probing" => todo \subseteq HostRange(net)

LEMMA PhasesInit == Init => Phases
  BY DEF Init, Phases

LEMMA PhasesStep == Phases /\ [Next]_vars => Phases'
<1> SUFFICES ASSUME Phases, [Next]_vars
             PROVE  Phases'
  OBVIOUS
<1>1. ASSUME UNCHANGED <<stage, agent, net, todo, probed, announced>>, steady' \subseteq steady
      PROVE  Phases'
  BY <1>1 DEF Phases, announced
<1>2. CASE \/ \E ip \in Places, host \in Hosts \cup {Nobody} : Move(ip, host)
           \/ \E ip \in Places : Expire(ip)
           \/ Done \/ UNCHANGED vars
  BY <1>1, <1>2 DEF Move, Expire, Done, vars, history, announced
<1>3. CASE \E a \in Agents : StartScan(a)
  BY <1>3 DEF StartScan, Phases, announced
<1>4. CASE \E ip \in Addr : Probe(ip)
  BY <1>4 DEF Probe, Phases, announced, history
<1>5. CASE ReadArp
  BY <1>5 DEF ReadArp, Phases, announced, history
<1>6. CASE \/ \E ip \in Places : \E st \in lan[ip].sts : HearResponse(ip, st)
           \/ \E ip \in Places : \E service \in lan[ip].services : HearService(ip, service)
  BY <1>6 DEF HearResponse, HearService, Phases, history
<1>7. CASE Deadline \/ NameDevices \/ GrabBanners
  BY <1>7 DEF Deadline, NameDevices, GrabBanners, Phases, announced, history
<1>8. CASE StoreScan \/ ScanLost
  BY <1>8 DEF StoreScan, ScanLost, Deliver, Phases
<1> QED
  BY <1>2, <1>3, <1>4, <1>5, <1>6, <1>7, <1>8 DEF Next

\* The subnet of a scan that found one is that of an agent.
LEMMA ScannedIsSubnet ==
  ASSUME Phases, stage # "sleeping", net.found
  PROVE  IsSubnet(net)
  BY DEF Phases, IsSubnet

LEMMA PhasesInvariant == Spec => []Phases
  BY PhasesInit, PhasesStep, PTL DEF Spec

\* No address is ever probed but of hosts of the chosen subnet, and no more of them than
\* the cap allows, whatever the address, the mask and the width of an address.
THEOREM ProbesAreHosts == Spec => []ProbesStayInSubnet
<1>1. Phases => ProbesStayInSubnet
  <2> SUFFICES ASSUME Phases, todo # {}
               PROVE  todo \subseteq Usable(net) /\ Cardinality(todo) <= MaxHosts
    BY DEF ProbesStayInSubnet
  <2>1. stage = "probing" /\ todo \in SUBSET HostRange(net) /\ net.found
    BY DEF Phases
  <2>2. IsSubnet(net)
    BY <2>1, ScannedIsSubnet
  <2>3. /\ HostRange(net) \subseteq Usable(net)
        /\ IsFiniteSet(HostRange(net))
        /\ Cardinality(HostRange(net)) <= MaxHosts
    BY <2>2, RangeIsSound
  <2>4. IsFiniteSet(todo) /\ Cardinality(todo) <= Cardinality(HostRange(net))
    BY <2>1, <2>3, FS_Subset
  <2>5. Cardinality(todo) \in Nat /\ Cardinality(HostRange(net)) \in Nat /\ MaxHosts \in Nat
    BY <2>3, <2>4, FS_CardinalityType, MaxHostsIsPositive, WidthsArePositive, PowerType
  <2> QED
    BY <2>1, <2>3, <2>4, <2>5
<1> QED
  BY <1>1, PhasesInvariant, PTL

-----------------------------------------------------------------------------
(* Addresses, and the map *)

\* Devices and gateways have addresses.
Addresses ==
  /\ DOMAIN cache \subseteq Addr
  /\ DOMAIN probed \subseteq Addr
  /\ DOMAIN scan.devices \subseteq Addr
  /\ scan.gateway \in Addr \cup {NoAddr}
  /\ DOMAIN stored.devices \subseteq Addr
  /\ stored.gateway \in Addr \cup {NoAddr}
  /\ DOMAIN scan = {"gateway", "devices"}

LEMMA AddressesInit == Init => Addresses
  BY DEF Init, Addresses, EmptyScan

LEMMA AddressesStep == Addresses /\ Phases /\ [Next]_vars => Addresses'
<1> SUFFICES ASSUME Addresses, Phases, [Next]_vars
             PROVE  Addresses'
  OBVIOUS
<1>1. ASSUME UNCHANGED <<probed, scan, stored>>, DOMAIN cache' \subseteq DOMAIN cache
      PROVE  Addresses'
  BY <1>1 DEF Addresses
<1>2. CASE \/ \E ip \in Places, host \in Hosts \cup {Nobody} : Move(ip, host)
           \/ \E ip \in Places : Expire(ip)
           \/ \E a \in Agents : StartScan(a)
           \/ \E ip \in Places : \E st \in lan[ip].sts : HearResponse(ip, st)
           \/ \E ip \in Places : \E service \in lan[ip].services : HearService(ip, service)
           \/ Deadline \/ Done \/ UNCHANGED vars
  BY <1>1, <1>2
     DEF Move, Expire, StartScan, HearResponse, HearService, Deadline, Done, vars, history
<1>3. ASSUME NEW ip \in Addr, Probe(ip)
      PROVE  Addresses'
  <2>1. /\ UNCHANGED <<scan, stored>> /\ cache' = Put(cache, ip, lan[ip].mac)
        /\ probed' = probed \/ probed' = Put(probed, ip, lan[ip].ports)
    BY <1>3 DEF Probe
  <2>2. /\ DOMAIN Put(cache, ip, lan[ip].mac) = {ip} \cup DOMAIN cache
        /\ DOMAIN Put(probed, ip, lan[ip].ports) = {ip} \cup DOMAIN probed
    BY PutIsUpdate
  <2> QED
    BY <2>1, <2>2 DEF Addresses
<1>4. CASE ReadArp
  <2>1. /\ UNCHANGED <<cache, probed, stored>> /\ stage = "probing"
        /\ scan' = [scan EXCEPT !.devices = Merge]
    BY <1>4 DEF ReadArp
  <2>2. DOMAIN Resolved \subseteq Addr
    BY DEF Resolved, Addresses
  <2>3. Broadcast(net) \in Addr
    BY <2>1, ScannedIsSubnet, SubnetIsSound DEF Phases
  <2>4. DOMAIN ArpTable \subseteq Addr
    <3>0. DOMAIN Put(Resolved, Broadcast(net), BroadcastMac) = {Broadcast(net)} \cup DOMAIN Resolved
      BY Zenon, PutIsUpdate
    <3>1. DOMAIN Put(Resolved, Broadcast(net), BroadcastMac) \subseteq Addr
      BY <2>2, <2>3, <3>0
    <3> QED
      BY <2>2, <3>1 DEF ArpTable
  <2>5. DOMAIN Merge \subseteq Addr
    BY <2>4 DEF Merge, Addresses
  <2>6. scan'.devices = Merge /\ scan'.gateway = scan.gateway /\ DOMAIN scan' = DOMAIN scan
    BY <2>1 DEF Addresses
  <2> QED
    BY <2>1, <2>5, <2>6 DEF Addresses
<1>5. CASE NameDevices
  <2>1. /\ UNCHANGED <<cache, probed, stored>>
        /\ scan' = [scan EXCEPT !.devices = [ip \in DOMAIN scan.devices |-> Named(ip)]]
    BY <1>5 DEF NameDevices
  <2>2. /\ DOMAIN scan'.devices = DOMAIN scan.devices /\ scan'.gateway = scan.gateway
        /\ DOMAIN scan' = DOMAIN scan
    BY <2>1 DEF Addresses
  <2> QED
    BY <2>1, <2>2 DEF Addresses
<1>6. CASE GrabBanners
  <2>1. /\ UNCHANGED <<cache, probed, stored>> /\ stage = "grabbing"
        /\ scan' = [gateway |-> agent.gateway,
                    devices |-> [ip \in DOMAIN scan.devices |->
                                   [scan.devices[ip] EXCEPT !.banners = BannersAt(ip)]]]
    BY <1>6 DEF GrabBanners
  <2>2. agent.gateway \in Addr \cup {NoAddr}
    BY <2>1, GatewaysAreAddresses DEF Phases
  <2>3. /\ DOMAIN scan'.devices = DOMAIN scan.devices /\ scan'.gateway = agent.gateway
        /\ DOMAIN scan' = {"gateway", "devices"}
    BY <2>1
  <2> QED
    BY <2>1, <2>2, <2>3 DEF Addresses
<1>7. CASE StoreScan
  <2>1. /\ UNCHANGED cache /\ probed' = <<>> /\ scan' = EmptyScan
        /\ stored' = [scan EXCEPT !.devices = [ip \in DOMAIN scan.devices |-> Received(scan.devices[ip])]]
    BY <1>7 DEF StoreScan, Deliver
  <2>2. DOMAIN stored'.devices = DOMAIN scan.devices /\ stored'.gateway = scan.gateway
    BY <2>1 DEF Addresses
  <2> QED
    BY <2>1, <2>2 DEF Addresses, EmptyScan
<1>8. CASE ScanLost
  BY <1>8 DEF ScanLost, Deliver, Addresses, EmptyScan
<1> QED
  BY <1>2, <1>3, <1>4, <1>5, <1>6, <1>7, <1>8 DEF Next

\* The gateway of a scan that found a device has an address.
LEMMA GatewayHasAddress ==
  ASSUME NEW s, DOMAIN s.devices \subseteq Addr, DOMAIN s.devices # {},
         s.gateway \in Addr \cup {NoAddr}
  PROVE  GatewayOf(s) \in Addr
<1> DEFINE found == DOMAIN s.devices
           ones  == {ip \in found : ip % (2^OctetBits) = 1}
<1>1. found \in SUBSET Nat /\ ones \in SUBSET Nat /\ ones \subseteq found
  BY DEF Addr
<1>2. Min(found) \in found
  BY <1>1, MinIsLeast
<1>3. ones # {} => Min(ones) \in found
  <2> HIDE DEF ones
  <2> QED
    BY <1>1, MinIsLeast
<1>4. InferGateway(found) \in Addr
  BY <1>2, <1>3 DEF InferGateway
<1> QED
  BY <1>4 DEF GatewayOf

\* Whatever the gateway and the devices, the map is a tree that shows them all.
LEMMA MapOfScanIsTree ==
  ASSUME NEW s, DOMAIN s.devices \subseteq Addr, s.gateway \in Addr \cup {NoAddr}
  PROVE  LET map == Build(s)
             ids == {n.id : n \in map.nodes}
         IN  /\ \A m, n \in map.nodes : m.id = n.id \/ m.ip = n.ip => m = n
             /\ \A e \in map.edges : e.from \in ids /\ e.to \in ids
             /\ \A id \in ids \ {Internet} : Cardinality({e \in map.edges : e.to = id}) = 1
             /\ \A ip \in DOMAIN s.devices : \E n \in map.nodes : n.ip = ip
<1> DEFINE map == Build(s)
           ids == {n.id : n \in map.nodes}
<1>1. CASE DOMAIN s.devices = {}
  BY <1>1 DEF Build
<1>2. CASE DOMAIN s.devices # {}
  <2> DEFINE gw      == GatewayOf(s)
             shown   == ShownAsDevice(s)
             type(ip) == DeviceType(s.devices[ip])
             world   == Node(Internet, "internet", NoAddr)
             gateway == Node(Gateway, "gateway", gw)
             dev(ip) == Node(DeviceId(ip), type(ip), ip)
  <2>1. gw \in Addr
    BY <1>2, GatewayHasAddress
  <2>2. /\ map.nodes = {world, gateway} \cup {dev(ip) : ip \in shown}
        /\ map.edges = {Edge(Internet, Gateway)} \cup {Edge(Gateway, DeviceId(ip)) : ip \in shown}
    BY <1>2 DEF Build
  <2>3. \A ip \in shown : ip \in Addr /\ ip # gw
    BY DEF ShownAsDevice
  <2>4. NoAddr \notin Addr
    BY WidthsArePositive, PowerType DEF NoAddr, Addr
  <2>5. /\ \A ip : DeviceId(ip) # Internet /\ DeviceId(ip) # Gateway
        /\ \A ip, other : DeviceId(ip) = DeviceId(other) => ip = other
        /\ Internet # Gateway
    BY DEF DeviceId, Internet, Gateway
  <2>6. /\ world.id = Internet /\ world.ip = NoAddr
        /\ gateway.id = Gateway /\ gateway.ip = gw
        /\ \A ip : dev(ip).id = DeviceId(ip) /\ dev(ip).ip = ip
    BY DEF Node
  <2>7. DOMAIN s.devices \subseteq shown \cup {gw}
    BY DEF ShownAsDevice
  <2>8. \A from, to : Edge(from, to).from = from /\ Edge(from, to).to = to
    BY DEF Edge
  <2> HIDE DEF gw, shown, world, gateway, dev, map
  <2>9. ASSUME NEW m \in map.nodes, NEW n \in map.nodes, m.id = n.id \/ m.ip = n.ip
        PROVE  m = n
    BY <2>1, <2>2, <2>3, <2>4, <2>5, <2>6, <2>9
  <2>10. ids = {Internet, Gateway} \cup {DeviceId(ip) : ip \in shown}
    BY <2>2, <2>6
  <2> HIDE DEF ids
  <2>11. \A e \in map.edges : e.from \in ids /\ e.to \in ids
    BY <2>2, <2>8, <2>10
  <2>12. ASSUME NEW id \in ids \ {Internet}
         PROVE  Cardinality({e \in map.edges : e.to = id}) = 1
    <3>1. CASE id = Gateway
      <4>1. {e \in map.edges : e.to = id} = {Edge(Internet, Gateway)}
        BY <2>2, <2>5, <2>8, <3>1
      <4> QED
        BY <4>1, FS_Singleton
    <3>2. CASE \E ip \in shown : id = DeviceId(ip)
      <4>1. PICK ip \in shown : id = DeviceId(ip)
        BY <3>2
      <4>2. {e \in map.edges : e.to = id} = {Edge(Gateway, DeviceId(ip))}
        BY <2>2, <2>5, <2>8, <4>1
      <4> QED
        BY <4>2, FS_Singleton
    <3> QED
      BY <2>10, <3>1, <3>2
  <2>13. ASSUME NEW ip \in DOMAIN s.devices
         PROVE  \E n \in map.nodes : n.ip = ip
    <3>1. gateway \in map.nodes /\ (ip \in shown => dev(ip) \in map.nodes)
      BY <2>2
    <3> QED
      BY <2>6, <2>7, <3>1
  <2> QED
    BY <2>9, <2>11, <2>12, <2>13 DEF map, ids
<1> QED
  BY <1>1, <1>2

\* The map of any scan that is stored is a tree below the internet, whose nodes differ
\* in their ids and in their addresses, and each device of the scan is one of them.
THEOREM MapsAreTrees == Spec => []MapIsTree
<1>1. Addresses => MapIsTree
  BY MapOfScanIsTree DEF Addresses, MapIsTree
<1>2. Addresses /\ Phases /\ [Next]_vars => Addresses'
  BY AddressesStep
<1> QED
  BY <1>1, <1>2, AddressesInit, PhasesInvariant, PTL DEF Spec

-----------------------------------------------------------------------------
(* What is learnt of a host that stays *)

\* What was learnt of a host by probing it.
Reached(ip) ==
  /\ ip \in DOMAIN probed => lan[ip].tcp /\ probed[ip] = lan[ip].ports
  /\ ip \in HostRange(net) /\ ip \notin todo =>
       /\ lan[ip].tcp => ip \in DOMAIN probed
       /\ ip \in DOMAIN cache => cache[ip] = lan[ip].mac
       /\ ip \notin DOMAIN cache => ip \in expired

\* What was learnt of it by its announcements.
Announced(ip) ==
  /\ ip \in DOMAIN ssdp => \E t \in lan[ip].sts : ssdp[ip] = {t}
  /\ ip \in DOMAIN mdns =>
       /\ mdns[ip].services \in SUBSET lan[ip].services
       /\ mdns[ip].services # {}
       /\ mdns[ip].name = lan[ip].name

\* What is known of hosts that have been there since the scan began is their own.
Steady ==
  \A ip \in steady :
    /\ ip \in Addr
    /\ lan[ip] # Nobody
    /\ net.found => Reached(ip)
    /\ Announced(ip)

LEMMA SteadyInit == Init => Steady
  BY DEF Init, Steady

LEMMA SteadyStep == Steady /\ Phases /\ SignsOfLife /\ [Next]_vars => Steady'
<1> SUFFICES ASSUME Steady, Phases, SignsOfLife, [Next]_vars
             PROVE  Steady'
  OBVIOUS
<1>1. ASSUME UNCHANGED <<net, todo, probed, cache, expired, announced>>,
             steady' \subseteq steady, \A j \in steady' : lan'[j] = lan[j]
      PROVE  Steady'
  BY <1>1 DEF Steady, Reached, Announced, announced
<1>2. ASSUME NEW ip \in Places, NEW host \in Hosts \cup {Nobody}, Move(ip, host)
      PROVE  Steady'
  <2>1. \A j \in steady' : lan'[j] = lan[j]
    BY <1>2 DEF Move, SignsOfLife, Steady
  <2>2. steady' \subseteq steady /\ UNCHANGED <<net, todo, probed, cache, expired, announced>>
    BY <1>2 DEF Move
  <2> QED
    BY <1>1, <2>1, <2>2
<1>3. ASSUME NEW ip \in Places, Expire(ip)
      PROVE  Steady'
  <2>1. CASE stage = "sleeping"
    BY <1>3, <2>1 DEF Expire, Phases, Steady
  <2>2. CASE stage # "sleeping"
    <3>1. /\ UNCHANGED <<lan, net, todo, probed, announced, steady>>
          /\ DOMAIN cache' = DOMAIN cache \ {ip}
          /\ \A a \in DOMAIN cache' : cache'[a] = cache[a]
          /\ expired' = expired \cup {ip}
      BY <1>3, <2>2 DEF Expire
    <3>2. ASSUME NEW j \in steady, net.found
          PROVE  Reached(j)'
      <4>1. Reached(j)
        BY <3>2 DEF Steady
      <4> QED
        BY <3>1, <4>1 DEF Reached
    <3>3. \A j \in steady : Announced(j)'
      BY <3>1 DEF Steady, Announced, announced
    <3> QED
      BY <3>1, <3>2, <3>3 DEF Steady
  <2> QED
    BY <2>1, <2>2
<1>4. ASSUME NEW a \in Agents, StartScan(a)
      PROVE  Steady'
  <2>1. /\ stage = "sleeping" /\ UNCHANGED <<lan, probed, ssdp, mdns>>
        /\ net'.found => todo' = HostRange(net')
        /\ steady' = {ip \in Addr : lan[ip] # Nobody}
    BY <1>4 DEF StartScan, announced
  <2>2. probed = <<>> /\ ssdp = <<>> /\ mdns = <<>>
    BY <2>1 DEF Phases
  <2>3. DOMAIN probed' = {} /\ DOMAIN ssdp' = {} /\ DOMAIN mdns' = {}
    BY <2>1, <2>2
  <2> QED
    BY <2>1, <2>3 DEF Steady, Reached, Announced
<1>5. ASSUME NEW ip \in Addr, Probe(ip)
      PROVE  Steady'
  <2>1. /\ UNCHANGED <<lan, net, ssdp, mdns, steady, expired>> /\ ip \in todo /\ todo' = todo \ {ip}
        /\ cache' = Put(cache, ip, lan[ip].mac)
        /\ probed' = IF lan[ip].tcp THEN Put(probed, ip, lan[ip].ports) ELSE probed
    BY <1>5 DEF Probe, history, announced
  <2>2. /\ DOMAIN cache' = {ip} \cup DOMAIN cache
        /\ \A a \in DOMAIN cache' : cache'[a] = IF a = ip THEN lan[ip].mac ELSE cache[a]
    BY <2>1 DEF Put
  <2>3. lan[ip].tcp =>
          /\ DOMAIN probed' = {ip} \cup DOMAIN probed
          /\ \A a \in DOMAIN probed' : probed'[a] = IF a = ip THEN lan[ip].ports ELSE probed[a]
    BY <2>1 DEF Put
  <2>4. ASSUME NEW j \in steady, net.found
        PROVE  Reached(j)'
    <3>1. Reached(j)
      BY <2>4 DEF Steady
    <3>2. CASE lan[ip].tcp
      BY <2>1, <2>2, <2>3, <3>1, <3>2 DEF Reached
    <3>3. CASE ~lan[ip].tcp
      <4>1. probed' = probed
        BY <2>1, <3>3
      <4> QED
        BY <2>1, <2>2, <3>1, <3>3, <4>1 DEF Reached
    <3> QED
      BY <3>2, <3>3
  <2>5. \A j \in steady : Announced(j)'
    BY <2>1 DEF Steady, Announced
  <2> QED
    BY <2>1, <2>4, <2>5 DEF Steady
<1>6. CASE ReadArp \/ Deadline \/ NameDevices \/ GrabBanners \/ Done \/ UNCHANGED vars
  <2>1. UNCHANGED <<lan, net, todo, probed, cache, announced, steady, expired>>
    BY <1>6 DEF ReadArp, Deadline, NameDevices, GrabBanners, Done, vars, history
  <2> QED
    BY <1>1, <2>1
<1>7. ASSUME NEW ip \in Places, NEW st \in lan[ip].sts, HearResponse(ip, st)
      PROVE  Steady'
  <2>1. /\ UNCHANGED <<lan, net, todo, probed, cache, mdns, steady, expired>>
        /\ ssdp' = WithResponse(ssdp, ip, {st})
    BY <1>7 DEF HearResponse, history
  <2>2. ASSUME NEW j \in steady
        PROVE  Announced(j)'
    <3>1. Announced(j)
      BY DEF Steady
    <3>2. CASE ip \in DOMAIN ssdp
      BY <2>1, <3>1, <3>2 DEF WithResponse, Announced
    <3>3. CASE ip \notin DOMAIN ssdp
      <4>1. /\ DOMAIN ssdp' = {ip} \cup DOMAIN ssdp
            /\ \A a \in DOMAIN ssdp' : ssdp'[a] = IF a = ip THEN {st} ELSE ssdp[a]
        BY <2>1, <3>3 DEF WithResponse, Put
      <4> QED
        BY <2>1, <3>1, <4>1 DEF Announced
    <3> QED
      BY <3>2, <3>3
  <2>3. \A j \in steady : net.found => Reached(j)'
    BY <2>1 DEF Steady, Reached
  <2> QED
    BY <2>1, <2>2, <2>3 DEF Steady
<1>8. ASSUME NEW ip \in Places, NEW service \in lan[ip].services, HearService(ip, service)
      PROVE  Steady'
  <2> DEFINE old == IF ip \in DOMAIN mdns THEN mdns[ip] ELSE NoServices
             new == [name     |-> IF old.name = {} THEN lan[ip].name ELSE old.name,
                     services |-> old.services \cup {service}]
  <2>1. /\ UNCHANGED <<lan, net, todo, probed, cache, ssdp, steady, expired>>
        /\ mdns' = Put(mdns, ip, new)
    BY <1>8 DEF HearService, WithService, history
  <2>2. /\ DOMAIN mdns' = {ip} \cup DOMAIN mdns
        /\ \A a \in DOMAIN mdns' : mdns'[a] = IF a = ip THEN new ELSE mdns[a]
    <3> HIDE DEF new
    <3> QED
      BY <2>1 DEF Put
  <2>3. ASSUME NEW j \in steady
        PROVE  Announced(j)'
    <3>1. Announced(j)
      BY DEF Steady
    <3>2. j = ip => /\ new.name = lan[ip].name
                    /\ new.services \in SUBSET lan[ip].services
                    /\ new.services # {}
      <4>1. CASE ip \in DOMAIN mdns
        BY <3>1, <4>1 DEF Announced
      <4>2. CASE ip \notin DOMAIN mdns
        BY <4>2 DEF NoServices
      <4> QED
        BY <4>1, <4>2
    <3> HIDE DEF new
    <3> QED
      BY <2>1, <2>2, <3>1, <3>2 DEF Announced
  <2>4. \A j \in steady : net.found => Reached(j)'
    BY <2>1 DEF Steady, Reached
  <2> QED
    BY <2>1, <2>3, <2>4 DEF Steady
<1>9. CASE StoreScan \/ ScanLost
  BY <1>9 DEF StoreScan, ScanLost, Deliver, Steady
<1> QED
  BY <1>2, <1>3, <1>4, <1>5, <1>6, <1>7, <1>8, <1>9 DEF Next

-----------------------------------------------------------------------------
(* What is said of it *)

IsRecord(d) ==
  d = [ports |-> d.ports, vendor |-> d.vendor, name |-> d.name, type |-> d.type,
       banners |-> d.banners]

\* The class Identify gives.
ClassOf(d, st, services, name) ==
  RefineWithHostname(RefineWith(ServiceRules, RefineWith(StRules, Classify(d.ports, d.vendor), st),
                                services),
                     name)

\* Its ports and vendor are those of the host.
IsDescribed(d, host, lost) ==
  /\ IsRecord(d)
  /\ d.ports = IF host.tcp THEN host.ports ELSE {}
  /\ d.vendor = Vendor(host.mac) \/ (d.vendor = {} /\ lost)

\* Some of the announcements of the host give its class and name.
IsIdentified(d, host) ==
  \E st \in {{}} \cup {{t} : t \in host.sts}, heard \in SUBSET host.services :
    /\ d.type = ClassOf(d, st, heard, d.name)
    /\ d.name = IF host.ptr # {} THEN host.ptr ELSE IF heard # {} THEN host.name ELSE {}

IsGreeted(d, host) ==
  d.banners = UNION {Grab(p, host.greets[p]) : p \in d.ports \cap DOMAIN host.greets}

\* What Identify sets and what it leaves.
LEMMA IdentifySets ==
  ASSUME NEW d, IsRecord(d), NEW st, NEW services, NEW name, NEW new,
         new = Identify(d, st, services, name)
  PROVE  /\ IsRecord(new)
         /\ new.ports = d.ports /\ new.vendor = d.vendor /\ new.banners = d.banners
         /\ new.name = name
         /\ new.type = ClassOf(d, st, services, name)
<1> DEFINE type == ClassOf(d, st, services, name)
<1>1. new = [d EXCEPT !.name = name, !.type = type]
  BY DEF Identify, ClassOf
<1> HIDE DEF type
<1>2. new = [ports |-> d.ports, vendor |-> d.vendor, name |-> name, type |-> type,
             banners |-> d.banners]
  BY <1>1 DEF IsRecord
<1>3. /\ new.ports = d.ports /\ new.vendor = d.vendor /\ new.banners = d.banners
      /\ new.name = name /\ new.type = type
  BY <1>2
<1>4. IsRecord(new)
  BY <1>2, <1>3 DEF IsRecord
<1> QED
  BY <1>3, <1>4 DEF type

\* Identifying it again changes nothing.
LEMMA IdentifiedIsFixed ==
  ASSUME NEW d, IsRecord(d), NEW st, NEW services, d.type = ClassOf(d, st, services, d.name)
  PROVE  d = Identify(d, st, services, d.name)
<1> DEFINE new == Identify(d, st, services, d.name)
<1>1. /\ IsRecord(new)
      /\ new.ports = d.ports /\ new.vendor = d.vendor /\ new.banners = d.banners
      /\ new.name = d.name
      /\ new.type = ClassOf(d, st, services, d.name)
  BY IdentifySets
<1> HIDE DEF new
<1>2. new = d
  BY <1>1 DEF IsRecord
<1> QED
  BY <1>2 DEF new

\* There may be no ARP entry.
Lost(ip) == ip \in expired \/ agent.system = "other"

Described(ip) ==
  /\ lan[ip].tcp \/ ~Lost(ip) => ip \in DOMAIN scan.devices
  /\ ip \in DOMAIN scan.devices =>
       /\ IsDescribed(scan.devices[ip], lan[ip], Lost(ip))
       /\ stage \in {"grabbing", "posting"} => IsIdentified(scan.devices[ip], lan[ip])
       /\ stage = "posting" => IsGreeted(scan.devices[ip], lan[ip])

\* From the ARP listing on, the hosts that stay are described, in more detail at every stage.
Devices == HasDevices => \A ip \in steady \cap HostRange(net) : Described(ip)

\* What the ARP listing says of a host that is there since the scan began.
LEMMA ListingIsTrue ==
  ASSUME Phases, SignsOfLife, stage # "sleeping", net.found, NEW ip \in HostRange(net),
         ip \in Addr, lan[ip] # Nobody,
         ip \in DOMAIN cache => cache[ip] = lan[ip].mac,
         ip \notin DOMAIN cache => ip \in expired
  PROVE  /\ ip \in DOMAIN ArpTable => ArpTable[ip] = lan[ip].mac
         /\ ip \notin DOMAIN ArpTable => Lost(ip)
<1>1. ip # Broadcast(net)
  <2>1. IsSubnet(net)
    BY ScannedIsSubnet
  <2>2. ip < Broadcast(net) /\ ip \in Nat
    BY <2>1, RangeIsSound DEF Usable, Addr
  <2> QED
    BY <2>2
<1>2. lan[ip].mac # ZeroMac
  BY HostsHaveMacs DEF SignsOfLife
<1>3. /\ ip \in DOMAIN Resolved <=> ip \in DOMAIN cache
      /\ ip \in DOMAIN Resolved => Resolved[ip] = lan[ip].mac
  BY <1>2 DEF Resolved
<1>4. agent.system \in {"linux", "windows", "other"}
  BY AgentsAreTyped DEF Phases
<1>5. CASE agent.system = "linux"
  BY <1>3, <1>5 DEF ArpTable, Lost
<1>6. CASE agent.system = "windows"
  <2>1. ArpTable = Put(Resolved, Broadcast(net), BroadcastMac)
    BY <1>6 DEF ArpTable
  <2>2. /\ DOMAIN ArpTable = {Broadcast(net)} \cup DOMAIN Resolved
        /\ \A a \in DOMAIN ArpTable :
             ArpTable[a] = IF a = Broadcast(net) THEN BroadcastMac ELSE Resolved[a]
    BY <2>1 DEF Put
  <2> QED
    BY <1>1, <1>3, <2>2 DEF Lost
<1>7. CASE agent.system = "other"
  BY <1>7 DEF ArpTable, Lost
<1> QED
  BY <1>4, <1>5, <1>6, <1>7

LEMMA DevicesInit == Init => Devices
  BY DEF Init, Devices, HasDevices

LEMMA DevicesStep ==
  Devices /\ Steady /\ Phases /\ Addresses /\ SignsOfLife /\ [Next]_vars => Devices'
<1> SUFFICES ASSUME Devices, Steady, Phases, Addresses, SignsOfLife, [Next]_vars
             PROVE  Devices'
  OBVIOUS
<1>1. ASSUME UNCHANGED <<agent, net, scan>>, steady' \subseteq steady,
             \A j \in steady' : lan'[j] = lan[j],
             stage = "sleeping" \/ expired \subseteq expired',
             \/ UNCHANGED stage
             \/ stage \in {"ssdp", "mdns"} /\ stage' \in {"mdns", "naming"}
      PROVE  Devices'
  <2> SUFFICES ASSUME HasDevices', NEW ip \in steady' \cap HostRange(net)
               PROVE  Described(ip)'
    BY <1>1 DEF Devices
  <2>1. HasDevices /\ stage # "sleeping"
    BY <1>1 DEF HasDevices
  <2>2. Described(ip)
    BY <1>1, <2>1 DEF Devices
  <2>3. Lost(ip) => Lost(ip)'
    BY <1>1, <2>1 DEF Lost
  <2>4. lan'[ip] = lan[ip] /\ scan' = scan
    BY <1>1
  <2>5. ip \in DOMAIN scan.devices => IsDescribed(scan.devices[ip], lan[ip], Lost(ip)')
    BY <2>2, <2>3 DEF Described, IsDescribed
  <2> QED
    BY <1>1, <2>2, <2>3, <2>4, <2>5 DEF Described
<1>2. ASSUME NEW ip \in Places, NEW host \in Hosts \cup {Nobody}, Move(ip, host)
      PROVE  Devices'
  <2>1. \A j \in steady' : lan'[j] = lan[j]
    BY <1>2 DEF Move, SignsOfLife, Steady
  <2>2. steady' \subseteq steady /\ UNCHANGED <<agent, net, scan, stage, expired>>
    BY <1>2 DEF Move
  <2> QED
    BY <1>1, <2>1, <2>2
<1>3. ASSUME NEW ip \in Places, Expire(ip)
      PROVE  Devices'
  BY <1>1, <1>3 DEF Expire
<1>4. ASSUME NEW a \in Agents, StartScan(a)
      PROVE  Devices'
  BY <1>4 DEF StartScan, Devices, HasDevices
<1>5. CASE (\E ip \in Addr : Probe(ip)) \/ StoreScan \/ ScanLost
  BY <1>5 DEF Probe, StoreScan, ScanLost, Deliver, Devices, HasDevices
<1>6. CASE ReadArp
  <2>1. /\ UNCHANGED <<lan, cache, agent, net, probed, steady, expired>>
        /\ stage = "probing" /\ todo = {} /\ stage' = "ssdp"
        /\ scan' = [scan EXCEPT !.devices = Merge]
    BY <1>6 DEF ReadArp, history
  <2> SUFFICES ASSUME NEW ip \in steady \cap HostRange(net), net.found
               PROVE  Described(ip)'
    BY <2>1 DEF Devices, HasDevices
  <2>2. Reached(ip) /\ ip \in Addr /\ lan[ip] # Nobody
    BY DEF Steady
  <2>3. /\ ip \in DOMAIN probed => lan[ip].tcp /\ probed[ip] = lan[ip].ports
        /\ lan[ip].tcp => ip \in DOMAIN probed
        /\ ip \in DOMAIN cache => cache[ip] = lan[ip].mac
        /\ ip \notin DOMAIN cache => ip \in expired
    BY <2>1, <2>2 DEF Reached
  <2>4. /\ ip \in DOMAIN ArpTable => ArpTable[ip] = lan[ip].mac
        /\ ip \notin DOMAIN ArpTable => Lost(ip)
    BY <2>1, <2>2, <2>3, ListingIsTrue
  <2>5. InSubnet(ip, net)
    <3>1. IsSubnet(net)
      BY <2>1, ScannedIsSubnet
    <3>2. ip \in Usable(net)
      BY <3>1, RangeIsSound
    <3>3. ip \in net.base..Broadcast(net)
      BY <3>1, <3>2, SubnetIsSound DEF Usable, Addr
    <3> QED
      BY <3>1, <3>3, SubnetIsSound
  <2>6. scan'.devices = Merge
    BY <2>1 DEF Addresses
  <2>7. ip \in DOMAIN Merge <=> ip \in DOMAIN probed \/ ip \in DOMAIN ArpTable
    BY <2>5 DEF Merge
  <2>8. ip \in DOMAIN Merge => Merge[ip] = Device(ip)
    BY DEF Merge
  <2>9. IsDescribed(Device(ip), lan[ip], Lost(ip))
    <3>1. IsRecord(Device(ip)) /\ Device(ip).ports = PortsAt(ip) /\ Device(ip).vendor = VendorAt(ip)
      BY DEF Device, IsRecord
    <3>2. PortsAt(ip) = IF lan[ip].tcp THEN lan[ip].ports ELSE {}
      BY <2>3 DEF PortsAt
    <3>3. VendorAt(ip) = Vendor(lan[ip].mac) \/ (VendorAt(ip) = {} /\ Lost(ip))
      BY <2>4 DEF VendorAt
    <3> QED
      BY <3>1, <3>2, <3>3 DEF IsDescribed
  <2>10. Lost(ip)' = Lost(ip)
    BY <2>1 DEF Lost
  <2> QED
    BY <2>1, <2>3, <2>4, <2>6, <2>7, <2>8, <2>9, <2>10 DEF Described
<1>7. CASE \/ \E ip \in Places : \E st \in lan[ip].sts : HearResponse(ip, st)
           \/ \E ip \in Places : \E service \in lan[ip].services : HearService(ip, service)
           \/ Done \/ UNCHANGED vars
  <2>1. UNCHANGED <<lan, agent, net, scan, stage, steady, expired>>
    BY <1>7 DEF HearResponse, HearService, Done, vars, history
  <2> QED
    BY <1>1, <2>1
<1>8. CASE Deadline
  <2>1. UNCHANGED <<lan, agent, net, scan, steady, expired>>
    BY <1>8 DEF Deadline, history
  <2>2. stage \in {"ssdp", "mdns"} /\ stage' \in {"mdns", "naming"}
    BY <1>8 DEF Deadline
  <2> QED
    BY <1>1, <2>1, <2>2
<1>9. CASE NameDevices
  <2>1. /\ UNCHANGED <<lan, agent, net, steady, expired, ssdp, mdns>>
        /\ stage = "naming" /\ stage' = "grabbing"
        /\ scan' = [scan EXCEPT !.devices = [ip \in DOMAIN scan.devices |-> Named(ip)]]
    BY <1>9 DEF NameDevices, history, announced
  <2> SUFFICES ASSUME NEW ip \in steady \cap HostRange(net), net.found
               PROVE  Described(ip)'
    BY <2>1 DEF Devices, HasDevices
  <2>2. Described(ip)
    BY <2>1 DEF Devices, HasDevices
  <2>3. /\ DOMAIN scan'.devices = DOMAIN scan.devices
        /\ ip \in DOMAIN scan.devices => scan'.devices[ip] = Named(ip)
    BY <2>1 DEF Addresses
  <2>4. Lost(ip)' = Lost(ip) /\ lan'[ip] = lan[ip]
    BY <2>1 DEF Lost
  <2>5. ASSUME ip \in DOMAIN scan.devices
        PROVE  IsDescribed(Named(ip), lan[ip], Lost(ip)) /\ IsIdentified(Named(ip), lan[ip])
    <3> DEFINE d     == scan.devices[ip]
               host  == lan[ip]
               st    == IF ip \in DOMAIN ssdp THEN ssdp[ip] ELSE {}
               heard == IF ip \in DOMAIN mdns THEN mdns[ip] ELSE NoServices
               name  == IF host.ptr # {} THEN host.ptr ELSE heard.name
               new   == Named(ip)
    <3>1. IsDescribed(d, host, Lost(ip))
      BY <2>2, <2>5 DEF Described
    <3>2. new = Identify(d, st, heard.services, name)
      BY DEF Named
    <3>3. Announced(ip)
      BY DEF Steady
    <3>4. st \in {{}} \cup {{t} : t \in host.sts}
      BY <3>3 DEF Announced
    <3>5. heard.services \in SUBSET host.services
      BY <3>3 DEF Announced, NoServices
    <3>6. heard.name = IF heard.services # {} THEN host.name ELSE {}
      BY <3>3 DEF Announced, NoServices
    <3> HIDE DEF d, host, st, heard, new
    <3>7. /\ IsRecord(new)
          /\ new.ports = d.ports /\ new.vendor = d.vendor
          /\ new.name = name
          /\ new.type = ClassOf(d, st, heard.services, name)
      BY <3>1, <3>2, IdentifySets DEF IsDescribed
    <3>8. IsDescribed(new, host, Lost(ip))
      BY <3>1, <3>7 DEF IsDescribed
    <3>9. new.type = ClassOf(new, st, heard.services, new.name)
      BY <3>7 DEF ClassOf
    <3>10. IsIdentified(new, host)
      BY <3>4, <3>5, <3>6, <3>7, <3>9 DEF IsIdentified
    <3> QED
      BY <3>8, <3>10 DEF new, host
  <2> QED
    BY <2>1, <2>2, <2>3, <2>4, <2>5 DEF Described
<1>10. CASE GrabBanners
  <2>1. /\ UNCHANGED <<lan, agent, net, steady, expired>>
        /\ stage = "grabbing" /\ stage' = "posting"
        /\ scan' = [gateway |-> agent.gateway,
                    devices |-> [ip \in DOMAIN scan.devices |->
                                   [scan.devices[ip] EXCEPT !.banners = BannersAt(ip)]]]
    BY <1>10 DEF GrabBanners, history
  <2> SUFFICES ASSUME NEW ip \in steady \cap HostRange(net), net.found
               PROVE  Described(ip)'
    BY <2>1 DEF Devices, HasDevices
  <2>2. Described(ip)
    BY <2>1 DEF Devices, HasDevices
  <2>3. /\ DOMAIN scan'.devices = DOMAIN scan.devices
        /\ ip \in DOMAIN scan.devices =>
             scan'.devices[ip] = [scan.devices[ip] EXCEPT !.banners = BannersAt(ip)]
    BY <2>1
  <2>4. Lost(ip)' = Lost(ip) /\ lan'[ip] = lan[ip]
    BY <2>1 DEF Lost
  <2>5. ASSUME ip \in DOMAIN scan.devices
        PROVE  LET new == scan'.devices[ip]
               IN  /\ IsDescribed(new, lan[ip], Lost(ip))
                   /\ IsIdentified(new, lan[ip])
                   /\ IsGreeted(new, lan[ip])
    <3> DEFINE d    == scan.devices[ip]
               host == lan[ip]
               new  == scan'.devices[ip]
               said == BannersAt(ip)
    <3>1. IsDescribed(d, host, Lost(ip)) /\ IsIdentified(d, host)
      BY <2>1, <2>2, <2>5 DEF Described
    <3>2. new = [d EXCEPT !.banners = said]
      BY <2>3, <2>5
    <3>3. said = UNION {Grab(p, host.greets[p]) : p \in d.ports \cap DOMAIN host.greets}
      BY DEF BannersAt
    <3> HIDE DEF d, host, new, said
    <3>4. new = [ports |-> d.ports, vendor |-> d.vendor, name |-> d.name, type |-> d.type,
                 banners |-> said]
      BY <3>1, <3>2 DEF IsDescribed, IsRecord
    <3>5. /\ new.ports = d.ports /\ new.vendor = d.vendor /\ new.name = d.name
          /\ new.type = d.type /\ new.banners = said
      BY <3>4
    <3>6. IsDescribed(new, host, Lost(ip))
      BY <3>1, <3>4, <3>5 DEF IsDescribed, IsRecord
    <3>7. IsIdentified(new, host)
      BY <3>1, <3>5 DEF IsIdentified, ClassOf
    <3>8. IsGreeted(new, host)
      BY <3>3, <3>5 DEF IsGreeted
    <3> QED
      BY <3>6, <3>7, <3>8 DEF new, host
  <2> QED
    BY <2>1, <2>2, <2>3, <2>4, <2>5 DEF Described
<1> QED
  BY <1>2, <1>3, <1>4, <1>5, <1>6, <1>7, <1>8, <1>9, <1>10 DEF Next

LEMMA DevicesInvariant == Spec => [](Devices /\ Steady /\ Phases)
<1>1. Init => SignsOfLife /\ Phases /\ Addresses /\ Steady /\ Devices
  BY MapInit, PhasesInit, AddressesInit, SteadyInit, DevicesInit DEF MapInv
<1>2. MapInv => SignsOfLife
  BY DEF MapInv
<1>3. Addresses /\ Phases /\ [Next]_vars => Addresses'
  BY AddressesStep
<1>4. Steady /\ Phases /\ SignsOfLife /\ [Next]_vars => Steady'
  BY SteadyStep
<1>5. Devices /\ Steady /\ Phases /\ Addresses /\ SignsOfLife /\ [Next]_vars => Devices'
  BY DevicesStep
<1> QED
  BY <1>1, <1>2, <1>3, <1>4, <1>5, MapInvariant, PhasesInvariant, PTL DEF Spec

\* A usable address within the cap is one that is probed.
LEMMA WithinCapIsProbed ==
  ASSUME Phases, HasDevices, NEW ip \in Usable(net), ip <= net.base + MaxHosts
  PROVE  ip \in HostRange(net)
<1>1. IsSubnet(net)
  BY ScannedIsSubnet DEF HasDevices
<1> QED
  BY <1>1, RangeIsSound

\* A host that stays is found, by its answer or, if the listing has not lost it, by its
\* ARP entry, however the other hosts come and go and in whatever order it is probed.
THEOREM HostsThatStayAreFound == Spec => []ScanFindsHosts
<1>1. Devices /\ Phases => ScanFindsHosts
  <2> SUFFICES ASSUME Devices, Phases, HasDevices, NEW ip \in steady \cap Usable(net),
                      ip <= net.base + MaxHosts,
                      lan[ip].tcp \/ (ip \notin expired /\ agent.system # "other")
               PROVE  ip \in DOMAIN scan.devices
    BY DEF ScanFindsHosts
  <2>1. ip \in HostRange(net)
    BY WithinCapIsProbed
  <2> QED
    BY <2>1 DEF Devices, Described, Lost
<1> QED
  BY <1>1, DevicesInvariant, PTL

\* Its device has its own ports, vendor and banners, and the class and name that follow
\* from some of its own announcements: nothing of another host is mixed in.
THEOREM HostsThatStayAreThemselves == Spec => []SteadyHostsAreThemselves
<1>1. Devices /\ Phases => SteadyHostsAreThemselves
  <2> SUFFICES ASSUME Devices, Phases, stage = "posting", net.found,
                      NEW ip \in steady \cap Usable(net) \cap DOMAIN scan.devices,
                      ip <= net.base + MaxHosts
               PROVE  LET d    == scan.devices[ip]
                          host == lan[ip]
                      IN  /\ d.ports = IF host.tcp THEN host.ports ELSE {}
                          /\ \/ d.vendor = Vendor(host.mac)
                             \/ d.vendor = {} /\ (ip \in expired \/ agent.system = "other")
                          /\ d.banners = UNION {Grab(p, host.greets[p]) :
                                                  p \in d.ports \cap DOMAIN host.greets}
                          /\ d.name \in {host.ptr, host.name, {}}
                          /\ \E st \in {{}} \cup {{t} : t \in host.sts},
                                heard \in SUBSET host.services :
                               /\ d = Identify(d, st, heard, d.name)
                               /\ d.name = IF host.ptr # {} THEN host.ptr
                                           ELSE IF heard # {} THEN host.name ELSE {}
    BY DEF SteadyHostsAreThemselves
  <2> DEFINE d    == scan.devices[ip]
             host == lan[ip]
  <2>1. HasDevices
    BY DEF HasDevices
  <2>2. ip \in HostRange(net)
    BY <2>1, WithinCapIsProbed
  <2>3. IsDescribed(d, host, Lost(ip)) /\ IsIdentified(d, host) /\ IsGreeted(d, host)
    BY <2>1, <2>2 DEF Devices, Described
  <2> HIDE DEF d, host
  <2>4. /\ d.ports = IF host.tcp THEN host.ports ELSE {}
        /\ d.vendor = Vendor(host.mac) \/ (d.vendor = {} /\ (ip \in expired \/ agent.system = "other"))
    BY <2>3 DEF IsDescribed, Lost
  <2>5. d.banners = UNION {Grab(p, host.greets[p]) : p \in d.ports \cap DOMAIN host.greets}
    BY <2>3 DEF IsGreeted
  <2>6. PICK st \in {{}} \cup {{t} : t \in host.sts}, heard \in SUBSET host.services :
          /\ d.type = ClassOf(d, st, heard, d.name)
          /\ d.name = IF host.ptr # {} THEN host.ptr ELSE IF heard # {} THEN host.name ELSE {}
    BY <2>3 DEF IsIdentified
  <2>7. d = Identify(d, st, heard, d.name)
    BY <2>3, <2>6, IdentifiedIsFixed DEF IsDescribed
  <2>8. d.name \in {host.ptr, host.name, {}}
    BY <2>6
  <2> QED
    BY <2>4, <2>5, <2>6, <2>7, <2>8 DEF d, host
<1> QED
  BY <1>1, DevicesInvariant, PTL
=============================================================================
