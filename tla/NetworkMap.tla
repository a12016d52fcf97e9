----------------------------- MODULE NetworkMap -----------------------------
(***************************************************************************)
(* The LAN scan of an agent and the network map of the control plane: the  *)
(* agent chooses a subnet, probes its addresses in parallel, reads the     *)
(* system's ARP listing, listens for announcements, asks for names and     *)
(* banners, and posts the scan; the control plane stores it, and the map   *)
(* is built of the scan stored last.                                       *)
(*                                                                         *)
(* A scan takes a minute.  Hosts come and go meanwhile, so its parts are   *)
(* of different moments.  The LAN and the ARP cache are external.          *)
(***************************************************************************)
EXTENDS Topology, Fingerprint, Announcements

CONSTANTS
  MaxHosts,   \* MAX_HOSTS, 1024: how many addresses are probed at most
  Agents,     \* agents that scan: their system, interfaces as get_if_addrs returns them,
              \* default gateway or NoAddr, and whether they are too old to give types
  Hosts,      \* hosts that may be on the LAN
  Places,     \* bound: addresses a host may have
  MaxMoves,   \* bound on how often a host comes or goes
  MaxScans    \* bound on the number of scans

\* 1024 of 2^32 addresses.  More would reach the broadcast address of a mask of zeros.
ASSUME MaxHostsIsPositive == MaxHosts \in 1..(2^AddrBits - 2)
ASSUME PlacesAreAddresses == Places \subseteq Addr
ASSUME GatewaysAreAddresses == \A a \in Agents : a.gateway \in Addr \cup {NoAddr}
ASSUME AgentsAreTyped ==
  \A a \in Agents :
    /\ a.system \in {"linux", "windows", "other"}
    /\ \A i \in DOMAIN a.interfaces :
         i \in Nat /\ a.interfaces[i].ip \in Addr /\ a.interfaces[i].prefix \in 0..AddrBits
ASSUME HostsHaveMacs == \A host \in Hosts : host.mac # ZeroMac

VARIABLES
  lan,      \* lan[ip]: the host that has the address, or Nobody
  cache,    \* the ARP cache: the MAC of the addresses it has an entry of
  stage,    \* where the scan thread is in scan()
  agent,    \* the agent that scans, or NoAgent
  net,      \* base and prefix of the subnet it scans, NoNet if it found none
  todo,     \* addresses still to be probed
  probed,   \* the open ports of the addresses that showed signs of life
  ssdp,     \* the search target of the addresses that responded
  mdns,     \* name and services of the addresses that announced some
  scan,     \* the scan under construction
  stored,   \* the scan LatestScan returns
  steady,   \* addresses whose host has been there since the scan began (history)
  expired,  \* addresses that lost an entry of the cache since then (history)
  met,      \* addresses at which there ever was a host (history)
  moves, scans

announced == <<ssdp, mdns>>
history   == <<steady, expired, met>>
vars      == <<lan, cache, stage, agent, net, todo, probed, announced, scan, stored, history,
               moves, scans>>

\* A host answers connections or drops them, has open ports, a MAC address, a PTR
\* record, SSDP search targets, an mDNS name with services, and greetings at ports.
Nobody == [tcp |-> FALSE, ports |-> {}, mac |-> ZeroMac, ptr |-> {}, sts |-> {}, name |-> {},
           services |-> {}, greets |-> <<>>]

NoAgent   == [system |-> "none"]
NoNet     == [base |-> 0, prefix |-> 0, found |-> FALSE]
EmptyScan == [gateway |-> NoAddr, devices |-> <<>>]

-----------------------------------------------------------------------------
(* Subnet and range *)

\* All arithmetic is that of 32 bits, a shift by the whole width included.
Wrap(n) == n % (2^AddrBits)

NetworkBase(ip, prefix) == ip - (ip % (2^(AddrBits - prefix)))

\* The first interface with a private address, or else the first of any kind;
\* no loopback, no link-local, no point-to-point.
LocalSubnet(interfaces) ==
  LET eligible(i) == interfaces[i].kind \in {"private", "public"}
                       /\ interfaces[i].prefix < AddrBits - 1
      all     == {i \in DOMAIN interfaces : eligible(i)}
      private == {i \in all : interfaces[i].kind = "private"}
      chosen  == interfaces[Min(IF private # {} THEN private ELSE all)]
  IN  IF all = {} THEN NoNet
      ELSE [base |-> NetworkBase(chosen.ip, chosen.prefix), prefix |-> chosen.prefix,
            found |-> TRUE]

Capped(start, end) ==
  start .. (IF end - start + 1 > MaxHosts THEN start + MaxHosts - 1 ELSE end)

Size(prefix) == 2^((AddrBits - prefix) % AddrBits)

\* Variant: the broadcast address is in the range.
HostRangeInclusive(n) == Capped(n.base + 1, Wrap(n.base + Size(n.prefix) + 2^AddrBits - 1))

HostRange(n) ==
  IF n.prefix >= AddrBits - 1 THEN {n.base}
  ELSE Capped(n.base + 1, Wrap(n.base + Size(n.prefix) + 2^AddrBits - 2))

InSubnet(ip, n) == NetworkBase(ip, n.prefix) = n.base

-----------------------------------------------------------------------------
(* Devices of a scan *)

\* Variant: entries that are not resolved are listed.
AllEntries == cache

\* The entries of the cache that are resolved.
Resolved == [ip \in {a \in DOMAIN cache : cache[a] # ZeroMac} |-> cache[ip]]

Broadcast(n) == n.base + 2^(AddrBits - n.prefix) - 1

\* Windows adds the broadcast address; of other systems there is no listing.
ArpTable ==
  IF agent.system = "linux" THEN Resolved
  ELSE IF agent.system = "windows" THEN Put(Resolved, Broadcast(net), BroadcastMac) ELSE <<>>

PortsAt(ip) == IF ip \in DOMAIN probed THEN probed[ip] ELSE {}

VendorAt(ip) == IF ip \in DOMAIN ArpTable THEN Vendor(ArpTable[ip]) ELSE {}

Device(ip) == [ports |-> PortsAt(ip), vendor |-> VendorAt(ip), name |-> {}, type |-> "", banners |-> {}]

\* Variant: the cache only adds to the devices that answered.
MergeAnswering == [ip \in DOMAIN probed |-> Device(ip)]

\* The addresses that answered and those of the subnet in the listing.
Merge == [ip \in DOMAIN probed \cup {a \in DOMAIN ArpTable : InSubnet(a, net)} |-> Device(ip)]

\* The class by fingerprint, announcements and name; the name is that of reverse DNS
\* or else of mDNS.
Identify(d, st, services, name) ==
  LET bySsdp == RefineWith(StRules, Classify(d.ports, d.vendor), st)
      byMdns == RefineWith(ServiceRules, bySsdp, services)
  IN  [d EXCEPT !.name = name, !.type = RefineWithHostname(byMdns, name)]

Named(ip) ==
  LET st    == IF ip \in DOMAIN ssdp THEN ssdp[ip] ELSE {}
      heard == IF ip \in DOMAIN mdns THEN mdns[ip] ELSE NoServices
      name  == IF lan[ip].ptr # {} THEN lan[ip].ptr ELSE heard.name
  IN  Identify(scan.devices[ip], st, heard.services, name)

\* The banners of the ports that were open, of whoever has the address by now.
BannersAt(ip) ==
  UNION {Grab(p, lan[ip].greets[p]) : p \in scan.devices[ip].ports \cap DOMAIN lan[ip].greets}

-----------------------------------------------------------------------------
Init ==
  /\ lan = [ip \in Addr |-> Nobody] /\ cache = <<>>
  /\ stage = "sleeping" /\ agent = NoAgent /\ net = NoNet
  /\ todo = {} /\ probed = <<>> /\ ssdp = <<>> /\ mdns = <<>>
  /\ scan = EmptyScan /\ stored = EmptyScan
  /\ steady = {} /\ expired = {} /\ met = {}
  /\ moves = 0 /\ scans = 0

\* A host joins, leaves, or is replaced at its address by another.
Move(ip, host) ==
  /\ moves < MaxMoves
  /\ moves' = moves + 1
  /\ host # lan[ip]
  /\ lan' = [lan EXCEPT ![ip] = host]
  /\ steady' = steady \ {ip}
  /\ met' = IF host = Nobody THEN met ELSE met \cup {ip}
  /\ UNCHANGED <<cache, stage, agent, net, todo, probed, announced, scan, stored, expired, scans>>

\* The system drops an entry of its ARP cache.
Expire(ip) ==
  /\ ip \in DOMAIN cache
  /\ cache' = [a \in DOMAIN cache \ {ip} |-> cache[a]]
  /\ expired' = IF stage = "sleeping" THEN {} ELSE expired \cup {ip}
  /\ UNCHANGED <<lan, stage, agent, net, todo, probed, announced, scan, stored, steady, met,
                 moves, scans>>

\* scan() begins.  Without a subnet the scan is the empty one.
StartScan(a) ==
  /\ stage = "sleeping"
  /\ scans < MaxScans
  /\ scans' = scans + 1
  /\ agent' = a
  /\ net' = LocalSubnet(a.interfaces)
  /\ todo' = IF net'.found THEN HostRange(net') ELSE {}
  /\ stage' = IF net'.found THEN "probing" ELSE "posting"
  /\ steady' = {ip \in Addr : lan[ip] # Nobody}
  /\ UNCHANGED <<lan, cache, probed, announced, scan, stored, expired, met, moves>>

\* Connections to an address are tried, in any order of addresses.  A host that
\* accepts or refuses shows that it is alive; any host that is there answers ARP,
\* and of an address without one an entry is left that is not resolved.
Probe(ip) ==
  /\ stage = "probing"
  /\ ip \in todo
  /\ todo' = todo \ {ip}
  /\ probed' = IF lan[ip].tcp THEN Put(probed, ip, lan[ip].ports) ELSE probed
  /\ cache' = Put(cache, ip, lan[ip].mac)
  /\ UNCHANGED <<lan, stage, agent, net, announced, scan, stored, history, moves, scans>>

ReadArp ==
  /\ stage = "probing"
  /\ todo = {}
  /\ stage' = "ssdp"
  /\ scan' = [scan EXCEPT !.devices = Merge]
  /\ UNCHANGED <<lan, cache, agent, net, todo, probed, announced, stored, history, moves, scans>>

\* For three seconds each, what is announced and is not lost, in any order.
HearResponse(ip, st) ==
  /\ stage = "ssdp"
  /\ st \in lan[ip].sts
  /\ ssdp' = WithResponse(ssdp, ip, {st})
  /\ UNCHANGED <<lan, cache, stage, agent, net, todo, probed, mdns, scan, stored, history, moves,
                 scans>>

HearService(ip, service) ==
  /\ stage = "mdns"
  /\ service \in lan[ip].services
  /\ mdns' = WithService(mdns, ip, lan[ip].name, service)
  /\ UNCHANGED <<lan, cache, stage, agent, net, todo, probed, ssdp, scan, stored, history, moves,
                 scans>>

Deadline ==
  /\ \/ stage = "ssdp" /\ stage' = "mdns"
     \/ stage = "mdns" /\ stage' = "naming"
  /\ UNCHANGED <<lan, cache, agent, net, todo, probed, announced, scan, stored, history, moves,
                 scans>>

\* Reverse DNS, and the classes.
NameDevices ==
  /\ stage = "naming"
  /\ stage' = "grabbing"
  /\ scan' = [scan EXCEPT !.devices = [ip \in DOMAIN @ |-> Named(ip)]]
  /\ UNCHANGED <<lan, cache, agent, net, todo, probed, announced, stored, history, moves, scans>>

\* Banners, and the default gateway last.
GrabBanners ==
  /\ stage = "grabbing"
  /\ stage' = "posting"
  /\ scan' = [gateway |-> agent.gateway,
              devices |-> [ip \in DOMAIN scan.devices |->
                             [scan.devices[ip] EXCEPT !.banners = BannersAt(ip)]]]
  /\ UNCHANGED <<lan, cache, agent, net, todo, probed, announced, stored, history, moves, scans>>

\* Variant: what was announced is kept for the next scan.
DeliverKeeping ==
  /\ stage = "posting"
  /\ stage' = "sleeping"
  /\ agent' = NoAgent
  /\ net' = NoNet
  /\ probed' = <<>>
  /\ scan' = EmptyScan
  /\ steady' = {}
  /\ expired' = {}
  /\ UNCHANGED <<lan, cache, todo, announced, met, moves, scans>>

\* deliver: whatever becomes of the post, the scan is over.
Deliver ==
  /\ stage = "posting"
  /\ stage' = "sleeping"
  /\ agent' = NoAgent
  /\ net' = NoNet
  /\ probed' = <<>>
  /\ ssdp' = <<>>
  /\ mdns' = <<>>
  /\ scan' = EmptyScan
  /\ steady' = {}
  /\ expired' = {}
  /\ UNCHANGED <<lan, cache, todo, met, moves, scans>>

\* postDiscovery, SaveScan.  The control plane knows no banners, an older agent no types.
Received(d) == [d EXCEPT !.banners = {}, !.type = IF agent.old THEN "" ELSE @]

StoreScan ==
  /\ Deliver
  /\ stored' = [scan EXCEPT !.devices = [ip \in DOMAIN @ |-> Received(@[ip])]]

\* The post fails; the scan is dropped.
ScanLost == Deliver /\ UNCHANGED stored

Done == stage = "sleeping" /\ scans = MaxScans /\ UNCHANGED vars

Next ==
  \/ \E ip \in Places, host \in Hosts \cup {Nobody} : Move(ip, host)
  \/ \E ip \in Places : Expire(ip)
  \/ \E a \in Agents : StartScan(a)
  \/ \E ip \in Addr : Probe(ip)
  \/ ReadArp
  \/ \E ip \in Places : \E st \in lan[ip].sts : HearResponse(ip, st)
  \/ \E ip \in Places : \E service \in lan[ip].services : HearService(ip, service)
  \/ Deadline
  \/ NameDevices
  \/ GrabBanners
  \/ StoreScan
  \/ ScanLost
  \/ Done

Spec == Init /\ [][Next]_vars

-----------------------------------------------------------------------------
(* Properties *)

\* The addresses between network and broadcast address.
Usable(n) == {ip \in Addr : n.base < ip /\ ip < Broadcast(n)}

\* No address outside the chosen subnet is ever probed, nor its network and
\* broadcast addresses, nor more than the cap allows, whatever the mask.
ProbesStayInSubnet ==
  todo # {} => todo \subseteq Usable(net) /\ Cardinality(todo) <= MaxHosts

HasDevices == stage \in {"ssdp", "mdns", "naming", "grabbing", "posting"} /\ net.found

\* A host that is there throughout the scan, at an address within the cap, is
\* found: by an answer, or, if it drops connections, by the ARP listing, unless
\* there is none or the cache lost it in between.
ScanFindsHosts ==
  HasDevices =>
    \A ip \in steady \cap Usable(net) :
      /\ ip <= net.base + MaxHosts
      /\ lan[ip].tcp \/ (ip \notin expired /\ agent.system # "other")
      => ip \in DOMAIN scan.devices

\* Every device is at an address where there was a host at some time, but for the
\* broadcast address on Windows.
NoPhantomDevices ==
  HasDevices =>
    DOMAIN scan.devices \subseteq met \cup (IF agent.system = "windows" THEN {Broadcast(net)} ELSE {})

\* A host that is there throughout the scan, at an address that is probed, is described
\* by nothing but what is its own: ports, vendor (if the listing has it), banners,
\* and the class and name that follow from some of its announcements.
SteadyHostsAreThemselves ==
  stage = "posting" /\ net.found =>
    \A ip \in steady \cap Usable(net) \cap DOMAIN scan.devices :
      ip <= net.base + MaxHosts =>
        LET d    == scan.devices[ip]
            host == lan[ip]
        IN  /\ d.ports = IF host.tcp THEN host.ports ELSE {}
            /\ d.vendor = Vendor(host.mac) \/ (d.vendor = {} /\ (ip \in expired \/ agent.system = "other"))
            /\ d.banners = UNION {Grab(p, host.greets[p]) : p \in d.ports \cap DOMAIN host.greets}
            /\ d.name \in {host.ptr, host.name, {}}
            /\ \E st \in {{}} \cup {{t} : t \in host.sts}, heard \in SUBSET host.services :
                 /\ d = Identify(d, st, heard, d.name)
                 /\ d.name = IF host.ptr # {} THEN host.ptr ELSE IF heard # {} THEN host.name ELSE {}

\* "Only upgrades the generic device or promotes workstation to server; never
\* overrides a port-proven class": whatever is announced, and whoever has the
\* address by the time of the announcement.
ProvenClassKept ==
  stage = "posting" =>
    \A ip \in DOMAIN scan.devices :
      LET d      == scan.devices[ip]
          proven == ByPort(d.ports)
      IN  proven # "" =>
            d.type = proven \/ (proven = "workstation" /\ d.type = "server")

\* The map is a tree below the internet in which every device of the scan is
\* one node, with an address no other node has.
MapIsTree ==
  LET map   == Build(stored)
      ids   == {n.id : n \in map.nodes}
  IN  /\ \A m, n \in map.nodes : m.id = n.id \/ m.ip = n.ip => m = n
      /\ \A e \in map.edges : e.from \in ids /\ e.to \in ids
      /\ \A id \in ids \ {Internet} : Cardinality({e \in map.edges : e.to = id}) = 1
      /\ \A ip \in DOMAIN stored.devices : \E n \in map.nodes : n.ip = ip
=============================================================================
