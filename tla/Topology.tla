------------------------------ MODULE Topology ------------------------------
(***************************************************************************)
(* The network map: topology.Build makes a graph of a scan.  A scan has a  *)
(* gateway and devices, a function from the addresses found; an address is *)
(* a number, and NoAddr the empty string.  Labels and metadata of nodes    *)
(* are left out.                                                           *)
(***************************************************************************)
EXTENDS Naturals, FiniteSetsExt

CONSTANTS
  AddrBits,   \* width of an address: 32
  OctetBits   \* width of its last part: 8

ASSUME WidthsArePositive == AddrBits \in Nat \ {0} /\ OctetBits \in 1..AddrBits

Addr == 0..(2^AddrBits - 1)

NoAddr == 2^AddrBits

Internet     == <<"internet">>
Gateway      == <<"gateway">>
DeviceId(ip) == <<"dev", ip>>

\* The fallback of a scan without a gateway: an address that ends in ".1" (of
\* which a scan of more than one octet may have several, the first is taken;
\* the agent sends its devices sorted), or the lowest.
InferGateway(found) ==
  LET ones == {ip \in found : ip % (2^OctetBits) = 1}
  IN  IF ones # {} THEN Min(ones) ELSE Min(found)

GatewayOf(scan) ==
  IF scan.gateway = NoAddr THEN InferGateway(DOMAIN scan.devices) ELSE scan.gateway

\* The type the agent gave, or for older agents what the first telling port
\* suggests (the agent sends its ports in ascending order).
DeviceType(d) ==
  LET telling == d.ports \cap {9100, 445, 3389, 135}
  IN  IF d.type # "" THEN d.type
      ELSE IF telling = {} THEN "device"
      ELSE IF Min(telling) = 9100 THEN "printer" ELSE "workstation"

Node(id, type, ip) == [id |-> id, type |-> type, ip |-> ip]
Edge(from, to)     == [from |-> from, to |-> to]

\* Variant: the gateway's own entry gets a node, too.
AllAreShown(scan) == DOMAIN scan.devices

\* The devices with a node of their own: the gateway has its node already.
ShownAsDevice(scan) == DOMAIN scan.devices \ {GatewayOf(scan)}

\* An empty scan has an empty map.
Build(scan) ==
  IF DOMAIN scan.devices = {} THEN [nodes |-> {}, edges |-> {}]
  ELSE
    [nodes |-> {Node(Internet, "internet", NoAddr), Node(Gateway, "gateway", GatewayOf(scan))}
                 \cup {Node(DeviceId(ip), DeviceType(scan.devices[ip]), ip) :
                         ip \in ShownAsDevice(scan)},
     edges |-> {Edge(Internet, Gateway)}
                 \cup {Edge(Gateway, DeviceId(ip)) : ip \in ShownAsDevice(scan)}]
=============================================================================
