---------------------------- MODULE Fingerprint ----------------------------
(***************************************************************************)
(* Device classes of the LAN scan: from open ports and the vendor of the   *)
(* network card, from what a device announces of itself, and from its      *)
(* hostname.                                                               *)
(*                                                                         *)
(* A vendor, a hostname or an announcement is the set of the words the     *)
(* rules look for that occur in it (and of others); {} is the empty        *)
(* string.  Of rules in a sequence, the first that matches counts.         *)
(***************************************************************************)
EXTENDS Naturals, FiniteSetsExt

Rule(class, words) == [class |-> class, words |-> words]

\* The class of the first rule with one of the words; "" if there is none.
FirstMatch(rules, words) ==
  LET hits == {i \in DOMAIN rules : rules[i].words \cap words # {}}
  IN  IF hits = {} THEN "" ELSE rules[Min(hits)].class

\* The more telling of two answers, the second if the first has nothing to say.
OrElse(class, other) == IF class = "" THEN other ELSE class

Classes == {"printer", "media", "camera", "nas", "phone", "workstation", "router",
            "network", "iot", "server", "device"}

-----------------------------------------------------------------------------
(* Ports and vendor *)

StrongPorts ==
  << Rule("printer", {9100, 515, 631}), Rule("media", {8009, 32400}), Rule("camera", {554, 8554}) >>

LaterPorts ==
  << Rule("phone", {62078}), Rule("workstation", {445, 3389, 135, 139}) >>

NetworkMakers ==
  {"ubiquiti", "mikrotik", "cisco", "tp-link", "tplink", "netgear", "asus", "zyxel", "aruba",
   "ruckus", "fortinet", "draytek", "routerboard"}

VendorRules ==
  << Rule("printer", {"hp", "canon", "epson", "brother", "xerox", "toshiba", "lexmark", "kyocera",
                      "ricoh"}),
     Rule("camera", {"hikvision", "dahua", "axis", "reolink", "amcrest", "uniview"}),
     Rule("nas", {"synology", "qnap", "buffalo", "western digital"}),
     Rule("network", NetworkMakers),
     Rule("phone", {"apple", "samsung", "xiaomi", "huawei", "oneplus"}),
     Rule("iot", {"espressif", "tuya", "sonos", "amazon", "nest", "midea", "broadlink", "shelly",
                  "raspberry"}) >>

\* What is said by ports that are characteristic of a class.
ByPort(ports) ==
  OrElse(FirstMatch(StrongPorts, ports),
       IF 5000 \in ports /\ 5001 \in ports THEN "nas" ELSE FirstMatch(LaterPorts, ports))

ByVendor(ports, vendor) ==
  LET class == FirstMatch(VendorRules, vendor)
  IN  IF class = "network" /\ ports \cap {80, 443, 53} # {} THEN "router" ELSE class

ByWeakPort(ports) ==
  IF ports \cap {80, 443} = {} /\ 22 \in ports THEN "server" ELSE "device"

Classify(ports, vendor) ==
  OrElse(ByPort(ports), OrElse(ByVendor(ports, vendor), ByWeakPort(ports)))

-----------------------------------------------------------------------------
(* Announcements *)

StRules ==
  << Rule("router", {"internetgatewaydevice", "wandevice", "wanconnectiondevice"}),
     Rule("media", {"mediarenderer", "mediaserver", "dial"}),
     Rule("printer", {"printer"}),
     Rule("iot", {"basic:1"}) >>

ServiceRules ==
  << Rule("printer", {"_ipp", "_printer", "_pdl"}),
     Rule("media", {"_googlecast", "_airplay", "_raop", "_spotify"}),
     Rule("nas", {"_smb", "_afpovertcp", "_nfs"}),
     Rule("iot", {"_hap"}),
     Rule("server", {"_ssh"}) >>

\* An announcement only tells the class of what is no more than a "device".
RefineWith(rules, class, words) ==
  IF class = "device" THEN OrElse(FirstMatch(rules, words), class) ELSE class

-----------------------------------------------------------------------------
(* Hostnames *)

HostnameRules ==
  << Rule("server", {"win-", "server", "srv", "-dc", "dc0", "vmhost", "esxi", "proxmox", "hyperv"}),
     Rule("nas", {"truenas", "freenas", "synology", "diskstation", "qnap", "nas"}),
     Rule("printer", {"printer", "officejet", "laserjet", "mfp", "-print"}),
     Rule("camera", {"ipcam", "ipc-", "nvr", "dvr", "camera"}),
     Rule("network", {"unifi", "udm", "usw", "uap", "switch", "sw-", "router", "rt-", "ap-",
                      "gateway", "mikrotik", "openwrt"}),
     Rule("phone", {"iphone", "ipad", "android", "galaxy", "pixel", "redmi"}),
     Rule("media", {"chromecast", "appletv", "firetv", "roku", "shield-"}),
     Rule("iot", {"esp", "shelly", "tasmota", "sonoff", "tuya"}),
     Rule("workstation", {"desktop-", "laptop-", "pc-", "precision", "thinkpad", "latitude",
                          "macbook", "imac"}) >>

\* Variant: any name that says something decides.
RefineByAnyName(class, name) == OrElse(FirstMatch(HostnameRules, name), class)

\* A name tells the class of a "device", and promotes a workstation to a server.
RefineWithHostname(class, name) ==
  LET said == FirstMatch(HostnameRules, name)
  IN  IF said # "" /\ (class = "device" \/ (class = "workstation" /\ said = "server"))
      THEN said ELSE class
=============================================================================
