------------------------------ MODULE Addresses ------------------------------
(***************************************************************************)
(* The addresses of a build: what a save asks hlbIPAM for (planIPAM), and  *)
(* what it writes back or refuses (CalculateNetwork), while a user or an   *)
(* assistant edits between two saves.  The service in the middle is        *)
(* Allocator.                                                              *)
(*                                                                         *)
(* A device has the settings that shape its network: its address and       *)
(* whether it is pinned, DHCP, NAT, a mask, a port with a subnet of its    *)
(* own, its guests and the virtual network between them and its uplink.    *)
(* An address is as narrow as Bits, so that the third number of a /24 has  *)
(* few values; names, pools and interfaces shown to the user are left out. *)
(***************************************************************************)
EXTENDS Allocator

CONSTANTS TypeOf,     \* the type of each device; "guest" for a guest
          Rank,       \* the order in which the ids were created
          PortRank,   \* the order of the ports of a device
          Scenes,     \* bound: the builds edited, as [nodes, cables]
          Cabling,    \* bound: the cables that may be drawn
          Typed,      \* bound: the addresses somebody types
          MaxEdits,   \* bound: edits in all
          MaxSaves    \* bound: saves between two edits

(* A build as it is edited: a device has all its settings, the ids of the  *)
(* guests are their own, a guest has one host, a cable two ends.           *)
Settings == {"ip", "locked", "dhcp", "nat", "routing", "wan", "mask", "lan", "ports",
             "clients", "guests", "virtual"}

DeviceFits(d) ==
    /\ DOMAIN d = Settings
    /\ d.ip \in Address \cup {None} /\ d.mask \in Capacities \cup {None}
    /\ d.lan \in [ip : Address \cup {None}, net : Subnet \cup {None}]
    /\ DOMAIN d.ports \subseteq Ports
    /\ \A h \in DOMAIN d.ports : d.ports[h] \in [ip : Address, net : Subnet, dhcp : BOOLEAN]
    /\ \A g \in DOMAIN d.guests :
         g \in Ids /\ TypeOf[g] = "guest" /\ DOMAIN d.guests[g] = {"ip", "static"}

BuildFits(ns, cs) ==
    /\ IsFiniteSet(DOMAIN ns) /\ DOMAIN ns \subseteq Ids
    /\ \A n \in DOMAIN ns : TypeOf[n] # "guest" /\ DeviceFits(ns[n])
    /\ \A m, n \in DOMAIN ns : m # n => DOMAIN ns[m].guests \cap DOMAIN ns[n].guests = {}
    /\ \A c \in cs : {c.s, c.t} \subseteq DOMAIN ns

ASSUME AddressesAssumption ==
    /\ None \notin Int /\ "self" \notin Ports /\ IsFiniteSet(Ports)
    /\ Rank \in [Ids -> Int] /\ \A a, b \in Ids : Rank[a] = Rank[b] => a = b
    /\ PortRank \in [Ports -> Int] /\ \A a, b \in Ports : PortRank[a] = PortRank[b] => a = b
    /\ \A scene \in Scenes : BuildFits(scene.nodes, scene.cables)
    /\ Typed \subseteq Address /\ MaxSaves \in Nat

(* The address space, a power of two, has room for two /24, and every      *)
(* subnet divides it.                                                      *)
Third == Whole \div 256 - 1
ASSUME ThereAreLANs ==
    /\ {Whole, Third} \subseteq Nat \ {0} /\ 255 \in Capacities
    /\ \A c \in Capacities : c \in Nat /\ Whole = (Whole \div (c + 1)) * (c + 1)

VARIABLES nodes,      \* the devices with their settings and guests
          cables,     \* the network cables between them
          edits,      \* edits so far (bound)
          saves       \* saves since the last edit (bound)

build == <<nodes, cables, edits>>
vars == <<nodes, cables, edits, saves, request, plan, stage, left, used, owners, accepted,
          assigned, offset, host>>

-----------------------------------------------------------------------------
(* The request of a save. *)

Switches == {"bridge"}
Network(d) == d.virtual # None

(* What the uplink of a host reaches; guests do not forward. *)
virtualReachable(links) ==
    LET forwards == {"uplink"} \cup Switches
        reached[k \in Nat] ==
          IF k = 0 THEN {"uplink"}
          ELSE LET so == reached[k - 1]
               IN  so \cup UNION {l \in links : l \cap so \cap forwards # {}}
    IN  reached[Cardinality(Switches) + 1]

virtualIPAMGuests(d) ==
    {g \in DOMAIN d.guests : Network(d) => g \in virtualReachable(d.virtual)}

RequestedIP(d, g) == IF Network(d) THEN d.guests[g].static ELSE d.guests[g].ip

RealGateway(n) == TypeOf[n] = "router"
NATGateway(ns, n) == /\ TypeOf[n] \in {"server_v2", "vps", "firewall"}
                     /\ ns[n].nat \/ (ns[n].routing /\ ns[n].dhcp)
UpstreamAnchor(ns, n) == TypeOf[n] \in {"router", "modem"} \/ ns[n].wan

portGateways(ns, n) ==
    IF TypeOf[n] \in {"router", "firewall"} THEN DOMAIN ns[n].ports ELSE {}

Port(handle, default) == IF handle = "" THEN default ELSE handle

(* The two ends a cable has for hlbIPAM.  A port with a subnet of its own  *)
(* is a gateway; the LAN side of a NAT gateway is one, so that what is     *)
(* behind it becomes an island.                                            *)
Ends(ns, c) ==
    LET sh == Port(c.sh, "eth0")
        th == Port(c.th, "target-0")
        sp == sh \in portGateways(ns, c.s)
        tp == th \in portGateways(ns, c.t)
        inside(n, other, lan) ==
          c.dir = "lan" \/ (c.dir = "auto" /\ lan /\ ~UpstreamAnchor(ns, other))
        nat(n, other, lan) == <<n, IF inside(n, other, lan) THEN "lan" ELSE "self">>
    IN  CASE sp \/ tp ->
               {<<c.s, IF sp THEN sh ELSE "self">>, <<c.t, IF tp THEN th ELSE "self">>}
          [] ~(sp \/ tp) /\ NATGateway(ns, c.s) ->
               {nat(c.s, c.t, c.sh # "target-0"), <<c.t, "self">>}
          [] ~(sp \/ tp) /\ ~NATGateway(ns, c.s) /\ NATGateway(ns, c.t) ->
               {nat(c.t, c.s, c.th \notin {"", "target-0"}), <<c.s, "self">>}
          [] OTHER -> {<<c.s, "self">>, <<c.t, "self">>}

Neighbours(ns, cs, e) ==
    UNION {Ends(ns, c) \ {e} : c \in {d \in cs : d.type # "vpn" /\ e \in Ends(ns, d)}}

(* A NAT gateway that has no LAN yet gets the first free /24 beside the    *)
(* one of a router next to it (of several, the code asks their ports which *)
(* comes first).                                                           *)
freeLANs(ns, cs, n, taken) ==
    LET parents == {e[1] : e \in {f \in Neighbours(ns, cs, <<n, "self">>) :
                                    f[2] = "self" /\ RealGateway(f[1])
                                    /\ ns[f[1]].ip # None}}
        third(p, k) == LET t == ((ns[p].ip \div 256) + k) % Third IN IF t = 0 THEN 1 ELSE t
        free(p) == {k \in 1..(Third - 1) : 256 * third(p, k) + 1 \notin taken}
    IN  {256 * third(p, First(free(p))) + 1 : p \in {q \in parents : free(q) # {}}}

(* The members of a set one after the other: at each place the one with as *)
(* many before it.                                                         *)
InOrder(S, before) ==
    [i \in 1..Cardinality(S) |->
       CHOOSE x \in S : Cardinality({y \in S : <<y, x>> \in before}) = i - 1]

ByRank == {p \in Ids \X Ids : Rank[p[1]] < Rank[p[2]]}
ByPort == {pq \in (Ids \X Ports) \X (Ids \X Ports) :
             LET p == pq[1]  q == pq[2]
             IN  <<p[1], q[1]>> \in ByRank \/ (p[1] = q[1] /\ PortRank[p[2]] < PortRank[q[2]])}

natGateways(ns) == InOrder({n \in DOMAIN ns : NATGateway(ns, n)}, ByRank)

(* The LAN of a NAT gateway: its own, or a free one. *)
LANOf(ns, cs, n, taken) ==
    LET found == freeLANs(ns, cs, n, taken)
    IN  CASE ns[n].lan.ip # None -> ns[n].lan
          [] ns[n].lan.ip = None /\ found # {} ->
               LET a == First(found) IN [ip |-> a, net |-> [ip |-> a, capacity |-> 255]]
          [] OTHER -> [ip |-> None, net |-> None]

(* The LANs of the NAT gateways, one after the other. *)
nextNATLAN(ns, cs) ==
    LET nats == natGateways(ns)
        taken == {ns[n].ip : n \in DOMAIN ns} \cup {ns[n].lan.ip : n \in DOMAIN ns}
                 \cup UNION {{ns[n].ports[h].ip : h \in portGateways(ns, n)} : n \in DOMAIN ns}
        lan[i \in 1..Len(nats)] ==
          LANOf(ns, cs, nats[i], taken \cup {lan[j].ip : j \in 1..(i - 1)})
    IN  lan

Gateways(ns, cs) ==
    LET routers == InOrder({n \in DOMAIN ns : RealGateway(n)}, ByRank)
        nats == natGateways(ns)
        lan == nextNATLAN(ns, cs)
        served == {p \in (DOMAIN ns) \X Ports : p[2] \in portGateways(ns, p[1])}
        ports == InOrder(served, ByPort)
    IN  [i \in 1..Len(routers) |->
           LET r == routers[i]
           IN  [id |-> <<r, "self">>, ip |-> ns[r].ip, dhcp |-> ns[r].dhcp,
                net |-> IF ns[r].ip # None /\ ns[r].mask # None
                        THEN [ip |-> ns[r].ip, capacity |-> ns[r].mask] ELSE None]]
        \o [i \in 1..Len(nats) |->
              [id |-> <<nats[i], "lan">>, ip |-> lan[i].ip, net |-> lan[i].net,
               dhcp |-> ns[nats[i]].dhcp \/ ns[nats[i]].nat]]
        \o [i \in 1..Len(ports) |->
              LET port == ns[ports[i][1]].ports[ports[i][2]]
              IN  [id |-> ports[i], ip |-> port.ip, net |-> port.net, dhcp |-> port.dhcp]]

InGatewaySubnet(ip, d) ==
    LET capacity == IF d.mask = None THEN 255 ELSE d.mask
    IN  /\ None \notin {ip, d.ip}
        /\ NetworkOf(ip, capacity) = NetworkOf(d.ip, capacity)

(* Mutant: every pinned address must be in the subnet of a router next to  *)
(* its device, not only a NAT gateway's.                                   *)
ExistingIPNextToRouter(ns, cs, n) ==
    CASE TypeOf[n] \in NonNetworkTypes -> None
      [] TypeOf[n] \notin NonNetworkTypes /\ RealGateway(n) -> ns[n].ip
      [] TypeOf[n] \notin NonNetworkTypes /\ ~RealGateway(n) /\ ns[n].locked ->
           IF \E e \in Neighbours(ns, cs, <<n, "self">>) :
                RealGateway(e[1]) /\ e[2] = "self" /\ InGatewaySubnet(ns[n].ip, ns[e[1]])
           THEN ns[n].ip ELSE None
      [] OTHER -> None

(* The address a device is to keep. *)
ExistingIP(ns, cs, n) ==
    CASE TypeOf[n] \in NonNetworkTypes -> None
      [] TypeOf[n] \notin NonNetworkTypes /\ RealGateway(n) -> ns[n].ip
      [] TypeOf[n] \notin NonNetworkTypes /\ ~RealGateway(n) /\ ns[n].locked ->
           IF NATGateway(ns, n) =>
                \E e \in Neighbours(ns, cs, <<n, "self">>) :
                   RealGateway(e[1]) /\ e[2] = "self" /\ InGatewaySubnet(ns[n].ip, ns[e[1]])
           THEN ns[n].ip ELSE None
      [] OTHER -> None

planIPAM(ns, cs) ==
    [gateways |-> Gateways(ns, cs),
     nodes |-> [n \in DOMAIN ns |->
                  [type |-> TypeOf[n], at |-> Rank[n], existing |-> ExistingIP(ns, cs, n),
                   clients |-> ns[n].clients, links |-> Neighbours(ns, cs, <<n, "self">>)]],
     guests |-> [g \in UNION {virtualIPAMGuests(ns[n]) : n \in DOMAIN ns} |->
                   LET h == CHOOSE n \in DOMAIN ns : g \in DOMAIN ns[n].guests
                   IN  [host |-> h, existing |-> RequestedIP(ns[h], g), at |-> Rank[g]]]]

-----------------------------------------------------------------------------
(* A save: the request, the answer, and what is written back. *)

StartSave ==
    /\ saves < MaxSaves
    /\ Begin(planIPAM(nodes, cables))
    /\ UNCHANGED <<build, saves>>

NewIP(n) ==
    CASE RealGateway(n) ->
           GatewayIP(request, First({i \in GatewayIndex(request) :
                                       request.gateways[i].id = <<n, "self">>}))
      [] ~RealGateway(n) /\ n \in DOMAIN assigned -> assigned[n]
      [] ~RealGateway(n) /\ n \notin DOMAIN assigned ->
           IF TypeOf[n] \in NonNetworkTypes \/ nodes[n].locked THEN nodes[n].ip ELSE None

NewLAN(n) ==
    LET opened == {i \in GatewayIndex(request) : request.gateways[i].id = <<n, "lan">>}
    IN  CASE opened # {} ->
               LET i == First(opened)
                   k == SubnetOf(request, i)
               IN  [ip |-> GatewayIP(request, i), net |-> [ip |-> k[1], capacity |-> k[2]]]
          [] opened = {} /\ TypeOf[n] \in {"server_v2", "vps"} -> [ip |-> None, net |-> None]
          [] OTHER -> nodes[n].lan

(* Mutant: a guest that was given nothing keeps what it had. *)
NewGuestsKept(n) ==
    [g \in DOMAIN nodes[n].guests |->
       [nodes[n].guests[g] EXCEPT !.ip = IF g \in DOMAIN assigned THEN assigned[g] ELSE @]]

NewGuests(n) ==
    [g \in DOMAIN nodes[n].guests |->
       [nodes[n].guests[g] EXCEPT !.ip = IF g \in DOMAIN assigned THEN assigned[g] ELSE None]]

Written == [n \in DOMAIN nodes |->
              [nodes[n] EXCEPT !.ip = NewIP(n), !.lan = NewLAN(n), !.guests = NewGuests(n)]]

(* A guest in a virtual network gets the address it asks for, or the whole *)
(* save is refused.                                                        *)
Unavailable(ns) ==
    \E n \in DOMAIN ns : \E g \in virtualIPAMGuests(ns[n]) :
       /\ Network(ns[n]) /\ ns[n].ip # None
       /\ ns[n].guests[g].static \notin {None, ns[n].guests[g].ip}

FinishSave ==
    /\ Answer
    /\ ~Unavailable(Written)
    /\ nodes' = Written /\ saves' = saves + 1
    /\ UNCHANGED <<cables, edits>>

(* Rolled back: the build stays as it was saved, the canvas as it is. *)
RefuseSave ==
    /\ Answer
    /\ Unavailable(Written)
    /\ saves' = MaxSaves
    /\ UNCHANGED build

-----------------------------------------------------------------------------
(* Edits between two saves. *)

Edited ==
    /\ stage = "idle" /\ edits < MaxEdits /\ edits' = edits + 1
    /\ saves' = 0
    /\ UNCHANGED alloc

Change(n, d) == Edited /\ nodes[n] # d /\ nodes' = [nodes EXCEPT ![n] = d] /\ UNCHANGED cables

(* An address is pinned, or released. *)
setNodeIP(n, a) ==
    /\ TypeOf[n] \notin NonNetworkTypes
    /\ IF a = None
       THEN Change(n, [nodes[n] EXCEPT !.ip = None, !.locked = FALSE])
       ELSE Change(n, [nodes[n] EXCEPT !.ip = a, !.locked = @ \/ ~RealGateway(n)])

SetNAT(n)  == /\ TypeOf[n] \in {"server_v2", "firewall", "vps"}
              /\ Change(n, [nodes[n] EXCEPT !.nat = ~@])
SetDHCP(n) == /\ TypeOf[n] \in {"router", "server_v2", "firewall", "vps"}
              /\ Change(n, [nodes[n] EXCEPT !.dhcp = ~@])

Hosts == {n \in DOMAIN nodes : CanHostVMs(TypeOf[n])}
Running == UNION {DOMAIN nodes[n].guests : n \in DOMAIN nodes}

(* A new guest; on the canvas it starts without a link in a virtual        *)
(* network, a change set plugs it into the first switch.                   *)
addVM(n, g, linked) ==
    /\ g \notin Running
    /\ linked => Network(nodes[n])
    /\ Change(n, [nodes[n] EXCEPT
         !.guests = With(@, g, [ip |-> None, static |-> None]),
         !.virtual = IF linked THEN @ \cup {{"bridge", g}} ELSE @])

removeVM(n, g) ==
    /\ g \in DOMAIN nodes[n].guests
    /\ Change(n, [nodes[n] EXCEPT
         !.guests = [h \in DOMAIN @ \ {g} |-> @[h]],
         !.virtual = IF Network(nodes[n]) THEN {l \in @ : g \notin l} ELSE @])

(* A guest asks for an address. *)
SetStaticIP(n, g, a) ==
    /\ g \in DOMAIN nodes[n].guests
    /\ Change(n, [nodes[n] EXCEPT !.guests[g] = [ip |-> a, static |-> a]])

openVirtualNetwork(n) ==
    /\ ~Network(nodes[n])
    /\ Change(n, [nodes[n] EXCEPT
         !.virtual = {{"uplink", "bridge"}} \cup {{"bridge", g} : g \in DOMAIN nodes[n].guests}])

updateVirtualNetwork(n, l) ==
    /\ Network(nodes[n])
    /\ Change(n, [nodes[n] EXCEPT !.virtual = IF l \in @ THEN @ \ {l} ELSE @ \cup {l}])

VirtualLinks(n) ==
    {{"uplink", "bridge"}}
    \cup {{x, g} : x \in {"uplink", "bridge"}, g \in DOMAIN nodes[n].guests}

(* A cable is drawn or cut. *)
Cable(c) ==
    /\ {c.s, c.t} \subseteq DOMAIN nodes
    /\ Edited
    /\ cables' = IF c \in cables THEN cables \ {c} ELSE cables \cup {c}
    /\ UNCHANGED nodes

removeNode(n) ==
    /\ Edited
    /\ nodes' = [m \in DOMAIN nodes \ {n} |-> nodes[m]]
    /\ cables' = {c \in cables : n \notin {c.s, c.t}}

Edit ==
    \/ \E n \in DOMAIN nodes :
         \/ \E a \in Typed \cup {None} : setNodeIP(n, a)
         \/ SetNAT(n) \/ SetDHCP(n) \/ removeNode(n)
    \/ \E n \in Hosts :
         \/ openVirtualNetwork(n)
         \/ \E l \in VirtualLinks(n) : updateVirtualNetwork(n, l)
         \/ \E g \in Ids, linked \in BOOLEAN : TypeOf[g] = "guest" /\ addVM(n, g, linked)
         \/ \E g \in DOMAIN nodes[n].guests :
              removeVM(n, g) \/ \E a \in Typed \cup {None} : SetStaticIP(n, g, a)
    \/ \E c \in Cabling : Cable(c)

Init ==
    /\ AllocatorInit
    /\ \E scene \in Scenes : nodes = scene.nodes /\ cables = scene.cables
    /\ edits = 0 /\ saves = 0

Next ==
    \/ Edit
    \/ StartSave
    \/ Allocating /\ UNCHANGED <<build, saves>>
    \/ FinishSave
    \/ RefuseSave

Spec == Init /\ [][Next]_vars

-----------------------------------------------------------------------------
(* Properties. *)

(* Edits and saves make builds; what is kept and given is taken in its     *)
(* subnet.                                                                 *)
AddressesTypeOK ==
    /\ BuildFits(nodes, cables)
    /\ \A e \in DOMAIN assigned : assigned[e] \in used[Home(e)]
    /\ \A e \in DOMAIN accepted : accepted[e] \in used[Home(e)]

(* A build that is saved again and again keeps its addresses: from the     *)
(* fourth save in a row nothing changes any more (loadTopology reads in    *)
(* the order of creation for this).  Earlier ones may: a router without an *)
(* address gets one with the first save, and only then its mask counts,    *)
(* and guests keep addresses that their host has lost.                     *)
SavesSettle == [][stage = "answered" /\ saves >= 3 => UNCHANGED nodes]_vars

(* A pinned address stays pinned: the next save changes it only if it is   *)
(* outside its subnet, in the pool, a gateway's, or somebody else's too.   *)
PinnedStay ==
    [][stage = "answered" => \A n \in DOMAIN nodes :
         LET a == nodes[n].ip
             others == {Existing(request, e) : e \in {f \in Served \ {n} : Home(f) = Home(n)}}
         IN  /\ nodes[n].locked /\ ~NATGateway(nodes, n) /\ n \in Served
             /\ a \in Usable(Home(n)) \ plan.subnets[Home(n)].pool
             /\ a \notin others \cup plan.gateways[Home(n)]
             => nodes'[n].ip = a]_vars

(* A guest without a path to the uplink has no address after a save, nor   *)
(* has one whose host does not reach a router (docs/VIRTUAL-NETWORKS.md).  *)
GuestsNeedAnUplink ==
    saves > 0 /\ saves < MaxSaves /\ stage = "idle" =>
       \A n \in DOMAIN nodes : \A g \in DOMAIN nodes[n].guests :
          nodes[n].guests[g].ip # None =>
             /\ g \in virtualIPAMGuests(nodes[n])
             /\ n \in DOMAIN Owners(planIPAM(nodes, cables))
=============================================================================
