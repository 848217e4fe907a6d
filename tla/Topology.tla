------------------------------ MODULE Topology ------------------------------
(***************************************************************************)
(* The devices and cables of a build, and the two programs that change     *)
(* them: the change sets an assistant proposes (topology_ops*.go) and the  *)
(* hand on the canvas (visual-builder.tsx over builder-store.ts).  Both    *)
(* are written to satisfy the same third program, the check of a save      *)
(* (validateEdgeEndpoints), and each has rules of its own.                 *)
(*                                                                         *)
(* A device has a type for life; of its details the model keeps the counts *)
(* the rules read.  A port is a pair of a kind and an index.  Positions,   *)
(* names, speeds and the reasons given with a refusal are left out.        *)
(***************************************************************************)
EXTENDS Integers, FiniteSets

CONSTANTS Ids,        \* the ids devices may get
          TypeOf,     \* the type a device of that id has
          Nowhere,    \* the parent of a device that is in no rack
          Counts,     \* the counts a user or an assistant may type in
          Slots,      \* the rack slots they may name
          AllowLoops, \* the user's preference: network loops are allowed
          NATGateways, \* the hosts and firewalls that open a subnet of their own
          Builds      \* bound: what the builds explored may bring together

VARIABLES nodes,      \* the devices, by id
          edges,      \* the cables
          by          \* history: who made the last change

vars == <<nodes, edges, by>>

-----------------------------------------------------------------------------
(* What each type of device is. *)

PowerSources == {"ups", "pdu", "power_outlet"}
HubTypes     == {"router", "switch", "modem", "firewall", "server_v2", "vps", "iot"}
NestedTypes  == {"disk", "gpu", "cpu", "hba", "pcie"}
DynamicPorts == {"server", "server_v2", "firewall", "vps", "router", "switch", "modem"}
FloorTypes   == {"console", "lan_table", "power_outlet"}
WifiClients  == {"pc", "minipc", "sbc", "console"}
Addable      == {"router", "switch", "firewall", "server_v2", "minipc", "pc", "nas",
                 "sbc", "vps", "access_point", "rack", "iot", "ups", "modem", "pdu",
                 "power_outlet", "cpu", "console", "lan_table"}
Uncabled     == NestedTypes \cup {"rack"}
LinkTypes    == {"ethernet", "wireless", "vpn"}

Source(i) == TypeOf[i] \in PowerSources
Hub(i)    == TypeOf[i] \in HubTypes
Table(i)  == TypeOf[i] = "lan_table"
Rack(i)   == TypeOf[i] = "rack"

(* A client on the Wi-Fi of an access point. *)
Wifi(a, b) == \/ TypeOf[a] = "access_point" /\ TypeOf[b] \in WifiClients
              \/ TypeOf[b] = "access_point" /\ TypeOf[a] \in WifiClients

ASSUME TopologyAssumption ==
    /\ IsFiniteSet(Ids) /\ Nowhere \notin Ids
    /\ DOMAIN TypeOf = Ids
    /\ Counts \subseteq Nat \ {0} /\ Slots \subseteq Nat
    /\ \A c \in Counts : 0..(c - 1) \subseteq Slots
    /\ AllowLoops \in BOOLEAN
    /\ \A i \in NATGateways : i \in Ids /\ TypeOf[i] \in {"server_v2", "vps", "firewall"}
    /\ \A build \in Builds : /\ build.devices \subseteq Ids
                              /\ {build.cables, build.raised} \subseteq Nat

Device == [ports : Nat, psu : Nat, outlets : Nat, units : Nat, size : Nat,
           rack : Ids \cup {Nowhere}, slot : Nat]

-----------------------------------------------------------------------------
(* Ports: the uplink on top of a card, its network ports, its power inputs *)
(* and its sockets.                                                        *)

NoHandle == <<"none", 0>>
Uplink   == <<"target", 0>>
Eth(n)   == {<<"eth", i>> : i \in 0..(n - 1)}
Inputs(n)  == {<<"in", i>> : i \in 0..(n - 1)}
Sockets(n) == {<<"out", i>> : i \in 0..(n - 1)}
IsPower(h) == h[1] \in {"in", "out"}

PortCount(ns, i) == IF TypeOf[i] \in DynamicPorts THEN ns[i].ports ELSE 1

PowerInputCount(ns, i) ==
    IF TypeOf[i] \in NestedTypes \cup {"power_outlet", "rack", "vps"} THEN 0 ELSE ns[i].psu

PowerOutputCount(ns, i) == IF Source(i) THEN ns[i].outlets ELSE 0

ValidHandles(ns, i) ==
    IF Rack(i) THEN {}
    ELSE (IF Source(i) THEN {} ELSE {Uplink} \cup Eth(PortCount(ns, i)))
         \cup Inputs(PowerInputCount(ns, i)) \cup Sockets(PowerOutputCount(ns, i))

Power(es)   == {e \in es : e.type = "power"}
Network(es) == es \ Power(es)
Ends(e)     == {<<e.s, e.sh>>, <<e.t, e.th>>}
Joins(e, a, b) == {e.s, e.t} = {a, b}

(* The ports of i that carry a network cable; the clients of an access     *)
(* point do not take its port.                                             *)
UsedHandles(es, i) ==
    LET counted == {e \in Network(es) : ~(TypeOf[i] = "access_point" /\ Wifi(e.s, e.t))}
    IN  {p[2] : p \in {q \in UNION {Ends(e) : e \in counted} : q[1] = i}}

UsedPowerHandles(es, i) == {p[2] : p \in {q \in UNION {Ends(e) : e \in Power(es)} : q[1] = i}}

(* What a walk that starts at a and follows the pairs of r comes to. *)
ReachedBy(r, a) ==
    LET steps[n \in 0..Cardinality(r)] ==
          IF n = 0 THEN {a}
          ELSE LET reached == steps[n - 1]
               IN  reached \cup {p[2] : p \in {q \in r : q[1] \in reached}}
    IN  steps[Cardinality(r)]

(* Power runs from sockets to inputs, everything else between the others. *)
NetworkPort == {"eth", "target"} \X Nat
PowerLink   == [s : Ids, sh : {"out"} \X Nat, t : Ids, th : {"in"} \X Nat, type : {"power"}]
NetworkLink == [s : Ids, sh : NetworkPort, t : Ids, th : NetworkPort, type : LinkTypes]
Link == PowerLink \cup NetworkLink

Feeds(es) == {<<e.s, e.t>> : e \in Power(es)}
Cabled(es) == {<<e.s, e.t>> : e \in es} \cup {<<e.t, e.s>> : e \in es}

powerPathExists(es, from, to) == to \in ReachedBy(Feeds(es), from)

physicalPathExists(es, from, to) ==
    to \in ReachedBy(Cabled({e \in es : e.type \in {"ethernet", "wireless"}}), from)

-----------------------------------------------------------------------------
(* The check of a save. *)

NodeIssue(ns, i) ==
    \/ ns[i].rack # Nowhere /\ \/ ns[i].rack \notin DOMAIN ns
                               \/ ns[i].rack = i
                               \/ ~Rack(ns[i].rack)
                               \/ Rack(i)
                               \/ TypeOf[i] \in FloorTypes

PowerCableIssue(ns, e) ==
    \/ e.sh \notin Sockets(PowerOutputCount(ns, e.s))
    \/ e.th \notin Inputs(PowerInputCount(ns, e.t))

NetworkCableIssue(es, e) ==
    \/ IsPower(e.sh) \/ IsPower(e.th)
    \/ Source(e.s) \/ Source(e.t)
    \/ \E f \in Network(es) : f # e /\ Joins(f, e.s, e.t)
    \/ {TypeOf[e.s], TypeOf[e.t]} \cap Uncabled # {}
    \/ ~Wifi(e.s, e.t) /\ ~Hub(e.s) /\ ~Hub(e.t)
    \/ Wifi(e.s, e.t) /\ e.type # "wireless"
    \/ (Table(e.s) \/ Table(e.t)) /\ e.type # "ethernet"
    \/ \E i \in {e.s, e.t} : Table(i) /\ \E f \in Network(es) : f # e /\ i \in {f.s, f.t}
    \/ e.type = "wireless" /\ {TypeOf[e.s], TypeOf[e.t]} \cap {"access_point", "iot"} = {}

(* The ports a save finds taken by a cable: none by a tunnel, and not the  *)
(* access point's by its clients.                                          *)
PortsTaken(e) ==
    IF e.type = "vpn" THEN {}
    ELSE {p \in Ends(e) : e.type = "power"
                          \/ ~(Wifi(e.s, e.t) /\ TypeOf[p[1]] = "access_point")}

(* The ports of a cable that no other cable may take, a tunnel's among them. *)
PortsOf(e) == {p \in Ends(e) : e.type = "power"
                               \/ ~(Wifi(e.s, e.t) /\ TypeOf[p[1]] = "access_point")}
Apart(es) == \A e, f \in es : e # f => PortsOf(e) \cap PortsOf(f) = {}

powerLoop(es) == \E e \in Power(es) : powerPathExists(es, e.t, e.s)

Accepted(ns, es) ==
    /\ \A i \in DOMAIN ns : ~NodeIssue(ns, i)
    /\ \A e \in es :
         /\ {e.s, e.t} \subseteq DOMAIN ns
         /\ e.s # e.t
         /\ IF e.type = "power" THEN ~PowerCableIssue(ns, e) ELSE ~NetworkCableIssue(es, e)
         /\ \A f \in es \ {e} : PortsTaken(e) \cap PortsTaken(f) = {}
    /\ ~powerLoop(es)


-----------------------------------------------------------------------------
(* Racks.  A change set takes the slot it names, if it is free, or the     *)
(* first gap from the top; the canvas mounts a device where it is dropped. *)

SlotsOf(ns, i) == ns[i].slot .. (ns[i].slot + ns[i].units - 1)

Occupied(ns, r, i) == UNION {SlotsOf(ns, j) : j \in {k \in DOMAIN ns \ {i} : ns[k].rack = r}}

(* Mutant: only the slot a device starts at is looked at. *)
fitsAtStart(ns, r, i, start) ==
    /\ start + ns[i].units <= ns[r].size
    /\ start \notin Occupied(ns, r, i)

fits(ns, r, i, start) ==
    /\ start + ns[i].units <= ns[r].size
    /\ start .. (start + ns[i].units - 1) \cap Occupied(ns, r, i) = {}

allocateRackSlot(ns, r, i, want) ==
    LET gaps == {s \in Slots : fits(ns, r, i, s)}
    IN  IF want # {} THEN gaps \cap want ELSE {s \in gaps : \A other \in gaps : s <= other}

Mountable(ns, i, r) ==
    r \in DOMAIN ns /\ Rack(r) /\ ~Rack(i) /\ TypeOf[i] \notin FloorTypes

(* The graphs rackNode leaves when it mounts i in r: one, or none.         *)
rackNode(ns, i, r, want) ==
    IF Mountable(ns, i, r)
    THEN {[ns EXCEPT ![i].rack = r, ![i].slot = s] : s \in allocateRackSlot(ns, r, i, want)}
    ELSE {}

Without(ns, gone) == [i \in DOMAIN ns \ gone |-> ns[i]]
Unplugged(es, gone) == {e \in es : {e.s, e.t} \cap gone = {}}

(* A rack goes together with what is mounted in it. *)
removed(ns, i) == {i} \cup {j \in DOMAIN ns : Rack(i) /\ ns[j].rack = i}

-----------------------------------------------------------------------------
(* The cables of a change set. *)

upstreamRank(i) ==
    CASE TypeOf[i] = "modem" -> 0 [] TypeOf[i] = "router" -> 1
      [] TypeOf[i] = "firewall" -> 2 [] TypeOf[i] = "switch" -> 3
      [] TypeOf[i] = "access_point" -> 4
      [] TypeOf[i] \in {"server_v2", "vps"} /\ i \in NATGateways -> 2
      [] OTHER -> 5

powerSourceRank(i) ==
    CASE TypeOf[i] = "power_outlet" -> 0 [] TypeOf[i] = "ups" -> 1 [] OTHER -> 2

Lowest(hs) == {h \in hs : \A other \in hs : h[2] <= other[2]}

firstFreePort(ns, es, i) == Lowest(Eth(PortCount(ns, i)) \ UsedHandles(es, i))

Landing(ns, es, i) ==
    IF Uplink \notin UsedHandles(es, i) THEN {Uplink} ELSE firstFreePort(ns, es, i)

CanTake(ns, es, i, h) ==
    h = NoHandle \/ (~IsPower(h) /\ h \in ValidHandles(ns, i) \ UsedHandles(es, i))

Cable(a, ha, b, hb, type) == [s |-> a, sh |-> ha, t |-> b, th |-> hb, type |-> type]

(* The ports a new network cable takes when it is drawn from a to b: the   *)
(* ones that were named, the lowest free ones for the others, and the      *)
(* other way round when a is out of ports.                                 *)
pickHandles(ns, es, a, ha, b, hb, type) ==
    IF ~CanTake(ns, es, a, ha) \/ ~CanTake(ns, es, b, hb) THEN {}
    ELSE CASE ha # NoHandle /\ hb # NoHandle -> {Cable(a, ha, b, hb, type)}
           [] ha # NoHandle /\ hb = NoHandle ->
                 {Cable(a, ha, b, h, type) : h \in Landing(ns, es, b)}
           [] ha = NoHandle /\ hb # NoHandle ->
                 {Cable(a, h, b, hb, type) : h \in firstFreePort(ns, es, a)}
           [] OTHER ->
                 IF firstFreePort(ns, es, a) # {}
                 THEN {Cable(a, h, b, k, type) :
                         h \in firstFreePort(ns, es, a), k \in Landing(ns, es, b)}
                 ELSE {Cable(b, h, a, Uplink, type) :
                         h \in {k \in firstFreePort(ns, es, b) : Uplink \notin UsedHandles(es, a)}}

MayLink(es, a, b, type) ==
    /\ ~Source(a) /\ ~Source(b)
    /\ ~\E e \in es : Joins(e, a, b)
    /\ Wifi(a, b) => type = "wireless"
    /\ {TypeOf[a], TypeOf[b]} \cap Uncabled = {}
    /\ Wifi(a, b) \/ Hub(a) \/ Hub(b)
    /\ \A i \in {a, b} : Table(i) =>
          type = "ethernet" /\ ~\E e \in Network(es) : i \in {e.s, e.t}
    /\ type = "wireless" => {TypeOf[a], TypeOf[b]} \cap {"access_point", "iot"} # {}
    /\ type # "vpn" /\ ~AllowLoops => ~physicalPathExists(es, a, b)

networkCables(ns, es, a, ha, b, hb, type) ==
    IF ha = NoHandle /\ hb = NoHandle /\ upstreamRank(b) < upstreamRank(a)
    THEN pickHandles(ns, es, b, hb, a, ha, type)
    ELSE pickHandles(ns, es, a, ha, b, hb, type)

(* Mutant: the first socket, taken or not. *)
pickPowerFirst(es, i, want, all) == IF want = NoHandle THEN Lowest(all) ELSE all \cap {want}

pickPower(es, i, want, all) ==
    LET free == all \ UsedPowerHandles(es, i)
    IN  IF want = NoHandle THEN Lowest(free) ELSE free \cap {want}

(* A power cable runs from a socket to an input, whichever end was named   *)
(* first; between two sources it runs from the wall inwards.               *)
Swapped(a, b) ==
    IF Source(a) /\ Source(b) THEN powerSourceRank(b) < powerSourceRank(a) ELSE Source(b)

MayFeed(es, a, b) ==
    /\ Source(a) \/ Source(b)
    /\ IF Swapped(a, b) THEN ~powerPathExists(es, a, b) ELSE ~powerPathExists(es, b, a)

powerCables(ns, es, from, out, to, in) ==
    {Cable(from, h, to, k, "power") :
        h \in pickPower(es, from, out, Sockets(PowerOutputCount(ns, from))),
        k \in pickPower(es, to, in, Inputs(PowerInputCount(ns, to)))}

connectPower(ns, es, a, ha, b, hb) ==
    IF Swapped(a, b) THEN powerCables(ns, es, b, hb, a, ha)
                     ELSE powerCables(ns, es, a, ha, b, hb)

MayConnect(es, a, b, type) ==
    /\ a # b /\ ~Rack(a) /\ ~Rack(b)
    /\ IF type = "power" THEN MayFeed(es, a, b) ELSE MayLink(es, a, b, type)

Cables(ns, es, a, ha, b, hb, type) ==
    IF type = "power" THEN connectPower(ns, es, a, ha, b, hb)
                      ELSE networkCables(ns, es, a, ha, b, hb, type)

-----------------------------------------------------------------------------
(* The operations of a change set (topology_ops.go).  A batch is applied   *)
(* to a saved build, so to one a save accepted, all or nothing; the save   *)
(* of its result checks the whole once more; that check never refuses what *)
(* the operations let through, which is why a batch is modelled one        *)
(* operation at a time (ProgramsKeepAcceptable).                           *)

Plain == [ports |-> 1, psu |-> 1, outlets |-> 1, units |-> 1, size |-> 1,
          rack |-> Nowhere, slot |-> 0]

CountKeys == {"ports", "psu", "outlets", "units", "size"}

(* The counts the rules read of a device of that type. *)
Counted(i) ==
    {k \in CountKeys :
       CASE k = "ports"   -> TypeOf[i] \in DynamicPorts
         [] k = "psu"     -> TypeOf[i] \notin NestedTypes \cup {"power_outlet", "rack", "vps"}
         [] k = "outlets" -> Source(i)
         [] k = "size"    -> Rack(i)
         [] OTHER         -> ~Rack(i) /\ TypeOf[i] \notin FloorTypes}

Devices(i) == {[Plain EXCEPT ![k] = n] : k \in Counted(i), n \in Counts}

With(ns, i, device) == [j \in DOMAIN ns \cup {i} |-> IF j = i THEN device ELSE ns[j]]

addNode(i, device, r, want) ==
    /\ i \notin DOMAIN nodes /\ TypeOf[i] \in Addable
    /\ LET added == With(nodes, i, device)
       IN  IF r = Nowhere THEN nodes' = added
           ELSE \E ns \in rackNode(added, i, r, want) : nodes' = ns
    /\ UNCHANGED edges

(* A count may not fall below what is plugged in or mounted. *)
CountFits(ns, i) ==
    /\ \A h \in UNION {{p[2] : p \in {q \in Ends(e) : q[1] = i}} : e \in edges} :
         h[1] = "eth" => h[2] < PortCount(ns, i)
    /\ UsedPowerHandles(edges, i)
         \subseteq Inputs(PowerInputCount(ns, i)) \cup Sockets(PowerOutputCount(ns, i))
    /\ Rack(i) => \A j \in DOMAIN ns : ns[j].rack = i => ns[j].slot + ns[j].units <= ns[i].size
    /\ ns[i].rack # Nowhere => fits(ns, ns[i].rack, i, ns[i].slot)

updateDetails(i, key, n) ==
    /\ i \in DOMAIN nodes /\ key \in Counted(i)
    /\ nodes' = [nodes EXCEPT ![i] = [@ EXCEPT ![key] = n]]
    /\ CountFits(nodes', i)
    /\ UNCHANGED edges

(* Mounted in another rack, or in another slot of its own. *)
updateParent(i, r, want) ==
    /\ i \in DOMAIN nodes
    /\ ~(r = nodes[i].rack /\ want = {})
    /\ \E ns \in rackNode(nodes, i, r, want) : nodes' = ns
    /\ UNCHANGED edges

(* Taken out of its rack: it has no slot any more. *)
unmount(i) ==
    /\ i \in DOMAIN nodes /\ nodes[i].rack # Nowhere
    /\ nodes' = [nodes EXCEPT ![i].rack = Nowhere, ![i].slot = 0]
    /\ UNCHANGED edges

Remove(i) ==
    /\ i \in DOMAIN nodes
    /\ nodes' = Without(nodes, removed(nodes, i))
    /\ edges' = Unplugged(edges, removed(nodes, i))

Plug(cables) ==
    /\ \E c \in cables : edges' = edges \cup {c}
    /\ UNCHANGED nodes

connect(a, b, type) ==
    /\ {a, b} \subseteq DOMAIN nodes /\ MayConnect(edges, a, b, type)
    /\ \E ha \in ValidHandles(nodes, a) \cup {NoHandle},
          hb \in ValidHandles(nodes, b) \cup {NoHandle} :
          Plug(Cables(nodes, edges, a, ha, b, hb, type))

disconnect(a, b) ==
    /\ \E e \in edges : Joins(e, a, b) /\ edges' = edges \ {e}
    /\ UNCHANGED nodes

Retyped(e, type) == (edges \ {e}) \cup {[e EXCEPT !.type = type]}

updateConnection(a, b, type) ==
    /\ \E e \in edges :
         /\ Joins(e, a, b)
         /\ e.type # "power" /\ type # "power"
         /\ type = "wireless" => {TypeOf[a], TypeOf[b]} \cap {"access_point", "iot"} # {}
         /\ Wifi(a, b) => type = "wireless"
         /\ Table(a) \/ Table(b) => type = "ethernet"
         /\ edges' = Retyped(e, type)
    /\ UNCHANGED nodes

Wants == {{}} \cup {{s} : s \in Slots}

(* Bound: the devices that may join, by the builds explored. *)
Joining == {i \in Ids \ DOMAIN nodes :
              \E build \in Builds : DOMAIN nodes \cup {i} \subseteq build.devices}

Ops ==
    /\ Accepted(nodes, edges)
    /\ \/ \E i \in Joining, r \in DOMAIN nodes \cup {Nowhere}, want \in Wants :
             \E device \in Devices(i) : addNode(i, device, r, want)
       \/ \E i \in DOMAIN nodes, n \in Counts : \E key \in Counted(i) : updateDetails(i, key, n)
       \/ \E i, r \in DOMAIN nodes, want \in Wants : updateParent(i, r, want)
       \/ \E i \in DOMAIN nodes : unmount(i) \/ Remove(i)
       \/ \E a, b \in DOMAIN nodes, type \in LinkTypes \cup {"power"} : connect(a, b, type)
       \/ \E a, b \in DOMAIN nodes : disconnect(a, b)
       \/ \E a, b \in DOMAIN nodes, type \in LinkTypes : updateConnection(a, b, type)

-----------------------------------------------------------------------------
(* The canvas.  Any two ports of two cards can be joined; checkConnection  *)
(* decides.  A device lands where it is dropped, also on a taken slot.     *)

normalizePowerConnection(a, ha, b, hb) ==
    CASE ha[1] = "out" /\ hb[1] = "in" -> {Cable(a, ha, b, hb, "power")}
      [] ha[1] = "in" /\ hb[1] = "out" -> {Cable(b, hb, a, ha, "power")}
      [] OTHER -> {}

(* Mutant: only the socket is looked at. *)
checkPowerSocket(es, c) ==
    /\ \A e \in Power(es) : e.s # c.s \/ e.sh # c.sh
    /\ ~powerPathExists(es, c.t, c.s)

checkPowerConnection(es, c) ==
    /\ \A e \in Power(es) : e.s # c.s \/ e.sh # c.sh
    /\ \A e \in Power(es) : e.t # c.t \/ e.th # c.th
    /\ ~powerPathExists(es, c.t, c.s)

checkConnection(es, a, ha, b, hb) ==
    /\ ~(TypeOf[a] = "access_point" /\ Wifi(a, b)) => ha \notin UsedHandles(es, a)
    /\ ~(TypeOf[b] = "access_point" /\ Wifi(a, b)) => hb \notin UsedHandles(es, b)
    /\ \A i \in {a, b} : Table(i) => ~\E e \in Network(es) : i \in {e.s, e.t}
    /\ ~AllowLoops => b \notin ReachedBy(Cabled(Network(es)), a)
    /\ Wifi(a, b) \/ {TypeOf[a], TypeOf[b]} \cap (HubTypes \cup {"hba"}) # {}

(* A new network cable is wireless on an access point, except to a table. *)
onConnect(a, ha, b, hb) ==
    LET type == IF /\ "access_point" \in {TypeOf[a], TypeOf[b]}
                   /\ Wifi(a, b) \/ ~(Table(a) \/ Table(b))
                THEN "wireless" ELSE "ethernet"
    IN  {Cable(a, ha, b, hb, type)}

(* A cable drawn from port ha of a to port hb of b. *)
Drawn(es, a, ha, b, hb) ==
    IF IsPower(ha) \/ IsPower(hb)
    THEN {c \in normalizePowerConnection(a, ha, b, hb) : checkPowerConnection(es, c)}
    ELSE {c \in onConnect(a, ha, b, hb) : checkConnection(es, a, ha, b, hb)}

Draw ==
    \E a \in DOMAIN nodes : \E b \in DOMAIN nodes \ {a} :
       \E ha \in ValidHandles(nodes, a), hb \in ValidHandles(nodes, b) :
          Plug(Drawn(edges, a, ha, b, hb))

onDrop(i, device, r, slot) ==
    /\ i \notin DOMAIN nodes
    /\ r # Nowhere => Mountable(nodes, i, r)
    /\ nodes' = With(nodes, i, [device EXCEPT !.rack = r, !.slot = IF r = Nowhere THEN 0 ELSE slot])
    /\ UNCHANGED edges

(* Dropped on a rack, or outside the one it was mounted in. *)
onNodeDragStop(i, r, slot) ==
    /\ i \in DOMAIN nodes /\ ~Rack(i)
    /\ IF r = Nowhere THEN nodes[i].rack # Nowhere /\ slot = 0 ELSE Mountable(nodes, i, r)
    /\ nodes' = [nodes EXCEPT ![i].rack = r, ![i].slot = slot]
    /\ UNCHANGED edges

duplicateHardware(i, copy) ==
    /\ i \in DOMAIN nodes /\ copy \notin DOMAIN nodes
    /\ TypeOf[copy] = TypeOf[i] /\ ~Rack(i)
    /\ nodes' = With(nodes, copy, nodes[i])
    /\ UNCHANGED edges

(* The delete key takes what is selected; a rack takes what it holds. *)
onNodesChange(gone) ==
    LET all == UNION {removed(nodes, i) : i \in gone}
    IN  /\ nodes' = Without(nodes, all)
        /\ edges' = Unplugged(edges, all)

onEdgesChange(gone) == edges' = edges \ gone /\ UNCHANGED nodes

(* The canvas links and moves devices. *)
Hands ==
    \/ Draw
    \/ \E i \in Joining, r \in DOMAIN nodes \cup {Nowhere}, slot \in Slots :
          \E device \in Devices(i) : onDrop(i, device, r, slot)
    \/ \E i \in DOMAIN nodes, r \in DOMAIN nodes \cup {Nowhere}, slot \in Slots :
          onNodeDragStop(i, r, slot)
    \/ \E i \in DOMAIN nodes, copy \in Joining : duplicateHardware(i, copy)
    \/ \E gone \in SUBSET DOMAIN nodes : gone # {} /\ onNodesChange(gone)
    \/ \E e \in edges : onEdgesChange({e})

(* The cables that lose the port they start at, or the power input they    *)
(* run to, when a card shows fewer of them.                                *)
Orphaned(ns, es, i) ==
    {e \in es : \/ e.t = i /\ e.th[1] = "in" /\ e.th[2] >= PowerInputCount(ns, i)
                \/ e.s = i /\ e.sh[1] = "out" /\ e.sh[2] >= PowerOutputCount(ns, i)
                \/ /\ e.s = i /\ e.sh[1] = "eth" /\ TypeOf[i] \in DynamicPorts
                   /\ e.sh[2] >= PortCount(ns, i)}

(* The panels of a card and of a cable, where a count or a type is chosen. *)
(* A card that shows other ports than before drops its orphaned cables.    *)
updateHardware(i, key, n) ==
    /\ i \in DOMAIN nodes /\ key \in Counted(i)
    /\ nodes' = [nodes EXCEPT ![i] = [@ EXCEPT ![key] = n]]
    /\ edges' = IF key \in {"units", "size"} \/ nodes[i][key] = n THEN edges
                ELSE edges \ Orphaned(nodes', edges, i)

requiredType(e, type) ==
    CASE e.type = "power" -> "power"
      [] e.type # "power" /\ Wifi(e.s, e.t) -> "wireless"
      [] e.type # "power" /\ (Table(e.s) \/ Table(e.t)) -> "ethernet"
      [] OTHER -> type

updateEdge(e, type) == edges' = Retyped(e, requiredType(e, type)) /\ UNCHANGED nodes

Panels ==
    \/ \E i \in DOMAIN nodes, n \in Counts : \E key \in Counted(i) : updateHardware(i, key, n)
    \/ \E e \in edges, type \in LinkTypes : updateEdge(e, type)

Init == nodes = [i \in {} |-> Nowhere] /\ edges = {} /\ by = "panels"

(* Bound: the builds explored, by the devices they hold, how many cables,  *)
(* which counts above one, and how many such counts at a time.             *)
Raised == UNION {{i} \X {k \in Counted(i) : nodes[i][k] > 1} : i \in DOMAIN nodes}
Bounded ==
    \E build \in Builds :
       /\ DOMAIN nodes \subseteq build.devices
       /\ Cardinality(edges) <= build.cables
       /\ Cardinality(Raised) <= build.raised
       /\ \A r \in Raised : <<r[2], nodes[r[1]][r[2]]>> \in build.counts

Next ==
    /\ \/ Ops /\ by' = "ops"
       \/ Hands /\ by' = "hands"
       \/ Panels /\ by' = "panels"
    /\ Bounded'

Spec == Init /\ [][Next]_vars

-----------------------------------------------------------------------------
(* Properties. *)

(* The devices are devices and a cable joins two devices there are: no     *)
(* removal leaves a cable or a mounted device behind.                      *)
TopologyTypeOK ==
    /\ DOMAIN nodes \subseteq Ids
    /\ \A i \in DOMAIN nodes : nodes[i] \in Device
    /\ \A i \in DOMAIN nodes : nodes[i].rack \in DOMAIN nodes \cup {Nowhere}
    /\ \A e \in edges : e \in Link /\ {e.s, e.t} \subseteq DOMAIN nodes /\ e.s # e.t

(* No operation mounts a device over another one or out of its rack; the   *)
(* canvas may have done so before (allocateRackSlot).                      *)
Overlap(ns, i, j) ==
    i # j /\ ns[i].rack # Nowhere /\ ns[i].rack = ns[j].rack
          /\ SlotsOf(ns, i) \cap SlotsOf(ns, j) # {}
Outside(ns, i) == ns[i].rack # Nowhere /\ ns[i].slot + ns[i].units > ns[ns[i].rack].size
OpsMountApart ==
    [][by' = "ops" => \A i \in DOMAIN nodes' :
         /\ Outside(nodes', i) => i \in DOMAIN nodes /\ Outside(nodes, i)
         /\ \A j \in DOMAIN nodes' : Overlap(nodes', i, j) =>
              {i, j} \subseteq DOMAIN nodes /\ Overlap(nodes, i, j)]_vars

(* What is drawn, dropped, moved and deleted on the canvas of a build a    *)
(* save accepts leaves one it accepts, as connection-rules.ts says, as     *)
(* long as network loops are refused and no disk, card or processor lies   *)
(* on the canvas as a device of its own.                                   *)
HandsKeepAcceptable ==
    [][by' = "hands" /\ ~AllowLoops /\ Accepted(nodes, edges) /\ (\A i \in DOMAIN nodes : TypeOf[i] \notin NestedTypes)
         => Accepted(nodes, edges)']_vars
=============================================================================
