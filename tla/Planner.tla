------------------------------ MODULE Planner -------------------------------
(***************************************************************************)
(* Where builds come from: an empty project, a guided plan (lib/planner)   *)
(* or a version before power wiring; and what they are made into, by       *)
(* change sets and on the canvas.                                          *)
(*                                                                         *)
(* A planned device is the part it plays; the ids are fresh, so the model  *)
(* gives each part one (New).  Names, speeds, positions, circuits and what *)
(* runs on a host are left out, except that a host with more to run is a   *)
(* server.  A planned build that a save refuses is deleted again.          *)
(***************************************************************************)
EXTENDS PowerChain, Sequences

CONSTANTS New,          \* the ids a plan gives to its parts
          Seats,        \* the numbers of players explored
          Consoles,     \* the most consoles explored
          Venues        \* voltages and breakers explored

Footprints == {"compact", "desk", "rack", "cloud"}
Budgets    == {"starter", "balanced", "enthusiast"}

(* The goals that add a device, and one that adds none. *)
Goals == {"backup", "media", "home", "network", "development"}

Homelabs == [goals : SUBSET Goals \ {{}}, footprint : Footprints, budget : Budgets,
             resilient : BOOLEAN]
Parties  == [seats : Seats, venue : Venues, wifi : BOOLEAN, consoles : 0..Consoles,
             host : {"none", "minipc", "server"}]
Servers  == [vps : BOOLEAN, host : {"minipc", "server"}]

(* Every part of a plan gets an id of its own. *)
Distinct(list) == \A m, n \in DOMAIN list : m # n => list[m] # list[n]

ASSUME PlannerAssumption ==
    /\ \A type \in {"router", "switch", "modem", "server_v2", "vps", "nas", "rack", "ups"} :
         New[type] \in Ids /\ TypeOf[New[type]] = type
    /\ New.access \in Ids /\ TypeOf[New.access] = "access_point"
    /\ \A host \in {New.first, New.second} : host \in Ids /\ TypeOf[host] = "minipc"
    /\ New.first # New.second
    /\ New.tables \in Seq(Ids) /\ Distinct(New.tables)
    /\ \A n \in DOMAIN New.tables : TypeOf[New.tables[n]] = "lan_table"
    /\ New.consoles \in Seq(Ids) /\ Distinct(New.consoles)
    /\ \A n \in DOMAIN New.consoles : TypeOf[New.consoles[n]] = "console"
    /\ Consoles \in Nat /\ Consoles <= Len(New.consoles)
    /\ Seats \subseteq Nat
    /\ \A venue \in Venues : venue.volts \in Nat /\ venue.amps \in Nat

-----------------------------------------------------------------------------
(* The parts of plans. *)

If(condition, part) == IF condition THEN <<part>> ELSE <<>>

Parts(list) == {list[n] : n \in DOMAIN list}

(* A cable from port n of a hub to the uplink of a device. *)
Uplinked(hub, n, i, type) == Cable(hub, <<"eth", n>>, i, Uplink, type)

WirelessAccess(i) == IF TypeOf[i] = "access_point" THEN "wireless" ELSE "ethernet"

(* One device after the other into the ports of a hub, from port first on. *)
Plugged(hub, first, list) ==
    {Uplinked(hub, first + n - 1, list[n], WirelessAccess(list[n])) : n \in DOMAIN list}

WithPorts(n) == [Plain EXCEPT !.ports = n]

(* A host has two ports where its ports are counted. *)
Default(i) == IF TypeOf[i] \in DynamicPorts THEN WithPorts(2) ELSE Plain

-----------------------------------------------------------------------------
(* A homelab. *)

homelabCompute(a) ==
    LET cloud == a.footprint = "cloud"
    IN  <<IF a.footprint = "rack" THEN New.server_v2 ELSE New.first>>
        \o If(a.resilient, IF cloud THEN New.vps ELSE New.second)
        \o If(cloud /\ ~a.resilient, New.vps)

buildHomelabPlan(a) ==
    LET racked  == a.footprint = "rack"
        plugged == homelabCompute(a)
                   \o If(a.goals \cap {"backup", "media"} # {}, New.nas)
                   \o If(a.goals \cap {"home", "network"} # {}, New.access)
        devices == {New.router, New.switch} \cup Parts(plugged)
                   \cup Parts(If(racked, New.rack))
                   \cup Parts(If(racked \/ a.resilient, New.ups))
        Details(i) ==
          CASE i = New.router -> WithPorts(4)
            [] i = New.switch -> WithPorts(IF a.budget = "enthusiast" THEN 16 ELSE 8)
            [] i = New.rack   -> [Plain EXCEPT !.size = 12]
            [] i = New.server_v2 ->
                 [WithPorts(IF a.budget = "enthusiast" THEN 4 ELSE 2)
                    EXCEPT !.rack = New.rack, !.units = 2, !.slot = 1]
            [] OTHER -> Default(i)
    IN  [nodes |-> [i \in devices |-> Details(i)],
         edges |-> {Uplinked(New.router, 1, New.switch, "ethernet")}
                   \cup Plugged(New.switch, 1, plugged)]

-----------------------------------------------------------------------------
(* A LAN party: tables on a core switch behind a router. *)

AtLeast(a, b) == IF a >= b THEN a ELSE b
AtMost(a, b)  == IF a <= b THEN a ELSE b

(* So many seats that a full table stays below four fifths of a breaker    *)
(* (350 W a seat, 10 W for the switch of the table; whole numbers).        *)
seatsPerTable(venue) ==
    AtLeast(1, AtMost(8, (8 * venue.volts * venue.amps - 100) \div 3500))

tablesNeeded(a) == (a.seats + seatsPerTable(a.venue) - 1) \div seatsPerTable(a.venue)

ASSUME TablesAssumption == \A a \in Parties : tablesNeeded(a) <= Len(New.tables)

CoreSwitchSizes == {8, 16, 24, 48}

(* The smallest switch on sale with that many ports, or one made to order. *)
SwitchWith(ports) ==
    LET enough == {size \in CoreSwitchSizes : size >= ports}
    IN  IF enough = {} THEN ports ELSE CHOOSE size \in enough : \A other \in enough : size <= other

(* Mutant: the consoles are not counted. *)
corePortsForTables(plugged, consoles) == SwitchWith(plugged - consoles + 1)

(* A port for everything plugged in and one more. *)
corePorts(plugged, consoles) == SwitchWith(plugged + 1)

buildLanPartyPlan(a) ==
    LET plugged == [n \in 1..tablesNeeded(a) |-> New.tables[n]]
                   \o If(a.wifi, New.access)
                   \o [n \in 1..a.consoles |-> New.consoles[n]]
                   \o If(a.host = "minipc", New.first) \o If(a.host = "server", New.server_v2)
        Details(i) ==
          CASE i = New.router -> WithPorts(4)
            [] i = New.switch -> WithPorts(corePorts(Len(plugged), a.consoles))
            [] OTHER -> Default(i)
    IN  [nodes |-> [i \in {New.router, New.switch} \cup Parts(plugged) |-> Details(i)],
         edges |-> {Uplinked(New.router, 0, New.switch, "ethernet")}
                   \cup Plugged(New.switch, 0, plugged)]

-----------------------------------------------------------------------------
(* A game server: a host at home, or a rented one over a tunnel. *)

buildGameServerPlan(a) ==
    LET host == CASE a.vps -> New.vps
                  [] ~a.vps /\ a.host = "minipc" -> New.first
                  [] OTHER -> New.server_v2
        Details(i) == IF i = New.router THEN WithPorts(4) ELSE Default(i)
    IN  [nodes |-> [i \in {New.modem, New.router, host} |-> Details(i)],
         edges |-> {Uplinked(New.modem, 0, New.router, "ethernet"),
                    Uplinked(New.router, 0, host, IF a.vps THEN "vpn" ELSE "ethernet")}]

-----------------------------------------------------------------------------
Plans == {buildHomelabPlan(a) : a \in Homelabs} \cup {buildLanPartyPlan(a) : a \in Parties}
         \cup {buildGameServerPlan(a) : a \in Servers}

createLab ==
    /\ DOMAIN nodes = {}
    /\ \E plan \in Plans : nodes' = plan.nodes /\ edges' = plan.edges

(* A new project, next to the one there was. *)
createEmpty == nodes' = [i \in {} |-> Nowhere] /\ edges' = {}

ProjectInit == Init \/ OldInit

(* Bound: planned and converted builds are changed when they are small. *)
Small == by # "old" /\ \E build \in Builds : DOMAIN nodes \subseteq build.devices

ProjectNext ==
    \/ Small /\ Next
    \/ ConvertLegacyPowerCables /\ by' = "conversion"
    \/ createLab /\ by' = "planner"
    \/ by # "old" /\ createEmpty /\ by' = "panels"

ProjectSpec == ProjectInit /\ [][ProjectNext]_vars

-----------------------------------------------------------------------------
(* Properties. *)

(* Whatever an operation of a change set does to a saved build, whatever a *)
(* planner answers, and whatever an old build is converted to, the save    *)
(* accepts (ApplyTopologyOps, createBuildWithTopology, whose failure       *)
(* deletes the build again, and ConvertLegacyPowerCables, before which     *)
(* "every save of the build is refused").                                  *)
ProgramsKeepAcceptable ==
    by \in {"ops", "planner", "conversion"} => Accepted(nodes, edges)

(* In a planned build every cable ends at a port its card has, however     *)
(* much is plugged into one switch, every port takes one cable, and what   *)
(* is mounted fits its rack; of these the save checks only the second      *)
(* (corePorts, switchPort, rack_position).                                 *)
PlansFit ==
    by = "planner" =>
      /\ \A e \in edges : e.sh \in ValidHandles(nodes, e.s) /\ e.th \in ValidHandles(nodes, e.t)
      /\ \A e, f \in edges : e # f => Ends(e) \cap Ends(f) = {}
      /\ \A i \in DOMAIN nodes : ~Outside(nodes, i)
=============================================================================
