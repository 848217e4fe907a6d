----------------------------- MODULE MCTopology -----------------------------
(* An instance of Planner: the types a rule tells apart, of which a build  *)
(* on the canvas holds three at a time; old builds of up to four cables    *)
(* between a switch, a UPS, a PDU and an outlet; and plans.                *)
EXTENDS Planner
CONSTANTS rk, sw, io, ap, pc, tb, up, pd, po,  \* on the canvas
          wall, rt, md, srv, vps, nas, mini, spare, tb2, tb3, tb4, co1, co2, co3, co4
MCIds == {rk, sw, io, ap, pc, tb, up, pd, po, wall, rt, md, srv, vps, nas, mini, spare,
          tb2, tb3, tb4, co1, co2, co3, co4}
MCTypeOf == [i \in MCIds |->
    CASE i = rk -> "rack" [] i = sw -> "switch" [] i = io -> "iot"
      [] i = ap -> "access_point" [] i = pc -> "pc" [] i \in {tb, tb2, tb3, tb4} -> "lan_table"
      [] i = up -> "ups" [] i \in {pd, po} -> "pdu" [] i = wall -> "power_outlet"
      [] i = rt -> "router" [] i = md -> "modem" [] i = srv -> "server_v2"
      [] i = vps -> "vps" [] i = nas -> "nas" [] i \in {mini, spare} -> "minipc"
      [] OTHER -> "console"]
Bringing(devices, cables, counts, raised) ==
    [devices |-> devices, cables |-> cables, counts |-> counts, raised |-> raised]
MCBuilds == {Bringing({rk, sw, pd}, 0, {"units", "size"} \X (2..3), 3),
             Bringing({rk, sw, pd}, 2, {"psu", "outlets", "units", "size"} \X {2}, 1),
             Bringing({rk, pc, up}, 1, {"units", "size"} \X {2}, 1),
             Bringing({sw, ap, pc}, 2, {"ports"} \X {2}, 1),
             Bringing({sw, ap, tb}, 2, {"ports"} \X {2}, 1),
             Bringing({sw, io, pc}, 2, {"ports"} \X {2}, 1),
             Bringing({rt, srv, pc}, 2, {"ports"} \X {2}, 2),
             Bringing({up, pd, po}, 3, {"outlets", "psu"} \X {2}, 2)}
MCCounts == 1..3
MCSlots == 0..2
MCNATGateways == {srv}
MCCircuit == [i \in MCIds |-> IF i \in {up, sw} THEN "circuit" ELSE "none"]

(* What older versions stored: any cables between a source and another     *)
(* device, next to a power cable drawn since.                              *)
Old(a, b) == Cable(a, <<"eth", 0>>, b, Uplink, "ethernet")
OldPairs == {p \in {sw, up, pd, wall} \X {sw, up, pd, wall} : p[1] # p[2] /\ {p[1], p[2]} # {sw}}
Drawn1 == Cable(up, <<"out", 0>>, sw, <<"in", 0>>, "power")
MCOldBuilds ==
    {[nodes |-> [i \in {sw, up, pd, wall} |-> IF i = twice THEN [Plain EXCEPT !.psu = 2] ELSE Plain],
      edges |-> {Old(p[1], p[2]) : p \in pairs} \cup drawn] :
       pairs \in {s \in SUBSET OldPairs : Cardinality(s) \in 1..4},
       twice \in {sw, up}, drawn \in {{}, {Drawn1}}}

MCNew == [router |-> rt, switch |-> sw, modem |-> md, server_v2 |-> srv, vps |-> vps, nas |-> nas,
          rack |-> rk, ups |-> up, access |-> ap, first |-> mini, second |-> spare,
          tables |-> <<tb, tb2, tb3, tb4>>, consoles |-> <<co1, co2, co3, co4>>]
MCSeats == {1, 4, 8}
MCVenues == {[volts |-> 230, amps |-> 16], [volts |-> 120, amps |-> 10]}
=============================================================================
