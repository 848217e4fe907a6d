----------------------------- MODULE MCAddresses -----------------------------
(* Four builds: a home network, one whose subnet is full at once, one with *)
(* a NAT island, one whose firewall serves a port at the end of the        *)
(* address space.                                                          *)
EXTENDS Addresses, TLC
CONSTANTS rt, sw, fw, hv, box, g1, g2

MCIds == {rt, sw, fw, hv, box, g1, g2}
MCTypeOf == rt :> "router" @@ sw :> "switch" @@ fw :> "firewall" @@ hv :> "server_v2"
            @@ box :> "nas" @@ g1 :> "guest" @@ g2 :> "guest"
MCRank == rt :> 1 @@ sw :> 2 @@ fw :> 3 @@ hv :> 4 @@ box :> 5 @@ g1 :> 6 @@ g2 :> 7
MCPortRank == "lan" :> 1 @@ "eth0" :> 2

Nothing == [x \in {} |-> None]
NoLAN == [ip |-> None, net |-> None]
Plain == [ip |-> None, locked |-> FALSE, dhcp |-> FALSE, nat |-> FALSE, routing |-> FALSE,
          wan |-> FALSE, mask |-> None, lan |-> NoLAN, ports |-> Nothing, clients |-> 0,
          guests |-> Nothing, virtual |-> None]
Router(ip, mask, dhcp) == [Plain EXCEPT !.ip = ip, !.mask = mask, !.dhcp = dhcp]
Running1(d, g) == [d EXCEPT !.guests = g :> [ip |-> None, static |-> None]]
Wire(x, xh, y) == [s |-> x, sh |-> xh, t |-> y, th |-> "target-0", type |-> "ethernet", dir |-> "auto"]

Home1 == [nodes |-> rt :> Router(None, 511, TRUE) @@ sw :> Plain
                    @@ hv :> Running1(Plain, g1) @@ box :> Plain,
          cables |-> {Wire(rt, "eth0", sw), Wire(sw, "eth0", hv), Wire(sw, "eth1", box)}]
Full  == [nodes |-> rt :> Router(257, 7, FALSE) @@ sw :> Plain
                    @@ hv :> Running1(Plain, g1) @@ box :> Running1(Plain, g2),
          cables |-> {Wire(rt, "eth0", sw), Wire(sw, "eth0", hv), Wire(sw, "eth1", box)}]
Island == [nodes |-> rt :> Router(257, 255, TRUE) @@ fw :> [Plain EXCEPT !.nat = TRUE]
                     @@ hv :> Running1(Plain, g1) @@ box :> Plain,
           cables |-> {Wire(rt, "eth0", fw), Wire(fw, "eth0", hv), Wire(rt, "eth1", box)}]
TopEnd == [nodes |-> rt :> Router(257, 255, FALSE)
                     @@ fw :> [Plain EXCEPT !.ports = "eth0" :>
                                [ip |-> 769, net |-> [ip |-> 769, capacity |-> 255], dhcp |-> TRUE]]
                     @@ hv :> Running1([Plain EXCEPT !.clients = 20], g1) @@ box :> Running1(Plain, g2),
           cables |-> {Wire(rt, "eth0", fw), Wire(fw, "eth0", hv), Wire(fw, "eth1", box)}]
MCScenes == {Home1, Full, Island, TopEnd}
MCRequests == {planIPAM(scene.nodes, scene.cables) : scene \in MCScenes}
MCCabling == {Wire(rt, "eth1", box), Wire(fw, "eth0", hv)}
MCTyped == {260, 1020}
=============================================================================
