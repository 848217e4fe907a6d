------------------------------ MODULE Allocator ------------------------------
(***************************************************************************)
(* How hlbIPAM gives the devices and guests of a build their addresses     *)
(* (Allocate in allocator.go, SubnetAllocator in subnet.go).  A request    *)
(* names the gateways and, for every device, its type, its neighbours, the *)
(* address it is to keep and its guests.  Each gateway serves a subnet and *)
(* owns the devices it reaches first; the devices of one subnet are then   *)
(* served in four stages.  Subnets do not touch each other's state, so the *)
(* stages of all of them are taken side by side; within a stage the order  *)
(* is the one of the request, and of the host types for the hosts.         *)
(*                                                                         *)
(* An address is a number of Bits bits and its arithmetic wraps like the   *)
(* uint32 of the code.  A network mask is given by its capacity, the       *)
(* number that ends the subnet (255 for a /24).  The texts of warnings and *)
(* conflicts, and the address zones of callers that bring their own, are   *)
(* left out.                                                               *)
(***************************************************************************)
EXTENDS Integers, Sequences, FiniteSets
LOCAL INSTANCE FiniteSetsExt

CONSTANTS Ids,            \* devices and guests
          Ports,          \* the ports a gateway may have of its own
          Bits,           \* width of an address
          None,           \* no address, no subnet, no host
          Requests        \* the requests that may arrive

(* A gateway as it arrives: who opens it, its own address and subnet, and  *)
(* whether it leases.  An endpoint of a cable is a device itself, or a     *)
(* gateway of its own that one of its ports opens (<node>:lan, :eth1).     *)
Endpoint == Ids \X ({"self"} \cup Ports)
Whole    == 2 ^ Bits
Address  == 0 .. (Whole - 1)
Capacities == {2 ^ k - 1 : k \in 0..Bits}
Subnet   == [ip : Address, capacity : Capacities]
Gateway  == [id : Endpoint, ip : Address \cup {None}, net : Subnet \cup {None}, dhcp : BOOLEAN]

ASSUME NobodyIsNamedNone == None \notin Ids
ASSUME RequestsAreWellFormed ==
    \A req \in Requests :
       /\ req.gateways \in Seq(Gateway)
       /\ DOMAIN req.nodes \subseteq Ids /\ DOMAIN req.guests \subseteq Ids
       /\ DOMAIN req.nodes \cap DOMAIN req.guests = {}

VARIABLES request,   \* what is being answered
          plan,      \* who belongs to which subnet, and the subnets
          stage,     \* what is being done
          left,      \* who has yet to be served in this stage
          used,      \* per subnet: the addresses that are taken
          owners,    \* per subnet: whose they are
          accepted,  \* the addresses that are kept
          assigned,  \* the answer
          offset,    \* per subnet: where the next block of a host begins
          host       \* the host whose block is being filled

alloc == <<request, plan, stage, left, used, owners, accepted, assigned, offset, host>>

Wrap(n) == n % Whole

-----------------------------------------------------------------------------
(* The address zones of the device types. *)

NonNetworkTypes == {"disk", "gpu", "cpu", "hba", "pcie", "pdu", "power_outlet", "ups",
                    "rack", "lan_table"}
VMHostTypeOrder == <<"nas", "vps", "server_v2", "server", "pc", "minipc", "sbc", "iot">>
CanHostVMs(type) == \E i \in DOMAIN VMHostTypeOrder : VMHostTypeOrder[i] = type
TypeRank(type) == CHOOSE i \in DOMAIN VMHostTypeOrder : VMHostTypeOrder[i] = type

BaseOffset(type) ==
    CASE type = "router" -> 1 [] type = "switch" -> 10 [] type = "access_point" -> 20
      [] type = "firewall" -> 2 [] type = "modem" -> 5 [] type = "console" -> 30
      [] OTHER -> 220

VMHostStartOffset == 100

CalculateDynamicStep(hosts, capacity, reserved) ==
    LET usable == IF capacity > 30 + reserved THEN capacity - 30 - reserved ELSE 0
        share  == usable \div hosts
    IN  CASE hosts = 0 -> 20
          [] hosts > 0 /\ usable < 2 * hosts -> 2
          [] OTHER -> IF share > 50 THEN 50 ELSE IF share < 2 THEN 2 ELSE share

-----------------------------------------------------------------------------
Devices(req)  == DOMAIN req.nodes
Guests(req)   == DOMAIN req.guests
Entities(req) == Devices(req) \cup Guests(req)
Host(req, e)  == IF e \in Guests(req) THEN req.guests[e].host ELSE e
Existing(req, e) == IF e \in Guests(req) THEN req.guests[e].existing ELSE req.nodes[e].existing
Networked(req, n) == req.nodes[n].type \notin NonNetworkTypes

NetworkOf(ip, capacity) == ip - (ip % (capacity + 1))

(* The address and the subnet a gateway really gets: the i-th gateway is   *)
(* 192.168.i.1 unless it brings one, its subnet the /24 of its address     *)
(* when its own cannot hold it.                                            *)
GatewayIP(req, i) ==
    IF req.gateways[i].ip = None THEN Wrap(256 * i + 1) ELSE req.gateways[i].ip

SubnetOf(req, i) ==
    LET net == req.gateways[i].net
        ip  == GatewayIP(req, i)
    IN  IF net # None /\ net.capacity > 1
           /\ ip > NetworkOf(net.ip, net.capacity)
           /\ ip < NetworkOf(net.ip, net.capacity) + net.capacity
        THEN <<NetworkOf(net.ip, net.capacity), net.capacity>>
        ELSE <<NetworkOf(ip, 255), 255>>

GatewayIndex(req) == DOMAIN req.gateways
SubnetKeys(req) == {SubnetOf(req, i) : i \in GatewayIndex(req)}
First(S) == CHOOSE i \in S : \A j \in S : i <= j
Latest(S) == CHOOSE i \in S : \A j \in S : i >= j

(* The devices a gateway reaches: not through another gateway, not through *)
(* a device that is not on the network, and a gateway opened by a device   *)
(* does not step back into it.                                             *)
Links(req) ==
    LET ends == {p \in Devices(req) \X Endpoint : p[2] \in req.nodes[p[1]].links}
    IN  {<<<<p[1], "self">>, p[2]>> : p \in ends} \cup {<<p[2], <<p[1], "self">>>> : p \in ends}

Reach(req, i) ==
    LET gateways == {req.gateways[j].id : j \in GatewayIndex(req)}
        links == Links(req)
        networked == {n \in Devices(req) : Networked(req, n)}
        from == req.gateways[i].id
        Enters(a, b) == /\ b \notin gateways /\ b[1] \in Devices(req) /\ b[2] = "self"
                        /\ ~(a = from /\ from[2] # "self" /\ b[1] = from[1])
        Passes(e) == e = from \/ e[1] \in networked
        reached[k \in Nat] ==
          IF k = 0 THEN {from}
          ELSE LET so == reached[k - 1]
               IN  so \cup {p[2] : p \in {q \in links : q[1] \in so /\ Passes(q[1])
                                                             /\ Enters(q[1], q[2])}}
    IN  {e[1] : e \in reached[Cardinality(Devices(req))] \ {from}}

(* The subnet of every device that has one. *)
Owners(req) ==
    LET reach == [i \in GatewayIndex(req) |-> Reach(req, i)]
    IN  [n \in UNION {reach[i] : i \in GatewayIndex(req)} |->
           SubnetOf(req, First({i \in GatewayIndex(req) : n \in reach[i]}))]

-----------------------------------------------------------------------------
(* A subnet: its pool of leases, at a quarter or at 50, a third of it      *)
(* large, more when the devices expect more.                               *)

Pool(network, capacity, demand) ==
    LET start  == Wrap(network + (IF capacity < 100 THEN capacity \div 4 ELSE 50))
        third  == capacity \div 3
        usual  == IF third < 10 THEN capacity \div 2 ELSE third
        needed == (demand * 5 + 3) \div 4
        size   == IF demand > 0 /\ needed > usual + 1 THEN needed - 1 ELSE usual
        end    == Wrap(start + size)
        last   == network + capacity - 1
    IN  IF start > last \/ start = 0 THEN {}
        ELSE start .. (IF end > last THEN last ELSE end)

(* All that is fixed before the first address is given away. *)
Prepared(req) ==
    LET owner == Owners(req)
        Serving(k) == {i \in GatewayIndex(req) : SubnetOf(req, i) = k}
        Members(k) == {n \in DOMAIN owner : owner[n] = k}
        Demand(k)  == MapThenSumSet(LAMBDA n : req.nodes[n].clients, Members(k))
        DHCP(k)    == \E i \in Serving(k) : req.gateways[i].dhcp
        HostCount(k) == Cardinality({n \in Members(k) : CanHostVMs(req.nodes[n].type)})
        PoolOf(k)  == IF DHCP(k) THEN Pool(k[1], k[2], Demand(k)) ELSE {}
    IN  [owner   |-> owner,
         subnets |-> [k \in SubnetKeys(req) |->
                        [pool |-> PoolOf(k),
                         step |-> CalculateDynamicStep(HostCount(k), k[2], Cardinality(PoolOf(k)))]],
         gateways |-> [k \in SubnetKeys(req) |-> {GatewayIP(req, i) : i \in Serving(k)}]]

(* An entity that takes part, and its subnet. *)
Served == {e \in Entities(request) : /\ Host(request, e) \in DOMAIN plan.owner
                                     /\ Networked(request, Host(request, e))}
Home(e) == plan.owner[Host(request, e)]

Usable(k) == (k[1] + 1) .. (k[1] + k[2] - 1)
IsDHCPReserved(k, a) == a \in plan.subnets[k].pool
(* Mutants of the next definition: taken addresses forgotten; the pool     *)
(* forgotten.                                                              *)
IsUnleased(k, a) == a \in Usable(k) /\ ~IsDHCPReserved(k, a)
IsUntaken(k, a)  == a \in Usable(k) /\ a \notin used[k]

IsAvailable(k, a) == a \in Usable(k) /\ ~IsDHCPReserved(k, a) /\ a \notin used[k]

Lowest(S) == {a \in S : \A b \in S : a <= b}

(* The first free address from the offset on, else the first free one. *)
AllocateSlot(k, base) ==
    LET free  == {a \in Usable(k) : IsAvailable(k, a)}
        ahead == {a \in free : a >= k[1] + (IF base < 1 \/ base >= k[2] THEN 1 ELSE base)}
    IN  IF ahead # {} THEN Lowest(ahead) ELSE Lowest(free)

allocateInRange(k, start, end) ==
    Lowest({a \in Usable(k) : a >= start /\ a <= end /\ IsAvailable(k, a)})

-----------------------------------------------------------------------------
(* The stages. *)

IsHost(e)  == e \in Devices(request) /\ CanHostVMs(request.nodes[e].type)
IsInfra(e) == e \in Devices(request) /\ ~CanHostVMs(request.nodes[e].type)
IsGuest(e) == e \in Guests(request)

At(e) == request.nodes[Host(request, e)].at
GuestAt(e) == IF IsGuest(e) THEN request.guests[e].at ELSE 0

(* Devices in the order of the request, a device before its guests; hosts  *)
(* by their type first.                                                    *)
Earlier(e, f) ==
    LET re == TypeRank(request.nodes[Host(request, e)].type)
        rf == TypeRank(request.nodes[Host(request, f)].type)
        before == \/ At(e) < At(f)
                  \/ At(e) = At(f) /\ GuestAt(e) < GuestAt(f)
    IN  IF stage = "hosts" THEN re < rf \/ (re = rf /\ before) ELSE before

Turn(e) == e \in left /\ \A f \in left \ {e} : ~Earlier(f, e)

Own(e, a) ==
    /\ used' = [used EXCEPT ![Home(e)] = @ \cup {a}]
    /\ owners' = [owners EXCEPT ![Home(e)] =
                    [b \in DOMAIN @ \cup {a} |-> IF b = a THEN e ELSE @[b]]]

With(f, e, a) == [x \in DOMAIN f \cup {e} |-> IF x = e THEN a ELSE f[x]]

Nobody == [e \in {} |-> 0]

AllocatorInit ==
    /\ request = [gateways |-> <<>>, nodes |-> Nobody, guests |-> Nobody]
    /\ plan = [owner |-> Nobody, subnets |-> Nobody, gateways |-> Nobody]
    /\ stage = "idle" /\ left = {} /\ host = None
    /\ used = Nobody /\ owners = Nobody /\ accepted = Nobody /\ assigned = Nobody
    /\ offset = Nobody

(* A request arrives: the subnets are laid out and their ends and gateways *)
(* taken.                                                                  *)
Begin(req) ==
    /\ stage = "idle"
    /\ request' = req
    /\ plan' = Prepared(req)
    /\ stage' = "reserve"
    /\ left' = Served'
    /\ owners' = [k \in SubnetKeys(req) |->
                    [a \in {k[1], k[1] + k[2]} \cup plan'.gateways[k] |-> None]]
    /\ used' = [k \in SubnetKeys(req) |-> {k[1], k[1] + k[2]} \cup plan'.gateways[k]]
    /\ offset' = [k \in SubnetKeys(req) |->
                    IF k[1] + VMHostStartOffset \in plan'.subnets[k].pool
                    THEN Latest(plan'.subnets[k].pool) - k[1] + 1
                    ELSE VMHostStartOffset]
    /\ accepted' = Nobody /\ assigned' = Nobody /\ host' = None

(* Mutant: the address is taken, but nobody remembers for whom. *)
preReserveForNobody(e) ==
    /\ stage = "reserve" /\ Turn(e)
    /\ left' = left \ {e}
    /\ LET a == Existing(request, e)
       IN  IF a # None /\ IsAvailable(Home(e), a)
           THEN Own(e, a) ELSE UNCHANGED <<used, owners>>
    /\ UNCHANGED <<request, plan, stage, accepted, assigned, offset, host>>

(* An address somebody is to keep is his if it is usable, outside the pool *)
(* and nobody's.                                                           *)
preReserveExisting(e) ==
    /\ stage = "reserve" /\ Turn(e)
    /\ left' = left \ {e}
    /\ LET a == Existing(request, e)
       IN  IF a # None /\ IsAvailable(Home(e), a)
           THEN Own(e, a) /\ accepted' = With(accepted, e, a)
           ELSE UNCHANGED <<used, owners, accepted>>
    /\ UNCHANGED <<request, plan, stage, assigned, offset, host>>

(* The devices that cannot host guests: near the offset of their type. *)
AssignInfra(e) ==
    /\ stage = "infra" /\ Turn(e)
    /\ left' = left \ {e}
    /\ LET slot == AllocateSlot(Home(e), BaseOffset(request.nodes[e].type))
       IN  CASE e \in DOMAIN accepted ->
                  assigned' = With(assigned, e, accepted[e]) /\ UNCHANGED <<used, owners>>
             [] e \notin DOMAIN accepted /\ slot # {} ->
                  \E a \in slot : assigned' = With(assigned, e, a) /\ Own(e, a)
             [] OTHER -> UNCHANGED <<assigned, used, owners>>
    /\ UNCHANGED <<request, plan, stage, accepted, offset, host>>

GuestsOf(n) == {g \in Guests(request) : request.guests[g].host = n}

(* A host opens a block; without an address its guests get none either,    *)
(* also those whose address was kept.                                      *)
AssignHost(n) ==
    /\ stage = "hosts" /\ host = None /\ Turn(n) /\ IsHost(n)
    /\ LET slot == AllocateSlot(Home(n), offset[Home(n)])
       IN  CASE n \in DOMAIN accepted ->
                  /\ assigned' = With(assigned, n, accepted[n])
                  /\ left' = left \ {n} /\ host' = n
                  /\ UNCHANGED <<used, owners>>
             [] n \notin DOMAIN accepted /\ slot # {} ->
                  /\ \E a \in slot : assigned' = With(assigned, n, a) /\ Own(n, a)
                  /\ left' = left \ {n} /\ host' = n
             [] OTHER ->
                  /\ left' = left \ ({n} \cup GuestsOf(n))
                  /\ UNCHANGED <<assigned, used, owners, host>>
    /\ UNCHANGED <<request, plan, stage, accepted, offset>>

BlockEnd(n) ==
    LET k    == Home(n)
        end  == Wrap(assigned[n] + plan.subnets[k].step - 1)
        last == k[1] + k[2] - 1
    IN  IF end > last \/ end < assigned[n] THEN last ELSE end

AssignGuest(g) ==
    /\ stage = "hosts" /\ host # None /\ g \in GuestsOf(host) /\ Turn(g)
    /\ left' = left \ {g}
    /\ LET slot == allocateInRange(Home(g), assigned[host] + 1, BlockEnd(host))
       IN  CASE g \in DOMAIN accepted ->
                  assigned' = With(assigned, g, accepted[g]) /\ UNCHANGED <<used, owners>>
             [] g \notin DOMAIN accepted /\ slot # {} ->
                  \E a \in slot : assigned' = With(assigned, g, a) /\ Own(g, a)
             [] OTHER -> UNCHANGED <<assigned, used, owners>>
    /\ UNCHANGED <<request, plan, stage, accepted, offset, host>>

(* Mutant: the next host begins behind the block, which stays free. *)
CloseBlockOpen ==
    /\ stage = "hosts" /\ host # None /\ left \cap GuestsOf(host) = {}
    /\ LET k   == Home(host)
           end == assigned[host] - k[1] + plan.subnets[k].step
       IN  offset' = [offset EXCEPT ![k] = IF end > @ THEN end ELSE @]
    /\ host' = None
    /\ UNCHANGED <<request, plan, stage, left, used, owners, accepted, assigned>>

(* The rest of a host's block is its own: the next host begins behind it.  *)
CloseBlock ==
    /\ stage = "hosts" /\ host # None /\ left \cap GuestsOf(host) = {}
    /\ LET k   == Home(host)
           end == assigned[host] - k[1] + plan.subnets[k].step
       IN  /\ used' = [used EXCEPT ![k] =
                         @ \cup {a \in (assigned[host] + 1) .. BlockEnd(host) : ~IsDHCPReserved(k, a)}]
           /\ offset' = [offset EXCEPT ![k] = IF end > @ THEN end ELSE @]
    /\ host' = None
    /\ UNCHANGED <<request, plan, stage, left, owners, accepted, assigned>>

NextStage ==
    /\ left = {} /\ host = None
    /\ \/ stage = "reserve" /\ stage' = "infra" /\ left' = {e \in Served : IsInfra(e)}
       \/ stage = "infra" /\ stage' = "hosts"
          /\ left' = {e \in Served : IsHost(Host(request, e))}
       \/ stage = "hosts" /\ stage' = "answered" /\ left' = {}
    /\ UNCHANGED <<request, plan, used, owners, accepted, assigned, offset, host>>

(* The service keeps nothing between two requests. *)
Answer ==
    /\ stage = "answered" /\ stage' = "idle"
    /\ UNCHANGED <<request, plan, left, used, owners, accepted, assigned, offset, host>>

Allocating ==
    \/ \E e \in left : \/ preReserveExisting(e) \/ AssignInfra(e)
                       \/ AssignHost(e) \/ AssignGuest(e)
    \/ CloseBlock
    \/ NextStage

AllocatorNext == (\E req \in Requests : Begin(req)) \/ Allocating \/ Answer

AllocatorSpec == AllocatorInit /\ [][AllocatorNext]_alloc

-----------------------------------------------------------------------------
(* Properties. *)

(* No address is given twice in a subnet, whether it was kept or given     *)
(* away, to a device or to a guest (Allocate).                             *)
AddressesAreApart ==
    \A e, f \in DOMAIN assigned :
       e # f /\ Home(e) = Home(f) => assigned[e] # assigned[f]

(* What is given lies in the subnet of its gateway, outside the pool of    *)
(* leases, and is no gateway's there ("avoids DHCP range overlaps",        *)
(* README:30).                                                             *)
AddressesAreSafe ==
    \A e \in DOMAIN assigned :
       /\ assigned[e] \in Usable(Home(e)) \ plan.subnets[Home(e)].pool
       /\ assigned[e] \notin plan.gateways[Home(e)]

(* The block of addresses behind a host is for its guests: nobody who is   *)
(* served later is put into it, also when the hosts before it have used up *)
(* the end of the subnet and the search begins again at its start.         *)
BlocksStayClosed ==
    [][stage = "hosts" =>
         \A e \in DOMAIN assigned' \ DOMAIN assigned : \A n \in DOMAIN assigned :
            /\ IsHost(n) /\ Host(request, e) # n /\ Home(n) = Home(e)
            /\ e \notin DOMAIN accepted
            => assigned'[e] \notin assigned[n] .. BlockEnd(n)]_alloc
=============================================================================
