--------------------------- MODULE AddressesProofs ---------------------------
(***************************************************************************)
(* What holds of the addresses hlbIPAM gives, for any network, any width   *)
(* of an address and any sequence of requests: no two devices or guests of *)
(* a subnet get the same one, every one is usable, outside the pool and    *)
(* no gateway's, and nobody is put into the block of another host.         *)
(*                                                                         *)
(* Then the same for the requests a build sends however it is edited, and  *)
(* what a save makes of the answers: a pinned address stays where it can,  *)
(* and a guest has an address only if its network reaches a router.        *)
(***************************************************************************)
EXTENDS Addresses, TLAPS, FiniteSetTheorems, SequenceTheorems, WellFoundedInduction

-----------------------------------------------------------------------------
(* The inductive invariant.                                                 *)

\* A request that can be answered.
WellAsked(req) ==
  /\ GatewayIndex(req) \subseteq Nat
  /\ Entities(req) \subseteq Ids /\ Devices(req) \cap Guests(req) = {}

Serving == (\E req : WellAsked(req) /\ Begin(req)) \/ Allocating \/ Answer

WellFormed ==
  /\ Entities(request) \subseteq Ids
  /\ Devices(request) \cap Guests(request) = {}
  /\ left \subseteq Served

\* Whoever owns an address keeps it from the others.
Taken ==
  /\ DOMAIN owners = DOMAIN used
  /\ \A k \in DOMAIN used : DOMAIN owners[k] \subseteq used[k]
  /\ \A n \in DOMAIN plan.owner : plan.owner[n] \in DOMAIN used

GatewaysTaken ==
  \A k \in DOMAIN used :
    /\ plan.gateways[k] \subseteq DOMAIN owners[k]
    /\ \A a \in plan.gateways[k] : owners[k][a] = None

\* An address that was kept or given is its owner's, usable and not leased.
Holds(e, a) ==
  /\ e \in Served
  /\ a \in DOMAIN owners[Home(e)] /\ owners[Home(e)][a] = e
  /\ a \in Usable(Home(e)) /\ a \notin plan.subnets[Home(e)].pool

Held ==
  /\ \A e \in DOMAIN accepted : Holds(e, accepted[e])
  /\ \A e \in DOMAIN assigned : Holds(e, assigned[e])

IInv == WellFormed /\ Taken /\ GatewaysTaken /\ Held

-----------------------------------------------------------------------------
(* The parts of a request.                                                  *)

\* Of some numbers one is the first.
LEMMA Smallest ==
  ASSUME NEW S, S \subseteq Nat, S # {}
  PROVE  First(S) \in S
<1> DEFINE R == {ss \in Nat \X Nat : ss[1] < ss[2]}
<1>1. IsWellFoundedOn(R, Nat)
  BY NatLessThanWellFounded DEF OpToRel
<1>2. PICK x \in S : \A y \in S : ~(<<y, x>> \in R)
  <2> HIDE DEF R
  <2> QED BY <1>1, WFMin
<1>3. \A y \in S : x <= y
  <2>1. SUFFICES ASSUME NEW y \in S PROVE x <= y
    OBVIOUS
  <2>2. ~(<<y, x>> \in R)
    BY <1>2
  <2>3. ~(y < x)
    BY <2>2
  <2> QED BY <2>3
<1> QED BY <1>3 DEF First

\* What holds of 0 and, with a number, of the next holds of all.
LEMMA Counting ==
  ASSUME NEW S, 0 \in S, \A n \in Nat : n \in S => n + 1 \in S
  PROVE  Nat \subseteq S
<1> DEFINE R == {ss \in Nat \X Nat : ss[1] < ss[2]}
<1>1. IsWellFoundedOn(R, Nat)
  BY NatLessThanWellFounded DEF OpToRel
<1>2. SUFFICES ASSUME Nat \ S # {} PROVE FALSE
  OBVIOUS
<1>3. PICK x \in Nat \ S : \A y \in Nat \ S : ~(<<y, x>> \in R)
  <2> HIDE DEF R
  <2> QED BY <1>1, <1>2, WFMin
<1>4. x # 0 /\ x - 1 \in Nat /\ (x - 1) + 1 = x
  BY <1>3
<1>5. <<x - 1, x>> \in R
  BY <1>3, <1>4
<1>6. x - 1 \in S
  <2> HIDE DEF R
  <2> QED BY <1>3, <1>4, <1>5
<1> QED BY <1>3, <1>4, <1>6

\* The subnet of a device is that of a gateway.
LEMMA OwnersAreSubnets ==
  ASSUME NEW req, GatewayIndex(req) \subseteq Nat, NEW n \in DOMAIN Owners(req)
  PROVE  Owners(req)[n] \in SubnetKeys(req)
<1> DEFINE reach == [i \in GatewayIndex(req) |-> Reach(req, i)]
           mine == {i \in GatewayIndex(req) : n \in reach[i]}
<1>2. n \in UNION {reach[i] : i \in GatewayIndex(req)} /\ Owners(req)[n] = SubnetOf(req, First(mine))
  BY DEF Owners
<1> HIDE DEF reach
<1>3. mine # {} /\ mine \subseteq Nat
  BY <1>2
<1>4. First(mine) \in mine
  BY <1>3, Smallest
<1> QED BY <1>2, <1>4 DEF SubnetKeys

-----------------------------------------------------------------------------
(* A step that gives an address, or none.                                   *)

LEMMA ServedStays ==
  ASSUME UNCHANGED <<request, plan>>
  PROVE  /\ Served' = Served
         /\ \A e : Home(e)' = Home(e)
BY DEF Served, Home, Host, Entities, Devices, Guests, Networked

\* Whoever is given a free address gets it without disturbing the others.
LEMMA OwnGives ==
  ASSUME Taken, GatewaysTaken, UNCHANGED <<request, plan>>,
         NEW e \in Served, NEW a, IsAvailable(Home(e), a), Own(e, a), e # None
  PROVE  /\ Taken' /\ GatewaysTaken' /\ Holds(e, a)'
         /\ \A f, b : Holds(f, b) => Holds(f, b)'
<1> DEFINE k == Home(e)
<1>1. k \in DOMAIN used
  BY DEF Served, Home, Taken
<1>2. a \notin used[k] /\ a \notin DOMAIN owners[k] /\ a \in Usable(k) /\ a \notin plan.subnets[k].pool
  BY <1>1 DEF IsAvailable, IsDHCPReserved, Taken
<1>3. /\ DOMAIN used' = DOMAIN used /\ DOMAIN owners' = DOMAIN owners
      /\ used'[k] = used[k] \cup {a}
      /\ DOMAIN owners'[k] = DOMAIN owners[k] \cup {a}
      /\ owners'[k][a] = e
      /\ \A b \in DOMAIN owners[k] : owners'[k][b] = owners[k][b]
  BY <1>1, <1>2 DEF Own, Taken
<1>4. \A j \in DOMAIN used : j # k => used'[j] = used[j] /\ owners'[j] = owners[j]
  BY DEF Own, Taken
<1> HIDE DEF k
<1>5. Taken'
  BY <1>1, <1>3, <1>4 DEF Taken
<1>6. GatewaysTaken'
  <2> SUFFICES ASSUME NEW j \in DOMAIN used
               PROVE  /\ plan.gateways[j] \subseteq DOMAIN owners'[j]
                      /\ \A b \in plan.gateways[j] : owners'[j][b] = None
    BY <1>3 DEF GatewaysTaken
  <2>1. plan.gateways[j] \subseteq DOMAIN owners[j] /\ \A b \in plan.gateways[j] : owners[j][b] = None
    BY DEF GatewaysTaken
  <2>2. CASE j = k
    BY <2>1, <2>2, <1>3
  <2>3. CASE j # k
    BY <2>1, <2>3, <1>4
  <2> QED BY <2>2, <2>3
<1>7. /\ Served' = Served /\ \A f : Home(f)' = Home(f)
  BY ServedStays
<1>8. \A f : Usable(Home(f))' = Usable(Home(f))
  BY <1>7 DEF Usable
<1>9. Holds(e, a)'
  BY <1>2, <1>3, <1>7, <1>8 DEF Holds, k
<1>10. ASSUME NEW f, NEW b, Holds(f, b) PROVE Holds(f, b)'
  <2>1. Home(f) \in DOMAIN used
    BY <1>10 DEF Holds, Served, Home, Taken
  <2>2. b \in DOMAIN owners'[Home(f)] /\ owners'[Home(f)][b] = f
    BY <2>1, <1>3, <1>4, <1>10 DEF Holds
  <2> QED BY <2>2, <1>7, <1>8, <1>10 DEF Holds
<1> QED BY <1>5, <1>6, <1>9, <1>10

-----------------------------------------------------------------------------
(* The steps.                                                               *)

\* Where an address is looked for it is free.
LEMMA SlotsAreFree ==
  ASSUME NEW k, NEW base, NEW start, NEW end
  PROVE  /\ \A a \in AllocateSlot(k, base) : IsAvailable(k, a)
         /\ \A a \in allocateInRange(k, start, end) : IsAvailable(k, a)
BY DEF AllocateSlot, allocateInRange, Lowest

\* What most steps leave alone.
LEMMA NothingGiven ==
  ASSUME IInv, UNCHANGED <<request, plan, owners, accepted, assigned>>,
         left' \subseteq left \/ left' \subseteq Served,
         DOMAIN used' = DOMAIN used, \A k \in DOMAIN used : used[k] \subseteq used'[k]
  PROVE  IInv'
<1>1. Served' = Served /\ \A e : Home(e)' = Home(e)
  BY ServedStays
<1>2. WellFormed'
  BY <1>1 DEF IInv, WellFormed, Entities, Devices, Guests
<1>3. Taken'
  BY DEF IInv, Taken
<1>4. GatewaysTaken'
  BY DEF IInv, GatewaysTaken
<1>5. \A e, a : Holds(e, a) => Holds(e, a)'
  BY <1>1 DEF Holds, Usable
<1>6. Held'
  BY <1>5 DEF IInv, Held
<1> QED BY <1>2, <1>3, <1>4, <1>6 DEF IInv

\* An entity is given a free address and takes it as its own.
LEMMA OneGiven ==
  ASSUME IInv, UNCHANGED <<request, plan>>, left' \subseteq left,
         NEW e \in Served, NEW a, IsAvailable(Home(e), a), Own(e, a),
         \/ accepted' = With(accepted, e, a) /\ assigned' = assigned
         \/ assigned' = With(assigned, e, a) /\ accepted' = accepted
  PROVE  IInv'
<1>1. e # None
  BY NobodyIsNamedNone DEF IInv, WellFormed, Served
<1>2. /\ Taken' /\ GatewaysTaken' /\ Holds(e, a)'
      /\ \A f, b : Holds(f, b) => Holds(f, b)'
  BY <1>1, OwnGives DEF IInv
<1>3. WellFormed'
  BY ServedStays DEF IInv, WellFormed, Entities, Devices, Guests
<1>4. Held'
  BY <1>2 DEF IInv, Held, With
<1> QED BY <1>2, <1>3, <1>4 DEF IInv

\* An entity whose address was kept is told it.
LEMMA KeptGiven ==
  ASSUME IInv, UNCHANGED <<request, plan, used, owners, accepted>>, left' \subseteq left,
         NEW e \in DOMAIN accepted, assigned' = With(assigned, e, accepted[e])
  PROVE  IInv'
<1>1. Served' = Served /\ \A f : Home(f)' = Home(f)
  BY ServedStays
<1>2. WellFormed' /\ Taken' /\ GatewaysTaken'
  BY <1>1 DEF IInv, WellFormed, Taken, GatewaysTaken, Entities, Devices, Guests
<1>3. \A f, b : Holds(f, b) => Holds(f, b)'
  BY <1>1 DEF Holds, Usable
<1>4. Held'
  BY <1>3 DEF IInv, Held, With
<1> QED BY <1>2, <1>4 DEF IInv

LEMMA InitGood == AllocatorInit => IInv
BY DEF AllocatorInit, IInv, WellFormed, Taken, GatewaysTaken, Held, Entities, Devices, Guests,
       Nobody

LEMMA RequestsAreWellAsked == \A req \in Requests : WellAsked(req)
BY RequestsAreWellFormed DEF WellAsked, GatewayIndex, Entities, Devices, Guests

LEMMA BeginGood ==
  ASSUME IInv, NEW req, WellAsked(req), Begin(req)
  PROVE  IInv'
<1>1. request' = req /\ plan' = Prepared(req) /\ left' = Served'
      /\ accepted' = Nobody /\ assigned' = Nobody
  BY DEF Begin
<1>2. WellFormed'
  BY <1>1 DEF WellAsked, WellFormed, Entities, Devices, Guests
<1>3. DOMAIN used' = SubnetKeys(req) /\ DOMAIN owners' = SubnetKeys(req)
  BY DEF Begin
<1>4. \A k \in SubnetKeys(req) :
        /\ DOMAIN owners'[k] = used'[k]
        /\ plan'.gateways[k] \subseteq DOMAIN owners'[k]
        /\ \A a \in DOMAIN owners'[k] : owners'[k][a] = None
  BY DEF Begin
<1>5. \A n \in DOMAIN plan'.owner : plan'.owner[n] \in SubnetKeys(req)
  <2>1. plan'.owner = Owners(req)
    BY <1>1 DEF Prepared
  <2> QED BY <2>1, OwnersAreSubnets DEF WellAsked
<1>6. Taken' /\ GatewaysTaken'
  BY <1>3, <1>4, <1>5 DEF Taken, GatewaysTaken
<1>7. Held'
  BY <1>1 DEF Held, Nobody
<1> QED BY <1>2, <1>6, <1>7 DEF IInv

LEMMA AllocatingGood ==
  ASSUME IInv, Allocating
  PROVE  IInv'
<1>1. ASSUME NEW e \in left, preReserveExisting(e) PROVE IInv'
  <2>1. UNCHANGED <<request, plan, assigned>> /\ left' \subseteq left /\ e \in Served
    BY <1>1 DEF preReserveExisting, IInv, WellFormed
  <2>2. CASE UNCHANGED <<used, owners, accepted>>
    BY <2>1, <2>2, NothingGiven
  <2>3. CASE \E a : IsAvailable(Home(e), a) /\ Own(e, a) /\ accepted' = With(accepted, e, a)
    BY <2>1, <2>3, OneGiven
  <2> QED BY <1>1, <2>2, <2>3 DEF preReserveExisting
<1>2. ASSUME NEW e \in left, AssignInfra(e) PROVE IInv'
  <2>1. UNCHANGED <<request, plan, accepted>> /\ left' \subseteq left /\ e \in Served
    BY <1>2 DEF AssignInfra, IInv, WellFormed
  <2>2. CASE e \in DOMAIN accepted
    <3>1. assigned' = With(assigned, e, accepted[e]) /\ UNCHANGED <<used, owners>>
      BY <1>2, <2>2 DEF AssignInfra
    <3> QED BY <2>1, <2>2, <3>1, KeptGiven
  <2>3. CASE \E a : IsAvailable(Home(e), a) /\ Own(e, a) /\ assigned' = With(assigned, e, a)
    BY <2>1, <2>3, OneGiven
  <2>4. CASE UNCHANGED <<assigned, used, owners>>
    BY <2>1, <2>4, NothingGiven
  <2> QED BY <1>2, <2>2, <2>3, <2>4, SlotsAreFree DEF AssignInfra
<1>3. ASSUME NEW n \in left, AssignHost(n) PROVE IInv'
  <2>1. UNCHANGED <<request, plan, accepted>> /\ left' \subseteq left /\ n \in Served
    BY <1>3 DEF AssignHost, IInv, WellFormed
  <2>2. CASE n \in DOMAIN accepted
    <3>1. assigned' = With(assigned, n, accepted[n]) /\ UNCHANGED <<used, owners>>
      BY <1>3, <2>2 DEF AssignHost
    <3> QED BY <2>1, <2>2, <3>1, KeptGiven
  <2>3. CASE \E a : IsAvailable(Home(n), a) /\ Own(n, a) /\ assigned' = With(assigned, n, a)
    BY <2>1, <2>3, OneGiven
  <2>4. CASE UNCHANGED <<assigned, used, owners>>
    BY <2>1, <2>4, NothingGiven
  <2> QED BY <1>3, <2>2, <2>3, <2>4, SlotsAreFree DEF AssignHost
<1>4. ASSUME NEW g \in left, AssignGuest(g) PROVE IInv'
  <2>1. UNCHANGED <<request, plan, accepted>> /\ left' \subseteq left /\ g \in Served
    BY <1>4 DEF AssignGuest, IInv, WellFormed
  <2>2. CASE g \in DOMAIN accepted
    <3>1. assigned' = With(assigned, g, accepted[g]) /\ UNCHANGED <<used, owners>>
      BY <1>4, <2>2 DEF AssignGuest
    <3> QED BY <2>1, <2>2, <3>1, KeptGiven
  <2>3. CASE \E a : IsAvailable(Home(g), a) /\ Own(g, a) /\ assigned' = With(assigned, g, a)
    BY <2>1, <2>3, OneGiven
  <2>4. CASE UNCHANGED <<assigned, used, owners>>
    BY <2>1, <2>4, NothingGiven
  <2> QED BY <1>4, <2>2, <2>3, <2>4, SlotsAreFree DEF AssignGuest
<1>5. ASSUME CloseBlock PROVE IInv'
  <2>1. /\ UNCHANGED <<request, plan, left, owners, accepted, assigned>>
        /\ DOMAIN used' = DOMAIN used
        /\ \A k \in DOMAIN used : used[k] \subseteq used'[k]
    BY <1>5 DEF CloseBlock
  <2> QED BY <2>1, NothingGiven
<1>6. ASSUME NextStage PROVE IInv'
  BY <1>6, NothingGiven DEF NextStage
<1> QED BY <1>1, <1>2, <1>3, <1>4, <1>5, <1>6 DEF Allocating

LEMMA NextGood ==
  ASSUME IInv, [Serving]_alloc
  PROVE  IInv'
<1>1. ASSUME Answer PROVE IInv'
  BY <1>1, NothingGiven DEF Answer
<1>2. CASE UNCHANGED alloc
  BY <1>2, NothingGiven DEF alloc
<1> QED BY <1>1, <1>2, BeginGood, AllocatingGood DEF Serving

-----------------------------------------------------------------------------
(* Blocks.                                                                  *)

\* Everything behind a host is taken or leased.
Closed(n) ==
  \A a \in (assigned[n] + 1) .. BlockEnd(n) :
    a \in used[Home(n)] \/ a \in plan.subnets[Home(n)].pool

Blocks ==
  /\ stage # "hosts" => host = None
  /\ stage = "reserve" => DOMAIN assigned = {}
  /\ stage = "infra" => /\ \A e \in left : IsInfra(e)
                        /\ \A n \in DOMAIN assigned : ~IsHost(n)
  /\ stage = "hosts" => \A n \in DOMAIN assigned :
                          IsHost(n) => n \notin left /\ (n # host => Closed(n))

BInv == IInv /\ Blocks

\* A block stays closed when its host keeps its address and more is taken.
LEMMA ClosedStays ==
  ASSUME IInv, UNCHANGED <<request, plan>>, NEW n \in DOMAIN assigned,
         assigned'[n] = assigned[n], used[Home(n)] \subseteq used'[Home(n)], Closed(n)
  PROVE  Closed(n)'
<1>1. Home(n)' = Home(n)
  BY ServedStays
<1>2. BlockEnd(n)' = BlockEnd(n)
  BY <1>1 DEF BlockEnd
<1> QED BY <1>1, <1>2 DEF Closed

\* Nobody loses an address that is taken.
LEMMA UsedGrows ==
  ASSUME IInv, NEW e \in Served, NEW a, Own(e, a) \/ UNCHANGED used
  PROVE  \A k \in DOMAIN used : used[k] \subseteq used'[k]
BY DEF Own

LEMMA HomesAreSubnets ==
  ASSUME IInv, NEW n \in DOMAIN assigned
  PROVE  Home(n) \in DOMAIN used /\ n \in Ids /\ n # None /\ assigned[n] \in used[Home(n)]
BY NobodyIsNamedNone DEF IInv, WellFormed, Taken, Held, Holds, Served, Home

\* Giving e an address closes no block and opens none but its own.
LEMMA BlocksStay ==
  ASSUME IInv, stage = "hosts", UNCHANGED <<request, plan, stage>>, NEW e \in left,
         left' \subseteq left \ {e},
         \A k \in DOMAIN used : used[k] \subseteq used'[k],
         assigned' = assigned \/ \E a : assigned' = With(assigned, e, a),
         NEW n \in DOMAIN assigned, IsHost(n), n \notin left, n # host => Closed(n)
  PROVE  n \in DOMAIN assigned' /\ n \notin left' /\ (n # host => Closed(n)')
<1>1. n # e /\ assigned'[n] = assigned[n] /\ n \in DOMAIN assigned'
  BY DEF With
<1>2. n # host => Closed(n)'
  BY <1>1, ClosedStays, HomesAreSubnets
<1> QED BY <1>1, <1>2

LEMMA BlocksNext ==
  ASSUME BInv, [Serving]_alloc
  PROVE  Blocks'
<1> USE DEF BInv
<1>1. \A n : UNCHANGED request => IsHost(n)' = IsHost(n) /\ IsInfra(n)' = IsInfra(n)
  BY DEF IsHost, IsInfra, Devices
<1>2. ASSUME NEW e \in left, preReserveExisting(e) PROVE Blocks'
  BY <1>2 DEF Blocks, preReserveExisting
<1>3. ASSUME NEW e \in left, AssignInfra(e) PROVE Blocks'
  <2>1. stage = "infra" /\ stage' = "infra" /\ left' = left \ {e}
        /\ UNCHANGED <<request, host>> /\ DOMAIN assigned' \subseteq DOMAIN assigned \cup {e}
    BY <1>3 DEF AssignInfra, With
  <2>2. ~IsHost(e)
    BY <2>1 DEF Blocks, IsInfra, IsHost
  <2> QED BY <1>1, <2>1, <2>2 DEF Blocks
<1>4. ASSUME NEW n \in left, AssignHost(n) PROVE Blocks'
  <2>1. /\ stage = "hosts" /\ UNCHANGED <<request, plan, stage>> /\ host = None
        /\ left' \subseteq left \ {n} /\ n \in Served
        /\ assigned' = assigned \/ \E a : assigned' = With(assigned, n, a)
        /\ host' = n \/ (host' = host /\ assigned' = assigned)
    BY <1>4 DEF AssignHost, IInv, WellFormed
  <2>2. \A k \in DOMAIN used : used[k] \subseteq used'[k]
    BY <1>4, <2>1, UsedGrows DEF AssignHost
  <2>3. \A m \in DOMAIN assigned : IsHost(m) => m \in DOMAIN assigned' /\ m \notin left' /\ Closed(m)'
    BY <2>1, <2>2, BlocksStay, HomesAreSubnets DEF Blocks
  <2>4. DOMAIN assigned' \subseteq DOMAIN assigned \cup {n}
    BY <2>1 DEF With
  <2>5. host' # n => assigned' = assigned
    BY <2>1
  <2> QED BY <1>1, <2>1, <2>3, <2>4, <2>5 DEF Blocks
<1>5. ASSUME NEW g \in left, AssignGuest(g) PROVE Blocks'
  <2>1. /\ stage = "hosts" /\ UNCHANGED <<request, plan, stage, host>>
        /\ left' = left \ {g} /\ g \in Served /\ g \in Guests(request)
        /\ assigned' = assigned \/ \E a : assigned' = With(assigned, g, a)
    BY <1>5 DEF AssignGuest, IInv, WellFormed, GuestsOf
  <2>2. \A k \in DOMAIN used : used[k] \subseteq used'[k]
    BY <1>5, <2>1, UsedGrows DEF AssignGuest
  <2>3. \A m \in DOMAIN assigned : IsHost(m) =>
          m \in DOMAIN assigned' /\ m \notin left' /\ (m # host => Closed(m)')
    BY <2>1, <2>2, BlocksStay DEF Blocks
  <2>4. DOMAIN assigned' \subseteq DOMAIN assigned \cup {g} /\ ~IsHost(g)
    BY <2>1 DEF With, IsHost, IInv, WellFormed
  <2> QED BY <1>1, <2>1, <2>3, <2>4 DEF Blocks
<1>6. ASSUME CloseBlock PROVE Blocks'
  <2>1. /\ stage = "hosts" /\ UNCHANGED <<request, plan, stage, left, assigned>> /\ host' = None
        /\ \A k \in DOMAIN used : used[k] \subseteq used'[k]
    BY <1>6 DEF CloseBlock
  <2>2. \A n \in DOMAIN assigned : IsHost(n) /\ n # host => Closed(n)'
    BY <2>1, ClosedStays, HomesAreSubnets DEF Blocks
  <2>3. ASSUME NEW n \in DOMAIN assigned, n = host PROVE Closed(n)'
    <3>1. Home(n) \in DOMAIN used
      BY HomesAreSubnets
    <3>2. used'[Home(n)] = used[Home(n)] \cup
            {a \in (assigned[n] + 1) .. BlockEnd(n) : ~IsDHCPReserved(Home(n), a)}
      BY <1>6, <2>3, <3>1 DEF CloseBlock
    <3>3. \A a \in (assigned[n] + 1) .. BlockEnd(n) :
            a \in used'[Home(n)] \/ a \in plan.subnets[Home(n)].pool
      BY <3>2 DEF IsDHCPReserved
    <3>4. Home(n)' = Home(n)
      BY <2>1, ServedStays
    <3>5. BlockEnd(n)' = BlockEnd(n)
      BY <2>1, <3>4 DEF BlockEnd
    <3> QED BY <2>1, <3>3, <3>4, <3>5 DEF Closed
  <2> QED BY <1>1, <2>1, <2>2, <2>3 DEF Blocks
<1>7. ASSUME NextStage PROVE Blocks'
  BY <1>7 DEF Blocks, NextStage, IsHost, IsInfra, Devices, IInv, WellFormed, Host
<1>8. ASSUME NEW req, Begin(req) PROVE Blocks'
  BY <1>8 DEF Blocks, Begin, Nobody
<1>9. ASSUME Answer PROVE Blocks'
  BY <1>9 DEF Blocks, Answer
<1>10. CASE UNCHANGED alloc
  <2>1. UNCHANGED <<request, plan, stage, left, used, assigned, host>>
    BY <1>10 DEF alloc
  <2>2. \A n : IsHost(n)' = IsHost(n) /\ IsInfra(n)' = IsInfra(n)
    BY <2>1 DEF IsHost, IsInfra, Devices
  <2>3. \A n : BlockEnd(n)' = BlockEnd(n) /\ Home(n)' = Home(n)
    BY <2>1 DEF BlockEnd, Home, Host, Guests
  <2>4. \A n : Closed(n)' = Closed(n)
    BY <2>1, <2>3 DEF Closed
  <2> QED BY <2>1, <2>2, <2>4 DEF Blocks
<1> QED BY <1>2, <1>3, <1>4, <1>5, <1>6, <1>7, <1>8, <1>9, <1>10 DEF Serving, Allocating

-----------------------------------------------------------------------------
(* Whoever is to keep a usable address that nobody else wants keeps it.     *)

Unrivalled(n) ==
  LET a == Existing(request, n)
      k == Home(n)
  IN  /\ n \in Devices(request)
      /\ a \in Usable(k) \ plan.subnets[k].pool
      /\ a \notin {k[1], k[1] + k[2]} \cup plan.gateways[k]
      /\ \A f \in Served \ {n} : Home(f) = k => Existing(request, f) # a

Kept(n) == n \in DOMAIN accepted /\ accepted[n] = Existing(request, n)
Given(n) == n \in DOMAIN assigned /\ assigned[n] = Existing(request, n)
Asks(k) == {Existing(request, f) : f \in {g \in Served \ left : Home(g) = k}}

\* The stage has passed in which a device is given its address.
Settled(n) == \/ stage = "infra" /\ IsInfra(n) /\ n \notin left
              \/ stage = "hosts" /\ n \notin left
              \/ stage = "answered"

\* While addresses are reserved only those are taken that somebody asked for before.
Pins ==
  /\ stage = "reserve" =>
       \A k \in DOMAIN used : used[k] \subseteq {k[1], k[1] + k[2]} \cup plan.gateways[k] \cup Asks(k)
  /\ stage = "hosts" => \A e \in left : IsHost(Host(request, e))
  /\ \A n \in Served : Unrivalled(n) =>
       /\ n \notin left \/ stage # "reserve" => Kept(n)
       /\ Settled(n) => Given(n)

LEMMA RequestStays ==
  ASSUME UNCHANGED <<request, plan>>
  PROVE  /\ Served' = Served
         /\ \A n : /\ Home(n)' = Home(n) /\ Unrivalled(n)' = Unrivalled(n)
                   /\ IsInfra(n)' = IsInfra(n) /\ IsHost(n)' = IsHost(n)
                   /\ Host(request, n)' = Host(request, n)
                   /\ Existing(request, n)' = Existing(request, n)
<1>1. Served' = Served /\ \A n : Home(n)' = Home(n)
  BY ServedStays
<1>2. \A n : Unrivalled(n)' = Unrivalled(n)
  BY <1>1 DEF Unrivalled, Existing, Devices, Guests, Usable
<1> QED BY <1>1, <1>2 DEF IsInfra, IsHost, Devices, Guests, Host, Existing

LEMMA PinsBegin ==
  ASSUME NEW req, Begin(req)
  PROVE  Pins'
<1>1. stage' = "reserve" /\ left' = Served'
  BY DEF Begin
<1>2. \A k \in DOMAIN used' : used'[k] = {k[1], k[1] + k[2]} \cup plan'.gateways[k]
  BY DEF Begin
<1> QED BY <1>1, <1>2 DEF Pins, Settled

LEMMA PinsReserve ==
  ASSUME IInv, Pins, NEW e \in left, preReserveExisting(e)
  PROVE  Pins'
<1> DEFINE a == Existing(request, e)
           k == Home(e)
<1>1. /\ stage = "reserve" /\ stage' = "reserve" /\ left' = left \ {e}
      /\ UNCHANGED <<request, plan, assigned>> /\ e \in Served
      /\ \/ a # None /\ IsAvailable(k, a) /\ Own(e, a) /\ accepted' = With(accepted, e, a)
         \/ ~(a # None /\ IsAvailable(k, a)) /\ UNCHANGED <<used, accepted>>
  BY DEF preReserveExisting, IInv, WellFormed
<1>2. k \in DOMAIN used
  BY <1>1 DEF IInv, Taken, Served, Home
<1>3. ASSUME NEW j \in DOMAIN used' PROVE used'[j] \subseteq {j[1], j[1] + j[2]} \cup plan'.gateways[j] \cup Asks(j)'
  <2>1. j \in DOMAIN used /\ (used'[j] = used[j] \/ (j = k /\ used'[j] = used[j] \cup {a}))
    BY <1>1, <1>2 DEF Own
  <2>2. Asks(j) \subseteq Asks(j)' /\ (j = k => a \in Asks(j)')
    BY <1>1, RequestStays DEF Asks, IInv, WellFormed
  <2> QED BY <1>1, <2>1, <2>2 DEF Pins
<1>4. ASSUME NEW n \in Served, Unrivalled(n), n \notin left' PROVE Kept(n)'
  <2>1. CASE n # e
    <3>1. Kept(n)
      BY <1>1, <1>4, <2>1 DEF Pins
    <3> QED BY <1>1, <2>1, <3>1, RequestStays DEF Kept, With
  <2>2. CASE n = e
    <3>1. a \in Usable(k) /\ a \notin plan.subnets[k].pool
      BY <1>4, <2>2 DEF Unrivalled
    <3>2. a # None
      BY <3>1, AddressesAssumption DEF Usable
    <3>3. a \notin Asks(k)
      BY <1>4, <2>2 DEF Asks, Unrivalled
    <3>4. a \notin used[k]
      BY <1>1, <1>2, <1>4, <2>2, <3>3 DEF Pins, Unrivalled
    <3>5. accepted' = With(accepted, e, a)
      BY <1>1, <3>1, <3>2, <3>4 DEF IsAvailable, IsDHCPReserved
    <3> QED BY <1>1, <2>2, <3>5, RequestStays DEF Kept, With
  <2> QED BY <2>1, <2>2
<1>5. \A n : ~Settled(n)'
  BY <1>1 DEF Settled
<1> QED BY <1>1, <1>3, <1>4, <1>5, RequestStays DEF Pins

\* What was kept or given stays so.
LEMMA PinsStay ==
  ASSUME Pins, UNCHANGED <<request, plan, stage, accepted>>, stage # "reserve", left' \subseteq left,
         \A n \in Served : Unrivalled(n) /\ Given(n) /\ Settled(n) => Given(n)',
         \A n \in Served : Unrivalled(n) /\ Kept(n) /\ n \in left /\ n \notin left' /\ Settled(n)' => Given(n)'
  PROVE  Pins'
<1>1. \A n \in Served : Unrivalled(n) => Kept(n) /\ Kept(n)'
  BY RequestStays DEF Pins, Kept
<1>2. \A n : Settled(n)' => Settled(n) \/ (n \in left /\ n \notin left')
  BY RequestStays DEF Settled
<1>3. \A n \in Served : Unrivalled(n) /\ Settled(n)' => Given(n)'
  BY <1>1, <1>2 DEF Pins
<1> QED BY <1>1, <1>3, RequestStays DEF Pins

LEMMA PinsAllocating ==
  ASSUME BInv, Pins, Allocating
  PROVE  Pins'
<1>1. ASSUME NEW e \in left, AssignInfra(e) PROVE Pins'
  <2>1. /\ stage = "infra" /\ UNCHANGED <<request, plan, stage, accepted>> /\ left' = left \ {e}
        /\ assigned' = assigned \/ \E a : assigned' = With(assigned, e, a)
        /\ e \in DOMAIN accepted => assigned' = With(assigned, e, accepted[e])
    BY <1>1 DEF AssignInfra
  <2>2. \A n \in Served : Settled(n) => n # e
    BY <2>1 DEF Settled
  <2>3. \A n \in Served : Given(n) /\ Settled(n) => Given(n)'
    BY <2>1, <2>2, RequestStays DEF Given, With
  <2>4. \A n \in Served : Kept(n) /\ n \in left /\ n \notin left' => Given(n)'
    BY <2>1, RequestStays DEF Kept, Given, With
  <2> QED BY <2>1, <2>3, <2>4, PinsStay
<1>2. ASSUME NEW e \in left, AssignHost(e) PROVE Pins'
  <2>1. /\ stage = "hosts" /\ UNCHANGED <<request, plan, stage, accepted>> /\ left' \subseteq left
        /\ assigned' = assigned \/ \E a : assigned' = With(assigned, e, a)
        /\ e \in DOMAIN accepted => assigned' = With(assigned, e, accepted[e])
        /\ left \ left' \subseteq {e} \cup GuestsOf(e)
    BY <1>2 DEF AssignHost
  <2>2. \A n \in Served : Settled(n) => n # e
    BY <2>1 DEF Settled
  <2>3. \A n \in Served : Given(n) /\ Settled(n) => Given(n)'
    BY <2>1, <2>2, RequestStays DEF Given, With
  <2>4. \A n \in Served : Unrivalled(n) => n \notin GuestsOf(e)
    BY DEF Unrivalled, GuestsOf, BInv, IInv, WellFormed
  <2>5. \A n \in Served : Unrivalled(n) /\ Kept(n) /\ n \in left /\ n \notin left' => Given(n)'
    BY <2>1, <2>4, RequestStays DEF Kept, Given, With
  <2> QED BY <2>1, <2>3, <2>5, PinsStay
<1>3. ASSUME NEW e \in left, AssignGuest(e) PROVE Pins'
  <2>1. /\ stage = "hosts" /\ UNCHANGED <<request, plan, stage, accepted>> /\ left' = left \ {e}
        /\ assigned' = assigned \/ \E a : assigned' = With(assigned, e, a)
        /\ e \in Guests(request)
    BY <1>3 DEF AssignGuest, GuestsOf
  <2>2. \A n \in Served : Unrivalled(n) => n # e
    BY <2>1 DEF Unrivalled, BInv, IInv, WellFormed
  <2>3. \A n \in Served : Unrivalled(n) /\ Given(n) => Given(n)'
    BY <2>1, <2>2, RequestStays DEF Given, With
  <2> QED BY <2>1, <2>2, <2>3, PinsStay
<1>4. ASSUME CloseBlock PROVE Pins'
  <2>1. stage = "hosts" /\ UNCHANGED <<request, plan, stage, accepted, assigned, left>>
    BY <1>4 DEF CloseBlock
  <2> QED BY <2>1, RequestStays, PinsStay DEF Given
<1>5. ASSUME NextStage PROVE Pins'
  <2>1. left = {} /\ UNCHANGED <<request, plan, accepted, assigned>>
    BY <1>5 DEF NextStage
  <2>2. \A n \in Served : Unrivalled(n) => Kept(n)'
    BY <2>1, RequestStays DEF Pins, Kept
  <2>3. \A n \in Served : Unrivalled(n) => IsInfra(n) \/ (IsHost(n) /\ Host(request, n) = n)
    BY DEF Unrivalled, IsInfra, IsHost, Host, BInv, IInv, WellFormed
  <2>4. CASE stage = "reserve"
    <3>1. stage' = "infra" /\ \A n \in Served : IsInfra(n) => n \in left'
      BY <1>5, <2>4 DEF NextStage
    <3> QED BY <2>1, <2>2, <3>1, RequestStays DEF Pins, Settled
  <2>5. CASE stage = "infra"
    <3>1. stage' = "hosts" /\ left' = {e \in Served : IsHost(Host(request, e))}
      BY <1>5, <2>5 DEF NextStage
    <3>2. \A n \in Served : Unrivalled(n) /\ n \notin left' => IsInfra(n)
      BY <2>3, <3>1
    <3>3. \A n \in Served : Unrivalled(n) /\ n \notin left' => Given(n)'
      BY <2>1, <2>5, <3>2, RequestStays DEF Pins, Settled, Given
    <3> QED BY <2>1, <2>2, <3>1, <3>3, RequestStays DEF Pins, Settled
  <2>6. CASE stage = "hosts"
    <3>1. stage' = "answered"
      BY <1>5, <2>6 DEF NextStage
    <3>2. \A n \in Served : Unrivalled(n) => Given(n)'
      BY <2>1, <2>6, RequestStays DEF Pins, Settled, Given
    <3> QED BY <2>1, <2>2, <3>1, <3>2, RequestStays DEF Pins
  <2> QED BY <1>5, <2>4, <2>5, <2>6 DEF NextStage
<1> QED BY <1>1, <1>2, <1>3, <1>4, <1>5, PinsReserve DEF Allocating, BInv

LEMMA PinsNext ==
  ASSUME BInv, Pins, [Serving]_alloc
  PROVE  Pins'
<1>1. CASE Answer
  <2>1. stage' = "idle" /\ stage = "answered" /\ UNCHANGED <<request, plan, left, accepted, assigned>>
    BY <1>1 DEF Answer
  <2>2. \A n \in Served : Unrivalled(n) => Kept(n)'
    BY <2>1, RequestStays DEF Pins, Kept
  <2> QED BY <2>1, <2>2, RequestStays DEF Pins, Settled
<1>2. CASE UNCHANGED alloc
  <2>1. UNCHANGED <<request, plan, stage, left, used, accepted, assigned>>
    BY <1>2 DEF alloc
  <2>2. \A n : /\ Kept(n)' = Kept(n) /\ Given(n)' = Given(n) /\ Settled(n)' = Settled(n)
               /\ Asks(n)' = Asks(n)
    BY <2>1, RequestStays DEF Kept, Given, Settled, Asks
  <2> QED BY <2>1, <2>2, RequestStays DEF Pins
<1> QED BY <1>1, <1>2, PinsBegin, PinsAllocating DEF Serving

-----------------------------------------------------------------------------
(* The members of a set in order.                                           *)

\* Each member has its place, with as many before it.
LEMMA InOrderIs ==
  ASSUME NEW S, IsFiniteSet(S), NEW before,
         \A x, y \in S : x # y => <<x, y>> \in before \/ <<y, x>> \in before,
         \A x \in S : <<x, x>> \notin before,
         \A x, y, z \in S : <<x, y>> \in before /\ <<y, z>> \in before => <<x, z>> \in before
  PROVE  /\ Cardinality(S) \in Nat
         /\ InOrder(S, before) \in [1 .. Cardinality(S) -> S]
         /\ \A x \in S : \E i \in 1 .. Cardinality(S) : InOrder(S, before)[i] = x
<1> DEFINE n == Cardinality(S)
           Below(x) == {y \in S : <<y, x>> \in before}
           place == [x \in S |-> Cardinality(Below(x)) + 1]
<1>1. n \in Nat
  BY FS_CardinalityType
<1>2. ASSUME NEW x \in S PROVE Cardinality(Below(x)) \in Nat /\ Cardinality(Below(x)) <= n - 1
  <2>1. IsFiniteSet(S \ {x}) /\ Cardinality(S \ {x}) = n - 1
    BY FS_RemoveElement
  <2>2. Below(x) \in SUBSET (S \ {x})
    OBVIOUS
  <2>3. IsFiniteSet(Below(x)) /\ Cardinality(Below(x)) <= Cardinality(S \ {x})
    BY <2>1, <2>2, FS_Subset
  <2> QED BY <2>1, <2>3, FS_CardinalityType
<1>3. ASSUME NEW x \in S, NEW y \in S, <<x, y>> \in before
      PROVE  Cardinality(Below(x)) < Cardinality(Below(y))
  <2>1. Below(x) \in SUBSET (Below(y) \ {x}) /\ x \in Below(y)
    BY <1>3
  <2>2. IsFiniteSet(Below(y))
    <3>1. Below(y) \in SUBSET S
      OBVIOUS
    <3> QED BY <3>1, FS_Subset
  <2>3. IsFiniteSet(Below(y) \ {x}) /\ Cardinality(Below(y) \ {x}) = Cardinality(Below(y)) - 1
    BY <2>1, <2>2, FS_RemoveElement
  <2>4. Cardinality(Below(x)) <= Cardinality(Below(y) \ {x})
    BY <2>1, <2>3, FS_Subset
  <2> QED BY <2>3, <2>4, <1>2
<1>4. place \in [S -> 1 .. n]
  <2>1. \A x \in S : Cardinality(Below(x)) + 1 \in 1 .. n
    BY <1>1, <1>2
  <2> QED BY <2>1
<1>5. \A x, y \in S : place[x] = place[y] => x = y
  <2>1. \A x \in S : place[x] = Cardinality(Below(x)) + 1 /\ Cardinality(Below(x)) \in Nat
    BY <1>2
  <2>2. SUFFICES ASSUME NEW x \in S, NEW y \in S, place[x] = place[y], x # y PROVE FALSE
    OBVIOUS
  <2>3. Cardinality(Below(x)) = Cardinality(Below(y))
    <3> HIDE DEF place, Below
    <3> QED BY <2>1, <2>2
  <2>4. Cardinality(Below(x)) \in Nat /\ Cardinality(Below(y)) \in Nat
    BY <1>2
  <2>5. <<x, y>> \in before => Cardinality(Below(x)) < Cardinality(Below(y))
    BY <1>3
  <2>6. <<y, x>> \in before => Cardinality(Below(y)) < Cardinality(Below(x))
    BY <1>3
  <2> HIDE DEF Below
  <2> QED BY <2>2, <2>3, <2>4, <2>5, <2>6
<1>6. place \in Injection(S, 1 .. n)
  <2> HIDE DEF place
  <2> QED BY <1>4, <1>5 DEF Injection, IsInjective
<1>7. place \in Surjection(S, 1 .. n)
  <2>1. IsFiniteSet(1 .. n) /\ Cardinality(1 .. n) = n
    BY <1>1, FS_Interval
  <2> HIDE DEF place
  <2> QED BY <1>6, <2>1, FS_Injection
<1>8. \A i \in 1 .. n : \E x \in S : Cardinality(Below(x)) = i - 1
  <2>1. \A i \in 1 .. n : \E x \in S : place[x] = i
    BY <1>7 DEF Surjection
  <2>2. \A x \in S : place[x] = Cardinality(Below(x)) + 1 /\ Cardinality(Below(x)) \in Nat
    BY <1>2
  <2> HIDE DEF place, Below
  <2>3. ASSUME NEW i \in 1 .. n PROVE \E x \in S : Cardinality(Below(x)) = i - 1
    <3>1. PICK x \in S : place[x] = i
      BY <2>1
    <3>2. Cardinality(Below(x)) = i - 1
      BY <1>1, <2>2, <3>1
    <3> QED BY <3>2
  <2> QED BY <2>3
<1> DEFINE s == [i \in 1 .. n |-> CHOOSE x \in S : Cardinality(Below(x)) = i - 1]
<1>9. InOrder(S, before) = s
  BY DEF InOrder
<1>10. \A i \in 1 .. n : s[i] \in S /\ Cardinality(Below(s[i])) = i - 1
  <2> HIDE DEF Below
  <2> QED BY <1>8
<1>11. ASSUME NEW x \in S PROVE \E i \in 1 .. n : s[i] = x
  <2>1. place[x] \in 1 .. n /\ place[x] = Cardinality(Below(x)) + 1
    BY <1>4
  <2>2. s[place[x]] \in S /\ Cardinality(Below(s[place[x]])) = place[x] - 1
    BY <1>10, <2>1
  <2>3. place[s[place[x]]] = place[x]
    <3>1. Cardinality(Below(s[place[x]])) = Cardinality(Below(x))
      BY <1>2, <2>1, <2>2
    <3> HIDE DEF s, Below
    <3> QED BY <2>1, <2>2, <3>1
  <2> HIDE DEF place, s
  <2> QED BY <1>5, <2>1, <2>2, <2>3
<1>12. s \in [1 .. n -> S]
  <2> HIDE DEF Below
  <2> QED BY <1>10
<1> HIDE DEF s
<1> QED BY <1>1, <1>9, <1>11, <1>12

LEMMA RanksOrder ==
  ASSUME NEW S, S \subseteq Ids, IsFiniteSet(S)
  PROVE  /\ Cardinality(S) \in Nat
         /\ InOrder(S, ByRank) \in [1 .. Cardinality(S) -> S]
         /\ \A x \in S : \E i \in 1 .. Cardinality(S) : InOrder(S, ByRank)[i] = x
<1>1. \A x, y \in Ids : <<x, y>> \in ByRank <=> Rank[x] < Rank[y]
  BY DEF ByRank
<1>2. \A x \in Ids : Rank[x] \in Int
  BY AddressesAssumption
<1>3. \A x, y \in S : x # y => <<x, y>> \in ByRank \/ <<y, x>> \in ByRank
  <2>1. \A x, y \in Ids : x # y => Rank[x] # Rank[y]
    BY AddressesAssumption
  <2> QED BY <1>1, <1>2, <2>1
<1>4. \A x \in S : <<x, x>> \notin ByRank
  BY <1>1, <1>2
<1>5. \A x, y, z \in S : <<x, y>> \in ByRank /\ <<y, z>> \in ByRank => <<x, z>> \in ByRank
  BY <1>1, <1>2
<1> QED BY <1>3, <1>4, <1>5, InOrderIs

LEMMA PortsOrder ==
  ASSUME NEW S, S \subseteq Ids \X Ports, IsFiniteSet(S)
  PROVE  /\ Cardinality(S) \in Nat
         /\ InOrder(S, ByPort) \in [1 .. Cardinality(S) -> S]
<1> DEFINE Lower(x, y) == Rank[x[1]] < Rank[y[1]]
                          \/ (x[1] = y[1] /\ PortRank[x[2]] < PortRank[y[2]])
<1>1. ASSUME NEW x \in Ids \X Ports, NEW y \in Ids \X Ports
      PROVE  <<x, y>> \in ByPort <=> Lower(x, y)
  <2>1. <<x[1], y[1]>> \in ByRank <=> Rank[x[1]] < Rank[y[1]]
    BY DEF ByRank
  <2> QED BY <2>1 DEF ByPort
<1>2. \A x \in Ids \X Ports : Rank[x[1]] \in Int /\ PortRank[x[2]] \in Int
  BY AddressesAssumption
<1>3. \A x, y \in S : x # y => <<x, y>> \in ByPort \/ <<y, x>> \in ByPort
  <2>1. ASSUME NEW x \in Ids \X Ports, NEW y \in Ids \X Ports, x # y
        PROVE  Lower(x, y) \/ Lower(y, x)
    <3>1. x[1] # y[1] \/ x[2] # y[2]
      BY <2>1
    <3>2. x[1] # y[1] => Rank[x[1]] # Rank[y[1]]
      BY AddressesAssumption
    <3>3. x[2] # y[2] => PortRank[x[2]] # PortRank[y[2]]
      BY AddressesAssumption
    <3> QED BY <1>2, <3>1, <3>2, <3>3
  <2> HIDE DEF Lower
  <2> QED BY <1>1, <2>1
<1>4. \A x \in S : <<x, x>> \notin ByPort
  BY <1>1, <1>2
<1>5. \A x, y, z \in S : <<x, y>> \in ByPort /\ <<y, z>> \in ByPort => <<x, z>> \in ByPort
  <2>1. ASSUME NEW x \in Ids \X Ports, NEW y \in Ids \X Ports, NEW z \in Ids \X Ports,
               Lower(x, y), Lower(y, z)
        PROVE  Lower(x, z)
    BY <1>2, <2>1
  <2> HIDE DEF Lower
  <2> QED BY <1>1, <2>1
<1> HIDE DEF Lower
<1> QED BY <1>3, <1>4, <1>5, InOrderIs

-----------------------------------------------------------------------------
(* The request of a build.                                                  *)

LEMMA Listed ==
  ASSUME NEW T, NEW n \in Nat, NEW f \in [1 .. n -> T]
  PROVE  f \in Seq(T) /\ Len(f) = n
OBVIOUS

LEMMA ThreeInARow ==
  ASSUME NEW a \in Nat, NEW b \in Nat, NEW c \in Nat, NEW f, NEW g, NEW h,
         f = [i \in 1 .. a |-> f[i]], g = [i \in 1 .. b |-> g[i]], h = [i \in 1 .. c |-> h[i]]
  PROVE  /\ DOMAIN (f \o g \o h) = 1 .. (a + b + c)
         /\ \A i \in 1 .. a : (f \o g \o h)[i] = f[i]
         /\ \A i \in 1 .. b : (f \o g \o h)[a + i] = g[i]
         /\ \A i \in 1 .. c : (f \o g \o h)[a + b + i] = h[i]
<1> DEFINE T == {f[i] : i \in 1 .. a} \cup {g[i] : i \in 1 .. b} \cup {h[i] : i \in 1 .. c}
<1>1. f \in Seq(T) /\ Len(f) = a
  <2>1. f \in [1 .. a -> T]
    OBVIOUS
  <2> HIDE DEF T
  <2> QED BY <2>1, Listed
<1>2. g \in Seq(T) /\ Len(g) = b
  <2>1. g \in [1 .. b -> T]
    OBVIOUS
  <2> HIDE DEF T
  <2> QED BY <2>1, Listed
<1>3. h \in Seq(T) /\ Len(h) = c
  <2>1. h \in [1 .. c -> T]
    OBVIOUS
  <2> HIDE DEF T
  <2> QED BY <2>1, Listed
<1> HIDE DEF T
<1>4. /\ f \o g \in Seq(T) /\ Len(f \o g) = a + b
      /\ \A i \in 1 .. a + b : (f \o g)[i] = IF i <= a THEN f[i] ELSE g[i - a]
  <2>1. /\ f \o g \in Seq(T) /\ Len(f \o g) = Len(f) + Len(g)
        /\ \A i \in 1 .. Len(f) + Len(g) : (f \o g)[i] = IF i <= Len(f) THEN f[i] ELSE g[i - Len(f)]
    BY <1>1, <1>2, ConcatProperties
  <2> DEFINE fg == f \o g
  <2> HIDE DEF fg
  <2> QED BY <1>1, <1>2, <2>1
<1>5. /\ f \o g \o h \in Seq(T) /\ Len(f \o g \o h) = a + b + c
      /\ \A i \in 1 .. a + b + c : (f \o g \o h)[i] = IF i <= a + b THEN (f \o g)[i] ELSE h[i - (a + b)]
  <2> DEFINE fg == f \o g
  <2>1. fg \in Seq(T) /\ Len(fg) = a + b
    BY <1>4
  <2> HIDE DEF fg
  <2>2. /\ fg \o h \in Seq(T) /\ Len(fg \o h) = a + b + c
        /\ \A i \in 1 .. a + b + c : (fg \o h)[i] = IF i <= a + b THEN fg[i] ELSE h[i - (a + b)]
    BY <1>3, <2>1, ConcatProperties
  <2> QED BY <2>2 DEF fg
<1>6. DOMAIN (f \o g \o h) = 1 .. (a + b + c)
  <2> DEFINE s == f \o g \o h
  <2>1. s \in Seq(T) /\ Len(s) = a + b + c
    BY <1>5
  <2> HIDE DEF s
  <2>2. DOMAIN s = 1 .. Len(s)
    BY <2>1
  <2> QED BY <2>1, <2>2 DEF s
<1>7. ASSUME NEW i \in 1 .. a PROVE (f \o g \o h)[i] = f[i]
  <2>1. i \in 1 .. a + b /\ i \in 1 .. a + b + c /\ i <= a + b /\ i <= a
    BY <1>7
  <2> QED BY <2>1, <1>4, <1>5
<1>8. ASSUME NEW i \in 1 .. b PROVE (f \o g \o h)[a + i] = g[i]
  <2>1. a + i \in 1 .. a + b /\ a + i \in 1 .. a + b + c /\ a + i <= a + b /\ ~(a + i <= a) /\ (a + i) - a = i
    BY <1>8
  <2> QED BY <2>1, <1>4, <1>5
<1>9. ASSUME NEW i \in 1 .. c PROVE (f \o g \o h)[a + b + i] = h[i]
  <2>1. a + b + i \in 1 .. a + b + c /\ ~(a + b + i <= a + b) /\ (a + b + i) - (a + b) = i
    BY <1>9
  <2> QED BY <2>1, <1>5
<1> QED BY <1>6, <1>7, <1>8, <1>9

\* The gateways a request names, and what it says of each.
RoutersOf(ns) == {n \in DOMAIN ns : RealGateway(n)}
NATsOf(ns) == {n \in DOMAIN ns : NATGateway(ns, n)}
PortsOf(ns) == {p \in (DOMAIN ns) \X Ports : p[2] \in portGateways(ns, p[1])}

RouterEntry(ns, r) ==
  [id |-> <<r, "self">>, ip |-> ns[r].ip, dhcp |-> ns[r].dhcp,
   net |-> IF ns[r].ip # None /\ ns[r].mask # None
           THEN [ip |-> ns[r].ip, capacity |-> ns[r].mask] ELSE None]
LANEntry(ns, n, lan) ==
  [id |-> <<n, "lan">>, ip |-> lan.ip, net |-> lan.net, dhcp |-> ns[n].dhcp \/ ns[n].nat]
PortEntry(ns, p) ==
  [id |-> p, ip |-> ns[p[1]].ports[p[2]].ip, net |-> ns[p[1]].ports[p[2]].net,
   dhcp |-> ns[p[1]].ports[p[2]].dhcp]

\* Who opens a gateway does not depend on its addresses.
LEMMA EntriesAreNamed ==
  /\ \A ns, n : RouterEntry(ns, n).id = <<n, "self">>
  /\ \A ns, n, lan : LANEntry(ns, n, lan).id = <<n, "lan">>
  /\ \A ns, p : PortEntry(ns, p).id = p
BY DEF RouterEntry, LANEntry, PortEntry

LEMMA TheGateways ==
  ASSUME NEW ns, NEW cs, BuildFits(ns, cs)
  PROVE  /\ Cardinality(RoutersOf(ns)) \in Nat
         /\ InOrder(RoutersOf(ns), ByRank) \in [1 .. Cardinality(RoutersOf(ns)) -> RoutersOf(ns)]
         /\ \A r \in RoutersOf(ns) : \E i \in 1 .. Cardinality(RoutersOf(ns)) :
              InOrder(RoutersOf(ns), ByRank)[i] = r
         /\ Cardinality(NATsOf(ns)) \in Nat
         /\ InOrder(NATsOf(ns), ByRank) \in [1 .. Cardinality(NATsOf(ns)) -> NATsOf(ns)]
         /\ Cardinality(PortsOf(ns)) \in Nat
         /\ InOrder(PortsOf(ns), ByPort) \in [1 .. Cardinality(PortsOf(ns)) -> PortsOf(ns)]
<1>1. IsFiniteSet(DOMAIN ns) /\ DOMAIN ns \subseteq Ids
  BY DEF BuildFits
<1>2. IsFiniteSet(RoutersOf(ns)) /\ RoutersOf(ns) \subseteq Ids
  <2>1. RoutersOf(ns) \in SUBSET DOMAIN ns
    BY DEF RoutersOf
  <2> QED BY <1>1, <2>1, FS_Subset
<1>3. IsFiniteSet(NATsOf(ns)) /\ NATsOf(ns) \subseteq Ids
  <2>1. NATsOf(ns) \in SUBSET DOMAIN ns
    BY DEF NATsOf
  <2> QED BY <1>1, <2>1, FS_Subset
<1>4. IsFiniteSet(PortsOf(ns)) /\ PortsOf(ns) \subseteq Ids \X Ports
  <2>1. PortsOf(ns) \in SUBSET ((DOMAIN ns) \X Ports)
    BY DEF PortsOf
  <2>2. IsFiniteSet((DOMAIN ns) \X Ports)
    BY <1>1, FS_Product, AddressesAssumption
  <2> QED BY <1>1, <2>1, <2>2, FS_Subset
<1> QED BY <1>2, <1>3, <1>4, RanksOrder, PortsOrder

LEMMA GatewayList ==
  ASSUME NEW ns, NEW cs, BuildFits(ns, cs)
  PROVE  LET a == Cardinality(RoutersOf(ns))
             b == Cardinality(NATsOf(ns))
             c == Cardinality(PortsOf(ns))
         IN  /\ DOMAIN Gateways(ns, cs) = 1 .. (a + b + c)
             /\ \A i \in 1 .. a : Gateways(ns, cs)[i] = RouterEntry(ns, InOrder(RoutersOf(ns), ByRank)[i])
             /\ \A i \in 1 .. b : Gateways(ns, cs)[a + i] =
                  LANEntry(ns, InOrder(NATsOf(ns), ByRank)[i], nextNATLAN(ns, cs)[i])
             /\ \A i \in 1 .. c : Gateways(ns, cs)[a + b + i] =
                  PortEntry(ns, InOrder(PortsOf(ns), ByPort)[i])
<1> DEFINE a == Cardinality(RoutersOf(ns))
           b == Cardinality(NATsOf(ns))
           c == Cardinality(PortsOf(ns))
           routers == InOrder(RoutersOf(ns), ByRank)
           nats == InOrder(NATsOf(ns), ByRank)
           ports == InOrder(PortsOf(ns), ByPort)
           f == [i \in 1 .. Len(routers) |-> RouterEntry(ns, routers[i])]
           g == [i \in 1 .. Len(nats) |-> LANEntry(ns, nats[i], nextNATLAN(ns, cs)[i])]
           h == [i \in 1 .. Len(ports) |-> PortEntry(ns, ports[i])]
<1>1. Gateways(ns, cs) = f \o g \o h
  BY DEF Gateways, natGateways, RoutersOf, NATsOf, PortsOf, RouterEntry, LANEntry, PortEntry
<1>2. a \in Nat /\ Len(routers) = a
  <2>1. routers \in Seq(RoutersOf(ns)) /\ a \in Nat /\ DOMAIN routers = 1 .. a
    BY TheGateways
  <2> QED BY <2>1
<1>3. b \in Nat /\ Len(nats) = b
  <2>1. nats \in Seq(NATsOf(ns)) /\ b \in Nat /\ DOMAIN nats = 1 .. b
    BY TheGateways
  <2> QED BY <2>1
<1>4. c \in Nat /\ Len(ports) = c
  <2>1. ports \in Seq(PortsOf(ns)) /\ c \in Nat /\ DOMAIN ports = 1 .. c
    BY TheGateways
  <2> QED BY <2>1
<1> HIDE DEF routers, nats, ports, a, b, c
<1>5. /\ f = [i \in 1 .. a |-> f[i]] /\ g = [i \in 1 .. b |-> g[i]] /\ h = [i \in 1 .. c |-> h[i]]
  BY <1>2, <1>3, <1>4
<1>6. /\ \A i \in 1 .. a : f[i] = RouterEntry(ns, routers[i])
      /\ \A i \in 1 .. b : g[i] = LANEntry(ns, nats[i], nextNATLAN(ns, cs)[i])
      /\ \A i \in 1 .. c : h[i] = PortEntry(ns, ports[i])
  BY <1>2, <1>3, <1>4
<1> HIDE DEF f, g, h
<1>7. /\ DOMAIN (f \o g \o h) = 1 .. (a + b + c)
      /\ \A i \in 1 .. a : (f \o g \o h)[i] = f[i]
      /\ \A i \in 1 .. b : (f \o g \o h)[a + i] = g[i]
      /\ \A i \in 1 .. c : (f \o g \o h)[a + b + i] = h[i]
  BY <1>2, <1>3, <1>4, <1>5, ThreeInARow
<1> QED BY <1>1, <1>6, <1>7 DEF routers, nats, ports, a, b, c

LEMMA AddressesAreNumbers == Address \subseteq Nat /\ Address \subseteq Int
BY ThereAreLANs DEF Address

\* A subnet lies in the space of addresses, whatever it is cut from.
LEMMA Aligned ==
  ASSUME NEW ip \in Address, NEW c \in Capacities
  PROVE  /\ c \in Nat /\ NetworkOf(ip, c) \in Address /\ NetworkOf(ip, c) + c < Whole
<1> DEFINE m == c + 1
           q == Whole \div m
           d == ip \div m
           r == ip % m
<1>1. /\ c \in Nat /\ m \in Nat \ {0} /\ Whole \in Nat \ {0} /\ Whole = q * m
      /\ ip \in Nat /\ ip < Whole
  BY ThereAreLANs DEF Address
<1>2. q \in Nat /\ d \in Nat /\ r \in 0 .. (m - 1) /\ ip = m * d + r
  <2> HIDE DEF m
  <2> QED BY <1>1
<1>3. NetworkOf(ip, c) = m * d
  <2>1. NetworkOf(ip, c) = ip - r
    BY DEF NetworkOf
  <2>2. m * d \in Nat
    <3> HIDE DEF m, d
    <3> QED BY <1>1, <1>2
  <2> HIDE DEF m, d, r
  <2> QED BY <1>1, <1>2, <2>1, <2>2
<1> HIDE DEF m, q, d, r
<1>4. d < q
  <2>1. SUFFICES ASSUME q <= d PROVE FALSE
    BY <1>2
  <2>2. m * q <= m * d
    BY <1>1, <1>2, <2>1
  <2>3. m * q = Whole /\ m * d \in Nat
    BY <1>1, <1>2
  <2> QED BY <1>1, <1>2, <2>2, <2>3
<1>5. m * d + m <= Whole
  <2>1. d + 1 <= q
    BY <1>2, <1>4
  <2>2. m * (d + 1) <= m * q
    BY <1>1, <1>2, <2>1
  <2>3. m * (d + 1) = m * d + m
    BY <1>1, <1>2
  <2>4. m * q = Whole
    BY <1>1, <1>2
  <2> QED BY <2>2, <2>3, <2>4
<1>6. m * d \in Nat
  BY <1>1, <1>2
<1> QED BY <1>1, <1>3, <1>5, <1>6 DEF m, Address

\* The addresses a request is made of are numbers.
Numbered(g) == g.ip \in Address \cup {None} /\ g.net \in Subnet \cup {None}

LEMMA EndsOfCables ==
  ASSUME NEW ns, NEW c, NEW e \in Ends(ns, c)
  PROVE  e[1] \in {c.s, c.t}
<1> DEFINE sh == Port(c.sh, "eth0")
           th == Port(c.th, "target-0")
           sp == sh \in portGateways(ns, c.s)
           tp == th \in portGateways(ns, c.t)
           Side(n, other, lan) ==
             <<n, IF c.dir = "lan" \/ (c.dir = "auto" /\ lan /\ ~UpstreamAnchor(ns, other))
                  THEN "lan" ELSE "self">>
<1>1. CASE sp \/ tp
  <2>1. Ends(ns, c) = {<<c.s, IF sp THEN sh ELSE "self">>, <<c.t, IF tp THEN th ELSE "self">>}
    BY <1>1 DEF Ends
  <2> QED BY <2>1
<1>2. CASE ~(sp \/ tp) /\ NATGateway(ns, c.s)
  <2>1. Ends(ns, c) = {Side(c.s, c.t, c.sh # "target-0"), <<c.t, "self">>}
    BY <1>2 DEF Ends
  <2> QED BY <2>1
<1>3. CASE ~(sp \/ tp) /\ ~NATGateway(ns, c.s) /\ NATGateway(ns, c.t)
  <2>1. Ends(ns, c) = {Side(c.t, c.s, c.th \notin {"", "target-0"}), <<c.s, "self">>}
    BY <1>3 DEF Ends
  <2> DEFINE lan == Side(c.t, c.s, c.th \notin {"", "target-0"})
  <2>2. lan[1] = c.t /\ Ends(ns, c) = {lan, <<c.s, "self">>}
    BY <2>1
  <2> HIDE DEF lan
  <2> QED BY <2>2
<1>4. CASE ~(sp \/ tp) /\ ~NATGateway(ns, c.s) /\ ~NATGateway(ns, c.t)
  <2>1. Ends(ns, c) = {<<c.s, "self">>, <<c.t, "self">>}
    BY <1>4 DEF Ends
  <2> QED BY <2>1
<1> QED BY <1>1, <1>2, <1>3, <1>4

LEMMA NeighboursAreDevices ==
  ASSUME NEW ns, NEW cs, BuildFits(ns, cs), NEW e, NEW f \in Neighbours(ns, cs, e)
  PROVE  f[1] \in DOMAIN ns
<1>1. PICK c \in cs : f \in Ends(ns, c)
  BY DEF Neighbours
<1> QED BY <1>1, EndsOfCables DEF BuildFits

LEMMA LANsAreNumbers ==
  ASSUME NEW ns, NEW cs, BuildFits(ns, cs), NEW n, NEW taken
  PROVE  freeLANs(ns, cs, n, taken) \subseteq Address
<1> DEFINE parents == {e[1] : e \in {f \in Neighbours(ns, cs, <<n, "self">>) :
                                        f[2] = "self" /\ RealGateway(f[1]) /\ ns[f[1]].ip # None}}
           third(p, k) == LET t == ((ns[p].ip \div 256) + k) % Third IN IF t = 0 THEN 1 ELSE t
           free(p) == {k \in 1..(Third - 1) : 256 * third(p, k) + 1 \notin taken}
<1>1. freeLANs(ns, cs, n, taken) = {256 * third(p, First(free(p))) + 1 : p \in {q \in parents : free(q) # {}}}
  BY DEF freeLANs
<1>2. ASSUME NEW p \in parents, free(p) # {}
      PROVE  256 * third(p, First(free(p))) + 1 \in Address
  <2>1. ns[p].ip \in Int
    <3>1. p \in DOMAIN ns /\ ns[p].ip # None
      BY NeighboursAreDevices
    <3> QED BY <3>1, AddressesAreNumbers DEF BuildFits, DeviceFits
  <2>2. free(p) \subseteq Nat
    BY ThereAreLANs
  <2>3. First(free(p)) \in Nat
    <3> HIDE DEF free
    <3> QED BY <1>2, <2>2, Smallest
  <2> DEFINE k == First(free(p))
  <2> HIDE DEF k
  <2>4. third(p, k) \in Nat /\ third(p, k) <= Third
    <3>1. ((ns[p].ip \div 256) + k) \in Int
      BY <2>1, <2>3 DEF k
    <3>2. ((ns[p].ip \div 256) + k) % Third \in 0 .. Third - 1
      BY <3>1, ThereAreLANs
    <3> QED BY <3>2, ThereAreLANs
  <2>5. 256 * third(p, k) + 1 \in Address
    <3> HIDE DEF third
    <3>1. 256 * Third + 1 < Whole
      BY ThereAreLANs DEF Third
    <3> QED BY <2>4, <3>1, ThereAreLANs DEF Address
  <2> QED BY <2>5 DEF k
<1> HIDE DEF parents, third, free
<1> QED BY <1>1, <1>2

LEMMA LANIsNumbered ==
  ASSUME NEW ns, NEW cs, BuildFits(ns, cs), NEW n \in DOMAIN ns, NEW taken
  PROVE  LANOf(ns, cs, n, taken) \in [ip : Address \cup {None}, net : Subnet \cup {None}]
<1> DEFINE found == freeLANs(ns, cs, n, taken)
<1>1. CASE ns[n].lan.ip # None
  <2>1. ns[n].lan \in [ip : Address \cup {None}, net : Subnet \cup {None}]
    BY DEF BuildFits, DeviceFits
  <2> QED BY <1>1, <2>1 DEF LANOf
<1>2. CASE ns[n].lan.ip = None /\ found # {}
  <2>1. First(found) \in Address
    <3>1. found \subseteq Address /\ found \subseteq Nat /\ found # {}
      BY <1>2, LANsAreNumbers, AddressesAreNumbers
    <3> HIDE DEF found
    <3> QED BY <3>1, Smallest
  <2>2. LANOf(ns, cs, n, taken) = [ip |-> First(found), net |-> [ip |-> First(found), capacity |-> 255]]
    BY <1>2 DEF LANOf
  <2> HIDE DEF found
  <2> QED BY <2>1, <2>2, ThereAreLANs DEF Subnet
<1>3. CASE ns[n].lan.ip = None /\ found = {}
  BY <1>3 DEF LANOf
<1> QED BY <1>1, <1>2, <1>3

\* A function that takes the first n NAT gateways.
Opens(f, ns, cs, nats, taken, n) ==
  f = [i \in 1 .. n |-> LANOf(ns, cs, nats[i], taken \cup {f[j].ip : j \in 1 .. (i - 1)})]

LEMMA OpensExists ==
  ASSUME NEW ns, NEW cs, NEW nats, NEW taken
  PROVE  \A n \in Nat : \E f : Opens(f, ns, cs, nats, taken, n)
<1> DEFINE S == {n \in Nat : \E f : Opens(f, ns, cs, nats, taken, n)}
<1>1. 0 \in S
  <2>1. Opens([i \in 1 .. 0 |-> None], ns, cs, nats, taken, 0)
    BY DEF Opens
  <2> QED BY <2>1
<1>2. ASSUME NEW n \in Nat, n \in S PROVE n + 1 \in S
  <2>1. PICK f : Opens(f, ns, cs, nats, taken, n)
    BY <1>2
  <2> DEFINE Step(h, i) == LANOf(ns, cs, nats[i], taken \cup {h[j].ip : j \in 1 .. (i - 1)})
             g == [i \in 1 .. n + 1 |-> IF i \in 1 .. n THEN f[i] ELSE Step(f, n + 1)]
  <2>2. \A i \in 1 .. n : g[i] = f[i]
    OBVIOUS
  <2>3. \A i \in 1 .. n : f[i] = Step(f, i)
    BY <2>1 DEF Opens
  <2>4. ASSUME NEW i \in 1 .. n + 1 PROVE Step(f, i) = Step(g, i)
    <3>1. \A j \in 1 .. (i - 1) : j \in 1 .. n
      OBVIOUS
    <3>2. {f[j].ip : j \in 1 .. (i - 1)} = {g[j].ip : j \in 1 .. (i - 1)}
      <4> HIDE DEF g
      <4> QED BY <2>2, <3>1
    <3> QED BY <3>2
  <2>5. \A i \in 1 .. n + 1 : g[i] = Step(g, i)
    <3>1. g[n + 1] = Step(f, n + 1)
      OBVIOUS
    <3>2. \A i \in 1 .. n + 1 : i \in 1 .. n \/ i = n + 1
      OBVIOUS
    <3>3. \A i \in 1 .. n + 1 : g[i] = Step(f, i)
      <4> HIDE DEF g, Step
      <4> QED BY <2>2, <2>3, <3>1, <3>2
    <3> HIDE DEF g, Step
    <3> QED BY <2>4, <3>3
  <2>6. g = [i \in 1 .. n + 1 |-> g[i]]
    OBVIOUS
  <2>7. Opens(g, ns, cs, nats, taken, n + 1)
    <3>1. g = [i \in 1 .. n + 1 |-> Step(g, i)]
      <4> HIDE DEF g, Step
      <4> QED BY <2>5, <2>6
    <3> HIDE DEF g
    <3> QED BY <3>1 DEF Opens
  <2> QED BY <2>7
<1> HIDE DEF S
<1>3. Nat \subseteq S
  BY <1>1, <1>2, Counting
<1> QED BY <1>3 DEF S

LEMMA LANsAreNumbered ==
  ASSUME NEW ns, NEW cs, BuildFits(ns, cs), NEW i \in 1 .. Cardinality(NATsOf(ns))
  PROVE  nextNATLAN(ns, cs)[i] \in [ip : Address \cup {None}, net : Subnet \cup {None}]
<1> DEFINE nats == natGateways(ns)
           taken == {ns[n].ip : n \in DOMAIN ns} \cup {ns[n].lan.ip : n \in DOMAIN ns}
                    \cup UNION {{ns[n].ports[h].ip : h \in portGateways(ns, n)} : n \in DOMAIN ns}
           lan == nextNATLAN(ns, cs)
<1>1. lan = CHOOSE f : Opens(f, ns, cs, nats, taken, Len(nats))
  BY DEF nextNATLAN, Opens
<1>2. /\ nats \in [1 .. Cardinality(NATsOf(ns)) -> NATsOf(ns)]
      /\ Cardinality(NATsOf(ns)) \in Nat
  BY TheGateways DEF natGateways, NATsOf
<1>3. Len(nats) = Cardinality(NATsOf(ns))
  <2>1. nats \in Seq(NATsOf(ns))
    BY <1>2
  <2> HIDE DEF nats
  <2> QED BY <1>2, <2>1
<1>4. Opens(lan, ns, cs, nats, taken, Len(nats))
  <2> HIDE DEF lan, nats, taken
  <2> QED BY <1>1, <1>2, <1>3, OpensExists
<1>5. lan[i] = LANOf(ns, cs, nats[i], taken \cup {lan[j].ip : j \in 1 .. (i - 1)})
  <2> HIDE DEF lan, nats, taken
  <2> QED BY <1>3, <1>4 DEF Opens
<1>6. nats[i] \in DOMAIN ns
  BY <1>2 DEF NATsOf
<1> HIDE DEF lan, nats, taken
<1>7. lan[i] \in [ip : Address \cup {None}, net : Subnet \cup {None}]
  BY <1>5, <1>6, LANIsNumbered
<1> QED BY <1>7 DEF lan

LEMMA GatewaysNumbered ==
  ASSUME NEW ns, NEW cs, BuildFits(ns, cs), NEW i \in DOMAIN Gateways(ns, cs)
  PROVE  i \in Nat /\ Numbered(Gateways(ns, cs)[i])
<1> DEFINE a == Cardinality(RoutersOf(ns))
           b == Cardinality(NATsOf(ns))
           c == Cardinality(PortsOf(ns))
           routers == InOrder(RoutersOf(ns), ByRank)
           nats == InOrder(NATsOf(ns), ByRank)
           ports == InOrder(PortsOf(ns), ByPort)
<1>1. /\ a \in Nat /\ b \in Nat /\ c \in Nat
      /\ DOMAIN Gateways(ns, cs) = 1 .. (a + b + c)
      /\ \A j \in 1 .. a : Gateways(ns, cs)[j] = RouterEntry(ns, routers[j]) /\ routers[j] \in DOMAIN ns
      /\ \A j \in 1 .. b : /\ Gateways(ns, cs)[a + j] = LANEntry(ns, nats[j], nextNATLAN(ns, cs)[j])
                           /\ nextNATLAN(ns, cs)[j] \in [ip : Address \cup {None}, net : Subnet \cup {None}]
      /\ \A j \in 1 .. c : Gateways(ns, cs)[a + b + j] = PortEntry(ns, ports[j]) /\ ports[j] \in PortsOf(ns)
  <2>1. /\ a \in Nat /\ b \in Nat /\ c \in Nat
        /\ routers \in [1 .. a -> RoutersOf(ns)] /\ ports \in [1 .. c -> PortsOf(ns)]
    BY TheGateways
  <2>2. /\ DOMAIN Gateways(ns, cs) = 1 .. (a + b + c)
        /\ \A j \in 1 .. a : Gateways(ns, cs)[j] = RouterEntry(ns, routers[j])
        /\ \A j \in 1 .. b : Gateways(ns, cs)[a + j] = LANEntry(ns, nats[j], nextNATLAN(ns, cs)[j])
        /\ \A j \in 1 .. c : Gateways(ns, cs)[a + b + j] = PortEntry(ns, ports[j])
    BY GatewayList
  <2>3. \A j \in 1 .. b : nextNATLAN(ns, cs)[j] \in [ip : Address \cup {None}, net : Subnet \cup {None}]
    BY LANsAreNumbered
  <2>4. \A j \in 1 .. a : routers[j] \in DOMAIN ns
    <3> HIDE DEF routers
    <3> QED BY <2>1 DEF RoutersOf
  <2>5. \A j \in 1 .. c : ports[j] \in PortsOf(ns)
    <3> HIDE DEF ports
    <3> QED BY <2>1
  <2> HIDE DEF a, b, c, routers, nats, ports
  <2> QED BY <2>1, <2>2, <2>3, <2>4, <2>5
<1> HIDE DEF a, b, c, routers, nats, ports
<1>2. \/ i \in 1 .. a
      \/ i - a \in 1 .. b /\ a + (i - a) = i
      \/ (i - a) - b \in 1 .. c /\ a + b + ((i - a) - b) = i
  BY <1>1
<1>3. ASSUME NEW j \in 1 .. a, i = j PROVE Numbered(Gateways(ns, cs)[i])
  <2>1. ns[routers[j]].ip \in Address \cup {None} /\ ns[routers[j]].mask \in Capacities \cup {None}
    BY <1>1 DEF BuildFits, DeviceFits
  <2>2. Gateways(ns, cs)[i] = RouterEntry(ns, routers[j])
    BY <1>1, <1>3
  <2>3. Numbered(RouterEntry(ns, routers[j]))
    BY <2>1, AddressesAssumption DEF RouterEntry, Numbered, Subnet
  <2> QED BY <2>2, <2>3
<1>4. ASSUME NEW j \in 1 .. b, i = a + j PROVE Numbered(Gateways(ns, cs)[i])
  <2>1. Gateways(ns, cs)[i] = LANEntry(ns, nats[j], nextNATLAN(ns, cs)[j])
    BY <1>1, <1>4
  <2>2. Numbered(LANEntry(ns, nats[j], nextNATLAN(ns, cs)[j]))
    BY <1>1 DEF LANEntry, Numbered
  <2> QED BY <2>1, <2>2
<1>5. ASSUME NEW j \in 1 .. c, i = a + b + j PROVE Numbered(Gateways(ns, cs)[i])
  <2>1. ports[j][1] \in DOMAIN ns /\ ports[j][2] \in DOMAIN ns[ports[j][1]].ports
    BY <1>1 DEF PortsOf, portGateways
  <2>2. ns[ports[j][1]].ports[ports[j][2]] \in [ip : Address, net : Subnet, dhcp : BOOLEAN]
    BY <2>1 DEF BuildFits, DeviceFits
  <2>3. Gateways(ns, cs)[i] = PortEntry(ns, ports[j])
    BY <1>1, <1>5
  <2>4. Numbered(PortEntry(ns, ports[j]))
    BY <2>2 DEF PortEntry, Numbered
  <2> QED BY <2>3, <2>4
<1>6. Numbered(Gateways(ns, cs)[i])
  BY <1>2, <1>3, <1>4, <1>5
<1> QED BY <1>1, <1>6

\* So are those of its subnets.
LEMMA SubnetsAreNumbers ==
  ASSUME NEW req, NEW i \in GatewayIndex(req), i \in Nat, Numbered(req.gateways[i])
  PROVE  /\ GatewayIP(req, i) \in Address
         /\ SubnetOf(req, i)[1] \in Address /\ SubnetOf(req, i)[2] \in Capacities
         /\ SubnetOf(req, i)[2] \in Nat /\ SubnetOf(req, i)[1] + SubnetOf(req, i)[2] < Whole
<1> DEFINE net == req.gateways[i].net
           ip == GatewayIP(req, i)
           k == NetworkOf(net.ip, net.capacity)
           l == NetworkOf(ip, 255)
<1>1. ip \in Address
  <2>1. (256 * i + 1) % Whole \in 0 .. (Whole - 1)
    <3>1. 256 * i + 1 \in Nat
      OBVIOUS
    <3> QED BY <3>1, ThereAreLANs
  <2> QED BY <2>1 DEF GatewayIP, Wrap, Numbered, Address
<1>2. \/ SubnetOf(req, i) = <<k, net.capacity>> /\ net # None
      \/ SubnetOf(req, i) = <<l, 255>>
  BY DEF SubnetOf
<1>3. net # None => /\ k \in Address /\ net.capacity \in Capacities
                    /\ net.capacity \in Nat /\ k + net.capacity < Whole
  <2>1. net # None => net.ip \in Address /\ net.capacity \in Capacities
    BY DEF Numbered, Subnet
  <2> QED BY <2>1, Aligned
<1>4. l \in Address /\ 255 \in Capacities /\ l + 255 < Whole
  <2> HIDE DEF ip
  <2> QED BY <1>1, Aligned, ThereAreLANs
<1> DEFINE s == SubnetOf(req, i)
<1> HIDE DEF ip, k, l, s
<1>5. \/ s[1] = k /\ s[2] = net.capacity /\ net # None
      \/ s[1] = l /\ s[2] = 255
  <2> HIDE DEF net
  <2> QED BY <1>2 DEF s
<1>6. s[1] \in Address /\ s[2] \in Capacities /\ s[2] \in Nat /\ s[1] + s[2] < Whole
  <2> HIDE DEF net
  <2> QED BY <1>3, <1>4, <1>5
<1> QED BY <1>1, <1>6 DEF s, ip

LEMMA AsksWell ==
  ASSUME NEW ns, NEW cs, BuildFits(ns, cs)
  PROVE  WellAsked(planIPAM(ns, cs))
<1> DEFINE req == planIPAM(ns, cs)
<1>1. /\ req.gateways = Gateways(ns, cs) /\ DOMAIN req.nodes = DOMAIN ns
      /\ DOMAIN req.guests = UNION {virtualIPAMGuests(ns[n]) : n \in DOMAIN ns}
  BY DEF planIPAM
<1>2. \A g \in DOMAIN req.guests : g \in Ids /\ TypeOf[g] = "guest"
  BY <1>1 DEF virtualIPAMGuests, BuildFits, DeviceFits
<1>3. \A n \in DOMAIN req.nodes : n \in Ids /\ TypeOf[n] # "guest"
  BY <1>1 DEF BuildFits
<1>4. GatewayIndex(req) \subseteq Nat
  BY <1>1, GatewaysNumbered DEF GatewayIndex
<1> HIDE DEF req
<1>5. WellAsked(req)
  BY <1>2, <1>3, <1>4 DEF WellAsked, Entities, Devices, Guests
<1> QED BY <1>5 DEF req

-----------------------------------------------------------------------------
(* A build that is edited stays one.                                        *)

LEMMA ChangeFits ==
  ASSUME BuildFits(nodes, cables), NEW n \in DOMAIN nodes, NEW d, DeviceFits(d),
         \A g \in DOMAIN d.guests : g \in DOMAIN nodes[n].guests \/ g \notin Running,
         Change(n, d)
  PROVE  BuildFits(nodes, cables)'
<1>1. nodes' = [nodes EXCEPT ![n] = d] /\ cables' = cables
  BY DEF Change
<1>2. DOMAIN nodes' = DOMAIN nodes /\ \A m \in DOMAIN nodes : nodes'[m] = IF m = n THEN d ELSE nodes[m]
  BY <1>1
<1>3. \A m \in DOMAIN nodes : m # n => DOMAIN d.guests \cap DOMAIN nodes[m].guests = {}
  BY DEF BuildFits, Running
<1>4. \A l, m \in DOMAIN nodes : l # m => DOMAIN nodes'[l].guests \cap DOMAIN nodes'[m].guests = {}
  BY <1>2, <1>3 DEF BuildFits
<1>5. \A m \in DOMAIN nodes : DeviceFits(nodes'[m])
  BY <1>2 DEF BuildFits
<1> QED BY <1>1, <1>2, <1>4, <1>5 DEF BuildFits

\* A device stays one when a setting or its guests change.
LEMMA ChangeOfSetting ==
  ASSUME BuildFits(nodes, cables), NEW n \in DOMAIN nodes, NEW x, NEW y,
         \/ Change(n, [nodes[n] EXCEPT !.nat = x]) \/ Change(n, [nodes[n] EXCEPT !.dhcp = x])
         \/ Change(n, [nodes[n] EXCEPT !.virtual = x])
         \/ (x \in Address \cup {None} /\ Change(n, [nodes[n] EXCEPT !.ip = x, !.locked = y]))
  PROVE  BuildFits(nodes, cables)'
<1>1. DeviceFits(nodes[n])
  BY DEF BuildFits
<1>2. ASSUME NEW d, DeviceFits(d), d.guests = nodes[n].guests, Change(n, d)
      PROVE  BuildFits(nodes, cables)'
  BY <1>2, ChangeFits
<1> DEFINE d == nodes[n]
           d1 == [d EXCEPT !.nat = x]      d2 == [d EXCEPT !.dhcp = x]
           d3 == [d EXCEPT !.virtual = x]  d4 == [d EXCEPT !.ip = x, !.locked = y]
<1>3. /\ DeviceFits(d1) /\ d1.guests = d.guests /\ DeviceFits(d2) /\ d2.guests = d.guests
      /\ DeviceFits(d3) /\ d3.guests = d.guests
      /\ x \in Address \cup {None} => DeviceFits(d4) /\ d4.guests = d.guests
  <2>1. DeviceFits(d)
    BY <1>1
  <2> HIDE DEF d
  <2> QED BY <2>1 DEF DeviceFits, Settings
<1>4. \/ Change(n, d1) \/ Change(n, d2) \/ Change(n, d3)
      \/ (x \in Address \cup {None} /\ Change(n, d4))
  OBVIOUS
<1> HIDE DEF d1, d2, d3, d4
<1> QED BY <1>2, <1>3, <1>4

LEMMA ChangeOfGuests ==
  ASSUME BuildFits(nodes, cables), NEW n \in DOMAIN nodes, NEW x, NEW y,
         \A g \in DOMAIN x : g \in Ids /\ TypeOf[g] = "guest" /\ DOMAIN x[g] = {"ip", "static"},
         \A g \in DOMAIN x : g \in DOMAIN nodes[n].guests \/ g \notin Running,
         \/ Change(n, [nodes[n] EXCEPT !.guests = x])
         \/ Change(n, [nodes[n] EXCEPT !.guests = x, !.virtual = y])
  PROVE  BuildFits(nodes, cables)'
<1>1. DeviceFits(nodes[n])
  BY DEF BuildFits
<1>2. ASSUME NEW d, DeviceFits(d), d.guests = x, Change(n, d)
      PROVE  BuildFits(nodes, cables)'
  BY <1>2, ChangeFits
<1> DEFINE d == nodes[n]
           d1 == [d EXCEPT !.guests = x]  d2 == [d EXCEPT !.guests = x, !.virtual = y]
<1>3. DeviceFits(d1) /\ d1.guests = x /\ DeviceFits(d2) /\ d2.guests = x
  <2>1. DeviceFits(d)
    BY <1>1
  <2> HIDE DEF d
  <2> QED BY <2>1 DEF DeviceFits, Settings
<1>4. Change(n, d1) \/ Change(n, d2)
  OBVIOUS
<1> HIDE DEF d1, d2
<1> QED BY <1>2, <1>3, <1>4

LEMMA EditFits ==
  ASSUME BuildFits(nodes, cables), Edit
  PROVE  BuildFits(nodes, cables)'
<1>0. \A n \in DOMAIN nodes : DeviceFits(nodes[n])
  BY DEF BuildFits
<1>1. ASSUME NEW n \in DOMAIN nodes, NEW a \in Typed \cup {None}, setNodeIP(n, a)
      PROVE  BuildFits(nodes, cables)'
  <2>1. a \in Address \cup {None} /\ None \in Address \cup {None}
    BY AddressesAssumption
  <2>2. PICK x, y : /\ x \in Address \cup {None}
                   /\ Change(n, [nodes[n] EXCEPT !.ip = x, !.locked = y])
    <3>1. CASE a = None
      BY <1>1, <2>1, <3>1 DEF setNodeIP
    <3>2. CASE a # None
      <4>1. Change(n, [nodes[n] EXCEPT !.ip = a, !.locked = nodes[n].locked \/ ~RealGateway(n)])
        BY <1>1, <3>2 DEF setNodeIP
      <4> QED BY <2>1, <4>1
    <3> QED BY <3>1, <3>2
  <2> QED BY <2>2, ChangeOfSetting
<1>2. ASSUME NEW n \in DOMAIN nodes, SetNAT(n) \/ SetDHCP(n)
      PROVE  BuildFits(nodes, cables)'
  <2>1. PICK x : Change(n, [nodes[n] EXCEPT !.nat = x]) \/ Change(n, [nodes[n] EXCEPT !.dhcp = x])
    BY <1>2 DEF SetNAT, SetDHCP
  <2> QED BY <2>1, ChangeOfSetting
<1>3. ASSUME NEW n \in DOMAIN nodes, removeNode(n)
      PROVE  BuildFits(nodes, cables)'
  <2>1. /\ DOMAIN nodes' = DOMAIN nodes \ {n} /\ \A m \in DOMAIN nodes \ {n} : nodes'[m] = nodes[m]
        /\ cables' = {c \in cables : n \notin {c.s, c.t}}
    BY <1>3 DEF removeNode
  <2>2. IsFiniteSet(DOMAIN nodes')
    BY <2>1, FS_Subset DEF BuildFits
  <2> QED BY <2>1, <2>2 DEF BuildFits
<1>4. ASSUME NEW n \in Hosts, openVirtualNetwork(n) \/ \E l \in VirtualLinks(n) : updateVirtualNetwork(n, l)
      PROVE  BuildFits(nodes, cables)'
  <2>1. n \in DOMAIN nodes
    BY DEF Hosts
  <2>2. PICK x : Change(n, [nodes[n] EXCEPT !.virtual = x])
    BY <1>4 DEF openVirtualNetwork, updateVirtualNetwork
  <2> QED BY <2>1, <2>2, ChangeOfSetting
<1>5. ASSUME NEW n \in Hosts, NEW g \in Ids, NEW linked \in BOOLEAN, TypeOf[g] = "guest", addVM(n, g, linked)
      PROVE  BuildFits(nodes, cables)'
  <2>1. n \in DOMAIN nodes /\ g \notin Running
    BY <1>5 DEF Hosts, addVM
  <2> DEFINE x == With(nodes[n].guests, g, [ip |-> None, static |-> None])
  <2>2. PICK y : Change(n, [nodes[n] EXCEPT !.guests = x, !.virtual = y])
    BY <1>5 DEF addVM
  <2>3. DOMAIN x = DOMAIN nodes[n].guests \cup {g}
    BY DEF With
  <2>4. \A h \in DOMAIN x : h \in Ids /\ TypeOf[h] = "guest" /\ DOMAIN x[h] = {"ip", "static"}
    BY <1>0, <1>5, <2>1 DEF With, DeviceFits
  <2> HIDE DEF x
  <2> QED BY <2>1, <2>2, <2>3, <2>4, ChangeOfGuests
<1>6. ASSUME NEW n \in Hosts, NEW g \in DOMAIN nodes[n].guests, removeVM(n, g)
      PROVE  BuildFits(nodes, cables)'
  <2>1. n \in DOMAIN nodes
    BY DEF Hosts
  <2> DEFINE x == [h \in DOMAIN nodes[n].guests \ {g} |-> nodes[n].guests[h]]
  <2>2. PICK y : Change(n, [nodes[n] EXCEPT !.guests = x, !.virtual = y])
    BY <1>6 DEF removeVM
  <2>3. \A h \in DOMAIN x : h \in Ids /\ TypeOf[h] = "guest" /\ DOMAIN x[h] = {"ip", "static"}
    BY <1>0, <2>1 DEF DeviceFits
  <2>4. DOMAIN x \subseteq DOMAIN nodes[n].guests
    OBVIOUS
  <2> HIDE DEF x
  <2> QED BY <2>1, <2>2, <2>3, <2>4, ChangeOfGuests
<1>7. ASSUME NEW n \in Hosts, NEW g \in DOMAIN nodes[n].guests, NEW a, SetStaticIP(n, g, a)
      PROVE  BuildFits(nodes, cables)'
  <2>1. n \in DOMAIN nodes
    BY DEF Hosts
  <2> DEFINE x == [nodes[n].guests EXCEPT ![g] = [ip |-> a, static |-> a]]
  <2>2. Change(n, [nodes[n] EXCEPT !.guests = x])
    BY <1>7 DEF SetStaticIP
  <2>3. \A h \in DOMAIN x : h \in Ids /\ TypeOf[h] = "guest" /\ DOMAIN x[h] = {"ip", "static"}
    BY <1>0, <2>1 DEF DeviceFits
  <2>4. DOMAIN x = DOMAIN nodes[n].guests
    OBVIOUS
  <2> HIDE DEF x
  <2> QED BY <2>1, <2>2, <2>3, <2>4, ChangeOfGuests
<1>8. ASSUME NEW c \in Cabling, Cable(c) PROVE BuildFits(nodes, cables)'
  <2>1. {c.s, c.t} \subseteq DOMAIN nodes /\ nodes' = nodes /\ cables' \subseteq cables \cup {c}
    BY <1>8 DEF Cable
  <2> QED BY <2>1 DEF BuildFits
<1> QED BY <1>1, <1>2, <1>3, <1>4, <1>5, <1>6, <1>7, <1>8 DEF Edit

\* What a subnet has to give are addresses.
LEMMA HomesAreNumbers ==
  ASSUME BuildFits(nodes, cables), request = planIPAM(nodes, cables), plan = Prepared(request),
         NEW n \in DOMAIN plan.owner
  PROVE  /\ plan.owner[n][1] \in Nat /\ plan.owner[n][2] \in Nat
         /\ Usable(plan.owner[n]) \subseteq Address
<1>1. request.gateways = Gateways(nodes, cables) /\ plan.owner = Owners(request)
  BY DEF planIPAM, Prepared
<1>2. GatewayIndex(request) = DOMAIN Gateways(nodes, cables)
  BY <1>1 DEF GatewayIndex
<1>3. \A i \in GatewayIndex(request) : i \in Nat /\ Numbered(request.gateways[i])
  BY <1>1, <1>2, GatewaysNumbered
<1>4. PICK i \in GatewayIndex(request) : plan.owner[n] = SubnetOf(request, i)
  BY <1>1, <1>3, OwnersAreSubnets DEF SubnetKeys
<1> DEFINE k == plan.owner[n]
<1>5. k[1] \in Address /\ k[2] \in Nat /\ k[1] + k[2] < Whole
  BY <1>3, <1>4, SubnetsAreNumbers
<1>6. Usable(k) = (k[1] + 1) .. (k[1] + k[2] - 1)
  BY DEF Usable
<1>7. Usable(k) \subseteq Address /\ k[1] \in Nat
  <2> DEFINE u == k[1]
             v == k[2]
  <2>1. u \in Nat /\ v \in Nat /\ u + v < Whole
    BY <1>5, AddressesAreNumbers
  <2>2. Usable(k) = (u + 1) .. (u + v - 1)
    BY <1>6
  <2> HIDE DEF u, v
  <2>3. Usable(k) \subseteq Address
    BY <2>1, <2>2, ThereAreLANs DEF Address
  <2> QED BY <2>1, <2>3 DEF u
<1> HIDE DEF k
<1> QED BY <1>5, <1>7 DEF k

\* What a save writes back is a build again.
LEMMA WrittenFits ==
  ASSUME BuildFits(nodes, cables), request = planIPAM(nodes, cables), plan = Prepared(request), BInv
  PROVE  BuildFits(Written, cables)
<1>1. request.gateways = Gateways(nodes, cables) /\ GatewayIndex(request) = DOMAIN Gateways(nodes, cables)
  BY DEF planIPAM, GatewayIndex
<1>2. \A i \in GatewayIndex(request) :
        /\ i \in Nat /\ GatewayIP(request, i) \in Address
        /\ SubnetOf(request, i)[1] \in Address /\ SubnetOf(request, i)[2] \in Capacities
  <2>1. \A i \in GatewayIndex(request) : i \in Nat /\ Numbered(request.gateways[i])
    BY <1>1, GatewaysNumbered
  <2> QED BY <2>1, SubnetsAreNumbers
<1>3. ASSUME NEW n \in DOMAIN nodes PROVE NewIP(n) \in Address \cup {None}
  <2>1. CASE RealGateway(n)
    <3> DEFINE own == {i \in GatewayIndex(request) : request.gateways[i].id = <<n, "self">>}
    <3>1. own # {}
      <4>1. n \in RoutersOf(nodes)
        BY <2>1 DEF RoutersOf
      <4>2. PICK i \in 1 .. Cardinality(RoutersOf(nodes)) : InOrder(RoutersOf(nodes), ByRank)[i] = n
        BY <4>1, TheGateways
      <4>3. i \in DOMAIN Gateways(nodes, cables)
        BY GatewayList, TheGateways
      <4>4. Gateways(nodes, cables)[i] = RouterEntry(nodes, n)
        BY <4>2, GatewayList
      <4> QED BY <1>1, <4>3, <4>4 DEF RouterEntry
    <3>2. First(own) \in own
      <4>1. own \subseteq Nat
        BY <1>2
      <4> HIDE DEF own
      <4> QED BY <3>1, <4>1, Smallest
    <3>3. NewIP(n) = GatewayIP(request, First(own))
      BY <2>1 DEF NewIP
    <3> QED BY <1>2, <3>2, <3>3
  <2>2. CASE ~RealGateway(n) /\ n \in DOMAIN assigned
    <3>1. assigned[n] \in Usable(Home(n)) /\ Host(request, n) \in DOMAIN plan.owner
      BY <2>2 DEF BInv, IInv, Held, Holds, Served
    <3>2. Usable(Home(n)) \subseteq Address
      BY <3>1, HomesAreNumbers DEF Home
    <3> QED BY <2>2, <3>1, <3>2 DEF NewIP
  <2>3. CASE ~RealGateway(n) /\ n \notin DOMAIN assigned
    BY <2>3 DEF NewIP, BuildFits, DeviceFits
  <2> QED BY <2>1, <2>2, <2>3
<1>4. ASSUME NEW n \in DOMAIN nodes
      PROVE  NewLAN(n) \in [ip : Address \cup {None}, net : Subnet \cup {None}]
  <2> DEFINE opened == {i \in GatewayIndex(request) : request.gateways[i].id = <<n, "lan">>}
  <2>1. CASE opened # {}
    <3>1. First(opened) \in opened
      <4>1. opened \subseteq Nat
        BY <1>2
      <4> HIDE DEF opened
      <4> QED BY <2>1, <4>1, Smallest
    <3> DEFINE i == First(opened)
    <3>2. NewLAN(n) = [ip |-> GatewayIP(request, i),
                       net |-> [ip |-> SubnetOf(request, i)[1], capacity |-> SubnetOf(request, i)[2]]]
      BY <2>1 DEF NewLAN
    <3> HIDE DEF i
    <3>3. i \in GatewayIndex(request)
      BY <3>1 DEF i
    <3> QED BY <1>2, <3>2, <3>3 DEF Subnet
  <2>2. CASE opened = {} /\ TypeOf[n] \in {"server_v2", "vps"}
    BY <2>2 DEF NewLAN
  <2>3. CASE opened = {} /\ TypeOf[n] \notin {"server_v2", "vps"}
    BY <2>3 DEF NewLAN, BuildFits, DeviceFits
  <2> QED BY <2>1, <2>2, <2>3
<1>5. ASSUME NEW n \in DOMAIN nodes
      PROVE  /\ DOMAIN NewGuests(n) = DOMAIN nodes[n].guests
             /\ \A g \in DOMAIN NewGuests(n) : DOMAIN NewGuests(n)[g] = DOMAIN nodes[n].guests[g]
  BY DEF NewGuests
<1>6. ASSUME NEW n \in DOMAIN nodes
      PROVE  DeviceFits(Written[n]) /\ DOMAIN Written[n].guests = DOMAIN nodes[n].guests
  <2> DEFINE d == nodes[n]
             w == [d EXCEPT !.ip = NewIP(n), !.lan = NewLAN(n), !.guests = NewGuests(n)]
  <2>1. DeviceFits(d)
    BY DEF BuildFits
  <2>2. /\ DOMAIN w = Settings /\ w.ip = NewIP(n) /\ w.lan = NewLAN(n) /\ w.guests = NewGuests(n)
        /\ w.mask = d.mask /\ w.ports = d.ports
    BY <2>1 DEF DeviceFits, Settings
  <2>3. Written[n] = w
    BY DEF Written
  <2> HIDE DEF w
  <2> QED BY <1>3, <1>4, <1>5, <2>1, <2>2, <2>3 DEF DeviceFits
<1>7. DOMAIN Written = DOMAIN nodes
  BY DEF Written
<1> HIDE DEF Written
<1> QED BY <1>6, <1>7 DEF BuildFits

-----------------------------------------------------------------------------
(* Saves and edits in turn.                                                 *)

\* While a save is answered, what it asked for is what the build says.
Asked == stage # "idle" => request = planIPAM(nodes, cables) /\ plan = Prepared(request)

EInv == BInv /\ Pins /\ BuildFits(nodes, cables) /\ Asked

LEMMA EditIsQuiet ==
  ASSUME Edit
  PROVE  stage = "idle" /\ UNCHANGED alloc /\ saves' = 0
<1>1. Edited => stage = "idle" /\ UNCHANGED alloc /\ saves' = 0
  BY DEF Edited
<1>2. \A n, d : Change(n, d) => Edited
  BY DEF Change
<1>3. \A n : (\E a : setNodeIP(n, a)) \/ SetNAT(n) \/ SetDHCP(n) \/ removeNode(n) => Edited
  BY <1>2 DEF setNodeIP, SetNAT, SetDHCP, removeNode
<1>4. \A n : openVirtualNetwork(n) \/ (\E l : updateVirtualNetwork(n, l)) => Edited
  BY <1>2 DEF openVirtualNetwork, updateVirtualNetwork
<1>5. \A n, g : (\E linked : addVM(n, g, linked)) \/ removeVM(n, g) \/ (\E a : SetStaticIP(n, g, a)) => Edited
  BY <1>2 DEF addVM, removeVM, SetStaticIP
<1>6. \A c : Cable(c) => Edited
  BY DEF Cable
<1> QED BY <1>1, <1>3, <1>4, <1>5, <1>6 DEF Edit

LEMMA AllocatingAnswersOne ==
  ASSUME Allocating
  PROVE  /\ UNCHANGED <<request, plan>>
         /\ stage \in {"reserve", "infra", "hosts"} /\ stage' # "idle"
BY DEF Allocating, preReserveExisting, AssignInfra, AssignHost, AssignGuest, CloseBlock, NextStage

LEMMA StepsServe ==
  ASSUME EInv, [Next]_vars
  PROVE  [Serving]_alloc
<1>1. ASSUME StartSave PROVE Serving
  <2>1. WellAsked(planIPAM(nodes, cables)) /\ Begin(planIPAM(nodes, cables))
    BY <1>1, AsksWell DEF StartSave, EInv
  <2> QED BY <2>1 DEF Serving
<1>2. ASSUME Edit PROVE UNCHANGED alloc
  BY <1>2, EditIsQuiet
<1>3. ASSUME UNCHANGED vars PROVE UNCHANGED alloc
  BY <1>3 DEF vars, alloc
<1> QED BY <1>1, <1>2, <1>3 DEF Next, Serving, FinishSave, RefuseSave

LEMMA EditsGood ==
  ASSUME EInv, [Next]_vars
  PROVE  EInv'
<1>1. BInv' /\ Pins'
  BY StepsServe, PinsNext, NextGood, BlocksNext DEF EInv, BInv
<1>2. CASE Edit
  BY <1>1, <1>2, EditFits, EditIsQuiet DEF EInv, Asked, alloc
<1>3. CASE StartSave
  <2>1. nodes' = nodes /\ cables' = cables /\ request' = planIPAM(nodes, cables)
        /\ plan' = Prepared(request')
    BY <1>3 DEF StartSave, Begin, build
  <2>2. BuildFits(nodes, cables)'
    BY <2>1 DEF EInv
  <2> QED BY <1>1, <2>1, <2>2 DEF EInv, Asked
<1>4. CASE Allocating /\ UNCHANGED <<build, saves>>
  <2>1. nodes' = nodes /\ cables' = cables /\ UNCHANGED <<request, plan>> /\ stage # "idle"
    BY <1>4, AllocatingAnswersOne DEF build
  <2>2. BuildFits(nodes, cables)'
    BY <2>1 DEF EInv
  <2> QED BY <1>1, <2>1, <2>2 DEF EInv, Asked
<1>5. CASE FinishSave
  <2>1. nodes' = Written /\ cables' = cables /\ stage' = "idle" /\ stage = "answered"
    BY <1>5 DEF FinishSave, Answer
  <2>2. BuildFits(Written, cables)
    BY <2>1, WrittenFits DEF EInv, Asked
  <2>3. BuildFits(nodes', cables')
    BY <2>1, <2>2
  <2> QED BY <1>1, <2>1, <2>3 DEF EInv, Asked
<1>6. CASE RefuseSave
  <2>1. nodes' = nodes /\ cables' = cables /\ stage' = "idle"
    BY <1>6 DEF RefuseSave, Answer, build
  <2>2. BuildFits(nodes, cables)'
    BY <2>1 DEF EInv
  <2> QED BY <1>1, <2>1, <2>2 DEF EInv, Asked
<1>7. CASE UNCHANGED vars
  <2>1. nodes' = nodes /\ cables' = cables /\ UNCHANGED <<request, plan, stage>>
    BY <1>7 DEF vars
  <2>2. BuildFits(nodes, cables)'
    BY <2>1 DEF EInv
  <2> QED BY <1>1, <2>1, <2>2 DEF EInv, Asked
<1> QED BY <1>2, <1>3, <1>4, <1>5, <1>6, <1>7 DEF Next

LEMMA EditsBegin == Init => EInv
<1>1. ASSUME Init PROVE BInv /\ Pins /\ Asked
  <2>1. BInv
    BY <1>1, InitGood DEF Init, BInv, Blocks, AllocatorInit
  <2>2. Served = {}
    BY <1>1 DEF Init, AllocatorInit, Served, Nobody
  <2> QED BY <1>1, <2>1, <2>2 DEF Init, AllocatorInit, Pins, Asked
<1>2. ASSUME Init PROVE BuildFits(nodes, cables)
  BY <1>2, AddressesAssumption DEF Init
<1> QED BY <1>1, <1>2 DEF EInv

-----------------------------------------------------------------------------
(* Pinned addresses.                                                        *)

\* Only a router opens a gateway as itself.
LEMMA RouterOpensItself ==
  ASSUME NEW ns, NEW cs, BuildFits(ns, cs), NEW i \in DOMAIN Gateways(ns, cs), NEW n,
         Gateways(ns, cs)[i].id = <<n, "self">>
  PROVE  Gateways(ns, cs)[i] = RouterEntry(ns, n)
<1> DEFINE a == Cardinality(RoutersOf(ns))
           b == Cardinality(NATsOf(ns))
           c == Cardinality(PortsOf(ns))
           routers == InOrder(RoutersOf(ns), ByRank)
           nats == InOrder(NATsOf(ns), ByRank)
           ports == InOrder(PortsOf(ns), ByPort)
<1>1. /\ a \in Nat /\ b \in Nat /\ c \in Nat
      /\ i \in 1 .. (a + b + c)
      /\ \A j \in 1 .. a : Gateways(ns, cs)[j] = RouterEntry(ns, routers[j])
      /\ \A j \in 1 .. b : Gateways(ns, cs)[a + j] = LANEntry(ns, nats[j], nextNATLAN(ns, cs)[j])
      /\ \A j \in 1 .. c : Gateways(ns, cs)[a + b + j] = PortEntry(ns, ports[j])
      /\ ports \in [1 .. c -> PortsOf(ns)]
  BY GatewayList, TheGateways
<1> HIDE DEF a, b, c, routers, nats, ports
<1>2. \/ i \in 1 .. a
      \/ i - a \in 1 .. b /\ a + (i - a) = i
      \/ (i - a) - b \in 1 .. c /\ a + b + ((i - a) - b) = i
  BY <1>1
<1>3. ASSUME NEW j \in 1 .. b, i = a + j PROVE FALSE
  <2>1. Gateways(ns, cs)[i] = LANEntry(ns, nats[j], nextNATLAN(ns, cs)[j])
    BY <1>1, <1>3
  <2>2. Gateways(ns, cs)[i].id = <<nats[j], "lan">>
    BY <2>1, EntriesAreNamed
  <2> QED BY <2>2
<1>4. ASSUME NEW j \in 1 .. c, i = a + b + j PROVE FALSE
  <2>0. Gateways(ns, cs)[i] = PortEntry(ns, ports[j]) /\ ports[j] \in PortsOf(ns)
    BY <1>1, <1>4
  <2>1. Gateways(ns, cs)[i].id = ports[j] /\ ports[j] \in PortsOf(ns)
    BY <2>0, EntriesAreNamed
  <2>2. ports[j][2] \in Ports
    BY <2>1 DEF PortsOf
  <2>3. ports[j] = <<n, "self">>
    BY <2>1
  <2>4. "self" \in Ports
    BY <2>2, <2>3
  <2> QED BY <2>4, AddressesAssumption
<1>5. i \in 1 .. a
  BY <1>2, <1>3, <1>4
<1>6. Gateways(ns, cs)[i] = RouterEntry(ns, routers[i])
  BY <1>1, <1>5
<1>7. routers[i] = n
  BY <1>6 DEF RouterEntry
<1> QED BY <1>6, <1>7

LEMMA PinsHold ==
  ASSUME EInv, [Next]_vars, stage = "answered", NEW n \in DOMAIN nodes,
         nodes[n].locked, ~NATGateway(nodes, n), n \in Served,
         nodes[n].ip \in Usable(Home(n)) \ plan.subnets[Home(n)].pool,
         \A f \in Served \ {n} : Home(f) = Home(n) => Existing(request, f) # nodes[n].ip,
         nodes[n].ip \notin plan.gateways[Home(n)]
  PROVE  nodes'[n].ip = nodes[n].ip
<1> DEFINE a == nodes[n].ip
<1>1. /\ request = planIPAM(nodes, cables) /\ BuildFits(nodes, cables)
      /\ DOMAIN request.nodes = DOMAIN nodes
  BY DEF EInv, Asked, planIPAM
<1>2. n \in Devices(request) /\ n \notin Guests(request) /\ Host(request, n) = n
  BY <1>1 DEF Devices, Host, EInv, BInv, IInv, WellFormed
<1>3. Existing(request, n) = a
  <2>1. Existing(request, n) = ExistingIP(nodes, cables, n) /\ request.nodes[n].type = TypeOf[n]
    BY <1>1, <1>2 DEF Existing, planIPAM
  <2>2. TypeOf[n] \notin NonNetworkTypes
    BY <1>2, <2>1 DEF Served, Networked
  <2> QED BY <2>1, <2>2 DEF ExistingIP
<1>4. n \in DOMAIN plan.owner /\ Home(n) = plan.owner[n]
  BY <1>2 DEF Served, Home
<1>5. Home(n)[1] \in Nat /\ Home(n)[2] \in Nat
  BY <1>1, <1>4, HomesAreNumbers DEF EInv, Asked
<1>6. a \in Int /\ a # Home(n)[1] /\ a # Home(n)[1] + Home(n)[2] /\ a # None
  BY <1>5, AddressesAssumption DEF Usable
<1>7. Unrivalled(n)
  BY <1>2, <1>3, <1>6 DEF Unrivalled
<1>8. n \in DOMAIN assigned /\ assigned[n] = a
  BY <1>3, <1>7 DEF EInv, Pins, Settled, Given
<1>9. NewIP(n) = a
  <2>1. CASE ~RealGateway(n)
    BY <1>8, <2>1 DEF NewIP
  <2>2. CASE RealGateway(n)
    <3> DEFINE own == {i \in GatewayIndex(request) : request.gateways[i].id = <<n, "self">>}
    <3>1. /\ request.gateways = Gateways(nodes, cables)
          /\ GatewayIndex(request) = DOMAIN Gateways(nodes, cables)
      BY <1>1 DEF planIPAM, GatewayIndex
    <3>2. own # {}
      <4>1. n \in RoutersOf(nodes)
        BY <2>2 DEF RoutersOf
      <4>2. PICK i \in 1 .. Cardinality(RoutersOf(nodes)) : InOrder(RoutersOf(nodes), ByRank)[i] = n
        BY <1>1, <4>1, TheGateways
      <4>3. i \in DOMAIN Gateways(nodes, cables) /\ Gateways(nodes, cables)[i] = RouterEntry(nodes, n)
        BY <1>1, <4>2, GatewayList, TheGateways
      <4> QED BY <3>1, <4>3 DEF RouterEntry
    <3>3. own \subseteq Nat
      BY <1>1, <3>1, GatewaysNumbered
    <3>4. First(own) \in own
      <4> HIDE DEF own
      <4> QED BY <3>2, <3>3, Smallest
    <3> DEFINE i == First(own)
    <3>5. NewIP(n) = GatewayIP(request, i)
      BY <2>2 DEF NewIP
    <3> HIDE DEF i
    <3>6. i \in GatewayIndex(request) /\ request.gateways[i].id = <<n, "self">>
      BY <3>4 DEF i
    <3>7. request.gateways[i].ip = a
      BY <1>1, <3>1, <3>6, RouterOpensItself DEF RouterEntry
    <3> QED BY <1>6, <3>5, <3>7 DEF GatewayIP
  <2> QED BY <2>1, <2>2
<1>10. CASE FinishSave
  <2>1. nodes' = Written
    BY <1>10 DEF FinishSave
  <2>2. "ip" \in DOMAIN nodes[n]
    BY <1>1 DEF BuildFits, DeviceFits, Settings
  <2>3. Written[n].ip = NewIP(n)
    BY <2>2 DEF Written
  <2> QED BY <1>9, <2>1, <2>3
<1>11. CASE RefuseSave \/ UNCHANGED vars
  BY <1>11 DEF RefuseSave, build, vars
<1>12. ~Edit /\ ~StartSave /\ ~Allocating
  BY EditIsQuiet, AllocatingAnswersOne DEF StartSave, Begin
<1> QED BY <1>10, <1>11, <1>12 DEF Next

-----------------------------------------------------------------------------
(* Addresses of guests.                                                     *)

\* What a gateway reaches is found from these alone.
Reaching(gateways, links, devices, networked, from) ==
  LET Enters(a, b) == /\ b \notin gateways /\ b[1] \in devices /\ b[2] = "self"
                      /\ ~(a = from /\ from[2] # "self" /\ b[1] = from[1])
      Passes(e) == e = from \/ e[1] \in networked
      reached[k \in Nat] ==
        IF k = 0 THEN {from}
        ELSE LET so == reached[k - 1]
             IN  so \cup {p[2] : p \in {q \in links : q[1] \in so /\ Passes(q[1])
                                                           /\ Enters(q[1], q[2])}}
  IN  {e[1] : e \in reached[Cardinality(devices)] \ {from}}

LEMMA ReachIs ==
  ASSUME NEW req, NEW i
  PROVE  Reach(req, i) =
           Reaching({req.gateways[j].id : j \in GatewayIndex(req)}, Links(req), Devices(req),
                    {n \in Devices(req) : Networked(req, n)}, req.gateways[i].id)
BY DEF Reach, Reaching

\* Two builds with the same cables between devices of the same roles.
Alike(ns, nw) ==
  /\ DOMAIN nw = DOMAIN ns
  /\ \A n \in DOMAIN ns :
       /\ nw[n].nat = ns[n].nat /\ nw[n].routing = ns[n].routing /\ nw[n].dhcp = ns[n].dhcp
       /\ nw[n].wan = ns[n].wan /\ nw[n].ports = ns[n].ports /\ nw[n].virtual = ns[n].virtual
       /\ DOMAIN nw[n].guests = DOMAIN ns[n].guests

LEMMA RolesAlike ==
  ASSUME NEW ns, NEW nw, Alike(ns, nw), NEW n \in DOMAIN ns
  PROVE  /\ NATGateway(nw, n) = NATGateway(ns, n)
         /\ UpstreamAnchor(nw, n) = UpstreamAnchor(ns, n)
         /\ portGateways(nw, n) = portGateways(ns, n)
         /\ virtualIPAMGuests(nw[n]) = virtualIPAMGuests(ns[n])
BY DEF Alike, NATGateway, UpstreamAnchor, portGateways, virtualIPAMGuests, Network

LEMMA EndsAlike ==
  ASSUME NEW ns, NEW nw, Alike(ns, nw), NEW c, {c.s, c.t} \subseteq DOMAIN ns
  PROVE  Ends(nw, c) = Ends(ns, c)
<1>1. /\ NATGateway(nw, c.s) = NATGateway(ns, c.s) /\ NATGateway(nw, c.t) = NATGateway(ns, c.t)
      /\ UpstreamAnchor(nw, c.s) = UpstreamAnchor(ns, c.s)
      /\ UpstreamAnchor(nw, c.t) = UpstreamAnchor(ns, c.t)
      /\ portGateways(nw, c.s) = portGateways(ns, c.s)
      /\ portGateways(nw, c.t) = portGateways(ns, c.t)
  BY RolesAlike
<1> QED BY <1>1 DEF Ends

LEMMA NeighboursAlike ==
  ASSUME NEW ns, NEW nw, NEW cs, Alike(ns, nw), BuildFits(ns, cs), NEW e
  PROVE  Neighbours(nw, cs, e) = Neighbours(ns, cs, e)
<1>1. \A c \in cs : Ends(nw, c) = Ends(ns, c)
  BY EndsAlike DEF BuildFits
<1> QED BY <1>1 DEF Neighbours

LEMMA GatewaysAlike ==
  ASSUME NEW ns, NEW nw, NEW cs, Alike(ns, nw), BuildFits(ns, cs), BuildFits(nw, cs)
  PROVE  /\ DOMAIN Gateways(nw, cs) = DOMAIN Gateways(ns, cs)
         /\ \A i \in DOMAIN Gateways(ns, cs) : Gateways(nw, cs)[i].id = Gateways(ns, cs)[i].id
<1> DEFINE a == Cardinality(RoutersOf(ns))
           b == Cardinality(NATsOf(ns))
           c == Cardinality(PortsOf(ns))
           routers == InOrder(RoutersOf(ns), ByRank)
           nats == InOrder(NATsOf(ns), ByRank)
           ports == InOrder(PortsOf(ns), ByPort)
<1>1. RoutersOf(nw) = RoutersOf(ns) /\ NATsOf(nw) = NATsOf(ns) /\ PortsOf(nw) = PortsOf(ns)
  <2>1. DOMAIN nw = DOMAIN ns
    BY DEF Alike
  <2> QED BY <2>1, RolesAlike DEF RoutersOf, NATsOf, PortsOf
<1>2. /\ a \in Nat /\ b \in Nat /\ c \in Nat
      /\ DOMAIN Gateways(ns, cs) = 1 .. (a + b + c)
      /\ \A j \in 1 .. a : Gateways(ns, cs)[j] = RouterEntry(ns, routers[j])
      /\ \A j \in 1 .. b : Gateways(ns, cs)[a + j] = LANEntry(ns, nats[j], nextNATLAN(ns, cs)[j])
      /\ \A j \in 1 .. c : Gateways(ns, cs)[a + b + j] = PortEntry(ns, ports[j])
  BY GatewayList, TheGateways
<1>3. /\ DOMAIN Gateways(nw, cs) = 1 .. (a + b + c)
      /\ \A j \in 1 .. a : Gateways(nw, cs)[j] = RouterEntry(nw, routers[j])
      /\ \A j \in 1 .. b : Gateways(nw, cs)[a + j] = LANEntry(nw, nats[j], nextNATLAN(nw, cs)[j])
      /\ \A j \in 1 .. c : Gateways(nw, cs)[a + b + j] = PortEntry(nw, ports[j])
  BY <1>1, GatewayList
<1> HIDE DEF a, b, c, routers, nats, ports
<1>4. ASSUME NEW i \in 1 .. (a + b + c)
      PROVE  Gateways(nw, cs)[i].id = Gateways(ns, cs)[i].id
  <2>1. \/ i \in 1 .. a
        \/ i - a \in 1 .. b /\ a + (i - a) = i
        \/ (i - a) - b \in 1 .. c /\ a + b + ((i - a) - b) = i
    BY <1>2
  <2>2. CASE i \in 1 .. a
    <3>1. Gateways(nw, cs)[i] = RouterEntry(nw, routers[i]) /\ Gateways(ns, cs)[i] = RouterEntry(ns, routers[i])
      BY <1>2, <1>3, <2>2
    <3> QED BY <3>1, EntriesAreNamed
  <2>3. ASSUME NEW j \in 1 .. b, i = a + j PROVE Gateways(nw, cs)[i].id = Gateways(ns, cs)[i].id
    <3>1. /\ Gateways(nw, cs)[i] = LANEntry(nw, nats[j], nextNATLAN(nw, cs)[j])
          /\ Gateways(ns, cs)[i] = LANEntry(ns, nats[j], nextNATLAN(ns, cs)[j])
      BY <1>2, <1>3, <2>3
    <3> QED BY <3>1, EntriesAreNamed
  <2>4. ASSUME NEW j \in 1 .. c, i = a + b + j PROVE Gateways(nw, cs)[i].id = Gateways(ns, cs)[i].id
    <3>1. /\ Gateways(nw, cs)[i] = PortEntry(nw, ports[j])
          /\ Gateways(ns, cs)[i] = PortEntry(ns, ports[j])
      BY <1>2, <1>3, <2>4
    <3> QED BY <3>1, EntriesAreNamed
  <2>5. CASE i - a \in 1 .. b /\ a + (i - a) = i
    BY <2>3, <2>5
  <2>6. CASE (i - a) - b \in 1 .. c /\ a + b + ((i - a) - b) = i
    BY <2>4, <2>6
  <2> QED BY <2>1, <2>2, <2>5, <2>6
<1> QED BY <1>2, <1>3, <1>4

\* The same devices have a subnet.
LEMMA OwnersAlike ==
  ASSUME NEW ns, NEW nw, NEW cs, Alike(ns, nw), BuildFits(ns, cs), BuildFits(nw, cs)
  PROVE  DOMAIN Owners(planIPAM(nw, cs)) = DOMAIN Owners(planIPAM(ns, cs))
<1> DEFINE r == planIPAM(ns, cs)
           w == planIPAM(nw, cs)
<1>1. /\ r.gateways = Gateways(ns, cs) /\ DOMAIN r.nodes = DOMAIN ns
      /\ \A n \in DOMAIN ns : /\ r.nodes[n].links = Neighbours(ns, cs, <<n, "self">>)
                              /\ r.nodes[n].type = TypeOf[n]
  BY DEF planIPAM
<1>2. /\ w.gateways = Gateways(nw, cs) /\ DOMAIN w.nodes = DOMAIN nw
      /\ \A n \in DOMAIN nw : /\ w.nodes[n].links = Neighbours(nw, cs, <<n, "self">>)
                              /\ w.nodes[n].type = TypeOf[n]
  BY DEF planIPAM
<1> HIDE DEF r, w
<1>3. DOMAIN nw = DOMAIN ns
  BY DEF Alike
<1>4. Devices(w) = Devices(r)
  BY <1>1, <1>2, <1>3 DEF Devices
<1>5. {n \in Devices(w) : Networked(w, n)} = {n \in Devices(r) : Networked(r, n)}
  BY <1>1, <1>2, <1>3, <1>4 DEF Networked, Devices
<1>6. \A n \in Devices(r) : w.nodes[n].links = r.nodes[n].links
  <2>1. \A e : Neighbours(nw, cs, e) = Neighbours(ns, cs, e)
    BY NeighboursAlike
  <2>2. ASSUME NEW n \in DOMAIN ns PROVE w.nodes[n].links = r.nodes[n].links
    BY <1>1, <1>2, <1>3, <2>1
  <2>3. Devices(r) = DOMAIN ns
    BY <1>1 DEF Devices
  <2> QED BY <2>2, <2>3
<1>7. Links(w) = Links(r)
  <2>1. {p \in Devices(w) \X Endpoint : p[2] \in w.nodes[p[1]].links}
          = {p \in Devices(r) \X Endpoint : p[2] \in r.nodes[p[1]].links}
    BY <1>4, <1>6
  <2> QED BY <2>1 DEF Links
<1>8. GatewayIndex(w) = GatewayIndex(r) /\ \A i \in GatewayIndex(r) : w.gateways[i].id = r.gateways[i].id
  BY <1>1, <1>2, GatewaysAlike DEF GatewayIndex
<1>9. {w.gateways[j].id : j \in GatewayIndex(w)} = {r.gateways[j].id : j \in GatewayIndex(r)}
  BY <1>8
<1>10. \A i \in GatewayIndex(r) : Reach(w, i) = Reach(r, i)
  BY <1>4, <1>5, <1>7, <1>8, <1>9, ReachIs
<1>11. DOMAIN Owners(w) = UNION {Reach(w, i) : i \in GatewayIndex(w)}
  BY DEF Owners
<1>12. DOMAIN Owners(r) = UNION {Reach(r, i) : i \in GatewayIndex(r)}
  BY DEF Owners
<1>13. DOMAIN Owners(w) = DOMAIN Owners(r)
  BY <1>8, <1>10, <1>11, <1>12
<1> QED BY <1>13 DEF r, w

LEMMA WrittenAlike ==
  ASSUME BuildFits(nodes, cables)
  PROVE  Alike(nodes, Written)
<1>1. ASSUME NEW n \in DOMAIN nodes
      PROVE  /\ Written[n].nat = nodes[n].nat /\ Written[n].routing = nodes[n].routing
             /\ Written[n].dhcp = nodes[n].dhcp /\ Written[n].wan = nodes[n].wan
             /\ Written[n].ports = nodes[n].ports /\ Written[n].virtual = nodes[n].virtual
             /\ Written[n].guests = NewGuests(n)
  <2> DEFINE d == nodes[n]
             w == [d EXCEPT !.ip = NewIP(n), !.lan = NewLAN(n), !.guests = NewGuests(n)]
  <2>1. DOMAIN d = Settings
    BY DEF BuildFits, DeviceFits
  <2>2. Written[n] = w
    BY DEF Written
  <2> HIDE DEF d
  <2>3. /\ w.nat = d.nat /\ w.routing = d.routing /\ w.dhcp = d.dhcp /\ w.wan = d.wan
        /\ w.ports = d.ports /\ w.virtual = d.virtual /\ w.guests = NewGuests(n)
    BY <2>1 DEF Settings
  <2> HIDE DEF w
  <2> QED BY <2>2, <2>3 DEF d
<1>2. \A n \in DOMAIN nodes : DOMAIN NewGuests(n) = DOMAIN nodes[n].guests
  BY DEF NewGuests
<1>3. DOMAIN Written = DOMAIN nodes
  BY DEF Written
<1> HIDE DEF Written, NewGuests
<1> QED BY <1>1, <1>2, <1>3 DEF Alike

LEMMA GuestsAreReached ==
  ASSUME EInv, [Next]_vars, GuestsNeedAnUplink
  PROVE  GuestsNeedAnUplink'
<1>1. CASE FinishSave
  <2>1. /\ nodes' = Written /\ cables' = cables /\ stage = "answered"
    BY <1>1 DEF FinishSave, Answer
  <2>2. /\ request = planIPAM(nodes, cables) /\ plan.owner = Owners(request)
        /\ BuildFits(nodes, cables) /\ BuildFits(Written, cables)
    <3>1. request = planIPAM(nodes, cables) /\ plan = Prepared(request) /\ BuildFits(nodes, cables)
      BY <2>1 DEF EInv, Asked
    <3>2. BuildFits(Written, cables)
      BY <3>1, WrittenFits DEF EInv
    <3> QED BY <3>1, <3>2 DEF Prepared
  <2>3. /\ Devices(request) = DOMAIN nodes
        /\ Guests(request) = UNION {virtualIPAMGuests(nodes[n]) : n \in DOMAIN nodes}
        /\ \A g \in Guests(request) :
             request.guests[g].host = CHOOSE n \in DOMAIN nodes : g \in DOMAIN nodes[n].guests
    BY <2>2 DEF Devices, Guests, planIPAM
  <2>4. ASSUME NEW n \in DOMAIN nodes, NEW g \in DOMAIN nodes[n].guests, NewGuests(n)[g].ip # None
        PROVE  g \in virtualIPAMGuests(nodes[n]) /\ n \in DOMAIN Owners(request)
    <3>1. "ip" \in DOMAIN nodes[n].guests[g] /\ TypeOf[g] = "guest"
      BY <2>2 DEF BuildFits, DeviceFits
    <3>2. g \in DOMAIN assigned
      BY <2>4, <3>1 DEF NewGuests
    <3>3. g \in Entities(request) /\ Host(request, g) \in DOMAIN plan.owner
      BY <3>2 DEF EInv, BInv, IInv, Held, Holds, Served
    <3>4. g \in Guests(request)
      <4>1. g \notin DOMAIN nodes
        BY <2>2, <3>1 DEF BuildFits
      <4> QED BY <2>3, <3>3, <4>1 DEF Entities
    <3>5. PICK m \in DOMAIN nodes : g \in virtualIPAMGuests(nodes[m])
      BY <2>3, <3>4
    <3>6. g \in DOMAIN nodes[m].guests
      BY <3>5 DEF virtualIPAMGuests
    <3>7. \A h \in DOMAIN nodes : g \in DOMAIN nodes[h].guests => h = n
      BY <2>2 DEF BuildFits
    <3>8. m = n /\ Host(request, g) = n
      BY <2>3, <3>4, <3>6, <3>7 DEF Host
    <3> QED BY <2>2, <3>3, <3>5, <3>8
  <2>5. /\ DOMAIN Written = DOMAIN nodes
        /\ \A n \in DOMAIN nodes : /\ Written[n].guests = NewGuests(n)
                                   /\ DOMAIN Written[n].guests = DOMAIN nodes[n].guests
                                   /\ virtualIPAMGuests(Written[n]) = virtualIPAMGuests(nodes[n])
        /\ DOMAIN Owners(planIPAM(Written, cables)) = DOMAIN Owners(request)
    <3>1. Alike(nodes, Written)
      BY <2>2, WrittenAlike
    <3>2. \A n \in DOMAIN nodes : virtualIPAMGuests(Written[n]) = virtualIPAMGuests(nodes[n])
      BY <3>1, RolesAlike
    <3>3. DOMAIN Owners(planIPAM(Written, cables)) = DOMAIN Owners(request)
      BY <2>2, <3>1, OwnersAlike
    <3>4. ASSUME NEW n \in DOMAIN nodes PROVE Written[n].guests = NewGuests(n)
      <4>1. "guests" \in DOMAIN nodes[n]
        BY <2>2 DEF BuildFits, DeviceFits, Settings
      <4> QED BY <4>1 DEF Written
    <3> QED BY <3>1, <3>2, <3>3, <3>4 DEF Alike
  <2>6. \A n \in DOMAIN Written : \A g \in DOMAIN Written[n].guests :
          Written[n].guests[g].ip # None =>
             /\ g \in virtualIPAMGuests(Written[n])
             /\ n \in DOMAIN Owners(planIPAM(Written, cables))
    BY <2>4, <2>5
  <2>7. \A n \in DOMAIN nodes' : \A g \in DOMAIN nodes'[n].guests :
          nodes'[n].guests[g].ip # None =>
             /\ g \in virtualIPAMGuests(nodes'[n])
             /\ n \in DOMAIN Owners(planIPAM(nodes', cables'))
    BY <2>1, <2>6
  <2> QED BY <2>7 DEF GuestsNeedAnUplink
<1>2. CASE Edit
  BY <1>2, EditIsQuiet DEF GuestsNeedAnUplink
<1>3. CASE RefuseSave
  <2>1. saves' = MaxSaves /\ ~(MaxSaves < MaxSaves)
    BY <1>3, AddressesAssumption DEF RefuseSave
  <2> QED BY <2>1 DEF GuestsNeedAnUplink
<1>4. CASE StartSave \/ Allocating
  BY <1>4, AllocatingAnswersOne DEF GuestsNeedAnUplink, StartSave, Begin
<1>5. CASE UNCHANGED vars
  <2>1. nodes' = nodes /\ cables' = cables /\ UNCHANGED <<saves, stage>>
    BY <1>5 DEF vars
  <2>2. planIPAM(nodes, cables)' = planIPAM(nodes, cables)
    BY <2>1
  <2> QED BY <2>1, <2>2 DEF GuestsNeedAnUplink
<1> QED BY <1>1, <1>2, <1>3, <1>4, <1>5 DEF Next

-----------------------------------------------------------------------------
(* The theorems.                                                            *)

LEMMA Invariant == AllocatorSpec => []BInv /\ [][Serving]_alloc
<1>1. AllocatorInit => BInv
  BY InitGood DEF BInv, Blocks, AllocatorInit
<1>2. BInv /\ [Serving]_alloc => BInv'
  BY NextGood, BlocksNext DEF BInv
<1>3. [AllocatorNext]_alloc => [Serving]_alloc
  BY RequestsAreWellAsked DEF AllocatorNext, Serving
<1> QED BY <1>1, <1>2, <1>3, PTL DEF AllocatorSpec

LEMMA Apart == BInv => AddressesAreApart
BY DEF BInv, IInv, Held, Holds, AddressesAreApart

LEMMA Safe == BInv => AddressesAreSafe
<1>1. ASSUME BInv, NEW e \in DOMAIN assigned
      PROVE  /\ assigned[e] \in Usable(Home(e)) \ plan.subnets[Home(e)].pool
             /\ assigned[e] \notin plan.gateways[Home(e)]
  <2>1. Holds(e, assigned[e]) /\ e # None /\ Home(e) \in DOMAIN used
    BY <1>1, HomesAreSubnets DEF BInv, IInv, Held
  <2> QED BY <1>1, <2>1 DEF Holds, BInv, IInv, GatewaysTaken
<1> QED BY <1>1 DEF AddressesAreSafe

LEMMA BlocksAreKept ==
  ASSUME BInv, [Serving]_alloc
  PROVE  [stage = "hosts" =>
            \A e \in DOMAIN assigned' \ DOMAIN assigned : \A n \in DOMAIN assigned :
               /\ IsHost(n) /\ Host(request, e) # n /\ Home(n) = Home(e)
               /\ e \notin DOMAIN accepted
               => assigned'[e] \notin assigned[n] .. BlockEnd(n)]_alloc
<1>1. ASSUME stage = "hosts",
             NEW e \in DOMAIN assigned' \ DOMAIN assigned, NEW n \in DOMAIN assigned,
             IsHost(n), Host(request, e) # n, Home(n) = Home(e), e \notin DOMAIN accepted
      PROVE  assigned'[e] \notin assigned[n] .. BlockEnd(n)
  <2>1. ASSUME n # host, NEW a, IsAvailable(Home(e), a), assigned'[e] = a
        PROVE  assigned'[e] \notin assigned[n] .. BlockEnd(n)
    <3>1. Closed(n) /\ assigned[n] \in used[Home(n)] /\ assigned[n] \in Usable(Home(n))
      BY <1>1, <2>1, HomesAreSubnets DEF BInv, Blocks, IInv, Held, Holds
    <3>2. a \notin used[Home(n)] /\ a \notin plan.subnets[Home(n)].pool
      BY <1>1, <2>1 DEF IsAvailable, IsDHCPReserved
    <3>3. a # assigned[n] /\ a \notin (assigned[n] + 1) .. BlockEnd(n)
      BY <3>1, <3>2 DEF Closed
    <3>4. assigned[n] \in Int
      BY <3>1 DEF Usable
    <3> QED BY <2>1, <3>3, <3>4
  <2>2. n # None
    BY <1>1, HomesAreSubnets DEF BInv
  <2>3. ASSUME NEW m \in left, AssignHost(m) PROVE assigned'[e] \notin assigned[n] .. BlockEnd(n)
    <3>1. host = None /\ m = e
      BY <1>1, <2>3 DEF AssignHost, With
    <3>2. \E a \in AllocateSlot(Home(e), offset[Home(e)]) : assigned' = With(assigned, e, a)
      BY <1>1, <2>3, <3>1 DEF AssignHost
    <3>3. PICK a : IsAvailable(Home(e), a) /\ assigned'[e] = a
      BY <3>2, SlotsAreFree DEF With
    <3> QED BY <2>1, <2>2, <3>1, <3>3
  <2>4. ASSUME NEW g \in left, AssignGuest(g) PROVE assigned'[e] \notin assigned[n] .. BlockEnd(n)
    <3>1. g = e /\ host # n
      BY <1>1, <2>4 DEF AssignGuest, With, GuestsOf, Host
    <3>2. \E a : IsAvailable(Home(e), a) /\ assigned' = With(assigned, e, a)
      BY <1>1, <2>4, <3>1, SlotsAreFree DEF AssignGuest
    <3> QED BY <2>1, <3>1, <3>2 DEF With
  <2> QED BY <1>1, <2>3, <2>4 DEF Serving, Allocating, alloc, Begin, Answer, CloseBlock,
             NextStage, preReserveExisting, AssignInfra
<1> QED BY <1>1

\* For any network: no two devices or guests of a subnet are given one
\* address (Allocate).
THEOREM GivenOnce == AllocatorSpec => []AddressesAreApart
BY Apart, Invariant, PTL

\* For any network: what is given is usable, not leased and no gateway's
\* ("avoids DHCP range overlaps", README:30).
THEOREM GivenSafely == AllocatorSpec => []AddressesAreSafe
BY Safe, Invariant, PTL

\* For any network: nobody is put into the block of another host
\* (allocateDomain).
THEOREM BlocksAreForGuests == AllocatorSpec => BlocksStayClosed
BY BlocksAreKept, Invariant, PTL DEF BlocksStayClosed

LEMMA EditsInvariant == Spec => []EInv /\ [][Serving]_alloc /\ []GuestsNeedAnUplink
<1>1. Init => EInv
  BY EditsBegin
<1>2. Init => GuestsNeedAnUplink
  BY DEF Init, GuestsNeedAnUplink
<1>3. EInv /\ [Next]_vars => EInv'
  BY EditsGood
<1>4. EInv /\ [Next]_vars => [Serving]_alloc
  BY StepsServe
<1>5. EInv /\ [Next]_vars /\ GuestsNeedAnUplink => GuestsNeedAnUplink'
  BY GuestsAreReached
<1> QED BY <1>1, <1>2, <1>3, <1>4, <1>5, PTL DEF Spec

\* Every build that edits and saves make is well-formed, its addresses are
\* as wide as they may be, and what is kept or given is taken in its subnet.
THEOREM AddressesTypeCorrect == Spec => []AddressesTypeOK
<1>1. ASSUME BInv, NEW e, NEW a, Holds(e, a) PROVE a \in used[Home(e)]
  BY <1>1 DEF Holds, Served, Home, BInv, IInv, Taken
<1>2. EInv => AddressesTypeOK
  BY <1>1 DEF EInv, BInv, IInv, Held, AddressesTypeOK
<1> QED BY <1>2, EditsInvariant, PTL

\* However a build is edited between its saves, no address of a subnet is
\* given twice (planIPAM, Allocate).
THEOREM EditedGivenOnce == Spec => []AddressesAreApart
<1>1. EInv => AddressesAreApart
  BY Apart DEF EInv
<1> QED BY <1>1, EditsInvariant, PTL

\* However a build is edited, what its devices and guests are given is
\* usable, not leased and no gateway's (planIPAM, Allocate).
THEOREM EditedGivenSafely == Spec => []AddressesAreSafe
<1>1. EInv => AddressesAreSafe
  BY Safe DEF EInv
<1> QED BY <1>1, EditsInvariant, PTL

\* However a build is edited, nobody is put into the block of another host
\* (allocateDomain).
THEOREM EditedBlocksAreForGuests == Spec => BlocksStayClosed
<1>1. EInv => BInv
  BY DEF EInv
<1> QED BY <1>1, BlocksAreKept, EditsInvariant, PTL DEF BlocksStayClosed

\* For any build, any edits and any saves: a guest has an address after a
\* save only if its network reaches its host and its host a router, also
\* with the addresses the save itself has written (CalculateNetwork,
\* virtualIPAMGuests).
THEOREM GuestsAreOnTheNetwork == Spec => []GuestsNeedAnUplink
BY EditsInvariant, PTL

\* For any build, any edits and any saves: a pinned address survives the
\* next save where it is usable, unleased, no gateway's and asked for by
\* nobody else of its subnet (preReserveExisting, CalculateNetwork).
THEOREM PinnedSurvive == Spec => PinnedStay
<1>1. EInv /\ [Next]_vars =>
        [stage = "answered" => \A n \in DOMAIN nodes :
           LET a == nodes[n].ip
               others == {Existing(request, e) : e \in {f \in Served \ {n} : Home(f) = Home(n)}}
           IN  /\ nodes[n].locked /\ ~NATGateway(nodes, n) /\ n \in Served
               /\ a \in Usable(Home(n)) \ plan.subnets[Home(n)].pool
               /\ a \notin others \cup plan.gateways[Home(n)]
               => nodes'[n].ip = a]_vars
  BY PinsHold
<1> QED BY <1>1, EditsInvariant, PTL DEF Spec, PinnedStay
=============================================================================
