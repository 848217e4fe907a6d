------------------------------- MODULE Import -------------------------------
(***************************************************************************)
(* The import of a Proxmox cluster into a project: proxmox_import.go with   *)
(* the comparison of proxmox/reconcile.go.                                  *)
(*                                                                          *)
(* An import compares the last reading of the cluster with the devices of a *)
(* build, turns what the owner ticked into topology operations and proposes *)
(* them; the owner applies or declines the proposal later.  Meanwhile the   *)
(* cluster moves on, the build is edited and items of the inventory are     *)
(* linked to hosts.  An import reads in one step (Prepare) and proposes in  *)
(* another (Propose): nothing is locked in between.                         *)
(*                                                                          *)
(* Data: a guest's figures (cores, memory, state) are one `size`, 0 where   *)
(* the plan sets none; a device's figures are its memory.  Names stand for  *)
(* what NormalizeName leaves of them.  Real addresses are left out.         *)
(***************************************************************************)
EXTENDS Integers, Sequences, FiniteSets, SequencesExt

CONSTANTS
    HostOrder,       \* the hosts of the cluster, sorted by name
    Vmids,           \* the ids Proxmox gives guests
    Names, Sizes,    \* what guests are called and how large they are
    Items,           \* devices of the inventory
    Memory,          \* host -> the memory it shows, in tenths of a GB
    Clusters, Plans, \* the clusters and the builds an import may start from
    HostChoices,         \* what the owner says of the hosts: host -> choice
    None, Unchosen, ChoiceNew, ChoiceSkip,
    Refused,         \* the outcome of operations that do not fit a build
    MaxVMsPerNode, MaxTopologyOps, \* maxVMsPerNode and MaxTopologyOps, scaled down
    HubPorts,        \* ports of the switch that new hosts are plugged into
    MaxChanges, MaxImports  \* bounds on what happens around the imports, and on them

Hosts == ToSet(HostOrder)

ASSUME ImportAssumption ==
    /\ None \notin Hosts \cup Names \cup Items
    /\ Vmids \subseteq Nat \ {0} /\ IsFiniteSet(Vmids)
    /\ Sizes \subseteq Nat \ {0}
    /\ Memory \in [Hosts -> Nat]
    /\ {MaxVMsPerNode, MaxTopologyOps, HubPorts, MaxChanges, MaxImports} \subseteq Nat

VARIABLES
    cluster,    \* what runs: vmid -> [host, name, size], host None when it does not
    reading,    \* the same, as the integration last read it
    plan,       \* the devices of the build that can run guests, in order
    linked,     \* item -> the host it is linked to
    importing,  \* the import between its reading and its proposal
    pending,    \* the operations of the proposal that waits for review
    raced,      \* the build changed while some import was prepared
    changes, imports

vars == <<cluster, reading, plan, linked, importing, pending, raced, changes, imports>>

Min1(S) == CHOOSE x \in S : \A y \in S : x <= y
Max1(S) == CHOOSE x \in S \cup {0} : \A y \in S : y <= x

Device == [id : Nat, name : Hosts \cup {None}, node : Hosts \cup {None},
           item : Items \cup {None}, ram : Nat, cabled : BOOLEAN,
           guests : Seq([id : Nat, name : Names, vmid : Vmids \cup {0}, size : Nat])]

DeviceIds(devices) == {devices[d].id : d \in DOMAIN devices}
GuestIds(devices) == UNION {{devices[d].guests[g].id : g \in DOMAIN devices[d].guests} : d \in DOMAIN devices}
GuestCount(devices) == FoldLeft(LAMBDA n, device : n + Len(device.guests), 0, devices)

----------------------------------------------------------------------------
(* Pairing.                                                                 *)

\* One pass over `order`: what has no partner yet takes the first of `planned`
\* that nobody has and that fits.
FirstThatFits(pairs, order, planned, by, Fits(_, _)) ==
    FoldLeft(LAMBDA found, one :
        LET free == {p \in DOMAIN planned :
                        /\ \A other \in DOMAIN found : found[other].at # p
                        /\ Fits(one, planned[p])}
        IN  IF one \in DOMAIN found \/ free = {} THEN found
            ELSE found @@ (one :> [at |-> Min1(free), by |-> by]),
        pairs, order)

\* What the owner chose comes first; a device two hosts were given is the first one's.
Chosen(nodes, planned, choices) ==
    LET Given(found, node) ==
            {p \in DOMAIN planned : /\ planned[p].id = choices[node]
                                    /\ \A other \in DOMAIN found : found[other].at # p}
    IN  FoldLeft(LAMBDA found, node :
            IF choices[node] \in {ChoiceNew, ChoiceSkip}
            THEN found @@ (node :> [at |-> 0, by |-> "choice"])
            ELSE IF Given(found, node) = {} THEN found
            ELSE found @@ (node :> [at |-> Min1(Given(found, node)), by |-> "choice"]),
            <<>>, nodes)

PairHosts(nodes, planned, itemNode, choices) ==
    LET byLink == FirstThatFits(Chosen(nodes, planned, choices), nodes, planned, "link",
                      LAMBDA node, host : host.node = node)
        byItem == FirstThatFits(byLink, nodes, planned, "inventory",
                      LAMBDA node, host : host.item # None /\ itemNode[host.item] = node)
        byName == FirstThatFits(byItem, nodes, planned, "name", LAMBDA node, host : host.name = node)
    IN  byName @@ [node \in ToSet(nodes) |-> [at |-> 0, by |-> ""]]

GuestsOn(snapshot, node) == SetToSortSeq({v \in Vmids : snapshot[v].host = node}, <)

\* Mutation: guests are found again by their names only.
MatchByName(planned, actual, snapshot) ==
    FirstThatFits(<<>>, actual, planned, "name", LAMBDA v, guest : guest.vmid = 0 /\ guest.name = snapshot[v].name)

\* Guests of a device and of its host: first by the id of an earlier import,
\* then by name, where a guest linked to another id is that other guest.
MatchGuests(planned, actual, snapshot) ==
    FirstThatFits(
        FirstThatFits(<<>>, actual, planned, "id", LAMBDA v, guest : guest.vmid = v),
        actual, planned, "name",
        LAMBDA v, guest : guest.vmid = 0 /\ guest.name = snapshot[v].name)

----------------------------------------------------------------------------
(* The comparison, and the operations it comes to.                          *)

Row(state, vmid, planned, differs, by) ==
    [state |-> state, vmid |-> vmid, planned |-> planned, differs |-> differs, by |-> by]

RowsOf(planned, snapshot, actual, match) ==
    LET Actual(v) ==
            IF v \notin DOMAIN match THEN Row("discovered", v, 0, FALSE, "")
            ELSE LET guest == planned[match[v].at]
                 IN  Row("matched", v, guest.id, guest.size \notin {0, snapshot[v].size}, match[v].by)
        missing == SelectSeq([p \in DOMAIN planned |-> p],
                             LAMBDA p : \A v \in DOMAIN match : match[v].at # p)
    IN  [i \in DOMAIN actual |-> Actual(actual[i])]
        \o [i \in DOMAIN missing |->
               Row("missing", planned[missing[i]].vmid, planned[missing[i]].id, FALSE, "")]

\* The rows of a host: its guests by id, then the planned ones it does not have.
Rows(planned, node, snapshot) ==
    RowsOf(planned, snapshot, GuestsOn(snapshot, node),
           MatchGuests(planned, GuestsOn(snapshot, node), snapshot))

\* NominalRAMGB: the memory fitted in a host, from what it shows.
NominalRAMGB(tenths) ==
    LET step == IF tenths <= 80 THEN 1 ELSE IF tenths <= 640 THEN 4
                ELSE IF tenths <= 2560 THEN 16 ELSE 32
    IN  ((tenths + 10 * step - 1) \div (10 * step)) * step

MemoryFits(tenths, nominal) == tenths * 10 >= nominal * 85 /\ tenths * 10 <= nominal * 102

LinkedItem(itemNode, node) ==
    IF \E i \in Items : itemNode[i] = node
    THEN CHOOSE i \in Items : itemNode[i] = node ELSE None

\* The memory an import writes onto a device: what is ticked and shown as another,
\* also one that rounds to what is planned already.
RamPatch(device, node, decision) ==
    IF node \in decision.specs /\ ~(device.ram > 0 /\ MemoryFits(Memory[node], device.ram))
    THEN [ram |-> NominalRAMGB(Memory[node])] ELSE <<>>

\* Mutation: the host is not written onto a device that was there before.
PatchWithoutHost(device, node, itemNode, decision) == RamPatch(device, node, decision)

\* What an import writes onto a device that is in the plan: some details, or none.
Patch(device, node, itemNode, decision) ==
    LET item == LinkedItem(itemNode, node)
    IN  RamPatch(device, node, decision)
        @@ (IF device.node # node THEN [node |-> node] ELSE <<>>)
        @@ (IF item \notin {None, device.item} THEN [item |-> item] ELSE <<>>)

\* New devices and guests get ids nothing else has: every import numbers its own.
NewId(import, n) == 10 * import + n

\* Where the guests of a host go: the device it is, or the one added for it.
DeviceOf(devices, pairs, node, import) ==
    IF pairs[node].at > 0 THEN devices[pairs[node].at].id
    ELSE NewId(import, CHOOSE i \in DOMAIN HostOrder : HostOrder[i] = node)

\* Hosts first, so their guests have somewhere to go; a new one is plugged into
\* the switch while that has a free port.
HostOps(devices, pairs, nodes, itemNode, decision, import) ==
    LET used == Cardinality({d \in DOMAIN devices : devices[d].cabled})
        New(node) == [op |-> "add_node", device |->
            [id |-> DeviceOf(devices, pairs, node, import), name |-> node, node |-> node,
             item |-> LinkedItem(itemNode, node), ram |-> NominalRAMGB(Memory[node]),
             cabled |-> FALSE, guests |-> <<>>]]
        Step(done, node) ==
            IF pairs[node].at = 0
            THEN [ops |-> done.ops \o <<New(node)>> \o
                     (IF done.free > 0
                      THEN <<[op |-> "connect", target |-> DeviceOf(devices, pairs, node, import)]>> ELSE <<>>),
                  free |-> IF done.free > 0 THEN done.free - 1 ELSE 0]
            ELSE LET device == devices[pairs[node].at]
                     patch == Patch(device, node, itemNode, decision)
                 IN  IF DOMAIN patch # {}
                     THEN [done EXCEPT !.ops =
                              Append(@, [op |-> "update_node", node |-> device.id, patch |-> patch])]
                     ELSE done
    IN  FoldLeft(Step, [ops |-> <<>>, free |-> HubPorts - used], nodes).ops

\* Mutation: every ticked guest is added, whether the host has room or not.
GuestOpsWithoutRoom(devices, pairs, node, snapshot, decision, import) ==
    LET planned == IF pairs[node].at = 0 THEN <<>> ELSE devices[pairs[node].at].guests
        Add(v) == [op |-> "add_vm", host |-> DeviceOf(devices, pairs, node, import), guest |->
            [id |-> NewId(import, v), name |-> snapshot[v].name, vmid |-> v, size |-> snapshot[v].size]]
        ticked == SelectSeq(Rows(planned, node, snapshot),
                            LAMBDA row : row.state = "discovered" /\ row.vmid \in decision.add)
    IN  [ops |-> [i \in DOMAIN ticked |-> Add(ticked[i].vmid)], links |-> <<>>, room |-> 0]

\* What becomes of the rows of one host: [ops, links, room].
GuestOps(devices, pairs, node, snapshot, decision, import) ==
    LET planned == IF pairs[node].at = 0 THEN <<>> ELSE devices[pairs[node].at].guests
        host == DeviceOf(devices, pairs, node, import)
        Add(v) == [op |-> "add_vm", host |-> host, guest |->
            [id |-> NewId(import, v), name |-> snapshot[v].name,
             vmid |-> v, size |-> snapshot[v].size]]
        Update(row, size) == [op |-> "update_vm", vm |-> row.planned, vmid |-> row.vmid, size |-> size]
        Step(done, row) ==
            CASE row.state = "missing" /\ row.planned \in decision.remove ->
                    [done EXCEPT !.ops = Append(@, [op |-> "remove_vm", vm |-> row.planned]),
                                 !.room = @ + 1]
              [] row.state = "matched" /\ row.differs /\ row.vmid \in decision.update ->
                    [done EXCEPT !.ops = Append(@, Update(row, snapshot[row.vmid].size))]
              [] row.state = "matched" /\ ~(row.differs /\ row.vmid \in decision.update)
                                       /\ row.by # "id" ->
                    [done EXCEPT !.links = Append(@, Update(row, None))]
              [] row.state = "discovered" /\ row.vmid \in decision.add /\ done.room > 0 ->
                    [done EXCEPT !.ops = Append(@, Add(row.vmid)), !.room = @ - 1]
              [] OTHER -> done
    IN  FoldLeft(Step, [ops |-> <<>>, links |-> <<>>, room |-> MaxVMsPerNode - Len(planned)],
                 Rows(planned, node, snapshot))

\* Links of guests to their ids ride along with real changes, as far as one
\* proposal has room.
RidingAlong(ops, links) ==
    LET room == IF ops = <<>> THEN 0 ELSE Max1({MaxTopologyOps - Len(ops)})
    IN  ops \o SubSeq(links, 1, Min1({room, Len(links)}))

OpsFor(devices, snapshot, itemNode, decision, import, pairs, nodes) ==
    LET Joined(hostOps, guests) ==
            RidingAlong(hostOps \o FlattenSeq([i \in DOMAIN guests |-> guests[i].ops]),
                        FlattenSeq([i \in DOMAIN guests |-> guests[i].links]))
    IN  Joined(HostOps(devices, pairs, nodes, itemNode, decision, import),
               [i \in DOMAIN nodes |-> GuestOps(devices, pairs, nodes[i], snapshot, decision, import)])

\* buildOps: the owner's decisions as a change set.
BuildOps(devices, snapshot, itemNode, choices, decision, import) ==
    OpsFor(devices, snapshot, itemNode, decision, import,
           PairHosts(HostOrder, devices, itemNode, choices),
           SelectSeq(HostOrder, LAMBDA node : choices[node] # ChoiceSkip))

----------------------------------------------------------------------------
(* What the operations do to a build: ApplyTopologyOps.                     *)

GuestAt(devices, id) ==
    {at \in (DOMAIN devices) \X (1..MaxVMsPerNode) :
        at[2] \in DOMAIN devices[at[1]].guests /\ devices[at[1]].guests[at[2]].id = id}

ApplyOp(devices, op) ==
    LET At(id) == {d \in DOMAIN devices : devices[d].id = id}
        On(id, Edit(_)) == IF At(id) = {} THEN Refused
                           ELSE [devices EXCEPT ![Min1(At(id))] = Edit(@)]
        OnGuests(id, Edit(_, _)) ==
            IF GuestAt(devices, id) = {} THEN Refused
            ELSE LET at == CHOOSE at \in GuestAt(devices, id) : TRUE
                 IN  [devices EXCEPT ![at[1]].guests = Edit(@, at[2])]
    IN  CASE devices = Refused -> Refused
          [] op.op = "add_node" -> Append(devices, op.device)
          [] op.op = "connect" ->
                IF Cardinality({d \in DOMAIN devices : devices[d].cabled}) >= HubPorts THEN Refused
                ELSE On(op.target, LAMBDA device : [device EXCEPT !.cabled = TRUE])
          [] op.op = "update_node" ->
                On(op.node, LAMBDA device : op.patch @@ device)
          [] op.op = "add_vm" ->
                IF \E d \in At(op.host) : Len(devices[d].guests) >= MaxVMsPerNode THEN Refused
                ELSE On(op.host, LAMBDA device : [device EXCEPT !.guests = Append(@, op.guest)])
          [] op.op = "update_vm" ->
                OnGuests(op.vm, LAMBDA guests, g :
                    [guests EXCEPT ![g] = [@ EXCEPT !.vmid = op.vmid,
                                                    !.size = IF op.size = None THEN @ ELSE op.size]])
          [] op.op = "remove_vm" -> OnGuests(op.vm, LAMBDA guests, g : RemoveAt(guests, g))

ApplyOps(devices, ops) ==
    IF Len(ops) > MaxTopologyOps THEN Refused ELSE FoldLeft(ApplyOp, devices, ops)

----------------------------------------------------------------------------
Nothing == [ops |-> <<>>, base |-> <<>>]

Init ==
    /\ cluster \in Clusters
    /\ reading = cluster
    /\ plan \in Plans
    /\ linked = [i \in Items |-> None]
    /\ importing = Nothing /\ pending = <<>>
    /\ raced = FALSE /\ changes = 0 /\ imports = 0

\* What the owner may tick: guests to add and to take the figures of, planned
\* guests to remove (ticks of an older comparison among them), hosts whose real
\* figures go into the plan.
Decisions ==
    {[add |-> guests, update |-> guests, remove |-> gone, specs |-> hosts] :
        guests \in {{}, Vmids}, gone \in {{}, GuestIds(plan)}, hosts \in {{}, Hosts}}

\* Something happens on the cluster: a guest is made, moves, is renamed, resized or goes.
ClusterChanges(v, to) ==
    /\ changes < MaxChanges /\ changes' = changes + 1
    /\ to # cluster[v]
    /\ cluster' = [cluster EXCEPT ![v] = to]
    /\ UNCHANGED <<reading, plan, linked, importing, pending, raced, imports>>

\* Sync, or a new export pasted: the integration reads the cluster again.
Sync ==
    /\ reading # cluster
    /\ reading' = cluster
    /\ UNCHANGED <<cluster, plan, linked, importing, pending, raced, changes, imports>>

\* LinkItem: a host has one item and an item one host.
LinkItem(item, node) ==
    /\ changes < MaxChanges /\ changes' = changes + 1
    /\ linked[item] # node
    /\ linked' = [i \in Items |-> IF i = item THEN node
                                  ELSE IF linked[i] = node THEN None ELSE linked[i]]
    /\ UNCHANGED <<cluster, reading, plan, importing, pending, raced, imports>>

PlannedByHand(devices, name, size) == [id |-> Max1(GuestIds(devices)) + 1, name |-> name, vmid |-> 0, size |-> size]

\* The owner edits the build: a guest planned by hand, one taken out, a device
\* removed, or the link of a device to its machine made or taken away.
Edited(devices) ==
    \/ \E d \in DOMAIN devices, name \in Names, size \in Sizes \cup {0} :
          /\ Len(devices[d].guests) < MaxVMsPerNode
          /\ plan' = [devices EXCEPT ![d].guests = Append(@, PlannedByHand(devices, name, size))]
    \/ \E d \in DOMAIN devices : \E g \in DOMAIN devices[d].guests :
          plan' = [devices EXCEPT ![d].guests = RemoveAt(@, g)]
    \/ \E d \in DOMAIN devices : plan' = RemoveAt(devices, d)
    \/ \E d \in DOMAIN devices :
          /\ devices[d].item # None
          /\ plan' = [devices EXCEPT ![d] = [@ EXCEPT !.node = None, !.item = None]]
    \/ \E d \in DOMAIN devices, item \in Items :
          /\ devices[d].item = None
          /\ plan' = [devices EXCEPT ![d] = [@ EXCEPT !.item = item]]

EditBuild ==
    /\ changes < MaxChanges /\ changes' = changes + 1
    /\ Edited(plan)
    /\ UNCHANGED <<cluster, reading, linked, importing, pending, raced, imports>>

\* Import up to its call of Propose: the last reading, the build and the links are
\* read and compared.  An empty change set ends it: the plan says it already.
Prepare(choices, decision) ==
    /\ importing = Nothing /\ imports < MaxImports /\ imports' = imports + 1
    /\ BuildOps(plan, reading, linked, choices, decision, imports + 1) # <<>>
    /\ importing' = [ops |-> BuildOps(plan, reading, linked, choices, decision, imports + 1), base |-> plan]
    /\ UNCHANGED <<cluster, reading, plan, linked, pending, raced, changes>>

\* DiffBuilds: what two versions of a build are compared by; the id of a guest on
\* its cluster is not shown.
Shown(devices) ==
    [d \in DOMAIN devices |->
        [devices[d] EXCEPT !.guests = [g \in DOMAIN @ |-> [@[g] EXCEPT !.vmid = 0]]]]

\* The operations fit a build, and what they make of it looks different.
Takes(devices, ops) ==
    LET after == ApplyOps(devices, ops)
    IN  after # Refused /\ Shown(after) # Shown(devices)

\* Propose reads the build again and tries the operations on it.  What it takes
\* replaces the proposal that waits; what is refused or changes nothing is told.
Propose ==
    /\ importing # Nothing
    /\ pending' = IF Takes(plan, importing.ops) THEN importing.ops ELSE pending
    /\ raced' = (raced \/ importing.base # plan)
    /\ importing' = Nothing
    /\ UNCHANGED <<cluster, reading, plan, linked, changes, imports>>

\* The owner applies the proposal: on a build that changed since, its operations
\* are tried again, and what no longer fits ends as a conflict.
Apply ==
    /\ pending # <<>>
    /\ plan' = IF ApplyOps(plan, pending) = Refused THEN plan ELSE ApplyOps(plan, pending)
    /\ pending' = <<>>
    /\ UNCHANGED <<cluster, reading, linked, importing, raced, changes, imports>>

Decline ==
    /\ pending # <<>>
    /\ pending' = <<>>
    /\ UNCHANGED <<cluster, reading, plan, linked, importing, raced, changes, imports>>

Next ==
    \/ \E v \in Vmids, to \in [host : Hosts \cup {None}, name : Names, size : Sizes] : ClusterChanges(v, to)
    \/ Sync
    \/ \E item \in Items, node \in Hosts \cup {None} : LinkItem(item, node)
    \/ EditBuild
    \/ \E choices \in HostChoices, decision \in Decisions : Prepare(choices, decision)
    \/ Propose
    \/ Apply
    \/ Decline

ImportSpec == Init /\ [][Next]_vars

----------------------------------------------------------------------------
ImportTypeOK ==
    /\ cluster \in [Vmids -> [host : Hosts \cup {None}, name : Names, size : Sizes]]
    /\ reading \in [Vmids -> [host : Hosts \cup {None}, name : Names, size : Sizes]]
    /\ plan \in Seq(Device)
    /\ Cardinality(DeviceIds(plan)) = Len(plan) /\ Cardinality(GuestIds(plan)) = GuestCount(plan)
    /\ linked \in [Items -> Hosts \cup {None}]
    /\ raced \in BOOLEAN /\ changes \in 0..MaxChanges /\ imports \in 0..MaxImports

\* Nothing is on its way: the properties of a whole import are asked of these states.
Between == importing = Nothing /\ pending = <<>>

\* What an import of this reading with these ticks makes of the build.
Imported(devices, choices, decision, import) ==
    ApplyOps(devices, BuildOps(devices, reading, linked, choices, decision, import))

\* The same hosts again, without saying again which device each is.
Again(choices) == [node \in Hosts |-> IF choices[node] = ChoiceSkip THEN ChoiceSkip ELSE Unchosen]

\* A host is one device: no two devices of the build name it.
HostsAreOneDevice(devices) ==
    \A d, e \in DOMAIN devices : devices[d].node # None /\ devices[d].node = devices[e].node => d = e

\* Some device has no room for all the guests ticked for it.
Squeezed(choices, decision) ==
    LET pairs == PairHosts(HostOrder, plan, linked, choices)
        Planned(node) == IF pairs[node].at = 0 THEN <<>> ELSE plan[pairs[node].at].guests
        Ticked(node) == SelectSeq(Rows(Planned(node), node, reading),
                            LAMBDA row : row.state = "discovered" /\ row.vmid \in decision.add)
    IN  \E node \in Hosts : Len(Ticked(node)) + Len(Planned(node)) > MaxVMsPerNode

\* Importing the same cluster again changes nothing (docs/INVENTORY.md), whatever was
\* chosen and ticked: every host and guest is found again by what the first import
\* wrote.  Two cases are left out, which `AgainChangesNothing` has: a build in which
\* two devices name one host, and a removal that made room for a ticked guest.
ImportSettles ==
    Between => \A choices \in HostChoices, decision \in Decisions :
        LET after == Imported(plan, choices, decision, imports + 1)
        IN  \/ after = Refused
            \/ ~HostsAreOneDevice(after)
            \/ decision.remove # {} /\ Squeezed(choices, decision)
            \/ Imported(after, Again(choices), decision, imports + 2) \in {Refused, after}

AgainChangesNothing ==
    Between => \A choices \in HostChoices, decision \in Decisions :
        LET after == Imported(plan, choices, decision, imports + 1)
        IN  after = Refused \/ Imported(after, Again(choices), decision, imports + 2) \in {Refused, after}

\* The change set of an import fits the build it was read from: no operation names
\* what is not there, overfills a host or takes a port that is not free, whichever
\* earlier comparison the ticks come from.
ImportFits ==
    Between => \A choices \in HostChoices, decision \in Decisions :
        LET ops == BuildOps(plan, reading, linked, choices, decision, imports + 1)
        IN  Len(ops) <= MaxTopologyOps => ApplyOps(plan, ops) # Refused

\* A device never holds one guest of the cluster twice, unless the build changed
\* between the reading and the proposal of an import.
GuestsAreImportedOnce ==
    raced \/ \A d \in DOMAIN plan : \A g, h \in DOMAIN plan[d].guests :
        plan[d].guests[g].vmid # 0 /\ plan[d].guests[g].vmid = plan[d].guests[h].vmid => g = h
=============================================================================
