----------------------------- MODULE PowerChain -----------------------------
(***************************************************************************)
(* Power from the wall to the devices: the cables of builds older than     *)
(* power wiring, which a start of the server turns into power cables       *)
(* (legacy_power_cables.go), and the warning that the power supplies of a  *)
(* device depend on one thing (wiring/checks.go).                          *)
(*                                                                         *)
(* A build is converted in a transaction under the lock of a save, before  *)
(* requests are served: one step.  Its new revision, the loads written for *)
(* display and the notice to its owner are left out.                       *)
(***************************************************************************)
EXTENDS Topology

CONSTANTS OldBuilds,        \* builds stored by older versions, with old cables
          MaxPowerOutputs,  \* the most sockets a source can have
          Circuit,          \* the circuit a device is on
          NoCircuit         \* that of a device on none

ASSUME PowerChainAssumption ==
    /\ MaxPowerOutputs \in Nat \ {0}
    /\ DOMAIN Circuit = Ids
    /\ \A i \in Ids : Circuit[i] \in STRING /\ Circuit[i] \notin Ids
    /\ NoCircuit \notin Ids

-----------------------------------------------------------------------------
(* The conversion. *)

OldCables(es) == {e \in Network(es) : Source(e.s) \/ Source(e.t)}

(* What an older version stored: a build that a save accepts but for its   *)
(* old cables, which join two of its devices; the others have a port each, *)
(* tunnels too, as no operation or hand takes a port that is in use.       *)
Stored(build) ==
    LET others == build.edges \ OldCables(build.edges)
    IN  /\ IsFiniteSet(build.edges)
        /\ DOMAIN build.nodes \subseteq Ids /\ build.nodes \in [DOMAIN build.nodes -> Device]
        /\ \A e \in build.edges : e \in Link /\ {e.s, e.t} \subseteq DOMAIN build.nodes /\ e.s # e.t
        /\ Accepted(build.nodes, others) /\ Apart(others)

ASSUME OldBuildsAssumption == \A old \in OldBuilds : Stored(old)

feedsInstead(target, source) ==
    /\ Source(target)
    /\ Source(source) => powerSourceRank(target) < powerSourceRank(source)

Feeder(e) == IF feedsInstead(e.t, e.s) THEN e.t ELSE e.s
Fed(e)    == IF feedsInstead(e.t, e.s) THEN e.s ELSE e.t

firstFree(handles, used) == Lowest(handles \ used)

(* A source gets the sockets its old cables need. *)
Grown(ns, i, socket) ==
    IF socket[2] < PowerOutputCount(ns, i) THEN ns
    ELSE [ns EXCEPT ![i].outlets = socket[2] + 1]

(* The build once the old cable e was settled: a power cable from the      *)
(* first free socket to the first free input, or gone when the device has  *)
(* no input left, is fed by the source already, or would close a loop.     *)
Settled(build, e) ==
    LET rest    == build.edges \ {e}
        feeder  == Feeder(e)
        fed     == Fed(e)
        sockets == firstFree(Sockets(MaxPowerOutputs), UsedPowerHandles(rest, feeder))
        inputs  == firstFree(Inputs(PowerInputCount(build.nodes, fed)),
                             UsedPowerHandles(rest, fed))
        dropped == \/ inputs = {} \/ sockets = {}
                   \/ \E f \in Power(rest) : f.s = feeder /\ f.t = fed
                   \/ powerPathExists(rest, fed, feeder)
    IN  IF dropped THEN {[build EXCEPT !.edges = rest]}
        ELSE {[nodes |-> Grown(build.nodes, feeder, socket),
               edges |-> rest \cup {Cable(feeder, socket, fed, input, "power")}] :
                socket \in sockets, input \in inputs}

(* The cables are settled in stored order, which may be any.               *)
planLegacyPowerCables(build) ==
    LET number == Cardinality(OldCables(build.edges))
        after[n \in 0..number] ==
          IF n = 0 THEN {build}
          ELSE UNION {UNION {Settled(planned, e) : e \in OldCables(planned.edges)} :
                        planned \in after[n - 1]}
    IN  after[number]

ConvertLegacyPowerCables ==
    /\ by = "old"
    /\ \E plan \in planLegacyPowerCables([nodes |-> nodes, edges |-> edges]) :
         nodes' = plan.nodes /\ edges' = plan.edges

OldInit == \E old \in OldBuilds : nodes = old.nodes /\ edges = old.edges /\ by = "old"

-----------------------------------------------------------------------------
(* The warning. *)

FeedsOf(es, i) == {e \in Power(es) : e.t = i}

(* Mutant: only what a power supply hangs off directly. *)
upstreamDirect(es, source) == {source} \cup ({Circuit[source]} \ {NoCircuit})

(* A source and everything that feeds it, with the circuits they are on.   *)
upstreamTokens(es, source) ==
    LET upstream == ReachedBy({<<e.t, e.s>> : e \in Power(es)}, source)
    IN  upstream \cup ({Circuit[i] : i \in upstream} \ {NoCircuit})

sharedDependency(es, i) ==
    \E e, f \in FeedsOf(es, i) :
       e.th # f.th /\ upstreamTokens(es, e.s) \cap upstreamTokens(es, f.s) # {}

-----------------------------------------------------------------------------
(* What is without power when the device or circuit x fails: x, and what   *)
(* is plugged in but only into what is without power.                      *)
Dark(ns, es, x) ==
    LET dark[n \in 0..Cardinality(DOMAIN ns)] ==
          IF n = 0 THEN {i \in DOMAIN ns : i = x \/ Circuit[i] = x}
          ELSE LET already == dark[n - 1]
               IN  already \cup {i \in DOMAIN ns :
                     FeedsOf(es, i) # {} /\ \A e \in FeedsOf(es, i) : e.s \in already}
    IN  dark[Cardinality(DOMAIN ns)]

Faults(ns) == DOMAIN ns \cup ({Circuit[i] : i \in DOMAIN ns} \ {NoCircuit})

(* The power supplies of i that the failure of x takes. *)
Taken(ns, es, i, x) == {e \in FeedsOf(es, i) : e.s \in Dark(ns, es, x)}

(* A device with several power supplies is warned about exactly when one   *)
(* failure may take two of them.  The warning looks at what may feed a     *)
(* source, so it is also given when a source in between has a second feed  *)
(* of its own; it is never missing (Warnings, sharedDependency).           *)
SharedFeedsAreWarned ==
    Accepted(nodes, edges) =>
      \A i \in DOMAIN nodes :
        LET struck == \E x \in Faults(nodes) \ {i} : Cardinality(Taken(nodes, edges, i, x)) > 1
            doubly == \E j \in DOMAIN nodes : Source(j) /\ Cardinality(FeedsOf(edges, j)) > 1
        IN  /\ struck => sharedDependency(edges, i)
            /\ sharedDependency(edges, i) => struck \/ doubly
=============================================================================
