--------------------------- MODULE TopologyProofs ---------------------------
(***************************************************************************)
(* What operations, hands, planners and conversions make of a build.       *)
(***************************************************************************)
EXTENDS Planner, TLAPS, FiniteSetTheorems, WellFoundedInduction

-----------------------------------------------------------------------------
(* Walks. *)

\* What holds of 0 and, with a number, of the next holds of all.
LEMMA Counting ==
  ASSUME NEW S, 0 \in S, \A n \in Nat : n \in S => n + 1 \in S
  PROVE  Nat \subseteq S
<1> DEFINE R == {ss \in Nat \X Nat : ss[1] < ss[2]}
<1>1. IsWellFoundedOn(R, Nat)
  BY NatLessThanWellFounded DEF OpToRel
<1>2. SUFFICES ASSUME Nat \ S # {} PROVE FALSE
  OBVIOUS
<1>3. PICK x \in Nat \ S : \A y \in Nat \ S : ~(<<y, x>> \in R)
  <2> HIDE DEF R
  <2> QED BY <1>1, <1>2, WFMin
<1>4. x # 0 /\ x - 1 \in Nat /\ (x - 1) + 1 = x
  BY <1>3
<1>5. <<x - 1, x>> \in R
  BY <1>3, <1>4
<1>6. x - 1 \in S
  <2> HIDE DEF R
  <2> QED BY <1>3, <1>4, <1>5
<1> QED BY <1>3, <1>4, <1>6

\* The next step of a walk takes every pair that starts where it has come to.
Further(r, reached) == reached \cup {p[2] : p \in {q \in r : q[1] \in reached}}

\* The first k steps of a walk from a.
Walks(f, r, a, k) == f = [n \in 0..k |-> IF n = 0 THEN {a} ELSE Further(r, f[n - 1])]

LEMMA WalksStep ==
  ASSUME NEW r, NEW a, NEW k \in Nat, NEW f, Walks(f, r, a, k), NEW n \in Nat, n + 1 <= k
  PROVE  f[n + 1] = Further(r, f[n])
<1>1. n + 1 \in 0..k /\ n + 1 # 0 /\ (n + 1) - 1 = n
  OBVIOUS
<1> QED BY <1>1 DEF Walks

LEMMA WalksExtend ==
  ASSUME NEW r, NEW a, NEW k \in Nat, NEW f, Walks(f, r, a, k)
  PROVE  \E g : Walks(g, r, a, k + 1)
<1> DEFINE g == [n \in 0..(k + 1) |-> IF n <= k THEN f[n] ELSE Further(r, f[k])]
<1>1. ASSUME NEW n \in 0..(k + 1)
      PROVE  g[n] = IF n = 0 THEN {a} ELSE Further(r, g[n - 1])
  <2>1. CASE n = 0
    BY <2>1 DEF Walks
  <2>2. CASE n # 0 /\ n <= k
    <3>1. n \in 0..k /\ n - 1 \in 0..(k + 1) /\ n - 1 <= k
      BY <2>2
    <3>2. f[n] = Further(r, f[n - 1])
      BY <2>2, <3>1 DEF Walks
    <3> QED BY <2>2, <3>1, <3>2
  <2>3. CASE n = k + 1
    BY <2>3
  <2> QED BY <2>1, <2>2, <2>3
<1>2. g = [n \in 0..(k + 1) |-> IF n = 0 THEN {a} ELSE Further(r, g[n - 1])]
  <2>1. g = [n \in 0..(k + 1) |-> g[n]]
    OBVIOUS
  <2> HIDE DEF g
  <2> QED BY <1>1, <2>1
<1> HIDE DEF g
<1> QED BY <1>2 DEF Walks

LEMMA WalksExist ==
  ASSUME NEW r, NEW a, NEW k \in Nat
  PROVE  \E f : Walks(f, r, a, k)
<1> DEFINE S == {n \in Nat : \E f : Walks(f, r, a, n)}
<1>1. 0 \in S
  <2>1. Walks([n \in 0..0 |-> {a}], r, a, 0)
    BY DEF Walks
  <2> QED BY <2>1
<1>2. \A n \in Nat : n \in S => n + 1 \in S
  BY WalksExtend
<1>3. Nat \subseteq S
  <2> HIDE DEF S
  <2> QED BY <1>1, <1>2, Counting
<1> QED BY <1>3

\* A walk of ReachedBy, as far as it goes.
LEMMA ReachedByWalks ==
  ASSUME NEW r, NEW a, IsFiniteSet(r)
  PROVE  \E f : /\ Walks(f, r, a, Cardinality(r))
                /\ ReachedBy(r, a) = f[Cardinality(r)]
<1> DEFINE f == CHOOSE f : Walks(f, r, a, Cardinality(r))
<1>1. Cardinality(r) \in Nat
  BY FS_CardinalityType
<1>2. Walks(f, r, a, Cardinality(r))
  BY <1>1, WalksExist
<1>3. ReachedBy(r, a) = f[Cardinality(r)]
  BY DEF ReachedBy, Walks, Further
<1> QED BY <1>2, <1>3

Closed(S, r) == \A p \in r : p[1] \in S => p[2] \in S

\* The pairs a walk has used up: it came to both ends.
Used(S, r) == {p \in r : p[1] \in S /\ p[2] \in S}

LEMMA FurtherGrows ==
  ASSUME NEW r, IsFiniteSet(r), NEW S
  PROVE  \/ Further(r, S) = S /\ Closed(S, r)
         \/ Cardinality(Used(Further(r, S), r)) >= Cardinality(Used(S, r)) + 1
<1> DEFINE T == Further(r, S)
<1>1. CASE Closed(S, r)
  BY <1>1 DEF Closed, Further
<1>2. CASE ~Closed(S, r)
  <2>1. PICK p \in r : p[1] \in S /\ p[2] \notin S
    BY <1>2 DEF Closed
  <2>2. p \in Used(T, r) /\ p \notin Used(S, r) /\ Used(S, r) \subseteq Used(T, r)
    BY <2>1 DEF Used, Further
  <2>3. IsFiniteSet(Used(T, r)) /\ IsFiniteSet(Used(S, r))
    BY FS_Subset DEF Used
  <2>4. Cardinality(Used(S, r) \cup {p}) = Cardinality(Used(S, r)) + 1
    BY <2>2, <2>3, FS_AddElement
  <2>5. Cardinality(Used(S, r) \cup {p}) <= Cardinality(Used(T, r))
    BY <2>2, <2>3, FS_Subset
  <2> QED BY <2>4, <2>5
<1> QED BY <1>1, <1>2

LEMMA WalksCloseIn ==
  ASSUME NEW r, IsFiniteSet(r), NEW a, NEW k \in Nat, NEW f, Walks(f, r, a, k)
  PROVE  \A n \in 0..k : Closed(f[n], r) \/ Cardinality(Used(f[n], r)) >= n
<1> DEFINE S == {n \in Nat : n <= k => Closed(f[n], r) \/ Cardinality(Used(f[n], r)) >= n}
<1>1. 0 \in S
  <2>1. IsFiniteSet(Used(f[0], r))
    BY FS_Subset DEF Used
  <2>2. Cardinality(Used(f[0], r)) \in Nat
    BY <2>1, FS_CardinalityType
  <2> QED BY <2>2
<1>2. ASSUME NEW n \in Nat, n \in S PROVE n + 1 \in S
  <2>1. CASE n + 1 <= k
    <3>1. f[n + 1] = Further(r, f[n])
      BY <2>1, WalksStep
    <3>2. Closed(f[n], r) \/ Cardinality(Used(f[n], r)) >= n
      BY <1>2, <2>1
    <3>3. \/ f[n + 1] = f[n] /\ Closed(f[n], r)
          \/ Cardinality(Used(f[n + 1], r)) >= Cardinality(Used(f[n], r)) + 1
      BY <3>1, FurtherGrows
    <3>4. CASE Closed(f[n], r)
      <4>1. f[n + 1] = f[n]
        BY <3>1, <3>4 DEF Further, Closed
      <4> QED BY <3>4, <4>1
    <3>5. CASE ~Closed(f[n], r)
      <4>1. IsFiniteSet(Used(f[n], r)) /\ IsFiniteSet(Used(f[n + 1], r))
        BY FS_Subset DEF Used
      <4>2. Cardinality(Used(f[n], r)) \in Nat /\ Cardinality(Used(f[n + 1], r)) \in Nat
        BY <4>1, FS_CardinalityType
      <4> QED BY <3>2, <3>3, <3>5, <4>2
    <3> QED BY <3>4, <3>5
  <2> QED BY <2>1
<1>3. Nat \subseteq S
  <2> HIDE DEF S
  <2> QED BY <1>1, <1>2, Counting
<1> QED BY <1>3

LEMMA WalksStayIn ==
  ASSUME NEW r, NEW a, NEW k \in Nat, NEW f, Walks(f, r, a, k),
         NEW S, a \in S, Closed(S, r)
  PROVE  \A n \in 0..k : a \in f[n] /\ f[n] \subseteq S
<1> DEFINE N == {n \in Nat : n <= k => a \in f[n] /\ f[n] \subseteq S}
<1>1. 0 \in N
  BY DEF Walks
<1>2. ASSUME NEW n \in Nat, n \in N PROVE n + 1 \in N
  <2>1. CASE n + 1 <= k
    <3>1. f[n + 1] = Further(r, f[n])
      BY <2>1, WalksStep
    <3> QED BY <1>2, <2>1, <3>1 DEF Further, Closed
  <2> QED BY <2>1
<1>3. Nat \subseteq N
  <2> HIDE DEF N
  <2> QED BY <1>1, <1>2, Counting
<1> QED BY <1>3

\* What a walk comes to (ReachedBy: powerPathExists, physicalPathExists and
\* upstreamTokens) is the least set with its start that no pair leads out of: it
\* takes no more steps than there are pairs, and these are enough.
THEOREM ReachedIsLeast ==
  ASSUME NEW r, IsFiniteSet(r), NEW a
  PROVE  /\ a \in ReachedBy(r, a)
         /\ Closed(ReachedBy(r, a), r)
         /\ \A S : a \in S /\ Closed(S, r) => ReachedBy(r, a) \subseteq S
<1> DEFINE c == Cardinality(r)
<1>1. c \in Nat
  BY FS_CardinalityType
<1>2. PICK f : Walks(f, r, a, c) /\ ReachedBy(r, a) = f[c]
  BY ReachedByWalks
<1>3. \A S : a \in S /\ Closed(S, r) => a \in f[c] /\ f[c] \subseteq S
  <2>1. c \in 0..c
    BY <1>1
  <2> QED BY <1>1, <1>2, <2>1, WalksStayIn
<1>4. Closed(f[c], r)
  <2>1. CASE Cardinality(Used(f[c], r)) >= c
    <3>1. Used(f[c], r) \in SUBSET r
      BY DEF Used
    <3>2. Used(f[c], r) = r
      BY <1>1, <2>1, <3>1, FS_Subset, FS_CardinalityType
    <3> QED BY <3>2 DEF Used, Closed
  <2> QED BY <1>1, <1>2, <2>1, WalksCloseIn
<1>5. a \in f[c]
  <2>1. Closed({a} \cup {p[2] : p \in r}, r)
    BY DEF Closed
  <2> QED BY <1>3, <2>1
<1> QED BY <1>2, <1>3, <1>4, <1>5

-----------------------------------------------------------------------------
(* Loops.                                                                  *)

\* Some pair leads back to where it starts.
Loops(r) == \E p \in r : p[1] \in ReachedBy(r, p[2])

LEMMA ReachedIsTransitive ==
  ASSUME NEW r, IsFiniteSet(r), NEW a, NEW b \in ReachedBy(r, a)
  PROVE  ReachedBy(r, b) \subseteq ReachedBy(r, a)
  BY ReachedIsLeast

LEMMA ReachedGrows ==
  ASSUME NEW r, NEW more, r \subseteq more, IsFiniteSet(more), NEW a
  PROVE  ReachedBy(r, a) \subseteq ReachedBy(more, a)
<1>1. IsFiniteSet(r)
  BY FS_Subset
<1>2. Closed(ReachedBy(more, a), r) /\ a \in ReachedBy(more, a)
  BY ReachedIsLeast DEF Closed
<1> QED BY <1>1, <1>2, ReachedIsLeast

LEMMA FewerPairsFewerLoops ==
  ASSUME NEW r, NEW more, r \subseteq more, IsFiniteSet(more), Loops(r)
  PROVE  Loops(more)
  BY ReachedGrows DEF Loops

\* A pair closes a loop only where a walk led from its end to its start.
LEMMA NoLoopIsClosed ==
  ASSUME NEW r, IsFiniteSet(r), ~Loops(r), NEW s, NEW t, s \notin ReachedBy(r, t)
  PROVE  ~Loops(r \cup {<<s, t>>})
<1> DEFINE more == r \cup {<<s, t>>}
<1>1. IsFiniteSet(more)
  BY FS_AddElement
<1>2. ReachedBy(more, t) \subseteq ReachedBy(r, t)
  <2>1. t \in ReachedBy(r, t) /\ Closed(ReachedBy(r, t), r)
    BY ReachedIsLeast
  <2>2. Closed(ReachedBy(r, t), more)
    BY <2>1 DEF Closed
  <2> HIDE DEF more
  <2> QED BY <1>1, <2>1, <2>2, ReachedIsLeast
<1>3. ASSUME NEW p \in r, p[1] \in ReachedBy(more, p[2]) PROVE FALSE
  <2>1. p[2] \in ReachedBy(r, p[2]) /\ Closed(ReachedBy(r, p[2]), r)
    BY ReachedIsLeast
  <2>2. p[1] \notin ReachedBy(r, p[2])
    BY <1>3 DEF Loops
  <2>3. s \in ReachedBy(r, p[2])
    <3>1. SUFFICES ASSUME s \notin ReachedBy(r, p[2]) PROVE FALSE
      OBVIOUS
    <3>2. Closed(ReachedBy(r, p[2]), more)
      BY <2>1, <3>1 DEF Closed
    <3>3. ReachedBy(more, p[2]) \subseteq ReachedBy(r, p[2])
      <4> HIDE DEF more
      <4> QED BY <1>1, <2>1, <3>2, ReachedIsLeast
    <3> QED BY <1>3, <2>2, <3>3
  <2>4. Closed(ReachedBy(r, p[2]) \cup ReachedBy(r, t), more)
    BY <2>1, ReachedIsLeast DEF Closed
  <2>5. p[1] \in ReachedBy(r, p[2]) \cup ReachedBy(r, t)
    <3> HIDE DEF more
    <3> QED BY <1>1, <1>3, <2>1, <2>4, ReachedIsLeast
  <2>6. p[2] \in ReachedBy(r, t)
    BY <2>2, <2>5, ReachedIsLeast DEF Closed
  <2>7. s \in ReachedBy(r, t)
    BY <2>3, <2>6, ReachedIsTransitive
  <2> QED BY <2>7
<1>4. s \notin ReachedBy(more, t)
  BY <1>2
<1> HIDE DEF more
<1>5. \A p \in more : p \in r \/ p = <<s, t>>
  BY DEF more
<1>6. SUFFICES ~Loops(more)
  BY DEF more
<1> QED BY <1>3, <1>4, <1>5 DEF Loops

-----------------------------------------------------------------------------
(* Builds, and what a save asks of them.                                   *)

NodesOK(ns) ==
    /\ DOMAIN ns \subseteq Ids /\ ns = [i \in DOMAIN ns |-> ns[i]]
    /\ \A i \in DOMAIN ns : ns[i] \in Device /\ ~NodeIssue(ns, i)

EdgesOK(ns, es) == \A e \in es : e \in Link /\ e.s \in DOMAIN ns /\ e.t \in DOMAIN ns /\ e.s # e.t

Sound(ns, es) == NodesOK(ns) /\ EdgesOK(ns, es) /\ Apart(es)

CableOK(ns, es, e) ==
    IF e.type = "power" THEN ~PowerCableIssue(ns, e) ELSE ~NetworkCableIssue(es, e)

\* What an accepted build has beyond one that is sound.
Wired(ns, es) == (\A e \in es : CableOK(ns, es, e)) /\ ~Loops(Feeds(es))

LEMMA LoopsAreFound == ASSUME NEW es PROVE powerLoop(es) <=> Loops(Feeds(es))
<1>1. \A e \in Power(es) : <<e.s, e.t>> \in Feeds(es)
  BY DEF Feeds
<1>2. \A p \in Feeds(es) : \E e \in Power(es) : p[1] = e.s /\ p[2] = e.t
  BY DEF Feeds
<1> QED BY <1>1, <1>2 DEF powerLoop, powerPathExists, Loops

LEMMA AcceptedIsWired ==
  ASSUME NEW ns, NEW es, Sound(ns, es)
  PROVE  Accepted(ns, es) <=> Wired(ns, es)
<1>1. \A e \in es : \A f \in es \ {e} : PortsTaken(e) \cap PortsTaken(f) = {}
  <2> SUFFICES ASSUME NEW e \in es, NEW f \in es \ {e}
               PROVE  PortsTaken(e) \cap PortsTaken(f) = {}
    OBVIOUS
  <2>1. PortsTaken(e) \subseteq PortsOf(e) /\ PortsTaken(f) \subseteq PortsOf(f)
    BY DEF PortsTaken, PortsOf
  <2>2. PortsOf(e) \cap PortsOf(f) = {}
    BY DEF Sound, Apart
  <2> QED BY <2>1, <2>2
<1>2. \A e \in es : {e.s, e.t} \subseteq DOMAIN ns /\ e.s # e.t
  BY DEF Sound, EdgesOK
<1>3. \A i \in DOMAIN ns : ~NodeIssue(ns, i)
  BY DEF Sound, NodesOK
<1> QED BY <1>1, <1>2, <1>3, LoopsAreFound DEF Accepted, Wired, CableOK

LEMMA FeedsAreFinite ==
  ASSUME NEW ns, NEW es, EdgesOK(ns, es), NodesOK(ns)
  PROVE  IsFiniteSet(Feeds(es)) /\ IsFiniteSet(Cabled(es))
<1>1. IsFiniteSet(Ids \X Ids)
  BY FS_Product, TopologyAssumption
<1>2. Feeds(es) \subseteq Ids \X Ids /\ Cabled(es) \subseteq Ids \X Ids
  BY DEF Feeds, Cabled, Power, EdgesOK, NodesOK
<1> QED BY <1>1, <1>2, FS_Subset

-----------------------------------------------------------------------------
(* Fewer cables.                                                           *)

LEMMA FewerCablesAreSound ==
  ASSUME NEW ns, NEW es, NEW fewer \in SUBSET es, Sound(ns, es)
  PROVE  Sound(ns, fewer)
  BY DEF Sound, EdgesOK, Apart

LEMMA FewerCablesAreWired ==
  ASSUME NEW ns, NEW es, NEW fewer \in SUBSET es, Sound(ns, es), Wired(ns, es)
  PROVE  Wired(ns, fewer)
<1>1. ASSUME NEW e \in fewer PROVE CableOK(ns, fewer, e)
  BY DEF Wired, CableOK, NetworkCableIssue, Network, Power
<1>2. Feeds(fewer) \subseteq Feeds(es)
  BY DEF Feeds, Power
<1>3. ~Loops(Feeds(fewer))
  BY <1>2, FewerPairsFewerLoops, FeedsAreFinite DEF Wired, Sound
<1> QED BY <1>1, <1>3 DEF Wired

-----------------------------------------------------------------------------
(* One more cable.                                                         *)

LEMMA HandleIsUsed ==
  ASSUME NEW es, NEW i, NEW h
  PROVE  h \in UsedHandles(es, i) <=>
           \E e \in Network(es) : /\ ~(TypeOf[i] = "access_point" /\ Wifi(e.s, e.t))
                                  /\ <<i, h>> \in Ends(e)
<1>1. ASSUME NEW e \in Network(es), ~(TypeOf[i] = "access_point" /\ Wifi(e.s, e.t)),
             <<i, h>> \in Ends(e)
      PROVE  h \in UsedHandles(es, i)
  <2>1. <<i, h>>[1] = i /\ <<i, h>>[2] = h
    OBVIOUS
  <2> QED BY <1>1, <2>1 DEF UsedHandles
<1>2. ASSUME h \in UsedHandles(es, i)
      PROVE  \E e \in Network(es) : /\ ~(TypeOf[i] = "access_point" /\ Wifi(e.s, e.t))
                                    /\ <<i, h>> \in Ends(e)
  BY <1>2 DEF UsedHandles, Ends
<1> QED BY <1>1, <1>2

LEMMA SocketIsUsed ==
  ASSUME NEW es, NEW i, NEW h
  PROVE  h \in UsedPowerHandles(es, i) <=> \E e \in Power(es) : <<i, h>> \in Ends(e)
<1>1. ASSUME NEW e \in Power(es), <<i, h>> \in Ends(e)
      PROVE  h \in UsedPowerHandles(es, i)
  <2>1. <<i, h>>[1] = i /\ <<i, h>>[2] = h
    OBVIOUS
  <2> QED BY <1>1, <2>1 DEF UsedPowerHandles
<1>2. ASSUME h \in UsedPowerHandles(es, i)
      PROVE  \E e \in Power(es) : <<i, h>> \in Ends(e)
  BY <1>2 DEF UsedPowerHandles, Ends
<1> QED BY <1>1, <1>2

\* Power and network cables never meet at a port.
LEMMA KindsOfPorts ==
  ASSUME NEW ns, NEW es, EdgesOK(ns, es), NEW e \in es
  PROVE  /\ e \in Power(es) <=> e \in PowerLink
         /\ e \in Network(es) <=> e \in NetworkLink
         /\ e \in PowerLink => e.sh[1] = "out" /\ e.th[1] = "in" /\ e.type = "power"
         /\ e \in NetworkLink => ~IsPower(e.sh) /\ ~IsPower(e.th) /\ e.type \in LinkTypes /\ e.type # "power"
         /\ e \in Power(es) \/ e \in Network(es)
<1>1. e \in Link
  BY DEF EdgesOK
<1>2. e \in PowerLink => e.sh[1] = "out" /\ e.th[1] = "in" /\ e.type = "power"
  BY DEF PowerLink
<1>3. e \in NetworkLink => ~IsPower(e.sh) /\ ~IsPower(e.th) /\ e.type \in LinkTypes /\ e.type # "power"
  BY DEF NetworkLink, NetworkPort, IsPower, LinkTypes
<1> QED BY <1>1, <1>2, <1>3 DEF Link, Power, Network

\* The port h of i is free for the network cable c.
Free(es, c, i, h) ==
    h \in UsedHandles(es, i) => TypeOf[i] = "access_point" /\ Wifi(c.s, c.t)

LEMMA NetworkCableIsApart ==
  ASSUME NEW ns, NEW es, Sound(ns, es), NEW c \in NetworkLink,
         c.s \in DOMAIN ns, c.t \in DOMAIN ns, c.s # c.t,
         Free(es, c, c.s, c.sh), Free(es, c, c.t, c.th)
  PROVE  Sound(ns, es \cup {c})
<1>1. ASSUME NEW e \in es, NEW p \in PortsOf(e), p \in PortsOf(c) PROVE FALSE
  <2>1. c.type # "power" /\ ~IsPower(c.sh) /\ ~IsPower(c.th)
    BY DEF NetworkLink, NetworkPort, IsPower, LinkTypes
  <2>2. PICK i, h : p = <<i, h>> /\ <<i, h>> \in Ends(c) /\ <<i, h>> \in Ends(e)
    BY <1>1 DEF PortsOf, Ends
  <2>3. p[1] = i
    BY <2>2
  <2>4. ~(Wifi(c.s, c.t) /\ TypeOf[i] = "access_point")
    BY <1>1, <2>1, <2>3 DEF PortsOf
  <2>5. (i = c.s /\ h = c.sh) \/ (i = c.t /\ h = c.th)
    BY <2>2 DEF Ends
  <2>6. h \notin UsedHandles(es, i) /\ ~IsPower(h)
    BY <2>1, <2>4, <2>5 DEF Free
  <2>7. (i = e.s /\ h = e.sh) \/ (i = e.t /\ h = e.th)
    BY <2>2 DEF Ends
  <2>8. e \in Network(es)
    BY <2>6, <2>7, KindsOfPorts DEF Sound, IsPower
  <2>9. ~(Wifi(e.s, e.t) /\ TypeOf[i] = "access_point")
    BY <1>1, <2>3, <2>8 DEF PortsOf, Network, Power
  <2> QED BY <2>2, <2>6, <2>8, <2>9, HandleIsUsed
<1>2. Apart(es \cup {c})
  BY <1>1 DEF Apart, Sound
<1>3. EdgesOK(ns, es \cup {c})
  BY DEF EdgesOK, Sound, Link
<1> QED BY <1>2, <1>3 DEF Sound

LEMMA PowerCableIsApart ==
  ASSUME NEW ns, NEW es, Sound(ns, es), NEW c \in PowerLink,
         c.s \in DOMAIN ns, c.t \in DOMAIN ns, c.s # c.t,
         c.sh \notin UsedPowerHandles(es, c.s), c.th \notin UsedPowerHandles(es, c.t)
  PROVE  Sound(ns, es \cup {c})
<1>1. ASSUME NEW e \in es, NEW p \in PortsOf(e), p \in PortsOf(c) PROVE FALSE
  <2>1. IsPower(c.sh) /\ IsPower(c.th)
    BY DEF PowerLink, IsPower
  <2>2. PICK i, h : p = <<i, h>> /\ <<i, h>> \in Ends(c) /\ <<i, h>> \in Ends(e)
    BY <1>1 DEF PortsOf, Ends
  <2>3. (i = c.s /\ h = c.sh) \/ (i = c.t /\ h = c.th)
    BY <2>2 DEF Ends
  <2>4. h \notin UsedPowerHandles(es, i) /\ IsPower(h)
    BY <2>1, <2>3
  <2>5. (i = e.s /\ h = e.sh) \/ (i = e.t /\ h = e.th)
    BY <2>2 DEF Ends
  <2>6. e \in Power(es)
    BY <2>4, <2>5, KindsOfPorts DEF Sound
  <2> QED BY <2>2, <2>4, <2>6, SocketIsUsed
<1>2. Apart(es \cup {c})
  BY <1>1 DEF Apart, Sound
<1>3. EdgesOK(ns, es \cup {c})
  BY DEF EdgesOK, Sound, Link
<1> QED BY <1>2, <1>3 DEF Sound

LEMMA WiredWithPower ==
  ASSUME NEW ns, NEW es, Sound(ns, es), Wired(ns, es), NEW c \in PowerLink,
         c.sh \in Sockets(PowerOutputCount(ns, c.s)),
         c.th \in Inputs(PowerInputCount(ns, c.t)),
         ~powerPathExists(es, c.t, c.s)
  PROVE  Wired(ns, es \cup {c})
<1>1. c.type = "power"
  BY DEF PowerLink
<1>2. ASSUME NEW e \in es \cup {c} PROVE CableOK(ns, es \cup {c}, e)
  <2>1. Network(es \cup {c}) = Network(es)
    BY <1>1 DEF Network, Power
  <2>2. CASE e \in es
    BY <2>1, <2>2 DEF Wired, CableOK, NetworkCableIssue
  <2>3. CASE e = c
    BY <1>1, <2>3 DEF CableOK, PowerCableIssue
  <2> QED BY <2>2, <2>3
<1>3. Feeds(es \cup {c}) = Feeds(es) \cup {<<c.s, c.t>>}
  BY <1>1 DEF Feeds, Power
<1>4. ~Loops(Feeds(es \cup {c}))
  <2>1. IsFiniteSet(Feeds(es)) /\ ~Loops(Feeds(es))
    BY FeedsAreFinite DEF Wired, Sound
  <2>2. c.s \notin ReachedBy(Feeds(es), c.t)
    BY DEF powerPathExists
  <2>3. ~Loops(Feeds(es) \cup {<<c.s, c.t>>})
    BY <2>1, <2>2, NoLoopIsClosed
  <2> QED BY <1>3, <2>3
<1> QED BY <1>2, <1>4 DEF Wired

LEMMA WiredWithNetwork ==
  ASSUME NEW ns, NEW es, Sound(ns, es), Wired(ns, es), NEW c \in NetworkLink,
         ~NetworkCableIssue(es, c)
  PROVE  Wired(ns, es \cup {c})
<1>1. c.type # "power"
  BY DEF NetworkLink, LinkTypes
<1>2. Network(es \cup {c}) = Network(es) \cup {c} /\ Power(es \cup {c}) = Power(es)
  BY <1>1 DEF Network, Power
<1>3. ASSUME NEW e \in es PROVE CableOK(ns, es \cup {c}, e)
  <2>1. CableOK(ns, es, e)
    BY DEF Wired
  <2>2. CASE e.type = "power"
    BY <2>1, <2>2 DEF CableOK
  <2>3. CASE e.type # "power" /\ e # c
    <3>1. e \in Network(es)
      BY <2>3 DEF Network, Power
    <3>2. ~Joins(c, e.s, e.t)
      BY <2>3, <3>1 DEF NetworkCableIssue, Joins
    <3>3. \A i \in {e.s, e.t} : Table(i) => i \notin {c.s, c.t}
      BY <2>3, <3>1 DEF NetworkCableIssue
    <3>4. ~NetworkCableIssue(es, e)
      BY <2>1, <2>3 DEF CableOK
    <3>5. ~NetworkCableIssue(es \cup {c}, e)
      BY <1>2, <3>2, <3>3, <3>4 DEF NetworkCableIssue
    <3> QED BY <2>3, <3>5 DEF CableOK
  <2>4. CASE e = c
    BY <1>1, <1>2, <2>4 DEF CableOK, NetworkCableIssue
  <2> QED BY <2>2, <2>3, <2>4
<1>4. CableOK(ns, es \cup {c}, c)
  BY <1>1, <1>2 DEF CableOK, NetworkCableIssue
<1>5. Feeds(es \cup {c}) = Feeds(es)
  BY <1>2 DEF Feeds
<1> QED BY <1>3, <1>4, <1>5 DEF Wired

\* The cables stay fine while the sockets and inputs they are in stay.
LEMMA WiredElsewhere ==
  ASSUME NEW ns, NEW es, Wired(ns, es), NEW others,
         \A e \in es : e.type = "power" => ~PowerCableIssue(others, e)
  PROVE  Wired(others, es)
  BY DEF Wired, CableOK

LEMMA SameCounts ==
  ASSUME NEW ns, NEW es, EdgesOK(ns, es), Wired(ns, es), NEW others,
         \A i \in DOMAIN ns : others[i].psu = ns[i].psu /\ others[i].outlets = ns[i].outlets
  PROVE  Wired(others, es)
<1>1. ASSUME NEW e \in es, e.type = "power" PROVE ~PowerCableIssue(others, e)
  <2>1. ~PowerCableIssue(ns, e)
    BY <1>1 DEF Wired, CableOK
  <2>2. e.s \in DOMAIN ns /\ e.t \in DOMAIN ns
    BY DEF EdgesOK
  <2> QED BY <2>1, <2>2 DEF PowerCableIssue, PowerOutputCount, PowerInputCount
<1> QED BY <1>1, WiredElsewhere

-----------------------------------------------------------------------------
(* Devices.                                                                *)

LEMMA AddedIsOK ==
  ASSUME NEW ns, NodesOK(ns), NEW i \in Ids \ DOMAIN ns, NEW device \in Device,
         device.rack # Nowhere => Mountable(ns, i, device.rack)
  PROVE  /\ NodesOK(With(ns, i, device))
         /\ DOMAIN With(ns, i, device) = DOMAIN ns \cup {i}
         /\ \A j \in DOMAIN ns : With(ns, i, device)[j] = ns[j]
         /\ With(ns, i, device)[i] = device
<1> DEFINE more == With(ns, i, device)
<1>1. /\ DOMAIN more = DOMAIN ns \cup {i} /\ \A j \in DOMAIN ns : more[j] = ns[j]
      /\ more[i] = device /\ more = [j \in DOMAIN more |-> more[j]]
  BY DEF With
<1> HIDE DEF more
<1>2. ASSUME NEW j \in DOMAIN more PROVE more[j] \in Device /\ ~NodeIssue(more, j)
  BY <1>1 DEF NodesOK, NodeIssue, Mountable
<1>3. NodesOK(more)
  BY <1>1, <1>2 DEF NodesOK
<1> QED BY <1>1, <1>3 DEF more

LEMMA ChangedIsOK ==
  ASSUME NEW ns, NodesOK(ns), NEW i \in DOMAIN ns, NEW device \in Device,
         device.rack # Nowhere => Mountable(ns, i, device.rack)
  PROVE  /\ NodesOK([ns EXCEPT ![i] = device])
         /\ DOMAIN [ns EXCEPT ![i] = device] = DOMAIN ns
<1> DEFINE new == [ns EXCEPT ![i] = device]
<1>1. /\ DOMAIN new = DOMAIN ns /\ \A j \in DOMAIN ns : j # i => new[j] = ns[j]
      /\ new[i] = device /\ new = [j \in DOMAIN new |-> new[j]]
  BY DEF NodesOK
<1> HIDE DEF new
<1>2. ASSUME NEW j \in DOMAIN new PROVE new[j] \in Device /\ ~NodeIssue(new, j)
  <2>1. ns[j] \in Device /\ ~NodeIssue(ns, j)
    BY <1>1 DEF NodesOK
  <2> QED BY <1>1, <2>1 DEF NodeIssue, Mountable
<1>3. NodesOK(new)
  BY <1>1, <1>2 DEF NodesOK
<1> QED BY <1>1, <1>3 DEF new

\* A device is where the save may find it.
LEMMA WhereItIs ==
  ASSUME NEW ns, NodesOK(ns), NEW i \in DOMAIN ns
  PROVE  ns[i] \in Device /\ (ns[i].rack # Nowhere => Mountable(ns, i, ns[i].rack))
  BY DEF NodesOK, NodeIssue, Mountable

Placed(device, r, slot) == [device EXCEPT !.rack = r, !.slot = slot]

LEMMA PlacedIsDevice ==
  ASSUME NEW device \in Device, NEW r \in Ids \cup {Nowhere}, NEW slot \in Nat
  PROVE  /\ Placed(device, r, slot) \in Device
         /\ Placed(device, r, slot).rack = r /\ Placed(device, r, slot).slot = slot
         /\ Placed(device, r, slot).psu = device.psu
         /\ Placed(device, r, slot).outlets = device.outlets
         /\ Placed(device, r, slot).units = device.units
         /\ Placed(device, r, slot).size = device.size
  BY DEF Device, Placed

LEMMA WithoutIsOK ==
  ASSUME NEW ns, NodesOK(ns), NEW gone,
         \A i \in DOMAIN ns \ gone : ns[i].rack \notin gone
  PROVE  /\ NodesOK(Without(ns, gone)) /\ DOMAIN Without(ns, gone) = DOMAIN ns \ gone
         /\ \A i \in DOMAIN ns \ gone : Without(ns, gone)[i] = ns[i]
<1> DEFINE rest == Without(ns, gone)
<1>1. /\ DOMAIN rest = DOMAIN ns \ gone /\ \A j \in DOMAIN rest : rest[j] = ns[j]
      /\ rest = [j \in DOMAIN rest |-> rest[j]]
  BY DEF Without
<1> HIDE DEF rest
<1>2. ASSUME NEW j \in DOMAIN rest PROVE rest[j] \in Device /\ ~NodeIssue(rest, j)
  <2>1. ns[j] \in Device /\ ~NodeIssue(ns, j)
    BY <1>1 DEF NodesOK
  <2> QED BY <1>1, <2>1 DEF NodeIssue
<1>3. NodesOK(rest)
  BY <1>1, <1>2 DEF NodesOK
<1> QED BY <1>1, <1>3 DEF rest

\* A rack goes with what is in it, and so do their cables.
LEMMA UnpluggedIsSound ==
  ASSUME NEW ns, NEW es, Sound(ns, es), NEW gone,
         \A i \in DOMAIN ns \ gone : ns[i].rack \notin gone
  PROVE  /\ Sound(Without(ns, gone), Unplugged(es, gone))
         /\ Wired(ns, es) => Wired(Without(ns, gone), Unplugged(es, gone))
<1> DEFINE rest == Without(ns, gone)
           left == Unplugged(es, gone)
<1>1. /\ NodesOK(rest) /\ DOMAIN rest = DOMAIN ns \ gone
      /\ \A i \in DOMAIN rest : rest[i] = ns[i]
  BY WithoutIsOK DEF Sound
<1>2. left \subseteq es /\ \A e \in left : e.s \notin gone /\ e.t \notin gone
  BY DEF Unplugged
<1> HIDE DEF rest, left
<1>3. Sound(ns, left)
  BY <1>2, FewerCablesAreSound
<1>4. EdgesOK(rest, left)
  BY <1>1, <1>2, <1>3 DEF Sound, EdgesOK
<1>5. ASSUME Wired(ns, es) PROVE Wired(rest, left)
  <2>1. Wired(ns, left)
    BY <1>2, <1>5, FewerCablesAreWired
  <2>2. ASSUME NEW e \in left, e.type = "power" PROVE ~PowerCableIssue(rest, e)
    <3>1. ~PowerCableIssue(ns, e)
      BY <2>1, <2>2 DEF Wired, CableOK
    <3>2. e.s \in DOMAIN rest /\ e.t \in DOMAIN rest
      BY <1>4 DEF EdgesOK
    <3> QED BY <1>1, <3>1, <3>2 DEF PowerCableIssue, PowerOutputCount, PowerInputCount
  <2> QED BY <2>1, <2>2, WiredElsewhere
<1> QED BY <1>1, <1>3, <1>4, <1>5 DEF Sound, rest, left

-----------------------------------------------------------------------------
(* The steps of a change set.                                              *)

Kept == Sound(nodes, edges)' /\ (Wired(nodes, edges) => Wired(nodes, edges)')

LEMMA DevicesAreDevices ==
  ASSUME NEW i, NEW device \in Devices(i)
  PROVE  /\ device \in Device /\ device.rack = Nowhere /\ device.slot = 0
<1>1. PICK k \in Counted(i), n \in Counts : device = [Plain EXCEPT ![k] = n]
  BY DEF Devices
<1>2. k \in {"ports", "psu", "outlets", "units", "size"} /\ n \in Nat
  BY TopologyAssumption DEF Counted, CountKeys
<1> QED BY <1>1, <1>2 DEF Plain, Device

LEMMA RackNodePlaces ==
  ASSUME NEW ns, NodesOK(ns), NEW i \in DOMAIN ns, NEW r, NEW want,
         NEW x \in rackNode(ns, i, r, want)
  PROVE  /\ Mountable(ns, i, r)
         /\ \E s \in Slots : fits(ns, r, i, s) /\ x = [ns EXCEPT ![i] = Placed(ns[i], r, s)]
<1>1. Mountable(ns, i, r)
  BY DEF rackNode
<1>2. PICK s \in allocateRackSlot(ns, r, i, want) : x = [ns EXCEPT ![i].rack = r, ![i].slot = s]
  BY DEF rackNode
<1>3. s \in Slots /\ fits(ns, r, i, s)
  BY <1>2 DEF allocateRackSlot
<1>4. x = [ns EXCEPT ![i] = Placed(ns[i], r, s)]
  BY <1>2 DEF Placed, NodesOK
<1> QED BY <1>1, <1>3, <1>4

\* The devices there were have the counts they had.
CountsKept(ns, others) ==
    \A j \in DOMAIN ns : /\ others[j].psu = ns[j].psu /\ others[j].outlets = ns[j].outlets
                         /\ others[j].units = ns[j].units /\ others[j].size = ns[j].size

LEMMA PlacedIsOK ==
  ASSUME NEW ns, NodesOK(ns), NEW i \in DOMAIN ns, NEW r, r # Nowhere => Mountable(ns, i, r),
         NEW slot \in Nat
  PROVE  /\ NodesOK([ns EXCEPT ![i] = Placed(ns[i], r, slot)])
         /\ DOMAIN [ns EXCEPT ![i] = Placed(ns[i], r, slot)] = DOMAIN ns
         /\ CountsKept(ns, [ns EXCEPT ![i] = Placed(ns[i], r, slot)])
<1> DEFINE device == Placed(ns[i], r, slot)
<1>1. ns[i] \in Device /\ r \in Ids \cup {Nowhere}
  BY DEF NodesOK, Mountable
<1>2. /\ device \in Device /\ device.rack = r
      /\ device.psu = ns[i].psu /\ device.outlets = ns[i].outlets
      /\ device.units = ns[i].units /\ device.size = ns[i].size
  <2>1. \A old \in Device : \A where \in Ids \cup {Nowhere} :
           /\ Placed(old, where, slot) \in Device /\ Placed(old, where, slot).rack = where
           /\ Placed(old, where, slot).psu = old.psu /\ Placed(old, where, slot).outlets = old.outlets
           /\ Placed(old, where, slot).units = old.units /\ Placed(old, where, slot).size = old.size
    BY PlacedIsDevice
  <2> QED BY <1>1, <2>1
<1> HIDE DEF device
<1>3. NodesOK([ns EXCEPT ![i] = device]) /\ DOMAIN [ns EXCEPT ![i] = device] = DOMAIN ns
  BY <1>2, ChangedIsOK
<1>4. CountsKept(ns, [ns EXCEPT ![i] = device])
  BY <1>2 DEF CountsKept
<1> QED BY <1>3, <1>4 DEF device

\* The devices changed, none was lost, and what is plugged in finds its socket.
LEMMA DevicesKept ==
  ASSUME Sound(nodes, edges), NodesOK(nodes'), DOMAIN nodes \subseteq DOMAIN nodes', edges' = edges,
         \A i \in DOMAIN nodes : nodes'[i].psu = nodes[i].psu /\ nodes'[i].outlets = nodes[i].outlets
  PROVE  Kept
<1>1. Sound(nodes, edges)'
  BY DEF Sound, EdgesOK
<1>2. Wired(nodes, edges) => Wired(nodes', edges)
  BY SameCounts DEF Sound
<1> QED BY <1>1, <1>2 DEF Kept

LEMMA addNodeKeeps ==
  ASSUME Sound(nodes, edges), NEW i \in Ids, NEW device \in Devices(i), NEW r, NEW want,
         addNode(i, device, r, want)
  PROVE  Kept
<1> DEFINE added == With(nodes, i, device)
<1>1. i \in Ids \ DOMAIN nodes /\ edges' = edges
  BY DEF addNode
<1>2. /\ NodesOK(added) /\ DOMAIN added = DOMAIN nodes \cup {i}
      /\ \A j \in DOMAIN nodes : added[j] = nodes[j]
  BY <1>1, DevicesAreDevices, AddedIsOK DEF Sound
<1>3. CASE nodes' = added
  BY <1>1, <1>2, <1>3, DevicesKept
<1>4. CASE nodes' \in rackNode(added, i, r, want)
  <2> HIDE DEF added
  <2>1. PICK s \in Slots : nodes' = [added EXCEPT ![i] = Placed(added[i], r, s)]
    BY <1>2, <1>4, RackNodePlaces
  <2>2. Mountable(added, i, r) /\ s \in Nat
    BY <1>2, <1>4, RackNodePlaces, TopologyAssumption
  <2>3. /\ NodesOK(nodes') /\ DOMAIN nodes' = DOMAIN added
        /\ CountsKept(added, nodes')
    BY <1>2, <2>1, <2>2, PlacedIsOK
  <2> QED BY <1>1, <1>2, <2>3, DevicesKept DEF CountsKept
<1> QED BY <1>3, <1>4 DEF addNode

LEMMA updateParentKeeps ==
  ASSUME Sound(nodes, edges), NEW i, NEW r, NEW want, updateParent(i, r, want)
  PROVE  Kept
<1>1. i \in DOMAIN nodes /\ edges' = edges /\ nodes' \in rackNode(nodes, i, r, want)
  BY DEF updateParent
<1>2. PICK s \in Slots : nodes' = [nodes EXCEPT ![i] = Placed(nodes[i], r, s)]
  BY <1>1, RackNodePlaces DEF Sound
<1>3. Mountable(nodes, i, r) /\ s \in Nat
  BY <1>1, RackNodePlaces, TopologyAssumption DEF Sound
<1>4. /\ NodesOK(nodes') /\ DOMAIN nodes' = DOMAIN nodes
      /\ CountsKept(nodes, nodes')
  BY <1>1, <1>2, <1>3, PlacedIsOK DEF Sound
<1> QED BY <1>1, <1>4, DevicesKept DEF CountsKept

LEMMA PlacingKeeps ==
  ASSUME Sound(nodes, edges), NEW i \in DOMAIN nodes, NEW r, NEW slot \in Nat,
         r # Nowhere => Mountable(nodes, i, r),
         nodes' = [nodes EXCEPT ![i].rack = r, ![i].slot = slot], edges' = edges
  PROVE  Kept
<1>1. nodes' = [nodes EXCEPT ![i] = Placed(nodes[i], r, slot)]
  BY DEF Placed, NodesOK, Sound
<1>2. /\ NodesOK(nodes') /\ DOMAIN nodes' = DOMAIN nodes
      /\ CountsKept(nodes, nodes')
  <2>1. NodesOK(nodes)
    BY DEF Sound
  <2>2. /\ NodesOK([nodes EXCEPT ![i] = Placed(nodes[i], r, slot)])
        /\ DOMAIN [nodes EXCEPT ![i] = Placed(nodes[i], r, slot)] = DOMAIN nodes
        /\ CountsKept(nodes, [nodes EXCEPT ![i] = Placed(nodes[i], r, slot)])
    BY <2>1, PlacedIsOK
  <2> QED BY <1>1, <2>2
<1> QED BY <1>2, DevicesKept DEF CountsKept

LEMMA unmountKeeps ==
  ASSUME Sound(nodes, edges), NEW i, unmount(i)
  PROVE  Kept
  BY PlacingKeeps DEF unmount

LEMMA RemovingKeeps ==
  ASSUME Sound(nodes, edges), NEW gone, \A i \in DOMAIN nodes \ gone : nodes[i].rack \notin gone,
         nodes' = Without(nodes, gone), edges' = Unplugged(edges, gone)
  PROVE  Kept
  BY UnpluggedIsSound DEF Kept

LEMMA RacksGoWhole ==
  ASSUME NodesOK(nodes), NEW i \in DOMAIN nodes, NEW j \in DOMAIN nodes,
         nodes[j].rack \in removed(nodes, i)
  PROVE  j \in removed(nodes, i)
<1>1. nodes[j].rack # Nowhere
  BY TopologyAssumption DEF NodesOK, removed
<1>2. Rack(nodes[j].rack) /\ nodes[nodes[j].rack].rack = Nowhere /\ nodes[j].rack \in DOMAIN nodes
  BY <1>1 DEF NodesOK, NodeIssue
<1>3. nodes[j].rack = i
  BY <1>2, TopologyAssumption DEF removed, NodesOK
<1> QED BY <1>2, <1>3 DEF removed

LEMMA RemoveKeeps ==
  ASSUME Sound(nodes, edges), NEW i, Remove(i)
  PROVE  Kept
<1>1. i \in DOMAIN nodes
  BY DEF Remove
<1>2. \A j \in DOMAIN nodes \ removed(nodes, i) : nodes[j].rack \notin removed(nodes, i)
  BY <1>1, RacksGoWhole DEF Sound
<1> HIDE DEF removed
<1> QED BY <1>2, RemovingKeeps DEF Remove

LEMMA disconnectKeeps ==
  ASSUME Sound(nodes, edges), NEW gone, edges' = edges \ gone, nodes' = nodes
  PROVE  Kept
  BY FewerCablesAreSound, FewerCablesAreWired DEF Kept

LEMMA CountedIsOK ==
  ASSUME NodesOK(nodes), NEW i \in DOMAIN nodes, NEW key \in Counted(i), NEW n \in Nat,
         nodes' = [nodes EXCEPT ![i] = [@ EXCEPT ![key] = n]]
  PROVE  NodesOK(nodes') /\ DOMAIN nodes' = DOMAIN nodes
<1> DEFINE device == [nodes[i] EXCEPT ![key] = n]
<1>1. key \in {"ports", "psu", "outlets", "units", "size"}
  BY DEF Counted, CountKeys
<1>2. nodes[i] \in Device /\ (nodes[i].rack # Nowhere => Mountable(nodes, i, nodes[i].rack))
  BY WhereItIs
<1>3. device \in Device /\ device.rack = nodes[i].rack
  BY <1>1, <1>2 DEF Device
<1>4. nodes' = [nodes EXCEPT ![i] = device]
  OBVIOUS
<1> HIDE DEF device
<1>5. device.rack # Nowhere => Mountable(nodes, i, device.rack)
  BY <1>2, <1>3
<1>6. NodesOK([nodes EXCEPT ![i] = device]) /\ DOMAIN [nodes EXCEPT ![i] = device] = DOMAIN nodes
  BY <1>3, <1>5, ChangedIsOK
<1> QED BY <1>4, <1>6

LEMMA updateDetailsKeeps ==
  ASSUME Sound(nodes, edges), NEW i, NEW n \in Counts, NEW key, updateDetails(i, key, n)
  PROVE  Kept
<1>1. i \in DOMAIN nodes /\ key \in Counted(i) /\ edges' = edges /\ n \in Nat
  BY TopologyAssumption DEF updateDetails
<1>2. NodesOK(nodes') /\ DOMAIN nodes' = DOMAIN nodes
  BY <1>1, CountedIsOK DEF Sound, updateDetails
<1>3. \A j \in DOMAIN nodes : j # i => nodes'[j] = nodes[j]
  BY DEF updateDetails
<1>4. ASSUME NEW e \in edges, e.type = "power", Wired(nodes, edges)
      PROVE  ~PowerCableIssue(nodes', e)
  <2>1. /\ ~PowerCableIssue(nodes, e) /\ e \in Power(edges) /\ e.s \in DOMAIN nodes /\ e.t \in DOMAIN nodes
        /\ e.sh[1] = "out" /\ e.th[1] = "in"
    <3>1. ~PowerCableIssue(nodes, e) /\ e \in Power(edges)
      BY <1>4 DEF Wired, CableOK, Power
    <3>2. EdgesOK(nodes, edges) /\ e.s \in DOMAIN nodes /\ e.t \in DOMAIN nodes
      BY DEF Sound, EdgesOK
    <3> QED BY <3>1, <3>2, KindsOfPorts
  <2>2. UsedPowerHandles(edges, i)
           \subseteq Inputs(PowerInputCount(nodes', i)) \cup Sockets(PowerOutputCount(nodes', i))
    BY DEF updateDetails, CountFits
  <2>3. e.s = i => e.sh \in Sockets(PowerOutputCount(nodes', i))
    <3>1. e.s = i => e.sh \in UsedPowerHandles(edges, i)
      BY <2>1, SocketIsUsed DEF Ends
    <3>2. e.sh \notin Inputs(PowerInputCount(nodes', i))
      BY <2>1 DEF Inputs
    <3> QED BY <2>2, <3>1, <3>2
  <2>4. e.t = i => e.th \in Inputs(PowerInputCount(nodes', i))
    <3>1. e.t = i => e.th \in UsedPowerHandles(edges, i)
      BY <2>1, SocketIsUsed DEF Ends
    <3>2. e.th \notin Sockets(PowerOutputCount(nodes', i))
      BY <2>1 DEF Sockets
    <3> QED BY <2>2, <3>1, <3>2
  <2>5. e.s # i => e.sh \in Sockets(PowerOutputCount(nodes', e.s))
    BY <1>3, <2>1 DEF PowerCableIssue, PowerOutputCount
  <2>6. e.t # i => e.th \in Inputs(PowerInputCount(nodes', e.t))
    BY <1>3, <2>1 DEF PowerCableIssue, PowerInputCount
  <2> QED BY <2>3, <2>4, <2>5, <2>6 DEF PowerCableIssue
<1>5. Sound(nodes, edges)'
  BY <1>1, <1>2 DEF Sound, EdgesOK
<1>6. Wired(nodes, edges) => Wired(nodes', edges)
  BY <1>4, WiredElsewhere
<1> QED BY <1>1, <1>5, <1>6 DEF Kept

-----------------------------------------------------------------------------
(* The cables of a change set and of the canvas.                           *)

LEMMA PlugNetworkKeeps ==
  ASSUME Sound(nodes, edges), NEW c \in NetworkLink,
         c.s \in DOMAIN nodes, c.t \in DOMAIN nodes, c.s # c.t,
         Free(edges, c, c.s, c.sh), Free(edges, c, c.t, c.th),
         Wired(nodes, edges) => ~NetworkCableIssue(edges, c),
         nodes' = nodes, edges' = edges \cup {c}
  PROVE  Kept
<1>1. Sound(nodes, edges \cup {c})
  BY NetworkCableIsApart
<1>2. Wired(nodes, edges) => Wired(nodes, edges \cup {c})
  BY WiredWithNetwork
<1> QED BY <1>1, <1>2 DEF Kept

LEMMA PlugPowerKeeps ==
  ASSUME Sound(nodes, edges), NEW c \in PowerLink,
         c.s \in DOMAIN nodes, c.t \in DOMAIN nodes, c.s # c.t,
         c.sh \in Sockets(PowerOutputCount(nodes, c.s)) \ UsedPowerHandles(edges, c.s),
         c.th \in Inputs(PowerInputCount(nodes, c.t)) \ UsedPowerHandles(edges, c.t),
         ~powerPathExists(edges, c.t, c.s),
         nodes' = nodes, edges' = edges \cup {c}
  PROVE  Kept
<1>1. Sound(nodes, edges \cup {c})
  BY PowerCableIsApart
<1>2. Wired(nodes, edges) => Wired(nodes, edges \cup {c})
  BY WiredWithPower
<1> QED BY <1>1, <1>2 DEF Kept

LEMMA CountsAreNumbers ==
  ASSUME NEW ns, NodesOK(ns), NEW i \in DOMAIN ns
  PROVE  PortCount(ns, i) \in Nat /\ PowerInputCount(ns, i) \in Nat /\ PowerOutputCount(ns, i) \in Nat
<1>1. ns[i] \in Device
  BY DEF NodesOK
<1> QED BY <1>1 DEF Device, PortCount, PowerInputCount, PowerOutputCount

LEMMA PortsHaveKinds ==
  ASSUME NEW ns, NodesOK(ns), NEW i \in DOMAIN ns
  PROVE  /\ Eth(PortCount(ns, i)) \subseteq NetworkPort /\ Uplink \in NetworkPort
         /\ Inputs(PowerInputCount(ns, i)) \subseteq {"in"} \X Nat
         /\ Sockets(PowerOutputCount(ns, i)) \subseteq {"out"} \X Nat
         /\ \A h \in ValidHandles(ns, i) : ~IsPower(h) => h \in NetworkPort
<1>1. PortCount(ns, i) \in Nat /\ PowerInputCount(ns, i) \in Nat /\ PowerOutputCount(ns, i) \in Nat
  BY CountsAreNumbers
<1>2. Eth(PortCount(ns, i)) \subseteq NetworkPort /\ Uplink \in NetworkPort
  BY <1>1 DEF Eth, NetworkPort, Uplink
<1>3. Inputs(PowerInputCount(ns, i)) \subseteq {"in"} \X Nat
  BY <1>1 DEF Inputs
<1>4. Sockets(PowerOutputCount(ns, i)) \subseteq {"out"} \X Nat
  BY <1>1 DEF Sockets
<1>5. \A h \in ValidHandles(ns, i) : ~IsPower(h) => h \in NetworkPort
  BY <1>2, <1>3, <1>4 DEF ValidHandles, IsPower
<1> QED BY <1>2, <1>3, <1>4, <1>5

\* A cable of that type between a and b, from a free port to a free port.
FreshCable(es, c, a, b, type) ==
    /\ c \in NetworkLink /\ c.type = type
    /\ (c.s = a /\ c.t = b) \/ (c.s = b /\ c.t = a)
    /\ c.sh \notin UsedHandles(es, c.s) /\ c.th \notin UsedHandles(es, c.t)

LEMMA CableIsFresh ==
  ASSUME NEW es, NEW a \in Ids, NEW b \in Ids, NEW type \in LinkTypes,
         NEW ha \in NetworkPort \ UsedHandles(es, a), NEW hb \in NetworkPort \ UsedHandles(es, b)
  PROVE  /\ FreshCable(es, Cable(a, ha, b, hb, type), a, b, type)
         /\ FreshCable(es, Cable(a, ha, b, hb, type), b, a, type)
  BY DEF FreshCable, Cable, NetworkLink

LEMMA PickedPortsAreFree ==
  ASSUME NEW ns, NodesOK(ns), NEW es, NEW i \in DOMAIN ns
  PROVE  /\ firstFreePort(ns, es, i) \subseteq NetworkPort \ UsedHandles(es, i)
         /\ Landing(ns, es, i) \subseteq NetworkPort \ UsedHandles(es, i)
         /\ \A h : CanTake(ns, es, i, h) /\ h # NoHandle => h \in NetworkPort \ UsedHandles(es, i)
<1>1. firstFreePort(ns, es, i) \subseteq NetworkPort \ UsedHandles(es, i)
  BY PortsHaveKinds DEF firstFreePort, Lowest
<1>2. Landing(ns, es, i) \subseteq NetworkPort \ UsedHandles(es, i)
  BY <1>1, PortsHaveKinds DEF Landing
<1>3. \A h : CanTake(ns, es, i, h) /\ h # NoHandle => h \in NetworkPort \ UsedHandles(es, i)
  BY PortsHaveKinds DEF CanTake
<1> QED BY <1>1, <1>2, <1>3

LEMMA PickedCablesAreFresh ==
  ASSUME NEW ns, NodesOK(ns), NEW es, NEW a \in DOMAIN ns, NEW b \in DOMAIN ns,
         NEW type \in LinkTypes, NEW ha, NEW hb, NEW c \in pickHandles(ns, es, a, ha, b, hb, type)
  PROVE  FreshCable(es, c, a, b, type)
<1>1. a \in Ids /\ b \in Ids
  BY DEF NodesOK
<1>2. CanTake(ns, es, a, ha) /\ CanTake(ns, es, b, hb)
  BY DEF pickHandles
<1>3. CASE ha # NoHandle /\ hb # NoHandle
  <2>1. c = Cable(a, ha, b, hb, type)
    BY <1>2, <1>3 DEF pickHandles
  <2> QED BY <1>1, <1>2, <1>3, <2>1, PickedPortsAreFree, CableIsFresh
<1>4. CASE ha # NoHandle /\ hb = NoHandle
  <2>1. PICK h \in Landing(ns, es, b) : c = Cable(a, ha, b, h, type)
    BY <1>2, <1>4 DEF pickHandles
  <2> QED BY <1>1, <1>2, <1>4, <2>1, PickedPortsAreFree, CableIsFresh
<1>5. CASE ha = NoHandle /\ hb # NoHandle
  <2>1. PICK h \in firstFreePort(ns, es, a) : c = Cable(a, h, b, hb, type)
    BY <1>2, <1>5 DEF pickHandles
  <2> QED BY <1>1, <1>2, <1>5, <2>1, PickedPortsAreFree, CableIsFresh
<1>6. CASE ha = NoHandle /\ hb = NoHandle
  <2>1. CASE firstFreePort(ns, es, a) # {}
    <3>1. PICK h \in firstFreePort(ns, es, a), k \in Landing(ns, es, b) : c = Cable(a, h, b, k, type)
      BY <1>2, <1>6, <2>1 DEF pickHandles
    <3> QED BY <1>1, <3>1, PickedPortsAreFree, CableIsFresh
  <2>2. CASE firstFreePort(ns, es, a) = {}
    <3>1. PICK h \in {k \in firstFreePort(ns, es, b) : Uplink \notin UsedHandles(es, a)} :
             c = Cable(b, h, a, Uplink, type)
      BY <1>2, <1>6, <2>2 DEF pickHandles
    <3>2. Uplink \in NetworkPort \ UsedHandles(es, a)
      BY <3>1, PortsHaveKinds
    <3> QED BY <1>1, <3>1, <3>2, PickedPortsAreFree, CableIsFresh
  <2> QED BY <2>1, <2>2
<1> QED BY <1>3, <1>4, <1>5, <1>6

LEMMA LinkedAreFine ==
  ASSUME NEW es, NEW a, NEW b, NEW type \in LinkTypes, MayLink(es, a, b, type),
         NEW c, FreshCable(es, c, a, b, type)
  PROVE  ~NetworkCableIssue(es, c)
<1>1. ~IsPower(c.sh) /\ ~IsPower(c.th) /\ c.type = type
  BY DEF FreshCable, NetworkLink, NetworkPort, IsPower
<1>2. {c.s, c.t} = {a, b} /\ {TypeOf[c.s], TypeOf[c.t]} = {TypeOf[a], TypeOf[b]}
  BY DEF FreshCable
<1>3. /\ Wifi(c.s, c.t) <=> Wifi(a, b)
      /\ (Hub(c.s) \/ Hub(c.t)) <=> (Hub(a) \/ Hub(b))
      /\ (Source(c.s) \/ Source(c.t)) <=> (Source(a) \/ Source(b))
      /\ (Table(c.s) \/ Table(c.t)) <=> (Table(a) \/ Table(b))
  BY DEF FreshCable, Wifi
<1>4. \A f : Joins(f, c.s, c.t) <=> Joins(f, a, b)
  BY <1>2 DEF Joins
<1>5. Network(es) \subseteq es
  BY DEF Network
<1> QED BY <1>1, <1>2, <1>3, <1>4, <1>5 DEF MayLink, NetworkCableIssue

LEMMA PowerPicks ==
  ASSUME NEW es, NEW i, NEW want, NEW all
  PROVE  pickPower(es, i, want, all) \subseteq all \ UsedPowerHandles(es, i)
  BY DEF pickPower, Lowest

LEMMA PowerCablesKeep ==
  ASSUME Sound(nodes, edges), NEW a \in DOMAIN nodes, NEW b \in DOMAIN nodes, a # b,
         NEW ha, NEW hb, ~powerPathExists(edges, b, a),
         NEW c \in powerCables(nodes, edges, a, ha, b, hb), nodes' = nodes, edges' = edges \cup {c}
  PROVE  Kept
<1>1. PICK h \in pickPower(edges, a, ha, Sockets(PowerOutputCount(nodes, a))),
           k \in pickPower(edges, b, hb, Inputs(PowerInputCount(nodes, b))) :
             c = Cable(a, h, b, k, "power")
  BY DEF powerCables
<1>2. /\ h \in Sockets(PowerOutputCount(nodes, a)) \ UsedPowerHandles(edges, a)
      /\ k \in Inputs(PowerInputCount(nodes, b)) \ UsedPowerHandles(edges, b)
  BY <1>1, PowerPicks
<1>3. h \in {"out"} \X Nat /\ k \in {"in"} \X Nat
  BY <1>2, PortsHaveKinds DEF Sound
<1>4. /\ c \in PowerLink /\ c.s = a /\ c.t = b /\ c.sh = h /\ c.th = k
  BY <1>1, <1>3 DEF Cable, PowerLink, Sound, NodesOK
<1> QED BY <1>2, <1>4, PlugPowerKeeps

LEMMA connectKeeps ==
  ASSUME Sound(nodes, edges), NEW a, NEW b, NEW type \in LinkTypes \cup {"power"}, connect(a, b, type)
  PROVE  Kept
<1>1. a \in DOMAIN nodes /\ b \in DOMAIN nodes /\ MayConnect(edges, a, b, type) /\ a # b
  BY DEF connect, MayConnect
<1>2. PICK ha, hb : Plug(Cables(nodes, edges, a, ha, b, hb, type))
  BY DEF connect
<1>3. PICK c \in Cables(nodes, edges, a, ha, b, hb, type) : edges' = edges \cup {c} /\ nodes' = nodes
  BY <1>2 DEF Plug
<1>4. CASE type = "power"
  <2>1. MayFeed(edges, a, b) /\ c \in connectPower(nodes, edges, a, ha, b, hb)
    BY <1>1, <1>3, <1>4 DEF MayConnect, Cables
  <2>2. CASE Swapped(a, b)
    BY <1>1, <1>3, <2>1, <2>2, PowerCablesKeep DEF connectPower, MayFeed
  <2>3. CASE ~Swapped(a, b)
    BY <1>1, <1>3, <2>1, <2>3, PowerCablesKeep DEF connectPower, MayFeed
  <2> QED BY <2>2, <2>3
<1>5. CASE type # "power"
  <2>1. type \in LinkTypes /\ MayLink(edges, a, b, type)
    BY <1>1, <1>5 DEF MayConnect
  <2>2. \/ c \in pickHandles(nodes, edges, b, hb, a, ha, type)
        \/ c \in pickHandles(nodes, edges, a, ha, b, hb, type)
    BY <1>3, <1>5 DEF Cables, networkCables
  <2>3. FreshCable(edges, c, a, b, type) \/ FreshCable(edges, c, b, a, type)
    BY <1>1, <2>1, <2>2, PickedCablesAreFresh DEF Sound
  <2>4. FreshCable(edges, c, a, b, type)
    BY <2>3 DEF FreshCable
  <2>5. ~NetworkCableIssue(edges, c)
    BY <2>1, <2>4, LinkedAreFine
  <2>6. /\ c \in NetworkLink /\ c.s \in DOMAIN nodes /\ c.t \in DOMAIN nodes /\ c.s # c.t
        /\ Free(edges, c, c.s, c.sh) /\ Free(edges, c, c.t, c.th)
    BY <1>1, <2>4 DEF FreshCable, Free
  <2> QED BY <1>3, <2>5, <2>6, PlugNetworkKeeps
<1> QED BY <1>4, <1>5

LEMMA RetypedIsSound ==
  ASSUME NEW ns, NEW es, Sound(ns, es), NEW e \in Network(es), NEW type \in LinkTypes
  PROVE  /\ [e EXCEPT !.type = type] \in NetworkLink
         /\ Sound(ns, (es \ {e}) \cup {[e EXCEPT !.type = type]})
<1> DEFINE c == [e EXCEPT !.type = type]
           rest == es \ {e}
<1>1. e \in NetworkLink /\ e \in es
  BY KindsOfPorts DEF Sound, Network
<1>2. /\ c \in NetworkLink /\ c.s = e.s /\ c.t = e.t /\ c.sh = e.sh /\ c.th = e.th
  BY <1>1 DEF NetworkLink
<1>3. e.type # "power" /\ c.type # "power"
  BY <1>1, <1>2 DEF NetworkLink, LinkTypes
<1>4. PortsOf(c) = PortsOf(e)
  <2> HIDE DEF c
  <2> QED BY <1>2, <1>3 DEF PortsOf, Ends
<1> HIDE DEF c
<1>5. Apart(rest \cup {c})
  BY <1>1, <1>4 DEF Sound, Apart
<1>6. EdgesOK(ns, rest \cup {c})
  BY <1>1, <1>2 DEF Sound, EdgesOK, Link
<1>7. Sound(ns, rest \cup {c})
  BY <1>5, <1>6 DEF Sound
<1> QED BY <1>2, <1>7 DEF c

LEMMA updateConnectionKeeps ==
  ASSUME Sound(nodes, edges), NEW a, NEW b, NEW type \in LinkTypes, updateConnection(a, b, type)
  PROVE  Kept
<1>1. PICK e \in edges :
         /\ Joins(e, a, b) /\ e.type # "power"
         /\ type = "wireless" => {TypeOf[a], TypeOf[b]} \cap {"access_point", "iot"} # {}
         /\ Wifi(a, b) => type = "wireless"
         /\ Table(a) \/ Table(b) => type = "ethernet"
         /\ edges' = Retyped(e, type)
  BY DEF updateConnection
<1>2. e \in Network(edges) /\ nodes' = nodes
  BY <1>1 DEF Network, Power, updateConnection
<1> DEFINE c == [e EXCEPT !.type = type]
           rest == edges \ {e}
<1>3. edges' = rest \cup {c}
  BY <1>1 DEF Retyped
<1>4. e \in NetworkLink
  BY <1>1, <1>2, KindsOfPorts DEF Sound
<1>5. /\ c \in NetworkLink /\ c.s = e.s /\ c.t = e.t /\ c.sh = e.sh /\ c.th = e.th /\ c.type = type
  BY <1>4 DEF NetworkLink
<1>6. Sound(nodes, rest \cup {c})
  BY <1>2, RetypedIsSound
<1> HIDE DEF c
<1>7. ASSUME Wired(nodes, edges) PROVE Wired(nodes, rest \cup {c})
  <2>1. Sound(nodes, rest) /\ Wired(nodes, rest)
    BY <1>7, FewerCablesAreSound, FewerCablesAreWired
  <2>2. ~NetworkCableIssue(edges, e)
    BY <1>1, <1>7 DEF Wired, CableOK
  <2>3. /\ Wifi(e.s, e.t) <=> Wifi(a, b)
        /\ (Table(e.s) \/ Table(e.t)) <=> (Table(a) \/ Table(b))
        /\ {TypeOf[e.s], TypeOf[e.t]} = {TypeOf[a], TypeOf[b]}
    BY <1>1 DEF Joins, Wifi
  <2>4. \A f \in Network(rest) : f \in Network(edges) /\ f # e
    BY DEF Network, Power
  <2>5. ~NetworkCableIssue(rest, c)
    <3> HIDE DEF rest
    <3> QED BY <1>1, <1>5, <2>2, <2>3, <2>4 DEF NetworkCableIssue
  <2> QED BY <1>5, <2>1, <2>5, WiredWithNetwork
<1> QED BY <1>2, <1>3, <1>6, <1>7 DEF Kept

-----------------------------------------------------------------------------
(* What hands do on the canvas.                                            *)

\* Network loops are refused, and no card lies on the canvas as a device.
Usual == ~AllowLoops /\ \A i \in DOMAIN nodes : TypeOf[i] \notin NestedTypes

KeptUsually == Sound(nodes, edges)' /\ (Wired(nodes, edges) /\ Usual => Wired(nodes, edges)')

LEMMA KeptIsUsual == Kept => KeptUsually
  BY DEF Kept, KeptUsually

LEMMA PowerDrawnKeeps ==
  ASSUME Sound(nodes, edges), NEW a \in DOMAIN nodes, NEW b \in DOMAIN nodes, a # b,
         NEW ha \in ValidHandles(nodes, a), NEW hb \in ValidHandles(nodes, b),
         ha[1] = "out", hb[1] = "in",
         NEW c, c = Cable(a, ha, b, hb, "power"), checkPowerConnection(edges, c),
         nodes' = nodes, edges' = edges \cup {c}
  PROVE  Kept
<1>1. ha \in Sockets(PowerOutputCount(nodes, a)) /\ hb \in Inputs(PowerInputCount(nodes, b))
  BY DEF ValidHandles, Eth, Uplink, Inputs, Sockets
<1>2. ha \in {"out"} \X Nat /\ hb \in {"in"} \X Nat /\ a \in Ids /\ b \in Ids
  BY <1>1, PortsHaveKinds DEF Sound, NodesOK
<1>3. c \in PowerLink /\ c.s = a /\ c.t = b /\ c.sh = ha /\ c.th = hb
  BY <1>2 DEF Cable, PowerLink
<1>4. ASSUME NEW e \in Power(edges)
      PROVE  e \in edges /\ e.sh[1] = "out" /\ e.th[1] = "in"
  BY KindsOfPorts DEF Sound, Power
<1>5. ha \notin UsedPowerHandles(edges, a)
  BY <1>3, <1>4, SocketIsUsed DEF Ends, checkPowerConnection
<1>6. hb \notin UsedPowerHandles(edges, b)
  BY <1>3, <1>4, SocketIsUsed DEF Ends, checkPowerConnection
<1>7. ~powerPathExists(edges, c.t, c.s)
  BY DEF checkPowerConnection
<1> QED BY <1>1, <1>3, <1>5, <1>6, <1>7, PlugPowerKeeps

\* A source has power handles only, and a rack has none.
LEMMA NetworkHandleOf ==
  ASSUME NodesOK(nodes), NEW i \in DOMAIN nodes, NEW h \in ValidHandles(nodes, i), ~IsPower(h)
  PROVE  ~Source(i) /\ ~Rack(i)
  BY PortsHaveKinds DEF ValidHandles, IsPower

LEMMA WalkSeesCables ==
  ASSUME NEW es, IsFiniteSet(Cabled(es)), NEW e \in es, NEW a, NEW b, Joins(e, a, b), a # b
  PROVE  b \in ReachedBy(Cabled(es), a)
<1>1. <<a, b>> \in Cabled(es)
  <2>1. (e.s = a /\ e.t = b) \/ (e.s = b /\ e.t = a)
    BY DEF Joins
  <2> QED BY <2>1 DEF Cabled
<1>2. <<a, b>>[1] = a /\ <<a, b>>[2] = b
  OBVIOUS
<1> QED BY <1>1, <1>2, ReachedIsLeast DEF Closed

LEMMA NetworkDrawnKeeps ==
  ASSUME Sound(nodes, edges), NEW a \in DOMAIN nodes, NEW b \in DOMAIN nodes, a # b,
         NEW ha \in ValidHandles(nodes, a), NEW hb \in ValidHandles(nodes, b),
         ~IsPower(ha), ~IsPower(hb), NEW c \in onConnect(a, ha, b, hb),
         checkConnection(edges, a, ha, b, hb), nodes' = nodes, edges' = edges \cup {c}
  PROVE  KeptUsually
<1>1. ha \in NetworkPort /\ hb \in NetworkPort /\ a \in Ids /\ b \in Ids
  BY PortsHaveKinds DEF Sound, NodesOK
<1>2. PICK type \in {"wireless", "ethernet"} :
         /\ c = Cable(a, ha, b, hb, type)
         /\ type = "wireless" <=> /\ "access_point" \in {TypeOf[a], TypeOf[b]}
                                  /\ Wifi(a, b) \/ ~(Table(a) \/ Table(b))
  BY DEF onConnect
<1>3. c \in NetworkLink /\ c.s = a /\ c.t = b /\ c.sh = ha /\ c.th = hb /\ c.type = type
  BY <1>1, <1>2 DEF Cable, NetworkLink, LinkTypes
<1>4. Free(edges, c, a, ha) /\ Free(edges, c, b, hb)
  BY <1>3 DEF checkConnection, Free
<1>5. Sound(nodes, edges \cup {c})
  BY <1>3, <1>4, NetworkCableIsApart
<1>6. ASSUME Usual, Wired(nodes, edges) PROVE ~NetworkCableIssue(edges, c)
  <2>1. ~Source(a) /\ ~Source(b) /\ ~Rack(a) /\ ~Rack(b)
    BY NetworkHandleOf DEF Sound
  <2>2. ~\E f \in Network(edges) : Joins(f, a, b)
    <3>1. b \notin ReachedBy(Cabled(Network(edges)), a)
      BY <1>6 DEF Usual, checkConnection
    <3>2. IsFiniteSet(Cabled(Network(edges)))
      <4>1. Cabled(Network(edges)) \subseteq Cabled(edges)
        BY DEF Cabled, Network
      <4> QED BY <4>1, FeedsAreFinite, FS_Subset DEF Sound
    <3> QED BY <3>1, <3>2, WalkSeesCables
  <2>3. {TypeOf[a], TypeOf[b]} \cap Uncabled = {}
    BY <1>6, <2>1 DEF Usual, Uncabled, Rack
  <2>4. Wifi(a, b) \/ Hub(a) \/ Hub(b)
    BY <1>6 DEF Usual, checkConnection, Hub, NestedTypes
  <2>5. Wifi(a, b) => type = "wireless"
    BY <1>2 DEF Wifi
  <2>6. Table(a) \/ Table(b) => type = "ethernet"
    BY <1>2 DEF Wifi, Table, WifiClients
  <2>7. \A i \in {a, b} : Table(i) => ~\E f \in Network(edges) : i \in {f.s, f.t}
    BY DEF checkConnection
  <2>8. type = "wireless" => {TypeOf[a], TypeOf[b]} \cap {"access_point", "iot"} # {}
    BY <1>2
  <2> QED BY <1>3, <2>1, <2>2, <2>3, <2>4, <2>5, <2>6, <2>7, <2>8 DEF NetworkCableIssue
<1>7. Wired(nodes, edges) /\ Usual => Wired(nodes, edges \cup {c})
  BY <1>3, <1>6, WiredWithNetwork
<1> QED BY <1>5, <1>7 DEF KeptUsually

LEMMA DrawKeeps ==
  ASSUME Sound(nodes, edges), Draw
  PROVE  KeptUsually
<1>0. PICK a \in DOMAIN nodes, b \in DOMAIN nodes :
         a # b /\ \E ha \in ValidHandles(nodes, a), hb \in ValidHandles(nodes, b) :
                     Plug(Drawn(edges, a, ha, b, hb))
  BY DEF Draw
<1>1. PICK ha \in ValidHandles(nodes, a), hb \in ValidHandles(nodes, b) :
         Plug(Drawn(edges, a, ha, b, hb))
  BY <1>0
<1>2. PICK c \in Drawn(edges, a, ha, b, hb) : edges' = edges \cup {c} /\ nodes' = nodes
  BY <1>0, <1>1 DEF Plug
<1>3. CASE IsPower(ha) \/ IsPower(hb)
  <2>1. c \in normalizePowerConnection(a, ha, b, hb) /\ checkPowerConnection(edges, c)
    BY <1>2, <1>3 DEF Drawn
  <2>2. CASE ha[1] = "out" /\ hb[1] = "in"
    <3>1. c = Cable(a, ha, b, hb, "power")
      BY <2>1, <2>2 DEF normalizePowerConnection
    <3> QED BY <1>0, <1>1, <1>2, <2>1, <2>2, <3>1, PowerDrawnKeeps, KeptIsUsual
  <2>3. CASE ha[1] = "in" /\ hb[1] = "out"
    <3>1. c = Cable(b, hb, a, ha, "power")
      BY <2>1, <2>3 DEF normalizePowerConnection
    <3> QED BY <1>0, <1>1, <1>2, <2>1, <2>3, <3>1, PowerDrawnKeeps, KeptIsUsual
  <2>4. CASE ~(ha[1] = "out" /\ hb[1] = "in") /\ ~(ha[1] = "in" /\ hb[1] = "out")
    BY <2>1, <2>4 DEF normalizePowerConnection
  <2> QED BY <2>2, <2>3, <2>4
<1>4. CASE ~(IsPower(ha) \/ IsPower(hb))
  <2>1. c \in onConnect(a, ha, b, hb) /\ checkConnection(edges, a, ha, b, hb)
    BY <1>2, <1>4 DEF Drawn
  <2> QED BY <1>0, <1>1, <1>2, <1>4, <2>1, NetworkDrawnKeeps
<1> QED BY <1>3, <1>4

LEMMA onDropKeeps ==
  ASSUME Sound(nodes, edges), NEW i \in Ids, NEW device \in Devices(i), NEW r, NEW slot \in Slots,
         onDrop(i, device, r, slot)
  PROVE  Kept
<1> DEFINE dropped == [device EXCEPT !.rack = r, !.slot = IF r = Nowhere THEN 0 ELSE slot]
           where == IF r = Nowhere THEN 0 ELSE slot
<1>1. /\ i \in Ids \ DOMAIN nodes /\ (r # Nowhere => Mountable(nodes, i, r))
      /\ nodes' = With(nodes, i, dropped) /\ edges' = edges
  BY DEF onDrop
<1>2. device \in Device /\ r \in Ids \cup {Nowhere} /\ where \in Nat
  BY <1>1, DevicesAreDevices, TopologyAssumption DEF Mountable, Sound, NodesOK
<1>3. Placed(device, r, where) \in Device /\ Placed(device, r, where).rack = r
  <2> HIDE DEF where
  <2> QED BY <1>2, PlacedIsDevice
<1>4. dropped \in Device /\ dropped.rack = r
  BY <1>3 DEF Placed
<1> HIDE DEF dropped
<1>5. /\ NodesOK(With(nodes, i, dropped)) /\ DOMAIN With(nodes, i, dropped) = DOMAIN nodes \cup {i}
      /\ \A j \in DOMAIN nodes : With(nodes, i, dropped)[j] = nodes[j]
  <2>1. dropped.rack # Nowhere => Mountable(nodes, i, dropped.rack)
    BY <1>1, <1>4
  <2>2. NodesOK(nodes) /\ i \in Ids \ DOMAIN nodes
    BY <1>1 DEF Sound
  <2> QED BY <1>4, <2>1, <2>2, AddedIsOK
<1> QED BY <1>1, <1>5, DevicesKept

LEMMA onNodeDragStopKeeps ==
  ASSUME Sound(nodes, edges), NEW i, NEW r, NEW slot \in Slots, onNodeDragStop(i, r, slot)
  PROVE  Kept
<1>1. i \in DOMAIN nodes /\ slot \in Nat /\ (r # Nowhere => Mountable(nodes, i, r))
  BY TopologyAssumption DEF onNodeDragStop
<1>2. nodes' = [nodes EXCEPT ![i].rack = r, ![i].slot = slot] /\ edges' = edges
  BY DEF onNodeDragStop
<1> QED BY <1>1, <1>2, PlacingKeeps

LEMMA duplicateHardwareKeeps ==
  ASSUME Sound(nodes, edges), NEW i, NEW copy \in Ids, duplicateHardware(i, copy)
  PROVE  Kept
<1>1. /\ i \in DOMAIN nodes /\ copy \in Ids \ DOMAIN nodes /\ ~Rack(copy) /\ TypeOf[copy] = TypeOf[i]
      /\ nodes' = With(nodes, copy, nodes[i]) /\ edges' = edges
  BY DEF duplicateHardware, Rack
<1>2. nodes[i] \in Device /\ (nodes[i].rack # Nowhere => Mountable(nodes, copy, nodes[i].rack))
  BY <1>1, WhereItIs DEF Mountable, Sound
<1>3. /\ NodesOK(nodes') /\ DOMAIN nodes' = DOMAIN nodes \cup {copy}
      /\ \A j \in DOMAIN nodes : nodes'[j] = nodes[j]
  BY <1>1, <1>2, AddedIsOK DEF Sound
<1> QED BY <1>1, <1>3, DevicesKept

LEMMA onNodesChangeKeeps ==
  ASSUME Sound(nodes, edges), NEW gone \in SUBSET DOMAIN nodes, onNodesChange(gone)
  PROVE  Kept
<1> DEFINE all == UNION {removed(nodes, i) : i \in gone}
<1>1. ASSUME NEW j \in DOMAIN nodes \ all, nodes[j].rack \in all PROVE FALSE
  <2>1. PICK i \in gone : nodes[j].rack \in removed(nodes, i)
    BY <1>1
  <2>2. j \in removed(nodes, i)
    BY <2>1, RacksGoWhole DEF Sound
  <2> QED BY <1>1, <2>2
<1>2. nodes' = Without(nodes, all) /\ edges' = Unplugged(edges, all)
  BY DEF onNodesChange
<1> HIDE DEF all
<1> QED BY <1>1, <1>2, RemovingKeeps

-----------------------------------------------------------------------------
(* Every operation, every move of the hand and every panel.                *)

LEMMA OpsKeep ==
  ASSUME Sound(nodes, edges), Ops
  PROVE  Kept
<1>1. CASE \E i \in Joining, r \in DOMAIN nodes \cup {Nowhere}, want \in Wants :
             \E device \in Devices(i) : addNode(i, device, r, want)
  BY <1>1, addNodeKeeps DEF Joining
<1>2. CASE \E i \in DOMAIN nodes, n \in Counts : \E key \in Counted(i) : updateDetails(i, key, n)
  BY <1>2, updateDetailsKeeps
<1>3. CASE \E i, r \in DOMAIN nodes, want \in Wants : updateParent(i, r, want)
  BY <1>3, updateParentKeeps
<1>4. CASE \E i \in DOMAIN nodes : unmount(i) \/ Remove(i)
  BY <1>4, unmountKeeps, RemoveKeeps
<1>5. CASE \E a, b \in DOMAIN nodes, type \in LinkTypes \cup {"power"} : connect(a, b, type)
  BY <1>5, connectKeeps
<1>6. CASE \E a, b \in DOMAIN nodes : disconnect(a, b)
  BY <1>6, disconnectKeeps DEF disconnect
<1>7. CASE \E a, b \in DOMAIN nodes, type \in LinkTypes : updateConnection(a, b, type)
  BY <1>7, updateConnectionKeeps
<1> QED BY <1>1, <1>2, <1>3, <1>4, <1>5, <1>6, <1>7 DEF Ops

LEMMA HandsKeep ==
  ASSUME Sound(nodes, edges), Hands
  PROVE  KeptUsually
<1>1. CASE Draw
  BY <1>1, DrawKeeps
<1>2. CASE \E i \in Joining, r \in DOMAIN nodes \cup {Nowhere}, slot \in Slots :
             \E device \in Devices(i) : onDrop(i, device, r, slot)
  BY <1>2, onDropKeeps, KeptIsUsual DEF Joining
<1>3. CASE \E i \in DOMAIN nodes, r \in DOMAIN nodes \cup {Nowhere}, slot \in Slots :
             onNodeDragStop(i, r, slot)
  BY <1>3, onNodeDragStopKeeps, KeptIsUsual
<1>4. CASE \E i \in DOMAIN nodes, copy \in Joining : duplicateHardware(i, copy)
  BY <1>4, duplicateHardwareKeeps, KeptIsUsual DEF Joining
<1>5. CASE \E gone \in SUBSET DOMAIN nodes : gone # {} /\ onNodesChange(gone)
  BY <1>5, onNodesChangeKeeps, KeptIsUsual
<1>6. CASE \E e \in edges : onEdgesChange({e})
  BY <1>6, disconnectKeeps, KeptIsUsual DEF onEdgesChange
<1> QED BY <1>1, <1>2, <1>3, <1>4, <1>5, <1>6 DEF Hands

LEMMA updateEdgeIsSound ==
  ASSUME Sound(nodes, edges), NEW e \in edges, NEW type \in LinkTypes, updateEdge(e, type)
  PROVE  Sound(nodes, edges)'
<1>1. nodes' = nodes /\ edges' = Retyped(e, requiredType(e, type))
  BY DEF updateEdge
<1>2. CASE e.type = "power"
  <2>1. e \in PowerLink
    BY <1>2, KindsOfPorts DEF Sound, Power
  <2>2. [e EXCEPT !.type = "power"] = e
    BY <2>1 DEF PowerLink
  <2>3. requiredType(e, type) = "power"
    BY <1>2 DEF requiredType
  <2>4. edges' = edges
    BY <1>1, <2>2, <2>3 DEF Retyped
  <2> QED BY <1>1, <2>4
<1>3. CASE e.type # "power"
  <2>1. e \in Network(edges)
    BY <1>3 DEF Network, Power
  <2>2. requiredType(e, type) \in LinkTypes
    BY <1>3 DEF requiredType, LinkTypes
  <2>3. Sound(nodes, Retyped(e, requiredType(e, type)))
    BY <2>1, <2>2, RetypedIsSound DEF Retyped
  <2> QED BY <1>1, <2>3
<1> QED BY <1>2, <1>3

LEMMA PanelsAreSound ==
  ASSUME Sound(nodes, edges), Panels
  PROVE  Sound(nodes, edges)'
<1>1. CASE \E i \in DOMAIN nodes, n \in Counts : \E key \in Counted(i) : updateHardware(i, key, n)
  <2>1. PICK i \in DOMAIN nodes, n \in Counts : \E key \in Counted(i) : updateHardware(i, key, n)
    BY <1>1
  <2>2. PICK key \in Counted(i) : updateHardware(i, key, n)
    BY <2>1
  <2>3. n \in Nat
    BY TopologyAssumption
  <2>4. NodesOK(nodes') /\ DOMAIN nodes' = DOMAIN nodes /\ edges' \subseteq edges
    BY <2>2, <2>3, CountedIsOK DEF updateHardware, Sound
  <2>5. Sound(nodes', edges)
    BY <2>4 DEF Sound, EdgesOK
  <2>6. Sound(nodes', edges')
    BY <2>4, <2>5, FewerCablesAreSound
  <2> QED BY <2>6
<1>2. CASE \E e \in edges, type \in LinkTypes : updateEdge(e, type)
  BY <1>2, updateEdgeIsSound
<1> QED BY <1>1, <1>2 DEF Panels

-----------------------------------------------------------------------------
(* Racks.                                                                  *)

\* Nothing sticks out of its rack or overlaps that did not before.
NoWorse(ns, new) ==
    \A i \in DOMAIN new :
       /\ Outside(new, i) => i \in DOMAIN ns /\ Outside(ns, i)
       /\ \A j \in DOMAIN new : Overlap(new, i, j) => {i, j} \subseteq DOMAIN ns /\ Overlap(ns, i, j)

LEMMA PlacedIsNoWorse ==
  ASSUME NEW ns, NodesOK(ns), NEW i \in DOMAIN ns, NEW r, Mountable(ns, i, r),
         NEW s \in Nat, fits(ns, r, i, s)
  PROVE  LET new == [ns EXCEPT ![i] = Placed(ns[i], r, s)]
         IN  \A j \in DOMAIN ns : /\ Outside(new, j) => j # i /\ Outside(ns, j)
                                  /\ \A k \in DOMAIN ns :
                                       Overlap(new, j, k) => j # i /\ k # i /\ Overlap(ns, j, k)
<1> DEFINE device == Placed(ns[i], r, s)
           new == [ns EXCEPT ![i] = device]
<1>1. ns[i] \in Device /\ r \in Ids /\ r \in DOMAIN ns /\ r # i
  BY DEF NodesOK, Mountable
<1>2. device.rack = r /\ device.slot = s /\ device.units = ns[i].units /\ device.size = ns[i].size
  <2>1. r \in Ids \cup {Nowhere}
    BY <1>1
  <2> QED BY <1>1, <2>1, PlacedIsDevice
<1> HIDE DEF device
<1>3. new[i] = device /\ \A j \in DOMAIN ns : j # i => new[j] = ns[j]
  OBVIOUS
<1> HIDE DEF new
<1>4. \A j \in DOMAIN ns : ns[j].rack # Nowhere => ns[j].rack \in DOMAIN ns
  BY DEF NodesOK, NodeIssue
<1>5. \A j \in DOMAIN ns : new[j].size = ns[j].size
  BY <1>2, <1>3
<1>6. ASSUME NEW j \in DOMAIN ns, Outside(new, j) PROVE j # i /\ Outside(ns, j)
  <2>1. j # i
    BY <1>1, <1>2, <1>3, <1>5, <1>6 DEF Outside, fits, NodesOK, Device
  <2> QED BY <1>3, <1>4, <1>5, <1>6, <2>1 DEF Outside
<1>7. ASSUME NEW j \in DOMAIN ns, NEW k \in DOMAIN ns, j # i, k # i, Overlap(new, j, k)
      PROVE  Overlap(ns, j, k)
  BY <1>3, <1>7 DEF Overlap, SlotsOf
<1>8. ASSUME NEW j \in DOMAIN ns, j # i, new[j].rack = r
      PROVE  SlotsOf(new, i) \cap SlotsOf(new, j) = {}
  <2>1. SlotsOf(new, j) = SlotsOf(ns, j) /\ ns[j].rack = r
    BY <1>3, <1>8 DEF SlotsOf
  <2>2. SlotsOf(ns, j) \subseteq Occupied(ns, r, i)
    BY <1>8, <2>1 DEF Occupied
  <2>3. SlotsOf(new, i) = s .. (s + ns[i].units - 1)
    BY <1>2, <1>3 DEF SlotsOf
  <2> QED BY <2>1, <2>2, <2>3 DEF fits
<1>9. ASSUME NEW j \in DOMAIN ns, NEW k \in DOMAIN ns, Overlap(new, j, k)
      PROVE  j # i /\ k # i /\ Overlap(ns, j, k)
  <2>1. CASE j = i
    BY <1>2, <1>3, <1>8, <1>9, <2>1 DEF Overlap
  <2>2. CASE k = i
    BY <1>2, <1>3, <1>8, <1>9, <2>2 DEF Overlap
  <2> QED BY <1>7, <1>9, <2>1, <2>2
<1> QED BY <1>6, <1>9 DEF new, device

LEMMA AddedIsNoWorse ==
  ASSUME NEW ns, NodesOK(ns), NEW i \in Ids \ DOMAIN ns, NEW device \in Device, device.rack = Nowhere
  PROVE  \A j \in DOMAIN ns \cup {i} :
            /\ Outside(With(ns, i, device), j) => j # i /\ Outside(ns, j)
            /\ \A k \in DOMAIN ns \cup {i} :
                 Overlap(With(ns, i, device), j, k) => j # i /\ k # i /\ Overlap(ns, j, k)
<1> DEFINE more == With(ns, i, device)
<1>1. more[i] = device /\ \A j \in DOMAIN ns : more[j] = ns[j]
  BY DEF With
<1> HIDE DEF more
<1>2. \A j \in DOMAIN ns : ns[j].rack # Nowhere => ns[j].rack \in DOMAIN ns
  BY DEF NodesOK, NodeIssue
<1>3. ASSUME NEW j \in DOMAIN ns \cup {i}, Outside(more, j) PROVE j # i /\ Outside(ns, j)
  BY <1>1, <1>2, <1>3 DEF Outside
<1>4. ASSUME NEW j \in DOMAIN ns \cup {i}, NEW k \in DOMAIN ns \cup {i}, Overlap(more, j, k)
      PROVE  j # i /\ k # i /\ Overlap(ns, j, k)
  <2>1. j # i /\ k # i
    BY <1>1, <1>4 DEF Overlap
  <2> QED BY <1>1, <1>4, <2>1 DEF Overlap, SlotsOf
<1> QED BY <1>3, <1>4 DEF more

LEMMA addNodeNoWorse ==
  ASSUME NodesOK(nodes), NEW i \in Ids, NEW device \in Devices(i), NEW r, NEW want,
         addNode(i, device, r, want)
  PROVE  NoWorse(nodes, nodes')
<1> DEFINE added == With(nodes, i, device)
<1>1. i \in Ids \ DOMAIN nodes /\ device \in Device /\ device.rack = Nowhere
  BY DevicesAreDevices DEF addNode
<1>2. NodesOK(added) /\ DOMAIN added = DOMAIN nodes \cup {i}
  BY <1>1, AddedIsOK
<1>3. \A j \in DOMAIN added :
            /\ Outside(added, j) => j # i /\ Outside(nodes, j)
            /\ \A k \in DOMAIN added : Overlap(added, j, k) => j # i /\ k # i /\ Overlap(nodes, j, k)
  BY <1>1, <1>2, AddedIsNoWorse
<1>4. CASE nodes' = added
  <2> HIDE DEF added
  <2> QED BY <1>2, <1>3, <1>4 DEF NoWorse
<1>5. CASE nodes' \in rackNode(added, i, r, want)
  <2> HIDE DEF added
  <2>1. PICK s \in Slots : fits(added, r, i, s) /\ nodes' = [added EXCEPT ![i] = Placed(added[i], r, s)]
    BY <1>2, <1>5, RackNodePlaces
  <2>2. Mountable(added, i, r) /\ s \in Nat /\ DOMAIN nodes' = DOMAIN added
    BY <1>2, <1>5, <2>1, RackNodePlaces, TopologyAssumption
  <2>3. \A j \in DOMAIN added : /\ Outside(nodes', j) => j # i /\ Outside(added, j)
                                /\ \A k \in DOMAIN added :
                                     Overlap(nodes', j, k) => j # i /\ k # i /\ Overlap(added, j, k)
    BY <1>2, <2>1, <2>2, PlacedIsNoWorse
  <2> QED BY <1>2, <1>3, <2>2, <2>3 DEF NoWorse
<1> QED BY <1>4, <1>5 DEF addNode

LEMMA updateParentNoWorse ==
  ASSUME NodesOK(nodes), NEW i, NEW r, NEW want, updateParent(i, r, want)
  PROVE  NoWorse(nodes, nodes')
<1>1. i \in DOMAIN nodes /\ nodes' \in rackNode(nodes, i, r, want)
  BY DEF updateParent
<1>2. PICK s \in Slots : fits(nodes, r, i, s) /\ nodes' = [nodes EXCEPT ![i] = Placed(nodes[i], r, s)]
  BY <1>1, RackNodePlaces
<1>3. Mountable(nodes, i, r) /\ s \in Nat /\ DOMAIN nodes' = DOMAIN nodes
  BY <1>1, <1>2, RackNodePlaces, TopologyAssumption
<1>4. \A j \in DOMAIN nodes : /\ Outside(nodes', j) => j # i /\ Outside(nodes, j)
                              /\ \A k \in DOMAIN nodes :
                                   Overlap(nodes', j, k) => j # i /\ k # i /\ Overlap(nodes, j, k)
  BY <1>1, <1>2, <1>3, PlacedIsNoWorse
<1> QED BY <1>3, <1>4 DEF NoWorse

LEMMA unmountNoWorse ==
  ASSUME NodesOK(nodes), NEW i, unmount(i)
  PROVE  NoWorse(nodes, nodes')
<1>1. i \in DOMAIN nodes /\ nodes' = [nodes EXCEPT ![i].rack = Nowhere, ![i].slot = 0]
  BY DEF unmount
<1>2. /\ DOMAIN nodes' = DOMAIN nodes /\ nodes'[i].rack = Nowhere
      /\ \A j \in DOMAIN nodes : j # i => nodes'[j] = nodes[j]
      /\ \A j \in DOMAIN nodes : nodes'[j].size = nodes[j].size
  BY <1>1 DEF NodesOK, Device
<1>3. \A j \in DOMAIN nodes : nodes[j].rack # Nowhere => nodes[j].rack \in DOMAIN nodes
  BY DEF NodesOK, NodeIssue
<1>4. ASSUME NEW j \in DOMAIN nodes, Outside(nodes', j) PROVE Outside(nodes, j)
  BY <1>2, <1>3, <1>4 DEF Outside
<1>5. ASSUME NEW j \in DOMAIN nodes, NEW k \in DOMAIN nodes, Overlap(nodes', j, k) PROVE Overlap(nodes, j, k)
  <2>1. j # i /\ k # i
    BY <1>2, <1>5 DEF Overlap
  <2> QED BY <1>2, <1>5, <2>1 DEF Overlap, SlotsOf
<1> QED BY <1>2, <1>4, <1>5 DEF NoWorse

LEMMA RemoveNoWorse ==
  ASSUME NodesOK(nodes), NEW i, Remove(i)
  PROVE  NoWorse(nodes, nodes')
<1> DEFINE gone == removed(nodes, i)
<1>1. i \in DOMAIN nodes /\ nodes' = Without(nodes, gone)
  BY DEF Remove
<1>2. \A j \in DOMAIN nodes \ gone : nodes[j].rack \notin gone
  BY <1>1, RacksGoWhole
<1> HIDE DEF gone
<1>3. DOMAIN nodes' = DOMAIN nodes \ gone /\ \A j \in DOMAIN nodes' : nodes'[j] = nodes[j]
  BY <1>1 DEF Without
<1>4. \A j \in DOMAIN nodes' : nodes[j].rack # Nowhere => nodes[j].rack \in DOMAIN nodes'
  BY <1>2, <1>3 DEF NodesOK, NodeIssue
<1> QED BY <1>3, <1>4 DEF NoWorse, Outside, Overlap, SlotsOf

LEMMA updateDetailsNoWorse ==
  ASSUME NodesOK(nodes), NEW i, NEW n \in Counts, NEW key, updateDetails(i, key, n)
  PROVE  NoWorse(nodes, nodes')
<1>1. /\ i \in DOMAIN nodes /\ key \in Counted(i) /\ n \in Nat
      /\ nodes' = [nodes EXCEPT ![i] = [@ EXCEPT ![key] = n]] /\ CountFits(nodes', i)
  BY TopologyAssumption DEF updateDetails
<1>2. NodesOK(nodes') /\ DOMAIN nodes' = DOMAIN nodes
  BY <1>1, CountedIsOK
<1>3. \A j \in DOMAIN nodes : j # i => nodes'[j] = nodes[j]
  BY <1>1
<1>4. nodes'[i].rack = nodes[i].rack /\ nodes'[i].slot = nodes[i].slot
  <2>1. key \in {"ports", "psu", "outlets", "units", "size"}
    BY <1>1 DEF Counted, CountKeys
  <2>2. nodes[i] \in Device
    BY <1>1 DEF NodesOK
  <2> QED BY <1>1, <2>1, <2>2 DEF Device
<1>5. \A j \in DOMAIN nodes : nodes[j].rack # Nowhere => /\ nodes[j].rack \in DOMAIN nodes
                                                         /\ Rack(nodes[j].rack) /\ ~Rack(j)
  BY DEF NodesOK, NodeIssue
<1>6. ASSUME NEW j \in DOMAIN nodes, Outside(nodes', j) PROVE Outside(nodes, j)
  <2>1. nodes'[j].rack # Nowhere /\ nodes'[j].slot + nodes'[j].units > nodes'[nodes'[j].rack].size
    BY <1>6 DEF Outside
  <2>2. nodes'[j] \in Device /\ nodes'[nodes'[j].rack] \in Device
    BY <1>2, <2>1 DEF NodesOK, NodeIssue
  <2>3. nodes'[j].rack # i
    BY <1>1, <1>2, <1>3, <1>4, <1>5, <2>1, <2>2 DEF CountFits, Device
  <2>4. j # i
    BY <1>1, <2>1, <2>2 DEF CountFits, fits, Device
  <2> QED BY <1>3, <1>5, <1>6, <2>3, <2>4 DEF Outside
<1>7. ASSUME NEW j \in DOMAIN nodes, j # i, nodes'[i].rack # Nowhere, nodes'[j].rack = nodes'[i].rack
      PROVE  SlotsOf(nodes', i) \cap SlotsOf(nodes', j) = {}
  <2>1. SlotsOf(nodes', j) \subseteq Occupied(nodes', nodes'[i].rack, i)
    BY <1>2, <1>7 DEF Occupied
  <2>2. fits(nodes', nodes'[i].rack, i, nodes'[i].slot)
    BY <1>1, <1>7 DEF CountFits
  <2> QED BY <2>1, <2>2 DEF fits, SlotsOf
<1>8. ASSUME NEW j \in DOMAIN nodes, NEW k \in DOMAIN nodes, Overlap(nodes', j, k) PROVE Overlap(nodes, j, k)
  <2>1. j # i
    BY <1>7, <1>8 DEF Overlap
  <2>2. k # i
    BY <1>7, <1>8 DEF Overlap
  <2> QED BY <1>3, <1>8, <2>1, <2>2 DEF Overlap, SlotsOf
<1> QED BY <1>2, <1>6, <1>8 DEF NoWorse

LEMMA SameIsNoWorse == NoWorse(nodes, nodes)
  BY DEF NoWorse

LEMMA OpsNoWorse ==
  ASSUME NodesOK(nodes), Ops
  PROVE  NoWorse(nodes, nodes')
<1>1. CASE \E i \in Joining, r \in DOMAIN nodes \cup {Nowhere}, want \in Wants :
             \E device \in Devices(i) : addNode(i, device, r, want)
  BY <1>1, addNodeNoWorse DEF Joining
<1>2. CASE \E i \in DOMAIN nodes, n \in Counts : \E key \in Counted(i) : updateDetails(i, key, n)
  BY <1>2, updateDetailsNoWorse
<1>3. CASE \E i, r \in DOMAIN nodes, want \in Wants : updateParent(i, r, want)
  BY <1>3, updateParentNoWorse
<1>4. CASE \E i \in DOMAIN nodes : unmount(i) \/ Remove(i)
  BY <1>4, unmountNoWorse, RemoveNoWorse
<1>5. CASE nodes' = nodes
  BY <1>5, SameIsNoWorse
<1> QED BY <1>1, <1>2, <1>3, <1>4, <1>5 DEF Ops, connect, Plug, disconnect, updateConnection

-----------------------------------------------------------------------------
(* Builds of older versions.                                               *)

Rest(build) == build.edges \ OldCables(build.edges)

\* What remains of a build while its old cables are settled one after the other.
Settling(build) ==
    /\ IsFiniteSet(build.edges) /\ EdgesOK(build.nodes, build.edges)
    /\ Sound(build.nodes, Rest(build)) /\ Wired(build.nodes, Rest(build))

LEMMA EndsOfOldCables ==
  ASSUME NEW build, Settling(build), NEW e \in OldCables(build.edges)
  PROVE  /\ e \in build.edges
         /\ Source(Feeder(e)) /\ Feeder(e) # Fed(e)
         /\ Feeder(e) \in DOMAIN build.nodes /\ Fed(e) \in DOMAIN build.nodes
<1>1. e \in build.edges /\ (Source(e.s) \/ Source(e.t))
  BY DEF OldCables, Network
<1>2. e.s \in DOMAIN build.nodes /\ e.t \in DOMAIN build.nodes /\ e.s # e.t
  BY <1>1 DEF Settling, EdgesOK
<1> QED BY <1>1, <1>2 DEF Feeder, Fed, feedsInstead

LEMMA OneOldCableLess ==
  ASSUME NEW es, NEW e \in OldCables(es)
  PROVE  /\ OldCables(es \ {e}) = OldCables(es) \ {e}
         /\ (es \ {e}) \ OldCables(es \ {e}) = es \ OldCables(es)
         /\ Power(es \ {e}) = Power(es \ OldCables(es))
         /\ \A c : c.type = "power" => OldCables((es \ {e}) \cup {c}) = OldCables(es) \ {e}
  BY DEF OldCables, Network, Power

LEMMA GrownIsOK ==
  ASSUME NEW ns, NodesOK(ns), NEW i \in DOMAIN ns, Source(i), NEW socket \in {"out"} \X Nat
  PROVE  /\ NodesOK(Grown(ns, i, socket)) /\ DOMAIN Grown(ns, i, socket) = DOMAIN ns
         /\ socket \in Sockets(PowerOutputCount(Grown(ns, i, socket), i))
         /\ \A j \in DOMAIN ns :
              /\ PowerInputCount(Grown(ns, i, socket), j) = PowerInputCount(ns, j)
              /\ PowerOutputCount(Grown(ns, i, socket), j) \in Nat
              /\ PowerOutputCount(Grown(ns, i, socket), j) >= PowerOutputCount(ns, j)
<1>1. PICK n \in Nat : socket = <<"out", n>> /\ socket[2] = n
  OBVIOUS
<1>2. ns[i] \in Device /\ PowerOutputCount(ns, i) \in Nat /\ (ns[i].rack # Nowhere => Mountable(ns, i, ns[i].rack))
  BY CountsAreNumbers, WhereItIs DEF NodesOK
<1>3. CASE n < PowerOutputCount(ns, i)
  <2>1. Grown(ns, i, socket) = ns
    BY <1>1, <1>3 DEF Grown
  <2>2. socket \in Sockets(PowerOutputCount(ns, i))
    BY <1>1, <1>2, <1>3 DEF Sockets
  <2> QED BY <2>1, <2>2, CountsAreNumbers
<1>4. CASE ~(n < PowerOutputCount(ns, i))
  <2> DEFINE device == [ns[i] EXCEPT !.outlets = n + 1]
  <2>1. Grown(ns, i, socket) = [ns EXCEPT ![i] = device]
    BY <1>1, <1>4 DEF Grown
  <2>2. /\ device \in Device /\ device.rack = ns[i].rack /\ device.psu = ns[i].psu
        /\ device.outlets = n + 1
    BY <1>2 DEF Device
  <2> HIDE DEF device
  <2>3. device.rack # Nowhere => Mountable(ns, i, device.rack)
    BY <1>2, <2>2
  <2>4. NodesOK([ns EXCEPT ![i] = device]) /\ DOMAIN [ns EXCEPT ![i] = device] = DOMAIN ns
    BY <2>2, <2>3, ChangedIsOK
  <2>5. PowerOutputCount([ns EXCEPT ![i] = device], i) = n + 1
    BY <2>2 DEF PowerOutputCount
  <2>6. socket \in Sockets(n + 1)
    BY <1>1 DEF Sockets
  <2>7. ASSUME NEW j \in DOMAIN ns
        PROVE  /\ PowerInputCount([ns EXCEPT ![i] = device], j) = PowerInputCount(ns, j)
               /\ PowerOutputCount([ns EXCEPT ![i] = device], j) \in Nat
               /\ PowerOutputCount([ns EXCEPT ![i] = device], j) >= PowerOutputCount(ns, j)
    <3>1. CASE j = i
      BY <1>2, <1>4, <2>2, <2>5, <3>1 DEF PowerInputCount
    <3>2. CASE j # i
      <4>1. PowerOutputCount(ns, j) \in Nat
        BY CountsAreNumbers
      <4> QED BY <3>2, <4>1 DEF PowerInputCount, PowerOutputCount
    <3> QED BY <3>1, <3>2
  <2> QED BY <2>1, <2>4, <2>5, <2>6, <2>7
<1> QED BY <1>3, <1>4

LEMMA MoreSocketsKeep ==
  ASSUME NEW ns, NEW es, EdgesOK(ns, es), NodesOK(ns), Wired(ns, es), NEW more,
         \A j \in DOMAIN ns : /\ PowerInputCount(more, j) = PowerInputCount(ns, j)
                              /\ PowerOutputCount(more, j) \in Nat
                              /\ PowerOutputCount(more, j) >= PowerOutputCount(ns, j)
  PROVE  Wired(more, es)
<1>1. ASSUME NEW e \in es, e.type = "power" PROVE ~PowerCableIssue(more, e)
  <2>1. ~PowerCableIssue(ns, e)
    BY <1>1 DEF Wired, CableOK
  <2>2. e.s \in DOMAIN ns /\ e.t \in DOMAIN ns
    BY DEF EdgesOK
  <2>3. Sockets(PowerOutputCount(ns, e.s)) \subseteq Sockets(PowerOutputCount(more, e.s))
    BY <2>2, CountsAreNumbers DEF Sockets
  <2> QED BY <2>1, <2>2, <2>3 DEF PowerCableIssue
<1> QED BY <1>1, WiredElsewhere

LEMMA SettledIsSettling ==
  ASSUME NEW build, Settling(build), NEW e \in OldCables(build.edges), NEW new \in Settled(build, e),
         build = [nodes |-> build.nodes, edges |-> build.edges]
  PROVE  Settling(new) /\ OldCables(new.edges) = OldCables(build.edges) \ {e}
         /\ new = [nodes |-> new.nodes, edges |-> new.edges]
<1> DEFINE rest == build.edges \ {e}
           feeder == Feeder(e)
           fed == Fed(e)
           sockets == firstFree(Sockets(MaxPowerOutputs), UsedPowerHandles(rest, feeder))
           inputs == firstFree(Inputs(PowerInputCount(build.nodes, fed)), UsedPowerHandles(rest, fed))
           others == Rest(build)
<1>1. /\ Source(feeder) /\ feeder # fed
      /\ feeder \in DOMAIN build.nodes /\ fed \in DOMAIN build.nodes
  BY EndsOfOldCables
<1>2. OldCables(rest) = OldCables(build.edges) \ {e} /\ rest \ OldCables(rest) = others
  BY OneOldCableLess DEF Rest
<1>3. IsFiniteSet(rest) /\ EdgesOK(build.nodes, rest)
  BY FS_RemoveElement DEF Settling, EdgesOK
<1>4. Sound(build.nodes, others) /\ Wired(build.nodes, others) /\ NodesOK(build.nodes)
  BY DEF Settling, Sound
<1>5. CASE new = [build EXCEPT !.edges = rest]
  <2>1. new = [nodes |-> build.nodes, edges |-> rest]
    BY <1>5
  <2>2. new.nodes = build.nodes /\ new.edges = rest
    BY <2>1
  <2> HIDE DEF rest, others
  <2> QED BY <1>2, <1>3, <1>4, <2>1, <2>2 DEF Settling, Rest
<1>6. ASSUME NEW socket \in sockets, NEW input \in inputs, ~powerPathExists(rest, fed, feeder),
             new = [nodes |-> Grown(build.nodes, feeder, socket),
                    edges |-> rest \cup {Cable(feeder, socket, fed, input, "power")}]
      PROVE  Settling(new) /\ OldCables(new.edges) = OldCables(build.edges) \ {e}
             /\ new = [nodes |-> new.nodes, edges |-> new.edges]
  <2> DEFINE c == Cable(feeder, socket, fed, input, "power")
             grown == Grown(build.nodes, feeder, socket)
  <2>1. Power(rest) = Power(others)
    BY OneOldCableLess DEF Rest
  <2>2. /\ UsedPowerHandles(rest, feeder) = UsedPowerHandles(others, feeder)
        /\ UsedPowerHandles(rest, fed) = UsedPowerHandles(others, fed)
        /\ ~powerPathExists(others, fed, feeder)
    BY <1>6, <2>1 DEF UsedPowerHandles, powerPathExists, Feeds
  <2>3. /\ socket \in Sockets(MaxPowerOutputs) \ UsedPowerHandles(others, feeder)
        /\ input \in Inputs(PowerInputCount(build.nodes, fed)) \ UsedPowerHandles(others, fed)
    BY <1>6, <2>2 DEF firstFree, Lowest
  <2>4. socket \in {"out"} \X Nat
    BY <2>3, PowerChainAssumption DEF Sockets
  <2>5. input \in {"in"} \X Nat
    BY <1>1, <1>4, <2>3, PortsHaveKinds
  <2>6. feeder \in Ids /\ fed \in Ids
    BY <1>1, <1>4 DEF NodesOK
  <2>7. c \in PowerLink /\ c.s = feeder /\ c.t = fed /\ c.sh = socket /\ c.th = input /\ c.type = "power"
    BY <2>4, <2>5, <2>6 DEF Cable, PowerLink
  <2>8. /\ NodesOK(grown) /\ DOMAIN grown = DOMAIN build.nodes
        /\ socket \in Sockets(PowerOutputCount(grown, feeder))
        /\ \A j \in DOMAIN build.nodes :
             /\ PowerInputCount(grown, j) = PowerInputCount(build.nodes, j)
             /\ PowerOutputCount(grown, j) \in Nat
             /\ PowerOutputCount(grown, j) >= PowerOutputCount(build.nodes, j)
    BY <1>1, <1>4, <2>4, GrownIsOK
  <2>9. new.nodes = grown /\ new.edges = rest \cup {c} /\ new = [nodes |-> new.nodes, edges |-> new.edges]
    BY <1>6
  <2>10. OldCables(rest \cup {c}) = OldCables(build.edges) \ {e}
    <3>1. \A d : d.type = "power" => OldCables((build.edges \ {e}) \cup {d}) = OldCables(build.edges) \ {e}
      BY OneOldCableLess
    <3> HIDE DEF c
    <3> QED BY <2>7, <3>1
  <2>11. c \notin OldCables(build.edges)
    BY <2>7 DEF OldCables, Network, Power
  <2>12. (rest \cup {c}) \ OldCables(rest \cup {c}) = others \cup {c}
    BY <2>10, <2>11 DEF Rest
  <2> HIDE DEF c, grown, rest, others, feeder, fed, sockets, inputs
  <2>13. Sound(grown, others)
    BY <1>4, <2>8 DEF Sound, EdgesOK
  <2>14. Wired(grown, others)
    BY <1>4, <2>8, MoreSocketsKeep DEF Sound
  <2>15. Sound(grown, others \cup {c})
    BY <1>1, <2>3, <2>7, <2>8, <2>13, PowerCableIsApart
  <2>16. input \in Inputs(PowerInputCount(grown, fed))
    BY <1>1, <2>3, <2>8
  <2>17. Wired(grown, others \cup {c})
    BY <2>2, <2>7, <2>8, <2>13, <2>14, <2>16, WiredWithPower
  <2>18. IsFiniteSet(rest \cup {c})
    BY <1>3, FS_AddElement
  <2>19. EdgesOK(grown, rest \cup {c})
    BY <1>1, <1>3, <2>7, <2>8 DEF EdgesOK, Link
  <2> QED BY <2>9, <2>10, <2>12, <2>15, <2>17, <2>18, <2>19 DEF Settling, Rest
<1>7. \/ new = [build EXCEPT !.edges = rest]
      \/ \E socket \in sockets, input \in inputs :
           /\ ~powerPathExists(rest, fed, feeder)
           /\ new = [nodes |-> Grown(build.nodes, feeder, socket),
                     edges |-> rest \cup {Cable(feeder, socket, fed, input, "power")}]
  BY DEF Settled
<1> QED BY <1>5, <1>6, <1>7

\* What settling one old cable makes of some builds.
Settlings(plans) ==
    UNION {UNION {Settled(planned, e) : e \in OldCables(planned.edges)} : planned \in plans}

\* The first k cables of a build, settled one after the other.
Settles(f, build, k) == f = [n \in 0..k |-> IF n = 0 THEN {build} ELSE Settlings(f[n - 1])]

LEMMA SettlesStep ==
  ASSUME NEW build, NEW k \in Nat, NEW f, Settles(f, build, k), NEW n \in Nat, n + 1 <= k
  PROVE  f[n + 1] = Settlings(f[n])
<1>1. n + 1 \in 0..k /\ n + 1 # 0 /\ (n + 1) - 1 = n
  OBVIOUS
<1> QED BY <1>1 DEF Settles

LEMMA SettlesExtend ==
  ASSUME NEW build, NEW k \in Nat, NEW f, Settles(f, build, k)
  PROVE  \E g : Settles(g, build, k + 1)
<1> DEFINE g == [n \in 0..(k + 1) |-> IF n <= k THEN f[n] ELSE Settlings(f[k])]
<1>1. ASSUME NEW n \in 0..(k + 1)
      PROVE  g[n] = IF n = 0 THEN {build} ELSE Settlings(g[n - 1])
  <2>1. CASE n = 0
    BY <2>1 DEF Settles
  <2>2. CASE n # 0 /\ n <= k
    <3>1. n \in 0..k /\ n - 1 \in 0..(k + 1) /\ n - 1 <= k
      BY <2>2
    <3>2. f[n] = Settlings(f[n - 1])
      BY <2>2, <3>1 DEF Settles
    <3> QED BY <2>2, <3>1, <3>2
  <2>3. CASE n = k + 1
    BY <2>3
  <2> QED BY <2>1, <2>2, <2>3
<1>2. g = [n \in 0..(k + 1) |-> IF n = 0 THEN {build} ELSE Settlings(g[n - 1])]
  <2>1. g = [n \in 0..(k + 1) |-> g[n]]
    OBVIOUS
  <2> HIDE DEF g
  <2> QED BY <1>1, <2>1
<1> HIDE DEF g
<1> QED BY <1>2 DEF Settles

LEMMA SettlesExist ==
  ASSUME NEW build, NEW k \in Nat
  PROVE  \E f : Settles(f, build, k)
<1> DEFINE S == {n \in Nat : \E f : Settles(f, build, n)}
<1>1. 0 \in S
  <2>1. Settles([n \in 0..0 |-> {build}], build, 0)
    BY DEF Settles
  <2> QED BY <2>1
<1>2. \A n \in Nat : n \in S => n + 1 \in S
  BY SettlesExtend
<1>3. Nat \subseteq S
  <2> HIDE DEF S
  <2> QED BY <1>1, <1>2, Counting
<1> QED BY <1>3

LEMMA PlannedBySettling ==
  ASSUME NEW build, Cardinality(OldCables(build.edges)) \in Nat
  PROVE  \E f : /\ Settles(f, build, Cardinality(OldCables(build.edges)))
                /\ planLegacyPowerCables(build) = f[Cardinality(OldCables(build.edges))]
<1> DEFINE f == CHOOSE f : Settles(f, build, Cardinality(OldCables(build.edges)))
<1>1. Settles(f, build, Cardinality(OldCables(build.edges)))
  BY SettlesExist
<1>2. planLegacyPowerCables(build) = f[Cardinality(OldCables(build.edges))]
  BY DEF planLegacyPowerCables, Settles, Settlings
<1> QED BY <1>1, <1>2

\* After n cables a build still settles, with n old cables less.
SettledTo(planned, left) ==
    /\ Settling(planned) /\ planned = [nodes |-> planned.nodes, edges |-> planned.edges]
    /\ Cardinality(OldCables(planned.edges)) = left

LEMMA SettlingGoesOn ==
  ASSUME NEW build, NEW left \in Int, SettledTo(build, left), NEW new \in Settlings({build})
  PROVE  SettledTo(new, left - 1)
<1>1. PICK e \in OldCables(build.edges) : new \in Settled(build, e)
  BY DEF Settlings
<1>2. /\ Settling(new) /\ OldCables(new.edges) = OldCables(build.edges) \ {e}
      /\ new = [nodes |-> new.nodes, edges |-> new.edges]
  BY <1>1, SettledIsSettling DEF SettledTo
<1>3. IsFiniteSet(OldCables(build.edges))
  BY FS_Subset DEF SettledTo, Settling, OldCables, Network
<1>4. Cardinality(OldCables(new.edges)) = Cardinality(OldCables(build.edges)) - 1
  BY <1>2, <1>3, FS_RemoveElement
<1> QED BY <1>2, <1>4 DEF SettledTo

LEMMA SettlesAll ==
  ASSUME NEW build, NEW k \in Nat, SettledTo(build, k), NEW f, Settles(f, build, k)
  PROVE  \A planned \in f[k] : SettledTo(planned, 0)
<1> DEFINE S == {n \in Nat : n <= k => \A planned \in f[n] : SettledTo(planned, k - n)}
<1>1. 0 \in S
  BY DEF Settles
<1>2. ASSUME NEW n \in Nat, n \in S PROVE n + 1 \in S
  <2>1. SUFFICES ASSUME n + 1 <= k, NEW planned \in f[n + 1] PROVE SettledTo(planned, k - (n + 1))
    OBVIOUS
  <2>2. f[n + 1] = Settlings(f[n])
    BY <2>1, SettlesStep
  <2>3. PICK before \in f[n] : planned \in Settlings({before})
    BY <2>1, <2>2 DEF Settlings
  <2>4. SettledTo(before, k - n)
    BY <1>2, <2>1
  <2>5. SettledTo(planned, (k - n) - 1) /\ (k - n) - 1 = k - (n + 1)
    BY <2>3, <2>4, SettlingGoesOn
  <2> QED BY <2>5
<1>3. Nat \subseteq S
  <2> HIDE DEF S
  <2> QED BY <1>1, <1>2, Counting
<1>4. k \in S /\ k - k = 0
  BY <1>3
<1> QED BY <1>4

LEMMA StoredIsSettling ==
  ASSUME NEW ns, NEW es, Stored([nodes |-> ns, edges |-> es])
  PROVE  Settling([nodes |-> ns, edges |-> es])
<1> DEFINE build == [nodes |-> ns, edges |-> es]
<1>1. build.nodes = ns /\ build.edges = es
  OBVIOUS
<1> HIDE DEF build
<1>2. Stored(build)
  BY DEF build
<1>3. EdgesOK(build.nodes, build.edges) /\ IsFiniteSet(build.edges)
  BY <1>2 DEF Stored, EdgesOK
<1>4. NodesOK(build.nodes)
  BY <1>2 DEF Stored, NodesOK, Accepted
<1>5. EdgesOK(build.nodes, Rest(build)) /\ Apart(Rest(build))
  BY <1>2, <1>3 DEF Stored, Rest, EdgesOK
<1>6. Sound(build.nodes, Rest(build)) /\ Accepted(build.nodes, Rest(build))
  BY <1>2, <1>4, <1>5 DEF Sound, Stored, Rest
<1>7. Wired(build.nodes, Rest(build))
  BY <1>6, AcceptedIsWired
<1> QED BY <1>3, <1>6, <1>7 DEF Settling, build

\* Whatever an older version stored is converted to a build that a save accepts.
LEMMA ConversionsAreWired ==
  ASSUME NEW ns, NEW es, Stored([nodes |-> ns, edges |-> es]),
         NEW plan \in planLegacyPowerCables([nodes |-> ns, edges |-> es])
  PROVE  Sound(plan.nodes, plan.edges) /\ Wired(plan.nodes, plan.edges)
<1> DEFINE build == [nodes |-> ns, edges |-> es]
           number == Cardinality(OldCables(build.edges))
<1>1. Settling(build) /\ build = [nodes |-> build.nodes, edges |-> build.edges]
  BY StoredIsSettling
<1> HIDE DEF build
<1>2. plan \in planLegacyPowerCables(build)
  BY DEF build
<1>3. IsFiniteSet(OldCables(build.edges))
  BY <1>1, FS_Subset DEF Settling, OldCables, Network
<1>4. number \in Nat
  BY <1>3, FS_CardinalityType
<1>5. PICK f : Settles(f, build, number) /\ planLegacyPowerCables(build) = f[number]
  BY <1>4, PlannedBySettling
<1>6. SettledTo(build, number)
  BY <1>1 DEF SettledTo
<1>7. SettledTo(plan, 0)
  <2> HIDE DEF number
  <2> QED BY <1>2, <1>4, <1>5, <1>6, SettlesAll
<1>8. IsFiniteSet(OldCables(plan.edges))
  BY <1>7, FS_Subset DEF SettledTo, Settling, OldCables, Network
<1>9. OldCables(plan.edges) = {}
  BY <1>7, <1>8, FS_EmptySet DEF SettledTo
<1>10. Rest(plan) = plan.edges
  BY <1>9 DEF Rest
<1> QED BY <1>7, <1>10 DEF SettledTo, Settling

-----------------------------------------------------------------------------
(* Plans. *)

\* A list of parts, no part twice.
ListOf(list, parts) ==
    list \in Seq(parts) /\ \A m, n \in DOMAIN list : m # n => list[m] # list[n]

LEMMA JoinedLists ==
  ASSUME NEW a, NEW b, NEW s, NEW t, ListOf(s, a), ListOf(t, b), a \cap b = {}
  PROVE  ListOf(s \o t, a \cup b) /\ Len(s \o t) = Len(s) + Len(t)
<1>1. s \in Seq(a) /\ t \in Seq(b) /\ Len(s) \in Nat /\ Len(t) \in Nat
  BY DEF ListOf
<1>2. s \in Seq(a \cup b) /\ t \in Seq(a \cup b)
  BY <1>1
<1>3. /\ s \o t \in Seq(a \cup b) /\ Len(s \o t) = Len(s) + Len(t)
      /\ DOMAIN (s \o t) = 1..(Len(s) + Len(t))
      /\ \A n \in 1..Len(s) : (s \o t)[n] = s[n]
      /\ \A n \in (Len(s) + 1)..(Len(s) + Len(t)) : (s \o t)[n] = t[n - Len(s)]
  BY <1>2
<1>4. ASSUME NEW m \in DOMAIN (s \o t), NEW n \in DOMAIN (s \o t), m < n
      PROVE  (s \o t)[m] # (s \o t)[n]
  <2>1. CASE n <= Len(s)
    BY <1>1, <1>3, <1>4, <2>1 DEF ListOf
  <2>2. CASE m > Len(s)
    <3>1. m - Len(s) \in DOMAIN t /\ n - Len(s) \in DOMAIN t /\ m - Len(s) # n - Len(s)
      BY <1>1, <1>3, <1>4, <2>2
    <3>2. t[m - Len(s)] # t[n - Len(s)]
      BY <3>1 DEF ListOf
    <3> QED BY <1>1, <1>3, <1>4, <2>2, <3>2
  <2>3. CASE m <= Len(s) /\ n > Len(s)
    <3>1. m \in DOMAIN s /\ n - Len(s) \in DOMAIN t
      BY <1>1, <1>3, <1>4, <2>3
    <3>2. s[m] \in a /\ t[n - Len(s)] \in b
      BY <1>1, <3>1
    <3> QED BY <1>1, <1>3, <1>4, <2>3, <3>2
  <2> QED BY <1>1, <1>3, <1>4, <2>1, <2>2, <2>3
<1>5. \A m, n \in DOMAIN (s \o t) : m # n => m < n \/ n < m
  BY <1>1, <1>3
<1> QED BY <1>3, <1>4, <1>5 DEF ListOf

LEMMA MaybeAPart ==
  ASSUME NEW condition \in BOOLEAN, NEW part
  PROVE  ListOf(If(condition, part), {part}) /\ Len(If(condition, part)) \in 0..1
<1>1. ListOf(<<part>>, {part}) /\ Len(<<part>>) = 1
  BY DEF ListOf
<1>2. ListOf(<<>>, {part}) /\ Len(<<>>) = 0
  BY DEF ListOf
<1> QED BY <1>1, <1>2 DEF If

LEMMA FirstParts ==
  ASSUME NEW list \in Seq(Ids), Distinct(list), NEW k \in Nat, k <= Len(list)
  PROVE  /\ ListOf([n \in 1..k |-> list[n]], Parts(list))
         /\ Len([n \in 1..k |-> list[n]]) = k
<1>1. \A n \in 1..k : n \in DOMAIN list /\ list[n] \in Parts(list)
  BY DEF Parts
<1>2. [n \in 1..k |-> list[n]] \in Seq(Parts(list)) /\ Len([n \in 1..k |-> list[n]]) = k
  BY <1>1
<1> QED BY <1>1, <1>2 DEF ListOf, Distinct

LEMMA PartsOfLists ==
  ASSUME NEW set, NEW list, ListOf(list, set)
  PROVE  Parts(list) \subseteq set
  BY DEF ListOf, Parts

\* One part after the other into the ports of a hub, from port first on, by
\* cables of these types.
Spokes(hub, first, list, types) ==
    {Uplinked(hub, first + n - 1, list[n], types[n]) : n \in DOMAIN list}

\* A hub with its parts behind a router or a modem: the shape of every plan.
Star(root, port, hub, first, list, types) ==
    {Uplinked(root, port, hub, "ethernet")} \cup Spokes(hub, first, list, types)

\* The parts are there, the hub has the ports, and every cable is of a type that
\* a save allows at its part.
Fitting(ns, root, port, hub, first, list, types) ==
    /\ NodesOK(ns) /\ root \in DOMAIN ns /\ hub \in DOMAIN ns /\ root # hub
    /\ TypeOf[root] \in {"modem", "router"} /\ TypeOf[hub] \in {"router", "switch"}
    /\ port \in Nat /\ port < ns[root].ports
    /\ first \in Nat /\ first + Len(list) <= ns[hub].ports
    /\ ListOf(list, DOMAIN ns \ {root, hub})
    /\ \A n \in DOMAIN list :
         /\ types[n] \in LinkTypes
         /\ TypeOf[list[n]] \notin PowerSources \cup Uncabled
         /\ types[n] = "wireless" => TypeOf[list[n]] = "access_point"
         /\ Table(list[n]) => types[n] = "ethernet"

\* The build satisfies what PlansFit says of a planned one.
Fits(ns, es) ==
    /\ \A e \in es : e.sh \in ValidHandles(ns, e.s) /\ e.th \in ValidHandles(ns, e.t)
    /\ \A e, f \in es : e # f => Ends(e) \cap Ends(f) = {}
    /\ \A i \in DOMAIN ns : ~Outside(ns, i)

LEMMA SpokeIs ==
  ASSUME NEW ns, NEW root, NEW port, NEW hub, NEW first, NEW list, NEW types,
         Fitting(ns, root, port, hub, first, list, types),
         NEW e \in Spokes(hub, first, list, types)
  PROVE  \E n \in DOMAIN list :
           /\ e = Uplinked(hub, first + n - 1, list[n], types[n])
           /\ e.s = hub /\ e.sh = <<"eth", first + n - 1>> /\ e.t = list[n] /\ e.th = Uplink
           /\ e.type = types[n] /\ list[n] \in DOMAIN ns \ {root, hub}
           /\ first + n - 1 \in Nat /\ first + n - 1 < ns[hub].ports
<1>1. PICK n \in DOMAIN list : e = Uplinked(hub, first + n - 1, list[n], types[n])
  BY DEF Spokes
<1>2. list \in Seq(DOMAIN ns \ {root, hub}) /\ n \in 1..Len(list) /\ Len(list) \in Nat
  BY DEF Fitting, ListOf
<1>3. list[n] \in DOMAIN ns \ {root, hub}
  BY <1>2
<1>4. first \in Nat /\ ns[hub].ports \in Nat
  BY DEF Fitting, NodesOK, Device
<1>5. first + n - 1 \in Nat /\ first + n - 1 < ns[hub].ports
  BY <1>2, <1>4 DEF Fitting
<1> QED BY <1>1, <1>3, <1>5 DEF Uplinked, Cable

LEMMA TrunkIs ==
  ASSUME NEW root, NEW port, NEW hub, NEW e, e = Uplinked(root, port, hub, "ethernet")
  PROVE  /\ e.s = root /\ e.sh = <<"eth", port>> /\ e.t = hub /\ e.th = Uplink
         /\ e.type = "ethernet"
  BY DEF Uplinked, Cable

\* No two cables of a star end at one port, and only the trunk joins the root.
LEMMA StarsAreApart ==
  ASSUME NEW ns, NEW root, NEW port, NEW hub, NEW first, NEW list, NEW types,
         Fitting(ns, root, port, hub, first, list, types),
         NEW e \in Star(root, port, hub, first, list, types),
         NEW f \in Star(root, port, hub, first, list, types), e # f
  PROVE  Ends(e) \cap Ends(f) = {} /\ ~Joins(f, e.s, e.t)
         /\ \A i \in {e.s, e.t} \cap {f.s, f.t} : i = hub
<1> DEFINE trunk == Uplinked(root, port, hub, "ethernet")
           spokes == Spokes(hub, first, list, types)
<1>1. root # hub
  BY DEF Fitting
<1>2. ASSUME NEW a, NEW b \in spokes, a = trunk
      PROVE  /\ Ends(a) \cap Ends(b) = {} /\ ~Joins(a, b.s, b.t) /\ ~Joins(b, a.s, a.t)
             /\ \A i \in {a.s, a.t} \cap {b.s, b.t} : i = hub
  <2>1. /\ a.s = root /\ a.sh = <<"eth", port>> /\ a.t = hub /\ a.th = Uplink
    BY <1>2, TrunkIs
  <2>2. PICK n \in DOMAIN list : /\ b.s = hub /\ b.sh = <<"eth", first + n - 1>> /\ b.t = list[n]
                                 /\ b.th = Uplink /\ list[n] \in DOMAIN ns \ {root, hub}
    BY <1>2, SpokeIs
  <2>3. Ends(a) = {<<root, <<"eth", port>>>>, <<hub, Uplink>>}
    BY <2>1 DEF Ends
  <2>4. Ends(b) = {<<hub, <<"eth", first + n - 1>>>>, <<list[n], Uplink>>}
    BY <2>2 DEF Ends
  <2>5. Uplink # <<"eth", first + n - 1>>
    BY DEF Uplink
  <2> QED BY <1>1, <2>1, <2>2, <2>3, <2>4, <2>5 DEF Joins
<1>3. CASE e \in spokes /\ f \in spokes
  <2>1. PICK n \in DOMAIN list :
          /\ e = Uplinked(hub, first + n - 1, list[n], types[n])
          /\ e.s = hub /\ e.sh = <<"eth", first + n - 1>> /\ e.t = list[n]
          /\ e.th = Uplink /\ list[n] \in DOMAIN ns \ {root, hub}
    BY <1>3, SpokeIs
  <2>2. PICK m \in DOMAIN list :
          /\ f = Uplinked(hub, first + m - 1, list[m], types[m])
          /\ f.s = hub /\ f.sh = <<"eth", first + m - 1>> /\ f.t = list[m]
          /\ f.th = Uplink /\ list[m] \in DOMAIN ns \ {root, hub}
    BY <1>3, SpokeIs
  <2>3. n # m
    BY <2>1, <2>2
  <2>4. list[n] # list[m] /\ n \in Int /\ m \in Int /\ first \in Int
    BY <2>3 DEF Fitting, ListOf
  <2>5. first + n - 1 # first + m - 1
    BY <2>3, <2>4
  <2>6. Ends(e) = {<<hub, <<"eth", first + n - 1>>>>, <<list[n], Uplink>>}
    BY <2>1 DEF Ends
  <2>7. Ends(f) = {<<hub, <<"eth", first + m - 1>>>>, <<list[m], Uplink>>}
    BY <2>2 DEF Ends
  <2>8. <<"eth", first + n - 1>> # <<"eth", first + m - 1>>
    BY <2>5
  <2>9. Ends(e) \cap Ends(f) = {}
    BY <2>1, <2>2, <2>4, <2>6, <2>7, <2>8
  <2> QED BY <2>1, <2>2, <2>4, <2>9 DEF Joins
<1>4. e = trunk \/ e \in spokes
  BY DEF Star
<1>5. f = trunk \/ f \in spokes
  BY DEF Star
<1> HIDE DEF trunk, spokes
<1> QED BY <1>2, <1>3, <1>4, <1>5

LEMMA StarsFit ==
  ASSUME NEW ns, NEW root, NEW port, NEW hub, NEW first, NEW list, NEW types,
         Fitting(ns, root, port, hub, first, list, types), \A i \in DOMAIN ns : ~Outside(ns, i)
  PROVE  LET es == Star(root, port, hub, first, list, types)
         IN  Sound(ns, es) /\ Wired(ns, es) /\ Fits(ns, es)
<1> DEFINE es == Star(root, port, hub, first, list, types)
           trunk == Uplinked(root, port, hub, "ethernet")
<1>1. /\ NodesOK(ns) /\ root \in DOMAIN ns /\ hub \in DOMAIN ns /\ root # hub
      /\ TypeOf[root] \in {"modem", "router"} /\ TypeOf[hub] \in {"router", "switch"}
      /\ port \in Nat /\ port < ns[root].ports /\ DOMAIN ns \subseteq Ids
  BY DEF Fitting, NodesOK
<1>2. ASSUME NEW i \in DOMAIN ns, TypeOf[i] \in {"modem", "router", "switch"},
             NEW n \in Nat, n < ns[i].ports
      PROVE  <<"eth", n>> \in ValidHandles(ns, i) /\ Uplink \in ValidHandles(ns, i)
  <2>1. ns[i].ports \in Nat /\ PortCount(ns, i) = ns[i].ports
    BY <1>1, <1>2 DEF NodesOK, Device, PortCount, DynamicPorts
  <2>2. <<"eth", n>> \in Eth(PortCount(ns, i))
    BY <1>2, <2>1 DEF Eth
  <2>3. ~Rack(i) /\ ~Source(i)
    BY <1>2 DEF Rack, Source, PowerSources
  <2> QED BY <2>2, <2>3 DEF ValidHandles
<1>3. ASSUME NEW e \in es
      PROVE  /\ e \in NetworkLink /\ e.s \in DOMAIN ns /\ e.t \in DOMAIN ns /\ e.s # e.t
             /\ e.sh \in ValidHandles(ns, e.s) /\ e.th \in ValidHandles(ns, e.t)
             /\ ~IsPower(e.sh) /\ ~IsPower(e.th)
             /\ TypeOf[e.s] \in {"modem", "router", "switch"}
             /\ TypeOf[e.t] \notin PowerSources \cup Uncabled
             /\ e.type = "wireless" => TypeOf[e.t] = "access_point"
             /\ Table(e.t) => e.type = "ethernet"
             /\ e.t = hub => TypeOf[e.t] \in {"router", "switch"}
  <2>1. CASE e = trunk
    <3>1. /\ e.s = root /\ e.sh = <<"eth", port>> /\ e.t = hub /\ e.th = Uplink
          /\ e.type = "ethernet"
      BY <2>1, TrunkIs
    <3>2. e \in NetworkLink
      BY <1>1, <2>1 DEF Uplinked, Cable, NetworkLink, NetworkPort, Uplink, LinkTypes
    <3>3. ns[hub].ports \in Nat /\ Uplink \in ValidHandles(ns, hub)
      BY <1>1 DEF NodesOK, Device, ValidHandles, Rack, Source, PowerSources
    <3>4. <<"eth", port>> \in ValidHandles(ns, root)
      BY <1>1, <1>2
    <3> QED BY <1>1, <3>1, <3>2, <3>3, <3>4
            DEF IsPower, Uplink, PowerSources, Uncabled, NestedTypes, Table
  <2>2. CASE e \in Spokes(hub, first, list, types)
    <3>1. PICK n \in DOMAIN list :
            /\ e = Uplinked(hub, first + n - 1, list[n], types[n])
            /\ e.s = hub /\ e.sh = <<"eth", first + n - 1>> /\ e.t = list[n] /\ e.th = Uplink
            /\ e.type = types[n] /\ list[n] \in DOMAIN ns \ {root, hub}
            /\ first + n - 1 \in Nat /\ first + n - 1 < ns[hub].ports
      BY <2>2, SpokeIs
    <3>2. /\ types[n] \in LinkTypes
          /\ TypeOf[list[n]] \notin PowerSources \cup Uncabled
          /\ types[n] = "wireless" => TypeOf[list[n]] = "access_point"
          /\ Table(list[n]) => types[n] = "ethernet"
      BY DEF Fitting
    <3>3. e \in NetworkLink
      BY <1>1, <3>1, <3>2 DEF Uplinked, Cable, NetworkLink, NetworkPort, Uplink
    <3>4. Uplink \in ValidHandles(ns, list[n])
      BY <3>2 DEF ValidHandles, Rack, Source, Uncabled
    <3>5. <<"eth", first + n - 1>> \in ValidHandles(ns, hub)
      BY <1>1, <1>2, <3>1
    <3> QED BY <1>1, <3>1, <3>2, <3>3, <3>4, <3>5 DEF IsPower, Uplink
  <2> QED BY <2>1, <2>2 DEF Star
<1>4. \A e, f \in es : e # f => /\ Ends(e) \cap Ends(f) = {} /\ ~Joins(f, e.s, e.t)
                                /\ \A i \in {e.s, e.t} \cap {f.s, f.t} : i = hub
  BY StarsAreApart
<1> HIDE DEF es, trunk
<1>5. Apart(es)
  <2> SUFFICES ASSUME NEW e \in es, NEW f \in es, e # f PROVE PortsOf(e) \cap PortsOf(f) = {}
    BY DEF Apart
  <2>1. PortsOf(e) \subseteq Ends(e) /\ PortsOf(f) \subseteq Ends(f)
    BY DEF PortsOf
  <2> QED BY <1>4, <2>1
<1>6. EdgesOK(ns, es)
  BY <1>3 DEF EdgesOK, Link
<1>7. \A e \in es : e.type # "power"
  BY <1>3 DEF NetworkLink, LinkTypes
<1>8. Power(es) = {} /\ Network(es) = es /\ Feeds(es) = {}
  BY <1>7 DEF Power, Network, Feeds
<1>9. ASSUME NEW e \in es PROVE ~NetworkCableIssue(es, e)
  <2>1. ~Source(e.s) /\ ~Source(e.t)
    BY <1>3, <1>9 DEF Source, PowerSources
  <2>2. {TypeOf[e.s], TypeOf[e.t]} \cap Uncabled = {}
    BY <1>3, <1>9 DEF Uncabled, NestedTypes
  <2>3. ~Wifi(e.s, e.t) /\ Hub(e.s) /\ ~Table(e.s)
    BY <1>3, <1>9 DEF Wifi, WifiClients, Hub, HubTypes, Table
  <2>4. \A i \in {e.s, e.t} : Table(i) => ~\E f \in Network(es) : f # e /\ i \in {f.s, f.t}
    <3> SUFFICES ASSUME NEW i \in {e.s, e.t}, Table(i), NEW f \in es, f # e, i \in {f.s, f.t}
                 PROVE  FALSE
      BY <1>8
    <3>1. i = hub
      BY <1>4, <1>9
    <3> QED BY <1>1, <3>1 DEF Table
  <2>5. ~IsPower(e.sh) /\ ~IsPower(e.th) /\ ~\E f \in Network(es) : f # e /\ Joins(f, e.s, e.t)
    BY <1>3, <1>4, <1>8, <1>9
  <2>6. /\ Table(e.t) => e.type = "ethernet"
        /\ e.type = "wireless" => {TypeOf[e.s], TypeOf[e.t]} \cap {"access_point", "iot"} # {}
    BY <1>3, <1>9
  <2> QED BY <2>1, <2>2, <2>3, <2>4, <2>5, <2>6 DEF NetworkCableIssue
<1>10. Sound(ns, es)
  BY <1>1, <1>5, <1>6 DEF Sound
<1>11. Wired(ns, es)
  BY <1>7, <1>8, <1>9 DEF Wired, CableOK, Loops
<1>12. Fits(ns, es)
  BY <1>3, <1>4 DEF Fits
<1> QED BY <1>10, <1>11, <1>12 DEF es

LEMMA TypesOfParts ==
  /\ {New.router, New.switch, New.modem, New.server_v2, New.vps, New.nas, New.rack, New.ups,
      New.access, New.first, New.second} \subseteq Ids
  /\ TypeOf[New.router] = "router" /\ TypeOf[New.switch] = "switch" /\ TypeOf[New.modem] = "modem"
  /\ TypeOf[New.server_v2] = "server_v2" /\ TypeOf[New.vps] = "vps" /\ TypeOf[New.nas] = "nas"
  /\ TypeOf[New.rack] = "rack" /\ TypeOf[New.ups] = "ups" /\ TypeOf[New.access] = "access_point"
  /\ TypeOf[New.first] = "minipc" /\ TypeOf[New.second] = "minipc" /\ New.first # New.second
<1>1. \A type \in {"router", "switch", "modem", "server_v2", "vps", "nas", "rack", "ups"} :
         New[type] \in Ids /\ TypeOf[New[type]] = type
  BY PlannerAssumption
<1>2. /\ New["router"] = New.router /\ New["switch"] = New.switch /\ New["modem"] = New.modem
      /\ New["server_v2"] = New.server_v2 /\ New["vps"] = New.vps /\ New["nas"] = New.nas
      /\ New["rack"] = New.rack /\ New["ups"] = New.ups
  OBVIOUS
<1> QED BY <1>1, <1>2, PlannerAssumption

LEMMA PlainDevices ==
  /\ \A n \in Nat : WithPorts(n) \in Device /\ WithPorts(n).rack = Nowhere /\ WithPorts(n).ports = n
  /\ \A i : Default(i) \in Device /\ Default(i).rack = Nowhere
  /\ \A i : TypeOf[i] \in DynamicPorts => Default(i).ports = 2
  BY DEF WithPorts, Default, Plain, Device

LEMMA MoreParts ==
  ASSUME NEW list, NEW few, NEW many, ListOf(list, few), few \subseteq many
  PROVE  ListOf(list, many)
<1>1. list \in Seq(many)
  BY DEF ListOf
<1> QED BY <1>1 DEF ListOf

\* Devices on the floor need no rack.
LEMMA FloorIsOK ==
  ASSUME NEW ns, DOMAIN ns \subseteq Ids, ns = [i \in DOMAIN ns |-> ns[i]],
         \A i \in DOMAIN ns : ns[i] \in Device /\ ns[i].rack = Nowhere
  PROVE  NodesOK(ns) /\ \A i \in DOMAIN ns : ~Outside(ns, i)
  BY DEF NodesOK, NodeIssue, Outside

LEMMA GameServerPlansFit ==
  ASSUME NEW a \in Servers
  PROVE  LET plan == buildGameServerPlan(a)
         IN  Sound(plan.nodes, plan.edges) /\ Wired(plan.nodes, plan.edges)
             /\ Fits(plan.nodes, plan.edges)
<1> DEFINE host == CASE a.vps -> New.vps
                     [] ~a.vps /\ a.host = "minipc" -> New.first
                     [] OTHER -> New.server_v2
           Details(i) == IF i = New.router THEN WithPorts(4) ELSE Default(i)
           ns == [i \in {New.modem, New.router, host} |-> Details(i)]
           types == <<IF a.vps THEN "vpn" ELSE "ethernet">>
           plan == buildGameServerPlan(a)
<1>1. host \in {New.vps, New.first, New.server_v2}
  OBVIOUS
<1>2. plan.nodes = ns /\ plan.edges = {Uplinked(New.modem, 0, New.router, "ethernet"),
                                       Uplinked(New.router, 0, host, IF a.vps THEN "vpn" ELSE "ethernet")}
  BY DEF buildGameServerPlan
<1> HIDE DEF host
<1>3. host \in Ids /\ TypeOf[host] \in {"vps", "minipc", "server_v2"}
  BY <1>1, TypesOfParts
<1>4. host # New.router /\ host # New.modem /\ New.router # New.modem
  BY <1>3, TypesOfParts
<1>5. \A i \in DOMAIN ns : ns[i] \in Device /\ ns[i].rack = Nowhere
  BY PlainDevices
<1>6. DOMAIN ns = {New.modem, New.router, host} /\ ns = [i \in DOMAIN ns |-> ns[i]]
      /\ DOMAIN ns \subseteq Ids
  BY <1>3, TypesOfParts
<1>7. ns[New.modem].ports = 2 /\ ns[New.router].ports = 4
  BY <1>4, PlainDevices, TypesOfParts DEF DynamicPorts
<1> HIDE DEF ns
<1>8. NodesOK(ns) /\ \A i \in DOMAIN ns : ~Outside(ns, i)
  BY <1>5, <1>6, FloorIsOK
<1>9. ListOf(<<host>>, DOMAIN ns \ {New.modem, New.router})
  BY <1>4, <1>6 DEF ListOf
<1>10. ~Table(host) /\ TypeOf[host] \notin PowerSources \cup Uncabled
  BY <1>3 DEF Table, PowerSources, Uncabled, NestedTypes
<1>11. Fitting(ns, New.modem, 0, New.router, 0, <<host>>, types)
  BY <1>3, <1>4, <1>6, <1>7, <1>8, <1>9, <1>10, TypesOfParts DEF Fitting, LinkTypes
<1>12. plan.edges = Star(New.modem, 0, New.router, 0, <<host>>, types)
  <2>1. 0 + 1 - 1 = 0 /\ DOMAIN <<host>> = {1}
    OBVIOUS
  <2>2. Spokes(New.router, 0, <<host>>, types) = {Uplinked(New.router, 0, <<host>>[1], types[1])}
    BY <2>1 DEF Spokes
  <2> QED BY <1>2, <2>2 DEF Star
<1> HIDE DEF types, plan
<1> QED BY <1>2, <1>8, <1>11, <1>12, StarsFit DEF plan

LEMMA TablesAreCounted ==
  ASSUME NEW a \in Parties
  PROVE  tablesNeeded(a) \in Nat /\ tablesNeeded(a) <= Len(New.tables)
<1>1. a.seats \in Nat /\ a.venue \in Venues
  BY PlannerAssumption DEF Parties
<1>2. a.venue.volts \in Nat /\ a.venue.amps \in Nat
  BY <1>1, PlannerAssumption
<1> DEFINE product == 8 * a.venue.volts * a.venue.amps
           table == seatsPerTable(a.venue)
<1>3. product \in Int
  BY <1>2
<1>4. table \in 1..8
  <2> HIDE DEF product
  <2>1. (product - 100) \div 3500 \in Int
    BY <1>3
  <2>2. table = AtLeast(1, AtMost(8, (product - 100) \div 3500))
    BY DEF seatsPerTable, product
  <2> HIDE DEF table
  <2> QED BY <2>1, <2>2 DEF AtLeast, AtMost
<1> HIDE DEF table
<1>5. \A n \in Nat : (n + table - 1) \div table \in Nat
  <2>1. \A size \in 1..8 : \A n \in Nat : (n + size - 1) \div size \in Nat
    <3>1. \A n \in Nat : (n + 1 - 1) \div 1 \in Nat /\ (n + 2 - 1) \div 2 \in Nat
                         /\ (n + 3 - 1) \div 3 \in Nat /\ (n + 4 - 1) \div 4 \in Nat
      OBVIOUS
    <3>2. \A n \in Nat : (n + 5 - 1) \div 5 \in Nat /\ (n + 6 - 1) \div 6 \in Nat
                         /\ (n + 7 - 1) \div 7 \in Nat /\ (n + 8 - 1) \div 8 \in Nat
      OBVIOUS
    <3> QED BY <3>1, <3>2
  <2> QED BY <1>4, <2>1
<1>6. tablesNeeded(a) \in Nat
  BY <1>1, <1>5 DEF tablesNeeded, table
<1> QED BY <1>6, TablesAssumption

LEMMA SwitchesAreLargeEnough ==
  ASSUME NEW ports \in Nat
  PROVE  SwitchWith(ports) \in Nat /\ SwitchWith(ports) >= ports
<1> DEFINE enough == {size \in CoreSwitchSizes : size >= ports}
<1>1. CASE enough = {}
  BY <1>1 DEF SwitchWith
<1>2. CASE enough # {}
  <2>1. \E size \in enough : \A other \in enough : size <= other
    <3>1. CASE ports <= 8
      BY <3>1 DEF CoreSwitchSizes
    <3>2. CASE 8 < ports /\ ports <= 16
      BY <3>2 DEF CoreSwitchSizes
    <3>3. CASE 16 < ports /\ ports <= 24
      BY <3>3 DEF CoreSwitchSizes
    <3>4. CASE 24 < ports
      BY <1>2, <3>4 DEF CoreSwitchSizes
    <3> QED BY <3>1, <3>2, <3>3, <3>4
  <2>2. SwitchWith(ports) = CHOOSE size \in enough : \A other \in enough : size <= other
    BY <1>2 DEF SwitchWith
  <2>3. SwitchWith(ports) \in enough
    <3> HIDE DEF enough
    <3> QED BY <2>1, <2>2
  <2> QED BY <2>3 DEF CoreSwitchSizes
<1> QED BY <1>1, <1>2

LEMMA GuestsAreParts ==
  ASSUME NEW a \in Parties
  PROVE  /\ a.consoles \in Nat /\ a.consoles <= Len(New.consoles)
         /\ Parts(New.tables) \subseteq {i \in Ids : TypeOf[i] = "lan_table"}
         /\ Parts(New.consoles) \subseteq {i \in Ids : TypeOf[i] = "console"}
  BY PlannerAssumption DEF Parts, Parties

LEMMA LanPartyPlansFit ==
  ASSUME NEW a \in Parties
  PROVE  LET plan == buildLanPartyPlan(a)
         IN  Sound(plan.nodes, plan.edges) /\ Wired(plan.nodes, plan.edges)
             /\ Fits(plan.nodes, plan.edges)
<1> DEFINE tables == [n \in 1..tablesNeeded(a) |-> New.tables[n]]
           consoles == [n \in 1..a.consoles |-> New.consoles[n]]
           one == tables \o If(a.wifi, New.access)
           two == one \o consoles
           three == two \o If(a.host = "minipc", New.first)
           list == three \o If(a.host = "server", New.server_v2)
           Details(i) == CASE i = New.router -> WithPorts(4)
                           [] i = New.switch -> WithPorts(corePorts(Len(list), a.consoles))
                           [] OTHER -> Default(i)
           ns == [i \in {New.router, New.switch} \cup Parts(list) |-> Details(i)]
           types == [n \in DOMAIN list |-> WirelessAccess(list[n])]
           plan == buildLanPartyPlan(a)
<1>1. plan.nodes = ns /\ plan.edges = {Uplinked(New.router, 0, New.switch, "ethernet")}
                                      \cup Plugged(New.switch, 0, list)
  BY DEF buildLanPartyPlan
<1> DEFINE Tables == {i \in Ids : TypeOf[i] = "lan_table"}
           Seated == {i \in Ids : TypeOf[i] = "console"}
           Guests == Tables \cup {New.access} \cup Seated \cup {New.first} \cup {New.server_v2}
<1>2. ListOf(list, Guests)
  <2>1. ListOf(tables, Tables) /\ ListOf(consoles, Seated)
    <3>1. ListOf(tables, Parts(New.tables))
      BY TablesAreCounted, FirstParts, PlannerAssumption
    <3>2. ListOf(consoles, Parts(New.consoles))
      BY GuestsAreParts, FirstParts, PlannerAssumption
    <3> HIDE DEF tables, consoles, Tables, Seated
    <3>3. Parts(New.tables) \subseteq Tables /\ Parts(New.consoles) \subseteq Seated
      BY GuestsAreParts DEF Tables, Seated
    <3> QED BY <3>1, <3>2, <3>3, MoreParts
  <2>2. /\ ListOf(If(a.wifi, New.access), {New.access})
        /\ ListOf(If(a.host = "minipc", New.first), {New.first})
        /\ ListOf(If(a.host = "server", New.server_v2), {New.server_v2})
    <3>1. a.wifi \in BOOLEAN
      BY DEF Parties
    <3> QED BY <3>1, MaybeAPart
  <2>3. /\ Tables \cap {New.access} = {} /\ (Tables \cup {New.access}) \cap Seated = {}
        /\ (Tables \cup {New.access} \cup Seated) \cap {New.first} = {}
        /\ (Tables \cup {New.access} \cup Seated \cup {New.first}) \cap {New.server_v2} = {}
    BY TypesOfParts
  <2> HIDE DEF Tables, Seated, tables, consoles
  <2>4. ListOf(one, Tables \cup {New.access})
    BY <2>1, <2>2, <2>3, JoinedLists
  <2> HIDE DEF one
  <2>5. ListOf(two, Tables \cup {New.access} \cup Seated)
    BY <2>1, <2>3, <2>4, JoinedLists
  <2> HIDE DEF two
  <2>6. ListOf(three, Tables \cup {New.access} \cup Seated \cup {New.first})
    BY <2>2, <2>3, <2>5, JoinedLists
  <2> HIDE DEF three
  <2> QED BY <2>2, <2>3, <2>6, JoinedLists
<1> HIDE DEF list
<1>3. ASSUME NEW i \in Guests
      PROVE  /\ i \in Ids /\ i # New.router /\ i # New.switch
             /\ TypeOf[i] \notin PowerSources \cup Uncabled
    BY <1>3, TypesOfParts DEF PowerSources, Uncabled, NestedTypes
<1>4. Parts(list) \subseteq Guests /\ list \in Seq(Guests) /\ Len(list) \in Nat
      /\ DOMAIN list = 1..Len(list)
  <2> HIDE DEF Guests
  <2> QED BY <1>2, PartsOfLists DEF ListOf
<1> HIDE DEF Guests
<1>5. corePorts(Len(list), a.consoles) \in Nat /\ corePorts(Len(list), a.consoles) >= Len(list) + 1
  BY <1>4, SwitchesAreLargeEnough DEF corePorts
<1>6. New.router # New.switch /\ {New.router, New.switch} \subseteq Ids
  BY TypesOfParts
<1>7. \A i \in DOMAIN ns : ns[i] \in Device /\ ns[i].rack = Nowhere
  BY <1>5, PlainDevices
<1>8. /\ DOMAIN ns = {New.router, New.switch} \cup Parts(list) /\ ns = [i \in DOMAIN ns |-> ns[i]]
      /\ DOMAIN ns \subseteq Ids
  BY <1>3, <1>4, <1>6
<1>9. ns[New.router].ports = 4 /\ ns[New.switch].ports = corePorts(Len(list), a.consoles)
  BY <1>5, <1>6, PlainDevices
<1> HIDE DEF ns
<1>10. NodesOK(ns) /\ \A i \in DOMAIN ns : ~Outside(ns, i)
  BY <1>7, <1>8, FloorIsOK
<1>11. ListOf(list, DOMAIN ns \ {New.router, New.switch})
  <2>1. \A n \in 1..Len(list) : list[n] \in Parts(list) /\ list[n] \in Guests
    BY <1>4 DEF Parts
  <2>2. \A n \in 1..Len(list) : list[n] \in DOMAIN ns \ {New.router, New.switch}
    BY <1>3, <1>8, <2>1
  <2>3. list = [n \in 1..Len(list) |-> list[n]]
    BY <1>4
  <2>4. list \in Seq(DOMAIN ns \ {New.router, New.switch})
    BY <1>4, <2>2
  <2> QED BY <1>2, <2>4 DEF ListOf
<1>12. ASSUME NEW n \in DOMAIN list
       PROVE  /\ types[n] = WirelessAccess(list[n])
              /\ types[n] \in LinkTypes
              /\ TypeOf[list[n]] \notin PowerSources \cup Uncabled
              /\ types[n] = "wireless" => TypeOf[list[n]] = "access_point"
              /\ Table(list[n]) => types[n] = "ethernet"
  <2>1. list[n] \in Guests
    BY <1>4
  <2> QED BY <1>3, <2>1 DEF LinkTypes, WirelessAccess, Table
<1>13. Fitting(ns, New.router, 0, New.switch, 0, list, types)
  <2> HIDE DEF types
  <2> QED BY <1>4, <1>5, <1>6, <1>8, <1>9, <1>10, <1>11, <1>12, TypesOfParts DEF Fitting
<1>14. plan.edges = Star(New.router, 0, New.switch, 0, list, types)
  <2>1. Plugged(New.switch, 0, list) = Spokes(New.switch, 0, list, types)
    BY <1>12 DEF Plugged, Spokes
  <2> QED BY <1>1, <2>1 DEF Star
<1> HIDE DEF types, plan
<1> QED BY <1>1, <1>10, <1>13, <1>14, StarsFit DEF plan

LEMMA NoPart == ASSUME NEW parts PROVE ListOf(<<>>, parts) /\ Len(<<>>) = 0
  BY DEF ListOf

LEMMA OnePart == ASSUME NEW part PROVE ListOf(<<part>>, {part}) /\ Len(<<part>>) = 1
  BY DEF ListOf

LEMMA ComputeIsOneOrTwo ==
  ASSUME NEW a \in Homelabs
  PROVE  LET host == IF a.footprint = "rack" THEN New.server_v2 ELSE New.first
         IN  /\ ListOf(homelabCompute(a), {host, New.second, New.vps})
             /\ Len(homelabCompute(a)) <= 2
<1> DEFINE host == IF a.footprint = "rack" THEN New.server_v2 ELSE New.first
           cloud == a.footprint = "cloud"
           other == IF cloud THEN New.vps ELSE New.second
           standby == If(a.resilient, other)
           rented == If(cloud /\ ~a.resilient, New.vps)
           both == <<host>> \o standby
           Hosts == {host, New.second, New.vps}
<1>1. host # New.second /\ host # New.vps
  BY TypesOfParts
<1>2. a.resilient \in BOOLEAN
  BY DEF Homelabs
<1>3. homelabCompute(a) = both \o rented
  BY DEF homelabCompute
<1> HIDE DEF host
<1> DEFINE head == <<host>>
<1>4. ListOf(head, {host}) /\ Len(head) = 1
  BY OnePart
<1> HIDE DEF head
<1>5. both = head \o standby
  BY DEF head
<1>6. CASE a.resilient
  <2>1. standby = <<other>> /\ rented = <<>>
    BY <1>6 DEF If
  <2>2. ListOf(standby, {other}) /\ Len(standby) = 1
    BY <2>1, OnePart
  <2>3. ListOf(rented, {}) /\ Len(rented) = 0
    BY <2>1, NoPart
  <2> HIDE DEF standby, rented, other, both
  <2>4. {host} \cap {other} = {}
    BY <1>1 DEF other
  <2>5. ListOf(both, {host} \cup {other}) /\ Len(both) = Len(head) + Len(standby)
    <3> DEFINE Heads == {host}
               Others == {other}
    <3>1. ListOf(head, Heads) /\ ListOf(standby, Others) /\ Heads \cap Others = {}
      BY <1>4, <2>2, <2>4
    <3> HIDE DEF Heads, Others
    <3>2. ListOf(head \o standby, Heads \cup Others) /\ Len(head \o standby) = Len(head) + Len(standby)
      BY <3>1, JoinedLists
    <3> QED BY <1>5, <3>2 DEF Heads, Others
  <2> DEFINE some == {host} \cup {other}
             none == some \cap {}
             list == both \o rented
  <2>6. none = {} /\ some \subseteq Hosts
    BY DEF other
  <2>7. ListOf(both, some) /\ ListOf(rented, none) /\ some \cap none = {}
    BY <2>3, <2>5, <2>6
  <2> HIDE DEF some, none
  <2>8. ListOf(list, some \cup none) /\ Len(list) = Len(both) + Len(rented)
    BY <2>7, JoinedLists
  <2> HIDE DEF list, Hosts
  <2>9. ListOf(list, Hosts)
    BY <2>6, <2>8, MoreParts
  <2> QED BY <1>3, <1>4, <2>2, <2>3, <2>5, <2>8, <2>9 DEF host, Hosts, list
<1>7. CASE ~a.resilient
  <2>1. standby = <<>> /\ (rented = <<>> \/ rented = <<New.vps>>)
    BY <1>7 DEF If
  <2>2. ListOf(standby, {New.second}) /\ Len(standby) = 0
    BY <2>1, NoPart
  <2>3. ListOf(rented, {New.vps}) /\ (Len(rented) = 0 \/ Len(rented) = 1)
    BY <2>1, NoPart, OnePart
  <2> HIDE DEF standby, rented, both
  <2>4. {host} \cap {New.second} = {}
    BY <1>1
  <2>5. ListOf(both, {host} \cup {New.second}) /\ Len(both) = Len(head) + Len(standby)
    <3> DEFINE Heads == {host}
               Others == {New.second}
    <3>1. ListOf(head, Heads) /\ ListOf(standby, Others) /\ Heads \cap Others = {}
      BY <1>4, <2>2, <2>4
    <3> HIDE DEF Heads, Others
    <3>2. ListOf(head \o standby, Heads \cup Others) /\ Len(head \o standby) = Len(head) + Len(standby)
      BY <3>1, JoinedLists
    <3> QED BY <1>5, <3>2 DEF Heads, Others
  <2> DEFINE some == {host} \cup {New.second}
             list == both \o rented
  <2>6. some \cap {New.vps} = {} /\ some \cup {New.vps} = Hosts
    BY <1>1, TypesOfParts
  <2>7. ListOf(both, some)
    BY <2>5
  <2> HIDE DEF some
  <2>8. ListOf(list, some \cup {New.vps}) /\ Len(list) = Len(both) + Len(rented)
    BY <2>3, <2>6, <2>7, JoinedLists
  <2> HIDE DEF list, Hosts
  <2>9. ListOf(list, Hosts)
    BY <2>6, <2>8
  <2> QED BY <1>3, <1>4, <2>2, <2>3, <2>5, <2>8, <2>9 DEF host, Hosts, list
<1> QED BY <1>2, <1>6, <1>7

LEMMA HomelabPlansFit ==
  ASSUME NEW a \in Homelabs
  PROVE  LET plan == buildHomelabPlan(a)
         IN  Sound(plan.nodes, plan.edges) /\ Wired(plan.nodes, plan.edges)
             /\ Fits(plan.nodes, plan.edges)
<1> DEFINE racked == a.footprint = "rack"
           host == IF racked THEN New.server_v2 ELSE New.first
           compute == homelabCompute(a)
           stores == If(a.goals \cap {"backup", "media"} # {}, New.nas)
           radios == If(a.goals \cap {"home", "network"} # {}, New.access)
           one == compute \o stores
           list == one \o radios
           devices == {New.router, New.switch} \cup Parts(list) \cup Parts(If(racked, New.rack))
                      \cup Parts(If(racked \/ a.resilient, New.ups))
           Details(i) ==
             CASE i = New.router -> WithPorts(4)
               [] i = New.switch -> WithPorts(IF a.budget = "enthusiast" THEN 16 ELSE 8)
               [] i = New.rack   -> [Plain EXCEPT !.size = 12]
               [] i = New.server_v2 ->
                    [WithPorts(IF a.budget = "enthusiast" THEN 4 ELSE 2)
                       EXCEPT !.rack = New.rack, !.units = 2, !.slot = 1]
               [] OTHER -> Default(i)
           ns == [i \in devices |-> Details(i)]
           types == [n \in DOMAIN list |-> WirelessAccess(list[n])]
           plan == buildHomelabPlan(a)
           Hosts == {host, New.second, New.vps}
           Guests == Hosts \cup {New.nas} \cup {New.access}
<1>1. plan.nodes = ns /\ plan.edges = {Uplinked(New.router, 1, New.switch, "ethernet")}
                                      \cup Plugged(New.switch, 1, list)
  BY DEF buildHomelabPlan
<1>2. ListOf(list, Guests) /\ Len(list) <= 4
  <2>1. ListOf(compute, Hosts) /\ Len(compute) <= 2
    BY ComputeIsOneOrTwo
  <2>2. /\ ListOf(stores, {New.nas}) /\ (Len(stores) = 0 \/ Len(stores) = 1)
        /\ ListOf(radios, {New.access}) /\ (Len(radios) = 0 \/ Len(radios) = 1)
    <3>1. stores = <<>> \/ stores = <<New.nas>>
      BY DEF If
    <3>2. radios = <<>> \/ radios = <<New.access>>
      BY DEF If
    <3>3. ListOf(stores, {New.nas}) /\ (Len(stores) = 0 \/ Len(stores) = 1)
      BY <3>1, NoPart, OnePart
    <3>4. ListOf(radios, {New.access}) /\ (Len(radios) = 0 \/ Len(radios) = 1)
      BY <3>2, NoPart, OnePart
    <3> QED BY <3>3, <3>4
  <2>3. Hosts \cap {New.nas} = {} /\ (Hosts \cup {New.nas}) \cap {New.access} = {}
    BY TypesOfParts
  <2> HIDE DEF Hosts, compute, stores, radios
  <2>4. ListOf(one, Hosts \cup {New.nas}) /\ Len(one) = Len(compute) + Len(stores)
    BY <2>1, <2>2, <2>3, JoinedLists
  <2> HIDE DEF one
  <2>5. ListOf(list, Guests) /\ Len(list) = Len(one) + Len(radios)
    BY <2>2, <2>3, <2>4, JoinedLists
  <2> HIDE DEF list
  <2>6. Len(compute) \in Nat
    BY <2>1 DEF ListOf
  <2>7. Len(list) <= 4
    <3>1. \A x \in Nat : \A y, z \in 0..1 : x <= 2 => (x + y) + z <= 4
      OBVIOUS
    <3>2. Len(stores) \in 0..1 /\ Len(radios) \in 0..1 /\ Len(compute) <= 2
      BY <2>1, <2>2
    <3>3. Len(list) = (Len(compute) + Len(stores)) + Len(radios)
      BY <2>4, <2>5
    <3> QED BY <2>6, <3>1, <3>2, <3>3
  <2> QED BY <2>5, <2>7
<1> HIDE DEF list
<1>3. ASSUME NEW i \in Guests
      PROVE  /\ i \in Ids /\ i # New.router /\ i # New.switch /\ i # New.rack
             /\ TypeOf[i] \notin PowerSources \cup Uncabled /\ ~Table(i)
             /\ i = New.server_v2 => racked
    BY <1>3, TypesOfParts DEF PowerSources, Uncabled, NestedTypes, Table
<1>4. Parts(list) \subseteq Guests /\ list \in Seq(Guests) /\ Len(list) \in Nat
      /\ DOMAIN list = 1..Len(list)
  <2> HIDE DEF Guests
  <2> QED BY <1>2, PartsOfLists DEF ListOf
<1> HIDE DEF Guests
<1>5. /\ Parts(If(racked, New.rack)) = IF racked THEN {New.rack} ELSE {}
      /\ Parts(If(racked \/ a.resilient, New.ups)) \subseteq {New.ups}
  <2>1. Parts(<<>>) = {} /\ Parts(<<New.rack>>) = {New.rack} /\ Parts(<<New.ups>>) = {New.ups}
    BY DEF Parts
  <2> QED BY <2>1 DEF If
<1>6. /\ New.router # New.switch /\ New.router # New.rack /\ New.switch # New.rack
      /\ New.server_v2 # New.router /\ New.server_v2 # New.switch /\ New.server_v2 # New.rack
      /\ New.ups # New.server_v2
      /\ {New.router, New.switch, New.rack, New.ups, New.server_v2} \subseteq Ids
  BY TypesOfParts
<1>7. /\ DOMAIN ns = devices /\ ns = [i \in DOMAIN ns |-> ns[i]] /\ devices \subseteq Ids
      /\ {New.router, New.switch} \subseteq devices /\ Parts(list) \subseteq devices
      /\ New.server_v2 \in devices => racked /\ New.rack \in devices
  BY <1>3, <1>4, <1>5, <1>6
<1> HIDE DEF devices
<1>8. /\ ns[New.router] = WithPorts(4)
      /\ ns[New.switch] = WithPorts(IF a.budget = "enthusiast" THEN 16 ELSE 8)
      /\ New.rack \in devices => ns[New.rack] = [Plain EXCEPT !.size = 12]
      /\ New.server_v2 \in devices =>
           ns[New.server_v2] = [WithPorts(IF a.budget = "enthusiast" THEN 4 ELSE 2)
                                  EXCEPT !.rack = New.rack, !.units = 2, !.slot = 1]
      /\ \A i \in devices \ {New.router, New.switch, New.rack, New.server_v2} : ns[i] = Default(i)
  BY <1>6, <1>7
<1> HIDE DEF ns
<1>9. ns[New.router].ports = 4 /\ ns[New.switch].ports \in Nat /\ ns[New.switch].ports >= 8
  BY <1>8, PlainDevices
<1>10. ASSUME NEW i \in devices
       PROVE  /\ ns[i] \in Device
              /\ ns[i].rack # Nowhere => /\ i = New.server_v2 /\ ns[i].rack = New.rack
                                         /\ ns[i].slot = 1 /\ ns[i].units = 2
  <2>1. CASE i = New.router \/ i = New.switch
    BY <1>8, <2>1, PlainDevices
  <2>2. CASE i = New.rack
    BY <1>8, <2>2 DEF Plain, Device
  <2>3. CASE i = New.server_v2
    <3> DEFINE device(n) == [WithPorts(n) EXCEPT !.rack = New.rack, !.units = 2, !.slot = 1]
    <3>1. ASSUME NEW n \in Nat
          PROVE  /\ device(n) \in Device /\ device(n).rack = New.rack
                 /\ device(n).units = 2 /\ device(n).slot = 1
      BY <1>6 DEF WithPorts, Plain, Device
    <3>2. ns[i] = device(4) \/ ns[i] = device(2)
      BY <1>8, <1>10, <2>3
    <3> HIDE DEF device
    <3> QED BY <2>3, <3>1, <3>2
  <2>4. CASE i \notin {New.router, New.switch, New.rack, New.server_v2}
    BY <1>8, <2>4, PlainDevices
  <2> QED BY <2>1, <2>2, <2>3, <2>4
<1>11. ASSUME NEW i \in DOMAIN ns PROVE ~NodeIssue(ns, i) /\ ~Outside(ns, i)
  <2>1. CASE ns[i].rack = Nowhere
    BY <2>1 DEF NodeIssue, Outside
  <2>2. CASE ns[i].rack # Nowhere
    <3>1. /\ i = New.server_v2 /\ ns[i].rack = New.rack /\ ns[i].slot = 1 /\ ns[i].units = 2
          /\ New.rack \in DOMAIN ns
      BY <1>7, <1>10, <1>11, <2>2
    <3>2. ns[New.rack].size = 12
      BY <1>7, <1>8, <3>1 DEF Plain
    <3> QED BY <1>6, <3>1, <3>2, TypesOfParts DEF NodeIssue, Outside, Rack, FloorTypes
  <2> QED BY <2>1, <2>2
<1>12. NodesOK(ns)
  BY <1>7, <1>10, <1>11 DEF NodesOK
<1>13. ListOf(list, DOMAIN ns \ {New.router, New.switch})
  <2>1. \A n \in 1..Len(list) : list[n] \in Parts(list) /\ list[n] \in Guests
    BY <1>4 DEF Parts
  <2>2. \A n \in 1..Len(list) : list[n] \in DOMAIN ns \ {New.router, New.switch}
    BY <1>3, <1>7, <2>1
  <2>3. list \in Seq(DOMAIN ns \ {New.router, New.switch})
    BY <1>4, <2>2
  <2> QED BY <1>2, <2>3 DEF ListOf
<1>14. ASSUME NEW n \in DOMAIN list
       PROVE  /\ types[n] = WirelessAccess(list[n])
              /\ types[n] \in LinkTypes
              /\ TypeOf[list[n]] \notin PowerSources \cup Uncabled
              /\ types[n] = "wireless" => TypeOf[list[n]] = "access_point"
              /\ Table(list[n]) => types[n] = "ethernet"
  <2>1. list[n] \in Guests
    BY <1>4
  <2> QED BY <1>3, <2>1 DEF LinkTypes, WirelessAccess
<1>15. Fitting(ns, New.router, 1, New.switch, 1, list, types)
  <2> HIDE DEF types
  <2>1. 1 + Len(list) <= ns[New.switch].ports
    BY <1>2, <1>4, <1>9
  <2>2. 1 < ns[New.router].ports /\ 1 \in Nat
    BY <1>9
  <2>3. New.router \in DOMAIN ns /\ New.switch \in DOMAIN ns /\ New.router # New.switch
    BY <1>6, <1>7
  <2>4. TypeOf[New.router] \in {"modem", "router"} /\ TypeOf[New.switch] \in {"router", "switch"}
    BY TypesOfParts
  <2> QED BY <1>12, <1>13, <1>14, <2>1, <2>2, <2>3, <2>4 DEF Fitting
<1>16. plan.edges = Star(New.router, 1, New.switch, 1, list, types)
  <2>1. Plugged(New.switch, 1, list) = Spokes(New.switch, 1, list, types)
    BY <1>14 DEF Plugged, Spokes
  <2> QED BY <1>1, <2>1 DEF Star
<1> HIDE DEF types, plan
<1> QED BY <1>1, <1>11, <1>15, <1>16, StarsFit DEF plan

LEMMA PlansAreFine ==
  ASSUME NEW plan \in Plans
  PROVE  Sound(plan.nodes, plan.edges) /\ Wired(plan.nodes, plan.edges)
         /\ Fits(plan.nodes, plan.edges)
  BY HomelabPlansFit, LanPartyPlansFit, GameServerPlansFit DEF Plans

-----------------------------------------------------------------------------
(* The project.                                                            *)

\* What holds of a build by who changed it last: an old one was stored, every other
\* one is sound, and what a program made satisfies what a save asks besides.
ProjectInv ==
    /\ by = "old" => Stored([nodes |-> nodes, edges |-> edges])
    /\ by # "old" => Sound(nodes, edges)
    /\ by \in {"ops", "planner", "conversion"} => Wired(nodes, edges)
    /\ by = "planner" => Fits(nodes, edges)

LEMMA ProjectInitInv == ProjectInit => ProjectInv
<1>1. ASSUME Init PROVE ProjectInv
  <2>1. nodes = [i \in {} |-> Nowhere] /\ edges = {} /\ by = "panels"
    BY <1>1 DEF Init
  <2>2. DOMAIN nodes = {} /\ nodes = [i \in DOMAIN nodes |-> nodes[i]]
    BY <2>1
  <2>3. Sound(nodes, edges)
    BY <2>1, <2>2 DEF Sound, NodesOK, EdgesOK, Apart
  <2> QED BY <2>1, <2>3 DEF ProjectInv
<1>2. ASSUME OldInit PROVE ProjectInv
  <2>1. PICK old \in OldBuilds : nodes = old.nodes /\ edges = old.edges /\ by = "old"
    BY <1>2 DEF OldInit
  <2>2. Stored(old)
    BY OldBuildsAssumption
  <2>3. Stored([nodes |-> nodes, edges |-> edges])
    BY <2>1, <2>2 DEF Stored
  <2> QED BY <2>1, <2>3 DEF ProjectInv
<1> QED BY <1>1, <1>2 DEF ProjectInit

LEMMA EmptyIsSound ==
  ASSUME NEW ns, NEW es, ns = [i \in {} |-> Nowhere], es = {}
  PROVE  Sound(ns, es)
<1>1. DOMAIN ns = {} /\ ns = [i \in DOMAIN ns |-> ns[i]]
  OBVIOUS
<1> QED BY <1>1 DEF Sound, NodesOK, EdgesOK, Apart

LEMMA NextKeeps ==
  ASSUME by # "old", Sound(nodes, edges), Next
  PROVE  /\ by' # "old" /\ Sound(nodes, edges)'
         /\ by' = "ops" => Ops /\ Wired(nodes, edges)' /\ NoWorse(nodes, nodes')
         /\ by' = "hands" => Hands /\ KeptUsually
         /\ by' \notin {"planner", "conversion"}
<1>1. CASE Ops /\ by' = "ops"
  <2>1. Wired(nodes, edges) /\ NodesOK(nodes)
    BY <1>1, AcceptedIsWired DEF Ops, Sound
  <2>2. Kept /\ NoWorse(nodes, nodes')
    BY <1>1, <2>1, OpsKeep, OpsNoWorse
  <2> QED BY <1>1, <2>1, <2>2 DEF Kept
<1>2. CASE Hands /\ by' = "hands"
  <2>1. KeptUsually
    BY <1>2, HandsKeep
  <2> QED BY <1>2, <2>1 DEF KeptUsually
<1>3. CASE Panels /\ by' = "panels"
  <2>1. Sound(nodes, edges)'
    BY <1>3, PanelsAreSound
  <2> QED BY <1>3, <2>1
<1> QED BY <1>1, <1>2, <1>3 DEF Next

LEMMA ProjectNextInv == ProjectInv /\ [ProjectNext]_vars => ProjectInv'
<1> SUFFICES ASSUME ProjectInv, [ProjectNext]_vars PROVE ProjectInv'
  OBVIOUS
<1>1. CASE Small /\ Next
  <2>1. by # "old" /\ Sound(nodes, edges)
    BY <1>1 DEF Small, ProjectInv
  <2> QED BY <1>1, <2>1, NextKeeps DEF ProjectInv
<1>2. CASE ConvertLegacyPowerCables /\ by' = "conversion"
  <2>1. PICK plan \in planLegacyPowerCables([nodes |-> nodes, edges |-> edges]) :
          nodes' = plan.nodes /\ edges' = plan.edges
    BY <1>2 DEF ConvertLegacyPowerCables
  <2>2. Stored([nodes |-> nodes, edges |-> edges])
    BY <1>2 DEF ConvertLegacyPowerCables, ProjectInv
  <2>3. Sound(plan.nodes, plan.edges) /\ Wired(plan.nodes, plan.edges)
    BY <2>1, <2>2, ConversionsAreWired
  <2>4. Sound(nodes, edges)' /\ Wired(nodes, edges)'
    BY <2>1, <2>3
  <2> QED BY <1>2, <2>4 DEF ProjectInv
<1>3. CASE createLab /\ by' = "planner"
  <2>1. PICK plan \in Plans : nodes' = plan.nodes /\ edges' = plan.edges
    BY <1>3 DEF createLab
  <2>2. /\ Sound(plan.nodes, plan.edges) /\ Wired(plan.nodes, plan.edges)
        /\ Fits(plan.nodes, plan.edges)
    BY PlansAreFine
  <2>3. Sound(nodes, edges)' /\ Wired(nodes, edges)' /\ Fits(nodes, edges)'
    BY <2>1, <2>2
  <2> QED BY <1>3, <2>3 DEF ProjectInv
<1>4. CASE createEmpty /\ by' = "panels"
  <2>1. nodes' = [i \in {} |-> Nowhere] /\ edges' = {}
    BY <1>4 DEF createEmpty
  <2>2. Sound(nodes', edges')
    BY <2>1, EmptyIsSound
  <2>3. Sound(nodes, edges)'
    BY <2>2
  <2> QED BY <1>4, <2>3 DEF ProjectInv
<1>5. CASE UNCHANGED vars
  <2>1. nodes' = nodes /\ edges' = edges /\ by' = by
    BY <1>5 DEF vars
  <2> QED BY <2>1 DEF ProjectInv
<1> QED BY <1>1, <1>2, <1>3, <1>4, <1>5 DEF ProjectNext

THEOREM ProjectIsSound == ProjectSpec => []ProjectInv
<1>1. ProjectInit => ProjectInv
  BY ProjectInitInv
<1>2. ProjectInv /\ [ProjectNext]_vars => ProjectInv'
  BY ProjectNextInv
<1> QED BY <1>1, <1>2, PTL DEF ProjectSpec

\* Whatever operation of a change set is applied to a saved build, whatever a
\* planner answers and whatever an old build is converted to, the save accepts
\* (ApplyTopologyOps, createBuildWithTopology, ConvertLegacyPowerCables).
THEOREM ProgramsAreAccepted == ProjectSpec => []ProgramsKeepAcceptable
<1>1. ProjectInv => ProgramsKeepAcceptable
  BY AcceptedIsWired DEF ProjectInv, ProgramsKeepAcceptable
<1> QED BY <1>1, ProjectIsSound, PTL

\* Every cable of a planned build ends at a port its card has and no other cable
\* takes, and what is mounted fits its rack (corePorts, switchPort, rack_position).
THEOREM PlansAlwaysFit == ProjectSpec => []PlansFit
<1>1. ProjectInv => PlansFit
  BY DEF ProjectInv, PlansFit, Fits
<1> QED BY <1>1, ProjectIsSound, PTL

\* No removal leaves a cable or a mounted device behind, and power runs from
\* sockets to inputs.
THEOREM BuildsKeepTheirShape == ProjectSpec => []TopologyTypeOK
<1>1. ProjectInv => TopologyTypeOK
  <2>1. ASSUME Sound(nodes, edges) PROVE TopologyTypeOK
    BY <2>1 DEF Sound, NodesOK, EdgesOK, NodeIssue, TopologyTypeOK
  <2>2. ASSUME Stored([nodes |-> nodes, edges |-> edges]) PROVE TopologyTypeOK
    <3>1. Settling([nodes |-> nodes, edges |-> edges])
      BY <2>2, StoredIsSettling
    <3>2. NodesOK(nodes) /\ EdgesOK(nodes, edges)
      BY <3>1 DEF Settling, Sound
    <3> QED BY <3>2 DEF NodesOK, EdgesOK, NodeIssue, TopologyTypeOK
  <2> QED BY <2>1, <2>2 DEF ProjectInv
<1> QED BY <1>1, ProjectIsSound, PTL

\* Builds of every size, whatever is counted in them.
Unlimited == {[devices |-> Ids, cables |-> n, counts |-> CountKeys \X Nat, raised |-> n] : n \in Nat}

\* The bound on what is explored leaves nothing out where builds of every size are
\* among those explored: what is proved for every Builds is proved without it
\* (Bounded, Small, Joining).
LEMMA NothingIsCut ==
  ASSUME Sound(nodes, edges), IsFiniteSet(edges), Unlimited \subseteq Builds
  PROVE  Bounded
<1>1. Raised \subseteq Ids \X CountKeys
  BY DEF Raised, Counted, CountKeys, Sound, NodesOK
<1>2. IsFiniteSet(Raised)
  <2>1. IsFiniteSet(CountKeys)
    <3>1. IsFiniteSet({"ports"}) /\ IsFiniteSet({"psu"}) /\ IsFiniteSet({"outlets"})
          /\ IsFiniteSet({"units"}) /\ IsFiniteSet({"size"})
      BY FS_Singleton
    <3>2. IsFiniteSet({"ports"} \cup {"psu"}) /\ IsFiniteSet({"units"} \cup {"size"})
      BY <3>1, FS_Union
    <3>3. IsFiniteSet(({"ports"} \cup {"psu"}) \cup {"outlets"})
      BY <3>1, <3>2, FS_Union
    <3>4. IsFiniteSet((({"ports"} \cup {"psu"}) \cup {"outlets"}) \cup ({"units"} \cup {"size"}))
      BY <3>2, <3>3, FS_Union
    <3>5. CountKeys = (({"ports"} \cup {"psu"}) \cup {"outlets"}) \cup ({"units"} \cup {"size"})
      BY DEF CountKeys
    <3> QED BY <3>4, <3>5
  <2>2. IsFiniteSet(Ids \X CountKeys)
    BY <2>1, FS_Product, TopologyAssumption
  <2> QED BY <1>1, <2>2, FS_Subset
<1>3. Cardinality(Raised) \in Nat /\ Cardinality(edges) \in Nat
  BY <1>2, FS_CardinalityType
<1>4. PICK n \in Nat : Cardinality(edges) <= n /\ Cardinality(Raised) <= n
  <2>1. CASE Cardinality(edges) <= Cardinality(Raised)
    BY <1>3, <2>1
  <2>2. CASE Cardinality(Raised) <= Cardinality(edges)
    BY <1>3, <2>2
  <2> QED BY <1>3, <2>1, <2>2
<1> DEFINE build == [devices |-> Ids, cables |-> n, counts |-> CountKeys \X Nat, raised |-> n]
<1>5. build \in Builds
  BY DEF Unlimited
<1>6. ASSUME NEW r \in Raised PROVE <<r[2], nodes[r[1]][r[2]]>> \in CountKeys \X Nat
  <2>1. r[1] \in DOMAIN nodes /\ r[2] \in CountKeys
    BY <1>1, <1>6 DEF Raised
  <2>2. nodes[r[1]] \in Device
    BY <2>1 DEF Sound, NodesOK
  <2>3. nodes[r[1]][r[2]] \in Nat
    BY <2>1, <2>2 DEF Device, CountKeys
  <2> QED BY <2>1, <2>3
<1>7. DOMAIN nodes \subseteq Ids
  BY DEF Sound, NodesOK
<1> QED BY <1>4, <1>5, <1>6, <1>7 DEF Bounded

\* No operation of a change set mounts a device over another one or out of its
\* rack, however tall the two are and however large the rack (allocateRackSlot).
THEOREM OpsAlwaysMountApart == ProjectSpec => OpsMountApart
<1> DEFINE Step ==
      by' = "ops" => \A i \in DOMAIN nodes' :
         /\ Outside(nodes', i) => i \in DOMAIN nodes /\ Outside(nodes, i)
         /\ \A j \in DOMAIN nodes' : Overlap(nodes', i, j) =>
              {i, j} \subseteq DOMAIN nodes /\ Overlap(nodes, i, j)
<1>1. ProjectInv /\ [ProjectNext]_vars => [Step]_vars
  <2> SUFFICES ASSUME ProjectInv, ProjectNext, by' = "ops" PROVE Step
    OBVIOUS
  <2>1. Small /\ Next
    BY DEF ProjectNext
  <2>2. NoWorse(nodes, nodes')
    BY <2>1, NextKeeps DEF Small, ProjectInv
  <2> QED BY <2>2 DEF NoWorse
<1>2. ProjectSpec => []ProjectInv
  BY ProjectIsSound
<1> QED BY <1>1, <1>2, PTL DEF ProjectSpec, OpsMountApart

\* What is drawn, dropped, moved and deleted on the canvas of an accepted build
\* leaves an accepted one (connection-rules.ts), where loops are refused and no
\* part lies on the canvas as a device of its own.
THEOREM HandsAlwaysKeepAcceptable == ProjectSpec => HandsKeepAcceptable
<1> DEFINE Step ==
      by' = "hands" /\ ~AllowLoops /\ Accepted(nodes, edges) /\ (\A i \in DOMAIN nodes : TypeOf[i] \notin NestedTypes)
         => Accepted(nodes, edges)'
<1>1. ProjectInv /\ [ProjectNext]_vars => [Step]_vars
  <2> SUFFICES ASSUME ProjectInv, ProjectNext, by' = "hands", Accepted(nodes, edges), Usual
               PROVE  Accepted(nodes, edges)'
    BY DEF Usual
  <2>1. Small /\ Next
    BY DEF ProjectNext
  <2>2. Sound(nodes, edges)
    BY <2>1 DEF Small, ProjectInv
  <2>3. Wired(nodes, edges)
    BY <2>2, AcceptedIsWired
  <2>4. Sound(nodes, edges)' /\ Wired(nodes, edges)'
    BY <2>1, <2>2, <2>3, NextKeeps DEF Small, KeptUsually
  <2>5. Sound(nodes', edges') /\ Wired(nodes', edges')
    BY <2>4
  <2>6. Accepted(nodes', edges')
    BY <2>5, AcceptedIsWired
  <2> QED BY <2>6
<1>2. ProjectSpec => []ProjectInv
  BY ProjectIsSound
<1> QED BY <1>1, <1>2, PTL DEF ProjectSpec, HandsKeepAcceptable

-----------------------------------------------------------------------------
(* What a failure takes. *)

\* The devices that are without power by themselves when x fails.
Struck(ns, x) == {i \in DOMAIN ns : i = x \/ Circuit[i] = x}

\* One more step in the dark.
Darker(ns, es, S) ==
    S \cup {i \in DOMAIN ns : FeedsOf(es, i) # {} /\ \A e \in FeedsOf(es, i) : e.s \in S}

Darkens(f, ns, es, x, k) ==
    f = [n \in 0..k |-> IF n = 0 THEN Struck(ns, x) ELSE Darker(ns, es, f[n - 1])]

LEMMA DarkensStep ==
  ASSUME NEW ns, NEW es, NEW x, NEW k \in Nat, NEW f, Darkens(f, ns, es, x, k),
         NEW n \in Nat, n + 1 <= k
  PROVE  f[n + 1] = Darker(ns, es, f[n])
<1>1. n + 1 \in 0..k /\ n + 1 # 0 /\ (n + 1) - 1 = n
  OBVIOUS
<1> QED BY <1>1 DEF Darkens

LEMMA DarkensExtend ==
  ASSUME NEW ns, NEW es, NEW x, NEW k \in Nat, NEW f, Darkens(f, ns, es, x, k)
  PROVE  \E g : Darkens(g, ns, es, x, k + 1)
<1> DEFINE g == [n \in 0..(k + 1) |-> IF n <= k THEN f[n] ELSE Darker(ns, es, f[k])]
<1>1. ASSUME NEW n \in 0..(k + 1)
      PROVE  g[n] = IF n = 0 THEN Struck(ns, x) ELSE Darker(ns, es, g[n - 1])
  <2>1. CASE n = 0
    BY <2>1 DEF Darkens
  <2>2. CASE n # 0 /\ n <= k
    <3>1. n \in 0..k /\ n - 1 \in 0..(k + 1) /\ n - 1 <= k
      BY <2>2
    <3>2. f[n] = Darker(ns, es, f[n - 1])
      BY <2>2, <3>1 DEF Darkens
    <3> QED BY <2>2, <3>1, <3>2
  <2>3. CASE n = k + 1
    BY <2>3
  <2> QED BY <2>1, <2>2, <2>3
<1>2. g = [n \in 0..(k + 1) |-> IF n = 0 THEN Struck(ns, x) ELSE Darker(ns, es, g[n - 1])]
  <2>1. g = [n \in 0..(k + 1) |-> g[n]]
    OBVIOUS
  <2> HIDE DEF g
  <2> QED BY <1>1, <2>1
<1> HIDE DEF g
<1> QED BY <1>2 DEF Darkens

LEMMA DarkensExist ==
  ASSUME NEW ns, NEW es, NEW x, NEW k \in Nat
  PROVE  \E f : Darkens(f, ns, es, x, k)
<1> DEFINE S == {n \in Nat : \E f : Darkens(f, ns, es, x, n)}
<1>1. 0 \in S
  <2>1. Darkens([n \in 0..0 |-> Struck(ns, x)], ns, es, x, 0)
    BY DEF Darkens
  <2> QED BY <2>1
<1>2. \A n \in Nat : n \in S => n + 1 \in S
  BY DarkensExtend
<1>3. Nat \subseteq S
  <2> HIDE DEF S
  <2> QED BY <1>1, <1>2, Counting
<1> QED BY <1>3

LEMMA DarkByDarkening ==
  ASSUME NEW ns, NEW es, NEW x, Cardinality(DOMAIN ns) \in Nat
  PROVE  \E f : /\ Darkens(f, ns, es, x, Cardinality(DOMAIN ns))
                /\ Dark(ns, es, x) = f[Cardinality(DOMAIN ns)]
<1> DEFINE f == CHOOSE f : Darkens(f, ns, es, x, Cardinality(DOMAIN ns))
<1>1. Darkens(f, ns, es, x, Cardinality(DOMAIN ns))
  BY DarkensExist
<1>2. Dark(ns, es, x) = f[Cardinality(DOMAIN ns)]
  BY DEF Dark, Darkens, Darker, Struck
<1> QED BY <1>1, <1>2

\* Nothing is left that hangs off what is without power only.
AllDark(S, ns, es) ==
    \A i \in DOMAIN ns : FeedsOf(es, i) # {} /\ (\A e \in FeedsOf(es, i) : e.s \in S) => i \in S

LEMMA DarkensStayIn ==
  ASSUME NEW ns, NEW es, NEW x, NEW k \in Nat, NEW f, Darkens(f, ns, es, x, k),
         NEW S, Struck(ns, x) \subseteq S, AllDark(S, ns, es)
  PROVE  \A n \in 0..k : Struck(ns, x) \subseteq f[n] /\ f[n] \subseteq S
<1> DEFINE N == {n \in Nat : n <= k => Struck(ns, x) \subseteq f[n] /\ f[n] \subseteq S}
<1>1. 0 \in N
  BY DEF Darkens
<1>2. ASSUME NEW n \in Nat, n \in N PROVE n + 1 \in N
  <2>1. CASE n + 1 <= k
    <3>1. f[n + 1] = Darker(ns, es, f[n])
      BY <2>1, DarkensStep
    <3>2. Struck(ns, x) \subseteq f[n] /\ f[n] \subseteq S
      BY <1>2, <2>1
    <3> QED BY <3>1, <3>2 DEF Darker, AllDark
  <2> QED BY <2>1
<1>3. Nat \subseteq N
  <2> HIDE DEF N
  <2> QED BY <1>1, <1>2, Counting
<1> QED BY <1>3

LEMMA DarkensCloseIn ==
  ASSUME NEW ns, IsFiniteSet(DOMAIN ns), NEW es, NEW x, NEW k \in Nat, NEW f,
         Darkens(f, ns, es, x, k)
  PROVE  \A n \in 0..k : f[n] \subseteq DOMAIN ns /\ (AllDark(f[n], ns, es) \/ Cardinality(f[n]) >= n)
<1> DEFINE S == {n \in Nat : n <= k => /\ f[n] \subseteq DOMAIN ns
                                       /\ AllDark(f[n], ns, es) \/ Cardinality(f[n]) >= n}
<1>1. 0 \in S
  <2>1. f[0] = Struck(ns, x)
    BY DEF Darkens
  <2>2. f[0] \subseteq DOMAIN ns
    BY <2>1 DEF Struck
  <2>3. Cardinality(f[0]) \in Nat
    BY <2>2, FS_Subset, FS_CardinalityType
  <2> QED BY <2>2, <2>3
<1>2. ASSUME NEW n \in Nat, n \in S PROVE n + 1 \in S
  <2>1. CASE n + 1 <= k
    <3>1. f[n + 1] = Darker(ns, es, f[n])
      BY <2>1, DarkensStep
    <3>2. f[n] \subseteq DOMAIN ns /\ (AllDark(f[n], ns, es) \/ Cardinality(f[n]) >= n)
      BY <1>2, <2>1
    <3>3. f[n + 1] \subseteq DOMAIN ns /\ f[n] \subseteq f[n + 1]
      BY <3>1, <3>2 DEF Darker
    <3>4. CASE AllDark(f[n], ns, es)
      <4>1. f[n + 1] = f[n]
        BY <3>1, <3>4 DEF Darker, AllDark
      <4> QED BY <3>3, <3>4, <4>1
    <3>5. CASE ~AllDark(f[n], ns, es)
      <4>1. PICK i \in DOMAIN ns : i \notin f[n] /\ i \in f[n + 1]
        BY <3>1, <3>5 DEF Darker, AllDark
      <4>2. IsFiniteSet(f[n]) /\ IsFiniteSet(f[n + 1])
        BY <3>2, <3>3, FS_Subset
      <4>3. Cardinality(f[n] \cup {i}) = Cardinality(f[n]) + 1
        BY <4>1, <4>2, FS_AddElement
      <4>4. Cardinality(f[n] \cup {i}) <= Cardinality(f[n + 1])
        BY <3>3, <4>1, <4>2, FS_Subset
      <4>5. Cardinality(f[n]) \in Nat /\ Cardinality(f[n + 1]) \in Nat /\ Cardinality(f[n]) >= n
        BY <3>2, <3>5, <4>2, FS_CardinalityType
      <4> QED BY <3>3, <4>3, <4>4, <4>5
    <3> QED BY <3>4, <3>5
  <2> QED BY <2>1
<1>3. Nat \subseteq S
  <2> HIDE DEF S
  <2> QED BY <1>1, <1>2, Counting
<1> QED BY <1>3

\* What a failure takes is the least set with what it strikes and with everything
\* that hangs off the set only.
LEMMA DarkIsLeast ==
  ASSUME NEW ns, IsFiniteSet(DOMAIN ns), NEW es, NEW x
  PROVE  /\ Struck(ns, x) \subseteq Dark(ns, es, x) /\ Dark(ns, es, x) \subseteq DOMAIN ns
         /\ AllDark(Dark(ns, es, x), ns, es)
         /\ \A S : Struck(ns, x) \subseteq S /\ AllDark(S, ns, es) => Dark(ns, es, x) \subseteq S
<1> DEFINE c == Cardinality(DOMAIN ns)
<1>1. c \in Nat /\ c \in 0..c
  BY FS_CardinalityType
<1>2. PICK f : Darkens(f, ns, es, x, c) /\ Dark(ns, es, x) = f[c]
  BY <1>1, DarkByDarkening
<1>3. \A S : Struck(ns, x) \subseteq S /\ AllDark(S, ns, es) =>
               Struck(ns, x) \subseteq f[c] /\ f[c] \subseteq S
  BY <1>1, <1>2, DarkensStayIn
<1>4. f[c] \subseteq DOMAIN ns /\ (AllDark(f[c], ns, es) \/ Cardinality(f[c]) >= c)
  BY <1>1, <1>2, DarkensCloseIn
<1>5. AllDark(f[c], ns, es)
  <2>1. CASE Cardinality(f[c]) >= c
    <3>1. Cardinality(f[c]) <= c /\ Cardinality(f[c]) \in Nat
      BY <1>4, FS_Subset, FS_CardinalityType
    <3>2. f[c] = DOMAIN ns
      BY <1>1, <1>4, <2>1, <3>1, FS_Subset
    <3> QED BY <3>2 DEF AllDark
  <2> QED BY <1>4, <2>1
<1>6. Struck(ns, x) \subseteq f[c]
  <2>1. AllDark(DOMAIN ns, ns, es) /\ Struck(ns, x) \subseteq DOMAIN ns
    BY DEF AllDark, Struck
  <2> QED BY <1>3, <2>1
<1> QED BY <1>2, <1>3, <1>4, <1>5, <1>6

-----------------------------------------------------------------------------
(* The warning. *)

\* From every end of a cable to its other end, upstream.
Upstream(es) == {<<e.t, e.s>> : e \in Power(es)}

LEMMA UpstreamIsReversed ==
  ASSUME NEW es
  PROVE  \A a, b : <<a, b>> \in Upstream(es) <=> <<b, a>> \in Feeds(es)
  BY DEF Upstream, Feeds

LEMMA UpstreamIsFinite ==
  ASSUME NEW ns, NEW es, Sound(ns, es)
  PROVE  IsFiniteSet(Upstream(es)) /\ IsFiniteSet(Feeds(es)) /\ IsFiniteSet(DOMAIN ns)
<1>1. IsFiniteSet(Ids \X Ids) /\ IsFiniteSet(DOMAIN ns)
  BY FS_Product, FS_Subset, TopologyAssumption DEF Sound, NodesOK
<1>2. Feeds(es) \subseteq Ids \X Ids /\ Upstream(es) \subseteq Ids \X Ids
  BY DEF Feeds, Upstream, Power, Sound, EdgesOK, NodesOK
<1> QED BY <1>1, <1>2, FS_Subset

LEMMA WalksBack ==
  ASSUME NEW es, IsFiniteSet(Upstream(es)), IsFiniteSet(Feeds(es)), NEW a,
         NEW b \in ReachedBy(Upstream(es), a)
  PROVE  a \in ReachedBy(Feeds(es), b)
<1> DEFINE All == {a} \cup {p[2] : p \in Upstream(es)}
           S == {k \in All : a \in ReachedBy(Feeds(es), k)}
<1>1. a \in S
  BY ReachedIsLeast
<1>2. ASSUME NEW p \in Upstream(es), p[1] \in S PROVE p[2] \in S
  <2>1. p[2] \in All /\ a \in ReachedBy(Feeds(es), p[1])
    BY <1>2
  <2>2. <<p[2], p[1]>> \in Feeds(es)
    BY DEF Upstream, Feeds
  <2>3. p[2] \in ReachedBy(Feeds(es), p[2]) /\ Closed(ReachedBy(Feeds(es), p[2]), Feeds(es))
    BY ReachedIsLeast
  <2>4. p[1] \in ReachedBy(Feeds(es), p[2])
    BY <2>2, <2>3 DEF Closed
  <2>5. a \in ReachedBy(Feeds(es), p[2])
    BY <2>1, <2>4, ReachedIsTransitive
  <2> QED BY <2>1, <2>5
<1>3. Closed(S, Upstream(es))
  BY <1>2 DEF Closed
<1>4. ReachedBy(Upstream(es), a) \subseteq S
  <2> HIDE DEF S
  <2> QED BY <1>1, <1>3, ReachedIsLeast
<1> QED BY <1>4

\* The feeds of a device end at different power supplies, which are finitely many.
LEMMA FeedsDiffer ==
  ASSUME NEW ns, NEW es, Sound(ns, es), Wired(ns, es), NEW i \in DOMAIN ns
  PROVE  /\ \A e, f \in FeedsOf(es, i) : e # f => e.th # f.th
         /\ IsFiniteSet(FeedsOf(es, i))
<1>1. ASSUME NEW e \in FeedsOf(es, i), NEW f \in FeedsOf(es, i), e # f PROVE e.th # f.th
  <2>1. e \in es /\ f \in es /\ e.type = "power" /\ f.type = "power" /\ e.t = i /\ f.t = i
    BY DEF FeedsOf, Power
  <2>2. <<i, e.th>> \in PortsOf(e) /\ <<i, f.th>> \in PortsOf(f)
    BY <2>1 DEF PortsOf, Ends
  <2>3. PortsOf(e) \cap PortsOf(f) = {}
    BY <1>1, <2>1 DEF Sound, Apart
  <2> QED BY <2>2, <2>3
<1> DEFINE inputs == Inputs(PowerInputCount(ns, i))
           plugs == [e \in FeedsOf(es, i) |-> e.th]
<1>2. \A e \in FeedsOf(es, i) : e.th \in inputs
  BY DEF FeedsOf, Power, Wired, CableOK, PowerCableIssue
<1>3. IsFiniteSet(inputs)
  <2>1. PowerInputCount(ns, i) \in Nat
    BY CountsAreNumbers DEF Sound
  <2>2. IsFiniteSet({"in"} \X (0..(PowerInputCount(ns, i) - 1)))
    <3>1. 0 \in Int /\ PowerInputCount(ns, i) - 1 \in Int
      BY <2>1
    <3>2. IsFiniteSet(0..(PowerInputCount(ns, i) - 1))
      BY <3>1, FS_Interval
    <3>3. IsFiniteSet({"in"})
      BY FS_Singleton
    <3> QED BY <3>2, <3>3, FS_Product
  <2>3. inputs \subseteq {"in"} \X (0..(PowerInputCount(ns, i) - 1))
    BY DEF Inputs
  <2> QED BY <2>2, <2>3, FS_Subset
<1>4. plugs \in Injection(FeedsOf(es, i), inputs)
  BY <1>1, <1>2 DEF Injection, IsInjective
<1>5. IsFiniteSet(FeedsOf(es, i))
  BY <1>3, <1>4, FS_Injection
<1> QED BY <1>1, <1>5

LEMMA FeedersAreSources ==
  ASSUME NEW ns, NEW es, Sound(ns, es), Wired(ns, es), NEW e \in Power(es)
  PROVE  Source(e.s) /\ e.s \in DOMAIN ns /\ e.t \in DOMAIN ns /\ e \in FeedsOf(es, e.t)
         /\ <<e.t, e.s>> \in Upstream(es)
<1>1. e \in es /\ e.type = "power"
  BY DEF Power
<1>2. e.sh \in Sockets(PowerOutputCount(ns, e.s))
  BY <1>1 DEF Wired, CableOK, PowerCableIssue
<1>3. PowerOutputCount(ns, e.s) # 0
  BY <1>2 DEF Sockets
<1>4. Source(e.s)
  BY <1>3 DEF PowerOutputCount
<1> QED BY <1>1, <1>4 DEF Sound, EdgesOK, FeedsOf, Upstream

LEMMA TokensAreUpstream ==
  ASSUME NEW es, NEW j
  PROVE  upstreamTokens(es, j) = ReachedBy(Upstream(es), j)
           \cup ({Circuit[i] : i \in ReachedBy(Upstream(es), j)} \ {NoCircuit})
  BY DEF upstreamTokens, Upstream

\* What fails is upstream of everything it takes.
LEMMA TakenHangOff ==
  ASSUME NEW ns, NEW es, Sound(ns, es), Wired(ns, es), NEW x \in Faults(ns),
         NEW j \in Dark(ns, es, x)
  PROVE  x \in upstreamTokens(es, j)
<1> DEFINE S == {k \in DOMAIN ns : x \in upstreamTokens(es, k)}
<1>1. IsFiniteSet(Upstream(es)) /\ IsFiniteSet(DOMAIN ns)
  BY UpstreamIsFinite
<1>2. x # NoCircuit
  BY PowerChainAssumption DEF Faults, Sound, NodesOK
<1>3. ASSUME NEW k \in Struck(ns, x) PROVE k \in S
  <2>1. k \in DOMAIN ns /\ (k = x \/ Circuit[k] = x) /\ k \in ReachedBy(Upstream(es), k)
    BY <1>1, ReachedIsLeast DEF Struck
  <2> QED BY <1>2, <2>1, TokensAreUpstream
<1>4. ASSUME NEW k \in DOMAIN ns, FeedsOf(es, k) # {}, \A e \in FeedsOf(es, k) : e.s \in S
      PROVE  k \in S
  <2>1. PICK e \in FeedsOf(es, k) : e.s \in S
    BY <1>4
  <2>2. e \in Power(es) /\ e.t = k
    BY DEF FeedsOf
  <2>3. <<k, e.s>> \in Upstream(es)
    BY <2>2, FeedersAreSources
  <2>4. k \in ReachedBy(Upstream(es), k) /\ Closed(ReachedBy(Upstream(es), k), Upstream(es))
    BY <1>1, ReachedIsLeast
  <2>5. e.s \in ReachedBy(Upstream(es), k)
    BY <2>3, <2>4 DEF Closed
  <2>6. ReachedBy(Upstream(es), e.s) \subseteq ReachedBy(Upstream(es), k)
    BY <1>1, <2>5, ReachedIsTransitive
  <2>7. x \in upstreamTokens(es, e.s)
    BY <2>1
  <2> QED BY <2>6, <2>7, TokensAreUpstream
<1>5. AllDark(S, ns, es)
  BY <1>4 DEF AllDark
<1>6. Struck(ns, x) \subseteq S
  BY <1>3
<1>7. Dark(ns, es, x) \subseteq S
  <2> HIDE DEF S
  <2> QED BY <1>1, <1>5, <1>6, DarkIsLeast
<1> QED BY <1>7

\* Where no source has two feeds, what is upstream of a source takes it.
LEMMA UpstreamTakes ==
  ASSUME NEW ns, NEW es, Sound(ns, es), Wired(ns, es),
         \A k \in DOMAIN ns : Source(k) => \A e, f \in FeedsOf(es, k) : e = f,
         NEW j \in DOMAIN ns, Source(j), NEW t \in upstreamTokens(es, j)
  PROVE  j \in Dark(ns, es, t) /\ t \in Faults(ns)
<1> DEFINE D == Dark(ns, es, t)
           Sources == {k \in DOMAIN ns : Source(k)}
           N == Sources \ D
<1>1. IsFiniteSet(Upstream(es)) /\ IsFiniteSet(DOMAIN ns)
  BY UpstreamIsFinite
<1>2. Struck(ns, t) \subseteq D /\ AllDark(D, ns, es)
  BY <1>1, DarkIsLeast
<1> HIDE DEF D
<1>3. ASSUME NEW p \in Upstream(es)
      PROVE  \E e \in Power(es) : /\ p[1] = e.t /\ p[2] = e.s /\ e \in FeedsOf(es, e.t)
                                  /\ e.s \in Sources
  BY FeedersAreSources DEF Upstream
<1>4. Closed(Sources, Upstream(es))
  BY <1>3 DEF Closed
<1>5. Closed(N, Upstream(es))
  <2> SUFFICES ASSUME NEW p \in Upstream(es), p[1] \in N PROVE p[2] \in N
    BY DEF Closed
  <2>1. PICK e \in Power(es) : /\ p[1] = e.t /\ p[2] = e.s /\ e \in FeedsOf(es, e.t)
                               /\ e.s \in Sources
    BY <1>3
  <2>2. \A f \in FeedsOf(es, e.t) : f = e
    BY <2>1
  <2>3. e.s \notin D
    BY <1>2, <2>1, <2>2 DEF AllDark
  <2> QED BY <2>1, <2>3
<1>6. j \in Sources
  OBVIOUS
<1>7. ReachedBy(Upstream(es), j) \subseteq Sources
  <2> HIDE DEF Sources
  <2> QED BY <1>1, <1>4, <1>6, ReachedIsLeast
<1>8. PICK k \in ReachedBy(Upstream(es), j) : t = k \/ (t = Circuit[k] /\ t # NoCircuit)
  BY TokensAreUpstream
<1>9. k \in Struck(ns, t) /\ t \in Faults(ns)
  BY <1>7, <1>8 DEF Struck, Faults
<1>10. j \in D
  <2> SUFFICES ASSUME j \notin D PROVE FALSE
    OBVIOUS
  <2>1. j \in N
    OBVIOUS
  <2>2. ReachedBy(Upstream(es), j) \subseteq N
    <3> HIDE DEF N
    <3> QED BY <1>1, <1>5, <2>1, ReachedIsLeast
  <2> QED BY <1>2, <1>8, <1>9, <2>2
<1> QED BY <1>9, <1>10 DEF D

LEMMA TwoAreMany ==
  ASSUME NEW S, IsFiniteSet(S), NEW a \in S, NEW b \in S, a # b
  PROVE  Cardinality(S) > 1
<1>1. Cardinality({a, b}) = 2 /\ {a, b} \subseteq S
  <2>1. IsFiniteSet({a}) /\ Cardinality({a}) = 1
    BY FS_Singleton
  <2>2. Cardinality({a} \cup {b}) = 2
    BY <2>1, FS_AddElement
  <2>3. {a} \cup {b} = {a, b}
    OBVIOUS
  <2> QED BY <2>2, <2>3
<1>2. 2 <= Cardinality(S) /\ Cardinality(S) \in Nat
  BY <1>1, FS_Subset, FS_CardinalityType
<1> QED BY <1>2

LEMMA ManyAreTwo ==
  ASSUME NEW S, Cardinality(S) > 1
  PROVE  \E a, b \in S : a # b
<1> SUFFICES ASSUME \A a, b \in S : a = b PROVE FALSE
  OBVIOUS
<1>1. S = {} \/ \E a : S = {a}
  OBVIOUS
<1>2. Cardinality(S) = 0 \/ Cardinality(S) = 1
  BY <1>1, FS_EmptySet, FS_Singleton
<1> QED BY <1>2

LEMMA WarningsAreRight ==
  ASSUME NEW ns, NEW es, Sound(ns, es), Wired(ns, es), NEW i \in DOMAIN ns
  PROVE  LET struck == \E x \in Faults(ns) \ {i} : Cardinality(Taken(ns, es, i, x)) > 1
             doubly == \E j \in DOMAIN ns : Source(j) /\ Cardinality(FeedsOf(es, j)) > 1
         IN  /\ struck => sharedDependency(es, i)
             /\ sharedDependency(es, i) => struck \/ doubly
<1>1. ASSUME NEW x \in Faults(ns) \ {i}, Cardinality(Taken(ns, es, i, x)) > 1
      PROVE  sharedDependency(es, i)
  <2>1. PICK e, f \in Taken(ns, es, i, x) : e # f
    BY <1>1, ManyAreTwo
  <2>2. /\ e \in FeedsOf(es, i) /\ f \in FeedsOf(es, i)
        /\ e.s \in Dark(ns, es, x) /\ f.s \in Dark(ns, es, x)
    BY DEF Taken
  <2>3. e.th # f.th
    BY <2>1, <2>2, FeedsDiffer
  <2>4. x \in upstreamTokens(es, e.s) /\ x \in upstreamTokens(es, f.s)
    BY <2>2, TakenHangOff
  <2> QED BY <2>2, <2>3, <2>4 DEF sharedDependency
<1>2. ASSUME sharedDependency(es, i),
             ~\E j \in DOMAIN ns : Source(j) /\ Cardinality(FeedsOf(es, j)) > 1
      PROVE  \E x \in Faults(ns) \ {i} : Cardinality(Taken(ns, es, i, x)) > 1
  <2>1. ASSUME NEW k \in DOMAIN ns, Source(k), NEW e \in FeedsOf(es, k), NEW f \in FeedsOf(es, k)
        PROVE  e = f
    BY <1>2, <2>1, FeedsDiffer, TwoAreMany
  <2>2. PICK e, f \in FeedsOf(es, i) :
          e.th # f.th /\ upstreamTokens(es, e.s) \cap upstreamTokens(es, f.s) # {}
    BY <1>2 DEF sharedDependency
  <2>3. PICK t : t \in upstreamTokens(es, e.s) /\ t \in upstreamTokens(es, f.s)
    BY <2>2
  <2>4. /\ e \in Power(es) /\ f \in Power(es) /\ e.t = i /\ f.t = i /\ e # f
    BY <2>2 DEF FeedsOf
  <2>5. e.s \in DOMAIN ns /\ Source(e.s) /\ f.s \in DOMAIN ns /\ Source(f.s)
    BY <2>4, FeedersAreSources
  <2>6. e.s \in Dark(ns, es, t) /\ t \in Faults(ns) /\ f.s \in Dark(ns, es, t)
    BY <2>1, <2>3, <2>5, UpstreamTakes
  <2>7. t # i
    <3> SUFFICES ASSUME t = i PROVE FALSE
      OBVIOUS
    <3>1. IsFiniteSet(Upstream(es)) /\ IsFiniteSet(Feeds(es))
      BY UpstreamIsFinite
    <3>2. i \in ReachedBy(Upstream(es), e.s)
      <4>1. i \in Ids
        BY DEF Sound, NodesOK
      <4>2. Closed(Ids, Upstream(es)) /\ e.s \in Ids
        <5>1. \A g \in Power(es) : g.s \in Ids
          BY FeedersAreSources DEF Sound, NodesOK
        <5> QED BY <2>4, <5>1 DEF Closed, Upstream
      <4>3. ReachedBy(Upstream(es), e.s) \subseteq Ids
        BY <3>1, <4>2, ReachedIsLeast
      <4> QED BY <2>3, <4>1, <4>3, TokensAreUpstream, PowerChainAssumption
    <3>3. e.s \in ReachedBy(Feeds(es), i)
      BY <3>1, <3>2, WalksBack
    <3>4. <<e.s, i>> \in Feeds(es)
      BY <2>4 DEF Feeds
    <3> QED BY <3>3, <3>4 DEF Wired, Loops
  <2>8. e \in Taken(ns, es, i, t) /\ f \in Taken(ns, es, i, t)
    BY <2>2, <2>6 DEF Taken
  <2>9. IsFiniteSet(Taken(ns, es, i, t))
    BY FeedsDiffer, FS_Subset DEF Taken
  <2>10. Cardinality(Taken(ns, es, i, t)) > 1
    BY <2>4, <2>8, <2>9, TwoAreMany
  <2> QED BY <2>6, <2>7, <2>10
<1> QED BY <1>1, <1>2

\* A device with several power supplies is warned about when one failure may take two
\* of them, and only then unless a source in between has a second feed
\* (sharedDependency).
THEOREM SharedFeedsAreAlwaysWarned == ProjectSpec => []SharedFeedsAreWarned
<1>1. ProjectInv => SharedFeedsAreWarned
  <2> SUFFICES ASSUME ProjectInv, Accepted(nodes, edges), NEW i \in DOMAIN nodes
               PROVE  LET struck == \E x \in Faults(nodes) \ {i} : Cardinality(Taken(nodes, edges, i, x)) > 1
                          doubly == \E j \in DOMAIN nodes : Source(j) /\ Cardinality(FeedsOf(edges, j)) > 1
                      IN  /\ struck => sharedDependency(edges, i)
                          /\ sharedDependency(edges, i) => struck \/ doubly
    BY DEF SharedFeedsAreWarned
  <2>1. Sound(nodes, edges)
    <3>1. CASE by = "old"
      <4>1. Stored([nodes |-> nodes, edges |-> edges])
        BY <3>1 DEF ProjectInv
      <4>2. Settling([nodes |-> nodes, edges |-> edges])
        BY <4>1, StoredIsSettling
      <4>3. OldCables(edges) = {}
        <5>1. \A e \in edges : e.type # "power" => ~NetworkCableIssue(edges, e)
          BY DEF Accepted
        <5>2. \A e \in edges : e.type # "power" => ~Source(e.s) /\ ~Source(e.t)
          BY <5>1 DEF NetworkCableIssue
        <5> QED BY <5>2 DEF OldCables, Network, Power
      <4>4. Rest([nodes |-> nodes, edges |-> edges]) = edges
        BY <4>3 DEF Rest
      <4> QED BY <4>2, <4>4 DEF Settling
    <3>2. CASE by # "old"
      BY <3>2 DEF ProjectInv
    <3> QED BY <3>1, <3>2
  <2>2. Wired(nodes, edges)
    BY <2>1, AcceptedIsWired
  <2> QED BY <2>1, <2>2, WarningsAreRight
<1> QED BY <1>1, ProjectIsSound, PTL

=============================================================================
