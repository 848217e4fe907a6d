-------------------------- MODULE BuildRowsProofs --------------------------
(***************************************************************************)
(* What the row locks of a build are for, for any number of overlapping     *)
(* requests: its rows belong together, sharing is what its owner asked for, *)
(* and nobody saves over a link that may not.                               *)
(***************************************************************************)
EXTENDS BuildRows, TLAPS

(* The inductive invariant.                                                 *)

Savers == {"save", "linked", "rename", "apply"}

\* A save holds the row from the moment it reads it, so what it read is what is stored.
Holding(s) ==
    \/ Is(s, Savers, "write") \/ Is(s, Savers, "clear") \/ Is(s, Savers, "commit")
Fits(s) ==
    /\ Holding(s) =>
         /\ locked["build"] = s /\ job[s].row = build /\ build.alive
         /\ job[s].kind = "linked" => build.shared /\ build.editable /\ build.link = job[s].link
    /\ Is(s, Savers, "clear") \/ Is(s, Savers, "commit") => build.revision < MaxRevision
    /\ Is(s, {"delete"}, "cascade") => locked["build"] = s
    /\ Is(s, {"copy"}, "graph") \/ Is(s, {"copy"}, "cables") =>
         job[s].row \in Build /\ job[s].row.graph <= build.graph
    /\ Is(s, {"copy"}, "cables") => job[s].seen >= job[s].row.graph \/ job[s].seen = 0

Stored ==
    /\ RowsBelongTogether
    /\ build.graph <= build.revision
    /\ SharingIsTheOwners

IInv == BuildRowsTypeOK /\ Stored /\ \A s \in Sessions : Fits(s)

\* What a request may do to the others: nothing but change a row none of them holds.
Apart(s) ==
    /\ \A t \in Sessions \ {s} : job'[t] = job[t]
    /\ \A t \in Sessions \ {s} : locked["build"] = t => locked'["build"] = t
    /\ build' # build => locked["build"] \in {None, s} /\ build'.graph >= build.graph

-----------------------------------------------------------------------------
(* Statements.                                                              *)

\* A request that keeps to itself leaves every other as it was.
LEMMA OthersFit ==
    ASSUME IInv, NEW s \in Sessions, Apart(s), build' \in Build, Fits(s)'
    PROVE  \A t \in Sessions : Fits(t)'
  <1> SUFFICES ASSUME NEW t \in Sessions \ {s}
               PROVE  Fits(t)'
    OBVIOUS
  <1>1. job'[t] = job[t] /\ Fits(t)
    BY DEF Apart, IInv
  <1>2. locked["build"] = t => locked'["build"] = t /\ build' = build
    BY BuildRowsAssumption DEF Apart
  <1>3. Is(t, {"copy"}, "graph") \/ Is(t, {"copy"}, "cables") =>
          job[t].row \in Build /\ job[t].row.graph <= build'.graph
    <2>1. build' = build \/ build'.graph >= build.graph
      BY DEF Apart
    <2>2. build.graph \in Nat /\ build'.graph \in Nat
      BY DEF IInv, BuildRowsTypeOK, Build
    <2>3. job[t].row \in Build => job[t].row.graph \in Nat
      BY DEF Build
    <2>4. QED
      BY <1>1, <2>1, <2>2, <2>3 DEF Fits
  <1>4. Holding(t)' = Holding(t)
    BY <1>1 DEF Holding, Is
  <1>5. Holding(t) => (/\ locked'["build"] = t /\ job'[t].row = build' /\ build'.alive
                       /\ job'[t].kind = "linked" => build'.shared /\ build'.editable /\ build'.link = job'[t].link)
    BY <1>1, <1>2 DEF Fits
  <1>6. Is(t, Savers, "clear") \/ Is(t, Savers, "commit") => build'.revision < MaxRevision
    BY <1>1, <1>2 DEF Fits, Holding
  <1>7. Is(t, {"delete"}, "cascade") => locked'["build"] = t
    BY <1>1, <1>2 DEF Fits
  <1>8. QED
    BY <1>1, <1>3, <1>4, <1>5, <1>6, <1>7 DEF Fits, Is

\* A request that only moves on, with what it holds.
LEMMA Moved ==
    ASSUME IInv, NEW s \in Sessions, NEW next \in Job, job' = [job EXCEPT ![s] = next]
    PROVE  /\ job' \in [Sessions -> Job] /\ job'[s] = next
           /\ \A t \in Sessions \ {s} : job'[t] = job[t]
  BY DEF IInv, BuildRowsTypeOK

\* The end of a transaction gives back its locks and no others.
LEMMA Ended ==
    ASSUME IInv, NEW s \in Sessions, Ends(s)
    PROVE  /\ job' \in [Sessions -> Job] /\ locked' \in [Rows -> Sessions \cup {None}]
           /\ \A t \in Sessions \ {s} : job'[t] = job[t]
           /\ \A t \in Sessions \ {s} : locked["build"] = t => locked'["build"] = t
           /\ Fits(s)'
  <1>1. Idle \in Job /\ Idle.kind = "none" /\ Idle.stage = ""
    BY BuildRowsAssumption DEF Idle, Job
  <1>2. /\ job' \in [Sessions -> Job] /\ job'[s] = Idle
        /\ \A t \in Sessions \ {s} : job'[t] = job[t]
    BY <1>1, Moved DEF Ends
  <1>3. locked' \in [Rows -> Sessions \cup {None}]
    BY DEF Ends, IInv, BuildRowsTypeOK
  <1>4. \A t \in Sessions \ {s} : locked["build"] = t => locked'["build"] = t
    BY DEF Ends, Rows
  <1>5. Fits(s)'
    BY <1>1, <1>2 DEF Fits, Holding, Is, Savers
  <1>6. QED
    BY <1>2, <1>3, <1>4, <1>5

LEMMA Undone ==
    ASSUME IInv, NEW s \in Sessions, Ends(s), UNCHANGED <<build, nodes, wish, copy>>,
           proposal' \in {"pending", "applied", "conflict", "none"},
           proposal' = "none" <=> proposal = "none",
           requests' = requests, failures' \in 0 .. MaxFailures
    PROVE  IInv'
  <1>1. BuildRowsTypeOK'
    BY Ended DEF IInv, BuildRowsTypeOK
  <1>2. Stored'
    BY DEF IInv, Stored, RowsBelongTogether, SharingIsTheOwners
  <1>3. Apart(s)
    BY Ended DEF Apart
  <1>4. \A t \in Sessions : Fits(t)'
    BY <1>3, Ended, OthersFit DEF IInv, BuildRowsTypeOK
  <1>5. QED
    BY <1>1, <1>2, <1>4 DEF IInv

LEMMA RolledBack ==
    ASSUME IInv, NEW s \in Sessions, RollsBack(s)
    PROVE  IInv'
  BY Undone DEF RollsBack, IInv, BuildRowsTypeOK

\* A step that changes nothing but the request and its locks.
LEMMA Quiet ==
    ASSUME IInv, NEW s \in Sessions, NEW next \in Job, job' = [job EXCEPT ![s] = next],
           UNCHANGED <<build, nodes, proposal, wish, copy, failures>>,
           requests' \in 0 .. MaxRequests,
           locked' \in [Rows -> Sessions \cup {None}],
           \A t \in Sessions \ {s} : locked["build"] = t => locked'["build"] = t,
           Fits(s)'
    PROVE  IInv'
  <1>1. BuildRowsTypeOK'
    BY Moved DEF IInv, BuildRowsTypeOK
  <1>2. Stored'
    BY DEF IInv, Stored, RowsBelongTogether, SharingIsTheOwners
  <1>3. Apart(s)
    BY Moved DEF Apart
  <1>4. \A t \in Sessions : Fits(t)'
    BY <1>3, OthersFit DEF IInv, BuildRowsTypeOK
  <1>5. QED
    BY <1>1, <1>2, <1>4 DEF IInv

\* A request that goes on to another statement.
LEMMA Goes ==
    ASSUME IInv, NEW s \in Sessions, NEW stage,
           stage \in {"lock", "write", "clear", "commit", "snapshot", "row", "cascade"},
           Go(s, stage), UNCHANGED <<build, nodes, proposal, wish, copy, requests, failures>>,
           locked' \in [Rows -> Sessions \cup {None}],
           \A t \in Sessions \ {s} : locked["build"] = t => locked'["build"] = t,
           Fits(s)'
    PROVE  IInv'
  <1> DEFINE next == [job[s] EXCEPT !.stage = stage]
  <1>1. next \in Job
    <2>1. job[s] \in Job
      BY DEF IInv, BuildRowsTypeOK
    <2>2. QED
      BY <2>1 DEF Job
  <1>2. job' = [job EXCEPT ![s] = next]
    BY DEF Go
  <1>3. requests' \in 0 .. MaxRequests
    BY DEF IInv, BuildRowsTypeOK
  <1> HIDE DEF next
  <1>4. QED
    BY <1>1, <1>2, <1>3, Quiet

\* What a request is once it has gone on.
LEMMA Gone ==
    ASSUME IInv, NEW s \in Sessions, NEW stage, Go(s, stage)
    PROVE  /\ job'[s] = [job[s] EXCEPT !.stage = stage] /\ job[s] \in Job
           /\ job'[s].stage = stage
  <1>1. job[s] \in Job /\ job'[s] = [job[s] EXCEPT !.stage = stage]
    BY DEF Go, IInv, BuildRowsTypeOK
  <1>2. \A j \in Job : [j EXCEPT !.stage = stage].stage = stage
    BY DEF Job
  <1>3. QED
    BY <1>1, <1>2

\* A lock that was free goes to one request and to no other.
LEMMA Taken ==
    ASSUME IInv, NEW s \in Sessions, NEW r \in Rows, Free(s, r), Takes(s, r)
    PROVE  /\ locked' \in [Rows -> Sessions \cup {None}]
           /\ \A t \in Sessions \ {s} : locked["build"] = t => locked'["build"] = t
           /\ locked'[r] = s
           /\ locked["build"] = s => locked'["build"] = s
  BY BuildRowsAssumption DEF Free, Takes, IInv, BuildRowsTypeOK, Rows

-----------------------------------------------------------------------------
(* One step at a time.                                                      *)

LEMMA AskedStep ==
    ASSUME IInv, NEW s \in Sessions, Asked(s)
    PROVE  IInv'
  <1>1. build.revision \in 1 .. MaxRevision
    BY DEF IInv, BuildRowsTypeOK, Build
  <1>0. /\ 0 \in 0 .. MaxRevision
        /\ requests < MaxRequests => requests + 1 \in 0 .. MaxRequests
    BY BuildRowsAssumption DEF IInv, BuildRowsTypeOK
  <1>2. PICK kind \in {"save", "linked", "rename", "apply", "share", "delete", "copy"}, revision \in 0 .. MaxRevision, link \in Links \cup {None},
             switch \in Switches \cup {""} : Request(s, kind, revision, link, switch)
    <2>1. 1 .. build.revision \subseteq 0 .. MaxRevision
      BY <1>1, BuildRowsAssumption
    <2>2. QED
      BY <1>0, <2>1 DEF Asked
  <1> DEFINE next == [Idle EXCEPT !.kind = kind, !.stage = Starts[kind],
                                  !.revision = revision, !.link = link, !.switch = switch]
  <1>3. kind \in DOMAIN Starts /\ Starts[kind] \in {"lock", "propose", "read", "count"}
    <2>1. DOMAIN Starts = {"save", "linked", "rename", "apply", "share", "delete", "copy"}
      BY DEF Starts
    <2>2. /\ Starts["save"] = "lock" /\ Starts["linked"] = "lock" /\ Starts["rename"] = "lock"
          /\ Starts["apply"] = "propose" /\ Starts["share"] = "read" /\ Starts["copy"] = "read"
          /\ Starts["delete"] = "count"
      BY DEF Starts
    <2>3. QED
      BY <1>2, <2>1, <2>2
  <1>4. next \in Job /\ next.stage \in {"lock", "propose", "read", "count"}
    BY <1>0, <1>2, <1>3 DEF Job, Idle
  <1>5. job' = [job EXCEPT ![s] = next]
    BY <1>2 DEF Request
  <1> HIDE DEF next
  <1>6. job'[s] = next
    BY <1>4, <1>5, Moved
  <1>7. Fits(s)'
    BY <1>4, <1>6 DEF Fits, Holding, Is
  <1>8. requests' \in 0 .. MaxRequests
    BY <1>0, <1>2 DEF Request
  <1>9. locked' \in [Rows -> Sessions \cup {None}] /\ locked' = locked
    BY <1>2 DEF Request, IInv, BuildRowsTypeOK
  <1>10. UNCHANGED <<build, nodes, proposal, wish, copy, failures>>
    BY <1>2 DEF Request
  <1>11. QED
    BY <1>4, <1>5, <1>7, <1>8, <1>9, <1>10, Quiet

LEMMA LockProposalStep ==
    ASSUME IInv, NEW s \in Sessions, LockProposal(s)
    PROVE  IInv'
  <1>1. CASE proposal = "pending"
    <2>1. Go(s, "lock") /\ Free(s, "proposal") /\ Takes(s, "proposal")
      BY <1>1 DEF LockProposal
    <2>2. Fits(s)'
      <3>1. job'[s].stage = "lock"
        BY <2>1, Gone
      <3>2. QED
        BY <3>1 DEF Fits, Holding, Is
    <2>3. QED
      BY <1>1, <2>1, <2>2, Goes, Taken DEF LockProposal, Rows
  <1>2. CASE proposal # "pending"
    BY <1>2, RolledBack DEF LockProposal
  <1>3. QED
    BY <1>1, <1>2

LEMMA LockStep ==
    ASSUME IInv, NEW s \in Sessions, Lock(s)
    PROVE  IInv'
  <1>1. CASE build.alive /\ Admits(s)
    <2> DEFINE next == [job[s] EXCEPT !.stage = "write", !.row = build]
    <2>1. job[s] \in Job /\ build \in Build
      BY DEF IInv, BuildRowsTypeOK
    <2>2. next \in Job /\ next.stage = "write" /\ next.row = build
          /\ next.kind = job[s].kind /\ next.link = job[s].link
      BY <2>1 DEF Job
    <2>3. job' = [job EXCEPT ![s] = next] /\ Free(s, "build") /\ Takes(s, "build")
          /\ UNCHANGED <<build, nodes, proposal, wish, copy, requests, failures>>
      BY <1>1 DEF Lock
    <2> HIDE DEF next
    <2>4. job'[s] = next /\ locked'["build"] = s
      BY <2>2, <2>3, Moved, Taken DEF Rows
    <2>5. Fits(s)'
      BY <1>1, <2>2, <2>3, <2>4 DEF Fits, Holding, Is, Admits
    <2>6. requests' \in 0 .. MaxRequests
      BY <2>3 DEF IInv, BuildRowsTypeOK
    <2>7. QED
      BY <2>2, <2>3, <2>5, <2>6, Quiet, Taken DEF Rows
  <1>2. CASE ~(build.alive /\ Admits(s))
    BY <1>2, RolledBack DEF Lock
  <1>3. QED
    BY <1>1, <1>2

\* A save goes on with the row in its hands.
LEMMA GoesOnSaving ==
    ASSUME IInv, NEW s \in Sessions, NEW stage, stage \in {"clear", "commit"},
           Is(s, Savers, "write") \/ Is(s, Savers, "clear"), job[s].row.revision < MaxRevision,
           Go(s, stage), UNCHANGED <<build, nodes, proposal, wish, copy, requests, failures>>,
           locked' \in [Rows -> Sessions \cup {None}],
           \A t \in Sessions : locked["build"] = t => locked'["build"] = t
    PROVE  IInv'
  <1>1. Holding(s) /\ Fits(s)
    BY DEF Holding, IInv
  <1>2. job'[s] = [job[s] EXCEPT !.stage = stage] /\ job[s] \in Job
    BY Gone
  <1>3. /\ job'[s].row = job[s].row /\ job'[s].kind = job[s].kind /\ job'[s].link = job[s].link
        /\ job'[s].stage = stage
    BY <1>2 DEF Job
  <1>4. Fits(s)'
    BY <1>1, <1>3 DEF Fits, Is
  <1>5. QED
    BY <1>4, Goes

LEMMA WriteStep ==
    ASSUME IInv, NEW s \in Sessions, Write(s) \/ WriteApplied(s)
    PROVE  IInv'
  <1>1. CASE RollsBack(s)
    BY <1>1, RolledBack
  <1>2. ASSUME NEW stage \in {"clear", "commit"}, Is(s, Savers, "write"),
               job[s].row.revision < MaxRevision, Go(s, stage),
               UNCHANGED <<build, nodes, proposal, locked, wish, copy, requests, failures>>
        PROVE  IInv'
    BY <1>2, GoesOnSaving DEF IInv, BuildRowsTypeOK
  <1>3. QED
    BY <1>1, <1>2 DEF Write, WriteApplied, Is, Savers

LEMMA ClearStep ==
    ASSUME IInv, NEW s \in Sessions, Clear(s)
    PROVE  IInv'
  <1>1. Is(s, Savers, "clear") /\ Go(s, "commit") /\ Free(s, "nodes") /\ Takes(s, "nodes")
    BY DEF Clear, Is, Savers
  <1>2. job[s].row.revision < MaxRevision
    BY <1>1 DEF IInv, Fits, Holding
  <1>3. \A t \in Sessions : locked["build"] = t => locked'["build"] = t
    BY <1>1, Taken DEF Rows
  <1>4. QED
    BY <1>1, <1>2, <1>3, GoesOnSaving, Taken DEF Clear, Rows

LEMMA CommitStep ==
    ASSUME IInv, NEW s \in Sessions, Commit(s)
    PROVE  IInv'
  <1>1. Is(s, Savers, "commit") /\ Ends(s) /\ UNCHANGED <<wish, copy, requests, failures>>
    BY DEF Commit, Savers
  <1>2. /\ locked["build"] = s /\ job[s].row = build /\ build.alive /\ build.revision < MaxRevision
        /\ build \in Build /\ build.graph <= build.revision
        /\ nodes = build.graph /\ proposal \in {"pending", "applied", "conflict"}
    BY <1>1 DEF IInv, Fits, Holding, Stored, RowsBelongTogether, BuildRowsTypeOK
  <1> DEFINE next == build.revision + 1
             graph == IF job[s].kind = "rename" THEN build.graph ELSE next
  <1>3. /\ build' = [build EXCEPT !.revision = next, !.graph = graph]
        /\ nodes' = graph
        /\ proposal' \in {"pending", "applied", "conflict"}
    BY <1>2 DEF Commit
  <1>4. next \in 1 .. MaxRevision /\ graph \in 1 .. MaxRevision /\ build.graph <= graph /\ graph <= next
    BY <1>2, BuildRowsAssumption DEF Build
  <1> HIDE DEF next, graph
  <1>5. /\ build' \in Build /\ build'.graph = graph /\ build'.revision = next /\ build'.alive
        /\ build'.shared = build.shared /\ build'.editable = build.editable
    BY <1>2, <1>3, <1>4 DEF Build
  <1>6. graph \in 0 .. MaxRevision
    BY <1>4
  <1>7. BuildRowsTypeOK'
    BY <1>1, <1>3, <1>5, <1>6, Ended DEF IInv, BuildRowsTypeOK
  <1>8. Stored'
    BY <1>1, <1>3, <1>4, <1>5 DEF IInv, Stored, RowsBelongTogether, SharingIsTheOwners
  <1>9. build'.graph >= build.graph
    BY <1>2, <1>4, <1>5 DEF Build
  <1>10. Apart(s) /\ Fits(s)'
    BY <1>1, <1>2, <1>9, Ended DEF Apart
  <1>11. QED
    BY <1>5, <1>7, <1>8, <1>10, OthersFit DEF IInv

LEMMA RefuseApplyStep ==
    ASSUME IInv, NEW s \in Sessions, RefuseApply(s)
    PROVE  IInv'
  <1>1. Is(s, Savers, "write")
    BY DEF RefuseApply, Is, Savers
  <1>2. proposal # "none"
    BY <1>1 DEF IInv, Fits, Holding, Stored, RowsBelongTogether
  <1>3. QED
    BY <1>2, Undone DEF RefuseApply, IInv, BuildRowsTypeOK

\* A request that reads the row and goes on, holding nothing.
LEMMA ReadStep ==
    ASSUME IInv, NEW s \in Sessions, ReadRow(s) \/ CopyRow(s)
    PROVE  IInv'
  <1>1. CASE RollsBack(s)
    BY <1>1, RolledBack
  <1>2. ASSUME NEW stage \in {"update", "graph"}, stage = "graph" => Is(s, {"copy"}, "read"),
               job' = [job EXCEPT ![s].stage = stage, ![s].row = build],
               UNCHANGED <<build, nodes, proposal, locked, wish, copy, requests, failures>>
        PROVE  IInv'
    <2> DEFINE next == [job[s] EXCEPT !.stage = stage, !.row = build]
    <2>1. job[s] \in Job /\ build \in Build
      BY DEF IInv, BuildRowsTypeOK
    <2>2. next \in Job /\ next.stage = stage /\ next.row = build
      BY <2>1 DEF Job
    <2>3. job' = [job EXCEPT ![s] = next]
      BY <1>2
    <2> HIDE DEF next
    <2>4. job'[s] = next
      BY <2>2, <2>3, Moved
    <2>5. build.graph <= build.graph
      BY <2>1 DEF Build
    <2>6. Fits(s)'
      BY <1>2, <2>1, <2>2, <2>4, <2>5 DEF Fits, Holding, Is
    <2>7. requests' \in 0 .. MaxRequests /\ locked' \in [Rows -> Sessions \cup {None}]
      BY <1>2 DEF IInv, BuildRowsTypeOK
    <2>8. QED
      BY <1>2, <2>2, <2>3, <2>6, <2>7, Quiet
  <1>3. QED
    BY <1>1, <1>2 DEF ReadRow, CopyRow

LEMMA UpdateStep ==
    ASSUME IInv, NEW s \in Sessions, Update(s)
    PROVE  IInv'
  <1>1. CASE ~build.alive
    BY <1>1, Undone DEF Update, IInv, BuildRowsTypeOK
  <1>2. CASE build.alive
    <2>1. PICK l \in Links : build' = Switched(build, job[s].switch, NewLink(s, l))
      BY <1>2 DEF Update
    <2>2. build \in Build /\ NewLink(s, l) \in Links \cup {None}
      BY DEF NewLink, IInv, BuildRowsTypeOK, Build
    <2>4. /\ build' \in Build /\ build'.alive = build.alive
          /\ build'.graph = build.graph /\ build'.revision = build.revision
      BY <2>1, <2>2 DEF Switched, Build
    <2>5. Ends(s) /\ Free(s, "build") /\ wish' = [shared |-> build'.shared, editable |-> build'.editable]
          /\ UNCHANGED <<nodes, proposal, copy, requests, failures>>
      BY <1>2 DEF Update
    <2>6. BuildRowsTypeOK'
      BY <2>4, <2>5, Ended DEF IInv, BuildRowsTypeOK, Build
    <2>7. Stored'
      BY <2>4, <2>5 DEF IInv, Stored, RowsBelongTogether, SharingIsTheOwners
    <2>8. build'.graph >= build.graph
      BY <2>2, <2>4 DEF Build
    <2>9. Apart(s) /\ Fits(s)'
      BY <2>5, <2>8, Ended DEF Apart, Free
    <2>10. QED
      BY <2>4, <2>6, <2>7, <2>9, OthersFit DEF IInv
  <1>3. QED
    BY <1>1, <1>2

LEMMA CopyGraphStep ==
    ASSUME IInv, NEW s \in Sessions, CopyGraph(s)
    PROVE  IInv'
  <1> DEFINE next == [job[s] EXCEPT !.stage = "cables", !.seen = nodes]
  <1>1. job[s].row \in Build /\ job[s].row.graph <= build.graph /\ job[s].kind = "copy"
    BY DEF CopyGraph, IInv, Fits, Is
  <1>2. job[s] \in Job /\ nodes \in 0 .. MaxRevision /\ (nodes = build.graph \/ nodes = 0)
    BY DEF IInv, BuildRowsTypeOK, Stored, RowsBelongTogether
  <1>3. /\ next \in Job /\ next.stage = "cables" /\ next.seen = nodes
        /\ next.row = job[s].row /\ next.kind = "copy"
    BY <1>1, <1>2 DEF Job
  <1>4. job' = [job EXCEPT ![s] = next]
    BY DEF CopyGraph
  <1> HIDE DEF next
  <1>5. job'[s] = next
    BY <1>3, <1>4, Moved
  <1>6. UNCHANGED <<build, nodes, proposal, locked, wish, copy, requests, failures>>
    BY DEF CopyGraph
  <1>7. next.seen >= next.row.graph \/ next.seen = 0
    BY <1>1, <1>2, <1>3 DEF Build
  <1>8. Fits(s)'
    BY <1>1, <1>3, <1>5, <1>6, <1>7 DEF Fits, Holding, Is, Savers
  <1>9. requests' \in 0 .. MaxRequests /\ locked' \in [Rows -> Sessions \cup {None}]
    BY <1>6 DEF IInv, BuildRowsTypeOK
  <1>10. QED
    BY <1>3, <1>4, <1>6, <1>8, <1>9, Quiet

LEMMA CopyCablesStep ==
    ASSUME IInv, NEW s \in Sessions, CopyCables(s)
    PROVE  IInv'
  <1>1. /\ job[s].row \in Build /\ job[s].row.graph <= build.graph
        /\ job[s].seen >= job[s].row.graph \/ job[s].seen = 0
    BY DEF CopyCables, IInv, Fits, Is
  <1>2. job[s].row.graph \in 1 .. MaxRevision /\ nodes \in 0 .. MaxRevision
        /\ (nodes = build.graph \/ nodes = 0)
        /\ job[s].seen \in 0 .. MaxRevision
    BY <1>1 DEF IInv, BuildRowsTypeOK, Job, Build, Stored, RowsBelongTogether
  <1>3. copy' = [row |-> job[s].row.graph, nodes |-> job[s].seen, cables |-> nodes] /\ Ends(s)
        /\ UNCHANGED <<build, nodes, proposal, wish, requests, failures>>
    BY DEF CopyCables
  <1>4. BuildRowsTypeOK'
    <2>1. 1 .. MaxRevision \subseteq 0 .. MaxRevision
      BY BuildRowsAssumption
    <2>2. QED
      BY <1>2, <1>3, <2>1, Ended DEF IInv, BuildRowsTypeOK
  <1>5. \A part \in {copy'.nodes, copy'.cables} : part >= copy'.row \/ part = 0
    BY <1>1, <1>2, <1>3
  <1>6. Stored'
    BY <1>3, <1>5 DEF IInv, Stored, RowsBelongTogether, SharingIsTheOwners
  <1>7. Apart(s)
    BY <1>3, Ended DEF Apart
  <1>8. QED
    BY <1>3, <1>4, <1>6, <1>7, Ended, OthersFit DEF IInv, BuildRowsTypeOK

LEMMA CountStep ==
    ASSUME IInv, NEW s \in Sessions, Count(s)
    PROVE  IInv'
  <1>1. CASE build.alive
    <2>1. Go(s, "snapshot") /\ UNCHANGED <<build, nodes, proposal, locked, wish, copy, requests, failures>>
      BY <1>1 DEF Count
    <2>2. job'[s].stage = "snapshot"
      BY <2>1, Gone
    <2>3. Fits(s)'
      BY <2>2 DEF Fits, Holding, Is
    <2>4. QED
      BY <2>1, <2>3, Goes DEF IInv, BuildRowsTypeOK
  <1>2. CASE ~build.alive
    BY <1>2, RolledBack DEF Count
  <1>3. QED
    BY <1>1, <1>2

LEMMA SnapshotStep ==
    ASSUME IInv, NEW s \in Sessions, Snapshot(s)
    PROVE  IInv'
  <1> DEFINE next == [job[s] EXCEPT !.stage = "clear", !.seen = nodes]
  <1>1. job[s] \in Job /\ nodes \in 0 .. MaxRevision /\ job[s].kind = "delete"
    BY DEF Snapshot, Is, IInv, BuildRowsTypeOK
  <1>2. next \in Job /\ next.kind = "delete" /\ next.stage = "clear"
    BY <1>1 DEF Job
  <1>3. job' = [job EXCEPT ![s] = next]
        /\ UNCHANGED <<build, nodes, proposal, locked, wish, copy, requests, failures>>
    BY DEF Snapshot
  <1> HIDE DEF next
  <1>4. job'[s] = next
    BY <1>2, <1>3, Moved
  <1>5. Fits(s)'
    BY <1>2, <1>4 DEF Fits, Holding, Is, Savers
  <1>6. requests' \in 0 .. MaxRequests /\ locked' \in [Rows -> Sessions \cup {None}]
    BY <1>3 DEF IInv, BuildRowsTypeOK
  <1>7. QED
    BY <1>2, <1>3, <1>5, <1>6, Quiet

LEMMA DeleteGraphStep ==
    ASSUME IInv, NEW s \in Sessions, DeleteGraph(s)
    PROVE  IInv'
  <1>1. Go(s, "row") /\ UNCHANGED <<build, nodes, proposal, wish, copy, requests, failures>>
    BY DEF DeleteGraph
  <1>2. job'[s].stage = "row"
    BY <1>1, Gone
  <1>3. Fits(s)'
    BY <1>2 DEF Fits, Holding, Is
  <1>4. /\ locked' \in [Rows -> Sessions \cup {None}]
        /\ \A t \in Sessions \ {s} : locked["build"] = t => locked'["build"] = t
    <2>1. CASE UNCHANGED locked
      BY <2>1 DEF IInv, BuildRowsTypeOK
    <2>2. CASE Free(s, "nodes") /\ Takes(s, "nodes")
      BY <2>2, Taken DEF Rows
    <2>3. QED
      BY <2>1, <2>2 DEF DeleteGraph
  <1>5. QED
    BY <1>1, <1>3, <1>4, Goes

LEMMA DeleteRowStep ==
    ASSUME IInv, NEW s \in Sessions, DeleteRow(s)
    PROVE  IInv'
  <1>1. CASE RollsBack(s)
    BY <1>1, RolledBack
  <1>2. CASE ~RollsBack(s)
    <2>1. Free(s, "build") /\ Takes(s, "build") /\ Go(s, "cascade") /\ Is(s, {"delete"}, "row")
          /\ UNCHANGED <<build, nodes, proposal, wish, copy, requests, failures>>
      BY <1>2 DEF DeleteRow
    <2>2. job'[s].stage = "cascade" /\ job'[s].kind = "delete"
      <3>1. job[s].kind = "delete"
        BY <2>1 DEF Is
      <3>2. job'[s] = [job[s] EXCEPT !.stage = "cascade"] /\ job[s] \in Job
        BY <2>1, Gone
      <3>3. QED
        BY <3>1, <3>2 DEF Job
    <2>3. locked'["build"] = s
      BY <2>1, Taken DEF Rows
    <2>4. Fits(s)'
      BY <2>2, <2>3 DEF Fits, Holding, Is
    <2>5. QED
      BY <2>1, <2>4, Goes, Taken DEF Rows
  <1>3. QED
    BY <1>1, <1>2

LEMMA CascadeStep ==
    ASSUME IInv, NEW s \in Sessions, Cascade(s)
    PROVE  IInv'
  <1>1. /\ Is(s, {"delete"}, "cascade") /\ Ends(s)
        /\ build' = [build EXCEPT !.alive = FALSE] /\ nodes' = 0 /\ proposal' = "none"
        /\ UNCHANGED <<wish, copy, requests, failures>>
    BY DEF Cascade
  <1>2. locked["build"] = s /\ build \in Build
    BY <1>1 DEF IInv, Fits, BuildRowsTypeOK
  <1>3. /\ build' \in Build /\ ~build'.alive /\ build'.graph = build.graph
        /\ build'.revision = build.revision
        /\ build'.shared = build.shared /\ build'.editable = build.editable
    BY <1>1, <1>2 DEF Build
  <1>4. 0 \in 0 .. MaxRevision
    BY BuildRowsAssumption
  <1>5. BuildRowsTypeOK'
    BY <1>1, <1>3, <1>4, Ended DEF IInv, BuildRowsTypeOK
  <1>6. Stored'
    BY <1>1, <1>3 DEF IInv, Stored, RowsBelongTogether, SharingIsTheOwners
  <1>7. build'.graph >= build.graph
    BY <1>2, <1>3 DEF Build
  <1>8. Apart(s) /\ Fits(s)'
    BY <1>1, <1>2, <1>7, Ended DEF Apart
  <1>9. QED
    BY <1>3, <1>5, <1>6, <1>8, OthersFit DEF IInv

LEMMA FailsStep ==
    ASSUME IInv, NEW s \in Sessions, Fails(s)
    PROVE  IInv'
  <1>1. failures' \in 0 .. MaxFailures
    BY BuildRowsAssumption DEF Fails, IInv, BuildRowsTypeOK
  <1>2. QED
    BY <1>1, Undone DEF Fails, IInv, BuildRowsTypeOK

-----------------------------------------------------------------------------
(* The theorems.                                                            *)

LEMMA Initially == BuildRowsInit => IInv
  <1> SUFFICES ASSUME BuildRowsInit
               PROVE  IInv
    OBVIOUS
  <1>1. 1 \in 1 .. MaxRevision /\ 1 \in 0 .. MaxRevision /\ 0 \in 0 .. MaxRevision
        /\ 0 \in 0 .. MaxRequests /\ 0 \in 0 .. MaxFailures
    BY BuildRowsAssumption
  <1>2. Idle \in Job /\ Idle.kind = "none" /\ Idle.stage = ""
    BY BuildRowsAssumption DEF Idle, Job
  <1>3. PICK editable \in BOOLEAN, link \in Links \cup {None} :
           build = [alive |-> TRUE, revision |-> 1, graph |-> 1, shared |-> link # None,
                    editable |-> editable, link |-> link]
    BY DEF BuildRowsInit
  <1>4. /\ build \in Build /\ build.alive /\ build.graph = 1 /\ build.revision = 1
        /\ build.shared \in BOOLEAN /\ build.editable \in BOOLEAN
    BY <1>1, <1>3 DEF Build
  <1>5. BuildRowsTypeOK
    BY <1>1, <1>2, <1>4 DEF BuildRowsInit, BuildRowsTypeOK
  <1>6. Stored
    BY <1>4 DEF BuildRowsInit, Stored, RowsBelongTogether, SharingIsTheOwners
  <1>7. \A s \in Sessions : Fits(s)
    BY <1>2 DEF BuildRowsInit, Fits, Holding, Is, Savers
  <1>8. QED
    BY <1>5, <1>6, <1>7 DEF IInv

LEMMA Step == IInv /\ [BuildRowsNext]_vars => IInv'
  <1> SUFFICES ASSUME IInv, [BuildRowsNext]_vars
               PROVE  IInv'
    OBVIOUS
  <1>1. ASSUME NEW s \in Sessions, Statement(s)
        PROVE  IInv'
    BY <1>1, LockProposalStep, LockStep, WriteStep, ClearStep, CommitStep, RefuseApplyStep, ReadStep,
       UpdateStep, CopyGraphStep, CopyCablesStep, CountStep, SnapshotStep, DeleteGraphStep, DeleteRowStep, CascadeStep
       DEF Statement
  <1>2. CASE UNCHANGED vars
    BY <1>2 DEF vars, IInv, BuildRowsTypeOK, Stored, RowsBelongTogether, SharingIsTheOwners,
                Fits, Holding, Is
  <1>3. QED
    BY <1>1, <1>2, AskedStep, RolledBack, FailsStep DEF BuildRowsNext, BreakDeadlock

LEMMA Invariant == BuildRowsSpec => []IInv
  <1>1. QED
    BY Initially, Step, PTL DEF BuildRowsSpec

\* Every state of a build, its graph, its proposal and the requests is well typed.
THEOREM BuildRowsTypeCorrect == BuildRowsSpec => []BuildRowsTypeOK
  <1>1. IInv => BuildRowsTypeOK
    BY DEF IInv
  <1>2. QED
    BY <1>1, Invariant, PTL

\* However many saves, decisions and removals overlap, fail or are rolled back, the
\* build, its graph and its proposals are those of one revision (syncGraph, deleteGraph).
THEOREM RowsHold == BuildRowsSpec => []RowsBelongTogether
  <1>1. IInv => RowsBelongTogether
    BY DEF IInv, Stored
  <1>2. QED
    BY <1>1, Invariant, PTL

\* No save writes an older setting of sharing back (updateSharing, tx.Save).
THEOREM SharingHolds == BuildRowsSpec => []SharingIsTheOwners
  <1>1. IInv => SharingIsTheOwners
    BY DEF IInv, Stored
  <1>2. QED
    BY <1>1, Invariant, PTL

\* A link that lost its right to save while its save waited or ran does not save
\* (UpdateByShareToken).
THEOREM LinkedSavesHold == BuildRowsSpec => LinkedSavesAreAllowed
  <1>1. IInv => \A s \in Sessions :
          job[s].kind = "linked" /\ job[s].stage = "commit"
            => build.shared /\ build.editable /\ build.link = job[s].link
    BY DEF IInv, Fits, Holding, Is, Savers
  <1>2. IInv /\ [BuildRowsNext]_vars =>
          [\A s \in Sessions :
             job[s].kind = "linked" /\ job[s].stage = "commit" /\ build'.revision # build.revision
             /\ job'[s] = Idle => build.shared /\ build.editable /\ build.link = job[s].link]_vars
    BY <1>1
  <1>3. QED
    BY <1>2, Invariant, PTL DEF BuildRowsSpec, LinkedSavesAreAllowed
=============================================================================
