----------------------------- MODULE BuildRows -----------------------------
(***************************************************************************)
(* The transactions on one stored build, statement by statement, as         *)
(* PostgreSQL runs them under READ COMMITTED: saves, renames, the switches  *)
(* of sharing, applied proposals, copies and the removal of the build       *)
(* (backend/internal/services/build_service.go, proposal_service.go).       *)
(*                                                                          *)
(* A row is locked by whoever changed it or read it FOR UPDATE, until the   *)
(* end of that transaction; what a transaction wrote is seen by others when *)
(* it commits.  So the variables hold what is committed, and a transaction  *)
(* writes when it commits.  BuildService models a save as one step; the     *)
(* locks here are why it may.                                               *)
(*                                                                          *)
(* Data: a graph is the revision of the save that wrote it, and its rows    *)
(* (nodes, guests, cables, services) are one: all are deleted and inserted  *)
(* by the same transactions in the same order.  A graph is never empty.     *)
(***************************************************************************)
EXTENDS Naturals, FiniteSets

CONSTANTS
    Sessions,     \* requests that may overlap
    Links,        \* share tokens that may be made
    None,
    MaxRevision,  \* bound: revisions of the build
    MaxRequests,  \* bound: requests
    MaxFailures   \* bound: statements or connections that fail

ASSUME BuildRowsAssumption ==
    /\ None \notin Sessions \cup Links
    /\ MaxRevision \in Nat \ {0} /\ MaxRequests \in Nat /\ MaxFailures \in Nat

VARIABLES
    build,     \* the row in builds
    nodes,     \* whose rows are in nodes, guests, cables and services; 0 when there are none
    proposal,  \* a row in build_proposals, "none" when it is gone
    locked,    \* who has a row locked
    job,       \* the request a session serves
    wish,      \* history: what the owner last asked of sharing
    copy,      \* history: the newest copy of the build
    requests, failures

vars == <<build, nodes, proposal, locked, job, wish, copy, requests, failures>>

Rows == {"build", "nodes", "proposal"}
Switches == {"on", "off", "editable", "readonly"}
Build == [alive : BOOLEAN, revision : 1 .. MaxRevision, graph : 1 .. MaxRevision,
          shared : BOOLEAN, editable : BOOLEAN, link : Links \cup {None}]
Idle == [kind |-> "none", stage |-> "", revision |-> 0, link |-> None, switch |-> "",
         row |-> None, seen |-> 0]
Starts == [save |-> "lock", linked |-> "lock", rename |-> "lock", apply |-> "propose",
           share |-> "read", delete |-> "count", copy |-> "read"]
Job == [kind : DOMAIN Starts \cup {"none"},
        stage : {"", "lock", "propose", "write", "clear", "commit", "read", "update", "count",
                 "snapshot", "row", "cascade", "graph", "cables"},
        revision : 0 .. MaxRevision, link : Links \cup {None}, switch : Switches \cup {""},
        row : Build \cup {None}, seen : 0 .. MaxRevision]

BuildRowsTypeOK ==
    /\ build \in Build
    /\ nodes \in 0 .. MaxRevision
    /\ proposal \in {"pending", "applied", "conflict", "none"}
    /\ locked \in [Rows -> Sessions \cup {None}]
    /\ job \in [Sessions -> Job]
    /\ wish \in [shared : BOOLEAN, editable : BOOLEAN]
    /\ copy \in [row : 0 .. MaxRevision, nodes : 0 .. MaxRevision, cables : 0 .. MaxRevision]
    /\ requests \in 0 .. MaxRequests /\ failures \in 0 .. MaxFailures

\* A build nobody has touched for a while: shared over a link or never shared.
BuildRowsInit ==
    /\ \E editable \in BOOLEAN, link \in Links \cup {None} :
        build = [alive |-> TRUE, revision |-> 1, graph |-> 1, shared |-> link # None,
                 editable |-> editable, link |-> link]
    /\ nodes = 1
    /\ proposal = "pending"
    /\ locked = [r \in Rows |-> None]
    /\ job = [s \in Sessions |-> Idle]
    /\ wish = [shared |-> build.shared, editable |-> build.editable]
    /\ copy = [row |-> 0, nodes |-> 0, cables |-> 0]
    /\ requests = 0 /\ failures = 0

-----------------------------------------------------------------------------
(* Statements.                                                              *)

Is(s, kinds, stage) == job[s].kind \in kinds /\ job[s].stage = stage
Go(s, stage) == job' = [job EXCEPT ![s].stage = stage]

Free(s, r) == locked[r] \in {None, s}
Takes(s, r) == locked' = [locked EXCEPT ![r] = s]

\* The transaction is over, its locks with it.
Ends(s) ==
    /\ job' = [job EXCEPT ![s] = Idle]
    /\ locked' = [r \in Rows |-> IF locked[r] = s THEN None ELSE locked[r]]
RollsBack(s) == Ends(s) /\ UNCHANGED <<build, nodes, proposal, wish, copy, requests, failures>>

\* A client asks; a tab knows some revision the build once had, a visitor some link.
Request(s, kind, revision, link, switch) ==
    /\ job[s] = Idle /\ requests < MaxRequests
    /\ requests' = requests + 1
    /\ job' = [job EXCEPT ![s] = [Idle EXCEPT !.kind = kind, !.stage = Starts[kind],
                                   !.revision = revision, !.link = link, !.switch = switch]]
    /\ UNCHANGED <<build, nodes, proposal, locked, wish, copy, failures>>
Asked(s) ==
    \/ \E kind \in {"delete", "copy", "apply"} : Request(s, kind, 0, None, "")
    \/ \E kind \in {"save", "rename"}, r \in 1 .. build.revision : Request(s, kind, r, None, "")
    \/ \E l \in Links, r \in 1 .. build.revision : Request(s, "linked", r, l, "")
    \/ \E w \in Switches : Request(s, "share", 0, None, w)

-----------------------------------------------------------------------------
(* Saves, renames and applied proposals.                                    *)

\* lockPending: a proposal that is still undecided, before the build.
LockProposal(s) ==
    /\ Is(s, {"apply"}, "propose") /\ Free(s, "proposal")
    /\ IF proposal = "pending"
       THEN /\ Takes(s, "proposal") /\ Go(s, "lock")
            /\ UNCHANGED <<build, nodes, proposal, wish, copy, requests, failures>>
       ELSE RollsBack(s)

\* The condition of the SELECT: the owner's id, or a link that may edit.
Admits(s) == job[s].kind # "linked" \/ (build.shared /\ build.editable /\ build.link = job[s].link)

\* Mutation: the row is read without FOR UPDATE.
LockNothing(s) ==
    /\ Is(s, {"save", "linked", "rename", "apply"}, "lock")
    /\ IF build.alive /\ Admits(s)
       THEN /\ job' = [job EXCEPT ![s].stage = "write", ![s].row = build]
            /\ UNCHANGED <<build, nodes, proposal, locked, wish, copy, requests, failures>>
       ELSE RollsBack(s)

\* SELECT ... FOR UPDATE waits for the row and then reads what is committed.
Lock(s) ==
    /\ Is(s, {"save", "linked", "rename", "apply"}, "lock") /\ Free(s, "build")
    /\ IF build.alive /\ Admits(s)
       THEN /\ Takes(s, "build")
            /\ job' = [job EXCEPT ![s].stage = "write", ![s].row = build]
            /\ UNCHANGED <<build, nodes, proposal, wish, copy, requests, failures>>
       ELSE RollsBack(s)

\* saveRevisionTx and Rename compare the revision; Apply sends the one it has just read.
Knows(s) == job[s].revision = job[s].row.revision

\* Mutation: a refused save leaves its transaction open.
WriteLeavesOpen(s) ==
    /\ Is(s, {"save", "linked", "rename"}, "write") /\ Knows(s) /\ job[s].row.revision < MaxRevision
    /\ Go(s, IF job[s].kind = "rename" THEN "commit" ELSE "clear")
    /\ UNCHANGED <<build, nodes, proposal, locked, wish, copy, requests, failures>>

\* The row's next revision; a save that is stale, or whose graph is refused, is rolled back.
Write(s) ==
    /\ Is(s, {"save", "linked", "rename"}, "write")
    /\ \/ /\ Knows(s) /\ job[s].row.revision < MaxRevision
          /\ Go(s, IF job[s].kind = "rename" THEN "commit" ELSE "clear")
          /\ UNCHANGED <<build, nodes, proposal, locked, wish, copy, requests, failures>>
       \/ /\ ~Knows(s) \/ job[s].kind # "rename" \/ job[s].row.revision = MaxRevision
          /\ RollsBack(s)
WriteApplied(s) ==
    /\ Is(s, {"apply"}, "write") /\ job[s].row.revision < MaxRevision /\ Go(s, "clear")
    /\ UNCHANGED <<build, nodes, proposal, locked, wish, copy, requests, failures>>

\* deleteGraph inside a save: waits for whoever has the old rows.
Clear(s) ==
    /\ Is(s, {"save", "linked", "apply"}, "clear") /\ Free(s, "nodes")
    /\ Takes(s, "nodes") /\ Go(s, "commit")
    /\ UNCHANGED <<build, nodes, proposal, wish, copy, requests, failures>>

\* tx.Save writes every column of the row as it was read, the new ones apart.
Commit(s) ==
    LET next == job[s].row.revision + 1
    IN  /\ Is(s, {"save", "linked", "rename", "apply"}, "commit") /\ Ends(s)
        /\ build' = [job[s].row EXCEPT !.revision = next,
                                       !.graph = IF job[s].kind = "rename" THEN @ ELSE next]
        /\ nodes' = IF job[s].kind = "rename" THEN nodes ELSE next
        /\ proposal' = IF job[s].kind = "apply" THEN "applied" ELSE proposal
        /\ UNCHANGED <<wish, copy, requests, failures>>

\* The savepoint: the save is undone, the proposal becomes a conflict.
RefuseApply(s) ==
    /\ Is(s, {"apply"}, "write") /\ Ends(s)
    /\ proposal' = "conflict"
    /\ UNCHANGED <<build, nodes, wish, copy, requests, failures>>

-----------------------------------------------------------------------------
(* Sharing, copies and the removal.                                         *)

\* updateSharing: the row is read for its owner and its link ...
ReadRow(s) ==
    /\ Is(s, {"share"}, "read")
    /\ IF build.alive
       THEN /\ job' = [job EXCEPT ![s].stage = "update", ![s].row = build]
            /\ UNCHANGED <<build, nodes, proposal, locked, wish, copy, requests, failures>>
       ELSE RollsBack(s)

Switched(row, switch, link) ==
    CASE switch = "on" -> [row EXCEPT !.shared = TRUE, !.link = link]
      [] switch = "off" -> [row EXCEPT !.shared = FALSE]
      [] switch = "editable" -> [row EXCEPT !.editable = TRUE]
      [] OTHER (* readonly *) -> [row EXCEPT !.editable = FALSE]

\* A link is made where the row that was read had none.
NewLink(s, l) == IF job[s].row.link = None THEN l ELSE build.link

\* Mutation: the whole row is written, as it was read.
UpdateWholeRow(s) ==
    /\ Is(s, {"share"}, "update") /\ Free(s, "build") /\ Ends(s)
    /\ build' = [Switched(job[s].row, job[s].switch, job[s].row.link) EXCEPT !.alive = build.alive]
    /\ wish' = [shared |-> build'.shared, editable |-> build'.editable]
    /\ UNCHANGED <<nodes, proposal, copy, requests, failures>>

\* ... and then only the sharing columns are written, to whatever the row is by then.
Update(s) ==
    /\ Is(s, {"share"}, "update") /\ Free(s, "build") /\ Ends(s)
    /\ IF build.alive
       THEN /\ \E l \in Links : build' = Switched(build, job[s].switch, NewLink(s, l))
            /\ wish' = [shared |-> build'.shared, editable |-> build'.editable]
       ELSE UNCHANGED <<build, wish>>
    /\ UNCHANGED <<nodes, proposal, copy, requests, failures>>

\* Duplicate reads the row and then the graph, table by table, each for itself; the
\* devices with what runs on them stand for the first tables, the cables for the last.
CopyRow(s) ==
    /\ Is(s, {"copy"}, "read")
    /\ IF build.alive
       THEN /\ job' = [job EXCEPT ![s].stage = "graph", ![s].row = build]
            /\ UNCHANGED <<build, nodes, proposal, locked, wish, copy, requests, failures>>
       ELSE RollsBack(s)
CopyGraph(s) ==
    /\ Is(s, {"copy"}, "graph")
    /\ job' = [job EXCEPT ![s].stage = "cables", ![s].seen = nodes]
    /\ UNCHANGED <<build, nodes, proposal, locked, wish, copy, requests, failures>>
CopyCables(s) ==
    /\ Is(s, {"copy"}, "cables") /\ Ends(s)
    /\ copy' = [row |-> job[s].row.graph, nodes |-> job[s].seen, cables |-> nodes]
    /\ UNCHANGED <<build, nodes, proposal, wish, requests, failures>>

\* Delete: the owner's build is counted, ...
Count(s) ==
    /\ Is(s, {"delete"}, "count")
    /\ IF build.alive
       THEN Go(s, "snapshot") /\ UNCHANGED <<build, nodes, proposal, locked, wish, copy, requests, failures>>
       ELSE RollsBack(s)
\* ... its graph is deleted, table by table: a statement deletes the rows it saw when it
\* began, and waits for whoever has them.  When a save replaced them meanwhile, a later
\* table is seen with its new rows: all of the newer graph goes, or some of it stays ...
Snapshot(s) ==
    /\ Is(s, {"delete"}, "snapshot")
    /\ job' = [job EXCEPT ![s].stage = "clear", ![s].seen = nodes]
    /\ UNCHANGED <<build, nodes, proposal, locked, wish, copy, requests, failures>>
DeleteGraph(s) ==
    /\ Is(s, {"delete"}, "clear") /\ Go(s, "row")
    /\ \/ nodes # 0 /\ Free(s, "nodes") /\ Takes(s, "nodes")
       \/ (job[s].seen # nodes \/ nodes = 0) /\ UNCHANGED locked
    /\ UNCHANGED <<build, nodes, proposal, wish, copy, requests, failures>>
\* ... then the row, unless rows of a newer graph still point at it ...
DeleteRow(s) ==
    /\ Is(s, {"delete"}, "row") /\ Free(s, "build")
    /\ IF ~build.alive \/ (nodes # 0 /\ locked["nodes"] # s)
       THEN RollsBack(s)
       ELSE /\ Takes(s, "build") /\ Go(s, "cascade")
            /\ UNCHANGED <<build, nodes, proposal, wish, copy, requests, failures>>
\* ... and with it its proposals.
Cascade(s) ==
    /\ Is(s, {"delete"}, "cascade") /\ Free(s, "proposal") /\ Ends(s)
    /\ build' = [build EXCEPT !.alive = FALSE] /\ nodes' = 0 /\ proposal' = "none"
    /\ UNCHANGED <<wish, copy, requests, failures>>

-----------------------------------------------------------------------------
(* What PostgreSQL does about it.                                           *)

\* The row a session's next statement cannot do without.
Wants(s) ==
    CASE job[s].stage = "propose" \/ job[s].stage = "cascade" -> "proposal"
      [] job[s].stage \in {"lock", "update", "row"} -> "build"
      [] job[s].stage = "clear" /\ (job[s].kind # "delete" \/ (job[s].seen = nodes /\ nodes # 0)) -> "nodes"
      [] OTHER -> None
Blocker(s) ==
    IF Wants(s) = None THEN None ELSE IF Free(s, Wants(s)) THEN None ELSE locked[Wants(s)]

\* Sessions that wait for one another in a circle: one of them is rolled back.
Circle(waiting) == waiting # {} /\ waiting = {Blocker(s) : s \in waiting}
BreakDeadlock(s) ==
    /\ \E waiting \in SUBSET Sessions : s \in waiting /\ Circle(waiting)
    /\ RollsBack(s)

\* A statement or the connection fails: everything of the transaction is undone.
Fails(s) ==
    /\ job[s] # Idle /\ failures < MaxFailures
    /\ failures' = failures + 1 /\ Ends(s)
    /\ UNCHANGED <<build, nodes, proposal, wish, copy, requests>>

Statement(s) ==
    \/ LockProposal(s) \/ Lock(s) \/ Write(s) \/ WriteApplied(s) \/ Clear(s) \/ Commit(s) \/ RefuseApply(s)
    \/ ReadRow(s) \/ Update(s) \/ CopyRow(s) \/ CopyGraph(s) \/ CopyCables(s)
    \/ Count(s) \/ Snapshot(s) \/ DeleteGraph(s) \/ DeleteRow(s) \/ Cascade(s)

BuildRowsNext == \E s \in Sessions : Asked(s) \/ Statement(s) \/ BreakDeadlock(s) \/ Fails(s)

\* The server and the database go on with what was asked of them.
Fairness == \A s \in Sessions : WF_vars(Statement(s)) /\ WF_vars(BreakDeadlock(s))

BuildRowsSpec == BuildRowsInit /\ [][BuildRowsNext]_vars /\ Fairness

-----------------------------------------------------------------------------
(* Properties.                                                              *)

\* The rows of a build are those of its newest save, all of them, and no rows outlive
\* their build, whatever removals, saves and decisions overlap, fail or are rolled
\* back; no part of a copy is older than its row, unless the build was removed while it
\* was read (deleteGraph, syncGraph, Duplicate).
RowsBelongTogether ==
    /\ nodes = IF build.alive THEN build.graph ELSE 0
    /\ build.alive <=> proposal # "none"
    /\ \A part \in {copy.nodes, copy.cables} : part >= copy.row \/ part = 0

\* Sharing is what its owner last asked for: no save, rename or decision that overlaps
\* writes the sharing columns back, and a switch does not bring back an older graph
\* ("writes only the sharing columns ..., so it cannot undo a topology save").
SharingIsTheOwners ==
    build.shared = wish.shared /\ build.editable = wish.editable

\* A save over a link becomes a revision only while the owner lets that link edit, also
\* when sharing is switched off while the save waits or runs (UpdateByShareToken).
LinkedSavesAreAllowed ==
    [][\A s \in Sessions :
        job[s].kind = "linked" /\ job[s].stage = "commit" /\ build'.revision # build.revision
        /\ job'[s] = Idle => build.shared /\ build.editable /\ build.link = job[s].link]_vars

\* Every request is answered, also when a removal meets a save (which lock the graph and
\* the row in opposite orders) or an applied proposal.
RequestsEnd == \A s \in Sessions : job[s] # Idle ~> job[s] = Idle
=============================================================================
