------------------------------ MODULE Proposals ------------------------------
(***************************************************************************)
(* Changes an assistant suggests for a build, from the dry run that stores *)
(* them to the owner's decision                                            *)
(* (backend/internal/services/proposal_service.go, build_snapshot.go).     *)
(*                                                                         *)
(* Requests of several sessions (an MCP client, the assistant of the app,  *)
(* browser tabs) interleave between their transactions.  PostgreSQL runs   *)
(* these READ COMMITTED: an UPDATE picks its rows from a snapshot of its   *)
(* start, waits for the ones another transaction has locked, and checks    *)
(* its WHERE again on them; rows inserted meanwhile are not seen.          *)
(*                                                                         *)
(* A graph is the set of edits it contains.                                *)
(***************************************************************************)
EXTENDS Naturals, Sequences, FiniteSets

CONSTANTS Sessions,    \* whoever proposes, reviews or decides at the same time
          Edits,       \* what a graph can contain
          Suggested,   \* the edits proposals make
          Needed,      \* edits proposals refer to: ApplyTopologyOps fails without one
          Rivals,      \* edits only the save refuses beside a suggested one (an address in use)
          Kept,        \* keptResolvedProposals
          MaxRevision, \* bound: no save elsewhere and no apply starts at this revision
          MaxRows,     \* bound: proposals ever made
          MaxFailures  \* bound: database errors and restarts that end a request

ASSUME ProposalsAssumption ==
  /\ Suggested \subseteq Edits /\ Needed \subseteq Edits /\ Rivals \subseteq Edits
  /\ Suggested \cap (Needed \cup Rivals) = {}
  /\ Needed \cap Rivals = {}
  /\ Kept \in Nat
  /\ MaxRevision \in Nat \ {0}
  /\ MaxRows \in Nat
  /\ MaxFailures \in Nat

VARIABLES log,     \* log[r]: what revision r of the build holds, and by which proposal
          rows,    \* the proposals in the order of their creation; an id is an index
          job,     \* job[s] is the request of session s being served
          failures

vars == <<log, rows, job, failures>>

Graphs == SUBSET Edits
Settled == {"applied", "rejected", "superseded", "conflict"}
Row == [ops : SUBSET Suggested, status : Settled \cup {"pending", "pruned"},
        base : Nat,       \* base_revision
        preview : Graphs, \* the build as the dry run left it
        applied : Nat,    \* applied_revision
        saw : SUBSET Nat] \* history: the proposals waiting when it replaced them

Job == [kind  : {"none", "propose", "refresh", "apply"},
        stage : {"idle", "row", "graph", "dry", "snapshot", "insert",
                 "mark", "write", "get", "locked"},
        id    : Nat,              \* the proposal refreshed or applied
        ops   : SUBSET Suggested,
        rev   : Nat,              \* the revision it read
        graph : Graphs,           \* the graph it read
        again : BOOLEAN,          \* the second attempt of Propose
        waits : SUBSET Nat]       \* the rows its UPDATE has picked

Revision == Len(log)
Graph == log[Len(log)].graph
Ids == DOMAIN rows
Pending == {id \in Ids : rows[id].status = "pending"}
NoJob == [kind |-> "none", stage |-> "idle", id |-> 0, ops |-> {}, rev |-> 0,
          graph |-> {}, again |-> FALSE, waits |-> {}]

ProposalsTypeOK ==
  /\ log \in Seq([graph : Graphs, by : Nat]) /\ Len(log) >= 1
  /\ rows \in Seq(Row)
  /\ job \in [Sessions -> Job]
  /\ \A s \in Sessions : job[s].kind \in {"refresh", "apply"} => job[s].id \in Ids
  /\ \A s \in Sessions : job[s].stage = "locked" => job[s].id \in Pending
  /\ failures \in 0 .. MaxFailures

ProposalsInit ==
  /\ log = << [graph |-> Needed, by |-> 0] >>
  /\ rows = << >>
  /\ job = [s \in Sessions |-> NoJob]
  /\ failures = 0

-----------------------------------------------------------------------------
\* ApplyTopologyOps finds what the operations refer to.
Fits(graph) == Needed \subseteq graph

After(ops, graph) == graph \cup ops

\* SaveAndCalculateTx accepts the graph.
Valid(graph) == graph \cap Rivals = {} \/ graph \cap Suggested = {}

Locked(id) == \E s \in Sessions : job[s].stage = "locked" /\ job[s].id = id
At(s, stage) == job[s].stage = stage
Go(s, stage) == job' = [job EXCEPT ![s].stage = stage]
Answer(s) == job' = [job EXCEPT ![s] = NoJob]
NewRevision(graph, by) == log' = Append(log, [graph |-> graph, by |-> by])

\* UPDATE ... WHERE id = ? AND status = 'pending'
UpdateAnyStatus(id, row) == rows' = [rows EXCEPT ![id] = row]  \* mutation
UpdatePending(id, row) == rows' = IF id \in Pending THEN [rows EXCEPT ![id] = row] ELSE rows

-----------------------------------------------------------------------------
(* Propose and Refresh read the build: the row, then its graph (GetOwned),  *)
(* and dry run the operations in a transaction that is rolled back.         *)

StartPropose(s, ops) ==
  /\ At(s, "idle")
  /\ Len(rows) + Cardinality({other \in Sessions : job[other].kind = "propose"}) < MaxRows
  /\ job' = [job EXCEPT ![s] = [NoJob EXCEPT !.kind = "propose", !.stage = "row", !.ops = ops]]
  /\ UNCHANGED <<log, rows, failures>>

\* A proposal that is settled is returned as it is.
StartRefresh(s, id) ==
  /\ At(s, "idle") /\ id \in Pending
  /\ job' = [job EXCEPT ![s] = [NoJob EXCEPT !.kind = "refresh", !.stage = "row", !.id = id,
                                !.ops = rows[id].ops, !.rev = rows[id].base]]
  /\ UNCHANGED <<log, rows, failures>>

\* A review of the revision the preview was made for needs nothing more.
ReadRow(s) ==
  /\ At(s, "row")
  /\ IF job[s].kind = "refresh" /\ job[s].rev = Revision
     THEN Answer(s)
     ELSE job' = [job EXCEPT ![s].stage = "graph", ![s].rev = Revision]
  /\ UNCHANGED <<log, rows, failures>>

ReadGraph(s) ==
  /\ At(s, "graph")
  /\ IF Fits(Graph) THEN job' = [job EXCEPT ![s].stage = "dry", ![s].graph = Graph]
     ELSE IF job[s].kind = "propose" THEN Answer(s) ELSE Go(s, "mark")
  /\ UNCHANGED <<log, rows, failures>>

\* PreviewTopology: ErrBuildRevisionConflict is tried again once by Propose and
\* answered with the stored preview by Refresh.
UncheckedDryRun(s) ==  \* mutation: the revision is not compared
  /\ At(s, "dry")
  /\ IF ~Valid(After(job[s].ops, job[s].graph)) THEN Answer(s)
     ELSE Go(s, IF job[s].kind = "propose" THEN "snapshot" ELSE "write")
  /\ UNCHANGED <<log, rows, failures>>

DryRun(s) ==
  /\ At(s, "dry")
  /\ LET after == After(job[s].ops, job[s].graph)
     IN  IF job[s].kind = "propose"
         THEN CASE job[s].rev # Revision /\ ~job[s].again ->
                     job' = [job EXCEPT ![s].stage = "row", ![s].again = TRUE]
                [] job[s].rev = Revision /\ Valid(after) /\ after # job[s].graph -> Go(s, "snapshot")
                [] OTHER -> Answer(s)
         ELSE CASE job[s].rev # Revision -> Answer(s)
                [] job[s].rev = Revision /\ Valid(after) -> Go(s, "write")
                [] OTHER -> Go(s, "mark")
  /\ UNCHANGED <<log, rows, failures>>

-----------------------------------------------------------------------------
(* The transaction that stores a proposal in place of the waiting one.      *)

SnapshotPending(s) ==
  /\ At(s, "snapshot")
  /\ job' = [job EXCEPT ![s].stage = "insert", ![s].waits = Pending]
  /\ UNCHANGED <<log, rows, failures>>

\* Mutation: the oldest settled proposals stay.
PrunedNewest(list) ==
  LET settled == {id \in DOMAIN list : list[id].status \in Settled}
      stale == {id \in settled : Cardinality({older \in settled : older < id}) >= Kept}
  IN  [id \in DOMAIN list |-> IF id \in stale THEN [list[id] EXCEPT !.status = "pruned"] ELSE list[id]]

\* pruneResolved: only the newest settled proposals stay.
Pruned(list) ==
  LET settled == {id \in DOMAIN list : list[id].status \in Settled}
      stale == {id \in settled : Cardinality({newer \in settled : newer > id}) >= Kept}
  IN  [id \in DOMAIN list |-> IF id \in stale THEN [list[id] EXCEPT !.status = "pruned"] ELSE list[id]]

Superseded(ids) ==
  [id \in Ids |-> IF id \in ids \cap Pending THEN [rows[id] EXCEPT !.status = "superseded"] ELSE rows[id]]

NewRow(s) ==
  [ops |-> job[s].ops, status |-> "pending", base |-> job[s].rev,
   preview |-> After(job[s].ops, job[s].graph), applied |-> 0, saw |-> job[s].waits]

\* Mutation: SKIP LOCKED, rows another transaction holds are left as they are.
ReplaceUnlocked(s) ==
  /\ At(s, "insert")
  /\ rows' = Pruned(Append(Superseded({id \in job[s].waits : ~Locked(id)}), NewRow(s)))
  /\ Answer(s) /\ UNCHANGED <<log, failures>>

Replace(s) ==
  /\ At(s, "insert") /\ \A id \in job[s].waits : ~Locked(id)
  /\ rows' = Pruned(Append(Superseded(job[s].waits), NewRow(s)))
  /\ Answer(s) /\ UNCHANGED <<log, failures>>

-----------------------------------------------------------------------------
(* Refresh stores its outcome and reads the proposal again.                 *)

MarkConflict(s) ==
  /\ At(s, "mark") /\ ~Locked(job[s].id)
  /\ UpdatePending(job[s].id, [rows[job[s].id] EXCEPT !.status = "conflict"])
  /\ Answer(s) /\ UNCHANGED <<log, failures>>

WriteReview(s) ==
  /\ At(s, "write") /\ ~Locked(job[s].id)
  /\ UpdatePending(job[s].id, [rows[job[s].id] EXCEPT
       !.base = job[s].rev, !.preview = After(job[s].ops, job[s].graph)])
  /\ Go(s, "get") /\ UNCHANGED <<log, failures>>

ReadReview(s) ==
  /\ At(s, "get")
  /\ Answer(s) /\ UNCHANGED <<log, rows, failures>>

-----------------------------------------------------------------------------
(* The owner decides.                                                       *)

\* lockPending: waits for the row, and refuses one that is settled by then.
LockPendingOrSettled(id) == rows[id].status # "pruned" /\ ~Locked(id)  \* mutation
LockPending(id) == id \in Pending /\ ~Locked(id)

StartApply(s, id) ==
  /\ At(s, "idle") /\ Revision < MaxRevision /\ LockPending(id)
  /\ job' = [job EXCEPT ![s] = [NoJob EXCEPT !.kind = "apply", !.stage = "locked", !.id = id,
                                             !.ops = rows[id].ops]]
  /\ UNCHANGED <<log, rows, failures>>

Replayable(s) == Fits(Graph) /\ Valid(After(job[s].ops, Graph))

\* Mutation: the graph of the last review is written.
CommitPreview(s) ==
  /\ At(s, "locked") /\ Replayable(s)
  /\ NewRevision(rows[job[s].id].preview, job[s].id)
  /\ rows' = [rows EXCEPT ![job[s].id].status = "applied", ![job[s].id].applied = Revision + 1]
  /\ Answer(s) /\ UNCHANGED failures

\* The build's row stays locked from the read of its newest graph to the commit.
CommitApply(s) ==
  /\ At(s, "locked") /\ Replayable(s)
  /\ NewRevision(After(job[s].ops, Graph), job[s].id)
  /\ rows' = [rows EXCEPT ![job[s].id].status = "applied", ![job[s].id].applied = Revision + 1]
  /\ Answer(s) /\ UNCHANGED failures

\* Only the savepoint of the save is rolled back; the conflict is committed.
RefuseApply(s) ==
  /\ At(s, "locked") /\ ~Replayable(s)
  /\ rows' = [rows EXCEPT ![job[s].id].status = "conflict"]
  /\ Answer(s) /\ UNCHANGED <<log, failures>>

Reject(id) ==
  /\ LockPending(id)
  /\ rows' = [rows EXCEPT ![id].status = "rejected"]
  /\ UNCHANGED <<log, job, failures>>

-----------------------------------------------------------------------------
\* A request ends early: what its open transaction did is rolled back.
JobFails(s) ==
  /\ ~At(s, "idle") /\ failures < MaxFailures
  /\ failures' = failures + 1
  /\ Answer(s) /\ UNCHANGED <<log, rows>>

\* A save of the build: the canvas or a rename, always over the newest revision.
SaveElsewhere(graph) ==
  /\ Revision < MaxRevision /\ Valid(graph)
  /\ NewRevision(graph, 0)
  /\ UNCHANGED <<rows, job, failures>>

-----------------------------------------------------------------------------
Serve(s) ==
  \/ ReadRow(s) \/ ReadGraph(s) \/ DryRun(s)
  \/ SnapshotPending(s) \/ Replace(s)
  \/ MarkConflict(s) \/ WriteReview(s) \/ ReadReview(s)
  \/ CommitApply(s) \/ RefuseApply(s)

ProposalsNext ==
  \/ \E s \in Sessions :
       \/ \E ops \in (SUBSET Suggested) \ {{}} : StartPropose(s, ops)
       \/ \E id \in Ids : StartRefresh(s, id) \/ StartApply(s, id)
       \/ Serve(s) \/ JobFails(s)
  \/ \E id \in Ids : Reject(id)
  \/ \E e \in Edits \ Suggested : SaveElsewhere(Graph \cup {e}) \/ SaveElsewhere(Graph \ {e})

ProposalsSpec == ProposalsInit /\ [][ProposalsNext]_vars

-----------------------------------------------------------------------------
(* Properties.                                                              *)

\* A settled proposal stays as it was settled until it is pruned: a review or a
\* replacement that was already under way does not touch it (the WHERE on the
\* status in Refresh and Propose, lockPending in Apply and Reject).
ResolvedIsFinal ==
  [][\A id \in Ids : rows[id].status \in Settled =>
       rows'[id] \in {rows[id], [rows[id] EXCEPT !.status = "pruned"]}]_vars

\* A proposal is written to the build at most once, exactly when it ends up as
\* applied, and "edits made after the proposal was created are kept": the
\* revision it made is the one before it and its own edits (Apply).
AppliedOnce ==
  \A id \in Ids :
    LET made == {r \in 1 .. Revision : log[r].by = id}
    IN  /\ made = IF rows[id].applied = 0 THEN {} ELSE {rows[id].applied}
        /\ made # {} => rows[id].status \in {"applied", "pruned"}
        /\ \A r \in made : log[r].graph = After(rows[id].ops, log[r-1].graph)

\* The stored preview is that of the revision it names, also when a save fell
\* between the queries that read the build (PreviewTopology compares revisions).
PreviewMatchesBase ==
  \A id \in Ids : rows[id].preview = After(rows[id].ops, log[rows[id].base].graph)

\* A proposal that was waiting when another began to replace it does not wait any
\* more once that one is stored, whoever was deciding it meanwhile (Propose).
WaitingIsReplaced ==
  \A id \in Ids : \A old \in rows[id].saw : old \notin Pending

\* The newest settled proposals outlive pruning: the next turn of a chat is told
\* what the owner decided about its last one (pruneResolved, ResolvedForThread).
NewestSettledAreKept ==
  \A id \in Ids : rows[id].status = "pruned" =>
    Cardinality({newer \in Ids : newer > id /\ rows[newer].status \in Settled}) >= Kept

\* What of a proposal the owner is shown.
Offer(row) == [ops |-> row.ops, status |-> row.status, base |-> row.base, preview |-> row.preview]
Offers(list) == [id \in DOMAIN list |-> Offer(list[id])]

Promise == INSTANCE Decisions WITH
  Operations <- SUBSET Suggested,
  Sound <- {graph \in Graphs : Valid(graph)},
  history <- log,
  offers <- Offers(rows)

\* Whatever the requests do between their transactions, the owner sees what
\* Decisions promises: a proposal is decided in one step and only while it waits,
\* an accepted one is its operations on top of the build of that moment, and a
\* preview is always that of one revision (Propose, Refresh, Apply, Reject).
DecisionsAreAtomic == Promise!DecisionsSpec
=============================================================================
