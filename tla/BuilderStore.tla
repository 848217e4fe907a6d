---------------------------- MODULE BuilderStore ----------------------------
(***************************************************************************)
(* The canvas of a build in several browser tabs and the requests with     *)
(* which each keeps it in step with the server                             *)
(* (frontend/src/features/builder/store/builder-store.ts).                 *)
(*                                                                         *)
(* A tab runs one topology mutation at a time (topologyMutationQueue): a   *)
(* save, a sync, an open or the application of a proposal.  Between the    *)
(* request and its answer the user goes on editing, undoing or leaves.     *)
(***************************************************************************)
EXTENDS BuildService

CONSTANTS Signed,      \* edits graphSignature looks at: devices, guests, positions, cables
          Echoed,      \* edits of values the answer of a save writes back: details, addresses
          Unrecorded,  \* edits that make no undo step: fields of devices, cables, parts
          HistoryLimit \* bound of the undo and redo stacks (HISTORY_LIMIT)

ASSUME BuilderStoreAssumption ==
  /\ Signed \subseteq Edits
  /\ Echoed \subseteq Edits
  /\ Unrecorded \subseteq Edits
  /\ HistoryLimit \in Nat \ {0}

VARIABLES tab,   \* tab[t] is the store of tab t
          made,  \* edits already made by hand, each is made once
          seen,  \* history: seen[t] is every edit that has been on t's canvas
          raced  \* history: t has taken over a revision it never held

vars == <<serverVars, tab, made, seen, raced>>

Steps == {steps \in Seq(Graphs) : Len(steps) <= HistoryLimit}
Saves == [revision : Nat, signature : Graphs]
NoSave == [revision |-> 0, signature |-> {}]  \* revisions start at 1

Tab == [status : {"idle", "loading", "ready", "error"},  \* buildStatus
        canvas : Graphs,                                 \* nodes, edges, hardwareNodes
        synced : Graphs,                                 \* lastSyncedFingerprint
        revision : Nat,                                  \* currentRevision
        past : Steps, future : Steps,                    \* historyPast, historyFuture
        unconfirmed : Saves,                             \* unconfirmedSave
        mutation : {"none", "save", "latest", "sync", "open", "apply"},
        retried : BOOLEAN]

Closed == [status |-> "idle", canvas |-> {}, synced |-> {}, revision |-> 0,
           past |-> <<>>, future |-> <<>>, unconfirmed |-> NoSave, mutation |-> "none", retried |-> FALSE]

StoreTypeOK ==
  /\ tab \in [Clients -> Tab]
  /\ made \in Graphs
  /\ seen \in [Clients -> Graphs]
  /\ raced \in [Clients -> BOOLEAN]

TypeOK == ServerTypeOK /\ StoreTypeOK

Init ==
  /\ ServerInit
  /\ tab = [t \in Clients |-> Closed]
  /\ made = {}
  /\ seen = [t \in Clients |-> {}]
  /\ raced = [t \in Clients |-> FALSE]

-----------------------------------------------------------------------------
(* The undo stack: withStep, HISTORY_LIMIT.                                 *)

LastSteps(steps) ==
  IF Len(steps) > HistoryLimit
  THEN SubSeq(steps, Len(steps) - HistoryLimit + 1, Len(steps))
  ELSE steps

FirstSteps(steps) ==
  IF Len(steps) > HistoryLimit THEN SubSeq(steps, 1, HistoryLimit) ELSE steps

\* hasUnsavedChanges
Dirty(t) == tab[t].status = "ready" /\ tab[t].canvas # tab[t].synced

\* graphSignature: what two graphs have to agree on to look the same
graphSignature(graph) == graph \cap Signed

\* The store after loadBuild, which also empties the history.
Loaded(t, revision, graph) ==
  [tab[t] EXCEPT !.status = "ready", !.revision = revision, !.canvas = graph,
                 !.synced = graph, !.past = <<>>, !.future = <<>>,
                 !.mutation = "none", !.retried = FALSE]

\* A tab whose build was closed ignores the answer of what was still running.
Finished(t) == [tab[t] EXCEPT !.mutation = "none", !.retried = FALSE]

Quiet == UNCHANGED <<log, stray, failures, made>>
Hang(t) == req' = [req EXCEPT ![t] = Idle]
See(t, graph) == seen' = [seen EXCEPT ![t] = @ \cup graph]

\* graph is now what t shows as revision `revision` and takes as the server's.
Load(t, revision, graph) ==
  /\ tab' = [tab EXCEPT ![t] = Loaded(t, revision, graph)]
  /\ See(t, Loaded(t, revision, graph).canvas)
  /\ UNCHANGED raced

\* The same, with the canvas as it was kept one undo step away.
LoadDroppingMine(t, revision, graph) == Load(t, revision, graph)  \* mutation

LoadKeepingMine(t, revision, graph) ==
  /\ tab' = [tab EXCEPT ![t] =
       [Loaded(t, revision, graph) EXCEPT
          !.past = LastSteps(Append(tab[t].past, tab[t].canvas)),
          !.unconfirmed = IF tab[t].mutation = "apply" THEN tab[t].unconfirmed ELSE NoSave]]
  /\ See(t, Loaded(t, revision, graph).canvas)
  /\ UNCHANGED raced

-----------------------------------------------------------------------------
(* Editing.                                                                 *)

Edit(t, e) ==
  /\ tab[t].status = "ready"
  /\ e \notin made \cup Proposals \cup Elsewhere
  /\ tab' = [tab EXCEPT ![t] = [tab[t] EXCEPT
       !.canvas = tab[t].canvas \cup {e},
       !.past = IF e \in Unrecorded THEN @ ELSE LastSteps(Append(@, tab[t].canvas)),
       !.future = IF e \in Unrecorded THEN @ ELSE <<>>]]
  /\ made' = made \cup {e}
  /\ See(t, {e})
  /\ UNCHANGED <<serverVars, raced>>

Undo(t) ==
  /\ tab[t].past # <<>>
  /\ LET past == tab[t].past
     IN  tab' = [tab EXCEPT ![t] = [tab[t] EXCEPT
           !.canvas = past[Len(past)],
           !.past = SubSeq(past, 1, Len(past) - 1),
           !.future = FirstSteps(<<tab[t].canvas>> \o tab[t].future)]]
  /\ UNCHANGED <<serverVars, made, seen, raced>>

Redo(t) ==
  /\ tab[t].future # <<>>
  /\ tab' = [tab EXCEPT ![t] = [tab[t] EXCEPT
       !.canvas = Head(tab[t].future),
       !.past = LastSteps(Append(tab[t].past, tab[t].canvas)),
       !.future = Tail(tab[t].future)]]
  /\ UNCHANGED <<serverVars, made, seen, raced>>

\* clearCurrentBuild: deleted elsewhere, signed out, another project.
Close(t) ==
  /\ tab[t].status # "idle"
  /\ tab' = [tab EXCEPT ![t] = [Closed EXCEPT !.mutation = tab[t].mutation,
                                              !.retried = tab[t].retried]]
  /\ UNCHANGED <<serverVars, made, seen, raced>>

-----------------------------------------------------------------------------
(* reassignAllIPs: a save.                                                  *)

Free(t) == tab[t].mutation = "none"

StartSave(t) ==
  /\ Free(t) /\ tab[t].status = "ready" /\ Revision < MaxRevision
  /\ tab' = [tab EXCEPT ![t].mutation = "save"]
  /\ req' = Ask(t, "save", tab[t].revision, tab[t].canvas)
  /\ UNCHANGED <<log, stray, failures, made, seen, raced>>

NeverEdited(t) == FALSE  \* mutation: the canvas is taken for what was sent

\* editedDuringSave
EditedMeanwhile(t) == tab[t].canvas # req[t].body

\* The answer to a save that was accepted: the canvas stays, the echoed values
\* are the server's, and the revision is the one in the answer.
SaveAccepted(t) ==
  /\ tab[t].mutation = "save" /\ Answered(t, "save") /\ req[t].status = "ok"
  /\ LET merged == (tab[t].canvas \ Echoed) \cup (req[t].graph \cap Echoed)
     IN  IF tab[t].status # "ready"
         THEN /\ tab' = [tab EXCEPT ![t] = [Finished(t) EXCEPT !.unconfirmed = NoSave]]
              /\ UNCHANGED <<seen, raced>>
         ELSE /\ tab' = [tab EXCEPT ![t] = [Finished(t) EXCEPT
                   !.unconfirmed = NoSave,
                   !.canvas = merged,
                   !.synced = IF EditedMeanwhile(t) THEN tab[t].synced ELSE merged,
                   !.revision = req[t].rev]]
              /\ See(t, merged)
              /\ raced' = [raced EXCEPT ![t] = @ \/ req[t].rev # req[t].own]
  /\ Hang(t) /\ Quiet

\* The newer build a refused save is answered with, or fetched after it.
HasLatest(t) ==
  /\ tab[t].status = "ready" /\ req[t].stage = "done" /\ req[t].found
  /\ \/ tab[t].mutation = "save" /\ req[t].status = "conflict"
     \/ tab[t].mutation = "latest"

\* The conflict looks like the tab's own save whose answer was lost.
Ours(t) ==
  /\ tab[t].unconfirmed # NoSave
  /\ req[t].rev = tab[t].unconfirmed.revision + 1
  /\ graphSignature(req[t].graph) = tab[t].unconfirmed.signature

\* Continue from that revision: the save is sent again from the canvas as it is.
RetryAsOurs(t) ==
  /\ HasLatest(t) /\ Ours(t) /\ ~tab[t].retried
  /\ tab' = [tab EXCEPT ![t] = [tab[t] EXCEPT
       !.unconfirmed = NoSave, !.revision = req[t].rev,
       !.mutation = "save", !.retried = TRUE]]
  /\ req' = Ask(t, "save", req[t].rev, tab[t].canvas)
  /\ raced' = [raced EXCEPT ![t] = @ \/ log[req[t].rev].by # t]
  /\ UNCHANGED <<log, stray, failures, made, seen>>

\* BuildConflictError: the newer build wins, the canvas here is one Undo away.
AdoptLatest(t) ==
  /\ HasLatest(t) /\ (~Ours(t) \/ tab[t].retried)
  /\ LoadKeepingMine(t, req[t].rev, req[t].graph)
  /\ Hang(t) /\ Quiet

\* The 409 carried no build: fetch it.
FetchLatest(t) ==
  /\ tab[t].mutation = "save" /\ tab[t].status = "ready"
  /\ Answered(t, "save") /\ req[t].status = "conflict" /\ ~req[t].found
  /\ tab' = [tab EXCEPT ![t].mutation = "latest"]
  /\ req' = Ask(t, "get", 0, {})
  /\ UNCHANGED <<log, stray, failures, made, seen, raced>>

\* The server answered that it could not save, or the newer build could not be
\* fetched either; a closed tab ignores every failure.
SaveFailed(t) ==
  /\ tab[t].mutation \in {"save", "latest"} /\ req[t].stage = "done"
  /\ \/ tab[t].status # "ready" /\ (req[t].op = "get" \/ req[t].status # "ok")
     \/ req[t].op = "save" /\ req[t].status \in {"refused", "error"}
     \/ req[t].op = "get" /\ req[t].status = "error"
  /\ tab' = [tab EXCEPT ![t] = Finished(t)]
  /\ Hang(t) /\ UNCHANGED <<log, stray, failures, made, seen, raced>>

\* No answer at all: the save may or may not reach the server.
SaveLost(t) ==
  /\ tab[t].mutation \in {"save", "latest"} /\ req[t].stage \in {"sent", "done"}
  /\ tab' = [tab EXCEPT ![t] =
       [Finished(t) EXCEPT
          !.unconfirmed = IF tab[t].status = "ready" /\ req[t].op = "save"
                          THEN [revision |-> req[t].base, signature |-> graphSignature(req[t].body)]
                          ELSE tab[t].unconfirmed]]
  /\ Hang(t)
  /\ \E late \in {{}, Abandoned(t)} : stray' = stray \cup late
  /\ Cardinality(stray') <= MaxStray
  /\ Failure /\ UNCHANGED <<log, made, seen, raced>>

-----------------------------------------------------------------------------
(* syncWithServer, after a poll reported a newer revision.                  *)

StartSync(t) ==
  /\ Free(t) /\ tab[t].status = "ready" /\ ~Dirty(t)
  /\ Revision > tab[t].revision
  /\ tab' = [tab EXCEPT ![t].mutation = "sync"]
  /\ req' = Ask(t, "get", 0, {})
  /\ UNCHANGED <<log, stray, failures, made, seen, raced>>

\* Looked at again after the answer: the tab may have moved on meanwhile.
SyncLoads(t) ==
  /\ req[t].status = "ok" /\ tab[t].status = "ready"
  /\ req[t].rev > tab[t].revision /\ ~Dirty(t)

FinishSync(t) ==
  /\ tab[t].mutation = "sync" /\ Answered(t, "get")
  /\ IF SyncLoads(t)
     THEN Load(t, req[t].rev, req[t].graph)
     ELSE tab' = [tab EXCEPT ![t] = Finished(t)] /\ UNCHANGED <<seen, raced>>
  /\ Hang(t) /\ Quiet

-----------------------------------------------------------------------------
(* openBuild: every visit of the builder reloads the build.                 *)

StartOpen(t) ==
  /\ Free(t)
  /\ tab' = [tab EXCEPT ![t] = IF tab[t].status = "ready"
                               THEN [tab[t] EXCEPT !.mutation = "open"]
                               ELSE [Closed EXCEPT !.status = "loading",
                                                   !.synced = tab[t].synced,
                                                   !.mutation = "open"]]
  /\ req' = Ask(t, "get", 0, {})
  /\ UNCHANGED <<log, stray, failures, made, seen, raced>>

\* Any build that is still the open one is taken over, over unsaved edits too.
OpenLoads(t) == tab[t].status # "idle"

FinishOpen(t) ==
  /\ tab[t].mutation = "open" /\ Answered(t, "get") /\ req[t].status = "ok"
  /\ IF OpenLoads(t)
     THEN Load(t, req[t].rev, req[t].graph)
     ELSE tab' = [tab EXCEPT ![t] = Finished(t)] /\ UNCHANGED <<seen, raced>>
  /\ Hang(t) /\ Quiet

\* The builder page gives the build up (cleared); elsewhere it can be retried.
OpenFailed(t, cleared) ==
  /\ tab[t].mutation = "open"
  /\ \/ Answered(t, "get") /\ req[t].status = "error" /\ UNCHANGED failures
     \/ req[t].stage \in {"sent", "done"} /\ Failure
  /\ tab' = [tab EXCEPT ![t] =
       IF cleared THEN Closed
       ELSE [Finished(t) EXCEPT !.status = IF tab[t].status = "loading" THEN "error" ELSE tab[t].status]]
  /\ Hang(t) /\ UNCHANGED <<log, stray, made, seen, raced>>

-----------------------------------------------------------------------------
(* applyProposal.  An unsaved canvas is saved first, by a save of its own    *)
(* (StartSave); what is edited during that save can be unsaved when the     *)
(* proposal is applied, so that the canvas need not be clean here.          *)

StartApply(t, p) ==
  /\ Free(t) /\ tab[t].status = "ready"
  /\ tab' = [tab EXCEPT ![t].mutation = "apply"]
  /\ req' = Ask(t, "apply", 0, {p})
  /\ UNCHANGED <<log, stray, failures, made, seen, raced>>

ApplyLoads(t) == req[t].status = "ok" /\ tab[t].status = "ready"

FinishApply(t) ==
  /\ tab[t].mutation = "apply" /\ Answered(t, "apply")
  /\ IF ApplyLoads(t)
     THEN LoadKeepingMine(t, req[t].rev, req[t].graph)
     ELSE tab' = [tab EXCEPT ![t] = Finished(t)] /\ UNCHANGED <<seen, raced>>
  /\ Hang(t) /\ Quiet

\* No answer to a sync or an apply: nothing changes here.  An apply that did
\* reach the server is noticed by the next poll.
OtherLost(t) ==
  /\ tab[t].mutation \in {"sync", "apply"} /\ req[t].stage \in {"sent", "done"}
  /\ tab' = [tab EXCEPT ![t] = Finished(t)]
  /\ Hang(t) /\ Failure /\ UNCHANGED <<log, stray, made, seen, raced>>

-----------------------------------------------------------------------------
ServerStep == ServerNext /\ UNCHANGED <<tab, made, seen, raced>>

UserStep(t) ==
  \/ \E e \in Edits : Edit(t, e)
  \/ Undo(t) \/ Redo(t) \/ Close(t)

StartStep(t) ==
  \/ StartSave(t) \/ StartSync(t) \/ StartOpen(t)
  \/ \E p \in Proposals : StartApply(t, p)

AnswerStep(t) ==
  \/ SaveAccepted(t) \/ RetryAsOurs(t) \/ AdoptLatest(t) \/ FetchLatest(t) \/ SaveFailed(t)
  \/ FinishSync(t) \/ FinishOpen(t) \/ FinishApply(t)

LossStep(t) ==
  \/ SaveLost(t) \/ OtherLost(t)
  \/ \E cleared \in BOOLEAN : OpenFailed(t, cleared)

TabStep(t) == UserStep(t) \/ StartStep(t) \/ AnswerStep(t) \/ LossStep(t)

Next == ServerStep \/ \E t \in Clients : TabStep(t)

Spec == Init /\ [][Next]_vars

-----------------------------------------------------------------------------
(* Properties.                                                              *)

\* A save that is accepted replaces nothing its author has never had on the
\* canvas: the compare-and-set on the revision (saveRevisionTx), the order of
\* the queries of an answer (GetByID) and what the store takes over from it
\* (reassignAllIPs) together lose no other tab's work.  It excludes tabs that
\* took over a revision they never held, which SavesSeeEverything does not.
SavesSeeWhatTheyReplace ==
  \A r \in 2 .. Len(log) :
    log[r].by # Nobody /\ ~raced[log[r].by] => log[r-1].graph \subseteq seen[log[r].by]

\* The same without the exclusion: "saves from a stale revision are rejected"
\* (visual-builder.tsx, on opening a build).
SavesSeeEverything ==
  \A r \in 2 .. Len(log) : log[r].by # Nobody => log[r-1].graph \subseteq seen[log[r].by]

\* GetByID reads the row before the graph and every table by itself: an answer may
\* mix tables of several revisions, but none older than the revision it names, and
\* none newer while that revision is the newest, so that a mixed answer's save is
\* refused; and the answer to an accepted save is not older than that save.
AnswersAreNotOlder ==
  \A c \in Clients :
    req[c].stage = "done" /\ req[c].found =>
      /\ req[c].own <= req[c].rev
      /\ req[c].rev = Revision => req[c].graph = Graph
      /\ \A q \in Tables : \E r \in req[c].rev .. Len(log) :
           /\ req[c].graph \cap q \subseteq log[r].graph
           /\ q \in Nested \/ log[r].graph \cap q \subseteq req[c].graph

Shape(graph) == graph \ Echoed
Kept(t) == {tab[t].canvas} \cup {tab[t].past[i] : i \in DOMAIN tab[t].past}
                          \cup {tab[t].future[i] : i \in DOMAIN tab[t].future}

\* Whatever answer arrives, a canvas with unsaved changes is still there after
\* it, on the canvas or in the undo history: saves, conflicts, syncs and applied
\* proposals never drop the devices and cables of an unsaved canvas.
UnsavedShapeIsKept ==
  [][\A t \in Clients :
       /\ Dirty(t) /\ tab[t].mutation # "open" /\ tab'[t].status = "ready"
       => \E g \in Kept(t)' : Shape(tab[t].canvas) \subseteq g]_vars
=============================================================================
