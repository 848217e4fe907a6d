---------------------------- MODULE BuildService ----------------------------
(***************************************************************************)
(* The server's side of one build: the row with its revision and its       *)
(* graph, and the topology requests being served for the clients that have *)
(* the build open (backend/internal/services/build_service.go and          *)
(* handlers/build_handler.go).                                             *)
(*                                                                         *)
(* A graph is the set of edits it contains.  A save replaces the whole     *)
(* graph inside one transaction under the row lock, so it is one step; the *)
(* build that is sent back is read AFTER that transaction, by queries that *)
(* each see what is committed when they begin: first the row (the          *)
(* revision), then one table of the graph after the other.  Other saves    *)
(* can fall between any two of them.                                       *)
(***************************************************************************)
EXTENDS Naturals, Sequences, FiniteSets

CONSTANTS Clients,      \* browser tabs with the build open
          Nobody,       \* the author of what no client's canvas produced
          Edits,        \* every edit somebody can make to the graph
          Proposals,    \* the edits suggested by an assistant, not made by hand
          Elsewhere,    \* edits made outside the tabs (a share link, another program)
          Invalid,      \* edits whose graph the server refuses (wiring, ports, loops)
          Tables,       \* the edits by the table their rows are in: nodes, edges, guests...
          Nested,       \* the tables whose rows are looked up by the devices read before
          MaxRevision,  \* bound: no save starts once this revision is reached
          MaxStray,     \* bound: abandoned saves still on their way to the server
          MaxFailures   \* bound: database errors and answers that get lost

ASSUME BuildServiceAssumption ==
  /\ Nobody \notin Clients
  /\ Proposals \subseteq Edits
  /\ Elsewhere \subseteq Edits
  /\ Invalid \subseteq Edits
  /\ Tables # {} /\ UNION Tables = Edits
  /\ \A q1, q2 \in Tables : q1 # q2 => q1 \cap q2 = {}
  /\ Nested \subseteq Tables
  /\ MaxRevision \in Nat \ {0}
  /\ MaxStray \in Nat
  /\ MaxFailures \in Nat

VARIABLES log,    \* log[r] is what revision r of the build holds
          req,    \* req[c] is the topology request of client c being served
          stray,  \* saves whose client gave up waiting, not yet seen by the server
          failures \* how often something failed or got lost

serverVars == <<log, req, stray, failures>>

Graphs == SUBSET Edits
Version == [graph : Graphs, by : Clients \cup {Nobody}]
Revision == Len(log)
Graph == log[Len(log)].graph

Request == [op     : {"none", "save", "apply", "get"},
            stage  : {"idle", "sent", "read", "row", "done"},
            base   : Nat,    \* the revision a save was edited from
            body   : Graphs, \* what a save or an apply sends
            own    : Nat,    \* the revision its own transaction created, 0 if none
            rev    : Nat,    \* the revision in the answer
            graph  : Graphs, \* the graph in the answer, as far as it is read
            left   : SUBSET Tables, \* the tables still to be read
            status : {"none", "ok", "conflict", "refused", "error"},
            found  : BOOLEAN] \* the answer carries a build

Idle == [op |-> "none", stage |-> "idle", base |-> 0, body |-> {}, own |-> 0,
         rev |-> 0, graph |-> {}, left |-> {}, status |-> "none", found |-> FALSE]

ServerTypeOK ==
  /\ log \in Seq(Version)
  /\ Len(log) >= 1
  /\ req \in [Clients -> Request]
  /\ stray \in SUBSET [base : Nat, body : Graphs, by : Clients]
  /\ failures \in 0 .. MaxFailures

ServerInit ==
  /\ log = << [graph |-> {}, by |-> Nobody] >>
  /\ req = [c \in Clients |-> Idle]
  /\ stray = {}
  /\ failures = 0

-----------------------------------------------------------------------------
(* What a client does to its request: the actions of the store use these.  *)

Ask(c, op, base, body) ==
  [req EXCEPT ![c] = [Idle EXCEPT !.op = op, !.stage = "sent",
                                  !.base = base, !.body = body]]

Answered(c, op) == req[c].op = op /\ req[c].stage = "done"

\* Something fails or gets lost, while the bound allows it.
Failure == failures < MaxFailures /\ failures' = failures + 1

\* An answer without a build.
Settle(c, status) ==
  req' = [req EXCEPT ![c] = [Idle EXCEPT !.op = req[c].op, !.stage = "done", !.status = status]]

-----------------------------------------------------------------------------
(* The transaction of a save: SaveAndCalculateTx and saveRevisionTx.        *)

AcceptsStale(base, body) == body \cap Invalid = {}  \* mutation: last write wins

Accepts(base, body) == base = Revision /\ body \cap Invalid = {}

NewRevision(graph, by) == log' = Append(log, [graph |-> graph, by |-> by])

\* Committed; the build that is sent back is still to be read.
Committed(c) ==
  req' = [req EXCEPT ![c] = [req[c] EXCEPT !.stage = "read", !.own = Revision + 1,
                                      !.status = "ok"]]

CommitSave(c) ==
  /\ req[c].op = "save" /\ req[c].stage = "sent"
  /\ Accepts(req[c].base, req[c].body)
  /\ NewRevision(req[c].body, c)
  /\ Committed(c)
  /\ UNCHANGED <<stray, failures>>

\* ErrBuildRevisionConflict: rolled back, and the 409 is given the latest build.
RefuseStale(c) ==
  /\ req[c].op = "save" /\ req[c].stage = "sent"
  /\ req[c].base # Revision
  /\ req' = [req EXCEPT ![c] = [Idle EXCEPT !.op = "save", !.stage = "read",
                                            !.status = "conflict"]]
  /\ UNCHANGED <<log, stray, failures>>

\* ErrInvalidTopology, ErrInvalidEdgeReferences: rolled back, 422.
RefuseInvalid(c) ==
  /\ req[c].op = "save" /\ req[c].stage = "sent"
  /\ req[c].base = Revision /\ req[c].body \cap Invalid # {}
  /\ Settle(c, "refused")
  /\ UNCHANGED <<log, stray, failures>>

\* The proposal's edits are replayed on the newest graph, whoever saved it.
CommitApply(c) ==
  /\ req[c].op = "apply" /\ req[c].stage = "sent"
  /\ \A r \in 1 .. Len(log) : ~ (req[c].body \subseteq log[r].graph)
  /\ (Graph \cup req[c].body) \cap Invalid = {}
  /\ NewRevision(Graph \cup req[c].body, Nobody)
  /\ Committed(c)
  /\ UNCHANGED <<stray, failures>>

\* Already resolved, or it no longer fits the build.
RefuseApply(c) ==
  /\ req[c].op = "apply" /\ req[c].stage = "sent"
  /\ \/ \E r \in 1 .. Len(log) : req[c].body \subseteq log[r].graph
     \/ (Graph \cup req[c].body) \cap Invalid # {}
  /\ Settle(c, "refused")
  /\ UNCHANGED <<log, stray, failures>>

\* A database error inside the transaction: rolled back, 500.
FailBefore(c) ==
  /\ req[c].op \in {"save", "apply"} /\ req[c].stage = "sent"
  /\ Settle(c, "error")
  /\ Failure /\ UNCHANGED <<log, stray>>

\* Rename: the same graph under the next revision, by the same compare-and-set.
RenameElsewhere ==
  /\ Revision < MaxRevision
  /\ NewRevision(Graph, Nobody)
  /\ UNCHANGED <<req, stray, failures>>

\* UpdateByShareToken: someone else who holds the newest revision saves over it.
SaveElsewhere(e) ==
  /\ Revision < MaxRevision
  /\ e \notin Graph /\ Accepts(Revision, Graph \cup {e})
  /\ NewRevision(Graph \cup {e}, Nobody)
  /\ UNCHANGED <<req, stray, failures>>

-----------------------------------------------------------------------------
(* GetByID: the row first, then the preloaded rows, outside any transaction. *)

ReadRow(c) ==
  /\ \/ req[c].stage = "read"
     \/ req[c].op = "get" /\ req[c].stage = "sent"
  /\ req' = [req EXCEPT ![c] = [req[c] EXCEPT !.stage = "row", !.rev = Revision, !.left = Tables]]
  /\ UNCHANGED <<log, stray, failures>>

\* The answer, once every table is read.
Complete(answer) ==
  IF answer.left # {} THEN answer
  ELSE [answer EXCEPT !.stage = "done", !.found = TRUE,
                      !.status = IF answer.op = "get" THEN "ok" ELSE answer.status]

\* Rows of a nested table are found by the devices that were read: if the build was
\* saved since, some may belong to devices the answer does not have.
Orphans(c, q) == IF q \in Nested /\ req[c].rev # Revision THEN SUBSET q ELSE {{}}

\* One preload, in whatever order the library takes them.
ReadTable(c, q) ==
  /\ req[c].stage = "row" /\ q \in req[c].left
  /\ \E orphans \in Orphans(c, q) :
       req' = [req EXCEPT ![c] = Complete([req[c] EXCEPT
                 !.left = @ \ {q}, !.graph = @ \cup ((Graph \cap q) \ orphans)])]
  /\ UNCHANGED <<log, stray, failures>>

\* Mutation: the row is read again after the graph.
ReadRowLast(c) ==
  /\ req[c].stage = "row"
  /\ \E q \in req[c].left :
       req' = [req EXCEPT ![c] = Complete([req[c] EXCEPT
                 !.left = @ \ {q}, !.graph = @ \cup (Graph \cap q), !.rev = Revision])]
  /\ UNCHANGED <<log, stray, failures>>

ReadGraph(c) == \E q \in req[c].left : ReadTable(c, q)

\* A query failed: a conflict answers without a build, anything else answers an
\* error, also when the save itself is already committed.
ReadFails(c) ==
  /\ \/ req[c].stage \in {"read", "row"}
     \/ req[c].op = "get" /\ req[c].stage = "sent"
  /\ Settle(c, IF req[c].status = "conflict" THEN "conflict" ELSE "error")
  /\ Failure /\ UNCHANGED <<log, stray>>

-----------------------------------------------------------------------------
(* A save nobody waits for any more can still arrive.                       *)

\* What stays on its way to the server when client c stops waiting.
Abandoned(c) ==
  IF req[c].op = "save" /\ req[c].stage = "sent"
  THEN {[base |-> req[c].base, body |-> req[c].body, by |-> c]}
  ELSE {}

CommitStray(s) ==
  /\ Accepts(s.base, s.body)
  /\ NewRevision(s.body, s.by)
  /\ stray' = stray \ {s}
  /\ UNCHANGED <<req, failures>>

DropStray(s) ==
  /\ stray' = stray \ {s}
  /\ UNCHANGED <<log, req, failures>>

-----------------------------------------------------------------------------
Serve(c) ==
  \/ CommitSave(c) \/ RefuseStale(c) \/ RefuseInvalid(c)
  \/ CommitApply(c) \/ RefuseApply(c)
  \/ ReadRow(c) \/ ReadGraph(c)

Fail(c) == FailBefore(c) \/ ReadFails(c)

ServerNext ==
  \/ \E c \in Clients : Serve(c) \/ Fail(c)
  \/ RenameElsewhere
  \/ \E e \in Elsewhere : SaveElsewhere(e)
  \/ \E s \in stray : CommitStray(s) \/ DropStray(s)
=============================================================================
