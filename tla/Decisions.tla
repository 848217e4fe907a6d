------------------------------ MODULE Decisions ------------------------------
(***************************************************************************)
(* What proposals promise the owner of a build, without the requests, the  *)
(* transactions and the locks behind it: a proposal shows the build as it  *)
(* would be, waits, and is decided once.  Accepting it is one step that    *)
(* adds its operations to the build as it is then.                         *)
(***************************************************************************)
EXTENDS Naturals, Sequences

CONSTANTS Operations, \* the lists of operations a proposal can hold
          Sound       \* the graphs a save accepts

VARIABLES history,    \* history[r]: the graph of revision r and the proposal it came from
          offers      \* every proposal ever made, in the order of their creation

Open == {id \in DOMAIN offers : offers[id].status = "pending"}
With(ops, r) == ops \cup history[r].graph

\* A proposal that waits shows the build of a revision with its operations.
Shown(ops, r) == [ops |-> ops, status |-> "pending", base |-> r, preview |-> With(ops, r)]

Revise(graph, by) == history' = Append(history, [graph |-> graph, by |-> by])

Close(id, how) == offers' = [offers EXCEPT ![id].status = how]

DecisionsInit ==
  /\ \E graph \in Sound : history = << [graph |-> graph, by |-> 0] >>
  /\ offers = << >>

\* What is decided may be forgotten, what waited may be replaced as well.
Later(status) == {status, "pruned"} \cup IF status = "pending" THEN {"superseded"} ELSE {}

\* A new preview is of some revision.
Suggest ==
  /\ Len(offers') = Len(offers) + 1
  /\ \A id \in DOMAIN offers :
       /\ offers'[id] = [offers[id] EXCEPT !.status = offers'[id].status]
       /\ offers'[id].status \in Later(offers[id].status)
  /\ \E ops \in Operations, r \in DOMAIN history :
       offers'[Len(offers')] = Shown(ops, r)
  /\ UNCHANGED history

\* A review moves a preview to another revision, or finds that it cannot be had.
Review(id, r) ==
  /\ id \in Open
  /\ offers' = [offers EXCEPT ![id] = Shown(offers[id].ops, r)]
  /\ UNCHANGED history

Lapse(id) == id \in Open /\ Close(id, "conflict") /\ UNCHANGED history

Decline(id) == id \in Open /\ Close(id, "rejected") /\ UNCHANGED history

Accept(id) ==
  /\ id \in Open /\ Close(id, "applied")
  /\ With(offers[id].ops, Len(history)) \in Sound
  /\ Revise(With(offers[id].ops, Len(history)), id)

\* Edits of the owner go on meanwhile.
Edit ==
  /\ UNCHANGED offers
  /\ Len(history') = Len(history) + 1
  /\ \E graph \in Sound : Revise(graph, 0)

DecisionsNext ==
  \/ Suggest
  \/ \E id \in Open : \/ \E r \in DOMAIN history : Review(id, r)
                      \/ Lapse(id) \/ Decline(id) \/ Accept(id)
  \/ Edit

DecisionsSpec == DecisionsInit /\ [][DecisionsNext]_<<history, offers>>
=============================================================================
