------------------------- MODULE IntegrationsProofs -------------------------
(***************************************************************************)
(* What holds of integrations for any number of requests, connections and   *)
(* items: a secret stays with the destination it was entered for, and       *)
(* links and removals come out in order unless requests overlapped in one   *)
(* of the three ways the module names.                                      *)
(***************************************************************************)
EXTENDS Integrations, TLAPS

(* The inductive invariant.                                                 *)

\* What a request holds between two of its steps.
Sound(r) ==
  /\ Paired(job[r].row)
  /\ job[r].stage \in {"call", "test"} => job[r].row.secret # None
  /\ job[r].stage = "save" => job[r].id \in used
  /\ job[r].stage \in {"added", "link", "matched", "unlinked"} => job[r].link \in Link
  /\ job[r].stage = "item" => job[r].item \in Items

\* The items of a host that a request links are those it is about to unlink.
Covers(r) ==
  job[r].stage \in {"matched", "unlinked"} => LinkedTo(job[r].link) \subseteq job[r].gone

\* Alone with its host: no other request is between the same two statements.
Alone(r) ==
  job[r].stage \in {"matched", "unlinked"} =>
    \A other \in Requests \ {r} : ~Linking(other, job[r].link)

\* A request that will write what refers to an integration finds it there.
Current(r) ==
  /\ job[r].stage = "save" => job[r].id \notin removed
  /\ job[r].stage \in {"link", "matched", "unlinked"} => job[r].link[1] \in Stored

IInv ==
  /\ IntegrationsTypeOK
  /\ \A id \in Stored : Paired(rows[id])
  /\ \A r \in Requests : Sound(r)

LinksInv ==
  overlaps \cap {"links", "edit"} = {} =>
    HostsHaveOneItem /\ \A r \in Requests : Covers(r) /\ Alone(r)

RemovalInv ==
  "removal" \notin overlaps => RemovedStayAway /\ \A r \in Requests : Current(r)

LeadInv ==
  overlaps \cap {"removal", "edit"} = {} => LinksLeadSomewhere

-----------------------------------------------------------------------------
(* A row that apply makes of a sound row and an accepted request is sound.  *)

LEMMA ConnectedTyped ==
  ASSUME NEW row \in Row, NEW in \in Inputs, Accepted(row, in)
  PROVE  Connected(row, in) \in Row
  <1>1. in \in Input /\ (in.pin = "presented" => in.address # None)
    BY IntegrationsAssumption
  <1>2. in.address \in Addresses \cup {None} /\ in.token \in Tokens \cup {None}
    BY <1>1 DEF Input
  <1>3. QED
    BY <1>1, <1>2 DEF Connected, Row

LEMMA ApplyTyped ==
  ASSUME NEW row \in Row, NEW in \in Inputs, Accepted(row, in), Paired(row)
  PROVE  apply(row, in) \in Row /\ Paired(apply(row, in))
  <1> DEFINE read == IF in.export THEN [row EXCEPT !.reading = Paste, !.failed = FALSE, !.source = "paste"] ELSE row
             new == Connected(read, in)
  <1>1. in \in Input /\ (in.pin = "presented" => in.address # None)
    BY IntegrationsAssumption
  <1>2. read \in Row /\ To(read) = To(row) /\ read.pin = row.pin /\ read.address = row.address
        /\ read.secret = row.secret /\ read.token = row.token
    BY DEF Row, To, Sources
  <1>3. Accepted(read, in)
    BY <1>2 DEF Accepted, Connected, Row
  <1>4. new \in Row
    BY <1>2, <1>3, ConnectedTyped
  <1>5. new.pin # None => new.pin = new.address
    BY <1>1, <1>2 DEF Connected, Row, Paired, Input
  <1>6. in.secret => To(new) \in Destinations
    BY <1>3, <1>4 DEF Accepted, To, Row, Destinations
  <1>7. SecretOf(read, new, in) \in Destinations \cup {None}
    BY <1>2, <1>6 DEF SecretOf, Row
  <1>8. SecretOf(read, new, in) # None => SecretOf(read, new, in) = To(new)
    BY <1>2 DEF SecretOf, Paired
  <1>9. apply(row, in) = [new EXCEPT !.secret = SecretOf(read, new, in)]
    BY DEF apply
  <1> HIDE DEF new, read
  <1>10. apply(row, in) \in Row
    BY <1>4, <1>7, <1>9 DEF Row
  <1>11. /\ apply(row, in).secret = SecretOf(read, new, in)
         /\ apply(row, in).pin = new.pin
         /\ apply(row, in).address = new.address /\ apply(row, in).token = new.token
    BY <1>4, <1>9 DEF Row
  <1>12. Paired(apply(row, in))
    BY <1>5, <1>8, <1>11 DEF Paired, To
  <1>13. QED
    BY <1>10, <1>12

LEMMA IdleTyped ==
  /\ NoRow \in Row /\ Paired(NoRow)
  /\ Idle \in Job /\ Idle.row = NoRow /\ Idle.stage = "idle"
  <1>1. NoRow \in Row /\ Paired(NoRow)
    BY DEF NoRow, Row, Paired
  <1>2. QED
    BY <1>1 DEF Idle, Job, Stages

LEMMA Went ==
  ASSUME job \in [Requests -> Job], NEW r \in Requests, NEW next \in Job, Goes(r, next)
  PROVE  /\ job' \in [Requests -> Job]
         /\ job'[r] = next
         /\ \A other \in Requests \ {r} : job'[other] = job[other]
  BY DEF Goes

\* A request that is over, or another one's step that leaves `used` growing, stays sound.
LEMMA StaysSound ==
  ASSUME IInv, NEW r \in Requests, NEW next \in Job, Goes(r, next), used \subseteq used',
         /\ Paired(next.row)
         /\ next.stage \in {"call", "test"} => next.row.secret # None
         /\ next.stage = "save" => next.id \in used'
         /\ next.stage \in {"added", "link", "matched", "unlinked"} => next.link \in Link
         /\ next.stage = "item" => next.item \in Items
  PROVE  job' \in [Requests -> Job] /\ \A q \in Requests : Sound(q)'
  <1>1. /\ job' \in [Requests -> Job] /\ job'[r] = next
        /\ \A other \in Requests \ {r} : job'[other] = job[other]
    BY Went DEF IInv, IntegrationsTypeOK
  <1>2. Sound(r)'
    BY <1>1 DEF Sound
  <1>3. ASSUME NEW q \in Requests \ {r} PROVE Sound(q)'
    BY <1>1 DEF Sound, IInv
  <1>4. QED
    BY <1>1, <1>2, <1>3

\* The steps of a request that change nothing but what it is about to do.
LEMMA OnlyGoes ==
  ASSUME IInv, NEW r \in Requests, NEW next \in Job, Goes(r, next),
         UNCHANGED <<rows, used, removed, items>>,
         overlaps' \subseteq {"links", "edit", "removal"}, made' \in 0..MaxRequests,
         /\ Paired(next.row)
         /\ next.stage \in {"call", "test"} => next.row.secret # None
         /\ next.stage = "save" => next.id \in used
         /\ next.stage \in {"added", "link", "matched", "unlinked"} => next.link \in Link
         /\ next.stage = "item" => next.item \in Items
  PROVE  IInv'
  <1>1. job' \in [Requests -> Job] /\ \A q \in Requests : Sound(q)'
    BY StaysSound
  <1>2. IntegrationsTypeOK'
    BY <1>1 DEF IInv, IntegrationsTypeOK, Stored
  <1>3. \A id \in Stored' : Paired(rows[id])'
    BY DEF IInv, Stored, Paired, To
  <1>4. QED
    BY <1>1, <1>2, <1>3 DEF IInv

LEMMA Ended ==
  ASSUME IInv, NEW r \in Requests, Ends(r), UNCHANGED <<rows, used, removed, items>>,
         overlaps' \subseteq {"links", "edit", "removal"}, made' \in 0..MaxRequests
  PROVE  IInv'
  <1>1. Goes(r, Idle)
    BY DEF Ends
  <1>2. QED
    BY <1>1, IdleTyped, OnlyGoes

LEMMA Counted ==
  ASSUME IInv, NEW r \in Requests, Begins(r)
  PROVE  made' \in 0..MaxRequests /\ overlaps \subseteq {"links", "edit", "removal"}
  BY IntegrationsAssumption DEF Begins, IInv, IntegrationsTypeOK

\* A new row for one integration: sound, if what is stored is.
LEMMA RowStored ==
  ASSUME IInv, NEW id, NEW row \in Row \cup {None}, rows' = [rows EXCEPT ![id] = row],
         row # None => Paired(row)
  PROVE  /\ rows' \in [Ids -> Row \cup {None}]
         /\ \A other \in Stored' : Paired(rows[other])'
         /\ Stored' \subseteq Stored \cup {id}
  <1>1. /\ rows' \in [Ids -> Row \cup {None}]
        /\ \A other \in Ids : rows'[other] = IF other = id THEN row ELSE rows[other]
    BY DEF IInv, IntegrationsTypeOK
  <1>2. QED
    BY <1>1 DEF IInv, Stored, Paired, To

-----------------------------------------------------------------------------
(* The steps on integrations.                                               *)

LEMMA CreateSound ==
  ASSUME IInv, NEW r \in Requests, NEW id \in Ids, NEW in \in Inputs, Create(r, id, in)
  PROVE  IInv'
  <1> DEFINE next == [Idle EXCEPT !.stage = "save", !.id = id, !.row = apply(NoRow, in), !.reads = TRUE]
  <1>1. apply(NoRow, in) \in Row /\ Paired(apply(NoRow, in))
    BY IdleTyped, ApplyTyped DEF Create
  <1>2. next \in Job /\ next.row = apply(NoRow, in) /\ next.stage = "save" /\ next.id = id
    BY <1>1, IdleTyped DEF Job, Stages
  <1>3. Goes(r, next) /\ used' = used \cup {id} /\ UNCHANGED <<rows, removed, items, overlaps>> /\ Begins(r)
    BY DEF Create
  <1> HIDE DEF next
  <1>4. job' \in [Requests -> Job] /\ \A q \in Requests : Sound(q)'
    BY <1>1, <1>2, <1>3, StaysSound
  <1>5. IntegrationsTypeOK'
    BY <1>3, <1>4, Counted DEF IInv, IntegrationsTypeOK, Stored
  <1>6. \A i \in Stored' : Paired(rows[i])'
    BY <1>3 DEF IInv, Stored, Paired, To
  <1>7. QED
    BY <1>4, <1>5, <1>6 DEF IInv

LEMMA UpdateSound ==
  ASSUME IInv, NEW r \in Requests, NEW id \in Ids, NEW in \in Inputs, Update(r, id, in)
  PROVE  IInv'
  <1> DEFINE next == [Idle EXCEPT !.stage = "save", !.id = id, !.row = apply(rows[id], in), !.reads = SendsConnection(in)]
  <1>1. id \in Stored /\ rows[id] \in Row /\ Paired(rows[id]) /\ id \in used
    BY DEF Update, OnRow, IInv, IntegrationsTypeOK, Stored
  <1>2. apply(rows[id], in) \in Row /\ Paired(apply(rows[id], in))
    BY <1>1, ApplyTyped DEF Update
  <1>3. SendsConnection(in) \in BOOLEAN
    BY IntegrationsAssumption DEF SendsConnection, Input
  <1>4. next \in Job /\ next.row = apply(rows[id], in) /\ next.stage = "save" /\ next.id = id
    BY <1>2, <1>3, IdleTyped DEF Job, Stages
  <1>5. Goes(r, next) /\ UNCHANGED <<rows, used, removed, items, overlaps>> /\ Begins(r)
    BY DEF Update, OnRow
  <1> HIDE DEF next
  <1>6. QED
    BY <1>1, <1>2, <1>4, <1>5, Counted, OnlyGoes

LEMMA SaveRowSound ==
  ASSUME IInv, NEW r \in Requests, SaveRow(r)
  PROVE  IInv'
  <1> DEFINE id == job[r].id
             next == IF job[r].reads /\ job[r].row.source = "api" /\ job[r].row.secret # None
                     THEN [Idle EXCEPT !.stage = "read", !.id = id] ELSE Idle
  <1>1. job[r] \in Job /\ job[r].row \in Row /\ Paired(job[r].row) /\ id \in used /\ id \in Ids
    BY DEF IInv, IntegrationsTypeOK, Job, Sound, SaveRow
  <1>2. next \in Job /\ next.row = NoRow /\ next.stage \in {"idle", "read"}
    BY <1>1, IdleTyped DEF Job, Stages
  <1>3. Goes(r, next) /\ UNCHANGED <<used, removed, items, overlaps, made>>
    BY DEF SaveRow, Ends
  <1>4. rows' = [rows EXCEPT ![id] = job[r].row]
    BY DEF SaveRow
  <1> HIDE DEF next, id
  <1>5. /\ rows' \in [Ids -> Row \cup {None}]
        /\ \A other \in Stored' : Paired(rows[other])'
        /\ Stored' \subseteq Stored \cup {id}
    BY <1>1, <1>4, RowStored
  <1>6. job' \in [Requests -> Job] /\ \A q \in Requests : Sound(q)'
    BY <1>2, <1>3, IdleTyped, StaysSound
  <1>7. IntegrationsTypeOK'
    BY <1>1, <1>3, <1>5, <1>6 DEF IInv, IntegrationsTypeOK
  <1>8. QED
    BY <1>5, <1>6, <1>7 DEF IInv

LEMMA SyncSound ==
  ASSUME IInv, NEW r \in Requests, NEW id \in Ids, Sync(r, id)
  PROVE  IInv'
  <1> DEFINE next == [Idle EXCEPT !.stage = "read", !.id = id]
  <1>1. next \in Job /\ next.row = NoRow /\ next.stage = "read"
    BY IdleTyped DEF Job, Stages
  <1>2. Goes(r, next) /\ UNCHANGED <<rows, used, removed, items, overlaps>> /\ Begins(r)
    BY DEF Sync, OnRow
  <1> HIDE DEF next
  <1>3. QED
    BY <1>1, <1>2, IdleTyped, Counted, OnlyGoes

LEMMA CallSound ==
  ASSUME IInv, NEW r \in Requests, Call(r)
  PROVE  IInv'
  <1> DEFINE row == rows[job[r].id]
             next == [job[r] EXCEPT !.stage = "call", !.row = row]
  <1>1. job[r] \in Job /\ row \in Row /\ Paired(row) /\ row.secret # None
    BY DEF IInv, IntegrationsTypeOK, Stored, Call
  <1>2. next \in Job /\ next.row = row /\ next.stage = "call"
    BY <1>1 DEF Job, Stages
  <1>3. Goes(r, next) /\ UNCHANGED <<rows, used, removed, items, overlaps, made>>
    BY DEF Call
  <1> HIDE DEF next, row
  <1>4. QED
    BY <1>1, <1>2, <1>3, OnlyGoes DEF IInv, IntegrationsTypeOK

LEMMA AnswerSound ==
  ASSUME IInv, NEW r \in Requests, NEW failed \in BOOLEAN, Answer(r, failed)
  PROVE  IInv'
  <1> DEFINE id == job[r].id
             row == [rows[id] EXCEPT !.failed = failed,
                        !.reading = IF failed THEN rows[id].reading ELSE To(job[r].row)]
  <1>1. Goes(r, Idle) /\ UNCHANGED <<used, removed, items, overlaps, made>>
    BY DEF Answer, Ends
  <1>2. job' \in [Requests -> Job] /\ \A q \in Requests : Sound(q)'
    BY <1>1, IdleTyped, StaysSound
  <1>3. CASE id \notin Stored
    <2>1. rows' = rows
      BY <1>3 DEF Answer
    <2>2. QED
      BY <1>1, <2>1, Ended DEF Ends, IInv, IntegrationsTypeOK
  <1>4. CASE id \in Stored
    <2>1. job[r].row.secret = To(job[r].row) /\ job[r].row.secret \in Destinations
      BY DEF IInv, IntegrationsTypeOK, Job, Row, Sound, Paired, Answer
    <2>2. rows[id] \in Row /\ Paired(rows[id]) /\ id \in used
      BY <1>4 DEF IInv, IntegrationsTypeOK, Stored
    <2>3. row \in Row /\ Paired(row)
      BY <2>1, <2>2 DEF Row, Paired, To, Sources
    <2>4. rows' = [rows EXCEPT ![id] = row]
      BY <1>4 DEF Answer
    <2> HIDE DEF row, id
    <2>5. /\ rows' \in [Ids -> Row \cup {None}]
          /\ \A other \in Stored' : Paired(rows[other])'
          /\ Stored' \subseteq Stored \cup {id}
      BY <2>3, <2>4, RowStored
    <2>6. IntegrationsTypeOK'
      BY <1>1, <1>2, <2>2, <2>5 DEF IInv, IntegrationsTypeOK
    <2>7. QED
      BY <1>2, <2>5, <2>6 DEF IInv
  <1>5. QED
    BY <1>3, <1>4

LEMMA TestSound ==
  ASSUME IInv, NEW r \in Requests, NEW id \in Ids, NEW in \in Inputs, Test(r, id, in)
  PROVE  IInv'
  <1> DEFINE row == [rows[id] EXCEPT !.address = in.address, !.token = in.token,
                                     !.pin = IF in.pin = "presented" THEN in.address ELSE None]
             next == [Idle EXCEPT !.stage = "test", !.id = id, !.row = row]
  <1>1. rows[id] \in Row /\ Paired(rows[id]) /\ rows[id].secret # None
        /\ rows[id].address = in.address /\ rows[id].token = in.token
    BY DEF IInv, IntegrationsTypeOK, Stored, Test, OnRow, MayTry
  <1>2. row \in Row /\ Paired(row) /\ row.secret # None
    BY <1>1 DEF Row, Paired, To
  <1> HIDE DEF row
  <1>3. next \in Job /\ next.row = row /\ next.stage = "test"
    BY <1>2, IdleTyped DEF Job, Stages
  <1>4. Goes(r, next) /\ UNCHANGED <<rows, used, removed, items, overlaps>> /\ Begins(r)
    BY DEF Test, OnRow, row
  <1> HIDE DEF next
  <1>5. QED
    BY <1>2, <1>3, <1>4, Counted, OnlyGoes

LEMMA DeleteSound ==
  ASSUME IInv, NEW r \in Requests, NEW id \in Ids, Delete(r, id)
  PROVE  IInv'
  <1>1. rows' = [rows EXCEPT ![id] = None] /\ id \in used /\ Begins(r)
        /\ removed' = removed \cup {id} /\ used' = used /\ job' = job
    BY DEF Delete, OnRow, IInv, IntegrationsTypeOK
  <1>2. /\ rows' \in [Ids -> Row \cup {None}]
        /\ \A other \in Stored' : Paired(rows[other])'
        /\ Stored' \subseteq Stored \cup {id}
    BY <1>1, RowStored
  <1>3. items' \in [Items -> Item]
    BY DEF Delete, IInv, IntegrationsTypeOK, Item
  <1>4. overlaps' \subseteq {"links", "edit", "removal"}
    BY DEF Delete, IInv, IntegrationsTypeOK
  <1>5. IntegrationsTypeOK'
    BY <1>1, <1>2, <1>3, <1>4, Counted DEF IInv, IntegrationsTypeOK
  <1>6. \A q \in Requests : Sound(q)'
    BY <1>1 DEF Sound, IInv
  <1>7. QED
    BY <1>2, <1>5, <1>6 DEF IInv

-----------------------------------------------------------------------------
(* The steps on links and items.                                            *)

LEMMA LinkItemSound ==
  ASSUME IInv, NEW r \in Requests, NEW id \in Ids, NEW host \in Hosts,
         NEW item \in Items \cup {None}, LinkItem(r, id, host, item)
  PROVE  IInv'
  <1> DEFINE next == [Idle EXCEPT !.stage = "link", !.link = <<id, host>>, !.item = item]
  <1>1. next \in Job /\ next.row = NoRow /\ next.stage = "link" /\ next.link \in Link
    BY IdleTyped DEF Job, Stages, Link
  <1>2. Goes(r, next) /\ UNCHANGED <<rows, used, removed, items, overlaps>> /\ Begins(r)
    BY DEF LinkItem, OnRow
  <1> HIDE DEF next
  <1>3. QED
    BY <1>1, <1>2, IdleTyped, Counted, OnlyGoes

\* A request between two statements of its transaction.
LEMMA LinksOn ==
  ASSUME IInv, NEW r \in Requests, NEW stage \in {"link", "matched", "unlinked"}, NEW gone \in SUBSET Items,
         job[r].stage \in {"added", "link", "matched"},
         Goes(r, [job[r] EXCEPT !.stage = stage, !.gone = gone]),
         UNCHANGED <<rows, used, removed, items, made>>,
         overlaps' \subseteq {"links", "edit", "removal"}
  PROVE  IInv'
  <1> DEFINE next == [job[r] EXCEPT !.stage = stage, !.gone = gone]
  <1>1. job[r] \in Job /\ Paired(job[r].row) /\ job[r].link \in Link
    BY DEF IInv, IntegrationsTypeOK, Sound
  <1>2. next \in Job /\ next.row = job[r].row /\ next.stage = stage /\ next.link = job[r].link
    BY <1>1 DEF Job, Stages
  <1> HIDE DEF next
  <1>3. Goes(r, next)
    BY DEF next
  <1>4. QED
    BY <1>1, <1>2, <1>3, OnlyGoes DEF IInv, IntegrationsTypeOK

LEMMA MatchSound ==
  ASSUME IInv, NEW r \in Requests, Match(r)
  PROVE  IInv'
  <1>1. LinkedTo(job[r].link) \in SUBSET Items /\ overlaps' \subseteq {"links", "edit", "removal"}
    BY DEF LinkedTo, Match, IInv, IntegrationsTypeOK
  <1>2. QED
    BY <1>1, LinksOn DEF Match

LEMMA UnlinkSound ==
  ASSUME IInv, NEW r \in Requests, Unlink(r)
  PROVE  IInv'
  <1>1. Unlinked(r) \in SUBSET Items /\ overlaps' \subseteq {"links", "edit", "removal"}
    BY DEF Unlinked, LinkedTo, Unlink, IInv, IntegrationsTypeOK
  <1>2. QED
    BY <1>1, LinksOn DEF Unlink

LEMMA LinkAddedSound ==
  ASSUME IInv, NEW r \in Requests, LinkAdded(r)
  PROVE  IInv'
  <1>1. job[r] \in Job /\ job[r].gone \in SUBSET Items
    BY DEF IInv, IntegrationsTypeOK, Job
  <1>2. [job[r] EXCEPT !.stage = "link"] = [job[r] EXCEPT !.stage = "link", !.gone = job[r].gone]
    BY <1>1 DEF Job
  <1>3. QED
    BY <1>1, <1>2, LinksOn DEF LinkAdded, IInv, IntegrationsTypeOK

\* The items change, and with them nothing but what one request is about to do.
LEMMA ItemsChange ==
  ASSUME IInv, NEW r \in Requests, UNCHANGED <<rows, used, removed>>,
         job' = job \/ Ends(r),
         items' \in [Items -> Item],
         overlaps' \subseteq {"links", "edit", "removal"}, made' \in 0..MaxRequests
  PROVE  IInv'
  <1>1. job' \in [Requests -> Job] /\ \A q \in Requests : Sound(q)'
    <2>1. CASE job' = job
      BY <2>1 DEF Sound, IInv, IntegrationsTypeOK
    <2>2. CASE Ends(r)
      BY <2>2, IdleTyped, StaysSound DEF Ends
    <2>3. QED
      BY <2>1, <2>2
  <1>2. IntegrationsTypeOK'
    BY <1>1 DEF IInv, IntegrationsTypeOK, Stored
  <1>3. \A id \in Stored' : Paired(rows[id])'
    BY DEF IInv, Stored, Paired, To
  <1>4. QED
    BY <1>1, <1>2, <1>3 DEF IInv

LEMMA LinkCommitSound ==
  ASSUME IInv, NEW r \in Requests, LinkCommit(r)
  PROVE  IInv'
  <1>1. job[r].link \in Link
    BY DEF IInv, Sound, LinkCommit
  <1>2. items' \in [Items -> Item]
    BY <1>1 DEF LinkCommit, IInv, IntegrationsTypeOK, Item
  <1>3. QED
    BY <1>2, ItemsChange DEF LinkCommit, IInv, IntegrationsTypeOK

LEMMA CreateItemSound ==
  ASSUME IInv, NEW r \in Requests, NEW i \in Items, CreateItem(r, i) \/ DeleteItem(r, i)
  PROVE  IInv'
  <1>1. PICK kept \in BOOLEAN : items' = [items EXCEPT ![i] = [kept |-> kept, link |-> None]]
    BY DEF CreateItem, DeleteItem
  <1>2. items' \in [Items -> Item] /\ Begins(r)
    BY <1>1 DEF CreateItem, DeleteItem, OnItem, IInv, IntegrationsTypeOK, Item
  <1>3. QED
    BY <1>2, Counted, ItemsChange DEF CreateItem, DeleteItem

LEMMA SaveItemSound ==
  ASSUME IInv, NEW r \in Requests, SaveItem(r)
  PROVE  IInv'
  <1>1. job[r] \in Job /\ job[r].link \in Link \cup {None}
    BY DEF IInv, IntegrationsTypeOK, Job
  <1>2. items' \in [Items -> Item]
    BY <1>1 DEF SaveItem, IInv, IntegrationsTypeOK, Item
  <1>3. overlaps' \subseteq {"links", "edit", "removal"}
    BY DEF SaveItem, IInv, IntegrationsTypeOK
  <1>4. QED
    BY <1>2, <1>3, ItemsChange DEF SaveItem, IInv, IntegrationsTypeOK

LEMMA EditItemSound ==
  ASSUME IInv, NEW r \in Requests, NEW i \in Items, EditItem(r, i)
  PROVE  IInv'
  <1> DEFINE next == [Idle EXCEPT !.stage = "item", !.item = i, !.link = items[i].link]
  <1>1. items[i].link \in Link \cup {None}
    BY DEF IInv, IntegrationsTypeOK, Item
  <1>2. next \in Job /\ next.row = NoRow /\ next.stage = "item" /\ next.item = i
    BY <1>1, IdleTyped DEF Job, Stages
  <1>3. Goes(r, next) /\ UNCHANGED <<rows, used, removed, items, overlaps>> /\ Begins(r)
    BY DEF EditItem, OnItem
  <1> HIDE DEF next
  <1>4. QED
    BY <1>2, <1>3, IdleTyped, Counted, OnlyGoes

LEMMA CreateItemFromHostSound ==
  ASSUME IInv, NEW r \in Requests, NEW id \in Ids, NEW host \in Hosts, NEW i \in Items,
         CreateItemFromHost(r, id, host, i)
  PROVE  IInv'
  <1> DEFINE next == [Idle EXCEPT !.stage = "added", !.link = <<id, host>>, !.item = i]
  <1>1. next \in Job /\ next.row = NoRow /\ next.stage = "added" /\ next.link \in Link
    BY IdleTyped DEF Job, Stages, Link
  <1>2. Goes(r, next) /\ UNCHANGED <<rows, used, removed, overlaps>> /\ Begins(r)
    BY DEF CreateItemFromHost, OnRow
  <1>3. items' \in [Items -> Item]
    BY DEF CreateItemFromHost, IInv, IntegrationsTypeOK, Item
  <1> HIDE DEF next
  <1>4. job' \in [Requests -> Job] /\ \A q \in Requests : Sound(q)'
    BY <1>1, <1>2, IdleTyped, StaysSound
  <1>5. IntegrationsTypeOK'
    BY <1>2, <1>3, <1>4, Counted DEF IInv, IntegrationsTypeOK, Stored
  <1>6. \A other \in Stored' : Paired(rows[other])'
    BY <1>2 DEF IInv, Stored, Paired, To
  <1>7. QED
    BY <1>4, <1>5, <1>6 DEF IInv

-----------------------------------------------------------------------------
(* The invariant holds.                                                     *)

LEMMA InitSound == Init => IInv
  <1> SUFFICES ASSUME Init PROVE IInv
    OBVIOUS
  <1>1. Stored = {} /\ rows \in [Ids -> Row \cup {None}]
    BY DEF Init, Stored
  <1>2. IntegrationsTypeOK
    BY <1>1, IdleTyped, IntegrationsAssumption DEF Init, IntegrationsTypeOK, Item
  <1>3. \A r \in Requests : Sound(r)
    BY IdleTyped DEF Init, Sound
  <1>4. QED
    BY <1>1, <1>2, <1>3 DEF IInv

LEMMA StepSound == IInv /\ [Next]_vars => IInv'
  <1> SUFFICES ASSUME IInv, [Next]_vars PROVE IInv'
    OBVIOUS
  <1>1. CASE UNCHANGED vars
    BY <1>1 DEF vars, IInv, IntegrationsTypeOK, Stored, Sound, Paired, To
  <1>2. CASE Next
    <2>1. PICK r \in Requests :
        \/ \E id \in Ids :
              \/ \E in \in Inputs : Create(r, id, in) \/ Update(r, id, in) \/ Test(r, id, in)
              \/ Sync(r, id) \/ Delete(r, id)
              \/ \E host \in Hosts, item \in Items \cup {None} : LinkItem(r, id, host, item)
              \/ \E host \in Hosts, i \in Items : CreateItemFromHost(r, id, host, i)
        \/ SaveRow(r) \/ SaveFails(r) \/ Call(r) \/ CallRefused(r) \/ Tested(r)
        \/ \E failed \in BOOLEAN : Answer(r, failed)
        \/ LinkAdded(r) \/ Match(r) \/ Unlink(r) \/ LinkCommit(r) \/ LinkFails(r)
        \/ \E i \in Items : CreateItem(r, i) \/ EditItem(r, i) \/ DeleteItem(r, i)
        \/ SaveItem(r)
      BY <1>2 DEF Next
    <2>2. ASSUME NEW id \in Ids, NEW in \in Inputs, Create(r, id, in) \/ Update(r, id, in) \/ Test(r, id, in)
          PROVE  IInv'
      BY <2>2, CreateSound, UpdateSound, TestSound
    <2>3. ASSUME NEW id \in Ids, Sync(r, id) \/ Delete(r, id)
          PROVE  IInv'
      BY <2>3, SyncSound, DeleteSound
    <2>4. ASSUME NEW id \in Ids, NEW host \in Hosts, NEW item \in Items \cup {None}, LinkItem(r, id, host, item)
          PROVE  IInv'
      BY <2>4, LinkItemSound
    <2>5. ASSUME NEW id \in Ids, NEW host \in Hosts, NEW i \in Items, CreateItemFromHost(r, id, host, i)
          PROVE  IInv'
      BY <2>5, CreateItemFromHostSound
    <2>6. CASE SaveRow(r) \/ Call(r)
      BY <2>6, SaveRowSound, CallSound
    <2>7. CASE SaveFails(r) \/ CallRefused(r) \/ Tested(r) \/ LinkFails(r)
      <3>1. Ends(r) /\ UNCHANGED <<rows, used, removed, items, overlaps, made>>
        BY <2>7 DEF SaveFails, CallRefused, Tested, LinkFails
      <3>2. QED
        BY <3>1, Ended DEF IInv, IntegrationsTypeOK
    <2>8. ASSUME NEW failed \in BOOLEAN, Answer(r, failed) PROVE IInv'
      BY <2>8, AnswerSound
    <2>9. CASE LinkAdded(r) \/ Match(r) \/ Unlink(r) \/ LinkCommit(r)
      BY <2>9, LinkAddedSound, MatchSound, UnlinkSound, LinkCommitSound
    <2>10. ASSUME NEW i \in Items, CreateItem(r, i) \/ EditItem(r, i) \/ DeleteItem(r, i)
           PROVE  IInv'
      BY <2>10, CreateItemSound, EditItemSound
    <2>11. CASE SaveItem(r)
      BY <2>11, SaveItemSound
    <2>12. QED
      BY <2>1, <2>2, <2>3, <2>4, <2>5, <2>6, <2>7, <2>8, <2>9, <2>10, <2>11
  <1>3. QED
    BY <1>1, <1>2

\* Type correctness: every request, row and item is well formed, for any number of them.
THEOREM IntegrationsTypeCorrect == IntegrationsSpec => []IntegrationsTypeOK
  <1>1. IInv => IntegrationsTypeOK
    BY DEF IInv
  <1>2. QED
    BY <1>1, InitSound, StepSound, PTL DEF IntegrationsSpec

\* A stored secret and a trusted certificate are those of the address and token beside
\* them, and so are those a call goes out with, whatever requests overlap: apply drops
\* the secret of another destination, and every row is read and written as a whole.
THEOREM SecretsStayHome == IntegrationsSpec => []SecretsGoWhereTheyWereEntered
  <1>1. IInv => SecretsGoWhereTheyWereEntered
    BY DEF IInv, Sound, Paired, SecretsGoWhereTheyWereEntered
  <1>2. QED
    BY <1>1, InitSound, StepSound, PTL DEF IntegrationsSpec

-----------------------------------------------------------------------------
(* Links of one host.                                                       *)

\* No item gets a link, and no request gets between the statements of a link.
Fewer == \A i \in Items :
  items'[i].link # None => items'[i].link = items[i].link /\ (items'[i].kept => items[i].kept)

LEMMA FewerLinks ==
  ASSUME IInv, IInv', NEW r \in Requests, Fewer,
         HostsHaveOneItem, \A q \in Requests : Covers(q) /\ Alone(q),
         job'[r].stage \notin {"matched", "unlinked"},
         \A other \in Requests \ {r} : job'[other] = job[other]
  PROVE  HostsHaveOneItem' /\ \A q \in Requests : Covers(q)' /\ Alone(q)'
  <1>1. ASSUME NEW i \in Items, items'[i].kept, items'[i].link # None
        PROVE  items[i].kept /\ items'[i].link = items[i].link
    BY <1>1 DEF Fewer
  <1>2. HostsHaveOneItem'
    BY <1>1 DEF HostsHaveOneItem
  <1>3. ASSUME NEW q \in Requests PROVE Covers(q)' /\ Alone(q)'
    <2>1. CASE q = r
      BY <2>1 DEF Covers, Alone
    <2>2. CASE q # r
      <3>1. job'[q] = job[q] /\ Covers(q) /\ Alone(q)
        BY <2>2
      <3>2. ASSUME job[q].stage \in {"matched", "unlinked"}
            PROVE  LinkedTo(job[q].link)' \subseteq job[q].gone
        <4>1. job[q].link \in Link /\ job[q].link # None
          BY <3>2, IntegrationsAssumption DEF IInv, Sound, Link
        <4>2. LinkedTo(job[q].link)' \subseteq LinkedTo(job[q].link)
          BY <1>1, <3>1, <4>1 DEF LinkedTo
        <4>3. QED
          BY <3>1, <3>2, <4>2 DEF Covers
      <3>3. Covers(q)'
        BY <3>1, <3>2 DEF Covers, LinkedTo
      <3>4. Alone(q)'
        BY <3>1 DEF Alone, Linking
      <3>5. QED
        BY <3>3, <3>4
    <2>3. QED
      BY <2>1, <2>2
  <1>4. QED
    BY <1>2, <1>3

LEMMA MatchLinks ==
  ASSUME IInv, NEW r \in Requests, Match(r), "links" \notin overlaps',
         HostsHaveOneItem, \A q \in Requests : Covers(q) /\ Alone(q)
  PROVE  HostsHaveOneItem' /\ \A q \in Requests : Covers(q)' /\ Alone(q)'
  <1>1. items' = items /\ \A other \in Requests \ {r} : ~Linking(other, job[r].link)
    BY DEF Match
  <1>2. /\ job'[r].stage = "matched" /\ job'[r].link = job[r].link
        /\ job'[r].gone = LinkedTo(job[r].link)
        /\ \A other \in Requests \ {r} : job'[other] = job[other]
    BY DEF Match, Goes, IInv, IntegrationsTypeOK, Job
  <1>3. HostsHaveOneItem'
    BY <1>1 DEF HostsHaveOneItem
  <1>4. ASSUME NEW q \in Requests PROVE Covers(q)'
    BY <1>1, <1>2 DEF Covers, LinkedTo
  <1>5. ASSUME NEW q \in Requests PROVE Alone(q)'
    BY <1>1, <1>2 DEF Alone, Linking
  <1>6. QED
    BY <1>3, <1>4, <1>5

LEMMA UnlinkLinks ==
  ASSUME IInv, NEW r \in Requests, Unlink(r),
         HostsHaveOneItem, \A q \in Requests : Covers(q) /\ Alone(q)
  PROVE  HostsHaveOneItem' /\ \A q \in Requests : Covers(q)' /\ Alone(q)'
  <1>1. items' = items /\ job[r].stage = "matched"
    BY DEF Unlink
  <1>2. /\ job'[r].stage = "unlinked" /\ job'[r].link = job[r].link /\ job'[r].gone = Unlinked(r)
        /\ \A other \in Requests \ {r} : job'[other] = job[other]
    BY DEF Unlink, Goes, IInv, IntegrationsTypeOK, Job
  <1>3. LinkedTo(job[r].link) \subseteq Unlinked(r)
    BY <1>1 DEF Covers, Unlinked
  <1>4. HostsHaveOneItem'
    BY <1>1 DEF HostsHaveOneItem
  <1>5. ASSUME NEW q \in Requests PROVE Covers(q)'
    BY <1>1, <1>2, <1>3 DEF Covers, LinkedTo
  <1>6. ASSUME NEW q \in Requests PROVE Alone(q)'
    BY <1>1, <1>2 DEF Alone, Linking
  <1>7. QED
    BY <1>4, <1>5, <1>6

\* What a commit leaves linked to a host: its own item, if it is its host, or what was.
LEMMA CommitLinks ==
  ASSUME IInv, IInv', NEW r \in Requests, LinkCommit(r),
         HostsHaveOneItem, \A q \in Requests : Covers(q) /\ Alone(q)
  PROVE  HostsHaveOneItem' /\ \A q \in Requests : Covers(q)' /\ Alone(q)'
  <1>1. /\ job[r].stage = "unlinked" /\ job[r].link \in Link /\ job[r].link # None
        /\ LinkedTo(job[r].link) \subseteq job[r].gone
    BY IntegrationsAssumption DEF LinkCommit, IInv, Sound, Covers, Link
  <1>2. /\ job'[r].stage = "idle"
        /\ \A other \in Requests \ {r} : job'[other] = job[other]
    BY IdleTyped DEF LinkCommit, Ends, Goes, IInv, IntegrationsTypeOK
  <1>3. ASSUME NEW i \in Items
        PROVE  /\ items'[i].kept = items[i].kept
               /\ i = job[r].item => items'[i].link = job[r].link
               /\ i # job[r].item /\ i \in job[r].gone => items'[i].link = None
               /\ i # job[r].item /\ i \notin job[r].gone => items'[i].link = items[i].link
    BY DEF LinkCommit, IInv, IntegrationsTypeOK, Item
  <1>4. ASSUME NEW i \in Items, items'[i].kept, items'[i].link # None
        PROVE  /\ items[i].kept
               /\ items'[i].link = job[r].link => i = job[r].item
               /\ items'[i].link # job[r].link => items'[i].link = items[i].link
    BY <1>1, <1>3, <1>4 DEF LinkedTo
  <1>5. HostsHaveOneItem'
    <2>1. SUFFICES ASSUME NEW i \in Items, NEW j \in Items, items'[i].kept, items'[j].kept,
                          items'[i].link # None, items'[i].link = items'[j].link
                   PROVE  i = j
      BY DEF HostsHaveOneItem
    <2>2. QED
      BY <1>4, <2>1 DEF HostsHaveOneItem
  <1>6. ASSUME NEW q \in Requests PROVE Covers(q)' /\ Alone(q)'
    <2>1. CASE q = r
      BY <1>2, <2>1 DEF Covers, Alone
    <2>2. CASE q # r
      <3>1. job'[q] = job[q] /\ Alone(q)' /\ Covers(q)
        BY <1>2, <2>2 DEF Alone, Linking
      <3>2. ASSUME job[q].stage \in {"matched", "unlinked"}, NEW i \in Items,
                   items'[i].kept, items'[i].link = job[q].link
            PROVE  i \in job[q].gone
        <4>1. job[q].link # job[r].link
          BY <1>1, <2>2, <3>2 DEF Alone, Linking
        <4>2. job[q].link # None
          BY <3>2, IntegrationsAssumption DEF IInv, Sound, Link
        <4>3. items[i].kept /\ items[i].link = job[q].link
          BY <1>4, <3>2, <4>1, <4>2
        <4>4. QED
          BY <3>1, <3>2, <4>3 DEF Covers, LinkedTo
      <3>3. Covers(q)'
        BY <3>1, <3>2 DEF Covers, LinkedTo
      <3>4. QED
        BY <3>1, <3>3
    <2>3. QED
      BY <2>1, <2>2
  <1>7. QED
    BY <1>5, <1>6

\* A save is followed by a reading, or by nothing.
LEMMA SavedGoes ==
  ASSUME NEW r \in Requests, SaveRow(r)
  PROVE  \E next : next.stage \in {"idle", "read"} /\ Goes(r, next)
  <1> DEFINE reads == [Idle EXCEPT !.stage = "read", !.id = job[r].id]
  <1>1. reads.stage = "read" /\ Idle.stage = "idle"
    BY DEF Idle
  <1>2. Goes(r, reads) \/ Goes(r, Idle)
    BY DEF SaveRow, Ends
  <1> HIDE DEF reads
  <1>3. QED
    BY <1>1, <1>2

\* The steps by what they do to links: a begin or an end of a request, a change of
\* items, a statement of a link.
LEMMA StepsOfLinks ==
  ASSUME IInv, NEW r \in Requests, "edit" \notin overlaps',
         \/ \E id \in Ids :
              \/ \E in \in Inputs : Create(r, id, in) \/ Update(r, id, in) \/ Test(r, id, in)
              \/ Sync(r, id) \/ Delete(r, id)
              \/ \E host \in Hosts, item \in Items \cup {None} : LinkItem(r, id, host, item)
              \/ \E host \in Hosts, i \in Items : CreateItemFromHost(r, id, host, i)
         \/ SaveRow(r) \/ SaveFails(r) \/ Call(r) \/ CallRefused(r) \/ Tested(r)
         \/ \E failed \in BOOLEAN : Answer(r, failed)
         \/ LinkAdded(r) \/ LinkFails(r)
         \/ \E i \in Items : CreateItem(r, i) \/ EditItem(r, i) \/ DeleteItem(r, i)
         \/ SaveItem(r)
  PROVE  /\ Fewer
         /\ job'[r].stage \notin {"matched", "unlinked"}
         /\ \A other \in Requests \ {r} : job'[other] = job[other]
         /\ overlaps \subseteq overlaps'
  <1>1. job[r] \in Job /\ job \in [Requests -> Job] /\ items \in [Items -> Item]
    BY DEF IInv, IntegrationsTypeOK
  <1>2. ASSUME NEW id \in Ids, NEW in \in Inputs, Create(r, id, in) \/ Update(r, id, in) \/ Test(r, id, in)
        PROVE  UNCHANGED <<items, overlaps>> /\ job'[r].stage \in {"save", "test"}
               /\ \A other \in Requests \ {r} : job'[other] = job[other]
    BY <1>1, <1>2 DEF Create, Update, Test, Goes, Idle
  <1>3. ASSUME NEW id \in Ids, Sync(r, id)
        PROVE  UNCHANGED <<items, overlaps>> /\ job'[r].stage = "read"
               /\ \A other \in Requests \ {r} : job'[other] = job[other]
    BY <1>1, <1>3 DEF Sync, Goes, Idle
  <1>4. ASSUME NEW id \in Ids, NEW host \in Hosts, NEW item \in Items \cup {None}, LinkItem(r, id, host, item)
        PROVE  UNCHANGED <<items, overlaps>> /\ job'[r].stage = "link"
               /\ \A other \in Requests \ {r} : job'[other] = job[other]
    BY <1>1, <1>4 DEF LinkItem, Goes, Idle
  <1>5. CASE \/ SaveRow(r) \/ SaveFails(r) \/ Call(r) \/ CallRefused(r) \/ Tested(r)
             \/ (\E failed \in BOOLEAN : Answer(r, failed)) \/ LinkAdded(r) \/ LinkFails(r)
    <2>1. UNCHANGED <<items, overlaps>>
      BY <1>5 DEF SaveRow, SaveFails, Call, CallRefused, Tested, Answer, LinkAdded, LinkFails
    <2>2. job'[r].stage \in {"idle", "read", "call", "link"}
          /\ \A other \in Requests \ {r} : job'[other] = job[other]
      <3>1. CASE SaveRow(r)
        BY <1>1, <3>1, SavedGoes DEF Goes
      <3>2. CASE Call(r) \/ LinkAdded(r)
        BY <1>1, <3>2 DEF Call, LinkAdded, Goes, Job
      <3>3. CASE Ends(r)
        BY <1>1, <3>3, IdleTyped DEF Goes, Ends
      <3>4. QED
        BY <1>5, <3>1, <3>2, <3>3 DEF SaveFails, CallRefused, Tested, Answer, LinkFails
    <2>3. QED
      BY <2>1, <2>2 DEF Fewer
  <1>6. ASSUME NEW id \in Ids, Delete(r, id)
        PROVE  Fewer /\ job' = job /\ job[r].stage = "idle" /\ overlaps \subseteq overlaps'
    BY <1>1, <1>6, IdleTyped DEF Delete, OnRow, Begins, Fewer, Item
  <1>7. ASSUME NEW i \in Items, CreateItem(r, i) \/ DeleteItem(r, i)
        PROVE  Fewer /\ job' = job /\ job[r].stage = "idle" /\ overlaps' = overlaps
    <2>1. job' = job /\ job[r].stage = "idle" /\ overlaps' = overlaps
      BY <1>7, IdleTyped DEF CreateItem, DeleteItem, OnItem, Begins
    <2>2. PICK kept \in BOOLEAN : items' = [items EXCEPT ![i] = [kept |-> kept, link |-> None]]
      BY <1>7 DEF CreateItem, DeleteItem
    <2>3. Fewer
      BY <1>1, <2>2 DEF Fewer
    <2>4. QED
      BY <2>1, <2>3
  <1>8. ASSUME NEW i \in Items, EditItem(r, i)
        PROVE  UNCHANGED <<items, overlaps>> /\ job'[r].stage = "item"
               /\ \A other \in Requests \ {r} : job'[other] = job[other]
    BY <1>1, <1>8 DEF EditItem, Goes, Idle
  <1>9. ASSUME NEW id \in Ids, NEW host \in Hosts, NEW i \in Items, CreateItemFromHost(r, id, host, i)
        PROVE  Fewer /\ job'[r].stage = "added" /\ overlaps' = overlaps
               /\ \A other \in Requests \ {r} : job'[other] = job[other]
    <2>1. items' = [items EXCEPT ![i] = [kept |-> TRUE, link |-> None]]
      BY <1>9 DEF CreateItemFromHost
    <2>2. Fewer
      BY <1>1, <2>1 DEF Fewer
    <2>3. QED
      BY <1>1, <1>9, <2>2 DEF CreateItemFromHost, Goes, Idle
  <1>10. CASE SaveItem(r)
    <2>1. job[r].item \in Items /\ items[job[r].item] = [kept |-> TRUE, link |-> job[r].link]
      BY <1>10 DEF SaveItem, IInv, Sound
    <2>2. items' = items
      BY <1>1, <1>10, <2>1 DEF SaveItem
    <2>3. job'[r].stage = "idle" /\ overlaps \subseteq overlaps'
          /\ \A other \in Requests \ {r} : job'[other] = job[other]
      BY <1>1, <1>10, IdleTyped DEF SaveItem, Ends, Goes
    <2>4. QED
      BY <2>2, <2>3 DEF Fewer
  <1>11. ASSUME UNCHANGED items PROVE Fewer
    BY <1>11 DEF Fewer
  <1>12. QED
    BY <1>2, <1>3, <1>4, <1>5, <1>6, <1>7, <1>8, <1>9, <1>10, <1>11

LEMMA LinksStep == IInv /\ IInv' /\ LinksInv /\ [Next]_vars => LinksInv'
  <1> SUFFICES ASSUME IInv, IInv', LinksInv, [Next]_vars, overlaps' \cap {"links", "edit"} = {}
               PROVE  HostsHaveOneItem' /\ \A q \in Requests : Covers(q)' /\ Alone(q)'
    BY DEF LinksInv
  <1>1. CASE UNCHANGED vars
    BY <1>1 DEF vars, LinksInv, HostsHaveOneItem, Covers, Alone, Linking, LinkedTo
  <1>2. CASE Next
    <2>1. PICK r \in Requests :
        \/ \/ \E id \in Ids :
                 \/ \E in \in Inputs : Create(r, id, in) \/ Update(r, id, in) \/ Test(r, id, in)
                 \/ Sync(r, id) \/ Delete(r, id)
                 \/ \E host \in Hosts, item \in Items \cup {None} : LinkItem(r, id, host, item)
                 \/ \E host \in Hosts, i \in Items : CreateItemFromHost(r, id, host, i)
           \/ SaveRow(r) \/ SaveFails(r) \/ Call(r) \/ CallRefused(r) \/ Tested(r)
           \/ \E failed \in BOOLEAN : Answer(r, failed)
           \/ LinkAdded(r) \/ LinkFails(r)
           \/ \E i \in Items : CreateItem(r, i) \/ EditItem(r, i) \/ DeleteItem(r, i)
           \/ SaveItem(r)
        \/ Match(r) \/ Unlink(r) \/ LinkCommit(r)
      BY <1>2 DEF Next
    <2>2. CASE Match(r) \/ Unlink(r) \/ LinkCommit(r)
      <3>1. overlaps \subseteq overlaps'
        BY <2>2 DEF Match, Unlink, LinkCommit
      <3>2. HostsHaveOneItem /\ \A q \in Requests : Covers(q) /\ Alone(q)
        BY <3>1 DEF LinksInv
      <3>3. QED
        BY <2>2, <3>2, MatchLinks, UnlinkLinks, CommitLinks
    <2>3. CASE ~(Match(r) \/ Unlink(r) \/ LinkCommit(r))
      <3>1. /\ Fewer
            /\ job'[r].stage \notin {"matched", "unlinked"}
            /\ \A other \in Requests \ {r} : job'[other] = job[other]
            /\ overlaps \subseteq overlaps'
        BY <2>1, <2>3, StepsOfLinks
      <3>2. HostsHaveOneItem /\ \A q \in Requests : Covers(q) /\ Alone(q)
        BY <3>1 DEF LinksInv
      <3>3. QED
        BY <3>1, <3>2, FewerLinks
    <2>4. QED
      BY <2>2, <2>3
  <1>3. QED
    BY <1>1, <1>2

-----------------------------------------------------------------------------
(* Removals, and where links lead.                                          *)

\* What a step on an integration that is not removed does to the others' requests.
LEMMA CurrentStays ==
  ASSUME IInv, NEW r \in Requests, NEW next, next.stage \in Stages, Goes(r, next),
         removed' = removed, Stored \subseteq Stored', Stored' \cap removed = {},
         \A q \in Requests : Current(q),
         next.stage = "save" => next.id \notin removed,
         next.stage \in {"link", "matched", "unlinked"} => next.link[1] \in Stored
  PROVE  RemovedStayAway' /\ \A q \in Requests : Current(q)'
  <1>1. job'[r] = next /\ \A other \in Requests \ {r} : job'[other] = job[other]
    BY DEF Goes, IInv, IntegrationsTypeOK
  <1>2. Current(r)'
    BY <1>1 DEF Current
  <1>3. ASSUME NEW q \in Requests \ {r} PROVE Current(q)'
    BY <1>1 DEF Current
  <1>4. QED
    BY <1>2, <1>3 DEF RemovedStayAway

LEMMA OverlapsGrow == [Next]_vars => overlaps \subseteq overlaps'
  <1>1. CASE UNCHANGED vars
    BY <1>1 DEF vars
  <1>2. ASSUME NEW r \in Requests,
               \/ Match(r) \/ SaveItem(r) \/ (\E id \in Ids : Delete(r, id))
               \/ UNCHANGED overlaps
        PROVE  overlaps \subseteq overlaps'
    BY <1>2 DEF Match, SaveItem, Delete
  <1>3. ASSUME NEW r \in Requests, NEW id \in Ids, NEW in, NEW host, NEW i,
               \/ Create(r, id, in) \/ Update(r, id, in) \/ Test(r, id, in) \/ Sync(r, id)
               \/ LinkItem(r, id, host, i) \/ CreateItemFromHost(r, id, host, i)
        PROVE  UNCHANGED overlaps
    BY <1>3 DEF Create, Update, Test, Sync, LinkItem, CreateItemFromHost
  <1>4. ASSUME NEW r \in Requests, NEW failed,
               \/ SaveRow(r) \/ SaveFails(r) \/ Call(r) \/ CallRefused(r) \/ Tested(r)
               \/ Answer(r, failed) \/ LinkAdded(r) \/ Unlink(r) \/ LinkCommit(r) \/ LinkFails(r)
        PROVE  UNCHANGED overlaps
    BY <1>4 DEF SaveRow, SaveFails, Call, CallRefused, Tested, Answer, LinkAdded, Unlink, LinkCommit, LinkFails
  <1>5. ASSUME NEW r \in Requests, NEW i, CreateItem(r, i) \/ EditItem(r, i) \/ DeleteItem(r, i)
        PROVE  UNCHANGED overlaps
    BY <1>5 DEF CreateItem, EditItem, DeleteItem
  <1>6. QED
    BY <1>1, <1>2, <1>3, <1>4, <1>5 DEF Next

\* An answer changes columns of a row and leaves the row.
LEMMA AnswerKeeps ==
  ASSUME IInv, NEW r \in Requests, NEW failed \in BOOLEAN, Answer(r, failed), job[r].id \in Stored
  PROVE  rows'[job[r].id] # None
  <1>1. rows[job[r].id] \in Row /\ rows \in [Ids -> Row \cup {None}] /\ job[r].id \in Ids
    BY DEF IInv, IntegrationsTypeOK, Stored
  <1>2. job[r].stage = "call" /\ job[r].row \in Row /\ Sound(r)
    BY DEF Answer, IInv, IntegrationsTypeOK, Job
  <1>3. To(job[r].row) \in Destinations
    BY <1>2 DEF Sound, Paired, Row
  <1>4. [rows[job[r].id] EXCEPT !.failed = failed,
           !.reading = IF failed THEN rows[job[r].id].reading ELSE To(job[r].row)] \in Row
    BY <1>1, <1>3 DEF Row, Sources
  <1>5. QED
    BY <1>1, <1>4, IntegrationsAssumption DEF Answer

\* Nothing is stored or removed, and the request does not go on to save a row.
LEMMA OtherSteps ==
  ASSUME IInv, NEW r \in Requests, \A q \in Requests : Current(q),
         \/ \E id \in Ids :
              \/ \E in \in Inputs : Test(r, id, in)
              \/ Sync(r, id)
              \/ \E host \in Hosts, item \in Items \cup {None} : LinkItem(r, id, host, item)
              \/ \E host \in Hosts, i \in Items : CreateItemFromHost(r, id, host, i)
         \/ SaveFails(r) \/ Call(r) \/ CallRefused(r) \/ Tested(r)
         \/ \E failed \in BOOLEAN : Answer(r, failed)
         \/ LinkAdded(r) \/ Match(r) \/ Unlink(r) \/ LinkCommit(r) \/ LinkFails(r)
         \/ \E i \in Items : CreateItem(r, i) \/ EditItem(r, i) \/ DeleteItem(r, i)
         \/ SaveItem(r)
  PROVE  /\ removed' = removed /\ Stored' = Stored
         /\ \E next : /\ Goes(r, next) /\ next.stage \in Stages \ {"save"}
                      /\ next.stage \in {"link", "matched", "unlinked"} => next.link[1] \in Stored
  <1> DEFINE Next1(next) == /\ Goes(r, next) /\ next.stage \in Stages \ {"save"}
                            /\ next.stage \in {"link", "matched", "unlinked"} => next.link[1] \in Stored
  <1> SUFFICES removed' = removed /\ Stored' = Stored /\ \E next : Next1(next)
    OBVIOUS
  <1>0. /\ job \in [Requests -> Job] /\ rows \in [Ids -> Row \cup {None}]
        /\ Idle.stage = "idle" /\ Current(r) /\ job[r] \in Job
    BY DEF IInv, IntegrationsTypeOK, Idle
  <1>1. UNCHANGED rows => Stored' = Stored
    BY DEF Stored
  <1>2. ASSUME Ends(r) PROVE Next1(Idle)
    BY <1>0, <1>2 DEF Ends, Stages
  <1>3. ASSUME job' = job, job[r] = Idle PROVE Next1(Idle)
    <2>1. job' = [job EXCEPT ![r] = Idle]
      BY <1>0, <1>3
    <2>2. QED
      BY <1>0, <2>1 DEF Goes, Stages
  <1>4. ASSUME NEW id \in Ids, (\E in \in Inputs : Test(r, id, in)) \/ Sync(r, id)
        PROVE  removed' = removed /\ Stored' = Stored /\ \E next : Next1(next)
    <2>1. UNCHANGED <<rows, removed>>
      BY <1>4 DEF Test, Sync
    <2>2. PICK next : next.stage \in {"test", "read"} /\ Goes(r, next)
      <3>1. ASSUME NEW in \in Inputs, Test(r, id, in)
            PROVE  \E next : next.stage \in {"test", "read"} /\ Goes(r, next)
        <4> DEFINE tries == [Idle EXCEPT !.stage = "test", !.id = id,
                               !.row = [rows[id] EXCEPT !.address = in.address, !.token = in.token,
                                          !.pin = IF in.pin = "presented" THEN in.address ELSE None]]
        <4>1. tries.stage = "test" /\ Goes(r, tries)
          BY <3>1 DEF Test, Idle
        <4> HIDE DEF tries
        <4>2. QED
          BY <4>1
      <3>2. CASE Sync(r, id)
        <4> DEFINE reads == [Idle EXCEPT !.stage = "read", !.id = id]
        <4>1. reads.stage = "read" /\ Goes(r, reads)
          BY <3>2 DEF Sync, Idle
        <4> HIDE DEF reads
        <4>2. QED
          BY <4>1
      <3>3. QED
        BY <1>4, <3>1, <3>2
    <2>3. Next1(next)
      BY <2>2 DEF Stages
    <2>4. QED
      BY <1>1, <2>1, <2>3
  <1>5. ASSUME NEW id \in Ids, NEW host \in Hosts, NEW item, LinkItem(r, id, host, item)
        PROVE  removed' = removed /\ Stored' = Stored /\ \E next : Next1(next)
    <2> DEFINE next == [Idle EXCEPT !.stage = "link", !.link = <<id, host>>, !.item = item]
    <2>1. UNCHANGED <<rows, removed>> /\ id \in Stored /\ Goes(r, next)
      BY <1>5 DEF LinkItem, OnRow
    <2>2. next.stage = "link" /\ next.link[1] = id
      BY DEF Idle
    <2> HIDE DEF next
    <2>3. Next1(next)
      BY <2>1, <2>2 DEF Stages
    <2>4. QED
      BY <1>1, <2>1, <2>3
  <1>6. ASSUME NEW id \in Ids, NEW host \in Hosts, NEW i \in Items, CreateItemFromHost(r, id, host, i)
        PROVE  removed' = removed /\ Stored' = Stored /\ \E next : Next1(next)
    <2> DEFINE next == [Idle EXCEPT !.stage = "added", !.link = <<id, host>>, !.item = i]
    <2>1. UNCHANGED <<rows, removed>> /\ Goes(r, next)
      BY <1>6 DEF CreateItemFromHost
    <2>2. next.stage = "added"
      BY DEF Idle
    <2> HIDE DEF next
    <2>3. Next1(next)
      BY <2>1, <2>2 DEF Stages
    <2>4. QED
      BY <1>1, <2>1, <2>3
  <1>7. CASE SaveFails(r) \/ CallRefused(r) \/ Tested(r) \/ LinkCommit(r) \/ LinkFails(r) \/ SaveItem(r)
    <2>1. UNCHANGED <<rows, removed>> /\ Ends(r)
      BY <1>7 DEF SaveFails, CallRefused, Tested, LinkCommit, LinkFails, SaveItem
    <2>2. QED
      BY <1>1, <1>2, <2>1
  <1>8. CASE Call(r)
    <2> DEFINE next == [job[r] EXCEPT !.stage = "call", !.row = rows[job[r].id]]
    <2>1. UNCHANGED <<rows, removed>> /\ Goes(r, next)
      BY <1>8 DEF Call
    <2>2. next.stage = "call"
      BY <1>0 DEF Job
    <2> HIDE DEF next
    <2>3. Next1(next)
      BY <2>1, <2>2 DEF Stages
    <2>4. QED
      BY <1>1, <2>1, <2>3
  <1>9. ASSUME NEW failed \in BOOLEAN, Answer(r, failed)
        PROVE  removed' = removed /\ Stored' = Stored /\ \E next : Next1(next)
    <2>1. removed' = removed /\ Ends(r)
      BY <1>9 DEF Answer
    <2>2. Stored' = Stored
      <3>1. CASE job[r].id \notin Stored
        BY <1>9, <3>1 DEF Answer, Stored
      <3>2. CASE job[r].id \in Stored
        <4>1. \A id \in Ids : id # job[r].id => rows'[id] = rows[id]
          BY <1>0, <1>9, <3>2 DEF Answer
        <4>2. QED
          BY <1>9, <3>2, <4>1, AnswerKeeps DEF Stored
      <3>3. QED
        BY <3>1, <3>2
    <2>3. QED
      BY <1>2, <2>1, <2>2
  <1>10. CASE LinkAdded(r) \/ Match(r) \/ Unlink(r)
    <2>1. UNCHANGED <<rows, removed>> /\ job[r].stage \in {"added", "link", "matched"}
      BY <1>10 DEF LinkAdded, Match, Unlink
    <2>2. job[r].link[1] \in Stored
      BY <1>0, <1>10 DEF LinkAdded, Match, Unlink, Current
    <2>3. PICK next : Goes(r, next) /\ next.stage \in {"link", "matched", "unlinked"} /\ next.link = job[r].link
      <3>1. CASE LinkAdded(r)
        BY <1>0, <3>1 DEF LinkAdded, Job
      <3>2. CASE Match(r)
        <4> DEFINE next == [job[r] EXCEPT !.stage = "matched", !.gone = LinkedTo(job[r].link)]
        <4>1. Goes(r, next)
          BY <3>2 DEF Match
        <4>2. next.stage \in {"matched", "unlinked"} /\ next.link = job[r].link
          BY <1>0 DEF Job
        <4> HIDE DEF next
        <4>3. QED
          BY <4>1, <4>2
      <3>3. CASE Unlink(r)
        <4> DEFINE next == [job[r] EXCEPT !.stage = "unlinked", !.gone = Unlinked(r)]
        <4>1. Goes(r, next)
          BY <3>3 DEF Unlink
        <4>2. next.stage \in {"matched", "unlinked"} /\ next.link = job[r].link
          BY <1>0 DEF Job
        <4> HIDE DEF next
        <4>3. QED
          BY <4>1, <4>2
      <3>4. QED
        BY <1>10, <3>1, <3>2, <3>3
    <2>4. Next1(next)
      BY <2>2, <2>3 DEF Stages
    <2>5. QED
      BY <1>1, <2>1, <2>4
  <1>11. ASSUME NEW i \in Items, CreateItem(r, i) \/ DeleteItem(r, i)
         PROVE  removed' = removed /\ Stored' = Stored /\ \E next : Next1(next)
    <2>1. UNCHANGED <<rows, removed, job>> /\ job[r] = Idle
      BY <1>11 DEF CreateItem, DeleteItem, OnItem, Begins
    <2>2. QED
      BY <1>1, <1>3, <2>1
  <1>12. ASSUME NEW i \in Items, EditItem(r, i)
         PROVE  removed' = removed /\ Stored' = Stored /\ \E next : Next1(next)
    <2>1. UNCHANGED <<rows, removed>>
      BY <1>12 DEF EditItem
    <2>2. PICK next : next.stage = "item" /\ Goes(r, next)
      BY <1>12 DEF EditItem, Idle
    <2>3. Next1(next)
      BY <2>2 DEF Stages
    <2>4. QED
      BY <1>1, <2>1, <2>3
  <1> HIDE DEF Next1
  <1>13. CASE \E id \in Ids :
                \/ \E in \in Inputs : Test(r, id, in)
                \/ Sync(r, id)
                \/ \E host \in Hosts, item \in Items \cup {None} : LinkItem(r, id, host, item)
                \/ \E host \in Hosts, i \in Items : CreateItemFromHost(r, id, host, i)
    <2>1. PICK id \in Ids :
             \/ \E in \in Inputs : Test(r, id, in)
             \/ Sync(r, id)
             \/ \E host \in Hosts, item \in Items \cup {None} : LinkItem(r, id, host, item)
             \/ \E host \in Hosts, i \in Items : CreateItemFromHost(r, id, host, i)
      BY <1>13
    <2>2. QED
      BY <1>4, <1>5, <1>6, <2>1
  <1>14. CASE \E i \in Items : CreateItem(r, i) \/ EditItem(r, i) \/ DeleteItem(r, i)
    BY <1>11, <1>12, <1>14
  <1>15. QED
    BY <1>7, <1>8, <1>9, <1>10, <1>13, <1>14

LEMMA RemovalStep == IInv /\ IInv' /\ RemovalInv /\ [Next]_vars => RemovalInv'
  <1> SUFFICES ASSUME IInv, IInv', RemovalInv, [Next]_vars, "removal" \notin overlaps'
               PROVE  RemovedStayAway' /\ \A q \in Requests : Current(q)'
    BY DEF RemovalInv
  <1>0. job \in [Requests -> Job] /\ removed \subseteq used /\ rows \in [Ids -> Row \cup {None}]
    BY DEF IInv, IntegrationsTypeOK
  <1>1. CASE UNCHANGED vars
    BY <1>1 DEF vars, RemovalInv, RemovedStayAway, Current, Stored
  <1>2. CASE Next
    <2>0. overlaps \subseteq overlaps'
      BY OverlapsGrow
    <2>1. RemovedStayAway /\ \A q \in Requests : Current(q)
      BY <2>0 DEF RemovalInv
    <2>2. UNCHANGED rows => Stored' = Stored
      BY DEF Stored
    <2>3. Stored \cap removed = {}
      BY <2>1 DEF RemovedStayAway
    <2>4. ASSUME NEW r \in Requests, NEW id \in Ids, NEW in \in Inputs,
                 Create(r, id, in) \/ Update(r, id, in) \/ Test(r, id, in)
          PROVE  RemovedStayAway' /\ \A q \in Requests : Current(q)'
      <3>1. CASE Create(r, id, in)
        <4> DEFINE next == [Idle EXCEPT !.stage = "save", !.id = id, !.row = apply(NoRow, in), !.reads = TRUE]
        <4>1. next.stage = "save" /\ next.id = id /\ id \notin removed
          BY <1>0, <3>1 DEF Create, Idle
        <4>2. Goes(r, next) /\ UNCHANGED <<rows, removed>>
          BY <3>1 DEF Create
        <4> HIDE DEF next
        <4>3. QED
          BY <2>1, <2>2, <2>3, <4>1, <4>2, CurrentStays DEF Stages
      <3>2. CASE Update(r, id, in)
        <4> DEFINE next == [Idle EXCEPT !.stage = "save", !.id = id, !.row = apply(rows[id], in),
                                        !.reads = SendsConnection(in)]
        <4>1. next.stage = "save" /\ next.id = id /\ id \notin removed
          BY <2>3, <3>2 DEF Update, OnRow, Idle
        <4>2. Goes(r, next) /\ UNCHANGED <<rows, removed>>
          BY <3>2 DEF Update
        <4> HIDE DEF next
        <4>3. QED
          BY <2>1, <2>2, <2>3, <4>1, <4>2, CurrentStays DEF Stages
      <3>3. CASE Test(r, id, in)
        <4>1. PICK next : next.stage = "test" /\ Goes(r, next)
          BY <3>3 DEF Test, Idle
        <4>2. UNCHANGED <<rows, removed>>
          BY <3>3 DEF Test
        <4>3. QED
          BY <2>1, <2>2, <2>3, <4>1, <4>2, CurrentStays DEF Stages
      <3>4. QED
        BY <2>4, <3>1, <3>2, <3>3
    <2>5. ASSUME NEW r \in Requests, SaveRow(r)
          PROVE  RemovedStayAway' /\ \A q \in Requests : Current(q)'
      <3>1. PICK next : next.stage \in {"idle", "read"} /\ Goes(r, next)
        BY <2>5, SavedGoes
      <3>2. job[r].row \in Row /\ job[r].row # None /\ job[r].id \notin removed
        BY <1>0, <2>1, <2>5, IntegrationsAssumption DEF SaveRow, Job, Current
      <3>3. Stored \subseteq Stored' /\ Stored' \subseteq Stored \cup {job[r].id} /\ removed' = removed
        BY <1>0, <2>5, <3>2 DEF SaveRow, Stored
      <3>4. QED
        BY <2>1, <2>3, <3>1, <3>2, <3>3, CurrentStays DEF Stages
    <2>6. ASSUME NEW r \in Requests, NEW id \in Ids, Delete(r, id)
          PROVE  RemovedStayAway' /\ \A q \in Requests : Current(q)'
      <3>1. job' = job /\ removed' = removed \cup {id} /\ rows' = [rows EXCEPT ![id] = None]
            /\ \A q \in Requests : ~Holds(q, id)
        BY <2>6 DEF Delete
      <3>2. Stored' = Stored \ {id}
        BY <1>0, <3>1 DEF Stored
      <3>3. RemovedStayAway'
        BY <2>3, <3>1, <3>2 DEF RemovedStayAway
      <3>4. ASSUME NEW q \in Requests PROVE Current(q)'
        BY <2>1, <3>1, <3>2 DEF Current, Holds
      <3>5. QED
        BY <3>3, <3>4
    <2>7. ASSUME NEW r \in Requests,
                 \/ \E id \in Ids :
                      \/ \E in \in Inputs : Test(r, id, in)
                      \/ Sync(r, id)
                      \/ \E host \in Hosts, item \in Items \cup {None} : LinkItem(r, id, host, item)
                      \/ \E host \in Hosts, i \in Items : CreateItemFromHost(r, id, host, i)
                 \/ SaveFails(r) \/ Call(r) \/ CallRefused(r) \/ Tested(r)
                 \/ \E failed \in BOOLEAN : Answer(r, failed)
                 \/ LinkAdded(r) \/ Match(r) \/ Unlink(r) \/ LinkCommit(r) \/ LinkFails(r)
                 \/ \E i \in Items : CreateItem(r, i) \/ EditItem(r, i) \/ DeleteItem(r, i)
                 \/ SaveItem(r)
          PROVE  RemovedStayAway' /\ \A q \in Requests : Current(q)'
      <3>1. removed' = removed /\ Stored' = Stored
        BY <2>1, <2>7, OtherSteps
      <3>2. PICK next : /\ Goes(r, next) /\ next.stage \in Stages \ {"save"}
                        /\ next.stage \in {"link", "matched", "unlinked"} => next.link[1] \in Stored
        BY <2>1, <2>7, OtherSteps
      <3>3. QED
        BY <2>1, <2>3, <3>1, <3>2, CurrentStays
    <2>8. QED
      BY <1>2, <2>4, <2>5, <2>6, <2>7 DEF Next
  <1>3. QED
    BY <1>1, <1>2

\* A link is written while its integration is there, and goes with it.
LEMMA LeadStep == IInv /\ IInv' /\ RemovalInv /\ LeadInv /\ [Next]_vars => LeadInv'
  <1> SUFFICES ASSUME IInv, IInv', RemovalInv, LeadInv, [Next]_vars,
                      overlaps' \cap {"removal", "edit"} = {}
               PROVE  LinksLeadSomewhere'
    BY DEF LeadInv
  <1>1. CASE UNCHANGED vars
    BY <1>1, OverlapsGrow DEF vars, LeadInv, LinksLeadSomewhere, Stored
  <1>2. CASE Next
    <2>1. LinksLeadSomewhere /\ \A q \in Requests : Current(q)
      BY OverlapsGrow DEF LeadInv, RemovalInv
    <2>2. rows \in [Ids -> Row \cup {None}] /\ items \in [Items -> Item] /\ job \in [Requests -> Job]
      BY DEF IInv, IntegrationsTypeOK
    <2>3. ASSUME NEW r \in Requests, NEW id \in Ids, Delete(r, id) PROVE LinksLeadSomewhere'
      <3>1. Stored' = Stored \ {id}
        BY <2>2, <2>3 DEF Delete, Stored
      <3>2. ASSUME NEW i \in Items, items'[i].link # None
            PROVE  items'[i].link = items[i].link /\ items[i].link[1] # id
        BY <2>2, <2>3, <3>2 DEF Delete, Item
      <3>3. QED
        BY <2>1, <3>1, <3>2 DEF LinksLeadSomewhere
    <2>4. ASSUME NEW r \in Requests, LinkCommit(r) PROVE LinksLeadSomewhere'
      <3>1. Stored' = Stored /\ job[r].link[1] \in Stored
        BY <2>1, <2>4 DEF LinkCommit, Current, Stored
      <3>2. ASSUME NEW i \in Items, items'[i].link # None
            PROVE  items'[i].link = job[r].link \/ items'[i].link = items[i].link
        BY <2>2, <2>4, <3>2 DEF LinkCommit, Item
      <3>3. QED
        BY <2>1, <3>1, <3>2 DEF LinksLeadSomewhere
    <2>5. ASSUME Fewer, Stored \subseteq Stored' PROVE LinksLeadSomewhere'
      BY <2>1, <2>5 DEF Fewer, LinksLeadSomewhere
    <2>6. ASSUME NEW r \in Requests, Match(r) \/ Unlink(r) PROVE Fewer /\ Stored' = Stored
      BY <2>6 DEF Match, Unlink, Fewer, Stored
    <2>7. ASSUME NEW r \in Requests, SaveRow(r) PROVE Stored \subseteq Stored'
      <3>1. job[r].row # None
        BY <2>2, IntegrationsAssumption DEF Job
      <3>2. QED
        BY <2>2, <2>7, <3>1 DEF SaveRow, Stored
    <2>8. ASSUME NEW r \in Requests, NEW id \in Ids, NEW in \in Inputs, Create(r, id, in) \/ Update(r, id, in)
          PROVE  Stored' = Stored
      BY <2>8 DEF Create, Update, Stored
    <2>9. QED
      BY <1>2, <2>1, <2>3, <2>4, <2>5, <2>6, <2>7, <2>8, StepsOfLinks, OtherSteps DEF Next
  <1>3. QED
    BY <1>1, <1>2

\* A host has one item, a link leads to an integration and what was removed stays away,
\* unless requests overlapped in one of the three ways: two links of one host, an edit of an
\* item that writes back what it read, a write of what refers to an integration after its removal.
THEOREM OverlapsOnly == IntegrationsSpec => []OnlyOverlapsDisturb
  <1> DEFINE Inv == IInv /\ LinksInv /\ RemovalInv /\ LeadInv
  <1>1. Init => Inv
    <2> SUFFICES ASSUME Init PROVE LinksInv /\ RemovalInv /\ LeadInv
      BY InitSound
    <2>1. \A r \in Requests : job[r].stage = "idle"
      BY DEF Init, Idle
    <2>2. \A i \in Items : items[i].link = None
      BY DEF Init
    <2>3. removed = {}
      BY DEF Init
    <2>4. QED
      BY <2>1, <2>2, <2>3 DEF LinksInv, RemovalInv, LeadInv, HostsHaveOneItem, Covers, Alone, RemovedStayAway,
         Current, LinksLeadSomewhere
  <1>2. Inv /\ [Next]_vars => Inv'
    BY StepSound, LinksStep, RemovalStep, LeadStep
  <1>3. Inv => OnlyOverlapsDisturb
    BY DEF LinksInv, RemovalInv, LeadInv, OnlyOverlapsDisturb
  <1> HIDE DEF Inv
  <1>4. QED
    BY <1>1, <1>2, <1>3, PTL DEF IntegrationsSpec
=============================================================================
