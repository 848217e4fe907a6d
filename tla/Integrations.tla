---------------------------- MODULE Integrations ----------------------------
(***************************************************************************)
(* The connections to Proxmox clusters and the inventory items linked to    *)
(* their hosts: integration_service.go and inventory_service.go.            *)
(*                                                                          *)
(* A request reads the row it changes outside a transaction and writes it   *)
(* back later, after a call to the cluster or at once; nothing tells it     *)
(* that the row changed or went away in between.  Only the removal of an    *)
(* integration and the linking of a host are transactions.  Save writes     *)
(* every column, and stores a row that is gone anew.                        *)
(*                                                                          *)
(* Data: addresses, token ids, hosts and items are model values.  A secret  *)
(* is the destination (address and token) it was entered for, a trusted     *)
(* certificate the address that showed it, a reading where it came from:    *)
(* names, sizes, guests and the times of things are left out.  Every source *)
(* knows all hosts.                                                         *)
(***************************************************************************)
EXTENDS Integers, FiniteSets

CONSTANTS
    Requests,           \* requests that may run at the same time
    Ids,                \* integrations
    Addresses, Tokens,  \* of clusters
    Items, Hosts,       \* devices of the inventory, hosts of the clusters
    None, Paste,        \* nothing; the source of a pasted export
    Inputs,             \* what a save of the dialog may send
    MaxIntegrations,    \* how many integrations one account keeps
    MaxRequests         \* bound on the requests that are made

Destinations == [address : Addresses, token : Tokens]
Sources == Destinations \cup {Paste}

\* A field that is not sent is None; `pin` says whether the certificate of the
\* address is sent as the one to trust, none is to be trusted, or nothing is said.
Input == [address : Addresses \cup {None}, token : Tokens \cup {None}, secret : BOOLEAN,
          pin : {"absent", "none", "presented"}, export : BOOLEAN]

NoRow == [address |-> None, token |-> None, secret |-> None, pin |-> None,
          reading |-> None, failed |-> FALSE, source |-> "api"]
Row == [address : Addresses \cup {None}, token : Tokens \cup {None},
        secret : Destinations \cup {None}, pin : Addresses \cup {None},
        reading : Sources \cup {None}, failed : BOOLEAN, source : {"api", "paste"}]

ASSUME IntegrationsAssumption ==
    /\ None \notin Addresses \cup Tokens \cup Items \cup Hosts \cup Sources
    /\ Paste \notin Destinations /\ None \notin Row \cup (Ids \X Hosts)
    /\ Inputs \subseteq {in \in Input : in.pin = "presented" => in.address # None}
    /\ MaxIntegrations \in Nat /\ MaxRequests \in Nat

VARIABLES
    rows,      \* id -> the stored integration, None when there is none
    used,      \* ids that were ever given: a new integration gets another
    removed,   \* ids whose removal was answered
    items,     \* item -> [kept, link]
    job,       \* request -> what it is about to do
    overlaps,  \* the kinds of requests that overlapped so far
    made       \* how many requests were made

vars == <<rows, used, removed, items, job, overlaps, made>>

Link == Ids \X Hosts
Item == [kept : BOOLEAN, link : Link \cup {None}]

Idle == [stage |-> "idle", id |-> None, row |-> NoRow, reads |-> FALSE,
         item |-> None, link |-> None, gone |-> {}]

Stored == {id \in Ids : rows[id] # None}
LinkedTo(link) == {i \in Items : items[i].kept /\ items[i].link = link}
To(row) == [address |-> row.address, token |-> row.token]

\* Items whose rows a transaction that is not over has written.
LockedBy(r) == IF job[r].stage = "unlinked" THEN job[r].gone ELSE {}
Free(i, r) == \A other \in Requests \ {r} : i \notin LockedBy(other)

----------------------------------------------------------------------------
(* apply: the fields of a request onto a row.                               *)

\* Mutation: a secret stays when its address or token changes.
SecretKept(row, new, in) ==
    IF in.secret THEN To(new) ELSE row.secret

\* The secret of a row after `in` made `new` of it: the one sent with it, for the
\* destination it now has; without one the stored secret goes when that changed.
SecretOf(row, new, in) ==
    IF in.secret THEN To(new) ELSE IF To(new) # To(row) THEN None ELSE row.secret

Connected(row, in) ==
    LET address == IF in.address = None THEN row.address ELSE in.address
    IN  [row EXCEPT !.address = address,
                    !.token = IF in.token = None THEN row.token ELSE in.token,
                    !.source = IF in.address = None THEN row.source ELSE "api",
                    !.pin = CASE in.pin = "presented" -> in.address
                              [] in.pin = "none" -> None
                              [] OTHER -> IF address # row.address THEN None ELSE row.pin]

\* An export is for a source without a connection, a secret for a complete one.
Accepted(row, in) ==
    /\ in.export => in.address = None /\ in.token = None /\ ~in.secret /\ row.address = None
    /\ in.secret => Connected(row, in).address # None /\ Connected(row, in).token # None

\* More than a name or an export.
SendsConnection(in) == in.address # None \/ in.token # None \/ in.secret \/ in.pin # "absent"

apply(row, in) ==
    LET read == IF in.export THEN [row EXCEPT !.reading = Paste, !.failed = FALSE, !.source = "paste"] ELSE row
        new == Connected(read, in)
    IN  [new EXCEPT !.secret = SecretOf(read, new, in)]

----------------------------------------------------------------------------
Init ==
    /\ rows = [id \in Ids |-> None]
    /\ used = {} /\ removed = {}
    /\ items = [i \in Items |-> [kept |-> TRUE, link |-> None]]
    /\ job = [r \in Requests |-> Idle]
    /\ overlaps = {} /\ made = 0

Begins(r) == job[r] = Idle /\ made < MaxRequests /\ made' = made + 1
Goes(r, next) == job' = [job EXCEPT ![r] = next]
Ends(r) == Goes(r, Idle)

\* A request on an integration or an item that is there.
OnRow(r, id) == Begins(r) /\ id \in Stored
OnItem(r, i) == Begins(r) /\ items[i].kept

\* Create counts the integrations, and stores another one in a later statement.
Create(r, id, in) ==
    /\ Begins(r) /\ id \notin used
    /\ Cardinality(Stored) < MaxIntegrations
    /\ Accepted(NoRow, in)
    /\ in.export \/ in.secret
    /\ used' = used \cup {id}
    /\ Goes(r, [Idle EXCEPT !.stage = "save", !.id = id, !.row = apply(NoRow, in), !.reads = TRUE])
    /\ UNCHANGED <<rows, removed, items, overlaps>>

\* Update reads the row and writes the fields onto what it read.
Update(r, id, in) ==
    /\ OnRow(r, id)
    /\ Accepted(rows[id], in)
    /\ Goes(r, [Idle EXCEPT !.stage = "save", !.id = id, !.row = apply(rows[id], in), !.reads = SendsConnection(in)])
    /\ UNCHANGED <<rows, used, removed, items, overlaps>>

\* The row is stored, whatever is stored by now.  A connection that was sent and has a
\* secret is read next (readAfterSave).
SaveRow(r) ==
    /\ job[r].stage = "save"
    /\ rows' = [rows EXCEPT ![job[r].id] = job[r].row]
    /\ IF job[r].reads /\ job[r].row.source = "api" /\ job[r].row.secret # None
       THEN Goes(r, [Idle EXCEPT !.stage = "read", !.id = job[r].id])
       ELSE Ends(r)
    /\ UNCHANGED <<used, removed, items, overlaps, made>>

SaveFails(r) ==
    /\ job[r].stage = "save"
    /\ Ends(r)
    /\ UNCHANGED <<rows, used, removed, items, overlaps, made>>

\* Sync, asked for or after a save.
Sync(r, id) ==
    /\ OnRow(r, id)
    /\ Goes(r, [Idle EXCEPT !.stage = "read", !.id = id])
    /\ UNCHANGED <<rows, used, removed, items, overlaps>>

\* Sync opens the secret of the row it reads and calls where that row says.
Call(r) ==
    /\ job[r].stage = "read"
    /\ job[r].id \in Stored
    /\ rows[job[r].id].source = "api" /\ rows[job[r].id].secret # None
    /\ Goes(r, [job[r] EXCEPT !.stage = "call", !.row = rows[job[r].id]])
    /\ UNCHANGED <<rows, used, removed, items, overlaps, made>>

\* The row is gone, has no secret or no connection, or the budget of calls is spent.
CallRefused(r) ==
    /\ job[r].stage = "read"
    /\ Ends(r)
    /\ UNCHANGED <<rows, used, removed, items, overlaps, made>>

\* What came back goes into the columns of the reading, of a row that is still there.
Answer(r, failed) ==
    /\ job[r].stage = "call"
    /\ rows' = IF job[r].id \notin Stored THEN rows
               ELSE [rows EXCEPT ![job[r].id] =
                        [@ EXCEPT !.failed = failed,
                                  !.reading = IF failed THEN rows[job[r].id].reading ELSE To(job[r].row)]]
    /\ Ends(r)
    /\ UNCHANGED <<used, removed, items, overlaps, made>>

\* Whether the stored secret may be tried on what the form holds.
MayTry(row, in) == row.address = in.address /\ row.token = in.token

\* Test of a stored integration without a new secret: the stored one goes out, if
\* the form still says what it was stored for.  Nothing is written.
Test(r, id, in) ==
    /\ OnRow(r, id)
    /\ in.address # None /\ in.token # None /\ ~in.secret /\ ~in.export
    /\ MayTry(rows[id], in) /\ rows[id].secret # None
    /\ Goes(r, [Idle EXCEPT !.stage = "test", !.id = id,
                !.row = [rows[id] EXCEPT !.address = in.address, !.token = in.token,
                                         !.pin = IF in.pin = "presented" THEN in.address ELSE None]])
    /\ UNCHANGED <<rows, used, removed, items, overlaps>>

Tested(r) ==
    /\ job[r].stage = "test"
    /\ Ends(r)
    /\ UNCHANGED <<rows, used, removed, items, overlaps, made>>

\* A request that has read an integration and will write what refers to it.
Holds(r, id) ==
    \/ job[r].stage = "save" /\ job[r].id = id
    \/ job[r].stage \in {"link", "matched", "unlinked"} /\ job[r].link[1] = id

\* Delete: the row and the links to it go together.
Delete(r, id) ==
    /\ OnRow(r, id)
    /\ \A i \in Items : items[i].link # None /\ items[i].link[1] = id => Free(i, r)
    /\ rows' = [rows EXCEPT ![id] = None]
    /\ removed' = removed \cup {id}
    /\ items' = [i \in Items |->
          IF items[i].link # None /\ items[i].link[1] = id
          THEN [items[i] EXCEPT !.link = None] ELSE items[i]]
    /\ overlaps' = overlaps \cup (IF \E other \in Requests : Holds(other, id) THEN {"removal"} ELSE {})
    /\ UNCHANGED <<used, job>>

----------------------------------------------------------------------------
(* Which item is the machine behind a host.                                 *)

\* LinkItem looks at the reading first.
LinkItem(r, id, host, item) ==
    /\ OnRow(r, id) /\ rows[id].reading # None
    /\ Goes(r, [Idle EXCEPT !.stage = "link", !.link = <<id, host>>, !.item = item])
    /\ UNCHANGED <<rows, used, removed, items, overlaps>>

Linking(r, link) == job[r].stage \in {"matched", "unlinked"} /\ job[r].link = link

\* The first statement of its transaction finds the items of the host ...
Match(r) ==
    /\ job[r].stage = "link"
    /\ Goes(r, [job[r] EXCEPT !.stage = "matched", !.gone = LinkedTo(job[r].link)])
    /\ overlaps' = overlaps \cup
          (IF \E other \in Requests \ {r} : Linking(other, job[r].link) THEN {"links"} ELSE {})
    /\ UNCHANGED <<rows, used, removed, items, made>>

\* Mutation: the items of the host keep their link.
UnlinkedNone(r) == {}

\* ... and, once nobody else writes them, unlinks those that still are the host's.
Unlinked(r) == job[r].gone \cap LinkedTo(job[r].link)

Unlink(r) ==
    /\ job[r].stage = "matched"
    /\ \A i \in job[r].gone : Free(i, r)
    /\ Goes(r, [job[r] EXCEPT !.stage = "unlinked", !.gone = Unlinked(r)])
    /\ UNCHANGED <<rows, used, removed, items, overlaps, made>>

\* The item gets its link, and both are committed.
LinkCommit(r) ==
    /\ job[r].stage = "unlinked"
    /\ job[r].item # None => items[job[r].item].kept /\ Free(job[r].item, r)
    /\ items' = [i \in Items |->
          IF i = job[r].item THEN [items[i] EXCEPT !.link = job[r].link]
          ELSE IF i \in job[r].gone THEN [items[i] EXCEPT !.link = None] ELSE items[i]]
    /\ Ends(r)
    /\ UNCHANGED <<rows, used, removed, overlaps, made>>

\* The integration or the item is gone, the statement fails, or two requests wait for
\* each other and PostgreSQL ends one: nothing of the transaction stays.
LinkFails(r) ==
    /\ job[r].stage \in {"added", "link", "matched", "unlinked"}
    /\ Ends(r)
    /\ UNCHANGED <<rows, used, removed, items, overlaps, made>>

----------------------------------------------------------------------------
(* The inventory.                                                           *)

\* A new item has an id of its own: no request knows it yet.
Fresh(i) == ~items[i].kept /\ \A other \in Requests : job[other].item # i

CreateItem(r, i) ==
    /\ Begins(r) /\ Fresh(i)
    /\ items' = [items EXCEPT ![i] = [kept |-> TRUE, link |-> None]]
    /\ UNCHANGED <<rows, used, removed, job, overlaps>>

\* CreateItemFromHost stores the item, then links it, in two transactions.
CreateItemFromHost(r, id, host, i) ==
    /\ OnRow(r, id) /\ rows[id].reading # None /\ Fresh(i)
    /\ items' = [items EXCEPT ![i] = [kept |-> TRUE, link |-> None]]
    /\ Goes(r, [Idle EXCEPT !.stage = "added", !.link = <<id, host>>, !.item = i])
    /\ UNCHANGED <<rows, used, removed, overlaps>>

LinkAdded(r) ==
    /\ job[r].stage = "added"
    /\ job[r].link[1] \in Stored /\ rows[job[r].link[1]].reading # None
    /\ Goes(r, [job[r] EXCEPT !.stage = "link"])
    /\ UNCHANGED <<rows, used, removed, items, overlaps, made>>

\* Update of an item reads its row, the link included ...
EditItem(r, i) ==
    /\ OnItem(r, i)
    /\ Goes(r, [Idle EXCEPT !.stage = "item", !.item = i, !.link = items[i].link])
    /\ UNCHANGED <<rows, used, removed, items, overlaps>>

\* ... and writes all of it back, whatever became of the item.
SaveItem(r) ==
    /\ job[r].stage = "item" /\ Free(job[r].item, r)
    /\ items' = [items EXCEPT ![job[r].item] = [kept |-> TRUE, link |-> job[r].link]]
    /\ overlaps' = overlaps \cup
          (IF items[job[r].item] # [kept |-> TRUE, link |-> job[r].link] THEN {"edit"} ELSE {})
    /\ Ends(r)
    /\ UNCHANGED <<rows, used, removed, made>>

DeleteItem(r, i) ==
    /\ OnItem(r, i) /\ Free(i, r)
    /\ items' = [items EXCEPT ![i] = [kept |-> FALSE, link |-> None]]
    /\ UNCHANGED <<rows, used, removed, job, overlaps>>

Next == \E r \in Requests :
    \/ \E id \in Ids :
          \/ \E in \in Inputs : Create(r, id, in) \/ Update(r, id, in) \/ Test(r, id, in)
          \/ Sync(r, id)
          \/ Delete(r, id)
          \/ \E host \in Hosts, item \in Items \cup {None} : LinkItem(r, id, host, item)
          \/ \E host \in Hosts, i \in Items : CreateItemFromHost(r, id, host, i)
    \/ SaveRow(r) \/ SaveFails(r)
    \/ Call(r) \/ CallRefused(r) \/ Tested(r)
    \/ \E failed \in BOOLEAN : Answer(r, failed)
    \/ LinkAdded(r) \/ Match(r) \/ Unlink(r) \/ LinkCommit(r) \/ LinkFails(r)
    \/ \E i \in Items : CreateItem(r, i) \/ EditItem(r, i) \/ DeleteItem(r, i)
    \/ SaveItem(r)

IntegrationsSpec == Init /\ [][Next]_vars

----------------------------------------------------------------------------
Stages == {"idle", "save", "read", "call", "test", "added", "link", "matched", "unlinked", "item"}
Job == [stage : Stages, id : Ids \cup {None}, row : Row, reads : BOOLEAN,
        item : Items \cup {None}, link : Link \cup {None}, gone : SUBSET Items]

IntegrationsTypeOK ==
    /\ rows \in [Ids -> Row \cup {None}]
    /\ Stored \subseteq used /\ used \subseteq Ids /\ removed \subseteq used
    /\ items \in [Items -> Item]
    /\ job \in [Requests -> Job]
    /\ overlaps \subseteq {"links", "edit", "removal"}
    /\ made \in 0..MaxRequests

\* What a row holds belongs to where it leads.
Paired(row) ==
    /\ row.secret # None => row.secret = To(row)
    /\ row.pin # None => row.pin = row.address

\* "It goes to the address you entered it for, and nowhere else": whichever saves,
\* readings, tests and removals overlap, a stored secret and a trusted certificate are
\* those of the address and token beside them, and so are those a call goes out with.
SecretsGoWhereTheyWereEntered ==
    /\ \A id \in Stored : Paired(rows[id])
    /\ \A r \in Requests : job[r].stage \in {"call", "test"} =>
          job[r].row.secret = To(job[r].row) /\ Paired(job[r].row)

HostsHaveOneItem ==
    \A i, j \in Items : items[i].kept /\ items[j].kept /\ items[i].link # None
                          /\ items[i].link = items[j].link => i = j

LinksLeadSomewhere == \A i \in Items : items[i].link # None => items[i].link[1] \in Stored

RemovedStayAway == removed \cap Stored = {}

\* A host has one item and an item one host, a link leads to an integration, and what was
\* removed stays away: only three overlaps can break this, each of which has to happen.
\* Two requests link one host at once, an edit of an item writes back what it read before
\* the item changed, or a request that read an integration before its removal writes after.
OnlyOverlapsDisturb ==
    /\ overlaps \cap {"links", "edit"} = {} => HostsHaveOneItem
    /\ overlaps \cap {"removal", "edit"} = {} => LinksLeadSomewhere
    /\ "removal" \notin overlaps => RemovedStayAway
=============================================================================
