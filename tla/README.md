# A verification development for HLBuilder

HLBuilder plans home networks: a browser canvas of devices and cables, a Go
server that stores each project as one *build*, calculates its addresses and
checks its wiring, and assistants (in the app and over MCP) that suggest changes.
This directory holds TLA+ models of the parts where it is hard to be right, the
TLC configurations that check them, and proofs checked by TLAPS.

The reference is the code under `src/`. `PROJECT.json` names, for every
definition, the lines it models.

## 1. The system

### Components, their state, and how they interact

| Component | State | Operations | Talks to |
|---|---|---|---|
| Build service (`backend/internal/services/build_service.go`, `handlers/build_handler.go`) | one row per build with a revision, its nodes and edges | create, save (compare-and-set on the revision), rename, save over a share link, read, share, duplicate, delete | PostgreSQL; the IP service inside the save's transaction |
| Builder store (`frontend/.../store/builder-store.ts`) | the canvas, the revision it was read at, the fingerprint of what the server has, two undo stacks, the last save without an answer | edit, undo, redo, save, resolve a conflict, sync, open, close, apply a proposal | build handler, proposal handler; one request at a time through a queue |
| Autosave (`frontend/.../store/autosave.ts`) | three timers, a retry counter | check, save, retry, stop | subscribes to the store, calls its save |
| Project hooks (`use-proposals.ts`, `use-current-project.ts`) | the last poll | poll, sync, open | store |
| Proposals (`backend/internal/services/proposal_service.go`) | rows: operations, preview, base revision, status | propose, review (refresh), apply, reject, prune | build service (dry run and save) |
| Topology operations (`topology_ops*.go`), wiring checks (`wiring/`), the hand on the canvas (`visual-builder.tsx`, `connection-rules.ts`) | none but the graph they change | add, change, move, mount, remove devices; plug and unplug cables; the check of a save | proposals, assistant tools, store |
| Planners (`frontend/.../lib/planner/`) and the conversion of old power cables (`legacy_power_cables.go`) | none | answer a few questions with a build; turn the cables of older builds into power cables at a start of the server | create and save of a build; the rows, under the lock of a save |
| IP service and hlbIPAM (`ip_service.go`, `hlbipam/`) | none | plan domains, allocate addresses, write them back, validate | called inside the save, over HTTP |
| Assistant (`backend/internal/assistant/`) | threads of messages, one running turn per user | run a turn, call tools, clear | LLM providers, proposals |
| Assistant store (`frontend/.../assistant-store.ts`, `assistant-panel.tsx`) | the conversation on screen, a queued message, what is under way | load, refresh, send, queue, follow, stop, clear | the assistant's handlers and stream |
| Proxmox connections (`integration_service.go`) and inventory (`inventory_service.go`) | a row per connection with its secret and last reading, a row per item with its link to a host | create, change, test, sync, remove; link, edit, delete items | Proxmox clusters |
| Proxmox import (`proxmox_import.go`, `proxmox/reconcile.go`) | none | compare a reading with a build, propose the difference | connections, inventory, proposals |
| API tokens, rate limiter, settings, authentication | rows, counters | create, revoke, authenticate, block | every handler |
| Blueprints, gaming, recommendations, exports, landing pages | rows or none | reports, texts | build service |

The parts share one thing: the build's row and its revision. Browser tabs, share
links, assistants and MCP clients all change the same graph; the revision is the
only thing that orders them.

### What is hard

* A save replaces the whole graph. That two tabs do not destroy each other's
  work rests on a chain: the revision check in the transaction, the order of the
  queries that build an answer, and what the store takes over from each kind of
  answer while the user goes on editing.
* Answers are read after the commit, requests get lost, and a save may arrive
  after its tab gave up.
* Autosave must not forget a dirty canvas, whatever order its timers, the
  answers and leaving the page happen in.
* Proposals are made, reviewed and decided by several sessions over separate
  transactions under READ COMMITTED, while the build goes on changing.
* Saves, decisions, sharing and the removal of a build lock its rows in different
  orders, and write some columns from rows read before.
* Change sets, hands, planners, the conversion of old builds and the check of a save
  are programs about one set of rules; what one lets through another may refuse.
* What two power supplies have in common may be several sources away from both.
* The allocator serves devices in stages, each of which must respect what earlier
  stages took, kept or set aside, also when a subnet is full.
* The panel of the assistant awaits in five functions that all write one screen,
  while builds, replies and conversations change under it.
* Secrets of clusters are read, used and written by requests that overlap.

The full list, line by line, is under `hazards` in `PROJECT.json`.

### What makes each part correct

* Server: a revision is replaced only by a save that knew it; no part of an answer is
  older than the revision it names; the rows of a build are those of one revision;
  sharing is what its owner last asked for.
* Store: no unsaved canvas disappears; a conflict is somebody else's; "saved" stands over
  what the server holds, or held until somebody saved again, unless an edit was undone
  while it was saved (section 6).
* Autosave: a dirty canvas is scheduled, and gets saved.
* Proposals: a decision is final and happens once; an applied proposal keeps
  everybody else's edits; the preview is that of the revision it names; a proposal
  replaces those that waited when it came (two that come at once may both wait).
* Topology: what operations, hands, planners and the conversion build, a save accepts;
  devices in a rack do not overlap; a plan uses ports that exist; a device one failure
  leaves without two of its supplies is warned about.
* Addresses: none twice, none in a DHCP pool or of a gateway; a block of guest
  addresses stays its host's; saving again changes nothing.
* Assistant: a replayed conversation answers every tool call it contains and is the
  one the model saw, but for what the database cannot hold. Its panel shows the
  conversation of its build as it is stored, unless something names it a reason not to,
  and does not stay busy.
* Connections: a secret goes to the address it was entered for. Import: what is
  imported is found again and not imported twice.

## 2. The modules

| Module | Models | Uses |
|---|---|---|
| `BuildService` | the row with its log of revisions, the requests being served, late saves | – |
| `BuilderStore` | tabs over that server | extends `BuildService` |
| `Autosave` | the timers over the store | extends `BuilderStore` |
| `BuildRows` | the transactions on one build, statement by statement, with row locks, deadlocks and failures | – |
| `Proposals` | the life of proposals over a build | refines `Decisions` |
| `Decisions` | what proposals promise: each decided in one step | – |
| `Topology` | the devices and cables of a build, change sets, hands and the check of a save | – |
| `PowerChain` | the conversion of old power cables, and the warning about shared feeds | extends `Topology` |
| `Planner` | the guided plans; a project from a plan, from nothing or from an older version, and what it is made into | extends `PowerChain` |
| `Allocator` | one run of hlbIPAM | – |
| `Addresses` | a build that is edited and saved: the request, the run, the write-back | extends `Allocator` |
| `Assistant` | the turns of a conversation, the rows they store and the conversation rebuilt from them | – |
| `AssistantStore` | the panel in one tab, and the server as it sees it | – |
| `Integrations` | connections to clusters, their secrets and readings, links of inventory items | – |
| `Import` | imports of a cluster into a build, as proposals | – |
| `MC...` | model values, instances and symmetry for TLC | the module of their name |
| `AutosaveProofs`, `ProposalsProofs`, `AssistantProofs`, `AssistantStoreProofs`, `BuildRowsProofs`, `AddressesProofs`, `IntegrationsProofs`, `TopologyProofs` | the TLAPS proofs | extend the module of their name (`AutosaveProofs` begins with the store and the server alone, `AddressesProofs` with `Allocator` alone; the refinement of `Decisions` is in `ProposalsProofs`; `TopologyProofs` extends `Planner`, so it is about change sets, hands, plans and the conversion) |

### How state and actions correspond to the code

**A graph is a set of edits** in `BuildService`, `BuilderStore` and `Proposals`.
Saves replace whole graphs, and the properties ask
which edits survive, who has seen them and which revision holds them, so nothing
else of a graph is needed. Each edit is made at most once (`made`), so an edit on
a canvas can be traced. Constants say what the code can tell apart:
`Tables` (which edits lie in the same table of the database) and `Nested` (the tables
that hang off another: guests and components off devices),
`Signed` (what `graphSignature` looks at), `Echoed` (what the answer of a save
writes back: addresses and details), `Unrecorded` (what is edited without a step of the
undo stack), `Invalid` (what the server refuses), `Proposals` and `Elsewhere` (edits not
made on this canvas).

**Server** (`BuildService`). `log[r]` is what revision r holds and by whom. A
save is `CommitSave`, `RefuseStale`, `RefuseInvalid` or `FailBefore`: one step,
because the transaction holds the row lock from the check to the commit. What
follows is not one step: `ReadRow` and `ReadTable` are the queries of `GetByID`, outside
any transaction and one per table, so that an answer may hold devices of one revision and
cables of the next; a nested table is read by the rows of the one it hangs off, which
an earlier query read, so it may come back empty (`Orphans`). `Complete` is an answer
that was read to its end. `ReadFails` can end them, after which a
committed save is answered with an error and a conflict without a build.
`RenameElsewhere` and `SaveElsewhere` are writers without a tab. A save whose tab
gave up goes to `stray` and commits or disappears later.

**Rows** (`BuildRows`) is the layer below: `build`, `nodes` and `proposal` are what
is committed, `locked` who holds a row, `job[s]` the statement a request has
reached. `Lock` waits for the row and reads it, `Write` is the revision check,
`Clear` the deletion of the old graph, `Commit` writes every column of the row as
it was read. Sharing is a read without a lock (`ReadRow`) and an update of
single columns (`Update`). `Delete` counts, deletes the rows its statements saw
when they began (`Snapshot`, `DeleteGraph`), then the build, which a newer graph
prevents through its foreign key, then the proposals. A copy reads the row and then the
graph in two further queries (`CopyRow`, `CopyGraph`, `CopyCables`), which stand for its
five. `BreakDeadlock` ends one of the sessions that wait in a circle.

**Store** (`BuilderStore`). `tab[t].mutation` is the entry of
`topologyMutationQueue` that runs; a tab runs one at a time (`Free`).
Everything the user does (`Edit`, `Undo`, `Redo`, `Close`) can happen between a
request and its answer. `SaveAccepted` models the branch after the request,
`HasLatest` with `RetryAsOurs`, `AdoptLatest`, `FetchLatest` the 409 branch, and
`SaveFailed` and `SaveLost` the end of the catch block. `synced` is
`lastSyncedFingerprint`, compared with the canvas by `Dirty`. `NoSave` stands
for `unconfirmedSave === null`.

**Autosave** (`Autosave`). Every step of the store is also a step here, with its
effect on timers and save state. `timers` holds `saveTimer` and `retryTimer`,
`checkDue` is `checkTimer`, `queued` and `opening` are mutations waiting behind
the running one. A retry that finds no open build fails at once, as the store's
check does. `fresh` is the newest revision of which a tab knows the graph to be its
`synced`: what it opened, synced or adopted, and what it saved without an edit of its own
or anybody else's in between (`TakenIf`).

**Proposals** (`Proposals`). A request is a sequence of steps, one per
transaction or query: `ReadRow`, `ReadGraph` (`GetOwned`), `DryRun`
(`PreviewTopology`, which compares the revision under the row lock and rolls
back; a graph that mixes revisions is newer than its row in some table, so the dry run
refuses it as it refuses a newer one, and the queries of the graph are one step), then for a new proposal `SnapshotPending` and `Replace`, for a review
`MarkConflict` or `WriteReview` and `ReadReview`. The UPDATE that supersedes
picks its rows from a snapshot and waits for locked ones, so the snapshot is a
step of its own. `StartApply` holds the proposal's row lock until `CommitApply`
or `RefuseApply`; the build's lock is taken and released within that last step.
A pruned row stays in `rows` as a tombstone so that ids are stable.
`Decisions` has neither requests nor locks: `Suggest`, `Review`, `Lapse`,
`Decline` and `Accept` are one step each, and `Proposals` implements it under the
mapping of its log and its rows (`DecisionsAreAtomic`).

**Topology** (`Topology`). A device is its type for life and the counts the rules
read: ports, sockets, supplies, rack units. A cable joins two handles. The
operations of a change set (`addNode`, `updateDetails`, `Remove`,
`connect` and so on), the canvas' drawing, dropping, moving and deleting, and
`Accepted`, the check a save makes, are translated each from its own source, so
that where the two languages disagree the runs see it. A card that shows fewer ports
drops the cables that lose theirs (`Orphaned`). `by` says who made the last
change.

**Power** (`PowerChain`). `Settled` is one turn of the loop in `planLegacyPowerCables`:
a cable becomes a power cable or goes. The turns are taken one after the other in every
order, as the rows are read without one, and the whole conversion is one step, because it holds the lock of
a save and runs before requests are served. `upstreamTokens` is the walk to the wall,
sources and circuits alike; `Dark` is what it stands for, what has no power left when
something fails.

**Plans** (`Planner`). A plan is a function of its answers, and a device of a plan is the
part it plays: `New` gives each part one id in place of a fresh one. `createLab` stores
the plan whole, as a plan refused by its save is deleted again. `ProjectSpec` puts the
change sets and the hands of `Topology` over every build, however it came to be.

**Allocator** (`Allocator`). A request is the gateways and, for each device, its
type, its neighbours, the address it is to keep and its guests. `plan` is who
belongs to which subnet; `stage` goes through kept addresses, infrastructure,
hosts with the blocks of their guests, and the rest, and `Turn` serves devices in
the order of the code. Subnets do not share state, so their stages run side by
side. Addresses wrap like the `uint32` of the code, in fewer bits.

**Addresses** (`Addresses`). `planIPAM` makes a request of the build (`StartSave`), the
stages of `Allocator` answer it, and `CalculateNetwork` writes the answer into the
devices and guests or refuses the save. Between saves a user or an assistant
draws a cable, types or pins an address, changes settings, guests and networks.

**Assistant** (`Assistant`). One user, one build, several tabs. `running` is the
user's entry in `Agent.running`; `turn[t]` the goroutine of a chat request, whose
stages are the places where `Run` waits for the database or the provider. Every
`Append` is a step of its own, because each is its own transaction; `Store` needs
the thread to be alive, as the row lock in `Append` does. A row keeps what
`ConversationFromMessages` looks at: whether it has text, the calls or results,
the calls inside the provider's native form, and the interrupted mark. It is written
without its NUL characters (`AsStored`): a text of nothing else is no text, and a native
form that spells one is not kept, while the turn goes on with what came. Times are
compared by position: `at` is the number of rows its thread had when a proposal
was settled, which is what `resolved_at > since` compares. `ClearThread` is two
steps, its look at the slot and its delete.

**Assistant store** (`AssistantStore`). Every function that awaits (`loadThread`,
`refreshThread`, `send`, `reconcile`, `clear`) is a task; a task is `current` while
the store's `run` is the number it took. The user's acts start tasks, the server's
steps fill their answers and streams, and each task goes on where its `await` was.
The server is what the panel can tell: a stored conversation per build and one
turn at a time. `missed` keeps the reasons a screen has to differ from it:
`"elsewhere"` (another tab sent or cleared, also when a refresh that read before is
answered last), `"lost"` (a message lost, or given up before its first event), `"unread"`
(the stored conversation could not be read again) and `"wiped"` (the late answer of a
clear took what was answered meanwhile). A reading taken over that is not itself behind
ends them all (`UpToDate`). `stranded` records that a clear ended while the panel was busy.

**Integrations** (`Integrations`). A request reads a row, may call the cluster, and
writes it back with `Save`, which stores a row that is gone anew. A secret is the
destination it was entered for, so that where it goes can be compared. `overlaps`
records which kinds of requests met.

**Import** (`Import`). `PairHosts`, `MatchGuests`, `Rows` and `BuildOps` are the
comparison and the operations it comes to, as operators over the reading, the
build and the ticks; `ApplyOps` is what the build makes of them, `Shown` what the diff of
two builds compares: a change set that only rewrites a figure, or the ids of guests,
changes nothing (`Takes`). `Prepare` reads
and `Propose` proposes, with nothing locked between. The properties of a whole
import are evaluated in every state between two imports, over every choice.

History variables (`seen`, `raced`, `own`, `saw`, `blind`, `between`, `by`, `missed`,
`stranded`, `overlaps`, `wish`, `copy`, `fresh`) record what the properties speak about and
never guard an action.

## 3. The runs

| Run | Question | Bounds and why they are enough |
|---|---|---|
| `two_tabs` | Do two tabs ever lose each other's work, or get an answer with a part older than its revision? | 2 tabs, one shape in a table of its own and one echoed edit without an undo step in a nested one, 3 revisions, undo depth 1, no failures. Three revisions allow: both tabs read 1, one saves 2, the other conflicts, adopts and saves 3 while the first syncs. |
| `one_tab` | Does a canvas with unsaved devices or cables ever disappear, with an editable share link, a proposal, lost answers, late saves and database errors? | 1 tab, two tables of which one is nested, 3 revisions, 2 failures, 1 late save: enough for a lost answer, its retry, and a second loss. |
| `autosave` | Is a dirty canvas forgotten? Does "saved" stand over what the server holds? Does it get saved? | 1 tab, 3 revisions, 1 failure and 1 retry, one edit by hand and one proposed edit that a save refuses, each in a table of its own. |
| `build_rows` | Do overlapping transactions on one build leave one graph and the owner's sharing, and is each answered? | any 3 requests, one failure, 1 link, revisions up to 3, the build shared or not, editable or not before. Two sessions suffice for each circle of locks; the third is whoever waits with them. |
| `proposals` | Are decisions final, single and made on the right preview, does pruning keep the newest, and does all this implement decisions in one step? | 2 sessions, 3 proposals under a cap of 1 settled one, 3 revisions, 1 failed request, edits that make a proposal unfit and edits only the save refuses. Three proposals are the fewest where one is pruned while another is decided. |
| `topology` | Does a save accept what change sets, hands, planners and the conversion build; do plans fit, does nothing overlap in a rack, are shared feeds warned about? | 24 devices. By change sets and hands: 9 of 8 types of which builds hold at most three at a time, eight combinations with up to three cables and the counts whose rules meet there (`Bounded`): racks and devices of 1 to 3 units, all three of them tall at a time, in slots 0 to 2, so that a tall device reaches over the start of its neighbour; two of a router and a NAT gateway with two ports; two counts raised among a UPS and two PDUs with two supplies or sockets, so that a feed forks and joins again; one count of 2 at a time in the others. A rule joins two devices, or a device with the rack and a neighbour in it. Old builds: any one to four old cables among an outlet, a UPS, a PDU and a switch, the UPS or the switch with two supplies, with and without a power cable drawn since, settled in every order, with 2 sockets at most for the 48 of the code so that a source can be full; the UPS and the switch are on one circuit. Plans: every homelab and game server; parties of one, two and four tables, on a strong and a weak breaker, with 0 to 4 consoles, so that what is plugged in fits the smallest switch exactly and exceeds it by one. |
| `addresses` | Are addresses apart, safe and stable; do blocks and pins hold; do cut-off guests lose theirs? | four builds: a home network, a subnet of 8 that is full at once, an island behind NAT, a firewall whose port serves the end of the address space; 10-bit addresses, 2 edits, 4 saves in a row. |
| `assistant` | Is the stored conversation always one a provider accepts and the one the model saw, is the slot always given back, is a decision told once? | 2 tabs, 1 call id (reused by every reply), replies and results with and without NUL characters, 2 steps a turn, 4 messages, 2 threads, 1 proposal, 1 failure or restart. Two turns with two steps each fit into a thread, so a turn follows one that was cut off at any row. |
| `assistant_store` | Does the panel show its build's conversation as it is stored, and does being busy end? | 2 builds, 1 message here and 1 from another tab, conversations of 2 turns, replies of 1 piece, 2 tasks at a time, 1 failure, 4 acts of users. A second task is what makes a first one late. |
| `import` | Does importing again find what was imported, fit the build, and plan no guest twice? | 2 hosts, 2 guests, a room of 2 guests, 8 operations, 1 change around 2 imports, every choice and every ticks. |
| `integrations` | Do secrets stay with their destination, and do links and removals come out in order? | 2 requests at a time, 5 in all, 2 connections, 2 addresses, 2 tokens, 2 items, 1 host: enough to create, change, read, remove and meet again. |

Every property of a passing run has a mutant: a plausible bug in the code
(`AcceptsStale`, `ReadRowLast`, `LockNothing`, `NotifyNobody`, ...) that makes
the property fail under the same configuration. The mutated definitions stand
before the ones they replace and are used by nothing else.

One further run ends in a violation, a disagreement between the code and what a
comment says, listed under `findings`:

* `post_commit_read`: an answer read after the commit carries another writer's
  revision; the tab takes it over without its graph and then saves over it. A
  comment of the builder relies on "saves from a stale revision are rejected".

`SavesSeeWhatTheyReplace` excludes tabs that took over a revision they never
held (`raced`), which is what `post_commit_read` shows can happen; without that
exclusion it is `SavesSeeEverything`, which is violated. `SavedMeansStored` leaves out
tabs whose revision is not `fresh`; without that it is violated by an undo during a save.
`UnsavedShapeIsKept`
leaves out `Echoed` values and the answer of an open. `OnlyOverlapsDisturb`,
`GuestsAreImportedOnce`, `ScreenIsWhatIsStored`, `BusyIsOneTask` and `BusyEnds`
name the overlaps after which they do not hold; section 6 says what happens then.

**Deadlock** is checked in the runs of tabs, of the topology and of the assistant,
where somebody can always do something. It is off where a run ends once its bounds
are reached: every proposal decided (`proposals`), every edit and save made
(`addresses`), every import, request or act used up (`import`, `integrations`,
`build_rows`, `assistant_store`).

**Fairness** is assumed in three specifications, always weak.

* `AutosaveSpec`: timers that are set run out and the next mutation of the queue
  starts (`TimerStep`), answers that arrived are taken by the event loop
  (`AnswerTaken`), and the server serves what reached it (`Serve`), per tab. Each of
  these stays possible until it happens, and JavaScript's event loop and Go's
  scheduler run what is ready. Nothing is assumed of users, losses, failures or
  writers elsewhere: `UnsavedGetsSaved` has the premise that the user leaves the
  canvas alone in the end, and that no more saves fail than there are retries, which
  is all the code promises. It ends where the bound on revisions ends the saves, and
  it leaves out builds closed under an autosave (section 6).
* `AssistantStoreSpec`: the server serves the request of each task, a task whose
  await is over goes on (`GoesOn`), and a turn that runs goes on. The timer of the
  polling is one of these. Users and other tabs may do nothing, or something again,
  up to the bound on acts, which is why "left alone" needs no premise.
* `BuildRowsSpec`: a statement that can run runs, and PostgreSQL finds a circle of
  waits (`deadlock_timeout`). That a lock is not taken by others for ever is the
  bound on requests here; PostgreSQL itself queues the waiters.

**Bounds.** `MaxRevision`, `MaxStray`, `MaxFailures`, `MaxRows`, `MaxRequests`,
`MaxActs`, `MaxTasks`, `MaxPieces`, `MaxEdits`, `MaxSaves`, `MaxChanges`, `MaxImports`
bound what a run does; they appear as guards of the steps that start something
(never of its end), and `Builds`, `Scenes`, `Cabling`, `Typed`, `Clusters`, `Plans`,
`HostChoices`, `Inputs`, `OldBuilds`, `Seats`, `Venues` and `Consoles` name what is tried;
`Joining`, `Small` and `Bounded` keep what is changed by operations and hands within
`Builds`. `HistoryLimit`, `MaxRetries`, `Kept`, `MaxMessages`,
`MaxSteps`, `MaxVMsPerNode`, `MaxTopologyOps`, `MaxIntegrations`, `MaxPowerOutputs` are the code's own
constants made small.

## 4. What is proved

Every theorem holds for every value of the constants that satisfies the named
assumption of its module (the special elements are distinct or members, the bounds
are numbers; devices, builds and the names of ports are finite, subnets divide the address space);
nothing is assumed about sets being finite or non-empty beyond that.

### The store and the server

* `TypeCorrect`: `Spec => []TypeOK`, with both undo stacks within `HISTORY_LIMIT`.
* `SavesAreInformed`: `Spec => []SavesSeeWhatTheyReplace`.
* `AnswersAreFresh`: `Spec => []AnswersAreNotOlder`.
* `UnsavedWorkIsKept`: `Spec => UnsavedShapeIsKept`, an action property.

Neither safety property is inductive. `SavesSeeWhatTheyReplace` speaks about the
log; whether the next save keeps it depends on what every tab and every message
in flight believes. The invariant `IInv` adds, for a tab that never took over a
foreign revision: what the log holds at the tab's revision has been on its canvas;
the same for the base of every save in flight and every late save; an answer
under way names a revision that exists, whose graph is the one it holds or an
older one, and each table it has read is as old as that revision or newer; and an accepted save's own revision holds what it sent. Each conjunct
is preserved by every action, one step per action, most of them because the
action leaves the log and the tab's revision alone.
The typing lemmas (what `SubSeq` and `Append` do to bounded stacks) come first, one per
group of actions. For the action property, an answer that replaces an unsaved canvas
pushes it on the undo stack, where cutting the stack to `HISTORY_LIMIT` takes the
oldest entries, never the newest, as long as the limit is not zero; every other step of
a tab moves the canvas from one stack to the other or leaves it.

### Autosave

* `AutosaveTypeCorrect`, `NothingIsForgotten` (`[]UnsavedIsScheduled`), `HeaderIsHonest`
  (`[]SavedMeansStored`), `AutosaveIsAStore` (`AutosaveSpec => Spec`),
  `AutosavesAreInformed` (`[]SavesSeeWhatTheyReplace` of this specification).

That nothing is forgotten is inductive together with the types (`Scheduled`): it speaks of
one tab, every step touches one tab or is a step of the server that no timer sees
(`Untouched`), and a step that leaves a canvas dirty goes through `notify` or ends a
mutation with its message. That "saved" stands over what the server holds needs the store
as well (`AllStored`): a clean canvas has the devices and cables of `synced`, and `synced`
those of the log at the revision that is `fresh`. It is kept because an answer that names
the newest revision and was read to its end holds the graph of that revision in every
table, and an accepted save makes a tab `fresh` only when it answers for its own revision
and nothing was edited meanwhile. The refinement needs no mapping, since autosave only adds
variables: a timer, leaving the page and coming back are stutters of the store, every
other step is the step of the store it is built on. What is proved of the store holds
with the timers by it.

### The rows of a build

* `BuildRowsTypeCorrect`, `RowsHold` (`[]RowsBelongTogether`), `SharingHolds`
  (`[]SharingIsTheOwners`), `LinkedSavesHold` (`LinkedSavesAreAllowed`, an action
  property).

The invariant says what a lock is worth (`Fits`): from the moment a save has read
the row until its transaction ends it holds the lock, *so the row it read is the row
that is stored*, which is alive and, for a save over a link, open to that link.
Writing all its columns back then changes nothing but the revision and the graph. A
removal holds the row before it takes it away. `OthersFit` is the one lemma about
interference: a request changes the row only when nobody else holds it, and never to
an older graph, which is what a copy relies on.

### Proposals

* `ProposalsTypeCorrect`: `ProposalsSpec => []ProposalsTypeOK`; its last part says
  that whoever holds the lock of a proposal finds it pending.
* `PreviewsMatch`: `ProposalsSpec => []PreviewMatchesBase`.
* `ReplacedDoNotWait`: `ProposalsSpec => []WaitingIsReplaced`.
* `AppliedAtMostOnce`: `ProposalsSpec => []AppliedOnce`.
* `DecisionsAreFinal`: `ProposalsSpec => ResolvedIsFinal`, an action property.
* `NewestOutlivePruning`: `ProposalsSpec => []NewestSettledAreKept`.
* `DecisionsHold`: `ProposalsSpec => DecisionsAreAtomic`, the refinement: every step
  of the requests is a step of `Decisions` or changes nothing it shows.

The invariant says what a request
may still believe between two of its transactions (`Fine`): it holds the lock of
a proposal that is pending; the operations it carries are those of the row; the
revision it read exists; the graph it read second is that of this revision *or of
a later one* until the dry run compared the two, and exactly that of this
revision afterwards, which is why a preview always matches the revision stored
beside it. `Exclusive` adds that no two sessions hold one lock: without it a
second `CommitApply` of the same proposal could not be excluded. Per row there
are the preview, what the row replaced and the revision it made, and per revision
the proposal that made it (`Attributed`), so that both directions of
`AppliedOnce` follow. `RowsGrow` and `LogGrows` are what every step does to rows
and log; two lemmas (`JobStep`, `RowStep`) carry the invariant over any step that
satisfies them, and one lemma per action shows that it does. The refinement uses
the same invariant: an apply commits operations and preview the row has.

Pruning counts: a row goes when enough newer settled ones stand behind it. That those
are still enough when some of them are pruned in the same statement is an argument on
the *largest* pruned row: everything newer that is settled is kept, and it is newer than
every other pruned row too, so all of them have that many kept ones behind them.

### Addresses

For every request, whatever gateways, pools, kept and wanted addresses it names
(`AllocatorSpec`):

* `GivenOnce` (`[]AddressesAreApart`), `GivenSafely` (`[]AddressesAreSafe`),
  `BlocksAreForGuests` (`BlocksStayClosed`, an action property).

For every build, whatever is edited between its saves (`Spec` of `Addresses`):

* `AddressesTypeCorrect` (`[]AddressesTypeOK`), and `EditedGivenOnce`,
  `EditedGivenSafely`, `EditedBlocksAreForGuests`, the same three;
* `GuestsAreOnTheNetwork` (`[]GuestsNeedAnUplink`);
* `PinnedSurvive` (`PinnedStay`, an action property).

The invariant ties the answer to the books the code keeps: whatever was kept or given
is owned by its device in `owners`, everything owned is in `used`, gateways own theirs
for nobody, and what is held lies in the subnet outside its pool (`Holds`). An address
has one owner, so no two devices hold it. For the blocks a second part (`BInv`) says
that what was set aside is still marked while hosts are served, so a search that
begins again at the start of a full subnet passes over it.

For a build, `EInv` adds that an edited build stays one (`BuildFits`: guests have one
host, cables two ends, addresses and subnets lie in the address space), and that a
request under way is the one the build makes (`Asked`). What `planIPAM` makes of a
build can be answered (`AsksWell`): its gateways are routers, LANs of NAT gateways and
ports, in three rows (`GatewayList`), each put in order by `InOrder`, which lists every
member of a finite set once; the LANs are opened one after the other, each beside
those before it.

A pinned address needs a third part, `Pins`: while addresses are reserved, only those
are taken that a device served before asked for, besides the ends and gateways of the
subnet. So an address nobody else asks for (`Unrivalled`) is still free at its turn and
is kept; who keeps one is given it in a later stage, if it can be served at all.

A guest is given an address only if it takes part in the request, so `planIPAM` found
its network connected and hlbIPAM its host. That the build a save has *written* would
be judged the same is what remains: a save changes addresses, LANs and guests'
addresses, and neither the role of a device, the ends of a cable nor the names of
gateways depend on them (`Alike`, `OwnersAlike`), so the same devices are reached.

### The assistant

* `AssistantTypeCorrect`, `OneTurnHolds` (`[]SlotIsTheTurn`), `SentHolds`
  (`[]SentIsWhatIsStored`), `AnswersHold` (`[]EveryCallIsAnswered`), `TellingHolds`
  (`[]NextMessageTells`).

That what is sent is what is stored is said up to what a row can hold: the conversation
in memory, each message as it is written (`AsStored`), is the one rebuilt from the rows;
that writing twice is writing once, and that neither calls nor the order of messages
change by it, are lemmas of their own (`Stripped`, `AsStoredRow`).

The rebuilding of a conversation from its rows (`Rebuilt`) is a recursive function that
takes one row at a time; the lemmas say what one more row adds, and that a row with
calls stays without an answer only while it is the last one. Where the rows end
(`Closed`, or `Paired` with the calls of the last row) follows from the stage of the turn
that stores them. `Asking` says that the conversation a turn continues in memory is what
would be rebuilt now, `Telling` that what was decided lies between the rows the select
compares, and that one turn owns the slot makes every other request wait or fail.

### The panel

* `AssistantStoreTypeCorrect`, `ScreensStayApart` (`[]ScreenIsItsBuilds`),
  `OneTaskIsBusy` (`[]BusyIsOneTask`), `ScreenIsKept` (`[]ScreenIsWhatIsStored`).

The invariant has two parts. `Control` holds whatever the screen was not told of: a
current task is one of the build that is shown (`Sound`); the panel's controller can
give up every message that may still reach the server (`Attached`), which is why no
message of an earlier `send` can start a turn behind the panel's back; the turn's
client is the stream that listens to it (`Heard`); and the message under way is the
newest entry of the screen, what the turn has said being on that entry or on the wire
(`OnTop`). `Content` is about the conversations, and is silent while the screen is
`Excused` (there is a reason in `missed`, or a clear is still to be taken): an idle panel shows
what is stored and no turn adds to it (`Resting`); an answer that says no turn runs holds
the stored rows (`Answered`); a message under way stands on top of what was stored
before its turn, and once its stream is closed the stored row is the newest entry with
the pieces on the wire (`Sent`). `ScreenIsWhatIsStored` alone is not inductive, because
`reconcile` and the follower take over an idle screen from one that is not.

What a screen tells (`Told`) is a recursive function over its entries; the lemmas give
what it tells of a prefix, of an entry more and of a changed newest entry, by
well-founded induction over the naturals (`Counting`). The proof goes through the steps
once for each part: the server's, the user's, then those of the functions that go on.

### Connections

* `IntegrationsTypeCorrect`, `SecretsStayHome` (`[]SecretsGoWhereTheyWereEntered`),
  `OverlapsOnly` (`[]OnlyOverlapsDisturb`).

The invariant says that the row a request carries is *paired* as the stored ones are
(`Sound`), so that it does not matter which version it writes back. The three parts
of `OverlapsOnly` have an invariant each, under the premise that the overlap did not
happen: a request that links a host has seen all its items and is alone with it
(`LinksInv`), one that will write finds its integration (`RemovalInv`).

### Topology, power and plans

All of `ProjectSpec`, change sets and hands over builds that come from a plan, from
nothing or from an older version:

* `BuildsKeepTheirShape` (`[]TopologyTypeOK`), `ProgramsAreAccepted`
  (`[]ProgramsKeepAcceptable`), `PlansAlwaysFit` (`[]PlansFit`), `OpsAlwaysMountApart`
  (`OpsMountApart`, an action property), `HandsAlwaysKeepAcceptable`
  (`HandsKeepAcceptable`, an action property), `SharedFeedsAreAlwaysWarned`
  (`[]SharedFeedsAreWarned`);
* `ReachedIsLeast`, the lemma they all rest on, and `NothingIsCut`: where the builds
  explored are those of every size, the bound on them leaves no step out, so the
  theorems, which hold for every `Builds`, are about builds of any size.

The invariant is `ProjectInv`. Whoever changed a build last, it is `Sound`: devices without
an issue, cables between two of them, and no two cables on one port, *tunnels included*
(`Apart`). What a program left last is also `Wired`: every cable may lie where it lies,
and no way along power cables leads back. For a sound build that is exactly what a save
accepts (`AcceptedIsWired`). Acceptance alone is not inductive: the save lets a tunnel
share the port of a cable, and an operation or the panel may turn a tunnel into a cable;
it is kept because whoever plugs a cable in looks for a free port among all of them
(`usedHandles`). What is still an old build is as it was stored (`Stored`), what is a plan
fits its ports and racks (`Fits`). Each operation and each thing a hand does has its
lemma; the two programs that draw a cable, one in Go and one in TypeScript, share the
lemma on a cable more.

Three arguments carry the rest. *Walks*: `ReachedBy` stops after as many rounds as there
are pairs. A round that adds nothing is followed by none that does, so until then each
adds one, and there are no more to add (`ReachedIsLeast`, with the cardinality of a
finite set). Least sets make the loop checks talk about the same thing: a new cable
closes a loop exactly if its feeder was reached from what it feeds. *Orders*: a
conversion is taken one old cable at a time; each turn leaves the others as they are,
so that by induction over their number none is left in the end and a save accepts what is,
in whatever order they came. *Stars*: a plan joins every device to one switch or
router, each with the next port of that one, so distinct parts have distinct ports; for
a party the switch's size is taken from `corePorts`, which is at least what is plugged in,
by arithmetic over any number of tables and consoles.

What is dark when something fails (`Dark`) is found in rounds as well, and is the least
set of sources all of whose feeds are dark. That a warning is never missing follows since
whatever is dark has the failed thing among the things upstream of it, on each of two
supplies; the converse, that a warning means a failure that takes two, holds where no
source in between has two feeds, and there a walk upstream is a chain that goes dark link
by link.

The assumptions are the ones of the modules: devices are finitely many and no circuit has
the name of one (the code keeps them apart by a prefix), old builds are `Stored`, the
parts of a plan are distinct devices of the types the planner asks for, and there are
enough tables for the seats that are tried.

### Only model-checked

`ImportSettles`, `ImportFits` and `GuestsAreImportedOnce` of `Import`: the pairing of
hosts, the matching of guests and the room on a host are folds over the lists of a
reading, which take their step as an operator, so what they compute for every input is
an induction over data. `SavesSettle` of `Addresses`, which compares the answers of four
saves in a row, each a run of the allocator. Liveness under fairness (`UnsavedGetsSaved`,
`BusyEnds`, `RequestsEnd`) and what needs ENABLED. Recursion is
written as recursive functions and folds; there are no RECURSIVE operators. The type
invariants of all modules but `Import` are proved.

## 5. What is not modelled

Whole components are listed with their reason in `PROJECT.json`: text generation and
content (exports, guides, landing pages, the setup plan), pure reports and fitting
rules without state (gaming, blueprints, recommendations), geometry (layout),
cryptography and clients of external services, and single rows that are created and
read by one user (settings, tokens, surveys). The rate limiter and the tokens are
counters behind a mutex or a soft limit; what can go wrong is one line of `hazards`
each. Two thirds of the code is presentation and content of this kind, which is why the
map covers a small share of all lines and most of the lines that decide something.

Inside the modelled components: selection, focus, layout, measurement and validation
issues of the store; the contents of operations and the addresses calculated for a save
in `BuilderStore` and `Proposals`; the conversion's notice, and the power loads and the other
warnings of a build; in plans names, speeds, circuits and what runs on the hosts; the name of a build as an edit of its own (a rename
is a revision with the same graph); several builds at once in the store (a tab that
switches builds is one that closes and opens); names, fields nothing checks and texts in
`Topology`; names of pools and legacy statuses in `Addresses`; real addresses, storage
and templates in `Import`, and a build made by an import; the test of a connection with
a secret that is typed but not saved; tool steps and focus of the assistant's panel.

## 6. What was found on the way

Beside `post_commit_read`, these follow from the models and the code; they have no run
of their own.

**Saves.** A save that was committed and then answered with an error (`ReadFails` after
`CommitSave`) comes back on its retry as "changed elsewhere", because an error answer,
unlike a lost one, leaves `unconfirmedSave` empty. A rename elsewhere that follows a
lost save is taken for the tab's own. A value edited while a save is in flight is
overwritten by the addresses and details of its answer. Undoing an edit while it is
saved leaves "saved" over a canvas the server does not hold: the answer moves the tab to
the new revision and keeps the old `synced` (`builder-store.ts:1093-1107`), so the undone
canvas counts as clean and nothing saves it, though the canvas "says honestly whether it is
saved" (`README.md:22` of the repository); `SavedMeansStored` without its last premise is
violated that way, in a trace of 15 states. An answer may mix two revisions, and a guest be missing
whose device was replaced between two queries; the tab shows it, and its next save, made
from the older of the two revisions, is refused. Opening a build that is
open replaces edits made while it loads and empties the undo history. Closing a build
under a queued or running autosave makes that save fail, and the failure counts against
the retries of the next build.

**Rows.** A removal that meets a save in flight may fail as a whole with a foreign-key
error, answered as "Failed to delete build". Two first shares at once each make a link,
and the first one's stops working. A copy reads the row and the tables of the graph
separately, so it may hold those of different revisions, and lacks what was still to be
read when the build is removed.

**Proposals.** Two sessions that propose at once leave two proposals waiting. Of two
reviews that overlap, the slower one may store the preview of the older revision last
(`WriteReview` compares no revisions); the next review repairs it, and Apply
recalculates anyway. A proposal decided while its own turn is still writing is settled
before that turn's next rows are stored, so no later turn is told of it
(`ResolvedForThread` compares with the newest row), though its comment says "so the next
chat turn can tell the model what the user decided".

**Topology.** On the canvas a second link between two devices can be drawn when network
loops are allowed, which the save refuses; disks and cards can be cabled; counts can
drop below what is plugged in; what is mounted may overlap. Replaying a power cable
swaps its ends but not its handles. Turning a VPN into an Ethernet cable is not checked
for loops. A new guest is wired to the first switch even when that is isolated, while
`docs/VIRTUAL-NETWORKS.md` says new machines start without a link. The warning about a
shared dependency looks at what *may* feed a source: it is also given when a source in
between has a second feed of its own, so that no single failure takes both supplies.
A homelab's UPS is planned without a cable.

**Addresses.** A gateway may lie in its own DHCP pool. Overlapping subnets with
different masks count as separate. The first save of a router without an address
ignores its mask and the second moves everything; guests keep addresses their host has
lost. Addresses therefore settle only with the fourth save.

**Assistant.** A message is stored without its NUL characters, and without the provider's
own form when that spells one (`assistant_thread_service.go:139-154`); the turn goes on
with what came (`agent.go:380-383`), so its next request is not the conversation that is
replayed later, though `agent.go:205-207` keeps the note with the message "so the
conversation replays identically later".

**Assistant panel.** `clear` looks at the status before its request only: a message sent,
or the build loaded again, while the conversation is being deleted loses its run
number, so the panel stays busy and a queued message never goes out (`stranded`); its
answer also wipes what was sent and answered meanwhile (`assistant-store.ts:535-538`,
against "What is shown is what the server has", `assistant-panel.tsx:124`). A message given up before its
first event counts as not accepted though the server may have stored it. A queued
message is dropped when the conversation is full. After a failed load a message can be
sent whose reply stays hidden behind the error.

**Connections and inventory.** The comment at `integration_service.go:228-230` says that
a changed token drops the trusted certificate too; the code drops it with a changed
address only, as `docs/INVENTORY.md:168-170` says. A change saved after a removal stores the row again,
secret included. A reading that finishes after new settings leaves the old cluster's
hosts, and a rename rolls back a reading stored meanwhile. An edit of an item writes an
older link back, and two link requests give a host two items. Limits are counted and
used in separate statements.

**Import.** A proposal carries no revision of the import, so the message "The project was
changed while the import was prepared. Try again." cannot appear for proposals, and a
race plans a guest twice (`raced`). Importing again does change something when a
removal made room for a ticked guest, or when two devices name one host
(`AgainChangesNothing`, against `docs/INVENTORY.md:150`). Ids of guests are not qualified by
their connection.

## 7. Plan

Done: the store, autosave, the server and its rows, proposals with their refinement,
topology with plans and old builds, addresses, assistant and panel, connections and import. What is left, in this
order:

1. Proofs: that a guest is imported once (`Import`), with its folds as recursive functions.
2. An abstract build (a sequence of informed replacements) implemented by `BuilderStore`.
3. The fitting rules of blueprints and gaming as operators against a reference
   definition, and the sizes of planned hosts.
