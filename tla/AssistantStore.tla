--------------------------- MODULE AssistantStore ---------------------------
(***************************************************************************)
(* The assistant's panel in one browser tab: the conversation it shows, the *)
(* message being the one that waits, and the requests under way      *)
(* (frontend/src/features/assistant/store/assistant-store.ts).              *)
(*                                                                          *)
(* Every function of the store that awaits is a task here.  `run` decides   *)
(* which tasks may still write: it is only ever compared for equality with  *)
(* a number a task took when it began, so a task is current or it is not.   *)
(* The server is what the panel sees of it: a stored conversation per build *)
(* and one turn at a time for the user, whichever tab began it (Assistant   *)
(* models how a turn is stored).                                            *)
(*                                                                          *)
(* Data: a turn is its message and the pieces of its reply so far.          *)
(***************************************************************************)
EXTENDS Naturals, Sequences

CONSTANTS
    Builds, Messages,  \* the user's builds, and what is typed in this tab
    Others,            \* messages sent from another tab
    None,
    MaxMessages,       \* maxThreadMessages, in turns
    MaxPieces,         \* bound: pieces of a reply
    MaxTasks,          \* bound: requests under way
    MaxFailures,       \* bound: requests and streams that are lost
    MaxActs            \* bound: what the user does, here and in other tabs

ASSUME AssistantStoreAssumption ==
    /\ None \notin Builds \cup Messages \cup Others
    /\ Messages \cap Others = {}
    /\ MaxMessages \in Nat \ {0} /\ MaxPieces \in Nat
    /\ MaxTasks \in Nat \ {0} /\ MaxFailures \in Nat /\ MaxActs \in Nat

VARIABLES
    ui,        \* the state of the store that is rendered
    tasks,     \* the functions that wait for something
    thread,    \* the stored conversation of every build
    turn,      \* Agent.running: the user's turn
    strays,    \* requests given up here that may still reach the server
    failures, acts,
    missed,    \* history: why the screen may not show what is stored
    stranded   \* history: a clear ended while the panel was busy

vars == <<ui, tasks, thread, turn, strays, failures, acts, missed, stranded>>
server == <<thread, turn, strays>>

Slots == 1 .. MaxTasks
Texts == Messages \cup Others
Stored == [what : Texts, parts : 0 .. MaxPieces]
Entry == [of : Builds, what : Texts \cup {None}, parts : 0 .. MaxPieces,
          mark : {"", "error", "refused"}]
Answer == [running : BOOLEAN, rows : Seq(Stored)]

NoAnswer == [running |-> FALSE, rows |-> <<>>]
NoTask == [kind |-> "none", stage |-> "", build |-> None, current |-> FALSE, what |-> None,
           back |-> FALSE, accepted |-> FALSE, aborted |-> FALSE, ending |-> "lost",
           answer |-> NoAnswer, wire |-> <<>>]
NoTurn == [build |-> None, what |-> None, client |-> 0, stored |-> FALSE, said |-> 0]
OtherTab == MaxTasks + 1  \* a turn nobody here listens to
Ended == MaxTasks + 1     \* an AbortController whose request is over

Panel == [build : Builds \cup {None}, loaded : BOOLEAN, screen : Seq(Entry),
          status : {"idle", "loading", "streaming", "stopping", "following"},
          full : BOOLEAN, error : BOOLEAN, draft : Messages \cup {None},
          queued : Messages \cup {None}, controller : 0 .. Ended]
Task == [kind : {"none", "load", "refresh", "send", "follow", "clear"},
         stage : {"", "prepare", "ask", "reading", "told", "failed", "busy", "full",
                  "stream", "wait"},
         build : Builds \cup {None}, current : BOOLEAN, what : Messages \cup {None},
         back : BOOLEAN, accepted : BOOLEAN, aborted : BOOLEAN,
         ending : {"lost", "done", "error", "stopped"}, answer : Answer,
         wire : Seq({"start", "piece", "error", "done", "full"})]
Turn == [build : Builds \cup {None}, what : Texts \cup {None}, client : 0 .. OtherTab,
         stored : BOOLEAN, said : 0 .. MaxPieces]

\* Another tab changed the conversation; what this tab sent was given up or its
\* connection broke before anything came back; the stored conversation could not be
\* read again; the late answer of a clear wiped what was said since it was served.
Reasons == {"elsewhere", "lost", "unread", "wiped"}

AssistantStoreTypeOK ==
    /\ ui \in Panel
    /\ tasks \in [Slots -> Task]
    /\ thread \in [Builds -> Seq(Stored)]
    /\ turn \in Turn
    /\ strays \subseteq [build : Builds, what : Messages]
    /\ failures \in 0 .. MaxFailures /\ acts \in 0 .. MaxActs
    /\ missed \subseteq Reasons /\ stranded \in BOOLEAN

AssistantStoreInit ==
    /\ ui = [build |-> None, loaded |-> FALSE, screen |-> <<>>, status |-> "idle",
             full |-> FALSE, error |-> FALSE, draft |-> None, queued |-> None, controller |-> 0]
    /\ tasks = [k \in Slots |-> NoTask]
    /\ strays = {}
    /\ thread = [b \in Builds |-> <<>>]
    /\ turn = NoTurn
    /\ failures = 0 /\ acts = 0 /\ missed = {} /\ stranded = FALSE

-----------------------------------------------------------------------------
(* Parts of the store's functions.                                          *)

Is(k, kind, stage) == tasks[k].kind = kind /\ tasks[k].stage = stage
Free == {k \in Slots : tasks[k].kind = "none"}
FreeSlot == CHOOSE k \in Free : \A other \in Free : k <= other

\* Mutation: run is not bumped.
StillCurrent(all) == all

\* run++ with nothing that takes the new number.
Stale(all) == [k \in Slots |-> [all[k] EXCEPT !.current = FALSE]]

\* threadToMessages
Shown(b, rows) == [i \in DOMAIN rows |->
    [of |-> b, what |-> rows[i].what, parts |-> rows[i].parts, mark |-> ""]]

\* The errors only this session knows stay under the last reply (`keep`).
WithErrors(b, entries) ==
    IF entries = <<>> THEN <<[of |-> b, what |-> None, parts |-> 0, mark |-> "error"]>>
    ELSE [entries EXCEPT ![Len(entries)].mark = "error"]

Mark(u, mark) == [u EXCEPT !.screen[Len(u.screen)].mark = mark]

\* send, from its checks to the first await, in a store that is idle.
Streaming(u, k, m) ==
    [u EXCEPT !.status = "streaming", !.controller = k,
              !.screen = Append(@, [of |-> u.build, what |-> m, parts |-> 0, mark |-> ""])]
SendTask(b, m, back) ==
    [NoTask EXCEPT !.kind = "send", !.stage = "prepare", !.build = b, !.current = TRUE,
                   !.what = m, !.back = back]

\* A function returns, and with it its task.
Ends(k) == tasks' = [tasks EXCEPT ![k] = NoTask]
WithoutRequest(k, u) == [u EXCEPT !.controller = IF @ = k THEN Ended ELSE @]

\* finish of a current task: back to idle, and the message that waited goes out, its
\* outcome to nobody.
Finish(k, u) ==
    IF u.queued # None /\ ~u.full
    THEN /\ ui' = Streaming([u EXCEPT !.queued = None], k, u.queued)
         /\ tasks' = [Stale(tasks) EXCEPT ![k] = SendTask(u.build, u.queued, FALSE)]
    ELSE /\ ui' = [u EXCEPT !.status = "idle", !.queued = None, !.controller = 0]
         /\ Ends(k)

\* What the panel does with a message that was not accepted: back into the box.
Back(k, u) ==
    IF tasks[k].back /\ ~tasks[k].accepted /\ u.draft = None
    THEN [u EXCEPT !.draft = tasks[k].what] ELSE u

\* controller.abort(): a request on its way may still arrive, and the server learns
\* that the connection of a turn is gone.
Sending(k) == k \in Slots /\ tasks[k].kind = "send"
GivenUp(k) ==
    IF Sending(k) /\ tasks[k].stage = "ask"
    THEN {[build |-> tasks[k].build, what |-> tasks[k].what]} ELSE {}
Aborted(all, k) ==
    IF ~Sending(k) THEN all
    ELSE [all EXCEPT ![k].aborted = TRUE, ![k].stage = IF @ = "prepare" THEN @ ELSE "stream"]
Unheard(k) == IF Sending(k) /\ turn.client = k THEN [turn EXCEPT !.client = 0] ELSE turn

-----------------------------------------------------------------------------
(* What the user does.                                                      *)

\* loadThread of another build, or forced: what was streaming belongs to the old
\* conversation.
Load(b) ==
    /\ Free # {}
    /\ ui' = [build |-> b, loaded |-> FALSE, screen |-> <<>>, status |-> "loading",
              full |-> FALSE, error |-> FALSE,
              draft |-> IF ui.build = b THEN ui.draft ELSE None,
              queued |-> None, controller |-> 0]
    /\ tasks' = [Stale(Aborted(tasks, ui.controller)) EXCEPT ![FreeSlot] =
                    [NoTask EXCEPT !.kind = "load", !.stage = "ask", !.build = b, !.current = TRUE]]
    /\ turn' = Unheard(ui.controller) /\ strays' = strays \cup GivenUp(ui.controller)
    /\ missed' = {} /\ stranded' = FALSE
    /\ UNCHANGED <<thread, failures>>

\* The panel is opened on a build: loadThread, unless the conversation is here or
\* the store is busy with it.
OpenPanel(b) ==
    /\ ~(ui.build = b /\ (ui.loaded \/ ui.status # "idle"))
    /\ Load(b)

\* The panel is opened again: refreshThread.
Reopen ==
    /\ ui.loaded /\ ui.status = "idle" /\ Free # {}
    /\ tasks' = [tasks EXCEPT ![FreeSlot] =
                    [NoTask EXCEPT !.kind = "refresh", !.stage = "ask", !.build = ui.build,
                                   !.current = TRUE]]
    /\ UNCHANGED <<ui, server, failures, missed, stranded>>

\* "Try again" under a conversation that could not be loaded.
TryAgain == ui.error /\ Load(ui.build)

\* The composer takes text unless the conversation is loading or full.
Open == ui.build # None /\ ui.status # "loading" /\ ~ui.full

\* A message is written and left in the box.
Type(m) ==
    /\ Open /\ ui.draft = None
    /\ ui' = [ui EXCEPT !.draft = m]
    /\ UNCHANGED <<tasks, server, failures, missed, stranded>>

\* send, of what is in the box or written now: at once, or when the turn before it is
\* over.
Send(m) ==
    /\ Open /\ ui.draft \in {None, m}
    /\ IF ui.status = "idle"
       THEN /\ Free # {}
            /\ ui' = Streaming([ui EXCEPT !.draft = None], FreeSlot, m)
            /\ tasks' = [Stale(tasks) EXCEPT ![FreeSlot] = SendTask(ui.build, m, TRUE)]
       ELSE /\ ui.queued = None
            /\ ui' = [ui EXCEPT !.draft = None, !.queued = m]
            /\ UNCHANGED tasks
    /\ UNCHANGED <<server, failures, missed, stranded>>

CancelQueued ==
    /\ ui.queued # None
    /\ ui' = [ui EXCEPT !.queued = None]
    /\ UNCHANGED <<tasks, server, failures, missed, stranded>>

Stop ==
    /\ ui.controller # 0 /\ ui.status = "streaming"
    /\ ui' = [ui EXCEPT !.status = "stopping"]
    /\ tasks' = Aborted(tasks, ui.controller)
    /\ turn' = Unheard(ui.controller) /\ strays' = strays \cup GivenUp(ui.controller)
    /\ UNCHANGED <<thread, failures, missed, stranded>>

Clear ==
    /\ ui.status = "idle" /\ ui.screen # <<>> /\ Free # {}
    /\ tasks' = [tasks EXCEPT ![FreeSlot] =
                    [NoTask EXCEPT !.kind = "clear", !.stage = "ask", !.build = ui.build]]
    /\ UNCHANGED <<ui, server, failures, missed, stranded>>

Switches == (\E b \in Builds : OpenPanel(b)) \/ TryAgain
UserStep ==
    \/ Switches \/ Reopen \/ CancelQueued \/ Stop \/ Clear
    \/ \E m \in Messages : Type(m) \/ Send(m)

-----------------------------------------------------------------------------
(* The server, as far as the panel can tell.                                *)

FullAt(b) == Len(thread[b]) >= MaxMessages
Emit(all, event) ==
    IF turn.client \in Slots THEN [all EXCEPT ![turn.client].wire = Append(@, event)] ELSE all

\* Prepare: one turn at a time for the user, and a conversation has an end.
TurnOf(b, m, client) == [NoTurn EXCEPT !.build = b, !.what = m, !.client = client]
ServeSend(k) ==
    /\ Is(k, "send", "ask")
    /\ IF turn = NoTurn /\ ~FullAt(tasks[k].build)
       THEN /\ turn' = TurnOf(tasks[k].build, tasks[k].what, k)
            /\ tasks' = [tasks EXCEPT ![k].stage = "stream"]
       ELSE /\ tasks' = [tasks EXCEPT ![k].stage = IF turn = NoTurn THEN "full" ELSE "busy"]
            /\ UNCHANGED turn
    /\ UNCHANGED <<ui, thread, strays, failures, missed, stranded>>

\* A request that was given up is served all the same, or never arrives.
ServeStray(s) ==
    /\ s \in strays /\ strays' = strays \ {s}
    /\ IF turn = NoTurn /\ ~FullAt(s.build)
       THEN \/ turn' = TurnOf(s.build, s.what, 0) /\ missed' = missed \cup {"lost"}
            \/ UNCHANGED <<turn, missed>>
       ELSE UNCHANGED <<turn, missed>>
    /\ UNCHANGED <<ui, tasks, thread, failures, stranded>>

\* Run: the user's message is stored, then the reply streams, stored piece by piece
\* a little later; a turn whose user is gone stops writing.
StoreMessage ==
    /\ turn # NoTurn /\ ~turn.stored
    /\ thread' = [thread EXCEPT ![turn.build] = Append(@, [what |-> turn.what, parts |-> 0])]
    /\ turn' = [turn EXCEPT !.stored = TRUE]
    /\ tasks' = Emit(tasks, "start")
    /\ UNCHANGED <<ui, strays, failures, missed, stranded>>
Say ==
    /\ turn.stored /\ turn.said < MaxPieces /\ turn.client # 0
    /\ turn' = [turn EXCEPT !.said = @ + 1]
    /\ tasks' = Emit(tasks, "piece")
    /\ UNCHANGED <<ui, thread, strays, failures, missed, stranded>>
Kept == [thread EXCEPT ![turn.build][Len(thread[turn.build])].parts = turn.said]
Keep ==
    /\ turn.stored /\ thread' = Kept /\ thread' # thread
    /\ UNCHANGED <<ui, tasks, turn, strays, failures, missed, stranded>>

\* The turn ends, well or with an error; then the slot is free and the stream closed.
EndTurn ==
    /\ turn.stored
    /\ thread' = Kept /\ turn' = NoTurn
    /\ \/ tasks' = Emit(tasks, IF FullAt(turn.build) THEN "full" ELSE "done")
       \/ tasks' = Emit(tasks, "error")
    /\ UNCHANGED <<ui, strays, failures, missed, stranded>>

\* Agent.Thread: whether a turn runs is read before the rows.
ReadRunning(k) ==
    /\ tasks[k].kind \in {"load", "refresh", "follow"} /\ tasks[k].stage = "ask"
    /\ tasks' = [tasks EXCEPT ![k].stage = "reading",
                              ![k].answer.running = (turn.build = tasks[k].build)]
    /\ UNCHANGED <<ui, server, failures, missed, stranded>>
ReadRows(k) ==
    /\ tasks[k].stage = "reading"
    /\ tasks' = [tasks EXCEPT ![k].stage = "told", ![k].answer.rows = thread[tasks[k].build]]
    /\ UNCHANGED <<ui, server, failures, missed, stranded>>

\* ClearThread, which is refused during a turn.
ServeClear(k) ==
    /\ Is(k, "clear", "ask")
    /\ IF turn = NoTurn
       THEN /\ thread' = [thread EXCEPT ![tasks[k].build] = <<>>]
            /\ tasks' = [tasks EXCEPT ![k].stage = "told"]
       ELSE /\ tasks' = [tasks EXCEPT ![k].stage = "busy"]
            /\ UNCHANGED thread
    /\ UNCHANGED <<ui, turn, strays, failures, missed, stranded>>

\* Another tab of the same user sends a message or clears a conversation.
ChangedElsewhere(b) == IF b = ui.build THEN {"elsewhere"} ELSE {}
Elsewhere ==
    /\ turn = NoTurn
    /\ \/ \E b \in Builds, m \in Others :
             /\ ~FullAt(b) /\ turn' = TurnOf(b, m, OtherTab)
             /\ \A c \in Builds : \A i \in DOMAIN thread[c] : thread[c][i].what # m
             /\ missed' = missed \cup ChangedElsewhere(b) /\ UNCHANGED thread
       \/ \E b \in Builds :
             /\ Others # {} /\ thread[b] # <<>>
             /\ thread' = [thread EXCEPT ![b] = <<>>]
             /\ missed' = missed \cup ChangedElsewhere(b) /\ UNCHANGED turn
    /\ UNCHANGED <<ui, tasks, strays, failures, stranded>>

\* A request does not reach the server, or the server cannot answer it.
RequestFails(k) ==
    /\ failures < MaxFailures /\ failures' = failures + 1
    /\ tasks[k].stage = "ask"
    /\ tasks' = [tasks EXCEPT ![k].stage = "failed"]
    /\ UNCHANGED <<ui, server, missed, stranded>>

\* The connection of a stream breaks; the server stops the turn.
StreamBreaks(k) ==
    /\ failures < MaxFailures /\ failures' = failures + 1
    /\ Is(k, "send", "stream") /\ turn.client = k
    /\ tasks' = [tasks EXCEPT ![k].stage = "failed"]
    /\ turn' = [turn EXCEPT !.client = 0]
    /\ UNCHANGED <<ui, thread, strays, missed, stranded>>

Serve(k) == ServeSend(k) \/ ReadRunning(k) \/ ReadRows(k) \/ ServeClear(k)
TurnStep == StoreMessage \/ Say \/ Keep \/ EndTurn

-----------------------------------------------------------------------------
(* The functions go on.                                                     *)

\* What is read replaces what is shown.
Replaced(k) ==
    LET entries == Shown(tasks[k].build, tasks[k].answer.rows)
    IN  [ui EXCEPT !.screen = IF tasks[k].ending = "error" THEN WithErrors(ui.build, entries) ELSE entries,
                   !.full = Len(tasks[k].answer.rows) >= MaxMessages]
\* The screen is up to date again once the latest rows are on it and no turn adds more.
Behind(k) == tasks[k].answer.rows # thread[tasks[k].build] \/ turn.build = tasks[k].build
UpToDate(k) == missed' = IF Behind(k) THEN missed ELSE {}
Follow(k, stage) ==
    [NoTask EXCEPT !.kind = "follow", !.stage = stage, !.build = ui.build, !.current = TRUE]

\* Mutation: the answer of an older load is shown.
LoadedAnyway(k) ==
    /\ Is(k, "load", "told")
    /\ ui' = [Replaced(k) EXCEPT !.loaded = TRUE, !.status = "idle"] /\ Ends(k)
    /\ UNCHANGED <<server, failures, missed, stranded>>

Loaded(k) ==
    /\ Is(k, "load", "told")
    /\ IF ~tasks[k].current THEN Ends(k) /\ UNCHANGED <<ui, missed>>
       ELSE /\ ui' = [Replaced(k) EXCEPT !.loaded = TRUE,
                           !.status = IF tasks[k].answer.running THEN "following" ELSE "idle"]
            /\ IF tasks[k].answer.running THEN tasks' = [tasks EXCEPT ![k] = Follow(k, "wait")] ELSE Ends(k)
            /\ UpToDate(k)
    /\ UNCHANGED <<server, failures, stranded>>

LoadFails(k) ==
    /\ Is(k, "load", "failed") /\ Ends(k)
    /\ ui' = IF tasks[k].current THEN [ui EXCEPT !.status = "idle", !.error = TRUE] ELSE ui
    /\ UNCHANGED <<server, failures, missed, stranded>>

\* Mutation: what was read is shown without a look at `run` or the status.
RefreshedAnyway(k) ==
    /\ Is(k, "refresh", "told") /\ Ends(k)
    /\ ui' = Replaced(k) /\ UpToDate(k)
    /\ UNCHANGED <<server, failures, stranded>>

Refreshed(k) ==
    /\ Is(k, "refresh", "told")
    /\ IF ~tasks[k].current \/ ui.status # "idle" THEN Ends(k) /\ UNCHANGED <<ui, missed>>
       ELSE /\ ui' = [Replaced(k) EXCEPT !.status = IF tasks[k].answer.running THEN "following" ELSE @]
            /\ IF tasks[k].answer.running
               THEN tasks' = [Stale(tasks) EXCEPT ![k] = Follow(k, "wait")] ELSE Ends(k)
            /\ missed' = IF Behind(k) THEN missed \cup {"elsewhere"} ELSE {}
    /\ UNCHANGED <<server, failures, stranded>>

\* reconcile: until no turn runs, or for FOLLOW_LIMIT_MS; what cannot be read is left.
Wait(k) ==
    /\ Is(k, "follow", "wait")
    /\ IF tasks[k].current
       THEN tasks' = [tasks EXCEPT ![k].stage = "ask", ![k].answer = NoAnswer] ELSE Ends(k)
    /\ UNCHANGED <<ui, server, failures, missed, stranded>>
Reconciled(k) ==
    /\ Is(k, "follow", "told")
    /\ IF ~tasks[k].current THEN Ends(k) /\ UNCHANGED <<ui, missed>>
       ELSE LET u == [Replaced(k) EXCEPT !.loaded = TRUE, !.error = FALSE]
            IN  \/ ~tasks[k].answer.running /\ Finish(k, u) /\ UpToDate(k)
                \/ /\ tasks[k].answer.running
                   /\ ui' = u /\ tasks' = [tasks EXCEPT ![k].stage = "wait"] /\ UNCHANGED missed
    /\ UNCHANGED <<server, failures, stranded>>

\* Mutation: an error while reading leaves the function before its finish.
ReconcileThrows(k) ==
    /\ tasks[k].kind = "follow" /\ tasks[k].stage = "failed" /\ Ends(k)
    /\ UNCHANGED <<ui, server, failures, missed, stranded>>

GivesUp(k) ==
    /\ tasks[k].kind = "follow"
    /\ tasks[k].stage = "failed" \/ (tasks[k].stage = "told" /\ tasks[k].current /\ tasks[k].answer.running)
    /\ IF ~tasks[k].current THEN Ends(k) /\ UNCHANGED <<ui, missed>>
       ELSE /\ Finish(k, IF tasks[k].stage = "failed" THEN ui
                         ELSE [Replaced(k) EXCEPT !.loaded = TRUE, !.error = FALSE])
            /\ missed' = missed \cup {"unread"}
    /\ UNCHANGED <<server, failures, stranded>>

\* The rest of send, once the stream is over: u is the store with its last patches.
SendOver(k, u, ending) ==
    IF ~tasks[k].current
    THEN /\ ui' = Back(k, WithoutRequest(k, u)) /\ Ends(k) /\ UNCHANGED missed
    ELSE IF ending # "done" /\ tasks[k].accepted
    THEN /\ ui' = [u EXCEPT !.status = IF ending = "stopped" THEN "stopping" ELSE "following"]
         /\ tasks' = [tasks EXCEPT ![k] = [Follow(k, "ask") EXCEPT
                         !.ending = IF ending = "stopped" THEN "done" ELSE "error"]]
         /\ UNCHANGED missed
    ELSE /\ Finish(k, Back(k, u))
         /\ missed' = IF ending \in {"stopped", "lost"} THEN missed \cup {"lost"} ELSE missed

\* The canvas is saved (or could not be) and the message goes out.
Prepared(k) ==
    /\ Is(k, "send", "prepare")
    /\ IF tasks[k].current /\ ~tasks[k].aborted
       THEN tasks' = [tasks EXCEPT ![k].stage = "ask"] /\ UNCHANGED <<ui, missed>>
       ELSE SendOver(k, ui, "stopped")
    /\ UNCHANGED <<server, failures, stranded>>

\* The next event of the stream.  A function that is no longer current returns.
Event(k) ==
    /\ Is(k, "send", "stream") /\ tasks[k].wire # <<>>
    /\ LET event == Head(tasks[k].wire)
           next == [tasks EXCEPT ![k].wire = Tail(@), ![k].accepted = TRUE]
       IN  IF ~tasks[k].current
           THEN /\ SendOver(k, ui, "stopped")
                /\ turn' = IF turn.client = k THEN [turn EXCEPT !.client = OtherTab] ELSE turn
           ELSE /\ UNCHANGED turn
                /\ CASE event = "start" -> tasks' = next /\ UNCHANGED <<ui, missed>>
                     [] event = "piece" ->
                          /\ ui' = [ui EXCEPT !.screen[Len(ui.screen)].parts = @ + 1]
                          /\ tasks' = next /\ UNCHANGED missed
                     [] event \in {"done", "full"} ->
                          SendOver(k, [ui EXCEPT !.full = @ \/ event = "full"], "done")
                     [] event = "error" -> SendOver(k, Mark(ui, "error"), "error")
    /\ UNCHANGED <<thread, strays, failures, stranded>>

\* An abort is thrown at the next read.
Stopped(k) ==
    /\ Is(k, "send", "stream") /\ tasks[k].aborted
    /\ SendOver(k, ui, "stopped")
    /\ UNCHANGED <<server, failures, stranded>>

\* The server refused the message.
Refused(k) ==
    /\ tasks[k].kind = "send" /\ tasks[k].stage \in {"busy", "full"}
    /\ SendOver(k, IF tasks[k].current
                   THEN Mark([ui EXCEPT !.full = @ \/ tasks[k].stage = "full"], "refused") ELSE ui, "refused")
    /\ UNCHANGED <<server, failures, stranded>>

\* The connection was lost, before or in the middle of the reply.
Lost(k) ==
    /\ Is(k, "send", "failed")
    /\ SendOver(k, IF tasks[k].current THEN Mark(ui, "error") ELSE ui, "lost")
    /\ UNCHANGED <<server, failures, stranded>>

\* clear, after its request: it looks at the build alone.
Cleared(k) ==
    /\ tasks[k].kind = "clear" /\ tasks[k].stage \in {"told", "busy", "failed"}
    /\ IF tasks[k].stage # "told" \/ ui.build # tasks[k].build
       THEN Ends(k) /\ UNCHANGED <<ui, missed, stranded>>
       ELSE /\ tasks' = [Stale(tasks) EXCEPT ![k] = NoTask]
            /\ ui' = [ui EXCEPT !.screen = <<>>, !.full = FALSE, !.error = FALSE, !.loaded = TRUE]
            /\ missed' = IF thread[ui.build] # <<>> \/ turn.build = ui.build
                         THEN missed \cup {"wiped"} ELSE {}
            /\ stranded' = (stranded \/ ui.status # "idle")
    /\ UNCHANGED <<server, failures>>

GoesOn(k) ==
    \/ Loaded(k) \/ LoadFails(k) \/ Refreshed(k) \/ (Is(k, "refresh", "failed") /\ Ends(k)
          /\ UNCHANGED <<ui, server, failures, missed, stranded>>)
    \/ Wait(k) \/ Reconciled(k) \/ GivesUp(k)
    \/ Prepared(k) \/ Event(k) \/ Stopped(k) \/ Refused(k) \/ Lost(k) \/ Cleared(k)

Proceeds(k) == GoesOn(k) /\ UNCHANGED acts
Serves(k) == Serve(k) /\ UNCHANGED acts
TurnGoesOn == TurnStep /\ UNCHANGED acts

AssistantStoreNext ==
    \/ (UserStep \/ Elsewhere) /\ acts < MaxActs /\ acts' = acts + 1
    \/ \E k \in Slots : Serves(k) \/ Proceeds(k)
    \/ TurnGoesOn
    \/ /\ (\E k \in Slots : RequestFails(k) \/ StreamBreaks(k)) \/ \E s \in strays : ServeStray(s)
       /\ UNCHANGED acts

\* Answers and events that arrived are taken, and the server serves and finishes what
\* reached it (turns end: Assistant).  Nothing is assumed of the user or the network.
Fairness ==
    /\ \A k \in Slots : WF_vars(Serves(k)) /\ WF_vars(Proceeds(k))
    /\ WF_vars(TurnGoesOn)

AssistantStoreSpec == AssistantStoreInit /\ [][AssistantStoreNext]_vars /\ Fairness

-----------------------------------------------------------------------------
(* Properties.                                                              *)

\* A reply for one build does not leak into another (assistant-store.test.ts): all that
\* is shown came from the build the panel is on, whatever answers late.
ScreenIsItsBuilds ==
    \A i \in DOMAIN ui.screen : ui.screen[i].of = ui.build

\* What a screen says the conversation is: its entries but for refused messages and
\* errors that belong to none.
Counts(entry) == entry.mark # "refused" /\ entry.what # None
RowOf(entry) == [what |-> entry.what, parts |-> entry.parts]
WithEntry(rows, entry) == IF Counts(entry) THEN Append(rows, RowOf(entry)) ELSE rows
ToldUpTo(screen) ==
    LET upTo[n \in 0 .. Len(screen)] == IF n = 0 THEN <<>> ELSE WithEntry(upTo[n-1], screen[n])
    IN  upTo
Told(screen) == ToldUpTo(screen)[Len(screen)]

\* "What is shown is what the server has" (assistant-panel.tsx): when nothing is under
\* way, the screen holds the stored conversation, apart from messages that were refused,
\* however its pieces came: streamed, followed or read again.  Left out is a screen with
\* a reason not to (`missed`): another tab changed the conversation, also before a refresh
\* whose older answer comes last; a message was given up or lost before its first event;
\* the stored conversation could not be read again; and a clear whose answer came after
\* the next message was sent, and took that message off the screen.
ScreenIsWhatIsStored ==
    LET quiet == turn.build # ui.build /\ \A k \in Slots : tasks[k].kind # "clear"
    IN  ui.status = "idle" /\ ui.loaded /\ quiet /\ missed = {} => Told(ui.screen) = thread[ui.build]

\* The panel is busy exactly while one task is under way that will end it; a clear that
\* ended while the panel was busy is left out (`finish`, `run`).
Kinds == [idle |-> {}, loading |-> {"load"}, streaming |-> {"send"},
          stopping |-> {"send", "follow"}, following |-> {"follow"}]
BusyIsOneTask ==
    LET busy == {k \in Slots : tasks[k].current /\ tasks[k].kind \in {"load", "send", "follow"}}
    IN  stranded \/ IF ui.status = "idle" THEN busy = {}
                    ELSE \E k \in Slots : busy = {k} /\ tasks[k].kind \in Kinds[ui.status]

\* A panel its user leaves alone becomes idle again, whatever is lost, refused or going
\* on in other tabs; a clear that ended while it was busy is left out.
BusyEnds == ui.status # "idle" ~> ui.status = "idle" \/ stranded
=============================================================================
