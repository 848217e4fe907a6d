------------------------------ MODULE Assistant ------------------------------
(***************************************************************************)
(* A user's conversation with the assistant about a build: the turns that  *)
(* run it, the rows they store, and the conversation rebuilt from them     *)
(* (backend/internal/assistant/agent.go,                                   *)
(* services/assistant_thread_service.go).                                  *)
(*                                                                         *)
(* A turn stores its rows one by one while the provider streams and tools  *)
(* run.  The user can stop it, clear the conversation from another tab,    *)
(* decide its proposals, and the server can restart between two rows.      *)
(***************************************************************************)
EXTENDS Naturals, Sequences, FiniteSets

CONSTANTS Tabs,         \* the browser tabs of one user
          Calls,        \* ids of tool calls; providers may reuse them
          MaxSteps,     \* maxAgentSteps
          MaxMessages,  \* maxThreadMessages
          MaxThreads,   \* bound: threads ever created
          MaxProposals, \* bound: proposals ever made
          MaxFailures   \* bound: database errors and restarts

ASSUME AssistantAssumption ==
  /\ MaxSteps \in Nat \ {0} /\ MaxMessages \in Nat \ {0}
  /\ MaxThreads \in Nat /\ MaxProposals \in Nat /\ MaxFailures \in Nat

VARIABLES threads,   \* every thread ever created; a cleared one is not alive
          proposals, \* the proposals of its turns
          running,   \* the user's entry in Agent.running
          turn,      \* turn[t] is the turn started from tab t
          clearing,  \* the tabs whose ClearThread has passed its busy check
          failures

vars == <<threads, proposals, running, turn, clearing, failures>>

ProposalIds == 1 .. MaxProposals
Text == {"none", "nuls", "words"}   \* "nuls": NUL characters and nothing else
Row == [role : {"user", "assistant", "tool"},
        text : Text,                \* the text it has for the model
        calls : SUBSET Calls,       \* its tool calls, or the calls its results answer
        native : SUBSET Calls,      \* the calls inside the provider's own form
        nul : BOOLEAN,              \* its JSON spells a NUL character
        interrupted : BOOLEAN,
        told : SUBSET ProposalIds,  \* the decisions its context note tells
        blind : BOOLEAN]            \* history: the decisions could not be read

Message == [role : {"user", "assistant", "tool"}, text : Text,
            calls : SUBSET Calls, native : SUBSET Calls, nul : BOOLEAN]

Turn == [stage : {"idle", "open", "read", "note", "user", "stream", "tools", "notice"},
         thread : 0 .. MaxThreads,
         history : Seq(Row),
         told : SUBSET ProposalIds, blind : BOOLEAN,
         conversation : Seq(Message),
         step : 0 .. MaxSteps]

Idle == [stage |-> "idle", thread |-> 0, history |-> <<>>, told |-> {}, blind |-> FALSE,
         conversation |-> <<>>, step |-> 0]

UserRow(told, blind) ==
  [role |-> "user", text |-> "words", calls |-> {}, native |-> {}, nul |-> FALSE,
   interrupted |-> FALSE, told |-> told, blind |-> blind]
ReplyRow(text, calls, nul) ==
  [role |-> "assistant", text |-> text, calls |-> calls, native |-> calls, nul |-> nul,
   interrupted |-> FALSE, told |-> {}, blind |-> FALSE]
UnfinishedRow(text) == [ReplyRow(text, {}, FALSE) EXCEPT !.interrupted = TRUE]
ToolRow(calls, nul) == [ReplyRow("none", calls, nul) EXCEPT !.role = "tool", !.native = {}]
MessageOf(row) == [role |-> row.role, text |-> row.text, calls |-> row.calls,
                   native |-> row.native, nul |-> row.nul]

AssistantTypeOK ==
  /\ threads \in Seq([alive : BOOLEAN, rows : Seq(Row)]) /\ Len(threads) <= MaxThreads
  /\ \A n \in 1 .. Len(threads) - 1 : ~threads[n].alive
  /\ proposals \in Seq([thread : 1 .. MaxThreads,
                        status : {"pending", "settled", "superseded"},
                        at : Nat,            \* the rows of its thread when it was settled
                        between : BOOLEAN])  \* history: no turn was running then
  /\ running \in BOOLEAN
  /\ turn \in [Tabs -> Turn]
  /\ clearing \subseteq Tabs
  /\ failures \in 0 .. MaxFailures

AssistantInit ==
  /\ threads = <<>> /\ proposals = <<>>
  /\ running = FALSE
  /\ turn = [t \in Tabs |-> Idle]
  /\ clearing = {}
  /\ failures = 0

-----------------------------------------------------------------------------
(* ConversationFromMessages.                                                *)

\* answersAll
Answered(rows, i) ==
  \/ rows[i].calls = {}
  \/ /\ i < Len(rows) /\ rows[i+1].role = "tool"
     /\ rows[i].calls \subseteq rows[i+1].calls

KeptAsStored(rows, i) == MessageOf(rows[i])  \* mutation: unanswered calls are kept
Kept(rows, i) ==
  IF Answered(rows, i) /\ ~rows[i].interrupted THEN MessageOf(rows[i])
  ELSE [MessageOf(rows[i]) EXCEPT !.calls = {}, !.native = {}]

Said(rows, i) == IF rows[i].role = "assistant" THEN Kept(rows, i) ELSE MessageOf(rows[i])

\* An assistant's message with nothing left; results whose calls were not kept.
Skipped(said, before) ==
  \/ said.role = "assistant" /\ said.text = "none" /\ said.calls = {}
  \/ said.role = "tool" /\ \/ before = <<>>
                           \/ before[Len(before)].role # "assistant"
                           \/ before[Len(before)].calls = {}

Extended(before, said) == IF Skipped(said, before) THEN before ELSE Append(before, said)

Rebuilt(rows) ==
  LET upTo[i \in 0 .. Len(rows)] == IF i = 0 THEN <<>> ELSE Extended(upTo[i-1], Said(rows, i))
  IN  upTo

Conversation(rows) == Rebuilt(rows)[Len(rows)]

-----------------------------------------------------------------------------
At(t, stage) == turn[t].stage = stage
Thread(t) == turn[t].thread
Live(t) == Thread(t) # 0 /\ threads[Thread(t)].alive
Open == {n \in DOMAIN threads : threads[n].alive}

\* release
EndTurn(t) == turn' = [turn EXCEPT ![t] = Idle] /\ running' = FALSE

\* storableJSON takes the NULs out of the parts; a provider's own form cannot be
\* edited and is dropped when it holds one.
AsStored(m) == [m EXCEPT !.text = IF @ = "nuls" THEN "none" ELSE @,
                         !.native = IF m.nul THEN {} ELSE @,
                         !.nul = FALSE]

\* AssistantThreadService.Append, which locks the thread's row.
Store(t, row) ==
  /\ Live(t)
  /\ threads' = [threads EXCEPT ![Thread(t)].rows = Append(@, AsStored(row))]

-----------------------------------------------------------------------------
(* Agent.Prepare.                                                           *)

\* Mutation: the slot of a turn in progress is taken over.
PrepareAnyway(t) ==
  /\ At(t, "idle")
  /\ running' = TRUE /\ turn' = [turn EXCEPT ![t].stage = "open"]
  /\ UNCHANGED <<threads, proposals, clearing, failures>>

Prepare(t) ==
  /\ At(t, "idle") /\ ~running
  /\ running' = TRUE /\ turn' = [turn EXCEPT ![t].stage = "open"]
  /\ UNCHANGED <<threads, proposals, clearing, failures>>

GetOrCreate(t) ==
  /\ At(t, "open")
  /\ IF Open # {} THEN UNCHANGED threads
     ELSE /\ Len(threads) < MaxThreads
          /\ threads' = Append(threads, [alive |-> TRUE, rows |-> <<>>])
  /\ turn' = [turn EXCEPT ![t].stage = "read", ![t].thread = Len(threads')]
  /\ UNCHANGED <<proposals, running, clearing, failures>>

\* A thread cleared since has no messages, which is no error.
ReadHistory(t) ==
  /\ At(t, "read")
  /\ LET rows == threads[Thread(t)].rows
     IN  IF Len(rows) >= MaxMessages THEN EndTurn(t)
         ELSE /\ turn' = [turn EXCEPT ![t].stage = "note", ![t].history = rows]
              /\ UNCHANGED running
  /\ UNCHANGED <<threads, proposals, clearing, failures>>

PrepareLeavesSlot(t) ==  \* mutation: the refusal does not release the slot
  /\ At(t, "open") \/ At(t, "read")
  /\ turn' = [turn EXCEPT ![t] = Idle]
  /\ UNCHANGED <<threads, proposals, running, clearing, failures>>

\* The thread or the provider cannot be had.
PrepareFails(t) ==
  /\ At(t, "open") \/ At(t, "read")
  /\ EndTurn(t) /\ UNCHANGED <<threads, proposals, clearing, failures>>

-----------------------------------------------------------------------------
(* Turn.Run.                                                                *)

\* Mutation: settled before the newest row counts as well.
ResolvedForThreadSinceEver(t) ==
  {p \in DOMAIN proposals : proposals[p].thread = Thread(t) /\ proposals[p].status = "settled"}

\* Settled after the newest row of the history was created.
ResolvedForThread(t) ==
  {p \in DOMAIN proposals :
     /\ proposals[p].thread = Thread(t) /\ proposals[p].status = "settled"
     /\ proposals[p].at >= Len(turn[t].history)}

ContextNote(t) ==
  /\ At(t, "note")
  /\ turn' = [turn EXCEPT ![t].stage = "user",
                          ![t].told = IF turn[t].history = <<>> THEN {} ELSE ResolvedForThread(t)]
  /\ UNCHANGED <<threads, proposals, running, clearing, failures>>

\* The error is not looked at: the note says nothing of proposals.
ContextNoteFails(t) ==
  /\ At(t, "note") /\ turn[t].history # <<>> /\ failures < MaxFailures
  /\ turn' = [turn EXCEPT ![t].stage = "user", ![t].blind = TRUE]
  /\ failures' = failures + 1
  /\ UNCHANGED <<threads, proposals, running, clearing>>

StoreMessage(t) ==
  /\ At(t, "user")
  /\ LET row == UserRow(turn[t].told, turn[t].blind)
     IN  /\ Store(t, row)
         /\ turn' = [turn EXCEPT ![t] = [Idle EXCEPT !.stage = "stream", !.thread = Thread(t), !.step = 1,
                       !.conversation = Conversation(Append(turn[t].history, row))]]
  /\ UNCHANGED <<proposals, running, clearing, failures>>

\* The reply is stored before its calls are run; the turn goes on with the
\* reply as it came.
Reply(t, text, calls, nul) ==
  /\ text = "nuls" => nul
  /\ At(t, "stream") /\ Store(t, ReplyRow(text, calls, nul))
  /\ IF calls = {} THEN EndTurn(t)
     ELSE /\ turn' = [turn EXCEPT ![t].stage = "tools",
                        ![t].conversation = Append(@, MessageOf(ReplyRow(text, calls, nul)))]
          /\ UNCHANGED running
  /\ UNCHANGED <<proposals, clearing, failures>>

\* Stopped, timed out or failed with something written, cut off, or declined:
\* what was written is stored without calls.
ReplyUnfinished(t, text) ==
  /\ At(t, "stream") /\ Store(t, UnfinishedRow(text))
  /\ EndTurn(t) /\ UNCHANGED <<proposals, clearing, failures>>

\* The provider failed before it wrote anything.
ProviderFails(t) ==
  /\ At(t, "stream")
  /\ EndTurn(t) /\ UNCHANGED <<threads, proposals, clearing, failures>>

\* propose_changes replaces the proposal that waits.
RunTool(t) ==
  /\ At(t, "tools") /\ Len(proposals) < MaxProposals
  /\ proposals' = Append(
       [p \in DOMAIN proposals |-> IF proposals[p].status = "pending"
                                   THEN [proposals[p] EXCEPT !.status = "superseded"] ELSE proposals[p]],
       [thread |-> Thread(t), status |-> "pending", at |-> 0, between |-> FALSE])
  /\ UNCHANGED <<threads, running, turn, clearing, failures>>

\* The calls of the newest reply.
Asked(t) == turn[t].conversation[Len(turn[t].conversation)].calls

\* Every call has a result by then.  The user may have stopped the turn meanwhile.
StoreResults(t, nul) ==
  /\ At(t, "tools") /\ Store(t, ToolRow(Asked(t), nul))
  /\ \/ EndTurn(t)
     \/ /\ LET more == turn[t].step < MaxSteps
           IN  turn' = [turn EXCEPT ![t].stage = IF more THEN "stream" ELSE "notice",
                                    ![t].step = IF more THEN @ + 1 ELSE @,
                                    ![t].conversation = Append(@, MessageOf(ToolRow(Asked(t), nul)))]
        /\ UNCHANGED running
  /\ UNCHANGED <<proposals, clearing, failures>>

StoreNotice(t) ==
  /\ At(t, "notice") /\ Store(t, UnfinishedRow("none"))
  /\ EndTurn(t) /\ UNCHANGED <<proposals, clearing, failures>>

\* A row cannot be stored, for a database error or because the thread is gone:
\* the turn ends.
StoreFails(t) ==
  /\ turn[t].stage \in {"user", "stream", "tools", "notice"}
  /\ IF Live(t) THEN failures < MaxFailures /\ failures' = failures + 1 ELSE UNCHANGED failures
  /\ EndTurn(t) /\ UNCHANGED <<threads, proposals, clearing>>

-----------------------------------------------------------------------------
(* Around the turn.                                                         *)

\* ClearThread looks at the slot and then deletes: a turn can begin in between.
CheckClear(t) ==
  /\ t \notin clearing /\ ~running
  /\ clearing' = clearing \cup {t}
  /\ UNCHANGED <<threads, proposals, running, turn, failures>>

Clear(t) ==
  /\ t \in clearing
  /\ clearing' = clearing \ {t}
  /\ threads' = [n \in DOMAIN threads |-> [alive |-> FALSE, rows |-> <<>>]]
  /\ UNCHANGED <<proposals, running, turn, failures>>

\* The user applies or rejects a proposal.
Decide(p) ==
  /\ proposals[p].status = "pending"
  /\ proposals' = [proposals EXCEPT ![p].status = "settled", ![p].between = ~running,
                                    ![p].at = Len(threads[proposals[p].thread].rows)]
  /\ UNCHANGED <<threads, running, turn, clearing, failures>>

\* The server restarts: turns and the slot are only in memory.
Restart ==
  /\ failures < MaxFailures /\ failures' = failures + 1
  /\ turn' = [t \in Tabs |-> Idle] /\ running' = FALSE /\ clearing' = {}
  /\ UNCHANGED <<threads, proposals>>

-----------------------------------------------------------------------------
RunStep(t) ==
  \/ ContextNote(t) \/ ContextNoteFails(t) \/ StoreMessage(t)
  \/ \E text \in Text :
       \/ ReplyUnfinished(t, text)
       \/ \E calls \in SUBSET Calls, nul \in BOOLEAN : Reply(t, text, calls, nul)
  \/ \E nul \in BOOLEAN : StoreResults(t, nul)
  \/ ProviderFails(t) \/ RunTool(t) \/ StoreNotice(t) \/ StoreFails(t)

AssistantNext ==
  \/ \E t \in Tabs : \/ Prepare(t) \/ GetOrCreate(t) \/ ReadHistory(t) \/ PrepareFails(t)
                     \/ RunStep(t)
                     \/ CheckClear(t) \/ Clear(t)
  \/ \E p \in DOMAIN proposals : Decide(p)
  \/ Restart

AssistantSpec == AssistantInit /\ [][AssistantNext]_vars

-----------------------------------------------------------------------------
(* Properties.                                                              *)

\* "providers reject a conversation with unanswered calls": no conversation that
\* could be rebuilt now, and none a running turn sends, holds a call without its
\* result in the next message or a result without its call, wherever a turn was
\* cut off (ConversationFromMessages).
Replayable(conversation) ==
  \A i \in DOMAIN conversation :
    LET m == conversation[i]
    IN  /\ m.role = "assistant" /\ m.calls \cup m.native # {} =>
             /\ i < Len(conversation) /\ conversation[i+1].role = "tool"
             /\ conversation[i+1].calls = m.calls /\ m.native \subseteq m.calls
        /\ m.role = "tool" => i > 1 /\ conversation[i-1].calls = m.calls

EveryCallIsAnswered ==
  /\ \A n \in DOMAIN threads : Replayable(Conversation(threads[n].rows))
  /\ \A t \in Tabs : At(t, "stream") => Replayable(turn[t].conversation)

\* "the conversation replays identically later": whenever the model is asked, it
\* is sent what the stored rows will be rebuilt to, so no row of another turn or
\* of a failed one is missing from either (Run, contextNote).  A reply or a
\* result of this very turn that holds a NUL is sent as it came and rebuilt as
\* the database can hold it, without its native form; nothing else may differ.
SentIsWhatIsStored ==
  \A t \in Tabs : At(t, "stream") /\ Live(t) =>
    LET sent == turn[t].conversation
    IN  [i \in DOMAIN sent |-> AsStored(sent[i])] = Conversation(threads[Thread(t)].rows)

\* "one turn at a time per user", and the slot is free when none runs: a refused,
\* failed, stopped or killed turn never leaves the user with "still working on
\* your previous message" (Prepare, release).
SlotIsTheTurn ==
  LET busy == {t \in Tabs : ~At(t, "idle")}
  IN  Cardinality(busy) = IF running THEN 1 ELSE 0

\* A decision made while no turn runs is told by the very next message of the
\* conversation, and by no later one (contextNote, ResolvedForThread), unless
\* it could not be read.
NextMessageTells ==
  \A p \in DOMAIN proposals :
    LET rows == threads[proposals[p].thread].rows
        at == proposals[p].at
    IN  /\ proposals[p].status = "settled" /\ proposals[p].between /\ at < Len(rows) =>
             rows[at+1].role = "user" /\ (p \in rows[at+1].told \/ rows[at+1].blind)
        /\ Cardinality({i \in DOMAIN rows : p \in rows[i].told}) <= 1
=============================================================================
