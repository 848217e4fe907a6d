--------------------------- MODULE AutosaveProofs ---------------------------
(***************************************************************************)
(* The store first: an accepted save replaces nothing its author has never *)
(* had on the canvas, and an answer is never older than its revision, for  *)
(* any number of tabs, edits, revisions, failures and lost answers, and    *)
(* any bound of the undo stack.  Then the store with the timers that watch *)
(* it: an unsaved canvas is never forgotten, and what the header calls     *)
(* saved is what the server holds, or held until somebody saved again; and *)
(* the builder with its timers is the store, so that what is proved of the *)
(* store holds with them too.                                              *)
(***************************************************************************)
EXTENDS Autosave, TLAPS, SequenceTheorems

(***************************************************************************)
(* Type correctness, and the lemmas about the undo stack and the records.  *)
(***************************************************************************)

USE DEF Graphs, Version, Revision, Graph

LEMMA ConstantTypes ==
  /\ Nobody \notin Clients /\ Proposals \subseteq Edits /\ Elsewhere \subseteq Edits
  /\ MaxRevision \in Nat /\ MaxStray \in Nat /\ MaxFailures \in Nat
  BY BuildServiceAssumption

LEMMA TablesPartition ==
  UNION Tables = Edits /\ \A q1, q2 \in Tables : q1 # q2 => q1 \cap q2 = {}
  BY BuildServiceAssumption

LEMMA IdleType == Idle \in Request
  BY DEF Idle, Request

LEMMA AskType ==
  ASSUME TypeOK, NEW c \in Clients, NEW op \in {"save", "apply", "get"},
         NEW base \in Nat, NEW body \in Graphs, req' = Ask(c, op, base, body)
  PROVE  req' \in [Clients -> Request]
  BY DEF Ask, Idle, Request, TypeOK, ServerTypeOK

LEMMA HangType ==
  ASSUME TypeOK, NEW c \in Clients, Hang(c)
  PROVE  req' \in [Clients -> Request]
  BY IdleType DEF Hang, TypeOK, ServerTypeOK

LEMMA NewRevisionType ==
  ASSUME TypeOK, NEW graph \in Graphs, NEW by \in Clients \cup {Nobody},
         NewRevision(graph, by)
  PROVE  log' \in Seq(Version) /\ Len(log') = Len(log) + 1
  BY DEF NewRevision, TypeOK, ServerTypeOK

LEMMA LastGraphType == TypeOK => Graph \in Graphs
<1> SUFFICES ASSUME TypeOK PROVE Graph \in Graphs
  OBVIOUS
<1>1. Len(log) \in 1 .. Len(log)
  BY DEF TypeOK, ServerTypeOK
<1>2. log[Len(log)] \in Version
  BY <1>1, ElementOfSeq DEF TypeOK, ServerTypeOK
<1> QED BY <1>2

LEMMA RequestType ==
  ASSUME TypeOK, NEW c \in Clients
  PROVE  req[c] \in Request /\ Len(log) \in Nat
  BY DEF TypeOK, ServerTypeOK

LEMMA NewRequestType ==
  ASSUME TypeOK, NEW c \in Clients, NEW r \in Request, req' = [req EXCEPT ![c] = r]
  PROVE  req' \in [Clients -> Request]
  BY DEF TypeOK, ServerTypeOK

LEMMA CommittedType ==
  ASSUME TypeOK, NEW c \in Clients, Committed(c)
  PROVE  req' \in [Clients -> Request]
<1> DEFINE r == [req[c] EXCEPT !.stage = "read", !.own = Revision + 1, !.status = "ok"]
<1>0. Len(log) + 1 \in Nat
  BY RequestType
<1>1. r \in Request
  BY <1>0, RequestType DEF Request
<1>2. req' = [req EXCEPT ![c] = r]
  BY DEF Committed
<1> QED BY <1>1, <1>2, NewRequestType

LEMMA SettleType ==
  ASSUME TypeOK, NEW c \in Clients, NEW status \in {"conflict", "refused", "error"},
         Settle(c, status)
  PROVE  req' \in [Clients -> Request]
<1> DEFINE r == [Idle EXCEPT !.op = req[c].op, !.stage = "done", !.status = status]
<1>1. r \in Request
  BY RequestType, IdleType DEF Request
<1>2. req' = [req EXCEPT ![c] = r]
  BY DEF Settle
<1> QED BY <1>1, <1>2, NewRequestType

\* The answer of c with table q read as well, without the rows `orphans`.
Rows(q, orphans) == (Graph \cap q) \ orphans
ReadSoFar(c, q, orphans) ==
  [req[c] EXCEPT !.left = @ \ {q}, !.graph = @ \cup Rows(q, orphans)]
Answer(c, q, orphans) == Complete(ReadSoFar(c, q, orphans))

LEMMA AnswerType ==
  ASSUME TypeOK, NEW c \in Clients, NEW q, NEW orphans
  PROVE  Answer(c, q, orphans) \in Request
<1>1. Rows(q, orphans) \in Graphs
  BY LastGraphType DEF Rows
<1>2. ReadSoFar(c, q, orphans) \in Request
  BY <1>1, RequestType DEF ReadSoFar, Request
<1>3. ASSUME NEW r \in Request PROVE Complete(r) \in Request
  <2> DEFINE status == IF r.op = "get" THEN "ok" ELSE r.status
             n == [r EXCEPT !.stage = "done", !.found = TRUE, !.status = status]
  <2>1. status \in {"none", "ok", "conflict", "refused", "error"}
    BY DEF Request
  <2> HIDE DEF status
  <2>2. n \in Request
    BY <2>1 DEF Request
  <2> QED BY <2>2 DEF Complete, status
<1> QED BY <1>2, <1>3 DEF Answer

LEMMA ServerStepType ==
  ASSUME TypeOK, ServerStep
  PROVE  TypeOK'
<1> USE ConstantTypes
<1>1. StoreTypeOK'
  BY DEF TypeOK, StoreTypeOK, ServerStep
<1> SUFFICES ServerTypeOK'
  BY <1>1 DEF TypeOK
<1>2. ASSUME NEW c \in Clients, Serve(c) PROVE ServerTypeOK'
  <2>1. CASE CommitSave(c)
    <3>1. req[c].body \in Graphs
      BY DEF TypeOK, ServerTypeOK, Request
    <3>2. log' \in Seq(Version) /\ Len(log') = Len(log) + 1
      BY <2>1, <3>1, NewRevisionType DEF CommitSave
    <3>3. req' \in [Clients -> Request]
      BY <2>1, CommittedType DEF CommitSave
    <3> QED BY <2>1, <3>2, <3>3 DEF CommitSave, TypeOK, ServerTypeOK
  <2>2. CASE RefuseStale(c)
    BY <2>2 DEF RefuseStale, Idle, TypeOK, ServerTypeOK, Request
  <2>3. CASE RefuseInvalid(c)
    BY <2>3, SettleType DEF RefuseInvalid, TypeOK, ServerTypeOK
  <2>4. CASE CommitApply(c)
    <3>1. Graph \cup req[c].body \in Graphs
      BY LastGraphType DEF TypeOK, ServerTypeOK, Request
    <3>2. log' \in Seq(Version) /\ Len(log') = Len(log) + 1
      BY <2>4, <3>1, NewRevisionType DEF CommitApply
    <3>3. req' \in [Clients -> Request]
      BY <2>4, CommittedType DEF CommitApply
    <3> QED BY <2>4, <3>2, <3>3 DEF CommitApply, TypeOK, ServerTypeOK
  <2>5. CASE RefuseApply(c)
    BY <2>5, SettleType DEF RefuseApply, TypeOK, ServerTypeOK
  <2>6. CASE ReadRow(c)
    <3> DEFINE r == [req[c] EXCEPT !.stage = "row", !.rev = Revision, !.left = Tables]
    <3>1. r \in Request
      BY RequestType DEF Request
    <3>2. req' \in [Clients -> Request]
      BY <2>6, <3>1, NewRequestType DEF ReadRow
    <3> QED BY <2>6, <3>2 DEF ReadRow, TypeOK, ServerTypeOK
  <2>7. CASE ReadGraph(c)
    <3> PICK q \in req[c].left : ReadTable(c, q)
      BY <2>7 DEF ReadGraph
    <3> PICK orphans \in Orphans(c, q) : req' = [req EXCEPT ![c] = Answer(c, q, orphans)]
      BY DEF ReadTable, Answer, ReadSoFar, Rows
    <3>1. Answer(c, q, orphans) \in Request
      BY AnswerType
    <3>2. req' \in [Clients -> Request]
      BY <3>1, NewRequestType
    <3> QED BY <3>2 DEF ReadTable, TypeOK, ServerTypeOK
  <2> QED BY <1>2, <2>1, <2>2, <2>3, <2>4, <2>5, <2>6, <2>7 DEF Serve
<1>3. ASSUME NEW c \in Clients, Fail(c) PROVE ServerTypeOK'
  <2>1. failures' \in 0 .. MaxFailures
    BY <1>3 DEF Fail, FailBefore, ReadFails, Failure, TypeOK, ServerTypeOK
  <2>2. req' \in [Clients -> Request]
    BY <1>3, SettleType DEF Fail, FailBefore, ReadFails
  <2> QED BY <1>3, <2>1, <2>2 DEF Fail, FailBefore, ReadFails, TypeOK, ServerTypeOK
<1>4. CASE RenameElsewhere
  <2>1. log' \in Seq(Version) /\ Len(log') = Len(log) + 1
    BY <1>4, LastGraphType, NewRevisionType DEF RenameElsewhere
  <2> QED BY <1>4, <2>1 DEF RenameElsewhere, TypeOK, ServerTypeOK
<1>5. ASSUME NEW e \in Elsewhere, SaveElsewhere(e) PROVE ServerTypeOK'
  <2>1. Graph \cup {e} \in Graphs
    BY LastGraphType
  <2>2. log' \in Seq(Version) /\ Len(log') = Len(log) + 1
    BY <1>5, <2>1, NewRevisionType DEF SaveElsewhere
  <2> QED BY <1>5, <2>2 DEF SaveElsewhere, TypeOK, ServerTypeOK
<1>6. ASSUME NEW s \in stray, CommitStray(s) \/ DropStray(s) PROVE ServerTypeOK'
  <2>1. CASE CommitStray(s)
    <3>1. s.body \in Graphs /\ s.by \in Clients
      BY DEF TypeOK, ServerTypeOK
    <3>2. log' \in Seq(Version) /\ Len(log') = Len(log) + 1
      BY <2>1, <3>1, NewRevisionType DEF CommitStray
    <3> QED BY <2>1, <3>2 DEF CommitStray, TypeOK, ServerTypeOK
  <2>2. CASE DropStray(s)
    BY <2>2 DEF DropStray, TypeOK, ServerTypeOK
  <2> QED BY <1>6, <2>1, <2>2
<1> QED BY <1>2, <1>3, <1>4, <1>5, <1>6 DEF ServerStep, ServerNext

-----------------------------------------------------------------------------
(* The undo stack never holds anything but steps it was given.             *)

LEMMA LastStepsProperties ==
  ASSUME NEW S, NEW steps \in Seq(S)
  PROVE  /\ LastSteps(steps) \in Seq(S) /\ Len(LastSteps(steps)) <= HistoryLimit
         /\ \A i \in 1 .. Len(LastSteps(steps)) :
              \E j \in 1 .. Len(steps) : LastSteps(steps)[i] = steps[j]
<1> USE BuilderStoreAssumption
<1>1. CASE Len(steps) > HistoryLimit
  <2> DEFINE m == Len(steps) - HistoryLimit + 1
             n == Len(steps)
  <2>1. m \in Int /\ n \in Int /\ m >= 1
    BY <1>1, LenProperties
  <2>2. \A i \in m .. n : steps[i] \in S
    BY <2>1, ElementOfSeq
  <2>3. LastSteps(steps) = SubSeq(steps, m, n)
    BY <1>1 DEF LastSteps
  <2> HIDE DEF m, n
  <2>4. /\ SubSeq(steps, m, n) \in Seq(S)
        /\ Len(SubSeq(steps, m, n)) = IF m <= n THEN n - m + 1 ELSE 0
        /\ \A i \in 1 .. n - m + 1 : SubSeq(steps, m, n)[i] = steps[m + i - 1]
    BY <2>1, <2>2, SubSeqProperties
  <2>5. ASSUME NEW i \in 1 .. Len(SubSeq(steps, m, n))
        PROVE  \E j \in 1 .. n : SubSeq(steps, m, n)[i] = steps[j]
    <3>1. m + i - 1 \in 1 .. n /\ i \in 1 .. n - m + 1
      BY <2>1, <2>4
    <3> QED BY <3>1, <2>4
  <2>6. Len(SubSeq(steps, m, n)) <= HistoryLimit
    BY <1>1, <2>1, <2>4 DEF m, n
  <2> QED BY <2>3, <2>4, <2>5, <2>6 DEF n
<1>2. CASE ~(Len(steps) > HistoryLimit)
  BY <1>2 DEF LastSteps
<1> QED BY <1>1, <1>2

LEMMA FirstStepsProperties ==
  ASSUME NEW S, NEW steps \in Seq(S)
  PROVE  /\ FirstSteps(steps) \in Seq(S) /\ Len(FirstSteps(steps)) <= HistoryLimit
         /\ \A i \in 1 .. Len(FirstSteps(steps)) :
              \E j \in 1 .. Len(steps) : FirstSteps(steps)[i] = steps[j]
<1> USE BuilderStoreAssumption
<1>1. CASE Len(steps) > HistoryLimit
  <2> DEFINE n == HistoryLimit
  <2>1. n \in Int /\ n <= Len(steps) /\ Len(steps) \in Nat
    BY <1>1, LenProperties
  <2>2. \A i \in 1 .. n : steps[i] \in S
    BY <2>1, ElementOfSeq
  <2>3. FirstSteps(steps) = SubSeq(steps, 1, n)
    BY <1>1 DEF FirstSteps
  <2> HIDE DEF n
  <2>4. /\ SubSeq(steps, 1, n) \in Seq(S)
        /\ Len(SubSeq(steps, 1, n)) = IF 1 <= n THEN n - 1 + 1 ELSE 0
        /\ \A i \in 1 .. n - 1 + 1 : SubSeq(steps, 1, n)[i] = steps[1 + i - 1]
    BY <2>1, <2>2, SubSeqProperties
  <2>5. ASSUME NEW i \in 1 .. Len(SubSeq(steps, 1, n))
        PROVE  \E j \in 1 .. Len(steps) : SubSeq(steps, 1, n)[i] = steps[j]
    <3>1. 1 + i - 1 \in 1 .. Len(steps) /\ i \in 1 .. n - 1 + 1
      BY <2>1, <2>4
    <3> QED BY <3>1, <2>4
  <2>6. Len(SubSeq(steps, 1, n)) <= HistoryLimit
    BY <2>4 DEF n
  <2> QED BY <2>3, <2>4, <2>5, <2>6
<1>2. CASE ~(Len(steps) > HistoryLimit)
  BY <1>2 DEF FirstSteps
<1> QED BY <1>1, <1>2

-----------------------------------------------------------------------------
LEMMA StepsType ==
  /\ <<>> \in Steps
  /\ \A steps \in Seq(Graphs) : Len(steps) <= HistoryLimit => steps \in Steps
  /\ \A steps \in Steps : steps \in Seq(Graphs) /\ Len(steps) <= HistoryLimit
  BY EmptySeq, BuilderStoreAssumption DEF Steps

LEMMA TabType ==
  ASSUME TypeOK, NEW t \in Clients
  PROVE  /\ tab[t] \in Tab
         /\ tab[t].canvas \in Graphs /\ tab[t].synced \in Graphs
         /\ tab[t].past \in Seq(Graphs) /\ Len(tab[t].past) <= HistoryLimit
         /\ tab[t].future \in Seq(Graphs) /\ Len(tab[t].future) <= HistoryLimit
         /\ tab[t].revision \in Nat /\ tab[t].unconfirmed \in Saves
         /\ req[t] \in Request /\ req[t].body \in Graphs /\ req[t].graph \in Graphs
         /\ req[t].base \in Nat /\ req[t].rev \in Nat /\ req[t].own \in Nat
  BY DEF TypeOK, ServerTypeOK, StoreTypeOK, Tab, Steps, Request

LEMMA NewTabType ==
  ASSUME TypeOK, NEW t \in Clients, NEW r \in Tab, tab' = [tab EXCEPT ![t] = r]
  PROVE  tab' \in [Clients -> Tab]
  BY DEF TypeOK, StoreTypeOK

LEMMA ClosedType == Closed \in Tab /\ NoSave \in Saves
  BY StepsType DEF Closed, Tab, NoSave, Saves

LEMMA FinishedType ==
  ASSUME TypeOK, NEW t \in Clients
  PROVE  Finished(t) \in Tab
  BY TabType DEF Finished, Tab

LEMMA LoadedType ==
  ASSUME TypeOK, NEW t \in Clients, NEW revision \in Nat, NEW graph \in Graphs
  PROVE  Loaded(t, revision, graph) \in Tab /\ Loaded(t, revision, graph).canvas = graph
<1>1. <<>> \in Steps
  BY StepsType
<1> QED BY <1>1, TabType DEF Loaded, Tab

LEMMA SeeType ==
  ASSUME TypeOK, NEW t \in Clients, NEW graph \in Graphs, See(t, graph)
  PROVE  seen' \in [Clients -> Graphs]
  BY DEF See, TypeOK, StoreTypeOK

LEMMA TabWithPast ==
  ASSUME NEW b \in Tab, NEW past \in Steps, NEW save \in Saves
  PROVE  [b EXCEPT !.past = past, !.unconfirmed = save] \in Tab
  BY DEF Tab

LEMMA LoadType ==
  ASSUME TypeOK, NEW t \in Clients, NEW revision \in Nat, NEW graph \in Graphs,
         Load(t, revision, graph) \/ LoadKeepingMine(t, revision, graph), made' = made
  PROVE  StoreTypeOK'
<1>1. seen' \in [Clients -> Graphs]
  BY SeeType, LoadedType DEF Load, LoadKeepingMine
<1>2. tab' \in [Clients -> Tab]
  <2>1. CASE Load(t, revision, graph)
    BY <2>1, LoadedType, NewTabType DEF Load
  <2>2. CASE LoadKeepingMine(t, revision, graph)
    <3> DEFINE past == LastSteps(Append(tab[t].past, tab[t].canvas))
               save == IF tab[t].mutation = "apply" THEN tab[t].unconfirmed ELSE NoSave
               r == [Loaded(t, revision, graph) EXCEPT !.past = past, !.unconfirmed = save]
    <3>1. past \in Steps
      <4>1. Append(tab[t].past, tab[t].canvas) \in Seq(Graphs)
        BY TabType, AppendProperties
      <4>2. past \in Seq(Graphs) /\ Len(past) <= HistoryLimit
        BY <4>1, LastStepsProperties
      <4> HIDE DEF past
      <4> QED BY <4>2, StepsType
    <3>2. save \in Saves
      BY TabType, ClosedType
    <3>3. tab' = [tab EXCEPT ![t] = r]
      BY <2>2 DEF LoadKeepingMine
    <3> HIDE DEF past, save
    <3>4. r \in Tab
      BY <3>1, <3>2, LoadedType, TabWithPast
    <3> QED BY <3>3, <3>4, NewTabType
  <2> QED BY <2>1, <2>2
<1> QED BY <1>1, <1>2 DEF Load, LoadKeepingMine, StoreTypeOK, TypeOK

LEMMA UserStepType ==
  ASSUME TypeOK, NEW t \in Clients, UserStep(t)
  PROVE  TypeOK'
<1>1. CASE \E e \in Edits : Edit(t, e)
  <2> PICK e \in Edits : Edit(t, e)
    BY <1>1
  <2> DEFINE past == IF e \in Unrecorded THEN tab[t].past
                     ELSE LastSteps(Append(tab[t].past, tab[t].canvas))
             future == IF e \in Unrecorded THEN tab[t].future ELSE <<>>
             r == [tab[t] EXCEPT !.canvas = tab[t].canvas \cup {e}, !.past = past,
                                 !.future = future]
  <2>1. past \in Steps /\ future \in Steps
    <3>1. Append(tab[t].past, tab[t].canvas) \in Seq(Graphs)
      BY TabType, AppendProperties
    <3>2. past \in Seq(Graphs) /\ Len(past) <= HistoryLimit
      BY <3>1, LastStepsProperties, TabType
    <3>3. future \in Steps
      BY StepsType, TabType
    <3> HIDE DEF past
    <3> QED BY <3>2, <3>3, StepsType
  <2>2. tab' = [tab EXCEPT ![t] = r]
    BY DEF Edit
  <2> HIDE DEF past, future
  <2>3. r \in Tab
    BY <2>1, TabType DEF Tab
  <2>4. {e} \in Graphs
    OBVIOUS
  <2>5. seen' \in [Clients -> Graphs]
    BY <2>4, SeeType DEF Edit
  <2>6. tab' \in [Clients -> Tab]
    BY <2>2, <2>3, NewTabType
  <2> QED BY <2>5, <2>6 DEF Edit, TypeOK, ServerTypeOK, StoreTypeOK, serverVars
<1>2. CASE Undo(t)
  <2> DEFINE past == tab[t].past
             canvas == past[Len(past)]
             shorter == SubSeq(past, 1, Len(past) - 1)
             future == FirstSteps(<<tab[t].canvas>> \o tab[t].future)
             r == [tab[t] EXCEPT !.canvas = canvas, !.past = shorter, !.future = future]
  <2>1. past \in Seq(Graphs) /\ past # <<>>
    BY <1>2, TabType DEF Undo
  <2>2. Len(past) \in 1 .. Len(past)
    BY <2>1, EmptySeq
  <2>3. canvas \in Graphs
    BY <2>1, <2>2, ElementOfSeq
  <2>4. shorter \in Steps
    <3>1. \A i \in 1 .. Len(past) - 1 : past[i] \in Graphs
      BY <2>1, <2>2, ElementOfSeq
    <3>2. Len(past) - 1 \in Nat /\ Len(past) <= HistoryLimit /\ HistoryLimit \in Nat
      BY <2>2, TabType, BuilderStoreAssumption
    <3>3. shorter \in Seq(Graphs) /\ Len(shorter) = Len(past) - 1
      BY <3>1, <3>2, SubSeqProperties
    <3>4. Len(shorter) <= HistoryLimit
      BY <3>2, <3>3
    <3> HIDE DEF shorter
    <3> QED BY <3>3, <3>4, StepsType
  <2>5. future \in Steps
    <3>1. <<tab[t].canvas>> \in Seq(Graphs)
      BY TabType
    <3>2. <<tab[t].canvas>> \o tab[t].future \in Seq(Graphs)
      BY <3>1, TabType, ConcatProperties
    <3>3. future \in Seq(Graphs) /\ Len(future) <= HistoryLimit
      BY <3>2, FirstStepsProperties
    <3> HIDE DEF future
    <3> QED BY <3>3, StepsType
  <2>6. tab' = [tab EXCEPT ![t] = r]
    BY <1>2 DEF Undo
  <2> HIDE DEF canvas, shorter, future
  <2>7. r \in Tab
    BY <2>3, <2>4, <2>5, TabType DEF Tab
  <2>8. tab' \in [Clients -> Tab]
    BY <2>6, <2>7, NewTabType
  <2> QED BY <1>2, <2>8 DEF Undo, TypeOK, ServerTypeOK, StoreTypeOK, serverVars
<1>3. CASE Redo(t)
  <2> DEFINE past == LastSteps(Append(tab[t].past, tab[t].canvas))
             canvas == Head(tab[t].future)
             future == Tail(tab[t].future)
             r == [tab[t] EXCEPT !.canvas = canvas, !.past = past, !.future = future]
  <2>1. past \in Steps /\ <<>> \in Steps
    <3>1. Append(tab[t].past, tab[t].canvas) \in Seq(Graphs)
      BY TabType, AppendProperties
    <3>2. past \in Seq(Graphs) /\ Len(past) <= HistoryLimit
      BY <3>1, LastStepsProperties
    <3> HIDE DEF past
    <3> QED BY <3>2, StepsType
  <2>2. canvas \in Graphs /\ future \in Steps
    <3>1. tab[t].future \in Seq(Graphs) /\ tab[t].future # <<>> /\ Len(tab[t].future) <= HistoryLimit
      BY <1>3, TabType DEF Redo
    <3>2. canvas \in Graphs /\ future \in Seq(Graphs) /\ Len(future) = Len(tab[t].future) - 1
      BY <3>1, HeadTailProperties
    <3>3. Len(future) <= HistoryLimit
      BY <3>1, <3>2, LenProperties, BuilderStoreAssumption
    <3> HIDE DEF future
    <3> QED BY <3>2, <3>3, StepsType
  <2>3. tab' = [tab EXCEPT ![t] = r]
    BY <1>3 DEF Redo
  <2> HIDE DEF canvas, past, future
  <2>4. r \in Tab
    BY <2>1, <2>2, TabType DEF Tab
  <2>5. tab' \in [Clients -> Tab]
    BY <2>3, <2>4, NewTabType
  <2> QED BY <1>3, <2>5 DEF Redo, TypeOK, ServerTypeOK, StoreTypeOK, serverVars
<1>4. CASE Close(t)
  <2> DEFINE r == [Closed EXCEPT !.mutation = tab[t].mutation, !.retried = tab[t].retried]
  <2>1. r \in Tab
    BY TabType, ClosedType DEF Tab
  <2>2. tab' \in [Clients -> Tab]
    BY <1>4, <2>1, NewTabType DEF Close
  <2> QED BY <1>4, <2>2 DEF Close, TypeOK, ServerTypeOK, StoreTypeOK, serverVars
<1> QED BY <1>1, <1>2, <1>3, <1>4 DEF UserStep

LEMMA StartStepType ==
  ASSUME TypeOK, NEW t \in Clients, StartStep(t)
  PROVE  TypeOK'
<1> USE ConstantTypes
<1>1. {} \in Graphs /\ 0 \in Nat
  OBVIOUS
<1>2. CASE StartSave(t)
  <2>1. req' \in [Clients -> Request]
    BY <1>2, TabType, AskType DEF StartSave
  <2>2. [tab[t] EXCEPT !.mutation = "save"] \in Tab
    BY TabType DEF Tab
  <2>3. tab' \in [Clients -> Tab]
    BY <1>2, <2>2, NewTabType DEF StartSave
  <2> QED BY <1>2, <2>1, <2>3 DEF StartSave, TypeOK, ServerTypeOK, StoreTypeOK
<1>3. CASE StartSync(t)
  <2>1. req' \in [Clients -> Request]
    BY <1>1, <1>3, AskType DEF StartSync
  <2>2. [tab[t] EXCEPT !.mutation = "sync"] \in Tab
    BY TabType DEF Tab
  <2>3. tab' \in [Clients -> Tab]
    BY <1>3, <2>2, NewTabType DEF StartSync
  <2> QED BY <1>3, <2>1, <2>3 DEF StartSync, TypeOK, ServerTypeOK, StoreTypeOK
<1>4. CASE StartOpen(t)
  <2> DEFINE r == [Closed EXCEPT !.status = "loading", !.synced = tab[t].synced,
                                 !.mutation = "open"]
  <2>1. req' \in [Clients -> Request]
    BY <1>1, <1>4, AskType DEF StartOpen
  <2>2. [tab[t] EXCEPT !.mutation = "open"] \in Tab
    BY TabType DEF Tab
  <2>3. r \in Tab
    BY TabType, ClosedType DEF Tab
  <2>4. tab' \in [Clients -> Tab]
    BY <1>4, <2>2, <2>3, NewTabType DEF StartOpen
  <2> QED BY <1>4, <2>1, <2>4 DEF StartOpen, TypeOK, ServerTypeOK, StoreTypeOK
<1>5. ASSUME NEW p \in Proposals, StartApply(t, p) PROVE TypeOK'
  <2>0. {p} \in Graphs
    OBVIOUS
  <2>1. req' \in [Clients -> Request]
    BY <1>1, <1>5, <2>0, AskType DEF StartApply
  <2>2. [tab[t] EXCEPT !.mutation = "apply"] \in Tab
    BY TabType DEF Tab
  <2>3. tab' \in [Clients -> Tab]
    BY <1>5, <2>2, NewTabType DEF StartApply
  <2> QED BY <1>5, <2>1, <2>3 DEF StartApply, TypeOK, ServerTypeOK, StoreTypeOK
<1> QED BY <1>2, <1>3, <1>4, <1>5 DEF StartStep

LEMMA FinishedStepType ==
  ASSUME TypeOK, NEW t \in Clients, tab' = [tab EXCEPT ![t] = Finished(t)]
  PROVE  tab' \in [Clients -> Tab]
  BY FinishedType, NewTabType

LEMMA RacedType ==
  ASSUME TypeOK, NEW t \in Clients, NEW b \in BOOLEAN, raced' = [raced EXCEPT ![t] = @ \/ b]
  PROVE  raced' \in [Clients -> BOOLEAN]
  BY DEF TypeOK, StoreTypeOK

LEMMA SaveAcceptedType ==
  ASSUME TypeOK, NEW t \in Clients, SaveAccepted(t)
  PROVE  TypeOK'
<1> DEFINE merged == (tab[t].canvas \ Echoed) \cup (req[t].graph \cap Echoed)
           edited == EditedMeanwhile(t)
           synced == IF edited THEN tab[t].synced ELSE merged
<1>1. merged \in Graphs /\ synced \in Graphs
  BY TabType
<1>2. req' \in [Clients -> Request]
  BY HangType DEF SaveAccepted
<1>3. CASE tab[t].status # "ready"
  <2>1. [Finished(t) EXCEPT !.unconfirmed = NoSave] \in Tab
    BY TabType, ClosedType DEF Finished, Tab
  <2>2. tab' \in [Clients -> Tab]
    BY <1>3, <2>1, NewTabType DEF SaveAccepted
  <2> QED BY <1>2, <1>3, <2>2 DEF SaveAccepted, Quiet, TypeOK, ServerTypeOK, StoreTypeOK
<1>4. CASE tab[t].status = "ready"
  <2> DEFINE r == [Finished(t) EXCEPT !.unconfirmed = NoSave, !.canvas = merged,
                                      !.synced = synced, !.revision = req[t].rev]
  <2>1. tab' = [tab EXCEPT ![t] = r]
    BY <1>4 DEF SaveAccepted
  <2>2. See(t, merged) /\ raced' = [raced EXCEPT ![t] = @ \/ req[t].rev # req[t].own]
    BY <1>4 DEF SaveAccepted
  <2> HIDE DEF merged, synced
  <2>3. r \in Tab
    BY <1>1, TabType, ClosedType DEF Finished, Tab
  <2>4. tab' \in [Clients -> Tab]
    BY <2>1, <2>3, NewTabType
  <2>5. seen' \in [Clients -> Graphs]
    BY <1>1, <2>2, SeeType
  <2>6. raced' \in [Clients -> BOOLEAN]
    BY <2>2, RacedType
  <2> QED BY <1>2, <2>4, <2>5, <2>6 DEF SaveAccepted, Quiet, TypeOK, ServerTypeOK, StoreTypeOK
<1> QED BY <1>3, <1>4

LEMMA AnswerStepType ==
  ASSUME TypeOK, NEW t \in Clients, AnswerStep(t)
  PROVE  TypeOK'
<1>1. CASE SaveAccepted(t)
  BY <1>1, SaveAcceptedType
<1>2. CASE RetryAsOurs(t)
  <2> DEFINE r == [tab[t] EXCEPT !.unconfirmed = NoSave, !.revision = req[t].rev,
                                 !.mutation = "save", !.retried = TRUE]
  <2>1. r \in Tab
    BY TabType, ClosedType DEF Tab
  <2>2. tab' \in [Clients -> Tab]
    BY <1>2, <2>1, NewTabType DEF RetryAsOurs
  <2>3. req' \in [Clients -> Request]
    BY <1>2, TabType, AskType DEF RetryAsOurs
  <2>4. raced' \in [Clients -> BOOLEAN]
    BY <1>2, RacedType DEF RetryAsOurs
  <2> QED BY <1>2, <2>2, <2>3, <2>4 DEF RetryAsOurs, TypeOK, ServerTypeOK, StoreTypeOK
<1>3. CASE AdoptLatest(t)
  <2>1. StoreTypeOK'
    BY <1>3, TabType, LoadType DEF AdoptLatest, Quiet
  <2>2. req' \in [Clients -> Request]
    BY <1>3, HangType DEF AdoptLatest
  <2> QED BY <1>3, <2>1, <2>2 DEF AdoptLatest, Quiet, TypeOK, ServerTypeOK
<1>4. CASE FetchLatest(t)
  <2>1. [tab[t] EXCEPT !.mutation = "latest"] \in Tab
    BY TabType DEF Tab
  <2>2. tab' \in [Clients -> Tab]
    BY <1>4, <2>1, NewTabType DEF FetchLatest
  <2>3. {} \in Graphs /\ 0 \in Nat
    OBVIOUS
  <2>4. req' \in [Clients -> Request]
    BY <1>4, <2>3, AskType DEF FetchLatest
  <2> QED BY <1>4, <2>2, <2>4 DEF FetchLatest, TypeOK, ServerTypeOK, StoreTypeOK
<1>5. CASE SaveFailed(t)
  <2>1. tab' \in [Clients -> Tab] /\ req' \in [Clients -> Request]
    BY <1>5, FinishedStepType, HangType DEF SaveFailed
  <2> QED BY <1>5, <2>1 DEF SaveFailed, TypeOK, ServerTypeOK, StoreTypeOK
<1>6. CASE FinishSync(t)
  <2>1. req' \in [Clients -> Request]
    BY <1>6, HangType DEF FinishSync
  <2>2. StoreTypeOK'
    <3>1. CASE SyncLoads(t)
      BY <1>6, <3>1, TabType, LoadType DEF FinishSync, Quiet
    <3>2. CASE ~SyncLoads(t)
      BY <1>6, <3>2, FinishedStepType DEF FinishSync, Quiet, TypeOK, StoreTypeOK
    <3> QED BY <3>1, <3>2
  <2> QED BY <1>6, <2>1, <2>2 DEF FinishSync, Quiet, TypeOK, ServerTypeOK
<1>7. CASE FinishOpen(t)
  <2>1. req' \in [Clients -> Request]
    BY <1>7, HangType DEF FinishOpen
  <2>2. StoreTypeOK'
    <3>1. CASE OpenLoads(t)
      BY <1>7, <3>1, TabType, LoadType DEF FinishOpen, Quiet
    <3>2. CASE ~OpenLoads(t)
      BY <1>7, <3>2, FinishedStepType DEF FinishOpen, Quiet, TypeOK, StoreTypeOK
    <3> QED BY <3>1, <3>2
  <2> QED BY <1>7, <2>1, <2>2 DEF FinishOpen, Quiet, TypeOK, ServerTypeOK
<1>8. CASE FinishApply(t)
  <2>1. req' \in [Clients -> Request]
    BY <1>8, HangType DEF FinishApply
  <2>2. StoreTypeOK'
    <3>1. CASE ApplyLoads(t)
      BY <1>8, <3>1, TabType, LoadType DEF FinishApply, Quiet
    <3>2. CASE ~ApplyLoads(t)
      BY <1>8, <3>2, FinishedStepType DEF FinishApply, Quiet, TypeOK, StoreTypeOK
    <3> QED BY <3>1, <3>2
  <2> QED BY <1>8, <2>1, <2>2 DEF FinishApply, Quiet, TypeOK, ServerTypeOK
<1> QED BY <1>1, <1>2, <1>3, <1>4, <1>5, <1>6, <1>7, <1>8 DEF AnswerStep

LEMMA LossStepType ==
  ASSUME TypeOK, NEW t \in Clients, LossStep(t)
  PROVE  TypeOK'
<1> USE ConstantTypes
<1>1. CASE SaveLost(t)
  <2> DEFINE lost == [revision |-> req[t].base, signature |-> graphSignature(req[t].body)]
             save == IF tab[t].status = "ready" /\ req[t].op = "save"
                     THEN lost ELSE tab[t].unconfirmed
             r == [Finished(t) EXCEPT !.unconfirmed = save]
  <2>1. lost \in Saves
    BY TabType DEF Saves, graphSignature
  <2>2. save \in Saves
    BY <2>1, TabType
  <2>3. tab' = [tab EXCEPT ![t] = r]
    BY <1>1 DEF SaveLost
  <2> HIDE DEF save
  <2>4. r \in Tab
    BY <2>2, TabType DEF Finished, Tab
  <2>5. tab' \in [Clients -> Tab] /\ req' \in [Clients -> Request]
    BY <1>1, <2>3, <2>4, NewTabType, HangType DEF SaveLost
  <2>6. Abandoned(t) \subseteq [base : Nat, body : Graphs, by : Clients]
    BY TabType DEF Abandoned
  <2>7. stray' \in SUBSET [base : Nat, body : Graphs, by : Clients]
    BY <1>1, <2>6 DEF SaveLost, TypeOK, ServerTypeOK
  <2> QED BY <1>1, <2>5, <2>7 DEF SaveLost, Failure, TypeOK, ServerTypeOK, StoreTypeOK
<1>2. CASE OtherLost(t)
  <2>1. tab' \in [Clients -> Tab] /\ req' \in [Clients -> Request]
    BY <1>2, FinishedStepType, HangType DEF OtherLost
  <2> QED BY <1>2, <2>1 DEF OtherLost, Failure, TypeOK, ServerTypeOK, StoreTypeOK
<1>3. ASSUME NEW cleared \in BOOLEAN, OpenFailed(t, cleared) PROVE TypeOK'
  <2> DEFINE status == IF tab[t].status = "loading" THEN "error" ELSE tab[t].status
             r == [Finished(t) EXCEPT !.status = status]
  <2>1. status \in {"idle", "loading", "ready", "error"}
    BY TabType DEF Tab
  <2>2. tab' = [tab EXCEPT ![t] = IF cleared THEN Closed ELSE r]
    BY <1>3 DEF OpenFailed
  <2> HIDE DEF status
  <2>3. r \in Tab
    BY <2>1, TabType DEF Finished, Tab
  <2>4. (IF cleared THEN Closed ELSE r) \in Tab
    BY <2>3, ClosedType
  <2>5. tab' \in [Clients -> Tab] /\ req' \in [Clients -> Request]
    BY <1>3, <2>2, <2>4, NewTabType, HangType DEF OpenFailed
  <2>6. failures' \in 0 .. MaxFailures
    BY <1>3 DEF OpenFailed, Failure, TypeOK, ServerTypeOK
  <2> QED BY <1>3, <2>5, <2>6 DEF OpenFailed, TypeOK, ServerTypeOK, StoreTypeOK
<1> QED BY <1>1, <1>2, <1>3 DEF LossStep

LEMMA NextType == TypeOK /\ [Next]_vars => TypeOK'
<1> SUFFICES ASSUME TypeOK, [Next]_vars PROVE TypeOK'
  OBVIOUS
<1>1. CASE ServerStep
  BY <1>1, ServerStepType
<1>2. ASSUME NEW t \in Clients, TabStep(t) PROVE TypeOK'
  BY <1>2, UserStepType, StartStepType, AnswerStepType, LossStepType DEF TabStep
<1>3. CASE UNCHANGED vars
  BY <1>3 DEF vars, serverVars, TypeOK, ServerTypeOK, StoreTypeOK
<1> QED BY <1>1, <1>2, <1>3 DEF Next

LEMMA InitType == Init => TypeOK
<1> SUFFICES ASSUME Init PROVE TypeOK
  OBVIOUS
<1> USE ConstantTypes
<1>1. log \in Seq(Version) /\ Len(log) >= 1
  BY DEF Init, ServerInit
<1> QED BY <1>1, IdleType, ClosedType DEF Init, ServerInit, TypeOK, ServerTypeOK, StoreTypeOK

\* Every variable of the save protocol keeps its type: what a request, a tab and
\* the revision history are made of, in every reachable state.
THEOREM TypeCorrect == Spec => []TypeOK
  BY InitType, NextType, PTL DEF Spec

-----------------------------------------------------------------------------
HIDE DEF Graphs, Version

(***************************************************************************)
(* The inductive invariant.                                                *)
(***************************************************************************)

\* Tab t may save over revision b: b is not the newest one (the save will be
\* refused), or t has seen all it holds.
Known(t, b) ==
  /\ b <= Len(log)
  /\ b = Len(log) => raced[t] \/ log[b].graph \subseteq seen[t]

\* Everything a tab can show or send has been on its canvas.
OwnWork(t) ==
  /\ tab[t].canvas \subseteq seen[t]
  /\ \A i \in 1 .. Len(tab[t].past) : tab[t].past[i] \subseteq seen[t]
  /\ \A i \in 1 .. Len(tab[t].future) : tab[t].future[i] \subseteq seen[t]
  /\ req[t].op = "save" => req[t].body \subseteq seen[t]

OwnRevisions ==
  \A r \in 1 .. Len(log) : log[r].by # Nobody => log[r].graph \subseteq seen[log[r].by]

\* What a request still being served, or its answer, says of the revisions.
RequestOK(t) ==
  /\ req[t].op = "save" /\ req[t].stage = "sent" => Known(t, req[t].base)
  /\ req[t].stage \in {"row", "done"} => req[t].rev <= Len(log)
  /\ req[t].stage = "row" \/ req[t].found => 1 <= req[t].rev
  /\ req[t].found => req[t].stage = "done"
  /\ req[t].stage = "done" /\ req[t].status = "ok" => req[t].found
  /\ req[t].stage = "sent" => req[t].own = 0 /\ req[t].status = "none"
  /\ req[t].own # 0 =>
       /\ req[t].own <= Len(log)
       /\ req[t].stage \in {"row", "done"} => req[t].own <= req[t].rev
       /\ req[t].op = "save" => log[req[t].own].by = t /\ log[req[t].own].graph = req[t].body
  /\ req[t].op = "save" /\ req[t].status = "ok" => req[t].own # 0

ReadyOK(t) == tab[t].status = "ready" => Known(t, tab[t].revision)

\* The rows of table q in an answer are those of revision r, as far as they found
\* the devices they belong to.
RowsOf(t, q, r) ==
  /\ req[t].graph \cap q \subseteq log[r].graph
  /\ q \in Nested \/ log[r].graph \cap q \subseteq req[t].graph

\* They are of its revision or a later one, and the newest if its revision is.
TableOK(t, q) ==
  /\ \E r \in req[t].rev .. Len(log) : RowsOf(t, q, r)
  /\ req[t].rev = Len(log) => req[t].graph \cap q = log[Len(log)].graph \cap q

\* What an answer holds of the tables while they are read one after the other.
AnswerOK(t) ==
  /\ req[t].found => req[t].left = {}
  /\ req[t].stage \in {"sent", "read"} => req[t].graph = {}
  /\ req[t].stage = "row" \/ req[t].found =>
       /\ \A q \in req[t].left : req[t].graph \cap q = {}
       /\ \A q \in Tables \ req[t].left : TableOK(t, q)

TabOK(t) == OwnWork(t) /\ RequestOK(t) /\ ReadyOK(t) /\ AnswerOK(t)

StrayOK == \A s \in stray : s.body \subseteq seen[s.by] /\ Known(s.by, s.base)

IInv ==
  /\ TypeOK
  /\ \A t \in Clients : TabOK(t)
  /\ OwnRevisions
  /\ StrayOK
  /\ SavesSeeWhatTheyReplace

-----------------------------------------------------------------------------
(* What a step leaves alone.                                               *)

\* The histories only grow.
Growth ==
  \A t \in Clients : seen[t] \subseteq seen'[t] /\ (raced[t] => raced'[t])

OthersStay(t) ==
  \A u \in Clients : u # t => tab'[u] = tab[u] /\ req'[u] = req[u]

LEMMA LogFacts ==
  ASSUME TypeOK
  PROVE  /\ Len(log) \in Nat /\ Len(log) >= 1
         /\ \A r \in 1 .. Len(log) : log[r] \in Version
         /\ \A r \in 1 .. Len(log) : log[r].graph \in Graphs /\ log[r].by \in Clients \cup {Nobody}
<1>1. log \in Seq(Version) /\ Len(log) \in Nat /\ Len(log) >= 1
  BY LenProperties DEF TypeOK, ServerTypeOK
<1>2. \A r \in 1 .. Len(log) : log[r] \in Version
  BY <1>1, ElementOfSeq
<1>3. \A v \in Version : v.graph \in Graphs /\ v.by \in Clients \cup {Nobody}
  BY DEF Version
<1> QED BY <1>1, <1>2, <1>3

LEMMA AppendFacts ==
  ASSUME TypeOK, NEW graph \in Graphs, NEW by \in Clients \cup {Nobody}, NewRevision(graph, by)
  PROVE  /\ Len(log') = Len(log) + 1
         /\ \A r \in 1 .. Len(log) : log'[r] = log[r]
         /\ log'[Len(log) + 1].graph = graph /\ log'[Len(log) + 1].by = by
<1> DEFINE v == [graph |-> graph, by |-> by]
<1>1. log \in Seq(Version) /\ v \in Version /\ log' = Append(log, v)
  BY DEF NewRevision, TypeOK, ServerTypeOK, Version
<1>2. v.graph = graph /\ v.by = by
  OBVIOUS
<1> HIDE DEF v
<1> QED BY <1>1, <1>2, AppendProperties

\* A step that leaves the revisions alone and keeps what the invariant says of
\* the one tab it touches keeps the invariant.
LEMMA LocalStep ==
  ASSUME IInv, TypeOK', NEW t \in Clients, log' = log, Growth, OthersStay(t),
         TabOK(t)', StrayOK'
  PROVE  IInv'
<1>1. ASSUME NEW u \in Clients PROVE TabOK(u)'
  <2>1. CASE u = t
    BY <2>1
  <2>2. CASE u # t
    <3>1. tab'[u] = tab[u] /\ req'[u] = req[u]
      BY <2>2 DEF OthersStay
    <3>2. seen[u] \subseteq seen'[u] /\ (raced[u] => raced'[u])
      BY DEF Growth
    <3>3. TabOK(u)
      BY DEF IInv
    <3>4. OwnWork(u)'
      BY <3>1, <3>2, <3>3 DEF TabOK, OwnWork
    <3>5. \A b \in Nat : Known(u, b) => Known(u, b)'
      BY <3>2 DEF Known
    <3>6. req[u].base \in Nat /\ tab[u].revision \in Nat
      BY TabType DEF IInv
    <3>7. RequestOK(u)'
      BY <3>1, <3>3, <3>5, <3>6 DEF TabOK, RequestOK
    <3>8. ReadyOK(u)'
      BY <3>1, <3>3, <3>5, <3>6 DEF TabOK, ReadyOK
    <3>9. AnswerOK(u)'
      BY <3>1, <3>3 DEF TabOK, AnswerOK, TableOK, RowsOf
    <3> QED BY <3>4, <3>7, <3>8, <3>9 DEF TabOK
  <2> QED BY <2>1, <2>2
<1>2. OwnRevisions'
  <2> SUFFICES ASSUME NEW r \in 1 .. Len(log), log[r].by # Nobody
               PROVE  log[r].graph \subseteq seen'[log[r].by]
    BY DEF OwnRevisions
  <2>1. log[r].by \in Clients
    BY LogFacts DEF IInv
  <2> QED BY <2>1 DEF IInv, OwnRevisions, Growth
<1>3. SavesSeeWhatTheyReplace'
  <2> SUFFICES ASSUME NEW r \in 2 .. Len(log), log[r].by # Nobody, ~raced'[log[r].by]
               PROVE  log[r-1].graph \subseteq seen'[log[r].by]
    BY DEF SavesSeeWhatTheyReplace
  <2>0. r \in 1 .. Len(log)
    BY LogFacts DEF IInv
  <2>1. log[r].by \in Clients
    BY <2>0, LogFacts DEF IInv
  <2>2. ~raced[log[r].by]
    BY <2>1 DEF Growth
  <2>3. log[r-1].graph \subseteq seen[log[r].by]
    BY <2>2 DEF IInv, SavesSeeWhatTheyReplace
  <2> QED BY <2>1, <2>3 DEF Growth
<1> QED BY <1>1, <1>2, <1>3 DEF IInv

\* The same, when the step leaves alone what the strays are compared with.
LEMMA StraysStay ==
  ASSUME IInv, log' = log, Growth, stray' \subseteq stray
  PROVE  StrayOK'
<1> SUFFICES ASSUME NEW s \in stray'
             PROVE  s.body \subseteq seen'[s.by] /\ Known(s.by, s.base)'
  BY DEF StrayOK
<1>1. s.by \in Clients
  BY DEF IInv, TypeOK, ServerTypeOK
<1>2. s.body \subseteq seen[s.by] /\ Known(s.by, s.base)
  BY DEF IInv, StrayOK
<1> QED BY <1>1, <1>2 DEF Growth, Known

\* Request t has just created the newest revision, by `by`.
CommittedBy(t, graph, by) ==
  /\ req[t].stage = "sent" /\ (req[t].op = "save" => by = t /\ graph = req[t].body)
  /\ req'[t].op = req[t].op /\ req'[t].body = req[t].body /\ req'[t].found = req[t].found
  /\ req'[t].graph = req[t].graph
  /\ req'[t].stage = "read" /\ req'[t].own = Len(log) + 1 /\ req'[t].status = "ok"

\* A step that adds a revision, as the transaction of one request or of none.
LEMMA AppendStep ==
  ASSUME IInv, TypeOK', NEW graph \in Graphs, NEW by \in Clients \cup {Nobody},
         NewRevision(graph, by), UNCHANGED <<tab, seen, raced>>, stray' \subseteq stray,
         by # Nobody => graph \subseteq seen[by] /\ (raced[by] \/ Graph \subseteq seen[by]),
         \A t \in Clients :
           CommittedBy(t, graph, by) \/ req'[t] = req[t]
  PROVE  IInv'
<1>1. /\ Len(log') = Len(log) + 1
      /\ \A r \in 1 .. Len(log) : log'[r] = log[r]
      /\ log'[Len(log) + 1].graph = graph /\ log'[Len(log) + 1].by = by
      /\ Len(log) \in Nat /\ Len(log) >= 1
  BY LogFacts, AppendFacts DEF IInv
<1>2. \A t \in Clients, b \in Nat : b <= Len(log) => Known(t, b)'
  BY <1>1 DEF Known
<1>3. ASSUME NEW t \in Clients PROVE TabOK(t)'
  <2>1. TabOK(t) /\ tab[t].revision \in Nat /\ req[t] \in Request /\ req[t].base \in Nat
        /\ req[t].own \in Nat /\ req[t].rev \in Nat
    BY TabType DEF IInv
  <2>2. OwnWork(t)'
    <3>1. req'[t].op = req[t].op /\ req'[t].body = req[t].body
      BY DEF CommittedBy
    <3> QED BY <2>1, <3>1 DEF TabOK, OwnWork
  <2>3. ReadyOK(t)'
    BY <1>2, <2>1 DEF TabOK, ReadyOK, Known
  <2>4. CASE req'[t] = req[t]
    <3>1. RequestOK(t)'
      <4>1. req[t].own # 0 /\ req[t].own <= Len(log) => log'[req[t].own] = log[req[t].own]
        BY <1>1, <2>1
      <4> QED BY <1>1, <1>2, <2>1, <2>4, <4>1 DEF TabOK, RequestOK, Known
    <3>2. AnswerOK(t)'
      <4> SUFFICES ASSUME req[t].stage = "row" \/ req[t].found, NEW q \in Tables \ req[t].left
                   PROVE  TableOK(t, q)'
        BY <2>1, <2>4 DEF TabOK, AnswerOK
      <4>1. 1 <= req[t].rev /\ req[t].rev <= Len(log)
        BY <2>1 DEF TabOK, RequestOK
      <4>2. PICK r \in req[t].rev .. Len(log) : RowsOf(t, q, r)
        BY <2>1 DEF TabOK, AnswerOK, TableOK
      <4>3. r \in req[t].rev .. Len(log') /\ log'[r] = log[r] /\ req[t].rev # Len(log')
        BY <1>1, <2>1, <4>1
      <4> QED BY <2>4, <4>2, <4>3 DEF TableOK, RowsOf
    <3> QED BY <2>2, <2>3, <3>1, <3>2 DEF TabOK
  <2>5. CASE CommittedBy(t, graph, by)
    <3>1. ~req[t].found
      BY <2>1, <2>5 DEF TabOK, RequestOK, CommittedBy
    <3>2. RequestOK(t)'
      BY <1>1, <2>5, <3>1 DEF RequestOK, CommittedBy
    <3>3. AnswerOK(t)'
      BY <2>1, <2>5, <3>1 DEF TabOK, AnswerOK, CommittedBy
    <3> QED BY <2>2, <2>3, <3>2, <3>3 DEF TabOK
  <2> QED BY <2>4, <2>5
<1>4. OwnRevisions'
  BY <1>1 DEF IInv, OwnRevisions
<1>5. StrayOK'
  <2> SUFFICES ASSUME NEW s \in stray'
               PROVE  s.body \subseteq seen[s.by] /\ Known(s.by, s.base)'
    BY DEF StrayOK
  <2>1. s.by \in Clients /\ s.base \in Nat
    BY DEF IInv, TypeOK, ServerTypeOK
  <2>2. s.body \subseteq seen[s.by] /\ s.base <= Len(log)
    BY DEF IInv, StrayOK, Known
  <2> QED BY <1>2, <2>1, <2>2
<1>6. SavesSeeWhatTheyReplace'
  <2> SUFFICES ASSUME NEW r \in 2 .. Len(log) + 1, log'[r].by # Nobody, ~raced[log'[r].by]
               PROVE  log'[r-1].graph \subseteq seen[log'[r].by]
    BY <1>1 DEF SavesSeeWhatTheyReplace
  <2>1. CASE r = Len(log) + 1
    <3>1. log'[r].by = by /\ log'[r-1] = log[Len(log)] /\ by # Nobody
      BY <1>1, <2>1
    <3> QED BY <3>1
  <2>2. CASE r # Len(log) + 1
    <3>1. r \in 2 .. Len(log) /\ log'[r] = log[r] /\ log'[r-1] = log[r-1]
      BY <1>1, <2>2
    <3> QED BY <3>1 DEF IInv, SavesSeeWhatTheyReplace
  <2> QED BY <2>1, <2>2
<1> QED BY <1>3, <1>4, <1>5, <1>6 DEF IInv

-----------------------------------------------------------------------------
(* What the three kinds of new requests say.                               *)

LEMMA HungOK ==
  ASSUME IInv, NEW t \in Clients, log' = log, Hang(t)
  PROVE  RequestOK(t)' /\ AnswerOK(t)' /\ req'[t].op # "save"
<1>1. req'[t] = Idle
  BY DEF Hang, IInv, TypeOK, ServerTypeOK
<1> QED BY <1>1, LogFacts DEF Idle, RequestOK, AnswerOK, IInv

LEMMA AskedOK ==
  ASSUME IInv, NEW t \in Clients, NEW op, NEW base, NEW body, log' = log,
         req' = Ask(t, op, base, body), op = "save" => Known(t, base)'
  PROVE  RequestOK(t)' /\ AnswerOK(t)' /\ req'[t].op = op /\ req'[t].body = body
<1>1. req'[t] = [Idle EXCEPT !.op = op, !.stage = "sent", !.base = base, !.body = body]
  BY DEF Ask, IInv, TypeOK, ServerTypeOK
<1>2. /\ req'[t].op = op /\ req'[t].stage = "sent" /\ req'[t].base = base /\ req'[t].graph = {}
      /\ req'[t].body = body /\ ~req'[t].found /\ req'[t].own = 0 /\ req'[t].status = "none"
  BY <1>1 DEF Idle
<1> QED BY <1>2 DEF RequestOK, AnswerOK

LEMMA SettledOK ==
  ASSUME IInv, NEW t \in Clients, NEW status \in {"conflict", "refused", "error"},
         log' = log, Settle(t, status)
  PROVE  RequestOK(t)' /\ AnswerOK(t)' /\ req'[t].op = req[t].op /\ req'[t].body = {}
<1>1. req'[t] = [Idle EXCEPT !.op = req[t].op, !.stage = "done", !.status = status]
  BY DEF Settle, IInv, TypeOK, ServerTypeOK
<1>2. /\ req'[t].op = req[t].op /\ req'[t].stage = "done" /\ req'[t].status = status
      /\ req'[t].body = {} /\ ~req'[t].found /\ req'[t].own = 0 /\ req'[t].rev = 0
  BY <1>1 DEF Idle
<1> QED BY <1>2, LogFacts DEF RequestOK, AnswerOK, IInv

-----------------------------------------------------------------------------
(* The server's steps.                                                     *)

\* A step of a request alone, that keeps what is known of it.
LEMMA RequestStep ==
  ASSUME IInv, TypeOK', NEW t \in Clients, UNCHANGED <<log, stray, tab, seen, raced>>,
         \A u \in Clients : u # t => req'[u] = req[u],
         RequestOK(t)', AnswerOK(t)', req'[t].op = "save" => req'[t].body \subseteq seen[t]
  PROVE  IInv'
<1>1. Growth /\ OthersStay(t)
  BY DEF Growth, OthersStay
<1>2. StrayOK'
  BY <1>1, StraysStay
<1>3. TabOK(t)
  BY DEF IInv
<1>4. OwnWork(t)' /\ ReadyOK(t)'
  BY <1>3 DEF TabOK, OwnWork, ReadyOK, Known
<1> QED BY <1>1, <1>2, <1>4, LocalStep DEF TabOK

LEMMA CommittedStep ==
  ASSUME TypeOK, NEW t \in Clients, NEW graph, NEW by, Committed(t), req[t].stage = "sent",
         req[t].op = "save" => by = t /\ graph = req[t].body
  PROVE  \A u \in Clients : CommittedBy(u, graph, by) \/ req'[u] = req[u]
<1>1. \A u \in Clients : u # t => req'[u] = req[u]
  BY DEF Committed
<1>2. req'[t] = [req[t] EXCEPT !.stage = "read", !.own = Len(log) + 1, !.status = "ok"]
  BY DEF Committed, TypeOK, ServerTypeOK
<1>3. req[t] \in Request
  BY TabType
<1>4. CommittedBy(t, graph, by)
  BY <1>2, <1>3 DEF CommittedBy, Request
<1> QED BY <1>1, <1>4

\* An accepted base is the newest revision, so all of it has been seen.
LEMMA AcceptedIsKnown ==
  ASSUME IInv, NEW t \in Clients, NEW base, NEW body, Accepts(base, body), Known(t, base)
  PROVE  raced[t] \/ Graph \subseteq seen[t]
  BY DEF Accepts, Known

\* One more table of an answer is read: its rows are those of the newest revision.
LEMMA ReadTableOK ==
  ASSUME IInv, NEW c \in Clients, NEW q \in req[c].left, NEW orphans \in Orphans(c, q),
         req[c].stage = "row", log' = log, req'[c] = Answer(c, q, orphans)
  PROVE  RequestOK(c)' /\ AnswerOK(c)' /\ req'[c].op = req[c].op /\ req'[c].body = req[c].body
<1> DEFINE rows == Rows(q, orphans)
           n == ReadSoFar(c, q, orphans)
           last == req[c].left \ {q} = {}
<1>0. TypeOK /\ RequestOK(c) /\ AnswerOK(c) /\ req[c] \in Request
  BY TabType DEF IInv, TabOK
<1>1. /\ n.op = req[c].op /\ n.body = req[c].body /\ n.own = req[c].own /\ n.rev = req[c].rev
      /\ n.base = req[c].base /\ n.stage = "row" /\ n.found = req[c].found
      /\ n.status = req[c].status /\ n.left = req[c].left \ {q}
      /\ n.graph = req[c].graph \cup rows
  BY <1>0 DEF ReadSoFar, Request
<1>2. n \in Request
  <2>1. rows \in Graphs
    BY <1>0, LastGraphType DEF Rows, Graphs
  <2> HIDE DEF rows
  <2>2. req[c].graph \cup rows \in Graphs
    BY <1>0, <2>1, TabType DEF Graphs
  <2>3. ReadSoFar(c, q, orphans) = [req[c] EXCEPT !.left = @ \ {q}, !.graph = @ \cup rows]
    BY DEF ReadSoFar, rows
  <2> QED BY <1>0, <2>2, <2>3 DEF Request
<1>3. req'[c] = Complete(n)
  BY DEF Answer
<1> HIDE DEF n, rows
<1>4. /\ req'[c].op = req[c].op /\ req'[c].body = req[c].body /\ req'[c].own = req[c].own
      /\ req'[c].rev = req[c].rev /\ req'[c].graph = req[c].graph \cup rows
      /\ req'[c].left = req[c].left \ {q}
      /\ req'[c].stage = IF last THEN "done" ELSE "row"
      /\ req'[c].found = IF last THEN TRUE ELSE req[c].found
      /\ req'[c].status = IF last /\ req[c].op = "get" THEN "ok" ELSE req[c].status
  BY <1>1, <1>2, <1>3 DEF Complete, Request
<1>5. ~req[c].found /\ 1 <= req[c].rev /\ req[c].rev <= Len(log)
  BY <1>0 DEF RequestOK
<1>6. RequestOK(c)'
  BY <1>0, <1>4, <1>5 DEF RequestOK
<1>7. rows \subseteq q /\ rows \subseteq log[Len(log)].graph
      /\ (q \notin Nested \/ req[c].rev = Len(log) => rows = log[Len(log)].graph \cap q)
  BY DEF rows, Rows, Orphans
<1>8. q \in Tables /\ req[c].left \subseteq Tables
  BY <1>0 DEF Request
<1>9. req[c].graph \cap q = {}
  BY <1>0 DEF AnswerOK
<1>10. ASSUME NEW p \in Tables, p # q PROVE req'[c].graph \cap p = req[c].graph \cap p
  <2>1. p \cap q = {}
    BY <1>8, <1>10, TablesPartition
  <2> QED BY <1>4, <1>7, <2>1
<1>11. TableOK(c, q)'
  <2>1. req'[c].graph \cap q = rows
    BY <1>4, <1>7, <1>9
  <2>2. RowsOf(c, q, Len(log))'
    BY <1>7, <2>1 DEF RowsOf
  <2>3. Len(log) \in req[c].rev .. Len(log)
    BY <1>0, <1>5, TabType, LogFacts
  <2> QED BY <1>4, <1>7, <2>1, <2>2, <2>3 DEF TableOK
<1>12. ASSUME NEW p \in Tables \ req[c].left PROVE TableOK(c, p)'
  <2>1. req'[c].graph \cap p = req[c].graph \cap p
    BY <1>10
  <2>2. TableOK(c, p)
    BY <1>0 DEF AnswerOK
  <2> QED BY <1>4, <2>1, <2>2 DEF TableOK, RowsOf
<1>13. AnswerOK(c)'
  <2>1. \A p \in req'[c].left : req'[c].graph \cap p = {}
    BY <1>0, <1>4, <1>8, <1>10 DEF AnswerOK
  <2>2. \A p \in Tables \ req'[c].left : TableOK(c, p)'
    BY <1>4, <1>11, <1>12
  <2>3. (req'[c].found => req'[c].left = {}) /\ req'[c].stage \notin {"sent", "read"}
    BY <1>4, <1>5
  <2> QED BY <2>1, <2>2, <2>3 DEF AnswerOK
<1> QED BY <1>4, <1>6, <1>13

LEMMA ServerStepSafe ==
  ASSUME IInv, TypeOK', ServerStep
  PROVE  IInv'
<1>0. UNCHANGED <<tab, made, seen, raced>>
  BY DEF ServerStep
<1>1. ASSUME NEW c \in Clients, Serve(c) PROVE IInv'
  <2>0. TabOK(c) /\ TypeOK
    BY DEF IInv
  <2>1. CASE CommitSave(c)
    <3>1. req[c].op = "save" /\ req[c].stage = "sent" /\ Accepts(req[c].base, req[c].body)
          /\ NewRevision(req[c].body, c) /\ Committed(c) /\ stray' = stray
      BY <2>1 DEF CommitSave
    <3>2. req[c].body \in Graphs
      BY <2>0, TabType
    <3>3. req[c].body \subseteq seen[c]
      BY <2>0, <3>1 DEF TabOK, OwnWork
    <3>4. raced[c] \/ Graph \subseteq seen[c]
      BY <2>0, <3>1, AcceptedIsKnown DEF TabOK, RequestOK
    <3>5. \A u \in Clients : CommittedBy(u, req[c].body, c) \/ req'[u] = req[u]
      BY <2>0, <3>1, CommittedStep
    <3> QED BY <1>0, <3>1, <3>2, <3>3, <3>4, <3>5, AppendStep
  <2>2. CASE RefuseStale(c)
    <3>1. req'[c] = [Idle EXCEPT !.op = "save", !.stage = "read", !.status = "conflict"]
      BY <2>0, <2>2 DEF RefuseStale, TypeOK, ServerTypeOK
    <3>2. /\ req'[c].stage = "read" /\ req'[c].status = "conflict" /\ req'[c].body = {}
          /\ ~req'[c].found /\ req'[c].own = 0 /\ req'[c].rev = 0 /\ req'[c].graph = {}
      BY <3>1 DEF Idle
    <3>3. RequestOK(c)' /\ AnswerOK(c)'
      BY <3>2 DEF RequestOK, AnswerOK
    <3> QED BY <1>0, <2>2, <3>2, <3>3, RequestStep DEF RefuseStale
  <2>3. CASE RefuseInvalid(c) \/ RefuseApply(c)
    <3>1. Settle(c, "refused") /\ UNCHANGED <<log, stray>>
      BY <2>3 DEF RefuseInvalid, RefuseApply
    <3>2. \A u \in Clients : u # c => req'[u] = req[u]
      BY <3>1 DEF Settle
    <3> QED BY <1>0, <3>1, <3>2, SettledOK, RequestStep
  <2>4. CASE CommitApply(c)
    <3>1. req[c].op = "apply" /\ req[c].stage = "sent" /\ Committed(c) /\ stray' = stray
          /\ NewRevision(Graph \cup req[c].body, Nobody)
      BY <2>4 DEF CommitApply
    <3>2. Graph \cup req[c].body \in Graphs
      BY <2>0, TabType, LogFacts DEF Graphs
    <3>3. \A u \in Clients : CommittedBy(u, Graph \cup req[c].body, Nobody) \/ req'[u] = req[u]
      BY <2>0, <3>1, CommittedStep
    <3> QED BY <1>0, <3>1, <3>2, <3>3, AppendStep
  <2>5. CASE ReadRow(c)
    <3>1. req'[c] = [req[c] EXCEPT !.stage = "row", !.rev = Len(log), !.left = Tables]
      BY <2>0, <2>5 DEF ReadRow, TypeOK, ServerTypeOK
    <3>2. req[c] \in Request
      BY <2>0, TabType
    <3>3. /\ req'[c].stage = "row" /\ req'[c].rev = Len(log) /\ req'[c].op = req[c].op
          /\ req'[c].found = req[c].found /\ req'[c].own = req[c].own
          /\ req'[c].status = req[c].status /\ req'[c].body = req[c].body
          /\ req'[c].graph = req[c].graph /\ req'[c].left = Tables
      BY <3>1, <3>2 DEF Request
    <3>4. req[c].stage \in {"read", "sent"} /\ log' = log
      BY <2>5 DEF ReadRow
    <3>5. RequestOK(c)'
      BY <2>0, <2>5, <3>3, <3>4, LogFacts DEF ReadRow, TabOK, RequestOK
    <3>6. AnswerOK(c)'
      BY <2>0, <3>3, <3>4 DEF TabOK, RequestOK, AnswerOK
    <3>7. req'[c].op = "save" => req'[c].body \subseteq seen[c]
      BY <2>0, <3>3 DEF TabOK, OwnWork
    <3> QED BY <1>0, <2>5, <3>5, <3>6, <3>7, RequestStep DEF ReadRow
  <2>6. CASE ReadGraph(c)
    <3>1. PICK q \in req[c].left : ReadTable(c, q)
      BY <2>6 DEF ReadGraph
    <3>2. PICK orphans \in Orphans(c, q) : req' = [req EXCEPT ![c] = Answer(c, q, orphans)]
      BY <3>1 DEF ReadTable, Answer, ReadSoFar, Rows
    <3>3. req'[c] = Answer(c, q, orphans) /\ UNCHANGED <<log, stray>> /\ req[c].stage = "row"
      BY <2>0, <3>1, <3>2 DEF ReadTable, TypeOK, ServerTypeOK
    <3>4. RequestOK(c)' /\ AnswerOK(c)' /\ req'[c].op = req[c].op /\ req'[c].body = req[c].body
      BY <3>3, ReadTableOK
    <3>5. req'[c].op = "save" => req'[c].body \subseteq seen[c]
      BY <2>0, <3>4 DEF TabOK, OwnWork
    <3>6. \A u \in Clients : u # c => req'[u] = req[u]
      BY <3>2
    <3> QED BY <1>0, <3>3, <3>4, <3>5, <3>6, RequestStep
  <2> QED BY <1>1, <2>1, <2>2, <2>3, <2>4, <2>5, <2>6 DEF Serve
<1>2. ASSUME NEW c \in Clients, Fail(c) PROVE IInv'
  <2>1. PICK status \in {"conflict", "refused", "error"} : Settle(c, status)
    BY <1>2 DEF Fail, FailBefore, ReadFails
  <2>2. \A u \in Clients : u # c => req'[u] = req[u]
    BY <2>1 DEF Settle
  <2>3. UNCHANGED <<log, stray>>
    BY <1>2 DEF Fail, FailBefore, ReadFails
  <2> QED BY <1>0, <2>1, <2>2, <2>3, SettledOK, RequestStep
<1>3. CASE RenameElsewhere
  <2>1. Graph \in Graphs
    BY LogFacts DEF IInv
  <2> QED BY <1>0, <1>3, <2>1, AppendStep DEF RenameElsewhere
<1>4. ASSUME NEW e \in Elsewhere, SaveElsewhere(e) PROVE IInv'
  <2>1. Graph \cup {e} \in Graphs
    BY LogFacts, ConstantTypes DEF IInv, Graphs
  <2> QED BY <1>0, <1>4, <2>1, AppendStep DEF SaveElsewhere
<1>5. ASSUME NEW s \in stray, CommitStray(s) PROVE IInv'
  <2>1. s.body \in Graphs /\ s.by \in Clients
    BY DEF IInv, TypeOK, ServerTypeOK
  <2>2. s.body \subseteq seen[s.by] /\ Known(s.by, s.base)
    BY DEF IInv, StrayOK
  <2>3. raced[s.by] \/ Graph \subseteq seen[s.by]
    BY <1>5, <2>1, <2>2, AcceptedIsKnown DEF CommitStray
  <2> QED BY <1>0, <1>5, <2>1, <2>2, <2>3, AppendStep DEF CommitStray
<1>6. ASSUME NEW s \in stray, DropStray(s) PROVE IInv'
  <2>1. UNCHANGED <<log, req>> /\ stray' \subseteq stray
    BY <1>6 DEF DropStray
  <2>2. StrayOK'
    BY <1>0, <2>1, StraysStay DEF Growth
  <2>3. \A t \in Clients : TabOK(t)'
    BY <1>0, <2>1 DEF IInv, TabOK, OwnWork, RequestOK, ReadyOK, AnswerOK, TableOK, RowsOf, Known
  <2> QED BY <1>0, <2>1, <2>2, <2>3 DEF IInv, OwnRevisions, SavesSeeWhatTheyReplace
<1> QED BY <1>1, <1>2, <1>3, <1>4, <1>5, <1>6 DEF ServerStep, ServerNext

-----------------------------------------------------------------------------
(* The tab's steps.                                                        *)

\* Whatever is done to the store of one tab: what is asked for next and what is
\* on the canvas and in the history has been seen, and so has the newest revision
\* if that is the one the tab says it holds.
LEMMA TabStepKeeps ==
  ASSUME IInv, TypeOK', NEW t \in Clients, log' = log, Growth, OthersStay(t),
         OwnWork(t)', RequestOK(t)', AnswerOK(t)', ReadyOK(t)', stray' \subseteq stray
  PROVE  IInv'
  BY StraysStay, LocalStep DEF TabOK

\* A step of the store's records that looks at one tab.
LEMMA TabUpdate ==
  ASSUME IInv, NEW t \in Clients, NEW r, tab' = [tab EXCEPT ![t] = r]
  PROVE  tab'[t] = r /\ \A u \in Clients : u # t => tab'[u] = tab[u]
  BY DEF IInv, TypeOK, StoreTypeOK

LEMMA SeeGrows ==
  ASSUME IInv, NEW t \in Clients, NEW graph, See(t, graph)
  PROVE  /\ graph \subseteq seen'[t] /\ seen[t] \subseteq seen'[t]
         /\ \A u \in Clients : seen[u] \subseteq seen'[u]
  BY DEF See, IInv, TypeOK, StoreTypeOK

LEMMA RacedGrows ==
  ASSUME IInv, NEW t \in Clients, NEW b \in BOOLEAN, raced' = [raced EXCEPT ![t] = @ \/ b]
  PROVE  /\ b => raced'[t]
         /\ \A u \in Clients : raced[u] => raced'[u]
  BY DEF IInv, TypeOK, StoreTypeOK

\* The steps of a stack are those of the other, or the new one.
LEMMA PushedSteps ==
  ASSUME NEW S, NEW steps \in Seq(S), NEW step \in S
  PROVE  /\ LastSteps(Append(steps, step)) \in Seq(S)
         /\ \A i \in 1 .. Len(LastSteps(Append(steps, step))) :
              \/ LastSteps(Append(steps, step))[i] = step
              \/ \E j \in 1 .. Len(steps) : LastSteps(Append(steps, step))[i] = steps[j]
<1> DEFINE longer == Append(steps, step)
<1>1. /\ longer \in Seq(S) /\ Len(longer) = Len(steps) + 1 /\ Len(steps) \in Nat
      /\ \A j \in 1 .. Len(steps) : longer[j] = steps[j]
      /\ longer[Len(steps) + 1] = step
  BY AppendProperties, LenProperties
<1> HIDE DEF longer
<1>2. /\ LastSteps(longer) \in Seq(S)
      /\ \A i \in 1 .. Len(LastSteps(longer)) :
           \E j \in 1 .. Len(longer) : LastSteps(longer)[i] = longer[j]
  BY <1>1, LastStepsProperties
<1>3. \A j \in 1 .. Len(longer) : longer[j] = step \/ \E k \in 1 .. Len(steps) : longer[j] = steps[k]
  BY <1>1
<1>4. /\ LastSteps(longer) \in Seq(S)
      /\ \A i \in 1 .. Len(LastSteps(longer)) :
           \/ LastSteps(longer)[i] = step
           \/ \E j \in 1 .. Len(steps) : LastSteps(longer)[i] = steps[j]
  BY <1>2, <1>3
<1> QED BY <1>4 DEF longer

\* The undo stack of a tab with its canvas pushed on it.
LEMMA PushedPast ==
  ASSUME TypeOK, NEW t \in Clients, NEW past, past = LastSteps(Append(tab[t].past, tab[t].canvas))
  PROVE  /\ past \in Seq(Graphs)
         /\ \A i \in 1 .. Len(past) :
              past[i] = tab[t].canvas \/ \E j \in 1 .. Len(tab[t].past) : past[i] = tab[t].past[j]
<1> DEFINE steps == tab[t].past
           step == tab[t].canvas
           pushed == LastSteps(Append(steps, step))
<1>1. steps \in Seq(Graphs) /\ step \in Graphs
  BY TabType
<1>2. past = pushed
  OBVIOUS
<1> HIDE DEF steps, step
<1>3. /\ pushed \in Seq(Graphs)
      /\ \A i \in 1 .. Len(pushed) :
           pushed[i] = step \/ \E j \in 1 .. Len(steps) : pushed[i] = steps[j]
  BY <1>1, PushedSteps
<1> HIDE DEF pushed
<1> QED BY <1>2, <1>3 DEF steps, step

\* The redo stack of a tab with its canvas pushed on it.
LEMMA PushedFuture ==
  ASSUME TypeOK, NEW t \in Clients, NEW future, future = FirstSteps(<<tab[t].canvas>> \o tab[t].future)
  PROVE  /\ future \in Seq(Graphs)
         /\ \A i \in 1 .. Len(future) :
              future[i] = tab[t].canvas \/ \E j \in 1 .. Len(tab[t].future) : future[i] = tab[t].future[j]
<1> DEFINE steps == tab[t].future
           step == tab[t].canvas
           longer == <<step>> \o steps
<1>1. steps \in Seq(Graphs) /\ step \in Graphs
  BY TabType
<1>2. future = FirstSteps(longer)
  OBVIOUS
<1> HIDE DEF steps, step
<1>3. <<step>> \in Seq(Graphs) /\ Len(<<step>>) = 1 /\ <<step>>[1] = step /\ Len(steps) \in Nat
  BY <1>1, LenProperties
<1>4. /\ longer \in Seq(Graphs) /\ Len(longer) = 1 + Len(steps)
      /\ longer[1] = step
      /\ \A j \in 2 .. Len(longer) : longer[j] = steps[j - 1]
  BY <1>1, <1>3, ConcatProperties
<1> HIDE DEF longer
<1>5. /\ future \in Seq(Graphs)
      /\ \A i \in 1 .. Len(future) : \E j \in 1 .. Len(longer) : future[i] = longer[j]
  <2>1. longer \in Seq(Graphs)
    BY <1>4
  <2>2. /\ FirstSteps(longer) \in Seq(Graphs)
        /\ \A i \in 1 .. Len(FirstSteps(longer)) :
             \E j \in 1 .. Len(longer) : FirstSteps(longer)[i] = longer[j]
    BY <2>1, FirstStepsProperties
  <2> QED BY <1>2, <2>2
<1>6. ASSUME NEW j \in 1 .. Len(longer)
      PROVE  longer[j] = step \/ \E k \in 1 .. Len(steps) : longer[j] = steps[k]
  <2>1. CASE j = 1
    BY <1>4, <2>1
  <2>2. CASE j # 1
    <3>1. j - 1 \in 1 .. Len(steps) /\ j \in 2 .. Len(longer)
      BY <1>3, <1>4, <2>2
    <3> QED BY <1>4, <3>1
  <2> QED BY <2>1, <2>2
<1> QED BY <1>5, <1>6 DEF steps, step

LEMMA UserStepSafe ==
  ASSUME IInv, TypeOK', NEW t \in Clients, UserStep(t)
  PROVE  IInv'
<1>0. TypeOK /\ TabOK(t) /\ RequestOK(t) /\ ReadyOK(t) /\ AnswerOK(t)
  BY DEF IInv, TabOK
<1>1. UNCHANGED <<serverVars, raced>>
  BY DEF UserStep, Edit, Undo, Redo, Close
<1>2. RequestOK(t)' /\ AnswerOK(t)' /\ stray' \subseteq stray /\ log' = log /\ req' = req
  <2>1. log' = log /\ req' = req /\ stray' = stray /\ raced' = raced
    BY <1>1 DEF serverVars
  <2>2. RequestOK(t)'
    <3>1. seen[t] \subseteq seen'[t]
      BY <1>0, SeeGrows DEF UserStep, Edit, Undo, Redo, Close
    <3>2. Known(t, req[t].base) => Known(t, req[t].base)'
      BY <2>1, <3>1 DEF Known
    <3> QED BY <1>0, <2>1, <3>2 DEF RequestOK
  <2>3. AnswerOK(t)'
    BY <1>0, <2>1 DEF AnswerOK, TableOK, RowsOf
  <2> QED BY <2>1, <2>2, <2>3
<1>3. ASSUME Growth, NEW r, tab' = [tab EXCEPT ![t] = r],
             r.status = "ready" => tab[t].status = "ready" /\ r.revision = tab[t].revision,
             r.canvas \subseteq seen'[t],
             \A i \in 1 .. Len(r.past) : r.past[i] \subseteq seen'[t],
             \A i \in 1 .. Len(r.future) : r.future[i] \subseteq seen'[t]
      PROVE  IInv'
  <2>1. tab'[t] = r /\ OthersStay(t)
    BY <1>2, <1>3, TabUpdate DEF OthersStay
  <2>2. seen[t] \subseteq seen'[t] /\ raced'[t] = raced[t]
    BY <1>1, <1>3 DEF Growth
  <2>3. OwnWork(t)'
    BY <1>0, <1>2, <1>3, <2>1, <2>2 DEF OwnWork, TabOK
  <2>4. ReadyOK(t)'
    BY <1>0, <1>2, <1>3, <2>1, <2>2 DEF ReadyOK, Known
  <2> QED BY <1>2, <1>3, <2>1, <2>3, <2>4, TabStepKeeps
<1>4. CASE \E e \in Edits : Edit(t, e)
  <2> PICK e \in Edits : Edit(t, e)
    BY <1>4
  <2> DEFINE pushed == LastSteps(Append(tab[t].past, tab[t].canvas))
             past == IF e \in Unrecorded THEN tab[t].past ELSE pushed
             future == IF e \in Unrecorded THEN tab[t].future ELSE <<>>
             r == [tab[t] EXCEPT !.canvas = tab[t].canvas \cup {e}, !.past = past,
                                 !.future = future]
  <2>1. tab' = [tab EXCEPT ![t] = r] /\ See(t, {e})
    BY DEF Edit
  <2>2. /\ past \in Seq(Graphs)
        /\ \A i \in 1 .. Len(past) :
             past[i] = tab[t].canvas \/ \E j \in 1 .. Len(tab[t].past) : past[i] = tab[t].past[j]
    <3>1. /\ pushed \in Seq(Graphs)
          /\ \A i \in 1 .. Len(pushed) : pushed[i] = tab[t].canvas
                                       \/ \E j \in 1 .. Len(tab[t].past) : pushed[i] = tab[t].past[j]
      BY <1>0, PushedPast
    <3> HIDE DEF pushed
    <3> QED BY <1>0, <3>1, TabType
  <2>3. Growth /\ {e} \subseteq seen'[t] /\ seen[t] \subseteq seen'[t]
    BY <1>1, <2>1, SeeGrows DEF Growth
  <2>4. /\ tab[t].canvas \subseteq seen[t]
        /\ \A i \in 1 .. Len(tab[t].past) : tab[t].past[i] \subseteq seen[t]
        /\ \A i \in 1 .. Len(tab[t].future) : tab[t].future[i] \subseteq seen[t]
    BY <1>0 DEF TabOK, OwnWork
  <2>5. \A i \in 1 .. Len(future) : future[i] \subseteq seen[t]
    BY <2>4, EmptySeq
  <2> HIDE DEF past, future
  <2>6. /\ r.status = tab[t].status /\ r.revision = tab[t].revision
        /\ r.canvas = tab[t].canvas \cup {e} /\ r.past = past /\ r.future = future
    BY <1>0, TabType DEF Tab
  <2> HIDE DEF r
  <2>7. \A i \in 1 .. Len(r.past) : r.past[i] \subseteq seen'[t]
    BY <2>2, <2>3, <2>4, <2>6
  <2>8. r.canvas \subseteq seen'[t] /\ \A i \in 1 .. Len(r.future) : r.future[i] \subseteq seen'[t]
    BY <2>3, <2>4, <2>5, <2>6
  <2> QED BY <1>3, <2>1, <2>3, <2>6, <2>7, <2>8
<1>5. CASE Undo(t)
  <2> DEFINE past == tab[t].past
             canvas == past[Len(past)]
             shorter == SubSeq(past, 1, Len(past) - 1)
             future == FirstSteps(<<tab[t].canvas>> \o tab[t].future)
             r == [tab[t] EXCEPT !.canvas = canvas, !.past = shorter, !.future = future]
  <2>1. tab' = [tab EXCEPT ![t] = r] /\ past # <<>> /\ seen' = seen
    BY <1>5 DEF Undo
  <2>2. past \in Seq(Graphs) /\ Len(past) \in 1 .. Len(past)
    BY <1>0, <2>1, TabType, EmptySeq
  <2>3. canvas \in Graphs
    BY <2>2, ElementOfSeq
  <2>4. /\ shorter \in Seq(Graphs)
        /\ \A i \in 1 .. Len(shorter) : \E j \in 1 .. Len(past) : shorter[i] = past[j]
    <3>1. \A i \in 1 .. Len(past) - 1 : past[i] \in Graphs
      BY <2>2, ElementOfSeq
    <3>2. Len(past) - 1 \in Nat
      BY <2>2
    <3>3. /\ shorter \in Seq(Graphs) /\ Len(shorter) = Len(past) - 1
          /\ \A i \in 1 .. Len(past) - 1 : shorter[i] = past[i]
      BY <3>1, <3>2, SubSeqProperties
    <3> QED BY <3>2, <3>3
  <2>5. /\ future \in Seq(Graphs)
        /\ \A i \in 1 .. Len(future) :
             \/ future[i] = tab[t].canvas
             \/ \E j \in 1 .. Len(tab[t].future) : future[i] = tab[t].future[j]
    BY <1>0, PushedFuture
  <2>6. /\ tab[t].canvas \subseteq seen[t]
        /\ \A i \in 1 .. Len(past) : past[i] \subseteq seen[t]
        /\ \A i \in 1 .. Len(tab[t].future) : tab[t].future[i] \subseteq seen[t]
    BY <1>0 DEF TabOK, OwnWork
  <2>7. canvas \subseteq seen[t]
    BY <2>2, <2>6
  <2> HIDE DEF canvas, shorter, future
  <2>8. /\ r.status = tab[t].status /\ r.revision = tab[t].revision
        /\ r.canvas = canvas /\ r.past = shorter /\ r.future = future
    BY <1>0, <2>3, <2>4, <2>5, TabType DEF Tab
  <2> HIDE DEF r, past
  <2>9. Growth
    BY <1>1, <2>1 DEF Growth
  <2>10. /\ \A i \in 1 .. Len(r.past) : r.past[i] \subseteq seen'[t]
         /\ \A i \in 1 .. Len(r.future) : r.future[i] \subseteq seen'[t]
    BY <2>1, <2>4, <2>5, <2>6, <2>8
  <2> QED BY <1>3, <2>1, <2>7, <2>8, <2>9, <2>10
<1>6. CASE Redo(t)
  <2> DEFINE past == LastSteps(Append(tab[t].past, tab[t].canvas))
             canvas == Head(tab[t].future)
             future == Tail(tab[t].future)
             r == [tab[t] EXCEPT !.canvas = canvas, !.past = past, !.future = future]
  <2>1. tab' = [tab EXCEPT ![t] = r] /\ tab[t].future # <<>> /\ seen' = seen
    BY <1>6 DEF Redo
  <2>2. /\ past \in Seq(Graphs)
        /\ \A i \in 1 .. Len(past) :
             past[i] = tab[t].canvas \/ \E j \in 1 .. Len(tab[t].past) : past[i] = tab[t].past[j]
    BY <1>0, PushedPast
  <2>3. /\ canvas \in Graphs /\ future \in Seq(Graphs)
        /\ \E j \in 1 .. Len(tab[t].future) : canvas = tab[t].future[j]
        /\ \A i \in 1 .. Len(future) : \E j \in 1 .. Len(tab[t].future) : future[i] = tab[t].future[j]
    <3>1. tab[t].future \in Seq(Graphs)
      BY <1>0, TabType
    <3>2. /\ canvas \in Graphs /\ canvas = tab[t].future[1]
          /\ future \in Seq(Graphs) /\ Len(future) = Len(tab[t].future) - 1
          /\ \A i \in 1 .. Len(future) : future[i] = tab[t].future[i + 1]
      BY <2>1, <3>1, HeadTailProperties
    <3>3. Len(tab[t].future) \in Nat /\ Len(tab[t].future) # 0
      BY <2>1, <3>1, EmptySeq, LenProperties
    <3>4. \A i \in 1 .. Len(future) : i + 1 \in 1 .. Len(tab[t].future)
      BY <3>2, <3>3
    <3> QED BY <3>2, <3>3, <3>4
  <2>4. /\ tab[t].canvas \subseteq seen[t]
        /\ \A i \in 1 .. Len(tab[t].past) : tab[t].past[i] \subseteq seen[t]
        /\ \A i \in 1 .. Len(tab[t].future) : tab[t].future[i] \subseteq seen[t]
    BY <1>0 DEF TabOK, OwnWork
  <2> HIDE DEF canvas, past, future
  <2>5. /\ r.status = tab[t].status /\ r.revision = tab[t].revision
        /\ r.canvas = canvas /\ r.past = past /\ r.future = future
    BY <1>0, <2>2, <2>3, TabType DEF Tab
  <2> HIDE DEF r
  <2>6. Growth
    BY <1>1, <2>1 DEF Growth
  <2>7. /\ r.canvas \subseteq seen'[t]
        /\ \A i \in 1 .. Len(r.past) : r.past[i] \subseteq seen'[t]
        /\ \A i \in 1 .. Len(r.future) : r.future[i] \subseteq seen'[t]
    <3>1. seen'[t] = seen[t]
      BY <2>1
    <3>2. r.canvas \subseteq seen'[t]
      BY <2>3, <2>4, <2>5, <3>1
    <3>3. \A i \in 1 .. Len(r.past) : r.past[i] \subseteq seen'[t]
      BY <2>2, <2>4, <2>5, <3>1
    <3>4. \A i \in 1 .. Len(r.future) : r.future[i] \subseteq seen'[t]
      BY <2>3, <2>4, <2>5, <3>1
    <3> QED BY <3>2, <3>3, <3>4
  <2> QED BY <1>3, <2>1, <2>5, <2>6, <2>7
<1>7. CASE Close(t)
  <2> DEFINE r == [Closed EXCEPT !.mutation = tab[t].mutation, !.retried = tab[t].retried]
  <2>1. tab' = [tab EXCEPT ![t] = r] /\ seen' = seen
    BY <1>7 DEF Close
  <2>2. /\ r.status = "idle" /\ r.canvas = {} /\ r.past = <<>> /\ r.future = <<>>
    BY <1>0, TabType, ClosedType DEF Closed, Tab
  <2> HIDE DEF r
  <2>3. Growth
    BY <1>1, <2>1 DEF Growth
  <2>4. /\ r.canvas \subseteq seen'[t]
        /\ \A i \in 1 .. Len(r.past) : r.past[i] \subseteq seen'[t]
        /\ \A i \in 1 .. Len(r.future) : r.future[i] \subseteq seen'[t]
    BY <2>2
  <2> QED BY <1>3, <2>1, <2>2, <2>3, <2>4
<1> QED BY <1>4, <1>5, <1>6, <1>7 DEF UserStep

\* A step that starts a request: nothing on the canvas or in the history changes,
\* unless the tab starts over with an empty canvas.
LEMMA StartStepSafe ==
  ASSUME IInv, TypeOK', NEW t \in Clients, StartStep(t)
  PROVE  IInv'
<1>0. TypeOK /\ TabOK(t)
  BY DEF IInv, TabOK
<1>1. log' = log /\ stray' = stray /\ seen' = seen /\ raced' = raced /\ Growth
  <2>1. UNCHANGED <<log, stray, seen, raced>>
    BY DEF StartStep, StartSave, StartSync, StartOpen, StartApply
  <2> QED BY <2>1 DEF Growth
<1>2. /\ \/ tab' = [tab EXCEPT ![t] = [tab[t] EXCEPT !.mutation = tab'[t].mutation]]
         \/ tab' = [tab EXCEPT ![t] = [Closed EXCEPT !.status = "loading", !.synced = tab[t].synced,
                                                   !.mutation = "open"]]
      /\ \E op \in {"save", "apply", "get"}, base \in Nat, body \in Graphs :
           /\ req' = Ask(t, op, base, body)
           /\ op = "save" => /\ base = tab[t].revision /\ body = tab[t].canvas
                             /\ tab[t].status = "ready"
  <2>0. {} \in Graphs /\ 0 \in Nat
    BY DEF Graphs
  <2>1. CASE StartSave(t)
    BY <1>0, <2>1, TabType DEF StartSave, TypeOK, StoreTypeOK, Tab
  <2>2. CASE StartSync(t)
    <3>1. req' = Ask(t, "get", 0, {})
      BY <2>2 DEF StartSync
    <3>2. tab' = [tab EXCEPT ![t] = [tab[t] EXCEPT !.mutation = tab'[t].mutation]]
      BY <1>0, <2>2, TabType DEF StartSync, TypeOK, StoreTypeOK, Tab
    <3> QED BY <2>0, <3>1, <3>2
  <2>3. CASE StartOpen(t)
    <3>1. req' = Ask(t, "get", 0, {})
      BY <2>3 DEF StartOpen
    <3>2. CASE tab[t].status = "ready"
      <4>1. tab' = [tab EXCEPT ![t] = [tab[t] EXCEPT !.mutation = "open"]]
        BY <2>3, <3>2 DEF StartOpen
      <4>2. tab' = [tab EXCEPT ![t] = [tab[t] EXCEPT !.mutation = tab'[t].mutation]]
        BY <1>0, <4>1, TabType DEF TypeOK, StoreTypeOK, Tab
      <4> QED BY <2>0, <3>1, <4>2
    <3>3. CASE tab[t].status # "ready"
      BY <2>0, <2>3, <3>1, <3>3 DEF StartOpen
    <3> QED BY <3>2, <3>3
  <2>4. ASSUME NEW p \in Proposals, StartApply(t, p)
        PROVE  /\ tab' = [tab EXCEPT ![t] = [tab[t] EXCEPT !.mutation = tab'[t].mutation]]
               /\ req' = Ask(t, "apply", 0, {p}) /\ {p} \in Graphs
    BY <1>0, <2>4, TabType, ConstantTypes DEF StartApply, TypeOK, StoreTypeOK, Tab, Graphs
  <2> QED BY <2>0, <2>1, <2>2, <2>3, <2>4 DEF StartStep
<1>3. PICK op \in {"save", "apply", "get"}, base \in Nat, body \in Graphs :
        /\ req' = Ask(t, op, base, body)
        /\ op = "save" => /\ base = tab[t].revision /\ body = tab[t].canvas
                          /\ tab[t].status = "ready"
  BY <1>2
<1>4. op = "save" => Known(t, base)'
  BY <1>0, <1>1, <1>3 DEF TabOK, ReadyOK, Known
<1>5. RequestOK(t)' /\ AnswerOK(t)' /\ req'[t].op = op /\ req'[t].body = body
  BY <1>1, <1>3, <1>4, AskedOK
<1>6. OthersStay(t)
  <2>1. \A u \in Clients : u # t => tab'[u] = tab[u]
    BY <1>0, <1>2 DEF TypeOK, StoreTypeOK
  <2>2. \A u \in Clients : u # t => req'[u] = req[u]
    BY <1>3 DEF Ask
  <2> QED BY <2>1, <2>2 DEF OthersStay
<1>7. \/ /\ tab'[t].canvas = tab[t].canvas /\ tab'[t].past = tab[t].past
         /\ tab'[t].future = tab[t].future /\ tab'[t].status = tab[t].status
         /\ tab'[t].revision = tab[t].revision
      \/ /\ tab'[t].canvas = {} /\ tab'[t].past = <<>> /\ tab'[t].future = <<>>
         /\ tab'[t].status = "loading"
  <2>1. CASE tab' = [tab EXCEPT ![t] = [tab[t] EXCEPT !.mutation = tab'[t].mutation]]
    <3>1. tab'[t] = [tab[t] EXCEPT !.mutation = tab'[t].mutation]
      BY <1>0, <2>1 DEF TypeOK, StoreTypeOK
    <3>2. tab[t] \in Tab
      BY <1>0, TabType
    <3> DEFINE mutation == tab'[t].mutation
    <3> HIDE DEF mutation
    <3>3. tab'[t] = [tab[t] EXCEPT !.mutation = mutation]
      BY <3>1 DEF mutation
    <3> QED BY <3>2, <3>3 DEF Tab
  <2>2. CASE tab' = [tab EXCEPT ![t] = [Closed EXCEPT !.status = "loading", !.synced = tab[t].synced,
                                                      !.mutation = "open"]]
    BY <1>0, <2>2 DEF Closed, TypeOK, StoreTypeOK
  <2> QED BY <1>2, <2>1, <2>2
<1>8. ReadyOK(t)'
  BY <1>0, <1>1, <1>7 DEF TabOK, ReadyOK, Known
<1>9. OwnWork(t)'
  BY <1>0, <1>1, <1>3, <1>5, <1>7 DEF TabOK, OwnWork
<1> QED BY <1>0, <1>1, <1>5, <1>6, <1>8, <1>9, TabStepKeeps

-----------------------------------------------------------------------------
(* Answers.                                                                *)

\* The tab gives up what it was waiting for and keeps its canvas.
LEMMA FinishedSafe ==
  ASSUME IInv, TypeOK', NEW t \in Clients, NEW r \in Tab, tab' = [tab EXCEPT ![t] = r],
         r.status = "ready" => tab[t].status = "ready" /\ r.revision = tab[t].revision,
         \/ r.canvas = tab[t].canvas /\ r.past = tab[t].past /\ r.future = tab[t].future
         \/ r.canvas = {} /\ r.past = <<>> /\ r.future = <<>>,
         Hang(t), UNCHANGED <<log, seen, raced>>
  PROVE  /\ Growth /\ OthersStay(t) /\ OwnWork(t)' /\ RequestOK(t)' /\ AnswerOK(t)'
         /\ ReadyOK(t)'
<1>1. Growth
  BY DEF Growth
<1>2. tab'[t] = r /\ OthersStay(t)
  <2>1. \A u \in Clients : u # t => req'[u] = req[u]
    BY DEF Hang
  <2> QED BY <2>1, TabUpdate DEF OthersStay
<1>3. TabOK(t)
  BY DEF IInv
<1>4. RequestOK(t)' /\ AnswerOK(t)' /\ req'[t].op # "save"
  BY HungOK
<1>5. OwnWork(t)'
  BY <1>2, <1>3, <1>4 DEF TabOK, OwnWork
<1>6. ReadyOK(t)'
  BY <1>2, <1>3 DEF TabOK, ReadyOK, Known
<1> QED BY <1>1, <1>2, <1>4, <1>5, <1>6

LEMMA FinishedFields ==
  ASSUME TypeOK, NEW t \in Clients
  PROVE  /\ Finished(t) \in Tab /\ Finished(t).status = tab[t].status
         /\ Finished(t).revision = tab[t].revision /\ Finished(t).canvas = tab[t].canvas
         /\ Finished(t).past = tab[t].past /\ Finished(t).future = tab[t].future
         /\ Finished(t).synced = tab[t].synced /\ Finished(t).mutation = "none"
  BY FinishedType, TabType DEF Finished, Tab

\* An answer that names the newest revision holds its graph: it mixes nothing.
LEMMA AnswersAreCurrent ==
  ASSUME IInv, NEW t \in Clients, req[t].found, req[t].rev = Len(log)
  PROVE  req[t].graph = log[Len(log)].graph
<1>1. TypeOK /\ AnswerOK(t)
  BY DEF IInv, TabOK
<1>2. \A q \in Tables : req[t].graph \cap q = log[Len(log)].graph \cap q
  BY <1>1 DEF AnswerOK, TableOK
<1>3. req[t].graph \subseteq UNION Tables /\ log[Len(log)].graph \subseteq UNION Tables
  <2>1. req[t].graph \in Graphs /\ log[Len(log)].graph \in Graphs
    BY <1>1, TabType, LastGraphType
  <2> QED BY <2>1, TablesPartition DEF Graphs
<1> SUFFICES ASSUME NEW e PROVE e \in req[t].graph <=> e \in log[Len(log)].graph
  OBVIOUS
<1>4. CASE e \in UNION Tables
  <2> PICK q \in Tables : e \in q
    BY <1>4
  <2>1. e \in req[t].graph \cap q <=> e \in log[Len(log)].graph \cap q
    BY <1>2
  <2> QED BY <2>1
<1> QED BY <1>3, <1>4

\* What an answer says is the newest revision is what the tab now shows.
LEMMA LoadSafe ==
  ASSUME IInv, TypeOK', NEW t \in Clients, Hang(t), UNCHANGED <<log, stray>>,
         req[t].stage = "done", req[t].found,
         \/ Load(t, req[t].rev, req[t].graph)
         \/ LoadKeepingMine(t, req[t].rev, req[t].graph)
  PROVE  IInv'
<1> DEFINE past == LastSteps(Append(tab[t].past, tab[t].canvas))
           r == tab'[t]
<1>0. TypeOK /\ TabOK(t)
  BY DEF IInv, TabOK
<1>1. See(t, req[t].graph) /\ raced' = raced
  BY <1>0, TabType, LoadedType DEF Load, LoadKeepingMine
<1>2. Growth /\ req[t].graph \subseteq seen'[t] /\ seen[t] \subseteq seen'[t]
  BY <1>1, SeeGrows DEF Growth
<1>3. /\ r.status = "ready" /\ r.revision = req[t].rev /\ r.canvas = req[t].graph
      /\ r.future = <<>> /\ (r.past = <<>> \/ r.past = past)
      /\ OthersStay(t)
  <2>1. \A u \in Clients : u # t => req'[u] = req[u]
    BY DEF Hang
  <2>2. CASE Load(t, req[t].rev, req[t].graph)
    <3>1. tab' = [tab EXCEPT ![t] = Loaded(t, req[t].rev, req[t].graph)]
      BY <2>2 DEF Load
    <3>2. tab'[t] = Loaded(t, req[t].rev, req[t].graph) /\ OthersStay(t)
      BY <2>1, <3>1, TabUpdate DEF OthersStay
    <3> QED BY <1>0, <3>2, TabType DEF Loaded, Tab
  <2>3. CASE LoadKeepingMine(t, req[t].rev, req[t].graph)
    <3> DEFINE save == IF tab[t].mutation = "apply" THEN tab[t].unconfirmed ELSE NoSave
               n == [Loaded(t, req[t].rev, req[t].graph) EXCEPT !.past = past, !.unconfirmed = save]
    <3>1. tab' = [tab EXCEPT ![t] = n]
      BY <2>3 DEF LoadKeepingMine
    <3> HIDE DEF past, save
    <3>2. tab'[t] = n /\ OthersStay(t)
      BY <2>1, <3>1, TabUpdate DEF OthersStay
    <3> QED BY <1>0, <3>2, TabType DEF Loaded, Tab
  <2> QED BY <2>2, <2>3
<1>4. RequestOK(t)' /\ AnswerOK(t)' /\ req'[t].op # "save"
  BY HungOK
<1>5. OwnWork(t)'
  <2>1. \A i \in 1 .. Len(past) : past[i] = tab[t].canvas
                               \/ \E j \in 1 .. Len(tab[t].past) : past[i] = tab[t].past[j]
    BY <1>0, PushedPast
  <2>2. /\ tab[t].canvas \subseteq seen[t]
        /\ \A i \in 1 .. Len(tab[t].past) : tab[t].past[i] \subseteq seen[t]
    BY <1>0 DEF TabOK, OwnWork
  <2> HIDE DEF past
  <2>3. \A i \in 1 .. Len(r.past) : r.past[i] \subseteq seen'[t]
    BY <1>2, <1>3, <2>1, <2>2
  <2> HIDE DEF r
  <2>4. r.canvas \subseteq seen'[t] /\ \A i \in 1 .. Len(r.future) : r.future[i] \subseteq seen'[t]
    BY <1>2, <1>3
  <2> QED BY <1>4, <2>3, <2>4 DEF OwnWork, r
<1>6. ReadyOK(t)'
  <2>1. req[t].rev \in Nat /\ req[t].rev <= Len(log)
    BY <1>0, TabType DEF TabOK, RequestOK
  <2>2. req[t].rev = Len(log) => req[t].graph = log[Len(log)].graph
    BY AnswersAreCurrent
  <2> QED BY <1>2, <1>3, <2>1, <2>2 DEF ReadyOK, Known
<1> QED BY <1>2, <1>3, <1>4, <1>5, <1>6, TabStepKeeps

LEMMA SaveAcceptedSafe ==
  ASSUME IInv, TypeOK', NEW t \in Clients, SaveAccepted(t)
  PROVE  IInv'
<1> DEFINE merged == (tab[t].canvas \ Echoed) \cup (req[t].graph \cap Echoed)
           edited == EditedMeanwhile(t)
           synced == IF edited THEN tab[t].synced ELSE merged
<1>0. TypeOK /\ TabOK(t) /\ UNCHANGED <<log, stray>> /\ Hang(t)
  BY DEF IInv, TabOK, SaveAccepted, Quiet
<1>1. CASE tab[t].status # "ready"
  <2> DEFINE r == [Finished(t) EXCEPT !.unconfirmed = NoSave]
  <2>1. tab' = [tab EXCEPT ![t] = r] /\ UNCHANGED <<seen, raced>>
    BY <1>1 DEF SaveAccepted
  <2>2. /\ r \in Tab /\ r.status = tab[t].status /\ r.canvas = tab[t].canvas
        /\ r.past = tab[t].past /\ r.future = tab[t].future
    BY <1>0, FinishedFields, ClosedType DEF Tab
  <2> HIDE DEF r
  <2> QED BY <1>0, <1>1, <2>1, <2>2, FinishedSafe, TabStepKeeps
<1>2. CASE tab[t].status = "ready"
  <2> DEFINE r == [Finished(t) EXCEPT !.unconfirmed = NoSave, !.canvas = merged,
                                      !.synced = synced, !.revision = req[t].rev]
  <2>1. /\ tab' = [tab EXCEPT ![t] = r] /\ See(t, merged)
        /\ raced' = [raced EXCEPT ![t] = @ \/ req[t].rev # req[t].own]
    BY <1>2 DEF SaveAccepted
  <2> HIDE DEF merged, synced
  <2>2. /\ r.canvas = merged /\ r.revision = req[t].rev
        /\ r.past = tab[t].past /\ r.future = tab[t].future
    BY <1>0, FinishedFields DEF Tab
  <2> HIDE DEF r
  <2>3. /\ tab'[t] = r /\ Growth /\ OthersStay(t)
        /\ merged \subseteq seen'[t] /\ seen[t] \subseteq seen'[t]
        /\ req[t].rev # req[t].own => raced'[t]
    <3>1. \A u \in Clients : u # t => req'[u] = req[u]
      BY <1>0 DEF Hang
    <3>2. tab'[t] = r /\ OthersStay(t)
      BY <2>1, <3>1, TabUpdate DEF OthersStay
    <3>3. /\ req[t].rev # req[t].own => raced'[t]
          /\ \A u \in Clients : raced[u] => raced'[u]
      BY <2>1, RacedGrows
    <3> QED BY <2>1, <3>2, <3>3, SeeGrows DEF Growth
  <2>4. RequestOK(t)' /\ AnswerOK(t)' /\ req'[t].op # "save"
    BY <1>0, HungOK
  <2>5. OwnWork(t)'
    BY <1>0, <2>2, <2>3, <2>4 DEF TabOK, OwnWork
  <2>6. ReadyOK(t)'
    <3>1. /\ req[t].op = "save" /\ req[t].stage = "done" /\ req[t].status = "ok"
          /\ req[t].rev \in Nat /\ req[t].own \in Nat
      BY <1>0, TabType DEF SaveAccepted, Answered
    <3>2. /\ req[t].found /\ 1 <= req[t].rev /\ req[t].rev <= Len(log)
          /\ log[req[t].own].by = t /\ req[t].own # 0 /\ req[t].own <= Len(log)
      BY <1>0, <3>1 DEF TabOK, RequestOK
    <3>3. req[t].rev = req[t].own => log[req[t].rev].graph \subseteq seen[t]
      <4>1. t # Nobody
        BY ConstantTypes
      <4> QED BY <3>1, <3>2, <4>1 DEF IInv, OwnRevisions
    <3> QED BY <1>0, <2>2, <2>3, <3>2, <3>3 DEF ReadyOK, Known
  <2> QED BY <1>0, <2>3, <2>4, <2>5, <2>6, TabStepKeeps
<1> QED BY <1>1, <1>2

LEMMA RetryAsOursSafe ==
  ASSUME IInv, TypeOK', NEW t \in Clients, RetryAsOurs(t)
  PROVE  IInv'
<1> PICK rev, canvas : rev = req[t].rev /\ canvas = tab[t].canvas
  OBVIOUS
<1> DEFINE r == [tab[t] EXCEPT !.unconfirmed = NoSave, !.revision = rev,
                               !.mutation = "save", !.retried = TRUE]
<1>0. TypeOK /\ TabOK(t)
  BY DEF IInv, TabOK
<1>1. /\ tab' = [tab EXCEPT ![t] = r] /\ req' = Ask(t, "save", rev, canvas)
      /\ raced' = [raced EXCEPT ![t] = @ \/ log[rev].by # t]
  BY DEF RetryAsOurs
<1>2. log' = log /\ stray' = stray /\ seen' = seen /\ req[t].stage = "done" /\ req[t].found
  BY DEF RetryAsOurs, HasLatest
<1>3. /\ r.canvas = tab[t].canvas /\ r.past = tab[t].past /\ r.future = tab[t].future
      /\ r.revision = rev
  BY <1>0, TabType DEF Tab
<1> HIDE DEF r
<1>4. /\ tab'[t] = r /\ Growth /\ OthersStay(t)
      /\ log[rev].by # t => raced'[t]
  <2>1. \A u \in Clients : u # t => req'[u] = req[u]
    BY <1>1 DEF Ask
  <2>2. tab'[t] = r /\ OthersStay(t)
    BY <1>1, <2>1, TabUpdate DEF OthersStay
  <2>3. /\ log[rev].by # t => raced'[t]
        /\ \A u \in Clients : raced[u] => raced'[u]
    BY <1>1, RacedGrows
  <2> QED BY <1>2, <2>2, <2>3 DEF Growth
<1>5. Known(t, rev)'
  <2>1. rev \in Nat /\ 1 <= rev /\ rev <= Len(log)
    BY <1>0, <1>2, TabType DEF TabOK, RequestOK
  <2>2. log[rev].by = t => log[rev].graph \subseteq seen[t]
    <3>1. t # Nobody
      BY ConstantTypes
    <3> QED BY <2>1, <3>1, LogFacts DEF IInv, OwnRevisions
  <2> QED BY <1>2, <1>4, <2>1, <2>2 DEF Known
<1>6. RequestOK(t)' /\ AnswerOK(t)' /\ req'[t].body = canvas
  <2>1. req' = Ask(t, "save", rev, canvas)
    BY <1>1
  <2> QED BY <1>2, <1>5, <2>1, AskedOK
<1>7. OwnWork(t)'
  BY <1>0, <1>2, <1>3, <1>4, <1>6 DEF TabOK, OwnWork
<1>8. ReadyOK(t)'
  BY <1>3, <1>4, <1>5 DEF ReadyOK
<1> QED BY <1>2, <1>4, <1>6, <1>7, <1>8, TabStepKeeps

LEMMA AnswerStepSafe ==
  ASSUME IInv, TypeOK', NEW t \in Clients, AnswerStep(t)
  PROVE  IInv'
<1>0. TypeOK /\ TabOK(t)
  BY DEF IInv, TabOK
<1>1. ASSUME tab' = [tab EXCEPT ![t] = Finished(t)], Hang(t), UNCHANGED <<log, stray, seen, raced>>
      PROVE  IInv'
  BY <1>0, <1>1, FinishedFields, FinishedSafe, TabStepKeeps
<1>2. ASSUME req[t].status = "ok", req[t].stage = "done" PROVE req[t].found
  BY <1>0, <1>2 DEF TabOK, RequestOK
<1>3. CASE AdoptLatest(t)
  BY <1>3, LoadSafe DEF AdoptLatest, HasLatest, Quiet
<1>4. CASE FetchLatest(t)
  <2> DEFINE r == [tab[t] EXCEPT !.mutation = "latest"]
  <2>1. /\ tab' = [tab EXCEPT ![t] = r] /\ req' = Ask(t, "get", 0, {})
        /\ UNCHANGED <<log, stray, seen, raced>>
    BY <1>4 DEF FetchLatest
  <2>2. /\ r.status = tab[t].status /\ r.revision = tab[t].revision
        /\ r.canvas = tab[t].canvas /\ r.past = tab[t].past /\ r.future = tab[t].future
    BY <1>0, TabType DEF Tab
  <2> HIDE DEF r
  <2>3. tab'[t] = r /\ OthersStay(t)
    <3>1. \A u \in Clients : u # t => req'[u] = req[u]
      BY <2>1 DEF Ask
    <3> QED BY <2>1, <3>1, TabUpdate DEF OthersStay
  <2>4. RequestOK(t)' /\ AnswerOK(t)' /\ req'[t].op = "get"
    BY <2>1, AskedOK
  <2>5. OwnWork(t)'
    BY <1>0, <2>1, <2>2, <2>3, <2>4 DEF TabOK, OwnWork
  <2>6. ReadyOK(t)'
    BY <1>0, <2>1, <2>2, <2>3 DEF TabOK, ReadyOK, Known
  <2>7. Growth
    BY <2>1 DEF Growth
  <2> QED BY <2>1, <2>3, <2>4, <2>5, <2>6, <2>7, TabStepKeeps
<1>5. CASE SaveFailed(t)
  BY <1>1, <1>5 DEF SaveFailed
<1>6. CASE FinishSync(t)
  <2>1. CASE SyncLoads(t)
    BY <1>2, <1>6, <2>1, LoadSafe DEF FinishSync, SyncLoads, Answered, Quiet
  <2>2. CASE ~SyncLoads(t)
    BY <1>1, <1>6, <2>2 DEF FinishSync, Quiet
  <2> QED BY <2>1, <2>2
<1>7. CASE FinishOpen(t)
  <2>1. CASE OpenLoads(t)
    BY <1>2, <1>7, <2>1, LoadSafe DEF FinishOpen, Answered, Quiet
  <2>2. CASE ~OpenLoads(t)
    BY <1>1, <1>7, <2>2 DEF FinishOpen, Quiet
  <2> QED BY <2>1, <2>2
<1>8. CASE FinishApply(t)
  <2>1. CASE ApplyLoads(t)
    BY <1>2, <1>8, <2>1, LoadSafe DEF FinishApply, ApplyLoads, Answered, Quiet
  <2>2. CASE ~ApplyLoads(t)
    BY <1>1, <1>8, <2>2 DEF FinishApply, Quiet
  <2> QED BY <2>1, <2>2
<1> QED BY <1>3, <1>4, <1>5, <1>6, <1>7, <1>8, SaveAcceptedSafe, RetryAsOursSafe DEF AnswerStep

-----------------------------------------------------------------------------
(* Answers that never come.                                                *)

LEMMA SaveLostSafe ==
  ASSUME IInv, TypeOK', NEW t \in Clients, SaveLost(t)
  PROVE  IInv'
<1> DEFINE save == IF tab[t].status = "ready" /\ req[t].op = "save"
                   THEN [revision |-> req[t].base, signature |-> graphSignature(req[t].body)]
                   ELSE tab[t].unconfirmed
           r == [Finished(t) EXCEPT !.unconfirmed = save]
<1>0. TypeOK /\ TabOK(t)
  BY DEF IInv, TabOK
<1>1. tab' = [tab EXCEPT ![t] = r]
  BY DEF SaveLost
<1>2. Hang(t) /\ UNCHANGED <<log, seen, raced>> /\ stray' \subseteq stray \cup Abandoned(t)
  BY DEF SaveLost
<1> HIDE DEF save
<1>3. /\ r \in Tab /\ r.status = tab[t].status /\ r.revision = tab[t].revision
      /\ r.canvas = tab[t].canvas /\ r.past = tab[t].past /\ r.future = tab[t].future
  <2>1. save \in Saves
    <3>1. req[t].base \in Nat /\ req[t].body \in Graphs /\ tab[t].unconfirmed \in Saves
      BY <1>0, TabType
    <3>2. graphSignature(req[t].body) \in Graphs
      BY <3>1 DEF graphSignature, Graphs
    <3>3. [revision |-> req[t].base, signature |-> graphSignature(req[t].body)] \in Saves
      BY <3>1, <3>2 DEF Saves
    <3> QED BY <3>1, <3>3 DEF save
  <2>2. /\ Finished(t) \in Tab /\ Finished(t).status = tab[t].status
        /\ Finished(t).revision = tab[t].revision /\ Finished(t).canvas = tab[t].canvas
        /\ Finished(t).past = tab[t].past /\ Finished(t).future = tab[t].future
    BY <1>0, FinishedFields
  <2> QED BY <2>1, <2>2 DEF Tab
<1> HIDE DEF r
<1>4. /\ Growth /\ OthersStay(t) /\ OwnWork(t)' /\ RequestOK(t)' /\ AnswerOK(t)'
      /\ ReadyOK(t)'
  BY <1>1, <1>2, <1>3, FinishedSafe
<1>5. StrayOK'
  <2> SUFFICES ASSUME NEW s \in stray'
               PROVE  s.body \subseteq seen[s.by] /\ Known(s.by, s.base)
    BY <1>2 DEF StrayOK, Known
  <2>1. CASE s \in stray
    BY <2>1 DEF IInv, StrayOK
  <2>2. CASE s \in Abandoned(t)
    <3>1. /\ req[t].op = "save" /\ req[t].stage = "sent"
          /\ s.base = req[t].base /\ s.body = req[t].body /\ s.by = t
      BY <2>2 DEF Abandoned
    <3> QED BY <1>0, <3>1 DEF TabOK, OwnWork, RequestOK
  <2> QED BY <1>2, <2>1, <2>2
<1> QED BY <1>2, <1>4, <1>5, LocalStep DEF TabOK

LEMMA LossStepSafe ==
  ASSUME IInv, TypeOK', NEW t \in Clients, LossStep(t)
  PROVE  IInv'
<1>0. TypeOK
  BY DEF IInv
<1>1. CASE OtherLost(t)
  BY <1>0, <1>1, FinishedFields, FinishedSafe, TabStepKeeps DEF OtherLost
<1>2. ASSUME NEW cleared \in BOOLEAN, OpenFailed(t, cleared) PROVE IInv'
  <2> DEFINE status == IF tab[t].status = "loading" THEN "error" ELSE tab[t].status
             kept == [Finished(t) EXCEPT !.status = status]
             r == IF cleared THEN Closed ELSE kept
  <2>1. tab' = [tab EXCEPT ![t] = r] /\ Hang(t) /\ UNCHANGED <<log, stray, seen, raced>>
    BY <1>2 DEF OpenFailed
  <2>2. /\ kept \in Tab /\ (kept.status = "ready" => tab[t].status = "ready")
        /\ kept.revision = tab[t].revision /\ kept.canvas = tab[t].canvas
        /\ kept.past = tab[t].past /\ kept.future = tab[t].future
    <3>1. /\ Finished(t) \in Tab /\ Finished(t).revision = tab[t].revision
          /\ Finished(t).canvas = tab[t].canvas
          /\ Finished(t).past = tab[t].past /\ Finished(t).future = tab[t].future
      BY <1>0, FinishedFields
    <3>2. status \in {"idle", "loading", "ready", "error"} /\ (status = "ready" => tab[t].status = "ready")
      BY <1>0, TabType DEF Tab
    <3> HIDE DEF status
    <3> QED BY <3>1, <3>2 DEF Tab
  <2>3. /\ Closed \in Tab /\ Closed.status = "idle" /\ Closed.canvas = {}
        /\ Closed.past = <<>> /\ Closed.future = <<>>
    BY ClosedType DEF Closed
  <2> HIDE DEF kept
  <2>4. /\ r \in Tab
        /\ r.status = "ready" => tab[t].status = "ready" /\ r.revision = tab[t].revision
        /\ \/ r.canvas = tab[t].canvas /\ r.past = tab[t].past /\ r.future = tab[t].future
           \/ r.canvas = {} /\ r.past = <<>> /\ r.future = <<>>
    BY <2>2, <2>3
  <2> HIDE DEF r
  <2> QED BY <2>1, <2>4, FinishedSafe, TabStepKeeps
<1> QED BY <1>1, <1>2, SaveLostSafe DEF LossStep

-----------------------------------------------------------------------------
LEMMA InitIInv == Init => IInv
<1> SUFFICES ASSUME Init PROVE IInv
  OBVIOUS
<1>1. /\ Len(log) = 1 /\ log[1].by = Nobody
      /\ \A t \in Clients : tab[t] = Closed /\ req[t] = Idle
      /\ stray = {}
  BY DEF Init, ServerInit
<1>2. ASSUME NEW t \in Clients PROVE TabOK(t)
  <2>1. OwnWork(t) /\ RequestOK(t) /\ ReadyOK(t) /\ AnswerOK(t)
    BY <1>1 DEF Idle, Closed, OwnWork, RequestOK, ReadyOK, AnswerOK
  <2> QED BY <2>1 DEF TabOK
<1>3. OwnRevisions /\ StrayOK /\ SavesSeeWhatTheyReplace
  BY <1>1 DEF OwnRevisions, StrayOK, SavesSeeWhatTheyReplace
<1> QED BY <1>2, <1>3, InitType DEF IInv

LEMMA NextIInv == IInv /\ [Next]_vars => IInv'
<1> SUFFICES ASSUME IInv, [Next]_vars PROVE IInv'
  OBVIOUS
<1>0. TypeOK'
  BY NextType DEF IInv
<1>1. CASE ServerStep
  BY <1>0, <1>1, ServerStepSafe
<1>2. ASSUME NEW t \in Clients, TabStep(t) PROVE IInv'
  BY <1>0, <1>2, UserStepSafe, StartStepSafe, AnswerStepSafe, LossStepSafe DEF TabStep
<1>3. CASE UNCHANGED vars
  <2>1. UNCHANGED <<log, req, stray, tab, seen, raced>>
    BY <1>3 DEF vars, serverVars
  <2>2. \A t \in Clients : TabOK(t)'
    BY <2>1 DEF IInv, TabOK, OwnWork, RequestOK, ReadyOK, AnswerOK, TableOK, RowsOf, Known
  <2>3. OwnRevisions' /\ StrayOK' /\ SavesSeeWhatTheyReplace'
    BY <2>1 DEF IInv, OwnRevisions, StrayOK, SavesSeeWhatTheyReplace, Known
  <2> QED BY <1>0, <2>2, <2>3 DEF IInv
<1> QED BY <1>1, <1>2, <1>3 DEF Next

\* Saves replace only what their author has had on the canvas: the compare-and-
\* set on the revision, the order in which an answer is read and what the store
\* takes over from it are enough, unless the tab took over a revision it had
\* never held.
THEOREM SavesAreInformed == Spec => []SavesSeeWhatTheyReplace
<1>1. IInv => SavesSeeWhatTheyReplace
  BY DEF IInv
<1> QED BY <1>1, InitIInv, NextIInv, PTL DEF Spec

\* GetByID reads an answer table by table, and other saves fall between: no table of it
\* is older than the revision it names, that revision is not older than the save it
\* answers, and it mixes nothing as long as its revision is the newest.
THEOREM AnswersAreFresh == Spec => []AnswersAreNotOlder
<1>1. IInv => AnswersAreNotOlder
  <2> SUFFICES ASSUME IInv, NEW c \in Clients, req[c].stage = "done", req[c].found
               PROVE  /\ req[c].own <= req[c].rev
                      /\ req[c].rev = Revision => req[c].graph = Graph
                      /\ \A q \in Tables : \E r \in req[c].rev .. Len(log) : RowsOf(c, q, r)
    BY DEF AnswersAreNotOlder, RowsOf
  <2>1. TypeOK /\ RequestOK(c) /\ AnswerOK(c)
    BY DEF IInv, TabOK
  <2>2. req[c].own <= req[c].rev
    BY <2>1, TabType DEF RequestOK
  <2>3. \A q \in Tables : \E r \in req[c].rev .. Len(log) : RowsOf(c, q, r)
    BY <2>1 DEF AnswerOK, TableOK
  <2> QED BY <2>2, <2>3, AnswersAreCurrent
<1> QED BY <1>1, InitIInv, NextIInv, PTL DEF Spec

-----------------------------------------------------------------------------
(***************************************************************************)
(* Unsaved work survives every answer: an action property.  A step that     *)
(* takes the canvas away puts it on the undo stack, whose newest entry the  *)
(* limit never cuts off.                                                   *)
(***************************************************************************)

LEMMA NewestStepIsKept ==
  ASSUME NEW S, NEW past \in Seq(S), NEW canvas \in S
  PROVE  \E i \in DOMAIN LastSteps(Append(past, canvas)) :
           LastSteps(Append(past, canvas))[i] = canvas
<1> DEFINE steps == Append(past, canvas)
           n == Len(past) + 1
           m == n - HistoryLimit + 1
<1>1. steps \in Seq(S) /\ Len(steps) = n /\ steps[n] = canvas /\ n \in Nat \ {0}
  BY AppendProperties, LenProperties
<1> HIDE DEF steps, n
<1>2. CASE n > HistoryLimit
  <2>1. m \in 1 .. n /\ m >= 1 /\ n - m + 1 = HistoryLimit
    BY <1>1, <1>2, BuilderStoreAssumption
  <2>2. \A i \in m .. n : steps[i] \in S
    BY <1>1, <2>1, ElementOfSeq
  <2>3. LastSteps(steps) = SubSeq(steps, m, n)
    BY <1>1, <1>2 DEF LastSteps
  <2> HIDE DEF m
  <2>4. /\ SubSeq(steps, m, n) \in Seq(S) /\ Len(SubSeq(steps, m, n)) = HistoryLimit
        /\ \A i \in 1 .. n - m + 1 : SubSeq(steps, m, n)[i] = steps[m + i - 1]
    BY <1>1, <2>1, <2>2, SubSeqProperties
  <2>5. HistoryLimit \in 1 .. n - m + 1 /\ m + HistoryLimit - 1 = n
    BY <1>1, <2>1, BuilderStoreAssumption
  <2>6. SubSeq(steps, m, n)[HistoryLimit] = canvas
    BY <1>1, <2>4, <2>5
  <2>7. HistoryLimit \in DOMAIN SubSeq(steps, m, n)
    BY <2>4, BuilderStoreAssumption, LenProperties
  <2> QED BY <2>3, <2>6, <2>7 DEF steps
<1>3. CASE ~(n > HistoryLimit)
  <2>1. LastSteps(steps) = steps
    BY <1>1, <1>3 DEF LastSteps
  <2>2. n \in DOMAIN steps
    BY <1>1, LenProperties
  <2> QED BY <1>1, <2>1, <2>2 DEF steps
<1> QED BY <1>2, <1>3

LEMMA NextStepIsKept ==
  ASSUME NEW S, NEW future \in Seq(S), NEW canvas \in S
  PROVE  \E i \in DOMAIN FirstSteps(<<canvas>> \o future) :
           FirstSteps(<<canvas>> \o future)[i] = canvas
<1> DEFINE steps == <<canvas>> \o future
<1>1. <<canvas>> \in Seq(S) /\ Len(<<canvas>>) = 1 /\ <<canvas>>[1] = canvas
  OBVIOUS
<1>2. steps \in Seq(S) /\ Len(steps) = Len(future) + 1 /\ steps[1] = canvas /\ Len(future) \in Nat
  BY <1>1, ConcatProperties, LenProperties
<1> HIDE DEF steps
<1>3. CASE Len(steps) > HistoryLimit
  <2>1. \A i \in 1 .. HistoryLimit : steps[i] \in S
    BY <1>2, <1>3, ElementOfSeq, BuilderStoreAssumption
  <2>2. /\ Len(SubSeq(steps, 1, HistoryLimit)) = HistoryLimit
        /\ SubSeq(steps, 1, HistoryLimit) \in Seq(S)
        /\ \A i \in 1 .. HistoryLimit - 1 + 1 : SubSeq(steps, 1, HistoryLimit)[i] = steps[1 + i - 1]
    BY <1>2, <1>3, <2>1, SubSeqProperties, BuilderStoreAssumption
  <2>3. SubSeq(steps, 1, HistoryLimit)[1] = canvas
    <3>1. 1 \in 1 .. HistoryLimit - 1 + 1 /\ 1 + 1 - 1 = 1
      BY BuilderStoreAssumption
    <3> QED BY <1>2, <2>2, <3>1
  <2>4. 1 \in DOMAIN SubSeq(steps, 1, HistoryLimit)
    BY <2>2, BuilderStoreAssumption, LenProperties
  <2>5. FirstSteps(steps) = SubSeq(steps, 1, HistoryLimit)
    BY <1>3 DEF FirstSteps
  <2> QED BY <2>3, <2>4, <2>5 DEF steps
<1>4. CASE ~(Len(steps) > HistoryLimit)
  <2>1. FirstSteps(steps) = steps /\ 1 \in DOMAIN steps
    BY <1>2, <1>4, LenProperties DEF FirstSteps
  <2> QED BY <1>2, <2>1 DEF steps
<1> QED BY <1>3, <1>4

LEMMA TabUpdated ==
  ASSUME TypeOK, NEW t \in Clients, NEW r, tab' = [tab EXCEPT ![t] = r]
  PROVE  tab'[t] = r /\ \A u \in Clients \ {t} : tab'[u] = tab[u]
  BY DEF TypeOK, StoreTypeOK

LEMMA LoadTouches ==
  ASSUME TypeOK, NEW t \in Clients, NEW revision, NEW graph,
         Load(t, revision, graph) \/ LoadKeepingMine(t, revision, graph)
  PROVE  \A u \in Clients \ {t} : tab'[u] = tab[u]
<1>1. PICK r : tab' = [tab EXCEPT ![t] = r]
  BY DEF Load, LoadKeepingMine
<1> QED BY <1>1, TabUpdated

LEMMA TabStepTouches ==
  ASSUME TypeOK, NEW t \in Clients, TabStep(t)
  PROVE  \A u \in Clients \ {t} : tab'[u] = tab[u]
<1>1. CASE UserStep(t)
  <2>1. PICK r : tab' = [tab EXCEPT ![t] = r]
    BY <1>1 DEF UserStep, Edit, Undo, Redo, Close
  <2> QED BY <2>1, TabUpdated
<1>2. CASE StartStep(t)
  BY <1>2 DEF StartStep, StartSave, StartSync, StartOpen, StartApply, TypeOK, StoreTypeOK
<1>3. CASE AnswerStep(t)
  <2>1. CASE SaveAccepted(t) \/ RetryAsOurs(t) \/ SaveFailed(t) \/ FetchLatest(t)
    BY <2>1 DEF SaveAccepted, RetryAsOurs, SaveFailed, FetchLatest, TypeOK, StoreTypeOK
  <2>2. CASE AdoptLatest(t) \/ FinishSync(t) \/ FinishOpen(t) \/ FinishApply(t)
    <3>1. CASE tab' = [tab EXCEPT ![t] = Finished(t)]
      BY <3>1, TabUpdated
    <3>2. CASE ~(tab' = [tab EXCEPT ![t] = Finished(t)])
      BY <2>2, <3>2, LoadTouches DEF AdoptLatest, FinishSync, FinishOpen, FinishApply
    <3> QED BY <3>1, <3>2
  <2> QED BY <1>3, <2>1, <2>2 DEF AnswerStep
<1>4. CASE LossStep(t)
  <2>1. PICK r : tab' = [tab EXCEPT ![t] = r]
    BY <1>4 DEF LossStep, SaveLost, OtherLost, OpenFailed
  <2> QED BY <2>1, TabUpdated
<1> QED BY <1>1, <1>2, <1>3, <1>4 DEF TabStep

\* What was on t's canvas is on it, or one of its steps, after the step.
Survives(t) == \E g \in Kept(t)' : Shape(tab[t].canvas) \subseteq g

LEMMA OnCanvas ==
  ASSUME NEW t \in Clients, Shape(tab[t].canvas) \subseteq tab'[t].canvas
  PROVE  Survives(t)
  BY DEF Survives, Kept

LEMMA InPast ==
  ASSUME NEW t \in Clients, NEW i \in DOMAIN tab'[t].past, tab'[t].past[i] = tab[t].canvas
  PROVE  Survives(t)
  BY DEF Survives, Kept, Shape

LEMMA InFuture ==
  ASSUME NEW t \in Clients, NEW i \in DOMAIN tab'[t].future, tab'[t].future[i] = tab[t].canvas
  PROVE  Survives(t)
  BY DEF Survives, Kept, Shape

LEMMA SameCanvas ==
  ASSUME NEW t \in Clients, tab'[t].canvas = tab[t].canvas
  PROVE  Survives(t)
  BY OnCanvas DEF Shape

LEMMA FinishedSurvives ==
  ASSUME TypeOK, NEW t \in Clients, NEW save \in Saves,
         \/ tab' = [tab EXCEPT ![t] = Finished(t)]
         \/ tab' = [tab EXCEPT ![t] = [Finished(t) EXCEPT !.unconfirmed = save]]
  PROVE  Survives(t)
<1>1. tab'[t] = Finished(t) \/ tab'[t] = [Finished(t) EXCEPT !.unconfirmed = save]
  BY TabUpdated
<1>2. tab'[t].canvas = tab[t].canvas
  BY <1>1, FinishedFields DEF Tab
<1> QED BY <1>2, SameCanvas

LEMMA KeepingMineSurvives ==
  ASSUME TypeOK, NEW t \in Clients, NEW revision \in Nat, NEW graph \in Graphs,
         LoadKeepingMine(t, revision, graph)
  PROVE  Survives(t)
<1> DEFINE past == LastSteps(Append(tab[t].past, tab[t].canvas))
           save == IF tab[t].mutation = "apply" THEN tab[t].unconfirmed ELSE NoSave
<1>1. tab' = [tab EXCEPT ![t] = [Loaded(t, revision, graph) EXCEPT !.past = past, !.unconfirmed = save]]
  BY DEF LoadKeepingMine
<1>2. PICK i \in DOMAIN past : past[i] = tab[t].canvas
  BY TabType, NewestStepIsKept
<1> HIDE DEF past, save
<1>3. tab'[t] = [Loaded(t, revision, graph) EXCEPT !.past = past, !.unconfirmed = save]
  BY <1>1, TabUpdated
<1>4. tab'[t].past = past
  BY <1>3, LoadedType DEF Tab
<1> QED BY <1>2, <1>4, InPast

LEMMA UserStepSurvives ==
  ASSUME TypeOK, NEW t \in Clients, UserStep(t), tab'[t].status = "ready"
  PROVE  Survives(t)
<1>0. tab[t] \in Tab
  BY TabType
<1>1. ASSUME NEW e \in Edits, Edit(t, e) PROVE Survives(t)
  <2> DEFINE past == IF e \in Unrecorded THEN tab[t].past
                     ELSE LastSteps(Append(tab[t].past, tab[t].canvas))
             future == IF e \in Unrecorded THEN tab[t].future ELSE <<>>
             canvas == tab[t].canvas \cup {e}
  <2>1. tab'[t] = [tab[t] EXCEPT !.canvas = canvas, !.past = past, !.future = future]
    BY <1>1, TabUpdated DEF Edit
  <2> HIDE DEF past, future
  <2>2. tab'[t].canvas = canvas
    BY <1>0, <2>1 DEF Tab
  <2> QED BY <2>2, OnCanvas DEF Shape
<1>2. CASE Undo(t)
  <2> DEFINE canvas == tab[t].past[Len(tab[t].past)]
             past == SubSeq(tab[t].past, 1, Len(tab[t].past) - 1)
             future == FirstSteps(<<tab[t].canvas>> \o tab[t].future)
  <2>1. tab' = [tab EXCEPT ![t] = [tab[t] EXCEPT !.canvas = canvas, !.past = past, !.future = future]]
    BY <1>2 DEF Undo
  <2>2. PICK i \in DOMAIN future : future[i] = tab[t].canvas
    <3>1. tab[t].past \in Seq(Graphs) /\ tab[t].future \in Seq(Graphs) /\ tab[t].canvas \in Graphs
      BY TabType
    <3> HIDE DEF Graphs
    <3> QED BY <3>1, NextStepIsKept
  <2> HIDE DEF canvas, past, future
  <2>3. tab'[t] = [tab[t] EXCEPT !.canvas = canvas, !.past = past, !.future = future]
    BY <2>1, TabUpdated
  <2>4. tab'[t].future = future
    BY <1>0, <2>3 DEF Tab
  <2> QED BY <2>2, <2>4, InFuture
<1>3. CASE Redo(t)
  <2> DEFINE past == LastSteps(Append(tab[t].past, tab[t].canvas))
             canvas == Head(tab[t].future)
             future == Tail(tab[t].future)
  <2>1. tab' = [tab EXCEPT ![t] = [tab[t] EXCEPT !.canvas = canvas, !.past = past, !.future = future]]
    BY <1>3 DEF Redo
  <2>2. PICK i \in DOMAIN past : past[i] = tab[t].canvas
    <3>1. tab[t].past \in Seq(Graphs) /\ tab[t].future \in Seq(Graphs) /\ tab[t].canvas \in Graphs
      BY TabType
    <3> HIDE DEF Graphs
    <3> QED BY <3>1, NewestStepIsKept
  <2> HIDE DEF canvas, past, future
  <2>3. tab'[t] = [tab[t] EXCEPT !.canvas = canvas, !.past = past, !.future = future]
    BY <2>1, TabUpdated
  <2>4. tab'[t].past = past
    BY <1>0, <2>3 DEF Tab
  <2> QED BY <2>2, <2>4, InPast
<1>4. CASE Close(t)
  <2>1. tab'[t] = [Closed EXCEPT !.mutation = tab[t].mutation, !.retried = tab[t].retried]
    BY <1>4, TabUpdated DEF Close
  <2>2. tab'[t].status = "idle"
    BY <2>1 DEF Closed
  <2> QED BY <2>2
<1> QED BY <1>1, <1>2, <1>3, <1>4 DEF UserStep

LEMMA StartStepSurvives ==
  ASSUME TypeOK, NEW t \in Clients, StartStep(t), Dirty(t)
  PROVE  Survives(t)
<1>1. PICK op \in {"save", "sync", "open", "apply"} :
        tab' = [tab EXCEPT ![t] = [tab[t] EXCEPT !.mutation = op]]
  BY DEF StartStep, StartSave, StartSync, StartOpen, StartApply, Dirty
<1>2. tab'[t] = [tab[t] EXCEPT !.mutation = op]
  BY <1>1, TabUpdated
<1>3. tab'[t].canvas = tab[t].canvas
  BY <1>2, TabType DEF Tab
<1> QED BY <1>3, SameCanvas

LEMMA SaveAcceptedSurvives ==
  ASSUME TypeOK, NEW t \in Clients, SaveAccepted(t)
  PROVE  Survives(t)
<1>1. CASE tab[t].status # "ready"
  BY <1>1, FinishedSurvives, ClosedType DEF SaveAccepted
<1>2. CASE tab[t].status = "ready"
  <2> DEFINE merged == (tab[t].canvas \ Echoed) \cup (req[t].graph \cap Echoed)
             synced == IF EditedMeanwhile(t) THEN tab[t].synced ELSE merged
  <2>1. tab' = [tab EXCEPT ![t] = [Finished(t) EXCEPT !.unconfirmed = NoSave, !.canvas = merged,
                                     !.synced = synced, !.revision = req[t].rev]]
    BY <1>2 DEF SaveAccepted
  <2> HIDE DEF synced
  <2>2. tab'[t] = [Finished(t) EXCEPT !.unconfirmed = NoSave, !.canvas = merged,
                                      !.synced = synced, !.revision = req[t].rev]
    BY <2>1, TabUpdated
  <2>3. tab'[t].canvas = merged
    BY <2>2, FinishedType DEF Tab
  <2> QED BY <2>3, OnCanvas DEF Shape
<1> QED BY <1>1, <1>2

LEMMA AnswerStepSurvives ==
  ASSUME TypeOK, NEW t \in Clients, AnswerStep(t), Dirty(t), tab[t].mutation # "open"
  PROVE  Survives(t)
<1>0. tab[t] \in Tab /\ req[t].rev \in Nat /\ req[t].graph \in Graphs
  BY TabType
<1>1. CASE RetryAsOurs(t)
  <2>1. tab'[t] = [tab[t] EXCEPT !.unconfirmed = NoSave, !.revision = req[t].rev,
                                 !.mutation = "save", !.retried = TRUE]
    BY <1>1, TabUpdated DEF RetryAsOurs
  <2>2. tab'[t].canvas = tab[t].canvas
    BY <1>0, <2>1 DEF Tab
  <2> QED BY <2>2, SameCanvas
<1>2. CASE FetchLatest(t)
  <2>1. tab' = [tab EXCEPT ![t] = [tab[t] EXCEPT !.mutation = "latest"]]
    BY <1>2 DEF FetchLatest
  <2>2. tab'[t] = [tab[t] EXCEPT !.mutation = "latest"]
    BY <2>1, TabUpdated
  <2>3. tab'[t].canvas = tab[t].canvas
    BY <1>0, <2>2 DEF Tab
  <2> QED BY <2>3, SameCanvas
<1>3. CASE AdoptLatest(t)
  BY <1>0, <1>3, KeepingMineSurvives DEF AdoptLatest
<1>4. CASE SaveFailed(t)
  BY <1>4, FinishedSurvives, ClosedType DEF SaveFailed
<1>5. CASE FinishSync(t)
  BY <1>5, FinishedSurvives, ClosedType DEF FinishSync, SyncLoads
<1>6. CASE FinishApply(t)
  BY <1>0, <1>6, FinishedSurvives, ClosedType, KeepingMineSurvives DEF FinishApply
<1>7. CASE FinishOpen(t)
  BY <1>7 DEF FinishOpen
<1> QED BY <1>1, <1>2, <1>3, <1>4, <1>5, <1>6, <1>7, SaveAcceptedSurvives DEF AnswerStep

LEMMA LossStepSurvives ==
  ASSUME TypeOK, NEW t \in Clients, LossStep(t), tab[t].mutation # "open"
  PROVE  Survives(t)
<1>1. CASE OtherLost(t)
  BY <1>1, FinishedSurvives, ClosedType DEF OtherLost
<1>2. CASE SaveLost(t)
  <2> DEFINE save == IF tab[t].status = "ready" /\ req[t].op = "save"
                     THEN [revision |-> req[t].base, signature |-> graphSignature(req[t].body)]
                     ELSE tab[t].unconfirmed
  <2>1. tab' = [tab EXCEPT ![t] = [Finished(t) EXCEPT !.unconfirmed = save]]
    BY <1>2 DEF SaveLost
  <2> HIDE DEF save
  <2>2. tab'[t] = [Finished(t) EXCEPT !.unconfirmed = save]
    BY <2>1, TabUpdated
  <2>3. tab'[t].canvas = tab[t].canvas
    BY <2>2, FinishedFields DEF Tab
  <2> QED BY <2>3, SameCanvas
<1> QED BY <1>1, <1>2 DEF LossStep, OpenFailed

\* Whatever answer arrives, is lost or is refused, the devices and cables of an unsaved
\* canvas stay on the canvas or in the undo history (reassignAllIPs, applyProposal,
\* syncWithServer, stepBack), for any limit of the history.
THEOREM UnsavedWorkIsKept == Spec => UnsavedShapeIsKept
<1>1. ASSUME TypeOK, [Next]_vars, NEW t \in Clients, Dirty(t), tab[t].mutation # "open",
             tab'[t].status = "ready"
      PROVE  Survives(t)
  <2>1. CASE tab'[t] = tab[t]
    BY <2>1, SameCanvas
  <2>2. CASE TabStep(t)
    BY <1>1, <2>2, UserStepSurvives, StartStepSurvives, AnswerStepSurvives, LossStepSurvives
       DEF TabStep
  <2>3. ASSUME NEW u \in Clients, TabStep(u), u # t PROVE tab'[t] = tab[t]
    BY <1>1, <2>3, TabStepTouches
  <2> QED BY <1>1, <2>1, <2>2, <2>3 DEF Next, ServerStep, vars
<1>2. TypeOK /\ [Next]_vars =>
        [\A t \in Clients :
           /\ Dirty(t) /\ tab[t].mutation # "open" /\ tab'[t].status = "ready"
           => \E g \in Kept(t)' : Shape(tab[t].canvas) \subseteq g]_vars
  BY <1>1 DEF Survives
<1> QED BY <1>2, TypeCorrect, PTL DEF Spec, UnsavedShapeIsKept

-----------------------------------------------------------------------------

USE AutosaveAssumption

(***************************************************************************)
(* What the steps are made of.                                             *)
(***************************************************************************)

\* Tab u and everything autosave keeps for it are as they were.
Untouched(u) ==
  /\ tab'[u] = tab[u] /\ saveState'[u] = saveState[u] /\ mounted'[u] = mounted[u]
  /\ checkDue'[u] = checkDue[u] /\ timers'[u] = timers[u] /\ opening'[u] = opening[u]
  /\ queued'[u] = queued[u] /\ fresh'[u] = fresh[u]

\* The steps of one tab, in groups that are proved alike.
TimerRuns(t) == Check(t) \/ \E timer \in timers[t] : Fire(t, timer)
SaveStarts(t) == StartQueued(t) \/ SaveNow(t) \/ Continue(t)
SaveEnds(t) == Accepted(t) \/ Failed(t) \/ Lost(t)
CanvasChanges(t) == EditCanvas(t) \/ CloseBuild(t) \/ Replace(t)
OtherRuns(t) == Reopen(t) \/ OpenFails(t) \/ StartOther(t) \/ ReadLost(t)
PageChanges(t) == Leave(t) \/ Mount(t)

OneTab(t) == \/ TimerRuns(t) \/ SaveStarts(t) \/ SaveEnds(t)
             \/ CanvasChanges(t) \/ OtherRuns(t) \/ PageChanges(t)

LEMMA Grouped ==
  ASSUME AutosaveNext
  PROVE  Background \/ \E t \in Clients : OneTab(t)
  BY DEF AutosaveNext, TimerStep, AnswerTaken, UserOrNetwork, OneTab, TimerRuns,
         SaveStarts, SaveEnds, CanvasChanges, OtherRuns, PageChanges

-----------------------------------------------------------------------------
(* The store underneath.                                                   *)

LEMMA TimerRunsIsQuiet ==
  ASSUME NEW t \in Clients, TimerRuns(t) \/ PageChanges(t)
  PROVE  UNCHANGED vars
  BY DEF TimerRuns, PageChanges, Check, Fire, Leave, Mount

LEMMA OneTabIsAStep ==
  ASSUME AutosaveTypeOK, NEW t \in Clients, OneTab(t)
  PROVE  TabStep(t) \/ UNCHANGED vars
<1>1. CASE TimerRuns(t) \/ PageChanges(t)
  BY <1>1, TimerRunsIsQuiet
<1>2. CASE SaveStarts(t)
  BY <1>2 DEF SaveStarts, StartQueued, SaveNow, Continue, TabStep, StartStep, AnswerStep
<1>3. CASE SaveEnds(t)
  BY <1>3 DEF SaveEnds, Accepted, Failed, Lost, TabStep, AnswerStep, LossStep
<1>4. CASE CanvasChanges(t)
  BY <1>4 DEF CanvasChanges, EditCanvas, CloseBuild, Replace, TabStep, UserStep, AnswerStep
<1>5. CASE OtherRuns(t)
  <2>1. mounted[t] \in BOOLEAN
    BY DEF AutosaveTypeOK
  <2>2. CASE OpenFails(t)
    BY <2>1, <2>2 DEF OpenFails, TabStep, LossStep
  <2>3. CASE Reopen(t) \/ StartOther(t) \/ ReadLost(t)
    BY <2>3 DEF Reopen, StartOther, ReadLost, TabStep, StartStep, LossStep
  <2> QED BY <1>5, <2>2, <2>3 DEF OtherRuns
<1> QED BY <1>1, <1>2, <1>3, <1>4, <1>5 DEF OneTab

LEMMA StepIsAStep ==
  ASSUME AutosaveTypeOK, [AutosaveNext]_allVars
  PROVE  [Next]_vars
<1>1. CASE UNCHANGED allVars
  BY <1>1 DEF allVars
<1>2. CASE Background
  BY <1>2 DEF Background, Next
<1>3. ASSUME NEW t \in Clients, OneTab(t) PROVE [Next]_vars
  BY <1>3, OneTabIsAStep DEF Next
<1> QED BY <1>1, <1>2, <1>3, Grouped

-----------------------------------------------------------------------------
(* Type correctness.                                                       *)

AutosaveTypes ==
  /\ saveState \in [Clients -> {"saved", "unsaved", "saving", "error"}]
  /\ mounted \in [Clients -> BOOLEAN]
  /\ checkDue \in [Clients -> BOOLEAN]
  /\ timers \in [Clients -> SUBSET {"save", "retry"}]
  /\ opening \in [Clients -> BOOLEAN]
  /\ queued \in [Clients -> {"none", "auto", "leave"}]
  /\ auto \in [Clients -> BOOLEAN]
  /\ retries \in [Clients -> 0 .. MaxRetries]
  /\ fresh \in [Clients -> Nat]

LEMMA TypesAre == AutosaveTypeOK <=> TypeOK /\ AutosaveTypes
  BY DEF AutosaveTypeOK, AutosaveTypes

LEMMA ShowsType ==
  ASSUME AutosaveTypes, NEW t \in Clients,
         NEW state \in {"saved", "unsaved", "saving", "error"}, Shows(t, state)
  PROVE  saveState' \in [Clients -> {"saved", "unsaved", "saving", "error"}]
  BY DEF AutosaveTypes, Shows

LEMMA NotifyType ==
  ASSUME AutosaveTypes, NEW t \in Clients, Notify(t)
  PROVE  checkDue' \in [Clients -> BOOLEAN]
  BY DEF AutosaveTypes, Notify

LEMMA RenewedType ==
  ASSUME AutosaveTypes, NEW t \in Clients,
         Renewed(t) \/ (\E loads : RenewedIf(t, loads) \/ TakenIf(t, loads))
  PROVE  /\ checkDue' \in [Clients -> BOOLEAN]
         /\ saveState' \in [Clients -> {"saved", "unsaved", "saving", "error"}]
<1>1. CASE Renewed(t)
  BY <1>1, NotifyType, ShowsType DEF Renewed
<1>2. CASE UNCHANGED <<checkDue, saveState>>
  BY <1>2 DEF AutosaveTypes
<1> QED BY <1>1, <1>2 DEF RenewedIf, TakenIf

\* The revision a tab remembers is one of an answer, or none.
LEMMA FreshType ==
  ASSUME TypeOK, AutosaveTypes, NEW t \in Clients,
         \/ UNCHANGED fresh
         \/ fresh' = [fresh EXCEPT ![t] = 0]
         \/ fresh' = [fresh EXCEPT ![t] = req[t].own]
         \/ \E loads : TakenIf(t, loads)
  PROVE  fresh' \in [Clients -> Nat]
<1>1. req[t].own \in Nat /\ req[t].rev \in Nat
  BY TabType
<1> QED BY <1>1 DEF AutosaveTypes, TakenIf

LEMMA TriedType ==
  ASSUME AutosaveTypes, NEW t \in Clients, NEW refused, TriedInVain(t, refused)
  PROVE  /\ timers' \in [Clients -> SUBSET {"save", "retry"}]
         /\ retries' \in [Clients -> 0 .. MaxRetries]
<1>1. retries[t] \in 0 .. MaxRetries /\ timers[t] \in SUBSET {"save", "retry"}
  BY DEF AutosaveTypes
<1>2. CASE UNCHANGED <<timers, retries>>
  BY <1>2 DEF AutosaveTypes
<1>3. CASE UNCHANGED timers /\ retries' = [retries EXCEPT ![t] = 0]
  BY <1>3 DEF AutosaveTypes
<1>4. CASE /\ ~(retries[t] >= MaxRetries)
           /\ timers' = [timers EXCEPT ![t] = timers[t] \cup {"retry"}]
           /\ retries' = [retries EXCEPT ![t] = retries[t] + 1]
  <2>1. retries[t] + 1 \in 0 .. MaxRetries
    BY <1>1, <1>4
  <2>2. timers[t] \cup {"retry"} \in SUBSET {"save", "retry"}
    BY <1>1
  <2> QED BY <1>4, <2>1, <2>2 DEF AutosaveTypes
<1> QED BY <1>2, <1>3, <1>4 DEF TriedInVain

LEMMA UnmountType ==
  ASSUME AutosaveTypes, NEW t \in Clients, Unmount(t)
  PROVE  /\ mounted' \in [Clients -> BOOLEAN] /\ checkDue' \in [Clients -> BOOLEAN]
         /\ timers' \in [Clients -> SUBSET {"save", "retry"}]
         /\ auto' \in [Clients -> BOOLEAN] /\ retries' \in [Clients -> 0 .. MaxRetries]
  BY DEF AutosaveTypes, Unmount

LEMMA OneTabTypes ==
  ASSUME TypeOK, AutosaveTypes, NEW t \in Clients, OneTab(t)
  PROVE  AutosaveTypes'
<1> USE DEF AutosaveTypes
<1>1. CASE Check(t)
  <2> DEFINE state == IF saveState[t] = "saving" \/ tab[t].status # "ready" THEN saveState[t]
                      ELSE IF ~Dirty(t) THEN "saved"
                      ELSE IF saveState[t] = "error" THEN "error" ELSE "unsaved"
  <2>1. state \in {"saved", "unsaved", "saving", "error"} /\ Shows(t, state)
    BY <1>1 DEF Check
  <2>2. saveState' \in [Clients -> {"saved", "unsaved", "saving", "error"}]
    BY <2>1, ShowsType
  <2>3. timers' \in [Clients -> SUBSET {"save", "retry"}] /\ checkDue' \in [Clients -> BOOLEAN]
    BY <1>1 DEF Check
  <2>4. retries' \in [Clients -> 0 .. MaxRetries] /\ UNCHANGED <<mounted, opening, queued, auto, fresh>>
    BY <1>1 DEF Check
  <2> QED BY <2>2, <2>3, <2>4
<1>2. ASSUME NEW timer \in timers[t], Fire(t, timer) PROVE AutosaveTypes'
  BY <1>2 DEF Fire
<1>3. CASE StartQueued(t)
  <2>1. CASE tab[t].status = "ready"
    BY <1>3, <2>1, ShowsType DEF StartQueued
  <2>2. CASE tab[t].status # "ready"
    <3>1. CASE queued[t] = "auto" /\ retries[t] < MaxRetries
      <4>1. retries[t] + 1 \in 0 .. MaxRetries /\ timers[t] \cup {"retry"} \in SUBSET {"save", "retry"}
        BY <3>1
      <4> QED BY <1>3, <2>2, <3>1, <4>1 DEF StartQueued
    <3>2. CASE ~(queued[t] = "auto" /\ retries[t] < MaxRetries)
      BY <1>3, <2>2, <3>2 DEF StartQueued
    <3> QED BY <3>1, <3>2
  <2> QED BY <2>1, <2>2
<1>4. CASE SaveNow(t)
  BY <1>4, ShowsType DEF SaveNow
<1>5. CASE Continue(t)
  BY <1>5, FreshType DEF Continue
<1>6. CASE Accepted(t)
  <2>1. /\ checkDue' \in [Clients -> BOOLEAN]
        /\ saveState' \in [Clients -> {"saved", "unsaved", "saving", "error"}]
    BY <1>6, NotifyType, ShowsType DEF Accepted
  <2>2. retries' \in [Clients -> 0 .. MaxRetries] /\ fresh' \in [Clients -> Nat]
    BY <1>6, FreshType DEF Accepted
  <2> QED BY <1>6, <2>1, <2>2 DEF Accepted
<1>7. CASE Failed(t) \/ Lost(t)
  <2>1. PICK refused : Unsaved(t, refused)
    BY <1>7 DEF Failed, Lost
  <2>2. saveState' \in [Clients -> {"saved", "unsaved", "saving", "error"}]
    BY <2>1, ShowsType DEF Unsaved
  <2>3. TriedInVain(t, refused)
    BY <2>1 DEF Unsaved
  <2> QED BY <2>1, <2>2, <2>3, TriedType DEF Unsaved
<1>8. CASE EditCanvas(t)
  BY <1>8, NotifyType DEF EditCanvas
<1>9. CASE CloseBuild(t)
  BY <1>9, RenewedType DEF CloseBuild
<1>10. CASE Replace(t)
  <2>1. /\ checkDue' \in [Clients -> BOOLEAN]
        /\ saveState' \in [Clients -> {"saved", "unsaved", "saving", "error"}]
    BY <1>10, RenewedType DEF Replace
  <2>2. retries' \in [Clients -> 0 .. MaxRetries] /\ fresh' \in [Clients -> Nat]
    <3>1. \E loads : TakenIf(t, loads)
      BY <1>10 DEF Replace
    <3> QED BY <1>10, <3>1, FreshType DEF Replace
  <2> QED BY <1>10, <2>1, <2>2 DEF Replace
<1>11. CASE Reopen(t)
  <2>1. /\ checkDue' \in [Clients -> BOOLEAN]
        /\ saveState' \in [Clients -> {"saved", "unsaved", "saving", "error"}]
    BY <1>11, RenewedType DEF Reopen
  <2> QED BY <1>11, <2>1 DEF Reopen
<1>12. CASE OpenFails(t)
  <2>1. saveState' \in [Clients -> {"saved", "unsaved", "saving", "error"}]
    BY <1>12, ShowsType DEF OpenFails
  <2> QED BY <1>12, <2>1, UnmountType DEF OpenFails
<1>13. CASE StartOther(t) \/ ReadLost(t)
  BY <1>13 DEF StartOther, ReadLost, autosaveVars
<1>14. CASE Leave(t)
  BY <1>14, UnmountType DEF Leave
<1>15. CASE Mount(t)
  BY <1>15 DEF Mount
<1> QED BY <1>1, <1>2, <1>3, <1>4, <1>5, <1>6, <1>7, <1>8, <1>9, <1>10, <1>11, <1>12,
           <1>13, <1>14, <1>15
        DEF OneTab, TimerRuns, SaveStarts, SaveEnds, CanvasChanges, OtherRuns, PageChanges

LEMMA AutosaveNextType ==
  ASSUME AutosaveTypeOK, [AutosaveNext]_allVars
  PROVE  AutosaveTypeOK'
<1>1. TypeOK'
  BY StepIsAStep, NextType, TypesAre
<1>2. AutosaveTypes'
  <2>1. CASE UNCHANGED autosaveVars
    BY <2>1, TypesAre DEF AutosaveTypes, autosaveVars
  <2>2. ASSUME NEW t \in Clients, OneTab(t) PROVE AutosaveTypes'
    BY <2>2, OneTabTypes, TypesAre
  <2> QED BY <2>1, <2>2, Grouped DEF Background, allVars
<1> QED BY <1>1, <1>2 DEF AutosaveTypeOK, AutosaveTypes

LEMMA AutosaveInitType == AutosaveInit => AutosaveTypeOK
  BY InitType DEF AutosaveInit, AutosaveTypeOK

-----------------------------------------------------------------------------
(* The two properties of one tab.  Each is kept by every step of the tab    *)
(* by itself, and nobody else's step touches what they speak of.           *)

Remembered(t) ==
  mounted[t] /\ Dirty(t) =>
    \/ checkDue[t] \/ timers[t] # {} \/ queued[t] # "none" \/ opening[t]
    \/ tab[t].mutation \in {"save", "latest", "open"} \/ saveState[t] = "error"

Honest(t) ==
  mounted[t] /\ saveState[t] = "saved" /\ ~checkDue[t] /\ queued[t] = "none"
    /\ ~opening[t] /\ tab[t].mutation # "open"
  => ~Dirty(t)

LEMMA OthersUntouched ==
  ASSUME AutosaveTypeOK, NEW t \in Clients, OneTab(t), NEW u \in Clients, u # t
  PROVE  Untouched(u)
<1> USE DEF AutosaveTypes
<1>1. tab'[u] = tab[u]
  BY OneTabIsAStep, TabStepTouches, TypesAre DEF vars
<1>2. AutosaveTypes
  BY TypesAre
<1>3. CASE TimerRuns(t)
  BY <1>1, <1>2, <1>3 DEF TimerRuns, Check, Fire, Shows, Untouched
<1>4. CASE SaveStarts(t)
  BY <1>1, <1>2, <1>4 DEF SaveStarts, StartQueued, SaveNow, Continue, Shows, autosaveVars, Untouched
<1>5. CASE SaveEnds(t)
  BY <1>1, <1>2, <1>5
     DEF SaveEnds, Accepted, Failed, Lost, Unsaved, TriedInVain, Shows, Notify, Untouched
<1>6. CASE CanvasChanges(t)
  BY <1>1, <1>2, <1>6
     DEF CanvasChanges, EditCanvas, CloseBuild, Replace, Renewed, RenewedIf, TakenIf, Shows, Notify,
         Untouched
<1>7. CASE OtherRuns(t)
  BY <1>1, <1>2, <1>7
     DEF OtherRuns, Reopen, OpenFails, StartOther, ReadLost, Renewed, RenewedIf, Shows, Notify,
         Unmount, autosaveVars, Untouched
<1>8. CASE PageChanges(t)
  BY <1>1, <1>2, <1>8 DEF PageChanges, Leave, Mount, Unmount, Untouched
<1> QED BY <1>3, <1>4, <1>5, <1>6, <1>7, <1>8 DEF OneTab

\* A tab whose answer is ignored looks as before, but for what was running.
LEMMA FinishedLooks ==
  ASSUME AutosaveTypeOK, NEW t \in Clients, tab' = [tab EXCEPT ![t] = Finished(t)]
  PROVE  /\ tab'[t].mutation = "none" /\ tab'[t].status = tab[t].status
         /\ tab'[t].canvas = tab[t].canvas /\ tab'[t].synced = tab[t].synced
<1>1. tab'[t] = Finished(t)
  BY TypesAre, TabUpdated
<1> QED BY <1>1, TypesAre, FinishedFields

\* What touches the canvas makes the check due.
LEMMA NotifiedKeeps ==
  ASSUME AutosaveTypeOK, NEW t \in Clients, Notify(t), UNCHANGED mounted
  PROVE  Remembered(t)' /\ Honest(t)'
<1>1. mounted'[t] => checkDue'[t]
  BY TypesAre DEF Notify, AutosaveTypes
<1> QED BY <1>1 DEF Remembered, Honest

LEMMA TimerRunsKeeps ==
  ASSUME AutosaveTypeOK, NEW t \in Clients, Remembered(t), Honest(t), TimerRuns(t)
  PROVE  Remembered(t)' /\ Honest(t)'
<1>1. tab' = tab /\ (Dirty(t)' <=> Dirty(t))
  BY TimerRunsIsQuiet DEF vars, Dirty
<1>2. AutosaveTypes
  BY TypesAre
<1>3. CASE Check(t)
  <2>1. timers'[t] = IF Dirty(t) THEN {"save"} ELSE {}
    BY <1>2, <1>3 DEF Check, AutosaveTypes
  <2>2. Dirty(t) => saveState'[t] # "saved"
    BY <1>2, <1>3 DEF Check, Shows, AutosaveTypes, Dirty
  <2> QED BY <1>1, <2>1, <2>2 DEF Remembered, Honest
<1>4. ASSUME NEW timer \in timers[t], Fire(t, timer)
      PROVE  Remembered(t)' /\ Honest(t)'
  <2>1. queued'[t] = IF Dirty(t) THEN "auto" ELSE queued[t]
    BY <1>2, <1>4 DEF Fire, AutosaveTypes
  <2>2. UNCHANGED <<saveState, mounted, checkDue, opening>>
    BY <1>4 DEF Fire
  <2> QED BY <1>1, <2>1, <2>2 DEF Remembered, Honest
<1> QED BY <1>3, <1>4 DEF TimerRuns

LEMMA SaveStartsKeeps ==
  ASSUME AutosaveTypeOK, NEW t \in Clients, Remembered(t), Honest(t), SaveStarts(t)
  PROVE  Remembered(t)' /\ Honest(t)'
<1>1. tab[t] \in Tab /\ TypeOK /\ AutosaveTypes
  BY TypesAre, TabType
<1>2. CASE StartSave(t) /\ Shows(t, "saving")
  <2>1. tab' = [tab EXCEPT ![t] = [tab[t] EXCEPT !.mutation = "save"]]
    BY <1>2 DEF StartSave
  <2>2. tab'[t] = [tab[t] EXCEPT !.mutation = "save"]
    BY <1>1, <2>1, TabUpdated
  <2>3. tab'[t].mutation = "save"
    BY <1>1, <2>2 DEF Tab
  <2>4. saveState'[t] = "saving"
    BY <1>1, <1>2 DEF Shows, AutosaveTypes
  <2> QED BY <2>3, <2>4 DEF Remembered, Honest
<1>3. CASE StartQueued(t) /\ tab[t].status # "ready"
  <2>1. ~Dirty(t)'
    BY <1>3 DEF StartQueued, vars, Dirty
  <2> QED BY <2>1 DEF Remembered, Honest
<1>4. CASE Continue(t)
  <2>1. /\ tab'[t].mutation \in {"save", "latest"} /\ tab'[t].status = tab[t].status
        /\ tab'[t].canvas = tab[t].canvas /\ tab'[t].synced = tab[t].synced
    <3>1. CASE RetryAsOurs(t)
      <4>1. tab'[t] = [tab[t] EXCEPT !.unconfirmed = NoSave, !.revision = req[t].rev,
                                     !.mutation = "save", !.retried = TRUE]
        BY <1>1, <3>1, TabUpdated DEF RetryAsOurs
      <4> QED BY <1>1, <4>1 DEF Tab
    <3>2. CASE FetchLatest(t)
      <4>1. tab' = [tab EXCEPT ![t] = [tab[t] EXCEPT !.mutation = "latest"]]
        BY <3>2 DEF FetchLatest
      <4>2. tab'[t] = [tab[t] EXCEPT !.mutation = "latest"]
        BY <1>1, <4>1, TabUpdated
      <4> QED BY <1>1, <4>2 DEF Tab
    <3> QED BY <1>4, <3>1, <3>2 DEF Continue
  <2>2. tab[t].mutation # "open"
    BY <1>4 DEF Continue, RetryAsOurs, HasLatest, FetchLatest
  <2>3. Dirty(t)' <=> Dirty(t)
    BY <2>1 DEF Dirty
  <2>4. UNCHANGED <<saveState, mounted, checkDue, queued, opening>>
    BY <1>4 DEF Continue, autosaveVars
  <2> QED BY <2>1, <2>2, <2>3, <2>4 DEF Remembered, Honest
<1> QED BY <1>2, <1>3, <1>4 DEF SaveStarts, StartQueued, SaveNow

LEMMA SaveEndsKeeps ==
  ASSUME AutosaveTypeOK, NEW t \in Clients, Remembered(t), Honest(t), SaveEnds(t)
  PROVE  Remembered(t)' /\ Honest(t)'
<1>1. tab[t] \in Tab /\ TypeOK /\ AutosaveTypes
  BY TypesAre, TabType
<1>2. CASE tab[t].status = "ready" /\ Accepted(t)
  BY <1>2, NotifiedKeeps DEF Accepted
<1>3. CASE tab[t].status = "ready" /\ (Failed(t) \/ Lost(t))
  <2>1. saveState'[t] = "error"
    BY <1>1, <1>3 DEF Failed, Lost, Unsaved, Shows, AutosaveTypes
  <2> QED BY <2>1 DEF Remembered, Honest
<1>4. CASE tab[t].status # "ready"
  <2>1. PICK save : tab' = [tab EXCEPT ![t] = [Finished(t) EXCEPT !.unconfirmed = save]]
                    \/ tab' = [tab EXCEPT ![t] = Finished(t)]
    BY <1>4 DEF SaveEnds, Accepted, Failed, Lost, SaveAccepted, SaveFailed, SaveLost
  <2>2. tab'[t] = [Finished(t) EXCEPT !.unconfirmed = save] \/ tab'[t] = Finished(t)
    BY <1>1, <2>1, TabUpdated
  <2>3. tab'[t].status = tab[t].status
    BY <1>1, <2>2 DEF Finished, Tab
  <2>4. ~Dirty(t)'
    BY <1>4, <2>3 DEF Dirty
  <2> QED BY <2>4 DEF Remembered, Honest
<1> QED BY <1>2, <1>3, <1>4 DEF SaveEnds

LEMMA CanvasChangesKeeps ==
  ASSUME AutosaveTypeOK, NEW t \in Clients, Remembered(t), Honest(t), CanvasChanges(t)
  PROVE  Remembered(t)' /\ Honest(t)'
<1>1. tab[t] \in Tab /\ TypeOK /\ AutosaveTypes
  BY TypesAre, TabType
<1>2. CASE Notify(t) /\ UNCHANGED mounted
  BY <1>2, NotifiedKeeps
<1>3. CASE /\ (FinishSync(t) /\ ~SyncLoads(t)) \/ (FinishApply(t) /\ ~ApplyLoads(t))
           /\ UNCHANGED <<saveState, mounted, checkDue, timers, queued, opening>>
  <2>1. tab' = [tab EXCEPT ![t] = Finished(t)] /\ tab[t].mutation \in {"sync", "apply"}
    BY <1>3 DEF FinishSync, FinishApply
  <2>2. (Dirty(t)' <=> Dirty(t)) /\ tab'[t].mutation = "none"
    BY <2>1, FinishedLooks DEF Dirty
  <2> QED BY <1>3, <2>1, <2>2 DEF Remembered, Honest
<1>4. CASE FinishOpen(t) /\ ~OpenLoads(t)
  <2>1. tab' = [tab EXCEPT ![t] = Finished(t)] /\ tab[t].status = "idle"
    BY <1>4 DEF FinishOpen, OpenLoads
  <2>2. ~Dirty(t)'
    BY <2>1, FinishedLooks DEF Dirty
  <2> QED BY <2>2 DEF Remembered, Honest
<1> QED BY <1>2, <1>3, <1>4
        DEF CanvasChanges, EditCanvas, CloseBuild, Replace, Renewed, RenewedIf, TakenIf

LEMMA OtherRunsKeeps ==
  ASSUME AutosaveTypeOK, NEW t \in Clients, Remembered(t), Honest(t), OtherRuns(t)
  PROVE  Remembered(t)' /\ Honest(t)'
<1>1. tab[t] \in Tab /\ TypeOK /\ AutosaveTypes
  BY TypesAre, TabType
<1>2. CASE Reopen(t)
  <2>1. PICK r : tab' = [tab EXCEPT ![t] = r] /\ r.mutation = "open"
    <3>1. /\ [tab[t] EXCEPT !.mutation = "open"].mutation = "open"
          /\ [Closed EXCEPT !.status = "loading", !.synced = tab[t].synced,
                            !.mutation = "open"].mutation = "open"
      BY <1>1 DEF Closed, Tab
    <3> QED BY <1>2, <3>1 DEF Reopen, StartOpen
  <2>2. tab'[t].mutation = "open"
    BY <1>1, <2>1, TabUpdated
  <2> QED BY <2>2 DEF Remembered, Honest
<1>3. CASE OpenFails(t)
  <2>1. ~mounted'[t]
    BY <1>1, <1>3 DEF OpenFails, Unmount, AutosaveTypes
  <2> QED BY <2>1 DEF Remembered, Honest
<1>4. CASE StartOther(t)
  <2>1. PICK op \in {"sync", "apply"} : tab' = [tab EXCEPT ![t] = [tab[t] EXCEPT !.mutation = op]]
    BY <1>4 DEF StartOther, StartSync, StartApply
  <2>2. tab'[t] = [tab[t] EXCEPT !.mutation = op]
    BY <1>1, <2>1, TabUpdated
  <2>3. Dirty(t)' <=> Dirty(t)
    BY <1>1, <2>2 DEF Dirty, Tab
  <2>4. tab[t].mutation = "none"
    BY <1>4 DEF StartOther, StartSync, StartApply, Free
  <2>5. UNCHANGED <<saveState, mounted, checkDue, timers, queued, opening>>
    BY <1>4 DEF StartOther, autosaveVars
  <2> QED BY <2>3, <2>4, <2>5 DEF Remembered, Honest
<1>5. CASE ReadLost(t)
  <2>1. tab' = [tab EXCEPT ![t] = Finished(t)] /\ tab[t].mutation \in {"sync", "apply"}
    BY <1>5 DEF ReadLost, OtherLost
  <2>2. Dirty(t)' <=> Dirty(t)
    BY <2>1, FinishedLooks DEF Dirty
  <2>3. UNCHANGED <<saveState, mounted, checkDue, timers, queued, opening>>
    BY <1>5 DEF ReadLost, autosaveVars
  <2> QED BY <2>1, <2>2, <2>3 DEF Remembered, Honest
<1> QED BY <1>2, <1>3, <1>4, <1>5 DEF OtherRuns

LEMMA PageChangesKeeps ==
  ASSUME AutosaveTypeOK, NEW t \in Clients, Remembered(t), Honest(t), PageChanges(t)
  PROVE  Remembered(t)' /\ Honest(t)'
<1>1. (Leave(t) => ~mounted'[t]) /\ (Mount(t) => opening'[t])
  BY TypesAre DEF Leave, Unmount, Mount, AutosaveTypes
<1> QED BY <1>1 DEF PageChanges, Remembered, Honest

-----------------------------------------------------------------------------
(***************************************************************************)
(* The inductive invariant, and the theorems.                              *)
(***************************************************************************)

Scheduled == AutosaveTypeOK /\ \A t \in Clients : Remembered(t) /\ Honest(t)

LEMMA UntouchedKeeps ==
  ASSUME NEW u \in Clients, Untouched(u), Remembered(u), Honest(u)
  PROVE  Remembered(u)' /\ Honest(u)'
<1>1. Dirty(u)' <=> Dirty(u)
  BY DEF Untouched, Dirty
<1> QED BY <1>1 DEF Untouched, Remembered, Honest

LEMMA OneTabKeeps ==
  ASSUME AutosaveTypeOK, NEW t \in Clients, Remembered(t), Honest(t), OneTab(t)
  PROVE  Remembered(t)' /\ Honest(t)'
  BY TimerRunsKeeps, SaveStartsKeeps, SaveEndsKeeps, CanvasChangesKeeps, OtherRunsKeeps,
     PageChangesKeeps DEF OneTab

LEMMA NobodyTouchedKeeps ==
  ASSUME NEW u \in Clients, tab' = tab, UNCHANGED autosaveVars
  PROVE  Untouched(u)
  BY DEF autosaveVars, Untouched

LEMMA NextScheduled == Scheduled /\ [AutosaveNext]_allVars => Scheduled'
<1> SUFFICES ASSUME Scheduled, [AutosaveNext]_allVars PROVE Scheduled'
  OBVIOUS
<1> USE DEF Scheduled
<1>1. AutosaveTypeOK'
  BY AutosaveNextType
<1>2. ASSUME NEW u \in Clients PROVE Remembered(u)' /\ Honest(u)'
  <2>1. Remembered(u) /\ Honest(u)
    OBVIOUS
  <2>2. CASE Background \/ UNCHANGED allVars
    <3>1. tab' = tab /\ UNCHANGED autosaveVars
      BY <2>2 DEF Background, ServerStep, allVars, vars
    <3> QED BY <2>1, <3>1, NobodyTouchedKeeps, UntouchedKeeps
  <2>3. ASSUME NEW t \in Clients, OneTab(t) PROVE Remembered(u)' /\ Honest(u)'
    <3>1. CASE u = t
      BY <2>1, <2>3, <3>1, OneTabKeeps
    <3>2. CASE u # t
      BY <2>1, <2>3, <3>2, OthersUntouched, UntouchedKeeps
    <3> QED BY <3>1, <3>2
  <2> QED BY <2>2, <2>3, Grouped
<1> QED BY <1>1, <1>2

LEMMA InitScheduled == AutosaveInit => Scheduled
<1> SUFFICES ASSUME AutosaveInit PROVE Scheduled
  OBVIOUS
<1>1. \A t \in Clients : ~Dirty(t)
  BY DEF AutosaveInit, Init, Closed, Dirty
<1> QED BY <1>1, AutosaveInitType DEF Scheduled, Remembered, Honest

LEMMA SpecScheduled == AutosaveSpec => []Scheduled
  BY InitScheduled, NextScheduled, PTL DEF AutosaveSpec

\* The timers, what waits in the queue and the retries keep their types: more saves
\* are never tried again than AUTOSAVE_RETRY_MS allows.
THEOREM AutosaveTypeCorrect == AutosaveSpec => []AutosaveTypeOK
<1>1. Scheduled => AutosaveTypeOK
  BY DEF Scheduled
<1> QED BY <1>1, SpecScheduled, PTL

\* While the builder is open, an unsaved canvas is never forgotten: startAutosave has
\* a timer set, a save waits or runs, or the header says it failed.
THEOREM NothingIsForgotten == AutosaveSpec => []UnsavedIsScheduled
<1>1. Scheduled => UnsavedIsScheduled
  BY DEF Scheduled, UnsavedIsScheduled, Remembered
<1> QED BY <1>1, SpecScheduled, PTL

\* The builder with its timers is the store: whatever autosave does, the store, the
\* requests and the revisions behave as BuilderStore says.
THEOREM AutosaveIsAStore == AutosaveSpec => Spec
<1>1. AutosaveInit => Init
  BY DEF AutosaveInit
<1>2. Scheduled /\ [AutosaveNext]_allVars => [Next]_vars
  BY StepIsAStep DEF Scheduled
<1> QED BY <1>1, <1>2, SpecScheduled, PTL DEF AutosaveSpec, Spec

\* So autosave loses no other tab's work either: a save it sends replaces nothing its
\* tab has never had on the canvas (reassignAllIPs, saveRevisionTx).
THEOREM AutosavesAreInformed == AutosaveSpec => []SavesSeeWhatTheyReplace
  BY AutosaveIsAStore, SavesAreInformed, PTL

-----------------------------------------------------------------------------
(***************************************************************************)
(* What "saved" stands over.  The canvas is the synced one; that one is a   *)
(* revision's graph when `fresh` says so; and as long as that revision is   *)
(* the newest, it is what the server holds.                                *)
(***************************************************************************)

Stored(t) ==
  tab[t].status = "ready" /\ fresh[t] = tab[t].revision /\ tab[t].revision = Len(log)
    => Shape(tab[t].synced) = Shape(log[Len(log)].graph)

Held == AutosaveTypeOK /\ IInv

\* A step that leaves alone what Stored speaks of, or gives the build up.
LEMMA SameIsStored ==
  ASSUME NEW t \in Clients, Stored(t), log' = log,
         tab'[t].status = "ready" =>
           /\ tab[t].status = "ready" /\ fresh'[t] = fresh[t]
           /\ tab'[t].revision = tab[t].revision /\ tab'[t].synced = tab[t].synced
  PROVE  Stored(t)'
  BY DEF Stored

LEMMA TabStepKeepsLog ==
  ASSUME NEW t \in Clients, OneTab(t), AutosaveTypeOK
  PROVE  log' = log
<1>1. CASE UNCHANGED vars
  BY <1>1 DEF vars, serverVars
<1>2. CASE TabStep(t)
  BY <1>2 DEF TabStep, UserStep, Edit, Undo, Redo, Close, StartStep, StartSave, StartSync, StartOpen,
              StartApply, AnswerStep, SaveAccepted, RetryAsOurs, AdoptLatest, FetchLatest, SaveFailed,
              FinishSync, FinishOpen, FinishApply, LossStep, SaveLost, OtherLost, OpenFailed,
              Quiet, serverVars
<1> QED BY <1>1, <1>2, OneTabIsAStep

\* A revision that is not the newest any more is not spoken of.
LEMMA BackgroundIsStored ==
  ASSUME Held, NEW t \in Clients, Stored(t), ServerStep, fresh' = fresh
  PROVE  Stored(t)'
<1>1. tab' = tab
  BY DEF ServerStep
<1>2. CASE log' = log
  BY <1>1, <1>2, SameIsStored
<1>3. CASE Len(log') = Len(log) + 1
  <2>1. TypeOK /\ ReadyOK(t) /\ Len(log) \in Nat /\ tab[t].revision \in Nat
    BY TabType, LogFacts DEF Held, IInv, TabOK
  <2> QED BY <1>1, <1>3, <2>1 DEF Stored, ReadyOK, Known
<1>4. log' = log \/ \E graph, by : log' = Append(log, [graph |-> graph, by |-> by])
  BY DEF ServerStep, ServerNext, Serve, Fail, CommitSave, RefuseStale, RefuseInvalid, CommitApply,
         RefuseApply, ReadRow, ReadGraph, ReadTable, FailBefore, ReadFails, RenameElsewhere,
         SaveElsewhere, CommitStray, DropStray, NewRevision
<1>5. \A v : Len(Append(log, v)) = Len(log) + 1
  BY DEF Held, IInv, TypeOK, ServerTypeOK
<1> QED BY <1>2, <1>3, <1>4, <1>5

\* An accepted save of an untouched canvas stores what the canvas still shows, but for
\* the values the answer writes back.
LEMMA AcceptedIsStored ==
  ASSUME Held, NEW t \in Clients, Accepted(t), tab[t].status = "ready"
  PROVE  Stored(t)'
<1> DEFINE merged == (tab[t].canvas \ Echoed) \cup (req[t].graph \cap Echoed)
           synced == IF EditedMeanwhile(t) THEN tab[t].synced ELSE merged
           r == [Finished(t) EXCEPT !.unconfirmed = NoSave, !.canvas = merged,
                                    !.synced = synced, !.revision = req[t].rev]
<1>0. TypeOK /\ RequestOK(t) /\ AutosaveTypes
  BY TypesAre DEF Held, IInv, TabOK
<1>1. /\ tab' = [tab EXCEPT ![t] = r] /\ log' = log
      /\ req[t].op = "save" /\ req[t].stage = "done" /\ req[t].status = "ok"
  BY DEF Accepted, SaveAccepted, Answered, Quiet
<1> HIDE DEF merged, synced
<1>2. tab'[t].synced = synced /\ tab'[t].revision = req[t].rev
  <2>1. tab'[t] = r
    BY <1>0, <1>1, TabUpdated
  <2> QED BY <1>0, <2>1, FinishedFields DEF Tab
<1>3. 1 <= req[t].rev /\ req[t].own # 0 /\ log[req[t].own].graph = req[t].body
  BY <1>0, <1>1 DEF RequestOK
<1>4. fresh'[t] = IF EditedMeanwhile(t) THEN 0 ELSE req[t].own
  BY <1>0 DEF Accepted, AutosaveTypes
<1>5. ~EditedMeanwhile(t) => Shape(synced) = Shape(req[t].body)
  BY DEF EditedMeanwhile, Shape, synced, merged
<1> QED BY <1>0, <1>1, <1>2, <1>3, <1>4, <1>5, TabType DEF Stored

\* A build that is taken over is that of its revision, if that is the newest.
LEMMA TakenIsStored ==
  ASSUME Held, NEW t \in Clients, req[t].found, log' = log,
         \/ Load(t, req[t].rev, req[t].graph)
         \/ LoadKeepingMine(t, req[t].rev, req[t].graph)
  PROVE  Stored(t)'
<1> DEFINE loaded == Loaded(t, req[t].rev, req[t].graph)
<1>0. TypeOK /\ IInv
  BY DEF Held, IInv
<1>1. PICK past, save : tab' = [tab EXCEPT ![t] = loaded]
                        \/ tab' = [tab EXCEPT ![t] = [loaded EXCEPT !.past = past, !.unconfirmed = save]]
  BY DEF Load, LoadKeepingMine
<1>2. loaded.synced = req[t].graph /\ loaded.revision = req[t].rev /\ loaded \in Tab
  <2>1. loaded \in Tab
    BY <1>0, TabType, LoadedType
  <2> QED BY <1>0, <2>1, TabType DEF Loaded, Tab
<1> HIDE DEF loaded
<1>3. tab'[t].synced = req[t].graph /\ tab'[t].revision = req[t].rev
  <2>1. tab'[t] = loaded \/ tab'[t] = [loaded EXCEPT !.past = past, !.unconfirmed = save]
    BY <1>0, <1>1, TabUpdated
  <2> QED BY <1>2, <2>1 DEF Tab
<1> QED BY <1>0, <1>3, AnswersAreCurrent DEF Stored

LEMMA ReplaceIsStored ==
  ASSUME Held, NEW t \in Clients, Stored(t), Replace(t)
  PROVE  Stored(t)'
<1>0. TypeOK /\ RequestOK(t) /\ AutosaveTypes /\ log' = log
  BY TypesAre, TabStepKeepsLog DEF Held, IInv, TabOK, OneTab, CanvasChanges
<1>1. ASSUME tab' = [tab EXCEPT ![t] = Finished(t)], fresh' = [fresh EXCEPT ![t] = @]
      PROVE  Stored(t)'
  BY <1>0, <1>1, SameIsStored, TabUpdated, FinishedFields DEF AutosaveTypes
<1>2. req[t].stage = "done" /\ req[t].status = "ok" => req[t].found
  BY <1>0 DEF RequestOK
<1>3. CASE AdoptLatest(t)
  BY <1>0, <1>3, TakenIsStored DEF AdoptLatest, HasLatest
<1>4. CASE FinishSync(t) /\ TakenIf(t, SyncLoads(t))
  <2>1. CASE SyncLoads(t)
    BY <1>0, <1>2, <1>4, <2>1, TakenIsStored DEF FinishSync, SyncLoads, Answered
  <2>2. CASE ~SyncLoads(t)
    BY <1>1, <1>4, <2>2 DEF FinishSync, TakenIf
  <2> QED BY <2>1, <2>2
<1>5. CASE FinishApply(t) /\ TakenIf(t, ApplyLoads(t))
  <2>1. CASE ApplyLoads(t)
    BY <1>0, <1>2, <1>5, <2>1, TakenIsStored DEF FinishApply, ApplyLoads, Answered
  <2>2. CASE ~ApplyLoads(t)
    BY <1>1, <1>5, <2>2 DEF FinishApply, TakenIf
  <2> QED BY <2>1, <2>2
<1>6. CASE FinishOpen(t) /\ TakenIf(t, OpenLoads(t))
  <2>1. CASE OpenLoads(t)
    BY <1>0, <1>2, <1>6, <2>1, TakenIsStored DEF FinishOpen, Answered
  <2>2. CASE ~OpenLoads(t)
    BY <1>1, <1>6, <2>2 DEF FinishOpen, TakenIf
  <2> QED BY <2>1, <2>2
<1> QED BY <1>3, <1>4, <1>5, <1>6 DEF Replace

\* Sending a save again: the revision is taken over without its graph.
LEMMA ContinueIsStored ==
  ASSUME Held, NEW t \in Clients, Stored(t), Continue(t)
  PROVE  Stored(t)'
<1>0. TypeOK /\ RequestOK(t) /\ AutosaveTypes /\ log' = log /\ tab[t] \in Tab
  BY TypesAre, TabType, TabStepKeepsLog DEF Held, IInv, TabOK, OneTab, SaveStarts
<1>1. CASE RetryAsOurs(t) /\ fresh' = [fresh EXCEPT ![t] = 0]
  <2>1. tab'[t] = [tab[t] EXCEPT !.unconfirmed = NoSave, !.revision = req[t].rev,
                                 !.mutation = "save", !.retried = TRUE]
    BY <1>0, <1>1, TabUpdated DEF RetryAsOurs
  <2>2. tab'[t].revision = req[t].rev /\ fresh'[t] = 0
    BY <1>0, <1>1, <2>1 DEF Tab, AutosaveTypes
  <2>3. 1 <= req[t].rev
    BY <1>0, <1>1 DEF RetryAsOurs, HasLatest, RequestOK
  <2> QED BY <2>2, <2>3 DEF Stored
<1>2. CASE FetchLatest(t) /\ UNCHANGED fresh
  <2>1. tab' = [tab EXCEPT ![t] = [tab[t] EXCEPT !.mutation = "latest"]]
    BY <1>2 DEF FetchLatest
  <2>2. tab'[t] = [tab[t] EXCEPT !.mutation = "latest"]
    BY <1>0, <2>1, TabUpdated
  <2>3. /\ tab'[t].status = tab[t].status /\ tab'[t].revision = tab[t].revision
        /\ tab'[t].synced = tab[t].synced
    BY <1>0, <2>2 DEF Tab
  <2> QED BY <1>0, <1>2, <2>3, SameIsStored
<1> QED BY <1>1, <1>2 DEF Continue

\* What the user does keeps the synced graph and its revision, or closes the build.
LEMMA UserIsStored ==
  ASSUME Held, NEW t \in Clients, Stored(t), EditCanvas(t) \/ CloseBuild(t)
  PROVE  Stored(t)'
<1>0. TypeOK /\ log' = log /\ tab[t] \in Tab /\ fresh' = fresh
  BY TypesAre, TabType, TabStepKeepsLog DEF Held, OneTab, CanvasChanges, EditCanvas, CloseBuild
<1>1. CASE CloseBuild(t)
  <2>1. tab'[t] = [Closed EXCEPT !.mutation = tab[t].mutation, !.retried = tab[t].retried]
    BY <1>0, <1>1, TabUpdated DEF CloseBuild, Close
  <2>2. tab'[t].status = "idle"
    BY <2>1 DEF Closed
  <2> QED BY <2>2 DEF Stored
<1>2. CASE EditCanvas(t)
  <2>1. PICK canvas, past, future :
          tab' = [tab EXCEPT ![t] = [tab[t] EXCEPT !.canvas = canvas, !.past = past, !.future = future]]
    BY <1>2 DEF EditCanvas, Edit, Undo, Redo
  <2>2. tab'[t] = [tab[t] EXCEPT !.canvas = canvas, !.past = past, !.future = future]
    BY <1>0, <2>1, TabUpdated
  <2>3. /\ tab'[t].status = tab[t].status /\ tab'[t].revision = tab[t].revision
        /\ tab'[t].synced = tab[t].synced
    BY <1>0, <2>2 DEF Tab
  <2> QED BY <1>0, <2>3, SameIsStored
<1> QED BY <1>1, <1>2

\* Starting a request keeps them, unless the build is loaded anew.
LEMMA StartIsStored ==
  ASSUME Held, NEW t \in Clients, Stored(t), fresh' = fresh, log' = log, StartStep(t)
  PROVE  Stored(t)'
<1>0. TypeOK /\ tab[t] \in Tab
  BY TypesAre, TabType DEF Held
<1>1. CASE tab[t].status # "ready" /\ StartOpen(t)
  <2>1. tab'[t] = [Closed EXCEPT !.status = "loading", !.synced = tab[t].synced, !.mutation = "open"]
    BY <1>0, <1>1, TabUpdated DEF StartOpen
  <2>2. tab'[t].status = "loading"
    BY <2>1 DEF Closed
  <2> QED BY <2>2 DEF Stored
<1>2. CASE \E op : tab' = [tab EXCEPT ![t] = [tab[t] EXCEPT !.mutation = op]]
  <2>1. PICK op : tab' = [tab EXCEPT ![t] = [tab[t] EXCEPT !.mutation = op]]
    BY <1>2
  <2>2. tab'[t] = [tab[t] EXCEPT !.mutation = op]
    BY <1>0, <2>1, TabUpdated
  <2>3. /\ tab'[t].status = tab[t].status /\ tab'[t].revision = tab[t].revision
        /\ tab'[t].synced = tab[t].synced
    BY <1>0, <2>2 DEF Tab
  <2> QED BY <2>3, SameIsStored
<1> QED BY <1>1, <1>2 DEF StartStep, StartSave, StartSync, StartOpen, StartApply

\* Whatever does not come, or is refused, leaves the canvas and its revision.
LEMMA GivenUpIsStored ==
  ASSUME Held, NEW t \in Clients, Stored(t), fresh' = fresh, log' = log,
         SaveFailed(t) \/ LossStep(t) \/ (SaveAccepted(t) /\ tab[t].status # "ready")
  PROVE  Stored(t)'
<1>0. TypeOK /\ Finished(t) \in Tab /\ Finished(t).status = tab[t].status
      /\ Finished(t).revision = tab[t].revision /\ Finished(t).synced = tab[t].synced
  BY TypesAre, FinishedFields DEF Held
<1>1. CASE \E save : tab' = [tab EXCEPT ![t] = [Finished(t) EXCEPT !.unconfirmed = save]]
  <2>1. PICK save : tab' = [tab EXCEPT ![t] = [Finished(t) EXCEPT !.unconfirmed = save]]
    BY <1>1
  <2>2. tab'[t] = [Finished(t) EXCEPT !.unconfirmed = save]
    BY <1>0, <2>1, TabUpdated
  <2>3. /\ tab'[t].status = tab[t].status /\ tab'[t].revision = tab[t].revision
        /\ tab'[t].synced = tab[t].synced
    BY <1>0, <2>2 DEF Tab
  <2> QED BY <2>3, SameIsStored
<1>2. CASE tab' = [tab EXCEPT ![t] = Finished(t)]
  BY <1>0, <1>2, TabUpdated, SameIsStored
<1>3. CASE tab' = [tab EXCEPT ![t] = Closed]
  <2>1. tab'[t] = Closed
    BY <1>0, <1>3, TabUpdated
  <2> QED BY <2>1 DEF Closed, Stored
<1>4. CASE tab' = [tab EXCEPT ![t] = [Finished(t) EXCEPT
                     !.status = IF tab[t].status = "loading" THEN "error" ELSE tab[t].status]]
  <2> DEFINE status == IF tab[t].status = "loading" THEN "error" ELSE tab[t].status
  <2>1. tab' = [tab EXCEPT ![t] = [Finished(t) EXCEPT !.status = status]]
    BY <1>4
  <2>2. status = "ready" => tab[t].status = "ready"
    OBVIOUS
  <2> HIDE DEF status
  <2>4. tab'[t] = [Finished(t) EXCEPT !.status = status]
    BY <1>0, <2>1, TabUpdated
  <2>3. /\ tab'[t].status = status /\ tab'[t].revision = tab[t].revision
        /\ tab'[t].synced = tab[t].synced
    BY <1>0, <2>4 DEF Tab
  <2> QED BY <2>2, <2>3, SameIsStored
<1> QED BY <1>1, <1>2, <1>3, <1>4 DEF SaveFailed, LossStep, SaveLost, OtherLost, OpenFailed, SaveAccepted

LEMMA OneTabIsStored ==
  ASSUME Held, NEW t \in Clients, Stored(t), OneTab(t)
  PROVE  Stored(t)'
<1>0. log' = log /\ AutosaveTypeOK
  BY TabStepKeepsLog DEF Held
<1>1. CASE TimerRuns(t) \/ PageChanges(t)
  <2>1. UNCHANGED <<vars, fresh>>
    BY <1>1, TimerRunsIsQuiet DEF TimerRuns, PageChanges, Check, Fire, Leave, Mount
  <2> QED BY <1>0, <2>1, SameIsStored DEF vars
<1>2. CASE StartQueued(t) \/ SaveNow(t) \/ Reopen(t) \/ StartOther(t)
  <2>1. fresh' = fresh /\ (StartStep(t) \/ UNCHANGED vars)
    BY <1>2 DEF StartQueued, SaveNow, Reopen, StartOther, autosaveVars, StartStep
  <2>2. CASE UNCHANGED vars
    BY <1>0, <2>1, <2>2, SameIsStored DEF vars
  <2> QED BY <1>0, <2>1, <2>2, StartIsStored
<1>3. CASE Continue(t)
  BY <1>3, ContinueIsStored
<1>4. CASE Accepted(t)
  <2>1. CASE tab[t].status = "ready"
    BY <1>4, <2>1, AcceptedIsStored
  <2>2. CASE tab[t].status # "ready"
    BY <1>0, <1>4, <2>2, GivenUpIsStored DEF Accepted
  <2> QED BY <2>1, <2>2
<1>5. CASE Failed(t) \/ Lost(t) \/ ReadLost(t)
  <2>1. fresh' = fresh /\ (SaveFailed(t) \/ LossStep(t))
    BY <1>5 DEF Failed, Lost, ReadLost, Unsaved, autosaveVars, LossStep
  <2> QED BY <1>0, <2>1, GivenUpIsStored
<1>6. CASE OpenFails(t)
  <2>1. mounted[t] \in BOOLEAN
    BY <1>0 DEF AutosaveTypeOK
  <2>2. fresh' = fresh /\ LossStep(t)
    BY <1>6, <2>1 DEF OpenFails, LossStep
  <2> QED BY <1>0, <2>2, GivenUpIsStored
<1>7. CASE EditCanvas(t) \/ CloseBuild(t)
  BY <1>7, UserIsStored
<1>8. CASE Replace(t)
  BY <1>8, ReplaceIsStored
<1> QED BY <1>1, <1>2, <1>3, <1>4, <1>5, <1>6, <1>7, <1>8
        DEF OneTab, SaveStarts, SaveEnds, CanvasChanges, OtherRuns

AllStored == \A t \in Clients : Stored(t)

LEMMA NextStored == Held /\ AllStored /\ [AutosaveNext]_allVars => AllStored'
<1> SUFFICES ASSUME Held, AllStored, [AutosaveNext]_allVars, NEW u \in Clients PROVE Stored(u)'
  BY DEF AllStored
<1>0. Stored(u) /\ AutosaveTypeOK
  BY DEF AllStored, Held
<1>1. CASE UNCHANGED allVars
  <2>1. log' = log /\ tab' = tab /\ fresh' = fresh
    BY <1>1 DEF allVars, vars, serverVars, autosaveVars
  <2> QED BY <1>0, <2>1, SameIsStored
<1>2. CASE Background
  BY <1>0, <1>2, BackgroundIsStored DEF Background, autosaveVars
<1>3. ASSUME NEW t \in Clients, OneTab(t) PROVE Stored(u)'
  <2>1. CASE u = t
    BY <1>0, <1>3, <2>1, OneTabIsStored
  <2>2. CASE u # t
    <3>1. Untouched(u) /\ log' = log
      BY <1>0, <1>3, <2>2, OthersUntouched, TabStepKeepsLog
    <3> QED BY <1>0, <3>1, SameIsStored DEF Untouched
  <2> QED BY <2>1, <2>2
<1> QED BY <1>1, <1>2, <1>3, Grouped

LEMMA InitStored == AutosaveInit => AllStored
  BY DEF AutosaveInit, Init, Closed, AllStored, Stored

LEMMA SpecHeld == AutosaveSpec => []Held
<1>1. Scheduled => AutosaveTypeOK
  BY DEF Scheduled
<1>2. Spec => []IInv
  BY InitIInv, NextIInv, PTL DEF Spec
<1>3. AutosaveTypeOK /\ IInv <=> Held
  BY DEF Held
<1> QED BY <1>1, <1>2, <1>3, SpecScheduled, AutosaveIsAStore, PTL

LEMMA SpecStored == AutosaveSpec => []AllStored
  BY SpecHeld, InitStored, NextStored, PTL DEF AutosaveSpec

\* Once nothing waits or is about to replace the canvas, "saved" stands over devices and
\* cables that the server holds, or held until somebody saved a newer revision
\* (refreshSaveState, the answer to a save); tabs that went on to a revision without its
\* graph are left out, as the property says.
THEOREM HeaderIsHonest == AutosaveSpec => []SavedMeansStored
<1>1. Scheduled /\ Held /\ AllStored => SavedMeansStored
  <2> SUFFICES ASSUME Scheduled, Held, AllStored, NEW t \in Clients,
                      mounted[t], tab[t].status = "ready", saveState[t] = "saved", ~checkDue[t],
                      queued[t] = "none", ~opening[t], tab[t].mutation # "open",
                      fresh[t] = tab[t].revision, ~(tab[t].revision < Revision)
               PROVE  Shape(tab[t].canvas) = Shape(Graph)
    BY DEF SavedMeansStored
  <2>1. tab[t].canvas = tab[t].synced
    BY DEF Scheduled, Honest, Dirty
  <2>2. tab[t].revision = Len(log)
    <3>1. TypeOK /\ ReadyOK(t) /\ Len(log) \in Nat /\ tab[t].revision \in Nat
      BY TabType, LogFacts DEF Held, IInv, TabOK
    <3> QED BY <3>1 DEF ReadyOK, Known
  <2> QED BY <2>1, <2>2 DEF AllStored, Stored
<1> QED BY <1>1, SpecScheduled, SpecHeld, SpecStored, PTL

=============================================================================
