--------------------------- MODULE AssistantProofs ---------------------------
(***************************************************************************)
(* What holds of the conversations with the assistant, for any number of   *)
(* tabs, calls, steps, messages and proposals: one turn at a time, no call *)
(* without its result, the model is sent what is stored but for what the   *)
(* database cannot hold, and a decision is told once, by the next message. *)
(***************************************************************************)
EXTENDS Assistant, TLAPS, FiniteSetTheorems, WellFoundedInduction

-----------------------------------------------------------------------------
(* The function a conversation is rebuilt with.                             *)

LEMMA Counting ==
  ASSUME NEW S, 0 \in S, \A n \in Nat : n \in S => n + 1 \in S
  PROVE  Nat \subseteq S
<1> DEFINE R == {ss \in Nat \X Nat : ss[1] < ss[2]}
<1>1. IsWellFoundedOn(R, Nat)
  BY NatLessThanWellFounded DEF OpToRel
<1>2. SUFFICES ASSUME Nat \ S # {} PROVE FALSE
  OBVIOUS
<1>3. PICK x \in Nat \ S : \A y \in Nat \ S : ~(<<y, x>> \in R)
  <2> HIDE DEF R
  <2> QED BY <1>1, <1>2, WFMin
<1>4. x # 0 /\ x - 1 \in Nat /\ (x - 1) + 1 = x
  BY <1>3
<1>5. <<x - 1, x>> \in R
  BY <1>3, <1>4
<1>6. x - 1 \in S
  <2> HIDE DEF R
  <2> QED BY <1>3, <1>4, <1>5
<1> QED BY <1>3, <1>4, <1>6

\* A function that rebuilds the first n rows.
Rebuilds(f, rows, n) ==
  f = [i \in 0 .. n |-> IF i = 0 THEN <<>> ELSE Extended(f[i-1], Said(rows, i))]

LEMMA RebuildsExists ==
  ASSUME NEW rows
  PROVE  \A n \in Nat : \E f : Rebuilds(f, rows, n)
<1> DEFINE S == {n \in Nat : \E f : Rebuilds(f, rows, n)}
<1>1. 0 \in S
  <2>1. Rebuilds([i \in 0 .. 0 |-> <<>>], rows, 0)
    BY DEF Rebuilds
  <2> QED BY <2>1
<1>2. ASSUME NEW n \in Nat, n \in S PROVE n + 1 \in S
  <2>1. PICK f : Rebuilds(f, rows, n)
    BY <1>2
  <2> DEFINE g == [i \in 0 .. n + 1 |-> IF i \in 0 .. n THEN f[i] ELSE Extended(f[n], Said(rows, i))]
  <2>2. \A i \in 0 .. n : g[i] = f[i]
    OBVIOUS
  <2>3. \A i \in 0 .. n : f[i] = IF i = 0 THEN <<>> ELSE Extended(f[i-1], Said(rows, i))
    BY <2>1 DEF Rebuilds
  <2>4. \A i \in 0 .. n + 1 : g[i] = IF i = 0 THEN <<>> ELSE Extended(g[i-1], Said(rows, i))
    <3>1. ASSUME NEW i \in 0 .. n, i # 0
          PROVE  g[i] = Extended(g[i-1], Said(rows, i))
      <4>1. i - 1 \in 0 .. n
        BY <3>1
      <4> QED BY <3>1, <4>1, <2>2, <2>3
    <3>2. g[0] = <<>>
      BY <2>2, <2>3
    <3>3. g[n+1] = Extended(f[n], Said(rows, n + 1))
      OBVIOUS
    <3>4. g[n+1] = Extended(g[(n+1)-1], Said(rows, n + 1))
      BY <3>3, <2>2
    <3>5. \A i \in 0 .. n + 1 : i \in 0 .. n \/ i = n + 1
      OBVIOUS
    <3> HIDE DEF g
    <3> QED BY <3>1, <3>2, <3>4, <3>5
  <2>5. g = [i \in 0 .. n + 1 |-> g[i]]
    OBVIOUS
  <2>6. Rebuilds(g, rows, n + 1)
    <3> HIDE DEF g
    <3> QED BY <2>4, <2>5 DEF Rebuilds
  <2> QED BY <2>6
<1>3. Nat \subseteq S
  <2> HIDE DEF S
  <2> QED BY <1>1, <1>2, Counting
<1> QED BY <1>3

\* Row by row.
LEMMA RowByRow ==
  ASSUME NEW rows, Len(rows) \in Nat
  PROVE  /\ Rebuilt(rows)[0] = <<>>
         /\ \A i \in 1 .. Len(rows) :
              Rebuilt(rows)[i] = Extended(Rebuilt(rows)[i-1], Said(rows, i))
<1>1. Rebuilt(rows) = CHOOSE f : Rebuilds(f, rows, Len(rows))
  BY DEF Rebuilt, Rebuilds
<1>2. Rebuilds(Rebuilt(rows), rows, Len(rows))
  BY <1>1, RebuildsExists
<1> DEFINE f == Rebuilt(rows)
<1>3. f = [i \in 0 .. Len(rows) |-> IF i = 0 THEN <<>> ELSE Extended(f[i-1], Said(rows, i))]
  BY <1>2 DEF Rebuilds
<1> QED
  <2> HIDE DEF f
  <2>1. f[0] = <<>> /\ \A i \in 1 .. Len(rows) : f[i] = Extended(f[i-1], Said(rows, i))
    BY <1>3
  <2> QED BY <2>1 DEF f

\* What is rebuilt row by row is a sequence of messages.
LEMMA ConversationType ==
  ASSUME NEW rows \in Seq(Row)
  PROVE  /\ \A i \in 0 .. Len(rows) : Rebuilt(rows)[i] \in Seq(Message)
         /\ Conversation(rows) \in Seq(Message)
<1> DEFINE S == {n \in Nat : n <= Len(rows) => Rebuilt(rows)[n] \in Seq(Message)}
<1>1. 0 \in S
  <2>1. Rebuilt(rows)[0] = <<>>
    BY RowByRow
  <2>2. <<>> \in Seq(Message)
    OBVIOUS
  <2> QED BY <2>1, <2>2
<1>2. ASSUME NEW n \in Nat, n \in S PROVE n + 1 \in S
  <2>1. SUFFICES ASSUME n + 1 <= Len(rows) PROVE Rebuilt(rows)[n+1] \in Seq(Message)
    OBVIOUS
  <2>2. Rebuilt(rows)[n] \in Seq(Message)
    BY <1>2, <2>1
  <2>3. n + 1 \in 1 .. Len(rows) /\ (n + 1) - 1 = n
    BY <2>1
  <2>4. rows[n+1] \in Row
    BY <2>3
  <2>5. Said(rows, n + 1) \in Message
    BY <2>4 DEF Said, Kept, MessageOf, Row, Message
  <2>6. Rebuilt(rows)[n+1] = Extended(Rebuilt(rows)[n], Said(rows, n + 1))
    BY <2>3, RowByRow
  <2> QED BY <2>2, <2>5, <2>6 DEF Extended
<1>3. Nat \subseteq S
  <2> HIDE DEF S
  <2> QED BY <1>1, <1>2, Counting
<1>4. \A i \in 0 .. Len(rows) : Rebuilt(rows)[i] \in Seq(Message)
  BY <1>3
<1> QED BY <1>4 DEF Conversation

-----------------------------------------------------------------------------
(* What the database can hold.                                              *)

Clean(m) == ~m.nul /\ m.text # "nuls"

\* A conversation as its rows would be stored.
Stripped(conversation) == [i \in DOMAIN conversation |-> AsStored(conversation[i])]

LEMMA Appended ==
  ASSUME NEW S, NEW s \in Seq(S), NEW e \in S
  PROVE  /\ Append(s, e) \in Seq(S) /\ Append(s, e) # <<>> /\ Len(Append(s, e)) = Len(s) + 1
         /\ Append(s, e)[Len(s) + 1] = e /\ Append(s, e)[Len(Append(s, e))] = e
         /\ \A i \in 1 .. Len(s) : Append(s, e)[i] = s[i]
  OBVIOUS

LEMMA SameMessage ==
  ASSUME NEW a \in Message, NEW b \in Message, a.role = b.role, a.text = b.text,
         a.calls = b.calls, a.native = b.native, a.nul = b.nul
  PROVE  a = b
  BY DEF Message

LEMMA SameRow ==
  ASSUME NEW a \in Row, NEW b \in Row, a.role = b.role, a.text = b.text, a.calls = b.calls,
         a.native = b.native, a.nul = b.nul, a.interrupted = b.interrupted,
         a.told = b.told, a.blind = b.blind
  PROVE  a = b
  BY DEF Row

LEMMA AsStoredMessage ==
  ASSUME NEW m \in Message
  PROVE  AsStored(m) \in Message /\ (Clean(m) => AsStored(m) = m)
<1>1. AsStored(m) \in Message
  BY DEF AsStored, Message, Text
<1>2. ASSUME Clean(m) PROVE AsStored(m) = m
  BY <1>2 DEF AsStored, Message, Clean
<1> QED BY <1>1, <1>2

LEMMA AsStoredRow ==
  ASSUME NEW row \in Row
  PROVE  /\ AsStored(row) \in Row /\ Clean(AsStored(row))
         /\ AsStored(row).role = row.role /\ AsStored(row).calls = row.calls
         /\ AsStored(row).native \subseteq row.native
         /\ AsStored(row).interrupted = row.interrupted
         /\ AsStored(row).told = row.told /\ AsStored(row).blind = row.blind
         /\ MessageOf(row) \in Message /\ MessageOf(AsStored(row)) = AsStored(MessageOf(row))
<1>1. AsStored(row) \in Row
  BY DEF AsStored, Row, Text
<1>2. /\ AsStored(row).role = row.role /\ AsStored(row).calls = row.calls
      /\ AsStored(row).native = (IF row.nul THEN {} ELSE row.native)
      /\ AsStored(row).interrupted = row.interrupted
      /\ AsStored(row).told = row.told /\ AsStored(row).blind = row.blind
      /\ AsStored(row).text = (IF row.text = "nuls" THEN "none" ELSE row.text)
      /\ AsStored(row).nul = FALSE
  BY DEF AsStored, Row
<1>3. MessageOf(row) \in Message
  BY DEF MessageOf, Row, Message
<1>4. MessageOf(AsStored(row)) = AsStored(MessageOf(row))
  <2> DEFINE m == MessageOf(row)
             a == MessageOf(AsStored(row))
             b == AsStored(m)
  <2>1. /\ a \in Message /\ a.role = row.role /\ a.calls = row.calls /\ a.nul = FALSE
        /\ a.text = (IF row.text = "nuls" THEN "none" ELSE row.text)
        /\ a.native = (IF row.nul THEN {} ELSE row.native)
    BY <1>1, <1>2 DEF MessageOf, Row, Message
  <2>2. /\ m.role = row.role /\ m.text = row.text /\ m.calls = row.calls
        /\ m.native = row.native /\ m.nul = row.nul
    BY DEF MessageOf
  <2> HIDE DEF m
  <2>3. /\ b \in Message /\ b.role = m.role /\ b.calls = m.calls /\ b.nul = FALSE
        /\ b.text = (IF m.text = "nuls" THEN "none" ELSE m.text)
        /\ b.native = (IF m.nul THEN {} ELSE m.native)
    BY <1>3, AsStoredMessage DEF AsStored, Message, m
  <2> HIDE DEF a, b
  <2>4. a = b
    BY <2>1, <2>2, <2>3, SameMessage
  <2> QED BY <2>4 DEF a, b, m
<1> QED BY <1>1, <1>2, <1>3, <1>4 DEF Clean

LEMMA StrippedMore ==
  ASSUME NEW c \in Seq(Message), NEW m \in Message
  PROVE  Stripped(Append(c, m)) = Append(Stripped(c), AsStored(m))
<1> DEFINE d == Append(c, m)
           e == Append(Stripped(c), AsStored(m))
<1>1. /\ DOMAIN d = 1 .. Len(c) + 1 /\ d[Len(c) + 1] = m /\ Len(c) \in Nat
      /\ \A i \in 1 .. Len(c) : d[i] = c[i]
  OBVIOUS
<1>2. Stripped(c) = [i \in 1 .. Len(c) |-> AsStored(c[i])] /\ \A i \in 1 .. Len(c) : c[i] \in Message
  BY DEF Stripped
<1>3. Stripped(c) \in Seq(Message) /\ Len(Stripped(c)) = Len(c)
  BY <1>1, <1>2, AsStoredMessage
<1>4. e = [i \in 1 .. Len(c) + 1 |-> IF i = Len(c) + 1 THEN AsStored(m) ELSE AsStored(c[i])]
  BY <1>1, <1>2, <1>3, AsStoredMessage
<1> HIDE DEF d, e
<1>5. Stripped(d) = [i \in 1 .. Len(c) + 1 |-> AsStored(d[i])]
  BY <1>1 DEF Stripped
<1>6. \A i \in 1 .. Len(c) + 1 :
        AsStored(d[i]) = IF i = Len(c) + 1 THEN AsStored(m) ELSE AsStored(c[i])
  BY <1>1
<1>7. Stripped(d) = e
  BY <1>4, <1>5, <1>6
<1> QED BY <1>7 DEF d, e

\* What is rebuilt from clean rows is clean.
LEMMA CleanConversation ==
  ASSUME NEW rows \in Seq(Row), \A i \in DOMAIN rows : Clean(rows[i])
  PROVE  Stripped(Conversation(rows)) = Conversation(rows)
<1> DEFINE S == {n \in Nat : n <= Len(rows) => \A i \in DOMAIN Rebuilt(rows)[n] : Clean(Rebuilt(rows)[n][i])}
<1>1. 0 \in S
  BY RowByRow
<1>2. ASSUME NEW n \in Nat, n \in S PROVE n + 1 \in S
  <2> DEFINE c == Rebuilt(rows)[n]
             said == Said(rows, n + 1)
  <2>1. SUFFICES ASSUME n + 1 <= Len(rows)
        PROVE  \A i \in DOMAIN Rebuilt(rows)[n+1] : Clean(Rebuilt(rows)[n+1][i])
    OBVIOUS
  <2>2. c \in Seq(Message) /\ \A i \in DOMAIN c : Clean(c[i])
    <3>1. n \in 0 .. Len(rows)
      BY <2>1
    <3> QED BY <1>2, <2>1, <3>1, ConversationType
  <2>3. n + 1 \in 1 .. Len(rows) /\ (n + 1) - 1 = n
    BY <2>1
  <2>4. rows[n+1] \in Row /\ Clean(rows[n+1])
    BY <2>3
  <2>5. said \in Message /\ Clean(said)
    BY <2>4 DEF Said, Kept, MessageOf, Row, Message, Clean
  <2>6. Rebuilt(rows)[n+1] = Extended(c, said)
    BY <2>3, RowByRow
  <2> HIDE DEF c, said
  <2>7. /\ DOMAIN Append(c, said) = 1 .. Len(c) + 1 /\ DOMAIN c = 1 .. Len(c) /\ Len(c) \in Nat
        /\ Append(c, said)[Len(c) + 1] = said
        /\ \A i \in 1 .. Len(c) : Append(c, said)[i] = c[i]
    BY <2>2, <2>5
  <2>8. \A i \in DOMAIN Append(c, said) : Clean(Append(c, said)[i])
    BY <2>2, <2>5, <2>7
  <2> QED BY <2>2, <2>6, <2>8 DEF Extended
<1>3. Nat \subseteq S
  <2> HIDE DEF S
  <2> QED BY <1>1, <1>2, Counting
<1> DEFINE conv == Conversation(rows)
<1>4. conv \in Seq(Message) /\ \A i \in DOMAIN conv : Clean(conv[i])
  BY <1>3, ConversationType DEF Conversation
<1> HIDE DEF conv
<1>5. conv = [i \in DOMAIN conv |-> conv[i]] /\ \A i \in DOMAIN conv : conv[i] \in Message
  BY <1>4
<1>6. \A i \in DOMAIN conv : AsStored(conv[i]) = conv[i]
  BY <1>4, <1>5, AsStoredMessage
<1>7. Stripped(conv) = conv
  BY <1>5, <1>6 DEF Stripped
<1> QED BY <1>7 DEF conv

-----------------------------------------------------------------------------
(* Every call is answered, in whatever was stored.                          *)

\* Results are stored after the reply that asked for them, and what was cut
\* off has no calls.
PairedAt(rows, i) ==
  /\ rows[i].role = "assistant" => /\ rows[i].native \subseteq rows[i].calls
                                   /\ rows[i].interrupted => rows[i].calls = {}
  /\ rows[i].role = "tool" =>
       /\ i > 1 /\ rows[i-1].role = "assistant" /\ ~rows[i-1].interrupted
       /\ rows[i-1].calls = rows[i].calls /\ rows[i].calls # {}

Paired(rows) == \A i \in DOMAIN rows : PairedAt(rows, i)

\* Row i is a reply whose results come next.
Waits(rows, i) ==
  /\ i > 0 /\ rows[i].role = "assistant" /\ rows[i].calls # {}
  /\ Answered(rows, i) /\ ~rows[i].interrupted

\* The rows up to i are replayable, the results of the last still to come or not.
ReplayableTo(rows, i) ==
  IF Waits(rows, i)
  THEN \E c \in Seq(Message) :
         Replayable(c) /\ Rebuilt(rows)[i] = Append(c, MessageOf(rows[i]))
  ELSE Replayable(Rebuilt(rows)[i])

AnsweredAt(c, i) ==
  /\ c[i].role = "assistant" /\ c[i].calls \cup c[i].native # {} =>
       /\ i < Len(c) /\ c[i+1].role = "tool"
       /\ c[i+1].calls = c[i].calls /\ c[i].native \subseteq c[i].calls
  /\ c[i].role = "tool" => i > 1 /\ c[i-1].calls = c[i].calls

LEMMA ReplayableParts ==
  ASSUME NEW c \in Seq(Message)
  PROVE  Replayable(c) <=> \A i \in 1 .. Len(c) : AnsweredAt(c, i)
  BY DEF Replayable, AnsweredAt

\* A later message leaves the answered ones alone.
LEMMA AnsweredStays ==
  ASSUME NEW c \in Seq(Message), NEW d \in Seq(Message), Replayable(c),
         Len(c) <= Len(d), \A i \in 1 .. Len(c) : d[i] = c[i]
  PROVE  \A i \in 1 .. Len(c) : AnsweredAt(d, i)
<1> SUFFICES ASSUME NEW i \in 1 .. Len(c) PROVE AnsweredAt(d, i)
  OBVIOUS
<1>1. AnsweredAt(c, i)
  BY ReplayableParts
<1>2. d[i] = c[i] /\ (i < Len(c) => i < Len(d) /\ d[i+1] = c[i+1]) /\ (i > 1 => d[i-1] = c[i-1])
  OBVIOUS
<1> QED BY <1>1, <1>2 DEF AnsweredAt

LEMMA ReplayableMore ==
  ASSUME NEW c \in Seq(Message), Replayable(c), NEW m \in Message,
         m.role # "tool", m.role = "assistant" => m.calls = {} /\ m.native = {}
  PROVE  Replayable(Append(c, m))
<1> DEFINE d == Append(c, m)
<1>1. d \in Seq(Message) /\ Len(d) = Len(c) + 1 /\ d[Len(c) + 1] = m
      /\ \A i \in 1 .. Len(c) : d[i] = c[i]
  OBVIOUS
<1> HIDE DEF d
<1>2. \A i \in 1 .. Len(c) : AnsweredAt(d, i)
  BY <1>1, AnsweredStays
<1>3. AnsweredAt(d, Len(c) + 1)
  BY <1>1 DEF AnsweredAt
<1>4. Replayable(d)
  BY <1>1, <1>2, <1>3, ReplayableParts
<1> QED BY <1>4 DEF d

LEMMA ReplayablePair ==
  ASSUME NEW c \in Seq(Message), Replayable(c), NEW a \in Message, NEW m \in Message,
         a.role = "assistant", a.native \subseteq a.calls,
         m.role = "tool", m.calls = a.calls
  PROVE  Replayable(Append(Append(c, a), m))
<1> DEFINE d == Append(Append(c, a), m)
<1>1. d \in Seq(Message) /\ Len(d) = Len(c) + 2 /\ d[Len(c) + 1] = a /\ d[Len(c) + 2] = m
      /\ \A i \in 1 .. Len(c) : d[i] = c[i]
  OBVIOUS
<1> HIDE DEF d
<1>2. \A i \in 1 .. Len(c) : AnsweredAt(d, i)
  BY <1>1, AnsweredStays
<1>3. AnsweredAt(d, Len(c) + 1)
  BY <1>1 DEF AnsweredAt
<1>4. AnsweredAt(d, Len(c) + 2)
  BY <1>1 DEF AnsweredAt
<1>5. Replayable(d)
  BY <1>1, <1>2, <1>3, <1>4, ReplayableParts
<1> QED BY <1>5 DEF d

\* One row more.
LEMMA ReplayableStep ==
  ASSUME NEW rows \in Seq(Row), Paired(rows), NEW i \in 0 .. Len(rows) - 1, ReplayableTo(rows, i)
  PROVE  ReplayableTo(rows, i + 1)
<1> DEFINE before == Rebuilt(rows)[i]
           after  == Rebuilt(rows)[i+1]
           row    == rows[i+1]
           said   == Said(rows, i + 1)
<1>1. /\ i + 1 \in 1 .. Len(rows) /\ (i + 1) - 1 = i /\ i + 1 > 0
      /\ row \in Row /\ PairedAt(rows, i + 1) /\ before \in Seq(Message)
  BY ConversationType DEF Paired
<1>2. after = Extended(before, said)
  BY <1>1, RowByRow
<1>3. MessageOf(row) \in Message /\ said \in Message /\ said.role = row.role
  BY <1>1 DEF Said, Kept, MessageOf, Row, Message
<1>4. CASE row.role = "tool"
  <2>1. /\ i > 0 /\ rows[i].role = "assistant" /\ ~rows[i].interrupted
        /\ rows[i].calls = row.calls /\ row.calls # {} /\ rows[i] \in Row
        /\ rows[i].native \subseteq rows[i].calls
    BY <1>1, <1>4 DEF PairedAt, Paired
  <2>2. Waits(rows, i)
    BY <1>1, <1>4, <2>1 DEF Waits, Answered
  <2>3. PICK c \in Seq(Message) : Replayable(c) /\ before = Append(c, MessageOf(rows[i]))
    BY <2>2 DEF ReplayableTo
  <2>4. said = MessageOf(row)
    BY <1>4 DEF Said
  <2>5. /\ MessageOf(rows[i]) \in Message /\ MessageOf(rows[i]).role = "assistant"
        /\ MessageOf(rows[i]).calls = row.calls /\ MessageOf(rows[i]).native \subseteq row.calls
        /\ said.calls = row.calls
    <3>1. /\ MessageOf(rows[i]).role = rows[i].role /\ MessageOf(rows[i]).calls = rows[i].calls
          /\ MessageOf(rows[i]).native = rows[i].native /\ said.calls = row.calls
      BY <2>4 DEF MessageOf
    <3>2. MessageOf(rows[i]) \in Message
      BY <2>1, AsStoredRow
    <3> QED BY <2>1, <3>1, <3>2
  <2>6. before # <<>> /\ before[Len(before)] = MessageOf(rows[i])
    BY <2>3, <2>5, Appended
  <2>7. ~Skipped(said, before)
    BY <1>3, <1>4, <2>1, <2>5, <2>6 DEF Skipped
  <2>8. after = Append(Append(c, MessageOf(rows[i])), said)
    BY <1>2, <2>3, <2>7 DEF Extended
  <2>9. Replayable(after)
    BY <1>3, <1>4, <2>3, <2>5, <2>8, ReplayablePair
  <2> QED BY <1>4, <2>9 DEF ReplayableTo, Waits
<1>5. CASE row.role # "tool"
  <2>1. ~Waits(rows, i)
    BY <1>5 DEF Waits, Answered
  <2>2. Replayable(before)
    BY <2>1 DEF ReplayableTo
  <2>3. CASE row.role = "user"
    <3>1. after = Append(before, said)
      BY <1>2, <1>3, <2>3 DEF Extended, Skipped
    <3>2. Replayable(Append(before, said))
      <4>1. said \in Message /\ said.role = "user" /\ before \in Seq(Message)
        BY <1>1, <1>3, <2>3
      <4> HIDE DEF before, said
      <4> QED BY <2>2, <4>1, ReplayableMore
    <3>3. Replayable(after)
      BY <3>1, <3>2
    <3> QED BY <2>3, <3>3 DEF ReplayableTo, Waits
  <2>4. CASE row.role = "assistant"
    <3>1. CASE Waits(rows, i + 1)
      <4>1. said = MessageOf(row) /\ said.calls # {}
        BY <2>4, <3>1 DEF Said, Kept, Waits, MessageOf
      <4>2. after = Append(before, said)
        BY <1>2, <1>3, <2>4, <4>1 DEF Extended, Skipped
      <4> QED BY <1>1, <2>2, <3>1, <4>1, <4>2 DEF ReplayableTo
    <3>2. CASE ~Waits(rows, i + 1)
      <4>1. said.calls = {} /\ said.native = {}
        BY <1>1, <2>4, <3>2 DEF Said, Kept, Waits, MessageOf, PairedAt, Row
      <4>2. Replayable(Append(before, said))
        <5> HIDE DEF before, said
        <5> QED BY <1>1, <1>3, <2>2, <2>4, <4>1, ReplayableMore
      <4>3. Replayable(after)
        BY <1>2, <2>2, <4>2 DEF Extended
      <4> QED BY <3>2, <4>3 DEF ReplayableTo
    <3> QED BY <3>1, <3>2
  <2>5. row.role \in {"user", "assistant", "tool"}
    BY <1>1 DEF Row
  <2> QED BY <1>5, <2>3, <2>4, <2>5
<1> QED BY <1>4, <1>5

LEMMA PairedReplays ==
  ASSUME NEW rows \in Seq(Row), Paired(rows)
  PROVE  Replayable(Conversation(rows))
<1> DEFINE S == {n \in Nat : n <= Len(rows) => ReplayableTo(rows, n)}
<1>1. 0 \in S
  <2>1. Rebuilt(rows)[0] = <<>> /\ ~Waits(rows, 0)
    BY RowByRow DEF Waits
  <2> QED BY <2>1 DEF ReplayableTo, Replayable
<1>2. ASSUME NEW n \in Nat, n \in S PROVE n + 1 \in S
  <2>1. SUFFICES ASSUME n + 1 <= Len(rows) PROVE ReplayableTo(rows, n + 1)
    OBVIOUS
  <2>2. ReplayableTo(rows, n) /\ n \in 0 .. Len(rows) - 1
    BY <1>2, <2>1
  <2> QED BY <2>2, ReplayableStep
<1>3. Nat \subseteq S
  <2> HIDE DEF S
  <2> QED BY <1>1, <1>2, Counting
<1>4. ReplayableTo(rows, Len(rows))
  BY <1>3
<1>5. ~Waits(rows, Len(rows))
  BY DEF Waits, Answered
<1> QED BY <1>4, <1>5 DEF ReplayableTo, Conversation

-----------------------------------------------------------------------------
(* What a turn sends is what is rebuilt from the rows it has stored.        *)

\* Nothing that comes after these rows changes what is rebuilt from them.
Closed(rows) == rows # <<>> /\ rows[Len(rows)].role # "assistant"

LEMMA SameStart ==
  ASSUME NEW rows \in Seq(Row), NEW more \in Seq(Row), Closed(rows),
         Len(rows) <= Len(more), \A i \in 1 .. Len(rows) : more[i] = rows[i]
  PROVE  \A i \in 0 .. Len(rows) : Rebuilt(more)[i] = Rebuilt(rows)[i]
<1> DEFINE S == {n \in Nat : n <= Len(rows) => Rebuilt(more)[n] = Rebuilt(rows)[n]}
<1>1. 0 \in S
  BY RowByRow
<1>2. ASSUME NEW n \in Nat, n \in S PROVE n + 1 \in S
  <2>1. SUFFICES ASSUME n + 1 <= Len(rows) PROVE Rebuilt(more)[n+1] = Rebuilt(rows)[n+1]
    OBVIOUS
  <2>2. /\ n + 1 \in 1 .. Len(rows) /\ n + 1 \in 1 .. Len(more) /\ (n + 1) - 1 = n
        /\ more[n+1] = rows[n+1] /\ rows[n+1] \in Row
    BY <2>1
  <2>3. Said(more, n + 1) = Said(rows, n + 1)
    <3>1. CASE n + 1 < Len(rows)
      <4>1. more[(n+1)+1] = rows[(n+1)+1] /\ n + 1 < Len(more)
        BY <2>2, <3>1
      <4> QED BY <2>2, <3>1, <4>1 DEF Said, Kept, Answered
    <3>2. CASE n + 1 = Len(rows)
      BY <2>2, <3>2 DEF Said, Closed
    <3> QED BY <2>1, <3>1, <3>2
  <2>4. Rebuilt(more)[n] = Rebuilt(rows)[n]
    BY <1>2, <2>1
  <2>5. /\ Rebuilt(more)[n+1] = Extended(Rebuilt(more)[n], Said(more, n + 1))
        /\ Rebuilt(rows)[n+1] = Extended(Rebuilt(rows)[n], Said(rows, n + 1))
    BY <2>2, RowByRow
  <2> QED BY <2>3, <2>4, <2>5
<1>3. Nat \subseteq S
  <2> HIDE DEF S
  <2> QED BY <1>1, <1>2, Counting
<1> QED BY <1>3

\* A reply with calls and their results are two messages more.
LEMMA TwoMore ==
  ASSUME NEW rows \in Seq(Row), Closed(rows), NEW reply \in Row, NEW result \in Row,
         reply.role = "assistant", reply.calls # {}, ~reply.interrupted,
         result.role = "tool", result.calls = reply.calls
  PROVE  Conversation(Append(Append(rows, reply), result))
           = Append(Append(Conversation(rows), MessageOf(reply)), MessageOf(result))
<1> DEFINE more == Append(Append(rows, reply), result)
           n    == Len(rows)
<1>1. /\ more \in Seq(Row) /\ Len(more) = n + 2 /\ more[n+1] = reply /\ more[n+2] = result
      /\ \A i \in 1 .. n : more[i] = rows[i]
      /\ n \in Nat
  <2> DEFINE one == Append(rows, reply)
  <2>1. /\ one \in Seq(Row) /\ Len(one) = n + 1 /\ one[n+1] = reply /\ n \in Nat
        /\ \A i \in 1 .. n : one[i] = rows[i]
    BY Appended
  <2>2. more = Append(one, result)
    OBVIOUS
  <2> HIDE DEF one, n, more
  <2>3. /\ more \in Seq(Row) /\ Len(more) = Len(one) + 1 /\ more[Len(one) + 1] = result
        /\ \A i \in 1 .. Len(one) : more[i] = one[i]
    BY <2>1, <2>2, Appended
  <2>4. n + 1 \in 1 .. Len(one) /\ \A i \in 1 .. n : i \in 1 .. Len(one)
    BY <2>1
  <2> QED BY <2>1, <2>3, <2>4
<1> HIDE DEF more, n
<1>2. Rebuilt(more)[n] = Conversation(rows)
  <2>1. n = Len(rows) /\ Len(rows) <= Len(more) /\ Len(rows) \in 0 .. Len(rows)
    BY <1>1 DEF n
  <2>2. \A i \in 0 .. Len(rows) : Rebuilt(more)[i] = Rebuilt(rows)[i]
    BY <1>1, <2>1, SameStart
  <2> QED BY <2>1, <2>2 DEF Conversation
<1>3. Said(more, n + 1) = MessageOf(reply)
  <2>1. Answered(more, n + 1)
    BY <1>1 DEF Answered
  <2> QED BY <1>1, <2>1 DEF Said, Kept
<1>4. Said(more, n + 2) = MessageOf(result)
  BY <1>1 DEF Said
<1>5. /\ Rebuilt(more)[n+1] = Extended(Rebuilt(more)[n], Said(more, n + 1))
      /\ Rebuilt(more)[n+2] = Extended(Rebuilt(more)[n+1], Said(more, n + 2))
  <2>1. n + 1 \in 1 .. Len(more) /\ n + 2 \in 1 .. Len(more) /\ (n+1) - 1 = n /\ (n+2) - 1 = n + 1
    BY <1>1
  <2>2. \A i \in 1 .. Len(more) : Rebuilt(more)[i] = Extended(Rebuilt(more)[i-1], Said(more, i))
    BY <1>1, RowByRow
  <2> QED BY <2>1, <2>2
<1> DEFINE c == Conversation(rows)
           a == MessageOf(reply)
<1>6. /\ c \in Seq(Message) /\ a \in Message /\ a.role = "assistant" /\ a.calls # {}
      /\ MessageOf(result).role = "tool"
  BY ConversationType DEF MessageOf, Row, Message
<1> HIDE DEF c, a
<1>7. Rebuilt(more)[n+1] = Append(c, a)
  <2>1. ~Skipped(a, c)
    BY <1>6 DEF Skipped
  <2> QED BY <1>2, <1>3, <1>5, <2>1 DEF Extended, c, a
<1>8. Append(c, a) # <<>> /\ Append(c, a)[Len(Append(c, a))] = a
  BY <1>6
<1>9. ~Skipped(MessageOf(result), Append(c, a))
  BY <1>6, <1>8 DEF Skipped
<1>10. Rebuilt(more)[n+2] = Append(Append(c, a), MessageOf(result))
  BY <1>4, <1>5, <1>7, <1>9 DEF Extended
<1>11. Conversation(more) = Rebuilt(more)[n+2]
  BY <1>1 DEF Conversation
<1> QED BY <1>10, <1>11 DEF more, c, a

-----------------------------------------------------------------------------
(* The inductive invariant.                                                 *)

OneTurn ==
  \/ ~running /\ \A t \in Tabs : At(t, "idle")
  \/ running /\ \E t \in Tabs : \A u \in Tabs : At(u, "idle") <=> u # t

\* What a row tells was settled when it was stored: it is the row after.
Told(n) ==
  \A i \in DOMAIN threads[n].rows : \A p \in threads[n].rows[i].told :
    p \in DOMAIN proposals /\ proposals[p].status = "settled" /\ proposals[p].at = i - 1

ThreadOK(n) ==
  /\ ~threads[n].alive => threads[n].rows = <<>>
  /\ \A i \in DOMAIN threads[n].rows : Clean(threads[n].rows[i])
  /\ Paired(threads[n].rows)
  /\ Told(n)

Between(p) == proposals[p].status = "settled" /\ proposals[p].between
RowsOf(p)  == threads[proposals[p].thread].rows
Untold(p)  == Between(p) /\ proposals[p].at >= Len(RowsOf(p))

ProposalOK(p) ==
  /\ proposals[p].thread \in DOMAIN threads
  /\ threads[proposals[p].thread].alive => RowsOf(p) # <<>> /\ proposals[p].at <= Len(RowsOf(p))
  /\ Between(p) /\ proposals[p].at < Len(RowsOf(p)) =>
       LET row == RowsOf(p)[proposals[p].at + 1] IN row.role = "user" /\ (p \in row.told \/ row.blind)

Rows(t) == threads[Thread(t)].rows

\* The reply that asked is the newest row and the newest message.
Asking(t) ==
  \E text \in Text, calls \in (SUBSET Calls) \ {{}}, nul \in BOOLEAN :
    \E asked \in Seq(Message) :
      /\ turn[t].conversation = Append(asked, MessageOf(ReplyRow(text, calls, nul)))
      /\ Replayable(asked)
      /\ Live(t) => \E before \in Seq(Row) :
                      /\ Closed(before) /\ Rows(t) = Append(before, AsStored(ReplyRow(text, calls, nul)))
                      /\ Stripped(asked) = Conversation(before)

Sending(t) ==
  /\ turn[t].stage \in {"note", "user"} /\ Live(t) => turn[t].history = Rows(t)
  /\ At(t, "stream") => Replayable(turn[t].conversation)
  /\ At(t, "stream") /\ Live(t) => Closed(Rows(t)) /\ Stripped(turn[t].conversation) = Conversation(Rows(t))
  /\ At(t, "tools") => Asking(t)

Telling(t) ==
  /\ turn[t].stage \in {"idle", "open", "read", "note"} => turn[t].told = {}
  /\ At(t, "user") => \A p \in turn[t].told :
       p \in DOMAIN proposals /\ proposals[p].status = "settled"
  /\ At(t, "user") /\ Live(t) =>
       /\ \A p \in turn[t].told : proposals[p].at = Len(turn[t].history)
       /\ \A p \in DOMAIN proposals :
            proposals[p].thread = Thread(t) /\ Untold(p) => p \in turn[t].told \/ turn[t].blind
  /\ turn[t].stage \in {"stream", "tools", "notice"} /\ Live(t) =>
       \A p \in DOMAIN proposals : proposals[p].thread = Thread(t) => ~Untold(p)

TurnOK(t) ==
  /\ IF turn[t].stage \in {"idle", "open"} THEN Thread(t) = 0 ELSE Thread(t) \in DOMAIN threads
  /\ Sending(t) /\ Telling(t)

IInv ==
  /\ AssistantTypeOK /\ Len(proposals) <= MaxProposals /\ OneTurn
  /\ \A n \in DOMAIN threads : ThreadOK(n)
  /\ \A p \in DOMAIN proposals : ProposalOK(p)
  /\ \A t \in Tabs : TurnOK(t)

-----------------------------------------------------------------------------
(* What the steps share.                                                    *)

LEMMA Elements ==
  ASSUME NEW S, NEW s \in Seq(S), NEW i \in DOMAIN s
  PROVE  s[i] \in S
  OBVIOUS

ThreadRow == [alive : BOOLEAN, rows : Seq(Row)]
ProposalRow == [thread : 1 .. MaxThreads, status : {"pending", "settled", "superseded"},
              at : Nat, between : BOOLEAN]

\* The types of what there is of each.
LEMMA Typed ==
  ASSUME IInv
  PROVE  /\ threads \in Seq(ThreadRow) /\ DOMAIN threads = 1 .. Len(threads) /\ Len(threads) \in 0 .. MaxThreads
         /\ \A n \in 1 .. Len(threads) - 1 : ~threads[n].alive
         /\ \A n \in DOMAIN threads : threads[n] \in ThreadRow /\ threads[n].rows \in Seq(Row)
         /\ proposals \in Seq(ProposalRow) /\ DOMAIN proposals = 1 .. Len(proposals)
         /\ \A p \in DOMAIN proposals : proposals[p] \in ProposalRow /\ proposals[p].at \in Nat
         /\ turn \in [Tabs -> Turn] /\ running \in BOOLEAN /\ clearing \subseteq Tabs
         /\ failures \in 0 .. MaxFailures
<1>1. AssistantTypeOK
  BY DEF IInv
<1>2. threads \in Seq(ThreadRow) /\ DOMAIN threads = 1 .. Len(threads) /\ Len(threads) \in 0 .. MaxThreads
  <2>1. threads \in Seq(ThreadRow) /\ Len(threads) <= MaxThreads
    BY <1>1 DEF AssistantTypeOK, ThreadRow
  <2> QED BY <2>1, AssistantAssumption
<1>3. proposals \in Seq(ProposalRow) /\ DOMAIN proposals = 1 .. Len(proposals)
  <2>1. proposals \in Seq(ProposalRow)
    BY <1>1 DEF AssistantTypeOK, ProposalRow
  <2> QED BY <2>1
<1>4. \A n \in DOMAIN threads : threads[n] \in ThreadRow
  BY <1>2, Elements
<1>5. \A p \in DOMAIN proposals : proposals[p] \in ProposalRow
  BY <1>3, Elements
<1> QED BY <1>1, <1>2, <1>3, <1>4, <1>5 DEF AssistantTypeOK, ThreadRow, ProposalRow

LEMMA Rested == Idle \in Turn
  BY AssistantAssumption DEF Idle, Turn

\* The other tabs are idle while a turn runs.
LEMMA Others ==
  ASSUME OneTurn, NEW t \in Tabs, ~At(t, "idle")
  PROVE  running /\ \A u \in Tabs \ {t} : At(u, "idle")
  BY DEF OneTurn

\* A turn that only begins, or is over, has nothing to keep.
LEMMA NothingBegun ==
  ASSUME NEW t \in Tabs, turn'[t].stage \in {"idle", "open"},
         turn'[t].thread = 0, turn'[t].told = {}
  PROVE  TurnOK(t)'
<1>1. Thread(t)' = 0 /\ turn'[t].stage \notin {"note", "user", "stream", "tools", "notice"}
  BY DEF Thread
<1>2. Sending(t)' /\ Telling(t)'
  BY <1>1 DEF Sending, Telling, At
<1> QED BY <1>1, <1>2 DEF TurnOK

LEMMA IdleStays ==
  ASSUME IInv, NEW t \in Tabs, At(t, "idle"), turn'[t] = turn[t]
  PROVE  TurnOK(t)'
<1>1. turn[t].stage = "idle" /\ turn[t].thread = 0 /\ turn[t].told = {}
  BY DEF IInv, TurnOK, Telling, At, Thread
<1> QED BY <1>1, NothingBegun

\* One tab's turn goes on.
LEMMA Going ==
  ASSUME IInv, NEW t \in Tabs, ~At(t, "idle"), NEW r \in Turn, r.stage # "idle",
         turn' = [turn EXCEPT ![t] = r], UNCHANGED running
  PROVE  /\ OneTurn' /\ turn' \in [Tabs -> Turn]
         /\ turn'[t] = r
         /\ \A u \in Tabs \ {t} : TurnOK(u)'
<1>1. turn \in [Tabs -> Turn]
  BY DEF IInv, AssistantTypeOK
<1>2. turn' \in [Tabs -> Turn] /\ turn'[t] = r /\ \A u \in Tabs \ {t} : turn'[u] = turn[u]
  BY <1>1
<1>3. running /\ \A u \in Tabs \ {t} : At(u, "idle")
  BY Others DEF IInv
<1>4. \A u \in Tabs \ {t} : TurnOK(u)'
  BY <1>2, <1>3, IdleStays
<1>5. running' /\ \A u \in Tabs : At(u, "idle")' <=> u # t
  BY <1>2, <1>3 DEF At
<1> QED BY <1>2, <1>4, <1>5 DEF OneTurn

\* One tab's turn is over.
LEMMA Ending ==
  ASSUME IInv, NEW t \in Tabs, ~At(t, "idle"), EndTurn(t)
  PROVE  /\ OneTurn' /\ turn' \in [Tabs -> Turn] /\ running' \in BOOLEAN
         /\ \A u \in Tabs : TurnOK(u)'
<1>1. turn \in [Tabs -> Turn]
  BY DEF IInv, AssistantTypeOK
<1>2. /\ turn' \in [Tabs -> Turn] /\ turn'[t] = Idle /\ running' = FALSE
      /\ \A u \in Tabs \ {t} : turn'[u] = turn[u]
  BY <1>1, Rested DEF EndTurn
<1>3. \A u \in Tabs \ {t} : At(u, "idle")
  BY Others DEF IInv
<1>4. \A u \in Tabs \ {t} : TurnOK(u)'
  BY <1>2, <1>3, IdleStays
<1>5. TurnOK(t)'
  BY <1>2, NothingBegun DEF Idle
<1>6. \A u \in Tabs : At(u, "idle")'
  BY <1>2, <1>3 DEF At, Idle
<1> QED BY <1>2, <1>4, <1>5, <1>6 DEF OneTurn

LEMMA ThreadsStay ==
  ASSUME IInv, UNCHANGED <<threads, proposals>>
  PROVE  /\ \A n \in DOMAIN threads' : ThreadOK(n)'
         /\ \A p \in DOMAIN proposals' : ProposalOK(p)'
<1>1. \A n \in DOMAIN threads' : ThreadOK(n)'
  BY DEF IInv, ThreadOK, Told
<1>2. \A p \in DOMAIN proposals' : ProposalOK(p)'
  BY DEF IInv, ProposalOK, Between, RowsOf
<1> QED BY <1>1, <1>2

StoredClean(t, row) ==
  Live(t) /\ Clean(row) /\ threads' = [threads EXCEPT ![Thread(t)].rows = Append(@, row)]

LEMMA StoringClean ==
  ASSUME IInv, NEW t \in Tabs, NEW row \in Row, StoredClean(t, row), UNCHANGED proposals,
         row.role = "assistant" => row.native \subseteq row.calls /\ (row.interrupted => row.calls = {}),
         row.role = "tool" =>
           /\ Rows(t) # <<>> /\ row.calls # {}
           /\ LET last == Rows(t)[Len(Rows(t))]
              IN  last.role = "assistant" /\ ~last.interrupted /\ last.calls = row.calls,
         \A p \in row.told : /\ p \in DOMAIN proposals /\ proposals[p].status = "settled"
                             /\ proposals[p].at = Len(Rows(t)),
         \A p \in DOMAIN proposals :
           proposals[p].thread = Thread(t) /\ Untold(p) =>
             row.role = "user" /\ (p \in row.told \/ row.blind)
  PROVE  /\ threads' \in Seq(ThreadRow) /\ Len(threads') = Len(threads)
         /\ \A n \in 1 .. Len(threads') - 1 : ~threads'[n].alive
         /\ Thread(t) \in DOMAIN threads /\ Thread(t) \in DOMAIN threads' /\ Rows(t) \in Seq(Row)
         /\ threads'[Thread(t)].rows = Append(Rows(t), row)
         /\ \A n \in DOMAIN threads' : ThreadOK(n)'
         /\ \A p \in DOMAIN proposals' : ProposalOK(p)'
         /\ \A p \in DOMAIN proposals' : proposals'[p].thread = Thread(t) => ~Untold(p)'
<1>0. PICK k : k = Thread(t)
  OBVIOUS
<1> DEFINE old == Rows(t)
<1>1. /\ threads \in Seq(ThreadRow) /\ DOMAIN threads = 1 .. Len(threads) /\ Len(threads) \in Nat
      /\ \A n \in 1 .. Len(threads) - 1 : ~threads[n].alive
  BY Typed
<1>2. k \in DOMAIN threads /\ threads[k].alive /\ k \in 1 .. Len(threads)
  BY <1>0, <1>1 DEF IInv, TurnOK, StoredClean, Live
<1>3. threads[k] \in ThreadRow /\ old = threads[k].rows /\ old \in Seq(Row)
  <2>1. threads[k] \in ThreadRow /\ threads[k].rows \in Seq(Row)
    BY <1>2, Typed
  <2> QED BY <1>0, <2>1 DEF Rows
<1>6. /\ Append(old, row) \in Seq(Row) /\ Len(Append(old, row)) = Len(old) + 1
      /\ Append(old, row)[Len(old) + 1] = row
      /\ \A i \in 1 .. Len(old) : Append(old, row)[i] = old[i]
      /\ DOMAIN Append(old, row) = 1 .. Len(old) + 1 /\ DOMAIN old = 1 .. Len(old)
      /\ Len(old) \in Nat /\ (old # <<>> => Len(old) \in 1 .. Len(old))
  BY <1>3
<1>4. /\ DOMAIN threads' = DOMAIN threads /\ Len(threads') = Len(threads)
      /\ threads' \in Seq(ThreadRow)
      /\ threads'[k].alive = TRUE /\ threads'[k].rows = Append(old, row)
      /\ \A n \in DOMAIN threads \ {k} : threads'[n] = threads[n]
  <2> DEFINE r == [threads[k] EXCEPT !.rows = Append(old, row)]
  <2>1. r \in ThreadRow /\ r.alive = TRUE /\ r.rows = Append(old, row)
    BY <1>2, <1>3, <1>6 DEF ThreadRow
  <2>2. threads' = [threads EXCEPT ![k] = r]
    BY <1>0, <1>2, <1>3 DEF StoredClean
  <2> HIDE DEF r
  <2> QED BY <1>1, <1>2, <2>1, <2>2
<1>5. \A n \in 1 .. Len(threads') - 1 : ~threads'[n].alive
  <2>1. k \notin 1 .. Len(threads) - 1
    BY <1>1, <1>2
  <2> QED BY <1>1, <1>4, <2>1
<1> DEFINE new == Append(old, row)
<1>7. Rows(t) = threads[k].rows /\ ThreadOK(k)
  BY <1>0, <1>2 DEF Rows, IInv
<1> HIDE DEF old, new
<1>8. Paired(new)
  <2>1. Paired(old)
    BY <1>7 DEF ThreadOK, old
  <2>2. ASSUME NEW i \in 1 .. Len(old) PROVE PairedAt(new, i)
    <3>1. PairedAt(old, i)
      BY <1>6, <2>1 DEF Paired
    <3>2. new[i] = old[i] /\ (i > 1 => new[i-1] = old[i-1])
      BY <1>6 DEF new
    <3> QED BY <3>1, <3>2 DEF PairedAt
  <2>3. PairedAt(new, Len(old) + 1)
    <3>1. new[Len(old) + 1] = row /\ (old # <<>> => new[Len(old)] = old[Len(old)] /\ Len(old) + 1 > 1)
      BY <1>3, <1>6 DEF new
    <3>2. (Len(old) + 1) - 1 = Len(old)
      BY <1>6
    <3> QED BY <3>1, <3>2 DEF PairedAt, old
  <2>4. DOMAIN new = 1 .. Len(old) + 1
    BY <1>6 DEF new
  <2> QED BY <1>6, <2>2, <2>3, <2>4 DEF Paired
<1>9. ThreadOK(k)'
  <2>1. \A i \in DOMAIN old : \A p \in old[i].told :
          p \in DOMAIN proposals /\ proposals[p].status = "settled" /\ proposals[p].at = i - 1
    BY <1>7 DEF ThreadOK, Told, old
  <2>2. ASSUME NEW i \in DOMAIN new, NEW p \in new[i].told
        PROVE  p \in DOMAIN proposals /\ proposals[p].status = "settled" /\ proposals[p].at = i - 1
    <3>1. CASE i \in 1 .. Len(old)
      BY <1>6, <2>1, <2>2, <3>1 DEF new
    <3>2. CASE i = Len(old) + 1
      <4>1. new[i] = row /\ i - 1 = Len(old)
        BY <1>6, <3>2 DEF new
      <4> QED BY <2>2, <4>1 DEF old
    <3> QED BY <1>6, <3>1, <3>2 DEF new
  <2>3. threads'[k].alive = TRUE /\ threads'[k].rows = new
    BY <1>4 DEF new
  <2>4. \A i \in DOMAIN new : Clean(new[i])
    <3>1. \A i \in DOMAIN old : Clean(old[i])
      BY <1>7 DEF ThreadOK, old
    <3> QED BY <1>6, <3>1 DEF new, StoredClean
  <2> QED BY <1>8, <2>2, <2>3, <2>4 DEF ThreadOK, Told
<1>10. \A n \in DOMAIN threads' : ThreadOK(n)'
  <2>1. ASSUME NEW n \in DOMAIN threads \ {k} PROVE ThreadOK(n)'
    <3>1. ThreadOK(n)
      BY DEF IInv
    <3>2. threads'[n] = threads[n]
      BY <1>4
    <3> QED BY <3>1, <3>2 DEF ThreadOK, Told
  <2> QED BY <1>4, <1>9, <2>1
<1>11. ASSUME NEW p \in DOMAIN proposals
       PROVE  ProposalOK(p)' /\ (proposals'[p].thread = k => ~Untold(p)')
  <2>1. ProposalOK(p)
    BY DEF IInv
  <2>2. CASE proposals[p].thread # k
    <3>1. threads'[proposals[p].thread] = threads[proposals[p].thread]
          /\ proposals[p].thread \in DOMAIN threads'
      BY <1>4, <2>1, <2>2 DEF ProposalOK
    <3> QED BY <2>1, <2>2, <3>1 DEF ProposalOK, Between, RowsOf
  <2>3. CASE proposals[p].thread = k
    <3>1. RowsOf(p) = old /\ RowsOf(p)' = new /\ k \in DOMAIN threads'
      BY <1>0, <1>2, <1>4, <2>3 DEF RowsOf, old, new, Rows
    <3>2. proposals[p].at \in Nat /\ proposals[p].at <= Len(old) /\ Len(new) = Len(old) + 1
      <4>1. proposals[p].at \in Nat
        BY Typed
      <4>2. proposals[p].at <= Len(old)
        BY <1>2, <2>1, <2>3, <3>1 DEF ProposalOK
      <4> QED BY <1>6, <4>1, <4>2 DEF new
    <3>3. new # <<>>
      BY <3>2, <1>6
    <3>4. ASSUME Between(p)
          PROVE  LET r == new[proposals[p].at + 1] IN r.role = "user" /\ (p \in r.told \/ r.blind)
      <4>1. CASE proposals[p].at < Len(old)
        <5>1. LET r == old[proposals[p].at + 1] IN r.role = "user" /\ (p \in r.told \/ r.blind)
          BY <2>1, <3>1, <3>4, <4>1 DEF ProposalOK
        <5>2. new[proposals[p].at + 1] = old[proposals[p].at + 1]
          BY <1>6, <3>2, <4>1 DEF new
        <5> QED BY <5>1, <5>2
      <4>2. CASE proposals[p].at = Len(old)
        <5>1. Untold(p)
          BY <1>6, <3>1, <3>4, <4>2 DEF Untold
        <5>2. row.role = "user" /\ (p \in row.told \/ row.blind)
          BY <1>0, <2>3, <5>1
        <5>3. new[proposals[p].at + 1] = row
          BY <1>6, <4>2 DEF new
        <5> QED BY <5>2, <5>3
      <4> QED BY <1>6, <3>2, <4>1, <4>2
    <3>5. ProposalOK(p)'
      BY <2>3, <3>1, <3>2, <3>3, <3>4 DEF ProposalOK, Between
    <3>6. ~Untold(p)'
      BY <1>6, <3>1, <3>2 DEF Untold
    <3> QED BY <3>5, <3>6
  <2> QED BY <2>2, <2>3
<1> QED BY <1>0, <1>2, <1>3, <1>4, <1>5, <1>10, <1>11 DEF old

\* Append stores what the database can hold of a row.
LEMMA Storing ==
  ASSUME IInv, NEW t \in Tabs, NEW row \in Row, Store(t, row), UNCHANGED proposals,
         row.role = "assistant" => row.native \subseteq row.calls /\ (row.interrupted => row.calls = {}),
         row.role = "tool" =>
           /\ Rows(t) # <<>> /\ row.calls # {}
           /\ LET last == Rows(t)[Len(Rows(t))]
              IN  last.role = "assistant" /\ ~last.interrupted /\ last.calls = row.calls,
         \A p \in row.told : /\ p \in DOMAIN proposals /\ proposals[p].status = "settled"
                             /\ proposals[p].at = Len(Rows(t)),
         \A p \in DOMAIN proposals :
           proposals[p].thread = Thread(t) /\ Untold(p) =>
             row.role = "user" /\ (p \in row.told \/ row.blind)
  PROVE  /\ threads' \in Seq(ThreadRow) /\ Len(threads') = Len(threads)
         /\ \A n \in 1 .. Len(threads') - 1 : ~threads'[n].alive
         /\ Thread(t) \in DOMAIN threads /\ Thread(t) \in DOMAIN threads' /\ Rows(t) \in Seq(Row)
         /\ threads'[Thread(t)].rows = Append(Rows(t), AsStored(row))
         /\ \A n \in DOMAIN threads' : ThreadOK(n)'
         /\ \A p \in DOMAIN proposals' : ProposalOK(p)'
         /\ \A p \in DOMAIN proposals' : proposals'[p].thread = Thread(t) => ~Untold(p)'
<1> DEFINE stored == AsStored(row)
<1>1. /\ stored \in Row /\ Clean(stored) /\ stored.role = row.role /\ stored.calls = row.calls
      /\ stored.native \subseteq row.native /\ stored.interrupted = row.interrupted
      /\ stored.told = row.told /\ stored.blind = row.blind
  BY AsStoredRow
<1>2. StoredClean(t, stored)
  BY <1>1 DEF Store, StoredClean
<1> HIDE DEF stored
<1>3. /\ stored.role = "assistant" => stored.native \subseteq stored.calls
                                       /\ (stored.interrupted => stored.calls = {})
      /\ stored.role = "tool" =>
           /\ Rows(t) # <<>> /\ stored.calls # {}
           /\ LET last == Rows(t)[Len(Rows(t))]
              IN  last.role = "assistant" /\ ~last.interrupted /\ last.calls = stored.calls
      /\ \A p \in stored.told : /\ p \in DOMAIN proposals /\ proposals[p].status = "settled"
                                 /\ proposals[p].at = Len(Rows(t))
      /\ \A p \in DOMAIN proposals :
           proposals[p].thread = Thread(t) /\ Untold(p) =>
             stored.role = "user" /\ (p \in stored.told \/ stored.blind)
  BY <1>1
<1>4. threads'[Thread(t)].rows = Append(Rows(t), stored) /\ Rows(t) \in Seq(Row)
  BY <1>1, <1>2, <1>3, StoringClean
<1>5. threads'[Thread(t)].rows = Append(Rows(t), AsStored(row))
  BY <1>4 DEF stored
<1> QED BY <1>1, <1>2, <1>3, <1>5, StoringClean

LEMMA RowTypes ==
  /\ \A told \in SUBSET ProposalIds, blind \in BOOLEAN :
       /\ UserRow(told, blind) \in Row /\ UserRow(told, blind).role = "user"
       /\ UserRow(told, blind).told = told /\ UserRow(told, blind).blind = blind
       /\ AsStored(UserRow(told, blind)) = UserRow(told, blind)
  /\ \A text \in Text :
       /\ UnfinishedRow(text) \in Row /\ UnfinishedRow(text).role = "assistant"
       /\ UnfinishedRow(text).calls = {} /\ UnfinishedRow(text).native = {}
       /\ UnfinishedRow(text).told = {}
<1>1. \A told \in SUBSET ProposalIds, blind \in BOOLEAN :
       /\ UserRow(told, blind) \in Row /\ UserRow(told, blind).role = "user"
       /\ UserRow(told, blind).told = told /\ UserRow(told, blind).blind = blind
       /\ AsStored(UserRow(told, blind)) = UserRow(told, blind)
  <2>1. SUFFICES ASSUME NEW told \in SUBSET ProposalIds, NEW blind \in BOOLEAN
        PROVE  /\ UserRow(told, blind) \in Row /\ UserRow(told, blind).role = "user"
               /\ UserRow(told, blind).told = told /\ UserRow(told, blind).blind = blind
               /\ AsStored(UserRow(told, blind)) = UserRow(told, blind)
    OBVIOUS
  <2>2. /\ UserRow(told, blind) \in Row /\ UserRow(told, blind).role = "user"
        /\ UserRow(told, blind).told = told /\ UserRow(told, blind).blind = blind
    BY DEF UserRow, Row, Text
  <2>3. AsStored(UserRow(told, blind)) = UserRow(told, blind)
    <3> DEFINE row == UserRow(told, blind)
    <3>1. row \in Row /\ row.text = "words" /\ row.nul = FALSE
      BY <2>2 DEF UserRow
    <3> HIDE DEF row
    <3>2. AsStored(row) \in Row
      BY <3>1, AsStoredRow
    <3>3. /\ AsStored(row).role = row.role /\ AsStored(row).text = row.text
          /\ AsStored(row).calls = row.calls /\ AsStored(row).native = row.native
          /\ AsStored(row).nul = row.nul /\ AsStored(row).interrupted = row.interrupted
          /\ AsStored(row).told = row.told /\ AsStored(row).blind = row.blind
      BY <3>1 DEF AsStored, Row
    <3>4. AsStored(row) = row
      BY <3>1, <3>2, <3>3, SameRow
    <3> QED BY <3>4 DEF row
  <2> QED BY <2>2, <2>3
<1>2. \A text \in Text :
       /\ UnfinishedRow(text) \in Row /\ UnfinishedRow(text).role = "assistant"
       /\ UnfinishedRow(text).calls = {} /\ UnfinishedRow(text).native = {}
       /\ UnfinishedRow(text).told = {}
  BY DEF UnfinishedRow, ReplyRow, Row
<1> QED BY <1>1, <1>2

LEMMA ToolRowType ==
  ASSUME NEW calls \in SUBSET Calls, NEW nul \in BOOLEAN
  PROVE  /\ ToolRow(calls, nul) \in Row /\ ToolRow(calls, nul).role = "tool"
         /\ ToolRow(calls, nul).calls = calls /\ ToolRow(calls, nul).told = {}
         /\ MessageOf(ToolRow(calls, nul)) \in Message
         /\ MessageOf(ToolRow(calls, nul)).role = "tool"
         /\ MessageOf(ToolRow(calls, nul)).calls = calls
<1> DEFINE reply == ReplyRow("none", calls, nul)
           row   == ToolRow(calls, nul)
<1>1. reply \in Row /\ reply.calls = calls /\ reply.told = {}
  BY DEF ReplyRow, Row, Text
<1> HIDE DEF reply
<1>2. row \in Row /\ row.role = "tool" /\ row.calls = calls /\ row.told = {}
  BY <1>1 DEF ToolRow, Row, reply
<1> HIDE DEF row
<1>3. MessageOf(row) \in Message /\ MessageOf(row).role = row.role /\ MessageOf(row).calls = row.calls
  BY <1>2, AsStoredRow DEF MessageOf
<1> QED BY <1>2, <1>3 DEF row

\* A turn that is over and has stored nothing.
LEMMA Quiet ==
  ASSUME IInv, NEW t \in Tabs, ~At(t, "idle"), EndTurn(t), UNCHANGED <<threads, proposals, clearing>>,
         failures' \in 0 .. MaxFailures
  PROVE  IInv'
<1>1. AssistantTypeOK'
  BY Ending DEF IInv, AssistantTypeOK
<1> QED BY <1>1, Ending, ThreadsStay DEF IInv

\* A turn that is over and has stored what it had.
LEMMA StoredLast ==
  ASSUME IInv, NEW t \in Tabs, turn[t].stage \in {"stream", "tools", "notice"},
         NEW row \in Row, Store(t, row), EndTurn(t), UNCHANGED <<proposals, clearing, failures>>,
         row.role = "assistant" => row.native \subseteq row.calls /\ (row.interrupted => row.calls = {}),
         row.role = "tool" =>
           /\ Rows(t) # <<>> /\ row.calls # {}
           /\ LET last == Rows(t)[Len(Rows(t))]
              IN  last.role = "assistant" /\ ~last.interrupted /\ last.calls = row.calls,
         row.told = {}
  PROVE  IInv'
<1>1. \A p \in DOMAIN proposals : proposals[p].thread = Thread(t) => ~Untold(p)
  BY DEF IInv, TurnOK, Telling, Store
<1>2. /\ threads' \in Seq(ThreadRow) /\ Len(threads') = Len(threads)
      /\ \A n \in 1 .. Len(threads') - 1 : ~threads'[n].alive
      /\ \A n \in DOMAIN threads' : ThreadOK(n)'
      /\ \A p \in DOMAIN proposals' : ProposalOK(p)'
  BY <1>1, Storing
<1>3. ~At(t, "idle")
  BY DEF At
<1>4. AssistantTypeOK'
  BY <1>2, <1>3, Ending DEF IInv, AssistantTypeOK, ThreadRow
<1> QED BY <1>2, <1>3, <1>4, Ending DEF IInv

-----------------------------------------------------------------------------
(* The steps of a turn.                                                     *)

LEMMA PrepareKeeps == ASSUME IInv, NEW t \in Tabs, Prepare(t) PROVE IInv'
<1>1. \A u \in Tabs : At(u, "idle")
  BY DEF IInv, OneTurn, Prepare
<1> DEFINE r == [turn[t] EXCEPT !.stage = "open"]
<1>2. turn \in [Tabs -> Turn] /\ turn[t] \in Turn
  BY Typed
<1>3. r \in Turn /\ r.stage = "open" /\ r.thread = turn[t].thread /\ r.told = turn[t].told
  BY <1>2 DEF Turn
<1>4. turn' = [turn EXCEPT ![t] = r]
  BY <1>2 DEF Prepare
<1> HIDE DEF r
<1>5. turn' \in [Tabs -> Turn] /\ turn'[t] = r /\ \A u \in Tabs \ {t} : turn'[u] = turn[u]
  BY <1>2, <1>3, <1>4
<1>6. turn[t].thread = 0 /\ turn[t].told = {}
  BY <1>1 DEF IInv, TurnOK, Telling, At, Thread
<1>7. TurnOK(t)'
  BY <1>3, <1>5, <1>6, NothingBegun
<1>8. \A u \in Tabs \ {t} : TurnOK(u)'
  BY <1>1, <1>5, IdleStays
<1>9. OneTurn'
  <2>1. running' = TRUE /\ \A u \in Tabs : At(u, "idle")' <=> u # t
    BY <1>1, <1>3, <1>5 DEF Prepare, At
  <2> QED BY <2>1 DEF OneTurn
<1>10. AssistantTypeOK'
  BY <1>5 DEF IInv, AssistantTypeOK, Prepare
<1> QED BY <1>7, <1>8, <1>9, <1>10, ThreadsStay DEF IInv, Prepare

LEMMA GetOrCreateKeeps == ASSUME IInv, NEW t \in Tabs, GetOrCreate(t) PROVE IInv'
<1> DEFINE r == [turn[t] EXCEPT !.stage = "read", !.thread = Len(threads')]
<1>1. turn \in [Tabs -> Turn] /\ turn[t] \in Turn /\ At(t, "open") /\ turn[t].told = {}
  <2>1. Telling(t)
    BY DEF IInv, TurnOK
  <2> QED BY <2>1, Typed DEF GetOrCreate, At, Telling
<1>2. /\ threads' \in Seq(ThreadRow) /\ DOMAIN threads' = 1 .. Len(threads')
      /\ Len(threads') \in 1 .. MaxThreads
      /\ \A n \in 1 .. Len(threads') - 1 : ~threads'[n].alive
      /\ DOMAIN threads \subseteq DOMAIN threads'
      /\ \A n \in DOMAIN threads : threads'[n] = threads[n]
      /\ \A n \in DOMAIN threads' : ThreadOK(n)'
  <2>1. CASE Open # {} /\ UNCHANGED threads
    <3>1. Len(threads) # 0
      BY <2>1, Typed DEF Open
    <3>2. \A n \in DOMAIN threads' : ThreadOK(n)'
      BY <2>1, ThreadsStay DEF GetOrCreate
    <3> QED BY <2>1, <3>1, <3>2, Typed
  <2>2. CASE /\ Open = {} /\ Len(threads) < MaxThreads
             /\ threads' = Append(threads, [alive |-> TRUE, rows |-> <<>>])
    <3> DEFINE new == [alive |-> TRUE, rows |-> <<>>]
    <3>1. new \in ThreadRow /\ new.rows = <<>> /\ new.alive = TRUE
      BY DEF ThreadRow
    <3> HIDE DEF new
    <3>2. /\ threads' \in Seq(ThreadRow) /\ Len(threads') = Len(threads) + 1
          /\ DOMAIN threads' = 1 .. Len(threads) + 1
          /\ threads'[Len(threads) + 1] = new
          /\ \A n \in DOMAIN threads : threads'[n] = threads[n]
      BY <2>2, <3>1, Typed DEF new
    <3>3. \A n \in DOMAIN threads : ~threads[n].alive
      BY <2>2 DEF Open
    <3>4. \A n \in DOMAIN threads : ThreadOK(n)'
      <4>1. SUFFICES ASSUME NEW n \in DOMAIN threads PROVE ThreadOK(n)'
        OBVIOUS
      <4>2. ThreadOK(n) /\ threads'[n] = threads[n] /\ proposals' = proposals
        BY <3>2 DEF IInv, GetOrCreate
      <4> QED BY <4>2 DEF ThreadOK, Told
    <3>5. ASSUME NEW n, n = Len(threads) + 1 PROVE ThreadOK(n)'
      <4>1. threads'[n].rows = <<>>
        BY <3>1, <3>2, <3>5
      <4> QED BY <4>1 DEF ThreadOK, Told, Paired
    <3>6. \A n \in DOMAIN threads' : n \in DOMAIN threads \/ n = Len(threads) + 1
      BY <3>2, Typed
    <3>7. \A n \in DOMAIN threads' : ThreadOK(n)'
      BY <3>4, <3>5, <3>6
    <3>8. Len(threads) + 1 \in 1 .. MaxThreads /\ DOMAIN threads \subseteq 1 .. Len(threads) + 1
          /\ \A n \in 1 .. (Len(threads) + 1) - 1 : n \in DOMAIN threads
      BY <2>2, Typed, AssistantAssumption
    <3> QED BY <3>2, <3>3, <3>7, <3>8
  <2> QED BY <2>1, <2>2 DEF GetOrCreate
<1>3. r \in Turn /\ r.stage = "read" /\ r.thread = Len(threads') /\ r.told = {}
  <2>1. Len(threads') \in 0 .. MaxThreads
    BY <1>2
  <2>2. r.stage = "read" /\ r.thread = Len(threads') /\ r.told = {}
    BY <1>1 DEF Turn
  <2>3. r \in Turn
    BY <1>1, <2>1 DEF Turn
  <2> QED BY <2>2, <2>3
<1>4. turn' = [turn EXCEPT ![t] = r]
  BY <1>1 DEF GetOrCreate
<1> HIDE DEF r
<1>5. /\ OneTurn' /\ turn' \in [Tabs -> Turn] /\ turn'[t] = r
      /\ \A u \in Tabs \ {t} : TurnOK(u)'
  <2>1. ~At(t, "idle") /\ r.stage # "idle" /\ UNCHANGED running
    BY <1>1, <1>3 DEF At, GetOrCreate
  <2> QED BY <1>3, <1>4, <2>1, Going
<1>6. TurnOK(t)'
  <2>1. Thread(t)' \in DOMAIN threads'
    BY <1>2, <1>3, <1>5 DEF Thread
  <2>2. Sending(t)' /\ Telling(t)'
    BY <1>3, <1>5 DEF Sending, Telling, At
  <2> QED BY <1>3, <1>5, <2>1, <2>2 DEF TurnOK
<1>7. \A p \in DOMAIN proposals' : ProposalOK(p)'
  <2>1. SUFFICES ASSUME NEW p \in DOMAIN proposals PROVE ProposalOK(p)'
    BY DEF GetOrCreate
  <2>2. ProposalOK(p) /\ proposals' = proposals
    BY DEF IInv, GetOrCreate
  <2>3. proposals[p].thread \in DOMAIN threads' /\ threads'[proposals[p].thread] = threads[proposals[p].thread]
    BY <1>2, <2>2 DEF ProposalOK
  <2> QED BY <2>2, <2>3 DEF ProposalOK, Between, RowsOf
<1>8. AssistantTypeOK'
  <2>1. Len(threads') <= MaxThreads
    BY <1>2, AssistantAssumption
  <2>2. UNCHANGED <<proposals, running, clearing, failures>>
    BY DEF GetOrCreate
  <2> QED BY <1>2, <1>5, <2>1, <2>2 DEF IInv, AssistantTypeOK, ThreadRow
<1> QED BY <1>2, <1>5, <1>6, <1>7, <1>8 DEF IInv, GetOrCreate

\* A turn that goes on without storing anything.
LEMMA GoesOn ==
  ASSUME IInv, NEW t \in Tabs, ~At(t, "idle"), NEW r \in Turn, r.stage # "idle",
         turn' = [turn EXCEPT ![t] = r], UNCHANGED <<threads, proposals, running, clearing>>,
         failures' \in 0 .. MaxFailures, TurnOK(t)'
  PROVE  IInv'
<1>1. AssistantTypeOK'
  BY Going DEF IInv, AssistantTypeOK
<1> QED BY <1>1, Going, ThreadsStay DEF IInv

LEMMA PrepareFailsKeeps == ASSUME IInv, NEW t \in Tabs, PrepareFails(t) PROVE IInv'
  BY Quiet, Typed DEF PrepareFails, At

LEMMA ReadHistoryKeeps == ASSUME IInv, NEW t \in Tabs, ReadHistory(t) PROVE IInv'
<1>1. ~At(t, "idle") /\ UNCHANGED <<threads, proposals, clearing, failures>>
      /\ failures' \in 0 .. MaxFailures
  BY Typed DEF ReadHistory, At
<1>2. CASE EndTurn(t)
  BY <1>1, <1>2, Quiet
<1> DEFINE r == [turn[t] EXCEPT !.stage = "note", !.history = Rows(t)]
<1>3. CASE turn' = [turn EXCEPT ![t].stage = "note", ![t].history = Rows(t)] /\ UNCHANGED running
  <2>1. turn[t] \in Turn /\ Thread(t) \in DOMAIN threads /\ Rows(t) \in Seq(Row) /\ turn[t].told = {}
    <3>1. TurnOK(t) /\ At(t, "read")
      BY DEF IInv, ReadHistory
    <3>2. Thread(t) \in DOMAIN threads /\ turn[t].told = {}
      BY <3>1 DEF TurnOK, Telling, At
    <3> QED BY <3>2, Typed DEF Rows
  <2>2. /\ r \in Turn /\ r.stage = "note" /\ r.history = Rows(t)
        /\ r.thread = turn[t].thread /\ r.told = {}
    BY <2>1 DEF Turn
  <2>3. turn' = [turn EXCEPT ![t] = r]
    BY <1>3, Typed
  <2> HIDE DEF r
  <2>4. turn'[t] = r
    BY <2>3, Typed
  <2>5. Thread(t)' = Thread(t) /\ Rows(t)' = Rows(t)
    BY <1>1, <2>2, <2>4 DEF Thread, Rows
  <2>6. TurnOK(t)'
    <3>1. Sending(t)'
      BY <2>2, <2>4, <2>5 DEF Sending, At
    <3>2. Telling(t)'
      BY <2>2, <2>4 DEF Telling, At
    <3> QED BY <1>1, <2>1, <2>2, <2>4, <2>5, <3>1, <3>2 DEF TurnOK
  <2> QED BY <1>1, <1>3, <2>2, <2>3, <2>6, GoesOn
<1> QED BY <1>2, <1>3 DEF ReadHistory, Rows

\* Whichever way the note comes about, it tells what has to be told.
LEMMA Noted ==
  ASSUME IInv, NEW t \in Tabs, At(t, "note"), NEW told \in SUBSET ProposalIds, NEW blind \in BOOLEAN,
         turn' = [turn EXCEPT ![t] = [turn[t] EXCEPT !.stage = "user", !.told = told, !.blind = blind]],
         UNCHANGED <<threads, proposals, running, clearing>>, failures' \in 0 .. MaxFailures,
         told \subseteq ResolvedForThread(t),
         blind = FALSE /\ turn[t].history # <<>> => told = ResolvedForThread(t)
  PROVE  IInv'
<1> DEFINE r == [turn[t] EXCEPT !.stage = "user", !.told = told, !.blind = blind]
<1>1. turn[t] \in Turn /\ TurnOK(t) /\ Sending(t) /\ Thread(t) \in DOMAIN threads
  BY Typed DEF IInv, TurnOK, At
<1>2. /\ r \in Turn /\ r.stage = "user" /\ r.told = told /\ r.blind = blind
      /\ r.history = turn[t].history /\ r.thread = turn[t].thread
  BY <1>1 DEF Turn
<1>3. turn' = [turn EXCEPT ![t] = r]
  OBVIOUS
<1> HIDE DEF r
<1>4. turn'[t] = r
  BY <1>3, Typed
<1>5. Thread(t)' = Thread(t) /\ Rows(t)' = Rows(t) /\ Live(t)' = Live(t)
  BY <1>2, <1>4 DEF Thread, Rows, Live
<1>6. Sending(t)'
  BY <1>1, <1>2, <1>4, <1>5 DEF Sending, At
<1>7. \A p \in told : p \in DOMAIN proposals /\ proposals[p].status = "settled"
                      /\ proposals[p].thread = Thread(t) /\ proposals[p].at >= Len(turn[t].history)
  BY DEF ResolvedForThread
<1>8. ASSUME Live(t)
      PROVE  /\ \A p \in told : proposals[p].at = Len(turn[t].history)
             /\ \A p \in DOMAIN proposals :
                  proposals[p].thread = Thread(t) /\ Untold(p)' => p \in told \/ blind
  <2>1. turn[t].history = Rows(t) /\ threads[Thread(t)].alive /\ Rows(t) \in Seq(Row)
    BY <1>1, <1>8, Typed DEF Sending, At, Live, Rows
  <2>2. \A p \in told : proposals[p].at = Len(turn[t].history)
    <3>1. SUFFICES ASSUME NEW p \in told PROVE proposals[p].at = Len(turn[t].history)
      OBVIOUS
    <3>2. ProposalOK(p) /\ RowsOf(p) = Rows(t) /\ proposals[p].at \in Nat
      BY <1>7, Typed DEF IInv, RowsOf, Rows
    <3>3. proposals[p].at <= Len(Rows(t))
      BY <1>7, <2>1, <3>2 DEF ProposalOK
    <3> QED BY <1>7, <2>1, <3>2, <3>3
  <2>3. ASSUME NEW p \in DOMAIN proposals, proposals[p].thread = Thread(t), Untold(p)'
        PROVE  p \in told \/ blind
    <3>1. ProposalOK(p) /\ RowsOf(p) = Rows(t)
      BY <2>3 DEF IInv, RowsOf, Rows
    <3>2. proposals[p].status = "settled" /\ proposals[p].at >= Len(Rows(t))
      BY <2>3, <3>1 DEF Untold, Between, RowsOf
    <3>3. Rows(t) # <<>>
      BY <2>1, <2>3, <3>1 DEF ProposalOK
    <3>4. p \in ResolvedForThread(t)
      BY <2>1, <2>3, <3>2 DEF ResolvedForThread
    <3> QED BY <2>1, <3>3, <3>4
  <2> QED BY <2>2, <2>3
<1>9. Telling(t)'
  BY <1>2, <1>4, <1>5, <1>7, <1>8 DEF Telling, At
<1>10. TurnOK(t)'
  BY <1>1, <1>2, <1>4, <1>5, <1>6, <1>9 DEF TurnOK
<1>11. ~At(t, "idle")
  BY DEF At
<1> QED BY <1>2, <1>3, <1>10, <1>11, GoesOn

LEMMA ContextNoteKeeps == ASSUME IInv, NEW t \in Tabs, ContextNote(t) PROVE IInv'
<1> DEFINE told == IF turn[t].history = <<>> THEN {} ELSE ResolvedForThread(t)
<1>1. turn \in [Tabs -> Turn] /\ turn[t] \in Turn /\ turn[t].blind \in BOOLEAN
  BY Typed DEF Turn
<1>2. told \in SUBSET ProposalIds /\ told \subseteq ResolvedForThread(t)
      /\ (turn[t].history # <<>> => told = ResolvedForThread(t))
  <2>1. ResolvedForThread(t) \subseteq ProposalIds
    <3>1. DOMAIN proposals \subseteq ProposalIds
      BY Typed, AssistantAssumption DEF IInv, ProposalIds
    <3> QED BY <3>1 DEF ResolvedForThread
  <2> QED BY <2>1
<1>3. turn' = [turn EXCEPT ![t] = [turn[t] EXCEPT !.stage = "user", !.told = told, !.blind = turn[t].blind]]
  <2>1. [turn[t] EXCEPT !.stage = "user", !.told = told]
        = [turn[t] EXCEPT !.stage = "user", !.told = told, !.blind = turn[t].blind]
    BY <1>1 DEF Turn
  <2>2. turn' = [turn EXCEPT ![t] = [turn[t] EXCEPT !.stage = "user", !.told = told]]
    BY <1>1 DEF ContextNote
  <2> QED BY <2>1, <2>2
<1> HIDE DEF told
<1>4. /\ At(t, "note") /\ UNCHANGED <<threads, proposals, running, clearing>>
      /\ failures' \in 0 .. MaxFailures
  BY Typed DEF ContextNote
<1> QED BY <1>1, <1>2, <1>3, <1>4, Noted

LEMMA ContextNoteFailsKeeps == ASSUME IInv, NEW t \in Tabs, ContextNoteFails(t) PROVE IInv'
<1>1. turn \in [Tabs -> Turn] /\ turn[t] \in Turn /\ At(t, "note")
  BY Typed DEF ContextNoteFails
<1>2. turn[t].told = {}
  BY <1>1 DEF IInv, TurnOK, Telling, At
<1>3. turn' = [turn EXCEPT ![t] = [turn[t] EXCEPT !.stage = "user", !.told = {}, !.blind = TRUE]]
  <2>1. [turn[t] EXCEPT !.stage = "user", !.blind = TRUE]
        = [turn[t] EXCEPT !.stage = "user", !.told = {}, !.blind = TRUE]
    BY <1>1, <1>2 DEF Turn
  <2>2. turn' = [turn EXCEPT ![t] = [turn[t] EXCEPT !.stage = "user", !.blind = TRUE]]
    BY <1>1 DEF ContextNoteFails
  <2> QED BY <2>1, <2>2
<1>4. UNCHANGED <<threads, proposals, running, clearing>> /\ failures' \in 0 .. MaxFailures
  BY Typed, AssistantAssumption DEF ContextNoteFails
<1>5. {} \subseteq ResolvedForThread(t) /\ {} \in SUBSET ProposalIds /\ TRUE \in BOOLEAN
  OBVIOUS
<1> QED BY <1>1, <1>3, <1>4, <1>5, Noted

LEMMA StoreMessageKeeps == ASSUME IInv, NEW t \in Tabs, StoreMessage(t) PROVE IInv'
<1> DEFINE row == UserRow(turn[t].told, turn[t].blind)
           conv == Conversation(Append(turn[t].history, row))
           r == [Idle EXCEPT !.stage = "stream", !.thread = Thread(t), !.step = 1, !.conversation = conv]
<1>1. /\ turn \in [Tabs -> Turn] /\ turn[t] \in Turn /\ At(t, "user") /\ Sending(t) /\ Telling(t)
      /\ turn[t].told \in SUBSET ProposalIds /\ turn[t].blind \in BOOLEAN
  BY Typed DEF IInv, TurnOK, StoreMessage, Turn
<1>2. /\ row \in Row /\ row.role = "user" /\ row.told = turn[t].told /\ row.blind = turn[t].blind
      /\ AsStored(row) = row
  BY <1>1, RowTypes
<1>3. /\ Store(t, row) /\ Live(t) /\ UNCHANGED <<proposals, running, clearing, failures>>
      /\ turn' = [turn EXCEPT ![t] = r]
  BY DEF StoreMessage, Store
<1>4. turn[t].history = Rows(t)
  BY <1>1, <1>3 DEF Sending, At
<1> HIDE DEF row
<1>5. \A p \in row.told : /\ p \in DOMAIN proposals /\ proposals[p].status = "settled"
                          /\ proposals[p].at = Len(Rows(t))
  BY <1>1, <1>2, <1>3, <1>4 DEF Telling
<1>6. \A p \in DOMAIN proposals :
        proposals[p].thread = Thread(t) /\ Untold(p) => row.role = "user" /\ (p \in row.told \/ row.blind)
  BY <1>1, <1>2, <1>3 DEF Telling
<1>7. PICK k : k = Thread(t)
  OBVIOUS
<1>8. /\ threads' \in Seq(ThreadRow) /\ Len(threads') = Len(threads)
      /\ \A n \in 1 .. Len(threads') - 1 : ~threads'[n].alive
      /\ k \in DOMAIN threads' /\ k \in DOMAIN threads /\ Rows(t) \in Seq(Row)
      /\ threads'[k].rows = Append(Rows(t), row)
      /\ \A n \in DOMAIN threads' : ThreadOK(n)'
      /\ \A p \in DOMAIN proposals' : ProposalOK(p)'
      /\ \A p \in DOMAIN proposals' : proposals'[p].thread = k => ~Untold(p)'
  BY <1>2, <1>3, <1>5, <1>6, <1>7, Storing
<1>9. /\ Append(Rows(t), row) \in Seq(Row) /\ conv = Conversation(threads'[k].rows)
      /\ Closed(threads'[k].rows)
  <2>1. /\ Append(Rows(t), row) \in Seq(Row) /\ Append(Rows(t), row) # <<>>
        /\ Append(Rows(t), row)[Len(Append(Rows(t), row))] = row
    BY <1>2, <1>8, Appended
  <2>2. conv = Conversation(threads'[k].rows)
    BY <1>4, <1>8
  <2>3. Closed(threads'[k].rows)
    BY <1>2, <1>8, <2>1 DEF Closed
  <2> QED BY <2>1, <2>2, <2>3
<1>10. conv \in Seq(Message) /\ Replayable(conv) /\ Stripped(conv) = conv
  <2>1. threads'[k].rows \in Seq(Row)
    BY <1>8, <1>9
  <2>2. Paired(threads'[k].rows) /\ \A i \in DOMAIN threads'[k].rows : Clean(threads'[k].rows[i])
    BY <1>8 DEF ThreadOK
  <2> QED BY <1>9, <2>1, <2>2, ConversationType, PairedReplays, CleanConversation
<1> HIDE DEF conv
<1>11. /\ r \in Turn /\ r.stage = "stream" /\ r.thread = k /\ r.conversation = conv
  <2>1. k \in 0 .. MaxThreads /\ 1 \in 0 .. MaxSteps
    BY <1>8, Typed, AssistantAssumption
  <2>2. r.stage = "stream" /\ r.thread = k /\ r.conversation = conv
    BY <1>7 DEF Idle
  <2>3. r \in Turn
    BY <1>7, <1>10, <2>1, Rested DEF Turn
  <2> QED BY <2>2, <2>3
<1> HIDE DEF r
<1>12. turn'[t] = r /\ ~At(t, "idle")
  BY <1>1, <1>3 DEF At
<1>13. /\ OneTurn' /\ turn' \in [Tabs -> Turn] /\ \A u \in Tabs \ {t} : TurnOK(u)'
  BY <1>3, <1>11, <1>12, Going
<1>14. TurnOK(t)'
  <2>1. Thread(t)' = k /\ Rows(t)' = threads'[k].rows
    BY <1>11, <1>12 DEF Thread, Rows
  <2>2. Sending(t)'
    BY <1>9, <1>10, <1>11, <1>12, <2>1 DEF Sending, At
  <2>3. Telling(t)'
    BY <1>8, <1>11, <1>12, <2>1 DEF Telling, At
  <2> QED BY <1>8, <1>11, <1>12, <2>1, <2>2, <2>3 DEF TurnOK
<1>15. AssistantTypeOK'
  BY <1>3, <1>8, <1>13 DEF IInv, AssistantTypeOK, ThreadRow
<1> QED BY <1>3, <1>8, <1>13, <1>14, <1>15 DEF IInv

LEMMA ReplyKeeps ==
  ASSUME IInv, NEW t \in Tabs, NEW text \in Text, NEW calls \in SUBSET Calls,
         NEW nul \in BOOLEAN, Reply(t, text, calls, nul)
  PROVE  IInv'
<1> DEFINE row == ReplyRow(text, calls, nul)
<1>1. /\ row \in Row /\ row.role = "assistant" /\ row.calls = calls /\ row.native = calls
      /\ row.told = {} /\ row.interrupted = FALSE /\ MessageOf(row) \in Message
  BY DEF ReplyRow, Row, MessageOf, Message
<1>2. Store(t, row) /\ Live(t) /\ UNCHANGED <<proposals, clearing, failures>> /\ At(t, "stream")
  BY DEF Reply, Store
<1> HIDE DEF row
<1>3. CASE calls = {}
  <2>1. EndTurn(t) /\ turn[t].stage \in {"stream", "tools", "notice"}
    BY <1>2, <1>3 DEF Reply, At
  <2> QED BY <1>1, <1>2, <1>3, <2>1, StoredLast
<1>4. CASE calls # {}
  <2> DEFINE asked == turn[t].conversation
             r == [turn[t] EXCEPT !.stage = "tools", !.conversation = Append(asked, MessageOf(row))]
  <2>1. /\ turn \in [Tabs -> Turn] /\ turn[t] \in Turn /\ asked \in Seq(Message)
        /\ Sending(t) /\ Telling(t)
    BY Typed DEF IInv, TurnOK, Turn
  <2>2. turn' = [turn EXCEPT ![t] = r] /\ UNCHANGED running
    BY <1>4, <2>1 DEF Reply, row
  <2>3. /\ r \in Turn /\ r.stage = "tools" /\ r.conversation = Append(asked, MessageOf(row))
        /\ r.thread = turn[t].thread
    <3>1. Append(asked, MessageOf(row)) \in Seq(Message)
      BY <1>1, <2>1
    <3> QED BY <2>1, <3>1 DEF Turn
  <2> HIDE DEF r
  <2>4. Closed(Rows(t)) /\ Stripped(asked) = Conversation(Rows(t)) /\ Replayable(asked)
    BY <1>2, <2>1 DEF Sending
  <2>5. \A p \in DOMAIN proposals : proposals[p].thread = Thread(t) => ~Untold(p)
    BY <1>2, <2>1 DEF Telling, At
  <2>6. PICK k : k = Thread(t)
    OBVIOUS
  <2>7. /\ threads' \in Seq(ThreadRow) /\ Len(threads') = Len(threads)
        /\ \A n \in 1 .. Len(threads') - 1 : ~threads'[n].alive
        /\ k \in DOMAIN threads' /\ Rows(t) \in Seq(Row)
        /\ threads'[k].rows = Append(Rows(t), AsStored(row))
        /\ \A n \in DOMAIN threads' : ThreadOK(n)'
        /\ \A p \in DOMAIN proposals' : ProposalOK(p)'
        /\ \A p \in DOMAIN proposals' : proposals'[p].thread = k => ~Untold(p)'
    BY <1>1, <1>2, <2>5, <2>6, Storing
  <2>8. turn'[t] = r /\ ~At(t, "idle")
    BY <1>2, <2>1, <2>2 DEF At
  <2>9. /\ OneTurn' /\ turn' \in [Tabs -> Turn] /\ \A u \in Tabs \ {t} : TurnOK(u)'
    BY <2>2, <2>3, <2>8, Going
  <2>10. TurnOK(t)'
    <3>1. Thread(t)' = k /\ Rows(t)' = Append(Rows(t), AsStored(row))
      BY <2>3, <2>6, <2>7, <2>8 DEF Thread, Rows
    <3>2. Asking(t)'
      <4>1. /\ turn'[t].conversation = Append(asked, MessageOf(ReplyRow(text, calls, nul)))
            /\ Rows(t)' = Append(Rows(t), AsStored(ReplyRow(text, calls, nul)))
        BY <2>3, <2>8, <3>1 DEF row
      <4> QED BY <1>4, <2>1, <2>4, <2>7, <4>1 DEF Asking
    <3>3. Sending(t)'
      BY <2>3, <2>8, <3>2 DEF Sending, At
    <3>4. Telling(t)'
      BY <2>3, <2>7, <2>8, <3>1 DEF Telling, At
    <3> QED BY <2>3, <2>7, <2>8, <3>1, <3>3, <3>4 DEF TurnOK
  <2>11. AssistantTypeOK'
    BY <1>2, <2>2, <2>7, <2>9 DEF IInv, AssistantTypeOK, ThreadRow
  <2> QED BY <1>2, <2>7, <2>9, <2>10, <2>11 DEF IInv
<1> QED BY <1>3, <1>4

LEMMA ReplyUnfinishedKeeps ==
  ASSUME IInv, NEW t \in Tabs, NEW text \in Text, ReplyUnfinished(t, text)
  PROVE  IInv'
<1> DEFINE row == UnfinishedRow(text)
<1>1. /\ row \in Row /\ row.role = "assistant" /\ row.calls = {} /\ row.native = {} /\ row.told = {}
  BY RowTypes
<1>2. /\ Store(t, row) /\ EndTurn(t) /\ UNCHANGED <<proposals, clearing, failures>>
      /\ turn[t].stage \in {"stream", "tools", "notice"}
  BY DEF ReplyUnfinished, At
<1> HIDE DEF row
<1> QED BY <1>1, <1>2, StoredLast

LEMMA StoreNoticeKeeps == ASSUME IInv, NEW t \in Tabs, StoreNotice(t) PROVE IInv'
<1> DEFINE row == UnfinishedRow("none")
<1>1. /\ row \in Row /\ row.role = "assistant" /\ row.calls = {} /\ row.native = {} /\ row.told = {}
  BY RowTypes DEF Text
<1>2. /\ Store(t, row) /\ EndTurn(t) /\ UNCHANGED <<proposals, clearing, failures>>
      /\ turn[t].stage \in {"stream", "tools", "notice"}
  BY DEF StoreNotice, At
<1> HIDE DEF row
<1> QED BY <1>1, <1>2, StoredLast

LEMMA ProviderFailsKeeps == ASSUME IInv, NEW t \in Tabs, ProviderFails(t) PROVE IInv'
  BY Quiet, Typed DEF ProviderFails, At

LEMMA StoreFailsKeeps == ASSUME IInv, NEW t \in Tabs, StoreFails(t) PROVE IInv'
<1>1. failures' \in 0 .. MaxFailures
  BY Typed, AssistantAssumption DEF StoreFails
<1> QED BY <1>1, Quiet DEF StoreFails, At

LEMMA StoreResultsKeeps ==
  ASSUME IInv, NEW t \in Tabs, NEW nul \in BOOLEAN, StoreResults(t, nul)
  PROVE  IInv'
<1>1. /\ turn \in [Tabs -> Turn] /\ turn[t] \in Turn /\ At(t, "tools") /\ Sending(t) /\ Telling(t)
      /\ Live(t) /\ Thread(t) \in DOMAIN threads /\ turn[t].step \in 0 .. MaxSteps
  BY Typed DEF IInv, TurnOK, StoreResults, Store, At, Turn
<1>2. Asking(t)
  BY <1>1 DEF Sending
<1>3. PICK text \in Text, calls \in (SUBSET Calls) \ {{}}, odd \in BOOLEAN,
            asked \in Seq(Message), before \in Seq(Row) :
        /\ turn[t].conversation = Append(asked, MessageOf(ReplyRow(text, calls, odd)))
        /\ Replayable(asked)
        /\ Closed(before) /\ Rows(t) = Append(before, AsStored(ReplyRow(text, calls, odd)))
        /\ Stripped(asked) = Conversation(before)
  BY <1>1, <1>2 DEF Asking
<1> DEFINE reply == ReplyRow(text, calls, odd)
           row   == ToolRow(calls, nul)
           conv  == Append(turn[t].conversation, MessageOf(row))
<1>4. /\ reply \in Row /\ reply.role = "assistant" /\ reply.calls = calls
      /\ reply.interrupted = FALSE /\ MessageOf(reply) \in Message /\ MessageOf(reply).calls = calls
      /\ row \in Row /\ row.role = "tool" /\ row.calls = calls /\ row.told = {}
      /\ MessageOf(row) \in Message /\ calls # {}
      /\ MessageOf(reply).role = "assistant" /\ MessageOf(reply).native = calls
      /\ MessageOf(row).role = "tool" /\ MessageOf(row).calls = calls
  <2>1. calls \in SUBSET Calls /\ calls # {}
    OBVIOUS
  <2>2. /\ reply \in Row /\ reply.role = "assistant" /\ reply.calls = calls
        /\ reply.interrupted = FALSE /\ MessageOf(reply) \in Message /\ MessageOf(reply).calls = calls
        /\ MessageOf(reply).role = "assistant" /\ MessageOf(reply).native = calls
    BY <2>1 DEF ReplyRow, Row, MessageOf, Message
  <2> HIDE DEF reply
  <2>3. /\ row \in Row /\ row.role = "tool" /\ row.calls = calls /\ row.told = {}
        /\ MessageOf(row) \in Message /\ MessageOf(row).role = "tool" /\ MessageOf(row).calls = calls
    BY <2>1, ToolRowType
  <2> QED BY <2>1, <2>2, <2>3
<1>4a. /\ AsStored(reply) \in Row /\ AsStored(reply).role = "assistant"
       /\ AsStored(reply).calls = calls /\ ~AsStored(reply).interrupted
       /\ MessageOf(AsStored(reply)) = AsStored(MessageOf(reply))
       /\ AsStored(row) \in Row /\ AsStored(row).role = "tool" /\ AsStored(row).calls = calls
       /\ MessageOf(AsStored(row)) = AsStored(MessageOf(row))
  <2> HIDE DEF reply, row
  <2> QED BY <1>4, AsStoredRow
<1>5. Asked(t) = calls
  <2>1. /\ turn[t].conversation = Append(asked, MessageOf(reply))
        /\ turn[t].conversation[Len(turn[t].conversation)] = MessageOf(reply)
    BY <1>3, <1>4
  <2> QED BY <1>4, <2>1 DEF Asked
<1>6. /\ Rows(t) = Append(before, AsStored(reply)) /\ Rows(t) # <<>>
      /\ Rows(t)[Len(Rows(t))] = AsStored(reply)
  BY <1>3, <1>4a
<1>7. Store(t, row) /\ UNCHANGED <<proposals, clearing, failures>>
  BY <1>5 DEF StoreResults
<1> HIDE DEF row, reply
<1>8. CASE EndTurn(t)
  <2>1. turn[t].stage \in {"stream", "tools", "notice"}
    BY <1>1 DEF At
  <2> QED BY <1>4, <1>4a, <1>6, <1>7, <1>8, <2>1, StoredLast
<1>9. CASE /\ LET more == turn[t].step < MaxSteps
              IN  turn' = [turn EXCEPT ![t].stage = IF more THEN "stream" ELSE "notice",
                                       ![t].step = IF more THEN @ + 1 ELSE @,
                                       ![t].conversation = conv]
           /\ UNCHANGED running
  <2> DEFINE stage == IF turn[t].step < MaxSteps THEN "stream" ELSE "notice"
             step  == IF turn[t].step < MaxSteps THEN turn[t].step + 1 ELSE turn[t].step
             r == [turn[t] EXCEPT !.stage = stage, !.step = step, !.conversation = conv]
  <2>1. stage \in {"stream", "notice"} /\ step \in 0 .. MaxSteps
    BY <1>1, AssistantAssumption
  <2>2. conv \in Seq(Message)
    BY <1>3, <1>4 DEF reply
  <2>3. turn' = [turn EXCEPT ![t] = r]
    BY <1>1, <1>9
  <2> HIDE DEF stage, step, conv
  <2>4. /\ r \in Turn /\ r.stage = stage /\ r.conversation = conv /\ r.thread = turn[t].thread
    BY <1>1, <2>1, <2>2 DEF Turn
  <2> HIDE DEF r
  <2>5. turn'[t] = r /\ ~At(t, "idle") /\ r.stage # "idle"
    BY <1>1, <2>1, <2>3, <2>4 DEF At
  <2>6. /\ OneTurn' /\ turn' \in [Tabs -> Turn] /\ \A u \in Tabs \ {t} : TurnOK(u)'
    BY <1>9, <2>3, <2>4, <2>5, Going
  <2>7. PICK k : k = Thread(t)
    OBVIOUS
  <2>8. \A p \in DOMAIN proposals : proposals[p].thread = k => ~Untold(p)
    BY <1>1, <2>7 DEF Telling, At
  <2>9. /\ threads' \in Seq(ThreadRow) /\ Len(threads') = Len(threads)
        /\ \A n \in 1 .. Len(threads') - 1 : ~threads'[n].alive
        /\ k \in DOMAIN threads' /\ Rows(t) \in Seq(Row)
        /\ threads'[k].rows = Append(Rows(t), AsStored(row))
        /\ \A n \in DOMAIN threads' : ThreadOK(n)'
        /\ \A p \in DOMAIN proposals' : ProposalOK(p)'
        /\ \A p \in DOMAIN proposals' : proposals'[p].thread = k => ~Untold(p)'
    BY <1>4, <1>4a, <1>6, <1>7, <2>7, <2>8, Storing
  <2>10. Thread(t)' = k /\ Rows(t)' = threads'[k].rows
    BY <2>4, <2>5, <2>7 DEF Thread, Rows
  <2>11. Stripped(conv) = Conversation(threads'[k].rows)
    <3>1. threads'[k].rows = Append(Append(before, AsStored(reply)), AsStored(row))
      BY <1>6, <2>9
    <3>2. Conversation(Append(Append(before, AsStored(reply)), AsStored(row)))
          = Append(Append(Conversation(before), AsStored(MessageOf(reply))), AsStored(MessageOf(row)))
      BY <1>3, <1>4, <1>4a, TwoMore
    <3>3. conv = Append(Append(asked, MessageOf(reply)), MessageOf(row))
      BY <1>3 DEF conv, reply
    <3>4. Stripped(Append(asked, MessageOf(reply))) = Append(Stripped(asked), AsStored(MessageOf(reply)))
      BY <1>4, StrippedMore
    <3>5. Append(asked, MessageOf(reply)) \in Seq(Message)
      BY <1>4
    <3>6. Stripped(conv) = Append(Stripped(Append(asked, MessageOf(reply))), AsStored(MessageOf(row)))
      BY <1>4, <3>3, <3>5, StrippedMore
    <3> QED BY <1>3, <3>1, <3>2, <3>4, <3>6
  <2>12. Replayable(conv) /\ Closed(threads'[k].rows)
    <3>1. conv = Append(Append(asked, MessageOf(reply)), MessageOf(row))
      BY <1>3 DEF conv, reply
    <3>2. Replayable(conv)
      BY <1>3, <1>4, <3>1, ReplayablePair
    <3>3. Closed(threads'[k].rows)
      BY <1>4a, <2>9, Appended DEF Closed
    <3> QED BY <3>2, <3>3
  <2>13. Sending(t)'
    BY <2>1, <2>4, <2>5, <2>10, <2>11, <2>12 DEF Sending, At
  <2>14. Telling(t)'
    BY <2>1, <2>4, <2>5, <2>9, <2>10 DEF Telling, At
  <2>15. TurnOK(t)'
    BY <2>1, <2>4, <2>5, <2>9, <2>10, <2>13, <2>14 DEF TurnOK
  <2>16. AssistantTypeOK'
    BY <1>7, <1>9, <2>6, <2>9 DEF IInv, AssistantTypeOK, ThreadRow
  <2> QED BY <1>7, <2>6, <2>9, <2>15, <2>16 DEF IInv
<1> QED BY <1>5, <1>8, <1>9 DEF StoreResults, row

\* A proposal more, and the one that waited is replaced.
LEMMA RunToolKeeps == ASSUME IInv, NEW t \in Tabs, RunTool(t) PROVE IInv'
<1> DEFINE new == [thread |-> Thread(t), status |-> "pending", at |-> 0, between |-> FALSE]
           old == [p \in DOMAIN proposals |->
                     IF proposals[p].status = "pending"
                     THEN [proposals[p] EXCEPT !.status = "superseded"] ELSE proposals[p]]
           n   == Len(proposals) + 1
<1>1. /\ UNCHANGED <<threads, running, turn, clearing, failures>> /\ At(t, "tools")
      /\ TurnOK(t) /\ Len(proposals) < MaxProposals
  BY DEF RunTool, IInv
<1>2. new \in ProposalRow /\ new.thread = Thread(t) /\ new.status = "pending"
      /\ new.at = 0 /\ new.between = FALSE /\ Thread(t) \in DOMAIN threads
  <2>1. Thread(t) \in DOMAIN threads
    BY <1>1 DEF TurnOK, At
  <2>2. Thread(t) \in 1 .. MaxThreads
    BY <2>1, Typed, AssistantAssumption
  <2> QED BY <2>1, <2>2 DEF ProposalRow
<1>3. /\ old \in Seq(ProposalRow) /\ Len(old) = Len(proposals)
      /\ \A p \in DOMAIN proposals :
           /\ old[p].thread = proposals[p].thread /\ old[p].at = proposals[p].at
           /\ old[p].between = proposals[p].between
           /\ old[p].status = "settled" <=> proposals[p].status = "settled"
  <2>1. \A p \in DOMAIN proposals :
          /\ old[p] \in ProposalRow
          /\ old[p].thread = proposals[p].thread /\ old[p].at = proposals[p].at
          /\ old[p].between = proposals[p].between
          /\ old[p].status = "settled" <=> proposals[p].status = "settled"
    BY Typed DEF ProposalRow
  <2>2. DOMAIN old = 1 .. Len(proposals) /\ Len(proposals) \in Nat
    BY Typed
  <2>3. old = [i \in 1 .. Len(proposals) |-> old[i]]
    BY <2>2
  <2> HIDE DEF old
  <2>4. old \in Seq(ProposalRow)
    BY <2>1, <2>2, <2>3, Typed
  <2> QED BY <2>1, <2>2, <2>4
<1>4. proposals' = Append(old, new)
  BY DEF RunTool
<1> HIDE DEF old, new
<1>5. /\ proposals' \in Seq(ProposalRow) /\ Len(proposals') = n /\ DOMAIN proposals' = 1 .. n
      /\ proposals'[n] = new /\ Len(proposals') <= MaxProposals
      /\ \A p \in DOMAIN proposals : p \in DOMAIN proposals' /\ proposals'[p] = old[p]
      /\ \A p \in DOMAIN proposals' : p \in DOMAIN proposals \/ p = n
  BY <1>1, <1>2, <1>3, <1>4, Typed, AssistantAssumption
<1>6. \A p \in DOMAIN proposals : Between(p)' <=> Between(p)
  BY <1>3, <1>5 DEF Between
<1>7. \A p \in DOMAIN proposals : RowsOf(p)' = RowsOf(p) /\ (Untold(p)' <=> Untold(p))
  <2>1. \A p \in DOMAIN proposals : RowsOf(p)' = RowsOf(p)
    BY <1>1, <1>3, <1>5 DEF RowsOf
  <2> QED BY <1>3, <1>5, <1>6, <2>1 DEF Untold
<1>8. \A m \in DOMAIN threads' : ThreadOK(m)'
  <2>1. SUFFICES ASSUME NEW m \in DOMAIN threads PROVE ThreadOK(m)'
    BY <1>1
  <2>2. ThreadOK(m)
    BY DEF IInv
  <2> QED BY <1>1, <1>3, <1>5, <2>2 DEF ThreadOK, Told
<1>9. \A p \in DOMAIN proposals : ProposalOK(p)'
  <2>1. SUFFICES ASSUME NEW p \in DOMAIN proposals PROVE ProposalOK(p)'
    OBVIOUS
  <2>2. ProposalOK(p)
    BY DEF IInv
  <2>3. /\ proposals'[p].thread = proposals[p].thread /\ proposals'[p].at = proposals[p].at
        /\ threads' = threads /\ RowsOf(p)' = RowsOf(p) /\ (Between(p)' <=> Between(p))
    BY <1>1, <1>3, <1>5, <1>6, <1>7
  <2> QED BY <2>2, <2>3 DEF ProposalOK
<1>10. ASSUME NEW p, p = n PROVE ProposalOK(p)' /\ ~Untold(p)'
  <2>1. /\ proposals'[p].thread = Thread(t) /\ proposals'[p].at = 0
        /\ ~Between(p)' /\ RowsOf(p)' = Rows(t)
    BY <1>1, <1>2, <1>5, <1>10 DEF Between, RowsOf, Rows
  <2>2. Live(t) => Rows(t) # <<>>
    <3>1. SUFFICES ASSUME Live(t) PROVE Rows(t) # <<>>
      OBVIOUS
    <3>2. PICK text \in Text, calls \in (SUBSET Calls) \ {{}}, nul \in BOOLEAN, before \in Seq(Row) :
            Rows(t) = Append(before, AsStored(ReplyRow(text, calls, nul)))
      BY <1>1, <3>1 DEF TurnOK, Sending, Asking
    <3> QED BY <3>2
  <2>3. Thread(t) # 0 /\ Rows(t) \in Seq(Row) /\ Len(Rows(t)) \in Nat
    BY <1>2, Typed DEF Rows
  <2>4. threads[Thread(t)].alive => Rows(t) # <<>>
    BY <2>2, <2>3 DEF Live
  <2>5. ProposalOK(p)'
    BY <1>1, <1>2, <2>1, <2>3, <2>4 DEF ProposalOK
  <2> QED BY <2>1, <2>5 DEF Untold
<1>11. ASSUME NEW u \in Tabs PROVE TurnOK(u)'
  <2>1. TurnOK(u)
    BY DEF IInv
  <2>2. Sending(u)'
    <3>1. (Live(u)' <=> Live(u)) /\ Rows(u)' = Rows(u) /\ turn'[u] = turn[u]
      BY <1>1 DEF Live, Rows, Thread
    <3>2. Asking(u) => Asking(u)'
      BY <3>1 DEF Asking
    <3> QED BY <2>1, <3>1, <3>2 DEF TurnOK, Sending, At
  <2>3. Telling(u)'
    <3>1. \A p \in DOMAIN proposals' : Untold(p)' => p \in DOMAIN proposals /\ Untold(p)
      BY <1>5, <1>7, <1>10
    <3>2. /\ \A p \in DOMAIN proposals :
               /\ p \in DOMAIN proposals' /\ proposals'[p].thread = proposals[p].thread
               /\ proposals'[p].at = proposals[p].at
               /\ proposals'[p].status = "settled" <=> proposals[p].status = "settled"
      BY <1>3, <1>5
    <3> QED BY <1>1, <2>1, <3>1, <3>2 DEF TurnOK, Telling, At, Live, Thread
  <2> QED BY <1>1, <2>1, <2>2, <2>3 DEF TurnOK, Thread
<1>12. AssistantTypeOK' /\ OneTurn'
  BY <1>1, <1>5 DEF IInv, AssistantTypeOK, OneTurn, At, ProposalRow
<1> QED BY <1>5, <1>8, <1>9, <1>10, <1>11, <1>12 DEF IInv

-----------------------------------------------------------------------------
(* The steps around a turn.                                                 *)

\* Nothing that counts has changed.
LEMMA NothingKept ==
  ASSUME IInv, UNCHANGED <<threads, proposals, running, turn>>,
         clearing' \subseteq Tabs, failures' \in 0 .. MaxFailures
  PROVE  IInv'
<1>1. AssistantTypeOK' /\ OneTurn' /\ Len(proposals') <= MaxProposals
  BY DEF IInv, AssistantTypeOK, OneTurn, At
<1>2. ASSUME NEW t \in Tabs PROVE TurnOK(t)'
  <2>1. TurnOK(t) /\ (Live(t)' <=> Live(t)) /\ Rows(t)' = Rows(t) /\ Thread(t)' = Thread(t)
    BY DEF IInv, Live, Rows, Thread
  <2>2. Sending(t)'
    <3>1. Asking(t) => Asking(t)'
      BY <2>1 DEF Asking
    <3> QED BY <2>1, <3>1 DEF TurnOK, Sending, At
  <2>3. Telling(t)'
    <3>1. \A p \in DOMAIN proposals : Untold(p)' <=> Untold(p)
      BY DEF Untold, Between, RowsOf
    <3> QED BY <2>1, <3>1 DEF TurnOK, Telling, At
  <2> QED BY <2>1, <2>2, <2>3 DEF TurnOK
<1> QED BY <1>1, <1>2, ThreadsStay DEF IInv

LEMMA CheckClearKeeps == ASSUME IInv, NEW t \in Tabs, CheckClear(t) PROVE IInv'
  BY NothingKept, Typed DEF CheckClear

LEMMA ClearKeeps == ASSUME IInv, NEW t \in Tabs, Clear(t) PROVE IInv'
<1> DEFINE gone == [alive |-> FALSE, rows |-> <<>>]
<1>1. UNCHANGED <<proposals, running, turn, failures>> /\ clearing' \subseteq Tabs
  BY Typed DEF Clear
<1>2. /\ threads' \in Seq(ThreadRow) /\ DOMAIN threads' = DOMAIN threads /\ Len(threads') = Len(threads)
      /\ \A n \in DOMAIN threads : threads'[n].alive = FALSE /\ threads'[n].rows = <<>>
  <2>1. threads' = [n \in 1 .. Len(threads) |-> gone] /\ Len(threads) \in Nat
    BY Typed DEF Clear
  <2>2. gone \in ThreadRow /\ gone.alive = FALSE /\ gone.rows = <<>>
    BY DEF ThreadRow
  <2> HIDE DEF gone
  <2>3. threads' \in Seq(ThreadRow) /\ Len(threads') = Len(threads)
        /\ \A n \in 1 .. Len(threads) : threads'[n] = gone
    BY <2>1, <2>2
  <2> QED BY <2>2, <2>3, Typed
<1>3. AssistantTypeOK' /\ OneTurn' /\ Len(proposals') <= MaxProposals
  <2>1. \A n \in 1 .. Len(threads') - 1 : ~threads'[n].alive
    <3>1. \A n \in 1 .. Len(threads') - 1 : n \in DOMAIN threads
      BY <1>2, Typed
    <3> QED BY <1>2, <3>1
  <2> QED BY <1>1, <1>2, <2>1 DEF IInv, AssistantTypeOK, OneTurn, At, ThreadRow
<1>4. \A n \in DOMAIN threads' : ThreadOK(n)'
  BY <1>2 DEF ThreadOK, Told, Paired
<1>5. \A p \in DOMAIN proposals' : ProposalOK(p)'
  <2>1. SUFFICES ASSUME NEW p \in DOMAIN proposals PROVE ProposalOK(p)'
    BY <1>1
  <2>2. ProposalOK(p) /\ proposals[p].at \in Nat
    BY Typed DEF IInv
  <2>3. /\ proposals'[p] = proposals[p] /\ proposals[p].thread \in DOMAIN threads'
        /\ threads'[proposals[p].thread].alive = FALSE /\ RowsOf(p)' = <<>>
    BY <1>1, <1>2, <2>2 DEF ProposalOK, RowsOf
  <2>4. ~(proposals[p].at < Len(RowsOf(p)'))
    BY <2>2, <2>3
  <2> QED BY <2>3, <2>4 DEF ProposalOK
<1>6. ASSUME NEW t1 \in Tabs PROVE TurnOK(t1)'
  <2>1. TurnOK(t1) /\ turn'[t1] = turn[t1] /\ Thread(t1)' = Thread(t1)
    BY <1>1 DEF IInv, Thread
  <2>2. ~Live(t1)'
    <3>1. Thread(t1) = 0 \/ Thread(t1) \in DOMAIN threads
      BY <2>1 DEF TurnOK
    <3> QED BY <1>2, <2>1, <3>1 DEF Live
  <2>3. Sending(t1)'
    <3>1. Asking(t1) => Asking(t1)'
      BY <2>1, <2>2 DEF Asking
    <3> QED BY <2>1, <2>2, <3>1 DEF TurnOK, Sending, At
  <2>4. Telling(t1)'
    BY <1>1, <2>1, <2>2 DEF TurnOK, Telling, At
  <2> QED BY <1>2, <2>1, <2>3, <2>4 DEF TurnOK
<1> QED BY <1>3, <1>4, <1>5, <1>6 DEF IInv

LEMMA DecideKeeps == ASSUME IInv, NEW p \in DOMAIN proposals, Decide(p) PROVE IInv'
<1> DEFINE new == [proposals[p] EXCEPT !.status = "settled", !.between = ~running, !.at = Len(RowsOf(p))]
<1>1. /\ UNCHANGED <<threads, running, turn, clearing, failures>> /\ proposals[p].status = "pending"
  BY DEF Decide
<1>2. ProposalOK(p) /\ RowsOf(p) \in Seq(Row) /\ Len(RowsOf(p)) \in Nat
      /\ proposals[p].thread \in DOMAIN threads
  <2>1. ProposalOK(p) /\ proposals[p].thread \in DOMAIN threads
    BY DEF IInv, ProposalOK
  <2>2. RowsOf(p) \in Seq(Row)
    BY <2>1, Typed DEF RowsOf
  <2> QED BY <2>1, <2>2
<1>3. /\ new \in ProposalRow /\ new.thread = proposals[p].thread /\ new.status = "settled"
      /\ new.at = Len(RowsOf(p)) /\ new.between = ~running
  <2>1. proposals[p] \in ProposalRow
    BY Typed
  <2>2. (~running) \in BOOLEAN
    OBVIOUS
  <2> QED BY <1>2, <2>1, <2>2 DEF ProposalRow
<1>4. proposals' = [proposals EXCEPT ![p] = new]
  BY Typed DEF Decide, RowsOf
<1> HIDE DEF new
<1>5. /\ proposals' \in Seq(ProposalRow) /\ DOMAIN proposals' = DOMAIN proposals
      /\ Len(proposals') = Len(proposals) /\ proposals'[p] = new
      /\ \A q \in DOMAIN proposals \ {p} : proposals'[q] = proposals[q]
  BY <1>3, <1>4, Typed
<1>6. \A q \in DOMAIN proposals : RowsOf(q)' = RowsOf(q) /\ proposals'[q].thread = proposals[q].thread
  BY <1>1, <1>3, <1>5 DEF RowsOf
<1>7. AssistantTypeOK' /\ OneTurn' /\ Len(proposals') <= MaxProposals
  BY <1>1, <1>5 DEF IInv, AssistantTypeOK, OneTurn, At, ProposalRow
<1>8. \A n \in DOMAIN threads' : ThreadOK(n)'
  <2>1. SUFFICES ASSUME NEW n \in DOMAIN threads PROVE ThreadOK(n)'
    BY <1>1
  <2>2. ThreadOK(n)
    BY DEF IInv
  <2> QED BY <1>1, <1>5, <2>2 DEF ThreadOK, Told
<1>9. \A q \in DOMAIN proposals' : ProposalOK(q)'
  <2>1. ASSUME NEW q \in DOMAIN proposals \ {p} PROVE ProposalOK(q)'
    <3>1. ProposalOK(q) /\ proposals'[q] = proposals[q] /\ RowsOf(q)' = RowsOf(q)
      BY <1>5, <1>6 DEF IInv
    <3> QED BY <1>1, <3>1 DEF ProposalOK, Between
  <2>2. ProposalOK(p)'
    <3>1. proposals'[p].at = Len(RowsOf(p)) /\ proposals'[p].thread = proposals[p].thread
          /\ RowsOf(p)' = RowsOf(p)
      BY <1>3, <1>5, <1>6
    <3> QED BY <1>1, <1>2, <3>1 DEF ProposalOK
  <2> QED BY <1>5, <2>1, <2>2
<1>10. ASSUME NEW t \in Tabs PROVE TurnOK(t)'
  <2>1. TurnOK(t) /\ turn'[t] = turn[t] /\ Thread(t)' = Thread(t)
        /\ (Live(t)' <=> Live(t)) /\ Rows(t)' = Rows(t)
    BY <1>1 DEF IInv, Thread, Live, Rows
  <2>2. Sending(t)'
    <3>1. Asking(t) => Asking(t)'
      BY <2>1 DEF Asking
    <3> QED BY <2>1, <3>1 DEF TurnOK, Sending, At
  <2>3. Telling(t)'
    <3>1. CASE At(t, "idle")
      BY <2>1, <3>1 DEF TurnOK, Telling, At
    <3>2. CASE ~At(t, "idle")
      <4>1. running = TRUE
        BY <3>2, Others, Typed DEF IInv
      <4>2. ~Between(p)'
        BY <1>3, <1>5, <4>1 DEF Between
      <4>3. \A q \in DOMAIN proposals : Untold(q)' => q # p /\ Untold(q)
        BY <1>5, <1>6, <4>2 DEF Untold, Between
      <4>4. \A q \in DOMAIN proposals : proposals[q].status = "settled" =>
              /\ proposals'[q].status = "settled" /\ proposals'[q].at = proposals[q].at
        BY <1>1, <1>5
      <4> QED BY <1>5, <1>6, <2>1, <4>3, <4>4 DEF TurnOK, Telling, At
    <3> QED BY <3>1, <3>2
  <2> QED BY <1>1, <2>1, <2>2, <2>3 DEF TurnOK
<1> QED BY <1>7, <1>8, <1>9, <1>10 DEF IInv

LEMMA RestartKeeps == ASSUME IInv, Restart PROVE IInv'
<1>1. /\ UNCHANGED <<threads, proposals>> /\ running' = FALSE /\ clearing' \subseteq Tabs
      /\ failures' \in 0 .. MaxFailures
      /\ turn' = [t \in Tabs |-> Idle]
  BY Typed, AssistantAssumption DEF Restart
<1>2. turn' \in [Tabs -> Turn] /\ \A t \in Tabs : turn'[t] = Idle
  BY <1>1, Rested
<1>3. \A t \in Tabs : TurnOK(t)' /\ At(t, "idle")'
  BY <1>2, NothingBegun DEF Idle, At
<1>4. AssistantTypeOK' /\ OneTurn'
  BY <1>1, <1>2, <1>3 DEF IInv, AssistantTypeOK, OneTurn
<1> QED BY <1>1, <1>3, <1>4, ThreadsStay DEF IInv

-----------------------------------------------------------------------------
(* The theorems.                                                            *)

LEMMA InitKeeps == AssistantInit => IInv
<1> SUFFICES ASSUME AssistantInit PROVE IInv
  OBVIOUS
<1>1. /\ threads = <<>> /\ proposals = <<>> /\ running = FALSE /\ clearing = {} /\ failures = 0
      /\ turn \in [Tabs -> Turn] /\ \A t \in Tabs : turn[t] = Idle
  BY Rested DEF AssistantInit
<1>2. AssistantTypeOK /\ Len(proposals) <= MaxProposals
  <2>1. /\ Len(threads) = 0 /\ threads \in Seq(ThreadRow) /\ Len(proposals) = 0
        /\ proposals \in Seq(ProposalRow)
    BY <1>1
  <2>2. 1 .. Len(threads) - 1 = {}
    BY <2>1
  <2>3. /\ running \in BOOLEAN /\ turn \in [Tabs -> Turn] /\ clearing \subseteq Tabs
        /\ failures \in 0 .. MaxFailures /\ Len(threads) <= MaxThreads
    <3>1. running \in BOOLEAN /\ clearing \subseteq Tabs
      BY <1>1
    <3>2. failures \in 0 .. MaxFailures
      BY <1>1, AssistantAssumption
    <3>3. Len(threads) <= MaxThreads
      BY <2>1, AssistantAssumption
    <3> QED BY <1>1, <3>1, <3>2, <3>3
  <2>4. AssistantTypeOK
    BY <2>1, <2>2, <2>3 DEF AssistantTypeOK, ThreadRow, ProposalRow
  <2> QED BY <2>1, <2>4, AssistantAssumption
<1>3. \A t \in Tabs : TurnOK(t)
  BY <1>1 DEF TurnOK, Sending, Telling, Thread, At, Idle
<1>4. OneTurn
  BY <1>1 DEF OneTurn, At, Idle
<1> QED BY <1>1, <1>2, <1>3, <1>4 DEF IInv

LEMMA NextKeeps == IInv /\ [AssistantNext]_vars => IInv'
<1> SUFFICES ASSUME IInv, [AssistantNext]_vars PROVE IInv'
  OBVIOUS
<1>1. ASSUME NEW t \in Tabs, RunStep(t) PROVE IInv'
  BY <1>1, ContextNoteKeeps, ContextNoteFailsKeeps, StoreMessageKeeps, ReplyKeeps, ReplyUnfinishedKeeps,
     ProviderFailsKeeps, RunToolKeeps, StoreResultsKeeps, StoreNoticeKeeps, StoreFailsKeeps DEF RunStep
<1>2. CASE UNCHANGED vars
  BY <1>2, NothingKept, Typed DEF vars
<1> QED BY <1>1, <1>2, PrepareKeeps, GetOrCreateKeeps, ReadHistoryKeeps, PrepareFailsKeeps,
           CheckClearKeeps, ClearKeeps, DecideKeeps, RestartKeeps DEF AssistantNext

LEMMA Invariant == AssistantSpec => []IInv
  BY InitKeeps, NextKeeps, PTL DEF AssistantSpec

\* Whatever is done to a conversation, its state is of the declared types.
THEOREM AssistantTypeCorrect == AssistantSpec => []AssistantTypeOK
<1>1. IInv => AssistantTypeOK
  BY DEF IInv
<1> QED BY <1>1, Invariant, PTL

\* One turn at a time, and the slot is free exactly when none runs (Prepare, release).
THEOREM OneTurnHolds == AssistantSpec => []SlotIsTheTurn
<1>1. ASSUME IInv PROVE SlotIsTheTurn
  <2> DEFINE busy == {t \in Tabs : ~At(t, "idle")}
  <2>1. CASE running = FALSE /\ \A t \in Tabs : At(t, "idle")
    <3>1. busy = {}
      BY <2>1
    <3> QED BY <2>1, <3>1, FS_EmptySet DEF SlotIsTheTurn
  <2>2. ASSUME running = TRUE, NEW t \in Tabs, \A u \in Tabs : At(u, "idle") <=> u # t
        PROVE  SlotIsTheTurn
    <3>1. busy = {t}
      BY <2>2
    <3> QED BY <2>2, <3>1, FS_Singleton DEF SlotIsTheTurn
  <2> QED BY <1>1, <2>1, <2>2, Typed DEF IInv, OneTurn
<1> QED BY <1>1, Invariant, PTL

\* The model is sent what the stored rows will be rebuilt to, but for what the
\* database cannot hold of this turn's own replies and results (Run, Append).
THEOREM SentHolds == AssistantSpec => []SentIsWhatIsStored
<1>1. IInv => SentIsWhatIsStored
  BY DEF IInv, TurnOK, Sending, SentIsWhatIsStored, Stripped, Rows
<1> QED BY <1>1, Invariant, PTL

\* Wherever a turn was cut off, no call is left without its result
\* (ConversationFromMessages).
THEOREM AnswersHold == AssistantSpec => []EveryCallIsAnswered
<1>1. ASSUME IInv PROVE EveryCallIsAnswered
  <2>1. \A n \in DOMAIN threads : Replayable(Conversation(threads[n].rows))
    <3>1. SUFFICES ASSUME NEW n \in DOMAIN threads PROVE Replayable(Conversation(threads[n].rows))
      OBVIOUS
    <3>2. threads[n].rows \in Seq(Row) /\ Paired(threads[n].rows)
      BY <1>1, Typed DEF IInv, ThreadOK
    <3> QED BY <3>2, PairedReplays
  <2>2. \A t \in Tabs : At(t, "stream") => Replayable(turn[t].conversation)
    BY <1>1 DEF IInv, TurnOK, Sending
  <2> QED BY <2>1, <2>2 DEF EveryCallIsAnswered
<1> QED BY <1>1, Invariant, PTL

\* A decision made between turns is told by the next message, and by no other
\* (contextNote, ResolvedForThread).
THEOREM TellingHolds == AssistantSpec => []NextMessageTells
<1>1. ASSUME IInv PROVE NextMessageTells
  <2>1. SUFFICES ASSUME NEW p \in DOMAIN proposals
        PROVE  LET rows == threads[proposals[p].thread].rows
                   at == proposals[p].at
               IN  /\ proposals[p].status = "settled" /\ proposals[p].between /\ at < Len(rows) =>
                        rows[at+1].role = "user" /\ (p \in rows[at+1].told \/ rows[at+1].blind)
                   /\ Cardinality({i \in DOMAIN rows : p \in rows[i].told}) <= 1
    BY DEF NextMessageTells
  <2> DEFINE rows == threads[proposals[p].thread].rows
             telling == {i \in DOMAIN rows : p \in rows[i].told}
  <2>2. ProposalOK(p) /\ ThreadOK(proposals[p].thread) /\ proposals[p].at \in Nat /\ rows \in Seq(Row)
    BY <1>1, Typed DEF IInv, ProposalOK
  <2>3. proposals[p].status = "settled" /\ proposals[p].between /\ proposals[p].at < Len(rows) =>
          rows[proposals[p].at + 1].role = "user"
          /\ (p \in rows[proposals[p].at + 1].told \/ rows[proposals[p].at + 1].blind)
    BY <2>2 DEF ProposalOK, Between, RowsOf
  <2>4. telling \subseteq {proposals[p].at + 1}
    <3>1. SUFFICES ASSUME NEW i \in DOMAIN rows, p \in rows[i].told PROVE i = proposals[p].at + 1
      OBVIOUS
    <3>2. proposals[p].at = i - 1
      BY <2>2, <3>1 DEF ThreadOK, Told
    <3>3. i \in Nat
      BY <2>2
    <3> QED BY <3>2, <3>3
  <2>5. Cardinality(telling) <= 1
    <3> HIDE DEF telling
    <3>1. IsFiniteSet({proposals[p].at + 1}) /\ Cardinality({proposals[p].at + 1}) = 1
      BY FS_Singleton
    <3> QED BY <2>4, <3>1, FS_Subset
  <2> QED BY <2>3, <2>5
<1> QED BY <1>1, Invariant, PTL
=============================================================================
