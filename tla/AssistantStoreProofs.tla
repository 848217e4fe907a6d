-------------------------- MODULE AssistantStoreProofs --------------------------
(***************************************************************************)
(* What holds of the assistant's panel, for every number of builds,         *)
(* messages, pieces, requests and failures.                                 *)
(*                                                                          *)
(* The invariant has two parts.  Control says which tasks may be where, and *)
(* what the screen, the tasks and the turn are to each other, whatever is   *)
(* lost and whatever other tabs do.  Content says how the screen and the    *)
(* stored conversation are related while a message, a load or a follower is *)
(* under way; it says nothing of a screen with a reason in `missed`.        *)
(*                                                                          *)
(* The proof goes through the steps once for each part: the server's, the   *)
(* user's, then those of the functions that go on.                          *)
(***************************************************************************)
EXTENDS AssistantStore, TLAPS, SequenceTheorems, WellFoundedInduction, NaturalsInduction

USE AssistantStoreAssumption

(***************************************************************************)
(* What a screen tells.                                                     *)
(***************************************************************************)

LEMMA Counting ==
  ASSUME NEW S, 0 \in S, \A n \in Nat : n \in S => n + 1 \in S
  PROVE  Nat \subseteq S
<1> DEFINE R == {ss \in Nat \X Nat : ss[1] < ss[2]}
<1>1. IsWellFoundedOn(R, Nat)
  BY NatLessThanWellFounded DEF OpToRel
<1>2. SUFFICES ASSUME Nat \ S # {} PROVE FALSE
  OBVIOUS
<1>3. PICK x \in Nat \ S : \A y \in Nat \ S : ~(<<y, x>> \in R)
  <2> HIDE DEF R
  <2> QED BY <1>1, <1>2, WFMin
<1>4. x # 0 /\ x - 1 \in Nat /\ (x - 1) + 1 = x
  BY <1>3
<1>5. <<x - 1, x>> \in R
  BY <1>3, <1>4
<1>6. x - 1 \in S
  <2> HIDE DEF R
  <2> QED BY <1>3, <1>4, <1>5
<1> QED BY <1>3, <1>4, <1>6

\* A function that takes the first n entries of a screen.
Takes(f, screen, n) ==
  f = [i \in 0 .. n |-> IF i = 0 THEN <<>> ELSE WithEntry(f[i-1], screen[i])]

LEMMA TakesExists ==
  ASSUME NEW screen
  PROVE  \A n \in Nat : \E f : Takes(f, screen, n)
<1> DEFINE S == {n \in Nat : \E f : Takes(f, screen, n)}
<1>1. 0 \in S
  <2>1. Takes([i \in 0 .. 0 |-> <<>>], screen, 0)
    BY DEF Takes
  <2> QED BY <2>1
<1>2. ASSUME NEW n \in Nat, n \in S PROVE n + 1 \in S
  <2>1. PICK f : Takes(f, screen, n)
    BY <1>2
  <2> DEFINE g == [i \in 0 .. n + 1 |-> IF i \in 0 .. n THEN f[i] ELSE WithEntry(f[n], screen[i])]
  <2>2. \A i \in 0 .. n : g[i] = f[i]
    OBVIOUS
  <2>3. \A i \in 0 .. n : f[i] = IF i = 0 THEN <<>> ELSE WithEntry(f[i-1], screen[i])
    BY <2>1 DEF Takes
  <2>4. \A i \in 0 .. n + 1 : g[i] = IF i = 0 THEN <<>> ELSE WithEntry(g[i-1], screen[i])
    <3>1. ASSUME NEW i \in 0 .. n, i # 0
          PROVE  g[i] = WithEntry(g[i-1], screen[i])
      <4>1. i - 1 \in 0 .. n
        BY <3>1
      <4> QED BY <3>1, <4>1, <2>2, <2>3
    <3>2. g[0] = <<>>
      BY <2>2, <2>3
    <3>3. g[n+1] = WithEntry(f[n], screen[n+1])
      OBVIOUS
    <3>4. g[n+1] = WithEntry(g[(n+1)-1], screen[n+1])
      BY <3>3, <2>2
    <3>5. \A i \in 0 .. n + 1 : i \in 0 .. n \/ i = n + 1
      OBVIOUS
    <3> HIDE DEF g
    <3> QED BY <3>1, <3>2, <3>4, <3>5
  <2>5. g = [i \in 0 .. n + 1 |-> g[i]]
    OBVIOUS
  <2>6. Takes(g, screen, n + 1)
    <3> HIDE DEF g
    <3> QED BY <2>4, <2>5 DEF Takes
  <2> QED BY <2>6
<1> HIDE DEF S
<1>3. Nat \subseteq S
  BY <1>1, <1>2, Counting
<1> QED BY <1>3 DEF S

\* Entry by entry.
LEMMA EntryByEntry ==
  ASSUME NEW screen, Len(screen) \in Nat
  PROVE  /\ ToldUpTo(screen)[0] = <<>>
         /\ \A i \in 1 .. Len(screen) :
              ToldUpTo(screen)[i] = WithEntry(ToldUpTo(screen)[i-1], screen[i])
<1>1. ToldUpTo(screen) = CHOOSE f : Takes(f, screen, Len(screen))
  BY DEF ToldUpTo, Takes
<1>2. Takes(ToldUpTo(screen), screen, Len(screen))
  BY <1>1, TakesExists
<1> DEFINE f == ToldUpTo(screen)
<1>3. f = [i \in 0 .. Len(screen) |-> IF i = 0 THEN <<>> ELSE WithEntry(f[i-1], screen[i])]
  BY <1>2 DEF Takes
<1> QED
  <2> HIDE DEF f
  <2>1. f[0] = <<>> /\ \A i \in 1 .. Len(screen) : f[i] = WithEntry(f[i-1], screen[i])
    BY <1>3
  <2> QED BY <2>1 DEF f

LEMMA WithEntryType ==
  ASSUME NEW rows \in Seq(Stored), NEW entry \in Entry
  PROVE  WithEntry(rows, entry) \in Seq(Stored)
<1>1. CASE ~Counts(entry)
  BY <1>1 DEF WithEntry
<1>2. CASE Counts(entry)
  <2>1. RowOf(entry) \in Stored
    BY <1>2 DEF Counts, RowOf, Entry, Stored
  <2>2. Append(rows, RowOf(entry)) \in Seq(Stored)
    BY <2>1
  <2> QED BY <1>2, <2>2 DEF WithEntry
<1> QED BY <1>1, <1>2

LEMMA ToldUpToType ==
  ASSUME NEW screen \in Seq(Entry)
  PROVE  \A i \in 0 .. Len(screen) : ToldUpTo(screen)[i] \in Seq(Stored)
<1> DEFINE S == {n \in Nat : n <= Len(screen) => ToldUpTo(screen)[n] \in Seq(Stored)}
<1>0. Len(screen) \in Nat
  BY LenProperties
<1>1. 0 \in S
  <2>1. ToldUpTo(screen)[0] = <<>> /\ <<>> \in Seq(Stored)
    BY <1>0, EntryByEntry, EmptySeq
  <2> QED BY <2>1
<1>2. ASSUME NEW n \in Nat, n \in S PROVE n + 1 \in S
  <2>1. SUFFICES ASSUME n + 1 <= Len(screen) PROVE ToldUpTo(screen)[n+1] \in Seq(Stored)
    OBVIOUS
  <2>2. ToldUpTo(screen)[n] \in Seq(Stored)
    BY <1>0, <1>2, <2>1
  <2>3. n + 1 \in 1 .. Len(screen) /\ (n + 1) - 1 = n
    BY <1>0, <2>1
  <2>4. screen[n+1] \in Entry
    BY <2>3, ElementOfSeq
  <2>5. ToldUpTo(screen)[n+1] = WithEntry(ToldUpTo(screen)[n], screen[n+1])
    BY <1>0, <2>3, EntryByEntry
  <2> QED BY <2>2, <2>4, <2>5, WithEntryType
<1> HIDE DEF S
<1>3. Nat \subseteq S
  BY <1>1, <1>2, Counting
<1> QED BY <1>0, <1>3 DEF S

LEMMA ToldType ==
  ASSUME NEW screen \in Seq(Entry)
  PROVE  Told(screen) \in Seq(Stored)
<1>1. Len(screen) \in 0 .. Len(screen)
  BY LenProperties
<1> QED BY <1>1, ToldUpToType DEF Told

\* Screens that begin alike tell alike.
LEMMA ToldAlike ==
  ASSUME NEW one \in Seq(Entry), NEW other \in Seq(Entry), NEW last \in Nat,
         last <= Len(one), last <= Len(other),
         \A i \in 1 .. last : one[i] = other[i]
  PROVE  ToldUpTo(one)[last] = ToldUpTo(other)[last]
<1> DEFINE S == {n \in Nat : n <= last => ToldUpTo(one)[n] = ToldUpTo(other)[n]}
<1>0. Len(one) \in Nat /\ Len(other) \in Nat
  BY LenProperties
<1>1. 0 \in S
  BY <1>0, EntryByEntry
<1>2. ASSUME NEW n \in Nat, n \in S PROVE n + 1 \in S
  <2>1. SUFFICES ASSUME n + 1 <= last PROVE ToldUpTo(one)[n+1] = ToldUpTo(other)[n+1]
    OBVIOUS
  <2>2. ToldUpTo(one)[n] = ToldUpTo(other)[n]
    BY <1>2, <2>1
  <2>3. n + 1 \in 1 .. Len(one) /\ n + 1 \in 1 .. Len(other) /\ n + 1 \in 1 .. last
        /\ (n + 1) - 1 = n
    BY <1>0, <2>1
  <2>4. /\ ToldUpTo(one)[n+1] = WithEntry(ToldUpTo(one)[n], one[n+1])
        /\ ToldUpTo(other)[n+1] = WithEntry(ToldUpTo(other)[n], other[n+1])
    BY <1>0, <2>3, EntryByEntry
  <2> QED BY <2>2, <2>3, <2>4
<1> HIDE DEF S
<1>3. Nat \subseteq S
  BY <1>1, <1>2, Counting
<1> QED BY <1>3 DEF S

Before(screen) == SubSeq(screen, 1, Len(screen) - 1)
Newest(screen) == screen[Len(screen)]

LEMMA BeforeIs ==
  ASSUME NEW S, NEW screen \in Seq(S), screen # <<>>
  PROVE  /\ Len(screen) \in Nat \ {0} /\ Newest(screen) \in S
         /\ Before(screen) \in Seq(S) /\ Len(Before(screen)) = Len(screen) - 1
         /\ \A i \in 1 .. Len(screen) - 1 : Before(screen)[i] = screen[i]
<1>1. Len(screen) \in Nat \ {0}
  BY EmptySeq
<1>2. \A i \in 1 .. Len(screen) : screen[i] \in S
  BY ElementOfSeq
<1>3. \A i \in 1 .. Len(screen) - 1 : screen[i] \in S
  BY <1>1, <1>2
<1> DEFINE n == Len(screen) - 1
<1>4. n \in Nat
  BY <1>1
<1>5. /\ SubSeq(screen, 1, n) \in Seq(S)
      /\ Len(SubSeq(screen, 1, n)) = IF 1 <= n THEN n - 1 + 1 ELSE 0
      /\ \A i \in 1 .. n - 1 + 1 : SubSeq(screen, 1, n)[i] = screen[1 + i - 1]
  <2>1. \A i \in 1 .. n : screen[i] \in S
    BY <1>3
  <2>2. n \in Int /\ 1 \in Int
    BY <1>4
  <2> HIDE DEF n
  <2> QED BY <2>1, <2>2, SubSeqProperties
<1>6. Len(SubSeq(screen, 1, n)) = n
  <2> HIDE DEF n
  <2> QED BY <1>4, <1>5
<1>7. \A i \in 1 .. n : SubSeq(screen, 1, n)[i] = screen[i]
  <2>1. \A i \in 1 .. n : i \in 1 .. n - 1 + 1 /\ 1 + i - 1 = i
    <3> HIDE DEF n
    <3> QED BY <1>4
  <2> HIDE DEF n
  <2> QED BY <1>5, <2>1
<1> QED BY <1>1, <1>2, <1>5, <1>6, <1>7 DEF Before, Newest

LEMMA ToldLast ==
  ASSUME NEW screen \in Seq(Entry), screen # <<>>
  PROVE  Told(screen) = WithEntry(Told(Before(screen)), Newest(screen))
<1> DEFINE n == Len(screen)
<1>1. /\ n \in Nat \ {0} /\ Before(screen) \in Seq(Entry) /\ Len(Before(screen)) = n - 1
      /\ \A i \in 1 .. n - 1 : screen[i] = Before(screen)[i]
  BY BeforeIs
<1>2. n \in 1 .. n /\ n - 1 \in Nat /\ n - 1 <= n /\ n \in Nat
  BY <1>1
<1>3. ToldUpTo(screen)[n] = WithEntry(ToldUpTo(screen)[n-1], screen[n])
  BY <1>2, EntryByEntry
<1>4. ToldUpTo(screen)[n-1] = ToldUpTo(Before(screen))[n-1]
  <2> DEFINE m == n - 1
  <2>1. m \in Nat /\ m <= Len(screen) /\ m <= Len(Before(screen))
        /\ \A i \in 1 .. m : screen[i] = Before(screen)[i]
    BY <1>1, <1>2
  <2> HIDE DEF m
  <2> QED BY <1>1, <2>1, ToldAlike DEF m
<1> QED BY <1>1, <1>3, <1>4 DEF Told, Newest

LEMMA ToldNothing == Told(<<>>) = <<>>
  BY EntryByEntry, EmptySeq DEF Told

\* One more entry, and another newest entry.
LEMMA Longer ==
  ASSUME NEW screen \in Seq(Entry), NEW entry \in Entry
  PROVE  /\ Append(screen, entry) \in Seq(Entry) /\ Append(screen, entry) # <<>>
         /\ Newest(Append(screen, entry)) = entry /\ Before(Append(screen, entry)) = screen
<1> DEFINE longer == Append(screen, entry)
<1>1. /\ longer \in Seq(Entry) /\ Len(longer) = Len(screen) + 1 /\ Len(screen) \in Nat
      /\ \A i \in 1 .. Len(screen) : longer[i] = screen[i]
      /\ longer[Len(screen) + 1] = entry
  BY LenProperties
<1>2. longer # <<>>
  BY <1>1
<1> HIDE DEF longer
<1>3. /\ Before(longer) \in Seq(Entry) /\ Len(Before(longer)) = Len(longer) - 1
      /\ \A i \in 1 .. Len(longer) - 1 : Before(longer)[i] = longer[i]
  BY <1>1, <1>2, BeforeIs
<1>4. Len(Before(longer)) = Len(screen) /\ \A i \in 1 .. Len(screen) : Before(longer)[i] = screen[i]
  BY <1>1, <1>3
<1>5. Before(longer) = screen
  BY <1>3, <1>4, SeqEqual
<1> QED BY <1>1, <1>2, <1>5 DEF longer, Newest

LEMMA SameBefore ==
  ASSUME NEW S, NEW screen \in Seq(S), NEW changed \in Seq(S), screen # <<>>,
         Len(changed) = Len(screen),
         \A j \in 1 .. Len(screen) - 1 : changed[j] = screen[j]
  PROVE  changed # <<>> /\ Before(changed) = Before(screen)
<1>1. Len(screen) \in Nat \ {0}
  BY EmptySeq
<1>2. changed # <<>>
  BY <1>1, EmptySeq
<1>3. /\ Before(changed) \in Seq(S) /\ Len(Before(changed)) = Len(changed) - 1
      /\ \A i \in 1 .. Len(changed) - 1 : Before(changed)[i] = changed[i]
  BY <1>2, BeforeIs
<1>4. /\ Before(screen) \in Seq(S) /\ Len(Before(screen)) = Len(screen) - 1
      /\ \A i \in 1 .. Len(screen) - 1 : Before(screen)[i] = screen[i]
  BY BeforeIs
<1>5. Len(Before(changed)) = Len(Before(screen))
  BY <1>3, <1>4
<1>6. \A i \in 1 .. Len(Before(changed)) : Before(changed)[i] = Before(screen)[i]
  BY <1>3, <1>4
<1> QED BY <1>2, <1>3, <1>4, <1>5, <1>6, SeqEqual

LEMMA Changed ==
  ASSUME NEW S, NEW screen \in Seq(S), screen # <<>>, NEW entry \in S
  PROVE  LET changed == [screen EXCEPT ![Len(screen)] = entry]
         IN  /\ changed \in Seq(S) /\ changed # <<>> /\ Len(changed) = Len(screen)
             /\ \A j \in 1 .. Len(screen) : changed[j] = IF j = Len(screen) THEN entry ELSE screen[j]
             /\ Newest(changed) = entry /\ Before(changed) = Before(screen)
<1> DEFINE n == Len(screen)
           changed == [screen EXCEPT ![n] = entry]
<1>1. n \in Nat \ {0} /\ n \in 1 .. Len(screen)
  BY EmptySeq
<1>2. /\ changed \in Seq(S) /\ Len(changed) = Len(screen)
      /\ \A j \in 1 .. Len(screen) : changed[j] = IF j = n THEN entry ELSE screen[j]
  <2> HIDE DEF n
  <2> QED BY <1>1, ExceptSeq
<1> HIDE DEF changed
<1>3. \A j \in 1 .. Len(screen) - 1 : changed[j] = screen[j]
  BY <1>1, <1>2
<1>4. changed # <<>> /\ Before(changed) = Before(screen)
  BY <1>2, <1>3, SameBefore
<1>5. Newest(changed) = entry
  BY <1>1, <1>2 DEF Newest
<1> QED BY <1>2, <1>4, <1>5 DEF changed

\* A screen that shows rows one by one tells those rows.
LEMMA ToldRows ==
  ASSUME NEW screen \in Seq(Entry), NEW rows \in Seq(Stored), Len(screen) = Len(rows),
         \A i \in 1 .. Len(rows) : Counts(screen[i]) /\ RowOf(screen[i]) = rows[i]
  PROVE  Told(screen) = rows
<1> DEFINE S == {n \in Nat : n <= Len(rows) =>
                   /\ ToldUpTo(screen)[n] \in Seq(Stored) /\ Len(ToldUpTo(screen)[n]) = n
                   /\ \A i \in 1 .. n : ToldUpTo(screen)[n][i] = rows[i]}
<1>0. Len(screen) \in Nat /\ Len(rows) \in Nat
  BY LenProperties
<1>1. 0 \in S
  <2>1. ToldUpTo(screen)[0] = <<>> /\ <<>> \in Seq(Stored) /\ Len(<<>>) = 0
    BY <1>0, EntryByEntry, EmptySeq
  <2>2. /\ ToldUpTo(screen)[0] \in Seq(Stored) /\ Len(ToldUpTo(screen)[0]) = 0
    BY <2>1
  <2>3. \A i \in 1 .. 0 : FALSE
    OBVIOUS
  <2>4. \A i \in 1 .. 0 : ToldUpTo(screen)[0][i] = rows[i]
    BY <2>3
  <2> QED BY <2>2, <2>4
<1>2. ASSUME NEW n \in Nat, n \in S PROVE n + 1 \in S
  <2>1. SUFFICES ASSUME n + 1 <= Len(rows)
                 PROVE  /\ ToldUpTo(screen)[n+1] \in Seq(Stored) /\ Len(ToldUpTo(screen)[n+1]) = n + 1
                        /\ \A i \in 1 .. n + 1 : ToldUpTo(screen)[n+1][i] = rows[i]
    OBVIOUS
  <2> DEFINE told == ToldUpTo(screen)[n]
  <2>2. told \in Seq(Stored) /\ Len(told) = n /\ \A i \in 1 .. n : told[i] = rows[i]
    BY <1>0, <1>2, <2>1
  <2>3. n + 1 \in 1 .. Len(rows) /\ n + 1 \in 1 .. Len(screen) /\ (n + 1) - 1 = n
    BY <1>0, <2>1
  <2>4. ToldUpTo(screen)[n+1] = WithEntry(told, screen[n+1])
    BY <1>0, <2>3, EntryByEntry
  <2>5. ToldUpTo(screen)[n+1] = Append(told, rows[n+1])
    BY <2>3, <2>4 DEF WithEntry
  <2>6. rows[n+1] \in Stored
    BY <2>3, ElementOfSeq
  <2>7. /\ Append(told, rows[n+1]) \in Seq(Stored) /\ Len(Append(told, rows[n+1])) = n + 1
        /\ \A i \in 1 .. n : Append(told, rows[n+1])[i] = told[i]
        /\ Append(told, rows[n+1])[n+1] = rows[n+1]
    <3> HIDE DEF told
    <3> QED BY <2>2, <2>6
  <2>8. \A i \in 1 .. n + 1 : i \in 1 .. n \/ i = n + 1
    OBVIOUS
  <2> HIDE DEF told
  <2> QED BY <2>2, <2>5, <2>7, <2>8
<1> HIDE DEF S
<1>3. Nat \subseteq S
  BY <1>1, <1>2, Counting
<1>4. /\ Told(screen) \in Seq(Stored) /\ Len(Told(screen)) = Len(rows)
      /\ \A i \in 1 .. Len(rows) : Told(screen)[i] = rows[i]
  BY <1>0, <1>3 DEF S, Told
<1> QED BY <1>4, SeqEqual

(***************************************************************************)
(* What is still to come on a stream: perhaps its start, pieces, perhaps    *)
(* how it ends.                                                             *)
(***************************************************************************)
Events == {"start", "piece", "error", "done", "full"}
Ending == {"error", "done", "full"}
Begun(wire) == IF wire # <<>> /\ wire[1] = "start" THEN 1 ELSE 0
Closed(wire) == IF wire # <<>> /\ wire[Len(wire)] \in Ending THEN 1 ELSE 0
Pieces(wire) == Len(wire) - Begun(wire) - Closed(wire)
InOrder(wire) ==
  \A i \in 1 .. Len(wire) : Begun(wire) < i /\ i <= Len(wire) - Closed(wire) => wire[i] = "piece"

LEMMA QuietWire == Closed(<<>>) = 0 /\ Pieces(<<>>) = 0 /\ InOrder(<<>>)
<1>1. Len(<<>>) = 0 /\ \A i \in 1 .. 0 : FALSE
  BY EmptySeq
<1> QED BY <1>1 DEF Closed, Begun, Pieces, InOrder

LEMMA PiecesAre ==
  ASSUME NEW wire \in Seq(Events)
  PROVE  Pieces(wire) \in Nat /\ Closed(wire) \in {0, 1}
<1>1. wire # <<>> => Len(wire) \in Nat \ {0}
  BY EmptySeq
<1>2. CASE wire = <<>>
  BY <1>2, QuietWire
<1>3. CASE wire # <<>> /\ Len(wire) = 1
  BY <1>3 DEF Pieces, Begun, Closed, Ending
<1>4. CASE wire # <<>> /\ Len(wire) # 1
  <2>1. Begun(wire) \in {0, 1} /\ Closed(wire) \in {0, 1}
    BY DEF Begun, Closed
  <2> DEFINE n == Len(wire)
  <2>2. n \in Nat \ {0} /\ n # 1
    BY <1>1, <1>4
  <2>3. n >= 2
    <3> HIDE DEF n
    <3> QED BY <2>2
  <2> QED BY <2>1, <2>2, <2>3 DEF Pieces
<1> QED BY <1>2, <1>3, <1>4

LEMMA Appended ==
  ASSUME NEW S, NEW wire \in Seq(S), NEW event \in S, NEW more, more = Append(wire, event)
  PROVE  /\ more \in Seq(S) /\ more # <<>> /\ Len(more) = Len(wire) + 1 /\ Len(wire) \in Nat
         /\ more[Len(more)] = event /\ \A i \in 1 .. Len(wire) : more[i] = wire[i]
<1>1. /\ more \in Seq(S) /\ Len(more) = Len(wire) + 1 /\ Len(wire) \in Nat
      /\ more[Len(wire) + 1] = event /\ \A i \in 1 .. Len(wire) : more[i] = wire[i]
  BY LenProperties
<1>2. more # <<>>
  BY <1>1, EmptySeq
<1> QED BY <1>1, <1>2

LEMMA WireStarts ==
  ASSUME NEW wire, wire = <<>>
  PROVE  LET more == Append(wire, "start")
         IN  more \in Seq(Events) /\ Closed(more) = 0 /\ Pieces(more) = 0 /\ InOrder(more)
<1> DEFINE more == Append(wire, "start")
<1>1. wire \in Seq(Events) /\ Len(wire) = 0
  BY EmptySeq
<1>2. "start" \in Events /\ "start" \notin Ending
  BY DEF Events, Ending
<1>3. more \in Seq(Events) /\ more # <<>> /\ Len(more) = 1 /\ more[1] = "start"
  BY <1>1, <1>2, Appended
<1> HIDE DEF more
<1>4. Begun(more) = 1 /\ Closed(more) = 0
  BY <1>2, <1>3 DEF Begun, Closed
<1> QED BY <1>3, <1>4 DEF Pieces, InOrder, more

LEMMA WireGrows ==
  ASSUME NEW wire \in Seq(Events), InOrder(wire), Closed(wire) = 0, NEW event \in Events \ {"start"}
  PROVE  LET more == Append(wire, event)
         IN  /\ more \in Seq(Events) /\ InOrder(more)
             /\ event = "piece" => Closed(more) = 0 /\ Pieces(more) = Pieces(wire) + 1
             /\ event # "piece" => Closed(more) = 1 /\ Pieces(more) = Pieces(wire)
<1> DEFINE more == Append(wire, event)
<1>1. /\ more \in Seq(Events) /\ more # <<>> /\ Len(more) = Len(wire) + 1 /\ Len(wire) \in Nat
      /\ more[Len(more)] = event /\ \A i \in 1 .. Len(wire) : more[i] = wire[i]
  BY Appended
<1> HIDE DEF more
<1>2. Begun(more) = Begun(wire)
  <2>1. CASE wire = <<>>
    BY <1>1, <2>1, EmptySeq DEF Begun
  <2>2. CASE wire # <<>>
    <3>1. 1 \in 1 .. Len(wire)
      BY <1>1, <2>2, EmptySeq
    <3> QED BY <1>1, <2>2, <3>1 DEF Begun
  <2> QED BY <2>1, <2>2
<1>3. event \in Ending <=> event # "piece"
  BY DEF Events, Ending
<1>4. Closed(more) = IF event = "piece" THEN 0 ELSE 1
  BY <1>1, <1>3 DEF Closed
<1>5. InOrder(more)
  <2>1. SUFFICES ASSUME NEW i \in 1 .. Len(more), Begun(more) < i, i <= Len(more) - Closed(more)
                 PROVE  more[i] = "piece"
    BY DEF InOrder
  <2>2. CASE i = Len(more)
    BY <1>1, <1>4, <2>1, <2>2
  <2>3. CASE i # Len(more)
    <3>1. i \in 1 .. Len(wire) /\ i <= Len(wire) - Closed(wire)
      BY <1>1, <2>1, <2>3
    <3> QED BY <1>1, <1>2, <2>1, <3>1 DEF InOrder
  <2> QED BY <2>2, <2>3
<1>6. Begun(wire) \in {0, 1}
  BY DEF Begun
<1>7. Pieces(more) = IF event = "piece" THEN Pieces(wire) + 1 ELSE Pieces(wire)
  BY <1>1, <1>2, <1>4, <1>6 DEF Pieces
<1> QED BY <1>1, <1>4, <1>5, <1>7 DEF more

LEMMA NothingLeft ==
  ASSUME NEW n \in Nat \ {0}, NEW c \in {0, 1}, ~(1 <= n - c)
  PROVE  c = 1 /\ n - 0 - c = 0
  OBVIOUS

LEMMA WireIsRead ==
  ASSUME NEW wire \in Seq(Events), InOrder(wire), wire # <<>>
  PROVE  /\ Head(wire) \in Events /\ Tail(wire) \in Seq(Events)
         /\ Head(wire) = "start" =>
              /\ InOrder(Tail(wire)) /\ Closed(Tail(wire)) = Closed(wire)
              /\ Pieces(Tail(wire)) = Pieces(wire)
         /\ Head(wire) = "piece" =>
              /\ InOrder(Tail(wire)) /\ Closed(Tail(wire)) = Closed(wire)
              /\ Pieces(Tail(wire)) = Pieces(wire) - 1
         /\ Head(wire) \in Ending => Closed(wire) = 1 /\ Pieces(wire) = 0
<1> DEFINE rest == Tail(wire)
<1>1. /\ Head(wire) \in Events /\ rest \in Seq(Events) /\ Len(rest) = Len(wire) - 1
      /\ \A i \in 1 .. Len(rest) : rest[i] = wire[i+1]
  BY HeadTailProperties
<1>2. Head(wire) = wire[1] /\ Len(wire) \in Nat \ {0} /\ 1 \in 1 .. Len(wire)
  BY EmptySeq
<1> HIDE DEF rest
<1>3. rest = <<>> <=> Len(wire) = 1
  BY <1>1, <1>2, EmptySeq
<1>4. Begun(wire) = IF Head(wire) = "start" THEN 1 ELSE 0
  BY <1>2 DEF Begun
<1>5. Closed(wire) = IF wire[Len(wire)] \in Ending THEN 1 ELSE 0
  BY DEF Closed
<1>6. ASSUME Head(wire) \in {"start", "piece"}
      PROVE  InOrder(rest) /\ Closed(rest) = Closed(wire) /\ Begun(rest) = 0
  <2>1. CASE Len(wire) = 1
    <3>1. rest = <<>> /\ wire[Len(wire)] \notin Ending
      BY <1>2, <1>3, <1>6, <2>1 DEF Ending
    <3> QED BY <1>5, <3>1, QuietWire DEF Begun
  <2>2. CASE Len(wire) # 1
    <3>1. rest # <<>> /\ Len(rest) \in 1 .. Len(rest) /\ 1 \in 1 .. Len(rest) /\ Len(rest) + 1 = Len(wire)
      BY <1>1, <1>2, <1>3, <2>2
    <3>2. rest[Len(rest)] = wire[Len(wire)]
      BY <1>1, <3>1
    <3>3. Closed(rest) = Closed(wire)
      BY <1>5, <3>1, <3>2 DEF Closed
    <3>4. ASSUME NEW i \in 1 .. Len(rest), i <= Len(rest) - Closed(rest) PROVE rest[i] = "piece"
      <4>1. /\ i + 1 \in 1 .. Len(wire) /\ Begun(wire) < i + 1
            /\ i + 1 <= Len(wire) - Closed(wire)
        BY <1>1, <1>2, <1>4, <1>5, <3>3, <3>4
      <4> QED BY <1>1, <4>1 DEF InOrder
    <3>5. Begun(rest) = 0
      <4>1. CASE 1 <= Len(rest) - Closed(rest)
        BY <3>1, <3>4, <4>1 DEF Begun
      <4>2. CASE ~(1 <= Len(rest) - Closed(rest))
        <5>1. Closed(wire) = 1 /\ Len(rest) = 1
          BY <1>1, <1>5, <3>1, <3>3, <4>2
        <5>2. rest[1] \in Ending
          BY <1>5, <3>2, <5>1
        <5> QED BY <5>2 DEF Begun, Ending
      <4> QED BY <4>1, <4>2
    <3> QED BY <3>3, <3>4, <3>5 DEF InOrder
  <2> QED BY <2>1, <2>2
<1>7. Closed(wire) \in {0, 1}
  BY <1>5
<1>8. /\ Head(wire) = "start" => Pieces(rest) = Pieces(wire)
      /\ Head(wire) = "piece" => Pieces(rest) = Pieces(wire) - 1
  <2>1. CASE Head(wire) = "start"
    <3>1. Begun(wire) = 1 /\ Begun(rest) = 0 /\ Closed(rest) = Closed(wire)
      BY <1>4, <1>6, <2>1
    <3> QED BY <1>1, <1>2, <1>7, <2>1, <3>1 DEF Pieces
  <2>2. CASE Head(wire) = "piece"
    <3>1. Begun(wire) = 0 /\ Begun(rest) = 0 /\ Closed(rest) = Closed(wire)
      BY <1>4, <1>6, <2>2
    <3> QED BY <1>1, <1>2, <1>7, <2>2, <3>1 DEF Pieces
  <2> QED BY <2>1, <2>2
<1>9. ASSUME Head(wire) \in Ending PROVE Closed(wire) = 1 /\ Pieces(wire) = 0
  <2>1. wire[1] # "piece" /\ Begun(wire) = 0
    BY <1>2, <1>4, <1>9 DEF Ending
  <2>2. ~(1 <= Len(wire) - Closed(wire))
    BY <1>2, <2>1 DEF InOrder
  <2>3. Closed(wire) = 1 /\ Len(wire) - 0 - Closed(wire) = 0
    BY <1>2, <1>7, <2>2, NothingLeft
  <2> QED BY <2>1, <2>3 DEF Pieces
<1> QED BY <1>1, <1>6, <1>8, <1>9 DEF rest

(***************************************************************************)
(* The invariant.  First what the tasks, the turn and the screen are to     *)
(* each other, whatever the screen was not told of.                         *)
(***************************************************************************)
Early == {"prepare", "ask", "busy", "full"}
Busy(k) == tasks[k].current /\ tasks[k].kind \in {"load", "send", "follow"}
Sends(k) == tasks[k].current /\ tasks[k].kind = "send"

\* A current task is one of the build that is shown; none is once the panel is stranded.
Sound(k) ==
  /\ IF tasks[k].kind = "none" THEN tasks[k].stage = "" ELSE tasks[k].build \in Builds
  /\ tasks[k].kind = "send" => tasks[k].what \in Messages
  /\ tasks[k].current => tasks[k].kind # "none" /\ tasks[k].build = ui.build /\ ~stranded

\* The panel can give up every message that may still reach the server.
Attached(k) ==
  tasks[k].kind = "send" =>
    /\ tasks[k].current \/ tasks[k].stage = "ask" => ui.controller = k
    /\ tasks[k].stage = "ask" => (tasks[k].current \/ stranded) /\ ~tasks[k].aborted
    /\ tasks[k].stage \in Early \cup {"stream", "failed"}
    /\ tasks[k].stage \in Early => tasks[k].wire = <<>>

\* The turn answers the message of the task that listens to it.
Heard(k) ==
  turn.client = k =>
    /\ Is(k, "send", "stream") /\ ~tasks[k].aborted
    /\ turn.build = tasks[k].build /\ turn.what = tasks[k].what

\* The message being sent is the newest entry; what is said is on the screen or on the
\* way to it, and a stream nobody gave up ends.
OnTop(k) ==
  Sends(k) =>
    /\ ui.screen # <<>> /\ Newest(ui.screen).what = tasks[k].what /\ Newest(ui.screen).mark = ""
    /\ tasks[k].stage \in Early => Newest(ui.screen).parts = 0
    /\ tasks[k].stage = "failed" =>
         /\ InOrder(tasks[k].wire) /\ Closed(tasks[k].wire) = 0
         /\ Newest(ui.screen).parts + Pieces(tasks[k].wire) <= MaxPieces
    /\ tasks[k].stage = "stream" =>
         /\ InOrder(tasks[k].wire)
         /\ turn.client = k =>
              /\ Closed(tasks[k].wire) = 0
              /\ Newest(ui.screen).parts + Pieces(tasks[k].wire) = turn.said
              /\ ~turn.stored => tasks[k].wire = <<>>
         /\ turn.client # k =>
              /\ Newest(ui.screen).parts + Pieces(tasks[k].wire) <= MaxPieces
              /\ ~tasks[k].aborted => Closed(tasks[k].wire) = 1

TurnFits ==
  /\ turn = NoTurn \/ (turn.build \in Builds /\ turn.what \in Texts)
  /\ ~turn.stored => turn.said = 0
  /\ turn.stored => turn.build \in Builds /\ thread[turn.build] # <<>>

PanelFits == /\ ui.loaded \/ ui.error => ui.build \in Builds
             /\ stranded => ui.status # "idle"

Control ==
  /\ AssistantStoreTypeOK /\ TurnFits /\ PanelFits /\ ScreenIsItsBuilds /\ BusyIsOneTask
  /\ \A k \in Slots : Sound(k)
  /\ \A k \in Slots : Attached(k) /\ Heard(k) /\ OnTop(k)

(***************************************************************************)
(* What follows from it.                                                    *)
(***************************************************************************)

LEMMA SlotsAre == Slots \subseteq Nat \ {0} /\ OtherTab \notin Slots /\ Ended \notin Slots /\ 0 \notin Slots
<1>1. MaxTasks \in Nat \ {0}
  OBVIOUS
<1> QED BY <1>1 DEF Slots, OtherTab, Ended

LEMMA NoTaskIs ==
  /\ NoTask.kind = "none" /\ NoTask.stage = "" /\ ~NoTask.current /\ NoTask.what = None
  /\ NoTask.build = None /\ NoTask.wire = <<>> /\ ~NoTask.accepted /\ ~NoTask.aborted
  /\ NoTask.answer = NoAnswer /\ NoTask.ending = "lost" /\ ~NoTask.back
  BY DEF NoTask

LEMMA OneIsBusy ==
  ASSUME Control, NEW k \in Slots, Busy(k)
  PROVE  /\ ~stranded /\ ui.status # "idle" /\ tasks[k].kind \in Kinds[ui.status]
         /\ tasks[k].build = ui.build /\ ui.build \in Builds
         /\ \A j \in Slots \ {k} : ~Busy(j)
<1>1. ~stranded /\ tasks[k].kind # "none" /\ tasks[k].build = ui.build /\ tasks[k].build \in Builds
  BY DEF Control, Sound, Busy
<1>2. k \in {j \in Slots : tasks[j].current /\ tasks[j].kind \in {"load", "send", "follow"}}
  BY DEF Busy
<1>3. ui.status # "idle"
  BY <1>1, <1>2 DEF Control, BusyIsOneTask
<1>4. PICK j \in Slots : /\ {i \in Slots : tasks[i].current /\ tasks[i].kind \in {"load", "send", "follow"}} = {j}
                         /\ tasks[j].kind \in Kinds[ui.status]
  BY <1>1, <1>3 DEF Control, BusyIsOneTask
<1>5. j = k /\ \A i \in Slots \ {k} : ~Busy(i)
  BY <1>2, <1>4 DEF Busy
<1> QED BY <1>1, <1>3, <1>4, <1>5

LEMMA NobodyIsBusy ==
  ASSUME Control, ui.status = "idle"
  PROVE  ~stranded /\ \A k \in Slots : ~Busy(k)
  BY OneIsBusy DEF Control, PanelFits

\* With nothing under way, and next to a task that is busy, no message may still write
\* or reach the server.
LEMMA OthersAreDone ==
  ASSUME Control, NEW j \in Slots, tasks[j].kind = "send",
         ui.status = "idle" \/ \E k \in Slots \ {j} : Busy(k)
  PROVE  ~tasks[j].current /\ tasks[j].stage # "ask"
<1>1. ~stranded /\ ~Busy(j)
  BY OneIsBusy, NobodyIsBusy
<1>2. Attached(j)
  BY DEF Control
<1> QED BY <1>1, <1>2 DEF Busy, Attached

(***************************************************************************)
(* Steps that leave most of it alone.                                       *)
(***************************************************************************)
Same(j) == tasks'[j] = tasks[j]
Alike(j) == \/ Same(j)
            \/ /\ tasks'[j].kind # "none"
               /\ tasks'[j].kind = tasks[j].kind /\ tasks'[j].current = tasks[j].current
               /\ tasks'[j].build = tasks[j].build /\ tasks'[j].what = tasks[j].what
GoneQuietly(j) == tasks'[j] = NoTask /\ ~Busy(j)
Aloof(j) == ~Busy(j) /\ ~Busy(j)' /\ Sound(j)'

LEMMA QuietSteps ==
  ASSUME Control, stranded' = stranded,
         ui'.build = ui.build, ui'.status = ui.status, ui'.screen = ui.screen,
         \A j \in Slots : Alike(j) \/ GoneQuietly(j) \/ Aloof(j)
  PROVE  ScreenIsItsBuilds' /\ BusyIsOneTask' /\ \A j \in Slots : Sound(j)'
<1>1. \A j \in Slots : Busy(j)' <=> Busy(j)
  BY NoTaskIs DEF Alike, Same, GoneQuietly, Aloof, Busy
<1>2. \A j \in Slots : Busy(j) => tasks'[j].kind = tasks[j].kind
  BY DEF Alike, Same, GoneQuietly, Aloof
<1>3. BusyIsOneTask'
  <2>1. {k \in Slots : tasks'[k].current /\ tasks'[k].kind \in {"load", "send", "follow"}}
        = {k \in Slots : tasks[k].current /\ tasks[k].kind \in {"load", "send", "follow"}}
    BY <1>1 DEF Busy
  <2>2. BusyIsOneTask
    BY DEF Control
  <2>3. CASE stranded
    BY <2>3 DEF BusyIsOneTask
  <2>4. CASE ~stranded /\ ui.status = "idle"
    BY <2>1, <2>2, <2>4 DEF BusyIsOneTask
  <2>5. CASE ~stranded /\ ui.status # "idle"
    <3>1. PICK k \in Slots :
             /\ {j \in Slots : tasks[j].current /\ tasks[j].kind \in {"load", "send", "follow"}} = {k}
             /\ tasks[k].kind \in Kinds[ui.status]
      BY <2>2, <2>5 DEF BusyIsOneTask
    <3>2. Busy(k)
      BY <3>1 DEF Busy
    <3>3. tasks'[k].kind \in Kinds[ui'.status]
      BY <1>2, <3>1, <3>2
    <3> QED BY <2>1, <2>5, <3>1, <3>3 DEF BusyIsOneTask, Kinds
  <2> QED BY <2>3, <2>4, <2>5
<1>4. ScreenIsItsBuilds'
  BY DEF Control, ScreenIsItsBuilds
<1>5. ASSUME NEW j \in Slots PROVE Sound(j)'
  <2>1. Sound(j)
    BY DEF Control
  <2>2. CASE Alike(j)
    BY <2>1, <2>2 DEF Alike, Same, Sound
  <2>3. CASE GoneQuietly(j)
    BY <2>3, NoTaskIs DEF GoneQuietly, Sound
  <2> QED BY <2>2, <2>3 DEF Aloof
<1> QED BY <1>3, <1>4, <1>5

\* Nothing happens to the message of task j, if it has one.
LEMMA UnmovedSends ==
  ASSUME NEW j \in Slots, Attached(j), Heard(j), OnTop(j),
         ui'.screen = ui.screen, ui.controller = j => ui'.controller = j, stranded' = stranded,
         Same(j) \/ tasks'[j].kind # "send",
         turn'.client = j => Same(j) /\ turn.client = j /\ turn'.build = turn.build
                             /\ turn'.what = turn.what /\ turn'.said = turn.said
                             /\ turn'.stored = turn.stored,
         turn.client = j => turn'.client = j
  PROVE  Attached(j)' /\ Heard(j)' /\ OnTop(j)'
<1>1. Attached(j)'
  BY DEF Same, Attached
<1>2. Heard(j)'
  BY DEF Same, Heard, Is
<1>3. OnTop(j)'
  BY DEF Same, OnTop, Sends
<1> QED BY <1>1, <1>2, <1>3

\* Once no message is on its way nothing is left to say of the newest entry.
Put(j) ==
  tasks'[j].kind = "send" =>
    /\ ~tasks'[j].current /\ tasks'[j].stage \in {"prepare", "busy", "full", "stream", "failed"}
    /\ tasks'[j].stage \in Early => tasks'[j].wire = <<>>

LEMMA PutAside ==
  ASSUME NEW j \in Slots, Put(j),
         turn'.client = j =>
           /\ tasks'[j].kind = "send" /\ tasks'[j].stage = "stream" /\ ~tasks'[j].aborted
           /\ turn'.build = tasks'[j].build /\ turn'.what = tasks'[j].what
  PROVE  Attached(j)' /\ Heard(j)' /\ OnTop(j)'
  BY DEF Put, Attached, Early, Heard, Is, OnTop, Sends

(***************************************************************************)
(* Tasks and their fields.                                                  *)
(***************************************************************************)
Stages == {"", "prepare", "ask", "reading", "told", "failed", "busy", "full", "stream", "wait"}

LEMMA TaskFields ==
  ASSUME NEW t \in Task
  PROVE  /\ t.kind \in {"none", "load", "refresh", "send", "follow", "clear"}
         /\ t.stage \in Stages /\ t.build \in Builds \cup {None} /\ t.current \in BOOLEAN
         /\ t.what \in Messages \cup {None} /\ t.wire \in Seq(Events) /\ t.answer \in Answer
         /\ t.aborted \in BOOLEAN /\ t.accepted \in BOOLEAN
         /\ t.ending \in {"lost", "done", "error", "stopped"}
  BY DEF Task, Stages, Events

LEMMA TaskStage ==
  ASSUME NEW t \in Task, NEW stage \in Stages
  PROVE  [t EXCEPT !.stage = stage] \in Task
  BY DEF Task, Stages

LEMMA TaskRunning ==
  ASSUME NEW t \in Task, NEW running \in BOOLEAN
  PROVE  [t EXCEPT !.stage = "reading", !.answer.running = running] \in Task
<1>1. [t.answer EXCEPT !.running = running] \in Answer
  BY DEF Task, Answer
<1> QED BY <1>1 DEF Task

LEMMA TaskRows ==
  ASSUME NEW t \in Task, NEW rows \in Seq(Stored)
  PROVE  [t EXCEPT !.stage = "told", !.answer.rows = rows] \in Task
<1>1. [t.answer EXCEPT !.rows = rows] \in Answer
  BY DEF Task, Answer
<1> QED BY <1>1 DEF Task

LEMMA TaskWire ==
  ASSUME NEW t \in Task, NEW wire \in Seq(Events)
  PROVE  [t EXCEPT !.wire = wire] \in Task
  BY DEF Task, Events

LEMMA NoTaskType == NoTask \in Task
<1>1. NoAnswer \in Answer
  <2>1. <<>> \in Seq(Stored)
    BY EmptySeq
  <2> QED BY <2>1 DEF NoAnswer, Answer
<1>2. <<>> \in Seq(Events)
  BY EmptySeq
<1> QED BY <1>1, <1>2 DEF NoTask, Task, Events

LEMMA Typed ==
  ASSUME Control, NEW k \in Slots
  PROVE  /\ tasks[k] \in Task /\ ui \in Panel /\ turn \in Turn
         /\ tasks \in [Slots -> Task] /\ thread \in [Builds -> Seq(Stored)]
         /\ AssistantStoreTypeOK
  BY DEF Control, AssistantStoreTypeOK

(***************************************************************************)
(* The server.                                                              *)
(***************************************************************************)


\* Parts of the state that no step of a server or a task gets wrong.
Bounds == /\ acts' \in 0 .. MaxActs /\ failures' \in 0 .. MaxFailures /\ missed' \subseteq Reasons
          /\ strays' \subseteq [build : Builds, what : Messages]

\* A task that sends no message goes on or ends, unseen.
LEMMA QuietTask ==
  ASSUME Control, Bounds, thread' \in [Builds -> Seq(Stored)], TurnFits',
         ui' = ui, stranded' = stranded, turn' = turn,
         NEW k \in Slots, tasks[k].kind # "send", NEW t \in Task, tasks' = [tasks EXCEPT ![k] = t],
         \/ /\ t.kind = tasks[k].kind /\ t.kind # "none" /\ t.current = tasks[k].current
            /\ t.build = tasks[k].build /\ t.what = tasks[k].what
         \/ t = NoTask /\ ~Busy(k)
  PROVE  Control'
<1>0. tasks \in [Slots -> Task]
  BY Typed
<1>1. tasks' \in [Slots -> Task] /\ tasks'[k] = t /\ \A j \in Slots \ {k} : Same(j)
  BY <1>0 DEF Same
<1>2. AssistantStoreTypeOK'
  BY <1>1 DEF Bounds, Control, AssistantStoreTypeOK
<1>3. \A j \in Slots : Alike(j) \/ GoneQuietly(j)
  BY <1>1 DEF Alike, GoneQuietly
<1>4. ScreenIsItsBuilds' /\ BusyIsOneTask' /\ \A j \in Slots : Sound(j)'
  BY <1>3, QuietSteps
<1>5. tasks'[k].kind # "send"
  BY <1>1, NoTaskIs
<1>6. ASSUME NEW j \in Slots PROVE Attached(j)' /\ Heard(j)' /\ OnTop(j)'
  <2>1. Attached(j) /\ Heard(j) /\ OnTop(j) /\ Heard(k)
    BY DEF Control
  <2>2. turn.client # k
    BY <2>1 DEF Heard, Is
  <2>3. Same(j) \/ tasks'[j].kind # "send"
    BY <1>1, <1>5
  <2>4. turn.client = j => Same(j)
    BY <1>1, <2>2
  <2> QED BY <2>1, <2>3, <2>4, UnmovedSends
<1>7. PanelFits'
  BY DEF Control, PanelFits
<1> QED BY <1>2, <1>4, <1>6, <1>7 DEF Control

LEMMA SameBounds ==
  ASSUME Control, UNCHANGED <<acts, failures, missed, strays>>
  PROVE  Bounds
  BY DEF Control, AssistantStoreTypeOK, Bounds

LEMMA SameTurn ==
  ASSUME Control, UNCHANGED <<turn, thread>>
  PROVE  TurnFits' /\ thread' \in [Builds -> Seq(Stored)]
  BY DEF Control, AssistantStoreTypeOK, TurnFits

LEMMA ReadsControl ==
  ASSUME Control, acts' = acts, NEW k \in Slots, ReadRunning(k) \/ ReadRows(k)
  PROVE  Control'
<1>1. tasks[k].kind # "send" /\ tasks[k].kind # "none" /\ tasks[k].build \in Builds
  BY NoTaskIs DEF ReadRunning, ReadRows, Control, Attached, Early, Sound
<1>2. Bounds /\ TurnFits' /\ thread' \in [Builds -> Seq(Stored)]
  BY SameBounds, SameTurn DEF ReadRunning, ReadRows, server
<1>3. tasks[k] \in Task
  BY Typed
<1>4. CASE ReadRunning(k)
  <2> DEFINE t == [tasks[k] EXCEPT !.stage = "reading", !.answer.running = (turn.build = tasks[k].build)]
  <2>1. t \in Task
    BY <1>3, TaskRunning
  <2>2. tasks' = [tasks EXCEPT ![k] = t] /\ ui' = ui /\ stranded' = stranded /\ turn' = turn
    BY <1>4 DEF ReadRunning, server
  <2>3. /\ t.kind = tasks[k].kind /\ t.current = tasks[k].current
        /\ t.build = tasks[k].build /\ t.what = tasks[k].what
    BY <1>3 DEF Task
  <2> HIDE DEF t
  <2> QED BY <1>1, <1>2, <2>1, <2>2, <2>3, QuietTask
<1>5. CASE ReadRows(k)
  <2> DEFINE rows == thread[tasks[k].build]
             t == [tasks[k] EXCEPT !.stage = "told", !.answer.rows = rows]
  <2>0. rows \in Seq(Stored)
    BY <1>1, Typed
  <2>1. t \in Task
    <3> HIDE DEF rows
    <3> QED BY <1>3, <2>0, TaskRows
  <2>2. tasks' = [tasks EXCEPT ![k] = t] /\ ui' = ui /\ stranded' = stranded /\ turn' = turn
    BY <1>5 DEF ReadRows, server
  <2>3. /\ t.kind = tasks[k].kind /\ t.current = tasks[k].current
        /\ t.build = tasks[k].build /\ t.what = tasks[k].what
    BY <1>3 DEF Task
  <2> HIDE DEF t
  <2> QED BY <1>1, <1>2, <2>1, <2>2, <2>3, QuietTask
<1> QED BY <1>4, <1>5

\* The task that sends a message goes on, its message as it was.
LEMMA SendMoves ==
  ASSUME Control, Bounds, thread' \in [Builds -> Seq(Stored)], turn' \in Turn, TurnFits',
         ui' = ui, stranded' = stranded,
         NEW k \in Slots, tasks[k].kind = "send", NEW t \in Task, tasks' = [tasks EXCEPT ![k] = t],
         t.kind = "send", t.current = tasks[k].current, t.build = tasks[k].build, t.what = tasks[k].what,
         \A j \in Slots \ {k} : turn.client = j \/ turn'.client = j => turn' = turn,
         Attached(k)', Heard(k)', OnTop(k)'
  PROVE  Control'
<1>0. tasks \in [Slots -> Task]
  BY Typed
<1>1. tasks' \in [Slots -> Task] /\ tasks'[k] = t /\ \A j \in Slots \ {k} : Same(j)
  BY <1>0 DEF Same
<1>2. AssistantStoreTypeOK'
  BY <1>1 DEF Bounds, Control, AssistantStoreTypeOK
<1>3. \A j \in Slots : Alike(j) \/ GoneQuietly(j)
  BY <1>1 DEF Alike
<1>4. ScreenIsItsBuilds' /\ BusyIsOneTask' /\ \A j \in Slots : Sound(j)'
  BY <1>3, QuietSteps
<1>5. ASSUME NEW j \in Slots \ {k} PROVE Attached(j)' /\ Heard(j)' /\ OnTop(j)'
  <2>1. Attached(j) /\ Heard(j) /\ OnTop(j) /\ Same(j)
    BY <1>1 DEF Control
  <2>2. turn.client = j \/ turn'.client = j => turn' = turn
    OBVIOUS
  <2> QED BY <2>1, <2>2, UnmovedSends
<1>6. PanelFits'
  BY DEF Control, PanelFits
<1> QED BY <1>2, <1>4, <1>5, <1>6 DEF Control

\* A turn nobody here listens to, before and after.
LEMMA FarTurn ==
  ASSUME Control, Bounds, thread' \in [Builds -> Seq(Stored)], turn' \in Turn, TurnFits',
         ui' = ui, stranded' = stranded, tasks' = tasks,
         turn.client \notin Slots, turn'.client \notin Slots
  PROVE  Control'
<1>1. AssistantStoreTypeOK'
  BY DEF Bounds, Control, AssistantStoreTypeOK
<1>2. \A j \in Slots : Alike(j)
  BY DEF Alike, Same
<1>3. ScreenIsItsBuilds' /\ BusyIsOneTask' /\ \A j \in Slots : Sound(j)'
  BY <1>2, QuietSteps
<1>4. ASSUME NEW j \in Slots PROVE Attached(j)' /\ Heard(j)' /\ OnTop(j)'
  <2>1. Attached(j) /\ Heard(j) /\ OnTop(j) /\ Same(j)
    BY DEF Control, Same
  <2> QED BY <2>1, UnmovedSends
<1>5. PanelFits'
  BY DEF Control, PanelFits
<1> QED BY <1>1, <1>3, <1>4, <1>5 DEF Control

LEMMA TurnFields ==
  ASSUME Control
  PROVE  /\ turn.build \in Builds \cup {None} /\ turn.what \in Texts \cup {None}
         /\ turn.client \in 0 .. OtherTab /\ turn.stored \in BOOLEAN /\ turn.said \in 0 .. MaxPieces
         /\ turn \in Turn /\ TurnFits
  BY DEF Control, AssistantStoreTypeOK, Turn

LEMMA NoTurnIs ==
  /\ NoTurn \in Turn /\ NoTurn.build = None /\ NoTurn.client = 0 /\ ~NoTurn.stored /\ NoTurn.said = 0
  /\ NoTurn.client \notin Slots /\ None \notin Builds
<1>1. 0 \in 0 .. OtherTab /\ 0 \in 0 .. MaxPieces
  BY DEF OtherTab
<1> QED BY <1>1, SlotsAre DEF NoTurn, Turn

LEMMA NewTurn ==
  ASSUME NEW b \in Builds, NEW m \in Texts, NEW client \in 0 .. OtherTab
  PROVE  /\ TurnOf(b, m, client) \in Turn /\ TurnOf(b, m, client).build = b
         /\ TurnOf(b, m, client).what = m /\ TurnOf(b, m, client).client = client
         /\ ~TurnOf(b, m, client).stored /\ TurnOf(b, m, client).said = 0
  BY NoTurnIs DEF TurnOf, Turn

LEMMA ServeClearControl ==
  ASSUME Control, acts' = acts, NEW k \in Slots, ServeClear(k)
  PROVE  Control'
<1>1. tasks[k].kind = "clear" /\ tasks[k] \in Task /\ tasks[k].build \in Builds
  BY Typed, NoTaskIs DEF ServeClear, Is, Control, Sound
<1>2. Bounds /\ ui' = ui /\ stranded' = stranded /\ turn' = turn
  BY SameBounds DEF ServeClear
<1>3. thread' \in [Builds -> Seq(Stored)] /\ TurnFits'
  <2>1. CASE turn = NoTurn
    <3>1. thread \in [Builds -> Seq(Stored)] /\ <<>> \in Seq(Stored)
      BY Typed, EmptySeq
    <3>2. thread' = [thread EXCEPT ![tasks[k].build] = <<>>]
      BY <2>1 DEF ServeClear
    <3>3. thread' \in [Builds -> Seq(Stored)]
      BY <3>1, <3>2
    <3> QED BY <1>2, <2>1, <3>3, NoTurnIs DEF TurnFits
  <2>2. CASE turn # NoTurn
    BY <1>2, <2>2, SameTurn DEF ServeClear
  <2> QED BY <2>1, <2>2
<1>4. PICK stage \in {"told", "busy"} : tasks' = [tasks EXCEPT ![k].stage = stage]
  BY DEF ServeClear
<1> DEFINE t == [tasks[k] EXCEPT !.stage = stage]
<1>5. t \in Task
  BY <1>1, TaskStage DEF Stages
<1>6. /\ t.kind = tasks[k].kind /\ t.kind # "none" /\ t.current = tasks[k].current
      /\ t.build = tasks[k].build /\ t.what = tasks[k].what
  BY <1>1 DEF Task
<1>7. tasks' = [tasks EXCEPT ![k] = t]
  BY <1>4
<1> HIDE DEF t
<1> QED BY <1>1, <1>2, <1>3, <1>5, <1>6, <1>7, QuietTask

LEMMA RequestFailsControl ==
  ASSUME Control, acts' = acts, NEW k \in Slots, RequestFails(k)
  PROVE  Control'
<1>1. tasks[k].stage = "ask" /\ tasks[k] \in Task /\ tasks[k].kind # "none"
  BY Typed, NoTaskIs DEF RequestFails, Control, Sound
<1>2. ui' = ui /\ stranded' = stranded /\ turn' = turn /\ thread' = thread
  BY DEF RequestFails, server
<1>3. Bounds /\ TurnFits' /\ thread' \in [Builds -> Seq(Stored)] /\ turn' \in Turn
  <2>1. failures' \in 0 .. MaxFailures
    BY DEF RequestFails, Control, AssistantStoreTypeOK
  <2>2. Bounds
    BY <2>1 DEF RequestFails, server, Bounds, Control, AssistantStoreTypeOK
  <2> QED BY <1>2, <2>2, SameTurn, TurnFields
<1> DEFINE t == [tasks[k] EXCEPT !.stage = "failed"]
<1>5. t \in Task
  BY <1>1, TaskStage DEF Stages
<1>6. /\ t.kind = tasks[k].kind /\ t.kind # "none" /\ t.current = tasks[k].current
      /\ t.build = tasks[k].build /\ t.what = tasks[k].what /\ t.stage = "failed"
      /\ t.wire = tasks[k].wire
  BY <1>1 DEF Task
<1>7. tasks' = [tasks EXCEPT ![k] = t]
  BY DEF RequestFails
<1> HIDE DEF t
<1>8. CASE tasks[k].kind # "send"
  BY <1>1, <1>2, <1>3, <1>5, <1>6, <1>7, <1>8, QuietTask
<1>9. CASE tasks[k].kind = "send"
  <2>0. tasks'[k] = t
    BY <1>1, <1>7, Typed
  <2>1. Attached(k) /\ Heard(k) /\ OnTop(k)
    BY DEF Control
  <2>2. Attached(k)'
    BY <1>1, <1>2, <1>6, <1>9, <2>0, <2>1 DEF Attached, Early
  <2>3. Heard(k)'
    BY <1>1, <1>2, <2>1 DEF Heard, Is
  <2>4. OnTop(k)'
    <3>1. SUFFICES ASSUME Sends(k)' PROVE OnTop(k)'
      BY DEF OnTop
    <3>2. /\ ui.screen # <<>> /\ Newest(ui.screen).what = tasks[k].what
          /\ Newest(ui.screen).mark = "" /\ Newest(ui.screen).parts = 0
      BY <1>1, <1>6, <1>9, <2>0, <2>1, <3>1 DEF OnTop, Sends, Early
    <3>3. tasks[k].wire = <<>>
      BY <1>1, <1>9, <2>1 DEF Attached, Early
    <3>4. InOrder(tasks[k].wire) /\ Closed(tasks[k].wire) = 0 /\ Pieces(tasks[k].wire) = 0
      BY <3>3, QuietWire
    <3>5. Newest(ui.screen).parts + Pieces(tasks[k].wire) <= MaxPieces
      <4>1. 0 + 0 <= MaxPieces
        OBVIOUS
      <4> QED BY <3>2, <3>4, <4>1, Zenon
    <3>6. /\ ui'.screen = ui.screen /\ tasks'[k].stage = "failed" /\ tasks'[k].wire = tasks[k].wire
          /\ tasks'[k].what = tasks[k].what
      BY <1>2, <1>6, <2>0
    <3> QED BY <3>2, <3>4, <3>5, <3>6 DEF OnTop, Early
  <2> QED BY <1>1, <1>2, <1>3, <1>5, <1>6, <1>7, <1>9, <2>2, <2>3, <2>4, SendMoves
<1> QED BY <1>8, <1>9

LEMMA StreamBreaksControl ==
  ASSUME Control, acts' = acts, NEW k \in Slots, StreamBreaks(k)
  PROVE  Control'
<1>1. Is(k, "send", "stream") /\ tasks[k] \in Task /\ turn.client = k /\ turn \in Turn
  BY Typed DEF StreamBreaks
<1>2. /\ ui' = ui /\ stranded' = stranded /\ turn' = [turn EXCEPT !.client = 0] /\ thread' = thread
  BY DEF StreamBreaks
<1>3. /\ turn' \in Turn /\ turn'.client = 0 /\ turn'.build = turn.build /\ turn'.what = turn.what
      /\ turn'.stored = turn.stored /\ turn'.said = turn.said
  <2>1. 0 \in 0 .. OtherTab
    BY DEF OtherTab
  <2> QED BY <1>1, <1>2, <2>1 DEF Turn
<1>4. Bounds /\ TurnFits' /\ thread' \in [Builds -> Seq(Stored)]
  <2>1. failures' \in 0 .. MaxFailures
    BY DEF StreamBreaks, Control, AssistantStoreTypeOK
  <2>2. Bounds
    BY <2>1 DEF StreamBreaks, Bounds, Control, AssistantStoreTypeOK
  <2>3. TurnFits
    BY TurnFields
  <2>4. turn # NoTurn
    BY <1>1, NoTurnIs
  <2>5. TurnFits'
    BY <1>2, <1>3, <2>3, <2>4 DEF TurnFits
  <2> QED BY <1>2, <2>2, <2>5, Typed
<1> DEFINE t == [tasks[k] EXCEPT !.stage = "failed"]
<1>5. t \in Task
  BY <1>1, TaskStage DEF Stages
<1>6. /\ t.kind = "send" /\ t.current = tasks[k].current
      /\ t.build = tasks[k].build /\ t.what = tasks[k].what /\ t.stage = "failed"
      /\ t.wire = tasks[k].wire
  BY <1>1 DEF Task, Is
<1>7. tasks' = [tasks EXCEPT ![k] = t]
  BY DEF StreamBreaks
<1> HIDE DEF t
<1>8. tasks'[k] = t
  BY <1>7, Typed
<1>9. Attached(k) /\ Heard(k) /\ OnTop(k)
  BY DEF Control
<1>10. Attached(k)'
  BY <1>1, <1>2, <1>6, <1>8, <1>9 DEF Attached, Early, Is
<1>11. Heard(k)'
  BY <1>3, SlotsAre DEF Heard
<1>12. OnTop(k)'
  <2>1. SUFFICES ASSUME Sends(k)' PROVE OnTop(k)'
    BY DEF OnTop
  <2>2. /\ ui.screen # <<>> /\ Newest(ui.screen).what = tasks[k].what /\ Newest(ui.screen).mark = ""
        /\ InOrder(tasks[k].wire) /\ Closed(tasks[k].wire) = 0
        /\ Newest(ui.screen).parts + Pieces(tasks[k].wire) = turn.said
    BY <1>1, <1>6, <1>8, <1>9, <2>1 DEF OnTop, Sends, Is
  <2>3. Newest(ui.screen).parts + Pieces(tasks[k].wire) <= MaxPieces
    <3>1. turn.said <= MaxPieces
      BY TurnFields
    <3> QED BY <2>2, <3>1
  <2>4. /\ ui'.screen = ui.screen /\ tasks'[k].stage = "failed" /\ tasks'[k].wire = tasks[k].wire
        /\ tasks'[k].what = tasks[k].what
    BY <1>2, <1>6, <1>8
  <2> QED BY <2>2, <2>3, <2>4 DEF OnTop, Early
<1>13. \A j \in Slots \ {k} : turn.client = j \/ turn'.client = j => turn' = turn
  BY <1>1, <1>3, SlotsAre
<1> QED BY <1>1, <1>2, <1>3, <1>4, <1>5, <1>6, <1>7, <1>10, <1>11, <1>12, <1>13, SendMoves DEF Is

LEMMA ServeSendControl ==
  ASSUME Control, acts' = acts, NEW k \in Slots, ServeSend(k)
  PROVE  Control'
<1>1. /\ Is(k, "send", "ask") /\ tasks[k] \in Task /\ tasks[k].build \in Builds
      /\ tasks[k].what \in Messages
  BY Typed, NoTaskIs DEF ServeSend, Control, Sound, Is
<1>2. ui' = ui /\ stranded' = stranded /\ thread' = thread /\ Bounds
  BY SameBounds DEF ServeSend
<1>3. Attached(k) /\ Heard(k) /\ OnTop(k) /\ TurnFits /\ turn.client # k
  BY <1>1 DEF Control, Heard, Is
<1>4. PICK stage \in {"stream", "full", "busy"} :
         /\ tasks' = [tasks EXCEPT ![k].stage = stage]
         /\ \/ stage = "stream" /\ turn = NoTurn /\ turn' = TurnOf(tasks[k].build, tasks[k].what, k)
            \/ stage # "stream" /\ turn' = turn
  BY DEF ServeSend
<1> DEFINE t == [tasks[k] EXCEPT !.stage = stage]
<1>5. t \in Task
  BY <1>1, TaskStage DEF Stages
<1>6. /\ t.kind = "send" /\ t.current = tasks[k].current /\ t.build = tasks[k].build
      /\ t.what = tasks[k].what /\ t.stage = stage /\ t.wire = tasks[k].wire /\ t.aborted = tasks[k].aborted
  BY <1>1 DEF Task, Is
<1>7. tasks' = [tasks EXCEPT ![k] = t]
  BY <1>4
<1> HIDE DEF t
<1>8. tasks'[k] = t
  BY <1>7, Typed
<1>9. tasks[k].wire = <<>> /\ thread' \in [Builds -> Seq(Stored)]
  BY <1>1, <1>2, <1>3, Typed DEF Attached, Early, Is
<1>10. Attached(k)'
  BY <1>1, <1>2, <1>3, <1>6, <1>8, <1>9 DEF Attached, Early, Is
<1>11. CASE stage # "stream"
  <2>1. turn' = turn /\ turn' \in Turn /\ TurnFits'
    BY <1>2, <1>4, <1>11, TurnFields, SameTurn
  <2>2. Heard(k)'
    BY <1>3, <2>1 DEF Heard
  <2>3. OnTop(k)'
    BY <1>1, <1>2, <1>3, <1>6, <1>8, <1>11 DEF OnTop, Sends, Early, Is
  <2> QED BY <1>1, <1>2, <1>5, <1>6, <1>7, <1>9, <1>10, <2>1, <2>2, <2>3, SendMoves DEF Is
<1>12. CASE stage = "stream"
  <2>1. k \in 0 .. OtherTab /\ tasks[k].what \in Texts
    BY <1>1 DEF Slots, OtherTab, Texts
  <2>2. /\ turn' \in Turn /\ turn'.build = tasks[k].build /\ turn'.what = tasks[k].what
        /\ turn'.client = k /\ ~turn'.stored /\ turn'.said = 0
    BY <1>1, <1>4, <1>12, <2>1, NewTurn
  <2>3. TurnFits'
    BY <1>1, <2>1, <2>2 DEF TurnFits
  <2>4. Heard(k)'
    <3>1. ~tasks[k].aborted
      BY <1>1, <1>3 DEF Attached, Is
    <3> QED BY <1>6, <1>8, <1>12, <2>2, <3>1 DEF Heard, Is
  <2>5. OnTop(k)'
    <3>1. SUFFICES ASSUME Sends(k)' PROVE OnTop(k)'
      BY DEF OnTop
    <3>2. /\ Newest(ui.screen).parts = 0 /\ ui.screen # <<>>
          /\ Newest(ui.screen).what = tasks[k].what /\ Newest(ui.screen).mark = ""
      BY <1>1, <1>3, <1>6, <1>8, <3>1 DEF OnTop, Sends, Early, Is
    <3>3. InOrder(t.wire) /\ Closed(t.wire) = 0 /\ Pieces(t.wire) = 0 /\ t.wire = <<>>
      BY <1>6, <1>9, QuietWire
    <3>4. Newest(ui.screen).parts + Pieces(t.wire) = turn'.said
      <4>1. 0 + 0 = 0
        OBVIOUS
      <4>2. Newest(ui.screen).parts = 0 /\ Pieces(t.wire) = 0 /\ turn'.said = 0
        BY <2>2, <3>2, <3>3
      <4> QED BY <4>1, <4>2, Zenon
    <3>5. ui'.screen = ui.screen /\ tasks'[k].stage = "stream" /\ tasks'[k].wire = t.wire
          /\ tasks'[k].what = tasks[k].what /\ turn'.client = k
      BY <1>2, <1>6, <1>8, <1>12, <2>2
    <3> QED BY <3>2, <3>3, <3>4, <3>5 DEF OnTop, Early
  <2>6. \A j \in Slots \ {k} : turn.client = j \/ turn'.client = j => turn' = turn
    BY <1>4, <1>12, <2>2, NoTurnIs
  <2> QED BY <1>1, <1>2, <1>5, <1>6, <1>7, <1>9, <1>10, <2>2, <2>3, <2>4, <2>5, <2>6, SendMoves DEF Is
<1> QED BY <1>4, <1>11, <1>12

LEMMA ServeStrayControl ==
  ASSUME Control, acts' = acts, NEW s \in strays, ServeStray(s)
  PROVE  Control'
<1>1. s.build \in Builds /\ s.what \in Texts /\ strays \ {s} \subseteq [build : Builds, what : Messages]
  BY DEF Control, AssistantStoreTypeOK, Texts
<1>2. ui' = ui /\ stranded' = stranded /\ tasks' = tasks /\ thread' = thread /\ failures' = failures
  BY DEF ServeStray
<1>3. Bounds
  <2>1. missed' \in {missed, missed \cup {"lost"}} /\ missed \subseteq Reasons
    BY DEF ServeStray, Control, AssistantStoreTypeOK
  <2>2. missed' \subseteq Reasons
    BY <2>1 DEF Reasons
  <2> QED BY <1>1, <1>2, <2>2 DEF ServeStray, Bounds, Control, AssistantStoreTypeOK
<1>4. CASE turn' = turn
  <2>1. /\ thread' \in [Builds -> Seq(Stored)] /\ TurnFits' /\ turn' \in Turn
    BY <1>2, <1>4, SameTurn, TurnFields
  <2>2. AssistantStoreTypeOK'
    BY <1>2, <1>3, <2>1 DEF Bounds, Control, AssistantStoreTypeOK
  <2>3. \A j \in Slots : Alike(j)
    BY <1>2 DEF Alike, Same
  <2>4. ScreenIsItsBuilds' /\ BusyIsOneTask' /\ \A j \in Slots : Sound(j)'
    BY <1>2, <2>3, QuietSteps
  <2>5. ASSUME NEW j \in Slots PROVE Attached(j)' /\ Heard(j)' /\ OnTop(j)'
    <3>1. Attached(j) /\ Heard(j) /\ OnTop(j) /\ Same(j)
      BY <1>2 DEF Control, Same
    <3> QED BY <1>2, <1>4, <3>1, UnmovedSends
  <2>6. PanelFits'
    BY <1>2 DEF Control, PanelFits
  <2> QED BY <2>1, <2>2, <2>4, <2>5, <2>6 DEF Control
<1>5. CASE turn = NoTurn /\ turn' = TurnOf(s.build, s.what, 0)
  <2>1. 0 \in 0 .. OtherTab
    BY DEF OtherTab
  <2>2. /\ turn' \in Turn /\ turn'.build = s.build /\ turn'.what = s.what
        /\ turn'.client = 0 /\ ~turn'.stored /\ turn'.said = 0
    BY <1>1, <1>5, <2>1, NewTurn
  <2>3. TurnFits' /\ turn.client \notin Slots /\ turn'.client \notin Slots
    BY <1>1, <1>5, <2>2, NoTurnIs, SlotsAre DEF TurnFits
  <2>4. thread' \in [Builds -> Seq(Stored)]
    BY <1>2, SameTurn DEF Control, AssistantStoreTypeOK
  <2> QED BY <1>2, <1>3, <2>2, <2>3, <2>4, FarTurn
<1> QED BY <1>4, <1>5 DEF ServeStray

LEMMA ElsewhereControl ==
  ASSUME Control, acts' \in 0 .. MaxActs, Elsewhere
  PROVE  Control'
<1>1. ui' = ui /\ stranded' = stranded /\ tasks' = tasks /\ turn = NoTurn
  BY DEF Elsewhere
<1>2. missed' \subseteq Reasons
  <2>1. missed \subseteq Reasons
    BY DEF Control, AssistantStoreTypeOK
  <2>2. PICK b \in Builds : missed' = missed \cup ChangedElsewhere(b)
    BY DEF Elsewhere
  <2> QED BY <2>1, <2>2 DEF ChangedElsewhere, Reasons
<1>3. Bounds
  BY <1>2 DEF Elsewhere, Bounds, Control, AssistantStoreTypeOK
<1>4. thread \in [Builds -> Seq(Stored)]
  BY DEF Control, AssistantStoreTypeOK
<1>5. ASSUME NEW b \in Builds, NEW m \in Others, turn' = TurnOf(b, m, OtherTab), thread' = thread
      PROVE  Control'
  <2>1. OtherTab \in 0 .. OtherTab /\ m \in Texts
    BY DEF OtherTab, Texts
  <2>2. /\ turn' \in Turn /\ turn'.build = b /\ turn'.what = m
        /\ turn'.client = OtherTab /\ ~turn'.stored /\ turn'.said = 0
    BY <1>5, <2>1, NewTurn
  <2>3. TurnFits' /\ turn.client \notin Slots /\ turn'.client \notin Slots
    BY <1>1, <2>1, <2>2, NoTurnIs, SlotsAre DEF TurnFits
  <2> QED BY <1>1, <1>3, <1>4, <1>5, <2>2, <2>3, FarTurn
<1>6. ASSUME NEW b \in Builds, thread' = [thread EXCEPT ![b] = <<>>], turn' = turn
      PROVE  Control'
  <2>1. <<>> \in Seq(Stored)
    BY EmptySeq
  <2>2. thread' \in [Builds -> Seq(Stored)]
    BY <1>4, <1>6, <2>1
  <2>3. TurnFits' /\ turn.client \notin Slots /\ turn'.client \notin Slots /\ turn' \in Turn
    BY <1>1, <1>6, NoTurnIs DEF TurnFits
  <2> QED BY <1>1, <1>3, <2>2, <2>3, FarTurn
<1> QED BY <1>5, <1>6 DEF Elsewhere

\* What the task that listens knows before the turn says more.
Hears(k) == /\ InOrder(tasks[k].wire) /\ Closed(tasks[k].wire) = 0
            /\ Newest(ui.screen).parts + Pieces(tasks[k].wire) = turn.said
            /\ ~turn.stored => tasks[k].wire = <<>>

LEMMA Listener ==
  ASSUME Control, NEW k \in Slots, turn.client = k
  PROVE  /\ tasks[k] \in Task /\ Is(k, "send", "stream") /\ ~tasks[k].aborted
         /\ turn.build = tasks[k].build /\ turn.what = tasks[k].what
         /\ tasks[k].wire \in Seq(Events) /\ turn # NoTurn
         /\ Sends(k) => Hears(k)
<1>1. tasks[k] \in Task /\ Heard(k) /\ OnTop(k)
  BY Typed DEF Control
<1>2. turn # NoTurn
  BY NoTurnIs
<1> QED BY <1>1, <1>2, TaskFields DEF Heard, OnTop, Is, Hears

LEMMA Speaks ==
  ASSUME Control, Bounds, thread' \in [Builds -> Seq(Stored)], turn' \in Turn, TurnFits',
         ui' = ui, stranded' = stranded, NEW event \in Events,
         NEW k \in Slots, turn.client = k, tasks' = [tasks EXCEPT ![k].wire = Append(@, event)],
         \/ turn'.client = k /\ turn'.build = turn.build /\ turn'.what = turn.what
         \/ turn'.client \notin Slots,
         Sends(k) =>
           LET more == Append(tasks[k].wire, event)
           IN  /\ InOrder(more)
               /\ turn'.client = k => /\ Closed(more) = 0 /\ turn'.stored
                                      /\ Newest(ui.screen).parts + Pieces(more) = turn'.said
               /\ turn'.client # k => /\ Closed(more) = 1
                                      /\ Newest(ui.screen).parts + Pieces(more) <= MaxPieces
  PROVE  Control'
<1>1. /\ tasks[k] \in Task /\ Is(k, "send", "stream") /\ ~tasks[k].aborted
      /\ turn.build = tasks[k].build /\ turn.what = tasks[k].what
      /\ tasks[k].wire \in Seq(Events)
  BY Listener
<1> DEFINE more == Append(tasks[k].wire, event)
           t == [tasks[k] EXCEPT !.wire = more]
<1>2. more \in Seq(Events)
  BY <1>1
<1>3. t \in Task /\ tasks' = [tasks EXCEPT ![k] = t]
  <2>1. t \in Task
    <3> HIDE DEF more
    <3> QED BY <1>1, <1>2, TaskWire
  <2> QED BY <2>1
<1>4. /\ t.kind = "send" /\ t.stage = "stream" /\ t.current = tasks[k].current /\ t.build = tasks[k].build
      /\ t.what = tasks[k].what /\ t.wire = more /\ t.aborted = tasks[k].aborted
  BY <1>1 DEF Task, Is
<1>5. Sends(k) =>
        /\ InOrder(more)
        /\ turn'.client = k => /\ Closed(more) = 0 /\ turn'.stored
                               /\ Newest(ui.screen).parts + Pieces(more) = turn'.said
        /\ turn'.client # k => /\ Closed(more) = 1
                               /\ Newest(ui.screen).parts + Pieces(more) <= MaxPieces
  OBVIOUS
<1> HIDE DEF t, more
<1>6. tasks'[k] = t /\ Attached(k) /\ Heard(k) /\ OnTop(k)
  BY <1>3, Typed DEF Control
<1>7. Attached(k)'
  BY <1>1, <1>4, <1>6 DEF Attached, Early, Is
<1>8. Heard(k)'
  BY <1>1, <1>4, <1>6 DEF Heard, Is
<1>9. OnTop(k)'
  <2>1. SUFFICES ASSUME Sends(k)' PROVE OnTop(k)'
    BY DEF OnTop
  <2>2. Sends(k)
    BY <1>1, <1>4, <1>6, <2>1 DEF Sends, Is
  <2>3. /\ ui'.screen = ui.screen /\ tasks'[k].stage = "stream" /\ tasks'[k].wire = more
        /\ tasks'[k].what = tasks[k].what
    BY <1>4, <1>6
  <2>4. /\ ui.screen # <<>> /\ Newest(ui.screen).what = tasks[k].what
        /\ Newest(ui.screen).mark = ""
    BY <1>6, <2>2 DEF OnTop
  <2>5. /\ InOrder(more)
        /\ turn'.client = k => /\ Closed(more) = 0 /\ turn'.stored
                               /\ Newest(ui.screen).parts + Pieces(more) = turn'.said
        /\ turn'.client # k => /\ Closed(more) = 1
                               /\ Newest(ui.screen).parts + Pieces(more) <= MaxPieces
    BY <1>5, <2>2
  <2> QED BY <2>3, <2>4, <2>5 DEF OnTop, Early
<1>10. \A j \in Slots \ {k} : turn.client = j \/ turn'.client = j => turn' = turn
  OBVIOUS
<1>11. tasks[k].kind = "send"
  BY <1>1 DEF Is
<1> QED BY <1>3, <1>4, <1>7, <1>8, <1>9, <1>10, <1>11, SendMoves

LEMMA Emits ==
  ASSUME NEW event, tasks' = Emit(tasks, event)
  PROVE  /\ turn.client \in Slots => tasks' = [tasks EXCEPT ![turn.client].wire = Append(@, event)]
         /\ turn.client \notin Slots => tasks' = tasks
  BY DEF Emit

\* The newest row of a conversation.
LEMMA ThreadGrows ==
  ASSUME NEW b \in Builds, thread \in [Builds -> Seq(Stored)], NEW row \in Stored,
         NEW all, all = [thread EXCEPT ![b] = Append(@, row)]
  PROVE  all \in [Builds -> Seq(Stored)] /\ all[b] # <<>>
<1>1. all[b] = Append(thread[b], row) /\ thread[b] \in Seq(Stored)
  OBVIOUS
<1>2. all[b] \in Seq(Stored) /\ all[b] # <<>>
  BY <1>1, Appended
<1>3. \A c \in Builds \ {b} : all[c] = thread[c]
  OBVIOUS
<1> QED BY <1>2

LEMMA KeptIs ==
  ASSUME Control, turn.stored
  PROVE  LET rows == thread[turn.build]
         IN  /\ turn.build \in Builds /\ rows \in Seq(Stored) /\ rows # <<>>
             /\ Kept \in [Builds -> Seq(Stored)] /\ Kept[turn.build] # <<>>
             /\ Kept[turn.build] = [rows EXCEPT ![Len(rows)] = [Newest(rows) EXCEPT !.parts = turn.said]]
             /\ \A c \in Builds : c # turn.build => Kept[c] = thread[c]
<1> DEFINE b == turn.build
           rows == thread[b]
           row == [Newest(rows) EXCEPT !.parts = turn.said]
<1>1. b \in Builds /\ rows # <<>> /\ thread \in [Builds -> Seq(Stored)] /\ turn.said \in 0 .. MaxPieces
  BY TurnFields DEF TurnFits, Control, AssistantStoreTypeOK
<1>2. rows \in Seq(Stored)
  BY <1>1
<1>3. row \in Stored
  <2>1. Newest(rows) \in Stored
    <3> HIDE DEF rows
    <3> QED BY <1>1, <1>2, BeforeIs
  <2> QED BY <1>1, <2>1 DEF Stored
<1>4. Kept = [thread EXCEPT ![b] = [rows EXCEPT ![Len(rows)] = row]]
  BY DEF Kept, Newest
<1>5. [rows EXCEPT ![Len(rows)] = row] \in Seq(Stored) /\ [rows EXCEPT ![Len(rows)] = row] # <<>>
  <2> HIDE DEF rows, row
  <2> QED BY <1>1, <1>2, <1>3, Changed
<1> QED BY <1>1, <1>2, <1>4, <1>5

LEMMA StoreMessageControl ==
  ASSUME Control, acts' = acts, StoreMessage
  PROVE  Control'
<1>1. /\ turn # NoTurn /\ ~turn.stored /\ ui' = ui /\ stranded' = stranded /\ Bounds
      /\ turn' = [turn EXCEPT !.stored = TRUE] /\ tasks' = Emit(tasks, "start")
  BY SameBounds DEF StoreMessage
<1>2. turn.build \in Builds /\ turn.what \in Texts /\ turn.said = 0 /\ turn \in Turn
      /\ thread \in [Builds -> Seq(Stored)]
  BY <1>1, TurnFields DEF TurnFits, Control, AssistantStoreTypeOK
<1>3. [what |-> turn.what, parts |-> 0] \in Stored
  BY <1>2 DEF Stored
<1>4. thread' \in [Builds -> Seq(Stored)] /\ thread'[turn.build] # <<>>
  <2> DEFINE row == [what |-> turn.what, parts |-> 0]
  <2>1. thread' = [thread EXCEPT ![turn.build] = Append(@, row)]
    BY DEF StoreMessage
  <2> HIDE DEF row
  <2> QED BY <1>2, <1>3, <2>1, ThreadGrows DEF row
<1>5. /\ turn' \in Turn /\ turn'.stored /\ turn'.build = turn.build /\ turn'.what = turn.what
      /\ turn'.client = turn.client /\ turn'.said = 0
  BY <1>1, <1>2 DEF Turn
<1>6. TurnFits'
  BY <1>2, <1>4, <1>5 DEF TurnFits
<1>7. "start" \in Events
  BY DEF Events
<1>8. CASE turn.client \notin Slots
  BY <1>1, <1>4, <1>5, <1>6, <1>8, Emits, FarTurn
<1>9. CASE turn.client \in Slots
  <2> DEFINE k == turn.client
             more == Append(tasks[k].wire, "start")
  <2>1. tasks' = [tasks EXCEPT ![k].wire = Append(@, "start")] /\ k \in Slots
    BY <1>1, <1>9, Emits
  <2>2. Sends(k) => Hears(k)
    BY <1>9, Listener
  <2>3. ASSUME Sends(k) PROVE /\ InOrder(more) /\ Closed(more) = 0
                              /\ Newest(ui.screen).parts + Pieces(more) = turn'.said
    <3>1. tasks[k].wire = <<>> /\ Newest(ui.screen).parts + Pieces(tasks[k].wire) = turn.said
      BY <1>1, <2>2, <2>3 DEF Hears
    <3>2. InOrder(more) /\ Closed(more) = 0 /\ Pieces(more) = 0
      BY <3>1, WireStarts
    <3>3. Pieces(tasks[k].wire) = 0
      BY <3>1, QuietWire
    <3>4. Pieces(more) = Pieces(tasks[k].wire) /\ turn'.said = turn.said
      BY <1>2, <1>5, <3>2, <3>3
    <3> QED BY <3>1, <3>2, <3>4
  <2> HIDE DEF more
  <2>4. \E j \in Slots : turn.client = j
    BY <1>9
  <2>5. PICK j \in Slots : turn.client = j
    BY <2>4
  <2> QED BY <1>1, <1>4, <1>5, <1>6, <1>7, <2>1, <2>3, <2>5, Speaks DEF more
<1> QED BY <1>8, <1>9

LEMMA SayControl ==
  ASSUME Control, acts' = acts, Say
  PROVE  Control'
<1>1. /\ turn.stored /\ turn.said < MaxPieces /\ ui' = ui /\ stranded' = stranded /\ Bounds
      /\ turn' = [turn EXCEPT !.said = @ + 1] /\ tasks' = Emit(tasks, "piece") /\ thread' = thread
  BY SameBounds DEF Say
<1>2. turn.said \in Nat /\ turn \in Turn /\ TurnFits /\ thread' \in [Builds -> Seq(Stored)]
  BY <1>1, TurnFields DEF Control, AssistantStoreTypeOK
<1>3. turn.said + 1 \in 0 .. MaxPieces
  BY <1>1, <1>2
<1>4. /\ turn' \in Turn /\ turn'.stored /\ turn'.build = turn.build /\ turn'.what = turn.what
      /\ turn'.client = turn.client /\ turn'.said = turn.said + 1
  BY <1>1, <1>2, <1>3 DEF Turn
<1>5. TurnFits'
  <2>1. turn # NoTurn
    BY <1>1, NoTurnIs
  <2> QED BY <1>1, <1>2, <1>4, <2>1 DEF TurnFits
<1>6. "piece" \in Events /\ "piece" # "start"
  BY DEF Events
<1>7. CASE turn.client \notin Slots
  BY <1>1, <1>2, <1>4, <1>5, <1>7, Emits, FarTurn
<1>8. CASE turn.client \in Slots
  <2>0. PICK k \in Slots : turn.client = k
    BY <1>8
  <2> DEFINE more == Append(tasks[k].wire, "piece")
  <2>1. tasks' = [tasks EXCEPT ![k].wire = Append(@, "piece")]
    BY <1>1, <2>0, Emits
  <2>2. (Sends(k) => Hears(k)) /\ tasks[k].wire \in Seq(Events)
    BY <2>0, Listener
  <2>3. ASSUME Sends(k) PROVE /\ InOrder(more) /\ Closed(more) = 0
                              /\ Newest(ui.screen).parts + Pieces(more) = turn'.said
    <3>1. /\ InOrder(tasks[k].wire) /\ Closed(tasks[k].wire) = 0
          /\ Newest(ui.screen).parts + Pieces(tasks[k].wire) = turn.said
      BY <2>2, <2>3 DEF Hears
    <3>2. InOrder(more) /\ Closed(more) = 0 /\ Pieces(more) = Pieces(tasks[k].wire) + 1
      BY <1>6, <2>2, <3>1, WireGrows
    <3>3. Pieces(tasks[k].wire) \in Nat /\ Newest(ui.screen).parts \in Nat
      <4>1. ui.screen # <<>> /\ ui.screen \in Seq(Entry)
        BY <2>3 DEF Control, OnTop, AssistantStoreTypeOK, Panel
      <4>2. Newest(ui.screen) \in Entry
        BY <4>1, BeforeIs
      <4>3. Newest(ui.screen).parts \in 0 .. MaxPieces
        BY <4>2 DEF Entry
      <4>4. 0 .. MaxPieces \subseteq Nat
        OBVIOUS
      <4> QED BY <2>2, <4>3, <4>4, PiecesAre
    <3> QED BY <1>4, <3>1, <3>2, <3>3
  <2> HIDE DEF more
  <2> QED BY <1>1, <1>2, <1>4, <1>5, <1>6, <2>0, <2>1, <2>3, Speaks DEF more
<1> QED BY <1>7, <1>8

LEMMA KeepControl ==
  ASSUME Control, acts' = acts, Keep
  PROVE  Control'
<1>1. /\ turn.stored /\ ui' = ui /\ stranded' = stranded /\ turn' = turn /\ tasks' = tasks /\ Bounds
      /\ thread' = Kept
  BY SameBounds DEF Keep
<1>2. thread' \in [Builds -> Seq(Stored)] /\ TurnFits'
  BY <1>1, KeptIs, TurnFields DEF TurnFits
<1>3. AssistantStoreTypeOK'
  BY <1>1, <1>2, TurnFields DEF Bounds, Control, AssistantStoreTypeOK
<1>4. \A j \in Slots : Same(j) /\ Alike(j)
  BY <1>1 DEF Alike, Same
<1>5. ScreenIsItsBuilds' /\ BusyIsOneTask' /\ \A j \in Slots : Sound(j)'
  BY <1>1, <1>4, QuietSteps
<1>6. ASSUME NEW j \in Slots PROVE Attached(j)' /\ Heard(j)' /\ OnTop(j)'
  <2>1. Attached(j) /\ Heard(j) /\ OnTop(j) /\ Same(j)
    BY <1>4 DEF Control
  <2> QED BY <1>1, <2>1, UnmovedSends
<1>7. PanelFits'
  BY <1>1 DEF Control, PanelFits
<1> QED BY <1>2, <1>3, <1>5, <1>6, <1>7 DEF Control

LEMMA EndTurnControl ==
  ASSUME Control, acts' = acts, EndTurn
  PROVE  Control'
<1>1. /\ turn.stored /\ ui' = ui /\ stranded' = stranded /\ turn' = NoTurn /\ Bounds
      /\ thread' = Kept
  BY SameBounds DEF EndTurn
<1>2. PICK event \in {"done", "full", "error"} : tasks' = Emit(tasks, event)
  BY DEF EndTurn
<1>3. thread' \in [Builds -> Seq(Stored)] /\ turn' \in Turn /\ TurnFits' /\ turn'.client \notin Slots
  BY <1>1, KeptIs, NoTurnIs DEF TurnFits
<1>4. event \in Events /\ event # "start" /\ event # "piece"
  BY DEF Events
<1>5. CASE turn.client \notin Slots
  BY <1>1, <1>2, <1>3, <1>5, Emits, FarTurn
<1>6. CASE turn.client \in Slots
  <2>0. PICK k \in Slots : turn.client = k
    BY <1>6
  <2> DEFINE more == Append(tasks[k].wire, event)
  <2>1. tasks' = [tasks EXCEPT ![k].wire = Append(@, event)]
    BY <1>2, <2>0, Emits
  <2>2. (Sends(k) => Hears(k)) /\ tasks[k].wire \in Seq(Events) /\ turn.said <= MaxPieces
    BY <2>0, Listener, TurnFields
  <2>3. ASSUME Sends(k) PROVE /\ InOrder(more) /\ Closed(more) = 1
                              /\ Newest(ui.screen).parts + Pieces(more) <= MaxPieces
    <3>1. /\ InOrder(tasks[k].wire) /\ Closed(tasks[k].wire) = 0
          /\ Newest(ui.screen).parts + Pieces(tasks[k].wire) = turn.said
      BY <2>2, <2>3 DEF Hears
    <3>2. InOrder(more) /\ Closed(more) = 1 /\ Pieces(more) = Pieces(tasks[k].wire)
      BY <1>4, <2>2, <3>1, WireGrows
    <3> QED BY <2>2, <3>1, <3>2
  <2> HIDE DEF more
  <2> QED BY <1>1, <1>3, <1>4, <2>0, <2>1, <2>3, Speaks DEF more
<1> QED BY <1>5, <1>6

(***************************************************************************)
(* The panel.                                                               *)
(***************************************************************************)
Statuses == {"idle", "loading", "streaming", "stopping", "following"}

LEMMA PanelFields ==
  ASSUME NEW u \in Panel
  PROVE  /\ u.build \in Builds \cup {None} /\ u.loaded \in BOOLEAN /\ u.screen \in Seq(Entry)
         /\ u.status \in Statuses /\ u.full \in BOOLEAN /\ u.error \in BOOLEAN
         /\ u.draft \in Messages \cup {None} /\ u.queued \in Messages \cup {None}
         /\ u.controller \in 0 .. Ended
  BY DEF Panel, Statuses

\* Only what waits in the box or behind the turn changes, or which request may be given up.
Aside(u) == /\ u.build = ui.build /\ u.loaded = ui.loaded /\ u.screen = ui.screen
            /\ u.status = ui.status /\ u.error = ui.error

\* The outcome of a message that no longer counts.
LEMMA SendEndsUnseen ==
  ASSUME Control, Bounds, UNCHANGED <<thread, stranded>>,
         ui' \in Panel, Aside(ui'), NEW k \in Slots, tasks[k].kind = "send", ~tasks[k].current,
         tasks' = [tasks EXCEPT ![k] = NoTask],
         \A j \in Slots \ {k} : ui.controller = j => ui'.controller = j,
         turn'.client # k, turn' \in Turn, TurnFits',
         turn' = turn \/ (turn.client = k /\ turn'.client \notin Slots)
  PROVE  Control'
<1>1. tasks' \in [Slots -> Task] /\ tasks'[k] = NoTask /\ \A j \in Slots \ {k} : Same(j)
  BY Typed, NoTaskType DEF Same
<1>2. AssistantStoreTypeOK'
  BY <1>1 DEF Bounds, Control, AssistantStoreTypeOK
<1>3. \A j \in Slots : Alike(j) \/ GoneQuietly(j)
  BY <1>1 DEF Alike, GoneQuietly, Busy
<1>4. ScreenIsItsBuilds' /\ BusyIsOneTask' /\ \A j \in Slots : Sound(j)'
  BY <1>3, QuietSteps DEF Aside
<1>5. ASSUME NEW j \in Slots \ {k} PROVE Attached(j)' /\ Heard(j)' /\ OnTop(j)'
  <2>1. Attached(j) /\ Heard(j) /\ OnTop(j) /\ Same(j)
    BY <1>1 DEF Control
  <2> QED BY <2>1, UnmovedSends DEF Aside
<1>6. Attached(k)' /\ Heard(k)' /\ OnTop(k)'
  <2>1. Put(k)
    BY <1>1, NoTaskIs DEF Put
  <2> QED BY <2>1, PutAside
<1>7. PanelFits'
  BY DEF Control, PanelFits, Aside
<1> QED BY <1>2, <1>4, <1>5, <1>6, <1>7 DEF Control

\* Nothing but the box changes.
LEMMA BoxControl ==
  ASSUME Control, Bounds, UNCHANGED <<thread, turn, tasks, stranded>>,
         ui' \in Panel, Aside(ui'), ui'.controller = ui.controller
  PROVE  Control'
<1>1. AssistantStoreTypeOK' /\ TurnFits'
  BY SameTurn, TurnFields DEF Bounds, Control, AssistantStoreTypeOK
<1>2. \A j \in Slots : Alike(j) /\ Same(j)
  BY DEF Alike, Same
<1>3. ScreenIsItsBuilds' /\ BusyIsOneTask' /\ \A j \in Slots : Sound(j)'
  BY <1>2, QuietSteps DEF Aside
<1>4. ASSUME NEW j \in Slots PROVE Attached(j)' /\ Heard(j)' /\ OnTop(j)'
  <2>1. Attached(j) /\ Heard(j) /\ OnTop(j) /\ Same(j)
    BY <1>2 DEF Control
  <2> QED BY <2>1, UnmovedSends DEF Aside
<1>5. PanelFits'
  BY DEF Control, PanelFits, Aside
<1> QED BY <1>1, <1>3, <1>4, <1>5 DEF Control

LEMMA IdleControl ==
  ASSUME Control, UNCHANGED vars
  PROVE  Control'
<1>1. Bounds /\ ui' \in Panel /\ Aside(ui') /\ ui'.controller = ui.controller
  BY DEF vars, server, Bounds, Control, AssistantStoreTypeOK, Aside
<1> QED BY <1>1, BoxControl DEF vars

\* Only the box and the message that waits change.
LEMMA InTheBox ==
  ASSUME ui \in Panel, NEW m \in Messages,
         Type(m) \/ CancelQueued \/ (Send(m) /\ ui.status # "idle")
  PROVE  /\ ui' \in Panel /\ Aside(ui') /\ ui'.controller = ui.controller
         /\ UNCHANGED <<thread, turn, tasks, strays, failures, missed, stranded>>
<1>1. UNCHANGED <<thread, turn, tasks, strays, failures, missed, stranded>>
  BY DEF Type, CancelQueued, Send, server
<1>2. PICK draft \in Messages \cup {None}, queued \in Messages \cup {None} :
         ui' = [ui EXCEPT !.draft = draft, !.queued = queued]
  <2>1. ui.draft \in Messages \cup {None} /\ ui.queued \in Messages \cup {None}
    BY PanelFields
  <2>2. CASE Type(m)
    <3>1. ui' = [ui EXCEPT !.draft = m, !.queued = ui.queued]
      BY <2>2 DEF Type, Panel
    <3> QED BY <2>1, <3>1
  <2>3. CASE CancelQueued
    <3>1. ui' = [ui EXCEPT !.draft = ui.draft, !.queued = None]
      BY <2>3 DEF CancelQueued, Panel
    <3> QED BY <2>1, <3>1
  <2>4. CASE Send(m) /\ ui.status # "idle"
    <3>1. ui' = [ui EXCEPT !.draft = None, !.queued = m]
      BY <2>4 DEF Send
    <3> QED BY <3>1
  <2> QED BY <2>2, <2>3, <2>4
<1> QED BY <1>1, <1>2 DEF Panel, Aside

LEMMA BoxStepsControl ==
  ASSUME Control, acts' \in 0 .. MaxActs, NEW m \in Messages,
         Type(m) \/ CancelQueued \/ (Send(m) /\ ui.status # "idle")
  PROVE  Control'
<1>1. ui \in Panel
  BY DEF Control, AssistantStoreTypeOK
<1>2. /\ ui' \in Panel /\ Aside(ui') /\ ui'.controller = ui.controller
      /\ UNCHANGED <<thread, turn, tasks, strays, failures, missed, stranded>>
  BY <1>1, InTheBox
<1>3. Bounds
  BY <1>2 DEF Bounds, Control, AssistantStoreTypeOK
<1> QED BY <1>2, <1>3, BoxControl

\* A function begins in a free slot.
LEMMA FreeSlotIs ==
  ASSUME Control, Free # {}
  PROVE  FreeSlot \in Slots /\ tasks[FreeSlot].kind = "none" /\ ~tasks[FreeSlot].current
<1> DEFINE R == {ss \in Nat \X Nat : ss[1] < ss[2]}
<1>1. IsWellFoundedOn(R, Nat)
  BY NatLessThanWellFounded DEF OpToRel
<1>2. Free \subseteq Nat /\ Free # {} /\ Free \subseteq Slots
  BY SlotsAre DEF Free
<1>3. PICK x \in Free : \A y \in Free : ~(<<y, x>> \in R)
  <2> HIDE DEF R
  <2> QED BY <1>1, <1>2, WFMin
<1>4. ASSUME NEW y \in Free PROVE x <= y
  <2>1. x \in Nat /\ y \in Nat /\ ~(<<y, x>> \in R)
    BY <1>2, <1>3
  <2> QED BY <2>1
<1> HIDE DEF R
<1>5. FreeSlot \in Free
  BY <1>3, <1>4 DEF FreeSlot
<1>6. tasks[FreeSlot].kind = "none" /\ FreeSlot \in Slots
  BY <1>5 DEF Free
<1>7. Sound(FreeSlot)
  BY <1>6 DEF Control
<1> QED BY <1>6, <1>7 DEF Sound

\* A task of the build that is shown, from its first request.
Asks(kind, current) ==
  [NoTask EXCEPT !.kind = kind, !.stage = "ask", !.build = ui.build, !.current = current]

LEMMA AsksIs ==
  ASSUME NEW kind \in {"load", "refresh", "clear"}, NEW current \in BOOLEAN, ui.build \in Builds
  PROVE  /\ Asks(kind, current) \in Task /\ Asks(kind, current).kind = kind
         /\ Asks(kind, current).current = current /\ Asks(kind, current).build = ui.build
         /\ Asks(kind, current).stage = "ask" /\ Asks(kind, current).answer = NoAnswer
  BY NoTaskType DEF Asks, Task, NoTask

LEMMA ShownBuild ==
  ASSUME Control, ui.loaded \/ ui.error \/ ui.screen # <<>>
  PROVE  ui.build \in Builds
<1>1. CASE ui.loaded \/ ui.error
  BY <1>1 DEF Control, PanelFits
<1>2. CASE ui.screen # <<>>
  <2>1. ui.screen \in Seq(Entry)
    BY DEF Control, AssistantStoreTypeOK, Panel
  <2>2. Len(ui.screen) \in Nat \ {0} /\ DOMAIN ui.screen = 1 .. Len(ui.screen)
    BY <1>2, <2>1, EmptySeq, LenProperties
  <2>3. 1 \in DOMAIN ui.screen /\ ui.screen[1] \in Entry
    BY <2>1, <2>2, ElementOfSeq
  <2>4. ui.screen[1].of \in Builds /\ ui.screen[1].of = ui.build
    BY <2>3 DEF Control, ScreenIsItsBuilds, Entry
  <2> QED BY <2>4
<1> QED BY <1>1, <1>2

\* What is asked for when the panel is opened again, or its conversation cleared.
LEMMA AskedFor ==
  ASSUME Reopen \/ Clear
  PROVE  \E kind \in {"refresh", "clear"}, current \in BOOLEAN :
            tasks' = [tasks EXCEPT ![FreeSlot] = Asks(kind, current)]
<1>1. CASE Reopen
  <2>1. tasks' = [tasks EXCEPT ![FreeSlot] = Asks("refresh", TRUE)]
    BY <1>1 DEF Reopen, Asks
  <2> QED BY <2>1
<1>2. CASE Clear
  <2>1. NoTask.current = FALSE
    BY DEF NoTask
  <2>2. Asks("clear", FALSE) = [NoTask EXCEPT !.kind = "clear", !.stage = "ask", !.build = ui.build]
    BY NoTaskType, <2>1 DEF Asks, Task
  <2>3. tasks' = [tasks EXCEPT ![FreeSlot] = Asks("clear", FALSE)]
    BY <1>2, <2>2 DEF Clear
  <2> QED BY <2>3
<1> QED BY <1>1, <1>2

LEMMA AsksControl ==
  ASSUME Control, acts' \in 0 .. MaxActs, Reopen \/ Clear
  PROVE  Control'
<1>1. /\ ui.status = "idle" /\ Free # {} /\ ui.build \in Builds
      /\ ui' = ui /\ UNCHANGED <<thread, turn, strays, failures, missed, stranded>>
  BY ShownBuild DEF Reopen, Clear, server
<1>2. PICK kind \in {"refresh", "clear"}, current \in BOOLEAN :
         tasks' = [tasks EXCEPT ![FreeSlot] = Asks(kind, current)]
  BY AskedFor
<1>3. PICK k \in Slots : k = FreeSlot /\ tasks[k].kind = "none"
  BY <1>1, FreeSlotIs
<1> DEFINE t == Asks(kind, current)
<1>4. t \in Task /\ t.kind = kind /\ t.current = current /\ t.build = ui.build
  BY <1>1, AsksIs
<1> HIDE DEF t
<1>5. tasks' \in [Slots -> Task] /\ tasks'[k] = t /\ \A j \in Slots \ {k} : Same(j)
  BY <1>2, <1>3, <1>4, Typed DEF Same, t
<1>6. Bounds /\ TurnFits' /\ AssistantStoreTypeOK'
  <2>1. Bounds
    BY <1>1 DEF Bounds, Control, AssistantStoreTypeOK
  <2> QED BY <1>1, <1>5, <2>1, SameTurn, TurnFields DEF Bounds, Control, AssistantStoreTypeOK
<1>7. ~stranded /\ ~Busy(k)
  BY <1>1, <1>3, NobodyIsBusy
<1>8. Aloof(k)
  <2>1. tasks'[k].kind \in {"refresh", "clear"} /\ tasks'[k].build = ui.build
    BY <1>4, <1>5
  <2>2. ~Busy(k)'
    BY <2>1 DEF Busy
  <2>3. ui'.build \in Builds /\ tasks'[k].build = ui'.build /\ ~stranded'
    BY <1>1, <1>7, <2>1
  <2>4. tasks'[k].kind # "none" /\ tasks'[k].kind # "send"
    BY <2>1
  <2>5. Sound(k)'
    BY <2>3, <2>4 DEF Sound
  <2> QED BY <1>7, <2>2, <2>5 DEF Aloof
<1>9. \A j \in Slots : Alike(j) \/ Aloof(j)
  BY <1>5, <1>8 DEF Alike
<1>10. ScreenIsItsBuilds' /\ BusyIsOneTask' /\ \A j \in Slots : Sound(j)'
  BY <1>1, <1>9, QuietSteps
<1>11. ASSUME NEW j \in Slots PROVE Attached(j)' /\ Heard(j)' /\ OnTop(j)'
  <2>1. Attached(j) /\ Heard(j) /\ OnTop(j) /\ Heard(k)
    BY <1>3 DEF Control
  <2>2. turn.client # k
    BY <1>3, <2>1 DEF Heard, Is
  <2>3. Same(j) \/ tasks'[j].kind # "send"
    BY <1>4, <1>5
  <2>4. turn.client = j => Same(j)
    BY <1>5, <2>2
  <2> QED BY <1>1, <2>1, <2>3, <2>4, UnmovedSends
<1>12. PanelFits'
  BY <1>1 DEF Control, PanelFits
<1> QED BY <1>6, <1>10, <1>11, <1>12 DEF Control

(***************************************************************************)
(* What makes a task the one that is busy.                                  *)
(***************************************************************************)
LEMMA BusyNow ==
  ASSUME NEW k \in Slots, Busy(k)', tasks'[k].kind \in Kinds[ui'.status],
         \A j \in Slots \ {k} : ~Busy(j)', ui'.status # "idle"
  PROVE  BusyIsOneTask'
<1>1. {j \in Slots : tasks'[j].current /\ tasks'[j].kind \in {"load", "send", "follow"}} = {k}
  BY DEF Busy
<1> QED BY <1>1 DEF BusyIsOneTask, Kinds

LEMMA NobodyNow ==
  ASSUME ui'.status = "idle", \A j \in Slots : ~Busy(j)'
  PROVE  BusyIsOneTask'
<1>1. {j \in Slots : tasks'[j].current /\ tasks'[j].kind \in {"load", "send", "follow"}} = {}
  BY DEF Busy
<1> QED BY <1>1 DEF BusyIsOneTask

\* run++: a task is as it was, but may not write any more.
LEMMA StaleIs ==
  ASSUME NEW all \in [Slots -> Task], NEW j \in Slots
  PROVE  /\ Stale(all) \in [Slots -> Task] /\ ~Stale(all)[j].current
         /\ Stale(all)[j].kind = all[j].kind /\ Stale(all)[j].stage = all[j].stage
         /\ Stale(all)[j].build = all[j].build /\ Stale(all)[j].what = all[j].what
         /\ Stale(all)[j].wire = all[j].wire /\ Stale(all)[j].aborted = all[j].aborted
<1>0. ASSUME NEW t \in Task
      PROVE  LET u == [t EXCEPT !.current = FALSE]
             IN  /\ u \in Task /\ ~u.current /\ u.kind = t.kind /\ u.stage = t.stage /\ u.build = t.build
                 /\ u.what = t.what /\ u.wire = t.wire /\ u.aborted = t.aborted
  BY DEF Task
<1>1. \A i \in Slots : [all[i] EXCEPT !.current = FALSE] \in Task
  BY <1>0
<1>2. Stale(all)[j] = [all[j] EXCEPT !.current = FALSE]
  BY DEF Stale
<1>3. Stale(all) \in [Slots -> Task]
  BY <1>1 DEF Stale
<1>4. /\ ~Stale(all)[j].current
      /\ Stale(all)[j].kind = all[j].kind /\ Stale(all)[j].stage = all[j].stage
      /\ Stale(all)[j].build = all[j].build /\ Stale(all)[j].what = all[j].what
      /\ Stale(all)[j].wire = all[j].wire /\ Stale(all)[j].aborted = all[j].aborted
  BY <1>0, <1>2
<1> QED BY <1>3, <1>4

LEMMA TaskGivenUp ==
  ASSUME NEW t \in Task, NEW stage \in Stages
  PROVE  LET u == [t EXCEPT !.aborted = TRUE, !.stage = stage]
         IN  /\ u \in Task /\ u.kind = t.kind /\ u.current = t.current /\ u.build = t.build
             /\ u.what = t.what /\ u.wire = t.wire /\ u.aborted /\ u.stage = stage
  BY DEF Task, Stages

\* controller.abort()
LEMMA AbortedIs ==
  ASSUME NEW all \in [Slots -> Task], all = tasks, NEW c, NEW j \in Slots
  PROVE  /\ Aborted(all, c) \in [Slots -> Task]
         /\ Aborted(all, c)[j].kind = all[j].kind /\ Aborted(all, c)[j].current = all[j].current
         /\ Aborted(all, c)[j].build = all[j].build /\ Aborted(all, c)[j].what = all[j].what
         /\ Aborted(all, c)[j].wire = all[j].wire
         /\ ~(Sending(c) /\ c = j) => Aborted(all, c)[j] = all[j]
         /\ Sending(c) /\ c = j =>
              /\ Aborted(all, c)[j].aborted
              /\ Aborted(all, c)[j].stage = IF all[j].stage = "prepare" THEN "prepare" ELSE "stream"
<1>1. CASE ~Sending(c)
  BY <1>1 DEF Aborted
<1>2. CASE Sending(c)
  <2> DEFINE stage == IF all[c].stage = "prepare" THEN "prepare" ELSE "stream"
             t == [all[c] EXCEPT !.aborted = TRUE, !.stage = stage]
  <2>1. c \in Slots
    BY <1>2 DEF Sending
  <2>2. stage \in Stages
    BY DEF Stages
  <2>3. /\ t \in Task /\ t.kind = all[c].kind /\ t.current = all[c].current /\ t.build = all[c].build
        /\ t.what = all[c].what /\ t.wire = all[c].wire /\ t.aborted /\ t.stage = stage
    <3>1. all[c] \in Task
      BY <2>1
    <3> HIDE DEF stage
    <3> QED BY <2>2, <3>1, TaskGivenUp
  <2>4. Aborted(all, c) = [all EXCEPT ![c] = t]
    <3>1. all[c] \in Task
      BY <2>1
    <3>2. Aborted(all, c) = [all EXCEPT ![c].aborted = TRUE, ![c].stage = IF @ = "prepare" THEN @ ELSE "stream"]
      BY <1>2 DEF Aborted
    <3> QED BY <2>1, <3>1, <3>2 DEF Task
  <2> HIDE DEF t
  <2>5. Aborted(all, c) \in [Slots -> Task] /\ Aborted(all, c)[c] = t
        /\ \A i \in Slots \ {c} : Aborted(all, c)[i] = all[i]
    BY <2>1, <2>3, <2>4
  <2>6. CASE j = c
    BY <1>2, <2>3, <2>5, <2>6
  <2>7. CASE j # c
    BY <2>5, <2>7
  <2> QED BY <2>6, <2>7
<1> QED BY <1>1, <1>2

\* A task next to the one that moves: at most it may not write any more, or is given up.
Bystands(j) ==
  /\ tasks'[j].kind = tasks[j].kind /\ tasks'[j].build = tasks[j].build
  /\ tasks'[j].what = tasks[j].what /\ tasks'[j].wire = tasks[j].wire
  /\ tasks'[j].current => tasks[j].current /\ ui'.build = ui.build /\ ~stranded'
  /\ tasks'[j].stage = tasks[j].stage \/ (tasks[j].kind = "send" /\ tasks'[j].stage = "stream")
  /\ tasks[j].kind = "send" => ~tasks'[j].current /\ tasks'[j].stage # "ask"
  /\ turn'.client = j => /\ turn.client = j /\ turn'.build = turn.build /\ turn'.what = turn.what
                         /\ ~tasks'[j].aborted

LEMMA Bystander ==
  ASSUME Control, NEW j \in Slots, Bystands(j)
  PROVE  Sound(j)' /\ Attached(j)' /\ Heard(j)' /\ OnTop(j)'
<1>1. Sound(j) /\ Attached(j) /\ Heard(j)
  BY DEF Control
<1>2. Sound(j)'
  BY <1>1 DEF Sound, Bystands
<1>3. Put(j)
  BY <1>1 DEF Put, Attached, Bystands, Early
<1>4. turn'.client = j =>
        /\ tasks'[j].kind = "send" /\ tasks'[j].stage = "stream" /\ ~tasks'[j].aborted
        /\ turn'.build = tasks'[j].build /\ turn'.what = tasks'[j].what
  BY <1>1 DEF Heard, Is, Bystands
<1> QED BY <1>2, <1>3, <1>4, PutAside

\* Tasks that are as they were, or may not write any more, next to one that counts.
LEMMA Bystanders ==
  ASSUME Control, NEW k \in Slots, Busy(k) \/ ui.status = "idle", turn' = turn,
         stranded' = stranded, ui'.build = ui.build,
         \A j \in Slots \ {k} : tasks'[j] = Stale(tasks)[j] \/ tasks'[j] = tasks[j]
  PROVE  \A j \in Slots \ {k} : Bystands(j) /\ ~Busy(j)'
<1>1. SUFFICES ASSUME NEW j \in Slots \ {k} PROVE Bystands(j) /\ ~Busy(j)'
  OBVIOUS
<1>2. ~Busy(j) /\ ~stranded
  BY OneIsBusy, NobodyIsBusy
<1>3. tasks[j].kind = "send" => ~tasks[j].current /\ tasks[j].stage # "ask"
  BY OthersAreDone
<1>4. Heard(j)
  BY DEF Control
<1>5. turn.client = j => ~tasks[j].aborted
  BY <1>4 DEF Heard
<1>6. CASE tasks'[j] = tasks[j]
  BY <1>2, <1>3, <1>5, <1>6 DEF Bystands, Busy
<1>7. CASE tasks'[j] = Stale(tasks)[j]
  <2>1. /\ ~tasks'[j].current
        /\ tasks'[j].kind = tasks[j].kind /\ tasks'[j].stage = tasks[j].stage
        /\ tasks'[j].build = tasks[j].build /\ tasks'[j].what = tasks[j].what
        /\ tasks'[j].wire = tasks[j].wire /\ tasks'[j].aborted = tasks[j].aborted
    BY <1>7, Typed, StaleIs
  <2> QED BY <1>3, <1>5, <2>1 DEF Bystands, Busy
<1> QED BY <1>1, <1>6, <1>7

Whole == AssistantStoreTypeOK' /\ TurnFits' /\ PanelFits' /\ ScreenIsItsBuilds'

LEMMA OneGoesOn ==
  ASSUME Control, Whole, NEW k \in Slots, \A j \in Slots \ {k} : Bystands(j) /\ ~Busy(j)',
         Busy(k)', tasks'[k].kind \in Kinds[ui'.status], ui'.status # "idle",
         Sound(k)', Attached(k)', Heard(k)', OnTop(k)'
  PROVE  Control'
<1>1. \A j \in Slots \ {k} : Sound(j)' /\ Attached(j)' /\ Heard(j)' /\ OnTop(j)'
  BY Bystander
<1>2. BusyIsOneTask'
  BY BusyNow
<1> QED BY <1>1, <1>2 DEF Control, Whole

LEMMA NobodyGoesOn ==
  ASSUME Control, Whole, NEW k \in Slots, \A j \in Slots \ {k} : Bystands(j) /\ ~Busy(j)',
         tasks'[k] = NoTask, ui'.status = "idle", turn'.client # k
  PROVE  Control'
<1>1. \A j \in Slots \ {k} : Sound(j)' /\ Attached(j)' /\ Heard(j)' /\ OnTop(j)'
  BY Bystander
<1>2. ~Busy(k)' /\ Sound(k)' /\ Put(k)
  BY NoTaskIs DEF Busy, Sound, Put
<1>3. Attached(k)' /\ Heard(k)' /\ OnTop(k)'
  BY <1>2, PutAside
<1>4. BusyIsOneTask'
  BY <1>2, NobodyNow
<1> QED BY <1>1, <1>2, <1>3, <1>4 DEF Control, Whole

\* A store as a function may leave it.
LikeIt(u) == /\ u \in Panel /\ u.build = ui.build
             /\ \A i \in DOMAIN u.screen : u.screen[i].of = ui.build

LEMMA WholeIs ==
  ASSUME Control, Bounds, LikeIt(ui'), ui.build \in Builds, tasks' \in [Slots -> Task],
         thread' = thread, turn' = turn, stranded' = stranded, ~stranded
  PROVE  Whole
<1>1. AssistantStoreTypeOK' /\ TurnFits'
  BY SameTurn, TurnFields DEF Bounds, Control, AssistantStoreTypeOK, LikeIt
<1>2. PanelFits'
  BY DEF PanelFits, LikeIt
<1>3. ScreenIsItsBuilds'
  BY DEF ScreenIsItsBuilds, LikeIt
<1> QED BY <1>1, <1>2, <1>3 DEF Whole

\* Back to idle.
LEMMA Rests ==
  ASSUME Control, Bounds, NEW k \in Slots, Busy(k) \/ ui.status = "idle", LikeIt(ui'),
         ui.build \in Builds, ui'.status = "idle", tasks' = [tasks EXCEPT ![k] = NoTask],
         thread' = thread, turn' = turn, stranded' = stranded, turn.client # k
  PROVE  Control'
<1>1. tasks' \in [Slots -> Task] /\ tasks'[k] = NoTask /\ \A j \in Slots \ {k} : tasks'[j] = tasks[j]
  BY Typed, NoTaskType
<1>2. ~stranded
  BY OneIsBusy, NobodyIsBusy
<1>3. \A j \in Slots \ {k} : Bystands(j) /\ ~Busy(j)'
  BY <1>1, Bystanders DEF LikeIt
<1> QED BY <1>1, <1>2, <1>3, WholeIs, NobodyGoesOn

\* A function goes on, reading the conversation.
LEMMA Follows ==
  ASSUME Control, Bounds, NEW k \in Slots, Busy(k) \/ ui.status = "idle", LikeIt(ui'),
         ui.build \in Builds, ui'.status \in {"following", "stopping"},
         NEW t \in Task, t.kind = "follow", t.current, t.build = ui.build,
         tasks' \in [Slots -> Task], tasks'[k] = t,
         \A j \in Slots \ {k} : tasks'[j] = Stale(tasks)[j] \/ tasks'[j] = tasks[j],
         thread' = thread, turn' = turn, stranded' = stranded, turn.client # k
  PROVE  Control'
<1>2. ~stranded
  BY OneIsBusy, NobodyIsBusy
<1>3. \A j \in Slots \ {k} : Bystands(j) /\ ~Busy(j)'
  BY Bystanders DEF LikeIt
<1>4. Whole
  BY <1>2, WholeIs
<1>5. ui'.status # "idle" /\ tasks'[k].kind \in Kinds[ui'.status] /\ Busy(k)'
  BY DEF Kinds, Busy
<1>6. ~stranded'
  BY <1>2
<1>7. Sound(k)'
  BY <1>6 DEF Sound, LikeIt
<1>8. Put(k)
  BY DEF Put
<1>9. Attached(k)' /\ Heard(k)' /\ OnTop(k)'
  BY <1>8, PutAside
<1> QED BY <1>3, <1>4, <1>5, <1>7, <1>9, OneGoesOn

LEMMA SendTaskIs ==
  ASSUME NEW b \in Builds, NEW m \in Messages, NEW back \in BOOLEAN
  PROVE  /\ SendTask(b, m, back) \in Task /\ SendTask(b, m, back).kind = "send"
         /\ SendTask(b, m, back).stage = "prepare" /\ SendTask(b, m, back).build = b
         /\ SendTask(b, m, back).current /\ SendTask(b, m, back).what = m
         /\ SendTask(b, m, back).wire = <<>> /\ ~SendTask(b, m, back).aborted
<1>1. <<>> \in Seq(Events) /\ NoAnswer \in Answer
  BY NoTaskType DEF NoTask, Task, Events
<1> QED BY <1>1 DEF SendTask, NoTask, Task, Events

\* v is u, with message m on its way from task k.
OnItsWay(u, k, m, v) ==
  /\ v \in Panel /\ v.build = u.build
  /\ v.loaded = u.loaded /\ v.status = "streaming" /\ v.controller = k
  /\ v.screen # <<>> /\ Before(v.screen) = u.screen
  /\ Newest(v.screen).of = u.build /\ Newest(v.screen).what = m
  /\ Newest(v.screen).parts = 0 /\ Newest(v.screen).mark = ""

LEMMA NewestEntry ==
  ASSUME NEW u, u \in Panel, u.build \in Builds, NEW k, k \in Slots, NEW m, m \in Messages
  PROVE  OnItsWay(u, k, m, Streaming(u, k, m))
<1> DEFINE v == Streaming(u, k, m)
<1> DEFINE entry == [of |-> u.build, what |-> m, parts |-> 0, mark |-> ""]
<1>1. entry \in Entry /\ u.screen \in Seq(Entry)
  <2>1. 0 \in 0 .. MaxPieces /\ m \in Texts \cup {None}
    BY DEF Texts
  <2>2. entry \in Entry
    BY <2>1 DEF Entry
  <2> HIDE DEF entry
  <2> QED BY <2>2, PanelFields
<1>2. k \in 0 .. Ended
  BY DEF Slots, Ended
<1>3. v =
        [u EXCEPT !.status = "streaming", !.controller = k, !.screen = Append(u.screen, entry)]
  BY DEF Streaming
<1> HIDE DEF entry, v
<1>4. /\ Append(u.screen, entry) \in Seq(Entry) /\ Append(u.screen, entry) # <<>>
      /\ Newest(Append(u.screen, entry)) = entry /\ Before(Append(u.screen, entry)) = u.screen
  BY <1>1, Longer
<1> DEFINE longer == Append(u.screen, entry)
<1>5. /\ longer \in Seq(Entry) /\ longer # <<>> /\ Newest(longer) = entry /\ Before(longer) = u.screen
      /\ v = [u EXCEPT !.status = "streaming", !.controller = k, !.screen = longer]
  BY <1>3, <1>4
<1> HIDE DEF longer
<1>6. /\ v \in Panel /\ v.screen = longer /\ v.build = u.build /\ v.loaded = u.loaded
      /\ v.status = "streaming" /\ v.controller = k
  BY <1>2, <1>5 DEF Panel
<1>7. entry.of = u.build /\ entry.what = m /\ entry.parts = 0 /\ entry.mark = ""
  BY DEF entry
<1>8. OnItsWay(u, k, m, v)
  BY <1>5, <1>6, <1>7 DEF OnItsWay
<1> QED BY <1>8 DEF v

\* A message goes out.
LEMMA Starts ==
  ASSUME Control, Bounds, NEW k \in Slots, Busy(k) \/ ui.status = "idle",
         NEW u, LikeIt(u), ui.build \in Builds, NEW m \in Messages, NEW back \in BOOLEAN,
         ui' = Streaming(u, k, m), tasks' = [Stale(tasks) EXCEPT ![k] = SendTask(u.build, m, back)],
         thread' = thread, turn' = turn, stranded' = stranded, turn.client # k
  PROVE  Control'
<1> DEFINE t == SendTask(u.build, m, back)
<1>0. u \in Panel /\ u.build \in Builds /\ u.build = ui.build
  BY DEF LikeIt
<1>1. /\ t \in Task /\ t.kind = "send" /\ t.stage = "prepare" /\ t.build = ui.build
      /\ t.current /\ t.what = m /\ t.wire = <<>> /\ ~t.aborted
  BY <1>0, SendTaskIs
<1> HIDE DEF t
<1>2. tasks' \in [Slots -> Task] /\ tasks'[k] = t /\ \A j \in Slots \ {k} : tasks'[j] = Stale(tasks)[j]
  BY <1>1, Typed, StaleIs DEF t
<1> DEFINE v == Streaming(u, k, m)
<1>3. /\ v \in Panel /\ v.build = ui.build /\ v.status = "streaming" /\ v.controller = k
      /\ v.screen # <<>> /\ Before(v.screen) = u.screen
      /\ Newest(v.screen).of = ui.build /\ Newest(v.screen).what = m
      /\ Newest(v.screen).parts = 0 /\ Newest(v.screen).mark = "" /\ ui' = v
  <2>1. /\ v \in Panel /\ v.build = u.build /\ v.status = "streaming" /\ v.controller = k
        /\ v.screen # <<>> /\ Before(v.screen) = u.screen
        /\ Newest(v.screen).of = u.build /\ Newest(v.screen).what = m
        /\ Newest(v.screen).parts = 0 /\ Newest(v.screen).mark = ""
    <3>1. OnItsWay(u, k, m, v)
      BY <1>0, NewestEntry
    <3> HIDE DEF v
    <3> QED BY <3>1 DEF OnItsWay
  <2>2. ui' = v
    OBVIOUS
  <2> QED BY <1>0, <2>1, <2>2
<1> HIDE DEF v
<1>4. LikeIt(v)
  <2>1. v.screen \in Seq(Entry) /\ u.screen \in Seq(Entry)
    BY <1>0, <1>3, PanelFields
  <2>2. /\ Len(v.screen) \in Nat \ {0} /\ Len(Before(v.screen)) = Len(v.screen) - 1
        /\ \A i \in 1 .. Len(v.screen) - 1 : Before(v.screen)[i] = v.screen[i]
    <3>1. v.screen # <<>>
      BY <1>3
    <3> DEFINE S == Entry
    <3>2. v.screen \in Seq(S)
      BY <2>1
    <3> HIDE DEF S
    <3> QED BY <3>1, <3>2, BeforeIs
  <2>3. DOMAIN v.screen = 1 .. Len(v.screen) /\ DOMAIN u.screen = 1 .. Len(u.screen)
    BY <2>1, LenProperties
  <2>4. ASSUME NEW i \in DOMAIN v.screen PROVE v.screen[i].of = ui.build
    <3>1. CASE i = Len(v.screen)
      BY <1>3, <3>1 DEF Newest
    <3>2. CASE i # Len(v.screen)
      <4>1. i \in DOMAIN u.screen /\ u.screen[i] = v.screen[i]
        <5>1. i \in 1 .. Len(v.screen) - 1 /\ Len(u.screen) = Len(v.screen) - 1
          <6>1. Before(v.screen) = u.screen
            BY <1>3
          <6>2. Len(u.screen) = Len(v.screen) - 1 /\ i \in 1 .. Len(v.screen) /\ Len(v.screen) \in Nat
            BY <2>2, <2>3, <2>4, <6>1
          <6> QED BY <3>2, <6>2
        <5> QED BY <1>3, <2>2, <2>3, <5>1
      <4> QED BY <4>1 DEF LikeIt
    <3> QED BY <3>1, <3>2
  <2> QED BY <1>3, <2>4 DEF LikeIt
<1>5. ~stranded
  BY OneIsBusy, NobodyIsBusy
<1>6. \A j \in Slots \ {k} : Bystands(j) /\ ~Busy(j)'
  BY <1>2, <1>3, Bystanders
<1>7. Whole
  <2>1. LikeIt(ui')
    BY <1>3, <1>4 DEF LikeIt
  <2> QED BY <1>2, <1>5, <2>1, WholeIs
<1>8. ui'.status # "idle" /\ tasks'[k].kind \in Kinds[ui'.status] /\ Busy(k)'
  <2>1. Kinds["streaming"] = {"send"}
    BY DEF Kinds
  <2>2. tasks'[k].kind = "send" /\ tasks'[k].current /\ ui'.status = "streaming"
    BY <1>1, <1>2, <1>3
  <2>3. Busy(k)'
    BY <2>2 DEF Busy
  <2> QED BY <2>1, <2>2, <2>3
<1>9. ~stranded' /\ turn'.client # k
  BY <1>5
<1>10. Sound(k)'
  BY <1>1, <1>2, <1>3, <1>9 DEF Sound
<1>11. Attached(k)'
  BY <1>1, <1>2, <1>3 DEF Attached, Early
<1>12. Heard(k)'
  BY <1>9 DEF Heard
<1>13. OnTop(k)'
  <2>1. /\ Newest(ui'.screen).what = m /\ Newest(ui'.screen).parts = 0 /\ Newest(ui'.screen).mark = ""
        /\ ui'.screen # <<>>
    BY <1>3
  <2> QED BY <1>1, <1>2, <2>1 DEF OnTop
<1> QED BY <1>6, <1>7, <1>8, <1>10, <1>11, <1>12, <1>13, OneGoesOn

LEMMA AsItWas ==
  ASSUME Control
  PROVE  LikeIt(ui)
  BY DEF Control, AssistantStoreTypeOK, ScreenIsItsBuilds, LikeIt

LEMMA Retouched ==
  ASSUME NEW u, LikeIt(u), NEW v, v \in Panel, v.build = u.build, v.screen = u.screen
  PROVE  LikeIt(v)
  BY DEF LikeIt

\* finish
LEMMA FinishControl ==
  ASSUME Control, Bounds, NEW k \in Slots, Busy(k), NEW u, LikeIt(u), Finish(k, u),
         thread' = thread, turn' = turn, stranded' = stranded, turn.client # k
  PROVE  Control'
<1>1. ui.build \in Builds
  BY OneIsBusy
<1>2. u \in Panel /\ u.build = ui.build /\ u.queued \in Messages \cup {None}
  BY PanelFields DEF LikeIt
<1>3. CASE u.queued # None /\ ~u.full
  <2> DEFINE v == [u EXCEPT !.queued = None]
             m == u.queued
  <2>1. v \in Panel /\ v.build = u.build /\ v.screen = u.screen
    BY <1>2 DEF Panel
  <2>2. m \in Messages /\ ui' = Streaming(v, k, m)
        /\ tasks' = [Stale(tasks) EXCEPT ![k] = SendTask(v.build, m, FALSE)]
    BY <1>2, <1>3, <2>1 DEF Finish
  <2> HIDE DEF v, m
  <2>3. LikeIt(v)
    BY <2>1, Retouched
  <2>4. FALSE \in BOOLEAN
    OBVIOUS
  <2> QED BY <1>1, <2>2, <2>3, <2>4, Starts
<1>4. CASE ~(u.queued # None /\ ~u.full)
  <2>1. /\ ui' = [u EXCEPT !.status = "idle", !.queued = None, !.controller = 0]
        /\ tasks' = [tasks EXCEPT ![k] = NoTask]
    BY <1>4 DEF Finish, Ends
  <2>2. 0 \in 0 .. Ended
    BY DEF Ended
  <2>3. ui' \in Panel /\ ui'.build = u.build /\ ui'.screen = u.screen /\ ui'.status = "idle"
    BY <1>2, <2>1, <2>2 DEF Panel
  <2>4. LikeIt(ui')
    BY <2>3, Retouched
  <2> QED BY <1>1, <2>1, <2>3, <2>4, Rests
<1> QED BY <1>3, <1>4

\* The task of a function that goes on to read the conversation.
Following(k, stage, ending) == [Follow(k, stage) EXCEPT !.ending = ending]

LEMMA FollowIs ==
  ASSUME ui.build \in Builds, NEW k, NEW stage \in Stages, NEW ending \in {"done", "error", "lost"}
  PROVE  /\ Following(k, stage, ending) \in Task /\ Following(k, stage, ending).kind = "follow"
         /\ Following(k, stage, ending).stage = stage /\ Following(k, stage, ending).build = ui.build
         /\ Following(k, stage, ending).current /\ Following(k, stage, ending).answer = NoAnswer
         /\ Following(k, stage, ending).ending = ending
  BY NoTaskType DEF Following, Follow, NoTask, Task, Stages

\* What was not accepted goes back into the box.
LEMMA BackIs ==
  ASSUME NEW k, tasks[k] \in Task, NEW u, u \in Panel
  PROVE  /\ Back(k, u) \in Panel /\ Back(k, u).build = u.build /\ Back(k, u).loaded = u.loaded
         /\ Back(k, u).screen = u.screen /\ Back(k, u).status = u.status
         /\ Back(k, u).error = u.error /\ Back(k, u).controller = u.controller
<1>1. tasks[k].what \in Messages \cup {None}
  BY TaskFields
<1>2. CASE tasks[k].back /\ ~tasks[k].accepted /\ u.draft = None
  <2> DEFINE v == [u EXCEPT !.draft = tasks[k].what]
  <2>1. v \in Panel /\ v.build = u.build /\ v.loaded = u.loaded /\ v.screen = u.screen /\ v.status = u.status
        /\ v.error = u.error /\ v.controller = u.controller
    BY <1>1 DEF Panel
  <2>2. Back(k, u) = v
    BY <1>2 DEF Back
  <2> QED BY <2>1, <2>2
<1>3. CASE ~(tasks[k].back /\ ~tasks[k].accepted /\ u.draft = None)
  BY <1>3 DEF Back
<1> QED BY <1>2, <1>3

\* The end of a message that still counts.
LEMMA SendGoesOn ==
  ASSUME Control, NEW k \in Slots, Sends(k), NEW u, LikeIt(u), NEW ending, SendOver(k, u, ending),
         UNCHANGED <<thread, turn, strays, failures, acts, stranded>>, turn.client # k
  PROVE  Control'
<1>1. Busy(k) /\ tasks[k].current /\ tasks[k] \in Task
  BY Typed DEF Sends, Busy
<1>2. Bounds
  <2>1. missed' \subseteq Reasons
    <3>1. missed \subseteq Reasons
      BY DEF Control, AssistantStoreTypeOK
    <3>2. missed' \in {missed, missed \cup {"lost"}}
      BY <1>1 DEF SendOver
    <3> QED BY <3>1, <3>2 DEF Reasons
  <2> QED BY <2>1 DEF Bounds, Control, AssistantStoreTypeOK
<1>3. ui.build \in Builds /\ u \in Panel /\ u.build = ui.build
  BY <1>1, OneIsBusy DEF LikeIt
<1>4. CASE ending # "done" /\ tasks[k].accepted
  <2> DEFINE last == IF ending = "stopped" THEN "done" ELSE "error"
             status == IF ending = "stopped" THEN "stopping" ELSE "following"
             t == Following(k, "ask", last)
  <2>1. last \in {"done", "error", "lost"} /\ status \in {"following", "stopping"} /\ "ask" \in Stages
    BY DEF Stages
  <2>2. ui' = [u EXCEPT !.status = status] /\ tasks' = [tasks EXCEPT ![k] = t]
    BY <1>1, <1>4 DEF SendOver, Following
  <2> HIDE DEF last, status
  <2>3. t \in Task /\ t.kind = "follow" /\ t.build = ui.build /\ t.current
    BY <1>3, <2>1, FollowIs
  <2> HIDE DEF t
  <2>4. ui' \in Panel /\ ui'.build = u.build /\ ui'.screen = u.screen /\ ui'.status = status
    BY <1>3, <2>1, <2>2 DEF Panel
  <2>5. LikeIt(ui')
    BY <2>4, Retouched
  <2>6. tasks' \in [Slots -> Task] /\ tasks'[k] = t /\ \A j \in Slots \ {k} : tasks'[j] = tasks[j]
    BY <2>2, <2>3, Typed
  <2> QED BY <1>1, <1>2, <1>3, <2>1, <2>3, <2>4, <2>5, <2>6, Follows
<1>5. CASE ~(ending # "done" /\ tasks[k].accepted)
  <2>1. Finish(k, Back(k, u))
    BY <1>1, <1>5 DEF SendOver
  <2>2. LikeIt(Back(k, u))
    BY <1>1, <1>3, BackIs, Retouched
  <2> QED BY <1>1, <1>2, <2>1, <2>2, FinishControl
<1> QED BY <1>4, <1>5

\* The end of one that does not.
LEMMA SendIsGone ==
  ASSUME Control, NEW k \in Slots, tasks[k].kind = "send", ~tasks[k].current,
         NEW ending, SendOver(k, ui, ending), UNCHANGED <<thread, strays, failures, acts, stranded>>,
         turn'.client # k, turn' \in Turn, TurnFits',
         turn' = turn \/ (turn.client = k /\ turn'.client \notin Slots)
  PROVE  Control'
<1>1. Bounds /\ tasks' = [tasks EXCEPT ![k] = NoTask] /\ ui' = Back(k, WithoutRequest(k, ui))
  <2>1. missed' = missed
    BY DEF SendOver
  <2> QED BY <2>1, SameBounds DEF SendOver, Ends
<1>2. tasks[k] \in Task /\ ui \in Panel
  BY Typed
<1> DEFINE v == WithoutRequest(k, ui)
<1>3. /\ v \in Panel /\ v.build = ui.build /\ v.loaded = ui.loaded /\ v.screen = ui.screen
      /\ v.status = ui.status /\ v.error = ui.error
      /\ v.controller = IF ui.controller = k THEN Ended ELSE ui.controller
  <2>1. Ended \in 0 .. Ended
    BY DEF Ended
  <2> QED BY <1>2, <2>1 DEF WithoutRequest, Panel
<1> HIDE DEF v
<1>4. ui' = Back(k, v)
  BY <1>1 DEF v
<1>5. /\ ui' \in Panel /\ ui'.build = v.build /\ ui'.loaded = v.loaded /\ ui'.screen = v.screen
      /\ ui'.status = v.status /\ ui'.error = v.error /\ ui'.controller = v.controller
  BY <1>2, <1>3, <1>4, BackIs
<1>6. Aside(ui') /\ \A j \in Slots \ {k} : ui.controller = j => ui'.controller = j
  BY <1>3, <1>5 DEF Aside
<1> QED BY <1>1, <1>5, <1>6, SendEndsUnseen

\* The mark on the newest entry.
LEMMA MarkIs ==
  ASSUME NEW u, u \in Panel, u.screen # <<>>, NEW mark \in {"error", "refused"}
  PROVE  /\ Mark(u, mark) \in Panel /\ Mark(u, mark).build = u.build /\ Mark(u, mark).loaded = u.loaded
         /\ Mark(u, mark).queued = u.queued /\ Mark(u, mark).full = u.full
         /\ Mark(u, mark).screen # <<>> /\ Before(Mark(u, mark).screen) = Before(u.screen)
         /\ Newest(Mark(u, mark).screen) = [Newest(u.screen) EXCEPT !.mark = mark]
         /\ (\A i \in DOMAIN u.screen : u.screen[i].of = u.build) =>
               \A i \in DOMAIN Mark(u, mark).screen : Mark(u, mark).screen[i].of = u.build
<1> DEFINE n == Len(u.screen)
           entry == [u.screen[n] EXCEPT !.mark = mark]
           screen == [u.screen EXCEPT ![n] = entry]
<1>1. u.screen \in Seq(Entry) /\ n \in Nat \ {0} /\ DOMAIN u.screen = 1 .. n
  BY PanelFields, EmptySeq, LenProperties
<1>2. u.screen[n] \in Entry /\ n \in DOMAIN u.screen /\ Newest(u.screen) = u.screen[n]
  BY <1>1, ElementOfSeq DEF Newest
<1>3. entry \in Entry /\ entry.of = u.screen[n].of
  BY <1>2 DEF Entry
<1> HIDE DEF entry
<1>4. /\ screen \in Seq(Entry) /\ screen # <<>> /\ Len(screen) = n
      /\ \A j \in 1 .. n : screen[j] = IF j = n THEN entry ELSE u.screen[j]
      /\ Newest(screen) = entry /\ Before(screen) = Before(u.screen)
  BY <1>1, <1>3, Changed
<1>5. Mark(u, mark) = [u EXCEPT !.screen = screen]
  BY <1>2 DEF Mark, Panel, entry
<1> HIDE DEF screen
<1>6. /\ Mark(u, mark) \in Panel /\ Mark(u, mark).build = u.build /\ Mark(u, mark).loaded = u.loaded
      /\ Mark(u, mark).queued = u.queued /\ Mark(u, mark).full = u.full /\ Mark(u, mark).screen = screen
  BY <1>4, <1>5 DEF Panel
<1>7. Newest(screen) = [Newest(u.screen) EXCEPT !.mark = mark]
  BY <1>2, <1>4 DEF entry
<1>8. ASSUME \A i \in DOMAIN u.screen : u.screen[i].of = u.build, NEW i \in DOMAIN screen
      PROVE  screen[i].of = u.build
  <2>1. i \in 1 .. n
    BY <1>4, LenProperties
  <2> QED BY <1>1, <1>2, <1>3, <1>4, <1>8, <2>1
<1> QED BY <1>4, <1>6, <1>7, <1>8

LEMMA NewestStays ==
  ASSUME Control, NEW k \in Slots, Sends(k)
  PROVE  ui.screen # <<>> /\ LikeIt(ui) /\ ui \in Panel /\ OnTop(k)
  BY AsItWas DEF Control, OnTop, AssistantStoreTypeOK

LEMMA FullIs ==
  ASSUME NEW full \in BOOLEAN, ui \in Panel, LikeIt(ui)
  PROVE  LET u == [ui EXCEPT !.full = full]
         IN  LikeIt(u) /\ u \in Panel /\ u.screen = ui.screen /\ u.build = ui.build
<1> DEFINE u == [ui EXCEPT !.full = full]
<1>1. u \in Panel /\ u.screen = ui.screen /\ u.build = ui.build
  BY DEF Panel
<1> HIDE DEF u
<1>2. LikeIt(u)
  BY <1>1, Retouched
<1> QED BY <1>1, <1>2 DEF u

\* What happens to the message that is on its way, or to one that was given up.
LEMMA OutcomesControl ==
  ASSUME Control, acts' = acts, NEW k \in Slots,
         Prepared(k) \/ Stopped(k) \/ Refused(k) \/ Lost(k)
  PROVE  Control'
<1>1. tasks[k].kind = "send" /\ tasks[k] \in Task /\ Attached(k) /\ Heard(k) /\ Sound(k)
  BY Typed DEF Prepared, Stopped, Refused, Lost, Is, Control
<1>2. turn.client # k
  BY <1>1 DEF Heard, Is, Prepared, Stopped, Refused, Lost
<1>3. UNCHANGED <<thread, turn, strays, failures, acts, stranded>>
  BY DEF Prepared, Stopped, Refused, Lost, server
<1>4. CASE Prepared(k) /\ tasks[k].current /\ ~tasks[k].aborted
  <2> DEFINE t == [tasks[k] EXCEPT !.stage = "ask"]
  <2>1. t \in Task /\ t.kind = "send" /\ t.current = tasks[k].current /\ t.build = tasks[k].build
        /\ t.what = tasks[k].what /\ t.stage = "ask" /\ t.wire = tasks[k].wire /\ t.aborted = tasks[k].aborted
    <3>1. t \in Task
      BY <1>1, TaskStage DEF Stages
    <3> QED BY <1>1, <3>1 DEF Task
  <2>2. tasks' = [tasks EXCEPT ![k] = t] /\ ui' = ui /\ missed' = missed /\ tasks[k].stage = "prepare"
    BY <1>4 DEF Prepared, Is
  <2> HIDE DEF t
  <2>3. tasks'[k] = t
    BY <2>1, <2>2, Typed
  <2>4. Bounds /\ TurnFits' /\ thread' \in [Builds -> Seq(Stored)] /\ turn' \in Turn
    BY <1>3, <2>2, SameBounds, SameTurn, TurnFields
  <2>5. Attached(k)'
    BY <1>1, <1>3, <1>4, <2>1, <2>2, <2>3 DEF Attached, Early
  <2>6. Heard(k)'
    BY <1>2, <1>3 DEF Heard
  <2>7. OnTop(k)'
    <3>1. OnTop(k) /\ Sends(k)
      BY <1>1, <1>4 DEF Control, Sends
    <3> QED BY <2>1, <2>2, <2>3, <3>1 DEF OnTop, Sends, Early
  <2> QED BY <1>1, <1>3, <2>1, <2>2, <2>4, <2>5, <2>6, <2>7, SendMoves
<1>5. CASE ~tasks[k].current
  <2>1. PICK ending : SendOver(k, ui, ending)
    BY <1>5 DEF Prepared, Stopped, Refused, Lost
  <2>2. turn' \in Turn /\ TurnFits' /\ turn'.client # k /\ turn' = turn
    BY <1>2, <1>3, SameTurn, TurnFields
  <2> QED BY <1>1, <1>3, <1>5, <2>1, <2>2, SendIsGone
<1>6. CASE tasks[k].current /\ ~(Prepared(k) /\ tasks[k].current /\ ~tasks[k].aborted)
  <2>1. Sends(k)
    BY <1>1, <1>6 DEF Sends
  <2>2. ui.screen # <<>> /\ LikeIt(ui) /\ ui \in Panel
    BY <2>1, NewestStays
  <2>3. PICK u, ending : SendOver(k, u, ending) /\ LikeIt(u)
    <3>1. CASE Prepared(k) \/ Stopped(k)
      <4>1. SendOver(k, ui, "stopped")
        BY <1>6, <3>1 DEF Prepared, Stopped
      <4> QED BY <2>2, <4>1
    <3>2. CASE Lost(k)
      <4>1. SendOver(k, Mark(ui, "error"), "lost")
        BY <1>6, <3>2 DEF Lost
      <4>2. LikeIt(Mark(ui, "error"))
        BY <2>2, MarkIs DEF LikeIt
      <4> QED BY <4>1, <4>2
    <3>3. CASE Refused(k)
      <4> DEFINE full == ui.full \/ tasks[k].stage = "full"
                 v == [ui EXCEPT !.full = full]
      <4>1. full \in BOOLEAN
        OBVIOUS
      <4>2. v = [ui EXCEPT !.full = @ \/ tasks[k].stage = "full"]
        BY <2>2 DEF Panel
      <4> HIDE DEF full
      <4>3. LikeIt(v) /\ v \in Panel /\ v.screen = ui.screen /\ v.build = ui.build
        BY <2>2, <4>1, FullIs
      <4> HIDE DEF v
      <4>4. SendOver(k, Mark(v, "refused"), "refused")
        BY <1>6, <3>3, <4>2 DEF Refused
      <4>5. v.screen # <<>> /\ \A i \in DOMAIN v.screen : v.screen[i].of = v.build
        BY <2>2, <4>3 DEF LikeIt
      <4>6. LikeIt(Mark(v, "refused"))
        BY <4>3, <4>5, MarkIs DEF LikeIt
      <4> QED BY <4>4, <4>6
    <3> QED BY <3>1, <3>2, <3>3
  <2> QED BY <1>2, <1>3, <2>1, <2>3, SendGoesOn
<1> QED BY <1>4, <1>5, <1>6

\* A piece of the reply on the newest entry.
WithPiece(u) == [u EXCEPT !.screen[Len(u.screen)].parts = @ + 1]

LEMMA PieceIs ==
  ASSUME NEW u, u \in Panel, u.screen # <<>>, Newest(u.screen).parts + 1 \in 0 .. MaxPieces
  PROVE  /\ WithPiece(u) \in Panel /\ WithPiece(u).build = u.build /\ WithPiece(u).loaded = u.loaded
         /\ WithPiece(u).status = u.status /\ WithPiece(u).controller = u.controller
         /\ WithPiece(u).error = u.error
         /\ WithPiece(u).screen # <<>> /\ Before(WithPiece(u).screen) = Before(u.screen)
         /\ Newest(WithPiece(u).screen).what = Newest(u.screen).what
         /\ Newest(WithPiece(u).screen).mark = Newest(u.screen).mark
         /\ Newest(WithPiece(u).screen).parts = Newest(u.screen).parts + 1
         /\ (\A i \in DOMAIN u.screen : u.screen[i].of = u.build) =>
               \A i \in DOMAIN WithPiece(u).screen : WithPiece(u).screen[i].of = u.build
<1> DEFINE n == Len(u.screen)
           entry == [u.screen[n] EXCEPT !.parts = @ + 1]
           screen == [u.screen EXCEPT ![n] = entry]
<1>1. u.screen \in Seq(Entry) /\ n \in Nat \ {0} /\ DOMAIN u.screen = 1 .. n
  BY PanelFields, EmptySeq, LenProperties
<1>2. u.screen[n] \in Entry /\ n \in DOMAIN u.screen /\ Newest(u.screen) = u.screen[n]
  BY <1>1, ElementOfSeq DEF Newest
<1>3. entry \in Entry /\ entry.of = u.screen[n].of
  <2>1. u.screen[n].parts + 1 \in 0 .. MaxPieces
    BY <1>2
  <2> QED BY <1>2, <2>1 DEF Entry
<1>4. /\ entry.what = u.screen[n].what /\ entry.mark = u.screen[n].mark
      /\ entry.parts = u.screen[n].parts + 1
  BY <1>2 DEF Entry
<1> HIDE DEF entry
<1>5. /\ screen \in Seq(Entry) /\ screen # <<>> /\ Len(screen) = n
      /\ \A j \in 1 .. n : screen[j] = IF j = n THEN entry ELSE u.screen[j]
      /\ Newest(screen) = entry /\ Before(screen) = Before(u.screen)
  BY <1>1, <1>3, Changed
<1>6. WithPiece(u) = [u EXCEPT !.screen = screen]
  BY <1>2 DEF WithPiece, Panel, entry
<1> HIDE DEF screen
<1>7. /\ WithPiece(u) \in Panel /\ WithPiece(u).build = u.build /\ WithPiece(u).loaded = u.loaded
      /\ WithPiece(u).status = u.status /\ WithPiece(u).controller = u.controller
      /\ WithPiece(u).error = u.error /\ WithPiece(u).screen = screen
  BY <1>5, <1>6 DEF Panel
<1>8. ASSUME \A i \in DOMAIN u.screen : u.screen[i].of = u.build, NEW i \in DOMAIN screen
      PROVE  screen[i].of = u.build
  <2>1. i \in 1 .. n
    BY <1>5, LenProperties
  <2> QED BY <1>1, <1>2, <1>3, <1>5, <1>8, <2>1
<1>9. /\ Newest(screen).what = Newest(u.screen).what /\ Newest(screen).mark = Newest(u.screen).mark
      /\ Newest(screen).parts = Newest(u.screen).parts + 1
  BY <1>2, <1>4, <1>5
<1> QED BY <1>5, <1>7, <1>8, <1>9

\* The task once it has taken the next event of its stream.
Taken(t) == [t EXCEPT !.wire = Tail(@), !.accepted = TRUE]

LEMMA TakenIs ==
  ASSUME NEW t, t \in Task, t.wire # <<>>
  PROVE  /\ Taken(t) \in Task /\ Taken(t).kind = t.kind /\ Taken(t).stage = t.stage
         /\ Taken(t).current = t.current /\ Taken(t).build = t.build /\ Taken(t).what = t.what
         /\ Taken(t).aborted = t.aborted /\ Taken(t).wire = Tail(t.wire)
<1>1. Tail(t.wire) \in Seq(Events)
  <2>1. t.wire \in Seq(Events)
    BY TaskFields
  <2> QED BY <2>1, HeadTailProperties
<1> DEFINE rest == Tail(t.wire)
<1>2. Taken(t) = [t EXCEPT !.wire = rest, !.accepted = TRUE]
  BY DEF Taken, Task
<1>3. rest \in Seq(Events)
  BY <1>1
<1> HIDE DEF rest
<1>4. /\ Taken(t) \in Task /\ Taken(t).kind = t.kind /\ Taken(t).stage = t.stage
      /\ Taken(t).current = t.current /\ Taken(t).build = t.build /\ Taken(t).what = t.what
      /\ Taken(t).aborted = t.aborted /\ Taken(t).wire = rest
  BY <1>2, <1>3 DEF Task, Events
<1> QED BY <1>4 DEF rest

LEMMA EventControl ==
  ASSUME Control, acts' = acts, NEW k \in Slots, Event(k)
  PROVE  Control'
<1> DEFINE wire == tasks[k].wire
<1>1. /\ tasks[k].kind = "send" /\ tasks[k].stage = "stream" /\ wire # <<>>
      /\ tasks[k] \in Task /\ Attached(k) /\ Heard(k) /\ Sound(k) /\ OnTop(k)
      /\ wire \in Seq(Events)
  <2>1. tasks[k].kind = "send" /\ tasks[k].stage = "stream" /\ wire # <<>>
    BY DEF Event, Is
  <2> QED BY <2>1, Typed, TaskFields DEF Control
<1>2. UNCHANGED <<thread, strays, failures, acts, stranded>>
  BY DEF Event
<1>3. CASE ~tasks[k].current
  <2>1. /\ SendOver(k, ui, "stopped")
        /\ turn' = IF turn.client = k THEN [turn EXCEPT !.client = OtherTab] ELSE turn
    BY <1>3 DEF Event
  <2>2. OtherTab \in 0 .. OtherTab /\ OtherTab \notin Slots
    BY SlotsAre DEF OtherTab
  <2>3. /\ turn' \in Turn /\ turn'.client # k
        /\ turn' = turn \/ (turn.client = k /\ turn'.client \notin Slots)
        /\ turn'.build = turn.build /\ turn'.what = turn.what /\ turn'.stored = turn.stored
        /\ turn'.said = turn.said
    <3>1. CASE turn.client = k
      BY <2>1, <2>2, <3>1, TurnFields DEF Turn
    <3>2. CASE turn.client # k
      BY <2>1, <3>2, TurnFields
    <3> QED BY <3>1, <3>2
  <2>4. TurnFits'
    <3>1. TurnFits
      BY DEF Control
    <3>2. turn = NoTurn => turn.client # k
      BY NoTurnIs
    <3>3. turn = NoTurn => turn' = NoTurn
      BY <2>1, <3>2
    <3> QED BY <1>2, <2>3, <3>1, <3>3 DEF TurnFits
  <2> HIDE DEF wire
  <2>5. tasks[k].kind = "send" /\ SendOver(k, ui, "stopped")
    BY <1>1, <2>1
  <2> QED BY <1>2, <1>3, <2>3, <2>4, <2>5, SendIsGone
<1>4. CASE tasks[k].current
  <2>1. Sends(k) /\ Busy(k) /\ turn' = turn
    BY <1>1, <1>4 DEF Sends, Busy, Event
  <2>2. ui.screen # <<>> /\ LikeIt(ui) /\ ui \in Panel /\ InOrder(wire)
        /\ \A i \in DOMAIN ui.screen : ui.screen[i].of = ui.build
    BY <1>1, <2>1, NewestStays DEF OnTop, LikeIt
  <2> DEFINE event == Head(wire)
             t == Taken(tasks[k])
             rest == Tail(wire)
  <2>3. /\ t \in Task /\ t.kind = "send" /\ t.stage = "stream" /\ t.current /\ t.build = tasks[k].build
        /\ t.what = tasks[k].what /\ t.aborted = tasks[k].aborted /\ t.wire = rest
    BY <1>1, <1>4, TakenIs
  <2>4. /\ event \in Events /\ rest \in Seq(Events)
        /\ event \in {"start", "piece"} => InOrder(rest) /\ Closed(rest) = Closed(wire)
        /\ event = "start" => Pieces(rest) = Pieces(wire)
        /\ event = "piece" => Pieces(rest) = Pieces(wire) - 1
        /\ event \in Ending => Closed(wire) = 1
    BY <1>1, <2>2, WireIsRead
  <2>5. /\ event = "start" => tasks' = [tasks EXCEPT ![k] = t] /\ UNCHANGED <<ui, missed>>
        /\ event = "piece" => tasks' = [tasks EXCEPT ![k] = t] /\ ui' = WithPiece(ui) /\ missed' = missed
        /\ event = "error" => SendOver(k, Mark(ui, "error"), "error")
        /\ event \in {"done", "full"} => SendOver(k, [ui EXCEPT !.full = @ \/ event = "full"], "done")
    <3>1. [tasks EXCEPT ![k].wire = Tail(@), ![k].accepted = TRUE] = [tasks EXCEPT ![k] = t]
      <4>1. tasks \in [Slots -> Task]
        BY Typed
      <4> QED BY <4>1 DEF Taken
    <3> HIDE DEF t
    <3> QED BY <1>4, <3>1 DEF Event, WithPiece
  <2>6. CASE event \in Ending
    <3>1. turn.client # k
      <4>1. Closed(wire) = 1 /\ wire = tasks[k].wire
        BY <2>4, <2>6
      <4> HIDE DEF wire, event, rest, t
      <4>2. turn.client = k => Closed(wire) = 0
        BY <1>1, <2>1, <4>1 DEF OnTop
      <4> QED BY <4>1, <4>2
    <3>2. PICK u, ending : SendOver(k, u, ending) /\ LikeIt(u)
      <4>1. CASE event = "error"
        <5>1. LikeIt(Mark(ui, "error"))
          BY <2>2, MarkIs DEF LikeIt
        <5> QED BY <2>5, <4>1, <5>1
      <4>2. CASE event \in {"done", "full"}
        <5> DEFINE full == ui.full \/ event = "full"
                   v == [ui EXCEPT !.full = full]
        <5>1. full \in BOOLEAN
          OBVIOUS
        <5>2. v = [ui EXCEPT !.full = @ \/ event = "full"]
          BY <2>2 DEF Panel
        <5> HIDE DEF full
        <5>3. LikeIt(v)
          BY <2>2, <5>1, FullIs
        <5> QED BY <2>5, <4>2, <5>2, <5>3
      <4> QED BY <2>6, <4>1, <4>2 DEF Ending
    <3> QED BY <1>2, <2>1, <3>1, <3>2, SendGoesOn
  <2> HIDE DEF t, event, rest, wire
  <2>7. CASE event \in {"start", "piece"}
    <3>1. tasks' = [tasks EXCEPT ![k] = t] /\ missed' = missed
      BY <2>5, <2>7
    <3>2. Bounds /\ TurnFits' /\ thread' \in [Builds -> Seq(Stored)] /\ turn' \in Turn
      BY <1>2, <2>1, <3>1, SameBounds, SameTurn, TurnFields
    <3>3. tasks' \in [Slots -> Task] /\ tasks'[k] = t /\ \A j \in Slots \ {k} : tasks'[j] = tasks[j]
      BY <2>3, <3>1, Typed
    <3>4. Pieces(rest) \in Nat /\ Pieces(wire) \in Nat
      BY <1>1, <2>4, PiecesAre
    <3>5. Newest(ui.screen) \in Entry /\ Newest(ui.screen).parts \in 0 .. MaxPieces
      <4>1. ui.screen \in Seq(Entry)
        BY <2>2, PanelFields
      <4>2. Newest(ui.screen) \in Entry
        BY <2>2, <4>1, BeforeIs
      <4> QED BY <4>2 DEF Entry
    <3>6. /\ turn.client = k => /\ Closed(wire) = 0 /\ turn.stored
                                /\ Newest(ui.screen).parts + Pieces(wire) = turn.said
          /\ turn.client # k => /\ Newest(ui.screen).parts + Pieces(wire) <= MaxPieces
                                /\ ~tasks[k].aborted => Closed(wire) = 1
          /\ Newest(ui.screen).what = tasks[k].what /\ Newest(ui.screen).mark = ""
      <4>1. wire = tasks[k].wire
        BY DEF wire
      <4>2. turn.stored \in BOOLEAN
        BY TurnFields
      <4> QED BY <1>1, <2>1, <4>1, <4>2 DEF OnTop
    <3>7. turn.said \in 0 .. MaxPieces
      BY TurnFields
    <3>8. Heard(k)'
      BY <1>1, <2>1, <2>3, <3>3 DEF Heard, Is
    <3>9. CASE event = "start"
      <4>1. ui' = ui /\ Pieces(rest) = Pieces(wire) /\ Closed(rest) = Closed(wire) /\ InOrder(rest)
        BY <2>4, <2>5, <3>9
      <4>2. Attached(k)'
        <5>1. ui.controller = k /\ ui'.controller = ui.controller
          BY <1>1, <1>4, <4>1 DEF Attached
        <5>2. tasks'[k].stage = "stream"
          BY <2>3, <3>3
        <5> QED BY <5>1, <5>2 DEF Attached, Early
      <4>3. OnTop(k)'
        BY <1>2, <2>1, <2>2, <2>3, <3>3, <3>6, <4>1 DEF OnTop, Early
      <4> QED BY <1>1, <1>2, <2>1, <2>3, <1>4, <3>1, <3>2, <3>8, <4>1, <4>2, <4>3, SendMoves
    <3>10. CASE event = "piece"
      <4>1. ui' = WithPiece(ui) /\ Pieces(rest) = Pieces(wire) - 1 /\ Closed(rest) = Closed(wire) /\ InOrder(rest)
        BY <2>4, <2>5, <3>10
      <4>2. Newest(ui.screen).parts + 1 \in 0 .. MaxPieces
        <5>1. Newest(ui.screen).parts + Pieces(wire) <= MaxPieces
          <6> DEFINE said == Newest(ui.screen).parts + Pieces(wire)
          <6>1. CASE turn.client = k
            <7>1. said = turn.said
              BY <3>6, <6>1
            <7> HIDE DEF said
            <7>2. said <= MaxPieces
              BY <3>7, <7>1
            <7> QED BY <7>2 DEF said
          <6>2. CASE turn.client # k
            BY <3>6, <6>2
          <6> QED BY <6>1, <6>2
        <5> QED BY <3>4, <3>5, <4>1, <5>1
      <4>3. /\ ui' \in Panel /\ ui'.build = ui.build /\ ui'.status = ui.status /\ ui'.controller = ui.controller
            /\ ui'.screen # <<>> /\ Newest(ui'.screen).what = Newest(ui.screen).what
            /\ Newest(ui'.screen).mark = Newest(ui.screen).mark
            /\ Newest(ui'.screen).parts = Newest(ui.screen).parts + 1
            /\ \A i \in DOMAIN ui'.screen : ui'.screen[i].of = ui.build
        BY <2>2, <4>1, <4>2, PieceIs
      <4>4. LikeIt(ui')
        BY <4>3 DEF LikeIt
      <4>5. ~stranded /\ ui.build \in Builds /\ tasks[k].build = ui.build /\ ui.status # "idle"
            /\ tasks[k].kind \in Kinds[ui.status]
        BY <2>1, OneIsBusy
      <4>6. Whole
        BY <1>2, <2>1, <3>2, <3>3, <4>4, <4>5, WholeIs
      <4>7. \A j \in Slots \ {k} : Bystands(j) /\ ~Busy(j)'
        BY <1>2, <2>1, <3>3, <4>3, Bystanders
      <4>8. Busy(k)' /\ tasks'[k].kind \in Kinds[ui'.status] /\ ui'.status # "idle"
        BY <1>1, <2>3, <3>3, <4>3, <4>5 DEF Busy
      <4>9. ~stranded'
        BY <1>2, <4>5
      <4>10. Sound(k)'
        BY <1>1, <2>3, <3>3, <4>3, <4>5, <4>9 DEF Sound
      <4>11. Attached(k)'
        BY <1>1, <1>4, <2>3, <3>3, <4>3 DEF Attached, Early
      <4>12. OnTop(k)'
        <5>1. Newest(ui'.screen).parts + Pieces(rest) = Newest(ui.screen).parts + Pieces(wire)
          BY <3>4, <3>5, <4>1, <4>3
        <5>2. tasks'[k].wire = rest /\ tasks'[k].stage = "stream" /\ tasks'[k].what = tasks[k].what
              /\ tasks'[k].aborted = tasks[k].aborted
          BY <2>3, <3>3
        <5>3. turn'.stored = turn.stored /\ turn'.said = turn.said /\ turn'.client = turn.client
          BY <2>1
        <5> QED BY <3>6, <4>1, <4>3, <5>1, <5>2, <5>3 DEF OnTop, Early
      <4> QED BY <3>8, <4>6, <4>7, <4>8, <4>10, <4>11, <4>12, OneGoesOn
    <3> QED BY <2>7, <3>9, <3>10
  <2>8. event \in {"start", "piece"} \cup Ending
    BY <2>4 DEF Events, Ending
  <2> QED BY <2>6, <2>7, <2>8
<1> QED BY <1>3, <1>4

(***************************************************************************)
(* The user.                                                                *)
(***************************************************************************)

\* The server learns that nobody listens any more.
LEMMA UnheardIs ==
  ASSUME Control, NEW c, turn' = Unheard(c), thread' = thread
  PROVE  /\ turn' \in Turn /\ TurnFits' /\ thread' \in [Builds -> Seq(Stored)]
         /\ turn'.build = turn.build /\ turn'.what = turn.what /\ turn'.stored = turn.stored
         /\ turn'.said = turn.said
         /\ turn'.client \in {0, turn.client}
         /\ Sending(c) => turn'.client # c
<1>1. 0 \in 0 .. OtherTab /\ 0 \notin Slots
  BY SlotsAre DEF OtherTab
<1>2. /\ turn' \in Turn /\ turn'.build = turn.build /\ turn'.what = turn.what
      /\ turn'.stored = turn.stored /\ turn'.said = turn.said /\ turn'.client \in {0, turn.client}
      /\ Sending(c) => turn'.client # c
  <2>1. CASE Sending(c) /\ turn.client = c
    BY <1>1, <2>1, TurnFields DEF Unheard, Turn, Sending
  <2>2. CASE ~(Sending(c) /\ turn.client = c)
    BY <2>2, TurnFields DEF Unheard
  <2> QED BY <2>1, <2>2
<1>3. turn = NoTurn => turn' = NoTurn
  <2>1. turn = NoTurn => ~(Sending(c) /\ turn.client = c)
    BY NoTurnIs DEF Sending
  <2> QED BY <2>1 DEF Unheard
<1>4. TurnFits'
  <2>1. TurnFits
    BY DEF Control
  <2> QED BY <1>2, <1>3, <2>1 DEF TurnFits
<1> QED BY <1>2, <1>4, Typed DEF Control, AssistantStoreTypeOK

LEMMA GivenUpIs ==
  ASSUME Control, NEW c
  PROVE  strays \cup GivenUp(c) \subseteq [build : Builds, what : Messages]
<1>1. strays \subseteq [build : Builds, what : Messages]
  BY DEF Control, AssistantStoreTypeOK
<1>2. CASE Sending(c) /\ tasks[c].stage = "ask"
  <2>1. tasks[c].build \in Builds /\ tasks[c].what \in Messages
    BY <1>2 DEF Control, Sound, Sending
  <2>2. [build |-> tasks[c].build, what |-> tasks[c].what] \in [build : Builds, what : Messages]
    BY <2>1
  <2> QED BY <1>1, <1>2, <2>2 DEF GivenUp
<1>3. CASE ~(Sending(c) /\ tasks[c].stage = "ask")
  BY <1>1, <1>3 DEF GivenUp
<1> QED BY <1>2, <1>3

\* A task next to the one that is given up.
LEMMA GivesUpBystands ==
  ASSUME Control, NEW j \in Slots, turn' = Unheard(ui.controller), thread' = thread,
         tasks'[j].kind = tasks[j].kind, tasks'[j].build = tasks[j].build,
         tasks'[j].what = tasks[j].what, tasks'[j].wire = tasks[j].wire,
         tasks'[j].stage = Aborted(tasks, ui.controller)[j].stage,
         tasks'[j].aborted = Aborted(tasks, ui.controller)[j].aborted,
         tasks'[j].current => tasks[j].current /\ tasks[j].kind # "send"
                              /\ ui'.build = ui.build /\ ~stranded'
  PROVE  Bystands(j)
<1> DEFINE c == ui.controller
<1>0. tasks \in [Slots -> Task]
  BY Typed
<1>1. /\ ~(Sending(c) /\ c = j) => Aborted(tasks, c)[j] = tasks[j]
      /\ Sending(c) /\ c = j =>
           Aborted(tasks, c)[j].stage = IF tasks[j].stage = "prepare" THEN "prepare" ELSE "stream"
  BY <1>0, AbortedIs
<1>2. Attached(j) /\ Heard(j)
  BY DEF Control
<1>3. tasks'[j].stage = tasks[j].stage \/ (tasks[j].kind = "send" /\ tasks'[j].stage = "stream")
  BY <1>1 DEF Sending
<1>4. tasks[j].kind = "send" => ~tasks'[j].current /\ tasks'[j].stage # "ask"
  <2>1. CASE tasks[j].kind = "send" /\ tasks[j].stage = "ask"
    <3>1. Sending(c) /\ c = j
      BY <1>2, <2>1 DEF Attached, Sending
    <3> QED BY <1>1, <2>1, <3>1
  <2>2. CASE tasks[j].kind = "send" /\ tasks[j].stage # "ask"
    BY <1>3, <2>2
  <2> QED BY <2>1, <2>2
<1>5. turn'.client = j => /\ turn.client = j /\ turn'.build = turn.build /\ turn'.what = turn.what
                          /\ ~tasks'[j].aborted
  <2>1. ASSUME turn'.client = j PROVE turn.client = j /\ ~tasks'[j].aborted
    <3>1. turn'.client \in {0, turn.client} /\ (Sending(c) => turn'.client # c)
      BY UnheardIs
    <3>2. turn.client = j
      BY <2>1, <3>1, SlotsAre
    <3>3. ~tasks[j].aborted /\ ~(Sending(c) /\ c = j)
      BY <1>2, <2>1, <3>1, <3>2 DEF Heard
    <3> QED BY <1>1, <3>2, <3>3
  <2> QED BY <2>1, UnheardIs
<1> QED BY <1>3, <1>4, <1>5 DEF Bystands

\* The panel of another conversation, or of the same from the beginning.
LEMMA LoadControl ==
  ASSUME Control, acts' \in 0 .. MaxActs, NEW b \in Builds, Load(b)
  PROVE  Control'
<1>1. PICK k \in Slots : k = FreeSlot /\ tasks[k].kind = "none" /\ ~tasks[k].current
  BY FreeSlotIs DEF Load
<1> DEFINE c == ui.controller
           u == [build |-> b, loaded |-> FALSE, screen |-> <<>>, status |-> "loading",
                 full |-> FALSE, error |-> FALSE, draft |-> IF ui.build = b THEN ui.draft ELSE None,
                 queued |-> None, controller |-> 0]
           t == [NoTask EXCEPT !.kind = "load", !.stage = "ask", !.build = b, !.current = TRUE]
           all == Aborted(tasks, c)
<1>2. /\ ui' = u /\ turn' = Unheard(c) /\ thread' = thread /\ strays' = strays \cup GivenUp(c)
      /\ failures' = failures /\ missed' = {} /\ stranded' = FALSE
      /\ tasks' = [Stale(all) EXCEPT ![k] = t]
  BY <1>1 DEF Load
<1>3. /\ u \in Panel /\ u.build = b /\ u.screen = <<>> /\ u.status = "loading"
      /\ ~u.loaded /\ ~u.error
  <2>1. ui.draft \in Messages \cup {None} /\ 0 \in 0 .. Ended /\ <<>> \in Seq(Entry)
    BY Typed, PanelFields, EmptySeq DEF Ended, Control, AssistantStoreTypeOK
  <2>2. (IF ui.build = b THEN ui.draft ELSE None) \in Messages \cup {None}
    BY <2>1
  <2> QED BY <2>1, <2>2 DEF Panel
<1>4. t \in Task /\ t.kind = "load" /\ t.stage = "ask" /\ t.build = b /\ t.current
  BY NoTaskType DEF Task, NoTask
<1> HIDE DEF u, t, all
<1>5. tasks \in [Slots -> Task]
  BY Typed
<1>6. ASSUME NEW j \in Slots
      PROVE  /\ all \in [Slots -> Task] /\ all[j].kind = tasks[j].kind /\ all[j].build = tasks[j].build
             /\ all[j].what = tasks[j].what /\ all[j].wire = tasks[j].wire
  BY <1>5, AbortedIs DEF all
<1>7. all \in [Slots -> Task]
  BY <1>6
<1>8. /\ tasks' \in [Slots -> Task] /\ tasks'[k] = t
      /\ \A j \in Slots \ {k} : tasks'[j] = Stale(all)[j]
  BY <1>2, <1>4, <1>7, StaleIs
<1>9. ASSUME NEW j \in Slots \ {k} PROVE Bystands(j) /\ ~Busy(j)'
  <2>1. /\ ~tasks'[j].current /\ tasks'[j].kind = tasks[j].kind /\ tasks'[j].build = tasks[j].build
        /\ tasks'[j].what = tasks[j].what /\ tasks'[j].wire = tasks[j].wire
        /\ tasks'[j].stage = all[j].stage /\ tasks'[j].aborted = all[j].aborted
    BY <1>6, <1>7, <1>8, StaleIs
  <2>2. Bystands(j)
    BY <1>2, <2>1, GivesUpBystands DEF all
  <2> QED BY <2>1, <2>2 DEF Busy
<1>10. Whole
  <2>1. turn' \in Turn /\ TurnFits' /\ thread' \in [Builds -> Seq(Stored)]
    BY <1>2, UnheardIs
  <2>2. strays' \subseteq [build : Builds, what : Messages]
    BY <1>2, GivenUpIs
  <2>3. AssistantStoreTypeOK'
    <3>1. missed' \subseteq Reasons /\ stranded' \in BOOLEAN
      BY <1>2
    <3>2. failures' \in 0 .. MaxFailures
      BY <1>2 DEF Control, AssistantStoreTypeOK
    <3>3. ui' \in Panel
      BY <1>2, <1>3
    <3> QED BY <1>8, <2>1, <2>2, <3>1, <3>2, <3>3 DEF AssistantStoreTypeOK
  <2>4. PanelFits'
    <3>1. ~ui'.loaded /\ ~ui'.error
      BY <1>2, <1>3
    <3>2. ~stranded'
      BY <1>2
    <3> QED BY <3>1, <3>2 DEF PanelFits
  <2>5. ScreenIsItsBuilds'
    <3>1. ui'.screen = <<>>
      BY <1>2, <1>3
    <3>2. DOMAIN ui'.screen = {}
      BY <3>1
    <3> QED BY <3>2 DEF ScreenIsItsBuilds
  <2> QED BY <2>1, <2>3, <2>4, <2>5 DEF Whole
<1>11. ui'.status = "loading" /\ ui'.build = b
  BY <1>2, <1>3
<1>12. Busy(k)' /\ tasks'[k].kind \in Kinds[ui'.status] /\ ui'.status # "idle"
  <2>1. Kinds["loading"] = {"load"}
    BY DEF Kinds
  <2> QED BY <1>4, <1>8, <1>11, <2>1 DEF Busy
<1>13. Sound(k)'
  <2>1. ~stranded'
    BY <1>2
  <2> QED BY <1>4, <1>8, <1>11, <2>1 DEF Sound
<1>14. Attached(k)' /\ Heard(k)' /\ OnTop(k)'
  <2>1. Put(k)
    BY <1>4, <1>8 DEF Put
  <2>2. turn'.client # k
    <3>1. Heard(k)
      BY DEF Control
    <3>2. turn.client # k /\ k # 0
      BY <1>1, <3>1, SlotsAre DEF Heard, Is
    <3>3. turn'.client \in {0, turn.client}
      BY <1>2, UnheardIs
    <3> QED BY <3>2, <3>3
  <2> QED BY <2>1, <2>2, PutAside
<1> QED BY <1>9, <1>10, <1>12, <1>13, <1>14, OneGoesOn

\* A message is sent at once.
LEMMA SendControl ==
  ASSUME Control, acts' \in 0 .. MaxActs, NEW m \in Messages, Send(m), ui.status = "idle"
  PROVE  Control'
<1>1. PICK k \in Slots : k = FreeSlot /\ tasks[k].kind = "none" /\ ~tasks[k].current
  BY FreeSlotIs DEF Send
<1> DEFINE u == [ui EXCEPT !.draft = None]
<1>2. ui \in Panel /\ LikeIt(ui) /\ ui.build \in Builds
  <2>1. ui \in Panel
    BY DEF Control, AssistantStoreTypeOK
  <2>2. ui.build # None
    BY DEF Send, Open
  <2> QED BY <2>1, <2>2, AsItWas, PanelFields
<1>3. u \in Panel /\ u.build = ui.build /\ u.screen = ui.screen
  BY <1>2 DEF Panel
<1>4. /\ ui' = Streaming(u, k, m) /\ tasks' = [Stale(tasks) EXCEPT ![k] = SendTask(u.build, m, TRUE)]
      /\ UNCHANGED <<thread, turn, strays, failures, missed, stranded>>
  BY <1>1, <1>3 DEF Send, server
<1> HIDE DEF u
<1>5. LikeIt(u)
  BY <1>2, <1>3, Retouched
<1>6. Bounds
  BY <1>4 DEF Bounds, Control, AssistantStoreTypeOK
<1>7. turn.client # k
  BY <1>1 DEF Control, Heard, Is
<1>8. TRUE \in BOOLEAN
  OBVIOUS
<1> QED BY <1>2, <1>4, <1>5, <1>6, <1>7, <1>8, Starts

\* A message that was given up: its turn says no more than what is on its way.
LEMMA LaidDown ==
  ASSUME Control, NEW k \in Slots, Sends(k), NEW all, all = tasks',
         ui'.screen = ui.screen, all[k].kind = "send", all[k].what = tasks[k].what,
         all[k].wire = tasks[k].wire, all[k].aborted,
         all[k].stage = IF tasks[k].stage = "prepare" THEN "prepare" ELSE "stream",
         turn'.client # k
  PROVE  OnTop(k)'
<1> DEFINE wire == tasks[k].wire
           parts == Newest(ui.screen).parts
<1>1. Attached(k) /\ OnTop(k)
  BY DEF Control
<1>2. /\ ui.screen # <<>> /\ Newest(ui.screen).what = tasks[k].what /\ Newest(ui.screen).mark = ""
      /\ tasks[k].stage \in Early => parts = 0 /\ wire = <<>>
      /\ tasks[k].stage = "failed" => InOrder(wire) /\ parts + Pieces(wire) <= MaxPieces
      /\ tasks[k].stage = "stream" =>
           /\ InOrder(wire)
           /\ turn.client = k => parts + Pieces(wire) = turn.said
           /\ turn.client # k => parts + Pieces(wire) <= MaxPieces
      /\ tasks[k].stage \in Early \cup {"stream", "failed"}
  BY <1>1 DEF OnTop, Attached, Sends
<1> HIDE DEF wire, parts
<1>3. InOrder(wire) /\ parts + Pieces(wire) <= MaxPieces
  <2>1. CASE tasks[k].stage \in Early
    <3>1. parts = 0 /\ wire = <<>>
      BY <1>2, <2>1
    <3>2. Pieces(wire) = 0 /\ InOrder(wire)
      BY <3>1, QuietWire, Zenon
    <3>3. 0 + 0 <= MaxPieces
      OBVIOUS
    <3>4. parts + Pieces(wire) <= MaxPieces
      BY <3>1, <3>2, <3>3, Zenon
    <3> QED BY <3>2, <3>4
  <2>2. CASE tasks[k].stage = "failed"
    BY <1>2, <2>2
  <2>3. CASE tasks[k].stage = "stream" /\ turn.client = k
    <3>1. turn.said <= MaxPieces
      BY TurnFields
    <3> QED BY <1>2, <2>3, <3>1
  <2>4. CASE tasks[k].stage = "stream" /\ turn.client # k
    BY <1>2, <2>4
  <2> QED BY <1>2, <2>1, <2>2, <2>3, <2>4
<1>4. /\ ui'.screen # <<>> /\ Newest(ui'.screen).what = tasks'[k].what /\ Newest(ui'.screen).mark = ""
      /\ Newest(ui'.screen).parts = parts /\ tasks'[k].wire = wire
      /\ tasks'[k].aborted /\ tasks'[k].stage \in {"prepare", "stream"}
      /\ tasks'[k].stage = "prepare" => tasks[k].stage = "prepare"
  BY <1>2 DEF wire, parts
<1>5. tasks'[k].stage = "prepare" => parts = 0
  BY <1>2, <1>4 DEF Early
<1> QED BY <1>3, <1>4, <1>5 DEF OnTop, Early

LEMMA StopControl ==
  ASSUME Control, acts' \in 0 .. MaxActs, Stop
  PROVE  Control'
<1> DEFINE c == ui.controller
           all == Aborted(tasks, c)
<1>1. /\ ui' = [ui EXCEPT !.status = "stopping"] /\ turn' = Unheard(c) /\ thread' = thread
      /\ strays' = strays \cup GivenUp(c) /\ ui.status = "streaming"
      /\ failures' = failures /\ missed' = missed /\ stranded' = stranded /\ tasks' = all
  BY DEF Stop
<1>2. /\ ui' \in Panel /\ ui'.build = ui.build /\ ui'.screen = ui.screen /\ ui'.status = "stopping"
      /\ ui'.controller = ui.controller /\ ui'.loaded = ui.loaded /\ ui'.error = ui.error
  <2>1. ui \in Panel
    BY DEF Control, AssistantStoreTypeOK
  <2> QED BY <1>1, <2>1 DEF Panel
<1> HIDE DEF all
<1>3. ASSUME NEW j \in Slots
      PROVE  /\ all \in [Slots -> Task]
             /\ all[j].kind = tasks[j].kind /\ all[j].current = tasks[j].current
             /\ all[j].build = tasks[j].build /\ all[j].what = tasks[j].what /\ all[j].wire = tasks[j].wire
             /\ Sending(c) /\ c = j =>
                  /\ all[j].aborted
                  /\ all[j].stage = IF tasks[j].stage = "prepare" THEN "prepare" ELSE "stream"
  <2>1. tasks \in [Slots -> Task]
    BY Typed
  <2> QED BY <2>1, AbortedIs DEF all
<1>4. tasks' \in [Slots -> Task]
  <2>1. 1 \in Slots
    <3>1. MaxTasks \in Nat \ {0}
      OBVIOUS
    <3> QED BY <3>1 DEF Slots
  <2> QED BY <1>1, <1>3, <2>1
<1>5. ASSUME NEW j \in Slots, tasks[j].current => tasks[j].kind # "send" /\ ~stranded
      PROVE  Bystands(j)
  BY <1>1, <1>2, <1>3, <1>5, GivesUpBystands DEF all
<1>6. Whole
  <2>1. turn' \in Turn /\ TurnFits' /\ thread' \in [Builds -> Seq(Stored)]
    BY <1>1, UnheardIs
  <2>2. strays' \subseteq [build : Builds, what : Messages]
    BY <1>1, GivenUpIs
  <2>3. AssistantStoreTypeOK'
    <3>1. missed' \subseteq Reasons /\ stranded' \in BOOLEAN /\ failures' \in 0 .. MaxFailures
      BY <1>1 DEF Control, AssistantStoreTypeOK
    <3> QED BY <1>2, <1>4, <2>1, <2>2, <3>1 DEF AssistantStoreTypeOK
  <2>4. PanelFits'
    <3>1. ui.loaded \/ ui.error => ui.build \in Builds
      BY DEF Control, PanelFits
    <3>2. ui'.status # "idle"
      BY <1>2
    <3> QED BY <1>2, <3>1, <3>2 DEF PanelFits
  <2>5. ScreenIsItsBuilds'
    BY <1>2 DEF Control, ScreenIsItsBuilds
  <2> QED BY <2>1, <2>3, <2>4, <2>5 DEF Whole
<1>7. CASE stranded
  <2>1. ASSUME NEW j \in Slots PROVE Bystands(j)
    <3>1. ~tasks[j].current
      BY <1>7 DEF Control, Sound
    <3> QED BY <1>5, <3>1
  <2>2. \A j \in Slots : Sound(j)' /\ Attached(j)' /\ Heard(j)' /\ OnTop(j)'
    BY <2>1, Bystander
  <2>3. BusyIsOneTask'
    BY <1>1, <1>7 DEF BusyIsOneTask
  <2> QED BY <1>6, <2>2, <2>3 DEF Control, Whole
<1>8. CASE ~stranded
  <2>1. PICK k \in Slots : Busy(k) /\ tasks[k].kind = "send"
    <3>1. PICK k \in Slots :
             /\ {i \in Slots : tasks[i].current /\ tasks[i].kind \in {"load", "send", "follow"}} = {k}
             /\ tasks[k].kind \in Kinds[ui.status]
      BY <1>1, <1>8 DEF Control, BusyIsOneTask
    <3>2. Busy(k)
      BY <3>1 DEF Busy
    <3>3. tasks[k].kind = "send"
      BY <1>1, <3>1 DEF Kinds
    <3> QED BY <3>2, <3>3
  <2>2. Sends(k) /\ tasks[k].current /\ tasks[k].build = ui.build /\ ui.build \in Builds
        /\ \A j \in Slots \ {k} : ~Busy(j)
    BY <2>1, OneIsBusy DEF Busy, Sends
  <2>3. c = k /\ Sending(c) /\ tasks[k].what \in Messages
    BY <2>1, <2>2 DEF Control, Attached, Sound, Sending
  <2>4. ASSUME NEW j \in Slots \ {k} PROVE Bystands(j) /\ ~Busy(j)'
    <3>1. ~Busy(j)
      BY <2>2
    <3>2. tasks[j].current => tasks[j].kind # "send" /\ ~stranded
      BY <1>8, <3>1 DEF Busy
    <3>3. ~Busy(j)'
      BY <1>1, <1>3, <3>1 DEF Busy
    <3> QED BY <1>5, <3>2, <3>3
  <2>5. /\ tasks'[k].kind = "send" /\ tasks'[k].current /\ tasks'[k].build = tasks[k].build
        /\ tasks'[k].what = tasks[k].what /\ tasks'[k].wire = tasks[k].wire /\ tasks'[k].aborted
        /\ tasks'[k].stage = IF tasks[k].stage = "prepare" THEN "prepare" ELSE "stream"
    BY <1>1, <1>3, <2>1, <2>2, <2>3
  <2>6. Busy(k)' /\ tasks'[k].kind \in Kinds[ui'.status] /\ ui'.status # "idle"
    <3>1. Kinds["stopping"] = {"send", "follow"}
      BY DEF Kinds
    <3> QED BY <1>2, <2>5, <3>1 DEF Busy
  <2>7. turn'.client # k
    BY <1>1, <2>3, UnheardIs
  <2>8. Sound(k)'
    <3>1. ~stranded'
      BY <1>1, <1>8
    <3> QED BY <1>2, <2>2, <2>3, <2>5, <3>1 DEF Sound
  <2>9. Heard(k)'
    BY <2>7 DEF Heard
  <2>10. OnTop(k)'
    BY <1>2, <2>2, <2>5, <2>7, LaidDown
  <2>11. Attached(k)'
    <3>1. tasks'[k].stage \in {"prepare", "stream"} /\ ui'.controller = k
      BY <1>2, <2>3, <2>5
    <3>2. tasks'[k].stage = "prepare" => tasks'[k].wire = <<>>
      <4>1. Attached(k)
        BY DEF Control
      <4> QED BY <2>1, <2>5, <4>1 DEF Attached, Early
    <3> QED BY <3>1, <3>2 DEF Attached, Early
  <2> QED BY <1>6, <2>4, <2>6, <2>8, <2>9, <2>10, <2>11, OneGoesOn
<1> QED BY <1>7, <1>8

(***************************************************************************)
(* What is read replaces what is shown.                                     *)
(***************************************************************************)
LEMMA ShownIs ==
  ASSUME NEW b \in Builds, NEW rows \in Seq(Stored)
  PROVE  /\ Shown(b, rows) \in Seq(Entry) /\ Len(Shown(b, rows)) = Len(rows)
         /\ \A i \in 1 .. Len(rows) :
              /\ Counts(Shown(b, rows)[i]) /\ RowOf(Shown(b, rows)[i]) = rows[i]
              /\ Shown(b, rows)[i].of = b
<1> DEFINE n == Len(rows)
<1>1. n \in Nat /\ DOMAIN rows = 1 .. n
  BY LenProperties
<1>2. ASSUME NEW i \in 1 .. n
      PROVE  LET entry == [of |-> b, what |-> rows[i].what, parts |-> rows[i].parts, mark |-> ""]
             IN  entry \in Entry /\ Counts(entry) /\ RowOf(entry) = rows[i] /\ entry.of = b
  <2>1. rows[i] \in Stored
    BY <1>1, ElementOfSeq
  <2>2. rows[i].what \in Texts /\ rows[i].parts \in 0 .. MaxPieces /\ None \notin Texts
        /\ rows[i] = [what |-> rows[i].what, parts |-> rows[i].parts]
    BY <2>1 DEF Stored, Texts
  <2> QED BY <2>2 DEF Entry, Counts, RowOf
<1> DEFINE entries == Shown(b, rows)
<1>3. /\ DOMAIN entries = 1 .. n
      /\ \A i \in 1 .. n : entries[i] = [of |-> b, what |-> rows[i].what, parts |-> rows[i].parts, mark |-> ""]
  BY <1>1 DEF Shown
<1>4. entries = [i \in 1 .. n |-> entries[i]]
  BY <1>1 DEF Shown
<1>5. \A i \in 1 .. n : entries[i] \in Entry /\ Counts(entries[i]) /\ RowOf(entries[i]) = rows[i] /\ entries[i].of = b
  BY <1>2, <1>3
<1> HIDE DEF entries, n
<1>6. entries \in [1 .. n -> Entry]
  BY <1>4, <1>5
<1>7. entries \in Seq(Entry) /\ Len(entries) = n
  BY <1>1, <1>6, SeqDef, LenProperties
<1> QED BY <1>5, <1>7 DEF entries, n

LEMMA WithErrorsIs ==
  ASSUME NEW b \in Builds, NEW rows \in Seq(Stored),
         NEW entries \in Seq(Entry), Len(entries) = Len(rows),
         \A i \in 1 .. Len(rows) : Counts(entries[i]) /\ RowOf(entries[i]) = rows[i] /\ entries[i].of = b
  PROVE  /\ WithErrors(b, entries) \in Seq(Entry) /\ Told(WithErrors(b, entries)) = rows
         /\ \A i \in DOMAIN WithErrors(b, entries) : WithErrors(b, entries)[i].of = b
<1>1. Len(rows) \in Nat
  BY LenProperties
<1>2. CASE entries = <<>>
  <2> DEFINE entry == [of |-> b, what |-> None, parts |-> 0, mark |-> "error"]
  <2>1. 0 \in 0 .. MaxPieces
    OBVIOUS
  <2>2. entry \in Entry /\ entry.of = b /\ ~Counts(entry)
    BY <2>1 DEF Entry, Counts
  <2>3. WithErrors(b, entries) = <<entry>>
    BY <1>2 DEF WithErrors
  <2> HIDE DEF entry
  <2>4. <<entry>> = Append(<<>>, entry) /\ <<>> \in Seq(Entry)
    BY <2>2, EmptySeq
  <2> DEFINE screen == Append(<<>>, entry)
  <2>5. screen \in Seq(Entry) /\ screen # <<>> /\ Newest(screen) = entry /\ Before(screen) = <<>>
    BY <2>2, <2>4, Longer
  <2> HIDE DEF screen
  <2>6. Told(screen) = WithEntry(<<>>, entry)
    BY <2>5, ToldLast, ToldNothing
  <2>7. Told(screen) = <<>>
    BY <2>2, <2>6 DEF WithEntry
  <2>8. rows = <<>>
    BY <1>2, EmptySeq
  <2>9. \A i \in DOMAIN <<entry>> : <<entry>>[i].of = b
    BY <2>2
  <2> QED BY <2>3, <2>4, <2>5, <2>7, <2>8, <2>9 DEF screen
<1>3. CASE entries # <<>>
  <2> DEFINE n == Len(entries)
             entry == [entries[n] EXCEPT !.mark = "error"]
             screen == [entries EXCEPT ![n] = entry]
  <2>1. n \in Nat \ {0} /\ n \in 1 .. n /\ n = Len(rows) /\ entries[n] \in Entry
    BY <1>3, EmptySeq, LenProperties, ElementOfSeq
  <2>2. entry \in Entry /\ entry.of = b /\ Counts(entry) /\ RowOf(entry) = rows[n]
    <3>1. entry \in Entry /\ entry.of = entries[n].of /\ entry.what = entries[n].what
          /\ entry.parts = entries[n].parts /\ entry.mark = "error"
      BY <2>1 DEF Entry
    <3>2. Counts(entries[n]) /\ RowOf(entries[n]) = rows[n] /\ entries[n].of = b
      BY <2>1
    <3> HIDE DEF entry
    <3> QED BY <3>1, <3>2 DEF Counts, RowOf
  <2>3. WithErrors(b, entries) = screen
    BY <1>3 DEF WithErrors
  <2> HIDE DEF entry
  <2>4. /\ screen \in Seq(Entry) /\ Len(screen) = n
        /\ \A j \in 1 .. n : screen[j] = IF j = n THEN entry ELSE entries[j]
    BY <1>3, <2>2, Changed
  <2> HIDE DEF screen
  <2>5. \A i \in 1 .. Len(rows) : Counts(screen[i]) /\ RowOf(screen[i]) = rows[i] /\ screen[i].of = b
    BY <2>1, <2>2, <2>4
  <2>6. Told(screen) = rows
    BY <2>1, <2>4, <2>5, ToldRows
  <2>7. DOMAIN screen = 1 .. Len(rows)
    BY <2>1, <2>4, LenProperties
  <2> QED BY <2>3, <2>4, <2>5, <2>6, <2>7
<1> QED BY <1>2, <1>3

LEMMA ReplacedIs ==
  ASSUME Control, NEW k \in Slots, tasks[k].build = ui.build, ui.build \in Builds
  PROVE  /\ Replaced(k) \in Panel /\ LikeIt(Replaced(k)) /\ Replaced(k).build = ui.build
         /\ Replaced(k).status = ui.status /\ Replaced(k).loaded = ui.loaded
         /\ Replaced(k).queued = ui.queued
         /\ Told(Replaced(k).screen) = tasks[k].answer.rows
<1> DEFINE rows == tasks[k].answer.rows
           entries == Shown(tasks[k].build, rows)
           screen == IF tasks[k].ending = "error" THEN WithErrors(ui.build, entries) ELSE entries
           full == Len(rows) >= MaxMessages
<1>1. ui \in Panel /\ rows \in Seq(Stored)
  <2>1. tasks[k] \in Task
    BY Typed
  <2>2. tasks[k].answer \in Answer
    BY <2>1, TaskFields
  <2> QED BY <2>2, Typed DEF Answer, Control, AssistantStoreTypeOK
<1>2. Replaced(k) = [ui EXCEPT !.screen = screen, !.full = full]
  BY DEF Replaced
<1>3. full \in BOOLEAN
  OBVIOUS
<1>4. /\ entries \in Seq(Entry) /\ Len(entries) = Len(rows)
      /\ \A i \in 1 .. Len(rows) : Counts(entries[i]) /\ RowOf(entries[i]) = rows[i] /\ entries[i].of = ui.build
  <2> HIDE DEF rows
  <2> QED BY <1>1, ShownIs
<1> HIDE DEF entries, rows, full
<1>5. screen \in Seq(Entry) /\ Told(screen) = rows /\ \A i \in DOMAIN screen : screen[i].of = ui.build
  <2>1. CASE tasks[k].ending = "error"
    BY <1>1, <1>4, <2>1, WithErrorsIs
  <2>2. CASE tasks[k].ending # "error"
    <3>1. DOMAIN entries = 1 .. Len(rows)
      BY <1>4, LenProperties
    <3> QED BY <1>1, <1>4, <2>2, <3>1, ToldRows
  <2> QED BY <2>1, <2>2
<1> HIDE DEF screen
<1>6. /\ Replaced(k) \in Panel /\ Replaced(k).build = ui.build /\ Replaced(k).screen = screen
      /\ Replaced(k).status = ui.status /\ Replaced(k).loaded = ui.loaded
      /\ Replaced(k).queued = ui.queued
  BY <1>1, <1>2, <1>3, <1>5 DEF Panel
<1>7. LikeIt(Replaced(k))
  BY <1>5, <1>6 DEF LikeIt
<1> QED BY <1>5, <1>6, <1>7 DEF rows

\* A function returns without a word.
LEMMA Departs ==
  ASSUME Control, NEW k \in Slots, tasks[k].kind # "send", ~Busy(k), Ends(k),
         UNCHANGED <<ui, thread, turn, strays, failures, acts, missed, stranded>>
  PROVE  Control'
<1>1. Bounds /\ TurnFits' /\ thread' \in [Builds -> Seq(Stored)]
  BY SameBounds, SameTurn
<1>2. tasks' = [tasks EXCEPT ![k] = NoTask]
  BY DEF Ends
<1> QED BY <1>1, <1>2, NoTaskType, QuietTask

LEMMA PlainFollow ==
  ASSUME ui.build \in Builds, NEW k, NEW stage \in Stages
  PROVE  Follow(k, stage) = Following(k, stage, "lost")
<1>1. Follow(k, stage) \in Task /\ Follow(k, stage).ending = "lost"
  BY NoTaskType DEF Follow, NoTask, Task, Stages
<1> DEFINE t == Follow(k, stage)
<1>2. t \in Task /\ t.ending = "lost"
  BY <1>1
<1> HIDE DEF t
<1>3. t = [t EXCEPT !.ending = "lost"]
  BY <1>2 DEF Task
<1> QED BY <1>3 DEF t, Following

\* Of no task but a message's is the turn the answer.
LEMMA NotHeard ==
  ASSUME Control, NEW k \in Slots, tasks[k].kind # "send"
  PROVE  turn.client # k
  BY DEF Control, Heard, Is

\* What a task without a message was told, on the screen.
LEMMA ShowsControl ==
  ASSUME Control, acts' = acts, missed' \subseteq Reasons, UNCHANGED <<thread, turn, strays, failures, stranded>>,
         NEW k \in Slots, tasks[k].current, tasks[k].kind # "send", Busy(k) \/ ui.status = "idle",
         LikeIt(ui'),
         \/ /\ ui'.status = "idle" /\ Ends(k)
         \/ /\ ui'.status \in {"following", "stopping"}
            /\ \E t \in Task : /\ t.kind = "follow" /\ t.current /\ t.build = ui.build
                               /\ tasks' \in {[tasks EXCEPT ![k] = t], [Stale(tasks) EXCEPT ![k] = t]}
  PROVE  Control'
<1>1. ui.build \in Builds
  BY DEF Control, Sound
<1>2. Bounds /\ turn.client # k
  BY NotHeard DEF Bounds, Control, AssistantStoreTypeOK
<1>3. CASE ui'.status = "idle" /\ Ends(k)
  <2>1. tasks' = [tasks EXCEPT ![k] = NoTask]
    BY <1>3 DEF Ends
  <2> QED BY <1>1, <1>2, <1>3, <2>1, Rests
<1>4. CASE /\ ui'.status \in {"following", "stopping"}
           /\ \E t \in Task : /\ t.kind = "follow" /\ t.current /\ t.build = ui.build
                              /\ tasks' \in {[tasks EXCEPT ![k] = t], [Stale(tasks) EXCEPT ![k] = t]}
  <2>1. PICK t \in Task : /\ t.kind = "follow" /\ t.current /\ t.build = ui.build
                          /\ tasks' \in {[tasks EXCEPT ![k] = t], [Stale(tasks) EXCEPT ![k] = t]}
    BY <1>4
  <2>2. tasks \in [Slots -> Task] /\ Stale(tasks) \in [Slots -> Task]
    BY Typed, StaleIs
  <2>3. /\ tasks' \in [Slots -> Task] /\ tasks'[k] = t
        /\ \A j \in Slots \ {k} : tasks'[j] = Stale(tasks)[j] \/ tasks'[j] = tasks[j]
    BY <2>1, <2>2
  <2> QED BY <1>1, <1>2, <1>4, <2>1, <2>3, Follows
<1> QED BY <1>3, <1>4

LEMMA LoadedControl ==
  ASSUME Control, acts' = acts, NEW k \in Slots, Loaded(k) \/ LoadFails(k)
  PROVE  Control'
<1>1. tasks[k].kind = "load" /\ missed \subseteq Reasons /\ ui \in Panel
  BY DEF Loaded, LoadFails, Is, Control, AssistantStoreTypeOK
<1>2. UNCHANGED <<thread, turn, strays, failures, stranded>>
  BY DEF Loaded, LoadFails, server
<1>3. CASE ~tasks[k].current
  <2>1. Ends(k) /\ UNCHANGED <<ui, missed>> /\ ~Busy(k)
    BY <1>3 DEF Loaded, LoadFails, Busy
  <2> QED BY <1>1, <1>2, <2>1, Departs
<1>4. CASE tasks[k].current
  <2>1. Busy(k) /\ tasks[k].build = ui.build /\ ui.build \in Builds
    BY <1>1, <1>4, OneIsBusy DEF Busy
  <2>2. CASE Loaded(k)
    <3> DEFINE u == Replaced(k)
    <3>1. u \in Panel /\ LikeIt(u)
      BY <2>1, ReplacedIs
    <3>2. /\ ui' = [u EXCEPT !.loaded = TRUE,
                             !.status = IF tasks[k].answer.running THEN "following" ELSE "idle"]
          /\ IF tasks[k].answer.running THEN tasks' = [tasks EXCEPT ![k] = Follow(k, "wait")] ELSE Ends(k)
          /\ UpToDate(k)
      BY <1>4, <2>2 DEF Loaded
    <3> HIDE DEF u
    <3>3. missed' \subseteq Reasons
      BY <1>1, <3>2 DEF UpToDate
    <3>4. /\ ui' \in Panel /\ ui'.build = u.build /\ ui'.screen = u.screen
          /\ ui'.status = IF tasks[k].answer.running THEN "following" ELSE "idle"
      BY <3>1, <3>2 DEF Panel
    <3>5. LikeIt(ui')
      BY <3>1, <3>4, Retouched
    <3>6. CASE tasks[k].answer.running
      <4> DEFINE t == Following(k, "wait", "lost")
      <4>0. "wait" \in Stages /\ "lost" \in {"done", "error", "lost"}
        BY DEF Stages
      <4>1. t \in Task /\ t.kind = "follow" /\ t.current /\ t.build = ui.build
        BY <2>1, <4>0, FollowIs
      <4>2. tasks' = [tasks EXCEPT ![k] = t]
        BY <2>1, <3>2, <3>6, PlainFollow DEF Stages
      <4> HIDE DEF t
      <4> QED BY <1>1, <1>2, <1>4, <2>1, <3>3, <3>4, <3>5, <3>6, <4>1, <4>2, ShowsControl
    <3>7. CASE ~tasks[k].answer.running
      <4>1. ui'.status = "idle" /\ Ends(k)
        BY <3>2, <3>4, <3>7
      <4> QED BY <1>1, <1>2, <1>4, <2>1, <3>3, <3>5, <4>1, ShowsControl
    <3> QED BY <3>6, <3>7
  <2>3. CASE LoadFails(k)
    <3>1. ui' = [ui EXCEPT !.status = "idle", !.error = TRUE] /\ Ends(k) /\ missed' = missed
      BY <1>4, <2>3 DEF LoadFails
    <3>2. ui' \in Panel /\ ui'.build = ui.build /\ ui'.screen = ui.screen /\ ui'.status = "idle"
      BY <1>1, <3>1 DEF Panel
    <3>3. LikeIt(ui')
      BY <3>2, AsItWas, Retouched
    <3> QED BY <1>1, <1>2, <1>4, <2>1, <3>1, <3>2, <3>3, ShowsControl
  <2> QED BY <2>2, <2>3
<1> QED BY <1>3, <1>4

LEMMA RefreshedControl ==
  ASSUME Control, acts' = acts, NEW k \in Slots,
         Refreshed(k) \/ (Is(k, "refresh", "failed") /\ Ends(k)
                          /\ UNCHANGED <<ui, server, failures, missed, stranded>>)
  PROVE  Control'
<1>1. tasks[k].kind = "refresh" /\ ~Busy(k)
  BY DEF Refreshed, Is, Busy
<1>2. UNCHANGED <<thread, turn, strays, failures, stranded>>
  BY DEF Refreshed, server
<1>3. CASE Ends(k) /\ UNCHANGED <<ui, missed>>
  BY <1>1, <1>2, <1>3, Departs
<1>4. CASE Refreshed(k) /\ tasks[k].current /\ ui.status = "idle"
  <2>1. tasks[k].build = ui.build /\ ui.build \in Builds
    BY <1>1, <1>4 DEF Control, Sound
  <2> DEFINE u == Replaced(k)
             running == tasks[k].answer.running
  <2>2. u \in Panel /\ LikeIt(u) /\ u.status = "idle"
    BY <1>4, <2>1, ReplacedIs
  <2>3. /\ ui' = [u EXCEPT !.status = IF running THEN "following" ELSE @]
        /\ IF running THEN tasks' = [Stale(tasks) EXCEPT ![k] = Follow(k, "wait")] ELSE Ends(k)
        /\ missed' = IF Behind(k) THEN missed \cup {"elsewhere"} ELSE {}
    BY <1>4 DEF Refreshed
  <2>4. missed' \subseteq Reasons
    <3>1. missed \subseteq Reasons
      BY DEF Control, AssistantStoreTypeOK
    <3> QED BY <2>3, <3>1 DEF Reasons
  <2> HIDE DEF u, running
  <2>5. /\ ui' \in Panel /\ ui'.build = u.build /\ ui'.screen = u.screen
        /\ ui'.status = IF running THEN "following" ELSE "idle"
    BY <2>2, <2>3 DEF Panel
  <2>6. LikeIt(ui')
    BY <2>2, <2>5, Retouched
  <2>7. CASE running
    <3> DEFINE t == Following(k, "wait", "lost")
    <3>0. "wait" \in Stages /\ "lost" \in {"done", "error", "lost"}
      BY DEF Stages
    <3>1. t \in Task /\ t.kind = "follow" /\ t.current /\ t.build = ui.build
      BY <2>1, <3>0, FollowIs
    <3>2. tasks' = [Stale(tasks) EXCEPT ![k] = t]
      BY <2>1, <2>3, <2>7, PlainFollow DEF Stages
    <3> HIDE DEF t
    <3> QED BY <1>1, <1>2, <1>4, <2>4, <2>5, <2>6, <2>7, <3>1, <3>2, ShowsControl
  <2>8. CASE ~running
    <3>1. ui'.status = "idle" /\ Ends(k)
      BY <2>3, <2>5, <2>8
    <3> QED BY <1>1, <1>2, <1>4, <2>4, <2>6, <3>1, ShowsControl
  <2> QED BY <2>7, <2>8
<1> QED BY <1>3, <1>4 DEF Refreshed

LEMMA WaitControl ==
  ASSUME Control, acts' = acts, NEW k \in Slots, Wait(k)
  PROVE  Control'
<1>1. tasks[k].kind = "follow" /\ tasks[k] \in Task
  BY Typed DEF Wait, Is
<1>2. UNCHANGED <<ui, thread, turn, strays, failures, missed, stranded>>
  BY DEF Wait, server
<1>3. CASE ~tasks[k].current
  <2>1. Ends(k) /\ ~Busy(k)
    BY <1>3 DEF Wait, Busy
  <2> QED BY <1>1, <1>2, <2>1, Departs
<1>4. CASE tasks[k].current
  <2> DEFINE t == [tasks[k] EXCEPT !.stage = "ask", !.answer = NoAnswer]
  <2>1. NoAnswer \in Answer
    BY NoTaskType DEF NoTask, Task
  <2>2. /\ t \in Task /\ t.kind = tasks[k].kind /\ t.current = tasks[k].current
        /\ t.build = tasks[k].build /\ t.what = tasks[k].what
    BY <1>1, <2>1 DEF Task
  <2>3. tasks' = [tasks EXCEPT ![k] = t]
    BY <1>4 DEF Wait
  <2> HIDE DEF t
  <2>4. Bounds /\ TurnFits' /\ thread' \in [Builds -> Seq(Stored)]
    BY <1>2, SameBounds, SameTurn
  <2> QED BY <1>1, <1>2, <2>2, <2>3, <2>4, QuietTask
<1> QED BY <1>3, <1>4

\* The store with what a follower read.
Read(k) == [Replaced(k) EXCEPT !.loaded = TRUE, !.error = FALSE]

LEMMA ReadIs ==
  ASSUME Control, NEW k \in Slots, tasks[k].build = ui.build, ui.build \in Builds
  PROVE  /\ Read(k) \in Panel /\ LikeIt(Read(k)) /\ Read(k).status = ui.status /\ Read(k).loaded
         /\ Read(k).build = ui.build /\ Read(k).queued = ui.queued
         /\ Told(Read(k).screen) = tasks[k].answer.rows
<1> DEFINE u == Replaced(k)
           v == Read(k)
<1>1. /\ u \in Panel /\ LikeIt(u) /\ u.status = ui.status /\ u.build = ui.build /\ u.queued = ui.queued
      /\ Told(u.screen) = tasks[k].answer.rows
  BY ReplacedIs
<1>2. v = [u EXCEPT !.loaded = TRUE, !.error = FALSE]
  BY DEF Read
<1> HIDE DEF u, v
<1>3. /\ v \in Panel /\ v.status = u.status /\ v.loaded /\ v.build = u.build /\ v.queued = u.queued
      /\ v.screen = u.screen
  BY <1>1, <1>2 DEF Panel
<1>4. LikeIt(v)
  BY <1>1, <1>3, Retouched
<1> QED BY <1>1, <1>3, <1>4 DEF v

LEMMA ReconciledControl ==
  ASSUME Control, acts' = acts, NEW k \in Slots, Reconciled(k) \/ GivesUp(k)
  PROVE  Control'
<1>1. tasks[k].kind = "follow" /\ tasks[k] \in Task /\ missed \subseteq Reasons
  BY Typed DEF Reconciled, GivesUp, Is, Control, AssistantStoreTypeOK
<1>2. UNCHANGED <<thread, turn, strays, failures, stranded>> /\ turn.client # k
  BY <1>1, NotHeard DEF Reconciled, GivesUp, server
<1>3. CASE ~tasks[k].current
  <2>1. Ends(k) /\ UNCHANGED <<ui, missed>> /\ ~Busy(k)
    BY <1>3 DEF Reconciled, GivesUp, Busy
  <2> QED BY <1>1, <1>2, <2>1, Departs
<1>4. CASE tasks[k].current
  <2>1. /\ Busy(k) /\ tasks[k].build = ui.build /\ ui.build \in Builds /\ ui.status # "idle"
        /\ tasks[k].kind \in Kinds[ui.status]
    BY <1>1, <1>4, OneIsBusy DEF Busy
  <2>2. ui.status \in {"stopping", "following"}
    <3>1. ui.status \in Statuses
      BY Typed, PanelFields
    <3> QED BY <1>1, <2>1, <3>1 DEF Kinds, Statuses
  <2>3. Read(k) \in Panel /\ LikeIt(Read(k)) /\ Read(k).status = ui.status
    BY <2>1, ReadIs
  <2>4. CASE \E u : LikeIt(u) /\ Finish(k, u) /\ missed' \subseteq Reasons
    <3>1. Bounds
      BY <1>2, <2>4 DEF Bounds, Control, AssistantStoreTypeOK
    <3> QED BY <1>2, <2>1, <2>4, <3>1, FinishControl
  <2>5. CASE Reconciled(k) /\ tasks[k].answer.running /\ ui' = Read(k)
    <3> DEFINE t == [tasks[k] EXCEPT !.stage = "wait"]
    <3>1. t \in Task /\ t.kind = "follow" /\ t.current /\ t.build = ui.build
      <4>1. t \in Task
        BY <1>1, TaskStage DEF Stages
      <4> QED BY <1>1, <1>4, <2>1, <4>1 DEF Task
    <3>2. tasks' = [tasks EXCEPT ![k] = t] /\ missed' = missed
      BY <1>4, <2>5 DEF Reconciled
    <3> HIDE DEF t
    <3>3. ui'.status \in {"following", "stopping"} /\ LikeIt(ui')
      BY <2>2, <2>3, <2>5
    <3> QED BY <1>1, <1>2, <1>4, <2>1, <3>1, <3>2, <3>3, ShowsControl
  <2>6. CASE Reconciled(k) /\ Finish(k, Read(k)) /\ UpToDate(k)
    <3>1. missed' \subseteq Reasons
      BY <1>1, <2>6 DEF UpToDate
    <3> QED BY <2>3, <2>4, <2>6, <3>1
  <2>7. CASE GivesUp(k)
    <3>1. missed' \subseteq Reasons /\ Finish(k, IF tasks[k].stage = "failed" THEN ui ELSE Read(k))
      <4>1. missed' = missed \cup {"unread"}
            /\ Finish(k, IF tasks[k].stage = "failed" THEN ui ELSE Read(k))
        BY <1>4, <2>7 DEF GivesUp, Read
      <4> QED BY <1>1, <4>1 DEF Reasons
    <3>2. LikeIt(IF tasks[k].stage = "failed" THEN ui ELSE Read(k))
      BY <2>3, AsItWas
    <3> QED BY <2>4, <3>1, <3>2
  <2>8. Reconciled(k) => \/ tasks[k].answer.running /\ ui' = Read(k)
                         \/ Finish(k, Read(k)) /\ UpToDate(k)
    BY <1>4 DEF Reconciled, Read
  <2> QED BY <2>5, <2>6, <2>7, <2>8
<1> QED BY <1>3, <1>4

\* A cleared conversation: nothing may write any more.
LEMMA ClearedControl ==
  ASSUME Control, acts' = acts, NEW k \in Slots, Cleared(k)
  PROVE  Control'
<1>1. tasks[k].kind = "clear" /\ tasks[k].build \in Builds /\ ~Busy(k)
  BY DEF Cleared, Control, Sound, Busy
<1>2. UNCHANGED <<thread, turn, strays, failures>>
  BY DEF Cleared, server
<1>3. CASE Ends(k) /\ UNCHANGED <<ui, missed, stranded>>
  BY <1>1, <1>2, <1>3, Departs
<1>4. CASE /\ ui.build = tasks[k].build /\ tasks' = [Stale(tasks) EXCEPT ![k] = NoTask]
           /\ ui' = [ui EXCEPT !.screen = <<>>, !.full = FALSE, !.error = FALSE, !.loaded = TRUE]
           /\ missed' = IF thread[ui.build] # <<>> \/ turn.build = ui.build
                        THEN missed \cup {"wiped"} ELSE {}
           /\ stranded' = (stranded \/ ui.status # "idle")
  <2>1. /\ ui' \in Panel /\ ui'.build = ui.build /\ ui'.screen = <<>> /\ ui'.status = ui.status
        /\ ui'.controller = ui.controller
    <3>1. ui \in Panel /\ <<>> \in Seq(Entry)
      BY EmptySeq DEF Control, AssistantStoreTypeOK
    <3> QED BY <1>4, <3>1 DEF Panel
  <2>2. tasks \in [Slots -> Task]
    BY Typed
  <2>3. tasks' \in [Slots -> Task] /\ tasks'[k] = NoTask /\ \A j \in Slots \ {k} : tasks'[j] = Stale(tasks)[j]
    BY <1>4, <2>2, NoTaskType, StaleIs
  <2>4. ASSUME NEW j \in Slots \ {k}
        PROVE  /\ ~tasks'[j].current /\ tasks'[j].kind = tasks[j].kind /\ tasks'[j].stage = tasks[j].stage
               /\ tasks'[j].build = tasks[j].build /\ tasks'[j].what = tasks[j].what
               /\ tasks'[j].wire = tasks[j].wire /\ tasks'[j].aborted = tasks[j].aborted
    BY <2>2, <2>3, StaleIs
  <2>5. \A j \in Slots : ~Busy(j)'
    BY <2>3, <2>4, NoTaskIs DEF Busy
  <2>6. BusyIsOneTask'
    <3>1. CASE ui.status = "idle"
      BY <2>1, <2>5, <3>1, NobodyNow
    <3>2. CASE ui.status # "idle"
      <4>1. stranded'
        BY <1>4, <3>2
      <4> QED BY <4>1 DEF BusyIsOneTask
    <3> QED BY <3>1, <3>2
  <2>7. PanelFits'
    <3>1. stranded => ui.status # "idle"
      BY DEF Control, PanelFits
    <3>2. stranded' => ui.status # "idle"
      BY <1>4, <3>1
    <3>3. ui'.build \in Builds
      BY <1>1, <1>4, <2>1
    <3> QED BY <2>1, <3>2, <3>3 DEF PanelFits
  <2>8. AssistantStoreTypeOK' /\ TurnFits'
    <3>1. missed' \subseteq Reasons /\ stranded' \in BOOLEAN
      <4>1. missed \subseteq Reasons
        BY DEF Control, AssistantStoreTypeOK
      <4> QED BY <1>4, <4>1 DEF Reasons
    <3>2. TurnFits' /\ thread' \in [Builds -> Seq(Stored)] /\ turn' \in Turn
      BY <1>2, SameTurn, TurnFields
    <3>3. strays' \subseteq [build : Builds, what : Messages] /\ failures' \in 0 .. MaxFailures
          /\ acts' \in 0 .. MaxActs
      BY <1>2 DEF Control, AssistantStoreTypeOK
    <3> QED BY <2>1, <2>3, <3>1, <3>2, <3>3 DEF AssistantStoreTypeOK
  <2>9. ScreenIsItsBuilds'
    <3>1. DOMAIN ui'.screen = {}
      BY <2>1
    <3> QED BY <3>1 DEF ScreenIsItsBuilds
  <2>10. ASSUME NEW j \in Slots \ {k} PROVE Sound(j)' /\ Attached(j)' /\ Heard(j)' /\ OnTop(j)'
    <3>1. Sound(j) /\ Attached(j) /\ Heard(j)
      BY DEF Control
    <3>2. Sound(j)'
      BY <2>4, <3>1 DEF Sound
    <3>3. Attached(j)'
      <4>1. tasks[j].kind = "send" /\ tasks[j].stage = "ask" => stranded'
        <5>1. CASE stranded
          BY <1>4, <5>1
        <5>2. CASE ui.status # "idle"
          BY <1>4, <5>2
        <5>3. CASE ~stranded /\ ui.status = "idle"
          BY <5>3, OthersAreDone
        <5> QED BY <5>1, <5>2, <5>3
      <4> QED BY <2>1, <2>4, <3>1, <4>1 DEF Attached
    <3>4. Heard(j)'
      BY <1>2, <2>4, <3>1 DEF Heard, Is
    <3>5. OnTop(j)'
      BY <2>4 DEF OnTop, Sends
    <3> QED BY <3>2, <3>3, <3>4, <3>5
  <2>11. Sound(k)' /\ Attached(k)' /\ Heard(k)' /\ OnTop(k)'
    <3>1. Put(k) /\ Sound(k)'
      BY <2>3, NoTaskIs DEF Put, Sound
    <3>2. turn'.client # k
      BY <1>1, <1>2, NotHeard
    <3> QED BY <3>1, <3>2, PutAside
  <2> QED BY <2>6, <2>7, <2>8, <2>9, <2>10, <2>11 DEF Control
<1> QED BY <1>3, <1>4 DEF Cleared

LEMMA UserControl ==
  ASSUME Control, UserStep, acts' \in 0 .. MaxActs
  PROVE  Control'
<1>1. CASE Switches
  <2>1. ASSUME NEW b \in Builds, OpenPanel(b) PROVE Control'
    BY <2>1, LoadControl DEF OpenPanel
  <2>2. ASSUME TryAgain PROVE Control'
    BY <2>2, ShownBuild, LoadControl DEF TryAgain
  <2> QED BY <1>1, <2>1, <2>2 DEF Switches
<1>2. CASE Reopen \/ Clear
  BY <1>2, AsksControl
<1>3. CASE CancelQueued
  <2>1. ui.queued \in Messages
    <3>1. ui \in Panel
      BY DEF Control, AssistantStoreTypeOK
    <3> QED BY <1>3, <3>1, PanelFields DEF CancelQueued
  <2> QED BY <1>3, <2>1, BoxStepsControl
<1>4. CASE Stop
  BY <1>4, StopControl
<1>5. ASSUME NEW m \in Messages, Type(m) \/ Send(m) PROVE Control'
  BY <1>5, BoxStepsControl, SendControl
<1> QED BY <1>1, <1>2, <1>3, <1>4, <1>5 DEF UserStep

LEMMA GoesOnControl ==
  ASSUME Control, acts' = acts, NEW k \in Slots, GoesOn(k)
  PROVE  Control'
<1>1. CASE Loaded(k) \/ LoadFails(k)
  BY <1>1, LoadedControl
<1>2. CASE Refreshed(k) \/ (Is(k, "refresh", "failed") /\ Ends(k)
                            /\ UNCHANGED <<ui, server, failures, missed, stranded>>)
  BY <1>2, RefreshedControl
<1>3. CASE Wait(k)
  BY <1>3, WaitControl
<1>4. CASE Reconciled(k) \/ GivesUp(k)
  BY <1>4, ReconciledControl
<1>5. CASE Prepared(k) \/ Stopped(k) \/ Refused(k) \/ Lost(k)
  BY <1>5, OutcomesControl
<1>6. CASE Event(k)
  BY <1>6, EventControl
<1>7. CASE Cleared(k)
  BY <1>7, ClearedControl
<1> QED BY <1>1, <1>2, <1>3, <1>4, <1>5, <1>6, <1>7 DEF GoesOn

LEMMA NextControl ==
  ASSUME Control, [AssistantStoreNext]_vars
  PROVE  Control'
<1>1. CASE UNCHANGED vars
  BY <1>1, IdleControl
<1>2. CASE (UserStep \/ Elsewhere) /\ acts < MaxActs /\ acts' = acts + 1
  <2>1. acts' \in 0 .. MaxActs
    BY <1>2 DEF Control, AssistantStoreTypeOK
  <2> QED BY <1>2, <2>1, UserControl, ElsewhereControl
<1>3. ASSUME NEW k \in Slots, Serves(k) PROVE Control'
  BY <1>3, ServeSendControl, ReadsControl, ServeClearControl DEF Serves, Serve
<1>4. ASSUME NEW k \in Slots, Proceeds(k) PROVE Control'
  BY <1>4, GoesOnControl DEF Proceeds
<1>5. CASE TurnGoesOn
  BY <1>5, StoreMessageControl, SayControl, KeepControl, EndTurnControl DEF TurnGoesOn, TurnStep
<1>6. CASE /\ (\E k \in Slots : RequestFails(k) \/ StreamBreaks(k)) \/ \E s \in strays : ServeStray(s)
           /\ UNCHANGED acts
  BY <1>6, RequestFailsControl, StreamBreaksControl, ServeStrayControl
<1> QED BY <1>1, <1>2, <1>3, <1>4, <1>5, <1>6 DEF AssistantStoreNext

LEMMA InitControl ==
  ASSUME AssistantStoreInit
  PROVE  Control
<1>1. /\ ui.build = None /\ ~ui.loaded /\ ui.screen = <<>> /\ ui.status = "idle" /\ ~ui.error
      /\ ui.controller = 0
  BY DEF AssistantStoreInit
<1>2. turn = NoTurn /\ ~stranded /\ \A k \in Slots : tasks[k] = NoTask
  BY DEF AssistantStoreInit
<1>3. AssistantStoreTypeOK
  <2>1. ui \in Panel
    <3>1. 0 \in 0 .. Ended /\ <<>> \in Seq(Entry)
      BY EmptySeq DEF Ended
    <3> QED BY <3>1 DEF AssistantStoreInit, Panel
  <2>2. tasks \in [Slots -> Task]
    BY NoTaskType DEF AssistantStoreInit
  <2>3. thread \in [Builds -> Seq(Stored)]
    <3>1. <<>> \in Seq(Stored)
      BY EmptySeq
    <3> QED BY <3>1 DEF AssistantStoreInit
  <2>4. turn \in Turn
    BY <1>2, NoTurnIs
  <2>5. 0 \in 0 .. MaxFailures /\ 0 \in 0 .. MaxActs
    OBVIOUS
  <2> QED BY <2>1, <2>2, <2>3, <2>4, <2>5 DEF AssistantStoreInit, AssistantStoreTypeOK
<1>4. TurnFits
  BY <1>2, NoTurnIs DEF TurnFits
<1>5. PanelFits
  BY <1>1, <1>2 DEF PanelFits
<1>6. ScreenIsItsBuilds
  <2>1. DOMAIN ui.screen = {}
    BY <1>1
  <2> QED BY <2>1 DEF ScreenIsItsBuilds
<1>7. \A k \in Slots : ~Busy(k)
  BY <1>2, NoTaskIs DEF Busy
<1>8. BusyIsOneTask
  <2>1. {k \in Slots : tasks[k].current /\ tasks[k].kind \in {"load", "send", "follow"}} = {}
    BY <1>7 DEF Busy
  <2> QED BY <1>1, <2>1 DEF BusyIsOneTask
<1>9. ASSUME NEW k \in Slots PROVE Sound(k) /\ Attached(k) /\ Heard(k) /\ OnTop(k)
  <2>1. tasks[k].kind = "none" /\ tasks[k].stage = "" /\ ~tasks[k].current
    BY <1>2, NoTaskIs
  <2>2. turn.client # k
    BY <1>2, NoTurnIs
  <2> QED BY <2>1, <2>2 DEF Sound, Attached, Heard, OnTop, Sends
<1> QED BY <1>3, <1>4, <1>5, <1>6, <1>8, <1>9 DEF Control

LEMMA AlwaysControl == AssistantStoreSpec => []Control
<1>1. AssistantStoreInit => Control
  BY InitControl
<1>2. Control /\ [AssistantStoreNext]_vars => Control'
  BY NextControl
<1> QED BY <1>1, <1>2, PTL DEF AssistantStoreSpec

(***************************************************************************)
(* What the screen and the stored conversation are to each other, unless    *)
(* there is a reason for them to differ, or a clear is still to be taken.   *)
(***************************************************************************)
Excused == missed # {} \/ stranded \/ \E k \in Slots : Is(k, "clear", "told") /\ tasks[k].build = ui.build

\* No turn is to add anything to the conversation that is shown.
Fresh == turn.build # ui.build

Resting == ui.status = "idle" /\ ui.loaded => Fresh /\ Told(ui.screen) = thread[ui.build]

\* What a load or a follower was told is what is stored, if it was told that no turn runs.
Answered(k) ==
  tasks[k].current /\ tasks[k].kind \in {"load", "follow"} =>
    /\ tasks[k].kind = "load" => ~ui.loaded
    /\ ~tasks[k].answer.running =>
         /\ tasks[k].stage = "reading" => Fresh
         /\ tasks[k].stage = "told" => Fresh /\ tasks[k].answer.rows = thread[ui.build]

\* The entries before the newest are what was stored before the turn, and the newest is
\* the turn, once what is on the way has arrived.
Sent(k) ==
  ui.loaded /\ Sends(k) =>
    /\ tasks[k].stage \in Early => Fresh /\ Told(Before(ui.screen)) = thread[ui.build]
    /\ tasks[k].stage = "stream" =>
         /\ turn.client = k /\ ~turn.stored => Told(Before(ui.screen)) = thread[ui.build]
         /\ turn.client = k /\ turn.stored =>
              \E p \in 0 .. turn.said :
                thread[ui.build] = Append(Told(Before(ui.screen)), [what |-> tasks[k].what, parts |-> p])
         /\ turn.client # k /\ Closed(tasks[k].wire) = 1 =>
              /\ Fresh
              /\ thread[ui.build] =
                   Append(Told(Before(ui.screen)),
                          [what |-> tasks[k].what,
                           parts |-> Newest(ui.screen).parts + Pieces(tasks[k].wire)])

Content == ~Excused => Resting /\ \A k \in Slots : Answered(k) /\ Sent(k)

(***************************************************************************)
(* What a step has to keep.                                                 *)
(***************************************************************************)
LEMMA OneBusyNow ==
  ASSUME Control', NEW k \in Slots, Busy(k)', ~stranded'
  PROVE  ui'.status # "idle" /\ \A j \in Slots \ {k} : ~Busy(j)'
<1>1. k \in {j \in Slots : tasks'[j].current /\ tasks'[j].kind \in {"load", "send", "follow"}}
  BY DEF Busy
<1>2. ui'.status # "idle"
  BY <1>1 DEF Control, BusyIsOneTask
<1>3. PICK j \in Slots : {i \in Slots : tasks'[i].current /\ tasks'[i].kind \in {"load", "send", "follow"}} = {j}
  BY <1>2 DEF Control, BusyIsOneTask
<1>4. j = k /\ \A i \in Slots \ {k} : ~Busy(i)'
  BY <1>1, <1>3 DEF Busy
<1> QED BY <1>2, <1>4

LEMMA NobodyBusyNow ==
  ASSUME Control', ui'.status = "idle", ~stranded'
  PROVE  \A j \in Slots : ~Busy(j)'
  BY OneBusyNow

LEMMA NotBusy ==
  ASSUME NEW j \in Slots
  PROVE  /\ ~Busy(j) => Answered(j) /\ Sent(j)
         /\ ~Busy(j)' => Answered(j)' /\ Sent(j)'
  BY DEF Busy, Answered, Sent, Sends

\* One task counts, of which it is known.
LEMMA OneContent ==
  ASSUME Control', NEW k \in Slots, Busy(k)', ~Excused' => Answered(k)' /\ Sent(k)'
  PROVE  Content'
<1>1. SUFFICES ASSUME ~Excused' PROVE Resting' /\ \A j \in Slots : Answered(j)' /\ Sent(j)'
  BY DEF Content
<1>2. ~stranded'
  BY <1>1 DEF Excused
<1>3. ui'.status # "idle" /\ \A j \in Slots \ {k} : ~Busy(j)'
  BY <1>2, OneBusyNow
<1>4. Resting'
  BY <1>3 DEF Resting
<1>5. \A j \in Slots : Answered(j)' /\ Sent(j)'
  BY <1>1, <1>3, NotBusy
<1> QED BY <1>4, <1>5

\* None does.
LEMMA NobodyContent ==
  ASSUME Control', ui'.status = "idle", ~Excused' => Resting'
  PROVE  Content'
<1>1. SUFFICES ASSUME ~Excused' PROVE Resting' /\ \A j \in Slots : Answered(j)' /\ Sent(j)'
  BY DEF Content
<1>2. ~stranded'
  BY <1>1 DEF Excused
<1>3. \A j \in Slots : ~Busy(j)'
  BY <1>2, NobodyBusyNow
<1> QED BY <1>1, <1>3, NotBusy

\* The panel is as it was.
SamePanel == /\ ui'.build = ui.build /\ ui'.loaded = ui.loaded /\ ui'.status = ui.status
             /\ ui'.screen = ui.screen
\* So is the conversation it shows, as far as the turn goes.
SameThread == ui.build \in Builds => (Fresh => Fresh') /\ thread'[ui.build] = thread[ui.build]
Steady(j) == /\ Same(j)
             /\ turn' = turn \/ (turn.client # j /\ turn'.client # j)

LEMMA SteadyContent ==
  ASSUME Control, Control', Content, SamePanel, ~Excused' => ~Excused,
         ~Excused' => SameThread,
         \A j \in Slots : Busy(j)' => Steady(j) \/ (~Excused' => Answered(j)' /\ Sent(j)')
  PROVE  Content'
<1>1. SUFFICES ASSUME ~Excused' PROVE Resting' /\ \A j \in Slots : Answered(j)' /\ Sent(j)'
  BY DEF Content
<1>2. ~Excused /\ SameThread
  BY <1>1
<1>3. Resting /\ \A j \in Slots : Answered(j) /\ Sent(j)
  BY <1>2 DEF Content
<1>4. Resting'
  <2>1. ui.loaded => ui.build \in Builds
    BY DEF Control, PanelFits
  <2> QED BY <1>2, <1>3, <2>1 DEF Resting, SamePanel, SameThread, Fresh
<1>5. ASSUME NEW j \in Slots PROVE Answered(j)' /\ Sent(j)'
  <2>1. CASE ~Busy(j)'
    BY <2>1, NotBusy
  <2>2. CASE Busy(j)' /\ Steady(j)
    <3>1. tasks'[j] = tasks[j] /\ Busy(j)
      BY <2>2 DEF Steady, Same, Busy
    <3>2. Answered(j) /\ Sent(j)
      BY <1>3
    <3>3. ui.build \in Builds
      BY <3>1, OneIsBusy
    <3>4. thread'[ui'.build] = thread[ui.build] /\ (Fresh => Fresh')
      BY <1>2, <3>3 DEF SamePanel, SameThread
    <3>5. Answered(j)'
      BY <3>1, <3>2, <3>4 DEF Answered, SamePanel
    <3>6. Sent(j)'
      <4>1. CASE turn' = turn
        BY <3>1, <3>2, <3>4, <4>1 DEF Sent, Sends, SamePanel
      <4>2. CASE turn.client # j /\ turn'.client # j
        BY <3>1, <3>2, <3>4, <4>2 DEF Sent, Sends, SamePanel
      <4> QED BY <2>2, <4>1, <4>2 DEF Steady
    <3> QED BY <3>5, <3>6
  <2> QED BY <1>1, <2>1, <2>2
<1> QED BY <1>4, <1>5

\* What a store u would show is what is stored, unless the screen was not told.
Holds(u) == u.loaded => Fresh /\ Told(u.screen) = thread[ui.build]

\* A message goes out under a conversation that is up to date.
LEMMA StartsContent ==
  ASSUME Control, Control', NEW k \in Slots, NEW u, LikeIt(u), ui.build \in Builds,
         NEW m \in Messages, NEW back \in BOOLEAN,
         ui' = Streaming(u, k, m), tasks' = [Stale(tasks) EXCEPT ![k] = SendTask(u.build, m, back)],
         thread' = thread, turn' = turn, ~Excused' => Holds(u)
  PROVE  Content'
<1> DEFINE t == SendTask(u.build, m, back)
           v == Streaming(u, k, m)
<1>0. u \in Panel /\ u.build \in Builds /\ u.build = ui.build
  BY DEF LikeIt
<1>1. t.kind = "send" /\ t.stage = "prepare" /\ t.current /\ t \in Task
  BY <1>0, SendTaskIs
<1> HIDE DEF t
<1>2. tasks'[k] = t
  <2>1. Stale(tasks) \in [Slots -> Task]
    BY Typed, StaleIs
  <2> QED BY <2>1 DEF t
<1>3. v.build = u.build /\ v.loaded = u.loaded /\ Before(v.screen) = u.screen
  <2>1. OnItsWay(u, k, m, v)
    BY <1>0, NewestEntry
  <2> HIDE DEF v
  <2> QED BY <2>1 DEF OnItsWay
<1>4. ui'.build = ui.build /\ ui'.loaded = u.loaded /\ Before(ui'.screen) = u.screen
  <2>1. ui' = v
    OBVIOUS
  <2> HIDE DEF v
  <2> QED BY <1>0, <1>3, <2>1
<1>5. Busy(k)'
  BY <1>1, <1>2 DEF Busy
<1>6. ASSUME ~Excused' PROVE Answered(k)' /\ Sent(k)'
  <2>1. Holds(u)
    BY <1>6
  <2>2. Answered(k)'
    BY <1>1, <1>2 DEF Answered
  <2>3. u.loaded => Fresh' /\ Told(Before(ui'.screen)) = thread'[ui'.build]
    BY <1>4, <2>1 DEF Holds, Fresh
  <2>4. Sent(k)'
    BY <1>1, <1>2, <1>4, <2>3 DEF Sent, Sends
  <2> QED BY <2>2, <2>4
<1> QED BY <1>5, <1>6, OneContent

LEMMA FinishContent ==
  ASSUME Control, Control', NEW k \in Slots, ui.build \in Builds, NEW u, LikeIt(u), Finish(k, u),
         thread' = thread, turn' = turn, ~Excused' => Holds(u)
  PROVE  Content'
<1>2. u \in Panel /\ u.build = ui.build /\ u.queued \in Messages \cup {None}
  BY PanelFields DEF LikeIt
<1>3. CASE u.queued # None /\ ~u.full
  <2> DEFINE v == [u EXCEPT !.queued = None]
             m == u.queued
  <2>1. v \in Panel /\ v.build = u.build /\ v.screen = u.screen /\ v.loaded = u.loaded
    BY <1>2 DEF Panel
  <2>2. m \in Messages /\ ui' = Streaming(v, k, m)
        /\ tasks' = [Stale(tasks) EXCEPT ![k] = SendTask(v.build, m, FALSE)]
    BY <1>2, <1>3, <2>1 DEF Finish
  <2> HIDE DEF v, m
  <2>3. LikeIt(v)
    BY <2>1, Retouched
  <2>4. Holds(u) => Holds(v)
    BY <2>1 DEF Holds
  <2>5. FALSE \in BOOLEAN
    OBVIOUS
  <2> QED BY <2>2, <2>3, <2>4, <2>5, StartsContent
<1>4. CASE ~(u.queued # None /\ ~u.full)
  <2>1. ui' = [u EXCEPT !.status = "idle", !.queued = None, !.controller = 0]
    BY <1>4 DEF Finish
  <2>2. ui'.loaded = u.loaded /\ ui'.build = u.build /\ ui'.screen = u.screen /\ ui'.status = "idle"
    BY <1>2, <2>1 DEF Panel
  <2>3. ASSUME ~Excused' PROVE Resting'
    <3>1. Holds(u)
      BY <2>3
    <3> QED BY <1>2, <2>2, <3>1 DEF Holds, Resting, Fresh
  <2> QED BY <2>2, <2>3, NobodyContent
<1> QED BY <1>3, <1>4

\* The end of a message that still counts; one that is not followed is known of.
LEMMA SendGoesOnContent ==
  ASSUME Control, Control', Content, NEW k \in Slots, Sends(k), NEW u, LikeIt(u), NEW ending, SendOver(k, u, ending),
         UNCHANGED <<thread, turn>>,
         ~Excused' /\ ending \notin {"stopped", "lost"} => Holds(u)
  PROVE  Content'
<1>1. Busy(k) /\ tasks[k].current /\ tasks[k] \in Task
  BY Typed DEF Sends, Busy
<1>3. ui.build \in Builds /\ u \in Panel /\ u.build = ui.build
  BY <1>1, OneIsBusy DEF LikeIt
<1>4. CASE ending # "done" /\ tasks[k].accepted
  <2> DEFINE last == IF ending = "stopped" THEN "done" ELSE "error"
             t == Following(k, "ask", last)
  <2>1. last \in {"done", "error", "lost"} /\ "ask" \in Stages
    BY DEF Stages
  <2>2. tasks' = [tasks EXCEPT ![k] = t]
    BY <1>1, <1>4 DEF SendOver, Following
  <2> HIDE DEF last
  <2>3. t \in Task /\ t.kind = "follow" /\ t.current /\ t.stage = "ask"
    BY <1>3, <2>1, FollowIs
  <2> HIDE DEF t
  <2>4. tasks'[k] = t
    BY <2>2, <2>3, Typed
  <2>5. Busy(k)'
    BY <2>3, <2>4 DEF Busy
  <2>6. Answered(k)' /\ Sent(k)'
    BY <2>3, <2>4 DEF Answered, Sent, Sends
  <2> QED BY <2>5, <2>6, OneContent
<1>5. CASE ~(ending # "done" /\ tasks[k].accepted)
  <2> DEFINE v == Back(k, u)
  <2>1. Finish(k, v) /\ missed' = IF ending \in {"stopped", "lost"} THEN missed \cup {"lost"} ELSE missed
    BY <1>1, <1>5 DEF SendOver
  <2>2. v \in Panel /\ v.build = u.build /\ v.loaded = u.loaded /\ v.screen = u.screen
    BY <1>1, <1>3, BackIs
  <2> HIDE DEF v
  <2>3. LikeIt(v)
    BY <2>2, Retouched
  <2>4. ~Excused' => Holds(v)
    <3>1. ~Excused' => ending \notin {"stopped", "lost"}
      BY <2>1 DEF Excused
    <3> QED BY <2>2, <3>1 DEF Holds
  <2> QED BY <1>3, <2>1, <2>3, <2>4, FinishContent
<1> QED BY <1>4, <1>5

\* The tasks next to one that moves are as they were, but for the right to write.
Neighbours(k) == \A j \in Slots \ {k} : tasks'[j] = tasks[j] \/ tasks'[j] = Stale(tasks)[j]

LEMMA FinishOthers ==
  ASSUME Control, NEW k \in Slots, NEW u, Finish(k, u)
  PROVE  Neighbours(k)
<1>1. tasks \in [Slots -> Task] /\ Stale(tasks) \in [Slots -> Task]
  BY Typed, StaleIs
<1>2. \/ tasks' = [tasks EXCEPT ![k] = NoTask]
      \/ tasks' = [Stale(tasks) EXCEPT ![k] = SendTask(u.build, u.queued, FALSE)]
  BY DEF Finish, Ends
<1> DEFINE t == SendTask(u.build, u.queued, FALSE)
<1> HIDE DEF t
<1>3. CASE tasks' = [tasks EXCEPT ![k] = NoTask]
  BY <1>1, <1>3 DEF Neighbours
<1>4. CASE tasks' = [Stale(tasks) EXCEPT ![k] = t]
  BY <1>1, <1>4 DEF Neighbours
<1> QED BY <1>2, <1>3, <1>4 DEF t

LEMMA SendOverOthers ==
  ASSUME Control, NEW k \in Slots, NEW u, NEW ending, SendOver(k, u, ending)
  PROVE  Neighbours(k)
<1>1. tasks \in [Slots -> Task]
  BY Typed
<1>2. \/ tasks' = [tasks EXCEPT ![k] = NoTask]
      \/ Finish(k, Back(k, u))
      \/ tasks' = [tasks EXCEPT ![k] = [Follow(k, "ask") EXCEPT
                      !.ending = IF ending = "stopped" THEN "done" ELSE "error"]]
  BY DEF SendOver, Ends
<1> DEFINE t == [Follow(k, "ask") EXCEPT !.ending = IF ending = "stopped" THEN "done" ELSE "error"]
<1> HIDE DEF t
<1>3. CASE tasks' = [tasks EXCEPT ![k] = NoTask]
  BY <1>1, <1>3 DEF Neighbours
<1>4. CASE Finish(k, Back(k, u))
  BY <1>4, FinishOthers
<1>5. CASE tasks' = [tasks EXCEPT ![k] = t]
  BY <1>1, <1>5 DEF Neighbours
<1> QED BY <1>2, <1>3, <1>4, <1>5 DEF t

\* A task that clears nothing moves: what excuses the screen is still there.
LEMMA StillExcused ==
  ASSUME Control, NEW k \in Slots, Neighbours(k),
         ~Is(k, "clear", "told") \/ tasks[k].build # ui.build,
         ui'.build = ui.build, stranded => stranded', missed # {} => missed' # {}
  PROVE  Excused => Excused'
<1>1. ASSUME NEW j \in Slots, Is(j, "clear", "told"), tasks[j].build = ui.build
      PROVE  Is(j, "clear", "told")' /\ tasks'[j].build = ui'.build
  <2>1. j # k
    BY <1>1 DEF Is
  <2>2. CASE tasks'[j] = tasks[j]
    BY <1>1, <2>2 DEF Is
  <2>3. CASE tasks'[j] = Stale(tasks)[j]
    BY <1>1, <2>3, Typed, StaleIs DEF Is
  <2> QED BY <2>1, <2>2, <2>3 DEF Neighbours
<1> QED BY <1>1 DEF Excused

LEMMA OneMoves ==
  ASSUME Control, NEW k \in Slots, NEW t, tasks' = [tasks EXCEPT ![k] = t]
  PROVE  tasks'[k] = t /\ Neighbours(k) /\ \A j \in Slots \ {k} : Same(j)
<1>1. tasks \in [Slots -> Task]
  BY Typed
<1> QED BY <1>1 DEF Neighbours, Same
\* The panel stays on its build.
LEMMA FinishPlace ==
  ASSUME Control, NEW k \in Slots, ui.build \in Builds, NEW u, LikeIt(u), Finish(k, u)
  PROVE  ui'.build = ui.build
<1>1. u \in Panel /\ u.build = ui.build /\ u.queued \in Messages \cup {None}
  BY PanelFields DEF LikeIt
<1>2. CASE u.queued # None /\ ~u.full
  <2> DEFINE v == [u EXCEPT !.queued = None]
             w == Streaming(v, k, u.queued)
  <2>1. v \in Panel /\ v.build = u.build
    BY <1>1 DEF Panel
  <2>2. ui' = w
    BY <1>2 DEF Finish
  <2> HIDE DEF v
  <2>3. OnItsWay(v, k, u.queued, w)
    BY <1>1, <1>2, <2>1, NewestEntry
  <2> HIDE DEF w
  <2> QED BY <1>1, <2>1, <2>2, <2>3 DEF OnItsWay
<1>3. CASE ~(u.queued # None /\ ~u.full)
  <2>1. ui' = [u EXCEPT !.status = "idle", !.queued = None, !.controller = 0]
    BY <1>3 DEF Finish
  <2> QED BY <1>1, <2>1 DEF Panel
<1> QED BY <1>2, <1>3

LEMMA SendOverStill ==
  ASSUME Control, NEW k \in Slots, Sends(k), NEW u, LikeIt(u), NEW ending, SendOver(k, u, ending),
         stranded' = stranded
  PROVE  Excused => Excused'
<1>1. tasks[k].current /\ tasks[k].kind = "send" /\ tasks[k] \in Task /\ ui.build \in Builds
      /\ u \in Panel /\ u.build = ui.build
  BY Typed, OneIsBusy DEF Sends, Busy, LikeIt
<1>2. Neighbours(k)
  BY SendOverOthers
<1>3. missed # {} => missed' # {}
  BY <1>1 DEF SendOver
<1>4. ui'.build = ui.build
  <2>1. CASE ending # "done" /\ tasks[k].accepted
    BY <1>1, <2>1 DEF SendOver, Panel
  <2>2. CASE ~(ending # "done" /\ tasks[k].accepted)
    <3>1. Finish(k, Back(k, u))
      BY <1>1, <2>2 DEF SendOver
    <3>2. LikeIt(Back(k, u))
      BY <1>1, BackIs, Retouched
    <3> QED BY <1>1, <3>1, <3>2, FinishPlace
  <2> QED BY <2>1, <2>2
<1> QED BY <1>1, <1>2, <1>3, <1>4, StillExcused DEF Is

\* A message that no longer counts is over.
LEMMA GoneContent ==
  ASSUME Control, Control', Content, NEW k \in Slots, tasks[k].kind = "send", ~tasks[k].current,
         NEW ending, SendOver(k, ui, ending), UNCHANGED <<thread, stranded>>,
         turn'.build = turn.build,
         turn' = turn \/ (turn.client = k /\ turn'.client \notin Slots)
  PROVE  Content'
<1>1. /\ tasks' = [tasks EXCEPT ![k] = NoTask] /\ ui' = Back(k, WithoutRequest(k, ui))
      /\ missed' = missed
  BY DEF SendOver, Ends
<1>2. tasks'[k] = NoTask /\ Neighbours(k) /\ \A j \in Slots \ {k} : Same(j)
  BY <1>1, OneMoves
<1> DEFINE v == WithoutRequest(k, ui)
<1>3. /\ v \in Panel /\ v.build = ui.build /\ v.loaded = ui.loaded /\ v.screen = ui.screen
      /\ v.status = ui.status
  <2>1. Ended \in 0 .. Ended /\ ui \in Panel
    BY DEF Ended, Control, AssistantStoreTypeOK
  <2> QED BY <2>1 DEF WithoutRequest, Panel
<1> HIDE DEF v
<1>4. /\ ui' = Back(k, v) /\ tasks[k] \in Task
  BY <1>1, Typed DEF v
<1>5. SamePanel
  BY <1>3, <1>4, BackIs DEF SamePanel
<1>6. ~Excused' => ~Excused
  BY <1>1, <1>2, <1>5, StillExcused DEF SamePanel, Is
<1>7. SameThread
  BY <1>5 DEF SameThread, Fresh, SamePanel
<1>8. ASSUME NEW j \in Slots, Busy(j)' PROVE Steady(j)
  <2>1. j # k
    BY <1>2, <1>8, NoTaskIs DEF Busy
  <2> QED BY <1>2, <2>1 DEF Steady
<1> QED BY <1>5, <1>6, <1>7, <1>8, SteadyContent

LEMMA OutcomesContent ==
  ASSUME Control, Control', Content, NEW k \in Slots, Prepared(k) \/ Stopped(k) \/ Refused(k) \/ Lost(k)
  PROVE  Content'
<1>1. tasks[k].kind = "send" /\ tasks[k] \in Task
  BY Typed DEF Prepared, Stopped, Refused, Lost, Is
<1>2. UNCHANGED <<thread, turn, stranded>>
  BY DEF Prepared, Stopped, Refused, Lost, server
<1>3. CASE Prepared(k) /\ tasks[k].current /\ ~tasks[k].aborted
  <2> DEFINE t == [tasks[k] EXCEPT !.stage = "ask"]
  <2>1. t.kind = "send" /\ t.current /\ t.stage = "ask"
    BY <1>1, <1>3 DEF Task
  <2>2. tasks' = [tasks EXCEPT ![k] = t] /\ ui' = ui /\ missed' = missed /\ tasks[k].stage = "prepare"
    BY <1>3 DEF Prepared, Is
  <2> HIDE DEF t
  <2>3. tasks'[k] = t /\ Neighbours(k) /\ \A j \in Slots \ {k} : Same(j)
    BY <2>2, OneMoves
  <2>4. ~Excused' => ~Excused
    BY <1>1, <1>2, <2>2, <2>3, StillExcused DEF Is
  <2>5. SamePanel /\ SameThread
    BY <1>2, <2>2 DEF SamePanel, SameThread, Fresh
  <2>6. ASSUME ~Excused' PROVE Answered(k)' /\ Sent(k)'
    <3>1. Sent(k) /\ (Sends(k) <=> TRUE)
      BY <1>1, <1>3, <2>4, <2>6 DEF Content, Sends
    <3>2. ui.loaded => Fresh /\ Told(Before(ui.screen)) = thread[ui.build]
      BY <2>2, <3>1 DEF Sent, Early
    <3>3. ui'.loaded => Fresh' /\ Told(Before(ui'.screen)) = thread'[ui'.build]
      BY <1>2, <2>2, <3>2 DEF Fresh
    <3>4. Answered(k)'
      BY <2>1, <2>3 DEF Answered
    <3>5. Sent(k)'
      BY <2>1, <2>3, <3>3 DEF Sent
    <3> QED BY <3>4, <3>5
  <2>7. \A j \in Slots \ {k} : Steady(j)
    BY <1>2, <2>3 DEF Steady
  <2> QED BY <2>4, <2>5, <2>6, <2>7, SteadyContent
<1>4. CASE ~tasks[k].current
  <2>1. PICK ending : SendOver(k, ui, ending)
    BY <1>4 DEF Prepared, Stopped, Refused, Lost
  <2> QED BY <1>1, <1>2, <1>4, <2>1, GoneContent
<1>5. CASE tasks[k].current /\ ~(Prepared(k) /\ tasks[k].current /\ ~tasks[k].aborted)
  <2>1. Sends(k)
    BY <1>1, <1>5 DEF Sends
  <2>2. ui.screen # <<>> /\ LikeIt(ui) /\ ui \in Panel
    BY <2>1, NewestStays
  <2>3. CASE Prepared(k) \/ Stopped(k)
    <3>1. SendOver(k, ui, "stopped")
      BY <1>5, <2>3 DEF Prepared, Stopped
    <3> QED BY <1>2, <2>1, <2>2, <3>1, SendGoesOnContent
  <2>4. CASE Lost(k)
    <3>1. SendOver(k, Mark(ui, "error"), "lost")
      BY <1>5, <2>4 DEF Lost
    <3>2. LikeIt(Mark(ui, "error"))
      BY <2>2, MarkIs DEF LikeIt
    <3> QED BY <1>2, <2>1, <3>1, <3>2, SendGoesOnContent
  <2>5. CASE Refused(k)
    <3> DEFINE full == ui.full \/ tasks[k].stage = "full"
               v == [ui EXCEPT !.full = full]
               u == Mark(v, "refused")
    <3>1. full \in BOOLEAN
      OBVIOUS
    <3>2. v = [ui EXCEPT !.full = @ \/ tasks[k].stage = "full"]
      BY <2>2 DEF Panel
    <3> HIDE DEF full
    <3>3. LikeIt(v) /\ v \in Panel /\ v.screen = ui.screen /\ v.build = ui.build /\ v.loaded = ui.loaded
      <4>1. v.loaded = ui.loaded
        BY <2>2 DEF Panel
      <4> QED BY <2>2, <3>1, <4>1, FullIs
    <3> HIDE DEF v
    <3>4. SendOver(k, u, "refused")
      BY <1>5, <2>5, <3>2 DEF Refused
    <3>5. v.screen # <<>> /\ \A i \in DOMAIN v.screen : v.screen[i].of = v.build
      BY <2>2, <3>3 DEF LikeIt
    <3>6. /\ u \in Panel /\ u.build = v.build /\ u.loaded = v.loaded
          /\ u.screen # <<>> /\ Before(u.screen) = Before(v.screen)
          /\ Newest(u.screen) = [Newest(v.screen) EXCEPT !.mark = "refused"]
          /\ \A i \in DOMAIN u.screen : u.screen[i].of = u.build
      BY <3>3, <3>5, MarkIs
    <3> HIDE DEF u
    <3>7. LikeIt(u)
      BY <3>3, <3>6 DEF LikeIt
    <3>8. Told(u.screen) = Told(Before(ui.screen))
      <4>1. u.screen \in Seq(Entry) /\ v.screen \in Seq(Entry)
        BY <3>3, <3>6, PanelFields
      <4>2. Newest(v.screen) \in Entry
        BY <3>5, <4>1, BeforeIs
      <4>3. Newest(u.screen).mark = "refused"
        BY <3>6, <4>2 DEF Entry
      <4>4. Told(u.screen) = WithEntry(Told(Before(u.screen)), Newest(u.screen))
        BY <3>6, <4>1, ToldLast
      <4>5. Before(u.screen) = Before(ui.screen)
        BY <3>3, <3>6
      <4> QED BY <4>3, <4>4, <4>5 DEF WithEntry, Counts
    <3>9. ASSUME ~Excused' PROVE Holds(u)
      <4>1. ~Excused
        BY <1>2, <2>1, <3>4, <3>7, <3>9, SendOverStill
      <4>2. Sent(k) /\ tasks[k].stage \in Early
        BY <2>5, <4>1 DEF Content, Refused, Early
      <4>3. ui.loaded => Fresh /\ Told(Before(ui.screen)) = thread[ui.build]
        BY <2>1, <4>2 DEF Sent
      <4> QED BY <3>3, <3>6, <3>8, <4>3 DEF Holds
    <3> QED BY <1>2, <2>1, <3>4, <3>7, <3>9, SendGoesOnContent
  <2> QED BY <1>5, <2>3, <2>4, <2>5
<1> QED BY <1>3, <1>4, <1>5

\* At the end of its stream a message and its reply are on the screen as they are stored.
LEMMA StreamTold ==
  ASSUME Control, Content, ~Excused, NEW k \in Slots, Sends(k), tasks[k].stage = "stream",
         turn.client # k, Closed(tasks[k].wire) = 1, Pieces(tasks[k].wire) = 0,
         NEW u, u \in Panel, u.loaded = ui.loaded, u.screen # <<>>, Before(u.screen) = Before(ui.screen),
         Newest(u.screen).what = Newest(ui.screen).what,
         Newest(u.screen).parts = Newest(ui.screen).parts, Newest(u.screen).mark # "refused"
  PROVE  Holds(u)
<1>1. SUFFICES ASSUME u.loaded PROVE Fresh /\ Told(u.screen) = thread[ui.build]
  BY DEF Holds
<1>2. Sent(k) /\ OnTop(k) /\ Sound(k) /\ tasks[k].kind = "send"
  BY DEF Content, Control, Sends
<1>3. tasks[k].what \in Messages /\ tasks[k].what # None
  BY <1>2 DEF Sound
<1> DEFINE p == Newest(ui.screen).parts
<1>4. /\ Fresh
      /\ thread[ui.build] = Append(Told(Before(ui.screen)), [what |-> tasks[k].what, parts |-> p + Pieces(tasks[k].wire)])
      /\ Newest(ui.screen).what = tasks[k].what /\ ui.screen # <<>>
  BY <1>1, <1>2 DEF Sent, OnTop
<1>5. p \in Nat
  <2>1. ui.screen \in Seq(Entry)
    BY Typed, PanelFields
  <2>2. Newest(ui.screen) \in Entry
    BY <1>4, <2>1, BeforeIs
  <2>3. Newest(ui.screen).parts \in 0 .. MaxPieces
    BY <2>2 DEF Entry
  <2> QED BY <2>3
<1> HIDE DEF p
<1>6. p + Pieces(tasks[k].wire) = p
  BY <1>5
<1>7. u.screen \in Seq(Entry)
  BY PanelFields
<1>8. Told(u.screen) = WithEntry(Told(Before(ui.screen)), Newest(u.screen))
  BY <1>7, ToldLast
<1>9. Newest(u.screen).what = tasks[k].what /\ Newest(u.screen).parts = p
  BY <1>4 DEF p
<1>10. WithEntry(Told(Before(ui.screen)), Newest(u.screen))
         = Append(Told(Before(ui.screen)), [what |-> tasks[k].what, parts |-> p])
  BY <1>3, <1>9 DEF WithEntry, Counts, RowOf
<1>11. thread[ui.build] = Append(Told(Before(ui.screen)), [what |-> tasks[k].what, parts |-> p])
  BY <1>4, <1>6
<1> QED BY <1>4, <1>8, <1>10, <1>11

LEMMA EventContent ==
  ASSUME Control, Control', Content, NEW k \in Slots, Event(k)
  PROVE  Content'
<1> DEFINE wire == tasks[k].wire
<1>1. /\ tasks[k].kind = "send" /\ tasks[k].stage = "stream" /\ wire # <<>>
      /\ tasks[k] \in Task /\ OnTop(k) /\ wire \in Seq(Events)
  <2>1. tasks[k].kind = "send" /\ tasks[k].stage = "stream" /\ wire # <<>>
    BY DEF Event, Is
  <2> QED BY <2>1, Typed, TaskFields DEF Control
<1>2. UNCHANGED <<thread, stranded>>
  BY DEF Event
<1>3. CASE ~tasks[k].current
  <2>1. /\ SendOver(k, ui, "stopped")
        /\ turn' = IF turn.client = k THEN [turn EXCEPT !.client = OtherTab] ELSE turn
    BY <1>3 DEF Event
  <2>2. turn'.build = turn.build /\ (turn' = turn \/ (turn.client = k /\ turn'.client \notin Slots))
    <3>1. CASE turn.client = k
      BY <2>1, <3>1, SlotsAre, TurnFields DEF Turn
    <3>2. CASE turn.client # k
      BY <2>1, <3>2
    <3> QED BY <3>1, <3>2
  <2> HIDE DEF wire
  <2> QED BY <1>1, <1>2, <1>3, <2>1, <2>2, GoneContent
<1>4. CASE tasks[k].current
  <2>1. Sends(k) /\ turn' = turn
    BY <1>1, <1>4 DEF Sends, Event
  <2>2. ui.screen # <<>> /\ LikeIt(ui) /\ ui \in Panel /\ InOrder(wire)
        /\ \A i \in DOMAIN ui.screen : ui.screen[i].of = ui.build
    BY <1>1, <2>1, NewestStays DEF OnTop, LikeIt
  <2> DEFINE event == Head(wire)
             t == Taken(tasks[k])
             rest == Tail(wire)
  <2>3. /\ t \in Task /\ t.kind = "send" /\ t.stage = "stream" /\ t.current /\ t.build = tasks[k].build
        /\ t.what = tasks[k].what /\ t.aborted = tasks[k].aborted /\ t.wire = rest
    BY <1>1, <1>4, TakenIs
  <2>4. /\ event \in Events /\ rest \in Seq(Events)
        /\ event \in {"start", "piece"} => Closed(rest) = Closed(wire)
        /\ event = "start" => Pieces(rest) = Pieces(wire)
        /\ event = "piece" => Pieces(rest) = Pieces(wire) - 1
        /\ event \in Ending => Closed(wire) = 1 /\ Pieces(wire) = 0
    BY <1>1, <2>2, WireIsRead
  <2>5. /\ event = "start" => tasks' = [tasks EXCEPT ![k] = t] /\ UNCHANGED <<ui, missed>>
        /\ event = "piece" => tasks' = [tasks EXCEPT ![k] = t] /\ ui' = WithPiece(ui) /\ missed' = missed
        /\ event = "error" => SendOver(k, Mark(ui, "error"), "error")
        /\ event \in {"done", "full"} => SendOver(k, [ui EXCEPT !.full = @ \/ event = "full"], "done")
    <3>1. [tasks EXCEPT ![k].wire = Tail(@), ![k].accepted = TRUE] = [tasks EXCEPT ![k] = t]
      <4>1. tasks \in [Slots -> Task]
        BY Typed
      <4> QED BY <4>1 DEF Taken
    <3> HIDE DEF t
    <3> QED BY <1>4, <3>1 DEF Event, WithPiece
  <2>0. wire = tasks[k].wire
    OBVIOUS
  <2> HIDE DEF t, event, rest, wire
  <2>6. CASE event \in Ending
    <3>1. Closed(wire) = 1 /\ Pieces(wire) = 0 /\ turn.client # k
      <4>1. turn.client = k => Closed(wire) = 0
        BY <1>1, <2>0, <2>1 DEF OnTop
      <4> QED BY <2>4, <2>6, <4>1
    <3>2. Newest(ui.screen) \in Entry
      <4>1. ui.screen \in Seq(Entry)
        BY <2>2, PanelFields
      <4> QED BY <2>2, <4>1, BeforeIs
    <3>3. Newest(ui.screen).mark = ""
      BY <1>1, <2>1 DEF OnTop
    <3>4. PICK u, ending :
            /\ SendOver(k, u, ending) /\ LikeIt(u) /\ u \in Panel /\ u.loaded = ui.loaded /\ u.screen # <<>>
            /\ Before(u.screen) = Before(ui.screen) /\ Newest(u.screen).what = Newest(ui.screen).what
            /\ Newest(u.screen).parts = Newest(ui.screen).parts /\ Newest(u.screen).mark # "refused"
      <4>1. CASE event = "error"
        <5> DEFINE v == Mark(ui, "error")
        <5>1. /\ v \in Panel /\ v.build = ui.build /\ v.loaded = ui.loaded /\ v.screen # <<>>
              /\ Before(v.screen) = Before(ui.screen)
              /\ Newest(v.screen) = [Newest(ui.screen) EXCEPT !.mark = "error"]
              /\ \A i \in DOMAIN v.screen : v.screen[i].of = ui.build
          BY <2>2, MarkIs
        <5>2. SendOver(k, v, "error")
          BY <2>5, <4>1
        <5> HIDE DEF v
        <5>3. /\ Newest(v.screen).what = Newest(ui.screen).what
              /\ Newest(v.screen).parts = Newest(ui.screen).parts /\ Newest(v.screen).mark = "error"
          BY <3>2, <5>1 DEF Entry
        <5>4. LikeIt(v)
          BY <5>1 DEF LikeIt
        <5> QED BY <5>1, <5>2, <5>3, <5>4
      <4>2. CASE event \in {"done", "full"}
        <5> DEFINE full == ui.full \/ event = "full"
                   v == [ui EXCEPT !.full = full]
        <5>1. full \in BOOLEAN
          OBVIOUS
        <5>2. v = [ui EXCEPT !.full = @ \/ event = "full"]
          BY <2>2 DEF Panel
        <5> HIDE DEF full
        <5>3. LikeIt(v) /\ v \in Panel /\ v.screen = ui.screen
          BY <2>2, <5>1, FullIs
        <5>4. v.loaded = ui.loaded
          BY <2>2 DEF Panel
        <5>5. SendOver(k, v, "done")
          BY <2>5, <4>2, <5>2
        <5> HIDE DEF v
        <5> QED BY <2>2, <3>3, <5>3, <5>4, <5>5
      <4> QED BY <2>6, <4>1, <4>2 DEF Ending
    <3>5. ASSUME ~Excused' PROVE Holds(u)
      <4>1. ~Excused
        BY <1>2, <2>1, <3>4, <3>5, SendOverStill
      <4> QED BY <1>1, <2>0, <2>1, <3>1, <3>4, <4>1, StreamTold
    <3> QED BY <1>2, <2>1, <3>4, <3>5, SendGoesOnContent
  <2>7. CASE event \in {"start", "piece"}
    <3>1. tasks' = [tasks EXCEPT ![k] = t] /\ missed' = missed
      BY <2>5, <2>7
    <3>2. tasks'[k] = t /\ Neighbours(k)
      BY <3>1, OneMoves
    <3>3. Pieces(rest) \in Nat /\ Pieces(wire) \in Nat
      BY <1>1, <2>4, PiecesAre
    <3>4. Newest(ui.screen).parts \in 0 .. MaxPieces
      <4>1. ui.screen \in Seq(Entry)
        BY <2>2, PanelFields
      <4>2. Newest(ui.screen) \in Entry
        BY <2>2, <4>1, BeforeIs
      <4> QED BY <4>2 DEF Entry
    <3>5. /\ ui'.build = ui.build /\ ui'.loaded = ui.loaded /\ Before(ui'.screen) = Before(ui.screen)
          /\ Newest(ui'.screen).parts + Pieces(rest) = Newest(ui.screen).parts + Pieces(wire)
      <4>1. CASE event = "start"
        BY <2>4, <2>5, <4>1
      <4>2. CASE event = "piece"
        <5>1. ui' = WithPiece(ui) /\ Pieces(rest) = Pieces(wire) - 1
          BY <2>4, <2>5, <4>2
        <5>2. Newest(ui.screen).parts + Pieces(wire) <= MaxPieces
          <6> DEFINE said == Newest(ui.screen).parts + Pieces(wire)
          <6>1. CASE turn.client = k
            <7>1. said = turn.said
              BY <1>1, <2>0, <2>1, <6>1 DEF OnTop
            <7> HIDE DEF said
            <7>2. said <= MaxPieces
              BY <7>1, TurnFields
            <7> QED BY <7>2 DEF said
          <6>2. CASE turn.client # k
            BY <1>1, <2>0, <2>1, <6>2 DEF OnTop
          <6> QED BY <6>1, <6>2
        <5>3. Newest(ui.screen).parts + 1 \in 0 .. MaxPieces
          BY <3>3, <3>4, <5>1, <5>2
        <5>4. /\ ui'.build = ui.build /\ ui'.loaded = ui.loaded /\ Before(ui'.screen) = Before(ui.screen)
              /\ Newest(ui'.screen).parts = Newest(ui.screen).parts + 1
          BY <2>2, <5>1, <5>3, PieceIs
        <5> QED BY <3>3, <3>4, <5>1, <5>4
      <4> QED BY <2>7, <4>1, <4>2
    <3>6. Busy(k)'
      BY <2>3, <3>2 DEF Busy
    <3>7. ASSUME ~Excused' PROVE Answered(k)' /\ Sent(k)'
      <4>1. ~Excused
        BY <1>1, <1>2, <3>1, <3>2, <3>5, <3>7, StillExcused DEF Is
      <4>2. Sent(k)
        BY <4>1 DEF Content
      <4>3. Answered(k)'
        BY <2>3, <3>2 DEF Answered
      <4>4. /\ tasks'[k].stage = "stream" /\ tasks'[k].what = tasks[k].what /\ tasks'[k].wire = rest
        BY <2>3, <3>2
      <4>5. Closed(rest) = Closed(wire)
        BY <2>4, <2>7
      <4>6. thread' = thread /\ turn' = turn /\ (Fresh' <=> Fresh)
        BY <1>2, <2>1, <3>5 DEF Fresh
      <4>7. SUFFICES ASSUME ui'.loaded PROVE Sent(k)'
        BY <4>3 DEF Sent
      <4>8. /\ turn.client = k /\ ~turn.stored => Told(Before(ui.screen)) = thread[ui.build]
            /\ turn.client = k /\ turn.stored =>
                 \E p \in 0 .. turn.said :
                   thread[ui.build] = Append(Told(Before(ui.screen)), [what |-> tasks[k].what, parts |-> p])
            /\ turn.client # k /\ Closed(wire) = 1 =>
                 /\ Fresh
                 /\ thread[ui.build] =
                      Append(Told(Before(ui.screen)),
                             [what |-> tasks[k].what, parts |-> Newest(ui.screen).parts + Pieces(wire)])
        BY <1>1, <2>0, <2>1, <3>5, <4>2, <4>7 DEF Sent
      <4> QED BY <3>5, <4>4, <4>5, <4>6, <4>8 DEF Sent, Early
    <3> QED BY <3>6, <3>7, OneContent
  <2>8. event \in {"start", "piece"} \cup Ending
    BY <2>4 DEF Events, Ending
  <2> QED BY <2>6, <2>7, <2>8
<1> QED BY <1>3, <1>4

\* Nothing is to be known of a screen that is excused.
LEMMA ExcusedContent ==
  ASSUME missed' # {} \/ stranded'
  PROVE  Content'
  BY DEF Content, Excused

LEMMA DepartsContent ==
  ASSUME Control, Control', Content, NEW k \in Slots, ~Busy(k), Ends(k),
         ~Is(k, "clear", "told") \/ tasks[k].build # ui.build,
         UNCHANGED <<ui, thread, turn, missed, stranded>>
  PROVE  Content'
<1>1. tasks' = [tasks EXCEPT ![k] = NoTask]
  BY DEF Ends
<1>2. tasks'[k] = NoTask /\ Neighbours(k) /\ \A j \in Slots \ {k} : Same(j)
  BY <1>1, OneMoves
<1>3. ~Excused' => ~Excused
  BY <1>2, StillExcused
<1>4. SamePanel /\ SameThread
  BY DEF SamePanel, SameThread, Fresh
<1>5. \A j \in Slots : Busy(j)' => Steady(j)
  BY <1>2, NoTaskIs DEF Busy, Steady
<1> QED BY <1>3, <1>4, <1>5, SteadyContent

\* What a load or a follower was told last, once no turn runs.
LEMMA ToldLatest ==
  ASSUME Control, Content, NEW k \in Slots, tasks[k].current, tasks[k].kind \in {"load", "follow"},
         tasks[k].stage = "told", ~tasks[k].answer.running, UpToDate(k), Neighbours(k),
         stranded' = stranded, ui'.build = ui.build, ~Excused'
  PROVE  Fresh /\ tasks[k].answer.rows = thread[ui.build]
<1>1. tasks[k].build = ui.build
  BY DEF Control, Sound
<1>2. missed' = {}
  BY DEF Excused
<1>3. CASE ~Behind(k)
  BY <1>1, <1>3 DEF Behind, Fresh
<1>4. CASE Behind(k)
  <2>1. missed = {}
    BY <1>2, <1>4 DEF UpToDate
  <2>2. ~Excused
    BY <2>1, StillExcused DEF Is
  <2>3. Answered(k)
    BY <2>2 DEF Content
  <2> QED BY <2>3 DEF Answered
<1> QED BY <1>3, <1>4

\* A follower that has not been told yet.
LEMMA FollowsContent ==
  ASSUME Control, Control', NEW k \in Slots, tasks'[k].kind = "follow", tasks'[k].current,
         tasks'[k].stage \in {"wait", "ask"}
  PROVE  Content'
<1>1. Busy(k)'
  BY DEF Busy
<1>2. Answered(k)' /\ Sent(k)'
  BY DEF Answered, Sent, Sends
<1> QED BY <1>1, <1>2, OneContent

LEMMA LoadedContent ==
  ASSUME Control, Control', Content, NEW k \in Slots, Loaded(k) \/ LoadFails(k)
  PROVE  Content'
<1>1. tasks[k].kind = "load" /\ ui \in Panel
  BY DEF Loaded, LoadFails, Is, Control, AssistantStoreTypeOK
<1>2. UNCHANGED <<thread, turn, stranded>>
  BY DEF Loaded, LoadFails, server
<1>3. CASE ~tasks[k].current
  <2>1. Ends(k) /\ UNCHANGED <<ui, missed>> /\ ~Busy(k) /\ ~Is(k, "clear", "told")
    BY <1>1, <1>3 DEF Loaded, LoadFails, Busy, Is
  <2> QED BY <1>2, <2>1, DepartsContent
<1>4. CASE tasks[k].current
  <2>1. Busy(k) /\ tasks[k].build = ui.build /\ ui.build \in Builds
    BY <1>1, <1>4, OneIsBusy DEF Busy
  <2>2. CASE Loaded(k)
    <3> DEFINE u == Replaced(k)
    <3>1. u \in Panel /\ LikeIt(u) /\ Told(u.screen) = tasks[k].answer.rows /\ u.build = ui.build
      BY <2>1, ReplacedIs
    <3>2. /\ ui' = [u EXCEPT !.loaded = TRUE,
                             !.status = IF tasks[k].answer.running THEN "following" ELSE "idle"]
          /\ IF tasks[k].answer.running THEN tasks' = [tasks EXCEPT ![k] = Follow(k, "wait")] ELSE Ends(k)
          /\ UpToDate(k) /\ tasks[k].stage = "told"
      BY <1>4, <2>2 DEF Loaded, Is
    <3> HIDE DEF u
    <3>3. /\ ui'.build = u.build /\ ui'.screen = u.screen /\ ui'.loaded
          /\ ui'.status = IF tasks[k].answer.running THEN "following" ELSE "idle"
      BY <3>1, <3>2 DEF Panel
    <3>4. CASE tasks[k].answer.running
      <4> DEFINE t == Following(k, "wait", "lost")
      <4>0. "wait" \in Stages /\ "lost" \in {"done", "error", "lost"}
        BY DEF Stages
      <4>1. t.kind = "follow" /\ t.current /\ t.stage = "wait"
        BY <2>1, <4>0, FollowIs
      <4>2. tasks' = [tasks EXCEPT ![k] = t]
        BY <2>1, <3>2, <3>4, PlainFollow DEF Stages
      <4> HIDE DEF t
      <4>3. tasks'[k] = t
        BY <4>2, OneMoves
      <4> QED BY <4>1, <4>3, FollowsContent
    <3>5. CASE ~tasks[k].answer.running
      <4>1. tasks' = [tasks EXCEPT ![k] = NoTask]
        BY <3>2, <3>5 DEF Ends
      <4>2. Neighbours(k)
        BY <4>1, OneMoves
      <4>3. ASSUME ~Excused' PROVE Resting'
        <5>1. Fresh /\ tasks[k].answer.rows = thread[ui.build]
          BY <1>1, <1>2, <1>4, <3>1, <3>2, <3>3, <3>5, <4>2, <4>3, ToldLatest
        <5> QED BY <1>2, <3>1, <3>3, <5>1 DEF Resting, Fresh
      <4>4. ui'.status = "idle"
        BY <3>3, <3>5
      <4> QED BY <4>3, <4>4, NobodyContent
    <3> QED BY <3>4, <3>5
  <2>3. CASE LoadFails(k)
    <3>1. ui' = [ui EXCEPT !.status = "idle", !.error = TRUE] /\ missed' = missed
          /\ tasks' = [tasks EXCEPT ![k] = NoTask]
      BY <1>4, <2>3 DEF LoadFails, Ends
    <3>2. ui'.build = ui.build /\ ui'.loaded = ui.loaded /\ ui'.status = "idle"
      BY <1>1, <3>1 DEF Panel
    <3>3. Neighbours(k)
      BY <3>1, OneMoves
    <3>4. ASSUME ~Excused' PROVE Resting'
      <4>1. ~Excused
        BY <1>1, <1>2, <3>1, <3>2, <3>3, <3>4, StillExcused DEF Is
      <4>2. Answered(k)
        BY <4>1 DEF Content
      <4>3. ~ui.loaded
        BY <1>1, <1>4, <4>2 DEF Answered
      <4> QED BY <3>2, <4>3 DEF Resting
    <3> QED BY <3>2, <3>4, NobodyContent
  <2> QED BY <2>2, <2>3
<1> QED BY <1>3, <1>4

LEMMA RefreshedContent ==
  ASSUME Control, Control', Content, NEW k \in Slots,
         Refreshed(k) \/ (Is(k, "refresh", "failed") /\ Ends(k)
                          /\ UNCHANGED <<ui, server, failures, missed, stranded>>)
  PROVE  Content'
<1>1. tasks[k].kind = "refresh" /\ ~Busy(k) /\ ~Is(k, "clear", "told")
  BY DEF Refreshed, Is, Busy
<1>2. UNCHANGED <<thread, turn, stranded>>
  BY DEF Refreshed, server
<1>3. CASE Ends(k) /\ UNCHANGED <<ui, missed>>
  BY <1>1, <1>2, <1>3, DepartsContent
<1>4. CASE Refreshed(k) /\ tasks[k].current /\ ui.status = "idle"
  <2>1. tasks[k].build = ui.build /\ ui.build \in Builds
    BY <1>1, <1>4 DEF Control, Sound
  <2> DEFINE u == Replaced(k)
             running == tasks[k].answer.running
  <2>2. u \in Panel /\ u.build = ui.build /\ u.status = "idle" /\ Told(u.screen) = tasks[k].answer.rows
    BY <1>4, <2>1, ReplacedIs
  <2>3. /\ ui' = [u EXCEPT !.status = IF running THEN "following" ELSE @]
        /\ IF running THEN tasks' = [Stale(tasks) EXCEPT ![k] = Follow(k, "wait")] ELSE Ends(k)
        /\ missed' = IF Behind(k) THEN missed \cup {"elsewhere"} ELSE {}
    BY <1>4 DEF Refreshed
  <2> HIDE DEF u, running
  <2>4. /\ ui'.build = u.build /\ ui'.screen = u.screen /\ ui'.loaded = u.loaded
        /\ ui'.status = IF running THEN "following" ELSE "idle"
    BY <2>2, <2>3 DEF Panel
  <2>5. CASE running
    <3> DEFINE t == Following(k, "wait", "lost")
    <3>0. "wait" \in Stages /\ "lost" \in {"done", "error", "lost"}
      BY DEF Stages
    <3>1. t.kind = "follow" /\ t.current /\ t.stage = "wait"
      BY <2>1, <3>0, FollowIs
    <3>2. tasks' = [Stale(tasks) EXCEPT ![k] = t]
      BY <2>1, <2>3, <2>5, PlainFollow DEF Stages
    <3> HIDE DEF t
    <3>3. Stale(tasks) \in [Slots -> Task]
      BY Typed, StaleIs
    <3>4. tasks'[k] = t
      BY <3>2, <3>3
    <3> QED BY <3>1, <3>4, FollowsContent
  <2>6. CASE ~running
    <3>1. ui'.status = "idle"
      BY <2>4, <2>6
    <3>2. ASSUME ~Excused' PROVE Resting'
      <4>1. ~Behind(k)
        BY <2>3, <3>2 DEF Excused
      <4>2. tasks[k].answer.rows = thread[ui.build] /\ Fresh
        BY <2>1, <4>1 DEF Behind, Fresh
      <4> QED BY <1>2, <2>2, <2>4, <4>2 DEF Resting, Fresh
    <3> QED BY <3>1, <3>2, NobodyContent
  <2> QED BY <2>5, <2>6
<1> QED BY <1>3, <1>4 DEF Refreshed

LEMMA WaitContent ==
  ASSUME Control, Control', Content, NEW k \in Slots, Wait(k)
  PROVE  Content'
<1>1. tasks[k].kind = "follow" /\ tasks[k] \in Task /\ UNCHANGED <<ui, thread, turn, missed, stranded>>
  BY Typed DEF Wait, Is, server
<1>2. CASE ~tasks[k].current
  <2>1. Ends(k) /\ ~Busy(k) /\ ~Is(k, "clear", "told")
    BY <1>1, <1>2 DEF Wait, Busy, Is
  <2> QED BY <1>1, <2>1, DepartsContent
<1>3. CASE tasks[k].current
  <2> DEFINE t == [tasks[k] EXCEPT !.stage = "ask", !.answer = NoAnswer]
  <2>1. t.kind = "follow" /\ t.current /\ t.stage = "ask"
    BY <1>1, <1>3 DEF Task
  <2>2. tasks' = [tasks EXCEPT ![k] = t]
    BY <1>3 DEF Wait
  <2> HIDE DEF t
  <2>3. tasks'[k] = t
    BY <2>2, OneMoves
  <2> QED BY <2>1, <2>3, FollowsContent
<1> QED BY <1>2, <1>3

LEMMA ReconciledContent ==
  ASSUME Control, Control', Content, NEW k \in Slots, Reconciled(k) \/ GivesUp(k)
  PROVE  Content'
<1>1. tasks[k].kind = "follow" /\ tasks[k] \in Task
  BY Typed DEF Reconciled, GivesUp, Is
<1>2. UNCHANGED <<thread, turn, stranded>>
  BY DEF Reconciled, GivesUp, server
<1>3. CASE ~tasks[k].current
  <2>1. Ends(k) /\ UNCHANGED <<ui, missed>> /\ ~Busy(k) /\ ~Is(k, "clear", "told")
    BY <1>1, <1>3 DEF Reconciled, GivesUp, Busy, Is
  <2> QED BY <1>2, <2>1, DepartsContent
<1>4. CASE tasks[k].current
  <2>1. Busy(k) /\ tasks[k].build = ui.build /\ ui.build \in Builds
    BY <1>1, <1>4, OneIsBusy DEF Busy
  <2>2. Read(k) \in Panel /\ LikeIt(Read(k)) /\ Told(Read(k).screen) = tasks[k].answer.rows
    BY <2>1, ReadIs
  <2>3. CASE Reconciled(k) /\ tasks[k].answer.running /\ ui' = Read(k)
    <3> DEFINE t == [tasks[k] EXCEPT !.stage = "wait"]
    <3>1. t.kind = "follow" /\ t.current /\ t.stage = "wait"
      BY <1>1, <1>4 DEF Task
    <3>2. tasks' = [tasks EXCEPT ![k] = t]
      BY <1>4, <2>3 DEF Reconciled
    <3> HIDE DEF t
    <3>3. tasks'[k] = t
      BY <3>2, OneMoves
    <3> QED BY <3>1, <3>3, FollowsContent
  <2>4. CASE Reconciled(k) /\ ~tasks[k].answer.running /\ Finish(k, Read(k)) /\ UpToDate(k)
    <3>1. tasks[k].stage = "told"
      BY <2>4 DEF Reconciled, Is
    <3>2. Neighbours(k) /\ ui'.build = ui.build
      BY <2>1, <2>2, <2>4, FinishOthers, FinishPlace
    <3>3. ASSUME ~Excused' PROVE Holds(Read(k))
      <4>1. Fresh /\ tasks[k].answer.rows = thread[ui.build]
        BY <1>1, <1>2, <1>4, <2>4, <3>1, <3>2, <3>3, ToldLatest
      <4> QED BY <2>2, <4>1 DEF Holds
    <3> QED BY <1>2, <2>1, <2>2, <2>4, <3>3, FinishContent
  <2>5. CASE GivesUp(k)
    <3>1. missed' = missed \cup {"unread"}
      BY <1>4, <2>5 DEF GivesUp
    <3>2. missed' # {}
      BY <3>1
    <3> QED BY <3>2, ExcusedContent
  <2>6. Reconciled(k) => \/ tasks[k].answer.running /\ ui' = Read(k)
                         \/ ~tasks[k].answer.running /\ Finish(k, Read(k)) /\ UpToDate(k)
    BY <1>4 DEF Reconciled, Read
  <2> QED BY <2>3, <2>4, <2>5, <2>6
<1> QED BY <1>3, <1>4

LEMMA ClearedContent ==
  ASSUME Control, Control', Content, NEW k \in Slots, Cleared(k)
  PROVE  Content'
<1>1. tasks[k].kind = "clear" /\ ~Busy(k) /\ UNCHANGED <<thread, turn>>
  BY DEF Cleared, Busy, server
<1>2. CASE tasks[k].stage # "told" \/ ui.build # tasks[k].build
  <2>1. Ends(k) /\ UNCHANGED <<ui, missed, stranded>>
    BY <1>2 DEF Cleared
  <2>2. ~Is(k, "clear", "told") \/ tasks[k].build # ui.build
    BY <1>2 DEF Is
  <2> QED BY <1>1, <2>1, <2>2, DepartsContent
<1>3. CASE ~(tasks[k].stage # "told" \/ ui.build # tasks[k].build)
  <2>1. /\ ui' = [ui EXCEPT !.screen = <<>>, !.full = FALSE, !.error = FALSE, !.loaded = TRUE]
        /\ missed' = IF thread[ui.build] # <<>> \/ turn.build = ui.build
                     THEN missed \cup {"wiped"} ELSE {}
        /\ stranded' = (stranded \/ ui.status # "idle")
    BY <1>3 DEF Cleared
  <2>2. ui'.build = ui.build /\ ui'.screen = <<>> /\ ui'.status = ui.status
    <3>1. ui \in Panel
      BY DEF Control, AssistantStoreTypeOK
    <3> QED BY <2>1, <3>1 DEF Panel
  <2>3. CASE stranded'
    BY <2>3, ExcusedContent
  <2>4. CASE ~stranded'
    <3>1. ui'.status = "idle"
      BY <2>1, <2>2, <2>4
    <3>2. ASSUME ~Excused' PROVE Resting'
      <4>1. missed' = {}
        BY <3>2 DEF Excused
      <4>2. thread[ui.build] = <<>> /\ Fresh
        BY <2>1, <4>1 DEF Fresh
      <4>3. Told(ui'.screen) = <<>>
        BY <2>2, ToldNothing
      <4> QED BY <1>1, <2>2, <4>2, <4>3 DEF Resting, Fresh
    <3> QED BY <3>1, <3>2, NobodyContent
  <2> QED BY <2>3, <2>4
<1> QED BY <1>2, <1>3

LEMMA LoadContent ==
  ASSUME Control, Control', NEW b \in Builds, Load(b)
  PROVE  Content'
<1>1. PICK k \in Slots : k = FreeSlot
  BY FreeSlotIs DEF Load
<1> DEFINE all == Aborted(tasks, ui.controller)
           t == [NoTask EXCEPT !.kind = "load", !.stage = "ask", !.build = b, !.current = TRUE]
<1>2. tasks' = [Stale(all) EXCEPT ![k] = t] /\ ~ui'.loaded
  BY <1>1 DEF Load
<1>3. t.kind = "load" /\ t.stage = "ask" /\ t.current
  BY DEF NoTask
<1> HIDE DEF t
<1>4. Stale(all) \in [Slots -> Task]
  <2>1. tasks \in [Slots -> Task]
    BY Typed
  <2>2. all \in [Slots -> Task]
    BY <1>1, <2>1, AbortedIs
  <2> HIDE DEF all
  <2> QED BY <1>1, <2>2, StaleIs
<1> HIDE DEF all
<1>5. tasks'[k] = t
  BY <1>2, <1>4
<1>6. Busy(k)'
  BY <1>3, <1>5 DEF Busy
<1>7. Answered(k)' /\ Sent(k)'
  BY <1>2, <1>3, <1>5 DEF Answered, Sent, Sends
<1> QED BY <1>6, <1>7, OneContent

\* A message is sent at once.
LEMMA SendContent ==
  ASSUME Control, Control', Content, NEW m \in Messages, Send(m), ui.status = "idle"
  PROVE  Content'
<1>1. PICK k \in Slots : k = FreeSlot /\ tasks[k].kind = "none"
  BY FreeSlotIs DEF Send
<1> DEFINE u == [ui EXCEPT !.draft = None]
<1>2. ui \in Panel /\ LikeIt(ui) /\ ui.build \in Builds
  <2>1. ui \in Panel
    BY DEF Control, AssistantStoreTypeOK
  <2>2. ui.build # None
    BY DEF Send, Open
  <2> QED BY <2>1, <2>2, AsItWas, PanelFields
<1>3. u \in Panel /\ u.build = ui.build /\ u.screen = ui.screen /\ u.loaded = ui.loaded
  BY <1>2 DEF Panel
<1> DEFINE v == Streaming(u, k, m)
           t == SendTask(u.build, m, TRUE)
<1>4. /\ ui' = v /\ tasks' = [Stale(tasks) EXCEPT ![k] = t]
      /\ UNCHANGED <<thread, turn, missed, stranded>>
  BY <1>1, <1>3 DEF Send, server
<1> HIDE DEF u
<1>5. LikeIt(u)
  BY <1>2, <1>3, Retouched
<1>6. v.build = ui.build
  <2>1. OnItsWay(u, k, m, v)
    BY <1>2, <1>3, NewestEntry
  <2> HIDE DEF v
  <2> QED BY <1>3, <2>1 DEF OnItsWay
<1>7. Neighbours(k)
  <2>1. Stale(tasks) \in [Slots -> Task]
    BY Typed, StaleIs
  <2> HIDE DEF t
  <2> QED BY <1>4, <2>1 DEF Neighbours
<1>8. ASSUME ~Excused' PROVE Holds(u)
  <2>1. ui'.build = ui.build
    BY <1>4, <1>6
  <2> HIDE DEF v, t
  <2>2. ~Excused
    BY <1>1, <1>4, <1>7, <1>8, <2>1, StillExcused DEF Is
  <2>3. Resting
    BY <2>2 DEF Content
  <2> QED BY <1>3, <2>3 DEF Resting, Holds
<1>9. TRUE \in BOOLEAN
  OBVIOUS
<1> QED BY <1>2, <1>4, <1>5, <1>8, <1>9, StartsContent

LEMMA StopContent ==
  ASSUME Control, Control', Content, Stop
  PROVE  Content'
<1> DEFINE c == ui.controller
           all == Aborted(tasks, c)
<1>1. /\ ui' = [ui EXCEPT !.status = "stopping"] /\ turn' = Unheard(c) /\ ui.status = "streaming"
      /\ UNCHANGED <<thread, missed, stranded>> /\ tasks' = all
  BY DEF Stop
<1>2. ui'.build = ui.build /\ ui'.screen = ui.screen /\ ui'.loaded = ui.loaded
  <2>1. ui \in Panel
    BY DEF Control, AssistantStoreTypeOK
  <2> QED BY <1>1, <2>1 DEF Panel
<1> HIDE DEF all
<1>3. ASSUME NEW j \in Slots
      PROVE  /\ all[j].kind = tasks[j].kind /\ all[j].current = tasks[j].current
             /\ all[j].what = tasks[j].what /\ all[j].wire = tasks[j].wire
             /\ ~(Sending(c) /\ c = j) => all[j] = tasks[j]
             /\ Sending(c) /\ c = j => all[j].stage = IF tasks[j].stage = "prepare" THEN "prepare" ELSE "stream"
  <2>1. tasks \in [Slots -> Task]
    BY Typed
  <2> QED BY <2>1, AbortedIs DEF all
<1>4. CASE stranded
  BY <1>1, <1>4, ExcusedContent
<1>5. CASE ~stranded
  <2>1. PICK k \in Slots : tasks[k].current /\ tasks[k].kind = "send"
    <3>1. PICK k \in Slots :
             /\ {i \in Slots : tasks[i].current /\ tasks[i].kind \in {"load", "send", "follow"}} = {k}
             /\ tasks[k].kind \in Kinds[ui.status]
      BY <1>1, <1>5 DEF Control, BusyIsOneTask
    <3> QED BY <1>1, <3>1 DEF Kinds
  <2>2. c = k /\ Sending(c) /\ Sends(k) /\ Attached(k) /\ OnTop(k)
    BY <2>1 DEF Control, Attached, Sending, Sends
  <2>3. /\ tasks'[k].kind = "send" /\ tasks'[k].current /\ tasks'[k].what = tasks[k].what
        /\ tasks'[k].wire = tasks[k].wire
        /\ tasks'[k].stage = IF tasks[k].stage = "prepare" THEN "prepare" ELSE "stream"
    BY <1>1, <1>3, <2>1, <2>2
  <2>4. Neighbours(k)
    BY <1>1, <1>3, <2>2 DEF Neighbours
  <2>5. turn'.build = turn.build /\ turn'.client # k
    BY <1>1, <2>2, UnheardIs
  <2>6. Busy(k)'
    BY <2>3 DEF Busy
  <2>7. ASSUME ~Excused' PROVE Answered(k)' /\ Sent(k)'
    <3>1. ~Excused
      BY <1>1, <1>2, <2>1, <2>4, <2>7, StillExcused DEF Is
    <3>2. Sent(k)
      BY <3>1 DEF Content
    <3>3. Answered(k)'
      BY <2>3 DEF Answered
    <3>4. thread' = thread /\ (Fresh' <=> Fresh)
      BY <1>1, <1>2, <2>5 DEF Fresh
    <3>5. CASE tasks[k].stage = "prepare"
      <4>1. ui.loaded => Fresh /\ Told(Before(ui.screen)) = thread[ui.build]
        BY <2>2, <3>2, <3>5 DEF Sent, Early
      <4>2. tasks'[k].stage = "prepare"
        BY <2>3, <3>5
      <4> QED BY <1>2, <3>3, <3>4, <4>1, <4>2 DEF Sent
    <3>6. CASE tasks[k].stage # "prepare"
      <4>1. ASSUME ui.loaded, Closed(tasks[k].wire) = 1
            PROVE  /\ Fresh
                   /\ thread[ui.build] =
                        Append(Told(Before(ui.screen)),
                               [what |-> tasks[k].what,
                                parts |-> Newest(ui.screen).parts + Pieces(tasks[k].wire)])
        <5>1. tasks[k].stage = "stream"
          <6>1. tasks[k].stage \in Early => tasks[k].wire = <<>>
            BY <2>1, <2>2 DEF Attached
          <6>2. tasks[k].stage \notin Early
            BY <4>1, <6>1, QuietWire
          <6>3. tasks[k].stage # "failed"
            <7>1. tasks[k].stage = "failed" => Closed(tasks[k].wire) = 0
              BY <2>2 DEF OnTop
            <7> QED BY <4>1, <7>1
          <6> QED BY <2>1, <2>2, <6>2, <6>3 DEF Attached
        <5>2. turn.client # k
          <6>1. turn.client = k => Closed(tasks[k].wire) = 0
            BY <2>2, <5>1 DEF OnTop
          <6> QED BY <4>1, <6>1
        <5> QED BY <2>2, <3>2, <4>1, <5>1, <5>2 DEF Sent
      <4>2. tasks'[k].stage = "stream"
        BY <2>3, <3>6
      <4> QED BY <1>2, <2>3, <2>5, <3>3, <3>4, <4>1, <4>2 DEF Sent, Early
    <3> QED BY <3>5, <3>6
  <2> QED BY <2>6, <2>7, OneContent
<1> QED BY <1>4, <1>5

LEMMA AsksContent ==
  ASSUME Control, Control', Content, Reopen \/ Clear
  PROVE  Content'
<1>1. Free # {} /\ ui.build \in Builds /\ UNCHANGED <<ui, thread, turn, missed, stranded>>
  BY ShownBuild DEF Reopen, Clear, server
<1>2. PICK kind \in {"refresh", "clear"}, current \in BOOLEAN :
         tasks' = [tasks EXCEPT ![FreeSlot] = Asks(kind, current)]
  BY AskedFor
<1>3. PICK k \in Slots : k = FreeSlot /\ tasks[k].kind = "none"
  BY <1>1, FreeSlotIs
<1> DEFINE t == Asks(kind, current)
<1>4. t.kind = kind
  BY <1>1, AsksIs
<1>5. tasks' = [tasks EXCEPT ![k] = t]
  BY <1>2, <1>3
<1> HIDE DEF t
<1>6. tasks'[k] = t /\ Neighbours(k) /\ \A j \in Slots \ {k} : Same(j)
  BY <1>5, OneMoves
<1>7. ~Excused' => ~Excused
  BY <1>1, <1>3, <1>6, StillExcused DEF Is
<1>8. SamePanel /\ SameThread
  BY <1>1 DEF SamePanel, SameThread, Fresh
<1>9. ASSUME NEW j \in Slots, Busy(j)' PROVE Steady(j)
  <2>1. j # k
    BY <1>4, <1>6, <1>9 DEF Busy
  <2> QED BY <1>1, <1>6, <2>1 DEF Steady
<1> QED BY <1>7, <1>8, <1>9, SteadyContent

LEMMA BoxContent ==
  ASSUME Control, Control', Content, UNCHANGED <<thread, turn, tasks, missed, stranded>>, Aside(ui')
  PROVE  Content'
<1>1. SamePanel
  BY DEF Aside, SamePanel
<1>2. ~Excused' => ~Excused
  BY <1>1 DEF Excused, Is, SamePanel
<1>3. SameThread /\ \A j \in Slots : Steady(j)
  BY <1>1 DEF SameThread, Fresh, SamePanel, Steady, Same
<1> QED BY <1>1, <1>2, <1>3, SteadyContent

LEMMA UserContent ==
  ASSUME Control, Control', Content, UserStep
  PROVE  Content'
<1>1. CASE Switches
  <2>1. ASSUME NEW b \in Builds, OpenPanel(b) PROVE Content'
    BY <2>1, LoadContent DEF OpenPanel
  <2>2. ASSUME TryAgain PROVE Content'
    BY <2>2, ShownBuild, LoadContent DEF TryAgain
  <2> QED BY <1>1, <2>1, <2>2 DEF Switches
<1>2. CASE Reopen \/ Clear
  BY <1>2, AsksContent
<1>3. ui \in Panel
  BY DEF Control, AssistantStoreTypeOK
<1>4. CASE CancelQueued
  <2>1. ui.queued \in Messages
    BY <1>3, <1>4, PanelFields DEF CancelQueued
  <2> QED BY <1>3, <1>4, <2>1, InTheBox, BoxContent
<1>5. CASE Stop
  BY <1>5, StopContent
<1>6. ASSUME NEW m \in Messages, Type(m) \/ Send(m) PROVE Content'
  BY <1>3, <1>6, InTheBox, BoxContent, SendContent
<1> QED BY <1>1, <1>2, <1>4, <1>5, <1>6 DEF UserStep

(***************************************************************************)
(* What the server does.                                                    *)
(***************************************************************************)
LEMMA ServeSendContent ==
  ASSUME Control, Control', Content, NEW k \in Slots, ServeSend(k)
  PROVE  Content'
<1>1. /\ tasks[k].kind = "send" /\ tasks[k].stage = "ask" /\ tasks[k] \in Task
      /\ UNCHANGED <<ui, thread, missed, stranded>>
  BY Typed DEF ServeSend, Is
<1>2. CASE ~tasks[k].current
  <2>1. stranded
    BY <1>1, <1>2 DEF Control, Attached
  <2> QED BY <1>1, <2>1, ExcusedContent
<1>3. CASE tasks[k].current
  <2>1. PICK stage \in {"stream", "full", "busy"} :
           /\ tasks' = [tasks EXCEPT ![k].stage = stage]
           /\ stage = "stream" => turn' = TurnOf(tasks[k].build, tasks[k].what, k)
           /\ stage # "stream" => turn' = turn
    BY DEF ServeSend
  <2> DEFINE t == [tasks[k] EXCEPT !.stage = stage]
  <2>2. t.kind = "send" /\ t.stage = stage /\ t.current /\ t.what = tasks[k].what
    BY <1>1, <1>3 DEF Task
  <2>3. tasks' = [tasks EXCEPT ![k] = t]
    BY <2>1
  <2> HIDE DEF t
  <2>4. tasks'[k] = t /\ Neighbours(k)
    BY <2>3, OneMoves
  <2>5. Busy(k)'
    BY <2>2, <2>4 DEF Busy
  <2>6. ASSUME ~Excused' PROVE Answered(k)' /\ Sent(k)'
    <3>1. ~Excused
      BY <1>1, <2>4, <2>6, StillExcused DEF Is
    <3>2. Sent(k)
      BY <3>1 DEF Content
    <3>3. ui.loaded => Fresh /\ Told(Before(ui.screen)) = thread[ui.build]
      BY <1>1, <1>3, <3>2 DEF Sent, Sends, Early
    <3>4. Answered(k)'
      BY <2>2, <2>4 DEF Answered
    <3>5. CASE stage = "stream"
      <4>1. tasks[k].build \in Builds /\ tasks[k].what \in Texts /\ k \in 0 .. OtherTab
        <5>1. Sound(k)
          BY DEF Control
        <5>2. tasks[k].build \in Builds /\ tasks[k].what \in Messages
          BY <1>1, <5>1 DEF Sound
        <5>3. k \in 0 .. OtherTab
          BY DEF Slots, OtherTab
        <5> QED BY <5>2, <5>3 DEF Texts
      <4>2. turn'.client = k /\ ~turn'.stored
        BY <2>1, <3>5, <4>1, NewTurn
      <4> QED BY <1>1, <2>2, <2>4, <3>3, <3>4, <3>5, <4>2 DEF Sent, Early
    <3>6. CASE stage # "stream"
      <4>1. Fresh' <=> Fresh
        BY <1>1, <2>1, <3>6 DEF Fresh
      <4> QED BY <1>1, <2>2, <2>4, <3>3, <3>4, <3>6, <4>1 DEF Sent
    <3> QED BY <3>5, <3>6
  <2> QED BY <2>5, <2>6, OneContent
<1> QED BY <1>2, <1>3

LEMMA ReadsContent ==
  ASSUME Control, Control', Content, NEW k \in Slots, ReadRunning(k) \/ ReadRows(k)
  PROVE  Content'
<1>1. /\ tasks[k] \in Task /\ UNCHANGED <<ui, thread, turn, missed, stranded>>
      /\ tasks[k].stage \in {"ask", "reading"} /\ ~Is(k, "clear", "told")
  BY Typed DEF ReadRunning, ReadRows, server, Is
<1>2. tasks[k].kind # "send"
  <2>1. CASE ReadRunning(k)
    BY <2>1 DEF ReadRunning
  <2>2. CASE ReadRows(k)
    BY <2>2 DEF ReadRows, Control, Attached, Early
  <2> QED BY <2>1, <2>2
<1>3. tasks[k].answer \in Answer
  BY <1>1, TaskFields
<1>4. PICK t : /\ tasks' = [tasks EXCEPT ![k] = t] /\ t.kind = tasks[k].kind /\ t.current = tasks[k].current
               /\ \/ /\ t.stage = "reading" /\ t.answer.running = (turn.build = tasks[k].build)
                  \/ /\ t.stage = "told" /\ t.answer.rows = thread[tasks[k].build]
                     /\ tasks[k].stage = "reading" /\ t.answer.running = tasks[k].answer.running
  <2>1. CASE ReadRunning(k)
    <3> DEFINE running == (turn.build = tasks[k].build)
               t == [tasks[k] EXCEPT !.stage = "reading", !.answer.running = running]
    <3>1. tasks' = [tasks EXCEPT ![k] = t]
      BY <2>1 DEF ReadRunning
    <3>2. t.kind = tasks[k].kind /\ t.current = tasks[k].current /\ t.stage = "reading" /\ t.answer.running = running
      <4> HIDE DEF running
      <4> QED BY <1>1, <1>3 DEF Task, Answer
    <3> QED BY <3>1, <3>2
  <2>2. CASE ReadRows(k)
    <3> DEFINE rows == thread[tasks[k].build]
               t == [tasks[k] EXCEPT !.stage = "told", !.answer.rows = rows]
    <3>1. tasks' = [tasks EXCEPT ![k] = t] /\ tasks[k].stage = "reading"
      BY <2>2 DEF ReadRows
    <3>2. t.kind = tasks[k].kind /\ t.current = tasks[k].current /\ t.stage = "told" /\ t.answer.rows = rows
          /\ t.answer.running = tasks[k].answer.running
      <4> HIDE DEF rows
      <4> QED BY <1>1, <1>3 DEF Task, Answer
    <3> QED BY <3>1, <3>2
  <2> QED BY <2>1, <2>2
<1>5. tasks'[k] = t /\ Neighbours(k) /\ \A j \in Slots \ {k} : Same(j)
  BY <1>4, OneMoves
<1>6. ~Excused' => ~Excused
  BY <1>1, <1>5, StillExcused
<1>7. SamePanel /\ SameThread
  BY <1>1 DEF SamePanel, SameThread, Fresh
<1>8. \A j \in Slots \ {k} : Steady(j)
  BY <1>1, <1>5 DEF Steady
<1>9. ASSUME Busy(k)', ~Excused' PROVE Answered(k)' /\ Sent(k)'
  <2>1. tasks[k].current /\ tasks[k].kind \in {"load", "follow"} /\ tasks[k].build = ui.build
    BY <1>2, <1>4, <1>5, <1>9 DEF Busy, Control, Sound
  <2>2. Answered(k)
    BY <1>6, <1>9 DEF Content
  <2>3. Fresh' <=> Fresh
    BY <1>1 DEF Fresh
  <2>4. tasks[k].kind = "load" => ~ui'.loaded
    BY <1>1, <2>1, <2>2 DEF Answered
  <2>5. Answered(k)'
    <3>1. CASE t.stage = "reading" /\ t.answer.running = (turn.build = tasks[k].build)
      <4>1. ~t.answer.running => Fresh
        BY <2>1, <3>1 DEF Fresh
      <4> QED BY <1>4, <1>5, <2>3, <2>4, <3>1, <4>1 DEF Answered
    <3>2. CASE /\ t.stage = "told" /\ t.answer.rows = thread[tasks[k].build]
               /\ tasks[k].stage = "reading" /\ t.answer.running = tasks[k].answer.running
      <4>1. ~t.answer.running => Fresh
        BY <2>1, <2>2, <3>2 DEF Answered
      <4>2. t.answer.rows = thread'[ui'.build]
        BY <1>1, <2>1, <3>2
      <4> QED BY <1>4, <1>5, <2>3, <2>4, <3>2, <4>1, <4>2 DEF Answered
    <3> QED BY <1>4, <3>1, <3>2
  <2>6. Sent(k)'
    BY <1>2, <1>4, <1>5 DEF Sent, Sends
  <2> QED BY <2>5, <2>6
<1> QED BY <1>6, <1>7, <1>8, <1>9, SteadyContent

LEMMA ServeClearContent ==
  ASSUME Control, Control', Content, NEW k \in Slots, ServeClear(k)
  PROVE  Content'
<1>1. /\ tasks[k].kind = "clear" /\ tasks[k].stage = "ask" /\ tasks[k] \in Task
      /\ UNCHANGED <<ui, turn, missed, stranded>>
  BY Typed DEF ServeClear, Is
<1>2. PICK stage \in {"told", "busy"} :
         /\ tasks' = [tasks EXCEPT ![k].stage = stage]
         /\ \/ stage = "told" /\ thread' = [thread EXCEPT ![tasks[k].build] = <<>>]
            \/ thread' = thread
  BY DEF ServeClear
<1> DEFINE t == [tasks[k] EXCEPT !.stage = stage]
<1>3. t.kind = "clear" /\ t.stage = stage /\ t.build = tasks[k].build
  BY <1>1 DEF Task
<1>4. tasks' = [tasks EXCEPT ![k] = t]
  BY <1>2
<1> HIDE DEF t
<1>5. tasks'[k] = t /\ Neighbours(k) /\ \A j \in Slots \ {k} : Same(j)
  BY <1>4, OneMoves
<1>6. CASE stage = "told" /\ tasks[k].build = ui.build
  <2>1. Is(k, "clear", "told")' /\ tasks'[k].build = ui'.build
    BY <1>1, <1>3, <1>5, <1>6 DEF Is
  <2>2. Excused'
    BY <2>1 DEF Excused
  <2> QED BY <2>2 DEF Content
<1>7. CASE ~(stage = "told" /\ tasks[k].build = ui.build)
  <2>1. ui.build \in Builds => thread'[ui.build] = thread[ui.build]
    <3>1. thread \in [Builds -> Seq(Stored)]
      BY Typed
    <3> QED BY <1>2, <1>7, <3>1
  <2>2. SamePanel /\ SameThread
    BY <1>1, <2>1 DEF SamePanel, SameThread, Fresh
  <2>3. ~Excused' => ~Excused
    BY <1>1, <1>5, StillExcused DEF Is
  <2>4. \A j \in Slots : Busy(j)' => Steady(j)
    BY <1>1, <1>3, <1>5 DEF Busy, Steady
  <2> QED BY <2>2, <2>3, <2>4, SteadyContent
<1> QED BY <1>6, <1>7

LEMMA FailsContent ==
  ASSUME Control, Control', Content, NEW k \in Slots, RequestFails(k) \/ StreamBreaks(k)
  PROVE  Content'
<1>1. /\ tasks[k] \in Task /\ UNCHANGED <<ui, thread, missed, stranded>> /\ ~Is(k, "clear", "told")
      /\ tasks' = [tasks EXCEPT ![k].stage = "failed"]
  BY Typed DEF RequestFails, StreamBreaks, Is, server
<1>2. /\ turn'.build = turn.build
      /\ turn' = turn \/ (turn.client = k /\ turn'.client = 0)
  <2>1. CASE RequestFails(k)
    BY <2>1 DEF RequestFails, server
  <2>2. CASE StreamBreaks(k)
    <3>1. turn \in Turn
      BY TurnFields
    <3> QED BY <2>2, <3>1 DEF StreamBreaks, Turn
  <2> QED BY <2>1, <2>2
<1> DEFINE t == [tasks[k] EXCEPT !.stage = "failed"]
<1>3. /\ t.kind = tasks[k].kind /\ t.stage = "failed" /\ t.current = tasks[k].current
  BY <1>1 DEF Task
<1>4. tasks' = [tasks EXCEPT ![k] = t]
  BY <1>1
<1> HIDE DEF t
<1>5. tasks'[k] = t /\ Neighbours(k) /\ \A j \in Slots \ {k} : Same(j)
  BY <1>4, OneMoves
<1>6. ~Excused' => ~Excused
  BY <1>1, <1>5, StillExcused
<1>7. SamePanel /\ SameThread
  BY <1>1, <1>2 DEF SamePanel, SameThread, Fresh
<1>8. \A j \in Slots \ {k} : Steady(j)
  <2>1. \A j \in Slots : j # 0
    BY SlotsAre
  <2> QED BY <1>2, <1>5, <2>1 DEF Steady
<1>9. ASSUME Busy(k)', ~Excused' PROVE Answered(k)' /\ Sent(k)'
  <2>1. Answered(k)
    BY <1>6, <1>9 DEF Content
  <2>2. tasks[k].current /\ tasks[k].kind = "load" => ~ui'.loaded
    BY <1>1, <2>1 DEF Answered
  <2>3. Answered(k)'
    BY <1>3, <1>5, <2>2 DEF Answered
  <2>4. Sent(k)'
    BY <1>3, <1>5 DEF Sent, Early
  <2> QED BY <2>3, <2>4
<1> QED BY <1>6, <1>7, <1>8, <1>9, SteadyContent

LEMMA ElsewhereContent ==
  ASSUME Control, Control', Content, Elsewhere \/ \E s \in strays : ServeStray(s)
  PROVE  Content'
<1>1. UNCHANGED <<ui, tasks, stranded>>
  BY DEF Elsewhere, ServeStray
<1>2. CASE missed' # {}
  BY <1>2, ExcusedContent
<1>3. CASE missed' = {}
  <2>1. missed = {} /\ (turn' = turn \/ turn = NoTurn)
        /\ turn'.client \in {turn.client, OtherTab} /\ (Fresh => Fresh')
        /\ (ui.build \in Builds => thread'[ui.build] = thread[ui.build])
    <3>1. CASE \E s \in strays : ServeStray(s)
      BY <1>1, <1>3, <3>1 DEF ServeStray, Fresh
    <3>2. CASE Elsewhere
      <4>1. CASE \E b \in Builds, m \in Others :
                    /\ turn' = TurnOf(b, m, OtherTab)
                    /\ missed' = missed \cup ChangedElsewhere(b) /\ thread' = thread
        <5>1. PICK b \in Builds, m \in Others :
                    /\ turn' = TurnOf(b, m, OtherTab)
                    /\ missed' = missed \cup ChangedElsewhere(b) /\ thread' = thread
          BY <4>1
        <5>2. m \in Texts /\ OtherTab \in 0 .. OtherTab
          BY DEF Texts, OtherTab
        <5>3. turn'.build = b /\ turn'.client = OtherTab
          BY <5>1, <5>2, NewTurn
        <5>4. missed = {} /\ b # ui.build
          BY <1>3, <5>1 DEF ChangedElsewhere
        <5> QED BY <1>1, <3>2, <5>1, <5>3, <5>4 DEF Elsewhere, Fresh
      <4>2. CASE \E b \in Builds :
                    /\ thread' = [thread EXCEPT ![b] = <<>>]
                    /\ missed' = missed \cup ChangedElsewhere(b) /\ turn' = turn
        <5>1. PICK b \in Builds :
                    /\ thread' = [thread EXCEPT ![b] = <<>>]
                    /\ missed' = missed \cup ChangedElsewhere(b) /\ turn' = turn
          BY <4>2
        <5>2. missed = {} /\ b # ui.build
          BY <1>3, <5>1 DEF ChangedElsewhere
        <5>3. thread \in [Builds -> Seq(Stored)]
          BY DEF Control, AssistantStoreTypeOK
        <5> QED BY <1>1, <5>1, <5>2, <5>3 DEF Fresh
      <4> QED BY <3>2, <4>1, <4>2 DEF Elsewhere
    <3> QED BY <3>1, <3>2
  <2>2. ~Excused' => ~Excused
    BY <1>1, <2>1 DEF Excused, Is
  <2>3. SamePanel /\ SameThread
    BY <1>1, <2>1 DEF SamePanel, SameThread
  <2>4. \A j \in Slots : Steady(j)
    <3>1. turn = NoTurn => turn.client \notin Slots
      BY NoTurnIs
    <3> QED BY <1>1, <2>1, <3>1, SlotsAre DEF Steady, Same
  <2> QED BY <2>2, <2>3, <2>4, SteadyContent
<1> QED BY <1>2, <1>3

(***************************************************************************)
(* What the turn does.                                                      *)
(***************************************************************************)
LEMMA SpeaksContent ==
  ASSUME Control, Control', Content, UNCHANGED <<ui, missed, stranded>>, turn.build \in Builds,
         NEW event, tasks' = tasks \/ tasks' = Emit(tasks, event),
         turn'.client \in {turn.client, 0}, turn'.build \in {turn.build, None},
         \A c \in Builds : c # turn.build => thread'[c] = thread[c],
         \A k \in Slots : turn.client = k /\ Sends(k) /\ turn.build = ui.build /\ ~Excused => Sent(k)'
  PROVE  Content'
<1>1. tasks \in [Slots -> Task]
  BY DEF Control, AssistantStoreTypeOK
<1>2. ASSUME NEW j \in Slots, turn.client # j PROVE Same(j) /\ turn'.client # j
  <2>1. Same(j)
    <3>1. CASE tasks' = tasks
      BY <3>1 DEF Same
    <3>2. CASE turn.client \in Slots /\ tasks' = Emit(tasks, event)
      BY <1>1, <1>2, <3>2, Emits DEF Same
    <3>3. CASE turn.client \notin Slots /\ tasks' = Emit(tasks, event)
      BY <3>3, Emits DEF Same
    <3> QED BY <3>1, <3>2, <3>3
  <2>2. j # 0
    BY SlotsAre
  <2> QED BY <1>2, <2>1, <2>2
<1>3. ASSUME NEW j \in Slots, turn.client = j
      PROVE  /\ tasks[j].kind = "send" /\ tasks'[j].kind = "send" /\ tasks'[j].current = tasks[j].current
             /\ tasks[j].build = turn.build
  <2>1. tasks[j].kind = "send" /\ tasks[j] \in Task /\ tasks[j].build = turn.build
    BY <1>3, Listener DEF Is
  <2>2. CASE tasks' = tasks
    BY <2>1, <2>2
  <2>3. CASE tasks' = [tasks EXCEPT ![j].wire = Append(@, event)]
    <3> DEFINE wire == Append(tasks[j].wire, event)
               t == [tasks[j] EXCEPT !.wire = wire]
    <3>1. t.kind = "send" /\ t.current = tasks[j].current
      <4> HIDE DEF wire
      <4> QED BY <2>1 DEF Task
    <3>2. tasks' = [tasks EXCEPT ![j] = t]
      BY <2>3
    <3> HIDE DEF t
    <3> QED BY <1>1, <2>1, <3>1, <3>2
  <2> QED BY <1>3, <2>2, <2>3, Emits
<1>4. ~Excused' => ~Excused
  <2>1. ASSUME NEW j \in Slots, Is(j, "clear", "told"), tasks[j].build = ui.build
        PROVE  Is(j, "clear", "told")' /\ tasks'[j].build = ui'.build
    <3>1. turn.client # j
      BY <1>3, <2>1 DEF Is
    <3> QED BY <1>2, <2>1, <3>1 DEF Is, Same
  <2> QED BY <2>1 DEF Excused
<1>5. CASE Fresh
  <2>1. SamePanel /\ SameThread
    <3>1. ui.build \in Builds => Fresh'
      BY <1>5 DEF Fresh
    <3>3. ui.build \in Builds => thread'[ui.build] = thread[ui.build]
      BY <1>5 DEF Fresh
    <3> QED BY <3>1, <3>3 DEF SamePanel, SameThread
  <2>2. ASSUME NEW j \in Slots, Busy(j)' PROVE Steady(j)
    <3>1. turn.client # j
      <4>1. ASSUME turn.client = j PROVE FALSE
        <5>1. tasks[j].current /\ tasks[j].build = turn.build
          BY <1>3, <2>2, <4>1 DEF Busy
        <5>2. tasks[j].build = ui.build
          BY <5>1 DEF Control, Sound
        <5> QED BY <1>5, <5>1, <5>2 DEF Fresh
      <4> QED BY <4>1
    <3> QED BY <1>2, <3>1 DEF Steady
  <2> QED BY <1>4, <2>1, <2>2, SteadyContent
<1>6. CASE ~Fresh
  <2>1. SUFFICES ASSUME ~Excused' PROVE Resting' /\ \A j \in Slots : Answered(j)' /\ Sent(j)'
    BY DEF Content
  <2>2. Resting /\ (\A j \in Slots : Answered(j) /\ Sent(j)) /\ ~Excused
    BY <1>4, <2>1 DEF Content
  <2>3. Resting'
    BY <1>6, <2>2 DEF Resting
  <2>4. ASSUME NEW j \in Slots PROVE Answered(j)' /\ Sent(j)'
    <3>1. CASE turn.client = j
      <4>1. Answered(j)'
        BY <1>3, <3>1 DEF Answered
      <4>2. Sent(j)'
        <5>1. Sends(j)' => Sends(j)
          BY <1>3, <3>1 DEF Sends
        <5>2. turn.build = ui.build
          BY <1>6 DEF Fresh
        <5>3. Sends(j) => Sent(j)'
          BY <2>2, <3>1, <5>2
        <5>4. ~Sends(j)' => Sent(j)'
          BY DEF Sent
        <5> QED BY <5>1, <5>3, <5>4
      <4> QED BY <4>1, <4>2
    <3>2. CASE turn.client # j
      <4>1. tasks'[j] = tasks[j] /\ turn'.client # j
        BY <1>2, <3>2 DEF Same
      <4>2. Answered(j)'
        BY <1>6, <2>2, <4>1 DEF Answered
      <4>3. Sent(j)'
        <5>1. SUFFICES ASSUME ui.loaded, Sends(j), Sends(j)' PROVE Sent(j)'
          BY <4>1 DEF Sent, Sends
        <5>2. Sent(j)
          BY <2>2
        <5>3. tasks[j].stage \notin Early
          BY <1>6, <5>1, <5>2 DEF Sent
        <5>4. tasks[j].stage = "stream" => Closed(tasks[j].wire) # 1
          BY <1>6, <3>2, <5>1, <5>2 DEF Sent
        <5> QED BY <4>1, <5>3, <5>4 DEF Sent
      <4> QED BY <4>2, <4>3
    <3> QED BY <3>1, <3>2
  <2> QED BY <2>3, <2>4
<1> QED BY <1>5, <1>6

\* The row of the turn, saved once more.
LEMMA KeptTold ==
  ASSUME Control, turn.stored, NEW rows \in Seq(Stored), NEW what \in Texts, NEW p \in 0 .. MaxPieces,
         thread[turn.build] = Append(rows, [what |-> what, parts |-> p])
  PROVE  Kept[turn.build] = Append(rows, [what |-> what, parts |-> turn.said])
<1> DEFINE row == [what |-> what, parts |-> p]
           told == [what |-> what, parts |-> turn.said]
           all == Append(rows, row)
<1>1. turn.said \in 0 .. MaxPieces
  BY TurnFields
<1>2. row \in Stored /\ told \in Stored /\ [row EXCEPT !.parts = turn.said] = told
  BY <1>1 DEF Stored
<1>3. thread[turn.build] = all
  OBVIOUS
<1> HIDE DEF row, told
<1>4. all \in Seq(Stored) /\ all # <<>> /\ Len(all) = Len(rows) + 1 /\ all[Len(all)] = row /\ Len(rows) \in Nat
      /\ \A i \in 1 .. Len(rows) : all[i] = rows[i]
  BY <1>2, Appended
<1> HIDE DEF all
<1>5. Newest(all) = row
  BY <1>4 DEF Newest
<1>6. Kept[turn.build] = [all EXCEPT ![Len(all)] = told]
  BY <1>2, <1>3, <1>5, KeptIs
<1> DEFINE changed == [all EXCEPT ![Len(all)] = told]
<1>7. /\ changed \in Seq(Stored) /\ Len(changed) = Len(all)
      /\ \A j \in 1 .. Len(all) : changed[j] = IF j = Len(all) THEN told ELSE all[j]
  BY <1>2, <1>4, Changed
<1> HIDE DEF changed
<1> DEFINE other == Append(rows, told)
<1>8. /\ other \in Seq(Stored) /\ Len(other) = Len(rows) + 1 /\ other[Len(other)] = told
      /\ \A i \in 1 .. Len(rows) : other[i] = rows[i]
  BY <1>2, Appended
<1> HIDE DEF other
<1>9. changed = other
  <2>1. Len(changed) = Len(other)
    BY <1>4, <1>7, <1>8
  <2>2. ASSUME NEW i \in 1 .. Len(changed) PROVE changed[i] = other[i]
    <3>1. changed[i] = IF i = Len(all) THEN told ELSE all[i]
      BY <1>7
    <3>2. CASE i = Len(all)
      BY <1>4, <1>8, <3>1, <3>2
    <3>3. CASE i # Len(all)
      <4>1. i \in 1 .. Len(rows)
        BY <1>4, <1>7, <3>3
      <4> QED BY <1>4, <1>8, <3>1, <3>3, <4>1
    <3> QED BY <3>2, <3>3
  <2> QED BY <1>7, <1>8, <2>1, <2>2, SeqEqual
<1> QED BY <1>6, <1>9 DEF changed, other, told

\* The task that listens has one more event on its way.
LEMMA EmitsTo ==
  ASSUME Control, NEW k \in Slots, turn.client = k, NEW event, tasks' = Emit(tasks, event)
  PROVE  /\ tasks'[k].stage = "stream" /\ tasks'[k].what = tasks[k].what
         /\ tasks'[k].wire = Append(tasks[k].wire, event)
<1> DEFINE wire == Append(tasks[k].wire, event)
           t == [tasks[k] EXCEPT !.wire = wire]
<1>1. tasks[k] \in Task /\ tasks[k].stage = "stream" /\ tasks \in [Slots -> Task]
  BY Listener, Typed DEF Is
<1>2. t.stage = "stream" /\ t.what = tasks[k].what /\ t.wire = wire
  <2> HIDE DEF wire
  <2> QED BY <1>1 DEF Task
<1>3. tasks' = [tasks EXCEPT ![k] = t]
  BY Emits
<1> HIDE DEF t, wire
<1>4. tasks'[k] = t
  BY <1>1, <1>3
<1> QED BY <1>2, <1>4 DEF wire

\* Of whom the turn is heard, and what is known of its conversation.
LEMMA HeardTold ==
  ASSUME Control, Content, ~Excused, NEW k \in Slots, turn.client = k, Sends(k), ui.loaded
  PROVE  /\ tasks[k].stage = "stream" /\ Hears(k) /\ turn.what = tasks[k].what
         /\ Told(Before(ui.screen)) \in Seq(Stored) /\ tasks[k].what \in Texts
         /\ ~turn.stored => Told(Before(ui.screen)) = thread[ui.build]
         /\ turn.stored =>
              \E p \in 0 .. turn.said :
                thread[ui.build] = Append(Told(Before(ui.screen)), [what |-> tasks[k].what, parts |-> p])
<1>1. Is(k, "send", "stream") /\ Hears(k) /\ turn.what = tasks[k].what
  BY Listener
<1>2. Sent(k) /\ Sound(k) /\ OnTop(k)
  BY DEF Content, Control
<1>3. Told(Before(ui.screen)) \in Seq(Stored)
  <2>1. ui.screen # <<>> /\ ui.screen \in Seq(Entry)
    BY <1>2, Typed, PanelFields DEF OnTop
  <2>2. Before(ui.screen) \in Seq(Entry)
    BY <2>1, BeforeIs
  <2> QED BY <2>2, ToldType
<1>4. tasks[k].what \in Texts
  BY <1>2 DEF Sound, Sends, Texts
<1> QED BY <1>1, <1>2, <1>3, <1>4 DEF Sent, Is

LEMMA StoreMessageContent ==
  ASSUME Control, Control', Content, StoreMessage
  PROVE  Content'
<1>1. /\ turn # NoTurn /\ ~turn.stored /\ UNCHANGED <<ui, missed, stranded>>
      /\ turn' = [turn EXCEPT !.stored = TRUE] /\ tasks' = Emit(tasks, "start")
      /\ thread' = [thread EXCEPT ![turn.build] = Append(@, [what |-> turn.what, parts |-> 0])]
  BY DEF StoreMessage
<1>2. /\ turn.build \in Builds /\ turn.said = 0 /\ turn \in Turn /\ thread \in [Builds -> Seq(Stored)]
  BY <1>1, TurnFields DEF TurnFits, Control, AssistantStoreTypeOK
<1>3. turn'.stored /\ turn'.build = turn.build /\ turn'.client = turn.client /\ turn'.said = 0
  BY <1>1, <1>2 DEF Turn
<1>4. thread'[turn.build] = Append(thread[turn.build], [what |-> turn.what, parts |-> 0])
      /\ \A c \in Builds : c # turn.build => thread'[c] = thread[c]
  BY <1>1, <1>2
<1>5. ASSUME NEW k \in Slots, turn.client = k, Sends(k), turn.build = ui.build, ~Excused PROVE Sent(k)'
  <2>1. SUFFICES ASSUME ui'.loaded PROVE Sent(k)'
    BY DEF Sent
  <2>2. turn.what = tasks[k].what /\ Told(Before(ui.screen)) = thread[ui.build]
    BY <1>1, <1>5, <2>1, HeardTold
  <2>3. tasks'[k].stage = "stream" /\ tasks'[k].what = tasks[k].what
    BY <1>1, <1>5, EmitsTo
  <2>4. thread'[ui.build] = Append(Told(Before(ui.screen)), [what |-> tasks[k].what, parts |-> 0])
    BY <1>4, <1>5, <2>2
  <2>5. 0 \in 0 .. turn'.said
    BY <1>3
  <2> QED BY <1>1, <1>3, <1>5, <2>3, <2>4, <2>5 DEF Sent, Early
<1>6. turn'.client \in {turn.client, 0} /\ turn'.build \in {turn.build, None}
  BY <1>3
<1> QED BY <1>1, <1>2, <1>4, <1>5, <1>6, SpeaksContent

LEMMA SayContent ==
  ASSUME Control, Control', Content, Say
  PROVE  Content'
<1>1. /\ turn.stored /\ UNCHANGED <<ui, thread, missed, stranded>>
      /\ turn' = [turn EXCEPT !.said = @ + 1] /\ tasks' = Emit(tasks, "piece")
  BY DEF Say
<1>2. turn.build \in Builds /\ turn.said \in Nat /\ turn \in Turn
  BY <1>1, TurnFields DEF TurnFits
<1>3. turn'.stored /\ turn'.build = turn.build /\ turn'.client = turn.client /\ turn'.said = turn.said + 1
  BY <1>1, <1>2 DEF Turn
<1>5. ASSUME NEW k \in Slots, turn.client = k, Sends(k), turn.build = ui.build, ~Excused PROVE Sent(k)'
  <2>1. SUFFICES ASSUME ui'.loaded PROVE Sent(k)'
    BY DEF Sent
  <2>2. PICK p \in 0 .. turn.said :
          thread[ui.build] = Append(Told(Before(ui.screen)), [what |-> tasks[k].what, parts |-> p])
    BY <1>1, <1>5, <2>1, HeardTold
  <2>3. tasks'[k].stage = "stream" /\ tasks'[k].what = tasks[k].what
    BY <1>1, <1>5, EmitsTo
  <2>4. p \in 0 .. turn'.said
    BY <1>2, <1>3
  <2> QED BY <1>1, <1>3, <1>5, <2>2, <2>3, <2>4 DEF Sent, Early
<1>6. turn'.client \in {turn.client, 0} /\ turn'.build \in {turn.build, None}
  BY <1>3
<1> QED BY <1>1, <1>2, <1>5, <1>6, SpeaksContent

LEMMA KeepContent ==
  ASSUME Control, Control', Content, Keep
  PROVE  Content'
<1>1. turn.stored /\ UNCHANGED <<ui, tasks, turn, missed, stranded>> /\ thread' = Kept
  BY DEF Keep
<1>2. turn.build \in Builds /\ turn.said \in 0 .. MaxPieces /\ \A c \in Builds : c # turn.build => thread'[c] = thread[c]
  BY <1>1, KeptIs, TurnFields
<1>3. ASSUME NEW k \in Slots, turn.client = k, Sends(k), turn.build = ui.build, ~Excused PROVE Sent(k)'
  <2>1. SUFFICES ASSUME ui'.loaded PROVE Sent(k)'
    BY DEF Sent
  <2>2. PICK p \in 0 .. turn.said :
          thread[ui.build] = Append(Told(Before(ui.screen)), [what |-> tasks[k].what, parts |-> p])
    BY <1>1, <1>3, <2>1, HeardTold
  <2>3. Told(Before(ui.screen)) \in Seq(Stored) /\ tasks[k].what \in Texts /\ tasks[k].stage = "stream"
    BY <1>1, <1>3, <2>1, HeardTold
  <2>4. p \in 0 .. MaxPieces
    BY <1>2
  <2>5. thread'[ui.build] = Append(Told(Before(ui.screen)), [what |-> tasks[k].what, parts |-> turn.said])
    BY <1>1, <1>3, <2>2, <2>3, <2>4, KeptTold
  <2>6. turn.said \in 0 .. turn.said
    BY <1>2
  <2> QED BY <1>1, <1>3, <2>3, <2>5, <2>6 DEF Sent, Early
<1>4. turn'.client \in {turn.client, 0} /\ turn'.build \in {turn.build, None}
  BY <1>1
<1> QED BY <1>1, <1>2, <1>3, <1>4, SpeaksContent

LEMMA EndTurnContent ==
  ASSUME Control, Control', Content, EndTurn
  PROVE  Content'
<1>1. turn.stored /\ UNCHANGED <<ui, missed, stranded>> /\ thread' = Kept /\ turn' = NoTurn
  BY DEF EndTurn
<1>2. PICK event \in {"done", "full", "error"} : tasks' = Emit(tasks, event)
  BY DEF EndTurn
<1>3. turn.build \in Builds /\ turn.said \in 0 .. MaxPieces /\ \A c \in Builds : c # turn.build => thread'[c] = thread[c]
  BY <1>1, KeptIs, TurnFields
<1>4. turn'.build = None /\ turn'.client = 0 /\ None \notin Builds
  BY <1>1, NoTurnIs
<1>5. ASSUME NEW k \in Slots, turn.client = k, Sends(k), turn.build = ui.build, ~Excused PROVE Sent(k)'
  <2>1. SUFFICES ASSUME ui'.loaded PROVE Sent(k)'
    BY DEF Sent
  <2>2. PICK p \in 0 .. turn.said :
          thread[ui.build] = Append(Told(Before(ui.screen)), [what |-> tasks[k].what, parts |-> p])
    BY <1>1, <1>5, <2>1, HeardTold
  <2>3. Told(Before(ui.screen)) \in Seq(Stored) /\ tasks[k].what \in Texts /\ Hears(k)
    BY <1>1, <1>5, <2>1, HeardTold
  <2>4. p \in 0 .. MaxPieces
    BY <1>3
  <2>5. thread'[ui.build] = Append(Told(Before(ui.screen)), [what |-> tasks[k].what, parts |-> turn.said])
    BY <1>1, <1>5, <2>2, <2>3, <2>4, KeptTold
  <2> DEFINE wire == tasks[k].wire
             more == Append(wire, event)
  <2>6. tasks'[k].stage = "stream" /\ tasks'[k].what = tasks[k].what /\ tasks'[k].wire = more
    BY <1>2, <1>5, EmitsTo
  <2>7. wire \in Seq(Events) /\ InOrder(wire) /\ Closed(wire) = 0
        /\ Newest(ui.screen).parts + Pieces(wire) = turn.said
    BY <1>5, <2>3, Listener DEF Hears
  <2>8. event \in Events \ {"start"} /\ event # "piece"
    BY DEF Events
  <2> HIDE DEF wire
  <2>9. Pieces(more) = Pieces(wire)
    BY <2>7, <2>8, WireGrows
  <2> HIDE DEF more
  <2>10. Newest(ui.screen).parts + Pieces(more) = turn.said
    BY <2>7, <2>9
  <2>11. Fresh'
    BY <1>1, <1>3, <1>4, <1>5 DEF Fresh
  <2>12. turn'.client # k
    BY <1>4, SlotsAre
  <2> QED BY <1>1, <2>5, <2>6, <2>10, <2>11, <2>12 DEF Sent, Early
<1>6. turn'.client \in {turn.client, 0} /\ turn'.build \in {turn.build, None}
  BY <1>4
<1> QED BY <1>1, <1>2, <1>3, <1>5, <1>6, SpeaksContent

LEMMA GoesOnContent ==
  ASSUME Control, Control', Content, NEW k \in Slots, GoesOn(k)
  PROVE  Content'
<1>1. CASE Loaded(k) \/ LoadFails(k)
  BY <1>1, LoadedContent
<1>2. CASE Refreshed(k) \/ (Is(k, "refresh", "failed") /\ Ends(k)
                            /\ UNCHANGED <<ui, server, failures, missed, stranded>>)
  BY <1>2, RefreshedContent
<1>3. CASE Wait(k)
  BY <1>3, WaitContent
<1>4. CASE Reconciled(k) \/ GivesUp(k)
  BY <1>4, ReconciledContent
<1>5. CASE Prepared(k) \/ Stopped(k) \/ Refused(k) \/ Lost(k)
  BY <1>5, OutcomesContent
<1>6. CASE Event(k)
  BY <1>6, EventContent
<1>7. CASE Cleared(k)
  BY <1>7, ClearedContent
<1> QED BY <1>1, <1>2, <1>3, <1>4, <1>5, <1>6, <1>7 DEF GoesOn

LEMMA NextContent ==
  ASSUME Control, Control', Content, [AssistantStoreNext]_vars
  PROVE  Content'
<1>1. CASE UNCHANGED vars
  <2>1. UNCHANGED <<thread, turn, tasks, missed, stranded>> /\ Aside(ui')
    BY <1>1 DEF vars, Aside
  <2> QED BY <2>1, BoxContent
<1>2. CASE (UserStep \/ Elsewhere) /\ acts < MaxActs /\ acts' = acts + 1
  BY <1>2, UserContent, ElsewhereContent
<1>3. ASSUME NEW k \in Slots, Serves(k) PROVE Content'
  BY <1>3, ServeSendContent, ReadsContent, ServeClearContent DEF Serves, Serve
<1>4. ASSUME NEW k \in Slots, Proceeds(k) PROVE Content'
  BY <1>4, GoesOnContent DEF Proceeds
<1>5. CASE TurnGoesOn
  BY <1>5, StoreMessageContent, SayContent, KeepContent, EndTurnContent DEF TurnGoesOn, TurnStep
<1>6. CASE /\ (\E k \in Slots : RequestFails(k) \/ StreamBreaks(k)) \/ \E s \in strays : ServeStray(s)
           /\ UNCHANGED acts
  BY <1>6, FailsContent, ElsewhereContent
<1> QED BY <1>1, <1>2, <1>3, <1>4, <1>5, <1>6 DEF AssistantStoreNext

LEMMA InitContent ==
  ASSUME AssistantStoreInit
  PROVE  Content
<1>1. ~ui.loaded /\ \A k \in Slots : tasks[k] = NoTask
  BY DEF AssistantStoreInit
<1>2. \A k \in Slots : ~Busy(k)
  BY <1>1, NoTaskIs DEF Busy
<1>3. Resting
  BY <1>1 DEF Resting
<1> QED BY <1>2, <1>3, NotBusy DEF Content

LEMMA ContentTells ==
  ASSUME Control, Content
  PROVE  ScreenIsWhatIsStored
<1>1. SUFFICES ASSUME ui.status = "idle", ui.loaded, turn.build # ui.build,
                      \A k \in Slots : tasks[k].kind # "clear", missed = {}
               PROVE  Told(ui.screen) = thread[ui.build]
  BY DEF ScreenIsWhatIsStored
<1>2. ~stranded
  BY <1>1 DEF Control, PanelFits
<1>3. ~Excused
  BY <1>1, <1>2 DEF Excused, Is
<1> QED BY <1>1, <1>3 DEF Content, Resting

(***************************************************************************)
(* The theorems.                                                            *)
(***************************************************************************)

\* The panel, its tasks, the stored conversations and the user's turn keep to their
\* types: no function of the store leaves a task or a screen it cannot be in.
THEOREM AssistantStoreTypeCorrect == AssistantStoreSpec => []AssistantStoreTypeOK
<1>1. Control => AssistantStoreTypeOK
  BY DEF Control
<1> QED BY <1>1, AlwaysControl, PTL

\* Whatever answers late, however often the build is changed, what is on the screen came
\* from the build the panel is on (`run`, which every function compares when it goes on).
THEOREM ScreensStayApart == AssistantStoreSpec => []ScreenIsItsBuilds
<1>1. Control => ScreenIsItsBuilds
  BY DEF Control
<1> QED BY <1>1, AlwaysControl, PTL

\* The panel is busy exactly while one current task is under way that will make it idle
\* again, unless a clear ended while it was busy.
THEOREM OneTaskIsBusy == AssistantStoreSpec => []BusyIsOneTask
<1>1. Control => BusyIsOneTask
  BY DEF Control
<1> QED BY <1>1, AlwaysControl, PTL

\* When nothing is under way, the screen tells the conversation as it is stored, however
\* its pieces came: streamed, followed or read again (send, reconcile, loadThread,
\* refreshThread and clear).  Nothing is said of a screen that has a reason in `missed`:
\* another tab's change, a message lost or given up before its first event, a stored
\* conversation that could not be read again, a message a clear's late answer wiped.
THEOREM ScreenIsKept == AssistantStoreSpec => []ScreenIsWhatIsStored
<1>1. AssistantStoreInit => Control /\ Content
  BY InitControl, InitContent
<1>2. Control /\ Content /\ [AssistantStoreNext]_vars => (Control /\ Content)'
  BY NextControl, NextContent
<1>3. Control /\ Content => ScreenIsWhatIsStored
  BY ContentTells
<1> QED BY <1>1, <1>2, <1>3, PTL DEF AssistantStoreSpec
=============================================================================
