------------------------ MODULE ListenerDispatchProofs ------------------------
(***************************************************************************)
(* Proofs about ListenerDispatch, for every set of listeners, every weight *)
(* and every depth of nested notifications.                                *)
(*                                                                         *)
(* What a frame promises cannot be seen from the frame alone: its copy is  *)
(* cleared by removals, the removals are consumed by whatever notification *)
(* returns first, and the listeners that were called may be gone from the  *)
(* copy.  DispatchInv says what survives of each.                          *)
(***************************************************************************)
EXTENDS ListenerDispatch, TimeSetsProofs, SequenceTheorems

Entries == Listeners \cup {Null}
Frames ==
  [copy : Seq(Entries), at : Nat, calls : 0 .. 2, running : BOOLEAN, rounds : Seq({1, 2}),
   kept : SUBSET Listeners, called : SUBSET Entries, nested : BOOLEAN]

\* A frame has a position in its copy and calls a listener only there.
PlaceOK(f) ==
  /\ f.at <= Len(f.copy) /\ f.rounds # << >>
  /\ f.running => f.at > 0

\* The copy is in order of weight, and whoever was called in this round weighs
\* no more than whoever is called now or later.
Weighs(l, k) == l # Null /\ k # Null => Weight[l] <= Weight[k]
InOrder(f)      == \A i, j \in 1 .. Len(f.copy) : i <= j => Weighs(f.copy[i], f.copy[j])
CalledBefore(f) == \A l \in f.called, j \in 1 .. Len(f.copy) : f.at <= j => Weighs(l, f.copy[j])

\* Who stays registered stays in the copy, and was called if the loop has
\* passed it.
KeptReached(f) ==
  \A l \in f.kept : \E j \in 1 .. Len(f.copy) : f.copy[j] = l /\ (j <= f.at => l \in f.called)

FrameInv(f) == PlaceOK(f) /\ InOrder(f) /\ CalledBefore(f) /\ KeptReached(f)

\* The listeners are in order of weight.
ListenersInOrder == \A i, j \in 1 .. Len(listeners) : i <= j => Weight[listeners[i]] <= Weight[listeners[j]]

\* Removals wait for the innermost callback to return, and are not of the
\* listeners that were registered all the time; the outer notifications wait
\* in a callback.
RemovalsWait ==
  /\ stack # << >> /\ ~stack[1].running => justRemoved = {}
  /\ \A i \in 1 .. Len(stack) : stack[i].kept \cap justRemoved = {}
  /\ \A i \in 2 .. Len(stack) : stack[i].running /\ stack[i].nested

DispatchType ==
  /\ listeners \in Seq(Listeners) /\ justRemoved \subseteq Listeners
  /\ stack \in Seq(Frames) /\ Len(stack) <= MaxDepth

DispatchInv ==
  /\ DispatchType /\ ListenersInOrder /\ RemovalsWait
  /\ \A i \in 1 .. Len(stack) : FrameInv(stack[i])

\* A notification without a nested one holds nobody who is neither registered
\* nor about to be cleared.
SkipsInv ==
  stack # << >> /\ ~stack[1].nested =>
    \A j \in 1 .. Len(stack[1].copy) :
      stack[1].copy[j] # Null => stack[1].copy[j] \in Range(listeners) \cup justRemoved

-------------------------------------------------------------------------------
(* Sequences                                                               *)

\* The least number of a set of them.
LEMMA MinOfNats ==
  ASSUME NEW S \in SUBSET Nat, S # {}
  PROVE  Min(S) \in S /\ \A x \in S : Min(S) <= x
  BY LeastNatExists DEF Min

\* A sequence is as long as the function it is made from.
LEMMA SeqOfLength ==
  ASSUME NEW S, NEW n \in Nat, NEW q \in [1 .. n -> S]
  PROVE  q \in Seq(S) /\ Len(q) = n
<1>1. q \in Seq(S)
  BY SeqDef
<1>2. Len(q) \in Nat /\ 1 .. Len(q) = 1 .. n
  BY <1>1, LenProperties
<1>3. Len(q) = n
  <2>1. (n >= 1 => n \in 1 .. Len(q)) /\ (Len(q) >= 1 => Len(q) \in 1 .. n)
    BY <1>2
  <2>. QED BY <1>2, <2>1
<1>. QED BY <1>1, <1>3

\* A sequence without the element at i.
LEMMA RemoveAtSeq ==
  ASSUME NEW S, NEW s \in Seq(S), NEW i \in 1 .. Len(s)
  PROVE  /\ RemoveAt(s, i) \in Seq(S)
         /\ Len(RemoveAt(s, i)) = Len(s) - 1
         /\ \A j \in 1 .. Len(s) - 1 : RemoveAt(s, i)[j] = IF j < i THEN s[j] ELSE s[j + 1]
<1>. DEFINE a == SubSeq(s, 1, i - 1)
            b == SubSeq(s, i + 1, Len(s))
<1>1. Len(s) \in Nat /\ i \in Nat /\ i >= 1 /\ i <= Len(s)
  BY LenProperties
<1>2. /\ a \in Seq(S) /\ Len(a) = i - 1
      /\ \A j \in 1 .. i - 1 : a[j] = s[j]
  BY <1>1, SubSeqProperties, ElementOfSeq
<1>3. /\ b \in Seq(S) /\ Len(b) = Len(s) - i
      /\ \A j \in 1 .. Len(s) - i : b[j] = s[i + j]
  <2>1. \A j \in i + 1 .. Len(s) : s[j] \in S
    BY <1>1, ElementOfSeq
  <2>2. /\ b \in Seq(S) /\ Len(b) = IF i + 1 <= Len(s) THEN Len(s) - (i + 1) + 1 ELSE 0
        /\ \A j \in 1 .. Len(s) - (i + 1) + 1 : b[j] = s[i + 1 + j - 1]
    BY <1>1, <2>1, SubSeqProperties
  <2>. QED BY <1>1, <2>2
<1>4. /\ a \o b \in Seq(S) /\ Len(a \o b) = Len(a) + Len(b)
      /\ \A j \in 1 .. Len(a) + Len(b) : (a \o b)[j] = IF j <= Len(a) THEN a[j] ELSE b[j - Len(a)]
  BY <1>2, <1>3, ConcatProperties
<1>5. RemoveAt(s, i) = a \o b
  BY DEF RemoveAt
<1>. HIDE DEF a, b
<1>6. ASSUME NEW j \in 1 .. Len(s) - 1
      PROVE  (a \o b)[j] = IF j < i THEN s[j] ELSE s[j + 1]
  <2>1. CASE j < i
    BY <1>1, <1>2, <1>3, <1>4, <2>1
  <2>2. CASE ~(j < i)
    <3>1. j - (i - 1) \in 1 .. Len(s) - i /\ j \in 1 .. Len(a) + Len(b) /\ ~(j <= Len(a))
      BY <1>1, <1>2, <1>3, <2>2
    <3>2. (a \o b)[j] = b[j - (i - 1)]
      BY <1>2, <1>4, <3>1
    <3>3. b[j - (i - 1)] = s[i + (j - (i - 1))] /\ i + (j - (i - 1)) = j + 1
      BY <1>1, <1>3, <3>1
    <3>. QED BY <2>2, <3>2, <3>3
  <2>. QED BY <2>1, <2>2
<1>7. Len(a \o b) = Len(s) - 1
  BY <1>1, <1>2, <1>3, <1>4
<1>. QED BY <1>4, <1>5, <1>6, <1>7

\* A sequence with an element put at i.
LEMMA InsertAtSeq ==
  ASSUME NEW S, NEW s \in Seq(S), NEW i \in 1 .. Len(s) + 1, NEW e \in S
  PROVE  /\ InsertAt(s, i, e) \in Seq(S)
         /\ Len(InsertAt(s, i, e)) = Len(s) + 1
         /\ \A j \in 1 .. Len(s) + 1 :
              InsertAt(s, i, e)[j] = IF j < i THEN s[j] ELSE IF j = i THEN e ELSE s[j - 1]
<1>. DEFINE a == SubSeq(s, 1, i - 1)
            b == SubSeq(s, i, Len(s))
            c == a \o <<e>>
<1>1. Len(s) \in Nat /\ i \in Nat /\ i >= 1 /\ i <= Len(s) + 1
  BY LenProperties
<1>2. /\ a \in Seq(S) /\ Len(a) = i - 1
      /\ \A j \in 1 .. i - 1 : a[j] = s[j]
  <2>1. \A j \in 1 .. i - 1 : s[j] \in S
    BY <1>1, ElementOfSeq
  <2>2. /\ a \in Seq(S) /\ Len(a) = IF 1 <= i - 1 THEN i - 1 - 1 + 1 ELSE 0
        /\ \A j \in 1 .. i - 1 - 1 + 1 : a[j] = s[1 + j - 1]
    BY <1>1, <2>1, SubSeqProperties
  <2>. QED BY <1>1, <2>2
<1>3. /\ b \in Seq(S) /\ Len(b) = Len(s) - i + 1
      /\ \A j \in 1 .. Len(s) - i + 1 : b[j] = s[i + j - 1]
  <2>1. \A j \in i .. Len(s) : s[j] \in S
    BY <1>1, ElementOfSeq
  <2>2. /\ b \in Seq(S) /\ Len(b) = IF i <= Len(s) THEN Len(s) - i + 1 ELSE 0
        /\ \A j \in 1 .. Len(s) - i + 1 : b[j] = s[i + j - 1]
    BY <1>1, <2>1, SubSeqProperties
  <2>. QED BY <1>1, <2>2
<1>4. <<e>> \in Seq(S) /\ Len(<<e>>) = 1 /\ <<e>>[1] = e
  OBVIOUS
<1>. HIDE DEF a, b
<1>5. /\ c \in Seq(S) /\ Len(c) = i
      /\ \A j \in 1 .. i : c[j] = IF j < i THEN s[j] ELSE e
  <2>1. /\ c \in Seq(S) /\ Len(c) = Len(a) + 1
        /\ \A j \in 1 .. Len(a) + 1 : c[j] = IF j <= Len(a) THEN a[j] ELSE <<e>>[j - Len(a)]
    BY <1>2, <1>4, ConcatProperties
  <2>. QED BY <1>1, <1>2, <1>4, <2>1
<1>. HIDE DEF c
<1>6. /\ c \o b \in Seq(S) /\ Len(c \o b) = Len(c) + Len(b)
      /\ \A j \in 1 .. Len(c) + Len(b) : (c \o b)[j] = IF j <= Len(c) THEN c[j] ELSE b[j - Len(c)]
  BY <1>3, <1>5, ConcatProperties
<1>7. InsertAt(s, i, e) = c \o b
  BY DEF InsertAt, a, b, c
<1>8. ASSUME NEW j \in 1 .. Len(s) + 1
      PROVE  (c \o b)[j] = IF j < i THEN s[j] ELSE IF j = i THEN e ELSE s[j - 1]
  <2>1. CASE j <= i
    BY <1>1, <1>3, <1>5, <1>6, <2>1
  <2>2. CASE ~(j <= i)
    <3>1. j - i \in 1 .. Len(s) - i + 1 /\ j \in 1 .. Len(c) + Len(b) /\ ~(j <= Len(c))
      BY <1>1, <1>3, <1>5, <2>2
    <3>2. (c \o b)[j] = b[j - i]
      BY <1>5, <1>6, <3>1
    <3>3. b[j - i] = s[i + (j - i) - 1] /\ i + (j - i) - 1 = j - 1
      BY <1>1, <1>3, <3>1
    <3>. QED BY <1>1, <2>2, <3>2, <3>3
  <2>. QED BY <2>1, <2>2
<1>. QED BY <1>1, <1>3, <1>5, <1>6, <1>7, <1>8

\* A frame put on the stack.
LEMMA Pushed ==
  ASSUME NEW S, NEW s \in Seq(S), NEW e \in S
  PROVE  /\ <<e>> \o s \in Seq(S) /\ Len(<<e>> \o s) = Len(s) + 1
         /\ (<<e>> \o s)[1] = e /\ \A j \in 2 .. Len(s) + 1 : (<<e>> \o s)[j] = s[j - 1]
<1>1. <<e>> \in Seq(S) /\ Len(<<e>>) = 1 /\ <<e>>[1] = e /\ Len(s) \in Nat
  BY LenProperties
<1>2. /\ <<e>> \o s \in Seq(S) /\ Len(<<e>> \o s) = Len(<<e>>) + Len(s)
      /\ \A i \in 1 .. Len(<<e>>) + Len(s) : (<<e>> \o s)[i] =
           IF i <= Len(<<e>>) THEN <<e>>[i] ELSE s[i - Len(<<e>>)]
  BY <1>1, ConcatProperties
<1>. QED BY <1>1, <1>2

\* The stack with another frame on top.
LEMMA TopReplaced ==
  ASSUME stack \in Seq(Frames), stack # << >>, NEW f \in Frames
  PROVE  /\ WithTop(f) \in Seq(Frames) /\ Len(WithTop(f)) = Len(stack) /\ WithTop(f) # << >>
         /\ WithTop(f)[1] = f /\ \A j \in 2 .. Len(stack) : WithTop(f)[j] = stack[j]
         /\ Len(stack) \in Nat /\ Len(stack) >= 1 /\ Top = stack[1] /\ stack[1] \in Frames
<1>1. Len(stack) \in Nat /\ Len(stack) >= 1
  BY EmptySeq, LenProperties
<1>2. /\ Tail(stack) \in Seq(Frames) /\ Len(Tail(stack)) = Len(stack) - 1
      /\ \A i \in 1 .. Len(stack) - 1 : Tail(stack)[i] = stack[i + 1]
  BY HeadTailProperties
<1>3. /\ WithTop(f) \in Seq(Frames) /\ Len(WithTop(f)) = Len(Tail(stack)) + 1
      /\ WithTop(f)[1] = f /\ \A j \in 2 .. Len(Tail(stack)) + 1 : WithTop(f)[j] = Tail(stack)[j - 1]
  BY <1>2, Pushed DEF WithTop
<1>4. WithTop(f) # << >>
  BY <1>1, <1>2, <1>3, EmptySeq
<1>5. Top = stack[1] /\ stack[1] \in Frames
  BY <1>1, ElementOfSeq DEF Top
<1>. QED BY <1>1, <1>2, <1>3, <1>4, <1>5

-------------------------------------------------------------------------------
(* Frames                                                                  *)

\* A copy has a length, and its entries are listeners or cleared.
LEMMA FrameFields ==
  ASSUME NEW f \in Frames
  PROVE  /\ Len(f.copy) \in Nat /\ f.copy \in [1 .. Len(f.copy) -> Entries]
         /\ DOMAIN f.copy = 1 .. Len(f.copy)
         /\ Remaining(f) = {i \in 1 .. Len(f.copy) : i > f.at /\ f.copy[i] # Null}
         /\ Remaining(f) \in SUBSET Nat
<1>1. Len(f.copy) \in Nat /\ f.copy \in [1 .. Len(f.copy) -> Entries] /\ DOMAIN f.copy = 1 .. Len(f.copy)
  BY LenProperties DEF Frames
<1>. QED BY <1>1 DEF Remaining

\* The next entry of the copy that is not cleared.
LEMMA NextEntry ==
  ASSUME NEW f \in Frames, Remaining(f) # {}
  PROVE  /\ Min(Remaining(f)) \in 1 .. Len(f.copy) /\ Min(Remaining(f)) > f.at
         /\ f.copy[Min(Remaining(f))] # Null
         /\ \A j \in 1 .. Len(f.copy) : j > f.at /\ j < Min(Remaining(f)) => f.copy[j] = Null
<1>. DEFINE m == Min(Remaining(f))
<1>1. m \in Remaining(f) /\ \A x \in Remaining(f) : m <= x
  BY FrameFields, MinOfNats
<1>. HIDE DEF m
<1>2. m \in 1 .. Len(f.copy) /\ m > f.at /\ f.copy[m] # Null
  BY <1>1, FrameFields
<1>3. ASSUME NEW j \in 1 .. Len(f.copy), j > f.at, j < m
      PROVE  f.copy[j] = Null
  <2>1. j \notin Remaining(f)
    BY <1>1, <1>2, <1>3, FrameFields
  <2>. QED BY <1>3, <2>1, FrameFields
<1>. QED BY <1>2, <1>3 DEF m

\* The loop stays or goes on to an entry, with nothing but cleared entries in
\* between, and calls it.
LEMMA CalledKeepsFrame ==
  ASSUME NullAssumption, NEW f \in Frames, FrameInv(f), NEW i \in 1 .. Len(f.copy), NEW n \in {1, 2},
         i >= f.at, \A j \in 1 .. Len(f.copy) : j > f.at /\ j < i => f.copy[j] = Null
  PROVE  /\ Called(f, i, n) \in Frames /\ FrameInv(Called(f, i, n))
         /\ Called(f, i, n).kept = f.kept /\ Called(f, i, n).copy = f.copy
         /\ Called(f, i, n).nested = f.nested /\ Called(f, i, n).running /\ Called(f, i, n).at = i
<1>. DEFINE g == Called(f, i, n)
<1>1. /\ g.copy = f.copy /\ g.at = i /\ g.calls = n /\ g.running = TRUE /\ g.rounds = f.rounds
      /\ g.kept = f.kept /\ g.called = f.called \cup {f.copy[i]} /\ g.nested = f.nested
  BY DEF Called, Frames
<1>2. f.copy[i] \in Entries /\ f.at \in Nat /\ Len(f.copy) \in Nat /\ f.kept \subseteq Listeners
  BY FrameFields DEF Frames
<1>3. g \in Frames
  <2>1. f.called \cup {f.copy[i]} \in SUBSET Entries /\ i \in Nat /\ n \in 0 .. 2
    BY <1>2 DEF Frames
  <2>2. g = [f EXCEPT !.at = i, !.calls = n, !.running = TRUE, !.called = f.called \cup {f.copy[i]}]
    BY DEF Called
  <2>. QED BY <2>1, <2>2 DEF Frames
<1>. HIDE DEF g
<1>4. PlaceOK(g)
  BY <1>1, <1>2 DEF PlaceOK, FrameInv
<1>5. InOrder(g)
  BY <1>1 DEF InOrder, FrameInv
<1>6. CalledBefore(g)
  <2>1. SUFFICES ASSUME NEW l \in f.called \cup {f.copy[i]}, NEW j \in 1 .. Len(f.copy), i <= j
                 PROVE  Weighs(l, f.copy[j])
    BY <1>1 DEF CalledBefore
  <2>2. CASE l \in f.called
    <3>1. f.at <= j
      BY <1>2, <2>1
    <3>. QED BY <2>2, <3>1 DEF CalledBefore, FrameInv
  <2>3. CASE l = f.copy[i]
    BY <2>1, <2>3 DEF InOrder, FrameInv
  <2>. QED BY <2>2, <2>3
<1>7. KeptReached(g)
  <2>1. SUFFICES ASSUME NEW l \in f.kept
                 PROVE  \E j \in 1 .. Len(f.copy) : f.copy[j] = l /\ (j <= i => l \in f.called \cup {f.copy[i]})
    BY <1>1 DEF KeptReached
  <2>2. PICK j \in 1 .. Len(f.copy) : f.copy[j] = l /\ (j <= f.at => l \in f.called)
    BY DEF KeptReached, FrameInv
  <2>3. f.copy[j] # Null
    BY <1>2, <2>2 DEF NullAssumption
  <2>4. j <= f.at \/ j = i \/ j > i
    BY <1>2, <2>3
  <2>. QED BY <1>2, <2>2, <2>4
<1>. QED BY <1>1, <1>3, <1>4, <1>5, <1>6, <1>7 DEF FrameInv, g

\* checkForRemoval_ clears only whom the frame does not keep.
LEMMA ReturnKeepsFrame ==
  ASSUME NEW f \in Frames, FrameInv(f), f.kept \cap justRemoved = {},
         NEW g, g = [f EXCEPT !.running = FALSE, !.copy = Cleared(@)]
  PROVE  /\ g \in Frames /\ FrameInv(g) /\ g.kept = f.kept /\ ~g.running /\ g.nested = f.nested
         /\ Len(g.copy) = Len(f.copy)
         /\ \A j \in 1 .. Len(f.copy) : g.copy[j] = IF f.copy[j] \in justRemoved THEN Null ELSE f.copy[j]
<1>1. /\ g.copy = Cleared(f.copy) /\ g.at = f.at /\ g.calls = f.calls /\ g.running = FALSE /\ g.rounds = f.rounds
      /\ g.kept = f.kept /\ g.called = f.called /\ g.nested = f.nested
  BY DEF Frames
<1>2. /\ Cleared(f.copy) \in [1 .. Len(f.copy) -> Entries]
      /\ \A j \in 1 .. Len(f.copy) : Cleared(f.copy)[j] = IF f.copy[j] \in justRemoved THEN Null ELSE f.copy[j]
  BY FrameFields DEF Cleared, Entries
<1>3. Cleared(f.copy) \in Seq(Entries) /\ Len(Cleared(f.copy)) = Len(f.copy)
  BY <1>2, FrameFields, SeqOfLength
<1>4. g \in Frames
  BY <1>1, <1>3 DEF Frames
<1>5. PlaceOK(g)
  BY <1>1, <1>3 DEF PlaceOK, FrameInv
<1>6. \A j \in 1 .. Len(f.copy) : g.copy[j] = Null \/ g.copy[j] = f.copy[j]
  BY <1>1, <1>2
<1>7. InOrder(g) /\ CalledBefore(g)
  BY <1>1, <1>3, <1>6 DEF InOrder, CalledBefore, FrameInv, Weighs
<1>8. KeptReached(g)
  <2>1. SUFFICES ASSUME NEW l \in f.kept
                 PROVE  \E j \in 1 .. Len(f.copy) : g.copy[j] = l /\ (j <= f.at => l \in f.called)
    BY <1>1, <1>3 DEF KeptReached
  <2>2. PICK j \in 1 .. Len(f.copy) : f.copy[j] = l /\ (j <= f.at => l \in f.called)
    BY DEF KeptReached, FrameInv
  <2>. QED BY <1>1, <1>2, <2>2
<1>. QED BY <1>1, <1>2, <1>3, <1>4, <1>5, <1>7, <1>8 DEF FrameInv

\* The next round starts over with the same copy.
LEMMA NextRoundKeepsFrame ==
  ASSUME NEW f \in Frames, FrameInv(f), ~f.running, Len(f.rounds) # 1,
         NEW g, g = [f EXCEPT !.at = 0, !.calls = 0, !.rounds = Tail(@), !.called = {}]
  PROVE  /\ g \in Frames /\ FrameInv(g) /\ g.kept = f.kept /\ ~g.running /\ g.nested = f.nested
         /\ g.copy = f.copy
<1>1. /\ g.copy = f.copy /\ g.at = 0 /\ g.calls = 0 /\ g.running = f.running /\ g.rounds = Tail(f.rounds)
      /\ g.kept = f.kept /\ g.called = {} /\ g.nested = f.nested
  BY DEF Frames
<1>2. Tail(f.rounds) \in Seq({1, 2}) /\ Tail(f.rounds) # << >>
  <2>1. f.rounds \in Seq({1, 2}) /\ f.rounds # << >>
    BY DEF FrameInv, PlaceOK, Frames
  <2>2. Tail(f.rounds) \in Seq({1, 2}) /\ Len(Tail(f.rounds)) = Len(f.rounds) - 1 /\ Len(f.rounds) \in Nat
    BY <2>1, HeadTailProperties, LenProperties
  <2>3. Len(f.rounds) >= 1
    BY <2>1, EmptySeq
  <2>4. Len(Tail(f.rounds)) # 0
    BY <2>2, <2>3
  <2>5. Len(<< >>) = 0
    BY EmptySeq
  <2>6. Tail(f.rounds) # << >>
    BY <2>4, <2>5
  <2>. QED BY <2>2, <2>6
<1>3. g \in Frames
  <2>1. g = [f EXCEPT !.at = 0, !.calls = 0, !.rounds = Tail(f.rounds), !.called = {}]
    BY DEF Frames
  <2>2. {} \in SUBSET Entries /\ 0 \in Nat /\ 0 \in 0 .. 2
    OBVIOUS
  <2>. QED BY <1>2, <2>1, <2>2 DEF Frames
<1>4. f.copy \in [1 .. Len(f.copy) -> Entries] /\ Len(f.copy) \in Nat
  BY FrameFields
<1>5. PlaceOK(g) /\ InOrder(g) /\ CalledBefore(g)
  BY <1>1, <1>2, <1>4 DEF PlaceOK, InOrder, CalledBefore, FrameInv
<1>6. KeptReached(g)
  <2>1. \A j \in 1 .. Len(f.copy) : ~(j <= 0)
    BY <1>4
  <2>. QED BY <1>1, <2>1 DEF KeptReached, FrameInv
<1>. QED BY <1>1, <1>3, <1>5, <1>6 DEF FrameInv

\* A notification starts with the listeners of now, all of them still to be called.
LEMMA NewFrame ==
  ASSUME DispatchType, ListenersInOrder, RoundsAssumption, NEW rounds \in Rounds
  PROVE  /\ Frame(rounds) \in Frames /\ FrameInv(Frame(rounds))
         /\ ~Frame(rounds).running /\ ~Frame(rounds).nested /\ Frame(rounds).copy = listeners
<1>. DEFINE g == Frame(rounds)
<1>1. /\ g.copy = listeners /\ g.at = 0 /\ g.calls = 0 /\ g.running = FALSE /\ g.rounds = rounds
      /\ g.kept = Range(listeners) /\ g.called = {} /\ g.nested = FALSE
  BY DEF Frame
<1>2. listeners \in Seq(Listeners) /\ listeners \in Seq(Entries) /\ Len(listeners) \in Nat
  BY SeqMonotonic, LenProperties DEF DispatchType, Entries
<1>3. Range(listeners) = {listeners[i] : i \in 1 .. Len(listeners)} /\ Range(listeners) \subseteq Listeners
  BY <1>2, RangeEquality, RangeOfSeq
<1>4. rounds \in Seq({1, 2}) /\ rounds # << >>
  BY DEF RoundsAssumption
<1>5. g \in Frames
  BY <1>2, <1>3, <1>4 DEF Frame, Frames
<1>. HIDE DEF g
<1>6. PlaceOK(g) /\ CalledBefore(g)
  BY <1>1, <1>2, <1>4 DEF PlaceOK, CalledBefore
<1>7. InOrder(g)
  BY <1>1, <1>2 DEF InOrder, ListenersInOrder, Weighs
<1>8. KeptReached(g)
  <2>1. \A j \in 1 .. Len(listeners) : ~(j <= 0)
    BY <1>2
  <2>. QED BY <1>1, <1>3, <2>1 DEF KeptReached
<1>. QED BY <1>1, <1>5, <1>6, <1>7, <1>8 DEF FrameInv, g

\* A frame keeps fewer listeners, or waits for a nested notification.
LEMMA FrameWithout ==
  ASSUME NEW f \in Frames, FrameInv(f), NEW l
  PROVE  /\ [f EXCEPT !.kept = @ \ {l}] \in Frames /\ FrameInv([f EXCEPT !.kept = @ \ {l}])
         /\ [f EXCEPT !.kept = @ \ {l}].kept = f.kept \ {l}
         /\ [f EXCEPT !.kept = @ \ {l}].running = f.running /\ [f EXCEPT !.kept = @ \ {l}].nested = f.nested
         /\ [f EXCEPT !.kept = @ \ {l}].copy = f.copy
<1>. DEFINE g == [f EXCEPT !.kept = @ \ {l}]
<1>1. /\ g.copy = f.copy /\ g.at = f.at /\ g.calls = f.calls /\ g.running = f.running /\ g.rounds = f.rounds
      /\ g.kept = f.kept \ {l} /\ g.called = f.called /\ g.nested = f.nested /\ g \in Frames
  BY DEF Frames
<1>. HIDE DEF g
<1>2. FrameInv(g)
  BY <1>1 DEF FrameInv, PlaceOK, InOrder, CalledBefore, KeptReached
<1>. QED BY <1>1, <1>2 DEF g

LEMMA FrameNested ==
  ASSUME NEW f \in Frames, FrameInv(f)
  PROVE  /\ [f EXCEPT !.nested = TRUE] \in Frames /\ FrameInv([f EXCEPT !.nested = TRUE])
         /\ [f EXCEPT !.nested = TRUE].kept = f.kept
         /\ [f EXCEPT !.nested = TRUE].running = f.running /\ [f EXCEPT !.nested = TRUE].nested
<1>. DEFINE g == [f EXCEPT !.nested = TRUE]
<1>1. /\ g.copy = f.copy /\ g.at = f.at /\ g.calls = f.calls /\ g.running = f.running /\ g.rounds = f.rounds
      /\ g.kept = f.kept /\ g.called = f.called /\ g.nested = TRUE /\ g \in Frames
  BY DEF Frames
<1>. HIDE DEF g
<1>2. FrameInv(g)
  BY <1>1 DEF FrameInv, PlaceOK, InOrder, CalledBefore, KeptReached
<1>. QED BY <1>1, <1>2 DEF g

-------------------------------------------------------------------------------
(* Registration                                                            *)

\* addListener keeps the order of weights.
LEMMA InsertedInOrder ==
  ASSUME DispatchType, ListenersInOrder, WeightAssumption, NEW l \in Listeners
  PROVE  /\ Inserted(l) \in Seq(Listeners)
         /\ \A i, j \in 1 .. Len(Inserted(l)) : i <= j => Weight[Inserted(l)[i]] <= Weight[Inserted(l)[j]]
         /\ Range(listeners) \subseteq Range(Inserted(l))
<1>. DEFINE n == Len(listeners)
            heavier == {i \in DOMAIN listeners : Weight[l] < Weight[listeners[i]]}
            m == Min(heavier \cup {n + 1})
            longer == Inserted(l)
<1>1. /\ n \in Nat /\ DOMAIN listeners = 1 .. n /\ listeners \in Seq(Listeners)
      /\ \A i \in 1 .. n : listeners[i] \in Listeners /\ Weight[listeners[i]] \in Int
      /\ Weight[l] \in Int
  BY LenProperties, ElementOfSeq DEF DispatchType, WeightAssumption
<1>2. /\ m \in heavier \cup {n + 1} /\ \A x \in heavier \cup {n + 1} : m <= x
  <2>1. heavier \cup {n + 1} \in SUBSET Nat
    BY <1>1
  <2>. HIDE DEF heavier, n
  <2>. QED BY <2>1, MinOfNats
<1>. HIDE DEF m
<1>3. /\ m \in 1 .. n + 1
      /\ \A j \in 1 .. n : j < m => Weight[listeners[j]] <= Weight[l]
      /\ \A j \in 1 .. n : j >= m => Weight[l] <= Weight[listeners[j]]
  <2>1. m \in 1 .. n + 1
    BY <1>1, <1>2
  <2>2. ASSUME NEW j \in 1 .. n, j < m
        PROVE  Weight[listeners[j]] <= Weight[l]
    BY <1>1, <1>2, <2>1, <2>2
  <2>3. ASSUME NEW j \in 1 .. n, j >= m
        PROVE  Weight[l] <= Weight[listeners[j]]
    <3>1. m \in heavier /\ m \in 1 .. n
      BY <1>1, <1>2, <2>1, <2>3
    <3>2. Weight[listeners[m]] <= Weight[listeners[j]]
      BY <2>3, <3>1 DEF ListenersInOrder
    <3>. QED BY <1>1, <3>1, <3>2
  <2>. QED BY <2>1, <2>2, <2>3
<1>. HIDE DEF n
<1>4. /\ longer \in Seq(Listeners) /\ Len(longer) = n + 1
      /\ \A j \in 1 .. n + 1 : longer[j] = IF j < m THEN listeners[j] ELSE IF j = m THEN l ELSE listeners[j - 1]
  <2>1. m \in 1 .. Len(listeners) + 1
    BY <1>3 DEF n
  <2>2. /\ InsertAt(listeners, m, l) \in Seq(Listeners) /\ Len(InsertAt(listeners, m, l)) = Len(listeners) + 1
        /\ \A j \in 1 .. Len(listeners) + 1 :
              InsertAt(listeners, m, l)[j] = IF j < m THEN listeners[j] ELSE IF j = m THEN l ELSE listeners[j - 1]
    <3>1. listeners \in Seq(Listeners)
      BY <1>1
    <3>. QED BY <2>1, <3>1, InsertAtSeq
  <2>3. longer = InsertAt(listeners, m, l)
    BY DEF Inserted, m, n
  <2>. QED BY <2>2, <2>3 DEF n
<1>. HIDE DEF longer
<1>5. ASSUME NEW i \in 1 .. n + 1, NEW j \in 1 .. n + 1, i <= j
      PROVE  Weight[longer[i]] <= Weight[longer[j]]
  <2>0. \A a, b \in 1 .. n : a <= b => Weight[listeners[a]] <= Weight[listeners[b]]
    BY DEF ListenersInOrder, n
  <2>1. CASE j < m
    <3>1. i \in 1 .. n /\ j \in 1 .. n /\ i < m
      BY <1>1, <1>3, <1>5, <2>1
    <3>. QED BY <1>4, <1>5, <2>0, <2>1, <3>1
  <2>2. CASE i < m /\ j = m
    BY <1>1, <1>3, <1>4, <1>5, <2>2
  <2>3. CASE i < m /\ j > m
    <3>1. i \in 1 .. n /\ j - 1 \in 1 .. n /\ i <= j - 1
      BY <1>1, <1>3, <1>5, <2>3
    <3>2. longer[i] = listeners[i] /\ longer[j] = listeners[j - 1]
      BY <1>1, <1>3, <1>4, <1>5, <2>3
    <3>. QED BY <2>0, <3>1, <3>2
  <2>4. CASE i = m /\ j = m
    BY <1>1, <1>4, <2>4
  <2>5. CASE i = m /\ j > m
    <3>1. j - 1 \in 1 .. n /\ j - 1 >= m
      BY <1>1, <1>3, <1>5, <2>5
    <3>2. longer[i] = l /\ longer[j] = listeners[j - 1]
      BY <1>1, <1>3, <1>4, <1>5, <2>5
    <3>. QED BY <1>3, <3>1, <3>2
  <2>6. CASE i > m
    <3>1. i - 1 \in 1 .. n /\ j - 1 \in 1 .. n /\ i - 1 <= j - 1
      BY <1>1, <1>3, <1>5, <2>6
    <3>2. longer[i] = listeners[i - 1] /\ longer[j] = listeners[j - 1]
      BY <1>1, <1>3, <1>4, <1>5, <2>6
    <3>. QED BY <2>0, <3>1, <3>2
  <2>. QED BY <1>1, <1>3, <1>5, <2>1, <2>2, <2>3, <2>4, <2>5, <2>6
<1>6. Range(listeners) \subseteq Range(longer)
  <2>1. SUFFICES ASSUME NEW j \in 1 .. n PROVE \E i \in 1 .. n + 1 : longer[i] = listeners[j]
    <3>1. Range(listeners) = {listeners[j] : j \in 1 .. n}
      BY <1>1, RangeEquality DEF n
    <3>2. Range(longer) = {longer[i] : i \in 1 .. n + 1}
      BY <1>4, RangeEquality
    <3>. QED BY <2>1, <3>1, <3>2
  <2>2. CASE j < m
    BY <1>1, <1>4, <2>2
  <2>3. CASE ~(j < m)
    <3>1. j + 1 \in 1 .. n + 1 /\ ~(j + 1 < m) /\ j + 1 # m /\ (j + 1) - 1 = j
      BY <1>1, <1>3, <2>3
    <3>2. longer[j + 1] = listeners[(j + 1) - 1]
      BY <1>4, <3>1
    <3>. QED BY <3>1, <3>2
  <2>. QED BY <2>2, <2>3
<1>. QED BY <1>4, <1>5, <1>6 DEF longer

\* addListener, outside of every notification or in a callback.
LEMMA AddKeepsDispatch ==
  ASSUME DispatchInv, NEW l \in Listeners, AddListener(l)
  PROVE  DispatchInv' /\ Range(listeners) \subseteq Range(listeners')
<1>1. /\ listeners' = Inserted(l) /\ justRemoved' = justRemoved /\ stack' = stack
  BY DEF AddListener
<1>2. /\ listeners' \in Seq(Listeners) /\ ListenersInOrder'
      /\ Range(listeners) \subseteq Range(listeners')
  BY <1>1, InsertedInOrder, WeightAssumption DEF DispatchInv, ListenersInOrder
<1>. QED BY <1>1, <1>2 DEF DispatchInv, DispatchType, RemovalsWait

\* removeListener takes the listener out of the list, and nobody else.
LEMMA RemoveKeepsDispatch ==
  ASSUME DispatchInv, NEW l \in Listeners, RemoveListener(l)
  PROVE  DispatchInv' /\ Range(listeners) \subseteq Range(listeners') \cup {l}
<1>. DEFINE n == Len(listeners)
<1>1. PICK i \in DOMAIN listeners : listeners[i] = l /\ listeners' = RemoveAt(listeners, i)
  BY DEF RemoveListener
<1>2. /\ n \in Nat /\ i \in 1 .. n /\ DOMAIN listeners = 1 .. n /\ listeners \in Seq(Listeners)
  BY <1>1, LenProperties DEF DispatchInv, DispatchType
<1>3. /\ listeners' \in Seq(Listeners) /\ Len(listeners') = n - 1
      /\ \A j \in 1 .. n - 1 : listeners'[j] = IF j < i THEN listeners[j] ELSE listeners[j + 1]
  BY <1>1, <1>2, RemoveAtSeq
<1>4. \A a, b \in 1 .. n : a <= b => Weight[listeners[a]] <= Weight[listeners[b]]
  BY DEF DispatchInv, ListenersInOrder
<1>5. ListenersInOrder'
  <2>1. SUFFICES ASSUME NEW a \in 1 .. n - 1, NEW b \in 1 .. n - 1, a <= b
                 PROVE  Weight[listeners'[a]] <= Weight[listeners'[b]]
    BY <1>3 DEF ListenersInOrder
  <2>2. a \in 1 .. n /\ b \in 1 .. n /\ a + 1 \in 1 .. n /\ b + 1 \in 1 .. n /\ a <= b + 1 /\ a + 1 <= b + 1
    BY <1>2, <2>1
  <2>3. a < i \/ (~(a < i) /\ ~(b < i))
    BY <1>2, <2>1
  <2>. HIDE DEF n
  <2>. QED BY <1>3, <1>4, <2>1, <2>2, <2>3
<1>6. Range(listeners) \subseteq Range(listeners') \cup {l}
  <2>1. /\ Range(listeners) = {listeners[j] : j \in 1 .. n}
        /\ Range(listeners') = {listeners'[j] : j \in 1 .. n - 1}
    BY <1>2, <1>3, RangeEquality
  <2>2. SUFFICES ASSUME NEW j \in 1 .. n, j # i
                 PROVE  \E k \in 1 .. n - 1 : listeners'[k] = listeners[j]
    BY <1>1, <2>1
  <2>3. CASE j < i
    <3>1. j \in 1 .. n - 1
      BY <1>2, <2>2, <2>3
    <3>. QED BY <1>3, <2>3, <3>1
  <2>4. CASE ~(j < i)
    <3>1. j - 1 \in 1 .. n - 1 /\ ~(j - 1 < i) /\ (j - 1) + 1 = j
      BY <1>2, <2>2, <2>4
    <3>2. listeners'[j - 1] = listeners[(j - 1) + 1]
      BY <1>3, <3>1
    <3>. QED BY <3>1, <3>2
  <2>. QED BY <2>3, <2>4
<1>7. /\ justRemoved' = justRemoved \cup {l} /\ ClientRuns
      /\ stack' = [j \in DOMAIN stack |-> [stack[j] EXCEPT !.kept = @ \ {l}]]
  BY DEF RemoveListener
<1>8. /\ Len(stack) \in Nat /\ DOMAIN stack = 1 .. Len(stack) /\ stack \in Seq(Frames)
      /\ \A j \in 1 .. Len(stack) : stack[j] \in Frames /\ FrameInv(stack[j])
  BY LenProperties, ElementOfSeq DEF DispatchInv, DispatchType
<1>9. \A j \in 1 .. Len(stack) :
        /\ stack'[j] \in Frames /\ FrameInv(stack'[j]) /\ stack'[j].kept = stack[j].kept \ {l}
        /\ stack'[j].running = stack[j].running /\ stack'[j].nested = stack[j].nested
  BY <1>7, <1>8, FrameWithout
<1>10. stack' \in Seq(Frames) /\ Len(stack') = Len(stack)
  <2>1. stack' \in [1 .. Len(stack) -> Frames]
    BY <1>7, <1>8, <1>9
  <2>. QED BY <1>8, <2>1, SeqOfLength
<1>11. DispatchType'
  BY <1>3, <1>7, <1>10 DEF DispatchInv, DispatchType
<1>12. RemovalsWait'
  <2>1. stack' # << >> => stack # << >> /\ 1 \in 1 .. Len(stack)
    BY <1>8, <1>10, EmptySeq
  <2>2. stack # << >> => Top.running /\ Top = stack[1]
    BY <1>7 DEF ClientRuns, Top
  <2>3. stack' # << >> => stack'[1].running
    BY <1>9, <2>1, <2>2
  <2>. QED BY <1>7, <1>9, <1>10, <2>3 DEF DispatchInv, RemovalsWait
<1>13. \A j \in 1 .. Len(stack') : FrameInv(stack'[j])
  BY <1>9, <1>10
<1>14. DispatchInv'
  BY <1>5, <1>11, <1>12, <1>13 DEF DispatchInv, FrameInv, PlaceOK, InOrder, CalledBefore, KeptReached
<1>. QED BY <1>6, <1>14

-------------------------------------------------------------------------------
(* Notifications                                                           *)

\* A step of the loop on top keeps the others as they are.
LEMMA TopStepKeepsDispatch ==
  ASSUME DispatchInv, stack # << >>, NEW f \in Frames, FrameInv(f), f.kept = stack[1].kept,
         stack' = WithTop(f), UNCHANGED listeners,
         justRemoved' = {} \/ (justRemoved' = justRemoved /\ (f.running \/ ~stack[1].running))
  PROVE  DispatchInv'
<1>1. /\ stack' \in Seq(Frames) /\ Len(stack') = Len(stack) /\ stack' # << >>
      /\ stack'[1] = f /\ \A j \in 2 .. Len(stack) : stack'[j] = stack[j]
      /\ Len(stack) \in Nat /\ Len(stack) >= 1
  BY TopReplaced DEF DispatchInv, DispatchType
<1>2. DispatchType' /\ ListenersInOrder'
  BY <1>1 DEF DispatchInv, DispatchType, ListenersInOrder
<1>3. \A j \in 1 .. Len(stack) : j = 1 \/ j \in 2 .. Len(stack)
  BY <1>1
<1>4. RemovalsWait'
  BY <1>1, <1>3 DEF DispatchInv, RemovalsWait
<1>5. \A j \in 1 .. Len(stack') : FrameInv(stack'[j])
  BY <1>1, <1>3 DEF DispatchInv
<1>. QED BY <1>2, <1>4, <1>5 DEF DispatchInv, FrameInv, PlaceOK, InOrder, CalledBefore, KeptReached

\* A notification starts; the one it is nested in waits in its callback.
LEMMA NotifyKeepsDispatch ==
  ASSUME DispatchInv, NEW rounds \in Rounds, Notify(rounds)
  PROVE  DispatchInv' /\ stack'[1] = Frame(rounds)
<1>. DEFINE waiting == [i \in DOMAIN stack |-> [stack[i] EXCEPT !.nested = TRUE]]
<1>1. /\ justRemoved' = {} /\ listeners' = listeners /\ ClientRuns /\ Len(stack) < MaxDepth
      /\ stack' = <<Frame(rounds)>> \o waiting
  BY DEF Notify
<1>2. /\ Len(stack) \in Nat /\ DOMAIN stack = 1 .. Len(stack) /\ stack \in Seq(Frames)
      /\ \A j \in 1 .. Len(stack) : stack[j] \in Frames /\ FrameInv(stack[j])
  BY LenProperties, ElementOfSeq DEF DispatchInv, DispatchType
<1>3. \A j \in 1 .. Len(stack) :
        /\ waiting[j] \in Frames /\ FrameInv(waiting[j])
        /\ waiting[j].running = stack[j].running /\ waiting[j].nested
  BY <1>2, FrameNested
<1>4. waiting \in Seq(Frames) /\ Len(waiting) = Len(stack)
  <2>1. waiting \in [1 .. Len(stack) -> Frames]
    BY <1>2, <1>3
  <2>. HIDE DEF waiting
  <2>. QED BY <1>2, <2>1, SeqOfLength
<1>5. /\ Frame(rounds) \in Frames /\ FrameInv(Frame(rounds)) /\ ~Frame(rounds).running
  BY NewFrame, RoundsAssumption DEF DispatchInv
<1>. HIDE DEF waiting
<1>6. /\ stack' \in Seq(Frames) /\ Len(stack') = Len(stack) + 1
      /\ stack'[1] = Frame(rounds) /\ \A j \in 2 .. Len(stack) + 1 : stack'[j] = waiting[j - 1]
  BY <1>1, <1>4, <1>5, Pushed
<1>7. DispatchType' /\ ListenersInOrder'
  BY <1>1, <1>2, <1>6, DepthAssumption DEF DispatchInv, DispatchType, ListenersInOrder, DepthAssumption
<1>8. \A j \in 1 .. Len(stack') : j = 1 \/ (j \in 2 .. Len(stack') /\ j - 1 \in 1 .. Len(stack))
  BY <1>2, <1>6
<1>9. \A j \in 1 .. Len(stack) : stack[j].running
  <2>1. stack # << >> => stack[1].running
    BY <1>1 DEF ClientRuns, Top
  <2>2. ASSUME NEW j \in 1 .. Len(stack)
        PROVE  stack[j].running
    <3>1. stack # << >>
      BY <1>2, <2>2, EmptySeq
    <3>2. j = 1 \/ j \in 2 .. Len(stack)
      BY <1>2
    <3>. QED BY <2>1, <3>1, <3>2 DEF DispatchInv, RemovalsWait
  <2>. QED BY <2>2
<1>10. RemovalsWait'
  <2>1. ASSUME NEW j \in 2 .. Len(stack')
        PROVE  stack'[j].running /\ stack'[j].nested
    <3>1. j - 1 \in 1 .. Len(stack) /\ stack'[j] = waiting[j - 1]
      BY <1>2, <1>6, <2>1
    <3>. QED BY <1>3, <1>9, <3>1
  <2>. QED BY <1>1, <2>1 DEF RemovalsWait
<1>11. ASSUME NEW j \in 1 .. Len(stack')
       PROVE  FrameInv(stack'[j])
  BY <1>3, <1>5, <1>6, <1>8
<1>. QED BY <1>6, <1>7, <1>10, <1>11 DEF DispatchInv, FrameInv, PlaceOK, InOrder, CalledBefore, KeptReached

\* The loop calls the next listener, or the same one again.
LEMMA CallKeepsDispatch ==
  ASSUME DispatchInv, CallNext \/ CallAgain
  PROVE  /\ DispatchInv' /\ stack # << >> /\ stack' # << >> /\ ~stack[1].running /\ stack'[1].running
         /\ stack'[1].copy = stack[1].copy /\ stack'[1].nested = stack[1].nested
         /\ stack'[1].at \in 1 .. Len(stack'[1].copy)
<1>1. /\ stack # << >> /\ ~Top.running /\ UNCHANGED <<listeners, justRemoved>>
  BY DEF CallNext, CallAgain
<1>2. Top \in Frames /\ FrameInv(Top) /\ Top = stack[1] /\ Len(stack) \in Nat /\ Len(stack) >= 1
  <2>1. Len(stack) \in Nat /\ Len(stack) >= 1 /\ stack \in Seq(Frames)
    BY <1>1, EmptySeq DEF DispatchInv, DispatchType
  <2>. QED BY <1>1, <2>1, ElementOfSeq DEF DispatchInv, Top
<1>3. NullAssumption
  BY NullAssumption
<1>4. PICK i \in 1 .. Len(Top.copy), n \in {1, 2} :
        /\ stack' = WithTop(Called(Top, i, n)) /\ i >= Top.at
        /\ \A j \in 1 .. Len(Top.copy) : j > Top.at /\ j < i => Top.copy[j] = Null
  <2>1. CASE CallNext
    <3>1. Remaining(Top) # {} /\ stack' = WithTop(Called(Top, Min(Remaining(Top)), 1))
      BY <2>1 DEF CallNext
    <3>2. /\ Min(Remaining(Top)) \in 1 .. Len(Top.copy) /\ Min(Remaining(Top)) > Top.at
          /\ \A j \in 1 .. Len(Top.copy) : j > Top.at /\ j < Min(Remaining(Top)) => Top.copy[j] = Null
      BY <1>2, <3>1, NextEntry
    <3>3. Top.at \in Nat /\ Len(Top.copy) \in Nat
      BY <1>2, FrameFields DEF Frames
    <3>. QED BY <3>1, <3>2, <3>3
  <2>2. CASE CallAgain
    <3>1. stack' = WithTop(Called(Top, Top.at, 2)) /\ Top.at > 0
      BY <2>2 DEF CallAgain, TwiceDone
    <3>2. Top.at \in Nat /\ Len(Top.copy) \in Nat /\ Top.at <= Len(Top.copy)
      BY <1>2, FrameFields DEF Frames, FrameInv, PlaceOK
    <3>. QED BY <3>1, <3>2
  <2>. QED BY <2>1, <2>2
<1>. DEFINE g == Called(Top, i, n)
<1>5. /\ g \in Frames /\ FrameInv(g) /\ g.kept = Top.kept /\ g.copy = Top.copy
      /\ g.nested = Top.nested /\ g.running /\ g.at = i
  BY <1>2, <1>3, <1>4, CalledKeepsFrame
<1>. HIDE DEF g
<1>6. DispatchInv'
  BY <1>1, <1>2, <1>4, <1>5, TopStepKeepsDispatch DEF g
<1>7. stack'[1] = g /\ stack' # << >>
  BY <1>1, <1>4, <1>5, TopReplaced DEF DispatchInv, DispatchType, g
<1>. QED BY <1>1, <1>2, <1>5, <1>6, <1>7

\* A callback returns.
LEMMA ReturnKeepsDispatch ==
  ASSUME DispatchInv, Return
  PROVE  /\ DispatchInv' /\ stack # << >> /\ justRemoved' = {} /\ listeners' = listeners
         /\ stack'[1].nested = stack[1].nested /\ Len(stack'[1].copy) = Len(stack[1].copy)
         /\ \A j \in 1 .. Len(stack[1].copy) : stack'[1].copy[j] =
              IF stack[1].copy[j] \in justRemoved THEN Null ELSE stack[1].copy[j]
<1>. DEFINE g == [Top EXCEPT !.running = FALSE, !.copy = Cleared(@)]
<1>1. /\ stack # << >> /\ Top.running /\ justRemoved' = {} /\ UNCHANGED listeners /\ stack' = WithTop(g)
  BY DEF Return
<1>2. Top \in Frames /\ FrameInv(Top) /\ Top = stack[1] /\ Top.kept \cap justRemoved = {}
  <2>1. Len(stack) \in Nat /\ Len(stack) >= 1 /\ stack \in Seq(Frames)
    BY <1>1, EmptySeq DEF DispatchInv, DispatchType
  <2>. QED BY <1>1, <2>1, ElementOfSeq DEF DispatchInv, RemovalsWait, Top
<1>3. /\ g \in Frames /\ FrameInv(g) /\ g.kept = Top.kept /\ g.nested = Top.nested
      /\ Len(g.copy) = Len(Top.copy)
      /\ \A j \in 1 .. Len(Top.copy) : g.copy[j] = IF Top.copy[j] \in justRemoved THEN Null ELSE Top.copy[j]
  BY <1>2, ReturnKeepsFrame, ZenonT(90)
<1>. HIDE DEF g
<1>4. DispatchInv'
  BY <1>1, <1>2, <1>3, TopStepKeepsDispatch
<1>5. stack'[1] = g
  BY <1>1, <1>3, TopReplaced DEF DispatchInv, DispatchType
<1>. QED BY <1>1, <1>2, <1>3, <1>4, <1>5

\* A round ends, and with the last one the notification.
LEMMA EndRoundKeepsDispatch ==
  ASSUME DispatchInv, EndRound
  PROVE  /\ DispatchInv' /\ UNCHANGED <<listeners, justRemoved>>
         /\ stack' # << >> => stack'[1].nested \/ (stack'[1].nested = stack[1].nested /\ stack'[1].copy = stack[1].copy)
<1>. DEFINE g == [Top EXCEPT !.at = 0, !.calls = 0, !.rounds = Tail(@), !.called = {}]
<1>1. stack # << >> /\ ~Top.running /\ UNCHANGED <<listeners, justRemoved>>
  BY DEF EndRound, RoundDone
<1>2. /\ Top \in Frames /\ FrameInv(Top) /\ Top = stack[1]
      /\ Len(stack) \in Nat /\ Len(stack) >= 1 /\ stack \in Seq(Frames)
  <2>1. Len(stack) \in Nat /\ Len(stack) >= 1 /\ stack \in Seq(Frames)
    BY <1>1, EmptySeq DEF DispatchInv, DispatchType
  <2>. QED BY <1>1, <2>1, ElementOfSeq DEF DispatchInv, Top
<1>3. CASE Len(Top.rounds) # 1
  <2>1. stack' = WithTop(g)
    BY <1>3 DEF EndRound
  <2>2. /\ g \in Frames /\ FrameInv(g) /\ g.kept = Top.kept /\ ~g.running /\ g.nested = Top.nested /\ g.copy = Top.copy
    BY <1>1, <1>2, <1>3, NextRoundKeepsFrame
  <2>. HIDE DEF g
  <2>3. DispatchInv'
    BY <1>1, <1>2, <2>1, <2>2, TopStepKeepsDispatch
  <2>4. stack'[1] = g
    BY <1>1, <1>2, <2>1, <2>2, TopReplaced
  <2>. QED BY <1>1, <1>2, <2>2, <2>3, <2>4
<1>4. CASE Len(Top.rounds) = 1
  <2>1. stack' = Tail(stack)
    BY <1>4 DEF EndRound
  <2>2. /\ stack' \in Seq(Frames) /\ Len(stack') = Len(stack) - 1
        /\ \A j \in 1 .. Len(stack') : stack'[j] = stack[j + 1]
    BY <1>1, <1>2, <2>1, HeadTailProperties
  <2>3. Len(stack') \in Nat /\ \A j \in 1 .. Len(stack') : j + 1 \in 2 .. Len(stack) /\ j + 1 \in 1 .. Len(stack)
    BY <1>2, <2>2
  <2>4. \A j \in 1 .. Len(stack') :
          /\ FrameInv(stack'[j]) /\ stack'[j].running /\ stack'[j].nested /\ stack'[j].kept \cap justRemoved = {}
    BY <2>2, <2>3 DEF DispatchInv, RemovalsWait
  <2>5. stack' # << >> => 1 \in 1 .. Len(stack')
    <3>1. stack' # << >> => Len(stack') \in Nat \ {0}
      BY <2>2, EmptySeq
    <3>. QED BY <3>1
  <2>6. DispatchType' /\ ListenersInOrder'
    <3>1. Len(stack) <= MaxDepth /\ MaxDepth \in Nat
      BY DepthAssumption DEF DispatchInv, DispatchType, DepthAssumption
    <3>2. Len(stack') <= MaxDepth
      BY <1>2, <2>2, <3>1
    <3>. QED BY <1>1, <2>2, <3>2 DEF DispatchInv, DispatchType, ListenersInOrder
  <2>7. RemovalsWait'
    <3>1. \A j \in 2 .. Len(stack') : j \in 1 .. Len(stack')
      BY <2>3
    <3>. QED BY <1>1, <2>4, <2>5, <3>1 DEF RemovalsWait
  <2>8. DispatchInv'
    BY <2>4, <2>6, <2>7 DEF DispatchInv, FrameInv, PlaceOK, InOrder, CalledBefore, KeptReached
  <2>. QED BY <1>1, <2>4, <2>5, <2>8
<1>. QED BY <1>3, <1>4

\* Every step keeps what the frames promise.
LEMMA StepKeepsDispatch ==
  ASSUME DispatchInv, [Next]_vars
  PROVE  DispatchInv'
<1>1. CASE UNCHANGED vars
  BY <1>1 DEF vars, DispatchInv, DispatchType, ListenersInOrder, RemovalsWait, FrameInv, PlaceOK, InOrder,
              CalledBefore, KeptReached
<1>2. CASE Next
  BY <1>2, AddKeepsDispatch, RemoveKeepsDispatch, NotifyKeepsDispatch, CallKeepsDispatch, ReturnKeepsDispatch,
     EndRoundKeepsDispatch DEF Next
<1>. QED BY <1>1, <1>2

\* Nothing is registered and nobody notified at the start.
LEMMA InitDispatch ==
  ASSUME Init
  PROVE  DispatchInv /\ SkipsInv
<1>1. listeners = << >> /\ stack = << >> /\ justRemoved = {} /\ Len(<< >>) = 0
  BY EmptySeq DEF Init
<1>2. << >> \in Seq(Listeners) /\ << >> \in Seq(Frames)
  BY EmptySeq
<1>3. DispatchType
  BY <1>1, <1>2, DepthAssumption DEF DispatchType, DepthAssumption
<1>. QED BY <1>1, <1>3 DEF DispatchInv, ListenersInOrder, RemovalsWait, SkipsInv

-------------------------------------------------------------------------------
(* Theorems                                                                *)

\* The invariant holds throughout.
LEMMA AlwaysDispatch == Spec => []DispatchInv
<1>1. Init => DispatchInv
  BY InitDispatch
<1>2. DispatchInv /\ [Next]_vars => DispatchInv'
  BY StepKeepsDispatch
<1>. QED BY <1>1, <1>2, PTL DEF Spec

\* The types hold, and "higher numbers are invoked later": whatever callbacks
\* add, remove and notify, within a round no listener is called after one of
\* a greater weight.
THEOREM CallsAlwaysByWeight == Spec => []WellFormed
<1>1. ASSUME DispatchInv
      PROVE  TypeOK /\ CalledByWeight
  <2>1. /\ Len(stack) \in Nat /\ DOMAIN stack = 1 .. Len(stack)
        /\ \A i \in 1 .. Len(stack) : stack[i] \in Frames /\ FrameInv(stack[i])
    BY <1>1, LenProperties, ElementOfSeq DEF DispatchInv, DispatchType
  <2>2. ASSUME NEW f \in Frames, FrameInv(f)
        PROVE  /\ f.copy \in Seq(Listeners \cup {Null})
               /\ f.at \in 0 .. Len(f.copy) /\ f.calls \in 0 .. 2 /\ f.running \in BOOLEAN
               /\ f.rounds \in Seq({1, 2}) /\ f.rounds # << >>
               /\ f.kept \subseteq Listeners /\ f.called \subseteq Listeners \cup {Null}
               /\ f.nested \in BOOLEAN
    BY <2>2, FrameFields DEF Frames, Entries, FrameInv, PlaceOK
  <2>3. TypeOK
    BY <1>1, <2>1, <2>2 DEF TypeOK, DispatchInv, DispatchType
  <2>4. ASSUME NEW f \in Frames, FrameInv(f), f.running, Current(f) # Null, NEW l \in f.called \ {Null}
        PROVE  Weight[l] <= Weight[Current(f)]
    <3>1. f.at \in 1 .. Len(f.copy)
      BY <2>4, FrameFields DEF Frames, FrameInv, PlaceOK
    <3>. QED BY <2>4, <3>1 DEF FrameInv, CalledBefore, Weighs, Current
  <2>5. CalledByWeight
    BY <2>1, <2>4 DEF CalledByWeight
  <2>. QED BY <2>3, <2>5
<1>. QED BY <1>1, AlwaysDispatch, PTL DEF WellFormed

\* A listener that was registered when the notification began and was not
\* removed since has been called when the round is over, however deep the
\* notifications nest and whatever removals they consume.
THEOREM EveryoneAlwaysCalled == Spec => []EveryoneCalled
<1>1. ASSUME DispatchInv
      PROVE  EveryoneCalled
  <2>1. /\ DOMAIN stack = 1 .. Len(stack)
        /\ \A i \in 1 .. Len(stack) : stack[i] \in Frames /\ FrameInv(stack[i])
    BY <1>1, LenProperties, ElementOfSeq DEF DispatchInv, DispatchType
  <2>2. ASSUME NEW f \in Frames, FrameInv(f), RoundDone(f), NEW l \in f.kept
        PROVE  l \in f.called
    <3>1. PICK j \in 1 .. Len(f.copy) : f.copy[j] = l /\ (j <= f.at => l \in f.called)
      BY <2>2 DEF FrameInv, KeptReached
    <3>2. l # Null
      BY <2>2, NullAssumption DEF Frames, NullAssumption
    <3>3. j \notin Remaining(f)
      BY <2>2 DEF RoundDone
    <3>4. j <= f.at
      BY <2>2, <3>1, <3>2, <3>3, FrameFields DEF Frames
    <3>. QED BY <3>1, <3>4
  <2>. QED BY <2>1, <2>2 DEF EveryoneCalled
<1>. QED BY <1>1, AlwaysDispatch, PTL

\* Every step keeps the copy of a notification without a nested one to the
\* listeners that are registered, and the removed that wait to be cleared.
LEMMA StepKeepsSkips ==
  ASSUME DispatchInv, SkipsInv, [Next]_vars
  PROVE  SkipsInv'
<1>1. ASSUME NEW l \in Listeners, AddListener(l)
      PROVE  SkipsInv'
  BY <1>1, AddKeepsDispatch DEF AddListener, SkipsInv
<1>2. ASSUME NEW l \in Listeners, RemoveListener(l)
      PROVE  SkipsInv'
  <2>1. /\ Range(listeners) \subseteq Range(listeners') \cup {l} /\ justRemoved' = justRemoved \cup {l}
        /\ stack' = [j \in DOMAIN stack |-> [stack[j] EXCEPT !.kept = @ \ {l}]]
    BY <1>2, RemoveKeepsDispatch DEF RemoveListener
  <2>2. stack' # << >> => stack # << >> /\ 1 \in DOMAIN stack /\ stack[1] \in Frames
    <3>1. DOMAIN stack = 1 .. Len(stack) /\ DOMAIN stack' = DOMAIN stack /\ Len(stack) \in Nat
          /\ stack \in Seq(Frames) /\ stack' \in Seq(Frames)
      BY <1>2, <2>1, LenProperties, RemoveKeepsDispatch DEF DispatchInv, DispatchType
    <3>2. stack' # << >> => Len(stack') \in Nat \ {0} /\ DOMAIN stack' = 1 .. Len(stack')
      BY <3>1, EmptySeq, LenProperties
    <3>3. stack' # << >> => 1 \in DOMAIN stack
      BY <3>1, <3>2
    <3>4. stack' # << >> => stack # << >>
      BY <3>1, <3>3, EmptySeq
    <3>. QED BY <3>1, <3>3, <3>4, ElementOfSeq
  <2>3. stack' # << >> => stack'[1].copy = stack[1].copy /\ stack'[1].nested = stack[1].nested
    BY <2>1, <2>2 DEF Frames
  <2>. QED BY <2>1, <2>2, <2>3 DEF SkipsInv
<1>3. ASSUME NEW rounds \in Rounds, Notify(rounds)
      PROVE  SkipsInv'
  <2>1. listeners' = listeners /\ stack'[1] = Frame(rounds) /\ Frame(rounds).copy = listeners
    BY <1>3, NotifyKeepsDispatch DEF Notify, Frame
  <2>2. \A j \in 1 .. Len(listeners) : listeners[j] \in Range(listeners)
    BY RangeEquality DEF DispatchInv, DispatchType
  <2>. QED BY <2>1, <2>2 DEF SkipsInv
<1>4. CASE CallNext \/ CallAgain
  <2>1. UNCHANGED <<listeners, justRemoved>>
    BY <1>4 DEF CallNext, CallAgain
  <2>. QED BY <1>4, <2>1, CallKeepsDispatch DEF SkipsInv
<1>5. CASE Return
  BY <1>5, ReturnKeepsDispatch DEF SkipsInv
<1>6. CASE EndRound
  <2>1. stack # << >>
    BY <1>6 DEF EndRound
  <2>. QED BY <1>6, <2>1, EndRoundKeepsDispatch DEF SkipsInv
<1>7. CASE UNCHANGED vars
  BY <1>7 DEF vars, SkipsInv
<1>. QED BY <1>1, <1>2, <1>3, <1>4, <1>5, <1>6, <1>7 DEF Next

\* What the callbacks of a notification remove it never calls again, in this
\* round or a later one, as long as no other notification is nested in it.
THEOREM RemovedAlwaysSkipped == Spec => RemovedAreSkipped
<1>1. ASSUME DispatchInv, SkipsInv, CallStep, ~stack[1].nested, Current(stack'[1]) # Null
      PROVE  Current(stack'[1]) \in Range(listeners)
  <2>1. /\ stack # << >> /\ ~stack[1].running /\ stack'[1].copy = stack[1].copy
        /\ stack'[1].at \in 1 .. Len(stack'[1].copy)
    BY <1>1, CallKeepsDispatch DEF CallStep
  <2>2. justRemoved = {}
    BY <1>1, <2>1 DEF DispatchInv, RemovalsWait
  <2>. QED BY <1>1, <2>1, <2>2 DEF SkipsInv, Current
<1>2. Init => SkipsInv
  BY InitDispatch
<1>3. DispatchInv /\ SkipsInv /\ [Next]_vars => SkipsInv'
  BY StepKeepsSkips
<1>4. DispatchInv /\ SkipsInv =>
        [CallStep /\ ~stack[1].nested /\ Current(stack'[1]) # Null =>
           Current(stack'[1]) \in Range(listeners)]_vars
  BY <1>1
<1>. QED BY <1>2, <1>3, <1>4, AlwaysDispatch, PTL DEF Spec, RemovedAreSkipped

===============================================================================
