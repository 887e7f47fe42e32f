--------------------------- MODULE MemoryTableProofs ---------------------------
(***************************************************************************)
(* Proofs about MemoryTable, for every number of columns and every set of  *)
(* times, values and limits.                                               *)
(*                                                                         *)
(* WellFormed is not inductive: that a bin has as many positions as times  *)
(* does not say that two times have different ones, nor that a column in   *)
(* no subtable is empty.  TableOK says both.  WithinLimit holds between    *)
(* two swaps of the bins only because none holds more than its half of the *)
(* limit (Halved).  TableInv is their conjunction; it implies the three    *)
(* invariants and makes every step one of TimeTable.                       *)
(***************************************************************************)
EXTENDS MemoryTable, TimeSetsProofs, SequenceTheorems, FiniteSetTheorems

Bin      == UNION {[D -> Nat] : D \in SUBSET Time}
Subtable == [columns : SUBSET Column, stale : Bin, fresh : Bin]
Values   == [stale : Seq(Value), fresh : Seq(Value)]

\* A bin numbers finitely many times from one on.
BinOK(b) ==
  /\ DOMAIN b \in SUBSET Time /\ IsFiniteSet(DOMAIN b)
  /\ b \in [DOMAIN b -> 1 .. Cardinality(DOMAIN b)]
  /\ \A t, u \in DOMAIN b : b[t] = b[u] => t = u

SubOK(s) ==
  /\ s \in Subtable
  /\ BinOK(s.stale) /\ BinOK(s.fresh)
  /\ DOMAIN s.stale \cap DOMAIN s.fresh = {}

\* A column has one value for each time of its subtable.
Fits(v, s) ==
  /\ v \in Values
  /\ Len(v.stale) = Cardinality(DOMAIN s.stale)
  /\ Len(v.fresh) = Cardinality(DOMAIN s.fresh)

\* The cells of a column with values v in subtable s
CellAt(s, v, t) == IF t \in DOMAIN s.stale THEN v.stale[s.stale[t]] ELSE v.fresh[s.fresh[t]]
CellsIn(s, v)   == [t \in TimesOf(s) |-> CellAt(s, v, t)]

-----------------------------------------------------------------------------
(* Ranks.                                                                      *)

\* The members below x are finitely many, fewer than all, and more for a later x.
LEMMA RankBounds ==
  ASSUME NEW S \in SUBSET Int, IsFiniteSet(S), NEW x \in Int
  PROVE  /\ Rank(S, x) \in 0 .. Cardinality(S)
         /\ x \in S => Rank(S, x) < Cardinality(S)
<1>. DEFINE B == {y \in S : y < x}
<1>1. B \in SUBSET S /\ IsFiniteSet(B) /\ Cardinality(B) <= Cardinality(S)
      /\ (Cardinality(S) = Cardinality(B) => S = B)
  BY FS_Subset
<1>2. Cardinality(S) \in Nat /\ Cardinality(B) \in Nat
  BY <1>1, FS_CardinalityType
<1>3. x \in S => x \notin B
  OBVIOUS
<1>4. Rank(S, x) = Cardinality(B)
  BY DEF Rank
<1>. HIDE DEF B
<1>. QED BY <1>1, <1>2, <1>3, <1>4

LEMMA RankGrows ==
  ASSUME NEW S \in SUBSET Int, IsFiniteSet(S), NEW x \in S, NEW y \in Int, x < y
  PROVE  Rank(S, x) < Rank(S, y)
<1>. DEFINE B == {z \in S : z < x}
            C == {z \in S : z < y}
<1>1. IsFiniteSet(C)
  BY FS_Subset
<1>2. B \in SUBSET C /\ x \in C /\ x \notin B
  <2>1. \A z \in S : z < x => z < y
    OBVIOUS
  <2>2. ~(x < x)
    OBVIOUS
  <2>. QED BY <2>1, <2>2
<1>3. Rank(S, x) = Cardinality(B) /\ Rank(S, y) = Cardinality(C)
  BY DEF Rank
<1>. HIDE DEF B, C
<1>4. Cardinality(B) <= Cardinality(C) /\ Cardinality(C) # Cardinality(B) /\ IsFiniteSet(B)
  BY <1>1, <1>2, FS_Subset
<1>5. Cardinality(C) \in Nat /\ Cardinality(B) \in Nat
  BY <1>1, <1>4, FS_CardinalityType
<1>. QED BY <1>3, <1>4, <1>5

\* Every place up to the number of members is that of one member.
LEMMA NthIs ==
  ASSUME NEW S \in SUBSET Int, IsFiniteSet(S), NEW n \in 1 .. Cardinality(S)
  PROVE  Nth(S, n) \in S /\ Rank(S, Nth(S, n)) = n - 1
<1>. DEFINE N == Cardinality(S)
            R == [x \in S |-> Rank(S, x)]
<1>1. N \in Nat
  BY FS_CardinalityType
<1>2. R \in Injection(S, 0 .. N - 1)
  <2>1. \A x \in S : Rank(S, x) \in 0 .. N - 1
    BY <1>1, RankBounds
  <2>2. \A x, y \in S : Rank(S, x) = Rank(S, y) => x = y
    <3>. TAKE x \in S, y \in S
    <3>1. x \in Int /\ y \in Int /\ (x < y \/ y < x \/ x = y)
      OBVIOUS
    <3>2. Rank(S, x) \in Int /\ Rank(S, y) \in Int
      BY <2>1
    <3>3. x < y => Rank(S, x) < Rank(S, y)
      BY <3>1, RankGrows
    <3>4. y < x => Rank(S, y) < Rank(S, x)
      BY <3>1, RankGrows
    <3>. QED BY <3>1, <3>2, <3>3, <3>4
  <2>. QED BY <2>1, <2>2 DEF Injection, IsInjective
<1>3. IsFiniteSet(0 .. N - 1) /\ Cardinality(0 .. N - 1) = N
  <2>1. N - 1 \in Int /\ 0 \in Int /\ (0 > N - 1 => N = 0)
    BY <1>1
  <2>. HIDE DEF N
  <2>. QED BY <1>1, <2>1, FS_Interval
<1>4. R \in Surjection(S, 0 .. N - 1)
  BY <1>2, <1>3, FS_Injection
<1>5. n - 1 \in 0 .. N - 1
  BY <1>1
<1>6. \E x \in S : Rank(S, x) = n - 1
  BY <1>4, <1>5 DEF Surjection
<1>. QED BY <1>6 DEF Nth

\* A member has its place.
LEMMA NthOfRank ==
  ASSUME NEW S \in SUBSET Int, IsFiniteSet(S), NEW x \in S
  PROVE  Rank(S, x) + 1 \in 1 .. Cardinality(S) /\ Nth(S, Rank(S, x) + 1) = x
<1>1. Rank(S, x) \in Nat /\ Rank(S, x) < Cardinality(S) /\ Cardinality(S) \in Nat
  BY RankBounds, FS_CardinalityType
<1>. DEFINE y == Nth(S, Rank(S, x) + 1)
<1>2. y \in S /\ Rank(S, y) = Rank(S, x)
  BY <1>1, NthIs
<1>. HIDE DEF y
<1>3. x \in Int /\ y \in Int /\ (x < y \/ y < x \/ x = y)
  BY <1>2
<1>4. ~(x < y) /\ ~(y < x)
  BY <1>1, <1>2, <1>3, RankGrows
<1>. QED BY <1>1, <1>3, <1>4 DEF y

\* Members in the order of their places.
LEMMA NthGrows ==
  ASSUME NEW S \in SUBSET Int, IsFiniteSet(S), NEW m \in 1 .. Cardinality(S),
         NEW n \in 1 .. Cardinality(S), m < n
  PROVE  Nth(S, m) < Nth(S, n)
<1>. DEFINE x == Nth(S, m)
            y == Nth(S, n)
<1>1. Cardinality(S) \in Nat
  BY FS_CardinalityType
<1>2. x \in S /\ y \in S /\ Rank(S, x) = m - 1 /\ Rank(S, y) = n - 1
  BY NthIs
<1>. HIDE DEF x, y
<1>3. y < x => Rank(S, y) < Rank(S, x)
  BY <1>2, RankGrows
<1>4. x < y
  BY <1>1, <1>2, <1>3
<1>. QED BY <1>4 DEF x, y

-----------------------------------------------------------------------------
(* One subtable and the values of one of its columns.                          *)

LEMMA BinIsBin ==
  ASSUME NEW b, BinOK(b)
  PROVE  b \in Bin /\ Cardinality(DOMAIN b) \in Nat
<1>1. Cardinality(DOMAIN b) \in Nat
  BY FS_CardinalityType DEF BinOK
<1>2. b \in [DOMAIN b -> Nat]
  BY <1>1 DEF BinOK
<1>. QED BY <1>1, <1>2 DEF Bin, BinOK

\* A bin gets a time with the next number.
LEMMA BinGrows ==
  ASSUME NEW b, BinOK(b), NEW t \in Time, t \notin DOMAIN b,
         NEW g, g = [u \in DOMAIN b \cup {t} |-> IF u = t THEN Cardinality(DOMAIN b) + 1 ELSE b[u]]
  PROVE  BinOK(g) /\ Cardinality(DOMAIN g) = Cardinality(DOMAIN b) + 1
<1>1. Cardinality(DOMAIN b) \in Nat
  BY BinIsBin
<1>2. DOMAIN g = DOMAIN b \cup {t}
  OBVIOUS
<1>3. IsFiniteSet(DOMAIN g) /\ Cardinality(DOMAIN g) = Cardinality(DOMAIN b) + 1
  BY <1>2, FS_AddElement DEF BinOK
<1>4. g \in [DOMAIN g -> 1 .. Cardinality(DOMAIN g)]
  <2>1. \A u \in DOMAIN b : b[u] \in 1 .. Cardinality(DOMAIN b)
    BY DEF BinOK
  <2>2. \A u \in DOMAIN g : g[u] \in 1 .. Cardinality(DOMAIN b) + 1
    BY <1>1, <1>2, <2>1
  <2>3. g = [u \in DOMAIN g |-> g[u]]
    BY <1>2
  <2>. QED BY <1>3, <2>2, <2>3
<1>5. ASSUME NEW u \in DOMAIN g, NEW w \in DOMAIN g, g[u] = g[w] PROVE u = w
  <2>1. \A x \in DOMAIN b : b[x] \in 1 .. Cardinality(DOMAIN b) /\ b[x] # Cardinality(DOMAIN b) + 1
    BY <1>1 DEF BinOK
  <2>. QED BY <1>2, <1>5, <2>1 DEF BinOK
<1>. QED BY <1>2, <1>3, <1>4, <1>5 DEF BinOK

LEMMA SubtableHas ==
  ASSUME NEW s \in Subtable
  PROVE  /\ s.columns \in SUBSET Column /\ s.stale \in Bin /\ s.fresh \in Bin
         /\ s = [columns |-> s.columns, stale |-> s.stale, fresh |-> s.fresh]
  BY DEF Subtable

\* The columns of a subtable do not matter to its times.
LEMMA OtherColumns ==
  ASSUME NEW s, SubOK(s), NEW owned \in SUBSET Column,
         NEW r, r = [s EXCEPT !.columns = owned]
  PROVE  /\ SubOK(r) /\ r.columns = owned /\ r.stale = s.stale /\ r.fresh = s.fresh
         /\ TimesOf(r) = TimesOf(s) /\ RowCount(r) = RowCount(s)
         /\ \A v : (Fits(v, s) => Fits(v, r)) /\ CellsIn(r, v) = CellsIn(s, v)
<1>1. r \in Subtable /\ r.columns = owned /\ r.stale = s.stale /\ r.fresh = s.fresh
  BY DEF SubOK, Subtable
<1>2. SubOK(r) /\ TimesOf(r) = TimesOf(s) /\ RowCount(r) = RowCount(s)
  BY <1>1 DEF SubOK, TimesOf, RowCount
<1>3. ASSUME NEW v PROVE (Fits(v, s) => Fits(v, r)) /\ CellsIn(r, v) = CellsIn(s, v)
  BY <1>1, <1>2 DEF Fits, CellsIn, CellAt
<1>. QED BY <1>1, <1>2, <1>3

\* An empty subtable
LEMMA EmptySubtable ==
  ASSUME NEW owned \in SUBSET Column
  PROVE  /\ SubOK(NewSubTable(owned)) /\ NewSubTable(owned).columns = owned
         /\ TimesOf(NewSubTable(owned)) = {}
         /\ Fits(NoValues, NewSubTable(owned))
         /\ \A v : CellsIn(NewSubTable(owned), v) = NoTimes
<1>1. DOMAIN NoTimes = {} /\ IsFiniteSet({}) /\ Cardinality({}) = 0 /\ NoTimes \in [{} -> Nat]
  BY FS_EmptySet DEF NoTimes
<1>2. BinOK(NoTimes) /\ NoTimes \in Bin
  BY <1>1 DEF BinOK, Bin, NoTimes
<1>3. SubOK(NewSubTable(owned)) /\ NewSubTable(owned).columns = owned
      /\ NewSubTable(owned).stale = NoTimes /\ NewSubTable(owned).fresh = NoTimes
  BY <1>1, <1>2 DEF SubOK, NewSubTable, Subtable
<1>4. TimesOf(NewSubTable(owned)) = {}
  BY <1>1, <1>3 DEF TimesOf
<1>5. NoValues \in Values /\ NoValues.stale = <<>> /\ NoValues.fresh = <<>>
  BY DEF NoValues, Values
<1>6. Fits(NoValues, NewSubTable(owned))
  BY <1>1, <1>3, <1>5 DEF Fits
<1>7. \A v : CellsIn(NewSubTable(owned), v) = NoTimes
  BY <1>4 DEF CellsIn, NoTimes
<1>. QED BY <1>3, <1>4, <1>6, <1>7

\* A time that a subtable lacks goes to the fresh bin, and taking it out again
\* restores the subtable.
LEMMA TimeAdded ==
  ASSUME NEW s, SubOK(s), NEW t \in Time, t \notin TimesOf(s)
  PROVE  LET g == FindOrAddTime(s, t) IN
         /\ SubOK(g) /\ g.columns = s.columns /\ g.stale = s.stale
         /\ DOMAIN g.fresh = DOMAIN s.fresh \cup {t}
         /\ g.fresh[t] = Cardinality(DOMAIN s.fresh) + 1
         /\ \A u \in DOMAIN s.fresh : g.fresh[u] = s.fresh[u]
         /\ Cardinality(DOMAIN g.fresh) = Cardinality(DOMAIN s.fresh) + 1
         /\ EraseTime(g, t) = s
<1>. DEFINE f == [u \in DOMAIN s.fresh \cup {t} |->
                    IF u = t THEN Cardinality(DOMAIN s.fresh) + 1 ELSE s.fresh[u]]
            g == FindOrAddTime(s, t)
<1>1. /\ s \in Subtable /\ BinOK(s.stale) /\ BinOK(s.fresh)
      /\ t \notin DOMAIN s.stale /\ t \notin DOMAIN s.fresh
  BY DEF SubOK, TimesOf
<1>2. BinOK(f) /\ Cardinality(DOMAIN f) = Cardinality(DOMAIN s.fresh) + 1
  BY <1>1, BinGrows
<1>3. DOMAIN f = DOMAIN s.fresh \cup {t} /\ f[t] = Cardinality(DOMAIN s.fresh) + 1
      /\ \A u \in DOMAIN s.fresh : f[u] = s.fresh[u]
  BY <1>1
<1>4. f \in Bin
  BY <1>2, BinIsBin
<1>5. g = [s EXCEPT !.fresh = f]
  BY DEF FindOrAddTime
<1>. HIDE DEF f, g
<1>6. g \in Subtable /\ g.columns = s.columns /\ g.stale = s.stale /\ g.fresh = f
  BY <1>1, <1>4, <1>5 DEF Subtable
<1>7. SubOK(g)
  BY <1>1, <1>2, <1>3, <1>6 DEF SubOK
<1>8. EraseTime(g, t) = s
  <2>. DEFINE h == [u \in DOMAIN g.fresh \ {t} |-> IF g.fresh[u] > g.fresh[t] THEN g.fresh[u] - 1
                                                  ELSE g.fresh[u]]
  <2>1. EraseTime(g, t) = [g EXCEPT !.fresh = h]
    BY <1>3, <1>6 DEF EraseTime
  <2>2. \A u \in DOMAIN s.fresh : g.fresh[u] = s.fresh[u] /\ ~(g.fresh[u] > g.fresh[t])
    <3>1. Cardinality(DOMAIN s.fresh) \in Nat /\ \A u \in DOMAIN s.fresh : s.fresh[u] \in 1 .. Cardinality(DOMAIN s.fresh)
      BY <1>1, BinIsBin DEF BinOK
    <3>. QED BY <1>3, <1>6, <3>1
  <2>3. DOMAIN g.fresh \ {t} = DOMAIN s.fresh
    BY <1>1, <1>3, <1>6
  <2>4. s.fresh = [u \in DOMAIN s.fresh |-> s.fresh[u]]
    BY <1>1 DEF BinOK
  <2>5. h = s.fresh
    BY <2>2, <2>3, <2>4
  <2>. HIDE DEF h
  <2>6. [g EXCEPT !.fresh = h] = s
    BY <1>1, <1>6, <2>5 DEF Subtable
  <2>. QED BY <2>1, <2>6
<1>. QED BY <1>2, <1>3, <1>6, <1>7, <1>8 DEF g

LEMMA CountsOf ==
  ASSUME NEW s, SubOK(s)
  PROVE  /\ Cardinality(DOMAIN s.stale) \in Nat /\ Cardinality(DOMAIN s.fresh) \in Nat
         /\ IsFiniteSet(TimesOf(s)) /\ TimesOf(s) \in SUBSET Time
         /\ Cardinality(TimesOf(s)) = RowCount(s)
         /\ \A t \in DOMAIN s.stale : s.stale[t] \in 1 .. Cardinality(DOMAIN s.stale)
         /\ \A t \in DOMAIN s.fresh : s.fresh[t] \in 1 .. Cardinality(DOMAIN s.fresh)
<1>1. BinOK(s.stale) /\ BinOK(s.fresh) /\ DOMAIN s.stale \cap DOMAIN s.fresh = {}
  BY DEF SubOK
<1>2. Cardinality(DOMAIN s.stale) \in Nat /\ Cardinality(DOMAIN s.fresh) \in Nat
  BY <1>1, BinIsBin
<1>3. IsFiniteSet(DOMAIN s.stale) /\ IsFiniteSet(DOMAIN s.fresh)
  BY <1>1 DEF BinOK
<1>4. /\ IsFiniteSet(DOMAIN s.stale \cup DOMAIN s.fresh)
      /\ Cardinality(DOMAIN s.stale \cup DOMAIN s.fresh)
           = Cardinality(DOMAIN s.stale) + Cardinality(DOMAIN s.fresh) - Cardinality({})
  BY <1>1, <1>3, FS_Union
<1>5. Cardinality({}) = 0
  BY FS_EmptySet
<1>. QED BY <1>1, <1>2, <1>4, <1>5 DEF TimesOf, RowCount, BinOK

LEMMA InsertedLast ==
  ASSUME NEW S, NEW q \in Seq(S), NEW x \in S
  PROVE  InsertAt(q, Len(q) + 1, x) = Append(q, x)
<1>. DEFINE k == Len(q) + 1
<1>1. InsertAt(q, k, x) = (SubSeq(q, 1, k - 1) \o <<x>>) \o SubSeq(q, k, Len(q))
  BY DEF InsertAt
<1>2. k - 1 = Len(q) /\ k \in Nat /\ ~(k <= Len(q))
  OBVIOUS
<1>3. SubSeq(q, 1, Len(q)) = q /\ SubSeq(q, k, Len(q)) = <<>>
  BY <1>2
<1>. HIDE DEF k
<1>4. InsertAt(q, k, x) = (q \o <<x>>) \o <<>>
  BY <1>1, <1>2, <1>3
<1>5. q \o <<x>> = Append(q, x) /\ Append(q, x) \in Seq(S)
  OBVIOUS
<1>6. (q \o <<x>>) \o <<>> = Append(q, x)
  BY <1>5
<1>. QED BY <1>4, <1>6 DEF k

\* The values of a column with the new cell
LEMMA CellAdded ==
  ASSUME NEW s, SubOK(s), NEW t \in Time, t \notin TimesOf(s),
         NEW v, Fits(v, s), NEW x \in Value
  PROVE  LET g == FindOrAddTime(s, t)
             w == SetCell(v, s, t, x)
         IN Fits(w, g) /\ CellsIn(g, w) = Contract!WithCell(CellsIn(s, v), t, x)
<1>. DEFINE g == FindOrAddTime(s, t)
            w == SetCell(v, s, t, x)
            n == Cardinality(DOMAIN s.fresh)
<1>1. /\ SubOK(g) /\ g.stale = s.stale /\ DOMAIN g.fresh = DOMAIN s.fresh \cup {t}
      /\ g.fresh[t] = n + 1 /\ \A u \in DOMAIN s.fresh : g.fresh[u] = s.fresh[u]
      /\ Cardinality(DOMAIN g.fresh) = n + 1
  BY TimeAdded
<1>2. n \in Nat /\ \A u \in DOMAIN s.fresh : s.fresh[u] \in 1 .. n
  BY CountsOf
<1>3. v \in Values /\ v.fresh \in Seq(Value) /\ Len(v.fresh) = n
  BY DEF Fits, Values
<1>4. t \notin DOMAIN s.stale /\ t \notin DOMAIN s.fresh /\ TimesOf(s) = DOMAIN s.stale \cup DOMAIN s.fresh
  BY DEF TimesOf
<1>5. w = [v EXCEPT !.fresh = Append(v.fresh, x)]
  <2>1. Min({n + 1, Len(v.fresh) + 1}) = n + 1
    BY <1>2, <1>3 DEF Min
  <2>2. InsertAt(v.fresh, n + 1, x) = Append(v.fresh, x)
    BY <1>3, InsertedLast
  <2>. HIDE DEF n
  <2>3. w = [v EXCEPT !.fresh = InsertAt(v.fresh, Min({n + 1, Len(v.fresh) + 1}), x)]
    BY DEF SetCell, n
  <2>. QED BY <2>1, <2>2, <2>3
<1>. HIDE DEF g, w, n
<1>6. /\ w \in Values /\ w.stale = v.stale /\ w.fresh = Append(v.fresh, x)
      /\ Len(w.fresh) = n + 1
  <2>1. Append(v.fresh, x) \in Seq(Value) /\ Len(Append(v.fresh, x)) = n + 1
    BY <1>2, <1>3
  <2>. QED BY <1>3, <1>5, <2>1 DEF Values
<1>7. Fits(w, g)
  BY <1>1, <1>6 DEF Fits
<1>8. TimesOf(g) = TimesOf(s) \cup {t}
  BY <1>1 DEF TimesOf
<1>9. \A u \in TimesOf(g) : CellAt(g, w, u) = IF u = t THEN x ELSE CellAt(s, v, u)
  <2>. TAKE u \in TimesOf(g)
  <2>1. CASE u = t
    <3>1. CellAt(g, w, u) = w.fresh[n + 1]
      BY <1>1, <1>4, <2>1 DEF CellAt
    <3>. QED BY <1>2, <1>3, <1>6, <2>1, <3>1
  <2>2. CASE u \in DOMAIN s.stale
    BY <1>1, <1>4, <1>6, <2>2 DEF CellAt
  <2>3. CASE u \in DOMAIN s.fresh /\ u \notin DOMAIN s.stale
    <3>1. CellAt(g, w, u) = w.fresh[s.fresh[u]] /\ CellAt(s, v, u) = v.fresh[s.fresh[u]] /\ u # t
      BY <1>1, <1>4, <2>3 DEF CellAt
    <3>. QED BY <1>2, <1>3, <1>6, <2>3, <3>1
  <2>. QED BY <1>4, <1>8, <2>1, <2>2, <2>3
<1>10. CellsIn(g, w) = Contract!WithCell(CellsIn(s, v), t, x)
  <2>1. DOMAIN CellsIn(s, v) = TimesOf(s) /\ \A u \in TimesOf(s) : CellsIn(s, v)[u] = CellAt(s, v, u)
    BY DEF CellsIn
  <2>2. Contract!WithCell(CellsIn(s, v), t, x) = [u \in TimesOf(s) \cup {t} |-> IF u = t THEN x ELSE CellAt(s, v, u)]
    BY <2>1 DEF Contract!WithCell
  <2>. QED BY <1>8, <1>9, <2>2 DEF CellsIn
<1>. QED BY <1>7, <1>10 DEF g, w

\* A cell that is there is replaced.
LEMMA CellReplaced ==
  ASSUME NEW s, SubOK(s), NEW t \in TimesOf(s), NEW v, Fits(v, s), NEW x \in Value,
         NEW w, w = [v EXCEPT ![BinOf(s, t)][s[BinOf(s, t)][t]] = x]
  PROVE  Fits(w, s) /\ CellsIn(s, w) = Contract!WithCell(CellsIn(s, v), t, x)
<1>1. /\ \A u \in DOMAIN s.stale : s.stale[u] \in 1 .. Len(v.stale)
      /\ \A u \in DOMAIN s.fresh : s.fresh[u] \in 1 .. Len(v.fresh)
  BY CountsOf DEF Fits
<1>2. v \in Values /\ v.stale \in Seq(Value) /\ v.fresh \in Seq(Value)
  BY DEF Fits, Values
<1>3. BinOK(s.stale) /\ BinOK(s.fresh) /\ DOMAIN s.stale \cap DOMAIN s.fresh = {}
      /\ TimesOf(s) = DOMAIN s.stale \cup DOMAIN s.fresh
  BY DEF SubOK, TimesOf
<1>4. /\ Fits(w, s)
      /\ \A u \in TimesOf(s) : CellAt(s, w, u) = IF u = t THEN x ELSE CellAt(s, v, u)
  <2>1. CASE t \in DOMAIN s.stale
    <3>. DEFINE y == [v.stale EXCEPT ![s.stale[t]] = x]
    <3>1. w = [v EXCEPT !.stale = y]
      BY <2>1 DEF BinOf
    <3>2. y \in Seq(Value) /\ Len(y) = Len(v.stale) /\ DOMAIN v.stale = 1 .. Len(v.stale)
      BY <1>1, <1>2, <2>1
    <3>3. \A k \in 1 .. Len(v.stale) : y[k] = IF k = s.stale[t] THEN x ELSE v.stale[k]
      BY <1>2, <3>2
    <3>. HIDE DEF y
    <3>4. w \in Values /\ w.stale = y /\ w.fresh = v.fresh
      BY <1>2, <3>1, <3>2 DEF Values
    <3>5. \A u \in DOMAIN s.stale : s.stale[u] = s.stale[t] <=> u = t
      BY <1>3, <2>1 DEF BinOK
    <3>6. \A u \in TimesOf(s) : CellAt(s, w, u) = IF u = t THEN x ELSE CellAt(s, v, u)
      BY <1>1, <2>1, <3>3, <3>4, <3>5 DEF CellAt
    <3>. QED BY <3>2, <3>4, <3>6 DEF Fits
  <2>2. CASE t \notin DOMAIN s.stale
    <3>. DEFINE y == [v.fresh EXCEPT ![s.fresh[t]] = x]
    <3>0. t \in DOMAIN s.fresh
      BY <1>3, <2>2
    <3>1. w = [v EXCEPT !.fresh = y]
      BY <2>2 DEF BinOf
    <3>2. y \in Seq(Value) /\ Len(y) = Len(v.fresh) /\ DOMAIN v.fresh = 1 .. Len(v.fresh)
      BY <1>1, <1>2, <3>0
    <3>3. \A k \in 1 .. Len(v.fresh) : y[k] = IF k = s.fresh[t] THEN x ELSE v.fresh[k]
      BY <1>2, <3>2
    <3>. HIDE DEF y
    <3>4. w \in Values /\ w.fresh = y /\ w.stale = v.stale
      BY <1>2, <3>1, <3>2 DEF Values
    <3>5. \A u \in DOMAIN s.fresh : s.fresh[u] = s.fresh[t] <=> u = t
      BY <1>3, <3>0 DEF BinOK
    <3>6. \A u \in TimesOf(s) : CellAt(s, w, u) = IF u = t THEN x ELSE CellAt(s, v, u)
      BY <1>1, <1>3, <2>2, <3>0, <3>3, <3>4, <3>5 DEF CellAt
    <3>. QED BY <3>2, <3>4, <3>6 DEF Fits
  <2>. QED BY <2>1, <2>2
<1>5. DOMAIN CellsIn(s, v) = TimesOf(s) /\ \A u \in TimesOf(s) : CellsIn(s, v)[u] = CellAt(s, v, u)
  BY DEF CellsIn
<1>6. Contract!WithCell(CellsIn(s, v), t, x) = [u \in TimesOf(s) |-> IF u = t THEN x ELSE CellAt(s, v, u)]
  <2>1. TimesOf(s) \cup {t} = TimesOf(s)
    OBVIOUS
  <2>. QED BY <1>5, <2>1 DEF Contract!WithCell
<1>. QED BY <1>4, <1>6 DEF CellsIn

-----------------------------------------------------------------------------
(* Limiting and flushing one subtable.                                         *)

\* A finite set of integers has a least and a greatest member.
LEMMA Extremes ==
  ASSUME NEW S \in SUBSET Int, IsFiniteSet(S), S # {}
  PROVE  /\ Min(S) \in S /\ \A y \in S : Min(S) <= y
         /\ Max(S) \in S /\ \A y \in S : y <= Max(S)
         /\ Nth(S, Cardinality(S)) = Max(S)
<1>. DEFINE N == Cardinality(S)
            a == Nth(S, 1)
            z == Nth(S, N)
<1>1. N \in Nat /\ N # 0
  BY FS_CardinalityType, FS_EmptySet
<1>2. a \in S /\ Rank(S, a) = 0 /\ z \in S /\ Rank(S, z) = N - 1
  <2>1. 1 \in 1 .. N /\ N \in 1 .. N
    BY <1>1
  <2>. QED BY <2>1, NthIs
<1>. HIDE DEF a, z, N
<1>3. \A y \in S : ~(y < a) /\ ~(z < y)
  <2>. TAKE y \in S
  <2>1. y \in Int /\ a \in Int /\ z \in Int
    BY <1>2
  <2>2. y < a => Rank(S, y) < Rank(S, a)
    BY <1>2, <2>1, RankGrows
  <2>3. z < y => Rank(S, z) < Rank(S, y)
    BY <1>2, <2>1, RankGrows
  <2>4. Rank(S, y) \in 0 .. N /\ Rank(S, y) < N
    BY <2>1, RankBounds DEF N
  <2>. QED BY <1>1, <1>2, <2>2, <2>3, <2>4
<1>4. \A y \in S : a <= y /\ z >= y /\ y <= z
  BY <1>2, <1>3
<1>5. Min(S) \in S /\ \A y \in S : Min(S) <= y
  BY <1>2, <1>4 DEF Min
<1>6. Max(S) \in S /\ \A y \in S : Max(S) >= y
  BY <1>2, <1>4 DEF Max
<1>7. Max(S) = z
  <2>1. Max(S) \in Int /\ z \in Int /\ z <= Max(S) /\ Max(S) <= z
    BY <1>2, <1>4, <1>6
  <2>. QED BY <2>1
<1>. QED BY <1>4, <1>5, <1>6, <1>7 DEF z, N

\* Swapping the bins of a subtable gives a subtable with the times of the fresh one.
LEMMA SubSwapped ==
  ASSUME NEW s, SubOK(s)
  PROVE  /\ SubOK(Swapped(s)) /\ Swapped(s).columns = s.columns
         /\ Swapped(s).stale = s.fresh /\ Swapped(s).fresh = NoTimes
         /\ DOMAIN NoTimes = {} /\ Cardinality(DOMAIN NoTimes) = 0
<1>. DEFINE r == Swapped(s)
<1>1. NoTimes \in Bin /\ DOMAIN NoTimes = {} /\ BinOK(NoTimes) /\ Cardinality(DOMAIN NoTimes) = 0
  <2>1. DOMAIN NoTimes = {} /\ IsFiniteSet({}) /\ Cardinality({}) = 0 /\ NoTimes \in [{} -> Nat]
    BY FS_EmptySet DEF NoTimes
  <2>. QED BY <2>1 DEF BinOK, Bin, NoTimes
<1>2. r \in Subtable /\ r.columns = s.columns /\ r.stale = s.fresh /\ r.fresh = NoTimes
  BY <1>1 DEF SubOK, Subtable, Swapped
<1>3. SubOK(r)
  BY <1>1, <1>2 DEF SubOK
<1>. QED BY <1>1, <1>2, <1>3

\* Swapping the bins keeps the cells of the fresh one.
LEMMA CellsSwapped ==
  ASSUME NEW s, SubOK(s), NEW v, Fits(v, s)
  PROVE  /\ SubOK(Swapped(s)) /\ Swapped(s).columns = s.columns
         /\ Swapped(s).stale = s.fresh /\ Swapped(s).fresh = NoTimes
         /\ TimesOf(Swapped(s)) = DOMAIN s.fresh
         /\ Fits(SwappedData(v), Swapped(s))
         /\ CellsIn(Swapped(s), SwappedData(v)) = Restrict(CellsIn(s, v), DOMAIN s.fresh)
<1>. DEFINE r == Swapped(s)
            w == SwappedData(v)
<1>1. SubOK(r) /\ r.columns = s.columns /\ r.stale = s.fresh /\ r.fresh = NoTimes
  BY SubSwapped
<1>2. DOMAIN NoTimes = {} /\ Cardinality(DOMAIN NoTimes) = 0
  BY SubSwapped
<1>4. TimesOf(r) = DOMAIN s.fresh
  BY <1>1, <1>2 DEF TimesOf
<1>5. w \in Values /\ w.stale = v.fresh /\ w.fresh = <<>> /\ Len(w.fresh) = 0
  BY DEF SwappedData, Fits, Values
<1>6. Fits(w, r)
  BY <1>1, <1>2, <1>5 DEF Fits
<1>7. ASSUME NEW t \in DOMAIN s.fresh PROVE CellAt(r, w, t) = CellsIn(s, v)[t]
  <2>1. t \notin DOMAIN s.stale /\ t \in TimesOf(s)
    BY DEF SubOK, TimesOf
  <2>2. CellsIn(s, v)[t] = v.fresh[s.fresh[t]]
    BY <2>1 DEF CellsIn, CellAt
  <2>. QED BY <1>1, <1>2, <1>5, <2>2 DEF CellAt
<1>8. CellsIn(r, w) = [t \in DOMAIN s.fresh |-> CellAt(r, w, t)]
  BY <1>4 DEF CellsIn
<1>. HIDE DEF r, w
<1>9. CellsIn(r, w) = Restrict(CellsIn(s, v), DOMAIN s.fresh)
  BY <1>7, <1>8 DEF Restrict
<1>. QED BY <1>1, <1>4, <1>6, <1>9 DEF r, w

\* The ranges that are erased hold the positions to erase and no others.
LEMMA RangesCover ==
  ASSUME NEW P \in SUBSET Nat, IsFiniteSet(P)
  PROVE  /\ \A r \in Ranges(P) : r \in Nat \X Nat /\ r[1] .. r[2] \subseteq P
         /\ \A q \in P : \E r \in Ranges(P) : q \in r[1] .. r[2]
<1>1. CASE P = {}
  BY <1>1 DEF Ranges
<1>. SUFFICES ASSUME P # {} PROVE
                 /\ \A r \in Ranges(P) : r \in Nat \X Nat /\ r[1] .. r[2] \subseteq P
                 /\ \A q \in P : \E r \in Ranges(P) : q \in r[1] .. r[2]
  BY <1>1
<1>2. CASE Cardinality(P) = Max(P) - Min(P) + 1
  <2>. DEFINE a == Min(P)
              z == Max(P)
  <2>1. P \in SUBSET Int
    OBVIOUS
  <2>2. a \in P /\ z \in P /\ \A q \in P : a <= q /\ q <= z
    BY <2>1, Extremes
  <2>3. Ranges(P) = {<<a, z>>}
    BY <1>2 DEF Ranges
  <2>. HIDE DEF a, z
  <2>4. a \in Nat /\ z \in Nat /\ a <= z /\ P \in SUBSET (a .. z)
    BY <2>2
  <2>5. IsFiniteSet(a .. z) /\ Cardinality(a .. z) = z - a + 1
    <3>1. a \in Int /\ z \in Int /\ ~(a > z)
      BY <2>4
    <3>. QED BY <3>1, FS_Interval
  <2>6. a .. z = P
    BY <1>2, <2>4, <2>5, FS_Subset DEF a, z
  <2>. QED BY <2>3, <2>4, <2>6
<1>3. CASE Cardinality(P) # Max(P) - Min(P) + 1
  <2>. DEFINE Even(q) == (q - RunStart(P, q)) % 2 = 0
              Cut(q)  == <<q, IF q + 1 \in P THEN q + 1 ELSE q>>
  <2>1. Ranges(P) = {Cut(q) : q \in {p \in P : Even(p)}}
    BY <1>3 DEF Ranges
  <2>2. \A q \in P : RunStart(P, q) \in P /\ RunStart(P, q) <= q /\ RunStart(P, q) .. q \subseteq P
    <3>. TAKE q \in P
    <3>. DEFINE A == {a \in P : a .. q \subseteq P}
    <3>0. A \in SUBSET Int /\ A \in SUBSET P
      <4>1. \A a \in A : a \in P /\ a \in Int
        OBVIOUS
      <4>. HIDE DEF A
      <4>. QED BY <4>1
    <3>1. q \in A
      <4>. HIDE DEF Cut, Even
      <4>1. q \in Nat
        OBVIOUS
      <4>2. \A x \in q .. q : x = q
        BY <4>1
      <4>3. q .. q \subseteq P
        BY <4>2
      <4>. QED BY <4>3
    <3>2. RunStart(P, q) = Min(A)
      BY DEF RunStart
    <3>. HIDE DEF A
    <3>3. IsFiniteSet(A) /\ A # {}
      BY <3>0, <3>1, FS_Subset
    <3>4. Min(A) \in A /\ Min(A) <= q
      BY <3>0, <3>1, <3>3, Extremes
    <3>. QED BY <3>2, <3>4 DEF A
  <2>3. \A q \in P : Cut(q) \in Nat \X Nat /\ Cut(q)[1] .. Cut(q)[2] \subseteq P /\ q \in Cut(q)[1] .. Cut(q)[2]
    OBVIOUS
  <2>4. ASSUME NEW q \in P, ~Even(q) PROVE \E r \in Ranges(P) : q \in r[1] .. r[2]
    <3>. DEFINE a == RunStart(P, q)
    <3>1. a \in Nat /\ q \in Nat /\ a <= q /\ a .. q \subseteq P
      BY <2>2
    <3>2. a # q
      <4>1. (q - q) % 2 = 0
        OBVIOUS
      <4>. HIDE DEF Cut
      <4>. QED BY <2>4, <4>1
    <3>. HIDE DEF a
    <3>3. q - 1 \in P
      <4>1. q - 1 \in a .. q
        BY <3>1, <3>2
      <4>. QED BY <3>1, <4>1
    <3>4. RunStart(P, q - 1) = a
      <4>1. \A x \in P : x .. q - 1 \subseteq P <=> x .. q \subseteq P
        <5>. TAKE x \in P
        <5>1. x \in Nat /\ q \in Nat /\ q \in P
          OBVIOUS
        <5>2. \A y \in x .. q : y \in x .. q - 1 \/ y = q
          BY <5>1
        <5>3. \A y \in x .. q - 1 : y \in x .. q
          BY <5>1
        <5>. QED BY <5>1, <5>2, <5>3
      <4>2. {x \in P : x .. q - 1 \subseteq P} = {x \in P : x .. q \subseteq P}
        BY <4>1
      <4>. QED BY <4>2 DEF RunStart, a
    <3>5. (q - 1 - a) % 2 = 0
      <4>1. (q - a) % 2 # 0
        BY <2>4 DEF a
      <4>2. q - 1 - a \in Nat /\ (q - 1 - a) + 1 = q - a
        BY <3>1, <3>2
      <4>3. \A n \in Nat : (n + 1) % 2 # 0 => n % 2 = 0
        OBVIOUS
      <4>. QED BY <4>1, <4>2, <4>3
    <3>6. Cut(q - 1) = <<q - 1, q>>
      BY <3>1
    <3>7. Cut(q - 1) \in Ranges(P)
      BY <2>1, <3>3, <3>4, <3>5
    <3>8. q \in (q - 1) .. q
      BY <3>1
    <3>. QED BY <3>6, <3>7, <3>8
  <2>5. ASSUME NEW q \in P, Even(q) PROVE \E r \in Ranges(P) : q \in r[1] .. r[2]
    <3>1. Cut(q) \in Ranges(P)
      BY <2>1, <2>5
    <3>. HIDE DEF Cut
    <3>. QED BY <2>3, <3>1
  <2>6. \A r \in Ranges(P) : \E q \in P : r = Cut(q)
    BY <2>1
  <2>. HIDE DEF Even, Cut
  <2>7. \A r \in Ranges(P) : r \in Nat \X Nat /\ r[1] .. r[2] \subseteq P
    BY <2>3, <2>6
  <2>. QED BY <2>4, <2>5, <2>7
<1>. QED BY <1>2, <1>3

\* The erased positions below one that stays are counted.
LEMMA BelowIsRank ==
  ASSUME NEW P \in SUBSET Nat, IsFiniteSet(P), NEW p \in Nat \ P
  PROVE  Below(Ranges(P), p) = Rank(P, p)
<1>. DEFINE B == UNION {r[1] .. r[2] : r \in {q \in Ranges(P) : q[2] < p}}
<1>1. \A r \in Ranges(P) : r \in Nat \X Nat /\ r[1] .. r[2] \subseteq P
  BY RangesCover
<1>2. ASSUME NEW q \in B PROVE q \in P /\ q < p
  <2>1. PICK r \in Ranges(P) : r[2] < p /\ q \in r[1] .. r[2]
    OBVIOUS
  <2>2. r[1] \in Nat /\ r[2] \in Nat /\ q \in P
    BY <1>1, <2>1
  <2>. QED BY <2>1, <2>2
<1>3. ASSUME NEW q \in P, q < p PROVE q \in B
  <2>1. PICK r \in Ranges(P) : q \in r[1] .. r[2]
    BY RangesCover
  <2>2. r[1] \in Nat /\ r[2] \in Nat /\ p \notin r[1] .. r[2]
    BY <1>1, <2>1
  <2>3. r[2] < p
    BY <1>3, <2>1, <2>2
  <2>. QED BY <2>1, <2>3
<1>4. B = {q \in P : q < p}
  <2>. HIDE DEF B
  <2>. QED BY <1>2, <1>3
<1>5. Below(Ranges(P), p) = Cardinality(B)
  BY DEF Below
<1>. QED BY <1>4, <1>5 DEF Rank

\* Of the numbers from one on, the erased and the others below p are all of them.
LEMMA RankOfOthers ==
  ASSUME NEW n \in Nat, NEW P \in SUBSET (1 .. n), NEW p \in 1 .. n
  PROVE  /\ IsFiniteSet(P) /\ IsFiniteSet((1 .. n) \ P)
         /\ Rank(P, p) \in Nat /\ Rank((1 .. n) \ P, p) = p - 1 - Rank(P, p)
<1>. DEFINE K == (1 .. n) \ P
            A == {q \in P : q < p}
            B == {q \in K : q < p}
<1>1. IsFiniteSet(1 .. n)
  <2>1. 1 \in Int /\ n \in Int
    OBVIOUS
  <2>. QED BY <2>1, FS_Interval
<1>2. IsFiniteSet(P) /\ IsFiniteSet(K)
  <2>1. K \in SUBSET (1 .. n)
    OBVIOUS
  <2>. QED BY <1>1, <2>1, FS_Subset
<1>3. IsFiniteSet(A) /\ IsFiniteSet(B)
  <2>1. A \in SUBSET P /\ B \in SUBSET K
    OBVIOUS
  <2>. HIDE DEF A, B, K
  <2>. QED BY <1>2, <2>1, FS_Subset
<1>4. A \cup B = 1 .. p - 1 /\ A \cap B = {}
  <2>1. \A q \in 1 .. p - 1 : q \in A \cup B
    OBVIOUS
  <2>2. \A q \in A \cup B : q \in 1 .. p - 1
    OBVIOUS
  <2>3. A \cap B = {}
    OBVIOUS
  <2>. HIDE DEF A, B
  <2>. QED BY <2>1, <2>2, <2>3
<1>5. Cardinality(1 .. p - 1) = p - 1
  <2>1. 1 \in Int /\ p - 1 \in Int /\ (1 > p - 1 => p - 1 = 0) /\ (p - 1) - 1 + 1 = p - 1
    OBVIOUS
  <2>. QED BY <2>1, FS_Interval
<1>6. Rank(P, p) = Cardinality(A) /\ Rank(K, p) = Cardinality(B)
  BY DEF Rank
<1>. HIDE DEF A, B, K
<1>7. Cardinality(A \cup B) = Cardinality(A) + Cardinality(B) - Cardinality(A \cap B)
  BY <1>3, FS_Union
<1>8. Cardinality({}) = 0 /\ Cardinality(A) \in Nat /\ Cardinality(B) \in Nat
  BY <1>3, FS_EmptySet, FS_CardinalityType
<1>9. p - 1 = Cardinality(A) + Cardinality(B)
  <2>1. Cardinality(A \cup B) = p - 1 /\ Cardinality(A \cap B) = 0
    BY <1>4, <1>5, <1>8
  <2>. QED BY <1>7, <1>8, <2>1
<1>. QED BY <1>2, <1>6, <1>8, <1>9 DEF K

\* Flushing a range of times keeps the others with their values.
LEMMA BinFlushed ==
  ASSUME NEW b, BinOK(b), NEW start \in Time, NEW end
  PROVE  LET f == FlushTimes(b, start, end)
         IN /\ BinOK(f) /\ DOMAIN f = DOMAIN b \ Flushed(b, start, end)
            /\ \A v \in Seq(Value) : Len(v) = Cardinality(DOMAIN b) =>
                 LET w == FlushValues(v, b, start, end)
                 IN /\ w \in Seq(Value) /\ Len(w) = Cardinality(DOMAIN f)
                    /\ \A t \in DOMAIN f : w[f[t]] = v[b[t]]
<1>. DEFINE f == FlushTimes(b, start, end)
            gone == Flushed(b, start, end)
            D == DOMAIN b \ gone
            n == Cardinality(DOMAIN b)
            P == {b[t] : t \in gone}
            K == (1 .. n) \ P
<1>1. n \in Nat /\ gone \in SUBSET DOMAIN b /\ b \in [DOMAIN b -> 1 .. n]
      /\ \A t, u \in DOMAIN b : b[t] = b[u] => t = u
  BY BinIsBin DEF BinOK, Flushed
<1>. HIDE DEF gone, n
<1>2. P \in SUBSET (1 .. n) /\ P \in SUBSET Nat /\ K \in SUBSET (1 .. n) /\ K \in SUBSET Int
  BY <1>1
<1>3. IsFiniteSet(P) /\ IsFiniteSet(K)
  <2>1. IsFiniteSet(1 .. n)
    <3>1. 1 \in Int /\ n \in Int
      BY <1>1
    <3>. QED BY <3>1, FS_Interval
  <2>. HIDE DEF P, K
  <2>. QED BY <1>2, <2>1, FS_Subset
<1>4. \A t \in D : b[t] \in K
  BY <1>1
<1>5. \A p \in K : \E t \in D : b[t] = p
  <2>1. b \in Surjection(DOMAIN b, 1 .. n)
    <3>1. b \in Injection(DOMAIN b, 1 .. n)
      BY <1>1 DEF Injection, IsInjective
    <3>2. IsFiniteSet(1 .. n) /\ Cardinality(1 .. n) = n
      <4>1. 1 \in Int /\ n \in Int /\ (1 > n => n = 0) /\ n - 1 + 1 = n
        BY <1>1
      <4>. QED BY <4>1, FS_Interval
    <3>. QED BY <3>1, <3>2, FS_Injection DEF n
  <2>2. \A p \in 1 .. n : \E t \in DOMAIN b : b[t] = p
    BY <2>1 DEF Surjection
  <2>. QED BY <2>2
<1>6. Ranges(P) = Ranges({b[t] : t \in Flushed(b, start, end)})
  BY DEF gone
<1>. HIDE DEF P
<1>7. \A p \in K : /\ p - Below(Ranges(P), p) = Rank(K, p) + 1
                   /\ Rank(K, p) + 1 \in 1 .. Cardinality(K) /\ Nth(K, Rank(K, p) + 1) = p
  <2>. TAKE p \in K
  <2>1. p \in 1 .. n /\ p \in Nat \ P
    BY <1>2
  <2>2. Below(Ranges(P), p) = Rank(P, p)
    BY <1>2, <1>3, <2>1, BelowIsRank
  <2>3. Rank(P, p) \in Nat /\ Rank(K, p) = p - 1 - Rank(P, p)
    BY <1>1, <1>2, <2>1, RankOfOthers
  <2>. HIDE DEF K
  <2>. QED BY <1>2, <1>3, <2>1, <2>2, <2>3, NthOfRank
<1>8. f = [t \in D |-> Rank(K, b[t]) + 1]
  <2>1. f = [t \in D |-> b[t] - Below(Ranges(P), b[t])]
    BY <1>6 DEF FlushTimes, gone
  <2>. HIDE DEF f, D, K
  <2>. QED BY <1>4, <1>7, <2>1
<1>9. DOMAIN f = D
  BY <1>8
<1>. HIDE DEF f
<1>10. IsFiniteSet(D) /\ D \in SUBSET Time
  <2>1. D \in SUBSET DOMAIN b /\ DOMAIN b \in SUBSET Time /\ IsFiniteSet(DOMAIN b)
    BY DEF BinOK
  <2>. HIDE DEF D
  <2>. QED BY <2>1, FS_Subset
<1>. HIDE DEF D
<1>11. Cardinality(D) = Cardinality(K)
  <2>. DEFINE h == [t \in D |-> b[t]]
  <2>1. \A t \in D : t \in DOMAIN b
    BY DEF D
  <2>2. h \in [D -> K]
    <3>. HIDE DEF K
    <3>. QED BY <1>4
  <2>3. \A t, u \in D : h[t] = h[u] => t = u
    BY <1>1, <2>1
  <2>4. \A p \in K : \E t \in D : h[t] = p
    BY <1>5
  <2>. HIDE DEF h, K
  <2>5. h \in Bijection(D, K)
    BY <2>2, <2>3, <2>4 DEF Bijection, Injection, Surjection, IsInjective
  <2>6. ExistsBijection(D, K)
    BY <2>5 DEF ExistsBijection
  <2>. QED BY <1>10, <2>6, FS_Bijection
<1>. DEFINE k == Cardinality(K)
<1>. HIDE DEF K
<1>12. f \in [D -> 1 .. k]
  BY <1>4, <1>7, <1>8
<1>13. \A t, u \in D : f[t] = f[u] => t = u
  <2>. TAKE t \in D, u \in D
  <2>. HAVE f[t] = f[u]
  <2>1. Nth(K, f[t]) = b[t] /\ Nth(K, f[u]) = b[u]
    BY <1>4, <1>7, <1>8
  <2>. QED BY <1>1, <2>1 DEF D
<1>14. BinOK(f)
  BY <1>9, <1>10, <1>11, <1>12, <1>13 DEF BinOK
<1>15. ASSUME NEW v \in Seq(Value), Len(v) = n
       PROVE  LET w == FlushValues(v, b, start, end)
              IN  w \in Seq(Value) /\ Len(w) = k /\ \A t \in D : w[f[t]] = v[b[t]]
  <2>. DEFINE w == FlushValues(v, b, start, end)
  <2>1. w = [i \in 1 .. k |-> v[Nth(K, i)]]
    <3>1. DOMAIN v \ UNION {r[1] .. r[2] : r \in Ranges(P)} = K
      <4>1. DOMAIN v = 1 .. n
        BY <1>15
      <4>2. \A r \in Ranges(P) : r[1] .. r[2] \subseteq P
        BY <1>2, <1>3, RangesCover
      <4>3. \A q \in P : \E r \in Ranges(P) : q \in r[1] .. r[2]
        BY <1>2, <1>3, RangesCover
      <4>4. UNION {r[1] .. r[2] : r \in Ranges(P)} = P
        BY <4>2, <4>3
      <4>. QED BY <4>1, <4>4 DEF K
    <3>. QED BY <1>6, <3>1 DEF FlushValues
  <2>. HIDE DEF w
  <2>2. w \in Seq(Value) /\ Len(w) = k
    <3>1. \A i \in 1 .. k : v[Nth(K, i)] \in Value
      <4>. TAKE i \in 1 .. k
      <4>1. Nth(K, i) \in K
        BY <1>2, <1>3, NthIs
      <4>2. Nth(K, i) \in 1 .. n /\ n = Len(v)
        BY <1>2, <1>15, <4>1
      <4>. QED BY <4>2
    <3>2. k \in Nat
      BY <1>3, FS_CardinalityType
    <3>. HIDE DEF k
    <3>. QED BY <2>1, <3>1, <3>2
  <2>3. \A t \in D : w[f[t]] = v[b[t]]
    <3>. TAKE t \in D
    <3>1. f[t] \in 1 .. k /\ Nth(K, f[t]) = b[t]
      BY <1>4, <1>7, <1>8, <1>12
    <3>. HIDE DEF k
    <3>. QED BY <2>1, <3>1
  <2>. QED BY <2>2, <2>3 DEF w
<1>. QED BY <1>9, <1>11, <1>14, <1>15 DEF f, D, gone, n

\* The rest of a column when a range of times is flushed
Rest(cells, start, end) == Restrict(cells, {t \in DOMAIN cells : ~(start <= t /\ t < end)})

SubFlush(s, start, end) ==
  [s EXCEPT !.stale = FlushTimes(@, start, end), !.fresh = FlushTimes(@, start, end)]

ValuesFlush(v, s, start, end) ==
  [stale |-> FlushValues(v.stale, s.stale, start, end),
   fresh |-> FlushValues(v.fresh, s.fresh, start, end)]

LEMMA CellsFlushed ==
  ASSUME NEW s, SubOK(s), NEW start \in Time, NEW end
  PROVE  LET r == SubFlush(s, start, end)
         IN /\ SubOK(r) /\ r.columns = s.columns
            /\ Cardinality(DOMAIN r.stale) <= Cardinality(DOMAIN s.stale)
            /\ Cardinality(DOMAIN r.fresh) <= Cardinality(DOMAIN s.fresh)
            /\ \A v : Fits(v, s) =>
                 LET w == ValuesFlush(v, s, start, end)
                 IN  Fits(w, r) /\ CellsIn(r, w) = Rest(CellsIn(s, v), start, end)
<1>. DEFINE r == SubFlush(s, start, end)
            f == FlushTimes(s.stale, start, end)
            g == FlushTimes(s.fresh, start, end)
<1>1. /\ s \in Subtable /\ BinOK(s.stale) /\ BinOK(s.fresh)
      /\ DOMAIN s.stale \cap DOMAIN s.fresh = {}
  BY DEF SubOK
<1>2. /\ BinOK(f) /\ DOMAIN f = DOMAIN s.stale \ Flushed(s.stale, start, end)
      /\ BinOK(g) /\ DOMAIN g = DOMAIN s.fresh \ Flushed(s.fresh, start, end)
  BY <1>1, BinFlushed
<1>9. /\ \A v \in Seq(Value) : Len(v) = Cardinality(DOMAIN s.stale) =>
             LET w == FlushValues(v, s.stale, start, end)
             IN  w \in Seq(Value) /\ Len(w) = Cardinality(DOMAIN f) /\ \A t \in DOMAIN f : w[f[t]] = v[s.stale[t]]
      /\ \A v \in Seq(Value) : Len(v) = Cardinality(DOMAIN s.fresh) =>
             LET w == FlushValues(v, s.fresh, start, end)
             IN  w \in Seq(Value) /\ Len(w) = Cardinality(DOMAIN g) /\ \A t \in DOMAIN g : w[g[t]] = v[s.fresh[t]]
  BY <1>1, BinFlushed, ZenonT(40)
<1>3. r = [s EXCEPT !.stale = f, !.fresh = g]
  BY DEF SubFlush
<1>. HIDE DEF r, f, g
<1>4. f \in Bin /\ g \in Bin
  BY <1>2, BinIsBin
<1>5. r \in Subtable /\ r.columns = s.columns /\ r.stale = f /\ r.fresh = g
  BY <1>1, <1>3, <1>4 DEF Subtable
<1>6. SubOK(r)
  BY <1>1, <1>2, <1>5 DEF SubOK
<1>7. /\ Cardinality(DOMAIN f) <= Cardinality(DOMAIN s.stale)
      /\ Cardinality(DOMAIN g) <= Cardinality(DOMAIN s.fresh)
  <2>1. /\ DOMAIN f \in SUBSET DOMAIN s.stale /\ DOMAIN g \in SUBSET DOMAIN s.fresh
        /\ IsFiniteSet(DOMAIN s.stale) /\ IsFiniteSet(DOMAIN s.fresh)
    BY <1>1, <1>2 DEF BinOK
  <2>. QED BY <2>1, FS_Subset
<1>8. ASSUME NEW v, Fits(v, s)
      PROVE  LET w == ValuesFlush(v, s, start, end)
             IN  Fits(w, r) /\ CellsIn(r, w) = Rest(CellsIn(s, v), start, end)
  <2>. DEFINE w == ValuesFlush(v, s, start, end)
              x == FlushValues(v.stale, s.stale, start, end)
              y == FlushValues(v.fresh, s.fresh, start, end)
  <2>1. /\ v.stale \in Seq(Value) /\ Len(v.stale) = Cardinality(DOMAIN s.stale)
        /\ v.fresh \in Seq(Value) /\ Len(v.fresh) = Cardinality(DOMAIN s.fresh)
    BY <1>8 DEF Fits, Values
  <2>2. x \in Seq(Value) /\ Len(x) = Cardinality(DOMAIN f) /\ \A t \in DOMAIN f : x[f[t]] = v.stale[s.stale[t]]
    BY <1>9, <2>1
  <2>3. y \in Seq(Value) /\ Len(y) = Cardinality(DOMAIN g) /\ \A t \in DOMAIN g : y[g[t]] = v.fresh[s.fresh[t]]
    BY <1>9, <2>1
  <2>4. w = [stale |-> x, fresh |-> y]
    BY DEF ValuesFlush
  <2>. HIDE DEF w, x, y
  <2>5. w \in Values /\ w.stale = x /\ w.fresh = y
    BY <2>2, <2>3, <2>4 DEF Values
  <2>6. Fits(w, r)
    BY <1>5, <2>2, <2>3, <2>5 DEF Fits
  <2>. DEFINE K == {t \in TimesOf(s) : ~(start <= t /\ t < end)}
  <2>7. TimesOf(r) = K
    BY <1>2, <1>5 DEF TimesOf, Flushed
  <2>8. ASSUME NEW t \in K PROVE CellAt(r, w, t) = CellAt(s, v, t)
    <3>1. t \in DOMAIN f <=> t \in DOMAIN s.stale
      BY <1>2, <2>8 DEF Flushed
    <3>2. t \in DOMAIN f \cup DOMAIN g
      BY <1>5, <2>7, <2>8 DEF TimesOf
    <3>. QED BY <1>5, <2>2, <2>3, <2>5, <3>1, <3>2 DEF CellAt
  <2>9. Rest(CellsIn(s, v), start, end) = [t \in K |-> CellsIn(s, v)[t]]
    <3>1. DOMAIN CellsIn(s, v) = TimesOf(s)
      BY DEF CellsIn
    <3>. QED BY <3>1 DEF Rest, Restrict
  <2>10. \A t \in K : CellsIn(s, v)[t] = CellAt(s, v, t)
    BY DEF CellsIn
  <2>11. CellsIn(r, w) = [t \in K |-> CellAt(r, w, t)]
    BY <2>7 DEF CellsIn
  <2>. HIDE DEF K
  <2>12. CellsIn(r, w) = Rest(CellsIn(s, v), start, end)
    BY <2>8, <2>9, <2>10, <2>11
  <2>. QED BY <2>6, <2>12 DEF w
<1>. QED BY <1>5, <1>6, <1>7, <1>8 DEF r

-----------------------------------------------------------------------------
(* The table.  With a limit of n points a fresh bin is swapped when it holds   *)
(* half of them, rounded up, so that a subtable never has more than n rows.    *)

Half(points) == (points + 1) \div 2

Halved(s, points) ==
  points > 0 => /\ Cardinality(DOMAIN s.stale) <= Half(points)
                /\ Cardinality(DOMAIN s.fresh) < Half(points)

\* Subtables and columns tell the same, and every column fits its subtable.
TableOK(tables, home, values) ==
  /\ tables \in Seq(Subtable)
  /\ home \in [Column -> 0 .. Len(tables)] /\ values \in [Column -> Values]
  /\ \A i \in DOMAIN tables : SubOK(tables[i]) /\ tables[i].columns = {c \in Column : home[c] = i}
  /\ \A c \in Column : IF home[c] = 0 THEN values[c] = NoValues
                       ELSE Fits(values[c], tables[home[c]])

CellsFor(tables, home, values, c) ==
  IF home[c] = 0 THEN NoTimes ELSE CellsIn(tables[home[c]], values[c])

TableInv ==
  /\ limits \in LimitChoices /\ nextId \in 1 .. MaxColumns + 1
  /\ endTime \in Time \cup {-1}
  /\ TableOK(subtables, columns, data)
  /\ \A i \in DOMAIN subtables : Halved(subtables[i], limits.points)
  /\ \A c \in Column : c >= nextId => columns[c] = 0

LEMMA TableParts ==
  ASSUME NEW tables, NEW home, NEW values, TableOK(tables, home, values)
  PROVE  /\ Len(tables) \in Nat /\ DOMAIN tables = 1 .. Len(tables)
         /\ \A i \in 1 .. Len(tables) : SubOK(tables[i]) /\ tables[i] \in Subtable
         /\ \A c \in Column : home[c] # 0 => /\ home[c] \in 1 .. Len(tables) /\ c \in tables[home[c]].columns
                                             /\ Fits(values[c], tables[home[c]])
         /\ \A c \in Column : home[c] = 0 => values[c] = NoValues
         /\ \A i \in 1 .. Len(tables), c \in Column : c \in tables[i].columns <=> home[c] = i
<1>1. tables \in Seq(Subtable) /\ home \in [Column -> 0 .. Len(tables)]
  BY DEF TableOK
<1>2. Len(tables) \in Nat /\ DOMAIN tables = 1 .. Len(tables)
  BY <1>1
<1>3. \A i \in 1 .. Len(tables) : SubOK(tables[i]) /\ tables[i].columns = {c \in Column : home[c] = i}
  BY <1>2 DEF TableOK
<1>4. \A i \in 1 .. Len(tables) : tables[i] \in Subtable
  BY <1>1
<1>5. \A c \in Column : home[c] # 0 => home[c] \in 1 .. Len(tables)
  BY <1>1, <1>2
<1>. QED BY <1>2, <1>3, <1>4, <1>5 DEF TableOK

\* The cells of a column are those of its subtable.
LEMMA CellsOfIs ==
  ASSUME NEW c
  PROVE  /\ CellsOf(c) = CellsFor(subtables, columns, data, c)
         /\ CellsOf(c)' = CellsFor(subtables', columns', data', c)
<1>1. \A s, v, t : v[BinOf(s, t)][s[BinOf(s, t)][t]] = CellAt(s, v, t)
  BY DEF CellAt, BinOf
<1>2. CellsOf(c) = CellsFor(subtables, columns, data, c)
  BY <1>1 DEF CellsOf, CellsFor, CellsIn
<1>3. CellsOf(c)' = CellsFor(subtables', columns', data', c)
  BY <1>1 DEF CellsOf, CellsFor, CellsIn
<1>. QED BY <1>2, <1>3

LEMMA HalfIs ==
  ASSUME NEW p \in Nat, p > 0
  PROVE  Half(p) \in Nat /\ Half(p) >= 1 /\ 2 * Half(p) <= p + 1
  BY DEF Half

LEMMA EmptyHalved ==
  ASSUME NEW p \in Nat, NEW owned
  PROVE  Halved(NewSubTable(owned), p)
<1>1. Cardinality({}) = 0 /\ DOMAIN NoTimes = {}
  BY FS_EmptySet DEF NoTimes
<1>2. p > 0 => Half(p) \in Nat /\ Half(p) >= 1
  BY HalfIs
<1>. QED BY <1>1, <1>2 DEF Halved, NewSubTable

LEMMA LimitsAre ==
  ASSUME limits \in LimitChoices
  PROVE  limits.points \in Nat /\ limits.window \in Nat
  BY TableAssumption

LEMMA InitInv == Init => TableInv
<1>. SUFFICES ASSUME Init PROVE TableInv
  OBVIOUS
<1>1. MaxColumns \in Nat /\ limits \in LimitChoices /\ Len(<<>>) = 0
  BY TableAssumption DEF Init
<1>2. NoValues \in Values
  BY DEF NoValues, Values
<1>3. subtables \in Seq(Subtable) /\ Len(subtables) = 0 /\ DOMAIN subtables = {}
  BY DEF Init
<1>4. columns \in [Column -> 0 .. Len(subtables)] /\ data \in [Column -> Values]
  BY <1>2, <1>3 DEF Init
<1>5. TableOK(subtables, columns, data)
  BY <1>3, <1>4 DEF TableOK, Init
<1>. QED BY <1>1, <1>3, <1>5 DEF TableInv, Init


-----------------------------------------------------------------------------
(* Columns.                                                                    *)

LEMMA AddColumnStep ==
  ASSUME TableInv, AddColumn
  PROVE  /\ TableInv' /\ columns[nextId] = 0 /\ nextId \in Column
         /\ columns'[nextId] # 0 /\ \A d \in Column \ {nextId} : columns'[d] = columns[d]
         /\ \A d \in Column : CellsOf(d)' = CellsOf(d)
<1>. DEFINE N     == Len(subtables)
            empty == {i \in DOMAIN subtables : TimesOf(subtables[i]) = {}}
            home  == IF empty = {} THEN N + 1 ELSE Min(empty)
            p     == limits.points
<1>1. /\ nextId <= MaxColumns /\ columns' = [columns EXCEPT ![nextId] = home]
      /\ subtables' = IF empty = {} THEN Append(subtables, NewSubTable({nextId}))
                      ELSE [subtables EXCEPT ![home].columns = @ \cup {nextId}]
      /\ nextId' = nextId + 1 /\ limits' = limits /\ data' = data /\ endTime' = endTime
  BY DEF AddColumn
<1>. HIDE DEF empty, N, p
<1>2. /\ TableOK(subtables, columns, data) /\ nextId \in 1 .. MaxColumns + 1
      /\ limits \in LimitChoices /\ endTime \in Time \cup {-1}
      /\ \A i \in DOMAIN subtables : Halved(subtables[i], p)
      /\ \A c \in Column : c >= nextId => columns[c] = 0
  BY DEF TableInv, p
<1>3. MaxColumns \in Nat /\ p \in Nat
  BY <1>2, TableAssumption, LimitsAre DEF p
<1>4. /\ N \in Nat /\ DOMAIN subtables = 1 .. N
      /\ \A i \in 1 .. N : SubOK(subtables[i]) /\ subtables[i] \in Subtable
      /\ \A c \in Column : columns[c] # 0 => columns[c] \in 1 .. N /\ Fits(data[c], subtables[columns[c]])
      /\ \A c \in Column : columns[c] = 0 => data[c] = NoValues
      /\ \A i \in 1 .. N, c \in Column : c \in subtables[i].columns <=> columns[c] = i
  BY <1>2, TableParts DEF N
<1>5. nextId \in Column /\ columns[nextId] = 0 /\ nextId + 1 \in 1 .. MaxColumns + 1
  BY <1>1, <1>2, <1>3 DEF Column
<1>6. /\ subtables \in Seq(Subtable) /\ columns \in [Column -> 0 .. N] /\ data \in [Column -> Values]
      /\ \A i \in 1 .. N : subtables[i].columns = {c \in Column : columns[c] = i}
  BY <1>2, <1>4 DEF TableOK, N
<1>7. CASE empty = {}
  <2>. DEFINE new == NewSubTable({nextId})
  <2>1. /\ SubOK(new) /\ new.columns = {nextId} /\ TimesOf(new) = {} /\ Fits(NoValues, new)
        /\ CellsIn(new, NoValues) = NoTimes
    BY <1>5, EmptySubtable
  <2>2. Halved(new, p)
    BY <1>3, EmptyHalved
  <2>. HIDE DEF new
  <2>3. home = N + 1 /\ subtables' = Append(subtables, new)
    BY <1>1, <1>7 DEF new
  <2>4. /\ subtables' \in Seq(Subtable) /\ Len(subtables') = N + 1
        /\ subtables'[N + 1] = new /\ \A i \in 1 .. N : subtables'[i] = subtables[i]
    <3>1. new \in Subtable
      BY <2>1 DEF SubOK
    <3>. QED BY <1>4, <1>6, <2>3, <3>1 DEF N
  <2>5. columns' \in [Column -> 0 .. N + 1] /\ columns'[nextId] = N + 1
        /\ \A d \in Column \ {nextId} : columns'[d] = columns[d]
    BY <1>1, <1>4, <1>5, <1>6, <2>3
  <2>6. DOMAIN subtables' = 1 .. N + 1
    BY <1>4, <2>4
  <2>7. ASSUME NEW i \in 1 .. N + 1
        PROVE  /\ SubOK(subtables'[i]) /\ Halved(subtables'[i], p)
               /\ subtables'[i].columns = {c \in Column : columns'[c] = i}
    <3>1. CASE i = N + 1
      <4>1. \A c \in Column : columns'[c] = N + 1 <=> c = nextId
        BY <1>4, <1>5, <1>6, <2>5
      <4>. QED BY <1>5, <2>1, <2>2, <2>4, <3>1, <4>1
    <3>2. CASE i # N + 1
      <4>1. i \in 1 .. N
        BY <1>4, <3>2
      <4>2. \A c \in Column : columns'[c] = i <=> columns[c] = i
        BY <1>4, <1>5, <2>5, <4>1
      <4>. QED BY <1>2, <1>4, <1>6, <2>4, <4>1, <4>2
    <3>. QED BY <3>1, <3>2
  <2>8. ASSUME NEW c \in Column
        PROVE  /\ IF columns'[c] = 0 THEN data'[c] = NoValues ELSE Fits(data'[c], subtables'[columns'[c]])
               /\ CellsFor(subtables', columns', data', c) = CellsFor(subtables, columns, data, c)
    <3>1. CASE c = nextId
      BY <1>1, <1>4, <1>5, <2>1, <2>4, <2>5, <3>1 DEF CellsFor
    <3>2. CASE c # nextId
      BY <1>1, <1>4, <2>4, <2>5, <3>2 DEF CellsFor
    <3>. QED BY <3>1, <3>2
  <2>9. TableOK(subtables', columns', data')
    BY <1>1, <1>6, <2>4, <2>5, <2>6, <2>7, <2>8 DEF TableOK
  <2>10. \A c \in Column : c >= nextId + 1 => columns'[c] = 0
    BY <1>2, <1>3, <1>5, <2>5 DEF Column
  <2>11. TableInv'
    BY <1>1, <1>2, <1>5, <2>6, <2>7, <2>9, <2>10 DEF TableInv, p
  <2>. QED BY <1>4, <1>5, <2>5, <2>8, <2>11, CellsOfIs
<1>8. CASE empty # {}
  <2>. DEFINE old == subtables[home]
              new == [old EXCEPT !.columns = old.columns \cup {nextId}]
  <2>1. home \in 1 .. N /\ TimesOf(old) = {}
    <3>1. empty \in SUBSET (1 .. N) /\ IsFiniteSet(1 .. N)
      <4>1. 1 \in Int /\ N \in Int
        BY <1>4
      <4>. QED BY <1>4, <4>1, FS_Interval DEF empty
    <3>2. empty \in SUBSET Int
      BY <3>1
    <3>4. IsFiniteSet(empty)
      BY <3>1, FS_Subset
    <3>3. Min(empty) \in empty
      BY <1>8, <3>2, <3>4, Extremes
    <3>. QED BY <1>4, <1>8, <3>3 DEF empty
  <2>2. subtables' = [subtables EXCEPT ![home] = new]
    BY <1>1, <1>8
  <2>. HIDE DEF home
  <2>3. SubOK(old) /\ old.columns \cup {nextId} \in SUBSET Column
    BY <1>4, <1>5, <1>6, <2>1
  <2>4. /\ SubOK(new) /\ new.columns = old.columns \cup {nextId} /\ new.stale = old.stale
        /\ new.fresh = old.fresh /\ TimesOf(new) = TimesOf(old)
        /\ \A v : (Fits(v, old) => Fits(v, new)) /\ CellsIn(new, v) = CellsIn(old, v)
    BY <2>3, OtherColumns
  <2>5. Fits(NoValues, new) /\ CellsIn(new, NoValues) = NoTimes
    <3>1. NoValues \in Values /\ Len(NoValues.stale) = 0 /\ Len(NoValues.fresh) = 0
      BY DEF NoValues, Values
    <3>2. DOMAIN new.stale = {} /\ DOMAIN new.fresh = {}
      BY <2>1, <2>4 DEF TimesOf
    <3>. HIDE DEF new
    <3>3. Fits(NoValues, new)
      BY <3>1, <3>2, FS_EmptySet DEF Fits
    <3>4. TimesOf(new) = {}
      BY <3>2 DEF TimesOf
    <3>. QED BY <3>3, <3>4 DEF CellsIn, NoTimes
  <2>6. Halved(new, p)
    <3>1. Halved(old, p)
      BY <1>2, <1>4, <2>1
    <3>. HIDE DEF new, old
    <3>. QED BY <2>4, <3>1 DEF Halved
  <2>7. /\ subtables' \in Seq(Subtable) /\ Len(subtables') = N /\ DOMAIN subtables' = 1 .. N
        /\ subtables'[home] = new /\ \A i \in 1 .. N : i # home => subtables'[i] = subtables[i]
    <3>1. new \in Subtable
      BY <2>4 DEF SubOK
    <3>. HIDE DEF new
    <3>. QED BY <1>4, <1>6, <2>1, <2>2, <3>1 DEF N
  <2>8. columns' \in [Column -> 0 .. N] /\ columns'[nextId] = home
        /\ \A d \in Column \ {nextId} : columns'[d] = columns[d]
    BY <1>1, <1>4, <1>5, <1>6, <2>1
  <2>9. ASSUME NEW i \in 1 .. N
        PROVE  /\ SubOK(subtables'[i]) /\ Halved(subtables'[i], p)
               /\ subtables'[i].columns = {c \in Column : columns'[c] = i}
    <3>1. CASE i = home
      <4>1. \A c \in Column : columns'[c] = i <=> c \in old.columns \cup {nextId}
        BY <1>4, <1>5, <2>1, <2>8, <3>1
      <4>2. new.columns \in SUBSET Column
        BY <2>3, <2>4
      <4>. HIDE DEF new
      <4>. QED BY <2>4, <2>6, <2>7, <3>1, <4>1, <4>2
    <3>2. CASE i # home
      <4>2. \A c \in Column : columns'[c] = i <=> columns[c] = i
        BY <1>4, <1>5, <2>8, <3>2
      <4>. QED BY <1>2, <1>4, <1>6, <2>7, <3>2, <4>2
    <3>. QED BY <3>1, <3>2
  <2>. HIDE DEF new
  <2>10. ASSUME NEW c \in Column
        PROVE  /\ IF columns'[c] = 0 THEN data'[c] = NoValues ELSE Fits(data'[c], subtables'[columns'[c]])
               /\ CellsFor(subtables', columns', data', c) = CellsFor(subtables, columns, data, c)
    <3>1. CASE c = nextId
      <4>1. columns'[c] # 0
        BY <1>4, <2>1, <2>8, <3>1
      <4>2. data'[c] = NoValues /\ columns[c] = 0 /\ subtables'[columns'[c]] = new
        BY <1>1, <1>4, <1>5, <2>7, <2>8, <3>1
      <4>. QED BY <2>5, <4>1, <4>2 DEF CellsFor
    <3>2. CASE c # nextId /\ columns[c] = home
      BY <1>1, <1>4, <2>1, <2>4, <2>7, <2>8, <3>2 DEF CellsFor
    <3>3. CASE c # nextId /\ columns[c] # home
      BY <1>1, <1>4, <2>7, <2>8, <3>3 DEF CellsFor
    <3>. QED BY <3>1, <3>2, <3>3
  <2>11. TableOK(subtables', columns', data')
    BY <1>1, <1>6, <2>7, <2>8, <2>9, <2>10 DEF TableOK
  <2>12. \A c \in Column : c >= nextId + 1 => columns'[c] = 0
    BY <1>2, <1>3, <1>5, <2>8 DEF Column
  <2>13. TableInv'
    BY <1>1, <1>2, <1>5, <2>7, <2>9, <2>11, <2>12 DEF TableInv, p
  <2>14. home # 0
    BY <1>4, <2>1
  <2>. QED BY <1>5, <2>8, <2>10, <2>13, <2>14, CellsOfIs
<1>. QED BY <1>7, <1>8

LEMMA InvParts ==
  ASSUME TableInv
  PROVE  /\ TableOK(subtables, columns, data) /\ nextId \in 1 .. MaxColumns + 1
         /\ limits \in LimitChoices /\ endTime \in Time \cup {-1}
         /\ limits.points \in Nat /\ limits.window \in Nat
         /\ \A c \in Column : c >= nextId => columns[c] = 0
         /\ Len(subtables) \in Nat /\ DOMAIN subtables = 1 .. Len(subtables)
         /\ \A i \in 1 .. Len(subtables) : /\ SubOK(subtables[i]) /\ subtables[i] \in Subtable
                                           /\ Halved(subtables[i], limits.points)
         /\ \A c \in Column : columns[c] # 0 => /\ columns[c] \in 1 .. Len(subtables)
                                                /\ c \in subtables[columns[c]].columns
                                                /\ Fits(data[c], subtables[columns[c]])
         /\ \A c \in Column : columns[c] = 0 => data[c] = NoValues
         /\ \A i \in 1 .. Len(subtables), c \in Column : c \in subtables[i].columns <=> columns[c] = i
         /\ subtables \in Seq(Subtable) /\ columns \in [Column -> 0 .. Len(subtables)]
         /\ data \in [Column -> Values]
         /\ \A i \in 1 .. Len(subtables) : subtables[i].columns \in SUBSET Column
<1>1. TableOK(subtables, columns, data) /\ limits \in LimitChoices
  BY DEF TableInv
<1>2. /\ Len(subtables) \in Nat /\ DOMAIN subtables = 1 .. Len(subtables)
      /\ \A i \in 1 .. Len(subtables) : SubOK(subtables[i]) /\ subtables[i] \in Subtable
      /\ \A c \in Column : columns[c] # 0 => /\ columns[c] \in 1 .. Len(subtables)
                                             /\ c \in subtables[columns[c]].columns
                                             /\ Fits(data[c], subtables[columns[c]])
      /\ \A c \in Column : columns[c] = 0 => data[c] = NoValues
      /\ \A i \in 1 .. Len(subtables), c \in Column : c \in subtables[i].columns <=> columns[c] = i
  BY <1>1, TableParts
<1>3. \A i \in 1 .. Len(subtables) : subtables[i].columns \in SUBSET Column
  BY <1>2, SubtableHas
<1>4. limits.points \in Nat /\ limits.window \in Nat
  BY <1>1, LimitsAre
<1>5. /\ subtables \in Seq(Subtable) /\ columns \in [Column -> 0 .. Len(subtables)]
      /\ data \in [Column -> Values]
  BY <1>1 DEF TableOK
<1>. QED BY <1>1, <1>2, <1>3, <1>4, <1>5 DEF TableInv

\* To keep the invariant, each subtable and each column has to.
LEMMA InvFrom ==
  ASSUME TableInv,
         limits' = limits, nextId' = nextId, endTime' \in Time \cup {-1},
         NEW n \in Nat, subtables' \in Seq(Subtable), Len(subtables') = n,
         columns' \in [Column -> 0 .. n], data' \in [Column -> Values],
         \A i \in 1 .. n : /\ SubOK(subtables'[i]) /\ Halved(subtables'[i], limits.points)
                           /\ subtables'[i].columns \in SUBSET Column
                           /\ \A c \in Column : c \in subtables'[i].columns <=> columns'[c] = i,
         \A c \in Column : columns[c] = 0 => columns'[c] = 0,
         \A c \in Column : columns'[c] = 0 => data'[c] = NoValues,
         \A c \in Column : columns'[c] # 0 => Fits(data'[c], subtables'[columns'[c]])
  PROVE  TableInv'
<1>1. DOMAIN subtables' = 1 .. n
  OBVIOUS
<1>2. \A i \in 1 .. n : subtables'[i].columns = {c \in Column : columns'[c] = i}
  OBVIOUS
<1>3. TableOK(subtables', columns', data')
  BY <1>1, <1>2 DEF TableOK
<1>4. \A c \in Column : c >= nextId => columns[c] = 0
  BY DEF TableInv
<1>. QED BY <1>1, <1>3, <1>4 DEF TableInv

LEMMA RemoveColumnStep ==
  ASSUME TableInv, NEW c \in Column, RemoveColumn(c)
  PROVE  /\ TableInv' /\ columns[c] # 0 /\ columns'[c] = 0
         /\ \A d \in Column \ {c} : columns'[d] = columns[d] /\ CellsOf(d)' = CellsOf(d)
         /\ CellsOf(c)' = NoTimes
<1>. DEFINE N    == Len(subtables)
            p    == limits.points
            k    == columns[c]
            old  == subtables[k]
            rest == [old EXCEPT !.columns = old.columns \ {c}]
            new  == IF rest.columns = {} THEN NewSubTable({}) ELSE rest
<1>1. /\ k # 0 /\ subtables' = [subtables EXCEPT ![k] = new]
      /\ columns' = [columns EXCEPT ![c] = 0] /\ data' = [data EXCEPT ![c] = NoValues]
      /\ limits' = limits /\ nextId' = nextId /\ endTime' = endTime
  BY DEF RemoveColumn
<1>. HIDE DEF N, p, k, new
<1>2. /\ N \in Nat /\ DOMAIN subtables = 1 .. N
      /\ \A i \in 1 .. N : /\ SubOK(subtables[i]) /\ subtables[i] \in Subtable
                           /\ subtables[i].columns \in SUBSET Column /\ Halved(subtables[i], p)
      /\ \A d \in Column : columns[d] # 0 => columns[d] \in 1 .. N /\ Fits(data[d], subtables[columns[d]])
      /\ \A d \in Column : columns[d] = 0 => data[d] = NoValues
      /\ \A i \in 1 .. N, d \in Column : d \in subtables[i].columns <=> columns[d] = i
      /\ subtables \in Seq(Subtable) /\ columns \in [Column -> 0 .. N] /\ data \in [Column -> Values]
      /\ p \in Nat /\ endTime \in Time \cup {-1}
  BY InvParts DEF N, p
<1>3. k \in 1 .. N /\ SubOK(old) /\ old.columns \ {c} \in SUBSET Column /\ Halved(old, p)
  BY <1>1, <1>2 DEF k
<1>. HIDE DEF old
<1>4. /\ SubOK(rest) /\ rest.columns = old.columns \ {c} /\ rest.stale = old.stale
      /\ rest.fresh = old.fresh
      /\ \A v : (Fits(v, old) => Fits(v, rest)) /\ CellsIn(rest, v) = CellsIn(old, v)
  BY <1>3, OtherColumns
<1>. HIDE DEF rest
<1>5. /\ SubOK(new) /\ new.columns = old.columns \ {c} /\ Halved(new, p) /\ new \in Subtable
      /\ new.columns # {} => new = rest
  <2>1. CASE rest.columns = {}
    <3>1. new = NewSubTable({}) /\ {} \in SUBSET Column
      BY <2>1 DEF new
    <3>2. SubOK(new) /\ new.columns = {}
      BY <3>1, EmptySubtable
    <3>3. Halved(new, p)
      BY <1>2, <3>1, EmptyHalved
    <3>. QED BY <1>4, <2>1, <3>2, <3>3 DEF SubOK
  <2>2. CASE rest.columns # {}
    <3>1. new = rest
      BY <2>2 DEF new
    <3>2. Halved(rest, p)
      BY <1>3, <1>4 DEF Halved
    <3>. QED BY <1>4, <3>1, <3>2 DEF SubOK
  <2>. QED BY <2>1, <2>2
<1>6. /\ subtables' \in Seq(Subtable) /\ Len(subtables') = N
      /\ subtables'[k] = new /\ \A i \in 1 .. N : i # k => subtables'[i] = subtables[i]
  BY <1>1, <1>2, <1>3, <1>5 DEF N
<1>7. /\ columns' \in [Column -> 0 .. N] /\ columns'[c] = 0
      /\ \A d \in Column \ {c} : columns'[d] = columns[d]
  BY <1>1, <1>2
<1>8. /\ data' \in [Column -> Values] /\ data'[c] = NoValues
      /\ \A d \in Column \ {c} : data'[d] = data[d]
  <2>1. NoValues \in Values
    BY DEF NoValues, Values
  <2>. QED BY <1>1, <1>2, <2>1
<1>9. ASSUME NEW i \in 1 .. N
      PROVE  /\ SubOK(subtables'[i]) /\ Halved(subtables'[i], p) /\ subtables'[i].columns \in SUBSET Column
             /\ \A d \in Column : d \in subtables'[i].columns <=> columns'[d] = i
  <2>1. CASE i = k
    <3>1. \A d \in Column : d \in old.columns <=> columns[d] = k
      BY <1>2, <1>3 DEF old
    <3>. QED BY <1>3, <1>5, <1>6, <1>7, <2>1, <3>1
  <2>2. CASE i # k
    <3>1. \A d \in Column : columns'[d] = i <=> columns[d] = i
      BY <1>3, <1>7, <2>2 DEF k
    <3>. QED BY <1>2, <1>6, <2>2, <3>1
  <2>. QED BY <2>1, <2>2
<1>10. ASSUME NEW d \in Column
       PROVE  /\ columns[d] = 0 => columns'[d] = 0
              /\ columns'[d] = 0 => data'[d] = NoValues
              /\ columns'[d] # 0 => Fits(data'[d], subtables'[columns'[d]])
              /\ d # c => CellsFor(subtables', columns', data', d) = CellsFor(subtables, columns, data, d)
  <2>1. CASE d = c
    BY <1>7, <1>8, <2>1
  <2>2. CASE d # c /\ columns[d] = k
    <3>1. new = rest
      BY <1>2, <1>3, <1>5, <2>2 DEF old
    <3>2. Fits(data[d], old)
      BY <1>1, <1>2, <2>2 DEF old
    <3>3. subtables'[columns'[d]] = rest /\ subtables[columns[d]] = old /\ data'[d] = data[d] /\ columns'[d] = k
      BY <1>6, <1>7, <1>8, <2>2, <3>1 DEF old
    <3>. QED BY <1>1, <1>4, <2>2, <3>2, <3>3 DEF CellsFor
  <2>3. CASE d # c /\ columns[d] # k
    <3>1. columns'[d] = columns[d] /\ data'[d] = data[d]
      BY <1>7, <1>8, <2>3
    <3>2. columns[d] # 0 => subtables'[columns'[d]] = subtables[columns[d]]
      BY <1>2, <1>6, <2>3, <3>1
    <3>. QED BY <1>2, <3>1, <3>2 DEF CellsFor
  <2>. QED BY <2>1, <2>2, <2>3
<1>11. TableInv'
  BY <1>1, <1>2, <1>6, <1>7, <1>8, <1>9, <1>10, InvFrom DEF p
<1>12. CellsFor(subtables', columns', data', c) = NoTimes
  BY <1>7 DEF CellsFor
<1>. QED BY <1>1, <1>7, <1>10, <1>11, <1>12, CellsOfIs, ZenonT(40) DEF k

LEMMA SetValueStep ==
  ASSUME TableInv, NEW c \in Column, NEW t \in Time, NEW x \in Value, SetValue(c, t, x)
  PROVE  /\ TableInv' /\ columns[c] # 0 /\ columns' = columns /\ t \in DOMAIN CellsOf(c)
         /\ \A d \in Column \ {c} : CellsOf(d)' = CellsOf(d)
         /\ CellsOf(c)' = Contract!WithCell(CellsOf(c), t, x)
<1>. DEFINE N == Len(subtables)
            p == limits.points
            s == subtables[columns[c]]
            w == [data[c] EXCEPT ![BinOf(s, t)][s[BinOf(s, t)][t]] = x]
<1>1. /\ columns[c] # 0 /\ t \in TimesOf(s)
      /\ data' = [data EXCEPT ![c] = w]
      /\ limits' = limits /\ nextId' = nextId /\ endTime' = endTime
      /\ subtables' = subtables /\ columns' = columns
  BY DEF SetValue
<1>. HIDE DEF N, p, w
<1>2. /\ N \in Nat
      /\ \A i \in 1 .. N : /\ SubOK(subtables[i]) /\ subtables[i] \in Subtable
                           /\ subtables[i].columns \in SUBSET Column /\ Halved(subtables[i], p)
      /\ \A d \in Column : columns[d] # 0 => columns[d] \in 1 .. N /\ Fits(data[d], subtables[columns[d]])
      /\ \A d \in Column : columns[d] = 0 => data[d] = NoValues
      /\ \A i \in 1 .. N, d \in Column : d \in subtables[i].columns <=> columns[d] = i
      /\ subtables \in Seq(Subtable) /\ columns \in [Column -> 0 .. N] /\ data \in [Column -> Values]
      /\ endTime \in Time \cup {-1}
  BY InvParts DEF N, p
<1>3. SubOK(s) /\ Fits(data[c], s)
  BY <1>1, <1>2
<1>. HIDE DEF s
<1>4. Fits(w, s) /\ CellsIn(s, w) = Contract!WithCell(CellsIn(s, data[c]), t, x)
  BY <1>1, <1>3, CellReplaced DEF w
<1>5. /\ data' \in [Column -> Values] /\ data'[c] = w
      /\ \A d \in Column \ {c} : data'[d] = data[d]
  BY <1>1, <1>2, <1>4 DEF Fits
<1>6. \A d \in Column : columns[d] # 0 => Fits(data'[d], subtables[columns[d]])
  BY <1>2, <1>4, <1>5 DEF s
<1>7. \A d \in Column : columns[d] = 0 => data'[d] = NoValues
  BY <1>1, <1>2, <1>5
<1>8. TableInv'
  BY <1>1, <1>2, <1>5, <1>6, <1>7, InvFrom DEF N, p
<1>9. \A d \in Column \ {c} : CellsFor(subtables', columns', data', d) = CellsFor(subtables, columns, data, d)
  BY <1>1, <1>5 DEF CellsFor
<1>10. CellsFor(subtables', columns', data', c) = CellsIn(s, w) /\ CellsFor(subtables, columns, data, c) = CellsIn(s, data[c])
  BY <1>1, <1>5 DEF CellsFor, s
<1>11. DOMAIN CellsIn(s, data[c]) = TimesOf(s)
  BY DEF CellsIn
<1>. QED BY <1>1, <1>4, <1>8, <1>9, <1>10, <1>11, CellsOfIs, ZenonT(40)

-----------------------------------------------------------------------------
(* Flushing.                                                                   *)

LEMMA FlushAllStep ==
  ASSUME TableInv, FlushAll
  PROVE  /\ TableInv' /\ columns' = columns
         /\ \A d \in Column : CellsOf(d)' = NoTimes
<1>. DEFINE N == Len(subtables)
            p == limits.points
<1>1. /\ subtables' = [i \in DOMAIN subtables |-> NewSubTable(subtables[i].columns)]
      /\ data' = [d \in Column |-> NoValues]
      /\ limits' = limits /\ nextId' = nextId /\ endTime' = endTime /\ columns' = columns
  BY DEF FlushAll
<1>. HIDE DEF N, p
<1>2. /\ N \in Nat /\ DOMAIN subtables = 1 .. N
      /\ \A i \in 1 .. N : subtables[i].columns \in SUBSET Column
      /\ \A d \in Column : columns[d] # 0 => columns[d] \in 1 .. N
      /\ \A i \in 1 .. N, d \in Column : d \in subtables[i].columns <=> columns[d] = i
      /\ columns \in [Column -> 0 .. N]
      /\ endTime \in Time \cup {-1} /\ p \in Nat
  BY InvParts DEF N, p
<1>3. ASSUME NEW i \in 1 .. N
      PROVE  /\ SubOK(subtables'[i]) /\ subtables'[i] \in Subtable /\ Halved(subtables'[i], p)
             /\ subtables'[i].columns = subtables[i].columns
             /\ Fits(NoValues, subtables'[i]) /\ CellsIn(subtables'[i], NoValues) = NoTimes
  <2>1. subtables'[i] = NewSubTable(subtables[i].columns) /\ subtables[i].columns \in SUBSET Column
    BY <1>1, <1>2
  <2>2. Halved(subtables'[i], p)
    BY <1>2, <2>1, EmptyHalved
  <2>. QED BY <2>1, <2>2, EmptySubtable DEF SubOK
<1>4. subtables' \in Seq(Subtable) /\ Len(subtables') = N
  <2>1. subtables' = [i \in 1 .. N |-> subtables'[i]]
    BY <1>1, <1>2
  <2>. QED BY <1>2, <1>3, <2>1
<1>5. NoValues \in Values
  BY DEF NoValues, Values
<1>6. data' \in [Column -> Values] /\ \A d \in Column : data'[d] = NoValues
  BY <1>1, <1>5
<1>7. \A d \in Column : columns'[d] # 0 => Fits(data'[d], subtables'[columns'[d]])
  BY <1>1, <1>2, <1>3, <1>6
<1>8. TableInv'
  BY <1>1, <1>2, <1>3, <1>4, <1>6, <1>7, InvFrom DEF p
<1>9. \A d \in Column : CellsFor(subtables', columns', data', d) = NoTimes
  BY <1>1, <1>2, <1>3, <1>6 DEF CellsFor
<1>. QED BY <1>1, <1>8, <1>9, CellsOfIs

LEMMA FlushColumnStep ==
  ASSUME TableInv, NEW c \in Column, FlushColumn(c)
  PROVE  /\ TableInv' /\ columns[c] # 0 /\ columns'[c] # 0
         /\ \A d \in Column \ {c} : columns'[d] = columns[d] /\ CellsOf(d)' = CellsOf(d)
         /\ CellsOf(c)' = NoTimes
<1>. DEFINE N    == Len(subtables)
            p    == limits.points
            k    == columns[c]
            old  == subtables[k]
            rest == [old EXCEPT !.columns = old.columns \ {c}]
            new  == NewSubTable({c})
<1>1. /\ k # 0
      /\ IF old.columns = {c}
         THEN subtables' = [subtables EXCEPT ![k] = new] /\ columns' = columns
         ELSE /\ subtables' = Append([subtables EXCEPT ![k] = rest], new)
              /\ columns' = [columns EXCEPT ![c] = N + 1]
      /\ data' = [data EXCEPT ![c] = NoValues]
      /\ limits' = limits /\ nextId' = nextId /\ endTime' = endTime
  BY DEF FlushColumn
<1>. HIDE DEF N, p, k, new
<1>2. /\ N \in Nat /\ DOMAIN subtables = 1 .. N
      /\ \A i \in 1 .. N : /\ SubOK(subtables[i]) /\ subtables[i] \in Subtable
                           /\ subtables[i].columns \in SUBSET Column /\ Halved(subtables[i], p)
      /\ \A d \in Column : columns[d] # 0 => columns[d] \in 1 .. N /\ Fits(data[d], subtables[columns[d]])
      /\ \A d \in Column : columns[d] = 0 => data[d] = NoValues
      /\ \A i \in 1 .. N, d \in Column : d \in subtables[i].columns <=> columns[d] = i
      /\ subtables \in Seq(Subtable) /\ columns \in [Column -> 0 .. N] /\ data \in [Column -> Values]
      /\ p \in Nat /\ endTime \in Time \cup {-1}
  BY InvParts DEF N, p
<1>3. k \in 1 .. N /\ SubOK(old) /\ old.columns \ {c} \in SUBSET Column /\ Halved(old, p)
      /\ \A d \in Column : d \in old.columns <=> columns[d] = k
  BY <1>1, <1>2 DEF k
<1>. HIDE DEF old
<1>4. /\ SubOK(rest) /\ rest.columns = old.columns \ {c} /\ rest.stale = old.stale
      /\ rest.fresh = old.fresh
      /\ \A v : (Fits(v, old) => Fits(v, rest)) /\ CellsIn(rest, v) = CellsIn(old, v)
  BY <1>3, OtherColumns
<1>. HIDE DEF rest
<1>5. Halved(rest, p) /\ rest \in Subtable
  BY <1>3, <1>4 DEF Halved, SubOK
<1>6. /\ SubOK(new) /\ new.columns = {c} /\ Halved(new, p) /\ new \in Subtable
      /\ Fits(NoValues, new) /\ CellsIn(new, NoValues) = NoTimes
  <2>1. {c} \in SUBSET Column
    OBVIOUS
  <2>. QED BY <1>2, <2>1, EmptySubtable, EmptyHalved DEF new, SubOK
<1>7. /\ data' \in [Column -> Values] /\ data'[c] = NoValues
      /\ \A d \in Column \ {c} : data'[d] = data[d]
  <2>1. NoValues \in Values
    BY DEF NoValues, Values
  <2>. QED BY <1>1, <1>2, <2>1
<1>8. CASE old.columns = {c}
  <2>1. subtables' = [subtables EXCEPT ![k] = new] /\ columns' = columns
    BY <1>1, <1>8
  <2>2. /\ subtables' \in Seq(Subtable) /\ Len(subtables') = N
        /\ subtables'[k] = new /\ \A i \in 1 .. N : i # k => subtables'[i] = subtables[i]
    BY <1>2, <1>3, <1>6, <2>1 DEF N
  <2>3. \A d \in Column : columns[d] = k <=> d = c
    BY <1>3, <1>8
  <2>4. ASSUME NEW i \in 1 .. N
        PROVE  /\ SubOK(subtables'[i]) /\ Halved(subtables'[i], p) /\ subtables'[i].columns \in SUBSET Column
               /\ \A d \in Column : d \in subtables'[i].columns <=> columns'[d] = i
    <3>1. CASE i = k
      BY <1>6, <2>1, <2>2, <2>3, <3>1
    <3>2. CASE i # k
      BY <1>2, <2>1, <2>2, <3>2
    <3>. QED BY <3>1, <3>2
  <2>5. ASSUME NEW d \in Column
        PROVE  /\ columns[d] = 0 => columns'[d] = 0
               /\ columns'[d] = 0 => data'[d] = NoValues
               /\ columns'[d] # 0 => Fits(data'[d], subtables'[columns'[d]])
               /\ d # c => CellsFor(subtables', columns', data', d) = CellsFor(subtables, columns, data, d)
    <3>1. CASE d = c
      <4>1. columns'[d] = k
        BY <2>1, <3>1 DEF k
      <4>. QED BY <1>1, <1>6, <1>7, <2>1, <2>2, <3>1, <4>1
    <3>2. CASE d # c
      <4>1. columns[d] # k /\ columns'[d] = columns[d] /\ data'[d] = data[d]
        BY <1>7, <2>1, <2>3, <3>2
      <4>2. columns[d] # 0 => subtables'[columns'[d]] = subtables[columns[d]]
        BY <1>2, <2>2, <4>1
      <4>. QED BY <1>2, <4>1, <4>2 DEF CellsFor
    <3>. QED BY <3>1, <3>2
  <2>6. TableInv'
    BY <1>1, <1>2, <1>7, <2>1, <2>2, <2>4, <2>5, InvFrom DEF p
  <2>7. columns'[c] = k /\ CellsFor(subtables', columns', data', c) = NoTimes
    BY <1>1, <1>6, <1>7, <2>1, <2>2 DEF CellsFor, k
  <2>. QED BY <1>1, <2>1, <2>5, <2>6, <2>7, CellsOfIs DEF k
<1>9. CASE old.columns # {c}
  <2>. DEFINE mid == [subtables EXCEPT ![k] = rest]
  <2>1. subtables' = Append(mid, new) /\ columns' = [columns EXCEPT ![c] = N + 1]
    BY <1>1, <1>9
  <2>2. /\ mid \in Seq(Subtable) /\ Len(mid) = N
        /\ mid[k] = rest /\ \A i \in 1 .. N : i # k => mid[i] = subtables[i]
    BY <1>2, <1>3, <1>5 DEF N
  <2>. HIDE DEF mid
  <2>3. /\ subtables' \in Seq(Subtable) /\ Len(subtables') = N + 1 /\ N + 1 \in Nat
        /\ subtables'[N + 1] = new /\ \A i \in 1 .. N : subtables'[i] = mid[i]
    BY <1>2, <1>6, <2>1, <2>2
  <2>4. /\ columns' \in [Column -> 0 .. N + 1] /\ columns'[c] = N + 1
        /\ \A d \in Column \ {c} : columns'[d] = columns[d]
    BY <1>2, <2>1
  <2>5. ASSUME NEW i \in 1 .. N + 1
        PROVE  /\ SubOK(subtables'[i]) /\ Halved(subtables'[i], p) /\ subtables'[i].columns \in SUBSET Column
               /\ \A d \in Column : d \in subtables'[i].columns <=> columns'[d] = i
    <3>1. CASE i = k
      <4>1. subtables'[i] = rest /\ k # N + 1
        BY <1>2, <1>3, <2>2, <2>3, <3>1
      <4>2. \A d \in Column : columns'[d] = k <=> columns[d] = k /\ d # c
        BY <2>4, <4>1
      <4>. QED BY <1>3, <1>4, <1>5, <3>1, <4>1, <4>2
    <3>2. CASE i = N + 1
      <4>1. \A d \in Column : columns'[d] = N + 1 <=> d = c
        BY <1>2, <2>4
      <4>. QED BY <1>6, <2>3, <3>2, <4>1
    <3>3. CASE i # k /\ i # N + 1
      <4>1. i \in 1 .. N /\ subtables'[i] = subtables[i]
        BY <1>2, <2>2, <2>3, <3>3
      <4>2. \A d \in Column : columns'[d] = i <=> columns[d] = i
        BY <2>4, <3>3 DEF k
      <4>. QED BY <1>2, <4>1, <4>2
    <3>. QED BY <3>1, <3>2, <3>3
  <2>6. ASSUME NEW d \in Column
        PROVE  /\ columns[d] = 0 => columns'[d] = 0
               /\ columns'[d] = 0 => data'[d] = NoValues
               /\ columns'[d] # 0 => Fits(data'[d], subtables'[columns'[d]])
               /\ d # c => CellsFor(subtables', columns', data', d) = CellsFor(subtables, columns, data, d)
    <3>1. CASE d = c
      <4>1. columns'[d] = N + 1 /\ N + 1 # 0 /\ columns[d] # 0
        BY <1>1, <1>2, <2>4, <3>1 DEF k
      <4>. QED BY <1>6, <1>7, <2>3, <3>1, <4>1
    <3>2. CASE d # c /\ columns[d] = k
      <4>1. Fits(data[d], old) /\ subtables[columns[d]] = old
        BY <1>1, <1>2, <3>2 DEF old
      <4>2. subtables'[columns'[d]] = rest /\ data'[d] = data[d] /\ columns'[d] = k
        BY <1>3, <1>7, <2>2, <2>3, <2>4, <3>2
      <4>. QED BY <1>1, <1>4, <3>2, <4>1, <4>2 DEF CellsFor
    <3>3. CASE d # c /\ columns[d] # k
      <4>1. columns'[d] = columns[d] /\ data'[d] = data[d]
        BY <1>7, <2>4, <3>3
      <4>2. columns[d] # 0 => subtables'[columns'[d]] = subtables[columns[d]]
        BY <1>2, <2>2, <2>3, <3>3, <4>1
      <4>. QED BY <1>2, <4>1, <4>2 DEF CellsFor
    <3>. QED BY <3>1, <3>2, <3>3
  <2>7. TableInv'
    BY <1>1, <1>2, <1>7, <2>3, <2>4, <2>5, <2>6, InvFrom DEF p
  <2>8. columns'[c] # 0 /\ CellsFor(subtables', columns', data', c) = NoTimes
    BY <1>2, <1>6, <1>7, <2>3, <2>4 DEF CellsFor
  <2>. QED BY <1>1, <2>4, <2>6, <2>7, <2>8, CellsOfIs, ZenonT(40) DEF k
<1>. QED BY <1>8, <1>9

-----------------------------------------------------------------------------
(* Iterators.  An iterator stands at t when the times below t are behind it,   *)
(* and it points there when its bin holds the next time.                       *)

LEMMA RankMonotone ==
  ASSUME NEW S \in SUBSET Int, IsFiniteSet(S), NEW x \in Int, NEW y \in Int, x <= y
  PROVE  /\ Rank(S, x) \in Nat /\ Rank(S, y) \in Nat /\ Rank(S, x) <= Rank(S, y)
         /\ (\A z \in S : ~(x <= z /\ z < y)) => Rank(S, x) = Rank(S, y)
<1>. DEFINE A == {z \in S : z < x}
            B == {z \in S : z < y}
<1>1. B \in SUBSET S /\ A \in SUBSET B
  <2>1. \A z \in S : z < x => z < y
    OBVIOUS
  <2>. QED BY <2>1
<1>2. (\A z \in S : ~(x <= z /\ z < y)) => A = B
  <2>. SUFFICES ASSUME \A z \in S : ~(x <= z /\ z < y) PROVE \A z \in S : z < x <=> z < y
    OBVIOUS
  <2>. TAKE z \in S
  <2>1. z \in Int /\ ~(x <= z /\ z < y)
    OBVIOUS
  <2>. QED BY <2>1
<1>3. Rank(S, x) = Cardinality(A) /\ Rank(S, y) = Cardinality(B)
  BY DEF Rank
<1>. HIDE DEF A, B
<1>4. IsFiniteSet(B)
  BY <1>1, FS_Subset
<1>5. IsFiniteSet(A) /\ Cardinality(A) <= Cardinality(B)
  BY <1>1, <1>4, FS_Subset
<1>. QED BY <1>2, <1>3, <1>4, <1>5, FS_CardinalityType

LEMMA RankNext ==
  ASSUME NEW S \in SUBSET Int, IsFiniteSet(S), NEW u \in S
  PROVE  Rank(S, u + 1) = Rank(S, u) + 1
<1>. DEFINE A == {z \in S : z < u}
            B == {z \in S : z < u + 1}
<1>1. A \in SUBSET S /\ B = A \cup {u} /\ u \notin A
  <2>1. \A z \in S : z < u + 1 <=> z < u \/ z = u
    OBVIOUS
  <2>2. ~(u < u)
    OBVIOUS
  <2>. QED BY <2>1, <2>2
<1>2. Rank(S, u) = Cardinality(A) /\ Rank(S, u + 1) = Cardinality(B)
  BY DEF Rank
<1>. HIDE DEF A, B
<1>3. IsFiniteSet(A)
  BY <1>1, FS_Subset
<1>. QED BY <1>1, <1>2, <1>3, FS_AddElement

\* The members around a number
LEMMA Around ==
  ASSUME NEW S \in SUBSET Int, IsFiniteSet(S), NEW t \in Int
  PROVE  /\ Rank(S, t) \in 0 .. Cardinality(S) /\ Cardinality(S) \in Nat
         /\ Rank(S, t) = 0 => \A u \in S : u >= t
         /\ Rank(S, t) # 0 => LET x == Nth(S, Rank(S, t))
                              IN  x \in S /\ x < t /\ \A u \in S : u < t => u <= x
         /\ Rank(S, t) = Cardinality(S) => \A u \in S : u < t
         /\ Rank(S, t) # Cardinality(S) => LET x == Nth(S, Rank(S, t) + 1)
                                           IN  x \in S /\ x >= t /\ \A u \in S : u >= t => x <= u
<1>. DEFINE k == Rank(S, t)
            n == Cardinality(S)
<1>1. k \in 0 .. n /\ n \in Nat
  BY RankBounds, FS_CardinalityType
<1>2. \A u \in S : Rank(S, u) \in Nat /\ Rank(S, u) < n
  BY RankBounds
<1>3. \A u \in S : (u < t => Rank(S, u) < k) /\ (t <= u => k <= Rank(S, u))
  BY RankGrows, RankMonotone
<1>4. \A u \in S, x \in S : x < u => Rank(S, x) < Rank(S, u)
  BY RankGrows
<1>5. \A i \in 1 .. n : Nth(S, i) \in S /\ Rank(S, Nth(S, i)) = i - 1
  BY NthIs
<1>. HIDE DEF k, n
<1>0. \A u \in S : u \in Int
  OBVIOUS
<1>6. k = 0 => \A u \in S : u >= t
  BY <1>0, <1>2, <1>3
<1>7. k = n => \A u \in S : u < t
  BY <1>0, <1>1, <1>2, <1>3
<1>8. ASSUME k # 0
      PROVE  LET x == Nth(S, k) IN x \in S /\ x < t /\ \A u \in S : u < t => u <= x
  <2>. DEFINE x == Nth(S, k)
  <2>1. k \in 1 .. n
    BY <1>1, <1>8
  <2>2. x \in S /\ Rank(S, x) = k - 1
    BY <1>5, <2>1
  <2>. HIDE DEF x
  <2>3. x < t
    BY <1>1, <1>3, <2>2
  <2>4. \A u \in S : u < t => u <= x
    BY <1>1, <1>2, <1>3, <1>4, <2>2
  <2>. QED BY <2>2, <2>3, <2>4 DEF x
<1>9. ASSUME k # n
      PROVE  LET x == Nth(S, k + 1) IN x \in S /\ x >= t /\ \A u \in S : u >= t => x <= u
  <2>. DEFINE x == Nth(S, k + 1)
  <2>1. k + 1 \in 1 .. n
    BY <1>1, <1>9
  <2>2. x \in S /\ Rank(S, x) = k
    BY <1>1, <1>5, <2>1
  <2>. HIDE DEF x
  <2>3. x >= t
    BY <1>1, <1>3, <2>2
  <2>4. \A u \in S : u >= t => x <= u
    BY <1>1, <1>2, <1>3, <1>4, <2>2
  <2>. QED BY <2>2, <2>3, <2>4 DEF x
<1>. QED BY <1>1, <1>6, <1>7, <1>8, <1>9 DEF k, n

Iter == [bin : Bins, stale : Int, fresh : Int]

StandsAt(s, it, t) ==
  it \in Iter /\ it.stale = Rank(DOMAIN s.stale, t) /\ it.fresh = Rank(DOMAIN s.fresh, t)

From(s, t) == {u \in TimesOf(s) : u >= t}

PointsAt(s, it, t) ==
  /\ StandsAt(s, it, t)
  /\ IF From(s, t) = {} THEN ~HasNext(s, it) /\ PeekNext(s, it) = 0
     ELSE HasNext(s, it) /\ ~AtEnd(s, it, it.bin) /\ PeekNext(s, it) = Min(From(s, t))

\* The member of a finite set that is below the others is its least one.
LEMMA MinIs ==
  ASSUME NEW S \in SUBSET Int, NEW x \in S, \A y \in S : x <= y
  PROVE  Min(S) = x
<1>1. Min(S) \in S /\ \A y \in S : Min(S) <= y
  BY DEF Min
<1>2. Min(S) \in Int /\ x \in Int /\ Min(S) <= x /\ x <= Min(S)
  BY <1>1
<1>. QED BY <1>2

LEMMA MaxIs ==
  ASSUME NEW S \in SUBSET Int, NEW x \in S, \A y \in S : y <= x
  PROVE  Max(S) = x
<1>0. \A y \in S : x >= y
  <2>. TAKE y \in S
  <2>1. y \in Int /\ x \in Int /\ y <= x
    OBVIOUS
  <2>. QED BY <2>1
<1>1. Max(S) \in S /\ \A y \in S : Max(S) >= y
  BY <1>0 DEF Max
<1>2. Max(S) \in Int /\ x \in Int /\ Max(S) <= x /\ Max(S) >= x
  BY <1>1
<1>. QED BY <1>2

LEMMA SubtableTimes ==
  ASSUME NEW s, SubOK(s)
  PROVE  /\ DOMAIN s.stale \in SUBSET Int /\ IsFiniteSet(DOMAIN s.stale)
         /\ DOMAIN s.fresh \in SUBSET Int /\ IsFiniteSet(DOMAIN s.fresh)
         /\ TimesOf(s) = DOMAIN s.stale \cup DOMAIN s.fresh /\ TimesOf(s) \in SUBSET Int
         /\ DOMAIN s.stale \cap DOMAIN s.fresh = {} /\ TimesOf(s) \in SUBSET Time
<1>1. Time \in SUBSET Int
  BY TableAssumption
<1>2. /\ DOMAIN s.stale \in SUBSET Time /\ IsFiniteSet(DOMAIN s.stale)
      /\ DOMAIN s.fresh \in SUBSET Time /\ IsFiniteSet(DOMAIN s.fresh)
      /\ DOMAIN s.stale \cap DOMAIN s.fresh = {}
  BY DEF SubOK, BinOK
<1>3. TimesOf(s) = DOMAIN s.stale \cup DOMAIN s.fresh
  BY DEF TimesOf
<1>4. TimesOf(s) \in SUBSET Time
  BY <1>2, <1>3
<1>. QED BY <1>1, <1>2, <1>3, <1>4

\* What an iterator that stands at t has ahead of it, when its bin holds the
\* earlier of the next times
LEMMA PointsFrom ==
  ASSUME NEW s, SubOK(s), NEW t \in Int, NEW it, StandsAt(s, it, t),
         ~AtEnd(s, it, Other(it.bin)) =>
            ~AtEnd(s, it, it.bin) /\ Ahead(s, it, it.bin) <= Ahead(s, it, Other(it.bin))
  PROVE  PointsAt(s, it, t)
<1>. DEFINE S == DOMAIN s.stale
            F == DOMAIN s.fresh
<1>1. /\ S \in SUBSET Int /\ IsFiniteSet(S) /\ F \in SUBSET Int /\ IsFiniteSet(F)
      /\ TimesOf(s) = S \cup F
  BY SubtableTimes
<1>2. it.bin \in {"stale", "fresh"} /\ it.stale = Rank(S, t) /\ it.fresh = Rank(F, t)
  BY DEF StandsAt, Iter, Bins
<1>3. /\ AtEnd(s, it, "stale") <=> Rank(S, t) = Cardinality(S)
      /\ AtEnd(s, it, "fresh") <=> Rank(F, t) = Cardinality(F)
      /\ Ahead(s, it, "stale") = Nth(S, Rank(S, t) + 1)
      /\ Ahead(s, it, "fresh") = Nth(F, Rank(F, t) + 1)
  BY <1>2 DEF AtEnd, Ahead
<1>. DEFINE a == Ahead(s, it, "stale")
            b == Ahead(s, it, "fresh")
<1>. HIDE DEF S, F, a, b
<1>4. /\ AtEnd(s, it, "stale") => \A u \in S : u < t
      /\ ~AtEnd(s, it, "stale") => a \in S /\ a >= t /\ \A u \in S : u >= t => a <= u
  BY <1>1, <1>3, Around DEF a
<1>5. /\ AtEnd(s, it, "fresh") => \A u \in F : u < t
      /\ ~AtEnd(s, it, "fresh") => b \in F /\ b >= t /\ \A u \in F : u >= t => b <= u
  BY <1>1, <1>3, Around DEF b
<1>6. HasNext(s, it) <=> ~(AtEnd(s, it, "stale") /\ AtEnd(s, it, "fresh"))
  BY DEF HasNext
<1>7. From(s, t) \in SUBSET Int /\ \A u \in S \cup F : u \in From(s, t) <=> u >= t
  BY <1>1 DEF From
<1>8. \A u \in From(s, t) : u \in S \cup F /\ u >= t
  BY <1>1 DEF From
<1>9. CASE AtEnd(s, it, "stale") /\ AtEnd(s, it, "fresh")
  <2>1. \A u \in From(s, t) : u \in Int /\ u >= t /\ u < t
    BY <1>4, <1>5, <1>7, <1>8, <1>9
  <2>2. From(s, t) = {}
    BY <2>1
  <2>3. AtEnd(s, it, it.bin)
    BY <1>2, <1>9
  <2>. QED BY <1>6, <1>9, <2>2, <2>3 DEF PointsAt, PeekNext
<1>10. CASE ~AtEnd(s, it, "stale") /\ it.bin = "stale"
  <2>1. Other(it.bin) = "fresh" /\ (~AtEnd(s, it, "fresh") => a <= b)
    BY <1>10 DEF Other, a, b
  <2>2. a \in From(s, t)
    BY <1>4, <1>7, <1>10
  <2>3. \A u \in From(s, t) : a <= u
    <3>. TAKE u \in From(s, t)
    <3>1. u \in Int /\ u >= t /\ a \in Int /\ (u \in S \/ u \in F)
      BY <1>7, <1>8, <2>2
    <3>2. u \in F => ~AtEnd(s, it, "fresh") /\ b \in Int /\ b <= u
      <4>. SUFFICES ASSUME u \in F PROVE ~AtEnd(s, it, "fresh") /\ b \in Int /\ b <= u
        OBVIOUS
      <4>1. ~AtEnd(s, it, "fresh")
        BY <1>5, <3>1
      <4>. QED BY <1>1, <1>5, <3>1, <4>1
    <3>. QED BY <1>4, <1>10, <2>1, <3>1, <3>2
  <2>4. Min(From(s, t)) = a
    BY <1>7, <2>2, <2>3, MinIs
  <2>5. PeekNext(s, it) = a
    BY <1>10 DEF PeekNext, a
  <2>. QED BY <1>6, <1>10, <2>2, <2>4, <2>5 DEF PointsAt
<1>11. CASE ~AtEnd(s, it, "fresh") /\ it.bin = "fresh"
  <2>1. Other(it.bin) = "stale" /\ (~AtEnd(s, it, "stale") => b <= a)
    BY <1>11 DEF Other, a, b
  <2>2. b \in From(s, t)
    BY <1>5, <1>7, <1>11
  <2>3. \A u \in From(s, t) : b <= u
    <3>. TAKE u \in From(s, t)
    <3>1. u \in Int /\ u >= t /\ b \in Int /\ (u \in S \/ u \in F)
      BY <1>7, <1>8, <2>2
    <3>2. u \in S => ~AtEnd(s, it, "stale") /\ a \in Int /\ a <= u
      <4>. SUFFICES ASSUME u \in S PROVE ~AtEnd(s, it, "stale") /\ a \in Int /\ a <= u
        OBVIOUS
      <4>1. ~AtEnd(s, it, "stale")
        BY <1>4, <3>1
      <4>. QED BY <1>1, <1>4, <3>1, <4>1
    <3>. QED BY <1>5, <1>11, <2>1, <3>1, <3>2
  <2>4. Min(From(s, t)) = b
    BY <1>7, <2>2, <2>3, MinIs
  <2>5. PeekNext(s, it) = b
    BY <1>11 DEF PeekNext, b
  <2>. QED BY <1>6, <1>11, <2>2, <2>4, <2>5 DEF PointsAt
<1>12. it.bin = "stale" => Other(it.bin) = "fresh"
  BY DEF Other
<1>13. it.bin = "fresh" => Other(it.bin) = "stale"
  BY DEF Other
<1>. QED BY <1>2, <1>9, <1>10, <1>11, <1>12, <1>13

LEMMA LowerBoundPoints ==
  ASSUME NEW s, SubOK(s), NEW t \in Int
  PROVE  PointsAt(s, LowerBound(s, t), t)
<1>. DEFINE S  == DOMAIN s.stale
            F  == DOMAIN s.fresh
            it == [bin |-> "fresh", stale |-> Rank(S, t), fresh |-> Rank(F, t)]
            r  == LowerBound(s, t)
<1>1. S \in SUBSET Int /\ IsFiniteSet(S) /\ F \in SUBSET Int /\ IsFiniteSet(F)
  BY SubtableTimes
<1>2. Rank(S, t) \in Int /\ Rank(F, t) \in Int
  BY <1>1, RankBounds
<1>3. r = IF AtEnd(s, it, "stale") THEN it
          ELSE IF AtEnd(s, it, "fresh") \/ Ahead(s, it, "stale") < Ahead(s, it, "fresh")
          THEN [it EXCEPT !.bin = "stale"] ELSE it
  BY DEF LowerBound
<1>4. /\ ~AtEnd(s, it, "stale") => Ahead(s, it, "stale") \in Int
      /\ ~AtEnd(s, it, "fresh") => Ahead(s, it, "fresh") \in Int
  <2>1. Rank(S, t) # Cardinality(S) => Nth(S, Rank(S, t) + 1) \in Int
    BY <1>1, Around
  <2>2. Rank(F, t) # Cardinality(F) => Nth(F, Rank(F, t) + 1) \in Int
    BY <1>1, Around
  <2>. QED BY <2>1, <2>2 DEF AtEnd, Ahead
<1>. HIDE DEF r
<1>5. r \in Iter /\ r.stale = Rank(S, t) /\ r.fresh = Rank(F, t) /\ it.stale = Rank(S, t) /\ it.fresh = Rank(F, t)
  BY <1>2, <1>3 DEF Iter, Bins
<1>6. StandsAt(s, r, t)
  BY <1>5 DEF StandsAt
<1>7. /\ AtEnd(s, r, "stale") <=> AtEnd(s, it, "stale")
      /\ AtEnd(s, r, "fresh") <=> AtEnd(s, it, "fresh")
      /\ Ahead(s, r, "stale") = Ahead(s, it, "stale") /\ Ahead(s, r, "fresh") = Ahead(s, it, "fresh")
  BY <1>5 DEF AtEnd, Ahead
<1>8. /\ r.bin = "fresh" \/ r.bin = "stale"
      /\ r.bin = "fresh" => AtEnd(s, it, "stale") \/ (~AtEnd(s, it, "fresh") /\ ~(Ahead(s, it, "stale") < Ahead(s, it, "fresh")))
      /\ r.bin = "stale" => ~AtEnd(s, it, "stale") /\ (AtEnd(s, it, "fresh") \/ Ahead(s, it, "stale") < Ahead(s, it, "fresh"))
  BY <1>3
<1>9. Other("stale") = "fresh" /\ Other("fresh") = "stale"
  BY DEF Other
<1>. HIDE DEF it, S, F
<1>10. ~AtEnd(s, r, Other(r.bin)) =>
         ~AtEnd(s, r, r.bin) /\ Ahead(s, r, r.bin) <= Ahead(s, r, Other(r.bin))
  <2>1. CASE r.bin = "fresh"
    BY <1>4, <1>7, <1>8, <1>9, <2>1
  <2>2. CASE r.bin = "stale"
    BY <1>4, <1>7, <1>8, <1>9, <2>2
  <2>. QED BY <1>8, <2>1, <2>2
<1>. QED BY <1>6, <1>10, PointsFrom DEF r

\* Past the next time of one bin
LEMMA RankPast ==
  ASSUME NEW S \in SUBSET Int, IsFiniteSet(S), NEW F \in SUBSET Int, IsFiniteSet(F),
         NEW t \in Int, NEW u \in S, u \notin F, t <= u,
         \A z \in S \cup F : z >= t => u <= z
  PROVE  Rank(S, u + 1) = Rank(S, t) + 1 /\ Rank(F, u + 1) = Rank(F, t)
<1>1. u \in Int /\ u + 1 \in Int /\ t <= u + 1
  OBVIOUS
<1>2. \A z \in S : ~(t <= z /\ z < u)
  <2>. TAKE z \in S
  <2>1. z \in Int /\ z \in S \cup F /\ (z >= t => u <= z)
    OBVIOUS
  <2>. QED BY <1>1, <2>1
<1>3. \A z \in F : ~(t <= z /\ z < u + 1)
  <2>. TAKE z \in F
  <2>1. z \in Int /\ z \in S \cup F /\ (z >= t => u <= z) /\ z # u
    OBVIOUS
  <2>. QED BY <1>1, <2>1
<1>4. Rank(S, t) = Rank(S, u)
  BY <1>1, <1>2, RankMonotone
<1>5. Rank(F, t) = Rank(F, u + 1)
  BY <1>1, <1>3, RankMonotone
<1>. QED BY <1>4, <1>5, RankNext

LEMMA NextRowPoints ==
  ASSUME NEW s, SubOK(s), NEW t \in Int, NEW it, PointsAt(s, it, t), From(s, t) # {}
  PROVE  PointsAt(s, NextRow(s, it), Min(From(s, t)) + 1)
<1>. DEFINE S == DOMAIN s.stale
            F == DOMAIN s.fresh
            b == it.bin
            o == Other(b)
            u == Min(From(s, t))
            m == [it EXCEPT ![b] = it[b] + 1]
            r == NextRow(s, it)
<1>1. /\ S \in SUBSET Int /\ IsFiniteSet(S) /\ F \in SUBSET Int /\ IsFiniteSet(F)
      /\ TimesOf(s) = S \cup F /\ S \cap F = {}
  BY SubtableTimes
<1>2. /\ it \in Iter /\ it.stale = Rank(S, t) /\ it.fresh = Rank(F, t)
      /\ ~AtEnd(s, it, b) /\ PeekNext(s, it) = u
  BY DEF PointsAt, StandsAt
<1>3. b = "stale" \/ b = "fresh"
  BY <1>2 DEF Iter, Bins
<1>4. Ahead(s, it, b) = u
  BY <1>2 DEF PeekNext
<1>5. r = IF AtEnd(s, m, b) \/ (~AtEnd(s, m, o) /\ Ahead(s, m, b) > Ahead(s, m, o))
          THEN [m EXCEPT !.bin = o] ELSE m
  BY <1>2 DEF NextRow
<1>. HIDE DEF r, u
<1>6. b = "stale" => u \in S /\ u >= t
  <2>. SUFFICES ASSUME b = "stale" PROVE u \in S /\ u >= t
    OBVIOUS
  <2>1. Rank(S, t) # Cardinality(S) /\ u = Nth(S, Rank(S, t) + 1)
    BY <1>2, <1>4 DEF AtEnd, Ahead
  <2>. QED BY <1>1, <2>1, Around
<1>7. b = "fresh" => u \in F /\ u >= t
  <2>. SUFFICES ASSUME b = "fresh" PROVE u \in F /\ u >= t
    OBVIOUS
  <2>1. Rank(F, t) # Cardinality(F) /\ u = Nth(F, Rank(F, t) + 1)
    BY <1>2, <1>4 DEF AtEnd, Ahead
  <2>. QED BY <1>1, <2>1, Around
<1>8. \A z \in S \cup F : z >= t => u <= z
  <2>1. From(s, t) = {z \in S \cup F : z >= t}
    BY <1>1 DEF From
  <2>2. From(s, t) \in SUBSET Int
    BY <1>1, <2>1
  <2>3. IsFiniteSet(S \cup F)
    BY <1>1, FS_Union
  <2>4. From(s, t) \in SUBSET (S \cup F)
    BY <2>1
  <2>5. IsFiniteSet(From(s, t))
    BY <2>3, <2>4, FS_Subset
  <2>6. \A z \in From(s, t) : u <= z
    BY <2>2, <2>5, Extremes DEF u
  <2>. QED BY <2>1, <2>6
<1>. HIDE DEF S, F
<1>9. u \in Int /\ t <= u
  BY <1>1, <1>3, <1>6, <1>7
<1>10. Other("stale") = "fresh" /\ Other("fresh") = "stale"
  BY DEF Other
<1>11. /\ m \in Iter /\ m.bin = b /\ m.stale = Rank(S, u + 1) /\ m.fresh = Rank(F, u + 1)
  <2>1. CASE b = "stale"
    <3>1. Rank(S, u + 1) = Rank(S, t) + 1 /\ Rank(F, u + 1) = Rank(F, t)
      BY <1>1, <1>6, <1>8, <1>9, <2>1, RankPast
    <3>2. m = [it EXCEPT !.stale = it.stale + 1]
      BY <2>1
    <3>3. m \in Iter /\ m.bin = it.bin /\ m.stale = it.stale + 1 /\ m.fresh = it.fresh
      BY <1>2, <3>2 DEF Iter
    <3>. QED BY <1>2, <3>1, <3>3
  <2>2. CASE b = "fresh"
    <3>1. Rank(F, u + 1) = Rank(F, t) + 1 /\ Rank(S, u + 1) = Rank(S, t)
      <4>1. \A z \in F \cup S : z >= t => u <= z
        BY <1>8
      <4>. QED BY <1>1, <1>7, <1>9, <2>2, <4>1, RankPast
    <3>2. m = [it EXCEPT !.fresh = it.fresh + 1]
      BY <2>2
    <3>3. m \in Iter /\ m.bin = it.bin /\ m.fresh = it.fresh + 1 /\ m.stale = it.stale
      BY <1>2, <3>2 DEF Iter
    <3>. QED BY <1>2, <3>1, <3>3
  <2>. QED BY <1>3, <2>1, <2>2
<1>. HIDE DEF m
<1>12. o = "stale" \/ o = "fresh"
  BY <1>3, <1>10
<1>13. /\ r \in Iter /\ r.stale = m.stale /\ r.fresh = m.fresh
       /\ \/ r.bin = o /\ (AtEnd(s, m, b) \/ (~AtEnd(s, m, o) /\ Ahead(s, m, b) > Ahead(s, m, o)))
          \/ r.bin = b /\ ~AtEnd(s, m, b) /\ (AtEnd(s, m, o) \/ ~(Ahead(s, m, b) > Ahead(s, m, o)))
  <2>. HIDE DEF o, b
  <2>. QED BY <1>5, <1>11, <1>12 DEF Iter, Bins
<1>14. StandsAt(s, r, u + 1)
  BY <1>11, <1>13 DEF StandsAt, S, F
<1>15. /\ AtEnd(s, r, "stale") <=> AtEnd(s, m, "stale")
       /\ AtEnd(s, r, "fresh") <=> AtEnd(s, m, "fresh")
       /\ Ahead(s, r, "stale") = Ahead(s, m, "stale") /\ Ahead(s, r, "fresh") = Ahead(s, m, "fresh")
  BY <1>13 DEF AtEnd, Ahead
<1>16. /\ ~AtEnd(s, m, "stale") => Ahead(s, m, "stale") \in Int
       /\ ~AtEnd(s, m, "fresh") => Ahead(s, m, "fresh") \in Int
  <2>0. u + 1 \in Int
    BY <1>9
  <2>1. Rank(S, u + 1) # Cardinality(S) => Nth(S, Rank(S, u + 1) + 1) \in Int
    BY <1>1, <2>0, Around
  <2>2. Rank(F, u + 1) # Cardinality(F) => Nth(F, Rank(F, u + 1) + 1) \in Int
    BY <1>1, <2>0, Around
  <2>. QED BY <1>11, <2>1, <2>2 DEF AtEnd, Ahead, S, F
<1>17. ~AtEnd(s, r, Other(r.bin)) =>
         ~AtEnd(s, r, r.bin) /\ Ahead(s, r, r.bin) <= Ahead(s, r, Other(r.bin))
  <2>1. CASE b = "stale"
    BY <1>10, <1>13, <1>15, <1>16, <2>1
  <2>2. CASE b = "fresh"
    BY <1>10, <1>13, <1>15, <1>16, <2>2
  <2>. QED BY <1>3, <2>1, <2>2
<1>18. u + 1 \in Int
  BY <1>9
<1>. QED BY <1>14, <1>17, <1>18, PointsFrom DEF r, u

\* The time one row back is the latest before.
LEMMA PreviousIsLatest ==
  ASSUME NEW s, SubOK(s), NEW t \in Int, NEW it, StandsAt(s, it, t)
  PROVE  LET before == {u \in TimesOf(s) : u < t}
         IN /\ HasPrevious(it) <=> before # {}
            /\ before # {} => PeekNext(s, Previous(s, it)) = Max(before)
<1>. DEFINE S == DOMAIN s.stale
            F == DOMAIN s.fresh
            before == {u \in TimesOf(s) : u < t}
            a == Nth(S, Rank(S, t))
            c == Nth(F, Rank(F, t))
            b == IF it.fresh = 0 \/ (it.stale > 0 /\ a > c) THEN "stale" ELSE "fresh"
            r == Previous(s, it)
<1>1. /\ S \in SUBSET Int /\ IsFiniteSet(S) /\ F \in SUBSET Int /\ IsFiniteSet(F)
      /\ TimesOf(s) = S \cup F
  BY SubtableTimes
<1>2. it \in Iter /\ it.stale = Rank(S, t) /\ it.fresh = Rank(F, t)
  BY DEF StandsAt
<1>3. /\ Rank(S, t) \in 0 .. Cardinality(S) /\ Cardinality(S) \in Nat
      /\ Rank(S, t) = 0 => \A u \in S : u >= t
      /\ Rank(S, t) # 0 => a \in S /\ a < t /\ \A u \in S : u < t => u <= a
  BY <1>1, Around
<1>4. /\ Rank(F, t) \in 0 .. Cardinality(F) /\ Cardinality(F) \in Nat
      /\ Rank(F, t) = 0 => \A u \in F : u >= t
      /\ Rank(F, t) # 0 => c \in F /\ c < t /\ \A u \in F : u < t => u <= c
  BY <1>1, Around
<1>5. HasPrevious(it) <=> (Rank(S, t) # 0 \/ Rank(F, t) # 0)
  BY <1>2, <1>3, <1>4 DEF HasPrevious
<1>6. /\ \A u \in before : u \in S \cup F /\ u < t /\ u \in Int
      /\ \A u \in S \cup F : u < t => u \in before
      /\ before \in SUBSET Int
  BY <1>1
<1>7. /\ Behind(s, it, "stale") = a /\ Behind(s, it, "fresh") = c
  BY <1>2 DEF Behind
<1>8. HasPrevious(it) => r = [it EXCEPT ![b] = it[b] - 1, !.bin = b]
  <2>1. \A x : [it EXCEPT ![x] = @ - 1, !.bin = x] = [it EXCEPT ![x] = it[x] - 1, !.bin = x]
    OBVIOUS
  <2>2. b = IF it.fresh = 0 \/ (it.stale > 0 /\ Behind(s, it, "stale") > Behind(s, it, "fresh"))
            THEN "stale" ELSE "fresh"
    BY <1>7
  <2>. HIDE DEF b
  <2>. QED BY <2>1, <2>2 DEF Previous
<1>. HIDE DEF r, S, F, a, c, before
<1>9. HasPrevious(it) <=> before # {}
  <2>1. ASSUME HasPrevious(it) PROVE before # {}
    BY <1>3, <1>4, <1>5, <1>6, <2>1
  <2>2. ASSUME NEW u \in before PROVE HasPrevious(it)
    <3>1. u \in Int /\ u < t /\ (u \in S \/ u \in F)
      BY <1>6
    <3>. QED BY <1>3, <1>4, <1>5, <3>1
  <2>. QED BY <2>1, <2>2
<1>10. ASSUME before # {} PROVE PeekNext(s, r) = Max(before)
  <2>0. HasPrevious(it) /\ r = [it EXCEPT ![b] = it[b] - 1, !.bin = b]
    <3>. HIDE DEF b
    <3>. QED BY <1>8, <1>9, <1>10
  <2>1. CASE b = "stale"
    <3>1. Rank(S, t) # 0 /\ (Rank(F, t) = 0 \/ a > c)
      <4>1. it.fresh = 0 \/ (it.stale > 0 /\ a > c)
        BY <2>1
      <4>2. HasPrevious(it)
        BY <1>9, <1>10
      <4>. HIDE DEF b
      <4>. QED BY <1>2, <1>3, <1>5, <4>1, <4>2
    <3>2. a \in before
      BY <1>3, <1>6, <3>1
    <3>3. \A u \in before : u <= a
      <4>. TAKE u \in before
      <4>1. u \in Int /\ u < t /\ (u \in S \/ u \in F) /\ a \in Int
        BY <1>6, <3>2
      <4>2. Rank(F, t) # 0 => c \in Int
        BY <1>1, <1>4
      <4>. QED BY <1>3, <1>4, <3>1, <4>1, <4>2
    <3>4. Max(before) = a
      BY <1>6, <3>2, <3>3, MaxIs
    <3>. HIDE DEF b
    <3>5. r.bin = "stale" /\ r.stale = Rank(S, t) - 1
      <4>1. r = [it EXCEPT !.stale = it.stale - 1, !.bin = "stale"]
        BY <2>0, <2>1
      <4>. QED BY <1>2, <4>1 DEF Iter
    <3>6. ~AtEnd(s, r, r.bin) /\ Ahead(s, r, r.bin) = a
      <4>1. Rank(S, t) - 1 # Cardinality(S) /\ (Rank(S, t) - 1) + 1 = Rank(S, t)
        BY <1>3
      <4>. QED BY <3>5, <4>1 DEF AtEnd, Ahead, a, S
    <3>. QED BY <3>4, <3>6 DEF PeekNext
  <2>2. CASE b = "fresh"
    <3>1. Rank(F, t) # 0 /\ (Rank(S, t) = 0 \/ ~(a > c))
      BY <1>2, <1>3, <1>4, <2>2
    <3>2. c \in before
      BY <1>4, <1>6, <3>1
    <3>3. \A u \in before : u <= c
      <4>. TAKE u \in before
      <4>1. u \in Int /\ u < t /\ (u \in S \/ u \in F) /\ c \in Int
        BY <1>6, <3>2
      <4>2. Rank(S, t) # 0 => a \in Int
        BY <1>1, <1>3
      <4>. QED BY <1>3, <1>4, <3>1, <4>1, <4>2
    <3>4. Max(before) = c
      BY <1>6, <3>2, <3>3, MaxIs
    <3>. HIDE DEF b
    <3>5. r.bin = "fresh" /\ r.fresh = Rank(F, t) - 1
      <4>1. r = [it EXCEPT !.fresh = it.fresh - 1, !.bin = "fresh"]
        BY <2>0, <2>2
      <4>. QED BY <1>2, <4>1 DEF Iter
    <3>6. ~AtEnd(s, r, r.bin) /\ Ahead(s, r, r.bin) = c
      <4>1. Rank(F, t) - 1 # Cardinality(F) /\ (Rank(F, t) - 1) + 1 = Rank(F, t)
        BY <1>4
      <4>. QED BY <3>5, <4>1 DEF AtEnd, Ahead, c, F
    <3>. QED BY <3>4, <3>6 DEF PeekNext
  <2>. QED BY <2>1, <2>2
<1>. QED BY <1>9, <1>10 DEF r, before

\* The latest time of a subtable with rows
LEMMA LatestTime ==
  ASSUME NEW s, SubOK(s), TimesOf(s) # {}
  PROVE  PeekNext(s, Previous(s, End(s))) = Max(TimesOf(s)) /\ Max(TimesOf(s)) \in Time
<1>. DEFINE T == TimesOf(s)
            t == Max(T) + 1
<1>1. /\ DOMAIN s.stale \in SUBSET Int /\ IsFiniteSet(DOMAIN s.stale)
      /\ DOMAIN s.fresh \in SUBSET Int /\ IsFiniteSet(DOMAIN s.fresh)
      /\ T = DOMAIN s.stale \cup DOMAIN s.fresh /\ T \in SUBSET Int /\ T \in SUBSET Time
  BY SubtableTimes
<1>2. IsFiniteSet(T)
  BY <1>1, FS_Union
<1>3. Max(T) \in T /\ \A u \in T : u <= Max(T)
  BY <1>1, <1>2, Extremes
<1>. HIDE DEF T
<1>4. t \in Int /\ \A u \in T : u < t
  BY <1>1, <1>3
<1>. HIDE DEF t
<1>5. Rank(DOMAIN s.stale, t) = Cardinality(DOMAIN s.stale) /\ Rank(DOMAIN s.fresh, t) = Cardinality(DOMAIN s.fresh)
  <2>1. \A u \in DOMAIN s.stale : ~(u >= t)
    BY <1>1, <1>4
  <2>2. \A u \in DOMAIN s.fresh : ~(u >= t)
    BY <1>1, <1>4
  <2>. QED BY <1>1, <1>4, <2>1, <2>2, Around
<1>6. StandsAt(s, End(s), t)
  <2>1. Cardinality(DOMAIN s.stale) \in Int /\ Cardinality(DOMAIN s.fresh) \in Int
    BY <1>1, FS_CardinalityType
  <2>. QED BY <1>5, <2>1 DEF StandsAt, End, Iter, Bins
<1>7. {u \in TimesOf(s) : u < t} = T
  BY <1>4 DEF T
<1>. QED BY <1>1, <1>3, <1>4, <1>6, <1>7, PreviousIsLatest DEF T

LEMMA FlushRangeStep ==
  ASSUME TableInv, NEW start \in Time, NEW end, FlushRange(start, end)
  PROVE  /\ TableInv' /\ columns' = columns
         /\ \A d \in Column : CellsOf(d)' = Rest(CellsOf(d), start, end)
<1>. DEFINE N == Len(subtables)
            p == limits.points
            E == {PeekNext(s, Previous(s, End(s))) : s \in {q \in Range(subtables') : TimesOf(q) # {}}}
<1>1. /\ subtables' = [i \in DOMAIN subtables |-> SubFlush(subtables[i], start, end)]
      /\ data' = [d \in Column |-> IF columns[d] = 0 THEN data[d]
                                   ELSE ValuesFlush(data[d], subtables[columns[d]], start, end)]
      /\ limits' = limits /\ nextId' = nextId /\ columns' = columns
      /\ endTime' = Max({-1} \cup E)
  BY DEF FlushRange, SubFlush, ValuesFlush
<1>. HIDE DEF N, p
<1>2. /\ N \in Nat /\ DOMAIN subtables = 1 .. N
      /\ \A i \in 1 .. N : /\ SubOK(subtables[i]) /\ subtables[i].columns \in SUBSET Column
                           /\ Halved(subtables[i], p)
      /\ \A d \in Column : columns[d] # 0 => columns[d] \in 1 .. N /\ Fits(data[d], subtables[columns[d]])
      /\ \A d \in Column : columns[d] = 0 => data[d] = NoValues
      /\ \A i \in 1 .. N, d \in Column : d \in subtables[i].columns <=> columns[d] = i
      /\ columns \in [Column -> 0 .. N]
      /\ p \in Nat
  BY InvParts DEF N, p
<1>3. ASSUME NEW i \in 1 .. N
      PROVE  /\ SubOK(subtables'[i]) /\ subtables'[i] \in Subtable /\ Halved(subtables'[i], p)
             /\ subtables'[i].columns = subtables[i].columns
             /\ \A v : Fits(v, subtables[i]) =>
                  LET w == ValuesFlush(v, subtables[i], start, end)
                  IN  Fits(w, subtables'[i])
                      /\ CellsIn(subtables'[i], w) = Rest(CellsIn(subtables[i], v), start, end)
  <2>. DEFINE s == subtables[i]
              r == SubFlush(s, start, end)
  <2>1. subtables'[i] = r /\ SubOK(s) /\ Halved(s, p)
    BY <1>1, <1>2
  <2>. HIDE DEF s, r
  <2>2. /\ SubOK(r) /\ r.columns = s.columns
        /\ Cardinality(DOMAIN r.stale) <= Cardinality(DOMAIN s.stale)
        /\ Cardinality(DOMAIN r.fresh) <= Cardinality(DOMAIN s.fresh)
        /\ \A v : Fits(v, s) =>
             LET w == ValuesFlush(v, s, start, end)
             IN  Fits(w, r) /\ CellsIn(r, w) = Rest(CellsIn(s, v), start, end)
    BY <2>1, CellsFlushed DEF r
  <2>3. Halved(r, p)
    <3>1. /\ Cardinality(DOMAIN r.stale) \in Nat /\ Cardinality(DOMAIN r.fresh) \in Nat
          /\ Cardinality(DOMAIN s.stale) \in Nat /\ Cardinality(DOMAIN s.fresh) \in Nat
      BY <2>1, <2>2, CountsOf
    <3>2. p > 0 => Half(p) \in Nat
      BY <1>2, HalfIs
    <3>. QED BY <2>1, <2>2, <3>1, <3>2 DEF Halved
  <2>. QED BY <2>1, <2>2, <2>3 DEF s, SubOK
<1>4. subtables' \in Seq(Subtable) /\ Len(subtables') = N /\ DOMAIN subtables' = 1 .. N
  <2>1. subtables' = [i \in 1 .. N |-> subtables'[i]]
    BY <1>1, <1>2
  <2>. QED BY <1>2, <1>3, <2>1
<1>5. ASSUME NEW d \in Column
      PROVE  /\ data'[d] \in Values
             /\ columns'[d] = 0 => data'[d] = NoValues
             /\ columns'[d] # 0 => Fits(data'[d], subtables'[columns'[d]])
             /\ CellsFor(subtables', columns', data', d) = Rest(CellsFor(subtables, columns, data, d), start, end)
  <2>1. CASE columns[d] = 0
    <3>1. data'[d] = NoValues /\ NoValues \in Values
      BY <1>1, <1>2, <2>1 DEF NoValues, Values
    <3>2. Rest(NoTimes, start, end) = NoTimes
      BY DEF Rest, Restrict, NoTimes
    <3>. QED BY <1>1, <2>1, <3>1, <3>2 DEF CellsFor
  <2>2. CASE columns[d] # 0
    <3>1. columns[d] \in 1 .. N /\ Fits(data[d], subtables[columns[d]])
      BY <1>2, <2>2
    <3>2. data'[d] = ValuesFlush(data[d], subtables[columns[d]], start, end)
      BY <1>1, <2>2
    <3>3. /\ Fits(data'[d], subtables'[columns[d]])
          /\ CellsIn(subtables'[columns[d]], data'[d]) = Rest(CellsIn(subtables[columns[d]], data[d]), start, end)
      BY <1>3, <3>1, <3>2
    <3>4. data'[d] \in Values
      BY <3>3 DEF Fits
    <3>. QED BY <1>1, <2>2, <3>3, <3>4 DEF CellsFor
  <2>. QED BY <2>1, <2>2
<1>6. data' \in [Column -> Values]
  <2>1. data' = [d \in Column |-> data'[d]]
    BY <1>1
  <2>2. \A d \in Column : data'[d] \in Values
    BY <1>5
  <2>. QED BY <2>1, <2>2
<1>7. endTime' \in Time \cup {-1}
  <2>. DEFINE I == {i \in 1 .. N : TimesOf(subtables'[i]) # {}}
              h == [i \in I |-> PeekNext(subtables'[i], Previous(subtables'[i], End(subtables'[i])))]
              Z == {-1} \cup E
  <2>1. \A i \in I : h[i] \in Time
    BY <1>3, LatestTime
  <2>2. Range(subtables') = {subtables'[i] : i \in 1 .. N}
    BY <1>4 DEF Range
  <2>3. E = {h[i] : i \in I}
    <3>1. \A s : s \in Range(subtables') /\ TimesOf(s) # {} <=> \E i \in I : s = subtables'[i]
      BY <2>2
    <3>. DEFINE L(s) == PeekNext(s, Previous(s, End(s)))
    <3>2. \A x : x \in E <=> \E s : s \in Range(subtables') /\ TimesOf(s) # {} /\ x = L(s)
      OBVIOUS
    <3>3. \A i \in I : h[i] = L(subtables'[i])
      OBVIOUS
    <3>. HIDE DEF L, E, h, I
    <3>4. \A x : x \in E <=> \E i \in I : x = h[i]
      BY <3>1, <3>2, <3>3
    <3>. QED BY <3>4
  <2>. HIDE DEF E
  <2>4. IsFiniteSet(E)
    <3>1. IsFiniteSet(1 .. N)
      <4>1. 1 \in Int /\ N \in Int
        BY <1>2
      <4>. QED BY <4>1, FS_Interval
    <3>2. I \in SUBSET (1 .. N)
      OBVIOUS
    <3>3. h \in Surjection(I, E)
      BY <2>3 DEF Surjection
    <3>. HIDE DEF I, h
    <3>4. IsFiniteSet(I)
      BY <3>1, <3>2, FS_Subset
    <3>. QED BY <3>3, <3>4, FS_Surjection
  <2>5. E \in SUBSET Time /\ Time \in SUBSET Int
    <3>1. Time \in SUBSET Int
      BY TableAssumption
    <3>. HIDE DEF h, I
    <3>. QED BY <2>1, <2>3, <3>1
  <2>6. Z \in SUBSET Int /\ Z # {} /\ IsFiniteSet(Z)
    <3>1. IsFiniteSet(E \cup {-1})
      BY <2>4, FS_AddElement
    <3>2. Z = E \cup {-1}
      OBVIOUS
    <3>. QED BY <2>5, <3>1, <3>2
  <2>7. Max(Z) \in Z
    <3>. HIDE DEF Z
    <3>. QED BY <2>6, Extremes
  <2>. QED BY <1>1, <2>5, <2>7
<1>8. TableInv'
  <2>1. \A i \in 1 .. N : /\ SubOK(subtables'[i]) /\ Halved(subtables'[i], p)
                          /\ subtables'[i].columns \in SUBSET Column
                          /\ \A d \in Column : d \in subtables'[i].columns <=> columns'[d] = i
    BY <1>1, <1>2, <1>3
  <2>2. columns' \in [Column -> 0 .. N]
    BY <1>1, <1>2
  <2>. QED BY <1>1, <1>2, <1>4, <1>5, <1>6, <1>7, <2>1, <2>2, InvFrom DEF p
<1>. QED BY <1>1, <1>5, <1>8, CellsOfIs

-----------------------------------------------------------------------------
(* A row.                                                                      *)

LEMMA KnownColumns ==
  ASSUME NEW row \in Row
  PROVE  /\ Known(row) \in SUBSET Column
         /\ \A c \in Known(row) : columns[c] # 0 /\ row[c] \in Value
<1>1. PICK named \in SUBSET Column : row \in [named -> Value]
  BY DEF Row
<1>2. \A c \in Column : c <= c
  BY DEF Column
<1>. QED BY <1>1, <1>2 DEF Known

\* One subtable and its columns after the cells of the row were set, before
\* subtables are split: the columns without a new cell lack one if the time is
\* new, and then the subtable without the time is the one from before.
GrownOK(i, t, row, known, touched, grown, written) ==
  LET s    == subtables[i]
      g    == grown[i]
      lack == Lacking(g, written)
  IN /\ SubOK(g) /\ g.columns = s.columns
     /\ Cardinality(DOMAIN g.stale) = Cardinality(DOMAIN s.stale)
     /\ Cardinality(DOMAIN g.fresh) <= Cardinality(DOMAIN s.fresh) + 1
     /\ lack \in SUBSET s.columns /\ lack \cap known = {}
     /\ lack # {} => i \in touched /\ Splits(g, written) /\ EraseTime(g, t) = s
     /\ Splits(g, written) => lack # {}
     /\ \A c \in s.columns \ lack :
          /\ Fits(written[c], g)
          /\ CellsIn(g, written[c]) = IF c \in known THEN Contract!WithCell(CellsIn(s, data[c]), t, row[c])
                                      ELSE CellsIn(s, data[c])
     /\ \A c \in s.columns : c \notin known => written[c] = data[c]

LEMMA GrownSubtable ==
  ASSUME TableInv, NEW t \in Time, NEW row \in Row, NEW i \in 1 .. Len(subtables),
         NEW known, known = Known(row), NEW touched, touched = {columns[c] : c \in known},
         NEW grown, grown = Grown(t, touched), NEW written, written = Written(t, row, known)
  PROVE  GrownOK(i, t, row, known, touched, grown, written)
<1>. DEFINE s    == subtables[i]
            g    == grown[i]
            lack == Lacking(g, written)
            N    == Len(subtables)
            Result ==
              /\ SubOK(g) /\ g.columns = s.columns
              /\ Cardinality(DOMAIN g.stale) = Cardinality(DOMAIN s.stale)
              /\ Cardinality(DOMAIN g.fresh) <= Cardinality(DOMAIN s.fresh) + 1
              /\ lack \in SUBSET s.columns /\ lack \cap known = {}
              /\ lack # {} => i \in touched /\ Splits(g, written) /\ EraseTime(g, t) = s
              /\ Splits(g, written) => lack # {}
              /\ \A c \in s.columns \ lack :
                   /\ Fits(written[c], g)
                   /\ CellsIn(g, written[c]) = IF c \in known THEN Contract!WithCell(CellsIn(s, data[c]), t, row[c])
                                               ELSE CellsIn(s, data[c])
              /\ \A c \in s.columns : c \notin known => written[c] = data[c]
<1>1. /\ N \in Nat /\ DOMAIN subtables = 1 .. N
      /\ \A j \in 1 .. N : SubOK(subtables[j]) /\ subtables[j].columns \in SUBSET Column
      /\ \A d \in Column : columns[d] # 0 => Fits(data[d], subtables[columns[d]])
      /\ \A j \in 1 .. N, d \in Column : d \in subtables[j].columns <=> columns[d] = j
  BY InvParts DEF N
<1>2. known \in SUBSET Column /\ \A c \in known : columns[c] # 0 /\ row[c] \in Value
  BY KnownColumns
<1>3. g = IF i \in touched THEN FindOrAddTime(s, t) ELSE s
  BY <1>1 DEF Grown
<1>4. /\ \A c \in known : written[c] = SetCell(data[c], subtables[columns[c]], t, row[c])
      /\ \A c \in Column \ known : written[c] = data[c]
  BY <1>2 DEF Written
<1>5. SubOK(s) /\ s.columns \in SUBSET Column /\ \A c \in Column : c \in s.columns <=> columns[c] = i
  BY <1>1
<1>6. \A c \in s.columns : columns[c] = i /\ c \in Column /\ Fits(data[c], s)
  BY <1>1, <1>5
<1>7. i \in touched <=> \E c \in known : c \in s.columns
  BY <1>2, <1>5
<1>. HIDE DEF s, g
<1>8. \A c \in s.columns \cap known : written[c] = SetCell(data[c], s, t, row[c])
  BY <1>4, <1>6 DEF s
<1>9. \A c \in s.columns \ known : written[c] = data[c]
  BY <1>4, <1>6
<1>10. lack = {c \in g.columns : Size(written[c]) # RowCount(g)}
  BY DEF Lacking
<1>11. \A v : Fits(v, g) => Size(v) = RowCount(g)
  BY DEF Fits, Size, RowCount
<1>12. Splits(g, written) => lack # {}
  BY DEF Splits
<1>13. ASSUME g = s PROVE Result
  <2>1. ASSUME NEW c \in s.columns
        PROVE  /\ Fits(written[c], g)
               /\ CellsIn(g, written[c]) = IF c \in known THEN Contract!WithCell(CellsIn(s, data[c]), t, row[c])
                                           ELSE CellsIn(s, data[c])
    <3>1. CASE c \notin known
      BY <1>6, <1>9, <1>13, <3>1
    <3>2. CASE c \in known
      <4>1. t \in TimesOf(s)
        <5>. SUFFICES ASSUME t \notin TimesOf(s) PROVE FALSE
          OBVIOUS
        <5>1. i \in touched /\ g = FindOrAddTime(s, t)
          BY <1>3, <1>7, <3>2
        <5>2. DOMAIN g.fresh = DOMAIN s.fresh \cup {t}
          BY <1>5, <5>1, TimeAdded
        <5>. QED BY <1>13, <5>2 DEF TimesOf
      <4>. DEFINE w == [data[c] EXCEPT ![BinOf(s, t)][s[BinOf(s, t)][t]] = row[c]]
      <4>2. written[c] = w
        BY <1>8, <3>2, <4>1 DEF SetCell
      <4>3. Fits(data[c], s) /\ row[c] \in Value
        BY <1>2, <1>6, <3>2
      <4>4. Fits(w, s) /\ CellsIn(s, w) = Contract!WithCell(CellsIn(s, data[c]), t, row[c])
        BY <1>5, <4>1, <4>3, CellReplaced
      <4>. HIDE DEF w
      <4>. QED BY <1>13, <3>2, <4>2, <4>4
    <3>. QED BY <3>1, <3>2
  <2>2. lack = {}
    <3>1. \A c \in g.columns : Size(written[c]) = RowCount(g)
      BY <1>11, <1>13, <2>1
    <3>. HIDE DEF lack
    <3>. QED BY <1>10, <3>1
  <2>3. Cardinality(DOMAIN s.fresh) \in Nat
    BY <1>5, CountsOf
  <2>. HIDE DEF lack
  <2>. QED BY <1>5, <1>9, <1>12, <1>13, <2>1, <2>2, <2>3
<1>14. ASSUME g # s PROVE Result
  <2>1. i \in touched /\ g = FindOrAddTime(s, t) /\ t \notin TimesOf(s)
    BY <1>3, <1>14 DEF FindOrAddTime
  <2>2. /\ SubOK(g) /\ g.columns = s.columns /\ g.stale = s.stale
        /\ Cardinality(DOMAIN g.fresh) = Cardinality(DOMAIN s.fresh) + 1
        /\ EraseTime(g, t) = s
    BY <1>5, <2>1, TimeAdded
  <2>3. ASSUME NEW c \in s.columns, c \in known
        PROVE  Fits(written[c], g) /\ CellsIn(g, written[c]) = Contract!WithCell(CellsIn(s, data[c]), t, row[c])
    <3>1. Fits(data[c], s) /\ row[c] \in Value /\ written[c] = SetCell(data[c], s, t, row[c])
      BY <1>2, <1>6, <1>8, <2>3
    <3>. QED BY <1>5, <2>1, <3>1, CellAdded
  <2>4. ASSUME NEW c \in s.columns, c \notin known PROVE Size(written[c]) # RowCount(g)
    <3>1. Fits(data[c], s) /\ written[c] = data[c]
      BY <1>6, <1>9, <2>4
    <3>2. /\ Cardinality(DOMAIN s.stale) \in Nat /\ Cardinality(DOMAIN s.fresh) \in Nat
      BY <1>5, CountsOf
    <3>3. Size(written[c]) = Cardinality(DOMAIN s.stale) + Cardinality(DOMAIN s.fresh)
      BY <3>1 DEF Fits, Size
    <3>4. RowCount(g) = Cardinality(DOMAIN s.stale) + (Cardinality(DOMAIN s.fresh) + 1)
      BY <2>2 DEF RowCount
    <3>. QED BY <3>2, <3>3, <3>4
  <2>5. lack = s.columns \ known
    <3>1. \A c \in s.columns : Size(written[c]) # RowCount(g) <=> c \notin known
      BY <1>11, <2>3, <2>4
    <3>. QED BY <1>10, <2>2, <3>1
  <2>6. lack # {} => Splits(g, written)
    <3>. SUFFICES ASSUME lack # {} PROVE Cardinality(g.columns) >= 2
      BY DEF Splits
    <3>1. PICK c \in s.columns : c \notin known
      BY <2>5
    <3>2. PICK d \in s.columns : d \in known
      BY <1>7, <2>1
    <3>. DEFINE one == {d}
                two == one \cup {c}
    <3>3. IsFiniteSet(one) /\ Cardinality(one) = 1
      BY FS_Singleton
    <3>4. IsFiniteSet(two) /\ Cardinality(two) = 2
      <4>1. c \notin one
        BY <3>1, <3>2
      <4>. HIDE DEF one
      <4>. QED BY <3>3, <4>1, FS_AddElement
    <3>5. IsFiniteSet(g.columns)
      <4>1. IsFiniteSet(Column)
        <5>1. 1 \in Int /\ MaxColumns \in Int
          BY TableAssumption
        <5>. QED BY <5>1, FS_Interval DEF Column
      <4>2. g.columns \in SUBSET Column
        BY <1>5, <2>2
      <4>. QED BY <4>1, <4>2, FS_Subset
    <3>6. two \in SUBSET g.columns
      BY <2>2, <3>1, <3>2
    <3>. HIDE DEF two
    <3>7. Cardinality(two) <= Cardinality(g.columns) /\ Cardinality(g.columns) \in Nat
      BY <3>5, <3>6, FS_Subset, FS_CardinalityType
    <3>. QED BY <3>4, <3>7
  <2>7. Cardinality(DOMAIN s.fresh) \in Nat
    BY <1>5, CountsOf
  <2>8. \A c \in s.columns \ lack : c \in known
    BY <2>5
  <2>9. lack \in SUBSET s.columns /\ lack \cap known = {}
    BY <2>5
  <2>. HIDE DEF lack
  <2>. QED BY <1>9, <1>12, <2>1, <2>2, <2>3, <2>6, <2>7, <2>8, <2>9
<1>15. Result
  BY <1>13, <1>14
<1>. QED BY <1>15 DEF s, g, GrownOK

LEMMA HomeIs ==
  ASSUME NEW tables, NEW c, NEW h \in DOMAIN tables,
         \A j \in DOMAIN tables : c \in tables[j].columns <=> j = h
  PROVE  HomeIn(tables, c) = h
  BY DEF HomeIn

LEMMA OrderIs ==
  ASSUME NEW n \in Nat, NEW D \in SUBSET (1 .. n), NEW order \in SetToSeqs(D)
  PROVE  /\ Cardinality(D) \in Nat /\ order \in [1 .. Cardinality(D) -> D]
         /\ \A k, l \in 1 .. Cardinality(D) : order[k] = order[l] => k = l
         /\ \A i \in D : \E k \in 1 .. Cardinality(D) : order[k] = i
         /\ Range(order) = D
<1>. DEFINE m == Cardinality(D)
<1>1. IsFiniteSet(D)
  <2>1. 1 \in Int /\ n \in Int
    OBVIOUS
  <2>2. IsFiniteSet(1 .. n)
    BY <2>1, FS_Interval
  <2>. QED BY <2>2, FS_Subset
<1>2. m \in Nat
  BY <1>1, FS_CardinalityType
<1>3. order \in [1 .. m -> D] /\ \A k, l \in 1 .. m : k # l => order[k] # order[l]
  BY DEF SetToSeqs
<1>. HIDE DEF m
<1>4. IsFiniteSet(1 .. m) /\ Cardinality(1 .. m) = m
  <2>1. 1 \in Int /\ m \in Int /\ (1 > m => m = 0) /\ m - 1 + 1 = m
    BY <1>2
  <2>. QED BY <2>1, FS_Interval
<1>5. order \in Injection(1 .. m, D)
  BY <1>3 DEF Injection, IsInjective
<1>6. order \in Surjection(1 .. m, D)
  BY <1>1, <1>4, <1>5, FS_Injection DEF m
<1>7. \A i \in D : \E k \in 1 .. m : order[k] = i
  BY <1>6 DEF Surjection
<1>8. Range(order) = D
  BY <1>3, <1>7, ZenonT(40) DEF Range
<1>. QED BY <1>2, <1>3, <1>7, <1>8 DEF m

\* The subtables with the row, before limiting: each column has its cells from
\* before and its new one, wherever it went.
RowOK(all, written, t, row) ==
  LET home == [c \in Column |-> HomeIn(all, c)]
  IN /\ TableOK(all, home, written)
     /\ \A c \in Column : home[c] = 0 <=> columns[c] = 0
     /\ \A c \in Column : CellsFor(all, home, written, c) =
          IF c \in Known(row)
          THEN Contract!WithCell(CellsFor(subtables, columns, data, c), t, row[c])
          ELSE CellsFor(subtables, columns, data, c)
     /\ \A j \in DOMAIN all : limits.points > 0 =>
          /\ Cardinality(DOMAIN all[j].stale) <= Half(limits.points)
          /\ Cardinality(DOMAIN all[j].fresh) <= Half(limits.points)

LEMMA RowAdded ==
  ASSUME TableInv, NEW t \in Time, NEW row \in Row,
         NEW known, known = Known(row), NEW touched, touched = {columns[c] : c \in known},
         NEW grown, grown = Grown(t, touched), NEW written, written = Written(t, row, known),
         NEW order, order \in SetToSeqs({i \in touched : Splits(grown[i], written)}),
         NEW all, all = SplitUp(grown, written, order, t)
  PROVE  RowOK(all, written, t, row)
<1>. DEFINE N    == Len(subtables)
            p    == limits.points
            L(i) == Lacking(grown[i], written)
            D    == {i \in touched : Splits(grown[i], written)}
            n    == Cardinality(D)
            A    == [i \in 1 .. N |-> [grown[i] EXCEPT !.columns = subtables[i].columns \ L(i)]]
            B    == [k \in 1 .. n |-> [subtables[order[k]] EXCEPT !.columns = L(order[k])]]
            home == [c \in Column |-> HomeIn(all, c)]
<1>1. /\ N \in Nat /\ DOMAIN subtables = 1 .. N
      /\ \A i \in 1 .. N : /\ SubOK(subtables[i]) /\ subtables[i].columns \in SUBSET Column
                           /\ Halved(subtables[i], p)
      /\ \A c \in Column : columns[c] # 0 => /\ columns[c] \in 1 .. N /\ c \in subtables[columns[c]].columns
                                             /\ Fits(data[c], subtables[columns[c]])
      /\ \A c \in Column : columns[c] = 0 => data[c] = NoValues
      /\ \A i \in 1 .. N, c \in Column : c \in subtables[i].columns <=> columns[c] = i
      /\ data \in [Column -> Values] /\ p \in Nat
  BY InvParts DEF N, p
<1>2. known \in SUBSET Column /\ \A c \in known : columns[c] # 0
  BY KnownColumns
<1>3. DOMAIN grown = 1 .. N /\ touched \in SUBSET (1 .. N)
  <2>1. \A c \in known : columns[c] \in 1 .. N
    BY <1>1, <1>2
  <2>. QED BY <1>1, <2>1 DEF Grown
<1>4. ASSUME NEW i \in 1 .. N
      PROVE  /\ SubOK(grown[i]) /\ grown[i].columns = subtables[i].columns
             /\ Cardinality(DOMAIN grown[i].stale) = Cardinality(DOMAIN subtables[i].stale)
             /\ Cardinality(DOMAIN grown[i].fresh) <= Cardinality(DOMAIN subtables[i].fresh) + 1
             /\ L(i) \in SUBSET subtables[i].columns /\ L(i) \cap known = {}
             /\ L(i) # {} => i \in touched /\ Splits(grown[i], written) /\ EraseTime(grown[i], t) = subtables[i]
             /\ Splits(grown[i], written) => L(i) # {}
             /\ \A c \in subtables[i].columns \ L(i) :
                  /\ Fits(written[c], grown[i])
                  /\ CellsIn(grown[i], written[c]) =
                       IF c \in known THEN Contract!WithCell(CellsIn(subtables[i], data[c]), t, row[c])
                       ELSE CellsIn(subtables[i], data[c])
             /\ \A c \in subtables[i].columns : c \notin known => written[c] = data[c]
  <2>1. GrownOK(i, t, row, known, touched, grown, written)
    <3>1. i \in 1 .. Len(subtables)
      BY DEF N
    <3>. QED BY <3>1, GrownSubtable
  <2>. QED BY <2>1 DEF L, GrownOK
<1>. HIDE DEF N, p, L, D, n
<1>5. D \in SUBSET (1 .. N) /\ \A i \in 1 .. N : i \in D <=> L(i) # {}
  BY <1>3, <1>4 DEF D
<1>6. /\ n \in Nat /\ order \in [1 .. n -> D]
      /\ \A k, l \in 1 .. n : order[k] = order[l] => k = l
      /\ \A i \in D : \E k \in 1 .. n : order[k] = i
      /\ Range(order) = D
  <2>1. order \in SetToSeqs(D)
    BY DEF D
  <2>. QED BY <1>1, <1>5, <2>1, OrderIs DEF n
<1>7. all = A \o B
  <2>1. ASSUME NEW i \in 1 .. N
        PROVE  (IF i \in Range(order) THEN [grown[i] EXCEPT !.columns = grown[i].columns \ Lacking(grown[i], written)]
                ELSE grown[i]) = [grown[i] EXCEPT !.columns = subtables[i].columns \ L(i)]
    <3>1. CASE i \in D
      BY <1>4, <1>6, <3>1 DEF L
    <3>2. CASE i \notin D
      <4>1. L(i) = {} /\ grown[i] \in Subtable
        BY <1>4, <1>5, <3>2 DEF SubOK
      <4>2. [grown[i] EXCEPT !.columns = subtables[i].columns \ L(i)] = grown[i]
        <5>1. subtables[i].columns \ L(i) = grown[i].columns
          BY <1>4, <4>1
        <5>. QED BY <4>1, <5>1 DEF Subtable
      <4>. QED BY <1>6, <3>2, <4>2
    <3>. QED BY <3>1, <3>2
  <2>2. ASSUME NEW k \in 1 .. n
        PROVE  [EraseTime(grown[order[k]], t) EXCEPT !.columns = Lacking(grown[order[k]], written)]
                 = [subtables[order[k]] EXCEPT !.columns = L(order[k])]
    <3>1. order[k] \in 1 .. N /\ L(order[k]) # {}
      BY <1>5, <1>6
    <3>. QED BY <1>4, <3>1 DEF L
  <2>3. DOMAIN order = 1 .. n
    BY <1>6
  <2>4. [i \in DOMAIN grown |->
           IF i \in Range(order) THEN [grown[i] EXCEPT !.columns = @ \ Lacking(grown[i], written)]
           ELSE grown[i]] = A
    BY <1>3, <2>1
  <2>5. [k \in DOMAIN order |->
           [EraseTime(grown[order[k]], t) EXCEPT !.columns = Lacking(grown[order[k]], written)]] = B
    BY <2>2, <2>3
  <2>. HIDE DEF A, B
  <2>. QED BY <2>4, <2>5 DEF SplitUp
<1>8. ASSUME NEW i \in 1 .. N
      PROVE  /\ SubOK(A[i]) /\ A[i] \in Subtable /\ A[i].columns = subtables[i].columns \ L(i)
             /\ A[i].stale = grown[i].stale /\ A[i].fresh = grown[i].fresh
             /\ \A v : (Fits(v, grown[i]) => Fits(v, A[i])) /\ CellsIn(A[i], v) = CellsIn(grown[i], v)
  <2>. DEFINE g == grown[i]
              owned == subtables[i].columns \ L(i)
              r == [g EXCEPT !.columns = owned]
  <2>1. owned \in SUBSET Column /\ SubOK(g) /\ A[i] = r
    BY <1>1, <1>4
  <2>. HIDE DEF owned, A, g
  <2>2. /\ SubOK(r) /\ r.columns = owned /\ r.stale = g.stale /\ r.fresh = g.fresh
        /\ \A v : (Fits(v, g) => Fits(v, r)) /\ CellsIn(r, v) = CellsIn(g, v)
    BY <2>1, OtherColumns
  <2>. HIDE DEF r
  <2>. QED BY <2>1, <2>2 DEF SubOK, owned, g
<1>9. ASSUME NEW k \in 1 .. n
      PROVE  LET s == subtables[order[k]]
             IN /\ SubOK(B[k]) /\ B[k] \in Subtable /\ B[k].columns = L(order[k])
                /\ B[k].stale = s.stale /\ B[k].fresh = s.fresh
                /\ \A v : (Fits(v, s) => Fits(v, B[k])) /\ CellsIn(B[k], v) = CellsIn(s, v)
  <2>. DEFINE s == subtables[order[k]]
              owned == L(order[k])
              r == [s EXCEPT !.columns = owned]
  <2>1. owned \in SUBSET Column /\ SubOK(s) /\ B[k] = r
    <3>1. order[k] \in 1 .. N
      BY <1>5, <1>6
    <3>. QED BY <1>1, <1>4, <3>1
  <2>. HIDE DEF owned, B, s
  <2>2. /\ SubOK(r) /\ r.columns = owned /\ r.stale = s.stale /\ r.fresh = s.fresh
        /\ \A v : (Fits(v, s) => Fits(v, r)) /\ CellsIn(r, v) = CellsIn(s, v)
    BY <2>1, OtherColumns
  <2>. HIDE DEF r
  <2>. QED BY <2>1, <2>2 DEF SubOK, owned, s
<1>10. A \in Seq(Subtable) /\ Len(A) = N /\ B \in Seq(Subtable) /\ Len(B) = n
  <2>1. \A i \in 1 .. N : A[i] \in Subtable
    BY <1>8
  <2>2. \A k \in 1 .. n : B[k] \in Subtable
    BY <1>9
  <2>3. A = [i \in 1 .. N |-> A[i]] /\ B = [k \in 1 .. n |-> B[k]]
    OBVIOUS
  <2>. HIDE DEF A, B
  <2>4. A \in Seq(Subtable) /\ Len(A) = N
    BY <1>1, <2>1, <2>3
  <2>5. B \in Seq(Subtable) /\ Len(B) = n
    BY <1>6, <2>2, <2>3
  <2>. QED BY <2>4, <2>5
<1>. HIDE DEF A, B
<1>11. /\ all \in Seq(Subtable) /\ Len(all) = N + n /\ DOMAIN all = 1 .. N + n
       /\ \A i \in 1 .. N : all[i] = A[i] /\ i \in DOMAIN all
       /\ \A k \in 1 .. n : all[N + k] = B[k] /\ N + k \in DOMAIN all
  <2>1. A \o B \in Seq(Subtable) /\ Len(A \o B) = N + n /\ DOMAIN (A \o B) = 1 .. N + n
    <3>1. A \o B \in Seq(Subtable) /\ Len(A \o B) = Len(A) + Len(B)
      BY <1>10, ConcatProperties
    <3>2. Len(A \o B) = N + n
      BY <1>10, <3>1
    <3>. QED BY <3>1, <3>2
  <2>2. \A i \in 1 .. N : (A \o B)[i] = A[i] /\ i \in 1 .. N + n
    <3>. TAKE i \in 1 .. N
    <3>1. i \in 1 .. N + n /\ i <= N
      BY <1>1, <1>6
    <3>. QED BY <1>1, <1>6, <1>10, <3>1
  <2>3. \A k \in 1 .. n : (A \o B)[N + k] = B[k] /\ N + k \in 1 .. N + n
    <3>. TAKE k \in 1 .. n
    <3>1. N + k \in 1 .. N + n /\ N + k > N /\ (N + k) - N = k
      BY <1>1, <1>6
    <3>. QED BY <1>1, <1>6, <1>10, <3>1
  <2>. QED BY <1>7, <2>1, <2>2, <2>3
<1>12. ASSUME NEW j \in 1 .. N + n
       PROVE  j \in 1 .. N \/ \E k \in 1 .. n : j = N + k
  <2>1. j \in 1 .. N \/ (j - N \in 1 .. n /\ j = N + (j - N))
    BY <1>1, <1>6
  <2>. QED BY <2>1
<1>13. ASSUME NEW c \in Column, columns[c] = 0 PROVE home[c] = 0
  <2>1. \A i \in 1 .. N : c \notin all[i].columns
    BY <1>1, <1>8, <1>11, <1>13
  <2>2. \A k \in 1 .. n : c \notin all[N + k].columns
    <3>. TAKE k \in 1 .. n
    <3>1. order[k] \in 1 .. N
      BY <1>5, <1>6
    <3>. QED BY <1>1, <1>4, <1>9, <1>11, <1>13, <3>1, SMTT(60)
  <2>3. ~\E j \in DOMAIN all : c \in all[j].columns
    BY <1>11, <1>12, <2>1, <2>2
  <2>. QED BY <2>3 DEF HomeIn
<1>14. ASSUME NEW c \in Column, columns[c] # 0, c \notin L(columns[c])
       PROVE  home[c] = columns[c]
  <2>. DEFINE i == columns[c]
  <2>1. i \in 1 .. N /\ c \in subtables[i].columns
    BY <1>1, <1>14
  <2>2. \A j \in 1 .. N : c \in all[j].columns <=> j = i
    BY <1>1, <1>8, <1>11, <1>14
  <2>3. \A k \in 1 .. n : c \notin all[N + k].columns
    <3>. TAKE k \in 1 .. n
    <3>1. order[k] \in 1 .. N
      BY <1>5, <1>6
    <3>. QED BY <1>1, <1>4, <1>9, <1>11, <1>14, <3>1, SMTT(60)
  <2>4. \A k \in 1 .. n : N + k # i
    BY <1>1, <1>6, <2>1
  <2>5. \A j \in DOMAIN all : c \in all[j].columns <=> j = i
    BY <1>11, <1>12, <2>2, <2>3, <2>4
  <2>6. i \in DOMAIN all
    BY <1>11, <2>1
  <2>. HIDE DEF i
  <2>7. HomeIn(all, c) = i
    BY <2>5, <2>6, HomeIs
  <2>. QED BY <2>7 DEF i
<1>15. ASSUME NEW c \in Column, columns[c] # 0, c \in L(columns[c])
       PROVE  \E k \in 1 .. n : order[k] = columns[c] /\ home[c] = N + k
  <2>. DEFINE i == columns[c]
  <2>1. i \in 1 .. N /\ c \in subtables[i].columns /\ i \in D
    BY <1>1, <1>5, <1>15
  <2>2. PICK k \in 1 .. n : order[k] = i
    BY <1>6, <2>1
  <2>3. \A j \in 1 .. N : c \notin all[j].columns
    BY <1>1, <1>8, <1>11, <1>15
  <2>4. \A l \in 1 .. n : c \in all[N + l].columns <=> l = k
    <3>. TAKE l \in 1 .. n
    <3>1. order[l] \in 1 .. N /\ all[N + l].columns = L(order[l])
      BY <1>5, <1>6, <1>9, <1>11
    <3>2. c \in L(order[l]) <=> order[l] = i
      BY <1>1, <1>4, <1>15, <3>1
    <3>. QED BY <1>6, <2>2, <3>1, <3>2
  <2>5. \A j \in 1 .. N : N + k # j
    BY <1>1, <1>6
  <2>6. \A l \in 1 .. n : N + l = N + k <=> l = k
    BY <1>1, <1>6
  <2>7. \A j \in DOMAIN all : c \in all[j].columns <=> j = N + k
    BY <1>11, <1>12, <2>3, <2>4, <2>5, <2>6
  <2>8. HomeIn(all, c) = N + k
    BY <1>11, <2>7, HomeIs
  <2>. QED BY <2>2, <2>8
<1>16. ASSUME NEW c \in Column
       PROVE  /\ home[c] = 0 <=> columns[c] = 0
              /\ home[c] \in 0 .. N + n /\ written[c] \in Values
              /\ IF home[c] = 0 THEN written[c] = NoValues ELSE Fits(written[c], all[home[c]])
              /\ CellsFor(all, home, written, c) =
                   IF c \in known THEN Contract!WithCell(CellsFor(subtables, columns, data, c), t, row[c])
                   ELSE CellsFor(subtables, columns, data, c)
  <2>1. CASE columns[c] = 0
    <3>1. home[c] = 0 /\ c \notin known
      BY <1>2, <1>13, <2>1
    <3>2. written[c] = data[c] /\ data[c] = NoValues
      BY <1>1, <2>1, <3>1 DEF Written
    <3>3. 0 \in 0 .. N + n /\ NoValues \in Values
      BY <1>1, <1>6 DEF NoValues, Values
    <3>. HIDE DEF home
    <3>. QED BY <2>1, <3>1, <3>2, <3>3 DEF CellsFor
  <2>2. CASE columns[c] # 0 /\ c \notin L(columns[c])
    <3>. DEFINE i == columns[c]
    <3>1. home[c] = i /\ i # 0
      BY <1>14, <2>2
    <3>. HIDE DEF home
    <3>2. i \in 1 .. N /\ c \in subtables[i].columns \ L(i)
      BY <1>1, <2>2
    <3>3. /\ Fits(written[c], grown[i])
          /\ CellsIn(grown[i], written[c]) =
               IF c \in known THEN Contract!WithCell(CellsIn(subtables[i], data[c]), t, row[c])
               ELSE CellsIn(subtables[i], data[c])
      BY <1>4, <3>2
    <3>4. all[i] = A[i] /\ Fits(written[c], A[i]) /\ CellsIn(A[i], written[c]) = CellsIn(grown[i], written[c])
      BY <1>8, <1>11, <3>2, <3>3
    <3>5. written[c] \in Values
      BY <3>3 DEF Fits
    <3>6. i \in 0 .. N + n
      BY <1>1, <1>6, <3>2
    <3>. QED BY <3>1, <3>3, <3>4, <3>5, <3>6 DEF CellsFor
  <2>3. CASE columns[c] # 0 /\ c \in L(columns[c])
    <3>. DEFINE i == columns[c]
    <3>1. PICK k \in 1 .. n : order[k] = i /\ home[c] = N + k
      BY <1>15, <2>3
    <3>. HIDE DEF home
    <3>2. i \in 1 .. N /\ c \in subtables[i].columns /\ Fits(data[c], subtables[i]) /\ i # 0
      BY <1>1, <2>3
    <3>3. c \notin known /\ written[c] = data[c]
      BY <1>4, <2>3, <3>2
    <3>4. all[N + k] = B[k] /\ Fits(data[c], B[k]) /\ CellsIn(B[k], data[c]) = CellsIn(subtables[i], data[c])
      BY <1>9, <1>11, <3>1, <3>2
    <3>5. N + k # 0 /\ N + k \in 0 .. N + n
      BY <1>1, <1>6
    <3>6. data[c] \in Values
      BY <1>1
    <3>. QED BY <3>1, <3>2, <3>3, <3>4, <3>5, <3>6 DEF CellsFor
  <2>. QED BY <2>1, <2>2, <2>3
<1>17. ASSUME NEW j \in 1 .. N + n
       PROVE  /\ SubOK(all[j]) /\ all[j].columns = {c \in Column : home[c] = j}
              /\ p > 0 => /\ Cardinality(DOMAIN all[j].stale) <= Half(p)
                          /\ Cardinality(DOMAIN all[j].fresh) <= Half(p)
  <2>0. p > 0 => Half(p) \in Nat
    BY <1>1, HalfIs
  <2>1. CASE j \in 1 .. N
    <3>1. SubOK(all[j]) /\ all[j].columns = subtables[j].columns \ L(j)
      BY <1>8, <1>11, <2>1
    <3>2. \A c \in Column : home[c] = j <=> columns[c] = j /\ c \notin L(j)
      <4>. TAKE c \in Column
      <4>1. j # 0 /\ \A k \in 1 .. n : N + k # j
        BY <1>1, <1>6, <2>1
      <4>. HIDE DEF home
      <4>2. CASE columns[c] = 0
        BY <1>13, <4>1, <4>2
      <4>3. CASE columns[c] # 0 /\ c \notin L(columns[c])
        BY <1>14, <4>3
      <4>4. CASE columns[c] # 0 /\ c \in L(columns[c])
        BY <1>15, <4>1, <4>4
      <4>. QED BY <4>2, <4>3, <4>4
    <3>. HIDE DEF home
    <3>3. subtables[j].columns \ L(j) = {c \in Column : home[c] = j}
      BY <1>1, <2>1, <3>2
    <3>4. all[j].stale = grown[j].stale /\ all[j].fresh = grown[j].fresh
      BY <1>8, <1>11, <2>1
    <3>5. /\ Cardinality(DOMAIN grown[j].stale) = Cardinality(DOMAIN subtables[j].stale)
          /\ Cardinality(DOMAIN grown[j].fresh) <= Cardinality(DOMAIN subtables[j].fresh) + 1
          /\ SubOK(grown[j]) /\ SubOK(subtables[j]) /\ Halved(subtables[j], p)
      BY <1>1, <1>4, <2>1
    <3>6. /\ Cardinality(DOMAIN grown[j].fresh) \in Nat /\ Cardinality(DOMAIN subtables[j].fresh) \in Nat
          /\ Cardinality(DOMAIN subtables[j].stale) \in Nat
      BY <3>5, CountsOf
    <3>7. p > 0 => /\ Cardinality(DOMAIN all[j].stale) <= Half(p)
                   /\ Cardinality(DOMAIN all[j].fresh) <= Half(p)
      BY <2>0, <3>4, <3>5, <3>6 DEF Halved
    <3>. QED BY <3>1, <3>3, <3>7
  <2>2. ASSUME NEW k \in 1 .. n, j = N + k
        PROVE  /\ SubOK(all[j]) /\ all[j].columns = {c \in Column : home[c] = j}
               /\ p > 0 => /\ Cardinality(DOMAIN all[j].stale) <= Half(p)
                           /\ Cardinality(DOMAIN all[j].fresh) <= Half(p)
    <3>. DEFINE i == order[k]
    <3>0. i \in 1 .. N
      BY <1>5, <1>6
    <3>1. SubOK(all[j]) /\ all[j].columns = L(i)
      BY <1>9, <1>11, <2>2
    <3>2. \A c \in Column : home[c] = j <=> c \in L(i)
      <4>. TAKE c \in Column
      <4>1. j # 0 /\ j \notin 1 .. N /\ \A l \in 1 .. n : N + l = j <=> l = k
        BY <1>1, <1>6, <2>2
      <4>. HIDE DEF home
      <4>2. CASE columns[c] = 0
        BY <1>1, <1>4, <1>13, <3>0, <4>1, <4>2
      <4>3. CASE columns[c] # 0 /\ c \notin L(columns[c])
        <5>1. home[c] # j
          BY <1>1, <1>14, <4>1, <4>3
        <5>2. c \notin L(i)
          BY <1>1, <1>4, <3>0, <4>3
        <5>. QED BY <5>1, <5>2
      <4>4. CASE columns[c] # 0 /\ c \in L(columns[c])
        <5>1. PICK l \in 1 .. n : order[l] = columns[c] /\ home[c] = N + l
          BY <1>15, <4>4
        <5>2. c \in L(i) <=> columns[c] = i
          BY <1>1, <1>4, <3>0, <4>4
        <5>. QED BY <1>6, <4>1, <5>1, <5>2
      <4>. QED BY <4>2, <4>3, <4>4
    <3>. HIDE DEF home
    <3>3. L(i) = {c \in Column : home[c] = j}
      <4>1. L(i) \in SUBSET Column
        BY <1>1, <1>4, <3>0
      <4>. QED BY <3>2, <4>1
    <3>4. all[j].stale = subtables[i].stale /\ all[j].fresh = subtables[i].fresh
      BY <1>9, <1>11, <2>2
    <3>5. SubOK(subtables[i]) /\ Halved(subtables[i], p)
      BY <1>1, <3>0
    <3>6. /\ Cardinality(DOMAIN subtables[i].fresh) \in Nat
          /\ Cardinality(DOMAIN subtables[i].stale) \in Nat
      BY <3>5, CountsOf
    <3>7. p > 0 => /\ Cardinality(DOMAIN all[j].stale) <= Half(p)
                   /\ Cardinality(DOMAIN all[j].fresh) <= Half(p)
      BY <2>0, <3>4, <3>5, <3>6 DEF Halved
    <3>. QED BY <3>1, <3>3, <3>7
  <2>. QED BY <1>12, <2>1, <2>2
<1>18. home \in [Column -> 0 .. N + n] /\ written \in [Column -> Values]
  <2>1. written = [c \in Column |-> written[c]]
    BY DEF Written
  <2>2. \A c \in Column : home[c] \in 0 .. N + n /\ written[c] \in Values
    BY <1>16
  <2>3. home = [c \in Column |-> home[c]]
    OBVIOUS
  <2>. HIDE DEF home
  <2>. QED BY <2>1, <2>2, <2>3
<1>. HIDE DEF home
<1>19. TableOK(all, home, written)
  BY <1>11, <1>16, <1>17, <1>18, ZenonT(90) DEF TableOK
<1>. QED BY <1>11, <1>16, <1>17, <1>19 DEF home, p, RowOK

\* Restriction and cardinality are the same notions in both modules.
LEMMA TrimmedIs ==
  ASSUME NEW full, NEW kept, DOMAIN kept \subseteq DOMAIN full, kept = Restrict(full, DOMAIN kept),
         limits.points = 0 /\ limits.window = 0 => kept = full,
         full # NoTimes => kept # NoTimes,
         limits.window = 0 /\ kept # full => Cardinality(DOMAIN kept) >= Half(limits.points)
  PROVE  Contract!Trimmed(full, kept)
<1>1. ASSUME NEW S PROVE Contract!Cardinality(S) = Cardinality(S)
  BY DEF Contract!Cardinality, Cardinality
<1>2. Contract!Restrict(full, DOMAIN kept) = Restrict(full, DOMAIN kept)
  BY DEF Contract!Restrict, Restrict
<1>3. Contract!NoCells = NoTimes
  BY DEF Contract!NoCells, NoTimes
<1>. QED BY <1>1, <1>2, <1>3 DEF Contract!Trimmed, Half

\* Limiting swaps the bins of a subtable when the fresh one holds half of the
\* points, so that what is kept is at least that.
LEMMA LimitKeeps ==
  ASSUME limits \in LimitChoices, NEW s, SubOK(s), NEW end,
         limits.points > 0 => /\ Cardinality(DOMAIN s.stale) <= Half(limits.points)
                              /\ Cardinality(DOMAIN s.fresh) <= Half(limits.points)
  PROVE  LET swaps == LimitSwaps(s, LatestInvalid(end))
             r     == IF swaps THEN Swapped(s) ELSE s
         IN /\ SubOK(r) /\ r.columns = s.columns /\ Halved(r, limits.points)
            /\ \A v : Fits(v, s) =>
                 LET w == IF swaps THEN SwappedData(v) ELSE v
                 IN Fits(w, r) /\ Contract!Trimmed(CellsIn(s, v), CellsIn(r, w))
<1>. DEFINE p == limits.points
            swaps == LimitSwaps(s, LatestInvalid(end))
            r == IF swaps THEN Swapped(s) ELSE s
<1>1. p \in Nat /\ limits.window \in Nat
  BY LimitsAre DEF p
<1>2. p > 0 => Half(p) \in Nat /\ Half(p) >= 1
  BY <1>1, HalfIs
<1>3. /\ Cardinality(DOMAIN s.fresh) \in Nat
      /\ Cardinality(DOMAIN s.fresh) >= 1 => DOMAIN s.fresh # {}
  BY FS_EmptySet, FS_CardinalityType DEF SubOK, BinOK
<1>4. CASE swaps
  <2>1. /\ TimesOf(s) # {}
        /\ \/ p > 0 /\ Cardinality(DOMAIN s.fresh) >= Half(p)
           \/ DOMAIN s.fresh # {} /\ LatestInvalid(end) > 0
    BY <1>4 DEF LimitSwaps, Half
  <2>2. DOMAIN s.fresh # {}
    BY <1>2, <1>3, <2>1
  <2>3. limits.window = 0 => p > 0 /\ Cardinality(DOMAIN s.fresh) >= Half(p)
    BY <2>1 DEF LatestInvalid
  <2>4. /\ r.stale = s.fresh /\ r.fresh = NoTimes /\ DOMAIN NoTimes = {} /\ r = Swapped(s)
        /\ Cardinality(DOMAIN NoTimes) = 0
    BY <1>4, SubSwapped
  <2>5. Halved(r, p)
    BY <1>2, <2>4 DEF Halved
  <2>6. SubOK(Swapped(s)) /\ Swapped(s).columns = s.columns
    BY SubSwapped
  <2>7. ASSUME NEW v, Fits(v, s)
        PROVE  /\ Fits(SwappedData(v), Swapped(s))
               /\ Contract!Trimmed(CellsIn(s, v), CellsIn(Swapped(s), SwappedData(v)))
    <3>. DEFINE full == CellsIn(s, v)
                kept == CellsIn(Swapped(s), SwappedData(v))
    <3>1. Fits(SwappedData(v), Swapped(s)) /\ kept = Restrict(full, DOMAIN s.fresh)
      BY <2>7, CellsSwapped
    <3>2. DOMAIN full = TimesOf(s)
      BY DEF CellsIn
    <3>. HIDE DEF full, kept
    <3>3. DOMAIN kept = DOMAIN s.fresh /\ DOMAIN kept \subseteq DOMAIN full
      BY <3>1, <3>2 DEF Restrict, TimesOf
    <3>4. kept # NoTimes
      BY <2>2, <2>4, <3>3
    <3>5. limits.window = 0 => limits.points > 0 /\ Cardinality(DOMAIN kept) >= Half(limits.points)
      BY <2>3, <3>3
    <3>6. Contract!Trimmed(full, kept)
      <4>1. kept = Restrict(full, DOMAIN kept)
        BY <3>1, <3>3
      <4>2. limits.points = 0 /\ limits.window = 0 => kept = full
        BY <3>5
      <4>. QED BY <3>3, <3>4, <3>5, <4>1, <4>2, TrimmedIs
    <3>. QED BY <3>1, <3>6 DEF full, kept
  <2>. QED BY <1>4, <2>4, <2>5, <2>6, <2>7
<1>5. CASE ~swaps
  <2>1. ASSUME p > 0 PROVE Cardinality(DOMAIN s.fresh) < Half(p)
    <3>. SUFFICES ASSUME Cardinality(DOMAIN s.fresh) >= Half(p) PROVE FALSE
      BY <1>2, <1>3, <2>1
    <3>1. DOMAIN s.fresh # {}
      BY <1>2, <1>3, <2>1
    <3>. QED BY <1>5, <2>1, <3>1 DEF LimitSwaps, Half, TimesOf
  <2>2. Halved(s, p)
    BY <2>1 DEF Halved
  <2>3. ASSUME NEW v PROVE Contract!Trimmed(CellsIn(s, v), CellsIn(s, v))
    BY DEF Contract!Trimmed, CellsIn, Contract!Restrict
  <2>. QED BY <1>5, <2>2, <2>3
<1>. QED BY <1>4, <1>5

\* A row gives its cells to the columns it names up to the first that the table
\* does not have; then limits are applied.
LEMMA AddRowStep ==
  ASSUME TableInv, NEW t \in Time, NEW row \in Row, AddRow(t, row)
  PROVE  /\ TableInv' /\ limits' = limits
         /\ \A c \in Column : columns'[c] = 0 <=> columns[c] = 0
         /\ Known(row) \in SUBSET {c \in Column : columns[c] # 0}
         /\ \A c \in Known(row) :
              /\ row[c] \in Value
              /\ Contract!Trimmed(Contract!WithCell(CellsOf(c), t, row[c]), CellsOf(c)')
         /\ \A c \in Column \ Known(row) : Contract!Trimmed(CellsOf(c), CellsOf(c)')
<1>. DEFINE touched == {columns[c] : c \in Known(row)}
            end     == Max({endTime, t})
            swaps(s) == LimitSwaps(s, LatestInvalid(end))
            p == limits.points
<1>1. PICK grown \in {Grown(t, touched)}, written \in {Written(t, row, Known(row))} :
        \E order \in SetToSeqs({i \in touched : Splits(grown[i], written)}) :
        \E all \in {SplitUp(grown, written, order, t)} :
        \E limited \in {{i \in DOMAIN all : swaps(all[i])}} :
          /\ subtables' = [i \in DOMAIN all |-> IF i \in limited THEN Swapped(all[i]) ELSE all[i]]
          /\ columns' = [c \in Column |-> HomeIn(all, c)]
          /\ data' = [c \in Column |->
                       IF columns'[c] \in limited THEN SwappedData(written[c]) ELSE written[c]]
          /\ endTime' = end
          /\ UNCHANGED <<limits, nextId>>
  BY Zenon DEF AddRow
<1>2. PICK order \in SetToSeqs({i \in touched : Splits(grown[i], written)}) :
        \E all \in {SplitUp(grown, written, order, t)} :
        \E limited \in {{i \in DOMAIN all : swaps(all[i])}} :
          /\ subtables' = [i \in DOMAIN all |-> IF i \in limited THEN Swapped(all[i]) ELSE all[i]]
          /\ columns' = [c \in Column |-> HomeIn(all, c)]
          /\ data' = [c \in Column |->
                       IF columns'[c] \in limited THEN SwappedData(written[c]) ELSE written[c]]
          /\ endTime' = end
          /\ UNCHANGED <<limits, nextId>>
  BY <1>1, Zenon
<1>20. PICK all \in {SplitUp(grown, written, order, t)} :
        \E limited \in {{i \in DOMAIN all : swaps(all[i])}} :
          /\ subtables' = [i \in DOMAIN all |-> IF i \in limited THEN Swapped(all[i]) ELSE all[i]]
          /\ columns' = [c \in Column |-> HomeIn(all, c)]
          /\ data' = [c \in Column |->
                       IF columns'[c] \in limited THEN SwappedData(written[c]) ELSE written[c]]
          /\ endTime' = end
          /\ UNCHANGED <<limits, nextId>>
  BY <1>2, Zenon
<1>21. LET limited == {i \in DOMAIN all : swaps(all[i])}
       IN /\ subtables' = [i \in DOMAIN all |-> IF i \in limited THEN Swapped(all[i]) ELSE all[i]]
          /\ columns' = [c \in Column |-> HomeIn(all, c)]
          /\ data' = [c \in Column |->
                       IF columns'[c] \in limited THEN SwappedData(written[c]) ELSE written[c]]
          /\ endTime' = end
          /\ UNCHANGED <<limits, nextId>>
  BY <1>20
<1>. DEFINE home == [c \in Column |-> HomeIn(all, c)]
            n    == Len(all)
            r(s) == IF swaps(s) THEN Swapped(s) ELSE s
            w(c) == IF swaps(all[home[c]]) THEN SwappedData(written[c]) ELSE written[c]
<1>3. /\ TableOK(all, home, written)
      /\ \A c \in Column : home[c] = 0 <=> columns[c] = 0
      /\ \A c \in Column : CellsFor(all, home, written, c) =
           IF c \in Known(row) THEN Contract!WithCell(CellsFor(subtables, columns, data, c), t, row[c])
           ELSE CellsFor(subtables, columns, data, c)
      /\ \A j \in DOMAIN all : limits.points > 0 =>
           /\ Cardinality(DOMAIN all[j].stale) <= Half(limits.points)
           /\ Cardinality(DOMAIN all[j].fresh) <= Half(limits.points)
  <2>1. /\ grown = Grown(t, touched) /\ written = Written(t, row, Known(row))
        /\ order \in SetToSeqs({i \in touched : Splits(grown[i], written)})
        /\ all = SplitUp(grown, written, order, t)
    BY <1>1, <1>2, <1>20
  <2>2. touched = {columns[c] : c \in Known(row)}
    OBVIOUS
  <2>. HIDE DEF touched
  <2>3. RowOK(all, written, t, row)
    BY <2>1, <2>2, RowAdded
  <2>. QED BY <2>3 DEF RowOK
<1>. HIDE DEF touched
<1>4. endTime' = end /\ limits' = limits /\ nextId' = nextId
  BY <1>21
<1>5. end \in Time \cup {-1}
  <2>1. endTime \in Time \cup {-1} /\ Time \in SUBSET Int
    BY InvParts, TableAssumption
  <2>2. {endTime, t} \in SUBSET Int /\ endTime \in {endTime, t} /\ t \in {endTime, t}
    BY <2>1
  <2>3. CASE t <= endTime
    <3>1. \A y \in {endTime, t} : y <= endTime
      BY <2>1, <2>3
    <3>2. end = endTime
      BY <2>2, <3>1, MaxIs
    <3>. QED BY <2>1, <3>2
  <2>4. CASE endTime <= t
    <3>1. \A y \in {endTime, t} : y <= t
      BY <2>1, <2>4
    <3>2. end = t
      BY <2>2, <3>1, MaxIs
    <3>. QED BY <3>2
  <2>5. t \in Int /\ endTime \in Int
    BY <2>1
  <2>. QED BY <2>3, <2>4, <2>5
<1>. HIDE DEF end
<1>6. /\ n \in Nat /\ DOMAIN all = 1 .. n
      /\ \A i \in 1 .. n : SubOK(all[i]) /\ all[i] \in Subtable
      /\ \A c \in Column : home[c] # 0 => /\ home[c] \in 1 .. n /\ c \in all[home[c]].columns
                                          /\ Fits(written[c], all[home[c]])
      /\ \A c \in Column : home[c] = 0 => written[c] = NoValues
      /\ \A i \in 1 .. n, c \in Column : c \in all[i].columns <=> home[c] = i
      /\ home \in [Column -> 0 .. n] /\ written \in [Column -> Values] /\ all \in Seq(Subtable)
  <2>. HIDE DEF home
  <2>1. home \in [Column -> 0 .. n] /\ written \in [Column -> Values] /\ all \in Seq(Subtable)
    BY <1>3 DEF TableOK
  <2>. QED BY <1>3, <2>1, TableParts
<1>7. columns' = home
  BY <1>21
<1>8. subtables' = [i \in 1 .. n |-> r(all[i])]
  BY <1>21, <1>6
<1>9. data' = [c \in Column |-> IF home[c] = 0 THEN written[c] ELSE w(c)]
  <2>. DEFINE limited == {i \in DOMAIN all : swaps(all[i])}
  <2>1. data' = [c \in Column |-> IF home[c] \in limited THEN SwappedData(written[c]) ELSE written[c]]
    BY <1>21, <1>7
  <2>2. \A c \in Column : home[c] # 0 => (home[c] \in limited <=> swaps(all[home[c]]))
    BY <1>6
  <2>3. 0 \notin limited
    BY <1>6
  <2>. HIDE DEF limited, home, swaps
  <2>. QED BY <2>1, <2>2, <2>3
<1>. HIDE DEF home, n
<1>10. limits \in LimitChoices
  BY InvParts
<1>11. ASSUME NEW i \in 1 .. n
       PROVE  /\ SubOK(r(all[i])) /\ r(all[i]).columns = all[i].columns /\ Halved(r(all[i]), p)
              /\ \A v : Fits(v, all[i]) =>
                   LET x == IF swaps(all[i]) THEN SwappedData(v) ELSE v
                   IN Fits(x, r(all[i])) /\ Contract!Trimmed(CellsIn(all[i], v), CellsIn(r(all[i]), x))
  <2>1. SubOK(all[i]) /\ i \in DOMAIN all
    BY <1>6
  <2>2. limits.points > 0 => /\ Cardinality(DOMAIN all[i].stale) <= Half(limits.points)
                             /\ Cardinality(DOMAIN all[i].fresh) <= Half(limits.points)
    BY <1>3, <2>1
  <2>. QED BY <1>10, <2>1, <2>2, LimitKeeps
<1>12. ASSUME NEW c \in Column, home[c] # 0
       PROVE  /\ home[c] \in 1 .. n /\ Fits(w(c), r(all[home[c]]))
              /\ Contract!Trimmed(CellsIn(all[home[c]], written[c]), CellsIn(r(all[home[c]]), w(c)))
  <2>1. home[c] \in 1 .. n /\ Fits(written[c], all[home[c]])
    BY <1>6, <1>12
  <2>. HIDE DEF swaps
  <2>. QED BY <1>11, <2>1
<1>. HIDE DEF r, w, swaps
<1>13. TableInv'
  <2>1. subtables' \in Seq(Subtable) /\ Len(subtables') = n
    <3>1. \A i \in 1 .. n : r(all[i]) \in Subtable
      BY <1>11 DEF SubOK
    <3>. QED BY <1>6, <1>8, <3>1, SMTT(60)
  <2>2. columns' \in [Column -> 0 .. n]
    BY <1>6, <1>7
  <2>3. data' \in [Column -> Values]
    <3>1. \A c \in Column : home[c] # 0 => w(c) \in Values
      BY <1>12 DEF Fits
    <3>. QED BY <1>6, <1>9, <3>1
  <2>4. \A i \in 1 .. n : /\ SubOK(subtables'[i]) /\ Halved(subtables'[i], p)
                          /\ subtables'[i].columns \in SUBSET Column
                          /\ \A c \in Column : c \in subtables'[i].columns <=> columns'[c] = i
    <3>. TAKE i \in 1 .. n
    <3>1. subtables'[i] = r(all[i])
      BY <1>8
    <3>2. all[i].columns \in SUBSET Column
      BY <1>6, SubtableHas
    <3>. QED BY <1>6, <1>7, <1>11, <3>1, <3>2
  <2>5. \A c \in Column : columns[c] = 0 => columns'[c] = 0
    BY <1>3, <1>7
  <2>6. \A c \in Column : columns'[c] = 0 => data'[c] = NoValues
    BY <1>6, <1>7, <1>9
  <2>7. \A c \in Column : columns'[c] # 0 => Fits(data'[c], subtables'[columns'[c]])
    BY <1>7, <1>8, <1>9, <1>12
  <2>. QED BY <1>4, <1>5, <1>6, <2>1, <2>2, <2>3, <2>4, <2>5, <2>6, <2>7, InvFrom DEF p
<1>14. ASSUME NEW c \in Column
       PROVE  Contract!Trimmed(CellsFor(all, home, written, c), CellsOf(c)')
  <2>1. CellsOf(c)' = CellsFor(subtables', columns', data', c)
    BY CellsOfIs
  <2>2. CASE home[c] = 0
    <3>1. CellsFor(all, home, written, c) = NoTimes /\ CellsOf(c)' = NoTimes
      BY <1>7, <2>1, <2>2 DEF CellsFor
    <3>2. DOMAIN NoTimes \subseteq DOMAIN NoTimes /\ NoTimes = Restrict(NoTimes, DOMAIN NoTimes)
      BY DEF NoTimes, Restrict
    <3>. QED BY <3>1, <3>2, TrimmedIs
  <2>3. CASE home[c] # 0
    <3>1. CellsFor(all, home, written, c) = CellsIn(all[home[c]], written[c])
      BY <2>3 DEF CellsFor
    <3>2. CellsOf(c)' = CellsIn(r(all[home[c]]), w(c))
      BY <1>7, <1>8, <1>9, <1>12, <2>1, <2>3 DEF CellsFor
    <3>. QED BY <1>12, <2>3, <3>1, <3>2
  <2>. QED BY <2>2, <2>3
<1>15. \A c \in Column : CellsFor(subtables, columns, data, c) = CellsOf(c)
  BY CellsOfIs
<1>16. /\ Known(row) \in SUBSET Column
       /\ \A c \in Known(row) : columns[c] # 0 /\ row[c] \in Value
  BY KnownColumns
<1>17. \A c \in Column : columns'[c] = 0 <=> columns[c] = 0
  BY <1>3, <1>7
<1>18. \A c \in Known(row) : Contract!Trimmed(Contract!WithCell(CellsOf(c), t, row[c]), CellsOf(c)')
  BY <1>3, <1>14, <1>15, <1>16
<1>19. \A c \in Column \ Known(row) : Contract!Trimmed(CellsOf(c), CellsOf(c)')
  BY <1>3, <1>14, <1>15
<1>. QED BY <1>4, <1>13, <1>16, <1>17, <1>18, <1>19

-----------------------------------------------------------------------------
(* The invariants of the table.                                                *)

LEMMA NextInv == TableInv /\ [Next]_vars => TableInv'
<1>. SUFFICES ASSUME TableInv, [Next]_vars PROVE TableInv'
  OBVIOUS
<1>1. CASE AddColumn
  BY <1>1, AddColumnStep
<1>2. ASSUME NEW c \in Column, RemoveColumn(c) PROVE TableInv'
  BY <1>2, RemoveColumnStep
<1>3. ASSUME NEW c \in Column, FlushColumn(c) PROVE TableInv'
  BY <1>3, FlushColumnStep
<1>4. ASSUME NEW t \in Time, NEW row \in Row, AddRow(t, row) PROVE TableInv'
  BY <1>4, AddRowStep
<1>5. ASSUME NEW c \in Column, NEW t \in Time, NEW v \in Value, SetValue(c, t, v) PROVE TableInv'
  BY <1>5, SetValueStep
<1>6. CASE FlushAll
  BY <1>6, FlushAllStep
<1>7. ASSUME NEW start \in Time, NEW end, FlushRange(start, end) PROVE TableInv'
  BY <1>7, FlushRangeStep
<1>8. CASE UNCHANGED vars
  BY <1>8 DEF vars, TableInv, TableOK
<1>. QED BY <1>1, <1>2, <1>3, <1>4, <1>5, <1>6, <1>7, <1>8 DEF Next

LEMMA AlwaysInv == Spec => []TableInv
<1>1. Init => TableInv
  BY InitInv
<1>2. TableInv /\ [Next]_vars => TableInv'
  BY NextInv
<1>. QED BY <1>1, <1>2, PTL DEF Spec

\* The positions of a bin are all those from one to the number of its times.
LEMMA AllPositions ==
  ASSUME NEW b, BinOK(b)
  PROVE  Range(b) = 1 .. Cardinality(DOMAIN b)
<1>. DEFINE D == DOMAIN b
            n == Cardinality(D)
<1>1. IsFiniteSet(D) /\ n \in Nat /\ b \in [D -> 1 .. n] /\ \A t, u \in D : b[t] = b[u] => t = u
  BY FS_CardinalityType DEF BinOK
<1>. HIDE DEF D, n
<1>2. IsFiniteSet(1 .. n) /\ Cardinality(1 .. n) = n
  <2>1. 1 \in Int /\ n \in Int /\ (1 > n => n = 0) /\ n - 1 + 1 = n
    BY <1>1
  <2>. QED BY <2>1, FS_Interval
<1>3. b \in Injection(D, 1 .. n)
  BY <1>1 DEF Injection, IsInjective
<1>4. b \in Surjection(D, 1 .. n)
  BY <1>1, <1>2, <1>3, FS_Injection DEF n
<1>. QED BY <1>1, <1>4 DEF Surjection, Range, D, n

LEMMA InvWellFormed ==
  ASSUME TableInv
  PROVE  WellFormed
<1>1. \A s \in Range(subtables) : s.columns \subseteq Column /\ TimesOf(s) \subseteq Time
  <2>. TAKE s \in Range(subtables)
  <2>1. PICK i \in 1 .. Len(subtables) : s = subtables[i]
    BY InvParts DEF Range
  <2>2. SubOK(s) /\ s.columns \in SUBSET Column
    BY <2>1, InvParts
  <2>. QED BY <2>2, SubtableTimes
<1>2. \A c \in Column, bin \in Bins : Range(data[c][bin]) \subseteq Value
  <2>. TAKE c \in Column, bin \in Bins
  <2>1. data[c] \in Values
    BY InvParts
  <2>2. data[c][bin] \in Seq(Value)
    BY <2>1 DEF Values, Bins
  <2>. QED BY <2>2 DEF Range
<1>3. TypeOK
  BY <1>1, <1>2, InvParts DEF TypeOK
<1>4. NullLess
  <2>1. DOMAIN subtables = 1 .. Len(subtables)
    BY InvParts
  <2>2. ASSUME NEW i \in 1 .. Len(subtables)
        PROVE  LET s == subtables[i]
               IN /\ s.columns = {c \in Column : columns[c] = i}
                  /\ DOMAIN s.stale \cap DOMAIN s.fresh = {}
                  /\ \A bin \in Bins :
                       /\ Range(s[bin]) = 1 .. Cardinality(DOMAIN s[bin])
                       /\ \A c \in s.columns : Len(data[c][bin]) = Cardinality(DOMAIN s[bin])
    <3>. DEFINE s == subtables[i]
    <3>1. SubOK(s) /\ s.columns \in SUBSET Column /\ \A c \in Column : c \in s.columns <=> columns[c] = i
      BY InvParts
    <3>2. \A c \in s.columns : Fits(data[c], s)
      <4>. TAKE c \in s.columns
      <4>1. c \in Column /\ columns[c] = i /\ i # 0
        BY <3>1, InvParts
      <4>. QED BY <4>1, InvParts
    <3>. HIDE DEF s
    <3>3. s.columns = {c \in Column : columns[c] = i}
      BY <3>1
    <3>4. BinOK(s.stale) /\ BinOK(s.fresh) /\ DOMAIN s.stale \cap DOMAIN s.fresh = {}
      BY <3>1 DEF SubOK
    <3>5. \A bin \in Bins :
            /\ Range(s[bin]) = 1 .. Cardinality(DOMAIN s[bin])
            /\ \A c \in s.columns : Len(data[c][bin]) = Cardinality(DOMAIN s[bin])
      <4>. TAKE bin \in Bins
      <4>1. CASE bin = "stale"
        BY <3>2, <3>4, <4>1, AllPositions DEF Fits
      <4>2. CASE bin = "fresh"
        BY <3>2, <3>4, <4>2, AllPositions DEF Fits
      <4>. QED BY <4>1, <4>2 DEF Bins
    <3>. QED BY <3>3, <3>4, <3>5 DEF s
  <2>. QED BY <2>1, <2>2 DEF NullLess
<1>. QED BY <1>3, <1>4 DEF WellFormed

LEMMA InvWithinLimit ==
  ASSUME TableInv
  PROVE  WithinLimit
<1>. DEFINE p == limits.points
<1>. SUFFICES ASSUME p > 0, NEW c \in Column PROVE Size(data[c]) <= p
  BY DEF WithinLimit
<1>1. p \in Nat
  BY InvParts
<1>2. Half(p) \in Nat /\ Half(p) >= 1 /\ 2 * Half(p) <= p + 1
  BY <1>1, HalfIs
<1>3. CASE columns[c] = 0
  <2>1. data[c] = NoValues
    BY <1>3, InvParts
  <2>. QED BY <1>1, <2>1 DEF Size, NoValues
<1>4. CASE columns[c] # 0
  <2>. DEFINE s == subtables[columns[c]]
  <2>1. SubOK(s) /\ Halved(s, p) /\ Fits(data[c], s)
    BY <1>4, InvParts
  <2>. HIDE DEF s
  <2>2. /\ Cardinality(DOMAIN s.stale) \in Nat /\ Cardinality(DOMAIN s.fresh) \in Nat
        /\ Cardinality(DOMAIN s.stale) <= Half(p) /\ Cardinality(DOMAIN s.fresh) < Half(p)
    BY <2>1, CountsOf DEF Halved
  <2>. QED BY <1>1, <1>2, <2>1, <2>2 DEF Size, Fits
<1>. QED BY <1>3, <1>4

\* Whatever the order of the rows and the splits, columns_ and the subtables tell
\* the same and no subtable has a null cell.
THEOREM TableAlwaysWellFormed == Spec => []WellFormed
<1>1. TableInv => WellFormed
  BY InvWellFormed
<1>. QED BY <1>1, AlwaysInv, PTL

\* A limit of n points holds for every column at all times, in every subtable
\* that limiting and splitting leave.
THEOREM AlwaysWithinLimit == Spec => []WithinLimit
<1>1. TableInv => WithinLimit
  BY InvWithinLimit
<1>. QED BY <1>1, AlwaysInv, PTL

-----------------------------------------------------------------------------
(* The table implements TimeTable: every operation is one on the cells of the  *)
(* columns, wherever they are stored.                                          *)

Present == {c \in Column : columns[c] # 0}
Cells   == [c \in Column |-> CellsOf(c)]

LEMMA InitImplements == Init => Contract!Init
<1>. SUFFICES ASSUME Init PROVE Contract!Init
  OBVIOUS
<1>1. \A c \in Column : columns[c] = 0 /\ CellsOf(c) = Contract!NoCells
  BY DEF Init, CellsOf, NoTimes, Contract!NoCells
<1>2. limits \in LimitChoices
  BY DEF Init
<1>. QED BY <1>1, <1>2 DEF Contract!Init

LEMMA AddColumnImplements ==
  ASSUME TableInv, AddColumn
  PROVE  Contract!AddColumn
<1>1. /\ nextId \in Column /\ columns[nextId] = 0 /\ columns'[nextId] # 0
      /\ \A d \in Column \ {nextId} : columns'[d] = columns[d]
      /\ \A d \in Column : CellsOf(d)' = CellsOf(d)
  BY AddColumnStep
<1>2. limits' = limits
  BY DEF AddColumn
<1>3. nextId \in Column \ Present /\ Present' = Present \cup {nextId} /\ Cells' = Cells
  BY <1>1 DEF Present, Cells
<1>. QED BY <1>2, <1>3 DEF Contract!AddColumn, Present, Cells

LEMMA RemoveColumnImplements ==
  ASSUME TableInv, NEW c \in Column, RemoveColumn(c)
  PROVE  Contract!RemoveColumn
<1>1. /\ columns[c] # 0 /\ columns'[c] = 0 /\ CellsOf(c)' = NoTimes
      /\ \A d \in Column \ {c} : columns'[d] = columns[d] /\ CellsOf(d)' = CellsOf(d)
  BY RemoveColumnStep
<1>2. limits' = limits
  BY DEF RemoveColumn
<1>3. c \in Present /\ Present' = Present \ {c}
  BY <1>1 DEF Present
<1>4. Cells' = [Cells EXCEPT ![c] = Contract!NoCells]
  BY <1>1 DEF Cells, NoTimes, Contract!NoCells
<1>. QED BY <1>2, <1>3, <1>4 DEF Contract!RemoveColumn, Present, Cells

LEMMA AddRowImplements ==
  ASSUME TableInv, NEW t \in Time, NEW row \in Row, AddRow(t, row)
  PROVE  Contract!AddRow
<1>1. /\ limits' = limits /\ \A c \in Column : columns'[c] = 0 <=> columns[c] = 0
      /\ Known(row) \in SUBSET {c \in Column : columns[c] # 0}
      /\ \A c \in Known(row) :
           /\ row[c] \in Value
           /\ Contract!Trimmed(Contract!WithCell(CellsOf(c), t, row[c]), CellsOf(c)')
      /\ \A c \in Column \ Known(row) : Contract!Trimmed(CellsOf(c), CellsOf(c)')
  BY AddRowStep
<1>2. Known(row) \in SUBSET Present /\ Present' = Present
  BY <1>1 DEF Present
<1>3. DOMAIN Cells' = Column
  BY DEF Cells
<1>4. \A c \in Column : Cells[c] = CellsOf(c) /\ Cells'[c] = CellsOf(c)'
  BY DEF Cells
<1>5. \A c \in Column \ Known(row) : Contract!Trimmed(Cells[c], Cells'[c])
  BY <1>1, <1>4
<1>6. \A c \in Known(row) : \E v \in Value : Contract!Trimmed(Contract!WithCell(Cells[c], t, v), Cells'[c])
  BY <1>1, <1>4
<1>7. \E tt \in Time, written \in SUBSET Present, old \in {Cells}, new \in {Cells'} :
        /\ DOMAIN new = Column
        /\ \A c \in Column \ written : Contract!Trimmed(old[c], new[c])
        /\ \A c \in written : \E v \in Value : Contract!Trimmed(Contract!WithCell(old[c], tt, v), new[c])
        /\ limits' = limits /\ Present' = Present
  BY <1>1, <1>2, <1>3, <1>5, <1>6
<1>. QED BY <1>7 DEF Contract!AddRow, Present, Cells

LEMMA SetValueImplements ==
  ASSUME TableInv, NEW c \in Column, NEW t \in Time, NEW x \in Value, SetValue(c, t, x)
  PROVE  Contract!SetValue
<1>1. /\ columns[c] # 0 /\ columns' = columns /\ t \in DOMAIN CellsOf(c)
      /\ \A d \in Column \ {c} : CellsOf(d)' = CellsOf(d)
      /\ CellsOf(c)' = Contract!WithCell(CellsOf(c), t, x)
  BY SetValueStep
<1>2. limits' = limits
  BY DEF SetValue
<1>3. c \in Present /\ Present' = Present
  BY <1>1 DEF Present
<1>4. \A d \in Column : Cells[d] = CellsOf(d) /\ Cells'[d] = CellsOf(d)'
  BY DEF Cells
<1>5. CellsOf(c) = [u \in DOMAIN CellsOf(c) |-> CellsOf(c)[u]]
  BY DEF CellsOf, NoTimes
<1>6. CellsOf(c)' = [CellsOf(c) EXCEPT ![t] = x]
  BY <1>1, <1>5 DEF Contract!WithCell
<1>7. Cells' = [Cells EXCEPT ![c] = [Cells[c] EXCEPT ![t] = x]]
  BY <1>1, <1>4, <1>6 DEF Cells
<1>8. t \in DOMAIN Cells[c]
  BY <1>1, <1>4
<1>9. \E d \in Present : \E u \in DOMAIN Cells[d], v \in Value :
        Cells' = [Cells EXCEPT ![d][u] = v] /\ UNCHANGED <<limits, Present>>
  BY <1>2, <1>3, <1>7, <1>8
<1>. QED BY <1>9 DEF Contract!SetValue, Present, Cells

LEMMA FlushImplements ==
  ASSUME TableInv, FlushAll \/ \E c \in Column : FlushColumn(c)
  PROVE  Contract!Flush
<1>1. NoTimes = Contract!NoCells
  BY DEF NoTimes, Contract!NoCells
<1>2. CASE FlushAll
  <2>1. columns' = columns /\ \A d \in Column : CellsOf(d)' = NoTimes
    BY <1>2, FlushAllStep
  <2>2. limits' = limits
    BY <1>2 DEF FlushAll
  <2>3. \A d \in Column \ Present : CellsOf(d) = NoTimes
    BY DEF Present, CellsOf
  <2>4. Cells' = [d \in Column |-> IF d \in Present THEN Contract!NoCells ELSE Cells[d]]
    BY <1>1, <2>1, <2>3 DEF Cells
  <2>5. Present' = Present
    BY <2>1 DEF Present
  <2>. QED BY <2>2, <2>4, <2>5 DEF Contract!Flush, Present, Cells
<1>3. ASSUME NEW c \in Column, FlushColumn(c) PROVE Contract!Flush
  <2>1. /\ columns[c] # 0 /\ columns'[c] # 0 /\ CellsOf(c)' = NoTimes
        /\ \A d \in Column \ {c} : columns'[d] = columns[d] /\ CellsOf(d)' = CellsOf(d)
    BY <1>3, FlushColumnStep
  <2>2. limits' = limits
    BY <1>3 DEF FlushColumn
  <2>3. Cells' = [d \in Column |-> IF d \in {c} THEN Contract!NoCells ELSE Cells[d]]
    BY <1>1, <2>1 DEF Cells
  <2>4. Present' = Present /\ {c} \in {{d} : d \in Present}
    BY <2>1 DEF Present
  <2>5. \E flushed \in {Present} \cup {{d} : d \in Present} :
          /\ Cells' = [d \in Column |-> IF d \in flushed THEN Contract!NoCells ELSE Cells[d]]
          /\ limits' = limits /\ Present' = Present
    BY <2>2, <2>3, <2>4
  <2>. QED BY <2>5 DEF Contract!Flush, Present, Cells
<1>. QED BY <1>2, <1>3

LEMMA FlushRangeImplements ==
  ASSUME TableInv, NEW start \in Time, NEW end \in {t + 1 : t \in Time}, FlushRange(start, end)
  PROVE  Contract!FlushRange
<1>1. columns' = columns /\ \A d \in Column : CellsOf(d)' = Rest(CellsOf(d), start, end)
  BY FlushRangeStep
<1>2. limits' = limits
  BY DEF FlushRange
<1>3. Present' = Present
  BY <1>1 DEF Present
<1>4. \A f : Rest(f, start, end) = Contract!Restrict(f, {t \in DOMAIN f : ~(start <= t /\ t < end)})
  BY DEF Rest, Restrict, Contract!Restrict
<1>5. \A d \in Column : Cells[d] = CellsOf(d)
  BY DEF Cells
<1>6. Cells' = [d \in Column |->
                 Contract!Restrict(Cells[d], {t \in DOMAIN Cells[d] : ~(start <= t /\ t < end)})]
  BY <1>1, <1>4, <1>5 DEF Cells
<1>. QED BY <1>2, <1>3, <1>6 DEF Contract!FlushRange, Present, Cells

LEMMA StepImplements == TableInv /\ [Next]_vars => [Contract!Next]_(Contract!vars)
<1>. SUFFICES ASSUME TableInv, [Next]_vars PROVE [Contract!Next]_(Contract!vars)
  OBVIOUS
<1>. USE DEF Contract!Next
<1>1. CASE AddColumn
  BY <1>1, AddColumnImplements
<1>2. ASSUME NEW c \in Column, RemoveColumn(c) PROVE Contract!Next
  BY <1>2, RemoveColumnImplements
<1>3. ASSUME NEW c \in Column, FlushColumn(c) PROVE Contract!Next
  BY <1>3, FlushImplements
<1>4. ASSUME NEW t \in Time, NEW row \in Row, AddRow(t, row) PROVE Contract!Next
  BY <1>4, AddRowImplements
<1>5. ASSUME NEW c \in Column, NEW t \in Time, NEW v \in Value, SetValue(c, t, v) PROVE Contract!Next
  BY <1>5, SetValueImplements
<1>6. CASE FlushAll
  BY <1>6, FlushImplements
<1>7. ASSUME NEW start \in Time, NEW end \in {t + 1 : t \in Time}, FlushRange(start, end)
      PROVE  Contract!Next
  BY <1>7, FlushRangeImplements
<1>8. CASE UNCHANGED vars
  <2>1. columns' = columns /\ limits' = limits /\ subtables' = subtables /\ data' = data
    BY <1>8 DEF vars
  <2>2. \A c \in Column : CellsOf(c)' = CellsOf(c)
    BY <2>1 DEF CellsOf, TimesOf, BinOf
  <2>. QED BY <2>1, <2>2 DEF Contract!vars
<1>. QED BY <1>1, <1>2, <1>3, <1>4, <1>5, <1>6, <1>7, <1>8 DEF Next

\* Bins, subtables, splits and the ranges of flushed positions are invisible: every
\* operation is one of a TimeTable, and limiting drops no more than it may.
THEOREM TableImplementsTimeTable == Spec => ImplementsTimeTable
<1>1. Init => Contract!Init
  BY InitImplements
<1>2. TableInv /\ [Next]_vars => [Contract!Next]_(Contract!vars)
  BY StepImplements
<1>3. Spec => []TableInv
  BY AlwaysInv
<1>. QED BY <1>1, <1>2, <1>3, PTL DEF Spec, ImplementsTimeTable, Contract!Spec

-----------------------------------------------------------------------------
(* Reading: an iterator that starts at t stands before the n-th row from t on  *)
(* after n - 1 steps, so that the visitor meets all of them in order.          *)

\* Where the iterator stands after n steps
After(s, t, n) == IF n = 0 THEN t ELSE Nth(From(s, t), n) + 1

LEMMA FromAfter ==
  ASSUME NEW s, SubOK(s), NEW t \in Int, NEW n \in 0 .. Cardinality(From(s, t))
  PROVE  /\ After(s, t, n) \in Int
         /\ n = Cardinality(From(s, t)) => From(s, After(s, t, n)) = {}
         /\ n # Cardinality(From(s, t)) =>
              /\ From(s, After(s, t, n)) # {}
              /\ Min(From(s, After(s, t, n))) = Nth(From(s, t), n + 1)
<1>. DEFINE F == From(s, t)
            K == Cardinality(F)
            x == After(s, t, n)
            R == From(s, x)
<1>1. F \in SUBSET Int /\ IsFiniteSet(F) /\ K \in Nat
  <2>1. TimesOf(s) \in SUBSET Int /\ IsFiniteSet(TimesOf(s))
    BY SubtableTimes, CountsOf
  <2>2. F \in SUBSET TimesOf(s)
    BY DEF From
  <2>. QED BY <2>1, <2>2, FS_Subset, FS_CardinalityType
<1>2. x \in Int /\ x >= t
  <2>1. CASE n = 0
    BY <2>1 DEF After
  <2>2. CASE n # 0
    <3>1. n \in 1 .. K
      BY <1>1, <2>2
    <3>2. Nth(F, n) \in F
      <4>. HIDE DEF F, K
      <4>. QED BY <1>1, <3>1, NthIs DEF K
    <3>3. Nth(F, n) \in Int /\ Nth(F, n) >= t
      BY <1>1, <3>2 DEF From
    <3>. QED BY <2>2, <3>3 DEF After
  <2>. QED BY <2>1, <2>2
<1>3. R = {u \in F : u >= x}
  <2>1. TimesOf(s) \in SUBSET Int
    BY SubtableTimes
  <2>2. \A u \in TimesOf(s) : u >= x => u >= t
    BY <1>2, <2>1
  <2>. HIDE DEF x
  <2>. QED BY <2>2 DEF From
<1>4. n \in 0 .. K
  OBVIOUS
<1>5. Rank(F, x) = n
  <2>1. CASE n = 0
    <3>1. x = t /\ \A u \in F : ~(u < t)
      BY <1>1, <2>1 DEF After, From
    <3>2. {u \in F : u < x} = {}
      BY <3>1
    <3>. QED BY <2>1, <3>2, FS_EmptySet DEF Rank
  <2>2. CASE n # 0
    <3>1. n \in 1 .. K /\ x = Nth(F, n) + 1
      BY <1>1, <2>2 DEF After
    <3>. HIDE DEF F, x
    <3>2. Nth(F, n) \in F /\ Rank(F, Nth(F, n)) = n - 1
      <4>. HIDE DEF K
      <4>. QED BY <1>1, <3>1, NthIs DEF K
    <3>3. Rank(F, x) = (n - 1) + 1
      BY <1>1, <3>1, <3>2, RankNext
    <3>. QED BY <1>1, <3>1, <3>3
  <2>. QED BY <2>1, <2>2
<1>. HIDE DEF F, x, R
<1>6. ASSUME n = K PROVE R = {}
  <2>. SUFFICES ASSUME NEW u \in R PROVE FALSE
    OBVIOUS
  <2>1. u \in F /\ u >= x /\ u \in Int
    BY <1>1, <1>3
  <2>2. Rank(F, u) < K
    BY <1>1, <2>1, RankBounds DEF K
  <2>3. Rank(F, x) <= Rank(F, u) /\ Rank(F, u) \in Nat
    BY <1>1, <1>2, <2>1, RankMonotone
  <2>. QED BY <1>1, <1>5, <1>6, <2>2, <2>3
<1>7. ASSUME n # K PROVE R # {} /\ Min(R) = Nth(F, n + 1)
  <2>. DEFINE b == Nth(F, n + 1)
  <2>1. n + 1 \in 1 .. K
    BY <1>1, <1>4, <1>7
  <2>2. b \in F /\ Rank(F, b) = (n + 1) - 1
    <3>. HIDE DEF K
    <3>. QED BY <1>1, <2>1, NthIs DEF K
  <2>. HIDE DEF b
  <2>3. b \in Int /\ Rank(F, b) = n
    BY <1>1, <1>4, <2>2
  <2>4. b >= x
    <3>. SUFFICES ASSUME b < x PROVE FALSE
      BY <1>2, <2>3
    <3>. QED BY <1>1, <1>2, <1>5, <2>2, <2>3, RankGrows
  <2>5. b \in R
    BY <1>3, <2>2, <2>4
  <2>6. \A u \in R : b <= u
    <3>. TAKE u \in R
    <3>1. u \in F /\ u >= x /\ u \in Int
      BY <1>1, <1>3
    <3>. SUFFICES ASSUME u < b PROVE FALSE
      BY <2>3, <3>1
    <3>2. Rank(F, u) < Rank(F, b)
      BY <1>1, <2>3, <3>1, RankGrows
    <3>3. Rank(F, x) <= Rank(F, u) /\ Rank(F, u) \in Nat
      BY <1>1, <1>2, <3>1, RankMonotone
    <3>. QED BY <1>4, <1>5, <2>3, <3>2, <3>3
  <2>7. R \in SUBSET Int
    BY <1>1, <1>3
  <2>8. Min(R) = b
    BY <2>5, <2>6, <2>7, MinIs
  <2>. QED BY <2>5, <2>8 DEF b
<1>. QED BY <1>2, <1>6, <1>7 DEF F, K, x, R

LEMMA NextRowIter ==
  ASSUME NEW s, NEW it \in Iter
  PROVE  NextRow(s, it) \in Iter
<1>. DEFINE b     == it.bin
            other == Other(b)
            m     == [it EXCEPT ![b] = it[b] + 1]
<1>1. b \in {"stale", "fresh"} /\ other \in Bins /\ it.stale \in Int /\ it.fresh \in Int
  BY DEF Iter, Bins, Other
<1>2. m \in Iter
  <2>1. CASE b = "stale"
    <3>1. m = [it EXCEPT !.stale = it.stale + 1]
      BY <2>1
    <3>2. it.stale + 1 \in Int
      BY <1>1
    <3>. QED BY <3>1, <3>2 DEF Iter
  <2>2. CASE b = "fresh"
    <3>1. m = [it EXCEPT !.fresh = it.fresh + 1]
      BY <2>2
    <3>2. it.fresh + 1 \in Int
      BY <1>1
    <3>. QED BY <3>1, <3>2 DEF Iter
  <2>. QED BY <1>1, <2>1, <2>2
<1>3. [m EXCEPT !.bin = other] \in Iter
  <2>. HIDE DEF m, other
  <2>. QED BY <1>1, <1>2 DEF Iter
<1>4. NextRow(s, it) \in {it, m, [m EXCEPT !.bin = other]}
  BY DEF NextRow
<1>. QED BY <1>2, <1>3, <1>4

\* The rows a visitor meets are those from its start on, in order.
LEMMA VisitedIs ==
  ASSUME NEW s, SubOK(s), NEW t \in Int
  PROVE  Visited(s, t) = [n \in 1 .. Cardinality(From(s, t)) |-> Nth(From(s, t), n)]
<1>. DEFINE F       == From(s, t)
            K       == Cardinality(F)
            N       == RowCount(s)
            Step(k) == [n \in 0 .. N |-> IF n = 0 THEN LowerBound(s, t) ELSE NextRow(s, k[n - 1])]
            it      == CHOOSE k : k = Step(k)
            ends    == {n \in DOMAIN it : n = N \/ ~HasNext(s, it[n])}
            G       == [x \in (1 .. N) \X Iter |-> NextRow(s, x[2])]
<1>1. /\ F \in SUBSET Int /\ IsFiniteSet(F) /\ K \in Nat /\ N \in Nat /\ K <= N
  <2>1. TimesOf(s) \in SUBSET Int /\ IsFiniteSet(TimesOf(s)) /\ Cardinality(TimesOf(s)) = N
    BY SubtableTimes, CountsOf
  <2>2. F \in SUBSET TimesOf(s)
    BY DEF From
  <2>. QED BY <2>1, <2>2, FS_Subset, FS_CardinalityType
<1>2. Visited(s, t) = [n \in 1 .. Min(ends) |-> PeekNext(s, it[n - 1])]
  BY DEF Visited
<1>3. PointsAt(s, LowerBound(s, t), t) /\ LowerBound(s, t) \in Iter
  BY LowerBoundPoints DEF PointsAt, StandsAt
<1>4. PICK f \in [0 .. N -> Iter] :
        f[0] = LowerBound(s, t) /\ \A n \in 1 .. N : f[n] = G[<<n, f[n - 1]>>]
  <2>. DEFINE first == LowerBound(s, t)
  <2>1. \A x \in (1 .. N) \X Iter : NextRow(s, x[2]) \in Iter
    BY NextRowIter
  <2>2. first \in Iter /\ G \in StepsOf(N, Iter)
    <3>. HIDE DEF N
    <3>. QED BY <1>3, <2>1 DEF StepsOf
  <2>. HIDE DEF G, N, first
  <2>3. PICK f : FoldOf(f, N, Iter, first, G)
    BY <1>1, <2>2, Recursion
  <2>. QED BY <2>3 DEF FoldOf, first
<1>5. \E k : k = Step(k)
  <2>1. ASSUME NEW n \in 1 .. N PROVE f[n] = NextRow(s, f[n - 1])
    <3>1. n - 1 \in 0 .. N
      BY <1>1
    <3>. HIDE DEF N
    <3>2. <<n, f[n - 1]>> \in (1 .. N) \X Iter
      BY <1>4, <3>1
    <3>3. G[<<n, f[n - 1]>>] = NextRow(s, f[n - 1])
      BY <3>2
    <3>. QED BY <1>4, <3>3
  <2>2. \A n \in 0 .. N : n = 0 \/ n \in 1 .. N
    BY <1>1
  <2>3. \A n \in 0 .. N : f[n] = IF n = 0 THEN LowerBound(s, t) ELSE NextRow(s, f[n - 1])
    BY <1>4, <2>1, <2>2
  <2>4. f = Step(f)
    <3>. HIDE DEF N
    <3>. QED BY <1>4, <2>3
  <2>. QED BY <2>4
<1>6. it = Step(it)
  <2>. HIDE DEF Step
  <2>. QED BY <1>5
<1>7. /\ DOMAIN it = 0 .. N /\ it[0] = LowerBound(s, t)
      /\ \A n \in 1 .. N : it[n] = NextRow(s, it[n - 1])
  <2>1. 0 \in 0 .. N /\ \A n \in 1 .. N : n \in 0 .. N /\ n # 0
    BY <1>1
  <2>. HIDE DEF it, N
  <2>. QED BY <1>6, <2>1
<1>. HIDE DEF it, N
<1>. DEFINE Holds == {n \in 0 .. K : \A m \in 0 .. n : PointsAt(s, it[m], After(s, t, m))}
<1>8. 0 \in Holds
  <2>1. 0 \in 0 .. K /\ \A m \in 0 .. 0 : m = 0
    BY <1>1
  <2>2. PointsAt(s, it[0], After(s, t, 0))
    BY <1>3, <1>7 DEF After
  <2>. HIDE DEF K
  <2>. QED BY <2>1, <2>2
<1>9. ASSUME NEW n \in 1 .. K, n - 1 \in Holds PROVE n \in Holds
  <2>1. /\ n - 1 \in 0 .. K /\ n - 1 # K /\ n \in 0 .. K /\ n \in 1 .. N /\ n # 0 /\ (n - 1) + 1 = n
        /\ n - 1 \in 0 .. n - 1 /\ \A m \in 0 .. n : m = n \/ m \in 0 .. n - 1
    BY <1>1
  <2>2. PointsAt(s, it[n - 1], After(s, t, n - 1)) /\ \A m \in 0 .. n - 1 : PointsAt(s, it[m], After(s, t, m))
    BY <1>9, <2>1
  <2>. DEFINE x == After(s, t, n - 1)
  <2>3. x \in Int /\ From(s, x) # {} /\ Min(From(s, x)) = Nth(F, n)
    BY <2>1, FromAfter
  <2>. HIDE DEF x
  <2>4. PointsAt(s, NextRow(s, it[n - 1]), Min(From(s, x)) + 1)
    BY <2>2, <2>3, NextRowPoints DEF x
  <2>5. PointsAt(s, it[n], After(s, t, n))
    BY <1>7, <2>1, <2>3, <2>4 DEF After
  <2>. HIDE DEF K
  <2>. QED BY <2>1, <2>2, <2>5
<1>10. \A n \in 0 .. K : PointsAt(s, it[n], After(s, t, n))
  <2>1. Holds \in SUBSET Nat
    OBVIOUS
  <2>2. K \in Holds
    <3>. HIDE DEF Holds, K
    <3>. QED BY <1>1, <1>8, <1>9, <2>1, Throughout DEF K
  <2>. QED BY <2>2
<1>11. ASSUME NEW n \in 0 .. K
       PROVE  /\ n # K => HasNext(s, it[n]) /\ PeekNext(s, it[n]) = Nth(F, n + 1)
              /\ n = K => ~HasNext(s, it[n])
  <2>1. PointsAt(s, it[n], After(s, t, n))
    BY <1>10
  <2>. QED BY <2>1, FromAfter DEF PointsAt
<1>12. Min(ends) = K
  <2>1. K \in 0 .. N /\ K \in 0 .. K /\ \A n \in 0 .. N : n < K => n \in 0 .. K /\ n # K /\ n # N
    BY <1>1
  <2>2. K \in ends
    BY <1>7, <1>11, <2>1
  <2>3. \A n \in ends : K <= n
    <3>. TAKE n \in ends
    <3>1. n \in 0 .. N /\ (n = N \/ ~HasNext(s, it[n]))
      BY <1>7
    <3>. SUFFICES ASSUME n < K PROVE FALSE
      BY <1>1, <3>1
    <3>. QED BY <1>11, <2>1, <3>1
  <2>4. ends \in SUBSET Int
    BY <1>1, <1>7
  <2>. HIDE DEF ends, K
  <2>. QED BY <2>2, <2>3, <2>4, MinIs
<1>. HIDE DEF ends
<1>13. \A n \in 1 .. K : PeekNext(s, it[n - 1]) = Nth(F, n)
  <2>. TAKE n \in 1 .. K
  <2>1. n - 1 \in 0 .. K /\ n - 1 # K /\ (n - 1) + 1 = n
    BY <1>1
  <2>. HIDE DEF F, K
  <2>. QED BY <1>11, <2>1
<1>. HIDE DEF F, K
<1>. QED BY <1>2, <1>12, <1>13 DEF F, K

\* One row back an iterator stands before the latest time so far.
LEMMA PreviousPoints ==
  ASSUME NEW s, SubOK(s), NEW t \in Int, NEW it, StandsAt(s, it, t),
         {u \in TimesOf(s) : u < t} # {}
  PROVE  LET p == Max({u \in TimesOf(s) : u < t})
         IN /\ p \in TimesOf(s) /\ p < t /\ \A u \in TimesOf(s) : u < t => u <= p
            /\ PointsAt(s, Previous(s, it), p)
            /\ From(s, p) # {} /\ Min(From(s, p)) = p /\ From(s, p + 1) = From(s, t)
<1>. DEFINE S      == DOMAIN s.stale
            F      == DOMAIN s.fresh
            before == {u \in TimesOf(s) : u < t}
            p      == Max(before)
            a      == Nth(S, Rank(S, t))
            c      == Nth(F, Rank(F, t))
            b      == IF it.fresh = 0 \/ (it.stale > 0 /\ a > c) THEN "stale" ELSE "fresh"
            r      == Previous(s, it)
<1>1. /\ S \in SUBSET Int /\ IsFiniteSet(S) /\ F \in SUBSET Int /\ IsFiniteSet(F)
      /\ TimesOf(s) = S \cup F /\ S \cap F = {} /\ IsFiniteSet(TimesOf(s)) /\ TimesOf(s) \in SUBSET Int
  BY SubtableTimes, CountsOf
<1>2. it \in Iter /\ it.stale = Rank(S, t) /\ it.fresh = Rank(F, t)
  BY DEF StandsAt
<1>3. before \in SUBSET TimesOf(s) /\ before \in SUBSET Int /\ IsFiniteSet(before)
  <2>1. before \in SUBSET TimesOf(s)
    OBVIOUS
  <2>. QED BY <1>1, <2>1, FS_Subset
<1>4. p \in before /\ \A u \in before : u <= p
  <2>. HIDE DEF before
  <2>. QED BY <1>3, Extremes DEF before
<1>5. p \in TimesOf(s) /\ p \in Int /\ p < t /\ \A u \in TimesOf(s) : u < t => u <= p
  BY <1>3, <1>4
<1>6. /\ Rank(S, t) \in 0 .. Cardinality(S) /\ Cardinality(S) \in Nat
      /\ Rank(S, t) = 0 => \A u \in S : u >= t
      /\ Rank(S, t) # 0 => a \in S /\ a < t /\ \A u \in S : u < t => u <= a
  BY <1>1, Around
<1>7. /\ Rank(F, t) \in 0 .. Cardinality(F) /\ Cardinality(F) \in Nat
      /\ Rank(F, t) = 0 => \A u \in F : u >= t
      /\ Rank(F, t) # 0 => c \in F /\ c < t /\ \A u \in F : u < t => u <= c
  BY <1>1, Around
<1>8. HasPrevious(it)
  BY <1>3, <1>4, PreviousIsLatest
<1>9. r = [it EXCEPT ![b] = it[b] - 1, !.bin = b]
  <2>1. \A x : [it EXCEPT ![x] = @ - 1, !.bin = x] = [it EXCEPT ![x] = it[x] - 1, !.bin = x]
    OBVIOUS
  <2>2. Behind(s, it, "stale") = a /\ Behind(s, it, "fresh") = c
    BY <1>2 DEF Behind
  <2>3. b = IF it.fresh = 0 \/ (it.stale > 0 /\ Behind(s, it, "stale") > Behind(s, it, "fresh"))
            THEN "stale" ELSE "fresh"
    BY <2>2
  <2>. HIDE DEF b, a, c
  <2>. QED BY <1>8, <2>1, <2>3 DEF Previous
<1>10. PeekNext(s, r) = p
  BY <1>3, <1>4, PreviousIsLatest
<1>. HIDE DEF r, S, F, a, c, before, p
<1>11. \A z \in S \cup F : z >= p => p <= z
  BY <1>1, <1>5
<1>12. \A z \in S \cup F : ~(p + 1 <= z /\ z < t)
  <2>. TAKE z \in S \cup F
  <2>1. z \in Int /\ (z < t => z <= p)
    BY <1>1, <1>5
  <2>. QED BY <1>5, <2>1
<1>13. Rank(S, p + 1) = Rank(S, t) /\ Rank(F, p + 1) = Rank(F, t)
  <2>1. p + 1 \in Int /\ p + 1 <= t
    BY <1>5
  <2>. QED BY <1>1, <1>12, <2>1, RankMonotone
<1>14. \/ p \in S /\ p \notin F /\ b = "stale"
       \/ p \in F /\ p \notin S /\ b = "fresh"
  <2>1. CASE p \in S
    <3>1. Rank(S, t) # 0 /\ a = p
      <4>1. Rank(S, t) # 0
        BY <1>1, <1>5, <1>6, <2>1
      <4>2. a \in S /\ a \in Int /\ a < t /\ p <= a
        BY <1>1, <1>5, <1>6, <2>1, <4>1
      <4>3. a <= p
        BY <1>1, <1>5, <4>2
      <4>. QED BY <1>5, <4>1, <4>2, <4>3
    <3>2. Rank(F, t) # 0 => a > c
      <4>. SUFFICES ASSUME Rank(F, t) # 0 PROVE a > c
        OBVIOUS
      <4>1. c \in F /\ c \in Int /\ c < t
        BY <1>1, <1>7
      <4>2. c <= p /\ c # p
        BY <1>1, <1>5, <2>1, <4>1
      <4>. QED BY <1>5, <3>1, <4>1, <4>2
    <3>3. it.fresh = 0 \/ (it.stale > 0 /\ a > c)
      BY <1>2, <1>6, <3>1, <3>2
    <3>. QED BY <1>1, <2>1, <3>3
  <2>2. CASE p \in F
    <3>1. Rank(F, t) # 0 /\ c = p
      <4>1. Rank(F, t) # 0
        BY <1>1, <1>5, <1>7, <2>2
      <4>2. c \in F /\ c \in Int /\ c < t /\ p <= c
        BY <1>1, <1>5, <1>7, <2>2, <4>1
      <4>3. c <= p
        BY <1>1, <1>5, <4>2
      <4>. QED BY <1>5, <4>1, <4>2, <4>3
    <3>2. Rank(S, t) # 0 => ~(a > c)
      <4>. SUFFICES ASSUME Rank(S, t) # 0 PROVE ~(a > c)
        OBVIOUS
      <4>1. a \in S /\ a \in Int /\ a < t
        BY <1>1, <1>6
      <4>2. a <= p
        BY <1>1, <1>5, <4>1
      <4>. QED BY <1>5, <3>1, <4>1, <4>2
    <3>3. ~(it.fresh = 0 \/ (it.stale > 0 /\ a > c))
      BY <1>2, <1>6, <1>7, <3>1, <3>2
    <3>. QED BY <1>1, <2>2, <3>3
  <2>. QED BY <1>1, <1>5, <2>1, <2>2
<1>15. r \in Iter /\ r.stale = Rank(S, p) /\ r.fresh = Rank(F, p) /\ r.bin = b
  <2>1. CASE p \in S /\ p \notin F /\ b = "stale"
    <3>1. Rank(S, p + 1) = Rank(S, p) + 1 /\ Rank(F, p + 1) = Rank(F, p)
      BY <1>1, <1>5, <1>11, <2>1, RankPast
    <3>2. r = [it EXCEPT !.stale = it.stale - 1, !.bin = "stale"]
      BY <1>9, <2>1
    <3>3. Rank(S, p) \in Int /\ Rank(S, t) - 1 = Rank(S, p)
      <4>1. Rank(S, p) \in 0 .. Cardinality(S)
        BY <1>1, <1>5, RankBounds
      <4>. QED BY <1>13, <3>1, <4>1
    <3>. QED BY <1>2, <1>13, <2>1, <3>1, <3>2, <3>3 DEF Iter, Bins
  <2>2. CASE p \in F /\ p \notin S /\ b = "fresh"
    <3>1. Rank(F, p + 1) = Rank(F, p) + 1 /\ Rank(S, p + 1) = Rank(S, p)
      <4>1. \A z \in F \cup S : z >= p => p <= z
        BY <1>11
      <4>. QED BY <1>1, <1>5, <2>2, <4>1, RankPast
    <3>2. r = [it EXCEPT !.fresh = it.fresh - 1, !.bin = "fresh"]
      BY <1>9, <2>2
    <3>3. Rank(F, p) \in Int /\ Rank(F, t) - 1 = Rank(F, p)
      <4>1. Rank(F, p) \in 0 .. Cardinality(F)
        BY <1>1, <1>5, RankBounds
      <4>. QED BY <1>13, <3>1, <4>1
    <3>. QED BY <1>2, <1>13, <2>2, <3>1, <3>2, <3>3 DEF Iter, Bins
  <2>. QED BY <1>14, <2>1, <2>2
<1>. HIDE DEF b
<1>16. StandsAt(s, r, p)
  BY <1>15 DEF StandsAt, S, F
<1>17. /\ AtEnd(s, r, "stale") <=> Rank(S, p) = Cardinality(S)
       /\ AtEnd(s, r, "fresh") <=> Rank(F, p) = Cardinality(F)
       /\ Ahead(s, r, "stale") = Nth(S, Rank(S, p) + 1)
       /\ Ahead(s, r, "fresh") = Nth(F, Rank(F, p) + 1)
  BY <1>15 DEF AtEnd, Ahead, S, F
<1>18. /\ ~AtEnd(s, r, "stale") => Ahead(s, r, "stale") \in Int /\ Ahead(s, r, "stale") >= p
       /\ ~AtEnd(s, r, "fresh") => Ahead(s, r, "fresh") \in Int /\ Ahead(s, r, "fresh") >= p
  <2>1. Rank(S, p) # Cardinality(S) => Nth(S, Rank(S, p) + 1) \in Int /\ Nth(S, Rank(S, p) + 1) >= p
    BY <1>1, <1>5, Around
  <2>2. Rank(F, p) # Cardinality(F) => Nth(F, Rank(F, p) + 1) \in Int /\ Nth(F, Rank(F, p) + 1) >= p
    BY <1>1, <1>5, Around
  <2>. QED BY <1>17, <2>1, <2>2
<1>19. ~AtEnd(s, r, r.bin) /\ Ahead(s, r, r.bin) = p
  <2>1. CASE p \in S /\ p \notin F /\ b = "stale"
    <3>1. Rank(S, p) + 1 \in 1 .. Cardinality(S) /\ Nth(S, Rank(S, p) + 1) = p
      BY <1>1, <2>1, NthOfRank
    <3>2. Rank(S, p) # Cardinality(S)
      BY <1>6, <3>1
    <3>. QED BY <1>15, <1>17, <2>1, <3>1, <3>2
  <2>2. CASE p \in F /\ p \notin S /\ b = "fresh"
    <3>1. Rank(F, p) + 1 \in 1 .. Cardinality(F) /\ Nth(F, Rank(F, p) + 1) = p
      BY <1>1, <2>2, NthOfRank
    <3>2. Rank(F, p) # Cardinality(F)
      BY <1>7, <3>1
    <3>. QED BY <1>15, <1>17, <2>2, <3>1, <3>2
  <2>. QED BY <1>14, <2>1, <2>2
<1>20. ~AtEnd(s, r, Other(r.bin)) => Ahead(s, r, r.bin) <= Ahead(s, r, Other(r.bin))
  <2>1. Other(r.bin) = "stale" \/ Other(r.bin) = "fresh"
    BY DEF Other
  <2>. QED BY <1>5, <1>18, <1>19, <2>1
<1>21. PointsAt(s, r, p)
  BY <1>5, <1>16, <1>19, <1>20, PointsFrom
<1>22. p \in From(s, p) /\ From(s, p) \in SUBSET Int /\ \A u \in From(s, p) : p <= u
  BY <1>1, <1>5 DEF From
<1>23. Min(From(s, p)) = p
  BY <1>22, MinIs
<1>24. From(s, p + 1) = From(s, t)
  <2>1. \A u \in TimesOf(s) : u >= p + 1 <=> u >= t
    <3>. TAKE u \in TimesOf(s)
    <3>1. u \in Int /\ (u < t => u <= p)
      BY <1>1, <1>5
    <3>. QED BY <1>5, <3>1
  <2>. QED BY <2>1 DEF From
<1>. QED BY <1>5, <1>21, <1>22, <1>23, <1>24 DEF r, p, before

\* A step and one back leave an iterator before the same row.
LEMMA ThereAndBack ==
  ASSUME NEW s, SubOK(s), NEW t \in Int, NEW it, PointsAt(s, it, t)
  PROVE  /\ HasNext(s, it) => PeekNext(s, Previous(s, NextRow(s, it))) = PeekNext(s, it)
         /\ HasPrevious(it) => PeekNext(s, NextRow(s, Previous(s, it))) = PeekNext(s, it)
<1>0. StandsAt(s, it, t)
  BY DEF PointsAt
<1>1. TimesOf(s) \in SUBSET Int /\ IsFiniteSet(TimesOf(s))
  BY SubtableTimes, CountsOf
<1>2. ASSUME HasNext(s, it) PROVE PeekNext(s, Previous(s, NextRow(s, it))) = PeekNext(s, it)
  <2>. DEFINE u      == Min(From(s, t))
              before == {v \in TimesOf(s) : v < u + 1}
  <2>1. From(s, t) # {} /\ PeekNext(s, it) = u
    BY <1>2 DEF PointsAt
  <2>2. u \in TimesOf(s) /\ u \in Int
    <3>1. From(s, t) \in SUBSET TimesOf(s)
      BY DEF From
    <3>2. From(s, t) \in SUBSET Int /\ IsFiniteSet(From(s, t))
      BY <1>1, <3>1, FS_Subset
    <3>3. u \in From(s, t)
      BY <2>1, <3>2, Extremes
    <3>. QED BY <3>1, <3>2, <3>3
  <2>3. PointsAt(s, NextRow(s, it), u + 1)
    BY <2>1, NextRowPoints
  <2>. HIDE DEF u
  <2>4. StandsAt(s, NextRow(s, it), u + 1) /\ u + 1 \in Int
    BY <2>2, <2>3 DEF PointsAt
  <2>5. u \in before /\ before \in SUBSET Int /\ \A v \in before : v <= u
    BY <1>1, <2>2
  <2>6. PeekNext(s, Previous(s, NextRow(s, it))) = Max(before)
    BY <2>4, <2>5, PreviousIsLatest
  <2>7. Max(before) = u
    <3>. HIDE DEF before
    <3>. QED BY <2>5, MaxIs
  <2>. QED BY <2>1, <2>6, <2>7
<1>3. ASSUME HasPrevious(it) PROVE PeekNext(s, NextRow(s, Previous(s, it))) = PeekNext(s, it)
  <2>. DEFINE p == Max({u \in TimesOf(s) : u < t})
  <2>1. {u \in TimesOf(s) : u < t} # {}
    BY <1>0, <1>3, PreviousIsLatest
  <2>2. /\ p \in TimesOf(s) /\ PointsAt(s, Previous(s, it), p)
        /\ From(s, p) # {} /\ Min(From(s, p)) = p /\ From(s, p + 1) = From(s, t)
    BY <1>0, <2>1, PreviousPoints
  <2>. HIDE DEF p
  <2>3. PointsAt(s, NextRow(s, Previous(s, it)), p + 1)
    <3>1. p \in Int
      BY <1>1, <2>2
    <3>. QED BY <2>2, <3>1, NextRowPoints
  <2>. QED BY <2>2, <2>3 DEF PointsAt
<1>. QED BY <1>2, <1>3

LEMMA PreviousIter ==
  ASSUME NEW s, NEW it \in Iter
  PROVE  Previous(s, it) \in Iter
<1>1. it.stale - 1 \in Int /\ it.fresh - 1 \in Int
  BY DEF Iter
<1>2. [it EXCEPT !.stale = it.stale - 1, !.bin = "stale"] \in Iter
  BY <1>1 DEF Iter, Bins
<1>3. [it EXCEPT !.fresh = it.fresh - 1, !.bin = "fresh"] \in Iter
  BY <1>1 DEF Iter, Bins
<1>. DEFINE b == IF it.fresh = 0 \/ (it.stale > 0 /\ Behind(s, it, "stale") > Behind(s, it, "fresh"))
                 THEN "stale" ELSE "fresh"
<1>4. b = "stale" \/ b = "fresh"
  OBVIOUS
<1>5. Previous(s, it) = IF HasPrevious(it) THEN [it EXCEPT ![b] = @ - 1, !.bin = b] ELSE it
  BY DEF Previous
<1>. HIDE DEF b
<1>. QED BY <1>2, <1>3, <1>4, <1>5

\* The end is after every time of the subtable.
LEMMA EndStands ==
  ASSUME NEW s, SubOK(s)
  PROVE  \E top \in Int : StandsAt(s, End(s), top) /\ \A u \in TimesOf(s) : u < top
<1>. DEFINE T == TimesOf(s)
            S == DOMAIN s.stale
            F == DOMAIN s.fresh
<1>1. /\ S \in SUBSET Int /\ IsFiniteSet(S) /\ F \in SUBSET Int /\ IsFiniteSet(F)
      /\ T = S \cup F /\ T \in SUBSET Int /\ IsFiniteSet(T)
  BY SubtableTimes, CountsOf
<1>2. \E top \in Int : \A u \in T : u < top
  <2>1. CASE T = {}
    BY <2>1
  <2>2. CASE T # {}
    <3>. HIDE DEF T
    <3>1. Max(T) \in T /\ \A u \in T : u <= Max(T)
      BY <1>1, <2>2, Extremes
    <3>2. Max(T) + 1 \in Int /\ \A u \in T : u < Max(T) + 1
      BY <1>1, <3>1
    <3>. QED BY <3>2
  <2>. QED BY <2>1, <2>2
<1>3. PICK top \in Int : \A u \in T : u < top
  BY <1>2
<1>. HIDE DEF T, S, F
<1>4. Rank(S, top) = Cardinality(S) /\ Rank(F, top) = Cardinality(F)
  <2>1. \A u \in S : ~(u >= top)
    BY <1>1, <1>3
  <2>2. \A u \in F : ~(u >= top)
    BY <1>1, <1>3
  <2>3. Rank(S, top) # Cardinality(S) => Nth(S, Rank(S, top) + 1) \in S /\ Nth(S, Rank(S, top) + 1) >= top
    BY <1>1, Around
  <2>4. Rank(F, top) # Cardinality(F) => Nth(F, Rank(F, top) + 1) \in F /\ Nth(F, Rank(F, top) + 1) >= top
    BY <1>1, Around
  <2>. QED BY <2>1, <2>2, <2>3, <2>4
<1>5. Cardinality(S) \in Int /\ Cardinality(F) \in Int
  BY <1>1, FS_CardinalityType
<1>6. StandsAt(s, End(s), top)
  BY <1>4, <1>5 DEF StandsAt, End, Iter, Bins, S, F
<1>. QED BY <1>3, <1>6 DEF T

\* The rows met on the way back are all there are, in the other order.
LEMMA VisitedBackIs ==
  ASSUME NEW s, SubOK(s)
  PROVE  VisitedBack(s) = [n \in 1 .. RowCount(s) |-> Nth(TimesOf(s), RowCount(s) + 1 - n)]
<1>. DEFINE T       == TimesOf(s)
            N       == RowCount(s)
            Step(k) == [n \in 0 .. N |-> IF n = 0 THEN End(s) ELSE Previous(s, k[n - 1])]
            it      == CHOOSE k : k = Step(k)
            ends    == {n \in DOMAIN it : n = N \/ ~HasPrevious(it[n])}
            G       == [x \in (1 .. N) \X Iter |-> Previous(s, x[2])]
<1>1. T \in SUBSET Int /\ IsFiniteSet(T) /\ N \in Nat /\ Cardinality(T) = N
  BY SubtableTimes, CountsOf, FS_CardinalityType
<1>2. VisitedBack(s) = [n \in 1 .. Min(ends) |-> PeekNext(s, it[n])]
  BY DEF VisitedBack
<1>3. PICK top \in Int : StandsAt(s, End(s), top) /\ \A u \in T : u < top
  BY EndStands
<1>4. PICK f \in [0 .. N -> Iter] :
        f[0] = End(s) /\ \A n \in 1 .. N : f[n] = G[<<n, f[n - 1]>>]
  <2>1. \A x \in (1 .. N) \X Iter : Previous(s, x[2]) \in Iter
    BY PreviousIter
  <2>2. End(s) \in Iter /\ G \in StepsOf(N, Iter)
    <3>. HIDE DEF N
    <3>. QED BY <1>3, <2>1 DEF StepsOf, StandsAt
  <2>. HIDE DEF G, N
  <2>3. PICK f : FoldOf(f, N, Iter, End(s), G)
    BY <1>1, <2>2, Recursion
  <2>. QED BY <2>3 DEF FoldOf
<1>5. \E k : k = Step(k)
  <2>1. ASSUME NEW n \in 1 .. N PROVE f[n] = Previous(s, f[n - 1])
    <3>1. n - 1 \in 0 .. N
      BY <1>1
    <3>. HIDE DEF N
    <3>2. <<n, f[n - 1]>> \in (1 .. N) \X Iter
      BY <1>4, <3>1
    <3>3. G[<<n, f[n - 1]>>] = Previous(s, f[n - 1])
      BY <3>2
    <3>. QED BY <1>4, <3>3
  <2>2. \A n \in 0 .. N : n = 0 \/ n \in 1 .. N
    BY <1>1
  <2>3. \A n \in 0 .. N : f[n] = IF n = 0 THEN End(s) ELSE Previous(s, f[n - 1])
    BY <1>4, <2>1, <2>2
  <2>4. f = Step(f)
    <3>. HIDE DEF N
    <3>. QED BY <1>4, <2>3
  <2>. QED BY <2>4
<1>6. it = Step(it)
  <2>. HIDE DEF Step
  <2>. QED BY <1>5
<1>7. /\ DOMAIN it = 0 .. N /\ it[0] = End(s)
      /\ \A n \in 1 .. N : it[n] = Previous(s, it[n - 1])
  <2>1. 0 \in 0 .. N /\ \A n \in 1 .. N : n \in 0 .. N /\ n # 0
    BY <1>1
  <2>. HIDE DEF it, N
  <2>. QED BY <1>6, <2>1
<1>. HIDE DEF it
<1>. DEFINE at(n) == IF n = 0 THEN top ELSE Nth(T, N + 1 - n)
\* Between two rows of the way back there is no other.
<1>8. ASSUME NEW n \in 1 .. N
      PROVE  LET before == {u \in T : u < at(n - 1)}
             IN at(n - 1) \in Int /\ before # {} /\ Max(before) = at(n) /\ at(n) \in Int
  <2>. DEFINE y      == at(n - 1)
              x      == Nth(T, N + 1 - n)
              before == {u \in T : u < y}
  <2>. HIDE DEF T, N
  <2>1. n \in Int /\ n # 0 /\ N + 1 - n \in 1 .. N
    BY <1>1
  <2>2. x \in T /\ x \in Int /\ Rank(T, x) = N - n
    <3>1. x \in T /\ Rank(T, x) = (N + 1 - n) - 1
      BY <1>1, <2>1, NthIs
    <3>2. (N + 1 - n) - 1 = N - n
      BY <1>1, <2>1
    <3>. HIDE DEF x
    <3>. QED BY <1>1, <3>1, <3>2
  <2>. HIDE DEF x
  <2>3. y \in Int /\ x < y /\ \A u \in T : u < y => Rank(T, u) < N + 1 - n
    <3>1. CASE n = 1
      <4>1. y = top
        BY <3>1
      <4>2. \A u \in T : Rank(T, u) < N
        BY <1>1, RankBounds
      <4>. QED BY <1>1, <1>3, <2>2, <3>1, <4>1, <4>2 DEF T
    <3>2. CASE n # 1
      <4>1. N + 1 - (n - 1) \in 1 .. N /\ n - 1 # 0 /\ N + 1 - n < N + 1 - (n - 1)
        BY <1>1, <2>1, <3>2
      <4>2. y = Nth(T, N + 1 - (n - 1))
        BY <4>1
      <4>3. y \in T /\ Rank(T, y) = (N + 1 - (n - 1)) - 1
        BY <1>1, <4>1, <4>2, NthIs
      <4>4. x < y
        BY <1>1, <2>1, <4>1, <4>2, NthGrows DEF x
      <4>. HIDE DEF y
      <4>5. y \in Int /\ Rank(T, y) = N + 1 - n
        BY <1>1, <2>1, <4>3
      <4>6. \A u \in T : u < y => Rank(T, u) < Rank(T, y)
        BY <1>1, <4>5, RankGrows
      <4>. QED BY <4>4, <4>5, <4>6
    <3>. QED BY <3>1, <3>2
  <2>. HIDE DEF y
  <2>4. x \in before /\ before \in SUBSET Int
    BY <1>1, <2>2, <2>3
  <2>5. \A u \in before : u <= x
    <3>. TAKE u \in before
    <3>1. u \in T /\ u \in Int /\ u < y
      BY <1>1
    <3>. SUFFICES ASSUME x < u PROVE FALSE
      BY <2>2, <3>1
    <3>2. Rank(T, x) < Rank(T, u)
      BY <1>1, <2>2, <3>1, RankGrows
    <3>3. Rank(T, u) \in Nat /\ Rank(T, u) < N + 1 - n
      BY <1>1, <2>3, <3>1, RankBounds
    <3>. QED BY <1>1, <2>1, <2>2, <3>2, <3>3
  <2>6. Max(before) = x
    <3>. HIDE DEF before
    <3>. QED BY <2>4, <2>5, MaxIs
  <2>7. at(n) = x
    BY <2>1 DEF x
  <2>. HIDE DEF at
  <2>. QED BY <2>2, <2>3, <2>4, <2>6, <2>7 DEF y
<1>. HIDE DEF at, N
<1>. DEFINE Right(m) == StandsAt(s, it[m], at(m)) /\ (m # 0 => PeekNext(s, it[m]) = at(m))
            Holds    == {n \in 0 .. N : \A m \in 0 .. n : Right(m)}
<1>9. 0 \in Holds
  <2>1. 0 \in 0 .. N /\ \A m \in 0 .. 0 : m = 0
    BY <1>1
  <2>2. Right(0)
    BY <1>3, <1>7 DEF at
  <2>. HIDE DEF Right
  <2>. QED BY <2>1, <2>2
<1>10. ASSUME NEW n \in 1 .. N, n - 1 \in Holds PROVE n \in Holds
  <2>1. /\ n \in 0 .. N /\ n # 0 /\ n - 1 \in 0 .. n - 1
        /\ \A m \in 0 .. n : m = n \/ m \in 0 .. n - 1
    BY <1>1
  <2>2. \A m \in 0 .. n - 1 : Right(m)
    BY <1>10
  <2>3. StandsAt(s, it[n - 1], at(n - 1))
    BY <2>1, <2>2
  <2>4. /\ at(n - 1) \in Int /\ {u \in TimesOf(s) : u < at(n - 1)} # {}
        /\ Max({u \in TimesOf(s) : u < at(n - 1)}) = at(n)
    BY <1>8
  <2>. DEFINE y == at(n - 1)
              k == it[n - 1]
  <2>5. PointsAt(s, Previous(s, k), at(n)) /\ From(s, at(n)) # {} /\ Min(From(s, at(n))) = at(n)
    <3>1. StandsAt(s, k, y) /\ y \in Int /\ {u \in TimesOf(s) : u < y} # {}
      BY <2>3, <2>4
    <3>2. Max({u \in TimesOf(s) : u < y}) = at(n)
      BY <2>4
    <3>. DEFINE p == Max({u \in TimesOf(s) : u < y})
    <3>. HIDE DEF y, k
    <3>3. PointsAt(s, Previous(s, k), p) /\ From(s, p) # {} /\ Min(From(s, p)) = p
      BY <3>1, PreviousPoints
    <3>. QED BY <3>2, <3>3
  <2>6. Right(n)
    BY <1>7, <2>5 DEF PointsAt
  <2>. HIDE DEF Right
  <2>. QED BY <2>1, <2>2, <2>6
<1>11. \A n \in 0 .. N : Right(n)
  <2>1. Holds \in SUBSET Nat
    OBVIOUS
  <2>2. N \in Holds
    <3>. HIDE DEF Holds
    <3>. QED BY <1>1, <1>9, <1>10, <2>1, Throughout
  <2>3. \A n \in 0 .. N : n \in 0 .. N
    OBVIOUS
  <2>. HIDE DEF Right
  <2>. QED BY <2>2
<1>12. ASSUME NEW n \in 0 .. N, n # N PROVE HasPrevious(it[n])
  <2>1. n + 1 \in 1 .. N /\ (n + 1) - 1 = n
    BY <1>1, <1>12
  <2>2. at(n) \in Int /\ {u \in TimesOf(s) : u < at(n)} # {}
    BY <1>8, <2>1
  <2>3. StandsAt(s, it[n], at(n))
    BY <1>11
  <2>. QED BY <2>2, <2>3, PreviousIsLatest
<1>13. Min(ends) = N
  <2>1. N \in 0 .. N
    BY <1>1
  <2>2. ends = {N}
    BY <1>7, <1>12, <2>1
  <2>3. ends \in SUBSET Int /\ N \in ends /\ \A y \in ends : N <= y
    BY <1>1, <2>2
  <2>. HIDE DEF ends
  <2>. QED BY <2>3, MinIs
<1>. HIDE DEF ends
<1>14. \A n \in 1 .. N : PeekNext(s, it[n]) = Nth(T, N + 1 - n)
  <2>. TAKE n \in 1 .. N
  <2>1. n \in 0 .. N /\ n # 0
    BY <1>1
  <2>. QED BY <1>11, <2>1 DEF at
<1>. HIDE DEF T
<1>. QED BY <1>2, <1>13, <1>14 DEF T, N

LEMMA BackInOrder ==
  ASSUME NEW s, SubOK(s)
  PROVE  LET back == VisitedBack(s)
         IN /\ Range(back) = TimesOf(s)
            /\ \A m, n \in DOMAIN back : m < n => back[m] > back[n]
<1>. DEFINE T    == TimesOf(s)
            N    == RowCount(s)
            back == VisitedBack(s)
<1>1. T \in SUBSET Int /\ IsFiniteSet(T) /\ N \in Nat /\ Cardinality(T) = N
  BY SubtableTimes, CountsOf, FS_CardinalityType
<1>2. back = [n \in 1 .. N |-> Nth(T, N + 1 - n)]
  BY VisitedBackIs
<1>. HIDE DEF T, N, back
<1>3. \A n \in 1 .. N : N + 1 - n \in 1 .. N /\ N + 1 - (N + 1 - n) = n
  BY <1>1
<1>4. \A n \in 1 .. N : Nth(T, N + 1 - n) \in T
  BY <1>1, <1>3, NthIs
<1>5. \A u \in T : \E n \in 1 .. N : Nth(T, N + 1 - n) = u
  <2>. TAKE u \in T
  <2>1. Rank(T, u) + 1 \in 1 .. N /\ Nth(T, Rank(T, u) + 1) = u
    BY <1>1, NthOfRank
  <2>. DEFINE k == Rank(T, u) + 1
  <2>. HIDE DEF k
  <2>2. k \in 1 .. N /\ Nth(T, k) = u
    BY <2>1 DEF k
  <2>3. N + 1 - k \in 1 .. N /\ N + 1 - (N + 1 - k) = k
    BY <1>3, <2>2
  <2>. QED BY <2>2, <2>3
<1>6. Range(back) = T
  BY <1>2, <1>4, <1>5 DEF Range
<1>7. ASSUME NEW m \in 1 .. N, NEW n \in 1 .. N, m < n PROVE back[m] > back[n]
  <2>1. N + 1 - n < N + 1 - m
    BY <1>1, <1>7
  <2>2. Nth(T, N + 1 - n) < Nth(T, N + 1 - m)
    BY <1>1, <1>3, <2>1, NthGrows
  <2>3. Nth(T, N + 1 - n) \in Int /\ Nth(T, N + 1 - m) \in Int
    BY <1>1, <1>4
  <2>. QED BY <1>2, <2>2, <2>3
<1>8. DOMAIN back = 1 .. N
  BY <1>2
<1>. QED BY <1>6, <1>7, <1>8 DEF T, back

LEMMA InvReadsInOrder ==
  ASSUME TableInv
  PROVE  ReadsInOrder
<1>1. ASSUME NEW s, SubOK(s), NEW t \in Time
      PROVE  LET before == {u \in TimesOf(s) : u <= t}
                 rows   == Visited(s, t)
                 back   == VisitedBack(s)
                 it     == LowerBound(s, t)
             IN /\ Range(rows) = {u \in TimesOf(s) : u >= t}
                /\ \A m, n \in DOMAIN rows : m < n => rows[m] < rows[n]
                /\ Range(back) = TimesOf(s)
                /\ \A m, n \in DOMAIN back : m < n => back[m] > back[n]
                /\ HasNext(s, it) => PeekNext(s, Previous(s, NextRow(s, it))) = PeekNext(s, it)
                /\ HasPrevious(it) => PeekNext(s, NextRow(s, Previous(s, it))) = PeekNext(s, it)
                /\ PeekNext(s, FindTimeAtOrBefore(s, t)) = IF before = {} THEN 0 ELSE Max(before)
  <2>. DEFINE F      == From(s, t)
              K      == Cardinality(F)
              before == {u \in TimesOf(s) : u <= t}
              rows   == Visited(s, t)
              back   == VisitedBack(s)
              it     == LowerBound(s, t)
  <2>1. t \in Int /\ TimesOf(s) \in SUBSET Int /\ IsFiniteSet(TimesOf(s))
    BY <1>1, SubtableTimes, CountsOf, TableAssumption
  <2>2. F \in SUBSET Int /\ IsFiniteSet(F) /\ K \in Nat
    <3>1. F \in SUBSET TimesOf(s)
      BY DEF From
    <3>. QED BY <2>1, <3>1, FS_Subset, FS_CardinalityType
  <2>3. rows = [n \in 1 .. K |-> Nth(F, n)]
    BY <1>1, <2>1, VisitedIs
  <2>. HIDE DEF rows
  <2>4. Range(rows) = F
    <3>. HIDE DEF F
    <3>1. \A n \in 1 .. K : Nth(F, n) \in F
      BY <2>2, NthIs
    <3>2. \A u \in F : \E n \in 1 .. K : Nth(F, n) = u
      BY <2>2, NthOfRank
    <3>. HIDE DEF K
    <3>. QED BY <2>3, <3>1, <3>2 DEF Range
  <2>5. \A m, n \in DOMAIN rows : m < n => rows[m] < rows[n]
    <3>. HIDE DEF F
    <3>1. \A m, n \in 1 .. K : m < n => Nth(F, m) < Nth(F, n)
      BY <2>2, NthGrows
    <3>. HIDE DEF K
    <3>. QED BY <2>3, <3>1
  <2>6. PointsAt(s, it, t)
    BY <1>1, <2>1, LowerBoundPoints
  <2>9. /\ HasNext(s, it) => PeekNext(s, Previous(s, NextRow(s, it))) = PeekNext(s, it)
        /\ HasPrevious(it) => PeekNext(s, NextRow(s, Previous(s, it))) = PeekNext(s, it)
    BY <1>1, <2>1, <2>6, ThereAndBack
  <2>10. /\ Range(back) = TimesOf(s)
         /\ \A m, n \in DOMAIN back : m < n => back[m] > back[n]
    BY <1>1, BackInOrder
  <2>. HIDE DEF it, back
  <2>7. CASE t \in TimesOf(s)
    <3>1. t \in F /\ \A u \in F : t <= u
      BY <2>1, <2>7 DEF From
    <3>2. Min(F) = t
      <4>. HIDE DEF F
      <4>. QED BY <2>2, <3>1, MinIs
    <3>3. HasNext(s, it) /\ PeekNext(s, it) = t
      BY <2>6, <3>1, <3>2 DEF PointsAt
    <3>4. FindTimeAtOrBefore(s, t) = it
      BY <3>3 DEF FindTimeAtOrBefore, it
    <3>5. t \in before /\ before \in SUBSET Int /\ \A u \in before : u <= t
      BY <2>1, <2>7
    <3>6. Max(before) = t
      <4>. HIDE DEF before
      <4>. QED BY <3>5, MaxIs
    <3>7. PeekNext(s, FindTimeAtOrBefore(s, t)) = IF before = {} THEN 0 ELSE Max(before)
      BY <3>3, <3>4, <3>5, <3>6
    <3>. QED BY <2>4, <2>5, <2>9, <2>10, <3>7 DEF From, rows, back, it
  <2>8. CASE t \notin TimesOf(s)
    <3>1. before = {u \in TimesOf(s) : u < t}
      BY <2>1, <2>8
    <3>2. ~(HasNext(s, it) /\ PeekNext(s, it) = t)
      <4>1. CASE F = {}
        BY <2>6, <4>1 DEF PointsAt
      <4>2. CASE F # {}
        <5>1. Min(F) \in F
          <6>. HIDE DEF F
          <6>. QED BY <2>2, <4>2, Extremes
        <5>2. Min(F) # t
          BY <2>8, <5>1 DEF From
        <5>. QED BY <2>6, <4>2, <5>2 DEF PointsAt
      <4>. QED BY <4>1, <4>2
    <3>3. FindTimeAtOrBefore(s, t) = IF HasPrevious(it) THEN Previous(s, it) ELSE End(s)
      BY <3>2 DEF FindTimeAtOrBefore, it
    <3>4. StandsAt(s, it, t)
      BY <2>6 DEF PointsAt
    <3>5. /\ HasPrevious(it) <=> before # {}
          /\ before # {} => PeekNext(s, Previous(s, it)) = Max(before)
      BY <1>1, <2>1, <3>1, <3>4, PreviousIsLatest
    <3>6. PeekNext(s, End(s)) = 0
      BY DEF PeekNext, End, AtEnd
    <3>. HIDE DEF before
    <3>7. PeekNext(s, FindTimeAtOrBefore(s, t)) = IF before = {} THEN 0 ELSE Max(before)
      BY <3>3, <3>5, <3>6
    <3>. QED BY <2>4, <2>5, <2>9, <2>10, <3>7 DEF From, rows, before, back, it
  <2>. QED BY <2>7, <2>8
<1>2. \A s \in Range(subtables) : SubOK(s)
  BY InvParts DEF Range
<1>. QED BY <1>1, <1>2 DEF ReadsInOrder

\* An iterator over the two bins of a subtable meets every row once and in order,
\* on its way back in the other order, stands before the same row after a step
\* there and back, and finds the last row at or before any time.
THEOREM ReadsAlwaysInOrder == Spec => []ReadsInOrder
<1>1. TableInv => ReadsInOrder
  BY InvReadsInOrder
<1>. QED BY <1>1, AlwaysInv, PTL
=============================================================================
