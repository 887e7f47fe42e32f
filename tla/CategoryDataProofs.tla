-------------------------- MODULE CategoryDataProofs --------------------------
(* Proofs about CategoryData, for every set of categories, values, times and   *)
(* limits, every width of the search and every bound on the entries.           *)
(*                                                                             *)
(* A lookup is exact because the range left behind is that of the place left   *)
(* behind, in entries that are in order: DataInv.  Listeners know what is      *)
(* shown because of what the value last reported says about the value shown,   *)
(* whatever has been done to the entries since: ListenedInv.                   *)
EXTENDS CategoryData, TimeSetsProofs, SequenceTheorems, FiniteSetTheorems

Times  == DataTimes \cup Now
Pairs  == [time : DataTimes, value : Value]
Ranges == [from : Int, to : Int]
States == [entries : Seq(Pairs), lastPos : 0 .. MaxEntries, range : Ranges,
           lastValue : Value \cup {NoValue}, lastTime : DataTimes \cup {Static}]

\* One entry for a time, in the order of time.
Sorted(entries) == \A i, j \in 1 .. Len(entries) : i < j => entries[i].time < entries[j].time

\* A range that is set is that of the place left behind.
RangeKnown(s) ==
  s.range # NoRange =>
    s.entries # <<>> /\ s.lastPos <= Len(s.entries) /\ s.range = RangeAt(s.entries, s.lastPos)

Good(s) == s \in States /\ Sorted(s.entries) /\ RangeKnown(s)

DataInv ==
  /\ data \in [Category -> States]
  /\ \A c \in Category : Good(data[c]) /\ Len(data[c].entries) <= MaxEntries
  /\ sliceTime \in Now \cup {0} /\ storeTime \in Now \cup {0}
  /\ limits \in LimitChoices /\ hasChanged \in BOOLEAN
  /\ listened \in [Category -> Value \cup {NoValue}]

\* What a listener knows of a category, as the last value reported tells it.
KnownFrom(s, known) ==
  /\ s.lastTime # Static => known = s.lastValue /\ known # NoValue
  /\ s.lastTime = Static /\ known # NoValue => known = s.lastValue /\ Default(s.entries) # <<>>
  /\ s.lastTime = Static /\ known = NoValue /\ s.entries # <<>> =>
       Default(s.entries) # <<Entry(Static, s.lastValue)>>
  /\ s.entries = <<>> => known = NoValue

ListenedInv ==
  /\ \A c \in Category : KnownFrom(data[c], listened[c])
  /\ cache # NoRange => listened = [c \in Category |-> At(data[c], sliceTime)]

-----------------------------------------------------------------------------
(* Sequences in order                                                        *)

LEMMA TimesBounded ==
  /\ DataTimes \subseteq -1 .. MaxDouble - 1 /\ Now \subseteq 0 .. MaxDouble - 1
  /\ MaxDouble \in Nat /\ Static = -1
  /\ DataTimes \subseteq Int /\ Now \subseteq Int /\ MaxEntries \in Nat
  /\ \A t \in Times : t \in Int /\ t < MaxDouble
<1>0. MaxEntries \in Nat
  BY CategoryAssumption
<1>1. /\ DataTimes \subseteq Nat \cup {Static} /\ Now \subseteq Nat
      /\ MaxDouble \in Nat /\ \A t \in DataTimes \cup Now : t < MaxDouble
  BY CategoryAssumption
<1>2. \A t \in DataTimes : t \in Int /\ t \in -1 .. MaxDouble - 1
  BY <1>1 DEF Static
<1>3. \A t \in Now : t \in Int /\ t \in 0 .. MaxDouble - 1
  BY <1>1
<1>4. \A t \in Times : t \in Int /\ t < MaxDouble
  BY <1>1 DEF Static, Times
<1>. QED BY <1>0, <1>1, <1>2, <1>3, <1>4 DEF Static

\* A part of a sequence in order is in order.
LEMMA PartSorted ==
  ASSUME NEW e \in Seq(Pairs), Sorted(e), NEW m \in 1 .. Len(e) + 1, NEW n \in m - 1 .. Len(e)
  PROVE  /\ SubSeq(e, m, n) \in Seq(Pairs) /\ Sorted(SubSeq(e, m, n))
         /\ Len(SubSeq(e, m, n)) = n - m + 1
         /\ \A i \in 1 .. n - m + 1 : SubSeq(e, m, n)[i] = e[m + i - 1]
<1>. DEFINE p == SubSeq(e, m, n)
<1>1. p \in Seq(Pairs) /\ Len(p) = n - m + 1 /\ \A i \in 1 .. n - m + 1 : p[i] = e[m + i - 1]
  OBVIOUS
<1>2. Len(e) \in Nat /\ m \in Int /\ n \in Int
  OBVIOUS
<1>. HIDE DEF p
<1>3. ASSUME NEW i \in 1 .. Len(p), NEW j \in 1 .. Len(p), i < j
      PROVE  p[i].time < p[j].time
  <2>1. p[i] = e[m + i - 1] /\ p[j] = e[m + j - 1]
    BY <1>1
  <2>2. m + i - 1 \in 1 .. Len(e) /\ m + j - 1 \in 1 .. Len(e) /\ m + i - 1 < m + j - 1
    BY <1>1, <1>2, <1>3
  <2>. QED BY <2>1, <2>2 DEF Sorted
<1>. QED BY <1>1, <1>3 DEF p, Sorted

\* What is left of a sequence in order.
LEMMA RestSorted ==
  ASSUME NEW e \in Seq(Pairs), Sorted(e), NEW at \in 0 .. Len(e)
  PROVE  /\ SubSeq(e, at + 1, Len(e)) \in Seq(Pairs) /\ Sorted(SubSeq(e, at + 1, Len(e)))
         /\ Len(SubSeq(e, at + 1, Len(e))) = Len(e) - at
         /\ \A i \in 1 .. Len(e) - at : SubSeq(e, at + 1, Len(e))[i] = e[at + i]
<1>. DEFINE m == at + 1
            n == Len(e)
            p == SubSeq(e, m, n)
<1>1. m \in 1 .. Len(e) + 1 /\ n \in m - 1 .. Len(e) /\ n - m + 1 = n - at /\ n \in Nat /\ m = at + 1
  OBVIOUS
<1>. HIDE DEF m
<1>2. /\ p \in Seq(Pairs) /\ Sorted(p) /\ Len(p) = n - m + 1
      /\ \A i \in 1 .. n - m + 1 : p[i] = e[m + i - 1]
  BY <1>1, PartSorted
<1>. HIDE DEF p, n
<1>3. \A i \in 1 .. n - at : p[i] = e[at + i]
  <2>1. \A i \in 1 .. n - at : m + i - 1 = at + i
    BY <1>1
  <2>. QED BY <1>1, <1>2, <2>1
<1>. QED BY <1>1, <1>2, <1>3 DEF p, n, m

\* Sequences in order, one before the other.
LEMMA JoinSorted ==
  ASSUME NEW a \in Seq(Pairs), NEW b \in Seq(Pairs), Sorted(a), Sorted(b),
         \A i \in 1 .. Len(a), j \in 1 .. Len(b) : a[i].time < b[j].time
  PROVE  /\ a \o b \in Seq(Pairs) /\ Sorted(a \o b) /\ Len(a \o b) = Len(a) + Len(b)
<1>. DEFINE p == a \o b
<1>1. p \in Seq(Pairs) /\ Len(p) = Len(a) + Len(b) /\ Len(a) \in Nat /\ Len(b) \in Nat
  OBVIOUS
<1>2. \A i \in 1 .. Len(p) : p[i] = IF i <= Len(a) THEN a[i] ELSE b[i - Len(a)]
  OBVIOUS
<1>. HIDE DEF p
<1>3. ASSUME NEW i \in 1 .. Len(p), NEW j \in 1 .. Len(p), i < j
      PROVE  p[i].time < p[j].time
  <2>1. CASE j <= Len(a)
    <3>1. p[i] = a[i] /\ p[j] = a[j] /\ i \in 1 .. Len(a) /\ j \in 1 .. Len(a)
      BY <1>1, <1>2, <1>3, <2>1
    <3>. QED BY <1>3, <3>1 DEF Sorted
  <2>2. CASE i <= Len(a) /\ ~(j <= Len(a))
    <3>1. p[i] = a[i] /\ p[j] = b[j - Len(a)] /\ i \in 1 .. Len(a) /\ j - Len(a) \in 1 .. Len(b)
      BY <1>1, <1>2, <1>3, <2>2
    <3>. QED BY <3>1
  <2>3. CASE ~(i <= Len(a))
    <3>1. /\ p[i] = b[i - Len(a)] /\ p[j] = b[j - Len(a)]
          /\ i - Len(a) \in 1 .. Len(b) /\ j - Len(a) \in 1 .. Len(b) /\ i - Len(a) < j - Len(a)
      BY <1>1, <1>2, <1>3, <2>3
    <3>. QED BY <3>1 DEF Sorted
  <2>. QED BY <1>1, <2>1, <2>2, <2>3
<1>. QED BY <1>1, <1>3 DEF p, Sorted

-----------------------------------------------------------------------------
(* Bounds                                                                    *)

\* Times of entries are integers.
LEMMA EntryTimes ==
  ASSUME NEW e \in Seq(Pairs)
  PROVE  /\ Len(e) \in Nat /\ DOMAIN e = 1 .. Len(e)
         /\ \A i \in 1 .. Len(e) : /\ e[i] \in Pairs /\ e[i].time \in DataTimes /\ e[i].time \in Int
                                   /\ -1 <= e[i].time /\ e[i].time < MaxDouble /\ e[i].value \in Value
<1>1. \A i \in 1 .. Len(e) : e[i] \in Pairs
  OBVIOUS
<1>2. \A t \in DataTimes : t \in Int /\ -1 <= t /\ t < MaxDouble
  BY TimesBounded
<1>. QED BY <1>1, <1>2 DEF Pairs

\* The upper bound is the place with the earlier entries before it.
LEMMA UpperIs ==
  ASSUME NEW e \in Seq(Pairs), Sorted(e), NEW t \in Int, NEW k \in 0 .. Len(e),
         k > 0 => e[k].time <= t, k < Len(e) => e[k + 1].time > t
  PROVE  UpperBound(e, t) = k
<1>1. /\ Len(e) \in Nat /\ DOMAIN e = 1 .. Len(e) /\ \A i \in 1 .. Len(e) : e[i].time \in Int
  BY EntryTimes
<1>2. ASSUME NEW i \in 1 .. Len(e) PROVE e[i].time <= t <=> i \in 1 .. k
  <2>1. CASE i < k
    <3>1. k \in 1 .. Len(e) /\ e[i].time < e[k].time /\ e[k].time <= t
      BY <1>1, <2>1 DEF Sorted
    <3>. QED BY <1>1, <2>1, <3>1
  <2>2. CASE i = k
    BY <1>1, <2>2
  <2>3. CASE i = k + 1
    BY <1>1, <2>3
  <2>4. CASE i > k + 1
    <3>1. k + 1 \in 1 .. Len(e) /\ e[k + 1].time < e[i].time /\ e[k + 1].time > t
      BY <1>1, <2>4 DEF Sorted
    <3>. QED BY <1>1, <2>4, <3>1
  <2>. QED BY <1>1, <2>1, <2>2, <2>3, <2>4
<1>3. {i \in DOMAIN e : e[i].time <= t} = 1 .. k
  BY <1>1, <1>2
<1>4. Cardinality(1 .. k) = k
  <2>1. k \in Int /\ 1 \in Int /\ (1 <= k => k - 1 + 1 = k) /\ (~(1 <= k) => k = 0)
    BY <1>1
  <2>. QED BY <2>1, FS_Interval
<1>. QED BY <1>3, <1>4 DEF UpperBound

\* There is such a place.
LEMMA UpperExists ==
  ASSUME NEW e \in Seq(Pairs), Sorted(e), NEW t \in Int
  PROVE  /\ UpperBound(e, t) \in 0 .. Len(e)
         /\ UpperBound(e, t) > 0 => e[UpperBound(e, t)].time <= t
         /\ UpperBound(e, t) < Len(e) => e[UpperBound(e, t) + 1].time > t
<1>. DEFINE S == {i \in 1 .. Len(e) : e[i].time <= t}
<1>1. /\ Len(e) \in Nat /\ \A i \in 1 .. Len(e) : e[i].time \in Int
  BY EntryTimes
<1>2. \E k \in 0 .. Len(e) : (k > 0 => e[k].time <= t) /\ (k < Len(e) => e[k + 1].time > t)
  <2>1. CASE S = {}
    <3>1. 0 < Len(e) => 1 \in 1 .. Len(e) /\ e[1].time > t
      BY <1>1, <2>1
    <3>2. 0 \in 0 .. Len(e) /\ ~(0 > 0) /\ 0 + 1 = 1
      BY <1>1
    <3>. QED BY <3>1, <3>2
  <2>2. CASE S # {}
    <3>1. S \in SUBSET (1 .. Len(e)) /\ 1 \in Int /\ Len(e) \in Int
      BY <1>1
    <3>2. Greatest(S) # {}
      <4>. HIDE DEF S
      <4>. QED BY <2>2, <3>1, BoundedExtremes
    <3>3. PICK k \in S : \A q \in S : q <= k
      BY <3>2, TheGreatest
    <3>4. k \in 1 .. Len(e) /\ e[k].time <= t
      OBVIOUS
    <3>5. k < Len(e) => e[k + 1].time > t
      BY <1>1, <3>3, <3>4
    <3>. QED BY <3>4, <3>5
  <2>. QED BY <2>1, <2>2
<1>. QED BY <1>2, UpperIs

LEMMA LowerType ==
  ASSUME NEW e \in Seq(Pairs), NEW t
  PROVE  /\ LowerBound(e, t) \in 0 .. Len(e)
         /\ Len(e) > 0 /\ e[1].time < t => LowerBound(e, t) > 0
<1>. DEFINE S == {i \in DOMAIN e : e[i].time < t}
<1>1. Len(e) \in Nat /\ DOMAIN e = 1 .. Len(e)
  BY EntryTimes
<1>2. IsFiniteSet(1 .. Len(e)) /\ Cardinality(1 .. Len(e)) = Len(e)
  BY <1>1, FS_Interval
<1>3. S \in SUBSET (1 .. Len(e))
  BY <1>1
<1>4. IsFiniteSet(S) /\ Cardinality(S) \in Nat /\ Cardinality(S) <= Len(e)
  BY <1>2, <1>3, FS_Subset, FS_CardinalityType
<1>5. Len(e) > 0 /\ e[1].time < t => 1 \in S
  BY <1>1
<1>6. 1 \in S => Cardinality(S) # 0
  BY <1>4, FS_EmptySet
<1>. QED BY <1>1, <1>4, <1>5, <1>6 DEF LowerBound

-----------------------------------------------------------------------------
(* Lookups                                                                   *)

\* Each way out of the search answers with the upper bound.
LEMMA SearchExact ==
  ASSUME NEW e \in Seq(Pairs), Sorted(e), NEW t \in Int,
         NEW at \in 0 .. Len(e), e # <<>> => at < Len(e)
  PROVE  SearchFrom(e, at, t) = UpperBound(e, t)
<1>. DEFINE n       == Len(e)
            ahead   == {i \in at .. n - 1 : i < at + FastSearchWidth /\ e[i + 1].time > t}
            behind  == {i \in 1 .. at - 1 : i >= at - FastSearchWidth /\ e[i + 1].time <= t}
<1>0. /\ n \in Nat /\ \A i \in 1 .. n : e[i].time \in Int
      /\ FastSearchWidth \in Nat \ {0} /\ at \in Nat
  <2>1. n \in Nat /\ \A i \in 1 .. n : e[i].time \in Int
    BY EntryTimes
  <2>2. FastSearchWidth \in Nat \ {0}
    BY CategoryAssumption
  <2>. QED BY <2>1, <2>2
<1>1. SearchFrom(e, at, t) =
        IF at = n THEN UpperBound(e, t)
        ELSE IF e[at + 1].time <= t
        THEN IF ahead # {} THEN Min(ahead)
             ELSE IF at + FastSearchWidth >= n THEN n ELSE UpperBound(e, t)
        ELSE IF behind # {} THEN Max(behind) + 1
             ELSE IF BeginSeen(at) THEN IF e[0 + 1].time <= t THEN 1 ELSE 0
             ELSE UpperBound(e, t)
  BY DEF SearchFrom
<1>2. CASE at = n
  BY <1>1, <1>2
<1>3. CASE at < n /\ e[at + 1].time <= t /\ ahead # {}
  <2>1. ahead \in SUBSET (at .. n - 1) /\ at \in Int /\ n - 1 \in Int
    BY <1>0
  <2>2. Least(ahead) # {}
    <3>. HIDE DEF ahead
    <3>. QED BY <1>3, <2>1, BoundedExtremes
  <2>3. Min(ahead) \in ahead /\ \A q \in ahead : Min(ahead) <= q
    <3>. HIDE DEF ahead
    <3>. QED BY <2>2 DEF Min, Least
  <2>. DEFINE k == Min(ahead)
  <2>4. k \in at .. n - 1 /\ k < at + FastSearchWidth /\ e[k + 1].time > t /\ k \in 0 .. n
    BY <1>0, <2>3
  <2>5. k > 0 => e[k].time <= t
    <3>1. k # at
      <4>1. e[at + 1].time \in Int
        BY <1>0, <1>3
      <4>2. ~(e[at + 1].time > t)
        BY <1>3, <4>1
      <4>. HIDE DEF k
      <4>. QED BY <2>4, <4>2
    <3>2. k - 1 \in at .. n - 1 /\ k - 1 < at + FastSearchWidth /\ k - 1 + 1 = k /\ ~(k <= k - 1)
      <4>. HIDE DEF k
      <4>. QED BY <1>0, <2>4, <3>1
    <3>3. k - 1 \notin ahead
      BY <2>3, <3>2
    <3>4. ~(e[k].time > t)
      <4>. HIDE DEF k
      <4>. QED BY <3>2, <3>3
    <3>5. k \in 1 .. n
      <4>. HIDE DEF k
      <4>. QED BY <1>0, <2>4, <3>1
    <3>. QED BY <1>0, <3>4, <3>5
  <2>. HIDE DEF k
  <2>6. UpperBound(e, t) = k
    BY <2>4, <2>5, UpperIs
  <2>. QED BY <1>1, <1>3, <2>6 DEF k
<1>4. CASE at < n /\ e[at + 1].time <= t /\ ahead = {} /\ at + FastSearchWidth >= n
  <2>1. n - 1 \in at .. n - 1 /\ n - 1 < at + FastSearchWidth /\ n - 1 + 1 = n /\ n \in 1 .. n /\ n \in 0 .. n
    BY <1>0, <1>4
  <2>2. n - 1 \notin ahead
    BY <1>4
  <2>3. e[n].time <= t
    BY <1>0, <2>1, <2>2
  <2>4. UpperBound(e, t) = n
    <3>1. ~(n < n)
      BY <1>0
    <3>. QED BY <2>1, <2>3, <3>1, UpperIs
  <2>. QED BY <1>0, <1>1, <1>4, <2>4
<1>5. CASE at < n /\ e[at + 1].time <= t /\ ahead = {} /\ ~(at + FastSearchWidth >= n)
  BY <1>0, <1>1, <1>5
<1>6. CASE at < n /\ ~(e[at + 1].time <= t) /\ behind # {}
  <2>1. behind \in SUBSET (1 .. at - 1) /\ 1 \in Int /\ at - 1 \in Int
    BY <1>0
  <2>2. Greatest(behind) # {}
    <3>. HIDE DEF behind
    <3>. QED BY <1>6, <2>1, BoundedExtremes
  <2>3. Max(behind) \in behind /\ \A q \in behind : q <= Max(behind)
    <3>1. \A q \in behind, x \in behind : q <= x <=> x >= q
      BY <1>0
    <3>2. \E x \in behind : \A q \in behind : x >= q
      <4>. HIDE DEF behind
      <4>. QED BY <2>2, <3>1 DEF Greatest
    <3>3. Max(behind) \in behind /\ \A q \in behind : Max(behind) >= q
      <4>. HIDE DEF behind
      <4>. QED BY <3>2 DEF Max
    <3>. QED BY <3>1, <3>3
  <2>. DEFINE k == Max(behind)
  <2>4. k \in 1 .. at - 1 /\ k >= at - FastSearchWidth /\ e[k + 1].time <= t
    BY <1>0, <2>3
  <2>5. k + 1 < n => e[k + 2].time > t
    <3>1. CASE k + 1 = at
      <4>. HIDE DEF k
      <4>1. k + 2 = at + 1 /\ at + 1 \in 1 .. n
        BY <1>0, <1>6, <2>4, <3>1
      <4>. QED BY <1>0, <1>6, <4>1
    <3>2. CASE k + 1 # at
      <4>1. k + 1 \in 1 .. at - 1 /\ k + 1 >= at - FastSearchWidth /\ k + 1 + 1 = k + 2 /\ ~(k + 1 <= k) /\ k + 2 \in 1 .. n
        <5>. HIDE DEF k
        <5>. QED BY <1>0, <1>6, <2>4, <3>2, SMTT(30)
      <4>2. k + 1 \notin behind
        BY <2>3, <4>1
      <4>3. ~(e[k + 2].time <= t)
        <5>. HIDE DEF k
        <5>. QED BY <4>1, <4>2
      <4>. QED BY <1>0, <4>1, <4>3
    <3>. QED BY <3>1, <3>2
  <2>. HIDE DEF k
  <2>6. k + 1 \in 0 .. n /\ k + 1 > 0 /\ k + 1 + 1 = k + 2
    BY <1>0, <1>6, <2>4
  <2>7. UpperBound(e, t) = k + 1
    BY <2>4, <2>5, <2>6, UpperIs
  <2>. QED BY <1>0, <1>1, <1>6, <2>7 DEF k
<1>7. CASE at < n /\ ~(e[at + 1].time <= t) /\ behind = {} /\ BeginSeen(at)
  <2>1. at <= FastSearchWidth + 1 /\ e[at + 1].time > t /\ at + 1 \in 1 .. n /\ 1 \in 1 .. n
    BY <1>0, <1>7 DEF BeginSeen
  <2>2. CASE e[1].time <= t
    <3>1. at # 0
      BY <1>0, <1>7, <2>2
    <3>2. 1 < n => e[2].time > t
      <4>1. CASE at = 1
        BY <2>1, <4>1
      <4>2. CASE at # 1
        <5>1. 1 \in 1 .. at - 1 /\ 1 >= at - FastSearchWidth /\ 1 \notin behind /\ 2 \in 1 .. n /\ 1 + 1 = 2
          BY <1>0, <1>7, <2>1, <3>1, <4>2
        <5>2. ~(e[2].time <= t)
          BY <5>1
        <5>. QED BY <1>0, <5>1, <5>2
      <4>. QED BY <4>1, <4>2
    <3>3. 1 \in 0 .. n /\ 1 > 0 /\ 1 + 1 = 2
      BY <1>0, <1>7
    <3>4. UpperBound(e, t) = 1
      BY <2>2, <3>2, <3>3, UpperIs
    <3>. QED BY <1>0, <1>1, <1>7, <2>2, <3>4
  <2>3. CASE ~(e[1].time <= t)
    <3>1. 0 \in 0 .. n /\ ~(0 > 0) /\ e[0 + 1].time > t
      BY <1>0, <2>1, <2>3
    <3>2. UpperBound(e, t) = 0
      BY <3>1, UpperIs
    <3>. QED BY <1>0, <1>1, <1>7, <2>3, <3>2
  <2>. QED BY <2>2, <2>3
<1>8. CASE at < n /\ ~(e[at + 1].time <= t) /\ behind = {} /\ ~BeginSeen(at)
  BY <1>0, <1>1, <1>8
<1>9. at = n \/ at < n
  BY <1>0
<1>. HIDE DEF n, ahead, behind
<1>. QED BY <1>2, <1>3, <1>4, <1>5, <1>6, <1>7, <1>8, <1>9

\* The place CheckPosition gives is one of an entry, if there is one.
LEMMA PositionChecked ==
  ASSUME NEW e \in Seq(Pairs), NEW at \in Nat
  PROVE  CheckPosition(e, at) \in 0 .. Len(e) /\ (e # <<>> => CheckPosition(e, at) < Len(e))
<1>1. Len(e) \in Nat /\ (e # <<>> => Len(e) > 0)
  BY EmptySeq
<1>2. Max({Len(e) - 1, 0}) = IF Len(e) > 0 THEN Len(e) - 1 ELSE 0
  <2>1. ASSUME NEW m \in {Len(e) - 1, 0}, \A y \in {Len(e) - 1, 0} : m >= y
        PROVE  m = IF Len(e) > 0 THEN Len(e) - 1 ELSE 0
    BY <1>1, <2>1
  <2>2. \E m \in {Len(e) - 1, 0} : \A y \in {Len(e) - 1, 0} : m >= y
    BY <1>1
  <2>. QED BY <2>1, <2>2 DEF Max
<1>. QED BY <1>1, <1>2 DEF CheckPosition

\* The range of a place is a range, and that of no other place.
LEMMA RangeIs ==
  ASSUME NEW e \in Seq(Pairs), Sorted(e), NEW at \in 0 .. Len(e)
  PROVE  /\ RangeAt(e, at) \in Ranges
         /\ \A t \in Times : In(t, RangeAt(e, at)) => UpperBound(e, t) = at
<1>1. /\ Len(e) \in Nat /\ \A i \in 1 .. Len(e) : e[i].time \in Int
      /\ \A t \in Times : t \in Int
  BY EntryTimes, TimesBounded DEF Times
<1>2. NoRange \in Ranges
  BY TimesBounded DEF NoRange, Ranges
<1>3. CASE e = <<>>
  <2>1. \A t \in Times : ~In(t, NoRange)
    <3>1. \A t \in Times : t < MaxDouble /\ t \in Int /\ MaxDouble \in Int
      BY TimesBounded
    <3>. QED BY <3>1 DEF In, NoRange
  <2>. QED BY <1>2, <1>3, <2>1 DEF RangeAt
<1>4. CASE e # <<>>
  <2>. DEFINE r == RangeAt(e, at)
  <2>1. /\ r.from = IF at = 0 THEN 0 ELSE e[at].time
        /\ r.to = IF at = Len(e) THEN MaxDouble ELSE e[at + 1].time
        /\ r = [from |-> r.from, to |-> r.to]
    BY <1>4 DEF RangeAt
  <2>2. /\ at # 0 => at \in 1 .. Len(e)
        /\ at # Len(e) => at + 1 \in 1 .. Len(e)
    BY <1>1
  <2>3. MaxDouble \in Int
    BY TimesBounded
  <2>. HIDE DEF r
  <2>4. r.from \in Int /\ r.to \in Int
    BY <1>1, <2>1, <2>2, <2>3
  <2>5. r \in Ranges
    BY <2>1, <2>4 DEF Ranges
  <2>6. ASSUME NEW t \in Times, In(t, r) PROVE UpperBound(e, t) = at
    <3>1. r.from <= t /\ t < r.to /\ t \in Int
      BY <1>1, <2>6 DEF In
    <3>2. at > 0 => e[at].time <= t
      BY <1>1, <2>1, <3>1
    <3>3. at < Len(e) => e[at + 1].time > t
      BY <1>1, <2>1, <2>2, <3>1
    <3>. QED BY <3>1, <3>2, <3>3, UpperIs
  <2>. QED BY <2>5, <2>6 DEF r
<1>. QED BY <1>3, <1>4

\* What a change of the place and the range keeps.
Same(s, q) == q.entries = s.entries /\ q.lastValue = s.lastValue /\ q.lastTime = s.lastTime

\* A lookup leaves the place of its time and the range of that place.
LEMMA LookupIs ==
  ASSUME NEW s, Good(s), Len(s.entries) <= MaxEntries, NEW t \in Times
  PROVE  /\ Good(Lookup(s, t)) /\ Same(s, Lookup(s, t))
         /\ Lookup(s, t).lastPos = UpperBound(s.entries, t)
<1>. DEFINE e  == s.entries
            at == SearchFrom(e, CheckPosition(e, s.lastPos), t)
<1>1. /\ e \in Seq(Pairs) /\ Sorted(e) /\ s.lastPos \in Nat /\ t \in Int /\ s.range \in Ranges
      /\ s \in States /\ RangeKnown(s) /\ MaxEntries \in Nat /\ Len(e) \in Nat
  <2>1. t \in Int /\ MaxEntries \in Nat
    BY TimesBounded
  <2>2. s \in States /\ Sorted(s.entries) /\ RangeKnown(s)
    BY DEF Good
  <2>3. s.entries \in Seq(Pairs) /\ s.range \in Ranges /\ s.lastPos \in 0 .. MaxEntries
    BY <2>2 DEF States
  <2>4. Len(s.entries) \in Nat
    BY <2>3, EntryTimes
  <2>. QED BY <2>1, <2>2, <2>3, <2>4
<1>2. CASE In(t, s.range)
  <2>1. s.range # NoRange
    <3>1. t < MaxDouble /\ t \in Int /\ MaxDouble \in Int
      BY TimesBounded
    <3>. QED BY <1>2, <3>1 DEF In, NoRange
  <2>2. s.lastPos \in 0 .. Len(e) /\ s.range = RangeAt(e, s.lastPos)
    BY <1>1, <2>1 DEF RangeKnown
  <2>3. UpperBound(e, t) = s.lastPos
    BY <1>1, <1>2, <2>2, RangeIs
  <2>. QED BY <1>2, <2>3 DEF Lookup, Same
<1>3. CASE ~In(t, s.range)
  <2>1. at = UpperBound(e, t) /\ at \in 0 .. Len(e)
    BY <1>1, PositionChecked, SearchExact, UpperExists
  <2>2. Lookup(s, t) = [s EXCEPT !.lastPos = at, !.range = RangeAt(e, at)]
    BY <1>3 DEF Lookup
  <2>3. RangeAt(e, at) \in Ranges
    BY <1>1, <2>1, RangeIs
  <2>4. at \in 0 .. MaxEntries
    BY <1>1, <2>1
  <2>5. e = <<>> => RangeAt(e, at) = NoRange
    BY DEF RangeAt
  <2>. HIDE DEF at, e
  <2>6. /\ Lookup(s, t) \in States /\ Lookup(s, t).lastPos = at /\ Lookup(s, t).range = RangeAt(e, at)
        /\ Lookup(s, t).entries = s.entries /\ Lookup(s, t).lastValue = s.lastValue
        /\ Lookup(s, t).lastTime = s.lastTime
    BY <1>1, <2>2, <2>3, <2>4 DEF States
  <2>. QED BY <1>1, <2>1, <2>5, <2>6 DEF Good, RangeKnown, Same, e
<1>. QED BY <1>2, <1>3

-----------------------------------------------------------------------------
(* Changes                                                                   *)

\* What a change of the entries keeps.
Kept(s, q) == q.lastValue = s.lastValue /\ q.lastTime = s.lastTime

\* Entries are taken away, or none is.
Shrunk(s, q) == Good(q) /\ Kept(s, q) /\ Len(q.entries) <= Len(s.entries)

LEMMA WithIs ==
  ASSUME NEW s, Good(s), NEW e \in Seq(Pairs), Sorted(e)
  PROVE  Good(With(s, e)) /\ Kept(s, With(s, e)) /\ With(s, e).entries = e
<1>1. s \in States /\ NoRange \in Ranges
  BY TimesBounded DEF Good, NoRange, Ranges
<1>2. /\ With(s, e) \in States /\ With(s, e).entries = e /\ With(s, e).range = NoRange
      /\ With(s, e).lastValue = s.lastValue /\ With(s, e).lastTime = s.lastTime
  BY <1>1 DEF With, States
<1>. QED BY <1>2 DEF Good, RangeKnown, Kept

\* The facts about a good state that the changes use.
LEMMA GoodIs ==
  ASSUME NEW s, Good(s)
  PROVE  /\ s \in States /\ s.entries \in Seq(Pairs) /\ Sorted(s.entries) /\ Len(s.entries) \in Nat
         /\ s.lastPos \in 0 .. MaxEntries /\ RangeKnown(s)
         /\ Shrunk(s, s)
<1>1. s \in States /\ Sorted(s.entries) /\ RangeKnown(s)
  BY DEF Good
<1>2. s.entries \in Seq(Pairs) /\ s.lastPos \in 0 .. MaxEntries
  BY <1>1 DEF States
<1>3. Len(s.entries) \in Nat
  BY <1>2, EntryTimes
<1>. QED BY <1>1, <1>2, <1>3 DEF Shrunk, Kept

\* One entry between the earlier and the later ones.
LEMMA InsertSorted ==
  ASSUME NEW e \in Seq(Pairs), Sorted(e), NEW at \in 0 .. Len(e), NEW p \in Pairs,
         at > 0 => e[at].time < p.time, at < Len(e) => p.time < e[at + 1].time
  PROVE  InsertAt(e, at + 1, p) \in Seq(Pairs) /\ Sorted(InsertAt(e, at + 1, p))
<1>. DEFINE a == SubSeq(e, 1, at)
            b == SubSeq(e, at + 1, Len(e))
            o == <<p>>
<1>0. /\ Len(e) \in Nat /\ \A i \in 1 .. Len(e) : e[i].time \in Int
      /\ p.time \in Int
  <2>1. p.time \in DataTimes
    BY DEF Pairs
  <2>. QED BY <2>1, EntryTimes, TimesBounded
<1>1. /\ a \in Seq(Pairs) /\ Sorted(a) /\ Len(a) = at /\ \A i \in 1 .. at : a[i] = e[i]
  <2>1. 1 \in 1 .. Len(e) + 1 /\ at \in 1 - 1 .. Len(e) /\ at - 1 + 1 = at /\ \A i \in 1 .. at : 1 + i - 1 = i
    BY <1>0
  <2>. QED BY <2>1, PartSorted
<1>2. /\ b \in Seq(Pairs) /\ Sorted(b) /\ Len(b) = Len(e) - at
      /\ \A i \in 1 .. Len(e) - at : b[i] = e[at + i]
  BY RestSorted
<1>3. o \in Seq(Pairs) /\ Len(o) = 1 /\ o[1] = p /\ Sorted(o)
  <2>1. o \in Seq(Pairs) /\ Len(o) = 1 /\ o[1] = p
    OBVIOUS
  <2>2. \A i, j \in 1 .. 1 : ~(i < j)
    OBVIOUS
  <2>. HIDE DEF o
  <2>. QED BY <2>1, <2>2 DEF Sorted
<1>4. InsertAt(e, at + 1, p) = (a \o o) \o b
  <2>. DEFINE k == at + 1
  <2>1. k - 1 = at /\ k = at + 1
    BY <1>0
  <2>. HIDE DEF k
  <2>2. InsertAt(e, k, p) = (SubSeq(e, 1, k - 1) \o <<p>>) \o SubSeq(e, k, Len(e))
    BY DEF InsertAt
  <2>3. InsertAt(e, k, p) = (SubSeq(e, 1, at) \o <<p>>) \o SubSeq(e, at + 1, Len(e))
    BY <2>1, <2>2, Zenon
  <2>. QED BY <2>1, <2>3, Zenon
<1>. HIDE DEF a, b, o
<1>5. \A i \in 1 .. at : e[i].time < p.time
  <2>1. ASSUME NEW i \in 1 .. at, i # at PROVE e[i].time < e[at].time
    BY <1>0, <2>1 DEF Sorted
  <2>. QED BY <1>0, <2>1
<1>6. \A i \in 1 .. Len(e) - at : p.time < e[at + i].time
  <2>1. ASSUME NEW i \in 1 .. Len(e) - at, i # 1
        PROVE  e[at + 1].time < e[at + i].time
    <3>1. at + 1 \in 1 .. Len(e) /\ at + i \in 1 .. Len(e) /\ at + 1 < at + i
      BY <1>0, <2>1
    <3>. QED BY <3>1 DEF Sorted
  <2>2. ASSUME NEW i \in 1 .. Len(e) - at PROVE p.time < e[at + i].time
    <3>1. at < Len(e) /\ at + 1 \in 1 .. Len(e) /\ at + i \in 1 .. Len(e)
      BY <1>0, <2>2
    <3>2. p.time < e[at + 1].time
      BY <3>1
    <3>3. CASE i = 1
      BY <3>2, <3>3
    <3>4. CASE i # 1
      <4>1. e[at + 1].time < e[at + i].time
        BY <2>1, <3>4
      <4>. QED BY <1>0, <3>1, <3>2, <4>1
    <3>. QED BY <3>3, <3>4
  <2>. QED BY <2>2
<1>7. a \o o \in Seq(Pairs) /\ Sorted(a \o o) /\ Len(a \o o) = at + 1
  <2>1. \A i \in 1 .. Len(a), j \in 1 .. Len(o) : a[i].time < o[j].time
    <3>1. \A j \in 1 .. Len(o) : o[j] = p
      BY <1>3
    <3>. QED BY <1>1, <1>5, <3>1
  <2>. QED BY <1>1, <1>3, <2>1, JoinSorted
<1>8. \A i \in 1 .. Len(a \o o), j \in 1 .. Len(b) : (a \o o)[i].time < b[j].time
  <2>1. ASSUME NEW i \in 1 .. Len(a \o o) PROVE (a \o o)[i].time <= p.time /\ (a \o o)[i].time \in Int
    <3>1. (a \o o)[i] = IF i <= at THEN a[i] ELSE o[i - at]
      BY <1>1, <1>3
    <3>2. i \in 1 .. at \/ i = at + 1
      BY <1>0, <1>7
    <3>3. CASE i \in 1 .. at
      <4>1. (a \o o)[i] = e[i] /\ i \in 1 .. Len(e)
        BY <1>0, <1>1, <3>1, <3>3
      <4>2. e[i].time < p.time /\ e[i].time \in Int
        BY <1>0, <1>5, <3>3, <4>1
      <4>. QED BY <1>0, <4>1, <4>2
    <3>4. CASE i = at + 1
      <4>1. i - at = 1 /\ ~(i <= at)
        BY <3>4
      <4>2. (a \o o)[i] = p
        BY <1>3, <3>1, <4>1
      <4>. QED BY <1>0, <4>2
    <3>. QED BY <3>2, <3>3, <3>4
  <2>2. ASSUME NEW j \in 1 .. Len(b) PROVE p.time < b[j].time /\ b[j].time \in Int
    <3>1. j \in 1 .. Len(e) - at /\ b[j] = e[at + j] /\ at + j \in 1 .. Len(e)
      BY <1>0, <1>2
    <3>. QED BY <1>0, <1>6, <3>1
  <2>3. ASSUME NEW i \in 1 .. Len(a \o o), NEW j \in 1 .. Len(b)
        PROVE  (a \o o)[i].time < b[j].time
    BY <1>0, <2>1, <2>2
  <2>. QED BY <2>3
<1>. QED BY <1>2, <1>4, <1>7, <1>8, JoinSorted

\* An insert puts one entry in its place, or changes the value of one.
LEMMA InsertIs ==
  ASSUME NEW s, Good(s), Len(s.entries) <= MaxEntries, NEW t \in DataTimes, NEW v \in Value
  PROVE  Good(Insert(s, t, v)) /\ Kept(s, Insert(s, t, v))
<1>. DEFINE e     == s.entries
            found == Lookup(s, t)
            at    == found.lastPos
            p     == Entry(t, v)
<1>0. e \in Seq(Pairs) /\ Sorted(e) /\ Len(e) \in Nat
  BY GoodIs
<1>1. /\ Good(found) /\ found.entries = e /\ Kept(s, found)
      /\ at = UpperBound(e, t)
  BY LookupIs DEF Same, Kept, Times
<1>2. p \in Pairs /\ p.time = t /\ t \in Int
  BY TimesBounded DEF Entry, Pairs
<1>3. at \in 0 .. Len(e) /\ (at > 0 => e[at].time <= t) /\ (at < Len(e) => e[at + 1].time > t)
  BY <1>0, <1>1, <1>2, UpperExists
<1>4. \A i \in 1 .. Len(e) : e[i].time \in Int
  BY <1>0, EntryTimes
<1>5. Insert(s, t, v) = IF e = <<>> \/ Last(e).time < t THEN With(s, Append(e, p))
                        ELSE IF at > 0 /\ e[at].time = t THEN [found EXCEPT !.entries[at].value = v]
                        ELSE With(found, InsertAt(e, at + 1, p))
  BY DEF Insert
<1>. HIDE DEF e, found, at, p
<1>6. CASE e = <<>> \/ Last(e).time < t
  <2>. DEFINE q == Append(e, p)
  <2>1. q \in Seq(Pairs) /\ Len(q) = Len(e) + 1 /\ q[Len(e) + 1] = p /\ \A i \in 1 .. Len(e) : q[i] = e[i]
    BY <1>0, <1>2
  <2>. HIDE DEF q
  <2>2. \A i \in 1 .. Len(e) : e[i].time < t
    <3>1. ASSUME NEW i \in 1 .. Len(e) PROVE e[i].time < t
      <4>1. Last(e) = e[Len(e)] /\ Len(e) \in 1 .. Len(e) /\ e # <<>>
        BY <1>0 DEF Last
      <4>2. i = Len(e) \/ e[i].time < e[Len(e)].time
        BY <1>0, <4>1 DEF Sorted
      <4>. QED BY <1>2, <1>4, <1>6, <4>1, <4>2
    <3>. QED BY <3>1
  <2>3. ASSUME NEW i \in 1 .. Len(q), NEW j \in 1 .. Len(q), i < j PROVE q[i].time < q[j].time
    <3>1. i \in 1 .. Len(e) /\ (j \in 1 .. Len(e) \/ j = Len(e) + 1)
      BY <1>0, <2>1, <2>3
    <3>2. CASE j \in 1 .. Len(e)
      BY <1>0, <2>1, <2>3, <3>1, <3>2 DEF Sorted
    <3>3. CASE j = Len(e) + 1
      BY <1>2, <2>1, <2>2, <3>1, <3>3
    <3>. QED BY <3>1, <3>2, <3>3
  <2>4. Sorted(q)
    BY <2>3 DEF Sorted
  <2>5. Insert(s, t, v) = With(s, q)
    BY <1>5, <1>6 DEF q
  <2>. QED BY <2>1, <2>4, <2>5, WithIs
<1>7. CASE ~(e = <<>> \/ Last(e).time < t) /\ at > 0 /\ e[at].time = t
  <2>. DEFINE q == [e EXCEPT ![at].value = v]
  <2>1. at \in 1 .. Len(e)
    BY <1>0, <1>3, <1>7
  <2>2. e[at] \in Pairs
    BY <1>0, <2>1
  <2>3. [e[at] EXCEPT !.value = v] \in Pairs /\ [e[at] EXCEPT !.value = v].time = e[at].time
    BY <2>2 DEF Pairs
  <2>4. /\ q \in Seq(Pairs) /\ Len(q) = Len(e)
        /\ \A i \in 1 .. Len(e) : q[i] = IF i = at THEN [e[at] EXCEPT !.value = v] ELSE e[i]
    BY <1>0, <2>1, <2>3
  <2>. HIDE DEF q
  <2>5. \A i \in 1 .. Len(e) : q[i].time = e[i].time
    BY <2>3, <2>4
  <2>6. Sorted(q)
    BY <1>0, <2>4, <2>5 DEF Sorted
  <2>7. \A i \in 0 .. Len(e) : RangeAt(q, i) = RangeAt(e, i)
    <3>1. e # <<>> /\ q # <<>>
      BY <1>0, <2>1, <2>4
    <3>2. \A i \in 0 .. Len(e) : (i # 0 => i \in 1 .. Len(e)) /\ (i # Len(e) => i + 1 \in 1 .. Len(e))
      BY <1>0
    <3>. QED BY <2>4, <2>5, <3>1, <3>2 DEF RangeAt
  <2>8. Insert(s, t, v) = [found EXCEPT !.entries = q]
    <3>1. Insert(s, t, v) = [found EXCEPT !.entries[at].value = v]
      BY <1>5, <1>7
    <3>2. found.entries = e
      BY <1>1
    <3>. QED BY <3>1, <3>2 DEF q
  <2>9. found \in States /\ RangeKnown(found) /\ found.entries = e /\ found.lastPos \in 0 .. MaxEntries
    BY <1>1, GoodIs
  <2>. DEFINE n == [found EXCEPT !.entries = q]
  <2>10. /\ n \in States /\ n.entries = q /\ n.range = found.range /\ n.lastPos = found.lastPos
         /\ n.lastValue = found.lastValue /\ n.lastTime = found.lastTime
    BY <2>4, <2>9 DEF States
  <2>. HIDE DEF n
  <2>11. RangeKnown(n)
    <3>. SUFFICES ASSUME n.range # NoRange
                  PROVE  n.entries # <<>> /\ n.lastPos <= Len(n.entries)
                         /\ n.range = RangeAt(n.entries, n.lastPos)
      BY DEF RangeKnown
    <3>1. e # <<>> /\ found.lastPos <= Len(e) /\ found.range = RangeAt(e, found.lastPos)
      BY <2>9, <2>10 DEF RangeKnown
    <3>2. found.lastPos \in 0 .. Len(e)
      BY <1>0, <2>9, <3>1
    <3>3. q # <<>>
      BY <1>0, <2>1, <2>4
    <3>. QED BY <2>4, <2>7, <2>10, <3>1, <3>2, <3>3
  <2>. QED BY <1>1, <2>6, <2>8, <2>10, <2>11 DEF Good, Kept, n
<1>8. CASE ~(e = <<>> \/ Last(e).time < t) /\ ~(at > 0 /\ e[at].time = t)
  <2>1. at > 0 => e[at].time < p.time
    <3>1. at > 0 => at \in 1 .. Len(e)
      BY <1>0, <1>3
    <3>. QED BY <1>2, <1>3, <1>4, <1>8, <3>1
  <2>2. at < Len(e) => p.time < e[at + 1].time
    <3>1. at < Len(e) => at + 1 \in 1 .. Len(e)
      BY <1>0, <1>3
    <3>. QED BY <1>2, <1>3, <1>4, <3>1
  <2>3. InsertAt(e, at + 1, p) \in Seq(Pairs) /\ Sorted(InsertAt(e, at + 1, p))
    BY <1>0, <1>2, <1>3, <2>1, <2>2, InsertSorted
  <2>4. Insert(s, t, v) = With(found, InsertAt(e, at + 1, p))
    BY <1>5, <1>8
  <2>. QED BY <1>1, <2>3, <2>4, WithIs DEF Kept
<1>. QED BY <1>6, <1>7, <1>8

\* The entries from k + 1 to m go.
LEMMA CutSorted ==
  ASSUME NEW e \in Seq(Pairs), Sorted(e), NEW k \in 0 .. Len(e), NEW m \in k .. Len(e)
  PROVE  /\ SubSeq(e, 1, k) \o SubSeq(e, m + 1, Len(e)) \in Seq(Pairs)
         /\ Sorted(SubSeq(e, 1, k) \o SubSeq(e, m + 1, Len(e)))
         /\ Len(SubSeq(e, 1, k) \o SubSeq(e, m + 1, Len(e))) = Len(e) - m + k
<1>. DEFINE a == SubSeq(e, 1, k)
            b == SubSeq(e, m + 1, Len(e))
<1>0. Len(e) \in Nat /\ m \in 0 .. Len(e) /\ k <= m /\ \A i \in 1 .. Len(e) : e[i].time \in Int
  BY EntryTimes
<1>1. a \in Seq(Pairs) /\ Sorted(a) /\ Len(a) = k /\ \A i \in 1 .. k : a[i] = e[i]
  <2>1. 1 \in 1 .. Len(e) + 1 /\ k \in 1 - 1 .. Len(e) /\ k - 1 + 1 = k /\ \A i \in 1 .. k : 1 + i - 1 = i
    BY <1>0
  <2>. QED BY <2>1, PartSorted
<1>2. b \in Seq(Pairs) /\ Sorted(b) /\ Len(b) = Len(e) - m /\ \A i \in 1 .. Len(e) - m : b[i] = e[m + i]
  BY <1>0, RestSorted
<1>. HIDE DEF a, b
<1>3. ASSUME NEW i \in 1 .. Len(a), NEW j \in 1 .. Len(b) PROVE a[i].time < b[j].time
  <2>1. i \in 1 .. Len(e) /\ m + j \in 1 .. Len(e) /\ i < m + j
    BY <1>0, <1>1, <1>2
  <2>2. a[i] = e[i] /\ b[j] = e[m + j]
    BY <1>1, <1>2
  <2>. QED BY <2>1, <2>2 DEF Sorted
<1>4. a \o b \in Seq(Pairs) /\ Sorted(a \o b) /\ Len(a \o b) = Len(a) + Len(b)
  BY <1>1, <1>2, <1>3, JoinSorted
<1>5. Len(a) + Len(b) = Len(e) - m + k
  BY <1>0, <1>1, <1>2
<1>. QED BY <1>4, <1>5 DEF a, b

\* So a state whose entries are cut stays good.
LEMMA CutIs ==
  ASSUME NEW s, Good(s), NEW k \in 0 .. Len(s.entries), NEW m \in k .. Len(s.entries)
  PROVE  Shrunk(s, With(s, SubSeq(s.entries, 1, k) \o SubSeq(s.entries, m + 1, Len(s.entries))))
<1>. DEFINE e == s.entries
            n == SubSeq(e, 1, k) \o SubSeq(e, m + 1, Len(e))
<1>1. e \in Seq(Pairs) /\ Sorted(e) /\ Len(e) \in Nat
  BY GoodIs
<1>2. n \in Seq(Pairs) /\ Sorted(n) /\ Len(n) = Len(e) - m + k
  BY <1>1, CutSorted
<1>. HIDE DEF n
<1>3. Len(n) <= Len(e)
  <2>1. k \in Int /\ m \in Int /\ k <= m
    BY <1>1
  <2>. QED BY <1>1, <1>2, <2>1
<1>4. Shrunk(s, With(s, n))
  BY <1>2, <1>3, WithIs DEF Shrunk
<1>. QED BY <1>4 DEF n

\* The default value is the first entry, or there is none.
LEMMA DefaultIs ==
  ASSUME NEW e \in Seq(Pairs)
  PROVE  /\ Default(e) # <<>> => /\ Default(e) = SubSeq(e, 1, 1) /\ Default(e) = <<e[1]>>
                                 /\ Len(e) >= 1 /\ e[1].time = Static
         /\ Default(e) = <<>> => /\ Default(e) = SubSeq(e, 1, 0)
                                 /\ Len(e) >= 1 => e[1].time # Static
<1>1. Len(e) \in Nat /\ (e # <<>> => Len(e) >= 1) /\ (Len(e) >= 1 => e # <<>>)
  OBVIOUS
<1>2. CASE e # <<>> /\ e[1].time = Static
  <2>1. Default(e) = <<e[1]>> /\ <<e[1]>> # <<>>
    BY <1>2 DEF Default
  <2>. DEFINE d == SubSeq(e, 1, 1)
  <2>2. d \in Seq(Pairs) /\ Len(d) = 1 /\ d[1] = e[1]
    BY <1>1, <1>2
  <2>. HIDE DEF d
  <2>3. d = <<e[1]>>
    BY <2>2
  <2>. QED BY <1>1, <1>2, <2>1, <2>3 DEF d
<1>3. CASE ~(e # <<>> /\ e[1].time = Static)
  <2>1. Default(e) = <<>>
    BY <1>3 DEF Default
  <2>2. SubSeq(e, 1, 0) = <<>>
    BY <1>1
  <2>. QED BY <1>1, <1>3, <2>1, <2>2
<1>. QED BY <1>2, <1>3

LEMMA LimitByPointsIs ==
  ASSUME NEW s, Good(s), NEW n \in Nat
  PROVE  Shrunk(s, LimitByPoints(s, n))
<1>. DEFINE e       == s.entries
            surplus == Len(e) - n
            default == Default(e)
<1>0. e \in Seq(Pairs) /\ Sorted(e) /\ Len(e) \in Nat /\ surplus \in Int
  BY GoodIs
<1>1. LimitByPoints(s, n) =
        IF n = 0 \/ surplus <= 0 THEN s
        ELSE IF default # <<>> /\ surplus = 1 THEN With(s, e)
        ELSE With(s, default \o SubSeq(e, surplus + 1, Len(e)))
  BY DEF LimitByPoints
<1>2. CASE n = 0 \/ surplus <= 0
  BY <1>1, <1>2, GoodIs
<1>3. CASE ~(n = 0 \/ surplus <= 0) /\ default # <<>> /\ surplus = 1
  <2>1. Good(With(s, e)) /\ Kept(s, With(s, e)) /\ With(s, e).entries = e
    BY <1>0, WithIs
  <2>. QED BY <1>0, <1>1, <1>3, <2>1 DEF Shrunk
<1>4. CASE ~(n = 0 \/ surplus <= 0) /\ ~(default # <<>> /\ surplus = 1)
  <2>1. surplus \in 0 .. Len(e) /\ 0 \in 0 .. Len(e) /\ surplus \in 0 .. Len(e)
        /\ (surplus # 1 => surplus \in 1 .. Len(e) /\ 1 \in 0 .. Len(e))
    BY <1>0, <1>4
  <2>. HIDE DEF surplus
  <2>2. CASE default = <<>>
    <3>1. default = SubSeq(e, 1, 0)
      BY <1>0, <2>2, DefaultIs
    <3>2. Shrunk(s, With(s, SubSeq(e, 1, 0) \o SubSeq(e, surplus + 1, Len(e))))
      BY <2>1, CutIs
    <3>. QED BY <1>1, <1>4, <3>1, <3>2
  <2>3. CASE default # <<>>
    <3>1. default = SubSeq(e, 1, 1)
      BY <1>0, <2>3, DefaultIs
    <3>2. Shrunk(s, With(s, SubSeq(e, 1, 1) \o SubSeq(e, surplus + 1, Len(e))))
      BY <1>4, <2>1, <2>3, CutIs
    <3>. QED BY <1>1, <1>4, <3>1, <3>2
  <2>. QED BY <2>2, <2>3
<1>. QED BY <1>2, <1>3, <1>4

\* Limiting by time keeps the order because a window ends after the default value.
LEMMA LimitByTimeIs ==
  ASSUME NEW s, Good(s), NEW window \in Nat,
         \A t, u \in DataTimes : Static < u /\ u < t => window <= t
  PROVE  Shrunk(s, LimitByTime(s, window))
<1>. DEFINE e       == s.entries
            default == Default(e)
            oldest  == Last(e).time - window
            m       == LowerBound(e, oldest)
<1>0. e \in Seq(Pairs) /\ Sorted(e) /\ Len(e) \in Nat
  BY GoodIs
<1>1. LimitByTime(s, window) =
        IF window = 0 \/ Len(e) < 2 \/ (default # <<>> /\ Len(e) < 3) THEN s
        ELSE With(s, default \o SubSeq(e, m + 1, Len(e)))
  BY DEF LimitByTime
<1>2. m \in 0 .. Len(e) /\ (Len(e) > 0 /\ e[1].time < oldest => m > 0)
  BY <1>0, LowerType
<1>3. CASE window = 0 \/ Len(e) < 2 \/ (default # <<>> /\ Len(e) < 3)
  BY <1>1, <1>3, GoodIs
<1>4. CASE ~(window = 0 \/ Len(e) < 2 \/ (default # <<>> /\ Len(e) < 3)) /\ default = <<>>
  <2>1. default = SubSeq(e, 1, 0)
    BY <1>0, <1>4, DefaultIs
  <2>2. 0 \in 0 .. Len(e)
    BY <1>0
  <2>. HIDE DEF m
  <2>3. Shrunk(s, With(s, SubSeq(e, 1, 0) \o SubSeq(e, m + 1, Len(e))))
    BY <1>2, <2>2, CutIs
  <2>. QED BY <1>1, <1>4, <2>1, <2>3
<1>5. CASE ~(window = 0 \/ Len(e) < 2 \/ (default # <<>> /\ Len(e) < 3)) /\ default # <<>>
  <2>1. default = SubSeq(e, 1, 1) /\ e[1].time = Static
    BY <1>0, <1>5, DefaultIs
  <2>2. Len(e) >= 3 /\ 1 \in 1 .. Len(e) /\ 2 \in 1 .. Len(e) /\ Len(e) \in 1 .. Len(e) /\ 2 < Len(e)
    BY <1>0, <1>5
  <2>3. e[1].time < e[2].time /\ e[2].time < e[Len(e)].time
    BY <1>0, <2>2 DEF Sorted
  <2>4. /\ e[2].time \in DataTimes /\ e[Len(e)].time \in DataTimes
        /\ e[Len(e)].time \in Int /\ Last(e) = e[Len(e)]
    BY <1>0, <2>2, EntryTimes DEF Last
  <2>5. window <= e[Len(e)].time
    BY <2>1, <2>3, <2>4
  <2>6. e[1].time < oldest
    BY <2>1, <2>4, <2>5 DEF Static
  <2>7. m > 0
    BY <1>2, <2>2, <2>6
  <2>. HIDE DEF m
  <2>8. 1 \in 0 .. Len(e) /\ m \in 1 .. Len(e)
    BY <1>0, <1>2, <2>2, <2>7
  <2>9. Shrunk(s, With(s, SubSeq(e, 1, 1) \o SubSeq(e, m + 1, Len(e))))
    BY <2>8, CutIs
  <2>. QED BY <1>1, <1>5, <2>1, <2>9
<1>. QED BY <1>3, <1>4, <1>5

LEMMA ShrunkTwice ==
  ASSUME NEW s, NEW q, NEW r, Good(s), Shrunk(s, q), Shrunk(q, r)
  PROVE  Shrunk(s, r)
<1>1. Good(q) /\ Good(r)
  BY DEF Shrunk
<1>2. Len(s.entries) \in Nat /\ Len(q.entries) \in Nat /\ Len(r.entries) \in Nat
  BY <1>1, GoodIs
<1>. QED BY <1>2 DEF Shrunk, Kept

LEMMA LimitIs ==
  ASSUME ShortWindows, NEW s, Good(s), NEW l \in LimitChoices
  PROVE  Shrunk(s, Limit(s, l))
<1>1. l.points \in Nat /\ l.window \in Nat
  <2>1. LimitChoices \subseteq [points : Nat, window : Nat]
    BY CategoryAssumption
  <2>. QED BY <2>1
<1>2. \A t, u \in DataTimes : Static < u /\ u < t => l.window <= t
  BY DEF ShortWindows
<1>. DEFINE q == LimitByPoints(s, l.points)
            r == LimitByTime(q, l.window)
<1>3. Shrunk(s, q)
  BY <1>1, LimitByPointsIs
<1>4. Good(q)
  BY <1>3 DEF Shrunk
<1>. HIDE DEF q
<1>5. Shrunk(q, r)
  BY <1>1, <1>2, <1>4, LimitByTimeIs
<1>. HIDE DEF r
<1>6. Shrunk(s, r)
  BY <1>3, <1>5, ShrunkTwice
<1>. QED BY <1>6 DEF Limit, q, r

LEMMA FlushRangeIs ==
  ASSUME NEW s, Good(s), NEW start, NEW end
  PROVE  Shrunk(s, FlushRange(s, start, end))
<1>. DEFINE e    == s.entries
            from == LowerBound(e, start)
            to   == LowerBound(e, end)
<1>0. e \in Seq(Pairs) /\ Len(e) \in Nat
  BY GoodIs
<1>1. from \in 0 .. Len(e) /\ to \in 0 .. Len(e)
  BY <1>0, LowerType
<1>2. FlushRange(s, start, end) =
        IF to <= from THEN s ELSE With(s, SubSeq(e, 1, from) \o SubSeq(e, to + 1, Len(e)))
  BY DEF FlushRange
<1>. HIDE DEF from, to
<1>3. CASE to <= from
  BY <1>2, <1>3, GoodIs
<1>4. CASE ~(to <= from)
  <2>1. to \in from .. Len(e)
    BY <1>0, <1>1, <1>4
  <2>2. Shrunk(s, With(s, SubSeq(e, 1, from) \o SubSeq(e, to + 1, Len(e))))
    BY <1>1, <2>1, CutIs
  <2>. QED BY <1>2, <1>4, <2>2
<1>. QED BY <1>3, <1>4

LEMMA RemoveIs ==
  ASSUME NEW s, Good(s), NEW at \in 1 .. Len(s.entries)
  PROVE  Shrunk(s, With(s, RemoveAt(s.entries, at)))
<1>. DEFINE e == s.entries
            k == at - 1
<1>1. Len(e) \in Nat /\ k \in 0 .. Len(e) /\ at \in k .. Len(e)
  BY GoodIs
<1>2. RemoveAt(e, at) = SubSeq(e, 1, k) \o SubSeq(e, at + 1, Len(e))
  BY DEF RemoveAt
<1>. HIDE DEF k
<1>3. Shrunk(s, With(s, SubSeq(e, 1, k) \o SubSeq(e, at + 1, Len(e))))
  BY <1>1, CutIs
<1>. QED BY <1>2, <1>3

\* A find leaves a place and no range.
LEMMA FindIs ==
  ASSUME NEW s, Good(s), Len(s.entries) <= MaxEntries, NEW t
  PROVE  Good(Find(s, t)) /\ Same(s, Find(s, t)) /\ Find(s, t).lastPos \in 0 .. Len(s.entries)
<1>. DEFINE e    == s.entries
            n    == Len(e)
            at   == CheckPosition(e, s.lastPos)
            same == {i \in 0 .. n - 1 : e[i + 1].time = t}
            near == {i \in same : IF e[at + 1].time <= t THEN i >= at /\ i < at + FastSearchWidth
                                  ELSE i <= at /\ i > at - FastSearchWidth /\ i # 0}
            pos  == IF same = {} THEN n
                    ELSE IF near = {} THEN Min(same)
                    ELSE IF e[at + 1].time <= t THEN Min(near) ELSE Max(near)
            q    == [s EXCEPT !.lastPos = pos, !.range = NoRange]
<1>0. n \in Nat /\ MaxEntries \in Nat /\ s \in States /\ Sorted(e) /\ NoRange \in Ranges
  BY GoodIs, TimesBounded DEF NoRange, Ranges
<1>1. Find(s, t) = q
  BY DEF Find
<1>2. same \in SUBSET (0 .. n - 1) /\ near \subseteq same /\ 0 \in Int /\ n - 1 \in Int
  BY <1>0
<1>3. same # {} => Min(same) \in same
  <2>. HIDE DEF same
  <2>1. same # {} => Least(same) # {}
    BY <1>2, BoundedExtremes
  <2>. QED BY <2>1 DEF Min, Least
<1>4. near # {} => Min(near) \in near /\ Max(near) \in near
  <2>1. near \in SUBSET (0 .. n - 1)
    BY <1>2
  <2>. HIDE DEF near
  <2>2. near # {} => Least(near) # {} /\ Greatest(near) # {}
    BY <1>2, <2>1, BoundedExtremes
  <2>3. near # {} => Min(near) \in near
    BY <2>2 DEF Min, Least
  <2>4. near # {} => Max(near) \in near
    <3>1. \A x, y \in near : x <= y <=> y >= x
      BY <1>0, <2>1
    <3>2. near # {} => \E x \in near : \A y \in near : x >= y
      BY <2>2, <3>1 DEF Greatest
    <3>. QED BY <3>2 DEF Max
  <2>. QED BY <2>3, <2>4
<1>. HIDE DEF same, near
<1>5. pos \in 0 .. n
  <2>1. \A i \in same : i \in 0 .. n
    BY <1>0, <1>2
  <2>2. n \in 0 .. n
    BY <1>0
  <2>. QED BY <1>2, <1>3, <1>4, <2>1, <2>2
<1>6. pos \in 0 .. MaxEntries
  <2>. HIDE DEF pos
  <2>. QED BY <1>0, <1>5
<1>. HIDE DEF pos
<1>7. /\ q \in States /\ q.entries = e /\ q.range = NoRange /\ q.lastPos = pos
      /\ q.lastValue = s.lastValue /\ q.lastTime = s.lastTime
  BY <1>0, <1>6 DEF States
<1>. QED BY <1>0, <1>1, <1>5, <1>7 DEF Good, RangeKnown, Same

-----------------------------------------------------------------------------
(* Steps                                                                     *)

\* What all the transactions do.
Changed ==
  /\ data' \in [Category -> States]
  /\ \A c \in Category : /\ Good(data'[c]) /\ Kept(data[c], data'[c])
                         /\ Len(data'[c].entries) <= MaxEntries
  /\ Reportable(data, data')
  /\ \/ cache' = NoRange
     \/ cache' = cache /\ \A c \in Category : data'[c].entries = data[c].entries
  /\ hasChanged' = TRUE /\ limits' \in LimitChoices
  /\ UNCHANGED <<sliceTime, storeTime, listened>>

LEMMA StoreIs ==
  ASSUME NEW new, NEW notified, Store(new, notified), limits' \in LimitChoices,
         \E f : new = [c \in Category |-> f[c]],
         \A c \in Category : /\ Good(new[c]) /\ Kept(data[c], new[c])
                             /\ Len(new[c].entries) <= MaxEntries,
         ~notified => \A c \in Category : new[c].entries = data[c].entries
  PROVE  Changed
<1>1. data' = new /\ Reportable(data, data') /\ hasChanged' = TRUE
      /\ cache' = (IF notified THEN NoRange ELSE cache)
      /\ UNCHANGED <<sliceTime, storeTime, listened>>
  BY DEF Store
<1>2. new \in [Category -> States]
  BY DEF Good
<1>. QED BY <1>1, <1>2 DEF Changed

\* A bound on the entries of the slice bounds those of a category.
LEMMA EachWithin ==
  ASSUME NEW added, \A c \in Category : added[c].entries \in Seq(Pairs),
         Cardinality(UNION {{c} \X DOMAIN added[c].entries : c \in Category}) <= MaxEntries,
         NEW d \in Category
  PROVE  Len(added[d].entries) <= MaxEntries
<1>. DEFINE Of(c) == {c} \X DOMAIN added[c].entries
            All   == {Of(c) : c \in Category}
            U     == UNION All
            n     == Len(added[d].entries)
            f     == [c \in Category |-> Of(c)]
            g     == [i \in 1 .. n |-> <<d, i>>]
<1>1. \A c \in Category : Len(added[c].entries) \in Nat /\ DOMAIN added[c].entries = 1 .. Len(added[c].entries)
  BY EntryTimes
<1>2. ASSUME NEW c \in Category PROVE IsFiniteSet(Of(c))
  <2>1. IsFiniteSet(1 .. Len(added[c].entries))
    BY <1>1, FS_Interval
  <2>2. IsFiniteSet({c})
    BY FS_Singleton
  <2>. QED BY <1>1, <2>1, <2>2, FS_Product
<1>3. IsFiniteSet(All)
  <2>1. IsFiniteSet(Category)
    BY CategoryAssumption
  <2>2. f \in Surjection(Category, All)
    BY DEF Surjection
  <2>. QED BY <2>1, <2>2, FS_Surjection
<1>4. IsFiniteSet(U)
  BY <1>2, <1>3, FS_UNION
<1>5. Of(d) \subseteq U /\ \A i \in 1 .. n : <<d, i>> \in Of(d)
  BY <1>1
<1>6. g \in Injection(1 .. n, U)
  <2>1. \A i \in 1 .. n : <<d, i>> \in U
    BY <1>5
  <2>. HIDE DEF U
  <2>2. g \in [1 .. n -> U]
    BY <2>1
  <2>3. \A i, j \in 1 .. n : g[i] = g[j] => i = j
    OBVIOUS
  <2>. HIDE DEF g
  <2>. QED BY <2>2, <2>3 DEF Injection, IsInjective
<1>7. Cardinality(1 .. n) <= Cardinality(U)
  BY <1>4, <1>6, FS_Injection
<1>8. Cardinality(1 .. n) = n
  BY <1>1, FS_Interval
<1>9. Cardinality(U) \in Nat /\ MaxEntries \in Nat /\ Cardinality(U) <= MaxEntries /\ n \in Nat
  BY <1>1, <1>4, FS_CardinalityType, TimesBounded
<1>. QED BY <1>7, <1>8, <1>9

LEMMA AddChanges ==
  ASSUME ShortWindows, DataInv, NEW t \in DataTimes, NEW named \in SUBSET Category,
         NEW entry \in [named -> Value], AddCategoryData(t, entry)
  PROVE  Changed
<1>. DEFINE added == [c \in Category |-> IF c \in DOMAIN entry THEN Insert(data[c], t, entry[c])
                                        ELSE data[c]]
            new   == [c \in Category |-> Limit(added[c], limits)]
<1>1. /\ Cardinality(UNION {{c} \X DOMAIN added[c].entries : c \in Category}) <= MaxEntries
      /\ Store(new, TRUE) /\ UNCHANGED limits
  BY DEF AddCategoryData
<1>2. limits \in LimitChoices /\ \A c \in Category : Good(data[c]) /\ Len(data[c].entries) <= MaxEntries
  BY DEF DataInv
<1>3. ASSUME NEW c \in Category PROVE Good(added[c]) /\ Kept(data[c], added[c])
  <2>1. Good(data[c]) /\ Kept(data[c], data[c])
    BY <1>2 DEF Kept
  <2>2. c \in DOMAIN entry => Good(Insert(data[c], t, entry[c])) /\ Kept(data[c], Insert(data[c], t, entry[c]))
    BY <1>2, InsertIs
  <2>. QED BY <2>1, <2>2
<1>4. \A c \in Category : added[c].entries \in Seq(Pairs) /\ Len(added[c].entries) \in Nat
  <2>. HIDE DEF added
  <2>. QED BY <1>3, GoodIs
<1>. HIDE DEF added
<1>5. ASSUME NEW c \in Category PROVE Len(added[c].entries) <= MaxEntries
  BY <1>1, <1>4, EachWithin
<1>6. ASSUME NEW c \in Category
      PROVE  Good(new[c]) /\ Kept(data[c], new[c]) /\ Len(new[c].entries) <= MaxEntries
  <2>1. new[c] = Limit(added[c], limits)
    OBVIOUS
  <2>2. Shrunk(added[c], Limit(added[c], limits))
    BY <1>2, <1>3, LimitIs
  <2>. HIDE DEF new
  <2>3. Good(new[c]) /\ Kept(added[c], new[c]) /\ Len(new[c].entries) <= Len(added[c].entries)
    BY <2>1, <2>2 DEF Shrunk
  <2>4. Len(new[c].entries) \in Nat /\ MaxEntries \in Nat
    BY <2>3, GoodIs, TimesBounded
  <2>. QED BY <1>3, <1>4, <1>5, <2>3, <2>4 DEF Kept
<1>7. \E f : new = [c \in Category |-> f[c]]
  <2>1. new = [c \in Category |-> new[c]]
    OBVIOUS
  <2>. QED BY <2>1
<1>8. limits' \in LimitChoices
  BY <1>1, <1>2
<1>. HIDE DEF new
<1>. QED BY <1>1, <1>6, <1>7, <1>8, StoreIs

\* The transactions that only take entries away.
LEMMA ShrinkingChanges ==
  ASSUME DataInv, NEW new, NEW notified, Store(new, notified), limits' \in LimitChoices,
         \E f : new = [c \in Category |-> f[c]],
         \A c \in Category : Shrunk(data[c], new[c]),
         ~notified => \A c \in Category : new[c].entries = data[c].entries
  PROVE  Changed
<1>1. ASSUME NEW c \in Category
      PROVE  Good(new[c]) /\ Kept(data[c], new[c]) /\ Len(new[c].entries) <= MaxEntries
  <2>1. Good(new[c]) /\ Kept(data[c], new[c]) /\ Len(new[c].entries) <= Len(data[c].entries)
    BY DEF Shrunk
  <2>2. Good(data[c]) /\ Len(data[c].entries) <= MaxEntries
    BY DEF DataInv
  <2>3. Len(new[c].entries) \in Nat /\ Len(data[c].entries) \in Nat /\ MaxEntries \in Nat
    BY <2>1, <2>2, GoodIs, TimesBounded
  <2>. QED BY <2>1, <2>2, <2>3
<1>. QED BY <1>1, StoreIs

LEMMA RemoveChanges ==
  ASSUME DataInv, NEW t, NEW d \in Category, NEW v, RemoveCategoryDataPoint(t, d, v)
  PROVE  Changed
<1>. DEFINE found == Find(data[d], t)
            at    == found.lastPos + 1
            hit   == at <= Len(found.entries) /\ found.entries[at].value = v
            q     == IF hit THEN With(found, RemoveAt(found.entries, at)) ELSE found
            new   == [data EXCEPT ![d] = q]
<1>1. Store(new, hit) /\ UNCHANGED limits
  BY DEF RemoveCategoryDataPoint
<1>2. /\ limits \in LimitChoices /\ data \in [Category -> States]
      /\ \A c \in Category : Good(data[c]) /\ Len(data[c].entries) <= MaxEntries
  BY DEF DataInv
<1>3. Good(found) /\ Same(data[d], found) /\ found.lastPos \in 0 .. Len(data[d].entries)
  BY <1>2, FindIs
<1>4. Len(found.entries) \in Nat
  BY <1>3, GoodIs
<1>. HIDE DEF found
<1>5. hit => at \in 1 .. Len(found.entries)
  BY <1>3, <1>4 DEF Same
<1>6. hit => Shrunk(found, With(found, RemoveAt(found.entries, at)))
  <2>. HIDE DEF at
  <2>. QED BY <1>3, <1>5, RemoveIs
<1>7. Shrunk(data[d], found)
  BY <1>3, <1>4 DEF Shrunk, Same, Kept
<1>8. Shrunk(data[d], q)
  <2>1. CASE hit
    <3>1. q = With(found, RemoveAt(found.entries, at))
      BY <2>1
    <3>. HIDE DEF q
    <3>2. Shrunk(found, q)
      BY <1>6, <2>1, <3>1
    <3>. QED BY <1>2, <1>7, <3>2, ShrunkTwice
  <2>2. CASE ~hit
    BY <1>7, <2>2
  <2>. QED BY <2>1, <2>2
<1>9. ~hit => q.entries = data[d].entries
  BY <1>3 DEF Same
<1>. HIDE DEF q, hit
<1>10. \A c \in Category : Shrunk(data[c], new[c])
  <2>1. ASSUME NEW c \in Category PROVE Shrunk(data[c], new[c])
    <3>1. Shrunk(data[c], data[c])
      BY <1>2, GoodIs
    <3>2. new[c] = IF c = d THEN q ELSE data[c]
      BY <1>2
    <3>. HIDE DEF new
    <3>. QED BY <1>8, <3>1, <3>2
  <2>. QED BY <2>1
<1>11. ~hit => \A c \in Category : new[c].entries = data[c].entries
  BY <1>2, <1>9
<1>12. \E f : new = [c \in Category |-> f[c]]
  <2>1. new = [c \in Category |-> new[c]]
    BY <1>2
  <2>. QED BY <2>1
<1>. HIDE DEF new
<1>. QED BY <1>1, <1>2, <1>10, <1>11, <1>12, ShrinkingChanges

LEMMA FlushChanges ==
  ASSUME DataInv, NEW start, NEW end, Flush(start, end)
  PROVE  Changed
<1>. DEFINE new == [c \in Category |-> FlushRange(data[c], start, end)]
<1>1. Store(new, TRUE) /\ UNCHANGED limits
  BY DEF Flush
<1>2. limits \in LimitChoices /\ \A c \in Category : Good(data[c])
  BY DEF DataInv
<1>3. \A c \in Category : Shrunk(data[c], new[c])
  BY <1>2, FlushRangeIs
<1>4. \E f : new = [c \in Category |-> f[c]]
  <2>1. new = [c \in Category |-> new[c]]
    OBVIOUS
  <2>. QED BY <2>1
<1>. HIDE DEF new
<1>. QED BY <1>1, <1>2, <1>3, <1>4, ShrinkingChanges

LEMMA FlushAllChanges ==
  ASSUME DataInv, FlushExcludeMinusOne
  PROVE  Changed
<1>. DEFINE new == [c \in Category |-> LimitByPoints(data[c], 1)]
            notified == \E c \in Category : LimitByPoints(data[c], 1).entries # data[c].entries
<1>1. Store(new, notified) /\ UNCHANGED limits
  BY DEF FlushExcludeMinusOne
<1>2. limits \in LimitChoices /\ \A c \in Category : Good(data[c])
  BY DEF DataInv
<1>3. \A c \in Category : Shrunk(data[c], new[c])
  BY <1>2, LimitByPointsIs
<1>4. \E f : new = [c \in Category |-> f[c]]
  <2>1. new = [c \in Category |-> new[c]]
    OBVIOUS
  <2>. QED BY <2>1
<1>5. ~notified => \A c \in Category : new[c].entries = data[c].entries
  OBVIOUS
<1>. HIDE DEF new, notified
<1>. QED BY <1>1, <1>2, <1>3, <1>4, <1>5, ShrinkingChanges

LEMMA LimitsChange ==
  ASSUME ShortWindows, DataInv, NEW l \in LimitChoices, ChangeLimits(l)
  PROVE  Changed
<1>. DEFINE new == [c \in Category |-> Limit(data[c], l)]
            notified == \E c \in Category : Limit(data[c], l) # data[c]
<1>1. Store(new, notified) /\ limits' = l
  BY DEF ChangeLimits
<1>2. \A c \in Category : Good(data[c])
  BY DEF DataInv
<1>3. \A c \in Category : Shrunk(data[c], new[c])
  BY <1>2, LimitIs
<1>4. \E f : new = [c \in Category |-> f[c]]
  <2>1. new = [c \in Category |-> new[c]]
    OBVIOUS
  <2>. QED BY <2>1
<1>5. ~notified => \A c \in Category : new[c].entries = data[c].entries
  OBVIOUS
<1>. HIDE DEF new, notified
<1>. QED BY <1>1, <1>3, <1>4, <1>5, ShrinkingChanges

-----------------------------------------------------------------------------
(* Updates                                                                   *)

\* The category as an update to t finds it.
Found(c, t) == IF data[c].entries = <<>> THEN data[c] ELSE Lookup(data[c], t)

Held(t) == {s \in Range([c \in Category |-> Found(c, t)]) : s.entries # <<>>}

NewCache(t) == [from |-> Max({0} \cup StartOf(Held(t))), to |-> Min({MaxDouble} \cup EndOf(Held(t)))]

\* An update that the cache does not skip the slice for.
Refreshed(t) ==
  /\ data' = [c \in Category |-> Updated(Found(c, t))]
  /\ sliceTime' = t /\ cache' = NewCache(t)
  /\ listened' = IF \E c \in Category : Reports(Found(c, t))
                 THEN [c \in Category |-> At(data[c], t)] ELSE listened

LEMMA UpdateIs ==
  ASSUME NEW t, Update(t)
  PROVE  /\ storeTime' = t /\ hasChanged' = FALSE /\ limits' = limits
         /\ \/ In(t, cache) /\ UNCHANGED <<data, sliceTime, cache, listened>>
            \/ Refreshed(t)
<1>1. CASE In(t, cache)
  BY <1>1 DEF Update
<1>2. CASE ~In(t, cache)
  <2>1. Refreshed(t)
    BY <1>2 DEF Update, Refreshed, NewCache, Held, Found
  <2>. QED BY <2>1 DEF Update
<1>. QED BY <1>1, <1>2

LEMMA FoundIs ==
  ASSUME DataInv, NEW c \in Category, NEW t \in Now
  PROVE  /\ Good(Found(c, t)) /\ Same(data[c], Found(c, t))
         /\ Found(c, t).entries # <<>> => Found(c, t).lastPos = UpperBound(data[c].entries, t)
<1>1. Good(data[c]) /\ Len(data[c].entries) <= MaxEntries /\ Same(data[c], data[c])
  BY DEF DataInv, Same
<1>2. /\ Good(Lookup(data[c], t)) /\ Same(data[c], Lookup(data[c], t))
      /\ Lookup(data[c], t).lastPos = UpperBound(data[c].entries, t)
  BY <1>1, LookupIs DEF Times
<1>. QED BY <1>1, <1>2 DEF Found

\* What an update knows of a category, and what it leaves of it.
LEMMA UpdatedIs ==
  ASSUME DataInv, NEW c \in Category, NEW t \in Now
  PROVE  LET e == data[c].entries
             p == UpperBound(e, t)
             f == Found(c, t)
             u == Updated(f)
         IN /\ Good(u) /\ u.entries = e
            /\ e = <<>> => /\ u.lastTime = data[c].lastTime /\ u.lastValue = data[c].lastValue
                           /\ p = 0 /\ ~Reports(f)
            /\ e # <<>> /\ p = 0 => /\ u.lastTime = Static
                                    /\ Reports(f) <=> data[c].lastTime # Static
            /\ e # <<>> /\ p > 0 =>
                 /\ u.lastTime = e[p].time /\ u.lastValue = e[p].value
                 /\ Reports(f) <=> (data[c].lastTime = Static /\ e[p].time # Static) \/ e[p].value # data[c].lastValue
<1>. DEFINE e == data[c].entries
            p == UpperBound(e, t)
            f == Found(c, t)
            u == Updated(f)
<1>1. /\ Good(f) /\ f.entries = e /\ f.lastTime = data[c].lastTime /\ f.lastValue = data[c].lastValue
      /\ e # <<>> => f.lastPos = p
  BY FoundIs DEF Same
<1>2. /\ f \in States /\ e \in Seq(Pairs) /\ Sorted(e) /\ Len(e) \in Nat /\ f.lastPos \in 0 .. MaxEntries
  BY <1>1, GoodIs
<1>3. t \in Int
  BY TimesBounded
<1>4. p \in 0 .. Len(e)
  BY <1>2, <1>3, UpperExists
<1>5. RangeKnown(f)
  BY <1>1 DEF Good
<1>. HIDE DEF e, p, f
<1>6. CASE e = <<>>
  <2>1. Len(e) = 0
    BY <1>6
  <2>2. p = 0
    BY <1>4, <2>1
  <2>3. u = f
    BY <1>1, <1>6 DEF Updated
  <2>4. ~Reports(f)
    BY <1>1, <1>6 DEF Reports
  <2>. HIDE DEF u
  <2>. QED BY <1>1, <1>6, <2>2, <2>3, <2>4 DEF e, p, f, u
<1>7. CASE e # <<>> /\ p = 0
  <2>1. u = [f EXCEPT !.lastTime = Static]
    BY <1>1, <1>7 DEF Updated
  <2>. HIDE DEF u
  <2>2. /\ u \in States /\ u.entries = e /\ u.lastTime = Static
        /\ u.range = f.range /\ u.lastPos = f.lastPos
    BY <1>1, <1>2, <2>1 DEF States
  <2>3. Good(u)
    BY <1>1, <1>2, <1>5, <2>2 DEF Good, RangeKnown
  <2>4. Reports(f) <=> data[c].lastTime # Static
    <3>1. f.lastPos = 0 /\ ~(f.lastPos > 0)
      BY <1>1, <1>7
    <3>. QED BY <1>1, <1>7, <3>1 DEF Reports, Appeared
  <2>5. ~(p > 0)
    BY <1>7
  <2>. QED BY <1>7, <2>2, <2>3, <2>4, <2>5 DEF e, p, f, u
<1>8. CASE e # <<>> /\ p > 0
  <2>1. p # 0 /\ p \in 1 .. Len(e)
    BY <1>4, <1>8
  <2>2. u = [f EXCEPT !.lastTime = e[p].time, !.lastValue = e[p].value]
    BY <1>1, <1>8, <2>1 DEF Updated
  <2>3. e[p].time \in DataTimes /\ e[p].value \in Value
    BY <1>2, <2>1, EntryTimes
  <2>. HIDE DEF u
  <2>4. /\ u \in States /\ u.entries = e /\ u.lastTime = e[p].time /\ u.lastValue = e[p].value
        /\ u.range = f.range /\ u.lastPos = f.lastPos
    BY <1>1, <1>2, <2>2, <2>3 DEF States
  <2>5. Good(u)
    BY <1>1, <1>2, <1>5, <2>4 DEF Good, RangeKnown
  <2>6. Reports(f) <=> (data[c].lastTime = Static /\ e[p].time # Static) \/ e[p].value # data[c].lastValue
    <3>1. f.lastPos = p /\ f.lastPos # 0 /\ f.lastPos > 0
      BY <1>1, <1>8, <2>1
    <3>. QED BY <1>1, <1>8, <3>1 DEF Reports, Appeared
  <2>. QED BY <1>8, <2>1, <2>4, <2>5, <2>6 DEF e, p, f, u
<1>. QED BY <1>4, <1>6, <1>7, <1>8 DEF p

\* The range of the cache lies where no category has another place.
Enclosed(e, t, r) ==
  /\ UpperBound(e, t) > 0 => e[UpperBound(e, t)].time <= r.from
  /\ UpperBound(e, t) < Len(e) => r.to <= e[UpperBound(e, t) + 1].time

CacheInv ==
  /\ cache \in Ranges
  /\ cache # NoRange => \A c \in Category : Enclosed(data[c].entries, sliceTime, cache)

LEMMA ExtremesOf ==
  ASSUME NEW S \in SUBSET (0 .. MaxDouble), S # {}
  PROVE  /\ Max(S) \in S /\ \A x \in S : x <= Max(S)
         /\ Min(S) \in S /\ \A x \in S : Min(S) <= x
<1>1. 0 \in Int /\ MaxDouble \in Int
  BY TimesBounded
<1>2. Least(S) # {} /\ Greatest(S) # {}
  BY <1>1, BoundedExtremes
<1>3. Min(S) \in S /\ \A x \in S : Min(S) <= x
  BY <1>2 DEF Min, Least
<1>4. \A x, y \in S : x <= y <=> y >= x
  BY <1>1
<1>5. \E x \in S : \A y \in S : x >= y
  BY <1>2, <1>4 DEF Greatest
<1>6. Max(S) \in S /\ \A x \in S : Max(S) >= x
  BY <1>5 DEF Max
<1>. QED BY <1>3, <1>4, <1>6

LEMMA NewCacheIs ==
  ASSUME DataInv, NEW t \in Now
  PROVE  /\ NewCache(t) \in Ranges
         /\ \A c \in Category : Enclosed(data[c].entries, t, NewCache(t))
<1>. DEFINE F == {0} \cup StartOf(Held(t))
            T == {MaxDouble} \cup EndOf(Held(t))
<1>0. MaxDouble \in Nat /\ DataTimes \subseteq -1 .. MaxDouble - 1 /\ Static = -1
  BY TimesBounded
<1>1. ASSUME NEW s \in Held(t)
      PROVE  /\ s.entries \in Seq(Pairs) /\ Len(s.entries) \in Nat /\ s.lastPos \in 0 .. Len(s.entries)
             /\ \A i \in 1 .. Len(s.entries) : s.entries[i].time \in DataTimes
  <2>1. PICK c \in Category : s = Found(c, t)
    BY DEF Held, Range
  <2>2. s.entries # <<>>
    BY DEF Held
  <2>3. Good(s) /\ s.entries = data[c].entries /\ s.lastPos = UpperBound(s.entries, t)
    BY <2>1, <2>2, FoundIs DEF Same
  <2>4. s.entries \in Seq(Pairs) /\ Sorted(s.entries) /\ Len(s.entries) \in Nat /\ t \in Int
    BY <2>3, GoodIs, TimesBounded
  <2>. QED BY <2>3, <2>4, UpperExists, EntryTimes
<1>2. \A x \in DataTimes \ {Static} : x \in 0 .. MaxDouble
  BY <1>0
<1>3. F \in SUBSET (0 .. MaxDouble) /\ F # {}
  <2>1. ASSUME NEW x \in StartOf(Held(t)) PROVE x \in DataTimes \ {Static}
    <3>1. PICK s \in Held(t) : s.lastPos > 0 /\ x = s.entries[s.lastPos].time /\ x # Static
      BY DEF StartOf
    <3>2. s.lastPos \in 1 .. Len(s.entries)
      BY <1>1, <3>1
    <3>. QED BY <1>1, <3>1, <3>2
  <2>2. StartOf(Held(t)) \subseteq 0 .. MaxDouble
    BY <1>2, <2>1
  <2>3. 0 \in 0 .. MaxDouble
    BY <1>0
  <2>. QED BY <2>2, <2>3
<1>4. T \in SUBSET (0 .. MaxDouble) /\ T # {}
  <2>1. ASSUME NEW x \in EndOf(Held(t)) PROVE x \in DataTimes \ {Static}
    <3>1. PICK s \in Held(t) : s.lastPos < Len(s.entries) /\ x = s.entries[s.lastPos + 1].time /\ x # Static
      BY DEF EndOf
    <3>2. s.lastPos + 1 \in 1 .. Len(s.entries)
      BY <1>1, <3>1
    <3>. QED BY <1>1, <3>1, <3>2
  <2>2. EndOf(Held(t)) \subseteq 0 .. MaxDouble
    BY <1>2, <2>1
  <2>3. MaxDouble \in 0 .. MaxDouble
    BY <1>0
  <2>. QED BY <2>2, <2>3
<1>5. Max(F) \in 0 .. MaxDouble /\ \A x \in F : x <= Max(F)
  <2>. HIDE DEF F
  <2>. QED BY <1>3, ExtremesOf
<1>6. Min(T) \in 0 .. MaxDouble /\ \A x \in T : Min(T) <= x
  <2>. HIDE DEF T
  <2>. QED BY <1>4, ExtremesOf
<1>7. NewCache(t).from = Max(F) /\ NewCache(t).to = Min(T) /\ NewCache(t) \in Ranges
  <2>1. NewCache(t) = [from |-> Max(F), to |-> Min(T)]
    BY DEF NewCache
  <2>2. Max(F) \in Int /\ Min(T) \in Int
    BY <1>5, <1>6
  <2>. HIDE DEF F, T
  <2>. QED BY <2>1, <2>2 DEF Ranges
<1>8. ASSUME NEW c \in Category PROVE Enclosed(data[c].entries, t, NewCache(t))
  <2>. DEFINE e == data[c].entries
              p == UpperBound(e, t)
              f == Found(c, t)
  <2>1. /\ Good(f) /\ f.entries = e /\ (e # <<>> => f.lastPos = p)
    BY FoundIs DEF Same
  <2>2. e \in Seq(Pairs) /\ Sorted(e) /\ Len(e) \in Nat /\ t \in Int /\ 0 <= t
    BY <2>1, GoodIs, TimesBounded
  <2>3. /\ p \in 0 .. Len(e) /\ (p > 0 => e[p].time <= t) /\ (p < Len(e) => e[p + 1].time > t)
        /\ \A i \in 1 .. Len(e) : e[i].time \in DataTimes /\ e[i].time \in Int
    BY <2>2, UpperExists, EntryTimes
  <2>4. e # <<>> => f \in Held(t)
    BY <2>1 DEF Held, Range
  <2>. HIDE DEF e, p, f, F, T
  <2>5. ASSUME p > 0 PROVE e[p].time <= Max(F)
    <3>1. p \in 1 .. Len(e) /\ e # <<>> /\ e[p].time \in Int
      BY <2>2, <2>3, <2>5
    <3>2. CASE e[p].time = Static
      BY <1>0, <1>5, <3>2
    <3>3. CASE e[p].time # Static
      <4>1. e[p].time \in F
        BY <2>1, <2>4, <2>5, <3>1, <3>3 DEF StartOf, F
      <4>. QED BY <1>5, <4>1
    <3>. QED BY <3>2, <3>3
  <2>6. ASSUME p < Len(e) PROVE Min(T) <= e[p + 1].time
    <3>1. p + 1 \in 1 .. Len(e) /\ e # <<>> /\ e[p + 1].time \in Int
      BY <2>2, <2>3, <2>6
    <3>2. e[p + 1].time # Static
      BY <1>0, <2>2, <2>3, <2>6, <3>1
    <3>3. e[p + 1].time \in T
      BY <2>1, <2>4, <2>6, <3>1, <3>2 DEF EndOf, T
    <3>. QED BY <1>6, <3>3
  <2>. QED BY <1>7, <2>5, <2>6 DEF Enclosed, e, p
<1>. QED BY <1>7, <1>8

\* Two categories with the same entries show the same.
LEMMA SameShown ==
  ASSUME NEW s, NEW q, q.entries = s.entries, NEW t
  PROVE  At(q, t) = At(s, t)
  BY DEF At

-----------------------------------------------------------------------------
(* The invariants                                                            *)

\* A lookup of a user, or nothing.
Looked ==
  /\ data' \in [Category -> States]
  /\ \A c \in Category : Good(data'[c]) /\ Same(data[c], data'[c])
  /\ UNCHANGED <<sliceTime, cache, limits, storeTime, hasChanged, listened>>

\* Each step looks, changes or updates.
LEMMA StepIs ==
  ASSUME ShortWindows, DataInv, [Next]_vars
  PROVE  Looked \/ Changed \/ \E t \in Now : Update(t)
<1>0. /\ data \in [Category -> States]
      /\ \A c \in Category : Good(data[c]) /\ Len(data[c].entries) <= MaxEntries /\ Same(data[c], data[c])
  BY DEF DataInv, Same
<1>1. ASSUME NEW d \in Category, NEW t \in Now, Ask(d, t) PROVE Looked
  <2>. DEFINE q == Lookup(data[d], t)
  <2>1. Good(q) /\ Same(data[d], q)
    BY <1>0, LookupIs DEF Times
  <2>2. /\ data' = [data EXCEPT ![d] = q]
        /\ UNCHANGED <<sliceTime, cache, limits, storeTime, hasChanged, listened>>
    BY <1>1 DEF Ask
  <2>3. q \in States
    BY <2>1 DEF Good
  <2>. HIDE DEF q
  <2>4. data' \in [Category -> States] /\ \A c \in Category : data'[c] = IF c = d THEN q ELSE data[c]
    BY <1>0, <2>2, <2>3
  <2>5. \A c \in Category : Good(data'[c]) /\ Same(data[c], data'[c])
    BY <1>0, <2>1, <2>4
  <2>. QED BY <2>2, <2>4, <2>5 DEF Looked
<1>2. ASSUME NEW t \in DataTimes, NEW named \in SUBSET Category \ {{}}, NEW entry \in [named -> Value],
             AddCategoryData(t, entry)
      PROVE  Changed
  BY <1>2, AddChanges
<1>3. ASSUME NEW t \in DataTimes, NEW c \in Category, NEW v \in Value, RemoveCategoryDataPoint(t, c, v)
      PROVE  Changed
  BY <1>3, RemoveChanges
<1>4. ASSUME NEW r \in FlushRanges, Flush(r.from, r.to) PROVE Changed
  BY <1>4, FlushChanges
<1>5. ASSUME NEW l \in LimitChoices, ChangeLimits(l) PROVE Changed
  BY <1>5, LimitsChange
<1>6. ASSUME UNCHANGED vars PROVE Looked
  BY <1>0, <1>6 DEF vars, Looked
<1>7. CASE Next
  BY <1>1, <1>2, <1>3, <1>4, <1>5, <1>7, FlushAllChanges DEF Next
<1>. QED BY <1>6, <1>7

LEMMA InitIs ==
  ASSUME Init
  PROVE  DataInv /\ CacheInv /\ ListenedInv
<1>1. NewState \in States /\ NewState.entries = <<>> /\ NewState.range = NoRange /\ Sorted(<<>>)
  <2>1. NoRange \in Ranges /\ 0 \in 0 .. MaxEntries
    BY TimesBounded DEF NoRange, Ranges
  <2>2. Sorted(<<>>)
    BY DEF Sorted
  <2>. QED BY <2>1, <2>2 DEF NewState, States
<1>2. Good(NewState) /\ Len(NewState.entries) <= MaxEntries
  BY <1>1, TimesBounded DEF Good, RangeKnown
<1>3. KnownFrom(NewState, NoValue)
  BY DEF KnownFrom, NewState
<1>4. NoLimit \in LimitChoices /\ NoRange \in Ranges
  <2>1. NoLimit \in LimitChoices
    BY CategoryAssumption
  <2>. QED BY <2>1, TimesBounded DEF NoRange, Ranges
<1>5. \A c \in Category : data[c] = NewState /\ listened[c] = NoValue
  BY DEF Init
<1>6. /\ data \in [Category -> States] /\ listened \in [Category -> Value \cup {NoValue}]
      /\ sliceTime = 0 /\ storeTime = 0 /\ limits = NoLimit /\ hasChanged = TRUE /\ cache = NoRange
  BY <1>1 DEF Init
<1>7. DataInv
  BY <1>2, <1>4, <1>5, <1>6 DEF DataInv
<1>. QED BY <1>3, <1>4, <1>5, <1>6, <1>7 DEF CacheInv, ListenedInv

\* The value at a time is one of the category, or there is none.
LEMMA AtIs ==
  ASSUME NEW s, Good(s), NEW t \in Times
  PROVE  /\ At(s, t) \in Value \cup {NoValue}
         /\ UpperBound(s.entries, t) = 0 => At(s, t) = NoValue
         /\ UpperBound(s.entries, t) # 0 =>
              /\ At(s, t) = s.entries[UpperBound(s.entries, t)].value
              /\ UpperBound(s.entries, t) \in 1 .. Len(s.entries)
<1>1. s.entries \in Seq(Pairs) /\ Sorted(s.entries) /\ Len(s.entries) \in Nat /\ t \in Int
  BY GoodIs, TimesBounded
<1>2. UpperBound(s.entries, t) \in 0 .. Len(s.entries)
  BY <1>1, UpperExists
<1>3. UpperBound(s.entries, t) # 0 => UpperBound(s.entries, t) \in 1 .. Len(s.entries)
  BY <1>1, <1>2
<1>. QED BY <1>1, <1>3, EntryTimes DEF At

LEMMA DataStep ==
  ASSUME ShortWindows, DataInv, [Next]_vars
  PROVE  DataInv'
<1>1. CASE Looked
  BY <1>1 DEF Looked, Same, DataInv
<1>2. CASE Changed
  BY <1>2 DEF Changed, DataInv
<1>3. ASSUME NEW t \in Now, Update(t) PROVE DataInv'
  <2>1. storeTime' = t /\ hasChanged' = FALSE /\ limits' = limits
    BY <1>3, UpdateIs
  <2>2. CASE UNCHANGED <<data, sliceTime, cache, listened>>
    BY <2>1, <2>2 DEF DataInv
  <2>3. CASE Refreshed(t)
    <3>1. /\ data' = [c \in Category |-> Updated(Found(c, t))] /\ sliceTime' = t
          /\ listened' = IF \E c \in Category : Reports(Found(c, t))
                         THEN [c \in Category |-> At(data[c], t)] ELSE listened
      BY <2>3 DEF Refreshed
    <3>2. ASSUME NEW c \in Category
          PROVE  /\ Good(data'[c]) /\ data'[c].entries = data[c].entries /\ data'[c] \in States
                 /\ At(data[c], t) \in Value \cup {NoValue}
      <4>1. Good(Updated(Found(c, t))) /\ Updated(Found(c, t)).entries = data[c].entries
        BY UpdatedIs
      <4>2. Good(data[c])
        BY DEF DataInv
      <4>3. data'[c] = Updated(Found(c, t))
        BY <3>1
      <4>. QED BY <4>1, <4>2, <4>3, AtIs DEF Times, Good
    <3>3. data' \in [Category -> States]
      BY <3>1, <3>2
    <3>4. listened' \in [Category -> Value \cup {NoValue}]
      BY <3>1, <3>2 DEF DataInv
    <3>. QED BY <2>1, <3>1, <3>2, <3>3, <3>4 DEF DataInv
  <2>. QED BY <1>3, <2>2, <2>3, UpdateIs
<1>. QED BY <1>1, <1>2, <1>3, StepIs

LEMMA CacheStep ==
  ASSUME ShortWindows, DataInv, CacheInv, [Next]_vars
  PROVE  CacheInv'
<1>0. NoRange \in Ranges
  BY TimesBounded DEF NoRange, Ranges
<1>1. CASE Looked
  BY <1>1 DEF Looked, Same, CacheInv, Enclosed
<1>2. CASE Changed
  <2>1. sliceTime' = sliceTime
    BY <1>2 DEF Changed
  <2>2. CASE cache' = NoRange
    BY <1>0, <2>2 DEF CacheInv
  <2>3. CASE cache' = cache /\ \A c \in Category : data'[c].entries = data[c].entries
    BY <2>1, <2>3 DEF CacheInv, Enclosed
  <2>. QED BY <1>2, <2>2, <2>3 DEF Changed
<1>3. ASSUME NEW t \in Now, Update(t) PROVE CacheInv'
  <2>1. CASE UNCHANGED <<data, sliceTime, cache, listened>>
    BY <2>1 DEF CacheInv, Enclosed
  <2>2. CASE Refreshed(t)
    <3>1. /\ data' = [c \in Category |-> Updated(Found(c, t))] /\ sliceTime' = t /\ cache' = NewCache(t)
      BY <2>2 DEF Refreshed
    <3>2. \A c \in Category : data'[c].entries = data[c].entries
      <4>1. \A c \in Category : Updated(Found(c, t)).entries = data[c].entries
        BY UpdatedIs
      <4>. QED BY <3>1, <4>1
    <3>3. /\ NewCache(t) \in Ranges
          /\ \A c \in Category : Enclosed(data[c].entries, t, NewCache(t))
      BY NewCacheIs
    <3>. DEFINE r == NewCache(t)
    <3>. HIDE DEF r
    <3>4. cache' = r /\ r \in Ranges /\ \A c \in Category : Enclosed(data[c].entries, t, r)
      BY <3>1, <3>3 DEF r
    <3>5. \A c \in Category : Enclosed(data'[c].entries, t, r)
      BY <3>2, <3>4
    <3>. QED BY <3>1, <3>4, <3>5 DEF CacheInv, Enclosed
  <2>. QED BY <1>3, <2>1, <2>2, UpdateIs
<1>. QED BY <1>1, <1>2, <1>3, StepIs

\* In the range of the cache each category has the place it has at the slice's time.
LEMMA SkippedIs ==
  ASSUME DataInv, CacheInv, NEW t \in Now, In(t, cache), NEW c \in Category
  PROVE  At(data[c], t) = At(data[c], sliceTime)
<1>. DEFINE e == data[c].entries
            p == UpperBound(e, sliceTime)
<1>1. t \in Int /\ sliceTime \in Int /\ t < MaxDouble /\ MaxDouble \in Int
  BY TimesBounded DEF DataInv
<1>2. e \in Seq(Pairs) /\ Sorted(e) /\ Len(e) \in Nat
  BY GoodIs DEF DataInv
<1>3. cache # NoRange
  BY <1>1 DEF In, NoRange
<1>4. Enclosed(e, sliceTime, cache) /\ cache.from \in Int /\ cache.to \in Int
  BY <1>3 DEF CacheInv, Ranges
<1>5. p \in 0 .. Len(e) /\ \A i \in 1 .. Len(e) : e[i].time \in Int
  BY <1>1, <1>2, UpperExists, EntryTimes
<1>6. cache.from <= t /\ t < cache.to
  BY DEF In
<1>7. (p > 0 => e[p].time <= cache.from) /\ (p < Len(e) => cache.to <= e[p + 1].time)
  BY <1>4 DEF Enclosed
<1>. HIDE DEF e, p
<1>8. p > 0 => e[p].time <= t
  <2>1. p > 0 => p \in 1 .. Len(e)
    BY <1>2, <1>5
  <2>. QED BY <1>1, <1>4, <1>5, <1>6, <1>7, <2>1
<1>9. p < Len(e) => e[p + 1].time > t
  <2>1. p < Len(e) => p + 1 \in 1 .. Len(e)
    BY <1>2, <1>5
  <2>. QED BY <1>1, <1>4, <1>5, <1>6, <1>7, <2>1
<1>10. UpperBound(e, t) = p
  BY <1>1, <1>2, <1>5, <1>8, <1>9, UpperIs
<1>. QED BY <1>10 DEF At, e, p

\* What no transaction does when the users do none of what listeners are not told of.
LEMMA ReportableIs ==
  ASSUME MayHappen = {}, Reportable(data, data'), NEW c \in Category
  PROVE  /\ data'[c].entries = <<>> => listened[c] = NoValue
         /\ Default(data[c].entries) # <<>> /\ data[c].lastTime = Static /\ listened[c] # NoValue
              => Default(data'[c].entries) # <<>>
         /\ listened[c] = NoValue /\ data[c].lastTime = Static /\ data'[c].entries # <<>>
              => Default(data'[c].entries) # <<Entry(Static, data[c].lastValue)>>
  BY DEF Reportable

\* What a listener knew before an update of a category that reports nothing is what
\* the category shows now.
LEMMA SilentIs ==
  ASSUME DataInv, NEW c \in Category, NEW t \in Now, KnownFrom(data[c], listened[c]),
         ~Reports(Found(c, t))
  PROVE  listened[c] = At(data[c], t)
<1>. DEFINE e == data[c].entries
            p == UpperBound(e, t)
            k == listened[c]
            f == Found(c, t)
            d == data[c]
<1>1. Good(data[c]) /\ t \in Times
  BY DEF DataInv, Times
<1>2. e \in Seq(Pairs) /\ Sorted(e) /\ Len(e) \in Nat /\ t \in Int /\ 0 <= t
  BY <1>1, GoodIs, TimesBounded
<1>3. /\ p \in 0 .. Len(e) /\ (p > 0 => e[p].time <= t) /\ (p < Len(e) => e[p + 1].time > t)
      /\ \A i \in 1 .. Len(e) : /\ e[i].time \in DataTimes /\ e[i].time \in Int /\ -1 <= e[i].time
                                /\ e[i].value \in Value /\ e[i] \in Pairs
  BY <1>2, UpperExists, EntryTimes
<1>4. /\ (p = 0 => At(d, t) = NoValue)
      /\ (p # 0 => At(d, t) = e[p].value /\ p \in 1 .. Len(e))
  BY <1>1, AtIs
<1>5. /\ e = <<>> => p = 0
      /\ e # <<>> /\ p = 0 => d.lastTime = Static
      /\ e # <<>> /\ p > 0 => (d.lastTime # Static \/ e[p].time = Static) /\ e[p].value = d.lastValue
  BY UpdatedIs
<1>6. /\ d.lastTime # Static => k = d.lastValue /\ k # NoValue
      /\ d.lastTime = Static /\ k # NoValue => k = d.lastValue /\ Default(e) # <<>>
      /\ d.lastTime = Static /\ k = NoValue /\ e # <<>> => Default(e) # <<Entry(Static, d.lastValue)>>
      /\ e = <<>> => k = NoValue
  BY DEF KnownFrom
<1>7. Default(e) # <<>> => Default(e) = <<e[1]>> /\ Len(e) >= 1 /\ e[1].time = Static
  BY <1>2, DefaultIs
<1>8. Static = -1
  BY TimesBounded
<1>. HIDE DEF e, p, k, f, d
<1>9. CASE p = 0
  <2>1. e # <<>> => Default(e) = <<>>
    <3>1. SUFFICES ASSUME Default(e) # <<>> PROVE FALSE
      OBVIOUS
    <3>2. 0 < Len(e) /\ 0 + 1 = 1 /\ e[1].time = Static
      BY <1>2, <1>7, <3>1
    <3>3. e[1].time > t
      BY <1>3, <1>9, <3>2
    <3>. QED BY <1>2, <1>8, <3>2, <3>3
  <2>2. k = NoValue
    BY <1>5, <1>6, <1>9, <2>1
  <2>. QED BY <1>4, <1>9, <2>2 DEF k, d
<1>10. CASE p # 0
  <2>1. p \in 1 .. Len(e) /\ p > 0 /\ e # <<>> /\ At(d, t) = e[p].value /\ e[p].value \in Value
    BY <1>2, <1>3, <1>4, <1>10
  <2>2. e[p].value = d.lastValue
    BY <1>5, <2>1
  <2>3. CASE d.lastTime # Static
    BY <1>6, <2>1, <2>2, <2>3 DEF k, d
  <2>4. CASE d.lastTime = Static
    <3>1. e[p].time = Static
      BY <1>5, <2>1, <2>4
    <3>2. p = 1
      <4>1. SUFFICES ASSUME p # 1 PROVE FALSE
        OBVIOUS
      <4>2. 1 \in 1 .. Len(e) /\ 1 < p
        BY <1>2, <2>1, <4>1
      <4>3. e[1].time < e[p].time /\ -1 <= e[1].time /\ e[1].time \in Int
        BY <1>2, <1>3, <2>1, <4>2 DEF Sorted
      <4>. QED BY <1>8, <3>1, <4>3
    <3>3. e[1] = Entry(Static, d.lastValue)
      <4>1. e[1] \in Pairs /\ e[1].time = Static /\ e[1].value = d.lastValue
        BY <1>3, <2>1, <2>2, <3>1, <3>2
      <4>. QED BY <4>1 DEF Pairs, Entry
    <3>4. Default(e) = <<Entry(Static, d.lastValue)>>
      BY <2>1, <3>1, <3>2, <3>3 DEF Default
    <3>5. k # NoValue
      BY <1>6, <2>1, <2>4, <3>4
    <3>. QED BY <1>6, <2>1, <2>2, <2>4, <3>5 DEF k, d
  <2>. QED BY <2>3, <2>4
<1>. QED BY <1>9, <1>10

\* After an update what a category left says what it shows.
LEMMA UpdatedKnown ==
  ASSUME DataInv, NEW c \in Category, NEW t \in Now, KnownFrom(data[c], listened[c])
  PROVE  KnownFrom(Updated(Found(c, t)), At(data[c], t))
<1>. DEFINE e == data[c].entries
            p == UpperBound(e, t)
            k == At(data[c], t)
            u == Updated(Found(c, t))
            d == data[c]
<1>1. Good(data[c]) /\ t \in Times
  BY DEF DataInv, Times
<1>2. e \in Seq(Pairs) /\ Sorted(e) /\ Len(e) \in Nat /\ t \in Int /\ 0 <= t
  BY <1>1, GoodIs, TimesBounded
<1>3. /\ p \in 0 .. Len(e) /\ (p < Len(e) => e[p + 1].time > t)
      /\ \A i \in 1 .. Len(e) : /\ e[i].time \in DataTimes /\ e[i].time \in Int /\ -1 <= e[i].time
                                /\ e[i].value \in Value
  BY <1>2, UpperExists, EntryTimes
<1>4. /\ (p = 0 => k = NoValue)
      /\ (p # 0 => k = e[p].value /\ p \in 1 .. Len(e))
  BY <1>1, AtIs
<1>5. /\ u.entries = e
      /\ e = <<>> => u.lastTime = d.lastTime /\ p = 0
      /\ e # <<>> /\ p = 0 => u.lastTime = Static
      /\ e # <<>> /\ p > 0 => u.lastTime = e[p].time /\ u.lastValue = e[p].value
  BY UpdatedIs
<1>6. e = <<>> => d.lastTime = Static
  BY DEF KnownFrom
<1>7. Default(e) # <<>> => Len(e) >= 1 /\ e[1].time = Static
  BY <1>2, DefaultIs
<1>8. Static = -1 /\ NoValue \notin Value
  BY TimesBounded, CategoryAssumption
<1>. HIDE DEF e, p, k, u, d
<1>9. CASE e = <<>>
  BY <1>4, <1>5, <1>6, <1>9 DEF KnownFrom, k, u
<1>10. CASE e # <<>> /\ p = 0
  <2>1. Default(e) = <<>>
    <3>1. SUFFICES ASSUME Default(e) # <<>> PROVE FALSE
      OBVIOUS
    <3>2. 0 < Len(e) /\ 0 + 1 = 1 /\ e[1].time = Static
      BY <1>2, <1>7, <3>1
    <3>3. e[1].time > t
      BY <1>3, <1>10, <3>2
    <3>. QED BY <1>2, <1>8, <3>2, <3>3
  <2>2. <<>> # <<Entry(Static, u.lastValue)>>
    OBVIOUS
  <2>. QED BY <1>4, <1>5, <1>10, <2>1, <2>2 DEF KnownFrom, k, u
<1>11. CASE e # <<>> /\ p # 0
  <2>1. p \in 1 .. Len(e) /\ p > 0 /\ k = e[p].value /\ k \in Value /\ k # NoValue
    BY <1>2, <1>3, <1>4, <1>8, <1>11
  <2>2. u.lastTime = e[p].time /\ u.lastValue = k
    BY <1>5, <1>11, <2>1
  <2>3. e[p].time = Static => Default(e) # <<>>
    <3>1. ASSUME e[p].time = Static PROVE e[1].time = Static
      <4>1. 1 \in 1 .. Len(e) /\ (p = 1 \/ 1 < p)
        BY <1>2, <2>1
      <4>2. 1 < p => e[1].time < e[p].time
        BY <1>2, <2>1, <4>1 DEF Sorted
      <4>. QED BY <1>3, <1>8, <3>1, <4>1, <4>2
    <3>. QED BY <1>11, <3>1 DEF Default
  <2>. QED BY <1>5, <1>11, <2>1, <2>2, <2>3 DEF KnownFrom, k, u
<1>. QED BY <1>9, <1>10, <1>11

LEMMA ListenedStep ==
  ASSUME ShortWindows, MayHappen = {}, DataInv, CacheInv, ListenedInv, ListenersCurrent, [Next]_vars
  PROVE  ListenedInv' /\ ListenersCurrent'
<1>1. CASE Looked
  <2>1. /\ \A c \in Category : /\ data'[c].entries = data[c].entries
                               /\ data'[c].lastValue = data[c].lastValue
                               /\ data'[c].lastTime = data[c].lastTime
        /\ UNCHANGED <<sliceTime, cache, limits, storeTime, hasChanged, listened>>
    BY <1>1 DEF Looked, Same
  <2>2. \A c \in Category : KnownFrom(data[c], listened[c])' <=> KnownFrom(data[c], listened[c])
    BY <2>1 DEF KnownFrom
  <2>3. ListenedInv'
    BY <2>1, <2>2 DEF ListenedInv, At
  <2>4. ListenersCurrent'
    BY <2>1 DEF ListenersCurrent, At
  <2>. QED BY <2>3, <2>4
<1>2. CASE Changed
  <2>1. /\ \A c \in Category : data'[c].lastValue = data[c].lastValue /\ data'[c].lastTime = data[c].lastTime
        /\ Reportable(data, data') /\ hasChanged' = TRUE
        /\ UNCHANGED <<sliceTime, listened>>
    BY <1>2 DEF Changed, Kept
  <2>2. ASSUME NEW c \in Category PROVE KnownFrom(data'[c], listened'[c])
    <3>1. KnownFrom(data[c], listened[c])
      BY DEF ListenedInv
    <3>2. /\ data'[c].entries = <<>> => listened[c] = NoValue
          /\ Default(data[c].entries) # <<>> /\ data[c].lastTime = Static /\ listened[c] # NoValue
               => Default(data'[c].entries) # <<>>
          /\ listened[c] = NoValue /\ data[c].lastTime = Static /\ data'[c].entries # <<>>
               => Default(data'[c].entries) # <<Entry(Static, data[c].lastValue)>>
      BY <2>1, ReportableIs
    <3>. QED BY <2>1, <3>1, <3>2 DEF KnownFrom
  <2>3. cache' # NoRange => listened' = [c \in Category |-> At(data'[c], sliceTime')]
    <3>1. CASE cache' = NoRange
      BY <3>1
    <3>2. CASE cache' = cache /\ \A c \in Category : data'[c].entries = data[c].entries
      BY <2>1, <3>2 DEF ListenedInv, At
    <3>. QED BY <1>2, <3>1, <3>2 DEF Changed
  <2>. QED BY <2>1, <2>2, <2>3 DEF ListenedInv, ListenersCurrent
<1>3. ASSUME NEW t \in Now, Update(t) PROVE ListenedInv' /\ ListenersCurrent'
  <2>1. storeTime' = t /\ hasChanged' = FALSE
    BY <1>3, UpdateIs
  <2>2. CASE In(t, cache) /\ UNCHANGED <<data, sliceTime, cache, listened>>
    <3>1. ListenedInv'
      BY <2>2 DEF ListenedInv, KnownFrom, At
    <3>2. cache # NoRange
      <4>1. t < MaxDouble /\ t \in Int /\ MaxDouble \in Int
        BY TimesBounded
      <4>. QED BY <2>2, <4>1 DEF In, NoRange
    <3>3. \A c \in Category : At(data[c], t) = At(data[c], sliceTime)
      BY <2>2, SkippedIs
    <3>4. listened = [c \in Category |-> At(data[c], t)]
      BY <3>2, <3>3 DEF ListenedInv
    <3>5. ListenersCurrent'
      BY <2>1, <2>2, <3>4 DEF ListenersCurrent, At
    <3>. QED BY <3>1, <3>5
  <2>3. CASE Refreshed(t)
    <3>1. /\ data' = [c \in Category |-> Updated(Found(c, t))] /\ sliceTime' = t
          /\ listened' = IF \E c \in Category : Reports(Found(c, t))
                         THEN [c \in Category |-> At(data[c], t)] ELSE listened
      BY <2>3 DEF Refreshed
    <3>2. \A c \in Category : KnownFrom(data[c], listened[c])
      BY DEF ListenedInv
    <3>3. listened' = [c \in Category |-> At(data[c], t)]
      <4>1. CASE \E c \in Category : Reports(Found(c, t))
        BY <3>1, <4>1
      <4>2. CASE ~\E c \in Category : Reports(Found(c, t))
        <5>1. \A c \in Category : listened[c] = At(data[c], t)
          BY <3>2, <4>2, SilentIs
        <5>2. listened = [c \in Category |-> listened[c]]
          BY DEF DataInv
        <5>. QED BY <3>1, <4>2, <5>1, <5>2
      <4>. QED BY <4>1, <4>2
    <3>4. ASSUME NEW c \in Category
          PROVE  data'[c] = Updated(Found(c, t)) /\ data'[c].entries = data[c].entries
      <4>1. Updated(Found(c, t)).entries = data[c].entries
        BY UpdatedIs
      <4>. QED BY <3>1, <4>1
    <3>5. ASSUME NEW c \in Category PROVE KnownFrom(data'[c], listened'[c])
      <4>1. KnownFrom(Updated(Found(c, t)), At(data[c], t))
        BY <3>2, UpdatedKnown
      <4>. QED BY <3>3, <3>4, <4>1
    <3>6. \A c \in Category : At(data'[c], t) = At(data[c], t)
      BY <3>4 DEF At
    <3>7. listened' = [c \in Category |-> At(data'[c], t)]
      BY <3>3, <3>6
    <3>8. ListenedInv'
      BY <3>1, <3>5, <3>7 DEF ListenedInv
    <3>9. ListenersCurrent'
      BY <2>1, <3>7 DEF ListenersCurrent
    <3>. QED BY <3>8, <3>9
  <2>. QED BY <1>3, <2>2, <2>3, UpdateIs
<1>. QED BY <1>1, <1>2, <1>3, StepIs

-----------------------------------------------------------------------------
(* Theorems                                                                  *)

LEMMA Invariants == ShortWindows /\ Spec => [](DataInv /\ CacheInv)
<1>. SUFFICES ASSUME ShortWindows PROVE Spec => [](DataInv /\ CacheInv)
  OBVIOUS
<1>1. Init => DataInv /\ CacheInv
  BY InitIs
<1>2. DataInv /\ CacheInv /\ [Next]_vars => (DataInv /\ CacheInv)'
  BY DataStep, CacheStep
<1>. QED BY <1>1, <1>2, PTL DEF Spec

LEMMA WellFormedFrom ==
  ASSUME DataInv
  PROVE  WellFormed
<1>1. ASSUME NEW c \in Category
      PROVE  /\ Range(data[c].entries) \subseteq [time : DataTimes, value : Value]
             /\ data[c].lastPos \in 0 .. MaxEntries
             /\ data[c].lastValue \in Value \cup {NoValue} /\ data[c].lastTime \in DataTimes \cup {Static}
             /\ Sorted(data[c].entries) /\ Len(data[c].entries) \in Nat
  <2>1. Good(data[c])
    BY DEF DataInv
  <2>2. data[c] \in States /\ data[c].entries \in Seq(Pairs) /\ Sorted(data[c].entries)
        /\ Len(data[c].entries) \in Nat
    BY <2>1, GoodIs
  <2>3. Range(data[c].entries) \subseteq Pairs
    BY <2>2 DEF Range
  <2>. QED BY <2>2, <2>3 DEF States, Pairs
<1>2. TypeOK
  BY <1>1 DEF TypeOK, DataInv
<1>3. OncePerTime
  <2>1. ASSUME NEW c \in Category, NEW i \in 1 .. MaxEntries, NEW j \in 1 .. MaxEntries,
               i < j, j <= Len(data[c].entries)
        PROVE  data[c].entries[i].time < data[c].entries[j].time
    <3>1. i \in 1 .. Len(data[c].entries) /\ j \in 1 .. Len(data[c].entries)
      BY <1>1, <2>1
    <3>. QED BY <1>1, <2>1, <3>1 DEF Sorted
  <2>. QED BY <2>1 DEF OncePerTime
<1>. QED BY <1>2, <1>3 DEF WellFormed

(* At all times the entries of a category have the types the code gives them *)
(* and one entry for a time, in the order of time, through inserts, removals,*)
(* flushes and limits of the entity's preferences (CategoryDataSlice).       *)
THEOREM EntriesAlwaysInOrder == ShortWindows /\ Spec => []WellFormed
<1>1. DataInv /\ CacheInv => WellFormed
  BY WellFormedFrom
<1>. QED BY <1>1, Invariants, PTL

(* A lookup of any time finds what std::upper_bound finds, whatever place    *)
(* and range the last lookup and the edits since have left behind.           *)
THEOREM LookupsAlwaysExact == ShortWindows /\ Spec => []LookupExact
<1>1. DataInv /\ CacheInv => LookupExact
  <2>. SUFFICES ASSUME DataInv, NEW c \in Category, NEW t \in Now \cup DataTimes
                PROVE  Lookup(data[c], t).lastPos = UpperBound(data[c].entries, t)
    BY DEF LookupExact
  <2>1. Good(data[c]) /\ Len(data[c].entries) <= MaxEntries
    BY DEF DataInv
  <2>. QED BY <2>1, LookupIs DEF Times
<1>. QED BY <1>1, Invariants, PTL

(* The times for which the cache of the data store skips the slice are times *)
(* at which all the categories have the values they show.                    *)
THEOREM CacheAlwaysSound == ShortWindows /\ Spec => []CacheSound
<1>1. DataInv /\ CacheInv => CacheSound
  BY SkippedIs DEF CacheSound
<1>. QED BY <1>1, Invariants, PTL

(* After update() a listener that reads the values when it is told of a      *)
(* change knows those of the time updated to, if the users empty no category *)
(* that has a value, and set and take no default values in between.          *)
THEOREM ListenersAlwaysCurrent == ShortWindows /\ MayHappen = {} /\ Spec => []ListenersCurrent
<1>. DEFINE Inv == DataInv /\ CacheInv /\ ListenedInv /\ ListenersCurrent
<1>. SUFFICES ASSUME ShortWindows, MayHappen = {} PROVE Spec => []ListenersCurrent
  OBVIOUS
<1>1. Init => Inv
  <2>1. Init => ListenersCurrent
    BY DEF Init, ListenersCurrent
  <2>. QED BY <2>1, InitIs
<1>2. Inv /\ [Next]_vars => Inv'
  BY DataStep, CacheStep, ListenedStep
<1>. QED BY <1>1, <1>2, PTL DEF Spec
=============================================================================
