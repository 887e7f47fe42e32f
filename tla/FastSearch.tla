------------------------------ MODULE FastSearch ------------------------------
(***************************************************************************)
(* The searches of a MemoryDataSlice.  They start from fastUpdate_, the    *)
(* place of the previous search, look at FastSearchWidth neighbours and    *)
(* fall back on a binary search.  Inserts, flushes and data limiting move  *)
(* the points while the hint stays, so it may be any position.             *)
(*                                                                         *)
(* A position is 1 .. Len + 1; the last one is end().  The names differ    *)
(* from those of UpdateSlice, whose points these searches are over.        *)
(***************************************************************************)
EXTENDS Integers, Sequences, SequencesExt, TimeSets

CONSTANTS
  SearchTimes,       \* the times searched for
  StoredTimes,       \* the times of the points
  FastSearchWidth    \* how many neighbours are looked at

StaticTime == -1

ASSUME FastTimesAssumption == SearchTimes \subseteq Nat /\ StoredTimes \subseteq Nat \cup {StaticTime}
ASSUME FastWidthAssumption == FastSearchWidth \in Nat \ {0}

VARIABLES
  searched,  \* the times of the points (updates_)
  hint       \* fastUpdate_, as the offset it keeps

searchVars == <<searched, hint>>

End(S) == Len(S) + 1

-----------------------------------------------------------------------------
(* The reference: std::lower_bound and std::upper_bound                    *)

LowerBound(S, t) ==
  CHOOSE i \in 1 .. End(S) : (\A j \in 1 .. i - 1 : S[j] < t) /\ (i # End(S) => S[i] >= t)

UpperBound(S, t) ==
  CHOOSE i \in 1 .. End(S) : (\A j \in 1 .. i - 1 : S[j] <= t) /\ (i # End(S) => S[i] > t)

-----------------------------------------------------------------------------
(* The searches                                                            *)

\* The positions a loop of the search looks at, forward and backward from at
Ahead(S, at)  == {i \in at .. Len(S) : i < at + FastSearchWidth}
Behind(at)    == {i \in 2 .. at : i > at - FastSearchWidth}

\* mutant: takes the end for reached one point too early
AllSeenEarly(S, at) == at + FastSearchWidth >= Len(S)

\* The forward loop got to the end of the slice.
AllSeen(S, at) == at + FastSearchWidth >= End(S)

\* computeLowerBound
ComputeLowerBound(S, at, t) ==
  LET ahead  == {i \in Ahead(S, at) : S[i] >= t}
      behind == {i \in Behind(at) : S[i] < t}
  IN  IF at = End(S) THEN LowerBound(S, t)
      ELSE IF S[at] <= t
      THEN IF ahead # {} THEN The(Least(ahead))
           ELSE IF AllSeen(S, at) THEN End(S) ELSE LowerBound(S, t)
      ELSE IF behind # {} THEN The(Greatest(behind)) + 1 ELSE LowerBound(S, t)

\* mutant: takes the first point for reached one point too early
FirstSeenEarly(at) == at <= FastSearchWidth + 2

\* The backward loop got to the first point.
FirstSeen(at) == at <= FastSearchWidth + 1

\* computeUpperBound; unlike the lower bound it looks at the first point, too
ComputeUpperBound(S, at, t) ==
  LET ahead  == {i \in Ahead(S, at) : S[i] > t}
      behind == {i \in Behind(at) : S[i] <= t}
  IN  IF at = End(S) THEN UpperBound(S, t)
      ELSE IF S[at] <= t
      THEN IF ahead # {} THEN The(Least(ahead))
           ELSE IF AllSeen(S, at) THEN End(S) ELSE UpperBound(S, t)
      ELSE IF behind # {} THEN The(Greatest(behind)) + 1
      ELSE IF FirstSeen(at) THEN IF S[1] <= t THEN 2 ELSE 1
      ELSE UpperBound(S, t)

\* computeTimeUpdate: the point at or before t, end() when there is none
ComputeTimeUpdate(S, at, t) ==
  LET i == ComputeLowerBound(S, at, t)
  IN  IF S = << >> THEN End(S)
      ELSE IF i = End(S) THEN i - 1
      ELSE IF S[i] <= t THEN i
      ELSE IF i = 1 THEN End(S) ELSE i - 1

\* computeTimeUpdate with an interpolator: where it leaves the iterator
ComputeInterpolated(S, at, t) ==
  LET i == ComputeUpperBound(S, at, t)
  IN  IF S = << >> THEN at ELSE IF i = 1 THEN 1 ELSE i - 1

\* deltaTime(): the age of the current point, -1 without one or for a static one
DeltaTime(S, at, t) ==
  LET i == ComputeLowerBound(S, at, t)
  IN  IF S = << >> \/ t < 0 THEN -1
      ELSE IF i # End(S) /\ S[i] = t THEN 0
      ELSE IF i = 1 \/ S[i - 1] < 0 THEN -1
      ELSE t - S[i - 1]

-----------------------------------------------------------------------------
(* The slice                                                               *)

\* SafeDequeIterator::get
Position(S, offset) == IF offset > Len(S) THEN End(S) ELSE offset + 1

Hint == Position(searched, hint)

Search(found) == hint' = found - 1 /\ UNCHANGED searched

\* update(time) and the other searches, all of which move the hint
SearchAt(t) ==
  \/ Search(ComputeTimeUpdate(searched, Hint, t))
  \/ Search(ComputeInterpolated(searched, Hint, t))
  \/ Search(ComputeLowerBound(searched, Hint, t))
  \/ Search(ComputeUpperBound(searched, Hint, t))

\* mutant: every point goes to the end
InsertedLast(S, p) == End(S)

InsertPosition(S, p) == IF S = << >> \/ S[Len(S)] < p THEN End(S) ELSE LowerBound(S, p)

\* insert: a point that replaces another leaves the hint alone
InsertPoint(p) ==
  LET at == InsertPosition(searched, p)
  IN  IF at # End(searched) /\ searched[at] = p THEN UNCHANGED searchVars
      ELSE searched' = InsertAt(searched, at, p) /\ hint' = Len(searched')

\* The points of [start, end) lie between two lower bounds.
Erased(S, start, end) ==
  LET first == LowerBound(S, start)
  IN  IF first = End(S) \/ S[first] >= end THEN S
      ELSE SubSeq(S, 1, first - 1) \o SubSeq(S, LowerBound(S, end), Len(S))

\* flush(start, end) does not tell the hint.
FlushPoints(start, end) ==
  /\ searched' = Erased(searched, start, end)
  /\ UNCHANGED hint

\* limitByPoints and limitByTime keep the newest points.
LimitPoints(n) ==
  /\ n < Len(searched)
  /\ searched' = SubSeq(searched, Len(searched) - n + 1, Len(searched))
  /\ hint' = n

SearchInit == searched = << >> /\ hint = 0

SearchNext ==
  \/ \E t \in SearchTimes : SearchAt(t)
  \/ \E p \in StoredTimes : InsertPoint(p)
  \/ \E start, end \in SearchTimes : FlushPoints(start, end)
  \/ \E n \in 1 .. Len(searched) : LimitPoints(n)

SearchSpec == SearchInit /\ [][SearchNext]_searchVars
-----------------------------------------------------------------------------
(* Properties                                                              *)

Increasing(S) == \A i, j \in DOMAIN S : i < j => S[i] < S[j]

\* The points are in time order without duplicates, and the hint is an offset.
SearchTypeOK ==
  /\ searched \in Seq(StoredTimes) /\ Increasing(searched)
  /\ hint \in Nat

\* Whatever happened to the points since the last search, the hint never
\* changes what a search finds (computeLowerBound, computeUpperBound).
SearchIsExact ==
  \A t \in SearchTimes :
    /\ ComputeLowerBound(searched, Hint, t) = LowerBound(searched, t)
    /\ ComputeUpperBound(searched, Hint, t) = UpperBound(searched, t)

\* The point update(time) shows, and the age deltaTime() reports, are those of
\* the most recent point at or before the time.
UpdateIsLatest ==
  \A t \in SearchTimes :
    LET past == {i \in DOMAIN searched : searched[i] <= t}
    IN  /\ {ComputeTimeUpdate(searched, Hint, t)} = IF past = {} THEN {End(searched)} ELSE Greatest(past)
        /\ DeltaTime(searched, Hint, t) =
             IF past = {} \/ searched[The(Greatest(past))] = StaticTime THEN -1
             ELSE t - searched[The(Greatest(past))]
=============================================================================
