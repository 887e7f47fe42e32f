-------------------------- MODULE UpdateSliceProofs --------------------------
(***************************************************************************)
(* Proofs about UpdateSlice, for every set of times, points, preferences   *)
(* and settings.                                                           *)
(*                                                                         *)
(* BracketKnown and BracketStored are not inductive: an update keeps them  *)
(* only because the window the cache remembers is unset or that of the     *)
(* points the slice holds now.  CacheInv adds that.                        *)
(*                                                                         *)
(* CurrentIsLatest and RangeSound need to know what every early out takes  *)
(* for granted: CurrentInv says what a current point, a range, a bracket   *)
(* and a flag were left with by the call that set them.                    *)
(*                                                                         *)
(* The last part is about the searches of a slice (FastSearch).            *)
(***************************************************************************)
EXTENDS UpdateSlice, FastSearch, TimeSetsProofs, SequenceTheorems, FiniteSetTheorems

\* The window is unset, or that of the points the slice holds now.
WindowFresh == window \in {NoWindow, SliceWindow}

CacheInv == TypeOK /\ WindowFresh /\ BracketStored /\ BracketKnown

Ranges  == [lo : -1 .. MaxDouble, hi : (-MaxDouble) .. MaxDouble]
Windows == [first : -1 .. MaxDouble, last : (-MaxDouble) .. MaxDouble, size : Nat]

-----------------------------------------------------------------------------
(* Operators                                                               *)

\* The points of a slice are between -1 and the largest double.
LEMMA PointsBounded ==
  /\ PointTimes \subseteq -1 .. MaxDouble - 1
  /\ Times \subseteq 0 .. MaxDouble - 1
  /\ MaxDouble \in Nat \ {0}
  BY TimesAssumption, MaxAssumption DEF Static

\* Neighbours of a time are points of the slice.
LEMMA NeighboursStored ==
  ASSUME NEW t
  PROVE  AtOrBefore(t) \subseteq updates /\ After(t) \subseteq updates
  BY DEF AtOrBefore, After, Least, Greatest

\* A slice with points has one on one side of every time.
LEMMA NeighbourExists ==
  ASSUME updates \subseteq PointTimes, updates # {}, NEW t \in Times
  PROVE  AtOrBefore(t) # {} \/ After(t) # {}
<1>. DEFINE B == {p \in updates : p <= t}
            A == {p \in updates : p > t}
<1>1. updates \subseteq Int /\ t \in Int
  BY PointsBounded
<1>2. B # {} \/ A # {}
  <2>1. PICK p \in updates : TRUE
    OBVIOUS
  <2>2. p <= t \/ p > t
    BY <1>1
  <2>3. p \in B \/ p \in A
    BY <2>2
  <2>. QED BY <2>3
<1>3. B \in SUBSET (-1 .. MaxDouble - 1) /\ A \in SUBSET (-1 .. MaxDouble - 1)
  BY PointsBounded
<1>4. (MaxDouble - 1) \in Int /\ -1 \in Int
  BY PointsBounded
<1>5. (B # {} => Greatest(B) # {}) /\ (A # {} => Least(A) # {})
  <2>. HIDE DEF A, B
  <2>. QED BY <1>3, <1>4, BoundedExtremes
<1>. QED BY <1>2, <1>5 DEF AtOrBefore, After

\* firstTime(), lastTime() and numItems() are in their types.
LEMMA SliceWindowType ==
  ASSUME updates \subseteq PointTimes
  PROVE  SliceWindow \in Windows /\ (updates # {} => SliceWindow.size # 0)
<1>1. CASE updates = {}
  BY <1>1, PointsBounded DEF SliceWindow, NoWindow, Windows
<1>2. CASE updates # {}
  <2>1. updates \in SUBSET (-1 .. MaxDouble - 1) /\ (MaxDouble - 1) \in Int /\ -1 \in Int
    BY PointsBounded
  <2>2. Least(updates) # {} /\ Greatest(updates) # {}
    BY <1>2, <2>1, BoundedExtremes
  <2>3. The(Least(updates)) \in updates /\ The(Greatest(updates)) \in updates
    BY <2>2, TheLeast, TheGreatest
  <2>4. IsFiniteSet(-1 .. MaxDouble - 1)
    BY <2>1, FS_Interval
  <2>5. IsFiniteSet(updates)
    BY <2>1, <2>4, FS_Subset
  <2>6. Cardinality(updates) \in Nat /\ Cardinality(updates) # 0
    BY <1>2, <2>5, FS_CardinalityType, FS_EmptySet
  <2>7. /\ The(Least(updates)) \in -1 .. MaxDouble
        /\ The(Greatest(updates)) \in (-MaxDouble) .. MaxDouble
    <3>. DEFINE f == The(Least(updates))
                l == The(Greatest(updates))
    <3>1. f \in -1 .. MaxDouble - 1 /\ l \in -1 .. MaxDouble - 1 /\ MaxDouble \in Nat /\ MaxDouble # 0
      BY <2>1, <2>3, PointsBounded
    <3>. HIDE DEF f, l
    <3>2. f \in -1 .. MaxDouble /\ l \in (-MaxDouble) .. MaxDouble
      BY <3>1
    <3>. QED BY <3>2 DEF f, l
  <2>. QED BY <1>2, <2>6, <2>7 DEF SliceWindow, Windows
<1>. QED BY <1>1, <1>2

\* The range around a time is a range.
LEMMA RangeAroundType ==
  ASSUME updates \subseteq PointTimes, NEW t
  PROVE  RangeAround(t) \in Ranges
<1>1. AtOrBefore(t) # {} => The(AtOrBefore(t)) \in PointTimes
  BY NeighboursStored, TheIsMember
<1>2. After(t) # {} => The(After(t)) \in PointTimes
  BY NeighboursStored, TheIsMember
<1>. DEFINE a == The(AtOrBefore(t))
            b == The(After(t))
<1>3. (AtOrBefore(t) # {} => a \in -1 .. MaxDouble - 1) /\ (After(t) # {} => b \in -1 .. MaxDouble - 1)
  BY <1>1, <1>2, PointsBounded
<1>. HIDE DEF a, b
<1>4. /\ 0 \in -1 .. MaxDouble /\ MaxDouble \in (-MaxDouble) .. MaxDouble
      /\ \A x \in -1 .. MaxDouble - 1 : x \in -1 .. MaxDouble /\ x \in (-MaxDouble) .. MaxDouble
  BY PointsBounded
<1>5. /\ (IF AtOrBefore(t) = {} THEN 0 ELSE a) \in -1 .. MaxDouble
      /\ (IF After(t) = {} THEN MaxDouble ELSE b) \in (-MaxDouble) .. MaxDouble
  BY <1>3, <1>4, Zenon
<1>. QED BY <1>5 DEF RangeAround, Ranges, a, b

LEMMA TruncatedType ==
  ASSUME NEW r \in Ranges, NEW w \in Windows
  PROVE  Truncated(r, w) \in Ranges
  BY PointsBounded DEF Truncated, Ranges, Windows

\* What current_ may be set to is a pointer.
LEMMA PointerTypes ==
  /\ NoUpdate \in Pointers
  /\ \A p \in PointerTimes : Point(p) \in Pointers /\ Freed(p) \in Pointers
  /\ \A t, p, q \in PointerTimes : Interp(t, p, q) \in Pointers
  /\ PointTimes \cup Times \subseteq PointerTimes
  BY DEF NoUpdate, Point, Freed, Interp, Pointers, PointerTimes

LEMMA LatestPointType ==
  ASSUME updates \subseteq PointTimes, NEW t
  PROVE  LatestPoint(t) \in Pointers
<1>1. AtOrBefore(t) # {} => The(AtOrBefore(t)) \in PointTimes
  BY NeighboursStored, TheIsMember
<1>. QED BY <1>1, PointerTypes DEF LatestPoint

LEMMA InterpolatedPointType ==
  ASSUME updates \subseteq PointTimes, NEW t \in Times
  PROVE  InterpolatedPoint(t) \in Pointers
<1>1. AtOrBefore(t) # {} => The(AtOrBefore(t)) \in PointTimes
  BY NeighboursStored, TheIsMember
<1>2. After(t) # {} => The(After(t)) \in PointTimes
  BY NeighboursStored, TheIsMember
<1>3. CASE t \in updates \/ AtOrBefore(t) = {} \/ After(t) = {}
  BY <1>3, LatestPointType DEF InterpolatedPoint
<1>4. CASE ~(t \in updates \/ AtOrBefore(t) = {} \/ After(t) = {})
  <2>1. InterpolatedPoint(t) = Interp(t, The(AtOrBefore(t)), The(After(t)))
    BY <1>4 DEF InterpolatedPoint
  <2>. QED BY <1>1, <1>2, <1>4, <2>1, PointerTypes
<1>. QED BY <1>3, <1>4

\* setCurrent() keeps the types of what it sets.
LEMMA SetCurrentType ==
  ASSUME NEW c \in Pointers, NEW b \in BOOLEAN, SetCurrent(c, b)
  PROVE  current' \in Pointers /\ changed' \in BOOLEAN
  BY DEF SetCurrent

\* Data limiting only deletes.
LEMMA LimitDeletes ==
  ASSUME NEW S, NEW p
  PROVE  LimitByPrefs(S, p) \subseteq S
  BY DEF LimitByPrefs, LimitByTime, LimitByPoints

LEMMA AfterDeletingType ==
  ASSUME NEW c \in Pointers, NEW kept
  PROVE  AfterDeleting(c, kept) \in Pointers
<1>1. c.t \in PointerTimes
  BY DEF Pointers
<1>. QED BY <1>1, PointerTypes DEF AfterDeleting

\* The end points of a bracket are points of the slice.
LEMMA BracketType ==
  ASSUME TypeOK, BracketStored, NEW t
  PROVE  /\ Bracket(t).range \in Ranges
         /\ Bracket(t).first \subseteq updates
         /\ Bracket(t).last \subseteq updates
<1>1. range \in Ranges /\ updates \subseteq PointTimes
  BY DEF TypeOK, Ranges
<1>2. NoRange \in Ranges
  BY PointsBounded DEF NoRange, Ranges
<1>3. RangeAround(t) \in Ranges
  BY <1>1, RangeAroundType
<1>. QED BY <1>1, <1>2, <1>3, NeighboursStored DEF Bracket, BracketStored

LEMMA InterpolatedType ==
  ASSUME TypeOK, BracketStored, NEW t \in Times, NEW w
  PROVE  Interpolated(t, Bracket(t), w) \in Pointers
<1>1. /\ Bracket(t).first # {} => The(Bracket(t).first) \in PointerTimes
      /\ Bracket(t).last  # {} => The(Bracket(t).last) \in PointerTimes
      /\ t \in PointerTimes
  BY BracketType, TheIsMember, PointerTypes DEF TypeOK
<1>. HIDE DEF Bracket
<1>. QED BY <1>1, PointerTypes, Zenon DEF Interpolated

-----------------------------------------------------------------------------
(* The invariant                                                           *)

LEMMA InitInv == Init => CacheInv
<1>. SUFFICES ASSUME Init PROVE CacheInv
  OBVIOUS
<1>1. NoRange \in Ranges /\ NoWindow \in Windows
  BY PointsBounded DEF NoRange, NoWindow, Ranges, Windows
<1>2. cached \in [datadraw : BOOLEAN, interpolatepos : BOOLEAN,
                  lifespanmode : {"FIRST_LAST_POINT", "EXTEND_SINGLE_POINT"}]
  BY PrefAssumption DEF Init, CachedPrefs
<1>3. TypeOK
  BY <1>1, <1>2, PointerTypes DEF Init, TypeOK, Ranges, Windows
<1>. QED BY <1>3 DEF Init, CacheInv, WindowFresh, BracketStored, BracketKnown

\* A reset keeps the cache consistent with any points.
LEMMA ResetInv ==
  ASSUME Reset
  PROVE  /\ range' \in Ranges /\ window' \in Windows
         /\ entry1' = {} /\ entry2' = {}
         /\ WindowFresh' /\ BracketStored' /\ BracketKnown'
<1>1. NoRange \in Ranges /\ NoWindow \in Windows
  BY PointsBounded DEF NoRange, NoWindow, Ranges, Windows
<1>. QED BY <1>1 DEF Reset, WindowFresh, BracketStored, BracketKnown

\* PlatformCache::update, whatever path it takes
LEMMA UpdatePlatformInv ==
  ASSUME CacheInv, NEW t \in Times, UpdatePlatform(t),
         UNCHANGED <<prefs, released, interpolation, fileMode, limiting>>
  PROVE  /\ current' \in Pointers /\ dirty' \in BOOLEAN /\ changed' \in BOOLEAN
         /\ range' \in Ranges /\ window' \in Windows
         /\ needToClear' \in BOOLEAN /\ needToSetToNull' \in BOOLEAN
         /\ WindowFresh' /\ BracketStored' /\ BracketKnown'
<1>. USE DEF CacheInv
<1>. DEFINE w == IF window = NoWindow THEN SliceWindow ELSE window
<1>0. /\ TypeOK /\ updates \subseteq PointTimes /\ range \in Ranges
      /\ current \in Pointers /\ dirty \in BOOLEAN /\ changed \in BOOLEAN
      /\ needToClear \in BOOLEAN /\ needToSetToNull \in BOOLEAN
  BY DEF TypeOK, Ranges
<1>1. w = SliceWindow /\ w \in Windows /\ (updates # {} => w.size # 0)
  BY <1>0, SliceWindowType DEF WindowFresh
<1>2. window' = w /\ updates' = updates /\ cached' = cached
  BY DEF UpdatePlatform
<1>3. SliceWindow' = SliceWindow /\ IsInterpolated' = IsInterpolated
  BY <1>2 DEF SliceWindow, IsInterpolated
<1>4. window' \in Windows /\ WindowFresh'
  BY <1>1, <1>2, <1>3 DEF WindowFresh
<1>5. NotDrawn \/ UpToDate(t) \/ Expired(t, w) \/ Active(t, w)
  BY DEF UpdatePlatform
<1>6. NoRange \in Ranges /\ EntireRange \in Ranges
  BY PointsBounded DEF NoRange, EntireRange, Ranges
<1>. HIDE DEF w
<1>7. CASE NotDrawn
  <2>1. current' \in Pointers /\ changed' \in BOOLEAN
    BY <1>0, <1>7, SetCurrentType, PointerTypes DEF NotDrawn
  <2>. QED BY <1>0, <1>2, <1>3, <1>4, <1>7, <2>1 DEF NotDrawn, BracketStored, BracketKnown
<1>8. CASE UpToDate(t)
  BY <1>0, <1>2, <1>3, <1>4, <1>8 DEF UpToDate, BracketStored, BracketKnown
<1>9. CASE Expired(t, w)
  <2>1. current' \in Pointers /\ changed' \in BOOLEAN /\ range' \in {range, NoRange}
    <3>1. CASE needToSetToNull
      BY <1>0, <1>9, <3>1, SetCurrentType, PointerTypes DEF Expired
    <3>2. CASE ~needToSetToNull
      BY <1>0, <1>9, <3>2 DEF Expired
    <3>. QED BY <3>1, <3>2
  <2>. QED BY <1>0, <1>2, <1>3, <1>4, <1>6, <1>9, <2>1 DEF Expired, BracketStored, BracketKnown
<1>10. CASE Active(t, w)
  <2>1. needToClear' \in BOOLEAN /\ needToSetToNull' \in BOOLEAN
    BY <1>10 DEF Active
  <2>2. CASE ~IsInterpolated /\ UpdateStepwise(t, w)
    <3>1. RangeAround(t) \in Ranges /\ LatestPoint(t) \in Pointers
      BY <1>0, RangeAroundType, LatestPointType
    <3>2. range' \in Ranges /\ dirty' \in BOOLEAN
      BY <1>0, <1>1, <1>6, <2>2, <3>1, TruncatedType DEF UpdateStepwise
    <3>3. current' \in Pointers /\ changed' \in BOOLEAN
      BY <1>0, <2>2, <3>1, SetCurrentType DEF UpdateStepwise
    <3>. QED BY <1>2, <1>3, <1>4, <2>1, <2>2, <3>2, <3>3
         DEF UpdateStepwise, BracketStored, BracketKnown
  <2>3. CASE IsInterpolated /\ UpdateInternally(t, w)
    <3>1. Interpolated(t, Bracket(t), w) \in Pointers
      BY <1>0, InterpolatedType
    <3>2. current' \in Pointers /\ changed' \in BOOLEAN /\ dirty' \in BOOLEAN
      BY <1>0, <2>3, <3>1, SetCurrentType DEF UpdateInternally
    <3>3. range' \in Ranges /\ entry1' \subseteq updates /\ entry2' \subseteq updates
      BY <1>0, <2>3, BracketType DEF UpdateInternally, BracketStored
    <3>4. ASSUME Bracket(t).range # NoRange
          PROVE  Bracket(t).first \cup Bracket(t).last # {}
      <4>1. CASE t < range.lo \/ t > range.hi
        <5>1. updates # {}
          BY <3>4, <4>1 DEF Bracket
        <5>2. AtOrBefore(t) # {} \/ After(t) # {}
          BY <1>0, <5>1, NeighbourExists
        <5>. QED BY <4>1, <5>2 DEF Bracket
      <4>2. CASE ~(t < range.lo \/ t > range.hi)
        BY <2>3, <3>4, <4>2 DEF Bracket, BracketKnown
      <4>. QED BY <4>1, <4>2
    <3>5. BracketKnown'
      <4>1. CASE UNCHANGED <<range, entry1, entry2>>
        BY <1>3, <2>3, <4>1 DEF BracketKnown
      <4>2. CASE /\ range' = Bracket(t).range
                 /\ entry1' = Bracket(t).first /\ entry2' = Bracket(t).last
        BY <3>4, <4>2 DEF BracketKnown
      <4>. QED BY <2>3, <4>1, <4>2 DEF UpdateInternally
    <3>. QED BY <1>2, <1>4, <2>1, <3>2, <3>3, <3>5 DEF BracketStored
  <2>4. CASE IsInterpolated /\ UpdateExternally(t)
    <3>1. InterpolatedPoint(t) \in Pointers
      BY <1>0, InterpolatedPointType
    <3>2. current' \in Pointers /\ changed' \in BOOLEAN /\ dirty' \in BOOLEAN
      BY <1>0, <2>4, <3>1, SetCurrentType DEF UpdateExternally
    <3>. QED BY <1>0, <1>2, <1>3, <1>4, <2>1, <2>4, <3>2
         DEF UpdateExternally, BracketStored, BracketKnown
  <2>. QED BY <1>10, <2>2, <2>3, <2>4 DEF Active
<1>. QED BY <1>5, <1>7, <1>8, <1>9, <1>10

\* Every step of the store keeps the cache consistent with the slice.
LEMMA NextInv == CacheInv /\ [Next]_vars => CacheInv'
<1>. SUFFICES ASSUME CacheInv, [Next]_vars PROVE CacheInv'
  OBVIOUS
<1>0. /\ TypeOK /\ WindowFresh /\ BracketStored /\ BracketKnown
      /\ updates \subseteq PointTimes /\ current \in Pointers
      /\ range \in Ranges /\ window \in Windows
      /\ dirty \in BOOLEAN /\ changed \in BOOLEAN /\ hasChanged \in BOOLEAN
  BY DEF CacheInv, TypeOK, Ranges, Windows
<1>. USE DEF slice, cache, settings, store
<1>1. CASE UNCHANGED vars
  BY <1>0, <1>1 DEF CacheInv, TypeOK, WindowFresh, BracketStored, BracketKnown,
                    vars, SliceWindow, IsInterpolated
<1>2. ASSUME NEW t \in Times, Update(t) PROVE CacheInv'
  <2>1. UpdatePlatform(t) /\ UNCHANGED settings
    BY <1>2 DEF Update
  <2>2. /\ current' \in Pointers /\ dirty' \in BOOLEAN /\ changed' \in BOOLEAN
        /\ range' \in Ranges /\ window' \in Windows
        /\ needToClear' \in BOOLEAN /\ needToSetToNull' \in BOOLEAN
        /\ WindowFresh' /\ BracketStored' /\ BracketKnown'
    BY <2>1, UpdatePlatformInv
  <2>3. updates' = updates /\ cached' = cached
    BY <2>1 DEF UpdatePlatform
  <2>4. TypeOK'
    BY <1>0, <1>2, <2>1, <2>2, <2>3 DEF TypeOK, Update, BracketStored, Ranges, Windows
  <2>. QED BY <2>2, <2>4 DEF CacheInv
<1>3. ASSUME NEW p \in PointTimes, Insert(p) PROVE CacheInv'
  <2>1. Reset /\ UNCHANGED <<cached, needToClear, needToSetToNull, settings, now>>
    BY <1>3 DEF Insert
  <2>2. updates' \subseteq updates \cup {p}
    BY <1>3, LimitDeletes DEF Insert
  <2>3. current' \in Pointers
    BY <1>0, <1>3, AfterDeletingType, PointerTypes DEF Insert
  <2>4. TypeOK'
    BY <1>0, <1>3, <2>1, <2>2, <2>3, ResetInv DEF TypeOK, Insert, Ranges, Windows
  <2>. QED BY <2>1, <2>4, ResetInv DEF CacheInv
<1>4. ASSUME NEW start, NEW end, Flush(start, end) PROVE CacheInv'
  <2>1. Reset /\ UNCHANGED <<changed, cached, needToClear, needToSetToNull, settings, now>>
    BY <1>4 DEF Flush
  <2>2. TypeOK'
    BY <1>0, <1>4, <2>1, ResetInv, PointerTypes DEF TypeOK, Flush, Ranges, Windows
  <2>. QED BY <2>1, <2>2, ResetInv DEF CacheInv
<1>5. ASSUME NEW p \in PrefSpace, CommitPrefs(p) PROVE CacheInv'
  <2>. DEFINE kept == IF limiting THEN LimitByPrefs(updates, p) ELSE updates
  <2>1. kept \subseteq updates /\ updates' = kept /\ current' \in Pointers
    BY <1>0, <1>5, LimitDeletes, AfterDeletingType DEF CommitPrefs
  <2>2. /\ prefs' = p /\ released' = FALSE /\ hasChanged' = TRUE
        /\ UNCHANGED <<dirty, changed, cached, needToClear, needToSetToNull,
                       interpolation, fileMode, limiting, now>>
    BY <1>5 DEF CommitPrefs
  <2>3. /\ range' \in Ranges /\ window' \in Windows
        /\ entry1' \subseteq PointTimes /\ entry2' \subseteq PointTimes
        /\ WindowFresh' /\ BracketStored' /\ BracketKnown'
    <3>1. CASE kept = updates
      <4>1. UNCHANGED <<range, window, entry1, entry2, updates>>
        BY <1>5, <2>1, <3>1 DEF CommitPrefs
      <4>. QED BY <1>0, <2>2, <4>1 DEF TypeOK, WindowFresh, BracketStored, BracketKnown,
                                       SliceWindow, IsInterpolated
    <3>2. CASE kept # updates
      <4>1. Reset
        BY <1>5, <3>2 DEF CommitPrefs
      <4>. QED BY <4>1, ResetInv
    <3>. QED BY <3>1, <3>2
  <2>. HIDE DEF kept
  <2>4. TypeOK'
    BY <1>0, <2>1, <2>2, <2>3 DEF TypeOK, Ranges, Windows
  <2>. QED BY <2>3, <2>4 DEF CacheInv
<1>6. CASE ReleasePrefs
  <2>1. /\ released' = TRUE /\ cached' = CachedPrefs(prefs)
        /\ UNCHANGED <<slice, needToClear, needToSetToNull, prefs, interpolation,
                       fileMode, limiting, store>>
    BY <1>6 DEF ReleasePrefs
  <2>2. cached' \in [datadraw : BOOLEAN, interpolatepos : BOOLEAN,
                     lifespanmode : {"FIRST_LAST_POINT", "EXTEND_SINGLE_POINT"}]
    BY <1>0, <2>1, PrefAssumption DEF TypeOK, CachedPrefs
  <2>3. /\ range' \in Ranges /\ window' \in Windows
        /\ entry1' \subseteq PointTimes /\ entry2' \subseteq PointTimes
        /\ WindowFresh' /\ BracketStored' /\ BracketKnown'
    <3>1. CASE cached' = cached
      <4>1. UNCHANGED <<range, window, entry1, entry2, updates>>
        BY <1>6, <2>1, <3>1 DEF ReleasePrefs
      <4>. QED BY <1>0, <2>1, <3>1, <4>1 DEF TypeOK, WindowFresh, BracketStored, BracketKnown,
                                             SliceWindow, IsInterpolated
    <3>2. CASE cached' # cached
      <4>1. Reset
        BY <1>6, <3>2 DEF ReleasePrefs
      <4>. QED BY <4>1, ResetInv
    <3>. QED BY <3>1, <3>2
  <2>4. TypeOK'
    BY <1>0, <2>1, <2>2, <2>3 DEF TypeOK, Ranges, Windows
  <2>. QED BY <2>3, <2>4 DEF CacheInv
<1>7. ASSUME NEW s \in Interpolations, SetInterpolation(s) PROVE CacheInv'
  <2>1. Reset
    BY <1>7 DEF SetInterpolation
  <2>2. TypeOK'
    BY <1>0, <1>7, <2>1, ResetInv DEF TypeOK, SetInterpolation, Ranges, Windows
  <2>. QED BY <2>1, <2>2, ResetInv DEF CacheInv
<1>8. ASSUME NEW m \in FileModes, SetFileMode(m) PROVE CacheInv'
  BY <1>0, <1>8, ModeAssumption, ZenonT(40) DEF SetFileMode, CacheInv, TypeOK, WindowFresh, BracketStored,
     BracketKnown, SliceWindow, IsInterpolated
<1>9. ASSUME NEW on \in Limitings, SetDataLimiting(on) PROVE CacheInv'
  BY <1>0, <1>9 DEF SetDataLimiting, CacheInv, TypeOK, WindowFresh, BracketStored,
     BracketKnown, SliceWindow, IsInterpolated
<1>10. CASE OtherEntityChanges
  BY <1>0, <1>10 DEF OtherEntityChanges, CacheInv, TypeOK, WindowFresh, BracketStored,
     BracketKnown, SliceWindow, IsInterpolated
<1>. QED BY <1>1, <1>2, <1>3, <1>4, <1>5, <1>6, <1>7, <1>8, <1>9, <1>10 DEF Next

\* The variables of the store, the slice and the cache keep their types.
THEOREM TypeCorrect == Spec => []TypeOK
<1>1. Spec => []CacheInv
  BY InitInv, NextInv, PTL DEF Spec
<1>2. CacheInv => TypeOK
  BY DEF CacheInv
<1>. QED BY <1>1, <1>2, PTL

\* Whatever is inserted, replaced, flushed or limited, and however settings
\* change, the cached end points of the interpolation are points of the slice.
THEOREM BracketAlwaysStored == Spec => []BracketStored
<1>1. Spec => []CacheInv
  BY InitInv, NextInv, PTL DEF Spec
<1>2. CacheInv => BracketStored
  BY DEF CacheInv
<1>. QED BY <1>1, <1>2, PTL

\* The internal interpolation never looks for an end point that is not set.
THEOREM BracketAlwaysKnown == Spec => []BracketKnown
<1>1. Spec => []CacheInv
  BY InitInv, NextInv, PTL DEF Spec
<1>2. CacheInv => BracketKnown
  BY DEF CacheInv
<1>. QED BY <1>1, <1>2, PTL

-----------------------------------------------------------------------------
(* The current point                                                       *)

\* A platform is static or moves.
NoMix == \A p, q \in updates : (p = Static) = (q = Static)

\* The life of the only point is extended.
Alone == cached.lifespanmode = "EXTEND_SINGLE_POINT" /\ \E p \in updates : updates = {p}

\* A point of the slice, or one between two neighbours.
Stored(c) ==
  \/ c = NoUpdate
  \/ c.kind = "point" /\ c.t \in updates
  \/ /\ c.kind = "interp" /\ c.lo \in updates /\ c.hi \in updates
     /\ \A q \in updates : ~(c.lo < q /\ q < c.hi)

\* Whatever early outs keep, current_ was right for its own time when it was
\* set, and the slice has not changed since, or is dirty, or the drawing was
\* switched off: data limiting may then have taken the point.
CurrentOK ==
  /\ current.kind = "none" => current = NoUpdate
  /\ current.kind = "interp" => current.t \in Times /\ current.lo < current.t /\ current.t < current.hi
  /\ ~needToSetToNull => current = NoUpdate
  /\ ~dirty => Stored(current) \/ (interpolation = "OFF" /\ ~prefs.datadraw)

\* Without interpolation: inside the range the current point is right and the
\* platform lives.
RangeGood ==
  cached.datadraw =>
    \A t \in Times : range.lo <= t /\ t < range.hi =>
      IsLatest(current, t) /\ (fileMode => AliveAt(t))

\* The range begins at the current point and goes beyond it, unless the life
\* of the platform ends there.
RangeOfPoint ==
  range # NoRange /\ current.kind = "point" /\ current.t # Static =>
    /\ range.lo = current.t
    /\ \/ current.t < range.hi
       \/ fileMode /\ ~Alone /\ \A q \in updates : q <= current.t

OffInv ==
  /\ current.kind # "interp"
  /\ dirty => range = NoRange
  /\ ~dirty /\ prefs.datadraw /\ range = NoRange => current = NoUpdate
  /\ ~dirty /\ prefs.datadraw /\ (~released \/ (fileMode /\ hasChanged)) => current = NoUpdate
  /\ RangeGood /\ (~dirty => RangeOfPoint)

\* With interpolation: the end points are at the ends of the range, with no
\* point between.
Exact(b) ==
  b.range # NoRange =>
    \/ /\ b.first = {b.range.lo} /\ b.last = {b.range.hi} /\ b.range.lo < b.range.hi
       /\ \A q \in updates : ~(b.range.lo < q /\ q < b.range.hi)
    \/ b.first = {b.range.hi} /\ b.last = {} /\ (\A q \in updates : b.range.hi <= q)
    \/ b.first = {} /\ b.last = {b.range.lo} /\ (\A q \in updates : q <= b.range.lo)

CachedBracket == [range |-> range, first |-> entry1, last |-> entry2]
BracketExact  == Exact(CachedBracket)

\* Limiting the points again would take none.
Limited(S, p) ==
  /\ p.limitpoints # 0 => \A x \in S : Cardinality({y \in S : y > x}) < p.limitpoints
  /\ p.limittime >= 0 => \A x, y \in S : x < y /\ y - p.limittime >= 0 => x > y - p.limittime

OnInv ==
  /\ cached.interpolatepos
  /\ BracketExact
  /\ limiting => Limited(updates, prefs)

CurrentInv ==
  /\ CacheInv
  /\ NoMix /\ CurrentOK /\ CurrentIsLatest /\ InterpolatedAtNow
  /\ released => cached = CachedPrefs(prefs)
  /\ ~released => hasChanged \/ interpolation = "INTERNAL"
  /\ interpolation = "OFF" => OffInv
  /\ interpolation # "OFF" => OnInv

\* The neighbours of a time.
Below(t) == The(AtOrBefore(t))
Above(t) == The(After(t))

LEMMA Neighbours ==
  ASSUME updates \subseteq PointTimes, NEW t \in Times
  PROVE  /\ AtOrBefore(t) = {} => \A q \in updates : q > t
         /\ AtOrBefore(t) # {} =>
              Below(t) \in updates /\ Below(t) <= t /\ \A q \in updates : q <= t => q <= Below(t)
         /\ After(t) = {} => \A q \in updates : q <= t
         /\ After(t) # {} =>
              Above(t) \in updates /\ Above(t) > t /\ \A q \in updates : q > t => Above(t) <= q
<1>. DEFINE B == {p \in updates : p <= t}
            A == {p \in updates : p > t}
<1>1. updates \subseteq Int /\ t \in Int
  BY PointsBounded
<1>2. B \in SUBSET (-1 .. MaxDouble - 1) /\ A \in SUBSET (-1 .. MaxDouble - 1)
  BY PointsBounded
<1>12. (MaxDouble - 1) \in Int /\ -1 \in Int
  BY PointsBounded
<1>3. /\ AtOrBefore(t) = Greatest(B) /\ After(t) = Least(A)
      /\ \A q \in updates : (q \in B <=> q <= t) /\ (q \in A <=> q > t)
      /\ B \subseteq updates /\ A \subseteq updates
  BY DEF AtOrBefore, After
<1>4. \A q \in updates : q > t <=> ~(q <= t)
  BY <1>1
<1>. HIDE DEF A, B
<1>5. (B # {} => Greatest(B) # {}) /\ (A # {} => Least(A) # {})
  BY <1>2, <1>12, BoundedExtremes
<1>6. Greatest(B) # {} => The(Greatest(B)) \in B /\ \A q \in B : q <= The(Greatest(B))
  BY TheGreatest
<1>7. Least(A) # {} => The(Least(A)) \in A /\ \A q \in A : The(Least(A)) <= q
  BY TheLeast
<1>8. AtOrBefore(t) = {} => \A q \in updates : q > t
  BY <1>3, <1>4, <1>5
<1>9. After(t) = {} => \A q \in updates : q <= t
  BY <1>3, <1>4, <1>5
<1>10. AtOrBefore(t) # {} =>
         Below(t) \in updates /\ Below(t) <= t /\ \A q \in updates : q <= t => q <= Below(t)
  BY <1>3, <1>6 DEF Below
<1>11. After(t) # {} =>
         Above(t) \in updates /\ Above(t) > t /\ \A q \in updates : q > t => Above(t) <= q
  BY <1>3, <1>7 DEF Above
<1>. QED BY <1>8, <1>9, <1>10, <1>11

\* The latest point is the latest.
LEMMA LatestIsLatest ==
  ASSUME updates \subseteq PointTimes, NEW t \in Times
  PROVE  /\ IsLatest(LatestPoint(t), t)
         /\ AtOrBefore(t) = {} => LatestPoint(t) = NoUpdate
         /\ AtOrBefore(t) # {} => LatestPoint(t) = Point(Below(t))
<1>1. updates \subseteq Int /\ t \in Int
  BY PointsBounded
<1>2. CASE AtOrBefore(t) = {}
  BY <1>2, Neighbours DEF IsLatest, LatestPoint
<1>3. CASE AtOrBefore(t) # {}
  <2>. DEFINE b == Below(t)
  <2>1. b \in updates /\ b <= t /\ \A q \in updates : q <= t => q <= b
    BY <1>3, Neighbours
  <2>2. LatestPoint(t) = Point(b)
    BY <1>3 DEF LatestPoint, Below
  <2>. HIDE DEF b
  <2>3. Point(b).kind = "point" /\ Point(b).t = b
    BY DEF Point
  <2>4. ~(\A q \in updates : q > t)
    BY <1>1, <2>1
  <2>5. \A q \in updates : q > b => q > t
    BY <1>1, <2>1
  <2>. QED BY <1>3, <2>1, <2>2, <2>3, <2>4, <2>5 DEF IsLatest, b
<1>. QED BY <1>2, <1>3

\* The window of the slice decides whether the platform is alive.
LEMMA WindowOfLife ==
  ASSUME TypeOK, NoMix, NEW t \in Times
  PROVE  /\ IsFileModePlatformActive(t, SliceWindow) <=> AliveAt(t)
         /\ updates # {} =>
              /\ SliceWindow.last \in updates /\ \A q \in updates : q <= SliceWindow.last
              /\ SliceWindow.first \in updates /\ \A q \in updates : SliceWindow.first <= q
         /\ Static \notin updates => (IsExtendedPlatform(SliceWindow) <=> Alone)
<1>1. /\ updates \subseteq Int /\ t \in Int /\ MaxDouble \in Nat /\ t < MaxDouble
      /\ \A q \in updates : q >= Static
  BY PointsBounded DEF TypeOK, Static
<1>2. CASE updates = {}
  <2>1. SliceWindow = NoWindow /\ NoWindow.first = MaxDouble /\ MaxDouble # Static /\ NoWindow.size = 0
    BY <1>1, <1>2 DEF SliceWindow, NoWindow, Static
  <2>2. ~ (t >= MaxDouble)
    BY <1>1
  <2>. QED BY <1>2, <2>1, <2>2 DEF IsFileModePlatformActive, AliveAt, IsExtendedPlatform, Alone
<1>3. CASE updates # {}
  <2>. DEFINE f == SliceWindow.first
              l == SliceWindow.last
  <2>1. updates \in SUBSET (-1 .. MaxDouble - 1) /\ (MaxDouble - 1) \in Int /\ -1 \in Int
    BY PointsBounded DEF TypeOK
  <2>2. Least(updates) # {} /\ Greatest(updates) # {}
    BY <1>3, <2>1, BoundedExtremes
  <2>3. SliceWindow = [first |-> The(Least(updates)), last |-> The(Greatest(updates)),
                       size  |-> Cardinality(updates)]
    BY <1>3 DEF SliceWindow
  <2>4. /\ f \in updates /\ \A q \in updates : f <= q
        /\ l \in updates /\ \A q \in updates : q <= l
        /\ SliceWindow.size = Cardinality(updates)
    BY <2>2, <2>3, TheLeast, TheGreatest
  <2>5. SliceWindow.size = 1 <=> \E p \in updates : updates = {p}
    <3>1. IsFiniteSet(-1 .. MaxDouble - 1)
      BY <2>1, FS_Interval
    <3>2. IsFiniteSet(updates)
      BY <2>1, <3>1, FS_Subset
    <3>. QED BY <2>4, <3>2, FS_Singleton
  <2>6. f = Static <=> Static \in updates
    <3>. HIDE DEF f
    <3>1. f \in Int /\ f >= Static /\ (Static \in updates => f <= Static)
      BY <1>1, <2>4
    <3>2. f <= Static /\ f >= Static => f = Static
      BY <3>1 DEF Static
    <3>. QED BY <2>4, <3>1, <3>2
  <2>7. cached.lifespanmode # "FIRST_LAST_POINT" <=> cached.lifespanmode = "EXTEND_SINGLE_POINT"
    BY DEF TypeOK
  <2>8. Static \notin updates => (IsExtendedPlatform(SliceWindow) <=> Alone)
    BY <2>5, <2>6, <2>7 DEF IsExtendedPlatform, Alone
  <2>9. CASE Static \in updates
    BY <2>4, <2>6, <2>9 DEF IsFileModePlatformActive, AliveAt
  <2>10. CASE Static \notin updates
    <3>. HIDE DEF f, l
    <3>1. IsFileModePlatformActive(t, SliceWindow) <=> t >= f /\ (Alone \/ t <= l)
      BY <2>6, <2>8, <2>10 DEF IsFileModePlatformActive, f, l
    <3>2. (\E p, q \in updates : p <= t /\ t <= q) <=> f <= t /\ t <= l
      BY <1>1, <2>4
    <3>3. (Alone /\ t >= f) <=>
            cached.lifespanmode = "EXTEND_SINGLE_POINT" /\ \E p \in updates : updates = {p} /\ p <= t
      BY <1>1, <2>4 DEF Alone
    <3>4. t >= f <=> f <= t
      BY <1>1, <2>4
    <3>. QED BY <2>4, <2>8, <2>10, <3>1, <3>2, <3>3, <3>4 DEF AliveAt, f, l
  <2>. QED BY <2>4, <2>8, <2>9, <2>10
<1>. QED BY <1>2, <1>3

\* Where the range around a time begins and ends, and what truncating it to the
\* life of the platform does.
LEMMA RangeEnds ==
  ASSUME NEW t, NEW w
  PROVE  /\ AtOrBefore(t) = {} => Truncated(RangeAround(t), w).lo = 0
         /\ AtOrBefore(t) # {} => Truncated(RangeAround(t), w).lo = Below(t)
         /\ After(t) = {} => RangeAround(t).hi = MaxDouble
         /\ After(t) # {} => RangeAround(t).hi = Above(t)
         /\ \/ Truncated(RangeAround(t), w).hi = RangeAround(t).hi
               /\ (~fileMode \/ IsExtendedPlatform(w) \/ ~(RangeAround(t).hi > w.last))
            \/ Truncated(RangeAround(t), w).hi = w.last
               /\ fileMode /\ ~IsExtendedPlatform(w) /\ RangeAround(t).hi > w.last
         /\ Truncated(EntireRange, w).lo = 0
<1>1. \A r, x : [[lo |-> r, hi |-> x] EXCEPT !.hi = w.last] = [lo |-> r, hi |-> w.last]
  OBVIOUS
<1>2. RangeAround(t) = [lo |-> RangeAround(t).lo, hi |-> RangeAround(t).hi]
  BY DEF RangeAround
<1>3. \/ Truncated(RangeAround(t), w).hi = RangeAround(t).hi
         /\ Truncated(RangeAround(t), w).lo = RangeAround(t).lo
         /\ (~fileMode \/ IsExtendedPlatform(w) \/ ~(RangeAround(t).hi > w.last))
      \/ Truncated(RangeAround(t), w).hi = w.last
         /\ Truncated(RangeAround(t), w).lo = RangeAround(t).lo
         /\ fileMode /\ ~IsExtendedPlatform(w) /\ RangeAround(t).hi > w.last
  <2>. DEFINE r == RangeAround(t)
  <2>. HIDE DEF r
  <2>1. CASE fileMode /\ ~IsExtendedPlatform(w) /\ r.hi > w.last
    <3>1. Truncated(r, w) = [r EXCEPT !.hi = w.last]
      BY <2>1 DEF Truncated
    <3>2. r = [lo |-> r.lo, hi |-> r.hi]
      BY <1>2 DEF r
    <3>3. Truncated(r, w).hi = w.last /\ Truncated(r, w).lo = r.lo
      BY <3>1, <3>2
    <3>. QED BY <2>1, <3>3 DEF r
  <2>2. CASE ~(fileMode /\ ~IsExtendedPlatform(w) /\ r.hi > w.last)
    <3>1. Truncated(r, w) = r
      BY <2>2 DEF Truncated
    <3>. QED BY <2>2, <3>1 DEF r
  <2>. QED BY <2>1, <2>2
<1>4. Truncated(EntireRange, w).lo = 0
  BY <1>1 DEF Truncated, EntireRange
<1>5. /\ AtOrBefore(t) = {} => RangeAround(t).lo = 0
      /\ AtOrBefore(t) # {} => RangeAround(t).lo = Below(t)
      /\ After(t) = {} => RangeAround(t).hi = MaxDouble
      /\ After(t) # {} => RangeAround(t).hi = Above(t)
  BY DEF RangeAround, Below, Above
<1>. QED BY <1>3, <1>4, <1>5

\* What update(time) sets without interpolation, when it computes the current
\* point anew: the point, its range, and the life of the platform inside it.
LEMMA RecomputedRange ==
  ASSUME TypeOK, NoMix, NEW t \in Times, fileMode => AliveAt(t),
         NEW c, c = LatestPoint(t), NEW r, r = Truncated(RangeAround(t), SliceWindow)
  PROVE  /\ r # NoRange /\ c.kind # "interp" /\ Stored(c) /\ (c.kind = "none" => c = NoUpdate)
         /\ \A x \in Times : r.lo <= x /\ x < r.hi => IsLatest(c, x) /\ (fileMode => AliveAt(x))
         /\ c.kind = "point" /\ c.t # Static =>
              /\ r.lo = c.t
              /\ c.t < r.hi \/ (fileMode /\ ~Alone /\ \A q \in updates : q <= c.t)
<1>. DEFINE b == Below(t)
            a == Above(t)
            l == SliceWindow.last
            h == RangeAround(t).hi
<1>0. /\ updates \subseteq PointTimes /\ updates \subseteq Int /\ t \in Int /\ Times \subseteq Int
      /\ MaxDouble \in Nat /\ t >= 0 /\ t < MaxDouble /\ (\A x \in Times : x >= 0 /\ x < MaxDouble)
      /\ \A q \in updates : q < MaxDouble /\ q >= Static
  BY PointsBounded DEF TypeOK, Static
<1>1. /\ AtOrBefore(t) = {} => \A q \in updates : q > t
      /\ AtOrBefore(t) # {} => b \in updates /\ b <= t /\ \A q \in updates : q <= t => q <= b
      /\ After(t) = {} => h = MaxDouble /\ \A q \in updates : q <= t
      /\ After(t) # {} => h = a /\ a \in updates /\ a > t /\ \A q \in updates : q > t => a <= q
  BY <1>0, Neighbours, RangeEnds
<1>2. /\ AtOrBefore(t) = {} => c = NoUpdate /\ r.lo = 0
      /\ AtOrBefore(t) # {} => c = Point(b) /\ r.lo = b
  BY <1>0, LatestIsLatest, RangeEnds
<1>3. \/ r.hi = h /\ (~fileMode \/ IsExtendedPlatform(SliceWindow) \/ ~(h > l))
      \/ r.hi = l /\ fileMode /\ ~IsExtendedPlatform(SliceWindow) /\ h > l
  BY RangeEnds
<1>4. /\ updates # {} => l \in updates /\ \A q \in updates : q <= l
      /\ Static \notin updates => (IsExtendedPlatform(SliceWindow) <=> Alone)
  BY WindowOfLife
<1>. HIDE DEF b, a, l, h
<1>5. CASE AtOrBefore(t) = {}
  <2>1. c = NoUpdate /\ c.kind = "none" /\ r.lo = 0 /\ 0 # MaxDouble
    BY <1>0, <1>2, <1>5, PointsBounded DEF NoUpdate
  <2>2. ~fileMode
    <3>1. \A p \in updates : ~(p <= t)
      BY <1>0, <1>1, <1>5
    <3>2. Static \notin updates
      BY <1>0, <3>1 DEF Static
    <3>. QED BY <3>1, <3>2 DEF AliveAt
  <2>3. r.hi = h
    BY <1>3, <2>2
  <2>4. ASSUME NEW x \in Times, x < r.hi, NEW q \in updates PROVE q > x
    <3>1. q > t /\ q \in Int /\ x \in Int
      BY <1>0, <1>1, <1>5
    <3>2. After(t) # {}
      BY <1>0, <1>1, <3>1
    <3>3. a \in Int /\ x < a /\ a <= q
      BY <1>0, <1>1, <2>3, <2>4, <3>1, <3>2
    <3>. QED BY <3>1, <3>3
  <2>5. r # NoRange
    BY <2>1 DEF NoRange
  <2>. QED BY <2>1, <2>2, <2>4, <2>5 DEF IsLatest, Stored
<1>6. CASE AtOrBefore(t) # {}
  <2>1. c.kind = "point" /\ c.t = b /\ r.lo = b /\ b \in updates /\ b <= t /\ b < MaxDouble
    <3>1. c = Point(b) /\ r.lo = b
      BY <1>2, <1>6
    <3>2. b \in updates /\ b <= t
      BY <1>1, <1>6
    <3>3. b < MaxDouble
      BY <1>0, <3>2
    <3>. QED BY <3>1, <3>2, <3>3 DEF Point
  <2>2. r # NoRange
    BY <1>0, <2>1 DEF NoRange
  <2>3. b < h /\ h \in Int /\ l \in Int /\ (\A q \in updates : q <= l) /\ l \in updates
    <3>1. CASE After(t) = {}
      <4>1. h = MaxDouble
        BY <1>1, <3>1
      <4>2. b < h /\ h \in Int
        BY <1>0, <2>1, <4>1
      <4>. QED BY <1>0, <1>4, <2>1, <4>2
    <3>2. CASE After(t) # {}
      <4>1. h = a /\ a \in Int /\ a > t /\ b \in Int /\ b <= t /\ t \in Int
        BY <1>0, <1>1, <2>1, <3>2
      <4>2. b < h /\ h \in Int
        BY <4>1
      <4>. QED BY <1>0, <1>4, <2>1, <4>2
    <3>. QED BY <3>1, <3>2
  <2>4. r.hi \in Int /\ r.hi <= h
    BY <1>3, <2>3
  <2>5. ASSUME NEW x \in Times, b <= x, x < r.hi PROVE IsLatest(c, x)
    <3>1. x \in Int /\ x < h
      BY <1>0, <2>3, <2>4, <2>5
    <3>2. ASSUME NEW q \in updates, q > b PROVE q > x
      <4>1. q \in Int /\ b \in Int /\ t \in Int /\ ~(q <= b)
        BY <1>0, <2>1, <3>2
      <4>2. q > t
        BY <1>1, <1>6, <4>1
      <4>3. After(t) # {}
        BY <1>1, <4>1, <4>2
      <4>4. h = a /\ a <= q
        BY <1>1, <4>2, <4>3
      <4>. QED BY <2>3, <3>1, <4>1, <4>4
    <3>3. ~(\A q \in updates : q > x)
      BY <1>0, <2>1, <2>5, <3>1
    <3>. QED BY <2>1, <2>5, <3>2, <3>3 DEF IsLatest
  <2>6. ASSUME NEW x \in Times, b <= x, x < r.hi, fileMode PROVE AliveAt(x)
    <3>1. CASE Static \in updates
      BY <3>1 DEF AliveAt
    <3>2. CASE Static \notin updates /\ Alone
      BY <2>1, <2>6, <3>2 DEF AliveAt, Alone
    <3>3. CASE Static \notin updates /\ ~Alone
      <4>1. r.hi <= l
        BY <1>3, <1>4, <2>3, <2>6, <3>3
      <4>2. x <= l
        BY <1>0, <2>3, <2>4, <2>6, <4>1
      <4>. QED BY <2>1, <2>3, <2>6, <4>2 DEF AliveAt
    <3>. QED BY <3>1, <3>2, <3>3
  <2>7. ASSUME b # Static PROVE b < r.hi \/ (fileMode /\ ~Alone /\ \A q \in updates : q <= b)
    <3>1. Static \notin updates
      BY <2>1, <2>7 DEF NoMix
    <3>2. CASE r.hi = h
      BY <2>3, <3>2
    <3>3. CASE r.hi = l /\ fileMode /\ ~IsExtendedPlatform(SliceWindow)
      <4>1. ~Alone
        BY <1>4, <3>1, <3>3
      <4>2. b \in Int /\ (b < l \/ b = l)
        BY <1>0, <2>1, <2>3
      <4>. QED BY <2>3, <3>3, <4>1, <4>2
    <3>. QED BY <1>3, <3>2, <3>3
  <2>. QED BY <2>1, <2>2, <2>5, <2>6, <2>7 DEF Stored
<1>. QED BY <1>5, <1>6

\* An early out without interpolation keeps the point of a static platform only:
\* every other point that is current at its own time is inside its range.
LEMMA OffKeepsStatic ==
  ASSUME CurrentInv, interpolation = "OFF", NEW t \in Times, hasChanged \/ t # now,
         released, cached.datadraw, ~KickOut(t), ~dirty, MayKeep(t)
  PROVE  /\ current.kind = "point" /\ current.t = Static /\ Static \in updates
         /\ \A x \in Times : IsLatest(current, x) /\ AliveAt(x)
<1>0. /\ TypeOK /\ NoMix /\ OffInv /\ CurrentOK /\ CurrentIsLatest /\ ~IsInterpolated
      /\ prefs.datadraw
  BY DEF CurrentInv, CacheInv, IsInterpolated, CachedPrefs
<1>1. /\ updates \subseteq Int /\ t \in Int /\ (\A x \in Times : x \in Int /\ x >= 0)
      /\ range.lo \in Int /\ range.hi \in Int /\ now \in Int
  <2>1. range.lo \in -1 .. MaxDouble /\ range.hi \in (-MaxDouble) .. MaxDouble /\ MaxDouble \in Nat
    BY <1>0, PointsBounded DEF TypeOK
  <2>. QED BY <1>0, <2>1, PointsBounded DEF TypeOK
<1>2. current.kind = "point" /\ current.t \in updates /\ current # NoUpdate
  <2>1. current.kind \in {"freed"} \/ current.kind # "none"
    BY DEF MayKeep
  <2>2. NoUpdate.kind = "none"
    BY DEF NoUpdate
  <2>. QED BY <1>0, <2>1, <2>2 DEF OffInv, CurrentOK, Stored
<1>3. ASSUME current.t # Static PROVE FALSE
  <2>1. current.t = t
    BY <1>2, <1>3 DEF MayKeep
  <2>2. range # NoRange /\ RangeOfPoint
    BY <1>0, <1>2 DEF OffInv
  <2>3. range.lo = t /\ (t < range.hi \/ (fileMode /\ ~Alone /\ \A q \in updates : q <= t))
    BY <1>2, <1>3, <2>1, <2>2 DEF RangeOfPoint
  <2>4. ~(t < range.hi)
    BY <1>0, <1>1, <2>3 DEF KickOut
  <2>5. fileMode /\ ~Alone /\ \A q \in updates : q <= t
    BY <2>3, <2>4
  <2>6. ~hasChanged /\ t # now
    BY <1>0, <1>2, <2>5 DEF OffInv
  <2>7. IsWanted(current, now)
    BY <1>0, <2>6 DEF CurrentIsLatest, Settled
  <2>8. AliveAt(now) /\ IsLatest(current, now)
    BY <1>0, <1>2, <2>5, <2>7 DEF IsWanted
  <2>9. t <= now
    BY <1>2, <2>1, <2>8 DEF IsLatest
  <2>10. Static \notin updates
    BY <1>0, <1>2, <1>3 DEF NoMix
  <2>11. PICK p, q \in updates : p <= now /\ now <= q
    BY <2>5, <2>8, <2>10 DEF AliveAt, Alone
  <2>. QED BY <1>1, <2>5, <2>6, <2>9, <2>11
<1>4. current.t = Static /\ Static \in updates /\ \A q \in updates : q = Static
  BY <1>0, <1>2, <1>3 DEF NoMix
<1>5. ASSUME NEW x \in Times PROVE IsLatest(current, x) /\ AliveAt(x)
  <2>1. Static <= x /\ ~(Static > x) /\ ~(Static > Static)
    BY <1>1 DEF Static
  <2>. QED BY <1>2, <1>4, <2>1 DEF IsLatest, AliveAt
<1>. QED BY <1>2, <1>4, <1>5

\* An update without interpolation, whatever path it takes, leaves the right
\* point, and a range that is right for it.
LEMMA UpdateOff ==
  ASSUME CurrentInv, interpolation = "OFF", released, NEW t \in Times, Update(t)
  PROVE  IsWanted(current', t) /\ CurrentOK' /\ OffInv'
<1>. DEFINE w == IF window = NoWindow THEN SliceWindow ELSE window
<1>0. /\ TypeOK /\ NoMix /\ OffInv /\ CurrentOK /\ WindowFresh /\ ~IsInterpolated
      /\ NoUpdate.kind = "none" /\ NoRange.lo = MaxDouble
      /\ cached.datadraw => prefs.datadraw
  BY DEF CurrentInv, CacheInv, IsInterpolated, NoUpdate, NoRange, CachedPrefs
<1>1. /\ hasChanged \/ t # now
      /\ NotDrawn \/ UpToDate(t) \/ Expired(t, w) \/ Active(t, w)
      /\ updates' = updates /\ cached' = cached /\ fileMode' = fileMode
      /\ hasChanged' = FALSE /\ released'
  BY DEF Update, UpdatePlatform, settings
<1>2. w = SliceWindow
  BY <1>0 DEF WindowFresh
<1>. HIDE DEF w
<1>3. \A x \in Times : ~(MaxDouble <= x)
  BY PointsBounded
\* What has to be shown of the new values, in terms of the slice as it is.
<1>4. ASSUME IsWanted(current', t),
             current'.kind # "interp", current'.kind = "none" => current' = NoUpdate,
             ~needToSetToNull' => current' = NoUpdate,
             ~dirty' => Stored(current'),
             dirty' => range' = NoRange,
             ~dirty' /\ range' = NoRange => current' = NoUpdate,
             cached.datadraw =>
               \A x \in Times : range'.lo <= x /\ x < range'.hi =>
                 IsLatest(current', x) /\ (fileMode => AliveAt(x)),
             ~dirty' /\ range' # NoRange /\ current'.kind = "point" /\ current'.t # Static =>
               /\ range'.lo = current'.t
               /\ current'.t < range'.hi \/ (fileMode /\ ~Alone /\ \A q \in updates : q <= current'.t)
      PROVE  IsWanted(current', t) /\ CurrentOK' /\ OffInv'
  <2>1. CurrentOK'
    BY <1>1, <1>4 DEF CurrentOK, Stored
  <2>2. RangeGood'
    BY <1>1, <1>4 DEF RangeGood, IsLatest, AliveAt
  <2>3. ~dirty' => RangeOfPoint'
    BY <1>1, <1>4 DEF RangeOfPoint, Alone
  <2>. QED BY <1>1, <1>4, <2>1, <2>2, <2>3 DEF OffInv
<1>5. CASE NotDrawn
  <2>1. /\ ~cached.datadraw /\ current' = NoUpdate
        /\ UNCHANGED <<dirty, range, needToSetToNull>>
    BY <1>5 DEF NotDrawn, SetCurrent
  <2>2. IsWanted(current', t)
    BY <2>1 DEF IsWanted
  <2>. QED BY <1>0, <1>4, <2>1, <2>2 DEF OffInv, Stored
<1>6. CASE UpToDate(t)
  <2>1. /\ cached.datadraw /\ range.lo <= t /\ t < range.hi
        /\ UNCHANGED <<current, dirty, range, needToSetToNull>>
    <3>1. range.lo \in Int /\ t \in Int
      BY <1>0, PointsBounded DEF TypeOK
    <3>. QED BY <1>6, <3>1 DEF UpToDate, KickOut
  <2>2. IsLatest(current, t) /\ (fileMode => AliveAt(t))
    BY <1>0, <2>1 DEF OffInv, RangeGood
  <2>3. IsWanted(current', t)
    BY <1>0, <2>1, <2>2 DEF IsWanted
  <2>. QED BY <1>0, <1>4, <2>1, <2>3 DEF OffInv, CurrentOK, RangeGood, RangeOfPoint
<1>7. CASE Expired(t, w)
  <2>1. /\ cached.datadraw /\ fileMode /\ ~IsFileModePlatformActive(t, w)
        /\ needToSetToNull' = FALSE /\ dirty' = dirty
        /\ \/ current' = NoUpdate /\ range' = NoRange
           \/ current' = NoUpdate /\ current = NoUpdate /\ range' = range
    BY <1>0, <1>7 DEF Expired, SetCurrent, CurrentOK
  <2>2. ~AliveAt(t)
    BY <1>0, <1>2, <2>1, WindowOfLife
  <2>3. IsWanted(current', t)
    BY <2>1, <2>2 DEF IsWanted
  <2>4. ASSUME NEW x \in Times, range'.lo <= x, x < range'.hi
        PROVE  IsLatest(current', x) /\ (fileMode => AliveAt(x))
    <3>1. range' # NoRange
      BY <1>0, <1>3, <2>4
    <3>. QED BY <1>0, <2>1, <2>4, <3>1 DEF OffInv, RangeGood
  <2>. QED BY <1>0, <1>4, <2>1, <2>3, <2>4 DEF OffInv, Stored
<1>8. CASE Active(t, w)
  <2>1. /\ cached.datadraw /\ ~KickOut(t) /\ needToSetToNull' = TRUE
        /\ UpdateStepwise(t, w)
        /\ fileMode => IsFileModePlatformActive(t, w)
    BY <1>0, <1>8 DEF Active
  <2>2. fileMode => AliveAt(t)
    BY <1>0, <1>2, <2>1, WindowOfLife
  <2>3. CASE ~dirty /\ MayKeep(t) /\ range' = Truncated(EntireRange, w) /\ UNCHANGED <<current, dirty>>
    <3>1. /\ current.kind = "point" /\ current.t = Static /\ Static \in updates
          /\ \A x \in Times : IsLatest(current, x) /\ AliveAt(x)
      BY <1>1, <2>1, <2>3, OffKeepsStatic
    <3>2. range' # NoRange
      BY <1>0, <2>3, PointsBounded, RangeEnds
    <3>3. IsWanted(current', t)
      BY <1>0, <2>1, <2>3, <3>1 DEF IsWanted
    <3>. QED BY <1>4, <2>1, <2>3, <3>1, <3>2, <3>3 DEF Stored
  <2>4. CASE dirty' = FALSE /\ range' = Truncated(RangeAround(t), w) /\ current' = LatestPoint(t)
    <3>1. /\ range' # NoRange /\ current'.kind # "interp" /\ Stored(current')
          /\ (current'.kind = "none" => current' = NoUpdate)
          /\ \A x \in Times : range'.lo <= x /\ x < range'.hi =>
               IsLatest(current', x) /\ (fileMode => AliveAt(x))
          /\ current'.kind = "point" /\ current'.t # Static =>
               /\ range'.lo = current'.t
               /\ current'.t < range'.hi \/ (fileMode /\ ~Alone /\ \A q \in updates : q <= current'.t)
      BY <1>0, <1>2, <2>2, <2>4, RecomputedRange
    <3>2. IsLatest(current', t)
      BY <1>0, <2>4, LatestIsLatest DEF TypeOK
    <3>3. IsWanted(current', t)
      BY <1>0, <2>1, <2>2, <3>2 DEF IsWanted
    <3>. QED BY <1>4, <2>1, <2>4, <3>1, <3>3
  <2>. QED BY <2>1, <2>3, <2>4 DEF UpdateStepwise, SetCurrent
<1>. QED BY <1>1, <1>5, <1>6, <1>7, <1>8

-----------------------------------------------------------------------------
(* Data limiting                                                           *)

\* Points of a slice are finitely many, and a part of a set of them has no more.
LEMMA PointsFinite ==
  ASSUME NEW S \in SUBSET PointTimes
  PROVE  /\ IsFiniteSet(S) /\ Cardinality(S) \in Nat
         /\ \A T \in SUBSET S : IsFiniteSet(T) /\ Cardinality(T) \in Nat /\ Cardinality(T) <= Cardinality(S)
<1>1. IsFiniteSet(-1 .. MaxDouble - 1)
  <2>1. -1 \in Int /\ (MaxDouble - 1) \in Int
    BY PointsBounded
  <2>. QED BY <2>1, FS_Interval
<1>2. S \subseteq -1 .. MaxDouble - 1
  BY PointsBounded
<1>3. IsFiniteSet(S)
  BY <1>1, <1>2, FS_Subset
<1>. QED BY <1>3, FS_Subset, FS_CardinalityType

\* What limiting leaves, it would leave again.
LEMMA LimitByPrefsLimits ==
  ASSUME NEW S \in SUBSET PointTimes, NEW p \in PrefSpace
  PROVE  Limited(LimitByPrefs(S, p), p)
<1>. DEFINE T == LimitByPoints(S, p.limitpoints)
            U == LimitByTime(T, p.limittime)
            l == The(Greatest(T))
<1>1. p.limitpoints \in Nat /\ p.limittime \in Nat \cup {-1} /\ S \subseteq Int
  BY PrefAssumption, PointsBounded
<1>2. U \subseteq T /\ T \subseteq S /\ LimitByPrefs(S, p) = U
  BY DEF LimitByPrefs, LimitByPoints, LimitByTime
<1>3. ASSUME p.limitpoints # 0, NEW x \in U
      PROVE  Cardinality({y \in U : y > x}) < p.limitpoints
  <2>1. Cardinality({y \in S : y > x}) < p.limitpoints
    BY <1>2, <1>3 DEF LimitByPoints
  <2>2. {y \in S : y > x} \in SUBSET PointTimes
    OBVIOUS
  <2>3. {y \in U : y > x} \in SUBSET {y \in S : y > x}
    BY <1>2
  <2>4. /\ Cardinality({y \in U : y > x}) <= Cardinality({y \in S : y > x})
        /\ Cardinality({y \in U : y > x}) \in Nat /\ Cardinality({y \in S : y > x}) \in Nat
    BY <2>2, <2>3, PointsFinite
  <2>. QED BY <1>1, <2>1, <2>4
<1>4. ASSUME p.limittime >= 0, NEW x \in U, NEW y \in U, x < y, y - p.limittime >= 0
      PROVE  x > y - p.limittime
  <2>1. T # {} /\ T \in SUBSET (-1 .. MaxDouble - 1)
    BY <1>2, PointsBounded
  <2>2. (MaxDouble - 1) \in Int /\ -1 \in Int
    BY PointsBounded
  <2>3. Greatest(T) # {}
    <3>. HIDE DEF T
    <3>. QED BY <2>1, <2>2, BoundedExtremes
  <2>4. l \in T /\ \A q \in T : q <= l
    BY <2>3, TheGreatest
  <2>5. ~(p.limittime < 0)
    BY <1>1, <1>4
  <2>6. l - p.limittime < 0 \/ U = {q \in T : q > l - p.limittime \/ q = l}
    BY <2>1, <2>5 DEF LimitByTime
  <2>. HIDE DEF U, T, l
  <2>7. /\ x \in Int /\ y \in Int /\ l \in Int /\ p.limittime \in Int
        /\ x <= l /\ y <= l
    BY <1>1, <1>2, <2>4
  <2>8. l - p.limittime < 0 \/ x > l - p.limittime \/ x = l
    BY <2>6
  <2>. QED BY <1>4, <2>7, <2>8
<1>. QED BY <1>2, <1>3, <1>4 DEF Limited

\* Limited points are left alone.
LEMMA LimitedIsKept ==
  ASSUME NEW S \in SUBSET PointTimes, NEW p \in PrefSpace, Limited(S, p)
  PROVE  LimitByPrefs(S, p) = S
<1>. DEFINE l == The(Greatest(S))
<1>1. p.limitpoints \in Nat /\ p.limittime \in Nat \cup {-1} /\ S \subseteq Int
  BY PrefAssumption, PointsBounded
<1>2. LimitByPoints(S, p.limitpoints) = S
  BY DEF LimitByPoints, Limited
<1>3. CASE S = {} \/ p.limittime < 0
  BY <1>2, <1>3 DEF LimitByPrefs, LimitByTime
<1>4. CASE ~(S = {} \/ p.limittime < 0)
  <2>1. S # {} /\ S \in SUBSET (-1 .. MaxDouble - 1)
    BY <1>4, PointsBounded
  <2>2. (MaxDouble - 1) \in Int /\ -1 \in Int
    BY PointsBounded
  <2>3. l \in S /\ \A q \in S : q <= l
    <3>1. Greatest(S) # {}
      BY <2>1, <2>2, BoundedExtremes
    <3>. QED BY <3>1, TheGreatest
  <2>. HIDE DEF l
  <2>4. ASSUME ~(l - p.limittime < 0), NEW x \in S PROVE x > l - p.limittime \/ x = l
    <3>1. x \in Int /\ l \in Int /\ p.limittime \in Int /\ x <= l /\ p.limittime >= 0
      BY <1>1, <1>4, <2>3
    <3>2. CASE x < l
      <4>1. l - p.limittime >= 0
        BY <2>4, <3>1
      <4>. QED BY <2>3, <3>1, <3>2, <4>1 DEF Limited
    <3>. QED BY <3>1, <3>2
  <2>5. ~(l - p.limittime < 0) => {q \in S : q > l - p.limittime \/ q = l} = S
    BY <2>4
  <2>. QED BY <1>2, <1>4, <2>5 DEF LimitByPrefs, LimitByTime, l
<1>. QED BY <1>3, <1>4

\* Fewer points are limited all the more.
LEMMA LimitedPart ==
  ASSUME NEW S \in SUBSET PointTimes, NEW p \in PrefSpace, Limited(S, p), NEW T \in SUBSET S
  PROVE  Limited(T, p)
<1>1. p.limitpoints \in Nat
  BY PrefAssumption
<1>2. ASSUME p.limitpoints # 0, NEW x \in T
      PROVE  Cardinality({y \in T : y > x}) < p.limitpoints
  <2>1. Cardinality({y \in S : y > x}) < p.limitpoints
    BY <1>2 DEF Limited
  <2>2. {y \in S : y > x} \in SUBSET PointTimes /\ {y \in T : y > x} \in SUBSET {y \in S : y > x}
    OBVIOUS
  <2>3. /\ Cardinality({y \in T : y > x}) <= Cardinality({y \in S : y > x})
        /\ Cardinality({y \in T : y > x}) \in Nat /\ Cardinality({y \in S : y > x}) \in Nat
    BY <2>2, PointsFinite
  <2>. QED BY <1>1, <2>1, <2>3
<1>. QED BY <1>2 DEF Limited

-----------------------------------------------------------------------------
(* Interpolation                                                           *)

\* A neighbour is the only one on its side.
LEMMA NeighbourUnique ==
  ASSUME updates \subseteq PointTimes, NEW t
  PROVE  /\ AtOrBefore(t) # {} => AtOrBefore(t) = {Below(t)}
         /\ After(t) # {} => After(t) = {Above(t)}
<1>1. updates \subseteq Int
  BY PointsBounded
<1>2. \A x, y \in Int : x <= y /\ y <= x => x = y
  OBVIOUS
<1>3. \A x, y \in AtOrBefore(t) : x = y
  BY <1>1, <1>2 DEF AtOrBefore, Greatest
<1>4. \A x, y \in After(t) : x = y
  BY <1>1, <1>2 DEF After, Least
<1>. QED BY <1>3, <1>4, TheIsMember DEF Below, Above

\* The bracket of a time has its end points at the ends of its range, and with
\* two of them the time is inside it.
LEMMA BracketIsExact ==
  ASSUME TypeOK, BracketExact, NEW t \in Times
  PROVE  /\ Exact(Bracket(t))
         /\ Bracket(t).first # {} /\ Bracket(t).last # {} =>
              Bracket(t).range # NoRange /\ Bracket(t).range.lo <= t /\ t <= Bracket(t).range.hi
<1>. DEFINE b == Below(t)
            a == Above(t)
<1>0. /\ updates \subseteq PointTimes /\ updates \subseteq Int /\ t \in Int /\ NoRange.lo = MaxDouble
      /\ t < MaxDouble /\ MaxDouble \in Nat /\ range.lo \in Int /\ range.hi \in Int
  <2>1. range.lo \in -1 .. MaxDouble /\ range.hi \in (-MaxDouble) .. MaxDouble /\ MaxDouble \in Nat
    BY PointsBounded DEF TypeOK
  <2>. QED BY <2>1, PointsBounded DEF TypeOK, NoRange
<1>1. /\ AtOrBefore(t) = {} => \A q \in updates : q > t
      /\ AtOrBefore(t) # {} => b \in updates /\ b <= t /\ \A q \in updates : q <= t => q <= b
      /\ After(t) = {} => \A q \in updates : q <= t
      /\ After(t) # {} => a \in updates /\ a > t /\ \A q \in updates : q > t => a <= q
  BY <1>0, Neighbours
<1>2. /\ AtOrBefore(t) # {} => AtOrBefore(t) = {b}
      /\ After(t) # {} => After(t) = {a}
  BY <1>0, NeighbourUnique
<1>3. /\ AtOrBefore(t) # {} => RangeAround(t).lo = b
      /\ After(t) # {} => RangeAround(t).hi = a
  BY DEF RangeAround, Below, Above
<1>. HIDE DEF a, b
<1>4. CASE t < range.lo \/ t > range.hi
  <2>1. /\ Bracket(t).range = IF updates = {} THEN NoRange ELSE RangeAround(t)
        /\ Bracket(t).first = IF AtOrBefore(t) = {} THEN After(t)
                              ELSE IF After(t) = {} THEN {} ELSE AtOrBefore(t)
        /\ Bracket(t).last = IF AtOrBefore(t) = {} THEN {}
                             ELSE IF After(t) = {} THEN AtOrBefore(t) ELSE After(t)
    BY <1>4 DEF Bracket
  <2>2. CASE updates = {}
    <3>1. AtOrBefore(t) = {} /\ After(t) = {}
      BY <2>2, NeighboursStored
    <3>. QED BY <2>1, <2>2, <3>1 DEF Exact
  <2>3. CASE updates # {} /\ AtOrBefore(t) = {}
    <3>1. After(t) # {}
      BY <1>0, <2>3, NeighbourExists
    <3>2. \A q \in updates : a <= q
      BY <1>1, <2>3, <3>1
    <3>. QED BY <1>2, <1>3, <2>1, <2>3, <3>1, <3>2 DEF Exact
  <2>4. CASE updates # {} /\ AtOrBefore(t) # {} /\ After(t) = {}
    <3>1. \A q \in updates : q <= b
      BY <1>1, <2>4
    <3>. QED BY <1>2, <1>3, <2>1, <2>4, <3>1 DEF Exact
  <2>5. CASE updates # {} /\ AtOrBefore(t) # {} /\ After(t) # {}
    <3>1. a \in Int /\ b \in Int /\ b <= t /\ a > t
      BY <1>0, <1>1, <2>5
    <3>2. \A q \in updates : ~(b < q /\ q < a)
      BY <1>0, <1>1, <2>5, <3>1
    <3>3. b < a /\ t <= a
      BY <1>0, <3>1
    <3>4. b # MaxDouble
      BY <1>0, <3>1
    <3>5. /\ Bracket(t).range = RangeAround(t) /\ RangeAround(t).lo = b /\ RangeAround(t).hi = a
          /\ Bracket(t).first = {b} /\ Bracket(t).last = {a}
      BY <1>2, <1>3, <2>1, <2>5
    <3>6. Bracket(t).range # NoRange
      BY <1>0, <3>4, <3>5
    <3>. QED BY <3>1, <3>2, <3>3, <3>5, <3>6 DEF Exact
  <2>. QED BY <2>2, <2>3, <2>4, <2>5
<1>5. CASE ~(t < range.lo \/ t > range.hi)
  <2>1. Bracket(t) = CachedBracket
    BY <1>5 DEF Bracket, CachedBracket
  <2>2. CachedBracket.range = range
    BY DEF CachedBracket
  <2>3. range.lo <= t /\ t <= range.hi /\ range # NoRange
    BY <1>0, <1>5
  <2>. QED BY <2>1, <2>2, <2>3 DEF BracketExact
<1>. QED BY <1>4, <1>5

\* What the internal interpolation makes current is a point of the slice, or
\* one strictly between two neighbours.
LEMMA InterpolatedStored ==
  ASSUME TypeOK, BracketStored, BracketExact, NEW t \in Times, NEW w,
         NEW c, c = Interpolated(t, Bracket(t), w)
  PROVE  /\ Stored(c)
         /\ c.kind = "none" => c = NoUpdate
         /\ c.kind = "interp" => c.t = t /\ c.lo < t /\ t < c.hi
<1>. DEFINE b == Bracket(t)
<1>0. NoUpdate.kind = "none"
  BY DEF NoUpdate
<1>1. /\ Exact(b) /\ b.first \subseteq updates /\ b.last \subseteq updates
      /\ b.first # {} /\ b.last # {} => b.range # NoRange /\ b.range.lo <= t /\ t <= b.range.hi
  BY BracketIsExact, BracketType
<1>2. updates \subseteq Int /\ t \in Int
  BY PointsBounded DEF TypeOK
<1>. HIDE DEF b
<1>3. \A S \in SUBSET updates : S # {} => Point(The(S)).kind = "point" /\ Point(The(S)).t \in updates
  BY TheIsMember DEF Point
<1>4. \/ c = NoUpdate
      \/ b.first # {} /\ c = Point(The(b.first))
      \/ b.last # {} /\ c = Point(The(b.last))
      \/ /\ b.first # {} /\ b.last # {} /\ t # b.range.lo /\ t # b.range.hi
         /\ c = Interp(t, The(b.first), The(b.last))
  BY DEF Interpolated, b
<1>5. CASE c = NoUpdate
  BY <1>0, <1>5 DEF Stored
<1>6. CASE \/ b.first # {} /\ c = Point(The(b.first))
           \/ b.last # {} /\ c = Point(The(b.last))
  BY <1>1, <1>3, <1>6 DEF Stored
<1>7. CASE /\ b.first # {} /\ b.last # {} /\ t # b.range.lo /\ t # b.range.hi
           /\ c = Interp(t, The(b.first), The(b.last))
  <2>. DEFINE x == b.range.lo
              y == b.range.hi
  <2>1. /\ b.first = {x} /\ b.last = {y} /\ \A q \in updates : ~(x < q /\ q < y)
        /\ x <= t /\ t <= y
    BY <1>1, <1>7 DEF Exact
  <2>2. The(b.first) = x /\ The(b.last) = y
    BY <2>1 DEF The
  <2>3. x \in updates /\ y \in updates /\ x # t /\ y # t
    BY <1>1, <1>7, <2>1
  <2>. HIDE DEF x, y
  <2>4. x < t /\ t < y
    BY <1>2, <2>1, <2>3
  <2>5. c.kind = "interp" /\ c.t = t /\ c.lo = x /\ c.hi = y
    BY <1>7, <2>2 DEF Interp
  <2>. QED BY <2>1, <2>3, <2>4, <2>5 DEF Stored
<1>. QED BY <1>4, <1>5, <1>6, <1>7

\* What the external interpolation makes current is right for its time.
LEMMA InterpolatedPointIsRight ==
  ASSUME TypeOK, NEW t \in Times, NEW c, c = InterpolatedPoint(t)
  PROVE  /\ IsInterpolatedAt(c, t) /\ Stored(c)
         /\ c.kind = "none" => c = NoUpdate
         /\ c.kind = "interp" => c.t = t /\ c.lo < t /\ t < c.hi
<1>. DEFINE b == Below(t)
            a == Above(t)
<1>0. /\ updates \subseteq PointTimes /\ updates \subseteq Int /\ t \in Int
      /\ NoUpdate.kind = "none" /\ \A p : Point(p).kind = "point" /\ Point(p).t = p
  BY PointsBounded DEF TypeOK, NoUpdate, Point
<1>1. /\ AtOrBefore(t) = {} => \A q \in updates : q > t
      /\ AtOrBefore(t) # {} => b \in updates /\ b <= t /\ \A q \in updates : q <= t => q <= b
      /\ After(t) = {} => \A q \in updates : q <= t
      /\ After(t) # {} => a \in updates /\ a > t /\ \A q \in updates : q > t => a <= q
  BY <1>0, Neighbours
<1>. HIDE DEF a, b
<1>2. CASE t \in updates \/ AtOrBefore(t) = {} \/ After(t) = {}
  <2>1. c = LatestPoint(t)
    BY <1>2 DEF InterpolatedPoint
  <2>2. /\ IsLatest(c, t)
        /\ c = NoUpdate \/ (AtOrBefore(t) # {} /\ c = Point(b))
    BY <1>0, <2>1, LatestIsLatest DEF b
  <2>3. t \in updates \/ (\A q \in updates : q > t) \/ (\A q \in updates : q < t)
    <3>1. CASE t \notin updates /\ After(t) = {}
      <4>1. ASSUME NEW q \in updates PROVE q < t
        <5>1. q \in Int /\ q <= t /\ q # t
          BY <1>0, <1>1, <3>1
        <5>. QED BY <1>0, <5>1
      <4>. QED BY <4>1
    <3>. QED BY <1>1, <1>2, <3>1
  <2>. QED BY <1>0, <1>1, <2>2, <2>3 DEF IsInterpolatedAt, Stored
<1>3. CASE ~(t \in updates \/ AtOrBefore(t) = {} \/ After(t) = {})
  <2>1. c.kind = "interp" /\ c.t = t /\ c.lo = b /\ c.hi = a
    BY <1>3 DEF InterpolatedPoint, Interp, Below, Above, a, b
  <2>2. b \in updates /\ a \in updates /\ b < t /\ t < a
    <3>1. b \in updates /\ b <= t /\ a \in updates /\ a > t /\ b # t
      BY <1>1, <1>3
    <3>. QED BY <1>0, <3>1
  <2>3. ASSUME NEW q \in updates PROVE ~(b < q /\ q < a)
    <3>1. q \in Int /\ a \in Int /\ b \in Int
      BY <1>0, <2>2
    <3>2. (q <= t => q <= b) /\ (q > t => a <= q)
      BY <1>1, <1>3
    <3>. QED BY <1>0, <3>1, <3>2
  <2>4. ~(\A q \in updates : q > t) /\ ~(\A q \in updates : q < t)
    BY <1>0, <2>2
  <2>. QED BY <1>3, <2>1, <2>2, <2>3, <2>4 DEF IsInterpolatedAt, Stored
<1>. QED BY <1>2, <1>3

\* An early out while interpolating keeps a point that is right for the time.
LEMMA KeptIsRight ==
  ASSUME TypeOK, NoMix, NEW t \in Times, NEW c \in Pointers, Stored(c),
         c.kind = "interp" => c.t \in Times /\ c.lo < c.t /\ c.t < c.hi,
         c.kind # "none", c.t \in {t, Static}
  PROVE  IsInterpolatedAt(c, t)
<1>0. /\ updates \subseteq Int /\ t \in Int /\ t >= 0 /\ NoUpdate.kind = "none"
      /\ \A x \in Times : x # Static
  BY PointsBounded DEF TypeOK, NoUpdate, Static
<1>1. CASE c.kind = "point" /\ c.t = t /\ t \in updates
  BY <1>0, <1>1 DEF IsInterpolatedAt, IsLatest
<1>2. CASE c.kind = "point" /\ c.t = Static /\ Static \in updates
  <2>1. \A q \in updates : q = Static
    BY <1>2 DEF NoMix
  <2>2. Static < t /\ Static <= t /\ ~(Static > t) /\ ~(Static > Static)
    BY <1>0 DEF Static
  <2>. QED BY <1>2, <2>1, <2>2 DEF IsInterpolatedAt, IsLatest
<1>3. CASE /\ c.kind = "interp" /\ c.lo \in updates /\ c.hi \in updates
           /\ \A q \in updates : ~(c.lo < q /\ q < c.hi)
  <2>1. c.t = t /\ c.lo < t /\ t < c.hi
    BY <1>0, <1>3
  <2>2. t \notin updates
    BY <1>3, <2>1
  <2>3. c.lo \in Int /\ c.hi \in Int /\ ~(c.lo > t) /\ ~(c.hi < t)
    <3>1. c.lo \in Int /\ c.hi \in Int
      BY <1>0, <1>3
    <3>. QED BY <1>0, <2>1, <3>1
  <2>4. ~(\A q \in updates : q > t) /\ ~(\A q \in updates : q < t)
    BY <1>3, <2>3
  <2>. QED BY <1>3, <2>1, <2>2, <2>4 DEF IsInterpolatedAt
<1>. QED BY <1>0, <1>1, <1>2, <1>3 DEF Stored

\* An update with interpolation, whatever path it takes: the bracket stays
\* exact, the current point is between its neighbours at the time of the store,
\* and with the external interpolation it is the wanted one.
LEMMA UpdateOn ==
  ASSUME CurrentInv, interpolation # "OFF", NEW t \in Times, Update(t)
  PROVE  /\ CurrentOK' /\ OnInv'
         /\ interpolation # "INTERNAL" => IsWanted(current', t)
         /\ current'.kind = "interp" => current'.t = t /\ current'.lo < t /\ t < current'.hi
<1>. DEFINE w == IF window = NoWindow THEN SliceWindow ELSE window
<1>0. /\ TypeOK /\ NoMix /\ OnInv /\ CurrentOK /\ WindowFresh /\ BracketStored /\ BracketExact
      /\ IsInterpolated /\ NoUpdate.kind = "none" /\ interpolation \in {"INTERNAL", "EXTERNAL"}
      /\ current \in Pointers
  BY ModeAssumption DEF CurrentInv, CacheInv, OnInv, IsInterpolated, NoUpdate, TypeOK
<1>1. /\ NotDrawn \/ UpToDate(t) \/ Expired(t, w) \/ Active(t, w)
      /\ updates' = updates /\ cached' = cached /\ UNCHANGED settings
  BY DEF Update, UpdatePlatform
<1>2. w = SliceWindow /\ \A x \in Times : x # Static
  BY <1>0, PointsBounded DEF WindowFresh, Static
<1>. HIDE DEF w
\* What has to be shown of the new values, in terms of the slice as it is.
<1>3. ASSUME current'.kind = "none" => current' = NoUpdate,
             current'.kind = "interp" => current'.t = t /\ current'.lo < t /\ t < current'.hi,
             ~needToSetToNull' => current' = NoUpdate,
             ~dirty' => Stored(current'),
             Exact([range |-> range', first |-> entry1', last |-> entry2']),
             interpolation # "INTERNAL" => IsWanted(current', t)
      PROVE  /\ CurrentOK' /\ OnInv'
             /\ interpolation # "INTERNAL" => IsWanted(current', t)
             /\ current'.kind = "interp" => current'.t = t /\ current'.lo < t /\ t < current'.hi
  <2>1. CurrentOK'
    BY <1>1, <1>3 DEF CurrentOK, Stored
  <2>2. BracketExact'
    BY <1>1, <1>3 DEF BracketExact, CachedBracket, Exact
  <2>3. OnInv'
    BY <1>0, <1>1, <2>2 DEF OnInv, Limited, settings
  <2>. QED BY <1>3, <2>1, <2>3
<1>4. CASE NotDrawn
  <2>1. ~cached.datadraw /\ current' = NoUpdate /\ UNCHANGED <<range, entry1, entry2>>
    BY <1>4 DEF NotDrawn, SetCurrent
  <2>2. IsWanted(current', t)
    BY <2>1 DEF IsWanted
  <2>. QED BY <1>0, <1>3, <2>1, <2>2 DEF Stored, BracketExact, CachedBracket
<1>5. CASE UpToDate(t)
  BY <1>0, <1>5 DEF UpToDate, KickOut
<1>6. CASE Expired(t, w)
  <2>1. /\ cached.datadraw /\ fileMode /\ ~IsFileModePlatformActive(t, w)
        /\ current' = NoUpdate /\ UNCHANGED <<entry1, entry2>>
        /\ range' \in {range, NoRange}
    BY <1>0, <1>6 DEF Expired, SetCurrent, CurrentOK
  <2>2. ~AliveAt(t)
    BY <1>0, <1>2, <2>1, WindowOfLife
  <2>3. IsWanted(current', t)
    BY <2>1, <2>2 DEF IsWanted
  <2>4. Exact([range |-> range', first |-> entry1', last |-> entry2'])
    BY <1>0, <2>1 DEF BracketExact, CachedBracket, Exact
  <2>. QED BY <1>0, <1>3, <2>1, <2>3, <2>4 DEF Stored
<1>7. CASE Active(t, w)
  <2>1. /\ cached.datadraw /\ needToSetToNull' = TRUE
        /\ fileMode => IsFileModePlatformActive(t, w)
        /\ \/ interpolation = "INTERNAL" /\ UpdateInternally(t, w)
           \/ interpolation = "EXTERNAL" /\ UpdateExternally(t)
    BY <1>0, <1>7 DEF Active
  <2>2. fileMode => AliveAt(t)
    BY <1>0, <1>2, <2>1, WindowOfLife
\* The current point is kept, by either interpolation.
  <2>3. ASSUME MayKeep(t), UNCHANGED <<current, dirty, range, entry1, entry2>>,
               ~dirty \/ interpolation = "INTERNAL"
        PROVE  /\ CurrentOK' /\ OnInv'
               /\ interpolation # "INTERNAL" => IsWanted(current', t)
               /\ current'.kind = "interp" => current'.t = t /\ current'.lo < t /\ t < current'.hi
    <3>1. current.kind = "interp" => current.t = t /\ current.lo < t /\ t < current.hi
      BY <1>0, <1>2, <2>3 DEF CurrentOK, MayKeep
    <3>2. ASSUME interpolation # "INTERNAL" PROVE IsWanted(current', t)
      <4>1. Stored(current)
        BY <1>0, <2>3, <3>2 DEF CurrentOK
      <4>2. current.kind # "freed" /\ current.kind # "none"
        BY <1>0, <2>3, <4>1 DEF MayKeep, Stored
      <4>3. current.t \in {t, Static}
        BY <2>3, <4>2 DEF MayKeep
      <4>4. IsInterpolatedAt(current, t)
        BY <1>0, <4>1, <4>2, <4>3, KeptIsRight DEF CurrentOK
      <4>. QED BY <1>0, <2>1, <2>2, <2>3, <4>4 DEF IsWanted
    <3>. QED BY <1>0, <1>3, <2>1, <2>3, <3>1, <3>2 DEF CurrentOK, BracketExact, CachedBracket
  <2>4. CASE interpolation = "INTERNAL" /\ UpdateInternally(t, w)
    <3>1. CASE MayKeep(t) /\ UNCHANGED <<current, range, entry1, entry2>>
      BY <2>3, <2>4, <3>1 DEF UpdateInternally
    <3>2. CASE /\ range' = Bracket(t).range /\ entry1' = Bracket(t).first /\ entry2' = Bracket(t).last
               /\ current' = Interpolated(t, Bracket(t), w)
      <4>1. /\ Stored(current')
            /\ current'.kind = "none" => current' = NoUpdate
            /\ current'.kind = "interp" => current'.t = t /\ current'.lo < t /\ t < current'.hi
        BY <1>0, <3>2, InterpolatedStored
      <4>2. Exact(Bracket(t))
        BY <1>0, BracketIsExact
      <4>3. Bracket(t) = [range |-> Bracket(t).range, first |-> Bracket(t).first, last |-> Bracket(t).last]
        BY DEF Bracket
      <4>4. Exact([range |-> range', first |-> entry1', last |-> entry2'])
        BY <3>2, <4>2, <4>3
      <4>. QED BY <1>3, <2>1, <2>4, <4>1, <4>4
    <3>. QED BY <2>4, <3>1, <3>2 DEF UpdateInternally, SetCurrent
  <2>5. CASE interpolation = "EXTERNAL" /\ UpdateExternally(t)
    <3>1. CASE ~dirty /\ MayKeep(t) /\ UNCHANGED <<current, dirty>>
      BY <2>3, <2>5, <3>1 DEF UpdateExternally
    <3>2. CASE dirty' = FALSE /\ current' = InterpolatedPoint(t)
      <4>1. /\ IsInterpolatedAt(current', t) /\ Stored(current')
            /\ current'.kind = "none" => current' = NoUpdate
            /\ current'.kind = "interp" => current'.t = t /\ current'.lo < t /\ t < current'.hi
        BY <1>0, <3>2, InterpolatedPointIsRight
      <4>2. IsWanted(current', t)
        BY <1>0, <2>1, <2>2, <4>1 DEF IsWanted
      <4>3. Exact([range |-> range', first |-> entry1', last |-> entry2'])
        BY <1>0, <2>5 DEF UpdateExternally, BracketExact, CachedBracket
      <4>. QED BY <1>3, <2>1, <2>5, <4>1, <4>2, <4>3
    <3>. QED BY <2>5, <3>1, <3>2 DEF UpdateExternally, SetCurrent
  <2>. QED BY <2>1, <2>4, <2>5
<1>. QED BY <1>1, <1>4, <1>5, <1>6, <1>7

-----------------------------------------------------------------------------
(* The steps                                                               *)

\* What the environment is allowed to do.
LEMMA AllowedIs ==
  ASSUME Sheltered, TypeOK, NEW x, Allowed(x)
  PROVE  /\ interpolation = "OFF" => x \in {"drawing", "limiting"} \/ (x = "others" /\ ~fileMode)
         /\ interpolation # "OFF" =>
              \/ x \in {"others", "datadraw", "lifespanmode", "INTERNAL", "EXTERNAL"}
              \/ x = "file mode" /\ ~fileMode /\ interpolation = "EXTERNAL"
              \/ x = "update before release" /\ interpolation = "INTERNAL"
<1>1. /\ fileMode \in FileModes /\ interpolation \in Interpolations
      /\ x \in MayChange[<<fileMode, interpolation>>]
  BY DEF TypeOK, Allowed
<1>2. x \in IF interpolation = "OFF"
            THEN {"drawing", "limiting"} \cup (IF fileMode THEN {} ELSE {"others"})
            ELSE {"others", "datadraw", "lifespanmode", "INTERNAL", "EXTERNAL"} \cup
                 (IF interpolation = "INTERNAL" THEN {"update before release"}
                  ELSE IF fileMode THEN {} ELSE {"file mode"})
  BY <1>1 DEF Sheltered
<1>. QED BY <1>1, <1>2, ModeAssumption

LEMMA NeverAllowed ==
  ASSUME Sheltered, TypeOK
  PROVE  /\ ~Allowed("static mix") /\ ~Allowed("live mode")
         /\ Allowed("update before release") => interpolation = "INTERNAL"
         /\ Allowed("drawing") => interpolation = "OFF"
         /\ Allowed("limiting") => interpolation = "OFF"
         /\ Allowed("file mode") => interpolation = "EXTERNAL"
<1>. DEFINE M == MayChange[<<fileMode, interpolation>>]
<1>1. /\ fileMode \in FileModes /\ interpolation \in Interpolations
      /\ \A x : Allowed(x) <=> x \in M
  BY DEF TypeOK, Allowed
<1>2. /\ interpolation = "OFF" => M \subseteq {"drawing", "others", "limiting"}
      /\ interpolation = "INTERNAL" =>
           M \subseteq {"others", "datadraw", "lifespanmode", "INTERNAL", "EXTERNAL",
                        "update before release"}
      /\ interpolation = "EXTERNAL" =>
           M \subseteq {"others", "datadraw", "lifespanmode", "INTERNAL", "EXTERNAL", "file mode"}
      /\ interpolation \in {"OFF", "INTERNAL", "EXTERNAL"}
  BY <1>1, ModeAssumption DEF Sheltered
<1>3. Allowed("update before release") <=> "update before release" \in M
  BY DEF Allowed
<1>4. Allowed("static mix") <=> "static mix" \in M
  BY DEF Allowed
<1>5. Allowed("live mode") <=> "live mode" \in M
  BY DEF Allowed
<1>6. Allowed("limiting") <=> "limiting" \in M
  BY DEF Allowed
<1>7. Allowed("file mode") <=> "file mode" \in M
  BY DEF Allowed
<1>8. Allowed("drawing") <=> "drawing" \in M
  BY DEF Allowed
<1>. HIDE DEF M
<1>. QED BY <1>2, <1>3, <1>4, <1>5, <1>6, <1>7, <1>8

\* The preferences change one field at least, and only fields that may change.
LEMMA CommittedFields ==
  ASSUME Sheltered, TypeOK, NEW p \in PrefSpace, CommitPrefs(p)
  PROVE  /\ released
         /\ p.limitpoints = prefs.limitpoints /\ p.limittime = prefs.limittime
         /\ interpolation = "OFF" =>
              /\ ~hasChanged /\ p.datadraw = ~prefs.datadraw
<1>1. /\ prefs \in PrefSpace /\ p # prefs /\ released
      /\ \A f \in Differs(p) : MayCommit(f)
  BY DEF TypeOK, CommitPrefs
<1>2. /\ DOMAIN prefs = {"datadraw", "interpolatepos", "lifespanmode", "limitpoints", "limittime"}
      /\ \/ p.datadraw # prefs.datadraw \/ p.interpolatepos # prefs.interpolatepos
         \/ p.lifespanmode # prefs.lifespanmode \/ p.limitpoints # prefs.limitpoints
         \/ p.limittime # prefs.limittime
      /\ p.datadraw \in BOOLEAN /\ prefs.datadraw \in BOOLEAN
  BY <1>1, PrefAssumption
<1>3. ASSUME NEW f \in DOMAIN prefs, p[f] # prefs[f]
      PROVE  /\ f # "limitpoints" /\ f # "limittime"
             /\ interpolation = "OFF" => f = "datadraw" /\ ~hasChanged
  <2>1. MayCommit(f)
    BY <1>1, <1>3 DEF Differs
  <2>2. CASE f = "datadraw" /\ ~hasChanged
    BY <2>2
  <2>3. CASE Allowed(f)
    <3>1. f \notin {"drawing", "limiting", "others"}
      BY <1>2, <1>3
    <3>. QED BY <1>2, <1>3, <2>3, <3>1, AllowedIs
  <2>. QED BY <2>1, <2>2, <2>3 DEF MayCommit
<1>. QED BY <1>1, <1>2, <1>3

LEMMA CurrentInit == Sheltered /\ Init => CurrentInv
<1>. SUFFICES ASSUME Sheltered, Init PROVE CurrentInv
  OBVIOUS
<1>1. CacheInv
  BY InitInv
<1>2. /\ updates = {} /\ current = NoUpdate /\ dirty = FALSE /\ range = NoRange
      /\ released = TRUE /\ hasChanged = TRUE /\ needToSetToNull = TRUE
      /\ cached = CachedPrefs(prefs) /\ prefs \in PrefSpace /\ interpolation \in Interpolations
      /\ NoUpdate.kind = "none" /\ NoRange.lo = MaxDouble
  BY DEF Init, NoUpdate, NoRange
<1>3. NoMix /\ CurrentOK /\ CurrentIsLatest /\ InterpolatedAtNow
  BY <1>2 DEF NoMix, CurrentOK, Stored, CurrentIsLatest, InterpolatedAtNow, Settled
<1>4. OffInv
  <2>1. \A x \in Times : ~(MaxDouble <= x)
    BY PointsBounded
  <2>. QED BY <1>2, <2>1 DEF OffInv, RangeGood, RangeOfPoint
<1>5. interpolation # "OFF" => OnInv
  BY <1>2 DEF OnInv, BracketExact, CachedBracket, Exact, Limited, Sheltered, CachedPrefs
<1>. QED BY <1>1, <1>2, <1>3, <1>4, <1>5 DEF CurrentInv

\* An update leaves a right point behind, in every mode.
LEMMA CurrentUpdate ==
  ASSUME Sheltered, CurrentInv, CacheInv', NEW t \in Times, Update(t)
  PROVE  CurrentInv'
<1>1. /\ TypeOK /\ NoMix /\ (released => cached = CachedPrefs(prefs))
      /\ interpolation = "OFF" \/ interpolation # "OFF"
  BY DEF CurrentInv, CacheInv
<1>2. /\ updates' = updates /\ cached' = cached /\ now' = t /\ hasChanged' = FALSE
      /\ UNCHANGED <<prefs, released, interpolation, fileMode, limiting>>
      /\ released \/ interpolation = "INTERNAL"
      /\ released' => cached' = CachedPrefs(prefs)'
  <2>1. released \/ Allowed("update before release")
    BY DEF Update
  <2>2. released \/ interpolation = "INTERNAL"
    BY <1>1, <2>1, NeverAllowed
  <2>. QED BY <1>1, <2>2 DEF Update, UpdatePlatform, settings, CachedPrefs
<1>3. NoMix'
  BY <1>1, <1>2 DEF NoMix
<1>4. ASSUME interpolation # "INTERNAL" => IsWanted(current', t)
      PROVE  CurrentIsLatest'
  BY <1>2, <1>4 DEF CurrentIsLatest, IsWanted, AliveAt, IsInterpolated, IsInterpolatedAt, IsLatest
<1>5. CASE interpolation = "OFF"
  <2>1. IsWanted(current', t) /\ CurrentOK' /\ OffInv'
    BY <1>2, <1>5, UpdateOff
  <2>2. InterpolatedAtNow'
    BY <2>1 DEF OffInv, InterpolatedAtNow
  <2>. QED BY <1>2, <1>3, <1>4, <1>5, <2>1, <2>2 DEF CurrentInv
<1>6. CASE interpolation # "OFF"
  <2>1. /\ CurrentOK' /\ OnInv'
        /\ interpolation # "INTERNAL" => IsWanted(current', t)
        /\ current'.kind = "interp" => current'.t = t /\ current'.lo < t /\ t < current'.hi
    BY <1>6, UpdateOn
  <2>2. InterpolatedAtNow'
    BY <1>2, <2>1 DEF InterpolatedAtNow
  <2>. QED BY <1>2, <1>3, <1>4, <1>6, <2>1, <2>2 DEF CurrentInv
<1>. QED BY <1>1, <1>5, <1>6

\* An insert or a flush leaves the slice dirty, the range unset and the store
\* changed, so that the next update starts anew.
LEMMA CurrentDirtied ==
  ASSUME CurrentInv, CacheInv', Reset, dirty' = TRUE, hasChanged' = TRUE, NoMix',
         UNCHANGED <<cached, needToClear, needToSetToNull, settings, now>>,
         current' \in {NoUpdate, current} \/ current'.kind = "freed",
         ~needToSetToNull => current' = NoUpdate,
         interpolation # "OFF" /\ limiting => Limited(updates', prefs)
  PROVE  CurrentInv'
<1>1. /\ range' = NoRange /\ NoUpdate.kind = "none" /\ NoRange.lo = MaxDouble
      /\ UNCHANGED <<prefs, released, interpolation, fileMode, limiting>>
  BY DEF Reset, NoUpdate, NoRange, settings
<1>2. CurrentOK /\ (interpolation = "OFF" => OffInv) /\ (interpolation # "OFF" => OnInv)
  BY DEF CurrentInv
<1>3. CurrentOK'
  BY <1>1, <1>2 DEF CurrentOK
<1>4. CurrentIsLatest' /\ InterpolatedAtNow'
  BY DEF CurrentIsLatest, InterpolatedAtNow, Settled
<1>5. interpolation = "OFF" => OffInv'
  <2>1. \A x \in Times : ~(MaxDouble <= x)
    BY PointsBounded
  <2>2. RangeGood'
    BY <1>1, <2>1 DEF RangeGood
  <2>. QED BY <1>1, <1>2, <2>2 DEF OffInv
<1>6. interpolation # "OFF" => OnInv'
  BY <1>1, <1>2 DEF OnInv, BracketExact, CachedBracket, Exact
<1>. QED BY <1>1, <1>3, <1>4, <1>5, <1>6 DEF CurrentInv

LEMMA CurrentInsert ==
  ASSUME Sheltered, CurrentInv, CacheInv', NEW p \in PointTimes, Insert(p)
  PROVE  CurrentInv'
<1>. DEFINE kept == IF limiting THEN LimitByPrefs(updates \cup {p}, prefs) ELSE updates \cup {p}
<1>1. /\ TypeOK /\ NoMix /\ CurrentOK /\ NoUpdate.kind = "none" /\ prefs \in PrefSpace
      /\ updates \cup {p} \in SUBSET PointTimes
  BY DEF CurrentInv, CacheInv, NoUpdate, TypeOK
<1>2. /\ Allowed("static mix") \/ \A q \in updates : (q = Static) = (p = Static)
      /\ Reset /\ dirty' = TRUE /\ hasChanged' = TRUE /\ updates' = kept
      /\ current' = IF current = Point(p) THEN NoUpdate ELSE AfterDeleting(current, kept)
      /\ UNCHANGED <<cached, needToClear, needToSetToNull, settings, now>>
  BY DEF Insert
<1>3. ~Allowed("static mix")
  BY <1>1, NeverAllowed
<1>4. kept \subseteq updates \cup {p}
  BY LimitDeletes
<1>5. limiting => Limited(kept, prefs)
  BY <1>1, LimitByPrefsLimits
<1>. HIDE DEF kept
<1>6. NoMix'
  <2>1. \A q \in updates : (q = Static) = (p = Static)
    BY <1>2, <1>3
  <2>2. \A q, x \in updates \cup {p} : (q = Static) <=> (x = Static)
    BY <1>1, <2>1 DEF NoMix
  <2>3. \A q, x \in kept : (q = Static) = (x = Static)
    BY <1>4, <2>2
  <2>. QED BY <1>2, <2>3 DEF NoMix
<1>7. /\ current' \in {NoUpdate, current} \/ current'.kind = "freed"
      /\ ~needToSetToNull => current' = NoUpdate
  BY <1>1, <1>2 DEF AfterDeleting, Freed, CurrentOK
<1>. QED BY <1>2, <1>5, <1>6, <1>7, CurrentDirtied

LEMMA CurrentFlush ==
  ASSUME CurrentInv, CacheInv', NEW start, NEW end, Flush(start, end)
  PROVE  CurrentInv'
<1>1. TypeOK /\ NoMix /\ CurrentOK /\ prefs \in PrefSpace /\ updates \in SUBSET PointTimes
  BY DEF CurrentInv, CacheInv, TypeOK
<1>2. /\ Reset /\ dirty' = TRUE /\ hasChanged' = TRUE /\ updates' \in SUBSET updates
      /\ current' \in {NoUpdate, current}
      /\ UNCHANGED <<cached, needToClear, needToSetToNull, settings, now>>
  BY DEF Flush
<1>3. NoMix'
  BY <1>1, <1>2 DEF NoMix
<1>4. ~needToSetToNull => current' = NoUpdate
  BY <1>1, <1>2 DEF CurrentOK
<1>5. interpolation # "OFF" /\ limiting => Limited(updates', prefs)
  BY <1>1, <1>2, LimitedPart DEF CurrentInv, OnInv
<1>. QED BY <1>2, <1>3, <1>4, <1>5, CurrentDirtied

\* While interpolating, limiting by preferences that differ in other fields
\* takes nothing.
LEMMA CurrentCommitOn ==
  ASSUME Sheltered, CurrentInv, CacheInv', NEW p \in PrefSpace, CommitPrefs(p),
         interpolation # "OFF"
  PROVE  CurrentInv'
<1>. DEFINE kept == IF limiting THEN LimitByPrefs(updates, p) ELSE updates
<1>1. /\ TypeOK /\ NoMix /\ CurrentOK /\ NoUpdate.kind = "none" /\ prefs \in PrefSpace
      /\ updates \in SUBSET PointTimes
  BY DEF CurrentInv, CacheInv, NoUpdate, TypeOK
<1>2. p.limitpoints = prefs.limitpoints /\ p.limittime = prefs.limittime
  BY <1>1, CommittedFields
<1>3. OnInv
  BY DEF CurrentInv
<1>4. limiting => Limited(updates, p)
  BY <1>2, <1>3 DEF OnInv, Limited
<1>5. kept = updates
  BY <1>1, <1>4, LimitedIsKept
<1>6. /\ updates' = updates /\ prefs' = p /\ released' = FALSE /\ hasChanged' = TRUE
      /\ current' = AfterDeleting(current, updates)
      /\ UNCHANGED <<range, window, entry1, entry2>>
      /\ UNCHANGED <<dirty, changed, cached, needToClear, needToSetToNull,
                     interpolation, fileMode, limiting, now>>
  BY <1>5 DEF CommitPrefs
<1>7. \/ current' = current
      \/ current'.kind = "freed" /\ current.kind = "point" /\ current.t \notin updates
  BY <1>6 DEF AfterDeleting, Freed
<1>8. CurrentOK'
  BY <1>1, <1>6, <1>7 DEF CurrentOK, Stored
<1>9. NoMix' /\ CurrentIsLatest' /\ InterpolatedAtNow'
  BY <1>1, <1>6 DEF NoMix, CurrentIsLatest, InterpolatedAtNow, Settled
<1>10. OnInv'
  BY <1>3, <1>4, <1>6 DEF OnInv, BracketExact, CachedBracket, Exact
<1>. QED BY <1>6, <1>8, <1>9, <1>10 DEF CurrentInv

\* Without interpolation only the drawing is switched.  Switched off, the point
\* may go by limiting, and the next update drops it; switched on, there is none.
LEMMA CurrentCommitOff ==
  ASSUME Sheltered, CurrentInv, CacheInv', NEW p \in PrefSpace, CommitPrefs(p),
         interpolation = "OFF"
  PROVE  CurrentInv'
<1>. DEFINE kept == IF limiting THEN LimitByPrefs(updates, p) ELSE updates
<1>1. /\ TypeOK /\ NoMix /\ CurrentOK /\ OffInv /\ NoUpdate.kind = "none" /\ NoRange.lo = MaxDouble
      /\ CurrentIsLatest /\ (released => cached = CachedPrefs(prefs))
  BY DEF CurrentInv, CacheInv, NoUpdate, NoRange
<1>2. released /\ ~hasChanged /\ p.datadraw = ~prefs.datadraw
  BY <1>1, CommittedFields
<1>3. p.datadraw => current = NoUpdate
  <2>1. IsWanted(current, now)
    BY <1>1, <1>2 DEF CurrentIsLatest, Settled
  <2>2. cached.datadraw = prefs.datadraw
    BY <1>1, <1>2 DEF CachedPrefs
  <2>3. ~cached.datadraw => current = NoUpdate
    BY <2>1 DEF IsWanted
  <2>. QED BY <1>2, <2>2, <2>3
<1>4. kept \subseteq updates
  BY LimitDeletes
<1>5. /\ updates' = kept /\ prefs' = p /\ released' = FALSE /\ hasChanged' = TRUE
      /\ current' = AfterDeleting(current, kept)
      /\ IF kept = updates THEN UNCHANGED <<range, window, entry1, entry2>> ELSE Reset
      /\ UNCHANGED <<dirty, changed, cached, needToClear, needToSetToNull,
                     interpolation, fileMode, limiting, now>>
  BY DEF CommitPrefs
<1>. HIDE DEF kept
<1>6. /\ current' = current \/ (current'.kind = "freed" /\ current.kind = "point")
      /\ p.datadraw => current' = NoUpdate
  BY <1>1, <1>3, <1>5 DEF AfterDeleting, Freed
<1>7. CurrentOK'
  <2>1. p.datadraw => Stored(current)'
    BY <1>6 DEF Stored
  <2>2. ~p.datadraw \/ p.datadraw
    OBVIOUS
  <2>. QED BY <1>1, <1>5, <1>6, <2>1, <2>2 DEF CurrentOK
<1>8. NoMix' /\ CurrentIsLatest' /\ InterpolatedAtNow'
  BY <1>1, <1>4, <1>5 DEF NoMix, CurrentIsLatest, InterpolatedAtNow, Settled
<1>9. RangeGood' /\ (~dirty' => RangeOfPoint') /\ (dirty' => range' = NoRange)
  <2>1. CASE kept = updates
    <3>1. UNCHANGED <<updates, range, cached, fileMode, dirty>>
      BY <1>5, <2>1
    <3>2. current' = current \/ (current.kind = "point" /\ current'.kind = "freed")
      BY <1>6
    <3>3. current.kind = "point" /\ current'.kind = "freed" => current.t \notin updates
      BY <1>5, <2>1 DEF AfterDeleting
    <3>4. RangeGood'
      <4>1. CASE current' = current
        BY <1>1, <3>1, <4>1 DEF OffInv, RangeGood, IsLatest, AliveAt
      <4>2. CASE current.kind = "point" /\ current.t \notin updates
        <5>1. current # NoUpdate
          BY <1>1, <4>2
        <5>2. \A x \in Times : ~IsLatest(current, x)
          BY <4>2, <5>1 DEF IsLatest
        <5>. QED BY <1>1, <3>1, <5>2 DEF OffInv, RangeGood
      <4>. QED BY <3>2, <3>3, <4>1, <4>2
    <3>5. ~dirty' => RangeOfPoint'
      BY <1>1, <3>1, <3>2 DEF OffInv, RangeOfPoint, Alone
    <3>. QED BY <1>1, <3>1, <3>4, <3>5 DEF OffInv
  <2>2. CASE kept # updates
    <3>1. range' = NoRange
      BY <1>5, <2>2 DEF Reset
    <3>2. \A x \in Times : ~(MaxDouble <= x)
      BY PointsBounded
    <3>. QED BY <1>1, <3>1, <3>2 DEF RangeGood, RangeOfPoint
  <2>. QED BY <2>1, <2>2
<1>10. OffInv'
  BY <1>1, <1>5, <1>6, <1>9 DEF OffInv
<1>. QED BY <1>5, <1>7, <1>8, <1>10 DEF CurrentInv

\* The cache takes the preferences over; where they differ from its copies, the
\* range goes.
LEMMA CurrentRelease ==
  ASSUME Sheltered, CurrentInv, CacheInv', ReleasePrefs
  PROVE  CurrentInv'
<1>1. /\ TypeOK /\ NoMix /\ CurrentOK /\ InterpolatedAtNow /\ ~released
      /\ hasChanged \/ interpolation = "INTERNAL"
      /\ interpolation # "OFF" => OnInv
      /\ interpolation = "OFF" => OffInv
      /\ prefs \in PrefSpace /\ interpolation \in Interpolations /\ NoRange.lo = MaxDouble
  BY DEF CurrentInv, CacheInv, TypeOK, ReleasePrefs, NoRange
<1>2. /\ UNCHANGED slice /\ UNCHANGED store
      /\ UNCHANGED <<needToSetToNull, prefs, interpolation, limiting, fileMode>>
      /\ released' = TRUE /\ cached' = CachedPrefs(prefs)
      /\ \/ cached' = cached /\ UNCHANGED <<range, window, entry1, entry2>>
         \/ Reset
  BY DEF ReleasePrefs
<1>3. interpolation # "OFF" => cached'.interpolatepos
  BY <1>1, <1>2 DEF Sheltered, CachedPrefs
<1>4. NoMix' /\ CurrentOK' /\ CurrentIsLatest'
  BY <1>1, <1>2 DEF NoMix, CurrentOK, Stored, CurrentIsLatest, Settled, slice, store
<1>5. InterpolatedAtNow' /\ (cached = CachedPrefs(prefs))'
  BY <1>1, <1>2 DEF InterpolatedAtNow, CachedPrefs, slice, store
<1>6. ASSUME interpolation # "OFF" PROVE OnInv'
  <2>1. BracketExact'
    <3>1. CASE UNCHANGED <<range, window, entry1, entry2>>
      BY <1>1, <1>2, <1>6, <3>1 DEF OnInv, BracketExact, CachedBracket, Exact, slice
    <3>2. CASE Reset
      BY <3>2 DEF Reset, BracketExact, CachedBracket, Exact
    <3>. QED BY <1>2, <3>1, <3>2
  <2>. QED BY <1>1, <1>2, <1>3, <1>6, <2>1 DEF OnInv, slice
<1>7. ASSUME interpolation = "OFF" PROVE OffInv'
  <2>1. CASE cached' = cached /\ UNCHANGED <<range, window, entry1, entry2>>
    BY <1>1, <1>2, <1>7, <2>1
       DEF OffInv, RangeGood, RangeOfPoint, IsLatest, AliveAt, Alone, slice, store
  <2>2. CASE Reset
    <3>1. range' = NoRange /\ \A x \in Times : ~(MaxDouble <= x)
      BY <2>2, PointsBounded DEF Reset
    <3>2. RangeGood' /\ RangeOfPoint'
      BY <1>1, <3>1 DEF RangeGood, RangeOfPoint
    <3>. QED BY <1>1, <1>2, <1>7, <3>1, <3>2 DEF OffInv, slice, store
  <2>. QED BY <1>2, <2>1, <2>2
<1>. QED BY <1>2, <1>4, <1>5, <1>6, <1>7 DEF CurrentInv

LEMMA CurrentInterpolation ==
  ASSUME Sheltered, CurrentInv, CacheInv', NEW s \in Interpolations, SetInterpolation(s)
  PROVE  CurrentInv'
<1>1. TypeOK /\ NoMix /\ CurrentOK /\ s \in {"OFF", "INTERNAL", "EXTERNAL"}
  BY ModeAssumption DEF CurrentInv, CacheInv
<1>2. /\ Allowed(s) /\ interpolation' = s /\ Reset /\ hasChanged' = TRUE /\ UNCHANGED slice
      /\ UNCHANGED <<cached, needToSetToNull, prefs, released, limiting>>
  BY DEF SetInterpolation
<1>3. interpolation # "OFF" /\ s # "OFF"
  BY <1>1, <1>2, AllowedIs
<1>4. NoMix' /\ CurrentOK' /\ CurrentIsLatest' /\ InterpolatedAtNow'
  BY <1>1, <1>2, <1>3
     DEF NoMix, CurrentOK, Stored, CurrentIsLatest, InterpolatedAtNow, Settled, slice
<1>5. OnInv'
  BY <1>2, <1>3 DEF CurrentInv, OnInv, BracketExact, CachedBracket, Exact, Reset, slice
<1>. QED BY <1>2, <1>3, <1>4, <1>5 DEF CurrentInv, CachedPrefs

\* The clock leaves its live mode while the interpolator of the program is on.
LEMMA CurrentFileMode ==
  ASSUME Sheltered, CurrentInv, CacheInv', NEW m \in FileModes, SetFileMode(m)
  PROVE  CurrentInv'
<1>1. TypeOK /\ NoMix /\ CurrentOK
  BY DEF CurrentInv, CacheInv
<1>2. /\ Allowed(IF m THEN "file mode" ELSE "live mode")
      /\ hasChanged' = (hasChanged \/ m)
      /\ UNCHANGED <<slice, cache, prefs, released, interpolation, limiting, now>>
  BY DEF SetFileMode
<1>3. m /\ interpolation # "OFF"
  BY <1>1, <1>2, NeverAllowed
<1>4. hasChanged' = TRUE
  BY <1>2, <1>3
<1>5. NoMix' /\ CurrentOK' /\ CurrentIsLatest' /\ InterpolatedAtNow'
  BY <1>1, <1>2, <1>4 DEF NoMix, CurrentOK, Stored, CurrentIsLatest, InterpolatedAtNow, Settled,
                          slice, cache
<1>6. OnInv'
  BY <1>2, <1>3 DEF CurrentInv, OnInv, BracketExact, CachedBracket, Exact, slice, cache
<1>. QED BY <1>2, <1>3, <1>4, <1>5, <1>6 DEF CurrentInv, CachedPrefs, cache

LEMMA CurrentLimiting ==
  ASSUME Sheltered, CurrentInv, CacheInv', NEW on \in Limitings, SetDataLimiting(on)
  PROVE  CurrentInv'
<1>1. /\ Allowed("limiting")
      /\ UNCHANGED <<slice, cache, prefs, released, interpolation, fileMode, store>>
  BY DEF SetDataLimiting
<1>2. interpolation = "OFF"
  BY <1>1, NeverAllowed DEF CurrentInv, CacheInv
<1>3. NoMix' /\ CurrentOK'
  BY <1>1 DEF CurrentInv, NoMix, CurrentOK, Stored, slice, cache
<1>4. CurrentIsLatest' /\ InterpolatedAtNow'
  BY <1>1 DEF CurrentInv, CurrentIsLatest, InterpolatedAtNow, Settled, IsWanted, AliveAt,
              IsInterpolated, IsInterpolatedAt, IsLatest, slice, cache, store
<1>5. OffInv'
  BY <1>1, <1>2 DEF CurrentInv, OffInv, RangeGood, RangeOfPoint, IsLatest, AliveAt, Alone,
                    slice, cache, store
<1>. QED BY <1>1, <1>2, <1>3, <1>4, <1>5 DEF CurrentInv, CachedPrefs, cache, store

LEMMA CurrentOthers ==
  ASSUME Sheltered, CurrentInv, CacheInv', OtherEntityChanges
  PROVE  CurrentInv'
<1>1. Allowed("others") /\ hasChanged' = TRUE /\ UNCHANGED <<slice, cache, settings, now>>
  BY DEF OtherEntityChanges
<1>2. interpolation = "OFF" => ~fileMode
  BY <1>1, AllowedIs DEF CurrentInv, CacheInv
<1>3. NoMix' /\ CurrentOK' /\ CurrentIsLatest' /\ InterpolatedAtNow'
  BY <1>1 DEF CurrentInv, NoMix, CurrentOK, Stored, CurrentIsLatest, InterpolatedAtNow, Settled,
              slice, cache, settings
<1>4. interpolation = "OFF" => OffInv'
  BY <1>1, <1>2 DEF CurrentInv, OffInv, RangeGood, RangeOfPoint, IsLatest, AliveAt, Alone,
                    slice, cache, settings
<1>5. interpolation # "OFF" => OnInv'
  BY <1>1 DEF CurrentInv, OnInv, BracketExact, CachedBracket, Exact, slice, cache, settings
<1>. QED BY <1>1, <1>3, <1>4, <1>5 DEF CurrentInv, CachedPrefs, cache, settings

\* Every step keeps what the early outs take for granted.
LEMMA CurrentNext == Sheltered /\ CurrentInv /\ [Next]_vars => CurrentInv'
<1>. SUFFICES ASSUME Sheltered, CurrentInv, [Next]_vars PROVE CurrentInv'
  OBVIOUS
<1>0. CacheInv'
  BY NextInv DEF CurrentInv
<1>1. CASE UNCHANGED vars
  <2>1. NoMix' /\ CurrentOK' /\ CurrentIsLatest' /\ InterpolatedAtNow'
    BY <1>1 DEF CurrentInv, NoMix, CurrentOK, Stored, CurrentIsLatest, InterpolatedAtNow, Settled,
                IsWanted, AliveAt, IsInterpolated, IsInterpolatedAt, IsLatest,
                vars, slice, cache, settings, store
  <2>2. interpolation = "OFF" => OffInv'
    BY <1>1 DEF CurrentInv, OffInv, RangeGood, RangeOfPoint, IsLatest, AliveAt, Alone,
                vars, slice, cache, settings, store
  <2>3. interpolation # "OFF" => OnInv'
    BY <1>1 DEF CurrentInv, OnInv, BracketExact, CachedBracket, Exact, Limited,
                vars, slice, cache, settings, store
  <2>. QED BY <1>0, <1>1, <2>1, <2>2, <2>3 DEF CurrentInv, CachedPrefs, vars, cache, settings, store
<1>2. CASE Next
  BY <1>0, <1>2, CurrentUpdate, CurrentInsert, CurrentFlush, CurrentCommitOn, CurrentCommitOff, CurrentRelease,
     CurrentInterpolation, CurrentFileMode, CurrentLimiting, CurrentOthers DEF Next
<1>. QED BY <1>1, <1>2

\* After update(time), current() is the latest point at or before the time, or
\* the one an external interpolator computes at it, or nothing for a platform
\* that is not drawn or does not live: whatever the early outs of the slice and
\* the kick-out of the cache skipped since the point was last looked up.
THEOREM CurrentAlwaysLatest == Sheltered /\ Spec => []CurrentIsLatest
<1>1. ASSUME Sheltered PROVE Spec => []CurrentIsLatest
  <2>1. Init => CurrentInv
    BY <1>1, CurrentInit
  <2>2. CurrentInv /\ [Next]_vars => CurrentInv'
    BY <1>1, CurrentNext
  <2>3. CurrentInv => CurrentIsLatest
    BY DEF CurrentInv
  <2>. QED BY <2>1, <2>2, <2>3, PTL DEF Spec
<1>. QED BY <1>1

\* The range inside which update() does nothing never contains a time for which
\* another point, or none, is the right one.
THEOREM RangeAlwaysSound == Sheltered /\ Spec => []RangeSound
<1>1. ASSUME Sheltered PROVE Spec => []RangeSound
  <2>1. Init => CurrentInv
    BY <1>1, CurrentInit
  <2>2. CurrentInv /\ [Next]_vars => CurrentInv'
    BY <1>1, CurrentNext
  <2>3. CurrentInv => RangeSound
    <3>. SUFFICES ASSUME CurrentInv, cached.datadraw, NEW t \in Times, KickOut(t)
                  PROVE  IsWanted(current, t)
      BY DEF RangeSound
    <3>1. interpolation = "OFF" /\ OffInv /\ ~IsInterpolated /\ TypeOK
      BY DEF CurrentInv, CacheInv, OnInv, KickOut, IsInterpolated
    <3>2. range.lo <= t /\ t < range.hi
      <4>1. range.lo \in Int /\ t \in Int
        BY <3>1, PointsBounded DEF TypeOK
      <4>. QED BY <4>1 DEF KickOut
    <3>3. IsLatest(current, t) /\ (fileMode => AliveAt(t))
      BY <3>1, <3>2 DEF OffInv, RangeGood
    <3>. QED BY <3>1, <3>3 DEF IsWanted
  <2>. QED BY <2>1, <2>2, <2>3, PTL DEF Spec
<1>. QED BY <1>1

\* After update(time) an interpolated current point is for that time and lies
\* strictly between the two points it was computed from.
THEOREM InterpolatedAlwaysAtNow == Sheltered /\ Spec => []InterpolatedAtNow
<1>1. ASSUME Sheltered PROVE Spec => []InterpolatedAtNow
  <2>1. Init => CurrentInv
    BY <1>1, CurrentInit
  <2>2. CurrentInv /\ [Next]_vars => CurrentInv'
    BY <1>1, CurrentNext
  <2>3. CurrentInv => InterpolatedAtNow
    BY DEF CurrentInv
  <2>. QED BY <2>1, <2>2, <2>3, PTL DEF Spec
<1>. QED BY <1>1

\* An update that gives the slice another current point reports it, in every
\* environment: each path of PlatformCache::update that changes current_ goes
\* through setCurrent() and none clears the flag after it.
THEOREM ChangeAlwaysReported == Spec => ChangeReported
<1>1. ASSUME CacheInv, UpdateStep, current' # current, current.kind # "freed"
      PROVE  changed'
  <2>1. PICK t \in Times : Update(t)
    BY <1>1 DEF UpdateStep
  <2>. DEFINE w == IF window = NoWindow THEN SliceWindow ELSE window
  <2>2. NotDrawn \/ UpToDate(t) \/ Expired(t, w) \/ Active(t, w)
    BY <2>1 DEF Update, UpdatePlatform
  <2>. HIDE DEF w
  <2>3. \A c, b : SetCurrent(c, b) => changed'
    BY <1>1 DEF SetCurrent
  <2>4. CASE NotDrawn
    BY <2>3, <2>4 DEF NotDrawn
  <2>5. CASE UpToDate(t)
    BY <1>1, <2>5 DEF UpToDate
  <2>6. CASE Expired(t, w)
    BY <1>1, <2>3, <2>6 DEF Expired
  <2>7. CASE Active(t, w)
    BY <1>1, <2>3, <2>7 DEF Active, UpdateStepwise, UpdateInternally, UpdateExternally
  <2>. QED BY <2>2, <2>4, <2>5, <2>6, <2>7
<1>2. Spec => []CacheInv
  BY InitInv, NextInv, PTL DEF Spec
<1>3. CacheInv /\ [Next]_vars => [UpdateStep /\ current' # current /\ current.kind # "freed" => changed']_vars
  BY <1>1
<1>. QED BY <1>2, <1>3, PTL DEF Spec, ChangeReported

-----------------------------------------------------------------------------
(* The searches of a slice.  They are exact for every slice, every hint    *)
(* and every search width: what the neighbour loops find is the one        *)
(* position that std::lower_bound and std::upper_bound may return on       *)
(* sorted points, which is why UpdateSlice may leave the hint out.         *)

IsLower(S, t, i) == (\A j \in 1 .. i - 1 : S[j] < t) /\ (i # End(S) => S[i] >= t)
IsUpper(S, t, i) == (\A j \in 1 .. i - 1 : S[j] <= t) /\ (i # End(S) => S[i] > t)

-----------------------------------------------------------------------------
(* The references exist and are unique                                     *)

\* Both binary searches return a position with the property they are named for.
LEMMA BoundsExist ==
  ASSUME NEW S \in Seq(Int), NEW t \in Int
  PROVE  /\ LowerBound(S, t) \in 1 .. End(S) /\ IsLower(S, t, LowerBound(S, t))
         /\ UpperBound(S, t) \in 1 .. End(S) /\ IsUpper(S, t, UpperBound(S, t))
<1>. DEFINE AtLeast == {i \in 1 .. Len(S) : S[i] >= t}
            Greater == {i \in 1 .. Len(S) : S[i] > t}
<1>0. /\ Len(S) \in Nat
      /\ \A i \in 1 .. Len(S) : S[i] \in Int
  BY LenProperties, ElementOfSeq
<1>1. \E i \in 1 .. End(S) : IsLower(S, t, i)
  <2>1. CASE AtLeast = {}
    BY <1>0, <2>1 DEF End, IsLower
  <2>2. CASE AtLeast # {}
    <3>. HIDE DEF AtLeast
    <3>1. PICK i \in AtLeast : \A j \in AtLeast : i <= j
      <4>1. AtLeast \in SUBSET Nat
        BY <1>0 DEF AtLeast
      <4>. QED BY <4>1, <2>2, LeastNatExists
    <3>2. i \in 1 .. End(S) /\ S[i] >= t
      BY <1>0 DEF AtLeast, End
    <3>3. ASSUME NEW j \in 1 .. i - 1 PROVE S[j] < t
      <4>1. j \in 1 .. Len(S) /\ j \notin AtLeast
        BY <1>0, <3>1 DEF AtLeast
      <4>. QED BY <1>0, <4>1 DEF AtLeast
    <3>. QED BY <3>2, <3>3 DEF IsLower
  <2>. QED BY <2>1, <2>2
<1>2. \E i \in 1 .. End(S) : IsUpper(S, t, i)
  <2>1. CASE Greater = {}
    BY <1>0, <2>1 DEF End, IsUpper
  <2>2. CASE Greater # {}
    <3>. HIDE DEF Greater
    <3>1. PICK i \in Greater : \A j \in Greater : i <= j
      <4>1. Greater \in SUBSET Nat
        BY <1>0 DEF Greater
      <4>. QED BY <4>1, <2>2, LeastNatExists
    <3>2. i \in 1 .. End(S) /\ S[i] > t
      BY <1>0 DEF Greater, End
    <3>3. ASSUME NEW j \in 1 .. i - 1 PROVE S[j] <= t
      <4>1. j \in 1 .. Len(S) /\ j \notin Greater
        BY <1>0, <3>1 DEF Greater
      <4>. QED BY <1>0, <4>1 DEF Greater
    <3>. QED BY <3>2, <3>3 DEF IsUpper
  <2>. QED BY <2>1, <2>2
<1>. QED BY <1>1, <1>2, Zenon DEF LowerBound, UpperBound, IsLower, IsUpper

\* There is only one such position, sorted or not.
LEMMA LowerUnique ==
  ASSUME NEW S \in Seq(Int), NEW t \in Int, NEW i \in 1 .. End(S), IsLower(S, t, i)
  PROVE  i = LowerBound(S, t)
<1>. DEFINE k == LowerBound(S, t)
<1>0. /\ Len(S) \in Nat
      /\ \A j \in 1 .. Len(S) : S[j] \in Int
  BY LenProperties, ElementOfSeq
<1>1. k \in 1 .. End(S) /\ IsLower(S, t, k)
  BY BoundsExist
<1>. HIDE DEF k
<1>. QED BY <1>0, <1>1 DEF IsLower, End, k

LEMMA UpperUnique ==
  ASSUME NEW S \in Seq(Int), NEW t \in Int, NEW i \in 1 .. End(S), IsUpper(S, t, i)
  PROVE  i = UpperBound(S, t)
<1>. DEFINE k == UpperBound(S, t)
<1>0. /\ Len(S) \in Nat
      /\ \A j \in 1 .. Len(S) : S[j] \in Int
  BY LenProperties, ElementOfSeq
<1>1. k \in 1 .. End(S) /\ IsUpper(S, t, k)
  BY BoundsExist
<1>. HIDE DEF k
<1>. QED BY <1>0, <1>1 DEF IsUpper, End, k

-----------------------------------------------------------------------------
(* The neighbour loops                                                     *)

\* The first position a forward loop accepts, the last one a backward loop does.
LEMMA ExtremeInRange ==
  ASSUME NEW lo \in Int, NEW hi \in Int, NEW T \in SUBSET (lo .. hi), T # {}
  PROVE  /\ The(Least(T)) \in T /\ \A q \in T : The(Least(T)) <= q
         /\ The(Greatest(T)) \in T /\ \A q \in T : q <= The(Greatest(T))
  BY BoundedExtremes, TheLeast, TheGreatest

\* computeLowerBound finds the lower bound from any hint.
THEOREM LowerBoundExact ==
  ASSUME NEW S \in Seq(Int), Increasing(S), NEW at \in 1 .. End(S), NEW t \in Int
  PROVE  ComputeLowerBound(S, at, t) = LowerBound(S, t)
<1>. DEFINE ahead  == {i \in Ahead(S, at) : S[i] >= t}
            behind == {i \in Behind(at) : S[i] < t}
            m == The(Least(ahead))
            g == The(Greatest(behind))
<1>0. /\ Len(S) \in Nat /\ DOMAIN S = 1 .. Len(S)
      /\ \A j \in 1 .. Len(S) : S[j] \in Int
      /\ at \in Nat /\ FastSearchWidth \in Nat
      /\ \A i, j \in 1 .. Len(S) : i < j => S[i] < S[j]
  BY LenProperties, ElementOfSeq, FastWidthAssumption DEF Increasing, End
<1>1. ASSUME at # End(S), S[at] <= t, ahead # {} PROVE m = LowerBound(S, t)
  <2>1. ahead \in SUBSET (1 .. Len(S))
    BY <1>0 DEF Ahead, End
  <2>2. m \in ahead /\ \A q \in ahead : m <= q
    <3>1. 1 \in Int /\ Len(S) \in Int /\ ahead # {}
      BY <1>0, <1>1
    <3>. HIDE DEF ahead
    <3>. QED BY <2>1, <3>1, ExtremeInRange, Zenon
  <2>. HIDE DEF m
  <2>3. m \in 1 .. Len(S) /\ S[m] >= t /\ at <= m /\ m < at + FastSearchWidth
    BY <1>0, <2>2 DEF Ahead, End
  <2>4. ASSUME NEW j \in 1 .. m - 1 PROVE S[j] < t
    <3>1. CASE j < at
      BY <1>0, <1>1, <2>3, <3>1 DEF End
    <3>2. CASE j >= at
      BY <1>0, <2>2, <2>3, <3>2 DEF Ahead
    <3>. QED BY <1>0, <3>1, <3>2
  <2>5. IsLower(S, t, m) /\ m \in 1 .. End(S)
    BY <1>0, <2>3, <2>4 DEF IsLower, End
  <2>. QED BY <2>5, LowerUnique
<1>2. ASSUME at # End(S), S[at] <= t, ahead = {}, AllSeen(S, at) PROVE End(S) = LowerBound(S, t)
  <2>1. ASSUME NEW j \in 1 .. Len(S) PROVE S[j] < t
    <3>1. CASE j < at
      BY <1>0, <1>2, <3>1 DEF End
    <3>2. CASE j >= at
      BY <1>0, <1>2, <3>2 DEF Ahead, AllSeen, End
    <3>. QED BY <1>0, <3>1, <3>2
  <2>2. IsLower(S, t, End(S)) /\ End(S) \in 1 .. End(S)
    BY <1>0, <2>1 DEF IsLower, End
  <2>. QED BY <2>2, LowerUnique
<1>3. ASSUME at # End(S), ~ (S[at] <= t), behind # {} PROVE g + 1 = LowerBound(S, t)
  <2>1. behind \in SUBSET (1 .. Len(S))
    BY <1>0, <1>3 DEF Behind, End
  <2>2. g \in behind /\ \A q \in behind : q <= g
    <3>1. 1 \in Int /\ Len(S) \in Int /\ behind # {}
      BY <1>0, <1>3
    <3>. HIDE DEF behind
    <3>. QED BY <2>1, <3>1, ExtremeInRange, Zenon
  <2>. HIDE DEF g
  <2>3. g \in 2 .. at /\ S[g] < t /\ at <= Len(S) /\ g > at - FastSearchWidth
    BY <1>0, <1>3, <2>2, SMTT(30) DEF Behind, End
  <2>4. g < at
    BY <1>0, <1>3, <2>3
  <2>5. S[g + 1] >= t
    <3>1. CASE g + 1 = at
      BY <1>0, <1>3, <3>1, <2>3
    <3>2. CASE g + 1 < at
      <4>1. g + 1 \in Behind(at) /\ g + 1 \in 1 .. Len(S)
        BY <1>0, <2>3, <3>2 DEF Behind
      <4>2. ~ (S[g + 1] < t)
        BY <4>1, <2>2, <2>3
      <4>. QED BY <1>0, <4>1, <4>2
    <3>. QED BY <1>0, <2>3, <2>4, <3>1, <3>2
  <2>6. ASSUME NEW j \in 1 .. g PROVE S[j] < t
    BY <1>0, <2>3, <2>4
  <2>7. IsLower(S, t, g + 1) /\ g + 1 \in 1 .. End(S)
    BY <1>0, <2>3, <2>4, <2>5, <2>6 DEF IsLower, End
  <2>. QED BY <2>7, LowerUnique
<1>. QED
  <2>1. ComputeLowerBound(S, at, t) =
          IF at = End(S) THEN LowerBound(S, t)
          ELSE IF S[at] <= t
          THEN IF ahead # {} THEN m ELSE IF AllSeen(S, at) THEN End(S) ELSE LowerBound(S, t)
          ELSE IF behind # {} THEN g + 1 ELSE LowerBound(S, t)
    BY DEF ComputeLowerBound
  <2>. HIDE DEF ahead, behind, m, g
  <2>. QED BY <1>1, <1>2, <1>3, <2>1, Zenon

\* computeUpperBound finds the upper bound from any hint.
THEOREM UpperBoundExact ==
  ASSUME NEW S \in Seq(Int), Increasing(S), NEW at \in 1 .. End(S), NEW t \in Int
  PROVE  ComputeUpperBound(S, at, t) = UpperBound(S, t)
<1>. DEFINE ahead  == {i \in Ahead(S, at) : S[i] > t}
            behind == {i \in Behind(at) : S[i] <= t}
            m == The(Least(ahead))
            g == The(Greatest(behind))
<1>0. /\ Len(S) \in Nat /\ DOMAIN S = 1 .. Len(S)
      /\ \A j \in 1 .. Len(S) : S[j] \in Int
      /\ at \in Nat /\ FastSearchWidth \in Nat
      /\ \A i, j \in 1 .. Len(S) : i < j => S[i] < S[j]
  BY LenProperties, ElementOfSeq, FastWidthAssumption DEF Increasing, End
<1>1. ASSUME at # End(S), S[at] <= t, ahead # {} PROVE m = UpperBound(S, t)
  <2>1. ahead \in SUBSET (1 .. Len(S))
    BY <1>0 DEF Ahead, End
  <2>2. m \in ahead /\ \A q \in ahead : m <= q
    <3>1. 1 \in Int /\ Len(S) \in Int /\ ahead # {}
      BY <1>0, <1>1
    <3>. HIDE DEF ahead
    <3>. QED BY <2>1, <3>1, ExtremeInRange, Zenon
  <2>. HIDE DEF m
  <2>3. m \in 1 .. Len(S) /\ S[m] > t /\ at <= m /\ m < at + FastSearchWidth
    BY <1>0, <2>2 DEF Ahead, End
  <2>4. ASSUME NEW j \in 1 .. m - 1 PROVE S[j] <= t
    <3>1. CASE j < at
      BY <1>0, <1>1, <2>3, <3>1 DEF End
    <3>2. CASE j >= at
      BY <1>0, <2>2, <2>3, <3>2 DEF Ahead
    <3>. QED BY <1>0, <3>1, <3>2
  <2>5. IsUpper(S, t, m) /\ m \in 1 .. End(S)
    BY <1>0, <2>3, <2>4 DEF IsUpper, End
  <2>. QED BY <2>5, UpperUnique
<1>2. ASSUME at # End(S), S[at] <= t, ahead = {}, AllSeen(S, at) PROVE End(S) = UpperBound(S, t)
  <2>1. ASSUME NEW j \in 1 .. Len(S) PROVE S[j] <= t
    <3>1. CASE j < at
      BY <1>0, <1>2, <3>1 DEF End
    <3>2. CASE j >= at
      BY <1>0, <1>2, <3>2 DEF Ahead, AllSeen, End
    <3>. QED BY <1>0, <3>1, <3>2
  <2>2. IsUpper(S, t, End(S)) /\ End(S) \in 1 .. End(S)
    BY <1>0, <2>1 DEF IsUpper, End
  <2>. QED BY <2>2, UpperUnique
<1>3. ASSUME at # End(S), ~ (S[at] <= t), behind # {} PROVE g + 1 = UpperBound(S, t)
  <2>1. behind \in SUBSET (1 .. Len(S))
    BY <1>0, <1>3 DEF Behind, End
  <2>2. g \in behind /\ \A q \in behind : q <= g
    <3>1. 1 \in Int /\ Len(S) \in Int /\ behind # {}
      BY <1>0, <1>3
    <3>. HIDE DEF behind
    <3>. QED BY <2>1, <3>1, ExtremeInRange, Zenon
  <2>. HIDE DEF g
  <2>3. g \in 2 .. at /\ S[g] <= t /\ at <= Len(S) /\ g > at - FastSearchWidth
    <3>1. g \in Behind(at) /\ S[g] <= t
      BY <2>2
    <3>2. at <= Len(S)
      BY <1>0, <1>3 DEF End
    <3>. QED BY <3>1, <3>2 DEF Behind
  <2>4. g < at
    BY <1>0, <1>3, <2>3
  <2>5. S[g + 1] > t
    <3>1. CASE g + 1 = at
      BY <1>0, <1>3, <3>1, <2>3
    <3>2. CASE g + 1 < at
      <4>1. g + 1 \in Behind(at) /\ g + 1 \in 1 .. Len(S)
        BY <1>0, <2>3, <3>2 DEF Behind
      <4>2. ~ (S[g + 1] <= t)
        BY <4>1, <2>2, <2>3
      <4>. QED BY <1>0, <4>1, <4>2
    <3>. QED BY <1>0, <2>3, <2>4, <3>1, <3>2
  <2>6. ASSUME NEW j \in 1 .. g PROVE S[j] <= t
    BY <1>0, <2>3, <2>4
  <2>7. IsUpper(S, t, g + 1) /\ g + 1 \in 1 .. End(S)
    BY <1>0, <2>3, <2>4, <2>5, <2>6 DEF IsUpper, End
  <2>. QED BY <2>7, UpperUnique
<1>4. ASSUME at # End(S), ~ (S[at] <= t), behind = {}, FirstSeen(at)
      PROVE  (IF S[1] <= t THEN 2 ELSE 1) = UpperBound(S, t)
  <2>1. at \in 1 .. Len(S) /\ S[at] > t
    BY <1>0, <1>4 DEF End
  <2>2. ASSUME NEW j \in 2 .. at PROVE S[j] > t
    <3>1. j \in Behind(at)
      BY <1>0, <1>4 DEF Behind, FirstSeen
    <3>2. j \in 1 .. Len(S) /\ ~ (S[j] <= t)
      BY <1>0, <1>4, <2>1, <3>1
    <3>. QED BY <1>0, <3>2
  <2>3. CASE S[1] <= t
    <3>1. at >= 2
      BY <1>0, <2>1, <2>3
    <3>2. IsUpper(S, t, 2) /\ 2 \in 1 .. End(S)
      BY <1>0, <2>1, <2>2, <2>3, <3>1 DEF IsUpper, End
    <3>. QED BY <2>3, <3>2, UpperUnique
  <2>4. CASE ~ (S[1] <= t)
    <3>1. IsUpper(S, t, 1) /\ 1 \in 1 .. End(S)
      BY <1>0, <2>1, <2>4 DEF IsUpper, End
    <3>. QED BY <2>4, <3>1, UpperUnique
  <2>. QED BY <2>3, <2>4
<1>. QED
  <2>1. ComputeUpperBound(S, at, t) =
          IF at = End(S) THEN UpperBound(S, t)
          ELSE IF S[at] <= t
          THEN IF ahead # {} THEN m ELSE IF AllSeen(S, at) THEN End(S) ELSE UpperBound(S, t)
          ELSE IF behind # {} THEN g + 1
          ELSE IF FirstSeen(at) THEN IF S[1] <= t THEN 2 ELSE 1
          ELSE UpperBound(S, t)
    BY DEF ComputeUpperBound
  <2>. HIDE DEF ahead, behind, m, g
  <2>2. CASE at = End(S)
    BY <2>1, <2>2
  <2>3. CASE at # End(S) /\ S[at] <= t
    BY <1>1, <1>2, <2>1, <2>3, Zenon
  <2>4. CASE at # End(S) /\ ~ (S[at] <= t)
    <3>1. CASE behind # {}
      BY <1>3, <2>1, <2>4, <3>1, Zenon
    <3>2. CASE behind = {} /\ FirstSeen(at)
      <4>1. ComputeUpperBound(S, at, t) = IF S[1] <= t THEN 2 ELSE 1
        BY <2>1, <2>4, <3>2
      <4>. QED BY <1>4, <2>4, <3>2, <4>1
    <3>3. CASE behind = {} /\ ~ FirstSeen(at)
      BY <2>1, <2>4, <3>3, Zenon
    <3>. QED BY <3>1, <3>2, <3>3
  <2>. QED BY <2>2, <2>3, <2>4

-----------------------------------------------------------------------------
(* The points stay sorted                                                  *)

\* What the operations on a slice leave: its points in order, and a bound on
\* the positions an interval of it is cut at.
LEMMA PointsAreIntegers ==
  ASSUME NEW S \in Seq(StoredTimes)
  PROVE  S \in Seq(Int) /\ Len(S) \in Nat /\ DOMAIN S = 1 .. Len(S)
<1>1. StoredTimes \subseteq Int
  BY FastTimesAssumption DEF StaticTime
<1>. QED BY <1>1, LenProperties, SeqMonotonic

\* Cutting a slice in two and leaving out what is between keeps it sorted.
LEMMA CutIncreasing ==
  ASSUME NEW S \in Seq(StoredTimes), Increasing(S),
         NEW a \in 1 .. End(S), NEW b \in 1 .. End(S), a <= b
  PROVE  LET cut == SubSeq(S, 1, a - 1) \o SubSeq(S, b, Len(S))
         IN  cut \in Seq(StoredTimes) /\ Increasing(cut)
<1>. DEFINE front == SubSeq(S, 1, a - 1)
            back  == SubSeq(S, b, Len(S))
            cut   == front \o back
<1>0. Len(S) \in Nat /\ DOMAIN S = 1 .. Len(S) /\ \A i \in 1 .. Len(S) : S[i] \in StoredTimes
  BY LenProperties, ElementOfSeq
<1>1. /\ front \in Seq(StoredTimes) /\ Len(front) = a - 1
      /\ \A i \in 1 .. a - 1 : front[i] = S[i]
  <2>1. 1 \in Int /\ a - 1 \in Int /\ \A i \in 1 .. a - 1 : S[i] \in StoredTimes
    BY <1>0 DEF End
  <2>. QED BY <2>1, SubSeqProperties
<1>2. /\ back \in Seq(StoredTimes) /\ Len(back) = End(S) - b
      /\ \A i \in 1 .. End(S) - b : back[i] = S[b + i - 1]
  <2>1. b \in Int /\ Len(S) \in Int /\ \A i \in b .. Len(S) : S[i] \in StoredTimes
    BY <1>0 DEF End
  <2>2. /\ back \in Seq(StoredTimes) /\ Len(back) = IF b <= Len(S) THEN Len(S) - b + 1 ELSE 0
        /\ \A i \in 1 .. Len(S) - b + 1 : back[i] = S[b + i - 1]
    BY <2>1, SubSeqProperties
  <2>. QED BY <1>0, <2>2 DEF End
<1>. HIDE DEF front, back
<1>3. /\ cut \in Seq(StoredTimes) /\ Len(cut) = (a - 1) + (End(S) - b)
      /\ \A i \in 1 .. (a - 1) + (End(S) - b) :
            cut[i] = IF i <= a - 1 THEN S[i] ELSE S[b + (i - (a - 1)) - 1]
  <2>1. /\ cut \in Seq(StoredTimes) /\ Len(cut) = Len(front) + Len(back)
        /\ \A i \in 1 .. Len(front) + Len(back) :
              cut[i] = IF i <= Len(front) THEN front[i] ELSE back[i - Len(front)]
    BY <1>1, <1>2, ConcatProperties
  <2>. HIDE DEF cut
  <2>2. ASSUME NEW i \in 1 .. (a - 1) + (End(S) - b)
        PROVE  cut[i] = IF i <= a - 1 THEN S[i] ELSE S[b + (i - (a - 1)) - 1]
    <3>1. CASE i <= a - 1
      BY <1>0, <1>1, <1>2, <2>1, <3>1 DEF End
    <3>2. CASE ~ (i <= a - 1)
      <4>1. i - (a - 1) \in 1 .. End(S) - b
        BY <1>0, <3>2 DEF End
      <4>2. cut[i] = back[i - (a - 1)]
        BY <1>0, <1>1, <1>2, <2>1, <3>2
      <4>. QED BY <1>2, <3>2, <4>1, <4>2
    <3>. QED BY <3>1, <3>2
  <2>. QED BY <1>1, <1>2, <2>1, <2>2
<1>. HIDE DEF cut
<1>4. Increasing(cut)
  <2>1. DOMAIN cut = 1 .. (a - 1) + (End(S) - b)
    BY <1>3, LenProperties
  <2>. SUFFICES ASSUME NEW i \in 1 .. (a - 1) + (End(S) - b), NEW j \in 1 .. (a - 1) + (End(S) - b), i < j
                PROVE  cut[i] < cut[j]
    BY <2>1 DEF Increasing
  <2>2. \A k, l \in 1 .. Len(S) : k < l => S[k] < S[l]
    BY <1>0 DEF Increasing
  <2>3. CASE j <= a - 1
    BY <1>0, <1>3, <2>2, <2>3 DEF End
  <2>4. CASE i <= a - 1 /\ ~ (j <= a - 1)
    BY <1>0, <1>3, <2>2, <2>4 DEF End
  <2>5. CASE ~ (i <= a - 1)
    <3>1. cut[i] = S[b + (i - (a - 1)) - 1] /\ cut[j] = S[b + (j - (a - 1)) - 1]
      BY <1>0, <1>3, <2>5
    <3>2. /\ b + (i - (a - 1)) - 1 \in 1 .. Len(S) /\ b + (j - (a - 1)) - 1 \in 1 .. Len(S)
          /\ b + (i - (a - 1)) - 1 < b + (j - (a - 1)) - 1
      BY <1>0, <2>5 DEF End
    <3>. QED BY <2>2, <3>1, <3>2
  <2>. QED BY <1>0, <2>3, <2>4, <2>5
<1>. QED BY <1>3, <1>4 DEF cut, front, back

\* A search leaves the iterator at a position of the slice.
LEMMA SearchPositions ==
  ASSUME NEW S \in Seq(StoredTimes), Increasing(S), NEW at \in 1 .. End(S), NEW t \in SearchTimes
  PROVE  /\ ComputeLowerBound(S, at, t) \in 1 .. End(S)
         /\ ComputeUpperBound(S, at, t) \in 1 .. End(S)
         /\ ComputeTimeUpdate(S, at, t) \in 1 .. End(S)
         /\ ComputeInterpolated(S, at, t) \in 1 .. End(S)
<1>0. S \in Seq(Int) /\ Len(S) \in Nat /\ t \in Int
  BY PointsAreIntegers, FastTimesAssumption
<1>1. /\ ComputeLowerBound(S, at, t) \in 1 .. End(S)
      /\ ComputeUpperBound(S, at, t) \in 1 .. End(S)
  BY <1>0, LowerBoundExact, UpperBoundExact, BoundsExist
<1>2. S # << >> => Len(S) >= 1
  BY <1>0, EmptySeq
<1>3. ComputeTimeUpdate(S, at, t) \in 1 .. End(S)
  BY <1>0, <1>1, <1>2 DEF ComputeTimeUpdate, End
<1>4. ComputeInterpolated(S, at, t) \in 1 .. End(S)
  BY <1>0, <1>1 DEF ComputeInterpolated, End
<1>. QED BY <1>1, <1>3, <1>4

\* flush(start, end) leaves a sorted slice.
LEMMA ErasedIncreasing ==
  ASSUME NEW S \in Seq(StoredTimes), Increasing(S), NEW start \in SearchTimes, NEW end \in SearchTimes
  PROVE  Erased(S, start, end) \in Seq(StoredTimes) /\ Increasing(Erased(S, start, end))
<1>. DEFINE first == LowerBound(S, start)
            last  == LowerBound(S, end)
<1>0. S \in Seq(Int) /\ Len(S) \in Nat /\ start \in Int /\ end \in Int
  BY PointsAreIntegers, FastTimesAssumption
<1>1. first \in 1 .. End(S) /\ IsLower(S, start, first) /\ last \in 1 .. End(S) /\ IsLower(S, end, last)
  BY <1>0, BoundsExist
<1>2. CASE first = End(S) \/ S[first] >= end
  BY <1>2 DEF Erased
<1>3. CASE ~ (first = End(S) \/ S[first] >= end)
  <2>1. Erased(S, start, end) = SubSeq(S, 1, first - 1) \o SubSeq(S, last, Len(S))
    BY <1>3 DEF Erased
  <2>. HIDE DEF first, last
  <2>2. first <= last
    <3>. SUFFICES ASSUME last < first PROVE FALSE
      BY <1>0, <1>1 DEF End
    <3>1. last \in 1 .. Len(S) /\ first \in 1 .. Len(S) /\ last < first
      BY <1>0, <1>1, <1>3 DEF End
    <3>2. S[last] >= end /\ S[first] \in Int /\ S[last] \in Int /\ ~ (S[first] >= end)
      BY <1>0, <1>1, <1>3, <3>1, ElementOfSeq DEF IsLower, End
    <3>3. S[last] < S[first]
      BY <1>0, <3>1, PointsAreIntegers DEF Increasing
    <3>. QED BY <1>0, <3>2, <3>3
  <2>. QED BY <1>1, <2>1, <2>2, CutIncreasing
<1>. QED BY <1>2, <1>3

\* The last point says as much as the binary search about where a new one goes.
LEMMA InsertPositionIsLower ==
  ASSUME NEW S \in Seq(StoredTimes), Increasing(S), NEW p \in StoredTimes
  PROVE  InsertPosition(S, p) \in 1 .. End(S) /\ IsLower(S, p, InsertPosition(S, p))
<1>0. /\ S \in Seq(Int) /\ Len(S) \in Nat /\ p \in Int /\ DOMAIN S = 1 .. Len(S)
      /\ \A i \in 1 .. Len(S) : S[i] \in Int
  BY PointsAreIntegers, FastTimesAssumption, ElementOfSeq DEF StaticTime
<1>1. CASE S = << >>
  <2>1. Len(S) = 0 /\ InsertPosition(S, p) = End(S)
    BY <1>1, EmptySeq DEF InsertPosition
  <2>. QED BY <2>1 DEF IsLower, End
<1>2. CASE S # << >> /\ S[Len(S)] < p
  <2>1. InsertPosition(S, p) = End(S)
    BY <1>2 DEF InsertPosition
  <2>2. ASSUME NEW j \in 1 .. Len(S) PROVE S[j] < p
    <3>1. CASE j = Len(S)
      BY <1>2, <3>1
    <3>2. CASE j < Len(S)
      <4>1. S[j] < S[Len(S)] /\ S[j] \in Int /\ S[Len(S)] \in Int
        BY <1>0, <3>2 DEF Increasing
      <4>. QED BY <1>0, <1>2, <4>1
    <3>3. j = Len(S) \/ j < Len(S)
      <4>1. Len(S) \in Nat
        BY <1>0
      <4>. QED BY <4>1
    <3>. QED BY <3>1, <3>2, <3>3
  <2>. QED BY <1>0, <2>1, <2>2 DEF IsLower, End
<1>3. CASE S # << >> /\ ~ (S[Len(S)] < p)
  BY <1>0, <1>3, BoundsExist DEF InsertPosition
<1>. QED BY <1>1, <1>2, <1>3

\* insert() leaves a sorted slice.
LEMMA InsertIncreasing ==
  ASSUME NEW S \in Seq(StoredTimes), Increasing(S), NEW p \in StoredTimes,
         NEW at \in 1 .. End(S), IsLower(S, p, at), at = End(S) \/ S[at] # p
  PROVE  InsertAt(S, at, p) \in Seq(StoredTimes) /\ Increasing(InsertAt(S, at, p))
<1>. DEFINE front == SubSeq(S, 1, at - 1)
            back  == SubSeq(S, at, Len(S))
            start == front \o <<p>>
            new   == start \o back
<1>0. /\ S \in Seq(Int) /\ Len(S) \in Nat /\ p \in Int /\ DOMAIN S = 1 .. Len(S)
      /\ \A i \in 1 .. Len(S) : S[i] \in Int /\ S[i] \in StoredTimes
  BY PointsAreIntegers, FastTimesAssumption, ElementOfSeq DEF StaticTime
<1>1. /\ front \in Seq(StoredTimes) /\ Len(front) = at - 1
      /\ \A i \in 1 .. at - 1 : front[i] = S[i]
  <2>1. 1 \in Int /\ at - 1 \in Int /\ \A i \in 1 .. at - 1 : S[i] \in StoredTimes
    BY <1>0 DEF End
  <2>. QED BY <2>1, SubSeqProperties
<1>2. /\ back \in Seq(StoredTimes) /\ Len(back) = End(S) - at
      /\ \A i \in 1 .. End(S) - at : back[i] = S[at + i - 1]
  <2>1. at \in Int /\ Len(S) \in Int /\ \A i \in at .. Len(S) : S[i] \in StoredTimes
    BY <1>0 DEF End
  <2>2. /\ back \in Seq(StoredTimes) /\ Len(back) = IF at <= Len(S) THEN Len(S) - at + 1 ELSE 0
        /\ \A i \in 1 .. Len(S) - at + 1 : back[i] = S[at + i - 1]
    BY <2>1, SubSeqProperties
  <2>. QED BY <1>0, <2>2 DEF End
<1>. HIDE DEF front, back
<1>3. /\ start \in Seq(StoredTimes) /\ Len(start) = at
      /\ \A i \in 1 .. at - 1 : start[i] = S[i]
      /\ start[at] = p
  <2>1. <<p>> \in Seq(StoredTimes) /\ Len(<<p>>) = 1 /\ <<p>>[1] = p
    OBVIOUS
  <2>2. /\ start \in Seq(StoredTimes) /\ Len(start) = Len(front) + Len(<<p>>)
        /\ \A i \in 1 .. Len(front) + Len(<<p>>) :
              start[i] = IF i <= Len(front) THEN front[i] ELSE <<p>>[i - Len(front)]
    BY <1>1, <2>1, ConcatProperties
  <2>. HIDE DEF start
  <2>3. at \in Nat \ {0} /\ at - (at - 1) = 1
    BY <1>0 DEF End
  <2>. QED BY <1>1, <2>1, <2>2, <2>3
<1>. HIDE DEF start
<1>4. /\ new \in Seq(StoredTimes) /\ Len(new) = End(S)
      /\ \A i \in 1 .. at - 1 : new[i] = S[i]
      /\ new[at] = p
      /\ \A i \in at + 1 .. End(S) : new[i] = S[i - 1]
  <2>1. /\ new \in Seq(StoredTimes) /\ Len(new) = at + (End(S) - at)
        /\ \A i \in 1 .. at + (End(S) - at) :
              new[i] = IF i <= at THEN start[i] ELSE back[i - at]
    <3>1. /\ new \in Seq(StoredTimes) /\ Len(new) = Len(start) + Len(back)
          /\ \A i \in 1 .. Len(start) + Len(back) :
                new[i] = IF i <= Len(start) THEN start[i] ELSE back[i - Len(start)]
      BY <1>2, <1>3, ConcatProperties
    <3>. HIDE DEF new
    <3>. QED BY <1>2, <1>3, <3>1
  <2>. HIDE DEF new
  <2>2. at \in 1 .. End(S) /\ End(S) \in Nat /\ at + (End(S) - at) = End(S)
    BY <1>0 DEF End
  <2>3. ASSUME NEW i \in at + 1 .. End(S) PROVE new[i] = S[i - 1]
    <3>1. i \in 1 .. End(S) /\ ~ (i <= at) /\ i - at \in 1 .. End(S) - at /\ at + (i - at) - 1 = i - 1
      BY <2>2
    <3>2. new[i] = back[i - at]
      BY <2>1, <2>2, <3>1
    <3>. QED BY <1>2, <3>1, <3>2
  <2>. QED BY <1>3, <2>1, <2>2, <2>3
<1>. HIDE DEF new
<1>5. Increasing(new)
  <2>1. DOMAIN new = 1 .. End(S) /\ End(S) \in Nat /\ End(S) = Len(S) + 1
    BY <1>0, <1>4, LenProperties DEF End
  <2>. SUFFICES ASSUME NEW i \in 1 .. End(S), NEW j \in 1 .. End(S), i < j
                PROVE  new[i] < new[j]
    BY <2>1 DEF Increasing
  <2>2. \A k, l \in 1 .. Len(S) : k < l => S[k] < S[l]
    BY <1>0 DEF Increasing
  <2>3. \A k \in 1 .. at - 1 : S[k] < p
    BY DEF IsLower
  <2>4. \A k \in at .. Len(S) : p < S[k]
    <3>. SUFFICES ASSUME NEW k \in at .. Len(S) PROVE p < S[k]
      OBVIOUS
    <3>1. at \in 1 .. Len(S) /\ S[at] \in Int /\ S[k] \in Int /\ p < S[at]
      BY <1>0, <2>1 DEF IsLower
    <3>2. k = at \/ S[at] < S[k]
      BY <2>1, <2>2, <3>1
    <3>. QED BY <1>0, <3>1, <3>2
  <2>5. CASE j < at
    BY <1>4, <2>1, <2>2, <2>5
  <2>6. CASE j = at
    BY <1>4, <2>1, <2>3, <2>6
  <2>7. CASE j > at /\ i = at
    BY <1>4, <2>1, <2>4, <2>7
  <2>8. CASE j > at /\ i > at
    <3>1. new[i] = S[i - 1] /\ new[j] = S[j - 1] /\ i - 1 \in 1 .. Len(S) /\ j - 1 \in 1 .. Len(S)
      BY <1>4, <2>1, <2>8
    <3>. QED BY <2>1, <2>2, <3>1
  <2>9. CASE j > at /\ i < at
    <3>1. new[i] = S[i] /\ new[j] = S[j - 1] /\ i \in 1 .. at - 1 /\ j - 1 \in at .. Len(S)
      BY <1>4, <2>1, <2>9
    <3>2. S[i] < p /\ p < S[j - 1] /\ S[i] \in Int /\ S[j - 1] \in Int
      BY <1>0, <2>1, <2>3, <2>4, <3>1
    <3>. QED BY <1>0, <3>1, <3>2
  <2>. QED BY <2>1, <2>5, <2>6, <2>7, <2>8, <2>9
<1>6. InsertAt(S, at, p) = new
  BY DEF InsertAt, new, start, front, back
<1>. QED BY <1>4, <1>5, <1>6

\* limitByPoints and limitByTime leave a sorted slice.
LEMMA NewestIncreasing ==
  ASSUME NEW S \in Seq(StoredTimes), Increasing(S), NEW n \in 1 .. Len(S)
  PROVE  LET kept == SubSeq(S, Len(S) - n + 1, Len(S))
         IN  kept \in Seq(StoredTimes) /\ Increasing(kept)
<1>. DEFINE kept == SubSeq(S, Len(S) - n + 1, Len(S))
<1>0. Len(S) \in Nat /\ DOMAIN S = 1 .. Len(S) /\ \A i \in 1 .. Len(S) : S[i] \in StoredTimes
  BY LenProperties, ElementOfSeq
<1>1. /\ kept \in Seq(StoredTimes) /\ Len(kept) = n
      /\ \A i \in 1 .. n : kept[i] = S[Len(S) - n + i]
  <2>1. /\ Len(S) - n + 1 \in Int /\ Len(S) \in Int
        /\ \A i \in Len(S) - n + 1 .. Len(S) : S[i] \in StoredTimes
    BY <1>0
  <2>2. /\ kept \in Seq(StoredTimes)
        /\ Len(kept) = IF Len(S) - n + 1 <= Len(S) THEN Len(S) - (Len(S) - n + 1) + 1 ELSE 0
        /\ \A i \in 1 .. Len(S) - (Len(S) - n + 1) + 1 : kept[i] = S[(Len(S) - n + 1) + i - 1]
    BY <2>1, SubSeqProperties
  <2>3. n \in Nat /\ 1 <= n /\ n <= Len(S)
    BY <1>0
  <2>. HIDE DEF kept
  <2>4. Len(S) - (Len(S) - n + 1) + 1 = n /\ Len(S) - n + 1 <= Len(S)
    BY <1>0, <2>3
  <2>5. \A i \in 1 .. n : (Len(S) - n + 1) + i - 1 = Len(S) - n + i
    BY <1>0, <2>3
  <2>. QED BY <2>2, <2>4, <2>5
<1>. HIDE DEF kept
<1>2. DOMAIN kept = 1 .. n
  BY <1>1, LenProperties
<1>3. Increasing(kept)
  <2>. SUFFICES ASSUME NEW i \in 1 .. n, NEW j \in 1 .. n, i < j
                PROVE  kept[i] < kept[j]
    BY <1>2 DEF Increasing
  <2>1. \A k, l \in 1 .. Len(S) : k < l => S[k] < S[l]
    BY <1>0 DEF Increasing
  <2>2. /\ Len(S) - n + i \in 1 .. Len(S) /\ Len(S) - n + j \in 1 .. Len(S)
        /\ Len(S) - n + i < Len(S) - n + j
    BY <1>0
  <2>. QED BY <1>1, <2>1, <2>2
<1>. QED BY <1>1, <1>3 DEF kept

-----------------------------------------------------------------------------
(* The theorems                                                            *)

\* The kept offset is always a position of the slice.
LEMMA HintPosition ==
  ASSUME SearchTypeOK
  PROVE  Hint \in 1 .. End(searched)
  BY LenProperties DEF SearchTypeOK, Hint, Position, End

\* Every operation keeps the points sorted, from which all of them search.
LEMMA SearchNextTypeOK == SearchTypeOK /\ [SearchNext]_searchVars => SearchTypeOK'
<1>. SUFFICES ASSUME SearchTypeOK, [SearchNext]_searchVars PROVE SearchTypeOK'
  OBVIOUS
<1>0. searched \in Seq(StoredTimes) /\ Increasing(searched) /\ hint \in Nat /\ Len(searched) \in Nat
  BY LenProperties DEF SearchTypeOK
<1>1. ASSUME NEW t \in SearchTimes, SearchAt(t) PROVE SearchTypeOK'
  <2>1. Hint \in 1 .. End(searched)
    BY HintPosition
  <2>2. \A found \in 1 .. End(searched) : found - 1 \in Nat
    BY <1>0 DEF End
  <2>3. PICK found \in 1 .. End(searched) : Search(found)
    BY <1>0, <1>1, <2>1, SearchPositions DEF SearchAt
  <2>. QED BY <1>0, <2>2, <2>3 DEF Search, SearchTypeOK
<1>2. ASSUME NEW p \in StoredTimes, InsertPoint(p) PROVE SearchTypeOK'
  <2>. DEFINE at == InsertPosition(searched, p)
  <2>1. at \in 1 .. End(searched) /\ IsLower(searched, p, at)
    BY <1>0, InsertPositionIsLower
  <2>2. CASE at # End(searched) /\ searched[at] = p
    BY <1>0, <1>2, <2>2 DEF InsertPoint, SearchTypeOK, searchVars
  <2>3. CASE ~ (at # End(searched) /\ searched[at] = p)
    <3>1. searched' = InsertAt(searched, at, p) /\ hint' = Len(searched')
      BY <1>2, <2>3 DEF InsertPoint
    <3>. HIDE DEF at
    <3>2. searched' \in Seq(StoredTimes) /\ Increasing(searched')
      BY <1>0, <2>1, <2>3, <3>1, InsertIncreasing
    <3>3. hint' \in Nat
      BY <3>1, <3>2, LenProperties
    <3>. QED BY <3>2, <3>3 DEF SearchTypeOK
  <2>. QED BY <2>2, <2>3
<1>3. ASSUME NEW start \in SearchTimes, NEW end \in SearchTimes, FlushPoints(start, end) PROVE SearchTypeOK'
  BY <1>0, <1>3, ErasedIncreasing DEF FlushPoints, SearchTypeOK
<1>4. ASSUME NEW n \in 1 .. Len(searched), LimitPoints(n) PROVE SearchTypeOK'
  BY <1>0, <1>4, NewestIncreasing DEF LimitPoints, SearchTypeOK
<1>5. CASE UNCHANGED searchVars
  BY <1>0, <1>5 DEF searchVars, SearchTypeOK
<1>. QED BY <1>1, <1>2, <1>3, <1>4, <1>5 DEF SearchNext

\* The points are sorted and the hint is an offset in every reachable state.
THEOREM SearchTypeCorrect == SearchSpec => []SearchTypeOK
<1>1. SearchInit => SearchTypeOK
  BY EmptySeq DEF SearchInit, SearchTypeOK, Increasing
<1>. QED BY <1>1, SearchNextTypeOK, PTL DEF SearchSpec

\* computeLowerBound and computeUpperBound answer as the binary searches they
\* stand for, whatever the points, the search width and the history of the hint.
THEOREM SearchAlwaysExact == SearchSpec => []SearchIsExact
<1>1. SearchTypeOK => SearchIsExact
  <2>. SUFFICES ASSUME SearchTypeOK, NEW t \in SearchTimes
                PROVE  /\ ComputeLowerBound(searched, Hint, t) = LowerBound(searched, t)
                       /\ ComputeUpperBound(searched, Hint, t) = UpperBound(searched, t)
    BY DEF SearchIsExact
  <2>1. searched \in Seq(Int) /\ Increasing(searched) /\ Hint \in 1 .. End(searched) /\ t \in Int
    BY PointsAreIntegers, HintPosition, FastTimesAssumption DEF SearchTypeOK
  <2>. QED BY <2>1, LowerBoundExact, UpperBoundExact
<1>. QED BY <1>1, SearchTypeCorrect, PTL

\* What a search from a lower bound makes of the points at or before t: either
\* there is none, or g is the last of them.
LEMMA LatestFromLowerBound ==
  ASSUME NEW S \in Seq(StoredTimes), Increasing(S), NEW t \in SearchTimes,
         NEW i \in 1 .. End(S), IsLower(S, t, i)
  PROVE  LET past == {j \in DOMAIN S : S[j] <= t}
             g    == IF i # End(S) /\ S[i] <= t THEN i ELSE i - 1
         IN  IF g = 0 THEN past = {} ELSE Greatest(past) = {g} /\ g \in past
<1>. DEFINE past == {j \in DOMAIN S : S[j] <= t}
            g    == IF i # End(S) /\ S[i] <= t THEN i ELSE i - 1
<1>0. /\ Len(S) \in Nat /\ DOMAIN S = 1 .. Len(S) /\ t \in Int
      /\ \A j \in 1 .. Len(S) : S[j] \in Int
      /\ \A j, k \in 1 .. Len(S) : j < k => S[j] < S[k]
  BY PointsAreIntegers, ElementOfSeq, FastTimesAssumption DEF Increasing
<1>1. g \in 0 .. Len(S) /\ \A j \in 1 .. Len(S) : S[j] <= t <=> j <= g
  <2>1. CASE i = End(S)
    <3>1. g = Len(S) /\ \A j \in 1 .. Len(S) : S[j] < t
      BY <1>0, <2>1 DEF End, IsLower
    <3>. HIDE DEF g
    <3>. QED BY <1>0, <3>1
  <2>2. CASE i # End(S) /\ S[i] <= t
    <3>1. g = i /\ i \in 1 .. Len(S) /\ S[i] = t /\ \A j \in 1 .. i - 1 : S[j] < t
      BY <1>0, <2>2 DEF End, IsLower
    <3>2. \A j \in 1 .. Len(S) : j > i => S[j] > t
      BY <1>0, <3>1
    <3>. HIDE DEF g
    <3>. QED BY <1>0, <3>1, <3>2
  <2>3. CASE i # End(S) /\ ~ (S[i] <= t)
    <3>1. g = i - 1 /\ i \in 1 .. Len(S) /\ S[i] > t /\ \A j \in 1 .. i - 1 : S[j] < t
      BY <1>0, <2>3 DEF End, IsLower
    <3>2. \A j \in 1 .. Len(S) : j >= i => S[j] > t
      BY <1>0, <3>1
    <3>. HIDE DEF g
    <3>. QED BY <1>0, <3>1, <3>2
  <2>. QED BY <2>1, <2>2, <2>3
<1>. HIDE DEF g
<1>2. past = 1 .. g
  BY <1>0, <1>1
<1>3. CASE g = 0
  BY <1>2, <1>3 DEF g
<1>4. CASE g # 0
  <2>1. g \in past
    BY <1>1, <1>2, <1>4
  <2>. HIDE DEF past
  <2>2. Greatest(past) = {g}
    BY <1>1, <1>2, <1>4 DEF Greatest
  <2>. QED BY <1>4, <2>1, <2>2 DEF past, g
<1>. QED BY <1>3, <1>4

\* update(time) shows the most recent point at or before the time, and
\* deltaTime() answers its age, for every slice and every hint.
THEOREM UpdateAlwaysLatest == SearchSpec => []UpdateIsLatest
<1>1. SearchTypeOK => UpdateIsLatest
  <2>. SUFFICES ASSUME SearchTypeOK, NEW t \in SearchTimes
                PROVE  LET past == {i \in DOMAIN searched : searched[i] <= t}
                       IN  /\ {ComputeTimeUpdate(searched, Hint, t)} =
                                 IF past = {} THEN {End(searched)} ELSE Greatest(past)
                           /\ DeltaTime(searched, Hint, t) =
                                 IF past = {} \/ searched[The(Greatest(past))] = StaticTime THEN -1
                                 ELSE t - searched[The(Greatest(past))]
    BY DEF UpdateIsLatest
  <2>. DEFINE past == {i \in DOMAIN searched : searched[i] <= t}
              i    == ComputeLowerBound(searched, Hint, t)
              g    == IF i # End(searched) /\ searched[i] <= t THEN i ELSE i - 1
  <2>1. /\ searched \in Seq(StoredTimes) /\ searched \in Seq(Int) /\ Increasing(searched)
        /\ Len(searched) \in Nat /\ t \in Nat
        /\ \A j \in 1 .. Len(searched) : searched[j] \in Nat \cup {StaticTime}
    BY PointsAreIntegers, ElementOfSeq, FastTimesAssumption DEF SearchTypeOK
  <2>2. i \in 1 .. End(searched) /\ IsLower(searched, t, i)
    BY <2>1, HintPosition, LowerBoundExact, BoundsExist
  <2>3. IF g = 0 THEN past = {} ELSE Greatest(past) = {g} /\ g \in past
    <3>. HIDE DEF i
    <3>. QED BY <2>1, <2>2, LatestFromLowerBound
  <2>4. searched = << >> => Len(searched) = 0
    BY EmptySeq
  <2>5. ComputeTimeUpdate(searched, Hint, t) = IF g = 0 THEN End(searched) ELSE g
    <3>1. ComputeTimeUpdate(searched, Hint, t) =
            IF searched = << >> THEN End(searched)
            ELSE IF i = End(searched) THEN i - 1
            ELSE IF searched[i] <= t THEN i
            ELSE IF i = 1 THEN End(searched) ELSE i - 1
      BY DEF ComputeTimeUpdate
    <3>2. searched # << >> => Len(searched) # 0
      BY <2>1, EmptySeq
    <3>. HIDE DEF i
    <3>. QED BY <2>1, <2>2, <2>4, <3>1, <3>2 DEF End
  <2>6. DeltaTime(searched, Hint, t) =
          IF g = 0 \/ searched[g] = StaticTime THEN -1 ELSE t - searched[g]
    <3>1. DeltaTime(searched, Hint, t) =
            IF searched = << >> \/ t < 0 THEN -1
            ELSE IF i # End(searched) /\ searched[i] = t THEN 0
            ELSE IF i = 1 \/ searched[i - 1] < 0 THEN -1
            ELSE t - searched[i - 1]
      BY DEF DeltaTime
    <3>. HIDE DEF i
    <3>2. CASE searched = << >>
      BY <2>1, <2>2, <2>4, <3>1, <3>2 DEF End
    <3>3. CASE searched # << >> /\ i # End(searched) /\ searched[i] <= t
      <4>1. g = i /\ i \in 1 .. Len(searched) /\ searched[i] = t /\ t # StaticTime /\ t - searched[i] = 0
        BY <2>1, <2>2, <3>3 DEF IsLower, End, StaticTime
      <4>. HIDE DEF g
      <4>. QED BY <2>1, <3>1, <3>3, <4>1
    <3>4. CASE searched # << >> /\ ~ (i # End(searched) /\ searched[i] <= t)
      <4>1. g = i - 1 /\ i \in Nat /\ (i = 1 <=> g = 0) /\ (i # End(searched) => searched[i] # t)
        BY <2>1, <2>2, <3>4 DEF End
      <4>2. g # 0 => (searched[g] < 0 <=> searched[g] = StaticTime)
        BY <2>1, <2>2, <4>1 DEF End, StaticTime
      <4>. HIDE DEF g
      <4>. QED BY <2>1, <3>1, <3>4, <4>1, <4>2
    <3>. QED BY <3>2, <3>3, <3>4
  <2>. HIDE DEF past, i, g
  <2>7. CASE g = 0
    BY <2>3, <2>5, <2>6, <2>7 DEF past
  <2>8. CASE g # 0
    <3>1. The(Greatest(past)) = g /\ past # {}
      BY <2>3, <2>8 DEF The
    <3>. QED BY <2>3, <2>5, <2>6, <2>8, <3>1 DEF past
  <2>. QED BY <2>7, <2>8
<1>. QED BY <1>1, SearchTypeCorrect, PTL
=============================================================================
