----------------------------- MODULE UpdateSlice -----------------------------
(***************************************************************************)
(* One platform of the data store: its update slice (MemoryDataSlice), the *)
(* PlatformCache that SliceCacheObserver keeps beside it, and the part of  *)
(* MemoryDataStore that drives both (update, transactions, flush, data     *)
(* limiting, interpolation and the clock mode).                            *)
(*                                                                         *)
(* A point is its time: a slice holds at most one point per time.  The     *)
(* fast-search hint fastUpdate_ is left out here; FastSearch shows that    *)
(* it never changes the result of a search.                                *)
(***************************************************************************)
EXTENDS Integers, FiniteSets, TimeSets

CONSTANTS
  Times,           \* the scenario times update() is called with
  PointTimes,      \* the times of the points the client inserts
  MaxDouble,       \* std::numeric_limits<double>::max()
  PrefSpace,       \* the platform preferences the client may commit
  Interpolations,  \* the effective interpolation states in use
  FileModes,       \* the answers isFileMode_() may give
  Limitings,       \* the values of the data limiting flag
  MayChange        \* what the environment does in each clock and interpolation state

Static == -1       \* the time of the point of a static platform

ASSUME TimesAssumption == Times \subseteq Nat /\ PointTimes \subseteq Nat \cup {Static}
ASSUME MaxAssumption   == MaxDouble \in Nat \ {0} /\ \A t \in Times \cup PointTimes : t < MaxDouble
ASSUME PrefAssumption  ==
  PrefSpace \subseteq [datadraw       : BOOLEAN,
                       interpolatepos : BOOLEAN,
                       lifespanmode   : {"FIRST_LAST_POINT", "EXTEND_SINGLE_POINT"},
                       limitpoints    : Nat,
                       limittime      : Nat \cup {-1}]
ASSUME ModeAssumption  ==
  /\ Interpolations \subseteq {"OFF", "INTERNAL", "EXTERNAL"}
  /\ FileModes \subseteq BOOLEAN
  /\ Limitings \subseteq BOOLEAN
  /\ DOMAIN MayChange = FileModes \X Interpolations

VARIABLES
  updates,        \* times of the points of the slice (updates_)
  current,        \* current_: none, a point, the interpolated point, or a deleted point
  dirty,          \* dirty_
  changed,        \* mdsHasChanged_, what hasChanged() answers
  range,          \* updateStartTime_ and updateEndTime_ of the cache
  window,         \* sliceStartTime_, sliceEndTime_ and sliceSize_ of the cache
  entry1, entry2, \* the points the internal interpolation is between (optional)
  cached,         \* dataDraw_, interpolatePos_ and lifeSpanMode_ of the cache
  needToClear,    \* needToClear_
  needToSetToNull,\* needToSetToNull_
  prefs,          \* the committed preferences of the platform
  released,       \* no preferences transaction waits for its release
  interpolation,  \* the effective interpolation state
  fileMode,       \* isFileMode_(): the bound clock is not in a live mode
  limiting,       \* dataLimiting_
  now,            \* lastUpdateTime_
  hasChanged      \* hasChanged_ of the data store

slice    == <<updates, current, dirty, changed>>
cache    == <<range, window, entry1, entry2, cached, needToClear, needToSetToNull>>
settings == <<prefs, released, interpolation, fileMode, limiting>>
store    == <<now, hasChanged>>
vars     == <<slice, cache, settings, store>>

-----------------------------------------------------------------------------
(* Values                                                                  *)

NoUpdate        == [kind |-> "none",   t |-> Static, lo |-> Static, hi |-> Static]
Point(p)        == [kind |-> "point",  t |-> p,      lo |-> p,      hi |-> p]
Interp(t, p, q) == [kind |-> "interp", t |-> t,      lo |-> p,      hi |-> q]
Freed(p)        == [kind |-> "freed",  t |-> p,      lo |-> p,      hi |-> p]

PointerTimes == Times \cup PointTimes \cup {Static}
Pointers     == [kind : {"none", "point", "interp", "freed"},
                 t : PointerTimes, lo : PointerTimes, hi : PointerTimes]

\* An unset optional time compares as the code's value_or() makes it compare.
NoRange  == [lo |-> MaxDouble, hi |-> -MaxDouble]
NoWindow == [first |-> MaxDouble, last |-> -MaxDouble, size |-> 0]

AtOrBefore(t) == Greatest({p \in updates : p <= t})
After(t)      == Least({p \in updates : p > t})

\* firstTime(), lastTime() and numItems() of the slice
SliceWindow ==
  IF updates = {} THEN NoWindow
  ELSE [first |-> The(Least(updates)), last |-> The(Greatest(updates)),
        size  |-> Cardinality(updates)]

\* Where the environment may do it; the places left out are those where the
\* code breaks a property, see the README.
Allowed(what) == what \in MayChange[<<fileMode, interpolation>>]

\* An environment in which current() keeps its promise.
Sheltered ==
  /\ Interpolations \subseteq {"OFF"} \/ \A p \in PrefSpace : p.interpolatepos
  /\ \A m \in FileModes, i \in Interpolations :
       MayChange[<<m, i>>] \subseteq
         IF i = "OFF" THEN {"drawing", "limiting"} \cup (IF m THEN {} ELSE {"others"})
         ELSE {"others", "datadraw", "lifespanmode", "INTERNAL", "EXTERNAL"} \cup
              (IF i = "INTERNAL" THEN {"update before release"}
               ELSE IF m THEN {} ELSE {"file mode"})

-----------------------------------------------------------------------------
(* Data limiting: limitByPoints keeps the newest points, limitByTime those *)
(* inside the time window and always one.                                  *)

LimitByPoints(S, n) ==
  IF n = 0 THEN S ELSE {p \in S : Cardinality({q \in S : q > p}) < n}

LimitByTime(S, seconds) ==
  IF S = {} \/ seconds < 0 THEN S
  ELSE LET last == The(Greatest(S))
       IN  IF last - seconds < 0 THEN S
           ELSE {p \in S : p > last - seconds \/ p = last}

LimitByPrefs(S, p) == LimitByTime(LimitByPoints(S, p.limitpoints), p.limittime)

-----------------------------------------------------------------------------
(* PlatformCache                                                           *)

\* mutants: the cached interpolation points, or the range, survive a reset
ResetKeepingEntries == range' = NoRange /\ window' = NoWindow /\ UNCHANGED <<entry1, entry2>>
ResetKeepingRange == range' = range /\ window' = NoWindow /\ entry1' = {} /\ entry2' = {}

\* PlatformCache::reset(), installed as the notifier of the slice
Reset == /\ range'  = NoRange
         /\ window' = NoWindow
         /\ entry1' = {}
         /\ entry2' = {}

CachedPrefs(p) == [datadraw       |-> p.datadraw,
                   interpolatepos |-> p.interpolatepos,
                   lifespanmode   |-> p.lifespanmode]

IsInterpolated == interpolation # "OFF" /\ cached.interpolatepos

IsExtendedPlatform(w) ==
  cached.lifespanmode # "FIRST_LAST_POINT" /\ w.first # Static /\ w.size = 1

IsFileModePlatformActive(t, w) ==
  w.first # Static => t >= w.first /\ (IsExtendedPlatform(w) \/ t <= w.last)

\* mutant: reports no change between two interpolated points
SetCurrentByPointer(c, before) ==
  current' = c /\ changed' = (before \/ (c # current /\ ~(c.kind = "interp" /\ current.kind = "interp")))

\* setCurrent() compares pointers; the interpolated point is always reported,
\* and the storage of a deleted point may have been given to the new one.
SetCurrent(c, before) ==
  /\ current' = c
  /\ \/ changed' = (before \/ c # current \/ c.kind = "interp")
     \/ current.kind = "freed" /\ c.kind = "point" /\ changed' = before

\* "early out when there are no changes to this slice": what current_->time()
\* allows; the time of a deleted point may read as anything.
MayKeep(t) == \/ current.kind = "freed"
              \/ current.kind # "none" /\ current.t \in {t, Static}
MayRecompute(t) == \/ current.kind \in {"freed", "none"}
                   \/ current.t \notin {t, Static}

\* mutant: forgets to truncate the range to the life of the platform
Untruncated(r, w) == r

Truncated(r, w) ==
  IF fileMode /\ ~IsExtendedPlatform(w) /\ r.hi > w.last
  THEN [r EXCEPT !.hi = w.last] ELSE r

EntireRange == [lo |-> 0, hi |-> MaxDouble]

\* mutant: starts the range at the lowest double instead of 0
RangeFromLowest(t) ==
  [lo |-> IF AtOrBefore(t) = {} THEN -MaxDouble ELSE The(AtOrBefore(t)),
   hi |-> IF After(t) = {} THEN MaxDouble ELSE The(After(t))]

\* The range of times for which the point at or before t stays the latest one.
RangeAround(t) ==
  [lo |-> IF AtOrBefore(t) = {} THEN 0 ELSE The(AtOrBefore(t)),
   hi |-> IF After(t) = {} THEN MaxDouble ELSE The(After(t))]

LatestPoint(t) ==
  IF AtOrBefore(t) = {} THEN NoUpdate ELSE Point(The(AtOrBefore(t)))

\* MemoryDataSlice::update(time, startTime, endTime) and the truncation after it
UpdateStepwise(t, w) ==
  /\ \/ /\ ~dirty
        /\ MayKeep(t)
        /\ range'   = Truncated(EntireRange, w)
        /\ changed' = FALSE
        /\ UNCHANGED <<current, dirty>>
     \/ /\ dirty \/ MayRecompute(t)
        /\ dirty' = FALSE
        /\ range' = Truncated(RangeAround(t), w)
        /\ SetCurrent(LatestPoint(t), FALSE)
  /\ UNCHANGED <<entry1, entry2>>

\* mutant: recomputes the bracket only when the time goes back
BracketForward(t) ==
  IF t < range.lo \/ range = NoRange
  THEN [range |-> IF updates = {} THEN NoRange ELSE RangeAround(t),
        first |-> IF AtOrBefore(t) = {} THEN After(t) ELSE IF After(t) = {} THEN {} ELSE AtOrBefore(t),
        last  |-> IF AtOrBefore(t) = {} THEN {} ELSE IF After(t) = {} THEN AtOrBefore(t) ELSE After(t)]
  ELSE [range |-> range, first |-> entry1, last |-> entry2]

\* PlatformCache::update_(time): the bracketing points are kept between calls
Bracket(t) ==
  IF t < range.lo \/ t > range.hi
  THEN [range |-> IF updates = {} THEN NoRange ELSE RangeAround(t),
        first |-> IF AtOrBefore(t) = {} THEN After(t) ELSE IF After(t) = {} THEN {} ELSE AtOrBefore(t),
        last  |-> IF AtOrBefore(t) = {} THEN {} ELSE IF After(t) = {} THEN AtOrBefore(t) ELSE After(t)]
  ELSE [range |-> range, first |-> entry1, last |-> entry2]

\* PlatformCache::computeTimeUpdate_
Interpolated(t, b, w) ==
  LET on(end) == IF end = {} THEN NoUpdate ELSE Point(The(end))
  IN  IF w.size = 0 THEN NoUpdate
      ELSE IF b.first = {} THEN on(b.last)
      ELSE IF b.last = {} THEN IF t = b.range.hi THEN on(b.first) ELSE NoUpdate
      ELSE IF t = b.range.lo THEN on(b.first)
      ELSE IF t = b.range.hi THEN on(b.last)
      ELSE Interp(t, The(b.first), The(b.last))

UpdateInternally(t, w) ==
  /\ \/ /\ MayKeep(t)
        /\ changed' = FALSE
        /\ UNCHANGED <<current, range, entry1, entry2>>
     \/ /\ MayRecompute(t)
        /\ range'  = Bracket(t).range
        /\ entry1' = Bracket(t).first
        /\ entry2' = Bracket(t).last
        /\ SetCurrent(Interpolated(t, Bracket(t), w), FALSE)
  /\ UNCHANGED dirty

\* MemoryDataSlice::update(time, interpolator)
InterpolatedPoint(t) ==
  IF t \in updates \/ AtOrBefore(t) = {} \/ After(t) = {} THEN LatestPoint(t)
  ELSE Interp(t, The(AtOrBefore(t)), The(After(t)))

UpdateExternally(t) ==
  /\ \/ /\ ~dirty
        /\ MayKeep(t)
        /\ changed' = FALSE
        /\ UNCHANGED <<current, dirty>>
     \/ /\ dirty \/ MayRecompute(t)
        /\ dirty' = FALSE
        /\ SetCurrent(InterpolatedPoint(t), FALSE)
  /\ UNCHANGED <<range, entry1, entry2>>

\* mutant: the end of the range is taken as inside it
KickOutAtEnd(t) ==
  /\ ~IsInterpolated
  /\ t >= range.lo /\ t <= range.hi

\* The time is inside the range for which the slice is known to be up to date.
KickOut(t) ==
  /\ ~IsInterpolated
  /\ t >= range.lo /\ t < range.hi

NotDrawn ==
  /\ ~cached.datadraw
  /\ SetCurrent(NoUpdate, changed)
  /\ UNCHANGED <<dirty, range, entry1, entry2, needToClear, needToSetToNull>>

UpToDate(t) ==
  /\ cached.datadraw
  /\ KickOut(t)
  /\ changed' = (changed /\ ~needToClear)
  /\ needToClear' = FALSE
  /\ UNCHANGED <<current, dirty, range, entry1, entry2, needToSetToNull>>

\* "Platform is not valid/off"
Expired(t, w) ==
  /\ cached.datadraw /\ ~KickOut(t)
  /\ fileMode /\ ~IsFileModePlatformActive(t, w)
  /\ needToClear' = TRUE
  /\ needToSetToNull' = FALSE
  /\ IF needToSetToNull
     THEN SetCurrent(NoUpdate, changed) /\ range' = NoRange
     ELSE UNCHANGED <<current, changed, range>>
  /\ UNCHANGED <<dirty, entry1, entry2>>

Active(t, w) ==
  /\ cached.datadraw /\ ~KickOut(t)
  /\ fileMode => IsFileModePlatformActive(t, w)
  /\ needToClear' = TRUE
  /\ needToSetToNull' = TRUE
  /\ \/ ~IsInterpolated /\ UpdateStepwise(t, w)
     \/ IsInterpolated /\ interpolation = "INTERNAL" /\ UpdateInternally(t, w)
     \/ IsInterpolated /\ interpolation = "EXTERNAL" /\ UpdateExternally(t)

\* PlatformCache::update
UpdatePlatform(t) ==
  LET w == IF window = NoWindow THEN SliceWindow ELSE window
  IN  /\ window' = w
      /\ NotDrawn \/ UpToDate(t) \/ Expired(t, w) \/ Active(t, w)
      /\ UNCHANGED <<updates, cached>>

-----------------------------------------------------------------------------
(* MemoryDataStore                                                         *)

\* update(time) returns at once when nothing changed and the time is the same.
Update(t) ==
  /\ hasChanged \/ t # now
  /\ released \/ Allowed("update before release")
  /\ UpdatePlatform(t)
  /\ now' = t
  /\ hasChanged' = FALSE
  /\ UNCHANGED settings

\* Points that data limiting deletes take current_ with them.
AfterDeleting(c, kept) ==
  IF c.kind = "point" /\ c.t \notin kept THEN Freed(c.t) ELSE c

\* NewUpdateTransactionImpl::commit: MemoryDataSlice::insert, then limitByPrefs
Insert(p) ==
  LET aliased == current = Point(p)
      kept    == IF limiting THEN LimitByPrefs(updates \cup {p}, prefs) ELSE updates \cup {p}
  IN  /\ Allowed("static mix") \/ \A q \in updates : (q = Static) = (p = Static)
      /\ Reset
      /\ updates' = kept
      /\ current' = IF aliased THEN NoUpdate ELSE AfterDeleting(current, kept)
      /\ changed' = (changed \/ aliased)
      /\ dirty' = TRUE
      /\ hasChanged' = TRUE
      /\ UNCHANGED <<cached, needToClear, needToSetToNull, settings, now>>

\* flushEntity_ over [start, end): from -1 it takes the static point, from 0 not
Flush(start, end) ==
  LET erased == {p \in updates : start <= p /\ p < end}
  IN  /\ updates' = updates \ erased
      /\ current' = IF erased = {} THEN current ELSE NoUpdate
      /\ dirty' = TRUE
      /\ Reset
      /\ hasChanged' = TRUE
      /\ UNCHANGED <<changed, cached, needToClear, needToSetToNull, settings, now>>

Differs(p) == {f \in DOMAIN prefs : p[f] # prefs[f]}

\* "drawing": it is switched only when no change waits for an update.
MayCommit(f) == Allowed(f) \/ (f = "datadraw" /\ ~hasChanged /\ Allowed("drawing"))

\* MutableSettingsTransactionImpl::commit with applyDataLimiting_
CommitPrefs(p) ==
  LET kept == IF limiting THEN LimitByPrefs(updates, p) ELSE updates
  IN  /\ released
      /\ p # prefs /\ \A f \in Differs(p) : MayCommit(f)
      /\ prefs' = p
      /\ updates' = kept
      /\ current' = AfterDeleting(current, kept)
      /\ IF kept = updates THEN UNCHANGED <<range, window, entry1, entry2>> ELSE Reset
      /\ released' = FALSE
      /\ hasChanged' = TRUE
      /\ UNCHANGED <<dirty, changed, cached, needToClear, needToSetToNull,
                     interpolation, fileMode, limiting, now>>

\* MutableSettingsTransactionImpl::release: onPrefsChange reaches the cache,
\* whose resetPreferences() resets when one of its copies differs
ReleasePrefs ==
  /\ ~released
  /\ released' = TRUE
  /\ cached' = CachedPrefs(prefs)
  /\ IF cached' = cached THEN UNCHANGED <<range, window, entry1, entry2>> ELSE Reset
  /\ UNCHANGED <<slice, needToClear, needToSetToNull, prefs, interpolation,
                 fileMode, limiting, store>>

\* setInterpolator and enableInterpolation; changing the interpolator resets
\* even when the effective state stays the same
SetInterpolation(s) ==
  /\ Allowed(s)
  /\ interpolation' = s
  /\ Reset
  /\ hasChanged' = TRUE
  /\ UNCHANGED <<slice, cached, needToClear, needToSetToNull, prefs, released,
                 fileMode, limiting, now>>

\* ClockModeMonitor::onModeChange
SetFileMode(m) ==
  /\ Allowed(IF m THEN "file mode" ELSE "live mode")
  /\ fileMode' = m
  /\ hasChanged' = (hasChanged \/ m)
  /\ UNCHANGED <<slice, cache, prefs, released, interpolation, limiting, now>>

SetDataLimiting(on) ==
  /\ Allowed("limiting")
  /\ limiting' = on
  /\ UNCHANGED <<slice, cache, prefs, released, interpolation, fileMode, store>>

\* Any other entity of the store was changed.
OtherEntityChanges ==
  /\ Allowed("others")
  /\ hasChanged' = TRUE
  /\ UNCHANGED <<slice, cache, settings, now>>

Init ==
  /\ updates = {} /\ current = NoUpdate /\ dirty = FALSE /\ changed = FALSE
  /\ range = NoRange /\ window = NoWindow /\ entry1 = {} /\ entry2 = {}
  /\ prefs \in PrefSpace /\ released = TRUE
  /\ cached = CachedPrefs(prefs)
  /\ needToClear = TRUE /\ needToSetToNull = TRUE
  /\ interpolation \in Interpolations
  /\ fileMode \in FileModes
  /\ limiting \in Limitings
  /\ now = 0 /\ hasChanged = TRUE

Next ==
  \/ \E t \in Times : Update(t)
  \/ \E p \in PointTimes : Insert(p)
  \/ \E start, end \in Times \cup {Static, MaxDouble} : Flush(start, end)
  \/ \E p \in PrefSpace : CommitPrefs(p)
  \/ ReleasePrefs
  \/ \E s \in Interpolations : SetInterpolation(s)
  \/ \E m \in FileModes : SetFileMode(m)
  \/ \E on \in Limitings : SetDataLimiting(on)
  \/ OtherEntityChanges

Spec == Init /\ [][Next]_vars
-----------------------------------------------------------------------------
(* Properties                                                              *)

\* Every variable holds a value the code can give it.
TypeOK ==
  /\ updates \subseteq PointTimes
  /\ current \in Pointers
  /\ dirty \in BOOLEAN /\ changed \in BOOLEAN
  /\ range \in [lo : -1 .. MaxDouble, hi : (-MaxDouble) .. MaxDouble]
  /\ window \in [first : -1 .. MaxDouble, last : (-MaxDouble) .. MaxDouble, size : Nat]
  /\ entry1 \subseteq PointTimes /\ entry2 \subseteq PointTimes
  /\ cached \in [datadraw : BOOLEAN, interpolatepos : BOOLEAN,
                 lifespanmode : {"FIRST_LAST_POINT", "EXTEND_SINGLE_POINT"}]
  /\ needToClear \in BOOLEAN /\ needToSetToNull \in BOOLEAN
  /\ prefs \in PrefSpace /\ released \in BOOLEAN
  /\ interpolation \in Interpolations
  /\ fileMode \in FileModes /\ limiting \in Limitings
  /\ now \in Times \cup {0} /\ hasChanged \in BOOLEAN

\* DataSlice::current() with interpolation off: the most recent point at or before t
IsLatest(c, t) ==
  IF \A q \in updates : q > t THEN c = NoUpdate
  ELSE /\ c.kind = "point" /\ c.t \in updates /\ c.t <= t
       /\ \A q \in updates : q > c.t => q > t

\* ... and with interpolation on: that point when it is at t or the last one,
\* otherwise a point at t computed from the two neighbours of t
IsInterpolatedAt(c, t) ==
  IF t \in updates \/ (\A q \in updates : q > t) \/ (\A q \in updates : q < t)
  THEN IsLatest(c, t)
  ELSE /\ c.kind = "interp" /\ c.t = t
       /\ {c.lo, c.hi} \subseteq updates /\ c.lo < t /\ t < c.hi
       /\ \A q \in updates : ~(c.lo < q /\ q < c.hi)

\* LifespanMode: a static platform always lives, the others from their first
\* to their last point, or from their only point on when the mode extends it.
AliveAt(t) ==
  \/ Static \in updates
  \/ \E p, q \in updates : p <= t /\ t <= q
  \/ cached.lifespanmode = "EXTEND_SINGLE_POINT" /\ \E p \in updates : updates = {p} /\ p <= t

\* What current() promises for a store at time t.
IsWanted(c, t) ==
  IF ~cached.datadraw \/ (fileMode /\ ~AliveAt(t)) THEN c = NoUpdate
  ELSE IF IsInterpolated THEN IsInterpolatedAt(c, t) ELSE IsLatest(c, t)

Settled == released /\ ~hasChanged

\* After update(time), whatever caches, early outs and kick-outs did, current()
\* is the latest point at or before the time (or the interpolated one), and
\* nothing when the platform is not drawn or not active (DataSlice::current).
CurrentIsLatest == Settled /\ interpolation # "INTERNAL" => IsWanted(current, now)

\* The time range of PlatformCache, inside which update() does nothing, never
\* contains a time for which another point is the right one.
RangeSound ==
  cached.datadraw => \A t \in Times : KickOut(t) => IsWanted(current, t)

\* The cached interpolation end points are points of the slice: no insert,
\* flush or data limiting leaves them pointing at a deleted update.
BracketStored == entry1 \cup entry2 \subseteq updates

\* While interpolating, the cached range is set only together with an end point,
\* so that computeTimeUpdate_ never reads an end point that is not there.
BracketKnown == IsInterpolated /\ range # NoRange => entry1 \cup entry2 # {}

\* After an update, also one between commit and release of preferences, an
\* interpolated current() is for the time of the store and lies strictly
\* between its two points.
InterpolatedAtNow ==
  ~hasChanged /\ current.kind = "interp" =>
    current.t = now /\ current.lo < now /\ now < current.hi

UpdateStep == \E t \in Times : Update(t)

\* An update that gives the slice another current point reports it through
\* hasChanged(), or the views of the platform would keep the old one.  A point
\* that limiting deleted is left out: the new point may be given its storage.
ChangeReported ==
  [][UpdateStep /\ current' # current /\ current.kind # "freed" => changed']_vars
=============================================================================
