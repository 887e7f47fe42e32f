---------------------------- MODULE CategoryData ----------------------------
(* The category data of an entity: per category, values that hold from a     *)
(* time on.  Each lookup leaves its place and the range of times it answers  *)
(* behind for the next one, and the cache of the data store skips a slice    *)
(* while the time stays where all its categories have the same values.       *)
(*                                                                           *)
(* A place is the number of entries before it; the last one is end().        *)
EXTENDS Integers, FiniteSetsExt, SequencesExt, Functions

CONSTANTS
  Category, Value,
  DataTimes,         \* the times of entries; Static is the time of a default value
  Now,               \* the times the data store is updated to
  MaxDouble,         \* stands for the maximum of double, later than all times
  FastSearchWidth,   \* how many neighbours a search looks at
  FlushRanges,       \* the ranges of times flushed
  LimitChoices,      \* the data limits of the entity: points and seconds, 0 is none
  MaxEntries,        \* bound: entries in the slice
  MayHappen          \* what the users may do that listeners are not told of

Static  == -1
NoValue == "no value"
NoLimit == [points |-> 0, window |-> 0]

ASSUME CategoryAssumption ==
  /\ DataTimes \subseteq Nat \cup {Static} /\ Now \subseteq Nat
  /\ MaxDouble \in Nat /\ \A t \in DataTimes \cup Now : t < MaxDouble
  /\ FastSearchWidth \in Nat \ {0} /\ MaxEntries \in Nat
  /\ LimitChoices \subseteq [points : Nat, window : Nat] /\ NoLimit \in LimitChoices
  /\ FlushRanges \subseteq [from : Nat \cup {Static}, to : Nat]
  /\ IsFiniteSet(Category) /\ NoValue \notin Value /\ MayHappen \subseteq {"emptied", "late default", "default gone"}

\* The window of a limit ends after the default value, unless there is one other
\* entry only (limitByTime puts the default value back without having taken it out).
ShortWindows ==
  \A l \in LimitChoices, t, u \in DataTimes : Static < u /\ u < t => l.window <= t

VARIABLES
  data,         \* data_: per category its entries, the place and range of the last
                \* lookup, and the value and time the last update found
  sliceTime,    \* lastUpdateTime_ of the slice
  cache,        \* startTime_ and endTime_ of the CategoryCache
  limits,
  storeTime,    \* lastUpdateTime_ of the data store
  hasChanged,   \* hasChanged_
  listened      \* the values a listener saw when it was told of a change

vars == <<data, sliceTime, cache, limits, storeTime, hasChanged, listened>>

NoRange    == [from |-> MaxDouble, to |-> Static]
In(t, r)   == r.from <= t /\ t < r.to
Entry(t, v) == [time |-> t, value |-> v]

NewState == [entries |-> <<>>, lastPos |-> 0, range |-> NoRange,
             lastValue |-> NoValue, lastTime |-> Static]

Init ==
  /\ data = [c \in Category |-> NewState]
  /\ sliceTime = 0 /\ cache = NoRange /\ limits = NoLimit
  /\ storeTime = 0 /\ hasChanged = TRUE
  /\ listened = [c \in Category |-> NoValue]

-----------------------------------------------------------------------------
(* Lookups                                                                   *)

(* The reference: std::upper_bound and std::lower_bound.                     *)
UpperBound(entries, t) == Cardinality({i \in DOMAIN entries : entries[i].time <= t})
LowerBound(entries, t) == Cardinality({i \in DOMAIN entries : entries[i].time < t})

\* The backward search got to the beginning.
BeginSeen(at) == at <= FastSearchWidth + 1

SearchFrom(entries, at, t) ==
  LET n       == Len(entries)
      time(i) == entries[i + 1].time
      ahead   == {i \in at .. n - 1 : i < at + FastSearchWidth /\ time(i) > t}
      behind  == {i \in 1 .. at - 1 : i >= at - FastSearchWidth /\ time(i) <= t}
  IN IF at = n THEN UpperBound(entries, t)
     ELSE IF time(at) <= t
     THEN IF ahead # {} THEN Min(ahead)
          ELSE IF at + FastSearchWidth >= n THEN n ELSE UpperBound(entries, t)
     ELSE IF behind # {} THEN Max(behind) + 1
          ELSE IF BeginSeen(at) THEN IF time(0) <= t THEN 1 ELSE 0
          ELSE UpperBound(entries, t)

CheckPosition(entries, at) == IF at >= Len(entries) THEN Max({Len(entries) - 1, 0}) ELSE at

(* The times that have the same upper bound.                                 *)
RangeAt(entries, at) ==
  IF entries = <<>> THEN NoRange
  ELSE [from |-> IF at = 0 THEN 0 ELSE entries[at].time,
        to   |-> IF at = Len(entries) THEN MaxDouble ELSE entries[at + 1].time]

(* upper_bound(): the category with its place there                          *)
Lookup(s, t) ==
  IF In(t, s.range) THEN s
  ELSE LET at == SearchFrom(s.entries, CheckPosition(s.entries, s.lastPos), t)
       IN [s EXCEPT !.lastPos = at, !.range = RangeAt(s.entries, at)]

(* find(): the place of time t, or end()                                     *)
Find(s, t) ==
  LET n    == Len(s.entries)
      at   == CheckPosition(s.entries, s.lastPos)
      same == {i \in 0 .. n - 1 : s.entries[i + 1].time = t}
      near == {i \in same : IF s.entries[at + 1].time <= t THEN i >= at /\ i < at + FastSearchWidth
                            ELSE i <= at /\ i > at - FastSearchWidth /\ i # 0}
      pos  == IF same = {} THEN n
              ELSE IF near = {} THEN Min(same)
              ELSE IF s.entries[at + 1].time <= t THEN Min(near) ELSE Max(near)
  IN [s EXCEPT !.lastPos = pos, !.range = NoRange]

(* isDuplicateValue(), or an iterator of the current values                  *)
Ask(c, t) ==
  /\ data' = [data EXCEPT ![c] = Lookup(@, t)]
  /\ UNCHANGED <<sliceTime, cache, limits, storeTime, hasChanged, listened>>

-----------------------------------------------------------------------------
(* Changes of one category                                                   *)

\* mutant: the range of the last lookup is kept
WithRange(s, entries) == [s EXCEPT !.entries = entries]

With(s, entries) == [s EXCEPT !.entries = entries, !.range = NoRange]

\* mutant: an entry at the same time does not count
InsertAnyway(s, t, v) ==
  LET found == Lookup(s, t)
  IN With(found, InsertAt(s.entries, found.lastPos + 1, Entry(t, v)))

Insert(s, t, v) ==
  LET found == Lookup(s, t)
      at    == found.lastPos
  IN IF s.entries = <<>> \/ Last(s.entries).time < t THEN With(s, Append(s.entries, Entry(t, v)))
     ELSE IF at > 0 /\ s.entries[at].time = t THEN [found EXCEPT !.entries[at].value = v]
     ELSE With(found, InsertAt(s.entries, at + 1, Entry(t, v)))

Default(entries) == IF entries # <<>> /\ entries[1].time = Static THEN <<entries[1]>> ELSE <<>>

LimitByPoints(s, n) ==
  LET surplus == Len(s.entries) - n
      default == Default(s.entries)
  IN IF n = 0 \/ surplus <= 0 THEN s
     ELSE IF default # <<>> /\ surplus = 1 THEN With(s, s.entries)
     ELSE With(s, default \o SubSeq(s.entries, surplus + 1, Len(s.entries)))

LimitByTime(s, window) ==
  LET default == Default(s.entries)
      oldest  == Last(s.entries).time - window
  IN IF window = 0 \/ Len(s.entries) < 2 \/ (default # <<>> /\ Len(s.entries) < 3) THEN s
     ELSE With(s, default \o SubSeq(s.entries, LowerBound(s.entries, oldest) + 1, Len(s.entries)))

Limit(s, l) == LimitByTime(LimitByPoints(s, l.points), l.window)

FlushRange(s, start, end) ==
  LET from == LowerBound(s.entries, start)
      to   == LowerBound(s.entries, end)
  IN IF to <= from THEN s
     ELSE With(s, SubSeq(s.entries, 1, from) \o SubSeq(s.entries, to + 1, Len(s.entries)))

-----------------------------------------------------------------------------
(* Changes of the slice, as the transactions of the data store make them     *)

At(s, t) == LET n == UpperBound(s.entries, t) IN IF n = 0 THEN NoValue ELSE s.entries[n].value

(* Changes update() does not report: the last entry of a category goes, or   *)
(* -1 stands for a default value and for no value at once.                   *)
Reportable(old, new) ==
  /\ "emptied" \notin MayHappen =>
       \A c \in Category : new[c].entries = <<>> => listened[c] = NoValue
  /\ "default gone" \notin MayHappen =>
       \A c \in Category :
         Default(old[c].entries) # <<>> /\ old[c].lastTime = Static /\ listened[c] # NoValue
           => Default(new[c].entries) # <<>>
  /\ "late default" \notin MayHappen =>
       \A c \in Category :
         listened[c] = NoValue /\ old[c].lastTime = Static /\ new[c].entries # <<>>
           => Default(new[c].entries) # <<Entry(Static, old[c].lastValue)>>

Store(new, notified) ==
  /\ data' = new
  /\ Reportable(data, data')
  /\ cache' = IF notified THEN NoRange ELSE cache
  /\ hasChanged' = TRUE
  /\ UNCHANGED <<sliceTime, storeTime, listened>>

(* commit() of the transaction of addCategoryData()                          *)
AddCategoryData(t, entry) ==
  \E added \in {[c \in Category |-> IF c \in DOMAIN entry THEN Insert(data[c], t, entry[c])
                                      ELSE data[c]]} :
    /\ Cardinality(UNION {{c} \X DOMAIN added[c].entries : c \in Category}) <= MaxEntries
    /\ Store([c \in Category |-> Limit(added[c], limits)], TRUE)
    /\ UNCHANGED limits

RemoveCategoryDataPoint(t, c, v) ==
  LET found == Find(data[c], t)
      at    == found.lastPos + 1
      hit   == at <= Len(found.entries) /\ found.entries[at].value = v
  IN /\ Store([data EXCEPT ![c] = IF hit THEN With(found, RemoveAt(found.entries, at)) ELSE found],
              hit)
     /\ UNCHANGED limits

(* flush() of everything but the static values keeps the last value.         *)
FlushExcludeMinusOne ==
  /\ Store([c \in Category |-> LimitByPoints(data[c], 1)],
           \E c \in Category : LimitByPoints(data[c], 1).entries # data[c].entries)
  /\ UNCHANGED limits

Flush(start, end) ==
  /\ Store([c \in Category |-> FlushRange(data[c], start, end)], TRUE)
  /\ UNCHANGED limits

(* The preferences of the entity change its limits.                          *)
ChangeLimits(l) ==
  /\ l # limits
  /\ limits' = l
  /\ Store([c \in Category |-> Limit(data[c], l)],
           \E c \in Category : Limit(data[c], l) # data[c])

-----------------------------------------------------------------------------
(* Updates                                                                   *)

\* mutant: a category without a value yet does not end the range
EndOfShown(held) ==
  {s.entries[s.lastPos + 1].time : s \in {q \in held : q.lastPos \in 1 .. Len(q.entries) - 1}}

\* The times other than -1 at which the value of a category begins, and the next one.
StartOf(held) == {s.entries[s.lastPos].time : s \in {q \in held : q.lastPos > 0}} \ {Static}

EndOf(held) ==
  {s.entries[s.lastPos + 1].time : s \in {q \in held : q.lastPos < Len(q.entries)}} \ {Static}

\* mutant: a value that is no longer there counts for none
AppearedOnly(s) ==
  s.lastPos > 0 /\ s.lastTime = Static /\ s.entries[s.lastPos].time # Static

\* The value at the update's time was not there, or is no longer there.
Appeared(s) ==
  IF s.lastPos = 0 THEN s.lastTime # Static
  ELSE s.lastTime = Static /\ s.entries[s.lastPos].time # Static

Reports(s) ==
  /\ s.entries # <<>>
  /\ \/ Appeared(s)
     \/ s.lastPos > 0 /\ s.entries[s.lastPos].value # s.lastValue

Updated(s) ==
  IF s.entries = <<>> THEN s
  ELSE IF s.lastPos = 0 THEN [s EXCEPT !.lastTime = Static]
  ELSE [s EXCEPT !.lastTime = s.entries[s.lastPos].time, !.lastValue = s.entries[s.lastPos].value]

(* update() of the data store, the cache and the slice; a listener that is   *)
(* told reads the current values.                                            *)
Update(t) ==
  /\ hasChanged \/ t # storeTime
  /\ storeTime' = t /\ hasChanged' = FALSE
  /\ IF In(t, cache) THEN UNCHANGED <<data, sliceTime, cache, listened>>
     ELSE LET found == [c \in Category |->
                         IF data[c].entries = <<>> THEN data[c] ELSE Lookup(data[c], t)]
              held  == {s \in Range(found) : s.entries # <<>>}
          IN /\ data' = [c \in Category |-> Updated(found[c])]
             /\ sliceTime' = t
             /\ cache' = [from |-> Max({0} \cup StartOf(held)), to |-> Min({MaxDouble} \cup EndOf(held))]
             /\ listened' = IF \E c \in Category : Reports(found[c])
                            THEN [c \in Category |-> At(data[c], t)] ELSE listened
  /\ UNCHANGED limits

Next ==
  \/ \E c \in Category, t \in Now : Ask(c, t)
  \/ \E t \in DataTimes, named \in SUBSET Category \ {{}} : \E entry \in [named -> Value] :
       AddCategoryData(t, entry)
  \/ \E t \in DataTimes, c \in Category, v \in Value : RemoveCategoryDataPoint(t, c, v)
  \/ FlushExcludeMinusOne
  \/ \E r \in FlushRanges : Flush(r.from, r.to)
  \/ \E l \in LimitChoices : ChangeLimits(l)
  \/ \E t \in Now : Update(t)

Spec == Init /\ [][Next]_vars

-----------------------------------------------------------------------------
\* Every variable holds a value the code can give it.
TypeOK ==
  /\ \A c \in Category :
       /\ Range(data[c].entries) \subseteq [time : DataTimes, value : Value]
       /\ data[c].lastPos \in 0 .. MaxEntries
       /\ data[c].lastValue \in Value \cup {NoValue} /\ data[c].lastTime \in DataTimes \cup {Static}
  /\ sliceTime \in Now \cup {0} /\ storeTime \in Now \cup {0}
  /\ limits \in LimitChoices /\ hasChanged \in BOOLEAN
  /\ listened \in [Category -> Value \cup {NoValue}]

(* A category has one entry for a time, in the order of time: limiting that  *)
(* puts the default value back has taken it out before.                      *)
OncePerTime ==
  \A c \in Category, i, j \in 1 .. MaxEntries :
    i < j /\ j <= Len(data[c].entries) => data[c].entries[i].time < data[c].entries[j].time

(* The state is one the code can give, in the order of time.                 *)
WellFormed == TypeOK /\ OncePerTime

(* A lookup finds the value that holds at its time, from wherever edits and  *)
(* lookups at other times left the place, and out of the range of the last   *)
(* lookup without a search.                                                  *)
LookupExact ==
  \A c \in Category, t \in Now \cup DataTimes :
    Lookup(data[c], t).lastPos = UpperBound(data[c].entries, t)

(* At no time the cache skips the slice for does a category have a value     *)
(* other than the one it shows.                                              *)
CacheSound ==
  \A t \in Now : In(t, cache) => \A c \in Category : At(data[c], t) = At(data[c], sliceTime)

(* After update() a listener that reads the values when it is told of a      *)
(* change knows those of the time updated to, over edits, limits, flushes    *)
(* and time in any direction.                                                *)
ListenersCurrent ==
  ~hasChanged => listened = [c \in Category |-> At(data[c], storeTime)]
=============================================================================
