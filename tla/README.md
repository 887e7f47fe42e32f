# A TLA+ verification of the SIMDIS SDK

The SIMDIS SDK draws moving platforms, their beams, gates, lasers and data on a
globe. What is drawn at a time is decided by its *data store*
(`src/SDK/simData`): producers insert time-stamped points and commands out of
order, change preferences, remove entities and limit the data that is kept,
while a clock moves the store to any time, forward or backward, and every view
asks each entity for its current point. Caches, early outs and kick-out ranges
make that cheap, and they are where it can go wrong: whether `current()` is
right depends on a long history of unrelated calls.

Beside the points, the store keeps category data and data tables with caches of
their own. Two more parts are driven by many hands: the *clock* of
`simCore`, which users, live data, observers and frames move, and the entity
counts of the category filter in `simQt`, which a thread computes while the
store changes.

The models here are of these. Chapter 1 is the inventory of the whole
repository, 2 the modules, 3 the runs, 4 the environment assumed, 5 the proofs,
6 the disagreements met between code and comments, 7 what is not modelled, 8
the plan.

## 1. Inventory

### 1.1 The parts

| part | code | state | operations | how it interacts |
|---|---|---|---|---|
| Update slices and platform cache | `simData/MemoryDataSlice*`, `PlatformCache` in `MemoryDataStore.cpp` | points by time, `current_`, `dirty_`, changed flag; the cached range, window and interpolation ends | insert, flush, limit, update by three algorithms, reset | the slice resets its cache by a notifier; the store drives both; preferences reach the cache from a listener callback |
| Searches in a slice | `DataSliceUpdaters.h` | the hint `fastUpdate_` | lower and upper bound, point at a time, age | every update of every slice; the hint outlives inserts and flushes |
| Command slices and command cache | `MemoryCommandSlice`, `CommandCache` | commands by time, the accumulated command state, the time of the last one executed | insert with merge, flush, modify, limit, update | update commits preferences of the entity, which limits data, which changes the slice being updated |
| Entities, transactions, indexes | `MemoryDataStore`, `EntityNameCache` | entity maps, open transactions, name cache, host map, original ids, caches, generic and category maps | add, change, remove, clear, default preferences | the store changes on commit, the indexes on release |
| Listener dispatch | `addListener`, `removeListener`, `checkForRemoval_` | `listeners_`, `justRemoved_`, the copies on the stack | notify, register, unregister | callbacks run client code that registers and notifies |
| Target beams and gates, LOB groups | `updateTargetBeam_`, `updateTargetGate_`, `LobGroupMemoryDataSlice` | the slice of the beam, current points of the two platforms | update in host order | read the current points of other entities |
| Generic data | `MemoryGenericDataSlice` | time-stamped values per key with an expiration | insert, flush, update | scenario and entities |
| Category data | `CategoryData/`, `CategoryCache` | per category its values by time, the place and range of the last lookup, the last value reported; the range of the cache | insert, remove, flush, limit, look up, update | the cache skips the slice; update tells the listeners what changed |
| Category counts | `simQt/CategoryFilterCounter.cpp`, `CategoryFilterWidget.cpp` | the filter of the tree, the counter with its pending request, the snapshot a thread counts | set filter or types, count, reset, emit | a thread of the pool, the event loop, a timer, the listeners of the store and of the name manager |
| Data tables | `MemoryTable/` | columns in two time containers, sub tables, row observers | add row, limit with a buffer swap, flush, iterate | owned by entities, limited by their preferences |
| Field lists | `CommonPreferences.cpp`, `EntityPreferences.cpp`, `EntityCommands.cpp`, ... | optional fields | merge, clear, compare | preferences, commands, updates |
| Interpolators | `LinearInterpolator.cpp`, `NearestNeighborInterpolator.cpp` | none | interpolate two points | called by update |
| Clock | `simCore/Time/ClockImpl.cpp` | time, rate, direction, mode, bounds of data and user, loop, the real-time clock; the replay beside it | play, step, set mode, bounds, idle | observers; the visualization clock observes the data clock; its modes reach the store |
| Proxy and helpers, time formats, calculations, strings, GOG, notification | `simData`, `simCore`, `simNotify` | little | sequential functions | used everywhere |
| Qt, utilities, visualization | `simQt`, `simUtil`, `simVis` | widgets and scene graph | user interface over Qt and osgEarth | listeners of the store |

### 1.2 How they work together

`MemoryDataStore::update(time)` returns at once when nothing changed and the
time is the same. Otherwise it executes the commands and tells the listeners of
the preferences they changed, updates the category data, then the platforms,
beams, gates, lasers, projectors and LOB groups in this order, and calls the
listeners for changed categories and for the update itself. Per entity a
`SliceCacheObserver` (a listener itself) keeps a cache before each slice which
answers without touching the slice while the time stays inside a *kick-out*
range computed by the last update. A change to the slice resets the cache
through a notifier, a change of the preferences through `onPrefsChange`, a
change of clock mode or interpolator by a walk over all caches. Transactions
hand out a private copy; `commit` stores it, `release` tells the listeners.

There is no thread in the data store. Its concurrency is that of its callers:
transactions that are open at the same time, updates between a commit and its
release, and callbacks that call the store back.

The clock drives that: each frame calls `idle()`, whose time observers reach
`update(time)`. In a live mode the visualization clock may be unlocked from the data
clock to replay what has come in; it then follows the data clock by a chain of
callbacks.

The counts of the category filter are the one place with a thread: the widget
asks an asynchronous counter, the counter copies the store and counts in the
thread pool, and the event loop brings the result back, while the user goes on
filtering, the scenario may be cleared, and a timer asks for a recount when
the store has reported a change.

### 1.3 What is hard, and what makes it correct

* Update slices: a kept range must stop being used when points, preferences,
  mode or interpolation change; the end points kept for interpolation are raw
  pointers into the slice. *Correct*: after an update `current()` is the latest
  point at or before the time, or the interpolated one, or nothing when the
  platform is not drawn or not alive (`CurrentIsLatest`, `InterpolatedAtNow`);
  the range contains no time for which that differs (`RangeSound`); the kept
  end points are in the slice and there when they are read (`BracketStored`,
  `BracketKnown`); a change is reported (`ChangeReported`).
* Searches: the hint points anywhere after inserts and flushes. *Correct*: it
  never changes an answer (`SearchIsExact`, `UpdateIsLatest`).
* Commands: executed incrementally, although they come in any order and time
  goes back. *Correct*: the command state is that of a replay from the start
  (`CacheIsReplay`), the preferences show it (`PrefsFollow`), no
  skipped update would have changed it (`RangeHidesNothing`), and repeated
  fields do not accumulate (`NothingAccumulates`).
* Entities: five indexes follow one store with a delay. *Correct*: each of them
  is that of the store once the transactions are released, whatever the order
  (`NamesMatchStore`, `ChildrenMatchHosts`, `OriginalIdsMatch`,
  `CachesMatchStore`), and no entity outlives its host (`NoOrphans`, in `WellFormed`).
* Listeners: the list changes while it is walked, recursively. *Correct*: whoever
  stays registered is called in each round (`EveryoneCalled`), by weight
  (`CalledByWeight`, in `WellFormed`), and a removed listener is not called (`RemovedAreSkipped`).
* Category data: lookups leave a place and a range behind, and the cache
  skips the whole slice. *Correct*: neither changes an answer (`LookupExact`,
  `CacheSound`), listeners know what is shown (`ListenersCurrent`), and a category
  has one value for a time (`OncePerTime`, in `WellFormed`).
* Data tables: times and values lie apart, in two bins, shared by columns until a
  row splits them. *Correct*: no cell is lost or moved to another time (`NullLess`, in
  `WellFormed`), limits hold (`WithinLimit`), iterators merge the bins (`ReadsInOrder`),
  and none of it can be seen (`ImplementsTimeTable`).
* Clock: four modes share one set of members. *Correct*: the time stays in its bounds
  (`InBounds`) and goes the way it is played (`FramesAdvance`), playback comes to
  its end (`PlaybackReturns`), the real-time clock follows (`RealTimeFollows`),
  observers know the state (`ObserversCurrent`), and a replay ends with live
  mode (`ReplayOnlyLive`, `DevAsserts`, in `WellFormed`).
* Category counts: requests meet a count that runs. *Correct*: none is lost
  (`IdleIsCurrent`), the counts become right and stay right
  (`EventuallyCounted`), and a result of a cleared scenario is not shown
  (`DropsOnlyOld`, in `WellFormed`).

`PROJECT.json` lists the hazards line by line with the properties that cover
them; a hazard no property covers says why. Chapter 7 has those that lie outside the
models.

## 2. Modules

| module | models | stands for |
|---|---|---|
| `TimeSets` | least and greatest member of a set of times | helper of the two below |
| `UpdateSlice` | one platform: `MemoryDataSlice`, `PlatformCache`, and the store's update, insert, flush, limiting, preferences, interpolation, clock mode | a point is its time; a pointer is a record of kind and time |
| `FastSearch` | the searches of `DataSliceUpdaters.h` with their hint | a slice is the sequence of its times |
| `CommandSlice` | one entity: `MemoryCommandSlice`, `CommandCache`, its preferences | two fields stand for all: a scalar and a repeated one |
| `EntityStore` | entities, transactions and the indexes | only name, host and original id are kept of the contents |
| `ListenerDispatch` | the listener list, the local copies and nested notifications | a notification is a frame on the call stack |
| `CategoryData` | the category data of an entity with the cache before them | a place is the number of entries before it |
| `TimeTable` | what `DataTable.h` promises of a table | a column is a function from times to values |
| `MemoryTable` | `Table`, `SubTable`, `DoubleBufferTimeContainer`, `DataColumn`, and their iterators; implements `TimeTable` | a bin is a function from times to positions, a column a sequence per bin |
| `ClockImpl` | the operations of `ClockImpl` as functions on a record of its members | a log holds the notifications an operation sends |
| `Clock` | the data clock, the visualization clock, users, observers and frames; uses `ClockImpl` for both | the chain of observers is a fold over the log |
| `CategoryCounts` | the widget, its counter and the thread beside the store | the store is its current category values |
| `MC...` | the values of the constants for TLC | |
| `...Proofs` | lemmas and theorems about the module they are named after: `TimeSets`, `UpdateSlice` (with `FastSearch`), `CommandSlice`, `EntityStore`, `ListenerDispatch`, `CategoryCounts`, `CategoryData`, `MemoryTable` | |

State and actions keep the names of the code where they can; `PROJECT.json`
`map` gives the lines of each definition. Some choices need an explanation.

*UpdateSlice.* Undefined values are modelled by what may be read: `current_`
may point at a point that data limiting deleted (`kind = "freed"`), and its
time may then compare as anything, which the two disjuncts of `MayKeep` and
`MayRecompute` allow. Optional times are modelled by the values the code's
`value_or` gives them. The fast-search hint is left out, which is justified by
the theorems about `FastSearch`: a search answers as if there were none.
`FastSearch` has names of its own (`SearchSpec`, `searched`) so that `UpdateSliceProofs` can be about both. `isFileMode_()` is a
variable that stands for a bound clock's mode; a store without a clock answers
`!dataLimiting_` there, which is not modelled. `Update` leaves out that executed commands change the preferences of the
platform and so reset its cache's copies of them (`MemoryDataStore.cpp:668`): commands are in `CommandSlice`, and
preferences change here by transactions.

*CommandSlice.* `advance_` is a recursive function over the places of the commands of a
time span, between the two upper bounds that the code takes (`NumUpTo`). The preferences transaction that `update` opens and completes is part of
the update action, and so is the data limiting it triggers, first by points and then by time. `Unlimited` says that
neither limit is set.

*EntityStore.* A transaction handle holds at most one transaction. A removal
with its whole recursion is one action: no other call runs in between unless a
callback makes it. `clear()` is one action, too.

*ListenerDispatch.* The loops of the notifications differ in their calls
per listener and in their walks over the copy (`update` walks it more than
once), so a notification is given by its rounds. A frame also records history
for the properties: who has been registered since it began, who was called,
and whether another notification was nested in it.

*CategoryData.* The search from the last place is modelled with its width, as the
answers it can give; `LookupExact` compares it with the definition of an upper bound.
A listener that is told of a change reads all values, and `listened` is what it
then knows.

*MemoryTable.* A row is one action: every subtable it touches gets the time (`Grown`), every
column its value (`Written`), the subtables split (`SplitUp`) and are limited (`Swapped`). An
iterator's deque position is the number of times before it (`Rank`, `Nth`). Erased positions are
grouped into ranges as `flush_` does it: the end of a range is compared with the range's first
position, so that a run among scattered positions is cut into ranges of two; a closed form
(`Ranges`) says which. The order in which the transactions of a row split their subtables is
that of an unordered map and left open. A row with an unknown column stores the cells before it; the
model takes them in the order of the columns (`Known`) and the code in the order they were set, which makes of it another row of
the model. `findAtOrBeforeTime`, `lower_bound`, `next` and
`previous` are operators on an iterator's position; no run keeps an iterator over a
change, which the library does not allow. The refinement mapping gives each
column the values its bins hold for the times of its subtable, and the
abstract action for limiting allows what its comments promise: cells are dropped, never
all of them, and never so many that a limit of n keeps less than half of n.

*Clock.* An operation of the code calls others and notifies in between; each is a
function from clock to clock, and the notifications are replayed in their order to the
observers (`DataBecomes`), the visualization clock's own among them. Real time is the
number of units that pass between two frames. Times are natural numbers; `ThisYear`,
the value of a default `TimeStamp`, lies after all times of the scenario.

*CategoryCounts.* The thread counts one category per step, and the main thread may do
anything between two steps; it works on its own snapshot, so finer steps show
nothing else.

A property `WellFormed` is the conjunction of the type invariant with the parts that make the
state of a module consistent; each part is a definition of its own.

## 3. Runs

| run | module | shows | instance |
|---|---|---|---|
| `us_current` | `UpdateSlice` | one platform in live and file mode, with all three interpolations: what an update shows is right, ranges and kept end points stay true | times 0-5, points at static time, 1, 2, 4; drawing, life span and limiting to two points vary |
| `fs_hint` | `FastSearch` | the hint never changes an answer | eight times of points, width 3 as in the code |
| `cs_replay` | `CommandSlice` | the command state is that of a replay | three commands at times 1-3, set and clear, scalar and repeated |
| `cs_flush` | `CommandSlice` | with flush, limiting and modification no needed update is skipped and nothing accumulates | three commands at times 1-3, limits of two points and two seconds |
| `es_overlap` | `EntityStore` | overlapping transactions on different entities over three levels of hosts | two handles, three ids, two names |
| `es_share` | `EntityStore` | several transactions on one entity, orphans and cancellations | three handles, two ids |
| `ld_nested` | `ListenerDispatch` | nested notifications with registration in callbacks | three listeners of two weights, nesting depth 2 |
| `ld_removed` | `ListenerDispatch` | *violated*: a removed listener is called | single calls |
| `cc_live` | `CategoryCounts` | no request is lost, a cleared scenario's count is dropped, the counts become right | two entities of two types, two categories, one value, three filters, five calls |
| `ck_play` | `Clock` | bounds, direction, observers and replay in all modes; playback ends or loops | two times within a scenario, two scales, frames of one or two units, four calls |
| `tb_refine` | `MemoryTable` | the table is a `TimeTable` | two columns, three times, two values; no limit, two or three points, one second |
| `cd_current` | `CategoryData` | entries stay in order, lookups are exact, skipped updates would show the same, listeners know what is shown | two categories and values, times -1, 1, 3, three entries, limits of one or two points and one second, three ranges to flush, searches of width 1 |

**Why the bounds are enough.** The decisions of a slice compare the time with
the first point, the last point, the two neighbours and the cached range. Three
moving points give a first, a middle and a last one; the times 0 and 5 lie
before and after all of them, 3 between two, and when only 1 and 4 are in the
slice there are two times between the same points. A static point gives the
special life span. Two points is the smallest limit that leaves a range between points.
The search loops behave differently by whether the width, the first point or
the end stops them; eight points exceed twice the width of 3, which is that of the code (the
proof holds for any). Three commands at three times allow one before, at
and after the last executed one, and two at one time. Three entities are the
depth of platform, beam and gate; two handles (three in `es_share`) are what
the reorderings of commit and release need. A third level of nested
notifications adds nothing to what the second does to the one below it, which
only sees that `justRemoved_` was cleared. Two categories are what the
counts of one need of the other; one value beside `No Value` is what a count can be wrong
about. Five calls are enough for a count that is
reset while it runs while the store is refilled. The clock's frames may pass the end by
one unit or two, and its scale may be zero; four calls enter live mode, unlock a replay,
play it and leave. Three rows are what a limit of two needs to swap the bins and what
a flush of a range needs to leave a gap; that a run among scattered positions is cut into pairs takes
more rows and is left to `TableAlwaysWellFormed`. Three entries let a category
change its value under the other, and a default value be taken out and put back when a limit by time drops the entry behind
it; a search of width 1 then ends at either end or falls back forward on `std::upper_bound`. The code's search has
width 3, which in so few entries would hardly ever fall back; falling back backward takes four entries even with width 1.
`LookupsAlwaysExact` is proved for every width and number of entries. `MaxId`, `MaxCommands`, `MaxDepth`, `MaxEdits`, `MaxCalls`, `LastTime`,
`MaxColumns` and `MaxEntries` are bounds of the models and not of the code; `LastTime` ends only playing without an end.

**Deadlock** is checked in every run but `cc_live`, `ck_play` and `tb_refine`: there the
models may come to rest when their calls or columns are used up.

**Fairness** is assumed where something runs by itself. In `CategoryCounts` the thread
pool runs the thread (`Work`), the event loop delivers its signal (`EmitResults`), the
three-second timer is never stopped (`RecountCategories`), and the application
updates the store with its frames (`UpdateStore`); each is weakly fair. In `Clock` the
viewer calls `idle()` of both clocks with every frame, `DataFrame` and `ReplayFrame`. The
calls of users and producers are never fair, and bounded in number, which is
what "once users pause" means in `EventuallyCounted`. The data store
is a library without threads or timers, each action is a call that a client may or
may not make, so there is nothing that must eventually happen, and its properties
are of safety; `Settled` in them means "no change waits for an update".

**Refinement.** `tb_refine` checks `Contract!Spec`, that is, that each step of the
table in memory is a step of `TimeTable` or leaves its columns and cells as they are.

Each property of a passing run has a mutant in `PROJECT.json`: the definition
is exchanged for a form a plausible error would give it, and the property fails.
The mutated forms stand before the definitions they replace, marked `mutant`.

## 4. The environment

The properties do not hold for every sequence of calls; chapter 6 lists where
they fail. So that everything else can be checked, each module takes what its
environment does as a constant.

* `MayChange` of `UpdateSlice` gives, per clock mode and interpolation, what else
  may happen besides updates, inserts, flushes and preference transactions.
  Without interpolation, `MCMayChange` leaves out the mode and interpolation, the life span and, in file mode, changes
  of other entities while paused (deviations 1 and 6); `"drawing"` lets drawing be switched when no other change waits for an
  update, so that the reset on release and not a later update has to take care of it. With interpolation it leaves out
  data limiting, turning interpolation off, and, except with the interpolator of the store, mode
  changes. `"update before release"` lets updates run between the commit and the release of preferences; the
  run has them with the internal interpolation (deviation 11). Static and moving points are never mixed.
  `Sheltered` states what of this the theorems about the current point
  need; it is weaker than `MCMayChange` (live external mode may switch to the interpolator of
  the store and back, and limit by time), and TLC evaluates it for the run
  (`InstanceAssumption`). The theorems about types, end points and reported changes need
  none of it: they are for every value of `MayChange`.
* In `UpdateSlice` and `EntityStore` a transaction commits once: `DataStore.h:104` says of its object that it "should
  not be accessed after the transaction is committed". The code does not check it.
* `MayHappen` of `CommandSlice`: `"override"` lets the user edit fields that
  commands speak of, `"flush"`, `"modify"` and `"user"` turn those calls on.
  `cs_replay` leaves out flushes and both limits because a flush keeps the
  command state by intent (`MemoryDataSlice.h:503`).
* `MayHappen` of `EntityStore`: `"overlap"` several open transactions, `"share"`
  several on one entity, `"orphan"` removal of the host of a committed child,
  `"late child"` commit of a child whose host is gone, `"cancel"` release without
  commit, `"rehost"` properties that change the host, `"default"` default names
  that change between the addition of an entity and its commit. Removing an entity between its commit
  and its release is never allowed: `release()` reads the deleted entry.
  A commit to a removed entity is likewise left out.
* `Rounds` of `ListenerDispatch`: the notifications that occur. A client
  registers a listener once at a time.
* `MayHappen` of `Clock`, all left out in `ck_play`, each because a property fails with it
  (chapter 6): `"play to live"` live mode is entered while the clock plays forward,
  `"jump outside"` the time is set outside of the bounds in real time, `"bounds by user"` the
  mode or an infinite end changes under user bounds, `"ahead"` freewheel mode is left
  with the time outside of the bounds, `"unlooped back"` playing backward without looping,
  `"unlooped live"` live mode is left while replaying with looping off, `"data edits"` other
  edits of the data clock under a replay, `"replay bounds"` the bounds of a replay are edited.
  Beyond these, a call that sets bounds or the mode leaves the start of the scenario not after its end (`InOrder`), which
  the code does not check.
* `MayHappen` of `CategoryData`, all left out in `cd_current`: `"emptied"` the last value of a
  category goes, `"late default"` a default value comes where none was shown and equals
  the one last shown, `"default gone"` a default value goes while it is shown.
  `ShortWindows`: the window of a limit ends after the default value (deviation 22).
* The limits of a table are fixed for a behaviour of `MemoryTable`; those of the other
  modules change.

## 5. Proofs

`tlapm` checks every theorem, with SMT (Z3), Zenon and, for the temporal
steps, LS4.

*`UpdateSliceProofs`, the searches.* For every slice, set of times, positive search width and history of
the hint: `SearchTypeCorrect` (the points stay sorted without duplicates under insert,
flush and limiting), `SearchAlwaysExact` and `UpdateAlwaysLatest`. A
position that satisfies the definition of a lower (upper) bound on sorted points
is the only one (`LowerUnique`, `UpperUnique`), so it is enough that each exit of
the neighbour loops returns such a position (`LowerBoundExact`,
`UpperBoundExact`); sortedness is the inductive invariant.

*`UpdateSliceProofs`.* `TypeCorrect`, `BracketAlwaysStored` and
`BracketAlwaysKnown`, for every set of times, preferences and environment. None
of the three is inductive: that the range is set only with an end point relies on
the window the cache keeps, which must be that of the points the slice holds
now. The inductive invariant `CacheInv` adds that (`WindowFresh`). Every call
that changes the points resets the cache or changes nothing the invariant reads
(`ResetInv`), and an update computes range and end points from the same points
(`BracketType`, `UpdatePlatformInv`). The proof covers deleted current points, updates between
commit and release, and static points mixed with moving ones.

`ChangeAlwaysReported` is an action property for every environment, too: each way through an
update either leaves the current point or marks the slice.

`CurrentAlwaysLatest`, `RangeAlwaysSound` and `InterpolatedAlwaysAtNow` are for the
environments that are `Sheltered`. That the current point is right now says
nothing of the next update, which may be skipped: `CurrentInv` adds that the range
contains no time with another answer, that the cache's copies of the preferences are those of the store but between a
commit and its release, and for each of interpolating and not what
the early outs rely on. Without interpolation (`OffInv`) the range ends where the next
point, the life span or the drawing changes the answer; with it (`OnInv`) the kept
end points enclose the time, are neighbours in the slice, and no limiting has
taken a point between them (limiting again would take none).

*`CommandSliceProofs`.* For every set of times and settings, every limit and every bound on the commands:
`CommandsAlwaysInOrder`, `NeverAccumulates` and `RangeAlwaysHidesNothing`, with flushes, limiting and user
edits; `CacheAlwaysReplay` without flushes and with neither limit set (`Unlimited`), which keep the command state by intent, and
`PrefsAlwaysFollow` when besides the user leaves commanded fields alone (deviation 2). The command state
is a fold, so the proof has an induction over the number of commands executed (`AdvanceIs`, on `Recursion`
and `Throughout`): it carries, for each field, that the value is what the last command
that speaks of the field left (`Says`), and for the preferences that what was cleared is empty
(`Cleared`). `CacheIsReplay` speaks of settled states only; `ReplayInv` says of every state, unless a command was
inserted at or before the last executed one, that the command state is that of the commands up to *that*
one, which an insert behind it does not disturb (`InsertedIs`). `RangeInv` says that a range that is set lies
between neighbours and contains the last executed time, which is why the early return of `advance_` never
leaves an old range behind (`ExecutingIs`).

*`EntityStoreProofs`.* For any number of handles, entities and names. `TypeCorrect`,
`CachesAlwaysMatch` and `OriginalIdsAlwaysMatch` for every environment;
`ChildrenAlwaysMatch` without `"rehost"`; `StoreAlwaysWellFormed` (no entity outlives its host)
without `"rehost"`, `"orphan"` and `"late child"`; `NamesAlwaysMatch` without `"share"`,
`"cancel"` and `"default"`. Each hypothesis names a deviation of chapter 6 and nothing else:
overlapping transactions of different entities are covered. An index is that of the store
*except* for what open transactions still have to release, so the inductive invariants
say of each entity in the store and each open transaction which of the two
the index shows, and that an id is never used by two open additions.

*`ListenerDispatchProofs`.* For any number of listeners, weights, rounds and nested
notifications: `CallsAlwaysByWeight`, `EveryoneAlwaysCalled`, `RemovedAlwaysSkipped` (as far
as deviation 5 allows, that is, unless a notification was nested). The inductive invariant
`DispatchInv` speaks of every frame of the call stack: what it has still to call are the
rest of a copy in order of weight, and each listener that stayed registered is
called, or ahead; `SkipsInv` adds that what was removed since the frame began is in `justRemoved_`.

*`CategoryCountsProofs`.* For any set of entities, values and filters: `DropsAlwaysOldOnly` and
`IdleAlwaysCurrent`. The widget is current when idle because a trace of what is still to do stands for each difference between what is shown and the
store: a pending retest, the dirty flag, an entity not noticed yet or a job that was dropped; `CountsInv` says
which of them does, whatever step of the thread, the event loop or the user came last.

*`CategoryDataProofs`.* For any set of categories, values, times, widths of the search and bounds:
`EntriesAlwaysInOrder`, `LookupsAlwaysExact` and `CacheAlwaysSound` with `ShortWindows`, and
`ListenersAlwaysCurrent` when users do none of what `MayHappen` names. A lookup is exact because the range it left
is the range of the place it left, in entries in order: `DataInv`. Each exit of the search
is the place with the earlier entries before it and the later ones behind (`UpperIs`,
`SearchExact`); inserting keeps the order (`InsertSorted`), and removing, flushing and
limiting all cut one stretch out of it (`CutSorted`). `CacheInv` says that no category has an
entry inside the range of the cache (`NewCacheIs`). `ListenersCurrent` alone is not inductive, since it says nothing while
there are changes: `ListenedInv` says, for each category, what the value last reported tells of what listeners know,
which no change of the entries disturbs, so that a category that reports nothing shows what they know (`SilentIs`).

*`MemoryTableProofs`.* For any number of columns, times, values and limits: `TableAlwaysWellFormed`,
`AlwaysWithinLimit`, `ReadsAlwaysInOrder`, and `TableImplementsTimeTable`, the refinement of
`TimeTable`. `WellFormed` is not inductive. Flushing renumbers the positions that stay, which keeps
two times apart only if no two times of a bin had one position before, and a column that
was removed must not leave values to the next (`TableOK`). `WithinLimit` holds at a swap because
the fresh bin has just reached half of the limit, rounded up, and the stale bin holds at most as many
(`Halved`); both halves survive a split, whose new subtable has fewer rows. `TableInv` is their
conjunction. The argument has three parts:

* one subtable (`SubOK`) and one column (`Fits`): adding a time, storing, erasing, swapping and flushing
  take a column that fits to one that fits, with known cells. For flushing, the ranges cover the flushed positions
  and nothing else, so what is subtracted from a position is its rank among the erased ones
  and the value of a time stays under it, though a run is cut into pairs;
* the table: an action maps over subtables and columns. For a row, a subtable
  splits off precisely the columns the row did not name (their size tells: `Lacking`), whatever the
  order of the splits, and the new subtables are those of the old times without the row's;
* the refinement: `CellsOf` a column changes as `TimeTable` says, for every operation. For limiting, what
  is dropped is a stale bin: never all, and never so much that fewer than half of the limit's points stay.

Reading is separate from the invariant: an iterator *stands at* `t` when the times below `t` are behind
it in both bins, and it points at the earlier of the two next ones. `next` takes one that stands at
the n-th row to the next row, so after n steps from `lower_bound` a visitor is at the row with n rows before it
(`Throughout`, an induction over the steps). `previous` takes one that stands at `t` to the latest row before `t`
(`PreviousPoints`), so the way back from the end meets the rows in the other order (`VisitedBackIs`), and a step there and back
leaves an iterator before the same row (`ThereAndBack`).

*`TimeSetsProofs`.* A nonempty bounded set of integers has a least and a greatest member; a function defined
by recursion over a stretch of the naturals satisfies its equation, and what its first value has and each step
keeps holds throughout (`Recursion`, `Throughout`).

Assumptions on the constants, each named and evaluated by TLC with the runs: times are naturals
(points and values may also be at the static time -1) and below `MaxDouble`, widths are positive,
preferences have the fields of the code, the sets of categories, entities and values are finite
where the code counts them.

Only model-checked: `Clock` (`WellFormed`, `InBounds`, `ObserversCurrent`, `RealTimeFollows` and
`FramesAdvance`), whose operations nest and whose observers are a fold over the log of their notifications, and
the two liveness properties, which are out of the prover's reach (fairness and `ENABLED`). For
these, and for the fairness they rest on, the runs are what there is.

## 6. Deviations

Where the code does something else than a comment, document or test of the
repository says, or does not do what a property asks. `ld_removed` has a run that reproduces it. The others
were reproduced with instances of the same modules by allowing the named
behaviour or widening a constant, or were read in the code; the environment of chapter 4 keeps them
out of the passing runs.

### 6.1 Points, commands, entities, listeners

File names are of `src/SDK/simData`; `INL` is `MemoryDataSlice-inl.h`, `MDS` is `MemoryDataStore.cpp`.

1. `CurrentIsLatest`, with `"others"` in file mode (INL:409). The slice widens the range to `[0, max)` before its
   early out keeps `current_`. After two updates at the time of the last point
   the cache skips an update to an earlier time.
2. `PrefsFollow`, with `"override"` (MDS:820). A user edit of a commanded field is not overridden until
   the time leaves the range, although INL:881 says "apply the current command
   state at every update".
3. `NamesMatchStore`, with `"cancel"` (MDS:2745). The name of a cancelled entity stays in the name cache.
4. `NoOrphans`, with `"orphan"` (MDS:2877). A child between commit and release survives its host.
5. `ld_removed` (MDS:3824). A nested notification clears `justRemoved_`, and the
   outer one calls the removed listener.
6. Changing to file mode does not force an update of the caches (MDS:942),
   against the comment at MDS:231.
7. Data limiting deletes the point `current_` holds (INL:553).
8. With internal interpolation a point inserted at the time of the store is not
   shown (MDS:1076, the early out looks at the time only).
9. `hasChanged()` stays true on the ways through `update` that do not clear it
   (MDS:958, MDS:820), against `DataSlice.h:51`.
10. The internal interpolation never clears `dirty_` (MDS:1068).
11. An update between commit and release of preferences is the last one at that
    time: release does not set `hasChanged_`, so drawing that was switched on
    waits for the next time.
12. Turning interpolation off at a paused time keeps the interpolated point (INL:409).
13. A flush of part of the commands forgets an insert that came before the last
    executed command (INL:701).
14. Of a set and a clear command at one time the later inserted does not always
    count (INL:733).
15. `CommandCache` calls the base class's `update`, so the overrides of beams and
    gates never run (MDS:823, `MemoryDataSlice.h:532`).
16. Preferences transactions of one entity released in another order than committed
    leave the old name in the name cache (MDS:3958).
17. A default name that changes between `addPlatform` and `commit` leaves the
    entity under the old name (MDS:4128).
18. Changing a host id leaves the child under its old host (MDS:343).
19. A listener removed in its `onPrefsChange` is called through a null pointer for
    `onNameChange` (MDS:3981).

### 6.2 Category data and counts

File names are of `src/SDK/simData/CategoryData`; `CDS` is `MemoryCategoryDataSlice.cpp`.

20. `ListenersCurrent`, with `"emptied"`: the update passes over a category whose last value was
    removed, so no listener hears that the value is gone (CDS:711).
21. `ListenersCurrent`, with `"late default"` and `"default gone"`: -1 is the time of a default value and
    stands for "no value" as well (`NO_CATEGORY_DATA`); a default value that comes where none
    was, or goes while it is shown, may not be reported.
22. `OncePerTime`, with a window of 5 seconds: `limitByTime` takes the default value out and puts it
    back (CDS:254, "Re-add the -1 time value"); when the window reaches beyond -1 nothing was taken
    out, the default value doubles with every limiting, and a removal takes one of them.
23. `flush()` keeps the last value of each category and not the current one, which its
    documentation speaks of ("retaining current category data").
24. `sliceSize_` counts a value that replaces another a second time. Not modelled.
25. After a scenario is cleared all types of entities are counted, while the widget keeps the types that were
    chosen and ignores a call that sets them again (`simQt/CategoryFilterCounter.cpp:248`,
    `CategoryFilterWidget.h:139`).

### 6.3 Data tables

26. `MemoryTable/Table.cpp:481` says "data limiting will always leave at least one row, so latest end time will
    always remain". The row at the end time may be dropped: with a limit of one point, a row at
    2 and then one at 1 leave the row at 1 and `endTime_` at 2. The window of seconds then ends too late.
27. `toFront()` and `toBack()` leave an iterator with the bin it was in, so the next element may be the later of
    two, or none (`DoubleBufferTimeContainer.cpp:243`). Read in the code.

### 6.4 Clock

File names are of `src/SDK/simCore/Time`; line numbers are of `ClockImpl.cpp`.

28. Playing or stepping backward at the start without looping sets the time to a default `TimeStamp`, the
    first of January of this year, which is clamped to the end of a scenario that lies in the past (648);
    `FramesAdvance`, with `"unlooped back"`. The same value stops a clock at its end (619), where
    clamping gives the end of a past scenario, as meant. At the start of a scenario without an end, a loop back sets the time to
    infinity, and an assertion fails.
29. Entering a live mode while playing forward keeps the scale and base of the real-time clock (380, 388),
    against `Clock.h:50`; `RealTimeFollows`, with `"play to live"`.
30. Setting the time outside of the bounds restarts the real-time clock at the unclamped time (436); `"jump outside"`.
31. `setMode()` drops the bounds of the user without telling the observers or moving the time (362),
    `setUserTimeBounds()` may change `isUserEditable()` without telling, and `setStartTime()` and `setEndTime()`
    compare with the bound of the user instead of their own; `ObserversCurrent` and `InBounds`, with `"bounds by user"`.
32. Leaving freewheel mode does not move the time into the bounds; `InBounds`, with `"ahead"`.
33. Leaving a live mode with looping off while replaying turns looping on before the clock stops, and the
    replay's observer fails its assertion; `DevAsserts`, with `"unlooped live"`. Other edits of the data clock
    under a replay fail it as well (`"data edits"`).
34. Whether the clock can loop depends on its mode, but a change of mode does not tell `onCanLoopChange`. `onTimeLoop` is
    never called. Read in the code.
35. `VisualizationClock::setMode(mode, liveStartTime)` drops its second argument (1042). Read in the code.

## 7. Not modelled

* The contents of points: interpolated positions and orientations are floating
  point arithmetic. Which points are interpolated between is modelled.
* Calculations, lookup tables, time formats, GOG and string handling: sequential
  numeric or text code.
* Qt, visualization and utilities: user interface over libraries that are not in
  the repository.
* Callbacks that change the store while it updates or removes: the
  listener model lets callbacks register and notify, but does not yet run the
  store beneath them. What several of them would do is undefined behaviour, and
  listed under the hazards.
* `clear()` and scenario listeners walk the live list; a callback that changes
  it invalidates the iterator, which is undefined.
* Target beams and gates, LOB groups and generic data: planned, see below.
* Of the tables: `TableManager` and its owners, observers of tables and rows (they are told of a
  dropped time that other subtables still hold, and not of flushed rows), delayed flush containers.
* Of the category data: the name manager's numbers, `numItems()`, iterators of readers, and
  regular expressions, which the counting thread matches against strings the main thread extends, a data race.
* Of the clock: `TimeClock`, the widgets that bind it, and observers that register in a callback, which
  invalidates an iterator (only `onModeChange` walks a copy).
* `EntityTreeModel` with its delayed operations: Qt.

Hazards that lie outside the models, beside those of `PROJECT.json`: a callback of a removed
child that removes its host (`MemoryDataStore.cpp:2887`); data committed in the callbacks of
`update()`, which the next update at the same time misses (2322); the slice caches of an entity, destroyed by
the first listener of its removal (586); `clear()` and the generic data slice of the scenario (1729); tables of an
owner deleted over a list that each deletion changes (`TableManager.cpp:281`).

The models cover the parts of the library whose correctness depends on histories and on several actors. Most of
the repository's lines are numerical, textual, or drawing code, bundled third-party code, examples and
tests, for which a state machine says nothing.

## 8. Plan

Done, in this order: `UpdateSlice`, `CommandSlice`, `EntityStore`,
`ListenerDispatch`, `FastSearch`, the proofs of chapter 5, `CategoryCounts`, `Clock`,
`TimeTable` and `MemoryTable`, `CategoryData`.

Next modules:

1. `GenericData`: values that expire, under flush and time moving back, against a replay.
2. Target beams and gates over two `UpdateSlice` platforms: the order of updates.
3. `TableManager`: owners, and observers of tables that are removed while they are told.
4. `EntityStore` with `ListenerDispatch`: callbacks that remove and add entities
   during a removal or an update.

Next proofs: `InBounds` and `ObserversCurrent` of `Clock`, operation by operation, whose fold over the log can be
reasoned about as those of `CommandSlice` are.
