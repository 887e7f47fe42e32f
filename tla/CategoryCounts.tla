--------------------------- MODULE CategoryCounts ---------------------------
(* The entity counts beside the values of a category filter widget.  The     *)
(* widget (main thread) asks an asynchronous counter; the counter takes a    *)
(* snapshot of the store, counts it in a thread of the pool, and hands the   *)
(* result back through the event loop.  Requests that arrive while it counts *)
(* are queued as one retest; a timer asks for a recount when the store       *)
(* reported a change.                                                        *)
EXTENDS Integers, FiniteSets, Functions

CONSTANTS Entities, TypeOf,     \* entity ids, and the object type of each
          Names, Values,        \* categories and their values
          Filters,              \* the filters a user sets
          Null,
          MaxEdits              \* bound on the calls of users and producers

NoValue  == "No Value"          \* NO_CATEGORY_VALUE_AT_TIME
Unlisted == "Unlisted Value"    \* UNLISTED_CATEGORY_VALUE
Items    == Values \cup {NoValue}
All      == Range(TypeOf)       \* simData::ALL
Checks   == UNION {[S -> BOOLEAN] : S \in SUBSET (Items \cup {Unlisted})}
NoNames  == [n \in {} |-> {}]

ASSUME EntitiesAssumption == IsFiniteSet(Entities)

\* UNLISTED_CATEGORY_VALUE is -3; names and values are numbered from one.
ASSUME ValuesAssumption == Unlisted \notin Values

ASSUME FiltersAreFilters ==
  Filters \subseteq UNION {[S -> Checks] : S \in SUBSET Names}

VARIABLES
  known,      \* CategoryNameManager: the values of each category
  data,       \* current values of the entities that exist
  unnoticed,  \* entities whose values changed since the last update of the store
  filter,     \* the filter of the tree
  shown,      \* the count of each row of the tree, -1 for none
  types,      \* counterObjectTypes_ of the widget
  dirty,      \* countDirty_
  counter,    \* the AsyncCategoryCounter, Null while counts are hidden
  edits
vars == <<known, data, unnoticed, filter, shown, types, dirty, counter, edits>>
store == <<known, data, unnoticed>>

Idle == [filter |-> Null]
Busy(c) == c.job # Idle

-----------------------------------------------------------------------------
(* Filters.  A category that is absent or unchecked accepts everything.      *)

Accepts(checks, item) ==
  IF item \in DOMAIN checks THEN checks[item]
  ELSE item # NoValue /\ Unlisted \in DOMAIN checks /\ checks[Unlisted]

MatchData(f, cats) == \A n \in DOMAIN f : Accepts(f[n], cats[n])

RemoveName(f, n) == Restrict(f, DOMAIN f \ {n})

(* CategoryFilterCounter.  prepare() copies the store, testCategory_ counts  *)
(* one category of the copy.                                                 *)

Rows(k) == {r \in Names \X Items : r[1] \in DOMAIN k /\ r[2] \in k[r[1]] \cup {NoValue}}

Prepare(f, ts, k, d) ==
  [filter   |-> f,
   snapshot |-> Restrict(d, {e \in DOMAIN d : TypeOf[e] \in ts}),
   counts   |-> [r \in Rows(k) |-> 0],
   left     |-> DOMAIN k,
   old      |-> FALSE]          \* history: started before the last reset

FilteredIds(job, n) ==
  {e \in DOMAIN job.snapshot : MatchData(RemoveName(job.filter, n), job.snapshot[e])}

TestCategory(job, n) ==
  [job EXCEPT
     !.left   = @ \ {n},
     !.counts = [r \in DOMAIN @ |->
        IF r[1] = n
        THEN Cardinality({e \in FilteredIds(job, n) :
                            Accepts([x \in {r[2]} |-> TRUE], job.snapshot[e][n])})
        ELSE @[r]]]

(* AsyncCategoryCounter.                                                     *)

\* mutant: a request while counting is forgotten
AsyncCountDropped(c, k, d) ==
  IF Busy(c) THEN c
  ELSE [c EXCEPT !.retest = FALSE, !.job = Prepare(c.next, c.types, k, d)]

AsyncCountEntities(c, k, d) ==
  IF Busy(c) THEN [c EXCEPT !.retest = TRUE]
  ELSE [c EXCEPT !.retest = FALSE, !.job = Prepare(c.next, c.types, k, d)]

CounterSetFilter(c, f, k, d) ==
  AsyncCountEntities([c EXCEPT !.next = f, !.retest = TRUE], k, d)

SetObjectTypes(c, ts, k, d) ==
  IF c.types = ts THEN c
  ELSE AsyncCountEntities([c EXCEPT !.types = ts, !.retest = TRUE], k, d)

\* mutant: the count that runs is not discarded
ResetKeepsJob(c) ==
  [c EXCEPT !.retest = FALSE, !.drop = FALSE, !.types = All, !.next = NoNames,
            !.job = IF Busy(c) THEN [@ EXCEPT !.old = TRUE] ELSE @]

Reset(c) ==
  [c EXCEPT !.retest = FALSE, !.drop = Busy(c), !.types = All, !.next = NoNames,
            !.job = IF Busy(c) THEN [@ EXCEPT !.old = TRUE] ELSE @]

\* mutant: the queued count is not started
FinishNoRetest(c, k, d) == [c EXCEPT !.drop = FALSE, !.job = Idle]

Finish(c, k, d) ==
  LET done == [c EXCEPT !.drop = FALSE, !.job = Idle]
  IN IF c.retest THEN AsyncCountEntities(done, k, d) ELSE done

NewCounter == [next |-> NoNames, types |-> All, retest |-> FALSE, drop |-> FALSE, job |-> Idle]

-----------------------------------------------------------------------------
(* The widget and the store.                                                 *)

Init ==
  /\ known = NoNames /\ data = NoNames /\ unnoticed = {}
  /\ filter = NoNames /\ shown = [r \in {} |-> -1]
  /\ types = All /\ dirty = TRUE /\ edits = 0
  /\ counter = CounterSetFilter(NewCounter, NoNames, NoNames, NoNames)

Edit == edits < MaxEdits /\ edits' = edits + 1

\* rowsInserted() of the tree reaches the counter, when there is one.
RowsInserted(c, k) == IF c = Null THEN Null ELSE AsyncCountEntities(c, k, data)

ProcessCategoryCounts(results) ==
  [r \in DOMAIN shown |-> IF r \in DOMAIN results THEN results[r] ELSE -1]

\* insertOneEntry_: the name manager tells the tree of a new category and of a
\* new value before the value is in the slice.  A value for another time than
\* the store's leaves the current one.
Insert(e, n, v) ==
  LET named  == IF n \in DOMAIN known THEN known
                ELSE [m \in DOMAIN known \cup {n} |-> IF m = n THEN {} ELSE known[m]]
      valued == [named EXCEPT ![n] = @ \cup {v}]
      first  == IF named = known THEN counter ELSE RowsInserted(counter, named)
  IN /\ Edit /\ e \in DOMAIN data
     /\ known' = valued
     /\ counter' = IF valued = named THEN first ELSE RowsInserted(first, valued)
     /\ shown' = [r \in Rows(valued) |-> IF r \in DOMAIN shown THEN shown[r] ELSE -1]
     /\ data' \in {data, [data EXCEPT ![e][n] = v]}
     /\ unnoticed' = IF data' = data THEN unnoticed ELSE unnoticed \cup {e}
     /\ UNCHANGED <<filter, types, dirty>>

\* update() at the time of the store reports the entities whose values changed.
UpdateStore ==
  /\ unnoticed # {}
  /\ unnoticed' = {} /\ dirty' = TRUE
  /\ UNCHANGED <<known, data, filter, shown, types, counter, edits>>

\* update() at a time when another value, or none, is current.
TimeMoves(e, n, v) ==
  /\ Edit /\ e \in DOMAIN data /\ n \in DOMAIN known /\ v \in known[n] \cup {NoValue}
  /\ data[e][n] # v
  /\ data' = [data EXCEPT ![e][n] = v]
  /\ unnoticed' = {} /\ dirty' = TRUE
  /\ UNCHANGED <<known, filter, shown, types, counter>>

AddEntity(e) ==
  /\ Edit /\ e \notin DOMAIN data
  /\ data' = [x \in DOMAIN data \cup {e} |-> IF x = e THEN [n \in Names |-> NoValue] ELSE data[x]]
  /\ dirty' = TRUE
  /\ UNCHANGED <<known, unnoticed, filter, shown, types, counter>>

RemoveEntity(e) ==
  /\ Edit /\ e \in DOMAIN data
  /\ data' = Restrict(data, DOMAIN data \ {e})
  /\ unnoticed' = unnoticed \ {e} /\ dirty' = TRUE
  /\ UNCHANGED <<known, filter, shown, types, counter>>

\* clear() of the store deletes the entities and clears the name manager; the
\* tree is reset, and by modelReset() the counter, unless it is empty.
Clear ==
  /\ Edit
  /\ known' = NoNames /\ data' = NoNames /\ unnoticed' = {}
  /\ filter' = NoNames /\ shown' = [r \in {} |-> -1]
  /\ counter' = IF DOMAIN known = {} \/ counter = Null THEN counter ELSE Reset(counter)
  /\ UNCHANGED <<types, dirty>>

\* setFilter() of the tree: filterChanged() reaches the counter.
SetFilter(f) ==
  /\ Edit /\ DOMAIN known # {} /\ DOMAIN f \subseteq DOMAIN known /\ f # filter
  /\ filter' = f
  /\ counter' = IF counter = Null THEN Null ELSE CounterSetFilter(counter, f, known, data)
  /\ UNCHANGED <<store, shown, types, dirty>>

SetEntityCountObjectTypes(ts) ==
  /\ Edit /\ ts # types
  /\ types' = ts
  /\ counter' = IF counter = Null THEN Null ELSE SetObjectTypes(counter, ts, known, data)
  /\ UNCHANGED <<store, filter, shown, dirty>>

\* setShowEntityCount(): the counter is deleted or made anew.  A count that runs
\* goes on and its result reaches nobody.
SetShowEntityCount ==
  /\ Edit
  /\ IF counter = Null
     THEN /\ counter' = SetObjectTypes(CounterSetFilter(NewCounter, filter, known, data),
                                       types, known, data)
          /\ shown' = shown
     ELSE /\ counter' = Null
          /\ shown' = [r \in DOMAIN shown |-> -1]
  /\ UNCHANGED <<store, filter, types, dirty>>

\* The three-second timer.
RecountCategories ==
  /\ dirty
  /\ dirty' = FALSE
  /\ counter' = IF counter = Null THEN Null ELSE AsyncCountEntities(counter, known, data)
  /\ UNCHANGED <<store, filter, shown, types, edits>>

\* The thread counts its next category.
Work ==
  /\ counter # Null /\ Busy(counter)
  /\ \E n \in counter.job.left : counter' = [counter EXCEPT !.job = TestCategory(@, n)]
  /\ UNCHANGED <<store, filter, shown, types, dirty, edits>>

\* emitResults_ in the event loop, after the thread has finished.
EmitResults ==
  /\ counter # Null /\ Busy(counter) /\ counter.job.left = {}
  /\ shown' = IF counter.drop THEN shown ELSE ProcessCategoryCounts(counter.job.counts)
  /\ counter' = Finish(counter, known, data)
  /\ UNCHANGED <<store, filter, types, dirty, edits>>

Users ==
  \/ \E e \in Entities, n \in Names, v \in Values : Insert(e, n, v)
  \/ \E e \in Entities, n \in Names, v \in Items : TimeMoves(e, n, v)
  \/ \E e \in Entities : AddEntity(e)
  \/ \E e \in Entities : RemoveEntity(e)
  \/ \E f \in Filters : SetFilter(f)
  \/ \E ts \in {All} \cup {{t} : t \in All} : SetEntityCountObjectTypes(ts)
  \/ Clear \/ SetShowEntityCount

System == UpdateStore \/ RecountCategories \/ Work \/ EmitResults

Next == Users \/ System

\* The pool runs the thread, the event loop delivers its signal, the timer is
\* never stopped, and the application updates the store with every frame.
Fairness == /\ WF_vars(Work) /\ WF_vars(EmitResults)
            /\ WF_vars(RecountCategories) /\ WF_vars(UpdateStore)

Spec == Init /\ [][Next]_vars /\ Fairness

-----------------------------------------------------------------------------
(* Properties.                                                               *)

\* What the counts mean (CategoryFilterCounter.h): of the entities of the given
\* types, those which have the value and pass the filter of every other category.
Expected(ts) ==
  [r \in Rows(known) |->
     Cardinality({e \in DOMAIN data :
        /\ TypeOf[e] \in ts
        /\ data[e][r[1]] = r[2]
        /\ \A n \in DOMAIN filter \ {r[1]} : Accepts(filter[n], data[e][n])})]

\* The rows of the tree are the values of the name manager, the filter speaks of
\* known categories only, and counts are those of entities.
TypeOK ==
  /\ DOMAIN shown = Rows(known) /\ Range(shown) \subseteq -1 .. Cardinality(Entities)
  /\ DOMAIN filter \subseteq DOMAIN known
  /\ DOMAIN data \subseteq Entities /\ unnoticed \subseteq DOMAIN data
  /\ dirty \in BOOLEAN
  /\ counter # Null => DOMAIN counter.next \subseteq DOMAIN known

\* When no count runs and no change waits to be noticed, the counts shown are
\* those of the store and the filter as they are now: no request was lost while
\* another count was running.
IdleIsCurrent ==
  counter # Null /\ ~Busy(counter) /\ ~dirty /\ unnoticed = {} =>
    shown = Expected(counter.types)

\* reset() discards the count that was running, and only that: results of the
\* old scenario are never shown and results of the new one are never dropped.
DropsOnlyOld ==
  counter # Null => (counter.drop <=> Busy(counter) /\ counter.job.old)

\* The state is one the code can give, with results dropped only after a reset.
WellFormed == TypeOK /\ DropsOnlyOld

\* Once users and producers pause, the counts become right and stay right.
EventuallyCounted == <>[](counter # Null => shown = Expected(counter.types))
=============================================================================
