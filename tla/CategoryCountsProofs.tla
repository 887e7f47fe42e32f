------------------------- MODULE CategoryCountsProofs -------------------------
(***************************************************************************)
(* Proofs about CategoryCounts, for every set of entities, types, names,   *)
(* values and filters.                                                     *)
(*                                                                         *)
(* That the counts shown while nothing is pending are right does not       *)
(* follow from the step that shows them: the job counted a copy of the     *)
(* store taken earlier.  CountsInv says what a running job still owes and  *)
(* that every change since its copy has left a trace: a retest, a dirty    *)
(* flag, an unnoticed entity or a job to be dropped.                       *)
(***************************************************************************)
EXTENDS CategoryCounts, FiniteSetTheorems, TLAPS

\* The entities a row counts, of the store and of the copy of a job; the counts
\* of the store k, d under the filter f.
Matching(ts, d, f, r) ==
  {e \in DOMAIN d :
     /\ TypeOf[e] \in ts
     /\ d[e][r[1]] = r[2]
     /\ \A n \in DOMAIN f \ {r[1]} : Accepts(f[n], d[e][n])}

Counted(j, r) ==
  {e \in FilteredIds(j, r[1]) : Accepts([x \in {r[2]} |-> TRUE], j.snapshot[e][r[1]])}

CountsOf(ts, k, d, f) == [r \in Rows(k) |-> Cardinality(Matching(ts, d, f, r))]

JobOK(j) ==
  /\ j = [filter |-> j.filter, snapshot |-> j.snapshot, counts |-> j.counts,
          left |-> j.left, old |-> j.old]
  /\ j.old \in BOOLEAN /\ DOMAIN j.snapshot \subseteq Entities
  /\ \A r \in DOMAIN j.counts : j.counts[r] \in 0 .. Cardinality(Entities)

\* A job that is not to be dropped counts what the name manager still knows.
JobKnown(j, k) == j.left \subseteq DOMAIN k /\ DOMAIN j.counts \subseteq Rows(k)

CounterOK(c, f, k) ==
  /\ c = [next |-> c.next, types |-> c.types, retest |-> c.retest, drop |-> c.drop, job |-> c.job]
  /\ c.retest \in BOOLEAN /\ c.drop \in BOOLEAN
  /\ c.next = f
  /\ Busy(c) => JobOK(c.job)
  /\ c.drop <=> Busy(c) /\ c.job.old
  /\ Busy(c) /\ ~c.drop => JobKnown(c.job, k)

\* What is left is counted in a copy of the store as it is, and what has been
\* counted is right.
JobCurrent(c, f, k, d) ==
  /\ c.job.left # {} =>
       /\ c.job.filter = f
       /\ c.job.snapshot = Restrict(d, {e \in DOMAIN d : TypeOf[e] \in c.types})
  /\ DOMAIN c.job.counts = Rows(k)
  /\ \A r \in Rows(k) : r[1] \notin c.job.left => c.job.counts[r] = CountsOf(c.types, k, d, f)[r]

Quiet == ~dirty /\ unnoticed = {}

CounterInv ==
  counter # Null =>
    /\ CounterOK(counter, filter, known)
    /\ Quiet /\ Busy(counter) /\ ~counter.retest /\ ~counter.drop =>
         JobCurrent(counter, filter, known, data)
    /\ Quiet /\ (Busy(counter) => counter.drop /\ ~counter.retest) =>
         shown = CountsOf(counter.types, known, data, filter)

\* The rest of the state: functions, and their domains.
StateOK ==
  /\ shown = [r \in Rows(known) |-> shown[r]]
  /\ \A r \in Rows(known) : shown[r] \in -1 .. Cardinality(Entities)
  /\ filter = [n \in DOMAIN filter |-> filter[n]] /\ DOMAIN filter \subseteq DOMAIN known
  /\ DOMAIN known \subseteq Names
  /\ DOMAIN data \subseteq Entities /\ unnoticed \subseteq DOMAIN data
  /\ dirty \in BOOLEAN

CountsInv == StateOK /\ CounterInv

-----------------------------------------------------------------------------
(* Requests.                                                                 *)

\* A request has been served when a job runs that is current or will be
\* followed by another.
Served(c, f, k, d) ==
  /\ CounterOK(c, f, k) /\ Busy(c)
  /\ ~c.retest => ~c.drop /\ JobCurrent(c, f, k, d)

LEMMA EntitiesAreFinite ==
  /\ IsFiniteSet(Entities) /\ Cardinality(Entities) \in Nat
  /\ \A T \in SUBSET Entities : Cardinality(T) \in 0 .. Cardinality(Entities)
<1>1. IsFiniteSet(Entities) /\ Cardinality(Entities) \in Nat
  BY EntitiesAssumption, FS_CardinalityType
<1>2. ASSUME NEW T \in SUBSET Entities PROVE Cardinality(T) \in 0 .. Cardinality(Entities)
  <2>1. IsFiniteSet(T) /\ Cardinality(T) <= Cardinality(Entities)
    BY <1>1, FS_Subset
  <2>2. Cardinality(T) \in Nat
    BY <2>1, FS_CardinalityType
  <2>. QED BY <1>1, <2>1, <2>2
<1>. QED BY <1>1, <1>2

\* prepare() makes a job that is current.
LEMMA PreparedJob ==
  ASSUME NEW f, NEW ts, NEW k, NEW d, DOMAIN d \subseteq Entities
  PROVE  /\ Prepare(f, ts, k, d) # Idle /\ JobOK(Prepare(f, ts, k, d))
         /\ ~Prepare(f, ts, k, d).old /\ JobKnown(Prepare(f, ts, k, d), k)
         /\ Prepare(f, ts, k, d).filter = f
         /\ Prepare(f, ts, k, d).snapshot = Restrict(d, {e \in DOMAIN d : TypeOf[e] \in ts})
         /\ DOMAIN Prepare(f, ts, k, d).counts = Rows(k)
         /\ \A r \in Rows(k) : r[1] \in Prepare(f, ts, k, d).left
<1>. DEFINE p == Prepare(f, ts, k, d)
<1>1. /\ p = [filter |-> p.filter, snapshot |-> p.snapshot, counts |-> p.counts, left |-> p.left, old |-> p.old]
      /\ p.old = FALSE /\ p.filter = f
      /\ p.snapshot = Restrict(d, {e \in DOMAIN d : TypeOf[e] \in ts})
      /\ p.counts = [r \in Rows(k) |-> 0] /\ p.left = DOMAIN k
  BY DEF Prepare
<1>2. p # Idle
  <2>1. "old" \in DOMAIN p /\ "old" \notin DOMAIN Idle
    BY DEF Prepare, Idle
  <2>. QED BY <2>1
<1>3. DOMAIN p.snapshot \subseteq Entities
  BY <1>1 DEF Restrict
<1>4. \A r \in Rows(k) : r[1] \in DOMAIN k
  BY DEF Rows
<1>5. \A r \in DOMAIN p.counts : p.counts[r] \in 0 .. Cardinality(Entities)
  BY <1>1, EntitiesAreFinite
<1>. HIDE DEF p
<1>6. JobOK(p) /\ JobKnown(p, k)
  BY <1>1, <1>3, <1>5 DEF JobOK, JobKnown
<1>. QED BY <1>1, <1>2, <1>4, <1>6 DEF p

\* A request to a counter whose last filter is f is served.
LEMMA RequestIsServed ==
  ASSUME NEW c, NEW f, NEW k, NEW d, CounterOK(c, f, k), DOMAIN d \subseteq Entities
  PROVE  /\ Served(AsyncCountEntities(c, k, d), f, k, d)
         /\ AsyncCountEntities(c, k, d).types = c.types
<1>. DEFINE g == AsyncCountEntities(c, k, d)
            p == Prepare(c.next, c.types, k, d)
<1>0. /\ c = [next |-> c.next, types |-> c.types, retest |-> c.retest, drop |-> c.drop, job |-> c.job]
      /\ c.retest \in BOOLEAN /\ c.drop \in BOOLEAN /\ c.next = f
      /\ Busy(c) => JobOK(c.job)
      /\ c.drop <=> Busy(c) /\ c.job.old
      /\ Busy(c) /\ ~c.drop => JobKnown(c.job, k)
  BY DEF CounterOK
<1>1. CASE Busy(c)
  <2>1. /\ g = [next |-> c.next, types |-> c.types, retest |-> TRUE, drop |-> c.drop, job |-> c.job]
    BY <1>0, <1>1 DEF AsyncCountEntities
  <2>2. g.next = c.next /\ g.types = c.types /\ g.retest = TRUE /\ g.drop = c.drop /\ g.job = c.job
    BY <2>1
  <2>3. g = [next |-> g.next, types |-> g.types, retest |-> g.retest, drop |-> g.drop, job |-> g.job]
    BY <2>1
  <2>. HIDE DEF g
  <2>4. Busy(g) <=> Busy(c)
    BY <2>2 DEF Busy
  <2>5. CounterOK(g, f, k)
    BY <1>0, <2>2, <2>3, <2>4 DEF CounterOK
  <2>. QED BY <1>1, <2>2, <2>4, <2>5 DEF Served, g
<1>2. CASE ~Busy(c)
  <2>1. /\ g = [next |-> c.next, types |-> c.types, retest |-> FALSE, drop |-> c.drop, job |-> p]
    BY <1>0, <1>2 DEF AsyncCountEntities
  <2>2. g.next = c.next /\ g.types = c.types /\ g.retest = FALSE /\ g.drop = c.drop /\ g.job = p
    BY <2>1
  <2>3. g = [next |-> g.next, types |-> g.types, retest |-> g.retest, drop |-> g.drop, job |-> g.job]
    BY <2>1
  <2>4. /\ p # Idle /\ JobOK(p) /\ ~p.old /\ JobKnown(p, k)
        /\ p.filter = f /\ p.snapshot = Restrict(d, {e \in DOMAIN d : TypeOf[e] \in c.types})
        /\ DOMAIN p.counts = Rows(k) /\ \A r \in Rows(k) : r[1] \in p.left
    BY <1>0, PreparedJob
  <2>. HIDE DEF g, p
  <2>5. Busy(g) /\ g.drop = FALSE
    BY <1>0, <1>2, <2>2, <2>4 DEF Busy
  <2>6. CounterOK(g, f, k)
    BY <1>0, <2>2, <2>3, <2>4, <2>5 DEF CounterOK
  <2>7. JobCurrent(g, f, k, d)
    BY <2>2, <2>4 DEF JobCurrent
  <2>. QED BY <2>2, <2>5, <2>6, <2>7 DEF Served, g
<1>. QED BY <1>1, <1>2

\* A counter whose next filter or object types are replaced.
LEMMA CounterWith ==
  ASSUME NEW c, NEW x, NEW f, NEW g,
         c = [next |-> c.next, types |-> c.types, retest |-> c.retest, drop |-> c.drop, job |-> c.job]
  PROVE  /\ g = [c EXCEPT !.next = f, !.retest = TRUE] =>
              g = [next |-> f, types |-> c.types, retest |-> TRUE, drop |-> c.drop, job |-> c.job]
         /\ g = [c EXCEPT !.types = x, !.retest = TRUE] =>
              g = [next |-> c.next, types |-> x, retest |-> TRUE, drop |-> c.drop, job |-> c.job]
<1>1. DOMAIN c = {"next", "types", "retest", "drop", "job"}
  OBVIOUS
<1>2. ASSUME g = [c EXCEPT !.next = f, !.retest = TRUE]
      PROVE  g = [next |-> f, types |-> c.types, retest |-> TRUE, drop |-> c.drop, job |-> c.job]
  <2>1. DOMAIN g = DOMAIN c /\ g = [i \in DOMAIN g |-> g[i]]
    BY <1>2
  <2>2. g.next = f /\ g.types = c.types /\ g.retest = TRUE /\ g.drop = c.drop /\ g.job = c.job
    BY <1>1, <1>2
  <2>. QED BY <1>1, <2>1, <2>2
<1>3. ASSUME g = [c EXCEPT !.types = x, !.retest = TRUE]
      PROVE  g = [next |-> c.next, types |-> x, retest |-> TRUE, drop |-> c.drop, job |-> c.job]
  <2>1. DOMAIN g = DOMAIN c /\ g = [i \in DOMAIN g |-> g[i]]
    BY <1>3
  <2>2. g.next = c.next /\ g.types = x /\ g.retest = TRUE /\ g.drop = c.drop /\ g.job = c.job
    BY <1>1, <1>3
  <2>. QED BY <1>1, <2>1, <2>2
<1>. QED BY <1>2, <1>3

\* Setting the filter is a request, whatever the filter was before.
LEMMA SetFilterIsServed ==
  ASSUME NEW c, NEW f0, NEW f, NEW k, NEW d, CounterOK(c, f0, k), DOMAIN d \subseteq Entities
  PROVE  /\ Served(CounterSetFilter(c, f, k, d), f, k, d)
         /\ CounterSetFilter(c, f, k, d).types = c.types
<1>. DEFINE g == [c EXCEPT !.next = f, !.retest = TRUE]
<1>0. /\ c = [next |-> c.next, types |-> c.types, retest |-> c.retest, drop |-> c.drop, job |-> c.job]
      /\ c.drop \in BOOLEAN
      /\ Busy(c) => JobOK(c.job)
      /\ c.drop <=> Busy(c) /\ c.job.old
      /\ Busy(c) /\ ~c.drop => JobKnown(c.job, k)
  BY DEF CounterOK
<1>1. g = [next |-> f, types |-> c.types, retest |-> TRUE, drop |-> c.drop, job |-> c.job]
  BY <1>0, CounterWith
<1>2. /\ g.next = f /\ g.types = c.types /\ g.retest = TRUE /\ g.drop = c.drop /\ g.job = c.job
      /\ g = [next |-> g.next, types |-> g.types, retest |-> g.retest, drop |-> g.drop, job |-> g.job]
  BY <1>1
<1>3. CounterSetFilter(c, f, k, d) = AsyncCountEntities(g, k, d)
  BY DEF CounterSetFilter
<1>. HIDE DEF g
<1>4. Busy(g) <=> Busy(c)
  BY <1>2 DEF Busy
<1>5. CounterOK(g, f, k)
  BY <1>0, <1>2, <1>4 DEF CounterOK
<1>. QED BY <1>2, <1>3, <1>5, RequestIsServed

\* So is setting other object types.
LEMMA SetTypesIsServed ==
  ASSUME NEW c, NEW ts, NEW f, NEW k, NEW d, CounterOK(c, f, k), DOMAIN d \subseteq Entities,
         c.types # ts
  PROVE  Served(SetObjectTypes(c, ts, k, d), f, k, d)
<1>. DEFINE g == [c EXCEPT !.types = ts, !.retest = TRUE]
<1>0. /\ c = [next |-> c.next, types |-> c.types, retest |-> c.retest, drop |-> c.drop, job |-> c.job]
      /\ c.drop \in BOOLEAN /\ c.next = f
      /\ Busy(c) => JobOK(c.job)
      /\ c.drop <=> Busy(c) /\ c.job.old
      /\ Busy(c) /\ ~c.drop => JobKnown(c.job, k)
  BY DEF CounterOK
<1>1. g = [next |-> f, types |-> ts, retest |-> TRUE, drop |-> c.drop, job |-> c.job]
  BY <1>0, CounterWith
<1>2. /\ g.next = f /\ g.retest = TRUE /\ g.drop = c.drop /\ g.job = c.job
      /\ g = [next |-> g.next, types |-> g.types, retest |-> g.retest, drop |-> g.drop, job |-> g.job]
  BY <1>1
<1>3. SetObjectTypes(c, ts, k, d) = AsyncCountEntities(g, k, d)
  BY DEF SetObjectTypes
<1>. HIDE DEF g
<1>4. Busy(g) <=> Busy(c)
  BY <1>2 DEF Busy
<1>5. CounterOK(g, f, k)
  BY <1>0, <1>2, <1>4 DEF CounterOK
<1>. QED BY <1>3, <1>5, RequestIsServed

\* A new counter is idle.
LEMMA NewCounterOK ==
  ASSUME NEW k
  PROVE  CounterOK(NewCounter, NoNames, k) /\ NewCounter.types = All
<1>1. ~Busy(NewCounter)
  BY DEF Busy, NewCounter
<1>. QED BY <1>1 DEF CounterOK, NewCounter

-----------------------------------------------------------------------------
(* Steps.                                                                    *)

\* After a request that was served, the counter is as it should be.
LEMMA ServedCounter ==
  ASSUME Served(counter', filter', known', data')
  PROVE  CounterInv'
  BY DEF Served, CounterInv

\* While a change waits to be noticed, nothing is promised of the counts.
LEMMA UnquietCounter ==
  ASSUME CounterInv, UNCHANGED <<counter, filter, known>>, ~Quiet'
  PROVE  CounterInv'
  BY DEF CounterInv

LEMMA InitKeepsCounts == Init => CountsInv
<1>. SUFFICES ASSUME Init PROVE CountsInv
  OBVIOUS
<1>1. Rows(NoNames) = {} /\ DOMAIN NoNames = {}
  BY DEF Rows, NoNames
<1>2. StateOK
  BY <1>1 DEF Init, StateOK, NoNames
<1>3. CounterOK(NewCounter, NoNames, NoNames)
  BY NewCounterOK
<1>4. Served(counter, filter, known, data)
  BY <1>1, <1>3, SetFilterIsServed DEF Init
<1>5. CounterInv
  BY <1>4 DEF CounterInv, Served
<1>. QED BY <1>2, <1>5 DEF CountsInv

\* More is known: what a running job counts is still known.
LEMMA KnownGrows ==
  ASSUME NEW c, NEW f, NEW k, NEW kk, CounterOK(c, f, k), DOMAIN k \subseteq DOMAIN kk,
         \A n \in DOMAIN k : k[n] \subseteq kk[n]
  PROVE  CounterOK(c, f, kk) /\ Rows(k) \subseteq Rows(kk)
<1>1. Rows(k) \subseteq Rows(kk)
  BY DEF Rows
<1>. QED BY <1>1 DEF CounterOK, JobKnown

LEMMA InsertKeepsCounts ==
  ASSUME CountsInv, NEW e \in Entities, NEW n \in Names, NEW v \in Values, Insert(e, n, v)
  PROVE  CountsInv'
<1>. DEFINE named  == IF n \in DOMAIN known THEN known
                      ELSE [m \in DOMAIN known \cup {n} |-> IF m = n THEN {} ELSE known[m]]
            valued == [named EXCEPT ![n] = @ \cup {v}]
            first  == IF named = known THEN counter ELSE RowsInserted(counter, named)
<1>1. /\ e \in DOMAIN data /\ known' = valued
      /\ counter' = IF valued = named THEN first ELSE RowsInserted(first, valued)
      /\ shown' = [r \in Rows(valued) |-> IF r \in DOMAIN shown THEN shown[r] ELSE -1]
      /\ data' \in {data, [data EXCEPT ![e][n] = v]}
      /\ unnoticed' = IF data' = data THEN unnoticed ELSE unnoticed \cup {e}
      /\ UNCHANGED <<filter, types, dirty>>
  BY DEF Insert
<1>2. /\ DOMAIN named = DOMAIN known \cup {n} /\ n \in DOMAIN named
      /\ \A m \in DOMAIN known : named[m] = known[m]
      /\ named # known => named[n] = {}
  OBVIOUS
<1>3. /\ DOMAIN valued = DOMAIN named /\ valued[n] = named[n] \cup {v}
      /\ \A m \in DOMAIN named : named[m] \subseteq valued[m]
  BY <1>2
<1>. HIDE DEF named
<1>4. named # known => valued # named
  BY <1>2, <1>3
<1>. HIDE DEF valued
<1>5. DOMAIN data' = DOMAIN data
  BY <1>1
<1>6. Rows(known) \subseteq Rows(valued)
  BY <1>2, <1>3 DEF Rows
<1>7. StateOK'
  <2>1. shown' = [r \in Rows(known') |-> shown'[r]]
    BY <1>1
  <2>2. \A r \in Rows(known') : shown'[r] \in -1 .. Cardinality(Entities)
    <3>1. DOMAIN shown = Rows(known) /\ \A r \in Rows(known) : shown[r] \in -1 .. Cardinality(Entities)
      BY DEF CountsInv, StateOK
    <3>2. -1 \in -1 .. Cardinality(Entities)
      BY EntitiesAreFinite
    <3>. QED BY <1>1, <3>1, <3>2
  <2>3. /\ filter' = [m \in DOMAIN filter' |-> filter'[m]] /\ DOMAIN filter' \subseteq DOMAIN known'
        /\ DOMAIN known' \subseteq Names
    BY <1>1, <1>2, <1>3 DEF CountsInv, StateOK
  <2>4. DOMAIN data' \subseteq Entities /\ unnoticed' \subseteq DOMAIN data' /\ dirty' \in BOOLEAN
    BY <1>1, <1>5 DEF CountsInv, StateOK
  <2>. QED BY <2>1, <2>2, <2>3, <2>4 DEF StateOK
<1>8. CounterInv'
  <2>. SUFFICES ASSUME counter' # Null PROVE CounterInv'
    BY DEF CounterInv
  <2>1. counter # Null /\ first # Null
    BY <1>1 DEF RowsInserted
  <2>2. CounterOK(counter, filter, known) /\ DOMAIN data \subseteq Entities
    BY <2>1 DEF CountsInv, CounterInv, StateOK
  <2>3. CounterOK(counter, filter, named)
    BY <1>2, <2>2, KnownGrows
  <2>4. CounterOK(first, filter, named)
    <3>1. CASE named = known
      BY <2>2, <3>1
    <3>2. CASE named # known
      <4>1. first = AsyncCountEntities(counter, named, data)
        BY <2>1, <3>2 DEF RowsInserted
      <4>. QED BY <2>2, <2>3, <4>1, RequestIsServed DEF Served
    <3>. QED BY <3>1, <3>2
  <2>5. CounterOK(first, filter, valued)
    BY <1>2, <1>3, <2>4, KnownGrows
  <2>6. CASE valued # named
    <3>1. counter' = AsyncCountEntities(first, valued, data)
      BY <1>1, <2>1, <2>6 DEF RowsInserted
    <3>2. Served(counter', filter, valued, data)
      BY <2>2, <2>5, <3>1, RequestIsServed
    <3>3. CASE data' = data
      <4>1. Served(counter', filter', known', data')
        BY <1>1, <3>2, <3>3
      <4>. QED BY <4>1, ServedCounter
    <3>4. CASE data' # data
      <4>1. ~Quiet'
        BY <1>1, <3>4 DEF Quiet
      <4>. QED BY <1>1, <3>2, <4>1 DEF CounterInv, Served
    <3>. QED BY <3>3, <3>4
  <2>7. CASE valued = named
    <3>1. named = known /\ counter' = counter /\ known' = known /\ filter' = filter /\ dirty' = dirty
      BY <1>1, <1>4, <2>7
    <3>2. CASE data' = data
      <4>1. shown' = shown
        <5>1. shown = [r \in Rows(known) |-> shown[r]]
          BY DEF CountsInv, StateOK
        <5>. QED BY <1>1, <3>1, <5>1
      <4>2. unnoticed' = unnoticed
        BY <1>1, <3>2
      <4>. QED BY <3>1, <3>2, <4>1, <4>2 DEF CountsInv, CounterInv, Quiet
    <3>3. CASE data' # data
      <4>1. ~Quiet'
        BY <1>1, <3>3 DEF Quiet
      <4>. QED BY <3>1, <4>1, UnquietCounter DEF CountsInv
    <3>. QED BY <3>2, <3>3
  <2>. QED BY <2>6, <2>7
<1>. QED BY <1>7, <1>8 DEF CountsInv

LEMMA UpdateStoreKeepsCounts ==
  ASSUME CountsInv, UpdateStore
  PROVE  CountsInv'
<1>1. StateOK'
  BY DEF CountsInv, StateOK, UpdateStore
<1>2. CounterInv'
  BY UnquietCounter DEF CountsInv, UpdateStore, Quiet
<1>. QED BY <1>1, <1>2 DEF CountsInv

LEMMA TimeMovesKeepsCounts ==
  ASSUME CountsInv, NEW e \in Entities, NEW n \in Names, NEW v \in Items, TimeMoves(e, n, v)
  PROVE  CountsInv'
<1>1. StateOK'
  BY DEF CountsInv, StateOK, TimeMoves
<1>2. CounterInv'
  BY UnquietCounter DEF CountsInv, TimeMoves, Quiet
<1>. QED BY <1>1, <1>2 DEF CountsInv

LEMMA AddKeepsCounts ==
  ASSUME CountsInv, NEW e \in Entities, AddEntity(e)
  PROVE  CountsInv'
<1>1. StateOK'
  BY DEF CountsInv, StateOK, AddEntity
<1>2. CounterInv'
  BY UnquietCounter DEF CountsInv, AddEntity, Quiet
<1>. QED BY <1>1, <1>2 DEF CountsInv

LEMMA RemoveKeepsCounts ==
  ASSUME CountsInv, NEW e \in Entities, RemoveEntity(e)
  PROVE  CountsInv'
<1>1. StateOK'
  BY DEF CountsInv, StateOK, RemoveEntity, Restrict
<1>2. CounterInv'
  BY UnquietCounter DEF CountsInv, RemoveEntity, Quiet
<1>. QED BY <1>1, <1>2 DEF CountsInv

\* A job stays a job when fields of it are replaced.
LEMMA OldJob ==
  ASSUME NEW job, NEW new, JobOK(job), new = [job EXCEPT !.old = TRUE]
  PROVE  /\ new # Idle
         /\ new = [filter |-> job.filter, snapshot |-> job.snapshot, counts |-> job.counts,
                   left |-> job.left, old |-> TRUE]
<1>1. DOMAIN job = {"filter", "snapshot", "counts", "left", "old"}
  BY DEF JobOK
<1>2. "old" \in DOMAIN job /\ "old" \notin DOMAIN Idle
  BY <1>1 DEF Idle
<1>3. DOMAIN new = DOMAIN job /\ new = [i \in DOMAIN new |-> new[i]]
  OBVIOUS
<1>4. /\ new.filter = job.filter /\ new.snapshot = job.snapshot /\ new.counts = job.counts
      /\ new.left = job.left /\ new.old = TRUE
  BY <1>1
<1>. QED BY <1>1, <1>2, <1>3, <1>4

LEMMA CountedJob ==
  ASSUME NEW job, NEW x, NEW y, NEW new, JobOK(job), new = [job EXCEPT !.left = x, !.counts = y]
  PROVE  /\ new # Idle
         /\ new = [filter |-> job.filter, snapshot |-> job.snapshot, counts |-> y,
                   left |-> x, old |-> job.old]
<1>1. DOMAIN job = {"filter", "snapshot", "counts", "left", "old"}
  BY DEF JobOK
<1>2. "old" \in DOMAIN job /\ "old" \notin DOMAIN Idle
  BY <1>1 DEF Idle
<1>3. DOMAIN new = DOMAIN job /\ new = [i \in DOMAIN new |-> new[i]]
  OBVIOUS
<1>4. /\ new.filter = job.filter /\ new.snapshot = job.snapshot /\ new.counts = y
      /\ new.left = x /\ new.old = job.old
  BY <1>1
<1>. QED BY <1>1, <1>2, <1>3, <1>4

\* reset() leaves a counter for the empty tree, whose job is to be dropped.
LEMMA ResetCounter ==
  ASSUME NEW c, NEW f, NEW k, CounterOK(c, f, k)
  PROVE  /\ CounterOK(Reset(c), NoNames, NoNames)
         /\ Busy(Reset(c)) => Reset(c).drop
<1>. DEFINE g == Reset(c)
            j == IF Busy(c) THEN [c.job EXCEPT !.old = TRUE] ELSE c.job
<1>0. /\ c = [next |-> c.next, types |-> c.types, retest |-> c.retest, drop |-> c.drop, job |-> c.job]
      /\ Busy(c) => JobOK(c.job)
  BY DEF CounterOK
<1>1. DOMAIN c = {"next", "types", "retest", "drop", "job"}
  BY <1>0
<1>2. g = [c EXCEPT !.retest = FALSE, !.drop = Busy(c), !.types = All, !.next = NoNames, !.job = j]
  BY DEF Reset
<1>3. Busy(c) => /\ j # Idle
                 /\ j = [filter |-> c.job.filter, snapshot |-> c.job.snapshot, counts |-> c.job.counts,
                         left |-> c.job.left, old |-> TRUE]
  BY <1>0, OldJob
<1>4. ~Busy(c) => j = Idle
  BY DEF Busy
<1>. HIDE DEF g, j
<1>5. g.retest = FALSE /\ g.drop = Busy(c) /\ g.types = All /\ g.next = NoNames /\ g.job = j
  BY <1>1, <1>2
<1>6. DOMAIN g = DOMAIN c /\ g = [i \in DOMAIN g |-> g[i]]
  BY <1>2
<1>7. g = [next |-> g.next, types |-> g.types, retest |-> g.retest, drop |-> g.drop, job |-> g.job]
  BY <1>1, <1>6
<1>8. Busy(c) \in BOOLEAN
  BY DEF Busy
<1>9. Busy(g) <=> Busy(c)
  BY <1>3, <1>4, <1>5 DEF Busy
<1>10. ASSUME Busy(g) PROVE JobOK(g.job) /\ g.job.old
  <2>1. /\ j.filter = c.job.filter /\ j.snapshot = c.job.snapshot /\ j.counts = c.job.counts
        /\ j.left = c.job.left /\ j.old = TRUE
        /\ j = [filter |-> j.filter, snapshot |-> j.snapshot, counts |-> j.counts,
                left |-> j.left, old |-> j.old]
    BY <1>3, <1>9, <1>10
  <2>2. JobOK(c.job)
    BY <1>0, <1>9, <1>10
  <2>. QED BY <1>5, <2>1, <2>2 DEF JobOK
<1>11. CounterOK(g, NoNames, NoNames)
  BY <1>5, <1>7, <1>8, <1>9, <1>10 DEF CounterOK
<1>. QED BY <1>5, <1>9, <1>11 DEF g

LEMMA ClearKeepsCounts ==
  ASSUME CountsInv, Clear
  PROVE  CountsInv'
<1>1. /\ known' = NoNames /\ data' = NoNames /\ unnoticed' = {}
      /\ filter' = NoNames /\ shown' = [r \in {} |-> -1]
      /\ counter' = IF DOMAIN known = {} \/ counter = Null THEN counter ELSE Reset(counter)
      /\ UNCHANGED <<types, dirty>>
  BY DEF Clear
<1>2. Rows(NoNames) = {} /\ DOMAIN NoNames = {}
  BY DEF Rows, NoNames
<1>3. StateOK'
  BY <1>1, <1>2 DEF CountsInv, StateOK, NoNames
<1>4. \A ts, d, f : shown' = CountsOf(ts, known', d, f)
  BY <1>1, <1>2 DEF CountsOf
<1>5. CounterInv'
  <2>. SUFFICES ASSUME counter' # Null PROVE CounterInv'
    BY DEF CounterInv
  <2>1. counter # Null
    BY <1>1
  <2>2. CounterOK(counter, filter, known)
    BY <2>1 DEF CountsInv, CounterInv
  <2>3. CASE DOMAIN known = {}
    <3>1. counter' = counter /\ Rows(known) = {}
      BY <1>1, <2>3 DEF Rows
    <3>2. filter = NoNames
      BY <2>3 DEF CountsInv, StateOK, NoNames
    <3>3. CounterOK(counter', filter', known')
      BY <1>1, <1>2, <2>2, <2>3, <3>1, <3>2 DEF CounterOK, JobKnown
    <3>4. Busy(counter') /\ ~counter'.drop => JobCurrent(counter', filter', known', data')
      BY <1>1, <1>2, <3>3 DEF CounterOK, JobKnown, JobCurrent
    <3>. QED BY <1>4, <3>3, <3>4 DEF CounterInv
  <2>4. CASE DOMAIN known # {}
    <3>1. counter' = Reset(counter)
      BY <1>1, <2>1, <2>4
    <3>2. CounterOK(counter', filter', known') /\ (Busy(counter') => counter'.drop)
      BY <1>1, <2>2, <3>1, ResetCounter
    <3>. QED BY <1>4, <3>2 DEF CounterInv
  <2>. QED BY <2>3, <2>4
<1>. QED BY <1>3, <1>5 DEF CountsInv

LEMMA SetFilterKeepsCounts ==
  ASSUME CountsInv, NEW f \in Filters, SetFilter(f)
  PROVE  CountsInv'
<1>1. /\ filter' = f /\ DOMAIN f \subseteq DOMAIN known
      /\ counter' = IF counter = Null THEN Null ELSE CounterSetFilter(counter, f, known, data)
      /\ UNCHANGED <<known, data, unnoticed, shown, types, dirty>>
  BY DEF SetFilter, store
<1>2. f = [n \in DOMAIN f |-> f[n]]
  BY FiltersAreFilters
<1>3. StateOK'
  BY <1>1, <1>2 DEF CountsInv, StateOK
<1>4. CounterInv'
  <2>. SUFFICES ASSUME counter' # Null PROVE CounterInv'
    BY DEF CounterInv
  <2>1. CounterOK(counter, filter, known) /\ DOMAIN data \subseteq Entities
    BY <1>1 DEF CountsInv, CounterInv, StateOK
  <2>2. Served(counter', filter', known', data')
    BY <1>1, <2>1, SetFilterIsServed
  <2>. QED BY <2>2, ServedCounter
<1>. QED BY <1>3, <1>4 DEF CountsInv

LEMMA SetTypesKeepsCounts ==
  ASSUME CountsInv, NEW ts, SetEntityCountObjectTypes(ts)
  PROVE  CountsInv'
<1>1. /\ counter' = IF counter = Null THEN Null ELSE SetObjectTypes(counter, ts, known, data)
      /\ UNCHANGED <<known, data, unnoticed, filter, shown, dirty>>
  BY DEF SetEntityCountObjectTypes, store
<1>2. StateOK'
  BY <1>1 DEF CountsInv, StateOK
<1>3. CounterInv'
  <2>. SUFFICES ASSUME counter' # Null PROVE CounterInv'
    BY DEF CounterInv
  <2>1. CounterOK(counter, filter, known) /\ DOMAIN data \subseteq Entities
    BY <1>1 DEF CountsInv, CounterInv, StateOK
  <2>2. CASE counter.types = ts
    BY <1>1, <2>2 DEF SetObjectTypes, CountsInv, CounterInv, Quiet
  <2>3. CASE counter.types # ts
    <3>1. Served(counter', filter', known', data')
      BY <1>1, <2>1, <2>3, SetTypesIsServed
    <3>. QED BY <3>1, ServedCounter
  <2>. QED BY <2>2, <2>3
<1>. QED BY <1>2, <1>3 DEF CountsInv

LEMMA SetShowKeepsCounts ==
  ASSUME CountsInv, SetShowEntityCount
  PROVE  CountsInv'
<1>1. UNCHANGED <<known, data, unnoticed, filter, types, dirty>>
  BY DEF SetShowEntityCount, store
<1>2. CASE counter = Null
  <2>. DEFINE c == CounterSetFilter(NewCounter, filter, known, data)
  <2>1. counter' = SetObjectTypes(c, types, known, data) /\ shown' = shown
    BY <1>2 DEF SetShowEntityCount
  <2>2. StateOK'
    BY <1>1, <2>1 DEF CountsInv, StateOK
  <2>3. DOMAIN data \subseteq Entities
    BY DEF CountsInv, StateOK
  <2>4. Served(c, filter, known, data)
    BY <2>3, NewCounterOK, SetFilterIsServed
  <2>. HIDE DEF c
  <2>5. Served(counter', filter, known, data)
    <3>1. CASE c.types = types
      BY <2>1, <2>4, <3>1 DEF SetObjectTypes
    <3>2. CASE c.types # types
      BY <2>1, <2>3, <2>4, <3>2, SetTypesIsServed DEF Served
    <3>. QED BY <3>1, <3>2
  <2>6. CounterInv'
    BY <1>1, <2>5, ServedCounter
  <2>. QED BY <2>2, <2>6 DEF CountsInv
<1>3. CASE counter # Null
  <2>1. counter' = Null /\ shown' = [r \in DOMAIN shown |-> -1]
    BY <1>3 DEF SetShowEntityCount
  <2>2. DOMAIN shown = Rows(known) /\ -1 \in -1 .. Cardinality(Entities)
    BY EntitiesAreFinite DEF CountsInv, StateOK
  <2>3. StateOK'
    BY <1>1, <2>1, <2>2 DEF CountsInv, StateOK
  <2>4. CounterInv'
    BY <2>1 DEF CounterInv
  <2>. QED BY <2>3, <2>4 DEF CountsInv
<1>. QED BY <1>2, <1>3

LEMMA RecountKeepsCounts ==
  ASSUME CountsInv, RecountCategories
  PROVE  CountsInv'
<1>1. /\ dirty' = FALSE
      /\ counter' = IF counter = Null THEN Null ELSE AsyncCountEntities(counter, known, data)
      /\ UNCHANGED <<known, data, unnoticed, filter, shown, types>>
  BY DEF RecountCategories, store
<1>2. StateOK'
  BY <1>1 DEF CountsInv, StateOK
<1>3. CounterInv'
  <2>. SUFFICES ASSUME counter' # Null PROVE CounterInv'
    BY DEF CounterInv
  <2>1. CounterOK(counter, filter, known) /\ DOMAIN data \subseteq Entities
    BY <1>1 DEF CountsInv, CounterInv, StateOK
  <2>2. Served(counter', filter', known', data')
    BY <1>1, <2>1, RequestIsServed
  <2>. QED BY <2>2, ServedCounter
<1>. QED BY <1>2, <1>3 DEF CountsInv

\* testCategory_ on a copy of the store as it is counts what is to be counted.
LEMMA CategoryIsCounted ==
  ASSUME NEW job, NEW ts, NEW f, NEW d, NEW r, r[2] \in Items, job.filter = f,
         job.snapshot = Restrict(d, {e \in DOMAIN d : TypeOf[e] \in ts})
  PROVE  Counted(job, r) = Matching(ts, d, f, r)
<1>1. /\ DOMAIN job.snapshot = {e \in DOMAIN d : TypeOf[e] \in ts}
      /\ \A e \in DOMAIN job.snapshot : job.snapshot[e] = d[e]
  BY DEF Restrict
<1>2. \A cats : MatchData(RemoveName(f, r[1]), cats) <=> \A n \in DOMAIN f \ {r[1]} : Accepts(f[n], cats[n])
  BY DEF MatchData, RemoveName, Restrict
<1>3. \A item : Accepts([x \in {r[2]} |-> TRUE], item) <=> item = r[2]
  <2>1. Unlisted # r[2]
    BY ValuesAssumption DEF Items, NoValue, Unlisted
  <2>. QED BY <2>1 DEF Accepts
<1>4. FilteredIds(job, r[1]) = {e \in DOMAIN job.snapshot :
                                 \A n \in DOMAIN f \ {r[1]} : Accepts(f[n], job.snapshot[e][n])}
  BY <1>2 DEF FilteredIds
<1>5. ASSUME NEW e
      PROVE  e \in Counted(job, r) <=> e \in Matching(ts, d, f, r)
  <2>1. e \in FilteredIds(job, r[1]) <=>
          e \in DOMAIN job.snapshot /\ \A n \in DOMAIN f \ {r[1]} : Accepts(f[n], job.snapshot[e][n])
    BY <1>4
  <2>2. e \in DOMAIN job.snapshot <=> e \in DOMAIN d /\ TypeOf[e] \in ts
    BY <1>1
  <2>. QED BY <1>1, <1>3, <2>1, <2>2 DEF Counted, Matching
<1>. QED BY <1>5

LEMMA WorkKeepsCounts ==
  ASSUME CountsInv, Work
  PROVE  CountsInv'
<1>1. /\ counter # Null /\ Busy(counter)
      /\ UNCHANGED <<known, data, unnoticed, filter, shown, types, dirty>>
  BY DEF Work, store
<1>2. PICK n \in counter.job.left : counter' = [counter EXCEPT !.job = TestCategory(@, n)]
  BY DEF Work
<1>. DEFINE j == counter.job
            g == TestCategory(j, n)
            left == j.left \ {n}
            counts == [r \in DOMAIN j.counts |->
                         IF r[1] = n
                         THEN Cardinality({e \in FilteredIds(j, n) :
                                             Accepts([x \in {r[2]} |-> TRUE], j.snapshot[e][n])})
                         ELSE j.counts[r]]
<1>3. CounterOK(counter, filter, known) /\ JobOK(j)
  BY <1>1 DEF CountsInv, CounterInv, CounterOK
<1>4. g = [j EXCEPT !.left = left, !.counts = counts]
  BY DEF TestCategory
<1>5. /\ g # Idle
      /\ g = [filter |-> j.filter, snapshot |-> j.snapshot, counts |-> counts, left |-> left, old |-> j.old]
  <2>. HIDE DEF counts, left, j
  <2>1. JobOK(j) /\ g = [j EXCEPT !.left = left, !.counts = counts]
    BY <1>3, <1>4
  <2>. HIDE DEF g
  <2>. QED BY <2>1, CountedJob
<1>6. \A r \in DOMAIN counts : counts[r] \in 0 .. Cardinality(Entities)
  <2>1. ASSUME NEW r \in DOMAIN j.counts, r[1] = n PROVE counts[r] \in 0 .. Cardinality(Entities)
    <3>1. {e \in FilteredIds(j, n) : Accepts([x \in {r[2]} |-> TRUE], j.snapshot[e][n])} \in SUBSET Entities
      BY <1>3 DEF JobOK, FilteredIds
    <3>2. counts[r] = Cardinality({e \in FilteredIds(j, n) :
                                     Accepts([x \in {r[2]} |-> TRUE], j.snapshot[e][n])})
      BY <2>1
    <3>. QED BY <3>1, <3>2, EntitiesAreFinite
  <2>2. ASSUME NEW r \in DOMAIN j.counts, r[1] # n PROVE counts[r] \in 0 .. Cardinality(Entities)
    BY <1>3, <2>2 DEF JobOK
  <2>. QED BY <2>1, <2>2
<1>7. DOMAIN counts = DOMAIN j.counts /\ left \subseteq j.left
  OBVIOUS
<1>8. ASSUME JobCurrent(counter, filter, known, data), NEW r \in Rows(known), r[1] \notin left
      PROVE  counts[r] = CountsOf(counter.types, known, data, filter)[r]
  <2>1. r \in DOMAIN j.counts /\ r[2] \in Items
    BY <1>8 DEF JobCurrent, Rows
  <2>2. CASE r[1] = n
    <3>1. /\ j.filter = filter
          /\ j.snapshot = Restrict(data, {e \in DOMAIN data : TypeOf[e] \in counter.types})
      BY <1>2, <1>8 DEF JobCurrent
    <3>2. counts[r] = Cardinality(Counted(j, r))
      BY <2>1, <2>2 DEF Counted
    <3>3. CountsOf(counter.types, known, data, filter)[r] =
            Cardinality(Matching(counter.types, data, filter, r))
      BY DEF CountsOf
    <3>4. Counted(j, r) = Matching(counter.types, data, filter, r)
      <4>. HIDE DEF j
      <4>. QED BY <2>1, <3>1, CategoryIsCounted
    <3>. QED BY <3>2, <3>3, <3>4
  <2>3. CASE r[1] # n
    BY <1>8, <2>1, <2>3 DEF JobCurrent
  <2>. QED BY <2>2, <2>3
<1>. HIDE DEF counts, left, g
<1>9. /\ counter' = [next |-> counter.next, types |-> counter.types, retest |-> counter.retest,
                     drop |-> counter.drop, job |-> g]
  BY <1>2, <1>3 DEF CounterOK, g
<1>10. /\ counter'.next = counter.next /\ counter'.types = counter.types
       /\ counter'.retest = counter.retest /\ counter'.drop = counter.drop /\ counter'.job = g
       /\ counter' = [next |-> counter'.next, types |-> counter'.types, retest |-> counter'.retest,
                      drop |-> counter'.drop, job |-> counter'.job]
  BY <1>9
<1>11. /\ g.filter = j.filter /\ g.snapshot = j.snapshot /\ g.counts = counts /\ g.left = left /\ g.old = j.old
       /\ g = [filter |-> g.filter, snapshot |-> g.snapshot, counts |-> g.counts, left |-> g.left, old |-> g.old]
  BY <1>5
<1>12. Busy(counter')
  BY <1>5, <1>10 DEF Busy
<1>13. JobOK(g)
  BY <1>3, <1>6, <1>11 DEF JobOK
<1>14. ~counter.drop => JobKnown(g, known)
  BY <1>1, <1>3, <1>7, <1>11 DEF CounterOK, JobKnown
<1>15. CounterOK(counter', filter, known)
  <2>. HIDE DEF j
  <2>1. /\ counter.retest \in BOOLEAN /\ counter.drop \in BOOLEAN /\ counter.next = filter
        /\ counter.drop <=> j.old
    BY <1>1, <1>3 DEF CounterOK, j
  <2>. QED BY <1>10, <1>11, <1>12, <1>13, <1>14, <2>1 DEF CounterOK
<1>16. JobCurrent(counter, filter, known, data) => JobCurrent(counter', filter, known, data)
  BY <1>7, <1>8, <1>10, <1>11 DEF JobCurrent
<1>17. StateOK'
  BY <1>1 DEF CountsInv, StateOK
<1>18. CounterInv'
  BY <1>1, <1>10, <1>12, <1>15, <1>16 DEF CountsInv, CounterInv, Quiet
<1>. QED BY <1>17, <1>18 DEF CountsInv

LEMMA EmitKeepsCounts ==
  ASSUME CountsInv, EmitResults
  PROVE  CountsInv'
<1>. DEFINE done == [counter EXCEPT !.drop = FALSE, !.job = Idle]
<1>1. /\ counter # Null /\ Busy(counter) /\ counter.job.left = {}
      /\ shown' = IF counter.drop THEN shown ELSE ProcessCategoryCounts(counter.job.counts)
      /\ counter' = IF counter.retest THEN AsyncCountEntities(done, known, data) ELSE done
      /\ UNCHANGED <<known, data, unnoticed, filter, types, dirty>>
  BY DEF EmitResults, Finish, store
<1>2. CounterOK(counter, filter, known) /\ DOMAIN data \subseteq Entities
  BY <1>1 DEF CountsInv, CounterInv, StateOK
<1>3. DOMAIN shown = Rows(known) /\ shown = [r \in Rows(known) |-> shown[r]]
  BY DEF CountsInv, StateOK
<1>4. /\ shown' = [r \in Rows(known) |-> shown'[r]]
      /\ \A r \in Rows(known) : shown'[r] \in -1 .. Cardinality(Entities)
  <2>1. CASE counter.drop
    BY <1>1, <2>1 DEF CountsInv, StateOK
  <2>2. CASE ~counter.drop
    <3>1. \A r \in DOMAIN counter.job.counts : counter.job.counts[r] \in 0 .. Cardinality(Entities)
      BY <1>1, <1>2 DEF CounterOK, JobOK
    <3>2. -1 \in -1 .. Cardinality(Entities) /\ 0 .. Cardinality(Entities) \subseteq -1 .. Cardinality(Entities)
      BY EntitiesAreFinite
    <3>. QED BY <1>1, <1>3, <2>2, <3>1, <3>2 DEF ProcessCategoryCounts
  <2>. QED BY <2>1, <2>2
<1>5. StateOK'
  BY <1>1, <1>4 DEF CountsInv, StateOK
<1>6. /\ done.next = filter /\ done.types = counter.types /\ done.retest = counter.retest
      /\ done.drop = FALSE /\ done.job = Idle
      /\ done = [next |-> done.next, types |-> done.types, retest |-> done.retest,
                 drop |-> done.drop, job |-> done.job]
  <2>1. /\ DOMAIN counter = {"next", "types", "retest", "drop", "job"}
        /\ counter.next = filter
    BY <1>2 DEF CounterOK
  <2>2. DOMAIN done = DOMAIN counter /\ done = [i \in DOMAIN done |-> done[i]]
    OBVIOUS
  <2>3. /\ done.next = counter.next /\ done.types = counter.types /\ done.retest = counter.retest
        /\ done.drop = FALSE /\ done.job = Idle
    BY <2>1
  <2>. HIDE DEF done
  <2>. QED BY <2>1, <2>2, <2>3
<1>. HIDE DEF done
<1>7. ~Busy(done)
  BY <1>6 DEF Busy
<1>8. CounterOK(done, filter, known)
  BY <1>2, <1>6, <1>7 DEF CounterOK
<1>9. CounterInv'
  <2>1. CASE counter.retest
    <3>1. Served(counter', filter', known', data')
      BY <1>1, <1>2, <1>8, <2>1, RequestIsServed
    <3>. QED BY <3>1, ServedCounter
  <2>2. CASE ~counter.retest
    <3>1. counter' = done
      BY <1>1, <2>2
    <3>2. ASSUME Quiet' PROVE shown' = CountsOf(counter.types, known, data, filter)
      <4>1. Quiet
        BY <1>1, <3>2 DEF Quiet
      <4>2. CASE counter.drop
        BY <1>1, <2>2, <4>1, <4>2 DEF CountsInv, CounterInv
      <4>3. CASE ~counter.drop
        <5>1. JobCurrent(counter, filter, known, data)
          BY <1>1, <2>2, <4>1, <4>3 DEF CountsInv, CounterInv
        <5>2. \A r \in Rows(known) :
                 /\ r \in DOMAIN counter.job.counts
                 /\ counter.job.counts[r] = CountsOf(counter.types, known, data, filter)[r]
          BY <1>1, <5>1 DEF JobCurrent
        <5>3. shown' = [r \in Rows(known) |-> counter.job.counts[r]]
          BY <1>1, <1>3, <4>3, <5>2 DEF ProcessCategoryCounts
        <5>4. CountsOf(counter.types, known, data, filter) =
                [r \in Rows(known) |-> CountsOf(counter.types, known, data, filter)[r]]
          BY DEF CountsOf
        <5>. QED BY <5>2, <5>3, <5>4
      <4>. QED BY <4>2, <4>3
    <3>. QED BY <1>1, <1>6, <1>7, <1>8, <3>1, <3>2 DEF CounterInv
  <2>. QED BY <2>1, <2>2
<1>. QED BY <1>5, <1>9 DEF CountsInv

-----------------------------------------------------------------------------
(* Theorems.                                                                 *)

LEMMA CountsInvHolds == Spec => []CountsInv
<1>1. Init => CountsInv
  BY InitKeepsCounts
<1>2. CountsInv /\ [Next]_vars => CountsInv'
  <2>. SUFFICES ASSUME CountsInv, [Next]_vars PROVE CountsInv'
    OBVIOUS
  <2>1. CASE \E e \in Entities, n \in Names, v \in Values : Insert(e, n, v)
    BY <2>1, InsertKeepsCounts
  <2>2. CASE \E e \in Entities, n \in Names, v \in Items : TimeMoves(e, n, v)
    BY <2>2, TimeMovesKeepsCounts
  <2>3. CASE \E e \in Entities : AddEntity(e)
    BY <2>3, AddKeepsCounts
  <2>4. CASE \E e \in Entities : RemoveEntity(e)
    BY <2>4, RemoveKeepsCounts
  <2>5. CASE \E f \in Filters : SetFilter(f)
    BY <2>5, SetFilterKeepsCounts
  <2>6. CASE \E ts \in {All} \cup {{t} : t \in All} : SetEntityCountObjectTypes(ts)
    BY <2>6, SetTypesKeepsCounts
  <2>7. CASE Clear
    BY <2>7, ClearKeepsCounts
  <2>8. CASE SetShowEntityCount
    BY <2>8, SetShowKeepsCounts
  <2>9. CASE UpdateStore
    BY <2>9, UpdateStoreKeepsCounts
  <2>10. CASE RecountCategories
    BY <2>10, RecountKeepsCounts
  <2>11. CASE Work
    BY <2>11, WorkKeepsCounts
  <2>12. CASE EmitResults
    BY <2>12, EmitKeepsCounts
  <2>13. CASE UNCHANGED vars
    BY <2>13 DEF vars, CountsInv, StateOK, CounterInv, Quiet
  <2>. QED
    BY <2>1, <2>2, <2>3, <2>4, <2>5, <2>6, <2>7, <2>8, <2>9, <2>10, <2>11, <2>12, <2>13
       DEF Next, Users, System
<1>. QED BY <1>1, <1>2, PTL DEF Spec

\* Nothing is dropped but the results of a job that was running when the tree
\* was reset, and those always (AsyncCategoryCounter::reset, emitResults_); the
\* rows of the tree are those of the name manager.
THEOREM DropsAlwaysOldOnly == Spec => []WellFormed
<1>1. CountsInv => WellFormed
  <2>. SUFFICES ASSUME CountsInv PROVE WellFormed
    OBVIOUS
  <2>1. DOMAIN shown = Rows(known) /\ Range(shown) \subseteq -1 .. Cardinality(Entities)
    BY DEF CountsInv, StateOK, Range
  <2>2. TypeOK
    BY <2>1 DEF TypeOK, CountsInv, StateOK, CounterInv, CounterOK
  <2>3. DropsOnlyOld
    BY DEF DropsOnlyOld, CountsInv, CounterInv, CounterOK
  <2>. QED BY <2>2, <2>3 DEF WellFormed
<1>. QED BY <1>1, CountsInvHolds, PTL

\* No request is lost: whenever no count runs and no change waits to be
\* noticed, the counts beside the values are those of the store and the filter,
\* whatever edits, resets and requests came while a count was running.
THEOREM IdleAlwaysCurrent == Spec => []IdleIsCurrent
<1>1. CountsInv => IdleIsCurrent
  <2>. SUFFICES ASSUME CountsInv PROVE IdleIsCurrent
    OBVIOUS
  <2>1. \A ts : Expected(ts) = CountsOf(ts, known, data, filter)
    BY DEF Expected, CountsOf, Matching
  <2>. QED BY <2>1 DEF IdleIsCurrent, CountsInv, CounterInv, Quiet
<1>. QED BY <1>1, CountsInvHolds, PTL
=============================================================================
