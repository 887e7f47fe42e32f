---------------------------- MODULE MemoryTable ----------------------------
(* A data table in memory.  The columns that have cells at the same times    *)
(* share a subtable, which holds the times once; a row that gives a cell to  *)
(* some of them splits it.  Times and values sit in two bins: rows go to the *)
(* fresh one, and limiting drops the stale one and ages the other.           *)
EXTENDS Integers, FiniteSetsExt, SequencesExt

CONSTANTS MaxColumns,     \* bound: columns added over the life of the table
          Time, Value,
          LimitChoices    \* the owner's data limits: points and seconds, 0 is none

ASSUME TableAssumption ==
  /\ MaxColumns \in Nat /\ Time \subseteq Nat \ {0}
  /\ LimitChoices \subseteq [points : Nat, window : Nat]

VARIABLES limits,
          subtables,    \* subtables_: their columns, and per bin the position of each time
          columns,      \* columns_: the subtable of each column, 0 for no column
          data,         \* of each column, its values per bin
          nextId,       \* nextId_
          endTime       \* endTime_

vars == <<limits, subtables, columns, data, nextId, endTime>>

Column   == 1 .. MaxColumns
Bins     == {"stale", "fresh"}
NoTimes  == [t \in {} |-> 0]
NoValues == [stale |-> <<>>, fresh |-> <<>>]
Row      == UNION {[named -> Value] : named \in SUBSET Column \ {{}}}

NewSubTable(owned) == [columns |-> owned, stale |-> NoTimes, fresh |-> NoTimes]
TimesOf(s)         == DOMAIN s.stale \cup DOMAIN s.fresh
RowCount(s)        == Cardinality(DOMAIN s.stale) + Cardinality(DOMAIN s.fresh)
Size(values)       == Len(values.stale) + Len(values.fresh)
BinOf(s, t)        == IF t \in DOMAIN s.stale THEN "stale" ELSE "fresh"

\* How many of a set of numbers are below x, and the n-th of them.
Rank(S, x) == Cardinality({y \in S : y < x})
Nth(S, n)  == CHOOSE x \in S : Rank(S, x) = n - 1

Init ==
  /\ limits \in LimitChoices
  /\ subtables = <<>>
  /\ columns = [c \in Column |-> 0]
  /\ data = [c \in Column |-> NoValues]
  /\ nextId = 1
  /\ endTime = -1

-----------------------------------------------------------------------------
(* Columns.  A new column goes to a subtable without rows, if there is one.  *)

AddColumn ==
  LET empty == {i \in DOMAIN subtables : TimesOf(subtables[i]) = {}}
      home  == IF empty = {} THEN Len(subtables) + 1 ELSE Min(empty)
  IN /\ nextId <= MaxColumns
     /\ columns' = [columns EXCEPT ![nextId] = home]
     /\ subtables' = IF empty = {} THEN Append(subtables, NewSubTable({nextId}))
                     ELSE [subtables EXCEPT ![home].columns = @ \cup {nextId}]
     /\ nextId' = nextId + 1
     /\ UNCHANGED <<limits, data, endTime>>

RemoveColumn(c) ==
  LET rest == [subtables[columns[c]] EXCEPT !.columns = @ \ {c}]
  IN /\ columns[c] # 0
     /\ subtables' = [subtables EXCEPT
                       ![columns[c]] = IF rest.columns = {} THEN NewSubTable({}) ELSE rest]
     /\ columns' = [columns EXCEPT ![c] = 0]
     /\ data' = [data EXCEPT ![c] = NoValues]
     /\ UNCHANGED <<limits, nextId, endTime>>

-----------------------------------------------------------------------------
(* A row.  Each subtable it touches gets the time, each column it names the  *)
(* value; the columns of such a subtable that were not named then lack a     *)
(* cell and move to a subtable of their own, which never had the time.       *)

FindOrAddTime(s, t) ==
  IF t \in TimesOf(s) THEN s
  ELSE [s EXCEPT !.fresh = [u \in DOMAIN @ \cup {t} |->
                             IF u = t THEN Cardinality(DOMAIN @) + 1 ELSE @[u]]]

\* mutant: a cell is replaced in the bin that new rows go to
SetCellFresh(values, s, t, v) ==
  IF t \notin TimesOf(s) THEN [values EXCEPT !.fresh = Append(@, v)]
  ELSE [values EXCEPT !.fresh = IF s[BinOf(s, t)][t] <= Len(@)
                                THEN [@ EXCEPT ![s[BinOf(s, t)][t]] = v] ELSE @]

(* "s" is the subtable before the time was added.                            *)
SetCell(values, s, t, v) ==
  IF t \notin TimesOf(s)
  THEN [values EXCEPT !.fresh =
         InsertAt(@, Min({Cardinality(DOMAIN s.fresh) + 1, Len(@) + 1}), v)]
  ELSE [values EXCEPT ![BinOf(s, t)][s[BinOf(s, t)][t]] = v]

EraseTime(s, t) ==
  LET bin == IF t \in DOMAIN s.fresh THEN "fresh" ELSE "stale"
  IN [s EXCEPT ![bin] = [u \in DOMAIN @ \ {t} |-> IF @[u] > @[t] THEN @[u] - 1 ELSE @[u]]]

Lacking(s, values) == {c \in s.columns : Size(values[c]) # RowCount(s)}

Splits(s, values) == Cardinality(s.columns) >= 2 /\ Lacking(s, values) # {}

\* mutant: the bins are swapped when one of them holds the limit
LimitNotHalved(s, latestInvalid) ==
  /\ TimesOf(s) # {}
  /\ \/ limits.points > 0 /\ Cardinality(DOMAIN s.fresh) >= limits.points
     \/ DOMAIN s.fresh # {} /\ latestInvalid > 0 /\ Min(DOMAIN s.fresh) < latestInvalid

LimitSwaps(s, latestInvalid) ==
  /\ TimesOf(s) # {}
  /\ \/ limits.points > 0 /\ Cardinality(DOMAIN s.fresh) >= (limits.points + 1) \div 2
     \/ DOMAIN s.fresh # {} /\ latestInvalid > 0 /\ Min(DOMAIN s.fresh) < latestInvalid

Swapped(s) == [s EXCEPT !.stale = s.fresh, !.fresh = NoTimes]

SwappedData(values) == [stale |-> values.fresh, fresh |-> <<>>]

(* The cells before the first of an unknown column, taken in the order of    *)
(* the columns.  A row visits them in the order they were set, and another   *)
(* order leaves another set of known cells: the same as a smaller row does.  *)
Known(row) == {c \in DOMAIN row : \A d \in DOMAIN row : d <= c => columns[d] # 0}

Grown(t, touched) ==
  [i \in DOMAIN subtables |-> IF i \in touched THEN FindOrAddTime(subtables[i], t) ELSE subtables[i]]

Written(t, row, known) ==
  [c \in Column |-> IF c \in known THEN SetCell(data[c], subtables[columns[c]], t, row[c]) ELSE data[c]]

(* The subtables after those in "order" were split one after the other.      *)
SplitUp(grown, written, order, t) ==
  [i \in DOMAIN grown |->
     IF i \in Range(order) THEN [grown[i] EXCEPT !.columns = @ \ Lacking(grown[i], written)]
     ELSE grown[i]]
  \o [k \in DOMAIN order |->
        [EraseTime(grown[order[k]], t) EXCEPT !.columns = Lacking(grown[order[k]], written)]]

HomeIn(tables, c) ==
  IF \E i \in DOMAIN tables : c \in tables[i].columns
  THEN CHOOSE i \in DOMAIN tables : c \in tables[i].columns ELSE 0

LatestInvalid(end) == IF limits.window > 0 THEN end - limits.window ELSE 0

AddRow(t, row) ==
  LET touched == {columns[c] : c \in Known(row)}
      end     == Max({endTime, t})
  IN \E grown \in {Grown(t, touched)}, written \in {Written(t, row, Known(row))} :
     \E order \in SetToSeqs({i \in touched : Splits(grown[i], written)}) :  \* it is unspecified
     \E all \in {SplitUp(grown, written, order, t)} :
     \E limited \in {{i \in DOMAIN all : LimitSwaps(all[i], LatestInvalid(end))}} :
       /\ subtables' = [i \in DOMAIN all |-> IF i \in limited THEN Swapped(all[i]) ELSE all[i]]
       /\ columns' = [c \in Column |-> HomeIn(all, c)]
       /\ data' = [c \in Column |->
                    IF columns'[c] \in limited THEN SwappedData(written[c]) ELSE written[c]]
       /\ endTime' = end
       /\ UNCHANGED <<limits, nextId>>

SetValue(c, t, v) ==
  /\ columns[c] # 0 /\ t \in TimesOf(subtables[columns[c]])
  /\ LET s == subtables[columns[c]]
     IN data' = [data EXCEPT ![c][BinOf(s, t)][s[BinOf(s, t)][t]] = v]
  /\ UNCHANGED <<limits, subtables, columns, nextId, endTime>>

-----------------------------------------------------------------------------
(* Iterators.  One stands between two times of each bin, after "stale" and   *)
(* "fresh" of them, and knows the bin that holds the next time.              *)

Other(bin)         == IF bin = "stale" THEN "fresh" ELSE "stale"
AtEnd(s, it, bin)  == it[bin] = Cardinality(DOMAIN s[bin])
Ahead(s, it, bin)  == Nth(DOMAIN s[bin], it[bin] + 1)
Behind(s, it, bin) == Nth(DOMAIN s[bin], it[bin])
HasNext(s, it) == ~(AtEnd(s, it, "stale") /\ AtEnd(s, it, "fresh"))
HasPrevious(it) == it.stale > 0 \/ it.fresh > 0

End(s) == [bin |-> "fresh", stale |-> Cardinality(DOMAIN s.stale),
           fresh |-> Cardinality(DOMAIN s.fresh)]

LowerBound(s, t) ==
  LET it == [bin |-> "fresh", stale |-> Rank(DOMAIN s.stale, t), fresh |-> Rank(DOMAIN s.fresh, t)]
  IN IF AtEnd(s, it, "stale") THEN it
     ELSE IF AtEnd(s, it, "fresh") \/ Ahead(s, it, "stale") < Ahead(s, it, "fresh")
     THEN [it EXCEPT !.bin = "stale"] ELSE it

\* mutant: the other bin is looked at only when this one is used up
NextInBin(s, it) ==
  LET moved == [it EXCEPT ![it.bin] = @ + 1]
  IN IF AtEnd(s, it, it.bin) THEN it
     ELSE IF AtEnd(s, moved, it.bin) THEN [moved EXCEPT !.bin = Other(it.bin)] ELSE moved

NextRow(s, it) ==
  LET moved == [it EXCEPT ![it.bin] = @ + 1]
      other == Other(it.bin)
  IN IF AtEnd(s, it, it.bin) THEN it
     ELSE IF \/ AtEnd(s, moved, it.bin)
             \/ ~AtEnd(s, moved, other) /\ Ahead(s, moved, it.bin) > Ahead(s, moved, other)
     THEN [moved EXCEPT !.bin = other] ELSE moved

Previous(s, it) ==
  LET bin == IF it.fresh = 0 \/ (it.stale > 0 /\ Behind(s, it, "stale") > Behind(s, it, "fresh"))
             THEN "stale" ELSE "fresh"
  IN IF HasPrevious(it) THEN [it EXCEPT ![bin] = @ - 1, !.bin = bin] ELSE it

(* The time of peekNext(), 0 for the invalid value.                          *)
PeekNext(s, it) == IF AtEnd(s, it, it.bin) THEN 0 ELSE Ahead(s, it, it.bin)

FindTimeAtOrBefore(s, t) ==
  LET it == LowerBound(s, t)
  IN IF HasNext(s, it) /\ PeekNext(s, it) = t THEN it
     ELSE IF HasPrevious(it) THEN Previous(s, it) ELSE End(s)

(* The times a visitor of the subtable meets from "start" on.                *)
Visited(s, start) ==
  LET it[n \in 0 .. RowCount(s)] ==
        IF n = 0 THEN LowerBound(s, start) ELSE NextRow(s, it[n - 1])
      last == Min({n \in DOMAIN it : n = RowCount(s) \/ ~HasNext(s, it[n])})
  IN [n \in 1 .. last |-> PeekNext(s, it[n - 1])]

(* Those met on the way back from the end.                                   *)
VisitedBack(s) ==
  LET it[n \in 0 .. RowCount(s)] == IF n = 0 THEN End(s) ELSE Previous(s, it[n - 1])
      last == Min({n \in DOMAIN it : n = RowCount(s) \/ ~HasPrevious(it[n])})
  IN [n \in 1 .. last |-> PeekNext(s, it[n])]

-----------------------------------------------------------------------------
(* Flushing: all columns, one column, or the rows of a range of times.       *)

FlushAll ==
  /\ subtables' = [i \in DOMAIN subtables |-> NewSubTable(subtables[i].columns)]
  /\ data' = [c \in Column |-> NoValues]
  /\ UNCHANGED <<limits, columns, nextId, endTime>>

FlushColumn(c) ==
  LET s == subtables[columns[c]]
  IN /\ columns[c] # 0
     /\ IF s.columns = {c}
        THEN subtables' = [subtables EXCEPT ![columns[c]] = NewSubTable({c})] /\ UNCHANGED columns
        ELSE /\ subtables' = Append([subtables EXCEPT ![columns[c]].columns = @ \ {c}],
                                    NewSubTable({c}))
             /\ columns' = [columns EXCEPT ![c] = Len(subtables) + 1]
     /\ data' = [data EXCEPT ![c] = NoValues]
     /\ UNCHANGED <<limits, nextId, endTime>>

(* Positions are erased by ranges <<first, last>>: one if there are no gaps, *)
(* and otherwise, as the end of a range is compared with its first position, *)
(* runs of positions are cut into ranges of two.                             *)
RunStart(positions, p) == Min({a \in positions : a .. p \subseteq positions})

Ranges(positions) ==
  IF positions = {} THEN {}
  ELSE IF Cardinality(positions) = Max(positions) - Min(positions) + 1
  THEN {<<Min(positions), Max(positions)>>}
  ELSE {<<p, IF p + 1 \in positions THEN p + 1 ELSE p>> :
          p \in {q \in positions : (q - RunStart(positions, q)) % 2 = 0}}

Below(ranges, p) == Cardinality(UNION {r[1] .. r[2] : r \in {q \in ranges : q[2] < p}})

Flushed(bin, start, end) == {t \in DOMAIN bin : start <= t /\ t < end}

\* mutant: a range counts as one position
FlushOneEach(bin, start, end) ==
  LET gone   == Flushed(bin, start, end)
      ranges == Ranges({bin[t] : t \in gone})
  IN [t \in DOMAIN bin \ gone |-> bin[t] - Cardinality({r \in ranges : r[2] < bin[t]})]

FlushTimes(bin, start, end) ==
  LET gone   == Flushed(bin, start, end)
      ranges == Ranges({bin[t] : t \in gone})
  IN [t \in DOMAIN bin \ gone |-> bin[t] - Below(ranges, bin[t])]

FlushValues(values, bin, start, end) ==
  LET ranges == Ranges({bin[t] : t \in Flushed(bin, start, end)})
      kept   == DOMAIN values \ UNION {r[1] .. r[2] : r \in ranges}
  IN [n \in 1 .. Cardinality(kept) |-> values[Nth(kept, n)]]

FlushRange(start, end) ==
  /\ subtables' = [i \in DOMAIN subtables |->
                    [subtables[i] EXCEPT !.stale = FlushTimes(@, start, end),
                                         !.fresh = FlushTimes(@, start, end)]]
  /\ data' = [c \in Column |->
               IF columns[c] = 0 THEN data[c]
               ELSE LET s == subtables[columns[c]]
                    IN [stale |-> FlushValues(data[c].stale, s.stale, start, end),
                        fresh |-> FlushValues(data[c].fresh, s.fresh, start, end)]]
  /\ endTime' = Max({-1} \cup {PeekNext(s, Previous(s, End(s))) :
                               s \in {q \in Range(subtables') : TimesOf(q) # {}}})
  /\ UNCHANGED <<limits, columns, nextId>>

Next ==
  \/ AddColumn
  \/ \E c \in Column : RemoveColumn(c) \/ FlushColumn(c)
  \/ \E t \in Time, row \in Row : AddRow(t, row)
  \/ \E c \in Column, t \in Time, v \in Value : SetValue(c, t, v)
  \/ FlushAll
  \/ \E start \in Time, end \in {t + 1 : t \in Time} : start < end /\ FlushRange(start, end)

Spec == Init /\ [][Next]_vars

-----------------------------------------------------------------------------
(* Every variable holds a value the code can give it.                        *)
TypeOK ==
  /\ limits \in LimitChoices /\ nextId \in 1 .. MaxColumns + 1
  /\ endTime \in Time \cup {-1}
  /\ columns \in [Column -> 0 .. Len(subtables)]
  /\ \A s \in Range(subtables) : s.columns \subseteq Column /\ TimesOf(s) \subseteq Time
  /\ \A c \in Column, bin \in Bins : Range(data[c][bin]) \subseteq Value

(* A subtable has no null cells: columns_ and the subtables agree on where   *)
(* each column is, a time is in one bin, and in each bin every column has    *)
(* one value per time, the positions being all of those there are (the       *)
(* assumption of every read, and of the comparison that detects a split).    *)
NullLess ==
  \A i \in DOMAIN subtables :
    LET s == subtables[i]
    IN /\ s.columns = {c \in Column : columns[c] = i}
       /\ DOMAIN s.stale \cap DOMAIN s.fresh = {}
       /\ \A bin \in Bins :
            /\ Range(s[bin]) = 1 .. Cardinality(DOMAIN s[bin])
            /\ \A c \in s.columns : Len(data[c][bin]) = Cardinality(DOMAIN s[bin])

(* The state is one the code can give, without null cells.                   *)
WellFormed == TypeOK /\ NullLess

(* A limit of n points holds for every column, though it is applied to half  *)
(* of the bins' content at a time and the columns are limited apart.         *)
WithinLimit ==
  limits.points > 0 => \A c \in Column : Size(data[c]) <= limits.points

(* An iterator over the two bins of a subtable meets every row from its      *)
(* start on once and in the order of time, as accept() and the split views   *)
(* of a table rely on, and on its way back every row in the other order; a   *)
(* step there and back leaves it before the same row; and it finds the last  *)
(* row at or before any time.                                                *)
ReadsInOrder ==
  \A s \in Range(subtables), t \in Time :
    LET before == {u \in TimesOf(s) : u <= t}
        rows   == Visited(s, t)
        back   == VisitedBack(s)
        it     == LowerBound(s, t)
    IN /\ Range(rows) = {u \in TimesOf(s) : u >= t}
       /\ \A m, n \in DOMAIN rows : m < n => rows[m] < rows[n]
       /\ Range(back) = TimesOf(s)
       /\ \A m, n \in DOMAIN back : m < n => back[m] > back[n]
       /\ HasNext(s, it) => PeekNext(s, Previous(s, NextRow(s, it))) = PeekNext(s, it)
       /\ HasPrevious(it) => PeekNext(s, NextRow(s, Previous(s, it))) = PeekNext(s, it)
       /\ PeekNext(s, FindTimeAtOrBefore(s, t)) = IF before = {} THEN 0 ELSE Max(before)

(* The cells of a column, wherever they are stored.                          *)
CellsOf(c) ==
  IF columns[c] = 0 THEN NoTimes
  ELSE LET s == subtables[columns[c]]
       IN [t \in TimesOf(s) |-> data[c][BinOf(s, t)][s[BinOf(s, t)][t]]]

Contract == INSTANCE TimeTable WITH
  columns <- {c \in Column : columns[c] # 0}, cells <- [c \in Column |-> CellsOf(c)]

(* Bins, subtables and their splits are invisible: every operation of the    *)
(* table is one of a TimeTable, or changes nothing its users see.            *)
ImplementsTimeTable == Contract!Spec
=============================================================================
