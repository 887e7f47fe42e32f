----------------------------- MODULE TimeTable -----------------------------
(* What a data table promises its users, apart from how it is stored: every  *)
(* column maps times to values; rows come in any order of time and set the   *)
(* cells they name; limiting drops cells as rows are added and nothing else. *)
EXTENDS Integers, FiniteSets, Functions

CONSTANTS Column,         \* the ids of columns
          Time, Value,
          LimitChoices    \* the owner's data limits: points and seconds, 0 is none

VARIABLES limits,     \* the limits of the table's owner
          columns,    \* the columns of the table
          cells       \* of every column, its values by time

vars == <<limits, columns, cells>>

NoCells == [t \in {} |-> 0]

WithCell(column, t, v) == [u \in DOMAIN column \cup {t} |-> IF u = t THEN v ELSE column[u]]

TypeOK ==
  /\ limits \in LimitChoices /\ columns \subseteq Column
  /\ \A c \in Column : DOMAIN cells[c] \subseteq Time /\ Range(cells[c]) \subseteq Value

Init ==
  /\ limits \in LimitChoices
  /\ columns = {}
  /\ cells = [c \in Column |-> NoCells]

AddColumn ==
  \E c \in Column \ columns : columns' = columns \cup {c} /\ UNCHANGED <<limits, cells>>

RemoveColumn ==
  \E c \in columns :
    /\ columns' = columns \ {c}
    /\ cells' = [cells EXCEPT ![c] = NoCells]
    /\ UNCHANGED limits

(* Limiting leaves cells as they are or drops them.  It never empties a      *)
(* column, and a limit of n points alone keeps n \div 2 of them, rounded up. *)
Trimmed(full, kept) ==
  /\ DOMAIN kept \subseteq DOMAIN full /\ kept = Restrict(full, DOMAIN kept)
  /\ limits.points = 0 /\ limits.window = 0 => kept = full
  /\ full # NoCells => kept # NoCells
  /\ limits.window = 0 /\ kept # full =>
       Cardinality(DOMAIN kept) >= (limits.points + 1) \div 2

(* A row gives cells at one time to some of the columns, new or not.         *)
AddRow ==
  \E t \in Time, written \in SUBSET columns, old \in {cells}, new \in {cells'} :
    /\ DOMAIN new = Column
    /\ \A c \in Column \ written : Trimmed(old[c], new[c])
    /\ \A c \in written : \E v \in Value : Trimmed(WithCell(old[c], t, v), new[c])
    /\ UNCHANGED <<limits, columns>>

(* The value of a cell is changed through an iterator of its column.         *)
SetValue ==
  \E c \in columns : \E t \in DOMAIN cells[c], v \in Value :
    /\ cells' = [cells EXCEPT ![c][t] = v]
    /\ UNCHANGED <<limits, columns>>

Flush ==
  \E flushed \in {columns} \cup {{c} : c \in columns} :
    /\ cells' = [c \in Column |-> IF c \in flushed THEN NoCells ELSE cells[c]]
    /\ UNCHANGED <<limits, columns>>

FlushRange ==
  \E start \in Time, end \in {t + 1 : t \in Time} :
    /\ cells' = [c \in Column |->
                  Restrict(cells[c], {t \in DOMAIN cells[c] : ~(start <= t /\ t < end)})]
    /\ UNCHANGED <<limits, columns>>

Next == AddColumn \/ RemoveColumn \/ AddRow \/ SetValue \/ Flush \/ FlushRange

Spec == Init /\ [][Next]_vars
=============================================================================
