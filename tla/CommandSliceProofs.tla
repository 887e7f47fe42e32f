--------------------------- MODULE CommandSliceProofs ---------------------------
(* Proofs about CommandSlice, for every set of times, settings and commands,   *)
(* every limit and every bound on the commands.                                *)
(*                                                                             *)
(* The command state is a fold over the commands, which an induction over      *)
(* their number relates to the last command that speaks of a field: AdvanceIs. *)
(* While no command was inserted at or before the last executed one, the       *)
(* command state is that of the commands up to it, although more of them may   *)
(* have come since: ReplayInv, and FollowInv for the preferences.  The range   *)
(* of the cache lies between two commands that are neighbours: RangeInv.       *)
EXTENDS CommandSlice, TimeSetsProofs, SequenceTheorems, FiniteSetTheorems

\* The values that the repeated field of one source has
Repeated == {q.acceptprojectorids : q \in FieldSpace \cup ClearSpace \cup {Empty}}
Sources  == {p \in Preferences : p.acceptprojectorids \in Repeated}
Entries  == [time : CommandTimes, clear : BOOLEAN, sets : Sources \ {Empty}]
States   == [cache : Sources, prefs : Sources]

InOrder(s) == \A i, j \in 1 .. Len(s) : i < j => s[i].time <= s[j].time

\* The number of commands of s at or before t, and before t
Through(s, t) == Cardinality({i \in DOMAIN s : s[i].time <= t})
Before(s, t)  == Cardinality({i \in DOMAIN s : s[i].time < t})

\* Command i speaks of field f, and is the last of the first n to do so.
Speaks(s, f, i)      == s[i].sets[f] # Empty[f]
LastOf(s, f, n, i)   == i \in 1 .. n /\ Speaks(s, f, i) /\ \A j \in 1 .. n : i < j => ~Speaks(s, f, j)
Silent(s, f, n)      == \A i \in 1 .. n : ~Speaks(s, f, i)

\* What a command that speaks leaves a field at
Left(s, f, i) == IF s[i].clear THEN Empty[f] ELSE s[i].sets[f]

\* The first n commands leave field f at v.
Says(s, f, n, v) ==
  \/ Silent(s, f, n) /\ v = Empty[f]
  \/ \E i \in 1 .. n : LastOf(s, f, n, i) /\ v = Left(s, f, i)

DataInv ==
  /\ commands \in Seq(Entries) /\ InOrder(commands) /\ Len(commands) <= MaxCommands
  /\ cache \in Sources /\ prefs \in Sources
  /\ executed \in CommandTimes \cup {Never}
  /\ earliest \in CommandTimes \cup {MaxDouble}
  /\ changed \in BOOLEAN /\ hasChanged \in BOOLEAN
  /\ range \in [lo : -1 .. MaxDouble, hi : Never .. MaxDouble]
  /\ now \in Times \cup {0}

\* A range that is set lies around the current time, between two neighbours, the
\* first of which is the last executed command or replaces it.
RangeInv ==
  range # NoRange =>
    /\ range.lo <= now /\ now < range.hi /\ earliest = MaxDouble
    /\ \A i \in 1 .. Len(commands) : commands[i].time <= range.lo \/ range.hi <= commands[i].time
    /\ \/ range.lo = -1 /\ executed = Never
       \/ /\ range.lo <= executed /\ executed < range.hi
          /\ \E i \in 1 .. Len(commands) : commands[i].time = range.lo

SettledInv == Settled => earliest = MaxDouble /\ Through(commands, executed) = Through(commands, now)

ReplayInv ==
  earliest > executed =>
    \A f \in Fields : Says(commands, f, Through(commands, executed), cache[f])

FollowInv ==
  earliest > executed =>
    \A f \in Fields : \/ Silent(commands, f, Through(commands, executed))
                      \/ Says(commands, f, Through(commands, executed), prefs[f])

-----------------------------------------------------------------------------
(* Constants, fields and commands                                            *)

LEMMA TimesBounded ==
  /\ MaxDouble \in Nat /\ MaxCommands \in Nat /\ LimitPoints \in Nat /\ Never = -2
  /\ \A t \in Times \cup CommandTimes \cup {0} : t \in Int /\ 0 <= t
  /\ \A t \in Times \cup CommandTimes : t < MaxDouble
  BY TimesAssumption, MaxAssumption, LimitAssumption DEF Never

LEMMA EmptyIs ==
  /\ Empty \in Preferences /\ Empty \in Sources
  /\ Empty["datadraw"] = Unset /\ Empty["acceptprojectorids"] = << >>
<1>1. << >> \in Seq(Nat)
  OBVIOUS
<1>2. Empty["datadraw"] = Unset /\ Empty["acceptprojectorids"] = << >>
  BY DEF Empty
<1>3. Empty \in Preferences
  BY <1>1 DEF Empty, Preferences
<1>4. Empty.acceptprojectorids \in Repeated
  BY DEF Repeated
<1>. QED BY <1>2, <1>3, <1>4 DEF Sources

\* The settings of a command come from one source.
LEMMA SpaceIs == \A p \in FieldSpace \cup ClearSpace : p \in Sources \ {Empty}
<1>1. \A p \in FieldSpace \cup ClearSpace : p \in Preferences /\ p # Empty
  BY FieldAssumption
<1>2. \A p \in FieldSpace \cup ClearSpace : p.acceptprojectorids \in Repeated
  BY DEF Repeated
<1>. QED BY <1>1, <1>2 DEF Sources

LEMMA CommandsIs == Commands \subseteq Entries
  BY SpaceIs DEF Commands, Entries

\* Setting fields replaces those that are set, the repeated one as well.
LEMMA OverrideIs ==
  ASSUME NEW p \in Sources, NEW q \in Sources
  PROVE  /\ Override(p, q) \in Sources
         /\ \A f \in Fields : Override(p, q)[f] = IF q[f] = Empty[f] THEN p[f] ELSE q[f]
         /\ q # Empty => Override(p, q) # Empty
<1>. DEFINE d == IF q.datadraw = Unset THEN p.datadraw ELSE q.datadraw
            a == IF q.acceptprojectorids = << >> THEN p.acceptprojectorids ELSE q.acceptprojectorids
<1>1. /\ p.datadraw \in {Unset, "on", "off"} /\ p.acceptprojectorids \in Seq(Nat) /\ p.acceptprojectorids \in Repeated
      /\ q.datadraw \in {Unset, "on", "off"} /\ q.acceptprojectorids \in Seq(Nat) /\ q.acceptprojectorids \in Repeated
  BY DEF Sources, Preferences
<1>2. \A u, v \in Seq(Nat) : u \o << >> = u /\ << >> \o v = v
  OBVIOUS
<1>3. Override(p, q) = [datadraw |-> d, acceptprojectorids |-> a]
  <2>. DEFINE r == [p EXCEPT !.acceptprojectorids = << >>]
  <2>1. r.datadraw = p.datadraw /\ r.acceptprojectorids = << >>
    BY DEF Sources, Preferences
  <2>. HIDE DEF r
  <2>2. CASE q.acceptprojectorids = << >>
    <3>1. Override(p, q) = MergeFrom(p, q)
      BY <2>2 DEF Override, ConditionalClearRepeatedFields
    <3>2. p.acceptprojectorids \o q.acceptprojectorids = p.acceptprojectorids
      BY <1>1, <1>2, <2>2
    <3>. QED BY <2>2, <3>1, <3>2 DEF MergeFrom
  <2>3. CASE q.acceptprojectorids # << >>
    <3>1. Override(p, q) = MergeFrom(r, q)
      BY <2>3 DEF Override, ConditionalClearRepeatedFields, r
    <3>2. r.acceptprojectorids \o q.acceptprojectorids = q.acceptprojectorids
      BY <1>1, <1>2, <2>1
    <3>. QED BY <2>1, <2>3, <3>1, <3>2 DEF MergeFrom
  <2>. QED BY <2>2, <2>3
<1>4. d \in {Unset, "on", "off"} /\ a \in Seq(Nat) /\ a \in Repeated
  BY <1>1
<1>5. Override(p, q) \in Sources
  BY <1>3, <1>4 DEF Sources, Preferences
<1>6. /\ Override(p, q)["datadraw"] = d /\ Override(p, q)["acceptprojectorids"] = a
  BY <1>3
<1>7. \A f \in Fields : Override(p, q)[f] = IF q[f] = Empty[f] THEN p[f] ELSE q[f]
  BY <1>6, EmptyIs DEF Fields
<1>8. q # Empty => Override(p, q) # Empty
  <2>1. q # Empty => \E f \in Fields : q[f] # Empty[f]
    <3>1. q \in Preferences /\ Empty \in Preferences
      BY EmptyIs DEF Sources
    <3>. QED BY <3>1 DEF Fields, Preferences
  <2>. QED BY <1>7, <2>1
<1>. QED BY <1>5, <1>7, <1>8

\* Clearing fields empties those that are named.
LEMMA WithoutIs ==
  ASSUME NEW p \in Sources, NEW q \in Sources
  PROVE  /\ Without(p, q) \in Sources
         /\ \A f \in Fields : Without(p, q)[f] = IF q[f] = Empty[f] THEN p[f] ELSE Empty[f]
<1>1. p \in Preferences /\ p.acceptprojectorids \in Repeated /\ Empty.acceptprojectorids \in Repeated
  BY EmptyIs DEF Sources
<1>2. \A f \in Fields : Without(p, q)[f] = IF q[f] = Empty[f] THEN p[f] ELSE Empty[f]
  BY DEF Without
<1>3. Without(p, q) \in Preferences
  BY <1>1, EmptyIs DEF Without, Fields, Preferences
<1>4. Without(p, q).acceptprojectorids \in Repeated
  BY <1>1, <1>2 DEF Fields
<1>. QED BY <1>2, <1>3, <1>4 DEF Sources

\* The commands of a sequence and their times
LEMMA EntryIs ==
  ASSUME NEW s \in Seq(Entries)
  PROVE  /\ Len(s) \in Nat /\ DOMAIN s = 1 .. Len(s)
         /\ \A i \in 1 .. Len(s) :
              /\ s[i] \in Entries /\ s[i].time \in CommandTimes /\ s[i].clear \in BOOLEAN
              /\ s[i].sets \in Sources /\ s[i].sets # Empty
              /\ s[i].time \in Int /\ 0 <= s[i].time /\ s[i].time < MaxDouble
<1>1. \A i \in 1 .. Len(s) : s[i] \in Entries
  OBVIOUS
<1>2. \A i \in 1 .. Len(s) : /\ s[i].time \in CommandTimes /\ s[i].clear \in BOOLEAN
                             /\ s[i].sets \in Sources /\ s[i].sets # Empty
  BY <1>1 DEF Entries
<1>. QED BY <1>1, <1>2, TimesBounded

-----------------------------------------------------------------------------
(* Commands in order of time                                                 *)

\* The number of the commands at or before a time is the place where they end.
LEMMA ThroughIs ==
  ASSUME NEW s \in Seq(Entries), InOrder(s), NEW t \in Int, NEW k \in 0 .. Len(s),
         k > 0 => s[k].time <= t, k < Len(s) => s[k + 1].time > t
  PROVE  Through(s, t) = k /\ \A i \in 1 .. Len(s) : s[i].time <= t <=> i <= k
<1>1. /\ Len(s) \in Nat /\ DOMAIN s = 1 .. Len(s) /\ \A i \in 1 .. Len(s) : s[i].time \in Int
  BY EntryIs
<1>2. ASSUME NEW i \in 1 .. Len(s) PROVE s[i].time <= t <=> i \in 1 .. k
  <2>1. CASE i <= k
    <3>1. k \in 1 .. Len(s) /\ s[k].time <= t
      BY <1>1, <2>1
    <3>2. i = k \/ s[i].time <= s[k].time
      BY <1>1, <2>1, <3>1 DEF InOrder
    <3>. QED BY <1>1, <2>1, <3>1, <3>2
  <2>2. CASE ~(i <= k)
    <3>1. k + 1 \in 1 .. Len(s) /\ s[k + 1].time > t
      BY <1>1, <2>2
    <3>2. i = k + 1 \/ s[k + 1].time <= s[i].time
      BY <1>1, <2>2, <3>1 DEF InOrder
    <3>. QED BY <1>1, <2>2, <3>1, <3>2
  <2>. QED BY <2>1, <2>2
<1>3. {i \in DOMAIN s : s[i].time <= t} = 1 .. k
  BY <1>1, <1>2
<1>4. Cardinality(1 .. k) = k
  <2>1. k \in Int /\ 1 \in Int /\ (1 <= k => k - 1 + 1 = k) /\ (~(1 <= k) => k = 0)
    BY <1>1
  <2>. QED BY <2>1, FS_Interval
<1>5. \A i \in 1 .. Len(s) : i \in 1 .. k <=> i <= k
  BY <1>1
<1>. QED BY <1>2, <1>3, <1>4, <1>5 DEF Through

\* There is such a place.
LEMMA ThroughExists ==
  ASSUME NEW s \in Seq(Entries), InOrder(s), NEW t \in Int
  PROVE  /\ Through(s, t) \in 0 .. Len(s)
         /\ \A i \in 1 .. Len(s) : s[i].time <= t <=> i <= Through(s, t)
<1>. DEFINE S == {i \in 1 .. Len(s) : s[i].time <= t}
<1>1. Len(s) \in Nat /\ \A i \in 1 .. Len(s) : s[i].time \in Int
  BY EntryIs
<1>2. \E k \in 0 .. Len(s) : (k > 0 => s[k].time <= t) /\ (k < Len(s) => s[k + 1].time > t)
  <2>1. CASE S = {}
    <3>1. 0 < Len(s) => 1 \in 1 .. Len(s) /\ s[1].time > t
      BY <1>1, <2>1
    <3>2. 0 \in 0 .. Len(s) /\ ~(0 > 0) /\ 0 + 1 = 1
      BY <1>1
    <3>. QED BY <3>1, <3>2
  <2>2. CASE S # {}
    <3>1. S \in SUBSET (1 .. Len(s)) /\ 1 \in Int /\ Len(s) \in Int
      BY <1>1
    <3>2. Greatest(S) # {}
      <4>. HIDE DEF S
      <4>. QED BY <2>2, <3>1, BoundedExtremes
    <3>3. PICK k \in S : \A q \in S : q <= k
      BY <3>2, TheGreatest
    <3>4. k \in 1 .. Len(s) /\ s[k].time <= t
      OBVIOUS
    <3>5. k < Len(s) => s[k + 1].time > t
      BY <1>1, <3>3, <3>4
    <3>. QED BY <3>4, <3>5
  <2>. QED BY <2>1, <2>2
<1>3. PICK k \in 0 .. Len(s) : (k > 0 => s[k].time <= t) /\ (k < Len(s) => s[k + 1].time > t)
  BY <1>2
<1>4. Through(s, t) = k /\ \A i \in 1 .. Len(s) : s[i].time <= t <=> i <= k
  BY <1>3, ThroughIs
<1>. QED BY <1>4

\* The same for the commands before a time: they are those at or before t - 1.
LEMMA BeforeExists ==
  ASSUME NEW s \in Seq(Entries), InOrder(s), NEW t \in Int
  PROVE  /\ Before(s, t) \in 0 .. Len(s)
         /\ \A i \in 1 .. Len(s) : s[i].time < t <=> i <= Before(s, t)
<1>1. /\ Len(s) \in Nat /\ DOMAIN s = 1 .. Len(s) /\ \A i \in 1 .. Len(s) : s[i].time \in Int
  BY EntryIs
<1>2. \A i \in 1 .. Len(s) : s[i].time < t <=> s[i].time <= t - 1
  BY <1>1
<1>3. {i \in DOMAIN s : s[i].time < t} = {i \in DOMAIN s : s[i].time <= t - 1}
  BY <1>1, <1>2
<1>4. Before(s, t) = Through(s, t - 1)
  BY <1>3 DEF Before, Through
<1>5. /\ Through(s, t - 1) \in 0 .. Len(s)
      /\ \A i \in 1 .. Len(s) : s[i].time <= t - 1 <=> i <= Through(s, t - 1)
  <2>1. t - 1 \in Int
    OBVIOUS
  <2>. QED BY <2>1, ThroughExists
<1>. QED BY <1>2, <1>4, <1>5

\* The place is settled by any that divides the commands.
LEMMA ThroughUnique ==
  ASSUME NEW s \in Seq(Entries), InOrder(s), NEW t \in Int, NEW k \in 0 .. Len(s),
         \A i \in 1 .. Len(s) : s[i].time <= t <=> i <= k
  PROVE  Through(s, t) = k
<1>1. Len(s) \in Nat /\ \A i \in 1 .. Len(s) : s[i].time \in Int
  BY EntryIs
<1>2. k > 0 => k \in 1 .. Len(s)
  BY <1>1
<1>3. k < Len(s) => k + 1 \in 1 .. Len(s) /\ ~(k + 1 <= k)
  BY <1>1
<1>4. (k > 0 => s[k].time <= t) /\ (k < Len(s) => s[k + 1].time > t)
  BY <1>1, <1>2, <1>3
<1>. QED BY <1>4, ThroughIs

\* A later time has more commands.
LEMMA ThroughGrows ==
  ASSUME NEW s \in Seq(Entries), InOrder(s), NEW t \in Int, NEW u \in Int
  PROVE  /\ t <= u => Through(s, t) <= Through(s, u)
         /\ (\A i \in 1 .. Len(s) : s[i].time <= t <=> s[i].time <= u) => Through(s, t) = Through(s, u)
<1>1. Len(s) \in Nat /\ \A i \in 1 .. Len(s) : s[i].time \in Int
  BY EntryIs
<1>. DEFINE m == Through(s, t)
            n == Through(s, u)
<1>2. /\ m \in 0 .. Len(s) /\ \A i \in 1 .. Len(s) : s[i].time <= t <=> i <= m
      /\ n \in 0 .. Len(s) /\ \A i \in 1 .. Len(s) : s[i].time <= u <=> i <= n
  BY ThroughExists
<1>. HIDE DEF m, n
<1>3. ASSUME t <= u PROVE m <= n
  <2>1. CASE m = 0
    BY <1>2, <2>1
  <2>2. CASE m # 0
    <3>1. m \in 1 .. Len(s) /\ m <= m
      BY <1>1, <1>2, <2>2
    <3>2. s[m].time <= t /\ s[m].time \in Int
      BY <1>1, <1>2, <3>1
    <3>3. s[m].time <= u
      BY <1>3, <3>2
    <3>. QED BY <1>2, <3>1, <3>3
  <2>. QED BY <2>1, <2>2
<1>4. ASSUME \A i \in 1 .. Len(s) : s[i].time <= t <=> s[i].time <= u PROVE m = n
  <2>1. \A i \in 1 .. Len(s) : i <= m <=> i <= n
    BY <1>2, <1>4
  <2>2. (m > 0 => m \in 1 .. Len(s)) /\ (n > 0 => n \in 1 .. Len(s)) /\ m \in Int /\ n \in Int
    BY <1>1, <1>2
  <2>. QED BY <1>1, <1>2, <2>1, <2>2
<1>. QED BY <1>3, <1>4 DEF m, n

-----------------------------------------------------------------------------
(* What the commands say                                                     *)

\* No command says anything.
LEMMA SaysNothing ==
  ASSUME NEW s, NEW f
  PROVE  Says(s, f, 0, Empty[f]) /\ Silent(s, f, 0)
<1>1. 1 .. 0 = {}
  OBVIOUS
<1>. QED BY <1>1 DEF Says, Silent

\* One more command
LEMMA SaysNext ==
  ASSUME NEW s, NEW f, NEW n \in Nat, NEW v, Says(s, f, n, v)
  PROVE  Says(s, f, n + 1, IF Speaks(s, f, n + 1) THEN Left(s, f, n + 1) ELSE v)
<1>1. \A i \in 1 .. n + 1 : i \in 1 .. n \/ i = n + 1
  OBVIOUS
<1>2. n + 1 \in 1 .. n + 1 /\ \A i \in 1 .. n + 1 : ~(n + 1 < i)
  OBVIOUS
<1>3. \A i \in 1 .. n : i \in 1 .. n + 1
  OBVIOUS
<1>4. CASE Speaks(s, f, n + 1)
  <2>1. LastOf(s, f, n + 1, n + 1)
    BY <1>2, <1>4 DEF LastOf
  <2>. QED BY <1>2, <1>4, <2>1 DEF Says
<1>5. CASE ~Speaks(s, f, n + 1) /\ Silent(s, f, n) /\ v = Empty[f]
  <2>1. Silent(s, f, n + 1)
    BY <1>1, <1>5 DEF Silent
  <2>. QED BY <1>5, <2>1 DEF Says
<1>6. CASE ~Speaks(s, f, n + 1) /\ ~(Silent(s, f, n) /\ v = Empty[f])
  <2>1. PICK i \in 1 .. n : LastOf(s, f, n, i) /\ v = Left(s, f, i)
    BY <1>6 DEF Says
  <2>2. LastOf(s, f, n + 1, i)
    BY <1>1, <1>3, <1>6, <2>1 DEF LastOf
  <2>. QED BY <1>3, <1>6, <2>1, <2>2 DEF Says
<1>. QED BY <1>4, <1>5, <1>6

\* There is only one thing said.
LEMMA SaysOnce ==
  ASSUME NEW s, NEW f, NEW n \in Nat, NEW v, NEW w, Says(s, f, n, v), Says(s, f, n, w)
  PROVE  v = w
<1>1. CASE Silent(s, f, n)
  BY <1>1 DEF Silent, Says, LastOf
<1>2. CASE ~Silent(s, f, n)
  <2>1. PICK i \in 1 .. n : LastOf(s, f, n, i) /\ v = Left(s, f, i)
    BY <1>2 DEF Says
  <2>2. PICK j \in 1 .. n : LastOf(s, f, n, j) /\ w = Left(s, f, j)
    BY <1>2 DEF Says
  <2>3. ~(i < j) /\ ~(j < i)
    BY <2>1, <2>2 DEF LastOf
  <2>4. i = j
    BY <2>3
  <2>. QED BY <2>1, <2>2, <2>4
<1>. QED BY <1>1, <1>2

\* Only the commands counted matter.
LEMMA SaysSame ==
  ASSUME NEW s, NEW r, NEW f, NEW n \in Nat, NEW v, \A i \in 1 .. n : r[i] = s[i]
  PROVE  /\ Says(s, f, n, v) => Says(r, f, n, v)
         /\ Silent(s, f, n) => Silent(r, f, n)
<1>1. \A i \in 1 .. n : (Speaks(r, f, i) <=> Speaks(s, f, i)) /\ Left(r, f, i) = Left(s, f, i)
  BY DEF Speaks, Left
<1>2. \A i \in 1 .. n : LastOf(s, f, n, i) => LastOf(r, f, n, i)
  BY <1>1 DEF LastOf
<1>. QED BY <1>1, <1>2 DEF Says, Silent

-----------------------------------------------------------------------------
(* Dropping emptied commands                                                 *)

\* Commands that may have been emptied
Pruned == [time : CommandTimes, clear : BOOLEAN, sets : Sources]

\* Without the emptied ones they are commands in order again.
LEMMA DropIs ==
  ASSUME NEW s \in Seq(Pruned), InOrder(s)
  PROVE  /\ DropEmptied(s) \in Seq(Entries) /\ InOrder(DropEmptied(s))
         /\ Len(DropEmptied(s)) <= Len(s)
<1>. DEFINE N       == Len(s)
            Step(k) == [n \in 0 .. N |-> IF n = 0 THEN << >>
                                         ELSE IF s[n].sets = Empty THEN k[n - 1]
                                         ELSE Append(k[n - 1], s[n])]
            kept    == CHOOSE k : k = Step(k)
            G       == [x \in (1 .. N) \X Seq(Entries) |->
                          IF s[x[1]].sets = Empty THEN x[2] ELSE Append(x[2], s[x[1]])]
<1>0. /\ N \in Nat /\ \A i \in 1 .. N : s[i] \in Pruned /\ s[i].time \in CommandTimes
      /\ << >> \in Seq(Entries)
  <2>1. N \in Nat /\ \A i \in 1 .. N : s[i] \in Pruned
    OBVIOUS
  <2>2. << >> \in Seq(Entries)
    OBVIOUS
  <2>. QED BY <2>1, <2>2 DEF Pruned
<1>1. \A i \in 1 .. N : s[i].sets # Empty => s[i] \in Entries
  BY <1>0 DEF Pruned, Entries
<1>2. \A i \in 1 .. N : s[i].time \in Int
  BY <1>0, TimesBounded
<1>3. DropEmptied(s) = kept[N]
  BY DEF DropEmptied
<1>4. ASSUME NEW i \in 1 .. N, NEW q \in Seq(Entries)
      PROVE  (IF s[i].sets = Empty THEN q ELSE Append(q, s[i])) \in Seq(Entries)
  BY <1>1
<1>5. G \in [(1 .. N) \X Seq(Entries) -> Seq(Entries)]
  <2>1. \A x \in (1 .. N) \X Seq(Entries) : x[1] \in 1 .. N /\ x[2] \in Seq(Entries)
    OBVIOUS
  <2>. HIDE DEF N
  <2>. QED BY <1>4, <2>1
<1>6. PICK f \in [0 .. N -> Seq(Entries)] : f[0] = << >> /\ \A n \in 1 .. N : f[n] = G[<<n, f[n - 1]>>]
  <2>. DEFINE S == Seq(Entries)
              b == << >>
  <2>1. N \in Nat /\ b \in S /\ G \in StepsOf(N, S)
    BY <1>0, <1>5 DEF StepsOf
  <2>. HIDE DEF G, N, S, b
  <2>2. PICK f : FoldOf(f, N, S, b, G)
    BY <2>1, Recursion
  <2>. QED BY <2>2 DEF S, b, FoldOf
<1>7. \E k : k = Step(k)
  <2>1. ASSUME NEW n \in 1 .. N
        PROVE  f[n] = IF s[n].sets = Empty THEN f[n - 1] ELSE Append(f[n - 1], s[n])
    <3>1. n - 1 \in 0 .. N
      BY <1>0
    <3>2. <<n, f[n - 1]>> \in (1 .. N) \X Seq(Entries)
      BY <3>1, <1>6
    <3>. HIDE DEF N
    <3>3. G[<<n, f[n - 1]>>] = IF s[n].sets = Empty THEN f[n - 1] ELSE Append(f[n - 1], s[n])
      BY <3>2
    <3>. QED BY <1>6, <3>3
  <2>2. \A n \in 0 .. N : n = 0 \/ n \in 1 .. N
    BY <1>0
  <2>3. \A n \in 0 .. N : f[n] = IF n = 0 THEN << >>
                                 ELSE IF s[n].sets = Empty THEN f[n - 1]
                                 ELSE Append(f[n - 1], s[n])
    BY <1>6, <2>1, <2>2
  <2>4. f = Step(f)
    <3>. HIDE DEF N
    <3>. QED BY <1>6, <2>3
  <2>. QED BY <2>4
<1>8. kept = Step(kept)
  <2>. HIDE DEF Step
  <2>. QED BY <1>7
<1>9. /\ kept[0] = << >>
      /\ \A n \in 1 .. N : kept[n] = IF s[n].sets = Empty THEN kept[n - 1] ELSE Append(kept[n - 1], s[n])
  <2>1. 0 \in 0 .. N /\ \A n \in 1 .. N : n \in 0 .. N /\ n # 0
    BY <1>0
  <2>. HIDE DEF kept, N
  <2>. QED BY <1>8, <2>1
<1>. HIDE DEF kept
<1>. DEFINE Holds == {n \in 0 .. N : /\ kept[n] \in Seq(Entries) /\ InOrder(kept[n]) /\ Len(kept[n]) <= n
                                     /\ \A i \in 1 .. Len(kept[n]) : \E j \in 1 .. n : kept[n][i].time = s[j].time}
<1>10. 0 \in Holds
  <2>1. 0 \in 0 .. N /\ Len(<< >>) = 0 /\ 1 .. 0 = {}
    BY <1>0
  <2>2. InOrder(<< >>)
    BY <2>1 DEF InOrder
  <2>3. Len(kept[0]) = 0
    BY <1>9, <2>1
  <2>4. kept[0] \in Seq(Entries) /\ InOrder(kept[0])
    BY <1>0, <1>9, <2>2
  <2>5. Len(kept[0]) <= 0 /\ \A i \in 1 .. Len(kept[0]) : \E j \in 1 .. 0 : kept[0][i].time = s[j].time
    BY <2>1, <2>3
  <2>. HIDE DEF N
  <2>. QED BY <2>1, <2>4, <2>5
<1>11. ASSUME NEW n \in 1 .. N, n - 1 \in Holds PROVE n \in Holds
  <2>. DEFINE q == kept[n - 1]
              m == n - 1
  <2>1. /\ q \in Seq(Entries) /\ InOrder(q) /\ Len(q) <= m
        /\ \A i \in 1 .. Len(q) : \E j \in 1 .. m : q[i].time = s[j].time
    BY <1>11
  <2>2. n \in 0 .. N /\ m \in Nat /\ m < n /\ Len(q) \in Nat /\ \A j \in 1 .. m : j \in 1 .. n /\ j < n /\ j \in 1 .. N
    BY <1>0, <2>1
  <2>3. kept[n] = IF s[n].sets = Empty THEN q ELSE Append(q, s[n])
    BY <1>9
  <2>. HIDE DEF q, m
  <2>4. CASE s[n].sets = Empty
    <3>1. kept[n] = q
      BY <2>3, <2>4
    <3>2. Len(q) <= n
      BY <1>0, <2>1, <2>2
    <3>. QED BY <2>1, <2>2, <3>1, <3>2
  <2>5. CASE s[n].sets # Empty
    <3>. DEFINE r == Append(q, s[n])
    <3>1. /\ r \in Seq(Entries) /\ Len(r) = Len(q) + 1 /\ r[Len(q) + 1] = s[n]
          /\ \A i \in 1 .. Len(q) : r[i] = q[i]
      BY <1>1, <2>1, <2>5
    <3>. HIDE DEF r
    <3>2. \A i \in 1 .. Len(r) : i \in 1 .. Len(q) \/ i = Len(q) + 1
      BY <2>2, <3>1
    <3>3. \A i \in 1 .. Len(q) : q[i].time <= s[n].time
      <4>1. ASSUME NEW i \in 1 .. Len(q) PROVE q[i].time <= s[n].time
        <5>1. PICK j \in 1 .. m : q[i].time = s[j].time
          BY <2>1
        <5>2. s[j].time <= s[n].time
          BY <2>2 DEF InOrder
        <5>. QED BY <5>1, <5>2
      <4>. QED BY <4>1
    <3>4. ASSUME NEW i \in 1 .. Len(r), NEW j \in 1 .. Len(r), i < j PROVE r[i].time <= r[j].time
      <4>1. i \in 1 .. Len(q)
        BY <2>2, <3>1, <3>4
      <4>2. CASE j \in 1 .. Len(q)
        BY <2>1, <3>1, <3>4, <4>1, <4>2 DEF InOrder
      <4>3. CASE j = Len(q) + 1
        BY <3>1, <3>3, <4>1, <4>3
      <4>. QED BY <3>2, <4>2, <4>3
    <3>5. InOrder(r)
      BY <3>4 DEF InOrder
    <3>6. Len(r) <= n
      BY <1>0, <2>1, <2>2, <3>1
    <3>7. ASSUME NEW i \in 1 .. Len(r) PROVE \E j \in 1 .. n : r[i].time = s[j].time
      <4>1. CASE i \in 1 .. Len(q)
        BY <2>1, <2>2, <3>1, <4>1
      <4>2. CASE i = Len(q) + 1
        <5>1. n \in 1 .. n
          OBVIOUS
        <5>. QED BY <3>1, <4>2, <5>1
      <4>. QED BY <3>2, <4>1, <4>2
    <3>8. kept[n] = r
      BY <2>3, <2>5 DEF r
    <3>. QED BY <2>2, <3>1, <3>5, <3>6, <3>7, <3>8
  <2>. QED BY <2>4, <2>5
<1>12. N \in Holds
  <2>1. Holds \in SUBSET Nat
    BY <1>0
  <2>. HIDE DEF Holds, N
  <2>. QED BY <1>0, <1>10, <1>11, <2>1, Throughout
<1>. QED BY <1>3, <1>12

-----------------------------------------------------------------------------
(* Executing commands                                                        *)

\* If the last command that speaks is a clear, field f is empty.
Cleared(s, f, n, v) == \A i \in 1 .. n : LastOf(s, f, n, i) /\ s[i].clear => v = Empty[f]

LEMMA ClearedNext ==
  ASSUME NEW s, NEW f, NEW n \in Nat, NEW v, Cleared(s, f, n, v)
  PROVE  Cleared(s, f, n + 1, IF Speaks(s, f, n + 1) /\ s[n + 1].clear THEN Empty[f] ELSE v)
<1>. DEFINE w == IF Speaks(s, f, n + 1) /\ s[n + 1].clear THEN Empty[f] ELSE v
<1>. SUFFICES ASSUME NEW i \in 1 .. n + 1, LastOf(s, f, n + 1, i), s[i].clear
              PROVE  w = Empty[f]
  BY DEF Cleared
<1>1. n + 1 \in 1 .. n + 1 /\ (i \in 1 .. n \/ i = n + 1) /\ (i \in 1 .. n => i < n + 1)
      /\ \A j \in 1 .. n : j \in 1 .. n + 1
  OBVIOUS
<1>2. CASE i = n + 1
  BY <1>2 DEF LastOf
<1>3. CASE i \in 1 .. n
  <2>1. ~Speaks(s, f, n + 1) /\ LastOf(s, f, n, i)
    BY <1>1, <1>3 DEF LastOf
  <2>. QED BY <1>3, <2>1 DEF Cleared
<1>. QED BY <1>1, <1>2, <1>3

\* What is set over what was cleared is what the commands say.
LEMMA ShownSays ==
  ASSUME NEW s, NEW f, NEW n \in Nat, NEW v, NEW w, Says(s, f, n, v), Cleared(s, f, n, w)
  PROVE  Silent(s, f, n) \/ Says(s, f, n, IF v = Empty[f] THEN w ELSE v)
<1>. SUFFICES ASSUME ~Silent(s, f, n) PROVE Says(s, f, n, IF v = Empty[f] THEN w ELSE v)
  OBVIOUS
<1>1. PICK i \in 1 .. n : LastOf(s, f, n, i) /\ v = Left(s, f, i)
  BY DEF Says
<1>2. CASE s[i].clear
  <2>1. v = Empty[f] /\ w = Empty[f]
    BY <1>1, <1>2 DEF Left, Cleared
  <2>. QED BY <2>1
<1>3. CASE ~s[i].clear
  <2>1. v # Empty[f]
    BY <1>1, <1>3 DEF Left, LastOf, Speaks
  <2>. QED BY <2>1
<1>. QED BY <1>2, <1>3

\* One command of advance_
LEMMA ExecuteIs ==
  ASSUME NEW state \in States, NEW c \in Entries
  PROVE  /\ Execute(state, c) \in States
         /\ \A f \in Fields :
              /\ Execute(state, c).cache[f] = IF c.sets[f] # Empty[f]
                                              THEN IF c.clear THEN Empty[f] ELSE c.sets[f]
                                              ELSE state.cache[f]
              /\ Execute(state, c).prefs[f] = IF c.sets[f] # Empty[f] /\ c.clear THEN Empty[f]
                                              ELSE state.prefs[f]
<1>1. c.sets \in Sources /\ state.cache \in Sources /\ state.prefs \in Sources
  BY DEF Entries, States
<1>2. CASE c.clear
  <2>. DEFINE n == [cache |-> Without(state.cache, c.sets), prefs |-> Without(state.prefs, c.sets)]
  <2>1. /\ Without(state.cache, c.sets) \in Sources /\ Without(state.prefs, c.sets) \in Sources
        /\ \A f \in Fields : Without(state.cache, c.sets)[f] = IF c.sets[f] = Empty[f] THEN state.cache[f] ELSE Empty[f]
        /\ \A f \in Fields : Without(state.prefs, c.sets)[f] = IF c.sets[f] = Empty[f] THEN state.prefs[f] ELSE Empty[f]
    BY <1>1, WithoutIs
  <2>2. Execute(state, c) = n
    BY <1>2 DEF Execute
  <2>3. n \in States /\ n.cache = Without(state.cache, c.sets) /\ n.prefs = Without(state.prefs, c.sets)
    BY <2>1 DEF States
  <2>. HIDE DEF n
  <2>. QED BY <1>2, <2>1, <2>2, <2>3
<1>3. CASE ~c.clear
  <2>. DEFINE o == Override(state.cache, c.sets)
              n == [state EXCEPT !.cache = o]
  <2>1. o \in Sources /\ \A f \in Fields : o[f] = IF c.sets[f] = Empty[f] THEN state.cache[f] ELSE c.sets[f]
    BY <1>1, OverrideIs
  <2>2. Execute(state, c) = n
    BY <1>3 DEF Execute
  <2>. HIDE DEF o
  <2>3. n \in States /\ n.cache = o /\ n.prefs = state.prefs
    BY <2>1 DEF States
  <2>. HIDE DEF n
  <2>. QED BY <1>3, <2>1, <2>2, <2>3
<1>. QED BY <1>2, <1>3

\* The commands executed carry the command state from that of the commands up
\* to start to that of the commands up to t, and clear the preferences.
LEMMA AdvanceIs ==
  ASSUME commands \in Seq(Entries), InOrder(commands), NEW state \in States,
         NEW start \in Int, NEW t \in Int
  PROVE  /\ Advance(state, start, t) \in States
         /\ Through(commands, t) <= Through(commands, start) => Advance(state, start, t) = state
         /\ Through(commands, start) <= Through(commands, t) =>
              \A f \in Fields :
                /\ Says(commands, f, Through(commands, start), state.cache[f]) =>
                     Says(commands, f, Through(commands, t), Advance(state, start, t).cache[f])
                /\ Cleared(commands, f, Through(commands, start), state.prefs[f]) =>
                     Cleared(commands, f, Through(commands, t), Advance(state, start, t).prefs[f])
<1>. DEFINE a         == Through(commands, start)
            b         == Through(commands, t)
            Rest(k)   == [n \in 0 .. b |-> IF n <= a THEN state ELSE Execute(k[n - 1], commands[n])]
            after     == CHOOSE k : k = Rest(k)
            G         == [x \in (1 .. b) \X States |->
                            IF x[1] <= a THEN state ELSE Execute(x[2], commands[x[1]])]
<1>1. Advance(state, start, t) = after[b]
  BY DEF Advance, NumUpTo, UpTo, Through
<1>2. a \in 0 .. Len(commands) /\ b \in 0 .. Len(commands) /\ a \in Nat /\ b \in Nat
  BY ThroughExists, EntryIs
<1>. HIDE DEF a, b
<1>3. \A n \in 1 .. b : commands[n] \in Entries
  BY <1>2, EntryIs
<1>4. G \in StepsOf(b, States)
  <2>1. \A x \in (1 .. b) \X States : x[1] \in 1 .. b /\ x[2] \in States
    OBVIOUS
  <2>2. \A n \in 1 .. b, r \in States : Execute(r, commands[n]) \in States
    BY <1>3, ExecuteIs
  <2>. QED BY <2>1, <2>2 DEF StepsOf
<1>5. PICK k : FoldOf(k, b, States, state, G)
  <2>. HIDE DEF G
  <2>. QED BY <1>2, <1>4, Recursion
<1>6. k \in [0 .. b -> States] /\ k[0] = state /\ \A n \in 1 .. b : k[n] = G[<<n, k[n - 1]>>]
  <2>. HIDE DEF G
  <2>. QED BY <1>5 DEF FoldOf
<1>7. \E r : r = Rest(r)
  <2>1. ASSUME NEW n \in 1 .. b
        PROVE  k[n] = IF n <= a THEN state ELSE Execute(k[n - 1], commands[n])
    <3>1. n - 1 \in 0 .. b
      BY <1>2
    <3>2. <<n, k[n - 1]>> \in (1 .. b) \X States
      BY <3>1, <1>6
    <3>3. G[<<n, k[n - 1]>>] = IF n <= a THEN state ELSE Execute(k[n - 1], commands[n])
      BY <3>2
    <3>. QED BY <1>6, <3>3
  <2>2. \A n \in 0 .. b : (n = 0 /\ n <= a) \/ n \in 1 .. b
    BY <1>2
  <2>3. \A n \in 0 .. b : k[n] = IF n <= a THEN state ELSE Execute(k[n - 1], commands[n])
    BY <1>6, <2>1, <2>2
  <2>4. k = Rest(k)
    BY <1>6, <2>3
  <2>. QED BY <2>4
<1>8. after = Rest(after)
  <2>. HIDE DEF Rest
  <2>. QED BY <1>7
<1>. HIDE DEF after, G
<1>9. \A n \in 0 .. b : after[n] = IF n <= a THEN state ELSE Execute(after[n - 1], commands[n])
  BY <1>8
<1>10. ASSUME b <= a PROVE after[b] = state
  <2>1. b \in 0 .. b
    BY <1>2
  <2>. QED BY <1>9, <1>10, <2>1
<1>. DEFINE Carried(n) ==
              /\ after[n] \in States
              /\ a <= n => \A f \in Fields :
                   /\ Says(commands, f, a, state.cache[f]) => Says(commands, f, n, after[n].cache[f])
                   /\ Cleared(commands, f, a, state.prefs[f]) => Cleared(commands, f, n, after[n].prefs[f])
            Holds == {n \in 0 .. b : Carried(n)}
<1>11. ASSUME NEW n \in 0 .. b, n <= a PROVE Carried(n)
  <2>1. after[n] = state
    BY <1>9, <1>11
  <2>2. a <= n => n = a
    BY <1>2, <1>11
  <2>. QED BY <2>1, <2>2
<1>12. ASSUME NEW n \in 1 .. b, Carried(n - 1), ~(n <= a) PROVE Carried(n)
  <2>. DEFINE m == n - 1
              r == after[m]
              c == commands[n]
  <2>1. m \in Nat /\ n = m + 1 /\ n \in 0 .. b /\ a <= m /\ a <= n
    BY <1>2, <1>12
  <2>2. r \in States /\ c \in Entries /\ after[n] = Execute(r, c)
    BY <1>3, <1>9, <1>12, <2>1
  <2>3. /\ after[n] \in States
        /\ \A f \in Fields :
              /\ after[n].cache[f] = IF c.sets[f] # Empty[f]
                                     THEN IF c.clear THEN Empty[f] ELSE c.sets[f]
                                     ELSE r.cache[f]
              /\ after[n].prefs[f] = IF c.sets[f] # Empty[f] /\ c.clear THEN Empty[f]
                                     ELSE r.prefs[f]
    <3>. HIDE DEF r, c
    <3>. QED BY <2>2, ExecuteIs
  <2>4. ASSUME NEW f \in Fields, Says(commands, f, a, state.cache[f])
        PROVE  Says(commands, f, n, after[n].cache[f])
    <3>1. Says(commands, f, m, r.cache[f])
      BY <1>12, <2>1, <2>4
    <3>. HIDE DEF m, r
    <3>2. Says(commands, f, m + 1, IF Speaks(commands, f, m + 1) THEN Left(commands, f, m + 1) ELSE r.cache[f])
      BY <2>1, <3>1, SaysNext
    <3>3. after[n].cache[f] = IF Speaks(commands, f, n) THEN Left(commands, f, n) ELSE r.cache[f]
      BY <2>3 DEF Speaks, Left
    <3>. QED BY <2>1, <3>2, <3>3
  <2>5. ASSUME NEW f \in Fields, Cleared(commands, f, a, state.prefs[f])
        PROVE  Cleared(commands, f, n, after[n].prefs[f])
    <3>1. Cleared(commands, f, m, r.prefs[f])
      BY <1>12, <2>1, <2>5
    <3>. HIDE DEF m, r
    <3>2. Cleared(commands, f, m + 1, IF Speaks(commands, f, m + 1) /\ commands[m + 1].clear THEN Empty[f]
                                      ELSE r.prefs[f])
      BY <2>1, <3>1, ClearedNext
    <3>3. after[n].prefs[f] = IF Speaks(commands, f, n) /\ commands[n].clear THEN Empty[f] ELSE r.prefs[f]
      BY <2>3 DEF Speaks
    <3>. QED BY <2>1, <3>2, <3>3
  <2>. QED BY <2>3, <2>4, <2>5
<1>13. b \in Holds
  <2>1. Holds \in SUBSET Nat
    BY <1>2
  <2>2. 0 \in Holds
    <3>1. 0 \in 0 .. b /\ 0 <= a
      BY <1>2
    <3>. HIDE DEF Carried
    <3>. QED BY <1>11, <3>1
  <2>3. ASSUME NEW n \in 1 .. b, n - 1 \in Holds PROVE n \in Holds
    <3>1. n \in 0 .. b
      OBVIOUS
    <3>. HIDE DEF Carried
    <3>. QED BY <1>11, <1>12, <2>3, <3>1
  <2>. HIDE DEF Holds
  <2>. QED BY <1>2, <2>1, <2>2, <2>3, Throughout
<1>14. Carried(b)
  <2>. HIDE DEF Carried
  <2>. QED BY <1>13
<1>. QED BY <1>1, <1>10, <1>14 DEF a, b

-----------------------------------------------------------------------------
(* Changing the commands                                                     *)

\* A part of the commands is in order.
LEMMA PartInOrder ==
  ASSUME NEW s \in Seq(Entries), InOrder(s), NEW m \in 1 .. Len(s) + 1, NEW n \in m - 1 .. Len(s)
  PROVE  /\ SubSeq(s, m, n) \in Seq(Entries) /\ InOrder(SubSeq(s, m, n))
         /\ Len(SubSeq(s, m, n)) = n - m + 1
         /\ \A i \in 1 .. n - m + 1 : SubSeq(s, m, n)[i] = s[m + i - 1]
<1>. DEFINE p == SubSeq(s, m, n)
<1>1. p \in Seq(Entries) /\ Len(p) = n - m + 1 /\ \A i \in 1 .. n - m + 1 : p[i] = s[m + i - 1]
  OBVIOUS
<1>2. Len(s) \in Nat /\ m \in Int /\ n \in Int
  OBVIOUS
<1>. HIDE DEF p
<1>3. ASSUME NEW i \in 1 .. Len(p), NEW j \in 1 .. Len(p), i < j
      PROVE  p[i].time <= p[j].time
  <2>1. p[i] = s[m + i - 1] /\ p[j] = s[m + j - 1]
    BY <1>1
  <2>2. m + i - 1 \in 1 .. Len(s) /\ m + j - 1 \in 1 .. Len(s) /\ m + i - 1 < m + j - 1
    BY <1>1, <1>2, <1>3
  <2>. QED BY <2>1, <2>2 DEF InOrder
<1>. QED BY <1>1, <1>3 DEF p, InOrder

\* The first and the last commands, with the places they came from
LEMMA FirstInOrder ==
  ASSUME NEW s \in Seq(Entries), InOrder(s), NEW k \in 0 .. Len(s)
  PROVE  /\ SubSeq(s, 1, k) \in Seq(Entries) /\ InOrder(SubSeq(s, 1, k)) /\ Len(SubSeq(s, 1, k)) = k
         /\ \A i \in 1 .. k : SubSeq(s, 1, k)[i] = s[i]
<1>1. 1 \in 1 .. Len(s) + 1 /\ k \in 1 - 1 .. Len(s) /\ k - 1 + 1 = k /\ \A i \in 1 .. k : 1 + i - 1 = i
  BY EntryIs
<1>. QED BY <1>1, PartInOrder

LEMMA RestInOrder ==
  ASSUME NEW s \in Seq(Entries), InOrder(s), NEW k \in 0 .. Len(s)
  PROVE  /\ SubSeq(s, k + 1, Len(s)) \in Seq(Entries) /\ InOrder(SubSeq(s, k + 1, Len(s)))
         /\ Len(SubSeq(s, k + 1, Len(s))) = Len(s) - k
         /\ \A i \in 1 .. Len(s) - k : SubSeq(s, k + 1, Len(s))[i] = s[k + i]
<1>. DEFINE x == k + 1
            y == Len(s)
            p == SubSeq(s, x, y)
<1>1. x \in 1 .. Len(s) + 1 /\ y \in x - 1 .. Len(s) /\ y - x + 1 = y - k /\ y \in Nat /\ x = k + 1
  OBVIOUS
<1>. HIDE DEF x
<1>2. /\ p \in Seq(Entries) /\ InOrder(p) /\ Len(p) = y - x + 1
      /\ \A i \in 1 .. y - x + 1 : p[i] = s[x + i - 1]
  BY <1>1, PartInOrder
<1>. HIDE DEF p, y
<1>3. \A i \in 1 .. y - k : p[i] = s[k + i]
  <2>1. \A i \in 1 .. y - k : x + i - 1 = k + i
    BY <1>1
  <2>. QED BY <1>1, <1>2, <2>1
<1>. QED BY <1>1, <1>2, <1>3 DEF p, y, x

\* Commands in order before others
LEMMA JoinInOrder ==
  ASSUME NEW a \in Seq(Entries), NEW b \in Seq(Entries), InOrder(a), InOrder(b),
         \A i \in 1 .. Len(a), j \in 1 .. Len(b) : a[i].time <= b[j].time
  PROVE  /\ a \o b \in Seq(Entries) /\ InOrder(a \o b) /\ Len(a \o b) = Len(a) + Len(b)
         /\ \A i \in 1 .. Len(a) + Len(b) : (a \o b)[i] = IF i <= Len(a) THEN a[i] ELSE b[i - Len(a)]
<1>. DEFINE p == a \o b
<1>1. p \in Seq(Entries) /\ Len(p) = Len(a) + Len(b) /\ Len(a) \in Nat /\ Len(b) \in Nat
  OBVIOUS
<1>2. \A i \in 1 .. Len(p) : p[i] = IF i <= Len(a) THEN a[i] ELSE b[i - Len(a)]
  OBVIOUS
<1>. HIDE DEF p
<1>3. ASSUME NEW i \in 1 .. Len(p), NEW j \in 1 .. Len(p), i < j
      PROVE  p[i].time <= p[j].time
  <2>1. CASE j <= Len(a)
    <3>1. p[i] = a[i] /\ p[j] = a[j] /\ i \in 1 .. Len(a) /\ j \in 1 .. Len(a)
      BY <1>1, <1>2, <1>3, <2>1
    <3>. QED BY <1>3, <3>1 DEF InOrder
  <2>2. CASE i <= Len(a) /\ ~(j <= Len(a))
    <3>1. p[i] = a[i] /\ p[j] = b[j - Len(a)] /\ i \in 1 .. Len(a) /\ j - Len(a) \in 1 .. Len(b)
      BY <1>1, <1>2, <1>3, <2>2
    <3>. QED BY <3>1
  <2>3. CASE ~(i <= Len(a))
    <3>1. /\ p[i] = b[i - Len(a)] /\ p[j] = b[j - Len(a)]
          /\ i - Len(a) \in 1 .. Len(b) /\ j - Len(a) \in 1 .. Len(b) /\ i - Len(a) < j - Len(a)
      BY <1>1, <1>2, <1>3, <2>3
    <3>. QED BY <3>1 DEF InOrder
  <2>. QED BY <1>1, <2>1, <2>2, <2>3
<1>. QED BY <1>1, <1>2, <1>3 DEF p, InOrder

\* Data limiting keeps the last commands.
LEMMA LimitedIs ==
  ASSUME NEW s \in Seq(Entries), InOrder(s)
  PROVE  /\ Limited(s) \in Seq(Entries) /\ InOrder(Limited(s)) /\ Len(Limited(s)) <= Len(s)
         /\ Unlimited => Limited(s) = s
<1>. DEFINE few == LimitedByPoints(s)
<1>1. LimitPoints \in Nat /\ LimitTime \in Int
  BY TimesBounded, LimitAssumption
<1>2. /\ few \in Seq(Entries) /\ InOrder(few) /\ Len(few) <= Len(s)
      /\ Unlimited => few = s
  <2>1. CASE LimitPoints = 0 \/ Len(s) <= LimitPoints
    BY <2>1 DEF LimitedByPoints
  <2>2. CASE ~(LimitPoints = 0 \/ Len(s) <= LimitPoints)
    <3>. DEFINE k == Len(s) - LimitPoints
    <3>1. k \in 0 .. Len(s) /\ Len(s) - LimitPoints + 1 = k + 1 /\ Len(s) - k <= Len(s)
      BY <1>1, <2>2
    <3>2. few = SubSeq(s, k + 1, Len(s))
      BY <2>2 DEF LimitedByPoints
    <3>. HIDE DEF k, few
    <3>3. /\ SubSeq(s, k + 1, Len(s)) \in Seq(Entries) /\ InOrder(SubSeq(s, k + 1, Len(s)))
          /\ Len(SubSeq(s, k + 1, Len(s))) = Len(s) - k
      BY <3>1, RestInOrder
    <3>. QED BY <2>2, <3>1, <3>2, <3>3 DEF Unlimited
  <2>. QED BY <2>1, <2>2
<1>. HIDE DEF few
<1>3. ASSUME NEW r \in Seq(Entries), InOrder(r)
      PROVE  /\ LimitedByTime(r) \in Seq(Entries) /\ InOrder(LimitedByTime(r))
             /\ Len(LimitedByTime(r)) <= Len(r)
             /\ Unlimited => LimitedByTime(r) = r
  <2>1. CASE LimitTime < 0 \/ r = << >>
    BY <1>3, <2>1 DEF LimitedByTime
  <2>2. CASE ~(LimitTime < 0 \/ r = << >>)
    <3>. DEFINE gone == {i \in DOMAIN r : r[i].time <= r[Len(r)].time - LimitTime}
                old  == Cardinality(gone)
                k    == IF old < Len(r) THEN old ELSE old - 1
    <3>1. Len(r) \in Nat \ {0} /\ DOMAIN r = 1 .. Len(r)
      BY <1>3, <2>2
    <3>2. old \in 0 .. Len(r)
      <4>1. gone \subseteq 1 .. Len(r)
        BY <3>1
      <4>. HIDE DEF gone
      <4>2. IsFiniteSet(1 .. Len(r)) /\ Cardinality(1 .. Len(r)) = Len(r)
        BY <3>1, FS_Interval
      <4>3. IsFiniteSet(gone) /\ Cardinality(gone) <= Cardinality(1 .. Len(r))
        BY <4>1, <4>2, FS_Subset
      <4>4. Cardinality(gone) \in Nat
        BY <4>3, FS_CardinalityType
      <4>. QED BY <3>1, <4>2, <4>3, <4>4
    <3>3. LimitedByTime(r) = SubSeq(r, IF old < Len(r) THEN old + 1 ELSE old, Len(r))
      BY <2>2 DEF LimitedByTime
    <3>. HIDE DEF old
    <3>4. /\ k \in 0 .. Len(r) /\ (IF old < Len(r) THEN old + 1 ELSE old) = k + 1
          /\ Len(r) - k <= Len(r)
      BY <3>1, <3>2
    <3>5. LimitedByTime(r) = SubSeq(r, k + 1, Len(r))
      BY <3>3, <3>4
    <3>. HIDE DEF k
    <3>6. /\ SubSeq(r, k + 1, Len(r)) \in Seq(Entries) /\ InOrder(SubSeq(r, k + 1, Len(r)))
          /\ Len(SubSeq(r, k + 1, Len(r))) = Len(r) - k
      BY <1>3, <3>4, RestInOrder
    <3>. QED BY <2>2, <3>4, <3>5, <3>6 DEF Unlimited
  <2>. QED BY <2>1, <2>2
<1>4. Limited(s) = LimitedByTime(few)
  BY DEF Limited, few
<1>5. /\ Limited(s) \in Seq(Entries) /\ InOrder(Limited(s)) /\ Len(Limited(s)) <= Len(few)
      /\ Unlimited => Limited(s) = few
  BY <1>2, <1>3, <1>4
<1>6. Len(s) \in Nat /\ Len(few) \in Nat /\ Len(Limited(s)) \in Nat
  BY <1>2, <1>5
<1>. QED BY <1>2, <1>5, <1>6

\* A flush takes commands out of the middle.
LEMMA FlushedIs ==
  ASSUME commands \in Seq(Entries), InOrder(commands), NEW start \in Int, NEW end \in Int
  PROVE  /\ Flushed(start, end) \in Seq(Entries) /\ InOrder(Flushed(start, end))
         /\ Len(Flushed(start, end)) <= Len(commands)
<1>. DEFINE n == Len(commands)
            k == Before(commands, start)
            m == Before(commands, end)
            a == SubSeq(commands, 1, k)
            b == SubSeq(commands, m + 1, n)
<1>1. n \in Nat /\ k \in 0 .. n /\ m \in 0 .. n
  BY BeforeExists, EntryIs
<1>2. Flushed(start, end) = IF m <= k THEN commands ELSE a \o b
  BY DEF Flushed, NumBefore, Before
<1>3. CASE m <= k
  BY <1>1, <1>2, <1>3
<1>4. CASE ~(m <= k)
  <2>. HIDE DEF m, k
  <2>1. /\ a \in Seq(Entries) /\ InOrder(a) /\ Len(a) = k /\ \A i \in 1 .. k : a[i] = commands[i]
    BY <1>1, FirstInOrder
  <2>2. /\ b \in Seq(Entries) /\ InOrder(b) /\ Len(b) = n - m
        /\ \A i \in 1 .. n - m : b[i] = commands[m + i]
    BY <1>1, RestInOrder
  <2>. HIDE DEF a, b
  <2>3. ASSUME NEW i \in 1 .. Len(a), NEW j \in 1 .. Len(b) PROVE a[i].time <= b[j].time
    <3>1. i \in 1 .. n /\ m + j \in 1 .. n /\ i < m + j
      BY <1>1, <1>4, <2>1, <2>2
    <3>2. a[i] = commands[i] /\ b[j] = commands[m + j]
      BY <2>1, <2>2
    <3>. QED BY <3>1, <3>2 DEF InOrder
  <2>4. a \o b \in Seq(Entries) /\ InOrder(a \o b) /\ Len(a \o b) = Len(a) + Len(b)
    BY <2>1, <2>2, <2>3, JoinInOrder
  <2>5. Len(a) + Len(b) <= n
    BY <1>1, <1>4, <2>1, <2>2
  <2>. QED BY <1>2, <1>4, <2>4, <2>5
<1>. QED BY <1>3, <1>4

\* One command between the earlier and the later ones
LEMMA InsertInOrder ==
  ASSUME NEW s \in Seq(Entries), InOrder(s), NEW at \in 0 .. Len(s), NEW p \in Entries,
         \A i \in 1 .. at : s[i].time <= p.time,
         \A i \in 1 .. Len(s) : at < i => p.time <= s[i].time
  PROVE  /\ InsertAt(s, at + 1, p) \in Seq(Entries) /\ InOrder(InsertAt(s, at + 1, p))
         /\ Len(InsertAt(s, at + 1, p)) = Len(s) + 1
         /\ \A i \in 1 .. at : InsertAt(s, at + 1, p)[i] = s[i]
         /\ \A i \in 1 .. Len(s) + 1 : at < i => p.time <= InsertAt(s, at + 1, p)[i].time
<1>. DEFINE a == SubSeq(s, 1, at)
            b == SubSeq(s, at + 1, Len(s))
            o == <<p>>
            h == a \o o
            q == h \o b
<1>0. /\ Len(s) \in Nat /\ \A i \in 1 .. Len(s) : s[i].time \in Int
      /\ p.time \in Int /\ at \in Nat
  <2>1. p.time \in CommandTimes
    BY DEF Entries
  <2>. QED BY <2>1, EntryIs, TimesBounded
<1>1. /\ a \in Seq(Entries) /\ InOrder(a) /\ Len(a) = at /\ \A i \in 1 .. at : a[i] = s[i]
  BY FirstInOrder
<1>2. /\ b \in Seq(Entries) /\ InOrder(b) /\ Len(b) = Len(s) - at
      /\ \A i \in 1 .. Len(s) - at : b[i] = s[at + i]
  BY RestInOrder
<1>3. o \in Seq(Entries) /\ Len(o) = 1 /\ o[1] = p /\ InOrder(o)
  <2>1. o \in Seq(Entries) /\ Len(o) = 1 /\ o[1] = p
    OBVIOUS
  <2>2. \A i, j \in 1 .. 1 : ~(i < j)
    OBVIOUS
  <2>. HIDE DEF o
  <2>. QED BY <2>1, <2>2 DEF InOrder
<1>4. InsertAt(s, at + 1, p) = q
  <2>. DEFINE k == at + 1
  <2>1. k - 1 = at /\ k = at + 1
    BY <1>0
  <2>. HIDE DEF k
  <2>2. InsertAt(s, k, p) = (SubSeq(s, 1, k - 1) \o <<p>>) \o SubSeq(s, k, Len(s))
    BY DEF InsertAt
  <2>3. InsertAt(s, k, p) = (SubSeq(s, 1, at) \o <<p>>) \o SubSeq(s, at + 1, Len(s))
    BY <2>1, <2>2, Zenon
  <2>. QED BY <2>1, <2>3, Zenon
<1>. HIDE DEF a, b, o
<1>5. /\ h \in Seq(Entries) /\ InOrder(h) /\ Len(h) = at + 1
      /\ \A i \in 1 .. at + 1 : h[i] = IF i <= at THEN s[i] ELSE p
  <2>1. ASSUME NEW i \in 1 .. Len(a), NEW j \in 1 .. Len(o) PROVE a[i].time <= o[j].time
    BY <1>1, <1>3
  <2>2. /\ h \in Seq(Entries) /\ InOrder(h) /\ Len(h) = Len(a) + Len(o)
        /\ \A i \in 1 .. Len(a) + Len(o) : h[i] = IF i <= Len(a) THEN a[i] ELSE o[i - Len(a)]
    BY <1>1, <1>3, <2>1, JoinInOrder
  <2>. HIDE DEF h
  <2>3. \A i \in 1 .. at + 1 : i \in 1 .. at \/ (i = at + 1 /\ ~(i <= at) /\ i - at = 1)
    BY <1>0
  <2>. QED BY <1>0, <1>1, <1>3, <2>2, <2>3
<1>. HIDE DEF h
<1>6. \A i \in 1 .. Len(h) : h[i].time <= p.time /\ h[i].time \in Int
  <2>1. \A i \in 1 .. at + 1 : i <= at => i \in 1 .. at /\ i \in 1 .. Len(s)
    BY <1>0
  <2>. QED BY <1>0, <1>5, <2>1
<1>7. \A i \in 1 .. Len(b) : p.time <= b[i].time /\ b[i].time \in Int
  <2>1. \A i \in 1 .. Len(s) - at : at + i \in 1 .. Len(s) /\ at < at + i
    BY <1>0
  <2>. QED BY <1>0, <1>2, <2>1
<1>8. /\ q \in Seq(Entries) /\ InOrder(q) /\ Len(q) = Len(h) + Len(b)
      /\ \A i \in 1 .. Len(h) + Len(b) : q[i] = IF i <= Len(h) THEN h[i] ELSE b[i - Len(h)]
  <2>1. ASSUME NEW i \in 1 .. Len(h), NEW j \in 1 .. Len(b) PROVE h[i].time <= b[j].time
    BY <1>0, <1>6, <1>7
  <2>. QED BY <1>2, <1>5, <2>1, JoinInOrder
<1>. HIDE DEF q
<1>9. Len(q) = Len(s) + 1
  BY <1>0, <1>2, <1>5, <1>8
<1>10. ASSUME NEW i \in 1 .. at PROVE q[i] = s[i]
  <2>1. i \in 1 .. at + 1 /\ i <= at + 1 /\ i <= at /\ i \in 1 .. Len(h) + Len(b)
    BY <1>0, <1>8, <1>9
  <2>. QED BY <1>5, <1>8, <2>1
<1>11. ASSUME NEW i \in 1 .. Len(s) + 1, at < i PROVE p.time <= q[i].time
  <2>1. CASE i = at + 1
    <3>1. i <= Len(h) /\ h[i] = p
      BY <1>0, <1>5, <2>1
    <3>. QED BY <1>0, <1>8, <1>9, <3>1
  <2>2. CASE i # at + 1
    <3>1. ~(i <= Len(h)) /\ i - Len(h) \in 1 .. Len(b)
      BY <1>0, <1>2, <1>5, <1>11, <2>2
    <3>. QED BY <1>7, <1>8, <1>9, <3>1
  <2>. QED BY <2>1, <2>2
<1>. QED BY <1>4, <1>8, <1>9, <1>10, <1>11

\* An insert leaves the commands before its time as they are.
LEMMA InsertedIs ==
  ASSUME commands \in Seq(Entries), InOrder(commands), NEW c \in Entries
  PROVE  /\ Inserted(c) \in Seq(Entries) /\ InOrder(Inserted(c))
         /\ Len(Inserted(c)) <= Len(commands) + 1
         /\ Before(commands, c.time) \in 0 .. Len(Inserted(c))
         /\ \A i \in 1 .. Before(commands, c.time) : Inserted(c)[i] = commands[i]
         /\ \A i \in 1 .. Len(Inserted(c)) :
              Before(commands, c.time) < i => c.time <= Inserted(c)[i].time
<1>. DEFINE n == Len(commands)
            k == Before(commands, c.time)
            x == k + 1
<1>0. /\ n \in Nat /\ DOMAIN commands = 1 .. n
      /\ \A i \in 1 .. n : commands[i] \in Entries /\ commands[i].time \in Int
      /\ c.time \in Int /\ c.sets \in Sources /\ c.sets # Empty
  <2>1. c.time \in CommandTimes /\ c.sets \in Sources /\ c.sets # Empty
    BY DEF Entries
  <2>. QED BY <2>1, EntryIs, TimesBounded
<1>1. k \in 0 .. n /\ \A i \in 1 .. n : commands[i].time < c.time <=> i <= k
  BY <1>0, BeforeExists
<1>2. Inserted(c) = IF x > n \/ commands[x].time # c.time THEN InsertAt(commands, x, c)
                    ELSE IF commands[x].clear # c.clear THEN InsertAt(commands, x + 1, c)
                    ELSE [commands EXCEPT ![x].sets = Override(@, c.sets)]
  BY DEF Inserted, NumBefore, Before
<1>. HIDE DEF k
<1>3. /\ \A i \in 1 .. k : i \in 1 .. n /\ commands[i].time <= c.time
      /\ \A i \in 1 .. n : k < i => c.time <= commands[i].time
      /\ k \in Nat
  BY <1>0, <1>1
<1>4. CASE x > n \/ commands[x].time # c.time
  <2>1. Inserted(c) = InsertAt(commands, k + 1, c)
    BY <1>2, <1>4
  <2>2. /\ Inserted(c) \in Seq(Entries) /\ InOrder(Inserted(c)) /\ Len(Inserted(c)) = n + 1
        /\ \A i \in 1 .. k : Inserted(c)[i] = commands[i]
        /\ \A i \in 1 .. n + 1 : k < i => c.time <= Inserted(c)[i].time
    BY <1>1, <1>3, <2>1, InsertInOrder
  <2>3. n + 1 <= n + 1 /\ k \in 0 .. n + 1
    BY <1>0, <1>1
  <2>. QED BY <2>2, <2>3 DEF k
<1>5. CASE ~(x > n \/ commands[x].time # c.time) /\ commands[x].clear # c.clear
  <2>1. Inserted(c) = InsertAt(commands, x + 1, c)
    BY <1>2, <1>5
  <2>2. x \in 0 .. n /\ x \in 1 .. n /\ commands[x].time = c.time /\ n + 1 <= n + 1 /\ k \in 0 .. n + 1
    BY <1>0, <1>1, <1>5
  <2>3. /\ \A i \in 1 .. x : commands[i].time <= c.time
        /\ \A i \in 1 .. n : x < i => c.time <= commands[i].time
    BY <1>0, <1>3, <2>2
  <2>4. \A i \in 1 .. k : i \in 1 .. x
    BY <1>3
  <2>5. \A i \in 1 .. n + 1 : k < i => x < i \/ i = x
    BY <1>0, <1>3
  <2>. HIDE DEF x
  <2>6. /\ Inserted(c) \in Seq(Entries) /\ InOrder(Inserted(c)) /\ Len(Inserted(c)) = n + 1
        /\ \A i \in 1 .. x : Inserted(c)[i] = commands[i]
        /\ \A i \in 1 .. n + 1 : x < i => c.time <= Inserted(c)[i].time
    <3>1. x \in 0 .. Len(commands)
      BY <2>2
    <3>2. \A i \in 1 .. Len(commands) : x < i => c.time <= commands[i].time
      BY <2>3
    <3>. HIDE DEF n
    <3>3. /\ InsertAt(commands, x + 1, c) \in Seq(Entries) /\ InOrder(InsertAt(commands, x + 1, c))
          /\ Len(InsertAt(commands, x + 1, c)) = Len(commands) + 1
          /\ \A i \in 1 .. x : InsertAt(commands, x + 1, c)[i] = commands[i]
          /\ \A i \in 1 .. Len(commands) + 1 :
               x < i => c.time <= InsertAt(commands, x + 1, c)[i].time
      BY <2>3, <3>1, <3>2, InsertInOrder
    <3>. QED BY <2>1, <3>3 DEF n
  <2>7. x \in 1 .. x
    BY <2>2
  <2>8. \A i \in 1 .. n + 1 : k < i => c.time <= Inserted(c)[i].time
    BY <1>0, <2>2, <2>5, <2>6, <2>7
  <2>. QED BY <2>2, <2>4, <2>6, <2>8 DEF k
<1>6. CASE ~(x > n \/ commands[x].time # c.time) /\ commands[x].clear = c.clear
  <2>. DEFINE o == Override(commands[x].sets, c.sets)
              e == [commands[x] EXCEPT !.sets = o]
              q == [commands EXCEPT ![x] = e]
  <2>1. Inserted(c) = q
    BY <1>2, <1>6
  <2>2. x \in 1 .. n /\ n <= n + 1 /\ k \in 0 .. n /\ commands[x] \in Entries
    BY <1>0, <1>1, <1>6
  <2>3. commands[x].sets \in Sources
    BY <2>2 DEF Entries
  <2>4. o \in Sources /\ o # Empty
    BY <1>0, <2>3, OverrideIs
  <2>. HIDE DEF o
  <2>5. e \in Entries /\ e.time = commands[x].time
    BY <2>2, <2>4 DEF Entries
  <2>. HIDE DEF e
  <2>6. q \in Seq(Entries) /\ Len(q) = n /\ \A i \in 1 .. n : q[i] = IF i = x THEN e ELSE commands[i]
    BY <2>2, <2>5
  <2>. HIDE DEF q
  <2>7. \A i \in 1 .. n : q[i].time = commands[i].time
    BY <2>5, <2>6
  <2>8. InOrder(q)
    BY <2>6, <2>7 DEF InOrder
  <2>9. \A i \in 1 .. k : i # x /\ i \in 1 .. n
    BY <1>0, <1>3
  <2>. QED BY <1>3, <2>1, <2>2, <2>6, <2>7, <2>8, <2>9 DEF k
<1>. QED BY <1>4, <1>5, <1>6

-----------------------------------------------------------------------------
(* Steps                                                                     *)

LEMMA DataFacts ==
  ASSUME DataInv
  PROVE  /\ commands \in Seq(Entries) /\ InOrder(commands) /\ Len(commands) <= MaxCommands
         /\ Len(commands) \in Nat
         /\ cache \in Sources /\ prefs \in Sources
         /\ executed \in Int /\ -2 <= executed /\ executed < MaxDouble
         /\ earliest \in Int /\ earliest <= MaxDouble
         /\ range.lo \in Int /\ range.hi \in Int /\ now \in Int /\ 0 <= now
<1>1. range.lo \in Int /\ range.hi \in Int
  BY DEF DataInv
<1>2. executed \in CommandTimes \/ executed = -2
  BY DEF DataInv, Never
<1>3. earliest \in CommandTimes \/ earliest = MaxDouble
  BY DEF DataInv
<1>4. now \in Times \cup CommandTimes \cup {0}
  BY DEF DataInv
<1>5. executed \in Int /\ -2 <= executed /\ executed < MaxDouble
  BY <1>2, TimesBounded
<1>6. earliest \in Int /\ earliest <= MaxDouble
  BY <1>3, TimesBounded
<1>7. now \in Int /\ 0 <= now
  BY <1>4, TimesBounded
<1>8. commands \in Seq(Entries)
  BY DEF DataInv
<1>9. Len(commands) \in Nat
  BY <1>8, EntryIs
<1>. QED BY <1>1, <1>5, <1>6, <1>7, <1>8, <1>9 DEF DataInv

\* The first command; there is no earlier one.
LEMMA FirstIs ==
  ASSUME commands \in Seq(Entries), InOrder(commands), NEW t \in Int
  PROVE  /\ FirstTime \in Int /\ 0 <= FirstTime /\ FirstTime <= MaxDouble
         /\ t < FirstTime => \A i \in 1 .. Len(commands) : t < commands[i].time
         /\ \A i \in 1 .. Len(commands) : FirstTime <= commands[i].time
         /\ t >= FirstTime /\ t < MaxDouble => Through(commands, t) \in 1 .. Len(commands)
<1>1. /\ Len(commands) \in Nat
      /\ \A i \in 1 .. Len(commands) : commands[i].time \in Int /\ 0 <= commands[i].time /\ commands[i].time < MaxDouble
  BY EntryIs
<1>2. CASE commands = << >>
  <2>1. FirstTime = MaxDouble /\ Len(commands) = 0
    BY <1>2 DEF FirstTime
  <2>. QED BY <2>1, TimesBounded
<1>3. CASE commands # << >>
  <2>1. FirstTime = commands[1].time /\ 1 \in 1 .. Len(commands)
    BY <1>1, <1>3 DEF FirstTime
  <2>2. \A i \in 1 .. Len(commands) : commands[1].time <= commands[i].time
    <3>1. ASSUME NEW i \in 1 .. Len(commands) PROVE commands[1].time <= commands[i].time
      <4>1. i = 1 \/ 1 < i
        BY <1>1
      <4>. QED BY <1>1, <2>1, <4>1 DEF InOrder
    <3>. QED BY <3>1
  <2>3. ASSUME t >= FirstTime PROVE Through(commands, t) \in 1 .. Len(commands)
    <3>1. /\ Through(commands, t) \in 0 .. Len(commands)
          /\ \A i \in 1 .. Len(commands) : commands[i].time <= t <=> i <= Through(commands, t)
      BY ThroughExists
    <3>2. commands[1].time <= t
      BY <1>1, <2>1, <2>3
    <3>. QED BY <1>1, <2>1, <3>1, <3>2
  <2>4. ASSUME t < FirstTime, NEW i \in 1 .. Len(commands) PROVE t < commands[i].time
    BY <1>1, <2>1, <2>2, <2>4
  <2>5. FirstTime \in Int /\ 0 <= FirstTime /\ FirstTime <= MaxDouble
    BY <1>1, <2>1, TimesBounded
  <2>. QED BY <2>1, <2>2, <2>3, <2>4, <2>5
<1>. QED BY <1>2, <1>3

\* No command is before the time 0.
LEMMA NoneBefore ==
  ASSUME NEW s \in Seq(Entries), InOrder(s), NEW t \in Int,
         \A i \in 1 .. Len(s) : t < s[i].time
  PROVE  Through(s, t) = 0
<1>1. /\ Through(s, t) \in 0 .. Len(s) /\ Len(s) \in Nat
      /\ \A i \in 1 .. Len(s) : s[i].time <= t <=> i <= Through(s, t)
  BY ThroughExists, EntryIs
<1>2. \A i \in 1 .. Len(s) : s[i].time \in Int /\ ~(s[i].time <= t)
  BY EntryIs
<1>. QED BY <1>1, <1>2

\* The time before the first command has none.
LEMMA StartIs ==
  ASSUME NEW s \in Seq(Entries), InOrder(s)
  PROVE  Through(s, -1) = 0 /\ Through(s, Never) = 0
<1>1. \A i \in 1 .. Len(s) : -1 < s[i].time /\ -2 < s[i].time
  BY EntryIs
<1>2. -1 \in Int /\ -2 \in Int
  OBVIOUS
<1>3. Through(s, -1) = 0
  BY <1>1, <1>2, NoneBefore
<1>4. Through(s, -2) = 0
  BY <1>1, <1>2, NoneBefore
<1>. QED BY <1>3, <1>4 DEF Never

\* Two times in the range have the same commands.
LEMMA SameInRange ==
  ASSUME DataInv, RangeInv, NEW t \in Int, KickOut(t), t < MaxDouble
  PROVE  /\ range # NoRange /\ earliest = MaxDouble
         /\ \A i \in 1 .. Len(commands) : commands[i].time <= t <=> commands[i].time <= now
         /\ \A i \in 1 .. Len(commands) : commands[i].time <= t <=> commands[i].time <= executed
<1>1. range # NoRange
  BY TimesBounded DEF KickOut, NoRange
<1>2. /\ range.lo <= now /\ now < range.hi /\ earliest = MaxDouble
      /\ \A i \in 1 .. Len(commands) : commands[i].time <= range.lo \/ range.hi <= commands[i].time
      /\ \/ range.lo = -1 /\ executed = -2
         \/ range.lo <= executed /\ executed < range.hi
  BY <1>1 DEF RangeInv, Never
<1>3. /\ range.lo \in Int /\ range.hi \in Int /\ now \in Int /\ executed \in Int
      /\ \A i \in 1 .. Len(commands) : commands[i].time \in Int /\ 0 <= commands[i].time
  BY DataFacts, EntryIs
<1>4. range.lo <= t /\ t < range.hi
  BY DEF KickOut
<1>5. \A i \in 1 .. Len(commands) : commands[i].time <= t <=> commands[i].time <= now
  BY <1>2, <1>3, <1>4
<1>6. \A i \in 1 .. Len(commands) : commands[i].time <= t <=> commands[i].time <= executed
  BY <1>2, <1>3, <1>4
<1>. QED BY <1>1, <1>2, <1>5, <1>6

\* Where an update that executes commands starts, and how far it gets
Start(forward) == IF forward THEN executed ELSE -1

LEMMA MovesIs ==
  ASSUME DataInv, NEW t \in Times, t >= FirstTime, NEW forward \in BOOLEAN, forward = MovesForward(t)
  PROVE  /\ t \in Int /\ 0 <= t /\ t < MaxDouble /\ Start(forward) \in Int
         /\ Through(commands, t) \in 1 .. Len(commands)
         /\ Through(commands, Start(forward)) \in 0 .. Len(commands)
         /\ Through(commands, Start(forward)) <= Through(commands, t)
         /\ ~forward => Through(commands, Start(forward)) = 0
         /\ forward /\ Through(commands, executed) # 0 =>
              commands[Through(commands, executed)].time <= t
<1>. DEFINE a == Through(commands, Start(forward))
            b == Through(commands, t)
<1>1. t \in Int /\ 0 <= t /\ t < MaxDouble
  BY TimesBounded
<1>2. /\ commands \in Seq(Entries) /\ InOrder(commands) /\ executed \in Int
      /\ Len(commands) \in Nat /\ DOMAIN commands = 1 .. Len(commands)
      /\ \A i \in 1 .. Len(commands) : commands[i].time \in Int
  BY DataFacts, EntryIs
<1>3. Start(forward) \in Int
  BY <1>2 DEF Start
<1>4. b \in 1 .. Len(commands)
  BY <1>1, <1>2, FirstIs
<1>5. a \in 0 .. Len(commands)
  BY <1>2, <1>3, ThroughExists
<1>6. ASSUME ~forward PROVE a = 0
  <2>1. Start(forward) = -1
    BY <1>6 DEF Start
  <2>. QED BY <1>2, <2>1, StartIs
<1>7. ASSUME forward, Through(commands, executed) # 0
      PROVE  commands[Through(commands, executed)].time <= t
  <2>1. Through(commands, executed) = NumUpTo(executed)
    BY DEF Through, NumUpTo, UpTo
  <2>2. commands[NumUpTo(executed)] \in Current
    BY <1>7, <2>1 DEF Current
  <2>3. \A c \in Current : t >= c.time
    BY <1>7 DEF MovesForward
  <2>4. Through(commands, executed) \in 1 .. Len(commands)
    BY <1>2, <1>7, ThroughExists
  <2>. QED BY <1>1, <1>2, <2>1, <2>2, <2>3, <2>4
<1>8. ASSUME forward PROVE a <= b
  <2>1. a = Through(commands, executed)
    BY <1>8 DEF Start
  <2>2. /\ b \in 0 .. Len(commands)
        /\ \A i \in 1 .. Len(commands) : commands[i].time <= t <=> i <= b
    BY <1>1, <1>2, ThroughExists
  <2>3. CASE a = 0
    BY <2>2, <2>3
  <2>4. CASE a # 0
    <3>. HIDE DEF a, b
    <3>0. commands[Through(commands, executed)].time <= t
      BY <1>7, <1>8, <2>1, <2>4
    <3>1. a \in 1 .. Len(commands) /\ commands[a].time <= t
      BY <1>2, <1>5, <2>1, <2>4, <3>0
    <3>. QED BY <2>2, <3>1
  <2>. QED BY <2>3, <2>4
<1>9. a <= b
  BY <1>4, <1>6, <1>8
<1>. QED BY <1>1, <1>3, <1>4, <1>5, <1>6, <1>7, <1>9

\* What an update that executes commands leaves
LEMMA ExecutingIs ==
  ASSUME DataInv, RangeInv, NEW t \in Times, ~KickOut(t), UpdateExecuting(t), now' = t
  PROVE  /\ cache' \in Sources /\ prefs' \in Sources /\ changed' \in BOOLEAN
         /\ commands' = commands \/ commands' = Limited(commands)
         /\ Unlimited => commands' = commands
         /\ executed' \in CommandTimes \cup {Never} /\ earliest' = MaxDouble
         /\ Through(commands, executed') = Through(commands, t)
         /\ range' \in [lo : -1 .. MaxDouble, hi : Never .. MaxDouble]
         /\ RangeInv'
         /\ Unlimited => SettledInv'
         /\ ReplayInv => \A f \in Fields : Says(commands, f, Through(commands, t), cache'[f])
         /\ ReplayInv /\ FollowInv =>
              \A f \in Fields : \/ Silent(commands, f, Through(commands, t))
                                \/ Says(commands, f, Through(commands, t), prefs'[f])
<1>. DEFINE forward == MovesForward(t)
            start   == IF forward THEN executed ELSE -1
            first   == [cache |-> IF forward THEN cache ELSE Empty, prefs |-> prefs]
            done    == Advance(first, start, t)
            ran     == Executes(start, t)
            kept    == IF prefs' = prefs THEN commands ELSE Limited(commands)
            a       == Through(commands, start)
            b       == Through(commands, t)
            n       == Len(commands)
<1>0. /\ t >= FirstTime
      /\ cache'    = done.cache
      /\ prefs'    = Override(done.prefs, done.cache)
      /\ executed' = IF ran THEN commands[b].time ELSE IF forward THEN executed ELSE Never
      /\ earliest' = MaxDouble
      /\ changed'  = (~forward \/ ran)
      /\ commands' = kept
      /\ range'    = IF kept # commands THEN NoRange
                     ELSE IF t < start THEN range ELSE RangeAround(t)
  BY DEF UpdateExecuting, PrefsShown, ReportsChange, NumUpTo, UpTo, Through
<1>1. /\ commands \in Seq(Entries) /\ InOrder(commands) /\ Len(commands) <= MaxCommands /\ n \in Nat
      /\ cache \in Sources /\ prefs \in Sources /\ executed \in Int
      /\ \A i \in 1 .. n : /\ commands[i].time \in CommandTimes /\ commands[i].time \in Int
                           /\ 0 <= commands[i].time /\ commands[i].time < MaxDouble
  BY DataFacts, EntryIs
<1>2. forward \in BOOLEAN
  BY DEF MovesForward
<1>3. start = Start(forward)
  BY DEF Start
<1>4. /\ t \in Int /\ 0 <= t /\ t < MaxDouble /\ start \in Int
      /\ b \in 1 .. n /\ a \in 0 .. n /\ a <= b
      /\ ~forward => a = 0
      /\ forward /\ Through(commands, executed) # 0 => commands[Through(commands, executed)].time <= t
  BY <1>0, <1>2, <1>3, MovesIs
<1>5. first \in States /\ first.cache = (IF forward THEN cache ELSE Empty) /\ first.prefs = prefs
  BY <1>1, EmptyIs DEF States
<1>6. /\ done \in States
      /\ \A f \in Fields :
           /\ Says(commands, f, a, first.cache[f]) => Says(commands, f, b, done.cache[f])
           /\ Cleared(commands, f, a, first.prefs[f]) => Cleared(commands, f, b, done.prefs[f])
  <2>. HIDE DEF first, start
  <2>. QED BY <1>1, <1>4, <1>5, AdvanceIs
<1>7. ran <=> a < b
  BY DEF Executes, NumUpTo, UpTo, Through
<1>8. \A i \in 1 .. n : (commands[i].time <= t <=> i <= b) /\ (commands[i].time <= start <=> i <= a)
  <2>. HIDE DEF start
  <2>. QED BY <1>1, <1>4, ThroughExists
<1>. HIDE DEF done, ran, kept, a, b, first
<1>9. done.cache \in Sources /\ done.prefs \in Sources
  BY <1>6 DEF States
<1>10. /\ prefs' \in Sources
       /\ \A f \in Fields : prefs'[f] = IF done.cache[f] = Empty[f] THEN done.prefs[f] ELSE done.cache[f]
  BY <1>0, <1>9, OverrideIs
<1>11. commands' = commands \/ commands' = Limited(commands)
  BY <1>0 DEF kept
<1>12. ASSUME Unlimited PROVE commands' = commands
  BY <1>1, <1>11, <1>12, LimitedIs
<1>13. ~ran => forward /\ a = b /\ start = executed /\ executed' = executed
  BY <1>0, <1>4, <1>7
<1>14. ran => executed' = commands[b].time
  BY <1>0
<1>15. executed' \in CommandTimes \cup {Never}
  <2>1. executed \in CommandTimes \cup {Never}
    BY DEF DataInv
  <2>. QED BY <1>1, <1>4, <1>13, <1>14, <2>1
<1>16. executed' \in Int /\ Through(commands, executed') = b
  <2>1. CASE ran
    <3>1. commands[b].time \in Int
      BY <1>1, <1>4
    <3>2. ASSUME NEW i \in 1 .. n PROVE commands[i].time <= commands[b].time <=> i <= b
      <4>1. i < b => commands[i].time <= commands[b].time
        BY <1>1, <1>4 DEF InOrder
      <4>2. commands[b].time <= t /\ commands[i].time \in Int
        BY <1>1, <1>4, <1>8
      <4>3. ~(i <= b) => ~(commands[i].time <= t)
        BY <1>8
      <4>4. i = b => commands[i].time <= commands[b].time
        BY <3>1
      <4>. QED BY <1>4, <3>1, <4>1, <4>2, <4>3, <4>4
    <3>3. b \in 0 .. n
      BY <1>4
    <3>4. Through(commands, commands[b].time) = b
      BY <1>1, <3>1, <3>2, <3>3, ThroughUnique
    <3>. QED BY <1>14, <2>1, <3>1, <3>4
  <2>2. CASE ~ran
    BY <1>1, <1>13, <2>2 DEF a
  <2>. QED BY <2>1, <2>2
<1>17. kept = commands /\ ~(t < start) =>
         /\ range'.lo = commands[b].time /\ range'.lo \in Int
         /\ range'.hi = IF b = n THEN MaxDouble ELSE commands[b + 1].time
         /\ range' \in [lo : -1 .. MaxDouble, hi : Never .. MaxDouble]
  <2>1. SUFFICES ASSUME kept = commands, ~(t < start)
                 PROVE  /\ range'.lo = commands[b].time /\ range'.lo \in Int
                        /\ range'.hi = IF b = n THEN MaxDouble ELSE commands[b + 1].time
                        /\ range' \in [lo : -1 .. MaxDouble, hi : Never .. MaxDouble]
    OBVIOUS
  <2>. DEFINE l == commands[b].time
              h == IF b = n THEN MaxDouble ELSE commands[b + 1].time
  <2>2. range' = [lo |-> l, hi |-> h]
    BY <1>0, <2>1 DEF RangeAround, NumUpTo, UpTo, Through, b
  <2>3. l \in -1 .. MaxDouble /\ l \in Int
    BY <1>1, <1>4, TimesBounded
  <2>4. b # n => b + 1 \in 1 .. n
    BY <1>1, <1>4
  <2>5. h \in -2 .. MaxDouble
    BY <1>1, <2>4, TimesBounded
  <2>. HIDE DEF l, h
  <2>6. range'.lo = l /\ range'.hi = h /\ range' \in [lo : -1 .. MaxDouble, hi : Never .. MaxDouble]
    BY <2>2, <2>3, <2>5 DEF Never
  <2>. QED BY <2>3, <2>6 DEF l, h
<1>18. t < start => range = NoRange
  <2>. SUFFICES ASSUME t < start, range # NoRange PROVE FALSE
    OBVIOUS
  <2>1. forward /\ start = executed /\ a = Through(commands, executed)
    BY <1>4 DEF a
  <2>2. \/ range.lo = -1 /\ executed = -2
        \/ /\ range.lo <= executed /\ executed < range.hi
           /\ \E i \in 1 .. n : commands[i].time = range.lo
    BY DEF RangeInv, Never
  <2>3. range.lo \in Int /\ range.hi \in Int
    BY DataFacts
  <2>4. PICK i \in 1 .. n : commands[i].time = range.lo /\ range.lo <= executed /\ executed < range.hi
    BY <1>1, <1>4, <2>1, <2>2
  <2>5. t < range.lo
    BY <1>1, <1>4, <2>1, <2>3, <2>4 DEF KickOut
  <2>6. i <= a
    BY <1>8, <2>1, <2>4
  <2>7. i <= b
    BY <1>4, <2>6
  <2>8. commands[i].time <= t
    BY <1>8, <2>7
  <2>. QED BY <1>1, <1>4, <2>3, <2>4, <2>5, <2>8
<1>19. range' = NoRange \/ (kept = commands /\ ~(t < start))
  BY <1>0, <1>18
<1>20. range' \in [lo : -1 .. MaxDouble, hi : Never .. MaxDouble]
  <2>1. NoRange \in [lo : -1 .. MaxDouble, hi : Never .. MaxDouble]
    BY TimesBounded DEF NoRange, Never
  <2>. QED BY <1>17, <1>19, <2>1
<1>21. RangeInv'
  <2>. SUFFICES ASSUME range' # NoRange
                PROVE  /\ range'.lo <= t /\ t < range'.hi
                       /\ \A i \in 1 .. n : commands[i].time <= range'.lo \/ range'.hi <= commands[i].time
                       /\ range'.lo <= executed' /\ executed' < range'.hi
                       /\ \E i \in 1 .. n : commands[i].time = range'.lo
    <3>1. range' # NoRange => commands' = commands
      BY <1>0
    <3>2. NoRange' = NoRange
      BY DEF NoRange
    <3>. QED BY <1>0, <3>1, <3>2 DEF RangeInv
  <2>1. /\ range'.lo = commands[b].time /\ range'.lo \in Int
        /\ range'.hi = IF b = n THEN MaxDouble ELSE commands[b + 1].time
        /\ ~(t < start)
    BY <1>17, <1>19
  <2>2. range'.lo <= t
    BY <1>4, <1>8, <2>1
  <2>3. b # n => b + 1 \in 1 .. n /\ ~(b + 1 <= b)
    BY <1>1, <1>4
  <2>4. t < range'.hi /\ range'.hi \in Int
    BY <1>1, <1>4, <1>8, <2>1, <2>3, TimesBounded
  <2>5. ASSUME NEW i \in 1 .. n PROVE commands[i].time <= range'.lo \/ range'.hi <= commands[i].time
    <3>1. CASE i <= b
      <4>1. i < b => commands[i].time <= commands[b].time
        BY <1>1, <1>4 DEF InOrder
      <4>2. i < b \/ i = b
        BY <1>4, <3>1
      <4>. QED BY <2>1, <4>1, <4>2
    <3>2. CASE ~(i <= b)
      <4>1. b # n
        BY <1>1, <1>4, <3>2
      <4>2. b + 1 < i \/ i = b + 1
        BY <1>4, <3>2
      <4>3. b + 1 < i => commands[b + 1].time <= commands[i].time
        BY <1>1, <2>3, <4>1 DEF InOrder
      <4>4. range'.hi = commands[b + 1].time
        BY <2>1, <4>1
      <4>. QED BY <1>1, <4>2, <4>3, <4>4
    <3>. QED BY <3>1, <3>2
  <2>6. range'.lo <= executed' /\ executed' < range'.hi
    <3>1. CASE ran
      BY <1>4, <1>14, <2>1, <2>2, <2>4, <3>1
    <3>2. CASE ~ran
      <4>1. a = b /\ start = executed /\ executed' = executed
        BY <1>13, <3>2
      <4>2. commands[b].time <= executed
        BY <1>4, <1>8, <4>1
      <4>. QED BY <1>1, <1>4, <2>1, <2>4, <4>1, <4>2
    <3>. QED BY <3>1, <3>2
  <2>7. \E i \in 1 .. n : commands[i].time = range'.lo
    BY <1>4, <2>1
  <2>. QED BY <2>2, <2>4, <2>5, <2>6, <2>7
<1>22. Unlimited => SettledInv'
  BY <1>0, <1>12, <1>16 DEF SettledInv, b
<1>23. ASSUME ReplayInv, NEW f \in Fields PROVE Says(commands, f, a, first.cache[f])
  <2>1. CASE forward
    <3>1. earliest > executed
      BY <2>1 DEF MovesForward
    <3>2. a = Through(commands, executed)
      BY <2>1 DEF a
    <3>. QED BY <1>5, <1>23, <2>1, <3>1, <3>2 DEF ReplayInv
  <2>2. CASE ~forward
    BY <1>4, <1>5, <2>2, SaysNothing
  <2>. QED BY <2>1, <2>2
<1>24. ReplayInv => \A f \in Fields : Says(commands, f, b, cache'[f])
  BY <1>0, <1>6, <1>23
<1>25. ASSUME FollowInv, NEW f \in Fields PROVE Cleared(commands, f, a, first.prefs[f])
  <2>1. CASE forward
    <3>1. earliest > executed
      BY <2>1 DEF MovesForward
    <3>2. a = Through(commands, executed) /\ first.prefs[f] = prefs[f] /\ a \in Nat
      BY <1>4, <1>5, <2>1 DEF a
    <3>3. Silent(commands, f, a) \/ Says(commands, f, a, prefs[f])
      BY <1>25, <3>1, <3>2 DEF FollowInv
    <3>4. ASSUME NEW i \in 1 .. a, LastOf(commands, f, a, i), commands[i].clear PROVE prefs[f] = Empty[f]
      <4>1. ~Silent(commands, f, a)
        BY <3>4 DEF Silent, LastOf
      <4>2. Says(commands, f, a, Empty[f])
        BY <3>4 DEF Says, Left
      <4>. QED BY <3>2, <3>3, <4>1, <4>2, SaysOnce
    <3>. QED BY <3>2, <3>4 DEF Cleared
  <2>2. CASE ~forward
    <3>1. 1 .. a = {}
      BY <1>4, <2>2
    <3>. QED BY <3>1 DEF Cleared
  <2>. QED BY <2>1, <2>2
<1>26. ASSUME ReplayInv, FollowInv, NEW f \in Fields
       PROVE  Silent(commands, f, b) \/ Says(commands, f, b, prefs'[f])
  <2>1. Says(commands, f, b, done.cache[f]) /\ Cleared(commands, f, b, done.prefs[f]) /\ b \in Nat
    BY <1>4, <1>6, <1>23, <1>25, <1>26
  <2>2. \/ Silent(commands, f, b)
        \/ Says(commands, f, b, IF done.cache[f] = Empty[f] THEN done.prefs[f] ELSE done.cache[f])
    BY <2>1, ShownSays
  <2>. QED BY <1>10, <2>2
<1>27. cache' \in Sources /\ changed' \in BOOLEAN
  BY <1>0, <1>9
<1>. QED BY <1>0, <1>10, <1>11, <1>12, <1>15, <1>16, <1>20, <1>21, <1>22, <1>24, <1>26, <1>27 DEF b

\* A range that was reset says nothing.
LEMMA ResetIs ==
  /\ NoRange \in [lo : -1 .. MaxDouble, hi : Never .. MaxDouble]
  /\ Notify => RangeInv' /\ range' \in [lo : -1 .. MaxDouble, hi : Never .. MaxDouble]
<1>1. NoRange \in [lo : -1 .. MaxDouble, hi : Never .. MaxDouble]
  BY TimesBounded DEF NoRange, Never
<1>. QED BY <1>1 DEF Notify, RangeInv, NoRange

\* At first
LEMMA InitIs ==
  Init => DataInv /\ RangeInv /\ SettledInv /\ ReplayInv /\ FollowInv
<1>. SUFFICES ASSUME Init PROVE DataInv /\ RangeInv /\ SettledInv /\ ReplayInv /\ FollowInv
  OBVIOUS
<1>. USE DEF Init
<1>1. commands = << >> /\ << >> \in Seq(Entries) /\ Len(<< >>) = 0
  OBVIOUS
<1>2. InOrder(commands)
  BY <1>1 DEF InOrder
<1>3. Through(commands, Never) = 0
  BY <1>1, <1>2, StartIs
<1>4. DataInv
  <2>1. commands \in Seq(Entries) /\ Len(commands) <= MaxCommands
    BY <1>1, TimesBounded
  <2>2. cache \in Sources /\ prefs \in Sources
    BY EmptyIs
  <2>3. range \in [lo : -1 .. MaxDouble, hi : Never .. MaxDouble]
    BY ResetIs
  <2>. QED BY <1>2, <2>1, <2>2, <2>3 DEF DataInv
<1>5. RangeInv /\ SettledInv
  BY DEF RangeInv, SettledInv, Settled
<1>6. ReplayInv
  BY <1>3, SaysNothing DEF ReplayInv
<1>7. FollowInv
  BY <1>3, SaysNothing DEF FollowInv
<1>. QED BY <1>4, <1>5, <1>6, <1>7

\* Update
LEMMA UpdateStep ==
  ASSUME DataInv, RangeInv, NEW t \in Times, Update(t)
  PROVE  /\ DataInv' /\ RangeInv'
         /\ Unlimited => SettledInv'
         /\ Unlimited /\ ReplayInv => ReplayInv'
         /\ Unlimited /\ ReplayInv /\ FollowInv => FollowInv'
<1>0. /\ now' = t /\ hasChanged' = FALSE /\ now' \in Times \cup {0} /\ hasChanged' \in BOOLEAN
      /\ t \in Int /\ 0 <= t /\ t < MaxDouble
  BY TimesBounded DEF Update
<1>1. /\ commands \in Seq(Entries) /\ InOrder(commands) /\ Len(commands) <= MaxCommands
      /\ Len(commands) \in Nat /\ MaxCommands \in Nat /\ executed \in Int
  BY DataFacts, TimesBounded
<1>2. CASE KickOut(t) /\ UNCHANGED <<slice, range, prefs>>
  <2>1. /\ commands' = commands /\ cache' = cache /\ executed' = executed /\ earliest' = earliest
        /\ changed' = changed /\ range' = range /\ prefs' = prefs
    BY <1>2 DEF slice
  <2>2. DataInv'
    BY <1>0, <2>1 DEF DataInv
  <2>3. range.lo <= t /\ t < range.hi
    BY <1>2 DEF KickOut
  <2>4. RangeInv'
    BY <1>0, <2>1, <2>3 DEF RangeInv, NoRange
  <2>5. SettledInv'
    <3>1. /\ earliest = MaxDouble
          /\ \A i \in 1 .. Len(commands) : commands[i].time <= t <=> commands[i].time <= executed
      BY <1>0, <1>2, SameInRange
    <3>2. Through(commands, t) = Through(commands, executed)
      BY <1>0, <1>1, <3>1, ThroughGrows
    <3>. QED BY <1>0, <2>1, <3>1, <3>2 DEF SettledInv
  <2>6. (ReplayInv => ReplayInv') /\ (FollowInv => FollowInv')
    BY <2>1 DEF ReplayInv, FollowInv, Fields
  <2>. QED BY <2>2, <2>4, <2>5, <2>6
<1>3. CASE UpdateBeforeFirst(t)
  <2>1. /\ t < FirstTime /\ changed' = TRUE /\ cache' = Empty /\ executed' = Never
        /\ earliest' = MaxDouble /\ range' = [lo |-> -1, hi |-> FirstTime]
        /\ commands' = commands /\ prefs' = prefs
    BY <1>3 DEF UpdateBeforeFirst
  <2>2. /\ FirstTime \in Int /\ 0 <= FirstTime /\ FirstTime <= MaxDouble
        /\ \A i \in 1 .. Len(commands) : t < commands[i].time /\ FirstTime <= commands[i].time
    BY <1>0, <1>1, <2>1, FirstIs
  <2>. DEFINE h == FirstTime
  <2>3. range' = [lo |-> -1, hi |-> h] /\ h \in -2 .. MaxDouble /\ -1 \in -1 .. MaxDouble
    BY <2>1, <2>2, TimesBounded
  <2>. HIDE DEF h
  <2>4. /\ range' \in [lo : -1 .. MaxDouble, hi : Never .. MaxDouble]
        /\ range'.lo = -1 /\ range'.hi = h
    BY <2>3 DEF Never
  <2>5. DataInv'
    BY <1>0, <2>1, <2>4, EmptyIs DEF DataInv
  <2>6. RangeInv'
    <3>1. h = FirstTime
      BY DEF h
    <3>. QED BY <1>0, <2>1, <2>2, <2>4, <3>1 DEF RangeInv
  <2>7. Through(commands, Never) = 0 /\ Through(commands, t) = 0
    BY <1>0, <1>1, <2>2, StartIs, NoneBefore
  <2>8. SettledInv'
    BY <1>0, <2>1, <2>7 DEF SettledInv
  <2>9. Through(commands', executed') = 0 /\ \A f \in Fields : cache'[f] = Empty[f]
    BY <2>1, <2>7
  <2>10. ReplayInv'
    BY <2>9, SaysNothing DEF ReplayInv, Fields, Empty
  <2>11. FollowInv'
    BY <2>9, SaysNothing DEF FollowInv, Fields
  <2>. QED BY <2>5, <2>6, <2>8, <2>10, <2>11
<1>4. CASE ~KickOut(t) /\ UpdateExecuting(t)
  <2>1. /\ cache' \in Sources /\ prefs' \in Sources /\ changed' \in BOOLEAN
        /\ commands' = commands \/ commands' = Limited(commands)
        /\ Unlimited => commands' = commands
        /\ executed' \in CommandTimes \cup {Never} /\ earliest' = MaxDouble
        /\ Through(commands, executed') = Through(commands, t)
        /\ range' \in [lo : -1 .. MaxDouble, hi : Never .. MaxDouble]
        /\ RangeInv'
        /\ Unlimited => SettledInv'
        /\ ReplayInv => \A f \in Fields : Says(commands, f, Through(commands, t), cache'[f])
        /\ ReplayInv /\ FollowInv =>
             \A f \in Fields : \/ Silent(commands, f, Through(commands, t))
                               \/ Says(commands, f, Through(commands, t), prefs'[f])
    BY <1>0, <1>4, ExecutingIs
  <2>2. commands' \in Seq(Entries) /\ InOrder(commands') /\ Len(commands') <= MaxCommands
    <3>1. /\ Limited(commands) \in Seq(Entries) /\ InOrder(Limited(commands))
          /\ Len(Limited(commands)) <= Len(commands)
      BY <1>1, LimitedIs
    <3>2. Len(Limited(commands)) \in Nat
      BY <3>1, EntryIs
    <3>3. Len(Limited(commands)) <= MaxCommands
      BY <1>1, <3>1, <3>2
    <3>. QED BY <1>1, <2>1, <3>1, <3>3
  <2>3. DataInv'
    BY <1>0, <2>1, <2>2 DEF DataInv
  <2>4. ASSUME Unlimited, ReplayInv PROVE ReplayInv'
    <3>1. \A f \in Fields : Says(commands', f, Through(commands', executed'), cache'[f])
      BY <2>1, <2>4
    <3>. QED BY <3>1 DEF ReplayInv, Fields
  <2>5. ASSUME Unlimited, ReplayInv, FollowInv PROVE FollowInv'
    <3>1. \A f \in Fields : \/ Silent(commands', f, Through(commands', executed'))
                            \/ Says(commands', f, Through(commands', executed'), prefs'[f])
      BY <2>1, <2>5
    <3>. QED BY <3>1 DEF FollowInv, Fields
  <2>. QED BY <2>1, <2>3, <2>4, <2>5
<1>. QED BY <1>2, <1>3, <1>4 DEF Update

\* Insert
LEMMA InsertStep ==
  ASSUME DataInv, NEW c \in Commands, Insert(c)
  PROVE  /\ DataInv' /\ RangeInv' /\ SettledInv'
         /\ Unlimited /\ ReplayInv => ReplayInv'
         /\ Unlimited /\ FollowInv => FollowInv'
<1>0. /\ Len(commands) < MaxCommands
      /\ commands' = Limited(Inserted(c))
      /\ earliest' = IF c.time < earliest THEN c.time ELSE earliest
      /\ Notify /\ hasChanged' = TRUE
      /\ cache' = cache /\ executed' = executed /\ changed' = changed /\ prefs' = prefs /\ now' = now
  BY DEF Insert
<1>. DEFINE q == Inserted(c)
            k == Before(commands, c.time)
<1>1. c \in Entries /\ c.time \in CommandTimes /\ c.time \in Int
  <2>1. c \in Entries
    BY CommandsIs
  <2>2. c.time \in CommandTimes
    BY <2>1 DEF Entries
  <2>. QED BY <2>1, <2>2, TimesBounded
<1>2. /\ commands \in Seq(Entries) /\ InOrder(commands) /\ Len(commands) \in Nat /\ MaxCommands \in Nat
      /\ executed \in Int /\ earliest \in Int
  BY DataFacts, TimesBounded
<1>3. /\ q \in Seq(Entries) /\ InOrder(q) /\ Len(q) <= Len(commands) + 1
      /\ k \in 0 .. Len(q) /\ \A i \in 1 .. k : q[i] = commands[i]
      /\ \A i \in 1 .. Len(q) : k < i => c.time <= q[i].time
  BY <1>1, <1>2, InsertedIs
<1>4. k \in 0 .. Len(commands) /\ \A i \in 1 .. Len(commands) : commands[i].time < c.time <=> i <= k
  BY <1>1, <1>2, BeforeExists
<1>. HIDE DEF q, k
<1>5. commands' = Limited(q)
  BY <1>0 DEF q
<1>6. commands' \in Seq(Entries) /\ InOrder(commands') /\ Len(commands') <= MaxCommands
  <2>1. Limited(q) \in Seq(Entries) /\ InOrder(Limited(q)) /\ Len(Limited(q)) <= Len(q)
    BY <1>3, LimitedIs
  <2>2. Len(Limited(q)) \in Nat /\ Len(q) \in Nat
    BY <1>3, <2>1, EntryIs
  <2>3. Len(Limited(q)) <= MaxCommands
    BY <1>0, <1>2, <1>3, <2>1, <2>2
  <2>. QED BY <1>5, <2>1, <2>3
<1>7. DataInv'
  <2>1. range' \in [lo : -1 .. MaxDouble, hi : Never .. MaxDouble]
    BY <1>0, ResetIs
  <2>2. earliest' \in CommandTimes \cup {MaxDouble}
    BY <1>0, <1>1 DEF DataInv
  <2>. QED BY <1>0, <1>6, <2>1, <2>2 DEF DataInv
<1>8. RangeInv' /\ SettledInv'
  BY <1>0, ResetIs DEF SettledInv, Settled
<1>9. ASSUME Unlimited, earliest' > executed'
      PROVE  /\ earliest > executed
             /\ Through(commands', executed') = Through(commands, executed)
             /\ \A i \in 1 .. Through(commands, executed) : commands'[i] = commands[i]
             /\ Through(commands, executed) \in Nat
  <2>. DEFINE m == Through(commands, executed)
  <2>1. commands' = q
    BY <1>3, <1>5, <1>9, LimitedIs
  <2>2. earliest > executed /\ c.time > executed
    BY <1>0, <1>1, <1>2, <1>9
  <2>3. m \in 0 .. Len(commands) /\ \A i \in 1 .. Len(commands) : commands[i].time <= executed <=> i <= m
    BY <1>2, ThroughExists
  <2>. HIDE DEF m
  <2>4. /\ Len(q) \in Nat /\ \A i \in 1 .. Len(q) : q[i].time \in Int
        /\ \A i \in 1 .. Len(commands) : commands[i].time \in Int
    BY <1>2, <1>3, EntryIs
  <2>5. m <= k
    <3>1. CASE m = 0
      BY <1>4, <3>1
    <3>2. CASE m # 0
      <4>1. m \in 1 .. Len(commands) /\ m <= m
        BY <1>2, <2>3, <3>2
      <4>2. commands[m].time <= executed /\ commands[m].time \in Int
        BY <2>3, <2>4, <4>1
      <4>3. commands[m].time < c.time
        BY <1>1, <1>2, <2>2, <4>2
      <4>. QED BY <1>4, <4>1, <4>3
    <3>. QED BY <3>1, <3>2
  <2>6. ASSUME NEW i \in 1 .. Len(q) PROVE q[i].time <= executed <=> i <= m
    <3>1. CASE i <= k
      <4>1. i \in 1 .. k /\ i \in 1 .. Len(commands)
        BY <1>2, <1>4, <3>1
      <4>. QED BY <1>3, <2>3, <4>1
    <3>2. CASE ~(i <= k)
      <4>1. c.time <= q[i].time /\ ~(i <= m)
        BY <1>3, <1>4, <2>3, <2>5, <3>2
      <4>. QED BY <1>1, <1>2, <2>2, <2>4, <4>1
    <3>. QED BY <3>1, <3>2
  <2>7. m \in 0 .. Len(q) /\ m \in Nat
    BY <1>3, <2>3, <2>4, <2>5
  <2>8. Through(q, executed) = m
    BY <1>2, <1>3, <2>6, <2>7, ThroughUnique
  <2>9. \A i \in 1 .. m : q[i] = commands[i]
    <3>1. \A i \in 1 .. m : i \in 1 .. k
      BY <1>4, <2>5, <2>7
    <3>. QED BY <1>3, <3>1
  <2>. QED BY <1>0, <2>1, <2>2, <2>7, <2>8, <2>9 DEF m
<1>10. ASSUME Unlimited, ReplayInv PROVE ReplayInv'
  <2>1. ASSUME earliest' > executed', NEW f \in Fields
        PROVE  Says(commands', f, Through(commands', executed'), cache'[f])
    <3>1. Says(commands, f, Through(commands, executed), cache[f])
      BY <1>9, <1>10, <2>1 DEF ReplayInv
    <3>2. Says(commands', f, Through(commands, executed), cache[f])
      BY <1>9, <1>10, <2>1, <3>1, SaysSame
    <3>. QED BY <1>0, <1>9, <1>10, <2>1, <3>2
  <2>. QED BY <2>1 DEF ReplayInv, Fields
<1>11. ASSUME Unlimited, FollowInv PROVE FollowInv'
  <2>1. ASSUME earliest' > executed', NEW f \in Fields
        PROVE  \/ Silent(commands', f, Through(commands', executed'))
               \/ Says(commands', f, Through(commands', executed'), prefs'[f])
    <3>. DEFINE m == Through(commands, executed)
    <3>1. Silent(commands, f, m) \/ Says(commands, f, m, prefs[f])
      BY <1>9, <1>11, <2>1 DEF FollowInv
    <3>2. Silent(commands', f, m) \/ Says(commands', f, m, prefs[f])
      BY <1>9, <1>11, <2>1, <3>1, SaysSame
    <3>. QED BY <1>0, <1>9, <1>11, <2>1, <3>2
  <2>. QED BY <2>1 DEF FollowInv, Fields
<1>. QED BY <1>7, <1>8, <1>10, <1>11

\* Flush
LEMMA FlushStep ==
  ASSUME DataInv, NEW start \in CommandTimes \cup {MaxDouble}, NEW end \in CommandTimes \cup {MaxDouble},
         Flush(start, end)
  PROVE  DataInv' /\ RangeInv' /\ SettledInv' /\ Happens("flush")
<1>0. /\ Happens("flush") /\ commands' = Flushed(start, end) /\ earliest' = MaxDouble
      /\ Notify /\ hasChanged' = TRUE
      /\ cache' = cache /\ executed' = executed /\ changed' = changed /\ prefs' = prefs /\ now' = now
  BY DEF Flush
<1>1. start \in Int /\ end \in Int
  BY TimesBounded
<1>2. /\ commands \in Seq(Entries) /\ InOrder(commands) /\ Len(commands) \in Nat
      /\ Len(commands) <= MaxCommands /\ MaxCommands \in Nat
  BY DataFacts, TimesBounded
<1>3. commands' \in Seq(Entries) /\ InOrder(commands') /\ Len(commands') <= Len(commands)
  BY <1>0, <1>1, <1>2, FlushedIs
<1>4. Len(commands') <= MaxCommands
  <2>1. Len(commands') \in Nat
    BY <1>3, EntryIs
  <2>. QED BY <1>2, <1>3, <2>1
<1>5. range' \in [lo : -1 .. MaxDouble, hi : Never .. MaxDouble] /\ RangeInv'
  BY <1>0, ResetIs
<1>6. DataInv'
  BY <1>0, <1>3, <1>4, <1>5 DEF DataInv
<1>. QED BY <1>0, <1>5, <1>6 DEF SettledInv, Settled

\* Modify
LEMMA ModifyStep ==
  ASSUME DataInv, NEW fields \in ClearSpace, Modify(fields)
  PROVE  DataInv' /\ RangeInv' /\ SettledInv' /\ ReplayInv' /\ FollowInv'
<1>. DEFINE n      == Len(commands)
            pruned == [i \in DOMAIN commands |-> [commands[i] EXCEPT !.sets = Without(@, fields)]]
<1>0. /\ commands' = DropEmptied(pruned)
      /\ changed' = TRUE /\ cache' = Empty /\ executed' = Never /\ earliest' = MaxDouble
      /\ Notify /\ hasChanged' = TRUE /\ prefs' = prefs /\ now' = now
  BY DEF Modify
<1>1. /\ commands \in Seq(Entries) /\ InOrder(commands) /\ n \in Nat
      /\ n <= MaxCommands /\ MaxCommands \in Nat /\ DOMAIN commands = 1 .. n
      /\ \A i \in 1 .. n : commands[i] \in Entries /\ commands[i].sets \in Sources
  BY DataFacts, TimesBounded, EntryIs
<1>2. fields \in Sources
  BY SpaceIs
<1>3. ASSUME NEW i \in 1 .. n
      PROVE  /\ [commands[i] EXCEPT !.sets = Without(@, fields)] \in Pruned
             /\ [commands[i] EXCEPT !.sets = Without(@, fields)].time = commands[i].time
  <2>. DEFINE w == Without(commands[i].sets, fields)
              e == [commands[i] EXCEPT !.sets = w]
  <2>1. w \in Sources
    BY <1>1, <1>2, WithoutIs
  <2>. HIDE DEF w
  <2>2. commands[i] \in Entries
    BY <1>1
  <2>3. e \in Pruned /\ e.time = commands[i].time
    BY <2>1, <2>2 DEF Entries, Pruned
  <2>. QED BY <2>3 DEF w
<1>4. pruned \in Seq(Pruned) /\ Len(pruned) = n /\ \A i \in 1 .. n : pruned[i].time = commands[i].time
  <2>1. pruned \in [1 .. n -> Pruned]
    BY <1>1, <1>3
  <2>2. \A i \in 1 .. n : pruned[i].time = commands[i].time
    BY <1>1, <1>3
  <2>. HIDE DEF pruned
  <2>3. pruned \in Seq(Pruned) /\ Len(pruned) = n
    BY <1>1, <2>1
  <2>. QED BY <2>2, <2>3
<1>. HIDE DEF pruned
<1>5. InOrder(pruned)
  BY <1>1, <1>4 DEF InOrder
<1>6. commands' \in Seq(Entries) /\ InOrder(commands') /\ Len(commands') <= n
  BY <1>0, <1>4, <1>5, DropIs
<1>7. Len(commands') <= MaxCommands
  <2>1. Len(commands') \in Nat
    BY <1>6, EntryIs
  <2>. QED BY <1>1, <1>6, <2>1
<1>8. range' \in [lo : -1 .. MaxDouble, hi : Never .. MaxDouble] /\ RangeInv'
  BY <1>0, ResetIs
<1>9. DataInv'
  BY <1>0, <1>6, <1>7, <1>8, EmptyIs DEF DataInv
<1>10. Through(commands', executed') = 0
  BY <1>0, <1>6, StartIs
<1>11. ReplayInv' /\ FollowInv'
  BY <1>0, <1>10, SaysNothing DEF ReplayInv, FollowInv, Fields, Empty
<1>. QED BY <1>0, <1>8, <1>9, <1>11 DEF SettledInv, Settled

\* CommitPrefs
LEMMA CommitStep ==
  ASSUME DataInv, RangeInv, NEW p \in FieldSpace \cup {Empty}, CommitPrefs(p)
  PROVE  /\ DataInv' /\ RangeInv' /\ SettledInv'
         /\ Unlimited /\ ReplayInv => ReplayInv'
         /\ Unlimited /\ ~Happens("override") /\ FollowInv => FollowInv'
<1>0. /\ \A f \in Fields : p[f] # prefs[f] /\ Spoken(f) => Happens("override")
      /\ prefs' = p /\ commands' = Limited(commands)
      /\ IF commands' = commands THEN range' = range ELSE Notify
      /\ hasChanged' = TRUE
      /\ cache' = cache /\ executed' = executed /\ earliest' = earliest /\ changed' = changed /\ now' = now
  BY DEF CommitPrefs
<1>1. /\ commands \in Seq(Entries) /\ InOrder(commands) /\ Len(commands) \in Nat
      /\ Len(commands) <= MaxCommands /\ MaxCommands \in Nat /\ DOMAIN commands = 1 .. Len(commands)
      /\ executed \in Int
  BY DataFacts, TimesBounded, EntryIs
<1>2. p \in Sources
  BY SpaceIs, EmptyIs
<1>3. /\ commands' \in Seq(Entries) /\ InOrder(commands') /\ Len(commands') <= Len(commands)
      /\ Unlimited => commands' = commands
  BY <1>0, <1>1, LimitedIs
<1>4. Len(commands') <= MaxCommands
  <2>1. Len(commands') \in Nat
    BY <1>3, EntryIs
  <2>. QED BY <1>1, <1>3, <2>1
<1>5. range' \in [lo : -1 .. MaxDouble, hi : Never .. MaxDouble] /\ RangeInv'
  <2>1. CASE commands' = commands
    <3>1. range' = range
      BY <1>0, <2>1
    <3>. QED BY <1>0, <2>1, <3>1 DEF RangeInv, NoRange, DataInv
  <2>2. CASE commands' # commands
    BY <1>0, <2>2, ResetIs
  <2>. QED BY <2>1, <2>2
<1>6. DataInv'
  BY <1>0, <1>2, <1>3, <1>4, <1>5 DEF DataInv
<1>7. ASSUME Unlimited, ReplayInv PROVE ReplayInv'
  BY <1>0, <1>3, <1>7 DEF ReplayInv, Fields
<1>8. ASSUME Unlimited, ~Happens("override"), FollowInv PROVE FollowInv'
  <2>. DEFINE m == Through(commands, executed)
  <2>1. ASSUME earliest > executed, NEW f \in Fields
        PROVE  Silent(commands, f, m) \/ Says(commands, f, m, p[f])
    <3>1. CASE p[f] = prefs[f]
      BY <1>8, <2>1, <3>1 DEF FollowInv
    <3>2. CASE p[f] # prefs[f]
      <4>1. \A i \in 1 .. Len(commands) : commands[i].sets[f] = Empty[f]
        BY <1>0, <1>1, <1>8, <3>2 DEF Spoken
      <4>2. m \in 0 .. Len(commands)
        BY <1>1, ThroughExists
      <4>3. Silent(commands, f, m)
        <5>1. \A i \in 1 .. m : i \in 1 .. Len(commands)
          BY <1>1, <4>2
        <5>. QED BY <4>1, <5>1 DEF Silent, Speaks
      <4>. QED BY <4>3
    <3>. QED BY <3>1, <3>2
  <2>2. commands' = commands /\ executed' = executed /\ earliest' = earliest /\ prefs' = p
    BY <1>0, <1>3, <1>8
  <2>. QED BY <2>1, <2>2 DEF FollowInv, Fields
<1>. QED BY <1>0, <1>5, <1>6, <1>7, <1>8 DEF SettledInv, Settled

-----------------------------------------------------------------------------
(* Invariants                                                                *)

LEMMA DataStep == DataInv /\ RangeInv /\ [Next]_vars => DataInv' /\ RangeInv'
<1>. SUFFICES ASSUME DataInv, RangeInv, [Next]_vars PROVE DataInv' /\ RangeInv'
  OBVIOUS
<1>1. CASE \E t \in Times : Update(t)
  BY <1>1, UpdateStep
<1>2. CASE \E c \in Commands : Insert(c)
  BY <1>2, InsertStep
<1>3. CASE \E start, end \in CommandTimes \cup {MaxDouble} : Flush(start, end)
  BY <1>3, FlushStep
<1>4. CASE \E fields \in ClearSpace : Modify(fields)
  BY <1>4, ModifyStep
<1>5. CASE \E p \in FieldSpace \cup {Empty} : CommitPrefs(p)
  BY <1>5, CommitStep
<1>6. CASE UNCHANGED vars
  BY <1>6 DEF vars, slice, store, DataInv, RangeInv, NoRange
<1>. QED BY <1>1, <1>2, <1>3, <1>4, <1>5, <1>6 DEF Next

\* The command state is that of the commands executed, unless a flush takes
\* executed commands away.
LEMMA ReplayStep ==
  /\ ~Happens("flush") /\ Unlimited
  /\ DataInv /\ RangeInv /\ SettledInv /\ ReplayInv /\ [Next]_vars
  => SettledInv' /\ ReplayInv'
<1>. SUFFICES ASSUME ~Happens("flush"), Unlimited,
                     DataInv, RangeInv, SettledInv, ReplayInv, [Next]_vars
              PROVE  SettledInv' /\ ReplayInv'
  OBVIOUS
<1>1. CASE \E t \in Times : Update(t)
  BY <1>1, UpdateStep
<1>2. CASE \E c \in Commands : Insert(c)
  BY <1>2, InsertStep
<1>3. CASE \E start, end \in CommandTimes \cup {MaxDouble} : Flush(start, end)
  BY <1>3, FlushStep
<1>4. CASE \E fields \in ClearSpace : Modify(fields)
  BY <1>4, ModifyStep
<1>5. CASE \E p \in FieldSpace \cup {Empty} : CommitPrefs(p)
  BY <1>5, CommitStep
<1>6. CASE UNCHANGED vars
  BY <1>6 DEF vars, slice, store, SettledInv, Settled, ReplayInv, Fields
<1>. QED BY <1>1, <1>2, <1>3, <1>4, <1>5, <1>6 DEF Next

\* The preferences follow it, unless the user sets what the commands speak of.
LEMMA FollowStep ==
  /\ ~Happens("flush") /\ ~Happens("override") /\ Unlimited
  /\ DataInv /\ RangeInv /\ ReplayInv /\ FollowInv /\ [Next]_vars
  => FollowInv'
<1>. SUFFICES ASSUME ~Happens("flush"), ~Happens("override"), Unlimited,
                     DataInv, RangeInv, ReplayInv, FollowInv, [Next]_vars
              PROVE  FollowInv'
  OBVIOUS
<1>1. CASE \E t \in Times : Update(t)
  BY <1>1, UpdateStep
<1>2. CASE \E c \in Commands : Insert(c)
  BY <1>2, InsertStep
<1>3. CASE \E start, end \in CommandTimes \cup {MaxDouble} : Flush(start, end)
  BY <1>3, FlushStep
<1>4. CASE \E fields \in ClearSpace : Modify(fields)
  BY <1>4, ModifyStep
<1>5. CASE \E p \in FieldSpace \cup {Empty} : CommitPrefs(p)
  BY <1>5, CommitStep
<1>6. CASE UNCHANGED vars
  BY <1>6 DEF vars, slice, store, FollowInv, Fields
<1>. QED BY <1>1, <1>2, <1>3, <1>4, <1>5, <1>6 DEF Next

LEMMA DataAlways == Spec => [](DataInv /\ RangeInv)
<1>1. Init => DataInv /\ RangeInv
  BY InitIs
<1>. QED BY <1>1, DataStep, PTL DEF Spec

LEMMA ReplayAlways ==
  ~Happens("flush") /\ Unlimited /\ Spec => [](DataInv /\ SettledInv /\ ReplayInv)
<1>. SUFFICES ASSUME ~Happens("flush"), Unlimited
              PROVE  Spec => [](DataInv /\ SettledInv /\ ReplayInv)
  OBVIOUS
<1>1. Init => SettledInv /\ ReplayInv
  BY InitIs
<1>2. DataInv /\ RangeInv /\ SettledInv /\ ReplayInv /\ [Next]_vars => SettledInv' /\ ReplayInv'
  BY ReplayStep
<1>. QED BY <1>1, <1>2, DataAlways, PTL DEF Spec

LEMMA FollowAlways ==
  ~Happens("flush") /\ ~Happens("override") /\ Unlimited /\ Spec
  => [](DataInv /\ SettledInv /\ FollowInv)
<1>. SUFFICES ASSUME ~Happens("flush"), ~Happens("override"), Unlimited
              PROVE  Spec => [](DataInv /\ SettledInv /\ FollowInv)
  OBVIOUS
<1>1. Init => FollowInv
  BY InitIs
<1>2. DataInv /\ RangeInv /\ ReplayInv /\ FollowInv /\ [Next]_vars => FollowInv'
  BY FollowStep
<1>3. Spec => [](DataInv /\ SettledInv /\ ReplayInv)
  BY ReplayAlways
<1>. QED BY <1>1, <1>2, <1>3, DataAlways, PTL DEF Spec

-----------------------------------------------------------------------------
(* Theorems                                                                  *)

\* The invariant says that the state is well formed.
LEMMA DataWellFormed == DataInv => WellFormed
<1>. SUFFICES ASSUME DataInv PROVE WellFormed
  OBVIOUS
<1>1. /\ commands \in Seq(Entries) /\ InOrder(commands) /\ DOMAIN commands = 1 .. Len(commands)
      /\ \A i \in 1 .. Len(commands) : commands[i] \in Entries
  BY DataFacts, EntryIs
<1>. DEFINE Kinds == [time : CommandTimes, clear : BOOLEAN, sets : Preferences \ {Empty}]
<1>2. Entries \subseteq Kinds
  BY DEF Entries, Sources
<1>3. commands \in Seq(Kinds)
  <2>. HIDE DEF Kinds
  <2>. QED BY <1>1, <1>2
<1>4. cache \in Preferences /\ prefs \in Preferences
  BY DEF DataInv, Sources
<1>5. TypeOK
  BY <1>3, <1>4 DEF TypeOK, DataInv
<1>6. Sorted
  BY <1>1 DEF Sorted, InOrder
<1>. QED BY <1>5, <1>6 DEF WellFormed

\* The commands stay in the order of their times, and every variable holds a
\* value the code can give it, whatever MemoryCommandSlice inserts, merges,
\* modifies, flushes and limits.
THEOREM CommandsAlwaysInOrder == Spec => []WellFormed
  BY DataAlways, DataWellFormed, PTL

\* The repeated field of the command state, of the preferences and of every
\* command has the values of one source: conditionalClearRepeatedFields_ stands
\* before every MergeFrom.
THEOREM NeverAccumulates == Spec => []NothingAccumulates
<1>1. DataInv => NothingAccumulates
  <2>. SUFFICES ASSUME DataInv,
                       NEW p \in {cache, prefs} \cup {commands[i].sets : i \in DOMAIN commands}
                PROVE  p.acceptprojectorids \in Repeated
    BY DEF NothingAccumulates, Repeated
  <2>1. /\ DOMAIN commands = 1 .. Len(commands)
        /\ \A i \in 1 .. Len(commands) : commands[i].sets \in Sources
    BY DataFacts, EntryIs
  <2>2. p \in Sources
    BY <2>1 DEF DataInv
  <2>. QED BY <2>2 DEF Sources
<1>. QED BY <1>1, DataAlways, PTL

\* CommandCache::update skips the slice for no time that a command separates
\* from the current one, whatever was inserted, flushed, modified and limited.
THEOREM RangeAlwaysHidesNothing == Spec => []RangeHidesNothing
<1>1. DataInv /\ RangeInv => RangeHidesNothing
  <2>. SUFFICES ASSUME DataInv, RangeInv, NEW t \in Times, KickOut(t)
                PROVE  UpTo(t) = UpTo(now)
    BY DEF RangeHidesNothing
  <2>1. t \in Int /\ t < MaxDouble
    BY TimesBounded
  <2>2. \A i \in 1 .. Len(commands) : commands[i].time <= t <=> commands[i].time <= now
    BY <2>1, SameInRange
  <2>3. DOMAIN commands = 1 .. Len(commands)
    BY DataFacts, EntryIs
  <2>. QED BY <2>2, <2>3 DEF UpTo
<1>. QED BY <1>1, DataAlways, PTL

\* The places of the commands up to a time, and what the last of them that
\* speaks says, in the words of the invariant
LEMMA CommandedSays ==
  ASSUME DataInv, NEW f \in Fields, NEW t \in Int
  PROVE  /\ Through(commands, t) \in Nat
         /\ Says(commands, f, Through(commands, t), Commanded(f, t))
         /\ Speaking(f, t) # {} => ~Silent(commands, f, Through(commands, t))
<1>. DEFINE n == Through(commands, t)
            S == Speaking(f, t)
<1>1. /\ DOMAIN commands = 1 .. Len(commands) /\ Len(commands) \in Nat
      /\ n \in 0 .. Len(commands)
      /\ \A i \in 1 .. Len(commands) : commands[i].time <= t <=> i <= n
  BY DataFacts, EntryIs, ThroughExists
<1>. HIDE DEF n
<1>2. \A i : i \in S <=> i \in 1 .. n /\ Speaks(commands, f, i)
  <2>1. \A i : i \in 1 .. n <=> i \in 1 .. Len(commands) /\ i <= n
    BY <1>1
  <2>. QED BY <1>1, <2>1 DEF Speaking, Speaks
<1>. HIDE DEF S
<1>3. CASE S = {}
  <2>1. Silent(commands, f, n)
    BY <1>2, <1>3 DEF Silent
  <2>2. Commanded(f, t) = Empty[f]
    BY <1>3 DEF Commanded, S
  <2>. QED BY <1>1, <1>3, <2>1, <2>2 DEF Says, n, S
<1>4. CASE S # {}
  <2>1. S \in SUBSET (1 .. n) /\ 1 \in Int /\ n \in Int
    BY <1>1, <1>2
  <2>2. Greatest(S) # {}
    BY <1>4, <2>1, BoundedExtremes
  <2>3. \E i \in S : \A j \in S : j <= i
    BY <2>2, TheGreatest
  <2>. DEFINE w == LastWord(f, t)
  <2>4. w \in S /\ \A j \in S : j <= w
    BY <2>3 DEF LastWord, S
  <2>. HIDE DEF w
  <2>5. w \in 1 .. n /\ Speaks(commands, f, w)
    BY <1>2, <2>4
  <2>6. \A j \in 1 .. n : w < j => ~Speaks(commands, f, j)
    <3>1. \A j \in 1 .. n : w < j => ~(j <= w)
      BY <2>1, <2>5
    <3>. QED BY <1>2, <2>4, <3>1
  <2>7. Commanded(f, t) = Left(commands, f, w)
    BY <1>4 DEF Commanded, Left, S, w
  <2>8. LastOf(commands, f, n, w)
    BY <2>5, <2>6 DEF LastOf
  <2>9. Says(commands, f, n, Commanded(f, t)) /\ ~Silent(commands, f, n)
    BY <2>5, <2>7, <2>8 DEF Says, Silent
  <2>. QED BY <1>1, <2>9 DEF n
<1>. QED BY <1>3, <1>4

\* What is settled has executed all commands up to the current time.
LEMMA SettledIs ==
  ASSUME DataInv, SettledInv, Settled
  PROVE  earliest > executed /\ Through(commands, executed) = Through(commands, now) /\ now \in Int
<1>1. earliest = MaxDouble /\ Through(commands, executed) = Through(commands, now)
  BY DEF SettledInv
<1>. QED BY <1>1, DataFacts, TimesBounded

\* After an update the command state is that of all commands up to the time,
\* however the time moved and in whatever order MemoryCommandSlice::insert got
\* them, where no flush and no data limiting takes executed commands away.
THEOREM CacheAlwaysReplay ==
  ~Happens("flush") /\ Unlimited /\ Spec => []CacheIsReplay
<1>1. DataInv /\ SettledInv /\ ReplayInv => CacheIsReplay
  <2>. SUFFICES ASSUME DataInv, SettledInv, ReplayInv, Settled, NEW f \in Fields
                PROVE  cache[f] = Commanded(f, now)
    BY DEF CacheIsReplay
  <2>. DEFINE n == Through(commands, now)
  <2>1. earliest > executed /\ Through(commands, executed) = n /\ now \in Int
    BY SettledIs
  <2>2. n \in Nat /\ Says(commands, f, n, Commanded(f, now))
    BY <2>1, CommandedSays
  <2>3. Says(commands, f, n, cache[f])
    BY <2>1 DEF ReplayInv
  <2>. HIDE DEF n
  <2>. QED BY <2>2, <2>3, SaysOnce
<1>. QED BY <1>1, ReplayAlways, PTL

\* A field that the commands up to the time set or clear has that value in the
\* preferences after an update, where in addition the user leaves such fields
\* alone ("commands override prefs settings").
THEOREM PrefsAlwaysFollow ==
  ~Happens("flush") /\ ~Happens("override") /\ Unlimited /\ Spec => []PrefsFollow
<1>1. DataInv /\ SettledInv /\ FollowInv => PrefsFollow
  <2>. SUFFICES ASSUME DataInv, SettledInv, FollowInv, Settled, NEW f \in Fields, Speaking(f, now) # {}
                PROVE  prefs[f] = Commanded(f, now)
    BY DEF PrefsFollow
  <2>. DEFINE n == Through(commands, now)
  <2>1. earliest > executed /\ Through(commands, executed) = n /\ now \in Int
    BY SettledIs
  <2>2. n \in Nat /\ Says(commands, f, n, Commanded(f, now)) /\ ~Silent(commands, f, n)
    BY <2>1, CommandedSays
  <2>3. Silent(commands, f, n) \/ Says(commands, f, n, prefs[f])
    BY <2>1 DEF FollowInv
  <2>. HIDE DEF n
  <2>. QED BY <2>2, <2>3, SaysOnce
<1>. QED BY <1>1, FollowAlways, PTL
=============================================================================
