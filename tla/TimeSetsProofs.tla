---------------------------- MODULE TimeSetsProofs ----------------------------
(* Facts for the proofs of several modules: a set of naturals has a least  *)
(* member, a bounded one a greatest, and both are unique; a function that  *)
(* is defined step by step exists.                                         *)
EXTENDS TimeSets, WellFoundedInduction, TLAPS

NatLess == {ss \in Nat \X Nat : ss[1] < ss[2]}

\* The order of the naturals is well founded, in the form WFMin takes.
LEMMA NatLessIsWellFounded == IsWellFoundedOn(NatLess, Nat)
  BY NatLessThanWellFounded DEF OpToRel, NatLess

\* A set of naturals has a least member.
LEMMA LeastNatExists ==
  ASSUME NEW S \in SUBSET Nat, S # {}
  PROVE  \E m \in S : \A x \in S : m <= x
<1>1. PICK m \in S : \A y \in S : ~ (<<y, m>> \in NatLess)
  BY NatLessIsWellFounded, WFMin
<1>2. ASSUME NEW x \in S PROVE m <= x
  <2>1. m \in Nat /\ x \in Nat /\ ~ (<<x, m>> \in NatLess)
    BY <1>1
  <2>2. <<x, m>> \in Nat \X Nat /\ <<x, m>>[1] = x /\ <<x, m>>[2] = m
    BY <2>1
  <2>3. ~ (x < m)
    BY <2>1, <2>2 DEF NatLess
  <2>. QED BY <2>1, <2>3
<1>. QED BY <1>2

\* A set of integers that lies between two bounds has a least and a greatest
\* member.
LEMMA BoundedExtremes ==
  ASSUME NEW lo \in Int, NEW hi \in Int, NEW S \in SUBSET (lo .. hi), S # {}
  PROVE  Least(S) # {} /\ Greatest(S) # {}
<1>. DEFINE Up   == {n \in Nat : lo + n \in S}
            Down == {n \in Nat : hi - n \in S}
<1>0. PICK s \in S : TRUE
  OBVIOUS
<1>1. s - lo \in Up /\ hi - s \in Down
  BY <1>0
<1>2. Up \in SUBSET Nat /\ Up # {} /\ Down \in SUBSET Nat /\ Down # {}
  BY <1>1
<1>3. PICK u \in Up : \A x \in Up : u <= x
  <2>. HIDE DEF Up
  <2>. QED BY <1>2, LeastNatExists
<1>4. PICK d \in Down : \A x \in Down : d <= x
  <2>. HIDE DEF Down
  <2>. QED BY <1>2, LeastNatExists
<1>5. lo + u \in S /\ \A q \in S : lo + u <= q
  <2>1. u \in Nat /\ lo + u \in S
    OBVIOUS
  <2>2. ASSUME NEW q \in S PROVE lo + u <= q
    <3>1. q \in Int /\ q - lo \in Up
      OBVIOUS
    <3>2. u <= q - lo
      BY <1>3, <3>1
    <3>. QED BY <2>1, <3>1, <3>2
  <2>. QED BY <2>1, <2>2
<1>6. hi - d \in S /\ \A q \in S : q <= hi - d
  <2>1. d \in Nat /\ hi - d \in S
    OBVIOUS
  <2>2. ASSUME NEW q \in S PROVE q <= hi - d
    <3>1. q \in Int /\ hi - q \in Down
      OBVIOUS
    <3>2. d <= hi - q
      BY <1>4, <3>1
    <3>. QED BY <2>1, <3>1, <3>2
  <2>. QED BY <2>1, <2>2
<1>. QED BY <1>5, <1>6 DEF Least, Greatest

\* The(S) is a member of a set that has one.
LEMMA TheIsMember ==
  ASSUME NEW S, S # {}
  PROVE  The(S) \in S
  BY DEF The

\* The least member is below the others, the greatest above.
LEMMA TheLeast ==
  ASSUME NEW S, Least(S) # {}
  PROVE  The(Least(S)) \in S /\ \A q \in S : The(Least(S)) <= q
  BY DEF The, Least

LEMMA TheGreatest ==
  ASSUME NEW S, Greatest(S) # {}
  PROVE  The(Greatest(S)) \in S /\ \A q \in S : q <= The(Greatest(S))
  BY DEF The, Greatest

-----------------------------------------------------------------------------
(* Functions defined by recursion on a bounded number of steps               *)

StepsOf(size, values) == [(1 .. size) \X values -> values]

FoldOf(f, size, values, first, step) ==
  /\ f \in [0 .. size -> values] /\ f[0] = first
  /\ \A n \in 1 .. size : f[n] = step[<<n, f[n - 1]>>]

\* A function defined from its value one step before exists.
LEMMA Recursion ==
  ASSUME NEW size \in Nat, NEW values, NEW first \in values, NEW step \in StepsOf(size, values)
  PROVE  \E f : FoldOf(f, size, values, first, step)
<1>. DEFINE UpTo(f, m) == FoldOf(f, m, values, first, step)
            Bad        == {m \in 0 .. size : ~\E f : UpTo(f, m)}
<1>. USE DEF FoldOf
<1>1. CASE Bad = {}
  <2>1. size \in 0 .. size
    OBVIOUS
  <2>2. PICK f : UpTo(f, size)
    BY <1>1, <2>1
  <2>. QED BY <2>2
<1>2. CASE Bad # {}
  <2>1. Bad \in SUBSET Nat
    OBVIOUS
  <2>2. PICK m \in Bad : \A x \in Bad : m <= x
    <3>. HIDE DEF Bad
    <3>. QED BY <1>2, <2>1, LeastNatExists
  <2>3. m \in 0 .. size /\ ~\E f : UpTo(f, m)
    OBVIOUS
  <2>4. CASE m = 0
    <3>. DEFINE f == [i \in 0 .. 0 |-> first]
    <3>1. 0 .. 0 = {0} /\ 1 .. 0 = {}
      OBVIOUS
    <3>2. f \in [0 .. 0 -> values] /\ f[0] = first
      BY <3>1
    <3>3. UpTo(f, 0)
      <4>. HIDE DEF f
      <4>. QED BY <3>1, <3>2
    <3>. QED BY <2>3, <2>4, <3>3
  <2>5. CASE m # 0
    <3>1. m - 1 \in 0 .. size /\ ~(m <= m - 1) /\ m \in 1 .. size
      BY <2>3, <2>5
    <3>2. m - 1 \notin Bad
      <4>. HIDE DEF Bad
      <4>. QED BY <2>2, <3>1
    <3>3. PICK f : UpTo(f, m - 1)
      BY <3>1, <3>2
    <3>. DEFINE last == step[<<m, f[m - 1]>>]
                g    == [i \in 0 .. m |-> IF i = m THEN last ELSE f[i]]
    <3>4. f \in [0 .. m - 1 -> values] /\ f[0] = first /\ \A n \in 1 .. m - 1 : f[n] = step[<<n, f[n - 1]>>]
      BY <3>3
    <3>5. \A i \in 0 .. m : i = m \/ i \in 0 .. m - 1
      BY <3>1
    <3>6. m - 1 \in 0 .. m - 1 /\ 0 \in 0 .. m /\ 0 # m /\ m \in 0 .. m
      BY <3>1
    <3>7. last \in values
      <4>1. f[m - 1] \in values
        BY <3>4, <3>6
      <4>2. <<m, f[m - 1]>> \in (1 .. size) \X values
        BY <3>1, <4>1
      <4>. QED BY <4>2 DEF StepsOf
    <3>8. g \in [0 .. m -> values]
      <4>1. \A i \in 0 .. m : (IF i = m THEN last ELSE f[i]) \in values
        <5>. HIDE DEF last
        <5>. QED BY <3>4, <3>5, <3>7
      <4>. HIDE DEF last
      <4>. QED BY <4>1
    <3>9. g[0] = first /\ g[m] = last /\ \A i \in 0 .. m : i # m => g[i] = f[i]
      <4>. HIDE DEF last
      <4>. QED BY <3>4, <3>6
    <3>10. ASSUME NEW n \in 1 .. m PROVE g[n] = step[<<n, g[n - 1]>>]
      <4>1. n \in 0 .. m /\ n - 1 \in 0 .. m /\ n - 1 # m /\ (n # m => n \in 1 .. m - 1)
        BY <3>1
      <4>. HIDE DEF g
      <4>2. g[n - 1] = f[n - 1]
        BY <3>9, <4>1
      <4>3. CASE n = m
        BY <3>9, <4>2, <4>3
      <4>4. CASE n # m
        BY <3>4, <3>9, <4>1, <4>2, <4>4
      <4>. QED BY <4>3, <4>4
    <3>11. UpTo(g, m)
      <4>. HIDE DEF g
      <4>. QED BY <3>8, <3>9, <3>10, <3>4
    <3>. QED BY <2>3, <3>11
  <2>. QED BY <2>4, <2>5
<1>. QED BY <1>1, <1>2

\* What holds at first and from one step to the next holds throughout.
LEMMA Throughout ==
  ASSUME NEW size \in Nat, NEW Holds \in SUBSET Nat, 0 \in Holds,
         \A n \in 1 .. size : n - 1 \in Holds => n \in Holds
  PROVE  size \in Holds
<1>. DEFINE Bad == {m \in 0 .. size : m \notin Holds}
<1>. SUFFICES ASSUME size \notin Holds PROVE FALSE
  OBVIOUS
<1>1. size \in Bad /\ Bad \in SUBSET Nat
  OBVIOUS
<1>2. PICK m \in Bad : \A x \in Bad : m <= x
  <2>. HIDE DEF Bad
  <2>. QED BY <1>1, LeastNatExists
<1>3. m \in 0 .. size /\ m \notin Holds /\ m # 0
  OBVIOUS
<1>4. m - 1 \in 0 .. size /\ m \in 1 .. size /\ ~(m <= m - 1)
  BY <1>3
<1>5. m - 1 \in Holds
  BY <1>2, <1>4
<1>. QED BY <1>3, <1>4, <1>5
=============================================================================
