------------------------------- MODULE TimeSets -------------------------------
(* Sets of times: their least and greatest members, and the neighbours of  *)
(* a time.  Each operator returns a set with at most one member, so that   *)
(* "there is none" needs no special value.                                 *)
EXTENDS Integers

The(S)      == CHOOSE x \in S : TRUE
Least(S)    == {p \in S : \A q \in S : p <= q}
Greatest(S) == {p \in S : \A q \in S : q <= p}
=============================================================================
