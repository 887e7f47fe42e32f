--------------------------- MODULE ListenerDispatch ---------------------------
(***************************************************************************)
(* How MemoryDataStore calls its listeners.  Every notification (an added, *)
(* removed or flushed entity, changed preferences or properties, update)   *)
(* walks a private copy of listeners_ and calls each entry that is not     *)
(* null.  A callback may add and remove listeners and may start another    *)
(* notification before it returns; removeListener() leaves the listener in *)
(* justRemoved_ and checkForRemoval_(), after every callback, clears it in *)
(* the copy of the loop that is running.                                   *)
(*                                                                         *)
(* A notification is a frame on the call stack.  It makes one or more      *)
(* rounds over its copy; in a round each listener gets one call or two     *)
(* (onPrefsChange, then onNameChange).                                     *)
(***************************************************************************)
EXTENDS Integers, Sequences, SequencesExt, FiniteSetsExt

CONSTANTS
  Listeners,   \* the listeners clients have
  Weight,      \* weight() of each of them
  Null,        \* the entry of a cleared pointer
  Rounds,      \* the sequences of rounds of the notifications: calls per listener
  MaxDepth     \* bound: notifications nest at most this deep

ASSUME WeightAssumption == Weight \in [Listeners -> Int]
ASSUME NullAssumption   == Null \notin Listeners
ASSUME RoundsAssumption == \A r \in Rounds : r \in Seq({1, 2}) /\ r # << >>
ASSUME DepthAssumption  == MaxDepth \in Nat

VARIABLES
  listeners,   \* listeners_
  justRemoved, \* justRemoved_
  stack        \* the notifications in progress, the innermost first

vars == <<listeners, justRemoved, stack>>

\* A frame: the copy, the position in it, the calls made to the listener
\* there, whether a call is running and the rounds left.  The last three are
\* history: the listeners that were registered all the time, those that were
\* called in this round, and whether a notification was nested in this one.
Frame(rounds) ==
  [copy |-> listeners, at |-> 0, calls |-> 0, running |-> FALSE, rounds |-> rounds,
   kept |-> Range(listeners), called |-> {}, nested |-> FALSE]

Top == Head(stack)
WithTop(frame) == <<frame>> \o Tail(stack)

\* Client code runs: outside of any notification or in a callback.
ClientRuns == stack # << >> => Top.running

-----------------------------------------------------------------------------
(* Registration                                                            *)

\* mutant: goes before the listeners of the same weight or less
InsertedFirst(l) == <<l>> \o listeners

\* addListener: before the first listener of a greater weight
Inserted(l) ==
  InsertAt(listeners,
           Min({i \in DOMAIN listeners : Weight[l] < Weight[listeners[i]]} \cup {Len(listeners) + 1}),
           l)

AddListener(l) ==
  /\ ClientRuns
  /\ l \notin Range(listeners)
  /\ listeners' = Inserted(l)
  /\ UNCHANGED <<justRemoved, stack>>

\* removeListener: a listener is registered once
RemoveListener(l) ==
  /\ ClientRuns
  /\ \E i \in DOMAIN listeners :
       /\ listeners[i] = l
       /\ listeners' = RemoveAt(listeners, i)
  /\ justRemoved' = justRemoved \cup {l}
  /\ stack' = [i \in DOMAIN stack |-> [stack[i] EXCEPT !.kept = @ \ {l}]]

-----------------------------------------------------------------------------
(* Notification                                                            *)

\* "Need to handle recursion so make a local copy"
Notify(rounds) ==
  /\ ClientRuns
  /\ Len(stack) < MaxDepth
  /\ justRemoved' = {}
  /\ stack' = <<Frame(rounds)>> \o [i \in DOMAIN stack |-> [stack[i] EXCEPT !.nested = TRUE]]
  /\ UNCHANGED listeners

\* The entries still to be called in this round
Remaining(frame) == {i \in DOMAIN frame.copy : i > frame.at /\ frame.copy[i] # Null}

TwiceDone(frame) == frame.at > 0 => frame.calls = Head(frame.rounds)

Called(frame, i, n) ==
  [frame EXCEPT !.at = i, !.calls = n, !.running = TRUE, !.called = @ \cup {frame.copy[i]}]

\* The next listener of the copy that is not null
CallNext ==
  /\ stack # << >> /\ ~Top.running
  /\ TwiceDone(Top) /\ Remaining(Top) # {}
  /\ stack' = WithTop(Called(Top, Min(Remaining(Top)), 1))
  /\ UNCHANGED <<listeners, justRemoved>>

\* onNameChange right after onPrefsChange: the pointer is not looked at again.
CallAgain ==
  /\ stack # << >> /\ ~Top.running
  /\ ~TwiceDone(Top)
  /\ stack' = WithTop(Called(Top, Top.at, 2))
  /\ UNCHANGED <<listeners, justRemoved>>

\* mutants: takes the removed entry out of the copy that is being walked;
\* clears the entry after the removed one
Shrunk(copy) == SelectSeq(copy, LAMBDA l : l \notin justRemoved)
ClearedNext(copy) ==
  [i \in DOMAIN copy |-> IF i > 1 /\ copy[i - 1] \in justRemoved THEN Null ELSE copy[i]]

\* checkForRemoval_
Cleared(copy) == [i \in DOMAIN copy |-> IF copy[i] \in justRemoved THEN Null ELSE copy[i]]

\* The callback returns to the loop, which checks for removal.
Return ==
  /\ stack # << >> /\ Top.running
  /\ stack' = WithTop([Top EXCEPT !.running = FALSE, !.copy = Cleared(@)])
  /\ justRemoved' = {}
  /\ UNCHANGED listeners

RoundDone(frame) == ~frame.running /\ TwiceDone(frame) /\ Remaining(frame) = {}

\* The next round goes over the same copy; after the last the loop ends.
EndRound ==
  /\ stack # << >> /\ RoundDone(Top)
  /\ stack' = IF Len(Top.rounds) = 1 THEN Tail(stack)
              ELSE WithTop([Top EXCEPT !.at = 0, !.calls = 0, !.rounds = Tail(@), !.called = {}])
  /\ UNCHANGED <<listeners, justRemoved>>

Init == listeners = << >> /\ justRemoved = {} /\ stack = << >>

Next ==
  \/ \E l \in Listeners : AddListener(l) \/ RemoveListener(l)
  \/ \E rounds \in Rounds : Notify(rounds)
  \/ CallNext \/ CallAgain \/ Return \/ EndRound

Spec == Init /\ [][Next]_vars
-----------------------------------------------------------------------------
(* Properties                                                              *)

\* Every variable holds a value the code can give it.
TypeOK ==
  /\ listeners \in Seq(Listeners)
  /\ justRemoved \subseteq Listeners
  /\ Len(stack) <= MaxDepth
  /\ \A i \in DOMAIN stack :
       LET f == stack[i]
       IN  /\ f.copy \in Seq(Listeners \cup {Null})
           /\ f.at \in 0 .. Len(f.copy) /\ f.calls \in 0 .. 2 /\ f.running \in BOOLEAN
           /\ f.rounds \in Seq({1, 2}) /\ f.rounds # << >>
           /\ f.kept \subseteq Listeners /\ f.called \subseteq Listeners \cup {Null}
           /\ f.nested \in BOOLEAN

\* The callback that is running or was called last
Current(frame) == frame.copy[frame.at]

\* "Controls the order that listeners are invoked; higher numbers are invoked
\* later": within a round no listener is called after one of a greater weight,
\* whatever was added and removed meanwhile.
CalledByWeight ==
  \A i \in DOMAIN stack : stack[i].running /\ Current(stack[i]) # Null =>
    \A l \in stack[i].called \ {Null} : Weight[l] <= Weight[Current(stack[i])]

\* The state is one the code can give, with calls in order of weight.
WellFormed == TypeOK /\ CalledByWeight

\* A listener that was registered when the notification began and was not
\* removed since has been called when the round is over, whatever nested
\* notifications did.
EveryoneCalled ==
  \A i \in DOMAIN stack : RoundDone(stack[i]) => stack[i].kept \subseteq stack[i].called

CallStep == CallNext \/ CallAgain

\* "Removed DURING the update but BEFORE it was called so the counter should
\* NOT have been incremented": only registered listeners are called.
OnlyRegisteredCalled ==
  [][CallStep /\ Current(stack'[1]) # Null => Current(stack'[1]) \in Range(listeners)]_vars

\* The same for a notification in which no other one was nested: what its own
\* callbacks remove it never calls again, neither in this round nor in a later.
RemovedAreSkipped ==
  [][CallStep /\ ~stack[1].nested /\ Current(stack'[1]) # Null =>
       Current(stack'[1]) \in Range(listeners)]_vars
=============================================================================
