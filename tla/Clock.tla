-------------------------------- MODULE Clock --------------------------------
(* The clock of a scenario and the visualization clock beside it.  The       *)
(* visualization clock shows the data clock while it is locked to it; in     *)
(* live mode it may be unlocked to replay, with a clock of its own that      *)
(* keeps the bounds of the data clock.  Observers are told what changes, and *)
(* idle() of both clocks is called with every frame.                         *)
EXTENDS ClockImpl, FiniteSets, FiniteSetsExt

CONSTANTS Times, Scales, Units,  \* arguments of the calls; real time per frame
          LastTime,              \* bound on playing without an end
          MaxCalls,              \* bound on the calls of users
          MayHappen              \* what users do, see Happens

ASSUME TimesAssumption ==
  /\ Times \subseteq MinTime + 1 .. Infinite - 1 /\ Scales \subseteq Nat /\ Units \subseteq Nat \ {0}

VARIABLES data, local,  \* the data clock, and localClock_ of the visualization
          locked,       \* lockToDataClock_
          heard,        \* what an observer of the data clock was told last
          broken,       \* an assertion of an observer of the data clock failed
          calls
vars == <<data, local, locked, heard, broken, calls>>

\* "play to live"    live mode is entered while the clock plays forward
\* "jump outside"    the time is set outside of the bounds in real time
\* "bounds by user"  the mode or an infinite end is changed under user bounds
\* "ahead"           freewheel mode is left with the time outside of the bounds
\* "unlooped back"   playing backward without looping
\* "unlooped live"   live mode is left while replaying, with looping turned off
\* "data edits"      under a replay the data clock gets another call than to change its
\*                   time or bounds, to stop, or to leave live mode
\* "replay bounds"   the bounds of a replay are edited
Happens(what) == what \in MayHappen

Known(c) ==
  [mode |-> c.mode, direction |-> TimeDirection(c),
   scale |-> TimeScale(c), bounds |-> <<StartTime(c), EndTime(c)>>,
   loop |-> c.loop, editable |-> UserEditable(c), time |-> c.time]

Quiet(c) == [c EXCEPT !.log = <<>>]

-----------------------------------------------------------------------------
(* VisualizationClock.                                                       *)

Relocked(c) == Quiet(SetControlsDisabled(Stop(c), TRUE))

Bounded(c, bounds) == Quiet(SetEndTime(SetStartTime(c, bounds[1]), bounds[2]))

\* DataModeObserver: what a notification of the data clock does to a replay.
React(v, event) ==
  IF v.locked \/ event[1] = "time" THEN v
  ELSE IF event = <<"direction", "STOP">> THEN [v EXCEPT !.local = Relocked(@), !.locked = TRUE]
  ELSE IF event[1] = "bounds" THEN [v EXCEPT !.local = Bounded(@, event[2])]
  ELSE [v EXCEPT !.broken = TRUE]

\* What observers of the data clock have heard after the notifications of "log".
Hears(h, log) ==
  [what \in DOMAIN h |->
     LET told == {n \in DOMAIN log : log[n][1] = what}
     IN IF told = {} THEN h[what] ELSE log[Max(told)][2]]

\* The data clock becomes "new", and its observers hear how.
DataBecomes(new) ==
  LET vis[n \in 0 .. Len(new.log)] ==
        IF n = 0 THEN [local |-> local, locked |-> locked, broken |-> broken]
        ELSE React(vis[n - 1], new.log[n])
  IN /\ data' = Quiet(new)
     /\ heard' = Hears(heard, new.log)
     /\ IF locked THEN UNCHANGED <<local, locked, broken>>
        ELSE \E v \in {vis[Len(new.log)]} :
               local' = v.local /\ locked' = v.locked /\ broken' = v.broken

LocalBecomes(new) == local' = Quiet(new) /\ UNCHANGED <<data, locked, heard, broken>>

Loaded(s, e, m, fl) ==
  Quiet(SetCanLoop(SetMode(SetTime(SetEndTime(SetStartTime(NewClock, s), e), s), m, s), fl))

Init ==
  /\ data \in {NewClock} \cup
       {Loaded(s, e, m, fl) : s \in Times, e \in Times, m \in {"STEP", "REALTIME"}, fl \in BOOLEAN}
  /\ StartTime(data) < EndTime(data)
  /\ local = NewClock /\ locked = TRUE
  /\ heard = Known(data)
  /\ broken = FALSE /\ calls = 0

-----------------------------------------------------------------------------
(* Users.  Calls through a locked visualization clock are calls of the data  *)
(* clock.                                                                    *)

Call == calls < MaxCalls /\ calls' = calls + 1

InOrder(c) == StartTime(c) <= EndTime(c) /\ c.begin <= c.end

EditBounds ==
  \E t \in Times : \E new \in {SetStartTime(data, t), SetEndTime(data, t)} :
    /\ Call /\ InOrder(new)
    /\ DataBecomes(new)

EditUserBounds ==
  \E s, e \in Times \cup {NoBound} : \E new \in {SetUserTimeBounds(data, s, e)} :
    /\ Call /\ InOrder(new)
    /\ data.end # Infinite \/ Happens("bounds by user")
    /\ DataBecomes(new)

MayJump(c, t) == Clamp(c, t) = t \/ ~RealTime(c) \/ Happens("jump outside")

EditTime ==
  \E t \in Times :
    /\ Call
    /\ MayJump(data, t)
    /\ DataBecomes(SetTime(data, t))

EditScale ==
  \E s \in Scales :
    /\ Call /\ (locked \/ Happens("data edits"))
    /\ DataBecomes(SetTimeScale(data, s))

EditLoop ==
  \E fl \in BOOLEAN :
    /\ Call /\ (locked \/ Happens("data edits"))
    /\ fl \/ Happens("unlooped back") \/ ~(data.playing /\ data.direction = "REVERSE")
    /\ DataBecomes(SetCanLoop(data, fl))

EditControls ==
  \E fl \in BOOLEAN :
    /\ Call /\ (locked \/ Happens("data edits"))
    /\ DataBecomes(SetControlsDisabled(data, fl))

EditMode ==
  \E m \in Modes : \E t \in IF LiveMode(m) THEN Times \cup {data.time} ELSE {data.time} :
    /\ Call
    /\ (LiveMode(m) /\ data.playing /\ data.direction = "FORWARD") => Happens("play to live")
    /\ <<data.userStart, data.userEnd>> = <<NoBound, NoBound>> \/ Happens("bounds by user")
    /\ (data.mode = "FREEWHEEL" /\ Clamp([data EXCEPT !.mode = m], data.time) # data.time)
         => Happens("ahead")
    /\ locked \/ ~LiveMode(m) \/ Happens("data edits")
    /\ locked \/ data.loop \/ Happens("unlooped live")
    /\ \E new \in {SetMode(data, m, t)} : InOrder(new) /\ DataBecomes(new)

\* The buttons of a clock.
Backward(c) == CanLoop(c) \/ Happens("unlooped back")

Pressed(c, a) ==
  {PlayForward(c), Stop(c), StepForward(c, a)} \cup
  (IF Backward(c) THEN {PlayReverse(c), StepBackward(c)} ELSE {})

PressButton ==
  \E a \in Times : \E new \in Pressed(data, a) :
    /\ Call /\ (locked \/ new = Stop(data) \/ Happens("data edits"))
    /\ DataBecomes(new)

\* setLockedToDataClock().
Unlock ==
  /\ Call /\ locked /\ IsLive(data)
  /\ locked' = FALSE
  /\ local' = Quiet(SetControlsDisabled(SetTime(
                Bounded(local, <<StartTime(data), EndTime(data)>>), data.time), FALSE))
  /\ UNCHANGED <<data, heard, broken>>

Lock ==
  /\ Call /\ ~locked
  /\ locked' = TRUE /\ local' = Relocked(local)
  /\ UNCHANGED <<data, heard, broken>>

\* Calls through the visualization clock that reach the clock of the replay.
Replay ==
  /\ Call /\ ~locked
  /\ \/ \E a \in Times : \E new \in Pressed(local, a) : LocalBecomes(new)
     \/ \E t \in Times : MayJump(local, t) /\ LocalBecomes(SetTime(local, t))
     \/ \E s \in Scales : LocalBecomes(SetTimeScale(local, s))
     \/ \E m \in {"STEP", "REALTIME"} : LocalBecomes(SetMode(local, m, local.time))
     \/ \E fl \in BOOLEAN :
          /\ fl \/ Happens("unlooped back") \/ ~(local.playing /\ local.direction = "REVERSE")
          /\ LocalBecomes(SetCanLoop(local, fl))
     \/ /\ Happens("replay bounds")
        /\ \E t \in Times : \E new \in {SetStartTime(local, t), SetEndTime(local, t)} :
             InOrder(new) /\ LocalBecomes(new)

-----------------------------------------------------------------------------
(* Frames.                                                                   *)

HasEnd(c) == EndTime(c) # Infinite /\ c.mode # "FREEWHEEL"
InReach(c) == HasEnd(c) \/ c.direction # "FORWARD" \/ (c.time < LastTime /\ c.rt < LastTime)

DataFrame ==
  /\ data.playing /\ InReach(data)
  /\ \E new \in Idle(data, Units, Times) : DataBecomes(new)
  /\ UNCHANGED calls

ReplayFrame ==
  /\ ~locked /\ local.playing /\ InReach(local)
  /\ \E new \in Idle(local, Units, Times) : LocalBecomes(new)
  /\ UNCHANGED calls

Users ==
  \/ EditBounds \/ EditUserBounds \/ EditTime \/ EditScale \/ EditLoop \/ EditControls \/ EditMode
  \/ PressButton \/ Unlock \/ Lock \/ Replay

Next == Users \/ DataFrame \/ ReplayFrame

\* The viewer calls idle() with every frame it draws.
Fairness == WF_vars(DataFrame) /\ WF_vars(ReplayFrame)

Spec == Init /\ [][Next]_vars /\ Fairness

-----------------------------------------------------------------------------
(* Properties.                                                               *)

\* The fields have their types, and a clock that plays has a direction
\* (the assertion of idle()).
ClockOK(c) ==
  /\ {c.time, c.begin, c.end, c.realScale, c.stepScale, c.rt, c.rtScale} \subseteq Nat
  /\ c.mode \in Modes /\ c.direction \in Directions
  /\ c.playing => c.direction # "STOP"
TypeOK ==
  /\ ClockOK(data) /\ ClockOK(local)
  /\ DOMAIN heard = {"mode", "direction", "scale", "bounds", "loop", "editable", "time"}

\* The time of a clock is within its bounds, in any mode but freewheel, which
\* moves its end along.
Inside(c) == c.mode # "FREEWHEEL" => Clamp(c, c.time) = c.time
InBounds == Inside(data) /\ Inside(local)

\* Whoever listens to the data clock knows its state.
ObserversCurrent == heard = Known(data)

\* A clock that plays forward in real time runs at the scale it shows, and its
\* next frame does not take it back.
Follows(c) ==
  c.playing /\ c.direction = "FORWARD" /\ RealTime(c) => c.rtScale = TimeScale(c) /\ c.rt >= c.time
RealTimeFollows == Follows(data) /\ Follows(local)

\* There is a replay only while the data clock is live, and no clock runs unseen.
ReplayOnlyLive == /\ ~locked => IsLive(data)
                  /\ locked => ~local.playing

\* A replay can reach what the data clock has.
ReplayCovers ==
  ~locked => <<local.begin, local.end>> = <<StartTime(data), EndTime(data)>>

\* The assertions "visualization should be off during ... changes" of
\* DataModeObserver hold.
DevAsserts == ~broken

\* The state is one the code can give: a replay is live, covers the data and
\* ends without an assertion.
WellFormed == TypeOK /\ ReplayOnlyLive /\ ReplayCovers /\ DevAsserts

First(c) == IF c.direction = "FORWARD" THEN StartTime(c) ELSE EndTime(c)

\* A frame takes the time in the direction that is played, and against it only
\* to loop.
Advances(c, d) ==
  c.playing =>
    \/ IF c.direction = "FORWARD" THEN d.time >= c.time ELSE d.time <= c.time
    \/ CanLoop(c) /\ d.time = First(c)
FramesAdvance == [][calls' = calls => Advances(data, data') /\ Advances(local, local')]_vars

\* Playing between finite bounds comes to rest or, with looping, comes back to
\* where it starts, although observers may shorten every frame.
Runs(c) == c.playing /\ HasEnd(c) /\ TimeScale(c) > 0
PlaybackReturns == []<>(Runs(data) => CanLoop(data) /\ data.time = First(data))
=============================================================================
