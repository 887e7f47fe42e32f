----------------------------- MODULE ClockImpl -----------------------------
(* The operations of ClockImpl as functions on its state.  A clock is a      *)
(* record of the members of the class; "log" holds the notifications the     *)
(* operation sends, in their order.                                          *)
EXTENDS Integers, Sequences

CONSTANTS MinTime, Infinite,    \* MIN_TIME_STAMP and INFINITE_TIME_STAMP
          ThisYear,             \* the default TimeStamp: the first of January
          Threshold,            \* FREEWHEEL_THRESHOLD
          NoBound               \* an unset user bound

ASSUME ClockAssumption ==
  /\ {MinTime, Infinite, ThisYear, Threshold} \subseteq Nat
  /\ MinTime < Infinite /\ ThisYear \in MinTime .. Infinite - 1
  /\ NoBound \notin Nat

Modes      == {"STEP", "REALTIME", "FREEWHEEL", "SIMULATION"}
Directions == {"FORWARD", "REVERSE", "STOP"}

NewClock ==
  [time |-> MinTime, begin |-> MinTime, end |-> Infinite,
   userStart |-> NoBound, userEnd |-> NoBound,
   loop |-> TRUE, mode |-> "STEP", direction |-> "FORWARD", playing |-> FALSE,
   disabled |-> FALSE, realScale |-> 1, stepScale |-> 1,
   rt |-> MinTime, rtScale |-> 1,       \* clock_, the real-time clock
   log |-> <<>>]

LiveMode(m)      == m \in {"FREEWHEEL", "SIMULATION"}
IsLive(c)        == LiveMode(c.mode)
RealTime(c)      == c.mode # "STEP"
TimeScale(c)     == IF RealTime(c) THEN c.realScale ELSE c.stepScale
StartTime(c)     == IF IsLive(c) \/ c.userStart = NoBound THEN c.begin ELSE c.userStart
EndTime(c)       == IF IsLive(c) \/ c.userEnd = NoBound THEN c.end ELSE c.userEnd
CanLoop(c)       == c.mode # "FREEWHEEL" /\ c.loop
TimeDirection(c) == IF c.playing THEN c.direction ELSE "STOP"
UserEditable(c)  == ~(c.disabled \/ EndTime(c) = Infinite \/ IsLive(c))

Notify(c, what, value) == [c EXCEPT !.log = Append(@, <<what, value>>)]
NotifyBounds(c)        == Notify(c, "bounds", <<StartTime(c), EndTime(c)>>)

\* mutant: only disabled controls are watched
WatchedControls(before, after) ==
  IF before.disabled = after.disabled THEN after
  ELSE Notify(after, "editable", UserEditable(after))

\* ScopedUserEditableWatch: "after" is the clock when the scope is left.
Watched(before, after) ==
  IF UserEditable(before) = UserEditable(after) THEN after
  ELSE Notify(after, "editable", UserEditable(after))

Clamp(c, t) ==
  IF t < StartTime(c) THEN StartTime(c)
  ELSE IF t > EndTime(c) /\ c.mode # "FREEWHEEL" THEN EndTime(c) ELSE t

RestartRTClock(c, t) == [c EXCEPT !.rt = t, !.rtScale = TimeScale(c)]

SetTimeNoThresholdCheck(c, t) ==
  IF Clamp(c, t) = c.time THEN c
  ELSE Notify([c EXCEPT !.time = Clamp(c, t)], "time", Clamp(c, t))

Near(t, u) == t - u < Threshold /\ u - t < Threshold

SetTime(c, t) ==
  IF t = Infinite \/ (c.mode = "FREEWHEEL" /\ Near(t, c.time)) THEN c
  ELSE SetTimeNoThresholdCheck(RestartRTClock(c, t), t)

\* "Check for time change" after the bounds have changed.
ClampTime(c) == IF Clamp(c, c.time) = c.time THEN c ELSE SetTime(c, Clamp(c, c.time))

SetStartTime(c, t) ==
  IF t = StartTime(c) THEN c
  ELSE ClampTime(NotifyBounds([c EXCEPT !.begin = IF c.mode = "SIMULATION" THEN MinTime ELSE t]))

SetEndTime(c, t) ==
  IF t = EndTime(c) THEN c
  ELSE Watched(c, ClampTime(NotifyBounds(
         [c EXCEPT !.end = IF c.mode = "SIMULATION" THEN Infinite ELSE t])))

\* mutant: the time is not moved into the new bounds
SetUserTimeBoundsOnly(c, s, e) ==
  LET n == [c EXCEPT !.userStart = s, !.userEnd = e]
  IN IF IsLive(c) THEN c
     ELSE IF <<StartTime(n), EndTime(n)>> = <<StartTime(c), EndTime(c)>> THEN n ELSE NotifyBounds(n)

SetUserTimeBounds(c, s, e) ==
  LET n == [c EXCEPT !.userStart = s, !.userEnd = e]
  IN IF IsLive(c) THEN c
     ELSE ClampTime(IF <<StartTime(n), EndTime(n)>> = <<StartTime(c), EndTime(c)>>
                    THEN n ELSE NotifyBounds(n))

SetControlsDisabled(c, fl) == Watched(c, [c EXCEPT !.disabled = fl])

SetCanLoop(c, fl) == IF fl = c.loop THEN c ELSE Notify([c EXCEPT !.loop = fl], "loop", fl)

\* mutant: the real-time clock keeps its old scale
SetTimeScaleOnly(c, s) ==
  IF TimeScale(c) = s THEN c
  ELSE Notify(IF RealTime(c) THEN [c EXCEPT !.realScale = s] ELSE [c EXCEPT !.stepScale = s], "scale", s)

SetTimeScale(c, s) ==
  LET scaled == IF RealTime(c) THEN [c EXCEPT !.realScale = s] ELSE [c EXCEPT !.stepScale = s]
  IN IF TimeScale(c) = s THEN c
     ELSE Notify(RestartRTClock(scaled, c.time), "scale", s)

Play(c, d) ==
  IF c.playing /\ c.direction = d THEN c
  ELSE Notify(RestartRTClock([c EXCEPT !.playing = TRUE, !.direction = d], c.time), "direction", d)

PlayForward(c) == Play(c, "FORWARD")
PlayReverse(c) == IF c.mode = "FREEWHEEL" THEN c ELSE Play(c, "REVERSE")

Stop(c) ==
  IF c.mode = "FREEWHEEL" \/ (~c.playing /\ c.direction = "STOP") THEN c
  ELSE Notify([c EXCEPT !.playing = FALSE, !.direction = "STOP"], "direction", "STOP")

\* mutant: a simulation that was stopped before says nothing
LeaveLiveStill(c) == Stop(SetCanLoop(c, TRUE))

LeaveLive(c) == Stop([SetCanLoop(c, TRUE) EXCEPT !.direction = "FORWARD"])

EnterFreewheel(c, t) ==
  PlayForward([SetTime(SetEndTime(SetStartTime(c, t), t), t) EXCEPT !.realScale = 1])

EnterSimulation(c, t) ==
  PlayForward([SetTime(SetEndTime(SetStartTime(c, MinTime), Infinite), t) EXCEPT !.realScale = 0])

SetMode(c, m, t) ==
  LET entered == [c EXCEPT !.mode = m, !.userStart = NoBound, !.userEnd = NoBound]
      left    == IF IsLive(c) /\ ~LiveMode(m) THEN LeaveLive(entered) ELSE entered
      moved   == CASE m = "FREEWHEEL"  -> EnterFreewheel(left, t)
                   [] m = "SIMULATION" -> EnterSimulation(left, t)
                   [] OTHER            -> left
      scaled  == IF c.mode = "SIMULATION" THEN [moved EXCEPT !.realScale = 1] ELSE moved
      told    == Notify(scaled, "mode", m)
      heard   == IF TimeScale(told) = TimeScale(c) THEN told
                 ELSE Notify(told, "scale", TimeScale(told))
  IN IF m = c.mode /\ m # "FREEWHEEL" THEN c
     ELSE Watched(c, IF m = "REALTIME" THEN RestartRTClock(heard, heard.time) ELSE heard)

\* mutant: an observer may turn a move forward back
AdjustedBack(c, t, a) == IF a < t THEN a ELSE t

\* notifyAdjustTime_(): an observer may shorten a move forward, to "a".
Adjusted(c, t, a) == IF c.time < a /\ a < t THEN a ELSE t

\* mutant: the end itself is not the end
PastEnd(c) == c.time > EndTime(c)

AtEnd(c) == c.time >= EndTime(c)

AddToTime(c, d, a) ==
  LET target == IF c.time + d > EndTime(c) THEN EndTime(c) ELSE c.time + d
  IN IF d = 0 THEN c
     ELSE IF ~AtEnd(c) THEN SetTimeNoThresholdCheck(c, Adjusted(c, target, a))
     ELSE IF CanLoop(c) THEN SetTimeNoThresholdCheck(c, StartTime(c))
     ELSE SetTimeNoThresholdCheck(Stop(c), ThisYear)

SubtractFromTime(c, d) ==
  IF c.time > StartTime(c)
  THEN SetTime(c, IF c.time - d < StartTime(c) THEN StartTime(c) ELSE c.time - d)
  ELSE IF CanLoop(c) THEN SetTime(c, EndTime(c))
  ELSE SetTime(Stop(c), ThisYear)

StepForward(c, a) == IF IsLive(c) THEN c ELSE AddToTime(Stop(c), TimeScale(c), a)
StepBackward(c)   == IF IsLive(c) THEN c ELSE SubtractFromTime(Stop(c), TimeScale(c))

LoopToStart(c) == RestartRTClock([c EXCEPT !.time = StartTime(c)], StartTime(c))

\* idle() in real time: "now" is the clock after its real-time clock has moved
\* it, perhaps past the end.
AtBounds(now) ==
  CASE now.time <= EndTime(now)   -> now
    [] now.mode = "FREEWHEEL"     -> SetEndTime(now, now.time)
    [] CanLoop(now)               -> LoopToStart(now)
    [] OTHER                      -> Stop([now EXCEPT !.time = EndTime(now)])

Shown(c) == Notify(c, "time", c.time)

RealTimeFrames(c, units, adjusts) ==
  LET run == {[c EXCEPT !.rt = @ + k * c.rtScale] : k \in units}
      now == {[r EXCEPT !.time = Adjusted(r, r.rt, a)] : r \in run, a \in adjusts}
      end == {AtBounds(n) : n \in now}
  IN {Shown(e) : e \in end}

\* The clocks a frame of idle() may leave, when some units of real time have
\* passed since the last one and observers ask for the times in "adjusts".
Idle(c, units, adjusts) ==
  CASE ~c.playing -> {c}
    [] c.playing /\ c.direction = "REVERSE" ->
         {SubtractFromTime(c, IF c.mode = "STEP" THEN c.stepScale ELSE k * c.realScale) : k \in units}
    [] OTHER -> IF c.mode = "STEP" THEN {AddToTime(c, c.stepScale, a) : a \in adjusts}
                ELSE RealTimeFrames(c, units, adjusts)
=============================================================================
