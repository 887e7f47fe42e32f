----------------------------- MODULE CommandSlice -----------------------------
(***************************************************************************)
(* The commands of one entity: MemoryCommandSlice, the CommandCache that   *)
(* SliceCacheObserver keeps beside it, and the preferences of the entity   *)
(* that the commands override.                                             *)
(*                                                                         *)
(* A command sets (or, a clear command, clears) some preference fields.    *)
(* Two fields stand for all of them: datadraw for the scalar fields and    *)
(* acceptprojectorids, the repeated one, which MergeFrom appends to.       *)
(***************************************************************************)
EXTENDS Integers, Sequences, FiniteSets, SequencesExt

CONSTANTS
  Times,        \* the scenario times update() is called with
  CommandTimes, \* the times of the commands the client inserts
  MaxDouble,    \* std::numeric_limits<double>::max()
  FieldSpace,   \* the settings a command or the user may make
  ClearSpace,   \* the settings a clear command may name
  MaxCommands,  \* bound: inserts stop at this number of commands
  LimitPoints,  \* the number of commands data limiting keeps (0: any number)
  LimitTime,    \* the time before the last command from which it keeps them (-1: all)
  MayHappen     \* what else happens: "flush", "modify", "user", "override"

Unset  == "unset"
Fields == {"datadraw", "acceptprojectorids"}
Empty  == [datadraw |-> Unset, acceptprojectorids |-> << >>]

Preferences == [datadraw : {Unset, "on", "off"}, acceptprojectorids : Seq(Nat)]

ASSUME TimesAssumption == Times \subseteq Nat /\ CommandTimes \subseteq Nat
ASSUME MaxAssumption   == MaxDouble \in Nat /\ \A t \in Times \cup CommandTimes : t < MaxDouble
ASSUME LimitAssumption == MaxCommands \in Nat /\ LimitPoints \in Nat /\ LimitTime \in Nat \cup {-1}
ASSUME FieldAssumption == FieldSpace \cup ClearSpace \subseteq Preferences \ {Empty}

VARIABLES
  commands,   \* updates_: the commands in time order
  cache,      \* commandPrefsCache_: what the executed commands set
  executed,   \* lastUpdateTime_ of the slice: the time of the last executed command
  earliest,   \* earliestInsert_: the earliest command inserted since the last update
  changed,    \* hasChanged_ of the slice
  range,      \* startTime_ and endTime_ of the CommandCache
  prefs,      \* the committed preferences of the entity
  now,        \* lastUpdateTime_ of the data store
  hasChanged  \* hasChanged_ of the data store

slice == <<commands, cache, executed, earliest, changed>>
store == <<prefs, now, hasChanged>>
vars  == <<slice, range, store>>

Never   == -2   \* -std::numeric_limits<double>::max(): no command was executed
NoRange == [lo |-> MaxDouble, hi |-> Never]

Happens(what) == what \in MayHappen
-----------------------------------------------------------------------------
(* Preference fields                                                       *)

\* FieldList::MergeFrom: set scalars replace, repeated values are appended
MergeFrom(p, from) ==
  [datadraw |-> IF from.datadraw = Unset THEN p.datadraw ELSE from.datadraw,
   acceptprojectorids |-> p.acceptprojectorids \o from.acceptprojectorids]

\* mutant: leaves the repeated values in place
KeepRepeatedFields(p, condition) == p

ConditionalClearRepeatedFields(p, condition) ==
  IF condition.acceptprojectorids = << >> THEN p
  ELSE [p EXCEPT !.acceptprojectorids = << >>]

Override(p, from) == MergeFrom(ConditionalClearRepeatedFields(p, from), from)

\* clearCommand_ for one of its two targets; also what a modifier does
Without(p, fields) ==
  [f \in Fields |-> IF fields[f] = Empty[f] THEN p[f] ELSE Empty[f]]

-----------------------------------------------------------------------------
(* The time range of the CommandCache                                      *)

\* mutant: the end of the range is taken as inside it
KickOutAtEnd(t) == range.lo <= t /\ t <= range.hi

KickOut(t) == range.lo <= t /\ t < range.hi

\* firstTime()
FirstTime == IF commands = << >> THEN MaxDouble ELSE Head(commands).time

\* std::upper_bound: the commands at or before t are the first NumUpTo(t).
UpTo(t)    == {i \in DOMAIN commands : commands[i].time <= t}
NumUpTo(t) == Cardinality(UpTo(t))

\* From the last command at or before t to the next one; some command is.
RangeAround(t) ==
  LET done == NumUpTo(t)
  IN  [lo |-> commands[done].time,
       hi |-> IF done = Len(commands) THEN MaxDouble ELSE commands[done + 1].time]

-----------------------------------------------------------------------------
(* Executing commands                                                      *)

\* One command of advance_, on the command cache and the preferences
Execute(state, command) ==
  IF command.clear
  THEN [cache |-> Without(state.cache, command.sets), prefs |-> Without(state.prefs, command.sets)]
  ELSE [state EXCEPT !.cache = Override(@, command.sets)]

\* advance_: executes the commands after start up to t
Advance(state, start, t) ==
  LET after[n \in 0 .. NumUpTo(t)] ==
        IF n <= NumUpTo(start) THEN state ELSE Execute(after[n - 1], commands[n])
  IN  after[NumUpTo(t)]

\* advance_ returns true: it executed some command.
Executes(start, t) == NumUpTo(start) < NumUpTo(t)

\* current(): the last command at or before the last executed one
Current == {commands[n] : n \in {NumUpTo(executed)} \ {0}}

\* mutant: forgets commands inserted before the last executed one
MovesForwardIgnoringInserts(t) == \A c \in Current : t >= c.time

MovesForward(t) == (\A c \in Current : t >= c.time) /\ earliest > executed

LimitedByPoints(s) ==
  IF LimitPoints = 0 \/ Len(s) <= LimitPoints THEN s
  ELSE SubSeq(s, Len(s) - LimitPoints + 1, Len(s))

\* Without the commands up to the start of the window, but never without all
LimitedByTime(s) ==
  IF LimitTime < 0 \/ s = << >> THEN s
  ELSE LET old == Cardinality({i \in DOMAIN s : s[i].time <= s[Len(s)].time - LimitTime})
       IN  SubSeq(s, IF old < Len(s) THEN old + 1 ELSE old, Len(s))

\* Data limiting as every commit of a change to the entity applies it
Limited(s) == LimitedByTime(LimitedByPoints(s))

Unlimited == LimitPoints = 0 /\ LimitTime < 0

\* reset_(), with the range of the CommandCache for the time before any command
UpdateBeforeFirst(t) ==
  /\ t < FirstTime
  /\ changed'  = TRUE
  /\ cache'    = Empty
  /\ executed' = Never
  /\ earliest' = MaxDouble
  /\ range'    = [lo |-> -1, hi |-> FirstTime]
  /\ UNCHANGED <<commands, prefs>>

\* mutant: the preferences follow only when the time goes on
PrefsShownForward(done, forward) == IF forward THEN Override(done.prefs, done.cache) ELSE prefs

\* "commands override prefs settings"
PrefsShown(done, forward) == Override(done.prefs, done.cache)

ReportsChange(forward, ran) == ~forward \/ ran

\* Forward from the last executed command, or again from the start; the
\* commit of the preferences applies data limiting, which resets the range.
UpdateExecuting(t) ==
  LET forward == MovesForward(t)
      start   == IF forward THEN executed ELSE -1
      done    == Advance([cache |-> IF forward THEN cache ELSE Empty, prefs |-> prefs], start, t)
      ran     == Executes(start, t)
      kept    == IF prefs' = prefs THEN commands ELSE Limited(commands)
  IN  /\ t >= FirstTime
      /\ cache'    = done.cache
      /\ prefs'    = PrefsShown(done, forward)
      /\ executed' = IF ran THEN commands[NumUpTo(t)].time ELSE IF forward THEN executed ELSE Never
      /\ earliest' = MaxDouble
      /\ changed'  = ReportsChange(forward, ran)
      /\ commands' = kept
      /\ range'    = IF kept # commands THEN NoRange
                     ELSE IF t < start THEN range ELSE RangeAround(t)

\* MemoryDataStore::update with CommandCache::update; a kick-out leaves even
\* the answer of hasChanged() as it was.
Update(t) ==
  /\ hasChanged \/ t # now
  /\ \/ KickOut(t) /\ UNCHANGED <<slice, range, prefs>>
     \/ ~KickOut(t) /\ (UpdateBeforeFirst(t) \/ UpdateExecuting(t))
  /\ now' = t
  /\ hasChanged' = FALSE

-----------------------------------------------------------------------------
(* Changes to the commands                                                 *)

\* notifierFn_: CommandCache::reset()
Notify == range' = NoRange

\* mutant: appends without looking at the times
InsertedLast(c) == Append(commands, c)

\* std::lower_bound: the number of commands before t
NumBefore(t) == Cardinality({i \in DOMAIN commands : commands[i].time < t})

\* A command at the time of another of its kind is merged into it; one of the
\* other kind goes right after the first command at that time.
Inserted(c) ==
  LET at == NumBefore(c.time) + 1
  IN  IF at > Len(commands) \/ commands[at].time # c.time THEN InsertAt(commands, at, c)
      ELSE IF commands[at].clear # c.clear THEN InsertAt(commands, at + 1, c)
      ELSE [commands EXCEPT ![at].sets = Override(@, c.sets)]

Insert(c) ==
  /\ Len(commands) < MaxCommands
  /\ commands' = Limited(Inserted(c))
  /\ earliest' = IF c.time < earliest THEN c.time ELSE earliest
  /\ Notify
  /\ hasChanged' = TRUE
  /\ UNCHANGED <<cache, executed, changed, prefs, now>>

\* MemorySliceHelper::flush: without the commands from start up to but not at end
Flushed(start, end) ==
  IF NumBefore(end) <= NumBefore(start) THEN commands
  ELSE SubSeq(commands, 1, NumBefore(start)) \o SubSeq(commands, NumBefore(end) + 1, Len(commands))

\* flush(startTime, endTime): the cached command state stays
Flush(start, end) ==
  /\ Happens("flush")
  /\ commands' = Flushed(start, end)
  /\ earliest' = MaxDouble
  /\ Notify
  /\ hasChanged' = TRUE
  /\ UNCHANGED <<cache, executed, changed, prefs, now>>

DropEmptied(s) ==
  LET kept[n \in 0 .. Len(s)] ==
        IF n = 0 THEN << >>
        ELSE IF s[n].sets = Empty THEN kept[n - 1]
        ELSE Append(kept[n - 1], s[n])
  IN  kept[Len(s)]

\* modify() with a modifier that removes one field from every command: the
\* commands left empty go too.
Modify(fields) ==
  LET pruned == [i \in DOMAIN commands |-> [commands[i] EXCEPT !.sets = Without(@, fields)]]
  IN  /\ Happens("modify")
      /\ commands' = DropEmptied(pruned)
      /\ changed'  = TRUE
      /\ cache'    = Empty
      /\ executed' = Never
      /\ earliest' = MaxDouble
      /\ Notify
      /\ hasChanged' = TRUE
      /\ UNCHANGED <<prefs, now>>

\* Some command, waiting or executed, sets or clears the field.
Spoken(field) ==
  cache[field] # Empty[field] \/ \E i \in DOMAIN commands : commands[i].sets[field] # Empty[field]

\* A preferences transaction of the user
CommitPrefs(p) ==
  /\ Happens("user")
  /\ p # prefs
  /\ \A f \in Fields : p[f] # prefs[f] /\ Spoken(f) => Happens("override")
  /\ prefs' = p
  /\ commands' = Limited(commands)
  /\ IF commands' = commands THEN UNCHANGED range ELSE Notify
  /\ hasChanged' = TRUE
  /\ UNCHANGED <<cache, executed, earliest, changed, now>>

Commands == [time : CommandTimes, clear : {FALSE}, sets : FieldSpace] \cup
            [time : CommandTimes, clear : {TRUE},  sets : ClearSpace]

Init ==
  /\ commands = << >> /\ cache = Empty
  /\ executed = Never /\ earliest = MaxDouble /\ changed = FALSE
  /\ range = NoRange
  /\ prefs = Empty
  /\ now = 0 /\ hasChanged = TRUE

Next ==
  \/ \E t \in Times : Update(t)
  \/ \E c \in Commands : Insert(c)
  \/ \E start, end \in CommandTimes \cup {MaxDouble} : Flush(start, end)
  \/ \E fields \in ClearSpace : Modify(fields)
  \/ \E p \in FieldSpace \cup {Empty} : CommitPrefs(p)

Spec == Init /\ [][Next]_vars
-----------------------------------------------------------------------------
(* Properties                                                              *)

\* Every variable holds a value the code can give it.
TypeOK ==
  /\ commands \in Seq([time : CommandTimes, clear : BOOLEAN, sets : Preferences \ {Empty}])
  /\ Len(commands) <= MaxCommands
  /\ cache \in Preferences /\ prefs \in Preferences
  /\ executed \in CommandTimes \cup {Never}
  /\ earliest \in CommandTimes \cup {MaxDouble}
  /\ changed \in BOOLEAN /\ hasChanged \in BOOLEAN
  /\ range \in [lo : -1 .. MaxDouble, hi : Never .. MaxDouble]
  /\ now \in Times \cup {0}

Settled == ~hasChanged

\* The commands at or before t that have something to say about a field
Speaking(field, t) ==
  {i \in DOMAIN commands : commands[i].time <= t /\ commands[i].sets[field] # Empty[field]}

LastWord(field, t) == CHOOSE i \in Speaking(field, t) : \A j \in Speaking(field, t) : j <= i

\* What the commands up to t leave a field at: the last one that speaks decides.
Commanded(field, t) ==
  IF Speaking(field, t) = {} \/ commands[LastWord(field, t)].clear THEN Empty[field]
  ELSE commands[LastWord(field, t)].sets[field]

\* After an update the command state is that of all commands up to the time,
\* however the time moved and in whatever order the commands came
\* ("execute all commands from start to new current time").
CacheIsReplay == Settled => \A f \in Fields : cache[f] = Commanded(f, now)

\* ... and a field that the commands set or clear has that value in the
\* preferences of the entity.
PrefsFollow ==
  Settled => \A f \in Fields : Speaking(f, now) # {} => prefs[f] = Commanded(f, now)

\* No update is skipped although a command separates its time from the time
\* for which the command state was computed.
RangeHidesNothing ==
  \A t \in Times : KickOut(t) => UpTo(t) = UpTo(now)

\* The repeated field never accumulates the values of several commands.
NothingAccumulates ==
  \A p \in {cache, prefs} \cup {commands[i].sets : i \in DOMAIN commands} :
    p.acceptprojectorids \in {q.acceptprojectorids : q \in FieldSpace \cup ClearSpace \cup {Empty}}

\* The commands stay in time order, which every binary search and every replay
\* relies on, whatever is inserted, merged, modified and flushed.
Sorted == \A i, j \in DOMAIN commands : i < j => commands[i].time <= commands[j].time

\* The state is one the code can give, in time order.
WellFormed == TypeOK /\ Sorted
=============================================================================
