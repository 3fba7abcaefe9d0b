-------------------------- MODULE PomodoroTimer --------------------------
(***************************************************************************)
(* src/model/PomodoroTimer.ts: the timer of one room, as the effect of its *)
(* methods and of its timeouts on its fields and on the event loop.        *)
(*                                                                         *)
(* The three lengths are one value: they set when a timeout fires, never   *)
(* what it does.  A timeout is known by the phase it ends; the event loop  *)
(* may hold timeouts the field _timeout no longer names.                   *)
(***************************************************************************)
EXTENDS Integers

CONSTANTS
    Intervals,       \* values of longBreakInterval, which no one checks
    Lengths,         \* values of the three lengths, taken together
    MaxShortBreaks,  \* bound on shortBreakCount: with an interval below 1
                     \* it is never reset
    None

ASSUME IntervalsAreIntegers == Intervals \subseteq Int /\ MaxShortBreaks \in Nat

VARIABLES
    property,         \* the lengths and the interval
    state,
    dated,            \* eventDate is defined
    timeout,          \* the field _timeout, None if undefined
    pending,          \* phase -> the timeouts in the event loop that end it
    shortBreakCount

timerVars == <<property, state, dated, timeout, pending, shortBreakCount>>

Phases == {"started", "shortBreak", "longBreak"}
ASSUME NoneIsUndefined == None \notin Intervals /\ None \notin Lengths /\ None \notin Phases

Properties == [lengths : Lengths, interval : Intervals]

(* An edit may leave a field undefined.                                    *)
Edits == [lengths : Lengths \cup {None}, interval : Intervals \cup {None}]

(* A new PomodoroTimer.                                                    *)
NewTimer(p) ==
    /\ property' = p
    /\ state' = "stopped"
    /\ dated' = FALSE
    /\ timeout' = None
    /\ pending' = [f \in Phases |-> 0]
    /\ shortBreakCount' = 0

(* A mutant of Arm: the callback does not set the next timeout.            *)
ArmNothing(loop, phase) == timeout' = None /\ pending' = loop

(* setTimeout, with the timeouts the event loop holds so far.              *)
Arm(loop, phase) ==
    /\ timeout' = phase
    /\ pending' = [loop EXCEPT ![phase] = @ + 1]

(* _startFocusTimer, _startShortBreakTimer and _startLongBreakTimer.       *)
Begin(phase, loop) ==
    /\ state' = phase
    /\ dated' = TRUE
    /\ Arm(loop, phase)
    /\ UNCHANGED property

(* A mutant of CanStart: a running timer is started again.                 *)
CanStartAlways == TRUE

CanStart == timeout = None

(* start, when it returns true.                                            *)
StartTimer ==
    /\ CanStart
    /\ Begin("started", pending)
    /\ UNCHANGED shortBreakCount

(* A timeout of the event loop fires, named by the field or not.           *)
Fires(phase) == pending[phase] > 0
Fired(phase) == [pending EXCEPT ![phase] = @ - 1]

(* A mutant of LongBreakDue: one short break too many.                     *)
LongBreakDueLate == shortBreakCount = property.interval

LongBreakDue == shortBreakCount = property.interval - 1

(* The end of a focus phase.                                               *)
EndFocus ==
    /\ Fires("started")
    /\ IF LongBreakDue
       THEN shortBreakCount' = 0 /\ Begin("longBreak", Fired("started"))
       ELSE /\ shortBreakCount < MaxShortBreaks
            /\ shortBreakCount' = shortBreakCount + 1
            /\ Begin("shortBreak", Fired("started"))

EndBreak(phase) ==
    /\ phase # "started" /\ Fires(phase)
    /\ Begin("started", Fired(phase))
    /\ UNCHANGED shortBreakCount

(* _clearTimeout.                                                          *)
ClearTimeout ==
    /\ pending' = IF timeout = None THEN pending
                                    ELSE [pending EXCEPT ![timeout] = @ - 1]
    /\ timeout' = None
    /\ dated' = FALSE
    /\ state' = "stopped"

(* A mutant of Merged: undefined fields are taken over too.                *)
MergedUndefined(old, edit) == edit

(* A field the edit leaves undefined keeps its value.                      *)
Merged(old, edit) ==
    [f \in DOMAIN old |-> IF edit[f] = None THEN old[f] ELSE edit[f]]

(* Mutants of Edited: the breaks taken so far still count; the property    *)
(* stays what it was.                                                      *)
EditedOnly(edit) == property' = Merged(property, edit) /\ UNCHANGED shortBreakCount
EditedNot(edit) == UNCHANGED property /\ shortBreakCount' = 0

Edited(edit) == property' = Merged(property, edit) /\ shortBreakCount' = 0

EditAndStop(edit) == Edited(edit) /\ ClearTimeout

(* dispose: the count of short breaks stays.                               *)
DisposeTimer == ClearTimeout /\ UNCHANGED <<property, shortBreakCount>>
==========================================================================
