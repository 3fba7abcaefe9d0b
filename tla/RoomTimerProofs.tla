------------------------- MODULE RoomTimerProofs -------------------------
(***************************************************************************)
(* Theorems of RoomTimerRequirements, for every set of intervals and       *)
(* lengths, any number of edits, Rooms and observers.                      *)
(***************************************************************************)
EXTENDS RoomTimerRequirements, TLAPS, FiniteSetTheorems

(* What the steps rely on besides: a phase and the count of short breaks   *)
(* fit each other, a timer that may be started has counted none, and the   *)
(* calls in progress hold their arguments.                                 *)
CountFits ==
    /\ state = "stopped" /\ present => shortBreakCount = 0
    /\ state = "shortBreak" => shortBreakCount >= 1
    /\ state = "longBreak" => shortBreakCount = 0 /\ property.interval >= 1
HoldsArguments ==
    /\ columns # None => ~present /\ room < MaxRooms
    /\ \A e \in EditsInProgress : edits[e].edit \in Edits

TimerInv == TypeOK /\ OneTimeout /\ BreaksCounted /\ CountFits /\ HoldsArguments

----------------------------------------------------------------------------
(* An edit merges two records field by field.                              *)
LEMMA MergedTyped ==
  ASSUME NEW old \in Properties, NEW edit \in Edits
  PROVE  Merged(old, edit) \in Properties
  BY DEF Merged, Properties, Edits

LEMMA IntervalTyped == \A p \in Properties : p.interval \in Int
  BY IntervalsAreIntegers DEF Properties

(* The effect of the timer's methods on the event loop.                    *)
LoopTyped ==
    /\ timeout \in Phases \cup {None} /\ pending \in [Phases -> Nat]
    /\ dated \in BOOLEAN
TimerTypes == LoopTyped /\ state \in Phases \cup {"stopped"}
Quiet ==
    /\ state = "stopped" /\ dated = FALSE /\ timeout = None
    /\ pending = [f \in Phases |-> 0]
Running(phase) ==
    /\ state = phase /\ dated = TRUE /\ timeout = phase
    /\ pending = [f \in Phases |-> IF f = phase THEN 1 ELSE 0]

LEMMA QuietOrRunning ==
  ASSUME LoopTyped, OneTimeout
  PROVE  Quiet \/ \E phase \in Phases : Running(phase)
<1>1. CASE timeout = None
  BY <1>1, NoneIsUndefined DEF LoopTyped, OneTimeout, Quiet
<1>2. CASE timeout # None
  BY <1>2, NoneIsUndefined DEF LoopTyped, OneTimeout, Running
<1> QED BY <1>1, <1>2

LEMMA QuietTyped == ASSUME Quiet PROVE TimerTypes /\ OneTimeout
  BY NoneIsUndefined DEF Quiet, TimerTypes, LoopTyped, OneTimeout

LEMMA QuietTypedAfter == ASSUME Quiet' PROVE TimerTypes' /\ OneTimeout'
  BY NoneIsUndefined DEF Quiet, TimerTypes, LoopTyped, OneTimeout

LEMMA RunningTypedAfter ==
  ASSUME NEW phase \in Phases, Running(phase)', present' PROVE TimerTypes' /\ OneTimeout'
  BY NoneIsUndefined DEF Running, TimerTypes, LoopTyped, OneTimeout

(* clearTimeout stops what runs.                                           *)
LEMMA Clears ==
  ASSUME LoopTyped, OneTimeout, ClearTimeout
  PROVE  Quiet'
<1>1. CASE Quiet
  BY <1>1 DEF Quiet, ClearTimeout
<1>2. ASSUME NEW phase \in Phases, Running(phase)
      PROVE  Quiet'
  <2>1. pending' = [pending EXCEPT ![phase] = @ - 1]
    BY <1>2, NoneIsUndefined DEF Running, ClearTimeout
  <2>2. pending' = [f \in Phases |-> 0]
    BY <1>2, <2>1 DEF Running
  <2> QED BY <2>2 DEF Quiet, ClearTimeout
<1> QED BY <1>1, <1>2, QuietOrRunning

(* A phase begins from rest or with the timeout that ends the last one.    *)
LEMMA Begins ==
  ASSUME LoopTyped, OneTimeout, NEW phase \in Phases,
         \/ timeout = None /\ Begin(phase, pending)
         \/ \E f \in Phases : Fires(f) /\ Begin(phase, Fired(f))
  PROVE  Running(phase)'
<1>1. CASE timeout = None /\ Begin(phase, pending)
  <2>1. Quiet
    BY <1>1, QuietOrRunning, NoneIsUndefined DEF Running
  <2>2. pending' = [f \in Phases |-> IF f = phase THEN 1 ELSE 0]
    BY <1>1, <2>1 DEF Quiet, Begin, Arm
  <2> QED BY <1>1, <2>2 DEF Running, Begin, Arm
<1>2. ASSUME NEW f \in Phases, Fires(f), Begin(phase, Fired(f))
      PROVE  Running(phase)'
  <2>1. pending = [g \in Phases |-> IF g = f THEN 1 ELSE 0]
    <3>1. ~Quiet
      BY <1>2 DEF Quiet, Fires
    <3>2. PICK g \in Phases : Running(g)
      BY <3>1, QuietOrRunning
    <3>3. g = f
      BY <1>2, <3>2 DEF Running, Fires
    <3> QED BY <3>2, <3>3 DEF Running
  <2>2. Fired(f) = [g \in Phases |-> 0]
    BY <2>1 DEF Fired
  <2>3. pending' = [g \in Phases |-> IF g = phase THEN 1 ELSE 0]
    <3>1. pending' = [[g \in Phases |-> 0] EXCEPT ![phase] = @ + 1]
      BY <1>2, <2>2 DEF Begin, Arm
    <3> QED BY <3>1
  <2> QED BY <1>2, <2>3 DEF Running, Begin, Arm
<1> QED BY <1>1, <1>2

(* And a timeout only fires in the phase it ends.                          *)
LEMMA FiresInPhase ==
  ASSUME LoopTyped, OneTimeout, NEW f \in Phases, Fires(f)
  PROVE  state = f /\ present
  BY QuietOrRunning, NoneIsUndefined DEF Quiet, Running, Fires, OneTimeout

----------------------------------------------------------------------------
LEMMA InitTimer == Init => TimerInv
<1> SUFFICES ASSUME Init PROVE TimerInv
  OBVIOUS
<1>1. TimerTypes /\ OneTimeout
  BY QuietTyped DEF Init, Quiet
<1>2. TypeOK
  <2>1. NoEdit \in EditRecords /\ Silence \in Broadcasts
    BY BoundsAreNatural DEF NoEdit, Silence, EditRecords, Broadcasts
  <2>2. edits \in [EditCalls -> EditRecords] /\ sent \in Broadcasts
    BY <2>1 DEF Init
  <2>3. /\ property \in Properties /\ table \in Properties
        /\ columns \in Properties \cup {None} /\ present \in BOOLEAN
    BY DEF Init
  <2>4. /\ shortBreakCount \in 0..MaxShortBreaks
        /\ room \in 0..MaxRooms /\ observers \in 0..MaxObservers
    BY BoundsAreNatural, IntervalsAreIntegers DEF Init
  <2> QED BY <1>1, <2>2, <2>3, <2>4 DEF TypeOK, TimerTypes, LoopTyped
<1>3. property.interval \in Int
  BY IntervalTyped DEF Init
<1>4. BreaksCounted /\ CountFits
  BY <1>3 DEF Init, BreaksCounted, CountFits
<1>5. HoldsArguments
  BY DEF Init, HoldsArguments, EditsInProgress, NoEdit
<1> QED BY <1>1, <1>2, <1>4, <1>5 DEF TimerInv

(* The steps that touch the timer, without the edits.                      *)
LEMMA PhaseStepsKeepInv ==
  ASSUME TimerInv, BuildRoom \/ RemoveRoom \/ Start \/ TimeoutFires
  PROVE  TimerInv'
<1> LoopTyped /\ TypeOK /\ OneTimeout
  BY DEF TimerInv, TypeOK, LoopTyped
<1>1. property.interval \in Int /\ shortBreakCount \in Nat /\ observers \in Nat
  BY IntervalTyped, IntervalsAreIntegers, BoundsAreNatural DEF TypeOK
<1> USE BoundsAreNatural, IntervalsAreIntegers
<1>2. CASE BuildRoom
  <2>1. Quiet'
    BY <1>2 DEF BuildRoom, NewTimer, Quiet
  <2>2. TimerTypes' /\ OneTimeout'
    BY <2>1, QuietTypedAfter
  <2>3. columns \in Properties /\ room + 1 \in 0..MaxRooms
    BY <1>2 DEF BuildRoom, TimerInv, TypeOK, HoldsArguments
  <2>4. sent' \in Broadcasts
    BY <1>2 DEF BuildRoom, Silence, Broadcasts
  <2>5. TypeOK'
    BY <1>2, <2>2, <2>3, <2>4 DEF BuildRoom, NewTimer, TypeOK, TimerTypes, LoopTyped
  <2>6. BreaksCounted' /\ CountFits'
    BY <1>2, <2>3, IntervalTyped DEF BuildRoom, NewTimer, BreaksCounted, CountFits
  <2>7. HoldsArguments'
    BY <1>2 DEF BuildRoom, TimerInv, HoldsArguments, EditsInProgress
  <2> QED BY <2>2, <2>5, <2>6, <2>7 DEF TimerInv
<1>3. CASE RemoveRoom
  <2>1. Quiet'
    BY <1>3, Clears DEF RemoveRoom, DisposeTimer
  <2>2. TimerTypes' /\ OneTimeout'
    BY <2>1, QuietTypedAfter
  <2>3. sent' \in Broadcasts
    BY <1>3 DEF RemoveRoom, Silence, Broadcasts
  <2>4. TypeOK'
    BY <1>3, <2>2, <2>3 DEF RemoveRoom, DisposeTimer, TypeOK, TimerTypes, LoopTyped
  <2>5. BreaksCounted' /\ CountFits'
    BY <1>3, <2>1 DEF RemoveRoom, DisposeTimer, Quiet, TimerInv, BreaksCounted, CountFits
  <2>6. HoldsArguments'
    BY <1>3 DEF RemoveRoom, TimerInv, TypeOK, HoldsArguments, EditsInProgress
  <2> QED BY <2>2, <2>4, <2>5, <2>6 DEF TimerInv
<1>4. CASE Start
  <2>1. Running("started")'
    BY <1>4, Begins DEF Start, StartTimer, CanStart, Phases
  <2>2. present' /\ property' = property
    BY <1>4 DEF Start, StartTimer, Begin
  <2>3. TimerTypes' /\ OneTimeout'
    <3>1. "started" \in Phases
      BY DEF Phases
    <3> QED BY <2>1, <2>2, <3>1, RunningTypedAfter
  <2> QED BY <1>1, <1>4, <2>2, <2>3 DEF Start, StartTimer, Begin, Observed, TimerInv, TypeOK,
     TimerTypes, LoopTyped, BreaksCounted, CountFits, HoldsArguments, EditsInProgress,
     Broadcasts
<1>5. CASE FocusEnds
  <2>1. state = "started" /\ present
    BY <1>5, FiresInPhase DEF FocusEnds, EndFocus, Phases
  <2>2. \E phase \in Phases : Running(phase)'
    BY <1>5, Begins DEF FocusEnds, EndFocus, Phases
  <2>3. present' /\ property' = property
    BY <1>5, <2>1 DEF FocusEnds, EndFocus, Begin, roomVars
  <2>4. TimerTypes' /\ OneTimeout'
    BY <2>2, <2>3, RunningTypedAfter
  <2>5. TypeOK'
    BY <1>1, <1>5, <2>3, <2>4 DEF FocusEnds, EndFocus, Begin, Notify, ProtocolOf, roomVars,
       TypeOK, TimerTypes, LoopTyped, Broadcasts
  <2>6. BreaksCounted' /\ CountFits'
    BY <1>1, <1>5, <2>1, <2>3 DEF FocusEnds, EndFocus, LongBreakDue, Begin, TimerInv, CountFits,
       BreaksCounted, roomVars, TypeOK
  <2>7. HoldsArguments'
    BY <1>5 DEF FocusEnds, roomVars, TimerInv, HoldsArguments, EditsInProgress
  <2> QED BY <2>4, <2>5, <2>6, <2>7 DEF TimerInv
<1>6. CASE BreakEnds
  <2>1. PICK f \in {"shortBreak", "longBreak"} : EndBreak(f)
    BY <1>6 DEF BreakEnds
  <2>2. state = f /\ present
    BY <2>1, FiresInPhase DEF EndBreak, Phases
  <2>3. Running("started")'
    BY <2>1, Begins DEF EndBreak, Phases
  <2>4. present' /\ property' = property
    BY <1>6, <2>1, <2>2 DEF BreakEnds, EndBreak, Begin, roomVars
  <2>5. TimerTypes' /\ OneTimeout'
    <3>1. "started" \in Phases
      BY DEF Phases
    <3> QED BY <2>3, <2>4, <3>1, RunningTypedAfter
  <2>6. TypeOK'
    BY <1>1, <1>6, <2>1, <2>4, <2>5 DEF BreakEnds, EndBreak, Notify, ProtocolOf, roomVars,
       TypeOK, TimerTypes, LoopTyped, Broadcasts
  <2>7. BreaksCounted' /\ CountFits'
    BY <1>1, <2>1, <2>2, <2>4 DEF EndBreak, Begin, TimerInv, CountFits, BreaksCounted
  <2>8. HoldsArguments'
    BY <1>6 DEF BreakEnds, roomVars, TimerInv, HoldsArguments, EditsInProgress
  <2> QED BY <2>5, <2>6, <2>7, <2>8 DEF TimerInv
<1> QED BY <1>2, <1>3, <1>4, <1>5, <1>6 DEF TimeoutFires

(* A process that ends leaves no timer and no call.                        *)
LEMMA RejectionKeepsInv ==
  ASSUME TimerInv, NEW e \in EditCalls, WriteRejected(e)
  PROVE  TimerInv'
<1>1. Quiet'
  BY Clears DEF WriteRejected, DisposeTimer, TimerInv, TypeOK, LoopTyped
<1>2. TimerTypes' /\ OneTimeout'
  BY <1>1, QuietTypedAfter
<1>3. edits' \in [EditCalls -> EditRecords] /\ EditsInProgress' = {}
  <2>1. \A d \in EditCalls : [edits[d] EXCEPT !.step = "done"] \in EditRecords
    BY DEF TimerInv, TypeOK, EditRecords
  <2>2. \A d \in EditCalls : edits'[d].step \in {"idle", "done"}
    BY DEF WriteRejected, TimerInv, TypeOK, EditRecords
  <2>3. edits' \in [EditCalls -> EditRecords]
    BY <2>1 DEF WriteRejected, TimerInv, TypeOK
  <2> QED BY <2>2, <2>3 DEF EditsInProgress
<1>4. sent' \in Broadcasts
  BY DEF WriteRejected, Silence, Broadcasts
<1>5. TypeOK'
  BY <1>2, <1>3, <1>4 DEF WriteRejected, DisposeTimer, TimerInv, TypeOK, TimerTypes, LoopTyped
<1>6. BreaksCounted' /\ CountFits'
  BY <1>1 DEF WriteRejected, DisposeTimer, Quiet, TimerInv, BreaksCounted, CountFits
<1>7. HoldsArguments'
  BY <1>3 DEF WriteRejected, HoldsArguments
<1> QED BY <1>2, <1>5, <1>6, <1>7 DEF TimerInv

(* The calls, and the edits they apply.                                    *)
LEMMA CallsKeepInv ==
  ASSUME TimerInv, NEW e \in EditCalls,
         EditStep(e) \/ \E edit \in Edits : EditTimer(e, edit)
  PROVE  TimerInv'
<1> USE DEF roomVars, timerVars
<1>1. ASSUME NEW edit \in Edits, EditTimer(e, edit)
      PROVE  TimerInv'
  <2>1. edits' \in [EditCalls -> EditRecords]
    BY <1>1 DEF EditTimer, TimerInv, TypeOK, EditRecords
  <2>2. HoldsArguments'
    BY <1>1 DEF EditTimer, TimerInv, TypeOK, HoldsArguments, EditsInProgress
  <2> QED BY <1>1, <2>1, <2>2, BoundsAreNatural DEF EditTimer, TimerInv, TypeOK, OneTimeout,
     BreaksCounted, CountFits, Silence, Broadcasts
<1>2. CASE WriteColumns(e)
  <2>1. e \in EditsInProgress /\ edits[e].edit \in Edits
    BY <1>2 DEF WriteColumns, EditsInProgress, TimerInv, HoldsArguments
  <2>2. edits' \in [EditCalls -> EditRecords] /\ HoldsArguments'
    BY <1>2, <2>1 DEF WriteColumns, TimerInv, TypeOK, EditRecords, HoldsArguments, EditsInProgress
  <2>3. table' \in Properties
    BY <1>2, <2>1, MergedTyped DEF WriteColumns, TimerInv, TypeOK
  <2> QED BY <1>2, <2>2, <2>3, BoundsAreNatural DEF WriteColumns, TimerInv, TypeOK, OneTimeout,
     BreaksCounted, CountFits, Silence, Broadcasts
<1>3. CASE ApplyEdit(e)
  <2>1. edits[e].edit \in Edits
    BY <1>3 DEF ApplyEdit, EditsInProgress, TimerInv, HoldsArguments
  <2>2. edits' \in [EditCalls -> EditRecords] /\ HoldsArguments'
    BY <1>3, <2>1 DEF ApplyEdit, TimerInv, TypeOK, EditRecords, HoldsArguments, EditsInProgress
  <2>3. CASE present /\ edits[e].room = room
    <3>1. EditAndStop(edits[e].edit)
      BY <1>3, <2>3 DEF ApplyEdit
    <3>2. Quiet'
      BY <3>1, Clears DEF EditAndStop, TimerInv, TypeOK, LoopTyped
    <3>3. TimerTypes' /\ OneTimeout'
      BY <3>2, QuietTypedAfter
    <3>4. property' \in Properties /\ shortBreakCount' = 0 /\ state' = "stopped"
      BY <2>1, <3>1, MergedTyped DEF EditAndStop, Edited, ClearTimeout, TimerInv, TypeOK
    <3>5. sent' \in Broadcasts
      BY <1>3, <2>3 DEF ApplyEdit, Broadcasts
    <3>6. TypeOK'
      BY <1>3, <2>2, <3>3, <3>4, <3>5, IntervalsAreIntegers
         DEF ApplyEdit, TimerInv, TypeOK, TimerTypes, LoopTyped
    <3>7. BreaksCounted' /\ CountFits'
      BY <3>4, IntervalTyped DEF BreaksCounted, CountFits
    <3> QED BY <2>2, <3>3, <3>6, <3>7 DEF TimerInv
  <2>4. CASE ~(present /\ edits[e].room = room)
    BY <1>3, <2>2, <2>4, BoundsAreNatural DEF ApplyEdit, TimerInv, TypeOK, OneTimeout,
       BreaksCounted, CountFits, Silence, Broadcasts
  <2> QED BY <2>3, <2>4
<1> QED BY <1>1, <1>2, <1>3 DEF EditStep

LEMMA NextTimer == TimerInv /\ [Next]_vars => TimerInv'
<1> SUFFICES ASSUME TimerInv, [Next]_vars PROVE TimerInv'
  OBVIOUS
<1>1. CASE UNCHANGED vars
  BY <1>1 DEF vars, timerVars, roomVars, TimerInv, TypeOK, OneTimeout, BreaksCounted,
     CountFits, HoldsArguments, EditsInProgress
<1>2. CASE ReadColumns
  <2>1. sent' \in Broadcasts
    BY <1>2 DEF ReadColumns, Silence, Broadcasts
  <2>2. HoldsArguments'
    BY <1>2 DEF ReadColumns, roomVars, TimerInv, HoldsArguments, EditsInProgress
  <2> QED BY <1>2, <2>1, <2>2 DEF ReadColumns, timerVars, roomVars, TimerInv, TypeOK,
     OneTimeout, BreaksCounted, CountFits
<1>3. CASE Next
  BY <1>2, <1>3, PhaseStepsKeepInv, RejectionKeepsInv, CallsKeepInv DEF Next
<1> QED BY <1>1, <1>3

LEMMA TimerInvariant == Spec => []TimerInv
  BY InitTimer, NextTimer, PTL DEF Spec

(* Every variable of the timer and of the calls on it keeps its type.      *)
THEOREM TimerTyped == Spec => []TypeOK
  BY TimerInvariant, PTL DEF TimerInv

(* However starts, edits, removals and timeouts interleave, the event loop *)
(* holds the one timeout of a running timer and none of any other.         *)
THEOREM NoTimeoutLeaks == Spec => []OneTimeout
  BY TimerInvariant, PTL DEF TimerInv

(* Edits never leave the count of short breaks at or above the interval.   *)
THEOREM CountStaysBelow == Spec => []BreaksCounted
  BY TimerInvariant, PTL DEF TimerInv
----------------------------------------------------------------------------
(* The cycle.                                                              *)

LEMMA EvenOdd == \A c \in Int : (2 * c) % 2 = 0 /\ (2 * c + 1) % 2 = 1
  OBVIOUS

(* The phases of PomodoroCycle at the positions of a cycle.                *)
LEMMA PhasesOfCycle ==
  ASSUME NEW n \in Int, NEW c \in Nat
  PROVE  /\ Cycle!PhaseAt(n, Cycle!Stopped) = "stopped"
         /\ Cycle!PhaseAt(n, 2 * c) = "started"
         /\ Cycle!PhaseAt(n, 2 * c + 1) = IF c = n - 1 THEN "longBreak" ELSE "shortBreak"
<1>1. Cycle!PhaseAt(n, Cycle!Stopped) = "stopped"
  BY DEF Cycle!PhaseAt, Cycle!Stopped
<1>2. Cycle!PhaseAt(n, 2 * c) = "started"
  <2>1. 2 * c # -1 /\ 2 * c >= 0 /\ (2 * c) % 2 = 0
    BY EvenOdd
  <2> QED BY <2>1 DEF Cycle!PhaseAt, Cycle!Stopped
<1>3. Cycle!PhaseAt(n, 2 * c + 1) = IF c = n - 1 THEN "longBreak" ELSE "shortBreak"
  <2>1. 2 * c + 1 # -1 /\ 2 * c + 1 >= 0 /\ (2 * c + 1) % 2 = 1
    BY EvenOdd
  <2>2. 2 * c + 1 = 2 * n - 1 <=> c = n - 1
    OBVIOUS
  <2> QED BY <2>1, <2>2 DEF Cycle!PhaseAt, Cycle!Stopped
<1> QED BY <1>1, <1>2, <1>3

(* Every step that stops the timer is the cycle's Stop.                    *)
LEMMA StopsCycle ==
  ASSUME TimerInv', state' = "stopped"
  PROVE  Cycle!Next
<1>1. property'.interval \in Intervals /\ property'.interval \in Int
  BY IntervalTyped DEF TimerInv, TypeOK, Properties
<1>2. Position' = Cycle!Stopped
  BY DEF Position, Cycle!Stopped
<1>3. state' = Cycle!PhaseAt(property'.interval, Cycle!Stopped)
  BY <1>1, PhasesOfCycle
<1> QED BY <1>1, <1>2, <1>3 DEF Cycle!Next, Cycle!Stop, Cycle!MovesTo

LEMMA StartsCycle ==
  ASSUME TimerInv, Start
  PROVE  Cycle!Next
<1>1. state = "stopped" /\ shortBreakCount = 0
  BY DEF TimerInv, OneTimeout, CountFits, Start, StartTimer, CanStart
<1>2. state' = "started" /\ property' = property /\ shortBreakCount' = 0
  BY <1>1 DEF Start, StartTimer, Begin
<1>3. Position = Cycle!Stopped /\ Position' = 0
  BY <1>1, <1>2 DEF Position, Cycle!Stopped
<1>4. property.interval \in Int
  BY IntervalTyped DEF TimerInv, TypeOK
<1>5. Cycle!PhaseAt(property.interval, 0) = "started"
  BY <1>4, PhasesOfCycle
<1> QED BY <1>2, <1>3, <1>5 DEF Cycle!Next, Cycle!Start, Cycle!MovesTo

LEMMA FocusAdvances ==
  ASSUME TimerInv, FocusEnds
  PROVE  Cycle!Next
<1> DEFINE n == property.interval
           c == shortBreakCount
<1>1. n \in Int /\ c \in Nat /\ (n >= 1 => c < n)
  BY IntervalTyped, IntervalsAreIntegers DEF TimerInv, TypeOK, BreaksCounted
<1>2. state = "started"
  BY FiresInPhase DEF FocusEnds, EndFocus, Phases, TimerInv, TypeOK, LoopTyped
<1>3. property' = property
  BY DEF FocusEnds, EndFocus, Begin
<1>4. CASE n < 1
  <2>1. c # n - 1
    BY <1>1, <1>4
  <2>2. state' = "shortBreak"
    BY <2>1 DEF FocusEnds, EndFocus, LongBreakDue, Begin
  <2>3. Position = 0 /\ Position' = 1 /\ Cycle!Period(n) = 2
    BY <1>1, <1>2, <1>3, <1>4, <2>2 DEF Position, Cycle!Period
  <2>4. Cycle!PhaseAt(n, 1) = "shortBreak"
    <3>1. Cycle!PhaseAt(n, 2 * 0 + 1) = IF 0 = n - 1 THEN "longBreak" ELSE "shortBreak"
      BY <1>1, PhasesOfCycle
    <3> QED BY <1>1, <1>4, <3>1
  <2> QED BY <1>3, <2>2, <2>3, <2>4
          DEF Cycle!Next, Cycle!Advance, Cycle!MovesTo, Cycle!Stopped
<1>5. CASE n >= 1
  <2>1. /\ state' = IF c = n - 1 THEN "longBreak" ELSE "shortBreak"
        /\ shortBreakCount' = IF c = n - 1 THEN 0 ELSE c + 1
    BY DEF FocusEnds, EndFocus, LongBreakDue, Begin
  <2>2. Position = 2 * c /\ Position' = 2 * c + 1
    BY <1>1, <1>2, <1>3, <1>5, <2>1 DEF Position
  <2>3. Cycle!Period(n) = 2 * n /\ 2 * c + 1 # 2 * n /\ 2 * c # -1
    BY <1>1, <1>5 DEF Cycle!Period
  <2>4. state' = Cycle!PhaseAt(n, 2 * c + 1)
    BY <1>1, <2>1, PhasesOfCycle
  <2> QED BY <1>3, <2>2, <2>3, <2>4
          DEF Cycle!Next, Cycle!Advance, Cycle!MovesTo, Cycle!Stopped
<1> QED BY <1>1, <1>4, <1>5

LEMMA BreakAdvances ==
  ASSUME TimerInv, BreakEnds
  PROVE  Cycle!Next
<1> DEFINE n == property.interval
           c == shortBreakCount
<1>1. n \in Int /\ c \in Nat /\ (n >= 1 => c < n)
  BY IntervalTyped, IntervalsAreIntegers DEF TimerInv, TypeOK, BreaksCounted
<1>2. PICK f \in {"shortBreak", "longBreak"} : EndBreak(f)
  BY DEF BreakEnds
<1>3. state = f
  BY <1>2, FiresInPhase DEF EndBreak, Phases, TimerInv, TypeOK, LoopTyped
<1>4. property' = property /\ state' = "started" /\ shortBreakCount' = c
  BY <1>2 DEF EndBreak, Begin
<1>5. Position' = IF n < 1 THEN 0 ELSE 2 * c
  BY <1>4 DEF Position
<1>6. Cycle!PhaseAt(n, 2 * c) = "started" /\ Cycle!PhaseAt(n, 0) = "started"
  BY <1>1, PhasesOfCycle
<1>7. Position # Cycle!Stopped
      /\ Position' = IF Position + 1 = Cycle!Period(n) THEN 0 ELSE Position + 1
  <2>1. CASE f = "shortBreak"
    <3>1. c >= 1 /\ Position = IF n < 1 THEN 1 ELSE 2 * c - 1
      BY <1>3, <2>1 DEF Position, TimerInv, CountFits
    <3> QED BY <1>1, <1>5, <3>1 DEF Cycle!Period, Cycle!Stopped
  <2>2. CASE f = "longBreak"
    <3>1. c = 0 /\ n >= 1 /\ Position = 2 * n - 1
      BY <1>3, <2>2 DEF Position, TimerInv, CountFits
    <3> QED BY <1>1, <1>5, <3>1 DEF Cycle!Period, Cycle!Stopped
  <2> QED BY <1>2, <2>1, <2>2
<1>8. state' = Cycle!PhaseAt(n, Position')
  BY <1>4, <1>5, <1>6
<1> QED BY <1>4, <1>7, <1>8 DEF Cycle!Next, Cycle!Advance, Cycle!MovesTo

LEMMA StepFollowsCycle ==
  ASSUME TimerInv, TimerInv', [Next]_vars
  PROVE  [Cycle!Next]_(Cycle!cycleVars)
<1>1. CASE UNCHANGED timerVars
  BY <1>1 DEF timerVars, Cycle!cycleVars, Position
<1>2. CASE BuildRoom \/ RemoveRoom
  BY <1>2, StopsCycle DEF BuildRoom, NewTimer, RemoveRoom, DisposeTimer, ClearTimeout
<1>3. CASE Start \/ TimeoutFires
  BY <1>3, StartsCycle, FocusAdvances, BreakAdvances DEF TimeoutFires
<1>4. ASSUME NEW e \in EditCalls, EditStep(e) \/ WriteRejected(e)
      PROVE  UNCHANGED timerVars \/ state' = "stopped"
  BY <1>4 DEF EditStep, WriteRejected, DisposeTimer, WriteColumns, ApplyEdit, EditAndStop, ClearTimeout
<1>5. CASE Next
  BY <1>1, <1>2, <1>3, <1>4, <1>5, StopsCycle DEF Next, ReadColumns, EditTimer
<1> QED BY <1>1, <1>5 DEF vars

(* The room's timer implements the cycle: for every interval, and whatever *)
(* starts, edits, removals and new Rooms come between its timeouts, focus  *)
(* and breaks alternate and every interval-th break is the long one.       *)
THEOREM TimerFollowsCycle == Spec => FollowsCycle
<1>1. Init => Cycle!Init
  BY DEF Init, Cycle!Init, Position, Cycle!Stopped, Properties
<1>2. TimerInv /\ TimerInv' /\ [Next]_vars => [Cycle!Next]_(Cycle!cycleVars)
  BY StepFollowsCycle
<1> QED BY <1>1, <1>2, TimerInvariant, PTL DEF Spec, FollowsCycle, Cycle!Spec

----------------------------------------------------------------------------
(* The broadcasts.                                                         *)

(* A timer only runs once somebody observes it.                            *)
Heard == state # "stopped" => observers >= 1

LEMMA PhaseChanges ==
  ASSUME TimerInv, Heard, [Next]_vars, state' # state, state' # "stopped"
  PROVE  /\ sent'.protocol = ProtocolOf(state')
         /\ sent'.times >= 1 /\ observers' >= 1
         /\ observers' = 1 => sent'.times = 1
<1> observers \in Nat
  BY BoundsAreNatural DEF TimerInv, TypeOK
<1>1. Start \/ TimeoutFires
  <2>1. ASSUME NEW e \in EditCalls,
               EditStep(e) \/ WriteRejected(e) \/ \E edit \in Edits : EditTimer(e, edit)
        PROVE  FALSE
    BY <2>1 DEF EditStep, EditTimer, WriteColumns, ApplyEdit, EditAndStop, WriteRejected,
       DisposeTimer, ClearTimeout, timerVars
  <2>2. ~ReadColumns /\ ~BuildRoom /\ ~RemoveRoom /\ ~UNCHANGED vars
    BY DEF ReadColumns, BuildRoom, NewTimer, RemoveRoom, DisposeTimer, ClearTimeout,
       timerVars, vars
  <2> QED BY <2>1, <2>2 DEF Next
<1>2. CASE Start
  BY <1>2 DEF Start, StartTimer, Begin, Observed, ProtocolOf
<1>3. CASE FocusEnds
  <2>1. state = "started" /\ observers' = observers
    BY <1>3, FiresInPhase DEF FocusEnds, EndFocus, Phases, TimerInv, TypeOK, LoopTyped, roomVars
  <2> QED BY <1>3, <2>1 DEF FocusEnds, Notify, Heard
<1>4. CASE BreakEnds
  <2>1. state # "stopped" /\ state' = "started" /\ observers' = observers
    BY <1>4, FiresInPhase DEF BreakEnds, EndBreak, Begin, Phases, TimerInv, TypeOK, LoopTyped,
       roomVars
  <2> QED BY <1>4, <2>1 DEF BreakEnds, Notify, Heard
<1> QED BY <1>1, <1>2, <1>3, <1>4 DEF TimeoutFires

LEMMA StaysHeard == TimerInv /\ Heard /\ [Next]_vars => Heard'
<1> SUFFICES ASSUME TimerInv, Heard, [Next]_vars, state' # "stopped"
             PROVE  observers' >= 1
  BY DEF Heard
<1> observers \in Nat
  BY BoundsAreNatural DEF TimerInv, TypeOK
<1>1. CASE state' # state
  BY <1>1, PhaseChanges
<1>2. CASE state' = state
  <2>1. ~BuildRoom
    BY DEF BuildRoom, NewTimer
  <2>2. observers' = observers \/ observers' = observers + 1
    BY <2>1 DEF Next, vars, roomVars, ReadColumns, RemoveRoom, Start, Observed, TimeoutFires,
       FocusEnds, BreakEnds, EditStep, EditTimer, WriteColumns, WriteRejected, ApplyEdit
  <2> QED BY <1>2, <2>2 DEF Heard
<1> QED BY <1>1, <1>2

LEMMA HistorySteps == [NextH]_allVars => [Next]_vars
  BY DEF NextH, allVars

(* Every phase that begins is broadcast under its own protocol, and once   *)
(* while the timer has one observer: no order of starts, timeouts, edits   *)
(* and new Rooms lets a timer run unheard.                                 *)
THEOREM PhasesAnnounced == SpecH => PhaseAnnounced
<1>1. InitH => TimerInv /\ Heard
  BY InitTimer DEF InitH, Init, Heard
<1>2. TimerInv /\ Heard /\ [NextH]_allVars => (TimerInv /\ Heard)'
  BY HistorySteps, NextTimer, StaysHeard
<1>3. TimerInv /\ Heard /\ [NextH]_allVars =>
        [state' # state /\ state' # "stopped" =>
            /\ sent'.protocol = ProtocolOf(state')
            /\ sent'.times >= 1
            /\ observers' = 1 => sent'.times = 1]_allVars
  BY HistorySteps, PhaseChanges
<1> QED BY <1>1, <1>2, <1>3, PTL DEF SpecH, PhaseAnnounced

----------------------------------------------------------------------------
(* The properties of the timer and the columns of the table.               *)

(* With nothing skewed one edit is under way at most, and none while a     *)
(* Room is being built.  The edit is one of the Room that runs; until its  *)
(* update of the row the timer and the row agree, and after it the row is  *)
(* ahead by the edit that the timer is about to get.                       *)
EditUnderWay(e) ==
    /\ edits[e].room = room
    /\ table = IF edits[e].step = "write" THEN property
                                          ELSE Merged(property, edits[e].edit)
RowAndTimer ==
    /\ \A d, e \in EditsInProgress : d = e
    /\ columns # None => EditsInProgress = {} /\ columns = table
    /\ present => /\ EditsInProgress = {} => property = table
                  /\ \A e \in EditsInProgress : EditUnderWay(e)
TableInv ==
    /\ IsFiniteSet(EditsInProgress)
    /\ ~skewed => RowAndTimer

(* The calls in progress are finitely many whatever EditCalls is: a step   *)
(* begins one at most.                                                     *)
LEMMA FewEdits ==
  ASSUME TimerInv, [Next]_vars, IsFiniteSet(EditsInProgress)
  PROVE  IsFiniteSet(EditsInProgress')
<1>1. \E e : EditsInProgress' \subseteq EditsInProgress \cup {e}
  <2>1. ASSUME NEW e \in EditCalls,
               EditStep(e) \/ WriteRejected(e) \/ \E edit \in Edits : EditTimer(e, edit)
        PROVE  EditsInProgress' \subseteq EditsInProgress \cup {e}
    <3>1. CASE EditStep(e) \/ \E edit \in Edits : EditTimer(e, edit)
      BY <3>1 DEF EditStep, EditTimer, WriteColumns, ApplyEdit, EditsInProgress, TimerInv, TypeOK
    <3>2. CASE WriteRejected(e)
      BY <3>2 DEF WriteRejected, EditsInProgress, TimerInv, TypeOK, EditRecords
    <3> QED BY <2>1, <3>1, <3>2
  <2>2. ASSUME edits' = edits
        PROVE  EditsInProgress' = EditsInProgress
    BY <2>2 DEF EditsInProgress
  <2>3. CASE edits' # edits
    BY <2>1, <2>3 DEF Next, ReadColumns, BuildRoom, RemoveRoom, Start, TimeoutFires, FocusEnds,
       BreakEnds, vars
  <2> QED BY <2>2, <2>3
<1> QED BY <1>1, FS_AddElement, FS_Subset

LEMMA AloneUnlessMany ==
  ASSUME NEW S, IsFiniteSet(S), ~(Cardinality(S) > 1), NEW d \in S, NEW e \in S
  PROVE  d = e
<1> SUFFICES ASSUME d # e PROVE FALSE
  OBVIOUS
<1>1. IsFiniteSet({d}) /\ Cardinality({d}) = 1
  BY FS_Singleton
<1>2. Cardinality({d} \cup {e}) = 2
  BY <1>1, FS_AddElement
<1>3. Cardinality({d} \cup {e}) <= Cardinality(S) /\ Cardinality(S) \in Nat
  BY FS_Subset, FS_CardinalityType
<1> QED BY <1>2, <1>3

LEMMA TableStays ==
  ASSUME TimerInv, TimerInv', TableInv, Next, HistoryStep, ~skewed'
  PROVE  RowAndTimer'
<1>1. /\ \A d, e \in EditsInProgress' : d = e
      /\ columns' # None => EditsInProgress' = {}
  BY FewEdits, AloneUnlessMany DEF HistoryStep, TableInv
<1>2. columns' = None \/ columns # None => RowAndTimer
  BY DEF HistoryStep, TableInv
<1>3. CASE ReadColumns
  BY <1>1, <1>3 DEF ReadColumns, RowAndTimer, roomVars
<1>4. CASE BuildRoom
  <2>1. EditsInProgress' = {} /\ columns = table
    BY <1>2, <1>4 DEF BuildRoom, RowAndTimer, EditsInProgress
  <2> QED BY <1>1, <1>4, <2>1 DEF BuildRoom, NewTimer, RowAndTimer
<1>5. CASE RemoveRoom
  BY <1>1, <1>2, <1>5 DEF RemoveRoom, RowAndTimer
<1>6. CASE Start \/ TimeoutFires
  <2>1. UNCHANGED <<present, room, property, table, columns, edits>>
    BY <1>6 DEF Start, StartTimer, TimeoutFires, FocusEnds, EndFocus, BreakEnds, EndBreak, Begin,
       roomVars
  <2> QED BY <1>2, <1>6, <2>1 DEF RowAndTimer, EditUnderWay, EditsInProgress
<1>7. ASSUME NEW e \in EditCalls, NEW edit \in Edits, EditTimer(e, edit)
      PROVE  RowAndTimer'
  <2>1. /\ e \in EditsInProgress' /\ e \notin EditsInProgress
        /\ EditsInProgress \subseteq EditsInProgress'
        /\ UNCHANGED <<present, room, property, table, columns>> /\ present
        /\ edits'[e] = [step |-> "write", room |-> room, edit |-> edit]
    BY <1>7 DEF EditTimer, timerVars, roomVars, EditsInProgress, TimerInv, TypeOK
  <2>2. EditsInProgress = {} /\ RowAndTimer
    BY <1>1, <1>2, <1>7, <2>1 DEF EditTimer
  <2> QED BY <1>1, <2>1, <2>2 DEF RowAndTimer, EditUnderWay
<1>8. ASSUME NEW e \in EditCalls, EditStep(e)
      PROVE  RowAndTimer'
  <2>1. e \in EditsInProgress /\ RowAndTimer /\ columns = None
    BY <1>2, <1>8 DEF EditStep, WriteColumns, ApplyEdit, EditsInProgress, RowAndTimer
  <2>2. columns' = None /\ UNCHANGED <<present, room>>
    BY <1>8, <2>1 DEF EditStep, WriteColumns, ApplyEdit, roomVars
  <2>3. CASE WriteColumns(e)
    <3>1. /\ property' = property /\ table' = Merged(table, edits[e].edit)
          /\ edits'[e].room = edits[e].room /\ edits'[e].edit = edits[e].edit
          /\ edits'[e].step = "written" /\ edits[e].step = "write"
          /\ EditsInProgress' = EditsInProgress
      BY <2>3 DEF WriteColumns, timerVars, TimerInv, TypeOK, EditRecords, EditsInProgress
    <3>2. present => EditUnderWay(e)'
      BY <2>1, <3>1, <2>2 DEF RowAndTimer, EditUnderWay, Merged
    <3> QED BY <1>1, <2>1, <2>2, <3>1, <3>2 DEF RowAndTimer
  <2>4. CASE ApplyEdit(e)
    <3>1. EditsInProgress' = {}
      BY <2>1, <2>4 DEF ApplyEdit, EditsInProgress, RowAndTimer, TimerInv, TypeOK
    <3>2. present => property' = table'
      BY <2>1, <2>4 DEF ApplyEdit, RowAndTimer, EditUnderWay, EditAndStop, Edited
    <3> QED BY <2>2, <3>1, <3>2 DEF RowAndTimer
  <2> QED BY <1>8, <2>3, <2>4 DEF EditStep
<1>9. ASSUME NEW e \in EditCalls, WriteRejected(e)
      PROVE  RowAndTimer'
  BY <1>9 DEF WriteRejected, RowAndTimer, EditsInProgress, TimerInv, TypeOK
<1> QED BY <1>3, <1>4, <1>5, <1>6, <1>7, <1>8, <1>9 DEF Next

(* A running timer has the lengths and the interval that the table holds,  *)
(* whenever no edit is under way and none raced another or the building of *)
(* the Room: edits of Rooms dropped meanwhile, starts and timeouts never   *)
(* separate them.                                                          *)
THEOREM TimerKeepsTable == SpecH => []TimerFollowsTable
<1>1. InitH => TimerInv /\ TableInv
  <2> SUFFICES ASSUME InitH PROVE TimerInv /\ TableInv
    OBVIOUS
  <2>1. EditsInProgress = {}
    BY DEF InitH, Init, EditsInProgress, NoEdit
  <2> QED BY <2>1, InitTimer, FS_EmptySet DEF InitH, Init, TableInv, RowAndTimer
<1>2. TimerInv /\ TableInv /\ [NextH]_allVars => (TimerInv /\ TableInv)'
  <2> SUFFICES ASSUME TimerInv, TableInv, [NextH]_allVars PROVE TimerInv' /\ TableInv'
    OBVIOUS
  <2>1. TimerInv' /\ IsFiniteSet(EditsInProgress')
    BY HistorySteps, NextTimer, FewEdits DEF TableInv
  <2>2. CASE NextH
    BY <2>1, <2>2, TableStays DEF NextH, TableInv
  <2>3. CASE UNCHANGED allVars
    BY <2>1, <2>3 DEF allVars, vars, timerVars, roomVars, TableInv, RowAndTimer, EditUnderWay,
       EditsInProgress
  <2> QED BY <2>1, <2>2, <2>3
<1>3. TableInv => TimerFollowsTable
  BY DEF TableInv, RowAndTimer, TimerFollowsTable
<1> QED BY <1>1, <1>2, <1>3, PTL DEF SpecH
==========================================================================
