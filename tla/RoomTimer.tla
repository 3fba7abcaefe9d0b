---------------------------- MODULE RoomTimer ----------------------------
(***************************************************************************)
(* The timer of one room id: START_TIMER and EDIT_AND_STOP_TIMER of its    *)
(* clients, the observers RoomService adds to it, the columns of the room  *)
(* table it is built from and edited in, and the Room objects it belongs   *)
(* to, one after the other.  Two Rooms built at once for the same id are   *)
(* the subject of RoomService and do not occur here.                       *)
(***************************************************************************)
EXTENDS PomodoroTimer

CONSTANTS
    EditCalls,     \* EDIT_AND_STOP_TIMER calls (a bound on their number)
    MaxRooms,      \* bound on the Room objects built
    MaxObservers   \* bound on the observers of one timer

ASSUME BoundsAreNatural == MaxRooms \in Nat /\ MaxObservers \in Nat

VARIABLES
    table,       \* the timer columns of the room's row
    present,     \* a Room runs
    room,        \* the number of the Room built last
    columns,     \* what createAndJoin has read, None if no Room is being built
    observers,   \* how many observers the timer has
    edits,       \* edit call -> where it stands, its Room and its argument
    sent         \* the broadcasts of the last step: protocol and how often

roomVars == <<present, room, observers>>
vars == <<timerVars, table, roomVars, columns, edits, sent>>

NoEdit == [step |-> "idle", room |-> 0, edit |-> None]
Silence == [protocol |-> None, times |-> 0]

Init ==
    /\ property \in Properties
    /\ state = "stopped" /\ dated = FALSE /\ timeout = None
    /\ pending = [f \in Phases |-> 0] /\ shortBreakCount = 0
    /\ table = property
    /\ present = FALSE /\ room = 0 /\ observers = 0
    /\ columns = None
    /\ edits = [e \in EditCalls |-> NoEdit]
    /\ sent = Silence

(* createAndJoin reads the row, and later builds the Room from it.         *)
ReadColumns ==
    /\ ~present /\ columns = None /\ room < MaxRooms
    /\ columns' = table
    /\ sent' = Silence
    /\ UNCHANGED <<timerVars, table, roomVars, edits>>

BuildRoom ==
    /\ columns # None
    /\ NewTimer(columns)
    /\ present' = TRUE /\ room' = room + 1 /\ observers' = 0
    /\ columns' = None
    /\ sent' = Silence
    /\ UNCHANGED <<table, edits>>

(* The last peer leaves, and the Room is disposed and dropped.             *)
RemoveRoom ==
    /\ present
    /\ DisposeTimer
    /\ present' = FALSE
    /\ sent' = Silence
    /\ UNCHANGED <<table, room, observers, columns, edits>>

(* A mutant of Observed: the timer is not observed.                        *)
ObservedNot == UNCHANGED observers

Observed == observers' = observers + 1

(* startTimer: the observers so far are told of the start, then the        *)
(* caller's is added, and the start is broadcast once more.                *)
Start ==
    /\ present /\ observers < MaxObservers
    /\ StartTimer
    /\ Observed
    /\ sent' = [protocol |-> "start-timer", times |-> observers + 1]
    /\ UNCHANGED <<table, present, room, columns, edits>>

(* What the observers broadcast when a phase begins.                       *)
ProtocolOf(phase) ==
    CASE phase = "started" -> "start-timer"
      [] phase = "shortBreak" -> "start-short-break"
      [] phase = "longBreak" -> "start-long-break"
Notify(phase) == sent' = [protocol |-> ProtocolOf(phase), times |-> observers]

(* A timeout fires, of a Room that runs or of one that has been dropped.   *)
FocusEnds ==
    /\ EndFocus
    /\ Notify(state')
    /\ UNCHANGED <<table, roomVars, columns, edits>>

BreakEnds ==
    /\ EndBreak("shortBreak") \/ EndBreak("longBreak")
    /\ Notify("started")
    /\ UNCHANGED <<table, roomVars, columns, edits>>

(* editAndStopTimer updates the row, and the timer when that is answered.  *)
EditTimer(e, edit) ==
    /\ present /\ edits[e].step = "idle"
    /\ edits' = [edits EXCEPT ![e] = [step |-> "write", room |-> room, edit |-> edit]]
    /\ sent' = Silence
    /\ UNCHANGED <<timerVars, table, roomVars, columns>>

WriteColumns(e) ==
    /\ edits[e].step = "write"
    /\ table' = Merged(table, edits[e].edit)
    /\ edits' = [edits EXCEPT ![e].step = "written"]
    /\ sent' = Silence
    /\ UNCHANGED <<timerVars, roomVars, columns>>

(* The database rejects the update.  Nobody waits for editAndStopTimer or  *)
(* catches what it throws: the process ends, and with it its timers and    *)
(* every call of it; updates the database has answered before stay.        *)
WriteRejected(e) ==
    /\ edits[e].step = "write"
    /\ DisposeTimer
    /\ present' = FALSE /\ columns' = None
    /\ edits' = [d \in EditCalls |->
          IF edits[d].step = "idle" THEN edits[d] ELSE [edits[d] EXCEPT !.step = "done"]]
    /\ sent' = Silence
    /\ UNCHANGED <<table, room, observers>>

(* The call edits the Room it began with: of one dropped meanwhile nothing *)
(* is left to stop, and no peer to be told.                                *)
ApplyEdit(e) ==
    /\ edits[e].step = "written"
    /\ IF present /\ edits[e].room = room
       THEN /\ EditAndStop(edits[e].edit)
            /\ sent' = [protocol |-> "edit-and-stop-timer", times |-> 1]
       ELSE /\ UNCHANGED timerVars
            /\ sent' = Silence
    /\ edits' = [edits EXCEPT ![e].step = "done"]
    /\ UNCHANGED <<table, roomVars, columns>>

TimeoutFires == FocusEnds \/ BreakEnds
EditStep(e) == WriteColumns(e) \/ ApplyEdit(e)

Next ==
    \/ ReadColumns \/ BuildRoom \/ RemoveRoom \/ Start \/ TimeoutFires
    \/ \E e \in EditCalls :
          EditStep(e) \/ WriteRejected(e) \/ \E edit \in Edits : EditTimer(e, edit)

Spec == Init /\ [][Next]_vars

(* Timeouts fire, and the database answers; clients owe nothing.           *)
Fairness ==
    /\ WF_vars(TimeoutFires) /\ WF_vars(BuildRoom)
    /\ \A e \in EditCalls : WF_vars(EditStep(e))

FairSpec == Spec /\ Fairness
==========================================================================
