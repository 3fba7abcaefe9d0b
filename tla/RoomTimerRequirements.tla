---------------------- MODULE RoomTimerRequirements ----------------------
(***************************************************************************)
(* What RoomTimer must guarantee.                                          *)
(***************************************************************************)
EXTENDS RoomTimer, FiniteSets

VARIABLE skewed   \* of the edits since the Room's columns were read, two
                  \* overlapped, or one overlapped the building of the Room

allVars == <<vars, skewed>>

EditsInProgress == {e \in EditCalls : edits[e].step \in {"write", "written"}}

HistoryStep ==
    skewed' = \/ skewed /\ ~(columns = None /\ columns' # None)
              \/ Cardinality(EditsInProgress') > 1
              \/ EditsInProgress' # {} /\ columns' # None

InitH == Init /\ skewed = FALSE
NextH == Next /\ HistoryStep
SpecH == InitH /\ [][NextH]_allVars
FairSpecH == SpecH /\ Fairness

----------------------------------------------------------------------------
EditRecords ==
    [step : {"idle", "write", "written", "done"}, room : 0..MaxRooms,
     edit : Edits \cup {None}]
Broadcasts ==
    [protocol : {None, "start-timer", "start-short-break", "start-long-break",
                 "edit-and-stop-timer"},
     times : Nat]

(* Every variable keeps its type.                                          *)
TypeOK ==
    /\ property \in Properties
    /\ state \in Phases \cup {"stopped"}
    /\ dated \in BOOLEAN
    /\ timeout \in Phases \cup {None}
    /\ pending \in [Phases -> Nat]
    /\ shortBreakCount \in 0..MaxShortBreaks
    /\ table \in Properties
    /\ present \in BOOLEAN /\ room \in 0..MaxRooms /\ observers \in 0..MaxObservers
    /\ columns \in Properties \cup {None}
    /\ edits \in [EditCalls -> EditRecords]
    /\ sent \in Broadcasts

(* PomodoroTimer.ts start, _clearTimeout: a timer that runs has exactly    *)
(* the one timeout that ends its phase, and one that is stopped, or whose  *)
(* Room has been dropped, leaves none behind in the event loop.            *)
OneTimeout ==
    /\ \A f \in Phases : pending[f] = IF timeout = f THEN 1 ELSE 0
    /\ state = IF timeout = None THEN "stopped" ELSE timeout
    /\ dated <=> timeout # None
    /\ ~present => timeout = None

(* PomodoroTimer.ts editAndStop: the count of short breaks stays below the *)
(* interval, which edits may lower, so that the comparison for equality in *)
(* _startFocusTimer comes out true in every cycle.                         *)
BreaksCounted ==
    property.interval >= 1 => shortBreakCount < property.interval

(* The timer goes through the cycle that PomodoroCycle describes.          *)
Position ==
    LET n == property.interval IN
    CASE state = "stopped" -> -1
      [] state = "started" -> IF n < 1 THEN 0 ELSE 2 * shortBreakCount
      [] state = "shortBreak" -> IF n < 1 THEN 1 ELSE 2 * shortBreakCount - 1
      [] state = "longBreak" -> 2 * n - 1

Cycle == INSTANCE PomodoroCycle
            WITH interval <- property.interval, position <- Position, phase <- state

(* Whatever starts, edits and removals interleave with the timeouts, the   *)
(* phases of the room are those of the cycle: a restart begins at its      *)
(* first focus phase, and every interval-th break is the long one.         *)
FollowsCycle == Cycle!Spec

(* RoomService.startTimer: the room's peers are told of every phase that   *)
(* begins, by the observer that was added after the first start, and once  *)
(* as long as there is one observer only.                                  *)
PhaseAnnounced ==
    [][state' # state /\ state' # "stopped" =>
          /\ sent'.protocol = ProtocolOf(state')
          /\ sent'.times >= 1
          /\ observers' = 1 => sent'.times = 1]_allVars

(* Room.editAndStopTimer against createAndJoin: with no edit under way,    *)
(* the timer of a running Room has the properties in the table, provided   *)
(* no two edits, and no edit and the building of the Room, overlapped.     *)
TimerFollowsTable ==
    present /\ ~skewed /\ EditsInProgress = {} => property = table

(* README.md of the repository: focus and break go on in turn.  A timer    *)
(* that runs comes to its next phase, unless it is stopped.                *)
KeepsRunning ==
    \A f \in Phases :
        state = f /\ property.interval >= 1 ~> state # f \/ property.interval < 1
==========================================================================
