-------------------------- MODULE PomodoroCycle --------------------------
(***************************************************************************)
(* What a room's pomodoro timer promises: while it runs, focus and break   *)
(* alternate for ever (README.md of the repository), and of every          *)
(* `interval' breaks in a row the last is a long one.  A run is described  *)
(* by its position in a cycle of `interval' focus phases and breaks; an    *)
(* interval below 1 never comes to a long break.                           *)
(***************************************************************************)
EXTENDS Integers

CONSTANT Intervals

VARIABLES interval, position, phase

cycleVars == <<interval, position, phase>>

Stopped == -1
Period(n) == IF n < 1 THEN 2 ELSE 2 * n
PhaseAt(n, k) ==
    CASE k = Stopped -> "stopped"
      [] k >= 0 /\ k % 2 = 0 -> "started"
      [] k >= 0 /\ k % 2 = 1 -> IF k = 2 * n - 1 THEN "longBreak" ELSE "shortBreak"

MovesTo(n, k) == interval' = n /\ position' = k /\ phase' = PhaseAt(n, k)

Init == interval \in Intervals /\ position = Stopped /\ phase = "stopped"

Start == position = Stopped /\ MovesTo(interval, 0)

Advance ==
    /\ position # Stopped
    /\ MovesTo(interval, IF position + 1 = Period(interval) THEN 0 ELSE position + 1)

(* A stopped timer may be given another interval.                          *)
Stop == \E n \in Intervals : MovesTo(n, Stopped)

Next == Start \/ Advance \/ Stop

Spec == Init /\ [][Next]_cycleVars
==========================================================================
