------------------------- MODULE CountdownContract -------------------------
(***************************************************************************)
(* What countdown.h promises of Countdown objects: `ended` is fired once   *)
(* for an end that was set, not before that end, never after cancel, after *)
(* a new end was set or after the object is gone.                          *)
(***************************************************************************)
EXTENDS Integers

CONSTANTS
  Countdown,    \* the Countdown objects of the process
  MaxDelay,     \* bound: longest delay the program asks for
  ClockPeriod,  \* 2^32 ms: getCurrentTime() keeps the low 32 bits only
  Horizon       \* bound: how far the real clock runs

NoTime == -1

VARIABLES
  clock,     \* real milliseconds
  alive,     \* Countdown objects that exist
  deadline,  \* the end set last, NoTime when the countdown does not run
  ending     \* the countdown whose `ended` signal is being called, if any

vars == <<clock, alive, deadline, ending>>

\* clock.cpp: UInt32(seconds * 1000 + ...), over a horizon of at most two periods.
GetCurrentTime == IF clock < ClockPeriod THEN clock ELSE clock - ClockPeriod

Init ==
  /\ clock = 0
  /\ alive = Countdown
  /\ deadline = [c \in Countdown |-> NoTime]
  /\ ending = {}

Tick ==
  /\ clock < Horizon
  /\ clock' = clock + 1
  /\ UNCHANGED <<alive, deadline, ending>>

SetEnd(c, delay) ==
  /\ c \in alive
  /\ deadline' = [deadline EXCEPT ![c] = GetCurrentTime + delay]
  /\ UNCHANGED <<clock, alive, ending>>

Cancel(c) ==
  /\ c \in alive
  /\ deadline' = [deadline EXCEPT ![c] = NoTime]
  /\ UNCHANGED <<clock, alive, ending>>

Destroy(c) ==
  /\ c \in alive
  /\ alive' = alive \ {c}
  /\ deadline' = [deadline EXCEPT ![c] = NoTime]
  /\ UNCHANGED <<clock, ending>>

Ended(c) ==
  /\ c \in alive
  /\ deadline[c] # NoTime
  /\ deadline[c] <= GetCurrentTime
  /\ ending = {}
  /\ deadline' = [deadline EXCEPT ![c] = NoTime]
  /\ ending' = {c}
  /\ UNCHANGED <<clock, alive>>

EndedReturns ==
  /\ ending # {}
  /\ ending' = {}
  /\ UNCHANGED <<clock, alive, deadline>>

Next ==
  \/ Tick
  \/ EndedReturns
  \/ \E c \in Countdown :
       \/ \E delay \in 0 .. MaxDelay : SetEnd(c, delay)
       \/ Cancel(c)
       \/ Destroy(c)
       \/ Ended(c)

Spec == Init /\ [][Next]_vars
=============================================================================
