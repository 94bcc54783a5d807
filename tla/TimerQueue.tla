----------------------------- MODULE TimerQueue -----------------------------
(***************************************************************************)
(* TimerQueue and Countdown of src/shared/common, with the asio timer that *)
(* drives them and a program that sets, cancels and destroys countdowns,   *)
(* from handlers of its own and from inside the `ended` signal.            *)
(*                                                                         *)
(* One thread: while TimerQueue::update runs no other handler does, but    *)
(* time goes on.  A countdown's pending entries stay in the queue when it  *)
(* is cancelled, set again or destroyed; m_delayCount tells them apart.    *)
(***************************************************************************)
EXTENDS Integers, FiniteSets

CONSTANTS
  Countdown,    \* the Countdown objects of the process
  MaxDelay,     \* bound: longest delay the program asks for
  ClockPeriod,  \* 2^32 ms: getCurrentTime() keeps the low 32 bits only
  Horizon,      \* bound: how far the real clock runs
  CountLimit    \* bound: how often one countdown is set or cancelled

ASSUME TimeAssumption ==
  /\ MaxDelay \in Nat
  /\ ClockPeriod \in Nat \ {0}
  /\ Horizon \in Nat
  /\ Horizon < 2 * ClockPeriod
ASSUME CountAssumption == CountLimit \in Nat

NoTime == -1
Time == 0 .. (ClockPeriod + MaxDelay)

VARIABLES
  clock,       \* real milliseconds
  \* Countdown
  alive, running, delayCount, end,
  \* TimerQueue
  queue,       \* m_queue; an entry is named by its countdown and number
  timerTime,   \* m_timerTime
  phase,       \* where TimerQueue::update is
  ending,      \* the countdown whose `ended` signal is being called, if any
  loopNow,     \* the `now` update read before its loop
  \* boost::asio::deadline_timer
  wait,        \* clock value at which the pending wait expires
  posted       \* waits that expired and whose handler has not run

countdowns == <<alive, running, delayCount, end>>
timer == <<timerTime, wait>>
vars == <<clock, alive, running, delayCount, end, queue, timerTime, phase,
          ending, loopNow, wait, posted>>

Entry == [countdown : Countdown, number : 1 .. CountLimit, time : Time]

Init ==
  /\ clock = 0
  /\ alive = [c \in Countdown |-> TRUE]
  /\ running = [c \in Countdown |-> FALSE]
  /\ delayCount = [c \in Countdown |-> 0]
  /\ end = [c \in Countdown |-> 0]
  /\ queue = {}
  /\ timerTime = NoTime
  /\ phase = "idle"
  /\ ending = {}
  /\ loopNow = 0
  /\ wait = NoTime
  /\ posted = 0

-----------------------------------------------------------------------------
(* Clock and asio timer. *)

GetCurrentTime == IF clock < ClockPeriod THEN clock ELSE clock - ClockPeriod

Tick ==
  /\ clock < Horizon
  /\ clock' = clock + 1
  /\ UNCHANGED <<countdowns, queue, timer, phase, ending, loopNow, posted>>

\* Later than this point cancel() no longer aborts the handler.
Expire ==
  /\ wait # NoTime
  /\ wait <= clock
  /\ wait' = NoTime
  /\ posted' = posted + 1
  /\ UNCHANGED <<clock, countdowns, queue, timerTime, phase, ending, loopNow>>

\* GameTime is unsigned: without std::max a past event would wait very long.
DelayUnderflows(next) == IF next >= GetCurrentTime THEN next - GetCurrentTime ELSE 4 * ClockPeriod
DelayUntil(next) == IF next >= GetCurrentTime THEN next - GetCurrentTime ELSE 0

KeepsAnyTimer(next) == timerTime # NoTime
KeepsTimer(next) == timerTime # NoTime /\ timerTime <= next

Earliest(q) == {e \in q : \A f \in q : e.time <= f.time}

\* setTimer on queue q: leaves an earlier timer alone, else arms a new one.
SetTimer(q) ==
  \E e \in Earliest(q) :
    IF KeepsTimer(e.time)
    THEN UNCHANGED timer
    ELSE /\ timerTime' = e.time
         /\ wait' = clock + DelayUntil(e.time)

-----------------------------------------------------------------------------
(* The program, in a handler of its own or inside `ended`. *)

ProgramRuns == phase \in {"idle", "callback"}

SameNumber(n) == n
NextNumber(n) == n + 1

SetEnd(c, delay) ==
  /\ ProgramRuns
  /\ alive[c]
  /\ delayCount[c] < CountLimit
  /\ clock + delay <= Horizon
  /\ delayCount' = [delayCount EXCEPT ![c] = @ + 1]
  /\ end' = [end EXCEPT ![c] = GetCurrentTime + delay]
  /\ running' = [running EXCEPT ![c] = TRUE]
  /\ queue' = queue \union {[countdown |-> c, number |-> delayCount[c] + 1, time |-> GetCurrentTime + delay]}
  /\ SetTimer(queue')
  /\ UNCHANGED <<clock, alive, phase, ending, loopNow, posted>>

Cancel(c) ==
  /\ ProgramRuns
  /\ alive[c]
  /\ delayCount[c] < CountLimit
  /\ delayCount' = [delayCount EXCEPT ![c] = NextNumber(@)]
  /\ end' = [end EXCEPT ![c] = GetCurrentTime]
  /\ running' = [running EXCEPT ![c] = FALSE]
  /\ UNCHANGED <<clock, alive, queue, timer, phase, ending, loopNow, posted>>

Destroy(c) ==
  /\ ProgramRuns
  /\ alive[c]
  /\ alive' = [alive EXCEPT ![c] = FALSE]
  /\ running' = [running EXCEPT ![c] = FALSE]
  /\ UNCHANGED <<clock, delayCount, end, queue, timer, phase, ending, loopNow, posted>>

-----------------------------------------------------------------------------
(* TimerQueue::update. *)

Update ==
  /\ phase = "idle"
  /\ posted > 0
  /\ posted' = posted - 1
  /\ timerTime' = NoTime
  /\ loopNow' = GetCurrentTime
  /\ phase' = "loop"
  /\ UNCHANGED <<clock, countdowns, queue, ending, wait>>

\* Countdown::Impl::onPossibleEnd.
IsAnyEndOf(e, c) == alive[c]
IsEndOf(e, c) == alive[c] /\ delayCount[c] = e.number

RunEvent(e) ==
  /\ phase = "loop"
  /\ e \in Earliest(queue)
  /\ e.time <= loopNow
  /\ queue' = queue \ {e}
  /\ IF IsEndOf(e, e.countdown)
     THEN /\ running' = [running EXCEPT ![e.countdown] = FALSE]
          /\ phase' = "callback"
         /\ ending' = {e.countdown}
     ELSE UNCHANGED <<running, phase, ending>>
  /\ UNCHANGED <<clock, alive, delayCount, end, timer, loopNow, posted>>

CallbackReturns ==
  /\ phase = "callback"
  /\ phase' = "loop"
  /\ ending' = {}
  /\ UNCHANGED <<clock, countdowns, queue, timer, loopNow, posted>>

NeverRearm(q) == UNCHANGED timer
Rearm(q) == IF q = {} THEN UNCHANGED timer ELSE SetTimer(q)

UpdateReturns ==
  /\ phase = "loop"
  /\ \A e \in queue : e.time > loopNow
  /\ Rearm(queue)
  /\ phase' = "idle"
  /\ loopNow' = 0
  /\ UNCHANGED <<clock, countdowns, queue, ending, posted>>

Program ==
  \E c \in Countdown :
    \/ \E delay \in 0 .. MaxDelay : SetEnd(c, delay)
    \/ Cancel(c)
    \/ Destroy(c)

EventLoop ==
  \/ Expire
  \/ Update
  \/ \E e \in queue : RunEvent(e)
  \/ CallbackReturns
  \/ UpdateReturns

Next == Tick \/ Program \/ EventLoop

Spec == Init /\ [][Next]_vars

(* io_service::run goes on as long as there is work, an `ended` handler
   returns, and time passes. *)
FairSpec == Spec /\ WF_vars(Tick) /\ WF_vars(EventLoop)

-----------------------------------------------------------------------------
(* Properties. *)

TypeOK ==
  /\ clock \in 0 .. Horizon
  /\ alive \in [Countdown -> BOOLEAN]
  /\ running \in [Countdown -> BOOLEAN]
  /\ delayCount \in [Countdown -> 0 .. CountLimit]
  /\ end \in [Countdown -> Time]
  /\ queue \subseteq Entry
  /\ timerTime \in Time \union {NoTime}
  /\ phase \in {"idle", "loop", "callback"}
  /\ ending \subseteq Countdown
  /\ phase = "callback" <=> ending # {}
  /\ loopNow \in 0 .. ClockPeriod
  /\ wait \in 0 .. (Horizon + ClockPeriod + MaxDelay) \union {NoTime}
  /\ posted \in Nat

(* A running countdown has exactly one entry that will be taken for its end,
   at the time that was set last; one that was cancelled or has ended has
   none, whatever is left in the queue (Countdown::Impl, m_delayCount). *)
OneLiveEntry ==
  \A c \in Countdown :
    alive[c] => {e \in queue : e.countdown = c /\ IsEndOf(e, c)}
                  = IF running[c]
                    THEN {[countdown |-> c, number |-> delayCount[c], time |-> end[c]]}
                    ELSE {}

(* Between handlers nothing that is queued is forgotten: update is about to
   run, or the asio timer is set no later than the first event
   (TimerQueue::setTimer and the early return of its loop). *)
TimerCoversQueue ==
  phase = "idle" /\ posted = 0 /\ queue # {}
    => /\ wait # NoTime
       /\ \A e \in queue : wait <= e.time \/ wait <= clock

Deadline == [c \in Countdown |-> IF alive[c] /\ running[c] THEN end[c] ELSE NoTime]

Contract == INSTANCE CountdownContract
              WITH alive <- {c \in Countdown : alive[c]}, deadline <- Deadline

(* Every step of the two classes is a step countdown.h allows: `ended` once,
   never early, never for an end that was replaced or cancelled. *)
KeepsContract == Contract!Spec

(* "This signal is fired when the countdown ended": an end that was set is
   reached, unless the countdown is set again, cancelled or destroyed. *)
EveryEndComes ==
  \A c \in Countdown : \A t \in Time :
    (running[c] /\ end[c] = t) ~> (~running[c] \/ end[c] # t)
=============================================================================
