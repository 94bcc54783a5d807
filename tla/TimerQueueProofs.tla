-------------------------- MODULE TimerQueueProofs --------------------------
(***************************************************************************)
(* Proofs about TimerQueue: types, the live entry of every countdown, the  *)
(* asio timer that covers the queue, and that the two classes keep the     *)
(* contract of countdown.h as long as the 32-bit clock does not wrap.      *)
(***************************************************************************)
EXTENDS TimerQueue, TLAPS

-----------------------------------------------------------------------------
(* Types. *)

(* Nothing is queued at first. *)
LEMMA InitType == Init => TypeOK
  BY TimeAssumption, CountAssumption DEF Init, TypeOK, Time, NoTime

\* SetTimer leaves m_timerTime and the wait of asio well typed.
LEMMA SetTimerType ==
  ASSUME TypeOK, NEW q \in SUBSET Entry, SetTimer(q)
  PROVE  /\ timerTime' \in Time \union {NoTime}
         /\ wait' \in 0 .. (Horizon + ClockPeriod + MaxDelay) \union {NoTime}
<1>1. PICK e \in Earliest(q) : IF KeepsTimer(e.time)
                               THEN UNCHANGED timer
                               ELSE /\ timerTime' = e.time
                                    /\ wait' = clock + DelayUntil(e.time)
  BY DEF SetTimer
<1>2. e.time \in Time
  BY DEF Earliest, Entry
<1>3. CASE KeepsTimer(e.time)
  BY <1>1, <1>3 DEF timer, TypeOK
<1>4. CASE ~KeepsTimer(e.time)
  BY <1>1, <1>2, <1>4, TimeAssumption DEF DelayUntil, GetCurrentTime, TypeOK, Time
<1> QED BY <1>3, <1>4

(* setEnd queues one event and may arm the timer. *)
LEMMA SetEndType ==
  ASSUME TypeOK, NEW c \in Countdown, NEW delay \in 0 .. MaxDelay, SetEnd(c, delay)
  PROVE  TypeOK'
<1> DEFINE added == [countdown |-> c, number |-> delayCount[c] + 1, time |-> GetCurrentTime + delay]
<1>1. GetCurrentTime + delay \in Time
  BY TimeAssumption DEF TypeOK, GetCurrentTime, Time
<1>2. delayCount[c] + 1 \in 1 .. CountLimit
  BY CountAssumption DEF TypeOK, SetEnd
<1>3. added \in Entry
  BY <1>1, <1>2 DEF Entry
<1>4. queue' \in SUBSET Entry
  BY <1>3 DEF SetEnd, TypeOK
<1>5. /\ timerTime' \in Time \union {NoTime}
      /\ wait' \in 0 .. (Horizon + ClockPeriod + MaxDelay) \union {NoTime}
  BY <1>4, SetTimerType DEF SetEnd
<1> QED
  BY <1>1, <1>2, <1>4, <1>5, CountAssumption DEF SetEnd, TypeOK

(* update ends by arming the timer for the first event left. *)
LEMMA UpdateReturnsType ==
  ASSUME TypeOK, UpdateReturns
  PROVE  TypeOK'
<1>1. /\ timerTime' \in Time \union {NoTime}
      /\ wait' \in 0 .. (Horizon + ClockPeriod + MaxDelay) \union {NoTime}
  <2>1. CASE queue = {}
    BY <2>1 DEF UpdateReturns, Rearm, TypeOK, timer
  <2>2. CASE queue # {}
    BY <2>2, SetTimerType DEF UpdateReturns, Rearm, TypeOK
  <2> QED BY <2>1, <2>2
<1> QED
  BY <1>1, TimeAssumption DEF UpdateReturns, TypeOK, countdowns

(* Every step keeps the types. *)
LEMMA NextType == TypeOK /\ [Next]_vars => TypeOK'
<1> SUFFICES ASSUME TypeOK, [Next]_vars PROVE TypeOK'
  OBVIOUS
<1> USE TimeAssumption, CountAssumption
<1>1. CASE Tick
  BY <1>1 DEF Tick, TypeOK, countdowns, timer
<1>2. ASSUME NEW c \in Countdown, NEW delay \in 0 .. MaxDelay, SetEnd(c, delay)
      PROVE  TypeOK'
  BY <1>2, SetEndType
<1>3. ASSUME NEW c \in Countdown, Cancel(c)
      PROVE  TypeOK'
  BY <1>3 DEF Cancel, TypeOK, timer, NextNumber, GetCurrentTime, Time
<1>4. ASSUME NEW c \in Countdown, Destroy(c)
      PROVE  TypeOK'
  BY <1>4 DEF Destroy, TypeOK, timer
<1>5. CASE Expire
  BY <1>5 DEF Expire, TypeOK, countdowns
<1>6. CASE Update
  BY <1>6 DEF Update, TypeOK, countdowns, GetCurrentTime
<1>7. ASSUME NEW e \in queue, RunEvent(e)
      PROVE  TypeOK'
  <2>1. CASE IsEndOf(e, e.countdown)
    <3>1. e.countdown \in Countdown
      BY DEF TypeOK, Entry
    <3>2. ending' = {e.countdown} /\ phase' = "callback"
      BY <1>7, <2>1 DEF RunEvent
    <3>3. running' \in [Countdown -> BOOLEAN]
      BY <1>7, <2>1, <3>1 DEF RunEvent, TypeOK
    <3> QED BY <1>7, <3>1, <3>2, <3>3 DEF RunEvent, TypeOK, timer
  <2>2. CASE ~IsEndOf(e, e.countdown)
    BY <1>7, <2>2 DEF RunEvent, TypeOK, timer
  <2> QED BY <2>1, <2>2
<1>8. CASE CallbackReturns
  BY <1>8 DEF CallbackReturns, TypeOK, timer, countdowns
<1>9. CASE UpdateReturns
  BY <1>9, UpdateReturnsType
<1>10. CASE UNCHANGED vars
  BY <1>10 DEF vars, TypeOK
<1> QED
  BY <1>1, <1>2, <1>3, <1>4, <1>5, <1>6, <1>7, <1>8, <1>9, <1>10 DEF Next, Program, EventLoop

(* Every variable of the two classes and of the asio timer keeps its type;
   the delays computed from unsigned times never underflow. *)
THEOREM TypeCorrect == Spec => []TypeOK
  BY InitType, NextType, PTL DEF Spec

-----------------------------------------------------------------------------
(* The live entry of a countdown. *)

EntryFor(c) == [countdown |-> c, number |-> delayCount[c], time |-> end[c]]

LiveEntries ==
  /\ \A c \in Countdown : alive[c] /\ running[c] => EntryFor(c) \in queue
  /\ \A e \in queue : e.number <= delayCount[e.countdown]
  /\ \A e \in queue : IsEndOf(e, e.countdown)
                        => running[e.countdown] /\ e.time = end[e.countdown]

(* No countdown runs at first. *)
LEMMA InitLive == Init => LiveEntries
  BY DEF Init, LiveEntries

(* A new end makes older events of the countdown void and queues its own. *)
LEMMA SetEndLive ==
  ASSUME TypeOK, LiveEntries, NEW c \in Countdown, NEW delay \in 0 .. MaxDelay, SetEnd(c, delay)
  PROVE  LiveEntries'
<1> DEFINE added == [countdown |-> c, number |-> delayCount[c] + 1, time |-> GetCurrentTime + delay]
<1>1. /\ queue' = queue \union {added}
      /\ delayCount' = [delayCount EXCEPT ![c] = @ + 1]
      /\ end' = [end EXCEPT ![c] = GetCurrentTime + delay]
      /\ running' = [running EXCEPT ![c] = TRUE]
      /\ alive' = alive
  BY DEF SetEnd
<1>2. ASSUME NEW k \in Countdown, alive'[k], running'[k]
      PROVE  EntryFor(k)' \in queue'
  <2>1. CASE k = c
    BY <1>1, <2>1 DEF EntryFor, TypeOK
  <2>2. CASE k # c
    BY <1>1, <1>2, <2>2 DEF EntryFor, TypeOK, LiveEntries
  <2> QED BY <2>1, <2>2
<1>3. ASSUME NEW e \in queue'
      PROVE  /\ e.number <= delayCount'[e.countdown]
             /\ IsEndOf(e, e.countdown)'
                  => running'[e.countdown] /\ e.time = end'[e.countdown]
  <2>1. CASE e = added
    BY <1>1, <2>1 DEF TypeOK
  <2>2. CASE e \in queue /\ e.countdown = c
    BY <1>1, <2>2 DEF TypeOK, Entry, LiveEntries, IsEndOf
  <2>3. CASE e \in queue /\ e.countdown # c
    BY <1>1, <2>3 DEF TypeOK, Entry, LiveEntries, IsEndOf
  <2> QED BY <1>1, <1>3, <2>1, <2>2, <2>3
<1> QED
  BY <1>2, <1>3 DEF LiveEntries

(* The event that ends a countdown leaves the queue as the countdown stops. *)
LEMMA RunEventLive ==
  ASSUME TypeOK, LiveEntries, NEW e \in queue, RunEvent(e)
  PROVE  LiveEntries'
<1>1. /\ queue' = queue \ {e}
      /\ UNCHANGED <<alive, delayCount, end>>
      /\ running' = IF IsEndOf(e, e.countdown)
                    THEN [running EXCEPT ![e.countdown] = FALSE] ELSE running
  BY DEF RunEvent
<1>2. ASSUME NEW k \in Countdown, alive'[k], running'[k]
      PROVE  EntryFor(k)' \in queue'
  <2>1. running[k] /\ EntryFor(k) \in queue
    BY <1>1, <1>2 DEF TypeOK, LiveEntries, Entry
  <2>2. EntryFor(k) # e
    BY <1>1, <1>2 DEF EntryFor, TypeOK, IsEndOf, Entry
  <2> QED BY <1>1, <2>1, <2>2 DEF EntryFor
<1>3. ASSUME NEW f \in queue'
      PROVE  /\ f.number <= delayCount'[f.countdown]
             /\ IsEndOf(f, f.countdown)'
                  => running'[f.countdown] /\ f.time = end'[f.countdown]
  <2>1. f \in queue /\ f # e
    BY <1>1, <1>3
  <2>2. f.number <= delayCount[f.countdown]
    BY <2>1 DEF LiveEntries
  <2>3. ASSUME IsEndOf(f, f.countdown)
        PROVE  running[f.countdown] /\ f.time = end[f.countdown]
    BY <2>1, <2>3 DEF LiveEntries
  <2>4. ASSUME IsEndOf(f, f.countdown), IsEndOf(e, e.countdown)
        PROVE  f.countdown # e.countdown
    <3> SUFFICES ASSUME f.countdown = e.countdown PROVE FALSE
      OBVIOUS
    <3>1. f.number = e.number
      BY <2>4 DEF IsEndOf
    <3>2. f.time = e.time
      BY <2>1, <2>4 DEF LiveEntries
    <3>3. f \in Entry /\ e \in Entry
      BY <2>1 DEF TypeOK
    <3> QED BY <2>1, <3>1, <3>2, <3>3 DEF Entry
  <2> QED BY <1>1, <2>1, <2>2, <2>3, <2>4 DEF IsEndOf, TypeOK, Entry
<1> QED
  BY <1>2, <1>3 DEF LiveEntries

(* Every step keeps exactly one live event per running countdown. *)
LEMMA NextLive == TypeOK /\ LiveEntries /\ [Next]_vars => LiveEntries'
<1> SUFFICES ASSUME TypeOK, LiveEntries, [Next]_vars PROVE LiveEntries'
  OBVIOUS
<1>1. ASSUME NEW c \in Countdown, NEW delay \in 0 .. MaxDelay, SetEnd(c, delay)
      PROVE  LiveEntries'
  BY <1>1, SetEndLive
<1>2. ASSUME NEW c \in Countdown, Cancel(c)
      PROVE  LiveEntries'
  BY <1>2 DEF Cancel, TypeOK, LiveEntries, EntryFor, IsEndOf, NextNumber, Entry
<1>3. ASSUME NEW c \in Countdown, Destroy(c)
      PROVE  LiveEntries'
  BY <1>3 DEF Destroy, TypeOK, LiveEntries, EntryFor, IsEndOf, Entry
<1>4. ASSUME NEW e \in queue, RunEvent(e)
      PROVE  LiveEntries'
  BY <1>4, RunEventLive
<1>5. ASSUME UNCHANGED <<countdowns, queue>>
      PROVE  LiveEntries'
  BY <1>5 DEF countdowns, LiveEntries, EntryFor, IsEndOf
<1>6. Tick \/ Expire \/ Update \/ CallbackReturns \/ UpdateReturns \/ UNCHANGED vars
        => UNCHANGED <<countdowns, queue>>
  BY DEF Tick, Expire, Update, CallbackReturns, UpdateReturns, vars, countdowns
<1> QED
  BY <1>1, <1>2, <1>3, <1>4, <1>5, <1>6 DEF Next, Program, EventLoop

(* LiveEntries, said per countdown, is OneLiveEntry. *)
LEMMA LiveIsOne == TypeOK /\ LiveEntries => OneLiveEntry
<1> SUFFICES ASSUME TypeOK, LiveEntries, NEW c \in Countdown, alive[c]
             PROVE  {e \in queue : e.countdown = c /\ IsEndOf(e, c)}
                      = IF running[c] THEN {EntryFor(c)} ELSE {}
  BY DEF OneLiveEntry, EntryFor
<1>1. ASSUME NEW e \in queue, e.countdown = c, IsEndOf(e, c)
      PROVE  running[c] /\ e = EntryFor(c)
  BY <1>1 DEF LiveEntries, IsEndOf, EntryFor, TypeOK, Entry
<1>2. running[c] => EntryFor(c) \in queue /\ EntryFor(c).countdown = c /\ IsEndOf(EntryFor(c), c)
  BY DEF LiveEntries, IsEndOf, EntryFor
<1> QED BY <1>1, <1>2

(* For any number of countdowns, events and wraps of the clock, exactly one
   queued event can end a running countdown and none a stopped one. *)
THEOREM LiveEntry == Spec => []OneLiveEntry
<1>1. Spec => [](TypeOK /\ LiveEntries)
  BY InitType, NextType, InitLive, NextLive, PTL DEF Spec
<1> QED BY <1>1, LiveIsOne, PTL

-----------------------------------------------------------------------------
(* As long as the 32-bit clock does not wrap. *)

NoWrap == Horizon < ClockPeriod

Waiting == wait # NoTime /\ (wait <= timerTime \/ wait <= clock)

Covered ==
  /\ phase # "idle" => loopNow <= clock
  /\ timerTime # NoTime => posted > 0 \/ Waiting
  /\ phase = "idle" /\ queue # {}
       => \/ posted > 0
          \/ timerTime # NoTime /\ \A e \in queue : timerTime <= e.time

(* Without a wrap getCurrentTime is the time. *)
LEMMA NoWrapNow == NoWrap /\ TypeOK => GetCurrentTime = clock
  BY TimeAssumption DEF NoWrap, TypeOK, GetCurrentTime

(* setTimer arms the timer for a delay that covers the event. *)
LEMMA SetTimerCovers ==
  ASSUME NoWrap, TypeOK, Covered, NEW q \in SUBSET Entry, SetTimer(q),
         posted' = posted, clock' = clock
  PROVE  /\ timerTime' # NoTime => posted' > 0 \/ Waiting'
         /\ timerTime' # NoTime
         /\ \A e \in q : timerTime' <= e.time
<1>1. PICK e \in Earliest(q) : IF KeepsTimer(e.time)
                               THEN UNCHANGED timer
                               ELSE /\ timerTime' = e.time
                                    /\ wait' = clock + DelayUntil(e.time)
  BY DEF SetTimer
<1>2. e.time \in Time /\ \A f \in q : f.time \in Time /\ e.time <= f.time
  BY DEF Earliest, Entry
<1>3. CASE KeepsTimer(e.time)
  BY <1>1, <1>2, <1>3 DEF timer, TypeOK, Covered, Waiting, KeepsTimer, Time, NoTime
<1>4. CASE ~KeepsTimer(e.time)
  BY <1>1, <1>2, <1>4, NoWrapNow, TimeAssumption
     DEF DelayUntil, TypeOK, Time, Waiting, NoTime
<1> QED BY <1>3, <1>4

(* Nothing needs covering at first. *)
LEMMA InitCovered == Init => Covered
  BY DEF Init, Covered

(* Every step leaves the queue covered. *)
LEMMA NextCovered == NoWrap /\ TypeOK /\ Covered /\ [Next]_vars => Covered'
<1> SUFFICES ASSUME NoWrap, TypeOK, Covered, [Next]_vars PROVE Covered'
  OBVIOUS
<1>t. TypeOK'
  BY NextType
<1>1. CASE Tick
  BY <1>1 DEF Tick, TypeOK, Covered, Waiting, timer, NoTime, Time
<1>2. ASSUME NEW c \in Countdown, NEW delay \in 0 .. MaxDelay, SetEnd(c, delay)
      PROVE  Covered'
  <2>1. queue' \in SUBSET Entry
    BY <1>t DEF TypeOK
  <2>2. SetTimer(queue') /\ UNCHANGED <<clock, phase, loopNow, posted>>
    BY <1>2 DEF SetEnd
  <2>3. /\ timerTime' # NoTime => posted' > 0 \/ Waiting'
        /\ timerTime' # NoTime
        /\ \A e \in queue' : timerTime' <= e.time
    BY <2>1, <2>2, SetTimerCovers
  <2> QED BY <2>2, <2>3 DEF Covered
<1>3. ASSUME NEW c \in Countdown, Cancel(c) \/ Destroy(c)
      PROVE  Covered'
  BY <1>3 DEF Cancel, Destroy, Covered, Waiting, timer
<1>4. CASE Expire
  BY <1>4 DEF Expire, Covered, TypeOK
<1>5. CASE Update
  BY <1>5, NoWrapNow DEF Update, Covered, TypeOK
<1>6. ASSUME NEW e \in queue, RunEvent(e)
      PROVE  Covered'
  BY <1>6 DEF RunEvent, Covered, Waiting, timer
<1>7. CASE CallbackReturns
  BY <1>7 DEF CallbackReturns, Covered, Waiting, timer
<1>8. CASE UpdateReturns
  <2>1. CASE queue = {}
    BY <1>8, <2>1 DEF UpdateReturns, Rearm, Covered, Waiting, timer
  <2>2. CASE queue # {}
    <3>1. SetTimer(queue) /\ UNCHANGED <<clock, queue, posted>> /\ phase' = "idle"
      BY <1>8, <2>2 DEF UpdateReturns, Rearm
    <3>2. queue \in SUBSET Entry
      BY DEF TypeOK
    <3> QED BY <3>1, <3>2, SetTimerCovers DEF Covered
  <2> QED BY <2>1, <2>2
<1>9. CASE UNCHANGED vars
  BY <1>9 DEF vars, Covered, Waiting
<1> QED
  BY <1>1, <1>2, <1>3, <1>4, <1>5, <1>6, <1>7, <1>8, <1>9 DEF Next, Program, EventLoop

(* Between handlers an event in the queue is never without an asio wait that
   ends in time or a posted update: TimerQueue forgets no event. *)
THEOREM TimerCovers == NoWrap => (Spec => []TimerCoversQueue)
<1> SUFFICES ASSUME NoWrap PROVE Spec => []TimerCoversQueue
  OBVIOUS
<1>1. TypeOK /\ Covered => TimerCoversQueue
  BY DEF TypeOK, Covered, Waiting, TimerCoversQueue, Time, NoTime, Entry
<1>2. TypeOK /\ Covered /\ [Next]_vars => Covered'
  BY NextCovered
<1>3. Spec => [](TypeOK /\ Covered)
  BY <1>2, InitType, NextType, InitCovered, PTL DEF Spec
<1> QED BY <1>1, <1>3, PTL

-----------------------------------------------------------------------------
(* The contract. *)

KInv == TypeOK /\ LiveEntries /\ Covered

(* Contract and code read the same clock. *)
LEMMA SameClock == Contract!GetCurrentTime = GetCurrentTime
  BY DEF Contract!GetCurrentTime, GetCurrentTime

(* The initial states are initial states of the contract. *)
LEMMA InitContract == Init => Contract!Init
  BY DEF Init, Contract!Init, Deadline, NoTime, Contract!NoTime

\* RunEvent is the contract's Ended, or invisible for an event that was replaced.
LEMMA RunEventContract ==
  ASSUME NoWrap, KInv, NEW e \in queue, RunEvent(e)
  PROVE  Contract!Next \/ UNCHANGED Contract!vars
<1> DEFINE c == e.countdown
<1>1. c \in Countdown /\ e \in Entry
  BY DEF KInv, TypeOK, Entry
<1>2. UNCHANGED <<clock, alive, delayCount, end>>
  BY DEF RunEvent
<1>3. CASE ~IsEndOf(e, c)
  BY <1>2, <1>3 DEF RunEvent, Contract!vars, Deadline
<1>4. CASE IsEndOf(e, c)
  <2>1. running[c] /\ e.time = end[c] /\ alive[c]
    BY <1>1, <1>4 DEF KInv, LiveEntries, IsEndOf
  <2>2. Deadline[c] = end[c] /\ end[c] # NoTime
    BY <1>1, <2>1, TimeAssumption DEF Deadline, KInv, TypeOK, Time, NoTime
  <2>3. end[c] <= GetCurrentTime
    BY <1>1, <2>1, NoWrapNow, TimeAssumption DEF RunEvent, KInv, Covered, TypeOK, Entry, Time
  <2>4. running' = [running EXCEPT ![c] = FALSE]
    BY <1>4 DEF RunEvent
  <2>5. Deadline' = [Deadline EXCEPT ![c] = NoTime]
    BY <1>1, <1>2, <2>4 DEF Deadline, KInv, TypeOK
  <2>6. ending = {} /\ ending' = {c}
    BY <1>4 DEF RunEvent, KInv, TypeOK
  <2>7. Contract!Ended(c)
    BY <1>1, <1>2, <2>1, <2>2, <2>3, <2>5, <2>6, SameClock DEF Contract!Ended, NoTime, Contract!NoTime
  <2> QED BY <1>1, <2>7 DEF Contract!Next
<1> QED BY <1>3, <1>4

(* Every step is a step of the contract, or one it does not see. *)
LEMMA NextContract ==
  ASSUME NoWrap, KInv, [Next]_vars
  PROVE  Contract!Next \/ UNCHANGED Contract!vars
<1>1. CASE Tick
  <2>1. Contract!Tick
    BY <1>1 DEF Tick, Contract!Tick, Deadline, countdowns
  <2> QED BY <2>1 DEF Contract!Next
<1>2. ASSUME NEW c \in Countdown, NEW delay \in 0 .. MaxDelay, SetEnd(c, delay)
      PROVE  Contract!Next
  <2>1. Deadline' = [Deadline EXCEPT ![c] = GetCurrentTime + delay]
    BY <1>2 DEF SetEnd, Deadline, KInv, TypeOK
  <2>2. Contract!SetEnd(c, delay)
    BY <1>2, <2>1, SameClock DEF SetEnd, Contract!SetEnd
  <2> QED BY <2>2 DEF Contract!Next
<1>3. ASSUME NEW c \in Countdown, Cancel(c)
      PROVE  Contract!Next
  <2>1. Deadline' = [Deadline EXCEPT ![c] = NoTime]
    BY <1>3 DEF Cancel, Deadline, KInv, TypeOK
  <2>2. Contract!Cancel(c)
    BY <1>3, <2>1 DEF Cancel, Contract!Cancel, NoTime, Contract!NoTime
  <2> QED BY <2>2 DEF Contract!Next
<1>4. ASSUME NEW c \in Countdown, Destroy(c)
      PROVE  Contract!Next
  <2>1. Deadline' = [Deadline EXCEPT ![c] = NoTime]
    BY <1>4 DEF Destroy, Deadline, KInv, TypeOK
  <2>2. {k \in Countdown : alive'[k]} = {k \in Countdown : alive[k]} \ {c}
    BY <1>4 DEF Destroy, KInv, TypeOK
  <2>3. Contract!Destroy(c)
    BY <1>4, <2>1, <2>2 DEF Destroy, Contract!Destroy, NoTime, Contract!NoTime
  <2> QED BY <2>3 DEF Contract!Next
<1>5. ASSUME NEW e \in queue, RunEvent(e)
      PROVE  Contract!Next \/ UNCHANGED Contract!vars
  BY <1>5, RunEventContract
<1>6. Expire \/ Update \/ UpdateReturns \/ UNCHANGED vars
        => UNCHANGED <<clock, countdowns, ending>>
  BY DEF Expire, Update, UpdateReturns, vars, countdowns
<1>7. UNCHANGED <<clock, countdowns, ending>> => UNCHANGED Contract!vars
  BY DEF countdowns, Contract!vars, Deadline
<1>8. CASE CallbackReturns
  <2>1. Contract!EndedReturns
    BY <1>8 DEF CallbackReturns, Contract!EndedReturns, countdowns, Deadline, KInv, TypeOK
  <2> QED BY <2>1 DEF Contract!Next
<1> QED
  BY <1>1, <1>2, <1>3, <1>4, <1>5, <1>6, <1>7, <1>8 DEF Next, Program, EventLoop

(* Within one period of the clock TimerQueue and Countdown implement the
   contract of countdown.h, for any number of countdowns and of calls, made
   from handlers or from inside `ended`. *)
THEOREM ContractKept == NoWrap => (Spec => KeepsContract)
<1> SUFFICES ASSUME NoWrap PROVE Spec => Contract!Spec
  BY DEF KeepsContract
<1>1. Init => KInv
  BY InitType, InitLive, InitCovered DEF KInv
<1>2. KInv /\ [Next]_vars => KInv'
  BY NextType, NextLive, NextCovered DEF KInv
<1>3. KInv /\ [Next]_vars => [Contract!Next]_(Contract!vars)
  BY NextContract
<1> QED BY <1>1, <1>2, <1>3, InitContract, PTL DEF Spec, Contract!Spec
=============================================================================
