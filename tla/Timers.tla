------------------------------- MODULE Timers -------------------------------
(***************************************************************************)
(* The two ways the code waits, over the 32-bit millis(), which wraps      *)
(* after 49.7 days:                                                        *)
(*   - a deadline, armed as "at = millis() + delay", disarmed as 0 and due *)
(*     when "at # 0 and millis() >= at" (deinit, reconnect, metadata and   *)
(*     coexistence);                                                       *)
(*   - a start time, elapsed when "millis() - started >= duration", in     *)
(*     unsigned arithmetic (discoverability, the diagnostics).             *)
(* loop() looks at them whenever it comes round, at most SLACK ms apart.   *)
(***************************************************************************)
EXTENDS Naturals

CONSTANTS
  W,                  \* 2^32 in the code
  SLACK,              \* longest time between two loops
  DELAYS,             \* 250, 500, 1000, 2000, 3000
  DURATION            \* discoverable_duration_ms_

ASSUME ClockAssumption == W \in Nat \ {0} /\ SLACK \in Nat \ {0}
ASSUME DelaysAssumption == DELAYS \subseteq 1 .. W - SLACK
ASSUME DurationAssumption == DURATION \in 1 .. W /\ DURATION + SLACK <= W

VARIABLES
  now,                \* millis()
  unpolled,           \* ms since the last loop()
  at,                 \* the deadline; 0: not armed
  started, running,   \* the start time, and whether it is looked at
  \* what the caller asked for, and how long ago
  delay,              \* 0: nothing
  deadline_age,
  due_time,           \* when it should be due, on a clock that never wraps
  elapsed_age

deadlineVars == <<at, delay, deadline_age, due_time>>
elapsedVars == <<started, running, elapsed_age>>
timerVars == <<now, unpolled, deadlineVars, elapsedVars>>

TimerTypeOK ==
  /\ now \in 0 .. W - 1 /\ at \in 0 .. W - 1 /\ started \in 0 .. W - 1
  /\ unpolled \in 0 .. SLACK
  /\ running \in BOOLEAN
  /\ delay \in {0} \cup DELAYS
  /\ due_time \in 0 .. 2 * W
  /\ deadline_age \in 0 .. W /\ elapsed_age \in 0 .. W

TimerInit ==
  /\ now \in 0 .. W - 1
  /\ unpolled = 0
  /\ at = 0 /\ delay = 0 /\ deadline_age = 0 /\ due_time = 0
  /\ started = 0 /\ running = FALSE /\ elapsed_age = 0

-----------------------------------------------------------------------------
\* Faulty variant: the sum is kept in a wider type.
AddUnwrapped(a, b) == a + b

\* Unsigned arithmetic of the clock's width.
Add(a, b) == IF a + b < W THEN a + b ELSE a + b - W
Sub(a, b) == IF a >= b THEN a - b ELSE W + a - b

\* Faulty variant: due one tick late.
DueLate == at # 0 /\ now > at

Due == at # 0 /\ now >= at

\* Faulty variant: the elapsed time is compared as a deadline.
ElapsedAsDeadline == now >= Add(started, DURATION)

Elapsed == Sub(now, started) >= DURATION

\* The ages stop at W: bound of the history variables.
Older(age) == IF age < W THEN age + 1 ELSE age

Tick ==
  /\ unpolled < SLACK
  /\ unpolled' = unpolled + 1
  /\ now' = Add(now, 1)
  /\ deadline_age' = IF delay = 0 THEN 0 ELSE Older(deadline_age)
  /\ elapsed_age' = IF running THEN Older(elapsed_age) ELSE 0
  /\ UNCHANGED <<at, delay, due_time, started, running>>

ArmDeadline(d) ==
  /\ at' = Add(now, d)
  /\ delay' = d /\ deadline_age' = 0 /\ due_time' = now + d
  /\ UNCHANGED <<now, unpolled, elapsedVars>>

ForgetDeadline == at' = 0 /\ delay' = 0 /\ deadline_age' = 0 /\ due_time' = 0

DisarmDeadline == ForgetDeadline /\ UNCHANGED <<now, unpolled, elapsedVars>>

StartElapsed ==
  /\ running' = TRUE /\ started' = now /\ elapsed_age' = 0
  /\ UNCHANGED <<now, unpolled, deadlineVars>>

ForgetElapsed == running' = FALSE /\ elapsed_age' = 0 /\ UNCHANGED started

StopElapsed == ForgetElapsed /\ UNCHANGED <<now, unpolled, deadlineVars>>

\* The top of loop().
Poll ==
  /\ unpolled' = 0
  /\ IF Due THEN ForgetDeadline ELSE UNCHANGED deadlineVars
  /\ IF running /\ Elapsed THEN ForgetElapsed ELSE UNCHANGED elapsedVars
  /\ UNCHANGED now

TimerNext ==
  \/ Tick
  \/ \E d \in DELAYS : ArmDeadline(d)
  \/ DisarmDeadline
  \/ StartElapsed
  \/ StopElapsed
  \/ Poll

TimerSpec == TimerInit /\ [][TimerNext]_timerVars

-----------------------------------------------------------------------------
\* What becomes of a deadline, wherever millis() wraps.  It is found within one
\* loop of its time, unless it falls on the wrap: so late before it that loop()
\* may first look after the wrap, or on the very tick, where the sum is 0 and
\* the deadline is never due.  It is not found before its time, unless the sum
\* wraps: then it is due at once, until the clock wraps as well.
FallsOnWrap == due_time <= W /\ W < due_time + SLACK
ClockWrapped == due_time - delay + deadline_age >= W

DeadlineKept ==
  [][delay # 0 =>
       /\ deadline_age >= delay + SLACK => FallsOnWrap
       /\ Poll /\ delay' = 0 =>
            /\ due_time # W
            /\ deadline_age < delay => due_time > W /\ ~ClockWrapped]_timerVars

\* An elapsed time is kept as exactly, wherever the clock wraps.
ElapsedKept ==
  [][running =>
       /\ elapsed_age < DURATION + SLACK
       /\ Poll /\ ~running' => elapsed_age >= DURATION]_timerVars
=============================================================================
