---------------------------- MODULE TimersProofs ----------------------------
(***************************************************************************)
(* Machine-checked proofs about the two ways of waiting, for every width   *)
(* of the clock, any delays, any duration and any pace of loop(): an       *)
(* elapsed time is kept wherever the clock wraps; a deadline is early,     *)
(* late or never due only where the wrap falls between its arming and its  *)
(* polling, as DeadlineKept spells out.                                    *)
(***************************************************************************)
EXTENDS Timers, TLAPS

\* The time since an armed deadline was asked for is what the clock shows,
\* before and after the wrap; and away from the wrap a deadline still armed was
\* not due at the last loop(), so it is overdue by less than the time since.
DeadlineInv ==
  delay # 0 =>
    /\ due_time - delay \in 0 .. W - 1
    /\ at = IF due_time < W THEN due_time ELSE due_time - W
    /\ due_time <= W =>
         \/ deadline_age >= delay
         \/ now = due_time - delay + deadline_age
    /\ due_time + SLACK <= W => now = due_time - delay + deadline_age
    /\ due_time > W =>
         now = due_time - delay + deadline_age - (IF ClockWrapped THEN W ELSE 0)
    /\ ~FallsOnWrap => deadline_age < delay + unpolled

\* The age of a running start time is the difference the code computes.
ElapsedInv ==
  running =>
    /\ elapsed_age = Sub(now, started)
    /\ elapsed_age < DURATION + unpolled

LEMMA TimerTypePreserved ==
  ASSUME TimerTypeOK, [TimerNext]_timerVars
  PROVE  TimerTypeOK'
<1> USE ClockAssumption DEF TimerTypeOK, deadlineVars, elapsedVars
<1>0. 0 \in 0 .. W - 1 /\ 0 \in 0 .. SLACK /\ 0 \in 0 .. W /\ 0 \in 0 .. 2 * W
  OBVIOUS
<1>1. CASE Tick
  <2>1. Add(now, 1) \in 0 .. W - 1
    BY DEF Add
  <2>2. \A age \in 0 .. W : Older(age) \in 0 .. W
    BY DEF Older
  <2>3. unpolled' \in 0 .. SLACK
    BY <1>1 DEF Tick
  <2>4. QED
    BY <1>0, <1>1, <2>1, <2>2, <2>3 DEF Tick
<1>2. ASSUME NEW d \in DELAYS, ArmDeadline(d) PROVE TimerTypeOK'
  <2>1. d \in 1 .. W - SLACK /\ d < W
    BY DelaysAssumption
  <2>2. Add(now, d) \in 0 .. W - 1
    BY <2>1 DEF Add
  <2>3. due_time' \in 0 .. 2 * W
    BY <1>2, <2>1 DEF ArmDeadline
  <2>4. QED
    BY <1>0, <1>2, <2>2, <2>3 DEF ArmDeadline
<1>3. CASE DisarmDeadline
  BY <1>0, <1>3 DEF DisarmDeadline, ForgetDeadline
<1>4. CASE StartElapsed \/ StopElapsed
  BY <1>0, <1>4 DEF StartElapsed, StopElapsed, ForgetElapsed
<1>5. CASE Poll
  BY <1>0, <1>5 DEF Poll, ForgetDeadline, ForgetElapsed
<1>6. CASE UNCHANGED timerVars
  BY <1>6 DEF timerVars
<1>7. QED
  BY <1>1, <1>2, <1>3, <1>4, <1>5, <1>6 DEF TimerNext

LEMMA DeadlinePreserved ==
  ASSUME TimerTypeOK, DeadlineInv, [TimerNext]_timerVars
  PROVE  DeadlineInv'
<1> USE ClockAssumption, DelaysAssumption
    DEF TimerTypeOK, deadlineVars, elapsedVars, DeadlineInv
<1>1. CASE Tick
  <2>1. SUFFICES ASSUME delay # 0 PROVE DeadlineInv'
    BY <1>1 DEF Tick
  <2>2. /\ delay \in 1 .. W - SLACK /\ due_time \in Nat
        /\ now \in 0 .. W - 1 /\ deadline_age \in 0 .. W
        /\ unpolled \in 0 .. SLACK - 1
    BY <1>1, <2>1 DEF Tick
  <2>3. /\ unpolled' = unpolled + 1
        /\ now' = IF now + 1 < W THEN now + 1 ELSE 0
        /\ deadline_age' = IF deadline_age < W THEN deadline_age + 1
                           ELSE deadline_age
        /\ UNCHANGED <<at, delay, due_time>>
    BY <1>1, <2>1, <2>2 DEF Tick, Older, Add
  <2>4. /\ due_time - delay \in 0 .. W - 1
        /\ at = IF due_time < W THEN due_time ELSE due_time - W
    BY <2>1
  <2>5. due_time <= W =>
          \/ deadline_age' >= delay
          \/ now' = due_time - delay + deadline_age'
    BY <2>1, <2>2, <2>3, <2>4
  <2>6. due_time + SLACK <= W =>
          /\ now' = due_time - delay + deadline_age'
          /\ deadline_age' < delay + unpolled'
    BY <2>1, <2>2, <2>3, <2>4 DEF FallsOnWrap
  <2>7. due_time > W =>
          /\ now' = due_time - delay + deadline_age'
                      - (IF due_time - delay + deadline_age' >= W THEN W ELSE 0)
          /\ deadline_age' < delay + unpolled'
    BY <2>1, <2>2, <2>3, <2>4 DEF FallsOnWrap, ClockWrapped
  <2>8. QED
    BY <2>2, <2>3, <2>4, <2>5, <2>6, <2>7 DEF FallsOnWrap, ClockWrapped
<1>2. ASSUME NEW d \in DELAYS, ArmDeadline(d) PROVE DeadlineInv'
  <2>1. d \in 1 .. W - SLACK /\ now \in 0 .. W - 1
    OBVIOUS
  <2>2. /\ at' = IF now + d < W THEN now + d ELSE now + d - W
        /\ delay' = d /\ deadline_age' = 0 /\ due_time' = now + d
        /\ UNCHANGED <<now, unpolled>>
    BY <1>2, <2>1 DEF ArmDeadline, Add
  <2>3. QED
    BY <2>1, <2>2 DEF FallsOnWrap, ClockWrapped
<1>3. CASE DisarmDeadline
  BY <1>3 DEF DisarmDeadline, ForgetDeadline
<1>4. CASE StartElapsed \/ StopElapsed
  BY <1>4
  DEF StartElapsed, StopElapsed, ForgetElapsed, FallsOnWrap, ClockWrapped
<1>5. CASE Poll
  <2>1. CASE Due
    BY <1>5, <2>1 DEF Poll, ForgetDeadline
  <2>2. CASE ~Due
    <3>1. UNCHANGED <<now, at, delay, deadline_age, due_time>> /\ unpolled' = 0
      BY <1>5, <2>2 DEF Poll
    <3>2. delay # 0 /\ ~FallsOnWrap => deadline_age < delay
      BY <2>2 DEF Due, FallsOnWrap, ClockWrapped
    <3>3. QED
      BY <3>1, <3>2 DEF FallsOnWrap, ClockWrapped
  <2>3. QED
    BY <2>1, <2>2
<1>6. CASE UNCHANGED timerVars
  BY <1>6 DEF timerVars, FallsOnWrap, ClockWrapped
<1>7. QED
  BY <1>1, <1>2, <1>3, <1>4, <1>5, <1>6 DEF TimerNext

LEMMA ElapsedPreserved ==
  ASSUME TimerTypeOK, ElapsedInv, [TimerNext]_timerVars
  PROVE  ElapsedInv'
<1> USE ClockAssumption, DurationAssumption
    DEF TimerTypeOK, deadlineVars, elapsedVars, ElapsedInv, Sub
<1>1. CASE Tick
  BY <1>1 DEF Tick, Older, Add
<1>2. ASSUME NEW d \in DELAYS, ArmDeadline(d) PROVE ElapsedInv'
  BY <1>2 DEF ArmDeadline
<1>3. CASE DisarmDeadline
  BY <1>3 DEF DisarmDeadline
<1>4. CASE StartElapsed \/ StopElapsed
  BY <1>4 DEF StartElapsed, StopElapsed, ForgetElapsed
<1>5. CASE Poll
  <2>1. SUFFICES ASSUME running, running' PROVE ElapsedInv'
    BY <1>5 DEF Poll
  <2>2. ~Elapsed
    BY <1>5, <2>1 DEF Poll, ForgetElapsed
  <2>3. UNCHANGED <<now, elapsedVars>> /\ unpolled' = 0
    BY <1>5, <2>1, <2>2 DEF Poll
  <2>4. elapsed_age = Sub(now, started) /\ ~(Sub(now, started) >= DURATION)
    BY <2>1, <2>2 DEF Elapsed
  <2>5. QED
    BY <2>3, <2>4
<1>6. CASE UNCHANGED timerVars
  BY <1>6 DEF timerVars
<1>7. QED
  BY <1>1, <1>2, <1>3, <1>4, <1>5, <1>6 DEF TimerNext

LEMMA TimersInductive ==
  TimerSpec => [](TimerTypeOK /\ DeadlineInv /\ ElapsedInv)
<1>1. TimerInit => TimerTypeOK /\ DeadlineInv /\ ElapsedInv
  <2>1. 0 \in 0 .. W - 1 /\ 0 \in 0 .. SLACK /\ 0 \in 0 .. W /\ 0 \in 0 .. 2 * W
    BY ClockAssumption
  <2>2. TimerInit => TimerTypeOK
    BY <2>1 DEF TimerInit, TimerTypeOK
  <2>3. TimerInit => DeadlineInv /\ ElapsedInv
    BY DEF TimerInit, DeadlineInv, ElapsedInv
  <2>4. QED
    BY <2>2, <2>3
<1>2. TimerTypeOK /\ DeadlineInv /\ ElapsedInv /\ [TimerNext]_timerVars
        => TimerTypeOK' /\ DeadlineInv' /\ ElapsedInv'
  BY TimerTypePreserved, DeadlinePreserved, ElapsedPreserved
<1>3. QED
  BY <1>1, <1>2, PTL DEF TimerSpec

\* What becomes of every deadline of the hub (deinit, reconnect, metadata,
\* coexistence), for any width of the clock, any delays and any pace of loop():
\* kept within one loop, but late or never due when it falls on the wrap, and
\* early while its sum has wrapped and the clock has not.
THEOREM DeadlineCorrect == TimerSpec => DeadlineKept
<1>1. TimerTypeOK /\ DeadlineInv /\ [TimerNext]_timerVars
        => [delay # 0 =>
              /\ deadline_age >= delay + SLACK => FallsOnWrap
              /\ Poll /\ delay' = 0 =>
                   /\ due_time # W
                   /\ deadline_age < delay => due_time > W /\ ~ClockWrapped
           ]_timerVars
  <2>1. SUFFICES ASSUME TimerTypeOK, DeadlineInv, delay # 0
                 PROVE  /\ deadline_age >= delay + SLACK => FallsOnWrap
                        /\ Poll /\ delay' = 0 =>
                             /\ due_time # W
                             /\ deadline_age < delay
                                  => due_time > W /\ ~ClockWrapped
    OBVIOUS
  <2>2. deadline_age >= delay + SLACK => FallsOnWrap
    BY <2>1, ClockAssumption, DelaysAssumption DEF TimerTypeOK, DeadlineInv
  <2>3. ASSUME Poll, delay' = 0
        PROVE  /\ due_time # W
               /\ deadline_age < delay => due_time > W /\ ~ClockWrapped
    <3>1. Due
      BY <2>1, <2>3 DEF Poll, deadlineVars
    <3>2. /\ delay \in 1 .. W - SLACK /\ due_time \in Nat
          /\ now \in 0 .. W - 1 /\ deadline_age \in 0 .. W
      BY <2>1, ClockAssumption, DelaysAssumption DEF TimerTypeOK
    <3>3. QED
      BY <2>1, <3>1, <3>2, ClockAssumption DEF DeadlineInv, Due, ClockWrapped
  <2>4. QED
    BY <2>2, <2>3
<1>2. QED
  BY <1>1, TimersInductive, PTL DEF TimerSpec, DeadlineKept

\* The discoverability window and the diagnostics interval are kept exactly,
\* wherever millis() wraps.
THEOREM ElapsedCorrect == TimerSpec => ElapsedKept
<1>1. TimerTypeOK /\ ElapsedInv /\ [TimerNext]_timerVars
        => [running =>
              /\ elapsed_age < DURATION + SLACK
              /\ Poll /\ ~running' => elapsed_age >= DURATION]_timerVars
  <2>1. SUFFICES ASSUME TimerTypeOK, ElapsedInv, running
                 PROVE  /\ elapsed_age < DURATION + SLACK
                        /\ Poll /\ ~running' => elapsed_age >= DURATION
    OBVIOUS
  <2>2. elapsed_age < DURATION + SLACK
    BY <2>1, ClockAssumption, DurationAssumption DEF TimerTypeOK, ElapsedInv
  <2>3. ASSUME Poll, ~running' PROVE elapsed_age >= DURATION
    <3>1. Elapsed
      BY <2>1, <2>3 DEF Poll, elapsedVars
    <3>2. QED
      BY <2>1, <3>1 DEF ElapsedInv, Elapsed
  <2>4. QED
    BY <2>2, <2>3
<1>2. QED
  BY <1>1, TimersInductive, PTL DEF TimerSpec, ElapsedKept
=============================================================================
