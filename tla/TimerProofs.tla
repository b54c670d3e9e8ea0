----------------------------- MODULE TimerProofs -----------------------------
(***************************************************************************)
(* Proofs about Timer for every width of the counters, tick rate and set   *)
(* of arguments.                                                           *)
(***************************************************************************)
EXTENDS Timer, TLAPS

-----------------------------------------------------------------------------
(* Arithmetic modulo the width *)

LEMMA ModSmall ==
    ASSUME NEW w \in Nat, NEW x \in Nat, x < w
    PROVE  x % w = x
  OBVIOUS

LEMMA ModRange ==
    ASSUME NEW w \in Nat, w > 0, NEW x \in Nat
    PROVE  x % w \in 0..(w - 1)
  OBVIOUS

LEMMA ModWidth ==
    ASSUME NEW w \in Nat, w > 0
    PROVE  w % w = 0
  OBVIOUS

LEMMA DivMod ==
    ASSUME NEW w \in Nat, w > 0, NEW x \in Nat
    PROVE  /\ x \div w \in Int
           /\ (x % w) \in 0..(w - 1)
           /\ x = w * (x \div w) + (x % w)
  OBVIOUS

\* Quotient and remainder are unique.
LEMMA ModUnique ==
    ASSUME NEW w \in Nat, w > 0, NEW x \in Nat, NEW q \in Int, NEW r \in 0..(w - 1),
           x = w * q + r
    PROVE  x % w = r
  OBVIOUS

\* Counting up: the remainder follows, wrapping to 0.
LEMMA ModSucc ==
    ASSUME NEW w \in Nat, w > 1, NEW x \in Nat
    PROVE  (x + 1) % w = IF (x % w) + 1 = w THEN 0 ELSE (x % w) + 1
  <1> DEFINE q == x \div w
             r == x % w
  <1>1. q \in Int /\ r \in 0..(w - 1) /\ x = w * q + r
    BY DivMod
  <1> HIDE DEF q, r
  <1>2. CASE r + 1 = w
    <2>1. x + 1 = w * (q + 1) + 0 /\ x + 1 \in Nat /\ q + 1 \in Int /\ 0 \in 0..(w - 1)
      BY <1>1, <1>2
    <2>2. (x + 1) % w = 0
      BY <2>1, ModUnique
    <2> QED BY <1>2, <2>2 DEF r
  <1>3. CASE r + 1 # w
    <2>1. x + 1 = w * q + (r + 1) /\ r + 1 \in 0..(w - 1)
      BY <1>1, <1>3
    <2>2. (x + 1) % w = r + 1
      BY <1>1, <2>1, ModUnique
    <2> QED BY <1>3, <2>2 DEF r
  <1> QED BY <1>2, <1>3

\* Multiples of the width do not change a remainder.
LEMMA ModMultiple ==
    ASSUME NEW w \in Nat, w > 0, NEW q \in Nat, NEW x \in Nat
    PROVE  (w * q + x) % w = x % w
  <1> DEFINE k == x \div w
             r == x % w
  <1>1. k \in Int /\ r \in 0..(w - 1) /\ x = w * k + r
    BY DivMod
  <1> HIDE DEF k, r
  <1>2. w * q + x = w * (q + k) + r /\ w * q + x \in Nat /\ q + k \in Int
    BY <1>1
  <1> QED BY <1>1, <1>2, ModUnique DEF r

-----------------------------------------------------------------------------
(* The inductive invariant: in the loop, and until the deadline, the counter *)
(* has advanced by exactly the ticks that went by.                           *)

WaitTracked ==
    started + asked < Width /\ sleepPc = "loop" =>
        /\ end = started + asked
        /\ waited < asked => ticks2 = started + waited

TimerInv == TimerTypeOK /\ ClocksAgree /\ WaitTracked

LEMMA IncRange ==
    ASSUME NEW n \in 0..(Width - 1)
    PROVE  Inc(n) = (IF n + 1 = Width THEN 0 ELSE n + 1) /\ Inc(n) \in 0..(Width - 1)
  BY TimerAssumption, ModSmall, ModWidth DEF Inc

LEMMA TimerInvInit == TimerInit => TimerInv
  <1> SUFFICES ASSUME TimerInit PROVE TimerInv
    OBVIOUS
  <1>0. enabled \in BOOLEAN
    BY Zenon DEF TimerInit
  <1>1. TimerTypeOK /\ WaitTracked
    <2>1. /\ seconds = 0 /\ ticks = 0 /\ ticks2 = 0 /\ sleepPc = "idle"
          /\ end = 0 /\ asked = 0 /\ waited = 0 /\ started = 0
      BY DEF TimerInit
    <2> QED BY <1>0, <2>1, TimerAssumption DEF TimerTypeOK, WaitTracked
  <1>2. ClocksAgree
    BY TimerAssumption, ModSmall DEF TimerInit, ClocksAgree
  <1> QED BY <1>1, <1>2 DEF TimerInv

\* timer_handler keeps the two clocks together, through both wraps.
LEMMA HandlerKeepsClocks ==
    ASSUME TimerTypeOK, ClocksAgree, timer_handler
    PROVE  ClocksAgree'
  <1> DEFINE total == seconds * Hz + ticks
  <1>0. /\ Width \in Nat /\ Width > 1 /\ Hz \in Nat /\ Hz > 1
        /\ seconds \in 0..(Width - 1) /\ ticks \in 0..(Hz - 1) /\ ticks2 \in 0..(Width - 1)
    BY TimerAssumption DEF TimerTypeOK
  <1>1. total \in Nat
    BY <1>0
  <1>2. ticks2' = (total + 1) % Width
    <2> HIDE DEF total
    <2>1. ticks2 = total % Width
      BY DEF ClocksAgree, total
    <2>2. ticks2' = IF ticks2 + 1 = Width THEN 0 ELSE ticks2 + 1
      BY <1>0, IncRange DEF timer_handler
    <2>3. (total + 1) % Width = IF (total % Width) + 1 = Width THEN 0 ELSE (total % Width) + 1
      BY <1>0, <1>1, ModSucc
    <2> QED BY <2>1, <2>2, <2>3
  <1>3. CASE ticks + 1 # Hz
    <2>1. seconds' * Hz + ticks' = total + 1
      BY <1>0, <1>3 DEF timer_handler
    <2> QED BY <2>1, <1>2 DEF ClocksAgree
  <1>4. CASE ticks + 1 = Hz
    <2>1. ticks' = 0 /\ seconds' = (IF seconds + 1 = Width THEN 0 ELSE seconds + 1)
      BY <1>0, <1>4, IncRange DEF timer_handler
    <2>2. total + 1 = (seconds + 1) * Hz
      BY <1>0, <1>4
    <2>3. CASE seconds + 1 # Width
      BY <1>0, <1>2, <2>1, <2>2, <2>3 DEF ClocksAgree
    <2>4. CASE seconds + 1 = Width
      <3>1. total + 1 = Width * Hz + 0
        BY <1>0, <2>2, <2>4
      <3>2. ticks2' = 0 % Width
        BY <1>0, <1>2, <3>1, ModMultiple
      <3>3. seconds' * Hz + ticks' = 0
        BY <1>0, <2>1, <2>4
      <3> QED BY <3>2, <3>3 DEF ClocksAgree
    <2> QED BY <2>3, <2>4
  <1> QED BY <1>3, <1>4

LEMMA TimerInvNext ==
    ASSUME TimerInv, [TimerNext]_timerVars
    PROVE  TimerInv'
  <1> USE TimerAssumption DEF TimerInv
  <1>1. CASE Tick
    <2>1. ClocksAgree'
      BY <1>1, HandlerKeepsClocks DEF Tick
    <2>2. ticks2' = (IF ticks2 + 1 = Width THEN 0 ELSE ticks2 + 1)
      BY <1>1, IncRange DEF Tick, timer_handler, TimerTypeOK
    <2>3. TimerTypeOK'
      <3>1. ticks2' \in 0..(Width - 1) /\ seconds' \in 0..(Width - 1) /\ ticks' \in 0..(Hz - 1)
        BY <1>1, IncRange DEF Tick, timer_handler, TimerTypeOK
      <3> QED BY <1>1, <3>1 DEF Tick, TimerTypeOK
    <2>4. WaitTracked'
      BY <1>1, <2>2 DEF Tick, TimerTypeOK, WaitTracked
    <2> QED BY <2>1, <2>3, <2>4
  <1>2. ASSUME NEW n \in SleepArgs, __sleep(n)
        PROVE  TimerInv'
    BY <1>2 DEF __sleep, counters, TimerTypeOK, ClocksAgree, WaitTracked
  <1>3. CASE ComputeDeadline
    <2>1. end' \in 0..(Width - 1) /\ (ticks2 + asked < Width => end' = ticks2 + asked)
      BY <1>3, ModSmall, ModRange DEF ComputeDeadline, Deadline, TimerTypeOK
    <2> QED
      BY <1>3, <2>1
      DEF ComputeDeadline, counters, TimerTypeOK, ClocksAgree, WaitTracked
  <1>4. CASE SleepReturns
    BY <1>4 DEF SleepReturns, counters, TimerTypeOK, ClocksAgree, WaitTracked
  <1>5. CASE EnableInterrupts
    BY <1>5 DEF EnableInterrupts, counters, sleepVars, TimerTypeOK, ClocksAgree, WaitTracked
  <1>6. CASE UNCHANGED timerVars
    BY <1>6 DEF timerVars, counters, sleepVars, TimerTypeOK, ClocksAgree, WaitTracked
  <1> QED
    BY <1>1, <1>2, <1>3, <1>4, <1>5, <1>6 DEF TimerNext

\* For every width, rate and set of arguments: the clocks agree through
\* every wrap, and a sleep whose deadline does not wrap is never short.
THEOREM TimerSafety ==
    TimerSpec => [](TimerTypeOK /\ ClocksAgree /\ RemainingIsExact) /\ NeverShort
  <1> DEFINE Waited == sleepPc = "loop" /\ sleepPc' = "idle" /\ started + asked < Width
                           => waited >= asked
  <1>1. TimerInv => TimerTypeOK /\ ClocksAgree /\ RemainingIsExact
    BY DEF TimerInv, WaitTracked, RemainingIsExact, TimerTypeOK
  <1>2. TimerInv /\ [TimerNext]_timerVars => [Waited]_timerVars
    <2> SUFFICES ASSUME TimerInv, TimerNext, sleepPc = "loop", sleepPc' = "idle",
                        started + asked < Width
                 PROVE  waited >= asked
      BY DEF timerVars, sleepVars
    <2>1. SleepReturns
      BY DEF TimerNext, Tick, __sleep, ComputeDeadline, EnableInterrupts, sleepVars
    <2> QED BY <2>1 DEF SleepReturns, TimerInv, WaitTracked, TimerTypeOK
  <1>3. TimerSpec => []TimerInv
    BY TimerInvInit, TimerInvNext, PTL DEF TimerSpec
  <1> QED
    BY <1>1, <1>2, <1>3, PTL DEF TimerSpec, NeverShort
=============================================================================
