-------------------------------- MODULE Timer --------------------------------
(***************************************************************************)
(* The clock of dev/timer.c: the IRQ0 handler counts ticks, and __sleep    *)
(* busy-waits on the tick counter, which wraps at the width of a LONG.     *)
(*                                                                         *)
(* kmain runs with interrupts disabled until its sti, and drivers call     *)
(* sleep before it (pci_setup, ide_init); __sleep then relies on the       *)
(* counter still being 0.                                                  *)
(***************************************************************************)
EXTENDS Integers

CONSTANTS Width,     \* number of values of a LONG (2^32)
          Hz,        \* ticks per second (100)
          SleepArgs  \* the arguments __sleep is called with

ASSUME TimerAssumption ==
    /\ Width \in Nat /\ Hz \in Nat
    /\ 1 < Hz /\ Hz < Width
    /\ SleepArgs \subseteq 1..(Width - 1)

VARIABLES seconds, ticks, ticks2,  \* the three counters
          enabled,                 \* kmain has executed sti
          sleepPc,                 \* control in __sleep: "idle" outside,
                                   \* "deadline" after its test, "loop"
          end,                     \* __sleep's local variable
          asked, waited, started   \* history: argument, ticks since the
                                   \* deadline was computed, ticks2 then

counters == <<seconds, ticks, ticks2>>
sleepVars == <<sleepPc, end, asked, waited, started>>
timerVars == <<counters, enabled, sleepVars>>

\* Every variable has a value of its type; ticks never reaches a full second
\* between two interrupts.
TimerTypeOK ==
    /\ seconds \in 0..(Width - 1)
    /\ ticks \in 0..(Hz - 1)
    /\ ticks2 \in 0..(Width - 1)
    /\ enabled \in BOOLEAN
    /\ sleepPc \in {"idle", "deadline", "loop"}
    /\ end \in 0..(Width - 1)
    /\ asked \in 0..(Width - 1)
    /\ waited \in 0..Width
    /\ started \in 0..(Width - 1)

\* timer_setup has programmed the PIT and registered timer_handler.
TimerInit ==
    /\ seconds = 0 /\ ticks = 0 /\ ticks2 = 0
    /\ enabled = FALSE
    /\ sleepPc = "idle"
    /\ end = 0 /\ asked = 0 /\ waited = 0 /\ started = 0

Inc(n) == (n + 1) % Width

\* Mutation: ticks2 is not counted at a full second.
timer_handlerSkips ==
    IF ticks + 1 = Hz
    THEN ticks' = 0 /\ seconds' = Inc(seconds) /\ ticks2' = ticks2
    ELSE ticks' = ticks + 1 /\ seconds' = seconds /\ ticks2' = Inc(ticks2)

\* timer_handler, on the counters alone.
timer_handler ==
    /\ ticks2' = Inc(ticks2)
    /\ IF ticks + 1 = Hz
       THEN ticks' = 0 /\ seconds' = Inc(seconds)
       ELSE ticks' = ticks + 1 /\ seconds' = seconds

\* An IRQ0 taken by the processor.  The history counter saturates at Width.
Tick ==
    /\ enabled
    /\ timer_handler
    /\ waited' = IF sleepPc = "loop" /\ waited < Width THEN waited + 1 ELSE waited
    /\ UNCHANGED <<enabled, sleepPc, end, asked, started>>

\* Mutation: __sleep waits even if the counter has never moved.
NoPitIgnored == FALSE

\* __sleep: returns at once when ticks2 is 0 ("won't sleep without PIT").
NoPit == ticks2 = 0

__sleep(n) ==
    /\ sleepPc = "idle"
    /\ ~NoPit
    /\ sleepPc' = "deadline"
    /\ asked' = n
    /\ UNCHANGED <<counters, enabled, end, waited, started>>

\* Mutation: one tick short.
DeadlineShort(n) == (ticks2 + n - 1) % Width

\* ticks2 is volatile and is read again for the deadline.
Deadline(n) == (ticks2 + n) % Width

ComputeDeadline ==
    /\ sleepPc = "deadline"
    /\ sleepPc' = "loop"
    /\ end' = Deadline(asked)
    /\ waited' = 0
    /\ started' = ticks2
    /\ UNCHANGED <<counters, enabled, asked>>

\* Mutation: while(end >= ticks2).
SleepReturnsLate ==
    /\ sleepPc = "loop"
    /\ ~(end >= ticks2)
    /\ sleepPc' = "idle"
    /\ end' = 0 /\ asked' = 0 /\ waited' = 0 /\ started' = 0
    /\ UNCHANGED <<counters, enabled>>

\* while(end > ticks2) has ended: __sleep returns.
SleepReturns ==
    /\ sleepPc = "loop"
    /\ ~(end > ticks2)
    /\ sleepPc' = "idle"
    /\ end' = 0 /\ asked' = 0 /\ waited' = 0 /\ started' = 0
    /\ UNCHANGED <<counters, enabled>>

\* kmain's sti, after the drivers' setup functions have returned.
EnableInterrupts ==
    /\ ~enabled
    /\ sleepPc = "idle"
    /\ enabled' = TRUE
    /\ UNCHANGED <<counters, sleepVars>>

TimerNext ==
    \/ Tick
    \/ \E n \in SleepArgs : __sleep(n)
    \/ ComputeDeadline
    \/ SleepReturns
    \/ EnableInterrupts

TimerSpec == TimerInit /\ [][TimerNext]_timerVars

\* The PIT keeps ticking, kmain gets to its sti, and the loop tests its
\* condition many times between two ticks, so it sees every value of ticks2.
TimerFairness ==
    /\ WF_timerVars(Tick)
    /\ WF_timerVars(EnableInterrupts)
    /\ WF_timerVars(ComputeDeadline)
    /\ SF_timerVars(SleepReturns)

TimerFairSpec == TimerSpec /\ TimerFairness

-----------------------------------------------------------------------------
(* Properties *)

\* The two clocks agree for ever: __ticks() is time() in ticks plus the
\* ticks of the current second, modulo the width, through every wrap.
ClocksAgree == ticks2 = (seconds * Hz + ticks) % Width

\* When __sleep returns, at least the ticks it was asked for have gone by,
\* unless the deadline was beyond the counter's wrap.
NeverShort ==
    [][sleepPc = "loop" /\ sleepPc' = "idle" /\ started + asked < Width
           => waited >= asked]_timerVars

\* In the loop the remaining wait is what was asked minus what has gone by.
RemainingIsExact ==
    sleepPc = "loop" /\ started + asked < Width /\ waited < asked
        => end - ticks2 = asked - waited

\* Every sleep ends: the drivers' sleeps before sti because the counter is
\* still 0, later ones because the counter reaches every deadline, also a
\* deadline that has wrapped.
SleepEnds == sleepPc # "idle" ~> sleepPc = "idle"
=============================================================================
