---------------------------- MODULE MCInterrupts ----------------------------
(* Small instances of Interrupts and of Timer for TLC.  They share no state,  *)
(* so that a behaviour is one of either.                                      *)
EXTENDS Interrupts, Timer

\* Two lines of the master, one on each side of the cascade, and the first
\* and a later line of the slave.
MCLines == {0, 3, 8, 10}
MCExceptions == {3, 13}
MCRegistrations == {<<32, "timer_handler">>, <<127, "syscall_handler">>}

VARIABLE part

MCVars == <<part, intVars, timerVars>>

MCInit == part \in {"interrupts", "timer"} /\ IntInit /\ TimerInit

MCNext ==
    /\ \/ part = "interrupts" /\ IntNext /\ UNCHANGED timerVars
       \/ part = "timer" /\ TimerNext /\ UNCHANGED intVars
    /\ UNCHANGED part

MCSpec ==
    /\ MCInit /\ [][MCNext]_MCVars
    /\ part = "interrupts" => IntFairness
    /\ part = "timer" => TimerFairness
=============================================================================
