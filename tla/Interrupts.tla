------------------------------ MODULE Interrupts ------------------------------
(***************************************************************************)
(* Interrupt delivery in kernel/int.c and kernel/inta.asm: the handler     *)
(* table, the entry stubs, isr_handler, irq_handler with its end-of-       *)
(* interrupt commands, and (external) the two cascaded 8259 controllers    *)
(* and the processor's interrupt flag as idt_setup programs them.          *)
(*                                                                         *)
(* Every gate is an interrupt gate (0x8E), so taking one clears IF; a      *)
(* stub ends with "sti; iret".  An sti takes effect after the instruction  *)
(* that follows it, so iflag has a third value "shadow" between the two.   *)
(***************************************************************************)
EXTENDS Integers, Sequences, FiniteSets, FiniteSetsExt

CONSTANTS Lines,       \* the IRQ lines with a device on them
          Exceptions,  \* the exception vectors that can be raised
          Handlers,    \* the functions passed to int_regh
          Registrations, \* the <<vector, handler>> pairs they are passed with
          NoHandler,   \* a NULL entry of int_handlers
          MaxDepth     \* bound on the number of nested frames

SyscallVector == 127
IrqVector(l) == 32 + l
IrqVectors == 32..47
Vectors == Exceptions \cup IrqVectors \cup {SyscallVector}

\* Line 2 of the master is the cascade.  Vectors 17, 21, 29 and 30 push an
\* error code their stubs do not expect, but the processor raises them only
\* in modes this kernel never enters (ring 3, CET, SEV).
ASSUME InterruptsAssumption ==
    /\ Lines \subseteq (0..15) \ {2}
    /\ Exceptions \subseteq (0..31) \ {17, 21, 29, 30}
    /\ NoHandler \notin Handlers
    /\ Registrations \subseteq (Vectors \X Handlers)
    /\ MaxDepth \in Nat


VARIABLES iflag,         \* EFLAGS.IF: "off", "shadow" (after sti) or "on"
          int_handlers,  \* the handler table
          irr,           \* lines whose request the controllers hold
          inService,     \* in-service bits: 0..7 master, 8..15 slave
          frames         \* interrupt frames, the last one is running

intVars == <<iflag, int_handlers, irr, inService, frames>>

\* A frame: its vector, the IF saved in it, the in-service bits its
\* acknowledge set, the words the processor and the stub pushed above the
\* return address, and how far its stub is.
Frame == [vector : Vectors, saved : {"off", "on"}, bits : SUBSET (0..15),
          extra : 0..3, stage : {"entry", "sti", "iret"}]

Top == frames[Len(frames)]
InMain == frames = <<>>
IsIrq(f) == f.vector \in IrqVectors

\* Every variable has a value of its type; frames are those the stubs build.
IntTypeOK ==
    /\ iflag \in {"off", "shadow", "on"}
    /\ int_handlers \in [Vectors -> Handlers \cup {NoHandler}]
    /\ irr \subseteq Lines
    /\ inService \subseteq 0..15
    /\ frames \in Seq(Frame)

\* idt_setup: interrupts are off since entry.asm, no handler is registered,
\* both controllers are remapped and every line is unmasked.
IntInit ==
    /\ iflag = "off"
    /\ int_handlers = [v \in Vectors |-> NoHandler]
    /\ irr = {}
    /\ inService = {}
    /\ frames = <<>>

-----------------------------------------------------------------------------
(* The controllers (external) *)

\* The master's input a line arrives at: lines 8..15 come through input 2.
MasterBit(l) == IF l >= 8 THEN 2 ELSE l
Outranks(k, l) ==
    \/ MasterBit(k) < MasterBit(l)
    \/ MasterBit(k) = MasterBit(l) /\ k < l

\* Fully nested mode: an in-service bit holds back its own and lower levels.
Unblocked(l) ==
    /\ \A s \in inService \cap (0..7) : MasterBit(l) < s
    /\ l >= 8 => \A s \in inService \cap (8..15) : l < s

Deliverable(l) ==
    /\ l \in irr
    /\ Unblocked(l)
    /\ \A k \in irr : Unblocked(k) => ~Outranks(k, l)

\* A non-specific end of interrupt clears the highest bit in service.
ClearHighest(bits) == IF bits = {} THEN {} ELSE bits \ {Min(bits)}

Raise(l) ==
    /\ irr' = irr \cup {l}
    /\ UNCHANGED <<iflag, int_handlers, inService, frames>>

-----------------------------------------------------------------------------
(* Entry: the processor and the stubs isr0..isr31, isr127, irq0..irq15 *)

\* Which vectors the processor pushes an error code for, and which stubs
\* (ISR_NOERRCODE, IRQ) push a dummy one in its place.
CpuErrorCode(v) == v \in {8} \cup 10..14 \cup {17, 21, 29, 30}
\* Mutation: isr13 built with ISR_NOERRCODE.
StubDummyAlways(v) == TRUE

StubDummy(v) == v \notin {8} \cup 10..14

Word(b) == IF b THEN 1 ELSE 0

\* Mutation: trap gates, which leave IF alone.
EnterFrameTrapGate(v, bits) ==
    /\ frames' = Append(frames, [vector |-> v, bits |-> bits, stage |-> "entry",
           saved |-> IF iflag = "off" THEN "off" ELSE "on",
           extra |-> 1 + Word(CpuErrorCode(v)) + Word(StubDummy(v))])
    /\ UNCHANGED <<iflag, int_handlers>>

EnterFrame(v, bits) ==
    /\ frames' = Append(frames, [vector |-> v, bits |-> bits, stage |-> "entry",
           saved |-> IF iflag = "off" THEN "off" ELSE "on",
           extra |-> 1 + Word(CpuErrorCode(v)) + Word(StubDummy(v))])
    /\ iflag' = "off"
    /\ UNCHANGED int_handlers

Accept(l) ==
    /\ iflag = "on"
    /\ Len(frames) < MaxDepth
    /\ Deliverable(l)
    /\ irr' = irr \ {l}
    /\ inService' = inService \cup {l, MasterBit(l)}
    /\ EnterFrame(IrqVector(l), {l, MasterBit(l)})

\* A request that is gone when the processor acknowledges it arrives as
\* line 7 of the controller asked: the master sets no bit for it, but sets
\* the cascade bit for a spurious interrupt of the slave.
AcceptSpurious(l) ==
    /\ iflag = "on"
    /\ Len(frames) < MaxDepth
    /\ Unblocked(l)
    /\ LET bits == IF l = 15 THEN {2} ELSE {}
       IN  inService' = inService \cup bits /\ EnterFrame(IrqVector(l), bits)
    /\ UNCHANGED irr

\* An exception of the running C code, a handler's included; the stubs' own
\* instructions do not fault.
Exception(v) ==
    /\ ~InMain => Top.stage = "entry"
    /\ Len(frames) < MaxDepth
    /\ EnterFrame(v, {})
    /\ UNCHANGED <<irr, inService>>

\* int 127 of a program, which kmain starts after its sti.
SoftInt ==
    /\ InMain
    /\ iflag = "on"
    /\ Len(frames) < MaxDepth
    /\ EnterFrame(SyscallVector, {})
    /\ UNCHANGED <<irr, inService>>

-----------------------------------------------------------------------------
(* The C handlers and the return *)

Stage(s) == frames' = [frames EXCEPT ![Len(frames)].stage = s]

\* isr_handler: call the registered handler, if any, and return.  What the
\* handler does is conjoined by the module that composes the kernel.
isr_handler ==
    /\ ~InMain
    /\ ~IsIrq(Top)
    /\ Top.stage = "entry"
    /\ Stage("sti")
    /\ UNCHANGED <<iflag, int_handlers, irr, inService>>

\* Mutation: the first line of the slave gets no end of interrupt there.
SlaveEoiAbove40(v, bits) ==
    IF v > 40 THEN ClearHighest(bits \cap (8..15)) ELSE bits \cap (8..15)

\* irq_handler: the same, then an end of interrupt to the slave when the
\* vector is one of its own, and one to the master.
SlaveEoi(v, bits) ==
    IF v >= 40 THEN ClearHighest(bits \cap (8..15)) ELSE bits \cap (8..15)
\* Mutation: no end of interrupt to the master.
NoMasterEoi(bits) == bits \cap (0..7)

MasterEoi(bits) == ClearHighest(bits \cap (0..7))

irq_handler ==
    /\ ~InMain
    /\ IsIrq(Top)
    /\ Top.stage = "entry"
    /\ inService' = SlaveEoi(Top.vector, inService) \cup MasterEoi(inService)
    /\ Stage("sti")
    /\ UNCHANGED <<iflag, int_handlers, irr>>

\* The stub drops the two words and executes sti.
StubReturn ==
    /\ ~InMain
    /\ Top.stage = "sti"
    /\ frames' = [frames EXCEPT ![Len(frames)].stage = "iret",
                                ![Len(frames)].extra = @ - 2]
    /\ iflag' = "shadow"
    /\ UNCHANGED <<int_handlers, irr, inService>>

Iret ==
    /\ ~InMain
    /\ Top.stage = "iret"
    /\ iflag' = Top.saved
    /\ frames' = SubSeq(frames, 1, Len(frames) - 1)
    /\ UNCHANGED <<int_handlers, irr, inService>>

-----------------------------------------------------------------------------
(* What kmain does *)

int_regh(v, h) ==
    /\ InMain
    /\ int_handlers' = [int_handlers EXCEPT ![v] = h]
    /\ UNCHANGED <<iflag, irr, inService, frames>>

\* asm volatile("sti"): the instruction after it is a call, not a cli.
Sti ==
    /\ InMain
    /\ iflag = "off"
    /\ iflag' = "on"
    /\ UNCHANGED <<int_handlers, irr, inService, frames>>

IntNext ==
    \/ \E l \in Lines : Raise(l) \/ Accept(l)
    \/ \E l \in {7, 15} : AcceptSpurious(l)
    \/ \E v \in Exceptions : Exception(v)
    \/ SoftInt
    \/ isr_handler
    \/ irq_handler
    \/ StubReturn
    \/ Iret
    \/ \E r \in Registrations : int_regh(r[1], r[2])
    \/ Sti

IntSpec == IntInit /\ [][IntNext]_intVars

\* The processor keeps executing, kmain reaches its sti, the code does not
\* fault for ever (no exception handler repairs a fault), and a controller
\* with a request it may deliver is not passed over for ever by spurious
\* interrupts and system calls.
IntFairness ==
    /\ WF_intVars(isr_handler) /\ WF_intVars(irq_handler)
    /\ WF_intVars(StubReturn) /\ WF_intVars(Iret) /\ WF_intVars(Sti)
    /\ SF_intVars(\E l \in Lines : Accept(l))
    /\ <>[][\A v \in Exceptions : ~Exception(v)]_intVars

IntFairSpec == IntSpec /\ IntFairness

-----------------------------------------------------------------------------
(* Properties *)

\* A line interrupts the main program only, never a handler: irq_common_stub
\* is entered with no frame under its own, be it another line's, an
\* exception's or the system call's (whose kbd_pop is therefore not cut by
\* kbd_interrupt), although each stub executes sti before it has returned.
NoNestedIrq ==
    \A i \in DOMAIN frames : IsIrq(frames[i]) => i = 1

\* A bit is in service only between an acknowledge and the end of
\* interrupt of its own irq_handler: the kernel never leaves a line blocked
\* behind it and never acknowledges another line's interrupt, spurious
\* interrupts included.
InServiceOnlyInHandler ==
    \A b \in inService :
        \E i \in DOMAIN frames :
            /\ IsIrq(frames[i]) /\ frames[i].stage = "entry" /\ b \in frames[i].bits

\* The stub's "add esp, 8" drops exactly what was pushed above the return
\* address, whichever of ISR_NOERRCODE, ISR_ERRCODE and IRQ built the frame.
ReturnAddressOnTop ==
    \A i \in DOMAIN frames : frames[i].stage = "iret" => frames[i].extra = 0

\* A request is eventually taken, or one that outranks it is: no sequence
\* of interrupts, nested exceptions and ends of interrupt leaves a line
\* blocked.  (With fixed priorities a line may still wait for busier ones.)
RequestsAreTaken ==
    \A l \in Lines :
        l \in irr ~> \/ l \notin irr
                      \/ \E k \in Lines, i \in DOMAIN frames :
                            Outranks(k, l) /\ frames[i].vector = IrqVector(k)
=============================================================================
