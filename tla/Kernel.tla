-------------------------------- MODULE Kernel --------------------------------
(***************************************************************************)
(* The running kernel: kmain of kernel/main.c from boot to its last loop,  *)
(* interrupted by the timer, the keyboard and the PCI line, and the        *)
(* program kmain starts, which calls syscall_handler of kernel/syscall.c.  *)
(* The module conjoins the actions of Interrupts with those of the drivers *)
(* whose handlers they run.                                                *)
(***************************************************************************)
EXTENDS Interrupts, Timer, Keyboard

CONSTANTS Disks,       \* what kmain may find on the disk, see below
          EthDevices,  \* how many Ethernet devices network_setup may find
          Syscalls     \* the system calls the program makes

TimerLine == 0
KbdLine == 1
PciLine == 10

\* "stub": dev/ide.c as it is, whose sector functions do nothing and which
\* never calls kssfs_init.  The others are what a disk driver behind these
\* stubs would find: no file "init", an init that is no KOM file, a program.
ASSUME KernelAssumption ==
    /\ Disks # {} /\ Disks \subseteq {"stub", "noinit", "notkom", "program"}
    /\ EthDevices \subseteq Nat
    /\ Syscalls \subseteq {0, 1, 2, 3, 4, 259, 260}
    /\ KbdLine \in Lines /\ Lines \subseteq {TimerLine, KbdLine, PciLine}
    /\ Registrations = {<<127, "syscall_handler">>, <<32, "timer_handler">>,
           <<33, "kbd_interrupt">>, <<42, "pci_irq_handler">>,
           <<46, "ide_handle_irq">>, <<47, "ide_handle_irq">>}

VARIABLES kpc,   \* the call of kmain that is next
          ps2,   \* the PS/2 controller answers kbd_setup
          eth,   \* the Ethernet devices network_setup has yet to look at
          s,     \* the sleeps left while it waits for a link
          edge,  \* the keyboard controller is about to raise its line
          eax,   \* the number of the system call
          ebx,   \* the program's ebx
          regs   \* ebx in the copy of regs_t that syscall_handler gets

linkVars == <<eth, s>>
bootVars == <<kpc, ps2, linkVars>>
kernelVars == <<bootVars, edge, eax, ebx, regs>>
vars == <<intVars, timerVars, kbdVars, kernelVars>>

Final == {"returned", "halt", "kshell", "program"}

KernelInit ==
    /\ IntInit /\ TimerInit
    /\ KbdInit /\ wire = <<>>
    /\ kpc = "magic"
    /\ ps2 \in BOOLEAN
    /\ eth = 0 /\ s = 0
    /\ edge = FALSE
    /\ eax = -1 /\ ebx = "own" /\ regs = "own"

-----------------------------------------------------------------------------
(* The devices (external) *)

Running == kpc \notin {"magic", "returned"}

\* The timer and the devices on the PCI line.
RaiseLine(l) ==
    /\ Running
    /\ Raise(l)
    /\ UNCHANGED <<timerVars, kbdVars, kernelVars>>

\* The controller's line rises when a byte enters its empty output buffer.
KeyboardSends ==
    /\ int_handlers[IrqVector(KbdLine)] # NoHandler
    /\ SendSecond \/ \E k \in Keys, up \in BOOLEAN : SendKey(k, up)
    /\ edge' = (edge \/ wire = <<>>)
    /\ UNCHANGED <<intVars, timerVars, bootVars, eax, ebx, regs>>

RaiseKbd ==
    /\ edge
    /\ edge' = FALSE
    /\ Raise(KbdLine)
    /\ UNCHANGED <<timerVars, kbdVars, bootVars, eax, ebx, regs>>

-----------------------------------------------------------------------------
(* Interrupts and system calls *)

Deliver ==
    /\ \/ \E l \in Lines : Accept(l)
       \/ \E l \in {7, 15} : AcceptSpurious(l)
    /\ UNCHANGED <<timerVars, kbdVars, kernelVars>>

ProgramCalls(n) ==
    /\ kpc = "program"
    /\ SoftInt
    /\ eax' = n
    /\ regs' = ebx
    /\ UNCHANGED <<timerVars, kbdVars, bootVars, edge, ebx>>

Registered == int_handlers[Top.vector]

\* irq_handler with the function the table holds for the vector.  The byte
\* behind the one kbd_interrupt reads enters the buffer and raises the line
\* again; if the handler has read that one too, the request may be gone.
RunTimer ==
    /\ irq_handler
    /\ Registered = "timer_handler"
    /\ Tick
    /\ UNCHANGED <<kbdVars, kernelVars>>

RunKeyboard ==
    /\ irq_handler
    /\ Registered = "kbd_interrupt"
    /\ kbd_interrupt
    /\ edge' \in {edge \/ wire' # <<>>, edge \/ Len(wire) > 1}
    /\ UNCHANGED <<timerVars, bootVars, eax, ebx, regs>>

\* pci_irq_handler and ide_handle_irq only print; a vector without a handler
\* is only acknowledged.
RunOther ==
    /\ irq_handler
    /\ Registered \notin {"timer_handler", "kbd_interrupt"}
    /\ UNCHANGED <<timerVars, kbdVars, kernelVars>>

\* syscall_handler.  It gets regs_t by value from isr_handler, so what it
\* stores there is not what the stub restores.
syscall_handler ==
    \/ /\ eax = 2 /\ kbd_avail
       /\ kbd_pop
       /\ regs' = "event"
    \/ /\ eax = 2 /\ ~kbd_avail
       /\ regs' = "0xffff"
       /\ UNCHANGED kbdVars
    \/ /\ eax = 3 /\ kbd_avail
       /\ kbd_pop
       /\ regs' = "event"
    \/ /\ eax \notin {2, 3}
       /\ UNCHANGED <<kbdVars, regs>>

RunSyscall ==
    /\ isr_handler
    /\ Registered = "syscall_handler"
    /\ syscall_handler
    /\ UNCHANGED <<timerVars, bootVars, edge, eax, ebx>>

\* while(!kbd_avail()); with interrupts disabled.
InBlockingRead ==
    /\ ~InMain
    /\ Top.vector = SyscallVector /\ Top.stage = "entry" /\ eax = 3

BlockingReadSpins == InBlockingRead /\ ~kbd_avail /\ UNCHANGED vars

\* The stub restores the registers it saved on entry.
Return ==
    /\ StubReturn \/ Iret
    /\ UNCHANGED <<timerVars, kbdVars, kernelVars>>

-----------------------------------------------------------------------------
(* kmain *)

At(from, to) ==
    /\ InMain
    /\ kpc = from /\ kpc' = to
    /\ UNCHANGED <<ps2, eax, ebx, regs>>

Registers(from, to, v, h) ==
    /\ At(from, to)
    /\ int_regh(v, h)
    /\ UNCHANGED <<timerVars, kbdVars, linkVars, edge>>

Goes(from, to) ==
    /\ At(from, to)
    /\ UNCHANGED <<intVars, timerVars, kbdVars, linkVars, edge>>

\* The wrong magic: kmain returns and entry.asm halts with interrupts off.
\* Otherwise int_setup, which establishes IntInit, and multiboot_process.
CheckMagic == Goes("magic", "returned") \/ Goes("magic", "syscall_setup")

syscall_setup == Registers("syscall_setup", "timer_setup", SyscallVector, "syscall_handler")
timer_setup == Registers("timer_setup", "kbd_setup", IrqVector(TimerLine), "timer_handler")

\* Mutation: the handler is registered for the wrong line.
kbd_setupWrongLine ==
    \/ ps2 /\ Goes("kbd_setup", "pci_setup")
    \/ /\ At("kbd_setup", "pci_setup")
       /\ int_regh(IrqVector(12), "kbd_interrupt")
       /\ wire' = <<Ack>> /\ follow' = SelfTestOk
       /\ edge' = TRUE
       /\ UNCHANGED <<timerVars, linkVars, driverVars, held, popped>>

\* kbd_setup polls the controller before every command and for every answer,
\* up to the command before int_regh: one that stops answering keeps kmain
\* here.  It returns early when a self test fails; otherwise it enables the
\* port, resets the keyboard and registers the handler.  ethernet_setup.
kbd_setup ==
    \/ ps2 /\ Goes("kbd_setup", "pci_setup")
    \/ /\ ps2
       /\ At("kbd_setup", "pci_setup")
       /\ int_regh(IrqVector(KbdLine), "kbd_interrupt")
       /\ wire' = <<Ack>> /\ follow' = SelfTestOk
       /\ edge' = TRUE
       /\ ctrl' = 0 /\ alt' = 0 /\ shift' = 0
       /\ kbd_stack' = [k \in 0..(StackSize - 1) |-> ZeroEvent]
       /\ UNCHANGED <<timerVars, linkVars, kbd_stack_sp, held, popped>>

\* pci_setup, and ide_init for the controller it may find.
\* ide_channel_setnative sleeps when the channel is not in native mode
\* (interrupts are off, so the sleep ends only if __sleep returns at once)
\* and may fail; then the driver takes the PCI line or the two legacy lines.
pci_setup == Registers("pci_setup", "ide_mode", IrqVector(PciLine), "pci_irq_handler")

ide_init ==
    \/ \E to \in {"ide_sleep", "ide_int", "sti"} : Goes("ide_mode", to)
    \/ NoPit /\ \E to \in {"ide_int", "sti"} : Goes("ide_sleep", to)
    \/ Goes("ide_int", "sti")
    \/ Registers("ide_int", "ide_int2", IrqVector(14), "ide_handle_irq")
    \/ Registers("ide_int2", "sti", IrqVector(15), "ide_handle_irq")

kmain_sti ==
    /\ At("sti", "network_setup")
    /\ Sti /\ EnableInterrupts
    /\ UNCHANGED <<kbdVars, linkVars, edge>>

\* network_setup, as far as its waiting goes: unless the network is disabled,
\* it asks each Ethernet device's is_up until the link is up or three sleeps
\* are over.
FindDevices ==
    /\ At("network_setup", "devices")
    /\ eth' \in EthDevices
    /\ UNCHANGED <<intVars, timerVars, kbdVars, s, edge>>

NextDevice ==
    /\ eth > 0
    /\ At("devices", "link")
    /\ eth' = eth - 1 /\ s' = 3
    /\ UNCHANGED <<intVars, timerVars, kbdVars, edge>>

LinkSleep ==
    /\ s > 0
    /\ IF NoPit
       THEN At("link", "link") /\ s' = s - 1 /\ UNCHANGED timerVars
       ELSE /\ At("link", "link_sleep") /\ UNCHANGED s
            /\ \E n \in SleepArgs : __sleep(n)
    /\ UNCHANGED <<intVars, kbdVars, eth, edge>>

LinkSlept ==
    /\ \/ At("link_sleep", "link_sleep") /\ ComputeDeadline /\ UNCHANGED s
       \/ At("link_sleep", "link") /\ SleepReturns /\ s' = s - 1
    /\ UNCHANGED <<intVars, kbdVars, eth, edge>>

LinkUpOrTimeout ==
    /\ At("link", "devices")
    /\ s' = 0
    /\ UNCHANGED <<intVars, timerVars, kbdVars, eth, edge>>

network_setup ==
    \/ FindDevices \/ NextDevice \/ LinkSleep \/ LinkSlept \/ LinkUpOrTimeout
    \/ Goes("network_setup", "kssfs_avail")
    \/ eth = 0 /\ Goes("devices", "kssfs_avail")

\* What is on the disk is settled where kmain looks at it.
kssfs_avail ==
    \/ "stub" \in Disks /\ Goes("kssfs_avail", "halt")
    \/ Disks # {"stub"} /\ Goes("kssfs_avail", "kssfs_read_file")

kssfs_read_file ==
    \/ "noinit" \in Disks /\ Goes("kssfs_read_file", "kshell")
    \/ Disks \cap {"notkom", "program"} # {} /\ Goes("kssfs_read_file", "kbd_reset")

kmain_kbd_reset ==
    /\ At("kbd_reset", "signature")
    /\ kbd_reset
    /\ UNCHANGED <<intVars, timerVars, linkVars, edge>>

CheckSignature ==
    \/ "program" \in Disks /\ Goes("signature", "program")
    \/ "notkom" \in Disks /\ Goes("signature", "halt")

\* A program may return from jmp_to_init.
ProgramReturns == Goes("program", "halt")

kmain ==
    \/ CheckMagic \/ syscall_setup \/ timer_setup \/ kbd_setup \/ pci_setup
    \/ ide_init \/ kmain_sti \/ network_setup \/ kssfs_avail
    \/ kssfs_read_file \/ kmain_kbd_reset \/ CheckSignature \/ ProgramReturns

\* The loops kmain, kshell_main and init/init.asm end in, and entry.asm's;
\* and the loops of __sleep and of the PS/2 polls.
Loops ==
    /\ InMain
    /\ kpc \in Final \cup {"ide_sleep", "link_sleep", "kbd_setup"}
    /\ kpc = "kbd_setup" => ~ps2
    /\ UNCHANGED vars

KernelNext ==
    \/ \E l \in Lines \ {KbdLine} : RaiseLine(l)
    \/ KeyboardSends \/ RaiseKbd
    \/ Deliver
    \/ \E n \in Syscalls : ProgramCalls(n)
    \/ RunTimer \/ RunKeyboard \/ RunOther
    \/ RunSyscall \/ BlockingReadSpins
    \/ Return
    \/ kmain
    \/ Loops

KernelSpec == KernelInit /\ [][KernelNext]_vars

\* The processor executes; the timer keeps ticking; the controllers raise and deliver what they hold
\* (spurious interrupts do not crowd out a request); ticks, 10 ms apart,
\* leave times when interrupts are on and no tick is pending, and leave
\* kmain time to go on.
KernelFairness ==
    /\ \A l \in Lines \cap {TimerLine} : WF_vars(RaiseLine(l))
    /\ WF_vars(RaiseKbd)
    /\ \A l \in Lines : SF_vars(Deliver /\ Accept(l))
    /\ []<>(iflag = "on") => []<>(iflag = "on" /\ TimerLine \notin irr)
    /\ WF_vars(RunTimer \/ RunKeyboard \/ RunOther \/ RunSyscall)
    /\ WF_vars(Return)
    /\ SF_vars(kmain /\ kpc # "program")

KernelFairSpec == KernelSpec /\ KernelFairness

-----------------------------------------------------------------------------
(* Properties *)

\* Booting ends when the PS/2 controller answers its polls, which have no
\* limit: no failed self test, no sleep before or after sti, with ticks
\* between its steps and deadlines that wrap, and no Ethernet device whose
\* link stays down keeps kmain from its last loop.
BootEnds == ps2 => <>(kpc \in Final)

\* No keyboard interrupt is lost: a byte in the controller is read, or the
\* handler runs, or a program sits in the blocking read, which disables
\* interrupts.  In particular the bytes that arrive before kmain's sti.
KeyIsHandled ==
    wire # <<>> ~> \/ wire = <<>>
                   \/ InBlockingRead
                   \/ ~InMain /\ Top.vector = IrqVector(KbdLine)

-----------------------------------------------------------------------------
(* What comments of the code say *)

\* syscall.c: call 2 "returns 0xffff if there's no available key".
NonBlockingReadReturns ==
    [][Return /\ frames' = <<>> /\ ~InMain /\ Top.vector = SyscallVector
           /\ eax = 2 /\ regs = "0xffff" => ebx' = "0xffff"]_vars

\* syscall.c: call 3, "read keyboard (blocking)", returns once a key is
\* pressed.
BlockingReadReturns ==
    InBlockingRead /\ (\E j \in DOMAIN wire : wire[j] \in Keys) ~> ~InBlockingRead
=============================================================================
