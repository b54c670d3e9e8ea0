----------------------------- MODULE KernelProofs -----------------------------
(***************************************************************************)
(* The kernel takes only steps of Interrupts, so it inherits what is       *)
(* proved there: for every set of devices, programs and disks.             *)
(***************************************************************************)
EXTENDS Kernel, InterruptsProofs

\* Registering one of the kernel's handlers is a step of Interrupts.
LEMMA RegistersSteps ==
    ASSUME NEW r \in Registrations, int_regh(r[1], r[2])
    PROVE  IntNext
  BY DEF IntNext

LEMMA kmainSteps ==
    ASSUME kmain
    PROVE  IntNext \/ UNCHANGED intVars
  <1>1. ASSUME NEW from, NEW to, Goes(from, to) PROVE UNCHANGED intVars
    BY <1>1 DEF Goes
  <1>2. ASSUME NEW from, NEW to, NEW r \in Registrations, Registers(from, to, r[1], r[2])
        PROVE  IntNext
    BY <1>2, RegistersSteps DEF Registers
  <1>3. /\ <<127, "syscall_handler">> \in Registrations
        /\ <<32, "timer_handler">> \in Registrations
        /\ <<33, "kbd_interrupt">> \in Registrations
        /\ <<42, "pci_irq_handler">> \in Registrations
        /\ <<46, "ide_handle_irq">> \in Registrations
        /\ <<47, "ide_handle_irq">> \in Registrations
    BY KernelAssumption
  <1>4. /\ SyscallVector = 127 /\ IrqVector(TimerLine) = 32 /\ IrqVector(KbdLine) = 33
        /\ IrqVector(PciLine) = 42 /\ IrqVector(14) = 46 /\ IrqVector(15) = 47
    BY DEF SyscallVector, IrqVector, TimerLine, KbdLine, PciLine
  <1>5. CASE syscall_setup
    <2>1. Registers("syscall_setup", "timer_setup", 127, "syscall_handler")
      BY <1>4, <1>5 DEF syscall_setup
    <2> QED BY <1>2, <1>3, <2>1
  <1>6. CASE timer_setup
    <2>1. Registers("timer_setup", "kbd_setup", 32, "timer_handler")
      BY <1>4, <1>6 DEF timer_setup
    <2> QED BY <1>2, <1>3, <2>1
  <1>7. CASE kbd_setup
    <2>1. CASE Goes("kbd_setup", "pci_setup")
      BY <1>1, <2>1
    <2>2. CASE int_regh(IrqVector(KbdLine), "kbd_interrupt")
      <3>1. int_regh(33, "kbd_interrupt")
        BY <1>4, <2>2
      <3> QED BY <1>3, <3>1, RegistersSteps
    <2> QED BY <1>7, <2>1, <2>2 DEF kbd_setup
  <1>8. CASE pci_setup
    <2>1. Registers("pci_setup", "ide_mode", 42, "pci_irq_handler")
      BY <1>4, <1>8 DEF pci_setup
    <2> QED BY <1>2, <1>3, <2>1
  <1>9. CASE ide_init
    <2>1. CASE Registers("ide_int", "ide_int2", IrqVector(14), "ide_handle_irq")
      <3>1. Registers("ide_int", "ide_int2", 46, "ide_handle_irq")
        BY <1>4, <2>1
      <3> QED BY <1>2, <1>3, <3>1
    <2>2. CASE Registers("ide_int2", "sti", IrqVector(15), "ide_handle_irq")
      <3>1. Registers("ide_int2", "sti", 47, "ide_handle_irq")
        BY <1>4, <2>2
      <3> QED BY <1>2, <1>3, <3>1
    <2> QED BY <1>1, <1>9, <2>1, <2>2 DEF ide_init
  <1>10. CASE kmain_sti
    BY <1>10 DEF kmain_sti, IntNext
  <1>11. CASE kmain_kbd_reset
    BY <1>11 DEF kmain_kbd_reset
  <1>12. CASE network_setup
    BY <1>1, <1>12 DEF network_setup, FindDevices, NextDevice, LinkSleep, LinkSlept,
                       LinkUpOrTimeout
  <1>13. CASE CheckMagic \/ kssfs_avail \/ kssfs_read_file
              \/ CheckSignature \/ ProgramReturns
    BY <1>1, <1>13 DEF CheckMagic, kssfs_avail, kssfs_read_file,
                       CheckSignature, ProgramReturns
  <1> QED
    BY <1>5, <1>6, <1>7, <1>8, <1>9, <1>10, <1>11, <1>12, <1>13 DEF kmain

LEMMA KernelSteps == KernelNext \/ UNCHANGED vars => IntNext \/ UNCHANGED intVars
  <1> SUFFICES ASSUME KernelNext \/ UNCHANGED vars
               PROVE  IntNext \/ UNCHANGED intVars
    OBVIOUS
  <1>0. ASSUME NEW l \in Lines, RaiseLine(l) PROVE IntNext
    BY <1>0 DEF RaiseLine, IntNext
  <1>1. CASE RaiseKbd
    BY <1>1, KernelAssumption DEF RaiseKbd, IntNext
  <1>2. CASE KeyboardSends
    BY <1>2 DEF KeyboardSends
  <1>3. CASE Deliver
    BY <1>3 DEF Deliver, IntNext
  <1>4. ASSUME NEW n \in Syscalls, ProgramCalls(n) PROVE IntNext
    BY <1>4 DEF ProgramCalls, IntNext
  <1>5. CASE RunTimer \/ RunKeyboard \/ RunOther \/ RunSyscall
    BY <1>5 DEF RunTimer, RunKeyboard, RunOther, RunSyscall, IntNext
  <1>6. CASE BlockingReadSpins \/ Loops \/ UNCHANGED vars
    BY <1>6 DEF BlockingReadSpins, Loops, vars
  <1>7. CASE Return
    BY <1>7 DEF Return, IntNext
  <1>8. CASE kmain
    BY <1>8, kmainSteps
  <1> QED
    BY <1>0, <1>1, <1>2, <1>3, <1>4, <1>5, <1>6, <1>7, <1>8 DEF KernelNext

\* In the running kernel, for every set of devices, programs, disks and link
\* waits, a line never interrupts a handler, no line stays blocked and
\* every stub returns to its return address.
THEOREM KernelInterruptSafety ==
    KernelSpec => [](NoNestedIrq /\ InServiceOnlyInHandler /\ ReturnAddressOnTop)
  <1>1. KernelInit => IntInit
    BY DEF KernelInit
  <1>2. [KernelNext]_vars => [IntNext]_intVars
    BY KernelSteps
  <1> QED BY <1>1, <1>2, InterruptSafety, PTL DEF KernelSpec, IntSpec
=============================================================================
