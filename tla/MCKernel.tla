------------------------------- MODULE MCKernel -------------------------------
(* Small instances of Kernel for TLC. *)
EXTENDS Kernel

MCHandlers == {"timer_handler", "kbd_interrupt", "pci_irq_handler",
               "ide_handle_irq", "syscall_handler"}
MCRegistrations == {<<127, "syscall_handler">>, <<32, "timer_handler">>,
    <<33, "kbd_interrupt">>, <<42, "pci_irq_handler">>,
    <<46, "ide_handle_irq">>, <<47, "ide_handle_irq">>}
=============================================================================
