------------------------------ MODULE BootProofs ------------------------------
(***************************************************************************)
(* The heap of Memory inside the boot of Boot, and the serial port's FIFO. *)
(***************************************************************************)
EXTENDS Boot, MemoryProofs

\* For every boot information, options and printing around it, and every map in
\* it whose available entries end by 4 GiB: the heap that multiboot_process has
\* set up is the map's largest available entry, and the blocks the kernel gets
\* from it do not overlap and lie inside it, but for the last.
THEOREM BootHeapSafety ==
    BootSpec => [](HeapIsLargestEntry /\ BlocksDisjoint /\ OnlyLastBlockOverruns)
<1>1. BootInit => MemInit
  BY DEF BootInit
<1>2. [BootNext]_bootVars => [MemNext]_memVars
  BY DEF BootNext, bootVars, WalkTags, ReadMap, Allocate, PrintSerial, MemNext
<1> QED
  BY <1>1, <1>2, HeapSafety, PTL DEF BootSpec, MemSpec

-----------------------------------------------------------------------------
(* The FIFO of the serial port *)

\* The bytes a process may still write after it has seen the FIFO empty.
Owed(p) == CASE printer[p].pc = "out"  -> 2
             [] printer[p].pc = "out2" -> 1
             [] OTHER                  -> 0

\* What goes to the port: what is printed, and the two bytes of a new line.
Octet == STRING \cup {CR, LF}

Printing == [pc : {"idle", "poll", "out", "out2"}, s : Seq(STRING)]

SerialTypeOK ==
    /\ fifo \in Seq(Printers \X Octet)
    /\ printer \in [Printers -> Printing]
    /\ \A p \in Printers : IdlePrinter(p) \/ printer[p].s # <<>>

\* What is in the FIFO and what is owed to it are never more than four bytes.
SerialInv == SerialTypeOK /\ Len(fifo) + Owed("main") + Owed("isr") <= 4

\* outb never meets a full FIFO, in serial_write of kmain and of a handler
\* that has interrupted it between its test of the FIFO and its bytes.
FifoNeverFull ==
    \A p \in Printers : printer[p].pc \in {"out", "out2"} => Len(fifo) < Depth

LEMMA SerialInvInit == SerialInit => SerialInv
  BY DEF SerialInit, SerialInv, SerialTypeOK, Printing, Printers, Owed, IdlePrinter

LEMMA SetupKeepsInv ==
    ASSUME SerialInv, fifo' = <<>>, UNCHANGED printer
    PROVE  SerialInv'
<1>1. Len(fifo) >= 0 /\ Len(fifo) \in Int
  BY DEF SerialInv, SerialTypeOK
<1>2. Owed("main")' = Owed("main") /\ Owed("isr")' = Owed("isr")
  BY DEF Owed
<1>3. Owed("main") \in Int /\ Owed("isr") \in Int
  BY DEF Owed
<1>4. Len(fifo)' = 0
  OBVIOUS
<1>5. SerialTypeOK'
  BY DEF SerialInv, SerialTypeOK, IdlePrinter
<1> QED
  BY <1>1, <1>2, <1>3, <1>4, <1>5 DEF SerialInv

LEMMA PutsKeepsInv ==
    ASSUME SerialInv, NEW p \in Printers, IdlePrinter(p), NEW s \in Texts \cup IsrTexts,
           Starts(p, s)
    PROVE  SerialInv'
<1> USE SerialAssumption DEF Printers
<1>1. printer' = [printer EXCEPT ![p] = [pc |-> "poll", s |-> s]] /\ fifo' = fifo
  BY DEF Starts
<1>2. SerialTypeOK'
  BY <1>1 DEF SerialInv, SerialTypeOK, Printing, IdlePrinter
<1>3. \A q \in Printers : Owed(q)' = Owed(q)
  BY <1>1 DEF SerialInv, SerialTypeOK, Owed, IdlePrinter, Printing
<1> QED
  BY <1>1, <1>2, <1>3 DEF SerialInv

LEMMA WriteKeepsInv ==
    ASSUME SerialInv, NEW p \in Printers, serial_write(p)
    PROVE  SerialInv'
<1> USE SerialAssumption DEF Printers
<1>q. PICK q \in Printers : q # p
  OBVIOUS
<1>t. /\ SerialTypeOK /\ Len(fifo) \in Nat
      /\ printer[p] \in Printing /\ printer[q] \in Printing
      /\ printer \in [Printers -> Printing]
  BY DEF SerialInv, SerialTypeOK
<1>n. Owed(p) \in Nat /\ Owed(q) \in Nat
  BY DEF Owed
<1>0. Len(fifo) + Owed(p) + Owed(q) <= 4
  <2>1. CASE p = "main" /\ q = "isr"
    BY <2>1 DEF SerialInv
  <2>2. CASE p = "isr" /\ q = "main"
    BY <1>n, <1>t, <2>2 DEF SerialInv
  <2> QED
    BY <1>q, <2>1, <2>2
<1>s. SUFFICES /\ SerialTypeOK'
               /\ Len(fifo') + Owed(p)' + Owed(q)' <= 4
               /\ Owed(p)' \in Nat /\ Owed(q)' \in Nat /\ Len(fifo') \in Nat
  <2>1. CASE p = "main" /\ q = "isr"
    BY <2>1 DEF SerialInv
  <2>2. CASE p = "isr" /\ q = "main"
    BY <2>2 DEF SerialInv
  <2> QED
    BY <1>q, <2>1, <2>2
<1> DEFINE c == Head(printer[p].s)
           rest == Tail(printer[p].s)
<1>g. ASSUME NEW pc \in {"out", "out2"}, Goto(p, pc), printer[p].pc # "idle"
      PROVE  /\ printer' \in [Printers -> Printing]
             /\ printer'[p].pc = pc /\ printer'[q] = printer[q]
             /\ \A r \in Printers : printer'[r].pc = "idle" \/ printer'[r].s # <<>>
  BY <1>g, <1>q, <1>t DEF Goto, SerialTypeOK, Printing, IdlePrinter
<1>d. ASSUME Done(p), printer[p].pc # "idle"
      PROVE  /\ printer' \in [Printers -> Printing]
             /\ printer'[p].pc \in {"idle", "poll"} /\ printer'[q] = printer[q]
             /\ \A r \in Printers : printer'[r].pc = "idle" \/ printer'[r].s # <<>>
  <2>1. printer[p].s \in Seq(STRING) /\ printer[p].s # <<>>
    BY <1>t, <1>d DEF SerialTypeOK, Printing, IdlePrinter
  <2>2. rest \in Seq(STRING)
    BY <2>1, HeadTailProperties
  <2>3. printer' = [printer EXCEPT ![p] = [pc |-> IF rest = <<>> THEN "idle" ELSE "poll",
                                           s |-> rest]]
    BY <1>d DEF Done
  <2> QED
    BY <1>q, <1>t, <2>2, <2>3 DEF SerialTypeOK, Printing, IdlePrinter
<1>o. ASSUME NEW b \in Octet, outb(p, b)
      PROVE  fifo' \in Seq(Printers \X Octet) /\ Len(fifo') \in Nat /\ Len(fifo') <= Len(fifo) + 1
  BY <1>o, <1>t DEF outb, SerialTypeOK
<1>1. CASE printer[p].pc = "poll" /\ serial_empty /\ Goto(p, "out") /\ UNCHANGED fifo
  <2>1. Owed(p)' = 2 /\ Owed(q)' = Owed(q) /\ Owed(q) <= 2
    BY <1>1, <1>g DEF Owed
  <2>2. fifo' = <<>> /\ Len(fifo') = 0
    BY <1>1 DEF serial_empty
  <2>3. SerialTypeOK'
    BY <1>1, <1>g, <1>t DEF SerialTypeOK, IdlePrinter
  <2> QED
    BY <1>n, <2>1, <2>2, <2>3
<1>2. CASE printer[p].pc = "out" /\ c = LF /\ outb(p, CR) /\ Goto(p, "out2")
  <2>1. Owed(p)' = 1 /\ Owed(p) = 2 /\ Owed(q)' = Owed(q)
    BY <1>2, <1>g DEF Owed
  <2>2. fifo' \in Seq(Printers \X Octet) /\ Len(fifo') \in Nat /\ Len(fifo') <= Len(fifo) + 1
    <3>1. CR \in Octet
      BY DEF Octet
    <3> QED
      BY <1>o, <1>2, <3>1
  <2>3. SerialTypeOK'
    BY <1>2, <1>g, <2>2 DEF SerialTypeOK, IdlePrinter
  <2> QED
    BY <1>0, <1>n, <1>t, <2>1, <2>2, <2>3
<1>3. CASE printer[p].pc = "out2" /\ outb(p, LF) /\ Done(p)
  <2>1. Owed(p)' = 0 /\ Owed(p) = 1 /\ Owed(q)' = Owed(q)
    BY <1>3, <1>d DEF Owed
  <2>2. fifo' \in Seq(Printers \X Octet) /\ Len(fifo') \in Nat /\ Len(fifo') <= Len(fifo) + 1
    <3>1. LF \in Octet
      BY DEF Octet
    <3> QED
      BY <1>o, <1>3, <3>1
  <2>3. SerialTypeOK'
    BY <1>3, <1>d, <2>2 DEF SerialTypeOK, IdlePrinter
  <2> QED
    BY <1>0, <1>n, <1>t, <2>1, <2>2, <2>3
<1>4. CASE printer[p].pc = "out" /\ c # LF /\ outb(p, c) /\ Done(p)
  <2>1. Owed(p)' = 0 /\ Owed(p) = 2 /\ Owed(q)' = Owed(q)
    BY <1>4, <1>d DEF Owed
  <2>2. c \in Octet
    BY <1>t, <1>4 DEF Octet, SerialTypeOK, Printing, IdlePrinter
  <2>3. fifo' \in Seq(Printers \X Octet) /\ Len(fifo') \in Nat /\ Len(fifo') <= Len(fifo) + 1
    BY <1>o, <1>4, <2>2
  <2>4. SerialTypeOK'
    BY <1>4, <1>d, <2>3 DEF SerialTypeOK, IdlePrinter
  <2> QED
    BY <1>0, <1>n, <1>t, <2>1, <2>3, <2>4
<1> QED
  BY <1>1, <1>2, <1>3, <1>4 DEF serial_write

LEMMA SendKeepsInv ==
    ASSUME SerialInv, UartSends
    PROVE  SerialInv'
<1>1. fifo \in Seq(Printers \X Octet) /\ fifo # <<>>
  BY DEF SerialInv, SerialTypeOK, UartSends
<1>2. fifo' \in Seq(Printers \X Octet) /\ Len(fifo') \in Nat /\ Len(fifo') <= Len(fifo)
  BY <1>1 DEF UartSends
<1>3. UNCHANGED printer
  BY DEF UartSends
<1>4. Owed("main")' = Owed("main") /\ Owed("isr")' = Owed("isr")
      /\ Owed("main") \in Nat /\ Owed("isr") \in Nat
  BY <1>3 DEF Owed
<1> QED
  BY <1>1, <1>2, <1>3, <1>4 DEF SerialInv, SerialTypeOK, IdlePrinter

LEMMA BootKeepsSerialInv == SerialInv /\ [BootNext]_bootVars => SerialInv'
<1> SUFFICES ASSUME SerialInv, [BootNext]_bootVars
             PROVE  SerialInv'
  OBVIOUS
<1>1. CASE UNCHANGED <<fifo, printer>>
  BY <1>1 DEF SerialInv, SerialTypeOK, Owed, IdlePrinter
<1>2. CASE WalkTags
  <2>1. \/ UNCHANGED <<fifo, printer>>
        \/ fifo' = <<>> /\ UNCHANGED printer
    BY <1>2 DEF WalkTags, CommandWord, RunCommand, OtherTag, _cmdline_serial,
                _cmdline_network, serial_setup_port, serialVars
  <2> QED
    BY <1>1, <2>1, SetupKeepsInv
<1>3. CASE PrintSerial
  BY <1>3, PutsKeepsInv, WriteKeepsInv, SendKeepsInv
     DEF PrintSerial, SerialNext, Puts, IsrPuts, Printers
<1>4. CASE ReadMap \/ Allocate \/ UNCHANGED bootVars
  BY <1>1, <1>4 DEF ReadMap, Allocate, bootVars, serialVars
<1> QED
  BY <1>2, <1>3, <1>4 DEF BootNext

\* For a FIFO of four bytes or more, any texts and any number of interrupts,
\* the bytes that LineKeepsText follows on the line are never dropped.
THEOREM SerialLosesNothing == BootSpec => []FifoNeverFull
<1>1. BootInit => SerialInv
  BY SerialInvInit DEF BootInit
<1>2. SerialInv => FifoNeverFull
  <2> SUFFICES ASSUME SerialInv, NEW p \in Printers, printer[p].pc \in {"out", "out2"}
               PROVE  Len(fifo) < Depth
    BY DEF FifoNeverFull
  <2>1. Owed(p) >= 1 /\ Owed("main") \in Nat /\ Owed("isr") \in Nat
    BY DEF Owed
  <2>2. Len(fifo) \in Nat
    BY DEF SerialInv, SerialTypeOK
  <2> QED
    BY <2>1, <2>2, SerialAssumption DEF SerialInv, Printers
<1> QED
  BY <1>1, <1>2, BootKeepsSerialInv, PTL DEF BootSpec
=============================================================================
