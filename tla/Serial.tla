-------------------------------- MODULE Serial --------------------------------
(***************************************************************************)
(* The serial port of dev/serial.c, to which put copies every character    *)
(* once the port is set up.  kmain prints with interrupts on: a handler    *)
(* that prints may run between any two of its port accesses, and runs to   *)
(* its end with interrupts off.  The UART (external) has a FIFO that it    *)
(* empties at its own pace; a byte written to a full FIFO is lost.         *)
(***************************************************************************)
EXTENDS Integers, Sequences, SequencesExt

CONSTANTS Depth,      \* bytes in the FIFO, 16
          Texts,      \* what kmain prints
          IsrTexts,   \* what the handlers print
          MaxTexts, MaxIsrTexts  \* bounds on how often they do

CR == "cr"
LF == "lf"

\* Four bytes are the most that are under way at a time; the messages of the
\* handlers are lines.
ASSUME SerialAssumption ==
    /\ Depth \in Nat /\ Depth >= 4
    /\ Texts \cup IsrTexts \subseteq Seq(STRING) \ {<<>>}
    /\ \A s \in IsrTexts : \A k \in DOMAIN s : s[k] = LF <=> k = Len(s)
    /\ MaxTexts \in Nat /\ MaxIsrTexts \in Nat

VARIABLES serial_status,  \* serial_status[0], as a BOOLEAN
          uart,           \* the registers of COM1
          fifo,           \* the bytes waiting in it, each with its printer
          wire,           \* history: the bytes sent
          printer,        \* per process: its place in serial_write, the rest of its text
          said            \* history: per process, the texts it has printed

serialVars == <<serial_status, uart, fifo, wire, printer, said>>

Printers == {"main", "isr"}

SerialInit ==
    /\ serial_status = FALSE
    /\ uart \in [divisor : {<<12, 0>>}, ier : {0}, lcr : {0}, fcr : {0}, mcr : {0}]
    /\ fifo = <<>> /\ wire = <<>>
    /\ printer = [p \in Printers |-> [pc |-> "idle", s |-> <<>>]]
    /\ said = [p \in Printers |-> <<>>]

-----------------------------------------------------------------------------
(* Setting the port up *)

\* outb(hwport + reg, v).  With the top bit of the line control register
\* set, the DLAB, registers 0 and 1 are the two bytes of the divisor.
DLAB(u) == u.lcr >= 128

Out(u, w) ==
    LET reg == w[1]  v == w[2] IN
    CASE reg = 0 /\ DLAB(u)  -> [u EXCEPT !.divisor[1] = v]
      [] reg = 1 /\ DLAB(u)  -> [u EXCEPT !.divisor[2] = v]
      [] reg = 1 /\ ~DLAB(u) -> [u EXCEPT !.ier = v]
      [] reg = 2 -> [u EXCEPT !.fcr = v]
      [] reg = 3 -> [u EXCEPT !.lcr = v]
      [] reg = 4 -> [u EXCEPT !.mcr = v]
      [] OTHER -> u

\* serial_setup clears the four status bytes first.  Bits 1 and 2 of 0xC7
\* empty the FIFOs.
serial_setup_port ==
    /\ serial_status' = TRUE
    /\ uart' = FoldLeft(Out, uart, <<<<1, 0>>, <<3, 128>>, <<0, 1>>, <<1, 0>>, <<3, 3>>,
                                     <<2, 199>>, <<4, 11>>>>)
    /\ fifo' = <<>>

-----------------------------------------------------------------------------
(* Printing *)

serial_enabled == serial_status

IdlePrinter(p) == printer[p].pc = "idle"

Starts(p, s) ==
    /\ printer' = [printer EXCEPT ![p] = [pc |-> "poll", s |-> s]]
    /\ said' = [said EXCEPT ![p] = @ \o s]
    /\ UNCHANGED <<serial_status, uart, fifo, wire>>

\* puts of kmain, and of a handler that interrupts it anywhere.
Puts(s) ==
    /\ serial_enabled
    /\ IdlePrinter("main") /\ IdlePrinter("isr")
    /\ Len(said["main"]) < MaxTexts
    /\ Starts("main", s)

IsrPuts(s) ==
    /\ serial_enabled
    /\ IdlePrinter("isr")
    /\ Len(said["isr"]) < MaxIsrTexts
    /\ Starts("isr", s)

outb(p, c) ==
    fifo' = IF Len(fifo) < Depth THEN Append(fifo, <<p, c>>) ELSE fifo

Goto(p, pc) == printer' = [printer EXCEPT ![p].pc = pc]

\* The character is done.
Done(p) ==
    LET rest == Tail(printer[p].s)
    IN  printer' = [printer EXCEPT ![p] = [pc |-> IF rest = <<>> THEN "idle" ELSE "poll",
                                           s |-> rest]]

\* The wrong bit of the line status, and no test at all.
serial_emptyInverted == fifo # <<>>
serial_emptyIgnored == TRUE

\* Transmitter holding register empty, bit 5 of the line status.
serial_empty == fifo = <<>>

serial_write(p) ==
    LET c == Head(printer[p].s) IN
    /\ p = "isr" \/ IdlePrinter("isr")
    /\ \/ printer[p].pc = "poll" /\ serial_empty /\ Goto(p, "out") /\ UNCHANGED fifo
       \/ printer[p].pc = "out" /\ c = LF /\ outb(p, CR) /\ Goto(p, "out2")
       \/ printer[p].pc = "out2" /\ outb(p, LF) /\ Done(p)
       \/ printer[p].pc = "out" /\ c # LF /\ outb(p, c) /\ Done(p)
    /\ UNCHANGED <<serial_status, uart, wire, said>>

\* The UART shifts a byte out.
UartSends ==
    /\ fifo # <<>>
    /\ wire' = Append(wire, Head(fifo))
    /\ fifo' = Tail(fifo)
    /\ UNCHANGED <<serial_status, uart, printer, said>>

SerialNext ==
    \/ \E s \in Texts : Puts(s)
    \/ \E s \in IsrTexts : IsrPuts(s)
    \/ \E p \in Printers : serial_write(p)
    \/ UartSends

\* The processor executes, also while a handler prints now and then, and
\* the UART sends.
SerialFairness ==
    /\ \A p \in Printers : WF_serialVars(serial_write(p))
    /\ WF_serialVars(UartSends)

-----------------------------------------------------------------------------
(* Properties *)

Expanded(s) == FoldLeft(LAMBDA t, c : t \o IF c = LF THEN <<CR, LF>> ELSE <<c>>, <<>>, s)

\* The line carries all that each process printed, in order and with a
\* carriage return before every newline: although serial_write tests the FIFO
\* once for the two bytes of a newline and a handler may print between the
\* test and the bytes, none is lost.  A handler's message stays in one piece.
LineKeepsText ==
    LET sent == wire \o fifo
    IN  /\ \A p \in Printers :
               LET own   == SelectSeq(sent, LAMBDA b : b[1] = p)
                   bytes == [k \in DOMAIN own |-> own[k][2]]
               IN  /\ IsPrefix(bytes, Expanded(said[p]))
                   /\ IdlePrinter(p) => bytes = Expanded(said[p])
        /\ \A k \in 2 .. Len(sent) :
               sent[k][1] = "main" /\ sent[k - 1][1] = "isr" => sent[k - 1][2] = LF

\* The polling loop of serial_write ends: what is being printed is printed
\* and sent, however handlers and kmain wait for the same FIFO.
PrintingEnds ==
    \A p \in Printers : ~IdlePrinter(p) ~> IdlePrinter(p) /\ fifo = <<>>
=============================================================================
