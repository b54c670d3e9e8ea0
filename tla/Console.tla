------------------------------- MODULE Console -------------------------------
(***************************************************************************)
(* The text terminal of kernel/text.c.  kmain prints with interrupts on    *)
(* while interrupt handlers print too (pci_irq_handler, ide_handle_int):   *)
(* every access of kmain to the cursor, the string-mode flag, the screen   *)
(* and the VGA cursor registers is a step of its own (scroll's copy of one *)
(* cell is one step), and a handler may run between any two.  Handlers and *)
(* system calls run to their end with interrupts off.                      *)
(*                                                                         *)
(* text_x++ and text_y++ are a load and a store: the incremented value is  *)
(* needed again for the comparison that follows.                           *)
(***************************************************************************)
EXTENDS Integers, Sequences

CONSTANTS MaxX, MaxY,    \* the size of the screen (80 x 25)
          ByteSize,      \* number of values of a BYTE (256)
          Window,        \* cells of video memory at TEXTMEM (16384)
          Chars,         \* the printable characters
          MainCalls, IsrStrings,  \* what kmain and the handlers print
          MaxOps, MaxIrqs  \* bounds on the calls and the interrupts

Newline == "newline"
Backspace == "backspace"
Blank == "blank"
Size == MaxX * MaxY
Char == Chars \cup {Newline, Backspace}

\* puts; put from putn2, putn10 and putn16; and, in syscall_handler with
\* interrupts off, puts_int (call 0) and put (call 260).
Fns == {"puts", "put", "puts_int", "sys_write"}
Masked == {"puts_int", "sys_write"}

\* The kernel itself prints no backspace.
ASSUME ConsoleAssumption ==
    /\ MaxX \in Nat /\ MaxX > 1 /\ MaxY \in Nat /\ MaxY > 1
    /\ ByteSize \in Nat /\ MaxX < ByteSize /\ MaxY + 1 < ByteSize
    /\ Window \in Nat /\ MaxY * MaxX + ByteSize <= Window
    /\ Chars \cap {Newline, Backspace, Blank} = {}
    /\ MainCalls \subseteq Fns \X Seq(Char)
    /\ \A c \in MainCalls : c[1] \notin Masked => c[2] \in Seq(Char \ {Backspace})
    /\ IsrStrings \subseteq Seq(Char \ {Backspace})
    /\ MaxOps \in Nat /\ MaxIrqs \in Nat

VARIABLES con,   \* text_x, text_y, strm, video memory, and the VGA's index
                 \* register and cursor bytes
          loc,   \* per process: where it is, its function, the rest of its
                 \* string, the values l and m it has loaded, its pointer a
          ops, irqs,  \* how many calls and interrupts there have been
          cut    \* history: a handler has printed since kmain's last call

conVars == <<con, loc, ops, irqs, cut>>

Procs == {"main", "isr"}
ConsoleInit ==
    /\ con = [x |-> 0, y |-> 0, strm |-> 0, index |-> 14, low |-> 0, high |-> 0,
              cells |-> [k \in 0..(Window - 1) |-> Blank]]
    /\ loc = [p \in Procs |-> [pc |-> "idle", fn |-> "end", s |-> <<>>,
                               l |-> 0, m |-> 0, a |-> 0]]
    /\ ops = 0 /\ irqs = 0 /\ cut = FALSE

-----------------------------------------------------------------------------
(* Calls and interrupts *)

Idle(p) == loc[p].pc = "idle"
Quiet == Idle("main") /\ Idle("isr")

Enter(p, fn, s) ==
    loc' = [loc EXCEPT ![p].fn = fn, ![p].s = s,
                       ![p].pc = IF fn \in {"puts", "puts_int"} THEN "strm" ELSE "char"]

Call(fn, s) ==
    /\ Quiet
    /\ Enter("main", fn, s)
    /\ ops < MaxOps /\ ops' = ops + 1
    /\ cut' = FALSE
    /\ UNCHANGED <<con, irqs>>

\* An interrupt whose handler prints s.
Interrupt(s) ==
    /\ Idle("isr")
    /\ Idle("main") \/ loc["main"].fn \notin Masked
    /\ Enter("isr", "puts", s)
    /\ irqs < MaxIrqs /\ irqs' = irqs + 1
    /\ cut' = TRUE
    /\ UNCHANGED <<con, ops>>

\* clear, only called by syscall_handler.
clear ==
    /\ Quiet
    /\ con' = [con EXCEPT !.cells = [k \in DOMAIN @ |-> Blank], !.x = 0, !.y = 0,
                          !.index = 14, !.low = 0, !.high = 0]
    /\ ops < MaxOps /\ ops' = ops + 1
    /\ cut' = FALSE
    /\ UNCHANGED <<loc, irqs>>

\* p goes from one place to another with the given effect on the shared
\* state and on its locals; kmain stands still while a handler runs.
Do(p, from, to, newCon, newLoc) ==
    /\ p = "isr" \/ Idle("isr")
    /\ loc[p].pc = from
    /\ con' = newCon
    /\ loc' = [loc EXCEPT ![p] = [newLoc EXCEPT !.pc = to]]
    /\ UNCHANGED <<ops, irqs, cut>>

-----------------------------------------------------------------------------
(* puts, puts_int and put *)

Loads(p, v) == [loc[p] EXCEPT !.l = v]
Rest(p) == [loc[p] EXCEPT !.s = Tail(@)]
Inc(p) == (loc[p].l + 1) % ByteSize

puts(p) ==
    \/ Do(p, "strm", "char", [con EXCEPT !.strm = 1], loc[p])
    \/ /\ loc[p].s = <<>>
       /\ \/ loc[p].fn = "puts" /\ Do(p, "char", "cursor", [con EXCEPT !.strm = 0],
                                      [loc[p] EXCEPT !.fn = "end"])
          \/ loc[p].fn = "puts_int" /\ Do(p, "char", "idle", [con EXCEPT !.strm = 0], loc[p])
          \/ loc[p].fn \in {"put", "sys_write"} /\ Do(p, "char", "idle", con, loc[p])

\* Mutation: a backspace at the start of a line goes one column too far.
BackspacedFar ==
    IF con.x > 0 THEN [con EXCEPT !.x = @ - 1]
    ELSE IF con.y > 0 THEN [con EXCEPT !.y = @ - 1, !.x = MaxX] ELSE con

\* Only a system call prints a backspace, so that case is one step.
Backspaced ==
    IF con.x > 0 THEN [con EXCEPT !.x = @ - 1]
    ELSE IF con.y > 0 THEN [con EXCEPT !.y = @ - 1, !.x = MaxX - 1] ELSE con

Address(p) == loc[p].l * MaxX + loc[p].m

put(p) ==
    \/ /\ loc[p].s # <<>>
       /\ \/ Head(loc[p].s) = Newline /\ Do(p, "char", "nl", con, Loads(p, con.y))
          \/ Head(loc[p].s) = Backspace /\ Do(p, "char", "char", Backspaced, Rest(p))
          \/ Head(loc[p].s) \in Chars /\ Do(p, "char", "row", con, Loads(p, con.y))
    \/ Do(p, "nl", "cr", [con EXCEPT !.y = Inc(p)], loc[p])
    \/ Do(p, "cr", "load", [con EXCEPT !.x = ByteSize - 1], loc[p])
    \/ Do(p, "row", "cell", con, [loc[p] EXCEPT !.m = con.x])
    \/ Do(p, "cell", "load", [con EXCEPT !.cells[Address(p)] = Head(loc[p].s)], loc[p])

-----------------------------------------------------------------------------
(* move_cur, scroll and upd_cur *)

\* Mutation: the line limit is off by one.
move_curLate(p) ==
    \/ Do(p, "load", "store", con, Loads(p, con.x))
    \/ Do(p, "store", IF Inc(p) >= MaxX THEN "wrap" ELSE "limit",
          [con EXCEPT !.x = Inc(p)], loc[p])
    \/ Do(p, "wrap", "line", [con EXCEPT !.x = 0], loc[p])
    \/ Do(p, "line", "next", con, Loads(p, con.y))
    \/ Do(p, "next", "limit", [con EXCEPT !.y = Inc(p)], loc[p])
    \/ Do(p, "limit", IF con.y > MaxY THEN "clamp" ELSE "mode", con, loc[p])
    \/ Do(p, "clamp", "scroll", [con EXCEPT !.y = MaxY - 1], [loc[p] EXCEPT !.a = 0])
    \/ Do(p, "mode", IF con.strm = 0 THEN "cursor" ELSE "char", con, Rest(p))

move_cur(p) ==
    \/ Do(p, "load", "store", con, Loads(p, con.x))
    \/ Do(p, "store", IF Inc(p) >= MaxX THEN "wrap" ELSE "limit",
          [con EXCEPT !.x = Inc(p)], loc[p])
    \/ Do(p, "wrap", "line", [con EXCEPT !.x = 0], loc[p])
    \/ Do(p, "line", "next", con, Loads(p, con.y))
    \/ Do(p, "next", "limit", [con EXCEPT !.y = Inc(p)], loc[p])
    \/ Do(p, "limit", IF con.y >= MaxY THEN "clamp" ELSE "mode", con, loc[p])
    \/ Do(p, "clamp", "scroll", [con EXCEPT !.y = MaxY - 1], [loc[p] EXCEPT !.a = 0])
    \/ Do(p, "mode", IF con.strm = 0 THEN "cursor" ELSE "char", con, Rest(p))

\* The two loops of scroll, cell by cell; a counts through both.
scroll(p) ==
    LET a == loc[p].a IN
    \/ a < Size /\ Do(p, "scroll", "scroll", [con EXCEPT !.cells[a] = con.cells[a + MaxX]],
                      [loc[p] EXCEPT !.a = a + 1])
    \/ a \in Size..(Size + MaxX - 1)
       /\ Do(p, "scroll", "scroll", [con EXCEPT !.cells[a - MaxX] = Blank],
             [loc[p] EXCEPT !.a = a + 1])
    \/ a = Size + MaxX /\ Do(p, "scroll", "mode", con, loc[p])

\* The data port writes the register the index port has selected.
Data(v) == IF con.index = 15 THEN [con EXCEPT !.low = v] ELSE [con EXCEPT !.high = v]

\* Mutation: the register for the high byte is not selected.
upd_curOneIndex(p) ==
    \/ Do(p, "cursor", "pos", con, Loads(p, con.y))
    \/ Do(p, "pos", "index1", con, [loc[p] EXCEPT !.m = loc[p].l * MaxX + con.x])
    \/ Do(p, "index1", "data1", [con EXCEPT !.index = 15], loc[p])
    \/ Do(p, "data1", "index2", Data(loc[p].m % ByteSize), loc[p])
    \/ Do(p, "index2", "data2", con, loc[p])
    \/ Do(p, "data2", IF loc[p].fn = "end" THEN "idle" ELSE "char",
          Data(loc[p].m \div ByteSize), loc[p])

upd_cur(p) ==
    \/ Do(p, "cursor", "pos", con, Loads(p, con.y))
    \/ Do(p, "pos", "index1", con, [loc[p] EXCEPT !.m = loc[p].l * MaxX + con.x])
    \/ Do(p, "index1", "data1", [con EXCEPT !.index = 15], loc[p])
    \/ Do(p, "data1", "index2", Data(loc[p].m % ByteSize), loc[p])
    \/ Do(p, "index2", "data2", [con EXCEPT !.index = 14], loc[p])
    \/ Do(p, "data2", IF loc[p].fn = "end" THEN "idle" ELSE "char",
          Data(loc[p].m \div ByteSize), loc[p])

ConsoleNext ==
    \/ \E c \in MainCalls : Call(c[1], c[2])
    \/ \E s \in IsrStrings : Interrupt(s)
    \/ clear
    \/ \E p \in Procs : puts(p) \/ put(p) \/ move_cur(p) \/ scroll(p) \/ upd_cur(p)

ConsoleSpec == ConsoleInit /\ [][ConsoleNext]_conVars

-----------------------------------------------------------------------------
(* Properties *)

\* Wherever handlers interrupt kmain, between two calls the cursor is on
\* the screen, and no character is stored beyond the row below the screen
\* plus one BYTE, the farthest an interrupt in the middle of a newline can
\* see the cursor; that is inside video memory.
CursorOnScreen ==
    /\ Quiet => con.x < MaxX /\ con.y < MaxY
    /\ \A p \in Procs : loc[p].pc = "cell" => Address(p) < MaxY * MaxX + ByteSize

\* After puts has returned without being interrupted, the VGA cursor is at
\* the next character's position, whatever happened before.
CursorShown ==
    Quiet /\ ~cut /\ loc["main"].fn = "end"
        => con.high * ByteSize + con.low = con.y * MaxX + con.x
=============================================================================
