------------------------------ MODULE Multiboot ------------------------------
(***************************************************************************)
(* The walk over the boot loader's tags in kernel/multiboot.c and the      *)
(* options of kernel/cmdline.c.  multiboot_process copies each word of the *)
(* command line to a buffer on the stack, of which it clears only the      *)
(* first bytes for each tag: behind a word is what was there before.       *)
(*                                                                         *)
(* Characters are one-letter strings; a pointer is the memory it points    *)
(* to, see Strings.  Words so long that a comparison would leave the       *)
(* buffer are left out.                                                    *)
(***************************************************************************)
EXTENDS Strings, Serial

CONSTANTS BufSize,   \* bytes in buf, 256
          Cleared,   \* bytes of it that are cleared, 32
          CmpLen,    \* the length passed to strncmp, 128
          Garbage,   \* what an uninitialised byte of the stack may hold
          Behind,    \* what follows the literals "true" and "false" in memory
          BootInfos  \* the boot information: sequences of tags

Space == " "
Colon == ":"
serial == <<"s", "e", "r", "i", "a", "l">>
network == <<"n", "e", "t", "w", "o", "r", "k">>
true == <<"t", "r", "u", "e">>
false == <<"f", "a", "l", "s", "e">>

\* The words of a line start at its first character and behind each space.
WordStarts(s) == {1} \cup {k + 1 : k \in {j \in DOMAIN s : s[j] = Space}}
WordEnd(s, k) == Min({j \in k .. Len(s) : s[j] = Space} \cup {Len(s) + 1}) - 1
WordAt(s, k) == SubSeq(s, k, WordEnd(s, k))

\* Behind a literal is another string.
ASSUME MultibootAssumption ==
    /\ Cleared \in Nat /\ BufSize \in Nat /\ CmpLen \in Nat
    /\ Cleared < BufSize /\ CmpLen + WordSize < BufSize
    /\ \A b \in Behind : b # <<>> /\ b[1] # NUL
    /\ \A tg \in BootInfos : \A k \in DOMAIN tg :
           /\ tg[k].type \in {"cmdline", "mmap", "other"}
           /\ tg[k].type = "cmdline" =>
                  \A j \in WordStarts(tg[k].string) : Len(WordAt(tg[k].string, j)) < BufSize - CmpLen - WordSize

VARIABLES tags,  \* the tags, without the end tag
          t,     \* the tag that is next
          sc,    \* in a command line: where the next word starts
          buf,   \* the buffer, <<>> outside multiboot_process
          arg,   \* the offset of the argument in buf, NULL without one
          cmd,   \* cmdline_process looks for the command in buf
          network__disable

mbVars == <<tags, t, sc, buf, arg, cmd, network__disable>>

NULL == -1

\* The memory at a string s: s, then fill.
Mem(s, fill) == [k \in 0 .. BufSize - 1 |-> IF k < Len(s) THEN s[k + 1] ELSE fill]

MultibootInit ==
    /\ tags \in BootInfos
    /\ t = 1 /\ sc = 1
    /\ \E g \in Garbage : buf = Mem(<<>>, g)
    /\ arg = NULL /\ cmd = FALSE
    /\ network__disable = FALSE

TagIs(type) == t <= Len(tags) /\ tags[t].type = type
WalkOver == t > Len(tags)

-----------------------------------------------------------------------------
(* multiboot_process *)

NextTag(b) == t' = t + 1 /\ sc' = 1 /\ buf' = IF t = Len(tags) THEN <<>> ELSE b

Clear(b) == [k \in DOMAIN b |-> IF k < Cleared THEN NUL ELSE b[k]]

Copied(b, w) == [k \in DOMAIN b |-> IF k < Len(w) THEN w[k + 1]
                                    ELSE IF k = Len(w) THEN NUL ELSE b[k]]

\* The loop of cmdline_process tests for the terminator only from the second
\* character on.
Scanned(b) == 0 .. Min({j \in DOMAIN b : j > 0 /\ b[j] = NUL}) - 1
Colons(b) == {k \in Scanned(b) : b[k] = Colon}

\* The colon itself.
ArgAtColon(b) == IF Colons(b) = {} THEN NULL ELSE Max(Colons(b))

\* What follows the last colon.
Arg(b) == IF Colons(b) = {} THEN NULL ELSE Max(Colons(b)) + 1

\* The next word of a command line, the last one included, as far as the
\* first loop of cmdline_process.  An empty line is a word that holds its
\* terminator.
CommandWord ==
    /\ TagIs("cmdline") /\ ~cmd
    /\ LET s == tags[t].string
           w == IF s = <<>> THEN <<NUL>> ELSE WordAt(s, sc)
           b == Copied(IF sc = 1 THEN Clear(buf) ELSE buf, w)
       IN  /\ arg' = Arg(b)
           /\ buf' = [k \in DOMAIN b |-> IF b[k] = Colon /\ k \in Scanned(b) THEN NUL ELSE b[k]]
    /\ cmd' = TRUE
    /\ UNCHANGED <<tags, t, sc, network__disable, serialVars>>

OtherTag ==
    /\ TagIs("other")
    /\ NextTag(Clear(buf))
    /\ UNCHANGED <<tags, arg, cmd, network__disable, serialVars>>

-----------------------------------------------------------------------------
(* The second loop of cmdline_process, and the commands of cmdline_cmds *)

Calls(name) == strncmp(buf, Mem(name, NUL), CmpLen) = 0

\* The commands compare their argument with a literal; a comparison with
\* NULL reads address 0.
ArgMemory == [k \in 0 .. BufSize - arg - 1 |-> buf[k + arg]]
ArgIs(literal) ==
    IF arg = NULL THEN BOOLEAN
    ELSE {strncmp(ArgMemory, Mem(literal \o <<NUL>> \o z, NUL), CmpLen) = 0 : z \in Behind}

_cmdline_serial ==
    \/ /\ TRUE \in ArgIs(true)
       /\ serial_setup_port
       /\ UNCHANGED <<wire, printer, said, network__disable>>
    \/ FALSE \in ArgIs(true) /\ UNCHANGED <<serialVars, network__disable>>

_cmdline_network ==
    /\ network__disable' \in {network__disable \/ r : r \in ArgIs(false)}
    /\ UNCHANGED serialVars

RunCommand ==
    /\ cmd /\ cmd' = FALSE
    /\ CASE Calls(serial) -> _cmdline_serial
         [] ~Calls(serial) /\ Calls(network) -> _cmdline_network
         [] OTHER -> UNCHANGED <<serialVars, network__disable>>
    /\ LET s == tags[t].string
           e == WordEnd(s, sc)
       IN  IF e < Len(s) THEN sc' = e + 2 /\ UNCHANGED <<t, buf>> ELSE NextTag(buf)
    /\ arg' = NULL
    /\ UNCHANGED tags

-----------------------------------------------------------------------------
(* Properties *)

CommandLines == {tags[k].string : k \in {j \in DOMAIN tags : tags[j].type = "cmdline"}}
CommandWords == UNION {{WordAt(s, k) : k \in WordStarts(s)} : s \in CommandLines}

\* docs/cmdline.txt: "<command>:<argument><space>", serial with the argument
\* "(true), enable serial port (COM1 only) at speed 115200".  The option is
\* taken wherever it stands behind words that are not longer, and the port
\* is set up only by a word whose command is serial: at 115200 baud, 8N1.
\* The network is disabled only by a word whose command is network.
OptionsTaken ==
    /\ WalkOver => \A s \in CommandLines : \A k \in WordStarts(s) :
           /\ WordAt(s, k) = serial \o <<Colon>> \o true
           /\ \A j \in WordStarts(s) : j < k => Len(WordAt(s, j)) <= Len(WordAt(s, k))
           => serial_status
    /\ serial_status =>
           /\ \E w \in CommandWords : w = serial \/ IsPrefix(serial \o <<Colon>>, w)
           /\ uart.divisor = <<1, 0>> /\ uart.lcr = 3
    /\ network__disable => \E w \in CommandWords : w = network \/ IsPrefix(network \o <<Colon>>, w)

-----------------------------------------------------------------------------
(* What the code says of its options *)

\* cmdline.c compares the argument of network with "false" and then disables
\* the network, and docs/cmdline.txt gives the syntax "<command>:<argument>":
\* a command line of the one word network:false disables it.
NetworkDisabled ==
    WalkOver /\ (\E k \in DOMAIN tags : tags[k] = [type |-> "cmdline", string |-> network \o <<Colon>> \o false])
        => network__disable
=============================================================================
