-------------------------------- MODULE Strings --------------------------------
(***************************************************************************)
(* strncmp of libc/stdlib.c.  It compares words of sizeof(size_t) bytes    *)
(* and looks for a terminator only in a word that differs, so it reads on  *)
(* past the end of equal strings.  A pointer is therefore the memory it    *)
(* points to, a function of the offsets from 0, and not a string.          *)
(***************************************************************************)
EXTENDS Integers, FiniteSetsExt

CONSTANT WordSize  \* sizeof(size_t), 4 in this kernel

ASSUME StringsAssumption == WordSize \in Nat \ {0}

NUL == "NUL"

Word(p, k) == [j \in 0 .. WordSize - 1 |-> p[k * WordSize + j]]

\* Where the scan that starts with word k stops.
Stops(p, q, k, len) ==
    {pos \in k * WordSize .. len - 1 : p[pos] # q[pos] \/ p[pos] = NUL}

Differ(p, q, pos) == IF p[pos] = q[pos] THEN 0 ELSE 1

\* 0 for equal, 1 otherwise: no caller looks at the sign.
strncmp(p, q, len) ==
    LET fast   == IF len <= WordSize THEN 0 ELSE len \div WordSize + 1
        offset == (len \div WordSize) * WordSize
        found  == {k \in 0 .. fast - 1 : Word(p, k) # Word(q, k) /\ Stops(p, q, k, len) # {}}
    IN  IF found # {} THEN Differ(p, q, Min(Stops(p, q, Min(found), len)))
        ELSE IF \E pos \in offset .. len - 1 : p[pos] # q[pos] THEN 1 ELSE 0
=============================================================================
