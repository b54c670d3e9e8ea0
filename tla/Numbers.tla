-------------------------------- MODULE Numbers --------------------------------
(***************************************************************************)
(* How kernel/text.c and libc/stdlib.c write numbers.  A text is a         *)
(* sequence of the values of its digits, with Minus for the sign.          *)
(***************************************************************************)
EXTENDS Integers, Sequences, SequencesExt

CONSTANT LongBits  \* bits in a LONG, 32

ASSUME NumbersAssumption == LongBits \in Nat /\ LongBits > 0 /\ LongBits % 4 = 0

Minus == -1

\* The d digits of n in a base, the highest one first; and without the
\* zeros in front.
Places(n, base, d) == [k \in 1 .. d |-> (n \div base ^ (d - k)) % base]
Significant(text) == SelectInSeq(text, LAMBDA d : d # 0)
Stripped(text) == IF Significant(text) = 0 THEN <<>>
                  ELSE SubSeq(text, Significant(text), Len(text))

\* The loop starts below the highest bit but one.
putn2(n) == IF n = 0 THEN <<0>> ELSE Stripped(Places(n, 2, LongBits - 1))

\* The highest digit is left out.
putn16Short(n) == IF n = 0 THEN <<0>> ELSE Stripped(Places(n, 16, LongBits \div 4 - 1))

putn16(n) == IF n = 0 THEN <<0>> ELSE Stripped(Places(n, 16, LongBits \div 4))

\* Digits from the last one on, until nothing is left.
Divided(n, base) ==
    LET digits[m \in 0 .. n] == IF m < base THEN <<m>>
                                ELSE Append(digits[m \div base], m % base)
    IN  digits[n]

putn10(n) == Divided(n, 10)

\* n is an int; only base 10 has a sign.
itoa(n, base) ==
    IF base = 10 /\ n < 0 THEN <<Minus>> \o Divided(-n, base)
    ELSE Divided(n % 2 ^ LongBits, base)

-----------------------------------------------------------------------------
(* What a text stands for *)

Value(text, base) == FoldLeft(LAMBDA v, d : v * base + d, 0, text)

AsInt(n) == IF n < 2 ^ (LongBits - 1) THEN n ELSE n - 2 ^ LongBits

\* All of them write a LONG n so that it can be read back, but for putn2,
\* which never writes the highest bit.
WrittenReadsBack(n) ==
    /\ Value(putn10(n), 10) = n
    /\ Value(putn16(n), 16) = n
    /\ Value(putn2(n), 2) = n % 2 ^ (LongBits - 1)
    /\ \A base \in {2, 16} : Value(itoa(AsInt(n), base), base) = n
    /\ LET text == itoa(AsInt(n), 10)
       IN  AsInt(n) = IF text[1] = Minus THEN -Value(Tail(text), 10) ELSE Value(text, 10)
=============================================================================
