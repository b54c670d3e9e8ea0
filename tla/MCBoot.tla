------------------------------- MODULE MCBoot -------------------------------
(* A small instance of Boot for TLC: addresses below 256 in pages of 4, with  *)
(* entries that end there and lie above, and lines of up to three words.     *)
EXTENDS Boot

MCEntry == [addr : {0, 6, 9}, len : {0, 5, 12, 13, 200}, type : {Available, "reserved"}]
           \cup [addr : {240}, len : {16}, type : {Available, "reserved"}]
           \cup [addr : {256}, len : {300}, type : {Available, "reserved"}]
MCMaps == {<<e>> : e \in MCEntry} \cup {<<e, f>> : e, f \in MCEntry}

\* The last word is longer than serial:true and has, behind its place, the
\* first letters of what follows the literal.
MCWords == {<<>>, <<"x">>, serial, network, serial \o <<Colon>> \o true,
            serial \o <<Colon>> \o false, network \o <<Colon>> \o false,
            network \o <<Colon>>, serial \o <<Colon, "x", Colon>> \o true,
            [k \in 1 .. 12 |-> "x"] \o <<"f", "a", "l", "x">>}
MCLines == MCWords \cup {v \o <<Space>> \o w : v, w \in MCWords}
           \cup {v \o <<Space>> \o w \o <<Space>> \o serial : v, w \in MCWords}

SmallMap == <<[addr |-> 6, len |-> 5, type |-> Available]>>
CmdTag(s) == [type |-> "cmdline", string |-> s]
MapTag(m) == [type |-> "mmap", entries |-> m]

MCBootInfos ==
    {<<CmdTag(s)>> : s \in MCLines}
    \cup {<<[type |-> "other"], CmdTag(s), MapTag(SmallMap)>> : s \in MCWords}
    \cup {<<MapTag(m), CmdTag(<<"x">>)>> : m \in MCMaps}

MCBehind == {false \o <<NUL>>, <<"x">>}
MCTexts == {<<"a", LF>>, <<LF>>}
MCIsrTexts == {<<"b", LF>>}
=============================================================================
