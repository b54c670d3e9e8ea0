------------------------------ MODULE MCTerminal ------------------------------
(* Small instances of ConsoleText and of Keyboard for TLC.  They share no     *)
(* state, so that a behaviour is one of either.                               *)
EXTENDS ConsoleText, Keyboard

MCCalls == {<<"puts", <<"a", Newline>>>>, <<"puts", <<"a", "b">>>>, <<"put", <<"b">>>>,
            <<"puts_int", <<"a">>>>, <<"sys_write", <<Backspace>>>>}
MCStrings == {<<"a", Newline>>}

VARIABLE part

MCVars == <<part, textVars, kbdVars>>

MCInit == part \in {"console", "keyboard"} /\ TextInit /\ KbdInit

MCNext ==
    /\ \/ part = "console" /\ TextNext /\ UNCHANGED kbdVars
       \/ part = "keyboard" /\ KbdNext /\ UNCHANGED textVars
    /\ UNCHANGED part

MCSpec == MCInit /\ [][MCNext]_MCVars
=============================================================================
