------------------------------ MODULE EventStack ------------------------------
(***************************************************************************)
(* What the keyboard driver promises its readers: a bounded stack of key   *)
(* events.  A key pressed when the stack is full is dropped; a read        *)
(* returns the latest event that has not been read.                        *)
(***************************************************************************)
EXTENDS Sequences, Naturals

CONSTANTS Event,    \* the key events
          Capacity  \* how many are kept

VARIABLES items,  \* the unread events, the latest one last
          popped  \* the event the last read returned

ESInit == items = <<>> /\ popped \in Event

\* One more event, whichever it is.
Push ==
    /\ Len(items) < Capacity
    /\ items' \in Seq(Event) /\ Len(items') = Len(items) + 1
    /\ SubSeq(items', 1, Len(items)) = items
    /\ UNCHANGED popped

Pop ==
    /\ items # <<>>
    /\ popped' = items[Len(items)]
    /\ items' = SubSeq(items, 1, Len(items) - 1)

Reset == items' = <<>> /\ UNCHANGED popped

ESNext == Push \/ Pop \/ Reset

ESSpec == ESInit /\ [][ESNext]_<<items, popped>>
=============================================================================
