------------------------------- MODULE Keyboard -------------------------------
(***************************************************************************)
(* The PS/2 keyboard driver, dev/kbd.c: kbd_interrupt decodes scancodes    *)
(* into events on a descending stack, kbd_avail/kbd_pop read them and      *)
(* kbd_reset empties it.  The keyboard and its controller are external.    *)
(*                                                                         *)
(* A scancode is a byte: bit 7 is set on release, 0xE0 announces that the  *)
(* next byte belongs to an extended key.                                   *)
(***************************************************************************)
EXTENDS Integers, Sequences

CONSTANTS StackSize,  \* slots of kbd_stack (512)
          Keys,       \* key codes of the keys on the keyboard
          Extended,   \* those of them sent after a 0xE0
          MaxBytes    \* bound on the bytes waiting in the controller

Prefix == 224
LShift == 42
RShift == 54
CtrlKey == 29
AltKey == 56
Modifiers == {LShift, RShift, CtrlKey, AltKey}

ASSUME KeyboardAssumption ==
    /\ StackSize \in Nat /\ StackSize > 1
    /\ Keys \subseteq 0..127 /\ Extended \subseteq Keys
    /\ MaxBytes \in Nat

VARIABLES kbd_stack, kbd_stack_sp,  \* the event stack
          ctrl, alt, shift,         \* modifier flags
          wire,     \* bytes the controller holds for port 0x60
          follow,   \* second byte of an extended key still to be sent
          held,     \* keys that are down
          popped    \* the event the last kbd_pop returned

driverVars == <<kbd_stack, kbd_stack_sp, ctrl, alt, shift>>
deviceVars == <<wire, follow, held>>
kbdVars == <<driverVars, deviceVars, popped>>

Byte == 0..255
Bit == 0..1
kbd_event_t == [keycode : 0..127, release : Bit, ctrl : Bit, alt : Bit,
                shift : Bit, special : Bit]
ZeroEvent == [keycode |-> 0, release |-> 0, ctrl |-> 0, alt |-> 0,
              shift |-> 0, special |-> 0]

\* Every variable has a value of its type; the stack pointer stays in the array.
KbdTypeOK ==
    /\ kbd_stack \in [0..(StackSize - 1) -> kbd_event_t]
    /\ kbd_stack_sp \in 0..(StackSize - 1)
    /\ ctrl \in Bit /\ alt \in Bit /\ shift \in Bit
    /\ wire \in Seq(Byte)
    /\ follow \in Byte \cup {-1}
    /\ held \subseteq Keys
    /\ popped \in kbd_event_t

\* What the keyboard answers to the reset that kbd_setup ends with: an
\* acknowledge, and later the result of its self test.
Ack == 250
SelfTestOk == 170

\* kbd_setup has cleared the stack and the flags and reset the keyboard, or
\* has left the port disabled after a failed test.
KbdInit ==
    /\ kbd_stack = [k \in 0..(StackSize - 1) |-> ZeroEvent]
    /\ kbd_stack_sp = StackSize - 1
    /\ ctrl = 0 /\ alt = 0 /\ shift = 0
    /\ \/ wire = <<Ack>> /\ follow = SelfTestOk
       \/ wire = <<>> /\ follow = -1
    /\ held = {}
    /\ popped = ZeroEvent

-----------------------------------------------------------------------------
(* The keyboard (external): a key goes down or up and its bytes arrive at   *)
(* the controller, the second byte of an extended key some time after 0xE0. *)

Scancode(k, up) == IF up THEN k + 128 ELSE k

SendKey(k, up) ==
    /\ follow = -1
    /\ Len(wire) < MaxBytes
    /\ up <=> k \in held
    /\ held' = IF up THEN held \ {k} ELSE held \cup {k}
    /\ IF k \in Extended
       THEN wire' = Append(wire, Prefix) /\ follow' = Scancode(k, up)
       ELSE wire' = Append(wire, Scancode(k, up)) /\ UNCHANGED follow
    /\ UNCHANGED <<driverVars, popped>>

SendSecond ==
    /\ follow # -1
    /\ wire' = Append(wire, follow)
    /\ follow' = -1
    /\ UNCHANGED <<driverVars, held, popped>>

-----------------------------------------------------------------------------
(* kbd_interrupt *)

\* The scancode the handler works on, and what stays in the controller.
\* After 0xE0 the port is read again at once; if the second byte has not
\* arrived yet, the port still returns the 0xE0.
IsSpecial == Head(wire) = Prefix
IsEarly == IsSpecial /\ Len(wire) = 1
ReadCode == IF IsSpecial /\ ~IsEarly THEN wire[2] ELSE Head(wire)
ReadRest == IF IsSpecial /\ ~IsEarly THEN Tail(Tail(wire)) ELSE Tail(wire)

Keycode(code) == code % 128
\* Mutation: the break code is taken for another press.
PressedAlways(code) == 1

Pressed(code) == IF code >= 128 THEN 0 ELSE 1

\* "release" is one bit wide, so of scancode & 0x80 only bit 0 is stored.
ReleaseBit(code) == (IF code >= 128 THEN 128 ELSE 0) % 2

NewEvent(code, spec) ==
    [keycode |-> Keycode(code), release |-> ReleaseBit(code), ctrl |-> ctrl,
     alt |-> alt, shift |-> shift, special |-> IF spec THEN 1 ELSE 0]

PushEvent(e) ==
    /\ kbd_stack' = [kbd_stack EXCEPT ![kbd_stack_sp] = e]
    /\ kbd_stack_sp' = IF kbd_stack_sp # 0 THEN kbd_stack_sp - 1 ELSE kbd_stack_sp
    /\ UNCHANGED <<ctrl, alt, shift>>

Decode(code, spec) ==
    LET kc == Keycode(code) IN
    \/ /\ kc \in {LShift, RShift}
       /\ shift' = Pressed(code)
       /\ UNCHANGED <<kbd_stack, kbd_stack_sp, ctrl, alt>>
    \/ /\ kc = CtrlKey
       /\ ctrl' = Pressed(code)
       /\ UNCHANGED <<kbd_stack, kbd_stack_sp, alt, shift>>
    \/ /\ kc = AltKey
       /\ alt' = Pressed(code)
       /\ UNCHANGED <<kbd_stack, kbd_stack_sp, ctrl, shift>>
    \/ /\ kc \notin Modifiers
       /\ PushEvent(NewEvent(code, spec))

\* With the status bit clear the handler returns at once: the interrupt of
\* a second byte that has already been read.
kbd_interrupt ==
    /\ IF wire = <<>>
       THEN UNCHANGED <<driverVars, wire>>
       ELSE /\ Decode(ReadCode, IsSpecial)
            /\ wire' = ReadRest
    /\ UNCHANGED <<follow, held, popped>>

-----------------------------------------------------------------------------
(* The readers *)

kbd_reset ==
    /\ kbd_stack_sp' = StackSize - 1
    /\ UNCHANGED <<kbd_stack, ctrl, alt, shift, deviceVars, popped>>

kbd_avail == kbd_stack_sp # StackSize - 1

\* Mutation: *(kbd_stack_sp++).
kbd_popPostIncrement ==
    /\ kbd_avail
    /\ kbd_stack_sp' = kbd_stack_sp + 1
    /\ popped' = kbd_stack[kbd_stack_sp]
    /\ UNCHANGED <<kbd_stack, ctrl, alt, shift, deviceVars>>

\* The callers test kbd_avail first and run with interrupts disabled.
kbd_pop ==
    /\ kbd_avail
    /\ kbd_stack_sp' = kbd_stack_sp + 1
    /\ popped' = kbd_stack[kbd_stack_sp + 1]
    /\ UNCHANGED <<kbd_stack, ctrl, alt, shift, deviceVars>>

KbdNext ==
    \/ \E k \in Keys, up \in BOOLEAN : SendKey(k, up)
    \/ SendSecond
    \/ kbd_interrupt
    \/ kbd_reset
    \/ kbd_pop

KbdSpec == KbdInit /\ [][KbdNext]_kbdVars

-----------------------------------------------------------------------------
(* Properties *)

\* The events between the stack pointer and the top of the array, oldest
\* first.
Unread == [i \in 1..(StackSize - 1 - kbd_stack_sp) |-> kbd_stack[StackSize - i]]

ES == INSTANCE EventStack
      WITH items <- Unread, Event <- kbd_event_t, Capacity <- StackSize - 1

\* The driver implements a bounded stack: whatever the interleaving of key
\* interrupts, reads and resets, a read returns the latest unread event,
\* and a full stack drops the new key and loses none of the others.
ImplementsEventStack == ES!ESSpec

\* A modifier is never stuck: when every byte has been handled and no key
\* is down, no modifier flag is set, although both shifts share one flag,
\* extended keys arrive in two bytes, and the second may be read too early.
NoStuckModifier ==
    wire = <<>> /\ follow = -1 /\ held = {} => ctrl = 0 /\ alt = 0 /\ shift = 0
=============================================================================
