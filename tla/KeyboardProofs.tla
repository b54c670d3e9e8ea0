---------------------------- MODULE KeyboardProofs ----------------------------
(***************************************************************************)
(* Proofs about Keyboard for every stack size and every set of keys: its   *)
(* type invariant, and that the descending array implements EventStack.    *)
(***************************************************************************)
EXTENDS Keyboard, SequenceTheorems, TLAPS

LEMMA NewEventType ==
    ASSUME KbdTypeOK, NEW code \in Byte, NEW spec \in BOOLEAN
    PROVE  NewEvent(code, spec) \in kbd_event_t
  <1>1. Keycode(code) \in 0..127
    BY DEF Keycode, Byte
  <1>2. ReleaseBit(code) \in Bit /\ (IF spec THEN 1 ELSE 0) \in Bit
    BY DEF ReleaseBit, Bit
  <1> QED
    BY <1>1, <1>2 DEF KbdTypeOK, NewEvent, kbd_event_t

\* What kbd_interrupt reads from a non-empty controller are bytes.
LEMMA ReadType ==
    ASSUME KbdTypeOK, wire # <<>>
    PROVE  ReadCode \in Byte /\ ReadRest \in Seq(Byte) /\ IsSpecial \in BOOLEAN
  <1>1. /\ wire \in Seq(Byte) /\ Len(wire) \in Nat /\ Len(wire) > 0
        /\ Head(wire) \in Byte /\ Tail(wire) \in Seq(Byte) /\ Len(Tail(wire)) = Len(wire) - 1
    BY DEF KbdTypeOK
  <1>2. IsSpecial \in BOOLEAN /\ (IsEarly <=> IsSpecial /\ Len(wire) = 1)
    BY Zenon DEF IsSpecial, IsEarly
  <1>3. Len(wire) # 1 => wire[2] \in Byte /\ Tail(Tail(wire)) \in Seq(Byte)
    <2> SUFFICES ASSUME Len(wire) # 1
                 PROVE  wire[2] \in Byte /\ Tail(Tail(wire)) \in Seq(Byte)
      OBVIOUS
    <2>1. 2 \in 1..Len(wire) /\ Tail(wire) # <<>>
      BY <1>1
    <2> QED BY <1>1, <2>1, ElementOfSeq, HeadTailProperties
  <1> QED
    BY <1>1, <1>2, <1>3 DEF ReadCode, ReadRest

LEMMA KbdTypeInit == KbdInit => KbdTypeOK
  <1> SUFFICES ASSUME KbdInit PROVE KbdTypeOK
    OBVIOUS
  <1>1. wire \in Seq(Byte) /\ follow \in Byte \cup {-1}
    <2>1. Ack \in Byte /\ SelfTestOk \in Byte
      BY DEF Byte, Ack, SelfTestOk
    <2>2. <<Ack>> \in Seq(Byte) /\ <<>> \in Seq(Byte)
      BY <2>1
    <2> QED BY <2>1, <2>2 DEF KbdInit
  <1>2. popped \in kbd_event_t /\ ZeroEvent \in kbd_event_t
    BY DEF KbdInit, ZeroEvent, kbd_event_t, Bit
  <1> QED
    BY <1>1, <1>2, KeyboardAssumption DEF KbdInit, KbdTypeOK, Bit

LEMMA KbdTypeNext ==
    ASSUME KbdTypeOK, [KbdNext]_kbdVars
    PROVE  KbdTypeOK'
  <1> USE KeyboardAssumption
  <1>1. ASSUME NEW k \in Keys, NEW up \in BOOLEAN, SendKey(k, up)
        PROVE  KbdTypeOK'
    <2>1. Scancode(k, up) \in Byte /\ Prefix \in Byte
      BY DEF Scancode, Byte, Prefix
    <2>2. wire' \in Seq(Byte)
      <3>1. PICK b \in Byte : wire' = Append(wire, b)
        BY <1>1, <2>1, Zenon DEF SendKey
      <3> QED BY <3>1 DEF KbdTypeOK
    <2>3. follow' \in Byte \cup {-1}
      BY <1>1, <2>1 DEF SendKey, KbdTypeOK
    <2>4. held' \subseteq Keys
      BY <1>1 DEF SendKey, KbdTypeOK
    <2> QED BY <1>1, <2>2, <2>3, <2>4 DEF SendKey, driverVars, KbdTypeOK
  <1>2. CASE SendSecond
    BY <1>2 DEF SendSecond, driverVars, KbdTypeOK
  <1>3. CASE kbd_interrupt
    <2>1. CASE wire = <<>>
      BY <1>3, <2>1 DEF kbd_interrupt, driverVars, KbdTypeOK
    <2>2. CASE wire # <<>>
      <3>1. ReadCode \in Byte /\ ReadRest \in Seq(Byte) /\ IsSpecial \in BOOLEAN
        BY <2>2, ReadType
      <3>2. Pressed(ReadCode) \in Bit
        BY DEF Pressed, Bit
      <3>3. NewEvent(ReadCode, IsSpecial) \in kbd_event_t
        BY <3>1, NewEventType
      <3>4. /\ kbd_stack' \in [0..(StackSize - 1) -> kbd_event_t]
            /\ kbd_stack_sp' \in 0..(StackSize - 1)
            /\ ctrl' \in Bit /\ alt' \in Bit /\ shift' \in Bit
        BY <1>3, <2>2, <3>2, <3>3 DEF kbd_interrupt, Decode, PushEvent, KbdTypeOK
      <3> QED BY <1>3, <2>2, <3>1, <3>4 DEF kbd_interrupt, KbdTypeOK
    <2> QED BY <2>1, <2>2
  <1>4. CASE kbd_reset
    BY <1>4 DEF kbd_reset, deviceVars, KbdTypeOK
  <1>5. CASE kbd_pop
    BY <1>5 DEF kbd_pop, kbd_avail, deviceVars, KbdTypeOK
  <1>6. CASE UNCHANGED kbdVars
    BY <1>6 DEF kbdVars, driverVars, deviceVars, KbdTypeOK
  <1> QED
    BY <1>1, <1>2, <1>3, <1>4, <1>5, <1>6 DEF KbdNext

\* For every stack size: the stack pointer never leaves the array, and
\* every variable keeps its type.
THEOREM KeyboardTypeCorrect == KbdSpec => []KbdTypeOK
  BY KbdTypeInit, KbdTypeNext, PTL DEF KbdSpec

-----------------------------------------------------------------------------
(* The refinement *)

\* The unread events of a stack, as a sequence.
LEMMA UnreadSeq ==
    ASSUME NEW stack \in [0..(StackSize - 1) -> kbd_event_t], NEW sp \in 0..(StackSize - 1),
           NEW u, u = [i \in 1..(StackSize - 1 - sp) |-> stack[StackSize - i]]
    PROVE  /\ u \in Seq(kbd_event_t)
           /\ Len(u) = StackSize - 1 - sp
           /\ \A i \in 1..(StackSize - 1 - sp) : u[i] = stack[StackSize - i]
  <1>1. StackSize - 1 - sp \in Nat
    BY KeyboardAssumption
  <1>2. \A i \in 1..(StackSize - 1 - sp) : stack[StackSize - i] \in kbd_event_t
    BY KeyboardAssumption
  <1> QED
    BY <1>1, <1>2

LEMMA UnreadType ==
    ASSUME KbdTypeOK
    PROVE  /\ Unread \in Seq(kbd_event_t)
           /\ Len(Unread) = StackSize - 1 - kbd_stack_sp
           /\ \A i \in 1..(StackSize - 1 - kbd_stack_sp) : Unread[i] = kbd_stack[StackSize - i]
  BY UnreadSeq DEF KbdTypeOK, Unread

LEMMA UnreadTypePrime ==
    ASSUME KbdTypeOK'
    PROVE  /\ Unread' \in Seq(kbd_event_t)
           /\ Len(Unread') = StackSize - 1 - kbd_stack_sp'
           /\ \A i \in 1..(StackSize - 1 - kbd_stack_sp') : Unread'[i] = kbd_stack'[StackSize - i]
  BY UnreadSeq DEF KbdTypeOK, Unread

LEMMA PushRefines ==
    ASSUME KbdTypeOK, KbdTypeOK', NEW e \in kbd_event_t, PushEvent(e), popped' = popped
    PROVE  ES!Push \/ UNCHANGED <<Unread, popped>>
  <1> DEFINE n == StackSize - 1 - kbd_stack_sp
  <1>0. n \in Nat /\ StackSize \in Nat /\ kbd_stack_sp \in 0..(StackSize - 1)
    BY KeyboardAssumption DEF KbdTypeOK
  <1>1. /\ Unread \in Seq(kbd_event_t) /\ Len(Unread) = n
        /\ \A i \in 1..n : Unread[i] = kbd_stack[StackSize - i]
    BY UnreadType
  <1>2. CASE kbd_stack_sp = 0
    \* The full stack: only slot 0, which holds no unread event, changes.
    <2>1. kbd_stack_sp' = kbd_stack_sp
      BY <1>2 DEF PushEvent
    <2>2. /\ Unread' \in Seq(kbd_event_t) /\ Len(Unread') = n
          /\ \A i \in 1..n : Unread'[i] = kbd_stack'[StackSize - i]
      BY <2>1, UnreadTypePrime
    <2>3. \A i \in 1..n : kbd_stack'[StackSize - i] = kbd_stack[StackSize - i]
      BY <1>0, <1>2 DEF PushEvent, KbdTypeOK
    <2>4. Unread' = Unread
      BY <1>1, <2>2, <2>3, SeqEqual
    <2> QED BY <2>4
  <1>3. CASE kbd_stack_sp # 0
    <2>1. kbd_stack_sp' = kbd_stack_sp - 1 /\ StackSize - 1 - kbd_stack_sp' = n + 1
      BY <1>0, <1>3 DEF PushEvent
    <2>2. /\ Unread' \in Seq(kbd_event_t) /\ Len(Unread') = n + 1
          /\ \A i \in 1..(n + 1) : Unread'[i] = kbd_stack'[StackSize - i]
      BY <2>1, UnreadTypePrime
    <2>3. \A i \in 1..n : kbd_stack'[StackSize - i] = kbd_stack[StackSize - i]
      BY <1>0 DEF PushEvent, KbdTypeOK
    <2> DEFINE t == SubSeq(Unread', 1, n)
    <2>4. /\ t \in Seq(kbd_event_t) /\ Len(t) = n
          /\ \A i \in 1..n : t[i] = Unread'[i]
      BY <1>0, <2>2, SubSeqProperties
    <2> HIDE DEF t
    <2>5. \A i \in 1..n : t[i] = Unread[i]
      <3> SUFFICES ASSUME NEW i \in 1..n PROVE t[i] = Unread[i]
        OBVIOUS
      <3>1. i \in 1..(n + 1)
        BY <1>0
      <3> QED BY <1>1, <2>2, <2>3, <2>4, <3>1
    <2>6. t = Unread
      BY <1>0, <1>1, <2>4, <2>5, SeqEqual
    <2> QED BY <1>0, <1>1, <1>3, <2>2, <2>6 DEF ES!Push, t
  <1> QED BY <1>2, <1>3

LEMMA PopRefines ==
    ASSUME KbdTypeOK, KbdTypeOK', kbd_pop
    PROVE  ES!Pop
  <1> DEFINE n == StackSize - 1 - kbd_stack_sp
  <1>0. n \in Nat /\ n > 0 /\ StackSize \in Nat /\ kbd_stack_sp \in 0..(StackSize - 1)
    BY KeyboardAssumption DEF KbdTypeOK, kbd_pop, kbd_avail
  <1>1. /\ Unread \in Seq(kbd_event_t) /\ Len(Unread) = n
        /\ \A i \in 1..n : Unread[i] = kbd_stack[StackSize - i]
    BY UnreadType
  <1>2. /\ Unread' \in Seq(kbd_event_t) /\ Len(Unread') = n - 1
        /\ \A i \in 1..(n - 1) : Unread'[i] = kbd_stack[StackSize - i]
    BY <1>0, UnreadTypePrime DEF kbd_pop
  <1>3. popped' = Unread[Len(Unread)] /\ Unread # <<>>
    BY <1>0, <1>1 DEF kbd_pop
  <1> DEFINE t == SubSeq(Unread, 1, n - 1)
  <1>4. /\ t \in Seq(kbd_event_t) /\ Len(t) = n - 1
        /\ \A i \in 1..(n - 1) : t[i] = Unread[i]
    BY <1>0, <1>1, SubSeqProperties
  <1> HIDE DEF t
  <1>5. Unread' = t
    BY <1>0, <1>1, <1>2, <1>4, SeqEqual
  <1> QED BY <1>1, <1>3, <1>5 DEF ES!Pop, t

LEMMA ResetRefines ==
    ASSUME KbdTypeOK', kbd_reset
    PROVE  ES!Reset
  <1>1. Unread' \in Seq(kbd_event_t) /\ Len(Unread') = 0
    BY KeyboardAssumption, UnreadTypePrime DEF kbd_reset
  <1>2. Unread' = <<>>
    BY <1>1
  <1> QED BY <1>2 DEF kbd_reset, ES!Reset

LEMMA StepRefines ==
    ASSUME KbdTypeOK, KbdTypeOK', [KbdNext]_kbdVars
    PROVE  [ES!ESNext]_<<Unread, popped>>
  <1>1. ASSUME UNCHANGED <<kbd_stack, kbd_stack_sp, popped>>
        PROVE  UNCHANGED <<Unread, popped>>
    BY <1>1 DEF Unread
  <1>2. ASSUME NEW k \in Keys, NEW up \in BOOLEAN, SendKey(k, up)
        PROVE  UNCHANGED <<Unread, popped>>
    BY <1>1, <1>2 DEF SendKey, driverVars
  <1>3. CASE SendSecond
    BY <1>1, <1>3 DEF SendSecond, driverVars
  <1>4. CASE kbd_interrupt
    <2>1. popped' = popped
      BY <1>4 DEF kbd_interrupt
    <2>2. CASE wire = <<>>
      BY <1>1, <1>4, <2>1, <2>2 DEF kbd_interrupt, driverVars
    <2>3. CASE wire # <<>>
      <3> DEFINE e == NewEvent(ReadCode, IsSpecial)
      <3>1. e \in kbd_event_t
        BY <2>3, ReadType, NewEventType
      <3> HIDE DEF e
      <3>2. UNCHANGED <<kbd_stack, kbd_stack_sp>> \/ PushEvent(e)
        BY <1>4, <2>3 DEF kbd_interrupt, Decode, e
      <3> QED BY <1>1, <2>1, <3>1, <3>2, PushRefines DEF ES!ESNext
    <2> QED BY <2>2, <2>3
  <1>5. CASE kbd_reset
    BY <1>5, ResetRefines DEF ES!ESNext
  <1>6. CASE kbd_pop
    BY <1>6, PopRefines DEF ES!ESNext
  <1>7. CASE UNCHANGED kbdVars
    BY <1>1, <1>7 DEF kbdVars, driverVars
  <1> QED
    BY <1>2, <1>3, <1>4, <1>5, <1>6, <1>7 DEF KbdNext

\* For every stack size and every interleaving of key interrupts, reads
\* and resets, the driver implements the bounded stack of key events.
THEOREM KeyboardImplementsEventStack == KbdSpec => ImplementsEventStack
  <1>1. KbdInit => ES!ESInit
    BY KeyboardAssumption
    DEF KbdInit, ES!ESInit, Unread, ZeroEvent, kbd_event_t, Bit
  <1> QED
    BY <1>1, KbdTypeInit, KbdTypeNext, StepRefines, PTL
    DEF KbdSpec, ImplementsEventStack, ES!ESSpec
=============================================================================
