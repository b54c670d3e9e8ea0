------------------------------ MODULE E1000Proofs ------------------------------
(***************************************************************************)
(* Proofs about the rings of E1000, for every size of the rings and every  *)
(* number of frames.                                                       *)
(***************************************************************************)
EXTENDS E1000, SequenceTheorems, TLAPS

-----------------------------------------------------------------------------
(* Places in a ring of n descriptors *)

\* How far i is behind c, going round; and the next place.
Apart(i, c, n) == IF i >= c THEN i - c ELSE i - c + n
Succ(i, n) == IF i = n - 1 THEN 0 ELSE i + 1

LEMMA ModUnique ==
    ASSUME NEW n \in Nat \ {0}, NEW x \in Int, NEW r \in 0 .. n - 1, NEW q \in Int, x = n * q + r
    PROVE  x % n = r
  OBVIOUS

LEMMA ApartIsMod ==
    ASSUME NEW n \in Nat \ {0}, NEW i \in 0 .. n - 1, NEW c \in 0 .. n - 1
    PROVE  (i - c) % n = Apart(i, c, n) /\ Apart(i, c, n) \in 0 .. n - 1
<1>1. CASE i >= c
  <2>1. i - c \in 0 .. n - 1 /\ i - c = n * 0 + (i - c) /\ 0 \in Int /\ i - c \in Int
    BY <1>1
  <2>2. (i - c) % n = i - c
    BY <2>1, ModUnique
  <2> QED
    BY <1>1, <2>1, <2>2 DEF Apart
<1>2. CASE ~(i >= c)
  <2>1. i - c + n \in 0 .. n - 1 /\ i - c = n * (-1) + (i - c + n) /\ -1 \in Int /\ i - c \in Int
    BY <1>2
  <2>2. (i - c) % n = i - c + n
    BY <2>1, ModUnique
  <2> QED
    BY <1>2, <2>1, <2>2 DEF Apart
<1> QED
  BY <1>1, <1>2

LEMMA SuccIsMod ==
    ASSUME NEW n \in Nat \ {0}, NEW i \in 0 .. n - 1
    PROVE  (i + 1) % n = Succ(i, n) /\ Succ(i, n) \in 0 .. n - 1
<1>1. CASE i = n - 1
  <2>1. i + 1 = n * 1 + 0 /\ 0 \in 0 .. n - 1 /\ i + 1 \in Int /\ 1 \in Int
    BY <1>1
  <2>2. (i + 1) % n = 0
    BY <2>1, ModUnique
  <2> QED
    BY <1>1, <2>1, <2>2 DEF Succ
<1>2. CASE i # n - 1
  <2>1. i + 1 = n * 0 + (i + 1) /\ i + 1 \in 0 .. n - 1 /\ i + 1 \in Int /\ 0 \in Int
    BY <1>2
  <2>2. (i + 1) % n = i + 1
    BY <2>1, ModUnique
  <2> QED
    BY <1>2, <2>1, <2>2 DEF Succ
<1> QED
  BY <1>1, <1>2

\* Two places as far behind c are the same.
LEMMA ApartInjective ==
    ASSUME NEW n \in Nat \ {0}, NEW c \in 0 .. n - 1, NEW i \in 0 .. n - 1, NEW j \in 0 .. n - 1,
           Apart(i, c, n) = Apart(j, c, n)
    PROVE  i = j
  BY DEF Apart

LEMMA ApartSucc ==
    ASSUME NEW n \in Nat \ {0}, NEW i \in 0 .. n - 1, NEW c \in 0 .. n - 1, Apart(i, c, n) < n - 1
    PROVE  Apart(Succ(i, n), c, n) = Apart(i, c, n) + 1
  BY DEF Apart, Succ

LEMMA ApartFromSucc ==
    ASSUME NEW n \in Nat \ {0}, NEW i \in 0 .. n - 1, NEW c \in 0 .. n - 1
    PROVE  Apart(i, Succ(c, n), n) = IF i = c THEN n - 1 ELSE Apart(i, c, n) - 1
  BY DEF Apart, Succ

LEMMA ApartSame ==
    ASSUME NEW n \in Nat \ {0}, NEW c \in 0 .. n - 1
    PROVE  Apart(c, c, n) = 0
  BY DEF Apart

LEMMA SuccInjective ==
    ASSUME NEW n \in Nat \ {0}, NEW i \in 0 .. n - 1, NEW j \in 0 .. n - 1, Succ(i, n) = Succ(j, n)
    PROVE  i = j
  BY DEF Succ

\* The first n + 1 frames are the first n and then n + 1.
LEMMA NextFrame ==
    ASSUME NEW s \in Seq(Nat), s = Frames(Len(s))
    PROVE  /\ Append(s, Len(s) + 1) \in Seq(Nat)
           /\ Len(Append(s, Len(s) + 1)) = Len(s) + 1
           /\ Append(s, Len(s) + 1) = Frames(Len(s) + 1)
<1> DEFINE r == Append(s, Len(s) + 1)
<1>1. Len(s) \in Nat /\ r \in Seq(Nat) /\ Len(r) = Len(s) + 1
  OBVIOUS
<1>2. \A j \in 1 .. Len(s) : s[j] = j
  BY DEF Frames
<1>3. \A j \in 1 .. Len(s) + 1 : r[j] = j
  BY <1>1, <1>2
<1>4. r = [j \in 1 .. Len(r) |-> r[j]]
  BY <1>1
<1> QED
  BY <1>1, <1>3, <1>4 DEF Frames

\* The ring f of n descriptors holds the w frames after the m-th from place c on.
Holds(f, c, w, m, n) ==
    \A i \in 0 .. n - 1 : f[i] = IF Apart(i, c, n) < w THEN m + 1 + Apart(i, c, n) ELSE 0

LEMMA StoreHolds ==
    ASSUME NEW n \in Nat \ {0}, NEW c \in 0 .. n - 1, NEW h \in 0 .. n - 1, NEW m \in Nat,
           NEW w \in Nat, NEW f \in [0 .. n - 1 -> Nat],
           Holds(f, c, w, m, n), Apart(h, c, n) = w
    PROVE  Holds([f EXCEPT ![h] = m + w + 1], c, w + 1, m, n)
<1> SUFFICES ASSUME NEW i \in 0 .. n - 1
             PROVE  [f EXCEPT ![h] = m + w + 1][i] =
                        IF Apart(i, c, n) < w + 1 THEN m + 1 + Apart(i, c, n) ELSE 0
  BY DEF Holds
<1>1. Apart(i, c, n) \in Int
  BY DEF Apart
<1>2. i # h => Apart(i, c, n) # w
  BY ApartInjective
<1>3. f[i] = IF Apart(i, c, n) < w THEN m + 1 + Apart(i, c, n) ELSE 0
  BY DEF Holds
<1>4. CASE i = h
  BY <1>4
<1>5. CASE i # h
  BY <1>1, <1>2, <1>3, <1>5
<1> QED
  BY <1>4, <1>5

LEMMA TakeHolds ==
    ASSUME NEW n \in Nat \ {0}, NEW c \in 0 .. n - 1, NEW m \in Nat,
           NEW w \in 1 .. n - 1, NEW f \in [0 .. n - 1 -> Nat], Holds(f, c, w, m, n)
    PROVE  Holds([f EXCEPT ![c] = 0], Succ(c, n), w - 1, m + 1, n)
<1> SUFFICES ASSUME NEW i \in 0 .. n - 1
             PROVE  [f EXCEPT ![c] = 0][i] =
                        IF Apart(i, Succ(c, n), n) < w - 1
                        THEN (m + 1) + 1 + Apart(i, Succ(c, n), n) ELSE 0
  BY DEF Holds
<1>1. Apart(i, c, n) \in Int
  BY DEF Apart
<1>2. Apart(i, Succ(c, n), n) = IF i = c THEN n - 1 ELSE Apart(i, c, n) - 1
  BY ApartFromSucc
<1>3. f[i] = IF Apart(i, c, n) < w THEN m + 1 + Apart(i, c, n) ELSE 0
  BY DEF Holds
<1>4. CASE i = c
  <2>1. [f EXCEPT ![c] = 0][i] = 0
    BY <1>4
  <2>2. ~(n - 1 < w - 1)
    OBVIOUS
  <2> QED
    BY <1>2, <1>4, <2>1, <2>2
<1>5. CASE i # c
  <2>1. [f EXCEPT ![c] = 0][i] = f[i]
    BY <1>5
  <2>2. Apart(i, Succ(c, n), n) = Apart(i, c, n) - 1
    BY <1>2, <1>5
  <2>3. PICK a \in Int : a = Apart(i, c, n)
    BY <1>1
  <2>4. IF a < w THEN m + 1 + a = (m + 1) + 1 + (a - 1) /\ a - 1 < w - 1 ELSE ~(a - 1 < w - 1)
    OBVIOUS
  <2> QED
    BY <1>3, <2>1, <2>2, <2>3, <2>4
<1> QED
  BY <1>4, <1>5

-----------------------------------------------------------------------------
(* The receive ring *)

RN == E1000_NUM_RX_DESC

RxTypeOK ==
    /\ rx_cur \in RxSlots /\ old_cur \in RxSlots /\ rdh \in RxSlots /\ rdt \in RxSlots
    /\ stored \in Nat /\ handled \in Seq(Nat)
    /\ rx_descs \in [RxSlots -> Nat]

\* The waiting frames are in the descriptors from rx_cur on.
RxOrder ==
    /\ handled = Frames(Len(handled))
    /\ Waiting \in 0 .. RN - 1
    /\ Holds(rx_descs, rx_cur, Waiting, Len(handled), RN)

\* The head is as far behind rx_cur as frames wait, and the tail is one before
\* rx_cur, or two while the driver has a descriptor that it has not given back.
RxEnds ==
    /\ Apart(rdh, rx_cur, RN) = Waiting
    /\ IF hpc = "tail"
       THEN Succ(old_cur, RN) = rx_cur /\ Succ(rdt, RN) = old_cur /\ Waiting <= RN - 2
       ELSE Succ(rdt, RN) = rx_cur

RxInv == RxTypeOK /\ RxOrder /\ RxEnds

LEMMA RnFacts == /\ RN \in Nat \ {0, 1} /\ RN \in Nat \ {0} /\ RxSlots = 0 .. RN - 1
                 /\ \A i \in RxSlots : RxNext(i) = Succ(i, RN) /\ Succ(i, RN) \in RxSlots
  BY E1000Assumption, SuccIsMod DEF RN, RxSlots, RxNext

LEMMA RxInvInit == E1000Init => RxInv
<1> SUFFICES ASSUME E1000Init
             PROVE  RxInv
  OBVIOUS
<1>1. handled = <<>> /\ stored = 0 /\ hpc = "idle" /\ rx_cur = 0 /\ rdh = 0 /\ rdt = RN - 1
      /\ old_cur = 0 /\ rx_descs = [i \in RxSlots |-> 0]
  BY DEF E1000Init, e1000_rxinit, RN
<1>2. Len(handled) = 0 /\ handled \in Seq(Nat) /\ Waiting = 0
  <2>1. Len(<<>>) = 0 /\ <<>> \in Seq(Nat)
    OBVIOUS
  <2>2. Len(handled) = 0 /\ handled \in Seq(Nat)
    BY <1>1, <2>1, Zenon
  <2>3. Waiting = 0 - 0
    BY <1>1, <2>2, Zenon DEF Waiting
  <2> QED
    BY <2>2, <2>3
<1>3. RxTypeOK
  BY <1>1, <1>2, RnFacts DEF RxTypeOK
<1>4. Frames(0) = <<>>
  BY DEF Frames
<1>5. Holds(rx_descs, 0, 0, 0, RN)
  BY <1>1, RnFacts DEF Holds, Apart
<1>6. RxOrder
  BY <1>1, <1>2, <1>4, <1>5, RnFacts DEF RxOrder
<1>7. RxEnds
  BY <1>1, <1>2, RnFacts DEF RxEnds, Succ, Apart
<1> QED
  BY <1>3, <1>6, <1>7 DEF RxInv

\* The card stores a frame in the descriptor at its head.
LEMMA ReceiveKeepsRx ==
    ASSUME RxInv, Receive
    PROVE  RxInv'
<1> USE RnFacts
<1>t. RxTypeOK /\ RxOrder /\ RxEnds
  BY DEF RxInv
<1>1. /\ UNCHANGED <<rx_cur, old_cur, rdt, handled, hpc>>
      /\ rx_descs' = [rx_descs EXCEPT ![rdh] = stored + 1] /\ stored' = stored + 1
      /\ rdh' = Succ(rdh, RN) /\ rdh' \in RxSlots /\ rdh # rdt
  BY <1>t DEF Receive, RxTypeOK
<1>2. Len(handled) \in Nat /\ Waiting \in 0 .. RN - 1 /\ stored = Len(handled) + Waiting
      /\ Waiting' = Waiting + 1
  BY <1>t, <1>1 DEF RxTypeOK, RxOrder, Waiting
<1>3. \A c, d \in RxSlots : Apart(c, d, RN) \in 0 .. RN - 1
  BY ApartIsMod
<1>4. Waiting + 1 <= RN - 1 /\ (hpc = "tail" => Waiting + 1 <= RN - 2)
  <2>1. Apart(rdh, rx_cur, RN) # Apart(rdt, rx_cur, RN)
    BY <1>1, <1>t, ApartInjective DEF RxTypeOK
  <2>2. CASE hpc # "tail"
    <3>1. Apart(rdt, rx_cur, RN) = RN - 1
      BY <2>2, <1>t, ApartFromSucc DEF RxEnds, RxTypeOK
    <3> QED
      BY <1>2, <1>t, <2>1, <2>2, <3>1 DEF RxEnds
  <2>3. CASE hpc = "tail"
    <3>1. Succ(old_cur, RN) = rx_cur /\ Succ(rdt, RN) = old_cur /\ Waiting <= RN - 2
      BY <2>3, <1>t DEF RxEnds
    <3>2. Apart(rdt, rx_cur, RN) = RN - 2
      BY <3>1, <1>t DEF RxTypeOK, Apart, Succ
    <3> QED
      BY <1>2, <1>t, <2>1, <3>1, <3>2 DEF RxEnds
  <2> QED
    BY <2>2, <2>3
<1>5. RxTypeOK'
  <2>1. stored + 1 \in Nat /\ rdh \in RxSlots /\ rx_descs \in [RxSlots -> Nat]
    BY <1>t DEF RxTypeOK
  <2>2. rx_descs' \in [RxSlots -> Nat] /\ stored' \in Nat
    BY <1>1, <2>1
  <2> QED
    BY <1>1, <1>t, <2>2 DEF RxTypeOK
<1>6. RxOrder'
  <2>1. stored + 1 = Len(handled) + Waiting + 1
    BY <1>2
  <2>2. Holds(rx_descs', rx_cur, Waiting + 1, Len(handled), RN)
    <3>1. /\ Holds(rx_descs, rx_cur, Waiting, Len(handled), RN) /\ Apart(rdh, rx_cur, RN) = Waiting
          /\ rx_descs \in [0 .. RN - 1 -> Nat]
          /\ rx_cur \in 0 .. RN - 1 /\ rdh \in 0 .. RN - 1 /\ Waiting \in Nat
      <4>1. Holds(rx_descs, rx_cur, Waiting, Len(handled), RN) /\ Apart(rdh, rx_cur, RN) = Waiting
        BY <1>t DEF RxOrder, RxEnds
      <4>2. rx_descs \in [0 .. RN - 1 -> Nat] /\ rx_cur \in 0 .. RN - 1 /\ rdh \in 0 .. RN - 1
        BY <1>t DEF RxTypeOK
      <4>3. Waiting \in Nat
        BY <1>2
      <4> QED
        BY <4>1, <4>2, <4>3, Zenon
    <3>2. rx_descs' = [rx_descs EXCEPT ![rdh] = Len(handled) + Waiting + 1]
      BY <1>1, <2>1
    <3>3. Holds([rx_descs EXCEPT ![rdh] = Len(handled) + Waiting + 1], rx_cur, Waiting + 1,
                Len(handled), RN)
      BY <1>2, <3>1, StoreHolds
    <3> QED
      BY <3>2, <3>3
  <2>3. Waiting + 1 \in 0 .. RN - 1
    BY <1>2, <1>4
  <2> QED
    BY <1>1, <1>2, <1>t, <2>2, <2>3 DEF RxOrder
<1>7. RxEnds'
  <2>1. Apart(rdh', rx_cur, RN) = Waiting + 1
    <3>1. Apart(rdh, rx_cur, RN) = Waiting /\ Waiting < RN - 1
      BY <1>2, <1>4, <1>t DEF RxEnds
    <3> QED
      BY <1>1, <1>t, <3>1, ApartSucc DEF RxTypeOK
  <2> QED
    BY <1>1, <1>2, <1>4, <1>t, <2>1 DEF RxEnds
<1> QED
  BY <1>5, <1>6, <1>7 DEF RxInv

\* e1000_receive takes the frame at rx_cur.
LEMMA TakeKeepsRx ==
    ASSUME RxInv, TakeFrame
    PROVE  RxInv'
<1> USE RnFacts
<1>t. RxTypeOK /\ RxOrder /\ RxEnds
  BY DEF RxInv
<1>1. /\ UNCHANGED <<rdh, rdt, stored>> /\ hpc = "receive" /\ hpc' = "tail"
      /\ handled' = Append(handled, rx_descs[rx_cur])
      /\ rx_descs[rx_cur] # 0 /\ rx_descs' = [rx_descs EXCEPT ![rx_cur] = 0]
      /\ old_cur' = rx_cur /\ rx_cur' = Succ(rx_cur, RN) /\ rx_cur' \in RxSlots
  BY <1>t DEF TakeFrame, RxTypeOK
<1>2. Len(handled) \in Nat /\ Waiting \in 0 .. RN - 1 /\ stored = Len(handled) + Waiting
  BY <1>t DEF RxTypeOK, RxOrder, Waiting
<1>3. Apart(rx_cur, rx_cur, RN) = 0
  BY <1>t, ApartSame DEF RxTypeOK
<1>4. Waiting \in 1 .. RN - 1 /\ rx_descs[rx_cur] = Len(handled) + 1
  <2>1. rx_descs[rx_cur] = IF 0 < Waiting THEN Len(handled) + 1 + 0 ELSE 0
    BY <1>t, <1>3 DEF RxTypeOK, RxOrder, Holds
  <2> QED
    BY <1>1, <1>2, <2>1
<1>5. handled' \in Seq(Nat) /\ Len(handled') = Len(handled) + 1 /\ handled' = Frames(Len(handled'))
  BY <1>1, <1>4, <1>t, NextFrame DEF RxTypeOK, RxOrder
<1>6. Waiting' = Waiting - 1
  BY <1>1, <1>2, <1>5 DEF Waiting
<1>8. RxTypeOK'
  <2>1. rx_descs' \in [RxSlots -> Nat]
    BY <1>1, <1>t DEF RxTypeOK
  <2> QED
    BY <1>1, <1>5, <1>t, <2>1 DEF RxTypeOK
<1>9. RxOrder'
  <2>1. Holds(rx_descs', rx_cur', Waiting - 1, Len(handled) + 1, RN)
    BY <1>1, <1>2, <1>4, <1>t, TakeHolds DEF RxOrder, RxTypeOK
  <2>2. Waiting - 1 \in 0 .. RN - 1
    BY <1>4
  <2> QED
    BY <1>5, <1>6, <2>1, <2>2 DEF RxOrder
<1>10. RxEnds'
  <2>1. rdh # rx_cur /\ Apart(rdh, rx_cur, RN) = Waiting
    BY <1>3, <1>4, <1>t DEF RxEnds
  <2>2. Apart(rdh, rx_cur', RN) = Waiting - 1
    BY <1>1, <1>t, <2>1, ApartFromSucc DEF RxTypeOK
  <2>3. Waiting - 1 <= RN - 2 /\ Succ(rdt, RN) = rx_cur
    BY <1>1, <1>2, <1>t DEF RxEnds
  <2> QED
    BY <1>1, <1>6, <2>2, <2>3 DEF RxEnds
<1> QED
  BY <1>8, <1>9, <1>10 DEF RxInv

\* The steps that leave the receive ring alone, or only move the handler on.
LEMMA OthersKeepRx ==
    ASSUME RxInv, UNCHANGED <<rx_descs, rx_cur, old_cur, rdh, rdt, stored, handled>>,
           hpc' = hpc \/ (hpc # "tail" /\ hpc' # "tail")
    PROVE  RxInv'
  BY DEF RxInv, RxTypeOK, RxOrder, RxEnds, Waiting

LEMMA RxInvNext == RxInv /\ [E1000Next]_vars => RxInv'
<1> SUFFICES ASSUME RxInv, [E1000Next]_vars
             PROVE  RxInv'
  OBVIOUS
<1>1. CASE ReturnDescriptor
  <2>1. /\ UNCHANGED <<rx_descs, rx_cur, old_cur, rdh, stored, handled>>
        /\ hpc = "tail" /\ hpc' = "receive" /\ rdt' = old_cur
    BY <1>1 DEF ReturnDescriptor
  <2> QED
    BY <2>1 DEF RxInv, RxTypeOK, RxOrder, RxEnds, Waiting
<1>2. CASE Overflow \/ SetCause \/ LinkChange \/ e1000_handler \/ NoFrame
  <2>1. /\ UNCHANGED <<rx_descs, rx_cur, old_cur, rdh, rdt, stored, handled>>
        /\ hpc' = hpc \/ (hpc # "tail" /\ hpc' # "tail")
    BY <1>2 DEF Overflow, SetCause, LinkChange, e1000_handler, NoFrame
  <2> QED
    BY <2>1, OthersKeepRx
<1>3. CASE Fetch \/ Transmit \/ Fill \/ WriteTail \/ Sent \/ Sleep \/ UNCHANGED vars
  <2>1. UNCHANGED rxVars
    BY <1>3 DEF Fetch, Transmit, Fill, WriteTail, Sent, Sleep, vars
  <2> QED
    BY <2>1, OthersKeepRx DEF rxVars
<1> QED
  BY <1>1, <1>2, <1>3, ReceiveKeepsRx, TakeKeepsRx DEF E1000Next

\* For any ring and any number of frames: e1000_receive sees the frames in the
\* order of arrival, each once, and gives all descriptors but one back.
THEOREM ReceiveRingSafety == E1000Spec => [](ReceivedInOrder /\ NoDescriptorLost)
<1>1. RxInv => ReceivedInOrder /\ NoDescriptorLost
  <2> SUFFICES ASSUME RxInv
               PROVE  ReceivedInOrder /\ NoDescriptorLost
    OBVIOUS
  <2> USE RnFacts
  <2>t. RxTypeOK /\ RxOrder /\ RxEnds
    BY DEF RxInv
  <2>1. \A i \in RxSlots : (i - rx_cur) % E1000_NUM_RX_DESC = Apart(i, rx_cur, RN)
    BY <2>t, ApartIsMod DEF RxTypeOK, RN
  <2>2. ReceivedInOrder
    BY <2>1, <2>t DEF ReceivedInOrder, RxOrder, Holds, RN
  <2>3. ASSUME hpc # "tail"
        PROVE  ((rdt - rdh) % E1000_NUM_RX_DESC) + Waiting = E1000_NUM_RX_DESC - 1
    <3>1. (rdt - rdh) % E1000_NUM_RX_DESC = Apart(rdt, rdh, RN)
      BY <2>t, ApartIsMod DEF RxTypeOK, RN
    <3>2. Succ(rdt, RN) = rx_cur /\ Apart(rdh, rx_cur, RN) = Waiting
      BY <2>3, <2>t DEF RxEnds
    <3>3. Apart(rdt, rdh, RN) + Apart(rdh, Succ(rdt, RN), RN) = RN - 1
      BY <2>t DEF RxTypeOK, Apart, Succ
    <3> QED
      BY <3>1, <3>2, <3>3 DEF RN
  <2> QED
    BY <2>2, <2>3 DEF NoDescriptorLost
<1> QED
  BY <1>1, RxInvInit, RxInvNext, PTL DEF E1000Spec

-----------------------------------------------------------------------------
(* The transmit ring *)

TN == E1000_NUM_TX_DESC

LEMMA TnFacts == /\ TN \in Nat \ {0, 1} /\ TN \in Nat \ {0} /\ TxSlots = 0 .. TN - 1
                 /\ \A i \in TxSlots : TxNext(i) = Succ(i, TN) /\ Succ(i, TN) \in TxSlots
  BY E1000Assumption, SuccIsMod DEF TN, TxSlots, TxNext

\* The place before c is one less behind h.
LEMMA ApartPred ==
    ASSUME NEW n \in Nat \ {0}, NEW o \in 0 .. n - 1, NEW h \in 0 .. n - 1,
           Apart(Succ(o, n), h, n) >= 1
    PROVE  Apart(o, h, n) = Apart(Succ(o, n), h, n) - 1
  BY DEF Apart, Succ

LEMMA ApartLast ==
    ASSUME NEW n \in Nat \ {0}, NEW c \in 0 .. n - 1, NEW h \in 0 .. n - 1, Apart(c, h, n) = n - 1
    PROVE  Succ(c, n) = h
  BY DEF Apart, Succ

\* The w descriptors of f from place h on have the frames after the m-th, not sent yet.
Carries(f, h, w, m, n) ==
    \A i \in 0 .. n - 1 :
        Apart(i, h, n) < w => f[i].frame = m + 1 + Apart(i, h, n) /\ ~f[i].done

LEMMA FillCarries ==
    ASSUME NEW n \in Nat \ {0}, NEW h \in 0 .. n - 1, NEW c \in 0 .. n - 1, NEW m \in Nat,
           NEW w \in Nat, NEW f, NEW g, Carries(f, h, w, m, n), Apart(c, h, n) = w,
           g[c].frame = m + w + 1, ~g[c].done, \A i \in 0 .. n - 1 : i # c => g[i] = f[i]
    PROVE  Carries(g, h, w + 1, m, n)
<1> SUFFICES ASSUME NEW i \in 0 .. n - 1, Apart(i, h, n) < w + 1
             PROVE  g[i].frame = m + 1 + Apart(i, h, n) /\ ~g[i].done
  BY DEF Carries
<1>1. CASE i = c
  BY <1>1
<1>2. CASE i # c
  <2>1. Apart(i, h, n) # w /\ Apart(i, h, n) \in Int
    BY <1>2, ApartInjective, ApartIsMod
  <2>2. Apart(i, h, n) < w
    BY <2>1
  <2> QED
    BY <1>2, <2>2 DEF Carries
<1> QED
  BY <1>1, <1>2

LEMMA SendCarries ==
    ASSUME NEW n \in Nat \ {0}, NEW h \in 0 .. n - 1, NEW m \in Nat, NEW w \in 1 .. n - 1,
           NEW f, NEW g, Carries(f, h, w, m, n), \A i \in 0 .. n - 1 : i # h => g[i] = f[i]
    PROVE  Carries(g, Succ(h, n), w - 1, m + 1, n)
<1> SUFFICES ASSUME NEW i \in 0 .. n - 1, Apart(i, Succ(h, n), n) < w - 1
             PROVE  g[i].frame = (m + 1) + 1 + Apart(i, Succ(h, n), n) /\ ~g[i].done
  BY DEF Carries
<1>1. Apart(i, Succ(h, n), n) = IF i = h THEN n - 1 ELSE Apart(i, h, n) - 1
  BY ApartFromSucc
<1>2. i # h
  BY <1>1
<1>3. PICK a \in Int : a = Apart(i, h, n)
  BY ApartIsMod
<1>4. a < w
  BY <1>1, <1>2, <1>3
<1>5. g[i].frame = m + 1 + a /\ ~g[i].done
  BY <1>2, <1>3, <1>4 DEF Carries
<1> QED
  BY <1>1, <1>2, <1>3, <1>5

\* The frames e1000_write has put into descriptors, those it has told the card
\* of, and those that have not left.
Written == Len(returned) + IF wpc = "idle" THEN 0 ELSE 1
Announced == IF wpc = "tail" THEN Written - 1 ELSE Written
Pending == Written - Len(wire)

TxTypeOK ==
    /\ tx_cur \in TxSlots /\ tx_old \in TxSlots /\ tdh \in TxSlots /\ tdt \in TxSlots
    /\ wire \in Seq(Nat) /\ returned \in Seq({"len", "0"})
    /\ fetched \in Nat
    /\ tx_descs \in [TxSlots -> [frame : Nat, done : BOOLEAN]]
    /\ wpc \in {"idle", "tail", "wait"}

\* The frames that have not left are in the descriptors from the head on, the
\* last one before tx_cur.
TxRing ==
    /\ wire = Frames(Len(wire)) /\ Len(wire) <= Announced /\ Pending <= TN - 1
    /\ Carries(tx_descs, tdh, Pending, Len(wire), TN)
    /\ Apart(tx_cur, tdh, TN) = Pending

TxEnds ==
    /\ tdt = IF wpc = "tail" THEN tx_old ELSE tx_cur
    /\ wpc # "idle" => Succ(tx_old, TN) = tx_cur
    /\ fetched # 0 => fetched = Len(wire) + 1 /\ Len(wire) < Announced
    /\ \A k \in 1 .. Len(returned) : returned[k] = "len" => k <= Len(wire)

txRing == <<tx_descs, tx_cur, tx_old, tdh, tdt, fetched, wire, returned, wpc, overrun>>

TxInv == TxTypeOK /\ (~overrun => TxRing /\ TxEnds)

LEMMA TxInvInit == E1000Init => TxInv
<1> SUFFICES ASSUME E1000Init
             PROVE  TxInv
  OBVIOUS
<1>1. /\ wire = <<>> /\ returned = <<>> /\ wpc = "idle" /\ tx_cur = 0 /\ tdh = 0 /\ tdt = 0
      /\ tx_old = 0 /\ fetched = 0 /\ tx_descs = [i \in TxSlots |-> [frame |-> 0, done |-> TRUE]]
  BY DEF E1000Init, e1000_txinit
<1>2. Len(<<>>) = 0 /\ <<>> \in Seq(Nat) /\ <<>> \in Seq({"len", "0"}) /\ Frames(0) = <<>>
  BY DEF Frames
<1>3. Len(wire) = 0 /\ Len(returned) = 0 /\ wire = Frames(Len(wire))
  BY <1>1, <1>2, Zenon
<1>4. Written = 0 /\ Announced = 0 /\ Pending = 0
  BY <1>1, <1>3 DEF Written, Announced, Pending
<1>5. TxTypeOK
  BY <1>1, <1>2, TnFacts DEF TxTypeOK
<1>6. Apart(0, 0, TN) = 0
  BY TnFacts, ApartSame
<1>7. Carries(tx_descs, 0, 0, 0, TN)
  BY TnFacts, ApartIsMod DEF Carries
<1>8. TxRing
  BY <1>1, <1>3, <1>4, <1>6, <1>7, TnFacts DEF TxRing
<1>9. TxEnds
  BY <1>1, <1>3, <1>4 DEF TxEnds
<1> QED
  BY <1>5, <1>8, <1>9 DEF TxInv

LEMMA TxFacts ==
    ASSUME TxTypeOK
    PROVE  /\ Len(wire) \in Nat /\ Len(returned) \in Nat /\ Written \in Nat /\ Announced \in Int
           /\ Pending \in Int /\ Announced <= Written /\ Pending = Written - Len(wire)
<1>1. Len(wire) \in Nat /\ Len(returned) \in Nat
  BY DEF TxTypeOK
<1>2. Written \in Nat
  BY <1>1 DEF Written
<1> QED
  BY <1>1, <1>2 DEF Announced, Pending

LEMMA FetchKeepsTx ==
    ASSUME TxInv, Fetch
    PROVE  TxInv'
<1> USE TnFacts
<1>1. /\ UNCHANGED <<tx_descs, tx_cur, tx_old, tdh, tdt, wire, returned, wpc, overrun>>
      /\ tdh # tdt /\ fetched' = tx_descs[tdh].frame
  BY DEF Fetch
<1>2. TxTypeOK /\ Written' = Written /\ Announced' = Announced /\ Pending' = Pending
  BY <1>1 DEF TxInv, Written, Announced, Pending
<1>3. TxTypeOK'
  BY <1>1, <1>2 DEF TxTypeOK
<1>4. ASSUME ~overrun
      PROVE  fetched' = Len(wire) + 1 /\ Len(wire) < Announced
  <2>r. TxRing /\ TxEnds
    BY <1>4 DEF TxInv
  <2>0. Apart(tdh, tdh, TN) = 0 /\ Apart(tdt, tdh, TN) # 0 /\ Apart(tdt, tdh, TN) \in 0 .. TN - 1
    <3>1. tdh \in 0 .. TN - 1 /\ tdt \in 0 .. TN - 1 /\ TN \in Nat \ {0}
      BY <1>2 DEF TxTypeOK
    <3>2. Apart(tdh, tdh, TN) = 0
      BY <3>1, ApartSame
    <3>3. Apart(tdt, tdh, TN) # Apart(tdh, tdh, TN)
      BY <1>1, <3>1, ApartInjective
    <3> QED
      BY <3>1, <3>2, <3>3, ApartIsMod
  <2>1. Len(wire) < Announced
    <3>1. CASE wpc = "tail"
      <4>1. tdt = tx_old /\ Succ(tx_old, TN) = tx_cur /\ Apart(tx_cur, tdh, TN) = Pending
            /\ Announced = Written - 1 /\ Len(wire) <= Announced
        BY <2>r, <3>1 DEF TxRing, TxEnds, Announced
      <4>2. Pending >= 1
        BY <1>2, <4>1, TxFacts
      <4>3. Apart(tx_old, tdh, TN) = Pending - 1
        BY <1>2, <4>1, <4>2, ApartPred DEF TxTypeOK
      <4> QED
        BY <1>2, <2>0, <4>1, <4>2, <4>3, TxFacts
    <3>2. CASE wpc # "tail"
      <4>1. Pending # 0 /\ Announced = Written /\ Len(wire) <= Announced
        BY <2>0, <2>r, <3>2 DEF TxRing, TxEnds, Announced
      <4> QED
        BY <1>2, <4>1, TxFacts
    <3> QED
      BY <3>1, <3>2
  <2>2. 0 < Pending
    BY <1>2, <2>1, TxFacts
  <2>3. tx_descs[tdh].frame = Len(wire) + 1 + 0
    BY <1>2, <2>0, <2>2, <2>r DEF TxRing, Carries, TxTypeOK
  <2> QED
    BY <1>1, <1>2, <2>1, <2>3, TxFacts
<1>5. ASSUME ~overrun
      PROVE  TxRing' /\ TxEnds'
  BY <1>1, <1>2, <1>4, <1>5 DEF TxInv, TxRing, TxEnds
<1> QED
  BY <1>1, <1>3, <1>5 DEF TxInv

LEMMA TransmitKeepsTx ==
    ASSUME TxInv, Transmit
    PROVE  TxInv'
<1> USE TnFacts
<1>1. /\ UNCHANGED <<tx_cur, tx_old, tdt, returned, wpc, overrun>> /\ fetched # 0 /\ fetched' = 0
      /\ wire' = Append(wire, fetched) /\ tx_descs' = [tx_descs EXCEPT ![tdh].done = TRUE]
  BY DEF Transmit
<1>t. TxTypeOK
  BY DEF TxInv
<1>2. tdh' = Succ(tdh, TN) /\ tdh' \in TxSlots
  BY <1>t DEF Transmit, TxTypeOK
<1>3. wire' \in Seq(Nat) /\ Len(wire') = Len(wire) + 1
  BY <1>1, <1>t DEF TxTypeOK
<1>4. tx_descs' \in [TxSlots -> [frame : Nat, done : BOOLEAN]]
  BY <1>1, <1>t DEF TxTypeOK
<1>5. TxTypeOK'
  BY <1>1, <1>2, <1>3, <1>4, <1>t DEF TxTypeOK
<1>6. ASSUME ~overrun
      PROVE  TxRing' /\ TxEnds'
  <2>r. TxRing /\ TxEnds
    BY <1>6 DEF TxInv
  <2>1. Written' = Written /\ Announced' = Announced /\ Pending' = Pending - 1
    BY <1>1, <1>3, <1>t, TxFacts DEF Written, Announced, Pending
  <2>2. fetched = Len(wire) + 1 /\ Len(wire) < Announced
    BY <1>1, <2>r DEF TxEnds
  <2>3. Pending \in 1 .. TN - 1
    BY <1>t, <2>2, <2>r, TxFacts DEF TxRing
  <2>4. wire' = Frames(Len(wire'))
    BY <1>1, <1>3, <1>t, <2>2, <2>r, NextFrame DEF TxTypeOK, TxRing
  <2>5. Carries(tx_descs', tdh', Pending - 1, Len(wire'), TN)
    <3>1. \A i \in 0 .. TN - 1 : i # tdh => tx_descs'[i] = tx_descs[i]
      BY <1>1, <1>t DEF TxTypeOK
    <3>2. Carries(tx_descs, tdh, Pending, Len(wire), TN) /\ tdh \in 0 .. TN - 1 /\ Len(wire) \in Nat
      BY <1>t, <2>r, TxFacts DEF TxRing, TxTypeOK
    <3> QED
      BY <1>2, <1>3, <2>3, <3>1, <3>2, SendCarries
  <2>6. Apart(tx_cur, tdh', TN) = Pending - 1
    <3>1. Apart(tx_cur, tdh, TN) = Pending /\ tx_cur # tdh
      <4>1. tdh \in 0 .. TN - 1 /\ Apart(tx_cur, tdh, TN) = Pending
        BY <1>t, <2>r DEF TxRing, TxTypeOK
      <4>2. Apart(tdh, tdh, TN) = 0
        BY <4>1, ApartSame
      <4> QED
        BY <2>3, <4>1, <4>2
    <3> QED
      BY <1>2, <1>t, <3>1, ApartFromSucc DEF TxTypeOK
  <2>7. Len(wire') <= Announced /\ Pending - 1 <= TN - 1
    <3>1. Announced \in Int /\ Len(wire) \in Nat
      BY <1>t, TxFacts
    <3> QED
      BY <1>3, <2>2, <2>3, <3>1
  <2>8. TxRing'
    BY <1>1, <2>1, <2>4, <2>5, <2>6, <2>7 DEF TxRing
  <2>9. \A k \in 1 .. Len(returned) : returned[k] = "len" => k <= Len(wire')
    BY <1>3, <1>t, <2>r, TxFacts DEF TxEnds
  <2>10. TxEnds'
    BY <1>1, <2>1, <2>9, <2>r DEF TxEnds
  <2> QED
    BY <2>8, <2>10
<1> QED
  BY <1>1, <1>5, <1>6 DEF TxInv

LEMMA FillKeepsTx ==
    ASSUME TxInv, Fill
    PROVE  TxInv'
<1> USE TnFacts
<1>1. /\ UNCHANGED <<tdh, tdt, fetched, wire, returned>> /\ wpc = "idle" /\ wpc' = "tail"
      /\ tx_descs' = [tx_descs EXCEPT ![tx_cur] = [frame |-> Len(returned) + 1, done |-> FALSE]]
      /\ tx_old' = tx_cur /\ tx_cur' = TxNext(tx_cur)
  BY DEF Fill
<1>o. overrun' = (overrun \/ Full)
  BY DEF Fill
<1>t. TxTypeOK
  BY DEF TxInv
<1>2. tx_cur' = Succ(tx_cur, TN) /\ tx_cur' \in TxSlots
  BY <1>1, <1>t DEF TxTypeOK
<1>3. [frame |-> Len(returned) + 1, done |-> FALSE] \in [frame : Nat, done : BOOLEAN]
  BY <1>t, TxFacts
<1>4. tx_descs' \in [TxSlots -> [frame : Nat, done : BOOLEAN]]
  BY <1>1, <1>3, <1>t DEF TxTypeOK
<1>5. TxTypeOK'
  BY <1>1, <1>2, <1>4, <1>t DEF TxTypeOK
<1>6. ASSUME ~overrun'
      PROVE  TxRing' /\ TxEnds'
  <2>1. ~overrun /\ ~Full
    BY <1>6, <1>o
  <2>r. TxRing /\ TxEnds
    BY <2>1 DEF TxInv
  <2>2. /\ Len(wire) \in Nat /\ Len(returned) \in Nat /\ Written = Len(returned)
        /\ Announced = Written /\ Pending = Written - Len(wire)
    BY <1>1, <1>t, TxFacts DEF Written, Announced
  <2>3. Written' = Written + 1 /\ Announced' = Announced /\ Pending' = Pending + 1
    BY <1>1, <2>2 DEF Written, Announced, Pending
  <2>4. /\ tdt = tx_cur /\ Apart(tx_cur, tdh, TN) = Pending /\ Len(wire) <= Announced
        /\ Pending <= TN - 1 /\ Carries(tx_descs, tdh, Pending, Len(wire), TN)
    BY <1>1, <2>r DEF TxRing, TxEnds
  <2>5. Pending \in Nat /\ tx_cur \in 0 .. TN - 1 /\ tdh \in 0 .. TN - 1
    BY <1>t, <2>2, <2>4 DEF TxTypeOK
  <2>6. Pending # TN - 1
    <3>1. Succ(tx_cur, TN) # tdh
      BY <1>t, <2>1, <2>4 DEF Full, TxTypeOK
    <3> QED
      BY <2>4, <2>5, <3>1, ApartLast
  <2>7. Apart(tx_cur', tdh, TN) = Pending + 1
    <3>1. Apart(tx_cur, tdh, TN) < TN - 1 /\ TN \in Nat \ {0}
      BY <2>4, <2>5, <2>6
    <3>2. Apart(Succ(tx_cur, TN), tdh, TN) = Apart(tx_cur, tdh, TN) + 1
      BY <2>5, <3>1, ApartSucc
    <3> QED
      BY <1>2, <2>4, <3>2
  <2>8. Carries(tx_descs', tdh, Pending + 1, Len(wire), TN)
    <3>1. /\ tx_descs'[tx_cur].frame = Len(wire) + Pending + 1
          /\ \A i \in 0 .. TN - 1 : i # tx_cur => tx_descs'[i] = tx_descs[i]
      BY <1>1, <1>t, <2>2, <2>5 DEF TxTypeOK
    <3>2. ~tx_descs'[tx_cur].done
      BY <1>1, <1>t DEF TxTypeOK
    <3> QED
      BY <2>2, <2>4, <2>5, <3>1, <3>2, FillCarries
  <2>9. TxRing'
    <3>1. wire' = Frames(Len(wire')) /\ Len(wire') <= Announced
      BY <1>1, <2>4, <2>r DEF TxRing
    <3>2. Pending + 1 <= TN - 1
      BY <2>4, <2>5, <2>6
    <3> QED
      BY <1>1, <2>3, <2>7, <2>8, <3>1, <3>2 DEF TxRing
  <2>10. TxEnds'
    BY <1>1, <1>2, <2>3, <2>4, <2>r DEF TxEnds
  <2> QED
    BY <2>9, <2>10
<1> QED
  BY <1>5, <1>6 DEF TxInv

LEMMA WriteTailKeepsTx ==
    ASSUME TxInv, WriteTail
    PROVE  TxInv'
<1>1. /\ UNCHANGED <<tx_descs, tx_cur, tx_old, tdh, fetched, wire, returned, overrun>>
      /\ wpc = "tail" /\ wpc' = "wait" /\ tdt' = tx_cur
  BY DEF WriteTail
<1>t. TxTypeOK
  BY DEF TxInv
<1>2. TxTypeOK'
  BY <1>1, <1>t DEF TxTypeOK
<1>3. /\ Written' = Written /\ Announced = Written - 1 /\ Announced' = Written
      /\ Pending' = Pending /\ Len(wire) \in Nat /\ Written \in Nat
  BY <1>1, <1>t, TxFacts DEF Written, Announced, Pending
<1>4. ASSUME ~overrun
      PROVE  TxRing' /\ TxEnds'
  <2>1. TxRing /\ TxEnds
    BY <1>4 DEF TxInv
  <2>2. TxRing'
    BY <1>1, <1>3, <2>1 DEF TxRing
  <2>3. TxEnds'
    BY <1>1, <1>3, <2>1 DEF TxEnds
  <2> QED
    BY <2>2, <2>3
<1> QED
  BY <1>1, <1>2, <1>4 DEF TxInv

\* e1000_write returns: with its length only when the frame has left.
LEMMA ReturnKeepsTx ==
    ASSUME TxInv, NEW r \in {"len", "0"}, Returns(r), wpc = "wait",
           r = "len" => tx_descs[tx_old].done,
           UNCHANGED <<tx_descs, tx_cur, tx_old, tdh, tdt, fetched, wire, overrun>>
    PROVE  TxInv'
<1> USE TnFacts
<1>t. TxTypeOK
  BY DEF TxInv
<1>1. /\ returned' \in Seq({"len", "0"}) /\ Len(returned') = Len(returned) + 1 /\ wpc' = "idle"
      /\ Len(returned) \in Nat /\ returned'[Len(returned) + 1] = r
      /\ \A k \in 1 .. Len(returned) : returned'[k] = returned[k]
  BY <1>t DEF Returns, TxTypeOK
<1>2. TxTypeOK'
  BY <1>1, <1>t DEF TxTypeOK
<1>3. /\ Written' = Written /\ Announced' = Announced /\ Pending' = Pending
      /\ Written = Len(returned) + 1 /\ Len(wire) \in Nat /\ Pending = Written - Len(wire)
  BY <1>1, <1>t, TxFacts DEF Written, Announced, Pending
<1>4. ASSUME ~overrun
      PROVE  TxRing' /\ TxEnds'
  <2>r. TxRing /\ TxEnds
    BY <1>4 DEF TxInv
  <2>1. TxRing'
    BY <1>3, <2>r DEF TxRing
  <2>2. ASSUME r = "len"
        PROVE  Written <= Len(wire)
    <3> SUFFICES ASSUME Pending >= 1
                 PROVE  FALSE
      BY <1>1, <1>3
    <3>1. Succ(tx_old, TN) = tx_cur /\ Apart(tx_cur, tdh, TN) = Pending
      BY <2>r DEF TxRing, TxEnds
    <3>2. Apart(tx_old, tdh, TN) = Pending - 1
      BY <1>t, <3>1, ApartPred DEF TxTypeOK
    <3>3. Apart(tx_old, tdh, TN) < Pending
      BY <1>1, <1>3, <3>2
    <3>4. ~tx_descs[tx_old].done
      BY <1>t, <2>r, <3>3 DEF TxRing, Carries, TxTypeOK
    <3> QED
      BY <2>2, <3>4
  <2>3. ASSUME NEW k \in 1 .. Len(returned'), returned'[k] = "len"
        PROVE  k <= Len(wire)
    <3>1. CASE k = Len(returned) + 1
      BY <1>1, <1>3, <2>2, <2>3, <3>1
    <3>2. CASE k # Len(returned) + 1
      <4>1. k \in 1 .. Len(returned)
        BY <1>1, <3>2
      <4> QED
        BY <1>1, <2>3, <2>r, <4>1 DEF TxEnds
    <3> QED
      BY <3>1, <3>2
  <2>4. TxEnds'
    BY <1>1, <1>3, <2>3, <2>r DEF TxEnds
  <2> QED
    BY <2>1, <2>4
<1> QED
  BY <1>2, <1>4 DEF TxInv

LEMMA SameTx ==
    ASSUME TxInv, UNCHANGED txRing
    PROVE  TxInv'
  BY DEF TxInv, TxTypeOK, TxRing, TxEnds, Carries, Written, Announced, Pending, txRing

LEMMA TxInvNext == TxInv /\ [E1000Next]_vars => TxInv'
<1> SUFFICES ASSUME TxInv, [E1000Next]_vars
             PROVE  TxInv'
  OBVIOUS
<1>1. CASE Sent
  BY <1>1, ReturnKeepsTx DEF Sent
<1>2. CASE Sleep
  <2>1. CASE timeout' = 0
    BY <1>2, <2>1, ReturnKeepsTx DEF Sleep
  <2>2. CASE timeout' # 0
    BY <1>2, <2>2, SameTx DEF Sleep, txRing
  <2> QED
    BY <2>1, <2>2
<1>3. CASE Receive \/ Overflow \/ SetCause \/ LinkChange \/ UNCHANGED vars
  BY <1>3, SameTx DEF Receive, Overflow, SetCause, LinkChange, vars, txVars, txRing
<1>4. CASE e1000_handler \/ TakeFrame \/ ReturnDescriptor \/ NoFrame
  BY <1>4, SameTx DEF e1000_handler, TakeFrame, ReturnDescriptor, NoFrame, txVars, txRing
<1> QED
  BY <1>1, <1>2, <1>3, <1>4, FetchKeepsTx, TransmitKeepsTx, FillKeepsTx, WriteTailKeepsTx
  DEF E1000Next

\* As long as e1000_write never fills a descriptor of a full ring, the frames
\* leave in the order they were given to it, each once, and a write that
\* returned the length of its frame has been sent, for rings of every length.
THEOREM TransmitRingSafety == E1000Spec => []SentInOrder
<1>1. TxInv => SentInOrder
  <2>1. ASSUME TxInv
        PROVE  DOMAIN returned = 1 .. Len(returned)
    BY <2>1 DEF TxInv, TxTypeOK
  <2> QED
    BY <2>1 DEF TxInv, TxRing, TxEnds, SentInOrder
<1> QED
  BY <1>1, TxInvInit, TxInvNext, PTL DEF E1000Spec
=============================================================================
