--------------------------------- MODULE E1000 ---------------------------------
(***************************************************************************)
(* The descriptor rings of dev/e1000.c, after e1000_init_old has set them  *)
(* up, against a network card that works on them by itself.  The card      *)
(* receives into the descriptors from its head up to the tail the driver   *)
(* writes and transmits in the same way.  e1000_write runs in kmain's      *)
(* context and waits for its frame; e1000_handler interrupts it.           *)
(*                                                                         *)
(* Frames are numbered in the order in which they are received or given to *)
(* e1000_write.                                                            *)
(***************************************************************************)
EXTENDS Integers, Sequences

CONSTANTS E1000_NUM_RX_DESC,  \* 32 in the code
          E1000_NUM_TX_DESC,  \* 8
          Timeout,            \* sleeps before e1000_write gives up, 100
          MaxFrames,          \* bound on the frames received
          MaxWrites,          \* bound on the frames written
          MaxLinkChanges      \* bound on the changes of the link

ASSUME E1000Assumption ==
    /\ E1000_NUM_RX_DESC \in Nat \ {0, 1} /\ E1000_NUM_TX_DESC \in Nat \ {0, 1}
    /\ Timeout \in Nat \ {0}
    /\ MaxFrames \in Nat /\ MaxWrites \in Nat /\ MaxLinkChanges \in Nat

RxSlots == 0 .. E1000_NUM_RX_DESC - 1
TxSlots == 0 .. E1000_NUM_TX_DESC - 1

VARIABLES rx_descs,  \* the frame in each descriptor with status bit 0 set, or 0
          rx_cur,    \* the descriptor e1000_receive looks at next
          old_cur,   \* the one whose number it writes to the tail
          rdh, rdt,  \* RXDESCHEAD, RXDESCTAIL
          stored,    \* number of frames the card has stored
          owed,      \* the card has stored a frame and not yet set the cause
          handled,   \* the frames e1000_receive has seen
          icr,       \* the interrupt causes set
          hpc,       \* where e1000_handler is
          link, link_status, changes
rxVars == <<rx_descs, rx_cur, old_cur, rdh, rdt, stored, owed, handled, icr, hpc,
            link, link_status, changes>>

VARIABLES tx_descs,  \* each descriptor's frame and whether its status is not 0
          tx_cur,    \* the descriptor e1000_write uses next
          tx_old,    \* the one it waits for
          tdh, tdt,  \* TXDESCHEAD, TXDESCTAIL
          fetched,   \* the frame the card is sending, 0 if none
          wire,      \* the frames sent
          returned,  \* what e1000_write returned for each frame: "len" or "0"
          timeout,   \* the sleeps e1000_write has left
          wpc,       \* where e1000_write is
          overrun    \* e1000_write has taken a descriptor the card still owns
txVars == <<tx_descs, tx_cur, tx_old, tdh, tdt, fetched, wire, returned, timeout, wpc, overrun>>

vars == <<rxVars, txVars>>

RxNext(i) == (i + 1) % E1000_NUM_RX_DESC
TxNext(i) == (i + 1) % E1000_NUM_TX_DESC

e1000_rxinit ==
    /\ rx_descs = [i \in RxSlots |-> 0]
    /\ rx_cur = 0 /\ old_cur = 0
    /\ rdh = 0 /\ rdt = E1000_NUM_RX_DESC - 1

e1000_txinit ==
    /\ tx_descs = [i \in TxSlots |-> [frame |-> 0, done |-> TRUE]]
    /\ tx_cur = 0 /\ tx_old = 0
    /\ tdh = 0 /\ tdt = 0

E1000Init ==
    /\ e1000_rxinit
    /\ e1000_txinit
    /\ stored = 0 /\ owed = FALSE /\ handled = <<>>
    /\ icr = {} /\ hpc = "idle"
    /\ link = FALSE /\ link_status = FALSE /\ changes = 0  \* it comes up by itself
    /\ fetched = 0 /\ wire = <<>> /\ returned = <<>>
    /\ timeout = 0 /\ wpc = "idle" /\ overrun = FALSE
-----------------------------------------------------------------------------
(* The card. *)

Receive ==
    /\ stored < MaxFrames
    /\ rdh # rdt
    /\ rx_descs' = [rx_descs EXCEPT ![rdh] = stored + 1]
    /\ rdh' = RxNext(rdh)
    /\ stored' = stored + 1
    /\ owed' = TRUE
    /\ UNCHANGED <<rx_cur, old_cur, rdt, handled, icr, hpc, link, link_status, changes, txVars>>

\* A frame for which there is no descriptor is lost.
Overflow ==
    /\ stored < MaxFrames
    /\ rdh = rdt
    /\ "RXO" \notin icr
    /\ icr' = icr \cup {"RXO"}
    /\ UNCHANGED <<rx_descs, rx_cur, old_cur, rdh, rdt, stored, owed, handled, hpc,
                   link, link_status, changes, txVars>>

SetCause ==
    /\ owed
    /\ owed' = FALSE
    /\ icr' = icr \cup {"RXT0"}
    /\ UNCHANGED <<rx_descs, rx_cur, old_cur, rdh, rdt, stored, handled, hpc,
                   link, link_status, changes, txVars>>

LinkChange ==
    /\ changes < MaxLinkChanges
    /\ changes' = changes + 1
    /\ link' = ~link
    /\ icr' = icr \cup {"LSC"}
    /\ UNCHANGED <<rx_descs, rx_cur, old_cur, rdh, rdt, stored, owed, handled, hpc,
                   link_status, txVars>>

Fetch ==
    /\ fetched = 0 /\ tdh # tdt
    /\ fetched' = tx_descs[tdh].frame
    /\ UNCHANGED <<rxVars, tx_descs, tx_cur, tx_old, tdh, tdt, wire, returned, timeout, wpc, overrun>>

\* Sends the frame and reports it in the descriptor, as CMD_RS asks.
Transmit ==
    /\ fetched # 0
    /\ wire' = Append(wire, fetched)
    /\ tx_descs' = [tx_descs EXCEPT ![tdh].done = TRUE]
    /\ tdh' = TxNext(tdh)
    /\ fetched' = 0
    /\ UNCHANGED <<rxVars, tx_cur, tx_old, tdt, returned, timeout, wpc, overrun>>
-----------------------------------------------------------------------------
(* e1000_handler.  Reading ICR clears it; a cause set later raises the     *)
(* line again, which the interrupt controller keeps until the handler has  *)
(* returned.                                                               *)

e1000_handler ==
    /\ hpc = "idle" /\ icr # {}
    /\ icr' = {}
    /\ hpc' = IF "RXT0" \in icr THEN "receive" ELSE "idle"
    /\ link_status' = IF "RXT0" \notin icr /\ "LSC" \in icr THEN link ELSE link_status
    /\ UNCHANGED <<rx_descs, rx_cur, old_cur, rdh, rdt, stored, owed, handled, link, changes, txVars>>

\* A frame taken from its descriptor whose status is left as it is.
TakeFrameKeepsStatus ==
    /\ hpc = "receive" /\ rx_descs[rx_cur] # 0
    /\ handled' = Append(handled, rx_descs[rx_cur])
    /\ old_cur' = rx_cur
    /\ rx_cur' = RxNext(rx_cur)
    /\ hpc' = "tail"
    /\ Len(handled) <= MaxFrames
    /\ UNCHANGED <<rx_descs, rdh, rdt, stored, owed, icr, link, link_status, changes, txVars>>

TakeFrame ==
    /\ hpc = "receive" /\ rx_descs[rx_cur] # 0
    /\ handled' = Append(handled, rx_descs[rx_cur])
    /\ rx_descs' = [rx_descs EXCEPT ![rx_cur] = 0]
    /\ old_cur' = rx_cur
    /\ rx_cur' = RxNext(rx_cur)
    /\ hpc' = "tail"
    /\ UNCHANGED <<rdh, rdt, stored, owed, icr, link, link_status, changes, txVars>>

\* The tail one descriptor too far, so that it meets the head.
ReturnDescriptorFar ==
    /\ hpc = "tail"
    /\ rdt' = rx_cur
    /\ hpc' = "receive"
    /\ UNCHANGED <<rx_descs, rx_cur, old_cur, rdh, stored, owed, handled, icr,
                   link, link_status, changes, txVars>>

\* One frame per interrupt.
ReturnDescriptorOnce ==
    /\ hpc = "tail"
    /\ rdt' = old_cur
    /\ hpc' = "idle"
    /\ UNCHANGED <<rx_descs, rx_cur, old_cur, rdh, stored, owed, handled, icr,
                   link, link_status, changes, txVars>>

ReturnDescriptor ==
    /\ hpc = "tail"
    /\ rdt' = old_cur
    /\ hpc' = "receive"
    /\ UNCHANGED <<rx_descs, rx_cur, old_cur, rdh, stored, owed, handled, icr,
                   link, link_status, changes, txVars>>

NoFrame ==
    /\ hpc = "receive" /\ rx_descs[rx_cur] = 0
    /\ hpc' = "idle"
    /\ UNCHANGED <<rx_descs, rx_cur, old_cur, rdh, rdt, stored, owed, handled, icr,
                   link, link_status, changes, txVars>>
-----------------------------------------------------------------------------
(* e1000_write, which makes no step while the handler runs. *)

\* The card also takes a ring whose tail has come round to its head for empty.
Full == TxNext(tdt) = tdh

\* Fill that leaves the status e1000_txinit or the card has set.
FillKeepsStatus ==
    /\ hpc = "idle" /\ wpc = "idle" /\ Len(returned) < MaxWrites
    /\ tx_descs' = [tx_descs EXCEPT ![tx_cur].frame = Len(returned) + 1]
    /\ tx_old' = tx_cur
    /\ tx_cur' = TxNext(tx_cur)
    /\ overrun' = (overrun \/ Full)
    /\ wpc' = "tail"
    /\ UNCHANGED <<rxVars, tdh, tdt, fetched, wire, returned, timeout>>

Fill ==
    /\ hpc = "idle" /\ wpc = "idle" /\ Len(returned) < MaxWrites
    /\ tx_descs' = [tx_descs EXCEPT ![tx_cur] = [frame |-> Len(returned) + 1, done |-> FALSE]]
    /\ tx_old' = tx_cur
    /\ tx_cur' = TxNext(tx_cur)
    /\ overrun' = (overrun \/ Full)
    /\ wpc' = "tail"
    /\ UNCHANGED <<rxVars, tdh, tdt, fetched, wire, returned, timeout>>

\* The tail at the descriptor just filled, not past it.
WriteTailOld ==
    /\ hpc = "idle" /\ wpc = "tail"
    /\ tdt' = tx_old
    /\ timeout' = Timeout
    /\ wpc' = "wait"
    /\ UNCHANGED <<rxVars, tx_descs, tx_cur, tx_old, tdh, fetched, wire, returned, overrun>>

WriteTail ==
    /\ hpc = "idle" /\ wpc = "tail"
    /\ tdt' = tx_cur
    /\ timeout' = Timeout
    /\ wpc' = "wait"
    /\ UNCHANGED <<rxVars, tx_descs, tx_cur, tx_old, tdh, fetched, wire, returned, overrun>>

Returns(r) == returned' = Append(returned, r) /\ wpc' = "idle"

Sent ==
    /\ hpc = "idle" /\ wpc = "wait" /\ tx_descs[tx_old].done
    /\ Returns("len")
    /\ UNCHANGED <<rxVars, tx_descs, tx_cur, tx_old, tdh, tdt, fetched, wire, timeout, overrun>>

Sleep ==
    /\ hpc = "idle" /\ wpc = "wait" /\ ~tx_descs[tx_old].done
    /\ timeout' = timeout - 1
    /\ IF timeout' = 0 THEN Returns("0") ELSE UNCHANGED <<returned, wpc>>
    /\ UNCHANGED <<rxVars, tx_descs, tx_cur, tx_old, tdh, tdt, fetched, wire, overrun>>

E1000Next ==
    \/ Receive \/ Overflow \/ SetCause \/ LinkChange \/ Fetch \/ Transmit
    \/ e1000_handler \/ TakeFrame \/ ReturnDescriptor \/ NoFrame
    \/ Fill \/ WriteTail \/ Sent \/ Sleep

\* The card sends what it is given and raises its line, interrupts are taken,
\* and the handler and e1000_write go on.
E1000Spec ==
    /\ E1000Init /\ [][E1000Next]_vars
    /\ WF_vars(SetCause) /\ WF_vars(Fetch) /\ WF_vars(Transmit)
    /\ WF_vars(e1000_handler) /\ WF_vars(TakeFrame \/ ReturnDescriptor \/ NoFrame)
    /\ WF_vars(WriteTail \/ Sent \/ Sleep)
-----------------------------------------------------------------------------
(* Properties *)

Frames(n) == [i \in 1 .. n |-> i]

Waiting == stored - Len(handled)

\* e1000_receive sees every frame the card has stored exactly once and in the
\* order of arrival: those it has not seen yet are in the descriptors from
\* rx_cur on, and no other descriptor looks received.
ReceivedInOrder ==
    /\ handled = Frames(Len(handled))
    /\ Waiting \in 0 .. E1000_NUM_RX_DESC - 1
    /\ \A i \in RxSlots :
         LET k == (i - rx_cur) % E1000_NUM_RX_DESC
         IN  rx_descs[i] = IF k < Waiting THEN Len(handled) + 1 + k ELSE 0

\* The tail that e1000_receive writes gives every descriptor back to the card
\* but one: those the card may fill and those that wait are always all the
\* others, so reception never comes to a stop.
NoDescriptorLost ==
    hpc # "tail" => ((rdt - rdh) % E1000_NUM_RX_DESC) + Waiting = E1000_NUM_RX_DESC - 1

\* Every frame stored is seen by e1000_receive, also one stored while the
\* handler is about to return and one whose interrupt cause comes late.
ReceivedIsHandled == \A k \in 1 .. MaxFrames : (stored >= k) ~> (Len(handled) >= k)

\* The frames leave in the order of the calls of e1000_write, each once, those
\* whose wait timed out included, and e1000_write returns len only for frames
\* that have left; as long as it has never reused a descriptor the card owned.
SentInOrder ==
    ~overrun => /\ wire = Frames(Len(wire))
                /\ \A k \in DOMAIN returned : returned[k] = "len" => k <= Len(wire)

\* A frame given to e1000_write is sent sooner or later, whatever e1000_write
\* has returned, unless the ring is overrun.
WrittenIsSent ==
    \A k \in 1 .. MaxWrites : (Len(returned) >= k) ~> (Len(wire) >= k \/ overrun)
=============================================================================
