--------------------------- MODULE InterruptsProofs ---------------------------
(***************************************************************************)
(* Proofs about Interrupts for any set of lines, any set of exceptions and *)
(* any nesting depth.                                                      *)
(***************************************************************************)
EXTENDS Interrupts, SequenceTheorems, TLAPS

\* The in-service bits an acknowledge of vector v can have set.
AcknowledgedBits(v, bits) ==
    \/ bits = {v - 32, MasterBit(v - 32)}
    \/ v = 39 /\ bits = {}
    \/ v = 47 /\ bits = {2}

\* What the processor's flag is while a frame runs.
FlagOfTop ==
    /\ InMain => iflag \in {"off", "on"}
    /\ ~InMain => iflag = IF Top.stage = "iret" THEN "shadow" ELSE "off"

\* Only the outermost frame can be an interrupt's, and frames below the
\* running one are inside their C handler.
FrameOrder ==
    \A i \in DOMAIN frames :
        /\ i < Len(frames) => frames[i].stage = "entry"
        /\ i > 1 => ~IsIrq(frames[i]) /\ frames[i].saved = "off"

FrameContents ==
    \A i \in DOMAIN frames :
        /\ IsIrq(frames[i]) => AcknowledgedBits(frames[i].vector, frames[i].bits)
        /\ frames[i].extra = IF frames[i].stage = "iret" THEN 0 ELSE 2

ServiceMatchesFrame ==
    inService = IF ~InMain /\ IsIrq(frames[1]) /\ frames[1].stage = "entry"
                THEN frames[1].bits ELSE {}

\* The inductive invariant.
IntInv ==
    /\ IntTypeOK
    /\ FlagOfTop
    /\ FrameOrder
    /\ FrameContents
    /\ ServiceMatchesFrame

-----------------------------------------------------------------------------
(* The end-of-interrupt commands *)

\* A non-specific end of interrupt with one bit in service clears it.
LEMMA ClearOnly ==
    ASSUME NEW x \in Int
    PROVE  ClearHighest({x}) = {}
  <1>1. Min({x}) = x
    BY DEF Min
  <1>2. QED
    BY <1>1 DEF ClearHighest

\* The commands irq_handler sends for vector v clear exactly the bits that
\* acknowledging v has set.
LEMMA EoiClearsAcknowledged ==
    ASSUME NEW v \in IrqVectors, NEW bits, AcknowledgedBits(v, bits)
    PROVE  SlaveEoi(v, bits) \cup MasterEoi(bits) = {}
  <1> USE DEF IrqVectors
  <1>0. ClearHighest({}) = {}
    BY DEF ClearHighest
  <1>1. CASE v < 40 /\ bits = {v - 32, MasterBit(v - 32)}
    <2>0. MasterBit(v - 32) = v - 32 /\ v - 32 \in 0..7 /\ v - 32 \notin 8..15
      BY <1>1 DEF MasterBit
    <2>1. bits \cap (8..15) = {} /\ bits \cap (0..7) = {v - 32}
      BY <1>1, <2>0, Zenon
    <2>2. QED
      BY <1>1, <2>1, ClearOnly DEF SlaveEoi, MasterEoi
  <1>2. CASE v >= 40 /\ bits = {v - 32, MasterBit(v - 32)}
    <2>0. MasterBit(v - 32) = 2 /\ v - 32 \in 8..15 /\ v - 32 \notin 0..7
          /\ 2 \in 0..7 /\ 2 \notin 8..15
      BY <1>2 DEF MasterBit
    <2>1. bits \cap (8..15) = {v - 32} /\ bits \cap (0..7) = {2}
      BY <1>2, <2>0, Zenon
    <2>2. QED
      BY <1>2, <2>1, ClearOnly DEF SlaveEoi, MasterEoi
  <1>3. CASE v = 39 /\ bits = {}
    <2>1. bits \cap (8..15) = {} /\ bits \cap (0..7) = {}
      BY <1>3
    <2>2. QED
      BY <1>3, <2>1, <1>0 DEF SlaveEoi, MasterEoi
  <1>4. CASE v = 47 /\ bits = {2}
    <2>1. bits \cap (8..15) = {} /\ bits \cap (0..7) = {2}
      BY <1>4
    <2>2. QED
      BY <1>4, <2>1, <1>0, ClearOnly DEF SlaveEoi, MasterEoi
  <1>5. QED
    BY <1>1, <1>2, <1>3, <1>4 DEF AcknowledgedBits

-----------------------------------------------------------------------------
(* Entering and leaving a frame *)

\* Whichever stub a vector has, two words lie above the return address.
LEMMA TwoWords ==
    ASSUME NEW v \in Vectors
    PROVE  1 + Word(CpuErrorCode(v)) + Word(StubDummy(v)) = 2
  BY InterruptsAssumption
  DEF Vectors, IrqVectors, SyscallVector, Word, CpuErrorCode, StubDummy

\* Entering a frame from main, or from the C handler of the running frame.
LEMMA EnterFromMain ==
    ASSUME IntInv, InMain, NEW v \in Vectors, NEW bits \in SUBSET (0..15),
           EnterFrame(v, bits), irr' \subseteq Lines,
           v \in IrqVectors => AcknowledgedBits(v, bits),
           inService' = IF v \in IrqVectors THEN bits ELSE {}
    PROVE  IntInv'
  <1> DEFINE f == [vector |-> v, bits |-> bits, stage |-> "entry",
                   saved |-> IF iflag = "off" THEN "off" ELSE "on", extra |-> 2]
  <1>1. frames = <<>> /\ frames' = <<f>> /\ iflag' = "off"
        /\ int_handlers' = int_handlers
    BY TwoWords DEF InMain, EnterFrame
  <1>2. f \in Frame
    BY DEF Frame
  <1>3. Len(frames') = 1 /\ frames'[1] = f /\ DOMAIN frames' = {1} /\ frames' # <<>>
    BY <1>1
  <1> HIDE DEF f
  <1>4. f.vector = v /\ f.bits = bits /\ f.stage = "entry" /\ f.extra = 2
    BY DEF f
  <1>5. IntTypeOK'
    BY <1>1, <1>2 DEF IntInv, IntTypeOK
  <1>6. FlagOfTop'
    BY <1>1, <1>3, <1>4 DEF FlagOfTop, InMain, Top
  <1>7. FrameOrder' /\ FrameContents'
    BY <1>3, <1>4 DEF FrameOrder, FrameContents, IsIrq
  <1>8. ServiceMatchesFrame'
    BY <1>3, <1>4 DEF ServiceMatchesFrame, InMain, IsIrq
  <1> QED
    BY <1>5, <1>6, <1>7, <1>8 DEF IntInv

LEMMA EnterFromHandler ==
    ASSUME IntInv, ~InMain, Top.stage = "entry", NEW v \in Exceptions,
           EnterFrame(v, {}), UNCHANGED <<irr, inService>>
    PROVE  IntInv'
  <1> DEFINE f == [vector |-> v, bits |-> {}, stage |-> "entry",
                   saved |-> "off", extra |-> 2]
             n == Len(frames)
  <1>0. v \in Vectors /\ v \notin IrqVectors
    BY InterruptsAssumption DEF Vectors, IrqVectors
  <1>1. iflag = "off" /\ n \in Nat /\ n > 0 /\ frames \in Seq(Frame)
    BY DEF IntInv, FlagOfTop, InMain, IntTypeOK
  <1>2. frames' = Append(frames, f) /\ iflag' = "off" /\ int_handlers' = int_handlers
    BY <1>0, <1>1, TwoWords DEF EnterFrame
  <1>3. f \in Frame
    BY <1>0 DEF Frame
  <1>4. /\ frames' \in Seq(Frame) /\ Len(frames') = n + 1 /\ frames'[n + 1] = f
        /\ \A i \in 1..n : frames'[i] = frames[i]
        /\ frames' # <<>>
    BY <1>1, <1>2, <1>3
  <1>4a. DOMAIN frames = 1..n /\ DOMAIN frames' = 1..(n + 1)
    BY <1>1, <1>4
  <1> HIDE DEF f, n
  <1>5. f.vector = v /\ f.bits = {} /\ f.stage = "entry" /\ f.extra = 2 /\ f.saved = "off"
    BY DEF f
  <1>6. IntTypeOK'
    BY <1>2, <1>4 DEF IntInv, IntTypeOK
  <1>7. FlagOfTop'
    BY <1>2, <1>4, <1>5 DEF FlagOfTop, InMain, Top
  <1>8. FrameOrder'
    <2> SUFFICES ASSUME NEW i \in 1..(n + 1)
                 PROVE  /\ i < n + 1 => frames'[i].stage = "entry"
                        /\ i > 1 => ~IsIrq(frames'[i]) /\ frames'[i].saved = "off"
      BY <1>4, <1>4a DEF FrameOrder, IsIrq
    <2>1. CASE i = n + 1
      BY <2>1, <1>0, <1>1, <1>4, <1>5 DEF IsIrq
    <2>2. CASE i \in 1..n
      BY <2>2, <1>1, <1>4, <1>4a DEF IntInv, FrameOrder, IsIrq, Top, n
    <2> QED BY <2>1, <2>2, <1>1
  <1>9. FrameContents'
    <2> SUFFICES ASSUME NEW i \in 1..(n + 1)
                 PROVE  /\ IsIrq(frames'[i]) =>
                             AcknowledgedBits(frames'[i].vector, frames'[i].bits)
                        /\ frames'[i].extra = IF frames'[i].stage = "iret" THEN 0 ELSE 2
      BY <1>4a DEF FrameContents, IsIrq, AcknowledgedBits, MasterBit
    <2>1. CASE i = n + 1
      BY <2>1, <1>0, <1>4, <1>5 DEF IsIrq
    <2>2. CASE i \in 1..n
      BY <2>2, <1>4, <1>4a DEF IntInv, FrameContents, IsIrq
    <2> QED BY <2>1, <2>2, <1>1
  <1>10. ServiceMatchesFrame'
    BY <1>1, <1>4 DEF IntInv, ServiceMatchesFrame, InMain, IsIrq
  <1> QED
    BY <1>6, <1>7, <1>8, <1>9, <1>10 DEF IntInv

\* A frame whose stage and extra words change is a frame.
LEMMA ExceptFrame ==
    ASSUME NEW f \in Frame, NEW st \in {"entry", "sti", "iret"}, NEW e \in 0..3
    PROVE  [f EXCEPT !.stage = st, !.extra = e] \in Frame
  <1>1. [f EXCEPT !.stage = st] \in Frame
    BY DEF Frame
  <1>2. [[f EXCEPT !.stage = st] EXCEPT !.extra = e] \in Frame
    BY <1>1 DEF Frame
  <1> QED
    BY <1>2

\* A handler or a stub moves the running frame on to stage st.
LEMMA MoveOn ==
    ASSUME IntInv, ~InMain, NEW st \in {"sti", "iret"},
           NEW e \in 0..3, e = IF st = "iret" THEN 0 ELSE 2,
           frames' = [frames EXCEPT ![Len(frames)].stage = st,
                                    ![Len(frames)].extra = e],
           iflag' = IF st = "iret" THEN "shadow" ELSE "off",
           inService' = IF Len(frames) = 1 THEN {} ELSE inService,
           UNCHANGED <<irr, int_handlers>>
    PROVE  IntInv'
  <1> DEFINE n == Len(frames)
             g == [frames[n] EXCEPT !.stage = st, !.extra = e]
  <1>1. n \in Nat /\ n > 0 /\ frames \in Seq(Frame) /\ DOMAIN frames = 1..n
    BY DEF IntInv, InMain, IntTypeOK
  <1>2. frames[n] \in Frame
    BY <1>1
  <1>3. g \in Frame
    BY <1>2, ExceptFrame
  <1>4. frames' = [frames EXCEPT ![n] = g]
    BY <1>1, <1>2 DEF Frame
  <1>5. /\ g.stage = st /\ g.extra = e
        /\ g.vector = frames[n].vector /\ g.bits = frames[n].bits
        /\ g.saved = frames[n].saved
    BY <1>2 DEF Frame
  <1> HIDE DEF g, n
  <1>6. /\ frames' \in Seq(Frame) /\ Len(frames') = n /\ frames'[n] = g
        /\ \A i \in 1..n : i # n => frames'[i] = frames[i]
        /\ DOMAIN frames' = 1..n /\ frames' # <<>>
    <2>1. frames' \in Seq(Frame) /\ Len(frames') = n
      BY <1>1, <1>3, <1>4, ExceptSeq
    <2>2. DOMAIN frames' = 1..n /\ frames' # <<>>
      BY <2>1, <1>1
    <2> QED BY <2>1, <2>2, <1>1, <1>4
  <1>7. inService' \subseteq 0..15
    BY DEF IntInv, IntTypeOK
  <1>8. IntTypeOK'
    BY <1>6, <1>7 DEF IntInv, IntTypeOK
  <1>9. FlagOfTop'
    BY <1>1, <1>5, <1>6 DEF FlagOfTop, InMain, Top
  <1>10. FrameOrder'
    <2>1. FrameOrder
      BY DEF IntInv
    <2> QED BY <2>1, <1>1, <1>5, <1>6 DEF FrameOrder, IsIrq, n
  <1>11. FrameContents'
    <2>1. FrameContents
      BY DEF IntInv
    <2> QED BY <2>1, <1>1, <1>5, <1>6 DEF FrameContents, IsIrq
  <1>12. ServiceMatchesFrame'
    <2>1. ServiceMatchesFrame /\ ~InMain
      BY DEF IntInv
    <2>2. CASE n = 1
      BY <2>2, <1>5, <1>6 DEF ServiceMatchesFrame, InMain, n
    <2>3. CASE n # 1
      BY <2>1, <2>3, <1>1, <1>6 DEF ServiceMatchesFrame, InMain, IsIrq, n
    <2> QED BY <2>2, <2>3
  <1> QED
    BY <1>8, <1>9, <1>10, <1>11, <1>12 DEF IntInv

LEMMA IretKeeps ==
    ASSUME IntInv, Iret
    PROVE  IntInv'
  <1> DEFINE n == Len(frames)
  <1>1. n \in Nat /\ n > 0 /\ frames \in Seq(Frame) /\ DOMAIN frames = 1..n
    BY DEF IntInv, InMain, IntTypeOK, Iret
  <1>2. /\ frames' \in Seq(Frame) /\ Len(frames') = n - 1
        /\ \A i \in 1..(n - 1) : frames'[i] = frames[i]
        /\ DOMAIN frames' = 1..(n - 1)
        /\ frames' = <<>> <=> n = 1
    <2>1. frames' = SubSeq(frames, 1, n - 1) /\ n - 1 \in 0..n
      BY <1>1 DEF Iret
    <2>2. /\ frames' \in Seq(Frame) /\ Len(frames') = n - 1
          /\ \A i \in 1..(n - 1) : frames'[i] = frames[i]
      BY <2>1, <1>1, SubSeqProperties
    <2> QED BY <2>2, <1>1
  <1>3. frames[n] \in Frame /\ frames[n].stage = "iret" /\ iflag' = frames[n].saved
    BY <1>1 DEF Iret, Top
  <1> HIDE DEF n
  <1>4. UNCHANGED <<int_handlers, irr, inService>>
    BY DEF Iret
  <1>5. FlagOfTop'
    <2>1. n > 1 => frames[n].saved = "off" /\ frames[n - 1].stage = "entry"
      BY <1>1 DEF IntInv, FrameOrder, n
    <2>2. frames[n].saved \in {"off", "on"}
      BY <1>3 DEF Frame
    <2> QED BY <2>1, <2>2, <1>1, <1>2, <1>3 DEF FlagOfTop, InMain, Top
  <1>6. FrameOrder'
    <2>1. FrameOrder
      BY DEF IntInv
    <2> QED BY <2>1, <1>1, <1>2 DEF FrameOrder, IsIrq, n
  <1>7. FrameContents'
    <2>1. FrameContents
      BY DEF IntInv
    <2> QED BY <2>1, <1>1, <1>2 DEF FrameContents, IsIrq
  <1>8. ServiceMatchesFrame'
    <2>1. ServiceMatchesFrame /\ ~InMain
      BY DEF IntInv, Iret
    <2>2. CASE n = 1
      BY <2>1, <2>2, <1>1, <1>2, <1>3, <1>4 DEF ServiceMatchesFrame, InMain
    <2>3. CASE n # 1
      BY <2>1, <2>3, <1>1, <1>2, <1>4 DEF ServiceMatchesFrame, InMain, IsIrq
    <2> QED BY <2>2, <2>3
  <1>9. IntTypeOK'
    <2>1. iflag' \in {"off", "shadow", "on"}
      BY <1>3 DEF Frame
    <2> QED BY <2>1, <1>2, <1>4 DEF IntInv, IntTypeOK
  <1> QED
    BY <1>5, <1>6, <1>7, <1>8, <1>9 DEF IntInv

\* The running frame, as the invariant describes it.
LEMMA TopFrame ==
    ASSUME IntInv, ~InMain
    PROVE  /\ Len(frames) \in Nat /\ Len(frames) > 0 /\ Top \in Frame
           /\ frames \in Seq(Frame)
           /\ Top.extra = IF Top.stage = "iret" THEN 0 ELSE 2
           /\ IsIrq(Top) => Len(frames) = 1
           /\ IsIrq(Top) => AcknowledgedBits(Top.vector, Top.bits)
           /\ Len(frames) = 1 /\ (Top.stage # "entry" \/ ~IsIrq(Top)) => inService = {}
           /\ IsIrq(Top) /\ Top.stage = "entry" => inService = Top.bits
  <1>1. /\ Len(frames) \in Nat /\ Len(frames) > 0 /\ frames \in Seq(Frame)
        /\ Len(frames) \in DOMAIN frames
    BY DEF IntInv, IntTypeOK, InMain
  <1>2. Top \in Frame
    BY <1>1 DEF Top
  <1>3. /\ Top.extra = IF Top.stage = "iret" THEN 0 ELSE 2
        /\ IsIrq(Top) => AcknowledgedBits(Top.vector, Top.bits)
    BY <1>1 DEF IntInv, FrameContents, Top
  <1>4. IsIrq(Top) => Len(frames) = 1
    BY <1>1 DEF IntInv, FrameOrder, Top
  <1>5. Len(frames) = 1 => Top = frames[1]
    BY DEF Top
  <1> QED
    BY <1>1, <1>2, <1>3, <1>4, <1>5 DEF IntInv, ServiceMatchesFrame

LEMMA HandlersKeep ==
    ASSUME IntInv, isr_handler \/ irq_handler \/ StubReturn
    PROVE  IntInv'
  <1> DEFINE n == Len(frames)
  <1>0. ~InMain
    BY DEF isr_handler, irq_handler, StubReturn
  <1>1. CASE isr_handler
    <2>1. Top.extra = 2 /\ iflag = "off"
      BY <1>0, <1>1, TopFrame DEF isr_handler, IntInv, FlagOfTop
    <2>2. frames' = [frames EXCEPT ![n].stage = "sti", ![n].extra = 2]
      BY <1>0, <1>1, <2>1, TopFrame DEF isr_handler, Stage, Top, Frame
    <2>3. inService' = IF n = 1 THEN {} ELSE inService
      BY <1>0, <1>1, TopFrame DEF isr_handler
    <2> QED
      BY <1>0, <1>1, <2>1, <2>2, <2>3, MoveOn DEF isr_handler
  <1>2. CASE irq_handler
    <2>1. Top.extra = 2 /\ iflag = "off" /\ n = 1 /\ inService = Top.bits
          /\ Top.vector \in IrqVectors /\ AcknowledgedBits(Top.vector, Top.bits)
      BY <1>0, <1>2, TopFrame DEF irq_handler, IntInv, FlagOfTop, IsIrq
    <2>2. frames' = [frames EXCEPT ![n].stage = "sti", ![n].extra = 2]
      BY <1>0, <1>2, <2>1, TopFrame DEF irq_handler, Stage, Top, Frame
    <2>3. inService' = {}
      BY <1>2, <2>1, EoiClearsAcknowledged DEF irq_handler
    <2> QED
      BY <1>0, <1>2, <2>1, <2>2, <2>3, MoveOn DEF irq_handler
  <1>3. CASE StubReturn
    <2>1. Top.extra = 2 /\ Top.stage = "sti"
      BY <1>0, <1>3, TopFrame DEF StubReturn
    <2>2. frames' = [frames EXCEPT ![n].stage = "iret", ![n].extra = 0]
      BY <1>0, <1>3, <2>1, TopFrame DEF StubReturn, Top, Frame
    <2>3. inService' = IF n = 1 THEN {} ELSE inService
      BY <1>0, <1>3, <2>1, TopFrame DEF StubReturn
    <2>4. iflag' = "shadow" /\ UNCHANGED <<irr, int_handlers>>
      BY <1>3 DEF StubReturn
    <2> QED
      BY <1>0, <2>2, <2>3, <2>4, MoveOn
  <1> QED
    BY <1>1, <1>2, <1>3

-----------------------------------------------------------------------------
(* The invariant *)

LEMMA IntInvInit == IntInit => IntInv
  BY DEF IntInit, IntInv, IntTypeOK, FlagOfTop, FrameOrder, FrameContents,
         ServiceMatchesFrame, InMain

LEMMA IntInvNext ==
    ASSUME IntInv, [IntNext]_intVars
    PROVE  IntInv'
  <1> USE DEF IntInv
  <1>1. ASSUME NEW l \in Lines, Raise(l)
        PROVE  IntInv'
    BY <1>1 DEF Raise, IntTypeOK, FlagOfTop, FrameOrder, FrameContents,
                ServiceMatchesFrame, InMain, Top, IsIrq
  <1>2. ASSUME NEW l \in Lines, Accept(l)
        PROVE  IntInv'
    <2>1. l \in 0..15 /\ MasterBit(l) \in 0..15
      BY InterruptsAssumption DEF MasterBit
    <2>2. IrqVector(l) \in IrqVectors /\ IrqVector(l) \in Vectors
          /\ AcknowledgedBits(IrqVector(l), {l, MasterBit(l)})
      BY <2>1 DEF IrqVector, IrqVectors, Vectors, AcknowledgedBits
    <2>3. InMain /\ inService = {}
      BY <1>2 DEF Accept, FlagOfTop, ServiceMatchesFrame
    <2> QED
      BY <1>2, <2>1, <2>2, <2>3, EnterFromMain DEF Accept, IntTypeOK
  <1>3. ASSUME NEW l \in {7, 15}, AcceptSpurious(l)
        PROVE  IntInv'
    <2> DEFINE bits == IF l = 15 THEN {2} ELSE {}
    <2>1. bits \in SUBSET (0..15) /\ AcknowledgedBits(IrqVector(l), bits)
          /\ IrqVector(l) \in IrqVectors /\ IrqVector(l) \in Vectors
      BY DEF IrqVector, IrqVectors, Vectors, AcknowledgedBits
    <2>2. InMain /\ inService = {}
      BY <1>3 DEF AcceptSpurious, FlagOfTop, ServiceMatchesFrame
    <2>3. inService' = bits /\ EnterFrame(IrqVector(l), bits) /\ irr' \subseteq Lines
      BY <1>3, <2>2 DEF AcceptSpurious, IntTypeOK
    <2> QED
      BY <2>1, <2>2, <2>3, EnterFromMain
  <1>4. ASSUME NEW v \in Exceptions, Exception(v)
        PROVE  IntInv'
    <2>1. v \in Vectors /\ v \notin IrqVectors
      BY InterruptsAssumption DEF Vectors, IrqVectors
    <2>2. CASE InMain
      BY <1>4, <2>1, <2>2, EnterFromMain DEF Exception, ServiceMatchesFrame, IntTypeOK
    <2>3. CASE ~InMain
      BY <1>4, <2>1, <2>3, EnterFromHandler DEF Exception
    <2> QED
      BY <2>2, <2>3
  <1>5. ASSUME SoftInt
        PROVE  IntInv'
    <2>1. SyscallVector \in Vectors /\ SyscallVector \notin IrqVectors
      BY DEF SyscallVector, Vectors, IrqVectors
    <2> QED
      BY <1>5, <2>1, EnterFromMain DEF SoftInt, ServiceMatchesFrame, IntTypeOK
  <1>6. ASSUME NEW r \in Registrations, int_regh(r[1], r[2])
        PROVE  IntInv'
    <2>1. r[1] \in Vectors /\ r[2] \in Handlers
      BY InterruptsAssumption
    <2>2. int_handlers' \in [Vectors -> Handlers \cup {NoHandler}]
      BY <1>6, <2>1 DEF int_regh, IntTypeOK
    <2> QED
      BY <1>6, <2>2 DEF int_regh, IntTypeOK, FlagOfTop, FrameOrder, FrameContents,
                        ServiceMatchesFrame, InMain, Top, IsIrq
  <1>7. ASSUME Sti
        PROVE  IntInv'
    BY <1>7 DEF Sti, IntTypeOK, FlagOfTop, FrameOrder, FrameContents,
                ServiceMatchesFrame, InMain, Top, IsIrq
  <1>8. CASE UNCHANGED intVars
    BY <1>8 DEF intVars, IntTypeOK, FlagOfTop, FrameOrder, FrameContents,
                ServiceMatchesFrame, InMain, Top, IsIrq
  <1> QED
    BY <1>1, <1>2, <1>3, <1>4, <1>5, <1>6, <1>7, <1>8, HandlersKeep, IretKeeps
    DEF IntNext

\* For every set of lines, exceptions and nesting depth:
\* no handler is ever interrupted by a line, an in-service bit
\* belongs to a handler that has not sent its end of interrupt, and every
\* stub returns with the return address on top of the stack.
THEOREM InterruptSafety ==
    IntSpec => [](IntTypeOK /\ NoNestedIrq /\ InServiceOnlyInHandler /\ ReturnAddressOnTop)
  <1>1. IntInv => IntTypeOK /\ NoNestedIrq /\ InServiceOnlyInHandler /\ ReturnAddressOnTop
    <2> SUFFICES ASSUME IntInv
                 PROVE  NoNestedIrq /\ InServiceOnlyInHandler /\ ReturnAddressOnTop
      BY DEF IntInv
    <2>0. DOMAIN frames = 1..Len(frames) /\ Len(frames) \in Nat
          /\ (~InMain => 1 \in DOMAIN frames)
      BY DEF IntInv, IntTypeOK, InMain
    <2>1. NoNestedIrq
      BY <2>0 DEF IntInv, FrameOrder, NoNestedIrq
    <2>2. InServiceOnlyInHandler
      BY <2>0 DEF IntInv, ServiceMatchesFrame, InServiceOnlyInHandler
    <2>3. ReturnAddressOnTop
      BY DEF IntInv, FrameContents, ReturnAddressOnTop
    <2> QED
      BY <2>1, <2>2, <2>3
  <1> QED
    BY <1>1, IntInvInit, IntInvNext, PTL DEF IntSpec
=============================================================================
