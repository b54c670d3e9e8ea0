----------------------------- MODULE MemoryProofs -----------------------------
(***************************************************************************)
(* Proofs about Memory for every width, page size, memory map and set of   *)
(* allocation sizes.                                                       *)
(***************************************************************************)
EXTENDS Memory, SequenceTheorems, TLAPS

-----------------------------------------------------------------------------
(* Rounding a size up to pages *)

LEMMA DivMod ==
    ASSUME NEW w \in Nat, w > 0, NEW x \in Nat
    PROVE  /\ x \div w \in Nat
           /\ (x % w) \in 0..(w - 1)
           /\ x = w * (x \div w) + (x % w)
  OBVIOUS

LEMMA DivExact ==
    ASSUME NEW w \in Nat, w > 0, NEW q \in Nat
    PROVE  (w * q) \div w = q
  OBVIOUS

LEMMA ModSmall ==
    ASSUME NEW w \in Nat, NEW x \in Nat, x < w
    PROVE  x % w = x
  OBVIOUS

LEMMA WholePages ==
    ASSUME NEW w \in Nat, NEW p \in Nat, p > 0, NEW m \in 0..(w - 1)
    PROVE  /\ m \div p \in Nat /\ (m \div p) * p <= m
           /\ m \div p \in 0..(w - 1)
  <1> DEFINE q == m \div p
  <1>1. q \in Nat /\ (m % p) \in 0..(p - 1) /\ m = p * q + (m % p)
    BY DivMod
  <1> HIDE DEF q
  <1>2. q * p <= m /\ q <= m
    BY <1>1
  <1> QED BY <1>1, <1>2 DEF q

\* The pages mmgmt_alloc takes for a size hold at least that many bytes,
\* and the rounding does not wrap.
LEMMA PagesHoldSize ==
    ASSUME NEW size \in Sizes
    PROVE  /\ Pages(size) \in Nat /\ Pages(size) > 0
           /\ size < Pages(size) * PageSize
           /\ Pages(size) * PageSize < Width
  <1> DEFINE P == PageSize
             q == size \div P
             r == size % P
             k == Width \div P
  <1>0. P \in Nat /\ P > 1 /\ Width \in Nat /\ size \in Nat /\ size < Width - P
        /\ Width % P = 0
    BY MemoryAssumption
  <1>1. q \in Nat /\ r \in 0..(P - 1) /\ size = P * q + r
    BY <1>0, DivMod
  <1>2. k \in Nat /\ Width = P * k
    BY <1>0, DivMod
  <1> HIDE DEF q, r, k
  <1>3. size + (P - r) = P * (q + 1)
    BY <1>0, <1>1
  <1>4. P * (q + 1) < Width
    BY <1>0, <1>1
  <1>5. RoundUp(size) = P * (q + 1)
    <2>1. P * (q + 1) \in Nat
      BY <1>0, <1>1
    <2> QED BY <1>0, <1>3, <1>4, <2>1, ModSmall DEF RoundUp, r
  <1>6. Pages(size) = q + 1
    BY <1>0, <1>1, <1>5, DivExact DEF Pages
  <1> QED
    BY <1>0, <1>1, <1>4, <1>6

-----------------------------------------------------------------------------
(* The inductive invariant *)

\* What the scan has seen so far.
ScanInv ==
    /\ phase = "scan" => mmap # <<>> /\ blocks = <<>>
    /\ mmap # <<>> => maxi \in 1..Len(mmap)
    /\ mmap = <<>> => mmgmt_len = 0
    /\ mmap # <<>> /\ Below4G =>
         /\ \A k \in 1..(i - 1) : mmap[k].type = Available => mmap[k].len <= max
         /\ max > 0 => /\ mmap[maxi].type = Available /\ mmap[maxi].len = max
                       /\ \A k \in 1..(maxi - 1) : mmap[k].type = Available => mmap[k].len < max
         /\ max > 0 => maxi < i
         /\ phase = "ready" => /\ i = Len(mmap) + 1
                               /\ max > 0 => mmgmt_start = mmap[maxi].addr
                               /\ mmgmt_len * PageSize <= max

\* Blocks lie one after the other below the page counter, and each starts
\* inside the heap.
BlockInv(b, start, len, counter) ==
    /\ b.addr = start + b.off
    /\ b.off < len * PageSize
    /\ b.off + b.size <= counter * PageSize

HeapInv ==
    Below4G =>
        /\ \A k \in 1..Len(blocks) : BlockInv(blocks[k], mmgmt_start, mmgmt_len, mmgmt_counter)
        /\ \A j, k \in 1..Len(blocks) :
               j < k => blocks[j].off + blocks[j].size <= blocks[k].off

MemInv == MemTypeOK /\ ScanInv /\ HeapInv

LEMMA MapEntries ==
    ASSUME MemTypeOK, mmap # <<>>
    PROVE  /\ mmap \in Seq(Entry) /\ Len(mmap) \in Nat /\ Len(mmap) > 0
           /\ \A k \in 1..Len(mmap) : mmap[k].addr \in Nat /\ mmap[k].len \in Nat
  <1>1. mmap \in Seq(Entry)
    BY MemoryAssumption DEF MemTypeOK
  <1>2. \A k \in 1..Len(mmap) : mmap[k] \in Entry
    BY <1>1, ElementOfSeq
  <1> QED BY <1>1, <1>2 DEF Entry

LEMMA BlockFacts ==
    ASSUME NEW b \in Block
    PROVE  b.off \in Nat /\ b.size \in Nat
  <1>1. b.off \in Nat /\ b.size \in Sizes
    BY DEF Block
  <1>2. \A n \in Sizes : n \in Nat
    BY MemoryAssumption
  <1> QED BY <1>1, <1>2

LEMMA HeapFacts ==
    ASSUME MemTypeOK
    PROVE  /\ mmgmt_start \in Nat /\ mmgmt_len \in Nat /\ mmgmt_counter \in Nat /\ max \in Nat
           /\ PageSize \in Nat /\ PageSize > 0
           /\ mmgmt_len * PageSize \in Nat /\ mmgmt_counter * PageSize \in Nat
  <1>1. /\ mmgmt_start \in Nat /\ mmgmt_len \in Nat /\ mmgmt_counter \in Nat /\ max \in Nat
        /\ PageSize \in Nat /\ PageSize > 0
    BY MemoryAssumption DEF MemTypeOK, Long
  <1> QED BY <1>1

LEMMA MemInvInit == MemInit => MemInv
  <1> SUFFICES ASSUME MemInit PROVE MemInv
    OBVIOUS
  <1>0. 0 \in Long /\ Len(mmap) \in Nat
    BY MemoryAssumption DEF MemInit, Long
  <1>1. MemTypeOK
    BY <1>0 DEF MemInit, MemTypeOK
  <1>2. mmap # <<>> => Len(mmap) > 0
    BY <1>1, MapEntries
  <1>3. ScanInv
    BY <1>0, <1>2 DEF MemInit, ScanInv
  <1>4. HeapInv
    BY DEF MemInit, HeapInv
  <1> QED BY <1>1, <1>3, <1>4 DEF MemInv

LEMMA ScanKeeps ==
    ASSUME MemInv, ScanEntry
    PROVE  MemInv'
  <1>0. mmap # <<>> /\ phase = "scan" /\ i \in 1..Len(mmap) /\ max \in Long
        /\ maxi \in 1..Len(mmap) /\ blocks = <<>>
    BY DEF MemInv, MemTypeOK, ScanInv, ScanEntry
  <1>1. /\ Len(mmap) \in Nat /\ Width \in Nat /\ Width > 0
        /\ \A k \in 1..Len(mmap) : mmap[k].addr \in Nat /\ mmap[k].len \in Nat
    BY <1>0, MapEntries, MemoryAssumption DEF MemInv
  <1>2. mmap' = mmap /\ phase' = phase /\ i' = i + 1 /\ UNCHANGED heapVars
    BY DEF ScanEntry
  <1>3. max' \in Long /\ maxi' \in 1..Len(mmap)
    <2>1. mmap[i].len % Width \in Long
      BY <1>0, <1>1, DivMod DEF Long
    <2> QED BY <1>0, <2>1 DEF ScanEntry
  <1>4. MemTypeOK'
    BY <1>0, <1>1, <1>2, <1>3 DEF MemInv, MemTypeOK, heapVars
  <1>5. ScanInv'
    <2>1. ASSUME Below4G
          PROVE  /\ \A k \in 1..i : mmap[k].type = Available => mmap[k].len <= max'
                 /\ max' > 0 => /\ mmap[maxi'].type = Available /\ mmap[maxi'].len = max'
                                /\ \A k \in 1..(maxi' - 1) :
                                       mmap[k].type = Available => mmap[k].len < max'
                 /\ max' > 0 => maxi' < i + 1
      <3>0. /\ \A k \in 1..(i - 1) : mmap[k].type = Available => mmap[k].len <= max
            /\ max > 0 => /\ mmap[maxi].type = Available /\ mmap[maxi].len = max
                          /\ \A k \in 1..(maxi - 1) : mmap[k].type = Available => mmap[k].len < max
            /\ max > 0 => maxi < i
        BY <1>0, <2>1 DEF MemInv, ScanInv
      <3>1. CASE Better(mmap[i])
        <4>1. mmap[i].len < Width
          BY <1>0, <1>1, <2>1, <3>1 DEF Below4G, Better
        <4>2. max' = mmap[i].len /\ maxi' = i
          BY <1>0, <1>1, <3>1, <4>1, ModSmall DEF ScanEntry
        <4>3. mmap[i].len > max /\ mmap[i].type = Available /\ max \in Nat
          BY <1>0, <3>1 DEF Better, Long
        <4>4. \A k \in 1..(i - 1) : mmap[k].type = Available => mmap[k].len < mmap[i].len
          <5> SUFFICES ASSUME NEW k \in 1..(i - 1), mmap[k].type = Available
                       PROVE  mmap[k].len < mmap[i].len
            OBVIOUS
          <5>1. mmap[k].len <= max
            BY <3>0
          <5>2. mmap[k].len \in Nat /\ mmap[i].len \in Nat
            BY <1>0, <1>1
          <5> QED BY <4>3, <5>1, <5>2
        <4>5. \A k \in 1..i : mmap[k].type = Available => mmap[k].len <= mmap[i].len
          <5> SUFFICES ASSUME NEW k \in 1..i, mmap[k].type = Available
                       PROVE  mmap[k].len <= mmap[i].len
            OBVIOUS
          <5>1. mmap[i].len \in Nat /\ (k \in 1..(i - 1) \/ k = i)
            BY <1>0, <1>1
          <5>2. k \in 1..(i - 1) => mmap[k].len \in Nat
            BY <1>0, <1>1
          <5> QED BY <4>4, <5>1, <5>2
        <4> QED BY <1>0, <4>2, <4>3, <4>4, <4>5
      <3>2. CASE ~Better(mmap[i])
        <4>1. max' = max /\ maxi' = maxi
          BY <3>2 DEF ScanEntry
        <4> QED BY <1>0, <1>1, <3>0, <3>2, <4>1 DEF Better, Long
      <3> QED BY <3>1, <3>2
    <2>2. Below4G' = Below4G
      BY <1>2 DEF Below4G
    <2>3. (i + 1) - 1 = i
      BY <1>0, <1>1
    <2>4. /\ phase' = "scan" /\ mmap' # <<>> /\ blocks' = <<>>
          /\ maxi' \in 1..Len(mmap')
      BY <1>0, <1>2, <1>3 DEF heapVars
    <2> QED
      BY <1>2, <2>1, <2>2, <2>3, <2>4 DEF ScanInv
  <1>6. HeapInv'
    BY <1>0, <1>2 DEF HeapInv, heapVars
  <1> QED BY <1>4, <1>5, <1>6 DEF MemInv

LEMMA InitKeeps ==
    ASSUME MemInv, mmgmt_init
    PROVE  MemInv'
  <1>0. mmap # <<>> /\ phase = "scan" /\ i = Len(mmap) + 1 /\ max \in Long
        /\ maxi \in 1..Len(mmap) /\ blocks = <<>>
    <2>1. mmap # <<>> /\ phase = "scan"
      BY DEF MemInv, ScanInv, mmgmt_init
    <2>2. Len(mmap) \in Nat
      BY <2>1, MapEntries DEF MemInv
    <2> QED BY <2>1, <2>2 DEF MemInv, MemTypeOK, ScanInv, mmgmt_init
  <1>1. /\ Len(mmap) \in Nat /\ Width \in Nat /\ Width > 0 /\ PageSize \in Nat /\ PageSize > 0
        /\ mmap[maxi].addr \in Nat /\ mmap[maxi].len \in Nat
    BY <1>0, MapEntries, MemoryAssumption DEF MemInv
  <1>2. /\ UNCHANGED <<mmap, i, max, maxi, blocks>> /\ phase' = "ready" /\ mmgmt_counter' = 0
        /\ mmgmt_start' = mmap[maxi].addr % Width /\ mmgmt_len' = max \div PageSize
    BY DEF mmgmt_init
  <1>3. mmgmt_start' \in Long
    BY <1>1, <1>2, DivMod DEF Long
  <1>4. mmgmt_len' \in Nat /\ mmgmt_len' * PageSize <= max /\ mmgmt_len' \in Long
    BY <1>0, <1>1, <1>2, WholePages DEF Long
  <1>5. MemTypeOK'
    BY <1>0, <1>1, <1>2, <1>3, <1>4 DEF MemInv, MemTypeOK, Long
  <1>6. ScanInv'
    <2>1. ASSUME Below4G, max > 0
          PROVE  mmgmt_start' = mmap[maxi].addr
      <3>1. mmap[maxi].type = Available /\ mmap[maxi].len = max
        BY <1>0, <2>1 DEF MemInv, ScanInv
      <3>2. mmap[maxi].addr + mmap[maxi].len <= Width
        BY <1>0, <2>1, <3>1 DEF Below4G
      <3>3. mmap[maxi].addr < Width
        BY <1>1, <2>1, <3>1, <3>2
      <3> QED BY <1>1, <1>2, <3>3, ModSmall
    <2>2. Below4G' = Below4G
      BY <1>2 DEF Below4G
    <2> QED BY <1>0, <1>1, <1>2, <1>4, <2>1, <2>2 DEF MemInv, ScanInv
  <1>7. HeapInv'
    BY <1>0, <1>2 DEF HeapInv
  <1> QED BY <1>5, <1>6, <1>7 DEF MemInv

\* The block a successful mmgmt_alloc appends, and the counter after it.
LEMMA GrantBlock ==
    ASSUME MemInv, NEW size \in Sizes, ~OutOfMemory, Grant(size)
    PROVE  /\ mmgmt_counter' \in Long
           /\ \E b \in Block :
                 /\ blocks' = Append(blocks, b)
                 /\ b.off = mmgmt_counter * PageSize /\ b.size = size
                 /\ mmap # <<>> /\ phase = "ready" /\ Below4G =>
                      /\ BlockInv(b, mmgmt_start, mmgmt_len, mmgmt_counter')
                      /\ mmgmt_counter * PageSize <= mmgmt_counter' * PageSize
  <1> DEFINE P == PageSize
             n == Pages(size)
             c == mmgmt_counter
             off == c * P
             rec == [addr |-> (mmgmt_start + off) % Width, off |-> off, size |-> size]
  <1>0. /\ P \in Nat /\ P > 1 /\ Width \in Nat /\ Width > 0 /\ size \in Nat
        /\ c \in Nat /\ mmgmt_start \in Nat /\ mmgmt_len \in Nat /\ c < mmgmt_len
        /\ mmgmt_start < Width
    BY MemoryAssumption DEF MemInv, MemTypeOK, Long, OutOfMemory
  <1>1. n \in Nat /\ n > 0 /\ size < n * P /\ n * P < Width /\ n * P \in Nat
    BY <1>0, PagesHoldSize
  <1>2. /\ blocks' = Append(blocks, rec) /\ mmgmt_counter' = (c + n) % Width
        /\ UNCHANGED <<mmgmt_start, mmgmt_len>>
    BY DEF Grant
  <1> HIDE DEF n
  <1>3. off \in Nat /\ c + n \in Nat
    BY <1>0, <1>1
  <1> HIDE DEF off
  <1>4. mmgmt_counter' \in Long
    BY <1>0, <1>2, <1>3, DivMod DEF Long
  <1>5. PICK b \in Block : b = rec
    <2>1. (mmgmt_start + off) % Width \in Long
      BY <1>0, <1>3, DivMod DEF Long
    <2> QED BY <1>3, <2>1 DEF Block
  <1>6. ASSUME mmap # <<>>, phase = "ready", Below4G
        PROVE  BlockInv(b, mmgmt_start, mmgmt_len, mmgmt_counter') /\ off <= mmgmt_counter' * P
    <2>1. off + P <= mmgmt_len * P
      <3>1. (c + 1) * P <= mmgmt_len * P
        BY <1>0
      <3> QED BY <1>0, <3>1 DEF off
    <2>2. mmgmt_start + mmgmt_len * P <= Width
      <3>1. /\ max > 0 => mmgmt_start = mmap[maxi].addr
            /\ mmgmt_len * P <= max
            /\ max > 0 => mmap[maxi].type = Available /\ mmap[maxi].len = max
            /\ maxi \in 1..Len(mmap) /\ max \in Nat
        BY <1>0, <1>6 DEF MemInv, ScanInv, MemTypeOK, Long
      <3>2. max > 0
        BY <1>0, <1>3, <2>1, <3>1
      <3>3. mmap[maxi].addr + mmap[maxi].len <= Width
        BY <1>6, <3>1, <3>2 DEF Below4G
      <3>4. mmgmt_len * P \in Nat
        BY <1>0
      <3> QED BY <1>0, <3>1, <3>2, <3>3, <3>4
    <2>3. mmgmt_len * P \in Nat
      BY <1>0
    <2>4. (mmgmt_start + off) % Width = mmgmt_start + off
      BY <1>0, <1>3, <2>1, <2>2, <2>3, ModSmall
    <2>5. (c + n) * P = off + n * P
      BY <1>0, <1>1 DEF off
    <2>6. c + n < Width
      <3>1. (c + n) * P < 2 * Width
        BY <1>0, <1>1, <1>3, <2>1, <2>2, <2>3, <2>5
      <3>2. (c + n) * P >= 2 * (c + n)
        BY <1>0, <1>3
      <3>3. (c + n) * P \in Nat
        BY <1>0, <1>3
      <3> QED BY <1>0, <1>3, <3>1, <3>2, <3>3
    <2>7. mmgmt_counter' = c + n
      BY <1>0, <1>2, <1>3, <2>6, ModSmall
    <2>8. mmgmt_counter' * P = off + n * P
      BY <2>5, <2>7
    <2>9. b.addr = mmgmt_start + off /\ b.off = off /\ b.size = size
      BY <1>5, <2>4
    <2>10. off < mmgmt_len * P /\ off + size <= off + n * P
      BY <1>0, <1>1, <1>3, <2>1, <2>3
    <2>11. BlockInv(b, mmgmt_start, mmgmt_len, mmgmt_counter')
      BY <1>2, <2>8, <2>9, <2>10 DEF BlockInv
    <2> QED BY <1>1, <1>3, <2>8, <2>11
  <1>7. b.off = mmgmt_counter * PageSize /\ b.size = size /\ blocks' = Append(blocks, b)
    BY <1>2, <1>5 DEF off
  <1> HIDE DEF rec
  <1> QED BY <1>4, <1>5, <1>6, <1>7 DEF off

LEMMA GrantKeeps ==
    ASSUME MemInv, phase = "ready", NEW size \in Sizes, ~OutOfMemory, Grant(size)
    PROVE  MemInv'
  <1> DEFINE n == Len(blocks)
  <1>0. blocks \in Seq(Block) /\ n \in Nat
    BY DEF MemInv, MemTypeOK
  <1>1. PICK b \in Block :
          /\ blocks' = Append(blocks, b)
          /\ b.off = mmgmt_counter * PageSize /\ b.size = size
          /\ mmap # <<>> /\ phase = "ready" /\ Below4G =>
               /\ BlockInv(b, mmgmt_start, mmgmt_len, mmgmt_counter')
               /\ mmgmt_counter * PageSize <= mmgmt_counter' * PageSize
    BY GrantBlock
  <1>2. /\ UNCHANGED <<mmap, phase, i, max, maxi, mmgmt_start, mmgmt_len>>
        /\ mmgmt_counter' \in Long
    BY GrantBlock DEF Grant, scanVars
  <1>3. mmap # <<>>
    BY DEF MemInv, MemTypeOK, ScanInv, OutOfMemory, Long
  <1>4. /\ blocks' \in Seq(Block) /\ Len(blocks') = n + 1
        /\ \A k \in 1..n : blocks'[k] = blocks[k]
        /\ blocks'[n + 1] = b
    BY <1>0, <1>1, AppendProperties
  <1>5. MemTypeOK'
    BY <1>2, <1>4 DEF MemInv, MemTypeOK
  <1>6. Below4G' = Below4G
    BY <1>2 DEF Below4G
  <1>7. ScanInv'
    BY <1>2, <1>3, <1>6 DEF MemInv, ScanInv
  <1>8. HeapInv'
    <2> SUFFICES ASSUME Below4G
                 PROVE  /\ \A k \in 1..(n + 1) : BlockInv(blocks'[k], mmgmt_start, mmgmt_len, mmgmt_counter')
                        /\ \A j, k \in 1..(n + 1) :
                             j < k => blocks'[j].off + blocks'[j].size <= blocks'[k].off
      BY <1>2, <1>4, <1>6 DEF HeapInv
    <2>1. /\ \A k \in 1..n : BlockInv(blocks[k], mmgmt_start, mmgmt_len, mmgmt_counter)
          /\ \A j, k \in 1..n : j < k => blocks[j].off + blocks[j].size <= blocks[k].off
      BY DEF MemInv, HeapInv
    <2>2. BlockInv(b, mmgmt_start, mmgmt_len, mmgmt_counter') /\ mmgmt_counter * PageSize <= mmgmt_counter' * PageSize
      BY <1>1, <1>3
    <2>3. /\ mmgmt_counter * PageSize \in Nat /\ mmgmt_counter' * PageSize \in Nat
      <3>1. mmgmt_counter' \in Nat
        BY <1>2, MemoryAssumption DEF Long
      <3> QED BY <3>1, HeapFacts DEF MemInv
    <2>4. \A k \in 1..n : blocks[k] \in Block
      BY <1>0, ElementOfSeq
    <2>5. \A k \in 1..n : blocks[k].off \in Nat /\ blocks[k].size \in Nat
      BY <2>4, BlockFacts
    <2>6. ASSUME NEW k \in 1..(n + 1) PROVE BlockInv(blocks'[k], mmgmt_start, mmgmt_len, mmgmt_counter')
      <3>1. CASE k = n + 1
        BY <1>4, <2>2, <3>1 DEF BlockInv
      <3>2. CASE k \in 1..n
        <4>1. /\ blocks'[k] = blocks[k]
              /\ blocks[k].addr = mmgmt_start + blocks[k].off
              /\ blocks[k].off < mmgmt_len * PageSize
              /\ blocks[k].off + blocks[k].size <= mmgmt_counter * PageSize
          BY <1>4, <2>1, <3>2 DEF BlockInv
        <4>2. blocks[k].off + blocks[k].size <= mmgmt_counter' * PageSize
          BY <2>2, <2>3, <2>5, <3>2, <4>1
        <4> QED BY <4>1, <4>2 DEF BlockInv
      <3> QED BY <1>0, <3>1, <3>2
    <2>7. ASSUME NEW j \in 1..(n + 1), NEW k \in 1..(n + 1), j < k
          PROVE  blocks'[j].off + blocks'[j].size <= blocks'[k].off
      <3>0. j \in 1..n
        BY <1>0, <2>7
      <3>1. CASE k = n + 1
        BY <1>1, <1>4, <2>1, <3>0, <3>1 DEF BlockInv
      <3>2. CASE k \in 1..n
        BY <1>4, <2>1, <2>7, <3>0, <3>2
      <3> QED BY <1>0, <3>1, <3>2
    <2> QED BY <2>6, <2>7
  <1> QED BY <1>5, <1>7, <1>8 DEF MemInv

LEMMA StutterKeeps ==
    ASSUME MemInv, UNCHANGED memVars
    PROVE  MemInv'
  BY DEF MemInv, MemTypeOK, ScanInv, HeapInv, BlockInv, Below4G, memVars, scanVars, heapVars

LEMMA MemInvNext == MemInv /\ [MemNext]_memVars => MemInv'
  <1> SUFFICES ASSUME MemInv, [MemNext]_memVars PROVE MemInv'
    OBVIOUS
  <1>1. CASE ScanEntry
    BY <1>1, ScanKeeps
  <1>2. CASE mmgmt_init
    BY <1>2, InitKeeps
  <1>3. ASSUME NEW size \in Sizes, mmgmt_alloc(size) PROVE MemInv'
    <2>1. CASE UNCHANGED memVars
      BY <2>1, StutterKeeps
    <2>2. CASE ~OutOfMemory /\ Grant(size)
      BY <1>3, <2>2, GrantKeeps DEF mmgmt_alloc
    <2> QED BY <1>3, <2>1, <2>2 DEF mmgmt_alloc
  <1>4. CASE UNCHANGED memVars
    BY <1>4, StutterKeeps
  <1> QED BY <1>1, <1>2, <1>3, <1>4 DEF MemNext

-----------------------------------------------------------------------------
(* What the invariant gives *)

LEMMA MemInvImplies ==
    ASSUME MemInv
    PROVE  HeapIsLargestEntry /\ BlocksDisjoint /\ OnlyLastBlockOverruns
  <1>0. blocks \in Seq(Block) /\ Len(blocks) \in Nat
    BY DEF MemInv, MemTypeOK
  <1>1. HeapIsLargestEntry
    <2> SUFFICES ASSUME phase = "ready", mmap # <<>>, Below4G
                 PROVE  HeapIsLargestEntry
      BY DEF HeapIsLargestEntry
    <2>1. i - 1 = Len(mmap)
      BY MapEntries DEF MemInv, ScanInv
    <2> QED BY <2>1 DEF MemInv, ScanInv, HeapIsLargestEntry
  <1>2. \A k \in 1..Len(blocks) : /\ blocks[k].off \in Nat /\ blocks[k].size \in Nat
                                  /\ mmgmt_start \in Nat
    <2>1. \A k \in 1..Len(blocks) : blocks[k] \in Block
      BY <1>0, ElementOfSeq
    <2> QED BY <2>1, BlockFacts, HeapFacts DEF MemInv
  <1>3. BlocksDisjoint
    <2> SUFFICES ASSUME Below4G, NEW j \in 1..Len(blocks), NEW k \in 1..Len(blocks), j < k
                 PROVE  blocks[j].addr + blocks[j].size <= blocks[k].addr
      BY DEF BlocksDisjoint, End
    <2>1. /\ blocks[j].addr = mmgmt_start + blocks[j].off
          /\ blocks[k].addr = mmgmt_start + blocks[k].off
          /\ blocks[j].off + blocks[j].size <= blocks[k].off
      BY DEF MemInv, HeapInv, BlockInv
    <2> QED BY <1>2, <2>1
  <1>4. OnlyLastBlockOverruns
    <2> SUFFICES ASSUME Below4G, NEW j \in 1..(Len(blocks) - 1)
                 PROVE  Inside(blocks[j], mmap[maxi])
      BY DEF OnlyLastBlockOverruns
    <2>1. j \in 1..Len(blocks) /\ j + 1 \in 1..Len(blocks) /\ j < j + 1
      BY <1>0
    <2>2. /\ blocks[j].addr = mmgmt_start + blocks[j].off
          /\ blocks[j + 1].off < mmgmt_len * PageSize
          /\ blocks[j].off + blocks[j].size <= blocks[j + 1].off
      BY <2>1 DEF MemInv, HeapInv, BlockInv
    <2>3. phase = "ready" /\ mmap # <<>>
      <3>1. phase = "ready"
        BY <1>0, <2>1 DEF MemInv, ScanInv, MemTypeOK
      <3>2. mmgmt_len * PageSize > 0
        BY <1>2, <2>1, <2>2, HeapFacts DEF MemInv
      <3>3. mmgmt_len # 0
        BY <3>2, HeapFacts DEF MemInv
      <3> QED BY <3>1, <3>3 DEF MemInv, ScanInv
    <2>4. /\ mmgmt_len * PageSize <= max
          /\ max > 0 => /\ mmgmt_start = mmap[maxi].addr
                        /\ mmap[maxi].type = Available /\ mmap[maxi].len = max
      BY <2>3 DEF MemInv, ScanInv
    <2>5. max \in Nat /\ mmgmt_len * PageSize \in Nat
      BY HeapFacts DEF MemInv
    <2>6. max > 0 /\ blocks[j].off + blocks[j].size <= max
      BY <1>2, <2>1, <2>2, <2>4, <2>5
    <2>7. blocks[j].addr + blocks[j].size <= mmap[maxi].addr + mmap[maxi].len
      <3>1. mmap[maxi].addr = mmgmt_start /\ mmap[maxi].len = max
        BY <2>4, <2>6
      <3> QED BY <1>2, <2>1, <2>2, <2>5, <2>6, <3>1
    <2> QED BY <1>2, <2>1, <2>2, <2>4, <2>6, <2>7 DEF Inside, End
  <1> QED BY <1>1, <1>3, <1>4

\* For every memory map whose available entries end by 4 GiB, whatever is
\* reserved in it and wherever, and every sequence of malloc calls: the heap is
\* the largest available entry, the blocks do not overlap, and only the last can
\* run past the entry's end.
THEOREM HeapSafety ==
    MemSpec => [](MemTypeOK /\ HeapIsLargestEntry /\ BlocksDisjoint /\ OnlyLastBlockOverruns)
  <1>1. MemInv => MemTypeOK /\ HeapIsLargestEntry /\ BlocksDisjoint /\ OnlyLastBlockOverruns
    BY MemInvImplies DEF MemInv
  <1> QED BY <1>1, MemInvInit, MemInvNext, PTL DEF MemSpec
=============================================================================
