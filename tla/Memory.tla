-------------------------------- MODULE Memory --------------------------------
(***************************************************************************)
(* The kernel heap, kernel/memory.c behind malloc and free of              *)
(* libc/stdlib.c: mmgmt_init picks the largest available entry of the      *)
(* boot loader's memory map, mmgmt_alloc hands out pages of it in order,   *)
(* mmgmt_free does nothing.  A LONG is 32 bits wide while the map's        *)
(* addresses and lengths have 64.                                          *)
(***************************************************************************)
EXTENDS Integers, Sequences

CONSTANTS Width,     \* number of values of a LONG (2^32)
          PageSize,  \* 4096
          Maps,      \* the memory maps: sequences of entries
          Sizes,     \* the sizes malloc is called with
          MaxBlocks  \* bound on the number of blocks handed out

Available == "available"
Entry == [addr : Nat, len : Nat, type : {Available, "reserved"}]

\* The callers' sizes are far below 4 GiB; rounding a size within the last
\* page of the address space would wrap to 0.
ASSUME MemoryAssumption ==
    /\ PageSize \in Nat /\ PageSize > 1
    /\ Width \in Nat /\ Width > PageSize /\ Width % PageSize = 0
    /\ Maps \subseteq Seq(Entry) \ {<<>>}
    /\ Sizes \subseteq 0..(Width - PageSize - 1)
    /\ MaxBlocks \in Nat

VARIABLES mmap,           \* the map of the MMAP tag, <<>> without one
          phase,          \* "scan" in mmgmt_greatest_chunk, then "ready"
          i, max, maxi,   \* the scan's loop variables, maxi from 1
          mmgmt_counter, mmgmt_start, mmgmt_len,
          blocks          \* history: the blocks malloc has returned

scanVars == <<mmap, phase, i, max, maxi>>
heapVars == <<mmgmt_counter, mmgmt_start, mmgmt_len, blocks>>
memVars == <<scanVars, heapVars>>

Long == 0..(Width - 1)

\* A block: where it is, its offset in the heap, and the size asked for.
Block == [addr : Long, off : Nat, size : Sizes]

\* Every variable has a value of its type; lengths and addresses are cut to LONGs.
MemTypeOK ==
    /\ mmap \in Maps \cup {<<>>}
    /\ phase \in {"scan", "ready"}
    /\ i \in 1..(Len(mmap) + 1)
    /\ max \in Long
    /\ maxi \in 1..(Len(mmap) + 1)
    /\ mmgmt_counter \in Long /\ mmgmt_start \in Long /\ mmgmt_len \in Long
    /\ blocks \in Seq(Block)

\* multiboot_process has found an MMAP tag, or there is none and the heap
\* stays empty.
MemInit ==
    /\ mmap \in Maps \cup {<<>>}
    /\ phase = IF mmap = <<>> THEN "ready" ELSE "scan"
    /\ i = 1 /\ max = 0 /\ maxi = 1
    /\ mmgmt_counter = 0 /\ mmgmt_start = 0 /\ mmgmt_len = 0
    /\ blocks = <<>>

\* Mutation: reserved entries count too.
BetterAnyType(e) == e.len > max

\* One iteration of mmgmt_greatest_chunk: the 64-bit length is compared,
\* its low 32 bits are kept.
Better(e) == e.len > max /\ e.type = Available

ScanEntry ==
    /\ phase = "scan"
    /\ i <= Len(mmap)
    /\ IF Better(mmap[i])
       THEN max' = mmap[i].len % Width /\ maxi' = i
       ELSE UNCHANGED <<max, maxi>>
    /\ i' = i + 1
    /\ UNCHANGED <<mmap, phase, heapVars>>

\* Mutation: the length is left in bytes.
mmgmt_initBytes ==
    /\ phase = "scan"
    /\ i > Len(mmap)
    /\ phase' = "ready"
    /\ mmgmt_counter' = 0
    /\ mmgmt_start' = mmap[maxi].addr % Width
    /\ mmgmt_len' = max
    /\ UNCHANGED <<mmap, i, max, maxi, blocks>>

\* The loop is over: the rest of mmgmt_init.
mmgmt_init ==
    /\ phase = "scan"
    /\ i > Len(mmap)
    /\ phase' = "ready"
    /\ mmgmt_counter' = 0
    /\ mmgmt_start' = mmap[maxi].addr % Width
    /\ mmgmt_len' = max \div PageSize
    /\ UNCHANGED <<mmap, i, max, maxi, blocks>>

\* malloc and mmgmt_alloc: NULL when no page is left or the size is 0,
\* otherwise the next page, whether or not the size fits.
OutOfMemory == mmgmt_counter >= mmgmt_len
RoundUp(size) == (size + (PageSize - (size % PageSize))) % Width
\* Mutation: the size is rounded down.
PagesDown(size) == size \div PageSize

Pages(size) == RoundUp(size) \div PageSize

Grant(size) ==
    /\ Len(blocks) < MaxBlocks
    /\ LET off == mmgmt_counter * PageSize
       IN  blocks' = Append(blocks, [addr |-> (mmgmt_start + off) % Width,
                                     off |-> off, size |-> size])
    /\ mmgmt_counter' = (mmgmt_counter + Pages(size)) % Width
    /\ UNCHANGED <<scanVars, mmgmt_start, mmgmt_len>>

mmgmt_alloc(size) ==
    /\ phase = "ready"
    /\ IF OutOfMemory \/ size = 0 THEN UNCHANGED memVars ELSE Grant(size)

MemNext ==
    \/ ScanEntry
    \/ mmgmt_init
    \/ \E size \in Sizes : mmgmt_alloc(size)

MemSpec == MemInit /\ [][MemNext]_memVars

-----------------------------------------------------------------------------
(* Properties *)

\* The available memory of the map ends at 4 GiB or below, as far as a LONG
\* can say, and no entry of it is as long as 4 GiB, whose low 32 bits are 0.
\* Reserved entries may lie anywhere.
Below4G ==
    \A k \in 1..Len(mmap) :
        mmap[k].type = Available => mmap[k].addr + mmap[k].len <= Width /\ mmap[k].len < Width

End(b) == b.addr + b.size
Inside(b, e) == e.type = Available /\ e.addr <= b.addr /\ End(b) <= e.addr + e.len

\* The scan ends with the largest available entry, the first one of equals,
\* or with an empty heap when no memory is available.
HeapIsLargestEntry ==
    phase = "ready" /\ mmap # <<>> /\ Below4G =>
        /\ \A k \in 1..Len(mmap) : mmap[k].type = Available => mmap[k].len <= max
        /\ max > 0 => /\ mmap[maxi].type = Available /\ mmap[maxi].len = max
                      /\ \A k \in 1..(maxi - 1) : mmap[k].type = Available => mmap[k].len < max

\* No two blocks that malloc returned overlap.
BlocksDisjoint ==
    Below4G =>
        \A j, k \in 1..Len(blocks) : j < k => End(blocks[j]) <= blocks[k].addr

\* Every block but the last lies inside one available entry of the map.
\* (The last may run past its end: mmgmt_alloc compares only its start.)
OnlyLastBlockOverruns ==
    Below4G => \A j \in 1..(Len(blocks) - 1) : Inside(blocks[j], mmap[maxi])
=============================================================================
