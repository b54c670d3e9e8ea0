-------------------------------- MODULE Boot --------------------------------
(***************************************************************************)
(* kmain up to the end of multiboot_process and what it leads to: the      *)
(* command line switches the serial port on, the memory map becomes the    *)
(* heap, and then drivers allocate memory and print.                       *)
(***************************************************************************)
EXTENDS Multiboot, Memory, Numbers

ASSUME BootAssumption == Width = 2 ^ LongBits

bootVars == <<mbVars, serialVars, memVars>>

\* The boot loader passes at most one memory map.
BootInit ==
    /\ MultibootInit /\ SerialInit /\ MemInit
    /\ IF \E k \in DOMAIN tags : tags[k].type = "mmap"
       THEN mmap = tags[Min({k \in DOMAIN tags : tags[k].type = "mmap"})].entries
       ELSE mmap = <<>>

WalkTags ==
    /\ CommandWord \/ RunCommand \/ OtherTag
    /\ UNCHANGED memVars

ReadMap ==
    /\ TagIs("mmap")
    /\ ScanEntry \/ mmgmt_init
    /\ IF phase' = "ready" THEN NextTag(Clear(buf)) ELSE UNCHANGED <<t, sc, buf>>
    /\ UNCHANGED <<tags, arg, cmd, network__disable, serialVars>>

Allocate ==
    /\ WalkOver
    /\ \E size \in Sizes : mmgmt_alloc(size)
    /\ UNCHANGED <<mbVars, serialVars>>

PrintSerial ==
    /\ WalkOver
    /\ SerialNext
    /\ UNCHANGED <<mbVars, memVars>>

BootNext == WalkTags \/ ReadMap \/ Allocate \/ PrintSerial

BootSpec == BootInit /\ [][BootNext]_bootVars /\ SerialFairness

-----------------------------------------------------------------------------
(* Properties *)

\* The range that mmgmt_greatest_chunk prints for the entry it looks at can be
\* read back from the text, as far as it fits into a LONG.
MapPrinted ==
    phase = "scan" /\ i <= Len(mmap) =>
        /\ WrittenReadsBack(mmap[i].addr % Width)
        /\ WrittenReadsBack((mmap[i].addr + mmap[i].len) % Width)
=============================================================================
