---------------------------------- MODULE Pci ----------------------------------
(***************************************************************************)
(* The PCI bus of dev/pci.c and the one driver it starts, dev/ide.c:       *)
(* configuration space accesses, the enumeration of pci_setup, the table   *)
(* of interrupt entries and ide_init.  Interrupts are off throughout, so   *)
(* the enumeration's steps are the calls of drivers on functions.          *)
(*                                                                         *)
(* A function of a device is a pair <<bus, slot>>, slot standing for       *)
(* device * 8 + function.  The header of its configuration space is the    *)
(* sequence of its sixteen double words, each four bytes, lowest first; of *)
(* the bytes the kernel writes, only the interrupt line register keeps a   *)
(* value.                                                                  *)
(***************************************************************************)
EXTENDS Integers, Sequences

CONSTANTS Buses,       \* number of buses, 256 in the code
          Slots,       \* functions of a bus, 32 * 8 in the code
          MaxEntries,  \* size of pci_int_entries, 256 in the code
          Tables,      \* contents pci_devices may have, by name
          Hardware,    \* what may be plugged in: configuration spaces, by name
          NoDev,       \* NULL
          IdeId        \* 0xf0f0f0f0, the dev_id of every IDE controller

\* The loop over buses ends before the last one, whose functions are not read.
Functions == (0 .. Buses - 2) \X (0 .. Slots - 1)
Entries == 0 .. MaxEntries - 1

ASSUME PciAssumption ==
    /\ Buses \in Nat \ {0} /\ Slots \in Nat \ {0} /\ MaxEntries \in Nat \ {0}
    /\ \A n \in DOMAIN Tables : \A k \in DOMAIN Tables[n] : Tables[n][k].ids_len \in Nat

VARIABLES cfg,      \* what each function is, and its interrupt line register
          table,    \* which contents pci_devices has
          pos,      \* number of functions the enumeration is past
          drv,      \* index in pci_devices of the driver compared next
          entries,  \* pci_int_entries
          irqs,     \* vectors given to a handler of this module by int_regh
          ide_pch,  \* ide_pch_base, ide_pch_ctrl and ide_pch_bm
          inits     \* the initf calls made so far, with their results

pci_devices == Tables[table]

pciVars == <<cfg, table, pos, drv, entries, irqs, ide_pch, inits>>

PCI_CFG_VEN == 0
PCI_CFG_DEV == 2
PCI_CFG_PIF == 9
PCI_CFG_SCL == 10
PCI_CFG_CLA == 11
PCI_CFG_BR(n) == 16 + 4 * n
PCI_CFG_SSS == 46
PCI_CFG_INT == 60

IRQ10 == 42
IRQ14 == 46
IRQ15 == 47

Dword(off) == 1 + (off \div 4)

\* Index of the first byte that a shift by (off & 2) * 8 leaves lowest.
Lowest(off) == 1 + 2 * ((off % 4) \div 2)

Is(c) == Hardware[c.is]

Bytes(c, d) ==
    IF d = Dword(PCI_CFG_INT) THEN [Is(c).space[d] EXCEPT ![1] = c.line] ELSE Is(c).space[d]

pci_cfg_readb(c, off) == Bytes(c, Dword(off))[Lowest(off)]

pci_cfg_readw(c, off) == SubSeq(Bytes(c, Dword(off)), Lowest(off), Lowest(off) + 1)

pci_cfg_readl(c, off) == Bytes(c, Dword(off))

\* The data port is addressed without off & 3, so the byte that is written is
\* the lowest of the double word: for PCI_CFG_PIF the revision, which is
\* read-only.  Not every device has an interrupt line register.
pci_cfg_writeb(c, off, val) ==
    IF Dword(off) = Dword(PCI_CFG_INT) /\ Is(c).line_rw THEN [c EXCEPT !.line = val] ELSE c

Absent(c) == pci_cfg_readw(c, PCI_CFG_VEN) = <<255, 255>>

Ignored(c) ==
    \/ Absent(c)
    \/ pci_cfg_readw(c, PCI_CFG_DEV) \in {<<0, 0>>, <<255, 255>>}

MatchesClass(d, c) ==
    /\ d.ids_len = 33
    /\ d.class_code = pci_cfg_readb(c, PCI_CFG_CLA)
    /\ d.subclass = pci_cfg_readb(c, PCI_CFG_SCL)

MatchesId(d, c) ==
    /\ d.ids_len # 33
    /\ <<pci_cfg_readw(c, PCI_CFG_VEN), pci_cfg_readw(c, PCI_CFG_DEV)>> \in d.ids

Scanned == Slots * (Buses - 1)

Current == <<pos \div Slots, pos % Slots>>

Scanning == pos < Scanned

Free(es) == {i \in Entries : es[i].dev = NoDev}

\* An entry that is written without looking for a free one.
pci_int_requestFixed(es, f, dev, handler) ==
    [es EXCEPT ![0] = [dev |-> dev, at |-> f, handler |-> handler]]

pci_int_request(es, f, dev, handler) ==
    IF Free(es) = {} THEN es
    ELSE LET i == CHOOSE i \in Free(es) : \A j \in Free(es) : i <= j
         IN  [es EXCEPT ![i] = [dev |-> dev, at |-> f, handler |-> handler]]

\* The calls that pci_irq_handler makes, whichever function has interrupted.
pci_irq_handler(es) == {es[i] : i \in Entries \ Free(es)}

Bit(v, mask) == (v \div mask) % 2 = 1

chmask(channel) == IF channel = 2 THEN 4 ELSE 1

\* Whether ide_channel_setnative returns 0, and the space it leaves.
Native(c, channel) == Bit(pci_cfg_readb(c, PCI_CFG_PIF), chmask(channel))

ide_channel_setnative(c, channel) ==
    LET pif == pci_cfg_readb(c, PCI_CFG_PIF)
    IN  IF Native(c, channel) THEN c
        ELSE pci_cfg_writeb(c, PCI_CFG_PIF, (pif + 1) - (pif % 2))

\* A base address register without its two lowest bits, or the port of the
\* compatibility mode where it is 0.
PortOf(bar, legacy) ==
    IF bar = <<0, 0, 0, 0>> THEN <<legacy>> ELSE [bar EXCEPT ![1] = @ - (@ % 4)]

ide_enable_int(f, c) ==
    LET probed == pci_cfg_writeb(c, PCI_CFG_INT, 254)
    IN  IF pci_cfg_readb(probed, PCI_CFG_INT) = 254
          THEN /\ cfg' = [cfg EXCEPT ![f] = pci_cfg_writeb(probed, PCI_CFG_INT, IRQ10)]
               /\ entries' = pci_int_request(entries, f, IdeId, "ide_handle_int")
               /\ UNCHANGED irqs
          ELSE /\ cfg' = [cfg EXCEPT ![f] = probed]
               /\ irqs' = irqs \cup {IRQ14, IRQ15}
               /\ UNCHANGED entries

Called(f, d, ret) == inits' = Append(inits, [at |-> f, initf |-> d.initf, ret |-> ret])

\* Sets the first channel to native mode, or gives up.
ide_init(f, d) ==
    LET c1 == ide_channel_setnative(cfg[f], 1)
        c2 == ide_channel_setnative(c1, 2)
    IN  \/ /\ ~Native(c1, 1)
           /\ cfg' = [cfg EXCEPT ![f] = c1]
           /\ Called(f, d, 1)
           /\ UNCHANGED <<entries, irqs, ide_pch>>
        \/ /\ Native(c1, 1)
           /\ ide_pch' = <<PortOf(pci_cfg_readl(c2, PCI_CFG_BR(0)), 496),
                           PortOf(pci_cfg_readl(c2, PCI_CFG_BR(1)), 1014),
                           PortOf(pci_cfg_readl(c2, PCI_CFG_BR(4)), 0)>>
           /\ ide_enable_int(f, c2)
           /\ Called(f, d, 0)

PciInit ==
    /\ \E hw \in [Functions -> DOMAIN Hardware] :
          cfg = [f \in Functions |->
                    [is |-> hw[f], line |-> Hardware[hw[f]].space[Dword(PCI_CFG_INT)][1]]]
    /\ table \in DOMAIN Tables
    /\ pos = 0 /\ drv = 1
    /\ entries = [i \in Entries |-> [dev |-> NoDev, at |-> <<0, 0>>, handler |-> NoDev]]
    /\ irqs = {IRQ10}
    /\ ide_pch = <<>>
    /\ inits = <<>>

NextFunction == pos' = pos + 1 /\ drv' = 1

NextDriver == drv' = drv + 1 /\ UNCHANGED pos

\* SkipFunction that leaves the loop over the slots where it should go on.
SkipFunctionBreak ==
    /\ Scanning
    /\ Ignored(cfg[Current]) \/ drv > Len(pci_devices)
    /\ pos' = Slots * (1 + (pos \div Slots)) /\ drv' = 1
    /\ UNCHANGED <<cfg, table, entries, irqs, ide_pch, inits>>

SkipFunction ==
    /\ Scanning
    /\ Ignored(cfg[Current]) \/ drv > Len(pci_devices)
    /\ NextFunction
    /\ UNCHANGED <<cfg, table, entries, irqs, ide_pch, inits>>

Comparing == Scanning /\ ~Ignored(cfg[Current]) /\ drv <= Len(pci_devices)

NoMatch ==
    /\ Comparing
    /\ ~MatchesClass(pci_devices[drv], cfg[Current]) /\ ~MatchesId(pci_devices[drv], cfg[Current])
    /\ NextDriver
    /\ UNCHANGED <<cfg, table, entries, irqs, ide_pch, inits>>

\* A driver found by class ends the search of the table ...
StartByClass ==
    /\ Comparing
    /\ MatchesClass(pci_devices[drv], cfg[Current])
    /\ ide_init(Current, pci_devices[drv])
    /\ NextFunction
    /\ UNCHANGED table

\* ... one found by vendor and device does not: the break only leaves the
\* loop over the driver's identifiers.
\* Conjoined with what the driver's init function does.
StartById ==
    /\ Comparing
    /\ MatchesId(pci_devices[drv], cfg[Current])
    /\ NextDriver
    /\ UNCHANGED <<table, irqs, ide_pch>>
=============================================================================
