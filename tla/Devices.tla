-------------------------------- MODULE Devices --------------------------------
(***************************************************************************)
(* Device discovery at boot, as kmain of kernel/main.c orders it:          *)
(* ethernet_setup, pci_setup with the drivers it starts, network_setup.    *)
(* It composes Pci and Network with the initialisation of the two network  *)
(* drivers, dev/e1000.c and dev/virtio-net.c.                              *)
(*                                                                         *)
(* The code lists only the disk driver in pci_devices and has the entries  *)
(* of the two network drivers commented out; Tables says which contents    *)
(* are considered.                                                         *)
(***************************************************************************)
EXTENDS Pci, Network

vars == <<pciVars, netVars>>

\* A driver writes what it knows of the device into its ethdev.
Ethdev(f, mac, is_up) == [at |-> f, mac |-> mac, is_up |-> is_up]

NoMac == <<0, 0, 0>>

\* e1000_read_mac: the EEPROM always answers; without one the address is read
\* from memory, where a zero double word means that there is none.
ReadsMac(c, eeprom) == eeprom \/ <<Is(c).mac[1], Is(c).mac[2]>> # <<0, 0>>

\* The card answers within the thousand reads, or it has none.
e1000_detect_eeprom(c) == Is(c).eeprom

NoSlot(f, d) ==
    /\ ethernet_allocate = Null
    /\ Called(f, d, 1)
    /\ UNCHANGED <<cfg, entries, eth_ifs>>

\* Registers its handler before it knows that there is a MAC address and
\* leaves it registered when there is none.  It sets no operation of the
\* ethdev, and eeprom_exists is still 0.
e1000_init(f, d) ==
    /\ d.initf = "e1000_init"
    /\ \/ NoSlot(f, d)
       \/ /\ ethernet_allocate # Null
          /\ cfg' = [cfg EXCEPT ![f] = pci_cfg_writeb(@, PCI_CFG_INT, IRQ10)]
          /\ entries' = pci_int_request(entries, f, ethernet_allocate, "e1000_handler")
          /\ \/ /\ ~ReadsMac(cfg[f], FALSE)
                /\ Called(f, d, 1) /\ UNCHANGED eth_ifs
             \/ /\ ReadsMac(cfg[f], FALSE)
                /\ Called(f, d, 0)
                /\ eth_ifs' = [eth_ifs EXCEPT ![ethernet_allocate] =
                                  Ethdev(f, Is(cfg[f]).mac, Null)]

\* The initialisation that fills in the operations, kept in the file.
e1000_init_old(f, d) ==
    /\ d.initf = "e1000_init_old"
    /\ \/ NoSlot(f, d)
       \/ /\ ethernet_allocate # Null /\ ~ReadsMac(cfg[f], e1000_detect_eeprom(cfg[f]))
          /\ Called(f, d, 1)
          /\ UNCHANGED <<cfg, entries, eth_ifs>>
       \/ /\ ethernet_allocate # Null /\ ReadsMac(cfg[f], e1000_detect_eeprom(cfg[f]))
          /\ cfg' = [cfg EXCEPT ![f] = pci_cfg_writeb(@, PCI_CFG_INT, IRQ10)]
          /\ entries' = pci_int_request(entries, f, ethernet_allocate, "e1000_handler")
          /\ eth_ifs' = [eth_ifs EXCEPT ![ethernet_allocate] =
                            Ethdev(f, Is(cfg[f]).mac, "e1000_check_link")]
          /\ Called(f, d, 0)

\* The ethdev stays allocated when the device refuses the features, and the
\* function then returns no value.
virtionet_init(f, d) ==
    /\ d.initf = "virtionet_init"
    /\ UNCHANGED <<cfg, entries>>
    /\ \/ /\ \/ ~Bit(pci_cfg_readl(cfg[f], PCI_CFG_BR(0))[1], 1)
             \/ pci_cfg_readw(cfg[f], PCI_CFG_SSS) # <<1, 0>>
             \/ ethernet_allocate = Null
          /\ Called(f, d, 1)
          /\ UNCHANGED eth_ifs
       \/ /\ Bit(pci_cfg_readl(cfg[f], PCI_CFG_BR(0))[1], 1)
          /\ pci_cfg_readw(cfg[f], PCI_CFG_SSS) = <<1, 0>>
          /\ ethernet_allocate # Null
          /\ \/ /\ ~Is(cfg[f]).features
                /\ \E ret \in {0, 1} : Called(f, d, ret)
                /\ eth_ifs' = [eth_ifs EXCEPT ![ethernet_allocate] = Ethdev(f, NoMac, Null)]
             \/ /\ Is(cfg[f]).features
                /\ Called(f, d, 0)
                /\ eth_ifs' = [eth_ifs EXCEPT ![ethernet_allocate] =
                                  Ethdev(f, Is(cfg[f]).mac, "virtionet_check_link")]

\* kmain enables interrupts between pci_setup and network_setup.
DevicesInit ==
    /\ PciInit
    /\ NetInit

StartNic ==
    /\ StartById
    /\ \/ e1000_init(Current, pci_devices[drv])
       \/ e1000_init_old(Current, pci_devices[drv])
       \/ virtionet_init(Current, pci_devices[drv])
    /\ UNCHANGED <<net_ifs, disabled, npc, ni, dev, s, shown, linked>>

DevicesNext ==
    \/ (SkipFunction \/ NoMatch \/ StartByClass) /\ UNCHANGED netVars
    \/ StartNic
    \/ ~Scanning /\ NetNext /\ UNCHANGED pciVars
    \/ npc \in {"done", "undefined"} /\ UNCHANGED vars

DevicesSpec == DevicesInit /\ [][DevicesNext]_vars
-----------------------------------------------------------------------------
Inits == {inits[k] : k \in DOMAIN inits}

\* The class code and subclass a function really has.
IsIde(c) == Bytes(c, Dword(PCI_CFG_CLA))[4] = 1 /\ Bytes(c, Dword(PCI_CFG_SCL))[3] = 1

\* When the enumeration is over, ide_init has been called exactly once for
\* every IDE controller on the buses it covers, although pci_cfg_readb gives
\* pci_setup the subclass for the class, and whichever drivers are listed.
IdeControllersProbed ==
    ~Scanning =>
        \A f \in Functions : (IsIde(cfg[f]) /\ ~Ignored(cfg[f])) =>
            \E k \in DOMAIN inits : \A m \in DOMAIN inits :
                (inits[m].at = f /\ inits[m].initf = "ide_init") <=> m = k

\* For a function whose driver registers a handler and reports success,
\* pci_irq_handler calls that handler and, for a network device, with its own
\* ethdev; unless all entries are taken, or it is an IDE controller without
\* interrupt line register, which gets IRQ 14 and 15.  The only calls with an
\* ethdev that is free or another card's are for a card whose address could
\* not be read: its entry stays.
InterruptsRouted ==
    /\ \A r \in Inits : (r.ret = 0 /\ r.initf # "virtionet_init") =>
        \/ Free(entries) = {}
        \/ \E e \in pci_irq_handler(entries) :
              /\ e.at = r.at
              /\ IF r.initf = "ide_init"
                   THEN e.dev = IdeId /\ e.handler = "ide_handle_int"
                   ELSE e.dev \in EthSlots /\ eth_ifs[e.dev].at = r.at /\ e.handler = "e1000_handler"
        \/ r.initf = "ide_init" /\ ~Is(cfg[r.at]).line_rw /\ {IRQ14, IRQ15} \subseteq irqs
    /\ \A e \in pci_irq_handler(entries) : e.handler = "e1000_handler" =>
        \/ eth_ifs[e.dev] # Null /\ eth_ifs[e.dev].at = e.at
        \/ ~ReadsMac(cfg[e.at], FALSE)

\* How many steps discovery can still take: one per function and driver, five
\* per Ethernet device and one per interface.
StepsLeft ==
    CASE Scanning ->
           (Scanned - pos) * (Len(pci_devices) + 1) + Len(pci_devices) + 1 - drv
             + 5 * ETH_MAX_IFS + NET_MAX_IFS + 4
      [] ~Scanning /\ npc = "setup"   -> 5 * ETH_MAX_IFS + NET_MAX_IFS + 3
      [] npc = "devices"              -> 5 * (ETH_MAX_IFS - ni) + NET_MAX_IFS + 2
      [] npc = "link"                 -> 5 * (ETH_MAX_IFS - ni) + NET_MAX_IFS - 2 + s
      [] npc = "print"                -> NET_MAX_IFS - ni + 1
      [] OTHER                        -> 0

\* Every step brings discovery nearer to its end, so neither the enumeration
\* nor the wait for a link can keep kmain from going on; no state before the
\* end is a deadlock.
DiscoveryAdvances == [][StepsLeft' < StepsLeft]_vars
=============================================================================
