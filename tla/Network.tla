-------------------------------- MODULE Network --------------------------------
(***************************************************************************)
(* The tables of Ethernet devices (net/ethernet.c) and of network          *)
(* interfaces (net/network.c), and network_setup, which makes an interface *)
(* with a link-local IPv6 address for every Ethernet device.               *)
(*                                                                         *)
(* An address is kept as the eight words network_print_ipv6 reads, a MAC   *)
(* address as the three words netdev_add_linklocal makes of it.            *)
(***************************************************************************)
EXTENDS Numbers

CONSTANTS ETH_MAX_IFS,  \* both 16 in the code
          NET_MAX_IFS,
          Null          \* a free slot, a NULL pointer

ASSUME NetworkAssumption == NET_MAX_IFS = ETH_MAX_IFS /\ ETH_MAX_IFS \in Nat \ {0}

VARIABLES eth_ifs,   \* the Ethernet devices
          net_ifs,   \* the interfaces
          disabled,  \* network__disable
          npc,       \* where network_setup is
          ni,        \* its loop index
          dev,       \* the interface it is filling in
          s,         \* the sleeps left while it waits for the link
          shown,     \* the interfaces it has printed, as [dev, link, inet6]
          linked     \* history: the Ethernet devices whose link came up

netVars == <<eth_ifs, net_ifs, disabled, npc, ni, dev, s, shown, linked>>

EthSlots == 0 .. ETH_MAX_IFS - 1
NetSlots == 0 .. NET_MAX_IFS - 1

FirstFree(ifs) ==
    LET free == {i \in EthSlots : ifs[i] = Null}
    IN  IF free = {} THEN Null ELSE CHOOSE i \in free : \A j \in free : i <= j

ethernet_allocate == FirstFree(eth_ifs)

netdev_allocate == FirstFree(net_ifs)

\* The bytes of the mask that netdev_add_ip6_address sets for a prefix.
mask(prefix) ==
    LET fb == prefix \div 8
        rb == prefix - fb * 8
    IN  [i \in 1 .. 16 |-> IF i <= fb THEN 255
                           ELSE IF i = fb + 1 /\ rb # 0 THEN 2 ^ (8 - rb) - 1
                           ELSE 0]

Address(words, prefix, attr) == [words |-> words, mask |-> mask(prefix), attr |-> attr]

Colon == -2     \* the character ':' among the digits printed
fe80 == 65152   \* 0xfe80

netdev_add_linklocal(mac) ==
    Address(<<fe80, 0, 0, 0, 0, mac[1], mac[2], mac[3]>>, 64, "LOCAL")

Loopback ==
    [name |-> "lo", iftype |-> "LOOPBACK", physical |-> Null, up |-> 1,
     addresses |-> <<Address(<<0, 0, 0, 0, 0, 0, 0, 1>>, 64, "LOOP")>>]

\* PrintWord with every run of zero words left out.
PrintWordAnyRun(a, i, w) ==
    CASE w = 0 /\ i = 7 -> [a EXCEPT !.text = Append(@, Colon)]
      [] w = 0 /\ i # 7 -> [a EXCEPT !.omit = 1]
      [] OTHER ->
           [omit |-> 0,
            text |-> a.text \o (IF a.omit = 1 THEN <<Colon>> ELSE <<>>) \o putn16(w)
                            \o (IF i # 7 THEN <<Colon>> ELSE <<>>)]

\* One step of the loop over the words: zero words are left out until the
\* first other word after them.
PrintWord(a, i, w) ==
    CASE w = 0 /\ a.omit = 0            -> [a EXCEPT !.omit = 1]
      [] w = 0 /\ a.omit = 1 /\ i = 7   -> [a EXCEPT !.text = Append(@, Colon)]
      [] w = 0 /\ a.omit = 1 /\ i # 7   -> a
      [] OTHER ->
           [omit |-> IF a.omit = 1 THEN 2 ELSE a.omit,
            text |-> a.text \o (IF a.omit = 1 THEN <<Colon>> ELSE <<>>) \o putn16(w)
                            \o (IF i # 7 THEN <<Colon>> ELSE <<>>)]

Text(words) ==
    LET after[i \in 0 .. 8] ==
            IF i = 0 THEN [omit |-> 0, text |-> <<>>]
            ELSE PrintWord(after[i - 1], i - 1, words[i])
    IN  after[8].text

BitLength(b) == CHOOSE n \in 0 .. 8 : b < 2 ^ n /\ (n = 0 \/ b >= 2 ^ (n - 1))

\* Whole bytes of the mask are counted up to the first that is not 0xff, whose
\* significant bits are counted too.
Prefix(m) ==
    LET full == {i \in 1 .. 16 : \A j \in 1 .. i : m[j] = 255}
        n    == IF full = {} THEN 0 ELSE CHOOSE i \in full : \A j \in full : j <= i
    IN  8 * n + (IF n < 16 THEN BitLength(m[n + 1]) ELSE 0)

network_print_ipv6(addr) ==
    [words |-> addr.words, text |-> Text(addr.words),
     prefix |-> putn10(Prefix(addr.mask))]

MacBytes(mac) == [i \in 1 .. 6 |-> LET w == mac[(i + 1) \div 2]
                                   IN  IF i % 2 = 1 THEN w \div 256 ELSE w % 256]

\* Only a byte that is 0 is printed with two digits.
put_hwaddr(mac) ==
    LET one(b) == (IF b = 0 THEN <<0>> ELSE <<>>) \o putn16(b)
    IN  FoldLeft(LAMBDA text, b : text \o <<Colon>> \o one(b), one(MacBytes(mac)[1]),
                 Tail(MacBytes(mac)))
-----------------------------------------------------------------------------
NetInit ==
    /\ eth_ifs = [i \in EthSlots |-> Null]
    /\ net_ifs = [i \in NetSlots |-> Null]
    /\ disabled \in BOOLEAN
    /\ npc = "setup" /\ ni = 0 /\ dev = Null /\ s = 0
    /\ shown = <<>> /\ linked = {}

network_setup ==
    /\ npc = "setup"
    /\ \/ /\ disabled
          /\ npc' = "done"
          /\ UNCHANGED net_ifs
       \/ /\ ~disabled
          /\ npc' = "devices"
          /\ net_ifs' = [i \in NetSlots |-> IF i = 0 THEN Loopback ELSE Null]
    /\ UNCHANGED <<eth_ifs, disabled, ni, dev, s, shown, linked>>

\* ethernet_getdev returned NULL, or there is no further index.
NoDevice ==
    /\ npc = "devices"
    /\ IF ni < ETH_MAX_IFS
         THEN eth_ifs[ni] = Null /\ ni' = ni + 1 /\ UNCHANGED npc
         ELSE ni' = 0 /\ npc' = "print"
    /\ UNCHANGED <<eth_ifs, net_ifs, disabled, dev, s, shown, linked>>

Interface(e) ==
    [name |-> "eth", iftype |-> "ETHERNET", physical |-> e, up |-> 1, addresses |-> <<>>]

\* An interface for the device.  When netdev_allocate returns NULL the code
\* writes through it: everything after that is undefined.
AddInterface ==
    /\ npc = "devices" /\ ni < ETH_MAX_IFS /\ eth_ifs[ni] # Null
    /\ LET k == netdev_allocate
       IN  IF k = Null
             THEN npc' = "undefined" /\ UNCHANGED <<net_ifs, dev, s>>
             ELSE /\ net_ifs' = [net_ifs EXCEPT ![k] = Interface(ni)]
                  /\ npc' = "link" /\ dev' = k /\ s' = 3
    /\ UNCHANGED <<eth_ifs, disabled, ni, shown, linked>>

\* What the loop's test gets from is_up, called before it looks at s.
Link == CASE eth_ifs[ni].is_up = "e1000_check_link"     -> BOOLEAN
          [] eth_ifs[ni].is_up = "virtionet_check_link" -> {FALSE}
          [] OTHER                                      -> {}

KeepWaiting ==
    /\ npc = "link"
    /\ FALSE \in Link /\ s > 0
    /\ s' = s - 1
    /\ UNCHANGED <<eth_ifs, net_ifs, disabled, npc, ni, dev, shown, linked>>

\* StopWaiting that comes back to the same device.
StopWaitingAgain ==
    /\ npc = "link"
    /\ \E up \in Link : (up \/ s = 0) /\ linked' = IF up THEN linked \cup {ni} ELSE linked
    /\ net_ifs' = [net_ifs EXCEPT ![dev].addresses =
                      Append(@, netdev_add_linklocal(eth_ifs[ni].mac))]
    /\ npc' = "devices"
    /\ UNCHANGED <<eth_ifs, disabled, ni, dev, s, shown>>

\* StopWaiting that takes the index of the device for that of the interface.
StopWaitingByIndex ==
    /\ npc = "link"
    /\ \E up \in Link : (up \/ s = 0) /\ linked' = IF up THEN linked \cup {ni} ELSE linked
    /\ net_ifs' = [net_ifs EXCEPT ![ni].addresses =
                      Append(@, netdev_add_linklocal(eth_ifs[ni].mac))]
    /\ npc' = "devices" /\ ni' = ni + 1
    /\ UNCHANGED <<eth_ifs, disabled, dev, s, shown>>

\* The link is up, or three sleeps are over: s is then 0, never the 0xffffffff
\* (-1 here) that the code takes for a time-out.
StopWaiting ==
    /\ npc = "link"
    /\ \E up \in Link : (up \/ s = 0) /\ linked' = IF up THEN linked \cup {ni} ELSE linked
    /\ net_ifs' = IF s = -1 THEN net_ifs
                  ELSE [net_ifs EXCEPT ![dev].addresses =
                            Append(@, netdev_add_linklocal(eth_ifs[ni].mac))]
    /\ npc' = "devices" /\ ni' = ni + 1
    /\ UNCHANGED <<eth_ifs, disabled, dev, s, shown>>

CallNull ==
    /\ npc = "link" /\ Link = {}
    /\ npc' = "undefined"
    /\ UNCHANGED <<eth_ifs, net_ifs, disabled, ni, dev, s, shown, linked>>

\* The name, the flags and the MTU are left out.
Shown(i) ==
    LET d == net_ifs[i]
    IN  [dev |-> i,
         link |-> IF d.iftype = "ETHERNET" THEN put_hwaddr(eth_ifs[d.physical].mac) ELSE <<>>,
         inet6 |-> [a \in DOMAIN d.addresses |-> network_print_ipv6(d.addresses[a])]]

netdev_print ==
    /\ npc = "print"
    /\ IF ni < NET_MAX_IFS
         THEN /\ shown' = IF net_ifs[ni] = Null THEN shown ELSE Append(shown, Shown(ni))
              /\ ni' = ni + 1 /\ UNCHANGED npc
         ELSE npc' = "done" /\ UNCHANGED <<shown, ni>>
    /\ UNCHANGED <<eth_ifs, net_ifs, disabled, dev, s, linked>>

NetNext ==
    \/ network_setup \/ NoDevice \/ AddInterface
    \/ KeepWaiting \/ StopWaiting \/ CallNull
    \/ netdev_print
-----------------------------------------------------------------------------
\* The words a printed address stands for: a number ends at a colon, and the
\* one empty place between two colons holds as many zero words as are missing.
Reading(text) ==
    LET starts == {i \in DOMAIN text : text[i] # Colon /\ (i = 1 \/ text[i - 1] = Colon)}
        end(i) == Min({j \in i .. Len(text) : text[j] = Colon} \cup {Len(text) + 1}) - 1
        order  == SetToSortSeq(starts, LAMBDA i, j : i < j)
        nums   == [k \in DOMAIN order |-> Value(SubSeq(text, order[k], end(order[k])), 16)]
        gaps   == {i \in 1 .. Len(text) - 1 : text[i] = Colon /\ text[i + 1] = Colon}
        left   == Cardinality({i \in starts : \A g \in gaps : i < g})
    IN  IF gaps = {} THEN nums
        ELSE SubSeq(nums, 1, left) \o [i \in 1 .. 8 - Len(nums) |-> 0]
             \o SubSeq(nums, left + 1, Len(nums))

\* Every address that network_print_ipv6 shows reads back as the address of
\* the interface, with the prefix length it was added with.  Addresses that
\* start with a zero word are excepted: the code prints one colon for their
\* first run of zeros, so that the loopback address appears as :1.  The
\* hardware address in front of them reads back as that of the device.
PrintedReadsBack ==
    \A k \in DOMAIN shown :
        /\ \A a \in DOMAIN shown[k].inet6 :
               LET p == shown[k].inet6[a]
               IN  /\ Value(p.prefix, 10) = 64
                   /\ p.words[1] # 0 => Reading(p.text) = p.words
        /\ LET e == net_ifs[shown[k].dev].physical
           IN  e # Null => Reading(shown[k].link) = MacBytes(eth_ifs[e].mac)

\* When network_setup has come to its end, the interfaces are the loopback
\* followed by one for every Ethernet device, in the order of eth_ifs, each
\* up.  One whose link came up has exactly one address, the link-local one of
\* its device; no other has any address but that.  network_setup calls no NULL
\* function and writes through no NULL interface, except for a device that
\* its driver left without is_up and when all slots hold Ethernet devices, the
\* loopback having taken the first interface.
InterfacesComplete ==
    /\ npc = "undefined" =>
           \/ \E i \in EthSlots : eth_ifs[i] # Null /\ eth_ifs[i].is_up = Null
           \/ \A i \in EthSlots : eth_ifs[i] # Null
    /\ (npc = "done" /\ ~disabled) =>
           LET devs == SelectSeq([i \in 1 .. ETH_MAX_IFS |-> i - 1],
                                 LAMBDA i : eth_ifs[i] # Null)
               own(d) == <<netdev_add_linklocal(eth_ifs[d].mac)>>
           IN  /\ net_ifs[0] = Loopback
               /\ \A k \in 1 .. NET_MAX_IFS - 1 :
                    IF k > Len(devs) THEN net_ifs[k] = Null
                    ELSE \E addrs \in {own(devs[k])} \cup (IF devs[k] \in linked THEN {} ELSE {<<>>}) :
                           net_ifs[k] = [Interface(devs[k]) EXCEPT !.addresses = addrs]
               /\ Len(devs) < NET_MAX_IFS

-----------------------------------------------------------------------------
(* What the code says of a link that stays down *)

\* network.c prints "timed out" and goes on to the next device, without the
\* address it gives to one that is "online": an Ethernet interface whose link
\* never came up has no address.
TimedOutHasNoAddress ==
    (npc = "done" /\ ~disabled) =>
        \A k \in NetSlots :
            /\ net_ifs[k] # Null
            /\ net_ifs[k].iftype = "ETHERNET"
            /\ net_ifs[k].physical \notin linked
            => net_ifs[k].addresses = <<>>
=============================================================================
