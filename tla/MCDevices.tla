------------------------------- MODULE MCDevices -------------------------------
(* A small instance of Devices for TLC: functions on one scanned bus. *)
EXTENDS Devices

pci_dev_disk ==
    [initf |-> "ide_init", ids_len |-> 33, ids |-> {}, class_code |-> 1, subclass |-> 1]
pci_dev_e1000(init) ==
    [initf |-> init, ids_len |-> 7, ids |-> {<<<<134, 128>>, <<14, 16>>>>},
     class_code |-> 0, subclass |-> 0]
pci_dev_virtio_net ==
    [initf |-> "virtionet_init", ids_len |-> 1, ids |-> {<<<<244, 26>>, <<0, 16>>>>},
     class_code |-> 0, subclass |-> 0]

MCTables ==
    [shipped |-> <<pci_dev_disk>>,
     nics |-> <<pci_dev_disk, pci_dev_e1000("e1000_init"), pci_dev_virtio_net>>,
     old |-> <<pci_dev_disk, pci_dev_e1000("e1000_init_old"), pci_dev_virtio_net>>]

Zero == <<0, 0, 0, 0>>

Fn(id, class, bar, sss, line_rw, mac, ok) ==
    [space |-> <<id, Zero, class, Zero, bar, bar, Zero, Zero, bar, Zero, Zero,
                 <<0, 0, sss, 0>>, Zero, Zero, Zero, <<255, 1, 0, 0>>>>,
     line_rw |-> line_rw, mac |-> mac, eeprom |-> ok, features |-> ok]

None == <<0, 0, 0>>
Io == <<1, 192, 0, 0>>
Ich == <<134, 128, 16, 112>>
E1000 == <<134, 128, 14, 16>>
Virtio == <<244, 26, 0, 16>>

MCHardware ==
    [empty      |-> Fn(<<255, 255, 255, 255>>, <<255, 255, 255, 255>>, Io, 0, FALSE, None, FALSE),
     bridge     |-> Fn(<<134, 128, 0, 0>>, <<1, 0, 1, 1>>, Io, 0, TRUE, None, FALSE),
     ide        |-> Fn(Ich, <<1, 128, 1, 1>>, Zero, 0, TRUE, None, FALSE),
     ide_noline |-> Fn(Ich, <<5, 128, 1, 1>>, Io, 0, FALSE, None, FALSE),
     ide_rev0   |-> Fn(Ich, <<0, 133, 1, 1>>, Io, 0, TRUE, None, FALSE),
     class3     |-> Fn(Ich, <<1, 0, 1, 3>>, Io, 0, TRUE, None, FALSE),
     e1000      |-> Fn(E1000, <<3, 0, 0, 2>>, <<0, 16, 0, 0>>, 0, TRUE, <<4660, 0, 171>>, FALSE),
     e1000_zero |-> Fn(E1000, <<3, 0, 0, 2>>, <<0, 16, 0, 0>>, 0, TRUE, <<0, 0, 2>>, FALSE),
     e1000_rom  |-> Fn(E1000, <<3, 0, 0, 2>>, <<0, 16, 0, 0>>, 0, TRUE, <<0, 0, 0>>, TRUE),
     vnet       |-> Fn(Virtio, <<0, 0, 0, 2>>, Io, 1, TRUE, <<7, 8, 9>>, TRUE),
     vnet_refus |-> Fn(Virtio, <<0, 0, 0, 2>>, Io, 1, TRUE, <<7, 8, 9>>, FALSE),
     vnet_disk  |-> Fn(Virtio, <<0, 0, 0, 2>>, Io, 2, TRUE, <<7, 8, 9>>, TRUE),
     vnet_mem   |-> Fn(Virtio, <<0, 0, 0, 2>>, <<0, 192, 0, 0>>, 1, TRUE, <<7, 8, 9>>, TRUE)]
=============================================================================
