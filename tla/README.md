# Verification of the korolev64 kernel

TLA+ models of the kernel in this repository and of its KSSFS tools, TLC
configurations that check them on small instances, and TLAPS proofs of the main
safety properties for every value of the constants.  `PROJECT.json` maps every
definition to the source lines it models and lists the runs, the hazards each
property is aimed at, the variants of the code that break each property, and the
theorems.

## The system

korolev64 is a 32-bit x86 kernel loaded by a Multiboot2 loader.
`boot/entry.asm` calls `kmain` (`kernel/main.c`), which sets up interrupts,
memory, system calls, the timer, the keyboard, Ethernet and the PCI bus with
interrupts off, enables interrupts, sets up the network, and loads and starts
the program `init`.  From then on everything happens in interrupt handlers and
in the system call `int 127`.  There is one processor and no thread, so the
interleavings that matter are interrupts against `kmain` and the program, and
devices against drivers.  Disk images are made and mounted on a host by the
programs in `tools/`.

| part | code | state and operations that change it | modelled in |
|---|---|---|---|
| interrupt dispatch | `kernel/int.c`, `inta.asm` | handler table, the 8259 pair, the interrupt flag, stack frames | `Interrupts` |
| timer | `dev/timer.c` | three counters; tick, `__sleep` | `Timer` |
| keyboard | `dev/kbd.c` | event stack, modifiers; interrupt, pop, reset, set-up | `Keyboard`, `EventStack` |
| memory | `kernel/memory.c`, `malloc` | heap bounds, page counter; init, alloc | `Memory` |
| Multiboot tags, command line | `kernel/multiboot.c`, `cmdline.c`, `strncmp` | the tag walk, the word buffer, the two options | `Multiboot`, `Strings`, `Boot` |
| serial port, number formatting | `dev/serial.c`, `putn*` and `itoa` | UART registers and FIFO, two printers | `Serial`, `Numbers`, `Boot` |
| boot order, system calls | `kernel/main.c`, `syscall.c`, `kshell.c`, `init/` | the order of set-up, the program's registers | `Kernel` |
| terminal | `kernel/text.c` | cursor, string mode, screen, VGA registers | `Console`, `ConsoleText` |
| PCI, IDE | `dev/pci.c`, `dev/ide.c` | configuration space, interrupt entries, channel ports | `Pci` |
| Ethernet table, interfaces | `net/*.c` | two tables, addresses, link wait | `Network` |
| network cards | `dev/e1000.c`, `dev/virtio-net.c` | set-up in the tables; the e1000's rings | `Devices`, `E1000` |
| KSSFS tools | `tools/format.c`, `kssfs_fuse.c` | image, buffer, open files | `Kssfs`, `FileSystems` |
| kernel readers | `fs/kssfs.c`, `fs/kfs2.c` | cluster buffer and its number, handles | `ClusterCache`, `KssfsReader`, `Kfs2`, `FileSystems` |
| everything else | see *Not modelled* | | |

## Modules

Every component is a module with its variables, `Init`, one action per handler,
call or step, and a specification.  `MC*` modules give constants values;
`MCInterrupts` and `MCTerminal` also put two components that do not touch each
other side by side, a variable `part` saying which of them a behaviour is of.

* `Interrupts` - the stubs push and drop words, C handlers run, the end of
  interrupt goes to one or both controllers.  Frames are a stack of records; the
  8259s (request, in-service, priority, cascade, spurious interrupts) and the
  processor are external.  `isr_handler` and `irq_handler` leave what the
  registered function does to whoever conjoins them.
* `Timer` - `timer_handler` on counters of `Width` values, and `__sleep` as the
  three reads of `ticks2` it makes, with ticks in between.
* `EventStack` is what the keyboard driver promises, a bounded stack;
  `Keyboard` is the driver: scan codes, the two-byte codes whose second byte may
  come late, the array with its downward pointer.
* `Memory` - the scan of the memory map, entry by entry, and the page-granular
  allocator, with 64-bit lengths cut to 32 bits.
* `Strings` is `strncmp` with its word-wise loop, on memory in which something
  follows every string.  `Multiboot` is the walk over the tags: the words of the
  command line are copied into a buffer that is cleared only in part, split at
  the colon and compared with the commands.  `Serial` sets the port up register
  by register and prints byte by byte, with a handler that may print between any
  two accesses of `kmain`; the UART and its FIFO are external.  `Numbers` has
  `putn2`, `putn10`, `putn16` and `itoa` as functions on digits.
* `Boot` composes these with `Memory`: the map found by the walk becomes the
  heap, an option switches the port on, and then allocations and printing
  interleave.  What is printed during the walk itself is only its text
  (`MapPrinted`); it is not sent.
* `Kernel` extends `Interrupts`, `Timer` and `Keyboard`: `kmain` call by call,
  with its polls of the PS/2 controller (which may never answer), the sleeps of
  `ide_init` and the wait for each Ethernet device's link; devices raising lines
  at any time, handlers run by `irq_handler`, a program making system calls.
* `Console` - `kmain` printing at the grain of single accesses to `text_x`,
  `text_y`, `strm`, the screen and the ports, interrupted by handlers that print
  too.  `ConsoleText` adds the history of what was printed and compares the
  screen with a roll of paper.
* `Pci` (configuration accesses on bytes, enumeration, matching, interrupt
  entries, `ide_init`), `Network` (both tables, the wait for the link, addresses
  and their text) and the card drivers' init functions are composed in
  `Devices`: discovery from `pci_setup` to the end of `network_setup`.
* `E1000` - the receive and transmit rings, shared with a card that works by
  itself; the handler and `e1000_write` in their steps.
* `Kssfs` - the images `mkfs.kssfs` makes and the requests of `mount.kssfs`.
  A path is a sequence whose first element is the slash, so that the places
  where the code compares with and without it differ as they do in C.
* `ClusterCache` is what `fs/kssfs.c` and `fs/kfs2.c` share: the header is read
  once, the last cluster is kept with its number, and a sector that fails leaves
  the buffer as it was.  `KssfsReader` loads files from the image the tools left,
  cluster by cluster; `Kfs2` opens, reads and closes files of a KFS2 image, its
  uninitialised variable being a choice from `Uninit`.  `FileSystems` composes
  the tools, the disk and both readers.

Definitions whose comment starts with "Mutation" (in the later modules, those
with a suffix such as `Stale` or `NoWrap`) are variants of the definition after
them, with a plausible mistake.  No specification uses them; `PROJECT.json` says
which property each of them breaks.

## Runs

All runs use the specifications themselves; a configuration only assigns
constants.

| run | checks | bounds and why they are enough |
|---|---|---|
| `interrupts` | lines never interrupt a handler, in-service bits and stack are right, requests are taken (liveness); the two clocks agree, sleeps are never short and end | lines 0, 3 (before and after the cascade), 8, 10; an exception with and one without error code; three frames deep, so an exception can interrupt a handler and itself be interrupted.  Counters of 10 values, so both wrap, at 3 ticks a second; sleeps shorter and longer than what is left before the wrap |
| `boot` | heap choice, disjoint blocks, which block can overrun; options taken; printed ranges read back; no byte lost on the line, printing ends | words of 8 bits, pages of 4; all maps of up to two entries of 34 kinds (empty, equal, unaligned, ending at the limit of the address space and beyond it, available and reserved); lines of up to three of ten words, longer and shorter than the options; a FIFO of four bytes, the least for which nothing is lost; up to two texts by `kmain`, two lines by handlers |
| `kernel` | boot ends if the PS/2 controller answers, no key interrupt is lost | the timer's and the keyboard's line; `dev/ide.c` as it is, and disks without `init`, with one that is no program and with a program; no Ethernet device or one, whose link comes up at any time or never; a program using calls 0, 2 and 3 |
| `terminal` | cursor and stores stay in bounds, hardware cursor, screen contents; the keyboard driver refines `EventStack`, no stuck modifier | 2 x 2 screen, so wrap and scroll come at once; five calls and two interrupts at any point.  An event stack of 3 elements (full and empty are reached), all modifiers, one of them a two-byte code |
| `devices` | IDE probed once, interrupts routed, interfaces complete, printed addresses read back, discovery ends | three functions, each of 13 kinds of device; three driver tables; tables of three entries, one of which the loopback takes, so that two Ethernet devices get interfaces and a third does not |
| `e1000` | no frame or descriptor lost, order kept, `e1000_write`'s result true, both directions live | rings of 3, four frames each way, so both wrap; one time-out step, so that time-outs and overruns happen |
| `filesystems` | contents kept, handles and names consistent, the kernel reads what the tools wrote, both caches coherent, KFS2 handles right | KSSFS: three clusters, two names, two open files, two bytes of two values, every list of up to three host files, skipped ones included; KFS2: an image with a chain out of order and one with equal names, two handles and one out of range, ranges inside and past the end; no sector fails, the header's, or the data's; a name that `strncmp` may take for another |
| `nonblocking_read`, `blocking_read` | expected violations, see *Findings* | one program calling only 2, or only 3 |
| `network_option`, `link_timeout`, `kfs2_read` | expected violations, see *Findings* | the bounds of `boot`, `devices` and `filesystems`; the last reads past the end of a file |

`terminal`, `e1000`, `boot` and `filesystems` turn deadlock checking off: the
first three stop at their bounds on calls, frames, blocks and texts, a boot
that finds no memory map has nothing to allocate from; the last stops when a
write of the mount tool has left its buffer.

### Fairness

* `IntFairness`: the processor executes handlers and stubs (weak fairness),
  reaches `sti`, does not fault for ever, and a controller with a deliverable
  request is served (strong, since interrupts are off again and again).
* `TimerFairness`: the PIT ticks, `kmain` reaches `sti`, the loop in `__sleep`
  tests its condition more often than the counter moves (strong).
* `KernelFairness`: the same for the composition; the PIT goes on ticking, but
  ticks are 10 ms apart, so they leave `kmain` and the other lines time.  No
  fairness makes a link come up or the PS/2 controller answer: a controller that
  does is the hypothesis of `BootEnds`.
* `E1000Spec`: the card sets causes and sends what it is given, interrupts are
  taken, the handler and `e1000_write` go on.  Nothing makes frames arrive.
* `SerialFairness`: `serial_write` goes on polling, in `kmain` and in a handler,
  and the UART sends what is in its FIFO.  Nothing makes anybody print.
* `filesystems` checks safety only.  `devices` needs no fairness: every step
  lowers `StepsLeft` and no state before the end is stuck.

### Findings

* `nonblocking_read`: `kernel/syscall.c:23` says call 2 "returns 0xffff if
  there's no available key"; the handler stores it in its own copy of the
  registers, and the program's `ebx` does not change.
* `blocking_read`: call 3, "read keyboard (blocking)" (`kernel/syscall.c:34`),
  waits with interrupts off for an event that only an interrupt can bring.
* `network_option`: `network:false` is to call `network_disable`
  (`kernel/cmdline.c:16-21`), but never does.  `strncmp` goes on past the
  terminator of `network`, which ends a word, and meets the argument.
* `link_timeout`: an interface whose link did not come up is to say "timed out"
  and to get no address (`net/network.c:55-59`), but the test is for 0xffffffff
  and `s` is 0 then.
* `kfs2_read`: `docs/fs/kfs2.txt:46` says of `next` that 0 is none, and
  `include/fs/kfs2.h:18` names it `KFS2_CLSTR_EOF`; `kfs2_read_byte` goes on with
  cluster 0 and returns its bytes as the file's.  `Kfs2ReadsFile` fails for two
  more reasons, described below.

## Proofs

TLAPS proves, for all values of the constants that satisfy the named
assumptions:

* `InterruptSafety` - lines never interrupt a handler, in-service bits only under their
  handler, the stubs' stack balance.  None is inductive alone: `IntInv` adds that
  the flag is off while a handler runs (`FlagOfTop`), that only the outermost
  frame can be an interrupt's and all frames under the top are in their handler
  (`FrameOrder`), what each frame holds (`FrameContents`), and that the bits in
  service are exactly those of the outermost frame (`ServiceMatchesFrame`).  The
  non-specific end of interrupt clears the right bit because of the last one.
* `KernelInterruptSafety` - the same three properties of the composed kernel.
  Its steps are steps of `Interrupts` or leave its variables alone, by the way
  the module is written, so the invariant is the same.
* `TimerSafety` - the clocks agree through every wrap (arithmetic on `%` in
  lemmas), no step ends a sleep early whose deadline does not wrap.  `WaitTracked`
  is the strengthening: in the loop, until the deadline, the counter has moved
  by exactly the ticks that went by.
* `KeyboardTypeCorrect`, `KeyboardImplementsEventStack` - the refinement, step
  by step: push, pop, reset, and everything else a stutter.
* `BootHeapSafety` - the heap properties hold for the map the walk over the tags
  has found, whatever options and printing surround it.  The walk reaches
  `Memory` only at the tag whose entries are its map.
* `SerialLosesNothing` - no byte is written to a full FIFO.  `serial_write` tests
  the FIFO once for the two bytes of a newline, and a handler may come between
  the test and the bytes; the invariant is that the FIFO and what is owed to it
  after a test (`Owed`) are at most four bytes.
* `ReadersStayCoherent` - each sector of a reader's buffer is that of the cluster
  it has noted, or one whose read failed when that cluster was last read.  So a
  read that is skipped is right but for these sectors; the code does not try them
  again until another cluster has been read.  `CacheInv` adds that a reader is mounted only
  after the tools are done with the image, and on its own kind of partition.
* `HandlesKeepTheirFiles` - a KFS2 handle stands for the first file of its name
  until it is closed.  `HandleInv` adds that free handles are closed ones, and
  `Searching` what `kfs2_open_file` has passed on its way.
* `ReceiveRingSafety` - every frame stored is seen once and in order, and the
  tail gives every descriptor back but one.  `RxInv` places the frames that wait
  between `rx_cur` and the head (`RxOrder`, `Holds`) and ties the tail to
  `old_cur` in each step of the handler (`RxEnds`).
* `TransmitRingSafety` - frames leave once and in the order they were written,
  and a write that returned its length has been sent, unless the ring was
  overrun.  `TxInv` places the frames that have not left between the head and
  `tx_cur` (`TxRing`, `Carries`) and ties the tail, the frame the card has
  fetched and the results to their number (`TxEnds`).  Positions in a ring are
  `Apart`, a subtraction with wrap, which lemmas relate to `%`.
* `HeapSafety` - the heap is the largest available entry, blocks are disjoint,
  only the last can overrun.  `MemInv` adds the state of the scan (`ScanInv`) and
  that the blocks lie in order below the page counter (`HeapInv`).

Assumptions: `InterruptsAssumption` (no exception whose stub and processor
disagree about an error code, which are those of modes the kernel never enters),
`TimerAssumption` (a sleep is shorter than the counter's range),
`KeyboardAssumption`, `MemoryAssumption` (pages divide the width, no size within
the last page of the address space), `KernelAssumption` (the kernel's own
registrations), `SerialAssumption` (a FIFO of at least four bytes; a real one has
16), `MultibootAssumption` (words leave room in the buffer for a comparison),
`Kfs2Assumption` (the header counts the clusters that are there) and
`E1000Assumption` (rings of at least two descriptors), each in the module that declares the constants and evaluated by
TLC in the runs.  The heap properties are about maps whose available entries end
by 4 GiB and are shorter than that (`Below4G`); reserved entries may lie anywhere,
as on a PC, where one ends at 4 GiB.

The type invariants of `Interrupts`, `Timer`, `Keyboard` and `Memory`,
`FifoNeverFull` and `RemainingIsExact` (in the loop of `__sleep` the remaining
wait is what was asked minus what has gone by) are part of these theorems and in
no run's configuration.

Only model-checked: all liveness properties (the prover has no fairness
reasoning); what the recursive definitions compute (`strncmp`, the number
formatters: `MapPrinted`, `PrintedReadsBack`, `OptionsTaken`), since that needs
induction over data; `LineKeepsText`, which is about a fold over the text,
while the reason for it is `SerialLosesNothing`; `NoStuckModifier`; everything
about `Console` and `Devices`; and of the file systems `ContentKept`,
`HandleKeepsFile` and `KernelReadsWritten`.

## What the models show of the code

Behaviour that follows from the source and that a reader of it may not expect.
The models have it; where a property is about something else than such a case,
its comment says so.

* `strncmp` goes on past the terminator, word by word.  `serial:true` is taken
  behind words that are not longer, since those leave nothing behind it in the
  buffer.  Equal file names may compare as different,
  depending on what follows them (`Torn`, `Ambiguous`).
* Without an argument, the commands compare with address 0.  An empty command
  line reads the byte after its terminator (taken to be 0, padding).
* `serial_write` needs four free bytes in the worst case; it tests for an empty
  FIFO, so 16 are enough.
* `putn2` never prints bit 31.  `itoa` is right, although `kernel/text.c:129` says
  it "seems to be buggy".  `put_hwaddr` prints `00` for 0 and one digit for 1 to 15.
* `kfs2_read_byte` takes only the first byte of each cluster from the data, since
  `KFS2_BYTE_CLSTR_OFF` subtracts the wrong way round.  It compares `clstr_n`
  before setting it, and starts at cluster 0 when the value it happens to hold is
  the number asked for.  It does not look at the number of the handle, also not
  for the -1 that `kfs2_open_file` returns on failure: what lies beyond the
  handles is any memory in `Kfs2`.
* A sector that fails leaves the old contents in the buffer under the new number,
  and the cluster is not read again until another one has been read.
  `KernelReadsWritten` is about reads that did not meet such a cluster.
* The largest entry of the memory map is chosen by the low 32 bits of its length,
  and a sleep whose deadline wraps returns at once.
* A PS/2 controller that does not answer stops `kmain` in `kbd_setup`, with
  interrupts off.  The wait for a link ends after three sleeps.  `Kernel` takes
  the Ethernet devices to have an `is_up`; what happens without is in `Devices`.
* `kssfs_rename` answers success and renames nothing.
* `pci_irq_handler` may call `e1000_handler` with an `ethdev` that was freed, or
  given to another card, when the MAC address could not be read.
* The wait for the EEPROM (`dev/e1000.c:119`) has no bound; `Devices` takes it to
  end.

## Not modelled

* `kssfs_write_cluster`, `serial_read`, `serial_available`, `pci_int_release`,
  `netdev_free`, `netdev_addr_free`, `memcpy_old`, `atoi`: nothing calls them.
  Nothing calls `kssfs_init` and `kfs2_init` either, and the sector functions of
  `dev/ide.c` are stubs: the readers are modelled on a disk driver behind these
  stubs, and `Kernel` starts `kmain` both with the stubs and with what such a
  driver would find.
* `tools/kssfs_fuse.c` with several threads (`fuse_main` without `-s`): all
  requests share one buffer, and no property of `Kssfs` would survive.
* `tools/mkfs.kfs2.c` opens its image with `"wb"`, which empties it before its
  size is taken; from there on the size of the image wraps and the write reads
  past the structure, so that there is no defined image to model.
  `mount.kfs2.c` does not compile and is not built; `fsinspect.c` prints.
* `mkfs.kssfs` with more than 256 files, for which `256 - file_n`
  (`tools/format.c:66`) is not the number of blank clusters.
* Words of the command line so long that a comparison leaves the buffer, and the
  sending of what is printed during the tag walk.
* Paging and task switching are empty; port access, the GDT, build files and
  boot media have no state of interest here.  Exceptions do not repeat the
  instruction that caused them.
* Register-level programming of the PIT, the e1000 and virtio devices, except
  where a property depends on it; the virtio queues, which are filled in but
  never given to the device.
