# Verification of Rathaxes and its reference drivers

Rathaxes generates device drivers. Its compiler, written in the CodeWorker
scripting language, keeps interfaces, templates and pieces of C code ("chunks")
in a persistent cache and weaves them into a driver that a front-end file
describes. Beside the compiler the repository holds the drivers that served as
reference for what it generates: C drivers for Linux, Windows and OpenBSD under
`doc/systems`.

This directory holds TLA+ models of the parts where order, interleaving and
failure decide: the cache, the weaving, the reordering of types and the choice of
templates in the compiler, and seven reference drivers. TLC checks them on small
instances; TLAPS proves the central invariants for every value of the constants.
`PROJECT.json` maps each definition to the lines it models.

Contents: [inventory](#inventory), [modules](#modules), [runs](#runs),
[bounds](#bounds), [fairness](#fairness), [proofs](#proofs),
[differences between code and comments](#differences-between-code-and-comments),
[what is not modelled](#what-is-not-modelled), [open work](#open-work).

## Inventory

| Part | Sources (under `src/`) | State it changes | What makes it hard | Module |
|---|---|---|---|---|
| Link cache | `rathaxes/compiler/linker/rtxLink_Session`, `rtxLink`, `rathaxes.cws`, `UseRathaxes.cmake` | two cache files, two libraries of files, the caches in memory | several invocations share the files; they are killed, fail half way, renumber what they merge | `LinkCache` |
| Link queries | `linker/rtxLink_Query` | none (reads the session) | several templates match | `LinkCache`, `ConfigMatcher` |
| Configuration matching | `linker/rtxLink_ConfigMatcher`, `node/rtxNode`, `typing/rules_types/number` | with nodes, configuration, error count | five hand-written comparisons of versions | `ConfigMatcher` |
| Weaving | `passes/common/rtxResolve`, `rtxPlaceHolders`, `rtxGen` | the statement list of a block | indices recorded before the list changes | `Weave` |
| Type reordering | `passes/common/rtxResolve_TypeReordering` | the order of declarations | circular types, recursion with flags | `TypeReordering` |
| MySerial (Windows) | `doc/systems/windows/rs232_polling/MySerial` | buffer, lock, UART, device names, serial count | a polling thread, parallel requests, plug and play | `MySerialRead`, `LossyBuffer`, `MySerialWrite`, `MySerialPnp` |
| e1000 (Linux) | `doc/systems/e1000/Linux/mod.c` | rings, registers, tasklet, interrupt | interrupt, tasklet, transmission, card and open/close at once | `E1000Lifecycle`, `E1000Queues`, `E1000Linux` |
| rs232 polling (Linux) | `doc/systems/linux/rs232_polling` | UART registers and FIFOs | one port address for latch and data, no lock | `Rs232` |
| chardev (Linux) | `doc/systems/linux/chardev` | buffer, its size and capacity | copies without a lock, resize | `CharDev` |
| ac97 (Linux) | `doc/systems/linux/ac97` | cards, chips, a static index | probes that fail at any step, or overlap | `Ac97` |
| rl8029 (OpenBSD) | `doc/systems/openbsd/rl8029` | mappings, flags, MTU | failing attach, an interrupt before the interface exists | `Rl8029` |
| rs232 polling (OpenBSD) | `doc/systems/openbsd/rs323_polling` | device table, UART registers | a table of positional initialisers | `BsdRs232` |
| Parsers, typing, other passes | `compiler/parse`, `typing`, `passes` | syntax trees | sequential walks over unbounded text | none |
| Other drivers | OpenBSD chardev, hello modules | none | print a line | none |

The compiler's parts follow each other in one invocation: parse, register in the
cache, save (`LinkCache`); on the last invocation of a target, choose templates
(`ConfigMatcher`), weave them (`Weave`), reorder the types (`TypeReordering`) and
write the C file. Between the parts pass syntax trees and nothing else, so each
module takes its input from a set of small trees. The drivers are independent
programs.

## Modules

**`MySerialRead`** is the receive path of MySerial. `ReadThread` (device.c) is the
steps `ThreadPoll`, `ThreadCheck`, `ThreadLock`, `ThreadReset`, `ThreadPut`; each
`EvtIoRead` (read.c) is `ReadBegin`, `ReadLock`, `ReadCopy`, `ReadShift`,
`ReadComplete`; `PrepareHardware` (pnp.c, uart.c) goes through its stages while the
thread already runs. A byte is the number of its arrival, and `Junk` is what a
port read gives when it does not reach a full receive register.

**`LossyBuffer`** is what that path promises, without threads, lock, cells and
moves: a queue of bounded capacity that bytes enter in the order of the line, from
which a request takes a prefix, and which is emptied as a whole when it is full.
`MySerialRead` implements it under the mapping `queue <- Queue`: the cells that no
request has copied yet. A request takes its bytes at `ReadCopy`, although they leave
the cells only at `ReadShift`.

**`MySerialWrite`** is the transmit path: any number of `EvtIoWrite` handlers
(write.c) poll, write and count, over one transmit register, with `EvtIoDefault`
(read.c:58), which writes without polling.

**`MySerialPnp`** is `EvtDeviceAdd` and `EvtDeviceContextCleanup` (device.c) for
several devices, every step of the addition with its failure, over the state of the
system that they share with other drivers: count of serial ports, device names,
the link COM1, the registry key. The history variable `holes` records that a port
went while one with a higher number stayed.

**`E1000Lifecycle`** has probe, remove, open, close, the interrupt handler and
the tasklet of mod.c, one action per step that another one can come before or
after: request_irq apart from the unmasking of the interrupts, the end of the
receiver apart from the freeing of the rings, the tasklet's test, its tests for each
cause and its clear. The kernel's promises (the rtnl lock, `free_irq`,
`tasklet_disable`, the softirq list) are external. A use of unmapped or freed memory
ends in `oops`. The history variables `unseen` and `late` hold the causes that were
recorded and not found by a test, and those recorded after the tests for them.

**`E1000Queues`** has the two descriptor rings: the sizes that `init_queue`
computes, `e1000_start_xmit` in two steps (fill, then move the tail) and the card,
which takes descriptors at any moment. The card has a layout of its own, 16 bytes
with the command at byte 11 (`CardDesc`, `CardCommand`), and finds a frame only where
one of the driver's descriptors lies as it expects it (`CardFinds`).

**`E1000Linux`** is the whole driver, the two modules above over one state: they
share the switch of the receiver (`open`, which the life cycle calls `rx`),
`init_queue` and `uninit_queue`, and are joined action by action. What is added is
the kernel's side of transmission: `start_xmit` is called between the end of open
and the begin of close, and close waits for a call that is running.

**`LinkCache`** has the invocations of `rathaxes.cws`: load both caches, register
interfaces, global code and templates with their chunks, copy the generated files,
merge, write; or clear, install, generate. A target is a script of such
invocations; `Kill` ends one at any step. The caches are the records the code
builds, with the positions of chunks that templates refer to. A build target clears the
cache, registers its files and generates, once for each system. A generation takes the
global code that is compatible with the driver's configuration, fails without any,
and loads it and the chunks from the libraries.

**`Weave`** is the resolution of one block (rtxResolve): for each placeholder the
handler `inject_pointcut`, `type_call` or `::IMPLEMENTATION` removes a statement and
inserts others at an index corrected by the block's modifier. The text of a chunk is
one item; it is "partial" when replaceCalls inserts a chunk whose own resolution
failed, an error that it counts in a local variable and does not report.

**`TypeReordering`** is `rtxResolve_BlockReordering` with the recursion of
`DoRecursive` on an explicit stack.

**`ConfigMatcher`** builds with nodes and a configuration as `node/rtxNode` does,
and selects templates with the five comparisons of `rtxLink_ConfigMatcher`. The
comparison of texts is CodeWorker's, character by character; the order it is held
against is that of numbers (`NumLess`). A version is what the
grammar makes of it (`parse/rtxCommon.cwp`): units with separators between them.

**`Rs232`** has every access to a port that open, read, write and ioctl make, as a
program of accesses per call. Latch and data share a port address, as on the chip.

**`CharDev`** has read, write, flush and resize with their single accesses to the
shared structure. The memory of the buffer has an identity: a copy that began
before a resize goes on in the freed memory (a stray access), and a failed
allocation leaves a null pointer, which kills the process that uses it.

**`Ac97`** has probe of rtx_ac97.c with every failure, remove, load and unload. The
probes of two devices may overlap; they share `dev_idx`, whose increment is a load
and a store.

**`Rl8029`** has attach of if_ne2000.c with its three failures, the interrupt handler
of a shared line and the ioctls the driver answers itself.

**`BsdRs232`** has open and close of the OpenBSD serial driver. Its initial state is
computed as C does it: the listed values go to the members in their order.

`MC<module>` instantiates a module for TLC, the modules `...Proofs` hold the theorems
(see [proofs](#proofs)).
Three of them instantiate parts that never meet, the initial state choosing the one
whose behaviours are explored: `MCAttach` (`MySerialPnp`, `Ac97`, `Rl8029`),
`MCMySerial` (the two data paths, which share a port and no register) and `MCPasses`
(`ConfigMatcher`, `Weave`, `TypeReordering`, which hand trees to each other).
Definitions whose name has the form `Action_Word` before an `Action`, under the
comment "Mutant", are wrong versions of that action: put in its place, they make
TLC find the violation of a property.

## Runs

Each run is `tlc -config MC<module>.cfg MC<module>`. The five that end in a violation
are `e1000_receive` and `e1000_transmit` (`MCE1000Queues_receive.cfg`,
`MCE1000Queues_transmit.cfg`), `match_versions` (`MCConfigMatcher_versions.cfg`),
`rs232_divisor` (`MCRs232_divisor.cfg`) and `bsd_open` (`BsdRs232.cfg` with `BsdRs232`).

| Run | Asks | Properties |
|---|---|---|
| `my_serial` | Does the receive path of MySerial lose, repeat or reorder a byte, with two reads, the thread, a late preparation and a removal? What do parallel writes do to one transmit register? | `ByteAccounting`, `AtMostOneLateJunk`, `AtMostOneLateStore`, `LineInOrder`, `LossNeedsTwo` (a step property); refinement `ImplementsLossyBuffer`; liveness `ThreadStops`, `ReadsComplete`, `WritesComplete` |
| `attach` | What do three drivers leave behind when a step of adding a device fails? | `CountRight`, `NamesInOrder` (MySerial), `TakenIsGivenBack`, `SlotPerCard` (ac97), `AttachOutcome` (rl8029) |
| `link_cache` | Is a driver built from its files only, whatever earlier builds, hand-typed commands and a killed invocation left? | `RtxBuiltOnItsFiles`, `SavedIdsRefer`, `SavedNoDuplicates`; liveness `BuildCompletes` |
| `e1000` | Do close and remove race with interrupt, tasklet, transmission and card; does the card get to what it is handed, and the tasklet to what is recorded? | `DmaSafe`, `TaskletWhileOpen`, `CrashNeedsCause`, `NoCauseForgotten`, `XmitOnLiveRing`, `EmptyWhenPassed`; liveness `CausesServed`, `HandedOverPassed` |
| `e1000_receive` | Is the receive buffer as large as the descriptors say? (no: see below) | `ReceiveInBuffer` |
| `e1000_transmit` | Does the card find the frames in the descriptors of the driver? (no: see below) | `SentInOrder` |
| `passes` | Do five separate comparisons agree with one order, and is a template taken only if it is the only one? Does each placeholder get its own code, in place, after any mixture of removals and insertions? Does the reordering end and keep all chunks, circles or not, and put dependencies first where there is no circle? | `OppositeTemplates`, `KeptInDomain`; `WovenInPlace`, `NothingUnresolved`; `NothingLost`, `DependenciesFirst`, liveness `Terminates` |
| `match_versions` | Are versions suites of numbers? (no: see below) | `VersionsAreNumbers` |
| `rs232` | Does the latch leak into the data, and what survives overlapping calls? | `DivisorKept`, `NoJunk`, `WriterOrder`, `ByteOnce` |
| `rs232_divisor` | Does the UART work with the divisor that was set? (no: see below) | `DivisorLatched` |
| `chardev` | What does a read return, and when does the driver leave its memory? | `PresentData`, `GivesBack`, `StrayNeedsClash` |
| `bsd_open` | Does open program the line as its comments say? (no: see below) | `OpenSetsLine` |

What they show, where it is not simply "yes":

- `my_serial`: the thread starts before the port is known, so it can store a
  byte that is not data; after preparation at most one. After the removal, which does
  not wait for it, it stores at most one byte more. A written byte can be lost, but
  only to another handler or to `EvtIoDefault`; a handler alone loses nothing.
  `WritesComplete` holds because the requests come to an end: while others keep
  writing, a handler may find the register full at each of its polls (write.c:35), and
  nothing gives it a turn.
- `attach`: `NamesInOrder` holds until a port goes that was not the last one: then
  the count is the number of a port that stays, and a new device cannot have its
  name. `SlotPerCard` holds until two probes of ac97 overlap. A refused interrupt
  leaves the registers of rl8029 mapped, and the first interrupt ends its multicast
  ioctls for good (`sc_enabled` is never set again).
- `link_cache`: with one job at a time, for targets whose chunks do not meet in
  one file name (`Unambiguous`). Of the global code of an interface the driver has the
  block registered first. `BuildCompletes` has two exceptions. `Blocked`: what
  is registered clashes with what is installed, and then even `cache clear` fails,
  since it loads both caches first. `Hidden`: installed global code of an interface,
  for another system, hides the one that the target registers, and the generation
  finds none.
- `e1000`: the kernel can crash in the tasklet code, and only when a close left the
  tasklet in the list (close disables it and never kills it); or at an unmapped
  register, and only when the interface is opened before probe has mapped it or after
  that failed. `start_xmit` does not test for a full ring: `EmptyWhenPassed` and
  `HandedOverPassed` hold until it overruns the ring, which `overrun` records. A cause
  that the handler stores after the tasklet's tests for it and before its clear
  (mod.c:112-126) is erased unseen: `NoCauseForgotten` and `CausesServed` are about all
  other causes, and `late` records these.
- `e1000_transmit` ends in a violation at the first frame. `t_send_desc` (e1000.h:16) has
  a `checksum_offset` of two bytes, so that it is 20 bytes long with the command at
  byte 12; the descriptor of the card, as in `samples/e1000/old_e1000.blt:38-63`, has
  16 bytes and the command at byte 11.
- `e1000_receive` ends in a violation. `init_queue` computes the
  size of the frame buffer from the size of the descriptors (mod.c:401), where the
  comment at mod.c:386 has the buffer size per descriptor. With the sizes of the driver,
  the third of 256 slots is outside the buffer.
- `bsd_open` ends in a violation at the first open. The initialisers of `gl_devs`
  (rs232.c:28) leave out `reg_thr`, so each later value goes to the member before its
  own: open writes 0 to LCR (words of five bits) and the line settings to FCR, where
  the comments at rs232.c:49 and 51 have word length, stop bit and parity, and the
  FIFO.
- `passes`: `KeptInDomain` is about templates with one condition at most on each
  variable, since a second one replaces the first (rtxNode:262), and compared numbers
  of as many digits. An interface that the configuration does not define is not
  filtered over, as the comment at rtxLink_ConfigMatcher:51 has it. `WovenInPlace`
  excepts a default body set in a block whose size had changed (rtxResolve:1090).
  `NothingUnresolved` allows for text of a chunk whose failure replaceCalls drops
  (rtxResolve:552-565). `DependenciesFirst` is for blocks that declare each type once
  and without circles.
- `match_versions` ends in a violation: a template for versions from 2.6.9 on is not kept
  for 2.6.24, since the units are compared as strings (rtxLink_ConfigMatcher:126, 253),
  where the guide has "a suite of numbers separated by points"
  (dsl_backend_en.tex:326).
- `rs232_divisor` ends in a violation: for the divisor 384 the latch gets 4224. The
  shift of the high byte is by four (rs232.c:116, 143), where DLM is the high byte of
  the latch (rs232_define.h:9). Divisors below 256 are right, and `RS_BAUDRATEGET`
  undoes the shift, which is what `DivisorKept` says.
- `rs232`: `DivisorKept` and `NoJunk` are for calls that
  have not overlapped and word lengths that do not set DLAB by themselves
  (`PlainLengths`: RS_WORDSET does not mask its argument); `WriterOrder` and
  `ByteOnce` for all.
- `chardev`: `PresentData` for any overlap of reads, writes and flushes;
  `GivesBack` for calls that have not overlapped. `StrayNeedsClash`: the driver leaves
  its memory when a resize overlaps another call; and a read alone does after a
  resize to less than the stored string, whose length is kept (`dropped`).

The exceptions are history variables (`overlapped`, `clash`, `dropped`, `stale`,
`overrun`, `late`, `moved`, `holes`) that record that the excepted event took place, so
a property still speaks of every behaviour up to it.

## Bounds

| Run | Bound | Why it is enough for the cases meant |
|---|---|---|
| `my_serial` | 2 readers, buffer 2, requests of up to 2, 3 bytes; 2 writers, length 2, 4 requests | the buffer is overrun and reset with a read waiting; shifts move 0, 1 and 2 bytes; each writer overwrites the other, and is itself overwritten by the default handler |
| `attach` | MySerial: 3 devices, 3 ports of other drivers; ac97: 2 devices, 4 table entries, one disabled; rl8029: MTUs at and beside both limits | a port in the middle goes and a name is taken; the probes use up the table, fail and overlap |
| `link_cache` | 3 targets, 1 job, 1 kill | two targets with clashing files, one of which generates for two systems, and one of four scripts typed by hand: shared pointcuts, clash, install that succeeds and hides global code, install that fails |
| `e1000` | send ring of 2 (card: 3), receive ring of 2 descriptors, 3 calls of start_xmit, 1 cause | the tail wraps, the ring overruns, the card passes the part of the ring the driver never fills; opens, closes, interrupts and removals are unbounded |
| `e1000_receive`, `e1000_transmit`, `bsd_open` | the driver's own constants | |
| `passes` | 3 configured variables, versions of two and three units; blocks of up to 3 statements, 2 chunks of up to 2 statements, 2 calls; 12,314 blocks of 3 declarations | a prefix, a unit of two digits, another separator, a value of another type; two resolutions that grow or shrink the block and a placeholder after them; every pattern of pointers and values among three types, circles of all lengths up to 3 |
| `match_versions` | the same configurations | 2.6.9 and 2.6.24 are among them |
| `rs232` | 2 processes, 4 calls, FIFO of 1, 2 bytes, divisors 24 and 384 | every pair of calls at every access; a divisor of one byte and one that needs both |
| `rs232_divisor` | the same | |
| `chardev` | 2 processes, sizes 1 to 3 (the initial buffer has 3), 4 calls | a longer and a shorter string, resize down and up, two calls at once, a read past a buffer that was made smaller |

Deadlock is checked except where a bound on calls or bytes ends the model
(`my_serial`, `rs232`, `chardev`) and where a failed attach does
(`attach`). Symmetry is used over devices (`attach`) and processes (`rs232`, `chardev`),
in runs of invariants only.

## Fairness

| Module | Fairness | Justification |
|---|---|---|
| `MySerialRead` | weak for thread and readers, strong for taking the lock | the scheduler runs every thread; a WDF wait lock is handed to its waiters in turn |
| `MySerialWrite` | weak for handlers and for the line | the UART sends what is in its register (no flow control is programmed); that a poll meets the empty register is not assumed |
| `LinkCache` | weak for each step of an invocation, for starting a target and for running it again | make and the user go on until the target is built |
| `E1000Linux` | weak for handler, tasklet, the steps of close, a call of `start_xmit` under way and the card | the kernel finishes interrupts and calls, runs softirqs, `dev_close` returns; the card works off its ring |
| `TypeReordering` | weak for the next step | a sequential program |

In `MCMySerial` and `MCPasses` these are the fairness conditions of the path or pass that
the behaviour is of. Nothing is assumed of devices that arrive, users that open or close, or bytes
that come in.

## Proofs

TLAPS checks the following for every value of the constants that satisfies the
named assumptions of the module.

| Theorem | States |
|---|---|
| `MySerialProofs!TypeCorrect` | `TypeOK` of the receive path, and that the lock belongs to whom the program counters say |
| `MySerialProofs!LateJunkBounded`, `!LateStoresBounded`, `!BytesAccounted` | `AtMostOneLateJunk`, `AtMostOneLateStore`, `ByteAccounting`, for any readers and sizes |
| `MySerialProofs!ReadRefines` | `ImplementsLossyBuffer`: initial states map to initial states, each step to a step or a stutter of `LossyBuffer` |
| `MySerialProofs!BytesInOrder`, `!LossFromOthers` | `LineInOrder` and the step property `LossNeedsTwo`, for any handlers and sizes |
| `AttachProofs!CountKept`, `!NamesKept` | `CountRight`, `NamesInOrder`, for any finite set of devices and any number of other ports |
| `AttachProofs!ProbeGivesBack`, `!SlotsKept` | `TakenIsGivenBack`, `SlotPerCard`, for any devices, table length and disabled entries |
| `AttachProofs!AttachLeaves` | `AttachOutcome`, for any limits of the MTU |
| `LinkCacheProofs!TypeCorrect`, `!IdsStayRight`, `!TemplatesStayUnique` | `TypeOK`, `SavedIdsRefer`, `SavedNoDuplicates`, for any targets, files, scripts, jobs and kills |
| `LinkCacheProofs!BuiltOnItsFiles` | `RtxBuiltOnItsFiles`, for any targets, files, scripts and kills, when one target runs at a time (`Jobs = 1`) |
| `E1000LinuxProofs!LifeTypeCorrect`, `!LifeRingSafe`, `!LifeTaskletSafe`, `!LifeCrashExplained`, `!LifeCausesKept` | the life cycle on its own: `TypeOK`, `DmaSafe`, `TaskletWhileOpen`, `CrashNeedsCause`, `NoCauseForgotten`, for any causes |
| `E1000LinuxProofs!TypeCorrect`, `!NoneLeftBehind` | the rings on their own: `TypeOK`, `EmptyWhenPassed`, for any sizes with the card's ring at least as long as the driver's |
| `E1000LinuxProofs!DriverImplementsParts` | the driver implements both its parts |
| `E1000LinuxProofs!DriverRingSafe`, `!DriverTaskletSafe`, `!DriverCrashExplained`, `!DriverCausesKept`, `!DriverNoneLeftBehind`, `!XmitSafe` | what was said of the parts, of the whole driver; and `XmitOnLiveRing` |
| `ConfigMatcherProofs!KeepsInDomain`, `!OppositesShareOut` | `KeptInDomain`, `OppositeTemplates`, for any templates and configurations and versions of any length |
| `Rs232Proofs!WritersInOrder`, `!BytesReadOnce` | `WriterOrder`, `ByteOnce`, for any processes, depth of the FIFO and sizes |
| `Rs232Proofs!DivisorIsKept`, `!ReadsNoJunk` | `DivisorKept`, `NoJunk`, for any divisors and word lengths too |
| `CharDevProofs!StaysInside`, `!ReadsPresentData`, `!ReadGivesBack` | `StrayNeedsClash`, `PresentData`, `GivesBack`, for any processes and sizes |
| `ResolveProofs!ChunksKept`, `!TypesInOrder` | `NothingLost`, `DependenciesFirst`, for any block |
| `ResolveProofs!TypeCorrect`, `!WeavingInPlace`, `!EverythingResolved` | `TypeOK`, `WovenInPlace`, `NothingUnresolved`, for blocks, chunks and sequences of any length |

The arguments:

- **MySerialRead.** `TypeOK` alone is not inductive: `ThreadPut` could exceed the
  buffer. `BufferInv` adds the owner of the lock (`LockOwned`), room for the byte at
  "put" (`RoomToPut`) and that a request takes no more than there is
  (`FinInBuffer`). The first makes the other two stable: only the owner changes
  the length. `JunkInv` says that after preparation a junk byte spends the one poll
  that was answered before it, `StoreInv` that a thread that has stored a byte too
  late is back at the test of `mustExit`. For the refinement, `Queue` must be a
  sequence whose bytes are older than the one in the receive register (`AgeInv`); one
  lemma for each action that moves bytes, one for all that stutter. `ByteAccounting`
  follows from `PartitionInv`, the same five places as sets, which needs that no byte
  is in two cells (`CellsDistinct`).
- **MySerialWrite.** `OrderInv` bounds every byte on the line, in the register and
  lost by the number of bytes its handler has handed over, so the next byte is a
  new one; `PlaceInv` has each of them in one place. `LossNeedsTwo` comes from
  `OutInv`: a handler past the poll has no byte of its own in the register.
- **MySerialPnp.** `PnpInv` has one `EvtDeviceAdd` at a time and distinct names. The
  count goes with the cardinality of the counted devices and other ports. `NameInv`: as
  long as no port but the last has gone, these have the numbers below the count, and a
  device that is being added has the next one.
- **Ac97.** `HeldInv` says what a device holds at each step of its probe, `SlotInv`
  that without overlapping probes the index is the number of entries used.
- **Rl8029.** `AttachInv` says what is mapped and established at each step of attach.
- **LinkCache.** What is saved comes from memory and was merged there, so the
  invariant must hold of each invocation's caches in memory too (`MemoryOK`). The
  cache `temp` needs right ids and no uniqueness: the test for a clash comes with
  the merge. The lemmas on `AddTemplate` say what one merged template does to
  templates, chunks and ids.
  `BuiltOnItsFiles` needs the contents too. `BuildsInv` says of the one target that runs,
  if it builds: between two commands the local cache has the items that the commands before
  registered, each template and the first global code of each interface, nothing else, and
  the library has their text (`Full`). Within a registration the same holds of the cache
  loaded and, up to the item reached, of the differential cache (`TempInv`); within a merge,
  of what is merged and what is still to come (`MergeInv`). No copy spoils a text in use:
  two files of the build that have one name have one text (`DiffNames`), since
  global code is numbered within its cache and templates do not clash. A target
  begins by clearing the cache, so nothing is assumed of what it finds, and `Alone`
  keeps the others out. `GenInv` carries the outcome of the last generation to the end.
  With two jobs the theorem is false (see the hazards).
- **E1000Lifecycle.** `LifeInv` ties open and close to the state of the device,
  `LifeRing` the receiver to the ring, `LifeIrq` the handler to `free_irq`, `LifeTasklet`
  the tasklet to `tasklet_disable`; `LifeFresh` holds until a close leaves the tasklet
  in the list, and is where `CrashNeedsCause` comes from. `LifeCauses` follows a cause
  that is not seen and not late: it is in `waiting_intr`, in the copy that the handler is
  about to store over it, and among those the tasklet is still to test for.
- **E1000Queues.** The card walks a ring of `SendSlots` descriptors, the driver one
  of `NB_SND_DESC`. `Window` says how many descriptors lie between head and tail in the
  three positions these can have: in order, tail wrapped, head in the part that the
  driver never fills.
- **E1000Linux.** Each step of the driver is a step or a stutter of each part, so the
  invariants of the parts hold of it. `XmitUp`, that the interface stays up during
  `start_xmit`, is the only new one.
- **ConfigMatcher.** `MatchInv` says that the templates looked at so far are kept
  exactly if `IsWithNodeCompatible` said yes, and that an error ends the selection.
  `ReadInv`: with one condition on each variable, the with node has the conditions
  read so far. The rest is about the comparisons alone. `StrOrder`: CodeWorker's comparison of texts is
  a strict total order, from the least position where two texts differ, and on texts
  of one length it is the order of numbers (`DigitsOrder`).
  `ExitCases` says how the loop over two versions ends (`ExitAs`): all the five
  comparisons are cases of that (`CompareAs`), which are those of the order.
  `Mismatch`: the loop gives up only at a separator, since the grammar has units and
  separators in turn.
- **Rs232.** For the order of bytes, line and FIFO together are increasing for
  each process (`InOrder`) and below its count; for reading, what a process has,
  with the bytes still in its kernel buffer, is older than the FIFO (`ReadInv`).
  While calls have not overlapped, `AloneInv` says for every place in the programs of
  accesses what the latch, DLAB and the value read so far are: the lemmas `Places`,
  `Follows` and `Marks` compute once which places there are.
- **CharDev.** Three invariants under three conditions. `ResizeInv`, while no
  resize has overlapped a call: a resize is alone and the recorded size is that of the
  buffer. `PresentInv`, while no resize has dropped a string either: the cells before
  a writer's position and those a reader is to copy are filled. `StoredInv`, while no
  calls have overlapped: buffer and copy hold the string written last.
- **TypeReordering.** `LostInv` has every inserted chunk once in the result, and says
  which types the loops have passed. For the order, `GraphInv` and `ListInv` say
  which dependencies the graph holds once the declarations are walked. `SortInv`
  says that a type whose activation has ended is in the result, and that the
  dependencies an activation has passed are in it or still on the stack. Without
  a circle the latter cannot be: `RankInv` has the ranks of the activations fall along
  the stack. The recursion is an explicit stack, so no induction over data is needed.
- **Weave.** `Lengths` gives the modifier its meaning, the growth of the woven part
  over the part of the block it stands for; then recorded index plus modifier is the
  length of what is woven before the placeholder. `InHand` carries that over the steps
  of one resolution. For `NothingUnresolved`, `ResolvedInv` says that without an error
  everything woven is resolved, and everything a resolution has in hand is resolved or
  one of the calls that it will still pass.

Only model-checked are the liveness properties `ThreadStops`, `ReadsComplete`,
`WritesComplete`, `BuildCompletes`, `CausesServed`, `HandedOverPassed` and
`Terminates` (liveness under fairness is out of TLAPS's reach, as is ENABLED). Every
invariant and step property that a passing run checks is also proved. Type
invariants are proved and not among the properties of the runs.

## Differences between code and comments

The five runs that end in a violation show one each. The others met while modelling are
modelled as the code has them, and no property claims otherwise:

- Link cache. Targets of one build directory share a cache without an order between
  them under `make -j` (UseRathaxes.cmake:268; :87). The name of a chunk's file does
  not depend on the with node (rtxLink_Session:389, 717, 810; comment at 350). Global code
  is known by its first interface (:72; :67), so that an installed one hides those
  for other systems. Files of mapped types are not copied
  (:788; :754). Install fails as soon as a chunk has content, half way (:880; :888).
- Weaving. The body of a default is set at an index taken before the block changed
  (rtxResolve:1090; :1077). A failed instantiation in replaceCalls is counted in a
  variable that is never read (rtxResolve:554).
- Type reordering. The flag for aggregates is never set (rtxResolve_TypeReordering:158;
  :156). A later declaration of a type replaces its location (:214; :173).
- Configuration. An undefined interface is skipped, as rtxLink_ConfigMatcher:51 says, and
  not as :40 does. A second constraint on a variable replaces the first (rtxNode:262;
  dsl_backend_en.tex:268).
- e1000. A cause recorded between the tests and the clear is erased (mod.c:126).
- rs232. `&&` for `&` in the test of the line (rs232.c:82; :81), word length not
  masked (:123; :197), a word of 7 bits for
  the 8 of the comment (:177; :176).
- chardev. A resize keeps the length of the old string (userland_interface.c:62;
  :79). Writes of two processes mix (:105; :2).
- MySerial. The name of a new device comes from a count and may be taken
  (device.c:94).
- ac97. `dev_idx` is shared by all probes and has no lock (rtx_ac97.c:116).
- rl8029. A refused interrupt leaves the registers mapped (if_ne2000.c:145).
- rs232 on OpenBSD. The divisor is the rate divided by the clock, which is 0 (rs232.c:48).

## What is not modelled

- Parsers, typing, introspection and the other passes: sequential walks over
  syntax trees of any size, each tested rule by rule.
- In the link cache: interface extensions, chunks of with nodes, methods of types; a kill
  between the two copies of one entry's files, its tree and its script. The working
  directory, where an item is looked for before the libraries, holds none of them.
- In rs232: the contents of the bytes that a read copies past those it received
  (rs232.c:39 copies the size asked for).
- In the weaving: variable and type placeholders, binding of arguments.
- In MySerial: `ioctl.c`, which answers constants. That the framework frees the
  context the thread may still use after cleanup: the model keeps the context and
  bounds what the thread still stores (`AtMostOneLateStore`).
- In the e1000 driver: `e1000_read`, which nothing calls, and the MAC address.
- In chardev: negative sizes.
- In rl8029: the ioctls handed to the kernel (media, default), callbacks that print a
  line, and watchdog with reset, which the kernel never calls because `if_timer` is
  never set.
- Read, write and ioctl of rs232 on OpenBSD: their bodies are commented out.
- The OpenBSD chardev, the module loaders and the hello modules, which keep no state.

Each is listed in `PROJECT.json` with its reason.

## Open work

- `MySerialRead` with `MySerialWrite` over one UART whose latch `PrepareHardware` opens.
- Refinements: a cache as a set of templates, changed in one step, for `LinkCache`; a
  topological order for `TypeReordering`.
- Interface extensions in `LinkCache`, the scoping of placeholders (rtxIntrospect), the
  inheritance check of the middle end.
