# vfu_kvssd in TLA+

A verification development for `vfu_kvssd`, the NVMe Key-Value SSD emulator of
this repository: TLA+ modules translated from its C code, TLC runs on small
instances, and TLAPS proofs for every value of the constants.

## The system

`vfu_kvssd` is one single-threaded process. libvfio-user (not in the
repository) reads messages from a UNIX socket and calls back into it; a
callback runs to completion before the next message is read. The host is
concurrent with it and shares its memory: queues and data buffers are in the
host's RAM, which the process maps.

| Component | State | Operations | Talks to |
|---|---|---|---|
| KV namespace (`src/kv.c`) | slot array `pairs`, `entries_allocated`, `nuse`, `ednek` | STORE, RETRIEVE, DELETE, EXIST, LIST | host buffers, through `struct kv_dma` |
| Controller front-end (`src/nvme.c`) | CC, CSTS, AQA, ASQ, ACQ; 64 submission and completion queues | register reads and writes, doorbells, admin commands, the loop of `nvme_process_sq`, `nvme_post_cqe`, reset | KV namespace (calls), host memory, interrupts |
| Host memory access (`src/nvme.c`) | none | `nvme_gpa_xfer`, `nvme_prp_xfer`, `nvme_sgl_copy` | libvfio-user's table of DMA regions |
| Identify and features (`src/nvme.c`) | constant pages, `nuse`, `ednek` | Identify, Get/Set Features, Get Log Page | host buffers |
| Server process (`src/main.c`) | `g_stop`, the client connection, capacity | options, set-up, attach/run loop, signals, `parse_size`, reset callback, release | libvfio-user |
| DMA unmap patch (`patches/`) | libvfio-user's DMA regions | unmap of a range over several regions | libvfio-user |
| MSI-X region (`src/nvme.c`) | 4 KiB of bytes | bounded copy | nothing reads it |
| Tests, CI, packaging | | | a host for the device |

What is hard in it:

* **Several steps, one of which fails.** `kv_store` enters and counts a key
  before it transfers the value; a fetch that fails ends the loop with commands
  left in the queue; a completion whose write fails is still counted; any of a
  dozen calls of `main()` may fail.
* **A host that is concurrent.** It fills submission entries and reads
  completions while the loop runs, and the device never looks at the head
  doorbell of a completion queue.
* **Reuse.** Slots are freed, reused and moved; queue structures are disabled,
  kept and created again; doorbells may be written before their queue exists.
* **A loop that changes the ground it stands on.** `nvme_process_sq` checks its
  queue once and then executes commands that create and delete queues.
* **Register protocols.** EN and SHN may change together or one by one; a
  comment in `nvme_reg_write` tells of drivers wedged by RDY=0 with EN=1; a
  driver may find a controller that its predecessor left half programmed.
* **Several commands for one question.** A listing is many LISTs, with stores
  and deletes in between; a write is a command and, later, its answer.
* **Memory that goes away.** The client unmaps ranges that it mapped in other
  pieces, and a PRP pair is translated piece by piece.
* **Blocking calls and signals.** A stop request is seen between library calls.
* **Limits.** Capacity, page-sized LIST buffers, 16-bit ring indices, 64-bit
  sizes and addresses.

The list is in `PROJECT.json` ("hazards"), each item at its line with the
properties that would catch it.

## The modules

| Module | Models | Built on |
|---|---|---|
| `KvTypes` | commands, keys, value areas, answers | |
| `KvMap` | abstract: the namespace as a map | `KvTypes` |
| `KvNamespace` | `kv.c`, `nvme_io_kv` | `KvTypes`; implements `KvMap` |
| `KvList` | `kv_list` over several commands | |
| `NvmeCtrl` | registers, queues, the loop, admin commands on queues | |
| `CommandFifo` | abstract: a queue of commands and a queue of answers | |
| `QueuePair` | rings in host memory, doorbell, phase, the host | implements `CommandFifo` |
| `BringUp` | the register block by words, identify, features, driver after driver | |
| `Device` | I/O queues and the namespace together | `KvMap`, queues as in `CommandFifo` |
| `DmaRegions` | the unmap patch and MAP | |
| `DmaClient` | what the client of the table may expect of it | `DmaRegions` |
| `Prp` | the transfers over the regions | `DmaClient` |
| `Server` | `main.c` | |
| `...Proofs` | the theorems of the module so named | the module, TLAPS |
| `MC...` | its instance for TLC | the module |

`KvTypes`: the data all KV modules speak of: commands with their two key
words, key length `kl`, buffer size `hbs` and option bits, value areas, and the
answer `rsp` to the last command. Key words, values and limits are parameters.

`KvNamespace`: one action per handler, split where its early returns
split it (`StoreInvalid`, `StoreExisting`, `StoreRefused`, `StoreNew`,
`kv_retrieve`, `kv_delete`, `kv_exist`, `kv_list`), dispatched by
`nvme_io_kv`. `pairs` is a function on `0 .. entries_allocated - 1`; a slot
keeps the bytes after `kl` that `kv_key_store` does not write. The scans are
sets (`Matches`, `Empty`) of which the code takes the minimum. Whether a
transfer or an allocation succeeds is a nondeterministic choice; a transfer of
zero bytes always succeeds and one beyond two pages never does, as in
`nvme_prp_xfer`, which moves no byte unless all parts can be translated. LIST
keeps the padding of `kds`, which is what the code computes
(`n + n % 4`, not a multiple of four).

`KvMap`: what the namespace promises, without slots: a map of at most
`MaxNumKeys` keys to value areas. It says the surprising things openly: a
STORE overlays the area and a shorter one leaves the old tail; a STORE whose
transfer fails leaves a new key behind with a zero area; RETRIEVE returns up to
`hbs` bytes of the area, since no length is kept.

`KvList`: slots reduced to the key in them, keys of one size, pages of
`PageKeys`. The host names the last key of a page to get the next one and stops
when a page brings nothing after it. A page must have room for two keys, since
it begins with the key that was named. `jumped` records the two situations in
which a page begins beyond the end of the last one: the cursor was deleted and
stored again in a later slot, or the empty key, which the first LIST seems to
name, is in a later slot. In both, keys may be missed.

`NvmeCtrl`: the register file, the queues and the loop. A register access is
one step; the loop is one step per command because the host sees completions
one by one. `busy` is the queue whose loop runs. The host is arbitrary: any
value of CC, any doorbell on any queue, any admin command, also on queues in
use and with invalid ids. `passed` and `stalled` are history variables.
Commands that touch no queue (Identify, features, Get Log Page, unknown
opcodes, all KV commands) are `OtherCommand`: a completion and no effect on the
controller.

`QueuePair`: the two rings, written and read entry by entry by both sides, the
doorbell as a message in flight, `nvme_process_sq` and `nvme_post_cqe` with
contents. The host is the one of `tests/client_hammer.c`, with a `Window` on
its outstanding commands. The command id, head, status and phase of a
completion are in one 8-byte word, so they become visible together. The
completion tail has 16 bits (`TailMod`) and the queue has fewer entries than
2^16, which CAP.MQES asks of the host; `NvmeCtrl` has the queue that does not.
Faults: a fetch fails, a completion cannot be written, DELETE_CQ or a second
CREATE_CQ while the submission queue lives, and queues that go down. A host that
creates the completion queue again clears its ring and reads from the start;
what it had not read is lost (`lost`), and the commands it has submitted are
answered in the new queue. A submission queue is created again only together
with its completion queue (`Restart`). `Unfetched`, `Posted`, `Ring` are the
refinement mapping to `CommandFifo`.

`BringUp`: drivers come one after the other. A driver programs ASQ, ACQ and AQA
in any order and by halves, disables a controller that it finds enabled, waits
for RDY each way, identifies, asks for queues, creates them, uses the
namespace, and shuts down or vanishes at any point; a device reset may follow or
not. Queue memory is abstracted to whose it is, an address to a pair of words.
`nvme_reg_write` and `nvme_reg_read` are by word, as the code allows.

`Device`: several I/O queues in front of one namespace, composed from what the
parts are shown to implement. The application writes a key only when its last
write of that key was answered, and takes unanswered commands for dead when the
queues go down. `known` is what it may believe.

`DmaRegions`: the table of regions as the patch leaves it. Addresses are modulo
`AddrMod`, for 2^64, because `unmap_end` may wrap. The table's iterator is
external, modelled from the way the patch uses it.

`DmaClient`: the same table with what its client may expect, byte by byte:
`live` is what was mapped and not unmapped since, and every UNMAP counts, also
one that was answered with ENOENT. `top` and `cut` record the two ways in which
the table may differ: a range that ended at the top of the address space, and a
region that went whole because an UNMAP covered a part of it, which the patch
announces.

`Prp`: the transfers over the table, as the sequence of addresses that the bytes
of the local buffer go to. `vfu_addr_to_sgl` is external; the pieces of a range
are those of the regions it meets, each found by its rank (`Nth`). A callback is
a transfer and its `Return`: no MAP or UNMAP comes between.

`Server`: all of `main()`, step by step: options, `parse_size` modulo `Word`
(for 2^64) with the sign that `strtoull` accepts, slots, set-up calls and their
error labels, the attach and run loop, the reset callback, and the handlers. A
signal may come at any point after they are installed. `signal()` restarts
system calls, so a blocked call need not return because of one.

Definitions whose comment says "Variant" are faulty forms of the definition
after them. No specification uses them: substituted for it, each makes TLC
report the property it is paired with in `PROJECT.json` ("mutants").

## The runs

| Run | Checks | Shows | States |
|---|---|---|---|
| `kv_namespace` | `TypeOK`, `UniqueKeys`, `NuseExact`, `FreeSlotsZeroed`, `ListCountsKeys`, `TransferFitsBuffer`, `MapSpec` | the slot array stays consistent while it fills, gets holes and grows, and implements `KvMap` | 28,990 |
| `kv_list` | `TypeOK`, `ListingComplete`, `ListingEnds` | a listing misses no key that was there throughout, unless it jumped, and ends | 168,529 |
| `nvme_ctrl` | `TypeOK`, `StatusIsTrue`, `EngineOnLiveQueue`, `Drained`, `RingBounds`, `PhaseTagsPasses`, `CallbackReturns` | an arbitrary host cannot make status, queues and rings disagree, and the loop ends | 278,528 |
| `nvme_reset` | `ResetIsPowerOn` | violated, see Findings | |
| `queue_pair` | `TypeOK`, `NoOverrun`, `ReportedHeadIsPast`, `QuietLeavesRoom`, `FifoSpec` | the rings implement `CommandFifo` under all faults | 1,328,272 |
| `queue_fair` | `FifoFairSpec` | without faults every command is executed and every answer read | 7,942 |
| `bring_up` | `TypeOK`, `OwnsDevice`, `NeverRefused`, `BringUpCompletes` | every driver gets its own queues, as many as it was granted, and becomes ready, whatever the last one left | 127,241 |
| `device` | `TypeOK`, `AckedIsTrue` | what was acknowledged on one queue is true for all, through lost answers and resets | 1,429,066 |
| `dma_top` | `NothingLeaks` | violated, see Findings | |
| `prp` | `LeaksAtTopOnly`, `NothingLost`, `AllOrNothing`, `TwoPagesWork` | an UNMAP removes the regions that its range meets and no other, unless the range ends at the top; every byte of a transfer goes to its place or none does, and what two pages hold is refused only for want of memory, mapping or descriptors | 1,705,894 |
| `server` | `TypeOK`, `ReleasedOnce`, `ClientsInTurn`, `StopBounded`, `CapacityHonoured`, `StopIsSeen` | resources, clients, resets, capacity and stop requests are in order on every path through `main()` | 6,495 |
| `server_size` | `CapacityIsTheByteCount` | violated, see Findings | |

Bounds, and why they are enough:

* `kv_namespace`: key words of one byte over two byte values and values of two
  bytes are the smallest in which a key can end before, at and after the word
  boundary and a value can be written in part. The keys are the empty one, one
  sent with two different paddings, two that differ in `key_hi` only, and one
  too long. `MaxEntries` lets the array double once with live slots in it, and
  a refused `realloc` is possible at every size.
* `kv_list`: four keys in four slots, pages of two: three pages with a change of
  the array before each.
* `nvme_ctrl`: `TailMod` stands for 2^16 and is 3, so an I/O queue of `TailMod`
  entries overflows its tail and the admin queue wraps its phase. Two queues are
  enough for a command of one to change the other; tail 1 is outside a
  ring of one entry. Two I/O queues would interact through the admin queue only.
* `queue_pair`: rings of different sizes, each wrapping many times relative to
  the other, `Window` equal to the completion queue, and `TailMod` one more than
  the completion queue has entries. The bound is tight: with
  one command more outstanding, `NoOverrun` is violated.
* `bring_up`: two drivers alternate for ever, in every state in which one can
  leave; three queues let a driver ask for fewer, as many and more than there are.
* `device`: two queues of two commands and room for one key, so that capacity,
  order between queues and a reset under commands of both meet.
* `prp`: four pages of two bytes, MAPs and UNMAPs of pages and of single bytes,
  three descriptors for a PRP pair and two for a queue entry: a buffer in one
  page, over two, over as many regions as there are descriptors and over one
  more, and of lengths that reach into a third page. An UNMAP can meet three
  regions, cut one at either end or in the middle, and end at the top.
* `server`: a word of 32, a kilo of 4 and a slot of 3 let products overflow and
  capacities fall on either side of a slot and of the limit.

No run uses symmetry. Deadlock is checked in all of them.

Fairness. Each is code that runs once it is its turn, or an actor without which
the question is empty:

* `NvmeCtrl`: weak fairness of `nvme_process_sq` alone; nothing of the host.
  `CallbackReturns` is about tails inside the ring; for others the loop has
  nothing that ends it.
* `QueuePair`: the device's steps, and a host that rings the doorbell it has
  decided to ring and polls for completions. It need not submit.
* `KvList`: the host asks for the next page. `ListingEnds` assumes that other
  commands cease: a store and a delete per page can make a listing start over
  for ever.
* `BringUp`: the driver takes its next step, unless it vanishes.
* `Server`: the process runs, and blocked calls return because clients come and
  go. `StopIsSeen` does not hold without the latter: with no client, a signal
  leaves `vfu_attach_ctx` blocked.

## Findings

* `nvme_reset`: `nvme_ctrl_reset` is to "Reset the controller to its
  post-power-on state" (`src/nvme.h:109`), and leaves `ns.ednek` as Set
  Features left it, so DELETE of an absent key can fail for the next driver.
* `server_size`: `parse_size` is to "Parse a non-negative byte-count"
  (`src/main.c:51`); it multiplies modulo 2^64 and accepts a minus sign, so a
  huge or negative `--capacity` silently becomes another one.
* `dma_top`: the patch is to "Unregister every region that overlaps with
  [dma_addr, dma_addr+size)" (`patches/0001-libvfio-user-dma-range-unmap.patch`,
  line 11). When the range ends at the top of the address space, `unmap_end` is
  0 (line 46), the loop stops at the first region and the UNMAP is answered with
  ENOENT while the regions stay. `LeaksAtTopOnly` is the property that holds:
  there is no other case.

Smaller observations, made while modelling:

* A LIST with `hbs` below 4 moves the four bytes of its header
  (`src/kv.c:251`), while `hbs` is the "host buffer size"
  (`include/kvssd_nvme_spec.h:59`). `TransferFitsBuffer` allows exactly that.
* MDTS is 1, two pages, but a buffer of more than a page can reach into a third
  when it starts inside a page, and is refused (`src/nvme.c:211`): there are no
  PRP lists. KV values, identify pages and queue entries are at most a page; a
  LIST page may be longer (`src/kv.c:251`). `TwoPagesWork` is about all that two
  pages hold.
* GET_LOG_PAGE is commented "return a zeroed log page" (`src/nvme.c:589`) and
  completes with success without a transfer.
* A set-up that succeeded followed by a failing `vfu_attach_ctx` still exits
  with status 0, and a signal before the handlers are installed ends the
  process without clean-up.

## The proofs

All theorems hold for every value of the constants under the named
assumptions, which TLC evaluates in the runs. `SizeAssumption`,
`InputAssumption`, `EntriesAssumption`: sizes are naturals, commands have the
command layout, a value fits into two pages, a page holds fewer than 2^16 keys.
`QueueAssumption`: admin queues are shorter than 2^16, other queues at most that,
doorbell values have 16 bits. `WindowAssumption`: a host keeps no more commands
outstanding than its completion queue has entries, and these are fewer than
2^16. `PageAssumption`: a LIST
page has room for two keys. `CapacityAssumption`, `OptionsAssumption`: the hard
limit of keys times the slot fits into the word. `RangesAssumption`: the client's
ranges are not empty and end within the address space. `DriverAssumption`: a
driver's addresses are not 0, there is at least one I/O queue. `DepthAssumption`:
the depth of a queue is a natural. `PrpAssumption`: a page is not empty, the
limits of descriptors, the PRP addresses and the lengths are naturals.

| Module | Theorems | Inductive invariant beside the property itself |
|---|---|---|
| `KvNamespaceProofs` | `TypeCorrect`, `KeysAreUnique`, `NuseIsExact`, `FreeSlotsAreZeroed`, `ImplementsMap`, `ListsCountKeys`, `TransfersFit` | the conjunction of the first four; for the last two also `Answer`, the two about the last answer |
| `NvmeCtrlProofs` | `TypeCorrect`, `StatusTellsTheTruth`, `LoopKeepsItsQueue`, `NothingLeftBehind`, `IndicesInRings`, `PhaseIsThePass` | `Rings`: the bound on sizes without which the 16-bit increment could leave the ring |
| `QueuePairProofs` | `TypeCorrect`, `NeverOverrun`, `ReportedHeadSafe`, `ImplementsFifo`, `QuietHasRoom` | what the entries between head and tail hold, in each ring; `Events`, which entries event requests keep |
| `KvListProofs` | `TypeCorrect`, `ListingIsComplete` | every steady key in a slot before `upto` was got |
| `ServerProofs` | `TypeCorrect`, `ResourcesReleased`, `ClientsTakeTurns`, `TwoCallsAfterStop`, `CapacityIsHonoured` | what is held, attached, late, asked and divided at each point of `main()` |
| `PrpProofs` | `UnmapsAreComplete`, `UnmapsAreNarrow`; `TransfersAreWhole`, `TwoPagesSucceed` | `RegionsDisjoint`: no two regions overlap; for the transfers `TableInv`, which adds that there are finitely many regions, none empty |
| `BringUpProofs` | `TypeCorrect`, `DriverOwnsDevice`, `OfferIsKept` | `Quiet`, `Programmed`, `Owned` |
| `DeviceProofs` | `TypeCorrect`, `AcknowledgedIsTrue` | one open write per key, answers that wait are true |

`KvNamespaceProofs`. None of the four parts is inductive alone: that a store
counts correctly needs the number of used slots, that it keeps keys unique needs
the scan to have found no match among all of them, and that a new key maps to a
zero area when its transfer fails needs free slots to be zero. The refinement
uses the same invariant: because keys are unique, `AbsMap` (the area of the slot
that holds the key) is a function, and each slot operation is shown to be the
map operation it stands for (`KeyAdded`, `ValueChanged`, `KeyRemoved`,
`SlotsAppended`).

The size of a LIST page is a sum over the slots in it. `SumsExist` shows that the
sums over all subsets form a function, `SumsBound` and `SizeBoundsCount` that
such a sum is at least the number of slots, since no entry is empty. So a page
that can be transferred names fewer keys than it has bytes, the 16-bit count has
not wrapped, and because stored keys are unique it counts distinct ones. That the
page fits is the choice of its last slot, the largest one up to which the sum
stays within `hbs`.

`NvmeCtrlProofs`. `CommandStep` says once what a command inside the loop may do
(anything to other queues, as long as they are drained or new), and one lemma per
command shows that it does no more. That queues follow the status is what makes
an enable correct: it finds every queue down.

`QueuePairProofs`. A ring is read as the sequence from its head; the lemmas say
what appending at the tail and dropping at the head do to it, also around the
end. The window bounds what is posted and not read, from which it follows that
the phase tag at the host's head is the expected one exactly when something is
posted. Each step is then a step of `CommandFifo` or a stutter.

`QuietLeavesRoom` speaks of a quiet moment, and what makes it true happens
before. `Events` holds at every moment: an entry that was fetched, and that no
completion on its way will free (`Unfreed`), holds an event request
(`HeldByEvents`), and the event requests in entries that the host counts as used
are at most `aers` (`EventsCounted`). At a quiet moment nothing is on its way and
what is not fetched are event requests too, so all used entries are counted.
`HeldByEvents` is about runs in which no answer was lost (`lost`); `intact` would
not do, since creating the completion queue again makes it true.

`PrpProofs`. `RemovedIs` says what the loop of the patch removes: all regions
that the range overlaps, or none when `unmap_end` wraps, and it wraps only at the
top (`UnmapEnd`). A byte that was unmapped and is still in a region shows that
the region and the range overlap (`SharedByte`), so it was the top; a byte that
was not unmapped and lost its region was in one that the range covered in part.
Transfers leave the table alone, so `Prp` is a run of its client (`IsClient`).

Disjoint regions are ordered by their start,
so each rank has one region (`RankOrder`, `NthRank`); if the range is mapped, the
pieces of successive ranks leave no gap (`SglChain`), and flattening such a
chain gives the addresses of the range in order (`ChainFlat`, and `TwoChainsFlat`
for a PRP pair). `FirstPage` is the arithmetic of the page split: the bytes up
to the end of PRP1's page are those that `first` counts. `MetSpan` says that the
regions met by the range are those met by its addresses, which is how failures
are traced to the number of descriptors. A queue entry is the case of a PRP pair
whose second page follows the first (`GpaSgl`).

Sums and flattening are recursive. The provers cannot instantiate an induction
theorem; where one would be used, the proof takes the least length or number
for which the claim fails (the well-founded order of the naturals) and refutes
it. That the recursive function exists is shown in the same way, extending it by
one element.

`BringUpProofs`. A controller that is not enabled has no queues (`Quiet`). A
register word is the driver's unless its write is still in `todo`
(`Programmed`), so what an enable takes over is the driver's in any order of
the writes. I/O queues are then all of the driver that creates them, and fewer
than were granted as long as it is creating, which lie within the queues there
are.

`DeviceProofs`. A key has at most one open write among the queues that are up,
either submitted or answered, and none when the application believes something
about it. A waiting successful answer is true of the map and stays so, because
any command that could change it would be a second open write.

Only model-checked: `CallbackReturns`, `FifoFairSpec`, `ListingEnds`,
`BringUpCompletes` and `StopIsSeen`, because liveness under fairness is out of the
prover's reach. Every other property of a passing run is a theorem.

## Not modelled

* The MSI-X region: a bounded copy of bytes that no code reads.
* Interrupts: nothing looks at the result of `vfu_irq_trigger`. INTMS and INTMC
  are stored and never used.
* The bytes of Identify pages, CAP and VS that are constants, PCI ids and
  capabilities, tracing and messages: they hold no state. What a driver acts on
  of them is in `BringUp`.
* Register accesses of other widths than those of a driver: `rd_le` and the
  partial writes of one and two bytes. Accesses are by 32-bit word, and a
  64-bit register is written by halves or by both words at once.
* libvfio-user beyond what `DmaRegions`, `Prp` and `Server` say of it, and the
  generation count of the DMA table, which only kept descriptors would use.
* Test programs (they are the pattern of the hosts), build, packaging and CI.

## Plan

Modelled, checked and proved as above. What would add most next:

1. That `Device` refines `KvMap` through resets, as a theorem: the refinement of
   the namespace composed with the queues.
2. DELETE_SQ, DELETE_CQ and CREATE_CQ of single queues in `Device`, as
   `QueuePair` has the latter two.
3. Byte and 16-bit register accesses, and interrupts, if the code comes to
   depend on their outcome.
