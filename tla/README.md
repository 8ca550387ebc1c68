# A verification project for the microlua-ai application (K210)

The repository is the open part of a firmware for the Kendryte K210: a C++
application (`src/K210MV-APP/src`, about 3000 lines) that registers devices and
neural-network modules with a closed Lua framework, and the headers of the
libraries it is linked with, some of which contain the code: the locks of the two
cores (`atomic.h`), and the kernels, stack machine and model reader of the nncase
runtime. The application is sequential inside a call and called in any order by a
Lua script; what is hard is what survives from one call to the next (static
tables, global layers, GPIO lines, FIFO contents, interrupts), loops that change
what they are reading, and index arithmetic that is right for most shapes.

This directory holds TLA+ modules for that logic, TLC configurations, and proofs
that TLAPS checks. `PROJECT.json` is the index: the definition-to-source map,
runs, seeded faults, findings, hazards and theorems.

Paths below are relative to `src/K210MV-APP`; a bare file name is in
`src/usrdev` there.

## 1. Inventory

| Component | State it keeps | Operations | Hard behaviour | Status |
|---|---|---|---|---|
| cores (`lib/bsp/include/atomic.h`) | a word per spinlock; count and core of a corelock; count and waiting of a semaphore | lock, trylock, unlock, signal, wait | every access of one core interleaves with those of the other; a wait that reads without the lock | modelled: `CoreSync` |
| tracker (`lua_nn_person.cpp` 635-1173, `tracker.h`) | table of `obj_t` (validity, position, class, interaction state, owner slot, life, mark), `n_object`, `new_object_id` | `init_tracker`, `update_tracker_8`: match or add, owner/litterer states, ageing | slot numbers kept as owners across calls, hand-kept count, wrapping ids, in-place pass over the table, division by elapsed time | modelled: `Tracker` |
| person, `get_boxes` (234-421) | logits written in place, static buffer of candidates | scan, sort, suppress, copy | comparator that is not an order, suppression in the array being walked, limit of the list | modelled: `PersonBoxes` |
| person, module (109-232) | static table and tracker | `net_nn_person_init`, `net_nn_person_forward` with `update_tracker` | a table of which only the validity flags are cleared between frames; corners converted to unsigned before they are compared | modelled: `PersonFrame`, `PersonCorners` |
| facedetect, yolo, facemask, iris, baiduflower | one layer and one array of anchors per module, for all its networks | `init`, `forward` | a second network replaces or mixes what the first left; a refused one has stored part of its arguments | modelled: `RegionNets` |
| fast_facedetect | the detector `g_detector` and its two lists | `init`, `forward` | a network run with the detector of another; lists that outlive a frame; groups by overlap | modelled: `FastDetect` |
| output drivers (`lua_ledrgb.cpp`, `lua_ledir.cpp`, `lua_openaigpio.cpp`) | lines of each LED and port, pin routing, directions, levels | three init functions, `new`, `ctrl`, `red`, `green`, `blue`, `ir` | lines are drawn and never given back; repeated set-up; truncated port number | modelled: `GpioBank` |
| muluart, uart (`lua_muluart.cpp`, `lua_uart.cpp`) | a record per device, receive buffers, interrupt registration, callbacks | receive interrupt, `init`, `deinit`, `read`, `write`, `any` | bytes and interrupts arrive during calls; the second module uses the first one's FIFO | modelled: `MulUart`, `Uart` (of sending only the assertion) |
| nncase kernels (`lib/nncase/include/kernels`, `runtime/*_op_utility.h`) | none: a node reads memory and writes memory | about thirty kernels in two layouts, and the KPU's | window arithmetic with truncating division, broadcasting, rounding, rows shared by channels | partly: `NeutralKernels`, `CpuKernels`, `KpuKernels`, `KernelPrograms` |
| nnil (`runtime/nnil.h`) | evaluation stack | one action per kind of instruction | stack limits | modelled: `Nnil` |
| node bodies (`runtime/*/*_ops_body.h`) | a position in a file | serialize, deserialize | lengths that are not in the file, alignment | partly: `NodeBodies` |
| interpreter and model (`runtime/interpreter.h`, `model.h`) | - | declared only | - | partly: the order of nodes, in `KernelPrograms` |
| start-up (`src/main.cpp`) | - | `initCustomDevice`, `main` | order of set-up | partly, in `GpioBank` |
| helloword | none | demonstration functions | - | not modelled |
| framework (`modules.h`), K210 SDK headers, boards, models | - | - | closed source, declarations, data | external |

At this commit `main.cpp` registers ledrgb, ledir, openaigpio, helloword, facedetect and
yolo. The other modules (muluart, uart, person, facemask, iris, baiduflower,
fastfacedetect) are complete and compiled, but no line calls their `_init` functions; they
are modelled as they are when an application registers them.

Interactions. `main` calls `SysInit`, then `initCustomDevice`, then `SysRun`,
which runs the script. All functions of all modules run in that one thread and to
their end. The application's concurrency is the receive interrupt of the serial
ports, which marks a module with `SendModuleEvent`; the framework's main loop later
runs the module's callback, between two calls of the script. The locks of `atomic.h`
are what code on both cores (the framework's, which is closed) shares. The output
drivers share the platform's pool of GPIOHS lines. The network modules share nothing
with each other, but all networks of one module share its globals. The person module
uses `get_boxes` and the tracker; `update_tracker_8`, the variant with the whole life
cycle, is complete but static and has no caller at this commit, while the
`update_tracker` that is called has its last two phases commented out. Both are
modelled, separately. A loaded model is read as node bodies and run as a sequence of
kernels, one of which runs nnil methods.

What makes each component correct:

* cores: nothing is taken twice or lost, also by a core that decides by a count it
  has read without the lock; the corelock behaves as a recursive lock; nobody is in
  the way of progress.
* tracker: the count, the lives and the marks agree with the table; an owner is
  another slot of the table; only people are blamed; ownership is decided once; a
  pass leaves nothing to do; an unseen object leaves.
* `get_boxes`: exactly greedy suppression; boxes that are returned do not overlap;
  a candidate is missing only for a reason.
* person module: a call returns its own frame, whatever earlier frames left; corners
  stay on the screen and do not cross.
* detectors: a layer reads the anchors of its own network; boxes have a size; what is
  shown is of this frame; every box goes into one face; faces are on the screen.
* output drivers: every pin shows the last command to its device; no shared lines.
* serial: every byte is accounted for, in order, once; the script is told of data.
* runtime: each kernel computes its textbook definition, both layouts agree, moves of
  data lose nothing, what is written to a model file is read back.

`PROJECT.json` lists the hazards at their lines with the properties aimed at each.

## 2. Modules

| Module | Models | Remarks |
|---|---|---|
| `CoreSync` | spinlock, corelock, semaphore | one action per access to shared memory, any number of cores |
| `RecursiveLock` | abstract: a lock that one core may take several times | `CoreSync` implements it |
| `TrackerTable` | the object record, distance tests, selection rules | no state; used by `Tracker` and `PersonFrame` |
| `Tracker` | `init_tracker`, `update_tracker_8` | one action per loop iteration |
| `LeasePool` | abstract: what the tracker promises about its slots | no classes, distances or owners |
| `TrackerLease` | the refinement mapping `Tracker` -> `LeasePool` | |
| `PersonBoxes` | `get_boxes` | one action per loop iteration; the scan and the sort are one step each |
| `PersonFrame` | module init and `forward` | uses `TrackerTable` |
| `PersonCorners` | the corners that `forward` returns | coordinates in quarters of a pixel |
| `RegionNets` | `init` and `forward` of the five modules with a layer or none | one network per table of the script |
| `FastDetect` | `fastfacedetect` | one action per call; decode, sort, group and blend are operators of it |
| `GpioBank` | three output drivers, start-up order | |
| `MulUart` | both serial modules with interrupt and events | |
| `Uart` | the functions of `lua_uart.cpp` | a translation of its own, of that file alone; shares no definition with `MulUart` |
| `MulUartAsUart` | the refinement mapping: two modules seen from the first device | |
| `KernelUtils`, `NeutralKernels`, `CpuKernels`, `KpuLayout`, `KpuKernels` | the kernels as operators on memory | no state |
| `KernelPrograms` | the interpreter running a sequence of nodes, and the references the kernels are compared with | one action per kind of node |
| `Nnil` | the stack machine | one action per kind of instruction |
| `NodeBodies` | serialize and deserialize of every body with a span | |
| `TrackerProofs`, `PersonBoxesProofs`, `PersonFrameProofs`, `CoreSyncProofs`, `GpioProofs`, `MulUartProofs`, `NetProofs`, `KernelProofs` | theorems | `NetProofs`: detectors, node bodies, nnil, single kernels and the lemmas on recursion and sums; `KernelProofs` extends it by programs of kernels |
| `MC*` | values of constants for TLC | `MCNets` puts `MCDetectors` and `MCNncase`, which share no state, into one run |

Each action's comment names the function it stands for. A definition whose comment
says "Seeded fault" or "Fault" is not part of a specification: it is a faulty variant
of the definition that follows it, used to show that a property can fail.

### How the data is abstracted

* `CoreSync`: a spinlock is a word that `atomic_swap` takes; a lock's two fields are
  loaded in one step and stored in one step, because the spinlock that surrounds
  them is shown to exclude others (`LockSafe`); the read of `lock->count` outside of it
  is a step of its own.
* Positions of the tracker are points of one axis; squared distances compare as in the
  code. When two updates of an object carry the same `clock()` value, `_update_object_8`
  divides by their difference (its line 1097): the velocity is then infinite or not a
  number (`lost`). The centre stays where the filter puts it, so the object can be an
  owner or be owned as before, but the position predicted for it compares false with
  every limit, so it is never matched, and so never updated, again. The Kalman filter may
  end at any position, predictions add any drift from `Drifts`.
* In `PersonBoxes` the decoded geometry is any symmetric relation "box_iou is above
  the threshold"; scores are multiples of `1.0 / Unit`, which is what makes the
  truncating comparator interesting. `qsort` with a comparator that does not order
  its input leaves any permutation; with one that does, like elements end up in any
  order.
* `PersonCorners` keeps the conversion from float to `uint32_t` as the hardware makes
  it (negative numbers become 0, fractions are cut) and the comparisons one by one.
* `RegionNets` tells anchors apart by the network whose table gave them; `RunLayer` gives
  any box of the framework's.  What a forward does when there is no layer is unknown: the
  model says nothing after it. `FastDetect` lets the network find any boxes; scores are
  small numbers, `exp` is an increasing weight, averages are of whole pixels. What the
  decoder reads past the end of the outputs, when the detector has more anchors than the
  network that was run, is any box with any score (`Memory`); that such memory may hold
  a not-a-number is left out.
* `GpioBank` keeps the routing of pins, directions and levels of lines; a write to
  line `ASSIGN_ERR` hits any line or none. A port takes commands only after `new`: that
  `ctrl` has no object to be called on before is the framework's doing, and assumed.
* `MulUart` numbers bytes by arrival. The receive interrupt is level triggered; the
  FIFO drops what does not fit.
* The kernels' floats are integers, or quarters where rounding matters; sums, products
  and comparisons are exact on them. A mean is the fraction that the division of the code
  stands for, limited by the activation. The scale of a resize, and the positions it
  gives, are floats: fractions of 24 bits, each rounded to the nearest as the code's are
  (`Ratio`, `Times`). This matters: enlarged by 41, the pixel that came from 1 is read at
  `floorf(41 * (1.0f / 41))`, which is 0. The weights of the bilinear version are exact.
  A tensor is the flat memory it occupies.
* An instruction `ldc_r4` of `Nnil` is one with its literal (`Literals`); a body cut
  inside a literal is left out.
* A stream of `NodeBodies` has one cell per field of fixed size and one per element of a
  span: what is told apart is order, length and place, not the bytes of a number.
* A failed C `assert` stops the program (`pc = "halted"`, `running = FALSE`); a failed
  `LUA_ASSERT` returns from the function, after the assignments made so far.

## 3. What the runs check

| Run | Shows | Bounds |
|---|---|---|
| `core_sync` | `LockSafe`, `SemaphoreSafe`, `ImplementsRecursiveLock`, `LockMoves`, `UnitsTaken` | the two cores of the chip, two levels of the lock, three units, signals and waits of one or two: lock against lock, wait against last unlock, two waiters against one signal |
| `tracker_life` | `TableAgrees` (types, `CountInv`, `IdleInv`), `RecentIdsDistinct`, `ImplementsLeasePool`, `UnseenExpire` | 2 slots, life 3, ids 1..2, 2 measurements a call, predictions that drift, updates with and without time between them. Ids wrap inside the life of an object; both slots fill, expire in either order and are re-used |
| `tracker_owners` | `OwnerIndexInv`, `BlameInv`, `PassSettled`, `OwnershipFinal` | 3 slots, life 3, so that an owner lives on into the call after the one that made it an owner, and is blamed or forgiven there: an owner, an owned object and a third party, in every order of slots; positions 0, 3, 4 give a distance that blames, one that forgives and one in the band between |
| `person_boxes` | `ListIsGreedy`, `BoxesApart`, `MissingForAReason` | 4 cells: chains in which a suppressed candidate overlaps a later one that may stay, and one cell besides; every overlap relation, four scores, limit 2 |
| `person_boxes_thresh` | violation of `ThresholdUsed` | 2 cells |
| `person_frame` | `FrameReported`, `ClassesNeverForgotten`, `NeverRefreshed` | 3 slots, any succession of frames of 0 to 3 boxes |
| `nets`, detectors | `NetsApart`, `BoxesHaveSize`, `FrameIsOwn`, `EveryBoxOnce`, `FacesOnScreen`, `CornersInside` | three networks of facedetect and three of yolo, one of each with too many anchors and refused, the others accepted with fewer and more, so that anchors of two yolo networks meet; one each of facemask and iris; loads and forwards in any order; detectors of two sizes, each run with the network of the other, so that boxes are left out or made of memory past the outputs; up to three boxes a frame that overlap in a chain; 3420 objects around a screen of 12 by 7 |
| `nets`, runtime | `SumsAgree`, `ElementsMoveRight`, `QuantizationRounds`, `DownloadUndoesUpload`, `KpuComputes`, `MethodsRun`, `BodiesPreserved` | pictures of up to 4 by 4 with every stride 1-2, dilation 1-3, filter 1-3 and three paddings along one axis, means and maxima of windows; resizes by 1, 2, 4 and 8 along one axis and by 1 and 2 along the other; KPU rows of 1 to 65 bytes (each layout and its edges); KPU arguments with and without shift bits, tables with a rising and a falling segment, multipliers of both signs; compiled methods of up to 9 instructions, a literal among their leaves, and all bodies of up to 4 of seven instructions, of which some throw or overrun a stack of 3; bodies of every kind at every position of the alignment |
| `gpio` | `LinesSafe`, `PinsFollowCommands` | 2 ports, 8 lines: two set-ups succeed, a third runs out |
| `gpio_exhausted` | violation of `LinesAreLines` | 7 lines |
| `gpio_bad_port` | violation of `CtrlRefusesBadPort` | bytes of 4 values |
| `muluart` | `BytesAccounted`, `BytesInOrder`, `SecondNeverServed`, `DeinitIsFinal`, `FirstModuleIsUart`, `ToldOfData` | a FIFO of one byte, 2 and 1 bytes to arrive at the two devices, reads of 1 or 2: overruns, short reads and bytes arriving inside calls; good and bad triples of bits, parity and stop of `init` |
| `muluart_stop` | violation of `StopBitsAsAsked` | all triples of bits, parity and stop |

Each kernel is compared with something it was not written from: a sum over all taps
that tests each for being on the image (`ConvIsTextbook`, where the code computes start and
end of the window), a gather for the scatter of `conv2d_transpose`, the other layout, a
slice that takes back what a pad, a concat or a resize did, an upload that a download
undoes, the convolution of the numbers that the KPU's bytes stand for.

A type invariant is a part of one property of each module (`LockSafe`, `TableAgrees`,
`NetsApart`, `FrameIsOwn`, `SumsAgree`, `ListIsGreedy`, `FrameReported`, `LinesSafe`,
`BytesInOrder`). `tracker_owners` uses a `VIEW` that leaves out the ids and their
history: none of its properties, and no guard, reads them. Slots are scanned in order
and cores are compared with constants of the run, so no symmetry set is used; the
properties of `core_sync` include liveness, for which symmetry would not be sound.

The action property `OwnershipFinal` and the invariants about blame speak of times
when no slot that was named as an owner has been given to another object
(`recycled`); the code does not clear such names, so beyond that point the owner is
a different object by construction.

What some properties leave out, because the repository does not say what is right there:

* `UnitsTaken` is about times when each waiter would find enough units; waiters that find
  too little are only known not to lose units or counts.
* `CornersInside` is about objects with their centre on the screen that are at least two
  pixels wide and high; others do cross their corners or leave the screen.
* `BoxesHaveSize` takes from the framework that the boxes of a layer have their corners in
  order; what it shows is that yolo's clamping and the moved corners keep them so.
* `NetsApart` describes that networks of a module share its layer and anchors, and
  whose they are; it does not ask that they be apart.
* `PassSettled` does not depend on the order of the slots: distances do not change within
  a pass. A person whom one object blames and another forgives in the same pass keeps what
  the higher slot gave.
* `BytesAccounted` counts the bytes that `any` takes among the lost ones.
* `QuantizationRounds` takes either byte of a tie. The code gives the even one, and the
  other for the last value of an odd count.
* `MethodsRun` allows the write beyond the stack, of `dup` alone. `BodiesPreserved` is about
  spans of the length that the other fields say.

Deadlock is not checked where the system may stop: after a failed assert or an exit, at
the end of `get_boxes` or of a program, when cores only spin for units that nobody
signals, and in the serial model, where the bounded supply of bytes ends.

### Fairness

* `CoreSync`: weak fairness of the steps of each core, which is what two cores that run
  give. Nothing more: the test-and-set of `spinlock_lock` is not fair, so a single core
  may lose every time, and `LockMoves` and `UnitsTaken` speak of all waiting cores
  together. That cores call at all is not assumed.
* `Tracker`: weak fairness of the steps of a call that has been entered. Nothing in such
  a call waits, and nothing pre-empts it for good. That calls are made at all is a
  premise of `UnseenExpire`.
* `MulUart`: weak fairness of a running call; weak fairness of the interrupt, which
  the hardware keeps raised while bytes are waiting; strong fairness of the
  dispatch of an event, because the framework's main loop gets its turn between
  calls of the script again and again, not continuously. A script that never returns
  to the main loop is outside this assumption.

The other modules have bounded loops only; no liveness is claimed for them.

## 4. What is proved

TLAPS checks these for all values of the constants that satisfy the `ASSUME`s next
to their declarations (any finite number of cores, at least one slot and at most 254,
life 1..255, any integer positions and drifts, any networks and boxes, any FIFO).

**Cores** (`CoreSyncProofs`). `CoreInv` adds to the properties what makes them
inductive: what a core has loaded is still there when it stores (`Fresh`), the lock is
free exactly when it has no core, and its count is what its core knows of, counting a
lock that is just being taken or given back (`DepthKnown`). From it: `LockSafeCorrect`,
`SemaphoreSafeCorrect`, and that every step is one of a recursive lock or a stutter
(`CoreSyncImplementsRecursiveLock`).

**Tracker** (`TrackerProofs`).
`TableInv` = types, `CountInv`, and a description of marks and lives for each phase of
a call: every unmarked object has spent a call of its life, and slots that the ageing
loop has passed are unmarked. It is needed because `IdleInv` only speaks of the time
between calls, and says nothing inductive about the middle of one. From it follows
`TableAgreesCorrect`. For ownership, `OwnerIndexInv /\ HumanStateInv /\ ObjectsNeverBlamed`
is inductive together with `TableInv`: `StateCases` reduces the state loop to five
effects on a slot, and each keeps the three (`OwnerIndexCorrect`, `BlameCorrect`); the same
five cases give the action property (`OwnershipFinalCorrect`). `PassedInv` says that slots
behind the cursor of the state loop are settled, which is `PassSettledCorrect` when the
loop is over: an owner that is found is near, and no later iteration hands anything to
somebody else. `RecentInv` places an id: followed by k others, an object got its id k + 1
before the next one, modulo the range of ids, and no two objects are followed by as many
(`RecentIdsDistinctCorrect`). `TrackerImplementsLeasePool` maps every step to a step or a
stutter of `LeasePool`; the pool ages all slots at once when the tracker enters its ageing
loop, so the mapping counts one call less for the slots that the loop has not reached.

**get_boxes** (`PersonBoxesProofs`).
`BoxesInv` has the loop invariant of the two nested loops (`GreedySoFar`: greedy
suppression for exactly the pairs compared so far) and of the copy (`Copied`,
`Covered`). It needs `Distinct`, since "off" is a set of cells, and `Sorted`, since a
candidate is suppressed by an earlier one. From it: `ListIsGreedyCorrect`,
`ApartCorrect`, `MissingCorrect`, for any number of cells.

**forward** (`PersonFrameProofs`).
`FrameInv`: in a call the first slots hold the boxes handled so far, in order and
marked, all others are free (`Filled`); so no measurement can match an object,
and the first free slot is the next one. `Remembered` follows the class of each slot
across frames, `Writing` the returned list. From it: `FrameReportedCorrect`,
`ClassesCorrect`, and the action property `RefreshNever`.

**Detectors** (`NetProofs`). `NetsInv` says in addition to `NetsApart` that nothing
replaces the layer of yolo, and that of two accepted networks only one is the later
(`NetsApartCorrect`). `BoxesHaveSizeCorrect` rests on
`ShownRight`: limiting both corners of a box to the screen does not cross them.
`CornersInsideCorrect` rests on `AlongInside`, the same for one axis of an object of the
tracker, with the conversion to unsigned in between.

**Output drivers** (`GpioProofs`). `GpioInv`: lines are drawn in order, those in use are
below the next one and differ, the error value appears only when none is left, and only
devices with a line have a command. From it: `LinesSafeCorrect`, `PinsCorrect`.

**Serial** (`MulUartProofs`). `BytesInv` accounts for the bytes of a device: those that the
program holds or has returned are increasing, and together with the lost ones they are
all that arrived (`Accounts`). `AccountsAppend` and its companions say what arrival, overrun,
a read and `any` do to an account. From it: `BytesAccountedCorrect`, `BytesInOrderCorrect`;
by their own steps `DeinitIsFinalCorrect` and `SecondNeverServedCorrect`; and
`FirstModuleCorrect` compares two translations, of `lua_muluart.cpp` and of `lua_uart.cpp`: every
step of the two modules is, seen from the first device, a step of the one-device module or a stutter.
Two copies of the same functions in two files can come apart by an edit of one; this says that
they have not, argument checks and early returns included.

**Induction over data.** What a recursive function computes, for every input, is an
induction, and the induction theorems of the library take an operator, which the provers cannot
instantiate. `NetProofs` founds its own on the least element of a set
(`WFMin` applied to the natural numbers): `LeastNat`, then `UpTo`, induction over a *set* of
numbers, which is first order. From it: a function defined by `f[k \in 0 .. n]` exists and has
the values its definition says (`IterationExists` for a step given as a function), and any
property of its values that a step keeps holds of all. `FastDetect`, `NodeBodies` and `Nnil`
write their loops so that these lemmas apply.

**fastfacedetect** (`NetProofs`). `FastInv`: the detector is that of the network loaded last
(`OfLatest`), its lists hold boxes on the image of that network, and what is shown is the list of
results (`Lists`). What a forward decodes is its own output as far as the detector reaches, and any
memory behind it (`DecodedRight`), which the decoder clips to the image like everything else. The middle of it is `MergedRight`: the loop that collects the leaders and the
averages over the groups gives boxes, whatever order the sort leaves equal scores in, because a
weighted average of numbers of an interval is in the interval. From it: `FrameIsOwnCorrect`,
`EveryBoxOnceCorrect`, `FacesOnScreenCorrect`.

**Node bodies** (`NetProofs`). `SerializeLays`: serialize lays the cells of each field
behind those of the fields before it. `DeserializeReads`: reading the fields of such a stream one by
one, deserialize is after each field where serialize was, and has what serialize wrote; the order of
the fields matters because the length of a span is computed from fields that must have been read
(`LengthReads`). `LaidAligned`: a table begins where a gap ended. `BodyInv` carries the layout from the
one step to the other; `BodiesPreservedCorrect` follows.

**nnil** (`NetProofs`). The compiler is not in the repository; what it emits is external
(`Emitted`): operands one after the other, then the operator. `EmittedCorrect` says of each way to
emit an expression that its code is a run which leaves the value of the expression on whatever
stack it began with and needs no more room than the expression says; `One` and `Join` make
runs of an instruction and of two runs. By induction over the parts of an expression
`CompiledCorrect`. `NnilInv` says that a compiled method is at some point of that run
(`FollowsItsRun`), and `MethodsRunCorrect` follows; that nothing but `dup` writes beyond the stack is
proved of all bodies, compiled or not.

**Kernels** (`NetProofs`, `KernelProofs`). `AddressesApart`: the place of an element in the memory of the KPU is
a number whose digits (block of channels, row, channel of the row, column) are those of its index,
each below its base, so two elements never share a byte, for any shape. With it
`DownloadUndoesUploadCorrect`. `ByteNear` and `ByteReturns` are the arithmetic of
`QuantizationRoundsCorrect`: a rounded number is within half of the number, and no byte is nearer;
what dequantizing a byte gives is a whole number of quantization steps. `ProgramInv` says what memory
holds after each node of these programs.

**Moving elements** (`NetProofs`, `KernelProofs`). `ElementsMoveRightCorrect` is about index arithmetic, and rests
on two facts about it: an offset taken apart gives the index again (`OffsetOfIndex`, and the other
way `IndexOfOffset`). `BroadcastHolds`: a folded index is the index modulo the extents (`Finds`).
`ReduceHolds`: `reduce` folds what lands on an element, in the order of the addresses; folding over
two axes in turn visits the elements in another order than folding at once, which is the same
because the operation is associative and commutes (`OperationMerges`) and leaves its start alone.
The proof (`FoldTwice`) moves one element after the other from its place in the one fold to its
place in the other (`OneMore`). `SliceHolds`: the steps of a slice are counted (`StepsCounted`,
`StepsForward`, `StepsBackward`), and the element it reads is the one that the pad, the concat
(`ConcatHas`, by `PartOf`: each place of a row is in one part) or the reversal put there.
`ResizeHolds`: the float scale of an enlargement by a power of two, and its product with the place
of an original pixel, are exact (`RatioOfPower`, `TimesOfPower`), so that place is a whole number
(`ScaleExact`) and nothing is interpolated (`NearestPixels`, `BilinearPixels`). For other factors this
is false of the code: enlarged by 41, the second pixel is not read where it should be.

**The KPU's sums** (`KernelProofs`). A sum of the kernels is `Accumulate`, a recursive function over an array of
its terms, and a nest of loops an array of such sums. `AccumulateIs` gives it the recursion that its
definition says, as above; what is added up then follows level by level: sums of equal terms are equal
(`TotalSame`), a sum of combinations is that combination of sums (`TotalCombines`), terms that are 0
may be left out (`TotalWithin`, and `TapsTotal` for a window on an image). With these, the
four sums of `Workspace` combine to the sum over products of the numbers the bytes stand for
(`RealSumCombines`), which is what the convolution on those numbers adds up (`FakeSumIs`: a tap off the
image reads the pad value, which stands for 0). `SegmentIs` and `BankerRounds` do the activation: a
segment is found for each value, because the table starts below all of them, and the shift rounds to the
nearest, ties to even, where the segment rises. Where it falls the product is negative, and
`carry_shift` takes the sign for the direction in which to round: the result is as far below the
quotient rounded down as the nearest is above it (`Rounded` in `KpuConvIsConv`, `BankerRounds`). For pooling, `MostOfCorner`: the maximum of a window does not see what is not on the image.
`KpuComputesCorrect` follows.

**Convolutions and products** (`KernelProofs`). `SumsAgreeCorrect` compares nests of sums that are cut
differently. `TapsReach`: the taps between the start and the end that a kernel computes by truncating
division are exactly those on the image, for any stride, dilation and padding; `PlacesCounted`: the
output size counts the places where the filter fits. A convolution written the textbook way adds up the
same taps (`KernelSums`, `TextSums`), which is `ConvIsTextbook`. A matrix product is the same sum for an
image of one pixel (`MatmulIsConv`). For `LayoutsAgree`, `ChannelsFirst` exchanges the sum over the
channels with the sums over the window (`TotalSwap`), and `LaidBack` follows an element from its place
with channels last through the transposition to its place with channels first. For `ScatterIsGather`
the loop of `conv2d_transpose` is a sum, for each output, over all inputs of what each gives it
(`TransposeIs`); `LandedIs` says which inputs give something, `SourceIs` that they are the ones the gather
reads, `TotalOfLevels` cuts the sum over a flat memory into channels, rows and columns, and
`SharesTotal` adds up. `ProgramTypeHolds` is the part of `ProgramInv` about types.

Assumptions of the runtime's theorems, which TLC evaluates on its instances:

* `OptionsAssumption`: a span has as many elements as the other fields of its options
  say. `serialize` does not check this; the compiler, which makes the options, has to keep it, since
  no reader could find the length otherwise.
* `NnilAssumption`: elements and literals are numbers of which the methods are exact.
* `CompiledAssumption`: the parts of a method marked as compiled are `Emitted` from each other, and
  the expression fits on the stack. Methods not so marked are any sequences of instructions.
* `ProgramsAssumption`: an upload gets a tensor of its shape, and the download after it names the
  same shape; bytes are bytes; a quantization and the dequantization after it have the same options.
  The scale of such a pair is 1, 2 or 4, because a real number is counted in quarters and these are the
  scales for which dequantizing stays exact in quarters. For `quantize` alone the scale is any.
* `MovesAssumption`: extents are positive and tensors as large as their shapes; operands of a binary
  operation have equal extents or an extent of 1; an axis is reduced to 1 or left alone, by the same
  operation in both nodes, whose start it leaves alone (as 0 for a sum, or a bound for a minimum);
  the slice names the place of what it takes back, a resize enlarges by a power of two up to 256, to
  less than 2^24 rows and columns. `FloatsAssumption` is what powers of two and 2^24 are: arithmetic.
* `SumsAssumption`: a node of the KPU is compiled as its arguments are meant: `arg_x` and `arg_w` are the
  negated zero points with `shift_x` and `shift_w` bits behind them, up to 15, `arg_add` their product for
  each tap (`KpuCompiled`). Arguments with other low bits, which make the code round each of the four terms
  on its own, are left out: no reference value could be named for them. Multipliers of the table and of the
  batch normalization are any integers, their shifts up to 15; the table of segments starts below every value
  a sum can take, which stands for the least number the table of the chip starts with. Integers have no
  width in the model: that the `int32_t` and `int64_t` of the code suffice is left to the compiler. A
  picture that is pooled is not smaller than the stride (`KpuPools`).
  A convolution, plain or transposed, has groups that divide its channels and tensors as large as its
  shapes (`Convolves`, `Transposes`). The filter of a plain one fits on the padded image in one axis at
  least (`Filtered`): where it fits in neither, the code multiplies two negative sizes. In a program of three nodes the first and the last
  transpose between the layouts and name the shapes of the one in the middle (`Relays`).
* `ReadsAssumption`: a node reads as many values as its options say (`Described`); the programs of two
  nodes are the pairs that the properties are about.
* `PowersAssumption`: what powers of two up to 2^15 are. It is arithmetic, not a restriction: the provers
  do not know exponentiation.

**Only model-checked.** Liveness (`LockMoves`, `UnitsTaken`, `UnseenExpire`, `ToldOfData`), which is out
of the prover's reach. Every invariant, action property and refinement that a passing run checks is
also stated by a theorem.

## 5. Findings

* `lua_p_ctrl` truncates the port to a byte before the range assertion, so 256 + i
  drives port i (`gpio_bad_port`).
* `openai_gpio_new` does not test for `ASSIGN_ERR`, which `modules.h` documents, and
  gives no lines back: set up often enough, 0xff is used as a line (`gpio_exhausted`).
* `init` of muluart accepts 1 or 2 stop bits and casts the number to an enumeration in
  which 1 means one and a half (`muluart_stop`).
* `get_candidates` ignores `score_thresh`, which the comment on the line asks for
  (`person_boxes_thresh`).

Things the passing runs show that a reader may not expect: both serial modules read
device 1 (`SecondNeverServed`); `any` returns none of the bytes it takes
(`BytesAccounted` counts them as lost); after `deinit` no `init` brings events back
(`DeinitIsFinal`); the tracker of the person module never tracks, it copies
(`NeverRefreshed`, `FrameReported`); its list "class" shows people of earlier
frames (`ClassesNeverForgotten`); a yolo network with few anchors is run with anchors left
over from another (`NetsApart` says how far that goes); a face network may be decoded by the
detector of another and then reads beyond its scores (`FrameIsOwn` says when); a body of
nnil with a `dup` on a full stack writes beyond it (`MethodsRun` says that nothing else does).

Things read in the code that no property is about, because they are plain on reading and no
sequence of calls changes them: `conv2d_transpose` ignores its bias; the rounding of
`carry_shift` differs for negative numbers between its two branches; the mean of an empty
window divides by zero; `write("")` stops the program where a bad number is refused; 9 data
bits are accepted although `uart_bitwidth_t` ends at 8; `init` of muluart stores arguments
before it checks them; the four numbers of iris are printed whatever the length; an owner that
discarded two objects is forgiven by coming back to one; on V22 boards `openaigpio.new`
routes the pins of the debug console; the framework's `HaltLayer` is never called, so layers
that are replaced are not given back.

## 6. Not modelled, and why

Most lines of the repository's headers are declarations of closed libraries: register
layouts, enumerations and prototypes of the K210 SDK (`lib/drivers`, `lib/bsp`: about 13000
lines), of the framework (`modules.h`) and of nncase's interpreter. They have no behaviour
to model; what the application relies on is an external definition, marked so in the map.
Of the code:

* `softmax`, `unary`, `table_lookup1d`, and the portable `quantize` and `dequantize`: one
  function applied to each element, over floats. The vector versions of quantize and
  dequantize, which round pairs, are modelled.
* Bodies that are copied as one struct (`simple_node_body`), and `cpu_ops_body.h`, of which
  the repository has no writer to compare with.
* nnil's mathematical functions beyond those that are exact on integers.
* Kalman gains, box decoding and intersection over union: numerics over floats; the
  models let them have any outcome that control flow can tell apart.
* `get_boxes_8` and its helpers repeat `get_boxes` for another resolution, with a limit of
  4.2 in the place of 5, and are not called.
* Sending on the serial ports beyond its assertion, and `tostring` of all modules:
  no state changes. `helloword`: no state.
* The levels of argument tables that a failed `LUA_ASSERT` leaves open: the cursor is the
  framework's.

## 7. Plan

1. `PersonFrame` over `PersonBoxes` and `PersonCorners`: one composition from the logits of a
   frame to the list a script gets.
2. A reference for `softmax` over a table of exponents, and for `table_lookup1d`.
3. A core that takes the serial FIFO's lock in the interrupt: `CoreSync` below `MulUart`, once
   the framework's use of the locks is known.
