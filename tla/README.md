# Verification of the EtherCAT galvo slave

This directory holds TLA+ models of the firmware that drives a two-axis
XY2-100 galvanometer from an EtherCAT master, the TLC configurations that check
them, and TLAPS proofs. `PROJECT.json` is the index: components, runs, the lines
of source each definition stands for, hazards, findings and theorems.

Paths below are relative to the deployed firmware,
`src/自定义振镜从站/正式调试/从站/lan9252-stm32f407vet6 （successdemo）/HL_IO_test1(5.12)/`,
unless they start with `src/`.

## 1. The system

A Windows program (`src/自定义振镜从站/正式调试/主站/galvo_pdo_control_vs/main.cpp`)
sends one output PDO per cycle, `{x_code, y_code, sequence, control_flags}`, over
SOEM. A LAN9252 EtherCAT slave controller (the ESC) keeps the latest PDO in Sync
Manager 2 and pulls its IRQ line low. An STM32F407 running the Beckhoff Slave
Stack Code (SSC 5.12) reads it over SPI, hands it to an interpolator, and a
100 kHz timer interrupt drives the mirrors with XY2-100 frames. An input PDO
`{status, last_sequence, frame_counter}` goes back.

Execution contexts on the slave (no RTOS):

| context | priority (preempt, sub) | does |
|---|---|---|
| main loop, `main.c` | none | `MainLoop`: free-run process data, `ECAT_Main` (AL control, SM changes, mailbox, watchdog); OLED |
| TIM2, every ms | 2,0 | `ESC_TIME_ISR`: `ECAT_CheckTimer`, `DC_CheckWatchdog`, run LED |
| EXTI3 (ESC IRQ line) | 1,0 | `PDI_Isr`: reads outputs, writes inputs |
| TIM7, 100 kHz | 1,0 | `GalvoXY2_TimerTick`: one interpolation step, one frame |

### Inventory

| component | state it keeps | operations | interacts with | hard behaviour | correct when |
|---|---|---|---|---|---|
| XY2-100 interpolator (`Core/Src/galvo_xy2_100.c`) | `GalvoState`: current, start, target, sequence, control flags, two counters, status | `SetTarget`, `TimerTick`, getters | written by PDI or main loop, ticked by TIM7 | TIM7 preempts `SetTarget` in free run; new target in the middle of a movement | never jumps, reaches the target, reports staleness truthfully |
| XY2-100 frame (same file) | the pin levels | `xy2_pack_word`, `xy2_write_bit`, `xy2_send_frame` | the galvo driver | order of pin writes, sign and parity | the driver receives the codes sent |
| EtherCAT state machine (`SSC/Src/ecatslv.c`) | `nAlStatus`, pending transition and its timeout, running flags, watchdog value | `AL_ControlInd`, `AL_ControlRes`, `CheckSmSettings`, start and stop handlers, `CheckIfEcatError` | master (registers), PDI_Isr (outputs received), TIM2 (timeout) | pending transitions against timeouts, errors, SM changes, watchdog | handlers run exactly in their states; every request is answered |
| process data interrupt (`SSC/Src/ecatappl.c`, `stm32f4xx_it.c`) | the ESC event, EXTI and NVIC pending bits, cycle counter, sync error | `PDI_Isr`, `HAL_GPIO_EXTI_IRQHandler`, `ACK_ESC_INT` | ESC, interpolator, TIM7 | edges while the interrupt runs | no command is lost unnoticed |
| ESC access (`SSC/Src/el9800hw.c`) | EXTI3 enable bit, PRIMASK, SPI | `HW_EscRead`, `HW_EscWrite`, Isr variants, `ESC_TIME_ISR` | all contexts | two masks that do not nest | accesses whole, interrupts never left off |
| application (`SSC/Src/SSC-Device.c`) | PDO objects | `APPL_OutputMapping`, `APPL_Application`, `APPL_GenerateMapping` | interpolator, OLED, UART | blocking `printf` in an interrupt | input PDO is consistent |
| mailbox (`SSC/Src/mailbox.c`) | receive and send queue, stored and repeat buffer | `MBX_MailboxWriteInd/ReadInd/RepeatReq/SendReq`, `MBX_Main` | `ECAT_Main`, CoE | repeat requests, queue full, stop while pending | each response is delivered once, no buffer used twice |
| CoE, SDO server, objects (`ecatcoe.c`, `sdoserv.c`, `objdef.c`, `coeappl.c`) | segmented transfer, pending response, object dictionary | `SDOS_SdoInd`, `COE_ContinueInd` | mailbox, state machine settings | aborts in the middle of a transfer | a transfer ends in its response or an abort |
| LAN9252 driver (`ESC/`) | CSR command register | indirect reads and writes | SPI | busy bit | reads what was asked for |
| OLED (`Core/Src/oled_status.c`) | displayed fields | setters, `OledStatus_Task` | written by interrupts, no lock | torn snapshot | display only |
| trajectory master (`main.cpp`) | sample index, sequence, lost counters | `start_ethercat`, `run_trajectory`, `exchange_pdo`, `stop_ethercat` | the bus | lost frames, stop PDO lost | slave follows the trajectory and stops |

Not part of the deployed program: the first FreeRTOS firmware (`src/Core`,
`src/MDK-ARM/app.c`) with the SOES stack (`src/SSC`), the IO-test copies of the
slave, the Python trajectory decomposition (numerical optimisation), the XPLC
job script, and vendored code (HAL, FreeRTOS, SOEM, npcap, klipper-laser).

## 2. Modules

| module | models | state and actions |
|---|---|---|
| `TargetFollower` | abstract: what the interpolator promises the planner | position, goal, ticks left; `Retarget`, `Advance` |
| `GalvoXY2` | `galvo_xy2_100.c`, the interpolation | the fields of `GalvoState`, a call in progress, the last frame; `SetTargetCompare` (up to `__disable_irq`), `SetTargetStore`, `TimerTick` |
| `Xy2Frame` | `galvo_xy2_100.c`, one frame on the pins | pin levels, loop variable; one action per pin write; the receiving galvo driver is external |
| `EcatEsm` | `ecatslv.c` and `MainLoop` | the AL registers, Sync Manager activation and events, the slave's flags; `AL_ControlInd` computes an outcome (new state, error, handlers started and stopped) and `Perform` carries it out; one action for each place where the main loop looks at shared state |
| `PdiInterrupt` | EXTI3, NVIC, `PDI_Isr`, TIM7 | PDO in the ESC, event, pending bits, position in the interrupt, applied PDO, echoed PDO; one action for each look at or change of the hardware |
| `ResponseChannel` | abstract: what the mailbox promises the master | responses made, accepted, unread; `Make`, `Deliver`, `Stop` |
| `Mailbox` | `mailbox.c`, the mailbox part of `ECAT_Main`, and how `ecatcoe.c` and `sdoserv.c` send | `dev`: the two mailbox buffers and events of the ESC, `mailbox.c`'s pointers, queues, counters and flags, the heap; `mst`: the master; one action per look of `ECAT_Main` at the ESC, one operator per function of `mailbox.c` |
| `EscMask` | the three contexts and two masks around SPI accesses | program counters of the contexts (the main loop's includes the access it is in the middle of), EXTI3 enable bit, PRIMASK, and as history whether TIM2 has ended the main loop's mask and which accesses were broken |
| `SampleStream` | abstract: what the trajectory master may rely on | numbers of the last command sent, taken, confirmed; `Send`, `Apply`, `Confirm`, `Forget` |
| `GalvoSystem` | `main.cpp`, the bus and the slave together | the program's place and counters, the frames on the bus, SM2 and the IRQ line, `PDI_Isr`, the state machine, the galvo's target and whether it sends frames; `Configure`, `SendZeroes`, `SendSample`, `SendStop`, `Timeout`, `Kill` for the program, `Exchange`, `WriteAlControl`, `Lose` for the bus, the steps of `PDI_Isr`, `TimerTick`, and the parts of the main loop that decide about OP |
| `*Proofs` | theorems about `GalvoXY2`, `Xy2Frame`, `EcatEsm`, `PdiInterrupt`, `EscMask`, `GalvoSystem`, `Mailbox` | |
| `MC*` | small instances for TLC | |

`GalvoXY2` and `Xy2Frame` split one C file: a tick's frame is a value in the
first and twenty clocked bits in the second. `PdiInterrupt`'s `applied` is the
PDO given to `GalvoXY2_SetTarget`; within it TIM7 cannot preempt, because EXTI3
and TIM7 share a preemption priority, so the whole call is one step there.
`EcatEsm` abstracts `PDI_Isr` to the flag it sets and the event it takes back.
`GalvoSystem` puts the three together, each reduced to what decides whether a
command arrives: of `EcatEsm` INIT, SAFEOP and OP with the pending transition,
of `PdiInterrupt` its two looks at the event and the second clearing of the
line, of `GalvoXY2` the target, and of the frame that it is sent.

### Abstractions worth knowing

* `EcatEsm`: a call of `AL_ControlInd` is one step. The interrupts that could
  split it only read or set the flags it leaves for them at its end.
  Distributed clocks are off (the master never activates them), the
  application's ESM handlers return `NOERROR` as they do in `SSC-Device.c`; so
  `SAFEOP_2_OP` is the only pending transition, and `bLocalErrorFlag` stays
  clear (nothing calls `ECAT_StateChange` with an error). Settings are correct
  or not; which address or length was wrong is not distinguished. Requests
  cover every AL control code: the four states, BOOT, and codes that name no
  state with and without the bit of OP (which decides whether SM2 is closed).
  The run asks for the states and one code with that bit; all codes that name no
  state take the same branch, and the theorems cover them all.
* `PdiInterrupt`: the slave is in OP and SM-synchronous mode, the mode this
  master uses. The rest of the interrupt is taken to fit into one TIM7 period,
  which can only hide lost periods, not invent them.
* `Mailbox`: the functions of `mailbox.c` call each other and the CoE services,
  so each is an operator from one state of the slave to the next (`dev`), and
  the actions are the steps of `ECAT_Main` between which the ESC and the master
  move. The master numbers its requests, writes one again until its frame comes
  back, polls while something is open, toggles the repeat bit when the frame
  that polls is lost and waits for the acknowledgement; it discards a response
  with the counter of the last one, and asks for an object list only when
  nothing else is open. Mailbox errors, SDO responses and aborts are answers
  alike. The objects of this firmware answer at once (no `Read` or `Write`
  function returns `ABORTIDX_WORKING`), so there is no pending SDO response. Of
  `AL_ControlInd` only the start and stop of the mailbox appear; `EcatEsm` has
  the rest. A state of INIT and `bMbxRunning` being clear are one.
* `GalvoSystem`: process data are numbered as they are sent, which the code does
  not do; the numbers only serve to say which command was taken, and nothing in
  a guard of the slave reads them. The bus keeps the order, because the frames
  pass one slave; a frame that the program has given up may still arrive. A
  trajectory that is repeated is one longer trajectory. `Configure` stands for
  `start_ethercat` up to SAFEOP: the library leads the slave through INIT, where
  every handler stops, and takes its time, so nothing old is on the bus any more.
  The watchdog may expire whenever the main loop looks at it; `Kill` covers an
  exception and the end of the process from outside. PREOP and errors of the
  state machine are left to `EcatEsm`.
* `EscMask`: one register access stands for all those of a round of `ECAT_Main`
  (made with PRIMASK), and one for those of `PDO_InputMapping` in `MainLoop`'s
  masked block (the AL event register and, while the master measures, the system
  time; made without PRIMASK). What a broken access does to the ESC or to the
  value read is left out; the other modules take accesses to succeed.
* The parity of a frame is over the 16 data bits; bits 19 to 17 are zero, as in
  `xy2_pack_word`. The first firmware (`src/Core/Src/xy2_100.c`) sends control
  bits there; the deployed one does not, and the model follows the latter.

## 3. Runs

Every run checks deadlock: none of these systems may stop.

| run | question | instance |
|---|---|---|
| `interpolator` | Does every interleaving of `SetTarget` and TIM7 keep the mirrors on one line, in bounded steps, and bring them to rest? Does it implement `TargetFollower`? | 4 points on two axes with both signs and distances that the frames do not divide, 2 sequence numbers, 3 frames per movement, stale after 4 |
| `esm` | Do handlers, register, error code and pending transition stay consistent under any requests, setting changes, watchdog expiry and timeouts? Is OP only entered on fresh outputs, do pending transitions end, does a silent master end OP? | both synchronisation modes, the four states and one code that names none, timeout of 1 ms |
| `pdi` | Does the input PDO only confirm applied targets? Are lost outputs reported? Is no edge stuck? | 6 PDOs |
| `mailbox` | Is every request answered once, in order, whatever frames are lost? Has every buffer one holder, also over a stop? | 3 requests of any kind, all open at once, 2 lost frames, one stop, counters 1 and 2, 6 buffers, queues of 3, object lists of two fragments |
| `mask` | With non-nesting masks, are accesses under PRIMASK whole, who lets `PDI_Isr` break the others, and is EXTI3 never left disabled? | LED counter of 2 |
| `system` | Over two runs of the program with lost, late and dropped commands: does the galvo take commands in order and none twice, and does the master see confirmed only what was taken? | 2 points, sequence number of one bit, 6 exchanges before the last run's end, 2 frames under way, the run given up after 2 lost frames, one try for OP |
| `frame` | Does the driver receive the codes, with data and SYNC stable around the clock? | 3-bit codes in 6-bit frames, all pairs of codes |

The bounds are small because nothing in these components counts further than a
few steps: an interpolation that is cut off after 0, 1, 2 or 3 of its 3 frames
shows every case of an interruption, the timeout only matters as running, at
zero or stopped, and a frame's loop treats all its bits alike (the constants
keep one zero bit above the code, the code with its sign, and the parity bit).
Six PDOs allow one in work, one that arrives during it and one whose edge is
erased. Two mailbox counters are fewer than the code's seven, so a message taken
for another's repetition would show sooner; two losses let a repeated message be
lost again, and let the next one be displaced meanwhile; six exchanges are two
runs of the program with a sample each, or one with several samples, and a
one-bit sequence number wraps within them and collides with the zero of the stop
PDO; two fragments are what the firmware's 17 objects need in the smallest
mailbox (36 bytes). Where the number matters (the number of frames, the range of
codes, the buffers) the proofs cover every value.

Five runs show a disagreement between the code and a sentence of the repository
(`findings` in `PROJECT.json` quotes both):

| run | what TLC shows |
|---|---|
| `pdi_edge` | an edge between the last look at the event register and `ACK_ESC_INT` is erased: the ESC holds its line low, and outputs stay unread until the watchdog ends OP |
| `pdi_tick` | the `printf` in the interrupt costs whole XY2-100 periods |
| `system_safe` | `APPL_StopOutputHandler` does nothing: when the stop PDO is lost, or thrown away because `PDI_Isr` is still printing, the galvo goes on with the last command after OP has ended |
| `mask_register` | TIM2's `ENABLE_ESC_INT` ends the masked block of `MainLoop` while `PDO_InputMapping` reads the AL event register: `PDI_Isr`, for the first outputs, breaks the read |
| `mailbox_list` | a stop in the middle of an object list leaves `nSdoInfoFragmentsLeft` set: the next list starts in the middle |

### Properties

* `GalvoXY2`: `OnTrack` and `Lockstep` are the core, relating position, start,
  target and the two counters; `BoundedStep` says what the user of a laser sees;
  `StaleAtRest` relates the reported status to the mirrors; `FollowsTarget` is
  the refinement; `Settles` is the liveness.
* `EcatEsm`: `HandlersMatchState`, `RegisterAgrees`, `ErrorHasCode` and
  `PendingArmed` relate what the master reads to what runs. `ErrorNeedsAck`,
  `PendingAnswered` and `OpNeedsFreshOutputs` restrict steps. `PendingAnswered`
  has one exception the code really makes: when SM1 is found disabled, the
  pending request is dropped without an error.
* `PdiInterrupt`: `EchoConfirms`, `LossIsReported`, `PendingIsEntered`,
  `LatchedIsServed`. The last one holds only while the edge is latched; the
  `pdi_edge` run shows why it cannot be stated for the event itself.
* `Mailbox`: `DeliversInOrder` is the refinement of `ResponseChannel`: a
  response is unread exactly as long as some buffer holds it, so one that is
  dropped, or freed before the master has accepted it, breaks it.
  `AnswersMatch` is the other direction (requests served once, in order),
  `OneHolder` the ownership of buffers (not freed twice, not lost, not used
  after), `QueueSuffices` that the queues' bounds follow from the lock on new
  requests, `Answered` that nothing waits for ever.
* `EscMask`: `NeverLeftMasked`, `PdiEntered`. `MaskedAccessWhole` is what holds
  of "accesses are whole": those of `HW_EscRead` and `HW_EscWrite`.
  `RegisterAccessWhole` is what the comment there asks of every register access,
  and fails in the block of `MainLoop`; `CutOnlyByTim2` says that nothing but
  TIM2 opens that block (it also covers the input PDO written in it), so a mask
  that nests in `ESC_TIME_ISR` and `DC_CheckWatchdog` would be enough.
* `Xy2Frame`: `FrameArrives`, `DataStable`, `SyncFramesClock`.
* `GalvoSystem`: `DeliversInOrder` is the refinement of `SampleStream`: the
  commands the galvo takes are a subsequence of those sent, and a confirmation
  is for a command that was taken, in an answer to a later one. `TargetIsLatest`
  relates what was mapped to the target, over the wrap of the sequence number.
  `SafeAfterOp` is what the stack's notes promise and the application does not do.

Each property has a variant of a mapped definition, kept beside it in the module
and commented "Faulty variant", which breaks it.

### Fairness

* `GalvoXY2`: TIM7 is started once and never stopped (`WF(TimerTick)`), and a
  preempted `SetTarget` is resumed (`WF(SetTargetStore)`). The master may fall
  silent at any time.
* `EcatEsm`: the main loop never waits (`WF(MainLoop)`); TIM2 and the ESC
  interrupt are not masked for ever, which `EscMask` checks
  (`WF(ECAT_CheckTimer)`, `WF(PDI_Isr)`). Nothing is assumed of the master.
* `Mailbox`: the main loop goes round; the master repeats what was lost, polls
  while something is open and sees acknowledgements. It need not ask anything.
* `PdiInterrupt`, `EscMask`: the processor continues what it is in.
* `GalvoSystem`: the program goes on with its exchanges (each ends by its answer
  or its timeout), a frame arrives or is lost, the interrupt, TIM7 and the main
  loop run. The program may be killed at any time and need not be started again.

## 4. Proofs

Eight modules hold theorems; each is `Spec => []Inv`, `Spec => [][A]_vars` or a
refinement, for every value of the constants that meets the module's named
assumption. Each has an inductive invariant `IInv`, with one lemma for the
initial states, one per action or group of actions, and `Invariance`.

### `GalvoXY2Proofs`

`TypeCorrect`, `AlwaysOnTrack`, `AlwaysLockstep`, `StaleMeansAtRest`,
`StepsAreSmall`, `Refinement`. The assumptions are those the header file gives:
at least one frame per movement, staleness not before the end of a movement,
commanded points within the code range, and the origin among them (it is the
target at power-up).

`IInv` is `TypeOK /\ OnTrack /\ Lockstep` with `StaleSettled`. Each part is
needed:

* `TypeOK` alone is not inductive: that the next position stays a code follows
  only if it lies between start and target, which needs `OnTrack`;
* `OnTrack` is kept by a tick from the definition of `Interpolate` (at the last
  step the quotient is exact, `QuotientExact`) and by `SetTargetStore` because
  the movement restarts at the current position with index 0;
* `StaleAtRest` needs to know that a target which is not newer than the report
  is the one the report was about, which `StaleSettled` states over the counter,
  and `Lockstep` to get from the counter to the end of the movement.

The arithmetic is in lemmas: `\div` and `%` (`DivMod`, `DivMonotone`,
`DivExact`, `DivShift`, `DivCeiling`), C division (`QuotientExact`,
`QuotientBetween`, `QuotientStep`), and the interpolation (`InterpolateBetween`,
`InterpolateEnds`, `InterpolateStep`). `StepsAreSmall` rests on `QuotientStep`:
one more step moves the truncated quotient by at most the rounded-up share.

### `EcatEsmProofs`

`TypeCorrect`; `HandlersFollow`, `RegisterShows`, `PendingHasTimeout` and
`ErrorHasReason` (the four state invariants); `RisesOnlyAcknowledged`,
`PendingIsAnswered`; and `OpOnFreshOutputs`.

`IInv` is `Local /\ Shared`. `Local` is what the slave alone writes, with the
four invariants, which are inductive only together: that `Refuse` leaves the
handlers of the state running needs the pending transition to be one from
SAFEOP, and that a pending transition ends at its timeout needs the timeout to
be armed. `Shared` is what master, interrupts and main loop write, with what the
main loop has seen so far. `Fits` says, for each kind of outcome of
`AL_ControlInd`, that `Perform` leads from a consistent slave to a consistent one.

`OpOnFreshOutputs` is about SM-synchronous mode, which this master uses, whatever
modes were selected before. Its invariant `Fresh` says that a slave in this mode
that has outputs has fresh ones, and enters it without any: SM2 is closed outside
SAFEOP and OP. In free run it does not hold (a left-over SM2 event sets the flag
again).

### `EscMaskProofs`

`TypeCorrect`, `EscIntComesBack`, `MaskedAccess`, `BlockEndedByTim2`. `Masks`
relates the EXTI3 enable bit and PRIMASK to the places of the three contexts: who
is inside which mask, and who can have been preempted where. In the main loop's
block the enable bit is only certain until TIM2 has set it, which is what
`BlockEndedByTim2` says of a broken access.

### `PdiInterruptProofs`

`TypeCorrect`, `EchoIsApplied`, `PendingEntered`, and `LossReported`. The last
one assumes `MAX_PDO < COUNTER_MOD`: `u16CycleExceededCounter` does not wrap.
Its invariant `LossInv` counts: every exceeded cycle costs a PDO, so before
`COUNTER_MOD` of them the counter is not zero again, and
`COE_UpdateSyncErrorStatus` does not take the error back.

### `Xy2FrameProofs`

`TypeCorrect`, `CodesArrive` (the driver decodes exactly the codes that were
packed), `WholeFrames` (SYNC falls after all bits were taken), `DataStands`,
`SyncBetweenClocks`, for every frame length and code width.

`IInv` is `Pins /\ Bits /\ Wire /\ Result`: `Pins` ties the levels to the place
in the frame, `Bits` the number of received bits to the loop variable, `Wire` the
bits received so far to the leading bits of the word, and `Result` what was
decoded to the codes of the frame it was decoded from.

What the received bits are worth is a recursive function of the sequence, so its
properties need induction. `NatSet` provides it without an operator parameter: a
set of naturals with 0 and all successors has no least counterexample and so is
all of `Nat`. From it follow `PowerTwo`, that the recursive function exists and is
unique (`WeightExists`, `WeightUnique`), what appending a bit does to its value
(`ValueAppend`) and to the parity (`CountAppend`, `OnesShift`), and with them
`DecodeWord`: a packed word, sent bit by bit, is decoded to its code with the
parity even.

### `GalvoSystemProofs`

`TypeCorrect`, `TargetFollows`, `Refinement` (to `SampleStream`), for any set of
points, any width of the sequence number, any bounds. `IInv` adds to `TypeOK`
and `TargetIsLatest`:

* `Counting`: the counters of lost frames and of tries stay below their limits
  as long as the program is in the place that counts them;
* `Chain`: what is confirmed is not newer than what is in SM3, that not newer
  than what was mapped, that not newer than what is in SM2, and the frames on the
  bus are newer and in order. It is what keeps a given-up frame that arrives late
  from being mapped out of order, and makes a confirmation older than the
  command it answers.

`ProgramRefines`, `BusRefines` and `SlaveRefines` map each step to one of
`SampleStream` or to a stutter.

### `MailboxProofs`

`TypeCorrect`, `QueuesSuffice`, `BuffersOwned`, for any number of buffers, any
counters, and any bounds on what the master asks, loses and stops. The theorems
assume `Undivided`:

* no object list is divided (`FRAGMENTS = 0`, or no list is asked for). The
  firmware's 17 objects fit the default mailbox of 128 bytes. A divided list makes
  a response without a request, so "a request is only taken while nothing is to
  be sent" no longer bounds the send queue; there `QueueSuffices` also rests on
  how the master alternates polls and repeats. The `mailbox` run covers that case,
  with lists of two fragments;
* a ring has at least three slots, which is two places (`MAX_MBX_QUEUE_SIZE` is
  larger in the code).

`IInv` is `Cycle /\ mst \in Master /\ Owner(dev, {}, 0)`. `OneHolder` alone is
far from inductive; it needs, in `Owner` and beside it,

* `Disjoint`: the two queues and the three pointers have no buffer in common,
  but `psReadMbx` and `psRepeatMbx` may be the same one;
* `Memory`: what a buffer holds is what its holder needs (a request in the
  receive queue, a response elsewhere), and a free buffer holds nothing. It makes
  `Alloc` return a buffer nobody holds;
* `Pointing`: which pointers can be set while the send mailbox is full, empty, or
  holds a repeated message that displaced another. Without it a repeat could
  free a message that is still to be read;
* `Load`: what waits in both queues, together with a message in the send
  mailbox, is bounded, because a new request is locked out meanwhile;
* `Cycle`: what the main loop's earlier looks at the ESC have established by the
  place it is in.

`Owner(d, w, n)` is stated for a record in the middle of a function: `w` are the
buffers it works with, `n` the entries it will still add. For each function of
`mailbox.c` one lemma gives the fields it changes (`...Fields`), and one shows
that it hands on the buffers (`...Owner`). `OnceConcat` then turns `Disjoint`
into the sequence of holders that `OneHolder` is about.

### `MailboxOrderProofs`

`AnswersInOrder` (every accepted response answers the oldest open request) and
`Refinement` (`Mailbox` implements `ResponseChannel`), under `Undivided`, with any
number of buffers, requests, losses and stops, and any two or more counters.

Where `IInv` says in whose hands a buffer is, the invariant here says what the
buffers hold. `OInv` is `IInv /\ Repeats /\ Order`, and the parts of `Order` need
each other:

* `Chain`: the responses are numbered without a gap from the one kept for a
  repeat through the one in the send mailbox and the one a repeat displaced to
  the one that waits; `u8MbxReadCounter` is that of the last one made;
* `Reads`: the master is at most two responses behind the send mailbox, and more
  than the one to be read only while a repeat is still to be handled (`Pends`).
  It is why the one message the slave keeps is always the one asked for;
* `Writes`: the requests are numbered without a gap from the one being written
  through SM0 to those received, so the counter alone tells a repetition from a
  new request;
* `Answering`, `Waiting`: the response or the waiting request with number `j` is
  that of the master's `j`-th request of the session;
* `Fresh`: a stopped mailbox starts from nothing, as does its master;
* `Asking`: the requests are those `ResponseChannel`'s contents range over.

`Repeats` is about the order in which `ECAT_Main` looks at the ESC: the lost
message's read event is handled before the repeat that asks for it, because the
copy of SM1's activate byte it acts on was taken before the event register was.
Without it `HandleRepeat` could put back the message before the lost one.

Each operation has a lemma that it keeps `Order` (`ServeKeeps`, `TakeKeeps`,
`ReadKeeps`, `RepeatKeeps`, `StopOrder`, `AskKeeps`, `WriteKeeps`, `MissKeeps`,
`AcceptKeeps`), and `OrderStep` also classifies every step (`Moved`):
nothing made or accepted, one response made, one accepted, or a stop. `UnreadIs`
gives the abstract state by numbers, and with it `ChannelStep` maps the four
kinds of step to a stutter, `Make`, `Deliver` and `Stop`. Before it was proved
`OInv` was checked by TLC as an invariant of the `mailbox` instance with
`FRAGMENTS = 0` (512 932 distinct states).

### Only model-checked

Liveness (`Settles`, `PendingResolves`, `SilentMasterEndsOp`, `LatchedIsServed`,
`PdiEntered`, `Answered`), which is out of the prover's reach, and the
mailbox's properties with a divided object list. All other properties of the
passing runs are theorems.

## 5. What a next step would be

1. The mailbox theorems for a list of two fragments (`FRAGMENTS = 1`), which is
   all the firmware's 17 objects can need. They cannot be had for every number:
   with three fragments and two losses a repeat displaces one fragment while
   the next two are made, and TLC finds two responses in the send queue, against
   `QueueSuffices`. The queue has places for them; what is exceeded is the bound
   of one that the two-fragment instance shows.
2. Distributed clocks, if a master activates them.
3. An `APPL_StopOutputHandler` that disables the galvo: `system_safe` would then
   become a passing run.

## 6. Not modelled

* Distributed clocks (`Sync0_Isr`, `Sync1_Isr`, the PLL wait): compiled in, but
  only active when a master activates the sync unit, which this one does not.
* Real time beyond order: the length of the SPI accesses and of the interrupts.
* `main.c`'s poll of `HW_GetTimer` in `MainLoop`: TIM2 never reaches the value
  it waits for, so the branch never runs.
* Segmented SDO transfers: this master makes none, and an object has to be
  longer than a mailbox for one, which in this firmware only complete access to
  the synchronisation objects in the smallest mailbox is.
* The free-run mode beyond `EcatEsm`: this master's configuration selects
  SM-synchronous mode (`StartInputHandler`, no synchronisation type set by the
  user, no distributed clocks, outputs present).
* The LAN9252 register protocol (bytes on the SPI and a busy bit, one context at
  a time: `EscMask` says which accesses can be cut), the object dictionary's
  contents, the display, the first firmware with its SOES stack, the numerical
  planner and the scripts around it (see the inventory and `components`).
