# A TLA+ model of open-servo-core

Open Servo Core is firmware for hobby servos on a shared half-duplex bus
(`docs/osc-native-protocol.md`), with a USB host adapter, a client library, a
bench for identifying and calibrating a servo, and a derive macro that turns
declarations into the register table. This directory holds a model of all of
these. TLC checks it on small instances. TLAPS proves the flash store, the
register session, the servo bus, the reply chain, the clock discipline, the
control kernel, the bus master, the link server over it and the USB pipe for
every value of their constants (section 5).

Paths below are relative to `src/firmware/` unless they begin with another
directory of the repository.

## 1. The system

### Parts, their state and operations

| part | source | state | operations |
|---|---|---|---|
| Framer | `lib/drivers/src/bus/framer.rs` | ring, DMA cursor, ladder anchor, hunting flag, frontier | resolve (hunt, covered, frame, wait), reject, verified, give up, resync |
| Servo bus | `servo_bus.rs`, `servo_bus/{route,reply,crc}.rs` | the pending frame, id, rate, deferred id/baud/reboot, deadline slots | break wake, deadline, arm complete, take_reboot, rescue |
| Reply chain | `chain.rs` | idle / pending / waiting(n, silent) | reply staged, break observed, status end, deadline, reset |
| TX engine | `tx.rs`, `servo_bus/crc.rs` | idle / staged / streaming, DMA arms, the shared CRC unit | stage, trigger, arm complete, abort, patch |
| Clock discipline | `clock.rs`, `trim.rs` | CAL train, drift window, trim, cadence | CAL announce and break, drift pair, deadline, poll |
| Decoder and codec | `decode.rs`, `lib/osc-protocol/` | none | build, parse, shape, decode |
| Dispatch session | `lib/core/src/services/bus/{dispatch,session}.rs` | staging buffer, pending write | dispatch (13 requests), commit, revert |
| Register map | `lib/control-table/src/{map,stage,rules}.rs` | table bytes, staged bytes and entries | validate, stage, apply, truncate |
| Table derive | `lib/control-table-derive/`, `lib/table-export/` | none (compile time) | block, section, table, descriptor |
| Config store | `servo-ch32/.../config_store.rs`, `lib/core/src/persist.rs`, `hal/flash/v00x.rs` | six flash pages, A/B slot and sequence state | boot_load, save, wipe |
| Control kernel | `lib/core/src/kernel` | lifecycle, fault latches, regulators, stall and thermal state | one step per control tick |
| Trajectory | `lib/core/src/kernel/trajectory.rs` | setpoint, velocity, acceleration, hold flag | one step per tick, goal and mode writes |
| Telemetry | `lib/drivers/src/tel.rs`; `ident/src/frame.rs` | sequence number, port; deframer lock | encode, drop; feed, resynchronise |
| Bus master | `lib/host/src/engine` | exchange or wire operation, window, pacing, ring | submit, pump, break, deadline, tx complete |
| Link server | `lib/host/src/link` | owner of the engine, adapter request, rails | a handler per record, poll |
| USB device | `host-ch32/src/runtime/{usb,run}.rs` | control stage, endpoint toggles, record queue | setup, IN, OUT, bus reset, main loop |
| Edge capture | `host-ch32/src/providers/edges.rs`; `client/src/wire.rs` | two DMA rings of ticks, drain cursors; client anchor | capture, drain, merge |
| Client | `client/src` | outstanding call, sequence number, wedged flag | call, receive, stall, drain, reset, cyclic step |
| Discovery | `client/src/mgmt.rs`, `tools/bench` | prefix stack, roster, bus rates | probe, confirm, assign, find_bus_baud, set_baud |
| Identification | `ident/`, `tools/osc/src/ident` | experiment phase, guard, windows kept | one poll per step, abort, park, recentre |
| Calibration | `tools/osc/src/cal` | plan, sweeps, the servo's table and flash | arguments, end-stop seek, traverse, write, SAVE |
| Gain writer | `tools/osc/src/rig` | snapshot file, RAM and flash gains | write, verify, save, roll back |

### How they interact

Three interrupt handlers of the servo call into the bus: the break wake, the
tick compare and the transmit DMA. They run at one priority (`runtime/isr.rs`),
so they never preempt one another, and each is one atomic action of the model;
the main loop polls `take_reboot` and the rescue sampler with interrupts masked.
Inside a handler the framer resolves frames from the ring; the bus routes each
through the decoder to the dispatcher, which answers through a reply handle
that stages a status frame in the TX engine. The chain then decides the tick at
which that frame starts. `commit` or `revert` follow when the CRC verdict is in.
SAVE and FACTORY block inside dispatch while flash is erased and programmed.
Servos see one another only as breaks and status frames on the wire.

On the host the adapter's main loop alternates USB service, `Server::poll` and
the bus master's `pump`; the break, deadline and transmit interrupts run between
any two of them. Client and adapter exchange records over two bulk pipes, many
in flight, matched by a sequence number. Bench programs are sequences of client
calls, each of which may fail, with ctrl-c between any two.

### What is hard

* Work before the verdict: a frame is dispatched at its covered checkpoint, two
  bytes before its CRC is there. Its effects sit in the TX engine and the
  staging buffer, and the frame may be verified, rejected, or just die.
* A staged reply, a chain slot and a pending frame are three pieces of state in
  three components that must agree after every event, in whatever order break
  wakes, deadlines and frame ends are served.
* A group reply has no arbiter: each servo counts the others by listening, with
  timeouts that race late wakes.
* Resynchronisation by position: one misjudged byte count and the resolver
  strides over good frames, or waits for bytes that never come.
* Three DMA transfers read and write one reply buffer while it is on the wire.
* SAVE is a sequence of flash page operations, any of which may fail, with
  power lost between any two; sequence numbers wrap.
* The bus master cannot tell a dead servo from a late one except by time, and
  its own interrupts are late.
* Answers to abandoned calls arrive later, under sequence numbers that wrap.
* A motor that is driven when its program dies.

`PROJECT.json` lists these hazards one by one, each at its line, with the
property that would catch it.

## 2. The modules

| module | models | state and actions |
|---|---|---|
| `ConfigStore` | config store, boot pick, SAVE, FACTORY, reboot | two CONFIG pages and four CALIB pages, the RAM state a reset loses, and a program counter for the blocking operation; one action per page operation, readback and early return; `PowerCut` anywhere |
| `RegisterSession` | abstract: what the session promises the host | table, held writes, dirty bit, saved table; a write applies at once, held writes apply together |
| `Dispatcher` | staging buffer, pending write, dispatch/commit/revert | `entries`, `used`, `pending` as in `StagedWrites` and `Session`; one action per request kind and verdict; `FrameDies` is the bus forgetting a frame |
| `TableLayout` | derive macro, byte-level validation and copy, descriptor export, the tool's `set`, `get`, `dump`, hold and commit, a descriptor that is not this servo's | a declaration, the constants it expands to, the table bytes; one action per write, set and dump chunk, and the kernel publishing |
| `Codec` | builders, parsers, the host's plan of a frame, the servo's decoding | one frame: built, sent, parsed by both sides, cut by a ring seam |
| `ServoBus` | bus, TX engine state, chain under one servo; instantiates `Dispatcher` | one action per event: covered checkpoint, complete frame (spine or verdict-first), skipped, garbled, status frame, verdict, break kill, deadline, drain, reboot, rescue |
| `ClockTrim` | CAL train, drift windows, trim loop, the deadline slot they share with the framer | one action per break, pair, deadline, poll and rescue pulse; chips with weak and strong trim steps that warm up |
| `TxEngine` | reply staging, snapshot copy, CRC feed, patch, wire arms | copy, feed and wire DMA as processes of one byte or halfword a step |
| `ReplyChain` | several servos answering one GREAD, with time | `Chain` per servo, the wire, undelivered wakes, a clock; one action per transition |
| `Framer` | ring and resolver | ring, cursor, anchor; one action per outcome of `resolve` and of the verdict |
| `HostFramer` | the bus master's ring walker (`engine/framer.rs`), which has no break wake | ring, cursor, anchor; one action per outcome of the walk, and the resync |
| `Kernel` | lifecycle, faults, decimated passes, regulators, stall, thermal and undervolt cut-off | `on_tick` is one action, with the sample it sees as input; register writes are the others |
| `Trajectory` | the profile generator's fixed-point tick | setpoint and its two derivatives |
| `TelStream` | telemetry encoder, lossy wire, deframer, sweep chunks | bytes in flight; one action per tick, drop, lost byte and fed byte |
| `HostEngine` | bus master | one action per handler; time, servos and noise are the environment |
| `LinkContract` | abstract: what the link promises a client | the open, the closed and the streaming sequence numbers: one closing record for each, statuses only before it |
| `LinkServer` | link server over `HostEngine` (EXTENDS) | one action per record and per poll |
| `Usb` | USB device, its queue and main loop, with a host that retries | one action per token and per loop step |
| `EdgeTimeline` | capture rings, drains, the client's merge | time, edges, cursors |
| `Client` | client library over an adapter that may withhold, repeat or break records | a call is a program of exchanges, each with the digest of records it makes; the two pipes in pieces of a record |
| `Discovery` | UID walks of the client and the bench, assignment, baud scan and change | the walk's stack; the exchange is one step |
| `Experiments`, `RigPump` | every identification experiment; the runner with guard, ctrl-c and lost transactions | phase records; `RigPump` extends `Experiments` with the servo and the plant |
| `Calibrate` | `osc cal`, extends `RigPump` | plan, table, flash |
| `GainWriter` | `osc gains`, snapshots and rollback | RAM, flash, snapshot file |

`FramerStreams`, `TableShapes` and `CodecInputs` hold input data only: byte
streams, declarations, frames. A module `X_proofs` holds the theorems about `X`;
`Replies_proofs` those about `ReplyChain` and `Framer`, `Adapter_proofs` those about
`Usb` and `HostFramer`, `Motion_proofs` those about `Kernel` and the bench tools
(`RigPump`, `Calibrate`, `GainWriter`).
Operators whose comment begins "Variant of X" are mutations used to confirm
that a property can fail; no specification uses them.

Composition. `ServoBus` instantiates `Dispatcher` with the pending frame as its
`owed` flag, so a verdict on the bus and the session's commit or revert are one
step. `Dispatcher` instantiates `RegisterSession` with the refinement mapping
`held <- Held`: the entries below the watermark of a pending write, so a write
staged ahead of its verdict is not there yet. `LinkServer` runs on `HostEngine`
and instantiates `LinkContract`: `open <- Open`, the numbers
sent and not yet closed. `Calibrate` runs its end-stop seek on the runner of `RigPump`.

### Suites

`MCRegisters`, `MCServoSide`, `MCReplies`, `MCMotion`, `MCHostSide` and
`MCProgress` each check several modules in one run. A suite is a disjoint sum:
the variable `unit`, fixed initially and never changed, says which part a
behaviour is about; every other part stands still. A part appears more than once
where one instance cannot have every input at once (the kernel under load, under
faults and over a sagging rail). Constants of the instantiated parts are in the
suite's INSTANCE substitutions, those of the extended ones in its `.cfg`. An
extended part that is not under way keeps an initial state of its own; the bus
master alone is checked under a server that the bootloader has replaced. Nothing
is shared between parts, so a suite's verdict is that of its parts checked one
by one, and a property `unit = "x" => P` is P of that part.

### Data left out

* A region's bytes are one value in `ConfigStore`; a page that `Image::parse`
  rejects is "junk". The CRC is perfect (no collisions), except in `TxEngine`,
  where it is the sequence of what was fed, and in `Discovery`, where colliding
  answers may form a clean one.
* A register is one unit in `Dispatcher`; bytes, seams, split fields and banks
  are `TableLayout`'s, over bytes of base 4.
* `ServoBus` has no clock: an armed deadline may fire at any moment, which is
  more than the hardware does. `ReplyChain`, `HostEngine` and `ClockTrim` have
  one.
* In `Framer` the only time kept is whether the wire stays silent past the
  starve horizon. `Arrive` waits while the resolver is a whole ring behind: 512
  byte-times of handler latency.
* In `Kernel` a measured current, error or temperature is a size class and a
  gain never appears: a regulator moves its output by one step toward the sign
  of its error, and saturates where the code clamps.
* In `Experiments` a window of samples is its age relative to the last goal
  change and its position; what is fitted from it is left out.
* In `Calibrate` the ripple analysis is an input: it yields a LUT or fails.
* In `Kernel` the validity windows of current and velocity are one floor of
  duty (`Floor`): the code keeps a threshold for each.
* In `EdgeTimeline` the totals of edges written and drained are natural numbers.
  The code's are `u32`, and line 97 of `edges.rs` subtracts without wrapping: it
  differs only after 2^32 edges since the capture was started.
* In `TableLayout` a chunk of a dump is read in one step; chunks are not.

## 3. The runs

| run | parts | properties |
|---|---|---|
| `config_store` | `ConfigStore` | `NoLostSave`, `DirtyHonest`, `AdjacentSeqs` |
| `registers` | `Dispatcher`, `TableLayout`, `Codec` | `ImplementsSession`, `BufferTiled`, `DirtyTracksSave`, `TypeOK`; `TableExact`; `CodecAgrees` |
| `servo_side` | `ServoBus`, `ClockTrim` x 3, `TxEngine` | `NoGhostTrigger`, `NoOrphanReply`, `ReplyIsCurrent`, `EffectsAwaitVerdict`; `ClockSound`; `TxSound`; `ServoSettles` |
| `replies` | `ReplyChain`, `Framer` | `OneTalker`, `FlagIsTrue`, `ListOrder`, `EveryoneReplies`; `FramerSound`, `EveryFrameFound` |
| `motion` | `Kernel` x 3, `RigPump` x 2, `Calibrate`, `GainWriter`, `TelStream` x 2 | `KernelSafe`, `KernelSteps`; `SafeExit`, `RigSafe`; `CalSafe`; `SavedUnmixed`; `StreamTrue` |
| `host_side` | `LinkServer`, `HostEngine`, `HostFramer`, `Client`, `EdgeTimeline`, `Usb`, `Discovery` | `KeepsContract`, `AdapterSafe`; `EngineSound`; `WalkerSound`; `ClientSound`; `EdgesTrue`; `PipeExact`; `RosterTrue` |
| `progress` | `LinkServer`, `Client`, `Kernel`, `Trajectory` | `RequestsEnd`; `KernelLive`; `ProfileSound` |
| `config_store_dirty` | `ConfigStore` | `DirtyCoversCalib`, violated |
| `dispatcher_rules` | `Dispatcher` | `RuleValid`, violated |
| `servo_bus_id` | `ServoBus` | `IdSettled`, violated |
| `servo_bus_rescue` | `ServoBus` | `RescueHolds`, violated |
| `framer_status` | `Framer` | `NothingSkipped`, violated |

Each property's comment, where it is defined, says what it claims of which code.
The type invariants of the config store and of the bus are theorems
(`TypeCorrect`) and not checked again by a run.

### Bounds, and why they are enough

* `config_store`: two bodies, sequence numbers modulo 4, two failures. The store
  compares at most two numbers, so modulo 4 shows adjacency, order and wrap; two
  failures allow a page failure followed by a power cut, or two on one page. The
  theorems lift the bounds.
* `registers`: six registers (immediate, register and magnitude rules, an enum,
  a read-only one), ten writes, three bytes and two entries of staging: a pending
  write over a held one, a buffer full of data and one full of entries all
  occur. Declarations with nested sections, skipped members, signed and enum
  fields, banks, and faulty ones; tables of more than one mask word, so a write
  crosses a word; every seam. Frames of every instruction with lists up to two
  slots, payloads up to 11 bytes of base 8, every seam.
* `servo_side`: an id and a baud register, one write of each, chain positions 0
  to 2. Two chips (weak steps, strong steps); the trim limits are the code's scaled to
  the steps they allow. Replies of odd and even length, on both sides of the
  small-copy limit, one and two spans, two exchanges, one expired spin.
* `replies`: four servos, each live, dead or wedged: two silent predecessors in
  a row followed by a live one. The tick values are the smallest that meet the
  module's three assumptions on time for a reply gap of two, with none to spare
  on the reclaim window, the skew or the frame allowance. Ring of 32 with two frames
  behind every garble of up to three bytes and longer headers whose length ends
  inside the first frame, inside the second, and past both; none reads as a
  status frame, which is what `framer_status` is about.
* `motion`: every debounce is two ticks and each decimation two, so every
  counter passes through below, at and above its limit in every phase of the
  slower passes. One lost transaction at any place and ctrl-c at any other; a
  travel of four or five positions with a guard inside it. Telemetry with a lock
  of three frames twice over: five ticks at any speed, one frame dropped and one
  byte corrupted or lost, sequence numbers modulo 8; and eight ticks with two
  drops, modulo 10, long enough to lose the lock, take it again and decode behind
  it. A corrupted byte may read as SYNC, as a small value or as an implausible one.
* `host_side`: two records in flight over every verb (sequence numbers are
  matched by equality, so a third adds no case; the theorems lift the bound);
  engine alone with chains of two and three, an enumeration and a slow operation,
  two rates, interrupts and polls two ticks late, a dead run of one slot, one
  noise, and a clock of 18 ticks that wraps within the run, just enough for the
  longest window to be within reach of the half-range compare. For the walker a
  ring of 16 that every session wraps around, with frames that carry 0x00 in
  their payload behind every garble of up to two bytes and a resync at any moment. Two sequence numbers for the
  client and calls of several requests, so from the third request on every
  number is one that was used before, be it by an abandoned call. Capture rings of two entries that eight edges lap, drains of
  at most two, and a tick counter modulo 4 that wraps twice: a ring overflows, its
  drain index realigns, the capture is reset, and the timeline is exact again.
  For USB a queue of three records that fills up, one lost handshake and one bus
  reset anywhere, SET_CONFIGURATION, SET_INTERFACE and CLEAR_FEATURE. UIDs of
  three bits, up to two servos, one ghost answer, one garble (on a silent bus
  too), three mutes: enough for a silent walk to be believed by mistake, were
  it believed once; and a link that fails at any exchange.
* `progress`: as above, without noise; velocity limits and accelerations such
  that a move has all phases, and writes that arrive in the middle of it.

Deadlock checking is off where a part really stops: at the end of a chain, of a
stream, of a bench program, or when the bound on calls is reached.
`config_store` checks it.

### What the violated runs show

1. `DirtyCoversCalib`: writes to CALIB never set the dirty bit although SAVE
   persists CALIB (`dispatch.rs:199`; protocol section 9.4).
2. `RuleValid`: a held write is validated against the table of the moment it is
   staged. HOLD of `min`, WRITE of `max`, COMMIT leaves a table that breaks the
   rule, and after SAVE so does the image a boot loads (`dispatch.rs:397`; comment at `persist.rs:269`).
3. `IdSettled`: a deferred id survives an ASSIGN and overrides it when the
   ASSIGN's acknowledgement drains (`reply.rs:99`; section 9.2).
4. `RescueHolds`: a deferred baud change survives a rescue pulse and takes the
   servo off the rescue rate with its first reply (`servo_bus.rs:390`; section 9.1).
5. `NothingSkipped` with a corrupted status: a status frame's length is trusted
   without a CRC check, so one corrupted byte costs the frame behind it as well
   (`route.rs:112`; comment at `framer.rs:252`, section 3.2).

### Met while modelling, without a run

Where the code and a comment part in a way that the properties above leave room
for. Each was seen in a trace or a reading; none is claimed as checked.

* The bus master's pacing latch compares wrapping ticks, so after half a wrap of
  idle time it may pace once more (`engine/mod.rs:267`). After a dead slot the
  client's slot numbers are positions in the list of answers (`client.rs:53`), and a longer run of
  dead slots than the window covers lets the servo behind them be talked over
  (protocol section 8, `osc-native-protocol.md:624`): `EngineSound` is claimed for
  dead runs within `TimingAssumption`, one slot in the run.
* A boot record may be answered busy (`record.rs` says never refused). The
  record queue overflows if a client pipelines more than its headroom
  (`run.rs:68`); CLEAR_FEATURE resets only the mirrored toggle (`usb.rs:372`), and SET_INTERFACE, after
  which a host counts from DATA0 on both pipes, resets none (`usb.rs:371`):
  `PipeExact` is claimed for a host that has used neither.
* Records without a sequence number are matched by kind, so a late one answers
  the next call (`client.rs:381`): `ClientSound` is about sequenced ones. A
  reopened device starts again at sequence number 0. A CAL train longer than the
  client's 2 s guard stalls the call (`client.rs:62`).
* A DMA write that lands during the copy of its capture entry tears it:
  `EdgeTimeline` has it as `Racing`, off in the run.
* The reply's snapshot is not atomic with the main loop's writes
  (`tx.rs:215`); a backlog of requests takes the CRC unit from a reply, which
  then leaves with a wrong CRC (never with a false right one: `TxSound`).
* OVER_TEMP re-latches at the next slow pass if acknowledged while hot
  (`faults.rs:3`). With an acceleration below one step a tick squared the
  profile need not arrive (`trajectory.rs:24`); accelerations in the run are
  above it.
* One trim step's measured effect is taken from a window that may span a
  temperature change (`trim.rs:11`).
* `osc cal` drives the motor in loops of its own to measure its speed, to return
  to the middle and to reach a target. When a transaction of such a loop is lost, `?`
  returns without `park` and the motor is still driven when the tool ends
  (`cal/mod.rs:691`, 703, 733, 764, 776); only the seek and the sweep, which the
  pump runs, are parked on an error. `DrivenEnd` says that this is the
  only way, beside the loss of both of park's writes.
* An identification window is accepted after three torn reads (`pump.rs:42`);
  `cal` interrupted in a sweep leaves the TEL stream on, and its snapshot lacks
  fields it writes. A corrupt telemetry frame with a good sync and sequence
  passes silently; a gap of a whole sequence range is invisible.
* FACTORY erases the newer slot first: a power cut then brings the older image
  back instead of the defaults (`config_store.rs:181`). If the newer erase
  succeeds and the older fails, `next_slot` names the only image left
  until a SAVE or a reboot (`config_store.rs:180`); `AdjacentSeqs` has
  the exception. Noise on a bus without servos reads as a collision, and
  `find_bus_baud` takes it for a fleet (`mgmt.rs:208`). `set_baud` that fails
  midway leaves the fleet on two rates (`mgmt.rs:306`), which its error says.

## 4. Fairness

`replies`, `ReplyChain`: weak fairness of the whole next-state relation -- time
goes on while a deadline, a transmission or an undelivered wake is outstanding,
because the hardware timer and the wire do not stop. Timing itself is safety:
`Tick` is disabled while an interrupt has waited `Latency` ticks.

`replies`, `Framer`: weak fairness of `Arrive` (bytes that were sent arrive), of
the resolver (every byte sequence is followed by a break wake or an armed
deadline) and of `GiveUp` (the starve horizon is always armed while a frame is
incomplete, `Framer::wait`).

`servo_side`: the DMA engines, the wire and the transmit interrupt proceed, and
the CAL watchdog's deadline fires.

`progress`: the adapter's main loop calls `poll` and `pump` again and again and
its interrupts are served. `pump`, the interrupts, the servos and time disable
one another for moments, hence strong fairness of each: an interrupt that is
enabled infinitely often is served. A client's receive and its stall timer run.
The control tick recurs (`[]<><<TRUE>>_k`: it is a hardware timer and each tick
changes the kernel's counters), whatever the host writes between ticks.

The other parts claim safety only.

## 5. The proofs

Each of the modules below proves its results for every value of the constants
that meets the named assumptions, which TLC evaluates on the instances of the
runs. A proof has the same shape everywhere: an invariant `IInv` that implies
the property, checked with TLC before it was proved; a lemma per action (in
`Motion_proofs` per stage of the tick) that says what the action leaves
behind; a step lemma; and a temporal theorem that combines the two.

**`ConfigStore_proofs`**, for every set of bodies, whatever pages they share,
every sequence modulus of at least 4 and any number of failures: `TypeCorrect`,
`SaveIsPowerSafe` (`NoLostSave`), `SeqsStayAdjacent` (`AdjacentSeqs`),
`DirtyBitHonest` (`DirtyHonest`). The strengthening says for each image where
the newest one is: outside a running operation the slot about to be written is
never the one a boot would pick, and the sequence number in hand follows the
picked one. While an operation runs, its program counter says how far the slot
being rewritten has got. A page operation touches only the slot in hand, so the
pick of a boot stays or moves to the image just written, and both are in
`mayLoad`. During FACTORY, and after one that failed, only the adjacency of the
numbers is claimed; otherwise an idle store's next slot is empty or holds the
older of two images (`SparedInv`, the second half of `AdjacentSeqs`).

**`Dispatcher_proofs`**, for every register map, set of writes, rule set and
staging capacity: `TypeCorrect`, `StagingTiled` (`BufferTiled`), `DirtyIsHonest`
(`DirtyTracksSave`) and `DispatchRefinesSession` (`ImplementsSession`: the
session implements `RegisterSession`). A truncation to the watermark is right
only if the pending write is the last entry and begins there; a commit does what
the abstract session does only if the verdict the write was staged with is still
the one it would get while the bus holds the frame. `IInv` says both. Writes are finite
(`WritesAssumption`), the map is well-formed (`RegsAssumption`).

**`ServoBus_proofs`**, for every register map, id and baud register and chain
length: `TypeCorrect`, `ChainHasReply` (`NoGhostTrigger`), `ReplyHasOwner`
(`NoOrphanReply`), `StreamsCurrent` (`ReplyIsCurrent`), `GarbledTouchesNothing`
(the action property `EffectsAwaitVerdict`) and `BusRefinesSession`: the bus and
the dispatcher composed take only steps of the abstract register session. The
session's invariant carries over because every step of the bus is a step of the
session or leaves it alone; on the bus's side `IInv` adds that a chain is armed
only over a verified reply, and that an unverified frame and an armed chain, or
a streaming reply, exclude each other.

**`Replies_proofs`**, the chain: for every number of servos, every mix of live,
dead and wedged ones, and every choice of times that meets the assumptions:
`TypeCorrect`, `NoCollision` (`OneTalker`), `FlagTrue` (`FlagIsTrue`), `InOrder`
(`ListOrder`). That nobody else starts follows from where every deadline lies,
so `IInv` puts the whole list into a round: the slot whose turn it is, the tick
from which its servo may trigger, and the skew by which it may be late. Every
servo behind it waits for that slot with a window that ends a reclaim later, or
has still to serve the event that tells it so. The end of a status is timed
from the wake that resolves it, so a slot starts late by that wake's latency and
by its own deadline's. Each reclaimed slot adds one latency to the skew, and that is where the assumptions come from:
`LeadAssumption` (a reclaim window covers a break and that skew),
`FrameAssumption` (the allowance covers a frame) and `SkewAssumption`, `(N - 1)
* Latency < BreakLen`. The last came out of the proof and is necessary: with
four servos, a latency of 1 and a break of 2 ticks TLC finds a list answered out
of order. In the code's terms, a break outlasts the interrupt latencies that a
run of dead servos adds up: for long lists, a bound on `Latency`.

The resolver: `FramerTrue` (`FramerSound`), for every ring length that is a power
of two (`RingAssumption`), every set of instructions shorter than the ring
(`FramesAssumption`) and every garble ahead of them. `StreamAssumption` says what
the theorem does not cover: a CRC collision, and a corrupted status whose length
reaches into a frame, which is the violation `framer_status` shows. The strengthening
`Laid` says how frames lie in the session: where one begins no other lies inside.
The rest is the ring: what lies between anchor and cursor, counted around the
seam, is what has arrived and has not been passed, in its order (`RingTruth`); so at
the beginning of a frame the candidate is plausible, never a status, whole before
the silence behind it, and passes its CRC (`AtFrame`): neither hunt, rejection nor
giving up can sacrifice it.

**`ClockTrim_proofs`**, for every chip, train length, window size and trim
limit: `ClockDisciplined`, types and `ClockSound`: a
deadline is armed whenever a train keeps the resolver suspended
(`WatchdogCovers`), and no measurement mixes two trims (`OneClock`). The strengthening: the trims seen since the last
correction are at most the present one, unless a train began before the last
verdict was polled, and any other train runs with no verdict waiting.

**`Motion_proofs`**, the kernel: for every decimation, limit, persistence and set of inputs:
`SafeKernel` (`KernelSafe`) and `StepsKernel` (the action property
`KernelSteps`). A tick is a chain of stages, so there is a lemma per stage that
says which fields it touches and how. `IInv` adds: the code names a latched
fault; the run edge follows torque and the faults; a parked servo's reference is
zero and an idle one's regulators are cleared; a stall pending while running is
latched; the command is `Disabled` exactly if the last tick did not run or a
fault is latched; without a fault the reference lies within the band; an
undervolt has come back no more often than the supply estimate has risen.

The bench tools, each for every program or command line and any number of lost
transactions. `RigExitsSafe` (`SafeExit`): `with_guard` runs six writes of which
any may be lost, so `RigInv` follows its cursor. As long as none was missed, the
registers behind the cursor are zero; behind the torque write, and wherever the
tool is at rest, one miss still leaves torque off or every goal zero. `CalibrationSafe`
(`CalSafe`: `DrivenEnd`, `SaveIsWhole`): `osc cal` has no guard of that kind, and
its drive loops leave by `?` with the motor on. `CalInv` therefore says where the motor may
be driven: inside the loops and the pumped phases, behind a park only if
that lost both of its writes. So a tool that ends driven ends there, in the step that
loses a transaction. For the save it says
that what is left to write is the tail of what was planned, that the entries ahead
of it are in the table, and that no register is planned twice, so that no
write undoes an earlier one. `SavesUnmixed` (`SavedUnmixed`): the fields behind
the cursor hold the fit, and a rollback never saves, so SAVE is reached only with
all of them; a field list is not empty (`GainAssumption`).

**`LinkServer_proofs`**, for every set of records, chunking and engine the
constants describe: `ServerSound` (`AdapterSafe`, and `OneOwner` without its
exception) and `ContractKept` (`KeepsContract`: the server implements
`LinkContract`). That a closing record carries the right number rests on who owns
the engine: the number in `active` while a command runs or its terminal waits,
the one in `wire_active` while an instrument operation does, neither while it is
idle; the numbers in the pipe are open, each once, and no owner is among them.

The second half is about the engine: `EngineDisciplined` (`EngineSound` of the
bus master alone) and `ServerDisciplined` (`EngineSound` of the composition: every
step of the server is a step of the engine or leaves it alone, given that what a
record carries is what the engine takes, `ServerAssumption`). Nothing but time
tells the master that a servo is dead, so its invariant `BusInv` is about
distances. `Grid` and `Paced`: a deadline is where it should be, in this lap of the
counter or the next, and the silence that has passed plus the one that is left
make a horizon. `Waits`: as long as a slot owes an answer and nothing new was
heard, what is left of the window plus the silence so far, plus one reclaim per
dead slot already skipped, is the whole window (`Covered`), and the slots still
ahead hold no dead run longer than what remains of `MaxDeadRun`. `Slots`: the
statuses in the ring belong to slots in list order, none delivered before, none
of a slot that still owes; so the count of the plan closes the window only when
nobody is left to speak. `Heard`: what was heard in a window is delivered, counted
as junk or still in the ring. The assumption is `TimingAssumption`: every span the
engine arms lies within reach of the half-range compare (`tick_reached`),
interrupts and polls are late by less than the other half, and a window outlives
`MaxDeadRun` reclaims and the next servo's lead. All of it is about the board and the
fleet's configuration; the code checks none of it. The last clause is needed: a
window one margin shorter (`window_for_sans_margin`) talks over a late servo.

**`Adapter_proofs`**, the bulk pair: for every packet and queue size and any number of packets,
lost acknowledgements, resets and reconfigurations: `OutOnce` (the OUT half of
`PipeExact`) and `PipeDelivers` (`PipeExact`, as long as `WithinHeadroom`: the
results waiting for the queue fit the headroom the loop reserves, which is what
`PUMP_HEADROOM` is sized for; see the note on pipelining clients in section 3).
For OUT the strengthening says where the last packet taken is (behind the
endpoint's flag, in `dev.rx`, or served) and ties it to the two toggles; for IN
the records made are split by the queue, the armed packet and what the host has
read. Both hold while the two sides agree that the endpoint is configured, so a
third part says what SET_CONFIGURATION has reset.

The walker: `WalkerTrue` (`WalkerSound`), for every power-of-two ring
(`WalkAssumption`), every set of well-formed frames that fit it, every garble, and a
resync at any moment. `SessionAssumption` is a perfect CRC; a status may have any
length, because the host strides over nothing it has not checked. Beyond the
ring's arithmetic it needs that the two slices of a view, glued together, are the
stream's bytes (`SpanIs`, `ViewIs`, `CrcIs`), and that no frame begins between a dead
candidate and the first 0x00 behind it (`StrideIs`).

### Only model-checked

* Liveness under fairness, out of the prover's reach: `EveryoneReplies`,
  `EveryFrameFound`, `RequestsEnd`, `KernelLive`, the wire and the watchdog in
  `ServoSettles`, the arrival part of `ProfileSound`.
* What a computation over data returns, which would need induction over
  sequences or bytes: `TableExact`, `CodecAgrees`, `TxSound`, `StreamTrue`,
  `RosterTrue`, the convergence in `ServoSettles`.
* Not attempted yet: `ClientSound`, `EdgesTrue`, `RigSafe` (that
  only settled windows are kept, and the runner's action properties).

## 6. Plan

Done: the modules of section 2 and the theorems of section 5. Next, in order of
what they would add to the bounded runs:

1. `RigSafe`: a kept window is younger than the last goal change, the mode changes
   only with torque off, and torque stays off after a trip.
2. A sharper `WithinHeadroom`: derive it from the link server's admission of one
   operation at a time, for a client that does not pipeline.

## 7. Not modelled

* Identification fits, the LUT and ripple analysis (`ident/src/{lut,gains,...}`):
  floating-point numerics without state; correctness is accuracy.
* The estimator's filters and the regulators' gains: likewise.
* The CRC's tables, enum conversions, formatting, files and command-line
  printing.
* Register access of both HALs, board pins, start-up code, the boot loader, the
  status LED, the rescue sampler's line counter (its verdict is an event of
  `ServoBus` and `ClockTrim`).
* The discrete-event simulator and the tests, which exercise the code but are
  not it; hardware and mechanical designs.
* Part of the framer: wire-end projections, which only hint when to look again.
* `HostEngine` does not run on `HostFramer`'s ring: statuses, garble and silence
  arrive at the engine as the walker reports them, and a status behind a cut-off
  part of one is reported at once, where the walker first waits for the rest of
  the part (`engine/framer.rs:101`).
