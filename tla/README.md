# Verification of the Henry IP22 SoC

Henry is a synthesizable SGI Indy (IP22) system-on-chip: a MIPS core (r9999, a
submodule) surrounded by the devices IRIX and Linux expect, with the disks, the
network and the graphics board served by software on an ARM (on the board) or by
`sim/henry_tb.cpp` (in simulation). This directory holds TLA+ models of its own
logic, the TLC configurations that check them on small instances, and TLAPS
proofs of what matters most for every instance.

`PROJECT.json` is the machine-readable index: components, runs, the map from
each definition to the lines it models, one mutant per property, hazards,
findings and theorems.

## 1. Inventory

| Component | State | Operations | Hard because |
|---|---|---|---|
| `mem_arbiter` (two DRAM lanes in `henry_soc`) | IDLE/BUSY/TURN, owner, slot pointer | weighted round robin over slots, request mux, response routing | the AXI side takes a request only after valid dropped; owner is combinational in IDLE and latched later; fairness |
| `dma_snoop_shim` | 7 states, sub-line counter, latched load data | WBINV snoop of every line before a DMA access, and again after a store | the core refills lines at any time, dirty copies may overwrite DMA data |
| `dma_engine`, ENET TX channel | 11 states, descriptor, gather hold register, slot and completion indices | walk the guest's chain, gather frames into staging slots, write back ETXD, publish entries | the guest appends to a running chain; slots are bounded; indices wrap |
| `dma_engine`, SCSI channel | 11 states, beat hold register, staged-beat count, completion ring | scatter staged data (READ), gather guest data (WRITE), post done/starved/aborted | doorbells before or after go, cancel races, partial beats, ring full |
| `dma_engine`, ENET RX channel | RX ring position, filled-buffer state | deliver one frame, or drop it | guest re-arms the ring during delivery |
| `dma_engine`, VDMA channel | address, line/zoom counters, DMA TLB lookups | memory to GIO window records | back-pressure from the window |
| `dma_engine`, memory port and byte mover | owner of the port, rotator | round robin of four channels | a waiting channel must not hold the port |
| `enet_shim` | HPC3/Seeq registers, request and done sequences, IRQ latches | register access, TX doorbell, TX completion, RX injection, CLRIRQ | same-cycle ties; NBDP and CRBDP bound the drivers' reclaim walk |
| `scsi_shim` | WD33C93 registers, sequences, phase machine | register access, Select-And-Transfer, reset, completion, DMA go/abort | INTRQ must follow the data; starvation must not hang the driver |
| `henry_soc` glue | kick edge detect, echo, device FSM, external flush, console FIFO, master-2 mux | decode, device responses, flush handshake | many small handshakes on one clock |
| servicers (`henry_tb.cpp`, ARM) | command in progress, ring indices | decode commands, stage data, take entries, answer | asynchronous to the RTL; only doorbells and rings between them |
| `gio_window` | capture ring, pending CPU load, answer sequence | capture stores, answer loads, VDMA records | a full ring holds the CPU |
| `mc`, `int3`, `ioc`, `hpc3` | registers, fill engine, timers, SCC FIFOs, RTC | register access, fill, interrupt aggregation | ties between sets and clears; live registers during a fill |
| retire traces (`ctrace.hh`, `ctrace_dump.cc`, `inst_record.hh`, `henry_tb`) | pending columns, file and sidecar; ring, trigger, window and archive | record a cycle's retirements, stores and interrupts, flush a chunk, close; read back | chunk boundaries between a record and its interrupt, dual retire, a killed run |
| TCP monitor (`henry_tb`) | client, mode, paused, step target, line | poll, parse, halt, go, step; freeze of the main loop | a client leaves or resets while it holds the simulation; a step outlived by another order |
| `mipsmon` | scrollback, partial line, history, edited line, scroll | output, keys, signals, redraw | the redraw wraps a tail only; history, edits and signals interleave |
| lockstep checker (`henry_tb`) | golden ISS, pending delay slot, two store queues, pending TLB writes, GPR candidate | step per retirement, compare, resync, drain, replay | two machines of different granularity; late stores, interrupts and device data |
| main loop and checkpoint (`henry_tb`) | two lane latches, watchdog, servicer statics; the saved files | one cycle, save, restore | what dies with the process; a request in flight at the save |
| AXI master and slave (`ip_hdl`) | two lanes, register file | bus protocol | lane handshake |

How they interact: the CPU's device accesses reach the shims as one-cycle
register writes; a shim tells the engine by a pulse and a sequence number; the
engine reaches memory through `dma_snoop_shim` and lane 1 of the arbiter; the
engine and the ARM share a staging window of DRAM with producer/consumer
indices; the ARM's doorbells are plain registers (a value, then the sequence
that makes it valid); an answer echoes the sequence, and the shim raises the
interrupt.

Properties that make each component correct:

- arbiter: the answer goes to the asker, no request is swallowed, nobody starves;
- snoop shim: CPU and device see one memory;
- ENET TX: every queued packet reaches the wire once, whole, in order, and is
  reclaimed; published slots stay intact; the driver's reclaim walk ends;
- SCSI: a successful status means the data moved, the channel is quiet after the
  answer, and every command is answered;
- traces: what the reader reports is what retired, also after a kill;
- monitor: only a present client holds the simulation, a step stops it after the
  cycles it counts and no later;
  its client shows the true tail and never loses the edited line;
- checker: silent on a correct core up to what it cannot know, in lockstep with it,
  and pointing at the first
  wrong store or the clobbered register of an incorrect one;
- main loop: memory and disk are what the SoC was told, across a save and its
  restores; every request is answered; no wedge is reported that is none;
- ENET RX: a delivered frame is in buffers the guest gave, a dropped one leaves
  the ring; the position survives a re-arm;
- GIO window and VDMA: records arrive in order, no deadlock between CPU, VDMA
  and ARM; MC: a fill writes exactly its lines, errors and interrupts latch.

The hazards, each at its line with the properties that would catch it, are in
`PROJECT.json`.

## 2. Modules

| Module | Models |
|---|---|
| `MemArbiter` | `rtl/mem_arbiter.sv`, with its masters and its lane |
| `MemArbiterProofs` | theorems about it |
| `CoherentMemory` | abstract specification: one memory, CPU and device accesses atomic |
| `DmaSnoop` | `rtl/dma_snoop_shim.sv` between the engine, the core's L2 and DRAM |
| `DmaSnoopProofs` | theorems about it, with the refinement of `CoherentMemory` |
| `EnetTx` | ENET TX channel, TX half of `enet_shim`, kick/echo glue of `henry_soc`, a guest driver and the ARM consumer |
| `EnetTxProofs` | theorems about it: types, the bytes on the wire, the staging ring, what the driver takes back |
| `Scsi` | SCSI channel, `scsi_shim`, the servicer of `henry_tb.cpp` and a guest driver |
| `ScsiProofs` | the control of a command (types, handshakes, quiet after the answer) and its data (READs land, WRITEs are on the disk) |
| `Traces` | `ctrace_writer`, the boost retire trace and the reader `ctrace_dump` |
| `TracesProofs` | theorems about both traces and the reader |
| `Monitor` | the TCP monitor of `henry_tb.cpp` with any TCP peer |
| `MonitorProofs` | theorems about it |
| `Mipsmon` | `mipsmon.cc`, its curses client |
| `MipsmonProofs` | theorems about its history, its limits and its drawing |
| `Lockstep` | the co-simulation checker of `henry_tb.cpp` with a core and an ISS |
| `TbLoop` | the main loop of `henry_tb.cpp`: DRAM lanes, SCSI servicer, watchdog, checkpoint |
| `TbLoopProofs` | theorems about it |
| `MC*` | the instances TLC checks |

### Conventions

*Clock.* In `MemArbiter`, `EnetTx` and `Scsi` the action `Clock` is one cycle: a
conjunction of one step per `always_ff` block, each computing next values from
the present ones, so that ties within a cycle and registered pulses behave as in
the RTL. A CPU store or load is part of the cycle in which it takes place
(parameter `m`). `DmaSnoop` has one action per state-machine transition instead,
as every one of its transitions waits for an event of its own. One exception in
`EnetTx` and `Scsi`: a guest read of a register that has no side effect
(`GuestCheck`, `GuestStatus`, `GuestBound`) is a step between two cycles.

*Memory.* The engine's access is performed at DRAM by `Mem` some cycles before
the response pulse, so the guest and the ARM may see a store before the channel
does, and the guest may change memory between the read and the response.

*Data.* A beat has `Lanes` bytes (16 in the RTL, 2 in the instances) and bytes
are distinct values, so a lost, repeated or misplaced byte shows. The byte
rotator is a sequence concatenation. Addresses are descriptor numbers.

*External parts* (not in this repository, modelled from how the RTL uses them):
the core and its L2 (retirement, refills, evictions, snoop port), the ISS, the guest
drivers, DRAM behind the AXI bus.

### MemArbiter

State: `r_arb_state`, `r_owner`, `r_slot`, plus each master's request, the
lane's handshake and a history counter `passed`. The lane is the request engine of
the AXI master (`axi_lane`: IDLE, working, WAIT); the AXI channels behind it are a
nondeterministic delay. `Found(k)` is the grant scan,
`CurOwner` the combinational owner of the request mux, `Rsp` the routing. The
lane accepts a request in the granting cycle or later, answers once, and is
ready again only after it has seen `mem_req_valid` low.

### CoherentMemory and DmaSnoop

`CoherentMemory` has one memory, lines owned by the CPU or handed to the device,
and atomic accesses. `DmaSnoop` maps it to `Mem`: the dirty cached copy if there
is one, else DRAM. The core refills any cacheable line at any moment (wrong-path
loads too), reads DRAM when the refill starts and installs later; it accepts a
snoop only when no refill is in flight. The ownership rule is the one of an OS
that treats DMA as non-coherent: the CPU does not store to a line it has handed
over. Without the POST snoop, or with the snoop accepted during a refill, the
refinement fails (two of the mutants).

### EnetTx

The guest queues packets on a circular ring, sets EOX on the last descriptor,
clears it on the old tail, reads ACTIVE and kicks only when it is clear, and
reclaims by one of the two rules drivers use: by ETXD of the head (Linux), or up
to CRBDP while ACTIVE and NBDP afterwards (IRIX). It reclaims and overwrites
buffers as soon as it may. The channel's eleven states are one action each.

Left out: a DP of 0 as the end of a chain (the ring is circular in both drivers),
the XIE per-descriptor interrupt, the debug trace. The length of a frame is a
number without a width: the RTL has 16 bits for it, and a frame is cut to 2 KB in its
slot whatever the length says.

### Scsi

A command goes through Select-And-Transfer, the select delay, DMA go, the chain
walk, the completion entry, the servicer's answer and INTRQ. Data commands may
be served in several chunks (pause, new chain, resume). The servicer's writes of
a value and of the sequence that validates it are separate steps. Transfers too
large for the staging buffer are covered by `wptr = NBeats`.

Left out: indirect register storage, the transfer counter and residual count,
the HPC3 XIE interrupt, debug counters, the chain-head word of an entry.
Assumptions on the guest: it programs the channel before the command, uses
chains whose WRITE chunks end on sector boundaries (`Fits`; `henry_tb.cpp`
divides by 512), resets the chip only while no data phase runs, and gives READ
chains that are longer than the data aligned buffers.

### Traces

`hist` is what retired; `ct` is the writer with its pending columns and its file
as a sequence of items (magic, chunk header, column headers, column bodies,
trailer); `rt` is the retire trace. `Cycle(b, st, irq)` is one cycle of the main
loop's recording code: the stores logged during the evaluation, the records of
both slots, the interrupt mark, then the retire-trace block. `Kill` comes while the
run goes on or while `close()` writes its last chunk and the trailer, and keeps a
prefix of the file and, independently, of the sidecar, as buffered writes do.
The `rd_*` actions are the reader's loop, one chunk per step, with every exit
code. The four columns stand for the eleven of the file: the ones of a group are
always written together. Compression is the identity on column data, which is
all the reader relies on; a column that fails to compress is dropped by the writer
(`ctrace.hh:113`) and one that fails to decompress ends the reader
(`ctrace_dump.cc:75`): both are left out. `--head` and `--addr` only print. The
fields a record of the archive stores (`inst_record.hh`) are one value.

The sparse streams are stated exactly (`SparseExact`): of the stores and the
interrupts the reader has those logged before the last record it has read, and all of
them when the last chunk it has read is short, which only `close()` writes.

### Monitor

The main loop has three places: `top` (poll due?), `poll` (accept, read, or
handle the next byte), `gate` (frozen, or one cycle). `PollByte` handles one
byte of the read, with the whole command dispatch behind a carriage return.
Commands that only print are one action. `mon_send` counts the writes of a
handler, because the second one after the peer's reset raises SIGPIPE, which
ends the process (`alive`); the properties hold with it. `Tick` retires none, one or
two instructions, of which the main loop counts that of slot 0. `asked` is a ghost: the
last order of the client, and the instructions that have run since it asked for a step.

### Mipsmon

`Turn` is one pass of the main loop: a pending SIGINT, a key or none, what the
server sent or its end, and the redraw, which clamps the scroll. A character is
a value; `wrap`, `Window` and `draw` are the redraw's arithmetic on rows. A
session fixes the keys and output bytes that are tried together.

### Lockstep

`rtl` is the core's architectural state, `chk` the checker with its ISS. `Cycle`
retires up to two instructions and lets some stores reach the cache; the
checker's part (`check_cycle`) is the block at `henry_tb.cpp:2671-2727`: slot 0,
the store queues, slot 1, the TLB replay. What the checker prints in a cycle is in
`alarms` (with the pc) and `clobbers`. The program is a constant with branches, delay
slots, loads from devices and through the TLB, stores, TLB writes, coprocessor reads
and two exception handlers. A coprocessor read stands for everything `chk_suppress`
excuses by its pc or opcode: CP0 to CP2, HI and LO, the PIT, the cycle counter.
`Scratch` is k0 and k1. `known` is what `g_gc_prf_known` tells of a register
(`GPRCHK` of a build without the log, INERT, is the case that none is known), and
`ReportMax` the 40 reports of `gpr_full_check`. The core may carry one
fault, a wrong store or a clobbered register; the properties about a correct
core are stated for the mode in which the ISS runs mapped code (`NOMAPSKIP`),
the other mode is in the model for its control only (see Observations). A TLB write
retires beside any instruction but a load through the TLB that follows it, which the
CP0 hazards of the architecture keep apart (`Together`): the replay comes after slot 1.
Left out: the gate that delays the checker to the end of a preamble, the mirror of
DRAM writes into the ISS memory, the CP0 mirrors, the fault injection `GPRCHK_POISON`,
and the return of `checker_step` when the ISS has run a `break` (1352), after which
nothing is checked: the programs of the model execute none.

### TbLoop

`core` is what Verilator saves, `tb` what dies with the process. `Cycle` follows
the order of the loop: posedge, watchdog, doorbell, completion poll, arming of a
save, lane 0, lane 1. `Save` ends the process at the top of the next cycle;
`Restore` is a new process: the disk rewound, model and memory read back, all
statics fresh. It may come after a normal end or a kill, several times. The SoC
is modelled by what the loop relies on: a request is held until it is answered and
then drops for a cycle (`mem_arbiter`), a SCSI command moves one block per chain, and
the core passes at most `slack` cycles between two retirements in which lane 0 owes it
nothing. In those it may raise further requests: an eviction and the refill behind it,
without a retirement between them. With `slack` 0 it stalls on each request and retires
otherwise. `view` and `gdisk` are ghosts: what the SoC has been told.

`DiskFollows` says when the disk image still is what the guest was told:
always, unless the process was restored from a checkpoint whose last command moved
data (`Undisturbed`).

## 3. Runs

| Run | Specification | Checks | States |
|---|---|---|---|
| `arb` | `MemArbiter` | `TypeOK AnswerToOwner BoundedBypass Served` | 4 thousand |
| `snoop` | `DmaSnoop` | `TypeOK ShimContract Coherent` | 0.9 million |
| `enet_tx` | `EnetTx` | `TypeOK WireFaithful StagedIntact ReclaimSafe AllSent AllReaped` | 0.35 million |
| `enet_tx_cap` | `EnetTx` | `CrbdpOutsidePackets`, violated | |
| `scsi` | `Scsi` | `TypeOK ReadLanded WriteOnDisk QuietAfterAnswer Answered` | 0.3 million |
| `scsi_ringfull` | `Scsi` | `Answered`, violated | |
| `traces` | `Traces` | `TypeOK RoundTrip KilledPrefix CrashLeadUp` | 2.5 million |
| `monitor` | `Monitor` | `TypeOK HeldByClient StepExact NoSpuriousHalt Released` | 0.85 million |
| `mipsmon` | `Mipsmon` | `TypeOK DrawFaithful StashReturned` | 0.13 million |
| `lockstep` | `Lockstep` | `TypeOK NoFalseAlarm Locked RootStore ClobberReported` | 0.18 million |
| `tbloop` | `TbLoop` | `TypeOK MemFaithful DiskFollows NoFalseWedge Answered` | 0.33 million |
| `ckpt_scsi` | `TbLoop` | `DiskMatches`, violated | |

What they show, in words. `traces`: a closed trace reads back record by
record, with the stores and interrupts its chunks can hold, every interrupt at the
record that follows it; a killed one gives its whole chunks; the archive of a stop is
the gapless lead-up to it. `monitor`: see the theorems, and a client that leaves always
frees the loop. `mipsmon`: the window computed from the tail equals the one computed from
the whole scrollback. `lockstep`: of a correct core only device loads and coprocessor
reads of mapped code are reported, and under `GPRCHK` with two retirements a cycle the
register slot 0 wrote; the ISS is equal to the core after every cycle, the first wrong
store is reported as itself, a clobber within a sampling interval and one step unless
such reports have used up the cap. `tbloop`: no DRAM write lost, repeated
or early, across restores too.

Bounds, and why they are enough to reach the interesting cases:

- `arb`: three masters on five slots, one of them weighted, so that a scan
  wraps, skips and meets the same master twice. The state space is finite
  without a bound; `passed` is bounded by the property itself.
- `snoop`: two cacheable lines accessed singly and as one wide access (`NSub` =
  2 sub-lines instead of 4), one staging line, two bytes per line with a mask
  that leaves one alone. No bound on the length of behaviours.
- `enet_tx`: `NDesc` 3 and `MaxPkt` 4: the ring wraps and descriptors are
  reused; `NSlot` 2: the slot ring fills; `CntMod` 4: the free-running indices
  wrap (2^32 in the RTL); `SlotBeats` 2 with packets of three, five and six
  bytes: a slot is left partly empty, and a frame is cut in its last partial beat
  or in a whole one; buffers at odd offsets, an empty buffer. `NdescMax` (255) is
  out of reach in `enet_tx` and 4 in `enet_tx_cap`, which has a ring of five.
- `scsi`: `MaxSel` 3: a command, its resume, and another; chains of two and
  three buffers, some at odd offsets; totals of five and six bytes with beats of
  two; `NCq` 2: the completion ring wraps. `NCq` is 1 in `scsi_ringfull` (64 in
  the RTL).
- `traces`: `ChunkRecs` 2 and `MaxRecs` 4: two full chunks, or one and a partial
  one; `MaxSparse` 2 stores and interrupts, anywhere; three settings of the retire
  trace that use every option; a kill at every item of the file and record of the
  sidecar.
- `monitor`: `MaxBytes` 4 over eight characters: every sequence of orders up to
  `s`, `2`, return with one byte to spare, or two one-letter orders; `LineMax` 2: the line
  overflows; `PollEvery` 2 cycles; two connections; three retirements.
- `mipsmon`: two rows of two columns, `MAX_SCROLLBACK` 8 lines (20000), history of
  2 (500), nine bytes of output; three sessions, as scrolling, the kinds of output
  and editing do not depend on each other.
- `lockstep`: six configurations over three programs that share the handlers. A loop
  that has each hazard once runs with two retirements a cycle and stores lagging by up to
  two, with one retirement under `GPRCHK=2`, with two under `GPRCHK=3`, and without
  `NOMAPSKIP`; mapped code with a
  device load and coprocessor reads runs with two retirements; a short loop runs with
  two retirements under `GPRCHK=2`. Three registers (one of them k0), two values, two TLB
  entries, a settle time of 2 (16), `ReportMax` 2 (40). State is finite without a step
  bound.
- `tbloop`: two DRAM lines, latencies 1 and 2, `MaxReq` 2 requests per lane, commands of
  zero, one and two blocks before, after and on both sides of the save, up to two
  restores. With `slack` 2 a core makes two requests without a retirement, the worst case
  being `Limit` = 10 cycles, so the watchdog has no slack.

Fairness. `MemArbiter`: the clock runs and the lane accepts and answers.
`EnetTx`: the clock runs, DRAM answers, the ARM polls, the CPU takes an enabled
interrupt and the driver finishes what it has started; nothing obliges the guest
to queue a packet. `Scsi`: the clock runs, DRAM answers, the select delay ends
and the servicer polls; the guest owes nothing. `Monitor`: the main loop goes on
(`WF` of `Server`), the peer owes nothing. `TbLoop`: the loop goes on (`WF` of
`Cycle` or `Save`); a restore is the user's choice. In the RTL modules the clock is fair only in cycles
in which the guest does nothing, so no property relies on guest traffic.
Deadlock checking is on unless a cfg's bounded guest really may stop; RTL clocks
never stop, so no cfg turns it off.

Not covered by `scsi`: a run of at least `NCq + 2` commands in a row that leave
entries the servicer does not take (`MaxSel` is below that): it is exactly the
case of `scsi_ringfull`. `tbloop` has data commands before the save, and restores of
it; what they do to the disk is excluded by `Undisturbed` and the case of `ckpt_scsi`.

## 4. Findings and observations

Shown by a run:

1. `enet_tx_cap`: the descriptor limit of a chain (`dma_engine.sv:972`) can cut a
   packet in two when the guest keeps appending, and leaves CRBDP inside it,
   which the header comment of the file says must not happen.
2. `scsi_ringfull`: commands answered without data (selection timeouts) with the
   channel ACTIVE leave completion entries that the servicer takes only while it
   waits for data; after 64 of them the next command hangs in PH_BUSY.
3. `ckpt_scsi`: a restored process does not know which doorbell it has served
   (`g_last_scsi_req_seq` restarts at 0) and serves the last one again as a new
   command. For a WRITE of two chains the staged data of the last chain is written to
   the command's first block. The comment at `henry_tb.cpp:2967` says that nothing need
   be carried. A READ or a one-chain WRITE is not harmless either: a new command whose
   doorbell comes before the repeated one has been polled is taken for its RESUME (2870),
   so a new WRITE lands at the old LBA. `DiskFollows` therefore excludes every
   checkpoint whose last command moved data.

Stated exactly by a passing property, against what a comment says:

- `RoundTrip`: `close()` flushes only when a record is pending (`ctrace.hh:96`), so the
  stores and interrupts logged after the last full chunk are lost, although
  `ctrace.hh:48` says that the store columns log every committed store.
- `KilledPrefix`: a file cut inside the column headers of a chunk makes `ctrace_dump`
  exit with "short header" before it prints the chunks it has read
  (`ctrace_dump.cc:61`), although `ctrace.hh:13-15` says that a killed run leaves every
  completed chunk readable.
- `StepExact`: `retired` counts slot 0 only (`henry_tb.cpp:2289`), so `step N` runs N to
  2N instructions, although 2663 and the answer to the client (1750) speak of N.
- `NoFalseAlarm`: `is_device_load` and `chk_suppress` excuse nothing in mapped code
  (1259, 1157), so with `NOMAPSKIP` a correct core is reported at a mapped device load or
  coprocessor read. With two retirements a cycle the step of slot 1 confirms what slot 0
  wrote before the log of the cycle is seen, although 1173-1175 says that a boundary
  artifact clears.
- `ClobberReported`: such artifacts use up the 40 reports (1231), after which a real
  clobber is not reported.

Seen while modelling, not the subject of a run:

- *SCSI.* A READ chain longer than the data, at a buffer offset that is not a
  multiple of 16, starves with bytes in the hold register (`dma_engine.sv:761`):
  they are neither stored nor counted, and the command ends in a pause although
  the chain never reached EOX (`scsi_shim.sv:247-249`). A chip reset between two
  chunks is not reported to the servicer, whose next doorbell resumes the
  abandoned command (`henry_tb.cpp:2870`; `docs/arm-device-protocol.md:207-209`).
- *Traces.* Exceptions of a discarded partial chunk are still counted, so of a killed
  run the properties speak of records and stores only.
- *Monitor.* SIGPIPE is not ignored: a handler that writes twice to a peer that is
  gone can end the simulation. `step 0` before the first retirement leaves the
  target at 0, which means "no step", so the run does not pause.
- *mipsmon.* The header comment says new output stays put while scrolled
  (`mipsmon.cc:8-9`); the scroll counts rows from the live end, so the view moves.
  Enter makes two writes, so a server that is gone can end it by SIGPIPE without
  restoring the terminal.
- *Checker.* Without `NOMAPSKIP` the stores of mapped code are queued by the core
  (`henry_tb.cpp:201`) and never by the ISS, so a correct core is reported, and each
  return from mapped code resynchronises (the comment at 1367-1372 knows of the
  memory). Stores of a preamble are queued before the gate opens the checker.
- *Main loop.* A request that rises in the cycle that arms a save is accepted in
  that cycle, so a transaction is in flight at the save, contrary to the comment
  at 2976-2981. It does no harm: its effect comes with its answer, and the restored
  process takes the held request again (`MemFaithful`, `Answered`). The `else` of
  the watchdog (2325) belongs to the load-value block, so `TRACE_LOADVAL` turns the
  watchdog off until its reference is full.

## 5. Proofs

`MemArbiterProofs`, for every set of masters, number of slots and slot map that
names every master (`ArbConstants`):

- `TypeCorrect`: types, the wrapping scan stays inside the map;
- `AnswerCorrect`: `AnswerToOwner`. It is not inductive alone: `LaneInv` adds what the lane does in TURN ("low") and that the owner's request
  stays up while BUSY;
- `TurnWithinNSLOT`: `BoundedBypass`. The inductive form is `SlotAhead` (a slot
  of a waiting master lies `k` ahead with `passed + k < NSLOT`) with `Fresh`
  (a master that does not wait has not been passed); the arithmetic of the
  wrapping scan is in `SlotArith`, `ScanShift` and `ScanReaches`.

`DmaSnoopProofs`, for every set of lines, bytes, masks, access widths
(`SnoopConstants`):

- `TypeCorrect`;
- `SnoopContract`: `ShimContract` (`NoDirtyAfterPre` and `NoStaleCopy`), by `IInv`, which adds
  `ShimInv` (state, request and ownership agree), `CoreInv` (staging is never
  cached, no refill during a snoop) and `LoadInv` (what a device load read is
  still what memory holds);
- `DmaIsCoherent`: `Spec => CM!CMSpec`; a device store takes effect at
  `FwdDram`, a device load at `Rsp`, everything else of the shim is invisible.

`MonitorProofs`, for every alphabet, line length, poll interval and bound:

- `OnlyClientsHold`: `HeldByClient`. It is inductive only with `Handling` (the
  bytes of a read are handled while their sender is connected: a poll that reads
  the end of the stream has none left);
- `HaltsOnlyForStep` and `StepsExact`: the action properties `NoSpuriousHalt` and
  `StepExact`, from `Pending`: a pending target is the client's last order and
  still lies ahead, except that of `step 0`, which starts at its own end, and the
  instructions that have run since are between the cycles counted and twice as many.
- `MonitorTypes`: `TypeOK`, with the length of the line: the buffer of `mon_poll`
  always has room for its final NUL.

`MipsmonProofs`, for every alphabet, history, window and session. Its invariant `Kept`
has the types of the client and its output (`IsUi`, `IsOut`) and says that while the
history is being browsed the saved line is the one that was being edited:

- `LineKept`: the action property `StashReturned`; the lemmas show for each key what it
  may do to the saved line and the position in the history (`Browses`), and that output
  and redraw touch neither;
- `MipsmonTypes`: `TypeOK`. A read hands over any number of bytes, so the limit of the
  scrollback is followed through the fold over them (`Feeds`);
- `DrawsAll`: `DrawFaithful`. Every line wraps to at least one row, so the rows of the
  last `Rows + scroll + 4` lines are an end of the rows of all of them that is long
  enough for the window and for the clamp of the scroll; `Flat` relates the library's
  concatenation to the rows line by line.

`TbLoopProofs`, for every DRAM, latency, limit, disk and budget of restores
(`TbLoopAssumption`: the blocks of a disk are an interval, the halt address is not
DRAM):

- `TbLoopTypes` and `MemoryKept`: `TypeOK` and `MemFaithful`. The invariant
  `LoopInv` says of each lane that its latch holds the request the SoC still holds
  up or none (`LaneOk`; `MidOk` between the posedge and the lanes), that memory is
  the SoC's view with the answers it has not yet seen (`LoopOk`), and that a save
  is made in a cycle without an answer (`SnapOk`): that is why a request caught by
  it does no harm;
- `WatchdogSound`: `NoFalseWedge` if `Limit >= Most(slack) + 2 * LatMax` for every
  `slack`, where `Most(s)` is `s + (s div 2) * 2 * LatMax`: a store costs twice the drawn
  latency, and at most every second cycle of the core's own raises a request, the one
  before it having dropped. With the defaults 65536 and 16 every `slack` up to 3853 is
  safe. `IdleOk` bounds the cycles counted by what the core's own cycles since the last
  retirement account for, with what lane 0 still owes;
- `DiskFollowsGuest`: `DiskFollows`, for every budget of commands before and after the
  save. `ServOk` follows a command through its states (resting, decoded, waiting for a
  chain, served) and says how far the image has got in each; a process restored from a
  checkpoint whose last command moved no data answers that command's doorbell once more
  and is then in step again. The run `ckpt_scsi` shows that `Undisturbed` is needed.

Induction. The installed provers cannot instantiate an induction theorem whose
parameter is a property. They can when the property is a set: `NatSetInduction` says
that a set with 0 that is closed under successor holds all naturals, and is proved
from the well-foundedness of `<` (`LeastNat`). With it the recursive functions of
`Scsi` and `EnetTx` (the bytes before a descriptor, the bytes of a chain or packet)
have usable lemmas, and the least index a walk or a search stops at exists. The same
form serves the library's folds in `Mipsmon` and `Traces` (`FoldLeft`, `FlattenSeq`):
the function that folds over the first `n` elements is shown to exist and to agree with
the library's at `n`.

`EnetTxProofs`, for every number of descriptors and slots, size of beat and slot,
descriptor limit, index width and set of packets (`TxConstants`):

- `TxTypes`: `TypeOK`. `TxInv` adds what an access in flight has loaded (`LoadOk`: bytes
  of one line, no more than the buffer has left), which keeps the hold register below a
  beat (`GatherFacts`) and the store inside its slot (`StoreBeatFacts`), and the shapes
  of descriptors and packets; `FirstUnsentType` shows that the driver's walk for the
  first unsent descriptor ends;
- `TxWire`, `TxStaged`, `TxReclaim`: `WireFaithful`, `StagedIntact` and `ReclaimSafe` of
  every behaviour in which no chain reaches the descriptor cap (`NoCap`). The invariant
  `TxPath` is built in layers, each preserved on the strength of those before it:
  `Handshake` (kick, sequence numbers and echo of shim, glue and channel are in one of
  the phases `Resting`, `Kicked`, `Running`, `Echoed`), `RingShape` (descriptor `k` of
  packet `p` is `At(p, k)`, the packets in flight follow one another and the rest of the
  ring is free), `EndsOk` and `FramesOk` (end marks are where packets end and descriptors
  still describe the bytes that were queued), `CountsOk` (wire, ring and packets sent are
  in step), then the place of the channel in the driver's ring and the bytes it has
  gathered of the open packet. That `NoCap` is needed is what the run `enet_tx_cap` shows: a guest that keeps
  appending to a running chain reaches the cap whatever the size of its packets.

`TracesProofs`, for every chunk size, bundle, setting and number of records:

- `TracesTypes`, `RoundTrips`, `KilledSalvaged`: `TypeOK`, `RoundTrip`, `KilledPrefix`.
  `TracesInv` says of a running writer (`WriterOk`) that its file is the magic and a
  chain of full chunks, each at its place and each holding its stretch of the history of
  records, stores and interrupts (`Chain`, `Holds`, `FileOf`), that the entries of a full
  chunk were logged before its last record (`Full`), and that the pending columns are the
  end of the history (`Pending`). After the end the file is a prefix of such a chain with
  at most one short chunk, the last, and the trailer (`Filled`, `Short`, `Ended`; the
  whole of it when the run was closed, `Closed`), and the reader stands in front of a
  chunk and has read the stretches of those before it (`ReaderAt`). Chunk headers lie only
  at the places of the chain, so the reader has read as many chunks as the file has whole
  ones. Which entries of a sparse stream those chunks hold is counted apart from the file
  (`Lies`, `Ahead`), since `SparseExact` also says that no entry it should have is
  missing;
- `LeadUpKept`: `CrashLeadUp`. `RtInv` says that with the settings the property is about
  (`KeepsAll`) the ring is a contiguous end of the records retired since the trigger
  (`Ends`, `Going`), and that once stopped it keeps the end up to the stop (`Halted`),
  which the archive written at the end of the run repeats.

`ScsiProofs`, for every size of beat, disk block, ring, staging buffer, chain and
command. `Inv` has one conjunct per party (`ShimOk DriverOk ServicerOk RegsOk
ChainOk`) and one per thing they share: `Handshake` (the shim is busy as long as the
channel runs, a go is taken once), `RingOk` (the completion ring is never overrun),
`StagingOk` and `FetchedOk` (only beats staged for this request are fetched),
`CursorOk` (what is left of a buffer is what its descriptor said), `CommandOk`,
`LoadOk`.

- `ScsiTypes`: `TypeOK`;
- `AnsweredIsQuiet`: `QuietAfterAnswer`, from `Handshake` and `ServicerOk`;
- `ReadsLand`: `ReadLanded` under `ShortChains`. `WalkOk` ties the byte count of the
  channel to its cursor; `PipeOk` says that beat and hold register continue the bytes
  already stored, `LandedOk` that the buffers before the cursor hold what was staged,
  `StagedOk` that what is staged is the command's data after the chunks the guest
  has. `OverOk`, `EntryOk` and `PostOk` relate the entry the servicer takes to the
  bytes stored, whether the chain ended in EOX or starved.
  `OrderOk` keeps entries and doorbells of earlier requests from being taken for this
  one; `AlignOk` and `FitsOk` are the driver's rule on chains longer than the data;
- `WritesLand`: `WriteOnDisk` under `ShortChains`, `SmallChains` and `WholeBlocks`.
  `PackOk` and `DrainOk` say that the bytes gathered so far are in staging, in the
  beat being drained or in the hold register; `GatherOk` that they are the command's;
  `EndOk` that an entry means the chain is over; `SectorOk` that only the last chunk
  may end inside a block, so `DiskOk` can count whole blocks.

The three hypotheses are about what the guest programs. `ShortChains`: a chain has
at most `NdescMax + 1` descriptors (256), beyond which the engine cuts it.
`SmallChains`: a chain fits the staging buffer (256 descriptors of at most 16383
bytes are below its 4 MB). `WholeBlocks`: a WRITE's length is a number of blocks, as
the CDB says. The instance of the run `scsi` satisfies all three.

Only model-checked: liveness (`Served`, `AllSent`, `AllReaped`, `Answered`,
`Released`), because the prover does not handle fairness and ENABLED; and `Lockstep`.
Its properties depend on the program that runs: no branch in a delay slot, control that
never runs off the program, a refill handler that maps what missed, TLB writes apart from
the loads they serve. The programs of the instance are like that; for all programs these would
have to be stated as assumptions first.

## 6. Plan

Theorems next: the well-formed programs of `Lockstep`, then its `Locked` and
`NoFalseAlarm` for all of them. The invariant has to say where the ISS is while a delay
slot or an exception is pending, and that the stores queued on either side are the same
stores at different moments.

Models, if the project grows: `EnetRx` (delivery, drops, re-arm races), the GIO
window with the VDMA channel, the round robin of the engine's memory port.

## 7. Not modelled

- RTL: the ENET RX and VDMA channels, the engine's memory port and byte mover, the
  GIO window (half of it is an external graphics server), the external flush (its
  work is in the core's L2), the MC with its fill engine and the master-2 mux,
  INT3, IOC2, HPC3 and the RTC (mostly register storage), the AXI master and
  register file, `dram_trace.sv` (debug, off by default), the superseded engines
  (`scsi_dma.sv`, `scsi_stage.sv`, `enet_dma.sv`, `enet_ring_dma.sv`,
  `dma_memcpy.sv`, `scsi_beat_fifo.sv`), the r9999 core (an empty submodule).
- Testbench: image loading and the command line, the environment-controlled probes
  (about a third of `henry_tb.cpp`: they log and change nothing), the console and
  its input script, tap and disk I/O, the unit testbenches.
