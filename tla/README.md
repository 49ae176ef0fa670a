# TLA+ models of riscv-isa-sim

The repository holds the RISC-V instruction set simulator *spike*
(`src/riscv-isa-sim`), scripts that install it and sample programs for it. This
directory is the verification project of the simulator: models of its parts,
TLC runs that check them on small instances, and theorems that TLAPS proves for
every value of their constants. Paths below are relative to
`src/riscv-isa-sim/riscv` unless they say otherwise; line numbers of every
definition are in `PROJECT.json` under `map`.

## 1. Inventory

| part | state | operations | who calls it |
|---|---|---|---|
| Debug Module (`debug_module.cc`) | `dmcontrol`, `dmstatus`, `abstractcs`, `abstractauto`, `command`, `dmdata`, `program_buffer`, `debug_abstract`, `debug_rom_flags[]`, `halted[]`, `resumeack[]`, `havereset[]`, challenge/authentication, `sbcs`, `sbaddress`, `sbdata` | `dmi_read`, `dmi_write` (debugger side), `load`, `store` (hart side), `reset`, `proc_reset` | JTAG DTM; harts executing the debug ROM |
| Processor (`processor.cc`, `execute.cc`) | pc, registers, privilege, CSRs, `dcsr`, `dpc`, `single_step`, `serialized`, `halt_request`, `halt_on_reset` | `step`, `take_interrupt`, `take_trap`, `enter_debug_mode`, `set_csr`/`get_csr`, `reset`, `register_extension` | simulator loop; Debug Module sets `halt_request` and resets it |
| Triggers (`processor.h`, `mmu.h`) | `mcontrol[]`, `tdata2[]`, the MMU's `matched_trigger` | `trigger_match`, `trigger_exception`, retry in `step` | MMU on fetch, load and store |
| MMU (`mmu.cc`, `mmu.h`) | TLB tags and data, instruction cache, load reservation | `load`, `store`, `amo`, `translate`, `walk`, `refill_tlb`, `flush_tlb`, `flush_icache`, `yield`/`acquire_load_reservation` | processor; simulator at the end of a quantum |
| Simulator loop (`sim.cc`) | `current_step`, `current_proc`, the bus map | `main`, `step`, `mmio_load`, `mmio_store` | host thread |
| CLINT (`clint.cc`) | `mtime`, `mtimecmp[]`, the MTIP and MSIP bits of each `mip` | `load`, `store`, `increment` | bus; simulator when the last hart ends a quantum |
| JTAG DTM (`jtag_dtm.cc`) | TAP state, `ir`, `dr`, `dr_length`, `dmi`, `dtmcontrol` | `set_pins`, `capture_dr`, `update_dr`, `reset` | remote bitbang |
| Remote bitbang (`remote_bitbang.cc`) | socket, receive buffer, positions | `tick`, `accept`, `execute_commands` | simulator loop, between quanta |
| Cache simulator (`cachesim.cc`) | tags with VALID and DIRTY, LFSR, counters, next level | `access`, `check_tag`, `victimize` | tracers of the MMU |
| Bus and memories (`devices.cc`, `rom.cc`) | map from base to device | `load`, `store`, `find_device` | MMU, debug MMU |
| Decoder (`processor.cc:720`) | opcode cache, instruction list | `decode_insn`, `build_opcode_map` | MMU instruction cache |
| Disassembler, instruction counters (`disasm.cc`, `-t`) | hash chains of descriptors | `add_insn`, `lookup` | processor, for every executed instruction |
| Interactive console (`interactive.cc`) | none of its own | steps, `run`, `until`, `while`, `quit`; printing | simulator loop |
| Device tree, front ends | formatting, option parsing | | user |

**How they interact.** One host thread runs everything. `sim_t::step` gives one
hart a quantum of at most `INTERLEAVE` instructions, then the next; after each
quantum `sim_t::main` ticks the remote bitbang server, which clocks the TAP;
an update of the DBUS register is one `dmi_read` or `dmi_write`. A hart in debug
mode executes the debug ROM, and `processor_t::step` returns after an
instruction in it (`execute.cc:165`) unless that instruction serializes, so a DMI access can come between any two
accesses of the ROM to the Debug Module. The ROM talks to the Debug Module with stores of its
`mhartid` to HALTED, GOING, RESUMING and EXCEPTION and loads of the per-hart
flags; the Debug Module talks back through these flags and through the words it
assembles in `debug_abstract`.

**What is hard.** The simulator has no threads besides the coroutine of the host, but its actors
(debugger, each hart, host, prompt) have steps that interleave in many orders, and the
code that keeps them consistent is spread over `store()`, `dmi_write()` and a ROM
that is not even in the repository:

- *Debug Module*: `busy`, `cmderr`, the GO flag, `halted[]` and the position of
  the hart must agree although each is written by a different actor; a hart or the
  module may be reset in between; two names of a hart (index and `mhartid`) are
  used; the assembled program overwrites the previous one only partly. It is
  correct when a halted hart is really in debug mode, a command is executed once,
  completely, on the right hart and reported after it took effect, no resume is lost
  or left over, errors stick, and the debugger's view (`haltreq`, `resumeack`,
  `havereset`) agrees with what the harts obey.
- *System bus access*: return value, increment and read-ahead in the right order;
  errors sticky; carry between the halves of the address.
- *Processor step*: single step, triggers and traps taken inside a step race for the one
  entry into debug mode; the serialization retry; instruction counts on every exit;
  the restart of an instruction by a trigger.
- *Interrupts and CSRs*: nested traps, delegation and debug mode share one stack in
  `mstatus`, which S sees through masked views. Correct when S cannot touch what is M's and
  each return goes to the context that was interrupted.
- *MMU*: two caches that are flushed by different events and must not outlive what they were
  derived from (tables, privilege, status bits, triggers, code).
- *Main loop*: turns are divided among calls by the main loop, the prompt and its commands;
  reservations, the clock and the round robin rest on where a turn ends.
- *CLINT and bus*: MTIP is derived from two registers that are stored by halves; a device is
  found by the closest base below, whatever its size.
- *TAP and bitbang*: protocol state kept over arbitrary splits of the input, over
  pauses of a scan and over connections.
- *Cache simulator*: flags kept in address bits, write-back of the victim into a level with longer lines.
- *Decoder*: a list that is reordered while a cache holds copies of its entries; a hash that must
  agree with the masks of the descriptors.

`PROJECT.json` lists 22 components with their status, and each hazard at its line.

## 2. Modules

| module | models | how state and actions correspond |
|---|---|---|
| `DebugModule` | hart control, abstract commands, autoexec and authentication of `debug_module.cc` | variables are the members of `debug_module_t`, plus `halt_request` of the processors; `Dmi…` are the branches of `dmi_read`/`dmi_write`, `Store…` those of `store`. `PerformAbstractCommand` assembles `debug_abstract` word by word, *over* what was there |
| `DebugSystem` | `DebugModule` composed with every hart and an arbitrary debugger | `pc[h]` is the next access of hart `h` to the module; one action per turn of a hart (`sim_t::step`, `processor_t::step`, ROM) and one per DMI access; `BusStore` is a store to `dmdata` or `program_buffer` by anybody else on the bus, `sb_write` included |
| `DebugSession` | `DebugSystem` under a debugger that waits for what it started, and without `BusStore` | `dbg` is what it waits for. Liveness and stronger safety hold only here. It asks only halted harts to resume and neither selects nor resets a hart during a command |
| `CommandPort` | abstract: a port that executes an accepted command atomically on one stopped hart, exactly once, and reports it afterwards | no flags, ROM, or assembled program; `DebugSession` maps to it with a computed `stage` |
| `SystemBus` | `sbcs`, `sbaddress`, `sbdata` and the memory behind them | one action per DMI access; `alive` becomes FALSE when an exception leaves `dmi_read`/`dmi_write` |
| `HartStep` | the loop of `processor_t::step` for one hart, with `take_interrupt`, `take_trap`, `enter_debug_mode` and the trigger handler | `state` is `state_t`; `phase` says where in `step` the hart is, `n` and `instret` are its locals. One action per iteration of the inner loop, named for how the instruction ends it: retired, restarted, trapping, or refused for the privilege |
| `HartArchitecture` | the abstract hart: instructions and traps one at a time, debug mode changes nothing | `HartStep` maps to it with `dpc`/`dcsr.prv` standing for pc and privilege while in debug mode. `LoseEbreak` is what the code does with an `ebreak` into debug mode in a single step (section 6), so that the rest can be stated for every `dcsr` |
| `Interrupts` | `take_interrupt`, `take_trap`, `mret`/`sret`/`dret` and the CSRs `mstatus`, `sstatus`, `mip`, `sip`, `mie`, `sie`, `mideleg`, `medeleg` | registers are records and sets of bits; one action per trap, return and CSR write; `mtrap`, `strap` are history: the context a handler was entered from |
| `Triggers` | `trigger_match` and the fields of `tdata1` | operators only |
| `Mmu` | `mmu_t` with `Triggers`: fetch, load, store, AMO, LR and SC through walk, TLB, instruction cache and triggers, and every CSR write that flushes | `mmu` is the object; an operator that the code calls as a function returns the state after it *and how it ended*, so that the exceptions thrown in the middle of an instruction leave what was done before them. `stale` is history: what changed since the last flush |
| `Bus` | `bus_t`, `addr_to_mem`, what `-m` accepts and what `sim_t` and `make_dtb` put on the bus | `bus` is the map from base to device; `find_device` is the `upper_bound` search |
| `Clint` | `clint_t::load`, `store`, `increment` | operators on a record of `mtime`, `mtimecmp` and the bits of `mip` it drives |
| `SimLoop` | `sim_t::main`, `step`, the switch to the host, `interactive`, SIGINT, with `Bus`, `Clint` and the load reservations of the harts | `at` is where the target thread is, `by` which loop called `step`, `left` and `chunk` its locals; one action per call or return between these loops, and per access of a hart, the host and the debugger. `broken`, `derived`, `given` are history |
| `Decoder` | `decode_insn`, `build_opcode_map`, `register_extension`, `add_insn`, `lookup`, `update_tracked_insn_count` | `instructions` and `opcode_cache` are the members; `Execute(w)` is a fetch of the word `w`; `alive` ends with the null pointer that `-t` dereferences |
| `JtagDtm` | `jtag_dtm_t`: the TAP, capture, shift, update, `reset` | `tap` is the object, `dm` the registers behind DBUS; shift registers are numbers as in the code. `scan` is history: what the client has shifted |
| `RemoteBitbang` | `tick`, `accept`, `execute_commands` with the socket and a client | `phase` cuts `execute_commands` at its system calls and at each command; `asked` counts the answers the client waits for, so that `send_buf` holds several. A call that fails aborts (`WriteFails`, `ReadFails`) |
| `BitPort` | abstract: the commands a client sends are applied to the TAP one at a time, in order, once, and each read of tdo is answered with its value there | `RemoteBitbang` maps to it with `recv_buf \o wire` and `answers \o send_buf` |
| `CacheSim` | `cache_sim_t`, `fa_cache_sim_t`, the tracers and the wiring of `spike.cc` | `cache[c]` is the object; `newest` is history: which level has the newest value of an address |
| `DebugModule_proofs` (of `DebugSystem`, `DebugSession` and `SystemBus`), `Processor_proofs` (of `HartStep` and `Decoder`), `Mmu_proofs`, `SimLoop_proofs`, `Interrupts_proofs`, `RemoteBitbang_proofs` (of `JtagDtm` too), `CacheSim_proofs` | the theorems of section 5 | the invariant each proof rests on is defined there, below the lemmas about data |
| `NumberTheorems` | least numbers, powers of two and division, for the proofs | |
| `MC…` | values for the constants of the module each is named for | |

**Data abstraction.** An instruction word in `debug_abstract` is what it does
(`load`, `store`, `csr`, `fload`, `fstore`, `jal`, `ebreak`, `zero`, …). A
program-buffer program is one of four behaviours: it ends, it changes the
register and ends, it traps, it loops. `dmdata` and the register a command accesses
hold a value below `WordSize`. `data0` stands for the data array and one autoexec
bit for each group. The error code is the set of its bits, because
`abstractcs` is cleared by `cmderr &= ~written`. `sbaddress` is two limbs of `Limb` values each instead of 2^32.

In `HartStep` an instruction is what it does to the loop (`plain`, `csr`, `mcsr` for a CSR of M,
`wfi`, `ipi`, `mret`, `sret`, `ebreak`, `illegal`), and is illegal in a privilege that may not use it; all causes of an exception other than a
breakpoint behave as `illegal`, and a vectored `mtvec` is one address. In `Interrupts`
an interrupt is its number in `mip`; program counters, causes and `tval` are left out.

In `Mmu` addresses count halfwords and a page table entry is a kind, a set of permission bits and a page
number; memory has contents only where page tables are. `RISCV_ENABLE_DIRTY` is the constant
`EnableDirty`. In `SimLoop` addresses count words of 4 bytes and memory has no contents: what matters is who
stores where while whom holds a reservation. A 64-bit register of the CLINT is two words of `Word` values. In
`CacheSim` caches hold no data, as in the code, and the pseudo-random victim is any way. In `Decoder` words have
few bits, and a list of the disassembler is the set of its elements: their order decides which name is printed, not whether there is one. In `JtagDtm` the widths of the registers are constants.

**Atomicity.** A DMI access is one action: `dmi_read` and `dmi_write` run to the
end in one call. A turn of a hart in the ROM is one instruction, so one access to
the module. The abstract program itself runs within one turn: only the ROM
range returns after each instruction, and that test (`execute.cc:165`) is on the
addresses of the ROM proper; a program buffer that loops keeps the hart in it
for further turns (`ContinueProgbuf`). In `Mmu`, an instruction is one action with both its fetch and its accesses,
because nothing else runs inside one. In `SimLoop` a switch between target and host happens only at the end of
a turn (`sim.cc:126`), so that the host's and the debugger's accesses are actions of their own there and nowhere else.

**External code.** The debug ROM (`debug_rom/debug_rom.S`), the instruction
bodies (`insns/dret.h` among them) and the front-end server (`htif_t`) are not in the repository. `RomHalted` … `RomDret` are the
accesses for which `store()` and the flag bytes of `load()` were written, the debugger of
`DebugSession` is one that follows the register descriptions of
`debug_defines.h`, and the host of `SimLoop` accesses memory or the CLINT and resumes the target. These definitions are marked external in the map.

**Operators named `X_Fault`** next to `X` are deliberately wrong variants of `X`
(a missing reset, a dropped guard, a wrong order) used to see that a property
would notice such a bug. No specification uses them.

## 3. Runs

| run | instance | shows |
|---|---|---|
| `control` | 1 hart, a `hartsel` without one, authentication, six forms of command, three programs, autoexec on or off, stores on the bus | the halt request read back is the one the hart obeys; a hart marked halted is in debug mode; acknowledged and pending resumes exclude each other; a hart that stops being halted leaves a reason behind; while `busy`, only a store on the bus reaches what is executed, and only the program buffer; the first error stays |
| `session` | 2 harts, a debugger that waits; five commands that are assembled, rejected, wider than the hart, and postexec; programs that end or trap; two data values | busy covers each command; a hart finds word for word the program of its command; no stray resume; halts, resumes and commands complete; refinement of `CommandPort` |
| `system_bus` | 24 bytes of memory at a boundary of a 16-byte limb, 64-bit bus | block reads deliver memory; only good writes reach memory |
| `hart_step` | 1 hart, seven programs of two instructions with trap handlers, interrupts of two kinds, triggers before and after an instruction and on a handler, quanta of 1 to 3, single steps and `ebreak` into debug mode, apart and together | refinement of `HartArchitecture`; a step executes one instruction and is never left over; every exit counts what it executed; every call of `step` returns unless a trigger raises an exception on a trap handler |
| `interrupts` | a software, a timer and the coprocessor interrupt, two exceptions, ebreak to debug mode in S, four values of `mstatus` | software of S and U, and the traps it takes in S, change nothing of M's; each return goes to the interrupted context |
| `mmu` | two-level tables of two entries, also as a superpage, pages of two halfwords, 1 TLB entry, 2 instruction-cache entries, 1 trigger, 1 store to a table | TLB and instruction cache give what the walk would give now; no hit bypasses a trigger |
| `sim_loop` | 2 harts, turns of 3 steps, a bus of 14 words in two layouts, a clock of two words of one bit | reservations end before anybody else stores; turns are equal however they are divided; MTIP follows the clock; devices are found; harts take turns for ever |
| `decoder` | all words of 4 bits, ten descriptors of which some overlap, an extension as `rocc.cc`, 3 cache entries, a hash of 2 | decoding is a search of the sorted list; `-t` survives a word exactly if the disassembler was given something that matches it, and always the base instructions |
| `bitbang` | registers of 2 and 3 bits, reads of 2 bytes, three clients | scans keep the stream; the module is written only as scanned; refinement of `BitPort`; ticks return; answers arrive; connections are kept apart |
| `cache_sim` | one-line instruction cache, fully associative data cache of 2, second level of 2×2 with lines of double length; 5 accesses | no store is lost on its way to memory; the counters of the levels agree |
| `step_ebreak`, `mmu_restart` | see section 6 | end in a violation on purpose |

**Bounds.**

- *Debug Module.* Two harts are needed because the module is shared: another hart's
  HALTED store must not clear `busy`, its flag must not be touched through
  `hartsel`. A third adds only symmetric copies: harts do not interact except
  through the module, whose per-hart state is indexed. One extra `hartsel`
  reaches the branches where `current_proc` is null. `control` needs one hart because its debugger does anything at
  any time; its properties are proved for every number of harts. Nothing counts
  up, so no state constraint is used.
- `SystemBus`: the limb is 16 bytes, so that streams of several words, both halves of the address and the
  end of memory are all inside 24 bytes.
- `HartStep`: `Quantum` bounds `n`, `since` stops at 2 (the property is about
  1), and `uncounted` never exceeds `Quantum`. Three instructions
  per quantum let a quantum end before, inside and after a restart. The programs put
  each kind of instruction under each way of ending an iteration, and choose
  what is delegated. The debugger asks for
  single steps, for `ebreak` to debug mode, and for both. One program has a trigger with action
  "exception" on its trap handler, where `step` does not return (section 6): the safety properties are checked of it, and
  `StepReturns` excludes it by its hypothesis `HandlersFree`. Another makes accesses to CSRs of M and `wfi` trap in U. A hart whose
  `dpc` was overwritten with the address of the ROM stays in debug mode: what it would do there outside of it is not modelled.
- `Interrupts`: one source of each kind that the code treats differently: one that S may be given and write, one that
  only M has, the one that exists only with an extension. The remaining sources differ in their place in the priority only.
- `Mmu`: one TLB entry makes every two pages compete for it, two instruction-cache entries let an entry
  survive a refill of another. An instruction at the end of page 0 crosses into page 1. `Workloads` splits the run: status changes, tables
  with reservations, tables with resets, triggers with resets; privilege changes, CSR-driven flushes and accesses are in all of them.
  `MaxTableStores` is 1, since what a store leaves stale one more store does not change.
- `SimLoop`: a turn of three steps can be cut into two calls of different length or three; with two harts the clock's advance and the
  switch of harts are different steps. The second layout has a memory that reaches into the CLINT. `Accessed` holds an
  address of each register and device.
- `Decoder`: three cache entries for sixteen words, and descriptors with the same match and different masks, as `c.jr` and `c.mv` have. The extension
  covers four words and brings no names; two of them have one among the disassembler's own, as `custom0` to `custom3` do, and the other two end the simulator under `-t`.
- `RemoteBitbang`: the first client shifts any stream bit by bit; the second runs three commands ahead of a server that
  reads two at a time, two of them reads of tdo whose answers leave together, and hangs up; the third resets, quits and hangs up. It resets a TAP that is in
  Test-Logic-Reset: a reset in the middle of a scan is covered by the theorem only. They use different parts of the protocol so that the product
  stays small. DBUS has one address and no failing one (`Failing`), so that the reply to a failed access is modelled but not reached by this run.
- `CacheSim`: five accesses (`MaxAccesses`) fill the data cache, evict from both levels and read back what was evicted.

`CHECK_DEADLOCK FALSE` is set where the system really may stop: an exception that escapes ends the simulator
(`alive` in `SystemBus`, `Mmu`, `Decoder` and, after `raise_interrupt`, `Interrupts`; `phase = "dead"` in `RemoteBitbang` after `abort()`), the program exits (`SimLoop`),
or a bound is reached (`CacheSim`).

**Fairness.** `FairSessionSpec` assumes weak fairness of each hart's turn, which `HartsTakeTurns` of `SimLoop` justifies
(`sim_t::step` runs the harts round robin and a turn is enabled in every state), and weak fairness of the debugger's
polling actions only (`SeeHalted`, `SeeResumed`, `SeeCompleted`): a
debugger that has started something looks for its completion. It need not start
anything. `WordSize` is 2 there because with one value a
hart that runs could not move without halting, and fairness would halt
it. `HartStep` assumes weak fairness of the loop itself: host code that is running goes on
running. Program-buffer programs that loop forever are left out of
the run that checks `CommandCompletes`, since nothing ends them. `SimLoop` assumes it of the target thread, of the host's return to it,
and of the end of a tick, which `TickReturns` justifies. That a hart's chunk ends is justified by `StepReturns`, so except where its hypothesis fails: then the
simulator hangs in that hart, and neither `HartsTakeTurns` nor the liveness of a session can be expected. `RemoteBitbang` assumes it of the server, and of a client that takes its answers; nobody has to send,
type a command or press a key.

## 4. What is only model-checked

- All liveness (`HaltCompletes`, `ResumeCompletes`, `CommandCompletes`, `StepReturns`, `HartsTakeTurns`, `TickReturns`, `AnswerArrives`), which is
  out of the prover's reach together with ENABLED; so is the fairness that `CommandPort` promises, the part of
  `ImplementsCommandPort` that `SessionImplementsPort` does not state.
- The two violations of section 6.

Every other property of a run has a theorem, so every safety invariant and every action property holds for all values of the constants. The induction theorems of the library cannot be used, because they take the statement as
a parameter; where the proofs need induction over numbers (the levels of a page table, the bits of a register, powers of two), they take the least number
at which the statement fails (`LeastNat` of `NumberTheorems`, from the well-foundedness of the finite sets of naturals) and show that it fails at the one before.

## 5. Theorems

**`DebugSystem`** (in `DebugModule_proofs`), for every number of harts, every assignment of
hartids, every set of dmcontrol writes, commands, programs and autoexec settings:

| theorem | states |
|---|---|
| `TypeCorrect` | `Spec => []TypeOK` |
| `HaltedIsInDebugMode` | a hart marked halted is between its HALTED and RESUMING stores |
| `AcknowledgedIsNotPending` | `resumeack` and a pending RESUME flag exclude each other |
| `HaltreqIsObeyed` | `dmcontrol.haltreq` equals the request of the selected processor |
| `ProgramIsShielded` | while `busy` no step changes the abstract program, and only a store on the bus, no register access, the program buffer |
| `FirstErrorStays` | a set `cmderr` is only cleared |
| `LeavingHaltIsSeen` | a hart that leaves `halted` has acknowledged a resume or been reset |

*Assumptions.* Those on the constants, in `DebugModule`: `HartSels` contains the
harts, `HartId` is injective into `HartSels`, `0 \in Word`, and so on. Nothing
requires `HartId[h] = h`: the theorems cover `--hartids`, except that what they say of a `hartsel` is then about the index
and what they say of a hart about its mhartid, as in the code.

*Argument.* Each step is split into a hart's turn (one lemma per ROM access), a
register access (one lemma per DMI register) and a dmcontrol write. The typing lemmas say
that each keeps `TypeOK`. `HaltedMeansInDebugMode`, `AckExcludesPendingResume` and
`HaltreqMirrorsHart` are inductive relative to `TypeOK` alone: for the
first, `StoreHalted` is the only step that sets `halted[HartId[h]]`, its hart is in
the ROM then, and the steps that leave debug mode, RESUMING and reset, clear it first;
injectivity of `HartId` keeps the other harts' entries apart. The action
properties follow from a lemma that bounds what each kind of access
may do to `busy`, `cmderr` and the program.

**`DebugSession`** (in `DebugModule_proofs`), for the same constants and any debugger that waits:

| theorem | states |
|---|---|
| `SessionKeepsSystem` | a session has the properties of `DebugSystem` above |
| `BusyIsTheCommand` | a hart with its GO flag up or anywhere in a command is the selected one, and the module is busy |
| `ResumesOnlyWhenAsked` | a RESUME flag is up only while the debugger waits for the acknowledgement of that hart |
| `ProgramIsWhole` | what a hart executes, up to the first `ebreak` or jump to the program buffer, is word for word the program of the last command |
| `SessionImplementsPort` | `HartId[h] = h` implies that a session implements the initial states and the steps of `CommandPort` |

*Argument.* `SInv` is `TypeOK`, the two invariants of `DebugSystem` that are inductive with it, and `SCore`: what the debugger waits for
(`Waiting`), where the GO flag may be up (`GoIsPending`), where the hart of a command is and what it relies on there (`CommandRuns`), whose resume is
awaited (`ResumeIsAwaited`), and that memory holds the program of the accepted command while busy (`Assembled`). None of the invariants is inductive alone:
that the flag of GO is lowered by the hart it was raised for needs `CommandRuns`, that no other command
overwrites the program needs `Waiting`. One lemma per turn of a hart and per access of the debugger. The refinement takes the same steps and
shows for each which step of the port it is; most of them stutter, and `ExecProgram`, `ExecFault` and the report of completion do not.
The port speaks of the selected *hart*, the code of the selected *index*, so that the refinement needs the two names to be equal (`DefaultHartIds`),
which is what spike does without `--hartids`. The other theorems do not need it.

**`SystemBus`** (in `DebugModule_proofs`), for every `Limb`, size of memory, set of values and of addresses, and width of the bus:

| theorem | states |
|---|---|
| `SBInvariant` | `SBSpec => []SBInv`, the inductive invariant |
| `StreamsDeliver` | while a block read with 32-bit accesses is under way, `sbdata0` holds the word of memory the reader is owed |
| `OnlyGoodWrites` | memory changes only by an access that is reported as good, at the words it names |

*Argument.* `Streaming`: while a stream is owed, the fields of `sbcs` that set it up stand, their size is supported, no error is pending, `sbaddress` is the address
of the word that is owed and `sbdata0` holds it. A read of `sbdata0` keeps this because the address is incremented before the read-ahead, so
the word read is the one at the new address; where the 32-bit increment would wrap, or memory ends, nothing more is owed. The proof needs that the words a 4-byte load may
reach are the cells of memory (`CellsOfMemory`), whatever the two halves of the address.

**`HartStep`** (in `Processor_proofs`), for every program, set of addresses, set of interrupts, set of `dcsr` settings and `Quantum`:

| theorem | states |
|---|---|
| `HartInvariant` | `Spec => []HInv`, the inductive invariant |
| `StepIsOneInstruction` | after a resumption with `dcsr.step`, one instruction is executed before debug mode is entered again |
| `CounterIsExact` | when a call of `step` ends, `minstret` has counted every instruction of the program |
| `StepsAreRequested` | debug mode is entered for a step only if the debugger asked for one |
| `HartImplementsArchitecture` | the loop implements `HartArchitecture` |

*Scope.* No setting of `dcsr` is excluded. Single steps together with `ebreak` into debug mode enter debug mode twice (run `step_ebreak`), which puts an
address of the ROM into `dpc`; `HartImplementsArchitecture` has this as the action `LoseEbreak` of the abstract hart, and `EnteredTwice` and `Lost` prove that nothing
else is lost. Such a hart is not resumed by the model (section 3, bounds), so the theorems say nothing of what it does afterwards.

*Argument.* `HInv` has one part for each thing that is decided in one place of `processor_t::step` and relied on in another: debug mode is
where the ROM is, and what a step left behind is gone before the ROM leaves its parking loop (`InRom`); a step under way has
executed nothing or is over, except for a csr access that has to be started again (`Stepping`); the fast path is taken outside of debug mode
and of single steps only; `instret` runs ahead of `minstret` by what was executed (`Counting`). Lemmas say what `EnterDebugMode`, `TakeTrap`, an instruction and
the trigger handler do to the state; then there is one lemma per action for the invariant and one for the abstract step.

**`Decoder`** (in `Processor_proofs`), for every width of words, set of instructions and extension within the assumptions, and size of the cache and of the hash table:

| theorem | states |
|---|---|
| `DecoderInvariant` | `DecoderSpec => []DInv`, the inductive invariant |
| `DecodingIsSearch` | whatever was executed before, a word other than 0 decodes to what a search of the sorted list finds |
| `MostSpecificIsDecoded` | that is an instruction that matches, and none that matches has a greater mask; no run checks this formula, which says what the search is for |
| `NamesAreFound` | under `-t` the lookup of an executed word succeeds exactly if the disassembler was given anything that matches it, which it was for every base instruction |

*Argument.* `DInv` replaces "the list is sorted", which the first move destroys, by what the moves leave of it (`Arranged`): every descriptor is there, those of one match follow one
another by falling mask, and the catch-all is last. `MoveArranged` shows why the test of the two neighbours in `decode_insn` is enough: in such a list a descriptor
whose neighbours have other matches is alone with its match, so that no order among equals is broken. `FoundIsBest` then says what a search finds without mentioning a list, and `SearchesAgree`
that two lists of the same descriptors give the same; the entries of the cache are results of such searches. That `sort` yields an `Arranged` list is proved from the order
alone (`RankOnto`: the numbers of predecessors are a bijection). For the names, `LowBitsAgree` shows by induction on the bits that a mask whose low bits are all ones makes the low bits of the word those of the
match, which is the condition under which `add_insn` hashes.
*Assumptions.* `OverlapAssumption` is about the table of instructions: two that match one word have one match. Every pair of
`encoding.h` satisfies it but `c.addi16sp` and `c.lui`, and `c.addi16sp` is not in `riscv.mk.in`. Nothing is assumed of the names an extension brings.

**`Mmu_proofs`**, for every size of both buffers, number of levels and of entries of a table, memory map, code, set of triggers, and both settings of
`RISCV_ENABLE_DIRTY`:

| theorem | states |
|---|---|
| `MmuInvariant` | `Spec => []MInv`, the inductive invariant |
| `HitsAreWalks` | a hit goes where a walk would go now, unless a flush is due or MPRV gives code and data two modes |
| `CachedCodeIsCurrent` | the same of every halfword in the instruction cache |
| `TriggersAreAsked` | neither buffer hides an access from a trigger, unless `tdata2` was written since the last flush |

*Argument.* `MInv` says of *every* entry what the properties say of a hit: the walk of its page succeeds and ends where
the entry points (`GoodTranslations`), an unchecked entry is for an operation no trigger looks at (`GoodTags`, `Watched`), and each cached halfword is where the walk finds it
and sets no trigger off (`GoodCode`). The weight lies in the walk. `WalkInduction` goes down its levels; with it, walks of two tables whose entries are `Similar` have the same
outcome, and setting the A and D bits keeps tables similar (`TouchedSimilar`), so that the walk of one access leaves the entries of others valid. The results of the
functions that throw in the middle are carried through `Refill`, `SlowPath`, the fetch of the second half and the accesses of
an instruction by one lemma each.

**`SimLoop_proofs`**, for every number of harts, `INTERLEAVE`, memory layout, word size and set of stores:

| theorem | states |
|---|---|
| `Invariance` | `Spec => []Inv`, the inductive invariant |
| `TypeCorrect` | `Spec => []TypeOK` |
| `ReservationsAreExclusive` | no hart holds a reservation that another agent has stored to |
| `RoundsAreFair` | within a round the harts have had `INTERLEAVE`, `current_step` and no steps, by their place |
| `TimersFollowClock` | MTIP is set exactly when `mtime >= mtimecmp`, once it has been derived |
| `DevicesAreReachable` | if the devices are apart, each is found at every address of its own |

*Argument.* The properties are not inductive: that a store of the host breaks no reservation depends on where the loop is.
`Inv` adds `Placed`: a chunk is within the turn and within the call (`ChunkInTurn`); the calls of the main loop are whole turns, so that the debugger is served
only between turns (`MainIsWhole`); the prompt's loops never serve it and the host runs only at `current_step = 0` (`PromptIsApart`); a reservation
belongs to the current hart and is gone where anybody else may store (`Holder`). The CLINT needs arithmetic lemmas about registers of
two words (`Product`, `Quotient`, `MergedInRange`), the bus the existence of a closest base (`Largest`: the distances to a
bound have a least one, because `<` on the naturals is well-founded, `WFMin` of the library).

**`Interrupts_proofs`**, for every set of sources, exceptions and values of `mstatus`, with or without an extension:

| theorem | states |
|---|---|
| `Invariance` | `Spec => []Inv` |
| `ReturnsAreToContext` | `mret` and `sret` return to the privilege and the enable that were interrupted |
| `StateOfMIsGuarded` | a step that stays in S or U leaves what belongs to M alone |

*Argument.* `Inv` says that while a handler is unfinished the stack in `mstatus` holds the context it was entered from (`Stacked`). Lemmas say what a trap
handled in M and one handled in S do to the two stacks; `WritesOfSupervisor` and `TrapsOfSupervisor` bound what software of S and its traps
may change.

**`RemoteBitbang_proofs`**, for every width of the registers of the TAP, every set of clients and `BufSize`, without further hypotheses:

| theorem | states |
|---|---|
| `BInvariant` | `Spec => []BInv`, the inductive invariant |
| `ScansKeepStream` | during a scan the bits of `dr` are the stream of the scan and `tdo` is the one that leaves next |
| `BuffersAreTheClients` | nothing of a connection is left when the next is accepted |
| `ScannedWrites` | the Debug Module changes only when a DBUS scan is updated, at the address and to the value that were shifted in last |
| `ServerImplementsPort` | the server implements `BitPort` |

*Argument.* `BInv` is `TapInv` (each register is below the power of two of its width; in the states of a data scan `dr` is its stream), the types of the server, and
`ServerRelations`, of which one is not obvious: a pass that stops with commands left has entered Run-Test/Idle, which is why a pass that goes on to a read
does so with an empty buffer and `recv_buf \o wire` stays the stream. The lemmas below it are about numbers as bits: shifting right drops
the first bit and setting the top one appends (`Bits` of a shifted register), and the fields that `update_dr` cuts out of `dmi` are the bits that were shifted in
(`FieldsOfWord`).

**`CacheSim_proofs`**, for every number of sets and ways, every line size of the first level that divides the one of the second, and any choice of victims:

| theorem | states |
|---|---|
| `CacheInvariant` | `Spec => []CInv`, the inductive invariant |
| `NewestAreDirty` | the newest value of each address is in memory or in a dirty line of the level that `newest` names |
| `CountersDoAgree` | the second level counts what the first sent it; a data cache writes back no more than was stored to it |

*Argument.* `CInv` adds that each line is in the set of its number and in one way only (`Placed`, `Unique`): without it a hit could find one copy and the victim be another. `Tracked` ties
`newest` to the two sets of dirty lines in both directions. An access is cut as in the code: the access to its own cache, the write-back of the victim, the read
of the missing line, with one lemma for the outcome of each (`AccessesOK`, `WrittenNext`, `ReadNext`) and one for what it does to `Tracked`; the
counters need that a write-back removes one element of a finite set of dirty lines.
*Assumption.* `NestingAssumption` is about the options of `spike`: with a second level of shorter lines the code writes only the first part
of a victim back, and the property would be about that.

## 6. Where the code and its descriptions disagree

Checked, each by a run that finds the violation:

- `step_ebreak` – a single step of an `ebreak` enters debug mode twice (`execute.cc:228`):
  `dpc`, `dcsr.prv` and the cause of the first entry are lost.
- `mmu_restart` – the trigger handler executes the instruction again outside of the `try` of `step` (`execute.cc:242`). An exception of that second pass
  leaves `step` as a C++ exception with `matched_trigger` still set, although the comment there says that restarting is safe.

Seen while modelling and visible in the definitions, without a run of their own:

- *Debug Module.* `reset()` (`debug_module.cc:61-97`) clears `busy` but not the GO flag: a command issued before a pulse of `dmactive` is executed
  after it. `store()` indexes by mhartid, DMI accesses by processor index, so with `--hartids` a halt is never seen (`:182`). `sb_read` catches only
  load access faults, `sb_write` nothing (`:289`). A custom register access returns before `postexec` is looked at (`:615`).
  The autoincrement of `sbaddress` is added in 32 bits, its carry is always 0 (`:256`); a 64-bit read returns only its low word (`:283`).
  A store on the bus into `program_buffer`, by a program or by the debugger's own
  `sb_write`, is not stopped by `busy` as the writes of its registers are (`:174-178`).
  `anyresumeack` is never assigned after `reset()` (`:407`). A resume request is taken for a hart that is not halted (`:698`). With `dmactive` 0
  the module keeps its state until it rises (`:677`). Writes of `abstractcs`, `abstractauto` and `progbuf` while busy raise no error (`:723`).
- *Processor.* With an execute trigger of action "exception" on the first instruction of the trap handler, `step` does not return: the trap of the handler is
  taken in the loop that restarts (`execute.cc:233-263`), which decrements nothing (`TriggeredHandler` in `MCHartStep`). A store to the hart's own `msip` followed by a csr access: the access is restarted, the interrupt comes first, and `serialized`
  stays set in the handler (`execute.cc:139`). `raise_interrupt` of an extension ignores `mie` and throws a `logic_error` when the extension interrupt cannot be taken. A reset clears MTIP until the
  clock next advances. The order of MEIP and the coprocessor interrupt in `take_interrupt` (`processor.cc:204`) cannot be observed. Clearing F in `misa` clears D but keeps Q.
- *Triggers.* `chain_ok` never becomes false (`processor.h:229`). NAPOT masks cover half the range they name, MASK modes compare `tdata2 & mask`. `dmode` can be set
  from M mode. Writing `tdata2` flushes nothing, so code in the instruction cache is not matched against it. An execute trigger on the second half of an
  instruction fires while it is fetched; a device is loaded from before its trigger matches and again on the restart; a fetch from a device checks no trigger.
- *MMU.* With MPRV set, code and data of one virtual page share one TLB target although they are translated differently (`mmu.h:293`); `HitIsWalk` excludes this case (`OneMode`).
  A reset flushes nothing. LR and SC refill the TLB for operations that are traced.
- *Main loop and prompt.* `mem <core> <addr>` may throw `trigger_matched_t`, which nobody catches. Once the prompt was reached the debugger is not served again. `until` ignores
  `done()` and, when its condition cannot be evaluated, Ctrl-C (`interactive.cc:341-356`); a second Ctrl-C exits with -1.
- *CLINT and bus.* `mtime` is not initialised, and MTIP is not derived before the first advance or store. More than 4095 harts overlap `mtime`. A memory that contains
  another device's base is hidden from there on; one at the base of a device is replaced silently; the last word of the address space is refused by the wrap test.
- *JTAG.* `ir`, `dr` and `dr_length` are not initialised; `reset()` keeps `ir`; an unsupported instruction keeps the old `dr`; the status of a failed DMI access is not sticky; writes of
  `dtmcontrol` do nothing; an edge uses the `tms` and `tdi` of the previous call of `set_pins`.
- *Remote bitbang.* A partial write is continued with the full length (`remote_bitbang.cc:141`). `Q` ends the tick before the test that would close the connection (`:151`, `:168`).
  A write that would block aborts the simulator. `accept` takes descriptor 0 for none.
- *Decoder and tracking.* An extension of `--isa` is registered before the disassembler exists (`processor.cc:27`, `:108`, `:775`). The empty opcode cache claims word 0, so what word 0 decodes to depends
  on history. `lookup` returns a null pointer for words no chain has, and `-t` dereferences it (`processor.cc:342`): `rocc.cc:32-46` registers four whole opcodes and no names, and
  "a default disassembly for all instructions as a fallback" (`spike_main/disasm.cc:612`) has none for the words of these opcodes with `funct3` 1 or 5. Restarted instructions are counted twice.
- *Front end.* The tracked instructions are set only when the list is empty (`sim.cc:62`), the parser of the list drops its last token (`spike.cc:104-118`), and with `-p0` caches and
  extension are not attached (`spike.cc:191`).

## 7. Plan

Done: all modules of section 2 and the proofs of section 5. No safety property of a run is without a theorem.

Left: liveness, until the prover can be given ENABLED; what a hart does that is resumed with the ROM's address in `dpc`, after the code has lost
the state of the first entry; and partial writes of the bitbang server, which need the bytes behind its buffer.

## 8. Not modelled

- Instruction semantics, soft float and the front-end server are not in the repository (only the actions of the host that `sim_t` is written for appear).
- Parsing of options and of the device tree, terminal handling, the printing commands of the prompt, and the text the disassembler produces are formatting.
- `encoding.h`, `debug_defines.h` and `regnames.cc` are tables of constants; the few that are used are mapped where they are used.
- CSRs that are plain field copies (floating point, counters, scratch) and vectored `mtvec`.
- A resumption with the address of the ROM in `dpc` (`HartStep`), and stores to code that is in the instruction cache (`Mmu`, whose code is constant).
- The packing of VALID and DIRTY into address bits: flags are fields of their own in `CacheSim`.
- The build with misaligned accesses in hardware, accesses of a part of a word to the CLINT, and a `write` of the bitbang server that takes only a part: what it
  sends on depends on the bytes behind the answers.
- The registry of extensions and shared libraries, whose state is set once before the program runs.
- The scripts that install the simulator, and the sample programs.
