------------------------------ MODULE HartStep ------------------------------
(***************************************************************************)
(* The fetch/execute loop of one hart: processor_t::step with              *)
(* take_pending_interrupt, take_trap and enter_debug_mode.                 *)
(*                                                                         *)
(* A step of the model is one iteration of the inner loop (slow or fast),  *)
(* or what happens before and after it.  Within a call of step nothing     *)
(* else runs; between calls the debugger and the devices act.  Local       *)
(* variable pc equals state.pc whenever an iteration begins or an          *)
(* instruction throws, so state.pc stands for both.                        *)
(*                                                                         *)
(* An instruction is what it does to the loop:                             *)
(*   plain    completes with the next pc                                   *)
(*   csr, mcsr    validate_csr, of a CSR of every privilege or of M's;     *)
(*                then PC_SERIALIZE_AFTER or a trap                        *)
(*   wfi      PC_SERIALIZE_WFI, a trap in U                                *)
(*   ipi      a store that makes "soft" pending for this hart              *)
(*   mret, sret   PC_SERIALIZE_AFTER, a trap in a lower privilege          *)
(*   ebreak, illegal   throw a trap                                        *)
(*                                                                         *)
(* An operator X_Fault next to X is X with the bug it names; no            *)
(* specification uses it.                                                  *)
(***************************************************************************)
EXTENDS Integers

CONSTANTS
    Addrs,        \* the addresses of the program
    Programs,     \* what the hart may run
    Quantum,      \* the largest n step is called with (INTERLEAVE)
    DcsrWrites    \* what the debugger writes to dcsr: step, ebreak, halt

Prv   == {"U", "S", "M"}
Irqs  == {"soft", "timer"}
Cause == Irqs \cup {"breakpoint", "illegal"}
Csrs  == {"csr", "mcsr"}
Insns == Csrs \cup {"plain", "wfi", "ipi", "mret", "sret", "ebreak", "illegal"}

(* The debug ROM: its entry (a csr access), the parking loop, the program  *)
(* of an abstract command outside the ROM proper, the exception entry.     *)
RomAddrs   == {"rom_entry", "rom_park", "rom_resume", "rom_tvec"}
DebugAddrs == RomAddrs \cup {"abstract"}

ASSUME AddrsAssumption == Addrs \cap DebugAddrs = {}
ASSUME ProgramsAssumption ==
    Programs \subseteq
        [insn : [Addrs -> Insns], succ : [Addrs -> Addrs], start : Addrs, prv : Prv,
         mtvec : Addrs, stvec : Addrs, delegated : SUBSET Cause,
         trigger : [Addrs -> {"none", "before", "after"}],
         action : {"debug", "exception"}]
(* A trigger fires after an instruction only if that accesses memory.      *)
ASSUME TriggerAssumption ==
    \A p \in Programs, a \in Addrs :
        p.trigger[a] = "after" => p.insn[a] \in {"plain", "ipi"}
ASSUME QuantumAssumption == Quantum \in Nat \ {0}
ASSUME DcsrAssumption ==
    DcsrWrites \subseteq [step : BOOLEAN, ebreak : SUBSET Prv, halt : BOOLEAN]

VARIABLES
    program,       \* the code, vectors, delegation and triggers; never changes
    debug,         \* the console's debug flag: always the slow path
    state,         \* state_t
    halt_request,
    mip,           \* pending interrupts; all are enabled in mie
    phase,         \* where in step the hart is
    n, instret,    \* of step
    since,         \* history: instructions since the last dret, up to 2
    uncounted      \* history: instructions executed and not yet in minstret

hvars == <<program, debug, state, halt_request, mip, phase, n, instret,
           since, uncounted>>

NONE == "none"

(* The hart has booted: its program runs in some privilege, with           *)
(* interrupts enabled.  halt is halt_on_reset.                             *)
Init ==
    /\ program \in Programs
    /\ debug \in BOOLEAN
    /\ \E h \in BOOLEAN :
        state = [pc |-> program.start, prv |-> program.prv,
                 cause |-> NONE, dpc |-> program.start, dprv |-> "U",
                 step |-> FALSE, ebreak |-> {}, halt |-> h,
                 single_step |-> "none", serialized |-> FALSE,
                 mepc |-> program.start, mcause |-> "illegal", mpp |-> "U",
                 mie |-> TRUE, mpie |-> FALSE,
                 sepc |-> program.start, scause |-> "illegal", spp |-> "U",
                 sie |-> TRUE, spie |-> FALSE]
    /\ halt_request = FALSE
    /\ mip = {}
    /\ phase = "idle" /\ n = 0 /\ instret = 0
    /\ since = 0 /\ uncounted = 0

-----------------------------------------------------------------------------
(* enter_debug_mode, take_trap and take_interrupt as functions of state.   *)

EnterDebugMode_PcFirst(s, c) ==
    [s EXCEPT !.cause = c, !.dprv = s.prv, !.prv = "M", !.dpc = "rom_entry",
              !.pc = "rom_entry"]

EnterDebugMode(s, c) ==
    [s EXCEPT !.cause = c, !.dprv = s.prv, !.prv = "M", !.dpc = s.pc,
              !.pc = "rom_entry"]

TrapInDebugMode(s, c) ==
    [s EXCEPT !.pc = IF c = "breakpoint" THEN "rom_entry" ELSE "rom_tvec"]

TrapToSupervisor(s, c, epc) ==
    [s EXCEPT !.pc = program.stvec, !.scause = c, !.sepc = epc,
              !.spie = s.sie, !.spp = s.prv, !.sie = FALSE, !.prv = "S"]

TrapToMachine(s, c, epc) ==
    [s EXCEPT !.pc = program.mtvec, !.mepc = epc, !.mcause = c,
              !.mpie = s.mie, !.mpp = s.prv, !.mie = FALSE, !.prv = "M"]

TakeTrap(s, c, epc) ==
    CASE s.cause # NONE -> TrapInDebugMode(s, c)
      [] s.cause = NONE /\ c = "breakpoint" /\ s.prv \in s.ebreak ->
            EnterDebugMode(s, "swbp")
      [] s.cause = NONE /\ ~(c = "breakpoint" /\ s.prv \in s.ebreak)
         /\ s.prv # "M" /\ c \in program.delegated -> TrapToSupervisor(s, c, epc)
      [] OTHER -> TrapToMachine(s, c, epc)

(* The interrupts of the level that is served first.                       *)
EnabledInterrupts ==
    LET machine == IF state.prv # "M" \/ state.mie
                   THEN mip \ program.delegated ELSE {}
        supervisor == IF state.prv = "U" \/ (state.prv = "S" /\ state.sie)
                      THEN mip \cap program.delegated ELSE {}
    IN  IF machine # {} THEN machine ELSE supervisor

Interrupting == state.cause = NONE /\ EnabledInterrupts # {}
Interrupt == IF "soft" \in EnabledInterrupts THEN "soft" ELSE "timer"

(* The end of catch(trap_t): a step that trapped is over.                  *)
AfterTrap(s) ==
    IF s.single_step = "stepped"
    THEN EnterDebugMode([s EXCEPT !.single_step = "none"], "step")
    ELSE s

-----------------------------------------------------------------------------
(* How an iteration ends, with i instructions counted in instret.          *)

(* minstret takes over what this turn of the outer loop has executed.      *)
Executed(retired) ==
    IF state.cause = NONE THEN uncounted + retired ELSE uncounted
Counted(retired, i) ==
    IF state.cause = NONE THEN uncounted + retired - i ELSE uncounted

Break_NotCounted(retired, i) ==
    /\ n' = n - i
    /\ instret' = 0
    /\ phase' = IF n = i THEN "idle" ELSE "outer"
    /\ uncounted' = Executed(retired)

Break(retired, i) ==
    /\ n' = n - i
    /\ instret' = 0
    /\ phase' = IF n = i THEN "idle" ELSE "outer"
    /\ uncounted' = Counted(retired, i)

(* A trap, and WFI, give up the rest of the quantum.                       *)
GiveUp(retired, i) ==
    /\ n' = 0 /\ instret' = 0 /\ phase' = "idle"
    /\ uncounted' = Counted(retired, i)

Continue(i) ==
    IF i < n
    THEN instret' = i /\ uncounted' = Executed(1) /\ UNCHANGED <<n, phase>>
    ELSE Break(1, i)

(* The return in the ROM; what it drops are instructions of debug mode.    *)
Return ==
    /\ n' = 0 /\ instret' = 0 /\ phase' = "idle"
    /\ uncounted' = Executed(1)

Since(retired) ==
    IF state.cause = NONE /\ since + retired <= 2 THEN since + retired ELSE since

-----------------------------------------------------------------------------
Frame == UNCHANGED <<program, debug, halt_request>>

StartStep ==
    /\ phase = "idle"
    /\ n' \in 1 .. Quantum
    /\ instret' = 0
    /\ phase' = "outer"
    /\ state' = CASE state.cause = NONE /\ halt_request ->
                        EnterDebugMode(state, "debugint")
                  [] state.cause = NONE /\ ~halt_request /\ state.halt ->
                        EnterDebugMode(state, "halt")
                  [] OTHER -> state
    /\ Frame /\ UNCHANGED <<mip, since, uncounted>>

TakeInterrupt ==
    /\ phase = "outer"
    /\ Interrupting
    /\ state' = AfterTrap(TakeTrap(state, Interrupt, state.pc))
    /\ GiveUp(0, 0)
    /\ Frame /\ UNCHANGED <<mip, since>>

SlowPath == debug \/ state.single_step # "none" \/ state.cause # NONE

EnterLoop ==
    /\ phase = "outer"
    /\ ~Interrupting
    /\ phase' = IF SlowPath THEN "slow" ELSE "fast"
    /\ Frame /\ UNCHANGED <<state, mip, n, instret, since, uncounted>>

(* The single step is over: before the next instruction is fetched.        *)
StepDone == phase = "slow" /\ ~state.serialized /\ state.single_step = "stepped"

EnterOnStep ==
    /\ StepDone /\ state.cause = NONE
    /\ state' = EnterDebugMode([state EXCEPT !.single_step = "none"], "step")
    /\ Break(0, instret)
    /\ Frame /\ UNCHANGED <<mip, since>>

(* The head of the slow loop: a step left over from before debug mode is   *)
(* dropped, a step that begins is marked.                                  *)
SlowHead_KeepsLeftover(s) ==
    [s EXCEPT !.single_step = IF @ = "none" THEN "none" ELSE "stepped"]

SlowHead(s) ==
    [s EXCEPT !.single_step =
        IF StepDone THEN "none" ELSE IF @ = "stepping" THEN "stepped" ELSE @]

Fetching == phase \in {"slow", "fast"} /\ ~(StepDone /\ state.cause = NONE)
LoopHead == IF phase = "slow" THEN SlowHead(state) ELSE state

(* The trigger that matches at the pc: none in debug mode.                 *)
Trigger == IF state.cause = NONE THEN program.trigger[state.pc] ELSE "none"

(* The instruction at the pc when it runs undisturbed.  In the ROM: the    *)
(* entry and the parking loop access CSRs or plain registers.              *)
Insn ==
    CASE state.pc \in Addrs -> program.insn[state.pc]
      [] state.pc = "rom_entry" -> "csr"
      [] state.pc \in {"rom_park", "rom_tvec"} -> "plain"
      [] state.pc = "rom_resume" -> "dret"
      [] OTHER -> "command"

(* A hart whose dpc was overwritten with the address of the ROM is not     *)
(* resumed: what it would do there outside debug mode is not modelled.     *)
Succs ==
    CASE state.pc \in Addrs -> {program.succ[state.pc]}
      [] state.pc = "rom_park" ->
            {"rom_park", "abstract"}
                \cup (IF state.dpc \in Addrs THEN {"rom_resume"} ELSE {})
      [] OTHER -> IF state.pc = "rom_tvec" THEN {"rom_entry"} ELSE {"rom_park"}

Fetched(insns) == Fetching /\ Trigger = "none" /\ Insn \in insns

(* The instruction is not for the privilege the hart is in.                *)
Illegal ==
    \/ Insn = "illegal"
    \/ Insn \in {"mcsr", "mret"} /\ state.prv # "M"
    \/ Insn \in {"wfi", "sret"} /\ state.prv = "U"

(* An instruction that completes with the next pc.                         *)
Complete ==
    /\ Fetched({"plain", "ipi"})
    /\ \E next \in Succs :
        /\ state' = [LoopHead EXCEPT !.pc = next]
        /\ IF phase = "slow" /\ next \in RomAddrs THEN Return
                                                  ELSE Continue(instret + 1)
    /\ mip' = IF Insn = "ipi" THEN mip \cup {"soft"} ELSE mip
    /\ since' = Since(1)
    /\ Frame

(* validate_csr wants the loop to stop first, so that minstret is exact.   *)
SerializeBefore_NotMarked ==
    /\ Fetched(Csrs) /\ ~state.serialized
    /\ state' = LoopHead
    /\ Break(0, instret)
    /\ Frame /\ UNCHANGED <<mip, since>>

SerializeBefore ==
    /\ Fetched(Csrs) /\ ~state.serialized
    /\ state' = [LoopHead EXCEPT !.serialized = TRUE]
    /\ Break(0, instret)
    /\ Frame /\ UNCHANGED <<mip, since>>

AccessCsr_KeepsSerialized(s, next) == [s EXCEPT !.pc = next]

AccessCsr(s, next) == [s EXCEPT !.pc = next, !.serialized = FALSE]

SerializeAfter ==
    /\ Fetched(Csrs) /\ state.serialized /\ ~Illegal
    /\ \E next \in Succs : state' = AccessCsr(LoopHead, next)
    /\ Break(1, instret + 1)
    /\ since' = Since(1)
    /\ Frame /\ UNCHANGED mip

Wfi ==
    /\ Fetched({"wfi"}) /\ ~Illegal
    /\ \E next \in Succs : state' = [LoopHead EXCEPT !.pc = next]
    /\ GiveUp(1, instret + 1)
    /\ since' = Since(1)
    /\ Frame /\ UNCHANGED mip

Mret ==
    /\ Fetched({"mret"}) /\ ~Illegal
    /\ state' = [LoopHead EXCEPT !.pc = LoopHead.mepc, !.prv = LoopHead.mpp,
                                 !.mie = LoopHead.mpie, !.mpie = TRUE, !.mpp = "U"]
    /\ Break(1, instret + 1)
    /\ since' = Since(1)
    /\ Frame /\ UNCHANGED mip

Sret ==
    /\ Fetched({"sret"}) /\ ~Illegal
    /\ state' = [LoopHead EXCEPT !.pc = LoopHead.sepc, !.prv = LoopHead.spp,
                                 !.sie = LoopHead.spie, !.spie = TRUE, !.spp = "U"]
    /\ Break(1, instret + 1)
    /\ since' = Since(1)
    /\ Frame /\ UNCHANGED mip

(* A csr access that is refused is refused after minstret was made exact,  *)
(* and has ended that.                                                     *)
ThrowingState ==
    IF Insn \in Csrs THEN [LoopHead EXCEPT !.serialized = FALSE] ELSE LoopHead

Throw ==
    /\ Fetched({"ebreak", "illegal", "mcsr", "wfi", "mret", "sret"})
    /\ Insn = "ebreak" \/ Illegal
    /\ Insn \in Csrs => state.serialized
    /\ state' = AfterTrap(TakeTrap(ThrowingState,
                    IF Insn = "ebreak" THEN "breakpoint" ELSE "illegal", state.pc))
    /\ GiveUp(0, instret)
    /\ Frame /\ UNCHANGED <<mip, since>>

(* The program of an abstract command ends in an ebreak or in a trap.      *)
RunCommand ==
    /\ Fetched({"command"})
    /\ \E c \in {"breakpoint", "illegal"} :
        state' = AfterTrap(TakeTrap(LoopHead, c, state.pc))
    /\ GiveUp(0, instret)
    /\ Frame /\ UNCHANGED <<mip, since>>

Dret ==
    /\ Fetched({"dret"})
    /\ state' = [LoopHead EXCEPT !.pc = LoopHead.dpc, !.prv = LoopHead.dprv, !.cause = NONE,
                                 !.single_step = IF LoopHead.step THEN "stepping" ELSE @]
    /\ Break(1, instret + 1)
    /\ since' = 0
    /\ Frame /\ UNCHANGED mip

(* catch(trigger_matched_t): the action of the trigger, at the pc in s.    *)
TriggerAction(s) ==
    IF program.action = "debug" THEN EnterDebugMode(s, "hwbp")
                                ELSE TakeTrap(s, "breakpoint", s.pc)

(* A trigger that fires before the instruction.                            *)
TriggerBefore ==
    /\ Fetching /\ Trigger = "before"
    /\ state' = TriggerAction(LoopHead)
    /\ Break(0, instret)
    /\ Frame /\ UNCHANGED <<mip, since>>

(* A trigger of a memory access that fires after it: the instruction is    *)
(* started again and completes.                                            *)
TriggerAfter ==
    /\ Fetching /\ Trigger = "after"
    /\ Insn \in {"plain", "ipi"}
    /\ state' = TriggerAction([LoopHead EXCEPT !.pc = program.succ[state.pc]])
    /\ Break(1, instret + 1)
    /\ mip' = IF Insn = "ipi" THEN mip \cup {"soft"} ELSE mip
    /\ since' = Since(1)
    /\ Frame

Step ==
    \/ StartStep \/ TakeInterrupt \/ EnterLoop \/ EnterOnStep
    \/ Complete \/ SerializeBefore \/ SerializeAfter \/ Wfi
    \/ Mret \/ Sret \/ Throw
    \/ RunCommand \/ Dret
    \/ TriggerBefore \/ TriggerAfter

-----------------------------------------------------------------------------
(* Between two calls of step.                                              *)

(* dmi_write of dmcontrol. *)
RequestHalt ==
    /\ phase = "idle"
    /\ halt_request' = ~halt_request
    /\ UNCHANGED <<program, debug, state, mip, phase, n, instret, since, uncounted>>

(* Other harts and the CLINT.                                              *)
ChangeInterrupts ==
    /\ phase = "idle"
    /\ mip' \in SUBSET Irqs
    /\ Frame /\ UNCHANGED <<state, phase, n, instret, since, uncounted>>

(* An abstract command that writes dcsr while the hart is parked.          *)
WriteDcsr ==
    /\ phase = "idle" /\ state.pc = "rom_park"
    /\ \E w \in DcsrWrites :
        state' = [state EXCEPT !.step = w.step, !.ebreak = w.ebreak, !.halt = w.halt]
    /\ Frame /\ UNCHANGED <<mip, phase, n, instret, since, uncounted>>

Next == Step \/ RequestHalt \/ ChangeInterrupts \/ WriteDcsr

Spec == Init /\ [][Next]_hvars

(* sim_t::step calls step again and again.                                 *)
FairSpec == Spec /\ WF_hvars(Step)

-----------------------------------------------------------------------------
TrapState(s) ==
    <<s.mepc, s.mcause, s.mpp, s.mie, s.mpie, s.sepc, s.scause, s.spp, s.sie, s.spie>>

(* With dcsr.step a resumed hart executes one instruction and no more,     *)
(* whichever quantum, restart, trap or trigger comes in between.           *)
StepsOneInstruction == state.step /\ state.cause = NONE => since <= 1

(* Debug mode is entered for a step only if the debugger asked for a step  *)
(* when it resumed the hart: none is left over from an earlier resume that *)
(* a halt request, a trigger or an ebreak cut short.                       *)
StepWasRequested ==
    [][state.cause = NONE /\ state'.cause = "step" => state.step]_hvars

(* Between two calls of step minstret has counted every instruction the    *)
(* program has executed, however the call ended.                           *)
CountsExecuted == phase = "idle" => uncounted = 0

(* Instructions, traps and debug mode follow the architecture, although    *)
(* instructions are restarted and quanta end anywhere.  The one exception, *)
(* an ebreak in a single step that enters debug mode twice, is an action   *)
(* of the architecture's own.                                              *)
Arch == INSTANCE HartArchitecture WITH
            arch <- [pc |-> IF state.cause = NONE THEN state.pc ELSE state.dpc,
                     prv |-> IF state.cause = NONE THEN state.prv ELSE state.dprv,
                     mepc |-> state.mepc, mcause |-> state.mcause,
                     mpp |-> state.mpp, mie |-> state.mie, mpie |-> state.mpie,
                     sepc |-> state.sepc, scause |-> state.scause,
                     spp |-> state.spp, sie |-> state.sie, spie |-> state.spie],
            debugging <- state.cause # NONE,
            stepsEbreak <- state.step /\ state.prv \in state.ebreak,
            RomEntry <- "rom_entry"

ImplementsArchitecture == Arch!ArchSpec

(* No trigger with action exception fires before the first instruction of  *)
(* a trap handler.                                                         *)
HandlersFree ==
    \/ program.action = "debug"
    \/ program.trigger[program.mtvec] # "before" /\ program.trigger[program.stvec] # "before"

(* Every call of step returns, so that the debugger gets its turn and a    *)
(* halt request is looked at: no instruction is restarted for ever.  The   *)
(* hypothesis is needed: such a trigger on a handler takes the handler's   *)
(* own trap again and again, executes nothing, and the outer loop has no   *)
(* other end.                                                              *)
StepReturns == HandlersFree => []<>(phase = "idle")

-----------------------------------------------------------------------------
(* What comments of the sources say and the code does not do.              *)

(* dcsr.prv: "the privilege level the hart was operating in when Debug     *)
(* Mode was entered", for an entry that takes no trap on the way.          *)
EntrySavesPrivilege ==
    [][state.cause = NONE /\ state'.cause # NONE
       /\ TrapState(state') = TrapState(state)
            => state'.dprv = state.prv]_hvars
=============================================================================
