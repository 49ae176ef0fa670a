-------------------------- MODULE Processor_proofs --------------------------
(***************************************************************************)
(* What the processor guarantees.  First HartStep, for every program, set  *)
(* of addresses, quantum and sequence of dcsr writes: a single step is one *)
(* instruction, minstret is exact, and the loop with its quanta, restarts  *)
(* and debug mode implements HartArchitecture.                             *)
(* Then Decoder, for every set of instructions, extension, cache and hash  *)
(* table: neither the moves nor the cache change what a word decodes to,   *)
(* and a name is found for what is executed exactly if there is one.       *)
(***************************************************************************)
EXTENDS HartStep, Decoder, NumberTheorems, SequenceTheorems

-----------------------------------------------------------------------------
(* The inductive invariant.                                                *)

State ==
    [pc : Addrs \cup DebugAddrs, prv : Prv,
     cause : {NONE, "debugint", "halt", "step", "swbp", "hwbp"},
     dpc : Addrs \cup {"rom_entry"}, dprv : Prv,
     step : BOOLEAN, ebreak : SUBSET Prv, halt : BOOLEAN,
     single_step : {"none", "stepping", "stepped"}, serialized : BOOLEAN,
     mepc : Addrs, mcause : Cause, mpp : Prv, mie : BOOLEAN, mpie : BOOLEAN,
     sepc : Addrs, scause : Cause, spp : Prv, sie : BOOLEAN, spie : BOOLEAN]

(* Debug mode is where the ROM is; a single step left over from before the *)
(* entry is gone when the hart leaves the parking loop.  The address of    *)
(* the program is lost only where an ebreak ended a single step.           *)
InRom(s) ==
    /\ s.cause = NONE <=> s.pc \in Addrs
    /\ s.pc = "rom_park" => s.single_step # "stepping" /\ ~s.serialized
    /\ s.pc \in {"rom_resume", "rom_tvec", "abstract"} =>
          s.single_step = "none" /\ ~s.serialized
    /\ s.pc = "rom_resume" => s.dpc \in Addrs

(* A single step is under way exactly when dcsr.step was set at the        *)
(* resumption.  It has executed nothing yet, or it is over, except that    *)
(* an instruction may have to be started again once minstret is exact.     *)
Stepping(s, executed) ==
    s.cause = NONE =>
        /\ s.step <=> s.single_step # "none"
        /\ s.single_step = "stepping" => executed = 0 /\ ~s.serialized
        /\ s.single_step = "stepped" => executed <= 1
        /\ s.single_step = "stepped" /\ s.serialized =>
              /\ executed = 0
              /\ program.insn[s.pc] \in Csrs /\ program.trigger[s.pc] = "none"

GoodState(s, executed) ==
    /\ s \in State
    /\ InRom(s)
    /\ Stepping(s, executed)

(* instret runs ahead of minstret by what the loop has executed outside    *)
(* debug mode.                                                             *)
Counting ==
    /\ phase \in {"idle", "outer", "slow", "fast"}
    /\ n \in Nat /\ instret \in Nat /\ uncounted \in Nat
    /\ phase \in {"idle", "outer"} => uncounted = 0 /\ instret = 0
    /\ phase \in {"slow", "fast"} =>
          uncounted = IF state.cause = NONE THEN instret ELSE 0
    /\ phase # "idle" => instret < n

HInv ==
    /\ program \in Programs
    /\ mip \in SUBSET Irqs
    /\ since \in 0 .. 2
    /\ GoodState(state, since)
    /\ phase = "fast" => state.cause = NONE /\ state.single_step = "none"
    /\ Counting

-----------------------------------------------------------------------------
(* Functions of the hart's state.                                          *)

(* The fields of a program. *)
LEMMA ProgramFacts ==
    ASSUME program \in Programs
    PROVE  /\ program.insn \in [Addrs -> Insns] /\ program.succ \in [Addrs -> Addrs]
           /\ program.start \in Addrs /\ program.prv \in Prv
           /\ program.mtvec \in Addrs /\ program.stvec \in Addrs
           /\ program.delegated \in SUBSET Cause
           /\ program.trigger \in [Addrs -> {"none", "before", "after"}]
BY ProgramsAssumption

(* Entering debug mode, whatever is left over of a single step. *)
LEMMA EnterGood ==
    ASSUME NEW s \in State, s.pc \in Addrs \cup {"rom_entry"},
           NEW c \in {"debugint", "halt", "step", "swbp", "hwbp"}, NEW executed
    PROVE  /\ GoodState(EnterDebugMode(s, c), executed)
           /\ EnterDebugMode(s, c).cause = c
<1>1. "rom_entry" \in DebugAddrs /\ "rom_entry" \notin Addrs /\ "M" \in Prv
    BY AddrsAssumption DEF DebugAddrs, RomAddrs, Prv
<1>2. EnterDebugMode(s, c) \in State /\ c # NONE
    BY <1>1 DEF EnterDebugMode, State, NONE
<1>. QED BY <1>1, <1>2 DEF GoodState, InRom, Stepping, EnterDebugMode, State

(* A trap of the program, to either level. *)
LEMMA TrapGood ==
    ASSUME program \in Programs, NEW executed,
           NEW s, GoodState(s, executed), s.cause = NONE,
           NEW c \in Cause, NEW epc \in Addrs,
           s.single_step = "stepped" => ~s.serialized
    PROVE  GoodState(TakeTrap(s, c, epc), executed)
<1>. s \in State /\ s.pc \in Addrs
    BY DEF GoodState, InRom
<1>1. CASE c = "breakpoint" /\ s.prv \in s.ebreak
    BY <1>1, EnterGood DEF TakeTrap, GoodState, InRom
<1>2. \A label \in {program.stvec, program.mtvec} : label \in Addrs
    BY ProgramFacts
<1>3. GoodState(TrapToSupervisor(s, c, epc), executed)
  <2>1. TrapToSupervisor(s, c, epc) \in State
      BY ProgramFacts DEF TrapToSupervisor, State, GoodState, Prv
  <2>. QED BY <2>1, <1>2, AddrsAssumption
       DEF TrapToSupervisor, State, GoodState, InRom, Stepping, DebugAddrs, RomAddrs
<1>4. GoodState(TrapToMachine(s, c, epc), executed)
  <2>1. TrapToMachine(s, c, epc) \in State
      BY ProgramFacts DEF TrapToMachine, State, GoodState, Prv
  <2>. QED BY <2>1, <1>2, AddrsAssumption
       DEF TrapToMachine, State, GoodState, InRom, Stepping, DebugAddrs, RomAddrs
<1>. QED BY <1>1, <1>3, <1>4 DEF TakeTrap

(* A trap to the program leaves the fields of the debugger alone. *)
Undebugged(s, t) ==
    /\ t \in State /\ t.pc \in Addrs /\ t.cause = NONE
    /\ t.single_step = s.single_step /\ t.step = s.step /\ t.ebreak = s.ebreak

LEMMA TrapFields ==
    ASSUME program \in Programs, NEW s \in State, s.cause = NONE,
           NEW c \in Cause, NEW epc \in Addrs, ~(c = "breakpoint" /\ s.prv \in s.ebreak)
    PROVE  Undebugged(s, TakeTrap(s, c, epc))
<1>1. Undebugged(s, TrapToSupervisor(s, c, epc))
    BY ProgramFacts DEF TrapToSupervisor, State, Prv, Undebugged
<1>2. Undebugged(s, TrapToMachine(s, c, epc))
    BY ProgramFacts DEF TrapToMachine, State, Prv, Undebugged
<1>3. \/ TakeTrap(s, c, epc) = TrapToSupervisor(s, c, epc)
      \/ TakeTrap(s, c, epc) = TrapToMachine(s, c, epc)
    BY DEF TakeTrap
<1>. QED BY <1>1, <1>2, <1>3

(* A trap that ends a step, stepping or not. *)
LEMMA TrapEndGood ==
    ASSUME program \in Programs, NEW executed,
           NEW s, GoodState(s, executed), s.cause = NONE,
           NEW c \in Cause, NEW epc \in Addrs
    PROVE  /\ GoodState(AfterTrap(TakeTrap(s, c, epc)), executed)
           /\ AfterTrap(TakeTrap(s, c, epc)).cause = "step" => s.step
<1>. s \in State /\ s.pc \in Addrs
    BY DEF GoodState, InRom
<1>1. CASE s.single_step = "stepped"
  <2>1. s.step
      BY <1>1 DEF GoodState, Stepping
  <2>2. PICK t : /\ t = TakeTrap(s, c, epc) /\ t \in State
                 /\ t.pc \in Addrs \cup {"rom_entry"} /\ t.single_step = s.single_step
    <3>1. CASE c = "breakpoint" /\ s.prv \in s.ebreak
      <4>1. TakeTrap(s, c, epc) = EnterDebugMode(s, "swbp")
          BY <3>1 DEF TakeTrap
      <4>2. EnterDebugMode(s, "swbp") \in State
          BY EnterGood DEF GoodState
      <4>3. /\ EnterDebugMode(s, "swbp").pc = "rom_entry"
            /\ EnterDebugMode(s, "swbp").single_step = s.single_step
          BY DEF EnterDebugMode, State
      <4>. QED BY <4>1, <4>2, <4>3
    <3>2. CASE ~(c = "breakpoint" /\ s.prv \in s.ebreak)
        BY <3>2, TrapFields DEF Undebugged
    <3>. QED BY <3>1, <3>2
  <2>3. /\ [t EXCEPT !.single_step = "none"] \in State
        /\ [t EXCEPT !.single_step = "none"].pc \in Addrs \cup {"rom_entry"}
      BY <2>2 DEF State
  <2>4. GoodState(EnterDebugMode([t EXCEPT !.single_step = "none"], "step"), executed)
      BY <2>3, EnterGood
  <2>5. AfterTrap(t) = EnterDebugMode([t EXCEPT !.single_step = "none"], "step")
      BY <1>1, <2>2 DEF AfterTrap
  <2>. QED BY <2>1, <2>2, <2>4, <2>5
<1>2. CASE s.single_step # "stepped"
  <2>1. PICK t : t = TakeTrap(s, c, epc) /\ GoodState(t, executed)
      BY <1>2, TrapGood
  <2>2. t.single_step = s.single_step /\ t.cause # "step"
    <3>1. CASE c = "breakpoint" /\ s.prv \in s.ebreak
      <4>1. t = EnterDebugMode(s, "swbp")
          BY <2>1, <3>1 DEF TakeTrap
      <4>. QED BY <4>1 DEF EnterDebugMode, State
    <3>2. CASE ~(c = "breakpoint" /\ s.prv \in s.ebreak)
        BY <2>1, <3>2, TrapFields DEF Undebugged, NONE
    <3>. QED BY <3>1, <3>2
  <2>. QED BY <1>2, <2>1, <2>2 DEF AfterTrap
<1>. QED BY <1>1, <1>2

(* The instruction at an address of the program. *)
LEMMA InsnFacts ==
    ASSUME HInv
    PROVE  /\ state.cause = NONE =>
                /\ state.pc \in Addrs
                /\ Insn = program.insn[state.pc] /\ Insn \in Insns
                /\ Succs = {program.succ[state.pc]}
                /\ program.succ[state.pc] \in Addrs
                /\ Trigger = program.trigger[state.pc]
           /\ state.cause # NONE =>
                /\ state.pc \in DebugAddrs /\ state.pc \notin Addrs
                /\ Trigger = "none" /\ phase # "fast"
                /\ state.pc = "rom_entry" => Insn = "csr" /\ Succs = {"rom_park"}
                /\ state.pc = "rom_park" =>
                     Insn = "plain" /\ Succs \subseteq {"rom_park", "rom_resume", "abstract"}
                /\ "rom_resume" \in Succs => state.dpc \in Addrs
                /\ state.pc = "rom_tvec" => Insn = "plain" /\ Succs = {"rom_entry"}
                /\ state.pc = "rom_resume" => Insn = "dret"
                /\ state.pc = "abstract" => Insn = "command"
<1>. state \in State /\ program \in Programs /\ InRom(state)
    BY DEF HInv, GoodState
<1>1. CASE state.cause = NONE
  <2>1. state.pc \in Addrs
      BY <1>1 DEF InRom
  <2>2. state.pc # "rom_park"
      BY <2>1, AddrsAssumption DEF DebugAddrs, RomAddrs
  <2>3. Insn = program.insn[state.pc]
      BY <2>1, AddrsAssumption DEF Insn, DebugAddrs, RomAddrs
  <2>4. Succs = {program.succ[state.pc]}
      BY <2>1, <2>2 DEF Succs
  <2>. QED BY <1>1, <2>1, <2>3, <2>4, ProgramFacts DEF Trigger
<1>2. CASE state.cause # NONE
  <2>1. state.pc \in DebugAddrs /\ state.pc \notin Addrs
      BY <1>2 DEF InRom, State
  <2>2. state.pc = "rom_entry" => Insn = "csr" /\ Succs = {"rom_park"}
      BY <2>1 DEF Insn, Succs
  <2>3. /\ state.pc = "rom_park" =>
              Insn = "plain" /\ Succs \subseteq {"rom_park", "rom_resume", "abstract"}
        /\ "rom_resume" \in Succs => state.dpc \in Addrs
      BY <2>1 DEF Insn, Succs
  <2>4. state.pc = "rom_tvec" => Insn = "plain" /\ Succs = {"rom_entry"}
      BY <2>1 DEF Insn, Succs
  <2>5. /\ state.pc = "rom_resume" => Insn = "dret"
        /\ state.pc = "abstract" => Insn = "command"
      BY <2>1 DEF Insn
  <2>. QED BY <1>2, <2>1, <2>2, <2>3, <2>4, <2>5 DEF Trigger, HInv
<1>. QED BY <1>1, <1>2

(* The head of the loop: a step that begins is marked, one left over from  *)
(* before debug mode is dropped, and one that is over fetches nothing.     *)
LEMMA HeadFacts ==
    ASSUME HInv, Fetching
    PROVE  /\ LoopHead = [state EXCEPT !.single_step = LoopHead.single_step]
           /\ LoopHead \in State
           /\ state.cause = NONE =>
                /\ LoopHead.single_step \in {"none", "stepped"}
                /\ state.step <=> LoopHead.single_step # "none"
                /\ LoopHead.single_step = "stepped" => since = 0
                /\ LoopHead.single_step = "stepped" /\ state.serialized =>
                     program.insn[state.pc] \in Csrs /\ program.trigger[state.pc] = "none"
           /\ state.cause # NONE =>
                /\ LoopHead.single_step \in {"none", "stepped"}
                /\ state.pc # "rom_entry" => LoopHead.single_step = "none"
<1>. state \in State
    BY DEF HInv, GoodState
<1>1. LoopHead = [state EXCEPT !.single_step = LoopHead.single_step] /\ LoopHead \in State
    BY DEF LoopHead, SlowHead, State
<1>2. phase = "slow" => LoopHead.single_step =
        IF StepDone THEN "none"
        ELSE IF state.single_step = "stepping" THEN "stepped" ELSE state.single_step
    BY DEF LoopHead, SlowHead, State
<1>3. phase = "fast" => LoopHead.single_step = "none" /\ state.single_step = "none"
    BY DEF LoopHead, HInv
<1>4. phase \in {"slow", "fast"} /\ ~(StepDone /\ state.cause = NONE)
    BY DEF Fetching
<1>5. CASE state.cause = NONE
    BY <1>1, <1>2, <1>3, <1>4, <1>5
    DEF HInv, GoodState, Stepping, StepDone, State
<1>6. CASE state.cause # NONE
  <2>1. phase = "slow" /\ state.pc \in DebugAddrs
      BY <1>4, <1>6, InsnFacts
  <2>. QED BY <1>1, <1>2, <1>6, <2>1
       DEF HInv, GoodState, InRom, StepDone, State, DebugAddrs, RomAddrs
<1>. QED BY <1>1, <1>5, <1>6

-----------------------------------------------------------------------------
(* Counting instructions.                                                  *)

(* Whatever ends a turn of the outer loop accounts for what it executed.   *)
LEMMA EndCounts ==
    ASSUME HInv, phase \in {"slow", "fast"}, NEW retired \in {0, 1},
           \/ Break(retired, instret + retired)
           \/ GiveUp(retired, instret + retired)
    PROVE  Counting' /\ phase' \in {"idle", "outer"}
<1>. /\ n \in Nat /\ instret \in Nat /\ uncounted \in Nat /\ instret < n
     /\ uncounted = IF state.cause = NONE THEN instret ELSE 0
    BY DEF HInv, Counting
<1>1. Counted(retired, instret + retired) = 0
    BY DEF Counted
<1>2. instret' = 0 /\ uncounted' = 0 /\ n' \in Nat
    BY <1>1 DEF Break, GiveUp
<1>3. phase' = "idle" \/ (phase' = "outer" /\ 0 < n')
    BY DEF Break, GiveUp
<1>. QED BY <1>2, <1>3 DEF Counting

(* An instruction that leaves the loop running is counted in it.           *)
LEMMA ContinueCounts ==
    ASSUME HInv, phase \in {"slow", "fast"}, Continue(instret + 1),
           state'.cause = state.cause
    PROVE  Counting' /\ phase' \in {phase, "idle", "outer"}
<1>1. CASE instret + 1 < n
    BY <1>1 DEF Continue, Executed, HInv, Counting
<1>2. CASE ~(instret + 1 < n)
  <2>1. Break(1, instret + 1)
      BY <1>2 DEF Continue
  <2>. QED BY <2>1, EndCounts
<1>. QED BY <1>1, <1>2

(* The return in the ROM drops instructions of debug mode only. *)
LEMMA ReturnCounts ==
    ASSUME HInv, phase \in {"slow", "fast"}, Return, state.cause # NONE
    PROVE  Counting' /\ phase' = "idle"
BY DEF Return, Executed, HInv, Counting

(* The history of executed instructions. *)
LEMMA SinceFacts ==
    ASSUME HInv
    PROVE  /\ Since(1) \in 0 .. 2
           /\ since = 0 => Since(1) <= 1
BY DEF Since, HInv

-----------------------------------------------------------------------------
(* Every action keeps the invariant.                                       *)

(* What is left to show of an action, with its own state and since.        *)
LEMMA Reassemble ==
    ASSUME HInv, UNCHANGED program, mip' \in SUBSET Irqs, since' \in 0 .. 2,
           GoodState(state', since'), Counting',
           phase' = "fast" => state'.cause = NONE /\ state'.single_step = "none"
    PROVE  HInv'
<1>1. GoodState(state, since)'
    BY DEF GoodState, Stepping, InRom, State
<1>. QED BY <1>1 DEF HInv

(* A call of step begins, perhaps in debug mode. *)
LEMMA StartStepKeeps == ASSUME HInv, StartStep PROVE HInv'
<1>. USE DEF StartStep, Frame
<1>. state \in State /\ GoodState(state, since)
    BY DEF HInv, GoodState
<1>1. GoodState(state', since)
  <2>1. CASE state.cause = NONE /\ (halt_request \/ state.halt)
    <3>1. state.pc \in Addrs
        BY <2>1 DEF GoodState, InRom
    <3>2. \/ state' = EnterDebugMode(state, "debugint")
          \/ state' = EnterDebugMode(state, "halt")
        BY <2>1
    <3>. QED BY <3>1, <3>2, EnterGood
  <2>2. CASE ~(state.cause = NONE /\ (halt_request \/ state.halt))
    <3>1. state' = state
        BY <2>2
    <3>. QED BY <3>1
  <2>. QED BY <2>1, <2>2
<1>2. Counting'
    BY QuantumAssumption DEF HInv, Counting
<1>. QED BY <1>1, <1>2, Reassemble DEF HInv

(* The loop to enter is chosen. *)
LEMMA EnterLoopKeeps == ASSUME HInv, EnterLoop PROVE HInv'
<1>. USE DEF EnterLoop, Frame
<1>1. Counting'
    BY DEF HInv, Counting
<1>. QED BY <1>1, Reassemble DEF HInv, SlowPath

(* The interrupts that may be taken are pending. *)
LEMMA InterruptFacts ==
    ASSUME HInv, Interrupting
    PROVE  /\ state.cause = NONE /\ Interrupt \in Irqs
           /\ Interrupt \in EnabledInterrupts
<1>1. EnabledInterrupts \in SUBSET Irqs /\ EnabledInterrupts # {}
    BY DEF EnabledInterrupts, HInv, Interrupting
<1>. QED BY <1>1 DEF Interrupting, Interrupt, Irqs

(* An interrupt is taken before the loop is entered. *)
LEMMA TakeInterruptKeeps == ASSUME HInv, TakeInterrupt PROVE HInv'
<1>. USE DEF TakeInterrupt, Frame
<1>. GoodState(state, since) /\ program \in Programs
    BY DEF HInv
<1>1. state.cause = NONE /\ Interrupt \in Cause /\ state.pc \in Addrs
    BY InterruptFacts DEF Cause, GoodState, InRom
<1>2. GoodState(state', since')
    BY <1>1, TrapEndGood
<1>3. Counting' /\ phase' = "idle"
    BY DEF GiveUp, Counted, HInv, Counting
<1>. QED BY <1>2, <1>3, Reassemble DEF HInv

(* A single step that is over ends in debug mode. *)
LEMMA EnterOnStepKeeps == ASSUME HInv, EnterOnStep PROVE HInv'
<1>. USE DEF EnterOnStep, Frame, StepDone
<1>. GoodState(state, since) /\ state \in State
    BY DEF HInv, GoodState
<1>. DEFINE s == [state EXCEPT !.single_step = "none"]
<1>1. s \in State /\ s.pc \in Addrs
    BY DEF State, GoodState, InRom
<1>2. GoodState(state', since')
    BY <1>1, EnterGood
<1>3. instret = instret + 0
    BY DEF HInv, Counting
<1>4. Counting' /\ phase' \in {"idle", "outer"}
    BY <1>3, EndCounts
<1>. QED BY <1>2, <1>4, Reassemble DEF HInv

(* An instruction that completes with the next pc, in the program or in    *)
(* the ROM.                                                                *)
LEMMA CompleteKeeps == ASSUME HInv, Complete PROVE HInv'
<1>. USE DEF Complete, Frame, Fetched
<1>. PICK next \in Succs :
        /\ state' = [LoopHead EXCEPT !.pc = next]
        /\ IF phase = "slow" /\ next \in RomAddrs THEN Return ELSE Continue(instret + 1)
    OBVIOUS
<1>. Fetching /\ phase \in {"slow", "fast"}
    BY DEF Fetching
<1>1. mip' \in SUBSET Irqs
    BY DEF HInv, Irqs
<1>2. CASE state.cause = NONE
  <2>1. next = program.succ[state.pc] /\ next \in Addrs /\ next \notin DebugAddrs
      BY <1>2, InsnFacts, AddrsAssumption
  <2>2. /\ state' \in State /\ state'.cause = NONE /\ state'.pc = next
        /\ state'.step = state.step /\ state'.ebreak = state.ebreak
        /\ state'.serialized = state.serialized
        /\ state'.single_step = LoopHead.single_step
      BY <1>2, <2>1, HeadFacts DEF State
  <2>3. LoopHead.single_step = "stepped" => since' <= 1 /\ ~state.serialized
      BY <1>2, HeadFacts, InsnFacts, SinceFacts DEF Csrs
  <2>4. GoodState(state', since')
      BY <1>2, <2>1, <2>2, <2>3, HeadFacts
      DEF GoodState, InRom, Stepping, HInv, DebugAddrs, RomAddrs
  <2>5. Counting' /\ phase' \in {phase, "idle", "outer"}
      BY <1>2, <2>1, <2>2, ContinueCounts DEF DebugAddrs
  <2>6. phase' = "fast" => state'.single_step = "none"
      BY <2>2, <2>5 DEF LoopHead, HInv
  <2>. QED BY <1>1, <2>2, <2>4, <2>5, <2>6, SinceFacts, Reassemble
<1>3. CASE state.cause # NONE
  <2>1. /\ state.pc \in {"rom_park", "rom_tvec"}
        /\ next \in {"rom_park", "rom_resume", "abstract", "rom_entry"}
        /\ phase = "slow"
      BY <1>3, InsnFacts DEF DebugAddrs, RomAddrs
  <2>2. /\ state' \in State /\ state'.cause = state.cause /\ state'.pc = next
        /\ state'.step = state.step /\ state'.ebreak = state.ebreak
        /\ state'.serialized = state.serialized
        /\ state'.single_step = "none" /\ state'.dpc = state.dpc
      BY <1>3, <2>1, HeadFacts DEF State, DebugAddrs, RomAddrs
  <2>3. next \notin Addrs
      BY <2>1, AddrsAssumption DEF DebugAddrs, RomAddrs
  <2>4. GoodState(state', since')
      BY <1>3, <2>1, <2>2, <2>3, InsnFacts DEF GoodState, InRom, Stepping, HInv
  <2>5. Counting' /\ phase' \in {"slow", "idle", "outer"}
      BY <1>3, <2>1, <2>2, ContinueCounts, ReturnCounts
  <2>. QED BY <1>1, <2>4, <2>5, SinceFacts, Reassemble
<1>. QED BY <1>2, <1>3

(* validate_csr stops the loop before the access; the step is not over.    *)
LEMMA SerializeBeforeKeeps == ASSUME HInv, SerializeBefore PROVE HInv'
<1>. USE DEF SerializeBefore, Frame, Fetched
<1>. Fetching /\ phase \in {"slow", "fast"}
    BY DEF Fetching
<1>. GoodState(state, since) /\ state \in State
    BY DEF HInv, GoodState
<1>1. /\ state' \in State /\ state'.cause = state.cause /\ state'.pc = state.pc
      /\ state'.step = state.step /\ state'.ebreak = state.ebreak
      /\ state'.serialized = TRUE
      /\ state'.single_step = LoopHead.single_step
    BY HeadFacts DEF State
<1>2. GoodState(state', since')
  <2>1. CASE state.cause = NONE
    <3>1. state.pc \in Addrs /\ state.pc \notin DebugAddrs
        BY <2>1, InsnFacts, AddrsAssumption
    <3>2. program.insn[state.pc] \in Csrs /\ program.trigger[state.pc] = "none"
        BY <2>1, InsnFacts
    <3>. QED BY <1>1, <2>1, <3>1, <3>2, HeadFacts
         DEF GoodState, InRom, Stepping, DebugAddrs, RomAddrs
  <2>2. CASE state.cause # NONE
    <3>1. state.pc = "rom_entry"
        BY <2>2, InsnFacts DEF DebugAddrs, RomAddrs, Csrs
    <3>. QED BY <1>1, <2>2, <3>1 DEF GoodState, InRom, Stepping
  <2>. QED BY <2>1, <2>2
<1>3. instret = instret + 0
    BY DEF HInv, Counting
<1>4. Counting' /\ phase' \in {"idle", "outer"}
    BY <1>3, EndCounts
<1>. QED BY <1>2, <1>4, Reassemble DEF HInv

(* The access itself, when minstret is exact.                              *)
LEMMA SerializeAfterKeeps == ASSUME HInv, SerializeAfter PROVE HInv'
<1>. USE DEF SerializeAfter, Frame, Fetched
<1>. Fetching /\ phase \in {"slow", "fast"}
    BY DEF Fetching
<1>. GoodState(state, since) /\ state \in State
    BY DEF HInv, GoodState
<1>. PICK next \in Succs : state' = AccessCsr(LoopHead, next)
    OBVIOUS
<1>1. next \in Addrs \cup DebugAddrs
    BY InsnFacts DEF Csrs, DebugAddrs, RomAddrs
<1>2. /\ state' \in State /\ state'.cause = state.cause /\ state'.pc = next
      /\ state'.step = state.step /\ state'.ebreak = state.ebreak
      /\ state'.serialized = FALSE
      /\ state'.single_step = LoopHead.single_step
  <2>1. /\ LoopHead = [state EXCEPT !.single_step = LoopHead.single_step]
        /\ LoopHead \in State
      BY HeadFacts
  <2>2. state' = [LoopHead EXCEPT !.pc = next, !.serialized = FALSE]
      BY DEF AccessCsr
  <2>3. state' \in State
      BY <1>1, <2>1, <2>2 DEF State
  <2>. QED BY <2>1, <2>2, <2>3 DEF State
<1>3. GoodState(state', since')
  <2>1. CASE state.cause = NONE
    <3>1. next \in Addrs /\ next \notin DebugAddrs
        BY <2>1, InsnFacts, AddrsAssumption
    <3>2. LoopHead.single_step = "stepped" => since' <= 1
        BY <2>1, HeadFacts, SinceFacts
    <3>. QED BY <1>2, <2>1, <3>1, <3>2, HeadFacts
         DEF GoodState, InRom, Stepping, DebugAddrs, RomAddrs
  <2>2. CASE state.cause # NONE
    <3>1. next = "rom_park" /\ next \notin Addrs
        BY <2>2, InsnFacts, AddrsAssumption DEF DebugAddrs, RomAddrs, Csrs
    <3>. QED BY <1>2, <2>2, <3>1, HeadFacts DEF GoodState, InRom, Stepping
  <2>. QED BY <2>1, <2>2
<1>4. Counting' /\ phase' \in {"idle", "outer"}
    BY EndCounts
<1>. QED BY <1>3, <1>4, SinceFacts, Reassemble DEF HInv

(* An instruction of the program that ends the turn of the loop and leaves *)
(* the debugger's fields alone: wfi, mret and sret.                        *)
LEMMA RetireGood ==
    ASSUME HInv, Fetching, state.cause = NONE, Insn \notin Csrs,
           NEW t \in State, t.cause = NONE, t.pc \in Addrs,
           t.step = state.step, t.ebreak = state.ebreak,
           t.serialized = state.serialized, t.single_step = LoopHead.single_step
    PROVE  GoodState(t, Since(1))
<1>. GoodState(state, since)
    BY DEF HInv
<1>1. t.pc \notin DebugAddrs
    BY AddrsAssumption
<1>2. LoopHead.single_step = "stepped" => Since(1) <= 1 /\ ~state.serialized
    BY HeadFacts, InsnFacts, SinceFacts
<1>. QED BY <1>1, <1>2, HeadFacts
     DEF GoodState, InRom, Stepping, DebugAddrs, RomAddrs

LEMMA WfiKeeps == ASSUME HInv, Wfi PROVE HInv'
<1>. USE DEF Wfi, Frame, Fetched
<1>. Fetching /\ phase \in {"slow", "fast"}
    BY DEF Fetching
<1>1. state.cause = NONE
    BY InsnFacts DEF DebugAddrs, RomAddrs
<1>. PICK next \in Succs : state' = [LoopHead EXCEPT !.pc = next]
    OBVIOUS
<1>2. next \in Addrs
    BY <1>1, InsnFacts
<1>3. /\ state' \in State /\ state'.cause = NONE /\ state'.pc = next
      /\ state'.step = state.step /\ state'.ebreak = state.ebreak
      /\ state'.serialized = state.serialized
      /\ state'.single_step = LoopHead.single_step
    BY <1>1, <1>2, HeadFacts DEF State
<1>4. GoodState(state', since')
    BY <1>1, <1>2, <1>3, RetireGood DEF Csrs
<1>5. Counting' /\ phase' \in {"idle", "outer"}
    BY EndCounts
<1>. QED BY <1>4, <1>5, SinceFacts, Reassemble DEF HInv

LEMMA MretKeeps == ASSUME HInv, Mret PROVE HInv'
<1>. USE DEF Mret, Frame, Fetched
<1>. Fetching /\ phase \in {"slow", "fast"}
    BY DEF Fetching
<1>1. state.cause = NONE
    BY InsnFacts DEF DebugAddrs, RomAddrs
<1>3. /\ state' \in State /\ state'.cause = NONE /\ state'.pc \in Addrs
      /\ state'.step = state.step /\ state'.ebreak = state.ebreak
      /\ state'.serialized = state.serialized
      /\ state'.single_step = LoopHead.single_step
    BY <1>1, HeadFacts DEF State, Prv
<1>4. GoodState(state', since')
    BY <1>1, <1>3, RetireGood DEF Csrs
<1>5. Counting' /\ phase' \in {"idle", "outer"}
    BY EndCounts
<1>. QED BY <1>4, <1>5, SinceFacts, Reassemble DEF HInv

LEMMA SretKeeps == ASSUME HInv, Sret PROVE HInv'
<1>. USE DEF Sret, Frame, Fetched
<1>. Fetching /\ phase \in {"slow", "fast"}
    BY DEF Fetching
<1>1. state.cause = NONE
    BY InsnFacts DEF DebugAddrs, RomAddrs
<1>3. /\ state' \in State /\ state'.cause = NONE /\ state'.pc \in Addrs
      /\ state'.step = state.step /\ state'.ebreak = state.ebreak
      /\ state'.serialized = state.serialized
      /\ state'.single_step = LoopHead.single_step
    BY <1>1, HeadFacts DEF State, Prv
<1>4. GoodState(state', since')
    BY <1>1, <1>3, RetireGood DEF Csrs
<1>5. Counting' /\ phase' \in {"idle", "outer"}
    BY EndCounts
<1>. QED BY <1>4, <1>5, SinceFacts, Reassemble DEF HInv

(* The state in which an instruction of the program throws.                *)
LEMMA HeadGood ==
    ASSUME HInv, Fetching, state.cause = NONE
    PROVE  /\ GoodState(LoopHead, since)
           /\ LoopHead.cause = NONE /\ LoopHead.pc = state.pc /\ LoopHead.step = state.step
           /\ LoopHead.pc \in Addrs /\ LoopHead.ebreak = state.ebreak
<1>. GoodState(state, since) /\ state \in State
    BY DEF HInv, GoodState
<1>1. /\ LoopHead.cause = NONE /\ LoopHead.pc = state.pc /\ LoopHead.step = state.step
      /\ LoopHead.pc \in Addrs /\ LoopHead.ebreak = state.ebreak
      /\ LoopHead.serialized = state.serialized /\ LoopHead \in State
    BY HeadFacts, InsnFacts DEF State
<1>2. LoopHead.pc \notin DebugAddrs
    BY <1>1, AddrsAssumption
<1>. QED BY <1>1, <1>2, HeadFacts
     DEF GoodState, InRom, Stepping, DebugAddrs, RomAddrs, HInv

(* So is the state that a refused csr access leaves. *)
LEMMA ThrowingGood ==
    ASSUME HInv, Throw
    PROVE  /\ state.cause = NONE /\ Fetching
           /\ ThrowingState \in State /\ GoodState(ThrowingState, since)
           /\ ThrowingState.cause = NONE /\ ThrowingState.pc = state.pc
           /\ ThrowingState.pc \in Addrs
           /\ ThrowingState.step = state.step /\ ThrowingState.prv = LoopHead.prv
           /\ ThrowingState.ebreak = state.ebreak
           /\ \E sz \in BOOLEAN : ThrowingState = [LoopHead EXCEPT !.serialized = sz]
<1>1. Fetching /\ state.cause = NONE
    BY InsnFacts DEF Throw, Fetched, Csrs, DebugAddrs, RomAddrs
<1>2. /\ GoodState(LoopHead, since) /\ LoopHead.cause = NONE /\ LoopHead.pc = state.pc
      /\ LoopHead.pc \in Addrs /\ LoopHead.step = state.step
      /\ LoopHead.ebreak = state.ebreak
    BY <1>1, HeadGood
<1>3. LoopHead \in State
    BY <1>1, HeadFacts
<1>. DEFINE t == [LoopHead EXCEPT !.serialized = FALSE]
<1>4. /\ t \in State /\ t.cause = LoopHead.cause /\ t.pc = LoopHead.pc
      /\ t.prv = LoopHead.prv /\ t.step = LoopHead.step /\ t.ebreak = LoopHead.ebreak
      /\ t.single_step = LoopHead.single_step /\ ~t.serialized
    BY <1>3 DEF State
<1>5. t.pc \notin DebugAddrs
    BY <1>2, <1>4, AddrsAssumption
<1>6. GoodState(t, since)
    BY <1>2, <1>3, <1>4, <1>5 DEF GoodState, InRom, Stepping, DebugAddrs, RomAddrs
<1>7. LoopHead = [LoopHead EXCEPT !.serialized = LoopHead.serialized]
      /\ LoopHead.serialized \in BOOLEAN
    BY <1>3 DEF State
<1>. HIDE DEF t
<1>8. ThrowingState = t \/ ThrowingState = LoopHead
    BY DEF ThrowingState, t
<1>9. \E sz \in BOOLEAN : ThrowingState = [LoopHead EXCEPT !.serialized = sz]
    BY <1>7, <1>8 DEF t
<1>. QED BY <1>1, <1>2, <1>3, <1>4, <1>6, <1>8, <1>9

LEMMA ThrowKeeps == ASSUME HInv, Throw PROVE HInv'
<1>. USE DEF Throw, Frame, Fetched
<1>. Fetching /\ phase \in {"slow", "fast"}
    BY DEF Fetching
<1>1. state.cause = NONE
    BY ThrowingGood
<1>2. \A c \in {"breakpoint", "illegal"} : c \in Cause
    BY DEF Cause
<1>3. PICK c \in Cause : state' = AfterTrap(TakeTrap(ThrowingState, c, state.pc))
    BY <1>2
<1>4. program \in Programs
    BY DEF HInv
<1>5. GoodState(state', since')
    BY <1>1, <1>3, <1>4, ThrowingGood, TrapEndGood
<1>6. GiveUp(0, instret + 0)
    BY DEF HInv, Counting
<1>7. Counting' /\ phase' \in {"idle", "outer"}
    BY <1>6, EndCounts
<1>8. phase' = "idle"
    BY DEF GiveUp
<1>. QED BY <1>5, <1>7, <1>8, Reassemble DEF HInv

(* The program of an abstract command ends at an entry of the debug ROM.   *)
LEMMA RunCommandKeeps == ASSUME HInv, RunCommand PROVE HInv'
<1>. USE DEF RunCommand, Frame, Fetched
<1>. Fetching /\ phase \in {"slow", "fast"}
    BY DEF Fetching
<1>. GoodState(state, since) /\ state \in State
    BY DEF HInv, GoodState
<1>1. state.cause # NONE /\ state.pc = "abstract"
    BY InsnFacts DEF Insns, Csrs, DebugAddrs, RomAddrs
<1>2. LoopHead \in State /\ LoopHead.cause = state.cause /\ LoopHead.single_step = "none"
      /\ LoopHead.step = state.step /\ LoopHead.ebreak = state.ebreak
      /\ LoopHead.serialized = state.serialized
    BY <1>1, HeadFacts DEF State
<1>3. PICK c : state' = AfterTrap(TakeTrap(LoopHead, c, state.pc))
    OBVIOUS
<1>4. TakeTrap(LoopHead, c, state.pc) = TrapInDebugMode(LoopHead, c)
    BY <1>1, <1>2 DEF TakeTrap
<1>5. PICK entry \in {"rom_entry", "rom_tvec"} :
          TrapInDebugMode(LoopHead, c) = [LoopHead EXCEPT !.pc = entry]
    BY DEF TrapInDebugMode
<1>6. state' = [LoopHead EXCEPT !.pc = entry]
    BY <1>2, <1>3, <1>4, <1>5 DEF AfterTrap, State
<1>7. entry \in DebugAddrs /\ entry \notin Addrs /\ entry # "rom_park"
    BY AddrsAssumption DEF DebugAddrs, RomAddrs
<1>8. /\ state' \in State /\ state'.cause = state.cause /\ state'.pc = entry
      /\ state'.step = state.step /\ state'.ebreak = state.ebreak
      /\ state'.serialized = state.serialized /\ state'.single_step = "none"
    BY <1>2, <1>6, <1>7 DEF State
<1>9. GoodState(state', since')
    BY <1>1, <1>7, <1>8 DEF GoodState, InRom, Stepping
<1>10. GiveUp(0, instret + 0)
    BY DEF HInv, Counting
<1>11. Counting' /\ phase' \in {"idle", "outer"}
    BY <1>10, EndCounts
<1>. QED BY <1>9, <1>11, Reassemble DEF HInv

(* The hart leaves debug mode: the history starts again.                   *)
LEMMA DretKeeps == ASSUME HInv, Dret PROVE HInv'
<1>. USE DEF Dret, Frame, Fetched
<1>. Fetching /\ phase \in {"slow", "fast"}
    BY DEF Fetching
<1>. GoodState(state, since) /\ state \in State
    BY DEF HInv, GoodState
<1>1. state.cause # NONE /\ state.pc = "rom_resume"
    BY InsnFacts DEF Insns, Csrs, DebugAddrs, RomAddrs
<1>2. LoopHead \in State /\ LoopHead.single_step = "none" /\ ~LoopHead.serialized
      /\ LoopHead.step = state.step /\ LoopHead.ebreak = state.ebreak
      /\ LoopHead.dpc \in Addrs
    BY <1>1, HeadFacts DEF State, GoodState, InRom
<1>3. /\ state' \in State /\ state'.cause = NONE /\ state'.pc \in Addrs
      /\ state'.step = state.step /\ state'.ebreak = state.ebreak
      /\ ~state'.serialized
      /\ state'.single_step = IF state.step THEN "stepping" ELSE "none"
    BY <1>2 DEF State
<1>4. state'.pc \notin DebugAddrs
    BY <1>3, AddrsAssumption
<1>5. GoodState(state', since')
    BY <1>3, <1>4 DEF GoodState, InRom, Stepping, DebugAddrs, RomAddrs
<1>6. Counting' /\ phase' \in {"idle", "outer"}
    BY EndCounts
<1>. QED BY <1>5, <1>6, Reassemble DEF HInv

(* Either action of a trigger, at an instruction of the program.           *)
LEMMA TriggerGood ==
    ASSUME HInv, NEW s, NEW executed, GoodState(s, executed), s.cause = NONE,
           s.single_step = "stepped" => ~s.serialized
    PROVE  GoodState(TriggerAction(s), executed) /\ TriggerAction(s).cause # "step"
<1>1. s \in State /\ s.pc \in Addrs
      /\ program \in Programs /\ "breakpoint" \in Cause
    BY DEF GoodState, InRom, HInv, Cause
<1>2. CASE program.action = "debug"
    BY <1>1, <1>2, EnterGood DEF TriggerAction
<1>3. CASE program.action # "debug"
  <2>1. TriggerAction(s) = TakeTrap(s, "breakpoint", s.pc)
      BY <1>3 DEF TriggerAction
  <2>2. GoodState(TakeTrap(s, "breakpoint", s.pc), executed)
      BY <1>1, TrapGood
  <2>3. CASE s.prv \in s.ebreak
    <3>1. TakeTrap(s, "breakpoint", s.pc) = EnterDebugMode(s, "swbp")
        BY <2>3 DEF TakeTrap
    <3>. QED BY <1>1, <2>1, <2>2, <3>1 DEF EnterDebugMode, State
  <2>4. CASE s.prv \notin s.ebreak
      BY <1>1, <2>1, <2>2, <2>4, TrapFields DEF Undebugged, NONE
  <2>. QED BY <2>3, <2>4
<1>. QED BY <1>2, <1>3

LEMMA TriggerBeforeKeeps == ASSUME HInv, TriggerBefore PROVE HInv'
<1>. USE DEF TriggerBefore, Frame
<1>. Fetching /\ phase \in {"slow", "fast"}
    BY DEF Fetching
<1>1. state.cause = NONE
    BY InsnFacts
<1>2. LoopHead.single_step = "stepped" => ~LoopHead.serialized
    BY <1>1, HeadFacts, InsnFacts DEF State
<1>3. GoodState(state', since')
    BY <1>1, <1>2, HeadGood, TriggerGood
<1>4. instret = instret + 0
    BY DEF HInv, Counting
<1>5. Counting' /\ phase' \in {"idle", "outer"}
    BY <1>4, EndCounts
<1>. QED BY <1>3, <1>5, Reassemble DEF HInv

(* The state in which a trigger fires after the instruction.               *)
LEMMA AfterInsn ==
    ASSUME HInv, TriggerAfter
    PROVE  /\ state.cause = NONE /\ Fetching
           /\ GoodState([LoopHead EXCEPT !.pc = program.succ[state.pc]], Since(1))
           /\ [LoopHead EXCEPT !.pc = program.succ[state.pc]].cause = NONE
           /\ [LoopHead EXCEPT !.pc = program.succ[state.pc]].single_step = "stepped"
                => ~[LoopHead EXCEPT !.pc = program.succ[state.pc]].serialized
<1>. USE DEF TriggerAfter
<1>1. state.cause = NONE /\ Fetching
    BY InsnFacts
<1>2. Insn \notin Csrs /\ program.succ[state.pc] \in Addrs
    BY <1>1, InsnFacts DEF Csrs
<1>. DEFINE t == [LoopHead EXCEPT !.pc = program.succ[state.pc]]
<1>. state \in State
    BY DEF HInv, GoodState
<1>3. /\ t \in State /\ t.cause = NONE /\ t.pc \in Addrs
      /\ t.step = state.step /\ t.ebreak = state.ebreak
      /\ t.serialized = state.serialized /\ t.single_step = LoopHead.single_step
    BY <1>1, <1>2, HeadFacts DEF State
<1>4. GoodState(t, Since(1))
    BY <1>1, <1>2, <1>3, RetireGood
<1>5. t.single_step = "stepped" => ~t.serialized
    BY <1>1, <1>2, <1>3, HeadFacts, InsnFacts
<1>. QED BY <1>1, <1>3, <1>4, <1>5

LEMMA TriggerAfterKeeps == ASSUME HInv, TriggerAfter PROVE HInv'
<1>. USE DEF TriggerAfter, Frame
<1>. Fetching /\ phase \in {"slow", "fast"}
    BY DEF Fetching
<1>1. GoodState(state', since')
    BY AfterInsn, TriggerGood
<1>2. mip' \in SUBSET Irqs
    BY DEF HInv, Irqs
<1>3. Counting' /\ phase' \in {"idle", "outer"}
    BY EndCounts
<1>. QED BY <1>1, <1>2, <1>3, SinceFacts, Reassemble

(* The debugger and the devices, between two calls. *)
LEMMA WriteDcsrKeeps == ASSUME HInv, WriteDcsr PROVE HInv'
<1>. USE DEF WriteDcsr, Frame
<1>. GoodState(state, since) /\ state \in State
    BY DEF HInv, GoodState
<1>. PICK w \in DcsrWrites :
        state' = [state EXCEPT !.step = w.step, !.ebreak = w.ebreak, !.halt = w.halt]
    OBVIOUS
<1>1. /\ w.step \in BOOLEAN /\ w.ebreak \in SUBSET Prv /\ w.halt \in BOOLEAN
    BY DcsrAssumption
<1>2. state.cause # NONE
    BY AddrsAssumption DEF GoodState, InRom, DebugAddrs, RomAddrs
<1>3. /\ state' \in State /\ state'.cause = state.cause /\ state'.pc = state.pc
      /\ state'.serialized = state.serialized
      /\ state'.single_step = state.single_step
    BY <1>1 DEF State
<1>4. GoodState(state', since')
    BY <1>2, <1>3 DEF GoodState, InRom, Stepping
<1>5. Counting'
    BY DEF HInv, Counting
<1>. QED BY <1>4, <1>5, Reassemble DEF HInv

LEMMA OutsideKeeps ==
    ASSUME HInv, RequestHalt \/ ChangeInterrupts \/ UNCHANGED hvars
    PROVE  HInv'
<1>. USE DEF RequestHalt, ChangeInterrupts, hvars, Frame
<1>1. state' = state /\ since' = since /\ phase' = phase
      /\ program' = program /\ mip' \in SUBSET Irqs
    BY DEF HInv
<1>2. GoodState(state', since')
    BY <1>1 DEF HInv
<1>3. Counting'
    BY DEF HInv, Counting
<1>. QED BY <1>1, <1>2, <1>3, Reassemble DEF HInv

LEMMA HInvInit == ASSUME Init PROVE HInv
<1>. USE DEF Init
<1>1. program.start \in Addrs /\ program.prv \in Prv /\ program.start \notin DebugAddrs
    BY ProgramFacts, AddrsAssumption
<1>2. state \in State
    BY <1>1 DEF State, Prv, Cause, NONE
<1>3. state.cause = NONE /\ state.pc = program.start /\ ~state.step
      /\ state.ebreak = {} /\ state.single_step = "none"
    BY DEF NONE
<1>4. GoodState(state, since)
    BY <1>1, <1>2, <1>3 DEF GoodState, InRom, Stepping, DebugAddrs, RomAddrs
<1>5. Counting
    BY DEF Counting
<1>. QED BY <1>4, <1>5 DEF HInv

LEMMA HInvNext == ASSUME HInv, [Next]_hvars PROVE HInv'
BY StartStepKeeps, TakeInterruptKeeps, EnterLoopKeeps, EnterOnStepKeeps,
   CompleteKeeps, SerializeBeforeKeeps, SerializeAfterKeeps, WfiKeeps,
   MretKeeps, SretKeeps, ThrowKeeps, RunCommandKeeps, DretKeeps,
   TriggerBeforeKeeps, TriggerAfterKeeps, WriteDcsrKeeps, OutsideKeeps
DEF Next, Step

(* HInv is an invariant. *)
THEOREM HartInvariant == Spec => []HInv
BY HInvInit, HInvNext, PTL DEF Spec

-----------------------------------------------------------------------------
(* The properties.                                                         *)

(* With dcsr.step a resumed hart executes one instruction and no more,     *)
(* whichever quantum, restart, trap or trigger comes in between.           *)
THEOREM StepIsOneInstruction == Spec => []StepsOneInstruction
<1>1. HInv => StepsOneInstruction
    BY DEF HInv, GoodState, Stepping, StepsOneInstruction, State
<1>. QED BY <1>1, HartInvariant, PTL

(* However a call of step ends, minstret has counted every instruction of  *)
(* the program.                                                            *)
THEOREM CounterIsExact == Spec => []CountsExecuted
<1>1. HInv => CountsExecuted
    BY DEF HInv, Counting, CountsExecuted
<1>. QED BY <1>1, HartInvariant, PTL

(* No step is left over from an earlier resumption. *)
LEMMA StepOnRequest ==
    ASSUME HInv, [Next]_hvars, state.cause = NONE, state'.cause = "step"
    PROVE  state.step
<1>. GoodState(state, since) /\ state \in State /\ program \in Programs
    BY DEF HInv, GoodState
<1>0. "step" # NONE
    BY DEF NONE
<1>1. CASE StartStep
  <2>1. \/ state' = EnterDebugMode(state, "debugint")
        \/ state' = EnterDebugMode(state, "halt")
        \/ state' = state
      BY <1>1 DEF StartStep
  <2>. QED BY <2>1, <1>0 DEF EnterDebugMode, State
<1>2. CASE TakeInterrupt
  <2>1. Interrupt \in Cause /\ state.pc \in Addrs
      BY <1>2, InterruptFacts DEF TakeInterrupt, Cause, GoodState, InRom
  <2>. QED BY <1>2, <2>1, TrapEndGood DEF TakeInterrupt
<1>3. CASE EnterOnStep
    BY <1>3 DEF EnterOnStep, StepDone, GoodState, Stepping
<1>4. CASE Throw
  <2>1. "breakpoint" \in Cause /\ "illegal" \in Cause /\ Fetching
      BY <1>4 DEF Throw, Fetched, Cause
  <2>2. PICK c \in Cause : state' = AfterTrap(TakeTrap(ThrowingState, c, state.pc))
      BY <1>4, <2>1 DEF Throw
  <2>. QED BY <1>4, <2>1, <2>2, ThrowingGood, TrapEndGood
<1>5. CASE RunCommand
  <2>1. Fetching /\ Insn = "command"
      BY <1>5 DEF RunCommand, Fetched
  <2>. QED BY <2>1, InsnFacts DEF Insns, Csrs
<1>6. CASE TriggerBefore
  <2>1. Fetching /\ Trigger = "before" /\ state' = TriggerAction(LoopHead)
      BY <1>6 DEF TriggerBefore
  <2>2. LoopHead.single_step = "stepped" => ~LoopHead.serialized
      BY <2>1, HeadFacts, InsnFacts DEF State
  <2>. QED BY <2>1, <2>2, HeadGood, TriggerGood
<1>7. CASE TriggerAfter
    BY <1>7, AfterInsn, TriggerGood DEF TriggerAfter
<1>8. CASE Dret
    BY <1>8, InsnFacts DEF Dret, Fetched, Insns, Csrs
<1>9. CASE Complete \/ SerializeBefore \/ SerializeAfter \/ Wfi \/ Mret \/ Sret
  <2>1. Fetching
      BY <1>9 DEF Complete, SerializeBefore, SerializeAfter, Wfi, Mret, Sret, Fetched
  <2>2. LoopHead.cause = NONE /\ LoopHead \in State
      BY <2>1, HeadGood, HeadFacts
  <2>3. state'.cause = LoopHead.cause
      BY <1>9, <2>2
      DEF Complete, SerializeBefore, SerializeAfter, Wfi, Mret, Sret, AccessCsr, State
  <2>. QED BY <2>2, <2>3, <1>0
<1>10. CASE WriteDcsr
    BY <1>10, <1>0 DEF WriteDcsr, State
<1>11. CASE EnterLoop \/ RequestHalt \/ ChangeInterrupts \/ UNCHANGED hvars
    BY <1>11, <1>0 DEF EnterLoop, RequestHalt, ChangeInterrupts, hvars
<1>. QED BY <1>1, <1>2, <1>3, <1>4, <1>5, <1>6, <1>7, <1>8, <1>9, <1>10, <1>11
     DEF Next, Step

(* Debug mode is entered for a step only if the debugger asked for one.    *)
THEOREM StepsAreRequested == Spec => StepWasRequested
BY HartInvariant, StepOnRequest, PTL DEF Spec, StepWasRequested

-----------------------------------------------------------------------------
(* HartStep implements HartArchitecture.                                   *)

(* What the program sees of s: in debug mode, what dret restores. *)
View(s) ==
    [pc |-> IF s.cause = NONE THEN s.pc ELSE s.dpc,
     prv |-> IF s.cause = NONE THEN s.prv ELSE s.dprv,
     mepc |-> s.mepc, mcause |-> s.mcause, mpp |-> s.mpp, mie |-> s.mie, mpie |-> s.mpie,
     sepc |-> s.sepc, scause |-> s.scause, spp |-> s.spp, sie |-> s.sie, spie |-> s.spie]

ArchState ==
    [pc : Addrs \cup {"rom_entry"}, prv : Prv,
     mepc : Addrs, mcause : Cause, mpp : Prv, mie : BOOLEAN, mpie : BOOLEAN,
     sepc : Addrs, scause : Cause, spp : Prv, sie : BOOLEAN, spie : BOOLEAN]

LEMMA ViewType ==
    ASSUME NEW s \in State, s.cause = NONE, s.pc \in Addrs
    PROVE  View(s) \in ArchState
BY DEF View, State, ArchState

(* Records of this type with equal fields are equal. *)
LEMMA SameArch ==
    ASSUME NEW a \in ArchState, NEW b \in ArchState,
           a.pc = b.pc, a.prv = b.prv,
           a.mepc = b.mepc, a.mcause = b.mcause, a.mpp = b.mpp,
           a.mie = b.mie, a.mpie = b.mpie,
           a.sepc = b.sepc, a.scause = b.scause, a.spp = b.spp,
           a.sie = b.sie, a.spie = b.spie
    PROVE  a = b
BY DEF ArchState

(* The traps of the loop are those of the architecture. *)
LEMMA SupervisorTrapView ==
    ASSUME program \in Programs, NEW s \in State, s.cause = NONE, s.pc \in Addrs,
           NEW c \in Cause
    PROVE  View(TrapToSupervisor(s, c, s.pc)) = Arch!SupervisorTrap(View(s), c)
<1>. DEFINE t == TrapToSupervisor(s, c, s.pc)
            b == Arch!SupervisorTrap(View(s), c)
<1>1. /\ t \in State /\ t.cause = NONE /\ t.pc = program.stvec /\ t.prv = "S"
      /\ t.sepc = s.pc /\ t.scause = c /\ t.spp = s.prv
      /\ t.spie = s.sie /\ t.sie = FALSE
      /\ t.mepc = s.mepc /\ t.mcause = s.mcause /\ t.mpp = s.mpp
      /\ t.mie = s.mie /\ t.mpie = s.mpie
    BY ProgramFacts DEF TrapToSupervisor, State, Prv
<1>2. View(s) \in ArchState /\ View(t) \in ArchState /\ View(s).pc = s.pc
    BY <1>1, ViewType, ProgramFacts DEF View
<1>3. b \in ArchState
    BY <1>2, ProgramFacts DEF Arch!SupervisorTrap, ArchState, Prv
<1>4. /\ b.pc = program.stvec /\ b.prv = "S"
      /\ b.sepc = View(s).pc /\ b.scause = c /\ b.spp = View(s).prv
      /\ b.spie = View(s).sie /\ b.sie = FALSE
      /\ b.mepc = View(s).mepc /\ b.mcause = View(s).mcause /\ b.mpp = View(s).mpp
      /\ b.mie = View(s).mie /\ b.mpie = View(s).mpie
    BY <1>2 DEF Arch!SupervisorTrap, ArchState
<1>5. /\ View(t).pc = b.pc /\ View(t).prv = b.prv
      /\ View(t).mepc = b.mepc /\ View(t).mcause = b.mcause /\ View(t).mpp = b.mpp
      /\ View(t).mie = b.mie /\ View(t).mpie = b.mpie
      /\ View(t).sepc = b.sepc /\ View(t).scause = b.scause /\ View(t).spp = b.spp
      /\ View(t).sie = b.sie /\ View(t).spie = b.spie
  <2>. HIDE DEF t, b
  <2>. QED BY <1>1, <1>4 DEF View, State
<1>. QED BY <1>2, <1>3, <1>5, SameArch

LEMMA MachineTrapView ==
    ASSUME program \in Programs, NEW s \in State, s.cause = NONE, s.pc \in Addrs,
           NEW c \in Cause
    PROVE  View(TrapToMachine(s, c, s.pc)) = Arch!MachineTrap(View(s), c)
<1>. DEFINE t == TrapToMachine(s, c, s.pc)
            b == Arch!MachineTrap(View(s), c)
<1>1. /\ t \in State /\ t.cause = NONE /\ t.pc = program.mtvec /\ t.prv = "M"
      /\ t.mepc = s.pc /\ t.mcause = c /\ t.mpp = s.prv
      /\ t.mpie = s.mie /\ t.mie = FALSE
      /\ t.sepc = s.sepc /\ t.scause = s.scause /\ t.spp = s.spp
      /\ t.sie = s.sie /\ t.spie = s.spie
    BY ProgramFacts DEF TrapToMachine, State, Prv
<1>2. View(s) \in ArchState /\ View(t) \in ArchState /\ View(s).pc = s.pc
    BY <1>1, ViewType, ProgramFacts DEF View
<1>3. b \in ArchState
    BY <1>2, ProgramFacts DEF Arch!MachineTrap, ArchState, Prv
<1>4. /\ b.pc = program.mtvec /\ b.prv = "M"
      /\ b.mepc = View(s).pc /\ b.mcause = c /\ b.mpp = View(s).prv
      /\ b.mpie = View(s).mie /\ b.mie = FALSE
      /\ b.sepc = View(s).sepc /\ b.scause = View(s).scause /\ b.spp = View(s).spp
      /\ b.sie = View(s).sie /\ b.spie = View(s).spie
    BY <1>2 DEF Arch!MachineTrap, ArchState
<1>5. /\ View(t).pc = b.pc /\ View(t).prv = b.prv
      /\ View(t).mepc = b.mepc /\ View(t).mcause = b.mcause /\ View(t).mpp = b.mpp
      /\ View(t).mie = b.mie /\ View(t).mpie = b.mpie
      /\ View(t).sepc = b.sepc /\ View(t).scause = b.scause /\ View(t).spp = b.spp
      /\ View(t).sie = b.sie /\ View(t).spie = b.spie
  <2>. HIDE DEF t, b
  <2>. QED BY <1>1, <1>4 DEF View, State
<1>. QED BY <1>2, <1>3, <1>5, SameArch

(* Entering debug mode changes nothing of it. *)
LEMMA EnterView ==
    ASSUME NEW s \in State, s.cause = NONE,
           NEW c \in {"debugint", "halt", "step", "swbp", "hwbp"}
    PROVE  View(EnterDebugMode(s, c)) = View(s)
<1>1. EnterDebugMode(s, c).cause # NONE
    BY DEF EnterDebugMode, State, NONE
<1>. QED BY <1>1 DEF EnterDebugMode, State, View

LEMMA SingleStepView ==
    ASSUME NEW s \in State, NEW x
    PROVE  View([s EXCEPT !.single_step = x]) = View(s)
BY DEF State, View

(* A trap of the program is one of the architecture's, or leads to debug   *)
(* mode.                                                                   *)
LEMMA TrapView ==
    ASSUME program \in Programs, NEW s \in State, s.cause = NONE, s.pc \in Addrs,
           NEW c \in Arch!CausesAt(View(s)), c \in Cause
    PROVE  View(TakeTrap(s, c, s.pc)) \in {View(s)} \cup Arch!Trapped(View(s))
<1>1. CASE c = "breakpoint" /\ s.prv \in s.ebreak
  <2>1. TakeTrap(s, c, s.pc) = EnterDebugMode(s, "swbp")
      BY <1>1 DEF TakeTrap
  <2>. QED BY <2>1, EnterView
<1>2. CASE ~(c = "breakpoint" /\ s.prv \in s.ebreak)
  <2>1. View(s).pc = s.pc /\ View(s).prv = s.prv
      BY DEF View
  <2>2. CASE s.prv # "M" /\ c \in program.delegated
    <3>1. TakeTrap(s, c, s.pc) = TrapToSupervisor(s, c, s.pc)
        BY <1>2, <2>2 DEF TakeTrap
    <3>2. View(TrapToSupervisor(s, c, s.pc)) = Arch!SupervisorTrap(View(s), c)
        BY SupervisorTrapView
    <3>3. Arch!Delegated(View(s), c)
        BY <2>1, <2>2 DEF Arch!Delegated
    <3>. QED BY <3>1, <3>2, <3>3 DEF Arch!Trapped
  <2>3. CASE ~(s.prv # "M" /\ c \in program.delegated)
    <3>1. TakeTrap(s, c, s.pc) = TrapToMachine(s, c, s.pc)
        BY <1>2, <2>3 DEF TakeTrap
    <3>2. View(TrapToMachine(s, c, s.pc)) = Arch!MachineTrap(View(s), c)
        BY MachineTrapView
    <3>3. ~Arch!Delegated(View(s), c)
        BY <2>1, <2>3 DEF Arch!Delegated
    <3>. QED BY <3>1, <3>2, <3>3 DEF Arch!Trapped
  <2>. QED BY <2>2, <2>3
<1>. QED BY <1>1, <1>2

(* What the two entries for an ebreak in a single step leave.              *)
Lost(s, t) ==
    /\ s.step /\ s.prv \in s.ebreak
    /\ t.cause # NONE
    /\ View(t) = [View(s) EXCEPT !.pc = "rom_entry", !.prv = "M"]

LEMMA EnteredTwice ==
    ASSUME NEW s \in State, s.cause = NONE, s.pc \in Addrs, s.step,
           s.single_step = "stepped", s.prv \in s.ebreak, NEW epc
    PROVE  Lost(s, AfterTrap(TakeTrap(s, "breakpoint", epc)))
<1>. DEFINE t == EnterDebugMode(s, "swbp")
            u == [t EXCEPT !.single_step = "none"]
            v == EnterDebugMode(u, "step")
            b == [View(s) EXCEPT !.pc = "rom_entry", !.prv = "M"]
<1>1. TakeTrap(s, "breakpoint", epc) = t
    BY DEF TakeTrap
<1>2. t \in State /\ t.single_step = "stepped"
  <2>1. EnterDebugMode(s, "swbp") \in State
      BY EnterGood DEF GoodState
  <2>. QED BY <2>1 DEF EnterDebugMode, State
<1>3. AfterTrap(t) = v
    BY <1>2 DEF AfterTrap
<1>4. /\ u \in State /\ u.pc = "rom_entry" /\ u.prv = "M"
      /\ u.mepc = s.mepc /\ u.mcause = s.mcause /\ u.mpp = s.mpp
      /\ u.mie = s.mie /\ u.mpie = s.mpie
      /\ u.sepc = s.sepc /\ u.scause = s.scause /\ u.spp = s.spp
      /\ u.sie = s.sie /\ u.spie = s.spie
  <2>. HIDE DEF t
  <2>1. /\ t.pc = "rom_entry" /\ t.prv = "M"
        /\ t.mepc = s.mepc /\ t.mcause = s.mcause /\ t.mpp = s.mpp
        /\ t.mie = s.mie /\ t.mpie = s.mpie
        /\ t.sepc = s.sepc /\ t.scause = s.scause /\ t.spp = s.spp
        /\ t.sie = s.sie /\ t.spie = s.spie
      BY DEF t, EnterDebugMode, State
  <2>. QED BY <1>2, <2>1 DEF State
<1>5. /\ v.cause = "step" /\ v.dpc = "rom_entry" /\ v.dprv = "M"
      /\ v.mepc = s.mepc /\ v.mcause = s.mcause /\ v.mpp = s.mpp
      /\ v.mie = s.mie /\ v.mpie = s.mpie
      /\ v.sepc = s.sepc /\ v.scause = s.scause /\ v.spp = s.spp
      /\ v.sie = s.sie /\ v.spie = s.spie
  <2>. HIDE DEF u
  <2>. QED BY <1>4 DEF EnterDebugMode, State
<1>6. v.cause # NONE
    BY <1>5 DEF NONE
<1>7. /\ View(v).pc = "rom_entry" /\ View(v).prv = "M"
      /\ View(v).mepc = s.mepc /\ View(v).mcause = s.mcause /\ View(v).mpp = s.mpp
      /\ View(v).mie = s.mie /\ View(v).mpie = s.mpie
      /\ View(v).sepc = s.sepc /\ View(v).scause = s.scause /\ View(v).spp = s.spp
      /\ View(v).sie = s.sie /\ View(v).spie = s.spie
      /\ View(v) \in ArchState
  <2>. HIDE DEF v
  <2>. QED BY <1>5, <1>6 DEF View, ArchState, State, Prv
<1>8. /\ b.pc = "rom_entry" /\ b.prv = "M"
      /\ b.mepc = s.mepc /\ b.mcause = s.mcause /\ b.mpp = s.mpp
      /\ b.mie = s.mie /\ b.mpie = s.mpie
      /\ b.sepc = s.sepc /\ b.scause = s.scause /\ b.spp = s.spp
      /\ b.sie = s.sie /\ b.spie = s.spie
      /\ b \in ArchState
  <2>1. /\ View(s) \in ArchState
        /\ View(s).mepc = s.mepc /\ View(s).mcause = s.mcause /\ View(s).mpp = s.mpp
        /\ View(s).mie = s.mie /\ View(s).mpie = s.mpie
        /\ View(s).sepc = s.sepc /\ View(s).scause = s.scause /\ View(s).spp = s.spp
        /\ View(s).sie = s.sie /\ View(s).spie = s.spie
      BY ViewType DEF View
  <2>. QED BY <2>1 DEF ArchState, Prv
<1>. HIDE DEF t, u, v, b
<1>9. View(v) = b
    BY <1>7, <1>8, SameArch
<1>. QED BY <1>1, <1>3, <1>6, <1>9 DEF Lost, b

(* So is one that ends a single step, unless it is such an ebreak.         *)
LEMMA TrapEndView ==
    ASSUME program \in Programs, NEW executed,
           NEW s, GoodState(s, executed), s.cause = NONE,
           NEW c \in Arch!CausesAt(View(s)), c \in Cause
    PROVE  \/ View(AfterTrap(TakeTrap(s, c, s.pc))) \in {View(s)} \cup Arch!Trapped(View(s))
           \/ c = "breakpoint" /\ Lost(s, AfterTrap(TakeTrap(s, c, s.pc)))
<1>. s \in State /\ s.pc \in Addrs
    BY DEF GoodState, InRom
<1>1. PICK t : t = TakeTrap(s, c, s.pc)
    OBVIOUS
<1>2. View(t) \in {View(s)} \cup Arch!Trapped(View(s))
    BY <1>1, TrapView
<1>0. CASE s.single_step = "stepped" /\ c = "breakpoint" /\ s.prv \in s.ebreak
  <2>1. s.step
      BY <1>0 DEF GoodState, Stepping
  <2>. QED BY <1>0, <2>1, EnteredTwice
<1>3. CASE s.single_step = "stepped" /\ ~(c = "breakpoint" /\ s.prv \in s.ebreak)
  <2>2. Undebugged(s, t)
      BY <1>1, <1>3, TrapFields
  <2>. DEFINE u == [t EXCEPT !.single_step = "none"]
  <2>3. u \in State /\ u.cause = NONE /\ View(u) = View(t)
      BY <2>2, SingleStepView DEF State, Undebugged
  <2>4. AfterTrap(t) = EnterDebugMode(u, "step")
      BY <1>3, <2>2 DEF AfterTrap, Undebugged
  <2>. QED BY <1>1, <1>2, <2>3, <2>4, EnterView
<1>4. CASE s.single_step # "stepped"
  <2>1. t.single_step = s.single_step
    <3>1. CASE c = "breakpoint" /\ s.prv \in s.ebreak
      <4>1. t = EnterDebugMode(s, "swbp")
          BY <1>1, <3>1 DEF TakeTrap
      <4>. QED BY <4>1 DEF EnterDebugMode, State
    <3>2. CASE ~(c = "breakpoint" /\ s.prv \in s.ebreak)
        BY <1>1, <3>2, TrapFields DEF Undebugged
    <3>. QED BY <3>1, <3>2
  <2>. QED BY <1>1, <1>2, <1>4, <2>1 DEF AfterTrap
<1>. QED BY <1>0, <1>3, <1>4

(* A step outside debug mode: at most one instruction, then at most one    *)
(* trap.                                                                   *)
LEMMA RunStep ==
    ASSUME state.cause = NONE, UNCHANGED program,
           NEW r \in {View(state)} \cup Arch!Retired(View(state)),
           View(state') \in {r} \cup Arch!Trapped(r)
    PROVE  Arch!Run
<1>1. View(state') = View(state)'
    BY DEF View
<1>. QED BY <1>1 DEF Arch!Run, View

(* A step in debug mode, or one that neither executes nor traps.           *)
LEMMA StutterStep ==
    ASSUME UNCHANGED program, View(state') = View(state),
           (state'.cause = NONE) <=> (state.cause = NONE)
    PROVE  UNCHANGED Arch!avars
<1>1. View(state') = View(state)'
    BY DEF View
<1>. QED BY <1>1 DEF Arch!avars, View

(* The head of the loop and the ROM change nothing that the program sees.  *)
LEMMA HeadView ==
    ASSUME HInv, Fetching
    PROVE  /\ View(LoopHead) = View(state) /\ LoopHead \in State
           /\ LoopHead.cause = state.cause /\ LoopHead.pc = state.pc
BY HeadFacts, SingleStepView DEF HInv, GoodState, State

ArchStep == [Arch!Run \/ Arch!LoseEbreak \/ Arch!Resume]_(Arch!avars)

LEMMA EntryRuns ==
    ASSUME HInv, StartStep \/ EnterOnStep
    PROVE  ArchStep
<1>. state \in State
    BY DEF HInv, GoodState
<1>1. CASE StartStep
  <2>1. CASE state' = state
      BY <1>1, <2>1, StutterStep DEF StartStep, Frame, ArchStep
  <2>2. CASE state' # state
    <3>1. state.cause = NONE /\ View(state') = View(state)
        BY <1>1, <2>2, EnterView DEF StartStep
    <3>. QED BY <1>1, <3>1, RunStep DEF StartStep, Frame, ArchStep
  <2>. QED BY <2>1, <2>2
<1>2. CASE EnterOnStep
  <2>. DEFINE s == [state EXCEPT !.single_step = "none"]
  <2>1. s \in State /\ s.cause = NONE /\ View(s) = View(state)
      BY <1>2, SingleStepView DEF EnterOnStep, State
  <2>2. View(state') = View(state)
      BY <1>2, <2>1, EnterView DEF EnterOnStep
  <2>. QED BY <1>2, <2>2, RunStep DEF EnterOnStep, Frame, ArchStep
<1>. QED BY <1>1, <1>2

LEMMA TakeInterruptRuns == ASSUME HInv, TakeInterrupt PROVE ArchStep
<1>. USE DEF TakeInterrupt
<1>. GoodState(state, since) /\ state \in State /\ program \in Programs
    BY DEF HInv, GoodState
<1>1. /\ state.cause = NONE /\ Interrupt \in Irqs /\ Interrupt \in Cause
      /\ Interrupt \in EnabledInterrupts
    BY InterruptFacts DEF Cause
<1>2. View(state).prv = state.prv /\ View(state).mie = state.mie
      /\ View(state).sie = state.sie
    BY <1>1 DEF View
<1>3. Arch!Unmasked(View(state), Interrupt)
    BY <1>1, <1>2 DEF EnabledInterrupts, Arch!Unmasked
<1>4. Interrupt \in Arch!CausesAt(View(state))
    BY <1>1, <1>3 DEF Arch!CausesAt
<1>5. Interrupt # "breakpoint"
    BY <1>1 DEF Irqs
<1>. QED BY <1>1, <1>4, <1>5, TrapEndView, RunStep DEF Frame, ArchStep

LEMMA ThrowRuns == ASSUME HInv, Throw PROVE ArchStep
<1>. USE DEF Throw, Fetched
<1>. Fetching /\ program \in Programs
    BY DEF HInv
<1>1. state.cause = NONE
    BY ThrowingGood
<1>2. View(LoopHead) = View(state) /\ LoopHead \in State /\ LoopHead.cause = NONE
    BY <1>1, HeadView
<1>. DEFINE s == ThrowingState
<1>3. /\ View(s) = View(state) /\ s.pc = state.pc /\ s.cause = NONE
      /\ s.step = state.step /\ s.prv = state.prv /\ s.ebreak = state.ebreak
      /\ GoodState(s, since)
  <2>1. PICK sz \in BOOLEAN : s = [LoopHead EXCEPT !.serialized = sz]
      BY ThrowingGood
  <2>2. View(s) = View(LoopHead)
      BY <1>2, <2>1 DEF View, State
  <2>3. LoopHead.prv = state.prv
      BY <1>1, HeadFacts DEF HInv, GoodState, State
  <2>. QED BY <1>2, <2>2, <2>3, ThrowingGood
<1>. HIDE DEF s
<1>4. PICK c : /\ c = IF Insn = "ebreak" THEN "breakpoint" ELSE "illegal"
               /\ state' = AfterTrap(TakeTrap(s, c, s.pc))
    BY <1>3 DEF s
<1>5. /\ View(state).pc = state.pc /\ View(state).prv = state.prv
      /\ Insn = program.insn[state.pc]
    BY <1>1, InsnFacts DEF View
<1>6. c \in Arch!CausesAt(View(s)) /\ c \in Cause
    BY <1>3, <1>4, <1>5 DEF Arch!CausesAt, Arch!Forbidden, Illegal, Cause
<1>7. CASE View(state') \in {View(state)} \cup Arch!Trapped(View(state))
    BY <1>1, <1>7, RunStep DEF Frame, ArchStep
<1>8. CASE c = "breakpoint" /\ Lost(s, state')
  <2>1. /\ Insn = "ebreak" /\ state.step /\ state.prv \in state.ebreak
        /\ state'.cause # NONE
        /\ View(state') = [View(state) EXCEPT !.pc = "rom_entry", !.prv = "M"]
      BY <1>3, <1>4, <1>8 DEF Lost
  <2>2. View(state') = View(state)'
      BY DEF View
  <2>3. Arch!LoseEbreak
      BY <1>1, <1>5, <2>1, <2>2 DEF Arch!LoseEbreak, View, Frame
  <2>. QED BY <2>3 DEF ArchStep
<1>. QED BY <1>3, <1>4, <1>6, <1>7, <1>8, TrapEndView

(* Either action of a trigger is a breakpoint or a way into debug mode.    *)
LEMMA TriggerView ==
    ASSUME HInv, NEW s \in State, s.cause = NONE, s.pc \in Addrs
    PROVE  View(TriggerAction(s)) \in {View(s)} \cup Arch!Trapped(View(s))
<1>1. "breakpoint" \in Arch!CausesAt(View(s)) /\ "breakpoint" \in Cause
      /\ program \in Programs
    BY DEF Arch!CausesAt, Cause, HInv
<1>. QED BY <1>1, TrapView, EnterView DEF TriggerAction

LEMMA TriggerBeforeRuns == ASSUME HInv, TriggerBefore PROVE ArchStep
<1>. USE DEF TriggerBefore
<1>1. state.cause = NONE /\ Fetching
    BY InsnFacts
<1>2. View(state') \in {View(state)} \cup Arch!Trapped(View(state))
    BY <1>1, HeadView, HeadGood, TriggerView
<1>. QED BY <1>1, <1>2, RunStep DEF Frame, ArchStep

(* An instruction that goes on to the next pc.                             *)
LEMMA NextPcRetires ==
    ASSUME HInv, Fetching, state.cause = NONE, ~Illegal,
           Insn \in Csrs \cup {"plain", "wfi", "ipi"},
           NEW t \in State, t = [LoopHead EXCEPT !.pc = program.succ[state.pc],
                                             !.serialized = t.serialized]
    PROVE  View(t) \in Arch!Retired(View(state))
<1>. DEFINE a == View(state)
            b == [a EXCEPT !.pc = program.succ[state.pc]]
<1>. state \in State
    BY DEF HInv, GoodState
<1>1. /\ LoopHead \in State /\ LoopHead.cause = NONE /\ View(LoopHead) = a
      /\ state.pc \in Addrs /\ program.succ[state.pc] \in Addrs
      /\ a.pc = state.pc /\ Insn = program.insn[state.pc]
    BY HeadView, InsnFacts DEF View
<1>2. a \in ArchState /\ View(LoopHead) \in ArchState
    BY <1>1, ViewType
<1>3. b \in ArchState /\ b.pc = program.succ[state.pc] /\ b.prv = a.prv
      /\ b.mepc = a.mepc /\ b.mcause = a.mcause /\ b.mpp = a.mpp
      /\ b.mie = a.mie /\ b.mpie = a.mpie
      /\ b.sepc = a.sepc /\ b.scause = a.scause /\ b.spp = a.spp
      /\ b.sie = a.sie /\ b.spie = a.spie
    BY <1>1, <1>2 DEF ArchState
<1>4. /\ t.cause = NONE /\ t.pc = program.succ[state.pc] /\ t.prv = LoopHead.prv
      /\ t.mepc = LoopHead.mepc /\ t.mcause = LoopHead.mcause /\ t.mpp = LoopHead.mpp
      /\ t.mie = LoopHead.mie /\ t.mpie = LoopHead.mpie
      /\ t.sepc = LoopHead.sepc /\ t.scause = LoopHead.scause /\ t.spp = LoopHead.spp
      /\ t.sie = LoopHead.sie /\ t.spie = LoopHead.spie
    BY <1>1 DEF State
<1>5. View(t) \in ArchState
    BY <1>1, <1>4, ViewType
<1>6. View(t) = b
  <2>1. /\ View(t).pc = b.pc /\ View(t).prv = View(LoopHead).prv
        /\ View(t).mepc = View(LoopHead).mepc /\ View(t).mcause = View(LoopHead).mcause
        /\ View(t).mpp = View(LoopHead).mpp /\ View(t).mie = View(LoopHead).mie
        /\ View(t).mpie = View(LoopHead).mpie /\ View(t).sepc = View(LoopHead).sepc
        /\ View(t).scause = View(LoopHead).scause /\ View(t).spp = View(LoopHead).spp
        /\ View(t).sie = View(LoopHead).sie /\ View(t).spie = View(LoopHead).spie
    <3>. HIDE DEF b
    <3>. QED BY <1>1, <1>3, <1>4 DEF View, State
  <2>. HIDE DEF a, b
  <2>. QED BY <1>1, <1>3, <1>5, <2>1, SameArch
<1>7. b \in Arch!Retired(a)
  <2>1. a.prv = state.prv
      BY DEF View
  <2>. HIDE DEF a
  <2>. QED BY <1>1, <2>1 DEF Arch!Retired, Arch!Forbidden, Illegal, Csrs
<1>. QED BY <1>6, <1>7

(* The state after such an instruction is a state.                         *)
LEMMA NextPcState ==
    ASSUME HInv, Fetching, state.cause = NONE, NEW sz \in BOOLEAN,
           NEW t, t = [LoopHead EXCEPT !.pc = program.succ[state.pc], !.serialized = sz]
    PROVE  /\ t \in State /\ t.cause = NONE /\ t.pc \in Addrs
           /\ t = [LoopHead EXCEPT !.pc = program.succ[state.pc], !.serialized = t.serialized]
BY HeadView, InsnFacts DEF State

LEMMA KeptSerialized ==
    ASSUME HInv, Fetching, NEW next
    PROVE  [LoopHead EXCEPT !.pc = next]
              = [LoopHead EXCEPT !.pc = next, !.serialized = state.serialized]
<1>. state \in State
    BY DEF HInv, GoodState
<1>. QED BY HeadFacts DEF State

LEMMA TriggerAfterRuns == ASSUME HInv, TriggerAfter PROVE ArchStep
<1>. USE DEF TriggerAfter
<1>. DEFINE t == [LoopHead EXCEPT !.pc = program.succ[state.pc]]
<1>. state \in State
    BY DEF HInv, GoodState
<1>1. state.cause = NONE /\ Fetching /\ Insn \in {"plain", "ipi"} /\ ~Illegal
    BY InsnFacts DEF Illegal
<1>2. state.serialized \in BOOLEAN
      /\ t = [LoopHead EXCEPT !.pc = program.succ[state.pc], !.serialized = state.serialized]
    BY <1>1, KeptSerialized DEF State
<1>3. /\ t \in State /\ t.cause = NONE /\ t.pc \in Addrs
      /\ t = [LoopHead EXCEPT !.pc = program.succ[state.pc], !.serialized = t.serialized]
    BY <1>1, <1>2, NextPcState
<1>4. View(t) \in Arch!Retired(View(state))
    BY <1>1, <1>3, NextPcRetires
<1>5. View(state') \in {View(t)} \cup Arch!Trapped(View(t))
    BY <1>3, TriggerView
<1>. QED BY <1>1, <1>4, <1>5, RunStep DEF Frame, ArchStep

(* A turn of the loop in debug mode that stays there.                      *)
LEMMA RomStutters ==
    ASSUME HInv, Fetching, UNCHANGED program, state.cause # NONE,
           NEW pc, NEW sz, state' = [LoopHead EXCEPT !.pc = pc, !.serialized = sz]
    PROVE  ArchStep
<1>. LoopHead \in State /\ View(LoopHead) = View(state) /\ LoopHead.cause = state.cause
    BY HeadView
<1>1. state'.cause = state.cause /\ View(state') = View(LoopHead)
    BY DEF State, View
<1>. QED BY <1>1, StutterStep DEF ArchStep

LEMMA RetireRuns ==
    ASSUME HInv, Complete \/ SerializeAfter \/ Wfi
    PROVE  ArchStep
<1>. state \in State
    BY DEF HInv, GoodState
<1>1. /\ Fetching /\ Insn \in Csrs \cup {"plain", "wfi", "ipi"} /\ ~Illegal
      /\ UNCHANGED program
    BY DEF Complete, SerializeAfter, Wfi, Fetched, Frame, Illegal
<1>2. PICK next \in Succs : \/ state' = [LoopHead EXCEPT !.pc = next]
                            \/ state' = AccessCsr(LoopHead, next)
    BY DEF Complete, SerializeAfter, Wfi
<1>3. \E sz \in BOOLEAN : state' = [LoopHead EXCEPT !.pc = next, !.serialized = sz]
  <2>1. state.serialized \in BOOLEAN /\ FALSE \in BOOLEAN
      BY DEF State
  <2>2. AccessCsr(LoopHead, next) = [LoopHead EXCEPT !.pc = next, !.serialized = FALSE]
      BY DEF AccessCsr
  <2>. QED BY <1>1, <1>2, <2>1, <2>2, KeptSerialized
<1>4. PICK sz \in BOOLEAN : state' = [LoopHead EXCEPT !.pc = next, !.serialized = sz]
    BY <1>3
<1>5. CASE state.cause = NONE
  <2>1. next = program.succ[state.pc]
      BY <1>5, InsnFacts
  <2>2. View(state') \in Arch!Retired(View(state))
      BY <1>1, <1>4, <1>5, <2>1, NextPcState, NextPcRetires
  <2>. QED BY <1>1, <1>5, <2>2, RunStep DEF ArchStep
<1>6. CASE state.cause # NONE
    BY <1>1, <1>4, <1>6, RomStutters
<1>. QED BY <1>5, <1>6

LEMMA MretRuns == ASSUME HInv, Mret PROVE ArchStep
<1>. USE DEF Mret, Fetched
<1>. state \in State
    BY DEF HInv, GoodState
<1>. DEFINE a == View(state)
            b == [a EXCEPT !.pc = a.mepc, !.prv = a.mpp, !.mie = a.mpie,
                           !.mpie = TRUE, !.mpp = "U"]
<1>1. state.cause = NONE /\ Fetching
    BY InsnFacts DEF DebugAddrs, RomAddrs
<1>2. /\ LoopHead \in State /\ LoopHead.cause = NONE /\ View(LoopHead) = a
      /\ a.pc = state.pc /\ a.prv = "M" /\ program.insn[state.pc] = "mret"
    BY <1>1, HeadView, InsnFacts DEF View, Illegal
<1>3. a \in ArchState
    BY <1>1, ViewType, InsnFacts
<1>4. b \in ArchState /\ b.pc = a.mepc /\ b.prv = a.mpp
      /\ b.mepc = a.mepc /\ b.mcause = a.mcause /\ b.mpp = "U"
      /\ b.mie = a.mpie /\ b.mpie = TRUE
      /\ b.sepc = a.sepc /\ b.scause = a.scause /\ b.spp = a.spp
      /\ b.sie = a.sie /\ b.spie = a.spie
  <2>. HIDE DEF a
  <2>. QED BY <1>3 DEF ArchState, Prv
<1>5. /\ state' \in State /\ state'.cause = NONE /\ state'.pc = LoopHead.mepc
      /\ state'.prv = LoopHead.mpp /\ state'.pc \in Addrs
      /\ state'.mepc = LoopHead.mepc /\ state'.mcause = LoopHead.mcause /\ state'.mpp = "U"
      /\ state'.mie = LoopHead.mpie /\ state'.mpie = TRUE
      /\ state'.sepc = LoopHead.sepc /\ state'.scause = LoopHead.scause /\ state'.spp = LoopHead.spp
      /\ state'.sie = LoopHead.sie /\ state'.spie = LoopHead.spie
    BY <1>2 DEF State, Prv
<1>6. PICK t : t = View(state') /\ t \in ArchState
    BY <1>5, ViewType
<1>7. /\ t.pc = LoopHead.mepc /\ t.prv = LoopHead.mpp
      /\ t.mepc = LoopHead.mepc /\ t.mcause = LoopHead.mcause /\ t.mpp = "U"
      /\ t.mie = LoopHead.mpie /\ t.mpie = TRUE
      /\ t.sepc = LoopHead.sepc /\ t.scause = LoopHead.scause /\ t.spp = LoopHead.spp
      /\ t.sie = LoopHead.sie /\ t.spie = LoopHead.spie
    BY <1>5, <1>6 DEF View
<1>8. /\ a.mepc = LoopHead.mepc /\ a.mcause = LoopHead.mcause /\ a.mpp = LoopHead.mpp
      /\ a.mpie = LoopHead.mpie
      /\ a.sepc = LoopHead.sepc /\ a.scause = LoopHead.scause /\ a.spp = LoopHead.spp
      /\ a.sie = LoopHead.sie /\ a.spie = LoopHead.spie
  <2>1. /\ View(LoopHead).mepc = LoopHead.mepc /\ View(LoopHead).mcause = LoopHead.mcause
        /\ View(LoopHead).mpp = LoopHead.mpp /\ View(LoopHead).mpie = LoopHead.mpie
        /\ View(LoopHead).sepc = LoopHead.sepc /\ View(LoopHead).scause = LoopHead.scause
        /\ View(LoopHead).spp = LoopHead.spp
        /\ View(LoopHead).sie = LoopHead.sie /\ View(LoopHead).spie = LoopHead.spie
      BY DEF View
  <2>. QED BY <1>2, <2>1
<1>9. t = b
  <2>. HIDE DEF a, b
  <2>1. /\ t.pc = b.pc /\ t.prv = b.prv
        /\ t.mepc = b.mepc /\ t.mcause = b.mcause /\ t.mpp = b.mpp
        /\ t.mie = b.mie /\ t.mpie = b.mpie
        /\ t.sepc = b.sepc /\ t.scause = b.scause /\ t.spp = b.spp
        /\ t.sie = b.sie /\ t.spie = b.spie
      BY <1>4, <1>7, <1>8
  <2>. QED BY <1>4, <1>6, <2>1, SameArch
<1>10. b \in Arch!Retired(a)
  <2>. HIDE DEF a
  <2>. QED BY <1>2 DEF Arch!Retired, Arch!Forbidden
<1>. QED BY <1>1, <1>6, <1>9, <1>10, RunStep DEF Frame, ArchStep

LEMMA SretRuns == ASSUME HInv, Sret PROVE ArchStep
<1>. USE DEF Sret, Fetched
<1>. state \in State
    BY DEF HInv, GoodState
<1>. DEFINE a == View(state)
            b == [a EXCEPT !.pc = a.sepc, !.prv = a.spp, !.sie = a.spie,
                           !.spie = TRUE, !.spp = "U"]
<1>1. state.cause = NONE /\ Fetching
    BY InsnFacts DEF DebugAddrs, RomAddrs
<1>2. /\ LoopHead \in State /\ LoopHead.cause = NONE /\ View(LoopHead) = a
      /\ a.pc = state.pc /\ a.prv # "U" /\ program.insn[state.pc] = "sret"
    BY <1>1, HeadView, InsnFacts DEF View, Illegal
<1>3. a \in ArchState
    BY <1>1, ViewType, InsnFacts
<1>4. b \in ArchState /\ b.pc = a.sepc /\ b.prv = a.spp
      /\ b.sepc = a.sepc /\ b.scause = a.scause /\ b.spp = "U"
      /\ b.sie = a.spie /\ b.spie = TRUE
      /\ b.mepc = a.mepc /\ b.mcause = a.mcause /\ b.mpp = a.mpp
      /\ b.mie = a.mie /\ b.mpie = a.mpie
  <2>. HIDE DEF a
  <2>. QED BY <1>3 DEF ArchState, Prv
<1>5. /\ state' \in State /\ state'.cause = NONE /\ state'.pc = LoopHead.sepc
      /\ state'.prv = LoopHead.spp /\ state'.pc \in Addrs
      /\ state'.sepc = LoopHead.sepc /\ state'.scause = LoopHead.scause /\ state'.spp = "U"
      /\ state'.sie = LoopHead.spie /\ state'.spie = TRUE
      /\ state'.mepc = LoopHead.mepc /\ state'.mcause = LoopHead.mcause /\ state'.mpp = LoopHead.mpp
      /\ state'.mie = LoopHead.mie /\ state'.mpie = LoopHead.mpie
    BY <1>2 DEF State, Prv
<1>6. PICK t : t = View(state') /\ t \in ArchState
    BY <1>5, ViewType
<1>7. /\ t.pc = LoopHead.sepc /\ t.prv = LoopHead.spp
      /\ t.sepc = LoopHead.sepc /\ t.scause = LoopHead.scause /\ t.spp = "U"
      /\ t.sie = LoopHead.spie /\ t.spie = TRUE
      /\ t.mepc = LoopHead.mepc /\ t.mcause = LoopHead.mcause /\ t.mpp = LoopHead.mpp
      /\ t.mie = LoopHead.mie /\ t.mpie = LoopHead.mpie
    BY <1>5, <1>6 DEF View
<1>8. /\ a.sepc = LoopHead.sepc /\ a.scause = LoopHead.scause /\ a.spp = LoopHead.spp
      /\ a.spie = LoopHead.spie
      /\ a.mepc = LoopHead.mepc /\ a.mcause = LoopHead.mcause /\ a.mpp = LoopHead.mpp
      /\ a.mie = LoopHead.mie /\ a.mpie = LoopHead.mpie
  <2>1. /\ View(LoopHead).sepc = LoopHead.sepc /\ View(LoopHead).scause = LoopHead.scause
        /\ View(LoopHead).spp = LoopHead.spp /\ View(LoopHead).spie = LoopHead.spie
        /\ View(LoopHead).mepc = LoopHead.mepc /\ View(LoopHead).mcause = LoopHead.mcause
        /\ View(LoopHead).mpp = LoopHead.mpp
        /\ View(LoopHead).mie = LoopHead.mie /\ View(LoopHead).mpie = LoopHead.mpie
      BY DEF View
  <2>. QED BY <1>2, <2>1
<1>9. t = b
  <2>. HIDE DEF a, b
  <2>1. /\ t.pc = b.pc /\ t.prv = b.prv
        /\ t.mepc = b.mepc /\ t.mcause = b.mcause /\ t.mpp = b.mpp
        /\ t.mie = b.mie /\ t.mpie = b.mpie
        /\ t.sepc = b.sepc /\ t.scause = b.scause /\ t.spp = b.spp
        /\ t.sie = b.sie /\ t.spie = b.spie
      BY <1>4, <1>7, <1>8
  <2>. QED BY <1>4, <1>6, <2>1, SameArch
<1>10. b \in Arch!Retired(a)
  <2>. HIDE DEF a
  <2>. QED BY <1>2 DEF Arch!Retired, Arch!Forbidden
<1>. QED BY <1>1, <1>6, <1>9, <1>10, RunStep DEF Frame, ArchStep

(* Actions that neither execute nor trap nor leave debug mode.             *)
LEMMA OthersStutter ==
    ASSUME HInv,
           \/ EnterLoop \/ SerializeBefore \/ RunCommand
           \/ RequestHalt \/ ChangeInterrupts \/ WriteDcsr \/ UNCHANGED hvars
    PROVE  ArchStep
<1>. state \in State /\ InRom(state)
    BY DEF HInv, GoodState
<1>1. CASE EnterLoop \/ RequestHalt \/ ChangeInterrupts \/ UNCHANGED hvars
  <2>1. state' = state /\ UNCHANGED program
      BY <1>1 DEF EnterLoop, RequestHalt, ChangeInterrupts, hvars, Frame
  <2>. QED BY <2>1, StutterStep DEF ArchStep
<1>2. CASE SerializeBefore
  <2>1. Fetching /\ UNCHANGED program /\ state' = [LoopHead EXCEPT !.serialized = TRUE]
      BY <1>2 DEF SerializeBefore, Fetched, Frame
  <2>2. LoopHead \in State /\ View(LoopHead) = View(state) /\ LoopHead.cause = state.cause
      BY <2>1, HeadView
  <2>3. state'.cause = state.cause /\ View(state') = View(LoopHead)
      BY <2>1, <2>2 DEF State, View
  <2>. QED BY <2>1, <2>2, <2>3, StutterStep DEF ArchStep
<1>3. CASE RunCommand
  <2>1. Fetching /\ UNCHANGED program /\ state.cause # NONE /\ state.pc = "abstract"
      BY <1>3, InsnFacts DEF RunCommand, Fetched, Frame, Insns, Csrs, DebugAddrs, RomAddrs
  <2>2. PICK c : state' = AfterTrap(TakeTrap(LoopHead, c, state.pc))
      BY <1>3 DEF RunCommand
  <2>3. LoopHead \in State /\ View(LoopHead) = View(state) /\ LoopHead.cause = state.cause
      BY <2>1, HeadView
  <2>4. LoopHead.single_step = "none"
      BY <2>1, HeadFacts
  <2>5. TakeTrap(LoopHead, c, state.pc) = TrapInDebugMode(LoopHead, c)
      BY <2>1, <2>3 DEF TakeTrap
  <2>6. PICK entry : TrapInDebugMode(LoopHead, c) = [LoopHead EXCEPT !.pc = entry]
      BY DEF TrapInDebugMode
  <2>7. state' = [LoopHead EXCEPT !.pc = entry]
      BY <2>2, <2>3, <2>4, <2>5, <2>6 DEF AfterTrap, State
  <2>8. state'.cause = state.cause /\ View(state') = View(LoopHead)
      BY <2>1, <2>3, <2>7 DEF State, View
  <2>. QED BY <2>1, <2>3, <2>8, StutterStep DEF ArchStep
<1>4. CASE WriteDcsr
  <2>1. PICK w : state' = [state EXCEPT !.step = w.step, !.ebreak = w.ebreak,
                                        !.halt = w.halt]
      BY <1>4 DEF WriteDcsr
  <2>2. state'.cause = state.cause /\ View(state') = View(state)
      BY <2>1 DEF State, View
  <2>. QED BY <1>4, <2>2, StutterStep DEF WriteDcsr, Frame, ArchStep
<1>. QED BY <1>1, <1>2, <1>3, <1>4

(* dret gives back the pc and the privilege that were saved.               *)
LEMMA DretResumes == ASSUME HInv, Dret PROVE ArchStep
<1>. USE DEF Dret, Fetched
<1>. Fetching
    OBVIOUS
<1>1. state.cause # NONE /\ UNCHANGED program
    BY InsnFacts DEF Insns, Csrs, DebugAddrs, RomAddrs, Frame
<1>2. LoopHead \in State /\ View(LoopHead) = View(state) /\ LoopHead.cause # NONE
    BY <1>1, HeadView
<1>3. state'.cause = NONE /\ View(state') = View(LoopHead)
    BY <1>2 DEF State, View
<1>4. View(state)' = View(state)
    BY <1>2, <1>3 DEF View
<1>5. Arch!Resume
    BY <1>1, <1>3, <1>4 DEF Arch!Resume, View
<1>. QED BY <1>5 DEF ArchStep

LEMMA NextRuns == ASSUME HInv, [Next]_hvars PROVE ArchStep
BY EntryRuns, TakeInterruptRuns, RetireRuns, MretRuns, SretRuns, ThrowRuns,
   TriggerBeforeRuns, TriggerAfterRuns, DretResumes, OthersStutter
DEF Next, Step

LEMMA InitViews == ASSUME Init PROVE Arch!ArchInit
<1>1. state.cause = NONE /\ state.pc = program.start
    BY DEF Init
<1>. QED BY <1>1 DEF Arch!ArchInit

(* Instructions, traps and debug mode follow the architecture, although    *)
(* instructions are restarted and quanta end anywhere.                     *)
THEOREM HartImplementsArchitecture == Spec => ImplementsArchitecture
BY HartInvariant, NextRuns, InitViews, PTL
DEF Spec, ImplementsArchitecture, Arch!ArchSpec, ArchStep

-----------------------------------------------------------------------------
(* The order of descriptors, and lists arranged by it.                     *)

LEMMA WordsType ==
    /\ Words \subseteq Nat /\ IsFiniteSet(Words)
    /\ 0 \in Words
<1>1. 2 ^ WordBits \in Nat \ {0}
    BY SizesAssumption, PowerDouble
<1>2. IsFiniteSet(0 .. 2 ^ WordBits - 1)
    BY <1>1, FS_Interval
<1>. QED BY <1>1, <1>2 DEF Words

LEMMA DescriptorsFinite == IsFiniteSet(Descriptors)
<1>. DEFINE f == [p \in Words \X Words |-> [match |-> p[1], mask |-> p[2]]]
<1>1. IsFiniteSet(Words \X Words)
    BY WordsType, FS_Product
<1>2. f \in [Words \X Words -> Descriptors]
    BY DEF Descriptors
<1>3. ASSUME NEW d \in Descriptors PROVE \E p \in Words \X Words : f[p] = d
  <2>1. d.match \in Words /\ d.mask \in Words /\ d = [match |-> d.match, mask |-> d.mask]
      BY DEF Descriptors
  <2>2. f[<<d.match, d.mask>>] = d
      BY <2>1
  <2>. QED BY <2>1, <2>2
<1>. HIDE DEF f
<1>4. f \in Surjection(Words \X Words, Descriptors)
    BY <1>2, <1>3 DEF Surjection
<1>. QED BY <1>1, <1>4, FS_Surjection

(* Before is a strict total order, and illegal_instruction is last in it.  *)
LEMMA BeforeOrders ==
    ASSUME NEW d \in Descriptors, NEW e \in Descriptors
    PROVE  /\ ~Before(d, d)
           /\ Before(d, e) => ~Before(e, d)
           /\ d # e => Before(d, e) \/ Before(e, d)
           /\ \A f \in Descriptors : Before(d, e) /\ Before(e, f) => Before(d, f)
           /\ d # illegal_instruction => Before(d, illegal_instruction)
<1>1. \A f \in Descriptors : /\ f.match \in Nat /\ f.mask \in Nat
                             /\ f = [match |-> f.match, mask |-> f.mask]
  <2>. SUFFICES ASSUME NEW f \in Descriptors
                PROVE  /\ f.match \in Nat /\ f.mask \in Nat
                       /\ f = [match |-> f.match, mask |-> f.mask]
      OBVIOUS
  <2>1. f.match \in Words /\ f.mask \in Words /\ f = [match |-> f.match, mask |-> f.mask]
      BY DEF Descriptors
  <2>. QED BY <2>1, WordsType
<1>2. d # e => d.match # e.match \/ d.mask # e.mask
    BY <1>1
<1>3. d # illegal_instruction => d.match > 0 \/ d.mask > 0
    BY <1>1 DEF illegal_instruction
<1>4. illegal_instruction.match = 0 /\ illegal_instruction.mask = 0
    BY DEF illegal_instruction
<1>5. \A f \in Descriptors : Before(d, e) /\ Before(e, f) => Before(d, f)
    BY <1>1 DEF Before
<1>6. d # e => Before(d, e) \/ Before(e, d)
    BY <1>1, <1>2 DEF Before
<1>7. ~Before(d, d) /\ (Before(d, e) => ~Before(e, d))
    BY <1>1 DEF Before
<1>8. d # illegal_instruction => Before(d, illegal_instruction)
    BY <1>1, <1>3, <1>4 DEF Before
<1>. QED BY <1>5, <1>6, <1>7, <1>8

(* How many descriptors come before one. *)
Rank(descs, d) == Cardinality({e \in descs : Before(e, d)})

LEMMA RankType ==
    ASSUME NEW descs \in SUBSET Descriptors, NEW d \in descs
    PROVE  /\ IsFiniteSet(descs) /\ Cardinality(descs) \in Nat
           /\ Rank(descs, d) \in 0 .. Cardinality(descs) - 1
<1>. DEFINE B == {e \in descs : Before(e, d)}
<1>1. IsFiniteSet(descs) /\ Cardinality(descs) \in Nat
    BY DescriptorsFinite, FS_Subset, FS_CardinalityType
<1>2. B \in SUBSET (descs \ {d})
    BY BeforeOrders
<1>3. IsFiniteSet(descs \ {d}) /\ Cardinality(descs \ {d}) = Cardinality(descs) - 1
    BY <1>1, FS_RemoveElement
<1>. HIDE DEF B
<1>4. IsFiniteSet(B) /\ Cardinality(B) <= Cardinality(descs) - 1
    BY <1>2, <1>3, FS_Subset
<1>5. Cardinality(B) \in Nat
    BY <1>4, FS_CardinalityType
<1>. QED BY <1>1, <1>4, <1>5 DEF Rank, B

LEMMA RankOrders ==
    ASSUME NEW descs \in SUBSET Descriptors, NEW d \in descs, NEW e \in descs, Before(d, e)
    PROVE  Rank(descs, d) < Rank(descs, e)
<1>. DEFINE B(x) == {y \in descs : Before(y, x)}
<1>1. IsFiniteSet(descs)
    BY RankType
<1>2. B(d) \cup {d} \in SUBSET B(e) /\ d \notin B(d)
    BY BeforeOrders
<1>3. IsFiniteSet(B(d)) /\ IsFiniteSet(B(e))
  <2>1. B(d) \in SUBSET descs /\ B(e) \in SUBSET descs
      OBVIOUS
  <2>. HIDE DEF B
  <2>. QED BY <1>1, <2>1, FS_Subset
<1>. PICK D : D = B(d)
    OBVIOUS
<1>. PICK E : E = B(e)
    OBVIOUS
<1>. HIDE DEF B
<1>4. Cardinality(D \cup {d}) = Cardinality(D) + 1 /\ Cardinality(D) \in Nat
    BY <1>2, <1>3, FS_AddElement, FS_CardinalityType
<1>5. Cardinality(D \cup {d}) <= Cardinality(E) /\ Cardinality(E) \in Nat
    BY <1>2, <1>3, FS_Subset, FS_CardinalityType
<1>6. Rank(descs, d) = Cardinality(D) /\ Rank(descs, e) = Cardinality(E)
    BY DEF Rank, B
<1>. QED BY <1>4, <1>5, <1>6

(* Every place of the sorted list is taken. *)
LEMMA RankOnto ==
    ASSUME NEW descs \in SUBSET Descriptors, NEW i \in 1 .. Cardinality(descs)
    PROVE  \E d \in descs : Rank(descs, d) = i - 1
<1>1. IsFiniteSet(descs) /\ Cardinality(descs) \in Nat
    BY DescriptorsFinite, FS_Subset, FS_CardinalityType
<1>. PICK N \in Nat : N = Cardinality(descs)
    BY <1>1
<1>. DEFINE f == [d \in descs |-> Rank(descs, d) + 1]
<1>2. f \in [descs -> 1 .. N]
    BY RankType
<1>3. ASSUME NEW d \in descs, NEW e \in descs, f[d] = f[e] PROVE d = e
  <2>1. /\ f[d] = Rank(descs, d) + 1 /\ f[e] = Rank(descs, e) + 1
        /\ Rank(descs, d) \in Nat /\ Rank(descs, e) \in Nat
      BY <1>2, RankType
  <2>2. Before(d, e) => f[d] < f[e]
      BY <2>1, RankOrders
  <2>3. Before(e, d) => f[e] < f[d]
      BY <2>1, RankOrders
  <2>. HIDE DEF f
  <2>. QED BY <1>3, <2>1, <2>2, <2>3, BeforeOrders
<1>4. IsFiniteSet(1 .. N) /\ Cardinality(1 .. N) = N
    BY FS_Interval
<1>5. \A d \in descs : f[d] = Rank(descs, d) + 1 /\ Rank(descs, d) \in Nat
    BY RankType
<1>. HIDE DEF f
<1>6. f \in Injection(descs, 1 .. N)
    BY <1>2, <1>3 DEF Injection, IsInjective
<1>7. f \in Surjection(descs, 1 .. N)
    BY <1>4, <1>6, FS_Injection
<1>8. \E d \in descs : f[d] = i
    BY <1>7 DEF Surjection
<1>. QED BY <1>5, <1>8

(* The sorted list holds every descriptor once, in order. *)
LEMMA SortedFacts ==
    ASSUME NEW descs \in SUBSET Descriptors
    PROVE  /\ Sorted(descs) \in [1 .. Cardinality(descs) -> descs]
           /\ \A i \in 1 .. Cardinality(descs) : Rank(descs, Sorted(descs)[i]) = i - 1
           /\ \A d \in descs : \E i \in 1 .. Cardinality(descs) : Sorted(descs)[i] = d
           /\ \A i, j \in 1 .. Cardinality(descs) :
                  i < j => Before(Sorted(descs)[i], Sorted(descs)[j])
<1>1. IsFiniteSet(descs) /\ Cardinality(descs) \in Nat
    BY DescriptorsFinite, FS_Subset, FS_CardinalityType
<1>. PICK N \in Nat : N = Cardinality(descs)
    BY <1>1
<1>. PICK list : list = Sorted(descs)
    OBVIOUS
<1>2. list = [i \in 1 .. N |-> CHOOSE d \in descs : Rank(descs, d) = i - 1]
    BY DEF Sorted, Rank
<1>3. ASSUME NEW i \in 1 .. N PROVE list[i] \in descs /\ Rank(descs, list[i]) = i - 1
  <2>1. \E d \in descs : Rank(descs, d) = i - 1
      BY RankOnto
  <2>2. list[i] = CHOOSE d \in descs : Rank(descs, d) = i - 1
      BY <1>2
  <2>. QED BY <2>1, <2>2
<1>4. list \in [1 .. N -> descs]
    BY <1>2, <1>3
<1>5. ASSUME NEW d \in descs, NEW e \in descs, Rank(descs, d) <= Rank(descs, e), d # e
      PROVE  Before(d, e)
  <2>1. Rank(descs, d) \in Nat /\ Rank(descs, e) \in Nat
      BY RankType
  <2>2. Before(e, d) => Rank(descs, e) < Rank(descs, d)
      BY RankOrders
  <2>. QED BY <1>5, <2>1, <2>2, BeforeOrders
<1>6. ASSUME NEW d \in descs PROVE \E i \in 1 .. N : list[i] = d
  <2>1. Rank(descs, d) \in 0 .. N - 1
      BY RankType
  <2>. PICK i \in 1 .. N : i - 1 = Rank(descs, d)
      BY <2>1
  <2>2. list[i] \in descs /\ Rank(descs, list[i]) = Rank(descs, d)
      BY <1>3
  <2>3. ASSUME list[i] # d PROVE FALSE
    <3>1. Before(list[i], d) /\ Before(d, list[i])
        BY <1>5, <2>1, <2>2, <2>3
    <3>. QED BY <2>2, <3>1, BeforeOrders
  <2>. QED BY <2>3
<1>7. ASSUME NEW i \in 1 .. N, NEW j \in 1 .. N, i < j PROVE Before(list[i], list[j])
  <2>1. Rank(descs, list[i]) = i - 1 /\ Rank(descs, list[j]) = j - 1
        /\ list[i] \in descs /\ list[j] \in descs
      BY <1>3
  <2>2. Rank(descs, list[i]) <= Rank(descs, list[j]) /\ list[i] # list[j]
      BY <1>7, <2>1
  <2>. QED BY <1>5, <2>1, <2>2
<1>. QED BY <1>3, <1>4, <1>6, <1>7

(* What the moves leave of the order: every descriptor is there once, those*)
(* of one match follow one another by falling mask, and the catch-all is   *)
(* last.                                                                   *)
Grouped(list, N) ==
    \A i, j, k \in 1 .. N :
        i < j /\ j < k /\ list[i].match = list[k].match => list[j].match = list[i].match
ByMask(list, N) ==
    \A i, j \in 1 .. N : i < j /\ list[i].match = list[j].match => list[i].mask > list[j].mask
Arranged(list, S) ==
    /\ list \in [1 .. Cardinality(S) -> S]
    /\ \A d \in S : \E i \in 1 .. Cardinality(S) : list[i] = d
    /\ Grouped(list, Cardinality(S))
    /\ ByMask(list, Cardinality(S))
    /\ Cardinality(S) # 0 /\ list[Cardinality(S)] = illegal_instruction

LEMMA DescriptorNumbers ==
    ASSUME NEW d \in Descriptors
    PROVE  d.match \in Words /\ d.mask \in Words /\ d.match \in Nat /\ d.mask \in Nat
<1>1. d.match \in Words /\ d.mask \in Words
    BY DEF Descriptors
<1>. QED BY <1>1, WordsType

LEMMA SortedArranged ==
    ASSUME NEW S \in SUBSET Descriptors, illegal_instruction \in S
    PROVE  Arranged(Sorted(S), S)
<1>. PICK N : N = Cardinality(S)
    OBVIOUS
<1>. PICK list : list = Sorted(S)
    OBVIOUS
<1>1. N \in Nat /\ N # 0
  <2>1. IsFiniteSet(S) /\ S # {}
      BY DescriptorsFinite, FS_Subset
  <2>. QED BY <2>1, FS_CardinalityType, FS_EmptySet
<1>2. /\ list \in [1 .. N -> S]
      /\ \A d \in S : \E i \in 1 .. N : list[i] = d
      /\ \A i, j \in 1 .. N : i < j => Before(list[i], list[j])
    BY SortedFacts
<1>3. \A i \in 1 .. N : list[i] \in S /\ list[i].match \in Nat /\ list[i].mask \in Nat
  <2>. SUFFICES ASSUME NEW i \in 1 .. N
                PROVE  list[i] \in S /\ list[i].match \in Nat /\ list[i].mask \in Nat
      OBVIOUS
  <2>1. list[i] \in S /\ list[i] \in Descriptors
      BY <1>2
  <2>. QED BY <2>1, DescriptorNumbers
<1>4. \A i, j \in 1 .. N : i < j =>
          \/ list[i].match > list[j].match
          \/ list[i].match = list[j].match /\ list[i].mask > list[j].mask
    BY <1>2 DEF Before
<1>5. Grouped(list, N) /\ ByMask(list, N)
  <2>1. ByMask(list, N)
      BY <1>3, <1>4 DEF ByMask
  <2>2. ASSUME NEW i \in 1 .. N, NEW j \in 1 .. N, NEW k \in 1 .. N, i < j, j < k,
               list[i].match = list[k].match
        PROVE  list[j].match = list[i].match
    <3>1. list[i].match >= list[j].match /\ list[j].match >= list[k].match
        BY <1>3, <1>4, <2>2
    <3>. QED BY <1>3, <2>2, <3>1
  <2>. QED BY <2>1, <2>2 DEF Grouped
<1>6. list[N] = illegal_instruction
  <2>. SUFFICES ASSUME list[N] # illegal_instruction PROVE FALSE
      OBVIOUS
  <2>. PICK i \in 1 .. N : list[i] = illegal_instruction
      BY <1>2
  <2>1. N \in 1 .. N /\ i < N
      BY <1>1
  <2>2. Before(illegal_instruction, list[N]) /\ list[N] \in Descriptors
      BY <1>2, <2>1
  <2>3. illegal_instruction \in Descriptors
      OBVIOUS
  <2>. QED BY <2>2, <2>3, BeforeOrders
<1>. QED BY <1>1, <1>2, <1>5, <1>6 DEF Arranged

(* The catch-all matches every word. *)
LEMMA IllegalMatches ==
    ASSUME NEW w \in Words
    PROVE  Matches(w, illegal_instruction)
<1>. SUFFICES ASSUME NEW k \in 0 .. WordBits - 1
              PROVE  BitOf(0, k) = 0
    BY DEF Matches, illegal_instruction
<1>1. WordBits \in Nat /\ k \in Nat
    BY SizesAssumption
<1>. PICK p \in Nat \ {0} : p = 2 ^ k
    BY <1>1, PowerDouble
<1>2. 0 \div p = 0
    OBVIOUS
<1>. QED BY <1>2 DEF BitOf

(* A search ends at the first match. *)
Found(list, N, w, i) ==
    /\ i \in 1 .. N /\ Matches(w, list[i])
    /\ \A j \in 1 .. i - 1 : ~Matches(w, list[j])

LEMMA FirstIsFound ==
    ASSUME NEW S \in SUBSET Descriptors, NEW list, Arranged(list, S), NEW w \in Words
    PROVE  Found(list, Cardinality(S), w, First(list, w))
<1>. PICK N : N = Cardinality(S)
    OBVIOUS
<1>1. N \in Nat /\ N # 0
    BY DescriptorsFinite, FS_Subset, FS_CardinalityType DEF Arranged
<1>2. DOMAIN list = 1 .. N /\ list[N] = illegal_instruction
    BY DEF Arranged
<1>. DEFINE T == {i \in 1 .. N : Matches(w, list[i])}
<1>3. N \in T /\ T \subseteq Nat
    BY <1>1, <1>2, IllegalMatches
<1>. PICK i \in T : \A j \in T : i <= j
  <2>. HIDE DEF T
  <2>. QED BY <1>3, LeastNat
<1>4. Found(list, N, w, i)
  <2>1. i \in 1 .. N /\ Matches(w, list[i])
      OBVIOUS
  <2>2. ASSUME NEW j \in 1 .. i - 1, Matches(w, list[j]) PROVE FALSE
    <3>1. j \in 1 .. N /\ j < i
        BY <1>1, <2>1
    <3>. QED BY <2>1, <2>2, <3>1
  <2>. QED BY <2>1, <2>2 DEF Found
<1>5. First(list, w) = CHOOSE j \in 1 .. N : Found(list, N, w, j)
    BY <1>2 DEF First, Found
<1>6. i \in 1 .. N
    BY <1>4 DEF Found
<1>. QED BY <1>4, <1>5, <1>6

(* What a search finds precedes whatever else matches.                     *)
LEMMA FoundIsBest ==
    ASSUME NEW S \in SUBSET All, NEW list, Arranged(list, S), NEW w \in Words,
           NEW i, Found(list, Cardinality(S), w, i), NEW e \in S, Matches(w, e)
    PROVE  \/ e = list[i]
           \/ e = illegal_instruction
           \/ list[i].match = e.match /\ list[i].mask > e.mask
<1>. SUFFICES ASSUME e # list[i], e # illegal_instruction
              PROVE  list[i].match = e.match /\ list[i].mask > e.mask
    OBVIOUS
<1>. PICK N : N = Cardinality(S)
    OBVIOUS
<1>1. N \in Nat /\ S \in SUBSET Descriptors
    BY DescriptorsAssumption, DescriptorsFinite, FS_Subset, FS_CardinalityType
<1>2. i \in 1 .. N /\ Matches(w, list[i]) /\ list[i] \in S
    BY DEF Found, Arranged
<1>. PICK k \in 1 .. N : list[k] = e
    BY DEF Arranged
<1>3. i < k
  <2>1. k \notin 1 .. i - 1 /\ k # i
      BY DEF Found
  <2>. QED BY <1>1, <1>2, <2>1
<1>4. list[i] # illegal_instruction
  <2>. SUFFICES ASSUME list[i] = illegal_instruction PROVE FALSE
      OBVIOUS
  <2>1. k < N
    <3>1. list[N] = illegal_instruction
        BY DEF Arranged
    <3>. QED BY <1>1, <3>1
  <2>2. N \in 1 .. N /\ list[N] = list[i] /\ i < N
      BY <1>1, <1>2, <1>3, <2>1 DEF Arranged
  <2>3. list[i].mask > list[N].mask
      BY <1>2, <2>2 DEF Arranged, ByMask
  <2>4. list[i].mask \in Nat
      BY <1>1, <1>2, DescriptorNumbers
  <2>. QED BY <2>2, <2>3, <2>4
<1>5. list[i].match = e.match
    BY <1>2, <1>4, OverlapAssumption
<1>. QED BY <1>2, <1>3, <1>5 DEF Arranged, ByMask

(* Two searches for a word, in lists of the same descriptors, agree.       *)
LEMMA SearchesAgree ==
    ASSUME NEW S \in SUBSET All, illegal_instruction \in S,
           NEW list, Arranged(list, S), NEW other, Arranged(other, S),
           NEW w \in Words
    PROVE  list[First(list, w)] = other[First(other, w)]
<1>. PICK N : N = Cardinality(S)
    OBVIOUS
<1>1. S \in SUBSET Descriptors
    BY DescriptorsAssumption
<1>. PICK i : i = First(list, w)
    OBVIOUS
<1>. PICK j : j = First(other, w)
    OBVIOUS
<1>2. Found(list, N, w, i) /\ Found(other, N, w, j)
    BY <1>1, FirstIsFound
<1>. PICK d : d = list[i]
    OBVIOUS
<1>. PICK e : e = other[j]
    OBVIOUS
<1>3. d \in S /\ e \in S /\ Matches(w, d) /\ Matches(w, e)
    BY <1>2 DEF Found, Arranged
<1>4. \/ e = d \/ e = illegal_instruction \/ (d.match = e.match /\ d.mask > e.mask)
    BY <1>2, <1>3, FoundIsBest
<1>5. \/ d = e \/ d = illegal_instruction \/ (e.match = d.match /\ e.mask > d.mask)
    BY <1>2, <1>3, FoundIsBest
<1>6. d.mask \in Nat /\ e.mask \in Nat /\ illegal_instruction.mask = 0
    BY <1>1, <1>3, DescriptorNumbers DEF illegal_instruction
<1>. QED BY <1>4, <1>5, <1>6

(* Where an element of the list comes from when the i-th is moved.         *)
From(i, j) == IF j = 1 THEN i ELSE IF j <= i THEN j - 1 ELSE j

IsMoved(moved, list, N, S, i) ==
    /\ moved \in [1 .. N -> S]
    /\ \A j \in 1 .. N : moved[j] = list[From(i, j)]

LEMMA MovedElements ==
    ASSUME NEW N \in Nat, NEW S, NEW list \in [1 .. N -> S], NEW i \in 1 .. N
    PROVE  IsMoved(MoveToFront(list, i), list, N, S, i)
<1>1. list \in Seq(S) /\ Len(list) = N
    OBVIOUS
<1>2. PICK x \in S : x = list[i]
    OBVIOUS
<1>3. PICK a \in Seq(S) : a = <<x>>
  <2>1. <<x>> \in Seq(S)
      OBVIOUS
  <2>. QED BY <2>1
<1>4. PICK b : b = SubSeq(list, 1, i - 1)
    OBVIOUS
<1>5. PICK c : c = SubSeq(list, i + 1, N)
    OBVIOUS
<1>6. Len(a) = 1 /\ a[1] = list[i]
    BY <1>2, <1>3
<1>7. /\ b \in Seq(S) /\ Len(b) = i - 1
      /\ \A j \in 1 .. i - 1 : b[j] = list[j]
    BY <1>1, <1>4
<1>8. /\ c \in Seq(S) /\ Len(c) = N - i
      /\ \A j \in 1 .. N - i : c[j] = list[i + j]
    BY <1>1, <1>5
<1>9. PICK ab : ab = a \o b
    OBVIOUS
<1>10. /\ ab \in Seq(S) /\ Len(ab) = i
       /\ \A j \in 1 .. i : ab[j] = IF j = 1 THEN a[1] ELSE b[j - 1]
  <2>1. /\ ab \in Seq(S) /\ Len(ab) = 1 + (i - 1)
        /\ \A j \in 1 .. 1 + (i - 1) : ab[j] = IF j <= 1 THEN a[j] ELSE b[j - 1]
      BY <1>3, <1>6, <1>7, <1>9, ConcatProperties
  <2>2. 1 + (i - 1) = i
      OBVIOUS
  <2>3. \A j \in 1 .. i : j <= 1 <=> j = 1
      OBVIOUS
  <2>. QED BY <2>1, <2>2, <2>3
<1>11. PICK abc : abc = ab \o c
    OBVIOUS
<1>12. /\ abc \in Seq(S) /\ Len(abc) = N
       /\ \A j \in 1 .. N : abc[j] = IF j <= i THEN ab[j] ELSE c[j - i]
  <2>1. /\ abc \in Seq(S) /\ Len(abc) = i + (N - i)
        /\ \A j \in 1 .. i + (N - i) : abc[j] = IF j <= i THEN ab[j] ELSE c[j - i]
      BY <1>8, <1>10, <1>11, ConcatProperties
  <2>2. i + (N - i) = N
      OBVIOUS
  <2>. QED BY <2>1, <2>2
<1>13. MoveToFront(list, i) = abc
    BY <1>1, <1>2, <1>3, <1>4, <1>5, <1>9, <1>11 DEF MoveToFront
<1>14. ASSUME NEW j \in 1 .. N PROVE abc[j] = list[From(i, j)]
  <2>1. CASE j = 1
    <3>1. abc[j] = ab[j] /\ ab[j] = a[1]
        BY <1>10, <1>12, <2>1
    <3>2. From(i, j) = i
        BY <2>1 DEF From
    <3>. QED BY <1>6, <3>1, <3>2
  <2>2. CASE j > 1 /\ j <= i
    <3>1. abc[j] = ab[j] /\ ab[j] = b[j - 1]
        BY <1>10, <1>12, <2>2
    <3>2. b[j - 1] = list[j - 1]
        BY <1>7, <2>2
    <3>3. From(i, j) = j - 1
        BY <2>2 DEF From
    <3>. QED BY <3>1, <3>2, <3>3
  <2>3. CASE j > i
    <3>1. PICK m \in 1 .. N - i : m = j - i
        BY <2>3
    <3>2. ~(j <= i) /\ i + m = j
        BY <2>3, <3>1
    <3>3. abc[j] = c[m]
        BY <1>12, <3>1, <3>2
    <3>4. c[m] = list[i + m]
        BY <1>8
    <3>5. From(i, j) = j
        BY <2>3 DEF From
    <3>. QED BY <3>2, <3>3, <3>4, <3>5
  <2>. QED BY <2>1, <2>2, <2>3
<1>15. abc \in [1 .. N -> S]
    BY <1>12, LenProperties
<1>. QED BY <1>13, <1>14, <1>15 DEF IsMoved

LEMMA FromFacts ==
    ASSUME NEW N \in Nat, NEW i \in 1 .. N
    PROVE  /\ \A j \in 1 .. N : From(i, j) \in 1 .. N
           /\ \A k \in 1 .. N : \E j \in 1 .. N : From(i, j) = k
           /\ \A j, k \in 1 .. N : j < k /\ j # 1 => From(i, j) < From(i, k)
           /\ \A j \in 1 .. N : j # 1 => From(i, j) # i
           /\ From(i, 1) = i
<1>1. ASSUME NEW k \in 1 .. N PROVE \E j \in 1 .. N : From(i, j) = k
  <2>1. CASE k = i
      BY <2>1 DEF From
  <2>2. CASE k < i
    <3>1. k + 1 \in 1 .. N /\ From(i, k + 1) = k
        BY <2>2 DEF From
    <3>. QED BY <3>1
  <2>3. CASE k > i
    <3>1. From(i, k) = k
        BY <2>3 DEF From
    <3>. QED BY <3>1
  <2>. QED BY <2>1, <2>2, <2>3
<1>. QED BY <1>1 DEF From

LEMMA FromOnto ==
    ASSUME NEW N \in Nat, NEW i \in 1 .. N, NEW k \in 1 .. N
    PROVE  \E j \in 1 .. N : From(i, j) = k
BY FromFacts

(* A descriptor that is moved is alone with its match, so the move leaves  *)
(* the list arranged.                                                      *)
LEMMA MoveArranged ==
    ASSUME NEW S \in SUBSET Descriptors, NEW list, Arranged(list, S),
           NEW i \in 1 .. Cardinality(S), Movable(list, i)
    PROVE  Arranged(MoveToFront(list, i), S)
<1>. PICK N : N = Cardinality(S)
    OBVIOUS
<1>1. N \in Nat
    BY DescriptorsFinite, FS_Subset, FS_CardinalityType
<1>2. list \in [1 .. N -> S] /\ N # 0 /\ list[N] = illegal_instruction /\ i \in 1 .. N
    BY DEF Arranged
<1>3. /\ i > 1 /\ i # N /\ i - 1 \in 1 .. N /\ i + 1 \in 1 .. N
      /\ list[i].match # list[i - 1].match /\ list[i].match # list[i + 1].match
    BY <1>1, <1>2 DEF Movable, illegal_instruction
<1>4. ASSUME NEW k \in 1 .. N, list[k].match = list[i].match PROVE k = i
  <2>1. CASE k < i
    <3>1. k # i - 1 /\ k < i - 1 /\ i - 1 < i
        BY <1>3, <1>4, <2>1
    <3>2. list[i - 1].match = list[k].match
        BY <1>2, <1>3, <1>4, <3>1 DEF Arranged, Grouped
    <3>. QED BY <1>3, <1>4, <3>2
  <2>2. CASE k > i
    <3>1. k # i + 1 /\ i + 1 < k /\ i < i + 1
        BY <1>3, <1>4, <2>2
    <3>2. list[i + 1].match = list[i].match
        BY <1>2, <1>3, <1>4, <3>1 DEF Arranged, Grouped
    <3>. QED BY <1>3, <3>2
  <2>. QED BY <1>2, <2>1, <2>2
<1>. PICK moved : moved = MoveToFront(list, i)
    OBVIOUS
<1>5. /\ moved \in [1 .. N -> S]
      /\ \A j \in 1 .. N : moved[j] = list[From(i, j)]
  <2>1. IsMoved(MoveToFront(list, i), list, N, S, i)
      BY <1>1, <1>2, MovedElements
  <2>. QED BY <2>1 DEF IsMoved
<1>6. \A j \in 1 .. N : From(i, j) \in 1 .. N
    BY <1>1, FromFacts
<1>7. \A j \in 1 .. N : j # 1 => moved[j].match # moved[1].match
  <2>. SUFFICES ASSUME NEW j \in 1 .. N, j # 1, moved[j].match = moved[1].match
                PROVE  FALSE
      OBVIOUS
  <2>1. From(i, 1) = i /\ From(i, j) # i /\ From(i, j) \in 1 .. N /\ 1 \in 1 .. N
      BY <1>1, <1>2, FromFacts
  <2>. QED BY <1>4, <1>5, <2>1
<1>8. \A j, k \in 1 .. N : j < k /\ j # 1 => From(i, j) < From(i, k)
    BY <1>1, FromFacts
<1>9. \A d \in S : \E j \in 1 .. N : moved[j] = d
  <2>. SUFFICES ASSUME NEW d \in S PROVE \E j \in 1 .. N : moved[j] = d
      OBVIOUS
  <2>. PICK k \in 1 .. N : list[k] = d
      BY DEF Arranged
  <2>. PICK j \in 1 .. N : From(i, j) = k
      BY <1>1, <1>2, FromOnto
  <2>. QED BY <1>5
<1>10. ByMask(moved, N)
  <2>. SUFFICES ASSUME NEW j \in 1 .. N, NEW k \in 1 .. N, j < k,
                       moved[j].match = moved[k].match
                PROVE  moved[j].mask > moved[k].mask
      BY DEF ByMask
  <2>1. j # 1
      BY <1>7
  <2>2. From(i, j) < From(i, k) /\ From(i, j) \in 1 .. N /\ From(i, k) \in 1 .. N
      BY <1>6, <1>8, <2>1
  <2>. QED BY <1>2, <1>5, <2>2 DEF Arranged, ByMask
<1>11. Grouped(moved, N)
  <2>. SUFFICES ASSUME NEW j \in 1 .. N, NEW k \in 1 .. N, NEW l \in 1 .. N, j < k, k < l,
                       moved[j].match = moved[l].match
                PROVE  moved[k].match = moved[j].match
      BY DEF Grouped
  <2>1. j # 1 /\ k # 1
      BY <1>7
  <2>2. /\ From(i, j) < From(i, k) /\ From(i, k) < From(i, l)
        /\ From(i, j) \in 1 .. N /\ From(i, k) \in 1 .. N /\ From(i, l) \in 1 .. N
      BY <1>6, <1>8, <2>1
  <2>. QED BY <1>2, <1>5, <2>2 DEF Arranged, Grouped
<1>12. moved[N] = illegal_instruction
  <2>1. N \in 1 .. N /\ From(i, N) = N
      BY <1>1, <1>2, <1>3 DEF From
  <2>. QED BY <1>2, <1>5, <2>1
<1>. QED BY <1>2, <1>5, <1>9, <1>10, <1>11, <1>12 DEF Arranged

-----------------------------------------------------------------------------
(* The hash of the disassembler.                                           *)

LEMMA BitStep ==
    ASSUME NEW x \in Nat, NEW j \in Nat
    PROVE  /\ x % 2 ^ (j + 1) = 2 ^ j * BitOf(x, j) + (x % 2 ^ j)
           /\ BitOf(x, j) \in {0, 1} /\ x % 2 ^ j \in 0 .. 2 ^ j - 1
<1>. PICK p \in Nat \ {0} : p = 2 ^ j
    BY PowerDouble
<1>1. 2 ^ (j + 1) = p * 2
    BY PowerDouble
<1>2. x % (p * 2) = p * ((x \div p) % 2) + (x % p)
  <2>. PICK e \in Nat \ {0} : e = 2
      OBVIOUS
  <2>1. x % (p * e) = p * ((x \div p) % e) + (x % p)
      BY DividedTwice
  <2>. QED BY <2>1
<1>3. x \div p \in Nat /\ x % p \in 0 .. p - 1
    BY Divided
<1>4. (x \div p) % 2 \in {0, 1}
    BY <1>3
<1>. QED BY <1>1, <1>2, <1>3, <1>4 DEF BitOf

(* A mask whose low bits are all ones makes the low bits of a word those   *)
(* of the match.                                                           *)
LEMMA LowBitsAgree ==
    ASSUME NEW w \in Words, NEW d \in Descriptors, Matches(w, d),
           NEW k \in 0 .. WordBits, d.mask % 2 ^ k = 2 ^ k - 1
    PROVE  w % 2 ^ k = d.match % 2 ^ k
<1>1. w \in Nat /\ d.match \in Nat /\ d.mask \in Nat /\ WordBits \in Nat
    BY WordsType, DescriptorNumbers, SizesAssumption
<1>. DEFINE Bad == {m \in Nat : /\ m <= WordBits /\ d.mask % 2 ^ m = 2 ^ m - 1
                               /\ w % 2 ^ m # d.match % 2 ^ m}
<1>2. Bad = {}
  <2>. SUFFICES ASSUME Bad # {} PROVE FALSE
      OBVIOUS
  <2>1. PICK m \in Bad : \A y \in Bad : m <= y
      BY LeastNat
  <2>2. m \in Nat /\ m <= WordBits /\ d.mask % 2 ^ m = 2 ^ m - 1 /\ w % 2 ^ m # d.match % 2 ^ m
      OBVIOUS
  <2>3. CASE m = 0
    <3>1. w % 1 = 0 /\ d.match % 1 = 0
        BY <1>1
    <3>. QED BY <2>2, <2>3, <3>1, PowerZero
  <2>4. CASE m # 0
    <3>. PICK j \in Nat : m = j + 1
        BY <2>2, <2>4
    <3>. PICK p \in Nat \ {0} : p = 2 ^ j
        BY PowerDouble
    <3>1. 2 ^ (j + 1) = 2 * p
        BY PowerDouble
    <3>2. /\ d.mask % 2 ^ (j + 1) = p * BitOf(d.mask, j) + (d.mask % p)
          /\ BitOf(d.mask, j) \in {0, 1} /\ d.mask % p \in 0 .. p - 1
        BY <1>1, BitStep
    <3>3. BitOf(d.mask, j) = 1 /\ d.mask % p = p - 1
      <4>1. p * BitOf(d.mask, j) + (d.mask % p) = 2 * p - 1
          BY <2>2, <3>1, <3>2
      <4>2. BitOf(d.mask, j) # 0
        <5>. SUFFICES ASSUME BitOf(d.mask, j) = 0 PROVE FALSE
            OBVIOUS
        <5>1. p * BitOf(d.mask, j) = 0
            OBVIOUS
        <5>. QED BY <3>2, <4>1, <5>1
      <4>3. BitOf(d.mask, j) = 1
          BY <3>2, <4>2
      <4>4. p * BitOf(d.mask, j) = p
          BY <4>3
      <4>. QED BY <3>2, <4>1, <4>3, <4>4
    <3>4. w % p = d.match % p
      <4>1. j \notin Bad /\ j <= WordBits
          BY <1>1, <2>1, <2>2
      <4>2. d.mask % 2 ^ j = 2 ^ j - 1
          BY <3>3
      <4>. QED BY <4>1, <4>2
    <3>5. BitOf(w, j) = BitOf(d.match, j)
      <4>1. j \in 0 .. WordBits - 1
          BY <1>1, <2>2
      <4>. QED BY <3>3, <4>1 DEF Matches
    <3>6. w % 2 ^ (j + 1) = p * BitOf(w, j) + (w % p)
        BY <1>1, BitStep
    <3>7. d.match % 2 ^ (j + 1) = p * BitOf(d.match, j) + (d.match % p)
        BY <1>1, BitStep
    <3>. QED BY <2>2, <3>4, <3>5, <3>6, <3>7
  <2>. QED BY <2>3, <2>4
<1>3. k \in Nat /\ k <= WordBits /\ k \notin Bad
    BY <1>1, <1>2
<1>. QED BY <1>3

(* A word that a descriptor matches is looked up where the descriptor was  *)
(* entered.                                                                *)
LEMMA HashAgrees ==
    ASSUME NEW w \in Words, NEW d \in Descriptors, Matches(w, d)
    PROVE  Chain(d) \in {w % HASH_SIZE, HASH_SIZE}
<1>1. PICK k \in 0 .. WordBits : HASH_SIZE = 2 ^ k
    BY SizesAssumption
<1>2. d.mask % HASH_SIZE = HASH_SIZE - 1 => w % HASH_SIZE = d.match % HASH_SIZE
    BY <1>1, LowBitsAgree
<1>. QED BY <1>2 DEF Chain

LEMMA ChainType ==
    ASSUME NEW d \in Descriptors
    PROVE  Chain(d) \in 0 .. HASH_SIZE
<1>1. HASH_SIZE \in Nat \ {0} /\ d.match \in Nat
    BY SizesAssumption, DescriptorNumbers
<1>2. d.match % HASH_SIZE \in 0 .. HASH_SIZE /\ HASH_SIZE \in 0 .. HASH_SIZE
    BY <1>1, Divided
<1>. QED BY <1>2 DEF Chain

-----------------------------------------------------------------------------
(* The invariant.                                                          *)

Registered == IF ext THEN All ELSE BaseInstructions \cup {illegal_instruction}

Best(S, w) == Sorted(S)[First(Sorted(S), w)]

CacheAgrees ==
    \A i \in 0 .. OPCODE_CACHE_SIZE - 1 :
        LET entry == opcode_cache[i]
        IN  /\ entry.word # 0 => entry.desc = Best(Registered, entry.word)
            /\ entry.desc # illegal_instruction =>
                   entry.desc \in Registered /\ Matches(entry.word, entry.desc)

DInv ==
    /\ ext \in BOOLEAN /\ running \in BOOLEAN /\ alive \in BOOLEAN
    /\ opcode_cache \in [0 .. OPCODE_CACHE_SIZE - 1 -> [word : Words, desc : Descriptors]]
    /\ chain \in [0 .. HASH_SIZE -> SUBSET Descriptors]
    /\ Arranged(instructions, Registered)
    /\ CacheAgrees
    /\ chain = [c \in 0 .. HASH_SIZE |-> {d \in Names : Chain(d) = c}]

LEMMA RegisteredType ==
    /\ Registered \in SUBSET All /\ Registered \in SUBSET Descriptors
    /\ illegal_instruction \in Registered
BY DescriptorsAssumption DEF Registered, All

LEMMA IdxType ==
    ASSUME NEW w \in Words
    PROVE  Idx(w) \in 0 .. OPCODE_CACHE_SIZE - 1
<1>1. w \in Nat /\ OPCODE_CACHE_SIZE \in Nat \ {0}
    BY WordsType, SizesAssumption
<1>. QED BY <1>1, Divided DEF Idx

(* A search of the list, however far it has been moved about. *)
LEMMA SearchFindsBest ==
    ASSUME NEW S \in SUBSET All, illegal_instruction \in S,
           NEW list, Arranged(list, S), NEW w \in Words
    PROVE  /\ First(list, w) \in 1 .. Cardinality(S)
           /\ list[First(list, w)] = Best(S, w)
           /\ Best(S, w) \in S /\ Matches(w, Best(S, w))
<1>1. S \in SUBSET Descriptors
    BY DescriptorsAssumption
<1>2. Arranged(Sorted(S), S)
    BY <1>1, SortedArranged
<1>3. list[First(list, w)] = Best(S, w)
    BY <1>2, SearchesAgree DEF Best
<1>4. Found(list, Cardinality(S), w, First(list, w))
    BY <1>1, FirstIsFound
<1>. QED BY <1>3, <1>4 DEF Found, Arranged

LEMMA DecodeFacts ==
    ASSUME DInv, NEW w \in Words
    PROVE  /\ w # 0 => decode_insn(w) = Best(Registered, w)
           /\ decode_insn(w) # illegal_instruction =>
                  decode_insn(w) \in Registered /\ Matches(w, decode_insn(w))
<1>1. CASE Hits(w)
  <2>1. Idx(w) \in 0 .. OPCODE_CACHE_SIZE - 1 /\ opcode_cache[Idx(w)].word = w
      BY <1>1, IdxType DEF Hits
  <2>2. decode_insn(w) = opcode_cache[Idx(w)].desc
      BY <1>1 DEF decode_insn
  <2>. QED BY <2>1, <2>2 DEF DInv, CacheAgrees
<1>2. CASE ~Hits(w)
  <2>1. decode_insn(w) = instructions[First(instructions, w)]
      BY <1>2 DEF decode_insn
  <2>2. Arranged(instructions, Registered)
      BY DEF DInv
  <2>. QED BY <2>1, <2>2, RegisteredType, SearchFindsBest
<1>. QED BY <1>1, <1>2

LEMMA DInvInit == DecoderInit => DInv
<1>. SUFFICES ASSUME DecoderInit PROVE DInv
    OBVIOUS
<1>1. ext \in BOOLEAN /\ running \in BOOLEAN /\ alive \in BOOLEAN
    BY DEF DecoderInit
<1>2. illegal_instruction \in Descriptors /\ 0 \in Words
    BY RegisteredType, WordsType
<1>3. opcode_cache = EmptyCache /\ illegal_instruction \in Descriptors
    BY <1>2 DEF DecoderInit
<1>4. opcode_cache \in [0 .. OPCODE_CACHE_SIZE - 1 -> [word : Words, desc : Descriptors]]
    BY <1>2, <1>3 DEF EmptyCache
<1>5. CacheAgrees
    BY <1>3 DEF CacheAgrees, EmptyCache
<1>6. Arranged(instructions, Registered)
  <2>1. instructions = Sorted(Registered)
      BY DEF DecoderInit, Registered
  <2>. QED BY <2>1, RegisteredType, SortedArranged
<1>7. Disassembled \cup BaseInstructions \in SUBSET Descriptors
    BY DescriptorsAssumption DEF All
<1>8. chain = [c \in 0 .. HASH_SIZE |-> {d \in Disassembled \cup BaseInstructions : Chain(d) = c}]
    BY DEF DecoderInit, disassembler_t, add_insns
<1>9. chain \in [0 .. HASH_SIZE -> SUBSET Descriptors]
    BY <1>7, <1>8
<1>10. chain = [c \in 0 .. HASH_SIZE |-> {d \in Names : Chain(d) = c}]
  <2>1. Names = Disassembled \cup BaseInstructions
      BY DEF DecoderInit, Names
  <2>. QED BY <1>8, <2>1
<1>. QED BY <1>1, <1>4, <1>5, <1>6, <1>9, <1>10 DEF DInv

LEMMA RegisterKeeps ==
    ASSUME DInv, register_extension
    PROVE  DInv'
<1>1. ext' \in BOOLEAN /\ running' \in BOOLEAN /\ alive' \in BOOLEAN
    BY DEF DInv, register_extension
<1>2. illegal_instruction \in Descriptors /\ 0 \in Words
    BY RegisteredType, WordsType
<1>3. opcode_cache' = EmptyCache
    BY DEF register_extension
<1>4. opcode_cache' \in [0 .. OPCODE_CACHE_SIZE - 1 -> [word : Words, desc : Descriptors]]
    BY <1>2, <1>3 DEF EmptyCache
<1>5. CacheAgrees'
    BY <1>3 DEF CacheAgrees, EmptyCache
<1>6. Arranged(instructions', Registered')
  <2>1. instructions' = Sorted(All) /\ Registered' = All
      BY DEF register_extension, Registered
  <2>2. illegal_instruction \in All /\ All \in SUBSET Descriptors
      BY DescriptorsAssumption DEF All
  <2>. QED BY <2>1, <2>2, SortedArranged
<1>7. chain' = [c \in 0 .. HASH_SIZE |-> chain[c] \cup {d \in Extension.disasms : Chain(d) = c}]
    BY DEF register_extension, add_insns
<1>8. chain \in [0 .. HASH_SIZE -> SUBSET Descriptors] /\ Extension.disasms \subseteq Descriptors
    BY DescriptorsAssumption DEF DInv
<1>9. chain' \in [0 .. HASH_SIZE -> SUBSET Descriptors]
    BY <1>7, <1>8
<1>10. chain' = [c \in 0 .. HASH_SIZE |-> {d \in Names' : Chain(d) = c}]
  <2>1. Names' = Names \cup Extension.disasms
      BY DEF register_extension, Names
  <2>2. \A c \in 0 .. HASH_SIZE :
            chain[c] \cup {d \in Extension.disasms : Chain(d) = c} = {d \in Names' : Chain(d) = c}
      BY <2>1 DEF DInv
  <2>. QED BY <1>7, <2>2
<1>. QED BY <1>1, <1>4, <1>5, <1>6, <1>9, <1>10 DEF DInv

LEMMA ExecuteKeeps ==
    ASSUME DInv, NEW w \in Words, Execute(w)
    PROVE  DInv'
<1>1. /\ ext' = ext /\ chain' = chain /\ running' = TRUE
      /\ Registered' = Registered /\ Names' = Names
    BY DEF Execute, Registered, Names
<1>2. alive' \in BOOLEAN
    BY DEF Execute, Tracked
<1>3. /\ opcode_cache \in [0 .. OPCODE_CACHE_SIZE - 1 -> [word : Words, desc : Descriptors]]
      /\ Arranged(instructions, Registered) /\ CacheAgrees
    BY DEF DInv
<1>4. /\ opcode_cache' \in [0 .. OPCODE_CACHE_SIZE - 1 -> [word : Words, desc : Descriptors]]
      /\ Arranged(instructions', Registered) /\ CacheAgrees'
  <2>1. CASE Hits(w)
    <3>1. instructions' = instructions /\ opcode_cache' = opcode_cache
        BY <2>1 DEF Execute
    <3>. QED BY <1>1, <1>3, <3>1 DEF CacheAgrees
  <2>2. CASE ~Hits(w)
    <3>. PICK i : i = First(instructions, w)
        OBVIOUS
    <3>1. /\ opcode_cache' =
                 [opcode_cache EXCEPT ![Idx(w)] = [word |-> w, desc |-> instructions[i]]]
          /\ instructions' = IF Movable(instructions, i) THEN MoveToFront(instructions, i)
                             ELSE instructions
        BY <2>2 DEF Execute
    <3>2. /\ i \in 1 .. Cardinality(Registered)
          /\ instructions[i] = Best(Registered, w)
          /\ instructions[i] \in Registered /\ Matches(w, instructions[i])
        BY <1>3, RegisteredType, SearchFindsBest
    <3>3. instructions[i] \in Descriptors /\ Idx(w) \in 0 .. OPCODE_CACHE_SIZE - 1
        BY <3>2, RegisteredType, IdxType
    <3>4. opcode_cache' \in [0 .. OPCODE_CACHE_SIZE - 1 -> [word : Words, desc : Descriptors]]
        BY <1>3, <3>1, <3>3
    <3>5. Arranged(instructions', Registered)
      <4>1. Movable(instructions, i) => Arranged(MoveToFront(instructions, i), Registered)
          BY <1>3, <3>2, RegisteredType, MoveArranged
      <4>. QED BY <1>3, <3>1, <4>1
    <3>6. CacheAgrees'
      <4>. SUFFICES ASSUME NEW k \in 0 .. OPCODE_CACHE_SIZE - 1
                    PROVE  /\ opcode_cache'[k].word # 0 =>
                                  opcode_cache'[k].desc = Best(Registered, opcode_cache'[k].word)
                           /\ opcode_cache'[k].desc # illegal_instruction =>
                                  /\ opcode_cache'[k].desc \in Registered
                                  /\ Matches(opcode_cache'[k].word, opcode_cache'[k].desc)
          BY <1>1 DEF CacheAgrees
      <4>1. CASE k = Idx(w)
        <5>1. opcode_cache'[k] = [word |-> w, desc |-> instructions[i]]
            BY <1>3, <3>1, <3>3, <4>1
        <5>. QED BY <3>2, <5>1
      <4>2. CASE k # Idx(w)
        <5>1. opcode_cache'[k] = opcode_cache[k]
            BY <1>3, <3>1, <4>2
        <5>. QED BY <1>3, <5>1 DEF CacheAgrees
      <4>. QED BY <4>1, <4>2
    <3>. QED BY <3>4, <3>5, <3>6
  <2>. QED BY <2>1, <2>2
<1>. QED BY <1>1, <1>2, <1>4 DEF DInv

LEMMA DInvNext == DInv /\ [DecoderNext]_decodervars => DInv'
<1>. SUFFICES ASSUME DInv, [DecoderNext]_decodervars PROVE DInv'
    OBVIOUS
<1>1. CASE register_extension
    BY <1>1, RegisterKeeps
<1>2. ASSUME NEW w \in Words, Execute(w) PROVE DInv'
    BY <1>2, ExecuteKeeps
<1>3. CASE UNCHANGED decodervars
    BY <1>3 DEF decodervars, DInv, CacheAgrees, Registered, Names
<1>. QED BY <1>1, <1>2, <1>3 DEF DecoderNext

-----------------------------------------------------------------------------
(* The decoder keeps its invariant: the list is arranged, however often    *)
(* decode_insn moved an instruction to its front, entries of the cache are *)
(* what a search would find, and every instruction that is installed is    *)
(* entered with the disassembler in the list of its hash.                  *)
THEOREM DecoderInvariant == DecoderSpec => []DInv
<1>. QED BY DInvInit, DInvNext, PTL DEF DecoderSpec

(* decode_insn finds for every word but 0 what a search of the list that   *)
(* build_opcode_map sorted would find, whatever was executed before: the   *)
(* moves to the front keep apart only what no word confuses, and the cache *)
(* may keep its entries over the moves.                                    *)
THEOREM DecodingIsSearch == DecoderSpec => []DecodeIsSearch
<1>1. DInv => DecodeIsSearch
  <2>. SUFFICES ASSUME DInv, NEW w \in Words \ {0} PROVE decode_insn(w) = Reference(w)
      BY DEF DecodeIsSearch
  <2>1. Reference(w) = Best(Registered, w)
      BY DEF Reference, Best, Registered
  <2>. QED BY <2>1, DecodeFacts
<1>. QED BY <1>1, DecoderInvariant, PTL

(* What that search finds, said without a list: it matches, and of the     *)
(* installed instructions that match none has a greater mask.              *)
DecodesMostSpecific ==
    \A w \in Words \ {0} :
        /\ decode_insn(w) \in Registered /\ Matches(w, decode_insn(w))
        /\ \A e \in Registered \ {illegal_instruction} :
               Matches(w, e) => /\ decode_insn(w).match = e.match
                                /\ decode_insn(w).mask >= e.mask

(* The function decode_insn returns is that of the most specific           *)
(* instruction that matches the word, before and after any moves.          *)
THEOREM MostSpecificIsDecoded == DecoderSpec => []DecodesMostSpecific
<1>1. DInv => DecodesMostSpecific
  <2>. SUFFICES ASSUME DInv, NEW w \in Words \ {0}
                PROVE  /\ decode_insn(w) \in Registered /\ Matches(w, decode_insn(w))
                       /\ \A e \in Registered \ {illegal_instruction} :
                              Matches(w, e) => /\ decode_insn(w).match = e.match
                                               /\ decode_insn(w).mask >= e.mask
      BY DEF DecodesMostSpecific
  <2>. PICK list : list = Sorted(Registered)
      OBVIOUS
  <2>. PICK i : i = First(list, w)
      OBVIOUS
  <2>1. Arranged(list, Registered)
      BY RegisteredType, SortedArranged
  <2>2. Found(list, Cardinality(Registered), w, i)
      BY <2>1, RegisteredType, FirstIsFound
  <2>3. decode_insn(w) = list[i]
      BY DecodeFacts DEF Best
  <2>4. list[i] \in Registered /\ Matches(w, list[i])
      BY <2>1, <2>2 DEF Found, Arranged
  <2>5. ASSUME NEW e \in Registered \ {illegal_instruction}, Matches(w, e)
        PROVE  list[i].match = e.match /\ list[i].mask >= e.mask
    <3>1. \/ e = list[i]
          \/ e = illegal_instruction
          \/ (list[i].match = e.match /\ list[i].mask > e.mask)
        BY <2>1, <2>2, <2>5, RegisteredType, FoundIsBest
    <3>2. list[i].mask \in Nat /\ e.mask \in Nat
        BY <2>4, RegisteredType, DescriptorNumbers
    <3>. QED BY <3>1, <3>2
  <2>. QED BY <2>3, <2>4, <2>5
<1>. QED BY <1>1, DecoderInvariant, PTL

(* lookup finds a name if and only if there is one.                        *)
LEMMA LookupFinds ==
    ASSUME DInv, NEW w \in Words
    PROVE  Named(chain, w) <=> \E d \in Names : Matches(w, d)
<1>1. \A d \in Names : d \in Descriptors
    BY DescriptorsAssumption DEF Names, All
<1>2. HASH_SIZE \in 0 .. HASH_SIZE /\ w % HASH_SIZE \in 0 .. HASH_SIZE
  <2>1. HASH_SIZE \in Nat \ {0} /\ w \in Nat
      BY SizesAssumption, WordsType
  <2>. QED BY <2>1, Divided
<1>3. ASSUME Named(chain, w) PROVE \E d \in Names : Matches(w, d)
    BY <1>2, <1>3 DEF Named, DInv
<1>4. ASSUME NEW d \in Names, Matches(w, d) PROVE Named(chain, w)
  <2>1. Chain(d) \in {w % HASH_SIZE, HASH_SIZE}
      BY <1>1, <1>4, HashAgrees
  <2>2. d \in chain[Chain(d)]
      BY <1>2, <2>1 DEF DInv
  <2>. QED BY <1>4, <2>1, <2>2 DEF Named
<1>. QED BY <1>3, <1>4

(* With -t, update_tracked_insn_count finds a name for an instruction      *)
(* exactly if anything in the disassembler matches it, and finds one for   *)
(* every instruction of riscv.mk.in: lookup hashes a word as add_insn      *)
(* hashed the descriptor, or finds it in the list of those it could not    *)
(* hash.                                                                   *)
THEOREM NamesAreFound == DecoderSpec => LookupIsSearch
<1>1. ASSUME DInv, NEW w \in Words, Execute(w)
      PROVE  /\ alive' <=> \/ decode_insn(w) = illegal_instruction
                           \/ \E d \in Names : Matches(w, d)
             /\ decode_insn(w) \in BaseInstructions => alive'
  <2>1. alive' <=> (decode_insn(w) = illegal_instruction \/ \E d \in Names : Matches(w, d))
    <3>1. alive' = (decode_insn(w) = illegal_instruction \/ Named(chain, w))
        BY <1>1 DEF Execute, Tracked
    <3>. QED BY <1>1, <3>1, LookupFinds
  <2>2. decode_insn(w) # illegal_instruction => Matches(w, decode_insn(w))
      BY <1>1, DecodeFacts
  <2>. QED BY <2>1, <2>2 DEF Names
<1>2. DInv => [\A w \in Words : Execute(w) =>
                  /\ alive' <=> \/ decode_insn(w) = illegal_instruction
                                \/ \E d \in Names : Matches(w, d)
                  /\ decode_insn(w) \in BaseInstructions => alive']_decodervars
    BY <1>1
<1>. QED BY <1>2, DecoderInvariant, PTL DEF LookupIsSearch
=============================================================================
