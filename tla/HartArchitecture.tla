-------------------------- MODULE HartArchitecture --------------------------
(***************************************************************************)
(* What a hart promises its program and its debugger: instructions and     *)
(* traps happen one at a time, a trap saves the address and the privilege  *)
(* it interrupts, and a stay in debug mode changes nothing of them.  No    *)
(* quanta, loops, restarted instructions or cached state.                  *)
(***************************************************************************)
CONSTANTS
    Irqs,        \* the interrupts, a set of trap causes
    RomEntry     \* where the debug ROM begins

VARIABLES
    program,     \* see HartStep
    arch,        \* pc, prv, and the trap registers of both levels
    debugging,   \* the hart is in debug mode
    stepsEbreak  \* input: single steps, and ebreaks in this privilege enter
                 \* debug mode

avars == <<program, arch, debugging>>

MachineTrap(a, c) ==
    [a EXCEPT !.pc = program.mtvec, !.prv = "M", !.mepc = a.pc, !.mcause = c,
              !.mpp = a.prv, !.mpie = a.mie, !.mie = FALSE]

SupervisorTrap(a, c) ==
    [a EXCEPT !.pc = program.stvec, !.prv = "S", !.sepc = a.pc, !.scause = c,
              !.spp = a.prv, !.spie = a.sie, !.sie = FALSE]

Delegated(a, c) == a.prv # "M" /\ c \in program.delegated

Unmasked(a, c) ==
    IF c \in program.delegated
    THEN a.prv = "U" \/ (a.prv = "S" /\ a.sie)
    ELSE a.prv # "M" \/ a.mie

Forbidden(a) ==
    \/ program.insn[a.pc] = "illegal"
    \/ program.insn[a.pc] \in {"mcsr", "mret"} /\ a.prv # "M"
    \/ program.insn[a.pc] \in {"wfi", "sret"} /\ a.prv = "U"

(* What may trap at a.pc; a trigger may turn any instruction into a        *)
(* breakpoint.                                                             *)
CausesAt(a) ==
    {"breakpoint"} \cup {c \in Irqs : Unmasked(a, c)}
        \cup (IF Forbidden(a) THEN {"illegal"} ELSE {})

Trapped(a) ==
    {IF Delegated(a, c) THEN SupervisorTrap(a, c) ELSE MachineTrap(a, c) :
        c \in CausesAt(a)}

(* The states after the instruction at a.pc, none if it cannot complete.   *)
Retired(a) ==
    IF program.insn[a.pc] = "ebreak" \/ Forbidden(a) THEN {}
    ELSE {CASE program.insn[a.pc] = "mret" ->
                 [a EXCEPT !.pc = a.mepc, !.prv = a.mpp, !.mie = a.mpie,
                           !.mpie = TRUE, !.mpp = "U"]
            [] program.insn[a.pc] = "sret" ->
                 [a EXCEPT !.pc = a.sepc, !.prv = a.spp, !.sie = a.spie,
                           !.spie = TRUE, !.spp = "U"]
            [] OTHER -> [a EXCEPT !.pc = program.succ[a.pc]]}

(* At most one instruction, then at most one trap, then debug mode or not. *)
Run ==
    /\ ~debugging
    /\ \E r \in {arch} \cup Retired(arch) : arch' \in {r} \cup Trapped(r)
    /\ debugging' \in BOOLEAN
    /\ UNCHANGED program

(* An ebreak in a single step that enters debug mode: the entry for the    *)
(* step follows the entry for the ebreak and saves the address and the     *)
(* privilege of the debug ROM in place of the program's.                   *)
LoseEbreak ==
    /\ ~debugging /\ debugging'
    /\ stepsEbreak /\ program.insn[arch.pc] = "ebreak"
    /\ arch' = [arch EXCEPT !.pc = RomEntry, !.prv = "M"]
    /\ UNCHANGED program

Resume ==
    /\ debugging /\ ~debugging'
    /\ UNCHANGED <<program, arch>>

ArchInit ==
    /\ arch.pc = program.start
    /\ ~debugging

ArchSpec == ArchInit /\ [][Run \/ LoseEbreak \/ Resume]_avars
=============================================================================
