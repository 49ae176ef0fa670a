----------------------------- MODULE Interrupts -----------------------------
(***************************************************************************)
(* The privileged state of a hart: which interrupt processor_t takes and   *)
(* where it is handled, the stack of privileges and enables in mstatus,    *)
(* and the CSRs through which software of each privilege sees them.  Every *)
(* configuration of the code has modes S and U.                            *)
(*                                                                         *)
(* Interrupts are numbered as their bits in mip; exceptions are names.     *)
(* Interrupts are looked for where processor_t::step begins or goes on     *)
(* after a trap: Interrupt may or may not come between two instructions.   *)
(*                                                                         *)
(* An operator X_Fault next to X is X with the bug it names; no            *)
(* specification uses it.                                                  *)
(***************************************************************************)
EXTENDS Integers, FiniteSets

CONSTANTS
    Sources,            \* the interrupts of this instance
    HasExtension,       \* ext # NULL
    Exceptions,         \* those that instructions raise
    EbreakModes,        \* the privileges of dcsr.ebreakm/s/u
    StatusWrites        \* the values software writes to mstatus and sstatus

IRQ_S_SOFT == 1
IRQ_M_SOFT == 3
IRQ_S_TIMER == 5
IRQ_M_TIMER == 7
IRQ_S_EXT == 9
IRQ_M_EXT == 11
IRQ_COP == 12
NoInterrupt == 0
NoContext == [prv |-> -1, enable |-> FALSE]

PRV_U == 0
PRV_S == 1
PRV_H == 2
PRV_M == 3
Privileges == {PRV_U, PRV_S, PRV_M}

(* What medeleg can delegate; ebreak is the exception "breakpoint".        *)
Delegable == {"misaligned_fetch", "breakpoint", "user_ecall",
              "fetch_page_fault", "load_page_fault", "store_page_fault"}

(* The masks of mideleg and mie; those of mip and of sip.                  *)
delegable_ints == {IRQ_S_SOFT, IRQ_S_TIMER, IRQ_S_EXT}
                  \cup (IF HasExtension THEN {IRQ_COP} ELSE {})
all_ints == delegable_ints \cup {IRQ_M_SOFT, IRQ_M_TIMER}
mip_mask == {IRQ_S_SOFT, IRQ_S_TIMER}
sip_mask == {IRQ_S_SOFT}

MStatus == [mie : BOOLEAN, mpie : BOOLEAN, sie : BOOLEAN, spie : BOOLEAN,
            mpp : 0 .. 3, spp : {PRV_U, PRV_S}]

ASSUME InterruptsAssumption ==
    /\ Sources \subseteq all_ints /\ HasExtension \in BOOLEAN
    /\ EbreakModes \subseteq Privileges
    /\ StatusWrites \subseteq MStatus

VARIABLES
    prv, mstatus, mip, mie, mideleg, medeleg,
    dcsr,           \* cause: dcsr.cause # 0; prv
    alive,          \* FALSE after a std::logic_error
    mtrap, strap    \* history: the context that the handler of M, of S, will
                    \* return to, unless software changes it
csrs == <<mstatus, mip, mie, mideleg, medeleg>>
vars == <<prv, mstatus, mip, mie, mideleg, medeleg, dcsr, alive, mtrap, strap>>

legalize_privilege(p) == IF p = PRV_H THEN PRV_U ELSE p

Init ==
    /\ prv = PRV_M
    /\ mstatus = [mie |-> FALSE, mpie |-> FALSE, sie |-> FALSE, spie |-> FALSE,
                  mpp |-> PRV_U, spp |-> PRV_U]
    /\ mip = {} /\ mie = {} /\ mideleg = {} /\ medeleg = {}
    /\ dcsr = [cause |-> FALSE, prv |-> PRV_U]
    /\ alive = TRUE /\ mtrap = NoContext /\ strap = NoContext

-----------------------------------------------------------------------------
(* take_interrupt: the lowest number of the first class that has any.      *)

MEnabled == prv < PRV_M \/ mstatus.mie

SEnabled == prv < PRV_S \/ (prv = PRV_S /\ mstatus.sie)

Enabled(pending) ==
    LET m == IF MEnabled THEN pending \ mideleg ELSE {}
    IN  IF m # {} THEN m ELSE IF SEnabled THEN pending \cap mideleg ELSE {}

Lowest(S) == CHOOSE i \in S : \A j \in S : i <= j

Priority(enabled) ==
    LET classes == <<{i \in enabled : i >= IRQ_M_EXT}, enabled \cap {IRQ_S_EXT},
                     enabled \cap {IRQ_M_SOFT, IRQ_S_SOFT},
                     enabled \cap {IRQ_M_TIMER, IRQ_S_TIMER}>>
        first == CHOOSE k \in 1 .. 4 : classes[k] # {} /\ \A j \in 1 .. k - 1 : classes[j] = {}
    IN  Lowest(classes[first])

take_interrupt(pending) ==
    IF dcsr.cause \/ Enabled(pending) = {} THEN NoInterrupt ELSE Priority(Enabled(pending))

-----------------------------------------------------------------------------
(* take_trap.                                                              *)

enter_debug_mode ==
    /\ dcsr' = [cause |-> TRUE, prv |-> prv]
    /\ prv' = PRV_M
    /\ UNCHANGED <<csrs, alive, mtrap, strap>>

(* The enable of M is cleared, but not saved.                              *)
MHandled_NotSaved == [mstatus EXCEPT !.mpp = prv, !.mie = FALSE]

MHandled == [mstatus EXCEPT !.mpie = mstatus.mie, !.mpp = prv, !.mie = FALSE]

SHandled == [mstatus EXCEPT !.spie = mstatus.sie, !.spp = prv, !.sie = FALSE]

InM ==
    /\ mstatus' = MHandled /\ prv' = PRV_M
    /\ mtrap' = [prv |-> prv, enable |-> mstatus.mie]
    /\ UNCHANGED <<mip, mie, mideleg, medeleg, dcsr, alive, strap>>

InS ==
    /\ mstatus' = SHandled /\ prv' = PRV_S
    /\ strap' = [prv |-> prv, enable |-> mstatus.sie]
    /\ UNCHANGED <<mip, mie, mideleg, medeleg, dcsr, alive, mtrap>>

(* In debug mode only the pc changes.                                      *)
take_trap(cause, delegated) ==
    IF dcsr.cause THEN UNCHANGED vars
    ELSE IF cause = "breakpoint" /\ prv \in EbreakModes THEN enter_debug_mode
    ELSE IF prv <= PRV_S /\ delegated THEN InS
    ELSE InM

Interrupt ==
    /\ alive
    /\ take_interrupt(mip \cap mie) # NoInterrupt
    /\ take_trap("interrupt", take_interrupt(mip \cap mie) \in mideleg)

Exception ==
    /\ alive
    /\ \E e \in Exceptions : take_trap(e, e \in medeleg)

(* extension_t::raise_interrupt does not look at mie.                      *)
raise_interrupt ==
    /\ alive /\ HasExtension
    /\ IF take_interrupt({IRQ_COP}) # NoInterrupt
       THEN take_trap("interrupt", IRQ_COP \in mideleg)
       ELSE alive' = FALSE /\ UNCHANGED <<prv, csrs, dcsr, mtrap, strap>>

(* The CLINT sets and clears mip without looking at the hart.              *)
ClintDrives ==
    /\ alive
    /\ \E i \in Sources \cap {IRQ_M_SOFT, IRQ_M_TIMER} :
          mip' = IF i \in mip THEN mip \ {i} ELSE mip \cup {i}
    /\ UNCHANGED <<prv, mstatus, mie, mideleg, medeleg, dcsr, alive, mtrap, strap>>

-----------------------------------------------------------------------------
(* set_csr and get_csr.  A write by software of M or of the debugger       *)
(* replaces the context its handlers return to.                            *)

(* The bits of mask from val, the rest from old.                           *)
Masked(old, mask, val) == (old \ mask) \cup (val \cap mask)

WritesMstatus(val) ==
    /\ mstatus' = [val EXCEPT !.mpp = legalize_privilege(@)]
    /\ mtrap' = NoContext /\ strap' = NoContext
    /\ UNCHANGED <<mip, mie, mideleg, medeleg>>

SstatusOf(val) == [mstatus EXCEPT !.sie = val.sie, !.spie = val.spie, !.spp = val.spp]

WritesSstatus(val) ==
    /\ mstatus' = SstatusOf(val)
    /\ strap' = NoContext
    /\ UNCHANGED <<mip, mie, mideleg, medeleg, mtrap>>

WritesMip(val) ==
    /\ mip' = Masked(mip, mip_mask, val)
    /\ UNCHANGED <<mstatus, mie, mideleg, medeleg, mtrap, strap>>

WritesSip(val) ==
    /\ mip' = Masked(mip, mip_mask, Masked(mip, sip_mask \cap mideleg, val))
    /\ UNCHANGED <<mstatus, mie, mideleg, medeleg, mtrap, strap>>

WritesMie(val) ==
    /\ mie' = Masked(mie, all_ints, val)
    /\ UNCHANGED <<mstatus, mip, mideleg, medeleg, mtrap, strap>>

(* Every enable can be written through sie.                                *)
SieMask_All == all_ints

SieMask == mideleg

WritesSie(val) ==
    /\ mie' = Masked(mie, all_ints, Masked(mie, SieMask, val))
    /\ UNCHANGED <<mstatus, mip, mideleg, medeleg, mtrap, strap>>

WritesMideleg(val) ==
    /\ mideleg' = Masked(mideleg, delegable_ints, val)
    /\ UNCHANGED <<mstatus, mip, mie, medeleg, mtrap, strap>>

WritesMedeleg(val) ==
    /\ medeleg' = Masked(medeleg, Delegable, val)
    /\ UNCHANGED <<mstatus, mip, mie, mideleg, mtrap, strap>>

(* validate_csr: the CSRs of S are for S and M, those of M for M.          *)
set_csr ==
    /\ alive /\ prv >= PRV_S
    /\ \/ \E val \in StatusWrites : \/ WritesSstatus(val)
                                    \/ prv = PRV_M /\ WritesMstatus(val)
       \/ \E val \in SUBSET Sources : \/ WritesSip(val) \/ WritesSie(val)
                                      \/ prv = PRV_M /\ (\/ WritesMip(val) \/ WritesMie(val)
                                                         \/ WritesMideleg(val))
       \/ prv = PRV_M /\ \E val \in SUBSET Exceptions : WritesMedeleg(val)
    /\ UNCHANGED <<prv, dcsr, alive>>

-----------------------------------------------------------------------------
(* mret, sret and dret (insns/), processor_t::reset, a halt.               *)

mret ==
    /\ alive /\ prv = PRV_M /\ ~dcsr.cause
    /\ prv' = mstatus.mpp
    /\ mstatus' = [mstatus EXCEPT !.mie = mstatus.mpie, !.mpie = TRUE, !.mpp = PRV_U]
    /\ mtrap' = NoContext
    /\ UNCHANGED <<mip, mie, mideleg, medeleg, dcsr, alive, strap>>

sret ==
    /\ alive /\ prv >= PRV_S /\ ~dcsr.cause
    /\ prv' = mstatus.spp
    /\ mstatus' = [mstatus EXCEPT !.sie = mstatus.spie, !.spie = TRUE, !.spp = PRV_U]
    /\ strap' = NoContext
    /\ UNCHANGED <<mip, mie, mideleg, medeleg, dcsr, alive, mtrap>>

dret ==
    /\ alive /\ dcsr.cause
    /\ prv' = dcsr.prv
    /\ dcsr' = [dcsr EXCEPT !.cause = FALSE]
    /\ UNCHANGED <<csrs, alive, mtrap, strap>>

Halt == alive /\ ~dcsr.cause /\ enter_debug_mode

reset ==
    /\ alive
    /\ prv' = PRV_M
    /\ mstatus' = [mie |-> FALSE, mpie |-> FALSE, sie |-> FALSE, spie |-> FALSE,
                   mpp |-> PRV_U, spp |-> PRV_U]
    /\ mip' = {} /\ mie' = {} /\ mideleg' = {} /\ medeleg' = {}
    /\ dcsr' = [cause |-> FALSE, prv |-> PRV_U]
    /\ mtrap' = NoContext /\ strap' = NoContext
    /\ UNCHANGED alive

-----------------------------------------------------------------------------
Next ==
    \/ Interrupt \/ Exception \/ raise_interrupt \/ ClintDrives
    \/ set_csr \/ mret \/ sret \/ dret \/ Halt \/ reset

Spec == Init /\ [][Next]_vars

-----------------------------------------------------------------------------
(* Software of S and U, the traps it takes in S included, never changes    *)
(* what belongs to M: the enables and the stack of M, delegation, the      *)
(* enables of interrupts that are not delegated and the pending bits it    *)
(* cannot write (processor.cc:408-464).                                    *)
OwnedByM ==
    <<mstatus.mie, mstatus.mpie, mstatus.mpp, mideleg, medeleg, mie \ mideleg,
      (mip \cap mip_mask) \ (sip_mask \cap mideleg)>>
MStateGuarded == [][prv < PRV_M /\ prv' < PRV_M => UNCHANGED OwnedByM]_vars

(* A return goes to the privilege that was interrupted, with the enable it *)
(* had, whatever traps to the other mode, debugging and writes of other    *)
(* registers came in between; in particular the handlers of M do not       *)
(* disturb an unfinished handler of S (processor.cc:293-319, 453-457).     *)
ReturnsToContext ==
    [][/\ mret /\ mtrap # NoContext => prv' = mtrap.prv /\ mstatus'.mie = mtrap.enable
       /\ sret /\ strap # NoContext => prv' = strap.prv /\ mstatus'.sie = strap.enable]_vars

=============================================================================
