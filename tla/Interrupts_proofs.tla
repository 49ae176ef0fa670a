-------------------------- MODULE Interrupts_proofs -------------------------
(***************************************************************************)
(* Proofs about the privileged state of a hart, for every set of interrupt *)
(* sources, exceptions, breakpoint modes and written values.               *)
(***************************************************************************)
EXTENDS Interrupts, TLAPS

Types ==
    /\ prv \in Privileges
    /\ mstatus \in MStatus /\ mstatus.mpp \in Privileges
    /\ dcsr.prv \in Privileges

(* The context a handler will return to is the one on the stack of its     *)
(* mode: previous privilege and previous enable.                           *)
Stacked ==
    /\ mtrap # NoContext => mtrap.prv = mstatus.mpp /\ mtrap.enable = mstatus.mpie
    /\ strap # NoContext => strap.prv = mstatus.spp /\ strap.enable = mstatus.spie

Inv == Types /\ Stacked

-----------------------------------------------------------------------------
LEMMA Initially == Init => Inv
  BY DEF Init, Inv, Types, Stacked, MStatus, Privileges, NoContext,
         PRV_U, PRV_S, PRV_H, PRV_M

(* A trap to debug mode, to M or to S, or none in debug mode.              *)
LEMMA TrapsAre ==
    ASSUME Interrupt \/ Exception \/ raise_interrupt \/ Halt
    PROVE  \/ UNCHANGED vars \/ enter_debug_mode \/ InM \/ (InS /\ prv <= PRV_S)
           \/ UNCHANGED <<prv, csrs, dcsr, mtrap, strap>>
  BY DEF Interrupt, Exception, raise_interrupt, Halt, take_trap

(* A record with the stack of M, or of S, replaced is in MStatus.          *)
LEMMA StackOfM ==
    ASSUME NEW m \in MStatus, NEW p \in 0 .. 3, NEW e \in BOOLEAN, NEW f \in BOOLEAN
    PROVE  [m EXCEPT !.mpie = e, !.mpp = p, !.mie = f] \in MStatus
  BY DEF MStatus

LEMMA StackOfS ==
    ASSUME NEW m \in MStatus, NEW p \in {PRV_U, PRV_S}, NEW e \in BOOLEAN
    PROVE  [m EXCEPT !.spie = e, !.spp = p, !.sie = FALSE] \in MStatus
  BY DEF MStatus

(* A handler of M, or of S, is entered with the privilege and the enable   *)
(* on the stack, and the stack of the other mode as it was.                *)
LEMMA HandledInM ==
    ASSUME mstatus \in MStatus, prv \in 0 .. 3
    PROVE  /\ MHandled \in MStatus
           /\ MHandled.mpp = prv /\ MHandled.mpie = mstatus.mie
           /\ MHandled.spp = mstatus.spp /\ MHandled.spie = mstatus.spie
  <1>1. mstatus.mie \in BOOLEAN
    BY DEF MStatus
  <1>2. MHandled \in MStatus
    BY <1>1, StackOfM, Zenon DEF MHandled
  <1>3. MHandled.mpp = prv
    BY DEF MHandled, MStatus
  <1>4. MHandled.mpie = mstatus.mie
    BY DEF MHandled, MStatus
  <1>5. MHandled.spp = mstatus.spp
    BY DEF MHandled, MStatus
  <1>6. MHandled.spie = mstatus.spie
    BY DEF MHandled, MStatus
  <1> QED
    BY <1>2, <1>3, <1>4, <1>5, <1>6, Zenon

LEMMA HandledInS ==
    ASSUME mstatus \in MStatus, prv \in {PRV_U, PRV_S}
    PROVE  /\ SHandled \in MStatus
           /\ SHandled.spp = prv /\ SHandled.spie = mstatus.sie
           /\ SHandled.mpp = mstatus.mpp /\ SHandled.mpie = mstatus.mpie
  <1>1. mstatus.sie \in BOOLEAN
    BY DEF MStatus
  <1>2. SHandled \in MStatus
    BY <1>1, StackOfS, Zenon DEF SHandled
  <1>3. SHandled.spp = prv
    BY DEF SHandled, MStatus
  <1>4. SHandled.spie = mstatus.sie
    BY DEF SHandled, MStatus
  <1>5. SHandled.mpp = mstatus.mpp
    BY DEF SHandled, MStatus
  <1>6. SHandled.mpie = mstatus.mpie
    BY DEF SHandled, MStatus
  <1> QED
    BY <1>2, <1>3, <1>4, <1>5, <1>6, Zenon

LEMMA TrapKeepsInv ==
    ASSUME Inv, enter_debug_mode \/ InM \/ (InS /\ prv <= PRV_S)
    PROVE  Inv'
  <1> USE DEF Inv, Types, Stacked, MStatus, Privileges, NoContext, PRV_U, PRV_S, PRV_H, PRV_M
  <1>1. CASE enter_debug_mode
    BY <1>1 DEF enter_debug_mode, csrs
  <1>2. CASE InM
    <2>1. /\ mstatus' = MHandled /\ prv' = PRV_M /\ dcsr' = dcsr /\ strap' = strap
          /\ mtrap' = [prv |-> prv, enable |-> mstatus.mie]
      BY <1>2 DEF InM
    <2>2. /\ MHandled \in MStatus
          /\ MHandled.mpp = prv /\ MHandled.mpie = mstatus.mie
          /\ MHandled.spp = mstatus.spp /\ MHandled.spie = mstatus.spie
      BY HandledInM
    <2>3. mtrap'.prv = prv /\ mtrap'.enable = mstatus.mie
      BY <2>1
    <2> HIDE DEF MStatus
    <2> QED
      BY <2>1, <2>2, <2>3
  <1>3. CASE InS /\ prv <= PRV_S
    <2>1. /\ mstatus' = SHandled /\ prv' = PRV_S /\ dcsr' = dcsr /\ mtrap' = mtrap
          /\ strap' = [prv |-> prv, enable |-> mstatus.sie]
      BY <1>3 DEF InS
    <2>2. /\ SHandled \in MStatus
          /\ SHandled.spp = prv /\ SHandled.spie = mstatus.sie
          /\ SHandled.mpp = mstatus.mpp /\ SHandled.mpie = mstatus.mpie
      BY <1>3, HandledInS
    <2>3. strap'.prv = prv /\ strap'.enable = mstatus.sie
      BY <2>1
    <2> HIDE DEF MStatus
    <2> QED
      BY <2>1, <2>2, <2>3
  <1> QED
    BY <1>1, <1>2, <1>3

LEMMA WriteKeepsInv ==
    ASSUME Inv, set_csr
    PROVE  Inv'
  <1> USE DEF Inv, Types, Stacked
  <1>1. UNCHANGED <<prv, dcsr>>
    BY DEF set_csr
  <1>2. CASE \E val \in StatusWrites : WritesSstatus(val)
    BY <1>1, <1>2, InterruptsAssumption
       DEF WritesSstatus, SstatusOf, MStatus, NoContext
  <1>3. CASE \E val \in StatusWrites : WritesMstatus(val)
    BY <1>1, <1>3, InterruptsAssumption
       DEF WritesMstatus, legalize_privilege, MStatus, Privileges, NoContext,
           PRV_U, PRV_S, PRV_H, PRV_M
  <1>4. CASE UNCHANGED <<mstatus, mtrap, strap>>
    BY <1>1, <1>4
  <1> QED
    BY <1>2, <1>3, <1>4
       DEF set_csr, WritesSip, WritesSie, WritesMip, WritesMie, WritesMideleg, WritesMedeleg

LEMMA ReturnKeepsInv ==
    ASSUME Inv, mret \/ sret \/ dret
    PROVE  Inv'
  <1> USE DEF Inv, Types, Stacked, MStatus, Privileges, NoContext, PRV_U, PRV_S, PRV_H, PRV_M
  <1>1. CASE mret
    <2> DEFINE new == [mstatus EXCEPT !.mpie = TRUE, !.mpp = PRV_U, !.mie = mstatus.mpie]
    <2>1. /\ mstatus' = new /\ prv' = mstatus.mpp
          /\ mtrap' = NoContext /\ dcsr' = dcsr /\ strap' = strap
      BY <1>1 DEF mret
    <2>2. new \in MStatus
      <3>1. /\ mstatus \in MStatus /\ mstatus.mpie \in BOOLEAN
            /\ TRUE \in BOOLEAN /\ PRV_U \in 0 .. 3
        OBVIOUS
      <3> QED
        BY <3>1, StackOfM, Zenon
    <2>3. new.spp = mstatus.spp /\ new.mpp = PRV_U /\ new.mpp \in Privileges
               /\ mstatus.mpp \in Privileges
      OBVIOUS
    <2>4. new.spie = mstatus.spie
      OBVIOUS
    <2> HIDE DEF MStatus, new
    <2>5. Types'
      BY <2>1, <2>2, <2>3
    <2>6. Stacked'
      BY <2>1, <2>2, <2>3, <2>4
    <2> QED
      BY <2>5, <2>6
  <1>2. CASE sret
    <2> DEFINE new == [mstatus EXCEPT !.sie = mstatus.spie, !.spie = TRUE, !.spp = PRV_U]
    <2>1. /\ mstatus' = new /\ prv' = mstatus.spp
          /\ strap' = NoContext /\ dcsr' = dcsr /\ mtrap' = mtrap
      BY <1>2 DEF sret
    <2>2. new \in MStatus /\ new.mpp = mstatus.mpp /\ mstatus.spp \in Privileges
      OBVIOUS
    <2>3. new.mpie = mstatus.mpie
      OBVIOUS
    <2> HIDE DEF MStatus, new
    <2>4. Types'
      BY <2>1, <2>2
    <2>5. Stacked'
      BY <2>1, <2>2, <2>3
    <2> QED
      BY <2>4, <2>5
  <1>3. CASE dret
    BY <1>3 DEF dret, csrs
  <1> QED
    BY <1>1, <1>2, <1>3

LEMMA StepKeepsInv == Inv /\ [Next]_vars => Inv'
  <1> SUFFICES ASSUME Inv, [Next]_vars PROVE Inv'
    OBVIOUS
  <1>1. CASE Interrupt \/ Exception \/ raise_interrupt \/ Halt
    <2>1. CASE UNCHANGED <<prv, csrs, dcsr, mtrap, strap>>
      BY <2>1 DEF Inv, Types, Stacked, csrs
    <2> QED
      BY <1>1, <2>1, TrapsAre, TrapKeepsInv DEF vars, csrs
  <1>2. CASE ClintDrives
    BY <1>2 DEF ClintDrives, Inv, Types, Stacked
  <1>3. CASE set_csr
    BY <1>3, WriteKeepsInv
  <1>4. CASE mret \/ sret \/ dret
    BY <1>4, ReturnKeepsInv
  <1>5. CASE reset
    BY <1>5 DEF reset, Inv, Types, Stacked, MStatus, Privileges, NoContext,
                PRV_U, PRV_S, PRV_H, PRV_M
  <1>6. CASE UNCHANGED vars
    BY <1>6 DEF vars, Inv, Types, Stacked
  <1> QED
    BY <1>1, <1>2, <1>3, <1>4, <1>5, <1>6 DEF Next

THEOREM Invariance == Spec => []Inv
  BY Initially, StepKeepsInv, PTL DEF Spec

-----------------------------------------------------------------------------
(* mret and sret go back to the context that was interrupted, whatever     *)
(* happened in the other mode and in debug mode since                      *)
(* (processor.cc:293-319).                                                 *)
THEOREM ReturnsAreToContext == Spec => ReturnsToContext
  <1> DEFINE Back ==
        /\ mret /\ mtrap # NoContext => prv' = mtrap.prv /\ mstatus'.mie = mtrap.enable
        /\ sret /\ strap # NoContext => prv' = strap.prv /\ mstatus'.sie = strap.enable
  <1>1. Inv /\ [Next]_vars => [Back]_vars
    BY DEF Inv, Types, Stacked, mret, sret, MStatus
  <1> QED
    BY <1>1, Invariance, PTL DEF Spec, ReturnsToContext

(* What each write of S leaves of what M owns.                             *)
LEMMA WritesOfSupervisor ==
    ASSUME Inv, set_csr, prv < PRV_M
    PROVE  UNCHANGED OwnedByM
  <1>1. prv # PRV_M
    BY DEF Inv, Types, Privileges, PRV_U, PRV_S, PRV_M
  <1>2. CASE \E val \in StatusWrites : WritesSstatus(val)
    BY <1>2 DEF WritesSstatus, SstatusOf, OwnedByM, Inv, Types, MStatus
  <1>3. CASE \E val \in SUBSET Sources : WritesSip(val)
    <2>1. PICK val \in SUBSET Sources : WritesSip(val)
      BY <1>3
    <2>2. mip' = Masked(mip, mip_mask, Masked(mip, sip_mask \cap mideleg, val))
      BY <2>1 DEF WritesSip
    <2>3. (mip' \cap mip_mask) \ (sip_mask \cap mideleg) = (mip \cap mip_mask) \ (sip_mask \cap mideleg)
      BY <2>2 DEF Masked
    <2> QED
      BY <2>1, <2>3 DEF WritesSip, OwnedByM
  <1>4. CASE \E val \in SUBSET Sources : WritesSie(val)
    <2>1. PICK val \in SUBSET Sources : WritesSie(val)
      BY <1>4
    <2>2. mie' = Masked(mie, all_ints, Masked(mie, mideleg, val))
      BY <2>1 DEF WritesSie, SieMask
    <2>3. mie' \ mideleg = mie \ mideleg
      BY <2>2 DEF Masked
    <2> QED
      BY <2>1, <2>3 DEF WritesSie, OwnedByM
  <1> QED
    BY <1>1, <1>2, <1>3, <1>4 DEF set_csr

LEMMA TrapsOfSupervisor ==
    ASSUME Inv, Interrupt \/ Exception \/ raise_interrupt \/ Halt, prv < PRV_M, prv' < PRV_M
    PROVE  UNCHANGED OwnedByM
  <1>1. CASE UNCHANGED csrs
    BY <1>1 DEF csrs, OwnedByM
  <1>2. CASE InS
    BY <1>2 DEF InS, SHandled, OwnedByM, Inv, Types, MStatus
  <1>3. ~enter_debug_mode /\ ~InM
    BY DEF enter_debug_mode, InM, PRV_M
  <1> QED
    BY <1>1, <1>2, <1>3, TrapsAre DEF vars, csrs

(* Software of S and U and the traps it takes never change what belongs to *)
(* M (processor.cc:408-464).                                               *)
THEOREM StateOfMIsGuarded == Spec => MStateGuarded
  <1> DEFINE Guarded == prv < PRV_M /\ prv' < PRV_M => UNCHANGED OwnedByM
  <1>1. ASSUME Inv, Next, prv < PRV_M, prv' < PRV_M
        PROVE  UNCHANGED OwnedByM
    <2>1. CASE Interrupt \/ Exception \/ raise_interrupt \/ Halt
      BY <1>1, <2>1, TrapsOfSupervisor
    <2>2. CASE ClintDrives
      <3>1. UNCHANGED <<mstatus, mie, mideleg, medeleg>> /\ mip' \cap mip_mask = mip \cap mip_mask
        BY <2>2 DEF ClintDrives, mip_mask, IRQ_S_SOFT, IRQ_S_TIMER, IRQ_M_SOFT, IRQ_M_TIMER
      <3> QED
        BY <3>1 DEF OwnedByM
    <2>3. CASE set_csr
      BY <1>1, <2>3, WritesOfSupervisor
    <2>4. CASE sret
      BY <2>4, <1>1 DEF sret, OwnedByM, Inv, Types, MStatus
    <2>5. CASE dret
      BY <2>5 DEF dret, csrs, OwnedByM
    <2>6. ~mret /\ ~reset
      BY <1>1 DEF mret, reset, PRV_M
    <2> QED
      BY <1>1, <2>1, <2>2, <2>3, <2>4, <2>5, <2>6 DEF Next
  <1>2. Inv /\ [Next]_vars => [Guarded]_vars
    BY <1>1
  <1> QED
    BY <1>2, Invariance, PTL DEF Spec, MStateGuarded
=============================================================================
