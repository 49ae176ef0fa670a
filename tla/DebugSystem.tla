---------------------------- MODULE DebugSystem ----------------------------
(***************************************************************************)
(* The Debug Module composed with the harts and an arbitrary debugger.     *)
(*                                                                         *)
(* A hart runs its program until it enters debug mode                      *)
(* (processor_t::enter_debug_mode); it then executes the debug ROM, one    *)
(* access per turn, because processor_t::step returns after an instruction *)
(* in the ROM unless that serializes (HartStep has that detail).  pc[h]    *)
(* names the next access of hart h to the Debug Module; the remote-bitbang *)
(* tick runs DMI accesses between any two turns.  The ROM itself           *)
(* (debug_rom/debug_rom.S) is not part of the sources: its steps are those *)
(* the store handler is written for.                                       *)
(*                                                                         *)
(* Everybody on the bus may store to data0 and to the program buffer; to   *)
(* HALTED, GOING, RESUMING and EXCEPTION only the ROM does.                *)
(***************************************************************************)
EXTENDS DebugModule

VARIABLES
    pc,   \* where each hart is
    reg   \* the register of each hart that abstract commands access

vars == <<dmvars, pc, reg>>

(* The debug-mode program counters.                                        *)
(*   entry       sw of mhartid to HALTED                                   *)
(*   check_go    lbu of the flags, tested for GO                           *)
(*   check_resume  lbu of the flags, tested for RESUME                     *)
(*   going       sw to GOING                                               *)
(*   exec        jump through whereto into debug_abstract                  *)
(*   progbuf     inside the program buffer                                 *)
(*   exception   sw to EXCEPTION                                           *)
(*   resuming    sw of mhartid to RESUMING                                 *)
(*   dret                                                                  *)
ParkPC    == {"entry", "check_go", "check_resume"}
CommandPC == {"going", "exec", "progbuf", "exception"}
DebugPC   == ParkPC \cup CommandPC \cup {"resuming", "dret"}
PC        == {"run"} \cup DebugPC

TypeOK ==
    /\ DMTypeOK
    /\ pc \in [Harts -> PC]
    /\ reg \in [Harts -> Word]

Init ==
    /\ DMInit
    /\ pc = [h \in Harts |-> "run"]
    /\ reg = [h \in Harts |-> 0]

Goto(h, label) == pc' = [pc EXCEPT ![h] = label]

-----------------------------------------------------------------------------
(* A turn of a hart in its own program: sim_t::step, processor_t::step.    *)

(* The request is honoured at the head of step.                            *)
EnterOnRequest(h) ==
    /\ pc[h] = "run"
    /\ halt_request[h]
    /\ Goto(h, "entry")
    /\ UNCHANGED <<dmvars, reg>>

(* A quantum of the program, which may write the register and may end in   *)
(* debug mode of its own accord: ebreak, a trigger, a single step, the     *)
(* halt bit of dcsr.                                                       *)
RunProgram_NoCheck(h) ==
    /\ pc[h] = "run"
    /\ \E d \in Word : reg' = [reg EXCEPT ![h] = d]
    /\ Goto(h, "run") \/ Goto(h, "entry")
    /\ UNCHANGED dmvars

RunProgram(h) ==
    /\ pc[h] = "run"
    /\ ~halt_request[h]
    /\ \E d \in Word : reg' = [reg EXCEPT ![h] = d]
    /\ Goto(h, "run") \/ Goto(h, "entry")
    /\ UNCHANGED dmvars

-----------------------------------------------------------------------------
(* A turn of a hart in the debug ROM.                                      *)

Flags(h) == debug_rom_flags[HartId[h]]

RomHalted(h) ==
    /\ pc[h] = "entry"
    /\ StoreHalted(h)
    /\ Goto(h, "check_go")
    /\ UNCHANGED reg

RomCheckGo(h) ==
    /\ pc[h] = "check_go"
    /\ Goto(h, IF GO \in Flags(h) THEN "going" ELSE "check_resume")
    /\ UNCHANGED <<dmvars, reg>>

RomCheckResume(h) ==
    /\ pc[h] = "check_resume"
    /\ Goto(h, IF RESUME \in Flags(h) THEN "resuming" ELSE "entry")
    /\ UNCHANGED <<dmvars, reg>>

RomGoing(h) ==
    /\ pc[h] = "going"
    /\ StoreGoing(h)
    /\ Goto(h, "exec")
    /\ UNCHANGED reg

RomResuming(h) ==
    /\ pc[h] = "resuming"
    /\ StoreResuming(h)
    /\ Goto(h, "dret")
    /\ UNCHANGED reg

(* dret and the rest of the quantum.  With dcsr.step, or when the program  *)
(* halts by itself, the hart is back in the ROM at the end of it.          *)
RomDret(h) ==
    /\ pc[h] = "dret"
    /\ \E d \in Word : reg' = [reg EXCEPT ![h] = d]
    /\ Goto(h, "run") \/ Goto(h, "entry")
    /\ UNCHANGED dmvars

RomException(h) ==
    /\ pc[h] = "exception"
    /\ StoreException(h)
    /\ Goto(h, "entry")
    /\ UNCHANGED reg

-----------------------------------------------------------------------------
(* The abstract program, executed within one turn up to its ebreak.        *)

(* The words executed before the closing jump, an ebreak or a zero word.   *)
Ends(i) == debug_abstract[i] \in {"jal", "ebreak", "zero"}
EndOfProgram ==
    IF \E i \in 1 .. AbstractSize : Ends(i)
    THEN CHOOSE i \in 1 .. AbstractSize :
            Ends(i) /\ \A j \in 1 .. AbstractSize : Ends(j) => i <= j
    ELSE AbstractSize + 1
Executes(word) == \E i \in 1 .. EndOfProgram - 1 : debug_abstract[i] = word

(* Where the hart is after the program buffer, and what it leaves in reg.  *)
RunProgbuf(h, r) ==
    CASE program_buffer = "ebreak" -> Goto(h, "entry") /\ reg' = [reg EXCEPT ![h] = r]
      [] program_buffer = "incr" ->
            Goto(h, "entry") /\ reg' = [reg EXCEPT ![h] = (r + 1) % WordSize]
      [] program_buffer = "trap" -> Goto(h, "exception") /\ reg' = [reg EXCEPT ![h] = r]
      [] OTHER -> Goto(h, "progbuf") /\ reg' = [reg EXCEPT ![h] = r]

(* A transfer may raise an exception before it moves anything: a CSR or    *)
(* FPR that is not there, or 64 bits of a register of an RV32 hart.        *)
MayFault ==
    \E word \in {"csr", "load", "store", "fload", "fstore"} : Executes(word)

ExecFault(h) ==
    /\ pc[h] = "exec"
    /\ MayFault
    /\ Goto(h, "exception")
    /\ UNCHANGED <<dmvars, reg>>

RegAfterTransfer(h) ==
    IF Executes("load") \/ Executes("fload") THEN dmdata ELSE reg[h]

ExecProgram(h) ==
    /\ pc[h] = "exec"
    /\ IF Executes("store") \/ Executes("fstore")
       THEN StoreData(reg[h])
       ELSE UNCHANGED dmvars
    /\ CASE EndOfProgram > AbstractSize \/ debug_abstract[EndOfProgram] = "zero" ->
              Goto(h, "exception")
              /\ reg' = [reg EXCEPT ![h] = RegAfterTransfer(h)]
         [] debug_abstract[EndOfProgram] = "ebreak" ->
              Goto(h, "entry") /\ reg' = [reg EXCEPT ![h] = RegAfterTransfer(h)]
         [] OTHER -> RunProgbuf(h, RegAfterTransfer(h))

(* A further quantum inside a program buffer that loops.                   *)
ContinueProgbuf(h) ==
    /\ pc[h] = "progbuf"
    /\ RunProgbuf(h, reg[h])
    /\ UNCHANGED dmvars

HartTurn(h) ==
    \/ EnterOnRequest(h)
    \/ RunProgram(h)
    \/ RomHalted(h)
    \/ RomCheckGo(h)
    \/ RomCheckResume(h)
    \/ RomGoing(h)
    \/ RomResuming(h)
    \/ RomDret(h)
    \/ RomException(h)
    \/ ExecFault(h)
    \/ ExecProgram(h)
    \/ ContinueProgbuf(h)

-----------------------------------------------------------------------------
(* A DMI access of a debugger that may write anything at any time.         *)

RegisterAccess == DmiRegister /\ UNCHANGED <<pc, reg>>

(* A store to the module's memory by the program of a hart, by code in the *)
(* program buffer, or by the debugger through the system bus (sb_write).   *)
BusStore ==
    /\ \/ \E d \in Word : StoreData(d)
       \/ \E p \in Programs : StoreProgbuf(p)
    /\ UNCHANGED <<pc, reg>>

(* processor_t::reset clears the whole hart state: it leaves debug mode.   *)
WriteDmcontrol(v) ==
    /\ DmiWriteDmcontrol(v)
    /\ pc' = [h \in Harts |-> IF h \in HartsResetBy(v) THEN "run" ELSE pc[h]]
    /\ reg' = [h \in Harts |-> IF h \in HartsResetBy(v) THEN 0 ELSE reg[h]]

DmcontrolAccess == \E v \in DmcontrolWrites : WriteDmcontrol(v)

Next ==
    \/ \E h \in Harts : HartTurn(h)
    \/ BusStore
    \/ RegisterAccess
    \/ DmcontrolAccess

Spec == Init /\ [][Next]_vars

(* The main loop gives every hart its quantum in turn (sim_t::step).       *)
HartFairness == \A h \in Harts : WF_vars(HartTurn(h))

FairSpec == Spec /\ HartFairness

-----------------------------------------------------------------------------
(* What holds whatever the debugger writes, and whenever.                  *)

(* A hart the Debug Module reports as halted is in debug mode, between its *)
(* HALTED store and the RESUMING store: no order of halts, resumes, resets *)
(* of harts and of the module leaves a running hart marked as halted.      *)
HaltedMeansInDebugMode ==
    \A h \in Harts : halted[HartId[h]] => pc[h] \in DebugPC \ {"dret"}

(* The halt request the debugger reads back from dmcontrol is the one the  *)
(* selected processor obeys, so the refresh in dmi_read changes nothing.   *)
HaltreqMirrorsHart ==
    hartsel \in Harts => halt_request[hartsel] = dmcontrol.haltreq

(* A resume acknowledged to the debugger is not pending any more: the flag *)
(* and the acknowledgement, written by the DMI and by the hart, agree.     *)
AckExcludesPendingResume ==
    \A s \in HartSels : resumeack[s] => RESUME \notin debug_rom_flags[s]

(* While busy is set no access through the debug registers replaces what   *)
(* the hart is about to run or running: no command, accepted or refused,   *)
(* written or automatic, touches the abstract program, and no write the    *)
(* program buffer.  Only a store on the bus still does, which nothing      *)
(* checks (debug_module.cc:174-178).                                       *)
BusyShieldsProgram ==
    [][busy => /\ UNCHANGED debug_abstract
               /\ UNCHANGED program_buffer \/ (BusStore /\ ~RegisterAccess)]_vars

(* The first error stays until the debugger clears it: a hart's exception  *)
(* and an access while busy never overwrite each other.                    *)
FirstErrorKept == [][cmderr # CMDERR_NONE => cmderr' \subseteq cmderr]_vars

(* When a hart stops being halted the debugger can tell why: it has        *)
(* acknowledged a resume or it has been reset, even when the write that    *)
(* resets it also acknowledges an earlier reset.                           *)
LeavingHaltIsVisible ==
    [][\A h \in Harts :
        halted[HartId[h]] /\ ~halted'[HartId[h]]
            => resumeack'[HartId[h]] \/ havereset'[HartId[h]]]_vars

=============================================================================
