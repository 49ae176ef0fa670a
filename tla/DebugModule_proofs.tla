------------------------- MODULE DebugModule_proofs -------------------------
(***************************************************************************)
(* What the debug module guarantees.  First DebugSystem, for every number  *)
(* of harts, assignment of mhartids, program buffer size and set of        *)
(* debugger accesses.  Then DebugSession, what a debugger that waits can   *)
(* rely on, and that it implements CommandPort.  Last SystemBus, for every *)
(* width of addresses and words and place and size of the memory.          *)
(***************************************************************************)
EXTENDS DebugSession, SystemBus, SequenceTheorems, TLAPS

-----------------------------------------------------------------------------
(* Constants and arithmetic.                                               *)

(* The reset value of hartsel selects a hart that exists, and 0 is a word. *)
LEMMA ZeroFacts == 0 \in Harts /\ 0 \in HartSels /\ 0 \in Word
BY NProcsAssumption, SizesAssumption DEF Harts, Word

(* The mhartid of a hart is a value of hartsel. *)
LEMMA HartIdType == \A h \in Harts : HartId[h] \in HartSels
BY HartIdAssumption

(* Arithmetic on words wraps around. *)
LEMMA WordArithmetic == \A i \in Int : i % WordSize \in Word
BY SizesAssumption DEF Word

(* Every error that can be reported is a set of bits of cmderr. *)
LEMMA ErrorType ==
    {CMDERR_NONE, CMDERR_BUSY, CMDERR_NOTSUP, CMDERR_EXCEPTION,
     CMDERR_HALTRESUME} \subseteq SUBSET CmderrBits
BY DEF CMDERR_NONE, CMDERR_BUSY, CMDERR_NOTSUP, CMDERR_EXCEPTION,
       CMDERR_HALTRESUME, CmderrBits

-----------------------------------------------------------------------------
(* perform_abstract_command.                                               *)

(* The words assembled for a transfer are instructions of the program. *)
LEMMA TransferWordsType ==
    ASSUME NEW cmd \in CommandSet
    PROVE  TransferWords(cmd) \in Seq(AbstractWord)
<1>1. {"swap_s0", "csr", "load", "store", "fload", "fstore"} \subseteq AbstractWord
    BY DEF AbstractWord
<1>2. <<"swap_s0", "load", "csr", "swap_s0">> \in Seq(AbstractWord)
    BY <1>1
<1>3. <<"swap_s0", "csr", "store", "swap_s0">> \in Seq(AbstractWord)
    BY <1>1
<1>4. <<"swap_s0", "csr">> \in Seq(AbstractWord)
    BY <1>1
<1>5. \A word \in AbstractWord : <<word>> \in Seq(AbstractWord)
    OBVIOUS
<1>6. << >> \in Seq(AbstractWord)
    OBVIOUS
<1>. QED BY <1>1, <1>2, <1>3, <1>4, <1>5, <1>6 DEF TransferWords

(* Assembling never leaves debug_abstract. *)
LEMMA AssembleType ==
    ASSUME DMTypeOK, NEW words \in Seq(AbstractWord)
    PROVE  Assemble(words) \in [1 .. AbstractSize -> AbstractWord]
<1>1. \A i \in 1 .. AbstractSize : debug_abstract[i] \in AbstractWord
    BY DEF DMTypeOK
<1>2. \A i \in 1 .. Len(words) : words[i] \in AbstractWord
    OBVIOUS
<1>. QED BY <1>1, <1>2 DEF Assemble

(* A refused command is refused with an error of cmderr. *)
LEMMA RefusalType ==
    ASSUME NEW cmd PROVE Refusal(cmd) \in SUBSET CmderrBits
BY ErrorType DEF Refusal

(* What a command, or an access that may perform one, changes. *)
CommandTypeOK ==
    /\ busy \in BOOLEAN
    /\ cmderr \in SUBSET CmderrBits
    /\ debug_abstract \in [1 .. AbstractSize -> AbstractWord]
    /\ dmdata \in Word
    /\ custom_base \in Word
    /\ debug_rom_flags \in [HartSels -> SUBSET {GO, RESUME}]

(* A command preserves the types of what it changes. *)
LEMMA PerformType ==
    ASSUME DMTypeOK, NEW cmd \in Commands, NEW d \in Word,
           PerformAbstractCommand(cmd, d)
    PROVE  CommandTypeOK'
<1>. cmd \in CommandSet
    BY InputsAssumption
<1>. CommandTypeOK
    BY DEF DMTypeOK, CommandTypeOK
<1>. d \in Int /\ custom_base \in Int
    BY SizesAssumption DEF DMTypeOK, Word
<1>1. CASE CommandIgnored(cmd, d)
    BY <1>1 DEF CommandIgnored, CommandTypeOK
<1>2. CASE CommandRefused(cmd, d)
  <2>1. debug_abstract' \in [1 .. AbstractSize -> AbstractWord]
      BY <1>2, TransferWordsType, AssembleType DEF CommandRefused, CommandTypeOK
  <2>. QED BY <1>2, <2>1, RefusalType DEF CommandRefused, CommandTypeOK
<1>3. CASE CommandCustom(cmd, d)
  <2>1. (d - 1) % WordSize \in Word /\ (1 + custom_base) % WordSize \in Word
      BY WordArithmetic
  <2>. QED BY <1>3, <2>1 DEF CommandCustom, CommandTypeOK
<1>4. CASE CommandStarted(cmd, d)
  <2>1. Append(TransferWords(cmd), Closing(cmd)) \in Seq(AbstractWord)
      BY TransferWordsType DEF Closing, AbstractWord
  <2>2. debug_abstract' \in [1 .. AbstractSize -> AbstractWord]
      BY <1>4, <2>1, AssembleType DEF CommandStarted
  <2>3. debug_rom_flags' \in [HartSels -> SUBSET {GO, RESUME}]
      BY <1>4 DEF CommandStarted, CommandTypeOK
  <2>. QED BY <1>4, <2>2, <2>3 DEF CommandStarted, CommandTypeOK
<1>. QED BY <1>1, <1>2, <1>3, <1>4 DEF PerformAbstractCommand

(* So does automatic execution, and an access refused while busy. *)
LEMMA AutoexecType ==
    ASSUME DMTypeOK, NEW d \in Word, NEW bit, Autoexec(bit, d)
    PROVE  CommandTypeOK'
BY PerformType DEF Autoexec, DMTypeOK, CommandTypeOK

(* An access that meets busy sets an error of cmderr. *)
LEMMA BusyErrorType ==
    ASSUME DMTypeOK, BusyError
    PROVE  CommandTypeOK'
BY ErrorType DEF BusyError, DMTypeOK, CommandTypeOK

-----------------------------------------------------------------------------
(* The handlers of the Debug Module preserve its type invariant.           *)

(* Every store of a hart. *)
LEMMA StoreType ==
    ASSUME DMTypeOK, NEW h \in Harts,
           \/ StoreHalted(h) \/ StoreGoing(h) \/ StoreResuming(h)
           \/ StoreException(h) \/ \E d \in Word : StoreData(d)
    PROVE  DMTypeOK'
<1>. HartId[h] \in HartSels
    BY HartIdType
<1>1. CASE StoreHalted(h)
    BY <1>1 DEF StoreHalted, DMTypeOK
<1>2. CASE StoreGoing(h)
    BY <1>2 DEF StoreGoing, DMTypeOK, ctrlvars, cmdvars
<1>3. CASE StoreResuming(h)
    BY <1>3 DEF StoreResuming, DMTypeOK, cmdvars
<1>4. CASE StoreException(h)
    BY <1>4, ErrorType DEF StoreException, DMTypeOK, ctrlvars
<1>5. CASE \E d \in Word : StoreData(d)
    BY <1>5 DEF StoreData, DMTypeOK, ctrlvars
<1>. QED BY <1>1, <1>2, <1>3, <1>4, <1>5

(* A store of anybody to the memory of the module. *)
LEMMA BusStoreType ==
    ASSUME TypeOK, BusStore
    PROVE  TypeOK'
<1>1. pc' = pc /\ reg' = reg
    BY DEF BusStore
<1>2. ASSUME NEW d \in Word, StoreData(d) PROVE DMTypeOK'
    BY <1>2 DEF StoreData, TypeOK, DMTypeOK, ctrlvars
<1>3. ASSUME NEW p \in Programs, StoreProgbuf(p) PROVE DMTypeOK'
    BY <1>3, InputsAssumption DEF StoreProgbuf, TypeOK, DMTypeOK, ctrlvars, cmdvars
<1>. QED BY <1>1, <1>2, <1>3 DEF BusStore, TypeOK

(* It touches nothing of the control of the harts. *)
LEMMA BusStoreKeeps ==
    ASSUME BusStore
    PROVE  UNCHANGED <<ctrlvars, debug_rom_flags, busy, cmderr, debug_abstract, pc>>
BY DEF BusStore, StoreData, StoreProgbuf, cmdvars

(* Every DMI access that leaves the harts alone. *)
LEMMA RegisterType ==
    ASSUME DMTypeOK, DmiRegister
    PROVE  DMTypeOK'
<1>. USE DEF DMTypeOK, CommandTypeOK, ctrlvars
<1>1. CASE DmiReadData
    BY <1>1, BusyErrorType, AutoexecType DEF DmiReadData
<1>2. ASSUME NEW d \in Word, DmiWriteData(d) PROVE DMTypeOK'
    BY <1>2, BusyErrorType, AutoexecType DEF DmiWriteData
<1>3. CASE DmiReadProgbuf
    BY <1>3, AutoexecType DEF DmiReadProgbuf
<1>4. ASSUME NEW p \in Programs, DmiWriteProgbuf(p) PROVE DMTypeOK'
    BY <1>4, AutoexecType, InputsAssumption DEF DmiWriteProgbuf
<1>5. ASSUME NEW c \in Commands, DmiWriteCommand(c) PROVE DMTypeOK'
    BY <1>5, PerformType DEF DmiWriteCommand
<1>6. ASSUME NEW bits \in SUBSET CmderrBits, DmiWriteAbstractcs(bits) PROVE DMTypeOK'
    BY <1>6 DEF DmiWriteAbstractcs
<1>7. ASSUME NEW a \in AutoexecWrites, DmiWriteAbstractauto(a) PROVE DMTypeOK'
    BY <1>7, InputsAssumption DEF DmiWriteAbstractauto, cmdvars
<1>8. ASSUME NEW right \in BOOLEAN, DmiWriteAuthdata(right) PROVE DMTypeOK'
    BY <1>8 DEF DmiWriteAuthdata, cmdvars
<1>9. CASE DmiReadDmcontrol
  <2>1. dmcontrol' \in DmcontrolSet
      BY <1>9 DEF DmiReadDmcontrol, DmcontrolSet
  <2>. QED BY <1>9, <2>1 DEF DmiReadDmcontrol, cmdvars
<1>. QED BY <1>1, <1>2, <1>3, <1>4, <1>5, <1>6, <1>7, <1>8, <1>9 DEF DmiRegister

(* Whatever a debugger can write to dmcontrol, DmcontrolWrites or not, so  *)
(* that the lemmas hold of the accesses of DebugSession too.               *)
AnyWrite == [value : DmcontrolSet, ackhavereset : BOOLEAN]

(* The reset value of dmcontrol, and what a write makes of it. *)
LEMMA WrittenType ==
    ASSUME DMTypeOK, NEW v \in AnyWrite
    PROVE  /\ DmcontrolReset \in DmcontrolSet
           /\ v.value \in DmcontrolSet
           /\ Written(v) \in DmcontrolSet
<1>1. v.value \in DmcontrolSet
    BY DEF AnyWrite
<1>2. DmcontrolReset \in DmcontrolSet
    BY ZeroFacts DEF DmcontrolReset, DmcontrolSet
<1>. QED BY <1>1, <1>2 DEF Written, DMTypeOK, DmcontrolSet

(* A write of dmcontrol, with what it resets. *)
LEMMA DmcontrolType ==
    ASSUME DMTypeOK, NEW v \in AnyWrite, DmiWriteDmcontrol(v)
    PROVE  DMTypeOK'
<1>1. /\ busy' \in BOOLEAN /\ authenticated' \in BOOLEAN
      /\ cmderr' \in SUBSET CmderrBits
      /\ autoexec' \in AutoexecSet
    BY ErrorType, SizesAssumption
    DEF DmiWriteDmcontrol, ResetModule, AuthenticatedBy, AutoexecReset,
        AutoexecSet, DMTypeOK
<1>2. /\ command' \in Commands /\ dmdata' \in Word /\ custom_base' \in Word
      /\ debug_abstract' \in [1 .. AbstractSize -> AbstractWord]
      /\ program_buffer' \in ProgramSet
    BY DEF DmiWriteDmcontrol, DMTypeOK
<1>3. CASE AuthenticatedBy(v)
  <2>. HartControl(v)
      BY <1>3 DEF DmiWriteDmcontrol
  <2>1. Written(v) \in DmcontrolSet
      BY WrittenType
  <2>2. dmcontrol' \in DmcontrolSet
      BY <2>1 DEF HartControl
  <2>3. halt_request' \in [Harts -> BOOLEAN]
    <3>1. \A h \in Harts : HaltRequestsLeftBy(v)[h] \in BOOLEAN
        BY DEF HaltRequestsLeftBy, DMTypeOK
    <3>. QED BY <2>1, <3>1 DEF HartControl, HaltRequestsAfter, DmcontrolSet
  <2>4. debug_rom_flags' \in [HartSels -> SUBSET {GO, RESUME}]
      BY DEF HartControl, DMTypeOK
  <2>5. /\ halted' \in [HartSels -> BOOLEAN]
        /\ resumeack' \in [HartSels -> BOOLEAN]
        /\ havereset' \in [HartSels -> BOOLEAN]
      BY DEF HartControl, HaveresetAfter, Resets, Resumes, DMTypeOK
  <2>. QED BY <1>1, <1>2, <2>2, <2>3, <2>4, <2>5 DEF DMTypeOK
<1>4. CASE ~AuthenticatedBy(v)
  <2>1. dmcontrol' \in DmcontrolSet
      BY <1>4, WrittenType DEF DmiWriteDmcontrol, DmcontrolSet, DMTypeOK
  <2>2. halt_request' \in [Harts -> BOOLEAN]
      BY <1>4 DEF DmiWriteDmcontrol, HaltRequestsLeftBy, DMTypeOK
  <2>. QED BY <1>1, <1>2, <1>4, <2>1, <2>2 DEF DmiWriteDmcontrol, DMTypeOK
<1>. QED BY <1>3, <1>4

-----------------------------------------------------------------------------
(* Type correctness.                                                       *)

(* The constructors establish the types. *)
LEMMA InitType == Init => TypeOK
<1>. SUFFICES ASSUME Init PROVE TypeOK
    OBVIOUS
<1>1. DmcontrolReset \in DmcontrolSet
    BY ZeroFacts DEF DmcontrolReset, DmcontrolSet
<1>2. DMTypeOK
    BY <1>1, ZeroFacts, ErrorType, SizesAssumption
    DEF Init, DMInit, DMTypeOK, AutoexecReset, AutoexecSet, ProgramSet,
        AbstractWord
<1>. QED BY <1>2, ZeroFacts DEF Init, TypeOK, PC

(* Every turn of a hart. *)
LEMMA HartTurnType ==
    ASSUME TypeOK, NEW h \in Harts, HartTurn(h)
    PROVE  TypeOK'
<1>. USE DEF PC, DebugPC, ParkPC, CommandPC
<1>. DMTypeOK
    BY DEF TypeOK
<1>. DEFINE Still == UNCHANGED dmvars => DMTypeOK'
<1>0. Still
    BY DEF dmvars, ctrlvars, cmdvars, DMTypeOK
<1>. HIDE DEF Still
<1>1. CASE EnterOnRequest(h)
    BY <1>0, <1>1 DEF EnterOnRequest, Goto, TypeOK, Still
<1>2. CASE RunProgram(h)
    BY <1>0, <1>2 DEF RunProgram, Goto, TypeOK, Still
<1>3. CASE RomHalted(h)
    BY <1>3, StoreType DEF RomHalted, Goto, TypeOK
<1>4. CASE RomCheckGo(h)
    BY <1>0, <1>4 DEF RomCheckGo, Goto, TypeOK, Still
<1>5. CASE RomCheckResume(h)
    BY <1>0, <1>5 DEF RomCheckResume, Goto, TypeOK, Still
<1>6. CASE RomGoing(h)
    BY <1>6, StoreType DEF RomGoing, Goto, TypeOK
<1>7. CASE RomResuming(h)
    BY <1>7, StoreType DEF RomResuming, Goto, TypeOK
<1>8. CASE RomDret(h)
    BY <1>0, <1>8 DEF RomDret, Goto, TypeOK, Still
<1>9. CASE RomException(h)
    BY <1>9, StoreType DEF RomException, Goto, TypeOK
<1>10. CASE ExecFault(h)
    BY <1>0, <1>10 DEF ExecFault, Goto, TypeOK, Still
<1>11. ASSUME NEW r \in Word, RunProgbuf(h, r)
       PROVE  pc' \in [Harts -> PC] /\ reg' \in [Harts -> Word]
  <2>1. (r + 1) % WordSize \in Word
      BY WordArithmetic, SizesAssumption DEF Word
  <2>. QED BY <1>11, <2>1 DEF RunProgbuf, Goto, TypeOK
<1>12. CASE ExecProgram(h)
  <2>1. DMTypeOK'
      BY <1>0, <1>12, StoreType DEF ExecProgram, TypeOK, Still
  <2>2. RegAfterTransfer(h) \in Word
      BY DEF RegAfterTransfer, TypeOK, DMTypeOK
  <2>3. pc' \in [Harts -> PC] /\ reg' \in [Harts -> Word]
    <3>1. CASE RunProgbuf(h, RegAfterTransfer(h))
        BY <1>11, <2>2, <3>1
    <3>2. CASE /\ Goto(h, "exception") \/ Goto(h, "entry")
               /\ reg' = [reg EXCEPT ![h] = RegAfterTransfer(h)]
        BY <2>2, <3>2 DEF Goto, TypeOK
    <3>. QED BY <1>12, <3>1, <3>2 DEF ExecProgram
  <2>. QED BY <2>1, <2>3 DEF TypeOK
<1>13. CASE ContinueProgbuf(h)
  <2>1. reg[h] \in Word
      BY DEF TypeOK
  <2>. QED BY <1>0, <1>11, <1>13, <2>1 DEF ContinueProgbuf, TypeOK, Still
<1>. QED BY <1>1, <1>2, <1>3, <1>4, <1>5, <1>6, <1>7, <1>8, <1>9, <1>10,
            <1>12, <1>13 DEF HartTurn

(* A step of the harts or of any debugger. *)
Step ==
    \/ \E h \in Harts : HartTurn(h)
    \/ BusStore
    \/ RegisterAccess
    \/ \E v \in AnyWrite : WriteDmcontrol(v)
    \/ UNCHANGED vars

LEMMA NextIsStep == [Next]_vars => Step
BY InputsAssumption DEF Next, DmcontrolAccess, Step, AnyWrite

(* Every step. *)
LEMMA StepType ==
    ASSUME TypeOK, Step
    PROVE  TypeOK'
<1>1. ASSUME NEW h \in Harts, HartTurn(h) PROVE TypeOK'
    BY <1>1, HartTurnType
<1>2. CASE RegisterAccess
    BY <1>2, RegisterType DEF RegisterAccess, TypeOK
<1>3. ASSUME NEW v \in AnyWrite, WriteDmcontrol(v) PROVE TypeOK'
  <2>1. DMTypeOK'
      BY <1>3, DmcontrolType DEF WriteDmcontrol, TypeOK
  <2>2. pc' \in [Harts -> PC] /\ reg' \in [Harts -> Word]
      BY <1>3, ZeroFacts DEF WriteDmcontrol, TypeOK, PC
  <2>. QED BY <2>1, <2>2 DEF TypeOK
<1>4. CASE UNCHANGED vars
    BY <1>4 DEF vars, dmvars, ctrlvars, cmdvars, TypeOK, DMTypeOK
<1>5. CASE BusStore
    BY <1>5, BusStoreType
<1>. QED BY <1>1, <1>2, <1>3, <1>4, <1>5 DEF Step

(* The state keeps its type whatever the debugger writes, and whenever. *)
THEOREM TypeCorrect == Spec => []TypeOK
<1>1. Init => TypeOK
    BY InitType
<1>2. TypeOK /\ [Next]_vars => TypeOK'
    BY NextIsStep, StepType
<1>. QED BY <1>1, <1>2, PTL DEF Spec

-----------------------------------------------------------------------------
(* The invariants.  Each is inductive together with TypeOK.                *)

(* A register access leaves hart control alone: it changes neither what    *)
(* the debugger is told of the harts nor a pending resume request.         *)
LEMMA RegisterKeepsHartControl ==
    ASSUME DMTypeOK, DmiRegister
    PROVE  /\ UNCHANGED <<halted, resumeack, havereset, halt_request>>
           /\ \A s \in HartSels :
                RESUME \in debug_rom_flags'[s] => RESUME \in debug_rom_flags[s]
<1>. DEFINE Keeps ==
        \A s \in HartSels :
            RESUME \in debug_rom_flags'[s] => RESUME \in debug_rom_flags[s]
<1>. SUFFICES UNCHANGED <<halted, resumeack, havereset, halt_request>> /\ Keeps
    OBVIOUS
<1>1. UNCHANGED debug_rom_flags => Keeps
    OBVIOUS
<1>2. ASSUME NEW c, NEW d, PerformAbstractCommand(c, d) PROVE Keeps
  <2>1. CASE CommandStarted(c, d)
      BY <2>1 DEF CommandStarted, GO, RESUME, DMTypeOK
  <2>2. CASE UNCHANGED debug_rom_flags
      BY <1>1, <2>2
  <2>. QED BY <1>2, <2>1, <2>2
       DEF PerformAbstractCommand, CommandIgnored, CommandRefused, CommandCustom
<1>3. ASSUME NEW bit, NEW d, Autoexec(bit, d) PROVE Keeps
    BY <1>1, <1>2, <1>3 DEF Autoexec
<1>4. BusyError => Keeps
    BY <1>1 DEF BusyError
<1>. HIDE DEF Keeps
<1>5. CASE DmiReadData
    BY <1>3, <1>4, <1>5 DEF DmiReadData, ctrlvars
<1>6. ASSUME NEW d \in Word, DmiWriteData(d)
      PROVE  UNCHANGED <<halted, resumeack, havereset, halt_request>> /\ Keeps
    BY <1>3, <1>4, <1>6 DEF DmiWriteData, ctrlvars
<1>7. CASE DmiReadProgbuf
    BY <1>3, <1>7 DEF DmiReadProgbuf, ctrlvars
<1>8. ASSUME NEW p \in Programs, DmiWriteProgbuf(p)
      PROVE  UNCHANGED <<halted, resumeack, havereset, halt_request>> /\ Keeps
    BY <1>3, <1>8 DEF DmiWriteProgbuf, ctrlvars
<1>9. ASSUME NEW c \in Commands, DmiWriteCommand(c)
      PROVE  UNCHANGED <<halted, resumeack, havereset, halt_request>> /\ Keeps
    BY <1>2, <1>9 DEF DmiWriteCommand, ctrlvars
<1>10. ASSUME \/ \E bits \in SUBSET CmderrBits : DmiWriteAbstractcs(bits)
              \/ \E a \in AutoexecWrites : DmiWriteAbstractauto(a)
              \/ \E right \in BOOLEAN : DmiWriteAuthdata(right)
              \/ DmiReadDmcontrol
       PROVE  UNCHANGED <<halted, resumeack, havereset, halt_request>> /\ Keeps
    BY <1>1, <1>10 DEF DmiWriteAbstractcs, DmiWriteAbstractauto,
       DmiWriteAuthdata, DmiReadDmcontrol, ctrlvars
<1>. QED BY <1>5, <1>6, <1>7, <1>8, <1>9, <1>10 DEF DmiRegister

(* What a turn of a hart changes of hart control, by the ROM's store.      *)
LEMMA HartTurnStores ==
    ASSUME NEW h \in Harts, HartTurn(h)
    PROVE  \/ pc[h] = "entry" /\ StoreHalted(h)
           \/ pc[h] = "going" /\ StoreGoing(h)
           \/ pc[h] = "resuming" /\ pc' = [pc EXCEPT ![h] = "dret"] /\ StoreResuming(h)
           \/ pc[h] = "exception" /\ StoreException(h)
           \/ pc[h] = "exec" /\ \E d : StoreData(d)
           \/ UNCHANGED dmvars
BY DEF HartTurn, EnterOnRequest, RunProgram, RomHalted, RomCheckGo,
       RomCheckResume, RomGoing, RomResuming, RomDret, RomException, ExecFault,
       ExecProgram, ContinueProgbuf, Goto

(* Where a turn of a hart leaves it: it leaves debug mode only by dret.    *)
LEMMA HartTurnMoves ==
    ASSUME TypeOK, NEW h \in Harts, HartTurn(h)
    PROVE  /\ \E label \in PC :
                /\ pc' = [pc EXCEPT ![h] = label]
                /\ pc[h] \in DebugPC \ {"dret", "resuming"}
                        => label \in DebugPC \ {"dret"}
           /\ pc[h] = "resuming" => StoreResuming(h)
<1>. USE DEF Goto, PC, DebugPC, ParkPC, CommandPC
<1>1. ASSUME NEW r, RunProgbuf(h, r)
      PROVE  \E label \in {"entry", "exception", "progbuf"} :
                pc' = [pc EXCEPT ![h] = label]
    BY <1>1 DEF RunProgbuf
<1>2. CASE ExecProgram(h)
    BY <1>1, <1>2 DEF ExecProgram
<1>3. CASE ContinueProgbuf(h)
    BY <1>1, <1>3 DEF ContinueProgbuf
<1>4. CASE EnterOnRequest(h) \/ RunProgram(h) \/ RomDret(h)
    BY <1>4 DEF EnterOnRequest, RunProgram, RomDret
<1>5. CASE RomCheckGo(h) \/ RomCheckResume(h)
    BY <1>5 DEF RomCheckGo, RomCheckResume
<1>6. CASE RomHalted(h) \/ RomGoing(h) \/ RomException(h) \/ ExecFault(h)
    BY <1>6 DEF RomHalted, RomGoing, RomException, ExecFault
<1>7. CASE RomResuming(h)
    BY <1>7 DEF RomResuming
<1>. QED BY <1>2, <1>3, <1>4, <1>5, <1>6, <1>7 DEF HartTurn

(* Two harts never share a hartsel. *)
LEMMA HartIdInjective ==
    \A h, i \in Harts : HartId[h] = HartId[i] => h = i
BY HartIdAssumption

(* A step leaves no running hart marked as halted. *)
LEMMA HaltedStep ==
    ASSUME TypeOK, HaltedMeansInDebugMode, Step
    PROVE  HaltedMeansInDebugMode'
<1>. USE HartIdType
<1>1. ASSUME NEW h \in Harts, HartTurn(h) PROVE HaltedMeansInDebugMode'
  <2>. SUFFICES ASSUME NEW i \in Harts, halted'[HartId[i]]
                PROVE  pc'[i] \in DebugPC \ {"dret"}
      BY DEF HaltedMeansInDebugMode
  <2>. PICK label \in PC :
          /\ pc' = [pc EXCEPT ![h] = label]
          /\ pc[h] \in DebugPC \ {"dret", "resuming"} => label \in DebugPC \ {"dret"}
      BY <1>1, HartTurnMoves
  <2>1. halted[HartId[i]] \/ (i = h /\ pc[h] = "entry")
      BY <1>1, HartTurnStores, HartIdInjective
      DEF StoreHalted, StoreGoing, StoreResuming, StoreException, StoreData,
          ctrlvars, dmvars, TypeOK, DMTypeOK
  <2>2. CASE i # h
      BY <2>1, <2>2 DEF HaltedMeansInDebugMode, TypeOK
  <2>3. CASE i = h
    <3>1. pc[h] # "resuming"
        BY <1>1, <2>3, HartTurnMoves DEF StoreResuming, TypeOK, DMTypeOK
    <3>2. pc[h] \in DebugPC \ {"dret"}
        BY <2>1, <2>3 DEF HaltedMeansInDebugMode, DebugPC, ParkPC
    <3>. QED BY <2>3, <3>1, <3>2 DEF TypeOK
  <2>. QED BY <2>2, <2>3
<1>2. CASE RegisterAccess
    BY <1>2, RegisterKeepsHartControl
    DEF RegisterAccess, HaltedMeansInDebugMode, TypeOK
<1>3. ASSUME NEW v \in AnyWrite, WriteDmcontrol(v) PROVE HaltedMeansInDebugMode'
  <2>. WriteDmcontrol(v)
      BY <1>3
  <2>1. CASE AuthenticatedBy(v)
      BY <2>1 DEF WriteDmcontrol, DmiWriteDmcontrol, HartControl, Resets,
         HaltedMeansInDebugMode, TypeOK
  <2>2. CASE ~AuthenticatedBy(v)
      BY <2>2 DEF WriteDmcontrol, DmiWriteDmcontrol, HartsResetBy,
         HaltedMeansInDebugMode, TypeOK
  <2>. QED BY <2>1, <2>2
<1>4. CASE UNCHANGED vars
    BY <1>4 DEF vars, dmvars, ctrlvars, HaltedMeansInDebugMode
<1>5. CASE BusStore
    BY <1>5, BusStoreKeeps DEF ctrlvars, HaltedMeansInDebugMode
<1>. QED BY <1>1, <1>2, <1>3, <1>4, <1>5 DEF Step

(* No hart that runs is reported as halted. *)
THEOREM HaltedIsInDebugMode == Spec => []HaltedMeansInDebugMode
<1>1. Init => HaltedMeansInDebugMode
    BY HartIdType DEF Init, DMInit, HaltedMeansInDebugMode
<1>2. TypeOK /\ HaltedMeansInDebugMode /\ [Next]_vars => HaltedMeansInDebugMode'
    BY NextIsStep, HaltedStep
<1>. QED BY <1>1, <1>2, TypeCorrect, PTL DEF Spec

(* A step clears the flag or the acknowledgement. *)
LEMMA AckStep ==
    ASSUME TypeOK, AckExcludesPendingResume, Step
    PROVE  AckExcludesPendingResume'
<1>. SUFFICES ASSUME NEW s \in HartSels, resumeack'[s]
              PROVE  RESUME \notin debug_rom_flags'[s]
    BY DEF AckExcludesPendingResume
<1>. USE DEF AckExcludesPendingResume, TypeOK
<1>1. ASSUME NEW h \in Harts, HartTurn(h) PROVE RESUME \notin debug_rom_flags'[s]
  <2>. HartId[h] \in HartSels
      BY HartIdType
  <2>1. CASE StoreGoing(h)
      BY <2>1 DEF StoreGoing, ctrlvars, DMTypeOK
  <2>2. CASE StoreResuming(h)
      BY <2>2 DEF StoreResuming, DMTypeOK
  <2>3. CASE UNCHANGED <<resumeack, debug_rom_flags>>
      BY <2>3
  <2>. QED BY <1>1, <2>1, <2>2, <2>3, HartTurnStores
       DEF StoreHalted, StoreException, StoreData, ctrlvars, dmvars
<1>2. CASE RegisterAccess
    BY <1>2, RegisterKeepsHartControl DEF RegisterAccess
<1>3. ASSUME NEW v \in AnyWrite, WriteDmcontrol(v) PROVE RESUME \notin debug_rom_flags'[s]
  <2>. WriteDmcontrol(v)
      BY <1>3
  <2>1. CASE AuthenticatedBy(v)
      BY <2>1 DEF WriteDmcontrol, DmiWriteDmcontrol, HartControl
  <2>2. CASE ~AuthenticatedBy(v)
      BY <2>2 DEF WriteDmcontrol, DmiWriteDmcontrol
  <2>. QED BY <2>1, <2>2
<1>4. CASE UNCHANGED vars
    BY <1>4 DEF vars, dmvars, ctrlvars
<1>5. CASE BusStore
    BY <1>5, BusStoreKeeps DEF ctrlvars
<1>. QED BY <1>1, <1>2, <1>3, <1>4, <1>5 DEF Step

(* An acknowledged resume is not pending any more. *)
THEOREM AcknowledgedIsNotPending == Spec => []AckExcludesPendingResume
<1>1. Init => AckExcludesPendingResume
    BY DEF Init, DMInit, AckExcludesPendingResume
<1>2. TypeOK /\ AckExcludesPendingResume /\ [Next]_vars => AckExcludesPendingResume'
    BY NextIsStep, AckStep
<1>. QED BY <1>1, <1>2, TypeCorrect, PTL DEF Spec

(* A step changes the field and the halt request together. *)
LEMMA HaltreqStep ==
    ASSUME TypeOK, HaltreqMirrorsHart, Step
    PROVE  HaltreqMirrorsHart'
<1>. SUFFICES ASSUME hartsel' \in Harts
              PROVE  halt_request'[hartsel'] = dmcontrol'.haltreq
    BY DEF HaltreqMirrorsHart
<1>. DEFINE Goal == halt_request'[hartsel'] = dmcontrol'.haltreq
<1>1. CASE UNCHANGED <<dmcontrol, halt_request>>
    BY <1>1 DEF HaltreqMirrorsHart, hartsel
<1>2. ASSUME NEW h \in Harts, HartTurn(h) PROVE Goal
    BY <1>1, <1>2, HartTurnStores
    DEF StoreHalted, StoreGoing, StoreResuming, StoreException, StoreData,
        ctrlvars, dmvars
<1>3. CASE DmiReadDmcontrol
    BY <1>3 DEF DmiReadDmcontrol, hartsel, TypeOK, DMTypeOK, DmcontrolSet
<1>4. CASE DmiRegister /\ ~DmiReadDmcontrol
    BY <1>1, <1>4
    DEF DmiRegister, DmiReadData, DmiWriteData, DmiReadProgbuf,
        DmiWriteProgbuf, DmiWriteCommand, DmiWriteAbstractcs,
        DmiWriteAbstractauto, DmiWriteAuthdata, ctrlvars
<1>5. ASSUME NEW v \in AnyWrite, WriteDmcontrol(v) PROVE Goal
  <2>. WriteDmcontrol(v)
      BY <1>5
  <2>1. CASE AuthenticatedBy(v)
      BY <2>1 DEF WriteDmcontrol, DmiWriteDmcontrol, HartControl,
         HaltRequestsAfter, hartsel
  <2>2. CASE ~AuthenticatedBy(v) /\ Activates(v)
      BY <2>2 DEF WriteDmcontrol, DmiWriteDmcontrol, HaltRequestsLeftBy,
         DmcontrolReset, hartsel
  <2>3. CASE ~AuthenticatedBy(v) /\ ~Activates(v)
      BY <2>3 DEF WriteDmcontrol, DmiWriteDmcontrol, HaltRequestsLeftBy,
         HaltreqMirrorsHart, hartsel, TypeOK, DMTypeOK, DmcontrolSet
  <2>. QED BY <2>1, <2>2, <2>3
<1>6. CASE UNCHANGED vars
    BY <1>1, <1>6 DEF vars, dmvars, ctrlvars
<1>7. CASE BusStore
    BY <1>1, <1>7, BusStoreKeeps DEF ctrlvars
<1>. QED BY <1>2, <1>3, <1>4, <1>5, <1>6, <1>7 DEF Step, RegisterAccess

(* dmcontrol shows the halt request the selected processor obeys. *)
THEOREM HaltreqIsObeyed == Spec => []HaltreqMirrorsHart
<1>1. Init => HaltreqMirrorsHart
    BY DEF Init, DMInit, HaltreqMirrorsHart, hartsel, DmcontrolReset
<1>2. TypeOK /\ HaltreqMirrorsHart /\ [Next]_vars => HaltreqMirrorsHart'
    BY NextIsStep, HaltreqStep
<1>. QED BY <1>1, <1>2, TypeCorrect, PTL DEF Spec

-----------------------------------------------------------------------------
(* The action properties.                                                  *)

(* A command that meets busy changes nothing but cmderr and the data, and  *)
(* one that meets an error keeps it.                                       *)
LEMMA PerformRespects ==
    ASSUME TypeOK, NEW c, NEW d, PerformAbstractCommand(c, d)
    PROVE  /\ busy => UNCHANGED debug_abstract
           /\ cmderr # CMDERR_NONE => UNCHANGED cmderr
<1>1. CASE CommandIgnored(c, d)
    BY <1>1 DEF CommandIgnored
<1>2. CASE CommandRefused(c, d)
    BY <1>2 DEF CommandRefused, Reaches
<1>3. CASE CommandCustom(c, d)
    BY <1>3 DEF CommandCustom
<1>4. CASE CommandStarted(c, d)
  <2>1. busy => Refusal(c) = CMDERR_BUSY
      BY DEF Refusal, TypeOK, DMTypeOK
  <2>2. CMDERR_BUSY # CMDERR_NONE
      BY DEF CMDERR_BUSY, CMDERR_NONE
  <2>. QED BY <1>4, <2>1, <2>2 DEF CommandStarted
<1>. QED BY <1>1, <1>2, <1>3, <1>4 DEF PerformAbstractCommand

(* An access that meets busy keeps the program and the first error. *)
LEMMA AccessRespects ==
    ASSUME TypeOK, NEW bit, NEW d, BusyError \/ Autoexec(bit, d)
    PROVE  /\ busy => UNCHANGED debug_abstract
           /\ cmderr # CMDERR_NONE => UNCHANGED cmderr
BY PerformRespects DEF BusyError, Autoexec

(* The program buffer is not written through a register while busy.        *)
LEMMA RegisterKeepsProgbuf ==
    ASSUME TypeOK, RegisterAccess, busy
    PROVE  UNCHANGED program_buffer
BY DEF RegisterAccess, DmiRegister, DmiReadData, DmiWriteData, DmiReadProgbuf,
   DmiWriteProgbuf, DmiWriteCommand, DmiWriteAbstractcs, DmiWriteAbstractauto,
   DmiWriteAuthdata, DmiReadDmcontrol

(* Every step: the program of a command that executes is safe from it, but *)
(* for the program buffer from the bus, and so is the first error.         *)
LEMMA StepRespects ==
    ASSUME TypeOK, Step
    PROVE  /\ busy => /\ UNCHANGED debug_abstract
                      /\ UNCHANGED program_buffer \/ (BusStore /\ ~RegisterAccess)
           /\ cmderr # CMDERR_NONE => cmderr' \subseteq cmderr
<1>. DEFINE Goal == /\ busy => /\ UNCHANGED debug_abstract
                               /\ UNCHANGED program_buffer \/ (BusStore /\ ~RegisterAccess)
                    /\ cmderr # CMDERR_NONE => cmderr' \subseteq cmderr
<1>. SUFFICES Goal
    OBVIOUS
<1>1. ASSUME NEW h \in Harts, HartTurn(h) PROVE Goal
    BY <1>1, HartTurnStores
    DEF StoreHalted, StoreGoing, StoreResuming, StoreException, StoreData,
        ctrlvars, cmdvars, dmvars
<1>2. CASE DmiReadData
    BY <1>2, AccessRespects DEF DmiReadData
<1>3. ASSUME NEW d \in Word, DmiWriteData(d) PROVE Goal
    BY <1>3, AccessRespects DEF DmiWriteData
<1>4. CASE DmiReadProgbuf
    BY <1>4, AccessRespects DEF DmiReadProgbuf
<1>5. ASSUME NEW p \in Programs, DmiWriteProgbuf(p) PROVE Goal
    BY <1>5, AccessRespects DEF DmiWriteProgbuf
<1>6. ASSUME NEW c \in Commands, DmiWriteCommand(c) PROVE Goal
    BY <1>6, PerformRespects DEF DmiWriteCommand
<1>7. ASSUME \/ \E bits \in SUBSET CmderrBits : DmiWriteAbstractcs(bits)
             \/ \E a \in AutoexecWrites : DmiWriteAbstractauto(a)
             \/ \E right \in BOOLEAN : DmiWriteAuthdata(right)
             \/ DmiReadDmcontrol
      PROVE  Goal
    BY <1>7 DEF DmiWriteAbstractcs, DmiWriteAbstractauto, DmiWriteAuthdata,
       DmiReadDmcontrol, cmdvars
<1>8. ASSUME NEW v \in AnyWrite, WriteDmcontrol(v) PROVE Goal
    BY <1>8 DEF WriteDmcontrol, DmiWriteDmcontrol, ResetModule, CMDERR_NONE
<1>9. CASE UNCHANGED vars
    BY <1>9 DEF vars, dmvars, cmdvars
<1>10. CASE BusStore
    BY <1>10, BusStoreKeeps, RegisterKeepsProgbuf
<1>. HIDE DEF Goal
<1>. QED BY <1>1, <1>2, <1>3, <1>4, <1>5, <1>6, <1>7, <1>8, <1>9, <1>10
         DEF Step, RegisterAccess, DmiRegister

(* No access of the debugger through its registers replaces the program of *)
(* a command while it executes; the program buffer is open to the bus.     *)
THEOREM ProgramIsShielded == Spec => BusyShieldsProgram
<1>1. TypeOK /\ [Next]_vars =>
        [busy => /\ UNCHANGED debug_abstract
                 /\ UNCHANGED program_buffer \/ (BusStore /\ ~RegisterAccess)]_vars
    BY NextIsStep, StepRespects
<1>. QED BY <1>1, TypeCorrect, PTL DEF Spec, BusyShieldsProgram

(* The first error is kept until the debugger clears it. *)
THEOREM FirstErrorStays == Spec => FirstErrorKept
<1>1. TypeOK /\ [Next]_vars => [cmderr # CMDERR_NONE => cmderr' \subseteq cmderr]_vars
    BY NextIsStep, StepRespects
<1>. QED BY <1>1, TypeCorrect, PTL DEF Spec, FirstErrorKept

(* Every step that ends a halt acknowledges a resume or resets the hart.   *)
LEMMA StepShowsLeaving ==
    ASSUME TypeOK, Step, NEW h \in Harts,
           halted[HartId[h]], ~halted'[HartId[h]]
    PROVE  resumeack'[HartId[h]] \/ havereset'[HartId[h]]
<1>. DEFINE Shown == resumeack'[HartId[h]] \/ havereset'[HartId[h]]
<1>. HartId[h] \in HartSels
    BY HartIdType
<1>1. ASSUME NEW i \in Harts, HartTurn(i) PROVE Shown
    BY <1>1, HartTurnStores
    DEF StoreHalted, StoreGoing, StoreResuming, StoreException, StoreData,
        ctrlvars, dmvars, TypeOK, DMTypeOK
<1>2. CASE RegisterAccess
    BY <1>2, RegisterKeepsHartControl DEF RegisterAccess, TypeOK
<1>3. ASSUME NEW v \in AnyWrite, WriteDmcontrol(v) PROVE Shown
    BY <1>3 DEF WriteDmcontrol, DmiWriteDmcontrol, HartControl, HaveresetAfter
<1>4. CASE UNCHANGED vars
    BY <1>4 DEF vars, dmvars, ctrlvars
<1>5. CASE BusStore
    BY <1>5, BusStoreKeeps DEF ctrlvars
<1>. QED BY <1>1, <1>2, <1>3, <1>4, <1>5 DEF Step

(* The debugger can tell why a hart is not halted any more. *)
THEOREM LeavingHaltIsSeen == Spec => LeavingHaltIsVisible
<1>. DEFINE Visible ==
        \A h \in Harts : halted[HartId[h]] /\ ~halted'[HartId[h]]
            => resumeack'[HartId[h]] \/ havereset'[HartId[h]]
<1>1. TypeOK /\ [Next]_vars => [Visible]_vars
    BY NextIsStep, StepShowsLeaving
<1>. QED BY <1>1, TypeCorrect, PTL DEF Spec, LeavingHaltIsVisible

-----------------------------------------------------------------------------
(* The inductive invariant.                                                *)

(* The program a command is assembled to. *)
ProgramOf(cmd) == Append(TransferWords(cmd), Closing(cmd))

(* The debugger waits for what it started, and never set autoexec.         *)
Waiting ==
    /\ dbg \in {"idle", "halting", "resuming", "command"}
    /\ hartsel \in Harts
    /\ autoexec = AutoexecReset
    /\ busy => dbg = "command"
    /\ dbg # "idle" => dmcontrol.dmactive
    /\ ~dmcontrol.dmactive => cmderr = CMDERR_NONE

(* The flag of a command is up only at the selected hart, while busy.      *)
GoIsPending ==
    \A s \in HartSels : GO \in debug_rom_flags[s] => busy /\ s = hartsel

(* Where the hart of a command can be, and what it can rely on there.      *)
CommandRuns ==
    \A h \in Harts :
        /\ pc[h] = "going" => GO \in Flags(h)
        /\ pc[h] \in {"exec", "progbuf", "exception"} =>
              busy /\ HartId[h] = hartsel /\ GO \notin Flags(h)
        /\ pc[h] = "progbuf" => program_buffer = "loop"
        /\ InCommand(h) => cmderr = CMDERR_NONE
        /\ busy /\ HartId[h] = hartsel => pc[h] \in DebugPC \ {"dret", "resuming"}

(* A resume request waits at a hart that has yet to acknowledge it.        *)
ResumeIsAwaited ==
    \A h \in Harts :
        /\ RESUME \in Flags(h) =>
              pc[h] \in DebugPC \ {"dret"} /\ dbg = "resuming" /\ HartId[h] = hartsel
        /\ pc[h] = "resuming" => RESUME \in Flags(h)

(* While busy, memory holds the program of the command that was accepted.  *)
Assembled ==
    busy =>
        /\ command.register
        /\ command.transfer => Supported(command) /\ command.regno # "custom"
        /\ \A i \in 1 .. Len(ProgramOf(command)) :
              debug_abstract[i] = ProgramOf(command)[i]

(* What a session maintains beyond what holds of any debugger, and the     *)
(* inductive invariant.                                                    *)
SCore ==
    /\ Waiting
    /\ GoIsPending
    /\ CommandRuns
    /\ ResumeIsAwaited
    /\ Assembled

SInv ==
    /\ TypeOK
    /\ HaltedMeansInDebugMode
    /\ AckExcludesPendingResume
    /\ SCore

(* What the debugger has and the harts leave alone, and what the invariant *)
(* reads of the module.                                                    *)
Quiet == UNCHANGED <<dmcontrol, busy, cmderr, autoexec, command, dbg,
                     debug_rom_flags, debug_abstract, program_buffer>>

-----------------------------------------------------------------------------
(* Turns of the harts.                                                     *)

(* A move of a hart that respects the flags it has read keeps the          *)
(* invariant, as long as it stores nothing but data0.                      *)
LEMMA QuietMove ==
    ASSUME SInv, Quiet, NEW h \in Harts, NEW label \in PC,
           pc' = [pc EXCEPT ![h] = label],
           label = "going" => GO \in Flags(h),
           label \in {"exec", "progbuf", "exception"} =>
              pc[h] \in {"exec", "progbuf", "exception"},
           label = "progbuf" => program_buffer = "loop",
           label = "resuming" => RESUME \in Flags(h),
           label \in {"run", "dret"} => pc[h] \in {"run", "dret"}
    PROVE  SCore'
<1>. USE DEF Quiet
<1>. HartId[h] \in HartSels /\ TypeOK /\ pc \in [Harts -> PC]
    BY HartIdType DEF SInv, TypeOK
<1>1. Waiting'
    BY DEF SInv, SCore, Waiting, hartsel
<1>2. GoIsPending'
    BY DEF SInv, SCore, GoIsPending, hartsel
<1>3. CommandRuns'
  <2>. SUFFICES ASSUME NEW i \in Harts
                PROVE  /\ pc'[i] = "going" => GO \in Flags(i)'
                       /\ pc'[i] \in {"exec", "progbuf", "exception"} =>
                             busy' /\ HartId[i] = hartsel' /\ GO \notin Flags(i)'
                       /\ pc'[i] = "progbuf" => program_buffer' = "loop"
                       /\ InCommand(i)' => cmderr' = CMDERR_NONE
                       /\ busy' /\ HartId[i] = hartsel' =>
                             pc'[i] \in DebugPC \ {"dret", "resuming"}
      BY DEF CommandRuns
  <2>. Flags(i)' = Flags(i) /\ hartsel' = hartsel
      BY DEF Flags, hartsel
  <2>1. CASE i # h
      BY <2>1 DEF SInv, SCore, CommandRuns, InCommand
  <2>2. CASE i = h
      BY <2>2 DEF SInv, SCore, CommandRuns, InCommand, CommandPC, DebugPC,
         ParkPC, PC, ResumeIsAwaited, Waiting
  <2>. QED BY <2>1, <2>2
<1>4. ResumeIsAwaited'
    BY DEF SInv, SCore, ResumeIsAwaited, Flags, hartsel, PC, DebugPC, ParkPC,
       CommandPC
<1>5. Assembled'
    BY DEF SInv, SCore, Assembled, ProgramOf, TransferWords, Closing, Supported
<1>. QED BY <1>1, <1>2, <1>3, <1>4, <1>5 DEF SCore

(* A hart stores to HALTED: the command it returns from is reported.       *)
LEMMA HaltedTurn ==
    ASSUME SInv, NEW h \in Harts, RomHalted(h), UNCHANGED dbg
    PROVE  SCore'
<1>. USE DEF RomHalted, StoreHalted, Goto
<1>. HartId[h] \in HartSels /\ pc \in [Harts -> PC] /\ busy \in BOOLEAN
    BY HartIdType DEF SInv, TypeOK, DMTypeOK
<1>1. Waiting'
    BY DEF SInv, SCore, Waiting, hartsel
<1>2. GoIsPending'
    BY DEF SInv, SCore, GoIsPending, hartsel
<1>3. CommandRuns'
    BY HartIdInjective
    DEF SInv, SCore, CommandRuns, GoIsPending, InCommand, Flags, hartsel,
        CommandPC, DebugPC, ParkPC
<1>4. ResumeIsAwaited'
    BY DEF SInv, SCore, ResumeIsAwaited, Flags, hartsel, DebugPC, ParkPC
<1>5. Assembled'
    BY DEF SInv, SCore, Assembled, ProgramOf, TransferWords, Closing, Supported
<1>. QED BY <1>1, <1>2, <1>3, <1>4, <1>5 DEF SCore

(* A hart stores to GOING: the command is taken, its flag comes down.      *)
LEMMA GoingTurn ==
    ASSUME SInv, NEW h \in Harts, RomGoing(h), UNCHANGED dbg
    PROVE  /\ HartId[h] = hartsel /\ busy /\ cmderr = CMDERR_NONE
           /\ SCore'
<1>. USE DEF RomGoing, StoreGoing, Goto, ctrlvars, cmdvars
<1>. /\ HartId \in [Harts -> HartSels] /\ pc \in [Harts -> PC]
     /\ debug_rom_flags \in [HartSels -> SUBSET {GO, RESUME}]
    BY HartIdAssumption DEF SInv, TypeOK, DMTypeOK
<1>0. HartId[h] = hartsel /\ busy /\ cmderr = CMDERR_NONE
    BY DEF SInv, SCore, CommandRuns, GoIsPending, InCommand, Flags
<1>1. Waiting'
    BY DEF SInv, SCore, Waiting, hartsel
<1>2. GoIsPending'
    BY DEF SInv, SCore, GoIsPending, hartsel
<1>. GO # RESUME
    BY DEF GO, RESUME
<1>3. CommandRuns'
    BY <1>0, HartIdInjective
    DEF SInv, SCore, CommandRuns, GoIsPending, InCommand, Flags, hartsel,
        CommandPC, DebugPC
<1>4. ResumeIsAwaited'
    BY DEF SInv, SCore, ResumeIsAwaited, Flags, hartsel, DebugPC, CommandPC
<1>5. Assembled'
    BY DEF SInv, SCore, Assembled, ProgramOf, TransferWords, Closing, Supported
<1>. QED BY <1>0, <1>1, <1>2, <1>3, <1>4, <1>5 DEF SCore

(* A hart stores to RESUMING: the debugger waits for it, and it alone.     *)
LEMMA ResumingTurn ==
    ASSUME SInv, NEW h \in Harts, RomResuming(h), UNCHANGED dbg
    PROVE  /\ HartId[h] = hartsel /\ ~busy
           /\ SCore'
<1>. USE DEF RomResuming, StoreResuming, Goto, cmdvars
<1>. /\ HartId \in [Harts -> HartSels] /\ pc \in [Harts -> PC]
     /\ debug_rom_flags \in [HartSels -> SUBSET {GO, RESUME}]
    BY HartIdAssumption DEF SInv, TypeOK, DMTypeOK
<1>0. HartId[h] = hartsel /\ ~busy
    BY DEF SInv, SCore, ResumeIsAwaited, Waiting, Flags
<1>1. Waiting'
    BY DEF SInv, SCore, Waiting, hartsel
<1>2. GoIsPending'
    BY DEF SInv, SCore, GoIsPending, hartsel
<1>. GO # RESUME
    BY DEF GO, RESUME
<1>3. CommandRuns'
    BY <1>0, HartIdInjective
    DEF SInv, SCore, CommandRuns, GoIsPending, InCommand, Flags, hartsel,
        CommandPC, DebugPC
<1>4. ResumeIsAwaited'
    BY HartIdInjective DEF SInv, SCore, ResumeIsAwaited, Flags, hartsel
<1>5. Assembled'
    BY DEF SInv, SCore, Assembled, ProgramOf, TransferWords, Closing, Supported
<1>. QED BY <1>0, <1>1, <1>2, <1>3, <1>4, <1>5 DEF SCore

(* A hart stores to EXCEPTION: nobody has set an error before it.          *)
LEMMA ExceptionTurn ==
    ASSUME SInv, NEW h \in Harts, RomException(h), UNCHANGED dbg
    PROVE  /\ HartId[h] = hartsel /\ busy /\ cmderr = CMDERR_NONE
           /\ SCore'
<1>. USE DEF RomException, StoreException, Goto, ctrlvars
<1>. HartId[h] \in HartSels /\ pc \in [Harts -> PC]
    BY HartIdType DEF SInv, TypeOK
<1>0. /\ HartId[h] = hartsel /\ busy /\ cmderr = CMDERR_NONE
      /\ GO \notin Flags(h) /\ dmcontrol.dmactive
    BY DEF SInv, SCore, CommandRuns, InCommand, CommandPC, Waiting
<1>1. Waiting'
    BY <1>0 DEF SInv, SCore, Waiting, hartsel
<1>2. GoIsPending'
    BY DEF SInv, SCore, GoIsPending, hartsel
<1>3. CommandRuns'
    BY <1>0, HartIdInjective, HartIdType
    DEF SInv, SCore, CommandRuns, GoIsPending, InCommand, Flags, hartsel,
        CommandPC, DebugPC, ParkPC
<1>4. ResumeIsAwaited'
    BY DEF SInv, SCore, ResumeIsAwaited, Flags, hartsel, DebugPC, ParkPC
<1>5. Assembled'
    BY DEF SInv, SCore, Assembled, ProgramOf, TransferWords, Closing, Supported
<1>. QED BY <1>0, <1>1, <1>2, <1>3, <1>4, <1>5 DEF SCore

(* The other turns store nothing but data0.                                *)
LEMMA QuietTurn ==
    ASSUME SInv, NEW h \in Harts, HartTurn(h), UNCHANGED dbg,
           ~RomHalted(h), ~RomGoing(h), ~RomResuming(h), ~RomException(h)
    PROVE  SCore'
<1>. DEFINE Moves(label) ==
        /\ pc' = [pc EXCEPT ![h] = label]
        /\ label = "going" => GO \in Flags(h)
        /\ label \in {"exec", "progbuf", "exception"} =>
              pc[h] \in {"exec", "progbuf", "exception"}
        /\ label = "progbuf" => program_buffer = "loop"
        /\ label = "resuming" => RESUME \in Flags(h)
        /\ label \in {"run", "dret"} => pc[h] \in {"run", "dret"}
<1>. SUFFICES Quiet /\ \E label \in PC : Moves(label)
    BY QuietMove
<1>. program_buffer \in ProgramSet
    BY DEF SInv, TypeOK, DMTypeOK
<1>. USE DEF Goto, PC, DebugPC, ParkPC, CommandPC
<1>1. UNCHANGED <<dmvars, dbg>> => Quiet
    BY DEF Quiet, dmvars, ctrlvars, cmdvars
<1>2. CASE EnterOnRequest(h) \/ RunProgram(h) \/ RomDret(h)
    BY <1>1, <1>2 DEF EnterOnRequest, RunProgram, RomDret
<1>3. CASE RomCheckGo(h) \/ RomCheckResume(h)
    BY <1>1, <1>3 DEF RomCheckGo, RomCheckResume
<1>4. CASE ExecFault(h)
    BY <1>1, <1>4 DEF ExecFault
<1>5. ASSUME NEW r, RunProgbuf(h, r), pc[h] \in {"exec", "progbuf"}
      PROVE  \E label \in {"entry", "exception", "progbuf"} : Moves(label)
    BY <1>5 DEF RunProgbuf, ProgramSet
<1>6. CASE ExecProgram(h)
  <2>1. Quiet
      BY <1>1, <1>6 DEF ExecProgram, StoreData, Quiet, ctrlvars
  <2>2. Goto(h, "exception") \/ Goto(h, "entry") => \E label \in PC : Moves(label)
      BY <1>6 DEF ExecProgram
  <2>. QED BY <1>5, <1>6, <2>1, <2>2 DEF ExecProgram
<1>7. CASE ContinueProgbuf(h)
    BY <1>1, <1>5, <1>7 DEF ContinueProgbuf
<1>. QED BY <1>2, <1>3, <1>4, <1>6, <1>7 DEF HartTurn

(* Every turn of a hart keeps the invariant of the session.                *)
LEMMA TurnKeepsCore ==
    ASSUME SInv, NEW h \in Harts, HartTurn(h), UNCHANGED dbg
    PROVE  SCore'
BY QuietTurn, HaltedTurn, GoingTurn, ResumingTurn, ExceptionTurn

-----------------------------------------------------------------------------
(* Accesses of the debugger.                                               *)

(* What a write of dmcontrol does in a session, without authentication or  *)
(* with it: it may request a resume, reset the selected hart, and select.  *)
LEMMA ControlEffect ==
    ASSUME SInv, ~busy,
           NEW haltreq \in BOOLEAN, NEW resumereq \in BOOLEAN,
           NEW hartreset \in BOOLEAN, NEW sel \in Harts,
           NEW v, v = Control(haltreq, resumereq, hartreset, sel),
           WriteDmcontrol(v)
    PROVE  /\ v \in AnyWrite
           /\ UNCHANGED <<busy, cmderr, autoexec, command, debug_abstract,
                          dmdata, program_buffer, custom_base>>
           /\ dmcontrol'.dmactive
           /\ hartsel' \in {hartsel, sel, 0}
           /\ dmcontrol.dmactive => hartsel' \in {hartsel, sel}
           /\ ~resumereq => UNCHANGED debug_rom_flags
           /\ \A s \in HartSels :
                \/ debug_rom_flags'[s] = debug_rom_flags[s]
                \/ /\ s = sel /\ hartsel' = sel
                   /\ debug_rom_flags'[s] = debug_rom_flags[s] \cup {RESUME}
           /\ \/ UNCHANGED <<pc, reg>>
              \/ /\ hartreset /\ hartsel' = sel
                 /\ pc' = [pc EXCEPT ![sel] = "run"]
                 /\ reg' = [reg EXCEPT ![sel] = 0]
<1>. sel \in HartSels
    BY NProcsAssumption
<1>1. /\ v.value.dmactive /\ ~v.value.ndmreset /\ v.value.hartsel = sel
      /\ v.value.resumereq = resumereq /\ v.value.hartreset = hartreset
      /\ Written(v) = v.value
      /\ v \in AnyWrite
    BY DEF Control, Written, AnyWrite, DmcontrolSet
<1>. DmiWriteDmcontrol(v)
    BY DEF WriteDmcontrol
<1>2. UNCHANGED <<busy, cmderr, autoexec, command, debug_abstract, dmdata,
                  program_buffer, custom_base>>
    BY DEF DmiWriteDmcontrol, ResetModule, Activates, SInv, TypeOK, DMTypeOK,
       SCore, Waiting
<1>3. CASE AuthenticatedBy(v)
  <2>. HartControl(v) /\ dmcontrol' = v.value
      BY <1>1, <1>3 DEF DmiWriteDmcontrol, HartControl
  <2>1. hartsel' = sel /\ dmcontrol'.dmactive
      BY <1>1 DEF hartsel
  <2>2. /\ ~resumereq => UNCHANGED debug_rom_flags
        /\ \A s \in HartSels :
              \/ debug_rom_flags'[s] = debug_rom_flags[s]
              \/ /\ s = sel /\ hartsel' = sel
                 /\ debug_rom_flags'[s] = debug_rom_flags[s] \cup {RESUME}
      BY <1>1, <2>1 DEF HartControl, Resumes, SInv, TypeOK, DMTypeOK
  <2>3. HartsResetBy(v) = IF hartreset THEN {sel} ELSE {}
      BY <1>1, <1>3 DEF HartsResetBy
  <2>4. \/ UNCHANGED <<pc, reg>>
        \/ /\ hartreset /\ hartsel' = sel
           /\ pc' = [pc EXCEPT ![sel] = "run"]
           /\ reg' = [reg EXCEPT ![sel] = 0]
      BY <2>1, <2>3 DEF WriteDmcontrol, SInv, TypeOK
  <2>. QED BY <1>1, <1>2, <1>3, <2>1, <2>2, <2>4
<1>4. CASE ~AuthenticatedBy(v)
  <2>1. dmcontrol' = [(IF Activates(v) THEN DmcontrolReset ELSE dmcontrol)
                        EXCEPT !.dmactive = TRUE]
      BY <1>1, <1>4 DEF DmiWriteDmcontrol, Control
  <2>2. dmcontrol'.dmactive /\ hartsel' \in {hartsel, 0}
      BY <2>1 DEF hartsel, DmcontrolReset, SInv, TypeOK, DMTypeOK, DmcontrolSet
  <2>3. UNCHANGED debug_rom_flags
      BY <1>4 DEF DmiWriteDmcontrol
  <2>4. HartsResetBy(v) = {}
      BY <1>4 DEF HartsResetBy
  <2>5. UNCHANGED <<pc, reg>>
      BY <2>4 DEF WriteDmcontrol, SInv, TypeOK
  <2>6. dmcontrol.dmactive => hartsel' = hartsel
      BY <2>1 DEF Activates, hartsel, SInv, TypeOK, DMTypeOK, DmcontrolSet
  <2>. QED BY <1>1, <1>2, <1>4, <2>2, <2>3, <2>5, <2>6
<1>. QED BY <1>3, <1>4

(* While the debugger waits for no command, none is under way.             *)
LEMMA NoCommandUnderWay ==
    ASSUME SInv, dbg # "command"
    PROVE  /\ ~busy
           /\ \A s \in HartSels : GO \notin debug_rom_flags[s]
           /\ \A h \in Harts : ~InCommand(h) /\ pc[h] \notin CommandPC
<1>1. ~busy
    BY DEF SInv, SCore, Waiting
<1>2. \A s \in HartSels : GO \notin debug_rom_flags[s]
    BY <1>1 DEF SInv, SCore, GoIsPending
<1>3. \A h \in Harts : ~InCommand(h)
    BY <1>1, <1>2, HartIdType
    DEF SInv, SCore, CommandRuns, InCommand, Flags, CommandPC
<1>. QED BY <1>1, <1>2, <1>3 DEF InCommand

(* A write of dmcontrol that requests no resume, while none is pending.    *)
LEMMA ControlKeepsCore ==
    ASSUME SInv, dbg # "command", \A h \in Harts : RESUME \notin Flags(h),
           NEW haltreq \in BOOLEAN, NEW hartreset \in BOOLEAN, NEW sel \in Harts,
           WriteDmcontrol(Control(haltreq, FALSE, hartreset, sel)),
           dbg' \in {"idle", "halting"}
    PROVE  SCore'
<1>. DEFINE v == Control(haltreq, FALSE, hartreset, sel)
<1>. ~busy /\ FALSE \in BOOLEAN
    BY NoCommandUnderWay
<1>. HartId \in [Harts -> HartSels] /\ pc \in [Harts -> PC]
    BY HartIdAssumption DEF SInv, TypeOK
<1>1. /\ ~busy' /\ UNCHANGED <<cmderr, autoexec>>
      /\ dmcontrol'.dmactive
      /\ hartsel' \in {hartsel, sel, 0}
      /\ UNCHANGED debug_rom_flags
      /\ UNCHANGED pc \/ pc' = [pc EXCEPT ![sel] = "run"]
    BY ControlEffect
<1>2. Waiting'
    BY <1>1, ZeroFacts DEF SInv, SCore, Waiting
<1>3. GoIsPending'
    BY <1>1, NoCommandUnderWay DEF GoIsPending
<1>4. \A h \in Harts : /\ pc'[h] \notin CommandPC \cup {"resuming"}
                       /\ GO \notin Flags(h)' /\ RESUME \notin Flags(h)'
  <2>1. \A h \in Harts : pc[h] \notin CommandPC \cup {"resuming"}
      BY NoCommandUnderWay DEF SInv, SCore, ResumeIsAwaited
  <2>. QED BY <1>1, <2>1, NoCommandUnderWay DEF Flags, CommandPC
<1>5. CommandRuns' /\ ResumeIsAwaited'
    BY <1>1, <1>4 DEF CommandRuns, ResumeIsAwaited, InCommand, CommandPC
<1>6. Assembled'
    BY <1>1 DEF Assembled
<1>. QED BY <1>2, <1>3, <1>5, <1>6 DEF SCore

(* A resume is requested only of a hart that is halted.                    *)
LEMMA RequestResumeKeepsCore ==
    ASSUME SInv, RequestResume
    PROVE  SCore'
<1>. USE DEF RequestResume, Ready
<1>. PICK v : v = Control(FALSE, TRUE, FALSE, hartsel) /\ WriteDmcontrol(v)
    OBVIOUS
<1>. ~busy /\ hartsel \in Harts /\ FALSE \in BOOLEAN /\ TRUE \in BOOLEAN
    BY NoCommandUnderWay DEF SInv, SCore, Waiting
<1>. HartId \in [Harts -> HartSels] /\ pc \in [Harts -> PC]
    BY HartIdAssumption DEF SInv, TypeOK
<1>1. /\ ~busy' /\ UNCHANGED <<cmderr, autoexec, pc>>
      /\ dmcontrol'.dmactive
      /\ hartsel' = hartsel
      /\ \A s \in HartSels :
            \/ debug_rom_flags'[s] = debug_rom_flags[s]
            \/ s = hartsel /\ debug_rom_flags'[s] = debug_rom_flags[s] \cup {RESUME}
    BY ControlEffect
<1>2. Waiting'
    BY <1>1 DEF Waiting, SInv, SCore
<1>. GO # RESUME
    BY DEF GO, RESUME
<1>3. GoIsPending'
    BY <1>1, NoCommandUnderWay DEF GoIsPending
<1>4. CommandRuns'
    BY <1>1, NoCommandUnderWay DEF CommandRuns, InCommand, Flags, CommandPC
<1>5. \A h \in Harts : HartId[h] = hartsel => pc[h] \in DebugPC \ {"dret"}
    BY DEF AllHalted, SInv, HaltedMeansInDebugMode
<1>6. ResumeIsAwaited'
    BY <1>1, <1>5 DEF SInv, SCore, ResumeIsAwaited, Flags
<1>7. Assembled'
    BY <1>1 DEF Assembled
<1>. QED BY <1>2, <1>3, <1>4, <1>6, <1>7 DEF SCore

(* What is accepted for execution is assembled completely.                 *)
LEMMA AssembledWhole ==
    ASSUME NEW cmd \in CommandSet,
           cmd.transfer => Supported(cmd) /\ cmd.regno # "custom"
    PROVE  /\ ProgramOf(cmd) \in Seq(AbstractWord)
           /\ Len(ProgramOf(cmd)) <= AbstractSize
<1>1. TransferWords(cmd) \in Seq(AbstractWord) /\ Closing(cmd) \in AbstractWord
    BY TransferWordsType DEF Closing, AbstractWord
<1>2. Len(TransferWords(cmd)) <= 4
  <2>1. CASE ~cmd.transfer
      BY <2>1 DEF TransferWords
  <2>2. CASE cmd.transfer /\ cmd.regno = "csr"
      BY <2>2 DEF TransferWords, Supported
  <2>3. CASE cmd.transfer /\ cmd.regno \in {"gpr", "fpr"}
      BY <2>3 DEF TransferWords, Supported
  <2>. QED BY <2>1, <2>2, <2>3 DEF Supported
<1>. QED BY <1>1, <1>2 DEF ProgramOf, AbstractSize

(* A command is issued to a halted hart, and accepted or refused at once.  *)
LEMMA IssueKeepsCore ==
    ASSUME SInv, NEW cmd \in Commands, IssueCommand(cmd)
    PROVE  SCore'
<1>. USE DEF IssueCommand, Ready, DmiWriteCommand
<1>. cmd \in CommandSet
    BY InputsAssumption
<1>. /\ ~busy /\ hartsel \in Harts /\ hartsel \in HartSels
     /\ dmcontrol.dmactive
    BY NoCommandUnderWay, NProcsAssumption DEF SInv, SCore, Waiting
<1>. HartId \in [Harts -> HartSels] /\ pc \in [Harts -> PC]
    BY HartIdAssumption DEF SInv, TypeOK
<1>0. /\ hartsel' = hartsel /\ dmcontrol'.dmactive /\ autoexec' = AutoexecReset
    BY DEF ctrlvars, hartsel, SInv, SCore, Waiting
<1>1. \A h \in Harts : /\ RESUME \notin Flags(h) /\ pc[h] \notin CommandPC \cup {"resuming"}
                       /\ HartId[h] = hartsel => pc[h] \in DebugPC \ {"dret", "resuming"}
    BY NoCommandUnderWay
    DEF SInv, SCore, ResumeIsAwaited, AllHalted, HaltedMeansInDebugMode
<1>2. CASE UNCHANGED <<busy, debug_rom_flags>>
  <2>1. Waiting'
      BY <1>0, <1>2 DEF Waiting
  <2>2. GoIsPending'
      BY <1>2, NoCommandUnderWay DEF GoIsPending
  <2>3. CommandRuns'
      BY <1>1, <1>2, NoCommandUnderWay DEF CommandRuns, InCommand, CommandPC, Flags
  <2>4. ResumeIsAwaited'
      BY <1>1, <1>2 DEF ResumeIsAwaited, Flags
  <2>5. Assembled'
      BY <1>2 DEF Assembled
  <2>. QED BY <2>1, <2>2, <2>3, <2>4, <2>5 DEF SCore
<1>3. CASE CommandStarted(cmd, dmdata)
  <2>. GO # RESUME
      BY DEF GO, RESUME
  <2>1. /\ busy' /\ cmderr' = CMDERR_NONE
        /\ debug_rom_flags' = [debug_rom_flags EXCEPT ![hartsel] = @ \cup {GO}]
        /\ debug_rom_flags \in [HartSels -> SUBSET {GO, RESUME}]
      BY <1>3 DEF CommandStarted, SInv, TypeOK, DMTypeOK
  <2>2. Waiting'
      BY <1>0, <2>1 DEF Waiting
  <2>3. GoIsPending'
      BY <1>0, <2>1, NoCommandUnderWay DEF GoIsPending
  <2>4. CommandRuns'
      BY <1>0, <1>1, <2>1 DEF CommandRuns, CommandPC, Flags
  <2>5. ResumeIsAwaited'
      BY <1>1, <2>1 DEF ResumeIsAwaited, Flags
  <2>6. Assembled'
    <3>1. /\ command' = cmd /\ cmd.register
          /\ cmd.transfer => Supported(cmd) /\ cmd.regno # "custom"
        BY <1>3 DEF CommandStarted, Refusal, CMDERR_NONE, CMDERR_NOTSUP,
           CMDERR_HALTRESUME
    <3>2. debug_abstract' = Assemble(ProgramOf(cmd))
        BY <1>3 DEF CommandStarted, ProgramOf
    <3>3. \A i \in 1 .. Len(ProgramOf(cmd)) : debug_abstract'[i] = ProgramOf(cmd)[i]
        BY <3>1, <3>2, AssembledWhole DEF Assemble, AbstractSize
    <3>. QED BY <3>1, <3>3 DEF Assembled, ProgramOf, TransferWords, Closing, Supported
  <2>. QED BY <2>2, <2>3, <2>4, <2>5, <2>6 DEF SCore
<1>. QED BY <1>2, <1>3
     DEF PerformAbstractCommand, CommandIgnored, CommandRefused, CommandCustom

(* The other accesses of the debugger leave hart control alone.            *)
LEMMA OtherAccessKeepsCore ==
    ASSUME SInv, SeeCompleted \/ Prepare
    PROVE  SCore'
<1>1. /\ ~busy /\ UNCHANGED <<busy, dmcontrol, autoexec, debug_rom_flags, pc>>
      /\ dbg' \in {"idle", dbg} /\ dbg # "resuming"
      /\ cmderr' \in {cmderr, CMDERR_NONE}
  <2>1. CASE SeeCompleted
      BY <2>1 DEF SeeCompleted, DmiWriteAbstractcs, ctrlvars, CMDERR_NONE,
         SInv, TypeOK, DMTypeOK
  <2>2. CASE Prepare
    <3>1. ~busy /\ dbg = "idle"
        BY <2>2, NoCommandUnderWay DEF Prepare, Ready
    <3>2. ~autoexec.data /\ ~autoexec.progbuf
        BY DEF SInv, SCore, Waiting, AutoexecReset
    <3>. QED BY <2>2, <3>1, <3>2
         DEF Prepare, DmiWriteData, DmiWriteProgbuf, Autoexec, ctrlvars
  <2>. QED BY <2>1, <2>2
<1>2. hartsel' = hartsel /\ \A h \in Harts : Flags(h)' = Flags(h)
    BY <1>1 DEF hartsel, Flags
<1>3. Waiting'
    BY <1>1, <1>2 DEF SInv, SCore, Waiting
<1>4. GoIsPending'
    BY <1>1, <1>2 DEF SInv, SCore, GoIsPending
<1>5. CommandRuns'
    BY <1>1, <1>2, HartIdType
    DEF SInv, SCore, GoIsPending, CommandRuns, InCommand, CommandPC, Flags
<1>6. ResumeIsAwaited'
    BY <1>1, <1>2 DEF SInv, SCore, ResumeIsAwaited
<1>7. Assembled'
    BY <1>1 DEF Assembled
<1>. QED BY <1>3, <1>4, <1>5, <1>6, <1>7 DEF SCore

(* Every access of the debugger keeps the invariant of the session.        *)
LEMMA DebuggerKeepsCore ==
    ASSUME SInv, Debugger
    PROVE  SCore'
<1>. hartsel \in Harts /\ 0 \in Harts /\ FALSE \in BOOLEAN /\ TRUE \in BOOLEAN
    BY ZeroFacts DEF SInv, SCore, Waiting
<1>1. dbg # "resuming" => \A h \in Harts : RESUME \notin Flags(h)
    BY DEF SInv, SCore, ResumeIsAwaited
<1>2. CASE Activate
    BY <1>1, <1>2, ControlKeepsCore DEF Activate
<1>3. ASSUME NEW h \in Harts, SelectHart(h) PROVE SCore'
    BY <1>1, <1>3, ControlKeepsCore DEF SelectHart, Ready
<1>4. CASE RequestHalt
    BY <1>1, <1>4, ControlKeepsCore DEF RequestHalt, Ready
<1>5. CASE SeeHalted
    BY <1>1, <1>5, ControlKeepsCore DEF SeeHalted
<1>6. CASE SeeResumed
  <2>1. \A h \in Harts : RESUME \notin Flags(h)
      BY <1>6, HartIdType
      DEF SeeResumed, AllResumeAck, SInv, AckExcludesPendingResume, SCore,
          ResumeIsAwaited, Flags
  <2>. QED BY <1>6, <2>1, ControlKeepsCore DEF SeeResumed
<1>7. CASE ResetHart
    BY <1>1, <1>7, ControlKeepsCore DEF ResetHart, Ready
<1>. QED BY <1>2, <1>3, <1>4, <1>5, <1>6, <1>7, RequestResumeKeepsCore,
            IssueKeepsCore, OtherAccessKeepsCore DEF Debugger

-----------------------------------------------------------------------------
(* The session is one of the debuggers of DebugSystem.                     *)

(* Every step of the session is a step of the harts or of a debugger that  *)
(* writes anything.                                                        *)
LEMMA SessionIsStep ==
    ASSUME SInv, [SessionNext]_svars
    PROVE  Step
<1>. hartsel \in Harts /\ 0 \in Harts /\ FALSE \in BOOLEAN /\ TRUE \in BOOLEAN
    BY ZeroFacts DEF SInv, SCore, Waiting
<1>1. \A haltreq, resumereq, hartreset \in BOOLEAN, sel \in Harts :
        Control(haltreq, resumereq, hartreset, sel) \in AnyWrite
    BY NProcsAssumption DEF Control, AnyWrite, DmcontrolSet
<1>2. CASE \/ Activate \/ RequestHalt \/ SeeHalted \/ RequestResume
           \/ SeeResumed \/ ResetHart \/ \E h \in Harts : SelectHart(h)
    BY <1>1, <1>2 DEF Activate, SelectHart, RequestHalt, SeeHalted,
       RequestResume, SeeResumed, ResetHart, Step
<1>3. ASSUME NEW cmd \in Commands, IssueCommand(cmd) PROVE Step
    BY <1>3 DEF IssueCommand, Step, RegisterAccess, DmiRegister
<1>4. CASE SeeCompleted
  <2>1. CmderrBits \in SUBSET CmderrBits
      OBVIOUS
  <2>. QED BY <1>4, <2>1 DEF SeeCompleted, Step, RegisterAccess, DmiRegister
<1>5. CASE Prepare
    BY <1>5 DEF Prepare, Step, RegisterAccess, DmiRegister
<1>6. ASSUME NEW h \in Harts, HartStep(h) PROVE Step
    BY <1>6 DEF HartStep, Step
<1>7. CASE UNCHANGED svars
    BY <1>7 DEF svars, Step
<1>. QED BY <1>2, <1>3, <1>4, <1>5, <1>6, <1>7 DEF SessionNext, Debugger

(* The invariant of the session is inductive.                              *)
LEMMA SessionStep ==
    ASSUME SInv, [SessionNext]_svars
    PROVE  SInv'
<1>1. TypeOK' /\ HaltedMeansInDebugMode' /\ AckExcludesPendingResume'
    BY SessionIsStep, StepType, HaltedStep, AckStep DEF SInv
<1>2. SCore'
  <2>1. CASE Debugger
      BY <2>1, DebuggerKeepsCore
  <2>2. ASSUME NEW h \in Harts, HartStep(h) PROVE SCore'
      BY <2>2, TurnKeepsCore DEF HartStep
  <2>3. CASE UNCHANGED svars
    <3>. USE <2>3 DEF svars, vars, dmvars, ctrlvars, cmdvars
    <3>. /\ hartsel' = hartsel /\ \A h \in Harts : Flags(h)' = Flags(h)
         /\ SCore
        BY DEF hartsel, Flags, SInv
    <3>1. Waiting' /\ GoIsPending'
        BY DEF SCore, Waiting, GoIsPending
    <3>2. CommandRuns' /\ ResumeIsAwaited'
        BY DEF SCore, CommandRuns, InCommand, ResumeIsAwaited
    <3>3. Assembled'
        BY DEF SCore, Assembled, ProgramOf, TransferWords, Closing, Supported
    <3>. QED BY <3>1, <3>2, <3>3 DEF SCore
  <2>. QED BY <2>1, <2>2, <2>3 DEF SessionNext
<1>. QED BY <1>1, <1>2 DEF SInv

LEMMA SessionInitInv == SessionInit => SInv
<1>. SUFFICES ASSUME SessionInit PROVE SInv
    OBVIOUS
<1>. USE DEF SessionInit
<1>1. TypeOK
    BY InitType
<1>2. HaltedMeansInDebugMode /\ AckExcludesPendingResume
    BY HartIdType DEF Init, DMInit, HaltedMeansInDebugMode, AckExcludesPendingResume
<1>3. Waiting
    BY ZeroFacts DEF Init, DMInit, Waiting, hartsel, DmcontrolReset
<1>4. GoIsPending /\ CommandRuns /\ ResumeIsAwaited
    BY HartIdType DEF Init, DMInit, GoIsPending, CommandRuns, ResumeIsAwaited,
       InCommand, Flags, CommandPC
<1>5. Assembled
    BY DEF Init, DMInit, Assembled
<1>. QED BY <1>1, <1>2, <1>3, <1>4, <1>5 DEF SInv, SCore

LEMMA SessionInvariant == SessionSpec => []SInv
BY SessionInitInv, SessionStep, PTL DEF SessionSpec

(* A session is a behaviour of the debug system under some debugger, and   *)
(* has every property that holds under any.                                *)
THEOREM SessionKeepsSystem ==
    SessionSpec =>
        /\ [](TypeOK /\ HaltedMeansInDebugMode /\ AckExcludesPendingResume)
        /\ []HaltreqMirrorsHart
        /\ BusyShieldsProgram /\ FirstErrorKept /\ LeavingHaltIsVisible
<1>1. SInv => TypeOK /\ HaltedMeansInDebugMode /\ AckExcludesPendingResume
    BY DEF SInv
<1>2. SessionInit => HaltreqMirrorsHart
    BY DEF SessionInit, Init, DMInit, HaltreqMirrorsHart, hartsel, DmcontrolReset
<1>3. SInv /\ HaltreqMirrorsHart /\ [SessionNext]_svars => HaltreqMirrorsHart'
    BY SessionIsStep, HaltreqStep DEF SInv
<1>4. SInv /\ [SessionNext]_svars =>
        /\ [busy => /\ UNCHANGED debug_abstract
                    /\ UNCHANGED program_buffer \/ (BusStore /\ ~RegisterAccess)]_vars
        /\ [cmderr # CMDERR_NONE => cmderr' \subseteq cmderr]_vars
    BY SessionIsStep, StepRespects DEF SInv
<1>. DEFINE Visible ==
        \A h \in Harts : halted[HartId[h]] /\ ~halted'[HartId[h]]
            => resumeack'[HartId[h]] \/ havereset'[HartId[h]]
<1>5. SInv /\ [SessionNext]_svars => [Visible]_vars
    BY SessionIsStep, StepShowsLeaving DEF SInv
<1>. QED BY <1>1, <1>2, <1>3, <1>4, <1>5, SessionInvariant, PTL
     DEF SessionSpec, BusyShieldsProgram, FirstErrorKept, LeavingHaltIsVisible

-----------------------------------------------------------------------------
(* The invariants of the session.                                          *)

(* busy is exactly the time of the command of the selected hart.           *)
THEOREM BusyIsTheCommand == SessionSpec => []BusyCoversCommand
<1>1. SInv => BusyCoversCommand
  <2>. SUFFICES ASSUME SInv, NEW h \in Harts, InCommand(h)
                PROVE  busy /\ HartId[h] = hartsel
      BY DEF BusyCoversCommand
  <2>. QED BY HartIdType DEF SInv, SCore, GoIsPending, CommandRuns, InCommand,
              CommandPC, Flags
<1>. QED BY <1>1, SessionInvariant, PTL

(* No resume request is left over from an earlier one.                     *)
THEOREM ResumesOnlyWhenAsked == SessionSpec => []NoStrayResume
<1>1. SInv => NoStrayResume
    BY DEF SInv, SCore, ResumeIsAwaited, NoStrayResume
<1>. QED BY <1>1, SessionInvariant, PTL

-----------------------------------------------------------------------------
(* What the hart of a command executes.                                    *)

(* The words of the program of a command that was accepted.                *)
LEMMA TransferCases ==
    ASSUME NEW cmd \in CommandSet,
           cmd.transfer => Supported(cmd) /\ cmd.regno # "custom"
    PROVE  \/ ~cmd.transfer /\ TransferWords(cmd) = << >>
           \/ /\ cmd.transfer /\ cmd.write /\ cmd.regno = "csr"
              /\ TransferWords(cmd) = <<"swap_s0", "load", "csr", "swap_s0">>
           \/ /\ cmd.transfer /\ ~cmd.write /\ cmd.regno = "csr"
              /\ TransferWords(cmd) = <<"swap_s0", "csr", "store", "swap_s0">>
           \/ /\ cmd.transfer /\ cmd.write /\ cmd.regno = "gpr"
              /\ TransferWords(cmd) = <<"load">>
           \/ /\ cmd.transfer /\ ~cmd.write /\ cmd.regno = "gpr"
              /\ TransferWords(cmd) = <<"store">>
           \/ /\ cmd.transfer /\ cmd.write /\ cmd.regno = "fpr"
              /\ TransferWords(cmd) = <<"fload">>
           \/ /\ cmd.transfer /\ ~cmd.write /\ cmd.regno = "fpr"
              /\ TransferWords(cmd) = <<"fstore">>
<1>1. CASE ~cmd.transfer
    BY <1>1 DEF TransferWords
<1>2. CASE cmd.transfer /\ cmd.regno = "csr"
    BY <1>2 DEF TransferWords, Supported
<1>3. CASE cmd.transfer /\ cmd.regno = "gpr"
    BY <1>3 DEF TransferWords, Supported
<1>4. CASE cmd.transfer /\ cmd.regno = "fpr"
    BY <1>4 DEF TransferWords, Supported
<1>. QED BY <1>1, <1>2, <1>3, <1>4 DEF Supported

(* The program ends at its first closing word. *)
LEMMA FirstEnd ==
    ASSUME NEW n \in 1 .. AbstractSize, Ends(n), \A j \in 1 .. n - 1 : ~Ends(j)
    PROVE  EndOfProgram = n
<1>. DEFINE P(i) == Ends(i) /\ \A j \in 1 .. AbstractSize : Ends(j) => i <= j
<1>1. P(n)
    BY DEF AbstractSize
<1>2. \A i \in 1 .. AbstractSize : P(i) => i = n
    BY <1>1 DEF AbstractSize
<1>3. EndOfProgram = CHOOSE i \in 1 .. AbstractSize : P(i)
    BY <1>1 DEF EndOfProgram
<1>4. P(CHOOSE i \in 1 .. AbstractSize : P(i))
      /\ (CHOOSE i \in 1 .. AbstractSize : P(i)) \in 1 .. AbstractSize
    BY <1>1
<1>. QED BY <1>2, <1>3, <1>4

(* While busy, the program in memory is the one of the command: it loads   *)
(* data0 or stores to it as the command says, may fault if there is a      *)
(* transfer, and ends in the jump to the program buffer or an ebreak.           *)
LEMMA ProgramInMemory ==
    ASSUME SInv, busy
    PROVE  /\ EndOfProgram \in 1 .. AbstractSize
           /\ EndOfProgram = Len(TransferWords(command)) + 1
           /\ debug_abstract[EndOfProgram] = Closing(command)
           /\ Executes("load") \/ Executes("fload")
                <=> command.transfer /\ command.write
           /\ Executes("store") \/ Executes("fstore")
                <=> command.transfer /\ ~command.write
           /\ MayFault => command.transfer
<1>. DEFINE w == TransferWords(command)
            n == Len(w) + 1
<1>0. /\ command \in CommandSet
      /\ command.transfer => Supported(command) /\ command.regno # "custom"
      /\ \A i \in 1 .. Len(ProgramOf(command)) :
            debug_abstract[i] = ProgramOf(command)[i]
    BY InputsAssumption DEF SInv, TypeOK, DMTypeOK, SCore, Assembled
<1>1. /\ w \in Seq(AbstractWord) /\ Len(w) \in 0 .. 4
      /\ \A i \in 1 .. Len(w) : w[i] \notin {"jal", "ebreak", "zero"}
    BY <1>0, TransferCases, TransferWordsType
<1>2. Closing(command) \in {"jal", "ebreak"}
    BY DEF Closing
<1>3. /\ Len(ProgramOf(command)) = n /\ ProgramOf(command)[n] = Closing(command)
      /\ \A i \in 1 .. Len(w) : ProgramOf(command)[i] = w[i]
    BY <1>1 DEF ProgramOf
<1>4. /\ debug_abstract[n] = Closing(command)
      /\ \A i \in 1 .. Len(w) : debug_abstract[i] = w[i]
    BY <1>0, <1>1, <1>3
<1>5. EndOfProgram = n /\ n \in 1 .. AbstractSize
    BY <1>1, <1>2, <1>4, FirstEnd DEF Ends, AbstractSize
<1>. DEFINE Has(word) == \E i \in 1 .. Len(w) : w[i] = word
<1>6. \A word : Executes(word) <=> Has(word)
    BY <1>1, <1>4, <1>5 DEF Executes
<1>7. CASE ~command.transfer /\ w = << >>
    BY <1>4, <1>5, <1>6, <1>7 DEF MayFault
<1>8. CASE /\ command.transfer /\ command.write /\ command.regno = "csr"
           /\ w = <<"swap_s0", "load", "csr", "swap_s0">>
  <2>. Has("load") /\ ~Has("store") /\ ~Has("fstore")
      BY <1>8
  <2>. QED BY <1>4, <1>5, <1>6, <1>8 DEF MayFault
<1>9. CASE /\ command.transfer /\ ~command.write /\ command.regno = "csr"
           /\ w = <<"swap_s0", "csr", "store", "swap_s0">>
  <2>. Has("store") /\ ~Has("load") /\ ~Has("fload")
      BY <1>9
  <2>. QED BY <1>4, <1>5, <1>6, <1>9 DEF MayFault
<1>10. CASE command.transfer /\ command.regno \in {"gpr", "fpr"} /\ Len(w) = 1
            /\ w[1] = IF command.regno = "gpr"
                      THEN IF command.write THEN "load" ELSE "store"
                      ELSE IF command.write THEN "fload" ELSE "fstore"
  <2>. \A word : Has(word) <=> word = w[1]
      BY <1>10
  <2>. QED BY <1>4, <1>5, <1>6, <1>10 DEF MayFault
<1>. QED BY <1>0, <1>7, <1>8, <1>9, <1>10, TransferCases

(* What a hart executes is the program of its command, word for word.      *)
THEOREM ProgramIsWhole == SessionSpec => []ExecutesWholeProgram
<1>1. SInv => ExecutesWholeProgram
  <2>. SUFFICES ASSUME SInv, NEW h \in Harts, pc[h] = "exec"
                PROVE  /\ EndOfProgram <= AbstractSize
                       /\ SubSeq(debug_abstract, 1, EndOfProgram) = ProgramOf(command)
      BY DEF ExecutesWholeProgram, ProgramOf, Closing
  <2>1. busy
      BY DEF SInv, SCore, CommandRuns
  <2>2. /\ EndOfProgram \in 1 .. AbstractSize
        /\ EndOfProgram = Len(TransferWords(command)) + 1
      BY <2>1, ProgramInMemory
  <2>3. command \in CommandSet
      BY InputsAssumption DEF SInv, TypeOK, DMTypeOK
  <2>4. /\ command.transfer => Supported(command) /\ command.regno # "custom"
        /\ \A i \in 1 .. Len(ProgramOf(command)) :
              debug_abstract[i] = ProgramOf(command)[i]
      BY <2>1 DEF SInv, SCore, Assembled
  <2>5. ProgramOf(command) \in Seq(AbstractWord)
      BY <2>3, <2>4, AssembledWhole
  <2>6. Len(ProgramOf(command)) = EndOfProgram
      BY <2>2, <2>3, TransferWordsType DEF ProgramOf
  <2>7. debug_abstract \in [1 .. AbstractSize -> AbstractWord]
      BY DEF SInv, TypeOK, DMTypeOK
  <2>8. \A i \in 1 .. EndOfProgram : debug_abstract[i] \in AbstractWord
      BY <2>2, <2>7 DEF AbstractSize
  <2>9. /\ SubSeq(debug_abstract, 1, EndOfProgram) \in Seq(AbstractWord)
        /\ Len(SubSeq(debug_abstract, 1, EndOfProgram)) = EndOfProgram
        /\ \A i \in 1 .. EndOfProgram :
              SubSeq(debug_abstract, 1, EndOfProgram)[i] = debug_abstract[i]
      BY <2>2, <2>8, SubSeqProperties
  <2>10. SubSeq(debug_abstract, 1, EndOfProgram) = ProgramOf(command)
      BY <2>4, <2>5, <2>6, <2>9, SeqEqual
  <2>. QED BY <2>2, <2>10
<1>. QED BY <1>1, SessionInvariant, PTL

-----------------------------------------------------------------------------
(* The session implements CommandPort, with the mhartids a simulation has  *)
(* by default: each hart's index.                                          *)

DefaultHartIds == HartId = [h \in Harts |-> h]

(* The harts the port takes to be in debug mode. *)
Stopped == {h \in Harts : pc[h] \notin {"run", "dret"}}

(* How far the port takes a command to be, from busy, the flag and the     *)
(* place of the selected hart.                                             *)
StageOf(waiting, go, label) ==
    IF ~waiting THEN "none"
    ELSE IF go \/ label = "exec" THEN "issued"
    ELSE IF label = "exception" THEN "faulted"
    ELSE IF label = "progbuf" THEN "looping"
    ELSE "executed"

LEMMA StageFacts ==
    ASSUME DefaultHartIds, hartsel \in Harts, hartsel' \in Harts
    PROVE  /\ Stage = StageOf(busy, GO \in debug_rom_flags[hartsel], pc[hartsel])
           /\ Stage' = StageOf(busy', GO \in debug_rom_flags'[hartsel'], pc'[hartsel'])
<1>. /\ Flags(hartsel) = debug_rom_flags[hartsel]
     /\ Flags(hartsel)' = debug_rom_flags'[hartsel']
    BY DEF DefaultHartIds, Flags
<1>1. Stage = StageOf(busy, GO \in debug_rom_flags[hartsel], pc[hartsel])
    BY DEF Stage, StageOf
<1>2. Stage' = StageOf(busy', GO \in debug_rom_flags'[hartsel'], pc'[hartsel'])
    BY DEF Stage, StageOf
<1>. QED BY <1>1, <1>2

(* The errors the port knows. *)
LEMMA ErrorFacts ==
    /\ cmderr = CMDERR_NONE => ErrorName = "none"
    /\ cmderr' = CMDERR_NONE => ErrorName' = "none"
    /\ cmderr' = CMDERR_NOTSUP => ErrorName' = "notsup"
    /\ cmderr' = CMDERR_EXCEPTION => ErrorName' = "exception"
<1>1. /\ CMDERR_NONE # CMDERR_NOTSUP /\ CMDERR_NONE # CMDERR_EXCEPTION
      /\ CMDERR_NOTSUP # CMDERR_EXCEPTION
  <2>1. 1 \in CMDERR_NOTSUP /\ 0 \notin CMDERR_NOTSUP
        /\ 0 \in CMDERR_EXCEPTION /\ CMDERR_NONE = {}
      BY DEF CMDERR_NONE, CMDERR_NOTSUP, CMDERR_EXCEPTION
  <2>. QED BY <2>1
<1>2. cmderr = CMDERR_NONE => ErrorName = "none"
    BY <1>1 DEF ErrorName
<1>3. cmderr' = CMDERR_NONE => ErrorName' = "none"
    BY <1>1 DEF ErrorName
<1>4. cmderr' = CMDERR_NOTSUP => ErrorName' = "notsup"
    BY <1>1 DEF ErrorName
<1>5. cmderr' = CMDERR_EXCEPTION => ErrorName' = "exception"
    BY <1>1 DEF ErrorName
<1>. QED BY <1>2, <1>3, <1>4, <1>5

(* A hart that moves without a store of its own keeps the port as it is,   *)
(* unless it enters or leaves debug mode or executes a command.            *)
LEMMA QuietStutter ==
    ASSUME SInv, DefaultHartIds, UNCHANGED dmvars, UNCHANGED reg,
           NEW h \in Harts, NEW label \in PC \ {"run", "dret"},
           pc' = [pc EXCEPT ![h] = label], pc[h] \notin {"run", "dret"},
           \/ label = pc[h]
           \/ GO \in debug_rom_flags[h]
           \/ {label, pc[h]} \cap {"exec", "exception", "progbuf"} = {}
    PROVE  UNCHANGED Port!pvars
<1>. USE DEF dmvars, ctrlvars, cmdvars
<1>. pc \in [Harts -> PC] /\ hartsel' = hartsel /\ hartsel \in Harts
    BY DEF SInv, TypeOK, SCore, Waiting, hartsel
<1>1. UNCHANGED Stopped
    BY DEF Stopped
<1>2. UNCHANGED Stage
    BY StageFacts DEF StageOf
<1>3. UNCHANGED ErrorName
    BY DEF ErrorName
<1>. QED BY <1>1, <1>2, <1>3 DEF Port!pvars, Stopped, hartsel

(* Entering debug mode, running and dret are the port's Run.               *)
LEMMA RunImplements ==
    ASSUME SInv, DefaultHartIds, NEW h \in Harts,
           EnterOnRequest(h) \/ RunProgram(h) \/ RomDret(h)
    PROVE  Port!Run(h)
<1>. USE DEF EnterOnRequest, RunProgram, RomDret, Goto, dmvars, ctrlvars, cmdvars
<1>. /\ pc \in [Harts -> PC] /\ reg \in [Harts -> Word]
     /\ hartsel' = hartsel /\ hartsel \in Harts
    BY DEF SInv, TypeOK, SCore, Waiting, hartsel
<1>1. pc[h] \in {"run", "dret"} /\ h \notin Stopped
    BY DEF Stopped
<1>2. PICK label \in {"run", "entry"} : pc' = [pc EXCEPT ![h] = label]
    OBVIOUS
<1>3. Stopped' \in {Stopped, Stopped \cup {h}}
    BY <1>1, <1>2 DEF Stopped
<1>4. \E d \in Word : reg' = [reg EXCEPT ![h] = d]
  <2>1. CASE UNCHANGED reg
      BY <2>1, reg' = [reg EXCEPT ![h] = reg[h]], reg[h] \in Word
  <2>. QED BY <2>1
<1>5. busy => h # hartsel
    BY <1>1 DEF SInv, SCore, CommandRuns, DefaultHartIds, DebugPC, ParkPC, CommandPC
<1>6. UNCHANGED <<Stage, ErrorName>>
  <2>1. UNCHANGED Stage
      BY <1>2, <1>5, StageFacts DEF StageOf
  <2>. QED BY <2>1 DEF ErrorName
<1>. QED BY <1>1, <1>3, <1>4, <1>6 DEF Port!Run, Port!Word, Word, Stopped, hartsel

(* The HALTED store of the selected hart that has taken its command is the *)
(* port's Report; any other changes nothing the port shows.                *)
LEMMA HaltedImplements ==
    ASSUME SInv, DefaultHartIds, NEW h \in Harts, RomHalted(h)
    PROVE  Port!Report \/ UNCHANGED Port!pvars
<1>. USE DEF RomHalted, StoreHalted, Goto
<1>. /\ pc \in [Harts -> PC] /\ busy \in BOOLEAN
     /\ hartsel' = hartsel /\ hartsel \in Harts /\ HartId[h] = h
    BY DEF SInv, TypeOK, DMTypeOK, SCore, Waiting, hartsel, DefaultHartIds
<1>1. UNCHANGED <<Stopped, ErrorName>>
    BY DEF Stopped, ErrorName
<1>2. CASE busy /\ h = hartsel /\ GO \notin debug_rom_flags[h]
  <2>1. Stage = "executed" /\ Stage' = "none"
      BY <1>2, StageFacts DEF StageOf
  <2>. QED BY <1>1, <2>1 DEF Port!Report, Stopped, hartsel
<1>3. CASE ~(busy /\ h = hartsel /\ GO \notin debug_rom_flags[h])
  <2>1. UNCHANGED Stage
      BY <1>3, StageFacts DEF StageOf
  <2>. QED BY <1>1, <2>1 DEF Port!pvars, Stopped, hartsel
<1>. QED BY <1>2, <1>3

(* Reading the flags, and the GOING store, are not seen at the port.       *)
LEMMA ParkImplements ==
    ASSUME SInv, DefaultHartIds, NEW h \in Harts, UNCHANGED dbg,
           RomCheckGo(h) \/ RomCheckResume(h) \/ RomGoing(h)
    PROVE  UNCHANGED Port!pvars
<1>. pc \in [Harts -> PC] /\ hartsel \in Harts /\ Flags(h) = debug_rom_flags[h]
    BY DEF SInv, TypeOK, SCore, Waiting, DefaultHartIds, Flags
<1>1. CASE RomCheckGo(h) \/ RomCheckResume(h)
    BY <1>1, QuietStutter
    DEF RomCheckGo, RomCheckResume, Goto, PC, DebugPC, ParkPC, CommandPC
<1>2. CASE RomGoing(h)
  <2>. USE <1>2 DEF RomGoing, StoreGoing, Goto, ctrlvars, cmdvars
  <2>1. h = hartsel /\ hartsel' = hartsel /\ GO \in debug_rom_flags[h]
      BY GoingTurn DEF DefaultHartIds, hartsel, SInv, SCore, CommandRuns
  <2>2. UNCHANGED <<Stopped, ErrorName>>
      BY DEF Stopped, ErrorName
  <2>3. UNCHANGED Stage
      BY <2>1, StageFacts DEF StageOf
  <2>. QED BY <2>1, <2>2, <2>3 DEF Port!pvars, Stopped, hartsel
<1>. QED BY <1>1, <1>2

(* The RESUMING store is the port's Resume.                                *)
LEMMA ResumingImplements ==
    ASSUME SInv, DefaultHartIds, NEW h \in Harts, RomResuming(h), UNCHANGED dbg
    PROVE  Port!Resume
<1>. USE DEF RomResuming, StoreResuming, Goto, cmdvars
<1>. /\ pc \in [Harts -> PC] /\ h = hartsel /\ ~busy
     /\ hartsel' = hartsel /\ hartsel \in Harts
    BY ResumingTurn DEF SInv, TypeOK, DefaultHartIds, hartsel
<1>1. hartsel \in Stopped /\ Stopped' = Stopped \ {hartsel}
    BY DEF Stopped
<1>2. Stage = "none" /\ Stage' = "none"
    BY StageFacts DEF StageOf
<1>3. UNCHANGED ErrorName
    BY DEF ErrorName
<1>. QED BY <1>1, <1>2, <1>3 DEF Port!Resume, Stopped, hartsel

(* The EXCEPTION store is the port's RaiseError.                           *)
LEMMA ExceptionImplements ==
    ASSUME SInv, DefaultHartIds, NEW h \in Harts, RomException(h), UNCHANGED dbg
    PROVE  Port!RaiseError
<1>. USE DEF RomException, StoreException, Goto, ctrlvars
<1>. /\ pc \in [Harts -> PC] /\ h = hartsel /\ busy /\ cmderr = CMDERR_NONE
     /\ hartsel' = hartsel /\ hartsel \in Harts
     /\ GO \notin debug_rom_flags[h]
    BY ExceptionTurn
    DEF SInv, TypeOK, DefaultHartIds, hartsel, SCore, CommandRuns, Flags
<1>1. UNCHANGED Stopped
    BY DEF Stopped
<1>2. Stage = "faulted" /\ Stage' = "executed"
    BY StageFacts DEF StageOf
<1>3. ErrorName' = "exception"
    BY ErrorFacts
<1>. QED BY <1>1, <1>2, <1>3 DEF Port!RaiseError, Stopped, hartsel

(* The program, up to its ebreak or to the program buffer, is the port's   *)
(* ExecuteFully: the transfer and the program buffer take effect at once.  *)
LEMMA ExecImplements ==
    ASSUME SInv, DefaultHartIds, NEW h \in Harts, ExecProgram(h), UNCHANGED dbg
    PROVE  Port!ExecuteFully
<1>. DEFINE moved == RegAfterTransfer(h)
<1>. USE DEF Goto, ctrlvars, cmdvars, dmvars
<1>. /\ pc \in [Harts -> PC] /\ pc[h] = "exec" /\ reg \in [Harts -> Word]
     /\ dmdata \in Word /\ program_buffer \in ProgramSet
    BY DEF ExecProgram, SInv, TypeOK, DMTypeOK
<1>. /\ busy /\ HartId[h] = h /\ h = hartsel /\ hartsel \in Harts
     /\ GO \notin debug_rom_flags[h] /\ command \in CommandSet
    BY InputsAssumption
    DEF SInv, SCore, CommandRuns, DefaultHartIds, Flags, TypeOK, DMTypeOK
<1>1. /\ dmdata' = IF command.transfer /\ ~command.write THEN reg[h] ELSE dmdata
      /\ UNCHANGED <<dmcontrol, busy, cmderr, custom_base, program_buffer,
                     command, debug_rom_flags>>
    BY ProgramInMemory DEF ExecProgram, StoreData
<1>2. moved = IF command.transfer /\ command.write THEN dmdata ELSE reg[h]
    BY ProgramInMemory DEF RegAfterTransfer
<1>3. IF command.postexec
      THEN RunProgbuf(h, moved)
      ELSE Goto(h, "entry") /\ reg' = [reg EXCEPT ![h] = moved]
  <2>1. /\ EndOfProgram \in 1 .. AbstractSize
        /\ debug_abstract[EndOfProgram] = Closing(command)
      BY ProgramInMemory
  <2>2. CASE command.postexec
      BY <2>1, <2>2 DEF ExecProgram, Closing, AbstractSize
  <2>3. CASE ~command.postexec
      BY <2>1, <2>3 DEF ExecProgram, Closing, AbstractSize
  <2>. QED BY <2>2, <2>3
<1>. HIDE DEF moved
<1>4. /\ reg' = [reg EXCEPT ![h] =
            IF command.postexec /\ program_buffer = "incr"
            THEN (moved + 1) % WordSize ELSE moved]
      /\ pc' = [pc EXCEPT ![h] =
            IF command.postexec /\ program_buffer = "trap" THEN "exception"
            ELSE IF command.postexec /\ program_buffer = "loop" THEN "progbuf"
            ELSE "entry"]
  <2>1. CASE ~command.postexec
      BY <1>3, <2>1
  <2>2. CASE command.postexec /\ program_buffer = "ebreak"
      BY <1>3, <2>2 DEF RunProgbuf
  <2>3. CASE command.postexec /\ program_buffer = "incr"
      BY <1>3, <2>3 DEF RunProgbuf
  <2>4. CASE command.postexec /\ program_buffer = "trap"
      BY <1>3, <2>4 DEF RunProgbuf
  <2>5. CASE command.postexec /\ program_buffer = "loop"
      BY <1>3, <2>5 DEF RunProgbuf
  <2>. QED BY <2>1, <2>2, <2>3, <2>4, <2>5 DEF ProgramSet
<1>5. UNCHANGED <<Stopped, ErrorName>> /\ hartsel' = hartsel
    BY <1>1, <1>4 DEF Stopped, ErrorName, hartsel
<1>6. /\ Stage = "issued"
      /\ Stage' = CASE command.postexec /\ program_buffer = "trap" -> "faulted"
                    [] command.postexec /\ program_buffer = "loop" -> "looping"
                    [] OTHER -> "executed"
    BY <1>1, <1>4, <1>5, StageFacts DEF StageOf
<1>. QED BY <1>1, <1>2, <1>4, <1>5, <1>6
     DEF Port!ExecuteFully, Port!Transferred, Stopped, hartsel

(* A transfer that faults is the port's ExecuteFault.                      *)
LEMMA FaultImplements ==
    ASSUME SInv, DefaultHartIds, NEW h \in Harts, ExecFault(h)
    PROVE  Port!ExecuteFault
<1>. USE DEF ExecFault, Goto, ctrlvars, cmdvars, dmvars
<1>. /\ pc \in [Harts -> PC] /\ busy /\ h = hartsel /\ hartsel \in Harts
     /\ hartsel' = hartsel /\ GO \notin debug_rom_flags[h]
    BY DEF SInv, TypeOK, SCore, CommandRuns, DefaultHartIds, Flags, hartsel
<1>1. command.transfer
    BY ProgramInMemory
<1>2. UNCHANGED <<Stopped, ErrorName>>
    BY DEF Stopped, ErrorName
<1>3. Stage = "issued" /\ Stage' = "faulted"
    BY StageFacts DEF StageOf
<1>. QED BY <1>1, <1>2, <1>3 DEF Port!ExecuteFault, Stopped, hartsel

(* A program buffer that loops goes on looping.                            *)
LEMMA LoopImplements ==
    ASSUME SInv, DefaultHartIds, NEW h \in Harts, ContinueProgbuf(h)
    PROVE  UNCHANGED Port!pvars
<1>. USE DEF ContinueProgbuf
<1>1. program_buffer = "loop" /\ pc[h] = "progbuf"
    BY DEF SInv, SCore, CommandRuns
<1>2. UNCHANGED <<pc, reg>>
    BY <1>1 DEF RunProgbuf, Goto, SInv, TypeOK
<1>3. UNCHANGED <<Stage, ErrorName>> /\ hartsel' = hartsel
    BY <1>2 DEF Stage, ErrorName, Flags, hartsel, dmvars, ctrlvars, cmdvars
<1>. QED BY <1>2, <1>3 DEF Port!pvars, dmvars, ctrlvars, cmdvars

(* Every turn of a hart. *)
LEMMA TurnImplements ==
    ASSUME SInv, DefaultHartIds, NEW h \in Harts, HartTurn(h), UNCHANGED dbg
    PROVE  [Port!PNext]_(Port!pvars)
BY RunImplements, HaltedImplements, ParkImplements, ResumingImplements,
   ExceptionImplements, ExecImplements, FaultImplements, LoopImplements
DEF HartTurn, Port!PNext, Port!Finish

(* A write of dmcontrol selects a hart, or resets the selected one; the    *)
(* requests to halt and to resume are not seen at the port.                *)
LEMMA ControlImplements ==
    ASSUME SInv, DefaultHartIds, dbg # "command",
           NEW haltreq \in BOOLEAN, NEW resumereq \in BOOLEAN,
           NEW hartreset \in BOOLEAN, NEW sel \in Harts,
           hartreset => sel = hartsel /\ dmcontrol.dmactive,
           WriteDmcontrol(Control(haltreq, resumereq, hartreset, sel))
    PROVE  (\E h \in Harts : Port!Select(h)) \/ Port!Reset
<1>. pc \in [Harts -> PC] /\ ~busy /\ hartsel \in Harts
    BY NoCommandUnderWay DEF SInv, TypeOK, SCore, Waiting
<1>1. /\ ~busy' /\ UNCHANGED <<cmderr, command, dmdata, program_buffer, custom_base>>
      /\ hartsel' \in {hartsel, sel, 0}
      /\ dmcontrol.dmactive => hartsel' \in {hartsel, sel}
      /\ \/ UNCHANGED <<pc, reg>>
         \/ /\ hartreset /\ hartsel' = sel
            /\ pc' = [pc EXCEPT ![sel] = "run"]
            /\ reg' = [reg EXCEPT ![sel] = 0]
    BY ControlEffect
<1>2. hartsel' \in Harts
    BY <1>1, ZeroFacts
<1>3. Stage = "none" /\ Stage' = "none" /\ UNCHANGED ErrorName
    BY <1>1, <1>2, StageFacts DEF StageOf, ErrorName
<1>4. CASE UNCHANGED <<pc, reg>>
  <2>1. UNCHANGED Stopped
      BY <1>4 DEF Stopped
  <2>2. Port!Select(hartsel')
      BY <1>1, <1>3, <1>4, <2>1 DEF Port!Select, Stopped, hartsel
  <2>. QED BY <1>2, <2>2
<1>5. CASE /\ hartreset /\ hartsel' = sel
           /\ pc' = [pc EXCEPT ![sel] = "run"]
           /\ reg' = [reg EXCEPT ![sel] = 0]
  <2>1. Stopped' = Stopped \ {hartsel} /\ hartsel' = hartsel
      BY <1>5 DEF Stopped
  <2>. QED BY <1>1, <1>3, <1>5, <2>1 DEF Port!Reset, Stopped, hartsel
<1>. QED BY <1>1, <1>4, <1>5

(* A command is refused, answered at once or issued.                       *)
LEMMA IssueImplements ==
    ASSUME SInv, DefaultHartIds, NEW cmd \in Commands, IssueCommand(cmd)
    PROVE  Port!Refuse(cmd) \/ Port!AccessCustom(cmd) \/ Port!Issue(cmd)
<1>. USE DEF IssueCommand, Ready, DmiWriteCommand
<1>. cmd \in CommandSet
    BY InputsAssumption
<1>. /\ pc \in [Harts -> PC] /\ ~busy /\ hartsel \in Harts /\ hartsel \in HartSels
     /\ dmdata \in Int /\ custom_base \in Int
     /\ debug_rom_flags \in [HartSels -> SUBSET {GO, RESUME}]
    BY NoCommandUnderWay, NProcsAssumption, SizesAssumption
    DEF SInv, TypeOK, DMTypeOK, SCore, Waiting, Word
<1>. hartsel' = hartsel /\ UNCHANGED Stopped
    BY DEF hartsel, ctrlvars, Stopped
<1>1. /\ hartsel \in Stopped /\ halted[hartsel]
      /\ Stage = "none" /\ ErrorName = "none"
    BY StageFacts, ErrorFacts
    DEF AllHalted, SInv, HaltedMeansInDebugMode, DefaultHartIds, Stopped,
        DebugPC, ParkPC, CommandPC, StageOf
<1>2. CASE CommandRefused(cmd, dmdata)
  <2>1. Refusal(cmd) = CMDERR_NOTSUP /\ (cmd.register => cmd.transfer /\ ~Supported(cmd))
      BY <1>1, <1>2 DEF CommandRefused, Refusal
  <2>2. ErrorName' = "notsup" /\ Stage' = "none"
      BY <1>2, <2>1, StageFacts, ErrorFacts DEF CommandRefused, StageOf
  <2>. QED BY <1>1, <1>2, <2>1, <2>2
       DEF CommandRefused, Port!Refuse, Port!Accept, Stopped, hartsel
<1>3. CASE CommandCustom(cmd, dmdata)
  <2>1. cmd.register
      BY <1>3 DEF CommandCustom, Refusal, CMDERR_NONE, CMDERR_NOTSUP
  <2>2. UNCHANGED ErrorName /\ Stage' = "none"
      BY <1>3, StageFacts DEF CommandCustom, ErrorName, StageOf
  <2>3. (1 + custom_base) % WordSize = (custom_base + 1) % WordSize
      BY 1 + custom_base = custom_base + 1
  <2>. QED BY <1>1, <1>3, <2>1, <2>2, <2>3
       DEF CommandCustom, Port!AccessCustom, Port!Accept, Stopped, hartsel
<1>4. CASE CommandStarted(cmd, dmdata)
  <2>1. cmd.register /\ (cmd.transfer => Supported(cmd) /\ cmd.regno # "custom")
      BY <1>4 DEF CommandStarted, Refusal, CMDERR_NONE, CMDERR_NOTSUP,
         CMDERR_HALTRESUME
  <2>2. UNCHANGED ErrorName /\ Stage' = "issued"
      BY <1>4, StageFacts DEF CommandStarted, ErrorName, StageOf
  <2>. QED BY <1>1, <1>4, <2>1, <2>2
       DEF CommandStarted, Port!Issue, Port!Accept, Stopped, hartsel
<1>. QED BY <1>2, <1>3, <1>4 DEF PerformAbstractCommand, CommandIgnored

(* Every access of the debugger. *)
LEMMA DebuggerImplements ==
    ASSUME SInv, DefaultHartIds, Debugger
    PROVE  [Port!PNext]_(Port!pvars)
<1>. hartsel \in Harts /\ 0 \in Harts /\ FALSE \in BOOLEAN /\ TRUE \in BOOLEAN
    BY ZeroFacts DEF SInv, SCore, Waiting
<1>1. CASE \/ Activate \/ RequestHalt \/ SeeHalted \/ RequestResume
           \/ SeeResumed \/ ResetHart \/ \E h \in Harts : SelectHart(h)
  <2>1. (\E h \in Harts : Port!Select(h)) \/ Port!Reset
      BY <1>1, ControlImplements
      DEF Activate, RequestHalt, SeeHalted, RequestResume, SeeResumed,
          ResetHart, SelectHart, Ready
  <2>. QED BY <2>1 DEF Port!PNext
<1>2. ASSUME NEW cmd \in Commands, IssueCommand(cmd)
      PROVE  Port!PNext
  <2>1. cmd \in CommandSet
      BY InputsAssumption
  <2>. QED BY <1>2, <2>1, IssueImplements DEF Port!PNext, CommandSet
<1>3. CASE SeeCompleted
  <2>. USE <1>3 DEF SeeCompleted, DmiWriteAbstractcs, ctrlvars
  <2>1. cmderr' = CMDERR_NONE /\ hartsel' = hartsel
      BY DEF CMDERR_NONE, SInv, TypeOK, DMTypeOK, hartsel
  <2>2. UNCHANGED Stopped /\ Stage = "none" /\ Stage' = "none"
      BY <2>1, StageFacts DEF Stopped, StageOf
  <2>3. ErrorName' = "none"
      BY <2>1, ErrorFacts
  <2>4. Port!ClearError
      BY <2>1, <2>2, <2>3 DEF Port!ClearError, Stopped, hartsel
  <2>. QED BY <2>4 DEF Port!PNext
<1>4. CASE Prepare
  <2>. USE <1>4 DEF Prepare, Ready
  <2>. ~busy /\ ~autoexec.data /\ ~autoexec.progbuf
      BY NoCommandUnderWay DEF SInv, SCore, Waiting, AutoexecReset
  <2>1. /\ UNCHANGED <<dmcontrol, busy, cmderr, custom_base, command,
                       debug_rom_flags, pc, reg>>
        /\ \/ \E d \in Word : dmdata' = d /\ UNCHANGED program_buffer
           \/ \E p \in Programs : program_buffer' = p /\ UNCHANGED dmdata
      BY DEF DmiWriteData, DmiWriteProgbuf, Autoexec, ctrlvars
  <2>2. UNCHANGED Stopped /\ hartsel' = hartsel
      BY <2>1 DEF Stopped, hartsel
  <2>3. Stage = "none" /\ Stage' = "none" /\ UNCHANGED ErrorName
      BY <2>1, <2>2, StageFacts DEF StageOf, ErrorName
  <2>4. \/ \E d \in Word : Port!Load(d, program_buffer)
        \/ \E p \in Programs : Port!Load(dmdata, p)
      BY <2>1, <2>2, <2>3 DEF Port!Load, Stopped, hartsel
  <2>. QED BY <2>4, InputsAssumption DEF Port!PNext, Port!Word, Word, ProgramSet
<1>. QED BY <1>1, <1>2, <1>3, <1>4 DEF Debugger

(* The debug system under a debugger that waits executes each accepted     *)
(* command exactly once and atomically, and reports it afterwards: the     *)
(* session implements the safety part of CommandPort.                      *)
THEOREM SessionImplementsPort ==
    DefaultHartIds =>
        (SessionSpec => Port!PInit /\ [][Port!PNext]_(Port!pvars))
<1>. SUFFICES ASSUME DefaultHartIds
              PROVE  SessionSpec => Port!PInit /\ [][Port!PNext]_(Port!pvars)
    OBVIOUS
<1>1. SessionInit => Port!PInit
  <2>. SUFFICES ASSUME SessionInit PROVE Port!PInit
      OBVIOUS
  <2>. USE DEF SessionInit, Init, DMInit
  <2>1. {h \in Harts : pc[h] \notin {"run", "dret"}} = {}
      OBVIOUS
  <2>2. Stage = "none" /\ ErrorName = "none"
      BY ErrorFacts DEF Stage
  <2>. QED BY <2>1, <2>2 DEF Port!PInit
<1>2. SInv /\ [SessionNext]_svars => [Port!PNext]_(Port!pvars)
  <2>. SUFFICES ASSUME SInv, [SessionNext]_svars
                PROVE  [Port!PNext]_(Port!pvars)
      OBVIOUS
  <2>1. CASE Debugger
      BY <2>1, DebuggerImplements
  <2>2. ASSUME NEW h \in Harts, HartStep(h) PROVE [Port!PNext]_(Port!pvars)
      BY <2>2, TurnImplements DEF HartStep
  <2>3. CASE UNCHANGED svars
    <3>. USE <2>3 DEF svars, vars, dmvars, ctrlvars, cmdvars
    <3>1. UNCHANGED <<Stage, ErrorName>>
        BY DEF Stage, ErrorName, Flags, hartsel
    <3>. QED BY <3>1 DEF Port!pvars, hartsel
  <2>. QED BY <2>1, <2>2, <2>3 DEF SessionNext
<1>. QED BY <1>1, <1>2, SessionInvariant, PTL DEF SessionSpec

-----------------------------------------------------------------------------
(* System bus access.                                                      *)

SBTypeOK ==
    /\ sbcs \in SbcsSet
    /\ sberror \in SUBSET {0, 1, 2}
    /\ sbaddress \in (0 .. Limb - 1) \X {0, 1}
    /\ sbdata \in CellValues \X CellValues
    /\ mem \in [Cells -> CellValues]
    /\ alive \in BOOLEAN
    /\ stream \in Cells \cup {NoStream}

(* While a stream is owed, the registers that set it up stand, no error is *)
(* pending, and sbdata0 holds the word at sbaddress.                       *)
Streaming ==
    stream # NoStream =>
        /\ Streams(sbcs) /\ Supports(sbcs) /\ sberror = ERR_NONE
        /\ stream = Address(sbaddress)
        /\ sbdata[1] = mem[stream]

SBInv == SBTypeOK /\ Streaming

(* Aligned words of memory are its cells. *)
LEMMA CellsOfMemory ==
    /\ \A a \in Nat : Aligned(a, 4) /\ InMemory(a, 4) => a \in Cells
    /\ \A a \in Cells : a \in Nat /\ Aligned(a, 4) /\ InMemory(a, 4)
    /\ NoStream \notin Cells
<1>1. ASSUME NEW a \in Nat, Aligned(a, 4), InMemory(a, 4) PROVE a \in Cells
  <2>1. a = 4 * (a \div 4) /\ a \div 4 \in Nat
      BY <1>1 DEF Aligned
  <2>2. a + 4 <= MemBytes
      BY <1>1 DEF InMemory
  <2>3. a \div 4 \in 0 .. (MemBytes \div 4) - 1
      BY <2>1, <2>2, LimbAssumption
  <2>. QED BY <2>1, <2>3 DEF Cells
<1>2. ASSUME NEW a \in Cells PROVE a \in Nat /\ Aligned(a, 4) /\ InMemory(a, 4)
  <2>1. PICK i \in 0 .. (MemBytes \div 4) - 1 : a = 4 * i
      BY <1>2 DEF Cells
  <2>. QED BY <2>1, LimbAssumption DEF Aligned, InMemory
<1>3. NoStream \notin Cells
    BY <1>2 DEF NoStream
<1>. QED BY <1>1, <1>2, <1>3

LEMMA AddressType ==
    ASSUME NEW a \in (0 .. Limb - 1) \X {0, 1}
    PROVE  Address(a) \in Nat
<1>1. a[1] \in Nat /\ (a[2] = 0 \/ a[2] = 1) /\ Limb \in Nat
    BY LimbAssumption
<1>2. 0 * Limb = 0 /\ 1 * Limb = Limb
    BY <1>1
<1>. QED BY <1>1, <1>2 DEF Address

(* The address that follows is in range. *)
LEMMA IncrementedType ==
    ASSUME SBTypeOK
    PROVE  Incremented(sbaddress) \in (0 .. Limb - 1) \X {0, 1}
<1>1. sbaddress[1] \in Nat /\ sbaddress[2] \in {0, 1} /\ AccessBytes(sbcs) \in Nat
    BY DEF SBTypeOK, AccessBytes
<1>2. (sbaddress[1] + AccessBytes(sbcs)) % Limb \in 0 .. Limb - 1
  <2>1. sbaddress[1] + AccessBytes(sbcs) \in Nat /\ Limb \in Nat \ {0}
      BY <1>1, LimbAssumption
  <2>. QED BY <2>1
<1>. QED BY <1>1, <1>2 DEF Incremented, SBTypeOK

(* Without a carry, the address that follows is the next one.              *)
LEMMA IncrementedAddress ==
    ASSUME SBTypeOK, Streams(sbcs), Supports(sbcs), Aligned(Address(sbaddress), 4),
           (Address(sbaddress) + 4) % Limb # 0
    PROVE  Address(Incremented(sbaddress)) = Address(sbaddress) + 4
<1>1. MaxBits > 0 /\ sbcs.autoincrement /\ AccessBytes(sbcs) = 4
    BY ValuesAssumption DEF Streams, Supports, AccessBytes
<1>2. Incremented(sbaddress) = <<(sbaddress[1] + 4) % Limb, sbaddress[2]>>
    BY <1>1 DEF Incremented
<1>. DEFINE x == sbaddress[1]
            y == sbaddress[2]
<1>3. x \in 0 .. Limb - 1 /\ (y = 0 \/ y = 1) /\ Limb \in Nat \ {0} /\ Limb % 8 = 0
    BY LimbAssumption DEF SBTypeOK
<1>4. Address(sbaddress) = y * Limb + x
    BY DEF Address
<1>. HIDE DEF x, y
<1>5. PICK k \in Nat : Limb = 8 * k
  <2>1. Limb = 8 * (Limb \div 8) /\ Limb \div 8 \in Nat
      BY <1>3
  <2>. QED BY <2>1
<1>6. y * Limb \in Nat /\ (y * Limb) % 4 = 0
    BY <1>3, <1>5
<1>7. x % 4 = 0
    BY <1>3, <1>4, <1>6 DEF Aligned
<1>8. x + 4 <= Limb
    BY <1>3, <1>5, <1>7
<1>9. x + 4 # Limb
  <2>. SUFFICES ASSUME x + 4 = Limb PROVE FALSE
      OBVIOUS
  <2>1. Address(sbaddress) + 4 = y * Limb + Limb
      BY <1>3, <1>4, <1>6
  <2>2. CASE y = 0
    <3>1. Address(sbaddress) + 4 = Limb
        BY <1>3, <2>1, <2>2
    <3>2. Limb % Limb = 0
        BY <1>3
    <3>. QED BY <3>1, <3>2
  <2>3. CASE y = 1
    <3>1. Address(sbaddress) + 4 = Limb + Limb
        BY <1>3, <2>1, <2>3
    <3>2. (Limb + Limb) % Limb = 0
        BY <1>3
    <3>. QED BY <3>1, <3>2
  <2>. QED BY <1>3, <2>2, <2>3
<1>10. (x + 4) % Limb = x + 4
    BY <1>3, <1>8, <1>9
<1>. QED BY <1>2, <1>3, <1>4, <1>6, <1>10 DEF Address, x, y

LEMMA SBInitOK == SBInit => SBInv
<1>. SUFFICES ASSUME SBInit PROVE SBInv
    OBVIOUS
<1>1. PICK v \in CellValues : mem = [a \in Cells |-> IF a % 8 = 0 THEN v ELSE 0]
    BY DEF SBInit
<1>2. mem \in [Cells -> CellValues]
    BY <1>1, ValuesAssumption
<1>. QED BY <1>2, ValuesAssumption
     DEF SBInit, SBInv, SBTypeOK, Streaming, SbcsSet, SbAccess, ERR_NONE, NoStream

(* What reading a word from a places in the registers. *)
LEMMA ReadType ==
    ASSUME SBTypeOK, NEW a \in (0 .. Limb - 1) \X {0, 1}, SbRead(a)
    PROVE  /\ sbdata' \in CellValues \X CellValues
           /\ sberror' \in SUBSET {0, 1, 2}
           /\ alive' \in BOOLEAN
<1>1. Address(a) \in Nat
    BY AddressType
<1>2. CASE ~Supports(sbcs)
    BY <1>2 DEF SbRead, SBTypeOK, ERR_SIZE
<1>3. CASE Supports(sbcs) /\ ~Aligned(Address(a), LoadBytes)
    BY <1>3 DEF SbRead, SBTypeOK
<1>4. CASE Supports(sbcs) /\ Aligned(Address(a), LoadBytes) /\ ~InMemory(Address(a), LoadBytes)
    BY <1>4 DEF SbRead, SBTypeOK, ERR_ADDRESS
<1>5. CASE Supports(sbcs) /\ Aligned(Address(a), LoadBytes) /\ InMemory(Address(a), LoadBytes)
  <2>1. /\ sbdata' = <<mem[Address(a)], IF sbcs.sbaccess = 3 THEN 0 ELSE sbdata[2]>>
        /\ UNCHANGED <<sberror, alive>>
      BY <1>5 DEF SbRead
  <2>2. Address(a) \in Cells
      BY <1>1, <1>5, CellsOfMemory DEF LoadBytes
  <2>3. mem[Address(a)] \in CellValues /\ sbdata[2] \in CellValues /\ 0 \in CellValues
      BY <2>2, ValuesAssumption DEF SBTypeOK
  <2>. QED BY <2>1, <2>3 DEF SBTypeOK
<1>. QED BY <1>2, <1>3, <1>4, <1>5

LEMMA ReadWord ==
    ASSUME Supports(sbcs), NEW a, SbRead(a), Address(a) \in Cells
    PROVE  sbdata'[1] = mem[Address(a)] /\ sberror' = sberror
<1>1. Aligned(Address(a), LoadBytes) /\ InMemory(Address(a), LoadBytes)
    BY CellsOfMemory DEF LoadBytes
<1>. QED BY <1>1 DEF SbRead

LEMMA WriteSbaddress0OK ==
    ASSUME SBInv, NEW v \in Addresses, DmiWriteSbaddress0(v) PROVE SBInv'
<1>. DEFINE a == <<v, sbaddress[2]>>
<1>1. a \in (0 .. Limb - 1) \X {0, 1}
    BY ValuesAssumption DEF SBInv, SBTypeOK
<1>2. /\ sbaddress' = a
      /\ IF NoPendingError /\ sbcs.readonaddr THEN SbRead(a) ELSE NoAccess
      /\ stream' = IF Streams(sbcs) /\ Supports(sbcs) /\ sberror = ERR_NONE
                      /\ Aligned(Address(a), 4) /\ InMemory(Address(a), 4)
                   THEN Address(a) ELSE NoStream
      /\ sbcs' = sbcs /\ mem' = mem
    BY DEF DmiWriteSbaddress0
<1>. HIDE DEF a
<1>3. /\ sbdata' \in CellValues \X CellValues
      /\ sberror' \in SUBSET {0, 1, 2}
      /\ alive' \in BOOLEAN
  <2>1. CASE NoPendingError /\ sbcs.readonaddr
      BY <1>1, <1>2, <2>1, ReadType DEF SBInv
  <2>2. CASE ~(NoPendingError /\ sbcs.readonaddr)
      BY <1>2, <2>2 DEF NoAccess, SBInv, SBTypeOK
  <2>. QED BY <2>1, <2>2
<1>4. ASSUME stream' # NoStream
      PROVE  /\ stream' \in Cells /\ Streams(sbcs) /\ Supports(sbcs) /\ sberror = ERR_NONE
             /\ stream' = Address(a)
    BY <1>1, <1>2, <1>4, AddressType, CellsOfMemory
<1>5. ASSUME stream' # NoStream
      PROVE  sbdata'[1] = mem[stream'] /\ sberror' = ERR_NONE
  <2>1. SbRead(a)
      BY <1>2, <1>4, <1>5 DEF NoPendingError, Streams
  <2>. QED BY <1>4, <1>5, <2>1, ReadWord
<1>6. SBTypeOK'
    BY <1>1, <1>2, <1>3, <1>4 DEF SBInv, SBTypeOK
<1>7. Streaming'
    BY <1>2, <1>4, <1>5 DEF Streaming, Streams, Supports, Address
<1>. QED BY <1>6, <1>7 DEF SBInv

LEMMA ReadSbdata0OK == ASSUME SBInv, DmiReadSbdata0 PROVE SBInv'
<1>. DEFINE a == Incremented(sbaddress)
<1>1. a \in (0 .. Limb - 1) \X {0, 1}
    BY IncrementedType DEF SBInv
<1>2. /\ IF NoPendingError
         THEN /\ sbaddress' = a
              /\ IF sbcs.readondata THEN SbRead(a) ELSE NoAccess
         ELSE UNCHANGED sbaddress /\ NoAccess
      /\ stream' = IF stream # NoStream /\ stream + 4 \in Cells /\ (stream + 4) % Limb # 0
                   THEN stream + 4 ELSE NoStream
      /\ sbcs' = sbcs /\ mem' = mem
    BY DEF DmiReadSbdata0
<1>3. ASSUME stream' # NoStream
      PROVE  /\ stream # NoStream /\ stream' = stream + 4 /\ stream' \in Cells
             /\ Streams(sbcs) /\ Supports(sbcs) /\ sberror = ERR_NONE
             /\ Address(a) = stream'
  <2>1. stream # NoStream /\ stream' = stream + 4 /\ stream' \in Cells /\ (stream + 4) % Limb # 0
      BY <1>2, <1>3
  <2>2. Streams(sbcs) /\ Supports(sbcs) /\ sberror = ERR_NONE /\ stream = Address(sbaddress)
      BY <2>1 DEF SBInv, Streaming
  <2>3. Aligned(Address(sbaddress), 4)
      BY <2>1, <2>2, CellsOfMemory DEF SBInv, SBTypeOK
  <2>4. Address(a) = Address(sbaddress) + 4
      BY <2>1, <2>2, <2>3, IncrementedAddress DEF SBInv
  <2>. QED BY <2>1, <2>2, <2>4
<1>. HIDE DEF a
<1>4. /\ sbdata' \in CellValues \X CellValues
      /\ sberror' \in SUBSET {0, 1, 2}
      /\ alive' \in BOOLEAN
      /\ sbaddress' \in (0 .. Limb - 1) \X {0, 1}
  <2>1. CASE NoPendingError /\ sbcs.readondata
      BY <1>1, <1>2, <2>1, ReadType DEF SBInv
  <2>2. CASE ~(NoPendingError /\ sbcs.readondata)
      BY <1>1, <1>2, <2>2 DEF NoAccess, SBInv, SBTypeOK
  <2>. QED BY <2>1, <2>2
<1>5. ASSUME stream' # NoStream
      PROVE  sbaddress' = a /\ sbdata'[1] = mem[stream'] /\ sberror' = ERR_NONE
  <2>1. sbaddress' = a /\ SbRead(a)
      BY <1>2, <1>3, <1>5 DEF NoPendingError, Streams
  <2>. QED BY <1>3, <1>5, <2>1, ReadWord
<1>6. SBTypeOK'
    BY <1>2, <1>3, <1>4 DEF SBInv, SBTypeOK
<1>7. Streaming'
    BY <1>2, <1>3, <1>5 DEF Streaming, Streams, Supports, Address
<1>. QED BY <1>6, <1>7 DEF SBInv

(* What a write to the bus changes. *)
LEMMA WriteEffect ==
    ASSUME SBTypeOK, NEW d \in CellValues, SbWrite(d)
    PROVE  /\ mem' \in [Cells -> CellValues]
           /\ sberror' \in SUBSET {0, 1, 2} /\ alive' \in BOOLEAN
           /\ mem' # mem =>
                /\ sberror' = sberror /\ alive' = alive
                /\ \A x \in Cells : mem'[x] # mem[x] =>
                      /\ Address(sbaddress) <= x
                      /\ x < Address(sbaddress) + AccessBytes(sbcs)
<1>. DEFINE a == Address(sbaddress)
            good == Aligned(a, AccessBytes(sbcs)) /\ InMemory(a, AccessBytes(sbcs))
<1>1. CASE ~Supports(sbcs)
    BY <1>1 DEF SbWrite, SBTypeOK, ERR_SIZE
<1>2. CASE Supports(sbcs) /\ ~good
    BY <1>2 DEF SbWrite, SBTypeOK
<1>3. CASE Supports(sbcs) /\ good
  <2>1. /\ mem' = [x \in Cells |->
                    IF x = a THEN d
                    ELSE IF sbcs.sbaccess = 3 /\ x = a + 4 THEN sbdata[2] ELSE mem[x]]
        /\ sberror' = sberror /\ alive' = alive
      BY <1>3 DEF SbWrite
  <2>2. sbdata[2] \in CellValues
      BY DEF SBTypeOK
  <2>3. mem' \in [Cells -> CellValues]
      BY <2>1, <2>2 DEF SBTypeOK
  <2>4. a \in Nat
      BY AddressType DEF SBTypeOK
  <2>5. AccessBytes(sbcs) = 4 \/ (AccessBytes(sbcs) = 8 /\ sbcs.sbaccess = 3)
      BY <1>3 DEF Supports, AccessBytes
  <2>6. sbcs.sbaccess = 3 => AccessBytes(sbcs) = 8
      BY DEF AccessBytes
  <2>. HIDE DEF a
  <2>7. ASSUME NEW x \in Cells, mem'[x] # mem[x]
        PROVE  a <= x /\ x < a + AccessBytes(sbcs)
    <3>1. x = a \/ (sbcs.sbaccess = 3 /\ x = a + 4)
        BY <2>1, <2>7
    <3>. QED BY <2>4, <2>5, <2>6, <3>1
  <2>. QED BY <2>1, <2>3, <2>7 DEF SBTypeOK, a
<1>. QED BY <1>1, <1>2, <1>3

LEMMA WriteSbdata0OK ==
    ASSUME SBInv, NEW d \in CellValues, DmiWriteSbdata0(d) PROVE SBInv'
<1>1. mem' \in [Cells -> CellValues] /\ sberror' \in SUBSET {0, 1, 2} /\ alive' \in BOOLEAN
  <2>1. CASE NoPendingError
      BY <2>1, WriteEffect DEF DmiWriteSbdata0, SBInv
  <2>2. CASE ~NoPendingError
      BY <2>2 DEF DmiWriteSbdata0, SBInv, SBTypeOK
  <2>. QED BY <2>1, <2>2
<1>2. sbaddress' \in (0 .. Limb - 1) \X {0, 1}
    BY IncrementedType DEF DmiWriteSbdata0, SBInv, SBTypeOK
<1>3. sbdata' \in CellValues \X CellValues /\ sbcs' = sbcs /\ stream' = NoStream
    BY DEF DmiWriteSbdata0, SBInv, SBTypeOK
<1>. QED BY <1>1, <1>2, <1>3 DEF SBInv, SBTypeOK, Streaming

(* The registers keep their ranges, and a stream its registers, whatever   *)
(* the debugger writes.                                                    *)
THEOREM SBInvariant == SBSpec => []SBInv
<1>1. SBInit => SBInv
    BY SBInitOK
<1>2. SBInv /\ [SBNext]_sbvars => SBInv'
  <2>. SUFFICES ASSUME SBInv, [SBNext]_sbvars PROVE SBInv'
      OBVIOUS
  <2>1. CASE UNCHANGED sbvars
      BY <2>1 DEF sbvars, sbregs, SBInv, SBTypeOK, Streaming, Streams, Supports, Address
  <2>2. ASSUME NEW c \in SbcsSet, NEW bits \in {{}, {0, 1, 2}}, DmiWriteSbcs(c, bits)
        PROVE  SBInv'
      BY <2>2 DEF DmiWriteSbcs, SBInv, SBTypeOK, Streaming
  <2>3. ASSUME NEW v \in {0, 1}, DmiWriteSbaddress1(v) PROVE SBInv'
      BY <2>3 DEF DmiWriteSbaddress1, SBInv, SBTypeOK, Streaming
  <2>4. ASSUME NEW d \in CellValues, DmiWriteSbdata1(d) PROVE SBInv'
      BY <2>4 DEF DmiWriteSbdata1, SBInv, SBTypeOK, Streaming
  <2>. QED BY <2>1, <2>2, <2>3, <2>4, WriteSbaddress0OK, ReadSbdata0OK, WriteSbdata0OK
       DEF SBNext
<1>. QED BY <1>1, <1>2, PTL DEF SBSpec

(* A block read delivers the block (debug_module.cc:252-292, 459-466).     *)
THEOREM StreamsDeliver == SBSpec => []StreamDeliversMemory
<1>1. SBInv => StreamDeliversMemory
    BY DEF SBInv, Streaming, StreamDeliversMemory
<1>. QED BY <1>1, SBInvariant, PTL

(* Memory is only ever changed by an access that is reported as good, at   *)
(* the words it names (debug_module.cc:294-311, 751-759).                  *)
THEOREM OnlyGoodWrites == SBSpec => OnlyGoodWritesReachMemory
<1>. DEFINE Good == /\ sberror = ERR_NONE /\ sberror' = ERR_NONE
                    /\ alive'
                    /\ \A a \in Cells : mem'[a] # mem[a] =>
                          Address(sbaddress) <= a
                          /\ a < Address(sbaddress) + AccessBytes(sbcs)
<1>1. SBInv /\ [SBNext]_sbvars => [mem' # mem => Good]_sbvars
  <2>. SUFFICES ASSUME SBInv, [SBNext]_sbvars, mem' # mem PROVE Good
      BY DEF sbvars
  <2>1. SBNext /\ alive
      BY DEF sbvars, SBNext
  <2>2. PICK d \in CellValues : DmiWriteSbdata0(d)
      BY <2>1 DEF SBNext, DmiWriteSbcs, DmiWriteSbaddress0, DmiWriteSbaddress1,
                  DmiReadSbdata0, DmiWriteSbdata1
  <2>3. NoPendingError /\ SbWrite(d)
      BY <2>2 DEF DmiWriteSbdata0
  <2>. QED BY <2>1, <2>3, WriteEffect DEF NoPendingError, SBInv
<1>. QED BY <1>1, SBInvariant, PTL DEF SBSpec, OnlyGoodWritesReachMemory
=============================================================================
