---------------------------- MODULE DebugModule ----------------------------
(***************************************************************************)
(* The Debug Module of the simulator (riscv/debug_module.cc): the state    *)
(* that sits between the debugger's DMI accesses (dmi_read, dmi_write) and *)
(* the bus accesses of the harts that run the debug ROM (store).           *)
(*                                                                         *)
(* One action per DMI register with an effect on the state and one per     *)
(* store handler.  DebugSystem composes them with the harts and a debugger.*)
(* A definition named X_Fault is X with a plausible mistake in it; none is *)
(* part of the model, they show that the properties can tell.              *)
(***************************************************************************)
EXTENDS Integers, FiniteSets, Sequences

CONSTANTS
    NProcs,          \* number of harts of the simulation (sim_t::nprocs)
    HartId,          \* mhartid of each hart (--hartids; by default its index)
    HartSels,        \* the values hartsel can hold, harts that exist or not
    ProgbufSize,     \* --progsize: words of the program buffer
    RequireAuth,     \* --debug-auth
    WordSize,        \* data words are 0 .. WordSize-1
    Programs,        \* what a debugger may put into the program buffer
    Commands,        \* the values written to the command register
    AutoexecWrites,  \* the values written to abstractauto
    DmcontrolWrites  \* the values written to dmcontrol

Harts == 0 .. NProcs - 1
Word  == 0 .. WordSize - 1

CMDERR_NONE       == {}        \* cmderr is the set of its bits that are 1
CMDERR_BUSY       == {0}
CMDERR_NOTSUP     == {1}
CMDERR_EXCEPTION  == {0, 1}
CMDERR_HALTRESUME == {2}
CmderrBits        == {0, 1, 2}

(* The two bits of a byte of debug_rom_flags. *)
GO     == "GO"
RESUME == "RESUME"

(* The instructions perform_abstract_command assembles, by what they do:   *)
(* s0 is saved or restored, the register is loaded from or stored to data0 *)
(* (directly, or through s0 and a CSR access), and the closing jump.       *)
AbstractWord ==
    {"zero", "swap_s0", "csr", "load", "store", "fload", "fstore",
     "jal", "ebreak"}
AbstractSize == 5                       \* debug_abstract_size

CommandSet ==
    [register : BOOLEAN, transfer : BOOLEAN, write : BOOLEAN,
     postexec : BOOLEAN, sizeok : BOOLEAN,
     regno : {"csr", "gpr", "fpr", "custom", "other"}]

AutoexecSet == [data : BOOLEAN, progbuf : BOOLEAN]

DmcontrolSet ==
    [dmactive : BOOLEAN, haltreq : BOOLEAN, resumereq : BOOLEAN,
     hartreset : BOOLEAN, ndmreset : BOOLEAN, hartsel : HartSels]

(* What the program buffer holds, by the way its execution ends. *)
ProgramSet == {"ebreak", "incr", "trap", "loop"}

ASSUME NProcsAssumption == NProcs \in Nat \ {0} /\ Harts \subseteq HartSels
ASSUME HartIdAssumption ==
    /\ HartId \in [Harts -> HartSels]
    /\ \A h, i \in Harts : HartId[h] = HartId[i] => h = i
ASSUME SizesAssumption ==
    /\ ProgbufSize \in Nat
    /\ WordSize \in Nat \ {0}
    /\ RequireAuth \in BOOLEAN
ASSUME InputsAssumption ==
    /\ Programs \subseteq ProgramSet
    /\ Commands \subseteq CommandSet
    /\ Commands # {}
    /\ AutoexecWrites \subseteq AutoexecSet
    /\ DmcontrolWrites \subseteq [value : DmcontrolSet, ackhavereset : BOOLEAN]

VARIABLES
    halted, resumeack, havereset,  \* one boolean per hartsel
    debug_rom_flags,               \* per hartsel, a subset of {GO, RESUME}
    dmcontrol,
    authenticated,                 \* dmstatus.authenticated
    busy, cmderr,                  \* abstractcs
    autoexec,                      \* abstractauto, of data0 and progbuf0
    command,
    debug_abstract,                \* the words of the abstract program
    dmdata,                        \* data0
    program_buffer,
    custom_base,
    halt_request                   \* processor_t::halt_request

cmdvars  == <<busy, cmderr, debug_abstract, dmdata, custom_base>>
ctrlvars == <<halted, resumeack, havereset, dmcontrol, authenticated,
              halt_request>>
dmvars   == <<ctrlvars, cmdvars, debug_rom_flags, autoexec, command,
              program_buffer>>

hartsel == dmcontrol.hartsel

DmcontrolReset ==
    [dmactive |-> FALSE, haltreq |-> FALSE, resumereq |-> FALSE,
     hartreset |-> FALSE, ndmreset |-> FALSE, hartsel |-> 0]
AutoexecReset == [data |-> FALSE, progbuf |-> FALSE]

DMTypeOK ==
    /\ halted \in [HartSels -> BOOLEAN]
    /\ resumeack \in [HartSels -> BOOLEAN]
    /\ havereset \in [HartSels -> BOOLEAN]
    /\ debug_rom_flags \in [HartSels -> SUBSET {GO, RESUME}]
    /\ dmcontrol \in DmcontrolSet
    /\ authenticated \in BOOLEAN
    /\ busy \in BOOLEAN
    /\ cmderr \in SUBSET CmderrBits
    /\ autoexec \in AutoexecSet
    /\ command \in Commands
    /\ debug_abstract \in [1 .. AbstractSize -> AbstractWord]
    /\ dmdata \in Word
    /\ program_buffer \in ProgramSet
    /\ custom_base \in Word
    /\ halt_request \in [Harts -> BOOLEAN]

(* The constructor, and the reset each processor performs in its own       *)
(* constructor.  command is not initialised.                               *)
DMInit ==
    /\ halted = [s \in HartSels |-> FALSE]
    /\ resumeack = [s \in HartSels |-> FALSE]
    /\ havereset = [s \in HartSels |-> \E h \in Harts : HartId[h] = s]
    /\ debug_rom_flags = [s \in HartSels |-> {}]
    /\ dmcontrol = DmcontrolReset
    /\ authenticated = ~RequireAuth
    /\ busy = FALSE
    /\ cmderr = CMDERR_NONE
    /\ autoexec = AutoexecReset
    /\ command \in Commands
    /\ debug_abstract = [i \in 1 .. AbstractSize |-> "zero"]
    /\ dmdata = 0
    /\ program_buffer = IF ProgbufSize = 0 THEN "ebreak" ELSE "trap"
    /\ custom_base = 0
    /\ halt_request = [h \in Harts |-> FALSE]

-----------------------------------------------------------------------------
(* Bus accesses: store().  A hart names itself by its mhartid; the debugger *)
(* selects it by its index.                                                 *)

StoreHalted_AtOnce(h) ==
    /\ halted' = [halted EXCEPT ![HartId[h]] = TRUE]
    /\ busy' = (busy /\ hartsel # HartId[h])
    /\ UNCHANGED <<resumeack, havereset, debug_rom_flags, dmcontrol,
                   authenticated, cmderr, autoexec, command, debug_abstract,
                   dmdata, program_buffer, custom_base, halt_request>>

StoreHalted_AnyHart(h) ==
    /\ halted' = [halted EXCEPT ![HartId[h]] = TRUE]
    /\ busy' = (busy /\ GO \in debug_rom_flags[HartId[h]])
    /\ UNCHANGED <<resumeack, havereset, debug_rom_flags, dmcontrol,
                   authenticated, cmderr, autoexec, command, debug_abstract,
                   dmdata, program_buffer, custom_base, halt_request>>

StoreHalted(h) ==
    /\ halted' = [halted EXCEPT ![HartId[h]] = TRUE]
    /\ busy' = (busy /\ ~(hartsel = HartId[h] /\ GO \notin debug_rom_flags[HartId[h]]))
    /\ UNCHANGED <<resumeack, havereset, debug_rom_flags, dmcontrol,
                   authenticated, cmderr, autoexec, command, debug_abstract,
                   dmdata, program_buffer, custom_base, halt_request>>

(* Clears the flag of the hart that is selected now, whoever stores. *)
StoreGoing_KeepsFlag(h) == UNCHANGED dmvars

StoreGoing(h) ==
    /\ debug_rom_flags' = [debug_rom_flags EXCEPT ![hartsel] = @ \ {GO}]
    /\ UNCHANGED <<ctrlvars, cmdvars, autoexec, command, program_buffer>>

StoreResuming_KeepsFlag(h) ==
    /\ halted' = [halted EXCEPT ![HartId[h]] = FALSE]
    /\ resumeack' = [resumeack EXCEPT ![HartId[h]] = TRUE]
    /\ UNCHANGED <<debug_rom_flags, havereset, dmcontrol, authenticated,
                   cmdvars, autoexec, command, program_buffer, halt_request>>

StoreResuming_NoAck(h) ==
    /\ halted' = [halted EXCEPT ![HartId[h]] = FALSE]
    /\ debug_rom_flags' = [debug_rom_flags EXCEPT ![HartId[h]] = @ \ {RESUME}]
    /\ UNCHANGED <<resumeack, havereset, dmcontrol, authenticated, cmdvars,
                   autoexec, command, program_buffer, halt_request>>

StoreResuming(h) ==
    /\ halted' = [halted EXCEPT ![HartId[h]] = FALSE]
    /\ resumeack' = [resumeack EXCEPT ![HartId[h]] = TRUE]
    /\ debug_rom_flags' = [debug_rom_flags EXCEPT ![HartId[h]] = @ \ {RESUME}]
    /\ UNCHANGED <<havereset, dmcontrol, authenticated, cmdvars, autoexec,
                   command, program_buffer, halt_request>>

StoreException_Overwrites(h) ==
    /\ cmderr' = CMDERR_EXCEPTION
    /\ UNCHANGED <<ctrlvars, busy, debug_abstract, dmdata, custom_base,
                   debug_rom_flags, autoexec, command, program_buffer>>

StoreException(h) ==
    /\ cmderr' = IF cmderr = CMDERR_NONE THEN CMDERR_EXCEPTION ELSE cmderr
    /\ UNCHANGED <<ctrlvars, busy, debug_abstract, dmdata, custom_base,
                   debug_rom_flags, autoexec, command, program_buffer>>

(* data0 and the program buffer are memory to the bus: whoever stores to   *)
(* them does so at once, a command that executes or not.                   *)
StoreData(d) ==
    /\ dmdata' = d
    /\ UNCHANGED <<ctrlvars, busy, cmderr, debug_abstract, custom_base,
                   debug_rom_flags, autoexec, command, program_buffer>>

StoreProgbuf(p) ==
    /\ program_buffer' = p
    /\ UNCHANGED <<ctrlvars, cmdvars, debug_rom_flags, autoexec, command>>

-----------------------------------------------------------------------------
(* perform_abstract_command *)

Supported(cmd) ==
    \/ cmd.regno = "csr" /\ ProgbufSize < 2 /\ cmd.sizeok
    \/ cmd.regno \in {"gpr", "fpr"} /\ cmd.sizeok
    \/ cmd.regno = "custom"

(* The error a command is refused with, CMDERR_NONE when it is accepted. *)
Refusal_NotBusy(cmd) ==
    CASE ~cmd.register                      -> CMDERR_NOTSUP
      [] cmd.register /\ ~halted[hartsel]   -> CMDERR_HALTRESUME
      [] OTHER -> IF cmd.transfer /\ ~Supported(cmd)
                  THEN CMDERR_NOTSUP ELSE CMDERR_NONE

Refusal(cmd) ==
    CASE busy                             -> CMDERR_BUSY
      [] ~busy /\ ~cmd.register           -> CMDERR_NOTSUP
      [] ~busy /\ cmd.register /\ ~halted[hartsel] -> CMDERR_HALTRESUME
      [] OTHER -> IF cmd.transfer /\ ~Supported(cmd)
                  THEN CMDERR_NOTSUP ELSE CMDERR_NONE

(* The words that move the register, as far as they are assembled before   *)
(* an unsupported size is noticed.                                         *)
TransferWords(cmd) ==
    CASE ~cmd.transfer -> << >>
      [] cmd.transfer /\ cmd.regno = "csr" /\ ProgbufSize < 2 ->
            IF cmd.write
            THEN IF cmd.sizeok THEN <<"swap_s0", "load", "csr", "swap_s0">>
                               ELSE <<"swap_s0">>
            ELSE IF cmd.sizeok THEN <<"swap_s0", "csr", "store", "swap_s0">>
                               ELSE <<"swap_s0", "csr">>
      [] cmd.transfer /\ cmd.regno = "gpr" /\ cmd.sizeok ->
            IF cmd.write THEN <<"load">> ELSE <<"store">>
      [] cmd.transfer /\ cmd.regno = "fpr" /\ cmd.sizeok ->
            IF cmd.write THEN <<"fload">> ELSE <<"fstore">>
      [] OTHER -> << >>

Closing_NoJump(cmd) == IF cmd.postexec THEN "zero" ELSE "ebreak"

Closing(cmd) == IF cmd.postexec THEN "jal" ELSE "ebreak"

(* debug_abstract after words were written from its start. *)
Assemble(words) ==
    [i \in 1 .. AbstractSize |->
        IF i \in 1 .. Len(words) THEN words[i] ELSE debug_abstract[i]]

(* A register command that reaches the assembly of its program. *)
Reaches(cmd) ==
    cmderr = CMDERR_NONE /\ ~busy /\ cmd.register /\ halted[hartsel]

CommandIgnored(cmd, data) ==
    /\ cmderr # CMDERR_NONE
    /\ dmdata' = data
    /\ UNCHANGED <<busy, cmderr, debug_abstract, custom_base, debug_rom_flags>>

CommandRefused(cmd, data) ==
    /\ cmderr = CMDERR_NONE
    /\ Refusal(cmd) # CMDERR_NONE
    /\ cmderr' = Refusal(cmd)
    /\ debug_abstract' = IF Reaches(cmd) THEN Assemble(TransferWords(cmd))
                                         ELSE debug_abstract
    /\ dmdata' = data
    /\ UNCHANGED <<busy, custom_base, debug_rom_flags>>

(* Odd custom registers answer at once: a write makes register N hold the  *)
(* value, a read returns it.  N = 1 stands for all of them.                *)
CommandCustom(cmd, data) ==
    /\ cmderr = CMDERR_NONE
    /\ Refusal(cmd) = CMDERR_NONE
    /\ cmd.transfer /\ cmd.regno = "custom"
    /\ IF cmd.write
       THEN custom_base' = (data - 1) % WordSize /\ dmdata' = data
       ELSE dmdata' = (1 + custom_base) % WordSize /\ UNCHANGED custom_base
    /\ UNCHANGED <<busy, cmderr, debug_abstract, debug_rom_flags>>

CommandStarted(cmd, data) ==
    /\ cmderr = CMDERR_NONE
    /\ Refusal(cmd) = CMDERR_NONE
    /\ ~(cmd.transfer /\ cmd.regno = "custom")
    /\ debug_abstract' = Assemble(Append(TransferWords(cmd), Closing(cmd)))
    /\ debug_rom_flags' = [debug_rom_flags EXCEPT ![hartsel] = @ \cup {GO}]
    /\ busy' = TRUE
    /\ dmdata' = data
    /\ UNCHANGED <<cmderr, custom_base>>

(* data is what data0 holds when the command is performed. *)
PerformAbstractCommand(cmd, data) ==
    \/ CommandIgnored(cmd, data)
    \/ CommandRefused(cmd, data)
    \/ CommandCustom(cmd, data)
    \/ CommandStarted(cmd, data)

-----------------------------------------------------------------------------
(* DMI accesses: dmi_read and dmi_write.  dmi_write is refused without     *)
(* authentication except for dmcontrol and authdata.                       *)

Autoexec(bit, data) ==
    IF autoexec[bit]
    THEN PerformAbstractCommand(command, data)
    ELSE /\ dmdata' = data
         /\ UNCHANGED <<busy, cmderr, debug_abstract, custom_base,
                        debug_rom_flags>>

BusyError ==
    /\ cmderr' = IF cmderr = CMDERR_NONE THEN CMDERR_BUSY ELSE cmderr
    /\ UNCHANGED <<busy, debug_abstract, dmdata, custom_base, debug_rom_flags>>

DmiReadData ==
    /\ IF busy THEN BusyError ELSE Autoexec("data", dmdata)
    /\ UNCHANGED <<ctrlvars, autoexec, command, program_buffer>>

DmiWriteData(d) ==
    /\ authenticated
    /\ IF busy THEN BusyError ELSE Autoexec("data", d)
    /\ UNCHANGED <<ctrlvars, autoexec, command, program_buffer>>

DmiReadProgbuf ==
    /\ ProgbufSize > 0
    /\ ~busy
    /\ Autoexec("progbuf", dmdata)
    /\ UNCHANGED <<ctrlvars, autoexec, command, program_buffer>>

DmiWriteProgbuf(p) ==
    /\ authenticated
    /\ ProgbufSize > 0
    /\ ~busy                       \* dropped without an error otherwise
    /\ Autoexec("progbuf", dmdata)
    /\ program_buffer' = p
    /\ UNCHANGED <<ctrlvars, autoexec, command>>

DmiWriteCommand(cmd) ==
    /\ authenticated
    /\ command' = cmd
    /\ PerformAbstractCommand(cmd, dmdata)
    /\ UNCHANGED <<ctrlvars, autoexec, program_buffer>>

DmiWriteAbstractcs(bits) ==
    /\ authenticated
    /\ cmderr' = cmderr \ bits
    /\ UNCHANGED <<ctrlvars, busy, debug_abstract, dmdata, custom_base,
                   debug_rom_flags, autoexec, command, program_buffer>>

DmiWriteAbstractauto(a) ==
    /\ authenticated
    /\ autoexec' = a
    /\ UNCHANGED <<ctrlvars, cmdvars, debug_rom_flags, command, program_buffer>>

DmiWriteAuthdata(right) ==
    /\ RequireAuth
    /\ authenticated' = right
    /\ UNCHANGED <<halted, resumeack, havereset, dmcontrol, halt_request,
                   cmdvars, debug_rom_flags, autoexec, command, program_buffer>>

(* A read of dmcontrol refreshes haltreq from the selected processor. *)
DmiReadDmcontrol ==
    /\ hartsel \in Harts
    /\ dmcontrol' = [dmcontrol EXCEPT !.haltreq = halt_request[hartsel]]
    /\ UNCHANGED <<halted, resumeack, havereset, authenticated, halt_request,
                   cmdvars, debug_rom_flags, autoexec, command, program_buffer>>

-----------------------------------------------------------------------------
(* A write of dmcontrol: reset() when dmactive rises, then hart control.   *)

Activates(v) == ~dmcontrol.dmactive /\ v.value.dmactive

AuthenticatedBy(v) == IF Activates(v) THEN ~RequireAuth ELSE authenticated

(* Without dmactive the fields keep what was written last, and apply again. *)
Written(v) ==
    IF v.value.dmactive THEN v.value
                        ELSE [dmcontrol EXCEPT !.dmactive = FALSE]

(* The processors the write resets: processor_t::reset, proc_reset. *)
HartsResetBy(v) ==
    {h \in Harts : /\ AuthenticatedBy(v)
                   /\ \/ Written(v).ndmreset
                      \/ Written(v).hartreset /\ Written(v).hartsel = h}

ResetModule(v) ==
    /\ busy' = (busy /\ ~Activates(v))
    /\ cmderr' = IF Activates(v) THEN CMDERR_NONE ELSE cmderr
    /\ autoexec' = IF Activates(v) THEN AutoexecReset ELSE autoexec
    /\ authenticated' = AuthenticatedBy(v)

HaltRequestsLeftBy_NoClear(v) == halt_request

HaltRequestsLeftBy(v) ==
    IF Activates(v) THEN [h \in Harts |-> FALSE] ELSE halt_request

(* The halt request of the selected processor, if there is one, follows    *)
(* the field.                                                              *)
HaltRequestsAfter(v) ==
    [h \in Harts |-> IF h = Written(v).hartsel THEN Written(v).haltreq
                                               ELSE HaltRequestsLeftBy(v)[h]]

Resumes(v, s) == Written(v).resumereq /\ s = Written(v).hartsel /\ s \in Harts

Resets_NdmOnly(v, s) ==
    Written(v).ndmreset /\ \E h \in HartsResetBy(v) : HartId[h] = s

Resets(v, s) == \E h \in HartsResetBy(v) : HartId[h] = s

(* ackhavereset is served first, the resets of the same write after it.    *)
HaveresetAfter_AckLast(v, s) ==
    /\ Resets(v, s) \/ havereset[s]
    /\ ~(v.value.dmactive /\ v.ackhavereset /\ s = Written(v).hartsel)

HaveresetAfter(v, s) ==
    \/ Resets(v, s)
    \/ /\ havereset[s]
       /\ ~(v.value.dmactive /\ v.ackhavereset /\ s = Written(v).hartsel)

HartControl(v) ==
    /\ dmcontrol' = Written(v)
    /\ halt_request' = HaltRequestsAfter(v)
    /\ debug_rom_flags' = [s \in HartSels |->
            IF Resumes(v, s) THEN debug_rom_flags[s] \cup {RESUME}
                             ELSE debug_rom_flags[s]]
    /\ resumeack' = [s \in HartSels |-> resumeack[s] /\ ~Resumes(v, s)]
    /\ halted' = [s \in HartSels |-> halted[s] /\ ~Resets(v, s)]
    /\ havereset' = [s \in HartSels |-> HaveresetAfter(v, s)]

DmiWriteDmcontrol(v) ==
    /\ ResetModule(v)
    /\ IF AuthenticatedBy(v)
       THEN HartControl(v)
       ELSE /\ dmcontrol' =
                [(IF Activates(v) THEN DmcontrolReset ELSE dmcontrol)
                    EXCEPT !.dmactive = v.value.dmactive]
            /\ halt_request' = HaltRequestsLeftBy(v)
            /\ UNCHANGED <<debug_rom_flags, resumeack, halted, havereset>>
    /\ UNCHANGED <<command, debug_abstract, dmdata, program_buffer, custom_base>>

-----------------------------------------------------------------------------
(* The accesses that leave the harts alone. *)
DmiRegister ==
    \/ DmiReadData
    \/ \E d \in Word : DmiWriteData(d)
    \/ DmiReadProgbuf
    \/ \E p \in Programs : DmiWriteProgbuf(p)
    \/ \E c \in Commands : DmiWriteCommand(c)
    \/ \E bits \in SUBSET CmderrBits : DmiWriteAbstractcs(bits)
    \/ \E a \in AutoexecWrites : DmiWriteAbstractauto(a)
    \/ \E right \in BOOLEAN : DmiWriteAuthdata(right)
    \/ DmiReadDmcontrol
============================================================================
