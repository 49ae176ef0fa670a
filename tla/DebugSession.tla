---------------------------- MODULE DebugSession ----------------------------
(***************************************************************************)
(* The debug system under a debugger that follows the register             *)
(* descriptions of debug_defines.h: it waits for a halt, a resume or a     *)
(* command to complete before it starts anything else, takes haltreq back  *)
(* before it resumes a hart, and starts a command only on a hart that      *)
(* dmstatus shows as halted.  It resets a hart only while it waits for     *)
(* nothing, and never resets the module again.  Nobody stores to data0 and *)
(* the program buffer over the bus but the commands themselves.            *)
(*                                                                         *)
(* Every access is one of DebugModule's; only the choice of the next       *)
(* access is the debugger's.                                               *)
(***************************************************************************)
EXTENDS DebugSystem

VARIABLE dbg   \* what the debugger is waiting for

svars == <<vars, dbg>>

Control(haltreq, resumereq, hartreset, sel) ==
    [value |-> [dmactive |-> TRUE, haltreq |-> haltreq,
                resumereq |-> resumereq, hartreset |-> hartreset,
                ndmreset |-> FALSE, hartsel |-> sel],
     ackhavereset |-> FALSE]

SessionInit ==
    /\ Init
    /\ dbg = "idle"

(* What dmstatus says of the selected hart. *)
AllHalted    == hartsel \in Harts /\ halted[hartsel]
AllResumeAck == hartsel \in Harts /\ resumeack[hartsel]

Activate ==
    /\ dbg = "idle" /\ ~dmcontrol.dmactive
    /\ WriteDmcontrol(Control(FALSE, FALSE, FALSE, 0))
    /\ dbg' = "idle"

Ready == dbg = "idle" /\ dmcontrol.dmactive

SelectHart(h) ==
    /\ Ready
    /\ WriteDmcontrol(Control(FALSE, FALSE, FALSE, h))
    /\ dbg' = "idle"

RequestHalt ==
    /\ Ready /\ ~AllHalted
    /\ WriteDmcontrol(Control(TRUE, FALSE, FALSE, hartsel))
    /\ dbg' = "halting"

(* The debugger polls dmstatus and takes the request back. *)
SeeHalted ==
    /\ dbg = "halting" /\ AllHalted
    /\ WriteDmcontrol(Control(FALSE, FALSE, FALSE, hartsel))
    /\ dbg' = "idle"

RequestResume ==
    /\ Ready /\ AllHalted
    /\ WriteDmcontrol(Control(FALSE, TRUE, FALSE, hartsel))
    /\ dbg' = "resuming"

SeeResumed ==
    /\ dbg = "resuming" /\ AllResumeAck
    /\ WriteDmcontrol(Control(FALSE, FALSE, FALSE, hartsel))
    /\ dbg' = "idle"

ResetHart ==
    /\ Ready
    /\ WriteDmcontrol(Control(FALSE, FALSE, TRUE, hartsel))
    /\ dbg' = "idle"

IssueCommand(cmd) ==
    /\ Ready /\ AllHalted /\ cmderr = CMDERR_NONE
    /\ DmiWriteCommand(cmd)
    /\ dbg' = "command"
    /\ UNCHANGED <<pc, reg>>

(* The debugger polls abstractcs, and clears an error it finds. *)
SeeCompleted ==
    /\ dbg = "command" /\ ~busy
    /\ DmiWriteAbstractcs(CmderrBits)
    /\ dbg' = "idle"
    /\ UNCHANGED <<pc, reg>>

Prepare ==
    /\ Ready
    /\ \/ \E d \in Word : DmiWriteData(d)
       \/ \E p \in Programs : DmiWriteProgbuf(p)
    /\ UNCHANGED <<pc, reg, dbg>>

Debugger ==
    \/ Activate
    \/ \E h \in Harts : SelectHart(h)
    \/ RequestHalt
    \/ SeeHalted
    \/ RequestResume
    \/ SeeResumed
    \/ ResetHart
    \/ \E cmd \in Commands : IssueCommand(cmd)
    \/ SeeCompleted
    \/ Prepare

HartStep(h) == HartTurn(h) /\ UNCHANGED dbg

SessionNext == Debugger \/ \E h \in Harts : HartStep(h)

SessionSpec == SessionInit /\ [][SessionNext]_svars

(* Every hart gets its turns; the debugger polls what it waits for.        *)
SessionFairness ==
    /\ \A h \in Harts : WF_svars(HartStep(h))
    /\ WF_svars(SeeHalted) /\ WF_svars(SeeResumed) /\ WF_svars(SeeCompleted)

FairSessionSpec == SessionSpec /\ SessionFairness

-----------------------------------------------------------------------------
(* What a debugger that waits can rely on.                                 *)

(* busy is exactly the time from the command to the return of the selected *)
(* hart: its flag is up, or it executes, or it is about to report back.    *)
InCommand(h) == GO \in Flags(h) \/ pc[h] \in CommandPC

BusyCoversCommand ==
    \A h \in Harts : InCommand(h) => busy /\ HartId[h] = hartsel

(* What a hart executes is the program of the last command, all of it and  *)
(* nothing else, up to an ebreak or the jump to the program buffer: no     *)
(* words of an earlier, longer command or of one that was refused half way *)
(* through the assembly.                                                   *)
ExecutesWholeProgram ==
    \A h \in Harts : pc[h] = "exec" =>
        /\ EndOfProgram <= AbstractSize
        /\ SubSeq(debug_abstract, 1, EndOfProgram) =
               Append(TransferWords(command),
                      IF command.postexec THEN "jal" ELSE "ebreak")

(* A request waits only at a hart in debug mode, and only while the        *)
(* debugger waits for its acknowledgement: none is left over to resume a   *)
(* hart at its next halt.                                                  *)
NoStrayResume ==
    \A h \in Harts :
        (RESUME \in Flags(h) \/ pc[h] = "resuming") =>
            pc[h] \in DebugPC /\ dbg = "resuming" /\ HartId[h] = hartsel

(* A halt the debugger waits for is reached.                               *)
HaltCompletes == dbg = "halting" ~> dbg = "idle"

(* A resume the debugger waits for is acknowledged.                        *)
ResumeCompletes == dbg = "resuming" ~> dbg = "idle"

(* A command whose program ends is completed.                              *)
CommandCompletes == dbg = "command" ~> dbg = "idle"

-----------------------------------------------------------------------------
(* The mapping to CommandPort.                                             *)

Stage ==
    CASE ~busy -> "none"
      [] busy /\ (GO \in Flags(hartsel) \/ pc[hartsel] = "exec") -> "issued"
      [] busy /\ GO \notin Flags(hartsel) /\ pc[hartsel] = "exception" -> "faulted"
      [] busy /\ GO \notin Flags(hartsel) /\ pc[hartsel] = "progbuf" -> "looping"
      [] OTHER -> "executed"

ErrorName ==
    CASE cmderr = CMDERR_NONE -> "none"
      [] cmderr = CMDERR_NOTSUP -> "notsup"
      [] cmderr = CMDERR_EXCEPTION -> "exception"
      [] OTHER -> "timing"

Port == INSTANCE CommandPort WITH
            stopped <- {h \in Harts : pc[h] \notin {"run", "dret"}},
            data <- dmdata,
            custom <- custom_base,
            program <- program_buffer,
            hart <- hartsel,
            stage <- Stage,
            error <- ErrorName,
            CanAccess <- Supported

(* Flags, ROM and assembled program together execute each accepted command *)
(* exactly once and atomically, on the hart it was issued for, and report  *)
(* it after it took effect.                                                *)
ImplementsCommandPort == Port!PSpec

=============================================================================
