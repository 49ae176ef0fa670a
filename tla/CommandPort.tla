---------------------------- MODULE CommandPort ----------------------------
(***************************************************************************)
(* What the abstract commands promise to a debugger that waits: a command  *)
(* accepted for a stopped hart is executed exactly once, on that hart, as  *)
(* one atomic step on its register and data0, and is then reported with or *)
(* without an exception.  There is no debug ROM here, no flag and no       *)
(* program in memory.  DebugSession implements this specification.         *)
(***************************************************************************)
EXTENDS Integers

CONSTANTS
    Harts,        \* the harts of the system
    WordSize,     \* words are 0 .. WordSize-1
    CanAccess(_)  \* the transfers the port supports, by command

VARIABLES
    stopped,   \* the harts in debug mode
    reg,       \* the register of each hart
    data,      \* the data register of the port
    custom,    \* the base of the custom registers
    program,   \* the program buffer
    hart,      \* the hart commands go to
    command,   \* the last command
    stage,     \* what has become of it
    error      \* "none", "notsup" or "exception"

pvars == <<stopped, reg, data, custom, program, hart, command, stage, error>>

Word == 0 .. WordSize - 1

Accept == stage = "none" /\ hart \in stopped /\ error = "none"

(* A hart that is not stopped writes its register and may stop.            *)
Run(h) ==
    /\ h \notin stopped
    /\ \E d \in Word : reg' = [reg EXCEPT ![h] = d]
    /\ stopped' \in {stopped, stopped \cup {h}}
    /\ UNCHANGED <<data, custom, program, hart, command, stage, error>>

Resume ==
    /\ stage = "none" /\ hart \in stopped
    /\ stopped' = stopped \ {hart}
    /\ UNCHANGED <<reg, data, custom, program, hart, command, stage, error>>

Reset ==
    /\ stage = "none"
    /\ stopped' = stopped \ {hart}
    /\ reg' = [reg EXCEPT ![hart] = 0]
    /\ UNCHANGED <<data, custom, program, hart, command, stage, error>>

Select(h) ==
    /\ stage = "none"
    /\ hart' = h
    /\ UNCHANGED <<stopped, reg, data, custom, program, command, stage, error>>

Load(d, p) ==
    /\ stage = "none"
    /\ data' = d /\ program' = p
    /\ UNCHANGED <<stopped, reg, custom, hart, command, stage, error>>

ClearError ==
    /\ stage = "none"
    /\ error' = "none"
    /\ UNCHANGED <<stopped, reg, data, custom, program, hart, command, stage>>

Refuse(cmd) ==
    /\ Accept
    /\ cmd.register => cmd.transfer /\ ~CanAccess(cmd)
    /\ command' = cmd
    /\ error' = "notsup"
    /\ UNCHANGED <<stopped, reg, data, custom, program, hart, stage>>

AccessCustom(cmd) ==
    /\ Accept
    /\ cmd.register /\ cmd.transfer /\ cmd.regno = "custom"
    /\ command' = cmd
    /\ IF cmd.write
       THEN custom' = (data - 1) % WordSize /\ data' = data
       ELSE data' = (custom + 1) % WordSize /\ custom' = custom
    /\ UNCHANGED <<stopped, reg, program, hart, stage, error>>

Issue(cmd) ==
    /\ Accept
    /\ cmd.register
    /\ cmd.transfer => CanAccess(cmd) /\ cmd.regno # "custom"
    /\ command' = cmd
    /\ stage' = "issued"
    /\ UNCHANGED <<stopped, reg, data, custom, program, hart, error>>

Transferred ==
    IF command.transfer /\ command.write THEN data ELSE reg[hart]

ExecuteFully ==
    /\ stage = "issued"
    /\ data' = IF command.transfer /\ ~command.write THEN reg[hart] ELSE data
    /\ reg' = [reg EXCEPT ![hart] =
                IF command.postexec /\ program = "incr"
                THEN (Transferred + 1) % WordSize ELSE Transferred]
    /\ stage' = CASE command.postexec /\ program = "trap" -> "faulted"
                  [] command.postexec /\ program = "loop" -> "looping"
                  [] OTHER -> "executed"
    /\ UNCHANGED <<stopped, custom, program, hart, command, error>>

(* Any transfer may raise an exception, before it moves anything.          *)
ExecuteFault ==
    /\ stage = "issued"
    /\ command.transfer
    /\ stage' = "faulted"
    /\ UNCHANGED <<stopped, reg, data, custom, program, hart, command, error>>

RaiseError ==
    /\ stage = "faulted"
    /\ stage' = "executed"
    /\ error' = "exception"
    /\ UNCHANGED <<stopped, reg, data, custom, program, hart, command>>

Report ==
    /\ stage = "executed"
    /\ stage' = "none"
    /\ UNCHANGED <<stopped, reg, data, custom, program, hart, command, error>>

Finish == ExecuteFully \/ ExecuteFault \/ RaiseError \/ Report

PInit ==
    /\ stopped = {}
    /\ reg = [h \in Harts |-> 0]
    /\ data = 0 /\ custom = 0
    /\ stage = "none" /\ error = "none"

PNext ==
    \/ \E h \in Harts : Run(h) \/ Select(h)
    \/ Resume
    \/ Reset
    \/ \E d \in Word : Load(d, program)
    \/ \E p \in {"ebreak", "incr", "trap", "loop"} : Load(data, p)
    \/ ClearError
    \/ \E cmd \in [register : BOOLEAN, transfer : BOOLEAN, write : BOOLEAN,
                   postexec : BOOLEAN, sizeok : BOOLEAN,
                   regno : {"csr", "gpr", "fpr", "custom", "other"}] :
            Refuse(cmd) \/ AccessCustom(cmd) \/ Issue(cmd)
    \/ Finish

(* A command that was issued is executed and reported. *)
PSpec == PInit /\ [][PNext]_pvars /\ WF_pvars(Finish)
=============================================================================
