--------------------------- MODULE MCDebugSystem ---------------------------
(* Values of the constants for the runs of DebugSystem. *)
EXTENDS DebugSystem

MCHartSels == 0 .. NProcs           \* one hartsel beyond the last hart
MCHartId   == [h \in Harts |-> h]

Cmd(transfer, write, postexec, sizeok, regno) ==
    [register |-> TRUE, transfer |-> transfer, write |-> write,
     postexec |-> postexec, sizeok |-> sizeok, regno |-> regno]

ReadGpr      == Cmd(TRUE, FALSE, FALSE, TRUE, "gpr")
WriteGprRun  == Cmd(TRUE, TRUE, TRUE, TRUE, "gpr")
ReadFpr      == Cmd(TRUE, FALSE, TRUE, TRUE, "fpr")
WriteCsrWide == Cmd(TRUE, TRUE, TRUE, FALSE, "csr")
ReadCustom   == Cmd(TRUE, FALSE, TRUE, TRUE, "custom")
WriteCustom  == Cmd(TRUE, TRUE, FALSE, TRUE, "custom")
QuickAccess  == [ReadGpr EXCEPT !.register = FALSE]

Write(active, halt, resume, hreset, ndm, sel, ack) ==
    [value |-> [dmactive |-> active, haltreq |-> halt, resumereq |-> resume,
                hartreset |-> hreset, ndmreset |-> ndm, hartsel |-> sel],
     ackhavereset |-> ack]

(* One bit at a time, for each hart, and the deactivation of the module. *)
HartWrites(s) ==
    {Write(TRUE, FALSE, FALSE, FALSE, FALSE, s, FALSE),
     Write(TRUE, TRUE, FALSE, FALSE, FALSE, s, FALSE),
     Write(TRUE, FALSE, TRUE, FALSE, FALSE, s, FALSE)}
Deactivate == Write(FALSE, FALSE, FALSE, FALSE, FALSE, 0, FALSE)
ResetHart0 == Write(TRUE, FALSE, FALSE, TRUE, FALSE, 0, TRUE)
(* A halt request to a hart that is not there, and a reset of the system   *)
(* together with a halt request.                                           *)
HaltNone  == Write(TRUE, TRUE, FALSE, FALSE, FALSE, NProcs, FALSE)
ResetHalt == Write(TRUE, TRUE, FALSE, FALSE, TRUE, 0, FALSE)
ControlWrites ==
    UNION {HartWrites(s) : s \in Harts} \cup {Deactivate, ResetHart0, HaltNone, ResetHalt}

MCPrograms == {"incr", "trap", "loop"}

CommandForms ==
    {WriteGprRun, ReadFpr, WriteCsrWide, ReadCustom, WriteCustom, QuickAccess}

BothOrNone  == {[data |-> b, progbuf |-> b] : b \in BOOLEAN}
=============================================================================
