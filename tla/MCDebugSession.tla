--------------------------- MODULE MCDebugSession ---------------------------
(* Values of the constants for the runs of DebugSession. *)
EXTENDS DebugSession

MCHartSels == 0 .. NProcs - 1
MCHartId   == [h \in Harts |-> h]

Cmd(transfer, write, postexec, sizeok, regno) ==
    [register |-> TRUE, transfer |-> transfer, write |-> write,
     postexec |-> postexec, sizeok |-> sizeok, regno |-> regno]

ReadGpr     == Cmd(TRUE, FALSE, FALSE, TRUE, "gpr")
WriteGprRun == Cmd(TRUE, TRUE, TRUE, TRUE, "gpr")
WideCsr     == Cmd(TRUE, FALSE, FALSE, FALSE, "csr")
WriteCsr    == Cmd(TRUE, TRUE, TRUE, TRUE, "csr")
ReadFprRun  == Cmd(TRUE, FALSE, TRUE, TRUE, "fpr")
SessionCommands == {ReadGpr, WriteGprRun, WriteCsr, WideCsr, ReadFprRun}
SessionPrograms == {"incr", "trap"}
NoAutoexec      == {[data |-> FALSE, progbuf |-> FALSE]}
NoWrites        == {}
=============================================================================
