---------------------------- MODULE MCInterrupts ----------------------------
(* The values that software writes to mstatus: every enable with every     *)
(* previous privilege at least once, the reserved one included.            *)
EXTENDS Interrupts

Status(m, mp, s, sp, mpp, spp) ==
    [mie |-> m, mpie |-> mp, sie |-> s, spie |-> sp, mpp |-> mpp, spp |-> spp]
MCStatusWrites ==
    {Status(FALSE, TRUE, FALSE, TRUE, PRV_U, PRV_S), Status(TRUE, FALSE, TRUE, FALSE, PRV_S, PRV_U),
     Status(FALSE, FALSE, TRUE, TRUE, PRV_M, PRV_S), Status(TRUE, TRUE, FALSE, FALSE, PRV_H, PRV_U)}
=============================================================================
