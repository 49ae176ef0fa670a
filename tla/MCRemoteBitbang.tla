--------------------------- MODULE MCRemoteBitbang --------------------------
(***************************************************************************)
(* Narrow registers (DBUS has 3 bits) and clients that each use a part of  *)
(* the protocol: the first drives any scan, bit by bit; the others run     *)
(* ahead of the server, which cuts what they send at its reads, at         *)
(* Run-Test/Idle and at the end of a tick.                                 *)
(***************************************************************************)
EXTENDS RemoteBitbang

MCClients ==
    {[sends |-> {"0", "1", "2", "3", "4"}, ahead |-> 1, asks |-> 0, hangs_up |-> FALSE],
     [sends |-> {"0", "4", "R"}, ahead |-> 3, asks |-> 2, hangs_up |-> TRUE],
     [sends |-> {"2", "4", "r", "Q"}, ahead |-> 2, asks |-> 0, hangs_up |-> TRUE]}
=============================================================================
