---------------------------- MODULE MCSystemBus ----------------------------
(* Values of the constants for the runs of SystemBus. *)
EXTENDS SystemBus

TwoValues     == {0, 1}
WordAddresses == {4 * i : i \in 0 .. (Limb \div 4) - 1}
SomeAddresses == WordAddresses \cup {2}
=============================================================================
