----------------------------- MODULE MCSimLoop ------------------------------
(***************************************************************************)
(* Two harts with turns of three steps, a clock of two words of one bit,   *)
(* and a bus of 14 words: debug module, boot ROM, CLINT, memory.  In the    *)
(* second layout a memory begins just below the CLINT and reaches into it. *)
(* Stores are to the boot ROM or nothing, msip and mtimecmp of hart 0,     *)
(* mtime and a word of either memory.                                      *)
(***************************************************************************)
EXTENDS SimLoop

MCLayouts == {[base \in {12} |-> 2], [base \in {2, 12} |-> IF base = 2 THEN 4 ELSE 2]}
MCStores == {<<0>>, <<1>>, <<1, 0>>}
=============================================================================
