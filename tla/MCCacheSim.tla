----------------------------- MODULE MCCacheSim -----------------------------
(***************************************************************************)
(* An instruction cache of one line, a fully associative data cache and a  *)
(* set-associative second level whose lines hold two of theirs.  Five      *)
(* accesses are enough to store, evict from both levels and come back.     *)
(***************************************************************************)
EXTENDS CacheSim

MCSets   == [ic |-> 1, dc |-> 1, l2 |-> 2]
MCWays   == [ic |-> 1, dc |-> 2, l2 |-> 2]
MCLinesz == [ic |-> 1, dc |-> 1, l2 |-> 2]
=============================================================================
