-------------------------------- MODULE Clint -------------------------------
(***************************************************************************)
(* clint_t: the clock, a compare register a hart and the two bits of mip   *)
(* that it drives.  A register of 64 bits is two words of Word values,     *)
(* which are stored one at a time or together.                             *)
(*                                                                         *)
(* An operator X_Fault next to X is X with the bug it names; no            *)
(* specification uses it.                                                  *)
(***************************************************************************)
EXTENDS Integers, Sequences

CONSTANTS
    nprocs,
    Word,                          \* how many values a word has (2^32)
    MTIMECMP_BASE, MTIME_BASE      \* in words; MSIP_BASE is 0

ASSUME ProcsAssumption == nprocs \in Nat \ {0}
ASSUME ClintAssumption ==
    /\ Word \in Nat /\ Word > 1
    /\ MTIMECMP_BASE \in Nat /\ MTIME_BASE \in Nat

Procs  == 0 .. nprocs - 1
Words  == 0 .. Word - 1
Values == 0 .. Word * Word - 1

Clints == [mtime : Values, mtimecmp : [Procs -> Values],
           msip : [Procs -> BOOLEAN], mtip : [Procs -> BOOLEAN]]

(* mtime is not initialized by the constructor; mtimecmp is.               *)
clint_t == [mtime : Values, mtimecmp : {[h \in Procs |-> 0]},
            msip : {[h \in Procs |-> FALSE]}, mtip : {[h \in Procs |-> FALSE]}]

increment(c, inc) ==
    LET mtime == (c.mtime + inc) % (Word * Word)
    IN  [c EXCEPT !.mtime = mtime, !.mtip = [h \in Procs |-> mtime >= c.mtimecmp[h]]]

(* The registers that a range of words falls into, if it is in one array.  *)
Within(offset, len, base, size) == base <= offset /\ offset + len <= base + size
Register(offset, len) ==
    IF Within(offset, len, 0, nprocs) THEN "msip"
    ELSE IF Within(offset, len, MTIMECMP_BASE, 2 * nprocs) THEN "mtimecmp"
    ELSE IF Within(offset, len, MTIME_BASE, 2) THEN "mtime"
    ELSE "none"

load(offset, len) == Register(offset, len) # "none"

(* Word k of the register array at base becomes words[k - offset + 1].     *)
Merged(value, base, h, offset, words) ==
    LET low  == base + 2 * h
        stored(k, old) == IF k \in offset .. offset + Len(words) - 1
                          THEN words[k - offset + 1] ELSE old
    IN  stored(low, value % Word) + Word * stored(low + 1, value \div Word)

Stored(c, offset, words) ==
    LET register == Register(offset, Len(words))
    IN  CASE register = "msip" ->
                [c EXCEPT !.msip = [h \in Procs |->
                     IF h \in offset .. offset + Len(words) - 1
                     THEN words[h - offset + 1] % 2 = 1 ELSE c.msip[h]]]
          [] register = "mtimecmp" ->
                [c EXCEPT !.mtimecmp = [h \in Procs |->
                     Merged(c.mtimecmp[h], MTIMECMP_BASE, h, offset, words)]]
          [] register = "mtime" ->
                [c EXCEPT !.mtime = Merged(c.mtime, MTIME_BASE, 0, offset, words)]
          [] OTHER -> c

(* Only when an accepted store is to a compare register are they compared. *)
store_OnlyCompares(c, offset, words) ==
    IF Register(offset, Len(words)) = "mtimecmp" THEN increment(Stored(c, offset, words), 0)
    ELSE Stored(c, offset, words)

(* A store that is refused changes nothing.                                *)
store(c, offset, words) ==
    IF Register(offset, Len(words)) = "none" THEN c
    ELSE increment(Stored(c, offset, words), 0)
=============================================================================
