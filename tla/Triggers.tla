------------------------------ MODULE Triggers ------------------------------
(***************************************************************************)
(* The address and data triggers of a hart: the fields of tdata1           *)
(* (mcontrol_t), what makes one match and which one is reported.           *)
(* Values are numbers of Xlen bits.                                        *)
(***************************************************************************)
EXTENDS Integers, FiniteSets

CONSTANTS
    Xlen,          \* 32 or 64 in the code
    num_triggers   \* 4 in the code

ASSUME XlenAssumption == Xlen \in Nat \ {0} /\ Xlen % 2 = 0
ASSUME TriggersAssumption == num_triggers \in Nat \ {0}

Values   == 0 .. 2 ^ Xlen - 1
Indexes  == 0 .. num_triggers - 1
NoMatch  == -1

Matches == {"EQUAL", "NAPOT", "GE", "LT", "MASK_LOW", "MASK_HIGH"}
Operations == {"FETCH", "LOAD", "STORE"}

(* on: the operations it looks at; modes: the privileges.                  *)
MControls ==
    [dmode : BOOLEAN, select : BOOLEAN, timing : {"before", "after"},
     chain : BOOLEAN, match : Matches, modes : SUBSET {"M", "S", "U"},
     on : SUBSET Operations]

(* The state after a reset: type 2, every field 0.                         *)
Disabled == [dmode |-> FALSE, select |-> FALSE, timing |-> "before",
             chain |-> FALSE, match |-> "EQUAL", modes |-> {}, on |-> {}]

BitOf(value, k) == (value \div 2 ^ k) % 2

(* cto: the number of trailing ones.                                       *)
TrailingOnes(value) ==
    CHOOSE n \in 0 .. Xlen :
        /\ \A k \in 0 .. n - 1 : BitOf(value, k) = 1
        /\ n < Xlen => BitOf(value, n) = 0

Agree(v, w, mask) == \A k \in 0 .. Xlen - 1 : BitOf(mask, k) = 1 => BitOf(v, k) = BitOf(w, k)

(* The range of a NAPOT trigger includes only the bits below the lowest 0; *)
(* MASK compares the low half of tdata2 under the mask of its high half.   *)
ValueMatches(match, value, tdata2) ==
    LET half == 2 ^ (Xlen \div 2)
        mask == tdata2 \div half
    IN  CASE match = "EQUAL" -> value = tdata2
          [] match = "NAPOT" ->
                LET range == 2 ^ TrailingOnes(tdata2)
                IN  value \div range = tdata2 \div range
          [] match = "GE" -> value >= tdata2
          [] match = "LT" -> value < tdata2
          [] match = "MASK_LOW"  -> Agree(value, tdata2, mask)
          [] match = "MASK_HIGH" -> Agree(value \div half, tdata2, mask)

TriggerFires(mc, tdata2, prv, operation, address, datum) ==
    /\ operation \in mc.on /\ prv \in mc.modes
    /\ ValueMatches(mc.match, IF mc.select THEN datum ELSE address, tdata2)

(* The lowest trigger that fires and is not chained: chain_ok is set where *)
(* a chained trigger matches and nowhere cleared, so a chained trigger has *)
(* no effect on the next one.                                              *)
trigger_match(mcontrol, tdata2, prv, debugging, operation, address, datum) ==
    LET firing == {i \in Indexes : /\ ~mcontrol[i].chain
                                   /\ TriggerFires(mcontrol[i], tdata2[i], prv,
                                                   operation, address, datum)}
    IN  IF debugging \/ firing = {} THEN NoMatch
        ELSE CHOOSE i \in firing : \A j \in firing : i <= j
=============================================================================
