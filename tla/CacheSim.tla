------------------------------ MODULE CacheSim ------------------------------
(***************************************************************************)
(* cache_sim_t and fa_cache_sim_t: the cache models a memory tracer feeds, *)
(* an instruction cache and a data cache whose miss handler is one second  *)
(* level (spike.cc).  The caches hold no data; what they must get right is *)
(* which lines are where, and that a dirty line is passed on when it goes. *)
(*                                                                         *)
(* Addresses count units of 8 bytes, the smallest line.  The way to evict  *)
(* is chosen by a shift register in the code, by any way here.             *)
(*                                                                         *)
(* An operator X_Fault next to X is X with the bug it names; no            *)
(* specification uses it.                                                  *)
(***************************************************************************)
EXTENDS Integers, FiniteSets

CONSTANTS
    MaxAddress,        \* addresses are 0 .. MaxAddress
    sets, ways, linesz,  \* of each cache
    FullyFrom,         \* more ways than this and one set: fully associative (4)
    MaxAccesses        \* the length of a run (a bound)

Caches == {"ic", "dc", "l2"}

ASSUME GeometryAssumption ==
    /\ sets \in [Caches -> Nat \ {0}] /\ ways \in [Caches -> Nat \ {0}]
    /\ linesz \in [Caches -> Nat \ {0}]
    /\ MaxAddress \in Nat /\ FullyFrom \in Nat /\ MaxAccesses \in Nat
(* A line of the second level holds whole lines of the first: the code     *)
(* does not ask for it, but splits no access.                              *)
ASSUME NestingAssumption ==
    \A c \in Caches \ {"l2"} : linesz["l2"] % linesz[c] = 0

Addresses == 0 .. MaxAddress

VARIABLES
    cache,      \* cache[c]: tags[index][way] and the counters
    accesses,   \* how many accesses were traced
    newest      \* history: of each address, where the last value stored is
vars == <<cache, accesses, newest>>

Empty == [valid |-> FALSE, dirty |-> FALSE, line |-> 0]
(* The store that missed does not mark the line.                           *)
Filled_Clean(line, store) == [valid |-> TRUE, dirty |-> FALSE, line |-> line]

Filled(line, store) == [valid |-> TRUE, dirty |-> store, line |-> line]

Line(c, addr)  == addr \div linesz[c]
Index(c, addr) == Line(c, addr) % sets[c]
Ways(c) == 1 .. ways[c]

(* All counters are 0 and all ways invalid.                                *)
init(c) ==
    [tags |-> [i \in 0 .. sets[c] - 1 |-> [w \in Ways(c) |-> Empty]],
     read_accesses |-> 0, read_misses |-> 0,
     write_accesses |-> 0, write_misses |-> 0, writebacks |-> 0]

Init ==
    /\ cache = [c \in Caches |-> init(c)]
    /\ accesses = 0
    /\ newest = [a \in Addresses |-> "memory"]

-----------------------------------------------------------------------------
(* One cache.  s is its state, w a way.                                    *)

check_tag(c, s, addr) ==
    {w \in Ways(c) : LET way == s.tags[Index(c, addr)][w]
                     IN  way.valid /\ way.line = Line(c, addr)}
Hits(c, s, addr) == check_tag(c, s, addr) # {}

FullyAssociative(c) == ways[c] > FullyFrom /\ sets[c] = 1

(* The way a new line may take.  A set takes any, an invalid way is not    *)
(* preferred; the map of a fully associative cache grows until it is full. *)
victimize(c, s, addr) ==
    LET free == {w \in Ways(c) : ~s.tags[0][w].valid}
    IN  IF FullyAssociative(c) /\ free # {}
        THEN {CHOOSE w \in free : \A v \in free : w <= v} ELSE Ways(c)

(* The caller's view of access: the state after it, whether it missed and  *)
(* what left the cache.                                                    *)
Hit(c, s, addr, store) ==
    LET w == CHOOSE v \in check_tag(c, s, addr) : TRUE
    IN  [cache  |-> [s EXCEPT !.tags[Index(c, addr)][w].dirty = @ \/ store],
         missed |-> FALSE, victim |-> Empty]

(* Any valid line is written back.                                         *)
Miss_WritesBackClean(c, s, addr, store, w) ==
    LET victim == s.tags[Index(c, addr)][w]
    IN  [cache  |-> [s EXCEPT
            !.tags[Index(c, addr)][w] = Filled(Line(c, addr), store),
            !.read_misses  = @ + (IF store THEN 0 ELSE 1),
            !.write_misses = @ + (IF store THEN 1 ELSE 0),
            !.writebacks   = @ + (IF victim.valid THEN 1 ELSE 0)],
         missed |-> TRUE, victim |-> [victim EXCEPT !.dirty = victim.valid]]

Miss(c, s, addr, store, w) ==
    LET victim == s.tags[Index(c, addr)][w]
    IN  [cache  |-> [s EXCEPT
            !.tags[Index(c, addr)][w] = Filled(Line(c, addr), store),
            !.read_misses  = @ + (IF store THEN 0 ELSE 1),
            !.write_misses = @ + (IF store THEN 1 ELSE 0),
            !.writebacks   = @ + (IF victim.dirty THEN 1 ELSE 0)],
         missed |-> TRUE, victim |-> victim]

Touched(c, s, addr, store, w) ==
    LET t == [s EXCEPT !.read_accesses  = @ + (IF store THEN 0 ELSE 1),
                       !.write_accesses = @ + (IF store THEN 1 ELSE 0)]
    IN  IF Hits(c, s, addr) THEN Hit(c, t, addr, store) ELSE Miss(c, t, addr, store, w)

Untouched(s) == [cache |-> s, missed |-> FALSE, victim |-> Empty]

DirtyAddress(c, victim) == victim.line * linesz[c]
LineAddress(c, addr)    == Line(c, addr) * linesz[c]

-----------------------------------------------------------------------------
(* access on a first-level cache: its dirty victim is written to the       *)
(* second level, then the line is read from there.                         *)

Covers(c, line, a) == Line(c, a) = line

(* Where the newest values are once victim has gone from c to the next.    *)
PassedOn(where, c, victim, to) ==
    [a \in Addresses |->
        IF victim.dirty /\ Covers(c, victim.line, a) /\ where[a] = c THEN to ELSE where[a]]

(* The outcomes of an access, over the ways it may fill.                   *)
Accesses(c, s, addr, store) ==
    {Touched(c, s, addr, store, w) : w \in victimize(c, s, addr)}
ToNext(needed, s, addr, store) ==
    IF needed THEN Accesses("l2", s, addr, store) ELSE {Untouched(s)}

access(c, addr, store) ==
    \E own \in Accesses(c, cache[c], addr, store) :
    \E back \in ToNext(own.victim.dirty, cache["l2"], DirtyAddress(c, own.victim), TRUE) :
    \E fill \in ToNext(own.missed, back.cache, LineAddress(c, addr), FALSE) :
        LET passed == PassedOn(PassedOn(PassedOn(newest, c, own.victim, "l2"),
                          "l2", back.victim, "memory"), "l2", fill.victim, "memory")
        IN  /\ cache' = [cache EXCEPT ![c] = own.cache, !["l2"] = fill.cache]
            /\ newest' = IF store THEN [passed EXCEPT ![addr] = c] ELSE passed

(* The list of tracers: each looks at the type of the access.              *)
interested(c, type) ==
    \/ c = "ic" /\ type = "FETCH"
    \/ c = "dc" /\ type \in {"LOAD", "STORE"}

trace(addr, type) ==
    /\ accesses < MaxAccesses /\ accesses' = accesses + 1
    /\ \E c \in Caches : interested(c, type) /\ access(c, addr, type = "STORE")

Next == \E addr \in Addresses, type \in {"FETCH", "LOAD", "STORE"} : trace(addr, type)

Spec == Init /\ [][Next]_vars

-----------------------------------------------------------------------------
(* Properties.                                                             *)

Dirty(c) ==
    {cache[c].tags[i][w] : i \in 0 .. sets[c] - 1, w \in Ways(c)} \cap [valid : {TRUE}, dirty : {TRUE}, line : Nat]

(* No store is lost on its way to memory: the newest value of an address   *)
(* is in a dirty line of the level that has it, until that line has been   *)
(* written back, and a dirty line of the data cache holds a newest value   *)
(* (cachesim.cc:127-153).                                                  *)
NewestIsDirty ==
    /\ \A a \in Addresses : newest[a] # "memory" =>
          \E way \in Dirty(newest[a]) : Covers(newest[a], way.line, a)
    /\ \A way \in Dirty("dc") : \E a \in Addresses :
          newest[a] = "dc" /\ Covers("dc", way.line, a)

(* What the second level counts is what the first level says it sent: a    *)
(* read for each miss and a write for each line written back, and no line  *)
(* is written back more often than it was stored to                        *)
(* (cachesim.cc:118-153).                                                  *)
CountersAgree ==
    LET ic == cache["ic"]  dc == cache["dc"]  l2 == cache["l2"]
    IN  /\ l2.read_accesses  = ic.read_misses + dc.read_misses + dc.write_misses
        /\ l2.write_accesses = dc.writebacks
        /\ ic.writebacks = 0
        /\ dc.writebacks + Cardinality(Dirty("dc")) <= dc.write_accesses
=============================================================================
