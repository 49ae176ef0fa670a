--------------------------- MODULE CacheSim_proofs --------------------------
(***************************************************************************)
(* No store is lost in the cache models and their counters agree, for any  *)
(* number of sets, ways and lines of any nested sizes.                     *)
(***************************************************************************)
EXTENDS CacheSim, NumberTheorems

-----------------------------------------------------------------------------
(* The inductive invariant.                                                *)

WayStates == [valid : BOOLEAN, dirty : BOOLEAN, line : Nat]
Sets(c) == 0 .. sets[c] - 1

CacheStates(c) ==
    [tags : [Sets(c) -> [Ways(c) -> WayStates]],
     read_accesses : Nat, read_misses : Nat,
     write_accesses : Nat, write_misses : Nat, writebacks : Nat]

(* A valid line is in the set of its number, in one way of it. *)
Placed(c, s) ==
    \A i \in Sets(c), w \in Ways(c) :
        /\ s.tags[i][w].dirty => s.tags[i][w].valid
        /\ s.tags[i][w].valid => s.tags[i][w].line % sets[c] = i
Unique(c, s) ==
    \A i \in Sets(c), v \in Ways(c), w \in Ways(c) :
        s.tags[i][v].valid /\ s.tags[i][w].valid /\ s.tags[i][v].line = s.tags[i][w].line
            => v = w

CacheOK(c, s) == s \in CacheStates(c) /\ Placed(c, s) /\ Unique(c, s)

DirtyIn(c, s) ==
    {s.tags[i][w] : i \in Sets(c), w \in Ways(c)}
        \cap [valid : {TRUE}, dirty : {TRUE}, line : Nat]

(* Where the newest values are, of every address. *)
Tracked(where, dcDirty, l2Dirty) ==
    /\ where \in [Addresses -> {"memory", "dc", "l2"}]
    /\ \A a \in Addresses : where[a] = "dc" => Filled(Line("dc", a), TRUE) \in dcDirty
    /\ \A a \in Addresses : where[a] = "l2" => Filled(Line("l2", a), TRUE) \in l2Dirty
    /\ \A way \in dcDirty : \E a \in Addresses : where[a] = "dc" /\ Line("dc", a) = way.line

Counts ==
    /\ cache["l2"].read_accesses = cache["ic"].read_misses
            + cache["dc"].read_misses + cache["dc"].write_misses
    /\ cache["l2"].write_accesses = cache["dc"].writebacks
    /\ cache["ic"].writebacks = 0
    /\ IsFiniteSet(DirtyIn("dc", cache["dc"]))
    /\ cache["dc"].writebacks + Cardinality(DirtyIn("dc", cache["dc"]))
            <= cache["dc"].write_accesses

CInv ==
    /\ cache = [c \in Caches |-> cache[c]]
    /\ \A c \in Caches : CacheOK(c, cache[c])
    /\ DirtyIn("ic", cache["ic"]) = {}
    /\ Tracked(newest, DirtyIn("dc", cache["dc"]), DirtyIn("l2", cache["l2"]))
    /\ Counts

-----------------------------------------------------------------------------
(* One cache.                                                              *)

LEMMA Geometry ==
    ASSUME NEW c \in Caches
    PROVE  /\ sets[c] \in Nat \ {0} /\ linesz[c] \in Nat \ {0} /\ ways[c] \in Nat \ {0}
           /\ \A n \in Nat : n % sets[c] \in Sets(c) /\ n \div linesz[c] \in Nat
<1>1. sets[c] \in Nat \ {0} /\ linesz[c] \in Nat \ {0} /\ ways[c] \in Nat \ {0}
    BY GeometryAssumption
<1>2. ASSUME NEW k \in Nat \ {0}, NEW n \in Nat
      PROVE  n % k \in 0 .. k - 1 /\ n \div k \in Nat
    OBVIOUS
<1>. QED BY <1>1, <1>2 DEF Sets

Dirties == [valid : {TRUE}, dirty : {TRUE}, line : Nat]

LEMMA DirtyMember ==
    ASSUME NEW c, NEW s, NEW way
    PROVE  way \in DirtyIn(c, s) <=>
              way \in Dirties /\ \E i \in Sets(c), w \in Ways(c) : way = s.tags[i][w]
<1>. DEFINE All == {s.tags[i][w] : i \in Sets(c), w \in Ways(c)}
<1>1. way \in All <=> \E i \in Sets(c), w \in Ways(c) : way = s.tags[i][w]
  <2>1. ASSUME way \in All PROVE \E i \in Sets(c), w \in Ways(c) : way = s.tags[i][w]
      BY <2>1
  <2>2. ASSUME NEW i \in Sets(c), NEW w \in Ways(c), way = s.tags[i][w] PROVE way \in All
      BY <2>2
  <2>. HIDE DEF All
  <2>. QED BY <2>1, <2>2
<1>2. DirtyIn(c, s) = All \cap Dirties
    BY DEF DirtyIn, Dirties
<1>. HIDE DEF All
<1>. QED BY <1>1, <1>2

(* Another line, or another state of the same line, in one way. *)
LEMMA Replaced ==
    ASSUME NEW c \in Caches, NEW s, CacheOK(c, s), NEW t \in CacheStates(c),
           NEW i \in Sets(c), NEW w \in Ways(c), NEW x \in WayStates,
           x.valid, x.line % sets[c] = i,
           \A v \in Ways(c) : v # w /\ s.tags[i][v].valid => s.tags[i][v].line # x.line,
           \A j \in Sets(c), v \in Ways(c) :
              t.tags[j][v] = IF j = i /\ v = w THEN x ELSE s.tags[j][v]
    PROVE  /\ CacheOK(c, t)
           /\ DirtyIn(c, t) = (DirtyIn(c, s) \ {s.tags[i][w]})
                                \cup (IF x.dirty THEN {x} ELSE {})
<1>1. Placed(c, t)
    BY DEF CacheOK, Placed
<1>2. Unique(c, t)
    BY DEF CacheOK, Unique
<1>3. \A way \in WayStates : way \in Dirties <=> way.valid /\ way.dirty
    BY DEF WayStates, Dirties
<1>4. \A j \in Sets(c), v \in Ways(c) : s.tags[j][v] \in WayStates
    BY DEF CacheOK, CacheStates
<1>5. \A way : way \in DirtyIn(c, s) <=>
          way \in Dirties /\ \E j \in Sets(c), v \in Ways(c) : way = s.tags[j][v]
    BY DirtyMember
<1>6. \A way : way \in DirtyIn(c, t) <=>
          way \in Dirties /\ \E j \in Sets(c), v \in Ways(c) : way = t.tags[j][v]
    BY DirtyMember
<1>7. ASSUME NEW j \in Sets(c), NEW v \in Ways(c), s.tags[j][v] \in Dirties,
             s.tags[j][v] = s.tags[i][w]
      PROVE  j = i /\ v = w
  <2>1. s.tags[j][v].valid
      BY <1>3, <1>4, <1>7
  <2>2. s.tags[j][v].line % sets[c] = j /\ s.tags[i][w].line % sets[c] = i
      BY <1>7, <2>1 DEF CacheOK, Placed
  <2>. QED BY <1>7, <2>1, <2>2 DEF CacheOK, Unique
<1>8. ASSUME NEW way \in DirtyIn(c, t)
      PROVE  way \in DirtyIn(c, s) \ {s.tags[i][w]} \/ (x.dirty /\ way = x)
  <2>1. PICK j \in Sets(c), v \in Ways(c) : way = t.tags[j][v]
      BY <1>6
  <2>2. CASE j = i /\ v = w
      BY <1>3, <1>6, <2>1, <2>2
  <2>3. CASE ~(j = i /\ v = w)
      BY <1>5, <1>6, <1>7, <2>1, <2>3
  <2>. QED BY <2>2, <2>3
<1>9. ASSUME NEW way \in DirtyIn(c, s), way # s.tags[i][w] PROVE way \in DirtyIn(c, t)
    BY <1>5, <1>6, <1>9
<1>10. x.dirty => x \in DirtyIn(c, t)
    BY <1>3, <1>6
<1>. QED BY <1>1, <1>2, <1>8, <1>9, <1>10 DEF CacheOK

(* What leaves a cache, and what a store marks. *)
Gone(victim) == IF victim.dirty THEN {victim} ELSE {}
Marked(store, line) == IF store THEN {Filled(line, TRUE)} ELSE {}

LEMMA Markings ==
    /\ \A victim : victim.dirty => Gone(victim) = {victim}
    /\ \A victim : ~victim.dirty => Gone(victim) = {}
    /\ \A store, line : store => Marked(store, line) = {Filled(line, TRUE)}
    /\ \A store, line : ~store => Marked(store, line) = {}
BY DEF Gone, Marked

(* The outcome of an access of a cache. *)
Outcome(c, s, addr, store, o) ==
    /\ CacheOK(c, o.cache) /\ o.missed \in BOOLEAN /\ o.victim \in WayStates
    /\ o.victim.dirty => /\ o.missed /\ o.victim \in DirtyIn(c, s)
                         /\ o.victim # Filled(Line(c, addr), TRUE)
    /\ DirtyIn(c, o.cache) =
            (DirtyIn(c, s) \ Gone(o.victim)) \cup Marked(store, Line(c, addr))
    /\ o.cache.read_accesses  = s.read_accesses + (IF store THEN 0 ELSE 1)
    /\ o.cache.write_accesses = s.write_accesses + (IF store THEN 1 ELSE 0)
    /\ o.cache.read_misses  = s.read_misses + (IF o.missed /\ ~store THEN 1 ELSE 0)
    /\ o.cache.write_misses = s.write_misses + (IF o.missed /\ store THEN 1 ELSE 0)
    /\ o.cache.writebacks = s.writebacks + (IF o.victim.dirty THEN 1 ELSE 0)

CountedAccess(s, store) ==
    [s EXCEPT !.read_accesses  = @ + (IF store THEN 0 ELSE 1),
              !.write_accesses = @ + (IF store THEN 1 ELSE 0)]

(* Counting the access leaves the rest. *)
LEMMA Counted ==
    ASSUME NEW c, NEW s, CacheOK(c, s), NEW store \in BOOLEAN, NEW t,
           t = CountedAccess(s, store)
    PROVE  /\ t \in CacheStates(c) /\ t.tags = s.tags
           /\ t.read_accesses = s.read_accesses + (IF store THEN 0 ELSE 1)
           /\ t.write_accesses = s.write_accesses + (IF store THEN 1 ELSE 0)
           /\ t.read_misses = s.read_misses /\ t.write_misses = s.write_misses
           /\ t.writebacks = s.writebacks
<1>1. PICK ra \in Nat : ra = s.read_accesses + (IF store THEN 0 ELSE 1)
    BY DEF CacheOK, CacheStates
<1>2. PICK wa \in Nat : wa = s.write_accesses + (IF store THEN 1 ELSE 0)
    BY DEF CacheOK, CacheStates
<1>3. t = [s EXCEPT !.read_accesses = ra, !.write_accesses = wa]
    BY <1>1, <1>2 DEF CountedAccess
<1>4. s \in CacheStates(c)
    BY DEF CacheOK
<1>. HIDE DEF Sets, Ways
<1>. QED BY <1>1, <1>2, <1>3, <1>4 DEF CacheStates

LEMMA HitOK ==
    ASSUME NEW c \in Caches, NEW s, CacheOK(c, s), NEW addr \in Nat, NEW store \in BOOLEAN,
           NEW w, Hits(c, s, addr), NEW o, o = Touched(c, s, addr, store, w)
    PROVE  Outcome(c, s, addr, store, o)
<1>1. PICK t : t = CountedAccess(s, store)
    OBVIOUS
<1>2. /\ t \in CacheStates(c) /\ t.tags = s.tags
      /\ t.read_accesses = s.read_accesses + (IF store THEN 0 ELSE 1)
      /\ t.write_accesses = s.write_accesses + (IF store THEN 1 ELSE 0)
      /\ t.read_misses = s.read_misses /\ t.write_misses = s.write_misses
      /\ t.writebacks = s.writebacks
    BY <1>1, Counted
<1>3. PICK i \in Sets(c) : i = Index(c, addr)
    BY Geometry DEF Index, Line
<1>4. PICK line \in Nat : line = Line(c, addr)
    BY Geometry DEF Line
<1>5. check_tag(c, t, addr) = check_tag(c, s, addr)
    BY <1>2 DEF check_tag
<1>6. PICK v : v = CHOOSE u \in check_tag(c, t, addr) : TRUE
    OBVIOUS
<1>7. v \in check_tag(c, s, addr)
    BY <1>5, <1>6 DEF Hits
<1>8. v \in Ways(c) /\ s.tags[i][v].valid /\ s.tags[i][v].line = line
    BY <1>3, <1>4, <1>7 DEF check_tag
<1>9. PICK old \in WayStates : old = s.tags[i][v]
    BY <1>8 DEF CacheOK, CacheStates
<1>10. PICK x : x = [old EXCEPT !.dirty = @ \/ store]
    OBVIOUS
<1>11. x \in WayStates /\ x.valid /\ x.line = line /\ (x.dirty <=> old.dirty \/ store)
    BY <1>8, <1>9, <1>10 DEF WayStates
<1>12. PICK r : r = [t EXCEPT !.tags[i][v].dirty = @ \/ store]
    OBVIOUS
<1>13. r = [t EXCEPT !.tags[i][v] = x]
    BY <1>2, <1>3, <1>8, <1>9, <1>10, <1>12 DEF CacheStates, WayStates
<1>14. /\ r \in CacheStates(c)
       /\ \A j \in Sets(c), u \in Ways(c) :
              r.tags[j][u] = IF j = i /\ u = v THEN x ELSE s.tags[j][u]
       /\ r.read_accesses = t.read_accesses /\ r.write_accesses = t.write_accesses
       /\ r.read_misses = t.read_misses /\ r.write_misses = t.write_misses
       /\ r.writebacks = t.writebacks
    BY <1>2, <1>3, <1>8, <1>11, <1>13 DEF CacheStates
<1>15. o = [cache |-> r, missed |-> FALSE, victim |-> Empty]
    BY <1>1, <1>3, <1>6, <1>12 DEF Touched, Hit, CountedAccess
<1>16. /\ CacheOK(c, r)
       /\ DirtyIn(c, r) = (DirtyIn(c, s) \ {old}) \cup (IF x.dirty THEN {x} ELSE {})
  <2>1. x.line % sets[c] = i
      BY <1>3, <1>4, <1>11 DEF Index
  <2>2. \A u \in Ways(c) : u # v /\ s.tags[i][u].valid => s.tags[i][u].line # x.line
      BY <1>8, <1>11 DEF CacheOK, Unique
  <2>. QED BY <1>8, <1>9, <1>11, <1>14, <2>1, <2>2, Replaced
<1>17. DirtyIn(c, r) = DirtyIn(c, s) \cup Marked(store, line)
  <2>1. old \in DirtyIn(c, s) <=> old.dirty
    <3>1. old \in Dirties <=> old.dirty
        BY <1>8, <1>9 DEF Dirties, WayStates
    <3>. QED BY <1>8, <1>9, <3>1, DirtyMember
  <2>2. x.dirty => x = Filled(line, TRUE)
      BY <1>11 DEF WayStates, Filled
  <2>3. old.dirty => old = Filled(line, TRUE)
      BY <1>8, <1>9 DEF WayStates, Filled
  <2>4. DirtyIn(c, r) = (DirtyIn(c, s) \ {old}) \cup (IF x.dirty THEN {x} ELSE {})
      BY <1>16
  <2>5. CASE store
    <3>1. Marked(store, line) = {x} /\ x.dirty
        BY <1>11, <2>2, <2>5, Markings
    <3>2. old \in DirtyIn(c, s) => old = x
        BY <2>1, <2>2, <2>3, <3>1
    <3>. QED BY <2>4, <3>1, <3>2
  <2>6. CASE ~store
    <3>1. Marked(store, line) = {}
        BY <2>6, Markings
    <3>2. CASE old.dirty
        BY <1>11, <2>1, <2>2, <2>3, <2>4, <3>1, <3>2
    <3>3. CASE ~old.dirty
      <4>1. ~x.dirty
          BY <1>11, <2>6, <3>3
      <4>. QED BY <2>1, <2>4, <3>1, <3>3, <4>1
    <3>. QED BY <3>2, <3>3
  <2>. QED BY <2>5, <2>6
<1>18. Empty \in WayStates /\ Empty.dirty = FALSE
    BY DEF Empty, WayStates
<1>19. DirtyIn(c, s) \ {} = DirtyIn(c, s)
    OBVIOUS
<1>20. /\ o.cache = r /\ o.missed = FALSE /\ o.victim = Empty
    BY <1>15
<1>21. /\ o.cache.read_misses = s.read_misses + 0
       /\ o.cache.write_misses = s.write_misses + 0
       /\ o.cache.writebacks = s.writebacks + 0
       /\ o.cache.read_accesses = s.read_accesses + (IF store THEN 0 ELSE 1)
       /\ o.cache.write_accesses = s.write_accesses + (IF store THEN 1 ELSE 0)
  <2>1. s.read_misses \in Nat /\ s.write_misses \in Nat /\ s.writebacks \in Nat
      BY DEF CacheOK, CacheStates
  <2>. QED BY <1>2, <1>14, <1>20, <2>1
<1>22. /\ o.missed \in BOOLEAN /\ o.victim \in WayStates /\ ~o.victim.dirty
       /\ CacheOK(c, o.cache)
       /\ DirtyIn(c, o.cache) =
              (DirtyIn(c, s) \ Gone(o.victim)) \cup Marked(store, line)
  <2>1. Gone(o.victim) = {}
      BY <1>18, <1>20, Markings
  <2>. QED BY <1>16, <1>17, <1>18, <1>19, <1>20, <2>1
<1>. QED BY <1>4, <1>20, <1>21, <1>22 DEF Outcome

LEMMA MissOK ==
    ASSUME NEW c \in Caches, NEW s, CacheOK(c, s), NEW addr \in Nat, NEW store \in BOOLEAN,
           NEW w \in Ways(c), ~Hits(c, s, addr), NEW o, o = Touched(c, s, addr, store, w)
    PROVE  Outcome(c, s, addr, store, o)
<1>1. PICK t : t = CountedAccess(s, store)
    OBVIOUS
<1>2. /\ t \in CacheStates(c) /\ t.tags = s.tags
      /\ t.read_accesses = s.read_accesses + (IF store THEN 0 ELSE 1)
      /\ t.write_accesses = s.write_accesses + (IF store THEN 1 ELSE 0)
      /\ t.read_misses = s.read_misses /\ t.write_misses = s.write_misses
      /\ t.writebacks = s.writebacks
    BY <1>1, Counted
<1>3. PICK i \in Sets(c) : i = Index(c, addr)
    BY Geometry DEF Index, Line
<1>4. PICK line \in Nat : line = Line(c, addr)
    BY Geometry DEF Line
<1>5. \A v \in Ways(c) : s.tags[i][v].valid => s.tags[i][v].line # line
    BY <1>3, <1>4 DEF Hits, check_tag
<1>6. PICK old \in WayStates : old = s.tags[i][w]
    BY DEF CacheOK, CacheStates
<1>7. PICK x : x = Filled(line, store)
    OBVIOUS
<1>8. x \in WayStates /\ x.valid /\ x.line = line /\ x.dirty = store
    BY <1>7 DEF WayStates, Filled
<1>9. PICK r : r = [t EXCEPT
            !.tags[i][w] = x,
            !.read_misses  = @ + (IF store THEN 0 ELSE 1),
            !.write_misses = @ + (IF store THEN 1 ELSE 0),
            !.writebacks   = @ + (IF old.dirty THEN 1 ELSE 0)]
    OBVIOUS
<1>10. /\ r \in CacheStates(c)
       /\ \A j \in Sets(c), u \in Ways(c) :
              r.tags[j][u] = IF j = i /\ u = w THEN x ELSE s.tags[j][u]
       /\ r.read_accesses = t.read_accesses /\ r.write_accesses = t.write_accesses
       /\ r.read_misses = t.read_misses + (IF store THEN 0 ELSE 1)
       /\ r.write_misses = t.write_misses + (IF store THEN 1 ELSE 0)
       /\ r.writebacks = t.writebacks + (IF old.dirty THEN 1 ELSE 0)
  <2>1. PICK rm \in Nat : rm = t.read_misses + (IF store THEN 0 ELSE 1)
      BY <1>2 DEF CacheStates
  <2>2. PICK wm \in Nat : wm = t.write_misses + (IF store THEN 1 ELSE 0)
      BY <1>2 DEF CacheStates
  <2>3. PICK wb \in Nat : wb = t.writebacks + (IF old.dirty THEN 1 ELSE 0)
      BY <1>2 DEF CacheStates
  <2>4. r = [t EXCEPT !.tags[i][w] = x, !.read_misses = rm, !.write_misses = wm,
                      !.writebacks = wb]
      BY <1>9, <2>1, <2>2, <2>3
  <2>. QED BY <1>2, <1>8, <2>1, <2>2, <2>3, <2>4 DEF CacheStates
<1>11. o = [cache |-> r, missed |-> TRUE, victim |-> old]
    BY <1>1, <1>2, <1>3, <1>4, <1>6, <1>7, <1>9 DEF Touched, Miss, CountedAccess
<1>12. /\ CacheOK(c, r)
       /\ DirtyIn(c, r) = (DirtyIn(c, s) \ {old}) \cup (IF x.dirty THEN {x} ELSE {})
  <2>1. x.line % sets[c] = i
      BY <1>3, <1>4, <1>8 DEF Index
  <2>. QED BY <1>5, <1>6, <1>8, <1>10, <2>1, Replaced
<1>13. /\ old \in DirtyIn(c, s) <=> old.dirty
       /\ old.dirty => old.valid
  <2>1. old.dirty => old.valid
      BY <1>6 DEF CacheOK, Placed
  <2>2. old \in Dirties <=> old.dirty
      BY <2>1 DEF Dirties, WayStates
  <2>. QED BY <1>6, <2>1, <2>2, DirtyMember
<1>14. old.dirty => old # Filled(line, TRUE)
    BY <1>5, <1>6, <1>13 DEF Filled
<1>15. DirtyIn(c, r) = (DirtyIn(c, s) \ Gone(old)) \cup Marked(store, line)
  <2>1. DirtyIn(c, s) \ {old} = DirtyIn(c, s) \ Gone(old)
      BY <1>13, Markings
  <2>2. (IF x.dirty THEN {x} ELSE {}) = Marked(store, line)
      BY <1>7, <1>8, Markings
  <2>. QED BY <1>12, <2>1, <2>2
<1>16. o.cache = r /\ o.missed = TRUE /\ o.victim = old
    BY <1>11
<1>. QED BY <1>2, <1>4, <1>10, <1>12, <1>13, <1>14, <1>15, <1>16 DEF Outcome

LEMMA AccessesOK ==
    ASSUME NEW c \in Caches, NEW s, CacheOK(c, s), NEW addr \in Nat, NEW store \in BOOLEAN,
           NEW o \in Accesses(c, s, addr, store)
    PROVE  Outcome(c, s, addr, store, o)
<1>1. PICK w \in victimize(c, s, addr) : o = Touched(c, s, addr, store, w)
    BY DEF Accesses
<1>2. w \in Ways(c)
  <2>. DEFINE free == {v \in Ways(c) : ~s.tags[0][v].valid}
  <2>1. victimize(c, s, addr) = Ways(c)
        \/ /\ free # {} 
           /\ victimize(c, s, addr) = {CHOOSE v \in free : \A u \in free : v <= u}
      BY DEF victimize
  <2>2. ASSUME free # {} PROVE \E v \in free : \A u \in free : v <= u
    <3>1. free \subseteq Nat
        BY DEF Ways
    <3>. HIDE DEF free
    <3>. QED BY <2>2, <3>1, LeastNat
  <2>3. free # {} => (CHOOSE v \in free : \A u \in free : v <= u) \in Ways(c)
    <3>1. free # {} => (CHOOSE v \in free : \A u \in free : v <= u) \in free
      <4>. HIDE DEF free
      <4>. QED BY <2>2
    <3>. QED BY <3>1
  <2>. HIDE DEF free
  <2>. QED BY <1>1, <2>1, <2>3
<1>. QED BY <1>1, <1>2, HitOK, MissOK

-----------------------------------------------------------------------------
(* Lines of one level in lines of the next.                                *)

(* The line of the second level that holds a line of the first holds every *)
(* address of it.                                                          *)
LEMMA Nested ==
    ASSUME NEW c \in {"ic", "dc"}, NEW a \in Nat, NEW line \in Nat, Line(c, a) = line
    PROVE  Line("l2", a) = Line("l2", line * linesz[c])
<1>1. PICK L \in Nat \ {0} : L = linesz[c]
    BY Geometry DEF Caches
<1>2. PICK K \in Nat \ {0} : K = linesz["l2"]
    BY Geometry DEF Caches
<1>3. PICK m \in Nat : m = K \div L
    BY Divided
<1>4. K = L * m
  <2>1. K % L = 0
      BY <1>1, <1>2, NestingAssumption DEF Caches
  <2>2. K = L * (K \div L) + (K % L)
      BY Divided
  <2>. QED BY <1>3, <2>1, <2>2
<1>5. m # 0
  <2>1. L * 0 = 0
      OBVIOUS
  <2>. QED BY <1>4, <2>1
<1>6. (a \div L) \div m = a \div (L * m)
  <2>1. m \in Nat \ {0}
      BY <1>5
  <2>2. \A d, e \in Nat \ {0} : (a \div d) \div e = a \div (d * e)
      BY DividedTwice
  <2>. QED BY <2>1, <2>2
<1>7. line * L \in Nat /\ line * L = L * line + 0 /\ 0 < L
    OBVIOUS
<1>8. PICK b \in Nat : b = line * L
    BY <1>7
<1>9. b \div L = line
    BY <1>7, <1>8, Quotient
<1>10. (b \div L) \div m = b \div (L * m)
    BY <1>5, DividedTwice
<1>. QED BY <1>1, <1>2, <1>4, <1>6, <1>8, <1>9, <1>10 DEF Line

-----------------------------------------------------------------------------
(* Where the newest values are.                                            *)

(* A dirty line leaves the second level for memory. *)
LEMMA EvictedFromL2 ==
    ASSUME NEW W, NEW D, NEW E, Tracked(W, D, E), NEW victim \in WayStates
    PROVE  Tracked(PassedOn(W, "l2", victim, "memory"), D,
                   E \ Gone(victim))
<1>1. PICK X : X = PassedOn(W, "l2", victim, "memory")
    OBVIOUS
<1>2. /\ X \in [Addresses -> {"memory", "dc", "l2"}]
      /\ \A a \in Addresses : X[a] = IF victim.dirty /\ Line("l2", a) = victim.line /\ W[a] = "l2"
                                     THEN "memory" ELSE W[a]
    BY <1>1 DEF PassedOn, Covers, Tracked
<1>3. \A a \in Addresses : X[a] = "dc" <=> W[a] = "dc"
    BY <1>2
<1>4. ASSUME NEW a \in Addresses, X[a] = "l2"
      PROVE  Filled(Line("l2", a), TRUE) \in E \ Gone(victim)
  <2>1. W[a] = "l2" /\ (victim.dirty => Line("l2", a) # victim.line)
      BY <1>2, <1>4
  <2>2. Filled(Line("l2", a), TRUE).line = Line("l2", a)
      BY DEF Filled
  <2>. QED BY <2>1, <2>2, Markings DEF Tracked
<1>. QED BY <1>1, <1>2, <1>3, <1>4 DEF Tracked

(* A dirty line leaves the data cache for the second level. *)
LEMMA EvictedFromDc ==
    ASSUME NEW W, NEW D \in SUBSET Dirties, NEW E, Tracked(W, D, E), NEW victim \in D
    PROVE  Tracked(PassedOn(W, "dc", victim, "l2"), D \ {victim},
                   E \cup {Filled(Line("l2", DirtyAddress("dc", victim)), TRUE)})
<1>1. PICK X : X = PassedOn(W, "dc", victim, "l2")
    OBVIOUS
<1>2. victim.dirty /\ victim.line \in Nat
    BY DEF Dirties
<1>3. /\ X \in [Addresses -> {"memory", "dc", "l2"}]
      /\ \A a \in Addresses : X[a] = IF Line("dc", a) = victim.line /\ W[a] = "dc"
                                     THEN "l2" ELSE W[a]
    BY <1>1, <1>2 DEF PassedOn, Covers, Tracked
<1>4. ASSUME NEW a \in Addresses, X[a] = "dc"
      PROVE  Filled(Line("dc", a), TRUE) \in D \ {victim}
  <2>1. W[a] = "dc" /\ Line("dc", a) # victim.line
      BY <1>3, <1>4
  <2>2. Filled(Line("dc", a), TRUE).line = Line("dc", a)
      BY DEF Filled
  <2>. QED BY <2>1, <2>2 DEF Tracked
<1>5. ASSUME NEW a \in Addresses, X[a] = "l2"
      PROVE  Filled(Line("l2", a), TRUE)
                \in E \cup {Filled(Line("l2", DirtyAddress("dc", victim)), TRUE)}
  <2>1. CASE Line("dc", a) = victim.line
    <3>1. a \in Nat
        BY GeometryAssumption DEF Addresses
    <3>2. Line("l2", a) = Line("l2", victim.line * linesz["dc"])
        BY <1>2, <2>1, <3>1, Nested
    <3>. QED BY <3>2 DEF DirtyAddress
  <2>2. CASE Line("dc", a) # victim.line
      BY <1>3, <1>5, <2>2 DEF Tracked
  <2>. QED BY <2>1, <2>2
<1>6. ASSUME NEW way \in D \ {victim}
      PROVE  \E a \in Addresses : X[a] = "dc" /\ Line("dc", a) = way.line
  <2>0. \A x \in Dirties : x = Filled(x.line, TRUE)
    <3>. SUFFICES ASSUME NEW x \in Dirties PROVE x = Filled(x.line, TRUE)
        OBVIOUS
    <3>1. x \in WayStates /\ x.valid = TRUE /\ x.dirty = TRUE
        BY DEF Dirties, WayStates
    <3>. QED BY <3>1 DEF WayStates, Filled
  <2>1. way.line # victim.line
      BY <2>0
  <2>2. PICK a \in Addresses : W[a] = "dc" /\ Line("dc", a) = way.line
      BY DEF Tracked
  <2>. QED BY <1>3, <2>1, <2>2
<1>. QED BY <1>1, <1>3, <1>4, <1>5, <1>6 DEF Tracked

LEMMA Stored ==
    ASSUME NEW W, NEW D, NEW E, Tracked(W, D, E), NEW addr \in Addresses
    PROVE  Tracked([W EXCEPT ![addr] = "dc"], D \cup {Filled(Line("dc", addr), TRUE)}, E)
<1>1. PICK X : X = [W EXCEPT ![addr] = "dc"]
    OBVIOUS
<1>2. /\ X \in [Addresses -> {"memory", "dc", "l2"}]
      /\ \A a \in Addresses : X[a] = IF a = addr THEN "dc" ELSE W[a]
    BY <1>1 DEF Tracked
<1>3. \A way \in D \cup {Filled(Line("dc", addr), TRUE)} :
          \E a \in Addresses : X[a] = "dc" /\ Line("dc", a) = way.line
  <2>1. Filled(Line("dc", addr), TRUE).line = Line("dc", addr)
      BY DEF Filled
  <2>. QED BY <1>2, <2>1 DEF Tracked
<1>. QED BY <1>1, <1>2, <1>3 DEF Tracked

-----------------------------------------------------------------------------
(* The hierarchy.                                                          *)

(* What is left as it was. *)
LEMMA NothingAsked ==
    ASSUME NEW s, CacheOK("l2", s), NEW o, o = Untouched(s)
    PROVE  /\ o.cache = s /\ o.victim \in WayStates /\ ~o.victim.dirty
           /\ s.read_accesses \in Nat /\ s.write_accesses \in Nat
<1>1. o.cache = s /\ o.victim = Empty
    BY DEF Untouched
<1>2. Empty \in WayStates /\ ~Empty.dirty
    BY DEF Empty, WayStates
<1>. QED BY <1>1, <1>2 DEF CacheOK, CacheStates

(* A line is written to the second level if needed. *)
LEMMA WrittenNext ==
    ASSUME NEW s, CacheOK("l2", s), NEW addr \in Nat,
           NEW needed, NEW o \in ToNext(needed, s, addr, TRUE)
    PROVE  /\ CacheOK("l2", o.cache) /\ o.victim \in WayStates
           /\ DirtyIn("l2", o.cache) =
                (DirtyIn("l2", s) \ Gone(o.victim)) \cup Marked(needed, Line("l2", addr))
           /\ o.victim.dirty => o.victim # Filled(Line("l2", addr), TRUE)
           /\ o.cache.read_accesses  = s.read_accesses
           /\ needed => o.cache.write_accesses = s.write_accesses + 1
           /\ ~needed => o.cache.write_accesses = s.write_accesses
<1>1. CASE needed
  <2>1. o \in Accesses("l2", s, addr, TRUE)
      BY <1>1 DEF ToNext
  <2>2. Outcome("l2", s, addr, TRUE, o)
      BY <2>1, AccessesOK DEF Caches
  <2>3. s.read_accesses \in Nat
      BY DEF CacheOK, CacheStates
  <2>4. Marked(needed, Line("l2", addr)) = Marked(TRUE, Line("l2", addr))
      BY <1>1 DEF Marked
  <2>5. CacheOK("l2", o.cache) /\ o.victim \in WayStates
      BY <2>2 DEF Outcome
  <2>6. DirtyIn("l2", o.cache) =
                (DirtyIn("l2", s) \ Gone(o.victim)) \cup Marked(TRUE, Line("l2", addr))
      BY <2>2 DEF Outcome
  <2>7. o.victim.dirty => o.victim # Filled(Line("l2", addr), TRUE)
      BY <2>2 DEF Outcome
  <2>8. o.cache.read_accesses  = s.read_accesses
      BY <2>2, <2>3 DEF Outcome
  <2>9. o.cache.write_accesses = s.write_accesses + 1
      BY <2>2 DEF Outcome
  <2>. QED BY <1>1, <2>4, <2>5, <2>6, <2>7, <2>8, <2>9
<1>2. CASE ~needed
  <2>1. o = Untouched(s)
      BY <1>2 DEF ToNext
  <2>2. Marked(needed, Line("l2", addr)) = {}
      BY <1>2 DEF Marked
  <2>3. /\ o.cache = s /\ o.victim \in WayStates /\ ~o.victim.dirty
        /\ s.read_accesses \in Nat /\ s.write_accesses \in Nat
      BY <2>1, NothingAsked
  <2>4. Gone(o.victim) = {}
      BY <2>3, Markings
  <2>. QED BY <1>2, <2>2, <2>3, <2>4
<1>. QED BY <1>1, <1>2

(* What reading a line from the second level, if needed, leaves there. *)
ReadOutcome(needed, s, o) ==
    /\ CacheOK("l2", o.cache) /\ o.victim \in WayStates
    /\ DirtyIn("l2", o.cache) = DirtyIn("l2", s) \ Gone(o.victim)
    /\ needed => o.cache.read_accesses = s.read_accesses + 1
    /\ ~needed => o.cache.read_accesses = s.read_accesses
    /\ o.cache.write_accesses = s.write_accesses

(* A line is read from the second level if needed. *)
LEMMA ReadNext ==
    ASSUME NEW s, CacheOK("l2", s), NEW addr \in Nat,
           NEW needed, NEW o \in ToNext(needed, s, addr, FALSE)
    PROVE  ReadOutcome(needed, s, o)
<1>1. CASE needed
  <2>1. o \in Accesses("l2", s, addr, FALSE)
      BY <1>1 DEF ToNext
  <2>2. Outcome("l2", s, addr, FALSE, o)
      BY <2>1, AccessesOK DEF Caches
  <2>3. s.write_accesses \in Nat
      BY DEF CacheOK, CacheStates
  <2>4. Marked(FALSE, Line("l2", addr)) = {}
      BY DEF Marked
  <2>5. CacheOK("l2", o.cache) /\ o.victim \in WayStates
      BY <2>2 DEF Outcome
  <2>6. DirtyIn("l2", o.cache) =
                (DirtyIn("l2", s) \ Gone(o.victim)) \cup Marked(FALSE, Line("l2", addr))
      BY <2>2 DEF Outcome
  <2>7. o.cache.read_accesses  = s.read_accesses + 1
      BY <2>2 DEF Outcome
  <2>8. o.cache.write_accesses = s.write_accesses
      BY <2>2, <2>3 DEF Outcome
  <2>. QED BY <1>1, <2>4, <2>5, <2>6, <2>7, <2>8 DEF ReadOutcome
<1>2. CASE ~needed
  <2>1. o = Untouched(s)
      BY <1>2 DEF ToNext
  <2>3. /\ o.cache = s /\ o.victim \in WayStates /\ ~o.victim.dirty
        /\ s.read_accesses \in Nat /\ s.write_accesses \in Nat
      BY <2>1, NothingAsked
  <2>4. Gone(o.victim) = {}
      BY <2>3, Markings
  <2>. QED BY <1>2, <2>3, <2>4 DEF ReadOutcome
<1>. QED BY <1>1, <1>2

(* One access with all it brings about. *)
LEMMA AccessOK ==
    ASSUME CInv, NEW c \in {"ic", "dc"}, NEW addr \in Addresses, NEW store \in BOOLEAN,
           c = "ic" => ~store, access(c, addr, store)
    PROVE  CInv'
<1>. DEFINE D == DirtyIn("dc", cache["dc"])
            E == DirtyIn("l2", cache["l2"])
<1>0. addr \in Nat /\ c \in Caches /\ c # "l2" /\ "l2" \in Caches /\ "dc" \in Caches /\ "ic" \in Caches
    BY GeometryAssumption DEF Addresses, Caches
<1>. DEFINE Passed(ov, bv, fv) ==
                PassedOn(PassedOn(PassedOn(newest, c, ov, "l2"), "l2", bv, "memory"),
                         "l2", fv, "memory")
            Changes(o, f, bv) ==
                /\ cache' = [cache EXCEPT ![c] = o.cache, !["l2"] = f.cache]
                /\ newest' = IF store THEN [Passed(o.victim, bv, f.victim) EXCEPT ![addr] = c]
                             ELSE Passed(o.victim, bv, f.victim)
<1>1a. PICK own \in Accesses(c, cache[c], addr, store) :
        \E b \in ToNext(own.victim.dirty, cache["l2"], DirtyAddress(c, own.victim), TRUE) :
        \E f \in ToNext(own.missed, b.cache, LineAddress(c, addr), FALSE) :
            Changes(own, f, b.victim)
    BY DEF access
<1>1b. PICK back \in ToNext(own.victim.dirty, cache["l2"], DirtyAddress(c, own.victim), TRUE) :
        \E f \in ToNext(own.missed, back.cache, LineAddress(c, addr), FALSE) :
            Changes(own, f, back.victim)
    BY <1>1a
<1>1. PICK fill \in ToNext(own.missed, back.cache, LineAddress(c, addr), FALSE) :
            Changes(own, fill, back.victim)
    BY <1>1b
<1>2. Outcome(c, cache[c], addr, store, own)
    BY <1>0, AccessesOK DEF CInv
<1>3. own.victim \in WayStates /\ own.missed \in BOOLEAN /\ own.victim.dirty \in BOOLEAN
      /\ own.victim.line \in Nat
    BY <1>2 DEF Outcome, WayStates
<1>4. DirtyAddress(c, own.victim) \in Nat /\ LineAddress(c, addr) \in Nat
  <2>1. linesz[c] \in Nat /\ Line(c, addr) \in Nat
      BY <1>0, Geometry DEF Line
  <2>. QED BY <1>3, <2>1 DEF DirtyAddress, LineAddress
<1>5. PICK out : out = DirtyAddress(c, own.victim)
    OBVIOUS
<1>6. /\ CacheOK("l2", back.cache) /\ back.victim \in WayStates
      /\ DirtyIn("l2", back.cache) =
            (E \ Gone(back.victim)) \cup Marked(own.victim.dirty, Line("l2", out))
      /\ back.victim.dirty => back.victim # Filled(Line("l2", out), TRUE)
      /\ back.cache.read_accesses  = cache["l2"].read_accesses
      /\ own.victim.dirty => back.cache.write_accesses = cache["l2"].write_accesses + 1
      /\ ~own.victim.dirty => back.cache.write_accesses = cache["l2"].write_accesses
  <2>1. CacheOK("l2", cache["l2"])
      BY <1>0 DEF CInv
  <2>2. out \in Nat
      BY <1>4, <1>5
  <2>3. back \in ToNext(own.victim.dirty, cache["l2"], out, TRUE)
      BY <1>1b, <1>5
  <2>. QED BY <2>1, <2>2, <2>3, WrittenNext
<1>7. /\ CacheOK("l2", fill.cache) /\ fill.victim \in WayStates
      /\ DirtyIn("l2", fill.cache) = DirtyIn("l2", back.cache) \ Gone(fill.victim)
      /\ own.missed => fill.cache.read_accesses  = back.cache.read_accesses + 1
      /\ ~own.missed => fill.cache.read_accesses  = back.cache.read_accesses
      /\ fill.cache.write_accesses = back.cache.write_accesses
  <2>1. fill \in ToNext(own.missed, back.cache, LineAddress(c, addr), FALSE)
      BY <1>1
  <2>2. CacheOK("l2", back.cache)
      BY <1>6
  <2>3. LineAddress(c, addr) \in Nat
      BY <1>4
  <2>4. ReadOutcome(own.missed, back.cache, fill)
      BY <2>1, <2>2, <2>3, ReadNext
  <2>. QED BY <2>4 DEF ReadOutcome
<1>8. /\ cache' = [d \in Caches |-> cache'[d]]
      /\ cache'[c] = own.cache /\ cache'["l2"] = fill.cache
      /\ \A d \in Caches : d # c /\ d # "l2" => cache'[d] = cache[d]
  <2>1. cache = [d \in Caches |-> cache[d]]
      BY DEF CInv
  <2>. QED BY <1>0, <1>1, <2>1
<1>9. \A d \in Caches : CacheOK(d, cache'[d])
    BY <1>2, <1>7, <1>8 DEF Outcome, CInv
<1>10. c = "ic" => /\ ~own.victim.dirty /\ DirtyIn("ic", own.cache) = {}
  <2>. SUFFICES ASSUME c = "ic" PROVE ~own.victim.dirty /\ DirtyIn("ic", own.cache) = {}
      OBVIOUS
  <2>1. DirtyIn(c, cache[c]) = {} /\ ~store
      BY DEF CInv
  <2>2. ~own.victim.dirty
      BY <1>2, <2>1 DEF Outcome
  <2>3. DirtyIn(c, own.cache) = (DirtyIn(c, cache[c]) \ Gone(own.victim))
                                    \cup Marked(store, Line(c, addr))
      BY <1>2 DEF Outcome
  <2>4. Marked(store, Line(c, addr)) = {}
      BY <2>1, Markings
  <2>. QED BY <2>1, <2>2, <2>3, <2>4
<1>11. DirtyIn("ic", cache'["ic"]) = {}
    BY <1>0, <1>8, <1>10 DEF CInv
<1>. DEFINE Dkept == D \ (IF c = "dc" THEN Gone(own.victim) ELSE {})
            W1 == PassedOn(newest, c, own.victim, "l2")
            W2 == PassedOn(W1, "l2", back.victim, "memory")
            W3 == PassedOn(W2, "l2", fill.victim, "memory")
            E1 == E \cup Marked(own.victim.dirty, Line("l2", out))
<1>12. /\ c = "dc" /\ own.victim.dirty => own.victim \in D
       /\ c = "dc" => own.victim # Filled(Line("dc", addr), TRUE) \/ ~own.victim.dirty
       /\ DirtyIn("dc", cache'["dc"]) =
              Dkept \cup Marked(store, Line("dc", addr))
  <2>1. CASE c = "dc"
      BY <1>2, <1>8, <2>1 DEF Outcome
  <2>2. CASE c = "ic"
    <3>1. ~store /\ cache'["dc"] = cache["dc"]
        BY <1>0, <1>8, <2>2
    <3>2. Marked(store, Line("dc", addr)) = {}
        BY <3>1, Markings
    <3>. QED BY <2>2, <3>1, <3>2
  <2>. QED BY <2>1, <2>2
<1>13. Tracked(W1, Dkept, E1)
  <2>0. Tracked(newest, D, E)
      BY DEF CInv
  <2>1. CASE ~own.victim.dirty
    <3>1. W1 = newest
      <4>1. newest \in [Addresses -> {"memory", "dc", "l2"}]
          BY <2>0 DEF Tracked
      <4>2. W1 = [a \in Addresses |-> newest[a]]
          BY <2>1 DEF PassedOn
      <4>. HIDE DEF W1
      <4>. QED BY <4>1, <4>2
    <3>2. Dkept = D /\ E1 = E
      <4>1. Gone(own.victim) = {} /\ Marked(own.victim.dirty, Line("l2", out)) = {}
          BY <2>1, Markings
      <4>. HIDE DEF D, E
      <4>. QED BY <4>1
    <3>. HIDE DEF D, E, W1, Dkept, E1
    <3>. QED BY <2>0, <3>1, <3>2
  <2>2. CASE own.victim.dirty
    <3>1. c = "dc" /\ own.victim \in D
        BY <1>10, <1>12, <2>2
    <3>2. D \in SUBSET Dirties
        BY DirtyMember
    <3>3. Tracked(PassedOn(newest, "dc", own.victim, "l2"), D \ {own.victim},
                  E \cup {Filled(Line("l2", DirtyAddress("dc", own.victim)), TRUE)})
      <4>. HIDE DEF D, E
      <4>. QED BY <2>0, <3>1, <3>2, EvictedFromDc
    <3>4. Dkept = D \ {own.victim}
          /\ E1 = E \cup {Filled(Line("l2", DirtyAddress("dc", own.victim)), TRUE)}
      <4>. HIDE DEF D, E
      <4>. QED BY <1>5, <2>2, <3>1, Markings
    <3>. HIDE DEF Dkept, D, E1, E
    <3>. QED BY <3>1, <3>3, <3>4
  <2>. QED BY <1>3, <2>1, <2>2
<1>14. Tracked(W2, Dkept, DirtyIn("l2", back.cache))
  <2>1. Tracked(W2, Dkept, E1 \ Gone(back.victim))
    <3>. HIDE DEF W1, Dkept, E1
    <3>. QED BY <1>6, <1>13, EvictedFromL2
  <2>2. E1 \ Gone(back.victim) = DirtyIn("l2", back.cache)
    <3>1. Gone(back.victim) \cap Marked(own.victim.dirty, Line("l2", out)) = {}
        BY <1>6 DEF Gone, Marked
    <3>. HIDE DEF E
    <3>. QED BY <1>6, <3>1
  <2>. HIDE DEF W2, Dkept, E1
  <2>. QED BY <2>1, <2>2
<1>15. Tracked(W3, Dkept, DirtyIn("l2", cache'["l2"]))
  <2>. HIDE DEF W2, Dkept
  <2>. QED BY <1>7, <1>8, <1>14, EvictedFromL2
<1>16. Tracked(newest', DirtyIn("dc", cache'["dc"]), DirtyIn("l2", cache'["l2"]))
  <2>1. newest' = IF store THEN [W3 EXCEPT ![addr] = c] ELSE W3
      BY <1>1
  <2>2. CASE store
    <3>1. c = "dc"
        BY <2>2
    <3>2. DirtyIn("dc", cache'["dc"]) = Dkept \cup {Filled(Line("dc", addr), TRUE)}
      <4>. HIDE DEF Dkept
      <4>. QED BY <1>12, <2>2, Markings
    <3>3. newest' = [W3 EXCEPT ![addr] = "dc"]
      <4>. HIDE DEF W3
      <4>. QED BY <2>1, <2>2, <3>1
    <3>4. Tracked([W3 EXCEPT ![addr] = "dc"], Dkept \cup {Filled(Line("dc", addr), TRUE)},
                  DirtyIn("l2", cache'["l2"]))
      <4>. HIDE DEF W3, Dkept
      <4>. QED BY <1>15, Stored
    <3>. HIDE DEF W3, Dkept
    <3>. QED BY <3>2, <3>3, <3>4
  <2>3. CASE ~store
    <3>1. DirtyIn("dc", cache'["dc"]) = Dkept
      <4>1. Marked(store, Line("dc", addr)) = {}
          BY <2>3, Markings
      <4>. HIDE DEF Dkept
      <4>. QED BY <1>12, <4>1
    <3>. HIDE DEF W3, Dkept
    <3>. QED BY <1>15, <2>1, <2>3, <3>1
  <2>. QED BY <2>2, <2>3
<1>17. IsFiniteSet(D) /\ Cardinality(D) \in Nat
    BY FS_CardinalityType DEF CInv, Counts
<1>18. /\ IsFiniteSet(Dkept)
       /\ Cardinality(Dkept) =
              Cardinality(D) - (IF c = "dc" /\ own.victim.dirty THEN 1 ELSE 0)
  <2>1. CASE c = "dc" /\ own.victim.dirty
    <3>1. own.victim \in D /\ Dkept = D \ {own.victim}
        BY <1>12, <2>1, Markings
    <3>. HIDE DEF D, Dkept
    <3>. QED BY <1>17, <2>1, <3>1, FS_RemoveElement
  <2>2. CASE ~(c = "dc" /\ own.victim.dirty)
    <3>1. Dkept = D
      <4>1. c = "dc" => Gone(own.victim) = {}
          BY <2>2, Markings
      <4>. HIDE DEF D
      <4>. QED BY <4>1
    <3>. HIDE DEF D, Dkept
    <3>. QED BY <1>17, <2>2, <3>1
  <2>. QED BY <2>1, <2>2
<1>19. /\ IsFiniteSet(DirtyIn("dc", cache'["dc"]))
       /\ Cardinality(DirtyIn("dc", cache'["dc"])) \in Nat
       /\ Cardinality(DirtyIn("dc", cache'["dc"]))
             <= Cardinality(Dkept) + (IF store THEN 1 ELSE 0)
  <2>. PICK F : F = DirtyIn("dc", cache'["dc"])
      OBVIOUS
  <2>0. Cardinality(Dkept) \in Nat
    <3>. HIDE DEF Dkept
    <3>. QED BY <1>18, FS_CardinalityType
  <2>1. CASE store
    <3>. PICK way : way = Filled(Line("dc", addr), TRUE)
        OBVIOUS
    <3>1. F = Dkept \cup {way}
      <4>. HIDE DEF Dkept
      <4>. QED BY <1>12, <2>1, Markings
    <3>2. /\ IsFiniteSet(Dkept \cup {way})
          /\ Cardinality(Dkept \cup {way}) =
                 IF way \in Dkept THEN Cardinality(Dkept) ELSE Cardinality(Dkept) + 1
      <4>. HIDE DEF Dkept
      <4>. QED BY <1>18, FS_AddElement
    <3>. PICK n \in Nat : n = Cardinality(Dkept)
        BY <2>0
    <3>3. Cardinality(F) = n \/ Cardinality(F) = n + 1
      <4>. HIDE DEF Dkept
      <4>. QED BY <3>1, <3>2
    <3>4. IsFiniteSet(F)
      <4>. HIDE DEF Dkept
      <4>. QED BY <3>1, <3>2
    <3>. HIDE DEF Dkept
    <3>. QED BY <2>1, <3>3, <3>4
  <2>2. CASE ~store
    <3>1. F = Dkept
      <4>1. Marked(store, Line("dc", addr)) = {}
          BY <2>2, Markings
      <4>. HIDE DEF Dkept
      <4>. QED BY <1>12, <4>1
    <3>. HIDE DEF Dkept
    <3>. QED BY <1>18, <2>0, <2>2, <3>1
  <2>. QED BY <2>1, <2>2
<1>20. \A d \in Caches : /\ cache[d].read_accesses \in Nat /\ cache[d].read_misses \in Nat
                         /\ cache[d].write_accesses \in Nat /\ cache[d].write_misses \in Nat
                         /\ cache[d].writebacks \in Nat
    BY DEF CInv, CacheOK, CacheStates
<1>21. /\ own.cache.write_accesses = cache[c].write_accesses + (IF store THEN 1 ELSE 0)
       /\ own.cache.read_misses = cache[c].read_misses + (IF own.missed /\ ~store THEN 1 ELSE 0)
       /\ own.cache.write_misses = cache[c].write_misses + (IF own.missed /\ store THEN 1 ELSE 0)
       /\ own.cache.writebacks = cache[c].writebacks + (IF own.victim.dirty THEN 1 ELSE 0)
    BY <1>2 DEF Outcome
<1>22. /\ cache["l2"].read_accesses = cache["ic"].read_misses
              + cache["dc"].read_misses + cache["dc"].write_misses
       /\ cache["l2"].write_accesses = cache["dc"].writebacks
       /\ cache["ic"].writebacks = 0
       /\ cache["dc"].writebacks + Cardinality(D) <= cache["dc"].write_accesses
    BY DEF CInv, Counts
<1>. HIDE DEF D, E, Dkept, W1, W2, W3, E1
<1>23. /\ cache'["l2"].read_accesses = cache'["ic"].read_misses
              + cache'["dc"].read_misses + cache'["dc"].write_misses
       /\ cache'["l2"].write_accesses = cache'["dc"].writebacks
       /\ cache'["ic"].writebacks = 0
  <2>1. /\ fill.cache.read_accesses = cache["l2"].read_accesses + (IF own.missed THEN 1 ELSE 0)
        /\ fill.cache.write_accesses = cache["l2"].write_accesses
                                          + (IF own.victim.dirty THEN 1 ELSE 0)
      BY <1>0, <1>6, <1>7, <1>20
  <2>2. CASE c = "ic"
    <3>1. cache'["dc"] = cache["dc"] /\ cache'["ic"] = own.cache /\ cache'["l2"] = fill.cache
        BY <1>0, <1>8, <2>2
    <3>. QED BY <1>0, <1>10, <1>20, <1>21, <1>22, <2>1, <2>2, <3>1
  <2>3. CASE c = "dc"
    <3>1. cache'["ic"] = cache["ic"] /\ cache'["dc"] = own.cache /\ cache'["l2"] = fill.cache
        BY <1>0, <1>8, <2>3
    <3>. QED BY <1>0, <1>20, <1>21, <1>22, <2>1, <2>3, <3>1
  <2>. QED BY <2>2, <2>3
<1>24. cache'["dc"].writebacks + Cardinality(DirtyIn("dc", cache'["dc"]))
            <= cache'["dc"].write_accesses
  <2>1. CASE c = "ic"
    <3>1. cache'["dc"] = cache["dc"]
        BY <1>0, <1>8, <2>1
    <3>2. ~store
        BY <2>1
    <3>. QED BY <1>0, <1>17, <1>18, <1>19, <1>20, <1>22, <2>1, <3>1, <3>2
  <2>2. CASE c = "dc"
    <3>1. cache'["dc"] = own.cache
        BY <1>8, <2>2
    <3>. QED BY <1>0, <1>17, <1>18, <1>19, <1>20, <1>21, <1>22, <2>2, <3>1
  <2>. QED BY <2>1, <2>2
<1>25. Counts'
    BY <1>19, <1>23, <1>24 DEF Counts, DirtyIn, Sets, Ways
<1>26. DirtyIn("ic", cache["ic"])' = {}
       /\ Tracked(newest, DirtyIn("dc", cache["dc"]), DirtyIn("l2", cache["l2"]))'
       /\ (\A d \in Caches : CacheOK(d, cache[d]))'
       /\ (cache = [d \in Caches |-> cache[d]])'
    BY <1>8, <1>9, <1>11, <1>16
<1>. QED BY <1>25, <1>26 DEF CInv

-----------------------------------------------------------------------------
(* Every run.                                                              *)

LEMMA InitOK == Init => CInv
<1>. SUFFICES ASSUME Init PROVE CInv
    OBVIOUS
<1>1. \A c \in Caches : cache[c] = init(c)
    BY DEF Init
<1>2. ASSUME NEW c \in Caches PROVE CacheOK(c, init(c)) /\ DirtyIn(c, init(c)) = {}
  <2>1. \A i \in Sets(c), w \in Ways(c) : init(c).tags[i][w] = Empty
      BY DEF init, Sets
  <2>2. Empty \in WayStates /\ ~Empty.valid /\ ~Empty.dirty
      BY DEF Empty, WayStates
  <2>3. init(c) \in CacheStates(c)
      BY <2>2 DEF init, CacheStates, Sets
  <2>4. Placed(c, init(c)) /\ Unique(c, init(c))
      BY <2>1, <2>2 DEF Placed, Unique
  <2>5. DirtyIn(c, init(c)) = {}
    <3>. SUFFICES ASSUME NEW way \in DirtyIn(c, init(c)) PROVE FALSE
        OBVIOUS
    <3>1. way = Empty /\ way \in Dirties
        BY <2>1, DirtyMember
    <3>. QED BY <2>2, <3>1 DEF Dirties
  <2>. QED BY <2>3, <2>4, <2>5 DEF CacheOK
<1>3. {"ic", "dc", "l2"} = Caches
    BY DEF Caches
<1>4. Tracked(newest, {}, {})
    BY DEF Init, Tracked
<1>5. Counts
  <2>1. DirtyIn("dc", cache["dc"]) = {}
      BY <1>1, <1>2, <1>3
  <2>2. IsFiniteSet({}) /\ Cardinality({}) = 0
      BY FS_EmptySet
  <2>3. ASSUME NEW c \in Caches
        PROVE  /\ cache[c].read_accesses = 0 /\ cache[c].read_misses = 0
               /\ cache[c].write_accesses = 0 /\ cache[c].write_misses = 0
               /\ cache[c].writebacks = 0
    <3>1. /\ init(c).read_accesses = 0 /\ init(c).read_misses = 0
          /\ init(c).write_accesses = 0 /\ init(c).write_misses = 0
          /\ init(c).writebacks = 0
        BY DEF init
    <3>2. cache[c] = init(c)
        BY <1>1
    <3>. QED BY <3>1, <3>2
  <2>. QED BY <1>3, <2>1, <2>2, <2>3 DEF Counts
<1>6. cache = [c \in Caches |-> cache[c]]
    BY DEF Init
<1>. QED BY <1>1, <1>2, <1>3, <1>4, <1>5, <1>6 DEF CInv

LEMMA NextOK == ASSUME CInv, [Next]_vars PROVE CInv'
<1>1. CASE UNCHANGED vars
  <2>1. cache' = cache /\ newest' = newest
      BY <1>1 DEF vars
  <2>2. Counts'
      BY <2>1 DEF CInv, Counts, DirtyIn, Sets, Ways
  <2>. QED BY <2>1, <2>2 DEF CInv
<1>2. CASE Next
  <2>1. PICK addr \in Addresses, type \in {"FETCH", "LOAD", "STORE"} : trace(addr, type)
      BY <1>2 DEF Next
  <2>2. PICK c \in Caches : interested(c, type) /\ access(c, addr, type = "STORE")
      BY <2>1 DEF trace
  <2>3. c \in {"ic", "dc"} /\ (c = "ic" => type # "STORE")
      BY <2>2 DEF interested
  <2>4. PICK store \in BOOLEAN : store <=> type = "STORE"
      OBVIOUS
  <2>5. CASE type = "STORE"
    <3>1. (type = "STORE") = TRUE
        BY <2>5
    <3>2. access(c, addr, TRUE)
        BY <2>2, <3>1
    <3>. QED BY <2>3, <2>5, <3>2, AccessOK
  <2>6. CASE type # "STORE"
    <3>1. (type = "STORE") = FALSE
        BY <2>6
    <3>2. access(c, addr, FALSE)
        BY <2>2, <3>1
    <3>. QED BY <2>3, <3>2, AccessOK
  <2>. QED BY <2>5, <2>6
<1>. QED BY <1>1, <1>2

(* Lines are where their address says, once; dirty lines are where the     *)
(* newest values are; and the counters of the levels agree.                *)
THEOREM CacheInvariant == Spec => []CInv
<1>1. Init => CInv
    BY InitOK
<1>2. CInv /\ [Next]_vars => CInv'
    BY NextOK
<1>. QED BY <1>1, <1>2, PTL DEF Spec

LEMMA DirtyIsDirtyIn == \A c : Dirty(c) = DirtyIn(c, cache[c])
BY DEF Dirty, DirtyIn, Sets

(* No store is lost on its way to memory (cachesim.cc:127-153).            *)
THEOREM NewestAreDirty == Spec => []NewestIsDirty
<1>1. CInv => NewestIsDirty
  <2>. SUFFICES ASSUME CInv PROVE NewestIsDirty
      OBVIOUS
  <2>1. Tracked(newest, Dirty("dc"), Dirty("l2"))
      BY DirtyIsDirtyIn DEF CInv
  <2>2. ASSUME NEW c \in {"dc", "l2"}, NEW a \in Addresses, newest[a] = c
        PROVE  \E way \in Dirty(c) : Covers(c, way.line, a)
    <3>1. Filled(Line(c, a), TRUE) \in Dirty(c)
        BY <2>1, <2>2 DEF Tracked
    <3>2. Filled(Line(c, a), TRUE).line = Line(c, a)
        BY DEF Filled
    <3>. QED BY <3>1, <3>2 DEF Covers
  <2>3. \A a \in Addresses : newest[a] \in {"memory", "dc", "l2"}
      BY <2>1 DEF Tracked
  <2>4. \A way \in Dirty("dc") : \E a \in Addresses :
            newest[a] = "dc" /\ Covers("dc", way.line, a)
      BY <2>1 DEF Tracked, Covers
  <2>. QED BY <2>2, <2>3, <2>4 DEF NewestIsDirty
<1>. QED BY <1>1, CacheInvariant, PTL

(* The second level counts what the first says it sent, and no line is     *)
(* written back more often than it was stored to (cachesim.cc:118-153).    *)
THEOREM CountersDoAgree == Spec => []CountersAgree
<1>1. CInv => CountersAgree
    BY DirtyIsDirtyIn DEF CInv, Counts, CountersAgree
<1>. QED BY <1>1, CacheInvariant, PTL

=============================================================================
