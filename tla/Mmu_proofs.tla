----------------------------- MODULE Mmu_proofs -----------------------------
(***************************************************************************)
(* The translation buffer and the instruction cache agree with the page    *)
(* walk, and no trigger is bypassed, for every size of the buffers, every  *)
(* shape of the page table, every memory map, every code and every set of  *)
(* triggers, with and without RISCV_ENABLE_DIRTY.                          *)
(***************************************************************************)
EXTENDS Mmu, NumberTheorems

-----------------------------------------------------------------------------
(* Arithmetic.                                                             *)

(* A physical address is its page and the offset in it. *)
LEMMA PhysicalPage ==
    ASSUME NEW o, o.page \in Int, NEW addr \in Nat
    PROVE  Physical(o, addr) \in Int /\ PageOf(Physical(o, addr)) = o.page
<1>1. PageSize \in Nat \ {0} /\ addr % PageSize \in 0 .. PageSize - 1
    BY SizeAssumption
<1>2. \A p \in Int, r \in Nat, s \in Nat \ {0} : r < s => (p * s + r) \div s = p
    OBVIOUS
<1>3. addr % PageSize \in Nat /\ addr % PageSize < PageSize
    BY <1>1
<1>4. (o.page * PageSize + (addr % PageSize)) \div PageSize = o.page
    BY <1>1, <1>2, <1>3
<1>. QED BY <1>1, <1>3, <1>4 DEF Physical, PageOf

LEMMA IndexRange ==
    /\ \A page \in Nat : Idx(page) \in 0 .. TLB_ENTRIES - 1
    /\ \A addr \in Nat : /\ IcacheIndex(addr) \in 0 .. ICACHE_ENTRIES - 1
                         /\ PageOf(addr) \in Nat
BY SizeAssumption DEF Idx, IcacheIndex, PageOf

LEMMA EntryIndex ==
    ASSUME NEW page \in Nat, NEW i \in 0 .. Levels - 1
    PROVE  IndexOf(page, i) \in 0 .. 2 ^ IdxBits - 1
<1>1. i * IdxBits \in Nat /\ IdxBits \in Nat
    BY SizeAssumption
<1>2. Span(i) \in Nat \ {0} /\ 2 ^ IdxBits \in Nat \ {0}
    BY <1>1, PowerDouble DEF Span
<1>3. page \div Span(i) \in Nat
    BY <1>2
<1>. QED BY <1>2, <1>3 DEF IndexOf

-----------------------------------------------------------------------------
(* The page walk.                                                          *)

PageTables == [Tables -> [0 .. 2 ^ IdxBits - 1 -> PageTableEntries]]

(* from has the results of every level of a walk. *)
LevelResults(tables, h, page, operation, mode, from) ==
    /\ \A base \in PhysicalPages : from[-1][base] = Refused("page fault")
    /\ \A i \in 0 .. Levels - 1, base \in PhysicalPages : from[i][base] =
          WalkEntry(tables, h, page, operation, mode, from[i - 1], i, base)

(* The recursion over the levels is well founded. *)
LEMMA WalkSteps ==
    ASSUME NEW tables, NEW h, NEW page, NEW operation, NEW mode
    PROVE  LevelResults(tables, h, page, operation, mode,
                        WalkLevels(tables, h, page, operation, mode))
<1>. DEFINE D(f, i) == [base \in PhysicalPages |->
                          IF i < 0 THEN Refused("page fault")
                          ELSE WalkEntry(tables, h, page, operation, mode, f[i - 1], i, base)]
            Has(k) == \E f : f = [i \in -1 .. k - 1 |-> D(f, i)]
            T == {k \in Nat : ~Has(k)}
<1>1. \A f, g, i : f[i - 1] = g[i - 1] \/ i < 0 => D(f, i) = D(g, i)
    OBVIOUS
<1>2. T = {}
  <2>. SUFFICES ASSUME T # {} PROVE FALSE
      OBVIOUS
  <2>1. PICK k \in T : \A y \in T : k <= y
    <3>. HIDE DEF Has
    <3>. QED BY LeastNat
  <2>2. CASE k = 0
    <3>. DEFINE f == [i \in -1 .. -1 |-> D(<<>>, i)]
    <3>1. \A i \in -1 .. -1 : D(f, i) = D(<<>>, i)
      <4>. HIDE DEF D, f
      <4>. QED BY <1>1
    <3>2. f = [i \in -1 .. k - 1 |-> D(f, i)]
      <4>. HIDE DEF D
      <4>. QED BY <2>2, <3>1
    <3>3. Has(k)
      <4>. HIDE DEF f
      <4>. QED BY <3>2
    <3>. QED BY <3>3
  <2>3. CASE k # 0
    <3>1. k - 1 \in Nat /\ k - 1 \notin T
      <4>. HIDE DEF Has
      <4>. QED BY <2>1, <2>3
    <3>2. PICK f : f = [i \in -1 .. (k - 1) - 1 |-> D(f, i)]
        BY <3>1
    <3>. DEFINE g == [i \in -1 .. k - 1 |-> D(f, i)]
    <3>3. \A j \in -1 .. (k - 1) - 1 : f[j] = g[j]
      <4>. HIDE DEF D
      <4>. QED BY <3>2
    <3>4. ASSUME NEW i \in -1 .. k - 1 PROVE D(f, i) = D(g, i)
      <4>1. i < 0 \/ f[i - 1] = g[i - 1]
        <5>. HIDE DEF D, g
        <5>. QED BY <3>1, <3>3
      <4>. QED BY <1>1, <4>1
    <3>5. g = [i \in -1 .. k - 1 |-> D(g, i)]
      <4>. HIDE DEF D
      <4>. QED BY <3>4
    <3>6. Has(k)
      <4>. HIDE DEF g
      <4>. QED BY <3>5
    <3>. QED BY <3>6
  <2>. QED BY <2>2, <2>3
<1>3. \E f : f = [i \in -1 .. Levels - 1 |-> D(f, i)]
    BY <1>2, SizeAssumption
<1>4. PICK from : from = WalkLevels(tables, h, page, operation, mode)
    OBVIOUS
<1>5. from = [i \in -1 .. Levels - 1 |-> D(from, i)]
    BY <1>3, <1>4 DEF WalkLevels
<1>6. -1 \in -1 .. Levels - 1 /\ -1 < 0
    BY SizeAssumption
<1>7. \A i \in 0 .. Levels - 1 : i \in -1 .. Levels - 1 /\ ~(i < 0)
    BY SizeAssumption
<1>8. from[-1] = D(from, -1) /\ \A i \in 0 .. Levels - 1 : from[i] = D(from, i)
  <2>. HIDE DEF D
  <2>. QED BY <1>5, <1>6, <1>7
<1>9. LevelResults(tables, h, page, operation, mode, from)
    BY <1>6, <1>7, <1>8 DEF LevelResults
<1>. QED BY <1>4, <1>9

(* A statement about the results of a walk holds if each level passes it   *)
(* on.  Good is the set of the good results of each level and base.        *)
LEMMA WalkInduction ==
    ASSUME NEW Good,
           \A base \in PhysicalPages : base \in Good[-1],
           \A i \in 0 .. Levels - 1 :
              (\A base \in PhysicalPages : base \in Good[i - 1])
                => (\A base \in PhysicalPages : base \in Good[i])
    PROVE  \A i \in -1 .. Levels - 1, base \in PhysicalPages : base \in Good[i]
<1>. DEFINE Bad == {k \in Nat : k <= Levels /\ \E base \in PhysicalPages : base \notin Good[k - 1]}
<1>1. Levels \in Nat
    BY SizeAssumption
<1>2. Bad = {}
  <2>. SUFFICES ASSUME Bad # {} PROVE FALSE
      OBVIOUS
  <2>1. PICK k \in Bad : \A y \in Bad : k <= y
      BY LeastNat
  <2>2. k # 0 /\ k \in Nat /\ k <= Levels
      BY <2>1
  <2>3. k - 1 \in Nat /\ k - 1 \notin Bad /\ k - 1 <= Levels
      BY <1>1, <2>1, <2>2
  <2>4. \A base \in PhysicalPages : base \in Good[(k - 1) - 1]
      BY <2>3
  <2>5. k - 1 \in 0 .. Levels - 1
      BY <1>1, <2>2
  <2>6. \A base \in PhysicalPages : base \in Good[k - 1]
      BY <2>4, <2>5
  <2>. QED BY <2>1, <2>6
<1>3. ASSUME NEW i \in -1 .. Levels - 1, NEW base \in PhysicalPages
      PROVE  base \in Good[i]
  <2>1. i + 1 \in Nat /\ i + 1 <= Levels /\ i + 1 \notin Bad
      BY <1>1, <1>2
  <2>2. \A b \in PhysicalPages : b \in Good[(i + 1) - 1]
      BY <2>1
  <2>3. (i + 1) - 1 = i
      BY <1>1
  <2>. QED BY <2>2, <2>3
<1>. QED BY <1>3

LEMMA Rootable == Tables \subseteq PhysicalPages /\ 0 \in PhysicalPages /\ PhysicalPages \subseteq Nat
<1>1. PageBits + 1 \in Nat
    BY SizeAssumption DEF PageBits
<1>2. 2 ^ (PageBits + 1) \in Nat \ {0}
    BY <1>1, PowerDouble
<1>. QED BY <1>2, PagesAssumption, TablesAssumption DEF PhysicalPages

LEMMA EntryType ==
    ASSUME NEW tables \in PageTables, NEW base, NEW k \in 0 .. 2 ^ IdxBits - 1
    PROVE  EntryAt(tables, base, k) \in PageTableEntries
BY Rootable DEF EntryAt, PageTables, PageTableEntries

WalkResults ==
    [fault : {"none", "page fault", "access fault"}, page : Nat,
     leaf : {<<>>} \cup (Tables \X (0 .. 2 ^ IdxBits - 1))]

LEMMA RefusedType == Refused("page fault") \in WalkResults /\ Refused("access fault") \in WalkResults
BY DEF Refused, WalkResults

Harts ==
    [prv : {"M", "S", "U"}, mprv : BOOLEAN, mpp : {"M", "S", "U"}, sum : BOOLEAN,
     mxr : BOOLEAN, satp : Tables \cup {NoTable}, debug : BOOLEAN]

(* What the entries of a level make of good results of the level below. *)
LEMMA WalkEntryType ==
    ASSUME NEW tables \in PageTables, NEW h, NEW page \in Nat, NEW operation, NEW mode,
           NEW below, NEW i \in 0 .. Levels - 1, NEW base \in PhysicalPages,
           \A b \in PhysicalPages : below[b] \in WalkResults
    PROVE  WalkEntry(tables, h, page, operation, mode, below, i, base) \in WalkResults
<1>. DEFINE k == IndexOf(page, i)
            e == EntryAt(tables, base, k)
<1>1. k \in 0 .. 2 ^ IdxBits - 1 /\ e \in PageTableEntries
    BY EntryIndex, EntryType
<1>2. CASE base \in Memory /\ e.kind = "table"
  <2>1. e.ppn \in PhysicalPages
      BY <1>1 DEF PageTableEntries
  <2>. QED BY <1>2, <2>1 DEF WalkEntry
<1>3. CASE /\ base \in Memory /\ e.kind = "leaf" /\ Permits(e.perms, h, operation, mode)
           /\ e.ppn % Span(i) = 0
  <2>1. base \in Tables
      BY <1>3 DEF EntryAt
  <2>2. i * IdxBits \in Nat
      BY SizeAssumption
  <2>3. Span(i) \in Nat \ {0}
      BY <2>2, PowerDouble DEF Span
  <2>4. e.ppn \in Nat
      BY <1>1, Rootable DEF PageTableEntries
  <2>5. e.ppn + (page % Span(i)) \in Nat
      BY <2>3, <2>4
  <2>6. [fault |-> "none", page |-> e.ppn + (page % Span(i)), leaf |-> <<base, k>>]
           \in WalkResults
    <3>. HIDE DEF k, e
    <3>. QED BY <1>1, <2>1, <2>5 DEF WalkResults
  <2>. QED BY <1>3, <2>6 DEF WalkEntry
<1>4. CASE /\ ~(base \in Memory /\ e.kind = "table")
           /\ ~(/\ base \in Memory /\ e.kind = "leaf" /\ Permits(e.perms, h, operation, mode)
                /\ e.ppn % Span(i) = 0)
    BY <1>4, RefusedType DEF WalkEntry
<1>. QED BY <1>2, <1>3, <1>4

(* A walk finds a page or a fault, and a leaf only in a page table. *)
LEMMA WalkType ==
    ASSUME NEW tables \in PageTables, NEW h \in Harts, NEW page \in Nat,
           NEW operation, NEW mode
    PROVE  walk(tables, h, page, operation, mode) \in WalkResults
<1>. PICK from : from = WalkLevels(tables, h, page, operation, mode)
    OBVIOUS
<1>. DEFINE Good == [i \in -1 .. Levels - 1 |->
                        {b \in PhysicalPages : from[i][b] \in WalkResults}]
<1>0. LevelResults(tables, h, page, operation, mode, from)
    BY WalkSteps
<1>1. Levels \in Nat \ {0} /\ -1 \in -1 .. Levels - 1
    BY SizeAssumption
<1>2. \A b \in PhysicalPages : b \in Good[-1]
  <2>. SUFFICES ASSUME NEW b \in PhysicalPages PROVE from[-1][b] \in WalkResults
      BY <1>1
  <2>1. from[-1][b] = Refused("page fault")
      BY <1>0 DEF LevelResults
  <2>. QED BY <2>1, RefusedType
<1>3. ASSUME NEW i \in 0 .. Levels - 1, \A b \in PhysicalPages : b \in Good[i - 1]
      PROVE  \A b \in PhysicalPages : b \in Good[i]
  <2>1. i \in -1 .. Levels - 1 /\ i - 1 \in -1 .. Levels - 1 /\ ~(i < 0)
      BY <1>1
  <2>2. \A b \in PhysicalPages : from[i - 1][b] \in WalkResults
      BY <1>3, <2>1
  <2>. SUFFICES ASSUME NEW b \in PhysicalPages PROVE from[i][b] \in WalkResults
      BY <2>1
  <2>3. from[i][b] = WalkEntry(tables, h, page, operation, mode, from[i - 1], i, b)
      BY <1>0 DEF LevelResults
  <2>. QED BY <2>2, <2>3, WalkEntryType
<1>4. \A i \in -1 .. Levels - 1, b \in PhysicalPages : b \in Good[i]
  <2>. HIDE DEF Good
  <2>. QED BY <1>2, <1>3, WalkInduction
<1>5. \A b \in PhysicalPages : from[Levels - 1][b] \in WalkResults
    BY <1>1, <1>4
<1>6. CASE mode = "M" \/ h.satp = NoTable
  <2>1. walk(tables, h, page, operation, mode) = [fault |-> "none", page |-> page, leaf |-> <<>>]
      BY <1>6 DEF walk
  <2>. QED BY <2>1 DEF WalkResults
<1>7. CASE ~(mode = "M" \/ h.satp = NoTable)
  <2>1. h.satp \in PhysicalPages
      BY <1>7, Rootable DEF Harts
  <2>2. walk(tables, h, page, operation, mode) \in {from[Levels - 1][h.satp], Refused("page fault")}
      BY <1>7 DEF walk
  <2>. QED BY <1>5, <2>1, <2>2, RefusedType
<1>. QED BY <1>6, <1>7

(* The page that is found depends on the operation only in whether it is   *)
(* found: the tags of the three operations may share one translation.      *)
LEMMA WalksAgree ==
    ASSUME NEW tables \in PageTables, NEW h \in Harts, NEW page \in Nat, NEW mode,
           NEW o1, NEW o2,
           walk(tables, h, page, o1, mode).fault = "none",
           walk(tables, h, page, o2, mode).fault = "none"
    PROVE  walk(tables, h, page, o1, mode).page = walk(tables, h, page, o2, mode).page
<1>. PICK f : f = WalkLevels(tables, h, page, o1, mode)
    OBVIOUS
<1>. PICK g : g = WalkLevels(tables, h, page, o2, mode)
    OBVIOUS
<1>. DEFINE Agree1(x, y) == x.fault = "none" /\ y.fault = "none" => x.page = y.page
            Good == [i \in -1 .. Levels - 1 |->
                        {b \in PhysicalPages : Agree1(f[i][b], g[i][b])}]
<1>0. LevelResults(tables, h, page, o1, mode, f) /\ LevelResults(tables, h, page, o2, mode, g)
    BY WalkSteps
<1>1. Levels \in Nat \ {0} /\ -1 \in -1 .. Levels - 1
    BY SizeAssumption
<1>2. \A b \in PhysicalPages : b \in Good[-1]
  <2>. SUFFICES ASSUME NEW b \in PhysicalPages PROVE Agree1(f[-1][b], g[-1][b])
      BY <1>1
  <2>1. f[-1][b] = Refused("page fault") /\ g[-1][b] = Refused("page fault")
      BY <1>0 DEF LevelResults
  <2>. QED BY <2>1
<1>3. ASSUME NEW i \in 0 .. Levels - 1, \A b \in PhysicalPages : b \in Good[i - 1]
      PROVE  \A b \in PhysicalPages : b \in Good[i]
  <2>1. i \in -1 .. Levels - 1 /\ i - 1 \in -1 .. Levels - 1
      BY <1>1
  <2>2. \A b \in PhysicalPages : Agree1(f[i - 1][b], g[i - 1][b])
      BY <1>3, <2>1
  <2>. SUFFICES ASSUME NEW b \in PhysicalPages PROVE Agree1(f[i][b], g[i][b])
      BY <2>1
  <2>. DEFINE e == EntryAt(tables, b, IndexOf(page, i))
  <2>3. /\ f[i][b] = WalkEntry(tables, h, page, o1, mode, f[i - 1], i, b)
        /\ g[i][b] = WalkEntry(tables, h, page, o2, mode, g[i - 1], i, b)
      BY <1>0 DEF LevelResults
  <2>4. e.ppn \in PhysicalPages
      BY EntryIndex, EntryType DEF PageTableEntries
  <2>5. CASE b \in Memory /\ e.kind = "table"
    <3>1. f[i][b] = f[i - 1][e.ppn] /\ g[i][b] = g[i - 1][e.ppn]
        BY <2>3, <2>5 DEF WalkEntry
    <3>. QED BY <2>2, <2>4, <3>1
  <2>6. CASE ~(b \in Memory /\ e.kind = "table")
    <3>. DEFINE found == [fault |-> "none", page |-> e.ppn + (page % Span(i)),
                          leaf |-> <<b, IndexOf(page, i)>>]
    <3>1. /\ f[i][b] \in {Refused("page fault"), Refused("access fault"), found}
          /\ g[i][b] \in {Refused("page fault"), Refused("access fault"), found}
        BY <2>3, <2>6 DEF WalkEntry
    <3>2. Refused("page fault").fault # "none" /\ Refused("access fault").fault # "none"
        BY DEF Refused
    <3>. HIDE DEF found
    <3>. QED BY <3>1, <3>2
  <2>. QED BY <2>5, <2>6
<1>4. \A i \in -1 .. Levels - 1, b \in PhysicalPages : b \in Good[i]
  <2>. HIDE DEF Good
  <2>. QED BY <1>2, <1>3, WalkInduction
<1>5. \A b \in PhysicalPages : Agree1(f[Levels - 1][b], g[Levels - 1][b])
    BY <1>1, <1>4
<1>6. CASE mode = "M" \/ h.satp = NoTable
    BY <1>6 DEF walk
<1>7. CASE ~(mode = "M" \/ h.satp = NoTable)
  <2>1. h.satp \in PhysicalPages
      BY <1>7, Rootable DEF Harts
  <2>2. CASE Canonical(page)
    <3>1. /\ walk(tables, h, page, o1, mode) = f[Levels - 1][h.satp]
          /\ walk(tables, h, page, o2, mode) = g[Levels - 1][h.satp]
        BY <1>7, <2>2 DEF walk
    <3>. QED BY <1>5, <2>1, <3>1
  <2>3. CASE ~Canonical(page)
      BY <1>7, <2>3 DEF walk, Refused
  <2>. QED BY <2>2, <2>3
<1>. QED BY <1>6, <1>7

(* Tables that differ in what a walk does not look at.                     *)
SimilarEntries(e1, e2) ==
    /\ e1.kind = e2.kind /\ e1.ppn = e2.ppn
    /\ \A h, mode : \A operation \in Operations :
          Permits(e1.perms, h, operation, mode) <=> Permits(e2.perms, h, operation, mode)

Similar(t1, t2) ==
    \A base : \A k \in 0 .. 2 ^ IdxBits - 1 :
        SimilarEntries(EntryAt(t1, base, k), EntryAt(t2, base, k))

LEMMA SimilarWalks ==
    ASSUME NEW t1 \in PageTables, NEW t2 \in PageTables, Similar(t1, t2),
           NEW h \in Harts, NEW page \in Nat, NEW operation \in Operations, NEW mode
    PROVE  walk(t1, h, page, operation, mode) = walk(t2, h, page, operation, mode)
<1>. PICK f : f = WalkLevels(t1, h, page, operation, mode)
    OBVIOUS
<1>. PICK g : g = WalkLevels(t2, h, page, operation, mode)
    OBVIOUS
<1>. DEFINE Good == [i \in -1 .. Levels - 1 |-> {b \in PhysicalPages : f[i][b] = g[i][b]}]
<1>0. LevelResults(t1, h, page, operation, mode, f)
      /\ LevelResults(t2, h, page, operation, mode, g)
    BY WalkSteps
<1>1. Levels \in Nat \ {0} /\ -1 \in -1 .. Levels - 1
    BY SizeAssumption
<1>2. \A b \in PhysicalPages : b \in Good[-1]
  <2>. SUFFICES ASSUME NEW b \in PhysicalPages PROVE f[-1][b] = g[-1][b]
      BY <1>1
  <2>1. f[-1][b] = Refused("page fault") /\ g[-1][b] = Refused("page fault")
      BY <1>0 DEF LevelResults
  <2>. QED BY <2>1
<1>3. ASSUME NEW i \in 0 .. Levels - 1, \A b \in PhysicalPages : b \in Good[i - 1]
      PROVE  \A b \in PhysicalPages : b \in Good[i]
  <2>1. i \in -1 .. Levels - 1 /\ i - 1 \in -1 .. Levels - 1
      BY <1>1
  <2>2. \A b \in PhysicalPages : f[i - 1][b] = g[i - 1][b]
      BY <1>3, <2>1
  <2>. SUFFICES ASSUME NEW b \in PhysicalPages PROVE f[i][b] = g[i][b]
      BY <2>1
  <2>. DEFINE e1 == EntryAt(t1, b, IndexOf(page, i))
              e2 == EntryAt(t2, b, IndexOf(page, i))
  <2>3. /\ f[i][b] = WalkEntry(t1, h, page, operation, mode, f[i - 1], i, b)
        /\ g[i][b] = WalkEntry(t2, h, page, operation, mode, g[i - 1], i, b)
      BY <1>0 DEF LevelResults
  <2>4. e1.ppn \in PhysicalPages /\ SimilarEntries(e1, e2)
      BY EntryIndex, EntryType DEF PageTableEntries, Similar
  <2>5. /\ e1.kind = e2.kind /\ e1.ppn = e2.ppn
        /\ Permits(e1.perms, h, operation, mode) <=> Permits(e2.perms, h, operation, mode)
      BY <2>4 DEF SimilarEntries
  <2>6. f[i - 1][e1.ppn] = g[i - 1][e2.ppn]
      BY <2>2, <2>4, <2>5
  <2>. QED BY <2>3, <2>5, <2>6 DEF WalkEntry
<1>4. \A i \in -1 .. Levels - 1, b \in PhysicalPages : b \in Good[i]
  <2>. HIDE DEF Good
  <2>. QED BY <1>2, <1>3, WalkInduction
<1>5. \A b \in PhysicalPages : f[Levels - 1][b] = g[Levels - 1][b]
    BY <1>1, <1>4
<1>6. CASE mode = "M" \/ h.satp = NoTable
    BY <1>6 DEF walk
<1>7. CASE ~(mode = "M" \/ h.satp = NoTable)
  <2>1. h.satp \in PhysicalPages
      BY <1>7, Rootable DEF Harts
  <2>. QED BY <1>5, <1>7, <2>1 DEF walk
<1>. QED BY <1>6, <1>7

(* Setting the accessed and dirty bits changes no walk. *)
LEMMA TouchedSimilar ==
    ASSUME NEW tables \in PageTables, NEW r \in WalkResults, NEW operation
    PROVE  Touched(tables, r, operation) \in PageTables
           /\ Similar(tables, Touched(tables, r, operation))
<1>. DEFINE t == Touched(tables, r, operation)
<1>1. CASE ~(EnableDirty /\ r.leaf # <<>>)
  <2>1. t = tables
      BY <1>1 DEF Touched
  <2>. QED BY <2>1 DEF Similar, SimilarEntries
<1>2. CASE EnableDirty /\ r.leaf # <<>>
  <2>0. r.leaf \in Tables \X (0 .. 2 ^ IdxBits - 1)
      BY <1>2 DEF WalkResults
  <2>1. PICK base \in Tables, k \in 0 .. 2 ^ IdxBits - 1 :
            r.leaf[1] = base /\ r.leaf[2] = k
      BY <2>0
  <2>. DEFINE bits == {"A"} \cup (IF operation = "STORE" THEN {"D"} ELSE {})
              e == tables[base][k]
              new == [e EXCEPT !.perms = @ \cup bits]
  <2>2. t = [tables EXCEPT ![base] = [@ EXCEPT ![k] = new]]
      BY <1>2, <2>1 DEF Touched, PageTables
  <2>3. e \in PageTableEntries /\ bits \subseteq {"A", "D"}
      BY DEF PageTables
  <2>4. new \in PageTableEntries /\ new.kind = e.kind /\ new.ppn = e.ppn
        /\ new.perms = e.perms \cup bits
    <3>. HIDE DEF e, bits
    <3>. QED BY <2>3 DEF PageTableEntries
  <2>5. SimilarEntries(e, new)
    <3>1. \A x \in {"U", "R", "W", "X"} : x \in new.perms <=> x \in e.perms
      <4>. HIDE DEF e, bits, new
      <4>. QED BY <2>3, <2>4
    <3>. HIDE DEF e, bits, new
    <3>. QED BY <1>2, <2>4, <3>1 DEF SimilarEntries, Permits, Operations
  <2>6. t \in PageTables
    <3>. HIDE DEF new, t
    <3>. QED BY <2>2, <2>4 DEF PageTables
  <2>7. ASSUME NEW b, NEW j \in 0 .. 2 ^ IdxBits - 1
        PROVE  SimilarEntries(EntryAt(tables, b, j), EntryAt(t, b, j))
    <3>1. CASE b = base /\ j = k
      <4>1. EntryAt(tables, b, j) = e /\ EntryAt(t, b, j) = new
        <5>. HIDE DEF new, t
        <5>. QED BY <2>2, <3>1 DEF EntryAt, PageTables
      <4>. QED BY <2>5, <4>1
    <3>2. CASE ~(b = base /\ j = k)
      <4>1. EntryAt(t, b, j) = EntryAt(tables, b, j)
        <5>. HIDE DEF new, t
        <5>. QED BY <2>2, <3>2 DEF EntryAt, PageTables
      <4>. QED BY <4>1 DEF SimilarEntries
    <3>. QED BY <3>1, <3>2
  <2>. QED BY <2>6, <2>7 DEF Similar
<1>. QED BY <1>1, <1>2
-----------------------------------------------------------------------------
(* The buffers.                                                            *)

Entries == [page : Int, check : BOOLEAN]
Lines   == {NoLine} \cup [tag : Nat, halves : Seq(Int)]
Buffers ==
    [tag : [Operations -> [0 .. TLB_ENTRIES - 1 -> Entries]],
     data : [0 .. TLB_ENTRIES - 1 -> Int],
     icache : [0 .. ICACHE_ENTRIES - 1 -> Lines],
     checks : SUBSET Operations, reservation : Int]

(* What makes the buffers m right in this state: the translations are the  *)
(* walk's; an entry that is not checked is for an operation no trigger     *)
(* looks at; and every halfword of cached code is where the walk finds it  *)
(* and sets no trigger off.                                                *)
GoodTranslations(m) ==
    Synchronized /\ OneMode => \A o \in Operations, page \in Nat : Hit(m, o, page) =>
        Walked(o, page).fault = "none" /\ Walked(o, page).page = Target(m, page)

GoodTags(m) ==
    \A o \in Operations, i \in 0 .. TLB_ENTRIES - 1 :
        m.tag[o][i] # NoTag /\ ~m.tag[o][i].check => o \notin m.checks

GoodHalf(addr, phys) ==
    /\ Synchronized /\ OneMode =>
          /\ Walked("FETCH", PageOf(addr)).fault = "none"
          /\ phys = Physical(Walked("FETCH", PageOf(addr)), addr)
    /\ "tdata2" \notin stale /\ PageOf(phys) \in Memory =>
          match("FETCH", addr, Code[phys]) = NoMatch

GoodLine(line) == \A k \in DOMAIN line.halves : GoodHalf(line.tag + k - 1, line.halves[k])
GoodCode(m) == \A i \in 0 .. ICACHE_ENTRIES - 1 : GoodLine(m.icache[i])

(* Every operation a trigger looks at has its check flag set. *)
Watched(m) == \A t \in Indexes : mcontrol[t].on \subseteq m.checks

GoodBuffers(m) ==
    /\ m \in Buffers /\ Watched(m)
    /\ GoodTranslations(m) /\ GoodTags(m) /\ GoodCode(m)

(* The tables are the ones of the model, and the hart's registers too. *)
Registers ==
    /\ hart \in Harts /\ pte \in PageTables
    /\ mcontrol \in [Indexes -> MControls]

MInv == Registers /\ GoodBuffers(mmu)

(* A trigger is reported only if one looks at the operation. *)
LEMMA MatchType ==
    ASSUME NEW operation, NEW addr, NEW datum
    PROVE  /\ match(operation, addr, datum) \in Indexes \cup {NoMatch}
           /\ (\A t \in Indexes : operation \notin mcontrol[t].on)
                 => match(operation, addr, datum) = NoMatch
<1>. DEFINE firing == {i \in Indexes :
                          /\ ~mcontrol[i].chain
                          /\ TriggerFires(mcontrol[i], tdata2[i], hart.prv,
                                          operation, addr, datum)}
            first == CHOOSE i \in firing : \A j \in firing : i <= j
<1>1. match(operation, addr, datum) = IF hart.debug \/ firing = {} THEN NoMatch ELSE first
    BY DEF match, trigger_match
<1>2. firing # {} => first \in firing
  <2>1. firing \subseteq Nat
      BY TriggersAssumption DEF Indexes
  <2>2. firing # {} => \E i \in firing : \A j \in firing : i <= j
    <3>. HIDE DEF firing
    <3>. QED BY <2>1, LeastNat
  <2>. HIDE DEF firing
  <2>. QED BY <2>2
<1>3. firing \subseteq Indexes
    OBVIOUS
<1>4. (\A t \in Indexes : operation \notin mcontrol[t].on) => firing = {}
    BY DEF TriggerFires
<1>. HIDE DEF firing, first
<1>. QED BY <1>1, <1>2, <1>3, <1>4

(* A walk through tables that are similar to the ones in memory. *)
LEMMA FoundWalk ==
    ASSUME Registers, NEW tables \in PageTables, Similar(pte, tables),
           NEW page \in Nat, NEW operation \in Operations
    PROVE  /\ translate(tables, hart, page, operation) = Walked(operation, page)
           /\ Walked(operation, page) \in WalkResults
BY SimilarWalks, WalkType DEF Registers, translate, Walked

(* Where all operations have one mode, they find one page. *)
LEMMA OneTranslation ==
    ASSUME Registers, OneMode, NEW page \in Nat, NEW o1 \in Operations, NEW o2 \in Operations,
           Walked(o1, page).fault = "none", Walked(o2, page).fault = "none"
    PROVE  Walked(o1, page).page = Walked(o2, page).page
<1>1. Mode(hart, o1) = Mode(hart, o2)
    BY DEF OneMode, Mode, Operations
<1>. QED BY <1>1, WalksAgree DEF Registers, Walked, translate

(* An empty buffer is right in every state. *)
LEMMA FlushedType ==
    ASSUME NEW m \in Buffers
    PROVE  /\ Flushed(m) \in Buffers /\ Flushed(m).checks = m.checks
           /\ \A o \in Operations, i \in 0 .. TLB_ENTRIES - 1 : Flushed(m).tag[o][i] = NoTag
           /\ \A i \in 0 .. ICACHE_ENTRIES - 1 : Flushed(m).icache[i] = NoLine
<1>1. NoTag \in Entries /\ NoLine \in Lines
    BY DEF NoTag, NoLine, Entries, Lines
<1>. QED BY <1>1 DEF Flushed, Buffers

LEMMA EmptyGood ==
    ASSUME NEW m,
           \A o \in Operations, i \in 0 .. TLB_ENTRIES - 1 : m.tag[o][i] = NoTag
    PROVE  GoodTranslations(m) /\ GoodTags(m)
<1>1. \A o \in Operations, page \in Nat : ~Hit(m, o, page)
    BY IndexRange DEF Hit, NoTag
<1>. QED BY <1>1 DEF GoodTranslations, GoodTags

LEMMA NoCodeGood ==
    ASSUME NEW m, \A i \in 0 .. ICACHE_ENTRIES - 1 : m.icache[i] = NoLine
    PROVE  GoodCode(m)
BY DEF GoodCode, GoodLine, NoLine

(* Refilling an entry keeps the translations of the other operations only  *)
(* where they agree with the new one.                                      *)
LEMMA RefillGood ==
    ASSUME Registers, NEW m, GoodBuffers(m), NEW page \in Nat, NEW operation \in Operations,
           NEW target \in Int,
           Synchronized /\ OneMode => /\ Walked(operation, page).fault = "none"
                                      /\ target = Walked(operation, page).page
    PROVE  /\ GoodBuffers(refill_tlb(m, page, target, operation))
           /\ Hit(refill_tlb(m, page, target, operation), operation, page)
           /\ refill_tlb(m, page, target, operation).checks = m.checks
           /\ Target(refill_tlb(m, page, target, operation), page) = target
<1>. DEFINE i == Idx(page)
            n == refill_tlb(m, page, target, operation)
            new == [page |-> page, check |-> operation \in m.checks]
            kept(o) == IF Hit(m, o, page) THEN m.tag[o][i] ELSE NoTag
<1>0. m \in Buffers /\ i \in 0 .. TLB_ENTRIES - 1 /\ new \in Entries /\ NoTag \in Entries
    BY IndexRange DEF GoodBuffers, Entries, NoTag
<1>1. n = [m EXCEPT !.data = [@ EXCEPT ![i] = target - page],
                    !.tag = [o \in Operations |-> [m.tag[o] EXCEPT
                                ![i] = IF o = operation THEN new ELSE kept(o)]]]
    BY <1>0 DEF refill_tlb, Buffers
<1>2. \A o \in Operations : m.tag[o] \in [0 .. TLB_ENTRIES - 1 -> Entries] /\ kept(o) \in Entries
    BY <1>0 DEF Buffers
<1>. DEFINE tags == [o \in Operations |-> [m.tag[o] EXCEPT
                        ![i] = IF o = operation THEN new ELSE kept(o)]]
<1>3. tags \in [Operations -> [0 .. TLB_ENTRIES - 1 -> Entries]]
  <2>. HIDE DEF new, kept, i
  <2>. QED BY <1>0, <1>2
<1>4. [m.data EXCEPT ![i] = target - page] \in [0 .. TLB_ENTRIES - 1 -> Int]
    BY <1>0 DEF Buffers
<1>5. /\ n.tag = tags /\ n.data = [m.data EXCEPT ![i] = target - page]
      /\ n.checks = m.checks /\ n.icache = m.icache /\ n \in Buffers
  <2>. HIDE DEF n, tags, i
  <2>. QED BY <1>0, <1>1, <1>3, <1>4 DEF Buffers, tags
<1>6. \A o \in Operations, j \in 0 .. TLB_ENTRIES - 1 : j # i => n.tag[o][j] = m.tag[o][j]
  <2>. HIDE DEF n, new, kept, i
  <2>. QED BY <1>0, <1>2, <1>5
<1>7. ASSUME NEW o \in Operations
      PROVE  n.tag[o][i] = IF o = operation THEN new ELSE kept(o)
  <2>1. n.tag[o] = [m.tag[o] EXCEPT ![i] = IF o = operation THEN new ELSE kept(o)]
    <3>. HIDE DEF n, new, kept, i
    <3>. QED BY <1>5
  <2>. HIDE DEF n, new, kept, i
  <2>. QED BY <1>0, <1>2, <2>1
<1>8. n.data[i] = target - page /\ \A j \in 0 .. TLB_ENTRIES - 1 : j # i => n.data[j] = m.data[j]
  <2>. HIDE DEF n, i
  <2>. QED BY <1>0, <1>5 DEF Buffers
<1>9. Hit(n, operation, page) /\ Target(n, page) = target
  <2>. HIDE DEF n
  <2>. QED BY <1>7, <1>8 DEF Hit, Target
<1>10. GoodTags(n)
  <2>. SUFFICES ASSUME NEW o \in Operations, NEW j \in 0 .. TLB_ENTRIES - 1,
                       n.tag[o][j] # NoTag, ~n.tag[o][j].check
                PROVE  o \notin m.checks
    <3>. HIDE DEF n
    <3>. QED BY <1>5 DEF GoodTags
  <2>1. n.tag[o][j] = m.tag[o][j] \/ (o = operation /\ n.tag[o][j] = new)
    <3>. HIDE DEF n, i, new
    <3>. QED BY <1>6, <1>7
  <2>2. new.check = (operation \in m.checks)
      OBVIOUS
  <2>. HIDE DEF n, i, new
  <2>. QED BY <2>1, <2>2 DEF GoodTags, GoodBuffers
<1>11. GoodTranslations(n)
  <2>. SUFFICES ASSUME Synchronized, OneMode, NEW o \in Operations, NEW p \in Nat, Hit(n, o, p)
                PROVE  Walked(o, p).fault = "none" /\ Walked(o, p).page = Target(n, p)
      BY DEF GoodTranslations
  <2>1. Idx(p) \in 0 .. TLB_ENTRIES - 1
      BY IndexRange
  <2>2. CASE Idx(p) # i
    <3>1. Hit(m, o, p) /\ Target(n, p) = Target(m, p)
      <4>. HIDE DEF n, i
      <4>. QED BY <1>6, <1>8, <2>1, <2>2 DEF Hit, Target
    <3>. QED BY <3>1 DEF GoodBuffers, GoodTranslations
  <2>3. CASE Idx(p) = i
    <3>1. n.tag[o][i].page = p
      <4>. HIDE DEF n, i
      <4>. QED BY <2>3 DEF Hit
    <3>2. p = page /\ (o = operation \/ Hit(m, o, page))
      <4>1. NoTag.page = -1 /\ new.page = page
          BY DEF NoTag
      <4>2. Hit(m, o, page) => m.tag[o][i].page = page
          BY DEF Hit
      <4>. HIDE DEF n, i, new
      <4>. QED BY <1>7, <3>1, <4>1, <4>2
    <3>3. Walked(o, page).fault = "none"
      <4>. HIDE DEF n
      <4>. QED BY <3>2 DEF GoodBuffers, GoodTranslations
    <3>4. Walked(o, page).page = Walked(operation, page).page
        BY <3>3, OneTranslation
    <3>. HIDE DEF n
    <3>. QED BY <1>9, <3>2, <3>3, <3>4
  <2>. QED BY <2>2, <2>3
<1>12. GoodCode(n) /\ Watched(n)
  <2>. HIDE DEF n
  <2>. QED BY <1>5 DEF GoodBuffers, GoodCode, Watched
<1>. HIDE DEF n
<1>. QED BY <1>5, <1>9, <1>10, <1>11, <1>12 DEF GoodBuffers, n

-----------------------------------------------------------------------------
(* Outcomes.                                                               *)

Outcomes ==
    [mmu : Buffers, pte : PageTables, page : Int, index : Indexes \cup {NoMatch},
     event : {"done", "trigger", "page fault", "access fault"}]

(* The buffers a call leaves are right, and the tables it leaves are the   *)
(* ones it found but for the accessed and dirty bits.                      *)
GoodOutcome(o) == o \in Outcomes /\ GoodBuffers(o.mmu) /\ Similar(pte, o.pte)

LEMMA SimilarReflexive == ASSUME NEW t PROVE Similar(t, t)
BY DEF Similar, SimilarEntries

LEMMA SimilarTransitive ==
    ASSUME NEW t1, NEW t2, NEW t3, Similar(t1, t2), Similar(t2, t3)
    PROVE  Similar(t1, t3)
BY DEF Similar, SimilarEntries

LEMMA OutcomeGood ==
    ASSUME NEW m, GoodBuffers(m), NEW tables \in PageTables, Similar(pte, tables)
    PROVE  /\ GoodOutcome(Outcome(m, tables)) /\ Outcome(m, tables).event = "done"
           /\ Outcome(m, tables).mmu = m /\ Outcome(m, tables).pte = tables
<1>1. m \in Buffers
    BY DEF GoodBuffers
<1>2. Outcome(m, tables) \in Outcomes
    BY <1>1 DEF Outcome, Outcomes
<1>. QED BY <1>2 DEF GoodOutcome, Outcome

LEMMA EndedGood ==
    ASSUME NEW o, GoodOutcome(o), NEW event \in {"page fault", "access fault"}
    PROVE  GoodOutcome(Ended(o, event)) /\ Ended(o, event).event = event
BY DEF GoodOutcome, Ended, Outcomes

LEMMA MatchedGood ==
    ASSUME NEW o, GoodOutcome(o), NEW index \in Indexes \cup {NoMatch}
    PROVE  GoodOutcome(Matched(o, index)) /\ Matched(o, index).event = "trigger"
BY DEF GoodOutcome, Matched, Outcomes

LEMMA PageGood ==
    ASSUME NEW o, GoodOutcome(o), NEW page \in Int
    PROVE  /\ GoodOutcome([o EXCEPT !.page = page])
           /\ [o EXCEPT !.page = page].page = page
           /\ [o EXCEPT !.page = page].mmu = o.mmu
           /\ [o EXCEPT !.page = page].event = o.event
BY DEF GoodOutcome, Outcomes

LEMMA MarkedGood ==
    ASSUME NEW o, GoodOutcome(o), NEW r \in WalkResults, NEW operation
    PROVE  /\ GoodOutcome(Marked(o, r, operation))
           /\ Marked(o, r, operation).page = r.page
           /\ Marked(o, r, operation).event = o.event
<1>0. r.page \in Nat
    BY DEF WalkResults
<1>1. o \in Outcomes /\ o.pte \in PageTables /\ r.page \in Int
  <2>1. o \in Outcomes /\ o.pte \in PageTables
      BY DEF GoodOutcome, Outcomes
  <2>2. r.page \in Int
      BY <1>0
  <2>. QED BY <2>1, <2>2
<1>2. Touched(o.pte, r, operation) \in PageTables
      /\ Similar(o.pte, Touched(o.pte, r, operation))
    BY <1>1, TouchedSimilar
<1>3. Similar(pte, Touched(o.pte, r, operation))
    BY <1>2, SimilarTransitive DEF GoodOutcome
<1>4. /\ Marked(o, r, operation) \in Outcomes
      /\ Marked(o, r, operation).mmu = o.mmu
      /\ Marked(o, r, operation).pte = Touched(o.pte, r, operation)
      /\ Marked(o, r, operation).page = r.page
      /\ Marked(o, r, operation).event = o.event
    BY <1>1, <1>2 DEF Marked, Outcomes
<1>. QED BY <1>3, <1>4 DEF GoodOutcome

LEMMA RefilledGood ==
    ASSUME Registers, NEW o, GoodOutcome(o), NEW page \in Nat, NEW operation \in Operations,
           Synchronized /\ OneMode => /\ Walked(operation, page).fault = "none"
                                      /\ o.page = Walked(operation, page).page
    PROVE  /\ GoodOutcome(Refilled(o, page, operation))
           /\ Hit(Refilled(o, page, operation).mmu, operation, page)
           /\ Refilled(o, page, operation).page = o.page
           /\ Refilled(o, page, operation).event = o.event
<1>1. o \in Outcomes /\ o.page \in Int /\ GoodBuffers(o.mmu)
    BY DEF GoodOutcome, Outcomes
<1>2. PICK n : n = refill_tlb(o.mmu, page, o.page, operation)
    OBVIOUS
<1>3. GoodBuffers(n) /\ Hit(n, operation, page)
    BY <1>1, <1>2, RefillGood
<1>4. n \in Buffers
    BY <1>3 DEF GoodBuffers
<1>5. Refilled(o, page, operation) = [o EXCEPT !.mmu = n]
    BY <1>2 DEF Refilled
<1>. QED BY <1>1, <1>3, <1>4, <1>5 DEF GoodOutcome, Outcomes

(* A hit: the walk would find the page, and the tag says whether a trigger *)
(* looks at the operation.                                                 *)
LEMMA HitGood ==
    ASSUME NEW m, GoodBuffers(m), NEW operation \in Operations, NEW page \in Nat,
           Hit(m, operation, page)
    PROVE  /\ Target(m, page) \in Int
           /\ Synchronized /\ OneMode => /\ Walked(operation, page).fault = "none"
                                         /\ Target(m, page) = Walked(operation, page).page
           /\ ~Checks(m, operation, page) => \A t \in Indexes : operation \notin mcontrol[t].on
<1>1. Idx(page) \in 0 .. TLB_ENTRIES - 1 /\ m \in Buffers
    BY IndexRange DEF GoodBuffers
<1>2. m.data[Idx(page)] \in Int
    BY <1>1 DEF Buffers
<1>3. m.tag[operation][Idx(page)] # NoTag
    BY DEF Hit, NoTag
<1>4. ~Checks(m, operation, page) => operation \notin m.checks
    BY <1>1, <1>3 DEF Checks, GoodBuffers, GoodTags
<1>5. Target(m, page) \in Int
    BY <1>2 DEF Target
<1>. QED BY <1>4, <1>5 DEF GoodBuffers, GoodTranslations, Watched

-----------------------------------------------------------------------------
(* Fetching.                                                               *)

LEMMA FetchSlowPathGood ==
    ASSUME Registers, NEW o, GoodOutcome(o), NEW page \in Nat, NEW f,
           f = FetchSlowPath(o, page, Walked("FETCH", page))
    PROVE  /\ GoodOutcome(f)
           /\ f.event = "done" =>
                 /\ Walked("FETCH", page).fault = "none"
                 /\ f.page = Walked("FETCH", page).page
                 /\ f.page \in Memory => Hit(f.mmu, "FETCH", page)
<1>. PICK r : r = Walked("FETCH", page)
    OBVIOUS
<1>0. "FETCH" \in Operations
    BY DEF Operations
<1>1. r \in WalkResults
    BY <1>0, FoundWalk, SimilarReflexive DEF Registers
<1>2. r.fault \in {"none", "page fault", "access fault"}
    BY <1>1 DEF WalkResults
<1>. PICK g : g = Marked(o, r, "FETCH")
    OBVIOUS
<1>3. GoodOutcome(g) /\ g.page = r.page /\ g.event = o.event
    BY <1>1, MarkedGood
<1>4. CASE r.fault # "none"
  <2>1. f = Ended(o, r.fault)
      BY <1>4 DEF FetchSlowPath
  <2>. QED BY <1>2, <1>4, <2>1, EndedGood
<1>5. CASE r.fault = "none" /\ r.page \in Memory
  <2>1. r.page \notin Devices
      BY <1>5, PagesAssumption
  <2>2. f = Refilled(g, page, "FETCH")
      BY <1>5, <2>1 DEF FetchSlowPath
  <2>. QED BY <1>0, <1>3, <1>5, <2>2, RefilledGood
<1>6. CASE r.fault = "none" /\ r.page \in Devices
  <2>1. r.page \notin Memory
      BY <1>6, PagesAssumption
  <2>2. f = g
      BY <1>6, <2>1 DEF FetchSlowPath
  <2>. QED BY <1>3, <1>6, <2>1, <2>2
<1>7. CASE r.fault = "none" /\ r.page \notin Memory \cup Devices
  <2>1. f = Ended(g, "access fault")
      BY <1>7 DEF FetchSlowPath
  <2>. QED BY <1>3, <2>1, EndedGood
<1>. QED BY <1>4, <1>5, <1>6, <1>7

LEMMA CheckedFetchGood ==
    ASSUME NEW o, GoodOutcome(o), NEW addr \in Nat, NEW c, c = CheckedFetch(o, addr),
           o.event = "done" =>
              /\ Synchronized /\ OneMode => /\ Walked("FETCH", PageOf(addr)).fault = "none"
                                            /\ o.page = Walked("FETCH", PageOf(addr)).page
              /\ o.page \in Memory => Hit(o.mmu, "FETCH", PageOf(addr))
    PROVE  GoodOutcome(c) /\ (c.event = "done" => GoodHalf(addr, Physical(c, addr)))
<1>. DEFINE m == match("FETCH", addr, Code[Physical(o, addr)])
<1>0. "FETCH" \in Operations /\ PageOf(addr) \in Nat /\ m \in Indexes \cup {NoMatch}
    BY IndexRange, MatchType DEF Operations
<1>1. CASE o.event = "done" /\ Checks(o.mmu, "FETCH", PageOf(addr)) /\ m # NoMatch
  <2>1. c = Matched(o, m)
      BY <1>1 DEF CheckedFetch
  <2>. HIDE DEF m
  <2>. QED BY <1>0, <2>1, MatchedGood
<1>2. CASE ~(o.event = "done" /\ Checks(o.mmu, "FETCH", PageOf(addr)) /\ m # NoMatch)
  <2>1. c = o
      BY <1>2 DEF CheckedFetch
  <2>. SUFFICES ASSUME o.event = "done" PROVE GoodHalf(addr, Physical(o, addr))
      BY <2>1
  <2>2. o.page \in Int /\ GoodBuffers(o.mmu)
      BY DEF GoodOutcome, Outcomes
  <2>3. PageOf(Physical(o, addr)) = o.page
      BY <2>2, PhysicalPage
  <2>4. o.page \in Memory => m = NoMatch
    <3>. SUFFICES ASSUME o.page \in Memory, ~Checks(o.mmu, "FETCH", PageOf(addr))
                  PROVE  m = NoMatch
        BY <1>2
    <3>1. \A t \in Indexes : "FETCH" \notin mcontrol[t].on
        BY <1>0, <2>2, HitGood
    <3>. QED BY <3>1, MatchType
  <2>5. ASSUME Synchronized, OneMode
        PROVE  /\ Walked("FETCH", PageOf(addr)).fault = "none"
               /\ Physical(o, addr) = Physical(Walked("FETCH", PageOf(addr)), addr)
      BY <2>5 DEF Physical
  <2>. QED BY <2>3, <2>4, <2>5 DEF GoodHalf
<1>. QED BY <1>1, <1>2

LEMMA TranslateGood ==
    ASSUME Registers, NEW o, GoodOutcome(o), NEW addr \in Nat, NEW t,
           t = translate_insn_addr(o, addr)
    PROVE  GoodOutcome(t) /\ (t.event = "done" => GoodHalf(addr, Physical(t, addr)))
<1>. DEFINE page == PageOf(addr)
<1>0. "FETCH" \in Operations /\ page \in Nat /\ o.pte \in PageTables /\ GoodBuffers(o.mmu)
    BY IndexRange DEF Operations, GoodOutcome, Outcomes
<1>1. CASE Hit(o.mmu, "FETCH", page)
  <2>. PICK h : h = [o EXCEPT !.page = Target(o.mmu, page)]
      OBVIOUS
  <2>1. t = CheckedFetch(h, addr)
      BY <1>1 DEF translate_insn_addr
  <2>2. /\ Target(o.mmu, page) \in Int
        /\ Synchronized /\ OneMode => /\ Walked("FETCH", page).fault = "none"
                                      /\ Target(o.mmu, page) = Walked("FETCH", page).page
    <3>. HIDE DEF page
    <3>. QED BY <1>0, <1>1, HitGood
  <2>3. GoodOutcome(h) /\ h.page = Target(o.mmu, page) /\ h.mmu = o.mmu
      BY <2>2, PageGood
  <2>. QED BY <1>1, <2>1, <2>2, <2>3, CheckedFetchGood
<1>2. CASE ~Hit(o.mmu, "FETCH", page)
  <2>. PICK f : f = FetchSlowPath(o, page, Walked("FETCH", page))
      OBVIOUS
  <2>1. translate(o.pte, hart, page, "FETCH") = Walked("FETCH", page)
      BY <1>0, FoundWalk DEF GoodOutcome
  <2>2. t = CheckedFetch(f, addr)
      BY <1>2, <2>1 DEF translate_insn_addr
  <2>3. /\ GoodOutcome(f)
        /\ f.event = "done" => /\ Walked("FETCH", page).fault = "none"
                               /\ f.page = Walked("FETCH", page).page
                               /\ f.page \in Memory => Hit(f.mmu, "FETCH", page)
      BY <1>0, FetchSlowPathGood
  <2>. QED BY <2>2, <2>3, CheckedFetchGood
<1>. QED BY <1>1, <1>2

LEMMA OneHalf ==
    ASSUME NEW addr \in Nat, NEW p \in Int, GoodHalf(addr, p), NEW line,
           line = [tag |-> addr, halves |-> <<p>>]
    PROVE  line \in Lines /\ GoodLine(line)
<1>1. line \in Lines
    BY DEF Lines
<1>2. line.tag = addr /\ line.halves = <<p>>
    OBVIOUS
<1>3. ASSUME NEW k \in DOMAIN line.halves PROVE GoodHalf(line.tag + k - 1, line.halves[k])
  <2>1. k = 1
      BY <1>2
  <2>2. line.tag + k - 1 = addr /\ line.halves[k] = p
      BY <1>2, <2>1
  <2>. QED BY <2>2
<1>. QED BY <1>1, <1>3 DEF GoodLine

LEMMA TwoHalves ==
    ASSUME NEW addr \in Nat, NEW p \in Int, NEW q \in Int,
           GoodHalf(addr, p), GoodHalf(addr + 1, q), NEW line,
           line = [tag |-> addr, halves |-> <<p, q>>]
    PROVE  line \in Lines /\ GoodLine(line)
<1>1. line \in Lines
    BY DEF Lines
<1>2. line.tag = addr /\ line.halves = <<p, q>>
    OBVIOUS
<1>3. ASSUME NEW k \in DOMAIN line.halves PROVE GoodHalf(line.tag + k - 1, line.halves[k])
  <2>1. k = 1 \/ k = 2
      BY <1>2
  <2>2. CASE k = 1
    <3>1. line.tag + k - 1 = addr /\ line.halves[k] = p
        BY <1>2, <2>2
    <3>. QED BY <3>1
  <2>3. CASE k = 2
    <3>1. line.tag + k - 1 = addr + 1 /\ line.halves[k] = q
        BY <1>2, <2>3
    <3>. QED BY <3>1
  <2>. QED BY <2>1, <2>2, <2>3
<1>. QED BY <1>1, <1>3 DEF GoodLine

LEMMA LoadInsnGood ==
    ASSUME Registers, NEW o, GoodOutcome(o), NEW addr \in Nat, NEW l, l = load_insn(o, addr)
    PROVE  /\ GoodOutcome(l.outcome)
           /\ l.outcome.event = "done" => l.line \in Lines /\ GoodLine(l.line)
<1>. PICK t : t = translate_insn_addr(o, addr)
    OBVIOUS
<1>. DEFINE p == Physical(t, addr)
<1>1. GoodOutcome(t) /\ (t.event = "done" => GoodHalf(addr, p))
    BY TranslateGood
<1>2. p \in Int
    BY <1>1, PhysicalPage DEF GoodOutcome, Outcomes
<1>3. CASE t.event = "done" /\ p \in Long
  <2>. PICK u : u = translate_insn_addr(t, addr + 1)
      OBVIOUS
  <2>. DEFINE q == Physical(u, addr + 1)
  <2>1. l = Whole(u, addr, <<p, q>>)
      BY <1>3 DEF load_insn, FirstHalf, SecondHalf
  <2>2. GoodOutcome(u) /\ (u.event = "done" => GoodHalf(addr + 1, q))
      BY <1>1, TranslateGood
  <2>3. q \in Int
    <3>1. u.page \in Int
        BY <2>2 DEF GoodOutcome, Outcomes
    <3>2. addr + 1 \in Nat
        OBVIOUS
    <3>. QED BY <3>1, <3>2, PhysicalPage
  <2>4. l.outcome = u /\ l.line = [tag |-> addr, halves |-> <<p, q>>]
      BY <2>1 DEF Whole
  <2>. HIDE DEF p, q
  <2>. QED BY <1>1, <1>2, <1>3, <2>2, <2>3, <2>4, TwoHalves
<1>4. CASE ~(t.event = "done" /\ p \in Long)
  <2>1. l = Whole(t, addr, <<p>>)
      BY <1>4 DEF load_insn, FirstHalf
  <2>2. l.outcome = t /\ l.line = [tag |-> addr, halves |-> <<p>>]
      BY <2>1 DEF Whole
  <2>. HIDE DEF p
  <2>. QED BY <1>1, <1>2, <2>2, OneHalf
<1>. QED BY <1>3, <1>4

(* Keeping a right line keeps the buffers right. *)
LEMMA KeepLine ==
    ASSUME NEW o, GoodOutcome(o), NEW line \in Lines, GoodLine(line),
           NEW i \in 0 .. ICACHE_ENTRIES - 1, NEW k, k = [o EXCEPT !.mmu.icache[i] = line]
    PROVE  GoodOutcome(k)
<1>. PICK n : n = [o.mmu EXCEPT !.icache = [@ EXCEPT ![i] = line]]
    OBVIOUS
<1>1. o \in Outcomes /\ o.mmu \in Buffers /\ GoodBuffers(o.mmu)
    BY DEF GoodOutcome, Outcomes
<1>2. o.mmu.icache \in [0 .. ICACHE_ENTRIES - 1 -> Lines]
    BY <1>1 DEF Buffers
<1>3. /\ n \in Buffers /\ n.tag = o.mmu.tag /\ n.data = o.mmu.data /\ n.checks = o.mmu.checks
      /\ n.icache = [o.mmu.icache EXCEPT ![i] = line]
    BY <1>1, <1>2 DEF Buffers
<1>4. k = [o EXCEPT !.mmu = n]
    BY <1>1 DEF Outcomes, Buffers
<1>5. k \in Outcomes /\ k.mmu = n /\ k.pte = o.pte
    BY <1>1, <1>3, <1>4 DEF Outcomes
<1>6. GoodCode(n)
    BY <1>1, <1>2, <1>3 DEF GoodCode, GoodBuffers
<1>7. GoodTags(n) /\ Watched(n) /\ GoodTranslations(n)
    BY <1>1, <1>3 DEF GoodTags, Watched, GoodTranslations, GoodBuffers, Hit, Target
<1>. QED BY <1>3, <1>5, <1>6, <1>7 DEF GoodOutcome, GoodBuffers

LEMMA AccessIcacheGood ==
    ASSUME Registers, NEW o, GoodOutcome(o), NEW addr \in Nat
    PROVE  GoodOutcome(access_icache(o, addr))
<1>. PICK l : l = load_insn(o, addr)
    OBVIOUS
<1>. PICK i : i = IcacheIndex(addr)
    OBVIOUS
<1>1. /\ GoodOutcome(l.outcome)
      /\ l.outcome.event = "done" => l.line \in Lines /\ GoodLine(l.line)
    BY LoadInsnGood
<1>2. i \in 0 .. ICACHE_ENTRIES - 1
    BY IndexRange
<1>3. NoLine \in Lines /\ GoodLine(NoLine)
    BY DEF NoLine, Lines, GoodLine
<1>4. GoodOutcome(Kept(l, addr))
  <2>1. CASE l.outcome.event # "done"
      BY <1>1, <2>1 DEF Kept
  <2>2. CASE l.outcome.event = "done" /\ "FETCH" \in Traced
    <3>1. Kept(l, addr) = [l.outcome EXCEPT !.mmu.icache[i] = NoLine]
        BY <2>2 DEF Kept
    <3>. QED BY <1>1, <1>2, <1>3, <3>1, KeepLine
  <2>3. CASE l.outcome.event = "done" /\ "FETCH" \notin Traced
    <3>1. Kept(l, addr) = [l.outcome EXCEPT !.mmu.icache[i] = l.line]
        BY <2>3 DEF Kept
    <3>. QED BY <1>1, <1>2, <2>3, <3>1, KeepLine
  <2>. QED BY <2>1, <2>2, <2>3
<1>. QED BY <1>4 DEF access_icache

-----------------------------------------------------------------------------
(* Loads, stores and reservations.                                         *)

LEMMA ComparedGood ==
    ASSUME NEW o, GoodOutcome(o), NEW index \in Indexes \cup {NoMatch}
    PROVE  GoodOutcome(Compared(o, index))
BY MatchedGood DEF Compared

LEMMA SlowPathGood ==
    ASSUME Registers, NEW o, GoodOutcome(o), NEW operation \in Operations, NEW page \in Nat,
           NEW index \in Indexes \cup {NoMatch}
    PROVE  GoodOutcome(SlowPath(o, operation, page, Walked(operation, page), index))
<1>. PICK r : r = Walked(operation, page)
    OBVIOUS
<1>1. r \in WalkResults
    BY FoundWalk, SimilarReflexive DEF Registers
<1>2. r.fault \in {"none", "page fault", "access fault"}
    BY <1>1 DEF WalkResults
<1>. PICK g : g = Marked(o, r, operation)
    OBVIOUS
<1>3. GoodOutcome(g) /\ g.page = r.page
    BY <1>1, MarkedGood
<1>4. r.fault # "none" => GoodOutcome(Ended(o, r.fault))
    BY <1>2, EndedGood
<1>5. GoodOutcome(Matched(g, index)) /\ GoodOutcome(Ended(g, "access fault"))
    BY <1>3, MatchedGood, EndedGood
<1>6. r.fault = "none" => GoodOutcome(Refilled(g, page, operation))
    BY <1>3, RefilledGood
<1>. QED BY <1>3, <1>4, <1>5, <1>6, ComparedGood DEF SlowPath

LEMMA AccessPageGood ==
    ASSUME Registers, NEW o, GoodOutcome(o), NEW operation \in Operations, NEW page \in Nat,
           NEW index \in Indexes \cup {NoMatch}
    PROVE  GoodOutcome(AccessPage(o, operation, page, index))
<1>1. o.pte \in PageTables /\ GoodBuffers(o.mmu) /\ NoMatch \in Indexes \cup {NoMatch}
    BY DEF GoodOutcome, Outcomes
<1>2. CASE Hit(o.mmu, operation, page)
  <2>1. Target(o.mmu, page) \in Int
      BY <1>1, <1>2, HitGood
  <2>2. GoodOutcome([o EXCEPT !.page = Target(o.mmu, page)])
      BY <2>1, PageGood
  <2>. QED BY <1>1, <1>2, <2>2, ComparedGood DEF AccessPage
<1>3. CASE ~Hit(o.mmu, operation, page)
  <2>1. translate(o.pte, hart, page, operation) = Walked(operation, page)
      BY <1>1, FoundWalk DEF GoodOutcome
  <2>. QED BY <1>3, <2>1, SlowPathGood DEF AccessPage
<1>. QED BY <1>2, <1>3

LEMMA AccessGood ==
    ASSUME Registers, NEW o, GoodOutcome(o), NEW operation \in Operations, NEW addr \in Nat,
           NEW datum, NEW retrying
    PROVE  GoodOutcome(Access(o, operation, addr, datum, retrying))
<1>1. PageOf(addr) \in Nat /\ match(operation, addr, datum) \in Indexes \cup {NoMatch}
    BY IndexRange, MatchType
<1>. QED BY <1>1, AccessPageGood DEF Access

LEMMA AccessAllGood ==
    ASSUME Registers, NEW o, GoodOutcome(o), NEW kind \in Kinds, NEW addr \in Nat,
           NEW datum, NEW retrying
    PROVE  GoodOutcome(AccessAll(o, kind, addr, datum, retrying))
<1>1. /\ kind[1] \in Operations
      /\ Len(kind) = 1 \/ (Len(kind) = 2 /\ kind[2] \in Operations)
    BY DEF Kinds, Operations
<1>. PICK a : a = Access(o, kind[1], addr, datum, retrying)
    OBVIOUS
<1>2. GoodOutcome(a)
    BY <1>1, AccessGood
<1>3. AccessAll(o, kind, addr, datum, retrying)
        = IF Len(kind) = 1 THEN a ELSE Access(a, kind[2], addr, datum, retrying)
    BY DEF AccessAll
<1>. QED BY <1>1, <1>2, <1>3, AccessGood

(* The reservation is no part of what makes the buffers right. *)
LEMMA ReservationGood ==
    ASSUME NEW m, GoodBuffers(m), NEW reservation \in Int, NEW n,
           n = [m EXCEPT !.reservation = reservation]
    PROVE  GoodBuffers(n)
<1>1. n \in Buffers /\ n.tag = m.tag /\ n.data = m.data /\ n.icache = m.icache
      /\ n.checks = m.checks
    BY DEF GoodBuffers, Buffers
<1>. QED BY <1>1 DEF GoodBuffers, GoodTranslations, GoodTags, GoodCode, Watched, Hit, Target

LEMMA HeldGood ==
    ASSUME NEW o, GoodOutcome(o), NEW operation, NEW addr \in Nat
    PROVE  GoodOutcome(Held(o, operation, addr))
<1>. PICK p : p = Physical(o, addr)
    OBVIOUS
<1>. PICK n : n = [o.mmu EXCEPT !.reservation = p]
    OBVIOUS
<1>1. o \in Outcomes /\ o.page \in Int /\ GoodBuffers(o.mmu)
    BY DEF GoodOutcome, Outcomes
<1>2. p \in Int
    BY <1>1, PhysicalPage
<1>3. GoodBuffers(n) /\ n \in Buffers
    BY <1>1, <1>2, ReservationGood DEF GoodBuffers
<1>4. [o EXCEPT !.mmu.reservation = p] = [o EXCEPT !.mmu = n]
    OBVIOUS
<1>5. GoodOutcome([o EXCEPT !.mmu = n])
    BY <1>1, <1>3 DEF GoodOutcome, Outcomes
<1>. QED BY <1>4, <1>5 DEF Held

LEMMA ReserveGood ==
    ASSUME Registers, NEW o, GoodOutcome(o), NEW operation \in Operations, NEW addr \in Nat
    PROVE  GoodOutcome(Reserve(o, operation, addr))
<1>. PICK page : page = PageOf(addr)
    OBVIOUS
<1>. PICK r : r = Walked(operation, page)
    OBVIOUS
<1>0. page \in Nat /\ o.pte \in PageTables
    BY IndexRange DEF GoodOutcome, Outcomes
<1>1. r = translate(o.pte, hart, page, operation) /\ r \in WalkResults
    BY <1>0, FoundWalk DEF GoodOutcome
<1>2. r.fault \in {"none", "page fault", "access fault"}
    BY <1>1 DEF WalkResults
<1>. PICK g : g = Marked(o, r, operation)
    OBVIOUS
<1>3. GoodOutcome(g) /\ g.page = r.page
    BY <1>1, MarkedGood
<1>4. r.fault # "none" => GoodOutcome(Ended(o, r.fault))
    BY <1>2, EndedGood
<1>5. GoodOutcome(Ended(g, "access fault"))
    BY <1>3, EndedGood
<1>6. r.fault = "none" => GoodOutcome(Held(Refilled(g, page, operation), operation, addr))
    BY <1>0, <1>3, RefilledGood, HeldGood
<1>. QED BY <1>1, <1>4, <1>5, <1>6 DEF Reserve, ReservePage

-----------------------------------------------------------------------------
(* What a step leaves.                                                     *)

LEMMA NoTrigger ==
    ASSUME NEW mc, NEW td, NEW prv, NEW debugging, NEW operation, NEW addr, NEW datum,
           \A t \in Indexes : operation \notin mc[t].on
    PROVE  trigger_match(mc, td, prv, debugging, operation, addr, datum) = NoMatch
BY DEF trigger_match, TriggerFires

(* Halfwords that stay right make lines that stay right. *)
LEMMA CodeKept ==
    ASSUME NEW m, m \in Buffers, GoodCode(m), mmu' = m,
           \A addr \in Nat, phys \in Int : GoodHalf(addr, phys) => GoodHalf(addr, phys)'
    PROVE  GoodCode(mmu)'
<1>. SUFFICES ASSUME NEW i \in 0 .. ICACHE_ENTRIES - 1, NEW k \in DOMAIN m.icache[i].halves
              PROVE  GoodHalf(m.icache[i].tag + k - 1, m.icache[i].halves[k])'
    BY DEF GoodCode, GoodLine
<1>1. GoodHalf(m.icache[i].tag + k - 1, m.icache[i].halves[k])
    BY DEF GoodCode, GoodLine
<1>2. m.icache[i] \in Lines
    BY DEF Buffers
<1>3. m.icache[i] # NoLine
    BY DEF NoLine
<1>4. m.icache[i].tag \in Nat /\ m.icache[i].halves \in Seq(Int)
    BY <1>2, <1>3 DEF Lines
<1>5. k \in Nat \ {0} /\ m.icache[i].halves[k] \in Int
    BY <1>4
<1>6. m.icache[i].tag + k - 1 \in Nat
    BY <1>4, <1>5
<1>. QED BY <1>1, <1>5, <1>6

(* Right buffers stay right while the registers do not change and the      *)
(* tables only in what a walk does not look at.                            *)
LEMMA GoodKept ==
    ASSUME Registers, NEW m, GoodBuffers(m), NEW tables \in PageTables, Similar(pte, tables),
           mmu' = m, pte' = tables, UNCHANGED <<hart, triggervars, stale>>
    PROVE  MInv'
<1>0. UNCHANGED <<hart, mcontrol, tdata2, stale>>
    BY DEF triggervars
<1>1. Registers'
    BY <1>0 DEF Registers
<1>2. Synchronized' = Synchronized /\ OneMode' = OneMode
    BY <1>0 DEF Synchronized, OneMode
<1>3. ASSUME NEW o \in Operations, NEW p \in Nat PROVE Walked(o, p)' = Walked(o, p)
  <2>1. Walked(o, p)' = translate(tables, hart, p, o)
      BY <1>0 DEF Walked
  <2>. QED BY <2>1, FoundWalk
<1>4. GoodTranslations(mmu)'
  <2>1. \A o \in Operations, p \in Nat :
            (Hit(mmu, o, p)' <=> Hit(m, o, p)) /\ Target(mmu, p)' = Target(m, p)
      BY DEF Hit, Target
  <2>. QED BY <1>2, <1>3, <2>1 DEF GoodTranslations, GoodBuffers
<1>5. ASSUME NEW addr \in Nat, NEW phys \in Int, GoodHalf(addr, phys)
      PROVE  GoodHalf(addr, phys)'
  <2>1. PageOf(addr) \in Nat /\ "FETCH" \in Operations
      BY IndexRange DEF Operations
  <2>2. Walked("FETCH", PageOf(addr))' = Walked("FETCH", PageOf(addr))
      BY <1>3, <2>1
  <2>3. match("FETCH", addr, Code[phys])' = match("FETCH", addr, Code[phys])
      BY <1>0 DEF match
  <2>. QED BY <1>0, <1>2, <1>5, <2>2, <2>3 DEF GoodHalf, Physical
<1>6. GoodCode(mmu)'
  <2>1. m \in Buffers /\ GoodCode(m)
      BY DEF GoodBuffers
  <2>2. \A addr \in Nat, phys \in Int : GoodHalf(addr, phys) => GoodHalf(addr, phys)'
      BY <1>5
  <2>. QED BY <2>1, <2>2, CodeKept
<1>7. mmu' \in Buffers /\ Watched(mmu)' /\ GoodTags(mmu)'
    BY <1>0 DEF GoodBuffers, Watched, GoodTags
<1>. QED BY <1>1, <1>4, <1>6, <1>7 DEF MInv, GoodBuffers

(* Empty buffers are right whatever else has changed. *)
LEMMA GoodEmptied ==
    ASSUME Registers', mmu' \in Buffers, Watched(mmu)',
           \A o \in Operations, i \in 0 .. TLB_ENTRIES - 1 : mmu'.tag[o][i] = NoTag,
           \A i \in 0 .. ICACHE_ENTRIES - 1 : mmu'.icache[i] = NoLine
    PROVE  MInv'
<1>1. \A o \in Operations, page \in Nat : ~Hit(mmu, o, page)'
    BY IndexRange DEF Hit, NoTag
<1>2. GoodTranslations(mmu)'
    BY <1>1 DEF GoodTranslations
<1>3. GoodTags(mmu)'
    BY DEF GoodTags
<1>4. GoodCode(mmu)'
  <2>1. NoLine.halves = <<>>
      BY DEF NoLine
  <2>. QED BY <2>1 DEF GoodCode, GoodLine
<1>. QED BY <1>2, <1>3, <1>4 DEF MInv, GoodBuffers

LEMMA GoodFlushed ==
    ASSUME NEW m, GoodBuffers(m), mmu' = Flushed(m),
           hart' \in Harts, pte' \in PageTables, UNCHANGED triggervars, Registers
    PROVE  MInv'
<1>0. m \in Buffers
    BY DEF GoodBuffers
<1>1. Registers'
    BY DEF Registers, triggervars
<1>2. /\ mmu' \in Buffers /\ mmu'.checks = m.checks
      /\ \A o \in Operations, i \in 0 .. TLB_ENTRIES - 1 : mmu'.tag[o][i] = NoTag
      /\ \A i \in 0 .. ICACHE_ENTRIES - 1 : mmu'.icache[i] = NoLine
    BY <1>0, FlushedType
<1>3. Watched(mmu)'
    BY <1>2 DEF GoodBuffers, Watched, triggervars
<1>. QED BY <1>1, <1>2, <1>3, GoodEmptied

LEMMA TrappedType ==
    ASSUME NEW h \in Harts, NEW t \in Trapped(h)
    PROVE  t \in Harts /\ (h.debug => t = h)
<1>1. h.debug => t = h
    BY DEF Trapped
<1>2. CASE t = h
    BY <1>1, <1>2
<1>3. CASE t = [h EXCEPT !.prv = "M", !.mpp = h.prv]
    BY <1>1, <1>3 DEF Harts
<1>4. CASE t = [h EXCEPT !.prv = "M", !.debug = TRUE]
    BY <1>1, <1>4 DEF Harts
<1>5. CASE t = [h EXCEPT !.prv = "S"]
    BY <1>1, <1>5 DEF Harts
<1>. QED BY <1>2, <1>3, <1>4, <1>5 DEF Trapped

LEMMA RaiseGood ==
    ASSUME MInv, NEW o, GoodOutcome(o), Raise(o)
    PROVE  MInv'
<1>. USE DEF MInv
<1>0. o.pte \in PageTables /\ Similar(pte, o.pte) /\ GoodBuffers(o.mmu) /\ hart \in Harts
    BY DEF GoodOutcome, Outcomes, Registers
<1>1. hart' \in Trapped(hart) /\ pte' = o.pte /\ UNCHANGED triggervars
    BY DEF Raise
<1>2. hart' \in Harts /\ (hart.debug => hart' = hart)
    BY <1>0, <1>1, TrappedType
<1>3. CASE hart.debug
  <2>1. mmu' = o.mmu /\ UNCHANGED stale
      BY <1>3 DEF Raise
  <2>. QED BY <1>0, <1>1, <1>2, <1>3, <2>1, GoodKept
<1>4. CASE ~hart.debug
  <2>1. mmu' = Flushed(o.mmu)
      BY <1>4 DEF Raise
  <2>. QED BY <1>0, <1>1, <1>2, <2>1, GoodFlushed
<1>. QED BY <1>3, <1>4

LEMMA CompleteGood ==
    ASSUME MInv, NEW o, GoodOutcome(o), Complete(o) \/ Escape(o)
    PROVE  MInv'
<1>0. o.pte \in PageTables /\ Similar(pte, o.pte) /\ GoodBuffers(o.mmu) /\ Registers
    BY DEF GoodOutcome, Outcomes, MInv
<1>. QED BY <1>0, GoodKept DEF Complete, Escape

LEMMA FinishGood ==
    ASSUME MInv, NEW o, GoodOutcome(o), NEW pc \in Nat, NEW kind \in Kinds, NEW addr \in Nat,
           NEW datum, Finish(o, pc, kind, addr, datum)
    PROVE  MInv'
<1>0. Registers
    BY DEF MInv
<1>1. CASE o.event = "trigger" /\ mcontrol[o.index].timing = "after"
  <2>. PICK l : l = load_insn(Outcome(o.mmu, o.pte), pc)
      OBVIOUS
  <2>. PICK a : a = AccessAll(l.outcome, kind, addr, datum, TRUE)
      OBVIOUS
  <2>1. GoodOutcome(Outcome(o.mmu, o.pte))
      BY OutcomeGood DEF GoodOutcome, Outcomes
  <2>2. GoodOutcome(l.outcome)
      BY <1>0, <2>1, LoadInsnGood
  <2>3. GoodOutcome(a)
      BY <1>0, <2>2, AccessAllGood
  <2>4. Raise(a) \/ Escape(a)
      BY <1>1 DEF Finish, Restarted, Refetched
  <2>. QED BY <2>3, <2>4, RaiseGood, CompleteGood
<1>2. CASE ~(o.event = "trigger" /\ mcontrol[o.index].timing = "after")
  <2>1. Raise(o) \/ Complete(o)
      BY <1>2 DEF Finish
  <2>. QED BY <2>1, RaiseGood, CompleteGood
<1>. QED BY <1>1, <1>2

-----------------------------------------------------------------------------
(* The steps.                                                              *)

LEMMA FetchedGood == ASSUME MInv, NEW pc \in Nat PROVE GoodOutcome(Fetched(pc))
<1>1. GoodOutcome(Outcome(mmu, pte))
    BY OutcomeGood, SimilarReflexive DEF MInv, Registers
<1>. QED BY <1>1, AccessIcacheGood DEF Fetched, MInv

LEMMA LoadStoreStep ==
    ASSUME MInv, NEW pc \in Nat, NEW kind \in Kinds, NEW addr \in Nat, NEW datum,
           LoadStore(pc, kind, addr, datum)
    PROVE  MInv'
<1>1. GoodOutcome(AccessAll(Fetched(pc), kind, addr, datum, FALSE))
    BY FetchedGood, AccessAllGood DEF MInv
<1>. QED BY <1>1, FinishGood DEF LoadStore

LEMMA LoadReservedStep ==
    ASSUME MInv, NEW pc \in Nat, NEW addr \in Nat, LoadReserved(pc, addr)
    PROVE  MInv'
<1>1. "LOAD" \in Operations /\ <<"LOAD">> \in Kinds
    BY DEF Operations, Kinds
<1>2. GoodOutcome(Reserve(Fetched(pc), "LOAD", addr))
    BY <1>1, FetchedGood, ReserveGood DEF MInv
<1>. QED BY <1>1, <1>2, FinishGood DEF LoadReserved

LEMMA StoreConditionalStep ==
    ASSUME MInv, NEW pc \in Nat, NEW addr \in Nat, NEW datum, StoreConditional(pc, addr, datum)
    PROVE  MInv'
<1>. PICK o : o = Reserve(Fetched(pc), "STORE", addr)
    OBVIOUS
<1>1. "STORE" \in Operations /\ <<"STORE">> \in Kinds
    BY DEF Operations, Kinds
<1>2. GoodOutcome(o)
    BY <1>1, FetchedGood, ReserveGood DEF MInv
<1>3. GoodOutcome(Access(o, "STORE", addr, datum, FALSE))
    BY <1>1, <1>2, AccessGood DEF MInv
<1>4. \/ Complete(o)
      \/ Finish(Access(o, "STORE", addr, datum, FALSE), pc, <<"STORE">>, addr, datum)
    BY DEF StoreConditional, Conditional
<1>. QED BY <1>1, <1>2, <1>3, <1>4, CompleteGood, FinishGood

(* A change of the hart's registers that flushes. *)
LEMMA FlushStep ==
    ASSUME MInv, Flush, hart' \in Harts, UNCHANGED <<triggervars, pte>>
    PROVE  MInv'
BY GoodFlushed DEF MInv, Registers, Flush

LEMMA SetStatusStep ==
    ASSUME MInv, NEW h \in Harts, SetStatus(h)
    PROVE  MInv'
<1>1. CASE h # hart
    BY <1>1, FlushStep DEF SetStatus
<1>2. CASE h = hart
    BY <1>2, GoodKept, SimilarReflexive DEF SetStatus, MInv, Registers
<1>. QED BY <1>1, <1>2

LEMMA WriteStatusStep ==
    ASSUME MInv, WriteMstatus \/ WriteSstatus
    PROVE  MInv'
<1>0. hart \in Harts
    BY DEF MInv, Registers
<1>1. CASE WriteMstatus
  <2>1. PICK mprv \in BOOLEAN, sum \in BOOLEAN, mxr \in BOOLEAN, mpp \in {"M", "S", "U"} :
            SetStatus([hart EXCEPT !.mprv = mprv, !.mpp = mpp, !.sum = sum, !.mxr = mxr])
      BY <1>1 DEF WriteMstatus
  <2>2. [hart EXCEPT !.mprv = mprv, !.mpp = mpp, !.sum = sum, !.mxr = mxr] \in Harts
      BY <1>0 DEF Harts
  <2>. QED BY <2>1, <2>2, SetStatusStep
<1>2. CASE WriteSstatus
  <2>1. PICK sum \in BOOLEAN, mxr \in BOOLEAN : SetStatus([hart EXCEPT !.sum = sum, !.mxr = mxr])
      BY <1>2 DEF WriteSstatus
  <2>2. [hart EXCEPT !.sum = sum, !.mxr = mxr] \in Harts
      BY <1>0 DEF Harts
  <2>. QED BY <2>1, <2>2, SetStatusStep
<1>. QED BY <1>1, <1>2

LEMMA PrivilegeStep ==
    ASSUME MInv, WriteSatp \/ Return \/ Interrupted \/ SfenceVma
    PROVE  MInv'
<1>0. hart \in Harts
    BY DEF MInv, Registers
<1>1. Flush /\ UNCHANGED <<triggervars, pte>>
    BY DEF WriteSatp, Return, Interrupted, SfenceVma, SetPrivilege
<1>2. CASE WriteSatp
  <2>1. PICK root \in Tables \cup {NoTable} : hart' = [hart EXCEPT !.satp = root]
      BY <1>2 DEF WriteSatp, SetPrivilege
  <2>2. hart' \in Harts
      BY <1>0, <2>1 DEF Harts
  <2>. QED BY <1>1, <2>2, FlushStep
<1>3. CASE Return
  <2>1. hart' \in Harts
      BY <1>0, <1>3 DEF Return, SetPrivilege, Harts
  <2>. QED BY <1>1, <2>1, FlushStep
<1>4. CASE Interrupted
  <2>1. hart' \in Trapped(hart)
      BY <1>4 DEF Interrupted, SetPrivilege
  <2>. QED BY <1>0, <1>1, <2>1, TrappedType, FlushStep
<1>5. CASE SfenceVma
    BY <1>0, <1>1, <1>5, FlushStep DEF SfenceVma
<1>. QED BY <1>2, <1>3, <1>4, <1>5

LEMMA FenceIStep ==
    ASSUME MInv, FenceI
    PROVE  MInv'
<1>. PICK n : n = [mmu EXCEPT !.icache = Flushed(mmu).icache]
    OBVIOUS
<1>1. mmu \in Buffers /\ GoodBuffers(mmu) /\ Registers
    BY DEF MInv, GoodBuffers
<1>2. Flushed(mmu) \in Buffers /\ \A i \in 0 .. ICACHE_ENTRIES - 1 : Flushed(mmu).icache[i] = NoLine
    BY <1>1, FlushedType
<1>3. /\ n \in Buffers /\ n.tag = mmu.tag /\ n.data = mmu.data /\ n.checks = mmu.checks
      /\ n.icache = Flushed(mmu).icache
    BY <1>1, <1>2 DEF Buffers
<1>4. GoodCode(n)
    BY <1>2, <1>3, NoCodeGood
<1>5. GoodBuffers(n)
    BY <1>1, <1>3, <1>4 DEF GoodBuffers, GoodTranslations, GoodTags, Watched, Hit, Target
<1>. QED BY <1>1, <1>5, GoodKept, SimilarReflexive DEF FenceI, Registers

LEMMA YieldStep ==
    ASSUME MInv, YieldLoadReservation
    PROVE  MInv'
<1>1. NoReservation \in Int
    BY DEF NoReservation
<1>2. GoodBuffers([mmu EXCEPT !.reservation = NoReservation])
    BY <1>1, ReservationGood DEF MInv
<1>. QED BY <1>2, GoodKept, SimilarReflexive DEF YieldLoadReservation, MInv, Registers

LEMMA WriteTdata1Step ==
    ASSUME MInv, WriteTdata1
    PROVE  MInv'
<1>0. Registers /\ mmu \in Buffers
    BY DEF MInv, GoodBuffers
<1>1. PICK i \in Indexes, c \in TriggerControls :
          mcontrol' = [mcontrol EXCEPT ![i] = Legal(c)] /\ mmu' = Updated(mmu, mcontrol')
    BY DEF WriteTdata1
<1>2. Legal(c) \in MControls
    BY PagesAssumption DEF Legal, MControls
<1>3. mcontrol' \in [Indexes -> MControls]
    BY <1>0, <1>1, <1>2 DEF Registers
<1>4. Registers'
    BY <1>0, <1>3 DEF Registers, WriteTdata1
<1>. PICK checks : checks = UNION {mcontrol'[t].on : t \in Indexes}
    OBVIOUS
<1>5. \A t \in Indexes : mcontrol'[t].on \in SUBSET Operations
    BY <1>3 DEF MControls
<1>6. checks \in SUBSET Operations /\ \A t \in Indexes : mcontrol'[t].on \subseteq checks
    BY <1>5
<1>7. mmu' = [Flushed(mmu) EXCEPT !.checks = checks]
    BY <1>1 DEF Updated
<1>8. Flushed(mmu) \in Buffers
    BY <1>0, FlushedType
<1>9. /\ mmu' \in Buffers /\ mmu'.checks = checks
      /\ mmu'.tag = Flushed(mmu).tag /\ mmu'.icache = Flushed(mmu).icache
    BY <1>6, <1>7, <1>8 DEF Buffers
<1>10. Watched(mmu)'
    BY <1>6, <1>9 DEF Watched
<1>. QED BY <1>0, <1>4, <1>9, <1>10, FlushedType, GoodEmptied

(* Steps after which the buffers may be wrong, and that say so in stale. *)
LEMMA StaleStep ==
    ASSUME MInv, UNCHANGED mmu, Registers', Watched(mmu)',
           \/ "tables" \in stale' \/ "reset" \in stale'
           \/ UNCHANGED <<hart, pte>> /\ Synchronized' = Synchronized,
           \/ "tdata2" \in stale'
           \/ UNCHANGED <<hart, triggervars>> /\ ("tdata2" \in stale' <=> "tdata2" \in stale)
           \/ \A t \in Indexes : mcontrol'[t].on = {}
    PROVE  MInv'
<1>0. GoodBuffers(mmu) /\ mmu \in Buffers /\ GoodCode(mmu)
    BY DEF MInv, GoodBuffers
<1>1. Synchronized' => /\ UNCHANGED <<hart, pte>> /\ Synchronized
    BY DEF Synchronized
<1>2. UNCHANGED hart => OneMode' = OneMode
    BY DEF OneMode
<1>3. ASSUME NEW o, NEW p, UNCHANGED <<hart, pte>> PROVE Walked(o, p)' = Walked(o, p)
    BY <1>3 DEF Walked
<1>4. GoodTranslations(mmu)'
  <2>. SUFFICES ASSUME Synchronized', OneMode', NEW o \in Operations, NEW p \in Nat, Hit(mmu, o, p)'
                PROVE  (Walked(o, p).fault = "none" /\ Walked(o, p).page = Target(mmu, p))'
      BY DEF GoodTranslations
  <2>1. Synchronized /\ OneMode /\ Hit(mmu, o, p) /\ Walked(o, p)' = Walked(o, p)
        /\ Target(mmu, p)' = Target(mmu, p)
      BY <1>1, <1>2, <1>3 DEF Hit, Target
  <2>. QED BY <1>0, <2>1 DEF GoodBuffers, GoodTranslations
<1>5. ASSUME NEW addr \in Nat, NEW phys \in Int, GoodHalf(addr, phys)
      PROVE  GoodHalf(addr, phys)'
  <2>1. ASSUME Synchronized', OneMode'
        PROVE  (/\ Walked("FETCH", PageOf(addr)).fault = "none"
                /\ phys = Physical(Walked("FETCH", PageOf(addr)), addr))'
    <3>1. Synchronized /\ OneMode /\ Walked("FETCH", PageOf(addr))' = Walked("FETCH", PageOf(addr))
        BY <1>1, <1>2, <1>3, <2>1
    <3>. QED BY <1>5, <3>1 DEF GoodHalf, Physical
  <2>2. ASSUME "tdata2" \notin stale', PageOf(phys) \in Memory
        PROVE  match("FETCH", addr, Code[phys])' = NoMatch
    <3>1. CASE UNCHANGED <<hart, triggervars>> /\ "tdata2" \notin stale
      <4>1. match("FETCH", addr, Code[phys])' = match("FETCH", addr, Code[phys])
          BY <3>1 DEF match, triggervars
      <4>. QED BY <1>5, <2>2, <3>1, <4>1 DEF GoodHalf
    <3>2. CASE \A t \in Indexes : mcontrol'[t].on = {}
        BY <3>2, NoTrigger DEF match
    <3>. QED BY <2>2, <3>1, <3>2
  <2>. QED BY <2>1, <2>2 DEF GoodHalf
<1>6. GoodCode(mmu)'
    BY <1>0, <1>5, CodeKept
<1>7. GoodTags(mmu)'
    BY <1>0 DEF GoodBuffers, GoodTags
<1>. QED BY <1>0, <1>4, <1>6, <1>7 DEF MInv, GoodBuffers

LEMMA WriteTdata2Step ==
    ASSUME MInv, WriteTdata2
    PROVE  MInv'
<1>1. /\ UNCHANGED <<hart, mcontrol, mmu, pte>> /\ stale' = stale \cup {"tdata2"}
    BY DEF WriteTdata2
<1>2. Registers' /\ Watched(mmu)'
    BY <1>1 DEF MInv, Registers, GoodBuffers, Watched
<1>3. Synchronized' = Synchronized
    BY <1>1 DEF Synchronized
<1>4. "tdata2" \in stale' /\ UNCHANGED <<hart, pte>>
    BY <1>1
<1>. QED BY <1>1, <1>2, <1>3, <1>4, StaleStep

LEMMA ResetStep ==
    ASSUME MInv, Reset
    PROVE  MInv'
<1>1. UNCHANGED <<mmu, pte>> /\ "reset" \in stale' /\ mcontrol' = [i \in Indexes |-> Disabled]
    BY DEF Reset
<1>2. Disabled \in MControls /\ Disabled.on = {}
    BY DEF Disabled, MControls, Matches, Operations
<1>3. hart' \in Harts
    BY DEF Reset, Harts
<1>4. mcontrol' \in [Indexes -> MControls] /\ \A t \in Indexes : mcontrol'[t].on = {}
    BY <1>1, <1>2
<1>5. Registers' /\ Watched(mmu)'
    BY <1>1, <1>3, <1>4 DEF MInv, Registers, Watched
<1>. QED BY <1>1, <1>4, <1>5, StaleStep

LEMMA StoreTableStep ==
    ASSUME MInv, StoreTable
    PROVE  MInv'
<1>1. UNCHANGED <<hart, triggervars, mmu>> /\ stale' = stale \cup {"tables"}
    BY DEF StoreTable
<1>2. pte' \in PageTables
  <2>1. pte \in PageTables
      BY DEF MInv, Registers
  <2>2. PICK t \in Tables : \E k \in DOMAIN pte[t], e \in Ptes : pte' = [pte EXCEPT ![t][k] = e]
      BY DEF StoreTable
  <2>. PICK k \in DOMAIN pte[t], e \in Ptes : pte' = [pte EXCEPT ![t][k] = e]
      BY <2>2
  <2>3. k \in 0 .. 2 ^ IdxBits - 1 /\ e \in PageTableEntries
      BY <2>1, <2>2, TablesAssumption DEF PageTables
  <2>. QED BY <2>1, <2>2, <2>3 DEF PageTables
<1>3. Registers' /\ Watched(mmu)'
    BY <1>1, <1>2 DEF MInv, Registers, GoodBuffers, Watched, triggervars
<1>4. "tables" \in stale' /\ ("tdata2" \in stale' <=> "tdata2" \in stale)
    BY <1>1
<1>. QED BY <1>1, <1>3, <1>4, StaleStep

-----------------------------------------------------------------------------
(* The invariant and what follows from it.                                 *)

LEMMA InitGood == Init => MInv
<1>. SUFFICES ASSUME Init PROVE MInv
    OBVIOUS
<1>1. Disabled \in MControls /\ Disabled.on = {}
    BY DEF Disabled, MControls, Matches, Operations
<1>2. hart \in Harts
    BY DEF Init, Harts
<1>3. Registers
    BY <1>1, <1>2, TablesAssumption DEF Init, Registers, PageTables
<1>4. /\ mmu.tag = [o \in Operations |-> [i \in 0 .. TLB_ENTRIES - 1 |-> NoTag]]
      /\ mmu.icache = [i \in 0 .. ICACHE_ENTRIES - 1 |-> NoLine]
      /\ mmu.data = [i \in 0 .. TLB_ENTRIES - 1 |-> 0]
      /\ mmu.checks = {} /\ mmu.reservation = NoReservation
      /\ mmu = [tag |-> mmu.tag, data |-> mmu.data, icache |-> mmu.icache,
                checks |-> mmu.checks, reservation |-> mmu.reservation]
    BY DEF Init, Flushed
<1>5. NoTag \in Entries /\ NoLine \in Lines /\ NoReservation \in Int
    BY DEF NoTag, Entries, Lines, NoReservation
<1>6. mmu \in Buffers
    BY <1>4, <1>5 DEF Buffers
<1>7. Watched(mmu)
    BY <1>1 DEF Init, Watched
<1>8. GoodTranslations(mmu) /\ GoodTags(mmu) /\ GoodCode(mmu)
  <2>1. \A o \in Operations, i \in 0 .. TLB_ENTRIES - 1 : mmu.tag[o][i] = NoTag
      BY <1>4
  <2>2. \A i \in 0 .. ICACHE_ENTRIES - 1 : mmu.icache[i] = NoLine
      BY <1>4
  <2>. QED BY <2>1, <2>2, EmptyGood, NoCodeGood
<1>. QED BY <1>3, <1>6, <1>7, <1>8 DEF MInv, GoodBuffers

LEMMA StutterGood ==
    ASSUME MInv, UNCHANGED vars
    PROVE  MInv'
BY GoodKept, SimilarReflexive DEF MInv, Registers, vars, triggervars

LEMMA NextGood ==
    ASSUME MInv, [Next]_vars
    PROVE  MInv'
<1>1. ASSUME NEW pc \in Pcs, NEW addr \in Addrs, NEW datum \in Data,
             \/ \E kind \in Kinds : LoadStore(pc, kind, addr, datum)
             \/ LoadReserved(pc, addr)
             \/ StoreConditional(pc, addr, datum)
      PROVE  MInv'
  <2>1. pc \in Nat /\ addr \in Nat
      BY PagesAssumption
  <2>. QED BY <1>1, <2>1, LoadStoreStep, LoadReservedStep, StoreConditionalStep
<1>2. CASE WriteMstatus \/ WriteSstatus
    BY <1>2, WriteStatusStep
<1>3. CASE WriteSatp \/ Return \/ Interrupted \/ SfenceVma
    BY <1>3, PrivilegeStep
<1>4. CASE FenceI
    BY <1>4, FenceIStep
<1>5. CASE WriteTdata1
    BY <1>5, WriteTdata1Step
<1>6. CASE WriteTdata2
    BY <1>6, WriteTdata2Step
<1>7. CASE Reset
    BY <1>7, ResetStep
<1>8. CASE YieldLoadReservation
    BY <1>8, YieldStep
<1>9. CASE StoreTable
    BY <1>9, StoreTableStep
<1>10. CASE UNCHANGED vars
    BY <1>10, StutterGood
<1>. QED BY <1>1, <1>2, <1>3, <1>4, <1>5, <1>6, <1>7, <1>8, <1>9, <1>10 DEF Next

(* Every translation in the buffer and every halfword in the instruction   *)
(* cache is what a walk of the tables finds now, every operation a trigger *)
(* looks at is checked, and no code in the cache sets one off.             *)
THEOREM MmuInvariant == Spec => []MInv
<1>1. MInv /\ [Next]_vars => MInv'
    BY NextGood
<1>. QED BY <1>1, InitGood, PTL DEF Spec

(* An access that hits the buffer goes where the walk would take it, as    *)
(* long as a store to the page tables or a reset is followed by a flush    *)
(* and MPRV does not give code and data two modes (mmu.cc:135-159).        *)
THEOREM HitsAreWalks == Spec => []HitIsWalk
<1>1. MInv => HitIsWalk
  <2>1. Pages \subseteq Nat
    <3>1. \A pc \in Pcs : pc + 1 \in Nat
        BY PagesAssumption
    <3>2. \A a \in Addrs \cup Pcs \cup {pc + 1 : pc \in Pcs} : a \in Nat
        BY <3>1, PagesAssumption
    <3>. QED BY <3>2, IndexRange DEF Pages
  <2>. QED BY <2>1 DEF MInv, GoodBuffers, GoodTranslations, HitIsWalk, BufferIsWalk
<1>. QED BY <1>1, MmuInvariant, PTL

(* Cached code is the code the walk finds, under the same conditions, in   *)
(* both halves of an instruction that crosses a page (mmu.h:213-258).      *)
THEOREM CachedCodeIsCurrent == Spec => []CachedCodeIsWalk
<1>1. MInv => CachedCodeIsWalk
  <2>. SUFFICES ASSUME MInv, Synchronized, OneMode, NEW i \in DOMAIN mmu.icache,
                       NEW k \in DOMAIN mmu.icache[i].halves
                PROVE  /\ Walked("FETCH", PageOf(mmu.icache[i].tag + k - 1)).fault = "none"
                       /\ mmu.icache[i].halves[k]
                            = Physical(Walked("FETCH", PageOf(mmu.icache[i].tag + k - 1)),
                                       mmu.icache[i].tag + k - 1)
      BY DEF CachedCodeIsWalk
  <2>1. i \in 0 .. ICACHE_ENTRIES - 1
      BY DEF MInv, GoodBuffers, Buffers
  <2>2. GoodHalf(mmu.icache[i].tag + k - 1, mmu.icache[i].halves[k])
      BY <2>1 DEF MInv, GoodBuffers, GoodCode, GoodLine
  <2>. QED BY <2>2 DEF GoodHalf
<1>. QED BY <1>1, MmuInvariant, PTL

(* Neither buffer hides an access from the triggers (processor.cc:829-847, *)
(* mmu.cc:147-150), unless tdata2 was written since the last flush.        *)
THEOREM TriggersAreAsked == Spec => []TriggersSeeHits
<1>1. MInv => TriggersSeeHits
  <2>. SUFFICES ASSUME MInv PROVE TriggersSeeHits
      OBVIOUS
  <2>1. GoodTags(mmu) /\ Watched(mmu) /\ GoodCode(mmu) /\ mmu \in Buffers
      BY DEF MInv, GoodBuffers
  <2>2. \A o \in Operations, i \in 0 .. TLB_ENTRIES - 1 :
            mmu.tag[o][i] # NoTag /\ ~mmu.tag[o][i].check =>
                \A t \in Indexes : o \notin mcontrol[t].on
      BY <2>1 DEF GoodTags, Watched
  <2>3. ASSUME "tdata2" \notin stale, NEW i \in DOMAIN mmu.icache,
               NEW k \in DOMAIN mmu.icache[i].halves,
               PageOf(mmu.icache[i].halves[k]) \in Memory
        PROVE  match("FETCH", mmu.icache[i].tag + k - 1, Code[mmu.icache[i].halves[k]]) = NoMatch
    <3>1. i \in 0 .. ICACHE_ENTRIES - 1
        BY <2>1 DEF Buffers
    <3>2. GoodHalf(mmu.icache[i].tag + k - 1, mmu.icache[i].halves[k])
        BY <2>1, <3>1 DEF GoodCode, GoodLine
    <3>. QED BY <2>3, <3>2 DEF GoodHalf
  <2>. QED BY <2>2, <2>3 DEF TriggersSeeHits
<1>. QED BY <1>1, MmuInvariant, PTL

=============================================================================
