-------------------------------- MODULE Mmu ---------------------------------
(***************************************************************************)
(* mmu_t and the registers of its hart that translations depend on: the    *)
(* page walk, the translation buffer with its three tags over one entry,   *)
(* the instruction cache looked up by virtual address, the triggers every  *)
(* access is checked against, and the load reservation.                    *)
(*                                                                         *)
(* Addresses count halfwords (PC_ALIGN).  Physical memory is the pages     *)
(* Memory, of which Tables hold page tables; a page of Devices answers a   *)
(* load or store, every other page none.  Of memory only page table        *)
(* entries have contents; an access brings any datum of Data.              *)
(*                                                                         *)
(* An operator X_Fault next to X is X with the bug it names; no            *)
(* specification uses it.                                                  *)
(***************************************************************************)
EXTENDS Triggers, Sequences

CONSTANTS
    PageSize, TLB_ENTRIES, ICACHE_ENTRIES,
    Levels, IdxBits,           \* of the page table, when satp is on
    Memory, Tables, Devices,   \* physical pages
    Code,                      \* the halfword of code at each physical address
    Traced,                    \* operations a memory tracer is interested in
    EnableDirty,               \* RISCV_ENABLE_DIRTY
    Pcs, Addrs,                \* virtual addresses of code and of data
    Ptes, InitTables,          \* page table entries; page tables to start from
    Data,                      \* what is loaded and stored
    TriggerValues, TriggerControls,   \* what tdata2 and tdata1 are set to
    MaxTableStores,            \* how often page tables are stored to (a bound)
    Workloads                  \* sets of what a run does besides: "status", "tables",
                               \* "reset", "triggers", "reserve" (a bound)

ASSUME SizeAssumption ==
    {PageSize, TLB_ENTRIES, ICACHE_ENTRIES, Levels, IdxBits} \subseteq Nat \ {0}
ASSUME PagesAssumption ==
    /\ Tables \subseteq Memory /\ Memory \cap Devices = {}
    /\ Traced \subseteq Operations /\ EnableDirty \in BOOLEAN
    /\ TriggerControls \subseteq MControls /\ TriggerValues \subseteq Values
    /\ MaxTableStores \in Nat
    /\ Code \in [0 .. 2 ^ (Levels * IdxBits + 1) * PageSize - 1 -> Values]
    /\ Pcs \cup Addrs \subseteq Nat

PageBits == Levels * IdxBits
PhysicalPages == 0 .. 2 ^ (PageBits + 1) - 1     \* all a virtual page can name
PhysicalAddresses == {p * PageSize + k : p \in PhysicalPages, k \in 0 .. PageSize - 1}
Long == {a \in PhysicalAddresses : Code[a] % 4 = 3}     \* a 4-byte instruction

PageTableEntries ==
    [kind : {"table", "leaf", "invalid"}, perms : SUBSET {"U", "R", "W", "X", "A", "D"},
     ppn : PhysicalPages]
ASSUME TablesAssumption ==
    /\ Memory \cup Devices \subseteq PhysicalPages
    /\ Ptes \subseteq PageTableEntries
    /\ InitTables \subseteq [Tables -> [0 .. 2 ^ IdxBits - 1 -> PageTableEntries]]

NoTable == -1
NoTag   == [page |-> -1, check |-> FALSE]
NoLine  == [tag |-> -1, halves |-> <<>>]
NoReservation == -1

VARIABLES
    workload,   \* never changes
    hart,       \* prv, mprv, mpp, sum, mxr, satp, debug (dcsr.cause # 0)
    mcontrol, tdata2,
    mmu,        \* tag[operation][index]; data[index], the target_offset in pages;
                \* icache[index]: the address, and where the halfwords come from;
                \* checks: the operations with check_triggers_... set;
                \* reservation: load_reservation_address
    pte,        \* the page tables
    alive,      \* FALSE once an exception has left processor_t::step
    stores,     \* how often page tables were stored to
    stale       \* history, since the last flush: "tables" were stored to,
                \* the hart was "reset", "tdata2" was written
vars == <<workload, hart, mcontrol, tdata2, mmu, pte, alive, stores, stale>>

Idx(page) == page % TLB_ENTRIES
PageOf(addr) == addr \div PageSize
Pages == {PageOf(a) : a \in Addrs \cup Pcs \cup {pc + 1 : pc \in Pcs}}

-----------------------------------------------------------------------------
(* The page walk, as a function of the level; base is a physical page.     *)

EntryAt(tables, base, k) ==
    IF base \in Tables THEN tables[base][k]
    ELSE [kind |-> "invalid", perms |-> {}, ppn |-> 0]

(* The bits of a leaf: U, R, W, X, A, D.                                   *)
Permits(perms, h, operation, mode) ==
    /\ IF "U" \in perms THEN mode = "S" => operation # "FETCH" /\ h.sum
       ELSE mode = "S"
    /\ "W" \in perms => "R" \in perms
    /\ CASE operation = "FETCH" -> "X" \in perms
         [] operation = "LOAD"  -> "R" \in perms \/ (h.mxr /\ "X" \in perms)
         [] operation = "STORE" -> {"R", "W"} \subseteq perms
    /\ EnableDirty \/ ({"A"} \cup (IF operation = "STORE" THEN {"D"} ELSE {})) \subseteq perms

(* masked_msbs: the bits above those the table translates are all equal.   *)
Canonical(page) == page \div 2 ^ (PageBits - 1) \in {0, 3}

Refused(what) == [fault |-> what, page |-> 0, leaf |-> <<>>]

(* The pages under an entry of level i, and the entry page selects there.  *)
Span(i) == 2 ^ (i * IdxBits)
IndexOf(page, i) == (page \div Span(i)) % 2 ^ IdxBits

(* What the entry of level i in the table at base leads to; below has the  *)
(* results of the level below for each page that may hold its table.       *)
WalkEntry(tables, h, page, operation, mode, below, i, base) ==
    LET e == EntryAt(tables, base, IndexOf(page, i))
    IN  CASE base \notin Memory -> Refused("access fault")
          [] base \in Memory /\ e.kind = "table" -> below[e.ppn]
          [] /\ base \in Memory /\ e.kind = "leaf" /\ Permits(e.perms, h, operation, mode)
             /\ e.ppn % Span(i) = 0 ->
               [fault |-> "none", page |-> e.ppn + (page % Span(i)),
                leaf |-> <<base, IndexOf(page, i)>>]
          [] OTHER -> Refused("page fault")

WalkLevels(tables, h, page, operation, mode) ==
    LET from[i \in -1 .. Levels - 1] == [base \in PhysicalPages |->
            IF i < 0 THEN Refused("page fault")
            ELSE WalkEntry(tables, h, page, operation, mode, from[i - 1], i, base)]
    IN  from

walk(tables, h, page, operation, mode) ==
    IF mode = "M" \/ h.satp = NoTable
    THEN [fault |-> "none", page |-> page, leaf |-> <<>>]
    ELSE IF Canonical(page)
    THEN WalkLevels(tables, h, page, operation, mode)[Levels - 1][h.satp]
    ELSE Refused("page fault")

(* The privilege an operation is translated with.                          *)
Mode(h, operation) ==
    IF operation # "FETCH" /\ ~h.debug /\ h.mprv THEN h.mpp ELSE h.prv

translate(tables, h, page, operation) == walk(tables, h, page, operation, Mode(h, operation))

(* The walk sets the accessed and dirty bits in a build that has them.     *)
Touched(tables, result, operation) ==
    IF EnableDirty /\ result.leaf # <<>>
    THEN [tables EXCEPT ![result.leaf[1]][result.leaf[2]].perms =
              @ \cup {"A"} \cup (IF operation = "STORE" THEN {"D"} ELSE {})]
    ELSE tables

-----------------------------------------------------------------------------
(* The buffers; m is a value of mmu.                                       *)

(* The instruction cache is left to fence.i.                               *)
Flushed_KeepsCode(m) ==
    [m EXCEPT !.tag = [o \in Operations |-> [i \in 0 .. TLB_ENTRIES - 1 |-> NoTag]],
              !.icache = IF @ = <<>> THEN [i \in 0 .. ICACHE_ENTRIES - 1 |-> NoLine] ELSE @]

Flushed(m) ==
    [m EXCEPT !.tag = [o \in Operations |-> [i \in 0 .. TLB_ENTRIES - 1 |-> NoTag]],
              !.icache = [i \in 0 .. ICACHE_ENTRIES - 1 |-> NoLine]]

Hit(m, operation, page) == m.tag[operation][Idx(page)].page = page
Checks(m, operation, page) == Hit(m, operation, page) /\ m.tag[operation][Idx(page)].check

(* The three tags share the data: those of another page are dropped.       *)
refill_tlb(m, page, target, operation) ==
    LET i == Idx(page)
        kept(o) == IF Hit(m, o, page) THEN m.tag[o][i] ELSE NoTag
        new == [page |-> page, check |-> operation \in m.checks]
    IN  [m EXCEPT !.data[i] = target - page,
                  !.tag = [o \in Operations |-> [m.tag[o] EXCEPT
                              ![i] = IF o = operation THEN new ELSE kept(o)]]]

Target(m, page) == m.data[Idx(page)] + page

(* An outcome is what a call leaves: the buffers, the tables, the physical *)
(* page it found, and how it ended.  Calls in a row hand it on; the first  *)
(* that does not end "done" is the last, an exception.                     *)
Outcome(m, tables) == [mmu |-> m, pte |-> tables, event |-> "done", page |-> 0, index |-> NoMatch]
Ended(o, event) == [o EXCEPT !.event = event]
Matched(o, index) == [o EXCEPT !.event = "trigger", !.index = index]

match(operation, addr, datum) ==
    trigger_match(mcontrol, tdata2, hart.prv, hart.debug, operation, addr, datum)

Physical(o, addr) == o.page * PageSize + (addr % PageSize)

(* What a walk that found r does to the page tables.                       *)
Marked(o, r, operation) == [o EXCEPT !.pte = Touched(@, r, operation), !.page = r.page]
Refilled(o, page, operation) == [o EXCEPT !.mmu = refill_tlb(@, page, o.page, operation)]

(* fetch_slow_path does not keep the translation of a device.              *)
FetchSlowPath(o, page, r) ==
    CASE r.fault # "none" -> Ended(o, r.fault)
      [] r.fault = "none" /\ r.page \in Memory -> Refilled(Marked(o, r, "FETCH"), page, "FETCH")
      [] r.fault = "none" /\ r.page \in Devices -> Marked(o, r, "FETCH")
      [] OTHER -> Ended(Marked(o, r, "FETCH"), "access fault")

CheckedFetch(o, addr) ==
    IF /\ o.event = "done" /\ Checks(o.mmu, "FETCH", PageOf(addr))
       /\ match("FETCH", addr, Code[Physical(o, addr)]) # NoMatch
    THEN Matched(o, match("FETCH", addr, Code[Physical(o, addr)])) ELSE o

translate_insn_addr(o, addr) ==
    IF Hit(o.mmu, "FETCH", PageOf(addr))
    THEN CheckedFetch([o EXCEPT !.page = Target(o.mmu, PageOf(addr))], addr)
    ELSE CheckedFetch(FetchSlowPath(o, PageOf(addr), translate(o.pte, hart, PageOf(addr), "FETCH")), addr)

(* refill_icache with an entry of its own (load_insn): the outcome of      *)
(* translating the halfwords, and the line.                                *)
Whole(o, addr, halves) == [outcome |-> o, line |-> [tag |-> addr, halves |-> halves]]
SecondHalf(o, addr, first) == Whole(o, addr, <<first, Physical(o, addr + 1)>>)
FirstHalf(o, addr) ==
    IF o.event = "done" /\ Physical(o, addr) \in Long
    THEN SecondHalf(translate_insn_addr(o, addr + 1), addr, Physical(o, addr))
    ELSE Whole(o, addr, <<Physical(o, addr)>>)
load_insn(o, addr) == FirstHalf(translate_insn_addr(o, addr), addr)

IcacheIndex(addr) == addr % ICACHE_ENTRIES

(* A traced instruction is not kept.                                       *)
Kept(l, addr) ==
    IF l.outcome.event # "done" THEN l.outcome
    ELSE [l.outcome EXCEPT !.mmu.icache[IcacheIndex(addr)] =
             IF "FETCH" \in Traced THEN NoLine ELSE l.line]

access_icache(o, addr) ==
    IF o.mmu.icache[IcacheIndex(addr)].tag = addr THEN o ELSE Kept(load_insn(o, addr), addr)

(* load_... and store_...: a hit is checked against the triggers if its    *)
(* tag says so, the slow path always, unless matched_trigger is set.  A    *)
(* store is checked before it reaches memory, a load after.                *)
Compared(o, index) == IF index = NoMatch THEN o ELSE Matched(o, index)

SlowPath(o, operation, page, r, index) ==
    IF r.fault # "none" THEN Ended(o, r.fault)
    ELSE IF operation = "STORE" /\ index # NoMatch
         THEN Matched(Marked(o, r, operation), index)
    ELSE IF r.page \notin Memory \cup Devices
         THEN Ended(Marked(o, r, operation), "access fault")
    ELSE Compared(IF r.page \in Memory /\ operation \notin Traced
                  THEN Refilled(Marked(o, r, operation), page, operation)
                  ELSE Marked(o, r, operation), index)

AccessPage(o, operation, page, index) ==
    IF Hit(o.mmu, operation, page)
    THEN Compared([o EXCEPT !.page = Target(o.mmu, page)],
                  IF Checks(o.mmu, operation, page) THEN index ELSE NoMatch)
    ELSE SlowPath(o, operation, page, translate(o.pte, hart, page, operation), index)

Access(o, operation, addr, datum, retrying) ==
    IF o.event # "done" THEN o
    ELSE AccessPage(o, operation, PageOf(addr),
                    IF retrying THEN NoMatch ELSE match(operation, addr, datum))

(* The accesses of an instruction; an atomic one loads and then stores.    *)
Kinds == {<<"LOAD">>, <<"STORE">>, <<"LOAD", "STORE">>}

AccessAll(o, kind, addr, datum, retrying) ==
    LET from(i) == Access(o, kind[i], addr, datum, retrying)
    IN  IF Len(kind) = 1 THEN from(1)
        ELSE Access(from(1), kind[2], addr, datum, retrying)

(* acquire_load_reservation and check_load_reservation: always a walk, and *)
(* the buffer is refilled whoever traces.                                  *)
Held(o, operation, addr) ==
    IF operation = "LOAD" THEN [o EXCEPT !.mmu.reservation = Physical(o, addr)] ELSE o
ReservePage(o, operation, addr, r) ==
    IF r.fault # "none" THEN Ended(o, r.fault)
    ELSE IF r.page \notin Memory THEN Ended(Marked(o, r, operation), "access fault")
    ELSE Held(Refilled(Marked(o, r, operation), PageOf(addr), operation), operation, addr)
Reserve(o, operation, addr) ==
    IF o.event # "done" THEN o
    ELSE ReservePage(o, operation, addr, translate(o.pte, hart, PageOf(addr), operation))

-----------------------------------------------------------------------------
(* The instructions and events that change what is above.                  *)

Init ==
    /\ hart = [prv |-> "M", mprv |-> FALSE, mpp |-> "U", sum |-> FALSE,
               mxr |-> FALSE, satp |-> NoTable, debug |-> FALSE]
    /\ mcontrol = [i \in Indexes |-> Disabled] /\ tdata2 = [i \in Indexes |-> 0]
    /\ mmu = Flushed([tag |-> <<>>, data |-> [i \in 0 .. TLB_ENTRIES - 1 |-> 0],
                      icache |-> <<>>, checks |-> {}, reservation |-> NoReservation])
    /\ pte \in InitTables /\ workload \in Workloads
    /\ alive = TRUE /\ stores = 0 /\ stale = {}

Flush == mmu' = Flushed(mmu) /\ stale' = {}

triggervars == <<mcontrol, tdata2>>

(* set_privilege flushes always, mstatus when a field translations read    *)
(* changes.                                                                *)
SetPrivilege(h) == hart' = h /\ Flush

(* take_trap, to the privilege the delegation gives, or into debug mode.   *)
(* An exception in debug mode only goes back to the debug ROM.             *)
Trapped(h) ==
    IF h.debug THEN {h}
    ELSE {[h EXCEPT !.prv = "M", !.mpp = h.prv], [h EXCEPT !.prv = "M", !.debug = TRUE]}
            \cup (IF h.prv = "M" THEN {} ELSE {[h EXCEPT !.prv = "S"]})

(* What the step does with an outcome that is not "done".                  *)
Raise(o) ==
    /\ pte' = o.pte
    /\ \E h \in Trapped(hart) :
        /\ hart' = h
        /\ IF hart.debug THEN mmu' = o.mmu /\ UNCHANGED stale
           ELSE mmu' = Flushed(o.mmu) /\ stale' = {}
    /\ UNCHANGED <<triggervars, alive, stores>>

Complete(o) ==
    /\ mmu' = o.mmu /\ pte' = o.pte
    /\ UNCHANGED <<hart, triggervars, alive, stores, stale>>

(* An exception inside the handler of a trigger is caught by nobody.       *)
Escape(o) ==
    /\ mmu' = o.mmu /\ pte' = o.pte /\ alive' = FALSE
    /\ UNCHANGED <<hart, triggervars, stores, stale>>

(* A trigger that fires after the access leaves matched_trigger set: the   *)
(* handler fetches the instruction again and executes it to the end.       *)
Restarted(o) == IF o.event = "done" THEN Raise(o) ELSE Escape(o)
Refetched(o, pc) == load_insn(Outcome(o.mmu, o.pte), pc).outcome

(* The end of an instruction; execute triggers fire before it.             *)
Finish(o, pc, kind, addr, datum) ==
    IF o.event = "done" THEN Complete(o)
    ELSE IF o.event = "trigger" /\ mcontrol[o.index].timing = "after"
         THEN Restarted(AccessAll(Refetched(o, pc), kind, addr, datum, TRUE))
    ELSE Raise(o)

Fetched(pc) == access_icache(Outcome(mmu, pte), pc)

(* An instruction that loads or stores.                                    *)
LoadStore(pc, kind, addr, datum) ==
    Finish(AccessAll(Fetched(pc), kind, addr, datum, FALSE), pc, kind, addr, datum)

(* One that reserves, or stores if the reservation is still held.          *)
LoadReserved(pc, addr) == Finish(Reserve(Fetched(pc), "LOAD", addr), pc, <<"LOAD">>, addr, 0)

Conditional(o, pc, addr, datum) ==
    IF o.event = "done" /\ o.mmu.reservation # Physical(o, addr) THEN Complete(o)
    ELSE Finish(Access(o, "STORE", addr, datum, FALSE), pc, <<"STORE">>, addr, datum)
StoreConditional(pc, addr, datum) ==
    Conditional(Reserve(Fetched(pc), "STORE", addr), pc, addr, datum)

(* The flush looks at the fields for the privilege only.                   *)
SetStatus_KeepsSum(h) ==
    /\ hart' = h
    /\ IF h.mprv # hart.mprv \/ h.mpp # hart.mpp THEN Flush ELSE UNCHANGED <<mmu, stale>>
    /\ UNCHANGED <<triggervars, pte, alive, stores>>

(* Writes of mstatus from machine mode and of sstatus.                     *)
SetStatus(h) ==
    /\ hart' = h
    /\ IF h # hart THEN Flush ELSE UNCHANGED <<mmu, stale>>
    /\ UNCHANGED <<triggervars, pte, alive, stores>>

WriteMstatus ==
    /\ "status" \in workload
    /\ hart.prv = "M"
    /\ \E mprv, sum, mxr \in BOOLEAN, mpp \in {"M", "S", "U"} :
          SetStatus([hart EXCEPT !.mprv = mprv, !.mpp = mpp, !.sum = sum, !.mxr = mxr])

WriteSstatus ==
    /\ "status" \in workload
    /\ hart.prv = "S"
    /\ \E sum, mxr \in BOOLEAN : SetStatus([hart EXCEPT !.sum = sum, !.mxr = mxr])

WriteSatp ==
    /\ hart.prv \in {"M", "S"}
    /\ \E root \in Tables \cup {NoTable} : SetPrivilege([hart EXCEPT !.satp = root])
    /\ UNCHANGED <<triggervars, pte, alive, stores>>

(* mret, sret and dret.                                                    *)
Return ==
    /\ \/ /\ hart.prv = "M" /\ ~hart.debug
          /\ SetPrivilege([hart EXCEPT !.prv = hart.mpp, !.mpp = "U"])
       \/ /\ hart.prv = "S"
          /\ \E p \in {"S", "U"} : SetPrivilege([hart EXCEPT !.prv = p])
       \/ /\ hart.debug
          /\ \E p \in {"M", "S", "U"} :
                SetPrivilege([hart EXCEPT !.prv = p, !.debug = FALSE])
    /\ UNCHANGED <<triggervars, pte, alive, stores>>

(* A halt request, an interrupt or an environment call.                    *)
Interrupted ==
    /\ ~hart.debug
    /\ \E h \in Trapped(hart) : SetPrivilege(h)
    /\ UNCHANGED <<triggervars, pte, alive, stores>>

SfenceVma ==
    /\ hart.prv \in {"M", "S"} /\ Flush
    /\ UNCHANGED <<hart, triggervars, pte, alive, stores>>

FenceI ==
    /\ mmu' = [mmu EXCEPT !.icache = Flushed(mmu).icache]
    /\ UNCHANGED <<hart, triggervars, pte, alive, stores, stale>>

(* The buffers keep their entries.                                         *)
Updated_NoFlush(m, controls) ==
    [m EXCEPT !.checks = UNION {controls[i].on : i \in Indexes}]

(* trigger_updated.                                                        *)
Updated(m, controls) ==
    [Flushed(m) EXCEPT !.checks = UNION {controls[i].on : i \in Indexes}]

(* An execute trigger always fires before the instruction.                 *)
Legal(control) == IF "FETCH" \in control.on THEN [control EXCEPT !.timing = "before"] ELSE control

MayWrite(i) == hart.prv = "M" /\ (mcontrol[i].dmode => hart.debug)

WriteTdata1 ==
    /\ "triggers" \in workload
    /\ \E i \in Indexes, c \in TriggerControls :
        /\ MayWrite(i)
        /\ mcontrol' = [mcontrol EXCEPT ![i] = Legal(c)]
        /\ mmu' = Updated(mmu, mcontrol')
    /\ stale' = {}
    /\ UNCHANGED <<hart, tdata2, pte, alive, stores>>

WriteTdata2 ==
    /\ "triggers" \in workload
    /\ \E i \in Indexes, v \in TriggerValues :
        MayWrite(i) /\ tdata2' = [tdata2 EXCEPT ![i] = v]
    /\ stale' = stale \cup {"tdata2"}
    /\ UNCHANGED <<hart, mcontrol, mmu, pte, alive, stores>>

(* processor_t::reset: the state is cleared, the mmu is not told.          *)
Reset ==
    /\ "reset" \in workload
    /\ hart' = [prv |-> "M", mprv |-> FALSE, mpp |-> "U", sum |-> FALSE,
                mxr |-> FALSE, satp |-> NoTable, debug |-> FALSE]
    /\ mcontrol' = [i \in Indexes |-> Disabled] /\ tdata2' = [i \in Indexes |-> 0]
    /\ stale' = stale \cup {"reset"}
    /\ UNCHANGED <<mmu, pte, alive, stores>>

(* sim_t::step, when the turn goes to another hart.                        *)
YieldLoadReservation ==
    /\ "reserve" \in workload
    /\ mmu' = [mmu EXCEPT !.reservation = NoReservation]
    /\ UNCHANGED <<hart, triggervars, pte, alive, stores, stale>>

(* The operating system, here or on another hart, changes its tables.      *)
StoreTable ==
    /\ "tables" \in workload
    /\ stores < MaxTableStores /\ stores' = stores + 1
    /\ \E t \in Tables : \E k \in DOMAIN pte[t], e \in Ptes : pte' = [pte EXCEPT ![t][k] = e]
    /\ stale' = stale \cup {"tables"}
    /\ UNCHANGED <<hart, triggervars, mmu, alive>>

Next ==
    /\ alive /\ UNCHANGED workload
    /\ \/ \E pc \in Pcs, addr \in Addrs, datum \in Data :
            \/ \E kind \in Kinds : LoadStore(pc, kind, addr, datum)
            \/ LoadReserved(pc, addr)
            \/ StoreConditional(pc, addr, datum)
       \/ WriteMstatus \/ WriteSstatus \/ WriteSatp \/ Return \/ Interrupted
       \/ SfenceVma \/ FenceI \/ WriteTdata1 \/ WriteTdata2 \/ Reset
       \/ YieldLoadReservation \/ StoreTable

Spec == Init /\ [][Next]_vars

-----------------------------------------------------------------------------
(* Properties.                                                             *)

Walked(operation, page) == translate(pte, hart, page, operation)

BufferIsWalk ==
    \A o \in Operations, page \in Pages : Hit(mmu, o, page) =>
        /\ Walked(o, page).fault = "none"
        /\ Walked(o, page).page = Target(mmu, page)

(* Since the last flush the tables have been stored to, or the hart was    *)
(* reset, which flushes nothing.                                           *)
Synchronized == stale \cap {"tables", "reset"} = {}

(* The three tags share one translation: with MPRV set, code and data of   *)
(* the same virtual page may have different ones.                          *)
OneMode == Mode(hart, "FETCH") = Mode(hart, "LOAD")

(* An access that hits the buffer goes where the walk would take it, with  *)
(* the privilege and the status bits of now: every change of them has      *)
(* flushed (processor.cc:245-249, 376-379, 465-474; mmu.cc:135-159).       *)
HitIsWalk == Synchronized /\ OneMode => BufferIsWalk

(* The same of the instruction cache, which never asks the walk again,     *)
(* both halves of an instruction across a page boundary included           *)
(* (mmu.h:213-258).                                                        *)
CachedCodeIsWalk ==
    Synchronized /\ OneMode =>
        \A i \in DOMAIN mmu.icache :
            LET line == mmu.icache[i]
            IN  \A k \in DOMAIN line.halves :
                    LET addr == line.tag + k - 1
                        w == Walked("FETCH", PageOf(addr))
                    IN  w.fault = "none" /\ line.halves[k] = Physical(w, addr)

(* Restarting an instruction whose trigger fires after it throws nothing   *)
(* (execute.cc:235-247).                                                   *)
RestartIsSafe == alive

(* No enabled trigger is bypassed by a hit: an entry without the check bit *)
(* is for an operation no trigger looks at, and code in the instruction    *)
(* cache does not match an execute trigger, unless tdata2 was written      *)
(* since (processor.cc:829-847, mmu.cc:147-150, mmu.h:317-335).            *)
TriggersSeeHits ==
    /\ \A o \in Operations, i \in 0 .. TLB_ENTRIES - 1 :
        mmu.tag[o][i] # NoTag /\ ~mmu.tag[o][i].check =>
            \A t \in Indexes : o \notin mcontrol[t].on
    /\ "tdata2" \notin stale => \A i \in DOMAIN mmu.icache :
            LET line == mmu.icache[i]
            IN  \A k \in DOMAIN line.halves :
                    PageOf(line.halves[k]) \in Memory =>
                        match("FETCH", line.tag + k - 1, Code[line.halves[k]]) = NoMatch
=============================================================================
