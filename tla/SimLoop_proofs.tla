--------------------------- MODULE SimLoop_proofs ---------------------------
(***************************************************************************)
(* Proofs about the main loop, the bus and the CLINT, for every number of  *)
(* harts, turn length, memory layout, word size and set of stores.         *)
(*                                                                         *)
(* TypeOK and Placed form the inductive invariant: Placed says what the    *)
(* place in the loop tells of the current turn and of load reservations.   *)
(***************************************************************************)
EXTENDS SimLoop, WellFoundedInduction, TLAPS

(* A chunk in progress is not empty, does not go beyond the turn, nor      *)
(* beyond the call.  Calls of the main loop are whole turns, so that the   *)
(* debugger is served between turns only, and the loops of the prompt,     *)
(* whose calls are single steps, never serve it (sim.cc:84-128).           *)
ChunkInTurn ==
    at = "hart" => chunk \in 1 .. left /\ current_step + chunk <= INTERLEAVE
MainIsWhole ==
    by = "main" =>
        /\ current_step = 0
        /\ at = "hart" => chunk = INTERLEAVE /\ left = INTERLEAVE
        /\ at = "step" => left \in {0, INTERLEAVE}
        /\ at \in {"host", "tick"} => left = 0
PromptIsApart ==
    /\ at \in {"start", "main", "tick"} => by = "main"
    /\ at = "again" => by # "main"
    /\ at = "host" => current_step = 0

(* Only the current hart holds a reservation, and none while the host or   *)
(* the debugger may store.                                                 *)
Holder ==
    \A h \in Procs : reservation[h] # NoReservation =>
        /\ h = current_proc
        /\ by = "main" => at \in {"hart", "step", "exited"}
        /\ at # "host"
        /\ by = "main" /\ at = "step" => left = INTERLEAVE

Placed == ChunkInTurn /\ MainIsWhole /\ PromptIsApart /\ Holder

Inv == TypeOK /\ Placed /\ ReservationIsExclusive /\ RoundIsFair /\ TimerFollowsClock

-----------------------------------------------------------------------------
(* The CLINT.                                                              *)

LEMMA ModInRange ==
    ASSUME NEW a \in Nat, NEW n \in Nat \ {0}
    PROVE  a % n \in 0 .. n - 1
  BY SMT

LEMMA Product ==
    ASSUME NEW w \in Nat, w > 1, NEW a \in 0 .. w - 1, NEW b \in 0 .. w - 1
    PROVE  a + w * b \in 0 .. w * w - 1
  <1>1. b <= w - 1 /\ w * b <= w * (w - 1)
    BY SMT
  <1>2. w * (w - 1) = w * w - w
    BY SMT
  <1>3. w * b \in Nat /\ w * w \in Nat
    BY SMT
  <1> QED
    BY <1>1, <1>2, <1>3, SMT

LEMMA Quotient ==
    ASSUME NEW w \in Nat, w > 1, NEW v \in 0 .. w * w - 1
    PROVE  v \div w \in 0 .. w - 1
  <1> DEFINE q == v \div w
  <1>1. q \in Nat /\ w * q <= v
    BY SMT
  <1>2. CASE q >= w
    <2>1. w * q >= w * w
      BY <1>1, <1>2, SMT
    <2> QED
      BY <1>1, <2>1, SMT
  <1> QED
    BY <1>1, <1>2, SMT

(* A register keeps its range when words of it are replaced.               *)
LEMMA MergedInRange ==
    ASSUME NEW value \in Values, NEW base \in Nat, NEW h \in Nat, NEW offset \in Int,
           NEW words \in Seq(Words)
    PROVE  Merged(value, base, h, offset, words) \in Values
  <1> DEFINE stored(k, old) == IF k \in offset .. offset + Len(words) - 1
                               THEN words[k - offset + 1] ELSE old
             low == base + 2 * h
  <1>1. Word \in Nat /\ Word > 1
    BY ClintAssumption
  <1>2. ASSUME NEW k \in Int, NEW old \in Words
        PROVE  stored(k, old) \in Words
    <2>1. CASE k \in offset .. offset + Len(words) - 1
      <3>1. k - offset + 1 \in 1 .. Len(words)
        BY <2>1, SMT
      <3> QED
        BY <2>1, <3>1
    <2> QED
      BY <2>1
  <1>3. value % Word \in Words
    BY <1>1, ModInRange DEF Values, Words
  <1>4. value \div Word \in Words
    BY <1>1, Quotient DEF Values, Words
  <1>5. low \in Int /\ low + 1 \in Int
    OBVIOUS
  <1>6. stored(low, value % Word) \in Words
    BY <1>2, <1>3, <1>5
  <1>7. stored(low + 1, value \div Word) \in Words
    BY <1>2, <1>4, <1>5
  <1> HIDE DEF stored, low
  <1>8. stored(low, value % Word) + Word * stored(low + 1, value \div Word) \in Values
    BY <1>1, <1>6, <1>7, Product DEF Words, Values
  <1> QED
    BY <1>8 DEF Merged, stored, low

Derived(c) == \A h \in Procs : c.mtip[h] <=> c.mtime >= c.mtimecmp[h]

LEMMA Increments ==
    ASSUME NEW c \in Clints, NEW inc \in Nat
    PROVE  increment(c, inc) \in Clints /\ Derived(increment(c, inc))
  <1>1. Word * Word \in Nat \ {0}
    <2>1. Word \in Nat /\ Word >= 1
      BY ClintAssumption
    <2>2. Word * Word >= 1
      BY <2>1, SMT
    <2> QED
      BY <2>1, <2>2
  <1>2. c.mtime + inc \in Nat
    <2>1. c.mtime \in Values
      BY DEF Clints
    <2> QED
      BY <1>1, <2>1 DEF Values
  <1>3. (c.mtime + inc) % (Word * Word) \in Values
    BY <1>1, <1>2, ModInRange DEF Values
  <1> DEFINE mtime == (c.mtime + inc) % (Word * Word)
  <1> HIDE DEF mtime
  <1>4. increment(c, inc) =
            [c EXCEPT !.mtime = mtime, !.mtip = [h \in Procs |-> mtime >= c.mtimecmp[h]]]
    BY DEF increment, mtime
  <1>5. mtime \in Values
    BY <1>3 DEF mtime
  <1> DEFINE mtip == [h \in Procs |-> mtime >= c.mtimecmp[h]]
  <1>6. mtip \in [Procs -> BOOLEAN]
    OBVIOUS
  <1>7. increment(c, inc) = [mtime |-> mtime, mtimecmp |-> c.mtimecmp,
                             msip |-> c.msip, mtip |-> mtip]
    BY <1>4 DEF Clints
  <1>8. increment(c, inc) \in Clints
    BY <1>5, <1>6, <1>7 DEF Clints
  <1>9. Derived(increment(c, inc))
    <2>1. /\ increment(c, inc).mtime = mtime
          /\ increment(c, inc).mtimecmp = c.mtimecmp
          /\ increment(c, inc).mtip = mtip
      BY <1>7
    <2>2. ASSUME NEW h \in Procs
          PROVE  mtip[h] <=> mtime >= c.mtimecmp[h]
      BY Zenon
    <2> HIDE DEF mtip
    <2> QED
      BY <2>1, <2>2, Zenon DEF Derived
  <1> QED
    BY <1>8, <1>9

LEMMA Stores_Typed ==
    ASSUME NEW c \in Clints, NEW offset \in Int, NEW words \in Seq(Words)
    PROVE  Stored(c, offset, words) \in Clints
  <1> DEFINE r == Register(offset, Len(words))
  <1>1. CASE r = "msip"
    BY <1>1 DEF Stored, Clints
  <1>2. CASE r = "mtimecmp"
    <2>1. ASSUME NEW h \in Procs
          PROVE  Merged(c.mtimecmp[h], MTIMECMP_BASE, h, offset, words) \in Values
      <3>1. c.mtimecmp[h] \in Values
        BY DEF Clints
      <3>2. h \in Nat /\ MTIMECMP_BASE \in Nat
        BY ClintAssumption DEF Procs
      <3> QED
        BY <3>1, <3>2, MergedInRange
    <2> QED
      BY <1>2, <2>1 DEF Stored, Clints
  <1>3. CASE r = "mtime"
    <2>1. Merged(c.mtime, MTIME_BASE, 0, offset, words) \in Values
      BY MergedInRange, ClintAssumption DEF Clints
    <2> QED
      BY <1>3, <2>1 DEF Stored, Clints
  <1>4. CASE r \notin {"msip", "mtimecmp", "mtime"}
    BY <1>4 DEF Stored
  <1> QED
    BY <1>1, <1>2, <1>3, <1>4

(* A store that the CLINT accepts leaves MTIP derived, any other one       *)
(* changes nothing (clint.cc:40-62).                                       *)
LEMMA ClintStores ==
    ASSUME NEW c \in Clints, NEW offset \in Int, NEW words \in Seq(Words)
    PROVE  /\ store(c, offset, words) \in Clints
           /\ load(offset, Len(words)) => Derived(store(c, offset, words))
           /\ ~load(offset, Len(words)) => store(c, offset, words) = c
  BY Stores_Typed, Increments DEF store, load

-----------------------------------------------------------------------------
(* The bus.                                                                *)

OnBus(devices) ==
    /\ DOMAIN devices \subseteq Nat
    /\ \A base \in DOMAIN devices : devices[base].size \in Nat \ {0}

LEMMA Largest ==
    ASSUME NEW bound \in Nat, NEW T \in SUBSET (0 .. bound), T # {}
    PROVE  \E b \in T : \A a \in T : a <= b
  <1> DEFINE D == {bound - a : a \in T}
  <1>1. D \subseteq Nat /\ D # {}
    <2>1. \A a \in T : bound - a \in Nat
      OBVIOUS
    <2> QED
      BY <2>1, Zenon
  <1> HIDE DEF D
  <1>2. PICK n \in D : \A m \in D : <<m, n>> \notin OpToRel(<, Nat)
    BY <1>1, WFMin, NatLessThanWellFounded, Zenon
  <1>3. ASSUME NEW m \in D
        PROVE  n <= m
    <2>1. ~(m < n)
      BY <1>1, <1>2, Zenon DEF OpToRel
    <2> QED
      BY <1>1, <2>1
  <1>4. PICK b \in T : n = bound - b
    BY DEF D
  <1>5. ASSUME NEW a \in T
        PROVE  a <= b
    <2>1. bound - a \in D
      BY DEF D
    <2>2. bound - b <= bound - a
      BY <1>3, <1>4, <2>1
    <2> QED
      BY <2>2
  <1> QED
    BY <1>5

LEMMA FoundIsClosest ==
    ASSUME NEW devices, OnBus(devices), NEW addr \in Nat, Below(devices, addr) # {}
    PROVE  \E b \in Below(devices, addr) :
              /\ \A a \in Below(devices, addr) : a <= b
              /\ find_device(devices, addr) = [base |-> b, device |-> devices[b]]
  <1> DEFINE bases == Below(devices, addr)
  <1>1. bases \in SUBSET (0 .. addr)
    BY DEF Below, OnBus
  <1>2. \E b \in bases : \A a \in bases : a <= b
    BY <1>1, Largest
  <1> DEFINE closest == CHOOSE b \in bases : \A a \in bases : a <= b
  <1>3. closest \in bases /\ \A a \in bases : a <= closest
    BY <1>2
  <1>4. find_device(devices, addr) = [base |-> closest, device |-> devices[closest]]
    BY DEF find_device
  <1> HIDE DEF closest
  <1> QED
    BY <1>3, <1>4

LEMMA OffsetTyped ==
    ASSUME NEW devices, OnBus(devices), NEW addr \in Nat, NEW len
    PROVE  Asked(devices, addr, len).offset \in Int
  <1>1. find_device(devices, addr).base \in Int
    <2>1. CASE Below(devices, addr) = {}
      BY <2>1 DEF find_device
    <2>2. CASE Below(devices, addr) # {}
      BY <2>2, FoundIsClosest DEF Below, OnBus
    <2> QED
      BY <2>1, <2>2
  <1>2. addr - find_device(devices, addr).base \in Int
    BY <1>1
  <1> QED
    BY <1>2 DEF Asked

(* A device that overlaps no other is found at each of its addresses:      *)
(* whatever begins between its base and the address would overlap it.      *)
LEMMA ApartIsFound ==
    ASSUME NEW devices, OnBus(devices), Apart(devices),
           NEW base \in DOMAIN devices, NEW addr \in Ranges(devices)[base]
    PROVE  find_device(devices, addr) = [base |-> base, device |-> devices[base]]
  <1>1. base \in Nat /\ devices[base].size \in Nat
    BY DEF OnBus
  <1>2. addr \in base .. base + devices[base].size - 1
    BY DEF Ranges
  <1>3. addr \in Nat /\ base \in Below(devices, addr)
    BY <1>1, <1>2 DEF Below
  <1>4. PICK b \in Below(devices, addr) :
            /\ base <= b
            /\ find_device(devices, addr) = [base |-> b, device |-> devices[b]]
    BY <1>3, FoundIsClosest
  <1>5. b \in DOMAIN devices /\ b <= addr
    BY DEF Below
  <1>6. b \in Nat /\ devices[b].size \in Nat \ {0}
    BY <1>5 DEF OnBus
  <1>7. b \in b .. b + devices[b].size - 1
    BY <1>6
  <1>8. b \in base .. base + devices[base].size - 1
    BY <1>1, <1>2, <1>4, <1>5, <1>6
  <1>9. b \in Ranges(devices)[b] \cap Ranges(devices)[base]
    BY <1>5, <1>7, <1>8 DEF Ranges
  <1>10. b = base
    BY <1>5, <1>9 DEF Apart
  <1> QED
    BY <1>4, <1>10

LEMMA PopulatedTyped ==
    ASSUME NEW mems \in Layouts
    PROVE  OnBus(Populated(mems))
  <1>1. \A base \in DOMAIN mems : base \in Nat /\ mems[base] \in Nat \ {0}
    BY SimAssumption, BusAssumption DEF make_mems, Addresses
  <1>2. OnBus(WithMemories(mems))
    BY <1>1 DEF OnBus, WithMemories, Memory
  <1> QED
    BY <1>2, BusAssumption DEF OnBus, Populated, add_device, DebugDevice, ClintDevice

LEMMA ResetTyped ==
    ASSUME NEW devices, OnBus(devices), NEW dtb_enabled \in BOOLEAN
    PROVE  OnBus(reset(devices, dtb_enabled))
  BY BusAssumption DEF OnBus, reset, add_device, Rom

-----------------------------------------------------------------------------
(* Stores of a hart, the host or the debugger.                             *)

LEMMA StoreKeeps ==
    ASSUME TypeOK, TimerFollowsClock,
           NEW agent, NEW addr \in Accessed, NEW words \in Stores, Store(agent, addr, words)
    PROVE  /\ clint' \in Clints /\ derived' \subseteq Procs
           /\ TimerFollowsClock'
  <1> DEFINE len    == Len(words)
             offset == Asked(bus, addr, len).offset
             hit    == ~InMemory(bus, addr) /\ Asked(bus, addr, len).kind = "clint"
  <1>1. words \in Seq(Words) /\ addr \in Nat
    BY SimAssumption, BusAssumption DEF Addresses
  <1>2. offset \in Int
    BY <1>1, OffsetTyped DEF TypeOK, OnBus
  <1>3. clint \in Clints /\ derived \subseteq Procs
    BY DEF TypeOK
  <1>4. CASE ~hit
    <2>1. clint' = clint /\ derived' = derived
      BY <1>4 DEF Store
    <2> QED
      BY <1>3, <2>1, Zenon DEF TimerFollowsClock
  <1>5. CASE hit /\ load(offset, len)
    <2>1. clint' = store(clint, offset, words) /\ derived' = Procs
      BY <1>5 DEF Store
    <2>2. clint' \in Clints /\ Derived(clint')
      BY <1>1, <1>2, <1>3, <1>5, <2>1, ClintStores
    <2> QED
      BY <2>1, <2>2, Zenon DEF Derived, TimerFollowsClock
  <1>6. CASE hit /\ ~load(offset, len)
    <2>1. clint' = store(clint, offset, words) /\ derived' = derived
      BY <1>6 DEF Store
    <2>2. clint' = clint
      BY <1>1, <1>2, <1>3, <1>6, <2>1, ClintStores
    <2> QED
      BY <1>3, <2>1, <2>2, Zenon DEF TimerFollowsClock
  <1> QED
    BY <1>4, <1>5, <1>6

(* Nobody's reservation is stored to by the agent that alone may have one. *)
LEMMA StoreBreaksNone ==
    ASSUME NEW agent, NEW addr \in Nat, NEW len \in Nat,
           \A h \in Procs \ {agent} : reservation[h] = NoReservation
    PROVE  Breaks(agent, addr, len) = {}
  BY DEF Breaks, NoReservation

LEMMA StoreIsExclusive ==
    ASSUME NEW agent, NEW addr \in Accessed, NEW words \in Stores, Store(agent, addr, words),
           \A h \in Procs \ {agent} : reservation[h] = NoReservation,
           ReservationIsExclusive
    PROVE  ReservationIsExclusive'
  <1>1. addr \in Nat /\ Len(words) \in Nat
    BY SimAssumption, BusAssumption DEF Addresses
  <1>2. Breaks(agent, addr, Len(words)) = {}
    BY <1>1, StoreBreaksNone
  <1> QED
    BY <1>2 DEF Store, ReservationIsExclusive

-----------------------------------------------------------------------------
(* The steps.                                                              *)

LEMMA Initially == Init => Inv
  <1> SUFFICES ASSUME Init PROVE Inv
    OBVIOUS
  <1>1. TypeOK
    <2>1. DOMAIN bus \subseteq Nat /\ \A base \in DOMAIN bus : bus[base].size \in Nat \ {0}
      BY PopulatedTyped DEF Init, OnBus
    <2>2. clint \in Clints
      <3>1. 0 \in Values
        BY ClintAssumption, Product, SMT DEF Values
      <3> QED
        BY <3>1 DEF Init, clint_t, Clints
    <2>3. 0 \in Procs /\ 0 \in 0 .. INTERLEAVE - 1 /\ 0 \in 0 .. INTERLEAVE
      BY ProcsAssumption, SimAssumption DEF Procs
    <2> QED
      BY <2>1, <2>2, <2>3 DEF Init, TypeOK, Places, Loops
  <1>2. Placed
    BY DEF Init, Placed, ChunkInTurn, MainIsWhole, PromptIsApart, Holder
  <1>3. RoundIsFair
    BY DEF Init, RoundIsFair, Procs
  <1> QED
    BY <1>1, <1>2, <1>3 DEF Inv, Init, ReservationIsExclusive, TimerFollowsClock

(* What a step changes that leaves memory, clock and turn alone: where the *)
(* thread is.                                                              *)
LEMMA ControlStep ==
    ASSUME Inv, UNCHANGED <<target, current_proc, current_step, given>>
    PROVE  ReservationIsExclusive' /\ RoundIsFair' /\ TimerFollowsClock'
  <1>1. ReservationIsExclusive'
    BY DEF Inv, ReservationIsExclusive, target
  <1>2. RoundIsFair'
    BY DEF Inv, RoundIsFair
  <1>3. clint' = clint /\ derived' = derived
    BY DEF target
  <1>4. TimerFollowsClock'
    BY <1>3, Zenon DEF Inv, TimerFollowsClock
  <1> QED
    BY <1>1, <1>2, <1>4

LEMMA ThreadSteps ==
    ASSUME Inv, MainLoop \/ BeginChunk \/ EndCall \/ Again \/ Stop
    PROVE  Inv'
  <1> USE SimAssumption DEF Inv, TypeOK, Placed, ChunkInTurn, MainIsWhole, PromptIsApart, Holder,
          target, scheduler, Call, Loops, Places
  <1>1. CASE MainLoop
    <2>1. TypeOK' /\ Placed'
      BY <1>1 DEF MainLoop
    <2> QED
      BY <1>1, <2>1, ControlStep DEF MainLoop
  <1>2. CASE BeginChunk
    <2>1. TypeOK' /\ Placed'
      BY <1>2 DEF BeginChunk, Steps, Smaller
    <2> QED
      BY <1>2, <2>1, ControlStep DEF BeginChunk
  <1>3. CASE EndCall
    <2>1. TypeOK' /\ Placed'
      BY <1>3 DEF EndCall
    <2> QED
      BY <1>3, <2>1, ControlStep DEF EndCall
  <1>4. CASE Again
    <2>1. TypeOK' /\ Placed'
      BY <1>4 DEF Again
    <2> QED
      BY <1>4, <2>1, ControlStep DEF Again
  <1>5. CASE Stop
    <2>1. TypeOK' /\ Placed'
      BY <1>5 DEF Stop
    <2> QED
      BY <1>5, <2>1, ControlStep DEF Stop
  <1> QED
    BY <1>1, <1>2, <1>3, <1>4, <1>5

LEMMA PromptSteps ==
    ASSUME Inv, Prompt \/ handle_signal \/ EndTick \/ idle \/ HostExits
    PROVE  Inv'
  <1> USE SimAssumption DEF Inv, TypeOK, Placed, ChunkInTurn, MainIsWhole, PromptIsApart, Holder,
          target, scheduler, Call, Loops, Places
  <1>1. CASE interactive
    <2>1. TypeOK' /\ Placed'
      BY <1>1 DEF interactive
    <2> QED
      BY <1>1, <2>1, ControlStep DEF interactive
  <1>2. CASE \E loop \in Loops \ {"main", "prompt"} : interactive_run(loop)
    <2>1. TypeOK' /\ Placed'
      BY <1>2 DEF interactive_run
    <2> QED
      BY <1>2, <2>1, ControlStep DEF interactive_run
  <1>3. CASE interactive_quit
    <2>1. TypeOK' /\ Placed'
      BY <1>3 DEF interactive_quit
    <2> QED
      BY <1>3, <2>1, ControlStep DEF interactive_quit
  <1>4. CASE handle_signal
    <2>1. TypeOK' /\ Placed'
      BY <1>4 DEF handle_signal
    <2> QED
      BY <1>4, <2>1, ControlStep DEF handle_signal
  <1>5. CASE EndTick
    <2>1. TypeOK' /\ Placed'
      BY <1>5 DEF EndTick
    <2> QED
      BY <1>5, <2>1, ControlStep DEF EndTick
  <1>6. CASE idle \/ HostExits
    <2>1. TypeOK' /\ Placed'
      BY <1>6 DEF idle, HostExits
    <2> QED
      BY <1>6, <2>1, ControlStep DEF idle, HostExits
  <1> QED
    BY <1>1, <1>2, <1>3, <1>4, <1>5, <1>6 DEF Prompt

(* The accesses of the current hart, and of host and debugger, who find    *)
(* no reservation.                                                         *)
LEMMA AccessSteps ==
    ASSUME Inv, HartStore \/ HostStore \/ DebuggerStore
    PROVE  Inv'
  <1> DEFINE agent == IF at = "hart" THEN current_proc ELSE Outsider
  <1>1. PICK addr \in Accessed, words \in Stores : Store(agent, addr, words)
    BY DEF HartStore, HostStore, DebuggerStore
  <1>2. /\ at \in {"hart", "host", "tick"}
        /\ UNCHANGED <<bus, reservation, scheduler, debug, ctrlc_pressed, at, by>>
    BY DEF HartStore, HostStore, DebuggerStore
  <1>3. \A h \in Procs \ {agent} : reservation[h] = NoReservation
    BY <1>2 DEF Inv, Placed, Holder, PromptIsApart
  <1> HIDE DEF agent
  <1>4. clint' \in Clints /\ derived' \subseteq Procs /\ TimerFollowsClock'
    BY <1>1, StoreKeeps DEF Inv
  <1>5. ReservationIsExclusive'
    BY <1>1, <1>3, StoreIsExclusive DEF Inv
  <1>6. TypeOK'
    BY <1>2, <1>4, <1>5 DEF Inv, TypeOK, ReservationIsExclusive, scheduler
  <1>7. Placed'
    BY <1>2 DEF Inv, Placed, ChunkInTurn, MainIsWhole, PromptIsApart, Holder, scheduler
  <1>8. RoundIsFair'
    BY <1>2 DEF Inv, RoundIsFair, scheduler
  <1> QED
    BY <1>4, <1>5, <1>6, <1>7, <1>8 DEF Inv

LEMMA ReservationSteps ==
    ASSUME Inv, LoadReserved \/ StoreConditional
    PROVE  Inv'
  <1>1. /\ at = "hart"
        /\ UNCHANGED <<bus, clint, derived, scheduler, debug, ctrlc_pressed, at, by>>
    BY DEF LoadReserved, StoreConditional
  <1>2. \A h \in Procs \ {current_proc} : reservation[h] = NoReservation
    BY DEF Inv, Placed, Holder
  <1>3. /\ reservation' \in [Procs -> Addresses \cup {NoReservation}]
        /\ \A h \in Procs \ {current_proc} : reservation'[h] = reservation[h]
    BY SimAssumption DEF Inv, TypeOK, LoadReserved, StoreConditional
  <1>4. ReservationIsExclusive'
    <2>1. CASE LoadReserved
      BY <2>1 DEF LoadReserved, Inv, ReservationIsExclusive
    <2>2. CASE StoreConditional
      <3>1. PICK addr \in Accessed, keep \in BOOLEAN :
                broken' = (IF reservation[current_proc] = addr
                           THEN broken \cup Breaks(current_proc, addr, 1) ELSE broken)
                          \ (IF keep THEN {} ELSE {current_proc})
        BY <2>2 DEF StoreConditional
      <3>2. addr \in Nat
        BY SimAssumption, BusAssumption DEF Addresses
      <3>3. Breaks(current_proc, addr, 1) = {}
        BY <1>2, <3>2, StoreBreaksNone
      <3> QED
        BY <3>1, <3>3 DEF Inv, ReservationIsExclusive
    <2> QED
      BY <2>1, <2>2
  <1>5. TypeOK'
    BY <1>1, <1>3, <1>4 DEF Inv, TypeOK, ReservationIsExclusive, scheduler
  <1>6. Placed'
    BY <1>1, <1>2, <1>3 DEF Inv, TypeOK, Placed, ChunkInTurn, MainIsWhole, PromptIsApart, Holder,
                            scheduler
  <1>7. RoundIsFair'
    BY <1>1 DEF Inv, RoundIsFair, scheduler
  <1>8. TimerFollowsClock'
    BY <1>1, Zenon DEF Inv, TimerFollowsClock
  <1> QED
    BY <1>4, <1>5, <1>6, <1>7, <1>8 DEF Inv

LEMMA ResetSteps ==
    ASSUME Inv, HtifReset \/ DebuggerResets
    PROVE  Inv'
  <1>1. CASE HtifReset
    <2>1. PICK dtb_enabled \in BOOLEAN : bus' = reset(bus, dtb_enabled)
      BY <1>1 DEF HtifReset
    <2>2. OnBus(bus')
      BY <2>1, ResetTyped DEF Inv, TypeOK, OnBus
    <2>3. TypeOK'
      BY <1>1, <2>2 DEF HtifReset, Inv, TypeOK, OnBus, scheduler, Places
    <2>4. Placed'
      BY <1>1 DEF HtifReset, Inv, Placed, ChunkInTurn, MainIsWhole, PromptIsApart, Holder, scheduler
    <2>5. ReservationIsExclusive' /\ RoundIsFair'
      BY <1>1 DEF HtifReset, Inv, ReservationIsExclusive, RoundIsFair, scheduler
    <2>6. clint' = clint /\ derived' = derived
      BY <1>1 DEF HtifReset
    <2>7. TimerFollowsClock'
      BY <2>6, Zenon DEF Inv, TimerFollowsClock
    <2> QED
      BY <2>3, <2>4, <2>5, <2>7 DEF Inv
  <1>2. CASE DebuggerResets
    <2>1. PICK h \in Procs : HartReset(h)
      BY <1>2 DEF DebuggerResets
    <2>2. /\ clint' \in Clints
          /\ clint'.mtime = clint.mtime /\ clint'.mtimecmp = clint.mtimecmp
          /\ \A k \in Procs \ {h} : clint'.mtip[k] = clint.mtip[k]
      BY <2>1 DEF HartReset, Inv, TypeOK, Clints
    <2>3. derived' = derived \ {h} /\ UNCHANGED <<bus, reservation, broken>>
      BY <2>1 DEF HartReset
    <2>4. UNCHANGED <<scheduler, debug, ctrlc_pressed, at, by>>
      BY <1>2 DEF DebuggerResets
    <2>5. TypeOK'
      BY <2>2, <2>3, <2>4 DEF Inv, TypeOK, scheduler
    <2>6. Placed' /\ ReservationIsExclusive' /\ RoundIsFair'
      BY <2>3, <2>4 DEF Inv, Placed, ChunkInTurn, MainIsWhole, PromptIsApart, Holder, scheduler,
                        ReservationIsExclusive, RoundIsFair
    <2>7. TimerFollowsClock'
      <3> SUFFICES ASSUME NEW k \in derived'
                   PROVE  clint'.mtip[k] <=> clint'.mtime >= clint'.mtimecmp[k]
        BY DEF TimerFollowsClock
      <3>1. k \in derived /\ k \in Procs \ {h}
        BY <2>3 DEF Inv, TypeOK
      <3>2. clint.mtip[k] <=> clint.mtime >= clint.mtimecmp[k]
        BY <3>1, Zenon DEF Inv, TimerFollowsClock
      <3> QED
        BY <2>2, <3>1, <3>2, Zenon
    <2> QED
      BY <2>5, <2>6, <2>7 DEF Inv
  <1> QED
    BY <1>1, <1>2

(* The end of a chunk: within the turn, at the end of a turn, and at the   *)
(* end of the last turn of a round.                                        *)
LEMMA TurnStep ==
    ASSUME Inv, EndChunk
    PROVE  Inv'
  <1> DEFINE step == current_step + chunk
  <1>1. /\ at = "hart" /\ chunk \in 1 .. left /\ left \in 1 .. INTERLEAVE
        /\ current_proc \in Procs /\ current_step \in 0 .. INTERLEAVE - 1
        /\ step \in 1 .. INTERLEAVE /\ INTERLEAVE \in Nat \ {0} /\ nprocs \in Nat \ {0}
    BY SimAssumption, ProcsAssumption DEF EndChunk, Inv, TypeOK, Placed, ChunkInTurn
  <1>2. given[current_proc] = current_step
    BY <1>1 DEF Inv, RoundIsFair, Procs
  <1>3. /\ given \in [Procs -> 0 .. INTERLEAVE]
        /\ reservation \in [Procs -> Addresses \cup {NoReservation}]
        /\ clint \in Clints /\ derived \subseteq Procs
    BY DEF Inv, TypeOK
  <1>4. \A h \in Procs \ {current_proc} : reservation[h] = NoReservation
    BY DEF Inv, Placed, Holder
  <1>5. /\ left' = left - chunk /\ UNCHANGED <<bus, chunk, debug, ctrlc_pressed, by>>
        /\ broken' \subseteq broken
    BY DEF EndChunk
  <1>6. ReservationIsExclusive'
    BY <1>5 DEF Inv, ReservationIsExclusive
  <1>7. CASE step # INTERLEAVE
    <2>1. /\ current_step' = step /\ current_proc' = current_proc
          /\ reservation' = reservation /\ at' = "step"
          /\ clint' = clint /\ derived' = derived
          /\ given' = [given EXCEPT ![current_proc] = Smaller(@ + chunk, INTERLEAVE)]
      BY <1>7 DEF EndChunk, TurnEnds, Advance
    <2>2. given' = [given EXCEPT ![current_proc] = step]
      <3>1. Smaller(step, INTERLEAVE) = step
        BY <1>1 DEF Smaller
      <3>2. given' = [given EXCEPT ![current_proc] = Smaller(given[current_proc] + chunk, INTERLEAVE)]
        BY <2>1
      <3> QED
        BY <1>2, <3>1, <3>2
    <2>3. TypeOK'
      BY <1>1, <1>3, <1>5, <1>6, <1>7, <2>1, <2>2
         DEF Inv, TypeOK, ReservationIsExclusive, Places
    <2>4. Placed'
      BY <1>1, <1>5, <1>7, <2>1
         DEF Inv, Placed, ChunkInTurn, MainIsWhole, PromptIsApart, Holder
    <2>5. RoundIsFair'
      BY <1>1, <1>3, <2>1, <2>2 DEF Inv, RoundIsFair, Procs
    <2>6. TimerFollowsClock'
      BY <2>1, Zenon DEF Inv, TimerFollowsClock
    <2> QED
      BY <1>6, <2>3, <2>4, <2>5, <2>6 DEF Inv
  <1>8. CASE step = INTERLEAVE
    <2>1. /\ current_step' = 0 /\ current_proc' = (current_proc + 1) % nprocs
          /\ reservation' = Yielded(current_proc) /\ at' = "host"
      BY <1>8 DEF EndChunk, TurnEnds
    <2>2. /\ \A h \in Procs : reservation'[h] = NoReservation
          /\ reservation' \in [Procs -> Addresses \cup {NoReservation}]
      BY <1>3, <1>4, <2>1 DEF Yielded
    <2>3. Placed'
      BY <1>1, <1>5, <1>8, <2>1, <2>2
         DEF Inv, Placed, ChunkInTurn, MainIsWhole, PromptIsApart, Holder
    <2>4. CASE current_proc + 1 # nprocs
      <3>1. /\ clint' = clint /\ derived' = derived
            /\ given' = [given EXCEPT ![current_proc] = Smaller(@ + chunk, INTERLEAVE)]
        BY <1>8, <2>4 DEF EndChunk, TurnEnds, Advance
      <3>2. given' = [given EXCEPT ![current_proc] = INTERLEAVE]
        BY <1>1, <1>2, <1>8, <3>1 DEF Smaller
      <3>3. current_proc' = current_proc + 1 /\ current_proc' \in Procs
        <4>1. current_proc + 1 \in 0 .. nprocs - 1
          BY <1>1, <2>4 DEF Procs
        <4>2. (current_proc + 1) % nprocs = current_proc + 1
          BY <1>1, <4>1, SMT
        <4> QED
          BY <2>1, <4>1, <4>2 DEF Procs
      <3>4. TypeOK'
        BY <1>1, <1>3, <1>5, <1>6, <2>1, <2>2, <3>1, <3>2, <3>3
           DEF Inv, TypeOK, ReservationIsExclusive, Places
      <3>5. RoundIsFair'
        BY <1>1, <1>3, <2>1, <3>2, <3>3, SMTT(30) DEF Inv, RoundIsFair, Procs
      <3>6. TimerFollowsClock'
        BY <3>1, Zenon DEF Inv, TimerFollowsClock
      <3> QED
        BY <1>6, <2>3, <3>4, <3>5, <3>6 DEF Inv
    <2>5. CASE current_proc + 1 = nprocs
      <3>1. /\ clint' = increment(clint, INTERLEAVE \div INSNS_PER_RTC_TICK)
            /\ derived' = Procs /\ given' = [h \in Procs |-> 0]
        BY <1>8, <2>5 DEF EndChunk, TurnEnds, Advance
      <3>2. INTERLEAVE \div INSNS_PER_RTC_TICK \in Nat
        BY SimAssumption, SMT
      <3>3. clint' \in Clints /\ Derived(clint')
        BY <1>3, <3>1, <3>2, Increments
      <3>4. current_proc' = 0 /\ 0 \in Procs
        BY <1>1, <2>1, <2>5, SMT DEF Procs
      <3>5. TypeOK'
        BY <1>1, <1>3, <1>5, <1>6, <2>1, <2>2, <3>1, <3>3, <3>4
           DEF Inv, TypeOK, ReservationIsExclusive, Places
      <3>6. RoundIsFair'
        BY <1>1, <2>1, <3>1, <3>4 DEF RoundIsFair, Procs
      <3>7. TimerFollowsClock'
        BY <3>1, <3>3, Zenon DEF Derived, TimerFollowsClock
      <3> QED
        BY <1>6, <2>3, <3>5, <3>6, <3>7 DEF Inv
    <2> QED
      BY <2>4, <2>5
  <1> QED
    BY <1>7, <1>8

LEMMA Unchanged == Inv /\ UNCHANGED vars => Inv'
  <1> SUFFICES ASSUME Inv, UNCHANGED vars PROVE Inv'
    OBVIOUS
  <1>1. TypeOK' /\ Placed'
    BY DEF Inv, TypeOK, Placed, ChunkInTurn, MainIsWhole, PromptIsApart, Holder, vars
  <1>2. UNCHANGED <<target, current_proc, current_step, given>>
    BY DEF vars, target
  <1> QED
    BY <1>1, <1>2, ControlStep DEF Inv

LEMMA Steps_KeepInv == Inv /\ [Next]_vars => Inv'
  BY ThreadSteps, PromptSteps, AccessSteps, ReservationSteps, ResetSteps, TurnStep, Unchanged
     DEF Next, Thread, Access, Host, Debugger

THEOREM Invariance == Spec => []Inv
  <1> QED
    BY Initially, Steps_KeepInv, PTL DEF Spec

(* Every register, reservation and counter of the loop stays in its range, *)
(* and every device on the bus at an address (sim.cc:27-128).              *)
THEOREM TypeCorrect == Spec => []TypeOK
  BY Invariance, PTL DEF Inv

(* While a hart holds a load reservation nobody else stores to the word    *)
(* (sim.cc:117-125, mmu.h:183-204).                                        *)
THEOREM ReservationsAreExclusive == Spec => []ReservationIsExclusive
  BY Invariance, PTL DEF Inv

(* Between two advances of the clock every hart gets INTERLEAVE steps      *)
(* (sim.cc:108-128).                                                       *)
THEOREM RoundsAreFair == Spec => []RoundIsFair
  BY Invariance, PTL DEF Inv

(* MTIP follows clock and compare register, however they are stored        *)
(* (clint.cc:40-72).                                                       *)
THEOREM TimersFollowClock == Spec => []TimerFollowsClock
  BY Invariance, PTL DEF Inv

(* Every device that overlaps no other is found at all of its addresses    *)
(* (devices.cc:13-50).                                                     *)
THEOREM DevicesAreReachable == Spec => []DevicesReachable
  <1>1. TypeOK => DevicesReachable
    BY ApartIsFound DEF TypeOK, OnBus, DevicesReachable
  <1> QED
    BY <1>1, TypeCorrect, PTL
=============================================================================
