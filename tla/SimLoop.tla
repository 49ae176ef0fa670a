------------------------------- MODULE SimLoop ------------------------------
(***************************************************************************)
(* sim_t: the main loop, which runs the harts in turns of INTERLEAVE       *)
(* steps, keeps the clock, hands control to the host between the turns and *)
(* serves the debugger between rounds of the loop; the interactive prompt, *)
(* which steps the harts itself; and what harts, host and debugger do to   *)
(* memory, load reservations and the CLINT meanwhile.                      *)
(*                                                                         *)
(* Memory has no contents here.  A turn of a hart is any sequence of       *)
(* accesses; EndChunk is the return of processor_t::step, which counts     *)
(* every step asked for whatever the hart did.  done() of htif_t becomes   *)
(* true when the host leaves its loop, and it does not resume the target   *)
(* after that, so the target never sees it true.                           *)
(*                                                                         *)
(* An operator X_Fault next to X is X with the bug it names; no            *)
(* specification uses it.                                                  *)
(***************************************************************************)
EXTENDS Bus, Clint

CONSTANTS
    INTERLEAVE, INSNS_PER_RTC_TICK,
    Layouts,        \* the memories of -m
    Stores,         \* the sequences of words that are stored
    Accessed        \* the addresses they are stored to (a bound)

ASSUME SimAssumption ==
    /\ {INTERLEAVE, INSNS_PER_RTC_TICK} \subseteq Nat \ {0}
    /\ \A mems \in Layouts : make_mems(mems)
    /\ Stores \subseteq Seq(Words) /\ Accessed \subseteq Addresses

NoReservation == -1

VARIABLES
    bus,
    clint,
    reservation,    \* load_reservation_address of each hart
    current_proc, current_step,
    debug,          \* -d, never changes
    ctrlc_pressed,
    at,             \* where the target thread is
    by,             \* the loop that called step(): "main", "prompt", "run",
                    \* "until", or "unreadable", an until that cannot be evaluated
    left, chunk,    \* n - i and steps of sim_t::step
    broken,         \* history: harts whose reserved word another agent stored to
    derived,        \* history: harts not reset since MTIP was last set
    given           \* history: steps of each hart since the clock last advanced

scheduler == <<current_proc, current_step, left, chunk, given>>
target == <<bus, clint, reservation, broken, derived>>
vars == <<bus, clint, reservation, current_proc, current_step, debug, ctrlc_pressed,
          at, by, left, chunk, broken, derived, given>>

Loops == {"main", "prompt", "run", "until", "unreadable"}
Places == {"start", "main", "prompt", "again", "step", "hart", "host", "tick", "exited"}

TypeOK ==
    /\ DOMAIN bus \subseteq Nat
    /\ \A base \in DOMAIN bus : bus[base].size \in Nat \ {0}
    /\ clint \in Clints
    /\ reservation \in [Procs -> Addresses \cup {NoReservation}]
    /\ current_proc \in Procs /\ current_step \in 0 .. INTERLEAVE - 1
    /\ debug \in BOOLEAN /\ ctrlc_pressed \in BOOLEAN
    /\ at \in Places /\ by \in Loops
    /\ left \in 0 .. INTERLEAVE /\ chunk \in 0 .. INTERLEAVE
    /\ broken \subseteq Procs /\ derived \subseteq Procs
    /\ given \in [Procs -> 0 .. INTERLEAVE]

Init ==
    /\ \E mems \in Layouts : bus = Populated(mems)
    /\ clint \in clint_t
    /\ reservation = [h \in Procs |-> NoReservation]
    /\ current_proc = 0 /\ current_step = 0
    /\ debug \in BOOLEAN /\ ctrlc_pressed = FALSE
    /\ at = "start" /\ by = "main"
    /\ left = 0 /\ chunk = 0
    /\ broken = {} /\ derived = {}
    /\ given = [h \in Procs |-> 0]

-----------------------------------------------------------------------------
(* Memory and the CLINT, reached by the harts, the host and the debugger.  *)

(* A store of len words at addr by one of the agents, -1 the host or the   *)
(* debugger; the harts' reservations stand.                                *)
Outsider == -1
Breaks(agent, addr, len) ==
    {h \in Procs \ {agent} : reservation[h] \in addr .. addr + len - 1}

(* store_slow_path; what the debug module stores is not modelled here.     *)
Store(agent, addr, words) ==
    LET len   == Len(words)
        asked == Asked(bus, addr, len)
    IN  /\ broken' = IF InMemory(bus, addr) THEN broken \cup Breaks(agent, addr, len)
                     ELSE broken
        /\ LET hit == ~InMemory(bus, addr) /\ asked.kind = "clint"
           IN  /\ clint' = IF hit THEN store(clint, asked.offset, words) ELSE clint
               /\ derived' = IF hit /\ load(asked.offset, len) THEN Procs ELSE derived

Accessible(addr, words) == addr % Len(words) = 0 /\ addr + Len(words) - 1 <= MaxAddress

HartStore ==
    /\ at = "hart"
    /\ \E addr \in Accessed, words \in Stores :
          Accessible(addr, words) /\ Store(current_proc, addr, words)
    /\ UNCHANGED <<bus, reservation, scheduler, debug, ctrlc_pressed, at, by>>

(* acquire_load_reservation: only of memory.                               *)
LoadReserved ==
    /\ at = "hart"
    /\ \E addr \in Accessed :
          /\ InMemory(bus, addr)
          /\ reservation' = [reservation EXCEPT ![current_proc] = addr]
          /\ broken' = broken \ {current_proc}
    /\ UNCHANGED <<bus, clint, derived, scheduler, debug, ctrlc_pressed, at, by>>

(* A store if check_load_reservation succeeds; the instruction, in insns/, *)
(* may give the reservation up.                                            *)
StoreConditional ==
    /\ at = "hart"
    /\ \E addr \in Accessed, keep \in BOOLEAN :
          /\ InMemory(bus, addr)
          /\ broken' = (IF reservation[current_proc] = addr
                        THEN broken \cup Breaks(current_proc, addr, 1) ELSE broken)
                       \ (IF keep THEN {} ELSE {current_proc})
          /\ reservation' = IF keep THEN reservation
                            ELSE [reservation EXCEPT ![current_proc] = NoReservation]
    /\ UNCHANGED <<bus, clint, derived, scheduler, debug, ctrlc_pressed, at, by>>

(* processor_t::reset clears mip, and leaves the reservation.              *)
HartReset(h) ==
    /\ clint' = [clint EXCEPT !.msip[h] = FALSE, !.mtip[h] = FALSE]
    /\ derived' = derived \ {h}
    /\ UNCHANGED <<bus, reservation, broken>>

-----------------------------------------------------------------------------
(* step(n): n steps of the current hart, in chunks that end where its turn *)
(* does.                                                                   *)

Smaller(a, b) == IF a < b THEN a ELSE b

Call(loop, n) == by' = loop /\ left' = n /\ at' = "step"

Steps == Smaller(left, INTERLEAVE - current_step)

BeginChunk ==
    /\ at = "step" /\ left > 0
    /\ chunk' = Steps
    /\ at' = "hart"
    /\ UNCHANGED <<target, current_proc, current_step, left, given, debug, ctrlc_pressed, by>>

(* The turn is handed over before the reservation is given up.             *)
Yielded_Next(h) ==
    [reservation EXCEPT ![(h + 1) % nprocs] = NoReservation]

Yielded(h) == [reservation EXCEPT ![h] = NoReservation]

Advance(last) == IF last THEN increment(clint, INTERLEAVE \div INSNS_PER_RTC_TICK) ELSE clint

(* The turn ends when the hart has done the steps it was called with.      *)
TurnEnds_Call(step) == left = chunk

TurnEnds_Past(step) == step > INTERLEAVE

TurnEnds(step) == step = INTERLEAVE

EndChunk ==
    LET step == current_step + chunk
        over == TurnEnds(step)
        last == over /\ current_proc + 1 = nprocs
    IN  /\ at = "hart"
        /\ left' = left - chunk
        /\ current_step' = IF over THEN 0 ELSE step
        /\ current_proc' = IF over THEN (current_proc + 1) % nprocs ELSE current_proc
        /\ reservation' = IF over THEN Yielded(current_proc) ELSE reservation
        /\ broken' = IF over THEN broken \ {current_proc} ELSE broken
        /\ clint' = Advance(last)
        /\ derived' = IF last THEN Procs ELSE derived
        /\ given' = IF last THEN [h \in Procs |-> 0]
                    ELSE [given EXCEPT ![current_proc] = Smaller(@ + chunk, INTERLEAVE)]
        /\ at' = IF over THEN "host" ELSE "step"
        /\ UNCHANGED <<bus, chunk, debug, ctrlc_pressed, by>>

EndCall ==
    /\ at = "step" /\ left = 0
    /\ at' = CASE by = "main" -> "tick" [] by = "prompt" -> "prompt" [] OTHER -> "again"
    /\ UNCHANGED <<target, scheduler, debug, ctrlc_pressed, by>>

-----------------------------------------------------------------------------
(* htif_t, the front-end server.                                           *)

HtifReset ==
    /\ at = "start"
    /\ \E dtb_enabled \in BOOLEAN : bus' = reset(bus, dtb_enabled)
    /\ at' = "main"
    /\ UNCHANGED <<clint, reservation, broken, derived, scheduler, debug, ctrlc_pressed, by>>

HostStore ==
    /\ at = "host"
    /\ \E addr \in Accessed, words \in Stores :
          Accessible(addr, words) /\ Store(Outsider, addr, words)
    /\ UNCHANGED <<bus, reservation, scheduler, debug, ctrlc_pressed, at, by>>

idle ==
    /\ at = "host"
    /\ at' = "step"
    /\ UNCHANGED <<target, scheduler, debug, ctrlc_pressed, by>>

HostExits ==
    /\ at = "host"
    /\ at' = "exited"
    /\ UNCHANGED <<target, scheduler, debug, ctrlc_pressed, by>>

-----------------------------------------------------------------------------
(* The main loop and the debugger, served by remote_bitbang_t::tick.       *)

MainLoop ==
    /\ at = "main"
    /\ IF debug \/ ctrlc_pressed
       THEN at' = "prompt" /\ UNCHANGED <<by, left>>
       ELSE Call("main", INTERLEAVE)
    /\ UNCHANGED <<target, current_proc, current_step, chunk, given, debug, ctrlc_pressed>>

DebuggerStore ==
    /\ at = "tick"
    /\ \E addr \in Accessed, words \in Stores :
          Accessible(addr, words) /\ Store(Outsider, addr, words)
    /\ UNCHANGED <<bus, reservation, scheduler, debug, ctrlc_pressed, at, by>>

DebuggerResets ==
    /\ at = "tick"
    /\ \E h \in Procs : HartReset(h)
    /\ UNCHANGED <<scheduler, debug, ctrlc_pressed, at, by>>

EndTick ==
    /\ at = "tick"
    /\ at' = "main"
    /\ UNCHANGED <<target, scheduler, debug, ctrlc_pressed, by>>

-----------------------------------------------------------------------------
(* interactive(): it returns only when done(), so the debugger is not      *)
(* served again once the prompt was reached.                               *)

interactive ==
    /\ at = "prompt"
    /\ Call("prompt", 1)
    /\ UNCHANGED <<target, current_proc, current_step, chunk, given, debug, ctrlc_pressed>>

(* run, rs, until and while.                                               *)
interactive_run(loop) ==
    /\ at = "prompt"
    /\ ctrlc_pressed' = FALSE
    /\ by' = loop /\ at' = "again"
    /\ UNCHANGED <<target, scheduler, debug>>

interactive_quit ==
    /\ at = "prompt"
    /\ at' = "exited"
    /\ UNCHANGED <<target, scheduler, debug, ctrlc_pressed, by>>

Continues(loop) == loop = "unreadable" \/ ~ctrlc_pressed
Stops(loop) == loop # "unreadable"

Again ==
    /\ at = "again" /\ Continues(by)
    /\ Call(by, 1)
    /\ UNCHANGED <<target, current_proc, current_step, chunk, given, debug, ctrlc_pressed>>

Stop ==
    /\ at = "again" /\ Stops(by)
    /\ at' = "prompt"
    /\ UNCHANGED <<target, scheduler, debug, ctrlc_pressed, by>>

handle_signal ==
    /\ at # "exited"
    /\ IF ctrlc_pressed THEN at' = "exited" /\ UNCHANGED ctrlc_pressed
       ELSE ctrlc_pressed' = TRUE /\ UNCHANGED at
    /\ UNCHANGED <<target, scheduler, debug, by>>

-----------------------------------------------------------------------------
Prompt == interactive \/ (\E loop \in Loops \ {"main", "prompt"} : interactive_run(loop))
          \/ interactive_quit

Thread ==
    \/ HtifReset \/ MainLoop \/ BeginChunk \/ EndChunk \/ EndCall
    \/ Again \/ Stop

Access == HartStore \/ LoadReserved \/ StoreConditional

Host == idle \/ HostExits

Debugger == DebuggerStore \/ DebuggerResets

Next == Thread \/ Access \/ HostStore \/ Host \/ Debugger \/ EndTick \/ Prompt \/ handle_signal

Spec == Init /\ [][Next]_vars

(* The target thread takes its steps, the host resumes it, and a tick is   *)
(* bounded (see RemoteBitbang); nobody has to type a command, press a key  *)
(* or end the program.  That a chunk ends rests on the return of           *)
(* processor_t::step, which HartStep shows but for one case: an exception  *)
(* trigger on a trap handler.                                              *)
FairSpec == Spec /\ WF_vars(Thread) /\ WF_vars(Host) /\ WF_vars(EndTick)

-----------------------------------------------------------------------------
(* While a hart has a load reservation no other hart, and neither host nor *)
(* debugger, has stored to the word: although a store invalidates no       *)
(* reservation, every one is given up before anybody else gets a turn      *)
(* (sim.cc:117-125, mmu.h:183-204).                                        *)
ReservationIsExclusive == broken = {}

(* The harts get the same number of steps between two advances of the      *)
(* clock, however main loop and prompt divide them into calls: the harts   *)
(* before the current one INTERLEAVE, the current one what current_step    *)
(* says, the others none yet (sim.cc:108-128).                             *)
RoundIsFair ==
    \A h \in Procs : given[h] = CASE h < current_proc -> INTERLEAVE
                                  [] h = current_proc -> current_step
                                  [] h > current_proc -> 0

(* MTIP of a hart is set exactly when the clock has reached its compare    *)
(* register, whichever words of either were stored last, except between a  *)
(* reset of the hart, or the start, and the next time MTIP is derived      *)
(* (clint.cc:40-72, processor.cc:167-179).                                 *)
TimerFollowsClock ==
    \A h \in derived : clint.mtip[h] <=> clint.mtime >= clint.mtimecmp[h]

(* If the devices on the bus are apart, each of them is found at every     *)
(* address of its own, first and last included (devices.cc:13-50).         *)
DevicesReachable ==
    Apart(bus) => \A base \in DOMAIN bus : \A addr \in Ranges(bus)[base] \cap Addresses :
                      find_device(bus, addr) = [base |-> base, device |-> bus[base]]

(* Every hart gets its turn again and again until the program has exited,  *)
(* unless someone leaves it at the prompt, or a hart never returns from    *)
(* processor_t::step (see HartStep; sim.cc:84-128).                        *)
HartsTakeTurns ==
    \A h \in Procs : []<>(current_proc = h \/ at \in {"prompt", "exited"})

=============================================================================
