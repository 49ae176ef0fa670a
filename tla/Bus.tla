--------------------------------- MODULE Bus --------------------------------
(***************************************************************************)
(* bus_t and what sim_t puts on it: memories, the Debug Module, the CLINT  *)
(* and the boot ROM.  A device is found by the closest base address below  *)
(* or at the address, whatever its size.                                   *)
(*                                                                         *)
(* Addresses count words of 4 bytes; an access has 1 or 2 of them.         *)
(*                                                                         *)
(* An operator X_Fault next to X is X with the bug it names; no            *)
(* specification uses it.                                                  *)
(***************************************************************************)
EXTENDS Integers, FiniteSets, Sequences

CONSTANTS
    MaxAddress,             \* addresses are 0 .. MaxAddress, and wrap around
    PGSIZE, DEBUG_START, DEBUG_SIZE, DEFAULT_RSTVEC, ROM_SIZE, CLINT_BASE, CLINT_SIZE

ASSUME BusAssumption ==
    /\ {MaxAddress, DEBUG_START, DEFAULT_RSTVEC, CLINT_BASE} \subseteq Nat
    /\ {PGSIZE, DEBUG_SIZE, ROM_SIZE, CLINT_SIZE} \subseteq Nat \ {0}

Addresses == 0 .. MaxAddress

Memory(size) == [kind |-> "mem", size |-> size]
DebugDevice  == [kind |-> "debug", size |-> DEBUG_SIZE]
ClintDevice  == [kind |-> "clint", size |-> CLINT_SIZE]
Rom          == [kind |-> "rom", size |-> ROM_SIZE]
NoDevice     == [kind |-> "none", size |-> 0]

(* What -m accepts, the size at each base: regions of whole pages, none   *)
(* of them empty, which may overlap each other and the devices.  Of two    *)
(* with the same base the second replaces the first.                       *)
make_mems(mems) ==
    \A base \in DOMAIN mems :
        /\ base \in Addresses /\ base % PGSIZE = 0
        /\ mems[base] \in Nat \ {0} /\ mems[base] % PGSIZE = 0

(* A bus is a function from base addresses to devices.                     *)
add_device(devices, addr, dev) ==
    [a \in DOMAIN devices \cup {addr} |-> IF a = addr THEN dev ELSE devices[a]]

WithMemories(mems) == [base \in DOMAIN mems |-> Memory(mems[base])]

(* The constructor of sim_t.                                               *)
Populated(mems) ==
    add_device(add_device(WithMemories(mems), DEBUG_START, DebugDevice), CLINT_BASE, ClintDevice)

(* sim_t::reset and make_dtb: the boot ROM, unless --disable-dtb.          *)
reset(devices, dtb_enabled) ==
    IF dtb_enabled THEN add_device(devices, DEFAULT_RSTVEC, Rom) ELSE devices

(* The base addresses that are in the running; lower_bound in place of     *)
(* upper_bound leaves out the address itself.                              *)
Below_Strict(devices, addr) == {a \in DOMAIN devices : a < addr}

Below(devices, addr) == {a \in DOMAIN devices : a <= addr}

find_device(devices, addr) ==
    LET bases == Below(devices, addr)
    IN  IF bases = {} THEN [base |-> 0, device |-> NoDevice]
        ELSE LET b == CHOOSE b \in bases : \A a \in bases : a <= b
             IN  [base |-> b, device |-> devices[b]]

(* addr_to_mem: the address is inside a memory.                            *)
InMemory(devices, addr) ==
    LET found == find_device(devices, addr)
    IN  found.device.kind = "mem" /\ addr - found.base < found.device.size

(* The device and offset that mmio_load and mmio_store ask, when the       *)
(* access does not wrap around the address space.                          *)
Wraps(addr, len) == addr + len > MaxAddress
Asked(devices, addr, len) ==
    LET found == find_device(devices, addr)
    IN  IF Wraps(addr, len) THEN [offset |-> 0, kind |-> "none"]
        ELSE [offset |-> addr - found.base, kind |-> found.device.kind]

-----------------------------------------------------------------------------
(* The reference: devices have a range of addresses.                       *)

Ranges(devices) == [a \in DOMAIN devices |-> a .. a + devices[a].size - 1]
Apart(devices) == \A a, b \in DOMAIN devices : a # b => Ranges(devices)[a] \cap Ranges(devices)[b] = {}
=============================================================================
