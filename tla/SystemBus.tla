----------------------------- MODULE SystemBus -----------------------------
(***************************************************************************)
(* System bus access of the Debug Module: sbcs, sbaddress0/1, sbdata0/1    *)
(* and the memory behind sim->debug_mmu (sb_read, sb_write,                *)
(* sb_autoincrement and their DMI registers in debug_module.cc).           *)
(*                                                                         *)
(* Memory is a row of 32-bit cells; addresses count bytes.  The 8- and     *)
(* 16-bit sizes behave as the 32-bit one with a smaller step and are left  *)
(* out.  A 32-bit register of an address is scaled to 0 .. Limb-1.         *)
(***************************************************************************)
EXTENDS Integers, FiniteSets

CONSTANTS
    Limb,         \* what sbaddress0 counts up to (2^32), a multiple of 8
    MemBytes,     \* bytes of memory, from address 0
    CellValues,   \* the values of a 32-bit cell, 0 among them
    MaxBits,      \* --max-bus-width: max_bus_master_bits
    Addresses     \* the values written to sbaddress0

ASSUME LimbAssumption ==
    /\ Limb \in Nat \ {0} /\ Limb % 8 = 0
    /\ MemBytes \in Nat /\ MemBytes % 8 = 0 /\ MemBytes <= Limb * Limb
ASSUME ValuesAssumption ==
    /\ 0 \in CellValues
    /\ MaxBits \in {0, 8, 16, 32, 64}
    /\ Addresses \subseteq 0 .. Limb - 1

VARIABLES
    sbcs,        \* readonaddr, sbaccess, autoincrement, readondata
    sberror,     \* the set of the bits of sbcs.error
    sbaddress,   \* <<sbaddress0, sbaddress1>>
    sbdata,      \* <<sbdata0, sbdata1>>
    mem,         \* cell at each multiple of 4
    alive,       \* FALSE once an exception has left dmi_read or dmi_write
    stream       \* history: the address whose word sbdata0 owes a reader

sbregs == <<sbcs, sberror, sbaddress, sbdata>>
sbvars == <<sbregs, mem, alive, stream>>

Cells == {4 * i : i \in 0 .. (MemBytes \div 4) - 1}
SbAccess == {2, 3, 4}                  \* 32 bits, 64 bits, unsupported
SbcsSet == [readonaddr : BOOLEAN, sbaccess : SbAccess,
            autoincrement : BOOLEAN, readondata : BOOLEAN]

ERR_NONE    == {}
ERR_ADDRESS == {1}                     \* sbcs.error = 2
ERR_SIZE    == {0, 1}                  \* sbcs.error = 3
NoStream    == -1

(* sbaddress and sbdata are not initialised before the first write; the    *)
(* memory starts from a pattern in which neighbouring cells differ.  The   *)
(* 8-bit size after reset() is represented by the 32-bit one.              *)
SBInit ==
    /\ sbcs = [readonaddr |-> FALSE, sbaccess |-> 2,
               autoincrement |-> FALSE, readondata |-> FALSE]
    /\ sberror = ERR_NONE
    /\ sbaddress \in Addresses \X {0, 1}
    /\ sbdata \in CellValues \X CellValues
    /\ mem \in {[a \in Cells |-> IF a % 8 = 0 THEN v ELSE 0] : v \in CellValues}
    /\ alive = TRUE
    /\ stream = NoStream

-----------------------------------------------------------------------------
AccessBytes(c) == IF c.sbaccess = 2 THEN 4 ELSE IF c.sbaccess = 3 THEN 8 ELSE 16

Address(a) == a[2] * Limb + a[1]

Incremented(a) ==
    IF sbcs.autoincrement /\ MaxBits > 0
    THEN <<(a[1] + AccessBytes(sbcs)) % Limb, a[2]>>
    ELSE a

Supports(c) == \/ c.sbaccess = 2 /\ MaxBits >= 32
               \/ c.sbaccess = 3 /\ MaxBits >= 64

(* sb_read always loads 32 bits, sb_write stores the size it was asked for.*)
(* A misaligned access traps: the default build of mmu.h, which does not   *)
(* define RISCV_ENABLE_MISALIGNED.                                         *)
LoadBytes == 4
Aligned(a, size) == a % size = 0
InMemory(a, size) == a + size <= MemBytes

(* sb_read at the address a. *)
SbRead(a) ==
    CASE ~Supports(sbcs) ->
            sberror' = ERR_SIZE /\ alive' = alive /\ sbdata' = sbdata
      [] Supports(sbcs) /\ ~Aligned(Address(a), LoadBytes) ->
            alive' = FALSE /\ UNCHANGED <<sberror, sbdata>>
      [] Supports(sbcs) /\ Aligned(Address(a), LoadBytes)
         /\ ~InMemory(Address(a), LoadBytes) ->
            sberror' = ERR_ADDRESS /\ alive' = alive /\ sbdata' = sbdata
      [] OTHER ->
            /\ sbdata' = <<mem[Address(a)],
                           IF sbcs.sbaccess = 3 THEN 0 ELSE sbdata[2]>>
            /\ UNCHANGED <<sberror, alive>>

(* Nothing is accessed while an error is pending. *)
NoPendingError_Dropped == TRUE

NoPendingError == sberror = ERR_NONE

NoAccess == UNCHANGED <<sberror, alive, sbdata>>

DmiWriteSbcs(c, bits) ==
    /\ sbcs' = c
    /\ sberror' = sberror \ bits
    /\ stream' = NoStream
    /\ UNCHANGED <<sbaddress, sbdata, mem, alive>>

(* The debugger sets up a stream of reads when every word read from        *)
(* sbdata0 is to be replaced by the next one.                              *)
Streams(c) == c.readonaddr /\ c.readondata /\ c.autoincrement /\ c.sbaccess = 2

DmiWriteSbaddress0(v) ==
    LET a == <<v, sbaddress[2]>>
    IN  /\ sbaddress' = a
        /\ IF NoPendingError /\ sbcs.readonaddr THEN SbRead(a) ELSE NoAccess
        /\ stream' = IF Streams(sbcs) /\ Supports(sbcs) /\ sberror = ERR_NONE
                        /\ Aligned(Address(a), 4) /\ InMemory(Address(a), 4)
                     THEN Address(a) ELSE NoStream
        /\ UNCHANGED <<sbcs, mem>>

DmiWriteSbaddress1(v) ==
    /\ sbaddress' = <<sbaddress[1], v>>
    /\ stream' = NoStream
    /\ UNCHANGED <<sbcs, sberror, sbdata, mem, alive>>

(* The value returned is sbdata0; then the address moves on and the next   *)
(* word is read.                                                           *)
DmiReadSbdata0_ReadsFirst ==
    /\ IF NoPendingError
       THEN /\ IF sbcs.readondata THEN SbRead(sbaddress) ELSE NoAccess
            /\ sbaddress' = Incremented(sbaddress)
       ELSE UNCHANGED sbaddress /\ NoAccess
    /\ stream' = IF stream # NoStream /\ stream + 4 \in Cells
                    /\ (stream + 4) % Limb # 0
                 THEN stream + 4 ELSE NoStream
    /\ UNCHANGED <<sbcs, mem>>

DmiReadSbdata0 ==
    /\ IF NoPendingError
       THEN /\ sbaddress' = Incremented(sbaddress)
            /\ IF sbcs.readondata THEN SbRead(Incremented(sbaddress)) ELSE NoAccess
       ELSE UNCHANGED sbaddress /\ NoAccess
    /\ stream' = IF stream # NoStream /\ stream + 4 \in Cells
                    /\ (stream + 4) % Limb # 0
                 THEN stream + 4 ELSE NoStream
    /\ UNCHANGED <<sbcs, mem>>

(* sb_write: no exception of the access is caught.                         *)
SbWrite(d) ==
    CASE ~Supports(sbcs) ->
            sberror' = ERR_SIZE /\ alive' = alive /\ mem' = mem
      [] Supports(sbcs) /\ ~(/\ Aligned(Address(sbaddress), AccessBytes(sbcs))
                             /\ InMemory(Address(sbaddress), AccessBytes(sbcs))) ->
            alive' = FALSE /\ UNCHANGED <<sberror, mem>>
      [] OTHER ->
            /\ mem' = [x \in Cells |->
                    IF x = Address(sbaddress) THEN d
                    ELSE IF sbcs.sbaccess = 3 /\ x = Address(sbaddress) + 4
                         THEN sbdata[2] ELSE mem[x]]
            /\ UNCHANGED <<sberror, alive>>

DmiWriteSbdata0(d) ==
    /\ sbdata' = <<d, sbdata[2]>>
    /\ IF NoPendingError
       THEN SbWrite(d) ELSE UNCHANGED <<sberror, alive, mem>>
    /\ sbaddress' = IF NoPendingError /\ sberror' = ERR_NONE /\ alive'
                    THEN Incremented(sbaddress) ELSE sbaddress
    /\ stream' = NoStream
    /\ UNCHANGED sbcs

DmiWriteSbdata1(d) ==
    /\ sbdata' = <<sbdata[1], d>>
    /\ stream' = NoStream
    /\ UNCHANGED <<sbcs, sberror, sbaddress, mem, alive>>

SBNext ==
    /\ alive
    /\ \/ \E c \in SbcsSet, bits \in {{}, {0, 1, 2}} : DmiWriteSbcs(c, bits)
       \/ \E v \in Addresses : DmiWriteSbaddress0(v)
       \/ \E v \in {0, 1} : DmiWriteSbaddress1(v)
       \/ DmiReadSbdata0
       \/ \E d \in CellValues : DmiWriteSbdata0(d) \/ DmiWriteSbdata1(d)

SBSpec == SBInit /\ [][SBNext]_sbvars

-----------------------------------------------------------------------------
(* A block read delivers the block: after the write of sbaddress0 that     *)
(* starts it, the n-th read of sbdata0 returns the n-th word of memory,    *)
(* whatever order increment, read and return happen in.                    *)
StreamDeliversMemory == stream # NoStream => sbdata[1] = mem[stream]

(* Memory changes only by an access the bus reports as good: none while an *)
(* error is pending, none that raises one, none that does not support the  *)
(* size, and only at the words it was asked for.                           *)
OnlyGoodWritesReachMemory ==
    [][mem' # mem =>
        /\ sberror = ERR_NONE /\ sberror' = ERR_NONE
        /\ alive'
        /\ \A a \in Cells : mem'[a] # mem[a] =>
              Address(sbaddress) <= a
              /\ a < Address(sbaddress) + AccessBytes(sbcs)]_sbvars
=============================================================================
