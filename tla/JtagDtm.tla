------------------------------ MODULE JtagDtm -------------------------------
(***************************************************************************)
(* jtag_dtm_t: the JTAG test access port and the debug transport registers *)
(* behind it.  tap is the object, dm the registers of the Debug Module     *)
(* that an update of DBUS reads or writes.                                 *)
(*                                                                         *)
(* The widths of the registers are constants; the code has IrLength = 5,   *)
(* AddrBits = 6 (abits), DataBits = 32, IdLength = 32.  Shift registers    *)
(* are numbers, as in the code, so shifting is division and addition.      *)
(*                                                                         *)
(* An operator X_Fault next to X is X with the bug it names; no            *)
(* specification uses it.                                                  *)
(***************************************************************************)
EXTENDS Integers, Sequences

CONSTANTS
    IrLength, AddrBits, DataBits, IdLength,
    IR_IDCODE, IR_DTMCONTROL, IR_DBUS,    \* instructions
    idcode, dtmcontrol,                   \* what their registers hold
    Failing                               \* DMI addresses without a register

OpBits == 2
BusLength == AddrBits + DataBits + OpBits
Addresses == 0 .. 2 ^ AddrBits - 1
Data      == 0 .. 2 ^ DataBits - 1

ASSUME WidthAssumption ==
    /\ IrLength \in Nat \ {0} /\ AddrBits \in Nat /\ DataBits \in Nat \ {0}
    /\ IdLength \in Nat \ {0}
ASSUME RegisterAssumption ==
    /\ {IR_IDCODE, IR_DBUS} \subseteq 0 .. 2 ^ IrLength - 1
    /\ IR_IDCODE # IR_DTMCONTROL /\ IR_DBUS \notin {IR_IDCODE, IR_DTMCONTROL}
    /\ {idcode, dtmcontrol} \subseteq 0 .. 2 ^ IdLength - 1
    /\ Failing \subseteq Addresses

OP_READ  == 1
OP_WRITE == 2
STATUS_SUCCESS == 0
STATUS_FAILED  == 2

-----------------------------------------------------------------------------
(* The automaton: next[state] is what tms = 0 and tms = 1 lead to.         *)

DrStates == {"CAPTURE_DR", "SHIFT_DR", "EXIT1_DR", "PAUSE_DR", "EXIT2_DR", "UPDATE_DR"}

next ==
    [TEST_LOGIC_RESET |-> <<"RUN_TEST_IDLE", "TEST_LOGIC_RESET">>,
     RUN_TEST_IDLE    |-> <<"RUN_TEST_IDLE", "SELECT_DR_SCAN">>,
     SELECT_DR_SCAN   |-> <<"CAPTURE_DR", "SELECT_IR_SCAN">>,
     CAPTURE_DR       |-> <<"SHIFT_DR", "EXIT1_DR">>,
     SHIFT_DR         |-> <<"SHIFT_DR", "EXIT1_DR">>,
     EXIT1_DR         |-> <<"PAUSE_DR", "UPDATE_DR">>,
     PAUSE_DR         |-> <<"PAUSE_DR", "EXIT2_DR">>,
     EXIT2_DR         |-> <<"SHIFT_DR", "UPDATE_DR">>,
     UPDATE_DR        |-> <<"RUN_TEST_IDLE", "SELECT_DR_SCAN">>,
     SELECT_IR_SCAN   |-> <<"CAPTURE_IR", "TEST_LOGIC_RESET">>,
     CAPTURE_IR       |-> <<"SHIFT_IR", "EXIT1_IR">>,
     SHIFT_IR         |-> <<"SHIFT_IR", "EXIT1_IR">>,
     EXIT1_IR         |-> <<"PAUSE_IR", "UPDATE_IR">>,
     PAUSE_IR         |-> <<"PAUSE_IR", "EXIT2_IR">>,
     EXIT2_IR         |-> <<"SHIFT_IR", "UPDATE_IR">>,
     UPDATE_IR        |-> <<"RUN_TEST_IDLE", "SELECT_DR_SCAN">>]

ShiftIn(reg, bit, length) == reg \div 2 + bit * 2 ^ (length - 1)

(* The register is not shifted by the edge that leaves SHIFT.              *)
Shifted_NotLast(t) ==
    CASE t.state = "SHIFT_DR" /\ t.tms = 0 -> [t EXCEPT !.dr = ShiftIn(@, t.tdi, t.dr_length)]
      [] t.state = "SHIFT_IR" /\ t.tms = 0 -> [t EXCEPT !.ir = ShiftIn(@, t.tdi, IrLength)]
      [] OTHER -> t

(* Before the edge: the shift of the state that is left, with the tdi of   *)
(* the previous call.                                                      *)
Shifted(t) ==
    CASE t.state = "SHIFT_DR" -> [t EXCEPT !.dr = ShiftIn(@, t.tdi, t.dr_length)]
      [] t.state = "SHIFT_IR" -> [t EXCEPT !.ir = ShiftIn(@, t.tdi, IrLength)]
      [] OTHER -> t

capture_dr(t) ==
    CASE t.ir = IR_IDCODE     -> [t EXCEPT !.dr = idcode, !.dr_length = IdLength]
      [] t.ir = IR_DTMCONTROL -> [t EXCEPT !.dr = dtmcontrol, !.dr_length = IdLength]
      [] t.ir = IR_DBUS       -> [t EXCEPT !.dr = t.dmi, !.dr_length = BusLength]
      [] OTHER -> t

Op(word)   == word % 4
Datum(word)   == (word \div 4) % 2 ^ DataBits
Address(word) == (word \div (4 * 2 ^ DataBits)) % 2 ^ AddrBits
BusWord(address, datum, op) == (address * 2 ^ DataBits + datum) * 4 + op

(* The registers of the Debug Module after an access, and the reply.       *)
Accessed(d, word) ==
    IF Op(word) = OP_WRITE /\ Address(word) \notin Failing
    THEN [d EXCEPT ![Address(word)] = Datum(word)] ELSE d

Reply(d, word) ==
    LET a == Address(word)
        refused == Op(word) \in {OP_READ, OP_WRITE} /\ a \in Failing
        datum == IF Op(word) = OP_READ /\ ~refused THEN d[a] ELSE Datum(word)
    IN  BusWord(a, datum, IF refused THEN STATUS_FAILED ELSE STATUS_SUCCESS)

(* The update looks at the length of the register, not at the instruction. *)
Updates_AnyIr(t) == t.state = "UPDATE_DR" /\ t.dr_length = BusLength

Updates(t) == t.state = "UPDATE_DR" /\ t.ir = IR_DBUS

(* After the edge: what entering the state does.                           *)
Entered(t, d) ==
    CASE t.state = "TEST_LOGIC_RESET" -> [t EXCEPT !.ir = IR_IDCODE]
      [] t.state = "CAPTURE_DR"       -> capture_dr(t)
      [] t.state = "SHIFT_DR"         -> [t EXCEPT !.tdo = t.dr % 2]
      [] Updates(t)                   -> [t EXCEPT !.dmi = Reply(d, t.dr)]
      [] t.state = "SHIFT_IR"         -> [t EXCEPT !.tdo = t.ir % 2]
      [] OTHER -> t

PositiveEdge(t, tck) == t.tck = 0 /\ tck = 1

Clocked(t) == [Shifted(t) EXCEPT !.state = next[t.state][t.tms + 1]]

(* set_pins: the edge uses the tms and tdi of the previous call.           *)
SetPins(t, d, tck, tms, tdi) ==
    LET u == IF PositiveEdge(t, tck) THEN Entered(Clocked(t), d) ELSE t
    IN  [u EXCEPT !.tck = tck, !.tms = tms, !.tdi = tdi]

SetPinsDm(t, d, tck) ==
    IF PositiveEdge(t, tck) /\ Updates(Clocked(t)) THEN Accessed(d, Clocked(t).dr) ELSE d

ResetTap(t) == [t EXCEPT !.state = "TEST_LOGIC_RESET"]

-----------------------------------------------------------------------------
(* The state, with a history of the current data scan: the instruction it  *)
(* is for and the bits that are on their way through the register          *)
(* (captured, then shifted in).                                            *)

VARIABLES tap, dm, scan
tapvars == <<tap, dm, scan>>

Bits(value, length) == [k \in 1 .. length |-> (value \div 2 ^ (k - 1)) % 2]

(* Neither ir nor dr and dr_length are initialised by the constructor.     *)
TapInit ==
    /\ \E i \in 0 .. 2 ^ IrLength - 1, len \in {1, IdLength, BusLength} :
          /\ tap = [tck |-> 0, tms |-> 0, tdi |-> 0, tdo |-> 0, ir |-> i,
                    dr |-> 0, dr_length |-> len, dmi |-> STATUS_SUCCESS,
                    state |-> "TEST_LOGIC_RESET"]
          /\ scan = [ir |-> i, stream |-> Bits(0, len)]
    /\ dm = [a \in Addresses |-> 0]

ScanAfter(t, u) ==
    IF u.state = "CAPTURE_DR"
    THEN [ir |-> u.ir, stream |-> Bits(u.dr, u.dr_length)]
    ELSE IF t.state = "SHIFT_DR"
         THEN [scan EXCEPT !.stream = Append(Tail(@), t.tdi)] ELSE scan

TapPins(tck, tms, tdi) ==
    LET u == SetPins(tap, dm, tck, tms, tdi)
        edge == PositiveEdge(tap, tck)
    IN  /\ tap' = u
        /\ dm' = SetPinsDm(tap, dm, tck)
        /\ scan' = IF edge THEN ScanAfter(tap, u) ELSE scan

TapReset ==
    /\ tap' = ResetTap(tap)
    /\ UNCHANGED <<dm, scan>>

(* The bytes of the remote bitbang protocol as calls on the port; B stands *)
(* for every byte that does nothing to it, R and Q among them.             *)
Pins ==
    [c \in {"0", "1", "2", "3", "4", "5", "6", "7"} |->
        CASE c = "0" -> <<0, 0, 0>> [] c = "1" -> <<0, 0, 1>>
          [] c = "2" -> <<0, 1, 0>> [] c = "3" -> <<0, 1, 1>>
          [] c = "4" -> <<1, 0, 0>> [] c = "5" -> <<1, 0, 1>>
          [] c = "6" -> <<1, 1, 0>> [] c = "7" -> <<1, 1, 1>>]

Applied(c) ==
    CASE c \in DOMAIN Pins -> TapPins(Pins[c][1], Pins[c][2], Pins[c][3])
      [] c = "r" -> TapReset
      [] OTHER -> UNCHANGED tapvars

-----------------------------------------------------------------------------
(* Properties.                                                             *)

(* In a data scan, however often it is paused, however many bits are       *)
(* shifted and whatever was scanned before: the data register holds the    *)
(* stream, tdo is the bit of it that leaves next, and the instruction is   *)
(* still the one the register was captured for (jtag_dtm.cc:72-105).       *)
ScanKeepsStream ==
    tap.state \in DrStates =>
        /\ tap.ir = scan.ir
        /\ Bits(tap.dr, tap.dr_length) = scan.stream
        /\ tap.state = "SHIFT_DR" => tap.tdo = Head(scan.stream)

(* The bits of the stream from the first up to the last, as a number.      *)
Field(first, last) ==
    LET f[k \in first - 1 .. last] ==
            IF k = first - 1 THEN 0 ELSE f[k - 1] + scan.stream[k] * 2 ^ (k - first)
    IN  f[last]

(* The Debug Module is written only when a scan of DBUS is updated, once,  *)
(* and with the address and data that were shifted in last: short, long    *)
(* and paused scans included (jtag_dtm.cc:143-183).                        *)
WritesAreScanned ==
    [][dm' # dm =>
        /\ scan.ir = IR_DBUS
        /\ tap.state \in {"EXIT1_DR", "EXIT2_DR"}
        /\ Field(1, OpBits) = OP_WRITE
        /\ dm' = [dm EXCEPT ![Field(OpBits + DataBits + 1, BusLength)] =
                                 Field(OpBits + 1, OpBits + DataBits)]]_tapvars
=============================================================================
