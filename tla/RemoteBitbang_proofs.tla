------------------------ MODULE RemoteBitbang_proofs ------------------------
(***************************************************************************)
(* The test access port keeps its scans and the server keeps the stream    *)
(* of its client, for every width of the registers, every client and every *)
(* size of the buffer.                                                     *)
(***************************************************************************)
EXTENDS RemoteBitbang, NumberTheorems, SequenceTheorems

-----------------------------------------------------------------------------
(* The bits of a number.                                                   *)

LEMMA BitsType ==
    ASSUME NEW v \in Nat, NEW len \in Nat
    PROVE  /\ Bits(v, len) \in Seq({0, 1}) /\ Len(Bits(v, len)) = len
           /\ \A k \in 1 .. len : Bits(v, len)[k] = (v \div 2 ^ (k - 1)) % 2
<1>1. ASSUME NEW k \in 1 .. len
      PROVE  (v \div 2 ^ (k - 1)) % 2 \in {0, 1}
  <2>1. k - 1 \in Nat
      OBVIOUS
  <2>2. 2 ^ (k - 1) \in Nat \ {0}
      BY <2>1, PowerDouble
  <2>3. v \div 2 ^ (k - 1) \in Nat
      BY <2>2, Divided
  <2>. QED BY <2>3
<1>2. Bits(v, len) \in [1 .. len -> {0, 1}]
    BY <1>1 DEF Bits
<1>3. Bits(v, len) \in Seq({0, 1}) /\ Len(Bits(v, len)) = len
    BY <1>2
<1>. QED BY <1>3 DEF Bits

(* One bit in, one bit out. *)
LEMMA BitsShift ==
    ASSUME NEW v \in Nat, NEW len \in Nat \ {0}, v < 2 ^ len, NEW bit \in {0, 1}
    PROVE  /\ ShiftIn(v, bit, len) \in Nat /\ ShiftIn(v, bit, len) < 2 ^ len
           /\ Bits(ShiftIn(v, bit, len), len) = Append(Tail(Bits(v, len)), bit)
<1>1. len - 1 \in Nat /\ (len - 1) + 1 = len
    OBVIOUS
<1>2. PICK P \in Nat \ {0} : P = 2 ^ (len - 1)
    BY <1>1, PowerDouble
<1>3. 2 ^ len = 2 * P
  <2>1. 2 ^ ((len - 1) + 1) = 2 * 2 ^ (len - 1)
      BY <1>1, PowerDouble
  <2>. QED BY <1>1, <1>2, <2>1
<1>4. PICK x \in Nat : x = v \div 2
    OBVIOUS
<1>5. x < P
    BY <1>3, <1>4
<1>6. PICK w \in Nat : w = x + bit * P
    BY <1>2
<1>7. ShiftIn(v, bit, len) = w
    BY <1>2, <1>4, <1>6 DEF ShiftIn
<1>8. w < 2 ^ len
    BY <1>3, <1>5, <1>6
<1>9. ASSUME NEW k \in 1 .. len - 1
      PROVE  (w \div 2 ^ (k - 1)) % 2 = (v \div 2 ^ k) % 2
  <2>1. k - 1 \in Nat /\ (len - k) - 1 \in Nat
      OBVIOUS
  <2>2. PICK q \in Nat \ {0} : q = 2 ^ (k - 1)
      BY <2>1, PowerDouble
  <2>3. PICK c \in Nat \ {0} : c = 2 ^ ((len - k) - 1)
      BY <2>1, PowerDouble
  <2>4. 2 ^ k = 2 * q
    <3>1. 2 ^ ((k - 1) + 1) = 2 * 2 ^ (k - 1) /\ (k - 1) + 1 = k
        BY <2>1, PowerDouble
    <3>. QED BY <2>2, <3>1
  <2>5. P = 2 * (q * c)
    <3>1. 2 ^ ((k - 1) + ((len - k) - 1)) = q * c
        BY <2>1, <2>2, <2>3, PowerSum
    <3>2. (k - 1) + ((len - k) - 1) = len - 2 /\ len - 2 \in Nat /\ (len - 2) + 1 = len - 1
        OBVIOUS
    <3>3. 2 ^ ((len - 2) + 1) = 2 * 2 ^ (len - 2)
        BY <3>2, PowerDouble
    <3>. QED BY <1>2, <3>1, <3>2, <3>3
  <2>6. PICK z \in Nat : z = c * bit
      OBVIOUS
  <2>7. w = x + q * (2 * z)
    <3>1. bit = 0 \/ bit = 1
        OBVIOUS
    <3>2. CASE bit = 0
      <4>1. z = 0
          BY <2>6, <3>2
      <4>2. w = x
          BY <1>2, <1>6, <3>2
      <4>3. q * (2 * 0) = 0
          OBVIOUS
      <4>. QED BY <4>1, <4>2, <4>3
    <3>3. CASE bit = 1
      <4>1. z = c
          BY <2>6, <3>3
      <4>2. w = x + P
          BY <1>2, <1>6, <3>3
      <4>3. q * (2 * c) = 2 * (q * c)
          OBVIOUS
      <4>. QED BY <2>5, <4>1, <4>2, <4>3
    <3>. QED BY <3>1, <3>2, <3>3
  <2>8. 2 * z \in Nat
      OBVIOUS
  <2>9. w \div q = (x \div q) + 2 * z
    <3>1. PICK zz \in Nat : zz = 2 * z
        BY <2>8
    <3>2. (x + q * zz) \div q = (x \div q) + zz
        BY MultipleAdded
    <3>. QED BY <2>7, <3>1, <3>2
  <2>10. x \div q = v \div (2 * q)
    <3>1. 2 \in Nat \ {0}
        OBVIOUS
    <3>2. (v \div 2) \div q = v \div (2 * q)
        BY <3>1, DividedTwice
    <3>. QED BY <1>4, <3>2
  <2>11. PICK y \in Nat : y = x \div q
      BY Divided
  <2>12. (y + 2 * z) % 2 = y % 2
      OBVIOUS
  <2>. QED BY <2>2, <2>4, <2>9, <2>10, <2>11, <2>12
<1>10. (w \div P) % 2 = bit
  <2>1. w = P * bit + x
      BY <1>6
  <2>2. bit \in Nat /\ bit % 2 = bit
      OBVIOUS
  <2>3. w \div P = bit
      BY <1>5, <2>1, <2>2, Quotient
  <2>. QED BY <2>2, <2>3
<1>11. PICK s : s = Bits(v, len)
    OBVIOUS
<1>12. s \in Seq({0, 1}) /\ Len(s) = len /\ s # <<>>
    BY <1>11, BitsType
<1>13. PICK t : t = Append(Tail(s), bit)
    OBVIOUS
<1>14. /\ Tail(s) \in Seq({0, 1}) /\ Len(Tail(s)) = len - 1
       /\ \A k \in 1 .. len - 1 : Tail(s)[k] = s[k + 1]
    BY <1>12, HeadTailProperties
<1>15. /\ t \in Seq({0, 1}) /\ Len(t) = len /\ t[len] = bit
       /\ \A k \in 1 .. len - 1 : t[k] = s[k + 1]
    BY <1>13, <1>14, AppendProperties
<1>16. PICK u : u = Bits(w, len)
    OBVIOUS
<1>17. u \in Seq({0, 1}) /\ Len(u) = len
    BY <1>16, BitsType
<1>18. ASSUME NEW k \in 1 .. len PROVE u[k] = t[k]
  <2>1. u[k] = (w \div 2 ^ (k - 1)) % 2
      BY <1>16, BitsType
  <2>2. CASE k = len
      BY <1>2, <1>10, <1>15, <2>1, <2>2
  <2>3. CASE k # len
    <3>1. k \in 1 .. len - 1 /\ k + 1 \in 1 .. len /\ (k + 1) - 1 = k
        BY <2>3
    <3>2. s[k + 1] = (v \div 2 ^ ((k + 1) - 1)) % 2
        BY <1>11, <3>1, BitsType
    <3>3. (w \div 2 ^ (k - 1)) % 2 = (v \div 2 ^ k) % 2
        BY <1>9, <3>1
    <3>. QED BY <1>15, <2>1, <3>1, <3>2, <3>3
  <2>. QED BY <2>2, <2>3
<1>19. u = t
    BY <1>15, <1>17, <1>18, SeqEqual
<1>. QED BY <1>7, <1>8, <1>11, <1>13, <1>16, <1>19

(* What leaves next is the lowest bit. *)
LEMMA BitsHead ==
    ASSUME NEW v \in Nat, NEW len \in Nat \ {0}
    PROVE  Head(Bits(v, len)) = v % 2
<1>1. Bits(v, len) \in Seq({0, 1}) /\ Len(Bits(v, len)) = len
    BY BitsType
<1>2. Bits(v, len)[1] = (v \div 2 ^ (1 - 1)) % 2
  <2>1. 1 \in 1 .. len
      OBVIOUS
  <2>. QED BY <2>1, BitsType
<1>3. 2 ^ (1 - 1) = 1
    BY PowerZero
<1>4. v \div 1 = v
    OBVIOUS
<1>. QED BY <1>1, <1>2, <1>3, <1>4

-----------------------------------------------------------------------------
(* The test access port.                                                   *)

States == DOMAIN next

Taps ==
    [tck : {0, 1}, tms : {0, 1}, tdi : {0, 1}, tdo : {0, 1}, ir : Nat, dr : Nat,
     dr_length : Nat \ {0}, dmi : Nat, state : States]

(* The registers have their widths. *)
TapOK(t) == t \in Taps /\ t.dr < 2 ^ t.dr_length /\ t.dmi < 2 ^ BusLength

(* A data scan in progress. *)
ScanOK(t, sc) ==
    t.state \in DrStates =>
        /\ t.ir = sc.ir /\ Bits(t.dr, t.dr_length) = sc.stream
        /\ t.state = "SHIFT_DR" => t.tdo = Head(sc.stream)
        /\ t.ir = IR_DBUS => t.dr_length = BusLength

Scans == [ir : Nat, stream : Seq({0, 1})]

TapInv ==
    /\ TapOK(tap) /\ dm \in [Addresses -> Data]
    /\ scan \in Scans /\ ScanOK(tap, scan)

LEMMA Widths ==
    /\ AddrBits \in Nat /\ DataBits \in Nat \ {0} /\ IdLength \in Nat \ {0}
    /\ IrLength \in Nat \ {0} /\ BusLength \in Nat \ {0}
    /\ 2 ^ AddrBits \in Nat \ {0} /\ 2 ^ DataBits \in Nat \ {0}
    /\ 2 ^ BusLength = (2 ^ AddrBits * 2 ^ DataBits) * 4
<1>1. AddrBits \in Nat /\ DataBits \in Nat \ {0} /\ IdLength \in Nat \ {0} /\ IrLength \in Nat \ {0}
    BY WidthAssumption
<1>2. BusLength = (AddrBits + DataBits) + 2 /\ AddrBits + DataBits \in Nat
    BY <1>1 DEF BusLength, OpBits
<1>3. 2 ^ (AddrBits + DataBits) = 2 ^ AddrBits * 2 ^ DataBits
    BY <1>1, PowerSum
<1>4. 2 ^ ((AddrBits + DataBits) + 2) = 2 ^ (AddrBits + DataBits) * 2 ^ 2
    BY <1>2, PowerSum
<1>. QED BY <1>1, <1>2, <1>3, <1>4, PowerZero, PowerDouble

(* The arrows of the automaton that the proofs follow. *)
LEMMA Arrows ==
    ASSUME NEW s \in States, NEW b \in {0, 1}, NEW n, n = next[s][b + 1]
    PROVE  /\ n \in States
           /\ n \in DrStates => s \in (DrStates \ {"UPDATE_DR"}) \cup {"SELECT_DR_SCAN"}
           /\ n = "CAPTURE_DR" <=> n \in DrStates /\ s = "SELECT_DR_SCAN"
           /\ n = "UPDATE_DR" => s \in {"EXIT1_DR", "EXIT2_DR"}
           /\ s = "SHIFT_DR" => n \in {"SHIFT_DR", "EXIT1_DR"}
<1>1. States = {"TEST_LOGIC_RESET", "RUN_TEST_IDLE", "SELECT_DR_SCAN", "CAPTURE_DR",
                "SHIFT_DR", "EXIT1_DR", "PAUSE_DR", "EXIT2_DR", "UPDATE_DR",
                "SELECT_IR_SCAN", "CAPTURE_IR", "SHIFT_IR", "EXIT1_IR", "PAUSE_IR",
                "EXIT2_IR", "UPDATE_IR"}
    BY DEF States, next
<1>2. b + 1 = 1 \/ b + 1 = 2
    OBVIOUS
<1>3. n = IF b + 1 = 1
          THEN CASE s \in {"TEST_LOGIC_RESET", "RUN_TEST_IDLE", "UPDATE_DR", "UPDATE_IR"} -> "RUN_TEST_IDLE"
                 [] s = "SELECT_DR_SCAN" -> "CAPTURE_DR"
                 [] s \in {"CAPTURE_DR", "SHIFT_DR", "EXIT2_DR"} -> "SHIFT_DR"
                 [] s \in {"EXIT1_DR", "PAUSE_DR"} -> "PAUSE_DR"
                 [] s = "SELECT_IR_SCAN" -> "CAPTURE_IR"
                 [] s \in {"CAPTURE_IR", "SHIFT_IR", "EXIT2_IR"} -> "SHIFT_IR"
                 [] s \in {"EXIT1_IR", "PAUSE_IR"} -> "PAUSE_IR"
          ELSE CASE s \in {"TEST_LOGIC_RESET", "SELECT_IR_SCAN"} -> "TEST_LOGIC_RESET"
                 [] s \in {"RUN_TEST_IDLE", "UPDATE_DR", "UPDATE_IR"} -> "SELECT_DR_SCAN"
                 [] s = "SELECT_DR_SCAN" -> "SELECT_IR_SCAN"
                 [] s \in {"CAPTURE_DR", "SHIFT_DR"} -> "EXIT1_DR"
                 [] s \in {"EXIT1_DR", "EXIT2_DR"} -> "UPDATE_DR"
                 [] s = "PAUSE_DR" -> "EXIT2_DR"
                 [] s \in {"CAPTURE_IR", "SHIFT_IR"} -> "EXIT1_IR"
                 [] s \in {"EXIT1_IR", "EXIT2_IR"} -> "UPDATE_IR"
                 [] s = "PAUSE_IR" -> "EXIT2_IR"
    BY <1>1, <1>2 DEF next
<1>. QED BY <1>1, <1>2, <1>3 DEF DrStates

LEMMA BusWordType ==
    ASSUME NEW a \in Addresses, NEW x \in Data, NEW op \in {0, 2}
    PROVE  BusWord(a, x, op) \in Nat /\ BusWord(a, x, op) < 2 ^ BusLength
<1>1. PICK A \in Nat \ {0} : A = 2 ^ AddrBits
    BY Widths
<1>2. PICK D \in Nat \ {0} : D = 2 ^ DataBits
    BY Widths
<1>3. a \in Nat /\ x \in Nat /\ a < A /\ x < D
    BY <1>1, <1>2 DEF Addresses, Data
<1>4. 2 ^ BusLength = (A * D) * 4
    BY <1>1, <1>2, Widths
<1>5. PICK z \in Nat : z = A * D
    OBVIOUS
<1>6. PICK y \in Nat : y = a * D + x
    BY <1>3
<1>7. y < z
  <2>1. a + 1 <= A
      BY <1>3
  <2>2. (a + 1) * D <= A * D
      BY <1>3, <2>1
  <2>3. (a + 1) * D = a * D + D
      BY <1>3
  <2>4. a * D \in Nat
      BY <1>3
  <2>. QED BY <1>3, <1>5, <1>6, <2>2, <2>3, <2>4
<1>8. BusWord(a, x, op) = y * 4 + op
    BY <1>2, <1>6 DEF BusWord
<1>. QED BY <1>4, <1>5, <1>7, <1>8

LEMMA WordParts ==
    ASSUME NEW word \in Nat
    PROVE  Datum(word) \in Data /\ Address(word) \in Addresses
<1>1. PICK A \in Nat \ {0} : A = 2 ^ AddrBits
    BY Widths
<1>2. PICK D \in Nat \ {0} : D = 2 ^ DataBits
    BY Widths
<1>3. word \div 4 \in Nat
    OBVIOUS
<1>4. (word \div 4) % D \in Nat /\ (word \div 4) % D < D
    BY <1>3, Divided
<1>5. 4 * D \in Nat \ {0}
    OBVIOUS
<1>6. word \div (4 * D) \in Nat
    BY <1>5, Divided
<1>7. (word \div (4 * D)) % A \in Nat /\ (word \div (4 * D)) % A < A
    BY <1>6, Divided
<1>. QED BY <1>1, <1>2, <1>4, <1>7 DEF Datum, Address, Data, Addresses

LEMMA ReplyType ==
    ASSUME NEW d \in [Addresses -> Data], NEW word \in Nat
    PROVE  /\ Reply(d, word) \in Nat /\ Reply(d, word) < 2 ^ BusLength
           /\ Accessed(d, word) \in [Addresses -> Data]
<1>1. Datum(word) \in Data /\ Address(word) \in Addresses
    BY WordParts
<1>2. d[Address(word)] \in Data
    BY <1>1
<1>3. \A x \in Data, op \in {0, 2} :
          BusWord(Address(word), x, op) \in Nat /\ BusWord(Address(word), x, op) < 2 ^ BusLength
    BY <1>1, BusWordType
<1>4. \E x \in Data, op \in {0, 2} : Reply(d, word) = BusWord(Address(word), x, op)
    BY <1>1, <1>2 DEF Reply, STATUS_FAILED, STATUS_SUCCESS
<1>5. Accessed(d, word) \in [Addresses -> Data]
    BY <1>1 DEF Accessed
<1>. QED BY <1>3, <1>4, <1>5

(* The edge shifts a bit through the register of the state it leaves. *)
LEMMA ClockedOK ==
    ASSUME NEW t, TapOK(t), NEW c, c = Clocked(t)
    PROVE  /\ TapOK(c) /\ c.state = next[t.state][t.tms + 1]
           /\ c.dr_length = t.dr_length /\ c.tdo = t.tdo
           /\ t.state # "SHIFT_IR" => c.ir = t.ir
           /\ t.state # "SHIFT_DR" => c.dr = t.dr
           /\ t.state = "SHIFT_DR" =>
                 Bits(c.dr, c.dr_length) = Append(Tail(Bits(t.dr, t.dr_length)), t.tdi)
<1>0. /\ t \in Taps /\ t.dr \in Nat /\ t.dr_length \in Nat \ {0} /\ t.tdi \in {0, 1}
      /\ t.ir \in Nat /\ t.state \in States /\ t.tms \in {0, 1} /\ t.dr < 2 ^ t.dr_length
      /\ t.dmi < 2 ^ BusLength
    BY DEF TapOK, Taps
<1>1. next[t.state][t.tms + 1] \in States
    BY <1>0, Arrows
<1>2. PICK n \in States : n = next[t.state][t.tms + 1]
    BY <1>1
<1>3. CASE t.state = "SHIFT_DR"
  <2>1. PICK v \in Nat : v = ShiftIn(t.dr, t.tdi, t.dr_length)
      BY <1>0, BitsShift
  <2>2. v < 2 ^ t.dr_length
        /\ Bits(v, t.dr_length) = Append(Tail(Bits(t.dr, t.dr_length)), t.tdi)
      BY <1>0, <2>1, BitsShift
  <2>3. Shifted(t) = [t EXCEPT !.dr = v]
      BY <1>3, <2>1 DEF Shifted
  <2>4. c = [t EXCEPT !.dr = v, !.state = n]
      BY <1>0, <1>2, <2>3 DEF Clocked, Taps
  <2>5. /\ c \in Taps /\ c.dr = v /\ c.state = n /\ c.dr_length = t.dr_length
        /\ c.ir = t.ir /\ c.tdo = t.tdo /\ c.dmi = t.dmi
      BY <1>0, <2>4 DEF Taps
  <2>. QED BY <1>0, <1>2, <1>3, <2>2, <2>5 DEF TapOK
<1>4. CASE t.state = "SHIFT_IR"
  <2>1. PICK v \in Nat : v = ShiftIn(t.ir, t.tdi, IrLength)
    <3>1. 2 ^ (IrLength - 1) \in Nat
        BY Widths, PowerDouble
    <3>2. t.ir \div 2 \in Nat
        BY <1>0
    <3>. QED BY <1>0, <3>1, <3>2 DEF ShiftIn
  <2>2. Shifted(t) = [t EXCEPT !.ir = v]
      BY <1>4, <2>1 DEF Shifted
  <2>3. c = [t EXCEPT !.ir = v, !.state = n]
      BY <1>0, <1>2, <2>2 DEF Clocked, Taps
  <2>4. /\ c \in Taps /\ c.dr = t.dr /\ c.state = n /\ c.dr_length = t.dr_length
        /\ c.tdo = t.tdo /\ c.dmi = t.dmi
      BY <1>0, <2>3 DEF Taps
  <2>. QED BY <1>0, <1>2, <1>4, <2>4 DEF TapOK
<1>5. CASE t.state \notin {"SHIFT_DR", "SHIFT_IR"}
  <2>1. Shifted(t) = t
      BY <1>5 DEF Shifted
  <2>2. c = [t EXCEPT !.state = n]
      BY <1>2, <2>1 DEF Clocked
  <2>3. /\ c \in Taps /\ c.dr = t.dr /\ c.state = n /\ c.dr_length = t.dr_length
        /\ c.ir = t.ir /\ c.tdo = t.tdo /\ c.dmi = t.dmi
      BY <1>0, <2>2 DEF Taps
  <2>. QED BY <1>0, <1>2, <1>5, <2>3 DEF TapOK
<1>. QED BY <1>3, <1>4, <1>5

(* What entering a state does to the registers of the port. *)
LEMMA EnteredOK ==
    ASSUME NEW c, TapOK(c), NEW d \in [Addresses -> Data], NEW e, e = Entered(c, d)
    PROVE  /\ TapOK(e) /\ e.state = c.state
           /\ c.state # "TEST_LOGIC_RESET" => e.ir = c.ir
           /\ c.state # "CAPTURE_DR" => e.dr = c.dr /\ e.dr_length = c.dr_length
           /\ c.state = "CAPTURE_DR" => (e.ir = IR_DBUS => e.dr_length = BusLength)
           /\ c.state = "SHIFT_DR" => e.tdo = c.dr % 2
<1>0. c \in Taps /\ c.dr \in Nat /\ c.ir \in Nat /\ c.dr < 2 ^ c.dr_length
      /\ c.dmi \in Nat /\ c.dmi < 2 ^ BusLength
    BY DEF TapOK, Taps
<1>1. CASE c.state = "TEST_LOGIC_RESET"
  <2>1. e = [c EXCEPT !.ir = IR_IDCODE]
      BY <1>1 DEF Entered, Updates
  <2>2. IR_IDCODE \in Nat
      BY RegisterAssumption
  <2>. QED BY <1>0, <1>1, <2>1, <2>2 DEF TapOK, Taps
<1>2. CASE c.state = "CAPTURE_DR"
  <2>1. e = capture_dr(c)
      BY <1>2 DEF Entered, Updates
  <2>2. ASSUME NEW v \in Nat, NEW len \in Nat \ {0}, v < 2 ^ len,
               e = [c EXCEPT !.dr = v, !.dr_length = len]
        PROVE  TapOK(e) /\ e.state = c.state /\ e.ir = c.ir /\ e.dr_length = len
      BY <1>0, <2>2 DEF TapOK, Taps
  <2>3. 2 ^ IdLength \in Nat /\ IdLength \in Nat \ {0} /\ BusLength \in Nat \ {0}
      BY Widths, PowerDouble
  <2>4. CASE c.ir = IR_IDCODE
    <3>1. e = [c EXCEPT !.dr = idcode, !.dr_length = IdLength]
        BY <2>1, <2>4, RegisterAssumption DEF capture_dr
    <3>2. idcode \in Nat /\ idcode < 2 ^ IdLength /\ IR_IDCODE # IR_DBUS
        BY <2>3, RegisterAssumption
    <3>. QED BY <1>2, <2>2, <2>3, <2>4, <3>1, <3>2
  <2>5. CASE c.ir = IR_DTMCONTROL
    <3>1. e = [c EXCEPT !.dr = dtmcontrol, !.dr_length = IdLength]
        BY <2>1, <2>5, RegisterAssumption DEF capture_dr
    <3>2. dtmcontrol \in Nat /\ dtmcontrol < 2 ^ IdLength /\ IR_DTMCONTROL # IR_DBUS
        BY <2>3, RegisterAssumption
    <3>. QED BY <1>2, <2>2, <2>3, <2>5, <3>1, <3>2
  <2>6. CASE c.ir = IR_DBUS
    <3>1. e = [c EXCEPT !.dr = c.dmi, !.dr_length = BusLength]
        BY <2>1, <2>6, RegisterAssumption DEF capture_dr
    <3>. QED BY <1>0, <1>2, <2>2, <2>3, <3>1
  <2>7. CASE c.ir \notin {IR_IDCODE, IR_DTMCONTROL, IR_DBUS}
    <3>1. e = c
        BY <2>1, <2>7 DEF capture_dr
    <3>. QED BY <1>2, <2>7, <3>1
  <2>. QED BY <2>4, <2>5, <2>6, <2>7
<1>3. CASE c.state = "SHIFT_DR"
  <2>1. e = [c EXCEPT !.tdo = c.dr % 2]
      BY <1>3 DEF Entered, Updates
  <2>2. c.dr % 2 \in {0, 1}
      BY <1>0
  <2>. QED BY <1>0, <1>3, <2>1, <2>2 DEF TapOK, Taps
<1>4. CASE c.state = "UPDATE_DR" /\ c.ir = IR_DBUS
  <2>1. e = [c EXCEPT !.dmi = Reply(d, c.dr)]
      BY <1>4 DEF Entered, Updates
  <2>2. Reply(d, c.dr) \in Nat /\ Reply(d, c.dr) < 2 ^ BusLength
      BY <1>0, ReplyType
  <2>. QED BY <1>0, <1>4, <2>1, <2>2 DEF TapOK, Taps
<1>5. CASE c.state = "SHIFT_IR"
  <2>1. e = [c EXCEPT !.tdo = c.ir % 2]
      BY <1>5 DEF Entered, Updates
  <2>2. c.ir % 2 \in {0, 1}
      BY <1>0
  <2>. QED BY <1>0, <1>5, <2>1, <2>2 DEF TapOK, Taps
<1>6. CASE /\ c.state \notin {"TEST_LOGIC_RESET", "CAPTURE_DR", "SHIFT_DR", "SHIFT_IR"}
           /\ ~(c.state = "UPDATE_DR" /\ c.ir = IR_DBUS)
  <2>1. e = c
      BY <1>6 DEF Entered, Updates
  <2>. QED BY <1>6, <2>1
<1>. QED BY <1>1, <1>2, <1>3, <1>4, <1>5, <1>6

(* A rising edge of the clock keeps what is known of the port. *)
LEMMA EdgeOK ==
    ASSUME TapInv, NEW c, c = Clocked(tap), NEW e, e = Entered(c, dm)
    PROVE  TapOK(e) /\ ScanAfter(tap, e) \in Scans /\ ScanOK(e, ScanAfter(tap, e))
<1>0. /\ TapOK(tap) /\ tap.state \in States /\ tap.tms \in {0, 1} /\ tap.tdi \in {0, 1}
      /\ tap.dr \in Nat /\ tap.dr_length \in Nat \ {0} /\ scan \in Scans
    BY DEF TapInv, TapOK, Taps
<1>1. /\ TapOK(c) /\ c.state = next[tap.state][tap.tms + 1]
      /\ c.dr_length = tap.dr_length
      /\ tap.state # "SHIFT_IR" => c.ir = tap.ir
      /\ tap.state # "SHIFT_DR" => c.dr = tap.dr
      /\ tap.state = "SHIFT_DR" =>
            Bits(c.dr, c.dr_length) = Append(Tail(Bits(tap.dr, tap.dr_length)), tap.tdi)
    BY <1>0, ClockedOK
<1>2. /\ TapOK(e) /\ e.state = c.state
      /\ c.state # "TEST_LOGIC_RESET" => e.ir = c.ir
      /\ c.state # "CAPTURE_DR" => e.dr = c.dr /\ e.dr_length = c.dr_length
      /\ c.state = "CAPTURE_DR" => (e.ir = IR_DBUS => e.dr_length = BusLength)
      /\ c.state = "SHIFT_DR" => e.tdo = c.dr % 2
    BY <1>1, EnteredOK DEF TapInv
<1>3. PICK sc : sc = ScanAfter(tap, e)
    OBVIOUS
<1>4. /\ e.dr \in Nat /\ e.dr_length \in Nat \ {0} /\ e.ir \in Nat
      /\ Bits(e.dr, e.dr_length) \in Seq({0, 1})
  <2>1. e.dr \in Nat /\ e.dr_length \in Nat \ {0} /\ e.ir \in Nat
      BY <1>2 DEF TapOK, Taps
  <2>. QED BY <2>1, BitsType
<1>5. e.state = "SHIFT_DR" => e.tdo = Head(Bits(e.dr, e.dr_length))
    BY <1>2, <1>4, BitsHead
<1>6. CASE e.state = "CAPTURE_DR"
  <2>1. sc = [ir |-> e.ir, stream |-> Bits(e.dr, e.dr_length)]
      BY <1>3, <1>6 DEF ScanAfter
  <2>2. e.state # "SHIFT_DR"
      BY <1>6
  <2>3. sc \in Scans /\ sc.ir = e.ir /\ sc.stream = Bits(e.dr, e.dr_length)
      BY <1>4, <2>1 DEF Scans
  <2>. QED BY <1>2, <1>3, <1>6, <2>2, <2>3 DEF ScanOK
<1>7. CASE e.state # "CAPTURE_DR" /\ tap.state = "SHIFT_DR"
  <2>1. e.state \in DrStates /\ tap.state \in DrStates /\ e.state # "TEST_LOGIC_RESET"
      BY <1>0, <1>1, <1>2, <1>7, Arrows DEF DrStates
  <2>2. /\ tap.ir = scan.ir /\ Bits(tap.dr, tap.dr_length) = scan.stream
        /\ tap.ir = IR_DBUS => tap.dr_length = BusLength
      BY <2>1 DEF TapInv, ScanOK
  <2>3. e.ir = tap.ir /\ e.dr = c.dr /\ e.dr_length = tap.dr_length
      BY <1>1, <1>2, <1>7, <2>1
  <2>4. Bits(e.dr, e.dr_length) = Append(Tail(scan.stream), tap.tdi)
      BY <1>1, <1>7, <2>2, <2>3
  <2>5. sc = [scan EXCEPT !.stream = Bits(e.dr, e.dr_length)]
      BY <1>3, <1>7, <2>4 DEF ScanAfter
  <2>6. sc \in Scans /\ sc.ir = scan.ir /\ sc.stream = Bits(e.dr, e.dr_length)
      BY <1>0, <1>4, <2>5 DEF Scans
  <2>. QED BY <1>2, <1>3, <1>5, <2>2, <2>3, <2>6 DEF ScanOK
<1>8. CASE e.state # "CAPTURE_DR" /\ tap.state # "SHIFT_DR"
  <2>1. sc = scan
      BY <1>3, <1>8 DEF ScanAfter
  <2>2. CASE e.state \in DrStates
    <3>1. tap.state \in DrStates /\ e.state # "TEST_LOGIC_RESET" /\ tap.state # "SHIFT_IR"
        BY <1>0, <1>1, <1>2, <1>8, <2>2, Arrows DEF DrStates
    <3>2. /\ tap.ir = scan.ir /\ Bits(tap.dr, tap.dr_length) = scan.stream
          /\ tap.ir = IR_DBUS => tap.dr_length = BusLength
        BY <3>1 DEF TapInv, ScanOK
    <3>3. e.ir = tap.ir /\ e.dr = tap.dr /\ e.dr_length = tap.dr_length
        BY <1>1, <1>2, <1>8, <3>1
    <3>. QED BY <1>0, <1>2, <1>3, <1>5, <2>1, <3>2, <3>3 DEF ScanOK
  <2>3. CASE e.state \notin DrStates
      BY <1>0, <1>2, <1>3, <2>1, <2>3 DEF ScanOK
  <2>. QED BY <2>2, <2>3
<1>. QED BY <1>6, <1>7, <1>8

LEMMA PinsOK ==
    ASSUME TapInv, NEW tck \in {0, 1}, NEW tms \in {0, 1}, NEW tdi \in {0, 1},
           TapPins(tck, tms, tdi)
    PROVE  TapInv'
<1>1. PICK c : c = Clocked(tap)
    OBVIOUS
<1>2. PICK e : e = Entered(c, dm)
    OBVIOUS
<1>3. ASSUME NEW u, TapOK(u), tap' = [u EXCEPT !.tck = tck, !.tms = tms, !.tdi = tdi]
      PROVE  TapOK(tap)' /\ \A sc : ScanOK(u, sc) => ScanOK(tap', sc)
  <2>1. /\ tap' \in Taps /\ tap'.state = u.state /\ tap'.ir = u.ir /\ tap'.dr = u.dr
        /\ tap'.dr_length = u.dr_length /\ tap'.tdo = u.tdo /\ tap'.dmi = u.dmi
      BY <1>3 DEF TapOK, Taps
  <2>. QED BY <1>3, <2>1 DEF TapOK, ScanOK
<1>4. CASE PositiveEdge(tap, tck)
  <2>1. PICK sc : sc = ScanAfter(tap, e)
      OBVIOUS
  <2>2. TapOK(e) /\ sc \in Scans /\ ScanOK(e, sc)
      BY <1>1, <1>2, <2>1, EdgeOK
  <2>3. tap' = [e EXCEPT !.tck = tck, !.tms = tms, !.tdi = tdi]
      BY <1>1, <1>2, <1>4 DEF TapPins, SetPins
  <2>4. scan' = sc
    <3>1. ScanAfter(tap, tap') = ScanAfter(tap, e)
      <4>1. /\ tap'.state = e.state /\ tap'.ir = e.ir /\ tap'.dr = e.dr
            /\ tap'.dr_length = e.dr_length
          BY <2>2, <2>3 DEF TapOK, Taps
      <4>. QED BY <4>1 DEF ScanAfter
    <3>. QED BY <1>4, <2>1, <3>1 DEF TapPins
  <2>5. dm' \in [Addresses -> Data]
    <3>1. TapOK(c)
        BY <1>1, ClockedOK DEF TapInv
    <3>2. c.dr \in Nat
        BY <3>1 DEF TapOK, Taps
    <3>3. dm' = dm \/ dm' = Accessed(dm, c.dr)
        BY <1>1 DEF TapPins, SetPinsDm
    <3>. QED BY <3>2, <3>3, ReplyType DEF TapInv
  <2>6. TapOK(tap)' /\ ScanOK(tap', sc)
      BY <1>3, <2>2, <2>3
  <2>. QED BY <2>2, <2>4, <2>5, <2>6 DEF TapInv
<1>5. CASE ~PositiveEdge(tap, tck)
  <2>1. /\ tap' = [tap EXCEPT !.tck = tck, !.tms = tms, !.tdi = tdi]
        /\ dm' = dm /\ scan' = scan
      BY <1>5 DEF TapPins, SetPins, SetPinsDm
  <2>2. TapOK(tap)' /\ ScanOK(tap', scan)
      BY <1>3, <2>1 DEF TapInv
  <2>. QED BY <2>1, <2>2 DEF TapInv
<1>. QED BY <1>4, <1>5

LEMMA ResetOK ==
    ASSUME TapInv, TapReset
    PROVE  TapInv'
<1>1. "TEST_LOGIC_RESET" \in States /\ "TEST_LOGIC_RESET" \notin DrStates
    BY DEF States, next, DrStates
<1>2. /\ tap' \in Taps /\ tap'.state = "TEST_LOGIC_RESET" /\ tap'.dr = tap.dr
      /\ tap'.dr_length = tap.dr_length /\ tap'.dmi = tap.dmi
    BY <1>1 DEF TapInv, TapOK, Taps, TapReset, ResetTap
<1>3. TapOK(tap)'
    BY <1>2 DEF TapInv, TapOK
<1>4. ScanOK(tap, scan)'
    BY <1>1, <1>2 DEF ScanOK
<1>. QED BY <1>3, <1>4 DEF TapInv, TapReset

(* Any byte of the protocol. *)
LEMMA AppliedOK ==
    ASSUME TapInv, NEW c, Applied(c)
    PROVE  TapInv'
<1>1. CASE c \in DOMAIN Pins
  <2>1. \A k \in {1, 2, 3} : Pins[c][k] \in {0, 1}
      BY <1>1 DEF Pins
  <2>2. TapPins(Pins[c][1], Pins[c][2], Pins[c][3])
    <3>1. c # "r"
        BY <1>1 DEF Pins
    <3>. QED BY <1>1, <3>1 DEF Applied
  <2>. QED BY <2>1, <2>2, PinsOK
<1>2. CASE c \notin DOMAIN Pins /\ c = "r"
    BY <1>2, ResetOK DEF Applied
<1>3. CASE c \notin DOMAIN Pins /\ c # "r"
    BY <1>3 DEF Applied, tapvars, TapInv
<1>. QED BY <1>1, <1>2, <1>3

LEMMA TapInitOK == TapInit => TapInv
<1>. SUFFICES ASSUME TapInit PROVE TapInv
    OBVIOUS
<1>1. PICK i \in 0 .. 2 ^ IrLength - 1, len \in {1, IdLength, BusLength} :
          /\ tap = [tck |-> 0, tms |-> 0, tdi |-> 0, tdo |-> 0, ir |-> i,
                    dr |-> 0, dr_length |-> len, dmi |-> STATUS_SUCCESS,
                    state |-> "TEST_LOGIC_RESET"]
          /\ scan = [ir |-> i, stream |-> Bits(0, len)]
    BY DEF TapInit
<1>2. len \in Nat \ {0} /\ 2 ^ IrLength \in Nat
    BY Widths, PowerDouble
<1>3. i \in Nat
    BY <1>2
<1>4. "TEST_LOGIC_RESET" \in States /\ "TEST_LOGIC_RESET" \notin DrStates
    BY DEF States, next, DrStates
<1>5. 0 < 2 ^ len /\ 0 < 2 ^ BusLength
    BY <1>2, Widths, PowerDouble
<1>6. TapOK(tap)
    BY <1>1, <1>2, <1>3, <1>4, <1>5 DEF TapOK, Taps, STATUS_SUCCESS
<1>7. Bits(0, len) \in Seq({0, 1})
    BY <1>2, BitsType
<1>8. scan \in Scans
    BY <1>1, <1>3, <1>7 DEF Scans
<1>9. ScanOK(tap, scan)
    BY <1>1, <1>4 DEF ScanOK
<1>10. dm \in [Addresses -> Data]
  <2>1. 0 \in Data
      BY Widths DEF Data
  <2>. QED BY <2>1 DEF TapInit
<1>. QED BY <1>6, <1>8, <1>9, <1>10 DEF TapInv

-----------------------------------------------------------------------------
(* The server.                                                             *)

ServerTypes ==
    /\ who \in Clients /\ client \in {"none", "connecting", "open", "gone"}
    /\ wire \in Seq(Commands) /\ recv_buf \in Seq(Commands)
    /\ answers \in Seq({0, 1}) /\ send_buf \in Seq({0, 1})
    /\ tick \in [total_processed : Nat, quit : BOOLEAN, in_rti : BOOLEAN,
                 entered_rti : BOOLEAN, visited : BOOLEAN]
    /\ phase \in {"idle", "exec", "send", "read", "dead"}

(* A pass of the loop goes on to a read only with an empty buffer, because *)
(* one that stops with commands left has entered Run-Test/Idle.            *)
ServerRelations ==
    /\ client \in {"none", "connecting"} => phase = "idle"
    /\ client = "none" => wire = <<>> /\ recv_buf = <<>>
    /\ phase \in {"idle", "read"} => send_buf = <<>>
    /\ phase = "exec" => recv_buf # <<>>
    /\ phase = "read" => recv_buf = <<>>
    /\ phase = "send" /\ recv_buf # <<>> => tick.entered_rti
    /\ phase = "dead" => client = "gone"

BInv == TapInv /\ ServerTypes /\ ServerRelations

LEMMA InitOK == Init => BInv
BY TapInitOK DEF Init, BInv, ServerTypes, ServerRelations, NoTick

LEMMA SendOK == ASSUME BInv, Send PROVE BInv'
<1>1. PICK c \in who.sends : wire' = Append(wire, c)
    BY DEF Send
<1>2. c \in Commands
    BY DEF BInv, ServerTypes, Commands
<1>3. ServerTypes'
    BY <1>1, <1>2 DEF Send, BInv, ServerTypes, servervars
<1>4. ServerRelations'
    BY DEF Send, BInv, ServerRelations, servervars
<1>5. TapInv'
    BY DEF Send, BInv, TapInv, tapvars
<1>. QED BY <1>3, <1>4, <1>5 DEF BInv

LEMMA ClientOK == ASSUME BInv, Connect \/ Receive \/ HangUp PROVE BInv'
<1>1. TapInv'
    BY DEF Connect, Receive, HangUp, BInv, TapInv, tapvars
<1>2. CASE Connect
    BY <1>1, <1>2 DEF Connect, BInv, ServerTypes, ServerRelations, servervars
<1>3. CASE Receive
    BY <1>1, <1>3 DEF Receive, BInv, ServerTypes, ServerRelations, servervars
<1>4. CASE HangUp
    BY <1>1, <1>4 DEF HangUp, BInv, ServerTypes, ServerRelations, servervars
<1>. QED BY <1>2, <1>3, <1>4

LEMMA AcceptTickOK == ASSUME BInv, Accept \/ Tick \/ WriteFails \/ ReadFails \/ ReadNothing PROVE BInv'
<1>0. TapInv'
    BY DEF Accept, Tick, WriteFails, ReadFails, ReadNothing, BInv, TapInv, tapvars
<1>1. CASE Accept
    BY <1>0, <1>1 DEF Accept, BInv, ServerTypes, ServerRelations, servervars
<1>2. CASE Tick
    BY <1>0, <1>2 DEF Tick, BInv, ServerTypes, ServerRelations, clientvars, NoTick, InRti
<1>3. CASE WriteFails \/ ReadFails
    BY <1>0, <1>3 DEF WriteFails, ReadFails, BInv, ServerTypes, ServerRelations, clientvars
<1>4. CASE ReadNothing
    BY <1>0, <1>4 DEF ReadNothing, Returns, BInv, ServerTypes, ServerRelations, NoTick
<1>. QED BY <1>1, <1>2, <1>3, <1>4

LEMMA ExecuteOK == ASSUME BInv, ExecuteCommand PROVE BInv'
<1>. PICK c : c = Head(recv_buf)
    OBVIOUS
<1>1. Applied(c) /\ phase = "exec" /\ UNCHANGED clientvars /\ recv_buf' = Tail(recv_buf)
    BY DEF ExecuteCommand
<1>2. TapInv'
    BY <1>1, AppliedOK DEF BInv
<1>3. recv_buf \in Seq(Commands) /\ recv_buf # <<>>
    BY <1>1 DEF BInv, ServerTypes, ServerRelations
<1>4. recv_buf' \in Seq(Commands)
    BY <1>1, <1>3
<1>5. send_buf' \in Seq({0, 1})
  <2>1. tap.tdo \in {0, 1}
      BY DEF BInv, TapInv, TapOK, Taps
  <2>2. send_buf' = send_buf \/ send_buf' = Append(send_buf, tap.tdo)
      BY DEF ExecuteCommand
  <2>3. send_buf \in Seq({0, 1})
      BY DEF BInv, ServerTypes
  <2>. QED BY <2>1, <2>2, <2>3
<1>6. /\ EntersRti \in BOOLEAN /\ tick'.entered_rti = EntersRti
      /\ tick' \in [total_processed : Nat, quit : BOOLEAN, in_rti : BOOLEAN,
                    entered_rti : BOOLEAN, visited : BOOLEAN]
  <2>1. Counted(tick.total_processed) \in Nat
      BY BufAssumption DEF BInv, ServerTypes, Counted
  <2>2. tick.quit \in BOOLEAN /\ tick.visited \in BOOLEAN
      BY DEF BInv, ServerTypes
  <2>3. EntersRti \in BOOLEAN /\ (~InRti(tap) /\ InRti(tap')) \in BOOLEAN
      BY DEF EntersRti, InRti
  <2>4. tick' = [total_processed |-> Counted(tick.total_processed),
                 quit |-> tick.quit \/ c = "Q",
                 in_rti |-> FALSE, entered_rti |-> EntersRti,
                 visited |-> tick.visited \/ (~InRti(tap) /\ InRti(tap'))]
      BY DEF ExecuteCommand
  <2>. QED BY <2>1, <2>2, <2>3, <2>4
<1>7. /\ phase' \in {"send", "exec"}
      /\ phase' = "exec" => recv_buf' # <<>>
      /\ phase' = "send" /\ recv_buf' # <<>> => EntersRti
    BY DEF ExecuteCommand
<1>8. ServerTypes'
    BY <1>1, <1>4, <1>5, <1>6, <1>7 DEF BInv, ServerTypes, clientvars
<1>9. ServerRelations'
    BY <1>1, <1>6, <1>7 DEF BInv, ServerRelations, clientvars
<1>. QED BY <1>2, <1>8, <1>9 DEF BInv

LEMMA AnswersOK == ASSUME BInv, SendAnswers PROVE BInv'
<1>1. TapInv' /\ phase = "send" /\ UNCHANGED <<who, client, wire, recv_buf>>
    BY DEF SendAnswers, BInv, TapInv, tapvars
<1>2. answers' \in Seq({0, 1}) /\ send_buf' = <<>>
  <2>1. answers \in Seq({0, 1}) /\ send_buf \in Seq({0, 1})
      BY DEF BInv, ServerTypes
  <2>2. answers \o send_buf \in Seq({0, 1})
      BY <2>1, ConcatProperties
  <2>. QED BY <2>2 DEF SendAnswers
<1>3. CASE Stops
  <2>1. phase' = "idle" /\ tick' = NoTick
      BY <1>3 DEF SendAnswers, Returns
  <2>2. ServerTypes'
      BY <1>1, <1>2, <2>1 DEF BInv, ServerTypes, NoTick
  <2>3. ServerRelations'
      BY <1>1, <1>2, <2>1 DEF BInv, ServerRelations
  <2>. QED BY <1>1, <2>2, <2>3 DEF BInv
<1>4. CASE ~Stops
  <2>1. phase' = "read" /\ tick' = tick
      BY <1>4 DEF SendAnswers
  <2>2. recv_buf = <<>>
      BY <1>1, <1>4 DEF Stops, BInv, ServerRelations
  <2>3. ServerTypes'
      BY <1>1, <1>2, <2>1 DEF BInv, ServerTypes
  <2>4. ServerRelations'
      BY <1>1, <1>2, <2>1, <2>2 DEF BInv, ServerRelations
  <2>. QED BY <1>1, <2>3, <2>4 DEF BInv
<1>. QED BY <1>3, <1>4

(* What a read takes from the wire and what it leaves. *)
LEMMA ReadParts ==
    ASSUME BInv, ReadSome
    PROVE  /\ recv_buf' \in Seq(Commands) /\ recv_buf' # <<>> /\ wire' \in Seq(Commands)
           /\ recv_buf' \o wire' = wire
<1>1. wire \in Seq(Commands) /\ wire # <<>>
    BY DEF BInv, ServerTypes, ReadSome
<1>2. PICK k \in 1 .. Len(wire) :
          recv_buf' = SubSeq(wire, 1, k) /\ wire' = SubSeq(wire, k + 1, Len(wire))
    BY DEF ReadSome
<1>3. Len(wire) \in Nat
    BY <1>1
<1>4. \A i \in 1 .. Len(wire) : wire[i] \in Commands
    BY <1>1
<1>5. recv_buf' \in Seq(Commands) /\ Len(recv_buf') = k
    BY <1>2, <1>3, <1>4, SubSeqProperties
<1>6. wire' \in Seq(Commands)
    BY <1>2, <1>3, <1>4, SubSeqProperties
<1>7. recv_buf' \o wire' = SubSeq(wire, 1, Len(wire))
  <2>1. 1 \in 1 .. Len(wire) + 1 /\ k \in 1 - 1 .. Len(wire) /\ Len(wire) \in k .. Len(wire)
      BY <1>3
  <2>. QED BY <1>1, <1>2, <2>1, ConcatAdjacentSubSeq
<1>8. SubSeq(wire, 1, Len(wire)) = wire
    BY <1>1, SubSeqFull
<1>9. recv_buf' # <<>>
    BY <1>5
<1>. QED BY <1>5, <1>6, <1>7, <1>8, <1>9

LEMMA ReadOK == ASSUME BInv, ReadSome PROVE BInv'
<1>1. TapInv'
    BY DEF ReadSome, BInv, TapInv, tapvars
<1>2. /\ recv_buf' \in Seq(Commands) /\ recv_buf' # <<>> /\ wire' \in Seq(Commands)
    BY ReadParts
<1>3. ServerTypes'
    BY <1>2 DEF ReadSome, BInv, ServerTypes
<1>4. ServerRelations'
    BY <1>2 DEF ReadSome, BInv, ServerRelations
<1>. QED BY <1>1, <1>3, <1>4 DEF BInv

LEMMA NextOK == ASSUME BInv, [Next]_vars PROVE BInv'
<1>1. CASE UNCHANGED vars
    BY <1>1 DEF vars, tapvars, clientvars, servervars, BInv, TapInv, ServerTypes, ServerRelations
<1>2. CASE Server
    BY <1>2, AcceptTickOK, ExecuteOK, AnswersOK, ReadOK DEF Server
<1>3. CASE Client
    BY <1>3, SendOK, ClientOK DEF Client
<1>. QED BY <1>1, <1>2, <1>3 DEF Next

-----------------------------------------------------------------------------
(* The port and the server, in every reachable state.                      *)

(* The registers keep their widths, a scan its stream, and the server      *)
(* leaves nothing of one connection to the next.                           *)
THEOREM BInvariant == Spec => []BInv
<1>1. Init => BInv
    BY InitOK
<1>2. BInv /\ [Next]_vars => BInv'
    BY NextOK
<1>. QED BY <1>1, <1>2, PTL DEF Spec

(* The data register holds the stream of the scan, tdo is the bit of it    *)
(* that leaves next, and the instruction is that of the capture, however   *)
(* the scan is paused and cut (jtag_dtm.cc:72-105).                        *)
THEOREM ScansKeepStream == Spec => []ScanKeepsStream
<1>1. BInv => ScanKeepsStream
    BY DEF BInv, TapInv, ScanOK, ScanKeepsStream
<1>. QED BY <1>1, BInvariant, PTL

(* The bytes and the answers of a connection that is closed are gone       *)
(* before the next one is accepted (remote_bitbang.cc:65-90, 160-180).     *)
THEOREM BuffersAreTheClients == Spec => []BuffersBelongToClient
<1>1. BInv => BuffersBelongToClient
  <2>. SUFFICES ASSUME BInv, client = "none"
                PROVE  recv_buf \o wire = <<>> /\ send_buf = <<>>
      BY DEF BuffersBelongToClient
  <2>1. recv_buf = <<>> /\ wire = <<>> /\ send_buf = <<>>
      BY DEF BInv, ServerRelations
  <2>. QED BY <2>1
<1>. QED BY <1>1, BInvariant, PTL

-----------------------------------------------------------------------------
(* What an update writes.                                                  *)

(* A field of the stream is the number that those bits of the register     *)
(* make.                                                                   *)
LEMMA FieldValue ==
    ASSUME NEW v \in Nat, NEW len \in Nat, scan.stream = Bits(v, len),
           NEW first \in Nat \ {0}, NEW last \in Nat, first - 1 <= last, last <= len
    PROVE  Field(first, last) = (v \div 2 ^ (first - 1)) % 2 ^ (last - (first - 1))
<1>. PICK b \in Nat : b = first - 1
    OBVIOUS
<1>. PICK x \in Nat : x = v \div 2 ^ b
  <2>1. 2 ^ b \in Nat \ {0}
      BY PowerDouble
  <2>. QED BY <2>1, Divided
<1>. DEFINE S == first - 1 .. last
            D(f, k) == IF k = first - 1 THEN 0
                       ELSE f[k - 1] + scan.stream[k] * 2 ^ (k - first)
            g == [k \in S |-> x % 2 ^ (k - b)]
            F == CHOOSE f : f = [k \in S |-> D(f, k)]
<1>1. ASSUME NEW j \in Nat
      PROVE  /\ 2 ^ j \in Nat \ {0}
             /\ 2 ^ (j + 1) = 2 ^ j * 2
             /\ x % 2 ^ (j + 1) = 2 ^ j * ((x \div 2 ^ j) % 2) + (x % 2 ^ j)
             /\ x \div 2 ^ j = v \div 2 ^ (b + j)
  <2>1. PICK p \in Nat \ {0} : p = 2 ^ j
      BY PowerDouble
  <2>2. 2 ^ (j + 1) = 2 * p
      BY <2>1, PowerDouble
  <2>3. PICK q \in Nat \ {0} : q = 2 ^ b
      BY PowerDouble
  <2>4. 2 ^ (b + j) = q * p
      BY <2>1, <2>3, PowerSum
  <2>5. 2 * p = p * 2
      OBVIOUS
  <2>6. x % (p * 2) = p * ((x \div p) % 2) + (x % p)
    <3>1. PICK e \in Nat \ {0} : e = 2
        OBVIOUS
    <3>2. x % (p * e) = p * ((x \div p) % e) + (x % p)
        BY DividedTwice
    <3>. QED BY <3>1, <3>2
  <2>7. x \div p = v \div (q * p)
    <3>1. x = v \div q
        BY <2>3
    <3>2. (v \div q) \div p = v \div (q * p)
        BY DividedTwice
    <3>. QED BY <3>1, <3>2
  <2>. QED BY <2>1, <2>2, <2>4, <2>5, <2>6, <2>7
<1>2. ASSUME NEW k \in S PROVE g[k] = D(g, k)
  <2>1. CASE k = first - 1
    <3>1. k - b = 0 /\ x % 1 = 0
        BY <2>1
    <3>2. x % 2 ^ (k - b) = 0
        BY <3>1, PowerZero
    <3>. QED BY <2>1, <3>2
  <2>2. CASE k # first - 1
    <3>1. PICK j \in Nat : j = k - first
        BY <2>2
    <3>2. k - 1 \in S /\ (k - 1) - b = j /\ k - b = j + 1 /\ k - 1 = b + j /\ k \in 1 .. len
        BY <2>2, <3>1
    <3>3. scan.stream[k] = (v \div 2 ^ (b + j)) % 2
      <4>1. Bits(v, len)[k] = (v \div 2 ^ (k - 1)) % 2
        <5>1. \A m \in 1 .. len : Bits(v, len)[m] = (v \div 2 ^ (m - 1)) % 2
            BY BitsType
        <5>. QED BY <3>2, <5>1
      <4>. QED BY <3>2, <4>1
    <3>4. PICK c \in Nat : c = scan.stream[k]
      <4>1. 2 ^ (b + j) \in Nat \ {0}
          BY PowerDouble
      <4>2. v \div 2 ^ (b + j) \in Nat
          BY <4>1, Divided
      <4>. QED BY <3>3, <4>2
    <3>5. x % 2 ^ (j + 1) = 2 ^ j * c + (x % 2 ^ j)
        BY <1>1, <3>3, <3>4
    <3>6. 2 ^ j \in Nat /\ x % 2 ^ j \in Nat
      <4>1. 2 ^ j \in Nat \ {0}
          BY <1>1
      <4>. QED BY <4>1, Divided
    <3>7. 2 ^ j * c + (x % 2 ^ j) = (x % 2 ^ j) + c * 2 ^ j
      <4>1. PICK p \in Nat : p = 2 ^ j
          BY <3>6
      <4>2. PICK r \in Nat : r = x % 2 ^ j
          BY <3>6
      <4>3. p * c = c * p /\ p * c \in Nat
          OBVIOUS
      <4>. QED BY <4>1, <4>2, <4>3
    <3>8. g[k] = x % 2 ^ (j + 1) /\ g[k - 1] = x % 2 ^ j
        BY <3>2
    <3>9. D(g, k) = g[k - 1] + c * 2 ^ j
        BY <2>2, <3>1, <3>4
    <3>. HIDE DEF g, D
    <3>. QED BY <3>5, <3>7, <3>8, <3>9
  <2>. QED BY <2>1, <2>2
<1>3. g = [k \in S |-> D(g, k)]
  <2>1. g = [k \in S |-> g[k]]
      OBVIOUS
  <2>. HIDE DEF g, D
  <2>. QED BY <1>2, <2>1
<1>4. F = [k \in S |-> D(F, k)]
  <2>. HIDE DEF g, D, S
  <2>. QED BY <1>3
<1>5. Field(first, last) = F[last]
    BY DEF Field
<1>. DEFINE Bad == {j \in Nat : b + j \in S /\ F[b + j] # g[b + j]}
<1>6. Bad = {}
  <2>. SUFFICES ASSUME Bad # {} PROVE FALSE
      OBVIOUS
  <2>1. PICK j \in Bad : \A y \in Bad : j <= y
    <3>. HIDE DEF F, g, S
    <3>. QED BY LeastNat
  <2>2. PICK k \in S : k = b + j
      OBVIOUS
  <2>3. F[k] # g[k] /\ j \in Nat
    <3>. HIDE DEF F, g
    <3>. QED BY <2>1, <2>2
  <2>4. F[k] = D(F, k)
    <3>. HIDE DEF F, D, g, S
    <3>. QED BY <1>4
  <2>5. CASE k = first - 1
    <3>1. D(F, k) = 0 /\ D(g, k) = 0
      <4>. HIDE DEF F, g
      <4>. QED BY <2>5
    <3>. HIDE DEF F, D, g, S
    <3>. QED BY <1>2, <2>3, <2>4, <3>1
  <2>6. CASE k # first - 1
    <3>1. j - 1 \in Nat /\ b + (j - 1) = k - 1 /\ k - 1 \in S
        BY <2>2, <2>3, <2>6
    <3>2. j - 1 \notin Bad
      <4>. HIDE DEF Bad
      <4>. QED BY <2>1, <2>3, <3>1
    <3>3. F[k - 1] = g[k - 1]
      <4>. HIDE DEF F, g, S
      <4>. QED BY <3>1, <3>2
    <3>4. D(F, k) = D(g, k)
      <4>. HIDE DEF F, g
      <4>. QED BY <2>6, <3>3
    <3>. HIDE DEF F, D, g, S
    <3>. QED BY <1>2, <2>3, <2>4, <3>4
  <2>. QED BY <2>5, <2>6
<1>7. F[last] = g[last]
  <2>1. PICK j \in Nat : j = last - b
      OBVIOUS
  <2>2. b + j = last /\ last \in S
      BY <2>1
  <2>. HIDE DEF F, g, S
  <2>. QED BY <1>6, <2>2
<1>8. g[last] = x % 2 ^ (last - b)
    OBVIOUS
<1>. HIDE DEF F, g
<1>. QED BY <1>5, <1>7, <1>8

(* The three fields of a word on the bus. *)
LEMMA FieldsOfWord ==
    ASSUME NEW v \in Nat, scan.stream = Bits(v, BusLength)
    PROVE  /\ Field(1, OpBits) = Op(v)
           /\ Field(OpBits + 1, OpBits + DataBits) = Datum(v)
           /\ Field(OpBits + DataBits + 1, BusLength) = Address(v)
<1>1. /\ BusLength \in Nat /\ BusLength = AddrBits + DataBits + 2 /\ OpBits = 2
      /\ AddrBits \in Nat /\ DataBits \in Nat
    BY Widths DEF BusLength, OpBits
<1>2. \A first \in Nat \ {0}, last \in Nat : first - 1 <= last /\ last <= BusLength =>
          Field(first, last) = (v \div 2 ^ (first - 1)) % 2 ^ (last - (first - 1))
    BY <1>1, FieldValue
<1>3. Field(1, OpBits) = Op(v)
  <2>1. PICK first \in Nat \ {0} : first = 1
      OBVIOUS
  <2>2. PICK last \in Nat : last = 2
      OBVIOUS
  <2>3. first - 1 <= last /\ last <= BusLength /\ first - 1 = 0 /\ last - (first - 1) = 2
      BY <1>1, <2>1, <2>2
  <2>4. Field(first, last) = (v \div 2 ^ 0) % 2 ^ 2
      BY <1>2, <2>3
  <2>5. v \div 1 = v
      OBVIOUS
  <2>. QED BY <1>1, <2>1, <2>2, <2>4, <2>5, PowerZero DEF Op
<1>4. Field(OpBits + 1, OpBits + DataBits) = Datum(v)
  <2>1. PICK first \in Nat \ {0} : first = 3
      OBVIOUS
  <2>2. PICK last \in Nat : last = 2 + DataBits
      BY <1>1
  <2>3. first - 1 <= last /\ last <= BusLength /\ first - 1 = 2 /\ last - (first - 1) = DataBits
      BY <1>1, <2>1, <2>2
  <2>4. Field(first, last) = (v \div 2 ^ 2) % 2 ^ DataBits
      BY <1>2, <2>3
  <2>5. OpBits + 1 = first /\ OpBits + DataBits = last
      BY <1>1, <2>1, <2>2
  <2>. QED BY <2>4, <2>5, PowerZero DEF Datum
<1>5. Field(OpBits + DataBits + 1, BusLength) = Address(v)
  <2>1. PICK first \in Nat \ {0} : first = 2 + DataBits + 1
      BY <1>1
  <2>2. PICK last \in Nat : last = BusLength
      BY <1>1
  <2>3. /\ first - 1 <= last /\ last <= BusLength /\ first - 1 = 2 + DataBits
        /\ last - (first - 1) = AddrBits
      BY <1>1, <2>1, <2>2
  <2>4. Field(first, last) = (v \div 2 ^ (2 + DataBits)) % 2 ^ AddrBits
      BY <1>2, <2>3
  <2>5. 2 ^ (2 + DataBits) = 4 * 2 ^ DataBits
    <3>1. 2 ^ (2 + DataBits) = 2 ^ 2 * 2 ^ DataBits
        BY <1>1, PowerSum
    <3>. QED BY <3>1, PowerZero
  <2>6. OpBits + DataBits + 1 = first
      BY <1>1, <2>1
  <2>. QED BY <2>2, <2>4, <2>5, <2>6 DEF Address
<1>. QED BY <1>3, <1>4, <1>5

(* A write of the Debug Module, as WritesAreScanned describes it. *)
ScannedWrite ==
    /\ scan.ir = IR_DBUS
    /\ tap.state \in {"EXIT1_DR", "EXIT2_DR"}
    /\ Field(1, OpBits) = OP_WRITE
    /\ dm' = [dm EXCEPT ![Field(OpBits + DataBits + 1, BusLength)] =
                             Field(OpBits + 1, OpBits + DataBits)]

LEMMA PinsWrite ==
    ASSUME TapInv, NEW tck, NEW tms, NEW tdi, TapPins(tck, tms, tdi), dm' # dm
    PROVE  ScannedWrite
<1>1. PICK c : c = Clocked(tap)
    OBVIOUS
<1>2. Updates(c) /\ dm' = Accessed(dm, c.dr)
    BY <1>1 DEF TapPins, SetPinsDm
<1>3. TapOK(tap) /\ tap.state \in States /\ tap.tms \in {0, 1} /\ tap.dr \in Nat
    BY DEF TapInv, TapOK, Taps
<1>4. /\ c.state = next[tap.state][tap.tms + 1]
      /\ tap.state # "SHIFT_IR" => c.ir = tap.ir
      /\ tap.state # "SHIFT_DR" => c.dr = tap.dr
    BY <1>1, <1>3, ClockedOK
<1>5. c.state = "UPDATE_DR" /\ c.ir = IR_DBUS
    BY <1>2 DEF Updates
<1>6. tap.state \in {"EXIT1_DR", "EXIT2_DR"}
    BY <1>3, <1>4, <1>5, Arrows
<1>7. c.ir = tap.ir /\ c.dr = tap.dr /\ tap.state \in DrStates
    BY <1>4, <1>6 DEF DrStates
<1>8. scan.ir = IR_DBUS /\ scan.stream = Bits(tap.dr, BusLength)
    BY <1>5, <1>7 DEF TapInv, ScanOK
<1>9. Op(tap.dr) = OP_WRITE /\ dm' = [dm EXCEPT ![Address(tap.dr)] = Datum(tap.dr)]
    BY <1>2, <1>7 DEF Accessed
<1>. QED BY <1>3, <1>6, <1>8, <1>9, FieldsOfWord DEF ScannedWrite

(* The Debug Module is written only when a scan of DBUS is updated, with   *)
(* the address and the data shifted in last (jtag_dtm.cc:143-183).         *)
THEOREM ScannedWrites == Spec => WritesAreScanned
<1>1. BInv /\ [Next]_vars => [dm' # dm => ScannedWrite]_tapvars
  <2>. SUFFICES ASSUME BInv, [Next]_vars, dm' # dm PROVE ScannedWrite
      BY DEF tapvars
  <2>1. ExecuteCommand
      BY DEF Next, Server, Client, Accept, Tick, SendAnswers, WriteFails, ReadFails, ReadSome,
             ReadNothing, Connect, Send, Receive, HangUp, vars, tapvars
  <2>2. PICK c : Applied(c)
      BY <2>1 DEF ExecuteCommand
  <2>3. c \in DOMAIN Pins /\ c # "r"
    <3>1. CASE c \notin DOMAIN Pins
        BY <2>2, <3>1 DEF Applied, TapReset, tapvars
    <3>2. CASE c \in DOMAIN Pins
        BY <3>2 DEF Pins
    <3>. QED BY <3>1, <3>2
  <2>4. TapPins(Pins[c][1], Pins[c][2], Pins[c][3])
      BY <2>2, <2>3 DEF Applied
  <2>. QED BY <2>4, PinsWrite DEF BInv
<1>2. [][dm' # dm => ScannedWrite]_tapvars => WritesAreScanned
    BY DEF ScannedWrite, WritesAreScanned
<1>. QED BY <1>1, <1>2, BInvariant, PTL DEF Spec

-----------------------------------------------------------------------------
(* The server implements the port of its client.                           *)

(* The operators of the port in the abstract specification are those of    *)
(* the detailed one.                                                       *)
LEMMA SamePort ==
    /\ Port!TapInit <=> TapInit
    /\ \A c : Port!Applied(c) <=> Applied(c)
<1>1. Port!TapInit <=> TapInit
    BY DEF TapInit, Port!TapInit, Port!Bits, Bits, Port!STATUS_SUCCESS, STATUS_SUCCESS,
           Port!Addresses, Addresses, Port!BusLength, BusLength, Port!OpBits, OpBits
<1>2. ASSUME NEW t PROVE Port!Clocked(t) = Clocked(t)
    BY DEF Port!Clocked, Clocked, Port!Shifted, Shifted, Port!ShiftIn, ShiftIn,
           Port!next, next
<1>3. ASSUME NEW d, NEW w
      PROVE  Port!Accessed(d, w) = Accessed(d, w) /\ Port!Reply(d, w) = Reply(d, w)
    BY DEF Port!Accessed, Accessed, Port!Reply, Reply, Port!Op, Op, Port!Address, Address,
           Port!Datum, Datum, Port!BusWord, BusWord, Port!OP_READ, OP_READ,
           Port!OP_WRITE, OP_WRITE, Port!STATUS_FAILED, STATUS_FAILED,
           Port!STATUS_SUCCESS, STATUS_SUCCESS
<1>4. ASSUME NEW t PROVE Port!Updates(t) = Updates(t) /\ Port!capture_dr(t) = capture_dr(t)
    BY DEF Port!Updates, Updates, Port!capture_dr, capture_dr, Port!BusLength, BusLength,
           Port!OpBits, OpBits
<1>5. ASSUME NEW t, NEW d PROVE Port!Entered(t, d) = Entered(t, d)
    BY <1>3, <1>4 DEF Port!Entered, Entered
<1>6. ASSUME NEW tck, NEW tms, NEW tdi
      PROVE  Port!TapPins(tck, tms, tdi) <=> TapPins(tck, tms, tdi)
  <2>1. Port!PositiveEdge(tap, tck) <=> PositiveEdge(tap, tck)
      BY DEF Port!PositiveEdge, PositiveEdge
  <2>2. Port!SetPins(tap, dm, tck, tms, tdi) = SetPins(tap, dm, tck, tms, tdi)
      BY <1>2, <1>5, <2>1 DEF Port!SetPins, SetPins
  <2>3. Port!SetPinsDm(tap, dm, tck) = SetPinsDm(tap, dm, tck)
      BY <1>2, <1>3, <1>4, <2>1 DEF Port!SetPinsDm, SetPinsDm
  <2>4. \A u : Port!ScanAfter(tap, u) = ScanAfter(tap, u)
      BY DEF Port!ScanAfter, ScanAfter, Port!Bits, Bits
  <2>. QED BY <2>1, <2>2, <2>3, <2>4 DEF Port!TapPins, TapPins
<1>7. Port!Pins = Pins /\ (Port!TapReset <=> TapReset) /\ Port!tapvars = tapvars
    BY DEF Port!Pins, Pins, Port!TapReset, TapReset, Port!ResetTap, ResetTap,
           Port!tapvars, tapvars
<1>8. ASSUME NEW c PROVE Port!Applied(c) <=> Applied(c)
    BY <1>6, <1>7 DEF Port!Applied, Applied, Port!tapvars, tapvars
<1>. QED BY <1>1, <1>8

LEMMA AppendConcat ==
    ASSUME NEW S, NEW s \in Seq(S), NEW t \in Seq(S), NEW e \in S
    PROVE  s \o Append(t, e) = Append(s \o t, e)
<1>1. Append(t, e) = t \o <<e>> /\ <<e>> \in Seq(S)
    BY AppendIsConcat
<1>2. s \o t \in Seq(S)
    BY ConcatProperties
<1>3. Append(s \o t, e) = (s \o t) \o <<e>>
    BY <1>2, AppendIsConcat
<1>4. (s \o t) \o <<e>> = s \o (t \o <<e>>)
    BY <1>1, ConcatAssociative
<1>. QED BY <1>1, <1>3, <1>4

LEMMA HeadTailConcat ==
    ASSUME NEW S, NEW s \in Seq(S), NEW t \in Seq(S), s # <<>>
    PROVE  /\ s \o t # <<>> /\ Head(s \o t) = Head(s) /\ Tail(s \o t) = Tail(s) \o t
           /\ s \o t \in Seq(S)
<1>1. PICK u : u = s \o t
    OBVIOUS
<1>2. Len(s) \in Nat \ {0} /\ Len(t) \in Nat
    BY EmptySeq, LenProperties
<1>3. /\ u \in Seq(S) /\ Len(u) = Len(s) + Len(t)
      /\ \A i \in 1 .. Len(s) + Len(t) : u[i] = IF i <= Len(s) THEN s[i] ELSE t[i - Len(s)]
    BY <1>1, ConcatProperties
<1>4. u # <<>>
    BY <1>2, <1>3, EmptySeq
<1>5. Head(u) = Head(s)
  <2>1. 1 \in 1 .. Len(s) + Len(t) /\ 1 <= Len(s)
      BY <1>2
  <2>2. u[1] = s[1]
      BY <1>3, <2>1
  <2>. QED BY <2>2
<1>6. /\ Tail(s) \in Seq(S) /\ Len(Tail(s)) = Len(s) - 1
      /\ \A i \in 1 .. Len(Tail(s)) : Tail(s)[i] = s[i + 1]
    BY HeadTailProperties
<1>7. /\ Tail(u) \in Seq(S) /\ Len(Tail(u)) = Len(u) - 1
      /\ \A i \in 1 .. Len(Tail(u)) : Tail(u)[i] = u[i + 1]
    BY <1>3, <1>4, HeadTailProperties
<1>8. PICK v : v = Tail(s) \o t
    OBVIOUS
<1>9. /\ v \in Seq(S) /\ Len(v) = Len(Tail(s)) + Len(t)
      /\ \A i \in 1 .. Len(Tail(s)) + Len(t) :
            v[i] = IF i <= Len(Tail(s)) THEN Tail(s)[i] ELSE t[i - Len(Tail(s))]
    BY <1>6, <1>8, ConcatProperties
<1>10. Len(Tail(u)) = Len(v)
    BY <1>2, <1>3, <1>6, <1>7, <1>9
<1>11. ASSUME NEW i \in 1 .. Len(Tail(u)) PROVE Tail(u)[i] = v[i]
  <2>1. /\ i + 1 \in 1 .. Len(s) + Len(t) /\ i \in 1 .. Len(Tail(s)) + Len(t)
        /\ i + 1 <= Len(s) <=> i <= Len(Tail(s))
        /\ (i + 1) - Len(s) = i - Len(Tail(s))
      BY <1>2, <1>3, <1>6, <1>7
  <2>2. Tail(u)[i] = u[i + 1]
      BY <1>7
  <2>3. CASE i <= Len(Tail(s))
    <3>1. i \in 1 .. Len(Tail(s))
        BY <1>2, <1>6, <2>3
    <3>2. u[i + 1] = s[i + 1] /\ v[i] = Tail(s)[i]
        BY <1>3, <1>9, <2>1, <2>3
    <3>. QED BY <1>6, <2>2, <3>1, <3>2
  <2>4. CASE ~(i <= Len(Tail(s)))
      BY <1>3, <1>9, <2>1, <2>2, <2>4
  <2>. QED BY <2>3, <2>4
<1>12. Tail(u) = v
    BY <1>7, <1>9, <1>10, <1>11, SeqEqual
<1>. QED BY <1>1, <1>3, <1>4, <1>5, <1>8, <1>12

(* What is left of s and t when s has been taken. *)
LEMMA FirstTaken ==
    ASSUME NEW S, NEW s \in Seq(S), NEW t \in Seq(S)
    PROVE  SubSeq(s \o t, Len(s) + 1, Len(s \o t)) = t
<1>1. Len(s) \in Nat /\ Len(t) \in Nat /\ Len(s \o t) = Len(s) + Len(t)
    BY LenProperties, ConcatProperties
<1>2. CASE t = <<>>
  <2>1. Len(t) = 0
      BY <1>2, EmptySeq
  <2>2. Len(s) + 1 \in Int /\ Len(s) \in Int /\ Len(s) < Len(s) + 1 /\ Len(s \o t) = Len(s)
      BY <1>1, <2>1
  <2>3. SubSeq(s \o t, Len(s) + 1, Len(s)) = <<>>
      BY <2>2, SubSeqEmpty
  <2>. QED BY <1>2, <2>2, <2>3
<1>3. CASE t # <<>>
  <2>1. Len(t) \in Nat \ {0}
      BY <1>3, EmptySeq
  <2>2. PICK m \in Nat : m = Len(s) + 1
      BY <1>1
  <2>3. PICK n \in Nat : n = Len(s) + Len(t)
      BY <1>1
  <2>4. /\ m \in Len(s) + 1 .. Len(s) + Len(t) /\ n \in Len(s) + 1 .. Len(s) + Len(t)
        /\ m - Len(s) = 1 /\ n - Len(s) = Len(t)
      BY <1>1, <2>1, <2>2, <2>3
  <2>5. SubSeq(s \o t, m, n) = SubSeq(t, m - Len(s), n - Len(s))
      BY <2>4, SubSeqOfConcat2
  <2>6. SubSeq(s \o t, m, n) = SubSeq(t, 1, Len(t))
      BY <2>4, <2>5
  <2>. QED BY <1>1, <2>2, <2>3, <2>6, SubSeqFull
<1>. QED BY <1>2, <1>3

(* What the client has sent and the port has not applied, and what the     *)
(* port has answered and the client has not seen.                          *)
Unapplied == recv_buf \o wire
Unseen == answers \o send_buf

SendStep ==
    (\E c \in Commands : Unapplied' = Append(Unapplied, c)) /\ UNCHANGED <<tapvars, Unseen>>
ApplyStep ==
    /\ Unapplied # <<>> /\ Unapplied' = Tail(Unapplied) /\ Applied(Head(Unapplied))
    /\ Unseen' = IF Head(Unapplied) = "R" THEN Append(Unseen, tap.tdo) ELSE Unseen
TakeStep ==
    /\ \E k \in 1 .. Len(Unseen) : Unseen' = SubSeq(Unseen, k + 1, Len(Unseen))
    /\ UNCHANGED <<tapvars, Unapplied>>

(* The steps of the port, in these terms. *)
LEMMA SamePortStep ==
    /\ UNCHANGED <<tapvars, Unapplied, Unseen>> => UNCHANGED Port!portvars
    /\ SendStep \/ ApplyStep \/ TakeStep => Port!PortNext
<1>1. /\ Port!portvars = <<tapvars, Unapplied, Unseen>> /\ Port!tapvars = tapvars
      /\ Port!portvars' = <<tapvars', Unapplied', Unseen'>> /\ Port!tapvars' = tapvars'
    BY DEF Port!portvars, Port!tapvars, tapvars, Unapplied, Unseen
<1>2. SendStep => Port!PortSend
    BY <1>1 DEF Port!PortSend, Unapplied, Unseen, SendStep
<1>3. ApplyStep => Port!PortApply
    BY SamePort DEF Port!PortApply, Unapplied, Unseen, ApplyStep
<1>4. TakeStep => Port!PortTake
    BY <1>1 DEF Port!PortTake, Unapplied, Unseen, TakeStep
<1>5. UNCHANGED <<tapvars, Unapplied, Unseen>> => UNCHANGED Port!portvars
    BY <1>1
<1>6. Port!PortSend \/ Port!PortApply \/ Port!PortTake => Port!PortNext
    BY DEF Port!PortNext
<1>. QED BY <1>2, <1>3, <1>4, <1>5, <1>6

LEMMA SendMaps == ASSUME BInv, Send PROVE Port!PortNext
<1>1. PICK c \in who.sends : wire' = Append(wire, c)
    BY DEF Send
<1>2. c \in Commands /\ wire \in Seq(Commands) /\ recv_buf \in Seq(Commands)
    BY DEF BInv, ServerTypes, Commands
<1>3. recv_buf \o Append(wire, c) = Append(recv_buf \o wire, c)
    BY <1>2, AppendConcat
<1>4. UNCHANGED <<tapvars, Unseen>> /\ recv_buf' = recv_buf
    BY DEF Send, servervars, Unseen
<1>5. Unapplied' = Append(Unapplied, c)
    BY <1>1, <1>3, <1>4 DEF Unapplied
<1>. QED BY <1>2, <1>4, <1>5, SamePortStep DEF SendStep

(* The client sees its first answer, or loses all it has not seen. *)
LEMMA ReceiveMaps == ASSUME BInv, Receive PROVE Port!PortNext
<1>1. answers \in Seq({0, 1}) /\ send_buf \in Seq({0, 1}) /\ answers # <<>>
    BY DEF BInv, ServerTypes, Receive
<1>2. /\ Unseen # <<>> /\ Unseen \in Seq({0, 1})
      /\ Tail(Unseen) = Tail(answers) \o send_buf
    BY <1>1, HeadTailConcat DEF Unseen
<1>3. Unseen' = Tail(Unseen)
    BY <1>2 DEF Receive, servervars, Unseen
<1>4. Tail(Unseen) = SubSeq(Unseen, 1 + 1, Len(Unseen)) /\ 1 \in 1 .. Len(Unseen)
  <2>1. Tail(Unseen) = SubSeq(Unseen, 2, Len(Unseen))
      BY <1>2, TailIsSubSeq
  <2>2. Len(Unseen) \in Nat \ {0}
      BY <1>2, EmptySeq
  <2>. QED BY <2>1, <2>2
<1>5. UNCHANGED <<tapvars, Unapplied>>
    BY DEF Receive, servervars, Unapplied
<1>. QED BY <1>3, <1>4, <1>5, SamePortStep DEF TakeStep

LEMMA HangUpMaps == ASSUME BInv, HangUp PROVE [Port!PortNext]_(Port!portvars)
<1>1. answers \in Seq({0, 1}) /\ send_buf \in Seq({0, 1})
    BY DEF BInv, ServerTypes
<1>2. UNCHANGED <<tapvars, Unapplied>> /\ send_buf' = send_buf /\ answers' = <<>>
    BY DEF HangUp, servervars, Unapplied
<1>3. Unseen' = send_buf
    BY <1>1, <1>2, ConcatEmptySeq DEF Unseen
<1>4. CASE answers = <<>>
  <2>1. Unseen = send_buf
      BY <1>1, <1>4, ConcatEmptySeq DEF Unseen
  <2>. QED BY <1>2, <1>3, <2>1, SamePortStep
<1>5. CASE answers # <<>>
  <2>1. Unseen' = SubSeq(Unseen, Len(answers) + 1, Len(Unseen))
      BY <1>1, <1>3, FirstTaken DEF Unseen
  <2>2. Len(answers) \in 1 .. Len(Unseen)
    <3>1. Len(answers) \in Nat \ {0} /\ Len(send_buf) \in Nat
        BY <1>1, <1>5, EmptySeq, LenProperties
    <3>2. Len(Unseen) = Len(answers) + Len(send_buf)
        BY <1>1, ConcatProperties DEF Unseen
    <3>. QED BY <3>1, <3>2
  <2>. QED BY <1>2, <2>1, <2>2, SamePortStep DEF TakeStep
<1>. QED BY <1>4, <1>5

LEMMA ExecuteMaps == ASSUME BInv, ExecuteCommand PROVE Port!PortNext
<1>1. PICK c : c = Head(recv_buf)
    OBVIOUS
<1>2. /\ Applied(c) /\ recv_buf' = Tail(recv_buf) /\ UNCHANGED <<wire, answers>>
      /\ send_buf' = IF c = "R" THEN Append(send_buf, tap.tdo) ELSE send_buf
    BY <1>1 DEF ExecuteCommand, clientvars
<1>3. recv_buf \in Seq(Commands) /\ recv_buf # <<>> /\ wire \in Seq(Commands)
    BY DEF BInv, ServerTypes, ServerRelations, ExecuteCommand
<1>4. /\ Unapplied # <<>> /\ Head(Unapplied) = c
      /\ Tail(Unapplied) = Tail(recv_buf) \o wire
    BY <1>1, <1>3, HeadTailConcat DEF Unapplied
<1>5. Unapplied' = Tail(Unapplied)
    BY <1>2, <1>4 DEF Unapplied
<1>6. Unseen' = IF c = "R" THEN Append(Unseen, tap.tdo) ELSE Unseen
  <2>1. answers \in Seq({0, 1}) /\ send_buf \in Seq({0, 1}) /\ tap.tdo \in {0, 1}
      BY DEF BInv, ServerTypes, TapInv, TapOK, Taps
  <2>2. answers \o Append(send_buf, tap.tdo) = Append(answers \o send_buf, tap.tdo)
      BY <2>1, AppendConcat
  <2>. QED BY <1>2, <2>2 DEF Unseen
<1>. QED BY <1>2, <1>4, <1>5, <1>6, SamePortStep DEF ApplyStep

LEMMA AnswersMap == ASSUME BInv, SendAnswers PROVE [Port!PortNext]_(Port!portvars)
<1>1. answers \in Seq({0, 1}) /\ send_buf \in Seq({0, 1}) /\ <<>> \in Seq({0, 1})
    BY DEF BInv, ServerTypes
<1>2. UNCHANGED <<tapvars, Unapplied>> /\ send_buf' = <<>>
    BY DEF SendAnswers, Unapplied
<1>3. Unseen \in Seq({0, 1})
    BY <1>1, ConcatProperties DEF Unseen
<1>4. CASE client # "gone"
  <2>1. answers' = Unseen
      BY <1>4 DEF SendAnswers, Unseen
  <2>2. Unseen' = Unseen \o <<>>
      BY <1>2, <2>1 DEF Unseen
  <2>3. Unseen' = Unseen
      BY <1>3, <2>2, ConcatEmptySeq
  <2>. QED BY <1>2, <2>3, SamePortStep
<1>5. CASE client = "gone"
  <2>1. Unseen' = <<>>
      BY <1>1, <1>2, <1>5, ConcatEmptySeq DEF SendAnswers, Unseen
  <2>2. CASE Unseen = <<>>
      BY <1>2, <2>1, <2>2, SamePortStep
  <2>3. CASE Unseen # <<>>
    <3>1. Len(Unseen) \in Nat \ {0}
        BY <1>3, <2>3, EmptySeq
    <3>2. SubSeq(Unseen, Len(Unseen) + 1, Len(Unseen)) = <<>>
        BY <3>1, SubSeqEmpty
    <3>. QED BY <1>2, <2>1, <3>1, <3>2, SamePortStep DEF TakeStep
  <2>. QED BY <2>2, <2>3
<1>. QED BY <1>4, <1>5

LEMMA ReadMaps == ASSUME BInv, ReadSome PROVE UNCHANGED Port!portvars
<1>1. recv_buf = <<>> /\ wire \in Seq(Commands)
    BY DEF BInv, ServerTypes, ServerRelations, ReadSome
<1>2. Unapplied = wire
    BY <1>1, ConcatEmptySeq DEF Unapplied
<1>3. Unapplied' = wire
    BY ReadParts DEF Unapplied
<1>4. UNCHANGED <<tapvars, Unseen>>
    BY DEF ReadSome, Unseen
<1>. QED BY <1>2, <1>3, <1>4, SamePortStep

LEMMA InitMaps == Init => Port!PortInit
<1>. SUFFICES ASSUME Init PROVE Port!PortInit
    OBVIOUS
<1>1. recv_buf \o wire = <<>> /\ answers \o send_buf = <<>>
    BY DEF Init
<1>. QED BY <1>1, SamePort DEF Init, Port!PortInit

LEMMA StepMaps == ASSUME BInv, [Next]_vars PROVE [Port!PortNext]_(Port!portvars)
<1>1. CASE UNCHANGED vars \/ Connect \/ Accept \/ Tick \/ WriteFails \/ ReadFails \/ ReadNothing
  <2>1. UNCHANGED <<tapvars, Unapplied, Unseen>>
      BY <1>1 DEF vars, Connect, Accept, Tick, WriteFails, ReadFails, ReadNothing, tapvars,
                  clientvars, servervars, Unapplied, Unseen
  <2>. QED BY <2>1, SamePortStep
<1>2. CASE Send \/ Receive \/ HangUp
    BY <1>2, SendMaps, ReceiveMaps, HangUpMaps
<1>3. CASE ExecuteCommand \/ SendAnswers \/ ReadSome
    BY <1>3, ExecuteMaps, AnswersMap, ReadMaps
<1>. QED BY <1>1, <1>2, <1>3 DEF Next, Server, Client

(* However the stream is cut into reads and ticks, the commands are        *)
(* applied in order and each once, and the answers are the values of tdo   *)
(* at their place in it (remote_bitbang.cc:101-180).                       *)
THEOREM ServerImplementsPort == Spec => ImplementsBitPort
<1>1. Init => Port!PortInit
    BY InitMaps
<1>2. BInv /\ [Next]_vars => [Port!PortNext]_(Port!portvars)
    BY StepMaps
<1>. QED BY <1>1, <1>2, BInvariant, PTL DEF Spec, ImplementsBitPort, Port!PortSpec

=============================================================================
