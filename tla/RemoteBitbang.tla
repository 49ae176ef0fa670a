---------------------------- MODULE RemoteBitbang ---------------------------
(***************************************************************************)
(* remote_bitbang_t: the server that clocks the test access port from a    *)
(* byte stream, composed with the port (JtagDtm) and with a client that    *)
(* sends any commands, in pieces of any size, and may hang up and come     *)
(* back.  sim_t::main calls tick between the quanta of the harts.          *)
(*                                                                         *)
(* execute_commands is cut at its system calls and at each command: phase  *)
(* says where it is.  Its static send_buf holds the answers of one pass.   *)
(* Pieces of the answers are always written whole (see README).            *)
(*                                                                         *)
(* An operator X_Fault next to X is X with the bug it names; no            *)
(* specification uses it.                                                  *)
(***************************************************************************)
EXTENDS JtagDtm

CONSTANTS
    Clients,    \* each: the bytes it sends, how many may be on their way and
                \* how many answers outstanding (two bounds), whether it may hang up
    BufSize     \* buf_size, 64 K in the code

ASSUME BufAssumption == BufSize \in Nat \ {0}
ASSUME ClientsAssumption ==
    \A c \in Clients : c \in [sends : SUBSET STRING, ahead : Nat, asks : Nat, hangs_up : BOOLEAN]

Commands == UNION {c.sends : c \in Clients}

VARIABLES
    who,         \* the client; never changes
    client,      \* "none", "connecting", "open" (accepted), "gone" (it hung up)
    wire,        \* sent and not read
    answers,     \* written and not seen by the client
    asked,       \* how many R the client has sent and not got the answer of
    recv_buf,    \* the part from recv_start to recv_end
    send_buf,
    tick,        \* the locals of execute_commands, and a history: visited, this
                 \* tick has brought the port into Run-Test/Idle
    phase        \* "idle", "exec", "send", "read"; "dead" after abort()

clientvars == <<who, client, wire, answers, asked>>
servervars == <<recv_buf, send_buf, tick, phase>>
vars == <<tapvars, clientvars, servervars>>

InRti(t) == t.state = "RUN_TEST_IDLE"
NoTick == [total_processed |-> 0, quit |-> FALSE, in_rti |-> FALSE,
           entered_rti |-> FALSE, visited |-> FALSE]

Init ==
    /\ TapInit
    /\ who \in Clients /\ client = "none"
    /\ wire = <<>> /\ answers = <<>> /\ asked = 0
    /\ recv_buf = <<>> /\ send_buf = <<>>
    /\ tick = NoTick /\ phase = "idle"

-----------------------------------------------------------------------------
(* The client and the network.                                             *)

Connect ==
    /\ client = "none" /\ client' = "connecting"
    /\ UNCHANGED <<tapvars, servervars, who, wire, answers, asked>>

Send ==
    /\ client \in {"connecting", "open"}
    /\ Len(recv_buf \o wire) < who.ahead
    /\ \E c \in who.sends :
        /\ c = "R" => asked < who.asks
        /\ wire' = Append(wire, c)
        /\ asked' = IF c = "R" THEN asked + 1 ELSE asked
    /\ UNCHANGED <<tapvars, servervars, who, client, answers>>

Receive ==
    /\ answers # <<>>
    /\ answers' = Tail(answers) /\ asked' = asked - 1
    /\ UNCHANGED <<tapvars, servervars, who, client, wire>>

HangUp ==
    /\ who.hangs_up /\ client = "open" /\ client' = "gone"
    /\ answers' = <<>> /\ asked' = 0
    /\ UNCHANGED <<tapvars, servervars, who, wire>>

-----------------------------------------------------------------------------
(* The server.                                                             *)

(* tick without a client: accept finds one or EAGAIN.                      *)
Accept ==
    /\ phase = "idle" /\ client = "connecting" /\ client' = "open"
    /\ UNCHANGED <<tapvars, servervars, who, wire, answers, asked>>

(* A tick reads first, whatever is left in recv_buf.                       *)
Tick_ReadsFirst ==
    /\ phase = "idle" /\ client \in {"open", "gone"}
    /\ tick' = [NoTick EXCEPT !.in_rti = InRti(tap)]
    /\ phase' = "read"
    /\ UNCHANGED <<tapvars, clientvars, recv_buf, send_buf>>

Tick ==
    /\ phase = "idle" /\ client \in {"open", "gone"}
    /\ tick' = [NoTick EXCEPT !.in_rti = InRti(tap)]
    /\ phase' = IF recv_buf # <<>> THEN "exec" ELSE "read"
    /\ UNCHANGED <<tapvars, clientvars, recv_buf, send_buf>>

(* Counted as far as the comparison needs.                                 *)
Counted(n) == IF n > BufSize THEN n ELSE n + 1

EntersRti == ~tick.in_rti /\ InRti(tap')

(* One pass of the inner loop.                                             *)
ExecuteCommand ==
    /\ phase = "exec"
    /\ LET c == Head(recv_buf) IN
        /\ Applied(c)
        /\ send_buf' = IF c = "R" THEN Append(send_buf, tap.tdo) ELSE send_buf
        /\ tick' = [total_processed |-> Counted(tick.total_processed),
                    quit |-> tick.quit \/ c = "Q",
                    in_rti |-> FALSE, entered_rti |-> EntersRti,
                    visited |-> tick.visited \/ (~InRti(tap) /\ InRti(tap'))]
    /\ recv_buf' = Tail(recv_buf)
    /\ phase' = IF EntersRti \/ recv_buf' = <<>> THEN "send" ELSE "exec"
    /\ UNCHANGED clientvars

(* There is no limit on what one tick executes.                            *)
Stops_Unlimited == tick.quit \/ tick.entered_rti

Stops == tick.total_processed > BufSize \/ tick.quit \/ tick.entered_rti

Returns == phase' = "idle" /\ tick' = NoTick

(* The tick returns before it has written the answers.                     *)
SendAnswers_StopsFirst ==
    /\ phase = "send"
    /\ answers' = IF client = "gone" \/ Stops THEN answers ELSE answers \o send_buf
    /\ send_buf' = <<>>
    /\ IF Stops THEN Returns ELSE phase' = "read" /\ UNCHANGED tick
    /\ UNCHANGED <<tapvars, who, client, wire, asked, recv_buf>>

(* What a client did not take is kept.                                     *)
SendAnswers_Keeps ==
    /\ phase = "send"
    /\ answers' = IF client = "gone" THEN <<>> ELSE answers \o send_buf
    /\ send_buf' = IF client = "gone" THEN send_buf ELSE <<>>
    /\ IF Stops THEN Returns ELSE phase' = "read" /\ UNCHANGED tick
    /\ UNCHANGED <<tapvars, who, client, wire, asked, recv_buf>>

(* The answers are written, all at once.                                   *)
SendAnswers ==
    /\ phase = "send"
    /\ answers' = IF client = "gone" THEN <<>> ELSE answers \o send_buf
    /\ send_buf' = <<>>
    /\ IF Stops THEN Returns ELSE phase' = "read" /\ UNCHANGED tick
    /\ UNCHANGED <<tapvars, who, client, wire, asked, recv_buf>>

(* A write to a client that hung up may fail: abort().                     *)
WriteFails ==
    /\ phase = "send" /\ client = "gone" /\ send_buf # <<>>
    /\ phase' = "dead"
    /\ UNCHANGED <<tapvars, clientvars, recv_buf, send_buf, tick>>

ReadSome ==
    /\ phase = "read" /\ wire # <<>>
    /\ \E k \in 1 .. Len(wire) :
        /\ k <= BufSize
        /\ recv_buf' = SubSeq(wire, 1, k)
        /\ wire' = SubSeq(wire, k + 1, Len(wire))
    /\ phase' = "exec"
    /\ UNCHANGED <<tapvars, who, client, answers, asked, send_buf, tick>>

(* EAGAIN, or the end of the stream: the connection is closed.             *)
ReadNothing ==
    /\ phase = "read" /\ wire = <<>>
    /\ client' = IF client = "gone" THEN "none" ELSE client
    /\ Returns
    /\ UNCHANGED <<tapvars, who, wire, answers, asked, recv_buf, send_buf>>

(* A read from it may fail with another error than EAGAIN: abort().        *)
ReadFails ==
    /\ phase = "read" /\ client = "gone"
    /\ phase' = "dead"
    /\ UNCHANGED <<tapvars, clientvars, recv_buf, send_buf, tick>>

Server == Accept \/ Tick \/ ExecuteCommand \/ SendAnswers \/ WriteFails
            \/ ReadSome \/ ReadNothing \/ ReadFails
Client == Connect \/ Send \/ Receive \/ HangUp

Next == Server \/ Client

Spec == Init /\ [][Next]_vars

(* The host thread goes on: sim_t::main calls tick for ever, and a tick    *)
(* that has begun runs.  The client need do nothing but take its answers.  *)
FairSpec == Spec /\ WF_vars(Server) /\ WF_vars(Receive)

-----------------------------------------------------------------------------
(* Properties.                                                             *)

(* The stream is applied to the port in order and each command once,       *)
(* however it is cut into reads and ticks, and the answers are the values  *)
(* of tdo at their place in it (remote_bitbang.cc:101-180).                *)
Port == INSTANCE BitPort WITH pending <- recv_buf \o wire,
                              answers <- answers \o send_buf
ImplementsBitPort == Port!PortSpec

(* A tick ends, whatever the client goes on sending: the main simulation   *)
(* is not starved (remote_bitbang.cc:151-154).                             *)
TickReturns == (phase # "idle") ~> (phase \in {"idle", "dead"})

(* A client that waits for values of tdo has one to take sooner or later,  *)
(* as long as it waits, unless it hangs up: a tick that is cut off at      *)
(* Run-Test/Idle leaves the rest of the buffer to a later one.             *)
AnswerArrives == asked > 0 ~> (answers # <<>> \/ asked = 0 \/ phase = "dead")

(* The bytes of one connection are not taken for those of the next.        *)
BuffersBelongToClient ==
    client = "none" => recv_buf \o wire = <<>> /\ send_buf = <<>>

=============================================================================
