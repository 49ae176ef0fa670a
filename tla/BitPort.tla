------------------------------- MODULE BitPort ------------------------------
(***************************************************************************)
(* What remote_bitbang_t promises its client: the commands the client      *)
(* sends are applied to the test access port one at a time, each once and  *)
(* in the order sent, and every request to read tdo is answered, in order, *)
(* with the value tdo has at that point of the stream.  How the stream is  *)
(* cut into reads and how much one tick executes does not show.            *)
(***************************************************************************)
EXTENDS JtagDtm

CONSTANTS Commands    \* what the client sends

VARIABLES
    pending,    \* commands sent and not applied
    answers     \* values read and not seen by the client
portvars == <<tapvars, pending, answers>>

PortInit == TapInit /\ pending = <<>> /\ answers = <<>>

PortSend ==
    /\ \E c \in Commands : pending' = Append(pending, c)
    /\ UNCHANGED <<tapvars, answers>>

PortApply ==
    /\ pending # <<>>
    /\ pending' = Tail(pending)
    /\ Applied(Head(pending))
    /\ answers' = IF Head(pending) = "R" THEN Append(answers, tap.tdo) ELSE answers

(* The client sees the oldest answers, or hangs up and loses them.         *)
PortTake ==
    /\ \E k \in 1 .. Len(answers) : answers' = SubSeq(answers, k + 1, Len(answers))
    /\ UNCHANGED <<tapvars, pending>>

PortNext == PortSend \/ PortApply \/ PortTake
PortSpec == PortInit /\ [][PortNext]_portvars
=============================================================================
