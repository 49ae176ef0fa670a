----------------------------- MODULE MCHartStep -----------------------------
(* Programs for the runs of HartStep. *)
EXTENDS HartStep

MCAddrs == {"a0", "a1", "mtrap", "mtrap2", "strap"}

(* A loop of two instructions and the two trap handlers.                   *)
Loop(p, i0, i1, m, delegated, t0, t1, action) ==
    [insn |-> [a \in MCAddrs |->
        CASE a = "a0" -> i0 [] a = "a1" -> i1 [] a = "mtrap" -> m
          [] a = "mtrap2" -> "mret" [] OTHER -> "sret"],
     succ |-> [a \in MCAddrs |->
        CASE a = "a0" -> "a1" [] a = "a1" -> "a0" [] a = "mtrap" -> "mtrap2"
          [] OTHER -> a],
     start |-> "a0", prv |-> p, mtvec |-> "mtrap", stvec |-> "strap",
     delegated |-> delegated,
     trigger |-> [a \in MCAddrs |->
        CASE a = "a0" -> t0 [] a = "a1" -> t1 [] OTHER -> "none"],
     action |-> action]

(* A trigger with action exception on the machine's trap handler.          *)
TriggeredHandler ==
    [Loop("M", "plain", "illegal", "plain", {}, "none", "none", "exception")
        EXCEPT !.trigger["mtrap"] = "before"]

MCPrograms ==
    {Loop("S", "plain", "csr", "csr", {"soft"}, "none", "none", "debug"),
     Loop("M", "ipi", "wfi", "plain", {"illegal"}, "none", "none", "debug"),
     Loop("U", "mcsr", "wfi", "mcsr", {"illegal", "timer"}, "none", "none", "debug"),
     Loop("U", "ebreak", "ipi", "plain", {"breakpoint"}, "none", "none", "debug"),
     Loop("M", "csr", "ipi", "plain", {}, "before", "after", "debug"),
     Loop("S", "plain", "csr", "plain", {"breakpoint"}, "after", "before", "exception"),
     TriggeredHandler}

(* Single steps and ebreaks that enter debug mode, one without the other   *)
(* and together.                                                           *)
MCDcsrWrites ==
    {[step |-> FALSE, ebreak |-> {"U", "M"}, halt |-> FALSE],
     [step |-> TRUE,  ebreak |-> {},         halt |-> FALSE],
     [step |-> TRUE,  ebreak |-> {"U", "M"}, halt |-> FALSE]}
StepAndEbreak == {[step |-> TRUE, ebreak |-> Prv, halt |-> FALSE]}

EbreakProgram == {Loop("U", "ebreak", "plain", "plain", {}, "none", "none", "debug")}
=============================================================================
