------------------------------- MODULE MCMmu --------------------------------
(***************************************************************************)
(* Pages of two halfwords, a table of two levels with two entries a page.  *)
(* Virtual page 0 is data, page 1 code, and an instruction at the end of   *)
(* page 0 crosses into page 1; page 5 is not canonical, and a device when  *)
(* nothing is translated.  Pages 2 and 3 of memory hold the tables.        *)
(***************************************************************************)
EXTENDS Mmu, TLC

MCCode == [a \in 0 .. 15 |-> IF a = 1 THEN 3 ELSE 1]

Leaf(ppn, perms) == [kind |-> "leaf", perms |-> perms, ppn |-> ppn]
Next3   == [kind |-> "table", perms |-> {}, ppn |-> 3]
Invalid == [kind |-> "invalid", perms |-> {}, ppn |-> 0]

Paged(p0, p1) == (2 :> [k \in 0 .. 1 |-> IF k = 0 THEN Next3 ELSE Invalid])
                 @@ (3 :> [k \in 0 .. 1 |-> IF k = 0 THEN p0 ELSE p1])
Super(p) == (2 :> [k \in 0 .. 1 |-> IF k = 0 THEN p ELSE Invalid])
            @@ (3 :> [k \in 0 .. 1 |-> Invalid])

MCTables ==
    {Paged(Leaf(1, {"R", "W", "X", "A", "D"}), Leaf(0, {"U", "R", "X", "A"})),
     Super(Leaf(0, {"U", "R", "W", "X", "A", "D"}))}
MCPtes == {Leaf(0, {"X", "A"}), Leaf(1, {"U", "R", "W", "A"})}

Control(on, timing, modes) ==
    [Disabled EXCEPT !.on = on, !.timing = timing, !.modes = modes]
MCControls == {Disabled, Control({"LOAD", "STORE"}, "after", {"M", "S"}),
               [Control({"FETCH"}, "after", {"S", "U"}) EXCEPT !.dmode = TRUE]}

MCWorkloads == {{"status"}, {"tables", "reserve"}, {"tables", "reset"}, {"triggers", "reset"}}
=============================================================================
