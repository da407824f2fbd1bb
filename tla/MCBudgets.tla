----------------------------- MODULE MCBudgets -----------------------------
(* Small instances of Budgets. *)
EXTENDS Budgets

Ram(x) == [r \in Resources |-> x]

OneNeed == {Ram(1)}
LowAndHigh == {Ram(0), Ram(2)}

Tight == [budget |-> Ram(1), running |-> 1, depth |-> 1, lazy |-> 1]
Loose == [budget |-> Ram(2), running |-> 0, depth |-> 2, lazy |-> 0]
TwoLimits == {Tight, Loose}

TwiceAndOnce == [j \in Jobs |-> IF j = "j1" THEN 2 ELSE 1]

Sizes == [a \in Assets |-> IF a \in {"s1", "s2"} THEN 1 ELSE 2]
=============================================================================
