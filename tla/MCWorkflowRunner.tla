-------------------------- MODULE MCWorkflowRunner --------------------------
(* The instance of WorkflowRunner that TLC checks: a step declared before   *)
(* the one it needs and one whose condition is false; a circle.             *)
EXTENDS WorkflowRunner

Three == {"a", "b", "c"}

Circle == [steps |-> <<"a", "b">>, needs |-> [s \in {"a", "b"} |-> {"a", "b"} \ {s}],
           asks |-> {}, off |-> {}]

Late == [steps |-> <<"a", "b", "c">>, needs |-> [s \in Three |-> IF s = "a" THEN {"b"} ELSE {}],
         asks |-> {"b"}, off |-> {"c"}]

TwoWorkflows == {Circle, Late}

-----------------------------------------------------------------------------
(* What a set of steps needs to be free of circles: no part of it in which  *)
(* every step needs another one of that part.                               *)
Orderable(needs) == \A part \in SUBSET Three \ {{}} : \E s \in part : needs[s] \cap part = {}

(* Of all the ways three steps can need one another: the order holds every  *)
(* step once, each after what it needs, exactly when there is no circle     *)
(* (runner.rs:59).                                                          *)
ASSUME SortedIsTopological ==
    \A needs \in [Three -> SUBSET Three] :
        LET order == Sorted([steps |-> <<"a", "b", "c">>, needs |-> needs])
            before(n) == {order[k] : k \in 1 .. n - 1}
        IN  /\ IsInjective(order)
            /\ \A n \in DOMAIN order : needs[order[n]] \subseteq before(n)
            /\ (Len(order) = 3) <=> Orderable(needs)
=============================================================================
