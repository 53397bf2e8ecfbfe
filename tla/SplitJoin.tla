----------------------------- MODULE SplitJoin -----------------------------
(***************************************************************************)
(* What exp3.2_sched_overlap/sched_toy.cpp wants of every way to run a     *)
(* pair of splits: the join of iteration k adds the expert output and the  *)
(* attention output of iteration k, in order, as the serial run does.      *)
(***************************************************************************)
EXTENDS Naturals

CONSTANT Iters      \* number of iterations

VARIABLE result     \* which iterations' outputs the last join added

Init == result = [expert |-> 0, attention |-> 0]

Join ==
    LET k == result.expert + 1 IN
    k <= Iters /\ result' = [expert |-> k, attention |-> k]

Spec == Init /\ [][Join]_result
==============================================================================
