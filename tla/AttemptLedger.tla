---------------------------- MODULE AttemptLedger ----------------------------
(***************************************************************************)
(* What results/platform_arm/harness/reliability.py promises about the     *)
(* attempts it has recorded, whatever number of invocations, budgets and   *)
(* kills it took to record them: the attempts of a task are numbered from  *)
(* 1 without gaps, only the last one may have passed, a solved task is     *)
(* never tried again, and a recorded attempt is never changed or dropped.  *)
(***************************************************************************)
EXTENDS Integers, Sequences

CONSTANTS Tasks,       \* number of tasks; task t is the t-th of the dataset
          MaxBudget    \* the largest --max-attempts an invocation is given

VARIABLE ledger        \* ledger[t]: the attempts on record for task t

Nothing == [attempts |-> <<>>, passed_at |-> 0]

(* A record after n more attempts, the last of which passes iff ok. *)
Extended(rec, n, ok) ==
    LET k == Len(rec.attempts) IN
    [attempts  |-> rec.attempts \o
                   [i \in 1..n |-> [attempt |-> k + i, passed |-> ok /\ i = n]],
     passed_at |-> IF ok THEN k + n ELSE 0]

Init == ledger = [t \in 1..Tasks |-> Nothing]

Record(t) ==
    /\ ledger[t].passed_at = 0
    /\ \E n \in 1..MaxBudget - Len(ledger[t].attempts), ok \in BOOLEAN :
          ledger' = [ledger EXCEPT ![t] = Extended(@, n, ok)]

Next == \E t \in 1..Tasks : Record(t)

Spec == Init /\ [][Next]_ledger
==============================================================================
