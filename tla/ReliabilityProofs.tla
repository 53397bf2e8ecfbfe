-------------------------- MODULE ReliabilityProofs --------------------------
(***************************************************************************)
(* Proofs about Reliability, for every number of tasks, budget, limit,     *)
(* pool size and number of invocations.                                    *)
(***************************************************************************)
EXTENDS Reliability, SequenceTheorems, FiniteSetTheorems, TLAPS

(* What a task in the pool may still be given: the loop of run_task makes  *)
(* attempt k only while k <= --max-attempts and none has passed.           *)
PoolUnsettled ==
    pc = "run" =>
        /\ args \in [max : Budgets, limit : Limits, pool : Pools]
        /\ \A t \in Task : work[t] \in {"queued", "running"} => ~IsSettled(mem[t], args.max)

TypeInv == TypeOK /\ PoolUnsettled

(* The empty record is a record. *)
LEMMA NothingIsARecord == Nothing \in Records
  BY BudgetsAssumption DEF Nothing, Records, AttemptLog

\* A file with no open line, and one with a torn line, are values of the file's tail.
LEMMA TailTypes == Closed \in Tails /\ Garbage \in Tails
  BY NothingIsARecord, TasksAssumption DEF Closed, Garbage, Tails

(* load_existing yields a record for every task. *)
LEMMA ExistingType ==
    ASSUME TypeOK PROVE Existing \in [Task -> Records]
  BY DEF TypeOK, Tails, Existing

(* A task the pool may try again has not passed and has attempts left. *)
LEMMA UnsettledLen ==
    ASSUME NEW rec \in Records, NEW max \in Budgets, ~IsSettled(rec, max)
    PROVE  /\ rec.passed_at = 0
           /\ Len(rec.attempts) \in Nat
           /\ NextAttempt(rec) \in 1..MaxBudget
  BY BudgetsAssumption DEF Records, AttemptLog, IsSettled, NextAttempt

(* One more attempt below the budget makes a record of the same type.      *)
LEMMA WithAttemptType ==
    ASSUME NEW rec \in Records, NEW max \in Budgets, NEW ok \in BOOLEAN,
           ~IsSettled(rec, max)
    PROVE  /\ WithAttempt(rec, ok) \in Records
           /\ ok => WithAttempt(rec, ok).passed_at # 0
           /\ ~ok => WithAttempt(rec, ok).passed_at = 0
           /\ Len(WithAttempt(rec, ok).attempts) = NextAttempt(rec)
  <1>1. /\ rec.attempts \in AttemptLog
        /\ NextAttempt(rec) \in 1..MaxBudget
    BY UnsettledLen DEF Records
  <1>2. [attempt |-> NextAttempt(rec), passed |-> ok] \in [attempt : 1..MaxBudget, passed : BOOLEAN]
    BY <1>1
  <1>3. /\ Append(rec.attempts, [attempt |-> NextAttempt(rec), passed |-> ok]) \in AttemptLog
        /\ Len(Append(rec.attempts, [attempt |-> NextAttempt(rec), passed |-> ok])) = NextAttempt(rec)
    BY <1>1, <1>2 DEF AttemptLog, NextAttempt
  <1> QED
    BY <1>1, <1>3, BudgetsAssumption DEF WithAttempt, Records

(* The step that preserves the type invariant, one case per action. *)
LEMMA TypeStep == TypeInv /\ [Next]_vars => TypeInv'
  <1> SUFFICES ASSUME TypeInv, [Next]_vars PROVE TypeInv'
    OBVIOUS
  <1> USE DEF TypeInv
  <1>k. ASSUME Dies, disk' \in [Task -> Records],
               tail' \in Tails,
               summary' \in [args : Arguments, results : [Task -> Records]]
        PROVE  TypeInv'
    BY <1>k, NothingIsARecord DEF Dies, TypeOK, PoolUnsettled, Arguments
  <1>1. ASSUME NEW max \in Budgets, NEW limit \in Limits, NEW pool \in Pools,
               Launch(max, limit, pool)
        PROVE  TypeInv'
    BY <1>1, ExistingType DEF Launch, LaunchOf, TypeOK, PoolUnsettled, Arguments
  <1>2. ASSUME NEW t \in Task, StartTask(t) PROVE TypeInv'
    BY <1>2 DEF StartTask, TypeOK, PoolUnsettled
  <1>3. ASSUME NEW t \in Task, NEW ok \in BOOLEAN, Attempt(t, ok) PROVE TypeInv'
    <2>1. /\ mem[t] \in Records /\ args.max \in Budgets /\ ~IsSettled(mem[t], args.max)
      BY <1>3 DEF Attempt, TypeOK, PoolUnsettled
    <2> DEFINE rec == WithAttempt(mem[t], ok)
    <2>2. /\ rec \in Records
          /\ ~ok => rec.passed_at = 0
          /\ Len(rec.attempts) = NextAttempt(mem[t])
      BY <2>1, WithAttemptType
    <2>3. mem' = [mem EXCEPT ![t] = rec]
      BY <1>3 DEF Attempt
    <2>4. TypeOK'
      <3> HIDE DEF rec
      <3> QED BY <1>3, <2>2, <2>3 DEF Attempt, TypeOK
    <2>5. NextAttempt(mem[t]) \in Nat
      BY <2>1 DEF NextAttempt, Records, AttemptLog
    <2>6. PoolUnsettled'
      <3> HIDE DEF rec
      <3> QED BY <1>3, <2>2, <2>3, <2>5, BudgetsAssumption
              DEF Attempt, TypeOK, PoolUnsettled, IsSettled
    <2> QED BY <2>4, <2>6
  <1>4. ASSUME NEW t \in Task, WriteLine(t) PROVE TypeInv'
    <2>1. /\ mem[t] \in Records
          /\ disk' \in [Task -> Records]
      BY <1>4 DEF WriteLine, DiskWith, TypeOK
    <2>2. tail' \in Tails
      BY <1>4, TailTypes DEF WriteLine
    <2> QED BY <1>4, <2>1, <2>2 DEF WriteLine, TypeOK, PoolUnsettled
  <1>5. CASE Truncate
    <2>1. disk' \in [Task -> Records]
      BY <1>5, NothingIsARecord DEF Truncate
    <2>2. tail' \in Tails
      BY <1>5, TailTypes DEF Truncate
    <2> QED BY <1>5, <2>1, <2>2 DEF Truncate, TypeOK, PoolUnsettled
  <1>6. CASE Rewrite
    BY <1>6 DEF Rewrite, TypeOK, PoolUnsettled
  <1>7. CASE Summarise
    BY <1>7 DEF Summarise, TypeOK, PoolUnsettled
  <1>8. CASE KillBetweenWrites
    BY <1>8, <1>k DEF KillBetweenWrites, TypeOK
  <1>9. ASSUME NEW t \in Task, NEW parses \in BOOLEAN, KillInWrite(t, parses) PROVE TypeInv'
    <2>1. tail' \in Tails
      <3>1. mem[t] \in Records /\ t \in 0..Tasks
        BY TasksAssumption DEF TypeOK, Task
      <3>2. [open |-> TRUE, task |-> t, rec |-> mem[t]] \in Tails
        BY <3>1 DEF Tails
      <3>3. tail' = [open |-> TRUE, task |-> t, rec |-> mem[t]] \/ tail' = Garbage
        BY <1>9 DEF KillInWrite
      <3> QED BY <3>2, <3>3, TailTypes
    <2> QED BY <1>9, <1>k, <2>1 DEF KillInWrite, TypeOK
  <1>10. ASSUME NEW n \in 0..Tasks, KillInRewrite(n) PROVE TypeInv'
    <2>1. tail' \in Tails
      <3>1. tail' = Closed \/ tail' = Garbage
        BY <1>10 DEF KillInRewrite
      <3> QED BY <3>1, TailTypes
    <2>2. disk' \in [Task -> Records]
      BY <1>10, NothingIsARecord DEF KillInRewrite, TypeOK
    <2> QED BY <1>10, <1>k, <2>1, <2>2 DEF KillInRewrite, TypeOK
  <1>11. CASE KillInSummary
    <2>1. summary' \in [args : Arguments, results : [Task -> Records]]
      BY <1>11, NothingIsARecord DEF KillInSummary, NoSummary, TypeOK, Arguments
    <2> QED BY <1>11, <1>k, <2>1 DEF KillInSummary, TypeOK
  <1>12. CASE UNCHANGED vars
    BY <1>12 DEF vars, process, TypeOK, PoolUnsettled
  <1> QED
    BY <1>1, <1>2, <1>3, <1>4, <1>5, <1>6, <1>7, <1>8, <1>9, <1>10, <1>11, <1>12
    DEF Next, Step, Kill

\* TypeInv, the type invariant with the fact about the pool it needs, holds in every reachable state.
LEMMA TypeInvariant == Spec => []TypeInv
  <1>1. Init => TypeInv
    BY NothingIsARecord, TailTypes
    DEF Init, TypeInv, TypeOK, PoolUnsettled, NoSummary, Arguments
  <1> QED BY <1>1, TypeStep, PTL DEF Spec

(* Every variable of the harness and of its files keeps its type: in       *)
(* particular no record ever holds more attempts than the largest          *)
(* --max-attempts (range(start_k, max_attempts + 1) in run_task).          *)
THEOREM TypeCorrect == Spec => []TypeOK
  BY TypeInvariant, PTL DEF TypeInv

------------------------------------------------------------------------------
(* Records stay well formed: the invariant speaks of every line of the     *)
(* file and of the records in memory.                                      *)
AllWellFormed ==
    /\ \A t \in Task : WellFormed(disk[t]) /\ WellFormed(mem[t])
    /\ WellFormed(tail.rec)

\* The record of a task never attempted is well formed.
LEMMA NothingWellFormed == WellFormed(Nothing)
  BY DEF WellFormed, Nothing

(* run_task numbers a new attempt after the ones the record holds, and     *)
(* never adds one to a record that has passed.                             *)
LEMMA WithAttemptWellFormed ==
    ASSUME NEW rec \in Records, rec.passed_at = 0, WellFormed(rec), NEW ok \in BOOLEAN
    PROVE  WellFormed(WithAttempt(rec, ok))
  <1> DEFINE log == rec.attempts
             next == [attempt |-> Len(log) + 1, passed |-> ok]
             new == WithAttempt(rec, ok)
  <1>1. log \in Seq([attempt : 1..MaxBudget, passed : BOOLEAN])
    BY DEF Records, AttemptLog
  <1>2. /\ new.attempts = Append(log, next)
        /\ new.passed_at = IF ok THEN Len(log) + 1 ELSE 0
    BY DEF WithAttempt, NextAttempt
  <1>3. /\ Len(log) \in Nat
        /\ Len(Append(log, next)) = Len(log) + 1
        /\ Append(log, next)[Len(log) + 1] = next
        /\ \A k \in 1..Len(log) : Append(log, next)[k] = log[k]
    BY <1>1
  <1>4. \A k \in 1..Len(log) : log[k].attempt = k /\ (log[k].passed <=> FALSE)
    BY <1>3 DEF WellFormed
  <1>5. next.attempt = Len(log) + 1 /\ (next.passed <=> ok)
    OBVIOUS
  <1> HIDE DEF new, next, log
  <1>6. new.passed_at \in {0, Len(new.attempts)}
    BY <1>2, <1>3
  <1>7. ASSUME NEW k \in 1..Len(new.attempts)
        PROVE  new.attempts[k].attempt = k /\ (new.attempts[k].passed <=> new.passed_at = k)
    <2>1. CASE k = Len(log) + 1
      BY <2>1, <1>2, <1>3, <1>5
    <2>2. CASE k \in 1..Len(log)
      <3>1. new.attempts[k] = log[k]
        BY <2>2, <1>2, <1>3
      <3>2. new.passed_at # k
        BY <2>2, <1>2, <1>3
      <3> QED BY <2>2, <3>1, <3>2, <1>4
    <2> QED BY <1>2, <1>3, <2>1, <2>2
  <1> QED BY <1>6, <1>7 DEF WellFormed, new

\* Every step of the harness leaves each record it keeps, on disk and in memory, well formed.
LEMMA WellFormedStep == TypeInv /\ AllWellFormed /\ [Next]_vars => AllWellFormed'
  <1> SUFFICES ASSUME TypeInv, AllWellFormed, [Next]_vars PROVE AllWellFormed'
    OBVIOUS
  <1> USE NothingWellFormed DEF AllWellFormed
  <1>c. WellFormed(Closed.rec) /\ WellFormed(Garbage.rec)
    BY DEF Closed, Garbage
  <1>k. ASSUME Dies, \A t \in Task : WellFormed(disk'[t]), WellFormed(tail'.rec)
        PROVE  AllWellFormed'
    BY <1>k DEF Dies
  <1>1. ASSUME NEW max \in Budgets, NEW limit \in Limits, NEW pool \in Pools,
               Launch(max, limit, pool)
        PROVE  AllWellFormed'
    BY <1>1 DEF Launch, LaunchOf, Existing
  <1>2. ASSUME NEW t \in Task, StartTask(t) PROVE AllWellFormed'
    BY <1>2 DEF StartTask
  <1>3. ASSUME NEW t \in Task, NEW ok \in BOOLEAN, Attempt(t, ok) PROVE AllWellFormed'
    <2>1. mem[t] \in Records /\ mem[t].passed_at = 0
      BY <1>3 DEF Attempt, TypeInv, TypeOK, PoolUnsettled, IsSettled
    <2>2. WellFormed(WithAttempt(mem[t], ok))
      BY <2>1, WithAttemptWellFormed
    <2> QED BY <1>3, <2>2 DEF Attempt, TypeInv, TypeOK
  <1>4. ASSUME NEW t \in Task, WriteLine(t) PROVE AllWellFormed'
    BY <1>4, <1>c DEF WriteLine, DiskWith, TypeInv, TypeOK
  <1>5. CASE Truncate
    BY <1>5, <1>c DEF Truncate
  <1>6. CASE Rewrite
    BY <1>6 DEF Rewrite
  <1>7. CASE Summarise
    BY <1>7 DEF Summarise
  <1>8. CASE KillBetweenWrites
    BY <1>8, <1>k DEF KillBetweenWrites
  <1>9. ASSUME NEW t \in Task, NEW parses \in BOOLEAN, KillInWrite(t, parses)
        PROVE  AllWellFormed'
    <2>1. tail' = [open |-> TRUE, task |-> t, rec |-> mem[t]] \/ tail' = Garbage
      BY <1>9 DEF KillInWrite
    <2>2. WellFormed(tail'.rec)
      BY <2>1, <1>c
    <2> QED BY <1>9, <1>k, <2>2 DEF KillInWrite
  <1>10. ASSUME NEW n \in 0..Tasks, KillInRewrite(n) PROVE AllWellFormed'
    <2>1. tail' = Closed \/ tail' = Garbage
      BY <1>10 DEF KillInRewrite
    <2>2. \A t \in Task : WellFormed(disk'[t])
      BY <1>10 DEF KillInRewrite
    <2> QED BY <1>10, <1>k, <1>c, <2>1, <2>2 DEF KillInRewrite
  <1>11. CASE KillInSummary
    BY <1>11, <1>k DEF KillInSummary
  <1>12. CASE UNCHANGED vars
    BY <1>12 DEF vars, process
  <1> QED
    BY <1>1, <1>2, <1>3, <1>4, <1>5, <1>6, <1>7, <1>8, <1>9, <1>10, <1>11, <1>12
    DEF Next, Step, Kill

\* Every record kept anywhere is well formed in every reachable state.
LEMMA WellFormedInvariant == Spec => []AllWellFormed
  <1>1. Init => AllWellFormed
    BY NothingWellFormed DEF Init, AllWellFormed, Closed
  <1> QED BY <1>1, TypeInvariant, WellFormedStep, PTL DEF Spec

(* Every record that can be read back numbers its attempts 1, 2, ...       *)
(* without gap or repetition and has passed at its last attempt or not at  *)
(* all, whatever number of invocations, kills, torn lines and interrupted  *)
(* rewrites the file went through (run_task, load_existing).               *)
THEOREM RecordsCorrect == Spec => []RecordsWellFormed
  <1>1. AllWellFormed => RecordsWellFormed
    BY DEF AllWellFormed, RecordsWellFormed, Existing
  <1> QED BY <1>1, WellFormedInvariant, PTL

------------------------------------------------------------------------------
(* The file implements AttemptLedger when lines are written whole and no   *)
(* kill hits the final rewrite.                                            *)

(* The record in memory is the one in the file, extended by n attempts.    *)
Grown(t, n, ok) ==
    /\ disk[t].passed_at = 0
    /\ Len(disk[t].attempts) + n <= MaxBudget
    /\ mem[t] = Ledger!Extended(disk[t], n, ok)

FileInv ==
    /\ tail = Closed
    /\ pc = "summarise" => mem = disk
    /\ pc = "run" => \A t \in Task :
          /\ work[t] \in {"none", "queued", "written"} => mem[t] = disk[t]
          /\ work[t] = "running" => \E n \in Nat : Grown(t, n, FALSE)
          /\ work[t] = "finished" => \E n \in Nat \ {0}, ok \in BOOLEAN : Grown(t, n, ok)

(* No attempt made yet. *)
LEMMA ExtendedByNone ==
    ASSUME NEW rec \in Records, rec.passed_at = 0
    PROVE  rec = Ledger!Extended(rec, 0, FALSE)
  <1> DEFINE log == rec.attempts
             more == [i \in 1..0 |-> [attempt |-> Len(log) + i, passed |-> FALSE /\ i = 0]]
  <1>1. log \in Seq([attempt : 1..MaxBudget, passed : BOOLEAN])
    BY DEF Records, AttemptLog
  <1>2. more = <<>>
    OBVIOUS
  <1>3. log \o more = log
    BY <1>1, <1>2
  <1>4. Ledger!Extended(rec, 0, FALSE) = [attempts |-> log, passed_at |-> 0]
    BY <1>3 DEF Ledger!Extended
  <1> QED BY <1>4 DEF Records

(* A sequence whose first entries are those of more and whose last is x.   *)
LEMMA ConcatAppend ==
    ASSUME NEW S, NEW log \in Seq(S), NEW more \in Seq(S), NEW all \in Seq(S), NEW x \in S,
           Len(all) = Len(more) + 1, all[Len(all)] = x,
           \A i \in 1..Len(more) : all[i] = more[i]
    PROVE  Append(log \o more, x) = log \o all
  <1>1. /\ Len(log) \in Nat /\ Len(more) \in Nat
        /\ log \o more \in Seq(S) /\ Len(log \o more) = Len(log) + Len(more)
        /\ log \o all \in Seq(S) /\ Len(log \o all) = Len(log) + Len(more) + 1
    <2>1. Len(log) \in Nat /\ Len(more) \in Nat
      BY LenProperties
    <2>2. log \o more \in Seq(S) /\ Len(log \o more) = Len(log) + Len(more)
      BY ConcatProperties
    <2>3. log \o all \in Seq(S) /\ Len(log \o all) = Len(log) + Len(all)
      BY ConcatProperties
    <2> QED BY <2>1, <2>2, <2>3
  <1>2. /\ Append(log \o more, x) \in Seq(S)
        /\ Len(Append(log \o more, x)) = Len(log) + Len(more) + 1
        /\ \A i \in 1..(Len(log) + Len(more)) : Append(log \o more, x)[i] = (log \o more)[i]
        /\ Append(log \o more, x)[Len(log) + Len(more) + 1] = x
    BY <1>1, AppendProperties
  <1>3. /\ \A i \in 1..(Len(log) + Len(more)) :
              (log \o more)[i] = IF i <= Len(log) THEN log[i] ELSE more[i - Len(log)]
        /\ \A i \in 1..(Len(log) + Len(more) + 1) :
              (log \o all)[i] = IF i <= Len(log) THEN log[i] ELSE all[i - Len(log)]
    BY <1>1, ConcatProperties
  <1>4. ASSUME NEW i \in 1..(Len(log) + Len(more) + 1)
        PROVE  Append(log \o more, x)[i] = (log \o all)[i]
    <2>1. CASE i = Len(log) + Len(more) + 1
      BY <2>1, <1>1, <1>2, <1>3
    <2>2. CASE i \in 1..(Len(log) + Len(more))
      BY <2>2, <1>1, <1>2, <1>3
    <2> QED BY <2>1, <2>2, <1>1
  <1> QED BY <1>1, <1>2, <1>4, SeqEqual

\* The fields of a record given by its constructor.
LEMMA RecordFields ==
    ASSUME NEW e, NEW a, NEW p, e = [attempts |-> a, passed_at |-> p]
    PROVE  e.attempts = a /\ e.passed_at = p
  OBVIOUS

(* One turn of run_task's loop, after n failed ones. *)
LEMMA ExtendedByOneMore ==
    ASSUME NEW rec \in Records, NEW n \in Nat, NEW ok \in BOOLEAN
    PROVE  /\ WithAttempt(Ledger!Extended(rec, n, FALSE), ok) = Ledger!Extended(rec, n + 1, ok)
           /\ NextAttempt(Ledger!Extended(rec, n, FALSE)) = Len(rec.attempts) + n + 1
  <1> DEFINE log == rec.attempts
             S == [attempt : Nat, passed : BOOLEAN]
             more == [i \in 1..n |-> [attempt |-> Len(log) + i, passed |-> FALSE /\ i = n]]
             next == [attempt |-> Len(log) + n + 1, passed |-> ok]
             all == [i \in 1..(n + 1) |->
                       [attempt |-> Len(log) + i, passed |-> ok /\ i = n + 1]]
  <1>1. log \in Seq(S) /\ Len(log) \in Nat
    <2>1. log \in Seq([attempt : 1..MaxBudget, passed : BOOLEAN])
      BY DEF Records, AttemptLog
    <2>2. [attempt : 1..MaxBudget, passed : BOOLEAN] \subseteq S
      BY BudgetsAssumption
    <2>3. log \in Seq(S)
      <3> HIDE DEF S, log
      <3> QED BY <2>1, <2>2, SeqMonotonic
    <2>4. Len(log) \in Nat
      <3> HIDE DEF S, log
      <3> QED BY <2>3, LenProperties
    <2> QED BY <2>3, <2>4
  <1>2. more \in Seq(S) /\ Len(more) = n
    BY <1>1
  <1>3. all \in Seq(S) /\ Len(all) = n + 1
    BY <1>1
  <1>4. next \in S
    BY <1>1
  <1>5. all[n + 1] = next
    <2>1. n + 1 \in 1..(n + 1)
      OBVIOUS
    <2>2. all[n + 1] = [attempt |-> Len(log) + (n + 1), passed |-> ok /\ n + 1 = n + 1]
      <3> HIDE DEF log
      <3> QED BY <2>1
    <2>3. Len(log) + (n + 1) = Len(log) + n + 1
      <3> HIDE DEF S, log
      <3> QED BY <1>1
    <2>4. (ok /\ n + 1 = n + 1) = ok
      OBVIOUS
    <2> QED BY <2>2, <2>3, <2>4
  <1>6. ASSUME NEW i \in 1..n PROVE all[i] = more[i]
    <2>1. i \in 1..(n + 1) /\ i # n + 1
      OBVIOUS
    <2>2. (ok /\ i = n + 1) = FALSE /\ (FALSE /\ i = n) = FALSE
      BY <2>1
    <2> QED BY <2>1, <2>2
  <1> HIDE DEF more, next, all, S
  <1>7. Append(log \o more, next) = log \o all
    <2> HIDE DEF log
    <2> QED BY <1>1, <1>2, <1>3, <1>4, <1>5, <1>6, ConcatAppend
  <1>8. Len(log \o more) = Len(log) + n
    BY <1>1, <1>2, ConcatProperties
  <1>9. Ledger!Extended(rec, n, FALSE) = [attempts |-> log \o more, passed_at |-> 0]
    BY DEF Ledger!Extended, more
  <1>10. Ledger!Extended(rec, n + 1, ok)
          = [attempts |-> log \o all, passed_at |-> IF ok THEN Len(log) + (n + 1) ELSE 0]
    BY DEF Ledger!Extended, all
  <1>13. ASSUME NEW e, e = Ledger!Extended(rec, n, FALSE)
         PROVE  e.attempts = log \o more /\ NextAttempt(e) = Len(log) + n + 1
    <2>1. e.attempts = log \o more
      <3> HIDE DEF log
      <3>1. e = [attempts |-> log \o more, passed_at |-> 0]
        BY <1>9, <1>13
      <3> QED BY <3>1, RecordFields
    <2> QED BY <1>8, <2>1 DEF NextAttempt
  <1>11. WithAttempt(Ledger!Extended(rec, n, FALSE), ok)
          = [attempts |-> Append(log \o more, next), passed_at |-> IF ok THEN Len(log) + n + 1 ELSE 0]
    <2>1. ASSUME NEW e, e = Ledger!Extended(rec, n, FALSE)
          PROVE  WithAttempt(e, ok) = [attempts  |-> Append(log \o more, next),
                                       passed_at |-> IF ok THEN Len(log) + n + 1 ELSE 0]
      BY <1>13, <2>1 DEF WithAttempt, next
    <2> QED BY <2>1
  <1>12. Len(log) + (n + 1) = Len(log) + n + 1
    <2> HIDE DEF log
    <2> QED BY <1>1
  <1> QED
    BY <1>7, <1>10, <1>11, <1>12, <1>13

\* The invariant about the results file holds before the first run.
LEMMA FileInvInit == Init => FileInv
  BY DEF Init, FileInv

\* Every step of the harness keeps the invariant about the results file.
LEMMA FileInvStep ==
    ASSUME ~TornWrites, ~KillRewrite
    PROVE  TypeInv /\ FileInv /\ [Next]_vars => FileInv'
  <1> SUFFICES ASSUME TypeInv, FileInv, [Next]_vars PROVE FileInv'
    OBVIOUS
  <1>e. Existing = disk
    BY DEF FileInv, Closed, Existing, TypeInv, TypeOK, Task
  <1>k. ASSUME Dies, UNCHANGED tail PROVE FileInv'
    BY <1>k DEF Dies, FileInv
  <1>1. ASSUME NEW max \in Budgets, NEW limit \in Limits, NEW pool \in Pools,
               Launch(max, limit, pool)
        PROVE  FileInv'
    BY <1>1, <1>e DEF Launch, LaunchOf, FileInv
  <1>2. ASSUME NEW t \in Task, StartTask(t) PROVE FileInv'
    <2>1. /\ mem[t] = disk[t] /\ disk[t] \in Records
          /\ args.max \in Budgets /\ ~IsSettled(mem[t], args.max)
      BY <1>2 DEF StartTask, FileInv, TypeInv, TypeOK, PoolUnsettled
    <2>0. disk[t].passed_at = 0 /\ Len(disk[t].attempts) + 0 <= MaxBudget
      <3>1. /\ disk[t].passed_at = 0 /\ Len(disk[t].attempts) \in Nat
            /\ NextAttempt(disk[t]) \in 1..MaxBudget
        BY <2>1, UnsettledLen
      <3> QED BY <3>1, BudgetsAssumption DEF NextAttempt
    <2>2. Grown(t, 0, FALSE)
      BY <2>0, <2>1, ExtendedByNone DEF Grown
    <2>3. Grown(t, 0, FALSE)'
      BY <1>2, <2>2 DEF StartTask, Grown
    <2>4. ASSUME NEW u \in Task, NEW n \in Nat, NEW ok \in BOOLEAN, Grown(u, n, ok)
          PROVE  Grown(u, n, ok)'
      BY <1>2, <2>4 DEF StartTask, Grown
    <2>5. /\ work'[t] = "running"
          /\ \A u \in Task \ {t} : work'[u] = work[u]
          /\ UNCHANGED <<disk, tail, pc, mem>> /\ pc = "run"
      BY <1>2, <2>1 DEF StartTask, TypeInv, TypeOK
    <2> QED BY <2>3, <2>4, <2>5 DEF FileInv
  <1>3. ASSUME NEW t \in Task, NEW ok \in BOOLEAN, Attempt(t, ok) PROVE FileInv'
    <2>1. PICK n \in Nat : Grown(t, n, FALSE)
      BY <1>3 DEF Attempt, FileInv
    <2>2. /\ disk[t] \in Records /\ mem[t] \in Records
          /\ args.max \in Budgets /\ ~IsSettled(mem[t], args.max)
      BY <1>3 DEF Attempt, TypeInv, TypeOK, PoolUnsettled
    <2>7. NextAttempt(mem[t]) \in 1..MaxBudget
      BY <2>2, UnsettledLen
    <2>8. Len(disk[t].attempts) \in Nat
      BY <2>2 DEF Records, AttemptLog
    <2>9. /\ WithAttempt(mem[t], ok) = Ledger!Extended(disk[t], n + 1, ok)
          /\ NextAttempt(mem[t]) = Len(disk[t].attempts) + n + 1
      BY <2>1, <2>2, ExtendedByOneMore DEF Grown
    <2>3. /\ WithAttempt(mem[t], ok) = Ledger!Extended(disk[t], n + 1, ok)
          /\ Len(disk[t].attempts) + (n + 1) <= MaxBudget
      <3> DEFINE len == Len(disk[t].attempts)
      <3>1. len \in Nat /\ len + n + 1 \in 1..MaxBudget
        BY <2>7, <2>8, <2>9
      <3> HIDE DEF len
      <3>2. len + (n + 1) <= MaxBudget
        BY <3>1, BudgetsAssumption
      <3> QED BY <2>9, <3>2 DEF len
    <2>4. Grown(t, n + 1, ok)'
      BY <1>3, <2>1, <2>3 DEF Attempt, Grown, TypeInv, TypeOK
    <2>5. ASSUME NEW u \in Task \ {t}, NEW m \in Nat, NEW b \in BOOLEAN, Grown(u, m, b)
          PROVE  Grown(u, m, b)'
      BY <1>3, <2>5 DEF Attempt, Grown, TypeInv, TypeOK
    <2>6. n + 1 \in Nat \ {0} /\ (work'[t] = "running" => ok = FALSE)
      BY <1>3 DEF Attempt, TypeInv, TypeOK
    <2> QED BY <1>3, <2>4, <2>5, <2>6 DEF Attempt, FileInv, TypeInv, TypeOK
  <1>4. ASSUME NEW t \in Task, WriteLine(t) PROVE FileInv'
    <2>1. disk' = [disk EXCEPT ![t] = mem[t]] /\ tail' = Closed
      BY <1>4 DEF WriteLine, DiskWith, FileInv, Closed
    <2>2. ASSUME NEW u \in Task \ {t}, NEW m \in Nat, NEW b \in BOOLEAN, Grown(u, m, b)
          PROVE  Grown(u, m, b)'
      BY <1>4, <2>1, <2>2 DEF WriteLine, Grown, TypeInv, TypeOK
    <2> QED BY <1>4, <2>1, <2>2 DEF WriteLine, FileInv, TypeInv, TypeOK
  <1>5. CASE Truncate
    BY <1>5 DEF Truncate, FileInv
  <1>6. CASE Rewrite
    BY <1>6 DEF Rewrite, FileInv
  <1>7. CASE Summarise
    BY <1>7 DEF Summarise, FileInv
  <1>8. CASE KillBetweenWrites
    BY <1>8, <1>k DEF KillBetweenWrites
  <1>11. CASE KillInSummary
    BY <1>11, <1>k DEF KillInSummary
  <1>12. CASE UNCHANGED vars
    BY <1>12 DEF vars, process, FileInv, Grown
  <1> QED
    BY <1>1, <1>2, <1>3, <1>4, <1>5, <1>6, <1>7, <1>8, <1>11, <1>12
    DEF Next, Step, Kill, KillInWrite, KillInRewrite

(* Each step of the harness records one task's new attempts or nothing. *)
LEMMA LedgerStep ==
    ASSUME ~TornWrites, ~KillRewrite
    PROVE  TypeInv /\ FileInv /\ FileInv' /\ [Next]_vars => [Ledger!Next]_OnRecord
  <1> SUFFICES ASSUME TypeInv, FileInv, FileInv', [Next]_vars
               PROVE  Ledger!Next \/ OnRecord' = OnRecord
    OBVIOUS
  <1>e. Existing = disk
    BY DEF FileInv, Closed, Existing, TypeInv, TypeOK, Task
  <1>t. TypeInv'
    BY TypeStep
  <1>f. Existing' = disk'
    BY <1>t DEF FileInv, Closed, Existing, TypeInv, TypeOK, Task
  <1>s. ASSUME UNCHANGED disk, pc # "rewrite", pc' # "rewrite" PROVE OnRecord' = OnRecord
    BY <1>s, <1>e, <1>f DEF OnRecord
  <1>1. ASSUME NEW max \in Budgets, NEW limit \in Limits, NEW pool \in Pools,
               Launch(max, limit, pool)
        PROVE  OnRecord' = OnRecord
    BY <1>1, <1>s DEF Launch, LaunchOf
  <1>2. ASSUME NEW t \in Task, StartTask(t) PROVE OnRecord' = OnRecord
    BY <1>2, <1>s DEF StartTask
  <1>3. ASSUME NEW t \in Task, NEW ok \in BOOLEAN, Attempt(t, ok) PROVE OnRecord' = OnRecord
    BY <1>3, <1>s DEF Attempt
  <1>4. ASSUME NEW t \in Task, WriteLine(t) PROVE Ledger!Next
    <2>1. /\ OnRecord = disk /\ OnRecord' = disk'
          /\ disk' = [disk EXCEPT ![t] = mem[t]]
      BY <1>4, <1>e, <1>f DEF WriteLine, DiskWith, OnRecord, FileInv, Closed
    <2>2. PICK n \in Nat \ {0}, ok \in BOOLEAN : Grown(t, n, ok)
      BY <1>4 DEF WriteLine, FileInv
    <2>3. disk[t] \in Records
      BY DEF TypeInv, TypeOK
    <2>4. n \in 1..(MaxBudget - Len(disk[t].attempts))
      BY <2>2, <2>3, BudgetsAssumption DEF Grown, Records, AttemptLog
    <2>5. OnRecord' = [OnRecord EXCEPT ![t] = Ledger!Extended(OnRecord[t], n, ok)]
      BY <2>1, <2>2 DEF Grown
    <2>6. Ledger!Record(t)
      BY <2>1, <2>2, <2>4, <2>5 DEF Ledger!Record, Grown
    <2> QED BY <2>6 DEF Ledger!Next, Task
  <1>5. CASE Truncate
    <2>1. \A t \in Task : mem[t] = disk[t]
      BY <1>5 DEF Truncate, Unwritten, FileInv, TypeInv, TypeOK
    <2>2. mem = disk
      BY <2>1 DEF TypeInv, TypeOK
    <2> QED BY <1>5, <1>e, <2>2 DEF Truncate, OnRecord
  <1>6. CASE Rewrite
    BY <1>6, <1>f DEF Rewrite, OnRecord
  <1>7. CASE Summarise
    BY <1>7, <1>s DEF Summarise
  <1>8. CASE KillBetweenWrites
    BY <1>8, <1>s DEF KillBetweenWrites, Dies
  <1>11. CASE KillInSummary
    BY <1>11, <1>s DEF KillInSummary, Dies
  <1>12. CASE UNCHANGED vars
    BY <1>12 DEF vars, process, OnRecord, Existing
  <1> QED
    BY <1>1, <1>2, <1>3, <1>4, <1>5, <1>6, <1>7, <1>8, <1>11, <1>12
    DEF Next, Step, Kill, KillInWrite, KillInRewrite

(* With lines written whole and no kill during the rewrite, the JSONL is   *)
(* the abstract ledger: resuming at any budget, pool size and order of     *)
(* completion only ever extends unsolved tasks, and nothing is lost.       *)
THEOREM ImplementsLedger ==
    ASSUME ~TornWrites, ~KillRewrite
    PROVE  Spec => LedgerSpec
  <1>1. Init => Ledger!Init
    BY DEF Init, Ledger!Init, OnRecord, Existing, Closed, Nothing, Ledger!Nothing, Task
  <1>2. Spec => []FileInv
    BY FileInvInit, FileInvStep, TypeInvariant, PTL DEF Spec
  <1>3. TypeInv /\ FileInv /\ FileInv' /\ [Next]_vars => [Ledger!Next]_OnRecord
    BY LedgerStep
  <1> QED
    BY <1>1, <1>2, <1>3, TypeInvariant, PTL DEF Spec, LedgerSpec, Ledger!Spec

------------------------------------------------------------------------------
(* What an invocation has in memory continues what is on file, and what a  *)
(* torn line holds continues the line before it, whatever was killed.      *)
Continues(new, old) == Extends(new, old) /\ (old.passed_at # 0 => new.passed_at # 0)

Kept ==
    /\ tail.open \/ tail.task = 0
    /\ pc \in {"rewrite", "summarise"} => tail = Closed
    /\ \A t \in Task : tail.task = t => Continues(tail.rec, disk[t])
    /\ pc = "run" => \A t \in Task : Continues(mem[t], Existing[t]) /\ Continues(mem[t], disk[t])
    /\ pc = "run" /\ tail.open => \A t \in Task : work[t] # "written"

(* A record continues itself. *)
LEMMA ContinuesItself ==
    ASSUME NEW rec \in Records PROVE Continues(rec, rec)
  <1>1. Len(rec.attempts) \in Nat
    BY DEF Records, AttemptLog
  <1> QED BY <1>1 DEF Continues, Extends

(* One more attempt, after a record that has not passed, continues all     *)
(* that the record continues.                                              *)
LEMMA AttemptContinues ==
    ASSUME NEW rec \in Records, NEW old \in Records, NEW ok \in BOOLEAN,
           rec.passed_at = 0, Continues(rec, old)
    PROVE  Continues(WithAttempt(rec, ok), old)
  <1> DEFINE log == rec.attempts
             next == [attempt |-> Len(log) + 1, passed |-> ok]
             new == WithAttempt(rec, ok)
  <1>1. log \in Seq([attempt : 1..MaxBudget, passed : BOOLEAN])
    BY DEF Records, AttemptLog
  <1>2. new.attempts = Append(log, next)
    BY DEF WithAttempt, NextAttempt
  <1>3. /\ Len(log) \in Nat
        /\ Len(Append(log, next)) = Len(log) + 1
        /\ \A k \in 1..Len(log) : Append(log, next)[k] = log[k]
    BY <1>1
  <1>4. /\ Len(old.attempts) \in Nat /\ Len(old.attempts) <= Len(log)
        /\ \A k \in 1..Len(old.attempts) : log[k] = old.attempts[k]
        /\ old.passed_at = 0
    BY DEF Continues, Extends, Records, AttemptLog
  <1> HIDE DEF log, next, new
  <1>5. Extends(new, old)
    BY <1>2, <1>3, <1>4 DEF Extends
  <1> QED BY <1>4, <1>5 DEF Continues, new

(* What settles a record settles every record that continues it. *)
LEMMA SettledStays ==
    ASSUME NEW new \in Records, NEW old \in Records, NEW max \in Nat,
           Continues(new, old), IsSettled(old, max)
    PROVE  IsSettled(new, max)
  BY DEF Continues, Extends, IsSettled, Records, AttemptLog

\* The first invocation starts from an empty file.
LEMMA KeptInit == Init => Kept
  <1>1. 0 \notin Task
    BY DEF Task
  <1> QED BY <1>1 DEF Init, Kept, Closed

\* No step, kills and torn lines included, lets memory fall behind the file.
LEMMA KeptStep == TypeInv /\ Kept /\ [Next]_vars => Kept'
  <1> SUFFICES ASSUME TypeInv, Kept, [Next]_vars PROVE Kept'
    OBVIOUS
  <1>e. Existing \in [Task -> Records]
    BY ExistingType DEF TypeInv
  <1>d. /\ disk \in [Task -> Records] /\ mem \in [Task -> Records]
        /\ tail.rec \in Records /\ 0 \notin Task
    BY DEF TypeInv, TypeOK, Tails, Task
  <1>c. ~Closed.open /\ Closed.task = 0 /\ Garbage.open /\ Garbage.task = 0
    BY DEF Closed, Garbage
  <1>1. ASSUME NEW max \in Budgets, NEW limit \in Limits, NEW pool \in Pools,
               Launch(max, limit, pool)
        PROVE  Kept'
    <2>1. UNCHANGED <<disk, tail>> /\ pc' = "run" /\ mem' = Existing /\ Existing' = Existing
      BY <1>1 DEF Launch, LaunchOf, Existing
    <2>2. ASSUME NEW t \in Task
          PROVE  Continues(Existing[t], Existing[t]) /\ Continues(Existing[t], disk[t])
      <3>1. Existing[t] = IF tail.task = t THEN tail.rec ELSE disk[t]
        BY DEF Existing
      <3> QED BY <3>1, <1>e, <1>d, ContinuesItself DEF Kept
    <2>3. \A t \in Task : work'[t] # "written"
      BY <1>1 DEF Launch, LaunchOf
    <2> QED BY <2>1, <2>2, <2>3 DEF Kept
  <1>2. ASSUME NEW t \in Task, StartTask(t) PROVE Kept'
    BY <1>2 DEF StartTask, Kept, Existing
  <1>3. ASSUME NEW t \in Task, NEW ok \in BOOLEAN, Attempt(t, ok) PROVE Kept'
    <2>1. mem[t].passed_at = 0
      BY <1>3 DEF Attempt, TypeInv, PoolUnsettled, IsSettled
    <2>2. pc = "run" /\ Continues(mem[t], Existing[t]) /\ Continues(mem[t], disk[t])
      BY <1>3 DEF Attempt, Kept
    <2>3. /\ Continues(WithAttempt(mem[t], ok), Existing[t])
          /\ Continues(WithAttempt(mem[t], ok), disk[t])
      BY <2>1, <2>2, <1>d, <1>e, AttemptContinues
    <2>4. /\ UNCHANGED <<disk, tail, pc>> /\ Existing' = Existing
          /\ mem' = [mem EXCEPT ![t] = WithAttempt(mem[t], ok)]
      BY <1>3 DEF Attempt, Existing
    <2>5. ASSUME NEW u \in Task
          PROVE  Continues(mem'[u], Existing[u]) /\ Continues(mem'[u], disk[u])
      BY <2>2, <2>3, <2>4, <1>d DEF Kept
    <2>6. \A u \in Task : work'[u] = "written" => work[u] = "written"
      BY <1>3 DEF Attempt, TypeInv, TypeOK
    <2> QED BY <2>2, <2>4, <2>5, <2>6 DEF Kept
  <1>4. ASSUME NEW t \in Task, WriteLine(t) PROVE Kept'
    <2>1. tail' = Closed /\ UNCHANGED <<pc, mem>> /\ pc = "run"
      BY <1>4 DEF WriteLine
    <2>2. Existing' = disk'
      <3>1. disk' \in [Task -> Records]
        BY <1>4, <1>d DEF WriteLine, DiskWith
      <3> QED BY <2>1, <3>1, <1>c, <1>d DEF Existing
    <2>3. ASSUME NEW u \in Task PROVE Continues(mem[u], disk'[u])
      <3>1. disk'[u] = disk[u] \/ disk'[u] = mem[u]
        BY <1>4, <1>d DEF WriteLine, DiskWith
      <3> QED BY <2>1, <3>1, <1>d, ContinuesItself DEF Kept
    <2> QED BY <2>1, <2>2, <2>3, <1>c, <1>d DEF Kept
  <1>5. CASE Truncate
    BY <1>5, <1>c, <1>d DEF Truncate, Kept
  <1>6. CASE Rewrite
    BY <1>6, <1>c, <1>d DEF Rewrite, Kept
  <1>7. CASE Summarise
    BY <1>7 DEF Summarise, Kept
  <1>8. CASE KillBetweenWrites
    BY <1>8 DEF KillBetweenWrites, Dies, Kept
  <1>9. ASSUME NEW t \in Task, NEW parses \in BOOLEAN, KillInWrite(t, parses) PROVE Kept'
    <2>1. pc' = "down" /\ UNCHANGED disk /\ Continues(mem[t], disk[t])
      BY <1>9 DEF KillInWrite, Dies, Kept
    <2>2. tail' = [open |-> TRUE, task |-> t, rec |-> mem[t]] \/ tail' = Garbage
      BY <1>9 DEF KillInWrite
    <2> QED BY <2>1, <2>2, <1>c, <1>d DEF Kept
  <1>10. ASSUME NEW n \in 0..Tasks, KillInRewrite(n) PROVE Kept'
    <2>1. pc' = "down" /\ (tail' = Closed \/ tail' = Garbage)
      BY <1>10 DEF KillInRewrite, Dies
    <2> QED BY <2>1, <1>c, <1>d DEF Kept
  <1>11. CASE KillInSummary
    BY <1>11 DEF KillInSummary, Dies, Kept
  <1>12. CASE UNCHANGED vars
    BY <1>12 DEF vars, process, Kept, Existing
  <1> QED
    BY <1>1, <1>2, <1>3, <1>4, <1>5, <1>6, <1>7, <1>8, <1>9, <1>10, <1>11, <1>12
    DEF Next, Step, Kill

\* Memory continues the file in every reachable state.
LEMMA KeptInvariant == Spec => []Kept
  BY KeptInit, KeptStep, TypeInvariant, PTL DEF Spec

\* A step that spends an attempt on a task spends it on one the file leaves open.
LEMMA RetryStep ==
    ASSUME TypeInv, Kept, AllWellFormed, [Next]_vars, pc = "run", pc' = "run",
           NEW u \in Task, mem'[u] # mem[u]
    PROVE  ~Spent(Existing[u], args.max)
  <1>1. PICK t \in Task, ok \in BOOLEAN : Attempt(t, ok)
    BY DEF Next, Step, Kill, vars, process, Launch, LaunchOf, StartTask, WriteLine, Truncate,
           Rewrite, Summarise, KillBetweenWrites, KillInWrite, KillInRewrite, KillInSummary, Dies
  <1>2. u = t
    BY <1>1 DEF Attempt, TypeInv, TypeOK
  <1>3. ~IsSettled(mem[u], args.max) /\ args.max \in Nat
    <2>1. ~IsSettled(mem[u], args.max) /\ args.max \in Budgets
      BY <1>1, <1>2 DEF Attempt, TypeInv, PoolUnsettled
    <2>2. Budgets \subseteq Nat
      BY BudgetsAssumption
    <2> QED BY <2>1, <2>2
  <1>4. mem[u] \in Records /\ Existing[u] \in Records /\ Continues(mem[u], Existing[u])
    BY ExistingType DEF TypeInv, TypeOK, Kept
  <1>5. ~IsSettled(Existing[u], args.max)
    BY <1>3, <1>4, SettledStays
  <1>6. WellFormed(Existing[u])
    BY DEF AllWellFormed, Existing
  <1>7. ASSUME NEW k \in 1..Len(Existing[u].attempts), Existing[u].attempts[k].passed
        PROVE  FALSE
    <2>1. Existing[u].passed_at = k /\ Existing[u].passed_at = 0
      BY <1>5, <1>6, <1>7 DEF WellFormed, IsSettled
    <2> QED BY <2>1
  <1> QED BY <1>5, <1>7 DEF Spent, IsSettled

(* No request is spent on a task of which the file has a passing attempt   *)
(* or all the attempts allowed, whatever earlier invocations were given    *)
(* and wherever they were killed: torn and glued lines and interrupted     *)
(* rewrites included (main's is_settled, run_task's early return).         *)
THEOREM NothingSettledIsRetried == Spec => SettledNeverRetried
  <1>1. TypeInv /\ Kept /\ AllWellFormed /\ [Next]_vars
        => [\A t \in Task :
              pc = "run" /\ pc' = "run" /\ mem'[t] # mem[t] =>
                  ~Spent(Existing[t], args.max)]_vars
    BY RetryStep
  <1> QED BY <1>1, KeptInvariant, WellFormedInvariant, TypeInvariant, PTL
          DEF Spec, SettledNeverRetried

------------------------------------------------------------------------------
(* Where a line in memory has been written, the file lacks it only if it   *)
(* was glued to a torn one.  A step's damage: one record on file, one line.*)
Harm(u, v) ==
    /\ Lost \subseteq {u}
    /\ NewlyUnreadable \subseteq {v}
    /\ ~tail.open => Lost = {} /\ NewlyUnreadable = {}

(* Steps that leave the file and the lines written as they are do no harm. *)
LEMMA HarmlessStep ==
    ASSUME TypeInv, pc # "rewrite",
           \A t \in Task : Extends(OnRecord'[t], Existing[t]),
           \A t \in Task : t \in Unreadable' => t \in Unreadable
    PROVE  Lost = {} /\ NewlyUnreadable = {}
  BY DEF Lost, NewlyUnreadable, OnRecord, Unreadable

(* Outside of the rewrite a step puts at most one record and one line at   *)
(* risk, and none when the file ends in a whole line.                      *)
LEMMA DamageStep ==
    ASSUME TypeInv, Kept, [Next]_vars, pc # "rewrite"
    PROVE  /\ \E u, v \in 0..Tasks : Harm(u, v)
           /\ Lost \cup NewlyUnreadable # {} /\ pc' = "run" => ~tail'.open
  <1> DEFINE Goal == /\ \E u, v \in 0..Tasks : Harm(u, v)
                     /\ Lost \cup NewlyUnreadable # {} /\ pc' = "run" => ~tail'.open
  <1> SUFFICES Goal
    OBVIOUS
  <1>e. Existing \in [Task -> Records] /\ OnRecord = Existing
    BY ExistingType DEF TypeInv, OnRecord
  <1>d. /\ disk \in [Task -> Records] /\ mem \in [Task -> Records]
        /\ tail.task \in 0..Tasks /\ 0 \notin Task /\ 0 \in 0..Tasks
        /\ \A t \in Task : t \in 0..Tasks
    BY TasksAssumption DEF TypeInv, TypeOK, Tails, Task
  <1>c. Closed.task = 0 /\ Garbage.task = 0 /\ ~Closed.open
    BY DEF Closed, Garbage
  <1>s. ASSUME NEW rec \in Records PROVE Extends(rec, rec)
    BY <1>s, ContinuesItself DEF Continues
  <1>n. ASSUME Lost = {}, NewlyUnreadable = {} PROVE Goal
    <2>1. Harm(0, 0)
      BY <1>n DEF Harm
    <2> QED BY <1>n, <1>d, <2>1
  <1>w. ASSUME \A t \in Task : Extends(OnRecord'[t], Existing[t]),
               \A t \in Task : work'[t] # "written"
        PROVE  Goal
    BY <1>w, <1>n, HarmlessStep DEF Unreadable
  <1>z. ASSUME UNCHANGED <<disk, tail>>, pc' # "rewrite",
               \A t \in Task : work'[t] = "written" => work[t] = "written" /\ mem'[t] = mem[t]
        PROVE  Goal
    <2>1. OnRecord' = Existing
      BY <1>z DEF OnRecord, Existing
    <2>2. \A t \in Task : Extends(OnRecord'[t], Existing[t])
      BY <2>1, <1>e, <1>s
    <2>3. \A t \in Task : t \in Unreadable' => t \in Unreadable
      BY <1>z, <2>1, <1>e DEF Unreadable
    <2> QED BY <2>2, <2>3, <1>n, HarmlessStep
  <1> HIDE DEF Goal
  <1>1. ASSUME NEW max \in Budgets, NEW limit \in Limits, NEW pool \in Pools,
               Launch(max, limit, pool)
        PROVE  Goal
    BY <1>1, <1>z DEF Launch, LaunchOf
  <1>2. ASSUME NEW t \in Task, StartTask(t) PROVE Goal
    BY <1>2, <1>z DEF StartTask, TypeInv, TypeOK
  <1>3. ASSUME NEW t \in Task, NEW ok \in BOOLEAN, Attempt(t, ok) PROVE Goal
    BY <1>3, <1>z DEF Attempt, TypeInv, TypeOK
  <1>4. ASSUME NEW t \in Task, WriteLine(t) PROVE Goal
    <2>1. /\ tail' = Closed /\ pc = "run" /\ pc' = "run" /\ disk' = DiskWith(t, mem[t])
          /\ mem' = mem /\ \A u \in Task : u # t => work'[u] = work[u]
      BY <1>4 DEF WriteLine, TypeInv, TypeOK
    <2>2. ASSUME NEW u \in Task PROVE OnRecord'[u] = disk'[u]
      BY <2>1, <2>2, <1>c, <1>d DEF OnRecord, Existing
    <2>3. CASE tail.open
      <3>1. disk' = disk
        BY <2>1, <2>3 DEF DiskWith
      <3>2. ASSUME NEW u \in Task, u # tail.task PROVE OnRecord'[u] = Existing[u]
        BY <2>2, <3>1, <3>2 DEF Existing
      <3>3. Lost \subseteq {tail.task}
        BY <3>2, <1>e, <1>s DEF Lost
      <3>4. ASSUME NEW u \in NewlyUnreadable, u # t PROVE u = tail.task
        BY <2>1, <3>2, <3>4, <1>e DEF NewlyUnreadable, Unreadable
      <3>5. ASSUME tail.task \in Task, tail.task # t, tail.task \in NewlyUnreadable PROVE FALSE
        <4>1. work[tail.task] = "written" /\ ~Extends(OnRecord'[tail.task], mem[tail.task])
              /\ Extends(Existing[tail.task], mem[tail.task])
          BY <2>1, <3>5, <1>e DEF NewlyUnreadable, Unreadable
        <4> QED BY <4>1, <2>1, <2>3, <3>5 DEF Kept
      <3>6. NewlyUnreadable \subseteq {t}
        BY <3>4, <3>5 DEF NewlyUnreadable, Unreadable
      <3>7. Harm(tail.task, t)
        BY <2>3, <3>3, <3>6 DEF Harm
      <3> QED BY <2>1, <3>7, <1>c, <1>d DEF Goal
    <2>4. CASE ~tail.open
      <3>1. tail.task = 0 /\ disk' = [disk EXCEPT ![t] = mem[t]]
        BY <2>1, <2>4 DEF DiskWith, Kept
      <3>2. ASSUME NEW u \in Task
            PROVE  /\ Existing[u] = disk[u]
                   /\ OnRecord'[u] = IF u = t THEN mem[t] ELSE disk[u]
        BY <2>2, <3>1, <1>d DEF Existing
      <3>3. \A u \in Task : Extends(OnRecord'[u], Existing[u])
        <4>1. Extends(mem[t], Existing[t])
          BY <2>1 DEF Kept, Continues
        <4> QED BY <3>2, <4>1, <1>d, <1>s
      <3>4. \A u \in Task : u \in Unreadable' => u \in Unreadable
        <4>1. t \notin Unreadable'
          BY <2>1, <3>2, <1>d, <1>s DEF Unreadable
        <4> QED BY <2>1, <3>2, <4>1, <1>e DEF Unreadable
      <3> QED BY <3>3, <3>4, <1>n, HarmlessStep
    <2> QED BY <2>3, <2>4
  <1>5. CASE Truncate
    <2>1. OnRecord' = mem /\ pc = "run" /\ mem' = mem
      BY <1>5 DEF Truncate, OnRecord
    <2>2. \A t \in Task : Extends(OnRecord'[t], Existing[t])
      BY <2>1 DEF Kept, Continues
    <2>3. Unreadable' = {}
      BY <2>1, <1>d, <1>s DEF Unreadable
    <2>4. \A t \in Task : t \in Unreadable' => t \in Unreadable
      BY <2>3
    <2> QED BY <2>2, <2>4, <1>n, HarmlessStep
  <1>v. ASSUME UNCHANGED <<disk, tail>>, pc' # "rewrite", \A t \in Task : work'[t] # "written"
        PROVE  Goal
    BY <1>v, <1>z
  <1>7. CASE Summarise
    BY <1>7, <1>v DEF Summarise
  <1>8. CASE KillBetweenWrites
    BY <1>8, <1>v DEF KillBetweenWrites, Dies
  <1>9. ASSUME NEW t \in Task, NEW parses \in BOOLEAN, KillInWrite(t, parses) PROVE Goal
    <2>1. /\ UNCHANGED disk /\ pc = "run" /\ pc' = "down"
          /\ \A u \in Task : work'[u] # "written"
      BY <1>9 DEF KillInWrite, Dies
    <2>2. CASE ~tail.open /\ tail' = [open |-> TRUE, task |-> t, rec |-> mem[t]]
      <3>1. \A u \in Task : Extends(OnRecord'[u], Existing[u])
        <4>1. ASSUME NEW u \in Task, u # t PROVE OnRecord'[u] = Existing[u]
          BY <2>1, <2>2, <4>1, <1>d DEF OnRecord, Existing, Kept
        <4>2. OnRecord'[t] = mem[t] /\ Extends(mem[t], Existing[t])
          BY <2>1, <2>2 DEF OnRecord, Existing, Kept, Continues
        <4> QED BY <4>1, <4>2, <1>e, <1>s
      <3> QED BY <3>1, <2>1, <1>w
    <2>3. CASE tail' = Garbage
      <3>1. ASSUME NEW u \in Task, u # tail.task PROVE OnRecord'[u] = Existing[u]
        BY <2>1, <2>3, <3>1, <1>c, <1>d DEF OnRecord, Existing
      <3>2. Lost \subseteq {tail.task}
        BY <3>1, <1>e, <1>s DEF Lost
      <3>3. NewlyUnreadable = {}
        BY <2>1 DEF NewlyUnreadable, Unreadable
      <3>4. ASSUME ~tail.open PROVE Lost = {}
        BY <3>2, <3>4, <1>d DEF Kept, Lost
      <3>5. Harm(tail.task, tail.task)
        BY <3>2, <3>3, <3>4 DEF Harm
      <3> QED BY <2>1, <3>5, <1>d DEF Goal
    <2> QED BY <1>9, <2>2, <2>3 DEF KillInWrite
  <1>11. CASE KillInSummary
    BY <1>11, <1>v DEF KillInSummary, Dies
  <1>12. CASE UNCHANGED vars
    BY <1>12, <1>z DEF vars, process
  <1> QED
    BY <1>1, <1>2, <1>3, <1>4, <1>5, <1>7, <1>8, <1>9, <1>11, <1>12
    DEF Next, Step, Kill, Rewrite, KillInRewrite

\* A set with at most the element u has at most one element.
LEMMA AtMostOne ==
    ASSUME NEW S, NEW u, S \subseteq {u} PROVE Cardinality(S) <= 1
  <1>1. S = {} \/ S = {u}
    OBVIOUS
  <1>2. Cardinality({}) = 0 /\ Cardinality({u}) = 1
    BY FS_EmptySet, FS_Singleton
  <1>3. CASE S = {}
    <2>1. Cardinality(S) = 0
      BY <1>2, <1>3
    <2> QED BY <2>1
  <1>4. CASE S = {u}
    <2>1. Cardinality(S) = 1
      BY <1>2, <1>4
    <2> QED BY <2>1
  <1> QED BY <1>1, <1>3, <1>4

(* Outside of the rewrite a file that ends in a whole line loses nothing,  *)
(* and a torn line costs no more than the record it held and the line      *)
(* glued to it, after which the file is whole again: for every number of   *)
(* tasks, invocations and kills (out_f.write, load_existing).              *)
THEOREM TornLinesCostTwo == Spec => TornLineCostsTwo
  <1>1. TypeInv /\ Kept /\ [Next]_vars
        => [pc # "rewrite" =>
              /\ Cardinality(Lost) <= 1 /\ Cardinality(NewlyUnreadable) <= 1
              /\ Lost \cup NewlyUnreadable # {} => tail.open
              /\ Lost \cup NewlyUnreadable # {} /\ pc' = "run" => ~tail'.open]_vars
    <2> SUFFICES ASSUME TypeInv, Kept, [Next]_vars, pc # "rewrite"
                 PROVE  /\ Cardinality(Lost) <= 1 /\ Cardinality(NewlyUnreadable) <= 1
                        /\ Lost \cup NewlyUnreadable # {} => tail.open
                        /\ Lost \cup NewlyUnreadable # {} /\ pc' = "run" => ~tail'.open
      OBVIOUS
    <2>1. PICK u, v \in 0..Tasks : Harm(u, v)
      BY DamageStep
    <2>2. Cardinality(Lost) <= 1 /\ Cardinality(NewlyUnreadable) <= 1
      BY <2>1, AtMostOne DEF Harm
    <2>3. Lost \cup NewlyUnreadable # {} => tail.open
      BY <2>1 DEF Harm
    <2>4. Lost \cup NewlyUnreadable # {} /\ pc' = "run" => ~tail'.open
      BY DamageStep
    <2> QED BY <2>2, <2>3, <2>4
  <1> QED BY <1>1, KeptInvariant, TypeInvariant, PTL DEF Spec, TornLineCostsTwo

------------------------------------------------------------------------------
(* What is under --limit and neither waiting nor running is settled, and   *)
(* from the rewrite on the file's last line is whole.                      *)
Done ==
    /\ pc = "run" => \A t \in Task :
          t <= args.limit /\ work[t] \notin {"queued", "running"} => IsSettled(mem[t], args.max)
    /\ pc \in {"rewrite", "summarise"} =>
          /\ tail = Closed
          /\ \A t \in Task : t <= args.limit => IsSettled(mem[t], args.max)
    /\ pc = "summarise" => disk = mem

\* No order of completion leaves a task under --limit open when the pool is empty.
LEMMA DoneStep == TypeInv /\ Done /\ [Next]_vars => Done'
  <1> SUFFICES ASSUME TypeInv, Done, [Next]_vars PROVE Done'
    OBVIOUS
  <1>k. ASSUME Dies PROVE Done'
    BY <1>k DEF Dies, Done
  <1>1. ASSUME NEW max \in Budgets, NEW limit \in Limits, NEW pool \in Pools,
               Launch(max, limit, pool)
        PROVE  Done'
    BY <1>1 DEF Launch, LaunchOf, Done
  <1>2. ASSUME NEW t \in Task, StartTask(t) PROVE Done'
    BY <1>2 DEF StartTask, Done, TypeInv, TypeOK
  <1>3. ASSUME NEW t \in Task, NEW ok \in BOOLEAN, Attempt(t, ok) PROVE Done'
    <2>1. mem[t] \in Records /\ args.max \in Budgets /\ ~IsSettled(mem[t], args.max)
      BY <1>3 DEF Attempt, TypeInv, TypeOK, PoolUnsettled
    <2>2. /\ ok => WithAttempt(mem[t], ok).passed_at # 0
          /\ Len(WithAttempt(mem[t], ok).attempts) = NextAttempt(mem[t])
      BY <2>1, WithAttemptType
    <2>3. /\ pc = "run" /\ UNCHANGED <<pc, args>>
          /\ mem'[t] = WithAttempt(mem[t], ok)
          /\ \A u \in Task \ {t} : mem'[u] = mem[u] /\ work'[u] = work[u]
          /\ work'[t] = IF ok \/ NextAttempt(mem[t]) >= args.max THEN "finished" ELSE "running"
      BY <1>3 DEF Attempt, TypeInv, TypeOK
    <2>4. work'[t] # "running" => IsSettled(mem'[t], args.max)
      BY <2>2, <2>3 DEF IsSettled
    <2> QED BY <2>3, <2>4 DEF Done
  <1>4. ASSUME NEW t \in Task, WriteLine(t) PROVE Done'
    BY <1>4 DEF WriteLine, Done, TypeInv, TypeOK
  <1>5. CASE Truncate
    BY <1>5 DEF Truncate, Unwritten, Done
  <1>6. CASE Rewrite
    BY <1>6 DEF Rewrite, Done
  <1>7. CASE Summarise
    BY <1>7 DEF Summarise, Done
  <1>8. CASE UNCHANGED vars
    BY <1>8 DEF vars, process, Done
  <1> QED
    BY <1>k, <1>1, <1>2, <1>3, <1>4, <1>5, <1>6, <1>7, <1>8
    DEF Next, Step, Kill, KillBetweenWrites, KillInWrite, KillInRewrite, KillInSummary

(* When main reaches the summary, the file holds a settled record of every *)
(* task under --limit, for any number of tasks, any pool and any order in  *)
(* which the workers finish.                                               *)
THEOREM SummaryIsOfSettledTasks == Spec => []DoneMeansSettled
  <1>1. Init => Done
    BY DEF Init, Done
  <1>2. TypeInv /\ Done => DoneMeansSettled
    <2> SUFFICES ASSUME TypeInv, Done, pc = "summarise", NEW t \in Task, t <= args.limit
                 PROVE  IsSettled(Existing[t], args.max)
      BY DEF DoneMeansSettled
    <2>1. tail.task = 0 /\ t # 0
      BY DEF Done, Closed, Task
    <2>2. Existing[t] = mem[t]
      BY <2>1 DEF Existing, Done
    <2> QED BY <2>2 DEF Done
  <1> QED BY <1>1, <1>2, DoneStep, TypeInvariant, PTL DEF Spec
==============================================================================
