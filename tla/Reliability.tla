----------------------------- MODULE Reliability -----------------------------
(***************************************************************************)
(* results/platform_arm/harness/reliability.py: verifier-gated retries     *)
(* over the tasks of a dataset.  An invocation loads the JSONL of earlier  *)
(* invocations, extends every task that is neither solved nor out of       *)
(* attempts, appends and flushes one line per task as workers finish, then *)
(* rewrites the file in task order and writes a summary.  It may be killed *)
(* at any point (attribution.sh and chain.sh do) and started again with    *)
(* another --max-attempts, --limit or --concurrency.                       *)
(* reliability_probe.py beside it, for the legacy protocol, is a copy with *)
(* another request body and reading of the completion (see Readings): all  *)
(* that this module models is the same in both.                            *)
(*                                                                         *)
(* The JSONL is kept as what load_existing makes of it: for each task the  *)
(* last parseable terminated line (disk), and the unterminated last line,  *)
(* if a kill left one (tail): tail.task = 0 when it does not parse.        *)
(***************************************************************************)
EXTENDS Integers, Sequences, FiniteSets

CONSTANTS Tasks,        \* number of tasks; task t is the t-th of the dataset
          Budgets,      \* the values of --max-attempts invocations are given
          MaxBudget,    \* an upper bound of them
          Limits,       \* the values of --limit
          Pools,        \* the values of --concurrency
          MaxRuns,      \* bound: the number of invocations
          TornWrites,   \* may a kill hit the write of a line?
          KillRewrite   \* may a kill hit the final rewrite of the file?

ASSUME TasksAssumption == Tasks \in Nat
ASSUME BudgetsAssumption == MaxBudget \in Nat /\ Budgets \subseteq 1..MaxBudget
ASSUME LimitsAssumption == Limits \subseteq Nat
ASSUME PoolsAssumption == Pools \subseteq Nat \ {0}

VARIABLES disk,      \* disk[t]: the record load_existing finds in terminated lines
          tail,      \* the unterminated last line of the file
          summary,   \* the last summary written
          pc,        \* where the invocation is; "down": none is running
          args,      \* its arguments
          mem,       \* existing, overwritten by results: its records
          work,      \* work[t]: where the pool is with task t
          runs       \* invocations so far

process == <<pc, args, mem, work, runs>>
vars == <<disk, tail, summary, process>>

Task == 1..Tasks
Nothing == [attempts |-> <<>>, passed_at |-> 0]
Closed == [open |-> FALSE, task |-> 0, rec |-> Nothing]
Garbage == [open |-> TRUE, task |-> 0, rec |-> Nothing]
NoArgs == [max |-> 0, limit |-> 0, pool |-> 0]
NoSummary == [args |-> NoArgs, results |-> [t \in Task |-> Nothing]]

HasRecord(rec) == rec.attempts # <<>>

(* Mutant: a line that does not parse makes the whole file unusable. *)
ExistingAllOrNothing ==
    [t \in Task |-> IF tail.open /\ tail.task = 0 THEN Nothing
                    ELSE IF tail.task = t THEN tail.rec ELSE disk[t]]

(* load_existing: the last line of a task wins, a line that does not parse *)
(* is skipped.                                                             *)
Existing == [t \in Task |-> IF tail.task = t THEN tail.rec ELSE disk[t]]

IsSettled(rec, max) == rec.passed_at # 0 \/ Len(rec.attempts) >= max

(* Mutant: attempts numbered from 0. *)
NextAttemptFromZero(rec) == Len(rec.attempts)

NextAttempt(rec) == Len(rec.attempts) + 1

(* Mutant: passed_at is not set when an attempt passes. *)
WithAttemptUnmarked(rec, ok) ==
    [attempts  |-> Append(rec.attempts, [attempt |-> NextAttempt(rec), passed |-> ok]),
     passed_at |-> 0]

(* attempts.append(...): attempt k passed or failed; an exception of the   *)
(* request, or the verifier, is a failed attempt like any other.           *)
WithAttempt(rec, ok) ==
    [attempts  |-> Append(rec.attempts, [attempt |-> NextAttempt(rec), passed |-> ok]),
     passed_at |-> IF ok THEN NextAttempt(rec) ELSE 0]

Busy == {t \in Task : work[t] \in {"running", "finished"}}
Running == {t \in Task : work[t] = "running"}
Unwritten == {t \in Task : work[t] \in {"queued", "running", "finished"}}

------------------------------------------------------------------------------
Init ==
    /\ disk = [t \in Task |-> Nothing]
    /\ tail = Closed
    /\ summary = NoSummary
    /\ pc = "down"
    /\ args = NoArgs
    /\ mem = [t \in Task |-> Nothing]
    /\ work = [t \in Task |-> "none"]
    /\ runs = 0

(* main up to the pool: load_existing, todo, open(args.out, "a"). *)
LaunchOf(max, limit, pool, todo) ==
    /\ pc = "down"
    /\ runs < MaxRuns
    /\ pc' = "run"
    /\ runs' = runs + 1
    /\ args' = [max |-> max, limit |-> limit, pool |-> pool]
    /\ mem' = Existing
    /\ work' = [t \in Task |-> IF t <= limit /\ t \in todo THEN "queued" ELSE "none"]
    /\ UNCHANGED <<disk, tail, summary>>

(* Mutant: a task with any record is skipped. *)
LaunchSkips(max, limit, pool) ==
    LaunchOf(max, limit, pool, {t \in Task : ~HasRecord(Existing[t])})

Launch(max, limit, pool) ==
    LaunchOf(max, limit, pool, {t \in Task : ~IsSettled(Existing[t], max)})

(* A worker takes the next task; without a pool the previous task must     *)
(* have been written first.  run_task hands a record that has passed, or   *)
(* whose range of attempts is empty, straight back.                        *)
StartTask(t) ==
    /\ pc = "run"
    /\ work[t] = "queued"
    /\ \A u \in Task : work[u] = "queued" => t <= u
    /\ IF args.pool = 1 THEN Busy = {} ELSE Cardinality(Running) < args.pool
    /\ work' = [work EXCEPT ![t] =
                  IF IsSettled(mem[t], args.max) THEN "finished" ELSE "running"]
    /\ UNCHANGED <<disk, tail, summary, pc, args, mem, runs>>

(* One turn of run_task's loop. *)
Attempt(t, ok) ==
    /\ pc = "run"
    /\ work[t] = "running"
    /\ mem' = [mem EXCEPT ![t] = WithAttempt(@, ok)]
    /\ work' = [work EXCEPT ![t] =
                  IF ok \/ NextAttempt(mem[t]) >= args.max THEN "finished" ELSE "running"]
    /\ UNCHANGED <<disk, tail, summary, pc, args, runs>>

(* The file after a line for task t: it is glued to an unterminated last   *)
(* line, if there is one, and then neither of the two parses.              *)
DiskWith(t, rec) == IF tail.open THEN disk ELSE [disk EXCEPT ![t] = rec]

(* out_f.write, flush, in the order as_completed yields the futures. *)
WriteLine(t) ==
    /\ pc = "run"
    /\ work[t] = "finished"
    /\ disk' = DiskWith(t, mem[t])
    /\ tail' = Closed
    /\ work' = [work EXCEPT ![t] = "written"]
    /\ UNCHANGED <<summary, pc, args, mem, runs>>

(* Mutant: waits for tasks that were never queued. *)
TruncateAfterAll ==
    /\ pc = "run"
    /\ \A t \in Task : work[t] = "written"
    /\ pc' = "rewrite"
    /\ disk' = [t \in Task |-> Nothing]
    /\ tail' = Closed
    /\ UNCHANGED <<summary, args, mem, work, runs>>

(* open(args.out, "w") truncates the file before the sorted lines are in it. *)
Truncate ==
    /\ pc = "run"
    /\ Unwritten = {}
    /\ pc' = "rewrite"
    /\ disk' = [t \in Task |-> Nothing]
    /\ tail' = Closed
    /\ UNCHANGED <<summary, args, mem, work, runs>>

(* Mutant: only the tasks under --limit are written back. *)
RewriteUnderLimit ==
    /\ pc = "rewrite"
    /\ pc' = "summarise"
    /\ disk' = [t \in Task |-> IF t <= args.limit THEN mem[t] ELSE Nothing]
    /\ UNCHANGED <<tail, summary, args, mem, work, runs>>

Rewrite ==
    /\ pc = "rewrite"
    /\ pc' = "summarise"
    /\ disk' = mem
    /\ UNCHANGED <<tail, summary, args, mem, work, runs>>

Summarise ==
    /\ pc = "summarise"
    /\ pc' = "down"
    /\ summary' = [args |-> args, results |-> mem]
    /\ work' = [t \in Task |-> "none"]
    /\ UNCHANGED <<disk, tail, args, mem, runs>>

------------------------------------------------------------------------------
(* Kills.  Memory is gone; what the kill leaves of the file depends on the *)
(* write it hits.                                                          *)

Dies ==
    /\ pc' = "down"
    /\ args' = NoArgs
    /\ mem' = [t \in Task |-> Nothing]
    /\ work' = [t \in Task |-> "none"]
    /\ UNCHANGED runs

KillBetweenWrites ==
    /\ pc = "run"
    /\ Dies
    /\ UNCHANGED <<disk, tail, summary>>

(* Only a part of the line reached the file: with parses = TRUE all of it  *)
(* but the newline.  Glued to an unterminated line it never parses.        *)
KillInWrite(t, parses) ==
    /\ TornWrites
    /\ pc = "run"
    /\ work[t] = "finished"
    /\ tail' = IF parses /\ ~tail.open
               THEN [open |-> TRUE, task |-> t, rec |-> mem[t]]
               ELSE Garbage
    /\ Dies
    /\ UNCHANGED <<disk, summary>>

(* The buffer has been drained up to the records of the first n tasks. *)
KillInRewrite(n) ==
    /\ KillRewrite
    /\ pc = "rewrite"
    /\ disk' = [t \in Task |-> IF t <= n THEN mem[t] ELSE Nothing]
    /\ tail' \in {Closed} \cup IF TornWrites THEN {Garbage} ELSE {}
    /\ Dies
    /\ UNCHANGED summary

(* Before open(args.summary, "w"), or between its truncation and the dump. *)
KillInSummary ==
    /\ pc = "summarise"
    /\ summary' \in {summary, NoSummary}
    /\ Dies
    /\ UNCHANGED <<disk, tail>>

Step ==
    \/ \E t \in Task : StartTask(t) \/ WriteLine(t)
    \/ \E t \in Task, ok \in BOOLEAN : Attempt(t, ok)
    \/ Truncate
    \/ Rewrite
    \/ Summarise

Kill ==
    \/ KillBetweenWrites
    \/ \E t \in Task, parses \in BOOLEAN : KillInWrite(t, parses)
    \/ \E n \in 0..Tasks : KillInRewrite(n)
    \/ KillInSummary

Next ==
    \/ \E max \in Budgets, limit \in Limits, pool \in Pools : Launch(max, limit, pool)
    \/ Step
    \/ Kill

Spec == Init /\ [][Next]_vars

(* A process that is not killed runs on; nobody is obliged to start or to  *)
(* kill one.                                                               *)
FairSpec == Spec /\ WF_vars(Step)

------------------------------------------------------------------------------
(* Properties *)

AttemptLog == Seq([attempt : 1..MaxBudget, passed : BOOLEAN])
Records == [attempts : AttemptLog, passed_at : 0..MaxBudget]
Tails == [open : BOOLEAN, task : 0..Tasks, rec : Records]
Arguments == [max : Budgets, limit : Limits, pool : Pools] \cup {NoArgs}

(* Every variable of the harness and of its files has its type. *)
TypeOK ==
    /\ disk \in [Task -> Records]
    /\ tail \in Tails
    /\ summary \in [args : Arguments, results : [Task -> Records]]
    /\ pc \in {"down", "run", "rewrite", "summarise"}
    /\ args \in Arguments
    /\ mem \in [Task -> Records]
    /\ work \in [Task -> {"none", "queued", "running", "finished", "written"}]
    /\ runs \in Nat

WellFormed(rec) ==
    /\ rec.passed_at \in {0, Len(rec.attempts)}
    /\ \A k \in 1..Len(rec.attempts) :
          /\ rec.attempts[k].attempt = k
          /\ rec.attempts[k].passed <=> rec.passed_at = k

(* Whatever was extended, killed, torn and resumed, every record that can  *)
(* be read back numbers its attempts 1, 2, ... without gap or repetition,  *)
(* and passed_at is the one attempt that passed, the last (run_task).      *)
RecordsWellFormed ==
    \A t \in Task : WellFormed(Existing[t]) /\ WellFormed(mem[t])

(* When main reaches the summary, the file holds a settled record of every *)
(* task under --limit, no matter in which order workers finished or what   *)
(* an earlier kill left of the file.                                       *)
DoneMeansSettled ==
    pc = "summarise" =>
        \A t \in Task : t <= args.limit => IsSettled(Existing[t], args.max)

Spent(rec, max) ==
    Len(rec.attempts) >= max \/ \E k \in 1..Len(rec.attempts) : rec.attempts[k].passed

(* No request is repeated by resuming: no attempt is made at a task of     *)
(* which the file already has an attempt that passed or as many attempts   *)
(* as this invocation allows (is_settled in main, run_task's early return  *)
(* and range), whatever earlier invocations were given.                    *)
SettledNeverRetried ==
    [][\A t \in Task :
          pc = "run" /\ pc' = "run" /\ mem'[t] # mem[t] =>
              ~Spent(Existing[t], args.max)]_vars

Extends(new, old) ==
    /\ Len(old.attempts) <= Len(new.attempts)
    /\ \A k \in 1..Len(old.attempts) : new.attempts[k] = old.attempts[k]

(* What the harness has on record: the file, or, while the file is being   *)
(* rewritten, what is being written to it.                                 *)
OnRecord == IF pc = "rewrite" THEN mem ELSE Existing

Lost == {t \in Task : ~Extends(OnRecord'[t], OnRecord[t])}

(* Lines this invocation has written that cannot be read back. *)
Unreadable == {t \in Task : work[t] = "written" /\ ~Extends(OnRecord[t], mem[t])}
NewlyUnreadable == Unreadable' \ Unreadable

(* "append mode for resumability; existing lines are already on disk", and *)
(* attribution.sh of a killed run: "resumes from its own JSONL, so nothing *)
(* is lost".                                                               *)
NothingLost == [][Lost = {}]_vars

(* Outside of the final rewrite, what is on record is lost, and a line     *)
(* that was written whole cannot be read back, only where a kill has torn  *)
(* the file's last line (out_f.write of the next invocation glues its      *)
(* first line to it): the torn line's record, if it still parsed, and the  *)
(* line glued to it, two at the most.  After that line the file ends in a  *)
(* whole line and loses nothing more, unless a kill tears another line.    *)
TornLineCostsTwo ==
    [][pc # "rewrite" =>
          /\ Cardinality(Lost) <= 1 /\ Cardinality(NewlyUnreadable) <= 1
          /\ Lost \cup NewlyUnreadable # {} => tail.open
          /\ Lost \cup NewlyUnreadable # {} /\ pc' = "run" => ~tail'.open]_vars

Ledger == INSTANCE AttemptLedger WITH ledger <- OnRecord

(* With lines written whole and no kill during the rewrite, the file       *)
(* implements the abstract ledger of attempts.                             *)
LedgerSpec == Ledger!Spec

(* An invocation that is not killed ends: no order in which workers finish *)
(* leaves a task unserved or the file unwritten.                           *)
RunsFinish == pc = "run" ~> pc = "down"
==============================================================================
