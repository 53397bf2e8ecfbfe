------------------------------ MODULE BestOfN ------------------------------
(***************************************************************************)
(* bestofn.py: k candidates are sampled for each task, run against its     *)
(* hidden tests and, where the prompt has usable examples, its visible     *)
(* ones; the first candidate that passes the visible tests is selected.    *)
(* The results file is replaced as a whole after every task.  Any number   *)
(* of invocations with other --k and --limit share it, and any of them may *)
(* be killed anywhere; a task whose id is on file is not sampled again.    *)
(***************************************************************************)
EXTENDS Integers, FiniteSets, Functions, Sequences

CONSTANTS NTasks,    \* tasks of the data set
          Examples,  \* the tasks with usable examples in their prompt
          Ks,        \* values of --k
          MaxRuns    \* bound: the number of invocations

Task == 1..NTasks

ASSUME ConstantsAssumption ==
    /\ NTasks \in Nat \ {0} /\ Examples \subseteq Task
    /\ Ks \subseteq Nat \ {0} /\ MaxRuns \in Nat

VARIABLES file,   \* --out: [k, tasks, wall], tasks and the candidates of each
          pc, k, limit,  \* where the process is, --k, --limit
          mem,    \* tasks_by_id
          i,      \* the item it is at
          cands,  \* its candidates so far
          prior, t0,     \* prior_wall_time; when this invocation started
          now, busy,     \* the clock, one tick per sample; how long an invocation was running
          runs

vars == <<file, pc, k, limit, mem, i, cands, prior, t0, now, busy, runs>>

(* A candidate is the set of tests it passes, or a request that failed. *)
Candidates(t) == {{"error"}} \cup SUBSET (IF t \in Examples THEN {"hidden", "visible"} ELSE {"hidden"})

NoTasks == [t \in {} |-> <<>>]
NoFile == [k |-> 0, tasks |-> NoTasks, wall |-> 0]

HiddenPassCount(c) == Cardinality({n \in DOMAIN c : "hidden" \in c[n]})

(* Mutant: the last candidate that passes the visible tests. *)
SelectedLast(c) ==
    LET passing == {n \in DOMAIN c : "visible" \in c[n]} IN
    IF passing = {} THEN 1 ELSE CHOOSE n \in passing : \A o \in passing : n >= o

(* selected_index: the first candidate that passes the visible tests, else *)
(* the first; without examples no candidate passes them.                   *)
Selected(c) ==
    LET passing == {n \in DOMAIN c : "visible" \in c[n]} IN
    IF passing = {} THEN 1 ELSE CHOOSE n \in passing : \A o \in passing : n <= o

(* What two of the sums of compute_aggregate count. *)
SolvedByAny(tasks) == {t \in DOMAIN tasks : HiddenPassCount(tasks[t]) > 0}
SolvedBySelected(tasks) == {t \in DOMAIN tasks : "hidden" \in tasks[t][Selected(tasks[t])]}

(* compute_aggregate, its quotients left as pairs of counts. *)
Aggregate(tasks) ==
    [n_tasks |-> Cardinality(DOMAIN tasks),
     total_k |-> SumFunction([t \in DOMAIN tasks |-> Len(tasks[t])]),
     hidden |-> SumFunction([t \in DOMAIN tasks |-> HiddenPassCount(tasks[t])]),
     any |-> Cardinality(SolvedByAny(tasks)),
     selected |-> Cardinality(SolvedBySelected(tasks))]

------------------------------------------------------------------------------
Init ==
    /\ file = NoFile
    /\ pc = "down" /\ k = 0 /\ limit = 0
    /\ mem = NoTasks
    /\ i = 0 /\ cands = <<>>
    /\ prior = 0 /\ t0 = 0
    /\ now = 0 /\ busy = 0
    /\ runs = 0

(* run up to the loop; time has passed since the last invocation. *)
Launch(kk, l) ==
    /\ pc = "down" /\ runs < MaxRuns
    /\ runs' = runs + 1
    /\ k' = kk /\ limit' = l
    /\ now' = now + 1 /\ t0' = now'
    /\ mem' = file.tasks
    /\ prior' = file.wall
    /\ i' = 1 /\ cands' = <<>>
    /\ pc' = "items"
    /\ UNCHANGED <<file, busy>>

(* A task on file is skipped; past the last item the file is written once more. *)
Skip ==
    /\ pc = "items" /\ i <= limit /\ i \in DOMAIN mem
    /\ i' = i + 1
    /\ UNCHANGED <<file, pc, k, limit, mem, cands, prior, t0, now, busy, runs>>

(* One candidate of process_task: a request, and the programs run on it. *)
Sample ==
    /\ pc = "items" /\ i <= limit /\ i \notin DOMAIN mem
    /\ Len(cands) < k
    /\ \E c \in Candidates(i) : cands' = Append(cands, c)
    /\ now' = now + 1 /\ busy' = busy + 1
    /\ UNCHANGED <<file, pc, k, limit, mem, i, prior, t0, runs>>

(* The end of process_task: the task counts as done from here on. *)
Finished ==
    /\ pc = "items" /\ i <= limit /\ Len(cands) = k
    /\ mem' = [t \in DOMAIN mem \cup {i} |-> IF t = i THEN cands ELSE mem[t]]
    /\ cands' = <<>>
    /\ pc' = "write"
    /\ UNCHANGED <<file, k, limit, i, prior, t0, now, busy, runs>>

Last ==
    /\ pc = "items" /\ i > limit
    /\ pc' = "write"
    /\ UNCHANGED <<file, k, limit, mem, i, cands, prior, t0, now, busy, runs>>

(* Mutant: each write adds the time since the start to the time on file. *)
PayloadAddsUp ==
    [k |-> k, tasks |-> Restrict(mem, DOMAIN mem \cap 1..limit), wall |-> file.wall + (now - t0)]

(* What is written: this run's parameters, its items among the tasks done, *)
(* the time of the earlier invocations and of this one.                    *)
Payload ==
    [k |-> k, tasks |-> Restrict(mem, DOMAIN mem \cap 1..limit), wall |-> prior + (now - t0)]

(* Mutant: the results file is written in place. *)
WriteInPlace ==
    /\ pc = "write"
    /\ file' = NoFile
    /\ pc' = "replace"
    /\ UNCHANGED <<k, limit, mem, i, cands, prior, t0, now, busy, runs>>

(* write_out up to os.replace: the payload goes to a file beside it. *)
Write ==
    /\ pc = "write"
    /\ pc' = "replace"
    /\ UNCHANGED <<file, k, limit, mem, i, cands, prior, t0, now, busy, runs>>

(* What the process knew is gone. *)
Down ==
    /\ pc' = "down"
    /\ mem' = NoTasks
    /\ i' = 0 /\ cands' = <<>>
    /\ prior' = 0 /\ t0' = 0

Replace ==
    /\ pc = "replace"
    /\ file' = Payload
    /\ IF i > limit
       THEN Down
       ELSE pc' = "items" /\ i' = i + 1 /\ UNCHANGED <<mem, cands, prior, t0>>
    /\ UNCHANGED <<k, limit, now, busy, runs>>

(* Killed, or without a server to ask for its model. *)
Kill ==
    /\ pc # "down"
    /\ Down
    /\ UNCHANGED <<file, k, limit, now, busy, runs>>

Next ==
    \/ \E kk \in Ks, l \in Task : Launch(kk, l)
    \/ Skip
    \/ Sample
    \/ Finished
    \/ Last
    \/ Write
    \/ Replace
    \/ Kill

Spec == Init /\ [][Next]_vars

------------------------------------------------------------------------------
(* A re-run skips what already has a full result: as long as --limit still *)
(* covers a task on file, no kill, no other --k and no later invocation    *)
(* changes or drops its record.                                            *)
FinishedTasksKept ==
    [][\A t \in DOMAIN file.tasks : t <= limit =>
          t \in DOMAIN file'.tasks /\ file'.tasks[t] = file.tasks[t]]_vars

(* wall_time_s covers the sampling of every candidate on file. *)
SamplingIsCovered == Aggregate(file.tasks).total_k <= file.wall

(* wall_time_s is no longer than the invocations ran. *)
WallWithinRuns == file.wall <= busy

(* wall_time_s adds up over the invocations: it covers the sampling of     *)
(* every candidate on file and is no longer than the invocations ran,      *)
(* however often the file is rewritten, resumed and a process killed.      *)
WallTimeHonest == SamplingIsCovered /\ WallWithinRuns

(* Selecting by visible tests never beats picking by the hidden ones. *)
SelectedIsAtMostAny == Aggregate(file.tasks).selected <= Aggregate(file.tasks).any

(* Selecting by visible tests does not lose to the first candidate when    *)
(* code that passes the hidden tests passes the visible ones.              *)
SelectedIsAtLeastFirst ==
    LET c == file.tasks IN
    (\A t \in DOMAIN c : \A n \in DOMAIN c[t] :
         t \in Examples /\ "hidden" \in c[t][n] => "visible" \in c[t][n])
    => Cardinality({t \in DOMAIN c : "hidden" \in c[t][1]}) <= Aggregate(c).selected

(* The mean over all candidates is not above pass@k. *)
MeanIsAtMostAny ==
    LET a == Aggregate(file.tasks) IN a.hidden * a.n_tasks <= a.any * a.total_k

EqualKs == \A s, t \in DOMAIN file.tasks : Len(file.tasks[s]) = Len(file.tasks[t])

(* Whatever mixture of invocations the tasks on file come from, selecting  *)
(* by visible tests lies between the first candidate and the best one; the *)
(* mean over all candidates is not above pass@k where no two tasks on file *)
(* come from different --k, which the resume does not see to.              *)
ScoresOrdered ==
    /\ SelectedIsAtMostAny
    /\ SelectedIsAtLeastFirst
    /\ EqualKs => MeanIsAtMostAny
==============================================================================
