# A TLA+ model of the q27b_on_12gb measurement code

The repository measures what a 27B model can do on one 12 GB card: it keeps the
harness that scores builds, the shell scripts that share the card between
experiments, probes of clock states and of speed, and two pieces of C++ that
prototype changes of the inference loop.  What can go wrong in it is seldom a
formula.  It is a resumed run that repeats or drops work, a script killed at the
wrong moment, a server that answers for another, a contribution to the residual
stream that arrives one block early.  This directory models those parts in
TLA+, checks them with TLC on small instances, and proves with TLAPS, for every
instance, all of the safety properties that hold and none of the liveness ones.

## 1. The system

| Component | Source | State | Operations | Hard about it |
|---|---|---|---|---|
| Reliability harness | `results/platform_arm/harness/reliability.py` | JSONL of records, summary, records in memory, worker pool | load, extend a task, append a line, sort and rewrite, summarise | kills during a write, resuming with another budget, limit or pool, order of completion |
| Platform arm scripts | `platform_arm.sh`, `legacy_arm.sh`, `chain.sh`, `attribution.sh` beside it | the card's memory, port 18099, one JSONL per tag, a log line that is a signal | guard, prewarm, launch, `/health`, evaluate, stop, gate, take over, `pkill` by name | two drivers, checks that are stale when used, servers that outlive their script |
| Expert-deferral graph builder | `deferral_smoke/deferral_sim.patch` | residual stream, pending slots | join, reduce rows, push, flush, conservation assert, schedule log | off-by-one at every clamp |
| Split scheduler toy | `exp3.2_sched_overlap/sched_toy.cpp` | mutex, two condition variables, job, CUDA stream | submit, wait, quit, four ways of running a pair of splits | lost wakeups, early joins, shutdown |
| Clock and power probe | `oc_probe.py` | the card's clock state, results file | apply an arm, bench, server cell, tripwire, revert | exceptions, kills, state that outlives the process |
| Best-of-n evaluation | `harness/bestofn.py` | results file, replaced as a whole | read the examples of a prompt, sample, select by visible test, resume by id | what a cached task stands for, time that is added up |
| Placement and speed sweeps | `results/cert35b/cert35b_sweep.py`, `turbo4_eval.py` | JSON results written in place, a server per cell | run a cell, skip finished cells | exceptions that escape `run_cell`, torn files, orphans on the card |
| Stack test, round budget, nsys rounds | `stack_test.py`, `roundbudget.py`, `nsys_round.py` | JSON results, a server per arm | arms, tripwires that stop the run, traces | what each stops, and what a re-run skips |
| Matrix driver | `harness/run_matrix.py`, `eval_quality.py`, `bench_speed.py` | JSONL rows, downloaded data sets, monitor thread | start, evaluate, stop, bench, append | stages that fail on their own, memory still held, cut downloads |
| Statistics | `results/cert35b/cmp_paired.py`, `analyze_platform.py` | none | load, pair, exact McNemar, Wilson | repeated lines, unequal task sets |
| Speculation bake-off | `harness/s2_speculation.sh` | TSV rows, output files | rows, losslessness gate | rows that are never retried |

The components meet in few places.  `chain.sh` and `attribution.sh` run
`platform_arm.sh`, which starts a llama-server and then `reliability.py` against
port 18099.  `run_matrix.py` calls `eval_quality.py` and `bench_speed.py`,
`bestofn.py` the programs of `eval_quality.py`, and `stack_test.py` the scoring
of `reliability.py`; `cmp_paired.py` reads the JSONL files of two runs.  All
drivers share the card, and learn about each other only from the memory
`nvidia-smi` reports.  Nothing uses locks or transactions: files, process names
and log lines are the protocol.

`PROJECT.json` lists every component with its status, and under `hazards` each
place in the code where such a thing bites, with the property that watches it
or the reason none does.

## 2. Modules

| Module | Models | Uses |
|---|---|---|
| `AttemptLedger` | what the JSONL promises: attempts of a task are only ever extended | |
| `Reliability` | `reliability.py`, its files and its kills | refines `AttemptLedger` |
| `Extraction` | the code of a completion | |
| `ReliabilityProofs` | theorems about `Reliability` | `TLAPS` |
| `PlatformArm`, `MCPlatformArm` | the four shell scripts, the harness as they see it, the servers | |
| `PlatformArmProofs` | theorems about `PlatformArm` | `TLAPS` |
| `Deferral`, `MCDeferral` | the graph-building loop of the patch | |
| `DeferralProofs` | theorems about `Deferral` | `TLAPS` |
| `SplitJoin` | the serial sequence of joins | |
| `SchedWorker` | the two threads, the stream and the Worker | refines `SplitJoin` |
| `SchedWorkerProofs` | theorems about `SchedWorker` | `TLAPS` |
| `ClockProbe`, `MCClockProbe` | `oc_probe.py` and the card's clock state | |
| `ClockProbeProofs` | theorems about `ClockProbe` | `TLAPS` |
| `BestOfN` | `bestofn.py`: sampling, selection and the resumed results file | |
| `Sweep` | ten drivers as policies over the life of one measured cell | |
| `SweepProofs` | theorems about `Sweep` | `TLAPS` |
| `Matrix` | `run_matrix.py` with the evaluation and the bench it calls | |
| `MatrixProofs` | theorems about `Matrix` | `TLAPS` |
| `Readings` | what is read out of completions, prompts, GPU traces and result files | extends `Extraction` |
| `ScoringProofs` | theorems about `Readings` and `BestOfN`, and about the sums, orders and choices they count with | `TLAPS` |

Definitions keep the source's names where they can.  A definition that follows a
comment "Mutant" is a plausible wrong version of the definition after it; it is
part of no specification, and `PROJECT.json` says which property rejects it.

### Reliability

The JSONL is kept as what `load_existing` makes of it: `disk[t]`, the last
parseable terminated line of task `t`, and `tail`, the unterminated last line a
kill may leave (`tail.task = 0` when it does not parse).  `mem` is
`results_by_id`; since a worker's record of a task is only looked at through the
line written for it, the attempts of a running task are counted there too.
`work` says where the pool is with each task.  `Launch` is `main` up to the pool,
`StartTask` a worker taking the next task, `Attempt` one turn of `run_task`'s
loop, `WriteLine` the append and flush in the order in which futures complete,
`Truncate` and `Rewrite` the two halves of `open(args.out, "w")` and the sorted
lines, `Summarise` the summary.  An attempt's text, seed and error are abstracted
to whether it passed: a request that fails is a failed attempt in the code too.
`reliability_probe.py` is a copy of the harness with two flags that change the
request body and the reading of a completion, so the module is of both, and some
of its definitions are mapped to the copy.

Kills are separate actions because each leaves something else behind: between
writes nothing, during a line the start of a line or all of it but the newline,
during the rewrite the records of the first `n` tasks and perhaps a torn one,
during the summary an empty one.  A line written after an unterminated one is
glued to it and neither parses (`DiskWith`).

### PlatformArm

A job is one invocation of `platform_arm.sh` or `legacy_arm.sh`; `job[j]` is
where it is in its script and `srv[j]` what became of the server it launched.
`memory` and `results` are the harness's records and the JSONL of each tag, in
both of which a task is `"none"`, `"error"`, or the build of whichever server
answered.  `chain` and `attr` are the two drivers.  llama-server is external: it
binds its port first, dies if it cannot or if the card is not free, loads,
answers `/health` when up, and takes its time to die.

- `mode` is chosen once: `"chain"` is `chain.sh` alone, `"faulty"` lets its
  bounded polling loops run out and its servers die, `"takeover"` adds
  `attribution.sh`.  Each property says which modes it is about.
- `curl` and `nvidia-smi` are modelled by what they can see: any server that is
  up answers, any server with memory keeps the guard waiting.
- `SUB4 PHASE COMPLETE` and the start of the Q8_0 resume are one step: only an
  `echo` lies between them.
- `get_model_info` fails exactly when no server is up.
- Every job asks one attempt per task with one worker, as the scripts do
  (`--max-attempts 1 --concurrency 1`); the pool and torn files are in
  `Reliability`.
- The chain's log is that of one run: a `SUB4 PHASE COMPLETE` left in it by an
  earlier one, which would let `attribution.sh` take over at once, is on the
  hazard list and not in the model.
- `Calm` (no loop may run out and no server die, and `attribution.sh` has not
  taken over) is the condition of what is said of the card and of the answers:
  from the takeover on two scripts start servers, and the guard is a check before
  an act.

### Deferral

A tensor is what the loop can get wrong of it: how many times each block's
routed contribution is in the sum, and whether its rows are all tokens or the
output tokens.  Attention, shared expert and control vectors are never deferred
and are left out.  `DepthOf` and `LayersOf` are `llama_defer_read_env` and the
clamp after it, `Slot` is the clamp of `defer_push`, `LoggedTarget` and
`LoggedStale` what the schedule log prints.  `pc = "aborted"` is the failed
`GGML_ASSERT`.

### SchedWorker

One behaviour runs one of the four modes.  A critical section is one action,
notifications are steps of their own after it, and a wait that finds its
predicate false gives up the mutex and sleeps until it is notified or wakes
spuriously.  The CUDA stream completes by itself.  An output is the number of
the iteration it was computed in; a join that reads an output still being
written reads 0.

### ClockProbe

`card` is what nvidia-smi has set, `launched` the servers and benches that hold no
memory on it yet and `onGpu` those that do, orphans of killed probes included.
The guard looks at memory, so it cannot see the former; `unseen` remembers which
were left to themselves in that state.  `/health` is answered by any server on
the port.  Each nvidia-smi command is a step, so a kill may leave half an arm
applied.  `Raise` stands for every
exception inside the try (a failed command, the guard's `sys.exit`, a timeout, a
summary line that cannot be formatted, Ctrl-C); it runs both finally blocks, of
which the inner one does not cover the wait in `start_server`; `Kill` runs
neither.  `json.dump` truncates first, so the file is `Torn` between
`Judge` and `Dump`, and a torn file lets no later invocation start.  The
persistence mode that `apply_arm` switches on is part of `card` and not of
`Locks`: `revert_all` does not switch it off.

### BestOfN

`file` is the results file; `mem` is `tasks_by_id`.  A candidate is the set of
tests it passes, or `{"error"}`: the request failed and it passes none.  The
clock ticks once per sample and once between invocations, and `busy` counts only
the ticks of a running process: `wall_time_s` is checked against it.  `Write` is
the temporary file, which nobody reads, and `Replace` is `os.replace`.  The
quotients of `compute_aggregate` stay pairs of counts.

### Sweep

The drivers repeat one shape, and each of them is a record of what it does
differently (`Policy`): which cells it may be asked for, which records it takes
for done, of which cells a request, answered or not, may raise something nothing
catches, which results stop it, whether a `finally` stops the server, and
whether servers are stopped by their port.  The actions of the lifecycle are
each mapped to one of the drivers that share them.

- A server holds no memory until `Allocate`, and it binds the port only while no
  other answers.  `Stop` sends the signal; the memory goes later, and the wait
  for the card is bounded, so the next guard may meet it.
- An exception is `rec.status = "raised"`: it goes through the `finally`, if
  there is one, and ends the run before the record is on file.
- A kill leaves the server and, between `Record` and `Dump`, a torn file, which
  every later `json.load` fails on.
- `leak` is what the tripwires look at: leaked thinking, and for arm B of
  `stack_test.py` also its mean length.
- A driver may also be killed between launching a server and that server's
  taking its memory.  Such an orphan is invisible to the guard, and nothing the
  code looks at tells it; `unseen` remembers it, and `MeasuredAlone` exempts it
  and nothing else.  One driver runs at a time.
- `analyse` of `nsys_round.py` may raise when the server is already stopped and
  nothing is on file (`stopped` of the policy).
- `roundbudget.py` and `nsys_round.py` import `speed_recert.py`, which is not in
  the repository; what they use of it is taken to be what `cert35b_sweep.py` does.

### Matrix

`row` is the row being built, `left` and `items` the loop over a suite, `srv` and
`bench` the two processes, `peak` who was on the card at some poll of the monitor
thread.  `answered` says whether the server ever answered the evaluation: nothing
in the code does.  `stray` is a process that a killed invocation, or one that
could not stop its server, left behind; the driver takes a free port and never looks at
the card, so a stray perturbs no request but is part of the peak.  `data` is the
data directory: an attempt to fetch or unpack a file leaves none of it, a part,
or all, and a download may be cut without an exception.  A kill inside of the
append leaves a cut line, to which the next row is glued (`Written`); neither
can be read, and nothing in the repository reads the file.  Whether the model file exists is a choice.  llama-bench is assumed to end
(`BenchEnds` is fair): the code gives it no timeout.

### Readings

A completion or a prompt is a sequence of kinds of lines, of which all but the
last end in a newline (an opening fence needs one), a trace a sequence of
intervals, a result file a sequence of lines.  A behaviour is one input and one
function applied to it, and each function is checked against a definition that
has nothing of its algorithm: the first block by lines of backquotes that open
and close in turn (`Extraction`), the examples by quantification over pairs of
lines, busy time by counting ticks, the p-value by counting all swaps of the two
sides (`IsShareOfSwaps`).  `ivals.sort()` is some
ordered arrangement of the operations, and the loop that merges them appends to
or extends the last block (`Merge`), which the code keeps in `cs` and `ce`.  Times
are whole numbers here and floats of nanoseconds there; the gaps stay in order
of time, since only the percentiles, which are left out, need them sorted.

## 3. What is checked

| Run | Instance | Shows |
|---|---|---|
| `rel_resume` | 2 tasks, budgets and limits and pools 1..2, 3 invocations, kills between writes | `LedgerSpec`: the JSONL implements `AttemptLedger` |
| `rel_kills` | the same, with torn lines and kills in the rewrite | `RecordsWellFormed`, `SettledNeverRetried`, `DoneMeansSettled`, `TornLineCostsTwo`, `RunsFinish` |
| `rel_rewritekill` | kills in the rewrite | **violates** `NothingLost` |
| `arm_scripts` | all three modes, 1 sub-4-bit build, 2 tasks, gate at 1 | `NothingPerturbs`, `AnswersAreTheBuilds`, `Sub4Intact`, `NoServerOutlivesItsArm`, `AnswersKept`, `ChainCompletes`, `AttributionCompletes` |
| `arm_anchor` | chain and attribution | **violates** `AnchorIntact` |
| `deferral_schedule` | 5 blocks, depths -1..7, layers -1, 0, 1, 3, 5, 16 | `DeliveredOnce`, `ExactlyDBlocksStale`, `LogTellsTheSchedule`, `RowsAgree` |
| `sched_modes` | 3 iterations, all modes | `JoinAfterBothSplits`, `NoJobDropped`, `WorkerUsesLiveObjects`, `JoinsInSeries`, `LoopEnds` |
| `clock_probe` | the code's 5 arms, 4 choices of `--arms`, 2 of `--server-arms`, 2 invocations | `MeasuredUnderItsArm`, `MeasuredAlone`, `RevertUndoesTheArm`, `UnstableIsTheLast` |
| `bestofn_resume` | 2 tasks, one with examples, `--k` 1 or 2, 3 invocations | `FinishedTasksKept`, `WallTimeHonest`, `ScoresOrdered` |
| `sweep_drivers` | 10 drivers, 2 cells, 2 requests, 2 invocations | `MeasuredAlone`, `NoOrphanWithoutAKill`, `ResumeKeepsAndRetries`, `SweepEnds` |
| `matrix_rows` | 2 entries, 2 items, 2 invocations, the second on fewer than 2 rows | `PeakIsTheBenchs`, `OkRowsAreWhole`, `MatrixEnds` |
| `readings_all` | texts up to 5 lines, traces up to 3 operations, 4 tasks | `FirstBlockIsScored`, `ExamplesAreCallAndResult`, `BusyIsTheUnion`, `PValueIsExact` |

Deadlock checking is off in every run: a script, a program and a bounded number
of invocations really end.

**Bounds.**  Two tasks are enough for one to be settled, written or lost while
the other is not; two budgets for extending; three invocations for a kill, the
invocation that meets what it left, and the one after that.  One build and the
Q8_0 runs around it make the chain pass from one build to the next and back.  Five blocks and depths up to seven put
knobs on both sides of every clamp and let a contribution cross zero to four
blocks.  Three iterations let an output of one iteration be mistaken for that of
an earlier one, and shutdown follow a busy iteration.  Two invocations let a
second probe, sweep or matrix meet what a killed one left on card, file and
memory; a second matrix begins on no or one row or cut line (`MaxRows`), to which
its own first row is glued, and may be killed inside of its second.  Two entries
let a bench follow the entry before.  Two cells let one be complete, torn or held up by the other's server; two
requests let one be answered and the other fail.  Five lines hold two blocks, or
two examples with something between them, and three operations one that ends
inside of an earlier one after another that does.

**Fairness.**  `Reliability`: a process that is not killed runs on (`WF` of its
steps); nothing obliges anyone to start or kill one.  `PlatformArm`: each script
and each server is a process, so each has weak fairness of its own; a failing
load or a crash has none.  `SchedWorker`: both threads are scheduled and the
stream makes progress; spurious wakeups have no fairness, so no property relies
on one.  `Sweep` and `Matrix`: a driver that is not killed goes on, and a server
that was launched takes its memory; that servers come up, die or free their
memory has no fairness, so the drivers end by their own timeouts.

**Disagreements with the repository's own words.**

1. `rel_rewritekill`: `attribution.sh` kills the harness because it "resumes from
   its own JSONL, so nothing is lost".  A kill that hits the final rewrite finds
   the file truncated and loses records that were on disk.
2. `arm_anchor`: the same words.  `attribution.sh` looks for the harness of the
   Q8_0 resume (line 22) while the resume still waits for `/health` and has none;
   then the harness starts, and line 24 kills the resume's own server under it.
   The failed requests settle their tasks in the anchor's JSONL, so the restart at
   the end of the script does not ask them again.

Others were met while modelling and have no run of their own; the models follow
the code, and the properties claim no more than it keeps.

- The guard of `platform_arm.sh` (lines 27-28) promises that "nothing else on this
  box can perturb the measurement", but `dd` reads the whole model after it.  A
  resume that is prewarming survives the takeover's kills, since it has no harness
  and no server yet, and launches its server next to that of an attribution arm.
  `NothingPerturbs` is about the time before the takeover.
- The paper's pass@k is "the oracle ceiling" (`pub/PAPER.md:393`).  A task on file
  is kept by its id whatever `--k` it was sampled with; pass@1 is then an average
  over candidates and pass@k one over tasks, and with two candidates that pass and
  a third, of another task, that fails it is 2/3 above 1/2.  `ScoresOrdered` puts
  pass@1 below pass@k only for files in which all tasks have as many candidates
  (`EqualKs`).
- `run_matrix.py:13` is "robust to server crashes/timeouts: each stage is wrapped so
  a failure is recorded as a row with status != "ok"".  The evaluation catches the
  failure of every request and counts a wrong answer, so a server that dies before
  it has answered anything leaves a row that says ok.  `OkRowsAreWhole` takes an
  evaluation that came to its end for a whole one.
- `fence_unclosed` is "True if the model opened a code fence but never closed it"
  (`reliability.py:183`).  A block opened as `py` or `Python` and closed counts too,
  since only the second of the two regular expressions knows those spellings, and
  so may one of another language, whose closing fence is taken for an opening one,
  and the prose after it for code.  `FirstBlockIsScored` is about texts whose first
  fence is bare or says `python`.
- `reliability.py:352` says unsolved tasks contribute the full budget to the
  summary; it is given every record of the file, also those of a run with another
  budget or beyond `--limit`.
- `oc_probe.py:16` marks an arm that falls below the stock arm; an invocation
  that has not measured the stock arm itself compares nothing.
- `run_matrix.py` records the failure of each stage; but a server that cannot be
  launched (line 132) or will not die (line 87) ends the matrix without a row.
- `cert35b_sweep.py:327` "never raises", but its guard exits the program
  (line 101), and `turbo4_eval.py:304` formats a speed that may be missing;
  `stack_test.py:412` does the same after an arm of failed requests only, and
  the arm's record is lost.
- `bench_speed.py:156`: when llama-bench cannot be launched the monitor thread is
  not stopped; it polls on, for nobody.

## 4. What is proved

Proofs are in the `...Proofs` modules, for every value of the constants that
satisfies the named assumptions of the module (`TasksAssumption`,
`BudgetsAssumption`, ...), which TLC evaluates in the runs.

The assumptions say no more than that sizes are natural numbers, that knobs
which the code divides or loops by are positive, and that lists are lists of
what they are lists of; `PlatformArm` takes its sub-4-bit builds from the three
of `chain.sh`, in any order and number, and `Sweep` its drivers from the ten of
`Policy`.

**ReliabilityProofs.**  `TypeCorrect`: `Spec => []TypeOK` needs, beyond types,
that a record which is still worked on has fewer attempts than the budget, or
the bound `MaxBudget` on the records would not be inductive.  `RecordsCorrect`:
records are well formed through any kills; the invariant says it of all the
places a record can come back from (disk, tail, memory) and adds that a task
that is queued or running is not solved, which is what makes appending an
attempt preserve it.  `ImplementsLedger`: under `~TornWrites` and `~KillRewrite`
each step maps to a step of `AttemptLedger` or a stutter.  Only `WriteLine` is
not a stutter, and the invariant that supports it relates memory to the file:
memory extends the record on file of a task being worked on, is equal to it for
every other task, and equals the whole file when the rewrite starts.

Torn lines and kills in the rewrite break that equality, so the next two need a
weaker relation, `Kept`: memory continues what `load_existing` would read *and*
what is on disk below a torn line, and a torn line continues the line before it.
`NothingSettledIsRetried` follows because what is settled stays settled in a
record that continues it, `TornLinesCostTwo` because outside of the rewrite a
step touches at most the line of the task that is written and the torn line it
is glued to: what is lost, and what was written whole and cannot be read, is one
task each, and afterwards the file ends in a whole line.  A torn line may
therefore cost two records over two invocations, its own and the next.
`SummaryIsOfSettledTasks` needs `Done`: a task under
`--limit` that is neither queued nor running is settled, so an empty pool leaves
none, and the rewrite starts behind a whole line.

**PlatformArmProofs.**  `ArmsStopTheirServers` needs that each driver has one
job at a time (`Sequential`, a driver killed by `pkill` starts none) and that a
job before its launch or after its reaping has no server (`Reaped`).
`Sub4ResultsSurvive` needs the order of phases (`Progress`): `SUB4 PHASE
COMPLETE` means that every build's job is done, and the takeover comes after it.
The three theorems about answers need what is true until the takeover, while no
loop runs out and no server dies (`Calm => Honest`): a harness asks its own
server, knows what is in its JSONL, and what is there is of its build.  Calm,
once over, is over for good, so the implication is inductive where `Honest` is
not; `chain.sh` alone is always calm.

**DeferralProofs.**  One inductive invariant says, for each block `b`, where its
contribution is at every point of the loop: not yet computed, in slot `Slot(b)`
and nowhere else, or in the stream once.  From it follow conservation,
the staleness of exactly `depth` inputs, the equality of the log and the loop,
and (with the rows of each slot) that shapes agree, for every `NLayer`.

**SchedWorkerProofs.**  The inductive invariant ties the main thread's step to
the fields of the Worker and to the other thread (a job is either queued,
running or reported, for this iteration) and gives `JoinAfterBothSplits`,
`NoJobDropped` and `WorkerUsesLiveObjects` for every number of iterations, then
the refinement of `SplitJoin`.

**ClockProbeProofs.**  `EveryArmIsAClockState`: each nvidia-smi command is a step
and may be the last, so the invariant says of every setting of the arm that
either a command on the list still sets it and no later one touches it, or no
command on the list does and the card has it (`SetOrToSet`).  That holds
when the list is made, whatever a killed invocation left on the card, and with
the list empty it is the arm's clock state.  `FinallyRevertsTheClocks` needs how
far `revert_all` has come (`Reverting`), for an error in one command leaves the
others to run.  `NothingAfterAnUnstableArm` needs that no record is of a later
invocation than there was.  `OnlyTheUnseenShareTheCard` needs that
every process without memory is the one being measured or in `unseen`
(`Accounted`): the guard lets a measurement start only when nothing holds
memory, so that whatever takes some during it is one of these.  All four are for any list of
arms and any selections of them.

**SweepProofs.**  `OnlyTheUnseenShareACell`: at a measurement no earlier server
has memory or will take it but those in `unseen`, and the guard is what gives the
first.  That there is always a server left to
launch (`Counted`) is part of the induction, since servers are numbered.
`FinallyStopsTheServer`: a driver with a `finally` has a server running only
while it uses it.  `ResumedAsPromised` needs that file and memory agree between
two writes, that the cell at hand is not done on file, and that the failed
starts already passed are this invocation's; the drivers differ in all of these,
and what is used of each `Policy` is the lemma `Policies`.

**MatrixProofs.**  `ThePeakIsTheBenchs`: outside of the steps that use it the
server is gone, and the monitor lives no longer than the bench.
`RowsSayWhatFailed`: the invariant gives the unfinished row at each stage (what
of it can be set, and that `ok` so far means that all stages so far went
through); a short evaluation means that a data file is cut, and a cut file is
never repaired.  Lines that a kill has cut, and those glued to them, are neither
ok nor evaluated (`WrittenLines`, `KilledLines`).

**ScoringProofs, `BestOfN`.**  `FinishedAreKept`: a running process knows every
task on file, as it is there.  `TimeAddsUp`: what it would write now, the
candidates of the unfinished item included, is covered by the time it would
write, and that time by `busy`; a kill drops the first and never the last.
`ScoresAreOrdered` needs of the invariant only that records have candidates, and
only of their own task; the ceiling above pass@1 needs equally many of them.

**ScoringProofs, `Readings`.**  Each of the four properties is first a theorem
about an input of any length, and of the specification because an input stays
one of its kind (`InputOK`).

- `FirstBlockIsTheCode`: a first fence that both regular expressions know is the
  first match of the first one if any fence follows, and of the second if none
  does and the text goes on.
- `ExamplesAreTheCalls`: from every line on, the loop finds the calls with their
  results (`RawFrom`), going down from the last line.  A call whose result was
  taken is behind the line the loop goes on with, so none is skipped.
- `BusyIsTheTimeCovered`: the merged blocks so far (`BlocksOf`) cover the same
  times as the operations so far, lie strictly apart, and the last one ends where
  the latest of them ends.  Merging the next keeps this only because it does not
  start before the ones already merged, which is what the sort is for.
- `PValueIsTheShareOfSwaps`: the quotient of factorials counts subsets
  (`ChooseCounts`, by Pascal's rule), so the tail counts the ways in which one side
  wins at most `l` of the tasks on which the two differ.  Complement is a bijection
  to the other tail.  The tails are disjoint unless the sides won equally many, and
  that is where the code cuts the doubled tail off at 1 (`ExactTest`).  A swap of any
  tasks is a swap of those and of the rest, which changes nothing
  (`SwapsCounted`), so the factor for the rest cancels.

All of this is about recursions, and the library's induction theorems cannot be
instantiated here.  Two ways around it carry these proofs.  The numbers that a
fact holds of are a set, and a set that has `a` and the successors of what it has
contains `a..b` (`UpwardInduction`, `DownwardInduction`, from the
well-foundedness of strict inclusion by `LeastExists`); a recursive function has
the value its equation gives it because some sequence of values satisfies the
equation (`LoopHasValues`).  A sum over a set is a number of cells below a
function's values, which satisfies the recursion of `SumFunction`; every other
solution would differ from it on a smallest set (`SumIsArea`).  After that sums
are cardinalities, and inequalities between them are inclusions.

**Only model-checked.**  All liveness (`RunsFinish`, `ChainCompletes`,
`AttributionCompletes`, `LoopEnds`, `SweepEnds`, `MatrixEnds`): fairness is
about `ENABLED`, which the prover does not treat.  No module uses RECURSIVE
operators.

## 5. Not modelled, and the plan

Done: the harness and the scripts around it, the two C++ prototypes, the clock
probe, best-of-n, the sweeps, the matrix and the readings.  Left, in this order:

1. `s2_speculation.sh`: its resumable rows (a `FAIL` row counts as present and is
   never tried again, line 102), the wait for the card that goes on anyway, and
   the losslessness gate, which counts two failed requests as equal (line 342).
2. The routing of `mmvq_small_batch.patch`, against its claim that declining one
   kernel can only ever land on the other.
3. `yaml_lite.py`, and the scoring of answers in `eval_quality.py` and
   `stack_test.py`.

Two drivers at once are modelled only where scripts start both (`PlatformArm`).
Nothing stops a user from starting two sweeps; their guards would then be checks
before an act, as the takeover's are.

Not planned: the vendored llama.cpp files, the installers, and the scripts that
only read traces and print tables, which have no state; confidence intervals and
timing statistics, which need real numbers; the model itself.
