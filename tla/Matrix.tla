------------------------------- MODULE Matrix -------------------------------
(***************************************************************************)
(* run_matrix.py: for each entry of the matrix a llama-server is started   *)
(* and evaluated by eval_quality.py, then stopped, then llama-bench is run *)
(* by bench_speed.py, whose monitor thread polls nvidia-smi for the peak;  *)
(* a row is appended to the results whatever failed.  Invocations follow   *)
(* one another on the same data directory, and any of them may be killed,  *)
(* which leaves the processes it had launched behind.                      *)
(***************************************************************************)
EXTENDS Integers, Sequences

CONSTANTS NEntries,  \* entries of matrix.yaml
          Limit,     \* --limit-gsm8k and --limit-humaneval
          MaxRuns,   \* bound: the number of invocations
          MaxRows    \* bound: no invocation begins with so many rows on file

Entry == 1..NEntries

ASSUME ConstantsAssumption ==
    /\ NEntries \in Nat \ {0}
    /\ Limit \in Nat \ {0} /\ MaxRuns \in Nat /\ MaxRows \in Nat

VARIABLES rows,    \* the lines of --out
          data,    \* the files of --data-dir: nothing or empty, a part, or all
          pc, e,   \* where the process is, the entry it is at
          row,     \* its row
          left,    \* items of the suite still to ask, -1 before they are loaded
          items,   \* how many each suite has loaded, -1 before it has
          srv,     \* its llama-server
          bench,   \* its llama-bench
          peak,    \* who was on the card at some poll of its monitor
          stray,   \* is a process of an earlier invocation on the card?
          runs

vars == <<rows, data, pc, e, row, left, items, srv, bench, peak, stray, runs>>
evaluation == <<left, items>>
speed == <<bench, peak>>

File == {"gsm8k_test.jsonl", "HumanEval.jsonl.gz", "HumanEval.jsonl"}
Suite == {"gsm8k", "humaneval"}
NotEvaluated == [s \in Suite |-> -1]

(* Of row["eval"]: the items of each suite. *)
NewRow(n) ==
    [entry |-> n, status |-> "ok", eval |-> NotEvaluated, bench |-> FALSE, peak |-> {}]

(* A line that a kill has cut, to which the next row is glued, so that     *)
(* neither can be read.                                                    *)
CutLine == [NewRow(0) EXCEPT !.status = "cut"]
Unended == rows # <<>> /\ rows[Len(rows)].status = "cut"
Written(r) ==
    IF Unended THEN [rows EXCEPT ![Len(rows)] = [CutLine EXCEPT !.status = "glued"]]
               ELSE Append(rows, r)

(* Whose memory nvidia-smi adds up. *)
OnCard ==
    (IF srv \in {"loading", "up", "dying"} THEN {"server"} ELSE {})
    \cup (IF bench = "running" THEN {"bench"} ELSE {})
    \cup (IF stray THEN {"stray"} ELSE {})

Goto(label) == pc' = label

(* The process ends, and what it knew is gone. *)
Down ==
    /\ Goto("down")
    /\ e' = 0 /\ row' = NewRow(0)
    /\ left' = -1 /\ items' = NotEvaluated
    /\ peak' = {}

(* row["status"]: only eval_failed and bench_failed replace "ok". *)
Status(st) == row' = [row EXCEPT !.status = IF @ = "ok" THEN st ELSE @]

Init ==
    /\ rows = <<>>
    /\ data = [f \in File |-> "none"]
    /\ pc = "down" /\ e = 0 /\ row = NewRow(0)
    /\ left = -1 /\ items = NotEvaluated
    /\ srv = "gone" /\ bench = "off" /\ peak = {}
    /\ stray = FALSE
    /\ runs = 0

------------------------------------------------------------------------------
(* main and the beginning of run_entry *)

Start ==
    /\ pc = "down" /\ runs < MaxRuns /\ Len(rows) < MaxRows
    /\ runs' = runs + 1
    /\ e' = 1 /\ row' = NewRow(1)
    /\ Goto("entry")
    /\ UNCHANGED <<rows, data, evaluation, srv, speed, stray>>

(* The gguf file is not there. *)
NoModel ==
    /\ pc = "entry"
    /\ Status("failed")
    /\ Goto("append")
    /\ UNCHANGED <<rows, data, e, evaluation, srv, speed, stray, runs>>

(* On a free port, so no other server can answer for it. *)
StartServer ==
    /\ pc = "entry"
    /\ srv' = "loading"
    /\ Goto("health")
    /\ UNCHANGED <<rows, data, e, row, evaluation, speed, stray, runs>>

(* Popen outside of the try: the matrix ends. *)
CannotStart ==
    /\ pc = "entry"
    /\ Down
    /\ UNCHANGED <<rows, data, srv, bench, stray, runs>>

(* Mutant: a server that loads for ever is waited for. *)
WaitHealthyForever ==
    /\ pc = "health"
    /\ \/ srv = "up" /\ Goto("info") /\ UNCHANGED row
       \/ srv = "gone" /\ Status("server_failed_to_start") /\ Goto("stop")
    /\ UNCHANGED <<rows, data, e, evaluation, srv, speed, stray, runs>>

WaitHealthy ==
    /\ pc = "health"
    /\ \/ srv = "up" /\ Goto("info") /\ UNCHANGED row
       \/ srv # "up" /\ Status("server_failed_to_start") /\ Goto("stop")
    /\ UNCHANGED <<rows, data, e, evaluation, srv, speed, stray, runs>>

------------------------------------------------------------------------------
(* eval_quality.run *)

(* Mutant: the except clause forgets the status. *)
RaiseUnmarked == Goto("stop") /\ UNCHANGED row

(* An exception of the evaluation: its results so far are lost. *)
Raise == Status("eval_failed") /\ Goto("stop")

(* get_model_info: it needs the server, and may fail all the same. *)
ModelInfo ==
    /\ pc = "info"
    /\ \/ srv = "up" /\ Goto("gsm8k") /\ UNCHANGED row
       \/ Raise
    /\ UNCHANGED <<rows, data, e, evaluation, srv, speed, stray, runs>>

(* The file a suite needs next: HumanEval's is unpacked from a download. *)
Wanted(s) ==
    IF s = "gsm8k" THEN "gsm8k_test.jsonl"
    ELSE IF data["HumanEval.jsonl.gz"] = "none" THEN "HumanEval.jsonl.gz"
    ELSE "HumanEval.jsonl"

(* ensure_file, or the unpacking: only a file that is not there, or empty, *)
(* is fetched; what is left of an attempt that fails stays.  A download    *)
(* may be cut, or bring nothing, without an exception.                     *)
Fetch(s) ==
    /\ pc = s /\ left = -1 /\ data[Wanted(s)] = "none"
    /\ \E got \in {"none", "part", "all"} :
          /\ got # "none" /\ Wanted(s) = "HumanEval.jsonl" => data["HumanEval.jsonl.gz"] = "all"
          /\ data' = [data EXCEPT ![Wanted(s)] = got]
          /\ \/ got # "all" /\ Raise /\ UNCHANGED evaluation
             \/ /\ got = "all" \/ (got = "part" /\ Wanted(s) # "HumanEval.jsonl")
                /\ UNCHANGED <<pc, row, evaluation>>
             \/ /\ got = "none" /\ Wanted(s) # "HumanEval.jsonl"
                /\ left' = 0 /\ items' = [items EXCEPT ![s] = 0]
                /\ UNCHANGED <<pc, row>>
    /\ UNCHANGED <<rows, e, srv, speed, stray, runs>>

(* load_gsm8k, load_humaneval: a file cut inside of a line raises, one cut *)
(* between lines has fewer items, and neither may be noticed within Limit. *)
Load(s) ==
    /\ pc = s /\ left = -1 /\ data[Wanted(s)] # "none"
    /\ \/ /\ left' \in (IF data[Wanted(s)] = "part" THEN 1..Limit ELSE {Limit})
          /\ items' = [items EXCEPT ![s] = left']
          /\ UNCHANGED <<pc, row>>
       \/ data[Wanted(s)] = "part" /\ Raise /\ UNCHANGED evaluation
    /\ UNCHANGED <<rows, data, e, srv, speed, stray, runs>>

(* run_gsm8k, run_humaneval: an item, answered or not; every failure of a  *)
(* request or a program is recorded as a wrong answer.                     *)
Ask(s) ==
    /\ pc = s /\ left > 0
    /\ left' = left - 1
    /\ UNCHANGED <<rows, data, pc, e, row, items, srv, speed, stray, runs>>

Evaluated(s) ==
    /\ pc = s /\ left = 0
    /\ left' = -1
    /\ IF s = "gsm8k" THEN Goto("humaneval") /\ UNCHANGED row
                      ELSE Goto("stop") /\ row' = [row EXCEPT !.eval = items]
    /\ UNCHANGED <<rows, data, e, items, srv, speed, stray, runs>>

------------------------------------------------------------------------------
(* Mutant: the server is terminated and not waited for. *)
StopServerAsync ==
    /\ pc = "stop"
    /\ srv' = IF srv = "gone" THEN srv ELSE "dying"
    /\ Goto(IF row.status = "server_failed_to_start" THEN "append" ELSE "bench")
    /\ UNCHANGED <<rows, data, e, row, evaluation, speed, stray, runs>>

(* stop_server: terminate and wait, or kill and wait; if it will not die   *)
(* even then, TimeoutExpired ends the matrix.                              *)
StopServer ==
    /\ pc = "stop"
    /\ \/ /\ srv' = "gone"
          /\ Goto(IF row.status = "server_failed_to_start" THEN "append" ELSE "bench")
          /\ UNCHANGED <<e, row, evaluation, peak, stray>>
       \/ srv # "gone" /\ srv' = "gone" /\ stray' = TRUE /\ Down
    /\ UNCHANGED <<rows, data, bench, runs>>

(* bench_speed.run: the monitor starts, then llama-bench. *)
StartBench ==
    /\ pc = "bench" /\ bench = "off"
    /\ bench' = "running" /\ peak' = {}
    /\ UNCHANGED <<rows, data, pc, e, row, evaluation, srv, stray, runs>>

(* It cannot be launched, or the model cannot be read. *)
NoBench ==
    /\ pc = "bench" /\ bench = "off"
    /\ Status("bench_failed")
    /\ Goto("append")
    /\ UNCHANGED <<rows, data, e, evaluation, srv, speed, stray, runs>>

Poll ==
    /\ pc = "bench" /\ bench # "off"
    /\ peak' = peak \cup OnCard
    /\ UNCHANGED <<rows, data, pc, e, row, evaluation, srv, bench, stray, runs>>

BenchEnds ==
    /\ pc = "bench" /\ bench = "running"
    /\ bench' \in {"ok", "bad"}
    /\ UNCHANGED <<rows, data, pc, e, row, evaluation, srv, peak, stray, runs>>

(* The monitor is stopped, its peak read, llama-bench's output parsed. *)
Benched ==
    /\ pc = "bench" /\ bench \in {"ok", "bad"}
    /\ row' = [row EXCEPT !.bench = bench = "ok", !.peak = peak,
                          !.status = IF @ = "ok" /\ bench = "bad" THEN "bench_failed" ELSE @]
    /\ bench' = "off"
    /\ Goto("append")
    /\ UNCHANGED <<rows, data, e, evaluation, srv, peak, stray, runs>>

AppendRow ==
    /\ pc = "append"
    /\ rows' = Written(row)
    /\ IF e = NEntries
       THEN Down
       ELSE /\ Goto("entry") /\ e' = e + 1 /\ row' = NewRow(e + 1)
            /\ left' = -1 /\ items' = NotEvaluated /\ peak' = {}
    /\ UNCHANGED <<data, srv, bench, stray, runs>>

Step ==
    \/ NoModel
    \/ StartServer
    \/ CannotStart
    \/ WaitHealthy
    \/ ModelInfo
    \/ \E s \in Suite : Fetch(s) \/ Load(s) \/ Ask(s) \/ Evaluated(s)
    \/ StopServer
    \/ StartBench
    \/ NoBench
    \/ BenchEnds
    \/ Benched
    \/ AppendRow

(* What it had launched is left behind, and a row half written. *)
Kill ==
    /\ pc # "down"
    /\ Down
    /\ stray' = (stray \/ srv # "gone" \/ bench = "running")
    /\ srv' = "gone" /\ bench' = "off"
    /\ rows' = rows \/ (pc = "append" /\ ~Unended /\ rows' = Append(rows, CutLine))
    /\ UNCHANGED <<data, runs>>

(* llama-server *)
Serve ==
    /\ \/ srv = "loading" /\ srv' = "up"
       \/ srv \in {"loading", "up", "dying"} /\ srv' = "gone"
    /\ UNCHANGED <<rows, data, pc, e, row, evaluation, speed, stray, runs>>

Next ==
    \/ Start
    \/ Step
    \/ Poll
    \/ Kill
    \/ Serve

Spec == Init /\ [][Next]_vars
FairSpec == Spec /\ WF_vars(Step)

------------------------------------------------------------------------------
(* The peak of a row is llama-bench's: the server evaluated just before is *)
(* off the card when the monitor starts, whatever ended its evaluation and *)
(* however it had to be stopped.  (What an invocation that was killed left *)
(* behind is counted: nothing looks at the card first.)                    *)
PeakIsTheBenchs == \A n \in DOMAIN rows : rows[n].peak \subseteq {"bench", "stray"}

(* A row is ok exactly if the evaluation came to its end and llama-bench   *)
(* did its work, whatever failed at whichever stage; and an evaluation of  *)
(* fewer items than asked for is one over a file of the data directory     *)
(* that was cut, which no later invocation repairs, or of no items at all, *)
(* the download having brought nothing.  (This is less than the docstring  *)
(* of run_matrix.py says, by which a crash of the server is a failure:     *)
(* items count when they are asked, and an evaluation whose every request  *)
(* failed comes to its end.)                                               *)
OkRowsAreWhole ==
    \A n \in DOMAIN rows :
        LET r == rows[n] IN
        /\ r.status = "ok" <=> r.bench /\ r.eval # NotEvaluated
        /\ (\E s \in Suite : r.eval[s] \notin {-1, 0, Limit}) => \E f \in File : data[f] = "part"

(* Every invocation ends, although a server may load for ever and die at   *)
(* any time: each wait but the one for llama-bench has a timeout.          *)
MatrixEnds == pc # "down" ~> pc = "down"
==============================================================================
