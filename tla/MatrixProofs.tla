---------------------------- MODULE MatrixProofs ----------------------------
(***************************************************************************)
(* Proofs about Matrix, for any number of entries, items and invocations:  *)
(* the peak of a row is llama-bench's, and a row says "ok" exactly if its  *)
(* stages came to their end, whatever failed and whatever was killed.      *)
(***************************************************************************)
EXTENDS Matrix, TLAPS

Statuses == {"ok", "failed", "server_failed_to_start", "eval_failed", "bench_failed", "cut",
             "glued"}
Memory == {"server", "bench", "stray"}
Rows == [entry : Nat, status : Statuses, eval : [Suite -> Int],
         bench : BOOLEAN, peak : SUBSET Memory]
Evaluating == {"info", "gsm8k", "humaneval"}
WithServer == {"health", "stop"} \cup Evaluating

TypeInv ==
    /\ rows \in Seq(Rows)
    /\ data \in [File -> {"none", "part", "all"}]
    /\ pc \in {"down", "entry", "bench", "append"} \cup WithServer
    /\ e \in Nat
    /\ row \in Rows
    /\ left \in Int
    /\ items \in [Suite -> Int]
    /\ srv \in {"loading", "up", "dying", "gone"}
    /\ bench \in {"off", "running", "ok", "bad"}
    /\ peak \subseteq Memory

GluedLine == [CutLine EXCEPT !.status = "glued"]

\* What a row begins with, and the file a suite needs.
LEMMA SmallFacts ==
    /\ NotEvaluated \in [Suite -> Int]
    /\ \A n \in Nat : NewRow(n) \in Rows
    /\ CutLine \in Rows /\ GluedLine \in Rows
    /\ \A s \in Suite : Wanted(s) \in File
    /\ OnCard \subseteq Memory
  <1>1. NotEvaluated \in [Suite -> Int]
    BY DEF NotEvaluated
  <1>2. \A n \in Nat : NewRow(n) \in Rows
    BY <1>1 DEF NewRow, Rows, Statuses
  <1>3. \A s \in Suite : Wanted(s) \in File
    BY DEF Wanted, File
  <1>4. OnCard \subseteq Memory
    BY DEF OnCard, Memory
  <1>5. CutLine \in Rows
    <2>1. NewRow(0) \in Rows /\ "cut" \in Statuses
      BY <1>2 DEF Statuses
    <2> QED BY <2>1 DEF CutLine, Rows
  <1>6. GluedLine \in Rows
    <2>1. "glued" \in Statuses
      BY DEF Statuses
    <2> QED BY <1>5, <2>1 DEF GluedLine, Rows
  <1> QED BY <1>1, <1>2, <1>3, <1>4, <1>5, <1>6

\* The lines of the file after a row is written: it and those before, one of
\* which may be glued.
LEMMA WrittenLines ==
    ASSUME TypeInv
    PROVE  /\ Written(row) \in Seq(Rows)
           /\ \A n \in DOMAIN Written(row) :
                 \/ Written(row)[n] \in {row, GluedLine}
                 \/ n \in DOMAIN rows /\ Written(row)[n] = rows[n]
  <1>1. rows \in Seq(Rows) /\ row \in Rows
    BY DEF TypeInv
  <1>2. CASE Unended
    <2>1. Written(row) = [rows EXCEPT ![Len(rows)] = GluedLine]
      BY <1>2 DEF Written, GluedLine
    <2>2. GluedLine \in Rows
      BY SmallFacts
    <2>3. rows # <<>>
      BY <1>2 DEF Unended
    <2> HIDE DEF GluedLine
    <2>4. Len(rows) \in DOMAIN rows
      BY ONLY <1>1, <2>3
    <2> QED BY ONLY <1>1, <2>1, <2>2, <2>4
  <1>3. CASE ~Unended
    <2>1. Written(row) = Append(rows, row)
      BY <1>3 DEF Written
    <2> QED BY <1>1, <2>1
  <1> QED BY <1>2, <1>3

\* The lines after a kill: those before, and perhaps a cut one.
LEMMA KilledLines ==
    ASSUME TypeInv, Kill
    PROVE  /\ rows' \in Seq(Rows)
           /\ \A n \in DOMAIN rows' : rows'[n] = CutLine \/ (n \in DOMAIN rows /\ rows'[n] = rows[n])
  <1>1. rows \in Seq(Rows) /\ CutLine \in Rows
    BY SmallFacts DEF TypeInv
  <1>2. rows' = rows \/ rows' = Append(rows, CutLine)
    BY DEF Kill
  <1> QED BY <1>1, <1>2

\* What an ended process leaves of its variables.
LEMMA DownTypes ==
    ASSUME Down
    PROVE  /\ pc' = "down" /\ e' \in Nat /\ row' \in Rows /\ left' \in Int
           /\ items' \in [Suite -> Int] /\ peak' \subseteq Memory
           /\ row'.peak = {} /\ row'.eval = NotEvaluated /\ peak' = {}
           /\ left' = -1 /\ items' = NotEvaluated
  <1>1. row' = NewRow(0) /\ NewRow(0) \in Rows
    BY SmallFacts DEF Down
  <1>2. row'.peak = {} /\ row'.eval = NotEvaluated
    BY <1>1 DEF NewRow
  <1> QED BY <1>1, <1>2, SmallFacts DEF Down, Goto

\* A row stays a row when a field of it is set.
LEMMA RowUpdates ==
    ASSUME NEW r \in Rows, NEW st \in Statuses, NEW ev \in [Suite -> Int], NEW b \in BOOLEAN,
           NEW p \in SUBSET Memory
    PROVE  /\ [r EXCEPT !.status = st] \in Rows
           /\ [r EXCEPT !.eval = ev] \in Rows
           /\ [r EXCEPT !.bench = b, !.peak = p, !.status = st] \in Rows
  BY DEF Rows

\* A failure marks the row unless another one has.
LEMMA StatusType ==
    ASSUME TypeInv, NEW st \in Statuses, Status(st)
    PROVE  /\ row' \in Rows /\ row' = [row EXCEPT !.status = row'.status]
           /\ row'.status = IF row.status = "ok" THEN st ELSE row.status
  <1> DEFINE new == IF row.status = "ok" THEN st ELSE row.status
  <1>1. row \in Rows /\ row.status \in Statuses
    BY DEF TypeInv, Rows
  <1>2. new \in Statuses /\ row' = [row EXCEPT !.status = new]
    BY <1>1 DEF Status
  <1> HIDE DEF new
  <1>3. row' \in Rows /\ row'.status = new
    BY <1>1, <1>2, RowUpdates DEF Rows
  <1> QED BY <1>2, <1>3 DEF new

\* The variables have their types at first.
LEMMA TypeInit == Init => TypeInv
  <1>1. Init => data \in [File -> {"none", "part", "all"}]
    BY DEF Init
  <1> QED BY <1>1, SmallFacts DEF Init, TypeInv, WithServer, Evaluating

\* Every step keeps the types.
LEMMA TypeStep == TypeInv /\ [Next]_vars => TypeInv'
  <1> SUFFICES ASSUME TypeInv, [Next]_vars PROVE TypeInv'
    OBVIOUS
  <1> USE DEF WithServer, Evaluating, Goto, evaluation, speed
  <1>f. {"failed", "server_failed_to_start", "eval_failed", "bench_failed"} \subseteq Statuses
    BY DEF Statuses
  <1>1. CASE Start
    <2>1. NewRow(1) \in Rows
      BY SmallFacts
    <2> QED BY <1>1, <2>1 DEF Start, TypeInv
  <1>2. CASE NoModel \/ WaitHealthy \/ ModelInfo \/ NoBench
    <2>1. row' \in Rows
      BY <1>2, <1>f, StatusType DEF NoModel, WaitHealthy, ModelInfo, NoBench, Raise, TypeInv
    <2>2. pc' \in {"append", "info", "stop", "gsm8k"}
      BY <1>2 DEF NoModel, WaitHealthy, ModelInfo, NoBench, Raise
    <2> QED BY <1>2, <2>1, <2>2 DEF NoModel, WaitHealthy, ModelInfo, NoBench, TypeInv
  <1>3. CASE StartServer \/ CannotStart \/ StopServer \/ Serve \/ BenchEnds
    <2>1. CASE Down
      BY <1>3, <2>1, DownTypes DEF StartServer, CannotStart, StopServer, Serve, BenchEnds, TypeInv
    <2>2. CASE ~Down
      BY <1>3, <2>2 DEF StartServer, CannotStart, StopServer, Serve, BenchEnds, TypeInv
    <2> QED BY <2>1, <2>2
  <1>4. ASSUME NEW s \in Suite, Fetch(s) PROVE TypeInv'
    <2>1. row' \in Rows /\ pc' \in {pc, "stop"}
      BY <1>4, <1>f, StatusType DEF Fetch, Raise, TypeInv
    <2>2. data' \in [File -> {"none", "part", "all"}]
      BY <1>4 DEF Fetch, TypeInv
    <2>3. left' \in Int /\ items' \in [Suite -> Int]
      BY <1>4 DEF Fetch, TypeInv
    <2> QED BY <1>4, <2>1, <2>2, <2>3 DEF Fetch, TypeInv
  <1>5. ASSUME NEW s \in Suite, Load(s) PROVE TypeInv'
    <2>1. row' \in Rows /\ pc' \in {pc, "stop"}
      BY <1>5, <1>f, StatusType DEF Load, Raise, TypeInv
    <2>2. left' \in Int /\ items' \in [Suite -> Int]
      <3>1. CASE UNCHANGED evaluation
        BY <3>1 DEF TypeInv
      <3>2. CASE left' \in 0..Limit /\ items' = [items EXCEPT ![s] = left']
        BY <3>2, ConstantsAssumption DEF TypeInv
      <3> QED BY <1>5, <3>1, <3>2, ConstantsAssumption DEF Load
    <2> QED BY <1>5, <2>1, <2>2 DEF Load, TypeInv
  <1>6. ASSUME NEW s \in Suite, Ask(s) PROVE TypeInv'
    BY <1>6 DEF Ask, TypeInv
  <1>7. ASSUME NEW s \in Suite, Evaluated(s) PROVE TypeInv'
    <2>1. row' \in Rows
      <3>1. row' = row \/ row' = [row EXCEPT !.eval = items]
        BY <1>7 DEF Evaluated
      <3> QED BY <3>1 DEF TypeInv, Rows
    <2> QED BY <1>7, <2>1 DEF Evaluated, TypeInv
  <1>8. CASE StartBench \/ Poll
    BY <1>8, SmallFacts DEF StartBench, Poll, TypeInv
  <1>9. CASE Benched
    <2> DEFINE b == bench = "ok"
               st == IF row.status = "ok" /\ bench = "bad" THEN "bench_failed" ELSE row.status
    <2>1. b \in BOOLEAN /\ st \in Statuses
      BY <1>f DEF TypeInv, Rows
    <2>2. row' = [row EXCEPT !.bench = b, !.peak = peak, !.status = st]
      BY <1>9 DEF Benched
    <2> HIDE DEF b, st
    <2>3. row' \in Rows
      BY <2>1, <2>2 DEF TypeInv, Rows
    <2> QED BY <1>9, <2>3 DEF Benched, TypeInv
  <1>10. CASE AppendRow
    <2>1. rows' \in Seq(Rows)
      BY <1>10, WrittenLines DEF AppendRow
    <2>2. CASE Down
      BY <1>10, <2>1, <2>2, DownTypes DEF AppendRow, TypeInv
    <2>3. CASE ~Down
      <3>1. row' \in Rows /\ e' \in Nat /\ pc' = "entry"
        BY <1>10, <2>3, SmallFacts DEF AppendRow, TypeInv
      <3> QED BY <1>10, <2>1, <2>3, <3>1, SmallFacts DEF AppendRow, TypeInv
    <2> QED BY <2>2, <2>3
  <1>11. CASE Kill
    BY <1>11, KilledLines, DownTypes DEF Kill, TypeInv
  <1>12. CASE UNCHANGED vars
    BY <1>12 DEF vars, TypeInv
  <1> QED
    BY <1>1, <1>2, <1>3, <1>4, <1>5, <1>6, <1>7, <1>8, <1>9, <1>10, <1>11, <1>12 DEF Next, Step

------------------------------------------------------------------------------
(* The server is gone before llama-bench is launched, and its monitor      *)
(* lives no longer than it does.                                           *)
Alone ==
    /\ pc \notin WithServer => srv = "gone"
    /\ bench # "off" => pc = "bench"
    /\ peak \subseteq {"bench", "stray"} /\ row.peak \subseteq {"bench", "stray"}
    /\ PeakIsTheBenchs

\* Every step keeps the server away from the monitor.
LEMMA AloneStep == TypeInv /\ Alone /\ [Next]_vars => Alone'
  <1> SUFFICES ASSUME TypeInv, Alone, [Next]_vars PROVE Alone'
    OBVIOUS
  <1> USE DEF WithServer, Evaluating, Goto, evaluation, speed
  <1>1. ASSUME UNCHANGED rows, row'.peak \subseteq {"bench", "stray"}, peak' \subseteq {"bench", "stray"},
               pc' \notin WithServer => srv' = "gone", bench' # "off" => pc' = "bench"
        PROVE  Alone'
    BY <1>1 DEF Alone, PeakIsTheBenchs
  <1>s. ASSUME NEW st \in Statuses, Status(st) PROVE row'.peak = row.peak
    BY <1>s, StatusType DEF TypeInv, Rows
  <1>f. {"failed", "server_failed_to_start", "eval_failed", "bench_failed"} \subseteq Statuses
    BY DEF Statuses
  <1>2. CASE Start
    <2>1. row'.peak = {} /\ UNCHANGED <<rows, srv, bench, peak>> /\ pc = "down" /\ pc' = "entry"
      BY <1>2 DEF Start, NewRow
    <2> QED BY <2>1, <1>1 DEF Alone
  <1>3. CASE NoModel \/ WaitHealthy \/ ModelInfo \/ NoBench
    <2>1. row'.peak = row.peak
      BY <1>3, <1>f, <1>s DEF NoModel, WaitHealthy, ModelInfo, NoBench, Raise
    <2>2. UNCHANGED <<rows, srv, bench, peak>> /\ (pc' \notin WithServer => pc \notin WithServer)
          /\ bench = "off"
      BY <1>3 DEF NoModel, WaitHealthy, ModelInfo, NoBench, Raise, Alone
    <2> QED BY <2>1, <2>2, <1>1 DEF Alone
  <1>4. CASE StartServer \/ CannotStart \/ StopServer
    <2>1. /\ UNCHANGED <<rows, bench>> /\ pc # "bench"
          /\ pc' \notin WithServer => srv' = "gone"
      BY <1>4 DEF StartServer, CannotStart, StopServer, Alone
    <2>2. UNCHANGED <<row, peak>> \/ (row'.peak = {} /\ peak' = {})
      BY <1>4, DownTypes DEF StartServer, CannotStart, StopServer
    <2> QED BY <2>1, <2>2, <1>1 DEF Alone
  <1>5. ASSUME NEW s \in Suite, Fetch(s) \/ Load(s) \/ Ask(s) \/ Evaluated(s) PROVE Alone'
    <2>1. row'.peak = row.peak
      BY <1>5, <1>f, <1>s DEF Fetch, Load, Ask, Evaluated, Raise, TypeInv, Rows
    <2>2. UNCHANGED <<rows, srv, bench, peak>> /\ pc \in Suite /\ pc' \in WithServer
      BY <1>5 DEF Fetch, Load, Ask, Evaluated, Raise, Suite
    <2> QED BY <2>1, <2>2, <1>1 DEF Alone, Suite
  <1>6. CASE Serve
    BY <1>6 DEF Serve, Alone, PeakIsTheBenchs
  <1>7. CASE StartBench \/ BenchEnds
    <2>1. UNCHANGED <<rows, row, srv, pc>> /\ pc = "bench" /\ peak' \subseteq peak
      BY <1>7 DEF StartBench, BenchEnds
    <2> QED BY <2>1, <1>1 DEF Alone
  <1>8. CASE Poll
    <2>1. UNCHANGED <<rows, row, srv, pc, bench>> /\ pc = "bench" /\ peak' = peak \cup OnCard
      BY <1>8 DEF Poll
    <2>2. OnCard \subseteq {"bench", "stray"}
      BY <2>1 DEF Alone, OnCard
    <2> QED BY <2>1, <2>2, <1>1 DEF Alone
  <1>9. CASE Benched
    <2>1. row'.peak = peak /\ UNCHANGED <<rows, srv, peak>> /\ bench' = "off"
          /\ pc = "bench" /\ pc' = "append"
      BY <1>9 DEF Benched, TypeInv, Rows
    <2> QED BY <2>1, <1>1 DEF Alone
  <1>10. CASE AppendRow
    <2>1. /\ rows' = Written(row) /\ UNCHANGED <<srv, bench>> /\ pc = "append"
          /\ \/ Down
             \/ pc' = "entry" /\ row' = NewRow(e + 1) /\ peak' = {}
      BY <1>10 DEF AppendRow
    <2>2. row'.peak = {} /\ peak' = {} /\ pc' \in {"down", "entry"}
      BY <2>1, DownTypes DEF NewRow
    <2>3. GluedLine.peak = {}
      BY DEF GluedLine, CutLine, NewRow
    <2>4. PeakIsTheBenchs'
      BY <2>1, <2>3, WrittenLines DEF Alone, PeakIsTheBenchs
    <2> QED BY <2>1, <2>2, <2>4 DEF Alone
  <1>11. CASE Kill
    <2>1. CutLine.peak = {}
      BY DEF CutLine, NewRow
    <2>2. PeakIsTheBenchs'
      BY <1>11, <2>1, KilledLines DEF Alone, PeakIsTheBenchs
    <2>3. Down /\ srv' = "gone" /\ bench' = "off"
      BY <1>11 DEF Kill
    <2> QED BY <2>2, <2>3, DownTypes DEF Alone
  <1>12. CASE UNCHANGED vars
    BY <1>12 DEF vars, Alone, PeakIsTheBenchs
  <1> QED
    BY <1>2, <1>3, <1>4, <1>5, <1>6, <1>7, <1>8, <1>9, <1>10, <1>11, <1>12 DEF Next, Step

(* The monitor of bench_speed.py never sees the server that was evaluated  *)
(* before, however its evaluation ended and however it had to be stopped.  *)
THEOREM ThePeakIsTheBenchs == Spec => []PeakIsTheBenchs
  <1>1. Init => Alone
    BY DEF Init, Alone, PeakIsTheBenchs, NewRow
  <1>2. Alone => PeakIsTheBenchs
    BY DEF Alone
  <1> QED BY <1>1, <1>2, AloneStep, TypeInit, TypeStep, PTL DEF Spec

------------------------------------------------------------------------------
(* What an unfinished row says of its stages, and what an evaluation of    *)
(* fewer items means: the files of the data directory are never repaired.  *)
Cut == \E f \in File : data[f] = "part"
Short(ev) == \E s \in Suite : ev[s] \notin {-1, 0, Limit}
Whole(r) ==
    /\ r.status = "ok" <=> r.bench /\ r.eval # NotEvaluated
    /\ Short(r.eval) => Cut

Staged ==
    /\ pc \in {"entry", "health"} \cup Evaluating =>
          row.status = "ok" /\ ~row.bench /\ row.eval = NotEvaluated
    /\ pc \in {"stop", "bench"} => ~row.bench /\ (row.status = "ok" <=> row.eval # NotEvaluated)
    /\ pc = "append" => (row.status = "ok" <=> row.bench /\ row.eval # NotEvaluated)
    /\ pc \notin Suite => left = -1
    /\ pc \in Suite /\ left # -1 => items[pc] # -1
    /\ Short(items) => Cut
    /\ Short(row.eval) => Cut
    /\ \A n \in DOMAIN rows : Whole(rows[n])

\* An evaluation that has not been made is not short, and lines that cannot be
\* read do not say ok.
LEMMA NothingShort == ~Short(NotEvaluated) /\ Whole(CutLine) /\ Whole(GluedLine)
  <1>1. ~Short(NotEvaluated)
    BY DEF Short, NotEvaluated
  <1>2. /\ CutLine.status = "cut" /\ ~CutLine.bench /\ CutLine.eval = NotEvaluated
        /\ GluedLine.status = "glued" /\ ~GluedLine.bench /\ GluedLine.eval = NotEvaluated
    BY DEF CutLine, GluedLine, NewRow
  <1> QED BY <1>1, <1>2 DEF Whole

\* A file that is cut stays cut.
LEMMA CutStays == TypeInv /\ [Next]_vars /\ Cut => Cut'
  <1> SUFFICES ASSUME TypeInv, [Next]_vars, NEW f \in File, data[f] = "part" PROVE data'[f] = "part"
    BY DEF Cut
  <1>1. CASE UNCHANGED data
    BY <1>1
  <1>2. ASSUME NEW s \in Suite, Fetch(s) PROVE data'[f] = "part"
    BY <1>2, SmallFacts DEF Fetch, TypeInv
  <1> QED
    BY <1>1, <1>2
    DEF Next, vars, Step, Start, NoModel, StartServer, CannotStart, WaitHealthy, ModelInfo, Load, Ask,
        Evaluated, StopServer, StartBench, NoBench, Poll, BenchEnds, Benched, AppendRow, Kill, Serve

\* What a failure does to a row.
LEMMA StatusMarks ==
    ASSUME TypeInv, NEW st \in Statuses \ {"ok"}, Status(st)
    PROVE  row'.status # "ok" /\ row'.bench = row.bench /\ row'.eval = row.eval
  BY StatusType DEF TypeInv, Rows

\* Every step keeps the rows whole.
LEMMA StagedStep == TypeInv /\ Staged /\ [Next]_vars => Staged'
  <1> SUFFICES ASSUME TypeInv, Staged, [Next]_vars PROVE Staged'
    OBVIOUS
  <1> USE DEF Evaluating, Goto, evaluation, speed
  <1>c. Cut => Cut'
    BY CutStays
  <1>s. Suite = {"gsm8k", "humaneval"}
    BY DEF Suite
  <1>f. {"failed", "server_failed_to_start", "eval_failed", "bench_failed"} \subseteq Statuses \ {"ok"}
    BY DEF Statuses
  <1>r. ASSUME UNCHANGED rows PROVE \A n \in DOMAIN rows' : Whole(rows[n])'
    BY <1>r, <1>c DEF Staged, Whole
  <1>1. ASSUME UNCHANGED <<rows, row, items>>, left' = -1,
               pc' = pc \/ (pc = "entry" /\ pc' = "health") \/ pc' = "down"
        PROVE  Staged'
    BY <1>1, <1>c, <1>r DEF Staged
  (* The process ends. *)
  <1>d. ASSUME Down, \A n \in DOMAIN rows' : Whole(rows[n])' PROVE Staged'
    <2>1. pc' = "down" /\ left' = -1 /\ items' = NotEvaluated /\ row'.eval = NotEvaluated
      BY <1>d, DownTypes
    <2> QED BY <2>1, <1>d, <1>s, NothingShort DEF Staged
  (* A stage fails: the row is marked and goes to the next stage. *)
  <1>2. ASSUME NEW st \in Statuses \ {"ok"}, Status(st), UNCHANGED <<rows, items>>, left' = -1,
               \/ pc \in {"entry", "health"} \cup Evaluating /\ pc' \in {"stop", "append"}
               \/ pc = "bench" /\ pc' = "append"
        PROVE  Staged'
    <2>1. row'.status # "ok" /\ row'.bench = row.bench /\ row'.eval = row.eval
      BY <1>2, StatusMarks
    <2>2. ~row.bench /\ (pc # "bench" => row.eval = NotEvaluated)
      BY <1>2 DEF Staged
    <2>3. pc = "bench" => pc' = "append"
      BY <1>2
    <2> QED BY <1>2, <1>c, <1>r, <1>s, <2>1, <2>2, <2>3 DEF Staged
  <1>3. CASE Start
    <2>1. /\ pc' = "entry" /\ row' = NewRow(1) /\ UNCHANGED <<rows, items, left>> /\ pc = "down"
      BY <1>3 DEF Start
    <2>2. row'.status = "ok" /\ ~row'.bench /\ row'.eval = NotEvaluated
      BY <2>1 DEF NewRow
    <2> QED BY <2>1, <2>2, <1>c, <1>r, <1>s, NothingShort DEF Staged
  <1>4. CASE NoModel
    BY <1>2, <1>4, <1>f, <1>s DEF NoModel, Staged
  <1>5. CASE StartServer \/ CannotStart
    BY <1>1, <1>5, <1>d, <1>r, <1>s DEF StartServer, CannotStart, Staged
  <1>6. CASE WaitHealthy
    <2>1. pc = "health" /\ UNCHANGED <<rows, items, left>> /\ left = -1
      BY <1>6, <1>s DEF WaitHealthy, Staged
    <2>2. CASE pc' = "info" /\ UNCHANGED row
      BY <2>1, <2>2, <1>c, <1>r, <1>s DEF Staged
    <2>3. CASE Status("server_failed_to_start") /\ pc' = "stop"
      BY <2>1, <2>3, <1>2, <1>f
    <2> QED BY <1>6, <2>2, <2>3 DEF WaitHealthy
  <1>7. CASE ModelInfo
    <2>1. pc = "info" /\ UNCHANGED <<rows, items, left>> /\ left = -1
      BY <1>7, <1>s DEF ModelInfo, Staged
    <2>2. CASE pc' = "gsm8k" /\ UNCHANGED row
      BY <2>1, <2>2, <1>c, <1>r, <1>s DEF Staged
    <2>3. CASE Raise
      BY <2>1, <2>3, <1>2, <1>f DEF Raise
    <2> QED BY <1>7, <2>2, <2>3 DEF ModelInfo
  <1>8. ASSUME NEW s \in Suite, Fetch(s) PROVE Staged'
    <2>1. pc = s /\ pc \in Evaluating /\ UNCHANGED rows /\ left = -1
      BY <1>8, <1>s DEF Fetch
    <2>2. CASE UNCHANGED <<pc, row, evaluation>>
      BY <1>1, <2>1, <2>2
    <2>3. CASE Raise /\ UNCHANGED evaluation
      BY <2>1, <2>3, <1>2, <1>f DEF Raise
    <2>4. CASE left' = 0 /\ items' = [items EXCEPT ![s] = 0] /\ UNCHANGED <<pc, row>>
      <3>1. items'[s] = 0 /\ \A t \in Suite : t # s => items'[t] = items[t]
        BY <2>4 DEF TypeInv
      <3>2. (Short(items) => Cut)'
        BY <3>1, <1>c DEF Staged, Short
      <3> QED BY <2>1, <2>4, <3>1, <3>2, <1>c, <1>r DEF Staged
    <2> QED BY <1>8, <2>2, <2>3, <2>4 DEF Fetch
  <1>9. ASSUME NEW s \in Suite, Load(s) PROVE Staged'
    <2>1. pc = s /\ pc \in Evaluating /\ UNCHANGED <<rows, data>> /\ left = -1
      BY <1>9, <1>s DEF Load
    <2>2. CASE Raise /\ UNCHANGED evaluation
      BY <2>1, <2>2, <1>2, <1>f DEF Raise
    <2>3. CASE /\ left' \in (IF data[Wanted(s)] = "part" THEN 1..Limit ELSE {Limit})
               /\ items' = [items EXCEPT ![s] = left'] /\ UNCHANGED <<pc, row>>
      <3>1. left' > 0 /\ (left' # Limit => Cut)
        BY <2>3, SmallFacts, ConstantsAssumption DEF Cut
      <3>2. items'[s] = left' /\ \A t \in Suite : t # s => items'[t] = items[t]
        BY <2>3 DEF TypeInv
      <3>3. Short(items') => Cut
        <4> SUFFICES ASSUME NEW t \in Suite, items'[t] \notin {-1, 0, Limit} PROVE Cut
          BY DEF Short
        <4> QED BY <3>1, <3>2 DEF Staged, Short
      <3>4. (Short(items) => Cut)'
        BY <1>c, <3>3 DEF Short
      <3>5. /\ pc' \notin Suite => left' = -1
            /\ pc' \in Suite /\ left' # -1 => items'[pc'] # -1
        BY <2>1, <2>3, <3>1, <3>2, <1>s DEF Staged
      <3> QED BY <2>1, <2>3, <3>4, <3>5, <1>c, <1>r DEF Staged
    <2> QED BY <1>9, <2>2, <2>3 DEF Load
  <1>10. ASSUME NEW s \in Suite, Ask(s) PROVE Staged'
    <2>1. UNCHANGED <<rows, data, pc, items>> /\ pc = s /\ left # -1
      BY <1>10 DEF Ask
    <2>2. row'.status = row.status /\ row'.bench = row.bench /\ row'.eval = row.eval
      BY <1>10 DEF Ask, TypeInv, Rows
    <2> QED BY <2>1, <2>2, <1>c, <1>r, <1>s DEF Staged
  <1>11. ASSUME NEW s \in Suite, Evaluated(s) PROVE Staged'
    <2>1. pc = s /\ left' = -1 /\ UNCHANGED <<rows, items>> /\ items[s] # -1
      BY <1>11 DEF Evaluated, Staged
    <2>2. CASE s = "gsm8k"
      <3>1. pc' = "humaneval" /\ UNCHANGED row
        BY <1>11, <2>2 DEF Evaluated
      <3> QED BY <2>1, <2>2, <3>1, <1>c, <1>r, <1>s DEF Staged
    <2>3. CASE s # "gsm8k"
      <3>1. pc' = "stop" /\ row' = [row EXCEPT !.eval = items] /\ pc = "humaneval"
        BY <1>11, <2>1, <2>3, <1>s DEF Evaluated
      <3>2. row'.eval = items /\ row'.status = "ok" /\ ~row'.bench
        BY <3>1 DEF TypeInv, Rows, Staged
      <3>3. items # NotEvaluated
        BY <2>1, <2>3, <1>s DEF NotEvaluated
      <3> QED BY <2>1, <3>1, <3>2, <3>3, <1>c, <1>r, <1>s DEF Staged
    <2> QED BY <2>2, <2>3
  <1>12. CASE StopServer
    <2>1. CASE Down
      BY <1>12, <2>1, <1>d, <1>r DEF StopServer
    <2>2. CASE ~Down
      <3>1. /\ pc = "stop" /\ UNCHANGED <<rows, row, items, left>> /\ left = -1
            /\ pc' = IF row.status = "server_failed_to_start" THEN "append" ELSE "bench"
        BY <1>12, <2>2, <1>s DEF StopServer, Staged
      <3> QED BY <3>1, <1>c, <1>r, <1>s DEF Staged
    <2> QED BY <2>1, <2>2
  <1>13. CASE StartBench \/ BenchEnds \/ Poll \/ Serve \/ UNCHANGED vars
    BY <1>13, <1>c, <1>r DEF StartBench, BenchEnds, Poll, Serve, vars, Staged
  <1>14. CASE NoBench
    BY <1>2, <1>14, <1>f, <1>s DEF NoBench, Staged
  <1>15. CASE Benched
    <2> DEFINE b == bench = "ok"
               st == IF row.status = "ok" /\ bench = "bad" THEN "bench_failed" ELSE row.status
    <2>1. /\ pc = "bench" /\ pc' = "append" /\ UNCHANGED <<rows, items, left>> /\ left = -1
          /\ bench \in {"ok", "bad"}
      BY <1>15, <1>s DEF Benched, Staged
    <2>2. row' = [row EXCEPT !.bench = b, !.peak = peak, !.status = st]
      BY <1>15 DEF Benched
    <2>3. (st = "ok" <=> row.status = "ok" /\ b) /\ b \in BOOLEAN
      BY <2>1
    <2> HIDE DEF b, st
    <2>4. row'.eval = row.eval /\ row'.bench = b /\ row'.status = st
      BY <2>2 DEF TypeInv, Rows
    <2> QED BY <2>1, <2>3, <2>4, <1>c, <1>r, <1>s DEF Staged
  <1>16. CASE AppendRow
    <2>1. /\ rows' = Written(row) /\ pc = "append" /\ UNCHANGED data
          /\ \/ Down
             \/ pc' = "entry" /\ row' = NewRow(e + 1) /\ left' = -1 /\ items' = NotEvaluated
      BY <1>16 DEF AppendRow
    <2>2. Whole(row) /\ Whole(GluedLine)
      BY <2>1, NothingShort DEF Staged, Whole
    <2>3. \A n \in DOMAIN rows' : Whole(rows'[n])
      BY <2>1, <2>2, WrittenLines DEF Staged
    <2>4. (\A n \in DOMAIN rows : Whole(rows[n]))'
      BY <2>3, <1>c DEF Whole
    <2>5. pc' = "entry" /\ ~Down => row'.status = "ok" /\ ~row'.bench /\ row'.eval = NotEvaluated
      BY <2>1 DEF NewRow
    <2>6. CASE ~Down
      BY <2>1, <2>4, <2>5, <2>6, <1>c, <1>s, NothingShort DEF Staged
    <2> QED BY <2>4, <2>6, <1>d
  <1>17. CASE Kill
    <2>1. \A n \in DOMAIN rows' : Whole(rows'[n])
      BY <1>17, KilledLines, NothingShort DEF Staged
    <2>2. (\A n \in DOMAIN rows : Whole(rows[n]))'
      BY <2>1, <1>c DEF Whole
    <2>3. Down
      BY <1>17 DEF Kill
    <2> QED BY <2>2, <2>3, <1>d
  <1> QED
    BY <1>3, <1>4, <1>5, <1>6, <1>7, <1>8, <1>9, <1>10, <1>11, <1>12, <1>13, <1>14, <1>15, <1>16, <1>17
    DEF Next, Step

(* A row says "ok" exactly if the evaluation came to its end and           *)
(* llama-bench did its work, and an evaluation of some but not all of the  *)
(* items asked for means that a file on disk is cut.                       *)
THEOREM RowsSayWhatFailed == Spec => []OkRowsAreWhole
  <1>1. Init => Staged
    BY NothingShort DEF Init, Staged, NewRow, Suite, Evaluating
  <1>2. TypeInv /\ Staged => OkRowsAreWhole
    BY DEF Staged, Whole, Short, Cut, OkRowsAreWhole
  <1> QED BY <1>1, <1>2, StagedStep, TypeInit, TypeStep, PTL DEF Spec
=============================================================================
