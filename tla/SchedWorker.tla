---------------------------- MODULE SchedWorker ----------------------------
(***************************************************************************)
(* exp3.2_sched_overlap/sched_toy.cpp: the four ways it runs a pair of     *)
(* splits, the experts on the CPU and the attention on the GPU, and joins  *)
(* their outputs on the GPU: in series, overlapped on the main thread, on  *)
(* a thread spawned for the iteration, and on the persistent Worker with   *)
(* its mutex and two condition variables.  A critical section is one       *)
(* action: nothing blocks inside one except the wait that gives the mutex  *)
(* back.  An output is the number of the iteration it was computed in.     *)
(***************************************************************************)
EXTENDS Naturals

CONSTANT Iters      \* iterations of the benchmark loop

ASSUME ItersAssumption == Iters \in Nat \ {0}

Modes == {"serial", "async", "spawn", "worker"}

VARIABLES mode,                  \* which of the four ways
          main, iter,            \* where the main thread is, in which iteration
          thread, j,             \* where the other thread is, the job it runs
          job, has_job, done, quit,   \* the fields of Worker
          gpu,                   \* the attention the CUDA stream is busy with, or 0
          expert, attention,     \* E.out, ATT.out
          result                 \* what the last join added

fields == <<job, has_job, done, quit>>
outputs == <<expert, attention>>
vars == <<mode, main, iter, thread, j, fields, gpu, outputs, result>>

(* Where an iteration starts, and what follows each of its steps. *)
First(m) == IF m = "serial" THEN "compute" ELSE "issue"

Route ==
    [serial |-> [compute |-> "issue", issue |-> "sync", sync |-> "join"],
     async  |-> [issue |-> "compute", compute |-> "sync", sync |-> "join"],
     spawn  |-> [issue |-> "spawn", spawn |-> "sync", sync |-> "join_thread",
                 join_thread |-> "join"],
     worker |-> [issue |-> "submit", submit |-> "notify_job", notify_job |-> "sync",
                 sync |-> "wait", wait |-> "join"]]

Goto(step) == main' = step
GoOn == Goto(Route[mode][main])

Init ==
    /\ mode \in Modes
    /\ main = First(mode) /\ iter = 1
    /\ thread = IF mode = "worker" THEN "check" ELSE "absent"
    /\ job = 0 /\ j = 0
    /\ has_job = FALSE /\ done = TRUE /\ quit = FALSE
    /\ gpu = 0
    /\ expert = 0 /\ attention = 0
    /\ result = [expert |-> 0, attention |-> 0]

------------------------------------------------------------------------------
(* The main thread *)

(* ggml_backend_graph_compute(cpu, E.gf) on the main thread. *)
Compute ==
    /\ main = "compute"
    /\ expert' = iter
    /\ GoOn
    /\ UNCHANGED <<mode, iter, thread, j, fields, gpu, attention, result>>

(* ggml_backend_graph_compute_async(cuda, ATT.gf) *)
Issue ==
    /\ main = "issue"
    /\ gpu' = iter
    /\ GoOn
    /\ UNCHANGED <<mode, iter, thread, j, fields, outputs, result>>

Spawn ==
    /\ main = "spawn"
    /\ thread' = "run" /\ j' = iter
    /\ GoOn
    /\ UNCHANGED <<mode, iter, fields, gpu, outputs, result>>

(* Mutant: done is not reset. *)
SubmitStaysDone ==
    /\ main = "submit"
    /\ job' = iter /\ has_job' = TRUE
    /\ GoOn
    /\ UNCHANGED <<mode, iter, thread, j, done, quit, gpu, outputs, result>>

(* submit: the critical section, then cv_job.notify_one outside of it. *)
Submit ==
    /\ main = "submit"
    /\ job' = iter /\ has_job' = TRUE /\ done' = FALSE
    /\ GoOn
    /\ UNCHANGED <<mode, iter, thread, j, quit, gpu, outputs, result>>

WakeThread == thread' = IF thread = "asleep" THEN "check" ELSE thread

(* Mutant: nobody is notified. *)
NotifyNobody ==
    /\ main = "notify_job"
    /\ GoOn
    /\ UNCHANGED <<mode, iter, thread, j, fields, gpu, outputs, result>>

NotifyJob ==
    /\ main = "notify_job"
    /\ WakeThread
    /\ GoOn
    /\ UNCHANGED <<mode, iter, j, fields, gpu, outputs, result>>

(* Mutant: the CUDA stream is not waited for. *)
SynchronizeNot ==
    /\ main = "sync"
    /\ GoOn
    /\ UNCHANGED <<mode, iter, thread, j, fields, gpu, outputs, result>>

(* ggml_backend_synchronize(cuda) *)
Synchronize ==
    /\ main = "sync" /\ gpu = 0
    /\ GoOn
    /\ UNCHANGED <<mode, iter, thread, j, fields, gpu, outputs, result>>

(* Mutant: wait returns at once. *)
WaitNot ==
    /\ main = "wait"
    /\ GoOn
    /\ UNCHANGED <<mode, iter, thread, j, fields, gpu, outputs, result>>

(* Worker::wait *)
Wait ==
    /\ main = "wait"
    /\ IF done THEN GoOn ELSE Goto("blocked")
    /\ UNCHANGED <<mode, iter, thread, j, fields, gpu, outputs, result>>

(* Mutant: th.detach() instead. *)
DetachThread ==
    /\ main = "join_thread"
    /\ IF mode = "spawn" THEN GoOn ELSE Goto("end")
    /\ UNCHANGED <<mode, iter, thread, j, fields, gpu, outputs, result>>

(* th.join() after an iteration's own thread, or in ~Worker. *)
JoinThread ==
    /\ main = "join_thread" /\ thread = "exited"
    /\ IF mode = "spawn" THEN GoOn ELSE Goto("end")
    /\ UNCHANGED <<mode, iter, thread, j, fields, gpu, outputs, result>>

(* A computation that is still running has not written its output. *)
Read(out, running) == IF running THEN 0 ELSE out

(* Upload E.out and add it to ATT.out; the next iteration, or the end. *)
Join ==
    /\ main = "join"
    /\ result' = [expert |-> Read(expert, thread = "run"), attention |-> Read(attention, gpu # 0)]
    /\ iter' = iter + 1
    /\ Goto(IF iter < Iters THEN First(mode) ELSE IF mode = "worker" THEN "quit" ELSE "end")
    /\ UNCHANGED <<mode, thread, j, fields, gpu, outputs>>

(* ~Worker: the critical section, then cv_job.notify_all. *)
Quit ==
    /\ main = "quit"
    /\ quit' = TRUE
    /\ Goto("notify_all")
    /\ UNCHANGED <<mode, iter, thread, j, job, has_job, done, gpu, outputs, result>>

NotifyAll ==
    /\ main = "notify_all"
    /\ WakeThread
    /\ Goto("join_thread")
    /\ UNCHANGED <<mode, iter, j, fields, gpu, outputs, result>>

Main ==
    \/ Compute \/ Issue \/ Spawn \/ Submit \/ NotifyJob \/ Synchronize
    \/ Wait \/ JoinThread \/ Join \/ Quit \/ NotifyAll

------------------------------------------------------------------------------
(* The other thread *)

(* cv_job.wait with its predicate, and the job taken in the same section.  *)
Check ==
    /\ thread = "check"
    /\ \/ quit /\ thread' = "exited" /\ UNCHANGED <<j, has_job>>
       \/ ~quit /\ has_job /\ thread' = "run" /\ j' = job /\ has_job' = FALSE
       \/ ~quit /\ ~has_job /\ thread' = "asleep" /\ UNCHANGED <<j, has_job>>
    /\ UNCHANGED <<mode, main, iter, job, done, quit, gpu, outputs, result>>

Run ==
    /\ thread = "run"
    /\ expert' = j
    /\ thread' = IF mode = "spawn" THEN "exited" ELSE "ran"
    /\ UNCHANGED <<mode, main, iter, j, fields, gpu, attention, result>>

Report ==
    /\ thread = "ran"
    /\ done' = TRUE
    /\ thread' = "notify_done"
    /\ UNCHANGED <<mode, main, iter, j, job, has_job, quit, gpu, outputs, result>>

NotifyDone ==
    /\ thread = "notify_done"
    /\ thread' = "check"
    /\ main' = IF main = "blocked" THEN "wait" ELSE main
    /\ UNCHANGED <<mode, iter, j, fields, gpu, outputs, result>>

Thread == Check \/ Run \/ Report \/ NotifyDone

(* A wait on a condition variable may return without a notification. *)
SpuriousWakeup ==
    /\ \/ main = "blocked" /\ main' = "wait" /\ UNCHANGED thread
       \/ thread = "asleep" /\ thread' = "check" /\ UNCHANGED main
    /\ UNCHANGED <<mode, iter, j, fields, gpu, outputs, result>>

(* The CUDA stream finishes what was issued. *)
GpuDone ==
    /\ gpu # 0
    /\ gpu' = 0
    /\ attention' = gpu
    /\ UNCHANGED <<mode, main, iter, thread, j, fields, expert, result>>

------------------------------------------------------------------------------
Next == Main \/ Thread \/ SpuriousWakeup \/ GpuDone

Spec == Init /\ [][Next]_vars

(* Both threads are scheduled and the GPU makes progress; nothing relies   *)
(* on a spurious wakeup.                                                   *)
FairSpec == Spec /\ WF_vars(Main) /\ WF_vars(Thread) /\ WF_vars(GpuDone)

------------------------------------------------------------------------------
(* Properties *)

Iterations == 0..(Iters + 1)

(* Every variable of the two threads has its type. *)
TypeOK ==
    /\ mode \in Modes
    /\ main \in {"compute", "issue", "spawn", "submit", "notify_job", "sync", "wait", "blocked",
                 "join_thread", "join", "quit", "notify_all", "end"}
    /\ thread \in {"absent", "check", "asleep", "run", "ran", "notify_done", "exited"}
    /\ {iter, j, job, gpu, expert, attention} \subseteq Iterations
    /\ {has_job, done, quit} \subseteq BOOLEAN
    /\ result \in [expert : Iterations, attention : Iterations]

(* Worker::wait returns, and a join starts, only when both splits of this  *)
(* very iteration are complete: no job is still queued or running, nothing *)
(* of an earlier iteration is read (the "BIT-IDENTICAL" the toy prints).   *)
JoinAfterBothSplits ==
    main = "join" =>
        /\ thread # "run" /\ ~has_job /\ gpu = 0
        /\ expert = iter /\ attention = iter

(* ~Worker drops no job, although quit wins over has_job in the loop.      *)
NoJobDropped == quit => ~has_job /\ thread \notin {"run", "ran"}

(* The mutex and the condition variables outlive every use of them, the    *)
(* notify_one that follows the worker's last critical section included.    *)
WorkerUsesLiveObjects == main = "end" => thread \in {"absent", "exited"}

Abstract == INSTANCE SplitJoin

(* Whichever way the pair is run, the joins are those of the serial run.   *)
JoinsInSeries == Abstract!Spec

(* No wakeup is lost: every way comes to its end.                          *)
LoopEnds == <>(main = "end" /\ result.expert = Iters)
==============================================================================
