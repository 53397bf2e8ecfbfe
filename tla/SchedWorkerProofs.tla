-------------------------- MODULE SchedWorkerProofs --------------------------
(***************************************************************************)
(* Proofs about SchedWorker, for every number of iterations: the join of   *)
(* an iteration finds both of its splits complete, in each of the four     *)
(* modes, so that each of them implements the serial sequence of joins.    *)
(***************************************************************************)
EXTENDS SchedWorker, TLAPS

Counts ==
    /\ mode \in Modes
    /\ iter \in Nat /\ iter > 0
    /\ main \in {"quit", "notify_all", "end"} \/ (mode = "worker" /\ main = "join_thread")
          => iter = Iters + 1
    /\ ~(main \in {"quit", "notify_all", "end"} \/ (mode = "worker" /\ main = "join_thread"))
          => iter <= Iters
    /\ result = [expert |-> iter - 1, attention |-> iter - 1]

NotIssued ==
    \/ main \in {"issue", "quit", "notify_all", "end"}
    \/ mode = "serial" /\ main = "compute"
    \/ mode = "worker" /\ main = "join_thread"

Synced == main \in {"wait", "blocked", "join"} \/ (mode = "spawn" /\ main = "join_thread")

(* The GPU is at work only between the issue and the synchronization, and  *)
(* for this iteration.                                                     *)
Gpu ==
    /\ gpu \in 0..Iters /\ attention \in 0..Iters
    /\ NotIssued => gpu = 0
    /\ Synced => gpu = 0 /\ attention = iter
    /\ ~NotIssued /\ ~Synced => gpu = iter \/ (gpu = 0 /\ attention = iter)

OnMainThread(steps, computed) ==
    /\ thread = "absent" /\ ~has_job /\ ~quit
    /\ main \in steps \cup {"end"}
    /\ main \in computed => expert = iter

Serial == OnMainThread({"compute", "issue", "sync", "join"}, {"issue", "sync", "join"})
Async == OnMainThread({"issue", "compute", "sync", "join"}, {"sync", "join"})

Spawned ==
    /\ ~has_job /\ ~quit
    /\ \/ main \in {"issue", "spawn", "end"} /\ thread \in {"absent", "exited"}
       \/ main \in {"sync", "join_thread"} /\ thread = "run" /\ j = iter
       \/ main \in {"sync", "join_thread", "join"} /\ thread = "exited" /\ expert = iter

Resting == thread \in {"check", "asleep", "notify_done"}

(* The hand-off: a job is queued, running, reported or awaited. *)
Persistent ==
    \/ main \in {"issue", "submit"} /\ ~quit /\ ~has_job /\ done /\ Resting
    \/ main \in {"notify_job", "sync", "wait", "blocked"} /\ ~quit /\ ~done
         /\ \/ has_job /\ job = iter /\ Resting
            \/ ~has_job /\ thread = "run" /\ j = iter
            \/ ~has_job /\ thread = "ran" /\ expert = iter
    \/ main \in {"notify_job", "sync", "wait", "blocked", "join"} /\ ~quit /\ done
         /\ ~has_job /\ Resting /\ expert = iter
    \/ main = "quit" /\ ~quit /\ ~has_job /\ Resting
    \/ main \in {"notify_all", "join_thread"} /\ quit /\ ~has_job
         /\ (Resting \/ thread = "exited")
    \/ main = "end" /\ quit /\ ~has_job /\ thread = "exited"

Experts ==
    /\ expert \in 0..Iters /\ j \in 0..Iters /\ job \in 0..Iters
    /\ {has_job, done, quit} \subseteq BOOLEAN
    /\ mode = "serial" => Serial
    /\ mode = "async" => Async
    /\ mode = "spawn" => Spawned
    /\ mode = "worker" => Persistent

IInv == Counts /\ Gpu /\ Experts

------------------------------------------------------------------------------
\* The invariant holds before the first iteration, in each mode.
LEMMA InvariantInit == Init => IInv
<1> SUFFICES ASSUME Init PROVE IInv
  OBVIOUS
<1> USE ItersAssumption DEF Init
<1>1. /\ main \in {"compute", "issue"}
      /\ mode # "serial" => main = "issue"
  BY DEF First
<1>2. Counts
  BY <1>1 DEF Counts
<1>3. Gpu
  BY <1>1 DEF Gpu, NotIssued, Synced, First
<1>4. Experts
  <2>1. expert \in 0..Iters /\ j \in 0..Iters /\ job \in 0..Iters
    OBVIOUS
  <2>2. mode = "serial" \/ mode = "async" => thread = "absent"
    OBVIOUS
  <2> QED
    BY <1>1, <2>1, <2>2 DEF Experts, Serial, Async, Spawned, Persistent, OnMainThread, Resting, First
<1> QED
  BY <1>2, <1>3, <1>4 DEF IInv

(* What a join may rely on. *)
LEMMA JoinReady == IInv => JoinAfterBothSplits
BY DEF IInv, JoinAfterBothSplits, Counts, Gpu, Synced, Experts, Serial, Async, Spawned, Persistent,
       OnMainThread, Resting, Modes

\* The expert graph computed by the main thread itself keeps the invariant.
LEMMA ComputeStep == IInv /\ Compute => IInv'
<1> SUFFICES ASSUME IInv, Compute PROVE IInv'
  OBVIOUS
<1> USE ItersAssumption DEF IInv, Compute, fields, outputs
<1>1. Counts'
  BY DEF Counts, Experts, Serial, Async, Spawned, Persistent, OnMainThread, Gpu, Modes,
         GoOn, Goto, Route, First
<1>2. Gpu'
  BY DEF Counts, Gpu, Experts, Serial, Async, Spawned, Persistent, OnMainThread, NotIssued,
         Synced, Modes, GoOn, Goto, Route, First
<1>3. Experts'
  BY DEF Counts, Gpu, Experts, Serial, Async, Spawned, Persistent, OnMainThread, Resting,
         Modes, NotIssued, Synced, GoOn, Goto, Route, First
<1> QED
  BY <1>1, <1>2, <1>3

\* The asynchronous launch of the attention graph keeps the invariant.
LEMMA IssueStep == IInv /\ Issue => IInv'
<1> SUFFICES ASSUME IInv, Issue PROVE IInv'
  OBVIOUS
<1> USE ItersAssumption DEF IInv, Issue, fields, outputs
<1>1. Counts'
  BY DEF Counts, Experts, Serial, Async, Spawned, Persistent, OnMainThread, Gpu, Modes,
         GoOn, Goto, Route, First
<1>2. Gpu'
  BY DEF Counts, Gpu, Experts, Serial, Async, Spawned, Persistent, OnMainThread, NotIssued,
         Synced, Modes, GoOn, Goto, Route, First
<1>3. Experts'
  BY DEF Counts, Gpu, Experts, Serial, Async, Spawned, Persistent, OnMainThread, Resting,
         Modes, NotIssued, Synced, GoOn, Goto, Route, First
<1> QED
  BY <1>1, <1>2, <1>3

\* The thread created for one iteration keeps the invariant.
LEMMA SpawnStep == IInv /\ Spawn => IInv'
<1> SUFFICES ASSUME IInv, Spawn PROVE IInv'
  OBVIOUS
<1> USE ItersAssumption DEF IInv, Spawn, fields, outputs
<1>1. Counts'
  BY DEF Counts, Experts, Serial, Async, Spawned, Persistent, OnMainThread, Gpu, Modes,
         GoOn, Goto, Route, First
<1>2. Gpu'
  BY DEF Counts, Gpu, Experts, Serial, Async, Spawned, Persistent, OnMainThread, NotIssued,
         Synced, Modes, GoOn, Goto, Route, First
<1>3. Experts'
  BY DEF Counts, Gpu, Experts, Serial, Async, Spawned, Persistent, OnMainThread, Resting,
         Modes, NotIssued, Synced, GoOn, Goto, Route, First
<1> QED
  BY <1>1, <1>2, <1>3

\* Handing a job to the worker under the mutex keeps the invariant.
LEMMA SubmitStep == IInv /\ Submit => IInv'
<1> SUFFICES ASSUME IInv, Submit PROVE IInv'
  OBVIOUS
<1> USE ItersAssumption DEF IInv, Submit, fields, outputs
<1>1. mode = "worker" /\ ~quit /\ ~has_job /\ done /\ Resting
  BY DEF Counts, Modes, Experts, Serial, Async, Spawned, Persistent, OnMainThread
<1>2. main' = "notify_job"
  BY <1>1 DEF GoOn, Goto, Route
<1>3. Counts'
  BY <1>2 DEF Counts
<1>4. Gpu'
  BY <1>1, <1>2 DEF Gpu, NotIssued, Synced
<1>5. Experts'
  <2>1. Persistent'
    BY <1>1, <1>2 DEF Persistent, Resting
  <2>2. iter \in 0..Iters
    BY DEF Counts
  <2> QED
    BY <1>1, <2>1, <2>2 DEF Experts
<1> QED
  BY <1>3, <1>4, <1>5

\* Waking the worker for a submitted job keeps the invariant.
LEMMA NotifyJobStep == IInv /\ NotifyJob => IInv'
<1> SUFFICES ASSUME IInv, NotifyJob PROVE IInv'
  OBVIOUS
<1> USE ItersAssumption DEF IInv, NotifyJob, fields, outputs
<1>1. Counts'
  BY DEF Counts, Experts, Serial, Async, Spawned, Persistent, OnMainThread, Gpu, Modes,
         GoOn, Goto, Route, First, WakeThread
<1>2. Gpu'
  BY DEF Counts, Gpu, Experts, Serial, Async, Spawned, Persistent, OnMainThread, NotIssued,
         Synced, Modes, GoOn, Goto, Route, First, WakeThread
<1>3. Experts'
  BY DEF Counts, Gpu, Experts, Serial, Async, Spawned, Persistent, OnMainThread, Resting,
         Modes, NotIssued, Synced, GoOn, Goto, Route, First, WakeThread
<1> QED
  BY <1>1, <1>2, <1>3

\* The main thread's wait for the GPU keeps the invariant.
LEMMA SynchronizeStep == IInv /\ Synchronize => IInv'
<1> SUFFICES ASSUME IInv, Synchronize PROVE IInv'
  OBVIOUS
<1> USE ItersAssumption DEF IInv, Synchronize, fields, outputs
<1>1. Counts'
  BY DEF Counts, Experts, Serial, Async, Spawned, Persistent, OnMainThread, Gpu, Modes,
         GoOn, Goto, Route, First
<1>2. Gpu'
  BY DEF Counts, Gpu, Experts, Serial, Async, Spawned, Persistent, OnMainThread, NotIssued,
         Synced, Modes, GoOn, Goto, Route, First
<1>3. Experts'
  BY DEF Counts, Gpu, Experts, Serial, Async, Spawned, Persistent, OnMainThread, Resting,
         Modes, NotIssued, Synced, GoOn, Goto, Route, First
<1> QED
  BY <1>1, <1>2, <1>3

\* The main thread going to sleep for the worker's answer keeps the invariant.
LEMMA WaitStep == IInv /\ Wait => IInv'
<1> SUFFICES ASSUME IInv, Wait PROVE IInv'
  OBVIOUS
<1> USE ItersAssumption DEF IInv, Wait, fields, outputs
<1>1. Counts'
  BY DEF Counts, Experts, Serial, Async, Spawned, Persistent, OnMainThread, Gpu, Modes,
         GoOn, Goto, Route, First
<1>2. Gpu'
  BY DEF Counts, Gpu, Experts, Serial, Async, Spawned, Persistent, OnMainThread, NotIssued,
         Synced, Modes, GoOn, Goto, Route, First
<1>3. Experts'
  BY DEF Counts, Gpu, Experts, Serial, Async, Spawned, Persistent, OnMainThread, Resting,
         Modes, NotIssued, Synced, GoOn, Goto, Route, First
<1> QED
  BY <1>1, <1>2, <1>3

\* Joining the ended worker thread keeps the invariant.
LEMMA JoinThreadStep == IInv /\ JoinThread => IInv'
<1> SUFFICES ASSUME IInv, JoinThread PROVE IInv'
  OBVIOUS
<1> USE ItersAssumption DEF IInv, JoinThread, fields, outputs
<1>1. Counts'
  BY DEF Counts, Experts, Serial, Async, Spawned, Persistent, OnMainThread, Gpu, Modes,
         GoOn, Goto, Route, First
<1>2. Gpu'
  BY DEF Counts, Gpu, Experts, Serial, Async, Spawned, Persistent, OnMainThread, NotIssued,
         Synced, Modes, GoOn, Goto, Route, First
<1>3. Experts'
  BY DEF Counts, Gpu, Experts, Serial, Async, Spawned, Persistent, OnMainThread, Resting,
         Modes, NotIssued, Synced, GoOn, Goto, Route, First
<1> QED
  BY <1>1, <1>2, <1>3

\* The join of the two results, and the turn to the next iteration, keep the invariant.
LEMMA JoinStep == IInv /\ Join => IInv'
<1> SUFFICES ASSUME IInv, Join PROVE IInv'
  OBVIOUS
<1> USE ItersAssumption DEF IInv, Join, fields, outputs
<1>1. /\ thread # "run" /\ ~has_job /\ gpu = 0
      /\ expert = iter /\ attention = iter
  BY JoinReady DEF JoinAfterBothSplits
<1>2. Counts'
  <2>1. result' = [expert |-> iter, attention |-> iter] /\ iter' = iter + 1
    BY <1>1 DEF Read
  <2>2. iter \in Nat /\ iter > 0 /\ iter <= Iters
    BY DEF Counts
  <2> QED
    BY <2>1, <2>2 DEF Counts, Goto, First, Modes
<1>3. Gpu'
  BY <1>1 DEF Counts, Gpu, NotIssued, Synced, Modes, Goto, First
<1>4. Experts'
  BY <1>1 DEF Counts, Experts, Serial, Async, Spawned, Persistent, OnMainThread, Resting,
         Modes, Goto, First
<1> QED
  BY <1>2, <1>3, <1>4

\* The destructor setting quit keeps the invariant.
LEMMA QuitStep == IInv /\ Quit => IInv'
<1> SUFFICES ASSUME IInv, Quit PROVE IInv'
  OBVIOUS
<1> USE ItersAssumption DEF IInv, Quit, fields, outputs
<1>1. Counts'
  BY DEF Counts, Experts, Serial, Async, Spawned, Persistent, OnMainThread, Gpu, Modes,
         GoOn, Goto, Route, First
<1>2. Gpu'
  BY DEF Counts, Gpu, Experts, Serial, Async, Spawned, Persistent, OnMainThread, NotIssued,
         Synced, Modes, GoOn, Goto, Route, First
<1>3. Experts'
  BY DEF Counts, Gpu, Experts, Serial, Async, Spawned, Persistent, OnMainThread, Resting,
         Modes, NotIssued, Synced, GoOn, Goto, Route, First
<1> QED
  BY <1>1, <1>2, <1>3

\* The destructor's notify_all keeps the invariant.
LEMMA NotifyAllStep == IInv /\ NotifyAll => IInv'
<1> SUFFICES ASSUME IInv, NotifyAll PROVE IInv'
  OBVIOUS
<1> USE ItersAssumption DEF IInv, NotifyAll, fields, outputs
<1>1. Counts'
  BY DEF Counts, Experts, Serial, Async, Spawned, Persistent, OnMainThread, Gpu, Modes,
         GoOn, Goto, Route, First, WakeThread
<1>2. Gpu'
  BY DEF Counts, Gpu, Experts, Serial, Async, Spawned, Persistent, OnMainThread, NotIssued,
         Synced, Modes, GoOn, Goto, Route, First, WakeThread
<1>3. Experts'
  BY DEF Counts, Gpu, Experts, Serial, Async, Spawned, Persistent, OnMainThread, Resting,
         Modes, NotIssued, Synced, GoOn, Goto, Route, First, WakeThread
<1> QED
  BY <1>1, <1>2, <1>3

\* The worker testing its wait predicate, and taking a job, keeps the invariant.
LEMMA CheckStep == IInv /\ Check => IInv'
<1> SUFFICES ASSUME IInv, Check PROVE IInv'
  OBVIOUS
<1> USE DEF IInv, Check, fields, outputs
<1>1. mode = "worker" /\ Persistent
  BY DEF Counts, Modes, Experts, Serial, Async, Spawned, OnMainThread
<1>2. Counts'
  BY DEF Counts
<1>3. Gpu'
  BY DEF Gpu, NotIssued, Synced
<1>4. Persistent'
  <2>1. CASE quit
    BY <1>1, <2>1 DEF Persistent, Resting
  <2>2. CASE ~quit /\ has_job
    BY <1>1, <2>2 DEF Persistent, Resting
  <2>3. CASE ~quit /\ ~has_job
    BY <1>1, <2>3 DEF Persistent, Resting
  <2> QED
    BY <2>1, <2>2, <2>3
<1>5. j' \in 0..Iters /\ has_job' \in BOOLEAN
  BY DEF Experts
<1> QED
  BY <1>1, <1>2, <1>3, <1>4, <1>5 DEF Experts

\* The worker running its job keeps the invariant.
LEMMA RunStep == IInv /\ Run => IInv'
<1> SUFFICES ASSUME IInv, Run PROVE IInv'
  OBVIOUS
<1> USE ItersAssumption DEF IInv, Run, fields, outputs
<1>1. Counts'
  BY DEF Counts, Experts, Serial, Async, Spawned, Persistent, OnMainThread, Gpu, Modes,
         GoOn, Goto, Route, First
<1>2. Gpu'
  BY DEF Counts, Gpu, Experts, Serial, Async, Spawned, Persistent, OnMainThread, NotIssued,
         Synced, Modes, GoOn, Goto, Route, First
<1>3. Experts'
  BY DEF Counts, Gpu, Experts, Serial, Async, Spawned, Persistent, OnMainThread, Resting,
         Modes, NotIssued, Synced, GoOn, Goto, Route, First
<1> QED
  BY <1>1, <1>2, <1>3

\* The worker marking its job done keeps the invariant.
LEMMA ReportStep == IInv /\ Report => IInv'
<1> SUFFICES ASSUME IInv, Report PROVE IInv'
  OBVIOUS
<1> USE ItersAssumption DEF IInv, Report, fields, outputs
<1>1. Counts'
  BY DEF Counts, Experts, Serial, Async, Spawned, Persistent, OnMainThread, Gpu, Modes,
         GoOn, Goto, Route, First
<1>2. Gpu'
  BY DEF Counts, Gpu, Experts, Serial, Async, Spawned, Persistent, OnMainThread, NotIssued,
         Synced, Modes, GoOn, Goto, Route, First
<1>3. Experts'
  BY DEF Counts, Gpu, Experts, Serial, Async, Spawned, Persistent, OnMainThread, Resting,
         Modes, NotIssued, Synced, GoOn, Goto, Route, First
<1> QED
  BY <1>1, <1>2, <1>3

\* The worker waking the main thread keeps the invariant.
LEMMA NotifyDoneStep == IInv /\ NotifyDone => IInv'
<1> SUFFICES ASSUME IInv, NotifyDone PROVE IInv'
  OBVIOUS
<1> USE ItersAssumption DEF IInv, NotifyDone, fields, outputs
<1>1. Counts'
  BY DEF Counts, Experts, Serial, Async, Spawned, Persistent, OnMainThread, Gpu, Modes,
         GoOn, Goto, Route, First
<1>2. Gpu'
  BY DEF Counts, Gpu, Experts, Serial, Async, Spawned, Persistent, OnMainThread, NotIssued,
         Synced, Modes, GoOn, Goto, Route, First
<1>3. Experts'
  BY DEF Counts, Gpu, Experts, Serial, Async, Spawned, Persistent, OnMainThread, Resting,
         Modes, NotIssued, Synced, GoOn, Goto, Route, First
<1> QED
  BY <1>1, <1>2, <1>3

\* A wake-up nobody sent keeps the invariant.
LEMMA SpuriousWakeupStep == IInv /\ SpuriousWakeup => IInv'
<1> SUFFICES ASSUME IInv, SpuriousWakeup PROVE IInv'
  OBVIOUS
<1> USE ItersAssumption DEF IInv, SpuriousWakeup, fields, outputs
<1>1. Counts'
  BY DEF Counts, Experts, Serial, Async, Spawned, Persistent, OnMainThread, Gpu, Modes,
         GoOn, Goto, Route, First
<1>2. Gpu'
  BY DEF Counts, Gpu, Experts, Serial, Async, Spawned, Persistent, OnMainThread, NotIssued,
         Synced, Modes, GoOn, Goto, Route, First
<1>3. Experts'
  BY DEF Counts, Gpu, Experts, Serial, Async, Spawned, Persistent, OnMainThread, Resting,
         Modes, NotIssued, Synced, GoOn, Goto, Route, First
<1> QED
  BY <1>1, <1>2, <1>3

\* The GPU finishing its work keeps the invariant.
LEMMA GpuDoneStep == IInv /\ GpuDone => IInv'
<1> SUFFICES ASSUME IInv, GpuDone PROVE IInv'
  OBVIOUS
<1> USE ItersAssumption DEF IInv, GpuDone, fields, outputs
<1>1. Counts'
  BY DEF Counts, Experts, Serial, Async, Spawned, Persistent, OnMainThread, Gpu, Modes,
         GoOn, Goto, Route, First
<1>2. Gpu'
  BY DEF Counts, Gpu, Experts, Serial, Async, Spawned, Persistent, OnMainThread, NotIssued,
         Synced, Modes, GoOn, Goto, Route, First
<1>3. Experts'
  BY DEF Counts, Gpu, Experts, Serial, Async, Spawned, Persistent, OnMainThread, Resting,
         Modes, NotIssued, Synced, GoOn, Goto, Route, First
<1> QED
  BY <1>1, <1>2, <1>3

\* The inductive invariant holds in every reachable state.
LEMMA Invariant == Spec => []IInv
<1>1. IInv /\ [Next]_vars => IInv'
  <2> SUFFICES ASSUME IInv, [Next]_vars PROVE IInv'
    OBVIOUS
  <2>1. CASE UNCHANGED vars
    BY <2>1 DEF vars, fields, outputs, IInv, Counts, Gpu, NotIssued, Synced, Experts, Serial,
                Async, Spawned, Persistent, OnMainThread, Resting
  <2>2. CASE Main
    BY <2>2, ComputeStep, IssueStep, SpawnStep, SubmitStep, NotifyJobStep, SynchronizeStep,
       WaitStep, JoinThreadStep, JoinStep, QuitStep, NotifyAllStep DEF Main
  <2>3. CASE Thread
    BY <2>3, CheckStep, RunStep, ReportStep, NotifyDoneStep DEF Thread
  <2> QED
    BY <2>1, <2>2, <2>3, SpuriousWakeupStep, GpuDoneStep DEF Next
<1> QED
  BY <1>1, InvariantInit, PTL DEF Spec

------------------------------------------------------------------------------
(* Every variable of the two threads keeps its type. *)
THEOREM TypeCorrect == Spec => []TypeOK
<1>1. IInv => TypeOK
  <2> SUFFICES ASSUME IInv PROVE TypeOK
    OBVIOUS
  <2>1. /\ main \in {"compute", "issue", "spawn", "submit", "notify_job", "sync", "wait", "blocked",
                     "join_thread", "join", "quit", "notify_all", "end"}
        /\ thread \in {"absent", "check", "asleep", "run", "ran", "notify_done", "exited"}
    BY DEF IInv, Counts, Modes, Experts, Serial, Async, Spawned, Persistent, OnMainThread, Resting
  <2>2. iter \in Iterations /\ iter - 1 \in Iterations
    BY ItersAssumption DEF IInv, Counts, Iterations
  <2>3. {iter, j, job, gpu, expert, attention} \subseteq Iterations
    BY <2>2, ItersAssumption DEF IInv, Gpu, Experts, Iterations
  <2> QED
    BY <2>1, <2>2, <2>3 DEF IInv, Counts, Experts, TypeOK
<1> QED
  BY <1>1, Invariant, PTL

(* No join starts before both splits of its iteration are complete.        *)
THEOREM JoinsAreSynchronized == Spec => []JoinAfterBothSplits
BY JoinReady, Invariant, PTL

(* ~Worker never drops a job: there is none left when it sets quit.        *)
THEOREM DestructorDropsNothing == Spec => []NoJobDropped
<1>1. IInv => NoJobDropped
  BY DEF IInv, NoJobDropped, Counts, Modes, Experts, Serial, Async, Spawned, Persistent,
         OnMainThread, Resting
<1> QED
  BY <1>1, Invariant, PTL

(* When main returns and the mutex and the condition variables go out of   *)
(* scope, the thread that used them has ended: its last notify is over.    *)
THEOREM LiveObjectsOnly == Spec => []WorkerUsesLiveObjects
<1>1. IInv => WorkerUsesLiveObjects
  BY DEF IInv, WorkerUsesLiveObjects, Counts, Modes, Experts, Serial, Async, Spawned, Persistent,
         OnMainThread, Resting
<1> QED
  BY <1>1, Invariant, PTL

(* Each of the four modes implements the serial sequence of joins.         *)
THEOREM ImplementsSerial == Spec => JoinsInSeries
<1>1. Init => Abstract!Init
  BY DEF Init, Abstract!Init
<1>2. IInv /\ [Next]_vars => [Abstract!Join]_result
  <2> SUFFICES ASSUME IInv, [Next]_vars PROVE [Abstract!Join]_result
    OBVIOUS
  <2>1. CASE Join
    <3>1. /\ thread # "run" /\ gpu = 0 /\ expert = iter /\ attention = iter
      BY <2>1, JoinReady DEF JoinAfterBothSplits, Join
    <3>2. result' = [expert |-> iter, attention |-> iter]
      BY <2>1, <3>1 DEF Join, Read
    <3>3. iter \in Nat /\ iter <= Iters /\ result.expert = iter - 1
      BY <2>1 DEF IInv, Counts, Join
    <3>4. result.expert + 1 = iter
      BY <3>3 DEF IInv, Counts
    <3> QED
      BY <3>2, <3>3, <3>4 DEF Abstract!Join
  <2>2. CASE UNCHANGED vars \/ ~Join
    BY <2>2 DEF vars, fields, outputs, Next, Main, Thread, Compute, Issue, Spawn, Submit,
                NotifyJob, Synchronize, Wait, JoinThread, Quit, NotifyAll, Check, Run, Report,
                NotifyDone, SpuriousWakeup, GpuDone
  <2> QED
    BY <2>1, <2>2
<1> QED
  BY <1>1, <1>2, Invariant, PTL DEF Spec, JoinsInSeries, Abstract!Spec
==============================================================================
