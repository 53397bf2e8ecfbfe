----------------------------- MODULE PlatformArm -----------------------------
(***************************************************************************)
(* results/platform_arm/harness: the scripts that share one GPU and port   *)
(* 18099.  platform_arm.sh evaluates one build (guard, prewarm, start the  *)
(* server, run reliability.py, stop the server); legacy_arm.sh does the    *)
(* same without prewarm for an attribution arm.  chain.sh stops the first  *)
(* Q8_0 run at GATE_N tasks, runs the sub-4-bit builds and resumes Q8_0;   *)
(* attribution.sh waits for the sub-4-bit phase, kills what it finds, runs *)
(* arms L1 and L3 and resumes Q8_0 itself.  pkill works on process names,  *)
(* nvidia-smi tells only how much memory is in use, and /health tells only *)
(* that some server answers on the port.                                   *)
(***************************************************************************)
EXTENDS Integers, Sequences, FiniteSets

CONSTANTS Sub4,          \* the builds of chain.sh's second phase, in order
          NTasks,        \* number of tasks of the benchmark
          GateN,         \* GATE_N
          Modes          \* what may go on, see the variable mode

ASSUME ConstantsAssumption ==
    /\ Sub4 \in Seq({"IQ3_XXS", "Q2_K_XL", "IQ2_XXS"})
    /\ NTasks \in Nat /\ GateN \in Nat
    /\ Modes \subseteq {"chain", "faulty", "takeover"}

Sub4Builds == {Sub4[i] : i \in 1..Len(Sub4)}
Anchors == {"gate", "resume", "final"}   \* the invocations of "he Q8_0"
Legacy == {"L1", "L3"}                   \* the invocations of legacy_arm.sh
Jobs == Sub4Builds \cup Anchors \cup Legacy

ChainJobs == Append(Sub4, "resume")
AttrJobs == <<"L1", "L3", "final">>

(* The build a job serves, and the tag its JSONL is named after. *)
Build(j) == IF j \in Anchors THEN "Q8_0" ELSE IF j \in Legacy THEN "IQ3_XXS" ELSE j
Tag(j) == IF j \in Anchors THEN "Q8_0" ELSE j
Tags == {Tag(j) : j \in Jobs}
TagBuild(tag) == IF tag \in Legacy THEN "IQ3_XXS" ELSE tag

Task == 1..NTasks
Answers == {"none", "error"} \cup {Build(j) : j \in Jobs}
Blank == [t \in Task |-> "none"]

VARIABLES chain,    \* <<where chain.sh is, index of its job>>
          attr,     \* <<where attribution.sh is, index of its job>>
          job,      \* job[j]: where the invocation j is
          srv,      \* srv[j]: the llama-server that j launched
          memory,   \* memory[j]: results_by_id of j's harness
          results,  \* results[tag][t]: which server answered, in the JSONL
          sub4done, \* chain.log says SUB4 PHASE COMPLETE
          mode      \* "chain": chain.sh alone; "faulty": and its polling loops
                    \* run out and servers die; "takeover": attribution.sh too

vars == <<chain, attr, job, srv, memory, results, sub4done, mode>>
scripts == <<chain, attr, sub4done>>
files == <<memory, results>>

faults == mode = "faulty"
GpuFree == \A j \in Jobs : srv[j] \notin {"loading", "up", "dying"}
Up == {j \in Jobs : srv[j] = "up"}
OnPort == {j \in Jobs : srv[j] \in {"loading", "up"}}

Init ==
    /\ chain = <<"gate", 0>>
    /\ mode \in Modes
    /\ attr = <<IF mode = "takeover" THEN "poll" ELSE "off", 0>>
    /\ job = [j \in Jobs |-> IF j = "gate" THEN "guard" ELSE "idle"]
    /\ srv = [j \in Jobs |-> "none"]
    /\ memory = [j \in Jobs |-> Blank]
    /\ results = [tag \in Tags |-> Blank]
    /\ sub4done = FALSE

------------------------------------------------------------------------------
(* One invocation of platform_arm.sh or legacy_arm.sh *)

Goto(j, label) == job' = [job EXCEPT ![j] = label]

(* exit after the server was launched: the EXIT trap stops it. *)
Fails(j) == Goto(j, "stop")

(* A missing model file ends platform_arm.sh before the guard does.        *)
Guard(j) ==
    /\ job[j] = "guard"
    /\ \/ GpuFree /\ Goto(j, IF j \in Legacy THEN "launch" ELSE "prewarm")
       \/ faults /\ ~GpuFree /\ Goto(j, IF j \in Legacy THEN "done" ELSE "drain")
       \/ faults /\ j \notin Legacy /\ Goto(j, "drain")
    /\ UNCHANGED <<scripts, srv, files>>

(* dd reads the whole model file: nothing is checked again afterwards. *)
Prewarm(j) ==
    /\ job[j] = "prewarm"
    /\ Goto(j, "launch")
    /\ UNCHANGED <<scripts, srv, files>>

Launch(j) ==
    /\ job[j] = "launch"
    /\ Goto(j, "health")
    /\ srv' = [srv EXCEPT ![j] = "starting"]
    /\ UNCHANGED <<scripts, files>>

(* Mutant: a server that died is waited for. *)
HealthWaitsForever(j) ==
    /\ job[j] = "health"
    /\ Up # {} /\ Goto(j, "query")
    /\ UNCHANGED <<scripts, srv, files>>

(* curl /health comes before kill -0 $SRVPID, and any server answers it;   *)
(* when the loop runs out, legacy_arm.sh goes on to the harness.           *)
Health(j) ==
    /\ job[j] = "health"
    /\ \/ Up # {} /\ Goto(j, "query")
       \/ Up = {} /\ srv[j] = "dead" /\ Goto(j, IF j \in Legacy THEN "done" ELSE "stop")
       \/ faults /\ Up = {} /\ srv[j] # "dead"
             /\ IF j \in Legacy THEN Goto(j, "query") ELSE Fails(j)
    /\ UNCHANGED <<scripts, srv, files>>

(* Mutant: the JSONL is opened with "w". *)
QueryTruncates(j) ==
    /\ job[j] = "query"
    /\ IF Up = {}
       THEN Fails(j) /\ UNCHANGED files
       ELSE /\ Goto(j, "eval")
            /\ memory' = [memory EXCEPT ![j] = results[Tag(j)]]
            /\ results' = [results EXCEPT ![Tag(j)] = Blank]
    /\ UNCHANGED <<scripts, srv>>

(* reliability.py: get_model_info raises if nobody answers; load_existing. *)
Query(j) ==
    /\ job[j] = "query"
    /\ IF Up = {}
       THEN Fails(j) /\ UNCHANGED memory
       ELSE /\ Goto(j, "eval")
            /\ memory' = [memory EXCEPT ![j] = results[Tag(j)]]
    /\ UNCHANGED <<scripts, srv, results>>

(* One task, one attempt (--max-attempts 1, --concurrency 1): whoever      *)
(* serves the port answers; no answer is recorded as a failed attempt.     *)
Ask(j) ==
    /\ job[j] = "eval"
    /\ \E t \in Task, answer \in {Build(k) : k \in Up} \cup (IF Up = {} THEN {"error"} ELSE {}) :
          /\ memory[j][t] = "none"
          /\ \A u \in 1..(t - 1) : memory[j][u] # "none"
          /\ memory' = [memory EXCEPT ![j][t] = answer]
          /\ results' = [results EXCEPT ![Tag(j)][t] = answer]
    /\ UNCHANGED <<scripts, job, srv>>

(* The harness rewrites the JSONL from its own memory and exits. *)
Finish(j) ==
    /\ job[j] = "eval"
    /\ \A t \in Task : memory[j][t] # "none"
    /\ results' = [results EXCEPT ![Tag(j)] = memory[j]]
    /\ Goto(j, "stop")
    /\ UNCHANGED <<scripts, srv, memory>>

Terminated(s) == IF s \in {"loading", "up"} THEN "dying" ELSE IF s = "starting" THEN "dead" ELSE s

Stop(j) ==
    /\ job[j] = "stop"
    /\ srv' = [srv EXCEPT ![j] = Terminated(@)]
    /\ Goto(j, IF j \in Legacy THEN "drain" ELSE "reap")
    /\ memory' = [memory EXCEPT ![j] = Blank]
    /\ UNCHANGED <<scripts, results>>

(* Mutant: no kill -9 after the minute. *)
ReapPolitely(j) ==
    /\ job[j] = "reap"
    /\ Goto(j, "drain")
    /\ UNCHANGED <<scripts, srv, files>>

(* stop_srv: gone by itself within a minute, or kill -9. *)
Reap(j) ==
    /\ job[j] = "reap"
    /\ srv' = [srv EXCEPT ![j] = IF @ = "none" THEN @ ELSE "dead"]
    /\ Goto(j, "drain")
    /\ UNCHANGED <<scripts, files>>

Drain(j) ==
    /\ job[j] = "drain"
    /\ GpuFree \/ faults
    /\ Goto(j, "done")
    /\ UNCHANGED <<scripts, srv, files>>

Arm(j) ==
    \/ Guard(j) \/ Prewarm(j) \/ Launch(j) \/ Health(j) \/ Query(j)
    \/ Ask(j) \/ Finish(j) \/ Stop(j) \/ Reap(j) \/ Drain(j)

------------------------------------------------------------------------------
(* llama-server (external): it binds the port first and exits if it cannot *)

Serve(j, from, to) ==
    /\ srv[j] = from
    /\ srv' = [srv EXCEPT ![j] = to]
    /\ UNCHANGED <<scripts, job, files>>

Bind(j) == OnPort = {} /\ Serve(j, "starting", "loading")
BindFails(j) == ~GpuFree /\ Serve(j, "starting", "dead")
Loaded(j) == Serve(j, "loading", "up")
LoadFails(j) == Serve(j, "loading", "dead")
Crash(j) == faults /\ Serve(j, "up", "dead")
Exit(j) == Serve(j, "dying", "dead")

Server(j) == Bind(j) \/ BindFails(j) \/ Loaded(j) \/ Exit(j)

------------------------------------------------------------------------------
(* pkill *)

KillHarness(S) ==
    job' = [j \in Jobs |-> IF j \in S /\ job[j] \in {"query", "eval"} THEN "stop" ELSE job[j]]

KillServers == srv' = [j \in Jobs |-> Terminated(srv[j])]

------------------------------------------------------------------------------
(* chain.sh *)

Count == Cardinality({t \in Task : results["Q8_0"][t] # "none"})

(* Mutant: the server is stopped first. *)
ChainGateServerFirst ==
    /\ chain[1] = "gate"
    /\ Count >= GateN \/ job["gate"] = "done" \/ faults
    /\ KillServers
    /\ chain' = <<"stop", 0>>
    /\ UNCHANGED <<attr, sub4done, job, files>>

ChainGate ==
    /\ chain[1] = "gate"
    /\ Count >= GateN \/ job["gate"] = "done" \/ faults
    /\ KillHarness({"gate"})
    /\ chain' = <<"stop", 0>>
    /\ UNCHANGED <<attr, sub4done, srv, files>>

ChainStop ==
    /\ chain[1] = "stop"
    /\ job["gate"] = "done" \/ faults
    /\ KillServers
    /\ chain' = <<"drain", 0>>
    /\ UNCHANGED <<attr, sub4done, job, files>>

(* Mutant: the builds are started in the background. *)
ChainNextInBackground ==
    /\ \/ chain[1] = "drain" /\ (GpuFree \/ faults)
       \/ chain[1] = "run"
    /\ LET i == chain[2] + 1 IN
       IF i <= Len(ChainJobs)
       THEN /\ chain' = <<"run", i>>
            /\ Goto(ChainJobs[i], "guard")
            /\ sub4done' = (sub4done \/ i > Len(Sub4))
       ELSE chain' = <<"complete", 0>> /\ UNCHANGED <<job, sub4done>>
    /\ UNCHANGED <<attr, srv, files>>

(* The next job of chain.sh: it starts as soon as the one before has ended, *)
(* and SUB4 PHASE COMPLETE is logged right before the Q8_0 resume.          *)
ChainNext ==
    /\ \/ chain[1] = "drain" /\ (GpuFree \/ faults)
       \/ chain[1] = "run" /\ job[ChainJobs[chain[2]]] = "done"
    /\ LET i == chain[2] + 1 IN
       IF i <= Len(ChainJobs)
       THEN /\ chain' = <<"run", i>>
            /\ Goto(ChainJobs[i], "guard")
            /\ sub4done' = (sub4done \/ i > Len(Sub4))
       ELSE chain' = <<"complete", 0>> /\ UNCHANGED <<job, sub4done>>
    /\ UNCHANGED <<attr, srv, files>>

Chain == ChainGate \/ ChainStop \/ ChainNext

------------------------------------------------------------------------------
(* attribution.sh *)

(* Mutant: SUB4 PHASE COMPLETE is not waited for. *)
AttrTakeOverAtOnce ==
    /\ attr[1] = "poll"
    /\ attr' = <<"killharness", 0>>
    /\ chain' = IF chain[1] = "complete" THEN chain ELSE <<"killed", 0>>
    /\ UNCHANGED <<sub4done, job, srv, files>>

(* pkill chain.sh: the platform_arm.sh it was waiting for runs on. *)
AttrTakeOver ==
    /\ attr[1] = "poll"
    /\ sub4done \/ faults
    /\ attr' = <<"killharness", 0>>
    /\ chain' = IF chain[1] = "complete" THEN chain ELSE <<"killed", 0>>
    /\ UNCHANGED <<sub4done, job, srv, files>>

AttrKillHarness ==
    /\ attr[1] = "killharness"
    /\ KillHarness(Jobs \ Legacy)
    /\ attr' = <<"killserver", 0>>
    /\ UNCHANGED <<chain, sub4done, srv, files>>

AttrKillServer ==
    /\ attr[1] = "killserver"
    /\ KillServers
    /\ attr' = <<"drain", 0>>
    /\ UNCHANGED <<chain, sub4done, job, files>>

AttrNext ==
    /\ \/ attr[1] = "drain" /\ (GpuFree \/ faults)
       \/ attr[1] = "run" /\ job[AttrJobs[attr[2]]] = "done"
    /\ LET i == attr[2] + 1 IN
       IF i <= Len(AttrJobs)
       THEN attr' = <<"run", i>> /\ Goto(AttrJobs[i], "guard")
       ELSE attr' = <<"complete", 0>> /\ UNCHANGED job
    /\ UNCHANGED <<chain, sub4done, srv, files>>

Attr == AttrTakeOver \/ AttrKillHarness \/ AttrKillServer \/ AttrNext

------------------------------------------------------------------------------
Next ==
    /\ UNCHANGED mode
    /\ \/ \E j \in Jobs : Arm(j) \/ Server(j) \/ LoadFails(j) \/ Crash(j)
       \/ Chain
       \/ Attr

Spec == Init /\ [][Next]_vars

(* The scripts and the servers run; a load that fails or a crash need not  *)
(* happen.  Each is a process of its own, so each gets weak fairness.      *)
FairSpec ==
    /\ Spec
    /\ \A j \in Jobs : WF_vars(Arm(j) /\ UNCHANGED mode) /\ WF_vars(Server(j) /\ UNCHANGED mode)
    /\ WF_vars(Chain /\ UNCHANGED mode)
    /\ WF_vars(Attr /\ UNCHANGED mode)

------------------------------------------------------------------------------
(* Properties *)

(* attribution.sh has not taken over, no loop runs out, no server dies. *)
TakenOver == attr[1] \notin {"off", "poll"}
Calm == ~faults /\ ~TakenOver

Alone(j) == \A k \in Jobs \ {j} : srv[k] \in {"none", "dead"}

(* While a harness measures, no server but that of its own script exists,  *)
(* until attribution.sh takes over, if no loop runs out and no server      *)
(* dies: no job of chain.sh measures next to a server that an earlier one, *)
(* or pkill, left behind (guard, stop_srv, chain.sh's waits).              *)
NothingPerturbs ==
    Calm => \A j \in Jobs : job[j] = "eval" =>
        \A k \in Jobs \ {j} : srv[k] \in {"none", "dead"}

Intact(tag) == \A t \in Task : results[tag][t] \in {"none", TagBuild(tag)}

(* What a JSONL says of a build was answered by that build until           *)
(* attribution.sh takes over, if no loop runs out and no server dies: no   *)
(* other server answered for it, and no task was settled because a script  *)
(* had stopped the server under the harness.                               *)
AnswersAreTheBuilds == Calm => \A tag \in Tags : Intact(tag)

(* The sub-4-bit results, the ones the arm exists for, are intact even     *)
(* when attribution.sh takes over.                                         *)
Sub4Intact == ~faults => \A b \in Sub4Builds : Intact(b)

(* attribution.sh on the Q8_0 anchor it kills: it "resumes from its own    *)
(* JSONL, so nothing is lost".  A task that attribution.sh makes fail is   *)
(* lost: the JSONL settles it.                                             *)
AnchorIntact == Intact("Q8_0")

Kept(tag) ==
    \A t \in Task : results[tag][t] # "none" => results'[tag][t] = results[tag][t]

(* A recorded task is settled: no later run of the same tag, and no final  *)
(* rewrite by a harness with an older view, changes or drops it.  The      *)
(* Q8_0 anchor, which several runs write, keeps its records until          *)
(* attribution.sh takes over, if no loop runs out and no server dies.      *)
AnswersKept ==
    [][\A tag \in Tags : tag # "Q8_0" \/ Calm => Kept(tag)]_results

(* platform_arm.sh does not exit before its server is gone, whichever exit *)
(* it takes (stop_srv, the EXIT trap, kill -9 after a minute).             *)
NoServerOutlivesItsArm ==
    \A j \in Jobs \ Legacy : job[j] \in {"idle", "done"} => srv[j] \in {"none", "dead"}

(* chain.sh comes to its end with every arm over, whatever dies, and then  *)
(* the card is free unless something did.                                  *)
ChainCompletes ==
    mode # "takeover" => <>(/\ chain[1] = "complete" /\ (faults \/ GpuFree)
       /\ \A i \in 1..Len(ChainJobs) : job[ChainJobs[i]] = "done")

(* attribution.sh comes to its end even when it takes over from chain.sh   *)
(* at a moment when there is nothing to kill yet.                          *)
AttributionCompletes == mode = "takeover" => <>(attr[1] = "complete")
==============================================================================
