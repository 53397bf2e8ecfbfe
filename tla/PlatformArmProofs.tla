------------------------- MODULE PlatformArmProofs -------------------------
(***************************************************************************)
(* Proofs about PlatformArm, for any list of sub-4-bit builds and any      *)
(* numbers of tasks: no arm leaves its server behind; until attribution.sh *)
(* takes over, chain.sh measures one build at a time and attributes every  *)
(* answer to the build that gave it; no answer of another build than the   *)
(* anchor's is ever changed; and the sub-4-bit results survive.            *)
(***************************************************************************)
EXTENDS PlatformArm, SequenceTheorems, TLAPS

JobStates == {"idle", "guard", "prewarm", "launch", "health", "query", "eval", "stop", "reap",
              "drain", "done"}
ServerStates == {"none", "starting", "loading", "up", "dying", "dead"}
Off == {"none", "dead"}
Inactive == {"idle", "done"}

ChainSet == Sub4Builds \cup {"resume"}
AttrSet == Legacy \cup {"final"}

TypeInv ==
    /\ mode \in {"chain", "faulty", "takeover"}
    /\ chain \in {"gate", "stop", "drain", "run", "complete", "killed"} \X (0..Len(ChainJobs))
    /\ chain[1] = "run" <=> chain[2] # 0
    /\ attr \in {"off", "poll", "killharness", "killserver", "drain", "run", "complete"} \X (0..3)
    /\ attr[1] = "run" <=> attr[2] # 0
    /\ job \in [Jobs -> JobStates]
    /\ srv \in [Jobs -> ServerStates]
    /\ memory \in [Jobs -> [Task -> Answers]]
    /\ results \in [Tags -> [Task -> Answers]]
    /\ sub4done \in BOOLEAN

------------------------------------------------------------------------------
(* The jobs of the two scripts.                                            *)

\* chain.sh runs the sub-4-bit builds, each at least once, and then the resume.
LEMMA ChainFacts ==
    /\ Sub4Builds \subseteq {"IQ3_XXS", "Q2_K_XL", "IQ2_XXS"}
    /\ Len(Sub4) \in Nat /\ Len(ChainJobs) = Len(Sub4) + 1
    /\ \A i \in 1..Len(Sub4) : ChainJobs[i] \in Sub4Builds
    /\ ChainJobs[Len(Sub4) + 1] = "resume"
    /\ \A b \in Sub4Builds : \E i \in 1..Len(Sub4) : ChainJobs[i] = b
  <1> DEFINE S == {"IQ3_XXS", "Q2_K_XL", "IQ2_XXS", "resume"}
  <1>1. Sub4 \in Seq({"IQ3_XXS", "Q2_K_XL", "IQ2_XXS"})
    BY ConstantsAssumption
  <1>2. /\ Len(Sub4) \in Nat
        /\ \A i \in 1..Len(Sub4) : Sub4[i] \in {"IQ3_XXS", "Q2_K_XL", "IQ2_XXS"}
    BY <1>1
  <1>3. Sub4 \in Seq(S)
    BY <1>1, SeqMonotonic
  <1>4. "resume" \in S
    OBVIOUS
  <1> HIDE DEF S
  <1>5. /\ Len(ChainJobs) = Len(Sub4) + 1 /\ ChainJobs[Len(Sub4) + 1] = "resume"
        /\ \A i \in 1..Len(Sub4) : ChainJobs[i] = Sub4[i]
    BY <1>3, <1>4, AppendProperties DEF ChainJobs
  <1> QED BY <1>2, <1>5 DEF Sub4Builds

\* Every job of chain.sh is one of its set.
LEMMA ChainJobsIn ==
    ASSUME NEW i \in 1..Len(ChainJobs)
    PROVE  /\ ChainJobs[i] \in ChainSet
           /\ i <= Len(Sub4) \/ ChainJobs[i] = "resume"
  <1>1. i \in 1..Len(Sub4) \/ i = Len(Sub4) + 1
    BY ChainFacts
  <1> QED BY <1>1, ChainFacts DEF ChainSet

\* attribution.sh runs its two arms and the anchor.
LEMMA AttrJobsIn ==
    /\ Len(AttrJobs) = 3
    /\ \A i \in 1..3 : AttrJobs[i] \in AttrSet
  BY DEF AttrJobs, AttrSet, Legacy

\* The jobs of the scripts are different ones, and so are the tags of the builds.
LEMMA JobSets ==
    /\ Jobs = ChainSet \cup AttrSet \cup {"gate"}
    /\ ChainSet \cap AttrSet = {} /\ "gate" \notin ChainSet /\ "gate" \notin AttrSet
    /\ ChainSet \cap Legacy = {} /\ "resume" \notin Sub4Builds
    /\ \A j \in Jobs : Tag(j) \in Tags
    /\ \A j \in Jobs, b \in Sub4Builds : Tag(j) = b => j = b
    /\ \A j \in Jobs : TagBuild(Tag(j)) = Build(j) /\ Build(j) # "none"
    /\ \A b \in Sub4Builds : b \in Tags /\ TagBuild(b) = b
  <1>1. Sub4Builds \subseteq {"IQ3_XXS", "Q2_K_XL", "IQ2_XXS"}
    BY ChainFacts
  <1>2. /\ Jobs = ChainSet \cup AttrSet \cup {"gate"}
        /\ ChainSet \cap AttrSet = {} /\ "gate" \notin ChainSet /\ "gate" \notin AttrSet
        /\ ChainSet \cap Legacy = {} /\ "resume" \notin Sub4Builds
    BY <1>1 DEF Jobs, ChainSet, AttrSet, Anchors, Legacy
  <1>3. \A j \in Jobs : Tag(j) \in Tags
    BY DEF Tags
  <1>4. \A j \in Jobs, b \in Sub4Builds : Tag(j) = b => j = b
    BY <1>1 DEF Tag
  <1>5. \A j \in Jobs : TagBuild(Tag(j)) = Build(j) /\ Build(j) # "none"
    BY <1>1 DEF Jobs, Tag, TagBuild, Build, Anchors, Legacy
  <1>6. \A b \in Sub4Builds : b \in Jobs /\ Tag(b) = b /\ TagBuild(b) = b
    BY <1>1 DEF Jobs, Tag, TagBuild, Anchors, Legacy
  <1> QED BY <1>2, <1>3, <1>4, <1>5, <1>6

------------------------------------------------------------------------------
(* What the steps of an arm, of a server and of pkill change.              *)

\* A step of an arm changes its own state, its own server and its own files.
LEMMA ArmMoves ==
    ASSUME TypeInv, NEW j \in Jobs, Arm(j)
    PROVE  /\ UNCHANGED scripts
           /\ job[j] \notin Inactive
           /\ \E st \in JobStates \ {"idle"} : job' = [job EXCEPT ![j] = st]
           /\ \E st \in ServerStates : srv' = [srv EXCEPT ![j] = st]
           /\ \E m \in [Task -> Answers] : memory' = [memory EXCEPT ![j] = m]
           /\ \E r \in [Task -> Answers] : results' = [results EXCEPT ![Tag(j)] = r]
           /\ UNCHANGED results \/ job[j] = "eval"
  <1> USE DEF Inactive, JobStates, scripts
  <1>s. srv = [srv EXCEPT ![j] = srv[j]] /\ srv[j] \in ServerStates
    BY DEF TypeInv
  <1>m. memory = [memory EXCEPT ![j] = memory[j]] /\ memory[j] \in [Task -> Answers]
    BY DEF TypeInv
  <1>r. /\ results = [results EXCEPT ![Tag(j)] = results[Tag(j)]]
        /\ results[Tag(j)] \in [Task -> Answers]
    BY JobSets DEF TypeInv
  <1>1. CASE Guard(j) \/ Prewarm(j) \/ Health(j) \/ Drain(j)
    <2>1. UNCHANGED <<scripts, srv, files>> /\ job[j] \notin Inactive
          /\ \E st \in JobStates \ {"idle"} : job' = [job EXCEPT ![j] = st]
      BY <1>1 DEF Guard, Prewarm, Health, Drain, Goto, Fails
    <2> QED BY <2>1, <1>s, <1>m, <1>r DEF files
  <1>2. CASE Launch(j)
    BY <1>2, <1>m, <1>r DEF Launch, Goto, files, ServerStates
  <1>3. CASE Query(j)
    <2>1. /\ UNCHANGED <<scripts, srv, results>> /\ job[j] \notin Inactive
          /\ \E st \in JobStates \ {"idle"} : job' = [job EXCEPT ![j] = st]
          /\ UNCHANGED memory \/ memory' = [memory EXCEPT ![j] = results[Tag(j)]]
      BY <1>3 DEF Query, Goto, Fails
    <2> QED BY <2>1, <1>s, <1>m, <1>r
  <1>4. CASE Ask(j)
    <2>1. PICK t \in Task, answer \in {Build(k) : k \in Up} \cup (IF Up = {} THEN {"error"} ELSE {}) :
              /\ memory' = [memory EXCEPT ![j][t] = answer]
              /\ results' = [results EXCEPT ![Tag(j)][t] = answer]
      BY <1>4 DEF Ask
    <2>2. answer \in Answers
      BY DEF Answers, Up
    <2> DEFINE m == [memory[j] EXCEPT ![t] = answer]
               r == [results[Tag(j)] EXCEPT ![t] = answer]
    <2>3. m \in [Task -> Answers] /\ r \in [Task -> Answers]
      BY <2>2, <1>m, <1>r
    <2>4. memory' = [memory EXCEPT ![j] = m] /\ results' = [results EXCEPT ![Tag(j)] = r]
      BY <2>1 DEF TypeInv
    <2>5. UNCHANGED <<scripts, job, srv>> /\ job[j] = "eval" /\ job = [job EXCEPT ![j] = "eval"]
      BY <1>4 DEF Ask, TypeInv
    <2> HIDE DEF m, r
    <2> QED BY <2>3, <2>4, <2>5, <1>s
  <1>5. CASE Finish(j)
    <2>1. /\ results' = [results EXCEPT ![Tag(j)] = memory[j]] /\ job[j] = "eval"
          /\ UNCHANGED <<scripts, srv, memory>> /\ job' = [job EXCEPT ![j] = "stop"]
      BY <1>5 DEF Finish, Goto
    <2> QED BY <2>1, <1>s, <1>m
  <1>6. CASE Stop(j)
    <2>1. Terminated(srv[j]) \in ServerStates /\ Blank \in [Task -> Answers]
      BY <1>s DEF Terminated, ServerStates, Blank, Answers
    <2>2. /\ srv' = [srv EXCEPT ![j] = Terminated(srv[j])] /\ memory' = [memory EXCEPT ![j] = Blank]
          /\ UNCHANGED <<scripts, results>> /\ job[j] \notin Inactive
          /\ \E st \in JobStates \ {"idle"} : job' = [job EXCEPT ![j] = st]
      BY <1>6 DEF Stop, Goto
    <2> QED BY <2>1, <2>2, <1>r
  <1>7. CASE Reap(j)
    <2>1. /\ srv' = [srv EXCEPT ![j] = IF srv[j] = "none" THEN srv[j] ELSE "dead"]
          /\ UNCHANGED <<scripts, memory, results>> /\ job[j] \notin Inactive
          /\ job' = [job EXCEPT ![j] = "drain"]
      BY <1>7 DEF Reap, Goto, files
    <2>2. (IF srv[j] = "none" THEN srv[j] ELSE "dead") \in ServerStates
      BY DEF ServerStates
    <2> QED BY <2>1, <2>2, <1>m, <1>r
  <1> QED BY <1>1, <1>2, <1>3, <1>4, <1>5, <1>6, <1>7 DEF Arm

\* A server that runs changes, and nothing else; one that is up ends only when faults happen.
LEMMA ServerMoves ==
    ASSUME TypeInv, NEW j \in Jobs, Server(j) \/ LoadFails(j) \/ Crash(j)
    PROVE  /\ UNCHANGED <<scripts, job, files>>
           /\ srv[j] \notin Off
           /\ \E st \in ServerStates : srv' = [srv EXCEPT ![j] = st]
           /\ faults \/ srv[j] # "up"
  BY DEF Server, LoadFails, Crash, Serve, Bind, BindFails, Loaded, Exit, Off, ServerStates

\* pkill ends no job and starts none.
LEMMA KillMoves ==
    ASSUME TypeInv, NEW S \in SUBSET Jobs, KillHarness(S)
    PROVE  /\ job' \in [Jobs -> JobStates]
           /\ \A j \in Jobs : job'[j] = job[j] \/ (job'[j] = "stop" /\ job[j] \in {"query", "eval"})
           /\ \A j \in S : job'[j] \notin {"query", "eval"}
  <1>1. \A j \in Jobs : job'[j] = IF j \in S /\ job[j] \in {"query", "eval"} THEN "stop" ELSE job[j]
    BY DEF KillHarness
  <1>2. job' \in [Jobs -> JobStates]
    BY DEF KillHarness, TypeInv, JobStates
  <1> QED BY <1>1, <1>2

\* Killed servers end, and none starts.
LEMMA KillServersMoves ==
    ASSUME TypeInv, KillServers
    PROVE  /\ srv' \in [Jobs -> ServerStates]
           /\ \A j \in Jobs : srv[j] \in Off => srv'[j] = srv[j]
  BY DEF KillServers, Terminated, TypeInv, ServerStates, Off

\* The next job of chain.sh.
LEMMA ChainNextMoves ==
    ASSUME TypeInv, ChainNext
    PROVE  /\ UNCHANGED <<attr, srv, files>>
           /\ chain[1] = "drain" \/ (chain[1] = "run" /\ job[ChainJobs[chain[2]]] = "done")
           /\ \/ /\ chain[2] + 1 \in 1..Len(ChainJobs)
                 /\ chain' = <<"run", chain[2] + 1>>
                 /\ job' = [job EXCEPT ![ChainJobs[chain[2] + 1]] = "guard"]
                 /\ sub4done' = (sub4done \/ chain[2] + 1 > Len(Sub4))
              \/ /\ chain[2] + 1 > Len(ChainJobs)
                 /\ chain' = <<"complete", 0>> /\ UNCHANGED <<job, sub4done>>
  <1>1. chain[2] \in Nat /\ Len(ChainJobs) \in Nat
    BY ChainFacts DEF TypeInv
  <1> DEFINE i == chain[2] + 1
  <1>2. i \in Nat /\ i >= 1
    BY <1>1
  <1>3. \/ i <= Len(ChainJobs) /\ chain' = <<"run", i>> /\ Goto(ChainJobs[i], "guard")
           /\ sub4done' = (sub4done \/ i > Len(Sub4))
        \/ ~(i <= Len(ChainJobs)) /\ chain' = <<"complete", 0>> /\ UNCHANGED <<job, sub4done>>
    BY DEF ChainNext
  <1>4. /\ UNCHANGED <<attr, srv, files>>
        /\ chain[1] = "drain" \/ (chain[1] = "run" /\ job[ChainJobs[chain[2]]] = "done")
    BY DEF ChainNext
  <1>5. i <= Len(ChainJobs) => i \in 1..Len(ChainJobs)
    BY <1>1, <1>2
  <1>6. ~(i <= Len(ChainJobs)) => i > Len(ChainJobs)
    BY <1>1, <1>2
  <1> QED BY <1>3, <1>4, <1>5, <1>6 DEF Goto

\* The next job of attribution.sh.
LEMMA AttrNextMoves ==
    ASSUME TypeInv, AttrNext
    PROVE  /\ UNCHANGED <<chain, sub4done, srv, files>>
           /\ attr[1] = "drain" \/ (attr[1] = "run" /\ job[AttrJobs[attr[2]]] = "done")
           /\ \/ /\ attr[2] + 1 \in 1..3 /\ attr' = <<"run", attr[2] + 1>>
                 /\ job' = [job EXCEPT ![AttrJobs[attr[2] + 1]] = "guard"]
              \/ attr' = <<"complete", 0>> /\ UNCHANGED job
  <1>1. attr[2] \in Nat
    BY DEF TypeInv
  <1>2. attr[2] + 1 <= 3 => attr[2] + 1 \in 1..3
    BY <1>1
  <1> QED BY <1>2, AttrJobsIn DEF AttrNext, Goto

------------------------------------------------------------------------------
\* The variables have their types when the scripts are started.
LEMMA TypeInit == Init => TypeInv
  <1> SUFFICES ASSUME Init PROVE TypeInv
    OBVIOUS
  <1>1. mode \in {"chain", "faulty", "takeover"}
    BY ConstantsAssumption DEF Init
  <1>2. 0 \in 0..Len(ChainJobs)
    BY ChainFacts
  <1>3. Blank \in [Task -> Answers]
    BY DEF Blank, Answers
  <1>4. job \in [Jobs -> JobStates] /\ srv \in [Jobs -> ServerStates]
    BY DEF Init, JobStates, ServerStates
  <1>5. memory \in [Jobs -> [Task -> Answers]] /\ results \in [Tags -> [Task -> Answers]]
    BY <1>3 DEF Init
  <1>6. chain = <<"gate", 0>> /\ chain[1] # "run" /\ chain[2] = 0
    BY DEF Init
  <1>7. chain \in {"gate", "stop", "drain", "run", "complete", "killed"} \X (0..Len(ChainJobs))
    BY <1>2, <1>6
  <1>8. \E label \in {"poll", "off"} : attr = <<label, 0>>
    BY DEF Init
  <1>9. /\ attr \in {"off", "poll", "killharness", "killserver", "drain", "run", "complete"} \X (0..3)
        /\ attr[1] # "run" /\ attr[2] = 0
    BY <1>8
  <1>10. sub4done \in BOOLEAN
    BY DEF Init
  <1> QED BY <1>1, <1>4, <1>5, <1>6, <1>7, <1>9, <1>10 DEF TypeInv

\* Every step keeps the types.
LEMMA TypeStep == TypeInv /\ [Next]_vars => TypeInv'
  <1> SUFFICES ASSUME TypeInv, [Next]_vars PROVE TypeInv'
    OBVIOUS
  <1>1. ASSUME NEW j \in Jobs, Arm(j), UNCHANGED mode PROVE TypeInv'
    <2>1. job' \in [Jobs -> JobStates]
      <3>1. PICK st \in JobStates : job' = [job EXCEPT ![j] = st]
        BY <1>1, ArmMoves
      <3> QED BY <3>1 DEF TypeInv
    <2>2. srv' \in [Jobs -> ServerStates]
      <3>1. PICK st \in ServerStates : srv' = [srv EXCEPT ![j] = st]
        BY <1>1, ArmMoves
      <3> QED BY <3>1 DEF TypeInv
    <2>3. memory' \in [Jobs -> [Task -> Answers]]
      <3>1. PICK m \in [Task -> Answers] : memory' = [memory EXCEPT ![j] = m]
        BY <1>1, ArmMoves
      <3> QED BY <3>1 DEF TypeInv
    <2>4. results' \in [Tags -> [Task -> Answers]]
      <3>1. PICK r \in [Task -> Answers] : results' = [results EXCEPT ![Tag(j)] = r]
        BY <1>1, ArmMoves
      <3> QED BY <3>1 DEF TypeInv
    <2>5. UNCHANGED scripts
      BY <1>1, ArmMoves
    <2> QED BY <1>1, <2>1, <2>2, <2>3, <2>4, <2>5 DEF TypeInv, scripts
  <1>2. ASSUME NEW j \in Jobs, Server(j) \/ LoadFails(j) \/ Crash(j), UNCHANGED mode PROVE TypeInv'
    <2>1. srv' \in [Jobs -> ServerStates] /\ UNCHANGED <<scripts, job, files>>
      BY <1>2, ServerMoves DEF TypeInv
    <2> QED BY <1>2, <2>1 DEF TypeInv, scripts, files
  <1>3. CASE ChainGate /\ UNCHANGED mode
    <2>1. job' \in [Jobs -> JobStates]
      BY <1>3, KillMoves DEF ChainGate, Jobs, Anchors
    <2>2. chain' = <<"stop", 0>> /\ 0 \in 0..Len(ChainJobs)
          /\ UNCHANGED <<attr, sub4done, srv, memory, results, mode>>
      BY <1>3, ChainFacts DEF ChainGate, files
    <2> QED BY <2>1, <2>2 DEF TypeInv
  <1>4. CASE ChainStop /\ UNCHANGED mode
    <2>1. srv' \in [Jobs -> ServerStates]
      BY <1>4, KillServersMoves DEF ChainStop
    <2>2. chain' = <<"drain", 0>> /\ 0 \in 0..Len(ChainJobs)
          /\ UNCHANGED <<attr, sub4done, job, memory, results, mode>>
      BY <1>4, ChainFacts DEF ChainStop, files
    <2> QED BY <2>1, <2>2 DEF TypeInv
  <1>5. CASE ChainNext /\ UNCHANGED mode
    <2>1. UNCHANGED <<attr, srv, memory, results, mode>>
      BY <1>5, ChainNextMoves DEF files
    <2>2. CASE chain' = <<"complete", 0>> /\ UNCHANGED <<job, sub4done>>
      <3>1. 0 \in 0..Len(ChainJobs)
        BY ChainFacts
      <3> QED BY <2>1, <2>2, <3>1 DEF TypeInv
    <2>3. CASE /\ chain[2] + 1 \in 1..Len(ChainJobs) /\ chain' = <<"run", chain[2] + 1>>
               /\ job' = [job EXCEPT ![ChainJobs[chain[2] + 1]] = "guard"]
               /\ sub4done' = (sub4done \/ chain[2] + 1 > Len(Sub4))
      <3>1. chain[2] + 1 \in 0..Len(ChainJobs) /\ chain[2] + 1 # 0
        BY <2>3, ChainFacts
      <3>2. chain'[1] = "run" /\ chain'[2] = chain[2] + 1
        BY <2>3
      <3>3. chain' \in {"gate", "stop", "drain", "run", "complete", "killed"} \X (0..Len(ChainJobs))
        BY <2>3, <3>1
      <3>4. job' \in [Jobs -> JobStates] /\ sub4done' \in BOOLEAN
        BY <2>3 DEF TypeInv, JobStates
      <3> QED BY <2>1, <3>1, <3>2, <3>3, <3>4 DEF TypeInv
    <2> QED BY <1>5, <2>2, <2>3, ChainNextMoves
  <1>6. CASE AttrTakeOver /\ UNCHANGED mode
    <2>1. /\ chain' = chain \/ chain' = <<"killed", 0>>
          /\ attr' = <<"killharness", 0>> /\ UNCHANGED <<sub4done, job, srv, memory, results, mode>>
      BY <1>6 DEF AttrTakeOver, files
    <2>2. 0 \in 0..Len(ChainJobs)
      BY ChainFacts
    <2> QED BY <2>1, <2>2 DEF TypeInv
  <1>7. CASE AttrKillHarness /\ UNCHANGED mode
    <2>1. job' \in [Jobs -> JobStates]
      BY <1>7, KillMoves DEF AttrKillHarness
    <2>2. attr' = <<"killserver", 0>> /\ UNCHANGED <<chain, sub4done, srv, memory, results, mode>>
      BY <1>7 DEF AttrKillHarness, files
    <2> QED BY <2>1, <2>2 DEF TypeInv
  <1>8. CASE AttrKillServer /\ UNCHANGED mode
    <2>1. srv' \in [Jobs -> ServerStates]
      BY <1>8, KillServersMoves DEF AttrKillServer
    <2>2. attr' = <<"drain", 0>> /\ UNCHANGED <<chain, sub4done, job, memory, results, mode>>
      BY <1>8 DEF AttrKillServer, files
    <2> QED BY <2>1, <2>2 DEF TypeInv
  <1>9. CASE AttrNext /\ UNCHANGED mode
    <2>1. UNCHANGED <<chain, sub4done, srv, memory, results, mode>>
      BY <1>9, AttrNextMoves DEF files
    <2>2. CASE attr' = <<"complete", 0>> /\ UNCHANGED job
      BY <2>1, <2>2 DEF TypeInv
    <2>3. CASE /\ attr[2] + 1 \in 1..3 /\ attr' = <<"run", attr[2] + 1>>
               /\ job' = [job EXCEPT ![AttrJobs[attr[2] + 1]] = "guard"]
      <3>1. job' \in [Jobs -> JobStates]
        BY <2>3 DEF TypeInv, JobStates
      <3> QED BY <2>1, <2>3, <3>1 DEF TypeInv
    <2> QED BY <1>9, <2>2, <2>3, AttrNextMoves
  <1>10. CASE UNCHANGED vars
    BY <1>10 DEF vars, TypeInv
  <1> QED
    BY <1>1, <1>2, <1>3, <1>4, <1>5, <1>6, <1>7, <1>8, <1>9, <1>10 DEF Next, Chain, Attr

------------------------------------------------------------------------------
(* Each script has one job at a time, the gate aside; one that was pkilled *)
(* starts nothing any more.                                                *)
Sequential ==
    /\ chain[1] # "killed" => \A j \in ChainSet :
          job[j] \notin Inactive => chain[1] = "run" /\ ChainJobs[chain[2]] = j
    /\ \A j \in AttrSet :
          job[j] \notin Inactive => attr[1] = "run" /\ AttrJobs[attr[2]] = j

(* An arm of platform_arm.sh has no server before it launches it and after *)
(* it has reaped it.                                                       *)
Reaped ==
    \A j \in Jobs \ Legacy :
        job[j] \in Inactive \cup {"guard", "prewarm", "launch", "drain"} => srv[j] \in Off

Orderly == Sequential /\ Reaped

\* The gate of chain.sh is the only job at first.
LEMMA OrderlyInit == Init => Orderly
  <1> SUFFICES ASSUME Init PROVE Orderly
    OBVIOUS
  <1>1. \A j \in Jobs : srv[j] \in Off /\ (j # "gate" => job[j] = "idle")
    BY DEF Init, Off
  <1>2. \A j \in ChainSet \cup AttrSet : j \in Jobs /\ j # "gate"
    BY JobSets
  <1> QED BY <1>1, <1>2 DEF Orderly, Sequential, Reaped, Inactive

\* An arm that is not one of attribution.sh stops what it has launched.
LEMMA ArmReaps ==
    ASSUME TypeInv, Reaped, NEW j \in Jobs, Arm(j)
    PROVE  Reaped'
  <1> SUFFICES ASSUME NEW k \in Jobs \ Legacy,
                      job'[k] \in Inactive \cup {"guard", "prewarm", "launch", "drain"}
               PROVE  srv'[k] \in Off
    BY DEF Reaped
  <1>1. CASE k # j
    <2>1. job'[k] = job[k] /\ srv'[k] = srv[k]
      BY <1>1, ArmMoves DEF TypeInv
    <2> QED BY <2>1 DEF Reaped
  <1>2. CASE k = j
    <2>1. j \notin Legacy /\ job[j] \in JobStates /\ srv[j] \in ServerStates
      BY <1>2 DEF TypeInv
    <2>2. CASE Guard(j) \/ Prewarm(j) \/ Drain(j)
      <3>1. srv' = srv /\ job[j] \in {"guard", "prewarm", "drain"}
        BY <2>2 DEF Guard, Prewarm, Drain
      <3> QED BY <1>2, <3>1 DEF Reaped
    <2>3. CASE Launch(j) \/ Health(j) \/ Query(j) \/ Ask(j) \/ Finish(j) \/ Stop(j)
      <3>1. job'[j] \in {"health", "query", "eval", "stop", "reap"}
        BY <2>1, <2>3 DEF Launch, Health, Query, Ask, Finish, Stop, Goto, Fails, TypeInv
      <3> QED BY <1>2, <3>1 DEF Inactive
    <2>4. CASE Reap(j)
      BY <1>2, <2>4 DEF Reap, Off, TypeInv
    <2> QED BY <2>2, <2>3, <2>4 DEF Arm
  <1> QED BY <1>1, <1>2

\* Every step keeps the order of the jobs and the servers of those that are over.
LEMMA OrderlyStep == TypeInv /\ Orderly /\ [Next]_vars => Orderly'
  <1> SUFFICES ASSUME TypeInv, Orderly, [Next]_vars PROVE Orderly'
    OBVIOUS
  <1>s. ChainSet \subseteq Jobs /\ AttrSet \subseteq Jobs /\ "gate" \in Jobs
    BY JobSets
  <1>1. ASSUME NEW j \in Jobs, Arm(j) PROVE Orderly'
    <2>1. \A k \in Jobs : job'[k] \notin Inactive => job[k] \notin Inactive
      BY <1>1, ArmMoves DEF TypeInv
    <2>2. UNCHANGED <<chain, attr>>
      BY <1>1, ArmMoves DEF scripts
    <2>3. Sequential'
      BY <2>1, <2>2, <1>s DEF Orderly, Sequential
    <2> QED BY <1>1, <2>3, ArmReaps DEF Orderly
  <1>2. ASSUME NEW j \in Jobs, Server(j) \/ LoadFails(j) \/ Crash(j) PROVE Orderly'
    <2>1. UNCHANGED <<chain, attr, job>> /\ \A k \in Jobs : srv[k] \in Off => srv'[k] = srv[k]
      BY <1>2, ServerMoves DEF scripts, TypeInv
    <2> QED BY <2>1 DEF Orderly, Sequential, Reaped
  <1>3. ASSUME NEW S \in SUBSET Jobs, KillHarness(S), UNCHANGED srv, UNCHANGED attr \/ attr' = <<"killserver", 0>>,
               UNCHANGED chain \/ chain' = <<"stop", 0>>, chain[1] # "run" \/ UNCHANGED chain,
               attr[1] # "run" \/ UNCHANGED attr, chain[1] # "killed" \/ UNCHANGED chain
        PROVE  Orderly'
    <2>1. \A j \in Jobs : job'[j] = job[j] \/ (job'[j] = "stop" /\ job[j] \in {"query", "eval"})
      BY <1>3, KillMoves
    <2>2. \A j \in Jobs : job'[j] \notin Inactive => job[j] \notin Inactive
      BY <2>1 DEF Inactive
    <2>3. Sequential'
      BY <1>3, <2>2, <1>s DEF Orderly, Sequential
    <2>4. Reaped'
      BY <1>3, <2>1 DEF Orderly, Reaped, Inactive
    <2> QED BY <2>3, <2>4 DEF Orderly
  <1>4. ASSUME KillServers, UNCHANGED job, chain[1] \in {"stop", "drain"} \/ UNCHANGED chain,
               attr[1] = "killserver" \/ UNCHANGED attr
        PROVE  Orderly'
    <2>1. \A k \in Jobs : srv[k] \in Off => srv'[k] = srv[k]
      BY <1>4, KillServersMoves
    <2>2. Sequential'
      BY <1>4 DEF Orderly, Sequential
    <2>3. Reaped'
      BY <1>4, <2>1 DEF Orderly, Reaped
    <2> QED BY <2>2, <2>3 DEF Orderly
  <1>5. CASE ChainGate
    <2>1. /\ KillHarness({"gate"}) /\ UNCHANGED <<srv, attr>> /\ chain' = <<"stop", 0>>
          /\ chain[1] = "gate"
      BY <1>5 DEF ChainGate
    <2> QED BY <2>1, <1>3, <1>s
  <1>6. CASE ChainStop
    BY <1>4, <1>6 DEF ChainStop
  <1>7. CASE ChainNext
    <2>1. chain[1] # "killed" /\ UNCHANGED <<attr, srv>>
      BY <1>7, ChainNextMoves
    <2>2. \A j \in ChainSet : job[j] \in Inactive
      BY <1>7, <2>1, ChainNextMoves DEF Orderly, Sequential, Inactive
    <2>3. CASE chain' = <<"complete", 0>> /\ UNCHANGED job
      BY <2>1, <2>2, <2>3 DEF Orderly, Sequential, Reaped
    <2>4. CASE /\ chain[2] + 1 \in 1..Len(ChainJobs) /\ chain' = <<"run", chain[2] + 1>>
               /\ job' = [job EXCEPT ![ChainJobs[chain[2] + 1]] = "guard"]
      <3> DEFINE n == ChainJobs[chain[2] + 1]
      <3>1. n \in ChainSet /\ n \in Jobs /\ n \notin Legacy /\ n \notin AttrSet
        BY <2>4, <1>s, ChainJobsIn, JobSets
      <3>2. \A j \in Jobs : job'[j] = IF j = n THEN "guard" ELSE job[j]
        BY <2>4 DEF TypeInv
      <3>3. chain'[1] = "run" /\ ChainJobs[chain'[2]] = n
        BY <2>4
      <3> HIDE DEF n
      <3>4. Sequential'
        BY <2>1, <2>2, <3>1, <3>2, <3>3, <1>s DEF Orderly, Sequential
      <3>5. Reaped'
        BY <2>1, <2>2, <3>1, <3>2 DEF Orderly, Reaped
      <3> QED BY <3>4, <3>5 DEF Orderly
    <2> QED BY <1>7, <2>3, <2>4, ChainNextMoves
  <1>8. CASE AttrTakeOver
    <2>1. /\ attr[1] = "poll" /\ attr' = <<"killharness", 0>> /\ UNCHANGED <<job, srv>>
          /\ chain' = chain \/ chain' = <<"killed", 0>>
      BY <1>8 DEF AttrTakeOver
    <2> QED BY <2>1 DEF Orderly, Sequential, Reaped
  <1>9. CASE AttrKillHarness
    <2>1. /\ KillHarness(Jobs \ Legacy) /\ UNCHANGED <<srv, chain>> /\ attr' = <<"killserver", 0>>
          /\ attr[1] = "killharness"
      BY <1>9 DEF AttrKillHarness
    <2>2. attr[1] # "run"
      BY <2>1
    <2> QED BY <2>1, <2>2, <1>3
  <1>10. CASE AttrKillServer
    BY <1>4, <1>10 DEF AttrKillServer
  <1>11. CASE AttrNext
    <2>1. UNCHANGED <<chain, srv>>
      BY <1>11, AttrNextMoves
    <2>2. \A j \in AttrSet : job[j] \in Inactive
      BY <1>11, AttrNextMoves DEF Orderly, Sequential, Inactive
    <2>3. CASE attr' = <<"complete", 0>> /\ UNCHANGED job
      BY <2>1, <2>2, <2>3 DEF Orderly, Sequential, Reaped
    <2>4. CASE /\ attr[2] + 1 \in 1..3 /\ attr' = <<"run", attr[2] + 1>>
               /\ job' = [job EXCEPT ![AttrJobs[attr[2] + 1]] = "guard"]
      <3> DEFINE n == AttrJobs[attr[2] + 1]
      <3>1. n \in AttrSet /\ n \in Jobs /\ n \notin ChainSet
        BY <2>4, <1>s, AttrJobsIn, JobSets
      <3>2. \A j \in Jobs : job'[j] = IF j = n THEN "guard" ELSE job[j]
        BY <2>4 DEF TypeInv
      <3>3. attr'[1] = "run" /\ AttrJobs[attr'[2]] = n
        BY <2>4
      <3> HIDE DEF n
      <3>4. Sequential'
        BY <2>1, <2>2, <3>1, <3>2, <3>3, <1>s DEF Orderly, Sequential
      <3>5. Reaped'
        BY <2>1, <2>2, <3>1, <3>2 DEF Orderly, Reaped
      <3> QED BY <3>4, <3>5 DEF Orderly
    <2> QED BY <1>11, <2>3, <2>4, AttrNextMoves
  <1>12. CASE UNCHANGED vars
    BY <1>12 DEF vars, Orderly, Sequential, Reaped
  <1> QED
    BY <1>1, <1>2, <1>5, <1>6, <1>7, <1>8, <1>9, <1>10, <1>11, <1>12 DEF Next, Chain, Attr

\* Types and order in every reachable state.
LEMMA OrderlyInvariant == Spec => [](TypeInv /\ Orderly)
  BY TypeInit, TypeStep, OrderlyInit, OrderlyStep, PTL DEF Spec

(* Whichever exit platform_arm.sh takes, and whatever chain.sh and         *)
(* attribution.sh kill under it, it is over only when its server is.       *)
THEOREM ArmsStopTheirServers == Spec => []NoServerOutlivesItsArm
  <1>1. Orderly => NoServerOutlivesItsArm
    BY DEF Orderly, Reaped, NoServerOutlivesItsArm, Inactive, Off
  <1> QED BY <1>1, OrderlyInvariant, PTL

------------------------------------------------------------------------------
(* How far chain.sh has come: the jobs before its present one are over,    *)
(* SUB4 PHASE COMPLETE means that the builds are, and attribution.sh, once *)
(* it has taken over, is alone.                                            *)
Progress ==
    /\ chain[1] = "run" => \A k \in 1..chain[2] :
          job[ChainJobs[k]] = "done" \/ ChainJobs[k] = ChainJobs[chain[2]]
    /\ sub4done => /\ \A b \in Sub4Builds : job[b] = "done"
                   /\ chain[1] \in {"complete", "killed"} \/ chain[2] > Len(Sub4)
    /\ TakenOver => chain[1] \in {"complete", "killed"} /\ (sub4done \/ faults)
    /\ chain[1] = "killed" => TakenOver
    /\ mode = "chain" => attr[1] = "off"

\* Nothing has been done at first.
LEMMA ProgressInit == Init => Progress
  BY DEF Init, Progress, TakenOver

\* Steps that start no job and leave the scripts where they are.
LEMMA ProgressStutters ==
    ASSUME TypeInv, Progress, UNCHANGED <<chain, attr, sub4done, mode>>,
           \A j \in Jobs : job[j] = "done" => job'[j] = "done"
    PROVE  Progress'
  <1>1. \A k \in 1..chain[2] : chain[1] = "run" => ChainJobs[k] \in Jobs
    <2>1. chain[2] \in 0..Len(ChainJobs) /\ Len(ChainJobs) \in Nat
      BY ChainFacts DEF TypeInv
    <2>2. \A k \in 1..chain[2] : k \in 1..Len(ChainJobs)
      BY <2>1
    <2> QED BY <2>2, ChainJobsIn, JobSets
  <1>2. Sub4Builds \subseteq Jobs
    BY JobSets DEF ChainSet
  <1>3. UNCHANGED <<TakenOver, faults>>
    BY DEF TakenOver, faults
  <1> QED BY <1>1, <1>2, <1>3 DEF Progress

\* chain.sh starts its next job when those before are over.
LEMMA ProgressChainNext ==
    ASSUME TypeInv, Progress, ChainNext, UNCHANGED mode PROVE Progress'
  <1>t. /\ chain[2] \in 0..Len(ChainJobs) /\ Len(ChainJobs) = Len(Sub4) + 1 /\ Len(Sub4) \in Nat
        /\ chain[1] = "run" <=> chain[2] # 0
    BY ChainFacts DEF TypeInv
  <1>a. UNCHANGED <<TakenOver, faults>> /\ UNCHANGED attr
    BY ChainNextMoves DEF TakenOver, faults
  <1>d. \A k \in 1..chain[2] : job[ChainJobs[k]] = "done"
    BY <1>t, ChainNextMoves DEF Progress
  <1>k. ~TakenOver /\ chain[1] \in {"drain", "run"}
    BY ChainNextMoves DEF Progress
  <1>1. CASE chain[2] + 1 > Len(ChainJobs) /\ chain' = <<"complete", 0>> /\ UNCHANGED <<job, sub4done>>
    BY <1>1, <1>a, <1>k DEF Progress
  <1>2. CASE /\ chain[2] + 1 \in 1..Len(ChainJobs) /\ chain' = <<"run", chain[2] + 1>>
             /\ job' = [job EXCEPT ![ChainJobs[chain[2] + 1]] = "guard"]
             /\ sub4done' = (sub4done \/ chain[2] + 1 > Len(Sub4))
    <2> DEFINE i == chain[2] + 1
               n == ChainJobs[i]
    <2>1. chain'[1] = "run" /\ chain'[2] = i /\ i \in Nat
      BY <1>2, <1>t
    <2>2. \A j \in Jobs : j # n => job'[j] = job[j]
      BY <1>2 DEF TypeInv
    <2>3. \A k \in 1..i : ChainJobs[k] \in Jobs
      <3>1. \A k \in 1..i : k \in 1..Len(ChainJobs)
        BY <1>2, <1>t
      <3> QED BY <3>1, ChainJobsIn, JobSets
    <2>4. \A k \in 1..i : job'[ChainJobs[k]] = "done" \/ ChainJobs[k] = n
      <3>1. \A k \in 1..i : k = i \/ k \in 1..chain[2]
        BY <1>t
      <3> QED BY <2>2, <2>3, <3>1, <1>d
    <2>5. ~sub4done
      BY <1>2, <1>t, <1>k DEF Progress
    <2>6. i > Len(Sub4) => \A b \in Sub4Builds : job'[b] = "done"
      <3> SUFFICES ASSUME i > Len(Sub4), NEW b \in Sub4Builds PROVE job'[b] = "done"
        OBVIOUS
      <3>1. PICK k \in 1..Len(Sub4) : ChainJobs[k] = b
        BY ChainFacts
      <3>2. i = Len(Sub4) + 1 /\ k \in 1..chain[2]
        BY <1>2, <1>t
      <3>3. n = "resume" /\ b # "resume" /\ b \in Jobs
        BY <3>2, ChainFacts, JobSets DEF ChainSet
      <3> QED BY <2>2, <3>1, <3>2, <3>3, <1>d
    <2>7. sub4done' <=> i > Len(Sub4)
      BY <1>2, <2>5
    <2> HIDE DEF i, n
    <2>8. chain'[1] = "run" => \A k \in 1..chain'[2] :
              job'[ChainJobs[k]] = "done" \/ ChainJobs[k] = ChainJobs[chain'[2]]
      BY <2>1, <2>4 DEF n
    <2>9. sub4done' => (\A b \in Sub4Builds : job'[b] = "done") /\ chain'[2] > Len(Sub4)
      BY <2>1, <2>6, <2>7
    <2>10. ~TakenOver' /\ chain'[1] # "killed" /\ (mode' = "chain" => attr'[1] = "off")
      BY <1>a, <1>k, <2>1 DEF Progress
    <2> QED BY <2>8, <2>9, <2>10 DEF Progress
  <1> QED BY <1>1, <1>2, ChainNextMoves

\* Every step keeps the order of the phases.
LEMMA ProgressStep == TypeInv /\ Orderly /\ Progress /\ [Next]_vars => Progress'
  <1> SUFFICES ASSUME TypeInv, Orderly, Progress, [Next]_vars PROVE Progress'
    OBVIOUS
  <1>b. Sub4Builds \subseteq Jobs /\ Sub4Builds \cap AttrSet = {}
    BY JobSets DEF ChainSet
  <1>1. ASSUME NEW j \in Jobs, Arm(j), UNCHANGED mode PROVE Progress'
    <2>1. \A k \in Jobs : job[k] = "done" => job'[k] = "done"
      BY <1>1, ArmMoves DEF TypeInv, Inactive
    <2> QED BY <1>1, <2>1, ArmMoves, ProgressStutters DEF scripts
  <1>2. ASSUME NEW j \in Jobs, Server(j) \/ LoadFails(j) \/ Crash(j), UNCHANGED mode PROVE Progress'
    BY <1>2, ServerMoves, ProgressStutters DEF scripts
  <1>3. ASSUME UNCHANGED <<sub4done, mode>>, \A j \in Jobs : job[j] = "done" => job'[j] = "done",
               \/ chain[1] \in {"gate", "stop"} /\ chain'[1] \in {"stop", "drain"} /\ UNCHANGED attr
                  /\ chain[2] = 0 /\ chain'[2] = 0
               \/ UNCHANGED chain /\ TakenOver /\ TakenOver'
        PROVE  Progress'
    <2>1. UNCHANGED faults
      BY <1>3 DEF faults
    <2>2. CASE chain[1] \in {"gate", "stop"} /\ chain'[1] \in {"stop", "drain"} /\ UNCHANGED attr
               /\ chain[2] = 0 /\ chain'[2] = 0
      <3>1. ~sub4done
        BY <2>2, ChainFacts DEF Progress
      <3> QED BY <1>3, <2>1, <2>2, <3>1 DEF Progress, TakenOver
    <2>3. CASE UNCHANGED chain /\ TakenOver /\ TakenOver'
      <3>1. chain[1] # "run" /\ mode # "chain"
        BY <2>3 DEF Progress, TakenOver
      <3> QED BY <1>3, <1>b, <2>1, <2>3, <3>1 DEF Progress
    <2> QED BY <1>3, <2>2, <2>3
  <1>4. CASE ChainGate /\ UNCHANGED mode
    <2>1. /\ UNCHANGED <<sub4done, mode, attr>> /\ chain[1] = "gate" /\ chain' = <<"stop", 0>>
          /\ KillHarness({"gate"}) /\ {"gate"} \subseteq Jobs
      BY <1>4, JobSets DEF ChainGate
    <2>2. \A j \in Jobs : job[j] = "done" => job'[j] = "done"
      BY <2>1, KillMoves
    <2>3. chain[2] = 0
      BY <2>1 DEF TypeInv
    <2> QED BY <2>1, <2>2, <2>3, <1>3
  <1>5. CASE ChainStop /\ UNCHANGED mode
    <2>1. /\ UNCHANGED <<sub4done, mode, attr, job>> /\ chain[1] = "stop" /\ chain' = <<"drain", 0>>
      BY <1>5 DEF ChainStop
    <2>2. chain[2] = 0
      BY <2>1 DEF TypeInv
    <2> QED BY <2>1, <2>2, <1>3
  <1>6. CASE ChainNext /\ UNCHANGED mode
    BY <1>6, ProgressChainNext
  <1>7. CASE AttrTakeOver /\ UNCHANGED mode
    <2>1. /\ attr[1] = "poll" /\ (sub4done \/ faults) /\ attr' = <<"killharness", 0>>
          /\ chain' = (IF chain[1] = "complete" THEN chain ELSE <<"killed", 0>>)
          /\ UNCHANGED <<sub4done, job, mode>> /\ UNCHANGED faults
      BY <1>7 DEF AttrTakeOver, faults
    <2>2. TakenOver' /\ chain'[1] \in {"complete", "killed"} /\ mode # "chain"
      BY <2>1 DEF TakenOver, Progress
    <2> QED BY <2>1, <2>2 DEF Progress
  <1>8. CASE (AttrKillHarness \/ AttrKillServer) /\ UNCHANGED mode
    <2>1. UNCHANGED <<chain, sub4done, mode>> /\ TakenOver /\ TakenOver'
      BY <1>8 DEF AttrKillHarness, AttrKillServer, TakenOver
    <2>2. \A j \in Jobs : job[j] = "done" => job'[j] = "done"
      BY <1>8, KillMoves DEF AttrKillHarness, AttrKillServer
    <2> QED BY <2>1, <2>2, <1>3
  <1>9. CASE AttrNext /\ UNCHANGED mode
    <2>1. UNCHANGED <<chain, sub4done, mode>> /\ TakenOver /\ TakenOver'
      BY <1>9, AttrNextMoves DEF TakenOver
    <2>2. \A j \in Jobs \ AttrSet : job'[j] = job[j]
      BY <1>9, AttrNextMoves, AttrJobsIn DEF TypeInv
    <2>3. chain[1] # "run" /\ mode # "chain" /\ UNCHANGED faults
      BY <2>1 DEF Progress, TakenOver, faults
    <2> QED BY <1>b, <2>1, <2>2, <2>3 DEF Progress
  <1>10. CASE UNCHANGED vars
    BY <1>10, ProgressStutters DEF vars
  <1> QED
    BY <1>1, <1>2, <1>4, <1>5, <1>6, <1>7, <1>8, <1>9, <1>10 DEF Next, Chain, Attr

------------------------------------------------------------------------------
(* Until attribution.sh takes over, and as long as no loop runs out and no *)
(* server dies, a harness asks its own server only and knows what is in    *)
(* its JSONL, and every answer on file is of the build it is named after.  *)
Phase ==
    /\ \A j \in AttrSet : job[j] = "idle" /\ srv[j] = "none"
    /\ chain[1] \in {"gate", "stop"} => \A j \in ChainSet : job[j] = "idle"
    /\ chain[1] \notin {"gate", "stop"} => job["gate"] = "done"

Served ==
    \A j \in Jobs : /\ job[j] \in {"query", "eval"} => srv[j] = "up"
                    /\ job[j] = "eval" => memory[j] = results[Tag(j)]

Honest == Phase /\ Served /\ \A tag \in Tags : Intact(tag)

\* Nothing has been asked at first.
LEMMA HonestInit == Init => Honest
  <1> SUFFICES ASSUME Init PROVE Honest
    OBVIOUS
  <1>1. \A j \in Jobs : srv[j] = "none" /\ (j # "gate" => job[j] = "idle")
                         /\ job[j] \in {"idle", "guard"}
    BY DEF Init
  <1>2. AttrSet \subseteq Jobs /\ ChainSet \subseteq Jobs /\ "gate" \notin AttrSet /\ "gate" \notin ChainSet
    BY JobSets
  <1>3. Phase
    BY <1>1, <1>2 DEF Phase, Init
  <1>4. \A tag \in Tags : Intact(tag)
    BY DEF Init, Intact, Blank
  <1> QED BY <1>1, <1>3, <1>4 DEF Honest, Served

(* One job at a time: the others are not running and have no server.       *)
LEMMA OneAtATime ==
    ASSUME TypeInv, Orderly, Progress, Calm, Phase,
           NEW j \in Jobs, job[j] \notin Inactive, NEW k \in Jobs, k # j
    PROVE  job[k] \in Inactive /\ srv[k] \in Off
  <1>1. j \notin AttrSet
    BY DEF Phase, Inactive
  <1>2. chain[1] # "killed"
    BY DEF Calm, Progress
  <1>3. CASE k \in AttrSet
    BY <1>3 DEF Phase, Inactive, Off
  <1>4. CASE k \notin AttrSet
    <2>1. job[k] \in Inactive
      <3>1. CASE chain[1] \in {"gate", "stop"}
        BY <1>1, <1>4, <3>1, JobSets DEF Phase, Inactive
      <3>2. CASE chain[1] \notin {"gate", "stop"}
        <4>1. j # "gate"
          BY <3>2 DEF Phase, Inactive
        <4>2. ChainJobs[chain[2]] = j
          BY <1>1, <1>2, <4>1, JobSets DEF Orderly, Sequential
        <4> QED BY <1>2, <1>4, <3>2, <4>2, JobSets DEF Orderly, Sequential, Phase, Inactive
      <3> QED BY <3>1, <3>2
    <2>2. k \notin Legacy
      BY <1>4 DEF AttrSet
    <2> QED BY <2>1, <2>2 DEF Orderly, Reaped
  <1> QED BY <1>3, <1>4

\* The server that answers a job is the job's own.
LEMMA OwnServer ==
    ASSUME TypeInv, Orderly, Progress, Calm, Phase, NEW j \in Jobs, job[j] \notin Inactive
    PROVE  Up \subseteq {j}
  BY OneAtATime DEF Up, Off

(* An answer is written where none was, and a rewrite changes nothing.     *)
LEMMA AskWrites ==
    ASSUME TypeInv, Orderly, Progress, Calm, Honest, NEW j \in Jobs, Ask(j)
    PROVE  \E t \in Task :
              /\ results[Tag(j)][t] = "none"
              /\ results' = [results EXCEPT ![Tag(j)][t] = Build(j)]
              /\ memory' = [memory EXCEPT ![j][t] = Build(j)]
  <1>1. job[j] = "eval" /\ job[j] \notin Inactive
    BY DEF Ask, Inactive
  <1>2. srv[j] = "up" /\ memory[j] = results[Tag(j)]
    BY <1>1 DEF Honest, Served
  <1>3. Up = {j}
    BY <1>1, <1>2, OwnServer DEF Honest, Up
  <1>4. PICK t \in Task, answer \in {Build(k) : k \in Up} \cup (IF Up = {} THEN {"error"} ELSE {}) :
            /\ memory[j][t] = "none"
            /\ memory' = [memory EXCEPT ![j][t] = answer]
            /\ results' = [results EXCEPT ![Tag(j)][t] = answer]
    BY DEF Ask
  <1>5. answer = Build(j)
    BY <1>3
  <1> QED BY <1>2, <1>4, <1>5

\* The final rewrite of the JSONL writes what is in it.
LEMMA FinishWrites ==
    ASSUME TypeInv, Honest, NEW j \in Jobs, Finish(j)
    PROVE  UNCHANGED results
  <1>1. memory[j] = results[Tag(j)] /\ results' = [results EXCEPT ![Tag(j)] = memory[j]]
    BY DEF Finish, Honest, Served
  <1> QED BY <1>1, JobSets DEF TypeInv

\* A step of an arm keeps the phase.
LEMMA ArmKeepsPhase ==
    ASSUME TypeInv, Phase, NEW j \in Jobs, Arm(j) PROVE Phase'
  <1>1. /\ UNCHANGED chain /\ job[j] \notin Inactive
        /\ \A k \in Jobs : k # j => job'[k] = job[k] /\ srv'[k] = srv[k]
    BY ArmMoves DEF scripts, TypeInv
  <1>2. j \notin AttrSet
    BY <1>1 DEF Phase, Inactive
  <1>3. AttrSet \subseteq Jobs /\ ChainSet \subseteq Jobs /\ "gate" \in Jobs
    BY JobSets
  <1>4. \A k \in Jobs : job[k] \in Inactive => job'[k] = job[k]
    BY <1>1
  <1> QED BY <1>1, <1>2, <1>3, <1>4 DEF Phase, Inactive

\* A step of an arm keeps the harness and its server together.
LEMMA ArmKeepsServed ==
    ASSUME TypeInv, Orderly, Progress, Calm, Honest, NEW j \in Jobs, Arm(j) PROVE Served'
  <1>1. /\ job[j] \notin Inactive
        /\ \A k \in Jobs : k # j => job'[k] = job[k]
    BY ArmMoves DEF TypeInv
  <1>2. \A k \in Jobs : k # j => job'[k] \notin {"query", "eval"}
    BY <1>1, OneAtATime DEF Honest, Inactive
  <1> SUFFICES /\ job'[j] \in {"query", "eval"} => srv'[j] = "up"
               /\ job'[j] = "eval" => memory'[j] = results'[Tag(j)]
    BY <1>2 DEF Served
  <1>s. /\ job[j] \in {"query", "eval"} => srv[j] = "up"
        /\ job[j] = "eval" => memory[j] = results[Tag(j)]
    BY DEF Honest, Served
  <1>3. CASE Guard(j) \/ Prewarm(j) \/ Launch(j) \/ Finish(j) \/ Stop(j) \/ Reap(j) \/ Drain(j)
    <2>1. job'[j] \notin {"query", "eval"}
      BY <1>3 DEF Guard, Prewarm, Launch, Finish, Stop, Reap, Drain, Goto, TypeInv
    <2> QED BY <2>1
  <1>4. CASE Health(j)
    <2>1. UNCHANGED srv /\ job'[j] # "eval" /\ (job'[j] = "query" => Up # {})
      BY <1>4 DEF Health, Goto, Fails, Calm, TypeInv
    <2>2. Up \subseteq {j}
      BY <1>1, OwnServer DEF Honest
    <2> QED BY <2>1, <2>2 DEF Up
  <1>5. CASE Query(j)
    <2>1. UNCHANGED <<srv, results>> /\ srv[j] = "up"
      BY <1>5, <1>s DEF Query
    <2>2. job'[j] = "eval" => memory'[j] = results[Tag(j)]
      BY <1>5 DEF Query, Goto, Fails, TypeInv
    <2> QED BY <2>1, <2>2
  <1>6. CASE Ask(j)
    <2>1. UNCHANGED <<job, srv>> /\ job[j] = "eval"
      BY <1>6 DEF Ask
    <2>2. PICK t \in Task : /\ results' = [results EXCEPT ![Tag(j)][t] = Build(j)]
                           /\ memory' = [memory EXCEPT ![j][t] = Build(j)]
      BY <1>6, AskWrites
    <2>3. memory'[j] = [memory[j] EXCEPT ![t] = Build(j)]
          /\ results'[Tag(j)] = [results[Tag(j)] EXCEPT ![t] = Build(j)]
      BY <2>2, JobSets DEF TypeInv
    <2> QED BY <2>1, <2>3, <1>s
  <1> QED BY <1>3, <1>4, <1>5, <1>6 DEF Arm

\* A step of an arm writes answers of its own build.
LEMMA ArmKeepsIntact ==
    ASSUME TypeInv, Orderly, Progress, Calm, Honest, NEW j \in Jobs, Arm(j), NEW tag \in Tags
    PROVE  Intact(tag)'
  <1>1. CASE UNCHANGED results
    BY <1>1 DEF Honest, Intact
  <1>2. CASE Ask(j)
    <2>1. PICK t \in Task : results' = [results EXCEPT ![Tag(j)][t] = Build(j)]
      BY <1>2, AskWrites
    <2>2. \A u \in Task : results'[tag][u] = results[tag][u]
                          \/ (tag = Tag(j) /\ results'[tag][u] = Build(j))
      BY <2>1, JobSets DEF TypeInv
    <2>3. TagBuild(Tag(j)) = Build(j)
      BY JobSets
    <2> QED BY <2>2, <2>3 DEF Honest, Intact
  <1>3. CASE Finish(j)
    BY <1>1, <1>3, FinishWrites
  <1> QED
    BY <1>1, <1>2, <1>3 DEF Arm, Guard, Prewarm, Launch, Health, Query, Stop, Reap, Drain, files

\* Calm is over for good when it is over.
LEMMA CalmLasts == TypeInv /\ [Next]_vars /\ Calm' => Calm
  <1> SUFFICES ASSUME TypeInv, [Next]_vars PROVE TakenOver => TakenOver'
    BY DEF Next, vars, Calm, faults
  <1>1. ASSUME UNCHANGED attr PROVE TakenOver => TakenOver'
    BY <1>1 DEF TakenOver
  <1>2. CASE \E j \in Jobs : Arm(j)
    BY <1>1, <1>2, ArmMoves DEF scripts
  <1>3. CASE \E j \in Jobs : Server(j) \/ LoadFails(j) \/ Crash(j)
    BY <1>1, <1>3, ServerMoves DEF scripts
  <1>4. CASE Chain
    BY <1>1, <1>4 DEF Chain, ChainGate, ChainStop, ChainNext
  <1>5. CASE Attr
    BY <1>5 DEF Attr, AttrTakeOver, AttrKillHarness, AttrKillServer, AttrNext, TakenOver
  <1>6. CASE UNCHANGED vars
    BY <1>1, <1>6 DEF vars
  <1> QED BY <1>2, <1>3, <1>4, <1>5, <1>6 DEF Next

\* Every step of calm keeps the answers honest.
LEMMA HonestStep ==
    TypeInv /\ Orderly /\ Progress /\ (Calm => Honest) /\ [Next]_vars => (Calm => Honest)'
  <1> SUFFICES ASSUME TypeInv, Orderly, Progress, Calm, Honest, [Next]_vars, Calm'
               PROVE  Honest'
    BY CalmLasts
  <1>s. AttrSet \subseteq Jobs /\ ChainSet \subseteq Jobs /\ "gate" \in Jobs
        /\ "gate" \notin AttrSet /\ "gate" \notin ChainSet
    BY JobSets
  <1>i. ASSUME UNCHANGED results, NEW tag \in Tags PROVE Intact(tag)'
    BY <1>i DEF Honest, Intact
  <1>1. ASSUME NEW j \in Jobs, Arm(j) PROVE Honest'
    BY <1>1, ArmKeepsPhase, ArmKeepsServed, ArmKeepsIntact DEF Honest
  <1>2. ASSUME NEW j \in Jobs, Server(j) \/ LoadFails(j) \/ Crash(j) PROVE Honest'
    <2>1. /\ UNCHANGED <<chain, job, memory, results>> /\ srv[j] \notin Off /\ srv[j] # "up"
          /\ \A k \in Jobs : k # j => srv'[k] = srv[k]
      BY <1>2, ServerMoves DEF scripts, files, Calm, TypeInv
    <2>2. Phase'
      BY <2>1, <1>s DEF Honest, Phase, Off
    <2>3. Served'
      BY <2>1 DEF Honest, Served
    <2> QED BY <2>1, <2>2, <2>3, <1>i DEF Honest
  <1>3. CASE ChainGate
    <2>1. /\ chain[1] = "gate" /\ chain' = <<"stop", 0>> /\ UNCHANGED <<srv, memory, results>>
          /\ KillHarness({"gate"})
      BY <1>3 DEF ChainGate, files
    <2>2. \A j \in Jobs : job'[j] = job[j] \/ (job'[j] = "stop" /\ job[j] \in {"query", "eval"})
      BY <2>1, <1>s, KillMoves
    <2>3. Phase'
      BY <2>1, <2>2, <1>s DEF Honest, Phase
    <2>4. Served'
      BY <2>1, <2>2 DEF Honest, Served
    <2> QED BY <2>1, <2>3, <2>4, <1>i DEF Honest
  <1>4. CASE ChainStop
    <2>1. /\ chain[1] = "stop" /\ chain' = <<"drain", 0>> /\ UNCHANGED <<job, memory, results>>
          /\ job["gate"] = "done" /\ KillServers
      BY <1>4 DEF ChainStop, files, Calm
    <2>2. \A j \in Jobs : job[j] \in Inactive
      BY <2>1, JobSets DEF Honest, Phase, Inactive
    <2>3. Phase'
      BY <2>1, <1>s, KillServersMoves DEF Honest, Phase, Off
    <2>4. Served'
      BY <2>1, <2>2 DEF Served, Inactive
    <2> QED BY <2>1, <2>3, <2>4, <1>i DEF Honest
  <1>5. CASE ChainNext
    <2>1. /\ chain[1] \in {"drain", "run"} /\ chain'[1] \in {"run", "complete"}
          /\ UNCHANGED <<srv, memory, results>>
      BY <1>5, ChainNextMoves DEF files
    <2>2. UNCHANGED job \/ \E n \in ChainSet : job' = [job EXCEPT ![n] = "guard"]
      BY <1>5, ChainNextMoves, ChainJobsIn
    <2>3. \A j \in Jobs : job'[j] = job[j] \/ (j \in ChainSet /\ job'[j] = "guard")
      BY <2>2 DEF TypeInv
    <2>4. Phase'
      BY <2>1, <2>3, <1>s, JobSets DEF Honest, Phase
    <2>5. Served'
      BY <2>1, <2>3 DEF Honest, Served
    <2> QED BY <2>1, <2>4, <2>5, <1>i DEF Honest
  <1>6. CASE Attr
    BY <1>6 DEF Attr, AttrTakeOver, AttrKillHarness, AttrKillServer, AttrNext, Calm, TakenOver
  <1>7. CASE UNCHANGED vars
    BY <1>7 DEF vars, Honest, Phase, Served, Intact
  <1> QED
    BY <1>1, <1>2, <1>3, <1>4, <1>5, <1>6, <1>7 DEF Next, Chain

\* Types, order, phases and answers in every reachable state.
LEMMA HonestInvariant == Spec => [](TypeInv /\ Orderly /\ Progress /\ (Calm => Honest))
  BY HonestInit, HonestStep, ProgressInit, ProgressStep, OrderlyInit, OrderlyStep, TypeInit, TypeStep,
     PTL DEF Spec

(* While a harness of chain.sh measures, nothing but its own server        *)
(* exists, up to the moment attribution.sh takes over, unless a loop runs  *)
(* out or a server dies (guard, stop_srv, chain.sh's waits), however many  *)
(* builds there are.                                                       *)
THEOREM NothingElseOnTheCard == Spec => []NothingPerturbs
  <1>1. TypeInv /\ Orderly /\ Progress /\ (Calm => Honest) => NothingPerturbs
    <2> SUFFICES ASSUME TypeInv, Orderly, Progress, Calm, Honest,
                        NEW j \in Jobs, job[j] = "eval", NEW k \in Jobs \ {j}
                 PROVE  srv[k] \in {"none", "dead"}
      BY DEF NothingPerturbs
    <2> QED BY OneAtATime DEF Honest, Inactive, Off
  <1> QED BY <1>1, HonestInvariant, PTL

(* Until attribution.sh takes over, unless a loop runs out or a server     *)
(* dies, every answer on file was given by the build that the file is      *)
(* named after.                                                            *)
THEOREM EveryAnswerIsTheBuilds == Spec => []AnswersAreTheBuilds
  <1>1. (Calm => Honest) => AnswersAreTheBuilds
    BY DEF AnswersAreTheBuilds, Honest
  <1> QED BY <1>1, HonestInvariant, PTL

------------------------------------------------------------------------------
(* The files that one invocation writes: its memory is what is on file.    *)
OwnFile ==
    \A j \in Jobs : Tag(j) # "Q8_0" /\ job[j] = "eval" => memory[j] = results[Tag(j)]

\* A tag other than the anchor's has a single invocation.
LEMMA OneWriter ==
    ASSUME NEW j \in Jobs, NEW k \in Jobs, Tag(j) = Tag(k), Tag(j) # "Q8_0"
    PROVE  j = k
  BY DEF Tag

\* A step of an arm, as far as evaluations and files are concerned.
LEMMA ArmWrites ==
    ASSUME TypeInv, OwnFile, NEW j \in Jobs, Arm(j), Tag(j) # "Q8_0"
    PROVE  /\ job'[j] = "eval" => memory'[j] = results'[Tag(j)]
           /\ \A t \in Task : results[Tag(j)][t] # "none" =>
                 results'[Tag(j)][t] = results[Tag(j)][t]
  <1>t. /\ Tag(j) \in Tags /\ results \in [Tags -> [Task -> Answers]]
        /\ memory \in [Jobs -> [Task -> Answers]] /\ job \in [Jobs -> JobStates]
    BY JobSets DEF TypeInv
  <1>1. CASE Guard(j) \/ Prewarm(j) \/ Launch(j) \/ Health(j) \/ Stop(j) \/ Reap(j) \/ Drain(j)
    BY <1>1, <1>t DEF Guard, Prewarm, Launch, Health, Stop, Reap, Drain, Goto, Fails, files
  <1>2. CASE Query(j)
    BY <1>2, <1>t DEF Query, Goto, Fails
  <1>3. CASE Ask(j)
    <2>1. job[j] = "eval" /\ memory[j] = results[Tag(j)]
      BY <1>3 DEF Ask, OwnFile
    <2>2. PICK t \in Task, answer \in {Build(k) : k \in Up} \cup (IF Up = {} THEN {"error"} ELSE {}) :
              /\ memory[j][t] = "none"
              /\ memory' = [memory EXCEPT ![j][t] = answer]
              /\ results' = [results EXCEPT ![Tag(j)][t] = answer]
      BY <1>3 DEF Ask
    <2> QED BY <2>1, <2>2, <1>t
  <1>4. CASE Finish(j)
    BY <1>4, <1>t DEF Finish, OwnFile, Goto
  <1> QED BY <1>1, <1>2, <1>3, <1>4 DEF Arm

\* The other files are not touched.
LEMMA OwnFileStep == TypeInv /\ OwnFile /\ [Next]_vars => OwnFile'
  <1> SUFFICES ASSUME TypeInv, OwnFile, [Next]_vars PROVE OwnFile'
    OBVIOUS
  <1>s. ASSUME UNCHANGED files, \A j \in Jobs : job'[j] = "eval" => job[j] = "eval"
        PROVE  OwnFile'
    BY <1>s DEF files, OwnFile
  <1>1. ASSUME NEW j \in Jobs, Arm(j) PROVE OwnFile'
    <2> SUFFICES ASSUME NEW k \in Jobs, Tag(k) # "Q8_0", job'[k] = "eval"
                 PROVE  memory'[k] = results'[Tag(k)]
      BY DEF OwnFile
    <2>1. CASE k = j
      BY <1>1, <2>1, ArmWrites
    <2>2. CASE k # j
      <3>1. Tag(k) # Tag(j)
        BY <2>2, OneWriter
      <3>2. PICK st \in JobStates, m \in [Task -> Answers], r \in [Task -> Answers] :
                /\ job' = [job EXCEPT ![j] = st] /\ memory' = [memory EXCEPT ![j] = m]
                /\ results' = [results EXCEPT ![Tag(j)] = r]
        BY <1>1, ArmMoves
      <3>3. job'[k] = job[k] /\ memory'[k] = memory[k] /\ results'[Tag(k)] = results[Tag(k)]
        BY <2>2, <3>1, <3>2, JobSets DEF TypeInv
      <3> QED BY <3>3 DEF OwnFile
    <2> QED BY <2>1, <2>2
  <1>2. ASSUME NEW j \in Jobs, Server(j) \/ LoadFails(j) \/ Crash(j) PROVE OwnFile'
    BY <1>2, <1>s, ServerMoves
  <1>3. CASE ChainGate
    BY <1>3, <1>s DEF ChainGate, KillHarness
  <1>4. CASE ChainStop
    BY <1>4, <1>s DEF ChainStop
  <1>5. CASE ChainNext
    <2>1. UNCHANGED files /\ (UNCHANGED job \/ \E n \in ChainSet : job' = [job EXCEPT ![n] = "guard"])
      BY <1>5, ChainNextMoves, ChainJobsIn
    <2> QED BY <2>1, <1>s DEF TypeInv
  <1>6. CASE AttrTakeOver \/ AttrKillServer
    BY <1>6, <1>s DEF AttrTakeOver, AttrKillServer
  <1>7. CASE AttrKillHarness
    BY <1>7, <1>s DEF AttrKillHarness, KillHarness
  <1>8. CASE AttrNext
    <2>1. UNCHANGED files /\ (UNCHANGED job \/ \E n \in Jobs : job' = [job EXCEPT ![n] = "guard"])
      BY <1>8, AttrNextMoves, AttrJobsIn, JobSets
    <2> QED BY <2>1, <1>s DEF TypeInv
  <1>9. CASE UNCHANGED vars
    BY <1>9, <1>s DEF vars, files
  <1> QED
    BY <1>1, <1>2, <1>3, <1>4, <1>5, <1>6, <1>7, <1>8, <1>9 DEF Next, Chain, Attr

\* A harness of another build than the anchor's knows what is in its JSONL, always.
LEMMA OwnFileInvariant == Spec => [](TypeInv /\ OwnFile)
  <1>1. Init => OwnFile
    BY DEF Init, OwnFile
  <1> QED BY <1>1, OwnFileStep, TypeInit, TypeStep, PTL DEF Spec

\* The steps that write to a JSONL.
LEMMA Writers ==
    [Next]_vars => \/ UNCHANGED results
                   \/ \E j \in Jobs : Arm(j) /\ (UNCHANGED results \/ Ask(j) \/ Finish(j))
  BY DEF Next, vars, Arm, Guard, Prewarm, Launch, Health, Query, Stop, Reap, Drain, files,
         Server, Bind, BindFails, Loaded, LoadFails, Crash, Exit, Serve,
         Chain, ChainGate, ChainStop, ChainNext,
         Attr, AttrTakeOver, AttrKillHarness, AttrKillServer, AttrNext

\* The tags other than the anchor's: no step changes a recorded answer.
LEMMA OthersKept ==
    ASSUME TypeInv, OwnFile, [Next]_vars, NEW tag \in Tags, tag # "Q8_0"
    PROVE  Kept(tag)
  <1>1. CASE UNCHANGED results
    BY <1>1 DEF Kept
  <1>2. ASSUME NEW j \in Jobs, Arm(j) PROVE Kept(tag)
    <2>1. CASE Tag(j) = tag
      BY <1>2, <2>1, ArmWrites DEF Kept
    <2>2. CASE Tag(j) # tag
      <3>1. PICK r \in [Task -> Answers] : results' = [results EXCEPT ![Tag(j)] = r]
        BY <1>2, ArmMoves
      <3> QED BY <2>2, <3>1 DEF Kept, TypeInv
    <2> QED BY <2>1, <2>2
  <1> QED BY <1>1, <1>2, Writers

\* In calm no step changes a recorded answer of any tag.
LEMMA CalmKeeps ==
    ASSUME TypeInv, Orderly, Progress, Calm, Honest, [Next]_vars, NEW tag \in Tags
    PROVE  Kept(tag)
  <1>1. CASE UNCHANGED results
    BY <1>1 DEF Kept
  <1>2. ASSUME NEW j \in Jobs, Ask(j) PROVE Kept(tag)
    <2>1. PICK u \in Task : results[Tag(j)][u] = "none"
                           /\ results' = [results EXCEPT ![Tag(j)][u] = Build(j)]
      BY <1>2, AskWrites
    <2> QED BY <2>1 DEF Kept, TypeInv
  <1>3. ASSUME NEW j \in Jobs, Finish(j) PROVE Kept(tag)
    BY <1>1, <1>3, FinishWrites
  <1> QED BY <1>1, <1>2, <1>3, Writers

(* A recorded answer is never changed or dropped, in any mode, for every   *)
(* build but the anchor; the anchor's, which several invocations write,    *)
(* neither by the resume nor by the rewrite at the end of a harness, until *)
(* attribution.sh takes over, unless a loop runs out or a server dies.     *)
THEOREM RecordedAnswersAreKept == Spec => AnswersKept
  <1>1. TypeInv /\ Orderly /\ Progress /\ (Calm => Honest) /\ OwnFile /\ [Next]_vars =>
        [\A tag \in Tags : tag # "Q8_0" \/ Calm => Kept(tag)]_results
    BY OthersKept, CalmKeeps
  <1> QED BY <1>1, HonestInvariant, OwnFileInvariant, PTL DEF Spec, AnswersKept

------------------------------------------------------------------------------
\* Once the builds are over nothing writes to their files.
LEMMA Sub4Step ==
    ASSUME TypeInv, Orderly, Progress, Calm => Honest, Sub4Intact, [Next]_vars, (Calm => Honest)'
    PROVE  Sub4Intact'
  <1> SUFFICES ASSUME ~faults', NEW b \in Sub4Builds PROVE Intact(b)'
    BY DEF Sub4Intact
  <1>f. ~faults
    BY DEF Next, vars, faults
  <1>t. b \in Tags /\ Intact(b)
    BY <1>f, JobSets DEF Sub4Intact
  <1>1. CASE Calm'
    BY <1>1, <1>t DEF Honest
  <1>2. CASE UNCHANGED results
    BY <1>2, <1>t DEF Intact
  <1>3. ASSUME NEW j \in Jobs, Arm(j), ~UNCHANGED results, TakenOver PROVE Intact(b)'
    <2>1. job[j] = "eval" /\ \E r \in [Task -> Answers] : results' = [results EXCEPT ![Tag(j)] = r]
      BY <1>3, ArmMoves
    <2>2. sub4done /\ job[b] = "done"
      BY <1>3, <1>f DEF Progress
    <2>3. Tag(j) # b
      BY <2>1, <2>2, JobSets
    <2>4. results'[b] = results[b]
      BY <2>1, <2>3, <1>t DEF TypeInv
    <2> QED BY <2>4, <1>t DEF Intact
  <1>4. ASSUME NEW j \in Jobs, Arm(j), ~TakenOver PROVE Calm'
    <2>1. UNCHANGED attr
      BY <1>4, ArmMoves DEF scripts
    <2> QED BY <1>4, <2>1 DEF Calm, TakenOver
  <1>5. UNCHANGED results \/ \E j \in Jobs : Arm(j)
    BY DEF Next, vars, files, Server, Bind, BindFails, Loaded, LoadFails, Crash, Exit, Serve,
           Chain, ChainGate, ChainStop, ChainNext,
           Attr, AttrTakeOver, AttrKillHarness, AttrKillServer, AttrNext
  <1> QED BY <1>1, <1>2, <1>3, <1>4, <1>5

(* The sub-4-bit results are intact even when attribution.sh pkills        *)
(* chain.sh, its harness and its server: it waits for SUB4 PHASE COMPLETE, *)
(* and by then no harness writes to them any more.                         *)
THEOREM Sub4ResultsSurvive == Spec => []Sub4Intact
  <1>1. Init => Sub4Intact
    BY HonestInit, JobSets DEF Sub4Intact, Honest
  <1>2. /\ TypeInv /\ Orderly /\ Progress /\ (Calm => Honest) /\ Sub4Intact /\ [Next]_vars
        /\ (Calm => Honest)'
        => Sub4Intact'
    BY Sub4Step
  <1> QED BY <1>1, <1>2, HonestInvariant, PTL DEF Spec
=============================================================================
