---------------------------- MODULE SweepProofs ----------------------------
(***************************************************************************)
(* Proofs about Sweep, for any set of its drivers and any number of cells, *)
(* requests and invocations: only what no guard could see shares the card  *)
(* with a cell, a driver that is not killed leaves no server behind, and a *)
(* resumed one keeps what is complete and retries what is not.             *)
(***************************************************************************)
EXTENDS Sweep, TLAPS

Statuses == {"none", "torn", "FAIL", "REQ_FAIL", "raised", "SKIPPED", "OK"}
Recs == [status : Statuses, answered : BOOLEAN, leak : BOOLEAN, run : Nat]
ServerStates == {"unborn", "starting", "loading", "up", "dying", "gone"}
AtCell == {"guard", "health", "fire", "stop", "record", "dump"}

TypeInv ==
    /\ driver \in Drivers
    /\ pc \in {"down", "cells"} \cup AtCell
    /\ want \subseteq Cell /\ cell \in Nat
    /\ pc \in AtCell => cell \in want
    /\ rec \in Recs
    /\ results \in [Cell -> Recs] /\ file \in [Cell -> Recs]
    /\ srv \in [Server -> ServerStates] /\ cur \in Nat
    /\ runs \in 0..MaxRuns

(* The policies, as far as the properties depend on them.                  *)
LEMMA Policies ==
    ASSUME NEW d \in Drivers
    PROVE  /\ Policy[d].wants \subseteq SUBSET Cell
           /\ d \notin {"depth", "cell"} => "OK" \in Policy[d].done
           /\ d # "probes" => "FAIL" \notin Policy[d].done
  <1>1. d \in DOMAIN Policy
    BY ConstantsAssumption
  <1>2. d \in {"placement", "depth", "cell", "speed", "xcheck", "moe", "probes", "stack",
               "roundbudget", "nsys"}
    BY <1>1 DEF Policy
  <1>3. Cell \subseteq Cell /\ \A c \in Cell : {c} \subseteq Cell
    OBVIOUS
  <1> DEFINE Fits(p) == /\ p.wants \subseteq SUBSET Cell
                        /\ d \notin {"depth", "cell"} => "OK" \in p.done
                        /\ d # "probes" => "FAIL" \notin p.done
  <1>4. CASE d \in {"placement", "depth", "cell"}
    <2>1. Policy[d] = IF d = "placement" THEN Placement ELSE IF d = "depth" THEN Depth ELSE OneCell
      BY <1>4 DEF Policy
    <2>2. Fits(Policy[d])
      BY <2>1, <1>3, <1>4 DEF Placement, Depth, OneCell
    <2> QED BY <2>2
  <1>5. CASE d \in {"speed", "xcheck", "moe"}
    <2>1. Policy[d] = IF d = "speed" THEN Speed ELSE IF d = "xcheck" THEN Xcheck ELSE Moe
      BY <1>5 DEF Policy
    <2>2. Fits(Policy[d])
      BY <2>1, <1>3, <1>5 DEF Placement, Speed, Xcheck, Moe
    <2> QED BY <2>2
  <1>6. CASE d = "probes"
    BY <1>3, <1>6 DEF Policy, Placement, Probes
  <1>7. CASE d = "stack"
    BY <1>3, <1>7 DEF Policy, Stack
  <1>8. CASE d = "roundbudget"
    BY <1>3, <1>8 DEF Policy, Placement, Budget
  <1>9. CASE d = "nsys"
    BY <1>3, <1>9 DEF Policy, Placement, Nsys
  <1> QED
    BY <1>2, <1>4, <1>5, <1>6, <1>7, <1>8, <1>9

\* An empty record and an unreadable file are of the type of their variables.
LEMMA RecordTypes == NoRec \in Recs /\ NoResults \in [Cell -> Recs] /\ Torn \in [Cell -> Recs]
  BY DEF NoRec, NoResults, Torn, Recs, Statuses

\* The record a cell begins with is a record.
LEMMA FreshRecord ==
    ASSUME NEW st \in Statuses, NEW n \in Nat
    PROVE  [status |-> st, answered |-> FALSE, leak |-> FALSE, run |-> n] \in Recs
  BY DEF Recs

\* The variables have their types when no invocation has been made.
LEMMA TypeInit == Init => TypeInv
  <1>1. Init => runs \in 0..MaxRuns
    BY ConstantsAssumption DEF Init
  <1> QED BY <1>1, RecordTypes DEF Init, TypeInv, AtCell, ServerStates

\* A launch gives a fresh server its first state.
LEMMA PopenType ==
    ASSUME TypeInv, pc = "guard", Popen PROVE TypeInv'
  <1>1. srv' \in [Server -> ServerStates]
    BY DEF TypeInv, Popen, ServerStates
  <1>2. cur' \in Nat
    BY DEF TypeInv, Popen
  <1> QED BY <1>1, <1>2 DEF TypeInv, Popen, AtCell

\* Every step keeps the types.
LEMMA TypeStep == TypeInv /\ [Next]_vars => TypeInv'
  <1> SUFFICES ASSUME TypeInv, [Next]_vars PROVE TypeInv'
    OBVIOUS
  <1> USE RecordTypes DEF TypeInv, AtCell
  <1>1. ASSUME NEW W \in Mine.wants, Start(W) PROVE TypeInv'
    <2>1. W \subseteq Cell
      BY Policies DEF Mine
    <2>2. runs + 1 \in 0..MaxRuns
      BY <1>1, ConstantsAssumption DEF Start
    <2> QED BY <1>1, <2>1, <2>2 DEF Start
  <1>2. CASE SkipCell \/ AllDone
    BY <1>2 DEF SkipCell, AllDone
  <1>3. CASE Begin \/ NoBinary
    <2>1. rec' = [status |-> "none", answered |-> FALSE, leak |-> FALSE, run |-> runs]
          \/ rec' = [status |-> "SKIPPED", answered |-> FALSE, leak |-> FALSE, run |-> runs]
      BY <1>3 DEF Begin, NoBinary, NoRec
    <2>2. runs \in Nat
      BY ConstantsAssumption
    <2>3. rec' \in Recs
      <3>1. "none" \in Statuses /\ "SKIPPED" \in Statuses
        BY DEF Statuses
      <3> QED BY <2>1, <2>2, <3>1, FreshRecord
    <2> QED BY <1>3, <2>3 DEF Begin, NoBinary
  <1>4. CASE Guard
    BY <1>4, PopenType DEF Guard
  <1>5. CASE Healthy \/ NotHealthy \/ FireRaises
    <2>1. rec' \in Recs
      BY <1>5 DEF Healthy, NotHealthy, FireRaises, Recs, Statuses
    <2> QED BY <1>5, <2>1 DEF Healthy, NotHealthy, FireRaises
  <1>6. CASE Fire \/ FireFails
    <2>1. rec' \in Recs
      BY <1>6 DEF Fire, FireFails, Asked, Recs, Statuses
    <2> QED BY <1>6, <2>1 DEF Fire, FireFails, Asked
  <1>7. CASE Stop
    <2>1. srv' \in [Server -> ServerStates]
      BY <1>7 DEF Stop, ServerStates
    <2> QED BY <1>7, <2>1 DEF Stop
  <1>8. CASE Record
    <2>1. rec' \in Recs /\ results' = [results EXCEPT ![cell] = rec']
      BY <1>8 DEF Record, Recs, Statuses
    <2> QED BY <1>8, <2>1 DEF Record
  <1>9. CASE Dump
    BY <1>9 DEF Dump
  <1>10. CASE Kill
    BY <1>10 DEF Kill
  <1>11. ASSUME NEW s \in Server, Serve(s) PROVE TypeInv'
    BY <1>11 DEF Serve, Becomes, ServerStates
  <1>12. ASSUME NEW s \in Server, Allocate(s) PROVE TypeInv'
    BY <1>12 DEF Allocate, Becomes, ServerStates
  <1>13. CASE UNCHANGED vars
    BY <1>13 DEF vars
  <1> QED
    BY <1>1, <1>2, <1>3, <1>4, <1>5, <1>6, <1>7, <1>8, <1>9, <1>10, <1>11, <1>12, <1>13
    DEF Next, Step

------------------------------------------------------------------------------
(* A cell of an invocation launches one server at most, so there is always *)
(* one left to launch.                                                     *)
Slots(n) == n * NCells

Counted ==
    /\ pc = "down" => cur <= Slots(runs)
    /\ pc \in {"cells", "guard"} => cell \in 1..(NCells + 1) /\ cur + 1 + NCells <= Slots(runs) + cell
    /\ pc \in AtCell \ {"guard"} => cur + NCells <= Slots(runs) + cell

\* One more invocation has a server more for every cell.
LEMMA SlotsOfNext ==
    ASSUME NEW n \in Nat
    PROVE  Slots(n) \in Nat /\ Slots(n + 1) = Slots(n) + NCells
  BY ConstantsAssumption DEF Slots

\* More invocations have more servers.
LEMMA SlotsGrow ==
    ASSUME NEW n \in Nat, NEW m \in Nat, n <= m
    PROVE  Slots(n) <= Slots(m)
  BY ConstantsAssumption DEF Slots

\* The servers launched are among those there are.
LEMMA EnoughServers ==
    ASSUME TypeInv, Counted
    PROVE  /\ cur # 0 => cur \in Server
           /\ pc = "guard" => cur + 1 \in Server
  <1>1. /\ Slots(runs) \in Nat /\ Slots(MaxRuns) \in Nat /\ Slots(runs) <= Slots(MaxRuns)
        /\ Server = 1..Slots(MaxRuns)
    <2>1. Server = 1..Slots(MaxRuns)
      BY ConstantsAssumption DEF Server, Slots
    <2>2. runs \in Nat /\ MaxRuns \in Nat /\ runs <= MaxRuns
      BY ConstantsAssumption DEF TypeInv
    <2> QED BY <2>1, <2>2, SlotsOfNext, SlotsGrow
  <1>2. pc \in AtCell => cell \in Nat /\ cell <= NCells
    BY ConstantsAssumption DEF TypeInv, Cell
  <1>3. cur <= Slots(runs) /\ (pc = "guard" => cur + 1 <= Slots(runs))
    BY <1>1, <1>2, ConstantsAssumption DEF TypeInv, Counted, AtCell
  <1> QED BY <1>1, <1>3 DEF TypeInv

\* The count holds at the beginning.
LEMMA CountedInit == Init => Counted
  BY SlotsOfNext DEF Init, Counted, AtCell

\* Every step keeps the count of servers.
LEMMA CountedStep == TypeInv /\ Counted /\ [Next]_vars => Counted'
  <1> SUFFICES ASSUME TypeInv, Counted, [Next]_vars PROVE Counted'
    OBVIOUS
  <1>n. Slots(runs) \in Nat /\ NCells \in Nat /\ NCells > 0 /\ cur \in Nat /\ cell \in Nat
    BY SlotsOfNext, ConstantsAssumption DEF TypeInv
  <1>c. pc \in AtCell => cell >= 1 /\ cell <= NCells
    BY <1>n DEF TypeInv, Cell
  <1>1. ASSUME NEW W \in Mine.wants, Start(W) PROVE Counted'
    <2>1. Slots(runs') = Slots(runs) + NCells
      BY <1>1, SlotsOfNext DEF Start, TypeInv
    <2> QED BY <1>1, <1>n, <2>1 DEF Start, Counted, AtCell
  <1>2. CASE SkipCell \/ AllDone
    <2>1. cell \in Cell <=> cell >= 1 /\ cell <= NCells
      BY <1>n DEF Cell
    <2> QED BY <1>2, <1>n, <2>1 DEF SkipCell, AllDone, Counted, AtCell
  <1>3. CASE Begin \/ NoBinary
    BY <1>3, <1>n DEF Begin, NoBinary, Counted, AtCell
  <1>4. CASE Guard
    BY <1>4, <1>n, <1>c DEF Guard, Popen, Counted, AtCell
  <1>5. CASE Healthy \/ NotHealthy \/ FireRaises \/ Fire \/ FireFails \/ Stop \/ Record
    <2>1. UNCHANGED <<cur, cell, runs>> /\ pc \in AtCell \ {"guard"}
      BY <1>5 DEF Healthy, NotHealthy, FireRaises, Fire, FireFails, Asked, Stop, Record, AtCell
    <2>2. pc' \in {"down", "fire", "stop", "record", "dump"}
      BY <1>5 DEF Healthy, NotHealthy, FireRaises, Fire, FireFails, Asked, Stop, Record
    <2>3. cur <= Slots(runs) /\ cur + NCells <= Slots(runs) + cell
      BY <2>1, <1>n, <1>c DEF Counted
    <2> QED BY <2>1, <2>2, <2>3 DEF Counted, AtCell
  <1>6. CASE Dump
    BY <1>6, <1>n, <1>c DEF Dump, Counted, AtCell
  <1>7. CASE Kill
    BY <1>7, <1>n, <1>c DEF Kill, Counted, AtCell, TypeInv
  <1>8. CASE UNCHANGED <<pc, cur, cell, runs>>
    BY <1>8 DEF Counted
  <1> QED
    BY <1>1, <1>2, <1>3, <1>4, <1>5, <1>6, <1>7, <1>8
    DEF Next, Step, vars, Serve, Allocate, Becomes

------------------------------------------------------------------------------
(* The servers of the cells before have ended by the time a cell is        *)
(* measured, and a server that has not taken its memory yet is waited for, *)
(* but for those that were left to themselves before they had any.         *)
Others ==
    /\ \A s \in Server : s > cur => srv[s] = "unborn"
    /\ \A s \in Server : srv[s] = "starting" =>
          s \in unseen \/ (s = cur /\ pc \in {"health", "fire", "stop"})
    /\ pc \in {"health", "fire"} =>
          \A s \in Server \ {cur} : s \in unseen \/ srv[s] \in {"unborn", "gone"}

\* There is no server at first.
LEMMA OthersInit == Init => Others
  BY DEF Init, Others

\* The guard, and nothing else, is what keeps earlier servers from a measurement.
LEMMA OthersStep == TypeInv /\ Counted /\ Others /\ [Next]_vars => Others'
  <1> SUFFICES ASSUME TypeInv, Counted, Others, [Next]_vars PROVE Others'
    OBVIOUS
  <1>s. srv \in [Server -> ServerStates] /\ cur \in Nat /\ Server \subseteq Nat
    BY DEF TypeInv, Server
  <1>1. CASE UNCHANGED <<pc, srv, cur, unseen>>
    BY <1>1 DEF Others
  <1>2. ASSUME UNCHANGED <<srv, cur>>, unseen \subseteq unseen', pc' \notin {"health", "fire"},
               \/ pc \notin {"health", "fire", "stop"}
               \/ cur \in Server /\ srv[cur] = "starting" => cur \in unseen' \/ pc' = "stop"
        PROVE  Others'
    BY <1>2 DEF Others
  <1>3. CASE Guard
    <2>1. CASE Holding = {} /\ Popen
      <3>1. /\ pc = "guard" /\ cur' = cur + 1 /\ pc' = "health" /\ cur + 1 \in Server
            /\ unseen' = unseen
        BY <1>3, <2>1, EnoughServers DEF Guard, Popen
      <3>2. \A s \in Server : s \in unseen \/ srv[s] \notin {"loading", "up", "dying", "starting"}
        BY <2>1, <3>1 DEF Holding, Others
      <3>3. \A s \in Server : s \in unseen \/ srv[s] \in {"unborn", "gone"}
        BY <3>2, <1>s DEF ServerStates
      <3>4. \A s \in Server : srv'[s] = IF s = cur + 1 THEN "starting" ELSE srv[s]
        BY <2>1, <1>s DEF Popen
      <3>5. \A s \in Server : s > cur + 1 => s > cur /\ s # cur + 1
        BY <1>s
      <3> QED BY <3>1, <3>3, <3>4, <3>5 DEF Others
    <2>2. CASE pc' = "down" /\ UNCHANGED <<srv, cur, unseen>> /\ pc = "guard"
      BY <1>2, <2>2
    <2> QED BY <1>3, <2>1, <2>2 DEF Guard
  <1>4. CASE Healthy
    BY <1>4 DEF Healthy, Others
  <1>5. CASE NotHealthy
    <2>1. pc' \in {"stop", "record"} /\ UNCHANGED <<srv, cur, unseen>> /\ srv[cur] # "starting"
      BY <1>5 DEF NotHealthy
    <2> QED BY <1>2, <2>1
  <1>6. CASE Fire \/ FireFails
    <2>1. pc = "fire" /\ pc' \in {"fire", "stop"} /\ UNCHANGED <<srv, cur, unseen>>
      BY <1>6 DEF Fire, FireFails, Asked
    <2> QED BY <2>1 DEF Others
  <1>7. CASE Stop
    <2>1. /\ pc = "stop" /\ pc' \in {"down", "record"} /\ UNCHANGED <<cur, unseen>>
          /\ \A s \in Server : \/ srv'[s] = srv[s] /\ (s = cur => srv[s] \notin Running)
                               \/ srv'[s] = "dying" /\ srv[s] \in Running
      BY <1>7 DEF Stop
    <2> QED BY <2>1, <1>s DEF Others, Running
  <1>8. CASE Kill
    <2>1. pc' = "down" /\ UNCHANGED <<srv, cur>> /\ LeftBehind
      BY <1>8 DEF Kill
    <2> QED BY <1>2, <2>1 DEF LeftBehind
  <1>9. ASSUME NEW s \in Server, Serve(s) PROVE Others'
    BY <1>9, <1>s DEF Serve, Becomes, Running, Others
  <1>10. ASSUME NEW s \in Server, Allocate(s) PROVE Others'
    BY <1>10, <1>s DEF Allocate, Becomes, Others
  <1>11. CASE \E W \in Mine.wants : Start(W)
    BY <1>2, <1>11 DEF Start
  <1>12. CASE SkipCell \/ Begin \/ NoBinary \/ AllDone \/ Record \/ Dump
    <2>1. /\ pc \notin {"health", "fire", "stop"} /\ pc' \notin {"health", "fire"}
          /\ UNCHANGED <<srv, cur, unseen>>
      BY <1>12 DEF SkipCell, Begin, NoBinary, AllDone, Record, Dump
    <2> QED BY <1>2, <2>1
  <1>13. CASE FireRaises
    <2>1. /\ pc = "fire" /\ UNCHANGED <<srv, cur>>
          /\ \/ pc' = "stop" /\ UNCHANGED unseen
             \/ pc' = "down" /\ LeftBehind
      BY <1>13 DEF FireRaises
    <2> QED BY <1>2, <2>1 DEF LeftBehind
  <1> QED
    BY <1>1, <1>3, <1>4, <1>5, <1>6, <1>7, <1>8, <1>9, <1>10, <1>11, <1>12, <1>13
    DEF Next, Step, vars

\* Types, count and servers hold in every reachable state.
LEMMA ServersInvariant == Spec => [](TypeInv /\ Counted /\ Others)
  BY TypeInit, TypeStep, CountedInit, CountedStep, OthersInit, OthersStep, PTL DEF Spec

(* While requests are made, no server but the cell's own has memory on the *)
(* card or can answer, whichever drivers, cells and kills came before, but *)
(* for servers that no guard could see when they were left to themselves   *)
(* (guard, which is asked before every launch).                            *)
THEOREM OnlyTheUnseenShareACell == Spec => []MeasuredAlone
  <1>1. Others => MeasuredAlone
    BY DEF Others, MeasuredAlone, Holding
  <1> QED BY <1>1, ServersInvariant, PTL

------------------------------------------------------------------------------
(* A driver with a finally has a server running only while it uses it.     *)
Attended ==
    Mine.finally /\ ~killed =>
        \A s \in Server : srv[s] \in Running => s = cur /\ pc \in {"health", "fire", "stop"}

\* No step but a kill leaves a running server unattended.
LEMMA AttendedStep == TypeInv /\ Counted /\ Others /\ Attended /\ [Next]_vars => Attended'
  <1> SUFFICES ASSUME TypeInv, Counted, Others, Attended, [Next]_vars,
                      Mine'.finally, ~killed', NEW s \in Server, srv'[s] \in Running
               PROVE  s = cur' /\ pc' \in {"health", "fire", "stop"}
    BY DEF Attended
  <1>d. UNCHANGED driver
    BY DEF Next, Step, vars, Start, SkipCell, Begin, NoBinary, AllDone, Guard, Popen, Healthy,
           NotHealthy, Fire, FireFails, Asked, FireRaises, Stop, Record, Dump, Kill, Allocate,
           Serve, Becomes
  <1>k. ~Kill /\ UNCHANGED killed
    BY DEF Next, Step, vars, Start, SkipCell, Begin, NoBinary, AllDone, Guard, Popen, Healthy,
           NotHealthy, Fire, FireFails, Asked, FireRaises, Stop, Record, Dump, Kill, Allocate,
           Serve, Becomes
  <1>f. Mine.finally /\ ~killed /\ Mine' = Mine
    BY <1>d, <1>k DEF Mine
  <1>a. \A u \in Server : srv[u] \in Running => u = cur /\ pc \in {"health", "fire", "stop"}
    BY <1>f DEF Attended
  <1>s. srv \in [Server -> ServerStates] /\ cur \in Nat
    BY DEF TypeInv
  <1>1. CASE UNCHANGED <<srv, cur>> /\ pc' \in {"health", "fire", "stop"}
    BY <1>1, <1>a
  <1>2. CASE UNCHANGED <<srv, cur>> /\ pc \notin {"health", "fire", "stop"}
    BY <1>2, <1>a
  <1>3. CASE Guard /\ Popen
    <2>1. pc = "guard" /\ cur' = cur + 1 /\ pc' = "health"
          /\ \A u \in Server : u # cur + 1 => srv'[u] = srv[u]
      BY <1>3, <1>s DEF Guard, Popen
    <2> QED BY <2>1, <1>a
  <1>4. CASE NotHealthy
    <2>1. pc = "health" /\ UNCHANGED <<srv, cur>>
          /\ pc' = IF srv[cur] # "gone" THEN "stop" ELSE "record"
      BY <1>4, <1>f DEF NotHealthy
    <2>2. s = cur /\ srv[cur] # "gone"
      BY <2>1, <1>a DEF Running
    <2> QED BY <2>1, <2>2
  <1>5. CASE FireRaises
    BY <1>5, <1>1, <1>f DEF FireRaises
  <1>6. CASE Fire \/ FireFails \/ Healthy
    <2>1. UNCHANGED <<srv, cur>> /\ pc' \in {"fire", "stop"}
      BY <1>6 DEF Fire, FireFails, Asked, Healthy
    <2> QED BY <2>1, <1>1
  <1>7. CASE Stop
    <2>1. \A u \in Server : srv'[u] = IF srv[u] \in Running /\ (u = cur \/ Mine.port)
                                      THEN "dying" ELSE srv[u]
      BY <1>7 DEF Stop
    <2>2. srv[s] \in Running /\ s # cur
      BY <2>1 DEF Running
    <2> QED BY <2>2, <1>a
  <1>8. ASSUME NEW u \in Server, Serve(u) PROVE s = cur' /\ pc' \in {"health", "fire", "stop"}
    <2>1. UNCHANGED <<pc, cur>> /\ (srv'[s] = srv[s] \/ srv[s] = "loading")
      BY <1>8, <1>s DEF Serve, Becomes, Running
    <2> QED BY <2>1, <1>a DEF Running
  <1>9. ASSUME NEW u \in Server, Allocate(u) PROVE s = cur' /\ pc' \in {"health", "fire", "stop"}
    <2>1. UNCHANGED <<pc, cur>> /\ (srv'[s] = srv[s] \/ srv[s] = "starting")
      BY <1>9, <1>s DEF Allocate, Becomes
    <2> QED BY <2>1, <1>a DEF Running
  <1>10. CASE UNCHANGED vars
    BY <1>10, <1>a DEF vars
  <1>11. CASE \E W \in Mine.wants : Start(W)
    BY <1>11, <1>2 DEF Start
  <1>12. CASE SkipCell \/ Begin \/ NoBinary \/ AllDone \/ Record \/ Dump
    <2>1. UNCHANGED <<srv, cur>> /\ pc \notin {"health", "fire", "stop"}
      BY <1>12 DEF SkipCell, Begin, NoBinary, AllDone, Record, Dump
    <2> QED BY <2>1, <1>2
  <1>13. CASE Guard /\ ~Popen
    BY <1>13, <1>2 DEF Guard
  <1> QED
    BY <1>k, <1>3, <1>4, <1>5, <1>6, <1>7, <1>8, <1>9, <1>10, <1>11, <1>12, <1>13 DEF Next, Step

(* Whichever start or request failed and whichever exception ended the     *)
(* run, a driver that stops servers in a finally and was never killed has  *)
(* none running when it is over.                                           *)
THEOREM FinallyStopsTheServer == Spec => []NoOrphanWithoutAKill
  <1>1. Init => Attended
    BY DEF Init, Attended, Running
  <1>2. Attended => NoOrphanWithoutAKill
    BY DEF Attended, NoOrphanWithoutAKill
  <1> QED BY <1>1, <1>2, AttendedStep, ServersInvariant, PTL DEF Spec

------------------------------------------------------------------------------
(* Between two writes the file holds the results in memory; the cell at    *)
(* hand is not done, and its record is of this invocation.                 *)
Filed ==
    /\ pc \notin {"down", "dump"} => file = results
    /\ pc = "dump" => file = Torn /\ results[cell] = rec
    /\ pc \in AtCell => rec.run = runs
    /\ pc \in AtCell \ {"dump"} => ~Skips(results[cell])

Known == IF pc = "down" THEN file ELSE results

(* An entry that --cell appends is one that no invocation made before.     *)
OneEach ==
    driver = "cell" =>
        /\ pc # "down" => want = {runs}
        /\ \A c \in Cell : Known[c].status = "OK" =>
              c <= runs /\ (pc \notin {"down", "dump"} => c < cell \/ c < runs)

(* The failed starts this invocation has passed are of its own.            *)
Retried ==
    pc # "down" => \A c \in want :
        c < cell /\ results[c].status = "FAIL" => results[c].run = runs \/ driver = "probes"

Kept == Filed /\ OneEach /\ Retried

\* Neither the empty results nor a torn file have a complete or a failed cell.
LEMMA NothingKnown ==
    ASSUME NEW c \in Cell
    PROVE  NoResults[c].status \notin {"OK", "FAIL"} /\ Torn[c].status \notin {"OK", "FAIL"}
  BY DEF NoResults, Torn, NoRec

\* It holds before the first invocation.
LEMMA KeptInit == Init => Kept
  BY NothingKnown DEF Init, Kept, Filed, OneEach, Retried, Known, AtCell

\* A cell that is begun has a record of this invocation and leaves the results alone.
LEMMA BeginKeeps ==
    ASSUME TypeInv, Kept, Begin \/ NoBinary PROVE Kept'
  <1>1. /\ UNCHANGED <<driver, want, cell, results, file, runs>>
        /\ pc = "cells" /\ pc' \in {"guard", "record"} /\ ~Skips(results[cell])
    BY DEF Begin, NoBinary
  <1>2. rec'.run = runs
    BY DEF Begin, NoBinary, NoRec
  <1>3. Mine' = Mine
    BY <1>1 DEF Mine
  <1> QED BY <1>1, <1>2, <1>3 DEF Kept, Filed, OneEach, Retried, Known, AtCell, Skips

\* The steps between the beginning of a cell and its record keep the run that is noted in it.
LEMMA RequestKeeps ==
    ASSUME TypeInv, Kept,
           UNCHANGED <<driver, want, cell, results, file, runs>>,
           rec' = rec \/ \E st \in Statuses, a, l \in BOOLEAN :
                             rec' = [rec EXCEPT !.status = st, !.answered = a, !.leak = l],
           pc \in AtCell \ {"dump"}, pc' \in {"down"} \cup (AtCell \ {"dump"})
    PROVE  Kept'
  <1>1. rec'.run = rec.run
    BY DEF TypeInv, Recs
  <1>2. Mine' = Mine
    BY DEF Mine
  <1> QED BY <1>1, <1>2 DEF Kept, Filed, OneEach, Retried, Known, AtCell, Skips

\* Passing a cell that has no failed start of another invocation keeps what was retried.
LEMMA PassedRetried ==
    ASSUME TypeInv, Retried, pc # "down",
           UNCHANGED <<driver, want, results, runs>>, cell' = cell + 1,
           cell \in want /\ results[cell].status = "FAIL" =>
               results[cell].run = runs \/ driver = "probes"
    PROVE  Retried'
  <1> SUFFICES ASSUME NEW c \in want, c < cell + 1, results[c].status = "FAIL"
               PROVE  results[c].run = runs \/ driver = "probes"
    BY DEF Retried
  <1>1. c < cell \/ c = cell
    BY ConstantsAssumption DEF TypeInv, Cell
  <1> QED BY <1>1 DEF Retried

\* Passing a cell keeps the entries that were appended.
LEMMA PassedOneEach ==
    ASSUME TypeInv, OneEach, pc = "cells", pc' = "cells",
           UNCHANGED <<driver, want, results, runs>>, cell' = cell + 1
    PROVE  OneEach'
  <1> SUFFICES ASSUME driver = "cell"
               PROVE  /\ want = {runs}
                      /\ \A c \in Cell : results[c].status = "OK" =>
                            c <= runs /\ (c < cell + 1 \/ c < runs)
    BY DEF OneEach, Known
  <1>1. \A c \in Cell : c < cell => c < cell + 1
    BY ConstantsAssumption DEF TypeInv, Cell
  <1> QED BY <1>1 DEF OneEach, Known

\* Every step, kills in the middle of a write included, keeps the results.
LEMMA KeptStep == TypeInv /\ Kept /\ [Next]_vars => Kept'
  <1> SUFFICES ASSUME TypeInv, Kept, [Next]_vars PROVE Kept'
    OBVIOUS
  <1>t. /\ driver \in Drivers /\ want \subseteq Cell /\ cell \in Nat /\ Cell \subseteq Nat
        /\ results \in [Cell -> Recs] /\ file \in [Cell -> Recs] /\ runs \in Nat
    BY ConstantsAssumption DEF TypeInv, Cell
  <1>1. ASSUME NEW W \in Mine.wants, Start(W) PROVE Kept'
    <2>1. /\ pc = "down" /\ pc' = "cells" /\ runs' = runs + 1 /\ cell' = 1 /\ want' = W
          /\ results' = file /\ file' = file /\ driver' = driver
          /\ driver = "cell" => W = {runs + 1}
      BY <1>1 DEF Start
    <2>2. W \subseteq Cell /\ \A c \in Cell : ~(c < 1)
      BY <1>t, Policies DEF Mine, Cell
    <2>3. Filed' /\ Retried'
      BY <2>1, <2>2 DEF Filed, Retried, AtCell
    <2>4. OneEach'
      BY <2>1, <1>t DEF Kept, OneEach, Known
    <2> QED BY <2>3, <2>4 DEF Kept
  <1>2. CASE SkipCell
    <2>1. /\ pc = "cells" /\ pc' = "cells" /\ cell' = cell + 1
          /\ UNCHANGED <<driver, want, results, file, runs>>
          /\ cell \notin want \/ results[cell].status \in Mine.done
      BY <1>2 DEF SkipCell, Skips
    <2>2. cell \in want /\ results[cell].status = "FAIL" => driver = "probes"
      BY <2>1, <1>t, Policies DEF Mine
    <2>3. Filed'
      BY <2>1 DEF Kept, Filed, AtCell
    <2>4. OneEach'
      BY <2>1, PassedOneEach DEF Kept
    <2>5. Retried'
      BY <2>1, <2>2, PassedRetried DEF Kept
    <2> QED BY <2>3, <2>4, <2>5 DEF Kept
  <1>3. CASE Begin \/ NoBinary
    BY <1>3, BeginKeeps
  <1>4. CASE AllDone
    BY <1>4 DEF AllDone, Kept, Filed, OneEach, Retried, Known, AtCell
  <1>5. CASE Guard
    BY <1>5, RequestKeeps DEF Guard, Popen, AtCell
  <1>6. CASE Healthy \/ NotHealthy \/ Fire \/ FireFails \/ FireRaises \/ Stop
    <2>1. /\ UNCHANGED <<driver, want, cell, results, file, runs>>
          /\ pc \in AtCell \ {"dump"} /\ pc' \in {"down"} \cup (AtCell \ {"dump"})
      BY <1>6 DEF Healthy, NotHealthy, Fire, FireFails, FireRaises, Asked, Stop, AtCell
    <2>2. rec.run = rec'.run
      BY <1>6 DEF Healthy, NotHealthy, Fire, FireFails, FireRaises, Asked, Stop, TypeInv, Recs
    <2>3. Mine' = Mine
      BY <2>1 DEF Mine
    <2> QED BY <2>1, <2>2, <2>3 DEF Kept, Filed, OneEach, Retried, Known, AtCell, Skips
  <1>7. CASE Record
    <2>1. /\ pc = "record" /\ pc' = "dump" /\ file' = Torn
          /\ UNCHANGED <<driver, want, cell, runs>>
          /\ results' = [results EXCEPT ![cell] = rec'] /\ rec'.run = rec.run
      BY <1>7 DEF Record, TypeInv, Recs
    <2>2. cell \in want
      BY <2>1 DEF TypeInv, AtCell
    <2>3. Filed'
      BY <2>1, <2>2, <1>t DEF Kept, Filed, AtCell
    <2>4. OneEach'
      BY <2>1, <2>2, <1>t DEF Kept, OneEach, Known
    <2>5. Retried'
      <3>1. \A c \in want : c < cell => c # cell /\ c \in Cell /\ results'[c] = results[c]
        BY <2>1, <1>t
      <3>2. pc # "down" /\ UNCHANGED <<driver, want, cell, runs>>
        BY <2>1
      <3> QED BY <3>1, <3>2 DEF Kept, Retried
    <2> QED BY <2>3, <2>4, <2>5 DEF Kept
  <1>8. CASE Dump
    <2>1. /\ pc = "dump" /\ pc' \in {"down", "cells"} /\ file' = results /\ cell' = cell + 1
          /\ UNCHANGED <<driver, want, results, runs>>
      BY <1>8 DEF Dump
    <2>2. cell \in want /\ results[cell].run = runs
      BY <2>1 DEF TypeInv, Kept, Filed, AtCell
    <2>3. Filed'
      BY <2>1 DEF Filed, AtCell
    <2>4. OneEach'
      BY <2>1, <2>2, <1>t DEF Kept, OneEach, Known
    <2>5. Retried'
      BY <2>1, <2>2, PassedRetried DEF Kept
    <2> QED BY <2>3, <2>4, <2>5 DEF Kept
  <1>9. CASE Kill
    <2>1. pc # "down" /\ pc' = "down" /\ UNCHANGED <<driver, file, runs, results>>
      BY <1>9 DEF Kill
    <2>2. file = results \/ file = Torn
      BY <2>1 DEF Kept, Filed
    <2>3. OneEach'
      BY <2>1, <2>2, NothingKnown DEF Kept, OneEach, Known
    <2> QED BY <2>1, <2>3 DEF Kept, Filed, Retried, AtCell
  <1>10. CASE UNCHANGED <<driver, pc, want, cell, rec, results, file, runs>>
    BY <1>10 DEF Kept, Filed, OneEach, Retried, Known, Skips, Mine
  <1> QED
    BY <1>1, <1>2, <1>3, <1>4, <1>5, <1>6, <1>7, <1>8, <1>9, <1>10
    DEF Next, Step, vars, Serve, Allocate, Becomes

\* The results and what is known of them, in every reachable state.
LEMMA KeptInvariant == Spec => [](TypeInv /\ Kept)
  BY TypeInit, TypeStep, KeptInit, KeptStep, PTL DEF Spec

\* What replaces the file holds the cells that are complete in it.
LEMMA WriteKeeps ==
    ASSUME TypeInv, Kept, [Next]_vars
    PROVE  /\ file' \in {file, Torn, results}
           /\ \A c \in Cell :
                 driver # "depth" /\ file[c].status = "OK" /\ file' # file => results'[c] = file[c]
  <1>1. CASE Record
    <2>1. /\ pc = "record" /\ file = results /\ file' = Torn /\ cell \in want /\ want \subseteq Cell
          /\ ~Skips(results[cell]) /\ results' = [results EXCEPT ![cell] = rec']
          /\ results \in [Cell -> Recs] /\ driver \in Drivers /\ cell \in Nat
      BY <1>1, ConstantsAssumption DEF Record, TypeInv, Kept, Filed, AtCell
    <2>2. driver # "depth" /\ file[cell].status = "OK" => FALSE
      <3>1. CASE driver = "cell"
        <4>1. cell = runs /\ (file[cell].status = "OK" => cell < cell \/ cell < runs)
          BY <2>1, <3>1 DEF Kept, OneEach, Known
        <4> QED BY <4>1, <2>1
      <3>2. CASE driver # "cell"
        BY <2>1, <3>2, Policies DEF Skips, Mine
      <3> QED BY <3>1, <3>2
    <2> QED BY <2>1, <2>2
  <1>2. CASE Dump
    <2>1. file = Torn /\ file' = results
      BY <1>2 DEF Dump, Kept, Filed
    <2> QED BY <2>1, NothingKnown
  <1>3. CASE UNCHANGED file
    BY <1>3
  <1> QED
    BY <1>1, <1>2, <1>3
    DEF Next, Step, vars, Start, SkipCell, Begin, NoBinary, AllDone, Guard, Popen, Healthy,
        NotHealthy, Fire, FireFails, Asked, FireRaises, Stop, Kill, Allocate, Serve, Becomes

(* Whatever replaces the results file keeps the cells that are complete in *)
(* it, and an invocation that runs to its end has tried every failed start *)
(* it was asked for again, for any sequence of invocations and kills.      *)
THEOREM ResumedAsPromised == Spec => ResumeKeepsAndRetries
  <1>1. ASSUME TypeInv, Counted, Kept, AllDone, NEW c \in want, file[c].status = "FAIL"
        PROVE  file[c].run = runs \/ driver = "probes"
    <2>1. pc = "cells" /\ cell \notin Cell /\ file = results
      BY <1>1 DEF AllDone, Kept, Filed
    <2>2. c \in Cell /\ c < cell
      <3>1. c \in Cell /\ NCells \in Nat
        BY <1>1, ConstantsAssumption DEF TypeInv
      <3>2. cell \in 1..(NCells + 1) /\ cell \notin 1..NCells
        BY <1>1, <2>1 DEF Counted, Cell
      <3> QED BY <3>1, <3>2 DEF Cell
    <2> QED BY <1>1, <2>1, <2>2 DEF Kept, Retried
  <1>2. TypeInv /\ Counted /\ Kept /\ [Next]_vars =>
        [/\ \A c \in Cell :
               driver # "depth" /\ file[c].status = "OK" /\ file' # file => results'[c] = file[c]
         /\ file' \in {file, Torn, results}
         /\ AllDone => \A c \in want :
               file[c].status = "FAIL" => file[c].run = runs \/ driver = "probes"]_vars
    BY <1>1, WriteKeeps
  <1> QED BY <1>2, KeptInvariant, ServersInvariant, PTL DEF Spec, ResumeKeepsAndRetries
==============================================================================
