------------------------------- MODULE Sweep -------------------------------
(***************************************************************************)
(* The drivers that measure cells one after another, each against a        *)
(* llama-server of its own: cert35b_sweep.py, turbo4_eval.py,              *)
(* stack_test.py, roundbudget.py and nsys_round.py.  They share a shape -- *)
(* load the results, skip what is done, guard the card, launch, wait for   *)
(* /health, ask, stop, write all results in place -- and differ in their   *)
(* policies.  A behaviour is a number of invocations of one driver, any of *)
(* them killed; servers have sessions of their own and survive that.       *)
(***************************************************************************)
EXTENDS Integers

CONSTANTS Drivers,  \* the drivers a behaviour may be about
          NCells,   \* cells of a driver; of stack_test.py, 1 is arm B and 2 is B+
          Reps,     \* requests per cell
          MaxRuns   \* bound: the number of invocations

Cell == 1..NCells
Server == 1..(NCells * MaxRuns)

(* A policy: the sets of cells an invocation may be asked for; the records *)
(* that make a later invocation skip a cell; the cells of which a request  *)
(* that was answered, or that failed, may raise an exception that ends the *)
(* run, those that raise it after the last request if none was answered,   *)
(* and those that may raise it once the server is stopped; the cells whose *)
(* leaked thinking or long answers stop the run; whether a finally stops   *)
(* the server; whether it kills by port.                                   *)

(* run_placement: all of the grid.                                         *)
Placement ==
    [wants |-> {Cell}, done |-> {"OK"}, answered |-> {}, failed |-> {}, silent |-> {},
     stopped |-> {}, tripwire |-> {}, finally |-> TRUE, port |-> FALSE]

(* run_depth: one configuration, measured whenever it is asked for.        *)
Depth == [Placement EXCEPT !.wants = {{c} : c \in Cell}, !.done = {}]

(* run_cell_mode: one configuration, appended to a list; a cell stands for *)
(* the entry an invocation appends.                                        *)
OneCell == [Placement EXCEPT !.wants = {{c} : c \in Cell}, !.done = {}]

(* mode_speed: what --only selects; a row without a speed cannot be        *)
(* formatted.                                                              *)
Speed == [Placement EXCEPT !.wants = SUBSET Cell, !.answered = Cell]

(* mode_xcheck: both builds; mode_moe: what --moe-kv selects.              *)
Xcheck == [Speed EXCEPT !.wants = {Cell}]
Moe == Speed

(* mode_probes: a key on file is done, a failed start included.            *)
Probes == [Placement EXCEPT !.done = {"OK", "REQ_FAIL", "FAIL"}]

(* stack_test.py: done without an "error" of its own; slots are saved and  *)
(* restored outside any except; the pooled speed is printed even if None.  *)
Stack ==
    [wants |-> {Cell} \cup {{c} : c \in Cell}, done |-> {"OK", "REQ_FAIL", "SKIPPED"},
     answered |-> {2}, failed |-> {2}, silent |-> {1},
     stopped |-> {}, tripwire |-> {1}, finally |-> TRUE, port |-> FALSE]

(* roundbudget.py: run_cells, a leak on any cell stops the run.  Its       *)
(* run_cell is that of speed_recert.py, which is not in the repository,    *)
(* and is taken to be like cert35b_sweep.py's; so are the guard and the    *)
(* server's command line of nsys_round.py.                                 *)
Budget == [Placement EXCEPT !.done = {"OK", "REQ_FAIL"}, !.tripwire = Cell]

(* nsys_round.py: nothing is caught, nothing is stopped but at the end,    *)
(* and that by the port; analyse, which comes after, may time out, divide  *)
(* by an empty window or leave a mean that cannot be formatted.            *)
Nsys ==
    [Placement EXCEPT !.wants = {Cell} \cup {{c} : c \in Cell}, !.failed = Cell,
                      !.stopped = Cell, !.finally = FALSE, !.port = TRUE]

Policy ==
    [placement |-> Placement, depth |-> Depth, cell |-> OneCell, speed |-> Speed,
     xcheck |-> Xcheck, moe |-> Moe, probes |-> Probes, stack |-> Stack,
     roundbudget |-> Budget, nsys |-> Nsys]

ASSUME ConstantsAssumption ==
    /\ Drivers \subseteq DOMAIN Policy
    /\ NCells \in Nat \ {0} /\ Reps \in Nat \ {0} /\ MaxRuns \in Nat

VARIABLES driver,
          pc, want, cell,  \* where it is, the cells it is asked for, the cell it is at
          rec,             \* the record of that cell so far
          reqs,            \* requests made of its server
          results, file,   \* its results, those in its results file
          srv, cur,        \* the servers ever launched, the last of them
          unseen,          \* history: those left to themselves before they held memory
          runs, killed     \* invocations so far, whether one was killed

vars == <<driver, pc, want, cell, rec, reqs, results, file, srv, cur, unseen, runs, killed>>

NoRec == [status |-> "none", answered |-> FALSE, leak |-> FALSE, run |-> 0]
NoResults == [c \in Cell |-> NoRec]
Torn == [c \in Cell |-> [NoRec EXCEPT !.status = "torn"]]

Running == {"starting", "loading", "up"}
Holding == {s \in Server : srv[s] \in {"loading", "up", "dying"}}
Answers == \E s \in Server : srv[s] = "up"

Mine == Policy[driver]
Skips(r) == r.status \in Mine.done

------------------------------------------------------------------------------
Init ==
    /\ driver \in Drivers
    /\ pc = "down" /\ want = {} /\ cell = 0
    /\ rec = NoRec /\ reqs = 0
    /\ results = NoResults /\ file = NoResults
    /\ srv = [s \in Server |-> "unborn"] /\ cur = 0 /\ unseen = {}
    /\ runs = 0 /\ killed = FALSE

(* Mutant: results that cannot be read, or are from an earlier run, do not count. *)
StartAfresh(W) ==
    /\ pc = "down" /\ runs < MaxRuns
    /\ runs' = runs + 1
    /\ results' = NoResults
    /\ want' = W /\ cell' = 1
    /\ pc' = "cells"
    /\ UNCHANGED <<driver, rec, reqs, file, srv, cur, unseen, killed>>

(* main and the head of the mode's function; a torn file ends it at once. *)
Start(W) ==
    /\ pc = "down" /\ runs < MaxRuns
    /\ file # Torn
    /\ driver = "cell" => W = {runs + 1}
    /\ runs' = runs + 1
    /\ results' = file
    /\ want' = W /\ cell' = 1
    /\ pc' = "cells"
    /\ UNCHANGED <<driver, rec, reqs, file, srv, cur, unseen, killed>>

(* The head of the loop over the cells. *)
SkipCell ==
    /\ pc = "cells" /\ cell \in Cell
    /\ cell \notin want \/ Skips(results[cell])
    /\ cell' = cell + 1
    /\ UNCHANGED <<driver, pc, want, rec, reqs, results, file, srv, cur, unseen, runs, killed>>

Begin ==
    /\ pc = "cells" /\ cell \in want /\ ~Skips(results[cell])
    /\ rec' = [NoRec EXCEPT !.run = runs] /\ reqs' = 0
    /\ pc' = "guard"
    /\ UNCHANGED <<driver, want, cell, results, file, srv, cur, unseen, runs, killed>>

(* B+ needs a binary that may be missing. *)
NoBinary ==
    /\ pc = "cells" /\ driver = "stack" /\ cell = 2 /\ cell \in want /\ ~Skips(results[cell])
    /\ rec' = [NoRec EXCEPT !.run = runs, !.status = "SKIPPED"] /\ reqs' = 0
    /\ pc' = "record"
    /\ UNCHANGED <<driver, want, cell, results, file, srv, cur, unseen, runs, killed>>

AllDone ==
    /\ pc = "cells" /\ cell \notin Cell
    /\ pc' = "down"
    /\ UNCHANGED <<driver, want, cell, rec, reqs, results, file, srv, cur, unseen, runs, killed>>

Popen ==
    /\ cur' = cur + 1
    /\ srv' = [srv EXCEPT ![cur'] = "starting"]
    /\ pc' = "health"
    /\ UNCHANGED <<driver, want, cell, rec, reqs, results, file, unseen, runs, killed>>

(* Mutants: the guard lets an unreadable card pass; it never gives up. *)
GuardAnything ==
    /\ pc = "guard"
    /\ Popen

GuardForever ==
    /\ pc = "guard" /\ Holding = {}
    /\ Popen

(* guard: launch on an empty card, or give up after its tries.  (The       *)
(* model file is read into the page cache first, which cannot fail.)       *)
Guard ==
    /\ pc = "guard"
    /\ \/ Holding = {} /\ Popen
       \/ /\ Holding # {}
          /\ pc' = "down"
          /\ UNCHANGED <<driver, want, cell, rec, reqs, results, file, srv, cur, unseen, runs, killed>>

(* The wait for /health, which any server on the port may answer. *)
Healthy ==
    /\ pc = "health" /\ srv[cur] # "gone" /\ Answers
    /\ pc' = "fire"
    /\ UNCHANGED <<driver, want, cell, rec, reqs, results, file, srv, cur, unseen, runs, killed>>

(* The process has ended, or has been loading for too long. *)
NotHealthy ==
    /\ pc = "health" /\ srv[cur] \in {"gone", "loading"}
    /\ rec' = [rec EXCEPT !.status = "FAIL"]
    /\ pc' = IF Mine.finally /\ srv[cur] # "gone" THEN "stop" ELSE "record"
    /\ UNCHANGED <<driver, want, cell, reqs, results, file, srv, cur, unseen, runs, killed>>

(* One request and its answer; the last one of a cell is followed by stop. *)
Asked(r) ==
    /\ rec' = r
    /\ reqs' = reqs + 1
    /\ pc' = IF reqs' = Reps THEN "stop" ELSE "fire"
    /\ UNCHANGED <<driver, want, cell, results, file, srv, cur, unseen, runs, killed>>

Fire ==
    /\ pc = "fire" /\ Answers
    /\ \E think \in BOOLEAN :
          Asked([rec EXCEPT !.answered = TRUE, !.leak = @ \/ think])

(* It times out, or the server is gone. *)
FireFails ==
    /\ pc = "fire" /\ driver # "nsys"
    /\ Asked([rec EXCEPT !.status = "REQ_FAIL"])

(* A server that is left before it holds memory is one no guard will see. *)
LeftBehind == unseen' = unseen \cup {s \in Server : s = cur /\ srv[s] = "starting"}

(* Mutant: no finally around the requests. *)
FireRaisesUnguarded ==
    /\ pc = "fire"
    /\ cell \in (IF Answers THEN Mine.answered ELSE {}) \cup Mine.failed
    /\ rec' = [rec EXCEPT !.status = "raised"]
    /\ pc' = "down" /\ LeftBehind
    /\ UNCHANGED <<driver, want, cell, reqs, results, file, srv, cur, runs, killed>>

(* An exception that nothing catches; the finally stops the server. *)
FireRaises ==
    /\ pc = "fire"
    /\ cell \in (IF Answers THEN Mine.answered ELSE {}) \cup Mine.failed
    /\ rec' = [rec EXCEPT !.status = "raised"]
    /\ \/ Mine.finally /\ pc' = "stop" /\ UNCHANGED unseen
       \/ ~Mine.finally /\ pc' = "down" /\ LeftBehind
    /\ UNCHANGED <<driver, want, cell, reqs, results, file, srv, cur, runs, killed>>

(* A record that cannot be printed ends the run before it is on file. *)
Unprintable == cell \in Mine.silent /\ rec.status # "FAIL" /\ ~rec.answered

(* stop_server: SIGTERM and perhaps SIGKILL to its group, or to whatever   *)
(* is on the port.  The wait for the card is bounded, so it may end with   *)
(* memory still held.  What follows may raise, before the record.          *)
Stop ==
    /\ pc = "stop"
    /\ srv' = [s \in Server |-> IF srv[s] \in Running /\ (s = cur \/ Mine.port)
                                THEN "dying" ELSE srv[s]]
    /\ \/ pc' = "down" /\ (rec.status = "raised" \/ Unprintable \/ cell \in Mine.stopped)
       \/ pc' = "record" /\ rec.status # "raised" /\ ~Unprintable
    /\ UNCHANGED <<driver, want, cell, rec, reqs, results, file, cur, unseen, runs, killed>>

(* The cell's dictionary -- probes has one status for all that came up --  *)
(* and open(outf, "w").                                                    *)
Record ==
    /\ pc = "record"
    /\ LET ok == rec.status = "none" \/ (rec.status = "REQ_FAIL" /\ driver = "probes")
           r == [rec EXCEPT !.status = IF ok THEN "OK" ELSE @]
       IN rec' = r /\ results' = [results EXCEPT ![cell] = r]
    /\ file' = Torn
    /\ pc' = "dump"
    /\ UNCHANGED <<driver, want, cell, reqs, srv, cur, unseen, runs, killed>>

(* json.dump and the tripwires after it. *)
Dump ==
    /\ pc = "dump"
    /\ file' = results
    /\ pc' = IF rec.leak /\ cell \in Mine.tripwire THEN "down" ELSE "cells"
    /\ cell' = cell + 1
    /\ UNCHANGED <<driver, want, rec, reqs, results, srv, cur, unseen, runs, killed>>

Step ==
    \/ SkipCell
    \/ Begin
    \/ NoBinary
    \/ AllDone
    \/ Guard
    \/ Healthy
    \/ NotHealthy
    \/ Fire
    \/ FireFails
    \/ FireRaises
    \/ Stop
    \/ Record
    \/ Dump

(* Killed anywhere, or interrupted while it waits for its server. *)
Kill ==
    /\ pc # "down"
    /\ pc' = "down" /\ killed' = TRUE
    /\ LeftBehind
    /\ UNCHANGED <<driver, want, cell, rec, reqs, results, file, srv, cur, runs>>

------------------------------------------------------------------------------
(* llama-server: it takes its memory, loads, and answers unless the port   *)
(* is taken; it may end at any time, and memory is freed late.             *)
Becomes(s, st) ==
    /\ srv' = [srv EXCEPT ![s] = st]
    /\ UNCHANGED <<driver, pc, want, cell, rec, reqs, results, file, cur, unseen, runs, killed>>

Allocate(s) == srv[s] = "starting" /\ Becomes(s, "loading")

Serve(s) ==
    \/ srv[s] = "loading" /\ ~Answers /\ Becomes(s, "up")
    \/ srv[s] \in Running \cup {"dying"} /\ Becomes(s, "gone")

Next ==
    \/ \E W \in Mine.wants : Start(W)
    \/ Step
    \/ Kill
    \/ \E s \in Server : Allocate(s) \/ Serve(s)

Spec == Init /\ [][Next]_vars
FairSpec == Spec /\ WF_vars(Step) /\ WF_vars(\E s \in Server : Allocate(s))

------------------------------------------------------------------------------
(* A cell is measured with the card to itself: whatever was killed or did  *)
(* not come up, raised or was slow to die before, while requests are made  *)
(* the only server with memory is the cell's own, so its /health and its   *)
(* answers are its own too -- but for servers that were left to themselves *)
(* before they held memory, which the guard cannot see.                    *)
MeasuredAlone == pc = "fire" => Holding \subseteq {cur} \cup unseen

(* Whatever replaces the file keeps every cell that is complete in it, as  *)
(* it was measured, and an invocation that runs to its end has tried each  *)
(* failed start it was asked for again; depth measures anew by design, and *)
(* probes takes a failed start for done.                                   *)
ResumeKeepsAndRetries ==
    [][/\ \A c \in Cell :
             driver # "depth" /\ file[c].status = "OK" /\ file' # file => results'[c] = file[c]
       /\ file' \in {file, Torn, results}
       /\ AllDone => \A c \in want :
             file[c].status = "FAIL" => file[c].run = runs \/ driver = "probes"]_vars

(* Unless it is killed, a driver ends with its servers stopped, whichever  *)
(* start or request failed and whichever exception ended it; nsys_round.py *)
(* has no such finally.                                                    *)
NoOrphanWithoutAKill ==
    pc = "down" /\ ~killed /\ Mine.finally => \A s \in Server : srv[s] \notin Running

(* Every invocation ends, although an orphan may hold the card for ever,   *)
(* servers may never come up and nothing makes them die.                   *)
SweepEnds == pc # "down" ~> pc = "down"

==============================================================================
