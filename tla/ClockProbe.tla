----------------------------- MODULE ClockProbe -----------------------------
(***************************************************************************)
(* oc_probe.py: every arm is a clock state of the card, set with           *)
(* nvidia-smi, under which llama-bench and, for some arms, a server cell   *)
(* are measured.  The records go to oc_probe.json after every arm, an arm  *)
(* whose acceptance drops too far below the stock arm's stops the probe,   *)
(* and a finally block puts the clocks back.  The card keeps its clock     *)
(* state, and a server or a benchmark keeps running, when the probe is     *)
(* killed (no finally) and started again with other --arms.                *)
(***************************************************************************)
EXTENDS Integers, Sequences

CONSTANTS ARMS,        \* [pl, lgc, lmc] of each arm, 0: no lock; the first is A_stock
          Wants,       \* the sets of arms --arms selects
          ServerArms,  \* the sets of arms --server-arms selects
          Depths,      \* number of --depths
          MaxRuns      \* bound: the number of invocations

Arm == 1..Len(ARMS)
Stock == 1

ASSUME ConstantsAssumption ==
    /\ ARMS \in Seq([pl : Nat, lgc : Nat, lmc : Nat]) /\ Len(ARMS) > 0
    /\ \A S \in Wants \cup ServerArms : S \subseteq Arm
    /\ Depths \in Nat /\ MaxRuns \in Nat

VARIABLES card,       \* the clock state nvidia-smi has set
          launched,   \* the benchmarks and servers that hold no memory of the card yet
          onGpu,      \* those that do
          unseen,     \* history: those left to themselves before they held any
          file,       \* oc_probe.json
          results,    \* the probe's own results
          pc, todo,   \* where the probe is, the nvidia-smi commands it still has to run
          want, servers, arm,   \* --arms, --server-arms, the arm it is at
          stock,      \* stock_acc
          rec,        \* the record of this arm
          runs        \* invocations so far

args == <<want, servers>>
procs == <<launched, onGpu, unseen>>
vars == <<card, procs, file, results, pc, todo, args, arm, stock, rec, runs>>

Settings == {"pm", "pl", "lgc", "lmc"}
Factory == [pm |-> 0, pl |-> 170, lgc |-> 0, lmc |-> 0]
NoRec == [run |-> 0, under |-> {}, benches |-> 0, acc |-> "none", unstable |-> FALSE]
NoResults == [recs |-> [a \in Arm |-> NoRec], revert |-> "none"]
Torn == [recs |-> [a \in Arm |-> NoRec], revert |-> "torn"]

(* Mutant: an earlier lock is not reset. *)
ApplyOver(a) ==
    <<[set |-> "pm", to |-> 1], [set |-> "pl", to |-> ARMS[a].pl]>>
    \o (IF ARMS[a].lgc = 0 THEN <<>> ELSE <<[set |-> "lgc", to |-> ARMS[a].lgc]>>)
    \o (IF ARMS[a].lmc = 0 THEN <<>> ELSE <<[set |-> "lmc", to |-> ARMS[a].lmc]>>)

(* apply_arm: -pm, -rgc, -rmc, -pl, and the locks the arm asks for. *)
Apply(a) ==
    <<[set |-> "pm", to |-> 1], [set |-> "lgc", to |-> 0],
      [set |-> "lmc", to |-> 0], [set |-> "pl", to |-> ARMS[a].pl]>>
    \o (IF ARMS[a].lgc = 0 THEN <<>> ELSE <<[set |-> "lgc", to |-> ARMS[a].lgc]>>)
    \o (IF ARMS[a].lmc = 0 THEN <<>> ELSE <<[set |-> "lmc", to |-> ARMS[a].lmc]>>)

(* Mutant: the memory clock stays locked. *)
RevertSome == <<[set |-> "lgc", to |-> 0], [set |-> "pl", to |-> 170]>>

RevertAll ==
    <<[set |-> "lgc", to |-> 0], [set |-> "lmc", to |-> 0], [set |-> "pl", to |-> 170]>>

------------------------------------------------------------------------------
Init ==
    /\ card = Factory
    /\ launched = {} /\ onGpu = {} /\ unseen = {}
    /\ file = NoResults /\ results = NoResults
    /\ pc = "down" /\ todo = <<>>
    /\ want = {} /\ servers = {} /\ arm = 0
    /\ stock = "none"
    /\ rec = NoRec
    /\ runs = 0

Finally == pc' = "revert" /\ todo' = RevertAll

(* The next arm of ARMS that is wanted, or the finally block. *)
NextArm(S, a) ==
    LET rest == {b \in S : b > a} IN
    \/ rest = {} /\ Finally /\ UNCHANGED <<arm, rec>>
    \/ \E b \in rest :
          /\ \A c \in rest : b <= c
          /\ arm' = b
          /\ pc' = "apply"
          /\ todo' = Apply(b)
          /\ rec' = NoRec

(* main up to the first arm; json.load raises on a torn file. *)
Start(S, T) ==
    /\ pc = "down" /\ runs < MaxRuns
    /\ file # Torn
    /\ runs' = runs + 1
    /\ results' = file
    /\ want' = S /\ servers' = T
    /\ stock' = "none"
    /\ NextArm(S, 0)
    /\ UNCHANGED <<card, procs, file>>

(* One nvidia-smi command of apply_arm. *)
ApplyCommand ==
    /\ pc = "apply"
    /\ IF todo = <<>>
       THEN pc' = "bench" /\ UNCHANGED <<card, todo>>
       ELSE /\ card' = [card EXCEPT ![Head(todo).set] = Head(todo).to]
            /\ todo' = Tail(todo)
            /\ UNCHANGED pc
    /\ UNCHANGED <<procs, file, results, args, arm, stock, rec, runs>>

(* A benchmark or a server of this invocation, and the one that is running. *)
Own(kind) == [run |-> runs, kind |-> kind]
Mine == {Own("bench"), Own("server")}
Measuring ==
    CASE pc = "benching" -> {Own("bench")}
      [] pc \in {"starting", "serving"} -> {Own("server")}
      [] OTHER -> {}

Launch(kind) ==
    /\ launched' = launched \cup {Own(kind)}
    /\ UNCHANGED <<card, onGpu, unseen, file, results, todo, args, arm, stock, rec, runs>>

(* Mutant: no guard. *)
BenchAtOnce ==
    /\ pc = "bench" /\ rec.benches < Depths
    /\ pc' = "benching"
    /\ Launch("bench")

(* guard, which sees memory and no processes, then llama-bench.  It gives  *)
(* up with sys.exit: see Raise.                                            *)
Bench ==
    /\ pc = "bench" /\ rec.benches < Depths
    /\ onGpu = {}
    /\ pc' = "benching"
    /\ Launch("bench")

(* A process takes its memory; one that is left to itself does so too. *)
Load(p) ==
    /\ p \in launched
    /\ launched' = launched \ {p}
    /\ onGpu' = onGpu \cup {p}
    /\ UNCHANGED <<card, unseen, file, results, pc, todo, args, arm, stock, rec, runs>>

Stopped ==
    /\ launched' = launched \ Mine
    /\ onGpu' = onGpu \ Mine
    /\ UNCHANGED unseen

LeftBehind ==
    /\ unseen' = unseen \cup (launched \cap Mine)
    /\ UNCHANGED <<launched, onGpu>>

(* A bench that fails is recorded like one that does not. *)
BenchDone ==
    /\ pc = "benching"
    /\ Stopped
    /\ rec' = [rec EXCEPT !.benches = @ + 1, !.under = @ \cup {card}]
    /\ pc' = "bench"
    /\ UNCHANGED <<card, file, results, todo, args, arm, stock, runs>>

(* start_server: guard and Popen. *)
Cell ==
    /\ pc = "bench" /\ rec.benches = Depths
    /\ arm \in servers
    /\ onGpu = {}
    /\ pc' = "starting"
    /\ Launch("server")

(* /health, which any server on the port may answer.                       *)
CellUp ==
    /\ pc = "starting"
    /\ \E p \in onGpu : p.kind = "server"
    /\ pc' = "serving"
    /\ UNCHANGED <<card, procs, file, results, todo, args, arm, stock, rec, runs>>

(* A server that ends or never answers is a FAIL. *)
CellFails ==
    /\ pc = "starting"
    /\ Stopped
    /\ pc' = "judge"
    /\ UNCHANGED <<card, file, results, todo, args, arm, stock, rec, runs>>

(* The requests and stop_server.  Without a pooled acceptance the summary  *)
(* line cannot be printed: see Raise.                                      *)
CellDone(acc) ==
    /\ pc = "serving"
    /\ arm = Stock => acc = "good"
    /\ Stopped
    /\ rec' = [rec EXCEPT !.acc = acc, !.under = @ \cup {card}]
    /\ pc' = "judge"
    /\ UNCHANGED <<card, file, results, todo, args, arm, stock, runs>>

NoCell ==
    /\ pc = "bench" /\ rec.benches = Depths
    /\ arm \notin servers
    /\ pc' = "judge"
    /\ UNCHANGED <<card, procs, file, results, todo, args, arm, stock, rec, runs>>

(* The tripwire, and open(outf, "w"). *)
Judge ==
    /\ pc = "judge"
    /\ stock' = IF arm = Stock THEN rec.acc ELSE stock
    /\ LET unstable == arm # Stock /\ stock = "good" /\ rec.acc = "low" IN
       results' = [results EXCEPT !.recs[arm] = [rec EXCEPT !.run = runs, !.unstable = unstable]]
    /\ file' = Torn
    /\ pc' = "dump"
    /\ UNCHANGED <<card, procs, todo, args, arm, rec, runs>>

(* Mutant: an unstable arm does not stop the probe. *)
DumpAndGoOn ==
    /\ pc = "dump"
    /\ file' = results
    /\ NextArm(want, arm)
    /\ UNCHANGED <<card, procs, results, args, stock, runs>>

(* json.dump; an unstable arm is the last. *)
Dump ==
    /\ pc = "dump"
    /\ file' = results
    /\ IF results.recs[arm].unstable THEN Finally /\ UNCHANGED <<arm, rec>> ELSE NextArm(want, arm)
    /\ UNCHANGED <<card, procs, results, args, stock, runs>>

InTry == pc \in {"apply", "bench", "benching", "starting", "serving", "judge", "dump"}

(* A failed command, the guard's sys.exit, a timeout, a missing acceptance *)
(* or Ctrl-C: the outer finally reverts, and the inner one stops the       *)
(* server, unless it is still waited for in start_server.                  *)
Raise ==
    /\ InTry
    /\ Finally
    /\ IF pc = "starting" THEN LeftBehind ELSE Stopped
    /\ UNCHANGED <<card, file, results, args, arm, stock, rec, runs>>

(* revert_all: a command that fails is noted, the next is run.             *)
RevertCommand(ok) ==
    /\ pc = "revert" /\ todo # <<>>
    /\ card' = IF ok THEN [card EXCEPT ![Head(todo).set] = Head(todo).to] ELSE card
    /\ results' = [results EXCEPT !.revert =
                     IF ok /\ (Len(todo) = Len(RevertAll) \/ @ = "clean") THEN "clean" ELSE "errors"]
    /\ todo' = Tail(todo)
    /\ UNCHANGED <<procs, file, pc, args, arm, stock, rec, runs>>

(* clock_state() verifies, and open(outf, "w"); or clock_state raises. *)
Verify(ok) ==
    /\ pc = "revert" /\ todo = <<>>
    /\ IF ok THEN pc' = "final" /\ file' = Torn ELSE pc' = "down" /\ UNCHANGED file
    /\ UNCHANGED <<card, procs, results, todo, args, arm, stock, rec, runs>>

FinalDump ==
    /\ pc = "final"
    /\ file' = results
    /\ pc' = "down"
    /\ UNCHANGED <<card, procs, results, todo, args, arm, stock, rec, runs>>

(* SIGTERM or SIGKILL, at any point: neither finally block runs, and what  *)
(* was launched goes on.                                                   *)
Kill ==
    /\ pc # "down"
    /\ pc' = "down"
    /\ LeftBehind
    /\ UNCHANGED <<card, file, results, todo, args, arm, stock, rec, runs>>

(* A benchmark that was left ends, a server is stopped by hand. *)
OrphanGone(p) ==
    /\ p \in (launched \cup onGpu) \ Measuring
    /\ launched' = launched \ {p} /\ onGpu' = onGpu \ {p}
    /\ UNCHANGED <<card, unseen, file, results, pc, todo, args, arm, stock, rec, runs>>

Next ==
    \/ \E S \in Wants, T \in ServerArms : Start(S, T)
    \/ ApplyCommand \/ Bench \/ BenchDone \/ Cell \/ CellUp \/ CellFails \/ NoCell \/ Judge \/ Dump
    \/ \E acc \in {"good", "low"} : CellDone(acc)
    \/ Raise
    \/ \E ok \in BOOLEAN : RevertCommand(ok) \/ Verify(ok)
    \/ FinalDump \/ Kill
    \/ \E p \in launched \cup onGpu : Load(p) \/ OrphanGone(p)

Spec == Init /\ [][Next]_vars

------------------------------------------------------------------------------
(* Properties *)

(* Whatever an earlier invocation left on the card when it was killed or   *)
(* could not revert, every measurement on record was made under its own    *)
(* arm's power limit and locks and no other's ("every arm is a clock       *)
(* state").                                                                *)
Locks(c) == [pl |-> c.pl, lgc |-> c.lgc, lmc |-> c.lmc]
MeasuredUnderItsArm ==
    \A a \in Arm : \A c \in results.recs[a].under \cup file.recs[a].under : Locks(c) = ARMS[a]

(* Whatever is left over from other invocations, all that shares the card  *)
(* with a benchmark or a server cell had been launched but held no memory  *)
(* when its invocation was killed, or interrupted in start_server: the     *)
(* guard, which looks at memory, cannot see it, and waits for all else.    *)
MeasuredAlone == Measuring # {} => onGpu \subseteq Measuring \cup unseen

(* The finally block ends with the locks gone and the power limit back     *)
(* from wherever the probe left the arms, unless it reports an error.      *)
RevertUndoesTheArm ==
    pc = "final" /\ results.revert = "clean" => Locks(card) = Locks(Factory)

(* "all clock state is reverted at once": no arm is applied or measured    *)
(* after the one that this invocation marked unstable.                     *)
UnstableIsTheLast ==
    pc # "down" =>
        \A a \in Arm : results.recs[a].unstable /\ results.recs[a].run = runs =>
            arm = a /\ pc \in {"dump", "revert", "final"}

==============================================================================
