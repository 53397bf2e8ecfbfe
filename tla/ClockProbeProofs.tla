-------------------------- MODULE ClockProbeProofs --------------------------
(***************************************************************************)
(* Proofs about ClockProbe, for any arms, any selections of them and any   *)
(* number of invocations: only what no guard could see shares the card     *)
(* with a measurement, every measurement is made under the clocks of its   *)
(* arm, the finally block undoes them, and nothing is measured after an    *)
(* unstable arm.                                                           *)
(***************************************************************************)
EXTENDS ClockProbe, SequenceTheorems, TLAPS

Clocks == [Settings -> Nat]
Commands == [set : Settings, to : Nat]
Recs == [run : Nat, under : SUBSET Clocks, benches : Nat, acc : {"none", "good", "low"},
         unstable : BOOLEAN]
Files == [recs : [Arm -> Recs], revert : {"none", "torn", "clean", "errors"}]
Trying == {"apply", "bench", "benching", "starting", "serving", "judge", "dump"}

TypeInv ==
    /\ card \in Clocks
    /\ file \in Files /\ results \in Files
    /\ pc \in {"down", "revert", "final"} \cup Trying
    /\ todo \in Seq(Commands)
    /\ want \subseteq Arm /\ servers \subseteq Arm
    /\ arm \in Nat /\ (pc \in Trying => arm \in Arm)
    /\ rec \in Recs
    /\ runs \in Nat

\* An arm's settings are a power limit and two locks.
LEMMA ArmTypes ==
    ASSUME NEW a \in Arm
    PROVE  /\ ARMS[a] \in [pl : Nat, lgc : Nat, lmc : Nat]
           /\ ARMS[a].pl \in Nat /\ ARMS[a].lgc \in Nat /\ ARMS[a].lmc \in Nat
  <1> DEFINE R == [pl : Nat, lgc : Nat, lmc : Nat]
  <1>1. ARMS[a] \in R
    <2>1. ARMS \in Seq(R) /\ a \in 1..Len(ARMS)
      BY ConstantsAssumption DEF Arm
    <2> HIDE DEF R
    <2> QED BY <2>1
  <1> QED BY <1>1

(* A list of commands that leaves a setting at a value, and one that does  *)
(* not touch it.                                                           *)
Silent(s, x) == \A k \in 1..Len(s) : s[k].set # x
Leaves(s, x, v) ==
    \E i \in 1..Len(s) : /\ s[i].set = x /\ s[i].to = v
                         /\ \A k \in 1..Len(s) : k > i => s[k].set # x

\* What a list leaves is what its end leaves.
LEMMA LeavesConcat ==
    ASSUME NEW s \in Seq(Commands), NEW t \in Seq(Commands), NEW x, NEW v,
           Leaves(t, x, v) \/ (Leaves(s, x, v) /\ Silent(t, x))
    PROVE  Leaves(s \o t, x, v)
  <1> DEFINE st == s \o t
  <1>1. /\ Len(s) \in Nat /\ Len(t) \in Nat /\ Len(st) = Len(s) + Len(t)
        /\ \A i \in 1..(Len(s) + Len(t)) : st[i] = IF i <= Len(s) THEN s[i] ELSE t[i - Len(s)]
    BY ConcatProperties
  <1> HIDE DEF st
  <1>2. CASE Leaves(t, x, v)
    <2>1. PICK i \in 1..Len(t) : t[i].set = x /\ t[i].to = v
                                /\ \A k \in 1..Len(t) : k > i => t[k].set # x
      BY <1>2 DEF Leaves
    <2>2. i + Len(s) \in 1..Len(st) /\ st[i + Len(s)] = t[i]
      BY <1>1
    <2>3. \A k \in 1..Len(st) : k > i + Len(s) =>
              k - Len(s) \in 1..Len(t) /\ k - Len(s) > i /\ st[k] = t[k - Len(s)]
      BY <1>1
    <2> QED BY <2>1, <2>2, <2>3 DEF Leaves, st
  <1>3. CASE Leaves(s, x, v) /\ Silent(t, x)
    <2>1. PICK i \in 1..Len(s) : s[i].set = x /\ s[i].to = v
                                /\ \A k \in 1..Len(s) : k > i => s[k].set # x
      BY <1>3 DEF Leaves
    <2>2. i \in 1..Len(st) /\ st[i] = s[i]
      BY <1>1
    <2>3. \A k \in 1..Len(st) : \/ k \in 1..Len(s) /\ st[k] = s[k]
                                \/ k - Len(s) \in 1..Len(t) /\ st[k] = t[k - Len(s)]
      BY <1>1
    <2>4. \A k \in 1..Len(st) : k > i => st[k].set # x
      BY <2>1, <2>3, <1>3 DEF Silent
    <2> QED BY <2>1, <2>2, <2>4 DEF Leaves, st
  <1> QED BY <1>2, <1>3

(* apply_arm: the resets and the power limit, then the locks the arm has.  *)
Base(a) ==
    <<[set |-> "pm", to |-> 1], [set |-> "lgc", to |-> 0],
      [set |-> "lmc", to |-> 0], [set |-> "pl", to |-> ARMS[a].pl]>>
Lock(x, v) == IF v = 0 THEN <<>> ELSE <<[set |-> x, to |-> v]>>

\* The resets leave everything unlocked, and the power limit the arm's.
LEMMA BaseLeaves ==
    ASSUME NEW a \in Arm
    PROVE  /\ Base(a) \in Seq(Commands)
           /\ Leaves(Base(a), "pl", ARMS[a].pl)
           /\ Leaves(Base(a), "lgc", 0) /\ Leaves(Base(a), "lmc", 0)
  <1>1. ARMS[a].pl \in Nat
    BY ArmTypes
  <1>2. /\ Len(Base(a)) = 4
        /\ Base(a)[1] = [set |-> "pm", to |-> 1] /\ Base(a)[2] = [set |-> "lgc", to |-> 0]
        /\ Base(a)[3] = [set |-> "lmc", to |-> 0] /\ Base(a)[4] = [set |-> "pl", to |-> ARMS[a].pl]
    BY DEF Base
  <1>3. Base(a) \in Seq(Commands)
    BY <1>1 DEF Base, Commands, Settings
  <1>4. \A k \in 1..4 : k = 1 \/ k = 2 \/ k = 3 \/ k = 4
    OBVIOUS
  <1>5. Leaves(Base(a), "pl", ARMS[a].pl)
    BY <1>2, <1>4 DEF Leaves
  <1>6. Leaves(Base(a), "lgc", 0)
    <2>1. \A k \in 1..4 : k > 2 => Base(a)[k].set # "lgc"
      BY <1>2, <1>4
    <2> QED BY <1>2, <2>1 DEF Leaves
  <1>7. Leaves(Base(a), "lmc", 0)
    <2>1. \A k \in 1..4 : k > 3 => Base(a)[k].set # "lmc"
      BY <1>2, <1>4
    <2> QED BY <1>2, <2>1 DEF Leaves
  <1> QED BY <1>3, <1>5, <1>6, <1>7

\* A lock that the arm has is left locked, and nothing else is touched.
LEMMA LockLeaves ==
    ASSUME NEW x \in Settings, NEW v \in Nat
    PROVE  /\ Lock(x, v) \in Seq(Commands)
           /\ v # 0 => Leaves(Lock(x, v), x, v)
           /\ v = 0 => Silent(Lock(x, v), x)
           /\ \A y : y # x => Silent(Lock(x, v), y)
  <1>1. CASE v = 0
    BY <1>1 DEF Lock, Silent
  <1>2. CASE v # 0
    <2>1. [set |-> x, to |-> v] \in Commands
      BY DEF Commands
    <2>2. Lock(x, v) \in Seq(Commands) /\ Len(Lock(x, v)) = 1
          /\ Lock(x, v)[1] = [set |-> x, to |-> v]
      BY <1>2, <2>1 DEF Lock
    <2> QED BY <1>2, <2>2 DEF Leaves, Silent
  <1> QED BY <1>1, <1>2

(* What apply_arm leaves, whatever was set before, is the arm.             *)
LEMMA ApplyLeaves ==
    ASSUME NEW a \in Arm
    PROVE  /\ Apply(a) \in Seq(Commands)
           /\ Leaves(Apply(a), "pl", ARMS[a].pl)
           /\ Leaves(Apply(a), "lgc", ARMS[a].lgc)
           /\ Leaves(Apply(a), "lmc", ARMS[a].lmc)
  <1> DEFINE B == Base(a)
             G == Lock("lgc", ARMS[a].lgc)
             M == Lock("lmc", ARMS[a].lmc)
  <1>1. Apply(a) = (B \o G) \o M
    BY DEF Apply, Base, Lock
  <1>2. /\ G \in Seq(Commands) /\ M \in Seq(Commands)
        /\ ARMS[a].lgc # 0 => Leaves(G, "lgc", ARMS[a].lgc)
        /\ ARMS[a].lgc = 0 => Silent(G, "lgc")
        /\ Silent(G, "pl") /\ Silent(G, "lmc")
        /\ ARMS[a].lmc # 0 => Leaves(M, "lmc", ARMS[a].lmc)
        /\ ARMS[a].lmc = 0 => Silent(M, "lmc")
        /\ Silent(M, "pl") /\ Silent(M, "lgc")
    <2>1. "lgc" \in Settings /\ "lmc" \in Settings
      BY DEF Settings
    <2> QED BY <2>1, LockLeaves, ArmTypes
  <1>3. /\ B \in Seq(Commands) /\ Leaves(B, "pl", ARMS[a].pl)
        /\ Leaves(B, "lgc", 0) /\ Leaves(B, "lmc", 0)
    BY BaseLeaves
  <1> HIDE DEF B, G, M
  <1>4. B \o G \in Seq(Commands) /\ (B \o G) \o M \in Seq(Commands)
    BY <1>2, <1>3, ConcatProperties
  <1>5. /\ Leaves(B \o G, "pl", ARMS[a].pl) /\ Leaves(B \o G, "lgc", ARMS[a].lgc)
        /\ Leaves(B \o G, "lmc", 0)
    BY <1>2, <1>3, LeavesConcat
  <1>6. /\ Leaves((B \o G) \o M, "pl", ARMS[a].pl) /\ Leaves((B \o G) \o M, "lgc", ARMS[a].lgc)
        /\ Leaves((B \o G) \o M, "lmc", ARMS[a].lmc)
    BY <1>2, <1>4, <1>5, LeavesConcat
  <1> QED BY <1>1, <1>4, <1>6

\* Commands are commands.
LEMMA CommandTypes ==
    /\ \A a \in Arm : Apply(a) \in Seq(Commands)
    /\ RevertAll \in Seq(Commands)
  <1>1. RevertAll \in Seq(Commands)
    BY DEF RevertAll, Commands, Settings
  <1> QED BY <1>1, ApplyLeaves

\* What a measurement adds to a record leaves it a record.
LEMMA MeasuredRecord ==
    ASSUME NEW r \in Recs, NEW n \in Nat, NEW u \in SUBSET Clocks, NEW acc \in {"none", "good", "low"}
    PROVE  /\ [r EXCEPT !.benches = n, !.under = u] \in Recs
           /\ [r EXCEPT !.acc = acc, !.under = u] \in Recs
  BY DEF Recs

\* The empty record, the empty results and a torn file.
LEMMA RecordTypes == NoRec \in Recs /\ NoResults \in Files /\ Torn \in Files
  <1>1. NoRec \in Recs
    BY DEF NoRec, Recs
  <1> QED BY <1>1 DEF NoResults, Torn, Files

\* The variables have their types at first.
LEMMA TypeInit == Init => TypeInv
  BY RecordTypes DEF Init, TypeInv, Factory, Clocks, Settings, Trying

\* An arm that is begun, or the finally block.
LEMMA NextArmType ==
    ASSUME NEW S \in SUBSET Arm, NEW a, NextArm(S, a), TypeInv
    PROVE  /\ todo' \in Seq(Commands) /\ rec' \in Recs /\ arm' \in Nat
           /\ pc' \in {"apply", "revert"} /\ (pc' = "apply" => arm' \in Arm)
  <1>1. CASE Finally /\ UNCHANGED <<arm, rec>>
    BY <1>1, CommandTypes DEF Finally, TypeInv
  <1>2. ASSUME NEW b \in S, arm' = b, pc' = "apply", todo' = Apply(b), rec' = NoRec
        PROVE  /\ todo' \in Seq(Commands) /\ rec' \in Recs /\ arm' \in Nat
               /\ pc' \in {"apply", "revert"} /\ (pc' = "apply" => arm' \in Arm)
    <2>1. b \in Arm /\ b \in Nat
      BY DEF Arm
    <2> QED BY <1>2, <2>1, CommandTypes, RecordTypes
  <1> QED BY <1>1, <1>2 DEF NextArm

\* An nvidia-smi command leaves a clock state and a shorter list.
LEMMA CommandStep ==
    ASSUME TypeInv, todo # <<>>
    PROVE  /\ Head(todo) \in Commands /\ Tail(todo) \in Seq(Commands)
           /\ [card EXCEPT ![Head(todo).set] = Head(todo).to] \in Clocks
           /\ Len(Tail(todo)) = Len(todo) - 1
           /\ \A i \in 1..Len(Tail(todo)) : Tail(todo)[i] = todo[i + 1]
  <1>1. Head(todo) \in Commands /\ Tail(todo) \in Seq(Commands) /\ Len(Tail(todo)) = Len(todo) - 1
        /\ \A i \in 1..Len(Tail(todo)) : Tail(todo)[i] = todo[i + 1]
    BY DEF TypeInv
  <1>2. Head(todo).to \in Nat
    BY <1>1 DEF Commands
  <1> QED BY <1>1, <1>2 DEF TypeInv, Clocks

\* Every step keeps the types.
LEMMA TypeStep == TypeInv /\ [Next]_vars => TypeInv'
  <1> SUFFICES ASSUME TypeInv, [Next]_vars PROVE TypeInv'
    OBVIOUS
  <1> USE DEF Trying
  <1>1. ASSUME NEW S \in Wants, NEW T \in ServerArms, Start(S, T) PROVE TypeInv'
    <2>1. S \subseteq Arm /\ T \subseteq Arm
      BY ConstantsAssumption
    <2>2. NextArm(S, 0)
      BY <1>1 DEF Start
    <2> QED BY <1>1, <2>1, <2>2, NextArmType DEF Start, TypeInv
  <1>2. CASE ApplyCommand
    <2>1. CASE todo = <<>>
      BY <1>2, <2>1 DEF ApplyCommand, TypeInv, args
    <2>2. CASE todo # <<>>
      BY <1>2, <2>2, CommandStep DEF ApplyCommand, TypeInv, args
    <2> QED BY <2>1, <2>2
  <1>3. CASE Bench \/ NoCell \/ Cell \/ CellUp \/ CellFails
    BY <1>3 DEF Bench, NoCell, Cell, CellUp, CellFails, Launch, TypeInv, args
  <1>4. CASE BenchDone
    <2>1. rec.benches + 1 \in Nat /\ rec.under \cup {card} \in SUBSET Clocks
      <3>1. rec.benches \in Nat /\ rec.under \in SUBSET Clocks
        BY DEF TypeInv, Recs
      <3> QED BY <3>1 DEF TypeInv
    <2>2. rec' \in Recs
      BY <1>4, <2>1, MeasuredRecord DEF BenchDone, TypeInv
    <2> QED BY <1>4, <2>2 DEF BenchDone, TypeInv, args
  <1>5. ASSUME NEW acc \in {"good", "low"}, CellDone(acc) PROVE TypeInv'
    <2>1. rec.under \cup {card} \in SUBSET Clocks
      BY DEF TypeInv, Recs
    <2>2. rec' \in Recs
      BY <1>5, <2>1, MeasuredRecord DEF CellDone, TypeInv
    <2> QED BY <1>5, <2>2 DEF CellDone, TypeInv, args
  <1>6. CASE Judge
    <2> DEFINE u == arm # Stock /\ stock = "good" /\ rec.acc = "low"
    <2>1. u \in BOOLEAN
      OBVIOUS
    <2>2. [rec EXCEPT !.run = runs, !.unstable = u] \in Recs
      <3> HIDE DEF u
      <3> QED BY <2>1 DEF TypeInv, Recs
    <2>3. results' = [results EXCEPT !.recs[arm] = [rec EXCEPT !.run = runs, !.unstable = u]]
      BY <1>6 DEF Judge
    <2>4. results' \in Files
      <3> HIDE DEF u
      <3> QED BY <2>2, <2>3 DEF TypeInv, Files
    <2> QED BY <1>6, <2>4, RecordTypes DEF Judge, TypeInv, args
  <1>7. CASE Dump
    <2>1. CASE Finally /\ UNCHANGED <<arm, rec>>
      BY <1>7, <2>1, CommandTypes DEF Dump, Finally, TypeInv, args
    <2>2. CASE NextArm(want, arm)
      <3>1. want \in SUBSET Arm
        BY DEF TypeInv
      <3> QED BY <1>7, <2>2, <3>1, NextArmType DEF Dump, TypeInv, args
    <2> QED BY <1>7, <2>1, <2>2 DEF Dump
  <1>8. CASE Raise
    BY <1>8, CommandTypes DEF Raise, Finally, TypeInv, args
  <1>9. ASSUME NEW ok \in BOOLEAN, RevertCommand(ok) PROVE TypeInv'
    <2>1. results' \in Files
      BY <1>9 DEF RevertCommand, TypeInv, Files
    <2>2. card' \in Clocks /\ todo' \in Seq(Commands)
      BY <1>9, CommandStep DEF RevertCommand, TypeInv
    <2> QED BY <1>9, <2>1, <2>2 DEF RevertCommand, TypeInv, args
  <1>10. ASSUME NEW ok \in BOOLEAN, Verify(ok) PROVE TypeInv'
    BY <1>10, RecordTypes DEF Verify, TypeInv, args
  <1>11. CASE FinalDump \/ Kill \/ \E p \in launched \cup onGpu : Load(p) \/ OrphanGone(p)
    BY <1>11 DEF FinalDump, Kill, Load, OrphanGone, TypeInv, args
  <1>12. CASE UNCHANGED vars
    BY <1>12 DEF vars, args, TypeInv
  <1> QED
    BY <1>1, <1>2, <1>3, <1>4, <1>5, <1>6, <1>7, <1>8, <1>9, <1>10, <1>11, <1>12 DEF Next

\* The types hold in every reachable state.
LEMMA TypeInvariant == Spec => []TypeInv
  BY TypeInit, TypeStep, PTL DEF Spec

------------------------------------------------------------------------------
(* What runs without memory is the measurement's own or had been left to   *)
(* itself before it had any, so that what takes memory is of these too.    *)
Accounted ==
    /\ launched \subseteq Measuring \cup unseen
    /\ MeasuredAlone

\* No process runs before the first invocation.
LEMMA AccountedInit == Init => Accounted
  BY DEF Init, Accounted, MeasuredAlone, Measuring

\* Every step keeps the account of the processes.
LEMMA AccountedStep == Accounted /\ [Next]_vars => Accounted'
  <1> SUFFICES ASSUME Accounted, [Next]_vars PROVE Accounted'
    OBVIOUS
  <1> USE DEF Accounted, MeasuredAlone, Measuring, Mine, Own
  <1>1. ASSUME NEW S \in Wants, NEW T \in ServerArms, Start(S, T) PROVE Accounted'
    <2>1. pc = "down" /\ pc' \in {"apply", "revert"} /\ UNCHANGED procs
      BY <1>1 DEF Start, NextArm, Finally
    <2> QED BY <2>1 DEF procs
  <1>2. CASE Bench \/ Cell
    BY <1>2 DEF Bench, Cell, Launch
  <1>3. CASE CellUp
    BY <1>3 DEF CellUp, procs
  <1>4. CASE BenchDone \/ CellFails \/ \E acc \in {"good", "low"} : CellDone(acc)
    BY <1>4 DEF BenchDone, CellFails, CellDone, Stopped
  <1>5. CASE Raise
    <2>1. pc' = "revert" /\ runs' = runs
      BY <1>5 DEF Raise, Finally
    <2> QED BY <1>5, <2>1 DEF Raise, Stopped, LeftBehind
  <1>6. CASE Kill
    BY <1>6 DEF Kill, LeftBehind
  <1>7. ASSUME NEW p \in launched \cup onGpu, Load(p) \/ OrphanGone(p) PROVE Accounted'
    BY <1>7 DEF Load, OrphanGone
  <1>8. ASSUME UNCHANGED procs, pc \notin {"benching", "starting", "serving"},
               pc' \notin {"benching", "starting", "serving"}
        PROVE  Accounted'
    BY <1>8 DEF procs
  <1>9. CASE ApplyCommand \/ NoCell \/ Judge \/ FinalDump
    BY <1>8, <1>9 DEF ApplyCommand, NoCell, Judge, FinalDump
  <1>10. CASE Dump
    BY <1>8, <1>10 DEF Dump, NextArm, Finally
  <1>11. CASE \E ok \in BOOLEAN : RevertCommand(ok) \/ Verify(ok)
    BY <1>8, <1>11 DEF RevertCommand, Verify
  <1>12. CASE UNCHANGED vars
    BY <1>12 DEF vars, procs
  <1> QED
    BY <1>1, <1>2, <1>3, <1>4, <1>5, <1>6, <1>7, <1>9, <1>10, <1>11, <1>12 DEF Next

(* Whatever shares the card with a benchmark or a server cell had been     *)
(* launched by an invocation that was killed, or interrupted, before it    *)
(* held any memory: everything that the guard can see is waited for.       *)
THEOREM OnlyTheUnseenShareTheCard == Spec => []MeasuredAlone
  <1>1. Accounted => MeasuredAlone
    BY DEF Accounted
  <1> QED BY <1>1, AccountedInit, AccountedStep, PTL DEF Spec

------------------------------------------------------------------------------
(* While an arm is applied, each of its settings is either still to be set *)
(* by a command on the list or on the card for good; from then on, until   *)
(* the next arm, the card is in the arm's state and so was every           *)
(* measurement.                                                            *)
SetOrToSet(x, v) == Leaves(todo, x, v) \/ (card[x] = v /\ Silent(todo, x))

Applied ==
    /\ pc = "apply" => /\ SetOrToSet("pl", ARMS[arm].pl)
                       /\ SetOrToSet("lgc", ARMS[arm].lgc)
                       /\ SetOrToSet("lmc", ARMS[arm].lmc)
    /\ pc \in Trying \ {"apply"} => Locks(card) = ARMS[arm]
    /\ pc \in Trying => \A c \in rec.under : Locks(c) = ARMS[arm]

Measured == Applied /\ MeasuredUnderItsArm

\* A command moves its setting from the list to the card.
LEMMA CommandSets ==
    ASSUME TypeInv, todo # <<>>, NEW x, NEW v, SetOrToSet(x, v),
           todo' = Tail(todo), card' = [card EXCEPT ![Head(todo).set] = Head(todo).to]
    PROVE  SetOrToSet(x, v)'
  <1>1. /\ Len(todo') = Len(todo) - 1 /\ \A i \in 1..Len(todo') : todo'[i] = todo[i + 1]
        /\ Len(todo) \in Nat /\ Len(todo) > 0 /\ Head(todo) = todo[1] /\ todo[1].set \in Settings
        /\ Len(todo') \in Nat
    <2>1. Head(todo) \in Commands /\ Head(todo) = todo[1] /\ Len(todo) \in Nat /\ Len(todo) > 0
      BY CommandStep DEF TypeInv
    <2> QED BY <2>1, CommandStep DEF Commands
  <1>2. card'[todo[1].set] = todo[1].to /\ \A y : y \in Settings /\ y # todo[1].set => card'[y] = card[y]
    BY <1>1 DEF TypeInv, Clocks
  <1>3. CASE Leaves(todo, x, v)
    <2>1. PICK i \in 1..Len(todo) : todo[i].set = x /\ todo[i].to = v
                                   /\ \A k \in 1..Len(todo) : k > i => todo[k].set # x
      BY <1>3 DEF Leaves
    <2>2. CASE i = 1
      <3>1. card'[x] = v
        BY <1>2, <2>1, <2>2
      <3>2. Silent(todo', x)
        <4>1. \A k \in 1..Len(todo') : k + 1 \in 1..Len(todo) /\ k + 1 > i
          BY <1>1, <2>2
        <4> QED BY <1>1, <2>1, <4>1 DEF Silent
      <3> QED BY <3>1, <3>2 DEF SetOrToSet
    <2>3. CASE i # 1
      <3>1. i - 1 \in 1..Len(todo') /\ todo'[i - 1] = todo[i]
        BY <1>1, <2>3
      <3>2. \A k \in 1..Len(todo') : k > i - 1 => k + 1 \in 1..Len(todo) /\ k + 1 > i
        BY <1>1
      <3>3. \A k \in 1..Len(todo') : k > i - 1 => todo'[k].set # x
        BY <1>1, <2>1, <3>2
      <3> QED BY <2>1, <3>1, <3>3 DEF SetOrToSet, Leaves
    <2> QED BY <2>2, <2>3
  <1>4. CASE card[x] = v /\ Silent(todo, x) /\ x \in Settings
    <2>1. \A k \in 1..Len(todo') : k + 1 \in 1..Len(todo)
      BY <1>1
    <2>2. Silent(todo', x) /\ todo[1].set # x
      BY <1>1, <1>4, <2>1 DEF Silent
    <2> QED BY <1>2, <1>4, <2>2 DEF SetOrToSet
  <1>5. CASE card[x] = v /\ Silent(todo, x) /\ x \notin Settings
    <2>1. \A k \in 1..Len(todo') : k + 1 \in 1..Len(todo)
      BY <1>1
    <2>2. Silent(todo', x)
      BY <1>1, <1>5, <2>1 DEF Silent
    <2>3. card'[x] = card[x]
      BY <1>1, <1>5 DEF TypeInv, Clocks
    <2> QED BY <1>5, <2>2, <2>3 DEF SetOrToSet
  <1> QED BY <1>3, <1>4, <1>5 DEF SetOrToSet

\* With no command left the card is in the arm's state.
LEMMA AllSet ==
    ASSUME TypeInv, pc = "apply", todo = <<>>, Applied PROVE Locks(card) = ARMS[arm]
  <1>1. \A x, v : SetOrToSet(x, v) => card[x] = v
    BY DEF SetOrToSet, Leaves
  <1>2. card["pl"] = ARMS[arm].pl /\ card["lgc"] = ARMS[arm].lgc /\ card["lmc"] = ARMS[arm].lmc
    BY <1>1 DEF Applied
  <1>3. ARMS[arm] \in [pl : Nat, lgc : Nat, lmc : Nat]
    BY ArmTypes DEF TypeInv, Trying
  <1> QED BY <1>2, <1>3 DEF Locks

\* An arm that is begun has its commands ahead of it and an empty record.
LEMMA NextArmApplied ==
    ASSUME TypeInv, NEW S \in SUBSET Arm, NEW a, NextArm(S, a)
    PROVE  Applied'
  <1>1. CASE Finally
    BY <1>1 DEF Finally, Applied, Trying
  <1>2. ASSUME NEW b \in S, arm' = b, pc' = "apply", todo' = Apply(b), rec' = NoRec
        PROVE  Applied'
    BY <1>2, ApplyLeaves DEF Applied, SetOrToSet, NoRec
  <1> QED BY <1>1, <1>2 DEF NextArm

\* No record has a measurement at first.
LEMMA MeasuredInit == Init => Measured
  BY DEF Init, Measured, Applied, MeasuredUnderItsArm, NoResults, NoRec, Trying

\* Every step keeps the clocks of the measurements.
LEMMA MeasuredStep == TypeInv /\ Measured /\ [Next]_vars => Measured'
  <1> SUFFICES ASSUME TypeInv, Measured, [Next]_vars PROVE Measured'
    OBVIOUS
  <1>t. \A a \in Arm : Torn.recs[a].under = {}
    BY DEF Torn, NoRec
  <1>m. ASSUME UNCHANGED <<file, results>> PROVE MeasuredUnderItsArm'
    BY <1>m DEF Measured, MeasuredUnderItsArm
  <1>1. ASSUME NEW S \in Wants, NEW T \in ServerArms, Start(S, T) PROVE Measured'
    <2>1. S \in SUBSET Arm
      BY ConstantsAssumption
    <2>2. Applied'
      BY <1>1, <2>1, NextArmApplied DEF Start
    <2>3. MeasuredUnderItsArm'
      BY <1>1 DEF Start, Measured, MeasuredUnderItsArm
    <2> QED BY <2>2, <2>3 DEF Measured
  <1>2. CASE ApplyCommand
    <2>1. CASE todo = <<>>
      <3>1. pc = "apply" /\ pc' = "bench" /\ UNCHANGED <<card, file, results, arm, rec>>
        BY <1>2, <2>1 DEF ApplyCommand
      <3> QED BY <2>1, <3>1, <1>m, AllSet DEF Measured, Applied, Trying
    <2>2. CASE todo # <<>>
      <3>1. /\ pc = "apply" /\ UNCHANGED <<pc, file, results, arm, rec>>
            /\ todo' = Tail(todo) /\ card' = [card EXCEPT ![Head(todo).set] = Head(todo).to]
        BY <1>2, <2>2 DEF ApplyCommand
      <3>2. \A x, v : SetOrToSet(x, v) => SetOrToSet(x, v)'
        BY <2>2, <3>1, CommandSets
      <3> QED BY <3>1, <3>2, <1>m DEF Measured, Applied, Trying
    <2> QED BY <2>1, <2>2
  <1>3. CASE Bench \/ Cell \/ CellUp \/ CellFails \/ NoCell
    BY <1>3, <1>m DEF Bench, Cell, CellUp, CellFails, Launch, NoCell, Measured, Applied, Trying
  <1>4. CASE BenchDone \/ \E acc \in {"good", "low"} : CellDone(acc)
    <2>1. /\ pc \in {"benching", "serving"} /\ pc' \in {"bench", "judge"}
          /\ UNCHANGED <<card, file, results, arm>>
      BY <1>4 DEF BenchDone, CellDone
    <2>2. rec'.under = rec.under \cup {card}
      BY <1>4 DEF BenchDone, CellDone, TypeInv, Recs
    <2> QED BY <2>1, <2>2, <1>m DEF Measured, Applied, Trying
  <1>5. CASE Judge
    <2>1. /\ pc = "judge" /\ pc' = "dump" /\ UNCHANGED <<card, arm, rec>> /\ file' = Torn
          /\ results'.recs = [results.recs EXCEPT ![arm] = results'.recs[arm]]
          /\ results'.recs[arm].under = rec.under /\ arm \in Arm
      BY <1>5 DEF Judge, TypeInv, Files, Recs, Trying
    <2>2. \A a \in Arm : results'.recs[a].under = IF a = arm THEN rec.under
                                                             ELSE results.recs[a].under
      BY <2>1 DEF TypeInv, Files
    <2>3. Applied'
      BY <2>1 DEF Measured, Applied, Trying
    <2>4. MeasuredUnderItsArm'
      BY <1>t, <2>1, <2>2 DEF Measured, Applied, Trying, MeasuredUnderItsArm
    <2> QED BY <2>3, <2>4 DEF Measured
  <1>6. CASE Dump
    <2>1. Applied'
      <3>1. CASE Finally
        BY <3>1 DEF Finally, Applied, Trying
      <3>2. CASE NextArm(want, arm)
        BY <3>2, NextArmApplied DEF TypeInv
      <3> QED BY <1>6, <3>1, <3>2 DEF Dump
    <2>2. MeasuredUnderItsArm'
      BY <1>6 DEF Dump, Measured, MeasuredUnderItsArm
    <2> QED BY <2>1, <2>2 DEF Measured
  <1>7. CASE Raise \/ Kill
    BY <1>7, <1>m DEF Raise, Finally, Kill, Measured, Applied, Trying
  <1>8. ASSUME NEW ok \in BOOLEAN, RevertCommand(ok) PROVE Measured'
    <2>1. results'.recs = results.recs /\ UNCHANGED file
      BY <1>8 DEF RevertCommand, TypeInv, Files
    <2> QED BY <1>8, <2>1 DEF RevertCommand, Measured, Applied, MeasuredUnderItsArm, Trying
  <1>9. ASSUME NEW ok \in BOOLEAN, Verify(ok) PROVE Measured'
    BY <1>9, <1>t DEF Verify, Measured, Applied, MeasuredUnderItsArm, Trying
  <1>10. CASE FinalDump
    BY <1>10 DEF FinalDump, Measured, Applied, MeasuredUnderItsArm, Trying
  <1>11. CASE UNCHANGED <<card, file, results, pc, todo, arm, rec>>
    BY <1>11 DEF Measured, Applied, MeasuredUnderItsArm, SetOrToSet
  <1> QED
    BY <1>1, <1>2, <1>3, <1>4, <1>5, <1>6, <1>7, <1>8, <1>9, <1>10, <1>11
    DEF Next, vars, Load, OrphanGone

(* Whatever clock state an earlier invocation left on the card, every      *)
(* measurement in oc_probe.json and in the probe's own results was made    *)
(* under the power limit and the locks of its arm.                         *)
THEOREM EveryArmIsAClockState == Spec => []MeasuredUnderItsArm
  <1>1. Measured => MeasuredUnderItsArm
    BY DEF Measured
  <1> QED BY <1>1, MeasuredInit, MeasuredStep, TypeInvariant, PTL DEF Spec

------------------------------------------------------------------------------
(* How far revert_all has come, if none of its commands has failed.        *)
Reverting ==
    /\ pc = "revert" =>
          \/ todo = RevertAll
          \/ /\ todo = <<[set |-> "lmc", to |-> 0], [set |-> "pl", to |-> 170]>>
             /\ results.revert = "clean" => card["lgc"] = 0
          \/ /\ todo = <<[set |-> "pl", to |-> 170]>>
             /\ results.revert = "clean" => card["lgc"] = 0 /\ card["lmc"] = 0
          \/ todo = <<>> /\ (results.revert = "clean" => Locks(card) = Locks(Factory))
    /\ RevertUndoesTheArm

\* Entering the finally block is entering it with all of its commands.
LEMMA FinallyReverts == Finally \/ pc' \notin {"revert", "final"} => Reverting'
  BY DEF Finally, Reverting, RevertUndoesTheArm

\* Every step keeps what has been reverted.
LEMMA RevertingStep == TypeInv /\ Reverting /\ [Next]_vars => Reverting'
  <1> SUFFICES ASSUME TypeInv, Reverting, [Next]_vars PROVE Reverting'
    OBVIOUS
  <1>1. ASSUME NEW ok \in BOOLEAN, RevertCommand(ok) PROVE Reverting'
    <2>1. /\ pc = "revert" /\ pc' = "revert" /\ todo # <<>> /\ todo' = Tail(todo)
          /\ results'.revert = IF ok /\ (Len(todo) = 3 \/ results.revert = "clean")
                               THEN "clean" ELSE "errors"
          /\ results'.revert = "clean" => card' = [card EXCEPT ![Head(todo).set] = Head(todo).to]
      BY <1>1 DEF RevertCommand, TypeInv, Files, RevertAll
    <2>2. CASE todo = RevertAll
      <3>1. /\ todo' = <<[set |-> "lmc", to |-> 0], [set |-> "pl", to |-> 170]>>
            /\ Head(todo).set = "lgc" /\ Head(todo).to = 0
        BY <2>1, <2>2 DEF RevertAll
      <3>2. results'.revert = "clean" => card'["lgc"] = 0
        BY <2>1, <3>1 DEF TypeInv, Clocks, Settings
      <3> QED BY <2>1, <3>1, <3>2 DEF Reverting, RevertUndoesTheArm
    <2>3. CASE /\ todo = <<[set |-> "lmc", to |-> 0], [set |-> "pl", to |-> 170]>>
               /\ results.revert = "clean" => card["lgc"] = 0
      <3>1. /\ todo' = <<[set |-> "pl", to |-> 170]>> /\ Len(todo) = 2
            /\ Head(todo).set = "lmc" /\ Head(todo).to = 0
        BY <2>1, <2>3
      <3>2. results'.revert = "clean" => card'["lgc"] = 0 /\ card'["lmc"] = 0
        BY <2>1, <2>3, <3>1 DEF TypeInv, Clocks, Settings
      <3> QED BY <2>1, <3>1, <3>2 DEF Reverting, RevertUndoesTheArm
    <2>4. CASE /\ todo = <<[set |-> "pl", to |-> 170]>>
               /\ results.revert = "clean" => card["lgc"] = 0 /\ card["lmc"] = 0
      <3>1. todo' = <<>> /\ Len(todo) = 1 /\ Head(todo).set = "pl" /\ Head(todo).to = 170
        BY <2>1, <2>4
      <3>2. results'.revert = "clean" =>
                card'["lgc"] = 0 /\ card'["lmc"] = 0 /\ card'["pl"] = 170
        BY <2>1, <2>4, <3>1 DEF TypeInv, Clocks, Settings
      <3>3. results'.revert = "clean" => Locks(card)' = Locks(Factory)
        BY <3>2 DEF Locks, Factory
      <3> QED BY <2>1, <3>1, <3>3 DEF Reverting, RevertUndoesTheArm
    <2> QED BY <2>1, <2>2, <2>3, <2>4 DEF Reverting
  <1>2. ASSUME NEW ok \in BOOLEAN, Verify(ok) PROVE Reverting'
    BY <1>2 DEF Verify, Reverting, RevertUndoesTheArm, RevertAll
  <1>3. CASE Raise
    BY <1>3, FinallyReverts DEF Raise
  <1>4. CASE Dump
    BY <1>4, FinallyReverts DEF Dump, NextArm
  <1>5. CASE \E S \in Wants, T \in ServerArms : Start(S, T)
    BY <1>5, FinallyReverts DEF Start, NextArm
  <1>6. CASE \/ Bench \/ BenchDone \/ Cell \/ CellUp \/ CellFails \/ NoCell \/ Judge \/ FinalDump \/ Kill
             \/ ApplyCommand \/ \E acc \in {"good", "low"} : CellDone(acc)
    <2>1. pc' \notin {"revert", "final"}
      BY <1>6 DEF Bench, BenchDone, Cell, CellUp, CellFails, Launch, NoCell, Judge, FinalDump, Kill, ApplyCommand, CellDone
    <2> QED BY <2>1, FinallyReverts
  <1>7. CASE UNCHANGED <<card, results, pc, todo>>
    BY <1>7 DEF Reverting, RevertUndoesTheArm
  <1> QED
    BY <1>1, <1>2, <1>3, <1>4, <1>5, <1>6, <1>7 DEF Next, vars, Load, OrphanGone

(* The finally block, entered with any arm half applied, leaves no lock on *)
(* the card and the power limit as it was, unless it reports an error.     *)
THEOREM FinallyRevertsTheClocks == Spec => []RevertUndoesTheArm
  <1>1. Init => Reverting
    BY DEF Init, Reverting, RevertUndoesTheArm
  <1>2. Reverting => RevertUndoesTheArm
    BY DEF Reverting
  <1> QED BY <1>1, <1>2, RevertingStep, TypeInvariant, PTL DEF Spec

------------------------------------------------------------------------------
(* No record is of a later invocation, so a new one starts with none of    *)
(* its own.                                                                *)
Dated ==
    /\ \A a \in Arm : results.recs[a].run <= runs /\ file.recs[a].run <= runs
    /\ UnstableIsTheLast

\* Every step keeps the records' dates and the end of an unstable invocation.
LEMMA DatedStep == TypeInv /\ Dated /\ [Next]_vars => Dated'
  <1> SUFFICES ASSUME TypeInv, Dated, [Next]_vars PROVE Dated'
    OBVIOUS
  <1>t. \A a \in Arm : Torn.recs[a].run = 0 /\ results.recs[a].run \in Nat /\ file.recs[a].run \in Nat
    BY DEF Torn, NoRec, TypeInv, Files, Recs
  <1>r. runs \in Nat
    BY DEF TypeInv
  <1>1. ASSUME NEW S \in Wants, NEW T \in ServerArms, Start(S, T) PROVE Dated'
    <2>1. runs' = runs + 1 /\ results' = file /\ file' = file
      BY <1>1 DEF Start
    <2>2. \A a \in Arm : file.recs[a].run <= runs + 1 /\ file.recs[a].run # runs + 1
      BY <1>t, <1>r DEF Dated
    <2> QED BY <2>1, <2>2 DEF Dated, UnstableIsTheLast
  <1>2. ASSUME UNCHANGED <<results, file, runs>>, pc \notin {"dump", "revert", "final", "down"}
        PROVE  Dated'
    BY <1>2 DEF Dated, UnstableIsTheLast
  <1>3. CASE \/ ApplyCommand \/ Bench \/ BenchDone \/ Cell \/ CellUp \/ CellFails \/ NoCell
             \/ \E acc \in {"good", "low"} : CellDone(acc)
    BY <1>2, <1>3 DEF ApplyCommand, Bench, BenchDone, Cell, CellUp, CellFails, Launch, NoCell, CellDone
  <1>4. CASE Judge
    <2>1. /\ pc = "judge" /\ pc' = "dump" /\ UNCHANGED <<arm, runs>> /\ file' = Torn /\ arm \in Arm
          /\ \A a \in Arm : a # arm => results'.recs[a] = results.recs[a]
          /\ results'.recs[arm].run = runs
      BY <1>4 DEF Judge, TypeInv, Files, Recs, Trying
    <2>2. \A a \in Arm : results'.recs[a].run <= runs /\ file'.recs[a].run <= runs
      BY <2>1, <1>t, <1>r DEF Dated
    <2>3. UnstableIsTheLast'
      BY <2>1 DEF Dated, UnstableIsTheLast
    <2> QED BY <2>1, <2>2, <2>3 DEF Dated
  <1>5. CASE Dump
    <2>1. pc = "dump" /\ file' = results /\ UNCHANGED <<results, runs>>
      BY <1>5 DEF Dump
    <2>2. CASE Finally /\ UNCHANGED arm
      BY <2>1, <2>2 DEF Finally, Dated, UnstableIsTheLast
    <2>3. CASE ~results.recs[arm].unstable
      BY <2>1, <2>3 DEF Dated, UnstableIsTheLast
    <2> QED BY <1>5, <2>2, <2>3 DEF Dump
  <1>6. CASE Raise
    BY <1>6 DEF Raise, InTry, Finally, Dated, UnstableIsTheLast
  <1>7. ASSUME NEW ok \in BOOLEAN, RevertCommand(ok) PROVE Dated'
    <2>1. results'.recs = results.recs /\ UNCHANGED <<file, pc, arm, runs>>
      BY <1>7 DEF RevertCommand, TypeInv, Files
    <2> QED BY <2>1 DEF Dated, UnstableIsTheLast
  <1>8. ASSUME NEW ok \in BOOLEAN, Verify(ok) PROVE Dated'
    <2>1. /\ pc = "revert" /\ pc' \in {"final", "down"} /\ file' \in {file, Torn}
          /\ UNCHANGED <<results, arm, runs>>
      BY <1>8 DEF Verify
    <2>2. \A a \in Arm : results'.recs[a].run <= runs /\ file'.recs[a].run <= runs
      BY <2>1, <1>t, <1>r DEF Dated
    <2>3. UnstableIsTheLast'
      BY <2>1 DEF Dated, UnstableIsTheLast
    <2> QED BY <2>1, <2>2, <2>3 DEF Dated
  <1>9. CASE FinalDump \/ Kill
    BY <1>9 DEF FinalDump, Kill, Dated, UnstableIsTheLast
  <1>10. CASE UNCHANGED <<results, file, pc, arm, runs>>
    BY <1>10 DEF Dated, UnstableIsTheLast
  <1> QED
    BY <1>1, <1>3, <1>4, <1>5, <1>6, <1>7, <1>8, <1>9, <1>10 DEF Next, vars, Load, OrphanGone

(* Once an invocation has marked an arm unstable it goes to the finally    *)
(* block and nowhere else, whatever earlier invocations left in the file.  *)
THEOREM NothingAfterAnUnstableArm == Spec => []UnstableIsTheLast
  <1>1. Init => Dated
    BY DEF Init, Dated, UnstableIsTheLast, NoResults, NoRec
  <1>2. Dated => UnstableIsTheLast
    BY DEF Dated
  <1> QED BY <1>1, <1>2, DatedStep, TypeInvariant, PTL DEF Spec
=============================================================================
