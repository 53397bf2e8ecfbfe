--------------------------- MODULE DeferralProofs ---------------------------
(***************************************************************************)
(* Proofs about Deferral, for every number of layers and every value of    *)
(* the two knobs.  The inductive invariant says where each contribution    *)
(* is: nowhere before its block has run, then in the one slot it was       *)
(* pushed to until that slot is delivered, then in the stream.             *)
(***************************************************************************)
EXTENDS Deferral, TLAPS

Knobs == depth \in Nat /\ layers \in Slots /\ masked \in BOOLEAN

Control ==
    /\ il \in Slots
    /\ pc \in {"top", "attention", "ffn", "guard", "built"}
    /\ pc \in {"attention", "ffn"} => il < NLayer
    /\ pc \in {"guard", "built"} => il = NLayer

(* Slot s has been delivered. *)
Passed(s) == s < il \/ (s = il /\ pc # "top")

InStream(b) == b < il /\ (Defers(b) => Passed(Slot(b)))
InSlot(s, b) == b < il /\ Defers(b) /\ Slot(b) = s /\ ~Passed(s)

Reduced == masked /\ ((il = NLayer /\ il > 0) \/ (il = NLayer - 1 /\ pc = "ffn"))
Rows == IF Reduced THEN "out" ELSE "all"

StreamSum == [b \in Block |-> IF InStream(b) THEN 1 ELSE 0]
SlotSums == [s \in Slots |-> [b \in Block |-> IF InSlot(s, b) THEN 1 ELSE 0]]
SlotRows == [s \in Slots |-> IF \E b \in Block : InSlot(s, b) THEN Rows ELSE "null"]

Holds(j) == [b \in Block |-> IF b < j /\ (Defers(b) => j > b + depth) THEN 1 ELSE 0]
Seen(j) == j < il \/ (j = il /\ pc # "top")

Inputs ==
    /\ inputs \in [Block -> Sums]
    /\ \A j \in Block : Seen(j) => inputs[j] = Holds(j)

IInv ==
    /\ Knobs
    /\ Control
    /\ stream = StreamSum
    /\ streamRows = Rows
    /\ pending = SlotSums
    /\ pendingRows = SlotRows
    /\ Inputs

------------------------------------------------------------------------------
\* The block whose join point receives a deferred share lies later in the model, the tail flush included.
LEMMA SlotInSlots ==
    ASSUME NEW b \in Block, Knobs PROVE Slot(b) \in Slots /\ Slot(b) > b
BY NLayerAssumption DEF Slot, AtMost, Slots, Block, Knobs

\* The invariant holds before the first block of a graph is built.
LEMMA InvariantInit == Init => IInv
<1>1. SUFFICES ASSUME Init PROVE IInv
  OBVIOUS
<1>2. Knobs
  <2>1. PICK d \in DepthKnobs, k \in LayerKnobs :
            depth = DepthOf(d, k) /\ layers = LayersOf(d, k)
    BY <1>1 DEF Init
  <2>2. d \in Int /\ k \in Int
    BY KnobsAssumption
  <2>3. depth \in Nat /\ layers \in Slots
    BY <2>1, <2>2, NLayerAssumption DEF DepthOf, LayersOf, AtLeastZero, AtMost, Slots
  <2> QED
    BY <1>1, <2>3 DEF Init, Knobs
<1>3. Control
  BY <1>1, NLayerAssumption DEF Init, Control, Slots
<1>4. \A b \in Block : ~InStream(b) /\ \A s \in Slots : ~InSlot(s, b)
  BY <1>1 DEF Init, InStream, InSlot, Block
<1>5. stream = StreamSum /\ pending = SlotSums /\ pendingRows = SlotRows
  BY <1>1, <1>4 DEF Init, StreamSum, SlotSums, SlotRows, Empty
<1>6. streamRows = Rows
  <2>1. ~Reduced
    BY <1>1, NLayerAssumption DEF Init, Reduced
  <2> QED
    BY <1>1, <2>1 DEF Init, Rows
<1>7. Inputs
  BY <1>1 DEF Init, Inputs, Seen, Block, Empty, Sums
<1> QED
  BY <1>2, <1>3, <1>5, <1>6, <1>7 DEF IInv

(* Delivering slot il moves exactly its contributions to the stream. *)
LEMMA DeliverStep ==
    ASSUME IInv, pc = "top", il' = il, pc' \in {"attention", "guard"},
           UNCHANGED knobs, Deliver(il)
    PROVE  /\ stream' = StreamSum' /\ streamRows' = Rows'
           /\ pending' = SlotSums' /\ pendingRows' = SlotRows'
<1>1. il \in Slots /\ il \in Int /\ NLayer \in Nat
  BY NLayerAssumption DEF IInv, Control, Slots
<1>2. /\ \A b \in Block : Slot(b)' = Slot(b) /\ Defers(b)' = Defers(b)
      /\ \A b \in Block : Slot(b) \in Slots
  BY SlotInSlots DEF knobs, Slot, Defers, IInv
<1>3. \A s \in Slots : Passed(s)' <=> Passed(s) \/ s = il
  BY <1>1 DEF Passed, Slots
<1>4. ~Passed(il)
  BY <1>1 DEF Passed
<1>5. \A b \in Block : /\ InStream(b)' <=> InStream(b) \/ InSlot(il, b)
                       /\ ~(InStream(b) /\ InSlot(il, b))
  BY <1>2, <1>3, <1>4 DEF InStream, InSlot
<1>6. \A s \in Slots, b \in Block : InSlot(s, b)' <=> InSlot(s, b) /\ s # il
  BY <1>2, <1>3 DEF InSlot
<1>7. Rows' = Rows
  BY <1>1 DEF Rows, Reduced, knobs, IInv, Control
<1>8. stream' = StreamSum'
  <2>1. \A b \in Block : stream[b] + pending[il][b] = IF InStream(b)' THEN 1 ELSE 0
    BY <1>1, <1>5 DEF IInv, StreamSum, SlotSums
  <2> QED
    BY <2>1 DEF Deliver, Plus, StreamSum
<1>9. streamRows' = Rows'
  <2>1. pendingRows[il] \in {"null", Rows} /\ streamRows = Rows
    BY <1>1 DEF IInv, SlotRows
  <2> QED
    BY <1>7, <2>1 DEF Deliver, AddRows
<1>10. pending' = SlotSums'
  <2>1. ASSUME NEW s \in Slots
        PROVE  pending'[s] = [b \in Block |-> IF InSlot(s, b)' THEN 1 ELSE 0]
    <3>1. CASE s = il
      BY <1>6, <3>1 DEF Deliver, IInv, SlotSums, Empty
    <3>2. CASE s # il
      BY <1>6, <3>2 DEF Deliver, IInv, SlotSums
    <3> QED
      BY <3>1, <3>2
  <2>2. pending' = [s \in Slots |-> pending'[s]]
    BY DEF Deliver, IInv, SlotSums
  <2> QED
    BY <2>1, <2>2 DEF SlotSums
<1>11. pendingRows' = SlotRows'
  <2>1. ASSUME NEW s \in Slots
        PROVE  pendingRows'[s] = IF \E b \in Block : InSlot(s, b)' THEN Rows' ELSE "null"
    <3>1. CASE s = il
      BY <1>6, <3>1 DEF Deliver, IInv, SlotRows
    <3>2. CASE s # il
      BY <1>6, <1>7, <3>2 DEF Deliver, IInv, SlotRows
    <3> QED
      BY <3>1, <3>2
  <2>2. pendingRows' = [s \in Slots |-> pendingRows'[s]]
    BY DEF Deliver, IInv, SlotRows
  <2> QED
    BY <2>1, <2>2 DEF SlotRows
<1> QED
  BY <1>8, <1>9, <1>10, <1>11

(* At the top of block j the stream holds what block j is to see. *)
LEMMA StreamAtJoin ==
    ASSUME IInv, il < NLayer, pc = "top", Join
    PROVE  stream' = Holds(il)'
<1>1. stream' = StreamSum'
  BY DeliverStep DEF Join
<1>2. il' = il /\ pc' = "attention" /\ il \in Int /\ NLayer \in Nat
  BY NLayerAssumption DEF Join, IInv, Control, Slots
<1>3. ASSUME NEW b \in Block
      PROVE  InStream(b)' <=> b < il /\ (Defers(b) => il > b + depth)'
  <2>1. Slot(b)' = AtMost(b + depth + 1, NLayer) /\ depth' = depth /\ depth \in Nat
    BY DEF Slot, Join, knobs, IInv, Knobs
  <2>2. Passed(Slot(b))' <=> AtMost(b + depth + 1, NLayer) <= il
    BY <1>2, <2>1 DEF Passed, AtMost, Block
  <2>3. Passed(Slot(b))' <=> il > b + depth
    BY <1>2, <2>1, <2>2 DEF AtMost, Block
  <2> QED
    BY <1>2, <2>1, <2>3 DEF InStream
<1> QED
  BY <1>1, <1>2, <1>3 DEF StreamSum, Holds, Join, knobs, Defers

\* The join at the top of a block keeps the invariant.
LEMMA JoinStep == IInv /\ Join => IInv'
<1> SUFFICES ASSUME IInv, Join PROVE IInv'
  OBVIOUS
<1>1. /\ stream' = StreamSum' /\ streamRows' = Rows'
      /\ pending' = SlotSums' /\ pendingRows' = SlotRows'
  BY DeliverStep DEF Join
<1>2. Knobs' /\ Control'
  BY DEF Join, IInv, Knobs, Control, knobs
<1>3. il \in Block /\ il' = il
  BY NLayerAssumption DEF Join, IInv, Control, Slots, Block
<1>4. Inputs'
  <2>1. stream' = Holds(il)'
    BY StreamAtJoin DEF Join
  <2>2. inputs' = [inputs EXCEPT ![il] = Holds(il)']
    BY <2>1 DEF Join
  <2>3. Holds(il)' \in Sums
    BY DEF Holds, Sums
  <2>4. \A j \in Block : Holds(j)' = Holds(j)
    BY DEF Holds, Join, knobs, Defers
  <2>5. \A j \in Block : Seen(j)' <=> Seen(j) \/ j = il
    BY <1>3, NLayerAssumption DEF Seen, Join, Block
  <2> QED
    BY <1>3, <2>2, <2>3, <2>4, <2>5 DEF Inputs, IInv
<1> QED
  BY <1>1, <1>2, <1>4 DEF IInv

(* The reduction of the rows reaches all that is still pending. *)
LEMMA AttentionStep == IInv /\ Attention => IInv'
<1> SUFFICES ASSUME IInv, Attention PROVE IInv'
  OBVIOUS
<1>1. il \in Block /\ il' = il /\ NLayer \in Nat
  BY NLayerAssumption DEF Attention, IInv, Control, Slots, Block
<1>2. Knobs' /\ Control'
  BY DEF Attention, IInv, Knobs, Control, knobs
<1>3. \A s \in Slots : Passed(s)' <=> Passed(s)
  BY <1>1 DEF Attention, Passed, Slots, Block
<1>4. \A b \in Block : /\ InStream(b)' <=> InStream(b)
                       /\ \A s \in Slots : InSlot(s, b)' <=> InSlot(s, b)
  BY <1>1, <1>3, SlotInSlots DEF Attention, InStream, InSlot, knobs, Slot, Defers, IInv
<1>5. stream' = StreamSum' /\ pending' = SlotSums'
  BY <1>4 DEF Attention, IInv, StreamSum, SlotSums
<1>6. Rows' = IF il = NLayer - 1 /\ masked THEN "out" ELSE Rows
  BY <1>1 DEF Attention, Rows, Reduced, knobs, Block
<1>7. streamRows' = Rows'
  BY <1>6 DEF Attention, IInv
<1>8. pendingRows' = SlotRows'
  <2>1. CASE il = NLayer - 1 /\ masked
    <3>1. \A s \in Slots, b \in Block : InSlot(s, b) => s = NLayer
      BY <1>1, <2>1 DEF InSlot, Passed, Attention, Slots, Block
    <3>2. NLayer \in Slots
      BY <1>1 DEF Slots
    <3>3. ASSUME NEW s \in Slots
          PROVE  pendingRows'[s] = IF \E b \in Block : InSlot(s, b)' THEN Rows' ELSE "null"
      <4>1. CASE s = NLayer
        BY <1>4, <1>6, <2>1, <3>2, <4>1 DEF Attention, IInv, SlotRows, Rows
      <4>2. CASE s # NLayer
        BY <1>4, <2>1, <3>1, <3>2, <4>2 DEF Attention, IInv, SlotRows
      <4> QED
        BY <4>1, <4>2
    <3>4. pendingRows' = [s \in Slots |-> pendingRows'[s]]
      BY <2>1 DEF Attention, IInv, SlotRows
    <3> QED
      BY <3>3, <3>4 DEF SlotRows
  <2>2. CASE ~(il = NLayer - 1 /\ masked)
    BY <1>4, <1>6, <2>2 DEF Attention, IInv, SlotRows
  <2> QED
    BY <2>1, <2>2
<1>9. Inputs'
  <2>1. \A j \in Block : Holds(j)' = Holds(j) /\ (Seen(j)' <=> Seen(j))
    BY DEF Holds, Seen, Attention, knobs, Defers
  <2> QED
    BY <2>1 DEF Inputs, IInv, Attention
<1> QED
  BY <1>2, <1>5, <1>7, <1>8, <1>9 DEF IInv

(* Block il's contribution goes to the stream, or to a slot still ahead.   *)
LEMMA FfnStep == IInv /\ Ffn => IInv'
<1> SUFFICES ASSUME IInv, Ffn PROVE IInv'
  OBVIOUS
<1>1. il \in Block /\ il' = il + 1 /\ NLayer \in Nat
  BY NLayerAssumption DEF Ffn, IInv, Control, Slots, Block
<1>2. Knobs' /\ Control'
  BY <1>1 DEF Ffn, IInv, Knobs, Control, knobs, Slots, Block
<1>3. \A s \in Slots : Passed(s)' <=> Passed(s)
  BY <1>1 DEF Ffn, Passed, Slots, Block
<1>4. Slot(il) \in Slots /\ Slot(il) > il /\ ~Passed(Slot(il))
  BY <1>1, SlotInSlots DEF IInv, Passed, Slots, Block
<1>5. /\ \A b \in Block : Slot(b)' = Slot(b) /\ Defers(b)' = Defers(b)
      /\ \A b \in Block : Slot(b) \in Slots
      /\ \A b \in Block : b < il' <=> b < il \/ b = il
  BY <1>1, SlotInSlots DEF Ffn, knobs, Slot, Defers, IInv, Block
<1>6. \A b \in Block : InStream(b)' <=> InStream(b) \/ (b = il /\ ~Defers(il))
  BY <1>3, <1>4, <1>5 DEF InStream
<1>7. \A s \in Slots, b \in Block :
          InSlot(s, b)' <=> InSlot(s, b) \/ (b = il /\ s = Slot(il) /\ Defers(il))
  BY <1>3, <1>4, <1>5 DEF InSlot
<1>8. ~InStream(il) /\ \A s \in Slots : ~InSlot(s, il)
  BY <1>1 DEF InStream, InSlot, Block
<1>9. Rows' = Rows
  BY <1>1 DEF Ffn, Rows, Reduced, knobs, Block
<1>10. stream' = StreamSum'
  <2>1. CASE Defers(il)
    BY <1>6, <2>1 DEF Ffn, IInv, StreamSum
  <2>2. CASE ~Defers(il)
    <3>1. \A b \in Block : stream[b] + Routed(il)[b] = IF InStream(b)' THEN 1 ELSE 0
      BY <1>6, <1>8, <2>2 DEF IInv, StreamSum, Routed
    <3> QED
      BY <2>2, <3>1 DEF Ffn, Plus, StreamSum
  <2> QED
    BY <2>1, <2>2
<1>11. pending' = SlotSums' /\ pendingRows' = SlotRows'
  <2>1. CASE ~Defers(il)
    BY <1>7, <1>9, <2>1 DEF Ffn, IInv, SlotSums, SlotRows
  <2>2. CASE Defers(il)
    <3>1. Push(il)
      BY <2>2 DEF Ffn
    <3>2. ASSUME NEW s \in Slots
          PROVE  /\ pending'[s] = [b \in Block |-> IF InSlot(s, b)' THEN 1 ELSE 0]
                 /\ pendingRows'[s] = IF \E b \in Block : InSlot(s, b)' THEN Rows' ELSE "null"
      <4>1. CASE s # Slot(il)
        BY <1>7, <1>9, <3>1, <4>1 DEF Push, IInv, SlotSums, SlotRows
      <4>2. CASE s = Slot(il)
        <5>1. pending'[s] = Plus(SlotSums[s], Routed(il))
          BY <3>1, <4>2 DEF Push, IInv, SlotSums
        <5>2. \A b \in Block : SlotSums[s][b] + Routed(il)[b] = IF InSlot(s, b)' THEN 1 ELSE 0
          BY <1>7, <1>8, <2>2, <4>2 DEF SlotSums, Routed
        <5>3. pendingRows'[s] = AddRows(SlotRows[s], Rows)
          BY <3>1, <4>2 DEF Push, IInv, SlotRows
        <5>4. \E b \in Block : InSlot(s, b)'
          BY <1>1, <1>7, <2>2, <4>2
        <5> QED
          BY <1>9, <5>1, <5>2, <5>3, <5>4 DEF Plus, AddRows, SlotRows
      <4> QED
        BY <4>1, <4>2
    <3>3. /\ pending' = [s \in Slots |-> pending'[s]]
          /\ pendingRows' = [s \in Slots |-> pendingRows'[s]]
      BY <3>1 DEF Push, IInv, SlotSums, SlotRows
    <3> QED
      BY <3>2, <3>3 DEF SlotSums, SlotRows
  <2> QED
    BY <2>1, <2>2
<1>12. Inputs'
  <2>1. \A j \in Block : Holds(j)' = Holds(j) /\ (Seen(j)' <=> Seen(j))
    BY <1>1 DEF Holds, Seen, Ffn, knobs, Defers, Block
  <2> QED
    BY <2>1 DEF Inputs, IInv, Ffn
<1> QED
  BY <1>2, <1>9, <1>10, <1>11, <1>12 DEF IInv, Ffn

\* The flush after the last block keeps the invariant.
LEMMA FlushStep == IInv /\ Flush => IInv'
<1> SUFFICES ASSUME IInv, Flush PROVE IInv'
  OBVIOUS
<1>1. /\ stream' = StreamSum' /\ streamRows' = Rows'
      /\ pending' = SlotSums' /\ pendingRows' = SlotRows'
  BY DeliverStep DEF Flush
<1>2. Knobs' /\ Control'
  BY DEF Flush, IInv, Knobs, Control, knobs
<1>3. Inputs'
  <2>1. \A j \in Block : Holds(j)' = Holds(j) /\ (Seen(j)' <=> Seen(j))
    BY NLayerAssumption DEF Holds, Seen, Flush, knobs, Defers, Block
  <2> QED
    BY <2>1 DEF Inputs, IInv, Flush
<1> QED
  BY <1>1, <1>2, <1>3 DEF IInv

(* After the flush every slot has been delivered: the guard finds nothing. *)
LEMMA GuardStep == IInv /\ Guard => IInv'
<1> SUFFICES ASSUME IInv, Guard PROVE IInv'
  OBVIOUS
<1>1. il = NLayer /\ il' = il /\ NLayer \in Nat
  BY NLayerAssumption DEF Guard, IInv, Control
<1>2. \A s \in Slots : Passed(s)
  BY <1>1 DEF Guard, Passed, Slots
<1>3. \A s \in Slots : pending[s] = Empty
  BY <1>2 DEF IInv, SlotSums, InSlot, Empty
<1>4. pc' = "built"
  BY <1>3 DEF Guard
<1>5. Knobs' /\ Control'
  BY <1>4 DEF Guard, IInv, Knobs, Control, knobs
<1>6. /\ \A s \in Slots : Passed(s)' <=> Passed(s)
      /\ \A b \in Block : Slot(b)' = Slot(b) /\ Defers(b)' = Defers(b) /\ Slot(b) \in Slots
  BY <1>1, <1>4, SlotInSlots DEF Guard, Passed, knobs, Slot, Defers, IInv
<1>7. \A b \in Block : /\ InStream(b)' <=> InStream(b)
                       /\ \A s \in Slots : InSlot(s, b)' <=> InSlot(s, b)
  BY <1>1, <1>6 DEF InStream, InSlot
<1>8. Rows' = Rows
  BY <1>1, <1>4 DEF Guard, Rows, Reduced, knobs
<1>9. Inputs'
  <2>1. \A j \in Block : Holds(j)' = Holds(j) /\ (Seen(j)' <=> Seen(j))
    BY <1>1 DEF Holds, Seen, Guard, knobs, Defers, Block
  <2> QED
    BY <2>1 DEF Inputs, IInv, Guard
<1> QED
  BY <1>5, <1>7, <1>8, <1>9 DEF IInv, Guard, StreamSum, SlotSums, SlotRows

\* The inductive invariant holds in every reachable state.
LEMMA Invariant == Spec => []IInv
<1>1. IInv /\ [Next]_vars => IInv'
  <2> SUFFICES ASSUME IInv, [Next]_vars PROVE IInv'
    OBVIOUS
  <2>1. CASE UNCHANGED vars
    BY <2>1 DEF vars, knobs, IInv, Knobs, Control, StreamSum, SlotSums, SlotRows, Inputs, Rows,
                Reduced, InStream, InSlot, Passed, Slot, Defers, Holds, Seen
  <2> QED
    BY <2>1, JoinStep, AttentionStep, FfnStep, FlushStep, GuardStep DEF Next
<1> QED
  BY <1>1, InvariantInit, PTL DEF Spec

------------------------------------------------------------------------------
(* Every variable of the graph builder keeps its type. *)
THEOREM TypeCorrect == Spec => []TypeOK
<1>1. IInv => TypeOK
  BY DEF IInv, Knobs, Control, TypeOK, Inputs, Sums, RowKinds, StreamSum, SlotSums, SlotRows, Rows
<1> QED
  BY <1>1, Invariant, PTL

(* Whatever the knobs, each routed contribution is in the stream exactly   *)
(* once when the graph is built, and the conservation assert never fires.  *)
THEOREM Conservation == Spec => []DeliveredOnce
<1>1. ASSUME IInv, pc = "built" PROVE stream = [b \in Block |-> 1]
  <2>1. il = NLayer /\ NLayer \in Nat
    BY <1>1, NLayerAssumption DEF IInv, Control
  <2>2. \A b \in Block : InStream(b)
    BY <1>1, <2>1, SlotInSlots DEF InStream, Passed, Block, Slots, IInv
  <2> QED
    BY <1>1, <2>2 DEF IInv, StreamSum
<1>2. IInv => DeliveredOnce
  BY <1>1 DEF DeliveredOnce, IInv, Control
<1> QED
  BY <1>2, Invariant, PTL

(* A deferred contribution is missing from the inputs of exactly the next  *)
(* `depth` blocks (as far as there are any), and of no other.              *)
THEOREM Staleness == Spec => []ExactlyDBlocksStale
<1>1. IInv => ExactlyDBlocksStale
  BY DEF IInv, Inputs, Seen, Holds, ExactlyDBlocksStale
<1> QED
  BY <1>1, Invariant, PTL

(* The logged schedule is the one followed. *)
THEOREM LogIsRight == Spec => []LogTellsTheSchedule
<1>1. ASSUME IInv, NEW b \in Block, Defers(b), b < il
      PROVE  /\ il = NLayer =>
                    {j \in Block : j > b /\ inputs[j][b] = 0} = LoggedStale(b)
             /\ \A s \in Slots : pending[s][b] # 0 => s = LoggedTarget(b)
  <2>1. NLayer \in Nat /\ depth \in Nat /\ b \in Int /\ b < NLayer
    BY <1>1, NLayerAssumption DEF IInv, Knobs, Block
  <2>2. ASSUME NEW s \in Slots, pending[s][b] # 0 PROVE s = LoggedTarget(b)
    BY <1>1, <2>1, <2>2 DEF IInv, SlotSums, InSlot, Slot, AtMost, LoggedTarget
  <2>3. ASSUME il = NLayer
        PROVE  {j \in Block : j > b /\ inputs[j][b] = 0} = LoggedStale(b)
    <3>1. \A j \in Block : Seen(j)
      BY <2>1, <2>3 DEF Seen, Block
    <3>2. \A j \in Block : inputs[j][b] = 0 <=> ~(b < j /\ j > b + depth)
      BY <1>1, <3>1 DEF IInv, Inputs, Holds
    <3>3. \A j : j \in LoggedStale(b) <=> j \in Block /\ j > b /\ j <= b + depth
      BY <2>1 DEF LoggedStale, AtMost, Block
    <3>4. \A j \in Block : j > b /\ inputs[j][b] = 0 <=> j > b /\ j <= b + depth
      BY <2>1, <3>2 DEF Block
    <3> QED
      BY <3>3, <3>4
  <2> QED
    BY <2>2, <2>3
<1>2. IInv => LogTellsTheSchedule
  BY <1>1 DEF LogTellsTheSchedule
<1> QED
  BY <1>2, Invariant, PTL

(* All additions are of tensors with the same rows. *)
THEOREM ShapesAgree == Spec => []RowsAgree
<1>1. IInv => RowsAgree
  BY DEF IInv, RowsAgree, SlotRows, Rows
<1> QED
  BY <1>1, Invariant, PTL
==============================================================================
