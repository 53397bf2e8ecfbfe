------------------------------ MODULE Deferral ------------------------------
(***************************************************************************)
(* deferral_smoke/deferral_sim.patch: the loop that builds the graph of a  *)
(* qwen35moe model, with the routed-expert output of the first `layers`    *)
(* blocks joining the residual stream `depth` blocks late.  A tensor is    *)
(* what the loop tells apart of it: how many times each block's routed     *)
(* contribution is in the sum, and whether its rows are all the tokens or  *)
(* the output tokens only.  A null tensor is the empty sum.  What is never *)
(* deferred (attention, shared expert, control vector) is left out.        *)
(***************************************************************************)
EXTENDS Integers

CONSTANTS NLayer,      \* n_layer
          DepthKnobs,  \* values of LLAMA_DEFER_DEPTH; unset is 0
          LayerKnobs   \* values of LLAMA_DEFER_LAYERS; unset is 16

IntMax == 2147483647

(* A depth above the bound overflows the int il + defer_depth + 1. *)
ASSUME NLayerAssumption == NLayer \in Nat
ASSUME KnobsAssumption ==
    /\ \A d \in DepthKnobs : d \in Int /\ d <= IntMax - NLayer
    /\ LayerKnobs \subseteq Int

VARIABLES depth, layers, masked,   \* defer_depth, defer_layers, embeddings_nextn_masked
          pc, il,                  \* where the loop is, in which block
          stream, streamRows,      \* inpL / cur
          pending, pendingRows,    \* defer_pending
          inputs                   \* res->t_layer_inp

knobs == <<depth, layers, masked>>
vars == <<knobs, pc, il, stream, streamRows, pending, pendingRows, inputs>>

Block == 0..(NLayer - 1)
Slots == 0..NLayer

Empty == [i \in Block |-> 0]
Plus(f, g) == [i \in Block |-> f[i] + g[i]]
Routed(b) == [i \in Block |-> IF i = b THEN 1 ELSE 0]

(* ggml_add: both operands have the same rows, or one is null. *)
AddRows(r, s) ==
    IF s = "null" THEN r ELSE IF r \in {"null", s} THEN s ELSE "mismatch"

AtLeastZero(n) == IF n < 0 THEN 0 ELSE n
AtMost(n, bound) == IF n > bound THEN bound ELSE n

(* llama_defer_read_env, and the clamp to n_layer after it. *)
DepthOf(d, k) == IF AtLeastZero(k) = 0 THEN 0 ELSE AtLeastZero(d)
LayersOf(d, k) == IF AtLeastZero(d) = 0 THEN 0 ELSE AtMost(AtLeastZero(k), NLayer)

Defers(b) == depth > 0 /\ b < layers

(* Mutants: no tail slot; the join one block early. *)
SlotUnbounded(b) == b + depth + 1
SlotEarly(b) == AtMost(b + depth, NLayer)

(* The slot defer_push puts block b's contribution in. *)
Slot(b) == AtMost(b + depth + 1, NLayer)

Init ==
    /\ \E d \in DepthKnobs, k \in LayerKnobs :
          depth = DepthOf(d, k) /\ layers = LayersOf(d, k)
    /\ masked \in BOOLEAN
    /\ pc = "top" /\ il = 0
    /\ stream = Empty /\ streamRows = "all"
    /\ pending = [s \in Slots |-> Empty]
    /\ pendingRows = [s \in Slots |-> "null"]
    /\ inputs = [b \in Block |-> Empty]

(* What is pending in slot s is added to the stream and the slot cleared.  *)
Deliver(s) ==
    /\ stream' = Plus(stream, pending[s])
    /\ streamRows' = AddRows(streamRows, pendingRows[s])
    /\ pending' = [pending EXCEPT ![s] = Empty]
    /\ pendingRows' = [pendingRows EXCEPT ![s] = "null"]

(* Top of a block: the deferral join point, then t_layer_inp. *)
Join ==
    /\ pc = "top" /\ il < NLayer
    /\ Deliver(il)
    /\ inputs' = [inputs EXCEPT ![il] = stream']
    /\ pc' = "attention"
    /\ UNCHANGED <<knobs, il>>

(* Mutant: the tail slot keeps all its rows. *)
AttentionStreamOnly ==
    /\ pc = "attention"
    /\ pc' = "ffn"
    /\ streamRows' = IF il = NLayer - 1 /\ masked THEN "out" ELSE streamRows
    /\ UNCHANGED <<knobs, il, stream, pending, pendingRows, inputs>>

(* Attention; in the last block the rows may be reduced to the outputs'.   *)
Attention ==
    /\ pc = "attention"
    /\ pc' = "ffn"
    /\ IF il = NLayer - 1 /\ masked
       THEN /\ streamRows' = "out"
            /\ pendingRows' = [pendingRows EXCEPT ![NLayer] = IF @ = "null" THEN @ ELSE "out"]
       ELSE UNCHANGED <<streamRows, pendingRows>>
    /\ UNCHANGED <<knobs, il, stream, pending, inputs>>

(* defer_push *)
Push(b) ==
    /\ pending' = [pending EXCEPT ![Slot(b)] = Plus(@, Routed(b))]
    /\ pendingRows' = [pendingRows EXCEPT ![Slot(b)] = AddRows(@, streamRows)]

(* The experts, fed by this block's own state: joined now or deferred. *)
Ffn ==
    /\ pc = "ffn"
    /\ IF Defers(il)
       THEN Push(il) /\ UNCHANGED stream
       ELSE stream' = Plus(stream, Routed(il)) /\ UNCHANGED <<pending, pendingRows>>
    /\ il' = il + 1
    /\ pc' = "top"
    /\ UNCHANGED <<knobs, streamRows, inputs>>

(* The tail flush, before output_norm. *)
Flush ==
    /\ pc = "top" /\ il = NLayer
    /\ Deliver(NLayer)
    /\ pc' = "guard"
    /\ UNCHANGED <<knobs, il, inputs>>

(* The conservation guard: GGML_ASSERT aborts the process. *)
Guard ==
    /\ pc = "guard"
    /\ pc' = IF \A s \in Slots : pending[s] = Empty THEN "built" ELSE "aborted"
    /\ UNCHANGED <<knobs, il, stream, streamRows, pending, pendingRows, inputs>>

Next == Join \/ Attention \/ Ffn \/ Flush \/ Guard

Spec == Init /\ [][Next]_vars

------------------------------------------------------------------------------
(* Mutant: the log names blocks past the last one. *)
LoggedPastTheEnd(b) == (b + 1)..(b + depth)

(* What the schedule log says of block b: where its contribution joins,    *)
(* and which blocks run without it ("no blk", "blk l", "blk b+1..l").      *)
LoggedTarget(b) == IF b + depth + 1 < NLayer THEN b + depth + 1 ELSE NLayer
LoggedStale(b) ==
    LET last == AtMost(b + depth, NLayer - 1) IN
    IF b + 1 > last THEN {} ELSE IF b + 1 = last THEN {last} ELSE (b + 1)..last

------------------------------------------------------------------------------
(* Properties *)

Sums == [Block -> Nat]
RowKinds == {"all", "out", "mismatch"}

(* Every variable of the graph builder has its type. *)
TypeOK ==
    /\ depth \in Nat /\ layers \in Slots /\ masked \in BOOLEAN
    /\ pc \in {"top", "attention", "ffn", "guard", "built", "aborted"}
    /\ il \in Slots
    /\ stream \in Sums /\ streamRows \in RowKinds
    /\ pending \in [Slots -> Sums] /\ pendingRows \in [Slots -> RowKinds \cup {"null"}]
    /\ inputs \in [Block -> Sums]

(* "Every contribution is delivered exactly once": in the stream that      *)
(* output_norm and the MTP seed read, each block's routed contribution     *)
(* counts once, and the conservation guard never aborts the build.         *)
DeliveredOnce ==
    /\ pc = "built" => stream = [b \in Block |-> 1]
    /\ pc # "aborted"

(* Block b's contribution "is ABSENT from the input of blocks i+1 .. i+d,  *)
(* and PRESENT from block i+d+1 onward", exactly once, for every block the *)
(* loop has entered.                                                       *)
ExactlyDBlocksStale ==
    \A j \in Block : j < il \/ (j = il /\ pc # "top") =>
        \A b \in Block :
            inputs[j][b] = IF b < j /\ (Defers(b) => j > b + depth) THEN 1 ELSE 0

(* The schedule that is logged so that "a measurement run can be audited   *)
(* from the server log alone" is the one the loop follows: at the tail a   *)
(* block's contribution is missing from exactly the inputs the log names,  *)
(* and in the meantime it is pending in the slot the log names.            *)
LogTellsTheSchedule ==
    \A b \in Block : Defers(b) /\ b < il =>
        /\ il = NLayer =>
              {j \in Block : j > b /\ inputs[j][b] = 0} = LoggedStale(b)
        /\ \A s \in Slots : pending[s][b] # 0 => s = LoggedTarget(b)

(* No sum ever mixes all the rows with the reduced ones of the last block, *)
(* which is why the tail slot is reduced along with the stream.            *)
RowsAgree ==
    /\ streamRows # "mismatch"
    /\ \A s \in Slots : pendingRows[s] # "mismatch"
==============================================================================
