------------------------------ MODULE SparseLR ------------------------------
(* Logistic regression as pure operators: SparseLRModel.cpp, the sparse       *)
(* gradient of ModelGradient.cpp, the messages of                             *)
(* PSSparseServerInterface.cpp and the optimisation methods.  Floating-point  *)
(* numbers are integers, a message the sequence of its 4-byte words.  A       *)
(* minibatch is a sequence of samples [label, feats], feats a sequence of     *)
(* pairs <<index, value>>.                                                    *)
EXTENDS Integers, Sequences, SequencesExt, FiniteSets, FiniteSetsExt

(* A pair <<key, value>> is an entry of a std::vector or std::map.            *)
Sum(entries) == FoldLeft(LAMBDA n, e : n + e[2], 0, entries)

(* All features of a minibatch in order. *)
Features(minibatch) == FlattenSeq([i \in 1 .. Len(minibatch) |-> minibatch[i].feats])
Indices(minibatch) == {f[1] : f \in ToSet(Features(minibatch))}

(* The sigmoid, at the precision of integers; a float saturates as well. *)
s_1(x) == IF x > 0 THEN 1 ELSE 0

(* weights is any function on the indices of the sample. *)
dot_product(feats, weights) ==
  Sum([j \in 1 .. Len(feats) |-> <<feats[j][1], feats[j][2] * weights[feats[j][1]]>>])

(* part2: how far each prediction is from its label. *)
Residuals(minibatch, weights) ==
  [i \in 1 .. Len(minibatch) |->
     minibatch[i].label - s_1(dot_product(minibatch[i].feats, weights))]

(* part3: the residuals collected per index, added to what the vector held. *)
Collect(minibatch, part2, part3) ==
  [c \in DOMAIN part3 |->
     part3[c] +
       Sum([i \in 1 .. Len(minibatch) |->
              LET feats == minibatch[i].feats
              IN <<c, Sum([j \in 1 .. Len(feats) |->
                             <<c, IF feats[j][1] = c THEN feats[j][2] * part2[i] ELSE 0>>])>>])]

(* The dense gradient: every index of the minibatch, as a function. *)
minibatch_grad(minibatch, weights, epsilon) ==
  LET part3 == Collect(minibatch, Residuals(minibatch, weights),
                       [c \in Indices(minibatch) |-> 0])
  IN [c \in Indices(minibatch) |-> part3[c] + weights[c] * 2 * epsilon]

Abs(x) == IF x < 0 THEN -x ELSE x

(* The sparse one walks the indices in the order of the samples, with their   *)
(* duplicates.  A sum that is used is cleared in the scratch vector part3,    *)
(* which the next call starts from; a sum of 0 is skipped.  Values at most    *)
(* the threshold are left out (NoThreshold: grad_threshold_use is off).       *)
NoThreshold == -1

(* A plausible bug: what the threshold leaves out stays in the vector. *)
SparseStepKeeps(st, c, weights, epsilon, threshold) ==
  LET final_grad == st.part3[c] + weights[c] * 2 * epsilon IN
  IF st.part3[c] = 0 \/ Abs(final_grad) <= threshold THEN st
  ELSE [part3 |-> [st.part3 EXCEPT ![c] = 0], grad |-> Append(st.grad, <<c, final_grad>>)]

SparseStep(st, c, weights, epsilon, threshold) ==
  LET final_grad == st.part3[c] + weights[c] * 2 * epsilon IN
  IF st.part3[c] = 0 THEN st
  ELSE [part3 |-> [st.part3 EXCEPT ![c] = 0],
        grad |-> IF Abs(final_grad) > threshold THEN Append(st.grad, <<c, final_grad>>)
                 ELSE st.grad]

minibatch_grad_sparse(minibatch, weights, epsilon, threshold, scratch) ==
  FoldLeft(LAMBDA st, f : SparseStep(st, f[1], weights, epsilon, threshold),
           [part3 |-> Collect(minibatch, Residuals(minibatch, weights), scratch),
            grad |-> <<>>],
           Features(minibatch))

(* calc_loss: the samples that the model puts into the wrong class; the loss  *)
(* is abstracted to their number.                                             *)
calc_loss(minibatch, weights) ==
  Cardinality({i \in 1 .. Len(minibatch) : Residuals(minibatch, weights)[i] # 0})

-----------------------------------------------------------------------------
(* Messages.                                                                  *)

(* The receiver of a gradient and of a reply asserts this of the number of    *)
(* weights.                                                                   *)
CountOK(n) == 0 < n /\ n < 10000000

(* LRSparseGradient::serialize and loadSerialized. *)
LRGradientWords(version, grad) == <<version, Len(grad)>> \o FlattenSeq(grad)

loadLRGradient(words) ==
  [i \in 1 .. words[2] |-> <<words[2 * i + 1], words[2 * i + 2]>>]

(* get_lr_sparse_model_inplace: the number of weights and their indices, as   *)
(* often as they occur; the reply has a weight for each.  loadSerializedSparse*)
(* enters them into the worker's model, where others stay as they were.       *)
LRRequestWords(minibatch) ==
  LET f == Features(minibatch) IN <<Len(f)>> \o [i \in 1 .. Len(f) |-> f[i][1]]

loadSerializedSparse(request, reply, model) ==
  [c \in DOMAIN model |->
     LET at == {i \in 1 .. request[1] : request[i + 1] = c}
     IN IF at = {} THEN model[c] ELSE reply[Max(at)]]

(* SparseLRModel::serializeTo and loadSerialized. *)
LRModelWords(weights, d) == <<d>> \o [i \in 1 .. d |-> weights[i - 1]]
loadLRModel(words) == [c \in 0 .. (words[1] - 1) |-> words[c + 2]]
=============================================================================
