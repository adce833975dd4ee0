------------------------ MODULE MatrixFactorization ------------------------
(* Collaborative filtering as pure operators: MFModel.cpp, SparseMFModel.cpp, *)
(* the sparse gradient of ModelGradient.cpp and the messages of               *)
(* PSSparseServerInterface.cpp.  Floating-point numbers are integers, a       *)
(* message the sequence of its 4-byte words.  A model is a function from      *)
(* cells: the bias and the factors of a user and of an item.                  *)
EXTENDS Integers, Sequences, SequencesExt, FiniteSets, FiniteSetsExt

CONSTANTS NumFactors,   \* NUM_FACTORS, nfactors_
          GlobalBias,   \* global_bias_
          Rate,         \* learning_rate
          Reg,          \* the four regularisation parameters of SparseMFModel, all 0.05
          MagicNumber   \* MAGIC_NUMBER

ASSUME NumFactorsAssumption == NumFactors \in Nat \ {0}
ASSUME NumbersAssumption == {GlobalBias, Rate, Reg, MagicNumber} \subseteq Int

EndMagic == 4920        \* 0x1338
Factors == 0 .. (NumFactors - 1)

(* Place 0 of a user or an item is the bias, place k + 1 its factor k. *)
Bias(kind, id) == <<kind, id, 0>>
Weight(kind, id, k) == <<kind, id, k + 1>>
CellsOf(kind, id) == {Bias(kind, id)} \union {Weight(kind, id, k) : k \in Factors}
CellSeq(kind, id) == <<Bias(kind, id)>> \o [k \in 1 .. NumFactors |-> Weight(kind, id, k - 1)]
Cells(users, items) ==
  (UNION {CellsOf("user", u) : u \in users}) \union (UNION {CellsOf("item", m) : m \in items})

Items(rows) == {f[1] : f \in UNION {ToSet(r) : r \in ToSet(rows)}}

(* The items of the rows in the order in which they first occur. *)
ItemOrder(rows) ==
  FoldLeft(LAMBDA acc, f : IF Contains(acc, f[1]) THEN acc ELSE Append(acc, f[1]),
           <<>>, FlattenSeq(rows))

-----------------------------------------------------------------------------
(* Learning.  Rows are sequences of pairs <<item, rating>>, one per user from *)
(* base on.                                                                   *)

predict(m, user, item) ==
  FoldLeft(LAMBDA res, k : res + m[Weight("user", user, k)] * m[Weight("item", item, k)],
           GlobalBias + m[Bias("user", user)] + m[Bias("item", item)],
           [k \in 1 .. NumFactors |-> k - 1])

(* What one rating changes: the item's factors move with the user's factors   *)
(* as they are after their own update.                                        *)
Deltas(m, user, item, rating) ==
  LET error == rating - predict(m, user, item)
      delta_user_w(k) == Rate * (error * m[Weight("item", item, k)]
                                   - Reg * m[Weight("user", user, k)])
      delta_item_w(k) ==
        Rate * (error * (m[Weight("user", user, k)] + delta_user_w(k))
                  - Reg * m[Weight("item", item, k)])
  IN [c \in CellsOf("user", user) \union CellsOf("item", item) |->
        CASE c[3] = 0 -> Rate * (error - Reg * m[c])
          [] c[3] > 0 /\ c[1] = "user" -> delta_user_w(c[3] - 1)
          [] OTHER -> delta_item_w(c[3] - 1)]

Plus(m, d) == [c \in DOMAIN m |-> IF c \in DOMAIN d THEN m[c] + d[c] ELSE m[c]]

(* <<position of the user from 1, item, rating>> in the order of the loops. *)
RatingSeq(rows) ==
  FlattenSeq([i \in 1 .. Len(rows) |->
                [j \in 1 .. Len(rows[i]) |-> <<i, rows[i][j][1], rows[i][j][2]>>]])

(* One rating of SparseMFModel::minibatch_grad: the worker's own model is     *)
(* moved along, the gradient adds up what changed.                            *)
GradientStep(st, base, r) ==
  LET d == Deltas(st.m, base + r[1] - 1, r[2], r[3])
  IN [m |-> Plus(st.m, d), g |-> Plus(st.g, d)]

(* The worker's own model after the minibatch (m) and the gradient (g); a     *)
(* user without ratings has an entry in the gradient too.                     *)
minibatch_grad(m, base, rows) ==
  FoldLeft(LAMBDA st, r : GradientStep(st, base, r),
           [m |-> m, g |-> [c \in Cells(base .. (base + Len(rows) - 1), Items(rows)) |-> 0]],
           RatingSeq(rows))

(* Sum of the squared errors; rows start at user start_index. *)
calc_loss(m, rows, start_index) ==
  FoldSeq(LAMBDA r, n : n + (r[3] - predict(m, start_index + r[1] - 1, r[2]))
                              * (r[3] - predict(m, start_index + r[1] - 1, r[2])),
          0, RatingSeq(rows))

-----------------------------------------------------------------------------
(* Messages.                                                                  *)

Values(m, cells) == [i \in 1 .. Len(cells) |-> m[cells[i]]]

(* MFSparseGradient::serialize: the counts, the biases of users and items,    *)
(* their factors, a final mark.  The biases are in the order of a hash map,   *)
(* here of the users and items.                                               *)
MFGradientWords(g, users, items) ==
  LET ids(kind) == IF kind = "user" THEN users ELSE items
      biases(kind) == FlattenSeq([i \in 1 .. Len(ids(kind)) |->
                                    <<ids(kind)[i], g[Bias(kind, ids(kind)[i])]>>])
      weights(kind) == FlattenSeq([i \in 1 .. Len(ids(kind)) |->
                         <<ids(kind)[i]>> \o Tail(Values(g, CellSeq(kind, ids(kind)[i])))])
  IN <<MagicNumber, Len(users), Len(items)>> \o biases("user") \o biases("item")
       \o weights("user") \o weights("item") \o <<EndMagic>>

(* MFSparseGradient::loadSerialized, as the entries <<cell, value>> in the    *)
(* order in which MFModel::sgd_update applies them.                           *)
loadMFGradient(words) ==
  LET nu == words[2]  ni == words[3]
      block == 1 + NumFactors
      bias(kind, at) == <<Bias(kind, words[at]), words[at + 1]>>
      weight(kind, from, i) ==    \* entry i (from 0) of the factors that start at from
        LET at == from + block * (i \div NumFactors) IN
        <<Weight(kind, words[at], i % NumFactors), words[at + 1 + (i % NumFactors)]>>
      from == 4 + 2 * (nu + ni)
  IN [i \in 1 .. nu |-> bias("user", 2 + 2 * i)]
       \o [i \in 1 .. ni |-> bias("item", 2 + 2 * nu + 2 * i)]
       \o [i \in 1 .. (nu * NumFactors) |-> weight("user", from, i - 1)]
       \o [i \in 1 .. (ni * NumFactors) |-> weight("item", from + nu * block, i - 1)]

(* get_sparse_mf_model: number of items, first user, minibatch size, mark,    *)
(* items (each once).                                                         *)
MFRequestWords(base, rows, minibatch_size) ==
  <<Len(ItemOrder(rows)), base, minibatch_size, MagicNumber>> \o ItemOrder(rows)

(* The cells the request asks for, in the order of serializeFromDense. *)
MFRequestCells(words) ==
  FlattenSeq([i \in 1 .. words[3] |-> CellSeq("user", words[2] + i - 1)])
    \o FlattenSeq([i \in 1 .. words[1] |-> CellSeq("item", words[4 + i])])

(* SparseMFModel::serializeFromDense, given the values of those cells: an id  *)
(* before each bias; loadSerialized turns the reply into the worker's model.  *)
MFReplyWords(cells, values) ==
  FlattenSeq([i \in 1 .. Len(cells) |->
                IF cells[i][3] = 0 THEN <<cells[i][2], values[i]>> ELSE <<values[i]>>])

loadSparseMF(words, base, minibatch_size, num_items) ==
  LET block == 2 + NumFactors
      n == minibatch_size + num_items
      start(i) == 1 + block * (i - 1)
      kind(i) == IF i <= minibatch_size THEN "user" ELSE "item"
      \* users are known by their place, items by their id
      id(i) == IF i <= minibatch_size THEN base + i - 1 ELSE words[start(i)]
      at(c) == CHOOSE i \in 1 .. n : kind(i) = c[1] /\ id(i) = c[2]
  IN [c \in UNION {CellsOf(kind(i), id(i)) : i \in 1 .. n} |->
        words[start(at(c)) + 1 + c[3]]]

(* MFModel::serializeTo and loadSerialized; the header has 8-byte numbers. *)
MFModelWords(m, nusers, nitems) ==
  LET side(kind, n) == FlattenSeq([i \in 1 .. n |-> Tail(Values(m, CellSeq(kind, i - 1)))])
  IN <<nusers, 0, nitems, 0, NumFactors, 0>>
       \o [i \in 1 .. nusers |-> m[Bias("user", i - 1)]]
       \o [i \in 1 .. nitems |-> m[Bias("item", i - 1)]]
       \o side("user", nusers) \o side("item", nitems)

loadMFModel(words) ==
  LET nu == words[1]  ni == words[3]
      off(kind) == IF kind = "user" THEN 0 ELSE nu
      woff(kind) == IF kind = "user" THEN 0 ELSE nu * NumFactors
  IN [c \in Cells(0 .. (nu - 1), 0 .. (ni - 1)) |->
        IF c[3] = 0 THEN words[7 + off(c[1]) + c[2]]
        ELSE words[7 + nu + ni + woff(c[1]) + NumFactors * c[2] + c[3] - 1]]
=============================================================================
