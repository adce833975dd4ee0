----------------------------- MODULE MCLoading -----------------------------
(* Configuration files that have up to two lines more than a complete one, or *)
(* another line for one of its lines, so that an option may also occur twice  *)
(* or a needed one be missing; and input files of up to four lines per        *)
(* format, with and without a last newline, and limits below, at and above    *)
(* the number of lines.  The first three ratings are those of two users, the  *)
(* fourth is one user too many.                                               *)
EXTENDS Loading

Set(opt, val) == [opt |-> opt, val |-> <<"ok", val>>]
Bad(opt, val) == [opt |-> opt, val |-> <<"bad", val>>]
Missing(opt, val) == [opt |-> opt, val |-> <<"missing", val>>]

Complete == { Set("load_input_path", "p"), Set("minibatch_size", 2), Set("s3_size", 4),
              Set("learning_rate", 1), Set("s3_bucket", "b"), Set("dataset_format", "csv") }

More == { Set("minibatch_size", 0), Set("minibatch_size", 3), Bad("minibatch_size", 0),
          Missing("minibatch_size", 0), Missing("s3_size", 0), Set("model_type", "LogisticRegression"),
          Set("model_type", "CollaborativeFiltering"), Set("model_type", "Softmax"),
          Bad("model_type", "other"), Set("test_set", <<1, 2>>), Bad("train_set", <<0, 0>>),
          Set("use_grad_threshold", "1"), Bad("use_grad_threshold", "2"),
          Set("grad_threshold", 1), Set("epsilon", 1), Set("model_bits", 0),
          Set("checkpoint_frequency", 1), Set("checkpoint_s3_bucket", "b"),
          Set("opt_method", "other"), Set("#", ""), Set("unknown", "") }

Variants == {Complete \union {a, b} : a \in More, b \in More}
              \union {(Complete \ {a}) \union {b} : a \in Complete, b \in More}

Inputs ==
  [format : {"csv"}, n : {0, 3, 4}, newline : {TRUE}, limit : {3, 9}, normalize : {FALSE}]
  \union [format : {"criteo"}, n : {3}, newline : BOOLEAN, limit : {0, 2, 9},
          normalize : {FALSE}]
  \union [format : {"criteo"}, n : {3}, newline : {TRUE}, limit : {9}, normalize : {TRUE}]
  \union [format : {"criteo"}, n : {4}, newline : {TRUE}, limit : {0}, normalize : {FALSE}]
  \union [format : {"netflix"}, n : {3, 4}, newline : BOOLEAN, limit : {9},
          normalize : {FALSE}]

NoInput == [format |-> "none", n |-> 0, newline |-> TRUE, limit |-> 0, normalize |-> FALSE]

(* Objects of two samples, four columns with the bias among them. *)
Options4 == (Complete \ {Set("minibatch_size", 2), Set("s3_size", 4)}) \union
              {Set("minibatch_size", 1), Set("s3_size", 2), Set("model_bits", 2)}

FileFor(s) ==
  CASE s.format = "criteo" ->
         Options4 \union {Set("model_type", "LogisticRegression"), Set("use_bias", 1),
                          Set("limit_samples", s.limit), Set("load_input_type", "csv"),
                          Set("normalize", IF s.normalize THEN 1 ELSE 0)}
    [] s.format = "netflix" ->
         Options4 \union {Set("model_type", "CollaborativeFiltering")}
    [] s.format = "csv" -> {}

(* One job has no type of its input. *)
MCJobs ==
  {[file |-> f, setup |-> NoInput] : f \in Variants}
  \union {[file |-> FileFor(s), setup |-> s] : s \in Inputs}
  \union {[file |-> FileFor(s) \ {Set("load_input_type", "csv")}, setup |-> s] :
            s \in {t \in Inputs : t.format = "criteo" /\ t.n = 4}}

MCFiles == {j.file : j \in MCJobs}
MCSetups == {j.setup : j \in MCJobs}

MCRatings == << [user |-> 7, movie |-> 1, rating |-> 3],
                [user |-> 9, movie |-> 2, rating |-> 4],
                [user |-> 7, movie |-> 2, rating |-> 5],
                [user |-> 8, movie |-> 1, rating |-> 1] >>

MCColumns == << [label |-> 1, fields |-> <<0, 5, 2>>],
                [label |-> 0, fields |-> <<1, 1>>],
                [label |-> 1, fields |-> <<6>>],
                [label |-> 1, fields |-> <<3>>] >>
=============================================================================
