--------------------------- MODULE Configuration ---------------------------
(* Start of a process: parameter_server.cpp reads the configuration file      *)
(* (Configuration.cpp) and runs the task of its rank.  A file is a set of     *)
(* lines that are read in any order.  A line is [opt, val], val a pair of     *)
(* what extraction finds ("ok", "bad" for a word that the option does not     *)
(* take, "missing") and the value.                                            *)
EXTENDS Integers, FiniteSets

CONSTANTS Files,       \* sets of lines
          NWorkers     \* nworkers

Numbers == {"minibatch_size", "s3_size", "learning_rate", "epsilon", "limit_samples",
            "limit_cols", "model_bits", "grad_threshold", "netflix_workers",
            "checkpoint_frequency", "num_users", "num_items", "num_features",
            "num_classes", "n_workers", "momentum_beta", "use_bias", "normalize"}
Words == {"load_input_path", "load_input_type", "samples_path", "labels_path",
          "s3_bucket", "s3_dataset_key", "dataset_format", "opt_method",
          "checkpoint_s3_bucket", "checkpoint_s3_keyname"}
Ranges == {"train_set", "test_set"}
Options == Numbers \union Words \union Ranges \union {"model_type", "use_grad_threshold"}

Ignored == {"#", ""}    \* a comment, a line of white space

(* Members of type double or int; the others are unsigned or Boolean. *)
Signed == {"learning_rate", "epsilon", "grad_threshold", "momentum_beta", "num_users",
           "num_items"}
Models == {"LogisticRegression", "Softmax", "CollaborativeFiltering"}

(* A value that is extracted is one the type of the option has. *)
LineOK(line) ==
  /\ line.val[1] \in {"ok", "bad", "missing"}
  /\ line.val[1] = "ok" =>
       /\ line.opt \in Numbers => line.val[2] \in IF line.opt \in Signed THEN Int ELSE Nat
       /\ line.opt \in Ranges => line.val[2] \in Int \X Int
       /\ line.opt = "model_type" => line.val[2] \in Models

ASSUME NWorkersAssumption == NWorkers \in Nat
ASSUME FilesAssumption == \A lines \in Files : \A line \in lines : LineOK(line)

VARIABLES left,       \* lines that have not been read
          file,
          rank,       \* of the process, looked at in run_tasks
          num, word, range, model_type, use_grad_threshold,    \* the configuration
          status      \* "reading", "print", "check", "accepted", "runs", or how it ended

conf == <<num, word, range, model_type, use_grad_threshold>>
confVars == <<left, file, rank, conf, status>>

(* The initialisers of the members; the constructors set the two to -1. *)
NumberDefault(o) ==
  CASE o \in {"learning_rate", "epsilon"} -> -1 [] o = "model_bits" -> 20 [] OTHER -> 0
WordDefault(o) == IF o = "opt_method" THEN "adagrad" ELSE ""

ConfInit ==
  /\ file \in Files /\ left = file
  /\ rank = -1
  /\ num = [o \in Numbers |-> NumberDefault(o)]
  /\ word = [o \in Words |-> WordDefault(o)]
  /\ range = [o \in Ranges |-> <<0, 0>>]
  /\ model_type = "UNKNOWN"
  /\ use_grad_threshold = FALSE
  /\ status = "reading"

-----------------------------------------------------------------------------
(* What iss >> leaves in a number: 0 when the word is not one, and the old    *)
(* value when there is no word.                                               *)
Extracted(line) ==
  CASE line.val[1] = "ok" -> line.val[2]
    [] line.val[1] = "bad" -> 0
    [] line.val[1] = "missing" -> num[line.opt]

(* A plausible bug: the sizes are compared only when the object size is read. *)
SizesFitOneWay(o, n) ==
  CASE o = "s3_size" /\ n["minibatch_size"] # 0 ->
         IF n["s3_size"] % n["minibatch_size"] = 0 THEN "fit" ELSE "throw"
    [] OTHER -> "fit"

(* The two sizes, compared as soon as one of them is read.  A remainder of a  *)
(* division by 0 stops the process, before a failed extraction is noticed.    *)
SizesFit(o, n) ==
  CASE o = "minibatch_size" /\ n["s3_size"] # 0 ->
         IF n["minibatch_size"] = 0 THEN "crash"
         ELSE IF n["s3_size"] % n["minibatch_size"] = 0 THEN "fit" ELSE "throw"
    [] o = "s3_size" /\ n["minibatch_size"] # 0 ->
         IF n["s3_size"] % n["minibatch_size"] = 0 THEN "fit" ELSE "throw"
    [] OTHER -> "fit"

(* What a line leads to when only the extraction can fail. *)
Plain(line) == IF line.val[1] = "ok" THEN "reading" ELSE "throw"

ParseNumber(line) ==
  LET n == [num EXCEPT ![line.opt] = Extracted(line)] IN
  /\ line.opt \in Numbers
  /\ num' = n
  /\ status' = IF SizesFit(line.opt, n) = "fit" THEN Plain(line) ELSE SizesFit(line.opt, n)
  /\ UNCHANGED <<word, range, model_type, use_grad_threshold>>

ParseWord(line) ==
  /\ line.opt \in Words
  /\ word' = IF line.val[1] = "ok" THEN [word EXCEPT ![line.opt] = line.val[2]] ELSE word
  /\ status' = Plain(line)
  /\ UNCHANGED <<num, range, model_type, use_grad_threshold>>

(* Either end of a range that is not a number is 0; without a "-" it throws. *)
ParseRange(line) ==
  /\ line.opt \in Ranges
  /\ range' = IF line.val[1] = "ok" THEN [range EXCEPT ![line.opt] = line.val[2]] ELSE range
  /\ status' = Plain(line)
  /\ UNCHANGED <<num, word, model_type, use_grad_threshold>>

ParseModelType(line) ==
  /\ line.opt = "model_type"
  /\ IF line.val[1] = "ok"     \* one of Models
     THEN model_type' = line.val[2] /\ status' = "reading"
     ELSE model_type' = model_type /\ status' = "throw"
  /\ UNCHANGED <<num, word, range, use_grad_threshold>>

ParseThreshold(line) ==
  /\ line.opt = "use_grad_threshold"
  /\ IF line.val[1] = "ok"     \* 0 or 1
     THEN use_grad_threshold' = (line.val[2] = "1") /\ status' = "reading"
     ELSE use_grad_threshold' = use_grad_threshold /\ status' = "throw"
  /\ UNCHANGED <<num, word, range, model_type>>

ParseOther(line) ==
  /\ line.opt \notin Options
  /\ status' = IF line.opt \in Ignored THEN "reading" ELSE "throw"
  /\ UNCHANGED conf

parse_line(line) ==
  /\ status = "reading" /\ line \in left
  /\ left' = left \ {line}
  /\ \/ ParseNumber(line) \/ ParseWord(line) \/ ParseRange(line)
     \/ ParseModelType(line) \/ ParseThreshold(line) \/ ParseOther(line)
  /\ UNCHANGED <<file, rank>>

EndOfFile ==
  /\ status = "reading" /\ left = {}
  /\ status' = "print"
  /\ UNCHANGED <<left, file, rank, conf>>

(* print() uses getters that throw when the option was never set. *)
print ==
  /\ status = "print"
  /\ status' = IF \/ word["load_input_path"] = ""
                  \/ num["minibatch_size"] = 0 \/ num["s3_size"] = 0
                  \/ num["learning_rate"] = -1
               THEN "throw" ELSE "check"
  /\ UNCHANGED <<left, file, rank, conf>>

CheckpointNamed ==
  num["checkpoint_frequency"] > 0 =>
    word["checkpoint_s3_bucket"] # "" /\ word["checkpoint_s3_keyname"] # ""

check ==
  /\ status = "check"
  /\ status' = IF /\ word["s3_bucket"] # ""
                  /\ word["dataset_format"] \in {"csv", "libsvm", "svmlight", "binary"}
                  /\ ~(range["test_set"][1] # 0 /\ model_type = "CollaborativeFiltering")
                  /\ ~(use_grad_threshold /\ num["grad_threshold"] = 0)
                  /\ num["model_bits"] # 0
                  /\ word["opt_method"] \in {"adagrad", "nesterov", "momentum", "sgd"}
                  /\ CheckpointNamed
               THEN "accepted" ELSE "throw"
  /\ UNCHANGED <<left, file, rank, conf>>

(* The task of the rank: 0 loads, 1 serves, 2 evaluates, the next NWorkers    *)
(* train.  The server and a worker of LogisticRegression ask for epsilon,     *)
(* all but the server for the type of the model.                              *)
run_tasks(r) ==
  /\ status = "accepted"
  /\ rank' = r
  /\ status' = IF \/ r = 1 /\ num["epsilon"] # -1
                  \/ /\ r \in {0, 2} \union (3 .. (2 + NWorkers))
                     /\ model_type \in {"LogisticRegression", "CollaborativeFiltering"}
                     /\ r >= 3 /\ model_type = "LogisticRegression" => num["epsilon"] # -1
               THEN "runs" ELSE "dies"
  /\ UNCHANGED <<left, file, conf>>

ConfNext ==
  \/ \E line \in left : parse_line(line)
  \/ EndOfFile \/ print \/ check
  \/ \E r \in 0 .. (3 + NWorkers) : run_tasks(r)

-----------------------------------------------------------------------------
ConfTypeOK ==
  /\ left \subseteq file
  /\ status \in {"print", "check", "accepted", "runs", "dies"} => left = {}
  /\ num \in [Numbers -> Int] /\ \A o \in Numbers \ Signed : num[o] \in Nat
  /\ word \in [Words -> {"", "adagrad"} \union
                        {line.val[2] : line \in {a \in file : a.opt \in Words}}]
  /\ range \in [Ranges -> Int \X Int]
  /\ model_type \in Models \union {"UNKNOWN"}
  /\ use_grad_threshold \in BOOLEAN
  /\ status \in {"reading", "print", "check", "accepted", "runs", "dies", "throw", "crash"}

(* What a file says about an option, whatever the order of its lines. *)
SaysIn(lines, opt, default) ==
  IF \E line \in lines : line.opt = opt
  THEN (CHOOSE line \in lines : line.opt = opt).val[2] ELSE default

Says(opt, default) == SaysIn(file, opt, default)

OncePerOption ==
  \A a, b \in file : a.opt = b.opt /\ a.opt \notin Ignored => a = b

Understood ==
  \A line \in file :
    \/ line.opt \in Ignored
    \/ line.opt \in Options /\ line.val[1] = "ok"

(* What the tasks need of their sizes, names and switches.  The model type    *)
(* and epsilon are not part of it: nothing asks for them before they are used.*)
Usable ==
  LET minibatch == Says("minibatch_size", 0)
      s3_size == Says("s3_size", 0)
      model == Says("model_type", "UNKNOWN")
  IN /\ minibatch > 0 /\ s3_size > 0 /\ s3_size % minibatch = 0
     /\ Says("load_input_path", "") # "" /\ Says("s3_bucket", "") # ""
     /\ Says("learning_rate", -1) # -1 /\ Says("model_bits", 20) > 0
     /\ Says("opt_method", "adagrad") \in {"adagrad", "nesterov", "momentum", "sgd"}
     /\ Says("dataset_format", "") \in {"csv", "libsvm", "svmlight", "binary"}
     /\ Says("use_grad_threshold", "0") = "1" => Says("grad_threshold", 0) # 0
     /\ model = "CollaborativeFiltering" => Says("test_set", <<0, 0>>)[1] = 0
     /\ Says("checkpoint_frequency", 0) > 0 =>
          Says("checkpoint_s3_bucket", "") # "" /\ Says("checkpoint_s3_keyname", "") # ""

(* A file with each option at most once is accepted exactly when every line   *)
(* is understood and what they say together is Usable, in whichever order the *)
(* lines come (Configuration.cpp:41-237).                                     *)
AcceptedIffUsable ==
  OncePerOption /\ status \in {"accepted", "runs", "dies", "throw", "crash"} =>
    (status \in {"accepted", "runs", "dies"} <=> Understood /\ Usable)

(* Also with repeated options, what is accepted has an object size that is a  *)
(* multiple of the minibatch size: the workers and the iterators divide one   *)
(* by the other.                                                              *)
AcceptedSizesFit ==
  status \in {"accepted", "runs", "dies"} =>
    num["minibatch_size"] > 0 /\ num["s3_size"] % num["minibatch_size"] = 0

(* The process divides by zero only for a minibatch size that is 0, no number *)
(* or missing, with an object size in the file as well (line 121).            *)
CrashOnlyByZero ==
  status = "crash" =>
    /\ \E a \in file : a.opt = "minibatch_size" /\ (a.val[1] # "ok" \/ a.val[2] = 0)
    /\ \E a \in file : a.opt = "s3_size"

(* The verdict on a configuration file does not depend on luck: accepted is   *)
(* what can be used, and what ends the process is known.                      *)
VerdictSound == AcceptedIffUsable /\ AcceptedSizesFit /\ CrashOnlyByZero
=============================================================================
