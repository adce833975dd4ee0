--------------------------- MODULE LoadingProofs ---------------------------
(* For every set of configuration files, every number of threads, every input *)
(* and every interleaving: the verdict on a configuration is sound, the       *)
(* readers return the lines they should, and what is put into the bucket      *)
(* decodes to the data set.                                                   *)
EXTENDS Loading, FiniteSetTheorems, WellFoundedInduction, TLAPS

-----------------------------------------------------------------------------
(* The verdict on a configuration file.                                       *)

Read == file \ left

(* The value v of opt is the default or what one of the lines says. *)
Holds(lines, opt, v, default) ==
  IF \E a \in lines : a.opt = opt
  THEN \E a \in lines : a.opt = opt /\ a.val[2] = v
  ELSE v = default

LineUnderstood(a) == a.opt \in Ignored \/ (a.opt \in Options /\ a.val[1] = "ok")

ConfHolds ==
  /\ \A a \in Read : LineUnderstood(a)
  /\ \A o \in Numbers : Holds(Read, o, num[o], NumberDefault(o))
  /\ \A o \in Words : Holds(Read, o, word[o], WordDefault(o))
  /\ \A o \in Ranges : Holds(Read, o, range[o], <<0, 0>>)
  /\ Holds(Read, "model_type", model_type, "UNKNOWN")
  /\ \/ use_grad_threshold /\ Holds(Read, "use_grad_threshold", "1", "0")
     \/ /\ ~use_grad_threshold
        /\ \E v : v # "1" /\ Holds(Read, "use_grad_threshold", v, "0")

SizesAgree ==
  num["minibatch_size"] # 0 /\ num["s3_size"] # 0 =>
    num["s3_size"] % num["minibatch_size"] = 0

Printable ==
  /\ word["load_input_path"] # "" /\ num["minibatch_size"] # 0 /\ num["s3_size"] # 0
  /\ num["learning_rate"] # -1

Checked ==
  /\ word["s3_bucket"] # ""
  /\ word["dataset_format"] \in {"csv", "libsvm", "svmlight", "binary"}
  /\ ~(range["test_set"][1] # 0 /\ model_type = "CollaborativeFiltering")
  /\ ~(use_grad_threshold /\ num["grad_threshold"] = 0)
  /\ num["model_bits"] # 0
  /\ word["opt_method"] \in {"adagrad", "nesterov", "momentum", "sgd"}
  /\ CheckpointNamed

Rejected == OncePerOption => ~(Understood /\ Usable)

ConfTyped == ConfTypeOK /\ file \in Files

ConfInv ==
  /\ ConfTyped
  /\ status \notin {"throw", "crash"} => ConfHolds /\ SizesAgree
  /\ status \in {"check", "accepted", "runs", "dies"} => Printable
  /\ status \in {"accepted", "runs", "dies"} => Checked
  /\ status \in {"throw", "crash"} => Rejected
  /\ CrashOnlyByZero

LEMMA OptionSets ==
  /\ {"minibatch_size", "s3_size", "learning_rate", "epsilon", "model_bits",
      "grad_threshold", "checkpoint_frequency"} \subseteq Numbers
  /\ {"minibatch_size", "s3_size", "model_bits", "checkpoint_frequency"}
       \subseteq Numbers \ Signed
  /\ {"load_input_path", "s3_bucket", "dataset_format", "opt_method",
      "checkpoint_s3_bucket", "checkpoint_s3_keyname"} \subseteq Words
  /\ "test_set" \in Ranges
  /\ \A o \in Ignored : o \notin Options
  /\ Numbers \subseteq Options /\ Words \subseteq Options /\ Ranges \subseteq Options
  /\ {"model_type", "use_grad_threshold"} \subseteq Options
  /\ \A o \in Numbers : o \notin Words /\ o \notin Ranges
  /\ \A o \in Words : o \notin Ranges
  /\ \A o \in {"model_type", "use_grad_threshold"} :
       o \notin Numbers /\ o \notin Words /\ o \notin Ranges
<1> USE DEF Numbers, Words, Ranges, Signed, Ignored
<1>1. \A o \in Ignored : o \notin Numbers /\ o \notin Words /\ o \notin Ranges
  OBVIOUS
<1>2. \A o \in Ignored : o \notin Options
  BY <1>1 DEF Options
<1>3. \A o \in Numbers : o \notin Words /\ o \notin Ranges
  OBVIOUS
<1>4. \A o \in Words : o \notin Ranges
  OBVIOUS
<1> QED
  BY <1>2, <1>3, <1>4 DEF Options

LEMMA Remainder ==
  ASSUME NEW a \in Nat, NEW b \in Nat \ {0}
  PROVE  a % b \in Nat
OBVIOUS

(* A value that a line gave is what the file says of its option. *)
LEMMA SaysIsGiven ==
  ASSUME OncePerOption, NEW a \in file, a.opt \notin Ignored, NEW default
  PROVE  Says(a.opt, default) = a.val[2]
<1> DEFINE c == CHOOSE ln \in file : ln.opt = a.opt
<1>1. c \in file /\ c.opt = a.opt
  OBVIOUS
<1> HIDE DEF c
<1>2. c = a
  BY <1>1 DEF OncePerOption
<1>3. Says(a.opt, default) = c.val[2]
  BY DEF Says, SaysIn, c
<1> QED
  BY <1>2, <1>3

LEMMA SaysWhatHolds ==
  ASSUME OncePerOption, NEW opt \in Options, NEW v, NEW default,
         NEW lines, lines \subseteq file, Holds(lines, opt, v, default),
         lines = file \/ v # default
  PROVE  Says(opt, default) = v
<1>1. opt \notin Ignored
  BY OptionSets
<1>2. CASE \E a \in lines : a.opt = opt
  <2>1. PICK a \in lines : a.opt = opt /\ a.val[2] = v
    BY <1>2 DEF Holds
  <2>2. a \in file
    BY <2>1
  <2> QED
    BY <1>1, <2>1, <2>2, SaysIsGiven
<1>3. CASE ~\E a \in lines : a.opt = opt
  <2>1. v = default /\ lines = file
    BY <1>3 DEF Holds
  <2> QED
    BY <1>3, <2>1 DEF Says, SaysIn
<1> QED
  BY <1>2, <1>3

LEMMA HoldsStill ==
  ASSUME NEW lines, NEW a, NEW opt, NEW v, NEW default,
         Holds(lines, opt, v, default), a.opt # opt
  PROVE  Holds(lines \union {a}, opt, v, default)
BY DEF Holds

LEMMA HoldsNow ==
  ASSUME NEW lines, NEW a, NEW default
  PROVE  Holds(lines \union {a}, a.opt, a.val[2], default)
BY DEF Holds

LEMMA ConfInvInit == ASSUME ConfInit PROVE ConfInv
<1>1. Read = {} /\ left = file
  BY DEF ConfInit, Read
<1>2. num \in [Numbers -> Int] /\ \A o \in Numbers : num[o] = NumberDefault(o)
  <2>1. num = [o \in Numbers |-> NumberDefault(o)]
    BY DEF ConfInit, NumberDefault
  <2>2. \A o \in Numbers : NumberDefault(o) \in Int
    BY DEF NumberDefault
  <2> QED
    BY <2>1, <2>2
<1>3. \A o \in Numbers \ Signed : num[o] \in Nat
  BY <1>2 DEF NumberDefault, Signed
<1>4. /\ word = [o \in Words |-> WordDefault(o)]
      /\ \A o \in Words : word[o] \in {"", "adagrad"}
  BY DEF ConfInit, WordDefault
<1>5. range \in [Ranges -> Int \X Int] /\ \A o \in Ranges : range[o] = <<0, 0>>
  <2>1. <<0, 0>> \in Int \X Int
    OBVIOUS
  <2> QED
    BY <2>1 DEF ConfInit
<1>6. ConfTyped
  BY <1>1, <1>2, <1>3, <1>4, <1>5 DEF ConfInit, ConfTyped, ConfTypeOK
<1>7. ConfHolds
  <2>1. \A opt, default : Holds({}, opt, default, default)
    BY DEF Holds
  <2>2. model_type = "UNKNOWN" /\ ~use_grad_threshold /\ "0" # "1"
    BY DEF ConfInit
  <2> QED
    BY <1>1, <1>2, <1>4, <1>5, <2>1, <2>2 DEF ConfHolds
<1>8. num["s3_size"] = 0 /\ status = "reading"
  BY <1>2, OptionSets DEF NumberDefault, ConfInit
<1> QED
  BY <1>6, <1>7, <1>8 DEF ConfInv, SizesAgree, CrashOnlyByZero

(* A line that is not understood, and the file it is in. *)
LEMMA NotUnderstood ==
  ASSUME NEW a \in file, ~LineUnderstood(a)
  PROVE  Rejected
BY DEF LineUnderstood, Rejected, Understood

(* Two sizes that do not fit, as the lines that were read give them. *)
LEMMA SizesReject ==
  ASSUME NEW lines, lines \subseteq file, NEW b \in Nat, NEW s \in Nat \ {0},
         Holds(lines, "minibatch_size", b, 0), Holds(lines, "s3_size", s, 0),
         b = 0 => \E a \in lines : a.opt = "minibatch_size",
         b # 0 => s % b # 0
  PROVE  Rejected
<1> SUFFICES ASSUME OncePerOption PROVE ~Usable
  BY DEF Rejected
<1>1. Says("s3_size", 0) = s
  BY SaysWhatHolds, OptionSets
<1>2. CASE b # 0
  <2>1. Says("minibatch_size", 0) = b
    BY <1>2, SaysWhatHolds, OptionSets
  <2> QED
    BY <1>1, <1>2, <2>1 DEF Usable
<1>3. CASE b = 0
  <2>1. PICK a \in lines : a.opt = "minibatch_size" /\ a.val[2] = b
    BY <1>3 DEF Holds
  <2>2. Says("minibatch_size", 0) = 0
    BY <1>3, <2>1, SaysIsGiven, OptionSets
  <2>3. Usable => Says("minibatch_size", 0) > 0
    BY DEF Usable
  <2> QED
    BY <2>2, <2>3
<1> QED
  BY <1>2, <1>3

(* One more line: what the cases of parse_line have in common. *)
ReadLineOf(ln) ==
  /\ ConfInv /\ status = "reading" /\ ln \in left /\ LineOK(ln)
  /\ left' = left \ {ln} /\ UNCHANGED <<file, rank>>

LEMMA LineRead ==
  ASSUME NEW ln, ReadLineOf(ln)
  PROVE  /\ Read' = Read \union {ln} /\ Read' \subseteq file /\ ln \in file
         /\ left' \subseteq file' /\ left \subseteq file
         /\ ConfTyped /\ ConfHolds /\ SizesAgree
BY DEF ReadLineOf, ConfInv, ConfTyped, ConfTypeOK, Read

(* A line that is not understood ends the process. *)
LEMMA BadLineRejects ==
  ASSUME NEW ln, ReadLineOf(ln), ~LineUnderstood(ln), ConfTyped',
         status' \in {"throw", "crash"}, CrashOnlyByZero'
  PROVE  ConfInv'
<1>1. Rejected
  BY LineRead, NotUnderstood
<1>2. Rejected'
  BY <1>1 DEF ReadLineOf, Rejected, OncePerOption, Understood, Usable, Says
<1> QED
  BY <1>2 DEF ConfInv

LEMMA NumbersHold ==
  ASSUME NEW ln, ReadLineOf(ln), ParseNumber(ln)
  PROVE  ConfInv'
<1> DEFINE n == [num EXCEPT ![ln.opt] = Extracted(ln)]
           o == ln.opt
           R == Read \union {ln}
<1>1. /\ o \in Numbers /\ num' = n
      /\ status' = IF SizesFit(o, n) = "fit" THEN Plain(ln) ELSE SizesFit(o, n)
      /\ UNCHANGED <<word, range, model_type, use_grad_threshold>>
  BY DEF ParseNumber
<1>2. /\ Read' = R /\ R \subseteq file /\ ln \in file /\ left' \subseteq file' /\ file' = file
      /\ ConfTypeOK /\ file \in Files /\ ConfHolds /\ SizesAgree /\ status = "reading"
  BY LineRead DEF ReadLineOf, ConfTyped
<1>3. Extracted(ln) \in Int /\ (o \notin Signed => Extracted(ln) \in Nat)
  <2>1. LineOK(ln) /\ num[o] \in Int /\ (o \notin Signed => num[o] \in Nat)
    BY <1>1, <1>2 DEF ReadLineOf, ConfTypeOK
  <2>2. CASE ln.val[1] = "ok"
    <3>1. Extracted(ln) = ln.val[2]
      BY <2>2 DEF Extracted
    <3> QED
      BY <1>1, <2>1, <2>2, <3>1 DEF LineOK
  <2>3. CASE ln.val[1] = "bad"
    BY <2>3 DEF Extracted
  <2>4. CASE ln.val[1] = "missing"
    BY <2>1, <2>4 DEF Extracted
  <2> QED
    BY <2>1, <2>2, <2>3, <2>4 DEF LineOK
<1>4. n \in [Numbers -> Int] /\ \A p \in Numbers \ Signed : n[p] \in Nat
  BY <1>1, <1>2, <1>3 DEF ConfTypeOK
<1>5. n[o] = Extracted(ln) /\ \A p \in Numbers \ {o} : n[p] = num[p]
  BY <1>1, <1>2 DEF ConfTypeOK
<1> DEFINE b == n["minibatch_size"]
           s == n["s3_size"]
<1>6. b \in Nat /\ s \in Nat
  BY <1>4, OptionSets
<1>7. status' \in {"reading", "throw", "crash"}
  BY <1>1 DEF SizesFit, Plain
<1> HIDE DEF n
<1>8. ConfTyped'
  BY <1>1, <1>2, <1>4, <1>7 DEF ConfTyped, ConfTypeOK
<1>9. LineUnderstood(ln) <=> ln.val[1] = "ok"
  BY <1>1, OptionSets DEF LineUnderstood
<1>10. \A p \in Numbers \ {o} : Holds(R, p, n[p], NumberDefault(p))
  BY <1>2, <1>5, HoldsStill DEF ConfHolds
<1>11. ln.val[1] = "ok" => \A p \in Numbers : Holds(R, p, n[p], NumberDefault(p))
  <2> SUFFICES ASSUME ln.val[1] = "ok", NEW p \in Numbers
               PROVE  Holds(R, p, n[p], NumberDefault(p))
    OBVIOUS
  <2>1. n[o] = ln.val[2]
    BY <1>5 DEF Extracted
  <2>2. Holds(R, o, ln.val[2], NumberDefault(o))
    BY HoldsNow
  <2> QED
    BY <1>10, <2>1, <2>2
<1>12. status' = "crash" =>
         o = "minibatch_size" /\ s # 0 /\ b = 0 /\ (ln.val[1] # "ok" \/ ln.val[2] = 0)
  BY <1>1, <1>5 DEF SizesFit, Plain, Extracted
<1>13. NumberDefault("s3_size") = 0 /\ NumberDefault("minibatch_size") = 0
  BY DEF NumberDefault
<1>14. CrashOnlyByZero'
  <2> SUFFICES ASSUME status' = "crash"
               PROVE  /\ \E a \in file : /\ a.opt = "minibatch_size"
                                         /\ a.val[1] # "ok" \/ a.val[2] = 0
                      /\ \E a \in file : a.opt = "s3_size"
    BY <1>2 DEF CrashOnlyByZero
  <2>1. Holds(R, "s3_size", s, 0)
    BY <1>10, <1>12, <1>13, OptionSets
  <2>2. \E a \in R : a.opt = "s3_size"
    BY <1>12, <2>1 DEF Holds
  <2> QED
    BY <1>2, <1>12, <2>2
<1>15. CASE ln.val[1] # "ok"
  <2>1. Plain(ln) = "throw"
    BY <1>15 DEF Plain
  <2>2. status' # "reading"
    BY <1>1, <2>1 DEF SizesFit
  <2> QED
    BY <1>7, <1>8, <1>9, <1>14, <1>15, <2>2, BadLineRejects
<1>16. CASE ln.val[1] = "ok"
  <2>1. CASE status' = "reading"
    <3>1. SizesFit(o, n) = "fit"
      BY <1>1, <2>1 DEF SizesFit
    <3>2. b # 0 /\ s # 0 => s % b = 0
      <4>1. CASE o \in {"minibatch_size", "s3_size"}
        BY <3>1, <4>1 DEF SizesFit
      <4>2. CASE o \notin {"minibatch_size", "s3_size"}
        <5>1. b = num["minibatch_size"] /\ s = num["s3_size"]
          BY <1>5, <4>2, OptionSets
        <5> QED
          BY <1>2, <5>1 DEF SizesAgree
      <4> QED
        BY <4>1, <4>2
    <3>3. SizesAgree'
      BY <1>1, <3>2 DEF SizesAgree
    <3>4. \A a \in R : LineUnderstood(a)
      BY <1>2, <1>9, <1>16 DEF ConfHolds
    <3>5. ConfHolds'
      <4>1. o \notin Words /\ o \notin Ranges /\ o \notin {"model_type", "use_grad_threshold"}
        BY <1>1, OptionSets
      <4>2. \A p \in Words : Holds(R, p, word[p], WordDefault(p))
        BY <1>2, <4>1, HoldsStill DEF ConfHolds
      <4>3. \A p \in Ranges : Holds(R, p, range[p], <<0, 0>>)
        BY <1>2, <4>1, HoldsStill DEF ConfHolds
      <4>4. /\ Holds(R, "model_type", model_type, "UNKNOWN")
            /\ \A v : Holds(Read, "use_grad_threshold", v, "0") =>
                        Holds(R, "use_grad_threshold", v, "0")
        BY <1>2, <4>1, HoldsStill DEF ConfHolds
      <4> QED
        BY <1>1, <1>2, <1>11, <1>16, <3>4, <4>2, <4>3, <4>4 DEF ConfHolds
    <3> QED
      BY <1>8, <1>14, <2>1, <3>3, <3>5 DEF ConfInv
  <2>2. CASE status' # "reading"
    <3>1. s # 0 /\ (b # 0 => s % b # 0) /\ (b = 0 => o = "minibatch_size")
      BY <1>1, <1>6, <1>7, <1>16, <2>2 DEF SizesFit, Plain
    <3>2. Holds(R, "minibatch_size", b, 0) /\ Holds(R, "s3_size", s, 0)
      BY <1>11, <1>13, <1>16, OptionSets
    <3>3. Rejected
      BY <1>2, <1>6, <3>1, <3>2, SizesReject
    <3>4. Rejected'
      BY <1>2, <3>3 DEF Rejected, OncePerOption, Understood, Usable, Says
    <3> QED
      BY <1>7, <1>8, <1>14, <2>2, <3>4 DEF ConfInv
  <2> QED
    BY <2>1, <2>2
<1> QED
  BY <1>15, <1>16

(* The other options cannot change the sizes, nor end in a crash. *)
LEMMA OthersKeep ==
  ASSUME NEW ln, ReadLineOf(ln), num' = num, ConfTyped',
         status' = "reading" => ln.val[1] = "ok" \/ ln.opt \in Ignored,
         status' \in {"reading", "throw"},
         ln.opt \notin Ignored => ln.opt \notin Numbers,
         status' = "reading" => LineUnderstood(ln),
         status' = "throw" => ~LineUnderstood(ln),
         status' = "reading" =>
           /\ \A o \in Words : Holds(Read', o, word'[o], WordDefault(o))
           /\ \A o \in Ranges : Holds(Read', o, range'[o], <<0, 0>>)
           /\ Holds(Read', "model_type", model_type', "UNKNOWN")
           /\ \/ use_grad_threshold' /\ Holds(Read', "use_grad_threshold", "1", "0")
              \/ /\ ~use_grad_threshold'
                 /\ \E v : v # "1" /\ Holds(Read', "use_grad_threshold", v, "0")
  PROVE  ConfInv'
<1>1. /\ Read' = Read \union {ln} /\ Read' \subseteq file /\ ConfHolds /\ SizesAgree
  BY LineRead
<1>2. CASE status' = "throw"
  BY <1>2, BadLineRejects DEF CrashOnlyByZero
<1>3. CASE status' = "reading"
  <2>1. ln.opt \notin Numbers
    BY OptionSets
  <2>2. \A o \in Numbers : Holds(Read', o, num'[o], NumberDefault(o))
    BY <1>1, <2>1, HoldsStill DEF ConfHolds
  <2>3. \A a \in Read' : LineUnderstood(a)
    BY <1>1, <1>3 DEF ConfHolds
  <2>4. ConfHolds'
    BY <1>3, <2>2, <2>3 DEF ConfHolds
  <2>5. SizesAgree'
    BY <1>1 DEF SizesAgree
  <2> QED
    BY <1>3, <2>4, <2>5 DEF ConfInv, CrashOnlyByZero
<1> QED
  BY <1>2, <1>3

LEMMA WordsHold ==
  ASSUME NEW ln, ReadLineOf(ln), ParseWord(ln)
  PROVE  ConfInv'
<1> DEFINE o == ln.opt
<1>1. /\ o \in Words /\ status' = Plain(ln)
      /\ word' = IF ln.val[1] = "ok" THEN [word EXCEPT ![o] = ln.val[2]] ELSE word
      /\ UNCHANGED <<num, range, model_type, use_grad_threshold>>
  BY DEF ParseWord
<1>2. /\ Read' = Read \union {ln} /\ ln \in file /\ left' \subseteq file' /\ file' = file
      /\ ConfTypeOK /\ file \in Files /\ ConfHolds
  BY LineRead DEF ReadLineOf, ConfTyped
<1>3. word' \in [Words -> {"", "adagrad"} \union
                          {a.val[2] : a \in {c \in file : c.opt \in Words}}]
  BY <1>1, <1>2 DEF ConfTypeOK
<1>4. status' \in {"reading", "throw"} /\ (status' = "reading" <=> ln.val[1] = "ok")
  BY <1>1 DEF Plain
<1>5. ConfTyped'
  BY <1>1, <1>2, <1>3, <1>4 DEF ConfTyped, ConfTypeOK
<1>6. o \in Options /\ o \notin Ignored /\ o \notin Numbers /\ o \notin Ranges
      /\ o \notin {"model_type", "use_grad_threshold"}
  BY <1>1, OptionSets
<1>7. LineUnderstood(ln) <=> ln.val[1] = "ok"
  BY <1>6 DEF LineUnderstood
<1>8. ln.val[1] = "ok" => \A p \in Words : Holds(Read', p, word'[p], WordDefault(p))
  <2> SUFFICES ASSUME ln.val[1] = "ok", NEW p \in Words
               PROVE  Holds(Read', p, word'[p], WordDefault(p))
    OBVIOUS
  <2>1. CASE p = o
    <3>1. word'[p] = ln.val[2]
      BY <1>1, <1>2, <2>1 DEF ConfTypeOK
    <3> QED
      BY <1>2, <2>1, <3>1, HoldsNow
  <2>2. CASE p # o
    <3>1. word'[p] = word[p]
      BY <1>1, <1>2, <2>2 DEF ConfTypeOK
    <3> QED
      BY <1>2, <2>2, <3>1, HoldsStill DEF ConfHolds
  <2> QED
    BY <2>1, <2>2
<1>9. /\ \A p \in Ranges : Holds(Read', p, range[p], <<0, 0>>)
      /\ Holds(Read', "model_type", model_type, "UNKNOWN")
      /\ \A v : Holds(Read, "use_grad_threshold", v, "0") =>
                  Holds(Read', "use_grad_threshold", v, "0")
  BY <1>2, <1>6, HoldsStill DEF ConfHolds
<1>10. \/ use_grad_threshold /\ Holds(Read', "use_grad_threshold", "1", "0")
       \/ ~use_grad_threshold /\ \E v : v # "1" /\ Holds(Read', "use_grad_threshold", v, "0")
  BY <1>2, <1>9 DEF ConfHolds
<1> QED
  BY <1>1, <1>4, <1>5, <1>6, <1>7, <1>8, <1>9, <1>10, OthersKeep

LEMMA RangesHold ==
  ASSUME NEW ln, ReadLineOf(ln), ParseRange(ln)
  PROVE  ConfInv'
<1> DEFINE o == ln.opt
<1>1. /\ o \in Ranges /\ status' = Plain(ln)
      /\ range' = IF ln.val[1] = "ok" THEN [range EXCEPT ![o] = ln.val[2]] ELSE range
      /\ UNCHANGED <<num, word, model_type, use_grad_threshold>>
  BY DEF ParseRange
<1>2. /\ Read' = Read \union {ln} /\ ln \in file /\ left' \subseteq file' /\ file' = file
      /\ ConfTypeOK /\ file \in Files /\ ConfHolds /\ LineOK(ln)
  BY LineRead DEF ReadLineOf, ConfTyped
<1>3. range' \in [Ranges -> Int \X Int]
  BY <1>1, <1>2 DEF ConfTypeOK, LineOK
<1>4. status' \in {"reading", "throw"} /\ (status' = "reading" <=> ln.val[1] = "ok")
  BY <1>1 DEF Plain
<1>5. ConfTyped'
  BY <1>1, <1>2, <1>3, <1>4 DEF ConfTyped, ConfTypeOK
<1>6. o \in Options /\ o \notin Ignored /\ o \notin Numbers /\ o \notin Words
      /\ o \notin {"model_type", "use_grad_threshold"}
  BY <1>1, OptionSets
<1>7. LineUnderstood(ln) <=> ln.val[1] = "ok"
  BY <1>6 DEF LineUnderstood
<1>8. ln.val[1] = "ok" => \A p \in Ranges : Holds(Read', p, range'[p], <<0, 0>>)
  <2> SUFFICES ASSUME ln.val[1] = "ok", NEW p \in Ranges
               PROVE  Holds(Read', p, range'[p], <<0, 0>>)
    OBVIOUS
  <2>1. CASE p = o
    <3>1. range'[p] = ln.val[2]
      BY <1>1, <1>2, <2>1 DEF ConfTypeOK
    <3> QED
      BY <1>2, <2>1, <3>1, HoldsNow
  <2>2. CASE p # o
    <3>1. range'[p] = range[p]
      BY <1>1, <1>2, <2>2 DEF ConfTypeOK
    <3> QED
      BY <1>2, <2>2, <3>1, HoldsStill DEF ConfHolds
  <2> QED
    BY <2>1, <2>2
<1>9. /\ \A p \in Words : Holds(Read', p, word[p], WordDefault(p))
      /\ Holds(Read', "model_type", model_type, "UNKNOWN")
      /\ \A v : Holds(Read, "use_grad_threshold", v, "0") =>
                  Holds(Read', "use_grad_threshold", v, "0")
  BY <1>2, <1>6, HoldsStill DEF ConfHolds
<1>10. \/ use_grad_threshold /\ Holds(Read', "use_grad_threshold", "1", "0")
       \/ ~use_grad_threshold /\ \E v : v # "1" /\ Holds(Read', "use_grad_threshold", v, "0")
  BY <1>2, <1>9 DEF ConfHolds
<1> QED
  BY <1>1, <1>4, <1>5, <1>6, <1>7, <1>8, <1>9, <1>10, OthersKeep

LEMMA OtherLinesHold ==
  ASSUME NEW ln, ReadLineOf(ln),
         ParseModelType(ln) \/ ParseThreshold(ln) \/ ParseOther(ln)
  PROVE  ConfInv'
<1>1. /\ Read' = Read \union {ln} /\ ln \in file /\ left' \subseteq file' /\ file' = file
      /\ ConfTypeOK /\ file \in Files /\ ConfHolds /\ LineOK(ln)
  BY LineRead DEF ReadLineOf, ConfTyped
<1>2. /\ num' = num /\ word' = word /\ range' = range
  BY DEF ParseModelType, ParseThreshold, ParseOther, conf
<1>3. status' \in {"reading", "throw"}
  BY DEF ParseModelType, ParseThreshold, ParseOther
<1>4. ConfTyped'
  <2>1. model_type' \in Models \union {"UNKNOWN"} /\ use_grad_threshold' \in BOOLEAN
    BY <1>1 DEF ParseModelType, ParseThreshold, ParseOther, ConfTypeOK, LineOK, conf
  <2> QED
    BY <1>1, <1>2, <1>3, <2>1 DEF ConfTyped, ConfTypeOK
<1>5. ln.opt \notin Numbers /\ ln.opt \notin Words /\ ln.opt \notin Ranges
  <2>1. ln.opt \in {"model_type", "use_grad_threshold"} \/ ln.opt \notin Options
    BY DEF ParseModelType, ParseThreshold, ParseOther
  <2> QED
    BY <2>1, OptionSets
<1>6. /\ \A p \in Words : Holds(Read', p, word[p], WordDefault(p))
      /\ \A p \in Ranges : Holds(Read', p, range[p], <<0, 0>>)
  BY <1>1, <1>5, HoldsStill DEF ConfHolds
<1>7. /\ status' = "reading" <=> LineUnderstood(ln)
      /\ status' = "reading" => ln.val[1] = "ok" \/ ln.opt \in Ignored
  <2>1. ln.opt \in Ignored => ln.opt \notin Options
    BY OptionSets
  <2>2. "model_type" \in Options /\ "use_grad_threshold" \in Options
    BY OptionSets
  <2> QED
    BY <2>1, <2>2 DEF LineUnderstood, ParseModelType, ParseThreshold, ParseOther
<1>8. ln.opt # "model_type" => model_type' = model_type
  BY DEF ParseModelType, ParseThreshold, ParseOther, conf
<1>9. ln.opt # "use_grad_threshold" => use_grad_threshold' = use_grad_threshold
  BY DEF ParseModelType, ParseThreshold, ParseOther, conf
<1>10. status' = "reading" => Holds(Read', "model_type", model_type', "UNKNOWN")
  <2>1. CASE ln.opt = "model_type"
    <3>1. status' = "reading" => model_type' = ln.val[2]
      BY <2>1, OptionSets DEF ParseModelType, ParseThreshold, ParseOther
    <3> QED
      BY <1>1, <2>1, <3>1, HoldsNow
  <2>2. CASE ln.opt # "model_type"
    BY <1>1, <1>8, <2>2, HoldsStill DEF ConfHolds
  <2> QED
    BY <2>1, <2>2
<1>11. status' = "reading" =>
         \/ use_grad_threshold' /\ Holds(Read', "use_grad_threshold", "1", "0")
         \/ /\ ~use_grad_threshold'
            /\ \E v : v # "1" /\ Holds(Read', "use_grad_threshold", v, "0")
  <2>1. CASE ln.opt = "use_grad_threshold"
    <3>1. status' = "reading" => use_grad_threshold' = (ln.val[2] = "1")
      BY <2>1, OptionSets DEF ParseModelType, ParseThreshold, ParseOther
    <3>2. Holds(Read', "use_grad_threshold", ln.val[2], "0")
      BY <1>1, <2>1, HoldsNow
    <3> QED
      BY <3>1, <3>2
  <2>2. CASE ln.opt # "use_grad_threshold"
    <3>1. \A v : Holds(Read, "use_grad_threshold", v, "0") =>
                   Holds(Read', "use_grad_threshold", v, "0")
      BY <1>1, <2>2, HoldsStill
    <3> QED
      BY <1>1, <1>9, <2>2, <3>1 DEF ConfHolds
  <2> QED
    BY <2>1, <2>2
<1> QED
  BY <1>2, <1>3, <1>4, <1>5, <1>6, <1>7, <1>10, <1>11, OthersKeep

LEMMA ParsedHold ==
  ASSUME ConfInv, NEW ln \in left, parse_line(ln)
  PROVE  ConfInv'
<1>1. LineOK(ln)
  BY FilesAssumption DEF ConfInv, ConfTyped, ConfTypeOK
<1>2. ReadLineOf(ln)
  BY <1>1 DEF ReadLineOf, parse_line
<1> QED
  BY <1>2, NumbersHold, WordsHold, RangesHold, OtherLinesHold DEF parse_line

(* Once all lines are read, the checks of print and check are those of Usable. *)
LEMMA UsableIsChecked ==
  ASSUME ConfTyped, ConfHolds, left = {}, OncePerOption
  PROVE  Usable <=> /\ Printable /\ Checked
                    /\ num["s3_size"] % num["minibatch_size"] = 0
<1>1. Read = file
  BY DEF Read
<1>2. ASSUME NEW opt \in Options, NEW v, NEW default, Holds(file, opt, v, default)
      PROVE  Says(opt, default) = v
  BY <1>2, SaysWhatHolds DEF ConfTyped, ConfTypeOK
<1>3. \A o \in Numbers : Says(o, NumberDefault(o)) = num[o]
  BY <1>1, <1>2, OptionSets DEF ConfHolds
<1>4. \A o \in Words : Says(o, WordDefault(o)) = word[o]
  BY <1>1, <1>2, OptionSets DEF ConfHolds
<1>5. Says("test_set", <<0, 0>>) = range["test_set"]
  BY <1>1, <1>2, OptionSets DEF ConfHolds
<1>6. Says("model_type", "UNKNOWN") = model_type
  BY <1>1, <1>2, OptionSets DEF ConfHolds
<1>7. Says("use_grad_threshold", "0") = "1" <=> use_grad_threshold
  BY <1>1, <1>2, OptionSets DEF ConfHolds
<1>8. /\ Says("minibatch_size", 0) = num["minibatch_size"]
      /\ Says("s3_size", 0) = num["s3_size"]
      /\ Says("learning_rate", -1) = num["learning_rate"]
      /\ Says("model_bits", 20) = num["model_bits"]
      /\ Says("grad_threshold", 0) = num["grad_threshold"]
      /\ Says("checkpoint_frequency", 0) = num["checkpoint_frequency"]
  <2>1. /\ NumberDefault("minibatch_size") = 0 /\ NumberDefault("s3_size") = 0
        /\ NumberDefault("learning_rate") = -1 /\ NumberDefault("model_bits") = 20
        /\ NumberDefault("grad_threshold") = 0 /\ NumberDefault("checkpoint_frequency") = 0
    BY DEF NumberDefault
  <2> QED
    BY <1>3, <2>1, OptionSets
<1>9. /\ Says("load_input_path", "") = word["load_input_path"]
      /\ Says("s3_bucket", "") = word["s3_bucket"]
      /\ Says("dataset_format", "") = word["dataset_format"]
      /\ Says("opt_method", "adagrad") = word["opt_method"]
      /\ Says("checkpoint_s3_bucket", "") = word["checkpoint_s3_bucket"]
      /\ Says("checkpoint_s3_keyname", "") = word["checkpoint_s3_keyname"]
  <2>1. /\ WordDefault("load_input_path") = "" /\ WordDefault("s3_bucket") = ""
        /\ WordDefault("dataset_format") = "" /\ WordDefault("opt_method") = "adagrad"
        /\ WordDefault("checkpoint_s3_bucket") = ""
        /\ WordDefault("checkpoint_s3_keyname") = ""
    BY DEF WordDefault
  <2> QED
    BY <1>4, <2>1, OptionSets
<1>10. /\ num["minibatch_size"] \in Nat /\ num["s3_size"] \in Nat
       /\ num["model_bits"] \in Nat /\ num["checkpoint_frequency"] \in Nat
  BY OptionSets DEF ConfTyped, ConfTypeOK
<1>11. CheckpointNamed <=>
         (num["checkpoint_frequency"] > 0 =>
            word["checkpoint_s3_bucket"] # "" /\ word["checkpoint_s3_keyname"] # "")
  BY DEF CheckpointNamed
<1>12. Usable <=>
         /\ num["minibatch_size"] > 0 /\ num["s3_size"] > 0
         /\ num["s3_size"] % num["minibatch_size"] = 0
         /\ word["load_input_path"] # "" /\ word["s3_bucket"] # ""
         /\ num["learning_rate"] # -1 /\ num["model_bits"] > 0
         /\ word["opt_method"] \in {"adagrad", "nesterov", "momentum", "sgd"}
         /\ word["dataset_format"] \in {"csv", "libsvm", "svmlight", "binary"}
         /\ use_grad_threshold => num["grad_threshold"] # 0
         /\ model_type = "CollaborativeFiltering" => range["test_set"][1] = 0
         /\ CheckpointNamed
  BY <1>5, <1>6, <1>7, <1>8, <1>9, <1>11, Zenon DEF Usable
<1>13. /\ num["minibatch_size"] > 0 <=> num["minibatch_size"] # 0
       /\ num["s3_size"] > 0 <=> num["s3_size"] # 0
       /\ num["model_bits"] > 0 <=> num["model_bits"] # 0
  BY <1>10
<1> QED
  BY <1>12, <1>13, Zenon DEF Printable, Checked

LEMMA AllUnderstood ==
  ASSUME ConfHolds, left = {}
  PROVE  Understood
BY DEF ConfHolds, Understood, LineUnderstood, Read

LEMMA ConfInvStep == ASSUME ConfInv, [ConfNext]_confVars PROVE ConfInv'
<1> DEFINE Same == UNCHANGED <<left, file, conf>>
<1>1. ASSUME Same
      PROVE  /\ ConfTyped /\ status' \in {"throw", "accepted", "runs", "dies", "check", "print"}
                  /\ (status' # "throw" => left = {}) => ConfTyped'
             /\ ConfHolds => ConfHolds'
             /\ SizesAgree => SizesAgree'
             /\ Printable <=> Printable'
             /\ Checked <=> Checked'
             /\ Rejected <=> Rejected'
             /\ status' # "crash" => CrashOnlyByZero'
  <2>1. /\ left' = left /\ file' = file /\ num' = num /\ word' = word /\ range' = range
        /\ model_type' = model_type /\ use_grad_threshold' = use_grad_threshold
    BY <1>1 DEF conf
  <2>2. ConfTyped /\ status' \in {"throw", "accepted", "runs", "dies", "check", "print"}
          /\ (status' # "throw" => left = {}) => ConfTyped'
    BY <2>1 DEF ConfTyped, ConfTypeOK
  <2>3. ConfHolds => ConfHolds'
    BY <2>1 DEF ConfHolds, Read
  <2>4. SizesAgree => SizesAgree'
    BY <2>1 DEF SizesAgree
  <2>5. Printable <=> Printable'
    BY <2>1 DEF Printable
  <2>6. Checked <=> Checked'
    BY <2>1 DEF Checked, CheckpointNamed
  <2>7. Rejected <=> Rejected'
    BY <2>1 DEF Rejected, OncePerOption, Understood, Usable, Says
  <2> QED
    BY <2>2, <2>3, <2>4, <2>5, <2>6, <2>7 DEF CrashOnlyByZero
<1>2. CASE UNCHANGED confVars
  <2>1. Same /\ status' = status
    BY <1>2 DEF confVars
  <2>2. ConfTyped => ConfTyped'
    BY <2>1 DEF ConfTyped, ConfTypeOK, conf
  <2>3. CrashOnlyByZero => CrashOnlyByZero'
    BY <2>1 DEF CrashOnlyByZero
  <2> QED
    BY <1>1, <2>1, <2>2, <2>3 DEF ConfInv
<1>3. ASSUME NEW ln \in left, parse_line(ln) PROVE ConfInv'
  BY <1>3, ParsedHold
<1>4. CASE EndOfFile
  <2>1. Same /\ status = "reading" /\ status' = "print" /\ left = {}
    BY <1>4 DEF EndOfFile
  <2> QED
    BY <1>1, <2>1 DEF ConfInv
<1>5. CASE print
  <2>1. /\ Same /\ status = "print" /\ left = {} /\ ConfTyped /\ ConfHolds /\ SizesAgree
        /\ status' = IF Printable THEN "check" ELSE "throw"
    BY <1>5 DEF print, Printable, ConfInv, ConfTyped, ConfTypeOK
  <2>2. ~Printable => Rejected
    BY <2>1, UsableIsChecked DEF Rejected
  <2> QED
    BY <1>1, <2>1, <2>2 DEF ConfInv
<1>6. CASE check
  <2>1. /\ Same /\ status = "check" /\ left = {} /\ ConfTyped /\ ConfHolds /\ SizesAgree
        /\ Printable /\ status' = IF Checked THEN "accepted" ELSE "throw"
    BY <1>6 DEF check, Checked, ConfInv, ConfTyped, ConfTypeOK
  <2>2. ~Checked => Rejected
    BY <2>1, UsableIsChecked DEF Rejected
  <2> QED
    BY <1>1, <2>1, <2>2 DEF ConfInv
<1>7. ASSUME NEW r, run_tasks(r) PROVE ConfInv'
  <2>1. /\ Same /\ status = "accepted" /\ status' \in {"runs", "dies"}
    BY <1>7 DEF run_tasks
  <2>2. left = {}
    BY <2>1 DEF ConfInv, ConfTyped, ConfTypeOK
  <2> QED
    BY <1>1, <2>1, <2>2 DEF ConfInv
<1> QED
  BY <1>2, <1>3, <1>4, <1>5, <1>6, <1>7 DEF ConfNext

LEMMA ConfInvVerdict == ASSUME ConfInv PROVE VerdictSound /\ ConfTypeOK
<1>1. ConfTypeOK /\ ConfTyped /\ CrashOnlyByZero
  BY DEF ConfInv, ConfTyped
<1>2. CASE status \in {"accepted", "runs", "dies"}
  <2>1. left = {} /\ ConfHolds /\ SizesAgree /\ Printable /\ Checked
    BY <1>1, <1>2 DEF ConfInv, ConfTypeOK
  <2>2. num["minibatch_size"] > 0 /\ num["s3_size"] % num["minibatch_size"] = 0
    <3>1. num["minibatch_size"] \in Nat
      BY <1>1, OptionSets DEF ConfTypeOK
    <3>2. num["minibatch_size"] # 0 /\ num["s3_size"] % num["minibatch_size"] = 0
      BY <2>1, Zenon DEF Printable, SizesAgree
    <3> QED
      BY <3>1, <3>2
  <2>3. OncePerOption => Understood /\ Usable
    BY <1>1, <2>1, <2>2, UsableIsChecked, AllUnderstood
  <2> QED
    BY <1>1, <1>2, <2>2, <2>3 DEF VerdictSound, AcceptedIffUsable, AcceptedSizesFit
<1>3. CASE status \in {"throw", "crash"}
  <2>1. Rejected
    BY <1>3 DEF ConfInv
  <2> QED
    BY <1>1, <1>3, <2>1 DEF VerdictSound, AcceptedIffUsable, AcceptedSizesFit, Rejected
<1> QED
  BY <1>1, <1>2, <1>3 DEF VerdictSound, AcceptedIffUsable, AcceptedSizesFit

(* Reading, loading and configuring take turns. *)
LEMMA StepParts ==
  ASSUME [LoadNext]_<<vars, confVars, loadVars>>
  PROVE  /\ [ConfNext]_confVars
         /\ UNCHANGED vars \/ (ReaderNext /\ UNCHANGED <<confVars, loadVars>>)
<1>1. CASE StartLoading \/ ReadDataset \/ PutObject \/ check_loading
  BY <1>1 DEF StartLoading, ReadDataset, PutObject, check_loading
<1> QED
  BY <1>1 DEF LoadNext, Configure

(* For every set of configuration files and every order of their lines: a     *)
(* file with each option at most once is accepted exactly when its lines are  *)
(* understood and Usable, and the process divides by zero for no other reason *)
(* than a minibatch size (Configuration.cpp:41-237).                          *)
THEOREM VerdictIsSound == LoadSpec => [](ConfTypeOK /\ VerdictSound)
<1>1. LoadInit => ConfInv
  BY ConfInvInit DEF LoadInit
<1>2. ConfInv /\ [LoadNext]_<<vars, confVars, loadVars>> => ConfInv'
  BY StepParts, ConfInvStep
<1>3. ConfInv => ConfTypeOK /\ VerdictSound
  BY ConfInvVerdict
<1> QED
  BY <1>1, <1>2, <1>3, PTL DEF LoadSpec

-----------------------------------------------------------------------------
(* Sequences.                                                                 *)

LEMMA ToSetFacts ==
  ASSUME NEW S, NEW s \in Seq(S)
  PROVE  /\ ToSet(s) \subseteq S
         /\ \A l : l \in ToSet(s) <=> \E i \in 1 .. Len(s) : s[i] = l
         /\ ToSet(<<>>) = {}
BY DEF ToSet

LEMMA ConcatAt ==
  ASSUME NEW S, NEW s \in Seq(S), NEW t \in Seq(S)
  PROVE  /\ s \o t \in Seq(S) /\ Len(s \o t) = Len(s) + Len(t)
         /\ Len(s) \in Nat /\ Len(t) \in Nat
         /\ \A i \in 1 .. Len(s) : i \in 1 .. Len(s \o t) /\ (s \o t)[i] = s[i]
         /\ \A j \in 1 .. Len(t) :
              Len(s) + j \in 1 .. Len(s \o t) /\ (s \o t)[Len(s) + j] = t[j]
         /\ \A i \in 1 .. Len(s \o t) :
              i \in 1 .. Len(s) \/ \E j \in 1 .. Len(t) : i = Len(s) + j
<1>1. /\ s \o t \in Seq(S) /\ Len(s \o t) = Len(s) + Len(t)
      /\ Len(s) \in Nat /\ Len(t) \in Nat
  OBVIOUS
<1>2. ASSUME NEW i \in 1 .. Len(s) PROVE i \in 1 .. Len(s \o t) /\ (s \o t)[i] = s[i]
  OBVIOUS
<1>3. ASSUME NEW j \in 1 .. Len(t)
      PROVE  Len(s) + j \in 1 .. Len(s \o t) /\ (s \o t)[Len(s) + j] = t[j]
  OBVIOUS
<1>4. ASSUME NEW i \in 1 .. Len(s \o t), i \notin 1 .. Len(s)
      PROVE  \E j \in 1 .. Len(t) : i = Len(s) + j
  <2>1. i - Len(s) \in 1 .. Len(t) /\ i = Len(s) + (i - Len(s))
    BY <1>1, <1>4
  <2> QED
    BY <2>1
<1> QED
  BY <1>1, <1>2, <1>3, <1>4

LEMMA ToSetConcat ==
  ASSUME NEW S, NEW s \in Seq(S), NEW t \in Seq(S)
  PROVE  ToSet(s \o t) = ToSet(s) \union ToSet(t)
<1> DEFINE q == s \o t
<1>1. /\ q \in Seq(S)
      /\ \A i \in 1 .. Len(s) : i \in 1 .. Len(q) /\ q[i] = s[i]
      /\ \A j \in 1 .. Len(t) : Len(s) + j \in 1 .. Len(q) /\ q[Len(s) + j] = t[j]
      /\ \A i \in 1 .. Len(q) :
           i \in 1 .. Len(s) \/ \E j \in 1 .. Len(t) : i = Len(s) + j
  <2>1. q \in Seq(S)
    OBVIOUS
  <2>2. \A i \in 1 .. Len(s) : i \in 1 .. Len(q) /\ q[i] = s[i]
    BY ConcatAt
  <2>3. \A j \in 1 .. Len(t) : Len(s) + j \in 1 .. Len(q) /\ q[Len(s) + j] = t[j]
    BY ConcatAt
  <2>4. \A i \in 1 .. Len(q) :
          i \in 1 .. Len(s) \/ \E j \in 1 .. Len(t) : i = Len(s) + j
    BY ConcatAt
  <2> QED
    BY <2>1, <2>2, <2>3, <2>4
<1> HIDE DEF q
<1>2. /\ \A l : l \in ToSet(q) <=> \E i \in 1 .. Len(q) : q[i] = l
      /\ \A l : l \in ToSet(s) <=> \E i \in 1 .. Len(s) : s[i] = l
      /\ \A l : l \in ToSet(t) <=> \E i \in 1 .. Len(t) : t[i] = l
  BY <1>1, ToSetFacts
<1>3. ASSUME NEW l PROVE l \in ToSet(q) <=> l \in ToSet(s) \/ l \in ToSet(t)
  <2>1. ASSUME l \in ToSet(q) PROVE l \in ToSet(s) \/ l \in ToSet(t)
    <3>1. PICK i \in 1 .. Len(q) : q[i] = l
      BY <1>2, <2>1
    <3>2. CASE i \in 1 .. Len(s)
      BY <1>1, <1>2, <3>1, <3>2
    <3>3. CASE \E j \in 1 .. Len(t) : i = Len(s) + j
      <4>1. PICK j \in 1 .. Len(t) : i = Len(s) + j
        BY <3>3
      <4>2. q[i] = t[j]
        BY <1>1, <4>1, Zenon
      <4> QED
        BY <1>2, <3>1, <4>2
    <3> QED
      BY <1>1, <3>2, <3>3
  <2>2. ASSUME l \in ToSet(s) PROVE l \in ToSet(q)
    BY <1>1, <1>2, <2>2
  <2>3. ASSUME l \in ToSet(t) PROVE l \in ToSet(q)
    BY <1>1, <1>2, <2>3, Zenon
  <2> QED
    BY <2>1, <2>2, <2>3
<1> QED
  BY <1>3 DEF q

LEMMA InjectiveConcat ==
  ASSUME NEW S, NEW s \in Seq(S), NEW t \in Seq(S)
  PROVE  IsInjective(s \o t) <=>
           IsInjective(s) /\ IsInjective(t) /\ ToSet(s) \cap ToSet(t) = {}
<1> DEFINE q == s \o t
           a == Len(s)
           b == Len(t)
<1>1. /\ q \in Seq(S) /\ a \in Nat /\ b \in Nat
      /\ \A i \in 1 .. a : i \in 1 .. Len(q) /\ q[i] = s[i]
      /\ \A j \in 1 .. b : a + j \in 1 .. Len(q) /\ q[a + j] = t[j]
      /\ \A i \in 1 .. Len(q) : i \in 1 .. a \/ \E j \in 1 .. b : i = a + j
  BY ConcatAt
<1>2. DOMAIN q = 1 .. Len(q) /\ DOMAIN s = 1 .. a /\ DOMAIN t = 1 .. b
  BY <1>1
<1> HIDE DEF q, a, b
<1>3. /\ IsInjective(q) <=> \A i, j \in 1 .. Len(q) : q[i] = q[j] => i = j
      /\ IsInjective(s) <=> \A i, j \in 1 .. a : s[i] = s[j] => i = j
      /\ IsInjective(t) <=> \A i, j \in 1 .. b : t[i] = t[j] => i = j
      /\ ToSet(s) \cap ToSet(t) = {} <=> \A i \in 1 .. a : \A j \in 1 .. b : s[i] # t[j]
  <2>1. IsInjective(q) <=> \A i, j \in 1 .. Len(q) : q[i] = q[j] => i = j
    BY <1>2, Zenon DEF IsInjective
  <2>2. IsInjective(s) <=> \A i, j \in 1 .. a : s[i] = s[j] => i = j
    BY <1>2, Zenon DEF IsInjective
  <2>3. IsInjective(t) <=> \A i, j \in 1 .. b : t[i] = t[j] => i = j
    BY <1>2, Zenon DEF IsInjective
  <2>4. ToSet(s) \cap ToSet(t) = {} <=> \A i \in 1 .. a : \A j \in 1 .. b : s[i] # t[j]
    BY <1>2 DEF ToSet
  <2> QED
    BY <2>1, <2>2, <2>3, <2>4
<1>4. \A m, n \in 1 .. b : a + m = a + n => m = n
  BY <1>1
<1>5. \A m \in 1 .. a : \A n \in 1 .. b : m # a + n
  BY <1>1
<1>6. ASSUME IsInjective(s), IsInjective(t), ToSet(s) \cap ToSet(t) = {}
      PROVE  IsInjective(q)
  <2> SUFFICES ASSUME NEW i \in 1 .. Len(q), NEW j \in 1 .. Len(q), q[i] = q[j]
               PROVE  i = j
    BY <1>3
  <2>1. CASE i \in 1 .. a /\ j \in 1 .. a
    BY <1>1, <1>3, <1>6, <2>1, ZenonT(40)
  <2>2. CASE i \in 1 .. a /\ \E n \in 1 .. b : j = a + n
    <3>1. PICK n \in 1 .. b : j = a + n
      BY <2>2
    <3>2. q[i] = s[i] /\ q[j] = t[n]
      BY <1>1, <2>2, <3>1, Zenon
    <3> QED
      BY <1>3, <1>6, <2>2, <3>2, Zenon
  <2>3. CASE j \in 1 .. a /\ \E n \in 1 .. b : i = a + n
    <3>1. PICK n \in 1 .. b : i = a + n
      BY <2>3
    <3>2. q[j] = s[j] /\ q[i] = t[n]
      BY <1>1, <2>3, <3>1, Zenon
    <3> QED
      BY <1>3, <1>6, <2>3, <3>2, Zenon
  <2>4. CASE (\E m \in 1 .. b : i = a + m) /\ (\E n \in 1 .. b : j = a + n)
    <3>1. PICK m \in 1 .. b : i = a + m
      BY <2>4
    <3>2. PICK n \in 1 .. b : j = a + n
      BY <2>4
    <3>3. q[i] = t[m] /\ q[j] = t[n]
      BY <1>1, <3>1, <3>2, Zenon
    <3> QED
      BY <1>3, <1>6, <3>1, <3>2, <3>3, Zenon
  <2> QED
    BY <1>1, <2>1, <2>2, <2>3, <2>4, Zenon
<1>7. ASSUME IsInjective(q) PROVE IsInjective(s)
  BY <1>1, <1>3, <1>7, ZenonT(40)
<1>8. ASSUME IsInjective(q) PROVE IsInjective(t)
  BY <1>1, <1>3, <1>4, <1>8, Zenon
<1>9. ASSUME IsInjective(q) PROVE ToSet(s) \cap ToSet(t) = {}
  BY <1>1, <1>3, <1>5, <1>9, ZenonT(40)
<1> QED
  BY <1>6, <1>7, <1>8, <1>9 DEF q

LEMMA AppendFacts ==
  ASSUME NEW S, NEW s \in Seq(S), NEW x \in S
  PROVE  /\ Append(s, x) \in Seq(S)
         /\ ToSet(Append(s, x)) = ToSet(s) \union {x}
         /\ IsInjective(s) /\ x \notin ToSet(s) => IsInjective(Append(s, x))
<1>1. Append(s, x) = s \o <<x>> /\ <<x>> \in Seq(S)
  OBVIOUS
<1>2. ToSet(<<x>>) = {x} /\ IsInjective(<<x>>)
  BY DEF ToSet, IsInjective
<1>3. ToSet(s \o <<x>>) = ToSet(s) \union {x}
  <2>1. ToSet(s \o <<x>>) = ToSet(s) \union ToSet(<<x>>)
    BY <1>1, ToSetConcat
  <2> QED
    BY <1>2, <2>1
<1>4. IsInjective(s) /\ x \notin ToSet(s) => IsInjective(s \o <<x>>)
  <2>1. x \notin ToSet(s) => ToSet(s) \cap ToSet(<<x>>) = {}
    BY <1>2
  <2> QED
    BY <1>1, <1>2, <2>1, InjectiveConcat
<1> QED
  BY <1>1, <1>3, <1>4

LEMMA ReverseTwice ==
  ASSUME NEW S, NEW s \in Seq(S)
  PROVE  Reverse(Reverse(s)) = s
<1> DEFINE n == Len(s)
           r == Reverse(s)
<1>1. n \in Nat /\ s = [i \in 1 .. n |-> s[i]]
  OBVIOUS
<1>2. r = [i \in 1 .. n |-> s[(n - i) + 1]]
  BY DEF Reverse
<1>3. Len(r) = n
  BY <1>1, <1>2
<1>4. \A i \in 1 .. n : (n - i) + 1 \in 1 .. n /\ (n - ((n - i) + 1)) + 1 = i
  BY <1>1
<1>5. \A i \in 1 .. n : r[(n - i) + 1] = s[i]
  BY <1>2, <1>4
<1> HIDE DEF r, n
<1>6. Reverse(r) = [i \in 1 .. n |-> r[(n - i) + 1]]
  BY <1>3 DEF Reverse
<1> QED
  BY <1>1, <1>5, <1>6 DEF r

(* Taking the first k elements off. *)
LEMMA SplitSeq ==
  ASSUME NEW S, NEW s \in Seq(S), NEW k \in 0 .. Len(s)
  PROVE  /\ SubSeq(s, 1, k) \in Seq(S) /\ SubSeq(s, k + 1, Len(s)) \in Seq(S)
         /\ SubSeq(s, 1, k) \o SubSeq(s, k + 1, Len(s)) = s
         /\ k = 0 => SubSeq(s, 1, k) = <<>>
<1> DEFINE n == Len(s)
           p == SubSeq(s, 1, k)
           q == SubSeq(s, k + 1, n)
<1>1. n \in Nat /\ k \in Nat /\ k <= n
  OBVIOUS
<1>2. p \in Seq(S) /\ Len(p) = k /\ \A i \in 1 .. k : p[i] = s[i]
  BY <1>1
<1>3. q \in Seq(S) /\ Len(q) = n - k /\ \A i \in 1 .. (n - k) : q[i] = s[k + i]
  <2>1. q \in Seq(S)
    BY <1>1
  <2>2. Len(q) = n - k
    BY <1>1
  <2>3. ASSUME NEW i \in 1 .. (n - k) PROVE q[i] = s[k + i]
    <3>1. q[i] = s[(k + 1) + i - 1]
      BY <1>1
    <3>2. (k + 1) + i - 1 = k + i
      BY <1>1
    <3> QED
      BY <3>1, <3>2
  <2> QED
    BY <2>1, <2>2, <2>3
<1> HIDE DEF p, q, n
<1>4. /\ p \o q \in Seq(S) /\ Len(p \o q) = n
      /\ \A i \in 1 .. k : (p \o q)[i] = p[i]
      /\ \A j \in 1 .. (n - k) : (p \o q)[k + j] = q[j]
  <2>1. /\ p \o q \in Seq(S) /\ Len(p \o q) = Len(p) + Len(q)
        /\ \A i \in 1 .. Len(p) : (p \o q)[i] = p[i]
        /\ \A j \in 1 .. Len(q) : (p \o q)[Len(p) + j] = q[j]
    <3>1. p \in Seq(S) /\ q \in Seq(S)
      BY <1>2, <1>3
    <3> QED
      BY <3>1, ConcatAt
  <2> QED
    BY <1>1, <1>2, <1>3, <2>1
<1>5. ASSUME NEW i \in 1 .. n PROVE (p \o q)[i] = s[i]
  <2>1. CASE i <= k
    BY <1>1, <1>2, <1>4, <2>1
  <2>2. CASE ~(i <= k)
    <3>1. i - k \in 1 .. (n - k) /\ k + (i - k) = i
      BY <1>1, <2>2
    <3>2. (p \o q)[k + (i - k)] = s[k + (i - k)]
      BY <1>3, <1>4, <3>1
    <3> QED
      BY <3>1, <3>2
  <2> QED
    BY <2>1, <2>2
<1>6. p \o q = s
  <2>1. Len(s) = n
    BY DEF n
  <2> HIDE DEF n
  <2> QED
    BY <1>4, <1>5, <2>1
<1>7. k = 0 => p = <<>>
  BY <1>2
<1> QED
  BY <1>2, <1>3, <1>6, <1>7 DEF p, q, n

LEMMA MinOfTwo ==
  ASSUME NEW a \in Int, NEW b \in Int
  PROVE  Min({a, b}) = IF a <= b THEN a ELSE b
<1> DEFINE m == IF a <= b THEN a ELSE b
<1>1. m \in {a, b} /\ \A y \in {a, b} : m =< y
  OBVIOUS
<1>2. \A x \in {a, b} : (\A y \in {a, b} : x =< y) => x = m
  OBVIOUS
<1> HIDE DEF m
<1>3. Min({a, b}) = m
  BY <1>1, <1>2 DEF Min
<1> QED
  BY <1>3 DEF m

LEMMA MinOfThree ==
  ASSUME NEW a \in Int, NEW b \in Int, NEW c \in Int
  PROVE  /\ Min({a, b, c}) \in {a, b, c}
         /\ Min({a, b, c}) <= a /\ Min({a, b, c}) <= b /\ Min({a, b, c}) <= c
<1> DEFINE m == IF a <= b THEN IF a <= c THEN a ELSE c ELSE IF b <= c THEN b ELSE c
<1>1. m \in {a, b, c} /\ \A y \in {a, b, c} : m =< y
  OBVIOUS
<1> HIDE DEF m
<1>2. Min({a, b, c}) \in {a, b, c} /\ \A y \in {a, b, c} : Min({a, b, c}) =< y
  BY <1>1 DEF Min
<1> QED
  BY <1>2

LEMMA MaxOfTwo ==
  ASSUME NEW a \in Int, NEW b \in Int
  PROVE  Max({a, b}) = IF a >= b THEN a ELSE b
<1> DEFINE m == IF a >= b THEN a ELSE b
<1>1. m \in {a, b} /\ \A y \in {a, b} : m >= y
  OBVIOUS
<1>2. \A x \in {a, b} : (\A y \in {a, b} : x >= y) => x = m
  OBVIOUS
<1> HIDE DEF m
<1>3. Max({a, b}) = m
  BY <1>1, <1>2 DEF Max
<1> QED
  BY <1>3 DEF m

-----------------------------------------------------------------------------
(* Lines that are shared out: H[t] are those that thread t still has, L those *)
(* that were published, 1 .. h all that were given out.                       *)

Parted(H, L, h) ==
  /\ \A t \in Threads : IsInjective(H[t])
  /\ \A t, u \in Threads : t # u => ToSet(H[t]) \cap ToSet(H[u]) = {}
  /\ IsInjective(L) /\ \A t \in Threads : ToSet(H[t]) \cap ToSet(L) = {}
  /\ \A l : l \in 1 .. h <=> l \in ToSet(L) \/ \E t \in Threads : l \in ToSet(H[t])

LEMMA PartedGiven ==
  ASSUME NEW S, NEW H \in [Threads -> Seq(S)], NEW L, NEW h \in Nat, Parted(H, L, h),
         NEW u \in Threads, NEW b \in Seq(S), IsInjective(b), NEW k \in Nat, h <= k,
         ToSet(b) = (h + 1) .. k
  PROVE  Parted([H EXCEPT ![u] = H[u] \o b], L, k)
<1> DEFINE G == [H EXCEPT ![u] = H[u] \o b]
<1>1. G[u] = H[u] \o b /\ \A t \in Threads \ {u} : G[t] = H[t]
  OBVIOUS
<1> HIDE DEF G
<1>2. ToSet(H[u] \o b) = ToSet(H[u]) \union ToSet(b)
  BY ToSetConcat
<1>3. \A l : l \in 1 .. k <=> l \in 1 .. h \/ l \in ToSet(b)
  OBVIOUS
<1>4. \A l \in ToSet(b) : l \notin 1 .. h
  OBVIOUS
<1>5. \A l \in ToSet(b) : l \notin ToSet(L) /\ \A t \in Threads : l \notin ToSet(H[t])
  BY <1>4 DEF Parted
<1>6. IsInjective(G[u])
  BY <1>1, <1>5, InjectiveConcat DEF Parted
<1>7. ToSet(G[u]) = ToSet(H[u]) \union ToSet(b)
  BY <1>1, <1>2
<1>8. \A t \in Threads : IsInjective(G[t])
  BY <1>1, <1>6 DEF Parted
<1>9. \A t, v \in Threads : t # v => ToSet(G[t]) \cap ToSet(G[v]) = {}
  <2> SUFFICES ASSUME NEW t \in Threads, NEW v \in Threads, t # v
               PROVE  ToSet(G[t]) \cap ToSet(G[v]) = {}
    OBVIOUS
  <2>1. ToSet(H[t]) \cap ToSet(H[v]) = {}
    BY DEF Parted
  <2>2. CASE t = u
    BY <1>1, <1>5, <1>7, <2>1, <2>2
  <2>3. CASE v = u
    BY <1>1, <1>5, <1>7, <2>1, <2>3
  <2>4. CASE t # u /\ v # u
    BY <1>1, <2>1, <2>4
  <2> QED
    BY <2>2, <2>3, <2>4
<1>10. \A t \in Threads : ToSet(G[t]) \cap ToSet(L) = {}
  <2> SUFFICES ASSUME NEW t \in Threads PROVE ToSet(G[t]) \cap ToSet(L) = {}
    OBVIOUS
  <2>1. ToSet(H[t]) \cap ToSet(L) = {}
    BY DEF Parted
  <2> QED
    BY <1>1, <1>5, <1>7, <2>1
<1>11. ASSUME NEW l
       PROVE  l \in 1 .. k <=> l \in ToSet(L) \/ \E t \in Threads : l \in ToSet(G[t])
  <2>1. l \in 1 .. h <=> l \in ToSet(L) \/ \E t \in Threads : l \in ToSet(H[t])
    BY DEF Parted
  <2>2. (\E t \in Threads : l \in ToSet(G[t])) <=>
          l \in ToSet(b) \/ \E t \in Threads : l \in ToSet(H[t])
    BY <1>1, <1>7
  <2> QED
    BY <1>3, <2>1, <2>2
<1> QED
  BY <1>8, <1>9, <1>10, <1>11 DEF Parted, G

LEMMA PartedPublished ==
  ASSUME NEW S, NEW H \in [Threads -> Seq(S)], NEW L \in Seq(S), NEW h, Parted(H, L, h),
         NEW u \in Threads, NEW m \in Seq(S), NEW q \in Seq(S), H[u] = m \o q
  PROVE  Parted([H EXCEPT ![u] = q], L \o m, h)
<1> DEFINE G == [H EXCEPT ![u] = q]
<1>1. G[u] = q /\ \A t \in Threads \ {u} : G[t] = H[t]
  OBVIOUS
<1> HIDE DEF G
<1>2. /\ ToSet(H[u]) = ToSet(m) \union ToSet(q)
      /\ IsInjective(m) /\ IsInjective(q) /\ ToSet(m) \cap ToSet(q) = {}
  <2>1. IsInjective(m \o q)
    BY DEF Parted
  <2>2. IsInjective(m) /\ IsInjective(q) /\ ToSet(m) \cap ToSet(q) = {}
    BY <2>1, InjectiveConcat
  <2>3. ToSet(m \o q) = ToSet(m) \union ToSet(q)
    BY ToSetConcat
  <2> QED
    BY <2>2, <2>3
<1>3. ToSet(H[u]) \cap ToSet(L) = {}
  BY DEF Parted
<1>4. ToSet(L \o m) = ToSet(L) \union ToSet(m) /\ IsInjective(L \o m)
  BY <1>2, <1>3, ToSetConcat, InjectiveConcat DEF Parted
<1>5. \A t \in Threads : IsInjective(G[t])
  BY <1>1, <1>2 DEF Parted
<1>6. \A t \in Threads : ToSet(G[t]) \subseteq ToSet(H[t])
  BY <1>1, <1>2
<1>7. \A t, v \in Threads : t # v => ToSet(G[t]) \cap ToSet(G[v]) = {}
  BY <1>6 DEF Parted
<1>8. \A t \in Threads : ToSet(G[t]) \cap ToSet(L \o m) = {}
  <2> SUFFICES ASSUME NEW t \in Threads PROVE ToSet(G[t]) \cap ToSet(L \o m) = {}
    OBVIOUS
  <2>1. ToSet(H[t]) \cap ToSet(L) = {} /\ (t # u => ToSet(H[t]) \cap ToSet(H[u]) = {})
    BY DEF Parted
  <2> QED
    BY <1>1, <1>2, <1>4, <1>6, <2>1
<1>9. ASSUME NEW l
      PROVE  l \in 1 .. h <=> l \in ToSet(L \o m) \/ \E t \in Threads : l \in ToSet(G[t])
  <2>1. l \in 1 .. h <=> l \in ToSet(L) \/ \E t \in Threads : l \in ToSet(H[t])
    BY DEF Parted
  <2>2. (\E t \in Threads : l \in ToSet(H[t])) <=>
          l \in ToSet(m) \/ \E t \in Threads : l \in ToSet(G[t])
    BY <1>1, <1>2
  <2> QED
    BY <1>4, <2>1, <2>2
<1> QED
  BY <1>4, <1>5, <1>7, <1>8, <1>9 DEF Parted, G

(* A permutation, as shuffle_samples_labels takes one. *)
LEMMA Shuffled ==
  ASSUME NEW S, NEW s \in Seq(S), IsInjective(s), NEW p \in SetToSeqs(1 .. Len(s)),
         NEW q, q = [i \in 1 .. Len(s) |-> s[p[i]]]
  PROVE  q \in Seq(S) /\ IsInjective(q) /\ ToSet(q) = ToSet(s)
<1> DEFINE n == Len(s)
           D == 1 .. n
<1>1. n \in Nat /\ \A i \in D : s[i] \in S
  OBVIOUS
<1>2. IsFiniteSet(D) /\ Cardinality(D) = n
  <2>1. IsFiniteSet(1 .. n) /\ Cardinality(1 .. n) = IF 1 > n THEN 0 ELSE n - 1 + 1
    <3> HIDE DEF n
    <3> QED
      BY <1>1, FS_Interval
  <2> QED
    BY <1>1, <2>1
<1>3. p \in [D -> D] /\ \A i, j \in D : i # j => p[i] # p[j]
  BY <1>2 DEF SetToSeqs
<1>4. p \in Injection(D, D)
  BY <1>3 DEF Injection, IsInjective
<1>5. p \in Surjection(D, D)
  BY <1>2, <1>4, FS_Injection
<1>6. \A j \in D : \E i \in D : p[i] = j
  BY <1>5 DEF Surjection
<1>7. q \in Seq(S) /\ DOMAIN q = D /\ DOMAIN s = D
  BY <1>1, <1>3
<1>8. \A i \in D : q[i] = s[p[i]]
  OBVIOUS
<1> HIDE DEF D
<1>9. IsInjective(q)
  BY <1>3, <1>7, <1>8 DEF IsInjective
<1>10. ToSet(q) = ToSet(s)
  <2>1. ToSet(q) = {q[i] : i \in D} /\ ToSet(s) = {s[i] : i \in D}
    BY <1>7 DEF ToSet
  <2>2. ToSet(q) \subseteq ToSet(s)
    BY <1>3, <1>8, <2>1
  <2>3. ASSUME NEW j \in D PROVE s[j] \in ToSet(q)
    BY <1>6, <1>8, <2>1
  <2> QED
    BY <2>1, <2>2, <2>3
<1> QED
  BY <1>7, <1>9, <1>10

-----------------------------------------------------------------------------
(* read_input_csv.                                                            *)

Cap == Max({setup.limit, 1})
CsvPc == {"top", "take", "samples", "labels", "done"}
Idle == \* of a thread without lines
  {"top", "take", "done"}

CsvTyped ==
  /\ setup \in Setups /\ setup.format = "csv"
  /\ pos \in Nat /\ pos <= setup.n /\ pos <= Cap /\ lines_count = pos /\ eof = FALSE
  /\ lock \in Threads \union {Nobody}
  /\ pc \in [Threads -> CsvPc] /\ line \in [Threads -> {NoLine}]
  /\ mine \in [Threads -> Seq(Lines)] /\ queue \in [Threads -> Seq(Lines)]
  /\ samples \in Seq(Lines) /\ labels \in Seq(Lines)
  /\ terminate \in BOOLEAN /\ at \in 0 .. NThreads
  /\ mainPc \in {"read", "poll", "join", "shuffle", "done", "crash"}

NoUsers ==
  /\ realid = [u \in UserSet |-> NoRow]
  /\ sparse_ds = [r \in 0 .. (Rows - 1) |-> <<>>]
  /\ number_users = 0

(* The main thread and the threads agree on how far they are. *)
CsvControl ==
  /\ \A t \in Threads : pc[t] \in Idle => mine[t] = <<>>
  /\ \A t \in Threads : pc[t] = "labels" <=> lock = t
  /\ \A t \in Threads : pc[t] = "done" => terminate
  /\ terminate <=> mainPc \notin {"read", "poll"}
  /\ terminate => \A t \in Threads : queue[t] = <<>>
  /\ mainPc = "read" => at < NThreads /\ \E k \in Nat : pos = BatchSize * k
  /\ mainPc = "poll" => at < NThreads /\ \A t \in Threads : t < at => queue[t] = <<>>
  /\ mainPc \in {"shuffle", "done", "crash"} => \A t \in Threads : pc[t] = "done"

(* The lines a thread still has to publish, in order. *)
Held == [t \in Threads |-> mine[t] \o queue[t]]

(* The lines that were handed to the threads. *)
Handed ==
  IF mainPc = "read" THEN pos
  ELSE BatchSize * (Min({setup.n, Cap}) \div BatchSize)

(* The label of a line is published right after the line. *)
CsvPublished ==
  samples = IF lock = Nobody THEN labels ELSE labels \o mine[lock]

CsvInv == CsvTyped /\ CsvControl /\ CsvPublished /\ Parted(Held, labels, Handed) /\ NoUsers

LEMMA SetupFacts ==
  ASSUME setup \in Setups
  PROVE  /\ setup.format \in {"csv", "criteo", "netflix", "none"}
         /\ setup.n \in Nat /\ setup.newline \in BOOLEAN /\ setup.limit \in Nat
         /\ Cap \in Nat \ {0} /\ Cap = IF setup.limit >= 1 THEN setup.limit ELSE 1
         /\ Min({setup.n, Cap}) \in Nat
         /\ Min({setup.n, Cap}) = IF setup.n <= Cap THEN setup.n ELSE Cap
<1>1. setup \in Setup
  BY SetupsAssumption
<1>2. /\ setup.format \in {"csv", "criteo", "netflix", "none"}
      /\ setup.n \in Nat /\ setup.newline \in BOOLEAN /\ setup.limit \in Nat
  BY <1>1 DEF Setup
<1>3. Cap = IF setup.limit >= 1 THEN setup.limit ELSE 1
  BY <1>2, MaxOfTwo DEF Cap
<1>4. Cap \in Nat \ {0}
  BY <1>2, <1>3
<1>5. Min({setup.n, Cap}) = IF setup.n <= Cap THEN setup.n ELSE Cap
  BY <1>2, <1>4, MinOfTwo
<1> QED
  BY <1>2, <1>3, <1>4, <1>5

LEMMA ThreadSet == 0 \in Threads /\ NThreads \in Nat \ {0} /\ Nobody \notin Threads
                   /\ \A t \in Threads : t \in Nat /\ t < NThreads
BY NThreadsAssumption DEF Threads, Nobody

LEMMA HeldTyped ==
  ASSUME CsvTyped
  PROVE  Held \in [Threads -> Seq(Lines)]
BY DEF CsvTyped, Held

LEMMA CsvInit == ASSUME Init, setup.format = "csv" PROVE CsvInv
<1>1. /\ setup \in Setups /\ pos = 0 /\ lines_count = 0 /\ mainPc = "read" /\ lock = Nobody
      /\ pc = [t \in Threads |-> "top"] /\ mine = [t \in Threads |-> <<>>]
      /\ queue = [t \in Threads |-> <<>>] /\ at = 0 /\ terminate = FALSE
      /\ samples = <<>> /\ labels = <<>>
  BY DEF Init
<1>2. \A S : <<>> \in Seq(S)
  OBVIOUS
<1>3. CsvTyped
  <2>1. pos \in Nat /\ pos <= setup.n /\ pos <= Cap /\ lines_count = pos
    BY <1>1, SetupFacts
  <2>2. eof = FALSE /\ line \in [Threads -> {NoLine}] /\ pc \in [Threads -> CsvPc]
    BY <1>1 DEF Init, CsvPc
  <2>3. mine \in [Threads -> Seq(Lines)] /\ queue \in [Threads -> Seq(Lines)]
    <3>1. <<>> \in Seq(Lines)
      BY <1>2
    <3> QED
      BY <1>1, <3>1
  <2>4. samples \in Seq(Lines) /\ labels \in Seq(Lines)
    BY <1>1, <1>2
  <2>5. at \in 0 .. NThreads
    BY <1>1, ThreadSet
  <2> QED
    BY <1>1, <2>1, <2>2, <2>3, <2>4, <2>5 DEF CsvTyped
<1>4. CsvControl
  <2>1. BatchSize * 0 = 0
    BY BatchAssumption
  <2> QED
    BY <1>1, <2>1, ThreadSet DEF CsvControl
<1>5. Held = [t \in Threads |-> <<>>] /\ Handed = 0
  BY <1>1 DEF Held, Handed
<1>6. Parted([t \in Threads |-> <<>>], <<>>, 0)
  <2>1. ToSet(<<>>) = {} /\ IsInjective(<<>>) /\ 1 .. 0 = {}
    BY DEF ToSet, IsInjective
  <2> QED
    BY <2>1 DEF Parted
<1> QED
  BY <1>1, <1>3, <1>4, <1>5, <1>6 DEF CsvInv, CsvPublished, NoUsers, Init

(* The batch that ReadBatch reads. *)
LEMMA NextBatchFacts ==
  ASSUME setup \in Setups, pos \in Nat, pos <= setup.n, lines_count \in Nat,
         lines_count <= Cap
  PROVE  /\ NextBatch \in Seq(Lines) /\ IsInjective(NextBatch)
         /\ ToSet(NextBatch) = (pos + 1) .. (pos + Len(NextBatch))
         /\ Len(NextBatch) \in Nat /\ Len(NextBatch) <= BatchSize
         /\ Len(NextBatch) <= setup.n - pos /\ Len(NextBatch) <= Cap - lines_count
         /\ Len(NextBatch) \in {BatchSize, setup.n - pos, Cap - lines_count}
<1> DEFINE all == [i \in Lines |-> i]
           counts == {setup.n - pos, BatchSize, Cap - lines_count}
           m == Min(counts)
           b == SubSeq(all, pos + 1, pos + m)
<1>1. NextBatch = b
  BY DEF NextBatch, Cap
<1>2. /\ setup.n \in Nat /\ Cap \in Nat /\ BatchSize \in Nat
  BY SetupFacts, BatchAssumption
<1>3. setup.n - pos \in Nat /\ Cap - lines_count \in Nat
  BY <1>2
<1>4. m \in counts /\ m <= setup.n - pos /\ m <= BatchSize /\ m <= Cap - lines_count
  <2>1. setup.n - pos \in Int /\ BatchSize \in Int /\ Cap - lines_count \in Int
    BY <1>2, <1>3
  <2> QED
    BY <2>1, MinOfThree, Zenon
<1>5. m \in Nat /\ pos + m <= setup.n
  BY <1>2, <1>3, <1>4
<1> HIDE DEF m, counts
<1>6. all \in Seq(Lines) /\ Len(all) = setup.n
  BY <1>2 DEF Lines
<1>7. \A i \in 1 .. m : pos + i \in Lines
  BY <1>2, <1>5 DEF Lines
<1>8. b \in Seq(Lines) /\ Len(b) = m /\ \A i \in 1 .. m : b[i] = pos + i
  <2>1. \A l \in Lines : all[l] = l
    OBVIOUS
  <2> HIDE DEF all
  <2>2. b \in Seq(Lines)
    BY <1>2, <1>5, <1>6
  <2>3. Len(b) = m
    BY <1>2, <1>5, <1>6
  <2>4. ASSUME NEW i \in 1 .. m PROVE b[i] = pos + i
    <3>1. b[i] = all[(pos + 1) + i - 1]
      BY <1>2, <1>5, <1>6
    <3>2. (pos + 1) + i - 1 = pos + i
      BY <1>5
    <3>3. pos + i \in Lines
      BY <1>7
    <3> QED
      BY <2>1, <3>1, <3>2, <3>3
  <2> QED
    BY <2>2, <2>3, <2>4
<1> HIDE DEF b
<1>9. DOMAIN b = 1 .. m
  BY <1>5, <1>8
<1>10. IsInjective(b)
  BY <1>5, <1>8, <1>9 DEF IsInjective
<1>11. ToSet(b) = (pos + 1) .. (pos + m)
  <2>1. ASSUME NEW l \in (pos + 1) .. (pos + m) PROVE l \in ToSet(b)
    <3>1. l - pos \in 1 .. m /\ pos + (l - pos) = l
      BY <1>5
    <3>2. b[l - pos] = pos + (l - pos)
      BY <1>8, <3>1
    <3> QED
      BY <1>9, <3>1, <3>2 DEF ToSet
  <2>2. \A i \in 1 .. m : b[i] \in (pos + 1) .. (pos + m)
    BY <1>5, <1>8
  <2> QED
    BY <1>9, <2>1, <2>2 DEF ToSet
<1> QED
  BY <1>1, <1>4, <1>5, <1>8, <1>10, <1>11 DEF counts

LEMMA ConcatAssoc ==
  ASSUME NEW S, NEW r \in Seq(S), NEW s \in Seq(S), NEW t \in Seq(S)
  PROVE  r \o (s \o t) = (r \o s) \o t /\ r \o <<>> = r /\ <<>> \o r = r
OBVIOUS

LEMMA WholePart ==
  ASSUME NEW b \in Nat \ {0}, NEW k \in Int, NEW r \in 0 .. (b - 1)
  PROVE  (b * k + r) \div b = k
OBVIOUS

LEMMA CsvReadBatch == ASSUME CsvInv, ReadBatch PROVE CsvInv'
<1> DEFINE b == NextBatch
           w == Len(b)
<1>1. /\ setup \in Setups /\ setup.n \in Nat /\ Cap \in Nat \ {0} /\ BatchSize \in Nat \ {0}
      /\ pos \in Nat /\ pos <= setup.n /\ pos <= Cap /\ lines_count = pos
  BY SetupFacts, BatchAssumption DEF CsvInv, CsvTyped
<1>2. /\ b \in Seq(Lines) /\ IsInjective(b) /\ ToSet(b) = (pos + 1) .. (pos + w)
      /\ w \in Nat /\ w <= BatchSize /\ w <= setup.n - pos /\ w <= Cap - lines_count
      /\ w \in {BatchSize, setup.n - pos, Cap - lines_count}
  BY <1>1, NextBatchFacts
<1>3. /\ mainPc = "read" /\ pos' = pos + w /\ lines_count' = lines_count + w
      /\ \/ /\ w = BatchSize /\ queue' = [queue EXCEPT ![at] = @ \o b]
            /\ at' = (at + 1) % NThreads /\ mainPc' = "read"
         \/ w # BatchSize /\ mainPc' = "poll" /\ at' = 0 /\ queue' = queue
      /\ setup' = setup /\ eof' = eof /\ lock' = lock /\ pc' = pc /\ line' = line
      /\ mine' = mine /\ samples' = samples /\ labels' = labels /\ terminate' = terminate
      /\ realid' = realid /\ sparse_ds' = sparse_ds /\ number_users' = number_users
  BY DEF ReadBatch, threadVars, resultVars, netflixVars
<1> HIDE DEF b, w
<1>4. at \in Threads /\ at' \in Threads
  <2>1. at \in Nat /\ at < NThreads
    BY <1>3, ThreadSet DEF CsvInv, CsvTyped, CsvControl
  <2>2. (at + 1) % NThreads \in 0 .. (NThreads - 1)
    BY <2>1, ThreadSet
  <2> QED
    BY <1>3, <2>1, <2>2, ThreadSet DEF Threads
<1>5. pos' \in Nat /\ pos' <= setup.n /\ pos' <= Cap /\ lines_count' = pos'
  BY <1>1, <1>2, <1>3, SMTT(30)
<1>6. Lines' = Lines /\ Cap' = Cap
  BY <1>3 DEF Lines, Cap
<1>7. queue' \in [Threads -> Seq(Lines)]
  <2>1. queue \in [Threads -> Seq(Lines)]
    BY DEF CsvInv, CsvTyped
  <2>2. queue[at] \o b \in Seq(Lines)
    BY <1>2, <1>4, <2>1
  <2> QED
    BY <1>3, <2>1, <2>2
<1>8. CsvTyped'
  <2>1. at' \in 0 .. NThreads
    BY <1>4, ThreadSet
  <2>2. mainPc' \in {"read", "poll", "join", "shuffle", "done", "crash"}
    BY <1>3
  <2> QED
    BY <1>3, <1>5, <1>6, <1>7, <2>1, <2>2 DEF CsvInv, CsvTyped
<1>9. CsvControl'
  <2>1. ~terminate /\ ~terminate'
    BY <1>3 DEF CsvInv, CsvControl
  <2>2. PICK k \in Nat : pos = BatchSize * k
    BY <1>3 DEF CsvInv, CsvControl
  <2>3. w = BatchSize => pos' = BatchSize * (k + 1) /\ k + 1 \in Nat
    BY <1>1, <1>3, <2>2
  <2>4. at' < NThreads /\ (w # BatchSize => \A t \in Threads : ~(t < at'))
    BY <1>3, <1>4, ThreadSet
  <2>5. mainPc' = "read" => w = BatchSize
    BY <1>3
  <2>6. mainPc' = "poll" => w # BatchSize
    BY <1>3
  <2>7. mainPc' \in {"read", "poll"}
    BY <1>3
  <2>8. mainPc' = "read" => at' < NThreads /\ \E j \in Nat : pos' = BatchSize * j
    BY <2>3, <2>4, <2>5
  <2>9. mainPc' = "poll" => at' < NThreads /\ \A t \in Threads : t < at' => queue'[t] = <<>>
    BY <2>4, <2>6
  <2>10. /\ \A t \in Threads : pc[t] \in Idle => mine[t] = <<>>
         /\ \A t \in Threads : pc[t] = "labels" <=> lock = t
         /\ \A t \in Threads : pc[t] = "done" => terminate
    BY DEF CsvInv, CsvControl
  <2> QED
    BY <1>3, <2>1, <2>7, <2>8, <2>9, <2>10 DEF CsvControl
<1>10. CsvPublished'
  BY <1>3 DEF CsvInv, CsvPublished
<1>11. Parted(Held, labels, pos)
  BY <1>3 DEF CsvInv, Handed
<1>12. CASE w = BatchSize
  <2>1. Held' = [Held EXCEPT ![at] = Held[at] \o b]
    <3>1. queue' = [queue EXCEPT ![at] = queue[at] \o b]
      BY <1>3, <1>12
    <3>2. ASSUME NEW t \in Threads
          PROVE  mine[t] \o queue'[t] = [Held EXCEPT ![at] = Held[at] \o b][t]
      <4>1. mine[at] \in Seq(Lines) /\ queue[at] \in Seq(Lines)
        BY <1>4 DEF CsvInv, CsvTyped
      <4>2. mine[at] \o (queue[at] \o b) = (mine[at] \o queue[at]) \o b
        <5>1. \A r, s, u \in Seq(Lines) : r \o (s \o u) = (r \o s) \o u
          OBVIOUS
        <5> QED
          BY <1>2, <4>1, <5>1, Zenon
      <4>3. queue'[t] = IF t = at THEN queue[at] \o b ELSE queue[t]
        BY <3>1 DEF CsvInv, CsvTyped
      <4>4. Held[t] = mine[t] \o queue[t] /\ Held[at] = mine[at] \o queue[at]
        BY <1>4 DEF Held
      <4>5. [Held EXCEPT ![at] = Held[at] \o b][t]
              = IF t = at THEN Held[at] \o b ELSE Held[t]
        BY DEF Held
      <4> QED
        BY <4>2, <4>3, <4>4, <4>5, Zenon
    <3>3. Held' = [t \in Threads |-> mine[t] \o queue'[t]]
      BY <1>3 DEF Held
    <3>4. [Held EXCEPT ![at] = Held[at] \o b]
            = [t \in Threads |-> [Held EXCEPT ![at] = Held[at] \o b][t]]
      BY DEF Held
    <3> QED
      BY <3>2, <3>3, <3>4
  <2>2. Parted([Held EXCEPT ![at] = Held[at] \o b], labels, pos + w)
    <3>1. Held \in [Threads -> Seq(Lines)]
      BY HeldTyped DEF CsvInv
    <3>2. pos <= pos + w /\ pos + w \in Nat
      BY <1>1, <1>2
    <3> QED
      BY <1>1, <1>2, <1>4, <1>11, <3>1, <3>2, PartedGiven
  <2>3. Handed' = pos + w
    BY <1>3, <1>12 DEF Handed
  <2>4. Parted(Held', labels', Handed')
    BY <1>3, <2>1, <2>2, <2>3
  <2> QED
    BY <1>3, <1>8, <1>9, <1>10, <2>4 DEF CsvInv, NoUsers, Parted
<1>13. CASE w # BatchSize
  <2>1. Held' = Held
    BY <1>3, <1>13 DEF Held
  <2>2. Handed' = pos
    <3>1. w \in 0 .. (BatchSize - 1)
      BY <1>1, <1>2, <1>13
    <3>2. Min({setup.n, Cap}) = pos + w
      BY <1>1, <1>2, <1>13, SetupFacts
    <3>3. PICK k \in Nat : pos = BatchSize * k
      BY <1>3 DEF CsvInv, CsvControl
    <3>4. (pos + w) \div BatchSize = k
      BY <1>1, <3>1, <3>3, WholePart
    <3>5. Handed' = BatchSize * (Min({setup.n, Cap}) \div BatchSize)
      BY <1>3, <1>6, <1>13 DEF Handed
    <3> QED
      BY <3>2, <3>3, <3>4, <3>5
  <2>3. Parted(Held', labels', Handed')
    BY <1>3, <1>11, <2>1, <2>2
  <2> QED
    BY <1>3, <1>8, <1>9, <1>10, <2>3 DEF CsvInv, NoUsers, Parted
<1> QED
  BY <1>12, <1>13

LEMMA CsvPollQueue == ASSUME CsvInv, PollQueue PROVE CsvInv'
<1>1. /\ mainPc = "poll" /\ at' = IF queue[at] = <<>> THEN at + 1 ELSE 0
      /\ \/ at' = NThreads /\ terminate' = TRUE /\ mainPc' = "join"
         \/ at' # NThreads /\ terminate' = terminate /\ mainPc' = mainPc
      /\ setup' = setup /\ eof' = eof /\ lock' = lock /\ pc' = pc /\ line' = line
      /\ pos' = pos /\ lines_count' = lines_count /\ queue' = queue
      /\ mine' = mine /\ samples' = samples /\ labels' = labels
      /\ realid' = realid /\ sparse_ds' = sparse_ds /\ number_users' = number_users
  BY DEF PollQueue, fileVars, threadVars, resultVars, netflixVars
<1>2. Lines' = Lines /\ Cap' = Cap /\ Held' = Held /\ Handed' = Handed
  <2>1. Handed = BatchSize * (Min({setup.n, Cap}) \div BatchSize)
    BY <1>1 DEF Handed
  <2>2. mainPc' # "read" /\ Cap' = Cap
    BY <1>1 DEF Cap
  <2> QED
    BY <1>1, <2>1, <2>2 DEF Lines, Held, Handed
<1>3. /\ at \in Nat /\ at < NThreads /\ ~terminate
      /\ \A t \in Threads : t < at => queue[t] = <<>>
  BY <1>1 DEF CsvInv, CsvTyped, CsvControl
<1>4. /\ at' \in 0 .. NThreads /\ (at' # NThreads => at' < NThreads)
      /\ \A t \in Threads : t < at' => queue[t] = <<>>
  <2>1. CASE queue[at] = <<>>
    <3>1. at' = at + 1
      BY <1>1, <2>1
    <3>2. \A t \in Threads : t < at + 1 => t < at \/ t = at
      BY <1>3, ThreadSet
    <3> QED
      BY <1>3, <2>1, <3>1, <3>2, ThreadSet
  <2>2. CASE queue[at] # <<>>
    BY <1>1, <2>2, ThreadSet
  <2> QED
    BY <2>1, <2>2
<1>5. CsvTyped'
  BY <1>1, <1>2, <1>4 DEF CsvInv, CsvTyped
<1>6. CsvControl'
  <2>1. at' = NThreads => \A t \in Threads : queue[t] = <<>>
    BY <1>4, ThreadSet
  <2>2. /\ \A t \in Threads : pc[t] \in Idle => mine[t] = <<>>
        /\ \A t \in Threads : pc[t] = "labels" <=> lock = t
        /\ \A t \in Threads : pc[t] = "done" => terminate
    BY DEF CsvInv, CsvControl
  <2>3. CASE at' = NThreads
    BY <1>1, <2>1, <2>2, <2>3 DEF CsvControl
  <2>4. CASE at' # NThreads
    BY <1>1, <1>3, <1>4, <2>2, <2>4 DEF CsvControl
  <2> QED
    BY <2>3, <2>4
<1> QED
  BY <1>1, <1>2, <1>5, <1>6 DEF CsvInv, CsvPublished, NoUsers, Parted

LEMMA CsvJoin == ASSUME CsvInv, Join PROVE CsvInv'
<1>1. /\ mainPc = "join" /\ mainPc' \in {"crash", "shuffle"}
      /\ \A t \in Threads : pc[t] = "done"
      /\ setup' = setup /\ eof' = eof /\ lock' = lock /\ pc' = pc /\ line' = line
      /\ pos' = pos /\ lines_count' = lines_count /\ queue' = queue
      /\ mine' = mine /\ samples' = samples /\ labels' = labels
      /\ terminate' = terminate /\ at' = at
      /\ realid' = realid /\ sparse_ds' = sparse_ds /\ number_users' = number_users
  BY DEF Join, CsvInv, CsvTyped, fileVars, threadVars, resultVars, netflixVars
<1>2. Lines' = Lines /\ Cap' = Cap /\ Held' = Held
  BY <1>1 DEF Lines, Cap, Held
<1>3. Handed' = Handed
  BY <1>1, <1>2 DEF Handed
<1>4. CsvTyped'
  BY <1>1, <1>2 DEF CsvInv, CsvTyped
<1>5. CsvControl'
  BY <1>1 DEF CsvInv, CsvControl
<1> QED
  BY <1>1, <1>2, <1>3, <1>4, <1>5 DEF CsvInv, CsvPublished, NoUsers, Parted

LEMMA PartedSame ==
  ASSUME NEW H, NEW L, NEW M, NEW h, Parted(H, L, h), IsInjective(M), ToSet(M) = ToSet(L)
  PROVE  Parted(H, M, h)
BY DEF Parted

LEMMA CsvShuffle == ASSUME CsvInv, shuffle_samples_labels PROVE CsvInv'
<1>1. /\ mainPc = "shuffle" /\ mainPc' = "done"
      /\ setup' = setup /\ eof' = eof /\ lock' = lock /\ pc' = pc /\ line' = line
      /\ pos' = pos /\ lines_count' = lines_count /\ queue' = queue
      /\ mine' = mine /\ terminate' = terminate /\ at' = at
      /\ realid' = realid /\ sparse_ds' = sparse_ds /\ number_users' = number_users
  BY DEF shuffle_samples_labels, fileVars, threadVars, netflixVars
<1>2. Lines' = Lines /\ Cap' = Cap /\ Held' = Held
  BY <1>1 DEF Lines, Cap, Held
<1>3. Handed' = Handed
  BY <1>1, <1>2 DEF Handed
<1>4. lock = Nobody /\ samples = labels
  <2>1. \A t \in Threads : pc[t] # "labels"
    BY <1>1 DEF CsvInv, CsvControl
  <2>2. lock = Nobody
    BY <2>1 DEF CsvInv, CsvControl, CsvTyped
  <2> QED
    BY <2>2 DEF CsvInv, CsvPublished
<1>5. PICK p \in SetToSeqs(1 .. Len(samples)) :
         /\ samples' = [i \in 1 .. Len(samples) |-> samples[p[i]]]
         /\ labels' = [i \in 1 .. Len(labels) |-> labels[p[i]]]
  BY DEF shuffle_samples_labels
<1>6. labels \in Seq(Lines) /\ IsInjective(labels) /\ Parted(Held, labels, Handed)
  BY DEF CsvInv, CsvTyped, Parted
<1>7. labels' = samples'
  BY <1>4, <1>5
<1>8. labels' \in Seq(Lines) /\ IsInjective(labels') /\ ToSet(labels') = ToSet(labels)
  BY <1>4, <1>5, <1>6, Shuffled
<1>9. Parted(Held, labels', Handed)
  BY <1>6, <1>8, PartedSame
<1>10. CsvTyped'
  BY <1>1, <1>2, <1>7, <1>8 DEF CsvInv, CsvTyped
<1>11. CsvControl'
  BY <1>1 DEF CsvInv, CsvControl
<1>12. CsvPublished'
  BY <1>1, <1>4, <1>7 DEF CsvPublished
<1>13. Parted(Held', labels', Handed')
  BY <1>2, <1>3, <1>9
<1> QED
  BY <1>1, <1>10, <1>11, <1>12, <1>13 DEF CsvInv, NoUsers, Parted

LEMMA CsvCheckTerminate ==
  ASSUME CsvInv, NEW t \in Threads, CheckTerminate(t)
  PROVE  CsvInv'
<1>1. /\ pc[t] = "top" /\ pc' = [pc EXCEPT ![t] = IF terminate THEN "done" ELSE "take"]
      /\ setup' = setup /\ eof' = eof /\ lock' = lock /\ line' = line
      /\ pos' = pos /\ lines_count' = lines_count /\ queue' = queue /\ mainPc' = mainPc
      /\ mine' = mine /\ terminate' = terminate /\ at' = at
      /\ samples' = samples /\ labels' = labels
      /\ realid' = realid /\ sparse_ds' = sparse_ds /\ number_users' = number_users
  BY DEF CheckTerminate, Goto, fileVars, resultVars, csvVars, netflixVars
<1>2. Lines' = Lines /\ Cap' = Cap /\ Held' = Held
  BY <1>1 DEF Lines, Cap, Held
<1>3. Handed' = Handed
  BY <1>1, <1>2 DEF Handed
<1>4. CsvTyped'
  BY <1>1, <1>2 DEF CsvInv, CsvTyped, CsvPc
<1>5. CsvControl'
  BY <1>1 DEF CsvInv, CsvTyped, CsvControl, Idle
<1> QED
  BY <1>1, <1>2, <1>3, <1>4, <1>5 DEF CsvInv, CsvPublished, NoUsers, Parted

LEMMA CsvTakeLines ==
  ASSUME CsvInv, NEW t \in Threads, TakeLines(t)
  PROVE  CsvInv'
<1> DEFINE k == Min({ReadAtATime, Len(queue[t])})
           m == SubSeq(queue[t], 1, k)
           q == SubSeq(queue[t], k + 1, Len(queue[t]))
<1>1. /\ pc[t] = "take" /\ pc' = [pc EXCEPT ![t] = IF k = 0 THEN "top" ELSE "samples"]
      /\ mine' = [mine EXCEPT ![t] = m] /\ queue' = [queue EXCEPT ![t] = q]
      /\ setup' = setup /\ eof' = eof /\ lock' = lock /\ line' = line
      /\ pos' = pos /\ lines_count' = lines_count /\ mainPc' = mainPc
      /\ terminate' = terminate /\ at' = at
      /\ samples' = samples /\ labels' = labels
      /\ realid' = realid /\ sparse_ds' = sparse_ds /\ number_users' = number_users
  BY DEF TakeLines, Goto, fileVars, resultVars, netflixVars
<1>2. Lines' = Lines /\ Cap' = Cap
  BY <1>1 DEF Lines, Cap
<1>3. Handed' = Handed
  BY <1>1, <1>2 DEF Handed
<1>4. /\ queue \in [Threads -> Seq(Lines)] /\ mine \in [Threads -> Seq(Lines)]
      /\ pc \in [Threads -> CsvPc] /\ queue[t] \in Seq(Lines) /\ Len(queue[t]) \in Nat
  BY DEF CsvInv, CsvTyped
<1>5. k \in 0 .. Len(queue[t])
  <2>1. k = IF ReadAtATime <= Len(queue[t]) THEN ReadAtATime ELSE Len(queue[t])
    <3>1. ReadAtATime \in Int /\ Len(queue[t]) \in Int
      BY <1>4, BatchAssumption
    <3> QED
      BY <3>1, MinOfTwo, Zenon
  <2> HIDE DEF k
  <2> QED
    BY <1>4, <2>1, BatchAssumption
<1>6. /\ m \in Seq(Lines) /\ q \in Seq(Lines) /\ m \o q = queue[t]
      /\ k = 0 => m = <<>>
  BY <1>4, <1>5, SplitSeq
<1>7. queue[t] = <<>> => q = <<>>
  BY <1>5
<1> HIDE DEF k, m, q
<1>8. mine[t] = <<>> /\ lock # t
  BY <1>1 DEF CsvInv, CsvControl, Idle
<1>9. Held' = Held
  <2>1. ASSUME NEW u \in Threads PROVE mine'[u] \o queue'[u] = mine[u] \o queue[u]
    <3>1. CASE u = t
      <4>1. mine'[u] = m /\ queue'[u] = q
        BY <1>1, <1>4, <3>1
      <4>2. mine[u] \o queue[u] = queue[t]
        BY <1>4, <1>8, <3>1, ConcatAssoc
      <4> QED
        BY <1>6, <4>1, <4>2
    <3>2. CASE u # t
      BY <1>1, <1>4, <3>2
    <3> QED
      BY <3>1, <3>2
  <2> QED
    BY <2>1 DEF Held
<1>10. CsvTyped'
  <2>1. pc' \in [Threads -> CsvPc]
    BY <1>1, <1>4 DEF CsvPc
  <2>2. mine' \in [Threads -> Seq(Lines)] /\ queue' \in [Threads -> Seq(Lines)]
    BY <1>1, <1>4, <1>6
  <2> QED
    BY <1>1, <1>2, <2>1, <2>2 DEF CsvInv, CsvTyped
<1>11. CsvControl'
  <2>1. \A u \in Threads : queue[u] = <<>> => queue'[u] = <<>>
    BY <1>1, <1>4, <1>7
  <2>2. \A u \in Threads : pc'[u] \in Idle => mine'[u] = <<>>
    BY <1>1, <1>4, <1>6 DEF CsvInv, CsvControl, Idle
  <2>3. pc' = [pc EXCEPT ![t] = "top"] \/ pc' = [pc EXCEPT ![t] = "samples"]
    BY <1>1
  <2>4. \A u \in Threads : pc'[u] = "labels" <=> lock' = u
    BY <1>1, <1>4, <1>8, <2>3 DEF CsvInv, CsvControl
  <2>5. \A u \in Threads : pc'[u] = "done" => terminate'
    BY <1>1, <1>4, <2>3 DEF CsvInv, CsvControl
  <2>6. mainPc' \notin {"shuffle", "done", "crash"}
    BY <1>1 DEF CsvInv, CsvControl
  <2>7. /\ terminate <=> mainPc \notin {"read", "poll"}
        /\ terminate => \A u \in Threads : queue[u] = <<>>
        /\ mainPc = "read" => at < NThreads /\ \E j \in Nat : pos = BatchSize * j
        /\ mainPc = "poll" => at < NThreads /\ \A u \in Threads : u < at => queue[u] = <<>>
    BY DEF CsvInv, CsvControl
  <2>8. /\ terminate' <=> mainPc' \notin {"read", "poll"}
        /\ mainPc' = "read" => at' < NThreads /\ \E j \in Nat : pos' = BatchSize * j
    BY <1>1, <2>7
  <2>9. terminate' => \A u \in Threads : queue'[u] = <<>>
    BY <1>1, <2>1, <2>7, Zenon
  <2>10. mainPc' = "poll" =>
           at' < NThreads /\ \A u \in Threads : u < at' => queue'[u] = <<>>
    <3> SUFFICES ASSUME mainPc = "poll"
                 PROVE  at < NThreads /\ \A u \in Threads : u < at => queue'[u] = <<>>
      BY <1>1
    <3> QED
      BY <2>1, <2>7, Zenon
  <2> QED
    BY <2>2, <2>4, <2>5, <2>6, <2>8, <2>9, <2>10 DEF CsvControl
<1>12. CsvPublished'
  <2>1. lock # Nobody => mine'[lock] = mine[lock]
    BY <1>1, <1>4, <1>8 DEF CsvInv, CsvTyped
  <2> QED
    BY <1>1, <2>1 DEF CsvInv, CsvPublished
<1>13. Parted(Held', labels', Handed')
  BY <1>1, <1>3, <1>9 DEF CsvInv
<1> QED
  BY <1>1, <1>10, <1>11, <1>12, <1>13 DEF CsvInv, NoUsers, Parted

LEMMA CsvPublishFirst ==
  ASSUME CsvInv, NEW t \in Threads, PublishFirst(t)
  PROVE  CsvInv'
<1>1. lock = Nobody /\ pc[t] # "labels" /\ t # Nobody
  BY ThreadSet DEF PublishFirst, CsvInv, CsvControl
<1>2. /\ pc[t] = "samples" /\ pc' = [pc EXCEPT ![t] = "labels"] /\ lock' = t
      /\ samples' = samples \o Reverse(Reverse(mine[t])) /\ labels' = labels
      /\ mine' = mine /\ queue' = queue
      /\ setup' = setup /\ eof' = eof /\ line' = line
      /\ pos' = pos /\ lines_count' = lines_count /\ mainPc' = mainPc
      /\ terminate' = terminate /\ at' = at
      /\ realid' = realid /\ sparse_ds' = sparse_ds /\ number_users' = number_users
  BY <1>1 DEF PublishFirst, Goto, process_lines, fileVars, csvVars, netflixVars
<1>3. /\ mine \in [Threads -> Seq(Lines)] /\ pc \in [Threads -> CsvPc]
      /\ samples \in Seq(Lines) /\ labels \in Seq(Lines)
  BY DEF CsvInv, CsvTyped
<1>4. samples' = samples \o mine[t] /\ samples = labels
  BY <1>1, <1>2, <1>3, ReverseTwice DEF CsvInv, CsvPublished
<1>5. Lines' = Lines /\ Cap' = Cap /\ Held' = Held
  BY <1>2 DEF Lines, Cap, Held
<1>6. Handed' = Handed
  BY <1>2, <1>5 DEF Handed
<1>7. CsvTyped'
  <2>1. samples' \in Seq(Lines)
    BY <1>3, <1>4
  <2>2. pc' \in [Threads -> CsvPc]
    BY <1>2, <1>3 DEF CsvPc
  <2> QED
    BY <1>2, <1>5, <2>1, <2>2 DEF CsvInv, CsvTyped
<1>8. CsvControl'
  <2>1. \A u \in Threads : pc'[u] \in Idle => mine'[u] = <<>>
    BY <1>2, <1>3 DEF CsvInv, CsvControl, Idle
  <2>2. \A u \in Threads : pc'[u] = "labels" <=> lock' = u
    BY <1>1, <1>2, <1>3, ThreadSet DEF CsvInv, CsvControl
  <2>3. mainPc' \notin {"shuffle", "done", "crash"}
    BY <1>2, <1>3 DEF CsvInv, CsvControl
  <2>4. \A u \in Threads : pc'[u] = "done" => terminate'
    BY <1>2, <1>3 DEF CsvInv, CsvControl
  <2> QED
    BY <1>2, <2>1, <2>2, <2>3, <2>4 DEF CsvInv, CsvControl
<1>9. CsvPublished'
  BY <1>1, <1>2, <1>4 DEF CsvPublished
<1>10. Parted(Held', labels', Handed')
  BY <1>2, <1>5, <1>6 DEF CsvInv
<1> QED
  BY <1>2, <1>7, <1>8, <1>9, <1>10 DEF CsvInv, NoUsers, Parted

LEMMA CsvPublishSecond ==
  ASSUME CsvInv, NEW t \in Threads, PublishSecond(t)
  PROVE  CsvInv'
<1>1. setup.format = "csv" /\ lock = t /\ t # Nobody
  BY ThreadSet DEF PublishSecond, CsvInv, CsvTyped
<1>2. /\ pc' = [pc EXCEPT ![t] = "top"] /\ lock' = Nobody
      /\ labels' = labels \o Reverse(Reverse(mine[t])) /\ samples' = samples
      /\ mine' = [mine EXCEPT ![t] = <<>>] /\ queue' = queue
      /\ setup' = setup /\ eof' = eof /\ line' = line
      /\ pos' = pos /\ lines_count' = lines_count /\ mainPc' = mainPc
      /\ terminate' = terminate /\ at' = at
      /\ realid' = realid /\ sparse_ds' = sparse_ds /\ number_users' = number_users
  BY <1>1 DEF PublishSecond, Goto, process_lines, fileVars, csvVars, netflixVars
<1>3. /\ mine \in [Threads -> Seq(Lines)] /\ pc \in [Threads -> CsvPc]
      /\ queue \in [Threads -> Seq(Lines)]
      /\ samples \in Seq(Lines) /\ labels \in Seq(Lines) /\ pc[t] = "labels"
  BY <1>1 DEF CsvInv, CsvTyped, CsvControl
<1>4. labels' = labels \o mine[t] /\ samples = labels \o mine[t]
  BY <1>1, <1>2, <1>3, ReverseTwice DEF CsvInv, CsvPublished
<1>5. Lines' = Lines /\ Cap' = Cap
  BY <1>2 DEF Lines, Cap
<1>6. Handed' = Handed
  BY <1>2, <1>5 DEF Handed
<1>7. <<>> \in Seq(Lines)
  OBVIOUS
<1>8. CsvTyped'
  <2>1. labels' \in Seq(Lines)
    BY <1>3, <1>4
  <2>2. pc' \in [Threads -> CsvPc]
    BY <1>2, <1>3 DEF CsvPc
  <2>3. mine' \in [Threads -> Seq(Lines)]
    BY <1>2, <1>3, <1>7
  <2> QED
    BY <1>2, <1>5, <2>1, <2>2, <2>3 DEF CsvInv, CsvTyped
<1>9. CsvControl'
  <2>1. \A u \in Threads : pc'[u] \in Idle => mine'[u] = <<>>
    BY <1>2, <1>3 DEF CsvInv, CsvControl
  <2>2. \A u \in Threads : pc'[u] = "labels" <=> lock' = u
    BY <1>1, <1>2, <1>3, ThreadSet DEF CsvInv, CsvControl
  <2>3. mainPc' \notin {"shuffle", "done", "crash"}
    BY <1>2, <1>3 DEF CsvInv, CsvControl
  <2>4. \A u \in Threads : pc'[u] = "done" => terminate'
    BY <1>2, <1>3 DEF CsvInv, CsvControl
  <2> QED
    BY <1>2, <2>1, <2>2, <2>3, <2>4 DEF CsvInv, CsvControl
<1>10. CsvPublished'
  BY <1>2, <1>4 DEF CsvPublished
<1>11. Held' = [Held EXCEPT ![t] = queue[t]]
  <2>1. ASSUME NEW u \in Threads
        PROVE  mine'[u] \o queue[u] = [Held EXCEPT ![t] = queue[t]][u]
    <3>1. CASE u = t
      <4>1. mine'[u] = <<>> /\ queue[t] \in Seq(Lines)
        BY <1>2, <1>3, <3>1
      <4>2. <<>> \o queue[t] = queue[t]
        BY <4>1, ConcatAssoc
      <4>3. [Held EXCEPT ![t] = queue[t]][u] = queue[t]
        BY <3>1 DEF Held
      <4> QED
        BY <3>1, <4>1, <4>2, <4>3
    <3>2. CASE u # t
      BY <1>2, <1>3, <3>2 DEF Held
    <3> QED
      BY <3>1, <3>2
  <2>2. Held' = [u \in Threads |-> mine'[u] \o queue[u]]
    BY <1>2 DEF Held
  <2>3. [Held EXCEPT ![t] = queue[t]]
          = [u \in Threads |-> [Held EXCEPT ![t] = queue[t]][u]]
    BY DEF Held
  <2> QED
    BY <2>1, <2>2, <2>3
<1>12. Parted([Held EXCEPT ![t] = queue[t]], labels \o mine[t], Handed)
  <2>1. Held \in [Threads -> Seq(Lines)] /\ Parted(Held, labels, Handed)
    BY HeldTyped DEF CsvInv
  <2>2. Held[t] = mine[t] \o queue[t] /\ mine[t] \in Seq(Lines) /\ queue[t] \in Seq(Lines)
    BY <1>3 DEF Held
  <2> QED
    BY <1>3, <2>1, <2>2, PartedPublished
<1>13. Parted(Held', labels', Handed')
  BY <1>4, <1>6, <1>11, <1>12
<1> QED
  BY <1>2, <1>8, <1>9, <1>10, <1>13 DEF CsvInv, NoUsers, Parted

LEMMA CsvStep == ASSUME CsvInv, ReaderNext PROVE CsvInv'
<1>1. \A t \in Threads : pc[t] \in CsvPc
  BY DEF CsvInv, CsvTyped
<1>2. CASE Main
  BY <1>2, CsvReadBatch, CsvPollQueue, CsvJoin, CsvShuffle DEF Main
<1>3. ASSUME NEW t \in Threads, Thread(t) PROVE CsvInv'
  <2>1. ~ReadLine(t) /\ ~CheckEof(t) /\ ~CheckLimit(t) /\ ~ParseLine(t)
    BY <1>1 DEF ReadLine, CheckEof, CheckLimit, ParseLine, CsvPc
  <2>2. ~NetflixReadLine(t) /\ ~MapUser(t) /\ ~PublishMax(t)
    BY <1>1 DEF NetflixReadLine, MapUser, PublishMax, CsvPc
  <2> QED
    BY <1>3, <2>1, <2>2, CsvCheckTerminate, CsvTakeLines, CsvPublishFirst,
       CsvPublishSecond DEF Thread
<1> QED
  BY <1>2, <1>3 DEF ReaderNext

LEMMA CsvResult ==
  ASSUME CsvInv
  PROVE  SamplesKeepLabels /\ CsvWholeBatches /\ TypeOK
<1>1. IsInjective(labels) /\ Parted(Held, labels, Handed)
  BY DEF CsvInv, Parted
<1>2. SamplesKeepLabels
  BY <1>1 DEF CsvInv, CsvPublished, SamplesKeepLabels
<1>3. CsvWholeBatches
  <2> SUFFICES ASSUME mainPc \in {"shuffle", "done", "crash"}
               PROVE  ToSet(samples) = 1 .. Handed
    BY DEF CsvWholeBatches, Handed, Cap
  <2>1. \A t \in Threads : pc[t] = "done" /\ mine[t] = <<>> /\ queue[t] = <<>>
    BY DEF CsvInv, CsvControl, Idle
  <2>2. lock = Nobody /\ samples = labels
    <3>1. lock = Nobody
      BY <2>1 DEF CsvInv, CsvControl, CsvTyped
    <3> QED
      BY <3>1 DEF CsvInv, CsvPublished
  <2>3. \A t \in Threads : ToSet(Held[t]) = {}
    <3>1. <<>> \o <<>> = <<>> /\ ToSet(<<>>) = {}
      BY DEF ToSet
    <3> QED
      BY <2>1, <3>1 DEF Held
  <2>4. \A l : l \in 1 .. Handed <=> l \in ToSet(labels)
    BY <1>1, <2>3 DEF Parted
  <2> QED
    BY <2>2, <2>4
<1>4. TypeOK
  <2>1. pos \in 0 .. setup.n /\ lines_count \in 0 .. setup.n /\ eof \in BOOLEAN
    <3>1. /\ setup \in Setups /\ pos \in Nat /\ pos <= setup.n /\ lines_count = pos
          /\ eof = FALSE
      BY DEF CsvInv, CsvTyped
    <3>2. setup.n \in Nat
      BY <3>1, SetupFacts
    <3>3. pos \in 0 .. setup.n
      BY <3>1, <3>2
    <3> QED
      BY <3>1, <3>3, Zenon
  <2>2. /\ pc \in [Threads -> {"top", "take", "get", "eof", "limit", "parse", "nfget",
                              "map", "max", "labels", "samples", "done"}]
        /\ line \in [Threads -> Lines \union {NoLine}]
    BY DEF CsvInv, CsvTyped, CsvPc
  <2>3. /\ realid \in [UserSet -> 0 .. (Cardinality(UserSet) - 1) \union {NoRow}]
        /\ sparse_ds \in [0 .. (Rows - 1) -> Seq(Lines)] /\ number_users \in 0 .. Rows
    <3>1. <<>> \in Seq(Lines) /\ 0 \in 0 .. Rows
      BY RowsAssumption
    <3> QED
      BY <3>1 DEF CsvInv, NoUsers
  <2> QED
    BY <2>1, <2>2, <2>3 DEF CsvInv, CsvTyped, TypeOK
<1> QED
  BY <1>2, <1>3, <1>4

-----------------------------------------------------------------------------
(* read_input_criteo_sparse and the readers that share its scheme.            *)

CriteoPc == {"get", "eof", "limit", "parse", "labels", "samples", "done"}

(* The thread has a line that it may still keep. *)
InHand(t) == pc[t] \in {"eof", "limit", "parse"} /\ line[t] # NoLine
Parsing == {t \in Threads : pc[t] = "parse"}
Kept == {l \in Lines : \E t \in Threads : l \in ToSet(mine[t])}

NoQueues ==
  /\ queue = [t \in Threads |-> <<>>] /\ terminate = FALSE /\ at = 0

CriteoTyped ==
  /\ setup \in Setups /\ setup.format = "criteo"
  /\ pos \in Nat /\ pos <= setup.n /\ lines_count \in Nat /\ eof \in BOOLEAN
  /\ lock \in Threads \union {Nobody}
  /\ pc \in [Threads -> CriteoPc] /\ line \in [Threads -> Lines \union {NoLine}]
  /\ mine \in [Threads -> Seq(Lines)]
  /\ samples \in Seq(Lines) /\ labels \in Seq(Lines)
  /\ mainPc \in {"join", "done"}

(* Where the threads are, and what they know of the end of the file. *)
CriteoFile ==
  /\ \A t \in Threads : pc[t] \in {"limit", "parse"} => line[t] # NoLine
  /\ \A t \in Threads : pc[t] = "eof" /\ line[t] = NoLine => eof
  /\ eof => pos = setup.n
  /\ eof /\ setup.newline =>
       \E t \in Threads : line[t] = NoLine /\ pc[t] \in {"eof", "labels", "samples", "done"}
  /\ \A t \in Threads : pc[t] \in {"labels", "samples", "done"} => eof \/ LimitReached
  /\ mainPc = "done" => \A t \in Threads : pc[t] = "done"

(* A line that was read is one thread's own, in its hand, or was dropped by   *)
(* the thread that read it.                                                   *)
CriteoMine ==
  /\ \A t \in Threads : IsInjective(mine[t]) /\ ToSet(mine[t]) \subseteq 1 .. pos
  /\ \A t, u \in Threads : t # u => ToSet(mine[t]) \cap ToSet(mine[u]) = {}
  /\ \A t \in Threads : InHand(t) =>
       line[t] <= pos /\ \A u \in Threads : line[t] \notin ToSet(mine[u])
  /\ \A t, u \in Threads : t # u /\ InHand(t) /\ InHand(u) => line[t] # line[u]
  /\ \A l \in 1 .. pos :
       \E t \in Threads : l \in ToSet(mine[t]) \/ (line[t] = l /\ pc[t] # "get")

CriteoPublished ==
  /\ \A t \in Threads : pc[t] = "samples" <=> lock = t
  /\ IsInjective(samples)
  /\ \A l : l \in ToSet(samples) <=>
               \E t \in Threads : pc[t] = "done" /\ l \in ToSet(mine[t])
  /\ labels = IF lock = Nobody THEN samples ELSE samples \o mine[lock]

(* A thread that is about to parse a line has passed the test of the limit. *)
CriteoCounted ==
  /\ lines_count = Cardinality(Kept)
  /\ lines_count + Cardinality(Parsing) <= Cap + NThreads - 1

CriteoInv ==
  /\ CriteoTyped /\ CriteoFile /\ CriteoMine /\ CriteoPublished /\ CriteoCounted
  /\ NoQueues /\ NoUsers

LEMMA ThreadsFinite == IsFiniteSet(Threads) /\ Cardinality(Threads) = NThreads
<1>1. NThreads \in Nat \ {0}
  BY NThreadsAssumption
<1>2. /\ IsFiniteSet(0 .. (NThreads - 1))
      /\ Cardinality(0 .. (NThreads - 1))
           = IF 0 > NThreads - 1 THEN 0 ELSE (NThreads - 1) - 0 + 1
  BY <1>1, FS_Interval
<1> QED
  BY <1>1, <1>2 DEF Threads

LEMMA LinesFinite ==
  ASSUME setup \in Setups
  PROVE  /\ IsFiniteSet(Lines) /\ Cardinality(Lines) = setup.n /\ setup.n \in Nat
         /\ \A l \in Lines : l \in Nat /\ l # NoLine
<1>1. setup.n \in Nat
  BY SetupFacts
<1> DEFINE n == setup.n
<1> HIDE DEF n
<1>2. IsFiniteSet(1 .. n) /\ Cardinality(1 .. n) = IF 1 > n THEN 0 ELSE n - 1 + 1
  BY <1>1, FS_Interval, SMTT(30) DEF n
<1>3. Cardinality(1 .. n) = n
  BY <1>1, <1>2 DEF n
<1> QED
  BY <1>1, <1>2, <1>3 DEF n, Lines, NoLine

LEMMA KeptFinite ==
  ASSUME setup \in Setups
  PROVE  /\ Kept \subseteq Lines /\ IsFiniteSet(Kept)
         /\ Cardinality(Kept) \in Nat /\ Cardinality(Kept) <= setup.n
<1>1. Kept \subseteq Lines
  BY DEF Kept
<1> QED
  BY <1>1, LinesFinite, FS_Subset, FS_CardinalityType

LEMMA ParsingFinite ==
  /\ IsFiniteSet(Parsing) /\ Cardinality(Parsing) \in Nat
  /\ Cardinality(Parsing) <= NThreads
<1>1. Parsing \subseteq Threads
  BY DEF Parsing
<1> QED
  BY <1>1, ThreadsFinite, FS_Subset, FS_CardinalityType

(* The test of the limit passes while fewer lines than the cap were counted,  *)
(* and once it failed it fails for good.                                      *)
LEMMA LimitFacts ==
  ASSUME setup \in Setups, lines_count \in Nat
  PROVE  LimitReached <=> lines_count >= Cap
BY SetupFacts DEF LimitReached

LEMMA CriteoInit == ASSUME Init, setup.format = "criteo" PROVE CriteoInv
<1>1. /\ setup \in Setups /\ pos = 0 /\ lines_count = 0 /\ mainPc = "join" /\ lock = Nobody
      /\ eof = FALSE
      /\ pc = [t \in Threads |-> "get"] /\ mine = [t \in Threads |-> <<>>]
      /\ line = [t \in Threads |-> NoLine]
      /\ queue = [t \in Threads |-> <<>>] /\ at = 0 /\ terminate = FALSE
      /\ samples = <<>> /\ labels = <<>>
  BY DEF Init
<1>2. <<>> \in Seq(Lines) /\ ToSet(<<>>) = {} /\ IsInjective(<<>>)
  BY DEF ToSet, IsInjective
<1>3. setup.n \in Nat /\ Cap \in Nat \ {0}
  BY <1>1, SetupFacts
<1>4. CriteoTyped
  <2>1. pc \in [Threads -> CriteoPc] /\ line \in [Threads -> Lines \union {NoLine}]
    BY <1>1 DEF CriteoPc
  <2>2. mine \in [Threads -> Seq(Lines)] /\ samples \in Seq(Lines) /\ labels \in Seq(Lines)
    BY <1>1, <1>2
  <2>3. pos \in Nat /\ pos <= setup.n /\ lines_count \in Nat
    BY <1>1, <1>3
  <2>4. eof \in BOOLEAN
    BY <1>1
  <2> QED
    BY <1>1, <2>1, <2>2, <2>3, <2>4 DEF CriteoTyped
<1>5. CriteoFile
  BY <1>1 DEF CriteoFile
<1>6. CriteoMine
  <2>1. 1 .. pos = {}
    BY <1>1
  <2>2. \A t \in Threads : mine[t] = <<>> /\ ~InHand(t)
    BY <1>1 DEF InHand
  <2> QED
    BY <1>2, <2>1, <2>2, Zenon DEF CriteoMine
<1>7. CriteoPublished
  <2>1. \A t \in Threads : pc[t] = "get" /\ lock # t
    BY <1>1, ThreadSet
  <2> QED
    BY <1>1, <1>2, <2>1 DEF CriteoPublished
<1>8. CriteoCounted
  <2>1. Kept = {} /\ Parsing = {}
    BY <1>1, <1>2 DEF Kept, Parsing
  <2>2. Cardinality({}) = 0
    BY FS_EmptySet
  <2> QED
    BY <1>1, <1>3, <2>1, <2>2, ThreadSet DEF CriteoCounted
<1> QED
  BY <1>1, <1>4, <1>5, <1>6, <1>7, <1>8 DEF CriteoInv, NoQueues, NoUsers, Init

LEMMA CriteoReadLine ==
  ASSUME CriteoInv, NEW t \in Threads, ReadLine(t)
  PROVE  CriteoInv'
<1>1. /\ pc[t] = "get" /\ pc' = [pc EXCEPT ![t] = "eof"] /\ lock = Nobody
      /\ line' = [line EXCEPT ![t] = IF pos < setup.n THEN pos + 1 ELSE NoLine]
      /\ pos' = IF pos < setup.n THEN pos + 1 ELSE pos
      /\ eof' = (eof \/ pos = setup.n \/ (pos + 1 = setup.n /\ ~setup.newline))
      /\ setup' = setup /\ lock' = lock /\ lines_count' = lines_count /\ mine' = mine
      /\ samples' = samples /\ labels' = labels /\ mainPc' = mainPc
      /\ queue' = queue /\ terminate' = terminate /\ at' = at
      /\ realid' = realid /\ sparse_ds' = sparse_ds /\ number_users' = number_users
  BY DEF ReadLine, GetLine, Goto, resultVars, csvVars, netflixVars
<1>2. /\ setup \in Setups /\ setup.n \in Nat /\ pos \in Nat /\ pos <= setup.n
      /\ pc \in [Threads -> CriteoPc] /\ line \in [Threads -> Lines \union {NoLine}]
      /\ setup.newline \in BOOLEAN /\ lines_count \in Nat
  BY SetupFacts DEF CriteoInv, CriteoTyped
<1>3. /\ pc'[t] = "eof" /\ line'[t] = IF pos < setup.n THEN pos + 1 ELSE NoLine
      /\ \A u \in Threads \ {t} : pc'[u] = pc[u] /\ line'[u] = line[u]
  BY <1>1, <1>2
<1>12. eof' <=> (eof \/ pos = setup.n \/ (pos + 1 = setup.n /\ ~setup.newline))
  BY <1>1, Zenon
<1>4. /\ Lines' = Lines /\ Cap' = Cap /\ Kept' = Kept /\ (LimitReached' <=> LimitReached)
      /\ Parsing' = Parsing
  <2>1. Parsing' = Parsing
    BY <1>1, <1>3 DEF Parsing
  <2> QED
    BY <1>1, <2>1 DEF Lines, Cap, Kept, LimitReached
<1>5. pos' \in Nat /\ pos' <= setup.n /\ pos <= pos' /\ eof' \in BOOLEAN
  BY <1>1, <1>2
<1>6. line'[t] \in Lines \union {NoLine}
  BY <1>2, <1>3 DEF Lines
<1>7. CriteoTyped'
  <2>1. pc' \in [Threads -> CriteoPc]
    BY <1>1, <1>2 DEF CriteoPc
  <2>2. line' \in [Threads -> Lines \union {NoLine}]
    BY <1>2, <1>3, <1>6, <1>1
  <2> QED
    BY <1>1, <1>4, <1>5, <2>1, <2>2 DEF CriteoInv, CriteoTyped
<1>8. CriteoFile'
  <2>1. \A u \in Threads : pc'[u] \in {"limit", "parse"} => line'[u] # NoLine
    BY <1>3 DEF CriteoInv, CriteoFile
  <2>2. eof => eof'
    BY <1>1
  <2>3. ASSUME NEW u \in Threads, pc'[u] = "eof", line'[u] = NoLine PROVE eof'
    <3>1. CASE u = t
      <4>1. ~(pos < setup.n)
        BY <1>2, <1>3, <2>3, <3>1 DEF NoLine
      <4> QED
        BY <1>12, <1>2, <4>1
    <3>2. CASE u # t
      BY <1>3, <2>2, <2>3, <3>2 DEF CriteoInv, CriteoFile
    <3> QED
      BY <3>1, <3>2
  <2>4. eof' => pos' = setup.n
    <3>1. eof => pos = setup.n
      BY DEF CriteoInv, CriteoFile
    <3>2. pos' = IF pos < setup.n THEN pos + 1 ELSE pos
      BY <1>1
    <3> QED
      BY <1>12, <1>2, <3>1, <3>2
  <2>5. ASSUME eof', setup.newline
        PROVE  \E u \in Threads : /\ line'[u] = NoLine
                                  /\ pc'[u] \in {"eof", "labels", "samples", "done"}
    <3>1. CASE eof
      <4>1. PICK u \in Threads : /\ line[u] = NoLine
                                 /\ pc[u] \in {"eof", "labels", "samples", "done"}
        BY <2>5, <3>1 DEF CriteoInv, CriteoFile
      <4>2. u # t
        BY <1>1, <4>1
      <4> QED
        BY <1>3, <4>1, <4>2
    <3>2. CASE ~eof
      <4>1. line'[t] = NoLine
        <5>1. pos = setup.n
          BY <1>12, <2>5, <3>2
        <5> QED
          BY <1>2, <1>3, <5>1
      <4> QED
        BY <1>3, <4>1
    <3> QED
      BY <3>1, <3>2
  <2>6. \A u \in Threads : pc'[u] \in {"labels", "samples", "done"} => eof' \/ LimitReached
    BY <1>3, <2>2 DEF CriteoInv, CriteoFile
  <2>7. mainPc' # "done"
    BY <1>1 DEF CriteoInv, CriteoFile, CriteoTyped
  <2> QED
    BY <1>1, <1>4, <2>1, <2>3, <2>4, <2>5, <2>6, <2>7 DEF CriteoFile
<1>9. CriteoMine'
  <2>1. /\ \A u \in Threads : IsInjective(mine[u]) /\ ToSet(mine[u]) \subseteq 1 .. pos
        /\ \A u, v \in Threads : u # v => ToSet(mine[u]) \cap ToSet(mine[v]) = {}
        /\ \A u \in Threads : InHand(u) =>
             line[u] <= pos /\ \A v \in Threads : line[u] \notin ToSet(mine[v])
        /\ \A u, v \in Threads : u # v /\ InHand(u) /\ InHand(v) => line[u] # line[v]
        /\ \A l \in 1 .. pos :
             \E u \in Threads : l \in ToSet(mine[u]) \/ (line[u] = l /\ pc[u] # "get")
    BY DEF CriteoInv, CriteoMine
  <2>2. \A u \in Threads \ {t} : InHand(u)' <=> InHand(u)
    BY <1>3 DEF InHand
  <2>3. InHand(t)' => line'[t] = pos + 1 /\ pos' = pos + 1
    BY <1>1, <1>3 DEF InHand
  <2>4. 1 .. pos \subseteq 1 .. pos' /\ pos + 1 \notin 1 .. pos
    BY <1>2, <1>5
  <2>5. \A u \in Threads : ToSet(mine[u]) \subseteq 1 .. pos'
    BY <2>1, <2>4
  <2>6. ASSUME NEW u \in Threads, InHand(u)'
        PROVE  line'[u] <= pos' /\ \A v \in Threads : line'[u] \notin ToSet(mine[v])
    <3>1. CASE u = t
      BY <1>2, <2>1, <2>3, <2>4, <2>6, <3>1
    <3>2. CASE u # t
      <4>1. InHand(u) /\ line'[u] = line[u] /\ line[u] \in Nat
        BY <1>2, <1>3, <2>2, <2>6, <3>2, LinesFinite DEF InHand
      <4> QED
        BY <1>2, <1>5, <2>1, <4>1
    <3> QED
      BY <3>1, <3>2
  <2>7. ASSUME NEW u \in Threads, NEW v \in Threads, u # v, InHand(u)', InHand(v)'
        PROVE  line'[u] # line'[v]
    <3>1. \A w \in Threads \ {t} : InHand(w)' =>
            InHand(w) /\ line'[w] = line[w] /\ line[w] <= pos /\ line[w] \in Nat
      BY <1>2, <1>3, <2>1, <2>2, LinesFinite DEF InHand
    <3>2. CASE u = t
      BY <1>2, <2>3, <2>7, <3>1, <3>2
    <3>3. CASE v = t
      BY <1>2, <2>3, <2>7, <3>1, <3>3
    <3>4. CASE u # t /\ v # t
      BY <2>1, <2>7, <3>1, <3>4
    <3> QED
      BY <3>2, <3>3, <3>4
  <2>8. ASSUME NEW l \in 1 .. pos'
        PROVE  \E u \in Threads : l \in ToSet(mine[u]) \/ (line'[u] = l /\ pc'[u] # "get")
    <3>1. CASE l \in 1 .. pos
      <4>1. PICK u \in Threads : l \in ToSet(mine[u]) \/ (line[u] = l /\ pc[u] # "get")
        BY <2>1, <3>1
      <4>2. CASE l \in ToSet(mine[u])
        BY <4>2
      <4>3. CASE line[u] = l /\ pc[u] # "get"
        BY <1>1, <1>3, <4>3
      <4> QED
        BY <4>1, <4>2, <4>3
    <3>2. CASE l \notin 1 .. pos
      <4>1. pos < setup.n /\ l = pos + 1
        BY <1>1, <1>2, <2>8, <3>2
      <4> QED
        BY <1>3, <4>1
    <3> QED
      BY <3>1, <3>2
  <2> QED
    BY <1>1, <2>1, <2>5, <2>6, <2>7, <2>8, SMTT(30) DEF CriteoMine
<1>10. CriteoPublished'
  <2>1. \A u \in Threads : (pc'[u] = "samples" <=> pc[u] = "samples")
                         /\ (pc'[u] = "done" <=> pc[u] = "done")
    BY <1>1, <1>3
  <2> QED
    BY <1>1, <2>1 DEF CriteoInv, CriteoPublished
<1>11. CriteoCounted'
  BY <1>1, <1>4 DEF CriteoInv, CriteoCounted
<1> QED
  BY <1>1, <1>7, <1>8, <1>9, <1>10, <1>11 DEF CriteoInv, NoQueues, NoUsers

(* A step that moves a thread on, but not to another line. *)
LEMMA CriteoMineKept ==
  ASSUME CriteoMine, mine' = mine, line' = line, pos' = pos,
         \A t \in Threads : InHand(t)' => InHand(t),
         \A t \in Threads : pc'[t] = "get" => pc[t] = "get"
  PROVE  CriteoMine'
<1>1. /\ \A t \in Threads : IsInjective(mine[t]) /\ ToSet(mine[t]) \subseteq 1 .. pos
      /\ \A t, u \in Threads : t # u => ToSet(mine[t]) \cap ToSet(mine[u]) = {}
  BY DEF CriteoMine
<1>2. \A t \in Threads : InHand(t)' =>
        line[t] <= pos /\ \A u \in Threads : line[t] \notin ToSet(mine[u])
  BY DEF CriteoMine
<1>3. \A t, u \in Threads : t # u /\ InHand(t)' /\ InHand(u)' => line[t] # line[u]
  BY DEF CriteoMine
<1>4. \A l \in 1 .. pos :
        \E t \in Threads : l \in ToSet(mine[t]) \/ (line[t] = l /\ pc'[t] # "get")
  BY DEF CriteoMine
<1> QED
  BY <1>1, <1>2, <1>3, <1>4 DEF CriteoMine

LEMMA CriteoCheckEof ==
  ASSUME CriteoInv, NEW t \in Threads, CheckEof(t)
  PROVE  CriteoInv'
<1>1. /\ pc[t] = "eof" /\ pc' = [pc EXCEPT ![t] = IF eof THEN "labels" ELSE "limit"]
      /\ line' = line /\ pos' = pos /\ eof' = eof
      /\ setup' = setup /\ lock' = lock /\ lines_count' = lines_count /\ mine' = mine
      /\ samples' = samples /\ labels' = labels /\ mainPc' = mainPc
      /\ queue' = queue /\ terminate' = terminate /\ at' = at
      /\ realid' = realid /\ sparse_ds' = sparse_ds /\ number_users' = number_users
  BY DEF CheckEof, Goto, fileVars, resultVars, csvVars, netflixVars
<1>2. pc \in [Threads -> CriteoPc]
  BY DEF CriteoInv, CriteoTyped
<1>3. /\ pc'[t] = IF eof THEN "labels" ELSE "limit"
      /\ \A u \in Threads \ {t} : pc'[u] = pc[u]
  BY <1>1, <1>2
<1>4. /\ Lines' = Lines /\ Cap' = Cap /\ Kept' = Kept /\ (LimitReached' <=> LimitReached)
      /\ Parsing' = Parsing
  <2>1. Parsing' = Parsing
    BY <1>1, <1>3 DEF Parsing
  <2> QED
    BY <1>1, <2>1 DEF Lines, Cap, Kept, LimitReached
<1>5. CriteoTyped'
  <2>1. pc' \in [Threads -> CriteoPc]
    BY <1>1, <1>2 DEF CriteoPc
  <2> QED
    BY <1>1, <1>4, <2>1 DEF CriteoInv, CriteoTyped
<1>6. CriteoFile'
  <2>1. \A u \in Threads : pc'[u] \in {"limit", "parse"} => line[u] # NoLine
    BY <1>1, <1>3 DEF CriteoInv, CriteoFile
  <2>2. \A u \in Threads : pc'[u] = "eof" /\ line[u] = NoLine => eof
    BY <1>3 DEF CriteoInv, CriteoFile
  <2>3. ASSUME eof, setup.newline
        PROVE  \E u \in Threads : /\ line[u] = NoLine
                                  /\ pc'[u] \in {"eof", "labels", "samples", "done"}
    BY <1>3, <2>3 DEF CriteoInv, CriteoFile
  <2>4. \A u \in Threads : pc'[u] \in {"labels", "samples", "done"} => eof \/ LimitReached
    BY <1>3 DEF CriteoInv, CriteoFile
  <2>5. mainPc # "done" /\ (eof => pos = setup.n)
    BY <1>1 DEF CriteoInv, CriteoFile
  <2> QED
    BY <1>1, <1>4, <2>1, <2>2, <2>3, <2>4, <2>5 DEF CriteoFile
<1>7. CriteoMine'
  <2>1. \A u \in Threads : InHand(u)' => InHand(u)
    BY <1>1, <1>3 DEF InHand
  <2>2. \A u \in Threads : pc'[u] = "get" => pc[u] = "get"
    BY <1>3
  <2> QED
    BY <1>1, <2>1, <2>2, CriteoMineKept DEF CriteoInv
<1>8. CriteoPublished'
  <2>1. \A u \in Threads : (pc'[u] = "samples" <=> pc[u] = "samples")
                         /\ (pc'[u] = "done" <=> pc[u] = "done")
    BY <1>1, <1>3
  <2> QED
    BY <1>1, <2>1 DEF CriteoInv, CriteoPublished
<1>9. CriteoCounted'
  BY <1>1, <1>4 DEF CriteoInv, CriteoCounted
<1> QED
  BY <1>1, <1>5, <1>6, <1>7, <1>8, <1>9 DEF CriteoInv, NoQueues, NoUsers

LEMMA CriteoCheckLimit ==
  ASSUME CriteoInv, NEW t \in Threads, CheckLimit(t)
  PROVE  CriteoInv'
<1>1. /\ pc[t] = "limit" /\ pc' = [pc EXCEPT ![t] = IF LimitReached THEN "labels" ELSE "parse"]
      /\ line' = line /\ pos' = pos /\ eof' = eof
      /\ setup' = setup /\ lock' = lock /\ lines_count' = lines_count /\ mine' = mine
      /\ samples' = samples /\ labels' = labels /\ mainPc' = mainPc
      /\ queue' = queue /\ terminate' = terminate /\ at' = at
      /\ realid' = realid /\ sparse_ds' = sparse_ds /\ number_users' = number_users
  BY DEF CheckLimit, Goto, fileVars, resultVars, csvVars, netflixVars
<1>2. pc \in [Threads -> CriteoPc] /\ setup \in Setups /\ lines_count \in Nat
  BY DEF CriteoInv, CriteoTyped
<1>3. /\ pc'[t] = IF LimitReached THEN "labels" ELSE "parse"
      /\ \A u \in Threads \ {t} : pc'[u] = pc[u]
  BY <1>1, <1>2
<1>4. Lines' = Lines /\ Cap' = Cap /\ Kept' = Kept /\ (LimitReached' <=> LimitReached)
  BY <1>1 DEF Lines, Cap, Kept, LimitReached
<1>5. CriteoTyped'
  <2>1. pc' \in [Threads -> CriteoPc]
    BY <1>1, <1>2 DEF CriteoPc
  <2> QED
    BY <1>1, <1>4, <2>1 DEF CriteoInv, CriteoTyped
<1>6. CriteoFile'
  <2>1. \A u \in Threads : pc'[u] \in {"limit", "parse"} => line[u] # NoLine
    BY <1>1, <1>3 DEF CriteoInv, CriteoFile
  <2>2. \A u \in Threads : pc'[u] = "eof" /\ line[u] = NoLine => eof
    BY <1>3 DEF CriteoInv, CriteoFile
  <2>3. ASSUME eof, setup.newline
        PROVE  \E u \in Threads : /\ line[u] = NoLine
                                  /\ pc'[u] \in {"eof", "labels", "samples", "done"}
    <3>1. PICK u \in Threads : /\ line[u] = NoLine
                               /\ pc[u] \in {"eof", "labels", "samples", "done"}
      BY <2>3 DEF CriteoInv, CriteoFile
    <3> QED
      BY <1>1, <1>3, <3>1
  <2>4. \A u \in Threads : pc'[u] \in {"labels", "samples", "done"} => eof \/ LimitReached
    BY <1>3 DEF CriteoInv, CriteoFile
  <2>5. mainPc # "done" /\ (eof => pos = setup.n)
    BY <1>1 DEF CriteoInv, CriteoFile
  <2> QED
    BY <1>1, <1>4, <2>1, <2>2, <2>3, <2>4, <2>5 DEF CriteoFile
<1>7. CriteoMine'
  <2>1. \A u \in Threads : InHand(u)' => InHand(u)
    BY <1>1, <1>3 DEF InHand
  <2>2. \A u \in Threads : pc'[u] = "get" => pc[u] = "get"
    BY <1>3
  <2> QED
    BY <1>1, <2>1, <2>2, CriteoMineKept DEF CriteoInv
<1>8. CriteoPublished'
  <2>1. \A u \in Threads : (pc'[u] = "samples" <=> pc[u] = "samples")
                         /\ (pc'[u] = "done" <=> pc[u] = "done")
    BY <1>1, <1>3
  <2> QED
    BY <1>1, <2>1 DEF CriteoInv, CriteoPublished
<1>9. lines_count' + Cardinality(Parsing') <= Cap + NThreads - 1
  <2>1. Cap \in Nat /\ NThreads \in Nat
    BY <1>2, SetupFacts, ThreadSet
  <2>2. CASE LimitReached
    <3>1. Parsing' = Parsing
      BY <1>1, <1>3, <2>2 DEF Parsing
    <3> QED
      BY <1>1, <3>1 DEF CriteoInv, CriteoCounted
  <2>3. CASE ~LimitReached
    <3>1. lines_count <= Cap - 1
      BY <1>2, <2>1, <2>3, LimitFacts
    <3>2. Parsing' \subseteq Threads
      BY DEF Parsing
    <3>3. IsFiniteSet(Parsing') /\ Cardinality(Parsing') <= NThreads
      BY <3>2, ThreadsFinite, FS_Subset, Zenon
    <3>4. Cardinality(Parsing') \in Nat
      BY <3>3, FS_CardinalityType
    <3> QED
      BY <1>1, <1>2, <2>1, <3>1, <3>3, <3>4
  <2> QED
    BY <2>2, <2>3
<1>10. CriteoCounted'
  BY <1>1, <1>4, <1>9 DEF CriteoInv, CriteoCounted
<1> QED
  BY <1>1, <1>5, <1>6, <1>7, <1>8, <1>10 DEF CriteoInv, NoQueues, NoUsers

LEMMA CriteoParseLine ==
  ASSUME CriteoInv, NEW t \in Threads, ParseLine(t)
  PROVE  CriteoInv'
<1> DEFINE l0 == line[t]
<1>1. /\ pc[t] = "parse" /\ pc' = [pc EXCEPT ![t] = "get"]
      /\ mine' = [mine EXCEPT ![t] = Append(mine[t], l0)]
      /\ lines_count' = lines_count + 1
      /\ line' = line /\ pos' = pos /\ eof' = eof
      /\ setup' = setup /\ lock' = lock
      /\ samples' = samples /\ labels' = labels /\ mainPc' = mainPc
      /\ queue' = queue /\ terminate' = terminate /\ at' = at
      /\ realid' = realid /\ sparse_ds' = sparse_ds /\ number_users' = number_users
  BY DEF ParseLine, Goto, resultVars, csvVars, netflixVars
<1>2. /\ pc \in [Threads -> CriteoPc] /\ setup \in Setups /\ lines_count \in Nat
      /\ line \in [Threads -> Lines \union {NoLine}] /\ mine \in [Threads -> Seq(Lines)]
      /\ pos \in Nat
  BY DEF CriteoInv, CriteoTyped
<1>3. /\ pc'[t] = "get" /\ mine'[t] = Append(mine[t], l0)
      /\ \A u \in Threads \ {t} : pc'[u] = pc[u] /\ mine'[u] = mine[u]
  BY <1>1, <1>2
<1>4. /\ InHand(t) /\ l0 \in Lines
      /\ l0 <= pos /\ \A u \in Threads : l0 \notin ToSet(mine[u])
  <2>1. l0 # NoLine
    BY <1>1 DEF CriteoInv, CriteoFile
  <2>2. InHand(t)
    BY <1>1, <2>1 DEF InHand
  <2> QED
    BY <1>2, <2>1, <2>2 DEF CriteoInv, CriteoMine
<1> HIDE DEF l0
<1>5. /\ mine'[t] \in Seq(Lines) /\ ToSet(mine'[t]) = ToSet(mine[t]) \union {l0}
      /\ IsInjective(mine'[t])
  <2>1. mine[t] \in Seq(Lines) /\ IsInjective(mine[t])
    BY <1>2 DEF CriteoInv, CriteoMine
  <2> QED
    BY <1>3, <1>4, <2>1, AppendFacts
<1>6. Lines' = Lines /\ Cap' = Cap /\ (LimitReached => LimitReached')
  <2>1. setup.limit \in Nat
    BY <1>2, SetupFacts
  <2> QED
    BY <1>1, <1>2, <2>1 DEF Lines, Cap, LimitReached
<1>7. CriteoTyped'
  <2>1. pc' \in [Threads -> CriteoPc]
    BY <1>1, <1>2 DEF CriteoPc
  <2>2. mine' \in [Threads -> Seq(Lines)]
    BY <1>1, <1>2, <1>3, <1>5
  <2>3. lines_count' \in Nat
    BY <1>1, <1>2
  <2> QED
    BY <1>1, <1>6, <2>1, <2>2, <2>3 DEF CriteoInv, CriteoTyped
<1>8. CriteoFile'
  <2>1. \A u \in Threads : pc'[u] \in {"limit", "parse"} => line[u] # NoLine
    BY <1>3 DEF CriteoInv, CriteoFile
  <2>2. \A u \in Threads : pc'[u] = "eof" /\ line[u] = NoLine => eof
    BY <1>3 DEF CriteoInv, CriteoFile
  <2>3. ASSUME eof, setup.newline
        PROVE  \E u \in Threads : /\ line[u] = NoLine
                                  /\ pc'[u] \in {"eof", "labels", "samples", "done"}
    <3>1. PICK u \in Threads : /\ line[u] = NoLine
                               /\ pc[u] \in {"eof", "labels", "samples", "done"}
      BY <2>3 DEF CriteoInv, CriteoFile
    <3> QED
      BY <1>1, <1>3, <3>1
  <2>4. \A u \in Threads : pc'[u] \in {"labels", "samples", "done"} => eof \/ LimitReached
    BY <1>3 DEF CriteoInv, CriteoFile
  <2>5. mainPc # "done" /\ (eof => pos = setup.n)
    BY <1>1 DEF CriteoInv, CriteoFile
  <2> QED
    BY <1>1, <1>6, <2>1, <2>2, <2>3, <2>4, <2>5 DEF CriteoFile
<1>9. CriteoMine'
  <2>1. /\ \A u \in Threads : IsInjective(mine[u]) /\ ToSet(mine[u]) \subseteq 1 .. pos
        /\ \A u, v \in Threads : u # v => ToSet(mine[u]) \cap ToSet(mine[v]) = {}
        /\ \A u \in Threads : InHand(u) =>
             line[u] <= pos /\ \A v \in Threads : line[u] \notin ToSet(mine[v])
        /\ \A u, v \in Threads : u # v /\ InHand(u) /\ InHand(v) => line[u] # line[v]
        /\ \A l \in 1 .. pos :
             \E u \in Threads : l \in ToSet(mine[u]) \/ (line[u] = l /\ pc[u] # "get")
    BY DEF CriteoInv, CriteoMine
  <2>2. ~InHand(t)' /\ \A u \in Threads \ {t} : InHand(u)' <=> InHand(u)
    BY <1>1, <1>3 DEF InHand
  <2>3. \A u \in Threads : IsInjective(mine'[u]) /\ ToSet(mine'[u]) \subseteq 1 .. pos
    <3>1. l0 \in 1 .. pos
      BY <1>2, <1>4 DEF Lines
    <3>2. IsInjective(mine'[t]) /\ ToSet(mine'[t]) \subseteq 1 .. pos
      BY <1>5, <2>1, <3>1
    <3>3. \A u \in Threads \ {t} : IsInjective(mine'[u]) /\ ToSet(mine'[u]) \subseteq 1 .. pos
      BY <1>3, <2>1, Zenon
    <3> QED
      BY <3>2, <3>3, Zenon
  <2>4. ASSUME NEW u \in Threads, NEW v \in Threads, u # v
        PROVE  ToSet(mine'[u]) \cap ToSet(mine'[v]) = {}
    <3>1. ToSet(mine[u]) \cap ToSet(mine[v]) = {}
      BY <2>1, <2>4
    <3>2. l0 \notin ToSet(mine[u]) /\ l0 \notin ToSet(mine[v])
      BY <1>4
    <3>3. CASE u = t
      BY <1>3, <1>5, <2>4, <3>1, <3>2, <3>3
    <3>4. CASE v = t
      BY <1>3, <1>5, <2>4, <3>1, <3>2, <3>4
    <3>5. CASE u # t /\ v # t
      BY <1>3, <3>1, <3>5
    <3> QED
      BY <3>3, <3>4, <3>5
  <2>5. ASSUME NEW u \in Threads, InHand(u)'
        PROVE  line[u] <= pos /\ \A v \in Threads : line[u] \notin ToSet(mine'[v])
    <3>1. u # t /\ InHand(u)
      BY <2>2, <2>5
    <3>2. line[u] # l0
      BY <1>4, <2>1, <3>1 DEF l0
    <3> QED
      BY <1>3, <1>5, <2>1, <3>1, <3>2
  <2>6. \A u, v \in Threads : u # v /\ InHand(u)' /\ InHand(v)' => line[u] # line[v]
    BY <2>1, <2>2
  <2>7. ASSUME NEW l \in 1 .. pos
        PROVE  \E u \in Threads : l \in ToSet(mine'[u]) \/ (line[u] = l /\ pc'[u] # "get")
    <3>1. PICK u \in Threads : l \in ToSet(mine[u]) \/ (line[u] = l /\ pc[u] # "get")
      BY <2>1
    <3>2. CASE u = t
      BY <1>5, <3>1, <3>2 DEF l0
    <3>3. CASE u # t
      BY <1>3, <3>1, <3>3
    <3> QED
      BY <3>2, <3>3
  <2> QED
    BY <1>1, <2>3, <2>4, <2>5, <2>6, <2>7 DEF CriteoMine
<1>10. CriteoPublished'
  <2>1. \A u \in Threads : (pc'[u] = "samples" <=> pc[u] = "samples")
                         /\ (pc'[u] = "done" <=> pc[u] = "done")
    BY <1>1, <1>3
  <2>2. \A u \in Threads : pc[u] = "done" => mine'[u] = mine[u]
    BY <1>1, <1>3
  <2>3. lock # Nobody => mine'[lock] = mine[lock]
    BY <1>1, <1>3 DEF CriteoInv, CriteoTyped, CriteoPublished
  <2> QED
    BY <1>1, <2>1, <2>2, <2>3 DEF CriteoInv, CriteoPublished
<1>11. CriteoCounted'
  <2>1. /\ lines_count = Cardinality(Kept)
        /\ lines_count + Cardinality(Parsing) <= Cap + NThreads - 1
    BY DEF CriteoInv, CriteoCounted
  <2>2. Kept' = Kept \union {l0} /\ l0 \notin Kept
    BY <1>3, <1>4, <1>5, <1>6 DEF Kept
  <2>3. Cardinality(Kept') = Cardinality(Kept) + 1
    BY <1>2, <2>2, KeptFinite, FS_AddElement
  <2>4. Parsing' = Parsing \ {t} /\ t \in Parsing
    BY <1>1, <1>3 DEF Parsing
  <2>5. Cardinality(Parsing') = Cardinality(Parsing) - 1
    BY <2>4, ParsingFinite, FS_RemoveElement
  <2>6. Cap \in Nat /\ NThreads \in Nat /\ Cardinality(Parsing) \in Nat
    BY <1>2, SetupFacts, ThreadSet, ParsingFinite
  <2>7. lines_count' + Cardinality(Parsing') <= Cap + NThreads - 1
    BY <1>1, <1>2, <2>1, <2>5, <2>6
  <2> QED
    BY <1>1, <1>6, <2>1, <2>3, <2>7 DEF CriteoCounted
<1> QED
  BY <1>1, <1>7, <1>8, <1>9, <1>10, <1>11 DEF CriteoInv, NoQueues, NoUsers

LEMMA CriteoPublishFirst ==
  ASSUME CriteoInv, NEW t \in Threads, PublishFirst(t)
  PROVE  CriteoInv'
<1>1. /\ pc[t] = "labels" /\ pc' = [pc EXCEPT ![t] = "samples"]
      /\ lock = Nobody /\ lock' = t /\ t # Nobody
      /\ labels' = labels \o mine[t] /\ samples' = samples
      /\ line' = line /\ pos' = pos /\ eof' = eof /\ lines_count' = lines_count
      /\ setup' = setup /\ mine' = mine /\ mainPc' = mainPc
      /\ queue' = queue /\ terminate' = terminate /\ at' = at
      /\ realid' = realid /\ sparse_ds' = sparse_ds /\ number_users' = number_users
  BY ThreadSet DEF CriteoInv, CriteoTyped, PublishFirst, Goto, fileVars, csvVars, netflixVars
<1>2. /\ pc \in [Threads -> CriteoPc] /\ mine \in [Threads -> Seq(Lines)]
      /\ labels \in Seq(Lines)
  BY DEF CriteoInv, CriteoTyped
<1>3. pc'[t] = "samples" /\ \A u \in Threads \ {t} : pc'[u] = pc[u]
  BY <1>1, <1>2
<1>4. /\ Lines' = Lines /\ Cap' = Cap /\ Kept' = Kept /\ (LimitReached' <=> LimitReached)
      /\ Parsing' = Parsing
  <2>1. Parsing' = Parsing
    BY <1>1, <1>3 DEF Parsing
  <2> QED
    BY <1>1, <2>1 DEF Lines, Cap, Kept, LimitReached
<1>5. CriteoTyped'
  <2>1. pc' \in [Threads -> CriteoPc]
    BY <1>1, <1>2 DEF CriteoPc
  <2>2. labels' \in Seq(Lines)
    BY <1>1, <1>2
  <2> QED
    BY <1>1, <1>4, <2>1, <2>2 DEF CriteoInv, CriteoTyped
<1>6. CriteoFile'
  <2>1. \A u \in Threads : pc'[u] \in {"limit", "parse"} => line[u] # NoLine
    BY <1>3 DEF CriteoInv, CriteoFile
  <2>2. \A u \in Threads : pc'[u] = "eof" /\ line[u] = NoLine => eof
    BY <1>3 DEF CriteoInv, CriteoFile
  <2>3. ASSUME eof, setup.newline
        PROVE  \E u \in Threads : /\ line[u] = NoLine
                                  /\ pc'[u] \in {"eof", "labels", "samples", "done"}
    BY <1>3, <2>3 DEF CriteoInv, CriteoFile
  <2>4. \A u \in Threads : pc'[u] \in {"labels", "samples", "done"} => eof \/ LimitReached
    BY <1>1, <1>3 DEF CriteoInv, CriteoFile
  <2>5. mainPc # "done" /\ (eof => pos = setup.n)
    BY <1>1 DEF CriteoInv, CriteoFile
  <2> QED
    BY <1>1, <1>4, <2>1, <2>2, <2>3, <2>4, <2>5 DEF CriteoFile
<1>7. CriteoMine'
  <2>1. \A u \in Threads : InHand(u)' => InHand(u)
    BY <1>1, <1>3 DEF InHand
  <2>2. \A u \in Threads : pc'[u] = "get" => pc[u] = "get"
    BY <1>3
  <2> QED
    BY <1>1, <2>1, <2>2, CriteoMineKept DEF CriteoInv
<1>8. CriteoPublished'
  <2>1. \A u \in Threads : pc[u] # "samples"
    BY <1>1, ThreadSet DEF CriteoInv, CriteoPublished
  <2>2. \A u \in Threads : pc'[u] = "samples" <=> t = u
    BY <1>3, <2>1
  <2>3. \A u \in Threads : pc'[u] = "done" <=> pc[u] = "done"
    BY <1>1, <1>3
  <2>4. labels' = samples \o mine[t]
    BY <1>1 DEF CriteoInv, CriteoPublished
  <2> QED
    BY <1>1, <2>2, <2>3, <2>4 DEF CriteoInv, CriteoPublished
<1>9. CriteoCounted'
  BY <1>1, <1>4 DEF CriteoInv, CriteoCounted
<1> QED
  BY <1>1, <1>5, <1>6, <1>7, <1>8, <1>9 DEF CriteoInv, NoQueues, NoUsers

LEMMA CriteoPublishSecond ==
  ASSUME CriteoInv, NEW t \in Threads, PublishSecond(t)
  PROVE  CriteoInv'
<1>1. /\ pc' = [pc EXCEPT ![t] = "done"] /\ lock = t /\ lock' = Nobody /\ t # Nobody
      /\ samples' = samples \o mine[t] /\ labels' = labels
      /\ line' = line /\ pos' = pos /\ eof' = eof /\ lines_count' = lines_count
      /\ setup' = setup /\ mine' = mine /\ mainPc' = mainPc
      /\ queue' = queue /\ terminate' = terminate /\ at' = at
      /\ realid' = realid /\ sparse_ds' = sparse_ds /\ number_users' = number_users
  BY ThreadSet DEF CriteoInv, CriteoTyped, PublishSecond, Goto, fileVars, csvVars, netflixVars
<1>2. /\ pc \in [Threads -> CriteoPc] /\ mine \in [Threads -> Seq(Lines)]
      /\ samples \in Seq(Lines) /\ mine[t] \in Seq(Lines) /\ pc[t] = "samples"
  BY <1>1 DEF CriteoInv, CriteoTyped, CriteoPublished
<1>3. pc'[t] = "done" /\ \A u \in Threads \ {t} : pc'[u] = pc[u]
  BY <1>1, <1>2
<1>4. /\ Lines' = Lines /\ Cap' = Cap /\ Kept' = Kept /\ (LimitReached' <=> LimitReached)
      /\ Parsing' = Parsing
  <2>1. Parsing' = Parsing
    BY <1>2, <1>3 DEF Parsing
  <2> QED
    BY <1>1, <2>1 DEF Lines, Cap, Kept, LimitReached
<1>5. CriteoTyped'
  <2>1. pc' \in [Threads -> CriteoPc]
    BY <1>1, <1>2 DEF CriteoPc
  <2>2. samples' \in Seq(Lines)
    BY <1>1, <1>2
  <2> QED
    BY <1>1, <1>4, <2>1, <2>2 DEF CriteoInv, CriteoTyped
<1>6. CriteoFile'
  <2>1. \A u \in Threads : pc'[u] \in {"limit", "parse"} => line[u] # NoLine
    BY <1>3 DEF CriteoInv, CriteoFile
  <2>2. \A u \in Threads : pc'[u] = "eof" /\ line[u] = NoLine => eof
    BY <1>3 DEF CriteoInv, CriteoFile
  <2>3. ASSUME eof, setup.newline
        PROVE  \E u \in Threads : /\ line[u] = NoLine
                                  /\ pc'[u] \in {"eof", "labels", "samples", "done"}
    BY <1>3, <2>3 DEF CriteoInv, CriteoFile
  <2>4. \A u \in Threads : pc'[u] \in {"labels", "samples", "done"} => eof \/ LimitReached
    BY <1>2, <1>3 DEF CriteoInv, CriteoFile
  <2>5. mainPc # "done" /\ (eof => pos = setup.n)
    BY <1>2 DEF CriteoInv, CriteoFile
  <2> QED
    BY <1>1, <1>4, <2>1, <2>2, <2>3, <2>4, <2>5 DEF CriteoFile
<1>7. CriteoMine'
  <2>1. \A u \in Threads : InHand(u)' => InHand(u)
    BY <1>1, <1>3 DEF InHand
  <2>2. \A u \in Threads : pc'[u] = "get" => pc[u] = "get"
    BY <1>3
  <2> QED
    BY <1>1, <2>1, <2>2, CriteoMineKept DEF CriteoInv
<1>8. CriteoPublished'
  <2>1. /\ \A u \in Threads : pc[u] = "samples" <=> t = u
        /\ IsInjective(samples)
        /\ \A l : l \in ToSet(samples) <=>
                     \E u \in Threads : pc[u] = "done" /\ l \in ToSet(mine[u])
        /\ labels = samples \o mine[t]
    BY <1>1 DEF CriteoInv, CriteoPublished
  <2>2. \A u \in Threads : pc'[u] # "samples"
    BY <1>3, <2>1
  <2>3. \A u \in Threads : pc'[u] = "done" <=> u = t \/ pc[u] = "done"
    BY <1>3
  <2>4. ToSet(samples) \cap ToSet(mine[t]) = {}
    BY <1>2, <2>1 DEF CriteoInv, CriteoMine
  <2>5. IsInjective(samples') /\ ToSet(samples') = ToSet(samples) \union ToSet(mine[t])
    <3>1. IsInjective(mine[t])
      BY DEF CriteoInv, CriteoMine
    <3> QED
      BY <1>1, <1>2, <2>1, <2>4, <3>1, ToSetConcat, InjectiveConcat
  <2>6. \A l : l \in ToSet(samples') <=>
                 \E u \in Threads : pc'[u] = "done" /\ l \in ToSet(mine[u])
    BY <2>1, <2>3, <2>5
  <2>7. \A u \in Threads : u # Nobody
    BY ThreadSet
  <2> QED
    BY <1>1, <2>1, <2>2, <2>5, <2>6, <2>7 DEF CriteoPublished
<1>9. CriteoCounted'
  BY <1>1, <1>4 DEF CriteoInv, CriteoCounted
<1> QED
  BY <1>1, <1>5, <1>6, <1>7, <1>8, <1>9 DEF CriteoInv, NoQueues, NoUsers

LEMMA CriteoJoin == ASSUME CriteoInv, Join PROVE CriteoInv'
<1>1. /\ \A t \in Threads : pc[t] = "done"
      /\ mainPc' = "done" /\ pc' = pc /\ lock' = lock /\ samples' = samples /\ labels' = labels
      /\ line' = line /\ pos' = pos /\ eof' = eof /\ lines_count' = lines_count
      /\ setup' = setup /\ mine' = mine
      /\ queue' = queue /\ terminate' = terminate /\ at' = at
      /\ realid' = realid /\ sparse_ds' = sparse_ds /\ number_users' = number_users
  BY DEF CriteoInv, CriteoTyped, Join, fileVars, threadVars, resultVars, netflixVars
<1>2. /\ Lines' = Lines /\ Cap' = Cap /\ Kept' = Kept /\ (LimitReached' <=> LimitReached)
      /\ Parsing' = Parsing
  BY <1>1 DEF Lines, Cap, Kept, LimitReached, Parsing
<1>3. CriteoTyped'
  BY <1>1, <1>2 DEF CriteoInv, CriteoTyped
<1>4. CriteoFile'
  BY <1>1, <1>2 DEF CriteoInv, CriteoFile
<1>5. CriteoMine'
  BY <1>1, CriteoMineKept DEF CriteoInv, InHand
<1> QED
  BY <1>1, <1>2, <1>3, <1>4, <1>5 DEF CriteoInv, CriteoPublished, CriteoCounted, NoQueues, NoUsers

LEMMA CriteoStep == ASSUME CriteoInv, ReaderNext PROVE CriteoInv'
<1>1. /\ \A t \in Threads : pc[t] \in CriteoPc
      /\ mainPc \in {"join", "done"}
  BY DEF CriteoInv, CriteoTyped
<1>2. CASE Main
  BY <1>1, <1>2, CriteoJoin DEF Main, ReadBatch, PollQueue, shuffle_samples_labels
<1>3. ASSUME NEW t \in Threads, Thread(t) PROVE CriteoInv'
  <2>1. ~CheckTerminate(t) /\ ~TakeLines(t)
    BY <1>1 DEF CheckTerminate, TakeLines, CriteoPc
  <2>2. ~NetflixReadLine(t) /\ ~MapUser(t) /\ ~PublishMax(t)
    BY <1>1 DEF NetflixReadLine, MapUser, PublishMax, CriteoPc
  <2> QED
    BY <1>3, <2>1, <2>2, CriteoReadLine, CriteoCheckEof, CriteoCheckLimit, CriteoParseLine,
       CriteoPublishFirst, CriteoPublishSecond DEF Thread
<1> QED
  BY <1>2, <1>3 DEF ReaderNext

(* A set of lines, one of each thread of S at most, is no larger than S.      *)
LEMMA OneLineEach ==
  ASSUME NEW S, S \subseteq Threads, NEW T, T \subseteq {line[t] : t \in S}
  PROVE  IsFiniteSet(T) /\ Cardinality(T) <= Cardinality(S)
<1> DEFINE W == {line[t] : t \in S}
           f == [t \in S |-> line[t]]
<1>1. IsFiniteSet(S) /\ Cardinality(S) \in Nat
  BY ThreadsFinite, FS_Subset, FS_CardinalityType
<1>2. f \in Surjection(S, W)
  BY DEF Surjection
<1> HIDE DEF f
<1>3. IsFiniteSet(W) /\ Cardinality(W) <= Cardinality(S)
  BY <1>1, <1>2, FS_Surjection
<1> HIDE DEF W
<1>4. T \subseteq W
  BY DEF W
<1>5. IsFiniteSet(T) /\ Cardinality(T) <= Cardinality(W)
  BY <1>3, <1>4, FS_Subset
<1>6. Cardinality(T) \in Nat /\ Cardinality(W) \in Nat
  BY <1>3, <1>5, FS_CardinalityType
<1> QED
  BY <1>1, <1>3, <1>5, <1>6

(* A sequence without repetitions has one element for each index.             *)
LEMMA InjectiveLen ==
  ASSUME NEW S, NEW s \in Seq(S), IsInjective(s)
  PROVE  IsFiniteSet(ToSet(s)) /\ Cardinality(ToSet(s)) = Len(s)
<1>1. Len(s) \in Nat /\ DOMAIN s = 1 .. Len(s) /\ s \in [1 .. Len(s) -> ToSet(s)]
  <2>1. Len(s) \in Nat /\ DOMAIN s = 1 .. Len(s)
    OBVIOUS
  <2>2. \A i \in 1 .. Len(s) : s[i] \in ToSet(s)
    BY <2>1 DEF ToSet
  <2>3. s = [i \in 1 .. Len(s) |-> s[i]]
    OBVIOUS
  <2> QED
    BY <2>1, <2>2, <2>3
<1>2. s \in Injection(1 .. Len(s), ToSet(s)) /\ s \in Surjection(1 .. Len(s), ToSet(s))
  <2>1. s \in Injection(1 .. Len(s), ToSet(s))
    BY <1>1 DEF Injection, IsInjective
  <2>2. s \in Surjection(1 .. Len(s), ToSet(s))
    BY <1>1 DEF Surjection, ToSet
  <2> QED
    BY <2>1, <2>2
<1>3. IsFiniteSet(1 .. Len(s)) /\ Cardinality(1 .. Len(s)) = Len(s)
  <2> DEFINE n == Len(s)
  <2> HIDE DEF n
  <2>1. n \in Nat
    BY <1>1 DEF n
  <2>2. IsFiniteSet(1 .. n) /\ Cardinality(1 .. n) = IF 1 > n THEN 0 ELSE n - 1 + 1
    BY <2>1, FS_Interval
  <2> QED
    BY <2>1, <2>2 DEF n
<1> QED
  BY <1>2, <1>3, FS_Surjection

LEMMA CriteoResult ==
  ASSUME CriteoInv
  PROVE  SamplesKeepLabels /\ FewLinesLost /\ LimitOvershoot /\ TypeOK
<1>1. /\ setup \in Setups /\ setup.format = "criteo" /\ setup.n \in Nat /\ setup.limit \in Nat
      /\ setup.newline \in BOOLEAN /\ Cap \in Nat /\ NThreads \in Nat \ {0}
      /\ pos \in Nat /\ pos <= setup.n /\ lines_count \in Nat
      /\ samples \in Seq(Lines) /\ IsInjective(samples) /\ Len(samples) \in Nat
      /\ \A l : l \in ToSet(samples) <=>
                   \E t \in Threads : pc[t] = "done" /\ l \in ToSet(mine[t])
  BY SetupFacts, ThreadSet DEF CriteoInv, CriteoTyped, CriteoPublished
<1>2. SamplesKeepLabels
  BY <1>1 DEF CriteoInv, CriteoPublished, SamplesKeepLabels
<1>3. /\ lines_count = Cardinality(Kept) /\ lines_count <= setup.n
      /\ IsFiniteSet(Kept) /\ Cardinality(Kept) \in Nat
      /\ lines_count <= Cap + NThreads - 1
  BY <1>1, KeptFinite, ParsingFinite DEF CriteoInv, CriteoCounted
<1>4. LimitOvershoot
  <2>1. ToSet(samples) \subseteq Kept
    <3>1. \A t \in Threads : \A l \in ToSet(mine[t]) : l \in Lines
      <4>1. \A t \in Threads : ToSet(mine[t]) \subseteq 1 .. pos
        BY DEF CriteoInv, CriteoMine
      <4>2. 1 .. pos \subseteq Lines
        BY <1>1 DEF Lines
      <4> QED
        BY <4>1, <4>2
    <3> QED
      BY <1>1, <3>1 DEF Kept
  <2>2. Cardinality(ToSet(samples)) <= Cardinality(Kept)
    BY <1>3, <2>1, FS_Subset
  <2>3. Cardinality(ToSet(samples)) = Len(samples)
    BY <1>1, InjectiveLen
  <2>4. Len(samples) <= Cap + (NThreads - 1)
    BY <1>1, <1>3, <2>2, <2>3
  <2> QED
    BY <2>4 DEF LimitOvershoot, Cap
<1>5. FewLinesLost
  <2> SUFFICES ASSUME mainPc = "done", setup.limit > setup.n
               PROVE  Cardinality(Lost) <= (NThreads - 1) + (IF setup.newline THEN 0 ELSE 1)
    BY DEF FewLinesLost
  <2>1. \A t \in Threads : pc[t] = "done"
    BY DEF CriteoInv, CriteoFile
  <2>2. ~LimitReached
    <3>1. Cap >= setup.limit
      BY <1>1, SetupFacts
    <3> QED
      BY <1>1, <1>3, <3>1, LimitFacts
  <2>3. eof /\ pos = setup.n
    BY <2>1, <2>2, ThreadSet DEF CriteoInv, CriteoFile
  <2>4. ASSUME NEW l \in Lost PROVE \E t \in Threads : line[t] = l
    <3>1. l \in 1 .. pos /\ l \notin ToSet(samples)
      BY <2>3 DEF Lost, Lines
    <3>2. PICK t \in Threads : l \in ToSet(mine[t]) \/ (line[t] = l /\ pc[t] # "get")
      BY <3>1 DEF CriteoInv, CriteoMine
    <3> QED
      BY <1>1, <2>1, <3>1, <3>2
  <2>5. CASE setup.newline
    <3>1. PICK t0 \in Threads : line[t0] = NoLine
      BY <2>3, <2>5 DEF CriteoInv, CriteoFile
    <3>2. Lost \subseteq {line[t] : t \in Threads \ {t0}}
      <4> SUFFICES ASSUME NEW l \in Lost PROVE \E t \in Threads \ {t0} : line[t] = l
        OBVIOUS
      <4>1. l # NoLine
        BY <1>1, LinesFinite DEF Lost
      <4> QED
        BY <2>4, <3>1, <4>1
    <3>3. Cardinality(Lost) <= Cardinality(Threads \ {t0})
      BY <3>2, OneLineEach
    <3>4. Cardinality(Threads \ {t0}) = NThreads - 1
      BY ThreadsFinite, FS_RemoveElement
    <3> QED
      BY <1>1, <2>5, <3>3, <3>4
  <2>6. CASE ~setup.newline
    <3>1. Lost \subseteq {line[t] : t \in Threads}
      BY <2>4
    <3>2. Cardinality(Lost) <= Cardinality(Threads)
      BY <3>1, OneLineEach
    <3> QED
      BY <1>1, <2>6, <3>2, ThreadsFinite
  <2> QED
    BY <2>5, <2>6
<1>6. TypeOK
  <2>1. pos \in 0 .. setup.n /\ lines_count \in 0 .. setup.n
    BY <1>1, <1>3
  <2>2. pc \in [Threads -> {"top", "take", "get", "eof", "limit", "parse", "nfget",
                            "map", "max", "labels", "samples", "done"}]
    BY DEF CriteoInv, CriteoTyped, CriteoPc
  <2>3. /\ realid \in [UserSet -> 0 .. (Cardinality(UserSet) - 1) \union {NoRow}]
        /\ sparse_ds \in [0 .. (Rows - 1) -> Seq(Lines)] /\ number_users \in 0 .. Rows
    <3>1. <<>> \in Seq(Lines) /\ 0 \in 0 .. Rows
      BY RowsAssumption
    <3> QED
      BY <3>1 DEF CriteoInv, NoUsers
  <2>4. queue \in [Threads -> Seq(Lines)] /\ terminate \in BOOLEAN /\ at \in 0 .. NThreads
    <3>1. <<>> \in Seq(Lines) /\ 0 \in 0 .. NThreads
      BY <1>1
    <3>2. terminate = FALSE
      BY DEF CriteoInv, NoQueues
    <3> QED
      BY <3>1, <3>2 DEF CriteoInv, NoQueues
  <2> QED
    BY <1>1, <2>1, <2>2, <2>3, <2>4 DEF CriteoInv, CriteoTyped, TypeOK
<1> QED
  BY <1>2, <1>4, <1>5, <1>6

-----------------------------------------------------------------------------
(* read_netflix_ratings.                                                      *)

NfPc == {"nfget", "map", "max", "done"}
User(l) == Ratings[l].user
Seated == {u \in UserSet : realid[u] # NoRow}
RowSet == 0 .. (Rows - 1)

NfTyped ==
  /\ setup \in Setups /\ setup.format = "netflix"
  /\ pos \in Nat /\ pos <= setup.n /\ lines_count = 0 /\ eof \in BOOLEAN
  /\ lock = Nobody
  /\ pc \in [Threads -> NfPc] /\ line \in [Threads -> Lines \union {NoLine}]
  /\ mine \in [Threads -> Seq(Lines)]
  /\ samples = <<>> /\ labels = <<>>
  /\ mainPc \in {"join", "done", "crash"}
  /\ realid \in [UserSet -> Nat \union {NoRow}]
  /\ sparse_ds \in [RowSet -> Seq(Lines)]
  /\ number_users \in 0 .. Rows

NfFile ==
  /\ eof => pos = setup.n
  /\ \A t \in Threads : pc[t] \in {"max", "done"} => eof
  /\ mainPc = "done" => \A t \in Threads : pc[t] = "done"

(* The users that were met have the first numbers, each its own.              *)
NfUsers ==
  /\ \A u, v \in UserSet : realid[u] = realid[v] /\ realid[u] # NoRow => u = v
  /\ \A u \in UserSet : realid[u] # NoRow => realid[u] < user_index
  /\ \A r \in 0 .. (user_index - 1) : \E u \in UserSet : realid[u] = r
  /\ mainPc # "crash" => \A u \in UserSet : realid[u] < Rows

(* Every line that was mapped is one thread's own, and the threads that are   *)
(* done have raised number_users to the numbers of their users.               *)
NfCounted ==
  /\ mainPc # "crash" => \A u \in Seated : \E t \in Threads :
       \E l \in ToSet(mine[t]) : User(l) = u
  /\ \A t \in Threads : \A l \in ToSet(mine[t]) : \E r \in RowSet : l \in ToSet(sparse_ds[r])
  /\ number_users = 0 \/ \E u \in UserSet : realid[u] = number_users
  /\ \A t \in Threads : pc[t] = "done" =>
       \A l \in ToSet(mine[t]) : realid[User(l)] <= number_users

(* A line that was read is in the row of its user, in the hand of the thread  *)
(* that read it, or the last of a file without a last newline.                *)
NfRows ==
  /\ \A r \in RowSet : IsInjective(sparse_ds[r])
  /\ \A r \in RowSet : \A l \in ToSet(sparse_ds[r]) :
       l \in 1 .. pos /\ realid[User(l)] = r /\ (l = setup.n => setup.newline)
  /\ \A t \in Threads : pc[t] = "map" =>
       /\ line[t] \in 1 .. pos /\ (line[t] = setup.n => setup.newline)
       /\ \A r \in RowSet : line[t] \notin ToSet(sparse_ds[r])
  /\ \A t, u \in Threads : t # u /\ pc[t] = "map" /\ pc[u] = "map" => line[t] # line[u]
  /\ \A l \in 1 .. pos :
       \/ \E r \in RowSet : l \in ToSet(sparse_ds[r])
       \/ \E t \in Threads : pc[t] = "map" /\ line[t] = l
       \/ l = setup.n /\ ~setup.newline

NfInv == NfTyped /\ NfFile /\ NfUsers /\ NfCounted /\ NfRows /\ NoQueues

LEMMA UserFacts ==
  /\ IsFiniteSet(UserSet) /\ Cardinality(UserSet) \in Nat
  /\ setup \in Setups /\ setup.format = "netflix" => \A l \in Lines : User(l) \in UserSet
<1> DEFINE n == Len(Ratings)
           f == [l \in 1 .. n |-> Ratings[l].user]
<1>1. n \in Nat
  BY RatingsAssumption
<1>2. f \in Surjection(1 .. n, UserSet)
  BY DEF Surjection, UserSet
<1>3. IsFiniteSet(1 .. n)
  <2> HIDE DEF n
  <2> QED
    BY <1>1, FS_Interval
<1> HIDE DEF f
<1>4. IsFiniteSet(UserSet)
  BY <1>2, <1>3, FS_Surjection
<1>5. ASSUME setup \in Setups, setup.format = "netflix", NEW l \in Lines
      PROVE  User(l) \in UserSet
  <2>1. setup.n \in Nat /\ setup.n <= n
    BY <1>5, SetupFacts, RatingsAssumption
  <2>2. l \in 1 .. n
    BY <1>1, <1>5, <2>1 DEF Lines
  <2> QED
    BY <2>2 DEF UserSet, User
<1> QED
  BY <1>4, <1>5, FS_CardinalityType

LEMMA SeatedFacts ==
  /\ IsFiniteSet(Seated) /\ user_index = Cardinality(Seated) /\ user_index \in Nat
  /\ user_index <= Cardinality(UserSet)
<1>1. Seated \subseteq UserSet /\ user_index = Cardinality(Seated)
  BY DEF Seated, user_index
<1> QED
  BY <1>1, UserFacts, FS_Subset, FS_CardinalityType

(* A set of numbers that has a bound has a maximum.                           *)
LEMMA MaxOfSet ==
  ASSUME NEW T \in SUBSET Nat, T # {}, NEW k \in Nat, \A x \in T : x <= k
  PROVE  Max(T) \in T /\ \A x \in T : Max(T) >= x
<1> DEFINE W == {k - x : x \in T}
<1>1. W \subseteq Nat /\ W # {}
  <2>1. \A x \in T : k - x \in Nat
    OBVIOUS
  <2> QED
    BY <2>1
<1>2. IsWellFoundedOn(OpToRel(<, Nat), Nat)
  BY NatLessThanWellFounded
<1>3. PICK w \in W : \A y \in W : ~(<<y, w>> \in OpToRel(<, Nat))
  <2> HIDE DEF W
  <2> QED
    BY <1>1, <1>2, WFMin
<1>4. PICK m \in T : w = k - m
  OBVIOUS
<1>5. ASSUME NEW x \in T PROVE m >= x
  <2>1. k - x \in W /\ k - x \in Nat /\ w \in Nat
    BY <1>1
  <2>2. ~(k - x < w)
    <3> DEFINE y == k - x
    <3>1. y \in W /\ y \in Nat
      BY <2>1
    <3> HIDE DEF y, W
    <3>2. ~(y < w)
      BY <1>3, <2>1, <3>1 DEF OpToRel
    <3> QED
      BY <3>2 DEF y
  <2> QED
    BY <1>4, <2>2
<1>6. Max(T) \in T /\ \A y \in T : Max(T) >= y
  BY <1>5 DEF Max
<1> QED
  BY <1>6

LEMMA NfInit == ASSUME Init, setup.format = "netflix" PROVE NfInv
<1>1. /\ setup \in Setups /\ pos = 0 /\ lines_count = 0 /\ mainPc = "join" /\ lock = Nobody
      /\ eof = FALSE
      /\ pc = [t \in Threads |-> "nfget"] /\ mine = [t \in Threads |-> <<>>]
      /\ line = [t \in Threads |-> NoLine]
      /\ queue = [t \in Threads |-> <<>>] /\ at = 0 /\ terminate = FALSE
      /\ samples = <<>> /\ labels = <<>>
      /\ realid = [u \in UserSet |-> NoRow] /\ sparse_ds = [r \in RowSet |-> <<>>]
      /\ number_users = 0
  BY DEF Init, RowSet
<1>2. <<>> \in Seq(Lines) /\ ToSet(<<>>) = {} /\ IsInjective(<<>>)
  BY DEF ToSet, IsInjective
<1>3. setup.n \in Nat /\ Rows \in Nat /\ 0 \in 0 .. Rows
  BY <1>1, SetupFacts, RowsAssumption
<1>4. NfTyped
  <2>1. pc \in [Threads -> NfPc] /\ line \in [Threads -> Lines \union {NoLine}]
    BY <1>1 DEF NfPc
  <2>2. mine \in [Threads -> Seq(Lines)] /\ sparse_ds \in [RowSet -> Seq(Lines)]
    BY <1>1, <1>2
  <2>3. pos \in Nat /\ pos <= setup.n /\ number_users \in 0 .. Rows
    BY <1>1, <1>3
  <2>4. eof \in BOOLEAN
    BY <1>1
  <2>5. realid \in [UserSet -> Nat \union {NoRow}]
    BY <1>1
  <2> QED
    BY <1>1, <2>1, <2>2, <2>3, <2>4, <2>5 DEF NfTyped
<1>5. NfFile
  BY <1>1 DEF NfFile
<1>6. \A u \in UserSet : realid[u] = NoRow
  BY <1>1
<1>7. Seated = {} /\ user_index = 0
  <2>1. Seated = {}
    BY <1>6 DEF Seated
  <2> QED
    BY <2>1, SeatedFacts, FS_EmptySet
<1>8. NfUsers
  <2>1. 0 .. (user_index - 1) = {}
    BY <1>7
  <2>2. NoRow < Rows
    BY <1>3 DEF NoRow
  <2> QED
    BY <1>6, <2>1, <2>2 DEF NfUsers
<1>9. \A t \in Threads : mine[t] = <<>> /\ pc[t] = "nfget"
  BY <1>1
<1>10. NfCounted
  BY <1>1, <1>2, <1>7, <1>9 DEF NfCounted
<1>11. NfRows
  <2>1. 1 .. pos = {}
    BY <1>1
  <2>2. \A r \in RowSet : sparse_ds[r] = <<>>
    BY <1>1
  <2> QED
    BY <1>2, <1>9, <2>1, <2>2, Zenon DEF NfRows
<1> QED
  BY <1>1, <1>4, <1>5, <1>8, <1>10, <1>11 DEF NfInv, NoQueues

LEMMA NfReadLine ==
  ASSUME NfInv, NEW t \in Threads, NetflixReadLine(t)
  PROVE  NfInv'
<1>1. /\ pc[t] = "nfget" /\ pc' = [pc EXCEPT ![t] = IF eof' THEN "max" ELSE "map"]
      /\ line' = [line EXCEPT ![t] = IF pos < setup.n THEN pos + 1 ELSE NoLine]
      /\ pos' = IF pos < setup.n THEN pos + 1 ELSE pos
      /\ eof' = (eof \/ pos = setup.n \/ (pos + 1 = setup.n /\ ~setup.newline))
      /\ setup' = setup /\ lock' = lock /\ lines_count' = lines_count /\ mine' = mine
      /\ samples' = samples /\ labels' = labels /\ mainPc' = mainPc
      /\ queue' = queue /\ terminate' = terminate /\ at' = at
      /\ realid' = realid /\ sparse_ds' = sparse_ds /\ number_users' = number_users
  BY DEF NetflixReadLine, GetLine, Goto, resultVars, csvVars, netflixVars
<1>2. /\ setup \in Setups /\ setup.n \in Nat /\ pos \in Nat /\ pos <= setup.n
      /\ pc \in [Threads -> NfPc] /\ line \in [Threads -> Lines \union {NoLine}]
  BY SetupFacts DEF NfInv, NfTyped
<1>3. eof' <=> (eof \/ pos = setup.n \/ (pos + 1 = setup.n /\ ~setup.newline))
  BY <1>1, Zenon
<1>4. /\ pc'[t] = IF eof' THEN "max" ELSE "map"
      /\ line'[t] = IF pos < setup.n THEN pos + 1 ELSE NoLine
      /\ \A u \in Threads \ {t} : pc'[u] = pc[u] /\ line'[u] = line[u]
  BY <1>1, <1>2
<1>5. Lines' = Lines /\ user_index' = user_index /\ Seated' = Seated
  BY <1>1 DEF Lines, user_index, Seated
<1>6. pos' \in Nat /\ pos' <= setup.n /\ pos <= pos' /\ eof' \in BOOLEAN
  BY <1>1, <1>2
<1>7. eof => pos = setup.n
  BY DEF NfInv, NfFile
<1>8. NfTyped'
  <2>1. pc' \in [Threads -> NfPc]
    BY <1>1, <1>2 DEF NfPc
  <2>2. line'[t] \in Lines \union {NoLine}
    BY <1>2, <1>4 DEF Lines
  <2>3. line' \in [Threads -> Lines \union {NoLine}]
    BY <1>1, <1>2, <1>4, <2>2
  <2> QED
    BY <1>1, <1>5, <1>6, <2>1, <2>3 DEF NfInv, NfTyped
<1>9. NfFile'
  <2>1. eof' => pos' = setup.n
    <3>1. pos' = IF pos < setup.n THEN pos + 1 ELSE pos
      BY <1>1
    <3> QED
      BY <1>2, <1>3, <1>7, <3>1
  <2>2. \A u \in Threads : pc'[u] \in {"max", "done"} => eof'
    BY <1>3, <1>4 DEF NfInv, NfFile
  <2>3. mainPc' # "done"
    BY <1>1 DEF NfInv, NfFile
  <2> QED
    BY <1>1, <2>1, <2>2, <2>3 DEF NfFile
<1>10. NfUsers'
  BY <1>1, <1>5 DEF NfInv, NfUsers
<1>11. NfCounted'
  <2>1. \A u \in Threads : pc'[u] = "done" => pc[u] = "done"
    BY <1>4
  <2> QED
    BY <1>1, <1>5, <2>1 DEF NfInv, NfCounted
<1>12. pc'[t] = "map" => /\ pos < setup.n /\ line'[t] = pos + 1 /\ pos' = pos + 1
                         /\ (pos + 1 = setup.n => setup.newline)
  <2>1. pc'[t] = "map" => ~eof'
    BY <1>4
  <2>2. ~eof' => pos < setup.n /\ (pos + 1 = setup.n => setup.newline)
    BY <1>2, <1>3
  <2> QED
    BY <1>1, <1>4, <2>1, <2>2
<1>13. NfRows'
  <2>1. /\ \A r \in RowSet : IsInjective(sparse_ds[r])
        /\ \A r \in RowSet : \A l \in ToSet(sparse_ds[r]) :
             l \in 1 .. pos /\ realid[User(l)] = r /\ (l = setup.n => setup.newline)
        /\ \A u \in Threads : pc[u] = "map" =>
             /\ line[u] \in 1 .. pos /\ (line[u] = setup.n => setup.newline)
             /\ \A r \in RowSet : line[u] \notin ToSet(sparse_ds[r])
        /\ \A v, u \in Threads : v # u /\ pc[v] = "map" /\ pc[u] = "map" => line[v] # line[u]
        /\ \A l \in 1 .. pos :
             \/ \E r \in RowSet : l \in ToSet(sparse_ds[r])
             \/ \E u \in Threads : pc[u] = "map" /\ line[u] = l
             \/ l = setup.n /\ ~setup.newline
    BY DEF NfInv, NfRows
  <2>2. 1 .. pos \subseteq 1 .. pos' /\ pos + 1 \notin 1 .. pos
    BY <1>2, <1>6
  <2>3. \A r \in RowSet : \A l \in ToSet(sparse_ds[r]) :
          l \in 1 .. pos' /\ realid[User(l)] = r /\ (l = setup.n => setup.newline)
    BY <2>1, <2>2, Zenon
  <2>4. ASSUME NEW u \in Threads, pc'[u] = "map"
        PROVE  /\ line'[u] \in 1 .. pos' /\ (line'[u] = setup.n => setup.newline)
               /\ \A r \in RowSet : line'[u] \notin ToSet(sparse_ds[r])
    <3>1. CASE u = t
      <4>1. line'[u] = pos + 1 /\ pos + 1 \in 1 .. pos'
        BY <1>2, <1>12, <2>4, <3>1
      <4>2. \A r \in RowSet : pos + 1 \notin ToSet(sparse_ds[r])
        BY <2>1, <2>2
      <4> QED
        BY <1>12, <2>4, <3>1, <4>1, <4>2
    <3>2. CASE u # t
      <4>1. pc[u] = "map" /\ line'[u] = line[u]
        BY <1>4, <2>4, <3>2
      <4> QED
        BY <2>1, <2>2, <4>1
    <3> QED
      BY <3>1, <3>2
  <2>5. ASSUME NEW v \in Threads, NEW u \in Threads, v # u, pc'[v] = "map", pc'[u] = "map"
        PROVE  line'[v] # line'[u]
    <3>1. \A w \in Threads \ {t} : pc'[w] = "map" =>
            pc[w] = "map" /\ line'[w] = line[w] /\ line[w] \in 1 .. pos
      BY <1>4, <2>1
    <3>2. CASE v = t
      BY <1>12, <2>2, <2>5, <3>1, <3>2
    <3>3. CASE u = t
      BY <1>12, <2>2, <2>5, <3>1, <3>3
    <3>4. CASE v # t /\ u # t
      BY <2>1, <2>5, <3>1, <3>4
    <3> QED
      BY <3>2, <3>3, <3>4
  <2>6. ASSUME NEW l \in 1 .. pos'
        PROVE  \/ \E r \in RowSet : l \in ToSet(sparse_ds[r])
               \/ \E u \in Threads : pc'[u] = "map" /\ line'[u] = l
               \/ l = setup.n /\ ~setup.newline
    <3>1. CASE l \in 1 .. pos
      <4>1. ASSUME NEW u \in Threads, pc[u] = "map", line[u] = l
            PROVE  \E v \in Threads : pc'[v] = "map" /\ line'[v] = l
        BY <1>1, <1>4, <4>1
      <4> QED
        BY <2>1, <3>1, <4>1, Zenon
    <3>2. CASE l \notin 1 .. pos
      <4>1. pos < setup.n /\ l = pos + 1
        BY <1>1, <1>2, <2>6, <3>2
      <4>2. CASE eof'
        BY <1>2, <1>3, <1>7, <4>1, <4>2
      <4>3. CASE ~eof'
        BY <1>4, <4>1, <4>3
      <4> QED
        BY <4>2, <4>3
    <3> QED
      BY <3>1, <3>2
  <2> QED
    BY <1>1, <2>1, <2>3, <2>4, <2>5, <2>6 DEF NfRows
<1> QED
  BY <1>1, <1>8, <1>9, <1>10, <1>11, <1>13 DEF NfInv, NoQueues

(* What MapUser does to the users: the user of the line has a seat now.       *)
LEMMA NfSeat ==
  ASSUME NfInv, mainPc # "crash", NEW u \in UserSet, NEW r,
         r = IF realid[u] = NoRow THEN user_index ELSE realid[u],
         realid' = [realid EXCEPT ![u] = r]
  PROVE  /\ realid' \in [UserSet -> Nat \union {NoRow}]
         /\ r \in Nat /\ realid'[u] = r
         /\ \A v \in UserSet : realid[v] # NoRow => realid'[v] = realid[v]
         /\ Seated' = Seated \union {u}
         /\ \A v, w \in UserSet : realid'[v] = realid'[w] /\ realid'[v] # NoRow => v = w
         /\ \A v \in UserSet : realid'[v] # NoRow => realid'[v] < user_index'
         /\ \A q \in 0 .. (user_index' - 1) : \E v \in UserSet : realid'[v] = q
         /\ r < Rows => \A v \in UserSet : realid'[v] < Rows
<1>1. /\ realid \in [UserSet -> Nat \union {NoRow}] /\ user_index \in Nat
      /\ \A v, w \in UserSet : realid[v] = realid[w] /\ realid[v] # NoRow => v = w
      /\ \A v \in UserSet : realid[v] # NoRow => realid[v] < user_index
      /\ \A q \in 0 .. (user_index - 1) : \E v \in UserSet : realid[v] = q
      /\ \A v \in UserSet : realid[v] < Rows
  BY SeatedFacts DEF NfInv, NfTyped, NfUsers
<1>2. NoRow \notin Nat /\ Rows \in Nat
  BY RowsAssumption DEF NoRow
<1>3. r \in Nat
  BY <1>1
<1>4. /\ realid' \in [UserSet -> Nat \union {NoRow}]
      /\ realid'[u] = r /\ \A v \in UserSet \ {u} : realid'[v] = realid[v]
  BY <1>1, <1>3
<1>5. Seated' = Seated \union {u}
  BY <1>2, <1>3, <1>4 DEF Seated
<1>6. user_index = Cardinality(Seated) /\ user_index' = Cardinality(Seated')
  BY DEF Seated, user_index
<1>7. CASE realid[u] = NoRow
  <2>1. u \notin Seated /\ r = user_index
    BY <1>7 DEF Seated
  <2>2. user_index' = user_index + 1
    <3>1. Cardinality(Seated \union {u}) = Cardinality(Seated) + 1
      BY <2>1, SeatedFacts, FS_AddElement
    <3> QED
      BY <1>5, <1>6, <3>1
  <2>3. ASSUME NEW v \in UserSet, NEW w \in UserSet, realid'[v] = realid'[w], realid'[v] # NoRow
        PROVE  v = w
    <3>1. \A x \in UserSet \ {u} : realid[x] # user_index
      BY <1>1, <1>2
    <3> QED
      BY <1>1, <1>4, <2>1, <2>3, <3>1
  <2>4. \A v \in UserSet : realid'[v] # NoRow => realid'[v] < user_index'
    BY <1>1, <1>4, <2>1, <2>2
  <2>5. ASSUME NEW q \in 0 .. (user_index' - 1) PROVE \E v \in UserSet : realid'[v] = q
    <3>1. CASE q = user_index
      BY <1>4, <2>1, <3>1
    <3>2. CASE q # user_index
      <4>1. q \in 0 .. (user_index - 1)
        BY <1>1, <2>2, <2>5, <3>2
      <4>2. PICK v \in UserSet : realid[v] = q
        BY <1>1, <4>1
      <4>3. v # u
        BY <1>2, <1>7, <4>1, <4>2
      <4> QED
        BY <1>4, <4>2, <4>3
    <3> QED
      BY <3>1, <3>2
  <2>6. \A v \in UserSet : realid[v] # NoRow => realid'[v] = realid[v]
    BY <1>4, <1>7
  <2>7. r < Rows => \A v \in UserSet : realid'[v] < Rows
    BY <1>1, <1>4
  <2> QED
    BY <1>3, <1>4, <1>5, <2>3, <2>4, <2>5, <2>6, <2>7
<1>8. CASE realid[u] # NoRow
  <2>1. realid' = realid
    BY <1>1, <1>8
  <2>2. user_index' = user_index
    BY <1>6, <2>1 DEF Seated
  <2> QED
    BY <1>1, <1>3, <1>4, <1>5, <2>1, <2>2
<1> QED
  BY <1>7, <1>8

LEMMA NfMapUser ==
  ASSUME NfInv, mainPc # "crash", NEW t \in Threads, MapUser(t)
  PROVE  NfInv'
<1> DEFINE r == newuser_id(t)
           l0 == line[t]
           u == User(l0)
<1>1. /\ pc[t] = "map" /\ realid' = [realid EXCEPT ![u] = r]
      /\ \/ /\ r < Rows
            /\ sparse_ds' = [sparse_ds EXCEPT ![r] = Append(@, l0)]
            /\ mine' = [mine EXCEPT ![t] = Append(@, l0)]
            /\ pc' = [pc EXCEPT ![t] = "nfget"]
            /\ mainPc' = mainPc
         \/ ~(r < Rows) /\ mainPc' = "crash" /\ sparse_ds' = sparse_ds /\ mine' = mine /\ pc' = pc
      /\ pos' = pos /\ eof' = eof
      /\ setup' = setup /\ lock' = lock /\ lines_count' = lines_count /\ line' = line
      /\ samples' = samples /\ labels' = labels
      /\ queue' = queue /\ terminate' = terminate /\ at' = at
      /\ number_users' = number_users
  BY DEF MapUser, User, Goto, fileVars, resultVars
<1>2. /\ setup \in Setups /\ setup.format = "netflix" /\ pos \in Nat /\ pos <= setup.n
      /\ setup.n \in Nat
      /\ pc \in [Threads -> NfPc] /\ line \in [Threads -> Lines \union {NoLine}]
      /\ mine \in [Threads -> Seq(Lines)] /\ sparse_ds \in [RowSet -> Seq(Lines)]
      /\ realid \in [UserSet -> Nat \union {NoRow}] /\ number_users \in Nat
  BY SetupFacts, RowsAssumption DEF NfInv, NfTyped
<1>3. /\ l0 \in 1 .. pos /\ l0 \in Lines /\ (l0 = setup.n => setup.newline)
      /\ \A q \in RowSet : l0 \notin ToSet(sparse_ds[q])
      /\ \A v \in Threads : v # t /\ pc[v] = "map" => line[v] # l0
  BY <1>1, <1>2 DEF NfInv, NfRows, Lines
<1>4. u \in UserSet /\ \A l \in Lines : User(l) \in UserSet
  BY <1>2, <1>3, UserFacts
<1>5. r = IF realid[u] = NoRow THEN user_index ELSE realid[u]
  BY DEF newuser_id, User
<1> HIDE DEF r, l0, u
<1>6. /\ realid' \in [UserSet -> Nat \union {NoRow}]
      /\ r \in Nat /\ realid'[u] = r
      /\ \A v \in UserSet : realid[v] # NoRow => realid'[v] = realid[v]
      /\ Seated' = Seated \union {u}
      /\ \A v, w \in UserSet : realid'[v] = realid'[w] /\ realid'[v] # NoRow => v = w
      /\ \A v \in UserSet : realid'[v] # NoRow => realid'[v] < user_index'
      /\ \A q \in 0 .. (user_index' - 1) : \E v \in UserSet : realid'[v] = q
      /\ r < Rows => \A v \in UserSet : realid'[v] < Rows
  BY <1>1, <1>4, <1>5, NfSeat
<1>7. Lines' = Lines /\ NoRow \notin Nat /\ Rows \in Nat
  BY <1>1, RowsAssumption DEF Lines, NoRow
<1>8. NfUsers'
  <2>1. mainPc' # "crash" => r < Rows
    BY <1>1
  <2> QED
    BY <1>6, <2>1 DEF NfUsers
<1>9. /\ \A q \in RowSet : IsInjective(sparse_ds[q])
      /\ \A q \in RowSet : \A l \in ToSet(sparse_ds[q]) :
           l \in 1 .. pos /\ realid[User(l)] = q /\ (l = setup.n => setup.newline)
      /\ \A v \in Threads : pc[v] = "map" =>
           /\ line[v] \in 1 .. pos /\ (line[v] = setup.n => setup.newline)
           /\ \A q \in RowSet : line[v] \notin ToSet(sparse_ds[q])
      /\ \A v, w \in Threads : v # w /\ pc[v] = "map" /\ pc[w] = "map" => line[v] # line[w]
      /\ \A l \in 1 .. pos :
           \/ \E q \in RowSet : l \in ToSet(sparse_ds[q])
           \/ \E v \in Threads : pc[v] = "map" /\ line[v] = l
           \/ l = setup.n /\ ~setup.newline
  BY DEF NfInv, NfRows
<1>10. /\ \A v \in Seated : \E w \in Threads : \E l \in ToSet(mine[w]) : User(l) = v
       /\ \A w \in Threads : \A l \in ToSet(mine[w]) : \E q \in RowSet : l \in ToSet(sparse_ds[q])
       /\ number_users = 0 \/ \E v \in UserSet : realid[v] = number_users
       /\ \A w \in Threads : pc[w] = "done" =>
            \A l \in ToSet(mine[w]) : realid[User(l)] <= number_users
  BY DEF NfInv, NfCounted
<1>11. \A q \in RowSet : \A l \in ToSet(sparse_ds[q]) : realid'[User(l)] = realid[User(l)]
  <2>1. 1 .. pos \subseteq Lines
    BY <1>2 DEF Lines
  <2>2. \A q \in RowSet : q # NoRow
    BY <1>7 DEF RowSet
  <2> QED
    BY <1>4, <1>6, <1>9, <2>1, <2>2
<1>12. number_users = 0 \/ \E v \in UserSet : realid'[v] = number_users
  <2>1. number_users # NoRow
    BY <1>2, <1>7
  <2> QED
    BY <1>6, <1>10, <2>1
<1>13. ASSUME NEW w \in Threads, NEW l \in ToSet(mine[w]), pc[w] = "done"
       PROVE  realid'[User(l)] <= number_users
  <2>1. realid[User(l)] <= number_users
    BY <1>10, <1>13
  <2>2. realid'[User(l)] = realid[User(l)]
    BY <1>10, <1>11
  <2> QED
    BY <2>1, <2>2
<1>14. CASE ~(r < Rows)
  <2>1. mainPc' = "crash" /\ sparse_ds' = sparse_ds /\ mine' = mine /\ pc' = pc
    BY <1>1, <1>14
  <2>2. NfTyped'
    BY <1>1, <1>6, <1>7, <2>1 DEF NfInv, NfTyped
  <2>3. NfFile'
    BY <1>1, <2>1 DEF NfInv, NfFile
  <2>4. NfCounted'
    BY <1>1, <1>10, <1>12, <1>13, <2>1 DEF NfCounted
  <2>5. \A q \in RowSet : \A l \in ToSet(sparse_ds[q]) :
          l \in 1 .. pos /\ realid'[User(l)] = q /\ (l = setup.n => setup.newline)
    BY <1>9, <1>11
  <2>6. NfRows'
    BY <1>1, <1>9, <2>1, <2>5 DEF NfRows
  <2> QED
    BY <1>1, <1>8, <2>2, <2>3, <2>4, <2>6 DEF NfInv, NoQueues
<1>15. CASE r < Rows
  <2>1. r \in RowSet
    BY <1>6, <1>7, <1>15 DEF RowSet
  <2>2. /\ sparse_ds' = [sparse_ds EXCEPT ![r] = Append(@, l0)]
        /\ mine' = [mine EXCEPT ![t] = Append(@, l0)]
        /\ pc' = [pc EXCEPT ![t] = "nfget"] /\ mainPc' = mainPc
    BY <1>1, <1>15
  <2>3. /\ sparse_ds'[r] = Append(sparse_ds[r], l0) /\ mine'[t] = Append(mine[t], l0)
        /\ pc'[t] = "nfget"
        /\ \A q \in RowSet \ {r} : sparse_ds'[q] = sparse_ds[q]
        /\ \A w \in Threads \ {t} : mine'[w] = mine[w] /\ pc'[w] = pc[w]
    BY <1>2, <2>1, <2>2
  <2>4. /\ sparse_ds'[r] \in Seq(Lines) /\ ToSet(sparse_ds'[r]) = ToSet(sparse_ds[r]) \union {l0}
        /\ IsInjective(sparse_ds'[r])
    <3>1. sparse_ds[r] \in Seq(Lines) /\ IsInjective(sparse_ds[r]) /\ l0 \notin ToSet(sparse_ds[r])
      BY <1>2, <1>3, <1>9, <2>1
    <3> QED
      BY <1>3, <2>3, <3>1, AppendFacts
  <2>5. mine'[t] \in Seq(Lines) /\ ToSet(mine'[t]) = ToSet(mine[t]) \union {l0}
    BY <1>2, <1>3, <2>3, AppendFacts
  <2>6. NfTyped'
    <3>1. pc' \in [Threads -> NfPc]
      BY <1>2, <2>2 DEF NfPc
    <3>2. mine' \in [Threads -> Seq(Lines)]
      BY <1>2, <2>2, <2>3, <2>5
    <3>3. sparse_ds' \in [RowSet -> Seq(Lines)]
      BY <1>2, <2>2, <2>3, <2>4
    <3> QED
      BY <1>1, <1>6, <1>7, <2>2, <3>1, <3>2, <3>3 DEF NfInv, NfTyped
  <2>7. NfFile'
    <3>1. mainPc # "done"
      BY <1>1 DEF NfInv, NfFile
    <3>2. \A w \in Threads : pc'[w] \in {"max", "done"} => eof
      BY <2>3 DEF NfInv, NfFile
    <3> QED
      BY <1>1, <2>2, <3>1, <3>2 DEF NfInv, NfFile
  <2>8. NfCounted'
    <3>1. \A w \in Threads : ToSet(mine[w]) \subseteq ToSet(mine'[w])
      BY <2>3, <2>5
    <3>2. ASSUME NEW v \in Seated'
          PROVE  \E w \in Threads : \E l \in ToSet(mine'[w]) : User(l) = v
      <4>1. CASE v = u
        BY <2>5, <4>1 DEF u
      <4>2. CASE v # u
        BY <1>6, <1>10, <3>1, <3>2, <4>2
      <4> QED
        BY <4>1, <4>2
    <3>3. \A q \in RowSet : ToSet(sparse_ds[q]) \subseteq ToSet(sparse_ds'[q])
      BY <2>3, <2>4
    <3>4. ASSUME NEW w \in Threads, NEW l \in ToSet(mine'[w])
          PROVE  \E q \in RowSet : l \in ToSet(sparse_ds'[q])
      <4>1. CASE l \in ToSet(mine[w])
        BY <1>10, <3>3, <4>1
      <4>2. CASE l \notin ToSet(mine[w])
        <5>1. l = l0
          <6>1. w = t
            BY <2>3, <3>4, <4>2
          <6> QED
            BY <2>5, <3>4, <4>2, <6>1
        <5> QED
          BY <2>1, <2>4, <5>1
      <4> QED
        BY <4>1, <4>2
    <3>5. \A w \in Threads : pc'[w] = "done" =>
            \A l \in ToSet(mine'[w]) : realid'[User(l)] <= number_users
      BY <1>13, <2>3
    <3> QED
      BY <1>1, <1>12, <3>2, <3>4, <3>5 DEF NfCounted
  <2>9. NfRows'
    <3>1. \A q \in RowSet : IsInjective(sparse_ds'[q])
      BY <1>9, <2>3, <2>4
    <3>2. ASSUME NEW q \in RowSet, NEW l \in ToSet(sparse_ds'[q])
          PROVE  l \in 1 .. pos /\ realid'[User(l)] = q /\ (l = setup.n => setup.newline)
      <4>1. CASE l \in ToSet(sparse_ds[q])
        BY <1>9, <1>11, <4>1
      <4>2. CASE l \notin ToSet(sparse_ds[q])
        <5>1. l = l0 /\ q = r
          BY <2>3, <2>4, <3>2, <4>2
        <5> QED
          BY <1>3, <1>6, <5>1 DEF u
      <4> QED
        BY <4>1, <4>2
    <3>3. ASSUME NEW v \in Threads, pc'[v] = "map"
          PROVE  /\ line[v] \in 1 .. pos /\ (line[v] = setup.n => setup.newline)
                 /\ \A q \in RowSet : line[v] \notin ToSet(sparse_ds'[q])
      <4>1. v # t /\ pc[v] = "map"
        BY <2>3, <3>3
      <4>2. line[v] # l0
        BY <1>3, <4>1
      <4>3. \A q \in RowSet : ToSet(sparse_ds'[q]) \subseteq ToSet(sparse_ds[q]) \union {l0}
        BY <2>3, <2>4
      <4> QED
        BY <1>9, <4>1, <4>2, <4>3
    <3>4. \A v, w \in Threads : v # w /\ pc'[v] = "map" /\ pc'[w] = "map" => line[v] # line[w]
      BY <1>9, <2>3
    <3>5. ASSUME NEW l \in 1 .. pos
          PROVE  \/ \E q \in RowSet : l \in ToSet(sparse_ds'[q])
                 \/ \E v \in Threads : pc'[v] = "map" /\ line[v] = l
                 \/ l = setup.n /\ ~setup.newline
      <4>1. CASE \E q \in RowSet : l \in ToSet(sparse_ds[q])
        BY <2>3, <2>4, <4>1
      <4>2. ASSUME NEW v \in Threads, pc[v] = "map", line[v] = l
            PROVE  \/ \E q \in RowSet : l \in ToSet(sparse_ds'[q])
                   \/ \E w \in Threads : pc'[w] = "map" /\ line[w] = l
        <5>1. CASE v = t
          BY <2>1, <2>4, <4>2, <5>1 DEF l0
        <5>2. CASE v # t
          BY <2>3, <4>2, <5>2
        <5> QED
          BY <5>1, <5>2
      <4> QED
        BY <1>9, <4>1, <4>2
    <3> QED
      BY <1>1, <3>1, <3>2, <3>3, <3>4, <3>5 DEF NfRows
  <2> QED
    BY <1>1, <1>8, <2>6, <2>7, <2>8, <2>9 DEF NfInv, NoQueues
<1> QED
  BY <1>14, <1>15, <1>1

LEMMA NfPublishMax ==
  ASSUME NfInv, mainPc # "crash", NEW t \in Threads, PublishMax(t)
  PROVE  NfInv'
<1> DEFINE T == {number_users} \union {realid[User(l)] : l \in ToSet(mine[t])}
<1>1. /\ pc[t] = "max" /\ pc' = [pc EXCEPT ![t] = "done"] /\ number_users' = Max(T)
      /\ pos' = pos /\ eof' = eof /\ mine' = mine /\ line' = line
      /\ setup' = setup /\ lock' = lock /\ lines_count' = lines_count
      /\ samples' = samples /\ labels' = labels /\ mainPc' = mainPc
      /\ queue' = queue /\ terminate' = terminate /\ at' = at
      /\ realid' = realid /\ sparse_ds' = sparse_ds
  BY DEF PublishMax, User, Goto, fileVars, resultVars, csvVars
<1>2. /\ setup \in Setups /\ setup.format = "netflix" /\ pc \in [Threads -> NfPc]
      /\ realid \in [UserSet -> Nat \union {NoRow}] /\ number_users \in 0 .. Rows
      /\ Rows \in Nat /\ NoRow \notin Nat /\ pos \in Nat /\ pos <= setup.n /\ setup.n \in Nat
  BY SetupFacts, RowsAssumption DEF NfInv, NfTyped, NoRow
<1>3. pc'[t] = "done" /\ \A v \in Threads \ {t} : pc'[v] = pc[v]
  BY <1>1, <1>2
<1>4. ASSUME NEW w \in Threads, NEW l \in ToSet(mine[w])
      PROVE  User(l) \in UserSet /\ realid[User(l)] \in Nat /\ realid[User(l)] < Rows
  <2>1. PICK q \in RowSet : l \in ToSet(sparse_ds[q])
    BY DEF NfInv, NfCounted
  <2>2. l \in 1 .. pos /\ realid[User(l)] = q
    BY <2>1 DEF NfInv, NfRows
  <2>3. l \in Lines
    BY <1>2, <2>2 DEF Lines
  <2>4. q \in Nat /\ q < Rows
    BY <1>2 DEF RowSet
  <2> QED
    BY <1>2, <2>2, <2>3, <2>4, UserFacts
<1>5. T \in SUBSET Nat /\ T # {} /\ \A x \in T : x <= Rows
  BY <1>2, <1>4
<1>6. Max(T) \in T /\ \A x \in T : Max(T) >= x
  BY <1>2, <1>5, MaxOfSet
<1>7. /\ number_users' \in 0 .. Rows /\ number_users' >= number_users
      /\ \A l \in ToSet(mine[t]) : realid[User(l)] <= number_users'
      /\ \/ number_users' = number_users
         \/ \E l \in ToSet(mine[t]) : number_users' = realid[User(l)]
  <2>1. number_users \in T /\ \A l \in ToSet(mine[t]) : realid[User(l)] \in T
    OBVIOUS
  <2>2. \A x \in T : x = number_users \/ \E l \in ToSet(mine[t]) : x = realid[User(l)]
    OBVIOUS
  <2>3. \A x \in T : x \in 0 .. Rows
    BY <1>2, <1>5
  <2> HIDE DEF T
  <2>4. \A l \in ToSet(mine[t]) : realid[User(l)] <= number_users'
    <3> SUFFICES ASSUME NEW l \in ToSet(mine[t]) PROVE realid[User(l)] <= Max(T)
      BY <1>1
    <3> DEFINE x == realid[User(l)]
    <3>1. x \in T
      BY <2>1
    <3> HIDE DEF x
    <3>2. Max(T) >= x /\ x \in 0 .. Rows /\ Max(T) \in 0 .. Rows
      BY <1>6, <2>3, <3>1
    <3>3. x <= Max(T)
      BY <1>2, <3>2
    <3> QED
      BY <3>3 DEF x
  <2>5. number_users' >= number_users
    BY <1>1, <1>6, <2>1
  <2>6. number_users' \in T
    BY <1>1, <1>6
  <2> QED
    BY <2>2, <2>3, <2>4, <2>5, <2>6
<1>8. Lines' = Lines /\ user_index' = user_index /\ Seated' = Seated
  BY <1>1 DEF Lines, user_index, Seated
<1>9. NfTyped'
  <2>1. pc' \in [Threads -> NfPc]
    BY <1>1, <1>2 DEF NfPc
  <2> QED
    BY <1>1, <1>7, <1>8, <2>1 DEF NfInv, NfTyped
<1>10. NfFile'
  <2>1. eof /\ mainPc # "done"
    BY <1>1 DEF NfInv, NfFile
  <2> QED
    BY <1>1, <2>1 DEF NfInv, NfFile
<1>11. NfUsers'
  BY <1>1, <1>8 DEF NfInv, NfUsers
<1>12. NfCounted'
  <2>1. /\ mainPc # "crash" => \A u \in Seated : \E w \in Threads :
             \E l \in ToSet(mine[w]) : User(l) = u
        /\ \A w \in Threads : \A l \in ToSet(mine[w]) :
             \E r \in RowSet : l \in ToSet(sparse_ds[r])
        /\ number_users = 0 \/ \E u \in UserSet : realid[u] = number_users
        /\ \A w \in Threads : pc[w] = "done" =>
             \A l \in ToSet(mine[w]) : realid[User(l)] <= number_users
    BY DEF NfInv, NfCounted
  <2>2. number_users' = 0 \/ \E u \in UserSet : realid[u] = number_users'
    <3>1. CASE number_users' = number_users
      BY <2>1, <3>1, Zenon
    <3>2. CASE \E l \in ToSet(mine[t]) : number_users' = realid[User(l)]
      BY <1>4, <3>2
    <3> QED
      BY <1>7, <3>1, <3>2
  <2>3. ASSUME NEW w \in Threads, pc'[w] = "done", NEW l \in ToSet(mine[w])
        PROVE  realid[User(l)] <= number_users'
    <3>1. CASE w = t
      BY <1>7, <2>3, <3>1
    <3>2. CASE w # t
      <4>1. realid[User(l)] <= number_users
        BY <1>3, <2>1, <2>3, <3>2
      <4>2. realid[User(l)] \in Nat
        BY <1>4, <2>3
      <4> QED
        BY <1>2, <1>7, <4>1, <4>2
    <3> QED
      BY <3>1, <3>2
  <2> QED
    BY <1>1, <1>8, <2>1, <2>2, <2>3 DEF NfCounted
<1>13. NfRows'
  <2>1. \A v \in Threads : pc'[v] = "map" <=> pc[v] = "map"
    BY <1>1, <1>3
  <2> QED
    BY <1>1, <2>1 DEF NfInv, NfRows
<1> QED
  BY <1>1, <1>9, <1>10, <1>11, <1>12, <1>13 DEF NfInv, NoQueues

LEMMA NfJoin == ASSUME NfInv, Join PROVE NfInv'
<1>1. /\ \A t \in Threads : pc[t] = "done"
      /\ mainPc = "join" /\ mainPc' = "done" /\ pc' = pc /\ lock' = lock
      /\ samples' = samples /\ labels' = labels
      /\ line' = line /\ pos' = pos /\ eof' = eof /\ lines_count' = lines_count
      /\ setup' = setup /\ mine' = mine
      /\ queue' = queue /\ terminate' = terminate /\ at' = at
      /\ realid' = realid /\ sparse_ds' = sparse_ds /\ number_users' = number_users
  BY DEF NfInv, NfTyped, Join, fileVars, threadVars, resultVars, netflixVars
<1>2. Lines' = Lines /\ user_index' = user_index /\ Seated' = Seated
  BY <1>1 DEF Lines, user_index, Seated
<1>3. NfTyped'
  BY <1>1, <1>2 DEF NfInv, NfTyped
<1>4. NfFile'
  BY <1>1 DEF NfInv, NfFile
<1>5. NfUsers'
  BY <1>1, <1>2 DEF NfInv, NfUsers
<1>6. NfCounted'
  BY <1>1, <1>2 DEF NfInv, NfCounted
<1>7. NfRows'
  BY <1>1 DEF NfInv, NfRows
<1> QED
  BY <1>1, <1>3, <1>4, <1>5, <1>6, <1>7 DEF NfInv, NoQueues

LEMMA NfStep == ASSUME NfInv, ReaderNext PROVE NfInv'
<1>1. /\ \A t \in Threads : pc[t] \in NfPc
      /\ setup.format = "netflix" /\ mainPc \in {"join", "done", "crash"}
      /\ \A t \in Threads : lock # t
  BY ThreadSet DEF NfInv, NfTyped
<1>2. CASE Main
  BY <1>1, <1>2, NfJoin DEF Main, ReadBatch, PollQueue, shuffle_samples_labels
<1>3. ASSUME NEW t \in Threads, mainPc # "crash", Thread(t) PROVE NfInv'
  <2>1. ~CheckTerminate(t) /\ ~TakeLines(t)
    BY <1>1 DEF CheckTerminate, TakeLines, NfPc
  <2>2. ~ReadLine(t) /\ ~CheckEof(t) /\ ~CheckLimit(t) /\ ~ParseLine(t)
    BY <1>1 DEF ReadLine, CheckEof, CheckLimit, ParseLine, NfPc
  <2>3. ~PublishFirst(t) /\ ~PublishSecond(t)
    BY <1>1 DEF PublishFirst, PublishSecond, NfPc
  <2> QED
    BY <1>3, <2>1, <2>2, <2>3, NfReadLine, NfMapUser, NfPublishMax DEF Thread
<1> QED
  BY <1>2, <1>3 DEF ReaderNext

LEMMA NfResult ==
  ASSUME NfInv
  PROVE  SamplesKeepLabels /\ RowsOfUsers /\ TypeOK
<1>1. /\ setup \in Setups /\ setup.format = "netflix" /\ setup.n \in Nat
      /\ setup.newline \in BOOLEAN
      /\ pos \in Nat /\ pos <= setup.n /\ Rows \in Nat /\ NoRow \notin Nat
      /\ number_users \in 0 .. Rows /\ realid \in [UserSet -> Nat \union {NoRow}]
      /\ samples = <<>> /\ labels = <<>>
  BY SetupFacts, RowsAssumption DEF NfInv, NfTyped, NoRow
<1>2. SamplesKeepLabels
  BY <1>1 DEF SamplesKeepLabels, IsInjective
<1>3. /\ user_index \in Nat /\ user_index <= Cardinality(UserSet)
      /\ \A u, v \in UserSet : realid[u] = realid[v] /\ realid[u] # NoRow => u = v
      /\ \A u \in UserSet : realid[u] # NoRow => realid[u] < user_index
      /\ \A r \in 0 .. (user_index - 1) : \E u \in UserSet : realid[u] = r
  BY SeatedFacts DEF NfInv, NfUsers
<1>4. RowsOfUsers
  <2> SUFFICES ASSUME mainPc = "done"
               PROVE  /\ \A l \in Lines :
                           Cardinality({r \in RowSet : l \in ToSet(sparse_ds[r])})
                             = IF l = setup.n /\ ~setup.newline THEN 0 ELSE 1
                      /\ \A r \in RowSet :
                           /\ Cardinality({User(l) : l \in ToSet(sparse_ds[r])})
                                = IF r < user_index THEN 1 ELSE 0
                           /\ IsInjective(sparse_ds[r])
                      /\ user_index > 0 => number_users = user_index - 1
    BY DEF RowsOfUsers, RowSet, User
  <2>1. pos = setup.n /\ \A t \in Threads : pc[t] = "done"
    BY ThreadSet DEF NfInv, NfFile
  <2>2. /\ \A r \in RowSet : IsInjective(sparse_ds[r])
        /\ \A r \in RowSet : \A l \in ToSet(sparse_ds[r]) :
             l \in 1 .. pos /\ realid[User(l)] = r /\ (l = setup.n => setup.newline)
        /\ \A l \in 1 .. pos :
             \/ \E r \in RowSet : l \in ToSet(sparse_ds[r])
             \/ l = setup.n /\ ~setup.newline
    BY <2>1 DEF NfInv, NfRows
  <2>3. \A r \in RowSet : r \in Nat /\ r < Rows /\ r # NoRow
    BY <1>1 DEF RowSet
  <2>4. ASSUME NEW l \in Lines
        PROVE  Cardinality({r \in RowSet : l \in ToSet(sparse_ds[r])})
                 = IF l = setup.n /\ ~setup.newline THEN 0 ELSE 1
    <3> DEFINE X == {r \in RowSet : l \in ToSet(sparse_ds[r])}
    <3>1. CASE l = setup.n /\ ~setup.newline
      <4>1. X = {}
        BY <2>2, <3>1
      <4> QED
        BY <3>1, <4>1, FS_EmptySet
    <3>2. CASE ~(l = setup.n /\ ~setup.newline)
      <4>1. PICK r \in RowSet : l \in ToSet(sparse_ds[r])
        BY <2>1, <2>2, <3>2 DEF Lines
      <4>2. X = {r}
        BY <2>2, <4>1
      <4>3. Cardinality(X) = 1
        BY <4>2, FS_Singleton
      <4> QED
        BY <3>2, <4>3
    <3> QED
      BY <3>1, <3>2
  <2>5. \A v \in Seated : \E t \in Threads : \E l \in ToSet(mine[t]) :
          User(l) = v /\ \E r \in RowSet : l \in ToSet(sparse_ds[r])
    BY DEF NfInv, NfCounted
  <2>6. \A l \in 1 .. pos : User(l) \in UserSet
    BY <1>1, <2>1, UserFacts DEF Lines
  <2>7. ASSUME NEW r \in RowSet
        PROVE  Cardinality({User(l) : l \in ToSet(sparse_ds[r])})
                 = IF r < user_index THEN 1 ELSE 0
    <3> DEFINE X == {User(l) : l \in ToSet(sparse_ds[r])}
    <3>1. CASE r < user_index
      <4>1. PICK u \in UserSet : realid[u] = r
        BY <1>3, <2>3, <3>1
      <4>2. u \in Seated
        BY <2>3, <4>1 DEF Seated
      <4>3. PICK l \in 1 .. pos : User(l) = u /\ l \in ToSet(sparse_ds[r])
        BY <2>2, <2>5, <4>1, <4>2
      <4>4. \A m \in ToSet(sparse_ds[r]) : User(m) = u
        BY <1>3, <2>2, <2>3, <2>6, <4>1
      <4>5. X = {u}
        BY <4>3, <4>4
      <4>6. Cardinality(X) = 1
        BY <4>5, FS_Singleton
      <4> QED
        BY <3>1, <4>6
    <3>2. CASE ~(r < user_index)
      <4>1. \A l \in ToSet(sparse_ds[r]) : FALSE
        BY <1>3, <2>2, <2>3, <2>6, <3>2
      <4>2. X = {}
        BY <4>1
      <4> QED
        BY <3>2, <4>2, FS_EmptySet
    <3> QED
      BY <3>1, <3>2
  <2>8. ASSUME user_index > 0 PROVE number_users = user_index - 1
    <3>1. user_index - 1 \in 0 .. (user_index - 1)
      BY <1>3, <2>8
    <3>2. PICK u \in UserSet : realid[u] = user_index - 1
      BY <1>3, <3>1
    <3>3. u \in Seated
      BY <1>1, <3>1, <3>2 DEF Seated
    <3>4. PICK t \in Threads : \E l \in ToSet(mine[t]) : User(l) = u
      BY <2>5, <3>3
    <3>5. realid[u] <= number_users
      BY <2>1, <3>4 DEF NfInv, NfCounted
    <3>6. number_users = 0 \/ \E v \in UserSet : realid[v] = number_users
      BY DEF NfInv, NfCounted
    <3>7. number_users \in Nat /\ number_users # NoRow
      BY <1>1
    <3>8. number_users = 0 \/ number_users < user_index
      BY <1>3, <3>6, <3>7
    <3> QED
      BY <1>3, <2>8, <3>2, <3>5, <3>7, <3>8
  <2> QED
    BY <2>2, <2>4, <2>7, <2>8
<1>5. TypeOK
  <2>1. pos \in 0 .. setup.n /\ lines_count \in 0 .. setup.n
    BY <1>1 DEF NfInv, NfTyped
  <2>2. pc \in [Threads -> {"top", "take", "get", "eof", "limit", "parse", "nfget",
                            "map", "max", "labels", "samples", "done"}]
    BY DEF NfInv, NfTyped, NfPc
  <2>3. realid \in [UserSet -> 0 .. (Cardinality(UserSet) - 1) \union {NoRow}]
    <3>1. Cardinality(UserSet) \in Nat
      BY UserFacts
    <3>2. \A u \in UserSet : realid[u] \in 0 .. (Cardinality(UserSet) - 1) \union {NoRow}
      BY <1>1, <1>3, <3>1
    <3> QED
      BY <1>1, <3>2
  <2>4. <<>> \in Seq(Lines) /\ 0 \in 0 .. NThreads
    BY ThreadSet
  <2>5. queue \in [Threads -> Seq(Lines)] /\ terminate \in BOOLEAN /\ at \in 0 .. NThreads
    <3>1. terminate = FALSE
      BY DEF NfInv, NoQueues
    <3> QED
      BY <2>4, <3>1 DEF NfInv, NoQueues
  <2> QED
    BY <1>1, <2>1, <2>2, <2>3, <2>4, <2>5 DEF NfInv, NfTyped, TypeOK, RowSet
<1> QED
  BY <1>2, <1>4, <1>5

-----------------------------------------------------------------------------
(* All readers.                                                               *)

NoneInv ==
  /\ setup \in Setups /\ setup.format = "none"
  /\ pos = 0 /\ lines_count = 0 /\ eof = FALSE /\ lock = Nobody
  /\ pc = [t \in Threads |-> "done"] /\ line = [t \in Threads |-> NoLine]
  /\ mine = [t \in Threads |-> <<>>] /\ samples = <<>> /\ labels = <<>>
  /\ mainPc \in {"join", "done"}
  /\ NoQueues /\ NoUsers

ReaderInv == CsvInv \/ CriteoInv \/ NfInv \/ NoneInv

LEMMA NoneResult == ASSUME NoneInv PROVE SamplesKeepLabels /\ TypeOK
<1>1. setup.n \in Nat /\ 0 \in 0 .. setup.n /\ <<>> \in Seq(Lines)
      /\ 0 \in 0 .. NThreads /\ 0 \in 0 .. Rows
  BY SetupFacts, ThreadSet, RowsAssumption DEF NoneInv
<1>2. eof \in BOOLEAN /\ terminate \in BOOLEAN
  <2>1. eof = FALSE /\ terminate = FALSE
    BY DEF NoneInv, NoQueues
  <2> QED
    BY <2>1
<1>3. SamplesKeepLabels
  BY DEF NoneInv, SamplesKeepLabels, IsInjective
<1>4. realid \in [UserSet -> 0 .. (Cardinality(UserSet) - 1) \union {NoRow}]
  BY DEF NoneInv, NoUsers
<1> QED
  BY <1>1, <1>2, <1>3, <1>4 DEF NoneInv, NoQueues, NoUsers, TypeOK

LEMMA ReaderInvInit == ASSUME Init PROVE ReaderInv
<1>1. setup \in Setups /\ setup.format \in {"csv", "criteo", "netflix", "none"}
  BY SetupFacts DEF Init
<1>2. setup.format = "none" => NoneInv
  BY DEF Init, NoneInv, NoQueues, NoUsers
<1> QED
  BY <1>1, <1>2, CsvInit, CriteoInit, NfInit DEF ReaderInv

LEMMA ReaderInvStep == ASSUME ReaderInv, ReaderNext \/ UNCHANGED vars PROVE ReaderInv'
<1>1. CASE ReaderNext
  <2>1. CASE NoneInv
    <3>1. \A t \in Threads : pc[t] = "done" /\ lock # t
      BY <2>1, ThreadSet DEF NoneInv
    <3>2. \A t \in Threads : ~Thread(t)
      BY <3>1 DEF Thread, CheckTerminate, TakeLines, ReadLine, CheckEof, CheckLimit, ParseLine,
                  PublishFirst, PublishSecond, NetflixReadLine, MapUser, PublishMax
    <3>3. Join
      BY <1>1, <2>1, <3>2 DEF NoneInv, ReaderNext, Main, ReadBatch, PollQueue,
                              shuffle_samples_labels
    <3>4. NoneInv'
      BY <2>1, <3>3 DEF NoneInv, Join, NoQueues, NoUsers, fileVars, threadVars, resultVars,
                        netflixVars
    <3> QED
      BY <3>4 DEF ReaderInv
  <2> QED
    BY <1>1, <2>1, CsvStep, CriteoStep, NfStep DEF ReaderInv
<1>2. CASE UNCHANGED vars
  <2>1. /\ setup' = setup /\ eof' = eof /\ lock' = lock /\ pc' = pc /\ line' = line
        /\ pos' = pos /\ lines_count' = lines_count /\ queue' = queue
        /\ mine' = mine /\ samples' = samples /\ labels' = labels
        /\ terminate' = terminate /\ at' = at /\ mainPc' = mainPc
        /\ realid' = realid /\ sparse_ds' = sparse_ds /\ number_users' = number_users
    BY <1>2 DEF vars, fileVars, threadVars, resultVars, csvVars, netflixVars
  <2>2. /\ Lines' = Lines /\ Cap' = Cap /\ Held' = Held /\ Handed' = Handed
        /\ (LimitReached' <=> LimitReached) /\ Kept' = Kept /\ Parsing' = Parsing
        /\ user_index' = user_index /\ Seated' = Seated
    BY <2>1 DEF Lines, Cap, Held, Handed, LimitReached, Kept, Parsing, user_index, Seated
  <2>3. (NoUsers' <=> NoUsers) /\ (NoQueues' <=> NoQueues)
    BY <2>1 DEF NoUsers, NoQueues
  <2>4. CsvInv => CsvInv'
    BY <2>1, <2>2, <2>3 DEF CsvInv, CsvTyped, CsvControl, CsvPublished, Parted
  <2>5. CriteoInv => CriteoInv'
    <3>1. CriteoMine => CriteoMine'
      BY <2>1, CriteoMineKept DEF InHand
    <3> QED
      BY <2>1, <2>2, <2>3, <3>1
         DEF CriteoInv, CriteoTyped, CriteoFile, CriteoPublished, CriteoCounted
  <2>6. NfInv => NfInv'
    BY <2>1, <2>2, <2>3 DEF NfInv, NfTyped, NfFile, NfUsers, NfCounted, NfRows
  <2>7. NoneInv => NoneInv'
    BY <2>1, <2>3 DEF NoneInv
  <2> QED
    BY <2>4, <2>5, <2>6, <2>7 DEF ReaderInv
<1> QED
  BY <1>1, <1>2

LEMMA ReaderResult ==
  ASSUME ReaderInv
  PROVE  /\ TypeOK /\ SamplesKeepLabels /\ CsvWholeBatches /\ RowsOfUsers
         /\ FewLinesLost /\ LimitOvershoot
<1>1. CASE CsvInv
  <2>1. setup.format = "csv"
    BY <1>1 DEF CsvInv, CsvTyped
  <2> QED
    BY <1>1, <2>1, CsvResult DEF FewLinesLost, LimitOvershoot, RowsOfUsers
<1>2. CASE CriteoInv
  <2>1. setup.format = "criteo"
    BY <1>2 DEF CriteoInv, CriteoTyped
  <2> QED
    BY <1>2, <2>1, CriteoResult DEF CsvWholeBatches, RowsOfUsers
<1>3. CASE NfInv
  <2>1. setup.format = "netflix"
    BY <1>3 DEF NfInv, NfTyped
  <2> QED
    BY <1>3, <2>1, NfResult DEF CsvWholeBatches, FewLinesLost, LimitOvershoot
<1>4. CASE NoneInv
  <2>1. setup.format = "none"
    BY <1>4 DEF NoneInv
  <2> QED
    BY <1>4, <2>1, NoneResult
       DEF CsvWholeBatches, FewLinesLost, LimitOvershoot, RowsOfUsers
<1> QED
  BY <1>1, <1>2, <1>3, <1>4 DEF ReaderInv

LEMMA ReaderInvHolds == LoadSpec => []ReaderInv
<1>1. LoadInit => ReaderInv
  BY ReaderInvInit DEF LoadInit
<1>2. ReaderInv /\ [LoadNext]_<<vars, confVars, loadVars>> => ReaderInv'
  BY StepParts, ReaderInvStep
<1> QED
  BY <1>1, <1>2, PTL DEF LoadSpec

(* The types of everything the main thread and the threads of a reader share  *)
(* (InputReader.cpp:110-355, 600-716, 975-1113).                              *)
THEOREM ReadersAreTyped == LoadSpec => []TypeOK
<1>1. ReaderInv => TypeOK
  BY ReaderResult
<1> QED
  BY <1>1, ReaderInvHolds, PTL

(* With any number of threads and in any order of their steps a sample keeps  *)
(* its label and no line is read twice (InputReader.cpp:171-178, 648-655).    *)
THEOREM LabelsStay == LoadSpec => []SamplesKeepLabels
<1>1. ReaderInv => SamplesKeepLabels
  BY ReaderResult
<1> QED
  BY <1>1, ReaderInvHolds, PTL

(* The CSV reader returns the lines of the full batches within the limit and  *)
(* no others: the queues it polls one by one were all empty at once, since    *)
(* nobody fills them any more (InputReader.cpp:300-347).                      *)
THEOREM FullBatchesArrive == LoadSpec => []CsvWholeBatches
<1>1. ReaderInv => CsvWholeBatches
  BY ReaderResult
<1> QED
  BY <1>1, ReaderInvHolds, PTL

(* The Criteo readers lose one line for each thread but one and an unended    *)
(* last line, at most, to the test of the end of the file that they make      *)
(* after fin_lock was given up (InputReader.cpp:622-628, 647-655).            *)
THEOREM CriteoLosesFew == LoadSpec => []FewLinesLost
<1>1. ReaderInv => FewLinesLost
  BY ReaderResult
<1> QED
  BY <1>1, ReaderInvHolds, PTL

(* They overshoot the limit by one line for each thread but one, at most: how *)
(* far LimitEnforced can be missed (InputReader.cpp:630-644).                 *)
THEOREM OvershootIsBounded == LoadSpec => []LimitOvershoot
<1>1. ReaderInv => LimitOvershoot
  BY ReaderResult
<1> QED
  BY <1>1, ReaderInvHolds, PTL

(* The Netflix reader leaves every rating of a terminated line in the row of  *)
(* its user, users in rows of their own without gaps, and the last of these   *)
(* rows in number_users (InputReader.cpp:985-1043).                           *)
THEOREM UsersHaveRows == LoadSpec => []RowsOfUsers
<1>1. ReaderInv => RowsOfUsers
  BY ReaderResult
<1> QED
  BY <1>1, ReaderInvHolds, PTL

-----------------------------------------------------------------------------
(* What the parser of a line and the layout of an object compute.             *)

First(p, x, e) == x

(* FlattenSeq and induction over the numbers, for which Op does not matter. *)
U == INSTANCE FoldFacts WITH Op <- First

IsPower(f, n) == f = [i \in 0 .. n |-> IF i = 0 THEN 1 ELSE 2 * f[i - 1]]

LEMMA PowerPositive ==
  ASSUME NEW k \in Nat
  PROVE  PowerOfTwo(k) \in Nat \ {0}
<1> DEFINE S == {n \in Nat : \E f : IsPower(f, n)}
<1>1. 0 \in S
  <2> DEFINE f == [i \in 0 .. 0 |-> 1]
  <2>1. IsPower(f, 0)
    BY DEF IsPower
  <2> QED
    BY <2>1
<1>2. ASSUME NEW n \in S PROVE n + 1 \in S
  <2>1. PICK g : IsPower(g, n)
    BY <1>2
  <2> DEFINE f == [i \in 0 .. (n + 1) |-> IF i = n + 1 THEN 2 * g[n] ELSE g[i]]
  <2>2. n \in Nat
    BY <1>2
  <2>3. \A i \in 0 .. n : f[i] = g[i]
    BY <2>2
  <2>4. f[n + 1] = 2 * f[n]
    BY <2>2, <2>3
  <2>5. ASSUME NEW i \in 0 .. (n + 1)
        PROVE  f[i] = IF i = 0 THEN 1 ELSE 2 * f[i - 1]
    <3>1. CASE i = n + 1
      BY <2>2, <2>4, <3>1
    <3>2. CASE i # n + 1
      <4>1. i \in 0 .. n /\ (i = 0 \/ i - 1 \in 0 .. n)
        BY <2>2, <3>2
      <4>2. g[i] = IF i = 0 THEN 1 ELSE 2 * g[i - 1]
        BY <2>1, <4>1 DEF IsPower
      <4> QED
        BY <2>3, <4>1, <4>2
    <3> QED
      BY <3>1, <3>2
  <2>6. IsPower(f, n + 1)
    BY <2>5, Zenon DEF IsPower
  <2> QED
    BY <2>2, <2>6
<1>3. S = Nat
  <2> HIDE DEF S
  <2>1. S \subseteq Nat
    BY DEF S
  <2> QED
    BY <1>1, <1>2, <2>1, U!SetInduction
<1> DEFINE f == CHOOSE f : IsPower(f, k)
<1>4. IsPower(f, k)
  <2>1. \E h : IsPower(h, k)
    BY <1>3
  <2> QED
    BY <2>1
<1>5. PowerOfTwo(k) = f[k]
  BY Zenon DEF PowerOfTwo, IsPower
<1> HIDE DEF f
<1> DEFINE T == {n \in Nat : n <= k => f[n] \in Nat \ {0}}
<1>6. \A i \in 0 .. k : f[i] = IF i = 0 THEN 1 ELSE 2 * f[i - 1]
  BY <1>4 DEF IsPower
<1>7. 0 \in T
  BY <1>6
<1>8. ASSUME NEW n \in T PROVE n + 1 \in T
  <2>1. n \in Nat
    BY <1>8
  <2> SUFFICES ASSUME n + 1 <= k PROVE f[n + 1] \in Nat \ {0}
    BY <2>1
  <2>2. n <= k /\ n + 1 \in 0 .. k /\ n + 1 # 0 /\ (n + 1) - 1 = n
    BY <2>1
  <2>3. f[n] \in Nat \ {0}
    BY <1>8, <2>2
  <2>4. f[n + 1] = 2 * f[n]
    BY <1>6, <2>2
  <2> QED
    BY <2>3, <2>4
<1>9. T = Nat
  <2> HIDE DEF T
  <2>1. T \subseteq Nat
    BY DEF T
  <2> QED
    BY <1>7, <1>8, <2>1, U!SetInduction
<1> QED
  BY <1>5, <1>9

Increasing(s) == \A i, j \in DOMAIN s : i < j => s[i] < s[j]

LEMMA IncreasingExists ==
  ASSUME NEW K \in SUBSET Nat, IsFiniteSet(K)
  PROVE  \E s \in [1 .. Cardinality(K) -> K] : Increasing(s)
<1> DEFINE Sorted(L, m) == \E s \in [1 .. m -> L] : Increasing(s)
           S == {m \in Nat : \A L \in SUBSET Nat :
                   IsFiniteSet(L) /\ Cardinality(L) = m => Sorted(L, m)}
<1>1. 0 \in S
  <2> SUFFICES ASSUME NEW L \in SUBSET Nat PROVE Sorted(L, 0)
    OBVIOUS
  <2> DEFINE s == [i \in 1 .. 0 |-> 0]
  <2>1. s \in [1 .. 0 -> L] /\ Increasing(s)
    BY DEF Increasing
  <2> QED
    BY <2>1
<1>2. ASSUME NEW m \in S PROVE m + 1 \in S
  <2>1. m \in Nat
    BY <1>2
  <2> SUFFICES ASSUME NEW L \in SUBSET Nat, IsFiniteSet(L), Cardinality(L) = m + 1
               PROVE  Sorted(L, m + 1)
    BY <2>1
  <2>2. L # {}
    BY <2>1, FS_EmptySet
  <2>3. PICK x \in L : \A y \in L : x <= y
    <3>1. IsWellFoundedOn(OpToRel(<, Nat), Nat)
      BY NatLessThanWellFounded
    <3>2. PICK x \in L : \A y \in L : ~(<<y, x>> \in OpToRel(<, Nat))
      BY <2>2, <3>1, WFMin
    <3>3. \A y \in L : ~(y < x)
      BY <3>2 DEF OpToRel
    <3>4. \A y \in L : x <= y
      BY <3>3
    <3> QED
      BY <3>4
  <2> DEFINE M == L \ {x}
  <2>4. M \in SUBSET Nat /\ IsFiniteSet(M) /\ Cardinality(M) = m
    BY <2>1, FS_RemoveElement
  <2>5. Sorted(M, m)
    BY <1>2, <2>4
  <2>6. PICK r \in [1 .. m -> M] : Increasing(r)
    BY <2>5
  <2> DEFINE s == [i \in 1 .. (m + 1) |-> IF i = 1 THEN x ELSE r[i - 1]]
  <2>7. \A i \in 1 .. (m + 1) : i = 1 \/ i - 1 \in 1 .. m
    BY <2>1
  <2>8. s \in [1 .. (m + 1) -> L]
    BY <2>6, <2>7
  <2>9. \A i \in 1 .. m : r[i] \in Nat /\ x < r[i]
    <3>1. \A i \in 1 .. m : r[i] \in L /\ r[i] # x
      BY <2>6
    <3>2. x \in Nat /\ \A y \in L : y \in Nat /\ x <= y
      BY <2>3
    <3> HIDE DEF S, M, s
    <3>3. ASSUME NEW i \in 1 .. m PROVE r[i] \in Nat /\ x < r[i]
      <4>1. r[i] \in Nat /\ x <= r[i] /\ r[i] # x
        BY <3>1, <3>2
      <4> QED
        BY <3>2, <4>1
    <3> QED
      BY <3>3
  <2>10. ASSUME NEW i \in 1 .. (m + 1), NEW j \in 1 .. (m + 1), i < j PROVE s[i] < s[j]
    <3>1. j # 1 /\ j - 1 \in 1 .. m /\ s[j] = r[j - 1]
      BY <2>1, <2>10
    <3>2. CASE i = 1
      BY <2>9, <3>1, <3>2
    <3>3. CASE i # 1
      <4>1. i - 1 \in 1 .. m /\ s[i] = r[i - 1] /\ i - 1 < j - 1
        BY <2>1, <2>10, <3>3
      <4>2. r[i - 1] < r[j - 1]
        BY <2>6, <3>1, <4>1 DEF Increasing
      <4> QED
        BY <3>1, <4>1, <4>2
    <3> QED
      BY <3>2, <3>3
  <2> HIDE DEF s
  <2>11. Increasing(s)
    BY <2>8, <2>10 DEF Increasing
  <2> QED
    BY <2>8, <2>11
<1>3. S = Nat
  <2> HIDE DEF S
  <2>1. S \subseteq Nat
    BY DEF S
  <2> QED
    BY <1>1, <1>2, <2>1, U!SetInduction
<1>4. Cardinality(K) \in Nat
  BY FS_CardinalityType
<1>5. Sorted(K, Cardinality(K))
  BY <1>3, <1>4
<1> QED
  BY <1>5

(* Every key, once. *)
LEMMA AscendingKeys ==
  ASSUME NEW K \in SUBSET Nat, IsFiniteSet(K)
  PROVE  /\ Ascending(K) \in [1 .. Cardinality(K) -> K]
         /\ \A i, j \in 1 .. Cardinality(K) : Ascending(K)[i] = Ascending(K)[j] => i = j
         /\ \A x \in K : \E i \in 1 .. Cardinality(K) : Ascending(K)[i] = x
         /\ Cardinality(K) \in Nat
<1> DEFINE D == 1 .. Cardinality(K)
           s == Ascending(K)
<1>1. Cardinality(K) \in Nat
  BY FS_CardinalityType
<1>2. s \in [D -> K] /\ \A i, j \in DOMAIN s : i < j => s[i] < s[j]
  <2>1. \E q \in [D -> K] : \A i, j \in DOMAIN q : i < j => q[i] < q[j]
    BY IncreasingExists DEF Increasing
  <2> QED
    BY <2>1, Zenon DEF Ascending
<1> HIDE DEF s
<1>3. ASSUME NEW i \in D, NEW j \in D, s[i] = s[j] PROVE i = j
  <2>1. DOMAIN s = D /\ s[i] \in Nat /\ s[j] \in Nat
    BY <1>2
  <2>2. ~(i < j) /\ ~(j < i)
    BY <1>2, <1>3, <2>1
  <2> QED
    BY <1>1, <2>2
<1>4. s \in Injection(D, K)
  BY <1>2, <1>3 DEF Injection, IsInjective
<1>5. IsFiniteSet(D) /\ Cardinality(D) = Cardinality(K)
  BY <1>1, FS_Interval
<1> HIDE DEF D
<1>6. s \in Surjection(D, K)
  BY <1>4, <1>5, FS_Injection
<1>7. \A x \in K : \E i \in D : s[i] = x
  BY <1>6 DEF Surjection
<1> QED
  BY <1>1, <1>2, <1>3, <1>7 DEF s, D

Places(n, h, x) == {i \in 1 .. n : h[i] = x}

(* The features q are those of the keys a[1 .. m], each with its number of    *)
(* places among 1 .. n.                                                       *)
CountsPlaces(n, h, m, a, q) ==
  /\ n \in Nat /\ m \in Nat
  /\ \A i, j \in 1 .. m : a[i] = a[j] => i = j
  /\ \A i \in 1 .. n : \E j \in 1 .. m : a[j] = h[i]
  /\ DOMAIN q = 1 .. m
  /\ \A j \in 1 .. m : q[j][2] = Cardinality(Places(n, h, a[j]))

LEMMA UpTo ==
  ASSUME NEW n \in Nat
  PROVE  IsFiniteSet(1 .. n) /\ Cardinality(1 .. n) = n
BY FS_Interval

LEMMA CountsAddUp ==
  ASSUME NEW n, NEW h, NEW m, NEW a, NEW q, CountsPlaces(n, h, m, a, q)
  PROVE  CountSum(q) = n
<1> DEFINE D == 1 .. m
           N == 1 .. n
           Of(s) == {i \in N : \E j \in s : h[i] = a[j]}
           chosen(s) == CHOOSE x \in s : TRUE
           IsSum(f) == f = [s \in SUBSET D |->
                              IF s = {} THEN 0
                              ELSE LET x == chosen(s) IN q[x][2] + f[s \ {x}]]
           g == [s \in SUBSET D |-> Cardinality(Of(s))]
<1>1. /\ n \in Nat /\ m \in Nat /\ IsFiniteSet(N) /\ Cardinality(N) = n
      /\ DOMAIN q = D
      /\ \A i, j \in D : a[i] = a[j] => i = j
      /\ \A i \in N : \E j \in D : a[j] = h[i]
      /\ \A j \in D : q[j][2] = Cardinality(Places(n, h, a[j]))
  BY UpTo DEF CountsPlaces
<1>2. \A s : IsFiniteSet(Of(s)) /\ Cardinality(Of(s)) \in Nat
  <2> TAKE s
  <2>1. Of(s) \in SUBSET N
    OBVIOUS
  <2> HIDE DEF Of, N
  <2> QED
    BY <1>1, <2>1, FS_Subset, FS_CardinalityType
<1>3. ASSUME NEW s \in SUBSET D, NEW x \in s
      PROVE  /\ Cardinality(Of(s)) = q[x][2] + Cardinality(Of(s \ {x}))
             /\ q[x][2] \in Nat
  <2>1. Of(s) = Of({x}) \union Of(s \ {x})
    <3>1. \A i : i \in Of(s) <=> i \in Of({x}) \/ i \in Of(s \ {x})
      OBVIOUS
    <3> HIDE DEF Of
    <3> QED
      BY <3>1
  <2>2. Of({x}) \cap Of(s \ {x}) = {}
    <3>1. ASSUME NEW i \in Of({x}), i \in Of(s \ {x}) PROVE FALSE
      <4>1. PICK j \in s \ {x} : h[i] = a[j]
        BY <3>1
      <4>2. h[i] = a[x] /\ j \in D /\ x \in D
        BY <4>1
      <4>3. a[j] = a[x]
        BY <4>1, <4>2
      <4>4. j = x
        BY <1>1, <4>2, <4>3
      <4> QED
        BY <4>1, <4>4
    <3> HIDE DEF Of
    <3> QED
      BY <3>1
  <2>3. q[x][2] = Cardinality(Of({x}))
    <3>1. Places(n, h, a[x]) = Of({x})
      BY DEF Places
    <3>2. x \in D
      OBVIOUS
    <3> HIDE DEF D, Of
    <3> QED
      BY <1>1, <3>1, <3>2
  <2> HIDE DEF Of
  <2> DEFINE A == Of({x})
             B == Of(s \ {x})
  <2>4. IsFiniteSet(A) /\ IsFiniteSet(B) /\ A \cap B = {}
    BY <1>2, <2>2
  <2> HIDE DEF A, B
  <2>5. Cardinality(A \union B) = Cardinality(A) + Cardinality(B) - Cardinality(A \cap B)
    BY <2>4, FS_Union
  <2>6. Cardinality(A \union B) = Cardinality(A) + Cardinality(B) - 0
    BY <2>4, <2>5, FS_EmptySet
  <2> USE DEF A, B
  <2> QED
    BY <1>2, <2>1, <2>3, <2>6
<1>4. Of({}) = {} /\ Cardinality(Of({})) = 0
  BY FS_EmptySet
<1> HIDE DEF Of
<1>5. IsSum(g)
  <2>1. ASSUME NEW s \in SUBSET D
        PROVE  g[s] = IF s = {} THEN 0
                      ELSE LET x == chosen(s) IN q[x][2] + g[s \ {x}]
    <3>1. CASE s = {}
      BY <1>4, <3>1
    <3>2. CASE s # {}
      <4>1. chosen(s) \in s
        BY <3>2
      <4> DEFINE y == chosen(s)
      <4> HIDE DEF chosen
      <4>2. g[s \ {y}] = Cardinality(Of(s \ {y}))
        OBVIOUS
      <4>3. g[s] = q[y][2] + g[s \ {y}]
        BY <1>3, <4>1, <4>2
      <4> QED
        BY <3>2, <4>3
    <3> QED
      BY <3>1, <3>2
  <2> QED
    BY <2>1, Zenon
<1> DEFINE f == CHOOSE f : IsSum(f)
<1>6. IsSum(f)
  <2> HIDE DEF IsSum, g
  <2> QED
    BY <1>5
<1>7. CountSum(q) = f[D]
  <2>1. DOMAIN q = D
    BY <1>1
  <2> QED
    BY <2>1, Zenon DEF CountSum, FoldSeq, FoldFunction, FoldFunctionOnSet, MapThenFoldSet
<1>8. \A s \in SUBSET D : f[s] = IF s = {} THEN 0
                                ELSE LET x == chosen(s) IN q[x][2] + f[s \ {x}]
  <2> HIDE DEF f, chosen
  <2> QED
    BY <1>6, Zenon
<1> HIDE DEF f
<1> DEFINE T == {k \in Nat : \A s \in SUBSET D : Cardinality(s) = k => f[s] = g[s]}
<1>9. \A s \in SUBSET D : IsFiniteSet(s)
  <2>1. IsFiniteSet(D)
    BY <1>1, UpTo
  <2> HIDE DEF D
  <2> QED
    BY <2>1, FS_Subset
<1>10. 0 \in T
  <2> SUFFICES ASSUME NEW s \in SUBSET D, Cardinality(s) = 0 PROVE f[s] = g[s]
    OBVIOUS
  <2>1. s = {}
    BY <1>9, FS_EmptySet
  <2> QED
    BY <1>4, <1>8, <2>1
<1>11. ASSUME NEW k \in T PROVE k + 1 \in T
  <2>1. k \in Nat
    BY <1>11
  <2> SUFFICES ASSUME NEW s \in SUBSET D, Cardinality(s) = k + 1 PROVE f[s] = g[s]
    <3> HIDE DEF g, D
    <3> QED
      BY <2>1
  <2>2. s # {} /\ IsFiniteSet(s)
    BY <1>9, <2>1, FS_EmptySet
  <2> DEFINE y == chosen(s)
             r == s \ {y}
  <2>3. y \in s
    BY <2>2
  <2>4. f[s] = q[y][2] + f[r]
    <3> HIDE DEF chosen
    <3> QED
      BY <1>8, <2>2
  <2> HIDE DEF y
  <2>5. r \in SUBSET D /\ Cardinality(r) = k
    <3>1. r \in SUBSET D
      OBVIOUS
    <3> HIDE DEF D
    <3>2. Cardinality(r) = Cardinality(s) - 1
      BY <2>2, <2>3, FS_RemoveElement
    <3> QED
      BY <2>1, <3>1, <3>2
  <2>6. f[r] = g[r]
    BY <1>11, <2>5
  <2>7. g[s] = q[y][2] + g[r]
    BY <1>3, <2>3
  <2> QED
    BY <2>4, <2>6, <2>7
<1>12. T = Nat
  <2> HIDE DEF T
  <2>1. T \subseteq Nat
    BY DEF T
  <2> QED
    BY <1>10, <1>11, <2>1, U!SetInduction
<1>13. D \in SUBSET D /\ Cardinality(D) \in Nat
  BY <1>9, FS_CardinalityType
<1>14. f[D] = g[D]
  <2> HIDE DEF D, g
  <2> QED
    BY <1>12, <1>13
<1>15. Of(D) = N
  BY <1>1 DEF Of
<1> QED
  BY <1>1, <1>7, <1>14, <1>15

LEMMA FlattenSame == \A q : U!FlattenSeq(q) = FlattenSeq(q)
BY DEF FlattenSeq, U!FlattenSeq

Lab == IF HasLabels THEN 1 ELSE 0

(* Where the words of a sample are: its label, if it has one, the number of   *)
(* its features and the features.                                             *)
LEMMA SampleLayout ==
  ASSUME NEW V, Nat \subseteq V, NEW r \in [label : V, feats : Seq(V \X V)]
  PROVE  /\ SampleWords(r) \in Seq(V) /\ Len(r.feats) \in Nat
         /\ Len(SampleWords(r)) = Lab + 1 + 2 * Len(r.feats)
         /\ HasLabels => SampleWords(r)[1] = r.label
         /\ SampleWords(r)[Lab + 1] = Len(r.feats)
         /\ \A j \in 1 .. Len(r.feats) :
              /\ SampleWords(r)[Lab + 2 * j] = r.feats[j][1]
              /\ SampleWords(r)[Lab + 2 * j + 1] = r.feats[j][2]
<1> DEFINE n == Len(r.feats)
           F == FlattenSeq(r.feats)
           w == SampleWords(r)
<1>1. n \in Nat /\ n \in V /\ r.label \in V
  OBVIOUS
<1>2. ASSUME NEW i \in 1 .. n
      PROVE  r.feats[i] \in Seq(V) /\ Len(r.feats[i]) = 2
  <2>1. r.feats[i] \in V \X V
    OBVIOUS
  <2>2. PICK a \in V, b \in V : r.feats[i] = <<a, b>>
    BY <2>1
  <2> QED
    BY <2>2
<1>3. r.feats \in Seq(Seq(V))
  <2>1. r.feats \in [1 .. n -> Seq(V)]
    BY <1>2
  <2> HIDE DEF n
  <2> QED
    BY <1>1, <2>1
<1>4. /\ F \in Seq(V) /\ Len(F) = 2 * n
      /\ \A i \in 1 .. n : \A j \in 1 .. 2 :
           2 * (i - 1) + j \in 1 .. Len(F) /\ F[2 * (i - 1) + j] = r.feats[i][j]
  <2> DEFINE q == r.feats
  <2>1. q \in Seq(Seq(V)) /\ Len(q) = n /\ \A i \in 1 .. Len(q) : Len(q[i]) = 2
    BY <1>2, <1>3
  <2> HIDE DEF q, n
  <2>2. 2 \in Nat
    OBVIOUS
  <2>3. /\ FlattenSeq(q) \in Seq(V) /\ Len(FlattenSeq(q)) = 2 * Len(q)
        /\ \A i \in 1 .. Len(q) : \A j \in 1 .. 2 :
             /\ 2 * (i - 1) + j \in 1 .. Len(FlattenSeq(q))
             /\ FlattenSeq(q)[2 * (i - 1) + j] = q[i][j]
    <3>1. /\ U!FlattenSeq(q) \in Seq(V) /\ Len(U!FlattenSeq(q)) = 2 * Len(q)
          /\ \A i \in 1 .. Len(q) : \A j \in 1 .. 2 :
               /\ 2 * (i - 1) + j \in 1 .. Len(U!FlattenSeq(q))
               /\ U!FlattenSeq(q)[2 * (i - 1) + j] = q[i][j]
      BY <2>1, <2>2, U!FlattenBlocks, ZenonT(60)
    <3> QED
      BY <3>1, FlattenSame
  <2> QED
    BY <2>1, <2>3 DEF q
<1>5. ASSUME NEW j \in 1 .. n
      PROVE  /\ 2 * j - 1 \in 1 .. Len(F) /\ F[2 * j - 1] = r.feats[j][1]
             /\ 2 * j \in 1 .. Len(F) /\ F[2 * j] = r.feats[j][2]
  <2>1. 2 * (j - 1) + 1 = 2 * j - 1 /\ 2 * (j - 1) + 2 = 2 * j /\ 1 \in 1 .. 2 /\ 2 \in 1 .. 2
    BY <1>1
  <2> HIDE DEF F, n
  <2> QED
    BY <1>4, <2>1
<1> DEFINE label == IF HasLabels THEN <<r.label>> ELSE <<>>
           head == label \o <<n>>
<1>6. /\ label \in Seq(V) /\ Len(label) = Lab /\ Lab \in {0, 1}
      /\ HasLabels => Lab = 1 /\ label[1] = r.label
  BY <1>1 DEF Lab
<1>7. w = head \o F
  BY DEF SampleWords
<1> HIDE DEF label, n
<1>11. /\ head \in Seq(V) /\ Len(head) = Lab + 1 /\ head[Lab + 1] = n
       /\ HasLabels => head[1] = label[1]
  BY <1>1, <1>6
<1> HIDE DEF head, F, n
<1>8. /\ w \in Seq(V) /\ Len(w) = Lab + 1 + 2 * n
      /\ \A i \in 1 .. (Lab + 1) : w[i] = head[i]
      /\ \A i \in 1 .. Len(F) : w[Len(head) + i] = F[i]
  <2> HIDE DEF head, F
  <2>1. head \in Seq(V) /\ F \in Seq(V)
    BY <1>4, <1>11
  <2>2. /\ w \in Seq(V) /\ Len(w) = Len(head) + Len(F)
        /\ \A i \in 1 .. Len(head) : w[i] = head[i]
        /\ \A i \in 1 .. Len(F) : w[Len(head) + i] = F[i]
    BY <1>7, <2>1, ConcatAt
  <2> QED
    BY <1>4, <1>11, <2>2
<1>9. ASSUME NEW j \in 1 .. n
      PROVE  w[Lab + 2 * j] = r.feats[j][1] /\ w[Lab + 2 * j + 1] = r.feats[j][2]
  <2>1. /\ Len(head) + (2 * j - 1) = Lab + 2 * j
        /\ Len(head) + 2 * j = Lab + 2 * j + 1
    BY <1>1, <1>6, <1>11
  <2>2. w[Len(head) + (2 * j - 1)] = F[2 * j - 1] /\ w[Len(head) + 2 * j] = F[2 * j]
    BY <1>5, <1>8, Zenon
  <2> QED
    BY <1>5, <2>1, <2>2
<1>10. w[Lab + 1] = n /\ (HasLabels => w[1] = r.label)
  <2>1. Lab + 1 \in 1 .. (Lab + 1) /\ 1 \in 1 .. (Lab + 1)
    BY <1>6
  <2> QED
    BY <1>6, <1>8, <1>11, <2>1
<1> QED
  BY <1>1, <1>8, <1>9, <1>10 DEF n

(* What the constructor of SparseDataset goes by. *)
IsStart(f, words) ==
  f = [i \in 0 .. words[2] |->
         IF i = 0 THEN 3 ELSE f[i - 1] + Lab + 1 + 2 * words[f[i - 1] + Lab]]

LEMMA ObjectDecodes ==
  ASSUME NEW V, Nat \subseteq V, NEW rows \in Seq([label : V, feats : Seq(V \X V)]),
         HasLabels \/ \A i \in 1 .. Len(rows) : rows[i].label = 0,
         NEW body, body = FlattenSeq([i \in 1 .. Len(rows) |-> SampleWords(rows[i])]),
         NEW words, words = <<4 * (2 + Len(body)), Len(rows)>> \o body
  PROVE  SparseDataset(words) = rows /\ words[1] = 4 * Len(words)
<1> DEFINE n == Len(rows)
           R == [label : V, feats : Seq(V \X V)]
           seqs == [i \in 1 .. n |-> SampleWords(rows[i])]
<1>0. Lab \in Nat
  BY DEF Lab
<1>1. n \in Nat /\ \A i \in 1 .. n : rows[i] \in R
  <2>1. rows \in Seq(R)
    OBVIOUS
  <2> HIDE DEF R
  <2> QED
    BY <2>1
<1>2. /\ Lab \in {0, 1} /\ HasLabels => Lab = 1
      /\ \A i \in 1 .. n :
           /\ SampleWords(rows[i]) \in Seq(V) /\ Len(rows[i].feats) \in Nat
           /\ Len(SampleWords(rows[i])) = Lab + 1 + 2 * Len(rows[i].feats)
           /\ HasLabels => SampleWords(rows[i])[1] = rows[i].label
           /\ SampleWords(rows[i])[Lab + 1] = Len(rows[i].feats)
           /\ \A j \in 1 .. Len(rows[i].feats) :
                /\ SampleWords(rows[i])[Lab + 2 * j] = rows[i].feats[j][1]
                /\ SampleWords(rows[i])[Lab + 2 * j + 1] = rows[i].feats[j][2]
  <2> HIDE DEF n
  <2> QED
    BY <1>1, SampleLayout DEF Lab
<1> HIDE DEF R
<1>3. /\ seqs \in Seq(Seq(V)) /\ Len(seqs) = n
      /\ \A i \in 1 .. n : seqs[i] = SampleWords(rows[i])
  BY <1>1, <1>2
<1>4. body = FlattenSeq(seqs)
  OBVIOUS
<1> HIDE DEF seqs
<1>5. PICK P : U!IsPlaces(P, seqs, Len(seqs)) /\ P \in [0 .. Len(seqs) -> Nat]
  BY <1>3, U!PlacesExist
<1>6. body \in Seq(V) /\ U!Joins(body, P, seqs, Len(seqs))
  <2>1. /\ U!FlattenSeq(seqs) \in Seq(V)
        /\ U!Joins(U!FlattenSeq(seqs), P, seqs, Len(seqs))
    BY <1>3, <1>5, U!FlattenJoins
  <2> QED
    BY <1>4, <2>1, FlattenSame
<1>7. /\ P[0] = 0 /\ \A i \in 0 .. n : P[i] \in Nat
      /\ \A i \in 1 .. n : P[i] = P[i - 1] + (Lab + 1 + 2 * Len(rows[i].feats))
  <2> HIDE DEF n
  <2>1. P[0] = 0 /\ \A i \in 1 .. n : P[i] = P[i - 1] + Len(seqs[i])
    BY <1>3, <1>5 DEF U!IsPlaces
  <2>2. \A i \in 0 .. n : P[i] \in Nat
    BY <1>3, <1>5
  <2>3. \A i \in 1 .. n : Len(seqs[i]) = Lab + 1 + 2 * Len(rows[i].feats)
    BY <1>2, <1>3
  <2> QED
    BY <2>1, <2>2, <2>3
<1>8. \A i \in 1 .. n : \A j \in 1 .. Len(seqs[i]) :
        P[i - 1] + j \in 1 .. Len(body) /\ body[P[i - 1] + j] = seqs[i][j]
  BY <1>3, <1>6 DEF U!Joins
<1>9. /\ words[1] = 4 * Len(words) /\ words[2] = n
      /\ \A k \in 1 .. Len(body) : words[2 + k] = body[k]
  <2> DEFINE S == V \union {4 * (2 + Len(body))}
  <2>1. body \in Seq(S) /\ 4 * (2 + Len(body)) \in S /\ n \in S /\ Len(body) \in Nat
    BY <1>1, <1>6
  <2> HIDE DEF S
  <2>2. /\ Len(words) = 2 + Len(body)
        /\ words[1] = 4 * (2 + Len(body)) /\ words[2] = n
        /\ \A k \in 1 .. Len(body) : words[2 + k] = body[k]
    <3> HIDE DEF n
    <3> DEFINE size == 4 * (2 + Len(body))
    <3>1. size \in S /\ words = <<size, n>> \o body
      BY <2>1 DEF n
    <3> HIDE DEF size
    <3>2. Len(<<size, n>> \o body) = 2 + Len(body)
      BY <2>1, <3>1
    <3>3. (<<size, n>> \o body)[1] = size /\ (<<size, n>> \o body)[2] = n
      BY <2>1, <3>1
    <3>4. \A k \in 1 .. Len(body) : (<<size, n>> \o body)[2 + k] = body[k]
      BY <2>1, <3>1
    <3>5. /\ Len(words) = 2 + Len(body) /\ words[1] = size /\ words[2] = n
          /\ \A k \in 1 .. Len(body) : words[2 + k] = body[k]
      BY <3>1, <3>2, <3>3, <3>4, Zenon
    <3> QED
      BY <3>5 DEF size
  <2> QED
    BY <2>1, <2>2
<1>10. ASSUME NEW i \in 1 .. n
       PROVE  /\ HasLabels => words[3 + P[i - 1]] = rows[i].label
              /\ words[3 + P[i - 1] + Lab] = Len(rows[i].feats)
              /\ \A j \in 1 .. Len(rows[i].feats) :
                   /\ words[3 + P[i - 1] + Lab + 2 * j - 1] = rows[i].feats[j][1]
                   /\ words[3 + P[i - 1] + Lab + 2 * j] = rows[i].feats[j][2]
  <2> DEFINE m == Len(rows[i].feats)
             p == P[i - 1]
             w == SampleWords(rows[i])
  <2>1. i - 1 \in 0 .. n /\ p \in Nat /\ m \in Nat
    BY <1>1, <1>2, <1>7
  <2>2. Len(w) = Lab + 1 + 2 * m /\ w = seqs[i]
    BY <1>2, <1>3
  <2>3. \A j \in 1 .. (Lab + 1 + 2 * m) : words[2 + (p + j)] = w[j]
    <3>1. \A j \in 1 .. (Lab + 1 + 2 * m) : p + j \in 1 .. Len(body) /\ body[p + j] = w[j]
      BY <1>8, <2>2
    <3> HIDE DEF p, w, m
    <3>2. \A k \in 1 .. Len(body) : words[2 + k] = body[k]
      BY <1>9
    <3> QED
      BY <3>1, <3>2
  <2> HIDE DEF p
  <2>4. ASSUME NEW j \in 1 .. (Lab + 1 + 2 * m), NEW k, k = 2 + (p + j)
        PROVE  words[k] = w[j]
    BY <2>3, <2>4
  <2> HIDE DEF m, w
  <2>5. words[3 + p + Lab] = w[Lab + 1]
    <3>1. Lab + 1 \in 1 .. (Lab + 1 + 2 * m) /\ 3 + p + Lab = 2 + (p + (Lab + 1))
      BY <1>0, <2>1
    <3> QED
      BY <2>4, <3>1
  <2>6. words[3 + p] = w[1]
    <3>1. 1 \in 1 .. (Lab + 1 + 2 * m) /\ 3 + p = 2 + (p + 1)
      BY <1>0, <2>1
    <3> QED
      BY <2>4, <3>1
  <2>7. ASSUME NEW j \in 1 .. m
        PROVE  /\ words[3 + p + Lab + 2 * j - 1] = w[Lab + 2 * j]
               /\ words[3 + p + Lab + 2 * j] = w[Lab + 2 * j + 1]
    <3>1. /\ Lab + 2 * j \in 1 .. (Lab + 1 + 2 * m)
          /\ Lab + 2 * j + 1 \in 1 .. (Lab + 1 + 2 * m)
      BY <1>0, <2>1
    <3>2. /\ 3 + p + Lab + 2 * j - 1 = 2 + (p + (Lab + 2 * j))
          /\ 3 + p + Lab + 2 * j = 2 + (p + (Lab + 2 * j + 1))
      BY <1>0, <2>1
    <3> QED
      BY <2>4, <3>1, <3>2
  <2> QED
    BY <1>2, <2>5, <2>6, <2>7 DEF m, w, p
<1> HIDE DEF n
<1> DEFINE g == [i \in 0 .. n |-> 3 + P[i]]
           f == CHOOSE f : IsStart(f, words)
<1>11. IsStart(g, words)
  <2>1. ASSUME NEW i \in 0 .. n
        PROVE  g[i] = IF i = 0 THEN 3 ELSE g[i - 1] + Lab + 1 + 2 * words[g[i - 1] + Lab]
    <3>1. CASE i = 0
      BY <1>7, <3>1
    <3>2. CASE i # 0
      <4>1. i \in 1 .. n /\ i - 1 \in 0 .. n
        BY <1>1, <3>2
      <4>2. g[i - 1] = 3 + P[i - 1] /\ g[i] = 3 + P[i]
        BY <4>1
      <4>3. words[3 + P[i - 1] + Lab] = Len(rows[i].feats)
        BY <1>10, <4>1
      <4>4. P[i] = P[i - 1] + (Lab + 1 + 2 * Len(rows[i].feats))
        BY <1>7, <4>1
      <4>5. P[i - 1] \in Nat /\ Len(rows[i].feats) \in Nat
        BY <1>2, <1>7, <4>1
      <4>6. g[i] = g[i - 1] + Lab + 1 + 2 * Len(rows[i].feats)
        <5> DEFINE m == Len(rows[i].feats)
        <5> HIDE DEF g, m
        <5>1. g[i - 1] = 3 + P[i - 1] /\ g[i] = 3 + (P[i - 1] + (Lab + 1 + 2 * m))
              /\ P[i - 1] \in Nat /\ m \in Nat
          BY <4>2, <4>4, <4>5 DEF m
        <5>2. g[i] = g[i - 1] + Lab + 1 + 2 * m
          BY <1>0, <5>1
        <5> QED
          BY <5>2 DEF m
      <4> HIDE DEF g
      <4> QED
        BY <3>2, <4>2, <4>3, <4>6
    <3> QED
      BY <3>1, <3>2
  <2>2. words[2] = n
    BY <1>9
  <2> QED
    BY <2>1, <2>2, ZenonT(40) DEF IsStart
<1>12. IsStart(f, words)
  <2> HIDE DEF g
  <2> QED
    BY <1>11
<1>13. SparseDataset(words) =
         [i \in 1 .. words[2] |->
            Row(IF HasLabels THEN words[f[i - 1]] ELSE 0,
                [j \in 1 .. words[f[i - 1] + Lab] |->
                   <<words[f[i - 1] + Lab + 2 * j - 1], words[f[i - 1] + Lab + 2 * j]>>])]
  BY Zenon DEF SparseDataset, IsStart, Lab
<1> HIDE DEF f
<1>14. \A i \in 0 .. n : f[i] = IF i = 0 THEN 3
                               ELSE f[i - 1] + Lab + 1 + 2 * words[f[i - 1] + Lab]
  BY <1>9, <1>12, Zenon DEF IsStart
<1> DEFINE T == {k \in Nat : k <= n => f[k] = 3 + P[k]}
<1>15. 0 \in T
  <2>1. 0 \in 0 .. n
    BY <1>1
  <2>2. f[0] = 3 /\ P[0] = 0
    BY <1>7, <1>14, <2>1
  <2> QED
    BY <2>2
<1>16. ASSUME NEW k \in T PROVE k + 1 \in T
  <2>1. k \in Nat
    BY <1>16
  <2> SUFFICES ASSUME k + 1 <= n PROVE f[k + 1] = 3 + P[k + 1]
    BY <2>1
  <2>2. k <= n /\ k + 1 \in 1 .. n /\ k + 1 \in 0 .. n /\ k + 1 # 0 /\ (k + 1) - 1 = k
        /\ k \in 0 .. n
    BY <1>1, <2>1
  <2>3. f[k] = 3 + P[k]
    BY <1>16, <2>2
  <2>4. f[k + 1] = f[k] + Lab + 1 + 2 * words[f[k] + Lab]
    BY <1>14, <2>2
  <2>5. words[3 + P[k] + Lab] = Len(rows[k + 1].feats)
    BY <1>10, <2>2
  <2>6. P[k + 1] = P[k] + (Lab + 1 + 2 * Len(rows[k + 1].feats))
    BY <1>7, <2>2
  <2>7. P[k] \in Nat /\ Len(rows[k + 1].feats) \in Nat
    BY <1>2, <1>7, <2>2
  <2> DEFINE m == Len(rows[k + 1].feats)
  <2> HIDE DEF m
  <2>8. /\ f[k + 1] = (3 + P[k]) + Lab + 1 + 2 * m /\ P[k + 1] = P[k] + (Lab + 1 + 2 * m)
        /\ P[k] \in Nat /\ m \in Nat
    BY <2>3, <2>4, <2>5, <2>6, <2>7 DEF m
  <2> QED
    BY <1>0, <2>8
<1>17. T = Nat
  <2> HIDE DEF T
  <2>1. T \subseteq Nat
    BY DEF T
  <2> QED
    BY <1>15, <1>16, <2>1, U!SetInduction
<1>18. \A k \in 0 .. n : f[k] = 3 + P[k]
  BY <1>1, <1>17
<1>19. ASSUME NEW i \in 1 .. n
       PROVE  rows[i] = Row(IF HasLabels THEN words[f[i - 1]] ELSE 0,
                [j \in 1 .. words[f[i - 1] + Lab] |->
                   <<words[f[i - 1] + Lab + 2 * j - 1], words[f[i - 1] + Lab + 2 * j]>>])
  <2> DEFINE m == Len(rows[i].feats)
             v == f[i - 1]
  <2>1. v = 3 + P[i - 1]
    BY <1>1, <1>18
  <2>2. /\ HasLabels => words[v] = rows[i].label
        /\ words[v + Lab] = m
        /\ \A j \in 1 .. m : /\ words[v + Lab + 2 * j - 1] = rows[i].feats[j][1]
                              /\ words[v + Lab + 2 * j] = rows[i].feats[j][2]
    BY <1>10, <2>1
  <2>3. ~HasLabels => rows[i].label = 0
    BY DEF n
  <2>4. /\ rows[i] = [label |-> rows[i].label, feats |-> rows[i].feats]
        /\ rows[i].feats \in Seq(V \X V)
    BY <1>1 DEF R
  <2> HIDE DEF v
  <2>5. rows[i].feats = [j \in 1 .. m |-> <<words[v + Lab + 2 * j - 1], words[v + Lab + 2 * j]>>]
    <3>1. \A j \in 1 .. m : rows[i].feats[j] = <<rows[i].feats[j][1], rows[i].feats[j][2]>>
      BY <2>4
    <3>2. rows[i].feats = [j \in 1 .. m |-> rows[i].feats[j]]
      BY <2>4
    <3>3. \A j \in 1 .. m :
            rows[i].feats[j] = <<words[v + Lab + 2 * j - 1], words[v + Lab + 2 * j]>>
      BY <2>2, <3>1, Zenon
    <3> HIDE DEF m
    <3> QED
      BY <3>2, <3>3, Zenon
  <2>6. rows[i].label = IF HasLabels THEN words[v] ELSE 0
    BY <2>2, <2>3
  <2> HIDE DEF m
  <2>7. rows[i] = Row(IF HasLabels THEN words[v] ELSE 0,
                      [j \in 1 .. words[v + Lab] |->
                         <<words[v + Lab + 2 * j - 1], words[v + Lab + 2 * j]>>])
    BY <2>2, <2>4, <2>5, <2>6, Zenon DEF Row
  <2> QED
    BY <2>7 DEF v
<1>20. rows = [i \in 1 .. n |-> rows[i]]
  BY DEF n
<1> QED
  BY <1>9, <1>13, <1>19, <1>20

(* What a line is parsed into: the columns of its fields, and no field is     *)
(* lost when two of them share a column.                                      *)
LEMMA ParsedLine ==
  ASSUME num["model_bits"] \in Nat, NEW l \in 1 .. Len(Columns)
  PROVE  /\ parse_criteo_kaggle_sparse_line(l) \in Seq(Nat \X Nat)
         /\ CountSum(parse_criteo_kaggle_sparse_line(l))
              = Len(Columns[l].fields) + (IF UseBias THEN 1 ELSE 0)
<1> DEFINE bias == IF UseBias THEN <<BiasHash>> ELSE <<>>
           fields == Columns[l].fields \o bias
           n == Len(fields)
           hash(i) == fields[i] % HashSize
           K == {hash(i) : i \in DOMAIN fields}
           a == Ascending(K)
           m == Cardinality(K)
           count(x) == Cardinality({i \in DOMAIN fields : hash(i) = x})
           q == parse_criteo_kaggle_sparse_line(l)
<1> DEFINE c == Columns[l].fields
<1>16. c \in Seq(Nat) /\ BiasHash \in Nat
  <2> DEFINE R == [label : Int, fields : Seq(Nat)]
  <2>1. Columns \in Seq(R) /\ BiasHash \in Nat
    BY ColumnsAssumption
  <2> HIDE DEF R
  <2>2. Columns[l] \in R
    BY <2>1
  <2> QED
    BY <2>1, <2>2 DEF R
<1>17. bias \in Seq(Nat) /\ Len(bias) = IF UseBias THEN 1 ELSE 0
  BY <1>16
<1>18. bias \in Seq(Nat)
  BY <1>17
<1>19. fields = c \o bias
  OBVIOUS
<1> HIDE DEF bias, c, fields
<1>1. fields \in Seq(Nat) /\ n \in Nat /\ DOMAIN fields = 1 .. n
  BY <1>16, <1>18, <1>19
<1>20. n = Len(c) + Len(bias)
  BY <1>16, <1>18, <1>19
<1>2. HashSize \in Nat \ {0}
  BY PowerPositive DEF HashSize
<1>3. \A i \in 1 .. n : hash(i) \in Nat
  <2>1. \A i \in 1 .. n : fields[i] \in Nat
    BY <1>1
  <2> QED
    BY <1>2, <2>1, Remainder
<1>4. q = [j \in 1 .. m |-> <<a[j], count(a[j])>>]
  BY Zenon DEF parse_criteo_kaggle_sparse_line, MapToPairs, fields, bias, c
<1>5. IsFiniteSet(1 .. n) /\ Cardinality(1 .. n) = n
  <2>1. n \in Nat
    BY <1>1
  <2> HIDE DEF n
  <2> QED
    BY <2>1, UpTo
<1> DEFINE h == [i \in 1 .. n |-> hash(i)]
<1>6. K \in SUBSET Nat /\ K = {h[i] : i \in 1 .. n}
  BY <1>1, <1>3
<1>7. h \in Surjection(1 .. n, K)
  <2> HIDE DEF n, hash
  <2> QED
    BY <1>6 DEF Surjection
<1> HIDE DEF q, h, K, a, n, hash
<1>8. IsFiniteSet(K)
  BY <1>5, <1>7, FS_Surjection
<1>9. /\ a \in [1 .. m -> K] /\ m \in Nat
      /\ \A i, j \in 1 .. m : a[i] = a[j] => i = j
      /\ \A x \in K : \E i \in 1 .. m : a[i] = x
  BY <1>6, <1>8, AscendingKeys DEF a
<1>10. \A i \in 1 .. n : h[i] = hash(i) /\ h[i] \in K
  BY <1>6 DEF h
<1>11. \A x : count(x) = Cardinality({i \in 1 .. n : h[i] = x}) /\ count(x) \in Nat
  <2> TAKE x
  <2>1. {i \in DOMAIN fields : hash(i) = x} = {i \in 1 .. n : h[i] = x}
    BY <1>1, <1>10
  <2>2. {i \in 1 .. n : h[i] = x} \in SUBSET (1 .. n)
    OBVIOUS
  <2>3. Cardinality({i \in 1 .. n : h[i] = x}) \in Nat
    BY <1>5, <2>2, FS_Subset, FS_CardinalityType
  <2> QED
    BY <2>1, <2>3
<1> HIDE DEF m, count
<1>12. q \in Seq(Nat \X Nat)
  <2>1. \A j \in 1 .. m : a[j] \in Nat /\ count(a[j]) \in Nat
    BY <1>6, <1>9, <1>11
  <2>2. q \in [1 .. m -> Nat \X Nat]
    BY <1>4, <2>1
  <2> QED
    BY <1>9, <2>2
<1>13. /\ DOMAIN q = 1 .. m
       /\ \A j \in 1 .. m : q[j][2] = Cardinality(Places(n, h, a[j]))
  BY <1>4, <1>11 DEF Places
<1>14. \A i \in 1 .. n : \E j \in 1 .. m : a[j] = h[i]
  BY <1>9, <1>10
<1>15. CountSum(q) = n
  <2>1. CountsPlaces(n, h, m, a, q)
    BY <1>1, <1>9, <1>13, <1>14 DEF CountsPlaces
  <2> QED
    BY <2>1, CountsAddUp
<1>21. q \in Seq(Nat \X Nat) /\ CountSum(q) = Len(c) + (IF UseBias THEN 1 ELSE 0)
  BY <1>12, <1>15, <1>17, <1>20
<1> QED
  BY <1>21, Zenon DEF q, c

-----------------------------------------------------------------------------
(* The data set and the bucket.                                               *)

RowsOf(V) == Seq([label : V, feats : Seq(V \X V)])

LEMMA NormalizedRows ==
  ASSUME NEW V, Nat \subseteq V, NEW rows \in RowsOf(V)
  PROVE  \E W : Nat \subseteq W /\ normalize(rows) \in RowsOf(W)
<1> DEFINE feats == UNION {ToSet(r.feats) : r \in ToSet(rows)}
           column == [c \in {f[1] : f \in feats} |-> {f[2] : f \in {g \in feats : g[1] = c}}]
           lo == [c \in DOMAIN column |-> Min(column[c])]
           hi == [c \in DOMAIN column |-> Max(column[c] \union {0})]
           scaled(f) == IF hi[f[1]] = lo[f[1]] THEN <<f[1], <<f[2], 1>>>>
                        ELSE <<f[1], <<f[2] - lo[f[1]], hi[f[1]] - lo[f[1]]>>>>
           n == Len(rows)
           W == V \union {scaled(f)[2] : f \in V \X V}
           q == normalize(rows)
<1>1. q = [i \in 1 .. n |->
             Row(rows[i].label, [j \in 1 .. Len(rows[i].feats) |-> scaled(rows[i].feats[j])])]
  BY Zenon DEF normalize
<1>2. \A f : scaled(f) = <<f[1], scaled(f)[2]>>
  <2> HIDE DEF lo, hi
  <2> QED
    OBVIOUS
<1> HIDE DEF scaled, q
<1>3. ASSUME NEW f \in V \X V PROVE scaled(f) \in W \X W
  <2>1. f[1] \in W /\ scaled(f)[2] \in W
    OBVIOUS
  <2> HIDE DEF W
  <2> QED
    BY <1>2, <2>1
<1>4. n \in Nat /\ \A i \in 1 .. n : rows[i] \in [label : V, feats : Seq(V \X V)]
  <2> DEFINE R == [label : V, feats : Seq(V \X V)]
  <2>1. rows \in Seq(R)
    BY DEF RowsOf
  <2> HIDE DEF R
  <2>2. n \in Nat /\ \A i \in 1 .. n : rows[i] \in R
    BY <2>1
  <2> QED
    BY <2>2 DEF R
<1> HIDE DEF n
<1>5. ASSUME NEW i \in 1 .. n
      PROVE  Row(rows[i].label, [j \in 1 .. Len(rows[i].feats) |-> scaled(rows[i].feats[j])])
               \in [label : W, feats : Seq(W \X W)]
  <2> DEFINE fs == rows[i].feats
             m == Len(fs)
             s == [j \in 1 .. m |-> scaled(fs[j])]
  <2>1. fs \in Seq(V \X V) /\ rows[i].label \in W
    BY <1>4
  <2> HIDE DEF fs
  <2>2. m \in Nat /\ \A j \in 1 .. m : fs[j] \in V \X V
    BY <2>1
  <2> HIDE DEF m, W
  <2>3. s \in [1 .. m -> W \X W]
    BY <1>3, <2>2
  <2> HIDE DEF s
  <2>4. s \in Seq(W \X W)
    BY <2>2, <2>3
  <2>5. Row(rows[i].label, s) \in [label : W, feats : Seq(W \X W)]
    BY <2>1, <2>4 DEF Row
  <2> QED
    BY <2>5 DEF s, m, fs
<1>6. q \in RowsOf(W)
  <2> DEFINE R == [label : W, feats : Seq(W \X W)]
             row(i) == Row(rows[i].label, [j \in 1 .. Len(rows[i].feats) |-> scaled(rows[i].feats[j])])
  <2>1. q = [i \in 1 .. n |-> row(i)] /\ \A i \in 1 .. n : row(i) \in R
    BY <1>1, <1>5 DEF n
  <2> HIDE DEF R, row, W
  <2>2. q \in [1 .. n -> R]
    BY <2>1
  <2>3. q \in Seq(R)
    BY <1>4, <2>2
  <2> QED
    BY <2>3 DEF RowsOf, R
<1> QED
  BY <1>6 DEF q

LEMMA ColumnLines ==
  ASSUME setup \in Setups, setup.format = "criteo"
  PROVE  \A l \in Lines : l \in 1 .. Len(Columns)
<1>1. setup.n \in Nat /\ setup.n <= Len(Columns)
  BY SetupFacts, ColumnsAssumption
<1>2. Len(Columns) \in Nat
  <2> DEFINE R == [label : Int, fields : Seq(Nat)]
  <2>1. Columns \in Seq(R)
    BY ColumnsAssumption
  <2> HIDE DEF R
  <2> QED
    BY <2>1
<1> QED
  BY <1>1, <1>2 DEF Lines

LEMMA DatasetRead ==
  ASSUME ReaderInv, num["model_bits"] \in Nat, setup.format \in {"criteo", "netflix"}
  PROVE  \E V : /\ Nat \subseteq V /\ read_dataset \in RowsOf(V)
                /\ HasLabels \/ \A i \in 1 .. Len(read_dataset) : read_dataset[i].label = 0
<1>1. CASE setup.format = "netflix"
  <2> DEFINE row(r) == Row(0, [j \in 1 .. Len(sparse_ds[r - 1]) |->
                                 <<Ratings[sparse_ds[r - 1][j]].movie - 1,
                                   Ratings[sparse_ds[r - 1][j]].rating>>])
             V == Nat \union {Ratings[l].movie - 1 : l \in Lines}
                      \union {Ratings[l].rating : l \in Lines}
             R == [label : V, feats : Seq(V \X V)]
             d == read_dataset
  <2>1. d = [r \in 1 .. Rows |-> row(r)]
    BY <1>1 DEF read_dataset
  <2>2. Rows \in Nat /\ \A r \in 1 .. Rows : sparse_ds[r - 1] \in Seq(Lines)
    <3>1. Rows \in Nat /\ sparse_ds \in [0 .. (Rows - 1) -> Seq(Lines)]
      BY ReaderResult, RowsAssumption DEF TypeOK
    <3>2. \A r \in 1 .. Rows : r - 1 \in 0 .. (Rows - 1)
      BY <3>1
    <3> QED
      BY <3>1, <3>2
  <2>3. ASSUME NEW r \in 1 .. Rows PROVE row(r) \in R /\ row(r).label = 0
    <3> DEFINE q == sparse_ds[r - 1]
               n == Len(q)
               fs == [j \in 1 .. n |-> <<Ratings[q[j]].movie - 1, Ratings[q[j]].rating>>]
    <3>1. q \in Seq(Lines)
      BY <2>2
    <3> HIDE DEF q
    <3>2. n \in Nat /\ \A j \in 1 .. n : q[j] \in Lines
      BY <3>1
    <3> HIDE DEF n
    <3>3. ASSUME NEW j \in 1 .. n
          PROVE  Ratings[q[j]].movie - 1 \in V /\ Ratings[q[j]].rating \in V
      BY <3>2
    <3> HIDE DEF V
    <3>4. fs \in [1 .. n -> V \X V]
      BY <3>3
    <3> HIDE DEF fs
    <3>5. fs \in Seq(V \X V)
      BY <3>2, <3>4
    <3>6. 0 \in V
      BY DEF V
    <3>7. Row(0, fs) \in R /\ Row(0, fs).label = 0
      BY <3>5, <3>6 DEF Row
    <3> QED
      BY <3>7 DEF fs, n, q
  <2> HIDE DEF row, R, d
  <2>4. d \in [1 .. Rows -> R]
    BY <2>1, <2>3
  <2>5. d \in Seq(R) /\ Len(d) = Rows
    BY <2>2, <2>4
  <2>6. \A i \in 1 .. Len(d) : d[i].label = 0
    BY <2>1, <2>3, <2>5
  <2>7. Nat \subseteq V
    OBVIOUS
  <2> HIDE DEF V
  <2> QED
    BY <2>5, <2>6, <2>7 DEF RowsOf, R, d
<1>2. CASE setup.format = "criteo"
  <2> DEFINE row(i) == Row(Columns[labels[i]].label, parse_criteo_kaggle_sparse_line(samples[i]))
             n == Len(samples)
             rows == [i \in 1 .. n |-> row(i)]
             V == Nat \union {Columns[labels[i]].label : i \in 1 .. n}
             R == [label : V, feats : Seq(V \X V)]
  <2>1. samples \in Seq(Lines) /\ setup \in Setups
    BY ReaderResult DEF TypeOK
  <2>2. n \in Nat /\ \A i \in 1 .. n : samples[i] \in Lines
    BY <2>1
  <2>3. \A l \in Lines : l \in 1 .. Len(Columns)
    BY <1>2, <2>1, ColumnLines
  <2>4. ASSUME NEW i \in 1 .. n PROVE row(i) \in R
    <3> DEFINE p == parse_criteo_kaggle_sparse_line(samples[i])
               b == Columns[labels[i]].label
    <3>1. p \in Seq(Nat \X Nat)
      BY <2>2, <2>3, ParsedLine
    <3>2. b \in V /\ Nat \subseteq V
      OBVIOUS
    <3> HIDE DEF p, b, V
    <3>3. p \in Seq(V \X V)
      <4>1. Len(p) \in Nat /\ p \in [1 .. Len(p) -> V \X V]
        BY <3>1, <3>2
      <4> QED
        BY <4>1
    <3>4. Row(b, p) \in R
      BY <3>2, <3>3 DEF Row
    <3> QED
      BY <3>4 DEF p, b
  <2>5. Nat \subseteq V
    OBVIOUS
  <2>6. HasLabels
    BY <1>2 DEF HasLabels
  <2>7. read_dataset = IF setup.normalize THEN normalize(rows) ELSE rows
    BY <1>2, Zenon DEF read_dataset
  <2> HIDE DEF row, R, V, n
  <2>8. rows \in [1 .. n -> R]
    BY <2>4
  <2> HIDE DEF rows
  <2>9. rows \in Seq(R)
    BY <2>2, <2>8
  <2>10. rows \in RowsOf(V)
    BY <2>9 DEF RowsOf, R
  <2> QED
    BY <2>5, <2>6, <2>7, <2>10, NormalizedRows
<1> QED
  BY <1>1, <1>2

-----------------------------------------------------------------------------
(* The bucket.                                                                *)

(* The first k objects of the data set. *)
Slices(k) == [i \in 1 .. k |-> build_serialized_s3_obj((i - 1) * S3Size, i * S3Size)]

DatasetInHand == dataset = read_dataset /\ mainPc = "done"

(* The readers and the configuration rest while objects are put: the data set *)
(* stays what the reader returned and the objects are its first ones.         *)
LoadInv ==
  /\ loadPc \in {"start", "read", "put", "loaded", "threw"}
  /\ loadPc # "start" => status = "runs" /\ setup.format \in {"criteo", "netflix"}
  /\ loadPc = "put" => DatasetInHand
  /\ \E k \in Nat :
       /\ objs = Slices(k)
       /\ k # 0 => /\ DatasetInHand /\ loadPc \notin {"start", "read"}
                   /\ k <= num_s3_objs

LEMMA NoSlices == Slices(0) = <<>>
<1>1. 1 .. 0 = {}
  OBVIOUS
<1> QED
  BY <1>1 DEF Slices

LEMMA SetupKept == ASSUME ReaderNext PROVE setup' = setup
<1>1. CASE Main
  BY <1>1 DEF Main, ReadBatch, PollQueue, Join, shuffle_samples_labels
<1>2. ASSUME NEW t \in Threads, Thread(t) PROVE setup' = setup
  BY <1>2 DEF Thread, CheckTerminate, TakeLines, ReadLine, CheckEof, CheckLimit, ParseLine,
              PublishFirst, PublishSecond, NetflixReadLine, MapUser, PublishMax
<1> QED
  BY <1>1, <1>2 DEF ReaderNext

LEMMA DatasetKept ==
  ASSUME UNCHANGED <<vars, confVars>>
  PROVE  /\ read_dataset' = read_dataset /\ mainPc' = mainPc
         /\ status' = status /\ setup' = setup /\ num' = num
<1>1. /\ setup' = setup /\ samples' = samples /\ labels' = labels /\ sparse_ds' = sparse_ds
      /\ mainPc' = mainPc /\ num' = num /\ status' = status
  BY DEF vars, confVars, conf, resultVars, csvVars, netflixVars
<1>2. \A l : parse_criteo_kaggle_sparse_line(l)' = parse_criteo_kaggle_sparse_line(l)
  <2>1. HashSize' = HashSize /\ UseBias' = UseBias
    BY <1>1 DEF HashSize, UseBias
  <2> QED
    BY <2>1 DEF parse_criteo_kaggle_sparse_line, MapToPairs
<1>3. read_dataset' = read_dataset
  BY <1>1, <1>2, Zenon DEF read_dataset
<1> QED
  BY <1>1, <1>3

LEMMA BucketKept ==
  ASSUME UNCHANGED <<vars, confVars, dataset>>
  PROVE  /\ DatasetInHand' <=> DatasetInHand
         /\ \A k : Slices(k)' = Slices(k)
         /\ num_s3_objs' = num_s3_objs
         /\ status' = status /\ setup' = setup
<1>1. /\ read_dataset' = read_dataset /\ mainPc' = mainPc /\ setup' = setup /\ num' = num
      /\ status' = status /\ dataset' = dataset
  BY DatasetKept
<1>2. \A l, r : build_serialized_s3_obj(l, r)' = build_serialized_s3_obj(l, r)
  BY <1>1 DEF build_serialized_s3_obj, SampleWords, HasLabels
<1> QED
  BY <1>1, <1>2 DEF DatasetInHand, Slices, num_s3_objs, S3Size

(* Where the tasks run the sizes are positive and the columns are some.       *)
LEMMA SizesOfTask ==
  ASSUME ConfInv, status = "runs"
  PROVE  S3Size \in Nat \ {0} /\ num["model_bits"] \in Nat
<1>1. num["s3_size"] \in Nat /\ num["model_bits"] \in Nat
  BY OptionSets DEF ConfInv, ConfTyped, ConfTypeOK
<1>2. num["s3_size"] # 0
  BY DEF ConfInv, Printable
<1> QED
  BY <1>1, <1>2 DEF S3Size

LEMMA LoadInvInit == ASSUME LoadInit PROVE LoadInv
<1>1. objs = Slices(0) /\ loadPc = "start"
  BY NoSlices DEF LoadInit
<1> QED
  BY <1>1 DEF LoadInv

LEMMA ConfigureWaits == ASSUME ConfNext PROVE status # "runs"
BY DEF ConfNext, parse_line, EndOfFile, print, check, run_tasks

LEMMA LoadPutObject ==
  ASSUME ReaderInv, ConfInv, LoadInv, PutObject
  PROVE  LoadInv'
<1>1. /\ loadPc = "put" /\ Len(objs) < num_s3_objs
      /\ objs' = Append(objs, build_serialized_s3_obj(Len(objs) * S3Size,
                                                      (Len(objs) + 1) * S3Size))
      /\ UNCHANGED <<vars, confVars, dataset, loadPc>>
  BY DEF PutObject
<1>2. status = "runs" /\ setup.format \in {"criteo", "netflix"} /\ DatasetInHand
  BY <1>1 DEF LoadInv
<1>3. num_s3_objs \in Nat
  <2>1. S3Size \in Nat \ {0} /\ num["model_bits"] \in Nat
    BY <1>2, SizesOfTask
  <2>2. PICK V : read_dataset \in RowsOf(V)
    BY <1>2, <2>1, DatasetRead
  <2> DEFINE R == [label : V, feats : Seq(V \X V)]
  <2>3. dataset \in Seq(R)
    BY <1>2, <2>2 DEF DatasetInHand, RowsOf
  <2> HIDE DEF R
  <2>4. Len(dataset) \in Nat
    BY <2>3
  <2> QED
    BY <2>1, <2>4 DEF num_s3_objs
<1>4. PICK k \in Nat : objs = Slices(k)
  BY DEF LoadInv
<1>5. Len(objs) = k
  BY <1>4 DEF Slices
<1>6. objs' = Slices(k + 1)
  <2> DEFINE obj(i) == build_serialized_s3_obj((i - 1) * S3Size, i * S3Size)
  <2>1. objs = [i \in 1 .. k |-> obj(i)]
    BY <1>4 DEF Slices
  <2>2. objs' = Append(objs, obj(k + 1))
    <3>1. (k + 1) - 1 = k
      OBVIOUS
    <3> QED
      BY <1>1, <1>5, <3>1
  <2>3. Slices(k + 1) = [i \in 1 .. (k + 1) |-> obj(i)]
    BY DEF Slices
  <2> HIDE DEF obj
  <2>4. Append(objs, obj(k + 1)) = [i \in 1 .. (k + 1) |-> obj(i)]
    <3>1. objs \in Seq({obj(i) : i \in 1 .. k}) /\ Len(objs) = k
      BY <2>1
    <3> DEFINE q == [i \in 1 .. (k + 1) |-> obj(i)]
    <3>2. \A i \in 1 .. k : i \in 1 .. (k + 1) /\ i # k + 1 /\ objs[i] = obj(i)
      BY <2>1
    <3> QED
      BY <2>1, <3>1, <3>2
  <2> QED
    BY <2>2, <2>3, <2>4
<1>7. /\ DatasetInHand' /\ Slices(k + 1)' = Slices(k + 1) /\ num_s3_objs' = num_s3_objs
      /\ status' = "runs" /\ setup' = setup /\ loadPc' = "put"
  BY <1>1, <1>2, BucketKept
<1>8. k + 1 \in Nat /\ k + 1 <= num_s3_objs
  BY <1>1, <1>3, <1>5
<1>9. objs' = Slices(k + 1)' /\ k + 1 <= num_s3_objs'
  BY <1>6, <1>7, <1>8
<1> QED
  BY <1>2, <1>7, <1>8, <1>9 DEF LoadInv

LEMMA LoadInvStep ==
  ASSUME ReaderInv, ConfInv, LoadInv, [LoadNext]_<<vars, confVars, loadVars>>
  PROVE  LoadInv'
<1>1. PICK k \in Nat :
        /\ objs = Slices(k)
        /\ k # 0 => /\ DatasetInHand /\ loadPc \notin {"start", "read"}
                    /\ k <= num_s3_objs
  BY DEF LoadInv
<1>2. Slices(0)' = <<>>
  <2>1. 1 .. 0 = {}
    OBVIOUS
  <2> QED
    BY <2>1 DEF Slices
<1>3. ASSUME k = 0, objs' = objs
      PROVE  \E j \in Nat : objs' = Slices(j)' /\ j = 0
  BY <1>1, <1>2, <1>3, NoSlices
<1>4. CASE Configure /\ UNCHANGED <<vars, loadVars>>
  <2>1. loadPc = "start" /\ k = 0
    BY <1>1, <1>4, ConfigureWaits DEF Configure, LoadInv
  <2>2. objs' = objs /\ loadPc' = "start"
    BY <1>4, <2>1 DEF loadVars
  <2> QED
    BY <1>3, <2>1, <2>2 DEF LoadInv
<1>5. CASE Reading /\ ReaderNext /\ UNCHANGED <<confVars, loadVars>>
  <2>1. loadPc \in {"start", "read"} /\ k = 0
    BY <1>1, <1>5 DEF Reading, LoadInv
  <2>2. objs' = objs /\ loadPc' = loadPc /\ status' = status /\ setup' = setup
    BY <1>5, SetupKept DEF loadVars, confVars
  <2> QED
    BY <1>3, <2>1, <2>2 DEF LoadInv
<1>6. CASE StartLoading
  <2>1. loadPc = "start" /\ k = 0
    BY <1>1, <1>6 DEF StartLoading
  <2>2. /\ objs' = objs /\ loadPc' \in {"threw", "read"} /\ status = "runs"
        /\ setup.format \in {"criteo", "netflix"} /\ UNCHANGED <<vars, confVars, dataset>>
    BY <1>6 DEF StartLoading
  <2>3. status' = status /\ setup' = setup
    BY <2>2, BucketKept
  <2> QED
    BY <1>3, <2>1, <2>2, <2>3 DEF LoadInv
<1>7. CASE ReadDataset
  <2>1. /\ loadPc = "read" /\ mainPc = "done" /\ dataset' = read_dataset /\ loadPc' = "put"
        /\ UNCHANGED <<vars, confVars, objs>>
    BY <1>7 DEF ReadDataset
  <2>2. k = 0 /\ status = "runs" /\ setup.format \in {"criteo", "netflix"}
    BY <1>1, <2>1 DEF LoadInv
  <2>3. read_dataset' = read_dataset /\ mainPc' = "done" /\ status' = status /\ setup' = setup
    BY <2>1, DatasetKept
  <2> QED
    BY <1>3, <2>1, <2>2, <2>3 DEF LoadInv, DatasetInHand
<1>8. CASE PutObject
  BY <1>8, LoadPutObject
<1>9. CASE check_loading
  <2>1. /\ loadPc = "put" /\ loadPc' \in {"loaded", "threw"}
        /\ UNCHANGED <<vars, confVars, dataset, objs>>
    BY <1>9 DEF check_loading
  <2>2. /\ DatasetInHand' <=> DatasetInHand
        /\ Slices(k)' = Slices(k)
        /\ num_s3_objs' = num_s3_objs /\ status' = status /\ setup' = setup
    BY <2>1, BucketKept
  <2> QED
    BY <1>1, <2>1, <2>2 DEF LoadInv
<1>10. CASE UNCHANGED <<vars, confVars, loadVars>>
  <2>1. loadPc' = loadPc /\ objs' = objs /\ UNCHANGED <<vars, confVars, dataset>>
    BY <1>10 DEF loadVars
  <2>2. /\ DatasetInHand' <=> DatasetInHand
        /\ Slices(k)' = Slices(k)
        /\ num_s3_objs' = num_s3_objs /\ status' = status /\ setup' = setup
    BY <2>1, BucketKept
  <2> QED
    BY <1>1, <2>1, <2>2 DEF LoadInv
<1> QED
  BY <1>4, <1>5, <1>6, <1>7, <1>8, <1>9, <1>10 DEF LoadNext

(* The o-th object of s samples covers samples of the data set, and s of them. *)
LEMMA SliceWithin ==
  ASSUME NEW n \in Nat, NEW s \in Nat \ {0}, NEW k \in Nat, k <= n \div s, NEW o \in 1 .. k
  PROVE  /\ (o - 1) * s \in Nat /\ o * s \in Nat
         /\ o * s - (o - 1) * s = s /\ o * s <= n
<1> DEFINE d == n \div s
<1>1. d \in Nat /\ s * d <= n
  OBVIOUS
<1>2. o \in Nat \ {0} /\ o <= d
  BY <1>1
<1> HIDE DEF d
<1>3. s * (d - o) \in Nat
  BY <1>1, <1>2
<1>4. s * (d - o) = s * d - s * o
  BY <1>1, <1>2
<1>5. (o - 1) * s = o * s - s /\ o * s = s * o /\ o * s \in Nat
  BY <1>2
<1>6. (o - 1) * s \in Nat
  BY <1>2
<1> QED
  BY <1>1, <1>3, <1>4, <1>5, <1>6

LEMMA SliceOf ==
  ASSUME NEW R, NEW d \in Seq(R), NEW l \in Nat, NEW r \in Nat, l <= r, r <= Len(d)
  PROVE  /\ SubSeq(d, l + 1, r) \in Seq(R) /\ Len(SubSeq(d, l + 1, r)) = r - l
         /\ \A j \in 1 .. (r - l) : SubSeq(d, l + 1, r)[j] = d[l + j]
OBVIOUS

(* What is known of an object once the task puts it.                          *)
LEMMA ObjectOfSlice ==
  ASSUME ReaderInv, ConfInv, LoadInv, NEW o \in 1 .. Len(objs)
  PROVE  /\ DatasetInHand /\ S3Size \in Nat \ {0} /\ num["model_bits"] \in Nat
         /\ setup.format \in {"criteo", "netflix"}
         /\ objs[o] = build_serialized_s3_obj((o - 1) * S3Size, o * S3Size)
         /\ (o - 1) * S3Size \in Nat /\ o * S3Size \in Nat
         /\ o * S3Size - (o - 1) * S3Size = S3Size /\ o * S3Size <= Len(dataset)
         /\ Len(dataset) \in Nat
<1>1. PICK k \in Nat :
        /\ objs = Slices(k)
        /\ k # 0 => /\ DatasetInHand /\ loadPc \notin {"start", "read"}
                    /\ k <= num_s3_objs
  BY DEF LoadInv
<1>2. Len(objs) = k /\ o \in 1 .. k /\ k # 0
      /\ objs[o] = build_serialized_s3_obj((o - 1) * S3Size, o * S3Size)
  BY <1>1 DEF Slices
<1>3. DatasetInHand /\ status = "runs" /\ setup.format \in {"criteo", "netflix"}
  BY <1>1, <1>2 DEF LoadInv
<1>4. S3Size \in Nat \ {0} /\ num["model_bits"] \in Nat
  BY <1>3, SizesOfTask
<1>5. Len(dataset) \in Nat
  <2>1. PICK V : read_dataset \in RowsOf(V)
    BY <1>3, <1>4, DatasetRead
  <2> DEFINE R == [label : V, feats : Seq(V \X V)]
  <2>2. dataset \in Seq(R)
    BY <1>3, <2>1 DEF DatasetInHand, RowsOf
  <2> HIDE DEF R
  <2> QED
    BY <2>2
<1>6. k <= Len(dataset) \div S3Size
  BY <1>1, <1>2 DEF num_s3_objs
<1>7. /\ (o - 1) * S3Size \in Nat /\ o * S3Size \in Nat
      /\ o * S3Size - (o - 1) * S3Size = S3Size /\ o * S3Size <= Len(dataset)
  BY <1>2, <1>4, <1>5, <1>6, SliceWithin
<1> QED
  BY <1>2, <1>3, <1>4, <1>5, <1>7

LEMMA SliceDecodes ==
  ASSUME ReaderInv, ConfInv, LoadInv, NEW o \in 1 .. Len(objs)
  PROVE  /\ SparseDataset(objs[o]) = SubSeq(dataset, (o - 1) * S3Size + 1, o * S3Size)
         /\ objs[o][1] = 4 * Len(objs[o])
<1> DEFINE l == (o - 1) * S3Size
           r == o * S3Size
           rows == SubSeq(dataset, l + 1, r)
           body == FlattenSeq([i \in 1 .. (r - l) |-> SampleWords(dataset[l + i])])
           words == objs[o]
<1>1. /\ DatasetInHand /\ num["model_bits"] \in Nat /\ setup.format \in {"criteo", "netflix"}
      /\ words = build_serialized_s3_obj(l, r)
      /\ l \in Nat /\ r \in Nat /\ r <= Len(dataset)
  BY ObjectOfSlice
<1>2. S3Size \in Nat \ {0} /\ r - l = S3Size
  BY ObjectOfSlice
<1>3. words = <<4 * (2 + Len(body)), r - l>> \o body
  BY <1>1, Zenon DEF build_serialized_s3_obj
<1>4. PICK V : /\ Nat \subseteq V /\ dataset \in RowsOf(V)
               /\ HasLabels \/ \A i \in 1 .. Len(dataset) : dataset[i].label = 0
  BY <1>1, DatasetRead DEF DatasetInHand
<1> DEFINE R == [label : V, feats : Seq(V \X V)]
<1>5. dataset \in Seq(R)
  BY <1>4 DEF RowsOf
<1>6. l <= r
  <2> HIDE DEF l, r
  <2> QED
    BY <1>1, <1>2
<1>7. /\ rows \in Seq(R) /\ Len(rows) = r - l
      /\ \A j \in 1 .. (r - l) : rows[j] = dataset[l + j]
  <2> HIDE DEF R, l, r
  <2> QED
    BY <1>1, <1>5, <1>6, SliceOf
<1> HIDE DEF rows, l, r, words
<1>8. body = FlattenSeq([i \in 1 .. Len(rows) |-> SampleWords(rows[i])])
  <2>1. [i \in 1 .. (r - l) |-> SampleWords(dataset[l + i])]
          = [i \in 1 .. Len(rows) |-> SampleWords(rows[i])]
    BY <1>7
  <2> QED
    BY <2>1
<1>9. HasLabels \/ \A i \in 1 .. Len(rows) : rows[i].label = 0
  <2>1. \A i \in 1 .. (r - l) : l + i \in 1 .. Len(dataset)
    <3>1. Len(dataset) \in Nat
      BY ObjectOfSlice
    <3> QED
      BY <1>1, <1>6, <3>1
  <2> QED
    BY <1>4, <1>7, <2>1
<1>10. words = <<4 * (2 + Len(body)), Len(rows)>> \o body
  BY <1>3, <1>7
<1> HIDE DEF body
<1>11. SparseDataset(words) = rows /\ words[1] = 4 * Len(words)
  BY <1>4, <1>7, <1>8, <1>9, <1>10, ObjectDecodes
<1> QED
  BY <1>11 DEF rows, l, r, words

LEMMA LoadResult == ASSUME ReaderInv, ConfInv, LoadInv PROVE ObjectsDecode
<1>1. SlicesDecode
  BY SliceDecodes DEF SlicesDecode
<1>2. ASSUME setup.format = "criteo", ~setup.normalize,
             NEW o \in 1 .. Len(objs), NEW i \in 1 .. S3Size
      PROVE  CountSum(SparseDataset(objs[o])[i].feats)
               = Len(Columns[samples[(o - 1) * S3Size + i]].fields)
                 + (IF UseBias THEN 1 ELSE 0)
  <2> DEFINE l == (o - 1) * S3Size
             r == o * S3Size
             x == l + i
             parsed(y) == parse_criteo_kaggle_sparse_line(samples[y])
             n == Len(samples)
  <2>1. /\ DatasetInHand /\ S3Size \in Nat \ {0} /\ num["model_bits"] \in Nat
        /\ l \in Nat /\ r \in Nat /\ r - l = S3Size /\ r <= Len(dataset)
    BY ObjectOfSlice
  <2>2. samples \in Seq(Lines) /\ setup \in Setups
    BY ReaderResult DEF TypeOK
  <2>3. n \in Nat /\ \A y \in 1 .. n : samples[y] \in 1 .. Len(Columns)
    <3>1. n \in Nat /\ \A y \in 1 .. n : samples[y] \in Lines
      BY <2>2
    <3> QED
      BY <1>2, <2>2, <3>1, ColumnLines
  <2>4. dataset = [y \in 1 .. n |-> Row(Columns[labels[y]].label, parsed(y))]
    BY <1>2, <2>1, Zenon DEF DatasetInHand, read_dataset
  <2>5. SparseDataset(objs[o]) = SubSeq(dataset, l + 1, r)
    BY SliceDecodes
  <2> DEFINE D == {dataset[y] : y \in 1 .. n}
  <2> HIDE DEF l, r, parsed
  <2>6. dataset \in Seq(D) /\ Len(dataset) = n
    <3> HIDE DEF n
    <3> QED
      BY <2>3, <2>4
  <2>7. x \in 1 .. n /\ l <= r
    BY <2>1, <2>6
  <2> HIDE DEF D
  <2>8. SubSeq(dataset, l + 1, r)[i] = dataset[x]
    BY <2>1, <2>6, <2>7, SliceOf
  <2>9. dataset[x].feats = parsed(x)
    BY <2>4, <2>7 DEF Row
  <2>10. CountSum(parsed(x)) = Len(Columns[samples[x]].fields) + (IF UseBias THEN 1 ELSE 0)
    BY <2>1, <2>3, <2>7, ParsedLine DEF parsed
  <2>11. CountSum(SparseDataset(objs[o])[i].feats) = CountSum(parsed(x))
    BY <2>5, <2>8, <2>9
  <2> QED
    BY <2>10, <2>11 DEF l
<1>3. EveryFieldCounted
  BY <1>2, Zenon DEF EveryFieldCounted
<1> QED
  BY <1>1, <1>3 DEF ObjectsDecode

(* Whatever the readers return, the objects of the bucket decode to           *)
(* consecutive slices of it, each of the size it states, and no feature of a  *)
(* line is lost in a collision of hashes (InputReader.cpp:881-924,            *)
(* SparseDataset.cpp:193-248, LoadingSparseTaskS3.cpp:88-108).                *)
THEOREM BucketDecodes == LoadSpec => []ObjectsDecode
<1> DEFINE Inv == ReaderInv /\ ConfInv /\ LoadInv
<1>1. LoadInit => Inv
  <2>1. LoadInit => ReaderInv
    BY ReaderInvInit DEF LoadInit
  <2>2. LoadInit => ConfInv
    BY ConfInvInit DEF LoadInit
  <2> QED
    BY <2>1, <2>2, LoadInvInit
<1>2. Inv /\ [LoadNext]_<<vars, confVars, loadVars>> => Inv'
  <2> SUFFICES ASSUME Inv, [LoadNext]_<<vars, confVars, loadVars>> PROVE Inv'
    OBVIOUS
  <2>1. ReaderInv'
    BY StepParts, ReaderInvStep
  <2>2. ConfInv'
    BY StepParts, ConfInvStep
  <2>3. LoadInv'
    BY LoadInvStep
  <2> QED
    BY <2>1, <2>2, <2>3
<1>3. Inv => ObjectsDecode
  BY LoadResult
<1> QED
  BY <1>1, <1>2, <1>3, PTL DEF LoadSpec
=============================================================================
