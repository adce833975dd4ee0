------------------------------ MODULE Loading ------------------------------
(* The loading process: it reads its configuration, and the loading tasks     *)
(* (LoadingSparseTaskS3.cpp, LoadingNetflixTask.cpp) read a data set with the *)
(* threads of InputReader, cut it into objects of s3_size samples and put     *)
(* these into the bucket.  Here a sample is what the line parsers make of its *)
(* line, an object the sequence of its 4-byte words (SparseDataset.cpp).      *)
(* read_input_csv is called by programs without a configuration.              *)
EXTENDS InputReader, Configuration

CONSTANTS Jobs,       \* [file, setup]: configuration file and input
          Columns,    \* line -> label and hash values of its fields, "criteo"
          BiasHash    \* hash_f("bias")

(* A job with an input has a file that asks for the task of this input. *)
Consistent(j) ==
  CASE j.setup.format = "criteo" ->
         /\ SaysIn(j.file, "model_type", "UNKNOWN") = "LogisticRegression"
         /\ SaysIn(j.file, "limit_samples", 0) = j.setup.limit
         /\ (SaysIn(j.file, "normalize", 0) = 1) = j.setup.normalize
    [] j.setup.format = "netflix" ->
         SaysIn(j.file, "model_type", "UNKNOWN") = "CollaborativeFiltering"
    [] OTHER -> TRUE

ASSUME JobsAssumption ==
  \A j \in Jobs : j.file \in Files /\ j.setup \in Setups /\ Consistent(j)
ASSUME ColumnsAssumption ==
  /\ Columns \in Seq([label : Int, fields : Seq(Nat)]) /\ BiasHash \in Nat
  /\ \A s \in Setups : s.format = "criteo" => s.n <= Len(Columns)

VARIABLES dataset,  \* what read_dataset returned
          objs,     \* the bucket: objs[i + 1] is the object SAMPLE_BASE + i
          loadPc    \* LoadingSparseTaskS3::run, LoadingNetflixTask::run

loadVars == <<dataset, objs, loadPc>>

(* 1 << k *)
PowerOfTwo(k) ==
  LET power[i \in 0 .. k] == IF i = 0 THEN 1 ELSE 2 * power[i - 1] IN power[k]

HashSize == PowerOfTwo(num["model_bits"])
S3Size == num["s3_size"]
UseBias == num["use_bias"] = 1

-----------------------------------------------------------------------------
(* Line parsers and SparseDataset.                                            *)

(* The order in which a map is walked. *)
Ascending(keys) ==
  CHOOSE s \in [1 .. Cardinality(keys) -> keys] :
    \A i, j \in DOMAIN s : i < j => s[i] < s[j]

(* The map of feature counts in the order of its keys. *)
MapToPairs(keys, count(_)) ==
  [i \in 1 .. Cardinality(keys) |-> <<Ascending(keys)[i], count(Ascending(keys)[i])>>]

(* A plausible bug: a collision keeps one of the fields. *)
parse_criteo_kaggle_sparse_lineSet(l) ==
  LET hashes == {Columns[l].fields[i] % HashSize : i \in DOMAIN Columns[l].fields}
                  \union (IF UseBias THEN {BiasHash % HashSize} ELSE {})
  IN MapToPairs(hashes, LAMBDA h : 1)

(* Fields are hashed into HashSize columns and counted; fields that collide   *)
(* share a column, and so does the bias constant.                             *)
parse_criteo_kaggle_sparse_line(l) ==
  LET fields == Columns[l].fields \o (IF UseBias THEN <<BiasHash>> ELSE <<>>)
      hash(i) == fields[i] % HashSize
  IN MapToPairs({hash(i) : i \in DOMAIN fields},
                LAMBDA h : Cardinality({i \in DOMAIN fields : hash(i) = h}))

(* A row of a data set: its label, when it has one, and its features. *)
Row(label, feats) == [label |-> label, feats |-> feats]

(* normalize: columns with different values are scaled to 0 .. 1, here to     *)
(* fractions <<numerator, denominator>>.                                      *)
normalize(rows) ==
  LET feats == UNION {ToSet(r.feats) : r \in ToSet(rows)}
      column == [c \in {f[1] : f \in feats} |-> {f[2] : f \in {g \in feats : g[1] = c}}]
      lo == [c \in DOMAIN column |-> Min(column[c])]
      hi == [c \in DOMAIN column |-> Max(column[c] \union {0})]
      scaled(f) == IF hi[f[1]] = lo[f[1]] THEN <<f[1], <<f[2], 1>>>>
                   ELSE <<f[1], <<f[2] - lo[f[1]], hi[f[1]] - lo[f[1]]>>>>
  IN [i \in 1 .. Len(rows) |->
        Row(rows[i].label, [j \in 1 .. Len(rows[i].feats) |-> scaled(rows[i].feats[j])])]

(* The data set the reader returns. *)
read_dataset ==
  IF setup.format = "netflix"
  THEN [r \in 1 .. Rows |->
         Row(0, [j \in 1 .. Len(sparse_ds[r - 1]) |->
                   <<Ratings[sparse_ds[r - 1][j]].movie - 1,
                     Ratings[sparse_ds[r - 1][j]].rating>>])]
  ELSE LET rows == [i \in 1 .. Len(samples) |->
                      Row(Columns[labels[i]].label,
                          parse_criteo_kaggle_sparse_line(samples[i]))]
       IN IF setup.normalize THEN normalize(rows) ELSE rows

-----------------------------------------------------------------------------
(* The layout of an object.                                                   *)

HasLabels == setup.format = "criteo"

SampleWords(r) ==
  (IF HasLabels THEN <<r.label>> ELSE <<>>) \o <<Len(r.feats)>> \o FlattenSeq(r.feats)

(* Size in bytes, number of samples, then rows l .. r - 1 (from 0). *)
build_serialized_s3_obj(l, r) ==
  LET body == FlattenSeq([i \in 1 .. (r - l) |-> SampleWords(dataset[l + i])])
  IN <<4 * (2 + Len(body)), r - l>> \o body

(* The constructor of SparseDataset: start[i] is where sample i + 1 begins. *)
SparseDataset(words) ==
  LET lab == IF HasLabels THEN 1 ELSE 0
      start[i \in 0 .. words[2]] ==
        IF i = 0 THEN 3 ELSE start[i - 1] + lab + 1 + 2 * words[start[i - 1] + lab]
      sample(i) ==
        LET at0 == start[i - 1] + lab IN
        Row(IF HasLabels THEN words[start[i - 1]] ELSE 0,
            [j \in 1 .. words[at0] |-> <<words[at0 + 2 * j - 1], words[at0 + 2 * j]>>])
  IN [i \in 1 .. words[2] |-> sample(i)]

-----------------------------------------------------------------------------
num_s3_objs == Len(dataset) \div S3Size

(* The task of rank 0.  The only format of the input that the sparse loader   *)
(* takes and its parser does not reject is "csv".                             *)
StartLoading ==
  /\ status = "runs" /\ rank = 0
  /\ setup.format \in {"criteo", "netflix"}
  /\ loadPc = "start"
  /\ loadPc' = IF setup.format = "criteo" /\ word["load_input_type"] # "csv"
               THEN "threw" ELSE "read"
  /\ UNCHANGED <<vars, confVars, dataset, objs>>

ReadDataset ==
  /\ mainPc = "done"
  /\ loadPc = "read"
  /\ dataset' = read_dataset
  /\ loadPc' = "put"
  /\ UNCHANGED <<vars, confVars, objs>>

(* Samples past the last full object are dropped. *)
PutObject ==
  /\ loadPc = "put"
  /\ Len(objs) < num_s3_objs
  /\ objs' = Append(objs, build_serialized_s3_obj(Len(objs) * S3Size,
                                                  (Len(objs) + 1) * S3Size))
  /\ UNCHANGED <<vars, confVars, dataset, loadPc>>

(* check_loading reads the first object back and throws when there is none,   *)
(* when a label is not 0 or 1 or an index is negative.                        *)
check_loading ==
  /\ loadPc = "put"
  /\ Len(objs) = num_s3_objs
  /\ loadPc' = IF /\ objs # <<>>
                  /\ \A i \in 1 .. S3Size :
                       LET s == SparseDataset(objs[1])[i] IN
                       s.label \in {0, 1} /\ \A f \in ToSet(s.feats) : f[1] >= 0
               THEN "loaded" ELSE "threw"
  /\ UNCHANGED <<vars, confVars, dataset, objs>>

-----------------------------------------------------------------------------
LoadInit ==
  /\ \E j \in Jobs : file = j.file /\ setup = j.setup
  /\ ConfInit /\ Init
  /\ dataset = <<>> /\ objs = <<>> /\ loadPc = "start"

Configure == setup.format # "csv" /\ ConfNext

Reading == setup.format = "csv" \/ loadPc = "read"

Terminated ==
  \/ status \in {"throw", "crash", "dies"}
  \/ status = "runs" /\ (rank # 0 \/ setup.format = "none")
  \/ loadPc \in {"loaded", "threw"} \/ mainPc = "crash"
  \/ setup.format = "csv" /\ mainPc = "done"

LoadNext ==
  \/ Configure /\ UNCHANGED <<vars, loadVars>>
  \/ Reading /\ ReaderNext /\ UNCHANGED <<confVars, loadVars>>
  \/ StartLoading \/ ReadDataset \/ PutObject \/ check_loading
  \/ Terminated /\ UNCHANGED <<vars, confVars, loadVars>>

LoadSpec ==
  /\ LoadInit /\ [][LoadNext]_<<vars, confVars, loadVars>>
  /\ WF_confVars(Configure)
  /\ WF_vars(Reading /\ Main)
  /\ \A t \in Threads : WF_vars(Reading /\ mainPc # "crash" /\ Thread(t))
  /\ WF_loadVars(StartLoading \/ ReadDataset \/ PutObject \/ check_loading)

-----------------------------------------------------------------------------
(* Objects in the bucket decode to consecutive slices of the data set, so a   *)
(* sample is in one object at most and each keeps the label and the features  *)
(* of its own line; the size each object states is its own                    *)
(* (SparseDataset.cpp:193-248, LoadingSparseTaskS3.cpp:88-108).               *)
SlicesDecode ==
  \A i \in 1 .. Len(objs) :
    /\ SparseDataset(objs[i]) = SubSeq(dataset, (i - 1) * S3Size + 1, i * S3Size)
    /\ objs[i][1] = 4 * Len(objs[i])

CountSum(feats) == FoldSeq(LAMBDA f, n : f[2] + n, 0, feats)

(* A loaded bucket holds all samples but a rest smaller than one object, and  *)
(* every feature that parsing counted: no count of a line of the file is lost *)
(* to a collision of hashes (InputReader.cpp:895-913).                        *)
EveryFieldCounted ==
  loadPc = "loaded" /\ setup.format = "criteo" /\ ~setup.normalize =>
    \A o \in 1 .. Len(objs) :
      LET rows == SparseDataset(objs[o]) IN
      \A i \in 1 .. S3Size :
        CountSum(rows[i].feats)
          = Len(Columns[samples[(o - 1) * S3Size + i]].fields)
            + (IF UseBias THEN 1 ELSE 0)

(* What is in the bucket is what was in the file.                             *)
ObjectsDecode == SlicesDecode /\ EveryFieldCounted

(* Every start leads to a task or an error and every load ends: the readers'  *)
(* threads meet the end of the file or the limit, or an exception ends the    *)
(* process; queues that are polled drain (InputReader.cpp:332-347, 610-656,   *)
(* 985-1043).                                                                 *)
LoadTerminates == <>Terminated
=============================================================================
