---------------------------- MODULE InputReader ----------------------------
(* The input readers that load a data set with several threads                *)
(* (InputReader.cpp).  Three schemes share the file:                          *)
(*   "csv"      read_input_csv reads batches of lines and hands them to its   *)
(*              threads in turn, each through a queue of its own;             *)
(*   "criteo"   the threads of read_input_criteo_sparse, of the Kaggle and of *)
(*              the RCV1 reader take lines from the file themselves;          *)
(*   "netflix"  so do those of read_netflix_ratings, which also number the    *)
(*              users in the order in which they meet them;                   *)
(*   "none"     no reader is called.                                          *)
(* A line is the number of its place in the file; a sample and a label are    *)
(* the line they were parsed from.  The mutexes of the queues and of the map  *)
(* of users protect one step each; the one held while results are published   *)
(* (output_mutex, fin_lock) is the variable lock.                             *)
EXTENDS Integers, Sequences, SequencesExt, FiniteSets, FiniteSetsExt

CONSTANTS NThreads,     \* nthreads
          Setups,       \* files and limits to check, see Setup
          Ratings,      \* line -> user, movie, rating, for "netflix"
          BatchSize,    \* batch_size of read_input_csv
          ReadAtATime,  \* read_at_a_time of read_csv_thread
          Rows          \* rows of sparse_ds in read_netflix_ratings

(* A file of n lines, whether its last line ends in a newline, the limit on   *)
(* samples the configuration or the caller gives, and whether to normalize.   *)
Setup == [format : {"csv", "criteo", "netflix", "none"}, n : Nat, newline : BOOLEAN,
          limit : Nat, normalize : BOOLEAN]

ASSUME NThreadsAssumption == NThreads \in Nat \ {0}
ASSUME SetupsAssumption == Setups \subseteq Setup
ASSUME RatingsAssumption ==
  /\ Len(Ratings) \in Nat
  /\ \A s \in Setups : s.format = "netflix" => s.n <= Len(Ratings)
ASSUME BatchAssumption == BatchSize \in Nat \ {0} /\ ReadAtATime \in Nat \ {0}
ASSUME RowsAssumption == Rows \in Nat

Threads == 0 .. (NThreads - 1)
NoLine == 0
NoRow == -1
Nobody == -1

VARIABLES
  setup,        \* the file and the limit, fixed in a run
  pos,          \* lines taken from fin
  eof,          \* fin.eof()
  lines_count,
  lock,         \* holder of output_mutex or fin_lock while it publishes
  pc, line,     \* threads: label, the line just read
  mine,         \* a thread's own samples (or lines still to parse)
  samples, labels,
  queue,        \* lines[i] of read_input_csv
  terminate,
  mainPc, at,   \* main thread: label, thread_index
  realid,       \* userid_to_realid
  sparse_ds,    \* the lines of each row's ratings
  number_users

fileVars == <<pos, eof, lines_count>>
threadVars == <<pc, line, mine>>
resultVars == <<samples, labels>>
csvVars == <<queue, terminate, mainPc, at>>
netflixVars == <<realid, sparse_ds, number_users>>
vars == <<setup, fileVars, lock, threadVars, resultVars, csvVars, netflixVars>>

Lines == 1 .. setup.n
UserSet == {Ratings[l].user : l \in 1 .. Len(Ratings)}

TypeOK ==
  /\ setup \in Setups
  /\ pos \in 0 .. setup.n /\ eof \in BOOLEAN /\ lines_count \in 0 .. setup.n
  /\ lock \in Threads \union {Nobody}
  /\ pc \in [Threads -> {"top", "take", "get", "eof", "limit", "parse", "nfget",
                         "map", "max", "labels", "samples", "done"}]
  /\ line \in [Threads -> Lines \union {NoLine}]
  /\ mine \in [Threads -> Seq(Lines)]
  /\ samples \in Seq(Lines) /\ labels \in Seq(Lines)
  /\ queue \in [Threads -> Seq(Lines)]
  /\ terminate \in BOOLEAN
  /\ mainPc \in {"read", "poll", "join", "shuffle", "done", "crash"}
  /\ at \in 0 .. NThreads
  /\ realid \in [UserSet -> 0 .. (Cardinality(UserSet) - 1) \union {NoRow}]
  /\ sparse_ds \in [0 .. (Rows - 1) -> Seq(Lines)]
  /\ number_users \in 0 .. Rows

Init ==
  /\ setup \in Setups
  /\ pos = 0 /\ eof = FALSE /\ lines_count = 0
  /\ lock = Nobody
  /\ pc = [t \in Threads |-> CASE setup.format = "csv" -> "top"
                               [] setup.format = "criteo" -> "get"
                               [] setup.format = "netflix" -> "nfget"
                               [] setup.format = "none" -> "done"]
  /\ line = [t \in Threads |-> NoLine]
  /\ mine = [t \in Threads |-> <<>>]
  /\ samples = <<>> /\ labels = <<>>
  /\ queue = [t \in Threads |-> <<>>]
  /\ terminate = FALSE
  /\ mainPc = IF setup.format = "csv" THEN "read" ELSE "join"
  /\ at = 0
  /\ realid = [u \in UserSet |-> NoRow]
  /\ sparse_ds = [r \in 0 .. (Rows - 1) |-> <<>>]
  /\ number_users = 0

Goto(t, label) == pc' = [pc EXCEPT ![t] = label]

(* getline: a line without a newline sets eof as it is read. *)
GetLine(t) ==
  /\ line' = [line EXCEPT ![t] = IF pos < setup.n THEN pos + 1 ELSE NoLine]
  /\ pos' = IF pos < setup.n THEN pos + 1 ELSE pos
  /\ eof' = (eof \/ pos = setup.n \/ (pos + 1 = setup.n /\ ~setup.newline))

(* The test for the limit: it is off until one line was counted, and a limit  *)
(* of 0, the default, counts as 1.                                            *)
LimitReached == lines_count > 0 /\ lines_count >= setup.limit

-----------------------------------------------------------------------------
(* read_input_csv: the main thread.                                           *)

(* The lines the next round of the reading loop accepts. *)
NextBatch ==
  LET left == {setup.n - pos, BatchSize, Max({setup.limit, 1}) - lines_count}
  IN SubSeq([i \in Lines |-> i], pos + 1, pos + Min(left))

(* A batch that is not full ends the loop, and its lines are dropped. *)
ReadBatch ==
  /\ mainPc = "read"
  /\ pos' = pos + Len(NextBatch)
  /\ lines_count' = lines_count + Len(NextBatch)
  /\ IF Len(NextBatch) = BatchSize
     THEN /\ queue' = [queue EXCEPT ![at] = @ \o NextBatch]
          /\ at' = (at + 1) % NThreads
          /\ UNCHANGED mainPc
     ELSE mainPc' = "poll" /\ at' = 0 /\ UNCHANGED queue
  /\ UNCHANGED <<setup, eof, lock, threadVars, resultVars, terminate, netflixVars>>

(* A plausible bug: only the first queue is looked at. *)
PollQueueFirstOnly ==
  /\ mainPc = "poll"
  /\ queue[0] = <<>>
  /\ at' = NThreads /\ terminate' = TRUE /\ mainPc' = "join"
  /\ UNCHANGED <<setup, fileVars, lock, threadVars, resultVars, queue, netflixVars>>

(* The wait for empty queues looks at one queue after the other and starts    *)
(* again at the first when it meets one that is not empty.                    *)
PollQueue ==
  /\ mainPc = "poll"
  /\ at' = IF queue[at] = <<>> THEN at + 1 ELSE 0
  /\ IF at' = NThreads
     THEN terminate' = TRUE /\ mainPc' = "join"
     ELSE UNCHANGED <<terminate, mainPc>>
  /\ UNCHANGED <<setup, fileVars, lock, threadVars, resultVars, queue, netflixVars>>

(* All threads joined.  The CSV reader prints samples[0] before it shuffles. *)
Join ==
  /\ mainPc = "join"
  /\ \A t \in Threads : pc[t] = "done"
  /\ mainPc' = IF setup.format # "csv" THEN "done"
               ELSE IF samples = <<>> THEN "crash" ELSE "shuffle"
  /\ UNCHANGED <<setup, fileVars, lock, threadVars, resultVars, queue, terminate,
                 at, netflixVars>>

(* Two shuffles from one seed are one permutation when the sizes agree. *)
shuffle_samples_labels ==
  /\ mainPc = "shuffle"
  /\ Len(samples) = Len(labels)
  /\ \E p \in SetToSeqs(1 .. Len(samples)) :
       /\ samples' = [i \in 1 .. Len(samples) |-> samples[p[i]]]
       /\ labels' = [i \in 1 .. Len(labels) |-> labels[p[i]]]
  /\ mainPc' = "done"
  /\ UNCHANGED <<setup, fileVars, lock, threadVars, queue, terminate, at, netflixVars>>

(* read_csv_thread.                                                           *)

(* A plausible bug: the loop of a thread never looks at terminate. *)
CheckTerminateNever(t) ==
  /\ pc[t] = "top"
  /\ Goto(t, "take")
  /\ UNCHANGED <<setup, fileVars, lock, line, mine, resultVars, csvVars, netflixVars>>

CheckTerminate(t) ==
  /\ pc[t] = "top"
  /\ Goto(t, IF terminate THEN "done" ELSE "take")
  /\ UNCHANGED <<setup, fileVars, lock, line, mine, resultVars, csvVars, netflixVars>>

TakeLines(t) ==
  LET k == Min({ReadAtATime, Len(queue[t])}) IN
  /\ pc[t] = "take"
  /\ mine' = [mine EXCEPT ![t] = SubSeq(queue[t], 1, k)]
  /\ queue' = [queue EXCEPT ![t] = SubSeq(@, k + 1, Len(@))]
  /\ Goto(t, IF k = 0 THEN "top" ELSE "samples")
  /\ UNCHANGED <<setup, fileVars, lock, line, resultVars, terminate, mainPc, at,
                 netflixVars>>

(* process_lines empties its argument from the back. *)
process_lines(thread_lines) == Reverse(thread_lines)

-----------------------------------------------------------------------------
(* read_input_criteo_sparse_thread.                                           *)

ReadLine(t) ==
  /\ pc[t] = "get"
  /\ lock = Nobody
  /\ GetLine(t)
  /\ Goto(t, "eof")
  /\ UNCHANGED <<setup, lines_count, lock, mine, resultVars, csvVars, netflixVars>>

(* A plausible bug: a thread that meets the end of the file keeps its samples. *)
CheckEofReturns(t) ==
  /\ pc[t] = "eof"
  /\ Goto(t, IF eof THEN "done" ELSE "limit")
  /\ UNCHANGED <<setup, fileVars, lock, line, mine, resultVars, csvVars, netflixVars>>

(* fin.eof() is asked after fin_lock was given up: the end of the file that   *)
(* another thread meets in between takes this thread's line with it.          *)
CheckEof(t) ==
  /\ pc[t] = "eof"
  /\ Goto(t, IF eof THEN "labels" ELSE "limit")
  /\ UNCHANGED <<setup, fileVars, lock, line, mine, resultVars, csvVars, netflixVars>>

CheckLimit(t) ==
  /\ pc[t] = "limit"
  /\ Goto(t, IF LimitReached THEN "labels" ELSE "parse")
  /\ UNCHANGED <<setup, fileVars, lock, line, mine, resultVars, csvVars, netflixVars>>

ParseLine(t) ==
  /\ pc[t] = "parse"
  /\ mine' = [mine EXCEPT ![t] = Append(@, line[t])]
  /\ lines_count' = lines_count + 1
  /\ Goto(t, "get")
  /\ UNCHANGED <<setup, pos, eof, lock, line, resultVars, csvVars, netflixVars>>

(* A plausible bug: the labels are published before the lock is taken. *)
PublishFirstUnlocked(t) ==
  /\ pc[t] = "labels" \/ (setup.format = "csv" /\ pc[t] = "samples")
  /\ lock # t
  /\ labels' = labels \o mine[t]
  /\ Goto(t, "samples")
  /\ lock' = t
  /\ UNCHANGED <<setup, fileVars, line, mine, samples, csvVars, netflixVars>>

(* Publishing, first half, with the lock: criteo threads add their labels,    *)
(* CSV threads their samples, in the order of the lines again.                *)
PublishFirst(t) ==
  /\ lock = Nobody
  /\ lock' = t
  /\ \/ /\ pc[t] = "labels"
        /\ labels' = labels \o mine[t]
        /\ Goto(t, "samples")
        /\ UNCHANGED samples
     \/ /\ setup.format = "csv" /\ pc[t] = "samples"
        /\ samples' = samples \o Reverse(process_lines(mine[t]))
        /\ Goto(t, "labels")
        /\ UNCHANGED labels
  /\ UNCHANGED <<setup, fileVars, line, mine, csvVars, netflixVars>>

PublishSecond(t) ==
  /\ lock = t
  /\ lock' = Nobody
  /\ \/ /\ setup.format = "criteo"
        /\ samples' = samples \o mine[t]
        /\ Goto(t, "done")
        /\ UNCHANGED <<labels, mine>>
     \/ /\ setup.format = "csv"
        /\ labels' = labels \o Reverse(process_lines(mine[t]))
        /\ mine' = [mine EXCEPT ![t] = <<>>]
        /\ Goto(t, "top")
        /\ UNCHANGED samples
  /\ UNCHANGED <<setup, fileVars, line, csvVars, netflixVars>>

-----------------------------------------------------------------------------
(* read_netflix_input_thread.                                                 *)

(* getline and the test for the end of the file, under fin_lock. *)
NetflixReadLine(t) ==
  /\ pc[t] = "nfget"
  /\ GetLine(t)
  /\ Goto(t, IF eof' THEN "max" ELSE "map")
  /\ UNCHANGED <<setup, lines_count, lock, mine, resultVars, csvVars, netflixVars>>

user_index == Cardinality({u \in UserSet : realid[u] # NoRow})

(* A plausible bug: the number of a user comes from the users of the thread. *)
newuser_idLocal(t) == Len(mine[t])

(* The row of the user of the thread's line, the next free one at first. *)
newuser_id(t) ==
  LET u == Ratings[line[t]].user IN IF realid[u] = NoRow THEN user_index ELSE realid[u]

(* Under map_lock.  sparse_ds.at() throws for a row past the last one, which  *)
(* nobody catches.                                                            *)
MapUser(t) ==
  LET r == newuser_id(t) IN
  /\ pc[t] = "map"
  /\ realid' = [realid EXCEPT ![Ratings[line[t]].user] = r]
  /\ IF r < Rows
     THEN /\ sparse_ds' = [sparse_ds EXCEPT ![r] = Append(@, line[t])]
          /\ mine' = [mine EXCEPT ![t] = Append(@, line[t])]
          /\ Goto(t, "nfget")
          /\ UNCHANGED mainPc
     ELSE mainPc' = "crash" /\ UNCHANGED <<sparse_ds, mine, pc>>
  /\ UNCHANGED <<setup, fileVars, lock, line, resultVars, queue, terminate, at,
                 number_users>>

(* The largest row a thread used joins number_users under fin_lock. *)
PublishMax(t) ==
  /\ pc[t] = "max"
  /\ number_users' = Max({number_users} \union
                         {realid[Ratings[l].user] : l \in ToSet(mine[t])})
  /\ Goto(t, "done")
  /\ UNCHANGED <<setup, fileVars, lock, line, mine, resultVars, csvVars, realid,
                 sparse_ds>>

-----------------------------------------------------------------------------
Main == ReadBatch \/ PollQueue \/ Join \/ shuffle_samples_labels

Thread(t) ==
  \/ CheckTerminate(t) \/ TakeLines(t)
  \/ ReadLine(t) \/ CheckEof(t) \/ CheckLimit(t) \/ ParseLine(t)
  \/ PublishFirst(t) \/ PublishSecond(t)
  \/ NetflixReadLine(t) \/ MapUser(t) \/ PublishMax(t)

(* An exception that leaves a thread ends the process. *)
ReaderNext == Main \/ \E t \in Threads : mainPc # "crash" /\ Thread(t)

-----------------------------------------------------------------------------
Lost == Lines \ ToSet(samples)

(* A sample keeps its label and no line is read twice, whatever the order in  *)
(* which the threads publish (InputReader.cpp:171-178, 648-655) and the two   *)
(* shuffles: the vectors correspond whenever nobody is publishing.            *)
SamplesKeepLabels ==
  lock = Nobody => samples = labels /\ IsInjective(samples)

(* The readers that ask fin.eof() without fin_lock (line 627) lose at most    *)
(* one line for each thread but one, and the last line of a file that does    *)
(* not end in a newline, when no limit is in the way.                         *)
FewLinesLost ==
  setup.format = "criteo" /\ mainPc = "done" /\ setup.limit > setup.n =>
    Cardinality(Lost) <= (NThreads - 1) + (IF setup.newline THEN 0 ELSE 1)

(* The Criteo readers "enforce max number of lines read" (line 630), the      *)
(* "max number of training input samples" (Configuration.h:175).              *)
LimitEnforced ==
  setup.format = "criteo" /\ setup.limit > 0 => Len(samples) <= setup.limit

(* They do not, as the limit is tested before the line is counted and without *)
(* a lock: threads that pass the test together overshoot it, by one line for  *)
(* each thread but one and never by more (lines 631-644).                     *)
LimitOvershoot ==
  setup.format = "criteo" =>
    Len(samples) <= Max({setup.limit, 1}) + (NThreads - 1)

(* The CSV reader returns exactly the lines of the full batches within the    *)
(* limit: no line that was handed to a thread is lost when the queues look    *)
(* empty and terminate is set (lines 332-347).                                *)
CsvWholeBatches ==
  setup.format = "csv" /\ mainPc \in {"shuffle", "done", "crash"} =>
    ToSet(samples) =
      1 .. (BatchSize * (Min({setup.n, Max({setup.limit, 1})}) \div BatchSize))

(* Every rating of a terminated Netflix file ends up in the row of its user,  *)
(* no two users share a row, and the rows in use have no gaps (lines          *)
(* 1022-1033); number_users is the last row.                                  *)
RowsOfUsers ==
  setup.format = "netflix" /\ mainPc = "done" =>
    /\ \A l \in Lines : Cardinality({r \in 0 .. (Rows - 1) : l \in ToSet(sparse_ds[r])})
                        = IF l = setup.n /\ ~setup.newline THEN 0 ELSE 1
    /\ \A r \in 0 .. (Rows - 1) :
         /\ Cardinality({Ratings[l].user : l \in ToSet(sparse_ds[r])}) =
              IF r < user_index THEN 1 ELSE 0
         /\ IsInjective(sparse_ds[r])
    /\ user_index > 0 => number_users = user_index - 1
=============================================================================
