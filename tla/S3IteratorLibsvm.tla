-------------------------- MODULE S3IteratorLibsvm --------------------------
(* S3IteratorLibsvm.{h,cpp}: a background thread fetches ranges of a LIBSVM   *)
(* file, parses them and puts lists of minibatches into a ring; getNext()     *)
(* takes them out.  S3 requests that fail are retried at once, for ever,      *)
(* which is a stuttering step here.                                           *)
EXTENDS LibsvmParser, SequencesExt

CONSTANTS Setups,      \* see SetupOK
          Capacity,    \* slots of the ring (100000)
          ReadyLimit,  \* prefetch while fewer minibatches are ready (200)
          Lists,       \* lists of minibatches
          NoList       \* content of a slot that was never written

read_ahead == 1

(* The text of a line, and that of a file. *)
Line(line) ==
  line.label
    \o FlattenSeq([i \in 1 .. Len(line.feats) |->
                     line.space \o line.feats[i][1] \o <<":">> \o line.feats[i][2]])
    \o <<"\n">>

Text(lines) == FlattenSeq([i \in 1 .. Len(lines) |-> Line(lines[i])])

(* A file as its lines [label, feats], with the spaces between their fields,  *)
(* and as its text, in which the last newline may be missing; FETCH_SIZE,     *)
(* random_access and minibatch_rows.                                          *)
SetupOK(s) ==
  /\ s.text \in {Text(s.lines), Front(Text(s.lines))} /\ s.text \in Seq(Chars)
  /\ s.fetch \in Nat \ {0} /\ s.rows \in Nat \ {0} /\ s.random \in BOOLEAN

ASSUME SetupsAssumption == \A s \in Setups : SetupOK(s)
ASSUME LimitAssumption == ReadyLimit \in Nat \ {0}
(* 100000 in the code, where the sum is 203. *)
ASSUME CapacityAssumption == Capacity \in Nat /\ Capacity > ReadyLimit + read_ahead + 2

file_size(s) == Len(s.text)

(* What S3 returns for "bytes=first-second": up to second and with it, or to  *)
(* the end of the file.                                                       *)
Data(s, r) == SubSeq(s.text, r[1] + 1, Min({r[2] + 1, file_size(s)}))

RandomRange(s, left_index) ==
  LET left == IF file_size(s) - left_index < s.fetch THEN file_size(s) - s.fetch ELSE left_index
  IN <<left, left + s.fetch>>

SequentialRange(s, cur) == <<cur, Min({cur + s.fetch, file_size(s)})>>

(* Every range that getFileRange can return. *)
Ranges(s) ==
  IF file_size(s) < s.fetch THEN {<<0, file_size(s)>>}
  ELSE IF s.random THEN {RandomRange(s, i) : i \in 0 .. (file_size(s) - 1)}
  ELSE {SequentialRange(s, s.fetch * i) : i \in 0 .. ((file_size(s) - 1) \div s.fetch)}

(* What the parser makes of each range, as a table that is built once. *)
ParseTable ==
  FoldSet(LAMBDA sr, table : (sr :> parseObjLibsvm(Data(sr[1], sr[2]), sr[1].rows)) @@ table,
          <<>>, UNION {{s} \X Ranges(s) : s \in Setups})

Parsed(s, r) == ParseTable[<<s, r>>]

(* Lists has what the parser returns, and what is left of it.                 *)
ASSUME ListsAssumption ==
  /\ IsFiniteSet(Lists) /\ <<>> \in Lists /\ NoList \notin Lists
  /\ \A s \in Setups : \A r \in Ranges(s) : Parsed(s, r).got \in Lists
  /\ \A list \in Lists : /\ list \in Seq(ToSet(list))
                         /\ list # <<>> => Front(list) \in Lists

VARIABLES
  setup,
  cur_index,             \* where the next sequential range starts
  fpc, range, dataset, todo,        \* fetch thread; minibatches left to post
  buffer, front, tail, out,         \* minibatches_list
  ring_lock,             \* "free", "fetch" or "next"
  semaphore, pref_sem, num_minibatches_ready,
  cpc, got,              \* getNext() and the minibatch it returns
  aborted                \* an exception that nobody catches

ringVars == <<buffer, front, tail, out>>
vars == <<setup, cur_index, fpc, range, dataset, todo, ringVars, ring_lock, semaphore,
          pref_sem, num_minibatches_ready, cpc, got, aborted>>

Ring == INSTANCE CircularBuffer WITH Items <- Lists, NoItem <- NoList

Init ==
  /\ setup \in Setups
  /\ cur_index = 0
  /\ fpc = "wait" /\ range = <<0, 0>> /\ dataset = <<>> /\ todo = 0
  /\ Ring!Init
  /\ ring_lock = "free"
  /\ semaphore = 0 /\ pref_sem = read_ahead /\ num_minibatches_ready = 0
  /\ cpc = "call" /\ got = <<>>
  /\ aborted = FALSE

-----------------------------------------------------------------------------
(* threadFunction and pushSamples.                                            *)

PrefWait ==
  /\ fpc = "wait" /\ pref_sem > 0
  /\ pref_sem' = pref_sem - 1
  /\ fpc' = "range"
  /\ UNCHANGED <<setup, cur_index, range, dataset, todo, ringVars, ring_lock, semaphore,
                 num_minibatches_ready, cpc, got, aborted>>

getFileRange ==
  /\ fpc = "range"
  /\ \/ /\ file_size(setup) < setup.fetch
        /\ range' = <<0, file_size(setup)>>
        /\ UNCHANGED cur_index
     \/ /\ file_size(setup) >= setup.fetch /\ setup.random
        /\ \E left_index \in 0 .. (file_size(setup) - 1) :
             range' = RandomRange(setup, left_index)
        /\ UNCHANGED cur_index
     \/ /\ file_size(setup) >= setup.fetch /\ ~setup.random
        /\ LET cur == IF cur_index >= file_size(setup) THEN 0 ELSE cur_index IN
           /\ range' = SequentialRange(setup, cur)
           /\ cur_index' = Min({cur + setup.fetch, file_size(setup)})
  /\ fpc' = "get"
  /\ UNCHANGED <<setup, dataset, todo, ringVars, ring_lock, semaphore, pref_sem,
                 num_minibatches_ready, cpc, got, aborted>>

(* The range arrives and is parsed; what the parser throws ends the process. *)
GetAndParse ==
  LET parsed == Parsed(setup, range) IN
  /\ fpc = "get"
  /\ aborted' = (parsed.status = "throw")
  /\ dataset' = parsed.got
  /\ fpc' = "add"
  /\ UNCHANGED <<setup, cur_index, range, todo, ringVars, ring_lock, semaphore, pref_sem,
                 num_minibatches_ready, cpc, got>>

AddList ==
  /\ fpc = "add" /\ ring_lock = "free"
  /\ Ring!add(dataset)
  /\ todo' = Len(dataset)
  /\ fpc' = IF dataset = <<>> THEN "wait" ELSE "count"
  /\ UNCHANGED <<setup, cur_index, range, dataset, ring_lock, semaphore, pref_sem,
                 num_minibatches_ready, cpc, got, aborted>>

CountMinibatch ==
  /\ fpc = "count"
  /\ num_minibatches_ready' = num_minibatches_ready + 1
  /\ fpc' = "post"
  /\ UNCHANGED <<setup, cur_index, range, dataset, todo, ringVars, ring_lock, semaphore,
                 pref_sem, cpc, got, aborted>>

PostMinibatch ==
  /\ fpc = "post"
  /\ semaphore' = semaphore + 1
  /\ todo' = todo - 1
  /\ fpc' = IF todo = 1 THEN "wait" ELSE "count"
  /\ UNCHANGED <<setup, cur_index, range, dataset, ringVars, ring_lock, pref_sem,
                 num_minibatches_ready, cpc, got, aborted>>

-----------------------------------------------------------------------------
(* getNext(), called again and again.                                         *)

SemWait ==
  /\ cpc = "call" /\ semaphore > 0
  /\ semaphore' = semaphore - 1
  /\ cpc' = "lock"
  /\ UNCHANGED <<setup, cur_index, fpc, range, dataset, todo, ringVars, ring_lock, pref_sem,
                 num_minibatches_ready, got, aborted>>

LockRing ==
  /\ cpc = "lock" /\ ring_lock = "free"
  /\ ring_lock' = "next"
  /\ cpc' = "front"
  /\ UNCHANGED <<setup, cur_index, fpc, range, dataset, todo, ringVars, semaphore, pref_sem,
                 num_minibatches_ready, got, aborted>>

(* front() of an empty ring would throw; TokensMatch is why it never does. *)
PopEmpty ==
  /\ cpc = "front" /\ Ring!size # 0 /\ buffer[front] = <<>>
  /\ Ring!pop
  /\ UNCHANGED <<setup, cur_index, fpc, range, dataset, todo, ring_lock, semaphore, pref_sem,
                 num_minibatches_ready, cpc, got, aborted>>

(* A plausible bug: back() without pop_back(). *)
RestOfStays(list) == list

RestOf(list) == Front(list)

(* The last minibatch of the list. *)
TakeMinibatch ==
  /\ cpc = "front" /\ Ring!size # 0 /\ buffer[front] # <<>>
  /\ got' = Last(buffer[front])
  /\ Ring!update(RestOf(buffer[front]))
  /\ num_minibatches_ready' = num_minibatches_ready - 1
  /\ ring_lock' = "free"
  /\ cpc' = "ready"
  /\ UNCHANGED <<setup, cur_index, fpc, range, dataset, todo, semaphore, pref_sem, aborted>>

ReadReady ==
  /\ cpc = "ready"
  /\ cpc' = IF num_minibatches_ready < ReadyLimit THEN "value" ELSE "call"
  /\ UNCHANGED <<setup, cur_index, fpc, range, dataset, todo, ringVars, ring_lock, semaphore,
                 pref_sem, num_minibatches_ready, got, aborted>>

(* A plausible bug: one less than the ring should be ahead. *)
ReadPrefSemShort ==
  /\ cpc = "value"
  /\ cpc' = IF pref_sem < read_ahead - 1 THEN "signal" ELSE "call"
  /\ UNCHANGED <<setup, cur_index, fpc, range, dataset, todo, ringVars, ring_lock, semaphore,
                 pref_sem, num_minibatches_ready, got, aborted>>

ReadPrefSem ==
  /\ cpc = "value"
  /\ cpc' = IF pref_sem < read_ahead THEN "signal" ELSE "call"
  /\ UNCHANGED <<setup, cur_index, fpc, range, dataset, todo, ringVars, ring_lock, semaphore,
                 pref_sem, num_minibatches_ready, got, aborted>>

SignalPrefetch ==
  /\ cpc = "signal"
  /\ pref_sem' = pref_sem + 1
  /\ cpc' = "call"
  /\ UNCHANGED <<setup, cur_index, fpc, range, dataset, todo, ringVars, ring_lock, semaphore,
                 num_minibatches_ready, got, aborted>>

-----------------------------------------------------------------------------
Fetcher == \/ PrefWait \/ getFileRange \/ GetAndParse \/ AddList
           \/ CountMinibatch \/ PostMinibatch

GetNext == \/ SemWait \/ LockRing \/ PopEmpty \/ TakeMinibatch
           \/ ReadReady \/ ReadPrefSem \/ SignalPrefetch

Next == ~aborted /\ (Fetcher \/ GetNext)

(* The threads are scheduled, S3 answers in the end, and the worker goes on   *)
(* calling getNext().                                                         *)
Spec == /\ Init /\ [][Next]_vars
        /\ WF_vars(~aborted /\ Fetcher) /\ WF_vars(~aborted /\ GetNext)

-----------------------------------------------------------------------------
MaxList == Max({Len(list) : list \in Lists})

TypeOK ==
  /\ setup \in Setups
  /\ fpc \in {"wait", "range", "get", "add", "count", "post"}
  /\ cpc \in {"call", "lock", "front", "ready", "value", "signal"}
  /\ 0 <= range[1] /\ range[1] <= range[2] /\ range[2] <= file_size(setup)
  /\ Ring!TypeOK
  /\ ring_lock \in {"free", "next"}
  /\ semaphore \in Nat /\ num_minibatches_ready \in Nat /\ pref_sem \in 0 .. read_ahead
  /\ aborted \in BOOLEAN

(* The lines of the file that lie in the bytes fetched, r[1] to r[2] with     *)
(* both, that have a line end before them and their own newline there, in     *)
(* minibatches of rows lines each.                                            *)
WholeLines(s, r) ==
  LET end[i \in 0 .. Len(s.lines)] == IF i = 0 THEN 0 ELSE end[i - 1] + Len(Line(s.lines[i]))
      here == SelectSeq([i \in 1 .. Len(s.lines) |-> i],
                        LAMBDA i : r[1] < end[i - 1] /\ end[i] <= r[2] + 1)
      sample(i) == [label |-> s.lines[i].label, feats |-> s.lines[i].feats]
  IN [m \in 1 .. (Len(here) \div s.rows) |->
        [k \in 1 .. s.rows |-> sample(here[(m - 1) * s.rows + k])]]

(* However a range cuts the file, the parser makes of it exactly the whole    *)
(* lines it holds past its first newline: no number is cut short, no sample   *)
(* is made of two lines (S3IteratorLibsvm.cpp:177-320), and the byte at the   *)
(* range's right end counts, as S3Client.cpp:117 asks for it.                 *)
WholeLinesOnly ==
  fpc = "add" /\ ~aborted => dataset = WholeLines(setup, range)

(* Ranges that the parser throws at, although "we found a partially cut       *)
(* sample" is meant to return false (line 203): one that ends just after a    *)
(* colon, one that has no second line, and any that shows a sign.             *)
AbortOnlyAtCut ==
  aborted =>
    LET data == Data(setup, range) IN
    \/ Last(data) = ":"
    \/ \A i \in 1 .. (Len(data) - 1) : data[i] # "\n"
    \/ Contains(data, "-")

(* The tokens of the semaphore and of the threads add up to the minibatches   *)
(* in the ring: a getNext() that passed sem_wait finds one, whichever lists   *)
(* are empty (lines 61-72, 337-344).                                          *)
TokensMatch ==
  LET lens == [i \in 1 .. Len(Ring!Contents) |-> Len(Ring!Contents[i])]
      waiting == IF cpc \in {"lock", "front"} THEN 1 ELSE 0
      unposted == IF fpc \in {"count", "post"} THEN todo ELSE 0
  IN FoldLeft(LAMBDA a, b : a + b, 0, lens) = semaphore + waiting + unposted

(* Prefetching stops.  getNext() looks at the count, at pref_sem and signals  *)
(* in three steps: since the count was below ReadyLimit the list that was     *)
(* being added, the one whose token was waiting and the one that is signalled *)
(* for may come, and no more (lines 74-80).                                   *)
PrefetchBounded == semaphore <= ReadyLimit - 1 + (read_ahead + 2) * MaxList

(* The semaphore counts the minibatches of the ring, and their number is      *)
(* bounded.                                                                   *)
SemaphoreRight == TokensMatch /\ PrefetchBounded

(* The ring of this user is a queue of lists: it never overflows, and lists   *)
(* that are emptied in place leave in order (CircularBuffer.h:51-125).        *)
RingIsFifo == Ring!ImplementsFifo

(* Whether every range gives at least one minibatch.  Where one does not, an  *)
(* empty list is added and nothing is posted: the fetcher and getNext() wait  *)
(* for each other for ever.                                                   *)
Suffices(s) == \A r \in Ranges(s) : Parsed(s, r).status = "ok" /\ Parsed(s, r).got # <<>>

(* getNext() goes on returning minibatches, and a sequential reader comes     *)
(* around to every range of the file again and again.                         *)
MinibatchesKeepComing ==
  \A s \in {s \in Setups : Suffices(s)} :
    setup = s => /\ []<>(cpc = "ready")
                 /\ ~s.random => \A r \in Ranges(s) : []<>(range = r)
=============================================================================
