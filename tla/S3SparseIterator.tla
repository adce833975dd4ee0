-------------------------- MODULE S3SparseIterator --------------------------
(* S3SparseIterator (S3SparseIterator.cpp): a prefetch thread downloads S3    *)
(* objects, cuts each one into minibatches and queues them in a ring; the     *)
(* training or error task takes them one by one with getNext().               *)
(*                                                                            *)
(* The two threads meet in pref_sem (permission to fetch one more object),    *)
(* semaphore (minibatches ready), num_minibatches_ready, the ring (under      *)
(* ring_lock) and list_strings, the std::map that owns the downloaded bytes,  *)
(* which neither side locks.  Every minibatch in the ring is a raw pointer    *)
(* into a string of that map.                                                 *)
(*                                                                            *)
(* The ring is the queue that CircularBuffer implements; an add that takes    *)
(* its last free slot makes it look empty (RingAdd).                          *)
EXTENDS Integers, Sequences

CONSTANTS ReadAhead,       \* read_ahead
          ReadyThreshold,  \* the 200 of getNext()
          NMinibatches,    \* s3_rows / minibatch_rows
          Capacity,        \* slots of minibatches_list
          LeftId, RightId, \* object ids [LeftId, RightId)
          Versions         \* number of values of str_version before it wraps

ASSUME ReadAheadAssumption == ReadAhead \in Nat \ {0}
ASSUME ThresholdAssumption == ReadyThreshold \in Nat \ {0}
\* Configuration.cpp:119-127: s3_size is a multiple of minibatch_size.
ASSUME MinibatchesAssumption == NMinibatches \in Nat \ {0}
ASSUME RangeAssumption == /\ LeftId \in Nat
                          /\ RightId \in Nat
                          /\ LeftId < RightId
\* S3SparseIterator.cpp:30: 100000 slots, far more than the 203 needed.
ASSUME CapacityAssumption ==
         Capacity \in Nat /\ Capacity > ReadyThreshold + ReadAhead + 2
ASSUME VersionsAssumption ==
         Versions \in Nat /\ Versions > ReadyThreshold + ReadAhead + 3

VARIABLES
  ctor,          \* "spawned": thread running, current not yet assigned; "done"
  random_access, \* constructor argument
  current,       \* next object id of a sequential iterator
  loaded,        \* value of current loaded by the ++ in getObjId
  objId,         \* object the prefetch thread is fetching
  prefPc,        \* prefetch thread
  pref_sem, semaphore, num_minibatches_ready,
  uncounted,     \* iterations left in the posting loop of pushSamples
  ring,          \* minibatches_list, a sequence of queues
  list_strings,  \* versions whose downloaded bytes are alive
  str_version,
  getPc,         \* thread that calls getNext()
  to_delete,
  ret,           \* minibatch getNext() took last
  mapRace        \* two unsynchronised accesses to list_strings overlapped

prefVars == <<random_access, current, loaded, objId, prefPc, uncounted,
              str_version>>
getVars == <<getPc, to_delete, ret>>
vars == <<ctor, prefVars, pref_sem, semaphore, num_minibatches_ready, ring,
          list_strings, getVars, mapRace>>

-----------------------------------------------------------------------------
VersionSet == 0 .. (Versions - 1)
NoVersion == -1

(* A minibatch: the string it points into, its place in the object, and the   *)
(* version to delete once it has been used (NoVersion except for the last).   *)
Minibatch == [ver : VersionSet, mb : 1 .. NMinibatches,
              last : VersionSet \union {NoVersion}]

NoMinibatch == [ver |-> NoVersion, mb |-> 0, last |-> NoVersion]

(* A plausible bug: the string is freed with one minibatch still unread. *)
MinibatchesOfMarksEarly(v) ==
  [i \in 1 .. NMinibatches |->
     [ver |-> v, mb |-> i,
      last |-> IF i + 1 = NMinibatches \/ NMinibatches = 1 THEN v
               ELSE NoVersion]]

(* pushSamples, the queue it builds for one object. *)
MinibatchesOf(v) ==
  [i \in 1 .. NMinibatches |->
     [ver |-> v, mb |-> i,
      last |-> IF i = NMinibatches THEN v ELSE NoVersion]]

PrefPcs == {"wait", "load", "store", "get", "failed", "push", "insert", "add",
            "count", "post"}
GetPcs == {"idle", "erase", "wait", "take", "ready", "value", "signal", "build"}

TypeOK ==
  /\ ctor \in {"spawned", "done"}
  /\ random_access \in BOOLEAN
  /\ current \in Nat
  /\ loaded \in Nat
  /\ objId \in Nat
  /\ prefPc \in PrefPcs
  /\ pref_sem \in Nat
  /\ semaphore \in Nat
  /\ num_minibatches_ready \in Nat
  /\ uncounted \in 0 .. NMinibatches
  /\ ring \in Seq(Seq(Minibatch))
  /\ list_strings \in SUBSET VersionSet
  /\ str_version \in VersionSet
  /\ getPc \in GetPcs
  /\ to_delete \in VersionSet \union {NoVersion}
  /\ ret \in Minibatch \union {NoMinibatch}
  /\ mapRace \in BOOLEAN

Init ==
  /\ ctor = "spawned"
  /\ random_access \in BOOLEAN
  /\ current = 0
  /\ loaded = 0
  /\ objId = 0
  /\ prefPc = "wait"
  /\ pref_sem = ReadAhead
  /\ semaphore = 0
  /\ num_minibatches_ready = 0
  /\ uncounted = 0
  /\ ring = <<>>
  /\ list_strings = {}
  /\ str_version = 0
  /\ getPc = "idle"
  /\ to_delete = NoVersion
  /\ ret = NoMinibatch
  /\ mapRace = FALSE

(* The constructor starts the thread first and only then initialises current. *)
ConstructorReturns ==
  /\ ctor = "spawned"
  /\ ctor' = "done"
  /\ current' = IF random_access THEN current ELSE LeftId
  /\ UNCHANGED <<random_access, loaded, objId, prefPc, uncounted, str_version,
                 pref_sem, semaphore, num_minibatches_ready, ring,
                 list_strings, getVars, mapRace>>

-----------------------------------------------------------------------------
(* The prefetch thread: threadFunction, getObjId and pushSamples.             *)

PrefWait ==
  /\ prefPc = "wait"
  /\ pref_sem > 0
  /\ pref_sem' = pref_sem - 1
  /\ prefPc' = "load"
  /\ UNCHANGED <<ctor, random_access, current, loaded, objId, uncounted,
                 str_version, semaphore, num_minibatches_ready, ring,
                 list_strings, getVars, mapRace>>

(* getObjId of a random iterator samples an id in the range. *)
SampleObjId ==
  /\ prefPc = "load"
  /\ random_access
  /\ objId' \in LeftId .. (RightId - 1)
  /\ prefPc' = "get"
  /\ UNCHANGED <<ctor, random_access, current, loaded, uncounted, str_version,
                 pref_sem, semaphore, num_minibatches_ready, ring,
                 list_strings, getVars, mapRace>>

(* getObjId of a sequential iterator: ret = current++, an unprotected load    *)
(* and store that the constructor's assignment can fall between.              *)
LoadCurrent ==
  /\ prefPc = "load"
  /\ ~random_access
  /\ loaded' = current
  /\ prefPc' = "store"
  /\ UNCHANGED <<ctor, random_access, current, objId, uncounted, str_version,
                 pref_sem, semaphore, num_minibatches_ready, ring,
                 list_strings, getVars, mapRace>>

StoreCurrent ==
  /\ prefPc = "store"
  /\ objId' = loaded
  /\ current' = IF loaded + 1 = RightId THEN LeftId ELSE loaded + 1
  /\ prefPc' = "get"
  /\ UNCHANGED <<ctor, random_access, loaded, uncounted, str_version,
                 pref_sem, semaphore, num_minibatches_ready, ring,
                 list_strings, getVars, mapRace>>

(* The download throws: logged, then goto try_start with the same id. *)
S3GetFails ==
  /\ prefPc = "get"
  /\ prefPc' = "failed"
  /\ UNCHANGED <<ctor, random_access, current, loaded, objId, uncounted,
                 str_version, pref_sem, semaphore, num_minibatches_ready,
                 ring, list_strings, getVars, mapRace>>

(* A plausible bug: the goto goes back to the handler. *)
S3RetrySpins == prefPc = "failed" /\ UNCHANGED vars

S3Retry ==
  /\ prefPc = "failed"
  /\ prefPc' = "get"
  /\ UNCHANGED <<ctor, random_access, current, loaded, objId, uncounted,
                 str_version, pref_sem, semaphore, num_minibatches_ready,
                 ring, list_strings, getVars, mapRace>>

S3GetSucceeds ==
  /\ prefPc = "get"
  /\ prefPc' = "push"
  /\ UNCHANGED <<ctor, random_access, current, loaded, objId, uncounted,
                 str_version, pref_sem, semaphore, num_minibatches_ready,
                 ring, list_strings, getVars, mapRace>>

(* pushSamples enters list_strings[str_version] = ... ; no lock is held. *)
BeginInsert ==
  /\ prefPc = "push"
  /\ prefPc' = "insert"
  /\ mapRace' = (mapRace \/ getPc = "erase")
  /\ UNCHANGED <<ctor, random_access, current, loaded, objId, uncounted,
                 str_version, pref_sem, semaphore, num_minibatches_ready,
                 ring, list_strings, getVars>>

(* Once an insertion and an erasure have overlapped the tree is undefined:    *)
(* the update of either may be lost.                                          *)
EndInsert ==
  /\ prefPc = "insert"
  /\ prefPc' = "add"
  /\ \/ list_strings' = list_strings \union {str_version}
     \/ mapRace /\ UNCHANGED list_strings
  /\ UNCHANGED <<ctor, random_access, current, loaded, objId, uncounted,
                 str_version, pref_sem, semaphore, num_minibatches_ready,
                 ring, getVars, mapRace>>

RingAdd(q) == IF Len(ring) + 1 = Capacity THEN <<>> ELSE Append(ring, q)

(* A plausible bug: the posting loop runs once too often. *)
AddQueuePostsExtra ==
  /\ prefPc = "add"
  /\ ring' = RingAdd(MinibatchesOf(str_version))
  /\ uncounted' = NMinibatches + 1
  /\ prefPc' = "count"
  /\ UNCHANGED <<ctor, random_access, current, loaded, objId, str_version,
                 pref_sem, semaphore, num_minibatches_ready, list_strings,
                 getVars, mapRace>>

AddQueue ==
  /\ prefPc = "add"
  /\ ring' = RingAdd(MinibatchesOf(str_version))
  /\ uncounted' = NMinibatches
  /\ prefPc' = "count"
  /\ UNCHANGED <<ctor, random_access, current, loaded, objId, str_version,
                 pref_sem, semaphore, num_minibatches_ready, list_strings,
                 getVars, mapRace>>

(* A plausible bug: the counter is not kept for the first minibatch. *)
CountMinibatchSkipsOne ==
  /\ prefPc = "count"
  /\ uncounted > 0
  /\ num_minibatches_ready' = IF uncounted = NMinibatches
                              THEN num_minibatches_ready
                              ELSE num_minibatches_ready + 1
  /\ uncounted' = uncounted - 1
  /\ prefPc' = "post"
  /\ UNCHANGED <<ctor, random_access, current, loaded, objId, str_version,
                 pref_sem, semaphore, ring, list_strings, getVars, mapRace>>

CountMinibatch ==
  /\ prefPc = "count"
  /\ uncounted > 0
  /\ num_minibatches_ready' = num_minibatches_ready + 1
  /\ uncounted' = uncounted - 1
  /\ prefPc' = "post"
  /\ UNCHANGED <<ctor, random_access, current, loaded, objId, str_version,
                 pref_sem, semaphore, ring, list_strings, getVars, mapRace>>

PostMinibatch ==
  /\ prefPc = "post"
  /\ semaphore' = semaphore + 1
  /\ prefPc' = "count"
  /\ UNCHANGED <<ctor, random_access, current, loaded, objId, uncounted,
                 str_version, pref_sem, num_minibatches_ready, ring,
                 list_strings, getVars, mapRace>>

PushDone ==
  /\ prefPc = "count"
  /\ uncounted = 0
  /\ str_version' = (str_version + 1) % Versions
  /\ prefPc' = "wait"
  /\ UNCHANGED <<ctor, random_access, current, loaded, objId, uncounted,
                 pref_sem, semaphore, num_minibatches_ready, ring,
                 list_strings, getVars, mapRace>>

-----------------------------------------------------------------------------
(* The consumer: getNext.                                                     *)

CallGetNext ==
  /\ ctor = "done"
  /\ getPc = "idle"
  /\ getPc' = IF to_delete # NoVersion THEN "erase" ELSE "wait"
  /\ mapRace' = (mapRace \/ (to_delete # NoVersion /\ prefPc = "insert"))
  /\ UNCHANGED <<ctor, prefVars, pref_sem, semaphore, num_minibatches_ready,
                 ring, list_strings, to_delete, ret>>

EraseString ==
  /\ getPc = "erase"
  /\ getPc' = "wait"
  /\ \/ list_strings' = list_strings \ {to_delete}
     \/ mapRace /\ UNCHANGED list_strings
  /\ UNCHANGED <<ctor, prefVars, pref_sem, semaphore, num_minibatches_ready,
                 ring, to_delete, ret, mapRace>>

SemWait ==
  /\ getPc = "wait"
  /\ semaphore > 0
  /\ semaphore' = semaphore - 1
  /\ getPc' = "take"
  /\ UNCHANGED <<ctor, prefVars, pref_sem, num_minibatches_ready, ring,
                 list_strings, to_delete, ret, mapRace>>

FirstNonempty(k) ==
  /\ k \in 1 .. Len(ring)
  /\ ring[k] # <<>>
  /\ \A j \in 1 .. (k - 1) : ring[j] = <<>>

(* A plausible bug: the queue is dropped with its first minibatch. *)
PoppedQueue(r, k) == SubSeq(r, k + 1, Len(r))

(* The ring without its first k - 1 queues and the first minibatch of the kth. *)
Popped(r, k) == <<Tail(r[k])>> \o SubSeq(r, k + 1, Len(r))

(* Under ring_lock: discard the empty queues at the front, take the first     *)
(* minibatch.  The queue it came from stays, even when it is now empty.  On a *)
(* ring without a minibatch front() would throw and end the task: no step.    *)
TakeMinibatch ==
  /\ getPc = "take"
  /\ \E k \in 1 .. Len(ring) :
       /\ FirstNonempty(k)
       /\ ret' = Head(ring[k])
       /\ to_delete' = Head(ring[k]).last
       /\ ring' = Popped(ring, k)
  /\ num_minibatches_ready' = num_minibatches_ready - 1
  /\ getPc' = "ready"
  /\ UNCHANGED <<ctor, prefVars, pref_sem, semaphore, list_strings, mapRace>>

(* num_minibatches_ready < 200 && pref_sem.getvalue() < read_ahead, then      *)
(* pref_sem.signal(): three accesses the prefetch thread can run between.     *)
ReadReady ==
  /\ getPc = "ready"
  /\ getPc' = IF num_minibatches_ready < ReadyThreshold THEN "value" ELSE "build"
  /\ UNCHANGED <<ctor, prefVars, pref_sem, semaphore, num_minibatches_ready,
                 ring, list_strings, to_delete, ret, mapRace>>

(* A plausible bug: the read-ahead limit is not looked at. *)
ReadPrefSemNoLimit ==
  /\ getPc = "value"
  /\ getPc' = "signal"
  /\ UNCHANGED <<ctor, prefVars, pref_sem, semaphore, num_minibatches_ready,
                 ring, list_strings, to_delete, ret, mapRace>>

ReadPrefSem ==
  /\ getPc = "value"
  /\ getPc' = IF pref_sem < ReadAhead THEN "signal" ELSE "build"
  /\ UNCHANGED <<ctor, prefVars, pref_sem, semaphore, num_minibatches_ready,
                 ring, list_strings, to_delete, ret, mapRace>>

SignalPrefetch ==
  /\ getPc = "signal"
  /\ pref_sem' = pref_sem + 1
  /\ getPc' = "build"
  /\ UNCHANGED <<ctor, prefVars, semaphore, num_minibatches_ready, ring,
                 list_strings, to_delete, ret, mapRace>>

(* SparseDataset copies the bytes ret points at; then getNext returns. *)
BuildDataset ==
  /\ getPc = "build"
  /\ getPc' = "idle"
  /\ UNCHANGED <<ctor, prefVars, pref_sem, semaphore, num_minibatches_ready,
                 ring, list_strings, to_delete, ret, mapRace>>

-----------------------------------------------------------------------------
PrefetchStep ==
  \/ PrefWait \/ SampleObjId \/ LoadCurrent \/ StoreCurrent
  \/ S3Retry \/ BeginInsert \/ EndInsert \/ AddQueue
  \/ CountMinibatch \/ PostMinibatch \/ PushDone

GetNextStep ==
  \/ EraseString \/ SemWait \/ TakeMinibatch \/ ReadReady \/ ReadPrefSem
  \/ SignalPrefetch \/ BuildDataset

Next ==
  \/ ConstructorReturns \/ CallGetNext
  \/ S3GetFails \/ S3GetSucceeds
  \/ PrefetchStep \/ GetNextStep

(* The operating system runs both threads; a download that is retried for     *)
(* ever eventually succeeds.  Nothing forces the task to call getNext().      *)
Fairness ==
  /\ WF_vars(ConstructorReturns)
  /\ WF_vars(PrefetchStep)
  /\ WF_vars(GetNextStep)
  /\ SF_vars(S3GetSucceeds)

Spec == Init /\ [][Next]_vars

FairSpec == Spec /\ Fairness

-----------------------------------------------------------------------------
(* Safety.                                                                    *)

Successor(m) ==
  IF m = NoMinibatch THEN MinibatchesOf(0)[1]
  ELSE IF m.mb < NMinibatches THEN MinibatchesOf(m.ver)[m.mb + 1]
  ELSE MinibatchesOf((m.ver + 1) % Versions)[1]

(* Whenever getNext() gets past sem_wait there is a minibatch in the ring, so *)
(* neither front() nor pop() (S3SparseIterator.cpp:78-83) ever throws: the    *)
(* count in the semaphore never runs ahead of the queues.                     *)
FrontNeverThrows ==
  getPc = "take" => \E k \in 1 .. Len(ring) : ring[k] # <<>>

(* The prefetch thread never adds to a ring with one free slot, which         *)
(* CircularBuffer::add would turn into an empty one: the two limits that      *)
(* getNext() checks (line 95) bound the objects fetched, although it checks   *)
(* them without a lock.                                                       *)
RingHasRoom == prefPc = "add" => Len(ring) + 1 < Capacity

(* The read-ahead limit holds although value and signal are two accesses.     *)
ReadAheadLimit ==
  /\ pref_sem <= ReadAhead
  /\ getPc = "signal" => pref_sem < ReadAhead

(* Minibatches in ring r when only its first queue is partly consumed. *)
ItemsIn(r) == IF r = <<>> THEN 0 ELSE (Len(r) - 1) * NMinibatches + Len(r[1])

Items == ItemsIn(ring)

One(b) == IF b THEN 1 ELSE 0

(* Only the oldest queue is partly consumed, and the two counts of ready      *)
(* minibatches, one kept by ++/-- and one by post/wait, agree with what is in *)
(* the queues at every point of the posting loop (lines 172-175).             *)
CountsAgree ==
  /\ \A k \in 1 .. Len(ring) : Len(ring[k]) <= NMinibatches
  /\ \A k \in 2 .. Len(ring) : Len(ring[k]) = NMinibatches
  /\ uncounted > 0 => prefPc \in {"count", "post"}
  /\ Items = num_minibatches_ready + uncounted
  /\ num_minibatches_ready =
       semaphore + One(getPc = "take") + One(prefPc = "post")

Fetching == prefPc \in {"load", "store", "get", "failed", "push", "insert", "add"}

Potential == Items + NMinibatches * (pref_sem + One(Fetching))

(* Minibatches queued, being fetched and permitted: a signal sent on values   *)
(* that were read earlier can overshoot by one object and no more.            *)
PrefetchBounded ==
  /\ Potential <= ReadyThreshold - 1 + NMinibatches * (ReadAhead + 2)
  /\ getPc \in {"value", "signal"} =>
       Potential <= ReadyThreshold - 1 + NMinibatches * (ReadAhead + 1)

InHand == getPc \in {"ready", "value", "signal", "build"}

(* As long as the map operations do not overlap, the string a queued or a     *)
(* delivered minibatch points into is alive until SparseDataset has copied    *)
(* it: erase (line 67) only frees what nobody reads any more.                 *)
NoDanglingPointer ==
  ~mapRace =>
    /\ \A k \in 1 .. Len(ring) : \A i \in 1 .. Len(ring[k]) :
         ring[k][i].ver \in list_strings
    /\ InHand => ret.ver \in list_strings

(* Downloads are not hoarded: besides the queued objects only the one being   *)
(* pushed and the one being consumed are in memory.                           *)
NoLeak ==
  ~mapRace => \A v \in list_strings :
    \/ v = str_version \/ v = ret.ver
    \/ \E k \in 1 .. Len(ring) : \E i \in 1 .. Len(ring[k]) : ring[k][i].ver = v

(* list_strings owns the strings that are in use and no others.               *)
StringsOwned == NoDanglingPointer /\ NoLeak

(* getNext() hands out every minibatch of every object exactly once and in    *)
(* order, through empty queues, failed downloads and races on the counters.   *)
DeliveredInOrder ==
  [][getPc = "take" /\ getPc' = "ready" => ret' = Successor(ret)]_vars

(* A sequential iterator only fetches objects of its range, whose "right id   *)
(* is exclusive" (S3SparseIterator.cpp:16).                                   *)
FetchesInRange == prefPc = "get" => objId \in LeftId .. (RightId - 1)

(* A task that waits in getNext() gets its minibatch: the two semaphores      *)
(* never leave both threads waiting for each other.                           *)
GetNextReturns == getPc = "wait" ~> getPc = "idle"
=============================================================================
