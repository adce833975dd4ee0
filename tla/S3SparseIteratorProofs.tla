----------------------- MODULE S3SparseIteratorProofs -----------------------
(* For every read-ahead, threshold, number of minibatches per object and     *)
(* object range: S3SparseIterator is type correct, its counters agree with   *)
(* its queues, it never reads an empty ring and never overflows it, it keeps *)
(* exactly the strings in use alive and delivers every minibatch in order.   *)
EXTENDS S3SparseIterator, TLAPS

CountInv == TypeOK /\ CountsAgree /\ ReadAheadLimit /\ PrefetchBounded

-----------------------------------------------------------------------------
(* Arithmetic and sequences.                                                  *)

LEMMA OneFact == \A b \in BOOLEAN : One(b) \in {0, 1} /\ (b <=> One(b) = 1)
BY DEF One

(* A product with a positive factor is at least the other factor. *)
LEMMA ProductLarge ==
  ASSUME NEW a \in Nat, NEW n \in Nat \ {0}
  PROVE  a * n >= a /\ a * n \in Nat
OBVIOUS

LEMMA NatClosed == \A x, y \in Nat : x + y \in Nat /\ x * y \in Nat
OBVIOUS

LEMMA Distribute ==
  ASSUME NEW a \in Int, NEW b \in Int, NEW n \in Int
  PROVE  /\ (a + b) * n = a * n + b * n
         /\ n * (a + b) = n * a + n * b
         /\ a * n \in Int /\ b * n \in Int /\ n * a \in Int /\ n * b \in Int
OBVIOUS

(* Popping the empty queues and the first minibatch of the next one.          *)
LEMMA PopShape ==
  ASSUME NEW S, NEW r \in Seq(Seq(S)), NEW k \in 1 .. Len(r), r[k] # <<>>
  PROVE  /\ Popped(r, k) \in Seq(Seq(S))
         /\ Len(Popped(r, k)) = Len(r) - k + 1
         /\ Popped(r, k)[1] = Tail(r[k])
         /\ Len(Popped(r, k)[1]) = Len(r[k]) - 1
         /\ \A j \in 2 .. Len(Popped(r, k)) : Popped(r, k)[j] = r[j + k - 1]
<1> DEFINE t == SubSeq(r, k + 1, Len(r))
<1>1. r[k] \in Seq(S) /\ Len(r[k]) >= 1
  OBVIOUS
<1>2. Tail(r[k]) \in Seq(S) /\ Len(Tail(r[k])) = Len(r[k]) - 1
  BY <1>1
<1>3. t \in Seq(Seq(S)) /\ Len(t) = Len(r) - k
  OBVIOUS
<1>4. \A j \in 1 .. Len(t) : t[j] = r[j + k]
  OBVIOUS
<1>5. <<Tail(r[k])>> \in Seq(Seq(S)) /\ Len(<<Tail(r[k])>>) = 1
  BY <1>2
<1> HIDE DEF t
<1>6. /\ Popped(r, k) \in Seq(Seq(S)) /\ Len(Popped(r, k)) = Len(t) + 1
      /\ Popped(r, k)[1] = Tail(r[k])
  BY <1>3, <1>5 DEF t, Popped
<1>7. \A j \in 2 .. Len(Popped(r, k)) : Popped(r, k)[j] = t[j - 1]
  BY <1>3, <1>5, <1>6 DEF t, Popped
<1>8. ASSUME NEW j \in 2 .. Len(Popped(r, k)) PROVE Popped(r, k)[j] = r[j + k - 1]
  <2>1. k \in Nat /\ Len(r) \in Nat /\ Len(t) \in Nat /\ j \in Nat
    BY <1>3, <1>6
  <2>2. j - 1 \in 1 .. Len(t) /\ (j - 1) + k = j + k - 1
    BY <1>6, <2>1
  <2> QED
    BY <1>4, <1>7, <2>2
<1>9. Len(Popped(r, k)) = Len(r) - k + 1
  BY <1>3, <1>6
<1> QED
  BY <1>2, <1>6, <1>8, <1>9

-----------------------------------------------------------------------------
(* Type correctness.  The one value that could leave its type is              *)
(* num_minibatches_ready, which the count invariant keeps positive at "take". *)

LEMMA CountInvInit == Init => CountInv
<1> SUFFICES ASSUME Init PROVE CountInv
  OBVIOUS
<1> USE ReadAheadAssumption, ThresholdAssumption, MinibatchesAssumption,
        VersionsAssumption DEF Init
<1>1. TypeOK
  <2>1. ring \in Seq(Seq(Minibatch)) /\ list_strings \in SUBSET VersionSet
    OBVIOUS
  <2>2. str_version \in VersionSet
    BY DEF VersionSet
  <2>3. /\ random_access \in BOOLEAN
        /\ to_delete \in VersionSet \union {NoVersion}
        /\ ret \in Minibatch \union {NoMinibatch}
        /\ mapRace \in BOOLEAN
    BY Zenon
  <2>4. ctor \in {"spawned", "done"} /\ prefPc \in PrefPcs /\ getPc \in GetPcs
    BY DEF PrefPcs, GetPcs
  <2>5. /\ current \in Nat /\ loaded \in Nat /\ objId \in Nat
        /\ pref_sem \in Nat /\ semaphore \in Nat
        /\ num_minibatches_ready \in Nat /\ uncounted \in 0 .. NMinibatches
    OBVIOUS
  <2> QED
    BY <2>1, <2>2, <2>3, <2>4, <2>5 DEF TypeOK
<1>2. CountsAgree
  BY DEF CountsAgree, Items, ItemsIn, One
<1>3. ReadAheadLimit
  BY DEF ReadAheadLimit
<1>4. PrefetchBounded
  <2>1. Potential = NMinibatches * ReadAhead
    BY DEF Potential, Items, ItemsIn, One, Fetching
  <2>2. NMinibatches * (ReadAhead + 2) = NMinibatches * ReadAhead + NMinibatches * 2
    BY Distribute
  <2>3. NMinibatches * ReadAhead \in Nat /\ NMinibatches * 2 \in Nat
    OBVIOUS
  <2> QED
    BY <2>1, <2>2, <2>3 DEF PrefetchBounded
<1> QED
  BY <1>1, <1>2, <1>3, <1>4 DEF CountInv

LEMMA TypeStep ==
  ASSUME TypeOK, CountsAgree, [Next]_vars
  PROVE  TypeOK'
<1> USE ReadAheadAssumption, ThresholdAssumption, MinibatchesAssumption,
        RangeAssumption, VersionsAssumption
    DEF TypeOK
<1>1. CASE ConstructorReturns
  BY <1>1 DEF ConstructorReturns, getVars
<1>2. CASE CallGetNext
  BY <1>2 DEF CallGetNext, prefVars, GetPcs
<1>3. CASE S3GetFails
  BY <1>3 DEF S3GetFails, getVars, PrefPcs
<1>4. CASE S3GetSucceeds
  BY <1>4 DEF S3GetSucceeds, getVars, PrefPcs
<1>5. CASE PrefetchStep
  <2>1. CASE PrefWait
    BY <2>1 DEF PrefWait, getVars, PrefPcs
  <2>2. CASE SampleObjId
    BY <2>2 DEF SampleObjId, getVars, PrefPcs
  <2>3. CASE LoadCurrent
    BY <2>3 DEF LoadCurrent, getVars, PrefPcs
  <2>4. CASE StoreCurrent
    BY <2>4 DEF StoreCurrent, getVars, PrefPcs
  <2>5. CASE S3Retry
    BY <2>5 DEF S3Retry, getVars, PrefPcs
  <2>6. CASE BeginInsert
    BY <2>6 DEF BeginInsert, getVars, PrefPcs
  <2>7. CASE EndInsert
    BY <2>7 DEF EndInsert, getVars, PrefPcs
  <2>8. CASE AddQueue
    <3>1. MinibatchesOf(str_version) \in Seq(Minibatch)
      BY DEF MinibatchesOf, Minibatch, VersionSet
    <3>2. ring' \in Seq(Seq(Minibatch))
      BY <2>8, <3>1 DEF AddQueue, RingAdd
    <3> QED
      BY <2>8, <3>2 DEF AddQueue, getVars, PrefPcs
  <2>9. CASE CountMinibatch
    BY <2>9 DEF CountMinibatch, getVars, PrefPcs
  <2>10. CASE PostMinibatch
    BY <2>10 DEF PostMinibatch, getVars, PrefPcs
  <2>11. CASE PushDone
    <3>1. (str_version + 1) % Versions \in VersionSet
      BY DEF VersionSet
    <3> QED
      BY <2>11, <3>1 DEF PushDone, getVars, PrefPcs
  <2> QED
    BY <1>5, <2>1, <2>2, <2>3, <2>4, <2>5, <2>6, <2>7, <2>8, <2>9, <2>10,
       <2>11 DEF PrefetchStep
<1>6. CASE GetNextStep
  <2>1. CASE EraseString
    BY <2>1 DEF EraseString, prefVars, GetPcs
  <2>2. CASE SemWait
    BY <2>2 DEF SemWait, prefVars, GetPcs
  <2>3. CASE TakeMinibatch
    <3>1. PICK k \in 1 .. Len(ring) :
            /\ ring[k] # <<>>
            /\ ret' = Head(ring[k])
            /\ to_delete' = Head(ring[k]).last
            /\ ring' = Popped(ring, k)
      BY <2>3 DEF TakeMinibatch, FirstNonempty
    <3>2. ring' \in Seq(Seq(Minibatch))
      BY <3>1, PopShape
    <3>3. Head(ring[k]) \in Minibatch
      BY <3>1
    <3>4. to_delete' \in VersionSet \union {NoVersion}
      BY <3>1, <3>3 DEF Minibatch
    <3>5. num_minibatches_ready >= 1
      BY <2>3 DEF TakeMinibatch, CountsAgree, One
    <3>6. num_minibatches_ready' \in Nat /\ getPc' \in GetPcs
      BY <2>3, <3>5 DEF TakeMinibatch, GetPcs
    <3>7. ret' \in Minibatch \union {NoMinibatch}
      BY <3>1, <3>3
    <3> QED
      BY <2>3, <3>2, <3>4, <3>6, <3>7 DEF TakeMinibatch, prefVars
  <2>4. CASE ReadReady
    BY <2>4 DEF ReadReady, prefVars, GetPcs
  <2>5. CASE ReadPrefSem
    BY <2>5 DEF ReadPrefSem, prefVars, GetPcs
  <2>6. CASE SignalPrefetch
    BY <2>6 DEF SignalPrefetch, prefVars, GetPcs
  <2>7. CASE BuildDataset
    BY <2>7 DEF BuildDataset, prefVars, GetPcs
  <2> QED
    BY <1>6, <2>1, <2>2, <2>3, <2>4, <2>5, <2>6, <2>7 DEF GetNextStep
<1>7. CASE UNCHANGED vars
  BY <1>7 DEF vars, prefVars, getVars
<1> QED
  BY <1>1, <1>2, <1>3, <1>4, <1>5, <1>6, <1>7 DEF Next

-----------------------------------------------------------------------------
(* The counts.                                                                *)

Outstanding == pref_sem + One(Fetching)

LEMMA ItemsEmpty == ring = <<>> => Items = 0
BY Zenon DEF Items, ItemsIn

LEMMA ItemsNonempty ==
  ring # <<>> => Items = (Len(ring) - 1) * NMinibatches + Len(ring[1])
BY Zenon DEF Items, ItemsIn

LEMMA ItemsInNat ==
  ASSUME NEW S, NEW r \in Seq(Seq(S))
  PROVE  ItemsIn(r) \in Nat
<1> USE MinibatchesAssumption
<1>1. CASE r = <<>>
  BY <1>1 DEF ItemsIn
<1>2. CASE r # <<>>
  <2>1. Len(r) - 1 \in Nat /\ Len(r[1]) \in Nat
    BY <1>2
  <2>2. (Len(r) - 1) * NMinibatches \in Nat
    BY <2>1, ProductLarge
  <2>3. ItemsIn(r) = (Len(r) - 1) * NMinibatches + Len(r[1])
    BY <1>2, Zenon DEF ItemsIn
  <2> QED
    BY <2>1, <2>2, <2>3, NatClosed, Zenon
<1> QED
  BY <1>1, <1>2

LEMMA ItemsNat ==
  ASSUME TypeOK
  PROVE  /\ Items \in Nat
         /\ Outstanding \in Nat /\ Outstanding <= pref_sem + 1
         /\ Potential = Items + NMinibatches * Outstanding
<1>1. Items \in Nat
  BY ItemsInNat DEF Items, TypeOK
<1> QED
  BY <1>1 DEF Outstanding, Potential, One, TypeOK

(* What a step does to the counts when it touches neither the ring nor the    *)
(* number of objects permitted or in flight.                                  *)
LEMMA QuietStep ==
  ASSUME ring' = ring, Outstanding' = Outstanding
  PROVE  Items' = Items /\ Potential' = Potential
BY DEF Items, Outstanding, Potential

(* getNext() past sem_wait finds a minibatch in the first or second queue.    *)
LEMMA TakeFinds ==
  ASSUME TypeOK, CountsAgree, getPc = "take"
  PROVE  /\ ring # <<>>
         /\ Items >= 1
         /\ ring[1] # <<>> \/ (Len(ring) >= 2 /\ ring[2] # <<>>)
<1> USE MinibatchesAssumption DEF TypeOK
<1>1. Items >= 1
  BY DEF CountsAgree, One
<1>2. ring # <<>>
  BY <1>1, ItemsEmpty
<1>3. Len(ring) \in Nat /\ Len(ring) >= 1 /\ ring[1] \in Seq(Minibatch)
  BY <1>2
<1>4. CASE Len(ring) = 1
  <2>1. Items = Len(ring[1])
    BY <1>2, <1>3, <1>4, ItemsNonempty
  <2>2. ring[1] # <<>>
    BY <1>1, <1>3, <2>1
  <2> QED
    BY <1>1, <1>2, <2>2
<1>5. CASE Len(ring) >= 2
  <2>1. Len(ring[2]) = NMinibatches
    BY <1>3, <1>5 DEF CountsAgree
  <2>2. ring[2] # <<>>
    BY <2>1
  <2> QED
    BY <1>1, <1>2, <1>5, <2>2
<1>6. Len(ring) = 1 \/ Len(ring) >= 2
  <2>1. ASSUME NEW a \in Nat, a >= 1 PROVE a = 1 \/ a >= 2
    BY <2>1
  <2> QED
    BY <1>3, <2>1
<1> QED
  BY <1>4, <1>5, <1>6

LEMMA RingHasRoomLemma ==
  ASSUME TypeOK, CountsAgree, PrefetchBounded, prefPc = "add"
  PROVE  Len(ring) + 1 < Capacity
<1> USE MinibatchesAssumption, ReadAheadAssumption, ThresholdAssumption,
        CapacityAssumption
    DEF TypeOK
<1> DEFINE n == NMinibatches
           L == Len(ring) - 1
<1>1. CASE ring = <<>>
  BY <1>1
<1>2. CASE ring # <<>>
  <2>1. L \in Nat /\ Len(ring[1]) \in Nat
    BY <1>2
  <2>2. Items = L * n + Len(ring[1]) /\ L * n \in Nat
    BY <1>2, <2>1, ProductLarge, ItemsNonempty
  <2>3. Outstanding \in Nat /\ Outstanding >= 1
    BY DEF Outstanding, One, Fetching
  <2>4. n * Outstanding >= n
    <3>1. n * Outstanding = n * (Outstanding - 1) + n
      BY <2>3, Distribute
    <3>2. n * (Outstanding - 1) \in Nat
      BY <2>3
    <3> QED
      BY <3>1, <3>2
  <2>5. L * n + n <= ReadyThreshold - 1 + n * (ReadAhead + 2)
    <3>1. Items + n * Outstanding <= ReadyThreshold - 1 + n * (ReadAhead + 2)
      BY ItemsNat DEF PrefetchBounded
    <3>2. n * Outstanding \in Nat /\ n * (ReadAhead + 2) \in Nat
      BY <2>3
    <3> HIDE DEF n, L, TypeOK
    <3>3. n \in Nat
      BY DEF n
    <3>4. L * n <= Items
      BY <2>1, <2>2
    <3>5. Items \in Nat
      BY ItemsNat
    <3> QED
      BY <2>2, <2>4, <3>1, <3>2, <3>3, <3>4, <3>5
  <2>6. L < ReadyThreshold + ReadAhead + 1
    <3>1. SUFFICES ASSUME L >= ReadyThreshold + ReadAhead + 1 PROVE FALSE
      BY <2>1
    <3> DEFINE d == L - (ReadAhead + 1)
    <3>2. d \in Nat /\ d >= ReadyThreshold /\ L + 1 = d + (ReadAhead + 2)
      BY <2>1, <3>1
    <3>3. L * n + n = (L + 1) * n
      BY <2>1, Distribute
    <3>4. (d + (ReadAhead + 2)) * n = d * n + (ReadAhead + 2) * n
      BY <3>2, Distribute
    <3>5. d * n >= d /\ d * n \in Nat
      BY <3>2, ProductLarge
    <3>6. (ReadAhead + 2) * n = n * (ReadAhead + 2) /\ n * (ReadAhead + 2) \in Nat
      OBVIOUS
    <3> HIDE DEF d, n, L
    <3>7. L * n + n = d * n + n * (ReadAhead + 2)
      BY <3>2, <3>3, <3>4, <3>6
    <3> QED
      BY <2>5, <3>2, <3>5, <3>6, <3>7
  <2> QED
    BY <2>1, <2>6
<1> QED
  BY <1>1, <1>2

LEMMA CountsStep ==
  ASSUME TypeOK, CountsAgree, ReadAheadLimit, PrefetchBounded, TypeOK', [Next]_vars
  PROVE  CountsAgree'
<1> USE MinibatchesAssumption
<1>1. CASE UNCHANGED <<ring, uncounted, num_minibatches_ready, semaphore>>
           /\ (getPc' = "take" <=> getPc = "take")
           /\ (prefPc' = "post" <=> prefPc = "post")
           /\ (uncounted > 0 => prefPc' \in {"count", "post"})
  BY <1>1 DEF CountsAgree, Items, One
<1>2. CASE AddQueue
  <2> DEFINE q == MinibatchesOf(str_version)
  <2>1. q \in Seq(Minibatch) /\ Len(q) = NMinibatches
    BY DEF TypeOK, MinibatchesOf, Minibatch, VersionSet
  <2> HIDE DEF q
  <2>2. Len(ring) + 1 < Capacity
    BY <1>2, RingHasRoomLemma DEF AddQueue
  <2>3. ring' = Append(ring, q)
    BY <1>2, <2>2 DEF AddQueue, RingAdd, q, TypeOK
  <2>4. /\ Len(ring') = Len(ring) + 1 /\ ring'[Len(ring) + 1] = q
        /\ \A k \in 1 .. Len(ring) : ring'[k] = ring[k]
        /\ ring' # <<>> /\ Len(ring) \in Nat
    <3>1. ring \in Seq(Seq(Minibatch))
      BY DEF TypeOK
    <3> QED BY <2>1, <2>3, <3>1
  <2>5. Items' = Items + NMinibatches
    <3>1. Items' = Len(ring) * NMinibatches + Len(ring'[1])
      BY <2>4 DEF Items, ItemsIn
    <3>2. CASE ring = <<>>
      BY <2>1, <2>4, <3>1, <3>2, ItemsEmpty
    <3>3. CASE ring # <<>>
      <4>1. Len(ring) \in Nat /\ ring'[1] = ring[1] /\ Len(ring[1]) \in Nat
        <5>1. ring \in Seq(Seq(Minibatch))
          BY DEF TypeOK
        <5> QED BY <2>4, <3>3, <5>1
      <4>2. Len(ring) * NMinibatches = (Len(ring) - 1) * NMinibatches + NMinibatches
        BY <4>1, Distribute
      <4>3. Items = (Len(ring) - 1) * NMinibatches + Len(ring[1])
        BY <3>3, ItemsNonempty
      <4> DEFINE p == (Len(ring) - 1) * NMinibatches
      <4>4. p \in Int
        BY <4>1
      <4> HIDE DEF p
      <4>5. Items' = p + NMinibatches + Len(ring[1]) /\ Items = p + Len(ring[1])
        BY <3>1, <4>1, <4>2, <4>3 DEF p
      <4>6. Items' \in Int /\ Items \in Int /\ NMinibatches \in Int
        BY <4>1, <4>4, <4>5
      <4>7. Len(ring[1]) \in Int
        BY <4>1
      <4>8. \A x, y, z \in Int : (x + y) + z = (x + z) + y
        OBVIOUS
      <4> QED
        BY <4>4, <4>5, <4>6, <4>7, <4>8, Zenon
    <3> QED
      BY <3>2, <3>3
  <2>6. /\ \A k \in 1 .. Len(ring') : Len(ring'[k]) <= NMinibatches
        /\ \A k \in 2 .. Len(ring') : Len(ring'[k]) = NMinibatches
    BY <2>1, <2>4 DEF CountsAgree
  <2>7. /\ uncounted = 0 /\ uncounted' = NMinibatches /\ prefPc' = "count"
        /\ prefPc = "add" /\ getPc' = getPc
        /\ UNCHANGED <<semaphore, num_minibatches_ready>>
    BY <1>2 DEF AddQueue, CountsAgree, getVars, TypeOK
  <2>8. Items = num_minibatches_ready /\ Items' = num_minibatches_ready' + uncounted'
    BY <2>5, <2>7 DEF CountsAgree, TypeOK
  <2> QED
    BY <2>6, <2>7, <2>8 DEF CountsAgree, One
<1>3. CASE CountMinibatch
  <2>1. Items' = Items
    BY <1>3 DEF CountMinibatch, Items
  <2> QED
    BY <1>3, <2>1 DEF CountMinibatch, CountsAgree, getVars, One, TypeOK
<1>4. CASE PostMinibatch
  <2>1. Items' = Items
    BY <1>4 DEF PostMinibatch, Items
  <2> QED
    BY <1>4, <2>1 DEF PostMinibatch, CountsAgree, getVars, One, TypeOK
<1>5. CASE SemWait
  <2>1. Items' = Items
    BY <1>5 DEF SemWait, Items
  <2> QED
    BY <1>5, <2>1 DEF SemWait, CountsAgree, prefVars, One, TypeOK
<1>6. CASE TakeMinibatch
  <2>1. PICK k \in 1 .. Len(ring) :
          /\ FirstNonempty(k)
          /\ ring' = Popped(ring, k)
    BY <1>6 DEF TakeMinibatch
  <2>2. /\ Len(ring') = Len(ring) - k + 1 /\ Len(ring'[1]) = Len(ring[k]) - 1
        /\ \A j \in 2 .. Len(ring') : ring'[j] = ring[j + k - 1]
    <3>1. ring \in Seq(Seq(Minibatch)) /\ ring[k] # <<>>
      BY <2>1 DEF FirstNonempty, TypeOK
    <3>2. /\ Len(ring') = Len(ring) - k + 1
          /\ Len(ring'[1]) = Len(ring[k]) - 1
      BY <2>1, <3>1, PopShape, Zenon
    <3>3. \A j \in 2 .. Len(ring') : ring'[j] = ring[j + k - 1]
      BY <2>1, <3>1, PopShape, Zenon
    <3> QED
      BY <3>2, <3>3
  <2>3. /\ Len(ring) \in Nat /\ Len(ring') \in Nat /\ ring' # <<>> /\ ring # <<>>
        /\ \A j \in 1 .. Len(ring) : Len(ring[j]) \in Nat
    <3>1. Len(ring) \in Nat /\ Len(ring') \in Nat /\ Len(ring') >= 1
      <4>1. Len(ring) \in Nat /\ k \in Int /\ k <= Len(ring)
        BY <2>1 DEF TypeOK
      <4> QED
        BY <2>2, <4>1
    <3>2. ring' # <<>> /\ ring # <<>>
      BY <2>1, <3>1
    <3>3. \A j \in 1 .. Len(ring) : Len(ring[j]) \in Nat
      <4>1. ring \in Seq(Seq(Minibatch))
        BY DEF TypeOK
      <4> QED
        BY <4>1
    <3> QED
      BY <3>1, <3>2, <3>3
  <2>4. k = 1 \/ (k = 2 /\ ring[1] = <<>>)
    <3>1. ring[1] # <<>> \/ (Len(ring) >= 2 /\ ring[2] # <<>>)
      BY <1>6, TakeFinds DEF TakeMinibatch
    <3> QED
      BY <2>1, <3>1 DEF FirstNonempty
  <2>5. /\ \A j \in 1 .. Len(ring') : Len(ring'[j]) <= NMinibatches
        /\ \A j \in 2 .. Len(ring') : Len(ring'[j]) = NMinibatches
    <3>1. ASSUME NEW j \in 2 .. Len(ring') PROVE Len(ring'[j]) = NMinibatches
      <4>1. j + k - 1 \in 2 .. Len(ring)
        BY <2>2, <2>3
      <4> QED
        BY <2>2, <3>1, <4>1 DEF CountsAgree
    <3>2. Len(ring'[1]) <= NMinibatches
      BY <2>2, <2>3 DEF CountsAgree
    <3>3. \A j \in 1 .. Len(ring') : j = 1 \/ j \in 2 .. Len(ring')
      BY <2>3
    <3> QED
      BY <3>1, <3>2, <3>3
  <2>6. Items' = Items - 1
    <3>1. Items = (Len(ring) - 1) * NMinibatches + Len(ring[1])
      BY <2>3, ItemsNonempty
    <3>2. Items' = (Len(ring) - k) * NMinibatches + Len(ring[k]) - 1
      <4>1. Items' = (Len(ring') - 1) * NMinibatches + Len(ring'[1])
        BY <2>3 DEF Items, ItemsIn
      <4>2. Len(ring') - 1 = Len(ring) - k
        BY <2>2, <2>3
      <4>3. (Len(ring) - k) * NMinibatches \in Int
        BY <2>3
      <4> QED
        BY <2>2, <2>3, <4>1, <4>2, <4>3
    <3>3. CASE k = 1
      BY <2>3, <3>1, <3>2, <3>3
    <3>4. CASE k = 2 /\ ring[1] = <<>>
      <4>1. Len(ring[k]) = NMinibatches /\ Len(ring[1]) = 0
        BY <3>4 DEF CountsAgree
      <4>2. (Len(ring) - 1) * NMinibatches = (Len(ring) - k) * NMinibatches + NMinibatches
        BY <2>3, <3>4, Distribute
      <4>3. (Len(ring) - k) * NMinibatches \in Int
        BY <2>3
      <4> QED
        BY <3>1, <3>2, <4>1, <4>2, <4>3
    <3> QED
      BY <2>4, <3>3, <3>4
  <2>7. /\ getPc = "take" /\ getPc' = "ready"
        /\ num_minibatches_ready' = num_minibatches_ready - 1
        /\ UNCHANGED <<prefPc, uncounted, semaphore>>
    BY <1>6 DEF TakeMinibatch, prefVars
  <2>8. Items' = num_minibatches_ready' + uncounted'
    <3>1. /\ Items = num_minibatches_ready + uncounted
          /\ num_minibatches_ready \in Int /\ uncounted \in Int
      BY DEF CountsAgree, TypeOK
    <3> QED
      BY <2>6, <2>7, <3>1
  <2>9. num_minibatches_ready' =
          semaphore' + One(getPc' = "take") + One(prefPc' = "post")
    BY <2>7 DEF CountsAgree, One, TypeOK
  <2> QED
    BY <2>5, <2>7, <2>8, <2>9 DEF CountsAgree
<1>7. CASE \/ ConstructorReturns \/ CallGetNext \/ S3GetFails \/ S3GetSucceeds
           \/ UNCHANGED vars
  BY <1>1, <1>7
  DEF ConstructorReturns, CallGetNext, S3GetFails, S3GetSucceeds, vars, prefVars,
      getVars, CountsAgree, TypeOK
<1>8. CASE \/ PrefWait \/ SampleObjId \/ LoadCurrent \/ StoreCurrent \/ S3Retry
           \/ BeginInsert \/ EndInsert \/ PushDone
  <2> USE <1>8 DEF PrefWait, SampleObjId, LoadCurrent, StoreCurrent, S3Retry,
                   BeginInsert, EndInsert, PushDone
  <2>1. ~ (uncounted > 0)
    BY DEF CountsAgree
  <2>2. UNCHANGED <<ring, uncounted, num_minibatches_ready, semaphore, getPc>>
    BY DEF getVars
  <2>3. prefPc' # "post" /\ prefPc # "post"
    OBVIOUS
  <2> QED
    BY <1>1, <2>1, <2>2, <2>3
<1>9. CASE \/ EraseString \/ ReadReady \/ ReadPrefSem \/ SignalPrefetch
           \/ BuildDataset
  BY <1>1, <1>9
  DEF EraseString, ReadReady, ReadPrefSem, SignalPrefetch, BuildDataset, prefVars,
      CountsAgree, TypeOK
<1> QED
  BY <1>2, <1>3, <1>4, <1>5, <1>6, <1>7, <1>8, <1>9
  DEF Next, PrefetchStep, GetNextStep

LEMMA LimitStep ==
  ASSUME TypeOK, ReadAheadLimit, [Next]_vars
  PROVE  ReadAheadLimit'
<1> USE ReadAheadAssumption DEF ReadAheadLimit, TypeOK
<1>1. CASE ConstructorReturns \/ CallGetNext \/ S3GetFails \/ S3GetSucceeds
  BY <1>1
  DEF ConstructorReturns, CallGetNext, S3GetFails, S3GetSucceeds, getVars
<1>2. CASE PrefetchStep
  BY <1>2
  DEF PrefetchStep, PrefWait, SampleObjId, LoadCurrent, StoreCurrent, S3Retry,
      BeginInsert, EndInsert, AddQueue, CountMinibatch, PostMinibatch, PushDone,
      getVars
<1>3. CASE GetNextStep
  BY <1>3
  DEF GetNextStep, EraseString, SemWait, TakeMinibatch, ReadReady, ReadPrefSem,
      SignalPrefetch, BuildDataset
<1>4. CASE UNCHANGED vars
  BY <1>4 DEF vars, getVars
<1> QED
  BY <1>1, <1>2, <1>3, <1>4 DEF Next

LEMMA BoundStep ==
  ASSUME TypeOK, TypeOK', CountsAgree, ReadAheadLimit, PrefetchBounded,
         CountsAgree', [Next]_vars
  PROVE  PrefetchBounded'
<1> USE MinibatchesAssumption, ReadAheadAssumption, ThresholdAssumption
<1> DEFINE low == ReadyThreshold - 1 + NMinibatches * (ReadAhead + 1)
           high == ReadyThreshold - 1 + NMinibatches * (ReadAhead + 2)
<1>1. /\ Items \in Nat /\ Items' \in Nat
      /\ Outstanding \in Nat /\ Outstanding' \in Nat
      /\ Potential = Items + NMinibatches * Outstanding
      /\ Potential' = Items' + NMinibatches * Outstanding'
  <2>1. Items' \in Nat
    BY ItemsInNat DEF Items, TypeOK
  <2>2. Outstanding' \in Nat /\ Potential' = Items' + NMinibatches * Outstanding'
    <3>1. Outstanding' \in Nat
      <4>1. pref_sem' \in Nat /\ One(Fetching)' \in Nat
        BY DEF One, TypeOK
      <4> QED
        BY <4>1, NatClosed, Zenon DEF Outstanding
    <3>2. Potential' = Items' + NMinibatches * Outstanding'
      BY DEF Potential, Outstanding
    <3> QED
      BY <3>1, <3>2
  <2> QED
    BY <2>1, <2>2, ItemsNat
<1>2. low \in Int /\ high = low + NMinibatches
  <2>1. NMinibatches * (ReadAhead + 2) = NMinibatches * (ReadAhead + 1) + NMinibatches
    BY Distribute
  <2>2. NMinibatches * (ReadAhead + 1) \in Int
    OBVIOUS
  <2> QED
    BY <2>1, <2>2
<1>3. Potential \in Nat /\ Potential' \in Nat
  <2>1. NMinibatches * Outstanding \in Nat /\ NMinibatches * Outstanding' \in Nat
    BY <1>1, NatClosed, Zenon
  <2> QED
    BY <1>1, <2>1, NatClosed, Zenon
<1>4. /\ Potential <= high
      /\ getPc \in {"value", "signal"} => Potential <= low
  BY DEF PrefetchBounded
<1> HIDE DEF low, high
<1>5. SUFFICES /\ Potential' <= high
               /\ getPc' \in {"value", "signal"} => Potential' <= low
  BY DEF PrefetchBounded, low, high
<1>6. CASE /\ Potential' <= Potential
           /\ getPc' \in {"value", "signal"} => getPc \in {"value", "signal"}
  BY <1>2, <1>3, <1>4, <1>6
<1>7. CASE ReadReady
  <2>1. /\ Items' = Items /\ Outstanding' = Outstanding /\ Potential' = Potential
    BY <1>7, QuietStep DEF ReadReady, prefVars, Outstanding, Fetching, One
  <2>2. CASE num_minibatches_ready < ReadyThreshold
    \* posting and fetching exclude each other
    <3>1. Items + NMinibatches * One(Fetching) <= ReadyThreshold - 1 + NMinibatches
      BY <2>2 DEF CountsAgree, TypeOK, One, Fetching
    <3>2. NMinibatches * pref_sem <= NMinibatches * ReadAhead
      BY DEF ReadAheadLimit, TypeOK
    <3>3. /\ NMinibatches * Outstanding = NMinibatches * pref_sem + NMinibatches * One(Fetching)
          /\ NMinibatches * (ReadAhead + 1) = NMinibatches * ReadAhead + NMinibatches
      BY Distribute DEF Outstanding, One, TypeOK
    <3> DEFINE a == NMinibatches * pref_sem
               b == NMinibatches * One(Fetching)
               c == NMinibatches * ReadAhead
    <3>4. a \in Nat /\ b \in Nat /\ c \in Nat
      BY DEF One, TypeOK
    <3>5. Potential = Items + (a + b) /\ low = ReadyThreshold - 1 + (c + NMinibatches)
      BY <1>1, <3>3 DEF low
    <3> HIDE DEF a, b, c
    <3>6. Items + b <= ReadyThreshold - 1 + NMinibatches /\ a <= c
      BY <3>1, <3>2 DEF a, b, c
    <3>7. Potential <= low
      BY <1>1, <3>4, <3>5, <3>6
    <3> QED
      BY <1>2, <1>3, <2>1, <3>7
  <2>3. CASE ~ (num_minibatches_ready < ReadyThreshold)
    BY <1>3, <1>4, <1>7, <2>1, <2>3 DEF ReadReady
  <2> QED
    BY <2>2, <2>3
<1>8. CASE SignalPrefetch
  <2>1. Items' = Items /\ Outstanding' = Outstanding + 1
    BY <1>8 DEF SignalPrefetch, prefVars, Outstanding, Fetching, One, Items, TypeOK
  <2>2. NMinibatches * (Outstanding + 1) = NMinibatches * Outstanding + NMinibatches
    BY <1>1, Distribute
  <2>3. Potential' = Potential + NMinibatches
    BY <1>1, <2>1, <2>2
  <2> QED
    BY <1>2, <1>3, <1>4, <1>8, <2>3 DEF SignalPrefetch
<1>9. CASE AddQueue
  <2>1. /\ pref_sem' = pref_sem /\ getPc' = getPc /\ Fetching /\ ~Fetching'
        /\ prefPc = "add" /\ prefPc' = "count" /\ uncounted' = NMinibatches
        /\ num_minibatches_ready' = num_minibatches_ready
    BY <1>9 DEF AddQueue, getVars, Fetching
  <2>2. Items' = Items + NMinibatches
    <3>1. /\ Items = num_minibatches_ready + uncounted
          /\ Items' = num_minibatches_ready' + uncounted'
          /\ uncounted > 0 => prefPc \in {"count", "post"}
      BY DEF CountsAgree
    <3>2. uncounted \in Nat /\ num_minibatches_ready \in Int
      BY DEF TypeOK
    <3> QED
      BY <1>1, <2>1, <3>1, <3>2
  <2>3. Outstanding = Outstanding' + 1
    BY <2>1 DEF Outstanding, One, TypeOK
  <2>4. NMinibatches * (Outstanding' + 1) = NMinibatches * Outstanding' + NMinibatches
    BY <1>1, Distribute
  <2> DEFINE p == NMinibatches * Outstanding'
  <2>5. p \in Nat
    BY <1>1, NatClosed, Zenon
  <2>6. Potential' = Items' + p /\ Potential = Items + (p + NMinibatches)
    BY <1>1, <2>3, <2>4
  <2> HIDE DEF p
  <2>7. \A x, y, z \in Int : x + (y + z) = (x + z) + y
    OBVIOUS
  <2>8. NMinibatches \in Int /\ p \in Int /\ Items \in Int
    BY <1>1, <2>5
  <2>9. Potential' = Potential
    BY <2>2, <2>6, <2>7, <2>8, Zenon
  <2> QED
    BY <1>3, <1>6, <2>1, <2>9
<1>10. CASE TakeMinibatch
  <2>1. /\ UNCHANGED <<pref_sem, prefPc, uncounted>> /\ getPc' = "ready"
        /\ num_minibatches_ready' = num_minibatches_ready - 1
    BY <1>10 DEF TakeMinibatch, prefVars
  <2>2. Items' <= Items
    <3>1. /\ Items = num_minibatches_ready + uncounted
          /\ Items' = (num_minibatches_ready - 1) + uncounted
          /\ num_minibatches_ready \in Int /\ uncounted \in Int
      BY <2>1 DEF CountsAgree, TypeOK
    <3> QED
      BY <3>1
  <2>3. Outstanding' = Outstanding
    BY <2>1 DEF Outstanding, Fetching, One
  <2> DEFINE p == NMinibatches * Outstanding
  <2>4. p \in Nat /\ Potential' = Items' + p /\ Potential = Items + p
    BY <1>1, <2>3, NatClosed, Zenon
  <2> HIDE DEF p
  <2>5. \A x, y, z \in Int : x <= y => x + z <= y + z
    OBVIOUS
  <2>6. Items' \in Int /\ Items \in Int /\ p \in Int
    BY <1>1, <2>4
  <2>7. Potential' <= Potential
    BY <2>2, <2>4, <2>5, <2>6, Zenon
  <2> QED
    BY <1>6, <2>1, <2>7
<1>11. CASE \/ PrefWait \/ SampleObjId \/ LoadCurrent \/ StoreCurrent \/ S3Retry
            \/ BeginInsert \/ EndInsert \/ PushDone \/ CountMinibatch
            \/ PostMinibatch \/ S3GetFails \/ S3GetSucceeds
  <2> USE <1>11 DEF PrefWait, SampleObjId, LoadCurrent, StoreCurrent, S3Retry,
                    BeginInsert, EndInsert, PushDone, CountMinibatch,
                    PostMinibatch, S3GetFails, S3GetSucceeds
  <2>1. ring' = ring /\ getPc' = getPc
    BY DEF getVars
  <2>2. Outstanding' = Outstanding
    <3>1. CASE PrefWait
      BY <3>1 DEF Outstanding, Fetching, One, TypeOK
    <3>2. CASE ~PrefWait
      <4>1. pref_sem' = pref_sem /\ (Fetching' <=> Fetching)
        BY <3>2 DEF Fetching
      <4> QED
        BY <4>1 DEF Outstanding, One
    <3> QED
      BY <3>1, <3>2
  <2> QED
    BY <1>3, <1>6, <2>1, <2>2, QuietStep
<1>12. CASE \/ ConstructorReturns \/ CallGetNext \/ EraseString \/ SemWait
            \/ ReadPrefSem \/ BuildDataset \/ UNCHANGED vars
  <2> USE <1>12 DEF ConstructorReturns, CallGetNext, EraseString, SemWait,
                    ReadPrefSem, BuildDataset, vars, prefVars, getVars
  <2>1. ring' = ring /\ pref_sem' = pref_sem /\ prefPc' = prefPc
    OBVIOUS
  <2>2. getPc' \in {"value", "signal"} => getPc \in {"value", "signal"}
    OBVIOUS
  <2>3. Outstanding' = Outstanding
    BY <2>1 DEF Outstanding, Fetching, One
  <2> QED
    BY <1>3, <1>6, <2>1, <2>2, <2>3, QuietStep
<1> QED
  BY <1>7, <1>8, <1>9, <1>10, <1>11, <1>12
  DEF Next, PrefetchStep, GetNextStep

-----------------------------------------------------------------------------
(* The theorems.                                                              *)

LEMMA CountInvStep == CountInv /\ [Next]_vars => CountInv'
BY TypeStep, CountsStep, LimitStep, BoundStep DEF CountInv

LEMMA CountInvHolds == Spec => []CountInv
BY CountInvInit, CountInvStep, PTL DEF Spec

(* Every variable of the iterator keeps its type; in particular the atomic    *)
(* counter that getNext() decrements (line 84) never becomes negative.        *)
THEOREM TypeCorrect == Spec => []TypeOK
BY CountInvHolds, PTL DEF CountInv

(* Queues, semaphore and counter always agree (lines 74-85, 169-175).         *)
THEOREM CountsCorrect == Spec => []CountsAgree
BY CountInvHolds, PTL DEF CountInv

(* getNext() never calls front() or pop() on an empty ring (lines 78-83).     *)
THEOREM NeverEmpty == Spec => []FrontNeverThrows
<1>1. CountInv => FrontNeverThrows
  <2> SUFFICES ASSUME CountInv, getPc = "take"
               PROVE  \E k \in 1 .. Len(ring) : ring[k] # <<>>
    BY DEF FrontNeverThrows
  <2>1. /\ ring # <<>>
        /\ ring[1] # <<>> \/ (Len(ring) >= 2 /\ ring[2] # <<>>)
    BY TakeFinds DEF CountInv
  <2>2. ring \in Seq(Seq(Minibatch))
    BY DEF CountInv, TypeOK
  <2>3. 1 \in 1 .. Len(ring) /\ (Len(ring) >= 2 => 2 \in 1 .. Len(ring))
    BY <2>1, <2>2
  <2> QED
    BY <2>1, <2>3
<1> QED
  BY <1>1, CountInvHolds, PTL

(* The prefetch thread never overflows the ring (line 170): however getNext() *)
(* and the prefetch thread interleave, ReadyThreshold + ReadAhead + 3 slots   *)
(* are enough.                                                                *)
THEOREM NeverOverflows == Spec => []RingHasRoom
<1>1. CountInv => RingHasRoom
  BY RingHasRoomLemma DEF CountInv, RingHasRoom
<1> QED
  BY <1>1, CountInvHolds, PTL

(* No interleaving pushes pref_sem past the read-ahead limit (lines 95-100).  *)
THEOREM LimitRespected == Spec => []ReadAheadLimit
BY CountInvHolds, PTL DEF CountInv

-----------------------------------------------------------------------------
(* Order and ownership: the ring is a window of consecutive versions that     *)
(* ends before the one that is added next.                                    *)

Added == IF prefPc \in {"count", "post"} THEN (str_version + 1) % Versions
         ELSE str_version

Back(v, d) == IF d <= v THEN v - d ELSE v - d + Versions

QueueVersion(k) == Back(Added, Len(ring) - k + 1)

(* A queue holds the last minibatches of its object; what was taken last is   *)
(* the one before the first of them.                                          *)
OrderInv ==
  /\ \A k \in 1 .. Len(ring) : \A i \in 1 .. Len(ring[k]) :
       ring[k][i] = MinibatchesOf(QueueVersion(k))[NMinibatches - Len(ring[k]) + i]
  /\ ret = NoMinibatch =>
       /\ QueueVersion(1) = 0
       /\ \A k \in 1 .. Len(ring) : Len(ring[k]) = NMinibatches
  /\ ret # NoMinibatch =>
       /\ Len(ring) >= 1 /\ Len(ring[1]) < NMinibatches
       /\ ret = MinibatchesOf(QueueVersion(1))[NMinibatches - Len(ring[1])]
  /\ to_delete = ret.last
  /\ InHand => ret # NoMinibatch
  /\ getPc = "erase" => to_delete # NoVersion

(* The oldest queue is empty and its string is gone. *)
Spent(k) == k = 1 /\ ring[k] = <<>> /\ getPc \in {"wait", "take"}

QueuedStrings == {QueueVersion(k) : k \in {j \in 1 .. Len(ring) : ~Spent(j)}}

OwnershipInv ==
  ~mapRace => list_strings = QueuedStrings \union
                             (IF prefPc = "add" THEN {str_version} ELSE {})

LEMMA NextVersion ==
  ASSUME NEW v \in VersionSet
  PROVE  /\ (v + 1) % Versions = IF v + 1 = Versions THEN 0 ELSE v + 1
         /\ (v + 1) % Versions \in VersionSet
<1> USE VersionsAssumption DEF VersionSet
<1>1. Versions \in Nat /\ Versions > 0 /\ v \in Nat /\ v < Versions
  BY ReadAheadAssumption, ThresholdAssumption
<1>2. CASE v + 1 = Versions
  BY <1>1, <1>2
<1>3. CASE v + 1 < Versions
  BY <1>1, <1>3
<1> QED
  BY <1>1, <1>2, <1>3

LEMMA BackFacts ==
  ASSUME NEW v \in VersionSet, NEW d \in 0 .. (Versions - 1)
  PROVE  /\ Back(v, d) \in VersionSet /\ Back(v, 0) = v
         /\ Back((v + 1) % Versions, d + 1) = Back(v, d)
         /\ \A e \in 0 .. (Versions - 1) : Back(v, d) = Back(v, e) => d = e
         /\ d > 0 => Back(v, d - 1) = (Back(v, d) + 1) % Versions
<1> USE VersionsAssumption, ReadAheadAssumption, ThresholdAssumption
<1>1. /\ Versions \in Nat /\ Versions > 0 /\ v \in Nat /\ v < Versions
      /\ d \in Nat /\ d < Versions
  BY DEF VersionSet
<1>2. Back(v, d) \in VersionSet /\ Back(v, 0) = v
  BY <1>1 DEF Back, VersionSet
<1>3. Back((v + 1) % Versions, d + 1) = Back(v, d)
  <2>1. (v + 1) % Versions = IF v + 1 = Versions THEN 0 ELSE v + 1
    BY NextVersion
  <2> QED
    BY <1>1, <2>1 DEF Back
<1>4. \A e \in 0 .. (Versions - 1) : Back(v, d) = Back(v, e) => d = e
  BY <1>1 DEF Back
<1>5. d > 0 => Back(v, d - 1) = (Back(v, d) + 1) % Versions
  <2>1. (Back(v, d) + 1) % Versions
          = IF Back(v, d) + 1 = Versions THEN 0 ELSE Back(v, d) + 1
    BY <1>2, NextVersion
  <2> QED
    BY <1>1, <2>1 DEF Back
<1> QED
  BY <1>2, <1>3, <1>4, <1>5

(* The versions in use never come around to each other. *)
LEMMA RingShort ==
  ASSUME TypeOK, CountsAgree, PrefetchBounded
  PROVE  Len(ring) \in Nat /\ Len(ring) + 1 < Versions
<1> USE MinibatchesAssumption, ReadAheadAssumption, ThresholdAssumption,
        VersionsAssumption
    DEF TypeOK
<1> DEFINE n == NMinibatches
           L == Len(ring) - 1
<1>1. CASE ring = <<>>
  BY <1>1
<1>2. CASE ring # <<>>
  <2>1. L \in Nat /\ Len(ring[1]) \in Nat
    BY <1>2
  <2>2. Items = L * n + Len(ring[1]) /\ L * n \in Nat
    BY <1>2, <2>1, ProductLarge, ItemsNonempty
  <2>3. L * n <= ReadyThreshold - 1 + n * (ReadAhead + 2)
    <3>1. /\ Items \in Nat /\ Outstanding \in Nat
          /\ Items + n * Outstanding <= ReadyThreshold - 1 + n * (ReadAhead + 2)
      BY ItemsNat DEF PrefetchBounded
    <3>2. n * Outstanding \in Nat /\ n * (ReadAhead + 2) \in Nat
      BY <3>1
    <3> HIDE DEF n, L, TypeOK
    <3>3. L * n <= Items
      BY <2>1, <2>2
    <3> QED
      BY <2>2, <3>1, <3>2, <3>3
  <2>4. L < ReadyThreshold + ReadAhead + 2
    <3>1. SUFFICES ASSUME L >= ReadyThreshold + ReadAhead + 2 PROVE FALSE
      BY <2>1
    <3> DEFINE d == L - (ReadAhead + 2)
    <3>2. d \in Nat /\ d >= ReadyThreshold /\ L = d + (ReadAhead + 2)
      BY <2>1, <3>1
    <3>3. (d + (ReadAhead + 2)) * n = d * n + (ReadAhead + 2) * n
      BY <3>2, Distribute
    <3>4. d * n >= d /\ d * n \in Nat
      BY <3>2, ProductLarge
    <3>5. (ReadAhead + 2) * n = n * (ReadAhead + 2) /\ n * (ReadAhead + 2) \in Nat
      OBVIOUS
    <3> HIDE DEF d, n, L
    <3> QED
      BY <2>3, <3>2, <3>3, <3>4, <3>5
  <2> QED
    BY <2>1, <2>4
<1> QED
  BY <1>1, <1>2

LEMMA MinibatchFacts ==
  ASSUME NEW v \in VersionSet, NEW i \in 1 .. NMinibatches
  PROVE  LET m == MinibatchesOf(v)[i] IN
         /\ m.ver = v /\ m.mb = i
         /\ m.last = IF i = NMinibatches THEN v ELSE NoVersion
         /\ m # NoMinibatch /\ v # NoVersion
<1>1. v # NoVersion
  BY VersionsAssumption DEF VersionSet, NoVersion
<1> QED
  BY <1>1 DEF MinibatchesOf, NoMinibatch

(* The versions of the queues. *)
LEMMA QueueVersions ==
  ASSUME CountInv
  PROVE  /\ Added \in VersionSet /\ str_version \in VersionSet
         /\ \A k \in 1 .. Len(ring) : /\ Len(ring) - k + 1 \in 1 .. Len(ring)
                                      /\ QueueVersion(k) \in VersionSet
                                      /\ QueueVersion(k) # Added
         /\ \A k, j \in 1 .. Len(ring) : k # j => QueueVersion(k) # QueueVersion(j)
         /\ Len(ring) >= 2 => QueueVersion(2) = (QueueVersion(1) + 1) % Versions
         /\ QueueVersion(1) \in VersionSet
<1>1. Added \in VersionSet /\ str_version \in VersionSet
  BY NextVersion DEF CountInv, TypeOK, Added
<1>2. Len(ring) \in Nat /\ Len(ring) + 1 < Versions /\ Versions \in Nat
  BY RingShort, VersionsAssumption DEF CountInv
<1>3. \A k \in 1 .. Len(ring) : /\ Len(ring) - k + 1 \in 1 .. Len(ring)
                                /\ Len(ring) - k + 1 \in 0 .. (Versions - 1)
  BY <1>2
<1>4. Len(ring) - 1 + 1 \in 0 .. (Versions - 1) /\ 0 \in 0 .. (Versions - 1)
  BY <1>2
<1>5. \A k \in 1 .. Len(ring) : QueueVersion(k) \in VersionSet /\ QueueVersion(k) # Added
  <2> SUFFICES ASSUME NEW k \in 1 .. Len(ring)
               PROVE  QueueVersion(k) \in VersionSet /\ QueueVersion(k) # Added
    OBVIOUS
  <2> DEFINE d == Len(ring) - k + 1
  <2>1. d \in 0 .. (Versions - 1) /\ d # 0
    BY <1>2
  <2> HIDE DEF d
  <2>2. Back(Added, d) \in VersionSet /\ (Back(Added, d) = Back(Added, 0) => d = 0)
        /\ Back(Added, 0) = Added
    BY <1>1, <1>4, <2>1, BackFacts
  <2> QED
    BY <2>1, <2>2 DEF QueueVersion, d
<1>6. \A k, j \in 1 .. Len(ring) : k # j => QueueVersion(k) # QueueVersion(j)
  <2> SUFFICES ASSUME NEW k \in 1 .. Len(ring), NEW j \in 1 .. Len(ring), k # j
               PROVE  QueueVersion(k) # QueueVersion(j)
    OBVIOUS
  <2> DEFINE d == Len(ring) - k + 1
             e == Len(ring) - j + 1
  <2>1. d \in 0 .. (Versions - 1) /\ e \in 0 .. (Versions - 1) /\ d # e
    BY <1>2
  <2> HIDE DEF d, e
  <2>2. Back(Added, d) = Back(Added, e) => d = e
    BY <1>1, <2>1, BackFacts
  <2> QED
    BY <2>1, <2>2 DEF QueueVersion, d, e
<1>7. Len(ring) >= 2 => QueueVersion(2) = (QueueVersion(1) + 1) % Versions
  <2> DEFINE d == Len(ring) - 1 + 1
  <2>1. d \in 0 .. (Versions - 1) /\ (Len(ring) >= 2 => d > 0) /\ d - 1 = Len(ring) - 2 + 1
    BY <1>2
  <2> HIDE DEF d
  <2>2. d > 0 => Back(Added, d - 1) = (Back(Added, d) + 1) % Versions
    BY <1>1, <2>1, BackFacts
  <2> QED
    BY <2>1, <2>2 DEF QueueVersion, d
<1>8. QueueVersion(1) \in VersionSet
  BY <1>1, <1>4, BackFacts DEF QueueVersion
<1> QED
  BY <1>1, <1>3, <1>5, <1>6, <1>7, <1>8

(* The string to delete is that of the oldest queue, once it is empty. *)
LEMMA Oldest ==
  ASSUME CountInv, OrderInv
  PROVE  /\ Len(ring) >= 1 /\ ring[1] = <<>> => to_delete = QueueVersion(1)
         /\ to_delete # NoVersion => Len(ring) >= 1 /\ ring[1] = <<>>
         /\ Len(ring) >= 1 /\ ring[1] = <<>> => to_delete # NoVersion
         /\ ret # NoMinibatch => Len(ring) >= 1 /\ ret.ver = QueueVersion(1)
<1> USE MinibatchesAssumption
<1>0. /\ ring \in Seq(Seq(Minibatch)) /\ Len(ring) \in Nat /\ NMinibatches \in Nat
      /\ NMinibatches >= 1
  BY DEF CountInv, TypeOK
<1>1. Len(ring) >= 1 => ring[1] \in Seq(Minibatch) /\ Len(ring[1]) \in Nat
                        /\ (ring[1] = <<>> <=> Len(ring[1]) = 0)
  BY <1>0
<1>2. CASE ret = NoMinibatch
  <2>1. to_delete = NoVersion
    BY <1>2 DEF OrderInv, NoMinibatch
  <2>2. Len(ring) >= 1 => Len(ring[1]) = NMinibatches
    BY <1>0, <1>2 DEF OrderInv
  <2> QED
    BY <1>0, <1>1, <1>2, <2>1, <2>2
<1>3. CASE ret # NoMinibatch
  <2> DEFINE i == NMinibatches - Len(ring[1])
  <2>1. /\ Len(ring) >= 1 /\ Len(ring[1]) < NMinibatches
        /\ ret = MinibatchesOf(QueueVersion(1))[i] /\ to_delete = ret.last
    BY <1>3 DEF OrderInv
  <2>2. i \in 1 .. NMinibatches /\ (i = NMinibatches <=> ring[1] = <<>>)
    <3>1. ASSUME NEW a \in Nat, NEW n \in Nat, a < n
          PROVE  n - a \in 1 .. n /\ (n - a = n <=> a = 0)
      BY <3>1
    <3>2. Len(ring[1]) \in Nat /\ (ring[1] = <<>> <=> Len(ring[1]) = 0)
      BY <1>1, <2>1
    <3> QED
      BY <1>0, <2>1, <3>1, <3>2, Zenon
  <2>3. QueueVersion(1) \in VersionSet
    BY QueueVersions
  <2> HIDE DEF i
  <2>4. /\ ret.last = IF i = NMinibatches THEN QueueVersion(1) ELSE NoVersion
        /\ ret.ver = QueueVersion(1) /\ QueueVersion(1) # NoVersion
    BY <2>1, <2>2, <2>3, MinibatchFacts
  <2> QED
    BY <2>1, <2>2, <2>4
<1> QED
  BY <1>2, <1>3

LEMMA OrderInit == ASSUME Init PROVE OrderInv /\ OwnershipInv
<1> USE MinibatchesAssumption, VersionsAssumption, ReadAheadAssumption,
        ThresholdAssumption
<1>1. /\ ring = <<>> /\ Len(ring) = 0 /\ ret = NoMinibatch /\ to_delete = NoVersion
      /\ getPc = "idle" /\ prefPc = "wait" /\ list_strings = {} /\ str_version = 0
  BY DEF Init
<1>2. QueueVersion(1) = 0
  BY <1>1 DEF QueueVersion, Added, Back
<1>3. OrderInv
  BY <1>1, <1>2 DEF OrderInv, InHand, NoMinibatch
<1>4. QueuedStrings = {}
  BY <1>1 DEF QueuedStrings
<1> QED
  BY <1>1, <1>3, <1>4 DEF OwnershipInv

(* A step that leaves the ring and what was taken alone. *)
LEMMA OrderQuiet ==
  ASSUME OrderInv, ring' = ring, ret' = ret, to_delete' = to_delete,
         Added' = Added, InHand' => InHand,
         getPc' = "erase" => to_delete # NoVersion
  PROVE  OrderInv'
<1>1. \A k : QueueVersion(k)' = QueueVersion(k)
  BY DEF QueueVersion
<1>2. /\ \A k \in 1 .. Len(ring) : \A i \in 1 .. Len(ring[k]) :
           ring[k][i] = MinibatchesOf(QueueVersion(k)')[NMinibatches - Len(ring[k]) + i]
      /\ ret = NoMinibatch =>
           /\ QueueVersion(1)' = 0
           /\ \A k \in 1 .. Len(ring) : Len(ring[k]) = NMinibatches
      /\ ret # NoMinibatch =>
           /\ Len(ring) >= 1 /\ Len(ring[1]) < NMinibatches
           /\ ret = MinibatchesOf(QueueVersion(1)')[NMinibatches - Len(ring[1])]
      /\ to_delete = ret.last
      /\ InHand' => ret # NoMinibatch
  BY <1>1, Zenon DEF OrderInv
<1> QED
  BY <1>2, Zenon DEF OrderInv

LEMMA OwnershipQuiet ==
  ASSUME OwnershipInv, ring' = ring, Added' = Added, list_strings' = list_strings,
         mapRace => mapRace',
         prefPc = "add" <=> prefPc' = "add",
         prefPc = "add" => str_version' = str_version,
         \A k \in 1 .. Len(ring) : Spent(k)' <=> Spent(k)
  PROVE  OwnershipInv'
<1>1. \A k : QueueVersion(k)' = QueueVersion(k)
  BY DEF QueueVersion
<1>2. QueuedStrings' = QueuedStrings
  BY <1>1 DEF QueuedStrings
<1> QED
  BY <1>2 DEF OwnershipInv

(* Every step but the four that touch the ring or list_strings. *)
QuietNext ==
  \/ ConstructorReturns \/ CallGetNext \/ S3GetFails \/ S3GetSucceeds
  \/ PrefWait \/ SampleObjId \/ LoadCurrent \/ StoreCurrent \/ S3Retry
  \/ BeginInsert \/ CountMinibatch \/ PostMinibatch \/ PushDone
  \/ SemWait \/ ReadReady \/ ReadPrefSem \/ SignalPrefetch \/ BuildDataset

LEMMA QuietNextStep ==
  ASSUME CountInv, OrderInv, OwnershipInv, QuietNext \/ UNCHANGED vars
  PROVE  OrderInv' /\ OwnershipInv'
<1> USE DEF QuietNext
<1>1. UNCHANGED <<ring, ret, to_delete, list_strings>>
  BY DEF ConstructorReturns, CallGetNext, S3GetFails, S3GetSucceeds, PrefWait,
         SampleObjId, LoadCurrent, StoreCurrent, S3Retry, BeginInsert,
         CountMinibatch, PostMinibatch, PushDone, SemWait, ReadReady,
         ReadPrefSem, SignalPrefetch, BuildDataset, vars, prefVars, getVars
<1>2. Added' = Added
  <2>1. CASE PushDone
    BY <2>1 DEF PushDone, Added
  <2>2. CASE ~PushDone
    <3>1. str_version' = str_version
      BY <2>2 DEF ConstructorReturns, CallGetNext, S3GetFails, S3GetSucceeds,
         PrefWait, SampleObjId, LoadCurrent, StoreCurrent, S3Retry,
         BeginInsert, CountMinibatch, PostMinibatch, SemWait, ReadReady,
         ReadPrefSem, SignalPrefetch, BuildDataset, vars, prefVars
    <3>2. prefPc' \in {"count", "post"} <=> prefPc \in {"count", "post"}
      BY <2>2 DEF ConstructorReturns, CallGetNext, S3GetFails, S3GetSucceeds,
         PrefWait, SampleObjId, LoadCurrent, StoreCurrent, S3Retry,
         BeginInsert, CountMinibatch, PostMinibatch, SemWait, ReadReady,
         ReadPrefSem, SignalPrefetch, BuildDataset, vars, prefVars
    <3> QED
      BY <3>1, <3>2 DEF Added
  <2> QED
    BY <2>1, <2>2
<1>3. /\ prefPc = "add" <=> prefPc' = "add"
      /\ prefPc = "add" => str_version' = str_version
  BY DEF ConstructorReturns, CallGetNext, S3GetFails, S3GetSucceeds, PrefWait,
         SampleObjId, LoadCurrent, StoreCurrent, S3Retry, BeginInsert,
         CountMinibatch, PostMinibatch, PushDone, SemWait, ReadReady,
         ReadPrefSem, SignalPrefetch, BuildDataset, vars, prefVars
<1>4. /\ InHand' => InHand
      /\ getPc' = "erase" => to_delete # NoVersion
      /\ \/ getPc' \in {"wait", "take"} <=> getPc \in {"wait", "take"}
         \/ getPc = "idle" /\ to_delete = NoVersion
  BY DEF ConstructorReturns, CallGetNext, S3GetFails, S3GetSucceeds, PrefWait,
         SampleObjId, LoadCurrent, StoreCurrent, S3Retry, BeginInsert,
         CountMinibatch, PostMinibatch, PushDone, SemWait, ReadReady,
         ReadPrefSem, SignalPrefetch, BuildDataset, vars, getVars, InHand,
         OrderInv
<1>5. mapRace => mapRace'
  <2>1. \/ mapRace' = mapRace
        \/ mapRace' = (mapRace \/ getPc = "erase")
        \/ mapRace' = (mapRace \/ (to_delete # NoVersion /\ prefPc = "insert"))
    BY Zenon
    DEF ConstructorReturns, CallGetNext, S3GetFails, S3GetSucceeds, PrefWait,
        SampleObjId, LoadCurrent, StoreCurrent, S3Retry, BeginInsert,
        CountMinibatch, PostMinibatch, PushDone, SemWait, ReadReady,
        ReadPrefSem, SignalPrefetch, BuildDataset, vars
  <2> QED
    BY <2>1, Zenon
<1>6. \A k \in 1 .. Len(ring) : Spent(k)' <=> Spent(k)
  <2>1. CASE getPc' \in {"wait", "take"} <=> getPc \in {"wait", "take"}
    BY <1>1, <2>1 DEF Spent
  <2>2. CASE getPc = "idle" /\ to_delete = NoVersion
    <3>1. Len(ring) \in Nat
      BY DEF CountInv, TypeOK
    <3>2. \A k \in 1 .. Len(ring) : k = 1 => ring[k] # <<>>
      BY <2>2, <3>1, Oldest
    <3> QED
      BY <1>1, <3>2 DEF Spent
  <2> QED
    BY <1>4, <2>1, <2>2
<1>7. OrderInv'
  BY <1>1, <1>2, <1>4, OrderQuiet
<1>8. OwnershipInv'
  BY <1>1, <1>2, <1>3, <1>5, <1>6, OwnershipQuiet, Zenon
<1> QED
  BY <1>7, <1>8

(* EndInsert: the new string is that of the queue added next. *)
LEMMA InsertStep ==
  ASSUME CountInv, OrderInv, OwnershipInv, EndInsert
  PROVE  OrderInv' /\ OwnershipInv'
<1>1. /\ UNCHANGED <<ring, ret, to_delete, getPc, mapRace, str_version>>
      /\ prefPc = "insert" /\ prefPc' = "add"
      /\ ~mapRace => list_strings' = list_strings \union {str_version}
  BY DEF EndInsert, getVars
<1>2. Added' = Added
  BY <1>1 DEF Added
<1>3. OrderInv'
  BY <1>1, <1>2, OrderQuiet DEF InHand, OrderInv
<1>4. \A k : QueueVersion(k)' = QueueVersion(k) /\ (Spent(k)' <=> Spent(k))
  BY <1>1, <1>2 DEF QueueVersion, Spent
<1>5. QueuedStrings' = QueuedStrings
  BY <1>1, <1>4 DEF QueuedStrings
<1>6. OwnershipInv'
  BY <1>1, <1>5 DEF OwnershipInv
<1> QED
  BY <1>3, <1>6

(* EraseString: the oldest queue is empty, and no other has its string. *)
LEMMA EraseStep ==
  ASSUME CountInv, OrderInv, OwnershipInv, EraseString
  PROVE  OrderInv' /\ OwnershipInv'
<1>1. /\ UNCHANGED <<ring, ret, to_delete, prefPc, mapRace, str_version>>
      /\ getPc = "erase" /\ getPc' = "wait"
      /\ ~mapRace => list_strings' = list_strings \ {to_delete}
  BY DEF EraseString, prefVars
<1>2. Added' = Added
  BY <1>1 DEF Added
<1>3. OrderInv'
  BY <1>1, <1>2, OrderQuiet DEF InHand
<1>4. /\ Len(ring) >= 1 /\ ring[1] = <<>> /\ to_delete = QueueVersion(1)
  BY <1>1, Oldest DEF OrderInv
<1>5. Len(ring) \in Nat
  BY DEF CountInv, TypeOK
<1>6. \A k : QueueVersion(k)' = QueueVersion(k)
  BY <1>1, <1>2 DEF QueueVersion
<1>7. \A k \in 1 .. Len(ring) : ~Spent(k) /\ (Spent(k)' <=> k = 1)
  BY <1>1, <1>4 DEF Spent
<1>8. QueuedStrings' = QueuedStrings \ {to_delete}
  <2>1. \A k, j \in 1 .. Len(ring) : k # j => QueueVersion(k) # QueueVersion(j)
    BY QueueVersions
  <2>2. 1 \in 1 .. Len(ring)
    BY <1>4, <1>5
  <2>3. QueuedStrings' = {QueueVersion(k) : k \in {j \in 1 .. Len(ring) : j # 1}}
    BY <1>1, <1>6, <1>7 DEF QueuedStrings
  <2>4. QueuedStrings = {QueueVersion(k) : k \in {j \in 1 .. Len(ring) : TRUE}}
    BY <1>7 DEF QueuedStrings
  <2> HIDE DEF QueueVersion
  <2> QED
    BY <1>4, <2>1, <2>2, <2>3, <2>4
<1>9. prefPc = "add" => str_version # to_delete
  <2>1. prefPc = "add" => str_version = Added
    BY DEF Added
  <2>2. QueueVersion(1) # Added
    BY <1>4, <1>5, QueueVersions
  <2> QED
    BY <1>4, <2>1, <2>2
<1>10. OwnershipInv'
  BY <1>1, <1>8, <1>9 DEF OwnershipInv
<1> QED
  BY <1>3, <1>10

(* AddQueue: the window of versions grows at its young end. *)
LEMMA AddStep ==
  ASSUME CountInv, OrderInv, OwnershipInv, AddQueue
  PROVE  OrderInv' /\ OwnershipInv'
<1> USE MinibatchesAssumption
<1> DEFINE q == MinibatchesOf(str_version)
           n == Len(ring)
<1>1. /\ UNCHANGED <<ret, to_delete, getPc, mapRace, str_version, list_strings>>
      /\ prefPc = "add" /\ prefPc' = "count"
  BY DEF AddQueue, getVars
<1>2. /\ Added = str_version /\ Added' = (str_version + 1) % Versions
      /\ str_version \in VersionSet
  BY <1>1, QueueVersions DEF Added
<1>3. q \in Seq(Minibatch) /\ Len(q) = NMinibatches /\ q # <<>>
  BY <1>2 DEF MinibatchesOf, Minibatch, VersionSet
<1> HIDE DEF q
<1>4. ring \in Seq(Seq(Minibatch)) /\ n \in Nat
  BY DEF CountInv, TypeOK
<1>5. ring' = Append(ring, q)
  BY <1>1, <1>4, RingHasRoomLemma DEF AddQueue, RingAdd, q, CountInv
<1>6. /\ Len(ring') = n + 1 /\ ring'[n + 1] = q
      /\ \A k \in 1 .. n : ring'[k] = ring[k]
  BY <1>3, <1>4, <1>5
<1>7. \A k \in 1 .. (n + 1) : QueueVersion(k)' = QueueVersion(k)
  <2> SUFFICES ASSUME NEW k \in 1 .. (n + 1) PROVE QueueVersion(k)' = QueueVersion(k)
    OBVIOUS
  <2> DEFINE d == n - k + 1
  <2>1. d \in 0 .. (Versions - 1) /\ Len(ring') - k + 1 = d + 1
    BY <1>4, <1>6, RingShort, VersionsAssumption DEF CountInv
  <2> HIDE DEF d
  <2>2. Back((str_version + 1) % Versions, d + 1) = Back(str_version, d)
    BY <1>2, <2>1, BackFacts
  <2> QED
    BY <1>2, <2>1, <2>2 DEF QueueVersion, d
<1>8. QueueVersion(n + 1) = str_version
  <2>1. n - (n + 1) + 1 = 0 /\ 0 \in 0 .. (Versions - 1)
    BY <1>4, VersionsAssumption, ReadAheadAssumption, ThresholdAssumption
  <2> QED
    BY <1>2, <2>1, BackFacts DEF QueueVersion
<1>9. 1 \in 1 .. (n + 1) /\ \A k \in 1 .. (n + 1) : k \in 1 .. n \/ k = n + 1
  BY <1>4
<1> HIDE DEF n
<1>10. OrderInv'
  <2>1. ASSUME NEW k \in 1 .. (n + 1), NEW i \in 1 .. Len(ring'[k])
        PROVE  ring'[k][i] = MinibatchesOf(QueueVersion(k)')[NMinibatches - Len(ring'[k]) + i]
    <3>1. CASE k \in 1 .. n
      BY <1>6, <1>7, <3>1 DEF OrderInv, n
    <3>2. CASE k = n + 1
      <4>1. ring'[k] = q /\ NMinibatches - Len(q) + i = i
        BY <1>3, <1>6, <3>2
      <4>2. QueueVersion(k)' = str_version
        BY <1>7, <1>8, <3>2
      <4> QED
        BY <4>1, <4>2 DEF q
    <3> QED
      BY <1>9, <3>1, <3>2
  <2>2. ASSUME ret = NoMinibatch
        PROVE  /\ QueueVersion(1)' = 0
               /\ \A k \in 1 .. (n + 1) : Len(ring'[k]) = NMinibatches
    BY <1>3, <1>6, <1>7, <1>9, <2>2 DEF OrderInv, n
  <2>3. ASSUME ret # NoMinibatch
        PROVE  /\ Len(ring') >= 1 /\ Len(ring'[1]) < NMinibatches
               /\ ret = MinibatchesOf(QueueVersion(1)')[NMinibatches - Len(ring'[1])]
    <3>1. 1 \in 1 .. n /\ n >= 1
      BY <1>4, <2>3 DEF OrderInv, n
    <3>2. ring'[1] = ring[1] /\ QueueVersion(1)' = QueueVersion(1) /\ Len(ring') >= 1
      BY <1>4, <1>6, <1>7, <1>9, <3>1
    <3> QED
      BY <2>3, <3>2 DEF OrderInv
  <2>4. /\ to_delete = ret.last /\ (InHand => ret # NoMinibatch)
        /\ getPc = "erase" => to_delete # NoVersion
    BY DEF OrderInv
  <2>5. InHand' <=> InHand
    BY <1>1 DEF InHand
  <2> QED
    BY <1>1, <1>6, <2>1, <2>2, <2>3, <2>4, <2>5 DEF OrderInv
<1>11. OwnershipInv'
  <2>1. \A k \in 1 .. n : Spent(k)' <=> Spent(k)
    BY <1>1, <1>6 DEF Spent
  <2>2. \A k : k = n + 1 => ~(Spent(k)')
    BY <1>3, <1>6 DEF Spent
  <2>3. QueuedStrings' = QueuedStrings \union {str_version}
    <3>1. QueuedStrings' =
            {QueueVersion(k)' : k \in {j \in 1 .. (n + 1) : ~(Spent(j)')}}
      BY <1>6 DEF QueuedStrings
    <3>2. QueuedStrings = {QueueVersion(k) : k \in {j \in 1 .. n : ~Spent(j)}}
      BY DEF QueuedStrings, n
    <3>3. \A k \in 1 .. n : k \in 1 .. (n + 1)
      BY <1>4
    <3>4. n + 1 \in 1 .. (n + 1)
      BY <1>4
    <3> HIDE DEF QueueVersion, Spent
    <3>5. ASSUME NEW x \in QueuedStrings' PROVE x \in QueuedStrings \union {str_version}
      <4>1. PICK k \in 1 .. (n + 1) : x = QueueVersion(k)' /\ ~(Spent(k)')
        BY <3>1, <3>5, Zenon
      <4>2. CASE k = n + 1
        BY <1>7, <1>8, <4>1, <4>2, Zenon
      <4>3. CASE k \in 1 .. n
        BY <1>7, <2>1, <3>2, <4>1, <4>3, Zenon
      <4> QED
        BY <1>9, <4>2, <4>3
    <3>6. ASSUME NEW x \in QueuedStrings PROVE x \in QueuedStrings'
      <4>1. PICK k \in 1 .. n : x = QueueVersion(k) /\ ~Spent(k)
        BY <3>2, <3>6, Zenon
      <4>2. k \in 1 .. (n + 1) /\ x = QueueVersion(k)' /\ ~(Spent(k)')
        BY <1>7, <2>1, <3>3, <4>1, Zenon
      <4> QED
        BY <3>1, <4>2, Zenon
    <3>7. str_version \in QueuedStrings'
      <4>1. \E k \in 1 .. (n + 1) : str_version = QueueVersion(k)' /\ ~(Spent(k)')
        BY <1>7, <1>8, <2>2, <3>4
      <4> QED
        BY <3>1, <4>1
    <3> QED
      BY <3>5, <3>6, <3>7
  <2> QED
    BY <1>1, <2>3 DEF OwnershipInv
<1> QED
  BY <1>10, <1>11

(* TakeMinibatch: the front of the window moves past an empty queue, whose    *)
(* string is already gone, and the next minibatch in order is taken.          *)
LEMMA TakeStep ==
  ASSUME CountInv, OrderInv, OwnershipInv, TakeMinibatch
  PROVE  OrderInv' /\ OwnershipInv' /\ ret' = Successor(ret)
<1> USE MinibatchesAssumption
<1> DEFINE n == Len(ring)
<1>1. /\ UNCHANGED <<prefPc, mapRace, str_version, list_strings>>
      /\ getPc = "take" /\ getPc' = "ready"
  BY DEF TakeMinibatch, prefVars
<1>2. PICK k \in 1 .. n : /\ FirstNonempty(k)
                          /\ ret' = Head(ring[k])
                          /\ to_delete' = Head(ring[k]).last
                          /\ ring' = Popped(ring, k)
  BY DEF TakeMinibatch
<1>3. /\ ring \in Seq(Seq(Minibatch)) /\ n \in Nat /\ ring[k] \in Seq(Minibatch)
      /\ ring[k] # <<>>
  BY <1>2 DEF FirstNonempty, CountInv, TypeOK
<1>4. k = 1 \/ (k = 2 /\ ring[1] = <<>>)
  <2>1. ring[1] # <<>> \/ (n >= 2 /\ ring[2] # <<>>)
    BY <1>1, TakeFinds DEF CountInv
  <2> QED
    BY <1>2, <2>1 DEF FirstNonempty
<1>5. /\ Len(ring') = n - k + 1 /\ ring'[1] = Tail(ring[k])
      /\ Len(ring'[1]) = Len(ring[k]) - 1
  BY <1>2, <1>3, PopShape, Zenon
<1>6. \A j \in 2 .. Len(ring') : ring'[j] = ring[j + k - 1]
  <2>1. \A j \in 2 .. Len(Popped(ring, k)) : Popped(ring, k)[j] = ring[j + k - 1]
    BY <1>3, PopShape
  <2> QED
    BY <1>2, <2>1
<1> DEFINE m == Len(ring[k])
           v == QueueVersion(k)
           N == NMinibatches
<1>7. m \in 1 .. N /\ (k = 2 => m = N)
  <2>1. m \in Nat /\ m >= 1
    BY <1>3
  <2>2. m <= N /\ (k = 2 => m = N)
    BY <1>2, <1>3 DEF CountInv, CountsAgree
  <2> QED
    BY <2>1, <2>2
<1>8. v \in VersionSet
  BY <1>2, QueueVersions
<1>9. Added' = Added
  BY <1>1 DEF Added
<1>10. \A j \in 1 .. Len(ring') : /\ j + k - 1 \in k .. n
                                  /\ QueueVersion(j)' = QueueVersion(j + k - 1)
  <2> SUFFICES ASSUME NEW j \in 1 .. Len(ring')
               PROVE  /\ j + k - 1 \in k .. n
                      /\ QueueVersion(j)' = QueueVersion(j + k - 1)
    OBVIOUS
  <2>1. j + k - 1 \in k .. n /\ Len(ring') - j + 1 = n - (j + k - 1) + 1
    BY <1>3, <1>5
  <2> QED
    BY <1>9, <2>1 DEF QueueVersion
<1>11. 1 \in 1 .. Len(ring') /\ QueueVersion(1)' = v
  <2>1. 1 \in 1 .. Len(ring') /\ 1 + k - 1 = k
    BY <1>2, <1>3, <1>5
  <2> QED
    BY <1>10, <2>1
<1>12. \A i \in 1 .. m : ring[k][i] = MinibatchesOf(v)[N - m + i]
  BY <1>2 DEF OrderInv
<1>13. /\ Head(ring[k]) = ring[k][1]
       /\ \A i \in 1 .. (m - 1) : Tail(ring[k])[i] = ring[k][i + 1]
  BY <1>3
<1> HIDE DEF m, v, n
<1>14. ret' = MinibatchesOf(v)[N - m + 1]
  BY <1>2, <1>7, <1>12, <1>13
<1>15. N - m + 1 \in 1 .. N /\ ret' # NoMinibatch
  <2>1. N - m + 1 \in 1 .. N
    BY <1>7
  <2> QED
    BY <1>8, <1>14, <2>1, MinibatchFacts
<1>16. OrderInv'
  <2>1. ASSUME NEW j \in 1 .. Len(ring'), NEW i \in 1 .. Len(ring'[j])
        PROVE  ring'[j][i] = MinibatchesOf(QueueVersion(j)')[N - Len(ring'[j]) + i]
    <3>1. CASE j = 1
      <4>1. Len(ring'[1]) = m - 1
        BY <1>5 DEF m
      <4>2. i \in 1 .. (m - 1) /\ i + 1 \in 1 .. m /\ N - m + (i + 1) = N - (m - 1) + i
        BY <1>7, <3>1, <4>1
      <4>3. ring'[1][i] = MinibatchesOf(v)[N - m + (i + 1)]
        BY <1>5, <1>12, <1>13, <4>2
      <4> QED
        BY <1>11, <3>1, <4>1, <4>2, <4>3
    <3>2. CASE j \in 2 .. Len(ring')
      <4>1. ring'[j] = ring[j + k - 1] /\ QueueVersion(j)' = QueueVersion(j + k - 1)
        BY <1>6, <1>10, <3>2
      <4>2. j + k - 1 \in 1 .. Len(ring)
        BY <1>2, <1>3, <1>10 DEF n
      <4>3. i \in 1 .. Len(ring[j + k - 1])
        BY <4>1
      <4> DEFINE p == j + k - 1
      <4> HIDE DEF p
      <4>4. ring[p][i] = MinibatchesOf(QueueVersion(p))[N - Len(ring[p]) + i]
        BY <4>2, <4>3 DEF OrderInv, p
      <4> QED
        BY <4>1, <4>4 DEF p
    <3>3. Len(ring') \in Nat
      BY <1>2, <1>3, <1>5
    <3> QED
      BY <3>1, <3>2, <3>3
  <2>2. /\ Len(ring') >= 1 /\ Len(ring'[1]) < N
        /\ ret' = MinibatchesOf(QueueVersion(1)')[N - Len(ring'[1])]
    <3>1. Len(ring'[1]) = m - 1 /\ N - (m - 1) = N - m + 1 /\ m - 1 < N
      BY <1>5, <1>7 DEF m
    <3>2. Len(ring') >= 1
      BY <1>2, <1>3, <1>5
    <3> QED
      BY <1>11, <1>14, <3>1, <3>2
  <2>3. to_delete' = ret'.last
    BY <1>2
  <2> QED
    BY <1>1, <1>15, <2>1, <2>2, <2>3 DEF OrderInv
<1>17. ret' = Successor(ret)
  <2>1. CASE ret = NoMinibatch
    <3>1. QueueVersion(1) = 0 /\ Len(ring[1]) = N
      BY <1>2, <1>3, <2>1 DEF OrderInv, n
    <3>2. k = 1
      BY <1>4, <3>1
    <3>3. v = 0 /\ m = N /\ N - m + 1 = 1
      BY <3>1, <3>2 DEF v, m
    <3> QED
      BY <1>14, <2>1, <3>3 DEF Successor
  <2>2. CASE ret # NoMinibatch /\ k = 1
    <3>1. m < N /\ ret = MinibatchesOf(v)[N - m]
      BY <2>2 DEF OrderInv, m, v
    <3>2. N - m \in 1 .. N /\ N - m < N
      BY <1>7, <3>1
    <3>3. ret.ver = v /\ ret.mb = N - m
      BY <1>8, <3>1, <3>2, MinibatchFacts
    <3> QED
      BY <1>14, <2>2, <3>2, <3>3 DEF Successor
  <2>3. CASE ret # NoMinibatch /\ k = 2
    <3>1. Len(ring[1]) = 0
      BY <1>4, <2>3
    <3>2. ret = MinibatchesOf(QueueVersion(1))[N]
      BY <2>3, <3>1 DEF OrderInv
    <3>3. QueueVersion(1) \in VersionSet /\ v = (QueueVersion(1) + 1) % Versions
      BY <1>2, <1>3, <2>3, QueueVersions DEF v, n
    <3>4. ret.ver = QueueVersion(1) /\ ret.mb = N
      BY <3>2, <3>3, MinibatchFacts
    <3>5. N - m + 1 = 1
      BY <1>7, <2>3
    <3> QED
      BY <1>14, <2>3, <3>3, <3>4, <3>5 DEF Successor
  <2> QED
    BY <1>4, <2>1, <2>2, <2>3
<1>18. OwnershipInv'
  <2>1. QueuedStrings' = {QueueVersion(j)' : j \in 1 .. Len(ring')}
    BY <1>1 DEF QueuedStrings, Spent
  <2>2. \A j \in 1 .. n : Spent(j) <=> j < k
    BY <1>1, <1>2, <1>3, <1>4 DEF Spent, n
  <2>3. QueuedStrings = {QueueVersion(j) : j \in {i \in 1 .. n : ~Spent(i)}}
    BY DEF QueuedStrings, n
  <2> HIDE DEF QueueVersion, Spent
  <2>4. ASSUME NEW x \in QueuedStrings' PROVE x \in QueuedStrings
    <3>1. PICK j \in 1 .. Len(ring') : x = QueueVersion(j)'
      BY <2>1, <2>4, Zenon
    <3>2. j + k - 1 \in 1 .. n /\ ~(j + k - 1 < k)
      BY <1>2, <1>3, <1>10
    <3> DEFINE p == j + k - 1
    <3>3. x = QueueVersion(p)
      BY <1>10, <3>1
    <3> HIDE DEF p
    <3>4. p \in 1 .. n /\ ~Spent(p)
      BY <2>2, <3>2 DEF p
    <3> QED
      BY <2>3, <3>3, <3>4
  <2>5. ASSUME NEW x \in QueuedStrings PROVE x \in QueuedStrings'
    <3>1. PICK i \in 1 .. n : x = QueueVersion(i) /\ ~Spent(i)
      BY <2>3, <2>5, Zenon
    <3> DEFINE j == i - k + 1
    <3>2. j \in 1 .. Len(ring') /\ j + k - 1 = i
      BY <1>3, <1>5, <2>2, <3>1
    <3> HIDE DEF j
    <3>3. x = QueueVersion(j)'
      BY <1>10, <3>1, <3>2
    <3> QED
      BY <2>1, <3>2, <3>3
  <2>6. QueuedStrings' = QueuedStrings
    BY <2>4, <2>5
  <2> QED
    BY <1>1, <2>6 DEF OwnershipInv
<1> QED
  BY <1>16, <1>17, <1>18

-----------------------------------------------------------------------------
IterInv == CountInv /\ OrderInv /\ OwnershipInv

LEMMA IterInvStep == IterInv /\ [Next]_vars => IterInv'
<1> SUFFICES ASSUME IterInv, [Next]_vars PROVE IterInv'
  OBVIOUS
<1>1. CountInv /\ OrderInv /\ OwnershipInv /\ CountInv'
  BY CountInvStep DEF IterInv
<1>2. \/ QuietNext \/ UNCHANGED vars
      \/ EndInsert \/ EraseString \/ AddQueue \/ TakeMinibatch
  BY DEF Next, PrefetchStep, GetNextStep, QuietNext
<1>3. OrderInv' /\ OwnershipInv'
  BY <1>1, <1>2, QuietNextStep, InsertStep, EraseStep, AddStep, TakeStep, Zenon
<1> QED
  BY <1>1, <1>3 DEF IterInv

LEMMA IterInvHolds == Spec => []IterInv
<1>1. Init => IterInv
  BY CountInvInit, OrderInit DEF IterInv
<1> QED
  BY <1>1, IterInvStep, PTL DEF Spec

(* The string a queued or delivered minibatch points into is alive until it   *)
(* was copied, and no other string is kept (lines 62-70, 130-135), for as     *)
(* long as no insertion has overlapped an erasure of list_strings.            *)
THEOREM StringsOwnedTheorem == Spec => []StringsOwned
<1>1. ASSUME IterInv PROVE StringsOwned
  <2> USE <1>1 DEF IterInv
  <2> USE MinibatchesAssumption
  <2>1. ring \in Seq(Seq(Minibatch)) /\ Len(ring) \in Nat
    BY DEF CountInv, TypeOK
  <2>2. ASSUME NEW k \in 1 .. Len(ring), NEW i \in 1 .. Len(ring[k])
        PROVE  ring[k][i].ver = QueueVersion(k) /\ ring[k] # <<>>
    <3> DEFINE p == NMinibatches - Len(ring[k]) + i
    <3>1. ring[k][i] = MinibatchesOf(QueueVersion(k))[p]
      BY DEF OrderInv
    <3>2. p \in 1 .. NMinibatches /\ ring[k] # <<>>
      <4>1. Len(ring[k]) \in Nat /\ Len(ring[k]) <= NMinibatches
        BY <2>1 DEF CountInv, CountsAgree
      <4>2. ring[k] # <<>>
        BY <2>1
      <4> QED
        BY <4>1, <4>2
    <3>3. QueueVersion(k) \in VersionSet
      BY QueueVersions
    <3> HIDE DEF p
    <3> QED
      BY <3>1, <3>2, <3>3, MinibatchFacts
  <2>3. \A k \in 1 .. Len(ring) : ~Spent(k) => QueueVersion(k) \in QueuedStrings
    BY DEF QueuedStrings
  <2>4. NoDanglingPointer
    <3> SUFFICES ASSUME ~mapRace
                 PROVE  /\ \A k \in 1 .. Len(ring) : \A i \in 1 .. Len(ring[k]) :
                             ring[k][i].ver \in list_strings
                        /\ InHand => ret.ver \in list_strings
      BY DEF NoDanglingPointer
    <3>1. \A v \in QueuedStrings : v \in list_strings
      BY DEF OwnershipInv
    <3>2. ASSUME NEW k \in 1 .. Len(ring), NEW i \in 1 .. Len(ring[k])
          PROVE  ring[k][i].ver \in list_strings
      BY <2>2, <2>3, <3>1 DEF Spent
    <3>3. ASSUME InHand PROVE ret.ver \in list_strings
      <4>1. Len(ring) >= 1 /\ ret.ver = QueueVersion(1)
        BY <3>3, Oldest DEF OrderInv
      <4>2. 1 \in 1 .. Len(ring) /\ ~Spent(1)
        BY <2>1, <3>3, <4>1 DEF Spent, InHand
      <4> QED
        BY <2>3, <3>1, <4>1, <4>2
    <3> QED
      BY <3>2, <3>3
  <2>5. NoLeak
    <3> SUFFICES ASSUME ~mapRace, NEW v \in list_strings, v # str_version
                 PROVE  \/ v = ret.ver
                        \/ \E k \in 1 .. Len(ring) : \E i \in 1 .. Len(ring[k]) :
                             ring[k][i].ver = v
      BY DEF NoLeak
    <3>1. v \in QueuedStrings
      BY DEF OwnershipInv
    <3>2. PICK k \in 1 .. Len(ring) : v = QueueVersion(k)
      BY <3>1 DEF QueuedStrings
    <3>3. CASE ring[k] # <<>>
      <4>1. 1 \in 1 .. Len(ring[k])
        BY <2>1, <3>3
      <4> QED
        BY <2>2, <3>2, <4>1
    <3>4. CASE ring[k] = <<>>
      <4>1. k = 1
        BY <2>1, <3>4 DEF CountInv, CountsAgree
      <4>2. ret # NoMinibatch
        BY <2>1, <3>4 DEF OrderInv
      <4> QED
        BY <3>2, <4>1, <4>2, Oldest
    <3> QED
      BY <3>3, <3>4
  <2> QED
    BY <2>4, <2>5 DEF StringsOwned
<1> QED
  BY <1>1, IterInvHolds, PTL

(* getNext() hands out every minibatch of every object once and in the order  *)
(* of the objects (lines 74-92), whatever the two threads do to the counters. *)
THEOREM InOrder == Spec => DeliveredInOrder
<1>1. ASSUME IterInv, [Next]_vars
      PROVE  [getPc = "take" /\ getPc' = "ready" => ret' = Successor(ret)]_vars
  <2>1. CASE TakeMinibatch
    BY <1>1, <2>1, TakeStep DEF IterInv
  <2>2. CASE ~TakeMinibatch
    <3>1. ~(getPc = "take" /\ getPc' = "ready")
      BY <1>1, <2>2
      DEF Next, PrefetchStep, GetNextStep, ConstructorReturns, CallGetNext,
          S3GetFails, S3GetSucceeds, PrefWait, SampleObjId, LoadCurrent,
          StoreCurrent, S3Retry, BeginInsert, EndInsert, AddQueue,
          CountMinibatch, PostMinibatch, PushDone, EraseString, SemWait,
          ReadReady, ReadPrefSem, SignalPrefetch, BuildDataset, vars, getVars
    <3> QED
      BY <3>1
  <2> QED
    BY <2>1, <2>2
<1> QED
  BY <1>1, IterInvHolds, PTL DEF Spec, DeliveredInOrder
=============================================================================
