----------------------- MODULE S3IteratorLibsvmProofs -----------------------
(* Theorems about the LIBSVM iterator: its ring is a queue that never         *)
(* overflows, and its semaphores count what is in it.                         *)
EXTENDS S3IteratorLibsvm, WellFoundedInduction, FiniteSetTheorems, TLAPS

Add(t, x, e) == x + e

U == INSTANCE FoldFacts WITH Op <- Add

LEMMA Sizes == /\ Capacity \in Nat /\ ReadyLimit \in Nat /\ ReadyLimit > 0
               /\ Capacity > ReadyLimit + 3
  BY CapacityAssumption, LimitAssumption DEF read_ahead

-----------------------------------------------------------------------------
(* The ring, for any user that leaves a slot free.                            *)

RingOK ==
  /\ front \in 0 .. (Capacity - 1) /\ tail \in 0 .. (Capacity - 1)
  /\ DOMAIN buffer = 0 .. (Capacity - 1)
  /\ \A i \in 1 .. Ring!size : Ring!Contents[i] \in Lists

(* Where the item is that has index i in the queue. *)
SlotFrom(f, i) == IF f + i <= Capacity THEN (f + i) - 1 ELSE (f + i) - (Capacity + 1)
Slot(i) == SlotFrom(front, i)

LEMMA Modulo ==
  ASSUME NEW x \in 0 .. (2 * Capacity - 1)
  PROVE  x % Capacity = IF x < Capacity THEN x ELSE x - Capacity
<1>1. Capacity \in Nat /\ Capacity > 0
  BY Sizes
<1> QED
  BY <1>1

LEMMA SlotModulo ==
  ASSUME NEW f \in 0 .. (Capacity - 1), NEW i \in 1 .. Capacity
  PROVE  (f + i - 1) % Capacity = SlotFrom(f, i)
<1> DEFINE x == f + (i - 1)
<1>1. Capacity \in Nat /\ Capacity > 1
  BY Sizes
<1>2. x \in 0 .. (2 * Capacity - 1)
  BY <1>1
<1>3. x % Capacity = IF x < Capacity THEN x ELSE x - Capacity
  BY <1>2, Modulo
<1> QED
  BY <1>1, <1>3 DEF SlotFrom

LEMMA ContentsAt ==
  ASSUME RingOK
  PROVE  /\ Ring!size \in 0 .. (Capacity - 1)
         /\ Ring!Contents = [i \in 1 .. Ring!size |-> buffer[Slot(i)]]
         /\ Ring!Contents \in Seq(Lists) /\ Len(Ring!Contents) = Ring!size
         /\ (front + 1) % Capacity = IF front = Capacity - 1 THEN 0 ELSE front + 1
<1>1. Capacity \in Nat /\ Capacity > 1
  BY Sizes
<1>2. Ring!size \in 0 .. (Capacity - 1)
  BY <1>1 DEF RingOK, Ring!size
<1>3. ASSUME NEW i \in 1 .. Ring!size PROVE (front + i - 1) % Capacity = Slot(i)
  <2>1. i \in 1 .. Capacity
    BY <1>1, <1>2
  <2> QED
    BY <2>1, SlotModulo DEF RingOK, Slot
<1>4. Ring!Contents = [i \in 1 .. Ring!size |-> buffer[Slot(i)]]
  BY <1>3 DEF Ring!Contents
<1>5. Ring!Contents \in Seq(Lists) /\ Len(Ring!Contents) = Ring!size
  <2>1. Ring!size \in Nat /\ Ring!Contents = [i \in 1 .. Ring!size |-> Ring!Contents[i]]
    BY <1>1, <1>2, <1>4
  <2>2. \A i \in 1 .. Ring!size : Ring!Contents[i] \in Lists
    BY DEF RingOK
  <2>3. \A n \in Nat : \A q : q = [i \in 1 .. n |-> q[i]] /\ (\A i \in 1 .. n : q[i] \in Lists)
                            => q \in Seq(Lists) /\ Len(q) = n
    OBVIOUS
  <2> QED
    BY <2>1, <2>2, <2>3
<1>6. (front + 1) % Capacity = IF front = Capacity - 1 THEN 0 ELSE front + 1
  <2> DEFINE x == front + 1
  <2>1. x \in 0 .. (2 * Capacity - 1)
    BY <1>1 DEF RingOK
  <2>2. x % Capacity = IF x < Capacity THEN x ELSE x - Capacity
    BY <2>1, Modulo
  <2> QED
    BY <1>1, <2>2 DEF RingOK
<1> QED
  BY <1>2, <1>4, <1>5, <1>6

(* The ring has these lists now. *)
RingIs(q) ==
  /\ front' \in 0 .. (Capacity - 1) /\ tail' \in 0 .. (Capacity - 1)
  /\ DOMAIN buffer' = 0 .. (Capacity - 1)
  /\ Ring!size' = Len(q) /\ \A i \in 1 .. Len(q) : buffer'[Slot(i)'] = q[i]

LEMMA RingNow ==
  ASSUME NEW q \in Seq(Lists), Len(q) <= Capacity - 1, RingIs(q)
  PROVE  RingOK' /\ Ring!Contents' = q /\ Ring!size' = Len(q)
<1>1. Capacity \in Nat /\ Capacity > 1
  BY Sizes
<1>2. ASSUME NEW i \in 1 .. Len(q) PROVE (front' + i - 1) % Capacity = Slot(i)'
  <2>1. i \in 1 .. Capacity
    BY <1>1
  <2> QED
    BY <2>1, SlotModulo DEF RingIs, Slot
<1>3. Ring!Contents' = [i \in 1 .. Len(q) |-> q[i]]
  BY <1>2 DEF RingIs, Ring!Contents
<1>4. Ring!Contents' = q
  BY <1>3
<1> QED
  BY <1>4 DEF RingOK, RingIs

LEMMA RingAdd ==
  ASSUME RingOK, Ring!size < Capacity - 1, NEW item \in Lists, Ring!add(item)
  PROVE  /\ RingOK' /\ Ring!Contents' = Append(Ring!Contents, item)
         /\ Ring!size' = Ring!size + 1
<1> DEFINE q == Append(Ring!Contents, item)
           n == Ring!size
<1>1. Capacity \in Nat /\ Capacity > 1
  BY Sizes
<1>2. /\ n \in Nat /\ Ring!Contents \in Seq(Lists) /\ Len(Ring!Contents) = n
      /\ \A i \in 1 .. n : Ring!Contents[i] = buffer[Slot(i)]
  BY <1>1, ContentsAt
<1>3. /\ q \in Seq(Lists) /\ Len(q) = n + 1 /\ q[n + 1] = item
      /\ \A i \in 1 .. n : q[i] = buffer[Slot(i)]
  BY <1>2
<1> HIDE DEF q
<1>4. /\ front' = front /\ tail' = IF tail + 1 = Capacity THEN 0 ELSE tail + 1
      /\ buffer' = [buffer EXCEPT ![tail] = item]
  BY DEF Ring!add, Ring!Advance
<1>5. Ring!size' = n + 1
  BY <1>1, <1>4 DEF RingOK, Ring!size
<1>6. Slot(n + 1) = tail /\ \A i \in 1 .. n : Slot(i) # tail /\ Slot(i) \in 0 .. (Capacity - 1)
  BY <1>1 DEF RingOK, Ring!size, Slot, SlotFrom
<1>7. \A i : Slot(i)' = Slot(i)
  BY <1>4 DEF Slot, SlotFrom
<1>8. ASSUME NEW i \in 1 .. (n + 1) PROVE buffer'[Slot(i)'] = q[i]
  <2>1. CASE i = n + 1
    BY <1>3, <1>4, <1>6, <1>7, <2>1 DEF RingOK
  <2>2. CASE i # n + 1
    <3>1. i \in 1 .. n
      BY <1>2, <2>2
    <3> QED
      BY <1>3, <1>4, <1>6, <1>7, <3>1 DEF RingOK
  <2> QED
    BY <2>1, <2>2
<1>9. RingIs(q)
  BY <1>1, <1>3, <1>4, <1>5, <1>8 DEF RingIs, RingOK
<1>10. Len(q) <= Capacity - 1
  BY <1>1, <1>2, <1>3
<1>11. RingOK' /\ Ring!Contents' = q /\ Ring!size' = Len(q)
  BY <1>3, <1>9, <1>10, RingNow
<1> QED
  BY <1>2, <1>3, <1>11 DEF q

LEMMA RingPop ==
  ASSUME RingOK, Ring!pop
  PROVE  /\ RingOK' /\ Ring!Contents' = Tail(Ring!Contents)
         /\ Ring!size' = Ring!size - 1 /\ out' = Ring!Contents[1]
<1> DEFINE q == Tail(Ring!Contents)
           n == Ring!size
<1>1. Capacity \in Nat /\ Capacity > 1
  BY Sizes
<1>2. /\ n \in Nat /\ Ring!Contents \in Seq(Lists) /\ Len(Ring!Contents) = n
      /\ \A i \in 1 .. n : Ring!Contents[i] = buffer[Slot(i)]
  BY <1>1, ContentsAt
<1>3. n # 0 /\ out' = buffer[front] /\ buffer' = buffer /\ tail' = tail
  BY DEF Ring!pop
<1>4. front' = IF front = Capacity - 1 THEN 0 ELSE front + 1
  BY ContentsAt DEF Ring!pop
<1>5. /\ q \in Seq(Lists) /\ Len(q) = n - 1
      /\ \A i \in 1 .. (n - 1) : q[i] = buffer[Slot(i + 1)]
  BY <1>2, <1>3
<1> HIDE DEF q
<1>6. Ring!size' = n - 1
  BY <1>1, <1>3, <1>4 DEF RingOK, Ring!size
<1>7. \A i \in 1 .. (n - 1) : Slot(i)' = Slot(i + 1)
  BY <1>1, <1>3, <1>4 DEF RingOK, Ring!size, Slot, SlotFrom
<1>8. Slot(1) = front
  BY <1>1 DEF RingOK, Slot, SlotFrom
<1>9. RingIs(q)
  BY <1>1, <1>3, <1>4, <1>5, <1>6, <1>7 DEF RingIs, RingOK
<1>10. Len(q) <= Capacity - 1
  BY <1>1, <1>2, <1>5, ContentsAt
<1>11. RingOK' /\ Ring!Contents' = q /\ Ring!size' = Len(q)
  BY <1>5, <1>9, <1>10, RingNow
<1> QED
  BY <1>2, <1>3, <1>5, <1>8, <1>11 DEF q

LEMMA RingUpdate ==
  ASSUME RingOK, NEW item \in Lists, Ring!update(item)
  PROVE  /\ RingOK' /\ Ring!Contents' = <<item>> \o Tail(Ring!Contents)
         /\ Ring!Contents' = [Ring!Contents EXCEPT ![1] = item]
         /\ Ring!size' = Ring!size /\ Ring!Contents[1] = buffer[front]
<1> DEFINE q == [Ring!Contents EXCEPT ![1] = item]
           n == Ring!size
<1>1. Capacity \in Nat /\ Capacity > 1
  BY Sizes
<1>2. /\ n \in Nat /\ Ring!Contents \in Seq(Lists) /\ Len(Ring!Contents) = n
      /\ \A i \in 1 .. n : Ring!Contents[i] = buffer[Slot(i)]
  BY <1>1, ContentsAt
<1>3. /\ n # 0 /\ buffer' = [buffer EXCEPT ![front] = item] /\ tail' = tail
      /\ front' = front
  BY DEF Ring!update
<1>4. /\ q \in Seq(Lists) /\ Len(q) = n /\ q[1] = item
      /\ \A i \in 2 .. n : q[i] = buffer[Slot(i)]
  BY <1>2, <1>3
<1>5. q = <<item>> \o Tail(Ring!Contents)
  BY <1>2, <1>3
<1> HIDE DEF q
<1>6. Ring!size' = n /\ \A i : Slot(i)' = Slot(i)
  BY <1>3 DEF Ring!size, Slot
<1>7. Slot(1) = front /\ \A i \in 2 .. n : Slot(i) # front
  BY <1>1 DEF RingOK, Ring!size, Slot, SlotFrom
<1>8. ASSUME NEW i \in 1 .. n PROVE buffer'[Slot(i)'] = q[i]
  <2>1. CASE i = 1
    BY <1>3, <1>4, <1>6, <1>7, <2>1 DEF RingOK
  <2>2. CASE i # 1
    <3>1. i \in 2 .. n
      BY <1>2, <2>2
    <3> QED
      BY <1>3, <1>4, <1>6, <1>7, <3>1 DEF RingOK
  <2> QED
    BY <2>1, <2>2
<1>9. RingIs(q)
  BY <1>1, <1>3, <1>4, <1>6, <1>8 DEF RingIs, RingOK
<1>10. Len(q) <= Capacity - 1
  BY <1>1, <1>2, <1>4, ContentsAt
<1>11. RingOK' /\ Ring!Contents' = q /\ Ring!size' = Len(q)
  BY <1>4, <1>9, <1>10, RingNow
<1> QED
  BY <1>2, <1>3, <1>4, <1>5, <1>7, <1>11 DEF q

-----------------------------------------------------------------------------
(* The longest list.                                                          *)

LEMMA ListIsSeq == ASSUME NEW list \in Lists PROVE U!IsSeq(list) /\ Len(list) \in Nat
<1>1. list \in Seq(ToSet(list))
  BY ListsAssumption
<1> HIDE DEF ToSet
<1> QED
  BY <1>1 DEF U!IsSeq

LEMMA LongestList == MaxList \in Nat /\ \A list \in Lists : Len(list) <= MaxList
<1> DEFINE Lens == {Len(list) : list \in Lists}
<1>1. IsFiniteSet(Lists) /\ <<>> \in Lists
  BY ListsAssumption
<1>2. \A list \in Lists : Len(list) \in Nat
  BY ListIsSeq
<1>3. PICK n \in Nat :
        \E f \in [1 .. n -> Lists] : \A list \in Lists : \E i \in 1 .. n : f[i] = list
  <2>1. PICK n \in Nat : \E f : f \in Surjection(1 .. n, Lists)
    BY <1>1, FS_NatSurjection, Zenon DEF ExistsSurjection
  <2> QED
    BY <2>1, Zenon DEF Surjection
<1> PICK f \in [1 .. n -> Lists] : \A list \in Lists : \E i \in 1 .. n : f[i] = list
  BY <1>3
<1>4. \E b \in Nat : \A i \in 1 .. n : Len(f[i]) <= b
  <2> DEFINE S == {m \in Nat : m <= n => \E b \in Nat : \A i \in 1 .. m : Len(f[i]) <= b}
  <2>1. 0 \in S
    OBVIOUS
  <2>2. ASSUME NEW m \in S PROVE m + 1 \in S
    <3> SUFFICES ASSUME m + 1 <= n PROVE \E b \in Nat : \A i \in 1 .. (m + 1) : Len(f[i]) <= b
      OBVIOUS
    <3>1. m \in Nat /\ m + 1 \in 1 .. n
      OBVIOUS
    <3>2. PICK b \in Nat : \A i \in 1 .. m : Len(f[i]) <= b
      BY <3>1
    <3> DEFINE x == Len(f[m + 1])
    <3>3. x \in Nat
      BY <1>2, <3>1
    <3>4. \A i \in 1 .. (m + 1) : i \in 1 .. m \/ i = m + 1
      BY <3>1
    <3>5. \A i \in 1 .. m : Len(f[i]) \in Nat
      BY <1>2, <3>1
    <3> HIDE DEF x
    <3>6. \A i \in 1 .. (m + 1) : Len(f[i]) <= b + x
      BY <3>2, <3>3, <3>4, <3>5 DEF x
    <3> QED
      BY <3>3, <3>6
  <2>3. S = Nat
    <3>1. S \subseteq Nat
      OBVIOUS
    <3> HIDE DEF S
    <3> QED
      BY <2>1, <2>2, <3>1, U!SetInduction
  <2>4. n \in S
    BY <2>3
  <2> QED
    BY <2>4
<1>5. PICK b \in Nat : \A i \in 1 .. n : Len(f[i]) <= b
  BY <1>4
<1>6. \A x \in Lens : x \in 0 .. b
  BY <1>2, <1>3, <1>5
<1>7. Lens # {}
  BY <1>1
<1> HIDE DEF Lens
<1>8. \E x \in Lens : \A y \in Lens : x >= y
  <2> DEFINE T == {x \in 1 .. (b + 1) : x - 1 \in Lens}
  <2>1. \A x \in Lens : x + 1 \in T
    BY <1>6
  <2>2. T \in SUBSET (1 .. (b + 1)) /\ T # {} /\ b + 1 \in Nat
    BY <1>7, <2>1
  <2>3. \A x \in T : x \in Int /\ x - 1 \in Lens
    OBVIOUS
  <2> HIDE DEF T
  <2>4. Max(T) \in T /\ \A y \in T : Max(T) >= y
    <3>1. U!Max(T) = Max(T)
      BY DEF Max, U!Max
    <3> QED
      BY <2>2, <3>1, U!MaxOfNumbers
  <2> DEFINE z == Max(T)
  <2> HIDE DEF z
  <2>5. z \in T /\ \A y \in T : z >= y
    BY <2>4 DEF z
  <2>6. \A y \in Lens : z - 1 >= y
    BY <1>6, <2>1, <2>3, <2>5
  <2> QED
    BY <2>3, <2>5, <2>6
<1>9. Max(Lens) \in Lens /\ \A y \in Lens : Max(Lens) >= y
  BY <1>8 DEF Max
<1>10. MaxList = Max(Lens)
  BY DEF MaxList, Lens
<1> HIDE DEF MaxList
<1>11. MaxList \in Lens /\ \A y \in Lens : MaxList >= y
  BY <1>9, <1>10
<1>12. \A list \in Lists : Len(list) \in Lens
  BY DEF Lens
<1> QED
  BY <1>6, <1>11, <1>12

-----------------------------------------------------------------------------
(* The sequential reader: a range starts at a multiple of fetch.              *)

IndexOK(s) ==
  \/ cur_index = 0 \/ cur_index = file_size(s)
  \/ \E k \in Nat : cur_index = s.fetch * k /\ s.fetch * k < file_size(s)

LEMMA DivideAtLeast ==
  ASSUME NEW x \in Nat, NEW d \in Nat \ {0}, NEW k \in Nat, d * k <= x
  PROVE  k \in 0 .. (x \div d)
<1> DEFINE y == x \div d
<1>1. y \in Nat /\ x < d * y + d
  BY SMT
<1>2. CASE k <= y
  BY <1>1, <1>2
<1>3. CASE ~(k <= y)
  <2>1. PICK e \in Nat : k = y + 1 + e
    BY <1>1, <1>3
  <2> HIDE DEF y
  <2>2. d * k = d * y + d + d * e /\ d * e \in Nat /\ d * y \in Nat
    BY <1>1, <2>1, SMT
  <2> QED
    BY <1>1, <2>2
<1> QED
  BY <1>2, <1>3

LEMMA MinOfTwo == ASSUME NEW a \in Int, NEW b \in Int PROVE Min({a, b}) = IF a <= b THEN a ELSE b
<1>1. CASE a <= b
  <2>1. \A x \in {a, b} : (\A y \in {a, b} : x <= y) <=> x = a
    BY <1>1
  <2> QED
    BY <1>1, <2>1 DEF Min
<1>2. CASE ~(a <= b)
  <2>1. \A x \in {a, b} : (\A y \in {a, b} : x <= y) <=> x = b
    BY <1>2
  <2> QED
    BY <1>2, <2>1 DEF Min
<1> QED
  BY <1>1, <1>2

LEMMA NextRange ==
  ASSUME setup \in Setups, IndexOK(setup), getFileRange
  PROVE  range' \in Ranges(setup) /\ IndexOK(setup)'
<1> DEFINE n == file_size(setup)
           d == setup.fetch
<1>1. n \in Nat /\ d \in Nat \ {0} /\ setup' = setup
  BY SetupsAssumption DEF SetupOK, file_size, getFileRange
<1>2. CASE n < d
  <2>1. range' = <<0, n>> /\ cur_index' = cur_index
    BY <1>1, <1>2 DEF getFileRange
  <2> QED
    BY <1>1, <1>2, <2>1 DEF Ranges, IndexOK
<1>3. CASE ~(n < d) /\ setup.random
  <2>1. cur_index' = cur_index /\ \E i \in 0 .. (n - 1) : range' = RandomRange(setup, i)
    BY <1>1, <1>3 DEF getFileRange
  <2> QED
    BY <1>1, <1>3, <2>1 DEF Ranges, IndexOK
<1>4. CASE ~(n < d) /\ ~setup.random
  <2> DEFINE cur == IF cur_index >= n THEN 0 ELSE cur_index
  <2>1. range' = SequentialRange(setup, cur) /\ cur_index' = Min({cur + d, n})
    BY <1>1, <1>4 DEF getFileRange
  <2>2. PICK k \in Nat : cur = d * k /\ d * k < n
    <3>1. d * 0 = 0 /\ 0 \in Nat
      BY <1>1
    <3>2. CASE cur = 0
      BY <1>1, <1>4, <3>1, <3>2
    <3>3. CASE cur # 0
      <4>1. cur = cur_index /\ cur_index # 0 /\ cur_index # n
        BY <1>1, <3>3
      <4> QED
        BY <4>1 DEF IndexOK
    <3> QED
      BY <3>2, <3>3
  <2> HIDE DEF cur
  <2> DEFINE x == d * k
  <2>3. x \in Nat /\ d * (k + 1) = x + d
    BY <1>1
  <2>4. range' \in Ranges(setup)
    <3>1. n - 1 \in Nat /\ d * k <= n - 1
      <4> HIDE DEF n, d
      <4>1. x \in Nat /\ x < n
        BY <2>2, <2>3
      <4> HIDE DEF x
      <4>2. n - 1 \in Nat /\ x <= n - 1
        BY <1>1, <4>1
      <4> QED
        BY <4>2 DEF x
    <3>2. k \in 0 .. ((n - 1) \div d)
      <4> HIDE DEF n, d
      <4> QED
        BY <1>1, <3>1, DivideAtLeast
    <3>3. Ranges(setup) = {SequentialRange(setup, d * i) : i \in 0 .. ((n - 1) \div d)}
      BY <1>4 DEF Ranges
    <3> QED
      BY <2>1, <2>2, <3>2, <3>3
  <2>5. cur_index' = IF x + d <= n THEN x + d ELSE n
    <3> HIDE DEF n, d
    <3>1. x + d \in Int /\ n \in Int
      BY <1>1, <2>3
    <3> QED
      BY <2>1, <2>2, <3>1, MinOfTwo
  <2>6. cur_index' = n \/ (cur_index' = d * (k + 1) /\ d * (k + 1) < n)
    <3> HIDE DEF n, d, x
    <3> QED
      BY <1>1, <2>3, <2>5
  <2>7. k + 1 \in Nat
    OBVIOUS
  <2> QED
    BY <1>1, <2>4, <2>6, <2>7 DEF IndexOK, file_size
<1> QED
  BY <1>2, <1>3, <1>4

-----------------------------------------------------------------------------
(* The invariant.  p[i] is the number of minibatches in the first i lists of  *)
(* the ring.                                                                  *)

Flag(cond) == IF cond THEN 1 ELSE 0

(* A list is on its way. *)
Coming == Flag(fpc \in {"range", "get", "add"})

(* getNext() may still signal for one more, as far as a list is concerned     *)
(* with x minibatches in it and ahead of it.                                  *)
Asking(x) == Flag(cpc = "signal" \/ (cpc \in {"ready", "value"} /\ x < ReadyLimit))

Least(x, y) == IF x < y THEN x ELSE y

TypesOK ==
  /\ setup \in Setups
  /\ fpc \in {"wait", "range", "get", "add", "count", "post"}
  /\ cpc \in {"call", "lock", "front", "ready", "value", "signal"}
  /\ ring_lock = (IF cpc = "front" THEN "next" ELSE "free")
  /\ semaphore \in Nat /\ num_minibatches_ready \in Int /\ todo \in Nat
  /\ pref_sem \in {0, 1} /\ (cpc = "signal" => pref_sem = 0)
  /\ fpc = "get" => range \in Ranges(setup)
  /\ fpc = "add" => dataset \in Lists
  /\ IndexOK(setup)

Sums(p) ==
  /\ p \in [0 .. Ring!size -> Nat] /\ p[0] = 0
  /\ \A i \in 1 .. Ring!size : p[i] = p[i - 1] + Len(Ring!Contents[i])
  /\ \A i, j \in 0 .. Ring!size : i <= j => p[i] <= p[j]

Taking == Flag(cpc \in {"lock", "front"})
Unposted == IF fpc \in {"count", "post"} THEN todo ELSE 0
Uncounted == IF fpc = "count" THEN todo ELSE IF fpc = "post" THEN todo - 1 ELSE 0

(* Semaphore and count agree with the ring; what the fetcher has yet to count *)
(* and to post is in the last list.                                           *)
Tokens(p) ==
  /\ p[Ring!size] = semaphore + Taking + Unposted
  /\ p[Ring!size] = num_minibatches_ready + Uncounted
  /\ fpc \in {"count", "post"} =>
       Ring!size > 0 /\ todo > 0 /\ p[Ring!size - 1] + todo <= p[Ring!size]

(* Lists behind a list are asked for by taking from it or from those ahead of *)
(* it, when few are left.                                                     *)
Room(p) ==
  \A i \in 1 .. Ring!size :
    (Ring!size - i) + Coming + pref_sem + Asking(p[i]) + Least(p[i], ReadyLimit)
      <= ReadyLimit + 2

(* getNext() has read a count that no longer holds. *)
Stale(p) ==
  cpc = "value" =>
    \A i \in 1 .. Ring!size : p[i] >= ReadyLimit => (Ring!size - i) + Coming + pref_sem <= 1

Most(k) == IF k = 0 THEN 0 ELSE IF k = 1 THEN MaxList ELSE MaxList + MaxList

Few(p) ==
  /\ p[Ring!size] + Most(Coming + pref_sem + Flag(cpc = "signal"))
       <= ReadyLimit - 1 + MaxList + MaxList + MaxList
  /\ cpc = "value" =>
       p[Ring!size] + Most(Coming + pref_sem) <= ReadyLimit - 1 + MaxList + MaxList

Counted(p) == Sums(p) /\ Tokens(p) /\ Room(p) /\ Stale(p) /\ Few(p)

IteratorInv == TypesOK /\ RingOK /\ \E p : Counted(p)

LEMMA SizeNow == ASSUME RingOK PROVE Ring!size \in Nat /\ Ring!size < Capacity
<1>1. Capacity \in Nat
  BY Sizes
<1> QED
  BY <1>1, ContentsAt

LEMMA RingSame ==
  ASSUME RingOK, UNCHANGED ringVars, NEW p
  PROVE  RingOK' /\ Ring!size' = Ring!size /\ (Sums(p) => Sums(p)')
  BY DEF ringVars, RingOK, Ring!size, Ring!Contents, Sums

LEMMA LibsvmInit == ASSUME Init PROVE IteratorInv
<1> DEFINE p == [i \in {0} |-> 0]
<1>1. /\ setup \in Setups /\ cur_index = 0 /\ fpc = "wait" /\ todo = 0 /\ ring_lock = "free"
      /\ semaphore = 0 /\ pref_sem = 1 /\ num_minibatches_ready = 0 /\ cpc = "call"
      /\ front = 0 /\ tail = 0 /\ buffer = [s \in 0 .. (Capacity - 1) |-> NoList]
  BY DEF Init, Ring!Init, Ring!Slots, read_ahead
<1>2. Capacity \in Nat /\ Capacity > 1 /\ ReadyLimit \in Nat /\ ReadyLimit > 0 /\ MaxList \in Nat
  BY Sizes, LongestList
<1>3. Ring!size = 0
  BY <1>1 DEF Ring!size
<1>4. TypesOK
  BY <1>1 DEF TypesOK, IndexOK
<1>5. RingOK
  BY <1>1, <1>2, <1>3 DEF RingOK
<1>6. 0 .. Ring!size = {0} /\ 1 .. Ring!size = {}
  BY <1>3
<1>7. p \in [0 .. Ring!size -> Nat] /\ p[0] = 0 /\ p[Ring!size] = 0
  BY <1>3, <1>6
<1> HIDE DEF p
<1>8. Sums(p)
  BY <1>6, <1>7 DEF Sums
<1>9. Tokens(p)
  BY <1>1, <1>7 DEF Tokens, Taking, Unposted, Uncounted, Flag
<1>10. Room(p) /\ Stale(p)
  BY <1>1, <1>6 DEF Room, Stale
<1>11. Few(p)
  BY <1>1, <1>2, <1>7 DEF Few, Most, Coming, Flag
<1> QED
  BY <1>4, <1>5, <1>8, <1>9, <1>10, <1>11 DEF IteratorInv, Counted

-----------------------------------------------------------------------------
(* The steps that leave the ring alone.                                       *)

LEMMA Values ==
  ASSUME RingOK, NEW p, Counted(p)
  PROVE  /\ Ring!size \in Nat /\ MaxList \in Nat /\ ReadyLimit \in Nat /\ ReadyLimit > 0
         /\ p[Ring!size] \in Nat
         /\ \A i \in 1 .. Ring!size : p[i] \in Nat /\ p[i - 1] \in Nat /\ p[i] <= p[Ring!size]
<1>1. Ring!size \in Nat
  BY SizeNow
<1> DEFINE n == Ring!size
<1>2. /\ p \in [0 .. n -> Nat]
      /\ \A i, j \in 0 .. n : i <= j => p[i] <= p[j]
  BY DEF Counted, Sums
<1> HIDE DEF n
<1>3. n \in Nat
  BY <1>1 DEF n
<1>4. p[n] \in Nat /\ \A i \in 1 .. n : p[i] \in Nat /\ p[i - 1] \in Nat /\ p[i] <= p[n]
  <2>1. n \in 0 .. n /\ \A i \in 1 .. n : i \in 0 .. n /\ i - 1 \in 0 .. n /\ i <= n
    BY <1>3
  <2> QED
    BY <1>2, <2>1
<1> QED
  BY <1>1, <1>4, Sizes, LongestList DEF n

LEMMA LibsvmPrefWait == ASSUME IteratorInv, PrefWait PROVE IteratorInv'
<1>1. TypesOK /\ RingOK
  BY DEF IteratorInv
<1> PICK p : Counted(p)
  BY DEF IteratorInv
<1>2. RingOK' /\ Ring!size' = Ring!size /\ (Sums(p) => Sums(p)')
  BY <1>1, RingSame DEF PrefWait
<1>3. TypesOK'
  BY <1>1 DEF PrefWait, TypesOK, IndexOK
<1>4. Tokens(p)'
  BY <1>1, <1>2, Values DEF PrefWait, TypesOK, Counted, Tokens, Taking, Flag, Unposted, Uncounted
<1>5. Room(p)'
  BY <1>1, <1>2, Values DEF PrefWait, TypesOK, Counted, Room, Coming, Asking, Flag
<1>6. Stale(p)'
  BY <1>1, <1>2, Values DEF PrefWait, TypesOK, Counted, Stale, Coming, Flag
<1>7. Few(p)'
  BY <1>1, <1>2, Values DEF PrefWait, TypesOK, Counted, Few, Most, Coming, Flag
<1> QED
  BY <1>2, <1>3, <1>4, <1>5, <1>6, <1>7 DEF IteratorInv, Counted

LEMMA LibsvmCountMinibatch == ASSUME IteratorInv, CountMinibatch PROVE IteratorInv'
<1>1. TypesOK /\ RingOK
  BY DEF IteratorInv
<1> PICK p : Counted(p)
  BY DEF IteratorInv
<1>2. RingOK' /\ Ring!size' = Ring!size /\ (Sums(p) => Sums(p)')
  BY <1>1, RingSame DEF CountMinibatch
<1>3. TypesOK'
  BY <1>1 DEF CountMinibatch, TypesOK, IndexOK
<1>4. Tokens(p)'
  BY <1>1, <1>2, Values
  DEF CountMinibatch, TypesOK, Counted, Tokens, Taking, Flag, Unposted, Uncounted
<1>5. Room(p)'
  BY <1>1, <1>2, Values DEF CountMinibatch, TypesOK, Counted, Room, Coming, Asking, Flag
<1>6. Stale(p)'
  BY <1>1, <1>2, Values DEF CountMinibatch, TypesOK, Counted, Stale, Coming, Flag
<1>7. Few(p)'
  BY <1>1, <1>2, Values DEF CountMinibatch, TypesOK, Counted, Few, Most, Coming, Flag
<1> QED
  BY <1>2, <1>3, <1>4, <1>5, <1>6, <1>7 DEF IteratorInv, Counted

LEMMA LibsvmPostMinibatch == ASSUME IteratorInv, PostMinibatch PROVE IteratorInv'
<1>1. TypesOK /\ RingOK
  BY DEF IteratorInv
<1> PICK p : Counted(p)
  BY DEF IteratorInv
<1>2. RingOK' /\ Ring!size' = Ring!size /\ (Sums(p) => Sums(p)')
  BY <1>1, RingSame DEF PostMinibatch
<1>3. TypesOK'
  BY <1>1 DEF PostMinibatch, TypesOK, IndexOK, Counted, Tokens
<1>4. Tokens(p)'
  BY <1>1, <1>2, Values
  DEF PostMinibatch, TypesOK, Counted, Tokens, Taking, Flag, Unposted, Uncounted
<1>5. Room(p)'
  BY <1>1, <1>2, Values DEF PostMinibatch, TypesOK, Counted, Room, Coming, Asking, Flag
<1>6. Stale(p)'
  BY <1>1, <1>2, Values DEF PostMinibatch, TypesOK, Counted, Stale, Coming, Flag
<1>7. Few(p)'
  BY <1>1, <1>2, Values DEF PostMinibatch, TypesOK, Counted, Few, Most, Coming, Flag
<1> QED
  BY <1>2, <1>3, <1>4, <1>5, <1>6, <1>7 DEF IteratorInv, Counted

LEMMA LibsvmSemWait == ASSUME IteratorInv, SemWait PROVE IteratorInv'
<1>1. TypesOK /\ RingOK
  BY DEF IteratorInv
<1> PICK p : Counted(p)
  BY DEF IteratorInv
<1>2. RingOK' /\ Ring!size' = Ring!size /\ (Sums(p) => Sums(p)')
  BY <1>1, RingSame DEF SemWait
<1>3. TypesOK'
  BY <1>1 DEF SemWait, TypesOK, IndexOK
<1>4. Tokens(p)'
  BY <1>1, <1>2, Values DEF SemWait, TypesOK, Counted, Tokens, Taking, Flag, Unposted, Uncounted
<1>5. Room(p)'
  BY <1>1, <1>2, Values DEF SemWait, TypesOK, Counted, Room, Coming, Asking, Flag
<1>6. Stale(p)'
  BY <1>1, <1>2, Values DEF SemWait, TypesOK, Counted, Stale, Coming, Flag
<1>7. Few(p)'
  BY <1>1, <1>2, Values DEF SemWait, TypesOK, Counted, Few, Most, Coming, Flag
<1> QED
  BY <1>2, <1>3, <1>4, <1>5, <1>6, <1>7 DEF IteratorInv, Counted

LEMMA LibsvmLockRing == ASSUME IteratorInv, LockRing PROVE IteratorInv'
<1>1. TypesOK /\ RingOK
  BY DEF IteratorInv
<1> PICK p : Counted(p)
  BY DEF IteratorInv
<1>2. RingOK' /\ Ring!size' = Ring!size /\ (Sums(p) => Sums(p)')
  BY <1>1, RingSame DEF LockRing
<1>3. TypesOK'
  BY <1>1 DEF LockRing, TypesOK, IndexOK
<1>4. Tokens(p)'
  BY <1>1, <1>2, Values DEF LockRing, TypesOK, Counted, Tokens, Taking, Flag, Unposted, Uncounted
<1>5. Room(p)'
  BY <1>1, <1>2, Values DEF LockRing, TypesOK, Counted, Room, Coming, Asking, Flag
<1>6. Stale(p)'
  BY <1>1, <1>2, Values DEF LockRing, TypesOK, Counted, Stale, Coming, Flag
<1>7. Few(p)'
  BY <1>1, <1>2, Values DEF LockRing, TypesOK, Counted, Few, Most, Coming, Flag
<1> QED
  BY <1>2, <1>3, <1>4, <1>5, <1>6, <1>7 DEF IteratorInv, Counted

LEMMA LibsvmReadReady == ASSUME IteratorInv, ReadReady PROVE IteratorInv'
<1>1. TypesOK /\ RingOK
  BY DEF IteratorInv
<1> PICK p : Counted(p)
  BY DEF IteratorInv
<1>2. RingOK' /\ Ring!size' = Ring!size /\ (Sums(p) => Sums(p)')
  BY <1>1, RingSame DEF ReadReady
<1>3. TypesOK'
  BY <1>1 DEF ReadReady, TypesOK, IndexOK
<1>4. Tokens(p)'
  BY <1>1, <1>2, Values DEF ReadReady, TypesOK, Counted, Tokens, Taking, Flag, Unposted, Uncounted
<1> DEFINE n == Ring!size
<1> HIDE DEF n
<1>5. /\ n' = n /\ cpc = "ready" /\ fpc' = fpc /\ todo' = todo /\ pref_sem' = pref_sem
      /\ cpc' = IF num_minibatches_ready < ReadyLimit THEN "value" ELSE "call"
  BY <1>2 DEF ReadReady, n
<1>6. /\ n \in Nat /\ MaxList \in Nat /\ ReadyLimit \in Nat /\ ReadyLimit > 0 /\ p[n] \in Nat
      /\ \A i \in 1 .. n : p[i] \in Nat /\ p[i] <= p[n]
      /\ pref_sem \in {0, 1} /\ num_minibatches_ready \in Int /\ todo \in Nat
  BY <1>1, Values DEF TypesOK, n
<1>7. Coming' = Coming /\ Coming \in {0, 1} /\ (fpc \in {"count", "post"} => Coming = 0)
  BY <1>5 DEF Coming, Flag
<1>8. Room(p)'
  <2> SUFFICES ASSUME NEW i \in 1 .. n
               PROVE  (n - i) + Coming + pref_sem + Asking(p[i])' + Least(p[i], ReadyLimit)
                        <= ReadyLimit + 2
    BY <1>5, <1>7 DEF Room, n, Least
  <2>1. (n - i) + Coming + pref_sem + Asking(p[i]) + Least(p[i], ReadyLimit) <= ReadyLimit + 2
    BY DEF Counted, Room, n
  <2>2. Asking(p[i])' \in {0, 1} /\ Asking(p[i]) \in {0, 1} /\ Asking(p[i])' <= Asking(p[i])
    BY <1>5 DEF Asking, Flag
  <2>3. Least(p[i], ReadyLimit) \in Nat
    BY <1>6 DEF Least
  <2> HIDE DEF Asking
  <2> QED
    BY <1>6, <1>7, <2>1, <2>2, <2>3
<1>9. ASSUME num_minibatches_ready < ReadyLimit, NEW i \in 1 .. n, p[i] >= ReadyLimit
      PROVE  i = n /\ Coming = 0
  <2>1. p[n] = num_minibatches_ready + Uncounted
    BY DEF Counted, Tokens, n
  <2>2. fpc \in {"count", "post"}
    BY <1>6, <1>9, <2>1 DEF Uncounted
  <2>3. Uncounted <= todo /\ Uncounted \in Int
    BY <1>6, <2>2 DEF Uncounted
  <2>4. p[n - 1] + todo <= p[n] /\ n > 0
    BY <2>2 DEF Counted, Tokens, n
  <2>5. i <= n - 1 => p[i] <= p[n - 1]
    <3>1. i \in 0 .. n /\ n - 1 \in 0 .. n
      BY <1>6
    <3> QED
      BY <3>1 DEF Counted, Sums, n
  <2>6. p[n - 1] \in Nat
    <3>1. n \in 1 .. n
      BY <1>6, <2>4
    <3> QED
      BY <1>1, <3>1, Values DEF n
  <2> QED
    BY <1>6, <1>7, <1>9, <2>1, <2>2, <2>3, <2>4, <2>5, <2>6
<1>10. Stale(p)'
  <2> SUFFICES ASSUME num_minibatches_ready < ReadyLimit, NEW i \in 1 .. n, p[i] >= ReadyLimit
               PROVE  (n - i) + Coming + pref_sem <= 1
    BY <1>5, <1>7 DEF Stale, n
  <2> QED
    BY <1>6, <1>9
<1>11. Few(p)'
  <2>1. p[n] + Most(Coming + pref_sem) <= ReadyLimit - 1 + MaxList + MaxList + MaxList
    BY <1>5, <1>6, <1>7 DEF Counted, Few, n, Flag
  <2>2. ASSUME num_minibatches_ready < ReadyLimit
        PROVE  p[n] + Most(Coming + pref_sem) <= ReadyLimit - 1 + MaxList + MaxList
    <3>1. p[n] = num_minibatches_ready + Uncounted
      BY DEF Counted, Tokens, n
    <3>2. CASE fpc \in {"count", "post"}
      <4>1. Uncounted \in Int /\ Uncounted <= todo
        BY <1>6, <3>2 DEF Uncounted
      <4>2. todo <= MaxList
        <5>1. n > 0 /\ p[n - 1] + todo <= p[n]
          BY <3>2 DEF Counted, Tokens, n
        <5>2. n \in 1 .. n
          BY <1>6, <5>1
        <5>3. p[n] = p[n - 1] + Len(Ring!Contents[n]) /\ p[n - 1] \in Nat
          BY <5>2, Values DEF Counted, Sums, n
        <5>4. Ring!Contents[n] \in Lists
          BY <1>1, <5>2 DEF RingOK, n
        <5>5. Len(Ring!Contents[n]) \in Nat /\ Len(Ring!Contents[n]) <= MaxList
          BY <5>4, ListIsSeq, LongestList
        <5> QED
          BY <1>6, <5>1, <5>3, <5>5
      <4> QED
        BY <1>6, <1>7, <2>2, <3>1, <3>2, <4>1, <4>2 DEF Most
    <3>3. CASE ~(fpc \in {"count", "post"})
      BY <1>6, <1>7, <2>2, <3>1, <3>3 DEF Most, Uncounted
    <3> QED
      BY <3>2, <3>3
  <2>3. cpc' # "signal"
    BY <1>5
  <2> QED
    BY <1>5, <1>6, <1>7, <2>1, <2>2, <2>3 DEF Few, n, Flag, Most
<1> QED
  BY <1>2, <1>3, <1>4, <1>8, <1>10, <1>11 DEF IteratorInv, Counted

LEMMA LibsvmReadPrefSem == ASSUME IteratorInv, ReadPrefSem PROVE IteratorInv'
<1>1. TypesOK /\ RingOK
  BY DEF IteratorInv
<1> PICK p : Counted(p)
  BY DEF IteratorInv
<1>2. RingOK' /\ Ring!size' = Ring!size /\ (Sums(p) => Sums(p)')
  BY <1>1, RingSame DEF ReadPrefSem
<1>3. TypesOK'
  BY <1>1 DEF ReadPrefSem, read_ahead, TypesOK, IndexOK
<1>4. Tokens(p)'
  BY <1>1, <1>2, Values
  DEF ReadPrefSem, read_ahead, TypesOK, Counted, Tokens, Taking, Flag, Unposted, Uncounted
<1>5. Room(p)'
  BY <1>1, <1>2, Values
  DEF ReadPrefSem, read_ahead, TypesOK, Counted, Room, Stale, Coming, Asking, Flag, Least
<1>6. Stale(p)'
  BY <1>1, <1>2, Values DEF ReadPrefSem, read_ahead, TypesOK, Counted, Stale, Coming, Flag
<1>7. Few(p)'
  BY <1>1, <1>2, Values DEF ReadPrefSem, read_ahead, TypesOK, Counted, Few, Most, Coming, Flag
<1> QED
  BY <1>2, <1>3, <1>4, <1>5, <1>6, <1>7 DEF IteratorInv, Counted

LEMMA LibsvmSignalPrefetch == ASSUME IteratorInv, SignalPrefetch PROVE IteratorInv'
<1>1. TypesOK /\ RingOK
  BY DEF IteratorInv
<1> PICK p : Counted(p)
  BY DEF IteratorInv
<1>2. RingOK' /\ Ring!size' = Ring!size /\ (Sums(p) => Sums(p)')
  BY <1>1, RingSame DEF SignalPrefetch
<1>3. TypesOK'
  BY <1>1 DEF SignalPrefetch, TypesOK, IndexOK
<1>4. Tokens(p)'
  BY <1>1, <1>2, Values
  DEF SignalPrefetch, TypesOK, Counted, Tokens, Taking, Flag, Unposted, Uncounted
<1>5. Room(p)'
  BY <1>1, <1>2, Values DEF SignalPrefetch, TypesOK, Counted, Room, Coming, Asking, Flag
<1>6. Stale(p)'
  BY <1>1, <1>2, Values DEF SignalPrefetch, TypesOK, Counted, Stale, Coming, Flag
<1>7. Few(p)'
  BY <1>1, <1>2, Values DEF SignalPrefetch, TypesOK, Counted, Few, Most, Coming, Flag
<1> QED
  BY <1>2, <1>3, <1>4, <1>5, <1>6, <1>7 DEF IteratorInv, Counted

LEMMA LibsvmGetFileRange == ASSUME IteratorInv, getFileRange PROVE IteratorInv'
<1>1. TypesOK /\ RingOK
  BY DEF IteratorInv
<1> PICK p : Counted(p)
  BY DEF IteratorInv
<1>2. RingOK' /\ Ring!size' = Ring!size /\ (Sums(p) => Sums(p)')
  BY <1>1, RingSame DEF getFileRange
<1>3. range' \in Ranges(setup) /\ IndexOK(setup)'
  BY <1>1, NextRange DEF TypesOK
<1>4. /\ fpc = "range" /\ fpc' = "get"
      /\ UNCHANGED <<setup, cpc, ring_lock, semaphore, num_minibatches_ready, todo, pref_sem>>
  BY DEF getFileRange
<1>5. TypesOK'
  BY <1>1, <1>3, <1>4 DEF TypesOK
<1>6. Tokens(p)'
  BY <1>1, <1>2, <1>4, Values DEF TypesOK, Counted, Tokens, Taking, Flag, Unposted, Uncounted
<1>7. Coming' = Coming /\ \A x : Asking(x)' = Asking(x)
  BY <1>4 DEF Coming, Asking, Flag
<1>8. Room(p)' /\ Stale(p)' /\ Few(p)'
  BY <1>2, <1>4, <1>7 DEF Counted, Room, Stale, Few, Least, Most, Flag
<1> QED
  BY <1>2, <1>5, <1>6, <1>8 DEF IteratorInv, Counted

LEMMA LibsvmGetAndParse == ASSUME IteratorInv, GetAndParse PROVE IteratorInv'
<1>1. TypesOK /\ RingOK
  BY DEF IteratorInv
<1> PICK p : Counted(p)
  BY DEF IteratorInv
<1>2. RingOK' /\ Ring!size' = Ring!size /\ (Sums(p) => Sums(p)')
  BY <1>1, RingSame DEF GetAndParse
<1>3. /\ fpc = "get" /\ fpc' = "add" /\ dataset' = Parsed(setup, range).got
      /\ UNCHANGED <<setup, cur_index, cpc, ring_lock, semaphore, num_minibatches_ready, todo,
                     pref_sem>>
  BY DEF GetAndParse
<1>4. dataset' \in Lists
  BY <1>1, <1>3, ListsAssumption DEF TypesOK
<1>5. TypesOK'
  BY <1>1, <1>3, <1>4 DEF TypesOK, IndexOK
<1>6. Tokens(p)'
  BY <1>1, <1>2, <1>3, Values DEF TypesOK, Counted, Tokens, Taking, Flag, Unposted, Uncounted
<1>7. Coming' = Coming /\ \A x : Asking(x)' = Asking(x)
  BY <1>3 DEF Coming, Asking, Flag
<1>8. Room(p)' /\ Stale(p)' /\ Few(p)'
  BY <1>2, <1>3, <1>7 DEF Counted, Room, Stale, Few, Least, Most, Flag
<1> QED
  BY <1>2, <1>5, <1>6, <1>8 DEF IteratorInv, Counted

-----------------------------------------------------------------------------
(* The steps that change the ring.                                            *)

LEMMA HasRoomToAdd ==
  ASSUME IteratorInv, AddList
  PROVE  Ring!size < Capacity - 1 /\ dataset \in Lists /\ Ring!add(dataset)
<1>1. TypesOK /\ RingOK
  BY DEF IteratorInv
<1> PICK p : Counted(p)
  BY DEF IteratorInv
<1> DEFINE n == Ring!size
<1> HIDE DEF n
<1>2. n \in Nat /\ Capacity \in Nat /\ ReadyLimit \in Nat /\ Capacity > ReadyLimit + 3
  BY <1>1, SizeNow, Sizes DEF n
<1>3. n <= ReadyLimit + 2
  <2>1. CASE n = 0
    BY <1>2, <2>1
  <2>2. CASE n # 0
    <3>1. 1 \in 1 .. n
      BY <1>2, <2>2
    <3>2. (n - 1) + Coming + pref_sem + Asking(p[1]) + Least(p[1], ReadyLimit) <= ReadyLimit + 2
      BY <3>1 DEF Counted, Room, n
    <3>3. Coming = 1
      BY DEF AddList, Coming, Flag
    <3>4. Asking(p[1]) \in Nat /\ Least(p[1], ReadyLimit) \in Nat /\ pref_sem \in Nat
      <4>1. p[1] \in Nat
        BY <1>1, <3>1, Values DEF n
      <4> QED
        BY <1>1, <1>2, <4>1 DEF Asking, Flag, Least, TypesOK
    <3> HIDE DEF Asking, Least
    <3> QED
      BY <1>2, <3>2, <3>3, <3>4
  <2> QED
    BY <2>1, <2>2
<1> QED
  BY <1>1, <1>2, <1>3 DEF AddList, TypesOK, n

LEMMA LibsvmAddList == ASSUME IteratorInv, AddList PROVE IteratorInv'
<1>1. TypesOK /\ RingOK
  BY DEF IteratorInv
<1> PICK p : Counted(p)
  BY DEF IteratorInv
<1> DEFINE n == Ring!size
           q == Ring!Contents
           len == Len(dataset)
<1>2. n < Capacity - 1 /\ dataset \in Lists /\ Ring!add(dataset)
  BY HasRoomToAdd
<1>3. RingOK' /\ q' = Append(q, dataset) /\ n' = n + 1 /\ Ring!size' = n + 1 /\ Ring!Contents' = q'
  BY <1>1, <1>2, RingAdd
<1>4. /\ n \in Nat /\ MaxList \in Nat /\ ReadyLimit \in Nat /\ ReadyLimit > 0 /\ p[n] \in Nat
      /\ \A i \in 1 .. n : p[i] \in Nat /\ p[i - 1] \in Nat /\ p[i] <= p[n]
  BY <1>1, Values
<1>5. len \in Nat /\ len <= MaxList /\ (dataset = <<>> <=> len = 0)
  <2>1. \A z \in Seq(ToSet(dataset)) : z = <<>> <=> Len(z) = 0
    OBVIOUS
  <2>2. dataset \in Seq(ToSet(dataset))
    BY <1>2, ListsAssumption
  <2> HIDE DEF ToSet
  <2> QED
    BY <1>2, <2>1, <2>2, ListIsSeq, LongestList
<1>6. /\ q \in Seq(Lists) /\ Len(q) = n
      /\ q'[n + 1] = dataset /\ \A i \in 1 .. n : q'[i] = q[i]
  BY <1>1, <1>2, <1>3, ContentsAt
<1>7. /\ p \in [0 .. n -> Nat] /\ p[0] = 0
      /\ \A i \in 1 .. n : p[i] = p[i - 1] + Len(q[i])
      /\ \A i, j \in 0 .. n : i <= j => p[i] <= p[j]
  BY DEF Counted, Sums
<1>8. /\ fpc = "add" /\ ring_lock = "free" /\ todo' = len
      /\ fpc' = IF len = 0 THEN "wait" ELSE "count"
      /\ UNCHANGED <<setup, cur_index, range, ring_lock, semaphore, pref_sem,
                     num_minibatches_ready, cpc>>
  BY <1>5 DEF AddList
<1> HIDE DEF n, q, len
<1> PICK s : s = [i \in 0 .. (n + 1) |-> IF i <= n THEN p[i] ELSE p[n] + len]
  OBVIOUS
<1>9. /\ s \in [0 .. (n + 1) -> Nat] /\ s[0] = 0 /\ s[n + 1] = p[n] + len /\ s[n] = p[n]
      /\ \A i \in 0 .. n : s[i] = p[i]
  BY <1>4, <1>5, <1>7
<1>10. TypesOK'
  BY <1>1, <1>5, <1>8 DEF TypesOK, IndexOK
<1>11. Sums(s)'
  <2>1. \A i \in 1 .. (n + 1) : s[i] = s[i - 1] + Len(q'[i])
    <3> SUFFICES ASSUME NEW i \in 1 .. (n + 1) PROVE s[i] = s[i - 1] + Len(q'[i])
      OBVIOUS
    <3>1. CASE i = n + 1
      BY <1>4, <1>6, <1>9, <3>1 DEF len
    <3>2. CASE i # n + 1
      <4>1. i \in 1 .. n /\ i \in 0 .. n /\ i - 1 \in 0 .. n
        BY <1>4, <3>2
      <4> QED
        BY <1>6, <1>7, <1>9, <4>1
    <3> QED
      BY <3>1, <3>2
  <2>2. \A i, j \in 0 .. (n + 1) : i <= j => s[i] <= s[j]
    <3> SUFFICES ASSUME NEW i \in 0 .. (n + 1), NEW j \in 0 .. (n + 1), i <= j PROVE s[i] <= s[j]
      OBVIOUS
    <3>1. CASE j = n + 1
      <4>1. CASE i = n + 1
        BY <1>9, <3>1, <4>1
      <4>2. CASE i # n + 1
        <5>1. i \in 0 .. n /\ n \in 0 .. n /\ i <= n
          BY <1>4, <4>2
        <5>2. s[i] = p[i] /\ p[i] <= p[n] /\ p[i] \in Nat
          BY <1>7, <1>9, <5>1
        <5> QED
          BY <1>4, <1>5, <1>9, <3>1, <5>2
      <4> QED
        BY <4>1, <4>2
    <3>2. CASE j # n + 1
      <4>1. i \in 0 .. n /\ j \in 0 .. n
        BY <1>4, <3>2
      <4> QED
        BY <1>7, <1>9, <4>1
    <3> QED
      BY <3>1, <3>2
  <2> QED
    BY <1>3, <1>9, <2>1, <2>2 DEF Sums
<1>12. Tokens(s)'
  <2>1. p[n] = semaphore + Taking /\ p[n] = num_minibatches_ready
    BY <1>1, <1>4, <1>8 DEF Counted, Tokens, Unposted, Uncounted, Taking, Flag, TypesOK, n
  <2>2. Unposted' = len /\ Uncounted' = len /\ Taking' = Taking
    BY <1>8 DEF Unposted, Uncounted, Taking, Flag
  <2>3. Taking \in Nat
    BY DEF Taking, Flag
  <2>4. n' = n + 1 /\ (n + 1) - 1 = n /\ s[n' - 1] = p[n] /\ s[n'] = p[n] + len
    BY <1>3, <1>4, <1>9 DEF n
  <2>5. s[n'] = semaphore' + Taking' + Unposted' /\ s[n'] = num_minibatches_ready' + Uncounted'
    BY <1>1, <1>5, <1>8, <2>1, <2>2, <2>3, <2>4 DEF TypesOK
  <2>6. fpc' \in {"count", "post"} => n' > 0 /\ todo' > 0 /\ s[n' - 1] + todo' <= s[n']
    BY <1>4, <1>5, <1>8, <2>4
  <2> QED
    BY <1>3, <2>4, <2>5, <2>6 DEF Tokens
<1>13. Coming = 1 /\ Coming' = 0 /\ \A x : Asking(x)' = Asking(x)
  BY <1>8 DEF Coming, Asking, Flag
<1>14. \A x : Asking(x) \in {0, 1} /\ (x \in Nat => Least(x, ReadyLimit) \in 0 .. ReadyLimit)
  BY <1>4 DEF Asking, Flag, Least
<1>15. \A i \in 1 .. (n + 1) : i # n + 1 => i \in 1 .. n /\ s[i] = p[i]
  BY <1>4, <1>9
<1>16. Room(s)'
  <2> SUFFICES ASSUME NEW i \in 1 .. (n + 1)
               PROVE  ((n + 1) - i) + 0 + pref_sem + Asking(s[i]) + Least(s[i], ReadyLimit)
                        <= ReadyLimit + 2
    BY <1>3, <1>8, <1>13 DEF Room, Least
  <2>1. s[i] \in Nat /\ pref_sem \in {0, 1}
    BY <1>1, <1>9 DEF TypesOK
  <2>2. CASE i = n + 1
    <3>1. Asking(s[i]) \in {0, 1} /\ Least(s[i], ReadyLimit) \in 0 .. ReadyLimit
      BY <1>14, <2>1
    <3>2. (n + 1) - i = 0
      BY <1>4, <2>2
    <3> HIDE DEF Asking, Least
    <3> QED
      BY <1>4, <2>1, <3>1, <3>2
  <2>3. CASE i # n + 1
    <3>1. i \in 1 .. n /\ s[i] = p[i]
      BY <1>15, <2>3
    <3>2. (n - i) + 1 + pref_sem + Asking(p[i]) + Least(p[i], ReadyLimit) <= ReadyLimit + 2
      BY <1>13, <3>1 DEF Counted, Room, n
    <3> QED
      BY <1>4, <1>14, <2>1, <3>1, <3>2
  <2> QED
    BY <2>2, <2>3
<1>17. Stale(s)'
  <2> SUFFICES ASSUME cpc = "value", NEW i \in 1 .. (n + 1), s[i] >= ReadyLimit
               PROVE  ((n + 1) - i) + 0 + pref_sem <= 1
    BY <1>3, <1>8, <1>13 DEF Stale
  <2>1. pref_sem \in {0, 1}
    BY <1>1 DEF TypesOK
  <2>2. CASE i = n + 1
    BY <1>4, <2>1, <2>2
  <2>3. CASE i # n + 1
    <3>1. i \in 1 .. n /\ s[i] = p[i]
      BY <1>15, <2>3
    <3>2. (n - i) + 1 + pref_sem <= 1
      BY <1>13, <3>1 DEF Counted, Stale, n
    <3> QED
      BY <1>4, <2>1, <3>1, <3>2
  <2> QED
    BY <2>2, <2>3
<1>18. Few(s)'
  <2>1. /\ p[n] + Most(1 + pref_sem + Flag(cpc = "signal"))
             <= ReadyLimit - 1 + MaxList + MaxList + MaxList
        /\ cpc = "value" => p[n] + Most(1 + pref_sem) <= ReadyLimit - 1 + MaxList + MaxList
    BY <1>13 DEF Counted, Few, n
  <2>2. s[n'] = p[n] + len /\ n' = n + 1
    BY <1>3, <1>9
  <2>3. pref_sem \in {0, 1} /\ (cpc = "signal" => pref_sem = 0)
    BY <1>1 DEF TypesOK
  <2>4. /\ s[n'] + Most(0 + pref_sem + Flag(cpc = "signal"))
             <= ReadyLimit - 1 + MaxList + MaxList + MaxList
        /\ cpc = "value" => s[n'] + Most(0 + pref_sem) <= ReadyLimit - 1 + MaxList + MaxList
    <3> HIDE DEF MaxList
    <3> QED
      BY <1>4, <1>5, <2>1, <2>2, <2>3 DEF Most, Flag
  <2> QED
    BY <1>3, <1>8, <1>13, <2>2, <2>4 DEF Few, Most, Flag
<1> QED
  BY <1>3, <1>10, <1>11, <1>12, <1>16, <1>17, <1>18 DEF IteratorInv, Counted

LEMMA LibsvmPopEmpty == ASSUME IteratorInv, PopEmpty PROVE IteratorInv'
<1>1. TypesOK /\ RingOK
  BY DEF IteratorInv
<1> PICK p : Counted(p)
  BY DEF IteratorInv
<1> DEFINE n == Ring!size
           q == Ring!Contents
<1>2. n # 0 /\ buffer[front] = <<>> /\ Ring!pop
  BY DEF PopEmpty
<1>3. RingOK' /\ q' = Tail(q) /\ Ring!size' = n - 1 /\ Ring!Contents' = q'
  BY <1>1, <1>2, RingPop
<1>4. /\ n \in Nat /\ MaxList \in Nat /\ ReadyLimit \in Nat /\ ReadyLimit > 0 /\ p[n] \in Nat
      /\ \A i \in 1 .. n : p[i] \in Nat /\ p[i - 1] \in Nat /\ p[i] <= p[n]
  BY <1>1, Values
<1>5. q[1] = <<>>
  <2>1. q[1] = buffer[Slot(1)] /\ Capacity \in Nat /\ Capacity > 0
    BY <1>1, <1>2, <1>4, ContentsAt, Sizes
  <2>2. Slot(1) = front
    BY <1>1, <2>1 DEF RingOK, Slot, SlotFrom
  <2> QED
    BY <1>2, <2>1, <2>2
<1>6. /\ q \in Seq(Lists) /\ Len(q) = n
      /\ \A i \in 1 .. (n - 1) : q'[i] = q[i + 1]
  <2>1. q \in Seq(Lists) /\ Len(q) = n
    BY <1>1, ContentsAt
  <2> HIDE DEF q, n
  <2> QED
    BY <1>2, <1>3, <1>4, <2>1
<1>7. /\ p \in [0 .. n -> Nat] /\ p[0] = 0
      /\ \A i \in 1 .. n : p[i] = p[i - 1] + Len(q[i])
      /\ \A i, j \in 0 .. n : i <= j => p[i] <= p[j]
  BY DEF Counted, Sums
<1>8. /\ cpc = "front"
      /\ UNCHANGED <<setup, cur_index, fpc, range, dataset, todo, ring_lock, semaphore, pref_sem,
                     num_minibatches_ready, cpc>>
  BY DEF PopEmpty
<1> HIDE DEF n, q
<1> PICK s : s = [i \in 0 .. (n - 1) |-> p[i + 1]]
  OBVIOUS
<1>9. p[1] = 0
  <2>1. 1 \in 1 .. n /\ 1 - 1 = 0
    BY <1>2, <1>4
  <2> QED
    BY <1>5, <1>7, <2>1
<1>10. /\ s \in [0 .. (n - 1) -> Nat] /\ s[0] = 0 /\ s[n - 1] = p[n]
       /\ \A i \in 0 .. (n - 1) : s[i] = p[i + 1]
  BY <1>2, <1>4, <1>7, <1>9
<1>11. TypesOK'
  BY <1>1, <1>8 DEF TypesOK, IndexOK
<1>12. Sums(s)'
  <2>1. \A i \in 1 .. (n - 1) : s[i] = s[i - 1] + Len(q'[i])
    <3> SUFFICES ASSUME NEW i \in 1 .. (n - 1) PROVE s[i] = s[i - 1] + Len(q'[i])
      OBVIOUS
    <3>1. i + 1 \in 1 .. n /\ i \in 0 .. (n - 1) /\ i - 1 \in 0 .. (n - 1)
          /\ (i - 1) + 1 = i /\ (i + 1) - 1 = i
      BY <1>4
    <3>2. s[i] = p[i + 1] /\ s[i - 1] = p[i] /\ q'[i] = q[i + 1]
      BY <1>6, <1>10, <3>1
    <3>3. p[i + 1] = p[i] + Len(q[i + 1])
      BY <1>7, <3>1
    <3> QED
      BY <3>2, <3>3
  <2>2. \A i, j \in 0 .. (n - 1) : i <= j => s[i] <= s[j]
    <3> SUFFICES ASSUME NEW i \in 0 .. (n - 1), NEW j \in 0 .. (n - 1), i <= j PROVE s[i] <= s[j]
      OBVIOUS
    <3>1. i + 1 \in 0 .. n /\ j + 1 \in 0 .. n /\ i + 1 <= j + 1
      BY <1>4
    <3> QED
      BY <1>7, <1>10, <3>1
  <2> QED
    BY <1>3, <1>10, <2>1, <2>2 DEF Sums
<1>13. Tokens(s)'
  <2>1. /\ p[n] = semaphore + Taking + Unposted /\ p[n] = num_minibatches_ready + Uncounted
        /\ fpc \in {"count", "post"} => n > 0 /\ todo > 0 /\ p[n - 1] + todo <= p[n]
    BY DEF Counted, Tokens, n
  <2>2. Unposted' = Unposted /\ Uncounted' = Uncounted /\ Taking' = 1 /\ Taking = 1
    BY <1>8 DEF Unposted, Uncounted, Taking, Flag
  <2>3. n # 1
    <3>1. Unposted \in Nat /\ semaphore \in Nat
      BY <1>1 DEF Unposted, TypesOK
    <3> QED
      BY <1>9, <2>1, <2>2, <3>1
  <2>4. n - 1 > 0 /\ s[(n - 1) - 1] = p[n - 1]
    <3>1. (n - 1) - 1 \in 0 .. (n - 1) /\ ((n - 1) - 1) + 1 = n - 1 /\ n - 1 > 0
      BY <1>2, <1>4, <2>3
    <3> QED
      BY <1>10, <3>1
  <2> QED
    BY <1>3, <1>8, <1>10, <2>1, <2>2, <2>4 DEF Tokens
<1>14. Coming' = Coming /\ \A x : Asking(x)' = Asking(x)
  BY <1>8 DEF Coming, Asking, Flag
<1>15. Room(s)'
  <2> SUFFICES ASSUME NEW i \in 1 .. (n - 1)
               PROVE  ((n - 1) - i) + Coming + pref_sem + Asking(s[i]) + Least(s[i], ReadyLimit)
                        <= ReadyLimit + 2
    BY <1>3, <1>8, <1>14 DEF Room, Least
  <2>1. i + 1 \in 1 .. n /\ s[i] = p[i + 1] /\ (n - 1) - i = n - (i + 1)
    BY <1>4, <1>10
  <2> QED
    BY <2>1 DEF Counted, Room, n
<1>16. Stale(s)'
  BY <1>8 DEF Stale
<1>17. Few(s)'
  BY <1>3, <1>8, <1>10, <1>14 DEF Counted, Few, n, Most, Flag
<1> QED
  BY <1>3, <1>11, <1>12, <1>13, <1>15, <1>16, <1>17 DEF IteratorInv, Counted

LEMMA FrontIsList ==
  ASSUME RingOK, Ring!size # 0, buffer[front] # <<>>
  PROVE  /\ buffer[front] = Ring!Contents[1]
         /\ RestOf(buffer[front]) \in Lists
         /\ Len(RestOf(buffer[front])) = Len(buffer[front]) - 1
<1> DEFINE list == buffer[front]
<1>1. /\ Ring!size \in Nat /\ Ring!Contents = [i \in 1 .. Ring!size |-> buffer[Slot(i)]]
      /\ Capacity \in Nat /\ Capacity > 0
  BY SizeNow, ContentsAt, Sizes
<1>2. 1 \in 1 .. Ring!size /\ Slot(1) = front
  BY <1>1 DEF RingOK, Slot, SlotFrom
<1>3. list = Ring!Contents[1] /\ list \in Lists
  BY <1>1, <1>2 DEF RingOK
<1> HIDE DEF list
<1>4. list # <<>>
  BY DEF list
<1>5. list \in Seq(ToSet(list)) /\ Front(list) \in Lists
  BY <1>3, <1>4, ListsAssumption
<1>6. ASSUME NEW S, NEW z \in Seq(S), z # <<>> PROVE Len(Front(z)) = Len(z) - 1
  <2>1. Len(z) \in Nat /\ Len(z) # 0
    BY <1>6
  <2>2. Len(z) - 1 \in Nat /\ Len(z) - 1 <= Len(z)
    BY <2>1
  <2> DEFINE m == Len(z) - 1
  <2> HIDE DEF m
  <2>3. m \in Nat /\ m <= Len(z)
    BY <2>2 DEF m
  <2>4. Len(SubSeq(z, 1, m)) = m
    BY <2>1, <2>3
  <2> QED
    BY <2>4 DEF Front, m
<1>7. Len(Front(list)) = Len(list) - 1
  BY <1>4, <1>5, <1>6
<1> QED
  BY <1>3, <1>5, <1>7 DEF RestOf, list

LEMMA LibsvmTakeMinibatch == ASSUME IteratorInv, TakeMinibatch PROVE IteratorInv'
<1>1. TypesOK /\ RingOK
  BY DEF IteratorInv
<1> PICK p : Counted(p)
  BY DEF IteratorInv
<1> DEFINE n == Ring!size
           q == Ring!Contents
           list == buffer[front]
           left == RestOf(list)
<1>2. n # 0 /\ list # <<>> /\ Ring!update(left)
  BY DEF TakeMinibatch
<1>3. left \in Lists /\ Len(left) = Len(list) - 1 /\ list = q[1]
  BY <1>1, <1>2, FrontIsList
<1>4. RingOK' /\ q' = [q EXCEPT ![1] = left] /\ Ring!size' = n /\ Ring!Contents' = q'
  BY <1>1, <1>2, <1>3, RingUpdate
<1>5. /\ n \in Nat /\ MaxList \in Nat /\ ReadyLimit \in Nat /\ ReadyLimit > 0 /\ p[n] \in Nat
      /\ \A i \in 1 .. n : p[i] \in Nat /\ p[i - 1] \in Nat /\ p[i] <= p[n]
  BY <1>1, Values
<1>6. q \in Seq(Lists) /\ Len(q) = n
  BY <1>1, ContentsAt
<1>7. /\ p \in [0 .. n -> Nat] /\ p[0] = 0
      /\ \A i \in 1 .. n : p[i] = p[i - 1] + Len(q[i])
      /\ \A i, j \in 0 .. n : i <= j => p[i] <= p[j]
  BY DEF Counted, Sums
<1>8. /\ cpc = "front" /\ cpc' = "ready" /\ ring_lock' = "free"
      /\ num_minibatches_ready' = num_minibatches_ready - 1
      /\ UNCHANGED <<setup, cur_index, fpc, range, dataset, todo, semaphore, pref_sem>>
  BY DEF TakeMinibatch
<1>9. Len(list) \in Nat /\ Len(left) \in Nat
  <2>1. 1 \in 1 .. n
    BY <1>2, <1>5
  <2>2. list \in Lists
    BY <1>1, <1>3, <2>1 DEF RingOK
  <2> QED
    BY <1>3, <2>2, ListIsSeq
<1> HIDE DEF n, q, list, left
<1> PICK s : s = [i \in 0 .. n |-> IF i = 0 THEN 0 ELSE p[i] - 1]
  OBVIOUS
<1>10. /\ 1 \in 1 .. n /\ q'[1] = left /\ \A i \in 2 .. n : q'[i] = q[i]
  <2>1. 1 \in 1 .. n
    BY <1>2, <1>5
  <2> QED
    BY <1>4, <1>6, <2>1
<1>11. \A i \in 1 .. n : p[i] >= 1 /\ p[i] >= p[1]
  <2>1. p[1] = Len(list) /\ p[1] >= 1
    BY <1>3, <1>7, <1>9, <1>10
  <2> SUFFICES ASSUME NEW i \in 1 .. n PROVE p[i] >= p[1] /\ p[i] >= 1
    OBVIOUS
  <2>2. 1 \in 0 .. n /\ i \in 0 .. n /\ 1 <= i
    BY <1>5
  <2>3. p[1] <= p[i]
    BY <1>7, <2>2
  <2> QED
    BY <1>5, <1>10, <2>1, <2>3
<1>12. /\ s \in [0 .. n -> Nat] /\ s[0] = 0 /\ \A i \in 1 .. n : s[i] = p[i] - 1
  <2>1. \A i \in 0 .. n : i # 0 => i \in 1 .. n
    BY <1>5
  <2>2. \A i \in 1 .. n : i \in 0 .. n /\ i # 0
    BY <1>5
  <2>3. 0 \in 0 .. n
    BY <1>5
  <2>4. \A i \in 1 .. n : p[i] - 1 \in Nat
    BY <1>5, <1>11
  <2> QED
    BY <2>1, <2>2, <2>3, <2>4
<1>13. s[n] = p[n] - 1 /\ n \in 1 .. n
  <2>1. n \in 1 .. n
    BY <1>2, <1>5
  <2> QED
    BY <1>12, <2>1
<1>14. TypesOK'
  BY <1>1, <1>8 DEF TypesOK, IndexOK
<1>15. Sums(s)'
  <2>1. \A i \in 1 .. n : s[i] = s[i - 1] + Len(q'[i])
    <3> SUFFICES ASSUME NEW i \in 1 .. n PROVE s[i] = s[i - 1] + Len(q'[i])
      OBVIOUS
    <3>1. CASE i = 1
      <4>1. s[1] = p[1] - 1 /\ p[1] = Len(list) /\ 1 - 1 = 0
        BY <1>3, <1>7, <1>9, <1>10, <1>12
      <4> QED
        BY <1>3, <1>9, <1>10, <1>12, <3>1, <4>1
    <3>2. CASE i # 1
      <4>1. i \in 2 .. n /\ i - 1 \in 1 .. n
        BY <1>5, <3>2
      <4>2. s[i] = p[i] - 1 /\ s[i - 1] = p[i - 1] - 1 /\ q'[i] = q[i]
        BY <1>10, <1>12, <4>1
      <4>3. p[i] = p[i - 1] + Len(q[i]) /\ p[i] \in Nat /\ p[i - 1] \in Nat /\ Len(q[i]) \in Nat
        <5>1. q[i] \in Lists
          BY <1>6
        <5> QED
          BY <1>5, <1>7, <5>1, ListIsSeq
      <4> QED
        BY <4>2, <4>3
    <3> QED
      BY <3>1, <3>2
  <2>2. \A i, j \in 0 .. n : i <= j => s[i] <= s[j]
    <3> SUFFICES ASSUME NEW i \in 0 .. n, NEW j \in 0 .. n, i <= j PROVE s[i] <= s[j]
      OBVIOUS
    <3>1. CASE i = 0
      BY <1>12, <3>1
    <3>2. CASE i # 0
      <4>1. i \in 1 .. n /\ j \in 1 .. n
        BY <1>5, <3>2
      <4>2. p[i] <= p[j] /\ p[i] \in Nat /\ p[j] \in Nat
        BY <1>5, <1>7, <4>1
      <4> QED
        BY <1>12, <4>1, <4>2
    <3> QED
      BY <3>1, <3>2
  <2> QED
    BY <1>4, <1>12, <2>1, <2>2 DEF Sums
<1>16. Tokens(s)'
  <2>1. /\ p[n] = semaphore + Taking + Unposted /\ p[n] = num_minibatches_ready + Uncounted
        /\ fpc \in {"count", "post"} => n > 0 /\ todo > 0 /\ p[n - 1] + todo <= p[n]
    BY DEF Counted, Tokens, n
  <2>2. Unposted' = Unposted /\ Uncounted' = Uncounted /\ Taking' = 0 /\ Taking = 1
    BY <1>8 DEF Unposted, Uncounted, Taking, Flag
  <2>3. /\ Unposted \in Nat /\ semaphore \in Nat /\ Uncounted \in Int /\ todo \in Nat
        /\ num_minibatches_ready \in Int
        /\ fpc \in {"count", "post"} => Unposted = todo
    BY <1>1 DEF Unposted, Uncounted, TypesOK
  <2>4. /\ s[n] = semaphore' + Taking' + Unposted'
        /\ s[n] = num_minibatches_ready' + Uncounted'
    BY <1>5, <1>8, <1>13, <2>1, <2>2, <2>3
  <2>5. fpc' \in {"count", "post"} => n > 0 /\ todo' > 0 /\ s[n - 1] + todo' <= s[n]
    <3> SUFFICES ASSUME fpc \in {"count", "post"}
                 PROVE  n > 0 /\ todo > 0 /\ s[n - 1] + todo <= s[n]
      BY <1>8
    <3>1. CASE n = 1
      <4>1. s[n - 1] = 0
        BY <1>12, <3>1
      <4> QED
        BY <1>5, <1>13, <2>1, <2>2, <2>3, <4>1
    <3>2. CASE n # 1
      <4>1. n - 1 \in 1 .. n
        BY <1>5, <1>13, <3>2
      <4>2. s[n - 1] = p[n - 1] - 1 /\ p[n - 1] \in Nat
        BY <1>5, <1>12, <4>1
      <4> QED
        BY <1>5, <1>13, <2>1, <2>3, <4>2
    <3> QED
      BY <3>1, <3>2
  <2> QED
    BY <1>4, <2>4, <2>5 DEF Tokens
<1>17. Coming' = Coming /\ Coming \in {0, 1} /\ pref_sem \in {0, 1}
  BY <1>1, <1>8 DEF Coming, Flag, TypesOK
<1>18. Room(s)'
  <2> SUFFICES ASSUME NEW i \in 1 .. n
               PROVE  (n - i) + Coming + pref_sem + Asking(s[i])' + Least(s[i], ReadyLimit)
                        <= ReadyLimit + 2
    BY <1>4, <1>8, <1>17 DEF Room, Least
  <2>1. (n - i) + Coming + pref_sem + Asking(p[i]) + Least(p[i], ReadyLimit) <= ReadyLimit + 2
    BY DEF Counted, Room, n
  <2>2. Asking(p[i]) = 0 /\ Asking(s[i])' = Flag(s[i] < ReadyLimit)
    BY <1>8 DEF Asking, Flag
  <2>3. s[i] = p[i] - 1 /\ p[i] \in Nat /\ p[i] >= 1
    BY <1>5, <1>11, <1>12
  <2>4. Flag(s[i] < ReadyLimit) + Least(s[i], ReadyLimit) = Least(p[i], ReadyLimit)
    BY <1>5, <2>3 DEF Flag, Least
  <2>5. Flag(s[i] < ReadyLimit) \in Nat /\ Least(s[i], ReadyLimit) \in Int
    BY <1>5, <2>3 DEF Flag, Least
  <2> HIDE DEF Flag, Least, Asking
  <2> DEFINE x == Flag(s[i] < ReadyLimit)
             y == Least(s[i], ReadyLimit)
             z == Least(p[i], ReadyLimit)
  <2>6. (n - i) + Coming + pref_sem + 0 + z <= ReadyLimit + 2 /\ x + y = z
        /\ x \in Nat /\ y \in Int /\ Asking(s[i])' = x
    BY <2>1, <2>2, <2>4, <2>5
  <2> HIDE DEF x, y, z
  <2>7. (n - i) + Coming + pref_sem + x + y <= ReadyLimit + 2
    BY <1>5, <1>17, <2>6
  <2> QED
    BY <2>6, <2>7 DEF y
<1>19. Stale(s)'
  BY <1>8 DEF Stale
<1>20. Few(s)'
  BY <1>4, <1>5, <1>8, <1>13, <1>17 DEF Counted, Few, n, Most, Flag
<1> QED
  BY <1>4, <1>14, <1>15, <1>16, <1>18, <1>19, <1>20 DEF IteratorInv, Counted

LEMMA LibsvmStep == ASSUME IteratorInv, [Next]_vars PROVE IteratorInv'
<1>1. CASE Fetcher
  BY <1>1, LibsvmPrefWait, LibsvmGetFileRange, LibsvmGetAndParse, LibsvmAddList,
     LibsvmCountMinibatch, LibsvmPostMinibatch DEF Fetcher
<1>2. CASE GetNext
  BY <1>2, LibsvmSemWait, LibsvmLockRing, LibsvmPopEmpty, LibsvmTakeMinibatch, LibsvmReadReady,
     LibsvmReadPrefSem, LibsvmSignalPrefetch DEF GetNext
<1>3. CASE UNCHANGED vars
  <2>1. TypesOK /\ RingOK
    BY DEF IteratorInv
  <2> PICK p : Counted(p)
    BY DEF IteratorInv
  <2>2. RingOK' /\ Ring!size' = Ring!size /\ (Sums(p) => Sums(p)')
    BY <1>3, <2>1, RingSame DEF vars
  <2>3. UNCHANGED <<setup, cur_index, fpc, range, dataset, todo, ring_lock, semaphore, pref_sem,
                    num_minibatches_ready, cpc>>
    BY <1>3 DEF vars
  <2>4. TypesOK'
    BY <2>1, <2>3 DEF TypesOK, IndexOK
  <2>5. Coming' = Coming /\ (\A x : Asking(x)' = Asking(x)) /\ Taking' = Taking
        /\ Unposted' = Unposted /\ Uncounted' = Uncounted
    BY <2>3 DEF Coming, Asking, Taking, Unposted, Uncounted, Flag
  <2>6. Counted(p)'
    BY <2>2, <2>3, <2>5 DEF Counted, Tokens, Room, Stale, Few, Least, Most, Flag
  <2> QED
    BY <2>2, <2>4, <2>6 DEF IteratorInv
<1> QED
  BY <1>1, <1>2, <1>3 DEF Next

-----------------------------------------------------------------------------
LEMMA TokensCounted == ASSUME IteratorInv PROVE TokensMatch
<1>1. RingOK
  BY DEF IteratorInv
<1> PICK p : Counted(p)
  BY DEF IteratorInv
<1> DEFINE n == Ring!size
           q == Ring!Contents
           lens == [i \in 1 .. Len(q) |-> Len(q[i])]
<1>2. n \in Nat /\ Len(q) = n /\ q \in Seq(Lists)
  BY <1>1, SizeNow, ContentsAt
<1>3. p[0] = 0 /\ \A i \in 1 .. n : p[i] = p[i - 1] + Len(q[i])
  BY DEF Counted, Sums
<1>4. p[n] = semaphore + Taking + Unposted
  BY DEF Counted, Tokens
<1> HIDE DEF n, q
<1>5. lens \in Seq(Nat) /\ Len(lens) = n /\ \A i \in 1 .. n : lens[i] = Len(q[i])
  <2>1. \A i \in 1 .. n : q[i] \in Lists
    BY <1>2
  <2>2. \A i \in 1 .. n : Len(q[i]) \in Nat
    BY <2>1, ListIsSeq
  <2> QED
    BY <1>2, <2>2
<1> HIDE DEF lens
<1>6. U!IsRun(p, 0, 0, lens, Len(lens))
  BY <1>3, <1>5 DEF U!IsRun, Add
<1>7. U!Fold(0, 0, lens) = p[n]
  BY <1>5, <1>6, U!FoldIsRun
<1>8. FoldLeft(LAMBDA a, b : a + b, 0, lens) = p[n]
  <2>1. FoldLeft(LAMBDA a, b : a + b, 0, lens) = U!Fold(0, 0, lens)
    BY DEF U!Fold, Add, FoldLeft, U!FoldLeft, MapThenFoldSet, U!MapThenFoldSet, Max, U!Max
  <2> QED
    BY <1>7, <2>1
<1> QED
  BY <1>4, <1>8 DEF TokensMatch, lens, q, Taking, Flag, Unposted

LEMMA PrefetchCounted == ASSUME IteratorInv PROVE PrefetchBounded
<1>1. TypesOK /\ RingOK
  BY DEF IteratorInv
<1> PICK p : Counted(p)
  BY DEF IteratorInv
<1> DEFINE m == p[Ring!size]
           k == Coming + pref_sem + Flag(cpc = "signal")
<1>2. m \in Nat /\ MaxList \in Nat /\ ReadyLimit \in Nat
  BY <1>1, Values
<1>3. m = semaphore + Taking + Unposted /\ Taking \in Nat /\ Unposted \in Nat /\ semaphore \in Nat
  BY <1>1 DEF Counted, Tokens, Taking, Flag, Unposted, TypesOK
<1>4. m + Most(k) <= ReadyLimit - 1 + MaxList + MaxList + MaxList
  BY DEF Counted, Few
<1> HIDE DEF m, k
<1>5. Most(k) \in Nat
  BY <1>2 DEF Most
<1>6. (read_ahead + 2) * MaxList = MaxList + MaxList + MaxList
  BY <1>2 DEF read_ahead
<1> QED
  BY <1>2, <1>3, <1>4, <1>5, <1>6 DEF PrefetchBounded

(* Whatever lists the ranges give, also empty ones, the tokens of the         *)
(* semaphore and of the two threads add up to the minibatches in the ring,    *)
(* and prefetching stops although getNext() tests the count, tests pref_sem   *)
(* and signals in three steps (S3IteratorLibsvm.cpp:56-85, 322-350).          *)
THEOREM SemaphoreCounts == Spec => []SemaphoreRight
<1>1. Init => IteratorInv
  BY LibsvmInit
<1>2. IteratorInv /\ [Next]_vars => IteratorInv'
  BY LibsvmStep
<1>3. IteratorInv => SemaphoreRight
  BY TokensCounted, PrefetchCounted DEF SemaphoreRight
<1> QED
  BY <1>1, <1>2, <1>3, PTL DEF Spec

LEMMA RingInit == ASSUME Init PROVE Ring!F!FifoInit
<1>1. Ring!size = 0 /\ out = NoList
  BY DEF Init, Ring!Init, Ring!size
<1>2. Ring!Contents = <<>>
  BY <1>1 DEF Ring!Contents
<1> QED
  BY <1>1, <1>2, ListsAssumption DEF Ring!F!FifoInit

LEMMA RingStep ==
  ASSUME IteratorInv, [Next]_vars
  PROVE  [Ring!F!FifoNext]_<<Ring!Contents, out>>
<1>1. RingOK
  BY DEF IteratorInv
<1>2. ASSUME UNCHANGED ringVars PROVE UNCHANGED <<Ring!Contents, out>>
  BY <1>2 DEF ringVars, Ring!Contents, Ring!size
<1>3. CASE AddList
  <2>1. dataset \in Lists /\ Ring!add(dataset) /\ Ring!Contents' = Append(Ring!Contents, dataset)
    BY <1>1, <1>3, HasRoomToAdd, RingAdd
  <2>2. Ring!F!Put(dataset)
    BY <2>1 DEF Ring!F!Put, Ring!add
  <2> QED
    BY <2>1, <2>2 DEF Ring!F!FifoNext
<1>4. CASE PopEmpty
  <2>1. Ring!pop /\ Ring!size # 0
    BY <1>4 DEF PopEmpty
  <2>2. Ring!Contents' = Tail(Ring!Contents) /\ out' = Ring!Contents[1]
    BY <1>1, <2>1, RingPop
  <2>3. Ring!Contents # <<>> /\ Head(Ring!Contents) = Ring!Contents[1]
    <3>1. Ring!Contents \in Seq(Lists) /\ Len(Ring!Contents) # 0
      BY <1>1, <2>1, ContentsAt
    <3> HIDE DEF Ring!Contents
    <3> QED
      BY <3>1
  <2> QED
    BY <2>2, <2>3 DEF Ring!F!Take, Ring!F!FifoNext
<1>5. CASE TakeMinibatch
  <2> DEFINE left == RestOf(buffer[front])
  <2>1. Ring!update(left) /\ Ring!size # 0 /\ buffer[front] # <<>>
    BY <1>5 DEF TakeMinibatch
  <2>2. left \in Lists
    BY <1>1, <2>1, FrontIsList
  <2> HIDE DEF left
  <2>3. Ring!Contents' = <<left>> \o Tail(Ring!Contents) /\ out' = out
    BY <1>1, <2>1, <2>2, RingUpdate DEF Ring!update
  <2>4. Ring!Contents # <<>>
    <3>1. Len(Ring!Contents) # 0
      BY <1>1, <2>1, ContentsAt
    <3> QED
      BY <3>1
  <2> QED
    BY <2>2, <2>3, <2>4 DEF Ring!F!Change, Ring!F!FifoNext
<1>6. CASE Fetcher /\ ~AddList
  BY <1>2, <1>6 DEF Fetcher, PrefWait, getFileRange, GetAndParse, CountMinibatch, PostMinibatch
<1>7. CASE GetNext /\ ~PopEmpty /\ ~TakeMinibatch
  BY <1>2, <1>7 DEF GetNext, SemWait, LockRing, ReadReady, ReadPrefSem, SignalPrefetch
<1>8. CASE UNCHANGED vars
  BY <1>2, <1>8 DEF vars
<1> QED
  BY <1>3, <1>4, <1>5, <1>6, <1>7, <1>8 DEF Next

(* The ring of this user is a first-in first-out queue through every          *)
(* wrap-around: a list is added only where a slot stays free, although add()  *)
(* does not look (CircularBuffer.h:51-125), whatever the limits are.          *)
THEOREM RingIsQueue == Spec => RingIsFifo
<1>1. Init => IteratorInv /\ Ring!F!FifoInit
  BY LibsvmInit, RingInit
<1>2. IteratorInv /\ [Next]_vars => IteratorInv' /\ [Ring!F!FifoNext]_<<Ring!Contents, out>>
  BY LibsvmStep, RingStep
<1> QED
  BY <1>1, <1>2, PTL DEF Spec, RingIsFifo, Ring!ImplementsFifo, Ring!F!FifoSpec
=============================================================================
