--------------------------- MODULE CircularBuffer ---------------------------
(* CircularBuffer<T> (CircularBuffer.h): an array with a front and a tail    *)
(* index and no element count.  add() never looks at front, so the buffer    *)
(* is a queue only as long as its user leaves one slot free; ring overflow   *)
(* is the caller's business (S3SparseIterator!RingHasRoom is that duty).     *)
EXTENDS Naturals, Sequences

CONSTANTS Capacity,  \* number of slots
          Items,     \* what T ranges over
          NoItem     \* content of a slot that was never written

VARIABLES buffer,  \* _buffer
          front,   \* _front
          tail,    \* _tail
          out      \* what the last pop() returned

vars == <<buffer, front, tail, out>>

Slots == 0 .. (Capacity - 1)

size == IF tail < front THEN Capacity - front + tail ELSE tail - front

TypeOK ==
  /\ buffer \in [Slots -> Items \union {NoItem}]
  /\ front \in Slots
  /\ tail \in Slots
  /\ out \in Items \union {NoItem}

Init ==
  /\ buffer = [s \in Slots |-> NoItem]
  /\ front = 0
  /\ tail = 0
  /\ out = NoItem

(* The caller's duty: an add that fills the last free slot makes size() 0.   *)
HasRoom == size < Capacity - 1

Advance(index) == IF index + 1 = Capacity THEN 0 ELSE index + 1

add(item) ==
  /\ buffer' = [buffer EXCEPT ![tail] = item]
  /\ tail' = Advance(tail)
  /\ UNCHANGED <<front, out>>

(* front() returns a reference, through which its user changes the element. *)
update(item) ==
  /\ size # 0
  /\ buffer' = [buffer EXCEPT ![front] = item]
  /\ UNCHANGED <<front, tail, out>>

(* A plausible bug: the index moves before the element is read. *)
popReadsNext ==
  /\ size # 0
  /\ front' = (front + 1) % Capacity
  /\ out' = buffer[front']
  /\ UNCHANGED <<buffer, tail>>

pop ==
  /\ size # 0
  /\ out' = buffer[front]
  /\ front' = (front + 1) % Capacity
  /\ UNCHANGED <<buffer, tail>>

Next == pop \/ \E item \in Items : (HasRoom /\ add(item)) \/ update(item)

Spec == Init /\ [][Next]_vars

-----------------------------------------------------------------------------
(* Refinement: the slots from front up to tail, read cyclically, are the     *)
(* queue.                                                                    *)
Contents == [i \in 1 .. size |-> buffer[(front + i - 1) % Capacity]]

F == INSTANCE Fifo WITH queue <- Contents

(* The index arithmetic of add/pop/size (CircularBuffer.h:51-69,117-125)     *)
(* implements a first-in first-out queue through every wrap-around.          *)
ImplementsFifo == F!FifoSpec

=============================================================================
