-------------------------------- MODULE Fifo --------------------------------
(* What every queue of Cirrus promises its users: items leave in the order  *)
(* in which they entered, none is lost and none is invented.                *)
EXTENDS Sequences

CONSTANT Items

VARIABLES queue,   \* items added and not yet popped, oldest first
          out      \* the item returned by the last pop

Put(item) == queue' = Append(queue, item) /\ UNCHANGED out

Take ==
  /\ queue # <<>>
  /\ out' = Head(queue)
  /\ queue' = Tail(queue)

(* The user changes the oldest item in place. *)
Change(item) ==
  /\ queue # <<>>
  /\ queue' = <<item>> \o Tail(queue)
  /\ UNCHANGED out

FifoInit == queue = <<>> /\ out \notin Items

FifoNext == Take \/ \E item \in Items : Put(item) \/ Change(item)

FifoSpec == FifoInit /\ [][FifoNext]_<<queue, out>>
=============================================================================
