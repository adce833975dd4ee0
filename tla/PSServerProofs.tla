--------------------------- MODULE PSServerProofs ---------------------------
(* For any connections, workers, poll threads and limits of the server.       *)
EXTENDS PSServer, FiniteSetTheorems, TLAPS

-----------------------------------------------------------------------------
(* The accept queue: connections that clients have opened, each once, and     *)
(* never empty when the acceptor has been told that it is not.                *)
BacklogInv ==
  /\ \A i \in 1 .. Len(backlog) :
       backlog[i] \in setup.conns /\ peer[backlog[i]] # "none"
  /\ \A i, j \in 1 .. Len(backlog) : i # j => backlog[i] # backlog[j]
  /\ pollPc[0] = "accept" => backlog # <<>>

(* Connections that have left the accept queue. *)
Accepted == {c \in setup.conns :
               peer[c] # "none" /\ \A i \in 1 .. Len(backlog) : backlog[i] # c}

(* The index of a table that is full, less the dead slots that remove_if has  *)
(* found in it.                                                               *)
Left(p) == setup.max_fds - (purging[p].at - purging[p].to)

(* A purge counts the index down to where remove_if ends.  What thread 0      *)
(* accepts meanwhile only adds to it, and in its own table nothing does.      *)
PurgeInv(p) ==
  /\ Reserved(p) <= purging[p].to /\ purging[p].to <= purging[p].at
  /\ purging[p].at <= setup.max_fds
  /\ pollPc[p] = "move" => purging[p].to < purging[p].at
  /\ pollPc[p] \in {"lower", "move"} => purging[p].at < setup.max_fds
  /\ Left(p) <= curr_indexes[p]
  /\ p = 0 => curr_indexes[p] = Left(p)
  /\ pollPc[p] = "lower" => /\ Left(p) <= purging[p].index
                            /\ purging[p].index <= curr_indexes[p]

(* An index that thread 0 has loaded is not behind the one in the table.      *)
PlaceInv ==
  /\ placing.fd \in Fds /\ placing.id # 0
  /\ curr_indexes[placing.id] <= placing.slot
  /\ Purging(placing.id) => Left(placing.id) <= placing.slot

WalkInv == /\ \A p \in PollThreads : Purging(p) => PurgeInv(p)
           /\ pollPc[0] = "place" => PlaceInv

(* Every accepted connection has taken at most one slot, so no purge starts.  *)
RoomInv ==
  Roomy => /\ pollPc[0] # "place"
           /\ \A p \in PollThreads :
                /\ Reserved(p) <= curr_indexes[p]
                /\ curr_indexes[p] <= Reserved(p) + Cardinality(Accepted)
                /\ ~Purging(p)

InUse(r) == r \in Request /\ r.slot \in Used(r.id)

(* Requests refer to slots in use, and poll() reports no word on a slot that  *)
(* is not armed.                                                              *)
HandOverInv ==
  Roomy =>
  /\ \A i \in 1 .. Len(to_process) : InUse(to_process[i])
  /\ \A w \in Workers : Busy(w) => InUse(req[w])
  /\ \A p \in PollThreads, s \in Slots :
       fdses[p][s].revents = "in" => fdses[p][s].events

-----------------------------------------------------------------------------
(* What a connection and its server agree on, while clients are orderly.      *)

Erasing(p, s) == \E w \in Workers : /\ workPc[w] \in {"failOp", "failBody"}
                                    /\ req[w].id = p /\ req[w].slot = s

Holds(p, s, f) == s \in Used(p) /\ fdses[p][s].fd = f /\ ~Erasing(p, s)

(* A descriptor is open for one connection and is in one slot. *)
DescriptorInv ==
  /\ \A f, g \in Fds : file[f] # NoConn /\ f # g => file[f] # file[g]
  /\ \A f \in Fds : file[f] # NoConn =>
       /\ file[f] \in Accepted /\ client[file[f]] # "refused"
       /\ \E p \in PollThreads, s \in Slots : Holds(p, s, f)
  /\ \A p, q \in PollThreads, s, t \in Slots, f \in Fds :
       Holds(p, s, f) => file[f] # NoConn /\ (Holds(q, t, f) => p = q /\ s = t)
  /\ \A c \in Conns : client[c] = "refused" => c \in Accepted

Own(r) == /\ fdses[r.id][r.slot].fd = r.sock
          /\ file[r.sock] = r.conn /\ r.conn # NoConn

Serving == {"op", "body", "reply", "rearm"}

(* A request names the connection its slot holds until the worker that reads  *)
(* its end gives it up; nothing is ever reset.                                *)
OwnInv ==
  /\ \A i \in 1 .. Len(to_process) : Own(to_process[i])
  /\ \A w \in Workers : /\ workPc[w] # "failBody"
                        /\ workPc[w] \in Serving => Own(req[w]) /\ sock[w] = req[w].sock
  /\ \A c \in Conns : peer[c] # "rst"
  /\ \A p \in PollThreads : pollPc[p] # "dec"
  /\ \A p \in PollThreads, s \in Slots : fdses[p][s].revents # "hup"

InBody(c) == \E w \in Workers : workPc[w] = "body" /\ req[w].conn = c

(* The words q of a connection whose client is at k, b when a worker expects  *)
(* a body next: a body follows every operation that has one, and an operation *)
(* with a reply is the last before the client waits for it.                   *)
Words(q, k, b) ==
  LET n == Len(q) IN
  /\ n > 0 /\ q[1] = "body" => b
  /\ \A i \in 2 .. n : q[i] = "body" <=> HasBody(q[i - 1])
  /\ k \notin {"idle", "await"} => HasBody(k) /\ IF n > 0 THEN k = q[n] ELSE b
  /\ n > 0 /\ HasBody(q[n]) => k = q[n]
  /\ \A i \in 1 .. n : HasReply(q[i]) =>
       \/ i = n /\ k = IF HasBody(q[i]) THEN q[i] ELSE "await"
       \/ i = n - 1 /\ HasBody(q[i]) /\ k = "await"

(* A worker in the body or before the reply of a request. *)
ServedInv(w) ==
  LET c == req[w].conn
      q == inbuf[c] IN
  /\ workPc[w] = "body" =>
       /\ HasBody(op[w])
       /\ IF q = <<>> THEN client[c] = op[w] ELSE q[1] = "body"
       /\ HasReply(op[w]) /\ q # <<>> => Len(q) = 1 /\ client[c] = "await"
  /\ workPc[w] = "reply" => q = <<>> /\ client[c] = "await"

StreamInv ==
  /\ \A c \in Conns :
       /\ peer[c] = "none" => client[c] = "idle" /\ inbuf[c] = <<>>
       /\ peer[c] = "fin" => client[c] \in {"idle", "refused"}
       /\ client[c] # "refused" => Words(inbuf[c], client[c], InBody(c))
  /\ \A w \in Workers : ServedInv(w)

OrderlyInv == Orderly /\ Roomy => DescriptorInv /\ OwnInv /\ StreamInv
-----------------------------------------------------------------------------
(* Types.                                                                     *)

LEMMA SetupFacts ==
  ASSUME setup \in Setups
  PROVE  /\ setup.conns \subseteq Conns
         /\ setup.max_fds \in Nat /\ setup.max_fds > 2
         /\ setup.requests \in Nat
         /\ Modulus \in Nat \ {0}
         /\ Ops \subseteq {"gradient", "sparse", "mfsparse", "full", "info", "kill"}
         /\ setup.max_connections \in Nat \ {0}
BY SetupsAssumption DEF Setup, Ops, Modulus

LEMMA SlotFacts ==
  ASSUME setup \in Setups
  PROVE  /\ 0 \in PollThreads /\ 0 \in Slots
         /\ \A p \in PollThreads : Reserved(p) \in Slots /\ Reserved(p) \in {1, 2}
         /\ PollThreads \subseteq Nat /\ Slots \subseteq Nat
BY SetupFacts, PollThreadsAssumption DEF PollThreads, Slots, Reserved

LEMMA SlotsFinite ==
  ASSUME setup \in Setups
  PROVE  IsFiniteSet(Slots) /\ Cardinality(Slots) = setup.max_fds
<1>1. setup.max_fds \in Nat /\ setup.max_fds > 2
  BY SetupFacts
<1>2. setup.max_fds - 1 \in Int /\ 0 \in Int /\ ~(0 > setup.max_fds - 1)
  BY <1>1
<1>3. /\ IsFiniteSet(0 .. (setup.max_fds - 1))
      /\ Cardinality(0 .. (setup.max_fds - 1)) = (setup.max_fds - 1) - 0 + 1
  BY <1>2, FS_Interval
<1> QED
  BY <1>1, <1>3 DEF Slots

LEMMA FdFacts == Cardinality(Conns) \in Nat /\ Fds \subseteq Nat /\ NoFd \notin Fds
BY ConnsAssumption, FS_CardinalityType DEF Fds, NoFd

LEMMA ClosedType ==
  ASSUME TypeOK, NEW f \in Fds \union {NoFd}
  PROVE  Closed(f) \in [Fds -> Conns \union {NoConn}]
BY DEF TypeOK, Closed

(* The tables after a change of some fields of one pollfd. *)
SameElsewhere(p, s) ==
  \A q \in PollThreads, t \in Slots : q # p \/ t # s => fdses'[q][t] = fdses[q][t]

FdsesType == fdses' \in [PollThreads -> [Slots -> PollFd]]

LEMMA FdsesFacts ==
  ASSUME TypeOK
  PROVE  /\ fdses \in [PollThreads -> [Slots -> PollFd]]
         /\ \A p \in PollThreads, s \in Slots : fdses[p][s] \in PollFd
BY DEF TypeOK

LEMMA SetEntry ==
  ASSUME TypeOK, NEW p \in PollThreads, NEW s \in Slots, NEW e \in PollFd,
         fdses' = [fdses EXCEPT ![p][s] = e]
  PROVE  FdsesType /\ SameElsewhere(p, s) /\ fdses'[p][s] = e
BY FdsesFacts DEF FdsesType, SameElsewhere

LEMMA SetArmed ==
  ASSUME TypeOK, NEW p \in PollThreads, NEW s \in Slots, NEW b \in BOOLEAN,
         fdses' = [fdses EXCEPT ![p][s].events = b]
  PROVE  /\ FdsesType /\ SameElsewhere(p, s)
         /\ fdses'[p][s].fd = fdses[p][s].fd
         /\ fdses'[p][s].events = b
         /\ fdses'[p][s].revents = fdses[p][s].revents
<1> DEFINE e == [fdses[p][s] EXCEPT !.events = b]
<1>1. \A x \in PollFd : LET y == [x EXCEPT !.events = b] IN
        y \in PollFd /\ y.fd = x.fd /\ y.events = b /\ y.revents = x.revents
  BY DEF PollFd
<1>2. e \in PollFd
  BY <1>1, FdsesFacts, Zenon
<1>5. e.fd = fdses[p][s].fd /\ e.events = b /\ e.revents = fdses[p][s].revents
  BY <1>1, FdsesFacts, Zenon
<1>3. fdses' = [fdses EXCEPT ![p][s] = e]
  BY FdsesFacts
<1> HIDE DEF e
<1>4. FdsesType /\ SameElsewhere(p, s) /\ fdses'[p][s] = e
  BY <1>2, <1>3, SetEntry, Zenon
<1> QED
  BY <1>4, <1>5

LEMMA SetQueued ==
  ASSUME TypeOK, NEW p \in PollThreads, NEW s \in Slots,
         fdses' = [fdses EXCEPT ![p][s].events = FALSE, ![p][s].revents = "none"]
  PROVE  /\ FdsesType /\ SameElsewhere(p, s)
         /\ fdses'[p][s].fd = fdses[p][s].fd
         /\ fdses'[p][s].events = FALSE
         /\ fdses'[p][s].revents = "none"
<1> DEFINE e == [fdses[p][s] EXCEPT !.events = FALSE, !.revents = "none"]
<1>1. \A x \in PollFd : LET y == [x EXCEPT !.events = FALSE, !.revents = "none"] IN
        y \in PollFd /\ y.fd = x.fd /\ y.events = FALSE /\ y.revents = "none"
  BY DEF PollFd
<1>2. e \in PollFd
  BY <1>1, FdsesFacts, Zenon
<1>5. e.fd = fdses[p][s].fd /\ e.events = FALSE /\ e.revents = "none"
  BY <1>1, FdsesFacts, Zenon
<1>3. fdses' = [fdses EXCEPT ![p][s] = e]
  BY FdsesFacts
<1> HIDE DEF e
<1>4. FdsesType /\ SameElsewhere(p, s) /\ fdses'[p][s] = e
  BY <1>2, <1>3, SetEntry, Zenon
<1> QED
  BY <1>4, <1>5

LEMMA SetErased ==
  ASSUME TypeOK, NEW p \in PollThreads, NEW s \in Slots,
         fdses' = [fdses EXCEPT ![p][s].fd = NoFd, ![p][s].revents = "none"]
  PROVE  /\ FdsesType /\ SameElsewhere(p, s)
         /\ fdses'[p][s].fd = NoFd
         /\ fdses'[p][s].events = fdses[p][s].events
         /\ fdses'[p][s].revents = "none"
<1> DEFINE e == [fdses[p][s] EXCEPT !.fd = NoFd, !.revents = "none"]
<1>1. \A x \in PollFd : LET y == [x EXCEPT !.fd = NoFd, !.revents = "none"] IN
        y \in PollFd /\ y.fd = NoFd /\ y.events = x.events /\ y.revents = "none"
  BY DEF PollFd
<1>2. e \in PollFd
  BY <1>1, FdsesFacts, Zenon
<1>5. e.fd = NoFd /\ e.events = fdses[p][s].events /\ e.revents = "none"
  BY <1>1, FdsesFacts, Zenon
<1>3. fdses' = [fdses EXCEPT ![p][s] = e]
  BY FdsesFacts
<1> HIDE DEF e
<1>4. FdsesType /\ SameElsewhere(p, s) /\ fdses'[p][s] = e
  BY <1>2, <1>3, SetEntry, Zenon
<1> QED
  BY <1>4, <1>5

LEMMA SetWatched ==
  ASSUME TypeOK, NEW p \in PollThreads, NEW s \in Slots, NEW f \in Fds,
         fdses' = [fdses EXCEPT ![p][s].fd = f, ![p][s].events = TRUE]
  PROVE  /\ FdsesType /\ SameElsewhere(p, s)
         /\ fdses'[p][s].fd = f
         /\ fdses'[p][s].events = TRUE
         /\ fdses'[p][s].revents = fdses[p][s].revents
<1> DEFINE e == [fdses[p][s] EXCEPT !.fd = f, !.events = TRUE]
<1>1. \A x \in PollFd : LET y == [x EXCEPT !.fd = f, !.events = TRUE] IN
        y \in PollFd /\ y.fd = f /\ y.events = TRUE /\ y.revents = x.revents
  BY DEF PollFd
<1>2. e \in PollFd
  BY <1>1, FdsesFacts, Zenon
<1>5. e.fd = f /\ e.events = TRUE /\ e.revents = fdses[p][s].revents
  BY <1>1, FdsesFacts, Zenon
<1>3. fdses' = [fdses EXCEPT ![p][s] = e]
  BY FdsesFacts
<1> HIDE DEF e
<1>4. FdsesType /\ SameElsewhere(p, s) /\ fdses'[p][s] = e
  BY <1>2, <1>3, SetEntry, Zenon
<1> QED
  BY <1>4, <1>5

LEMMA SetPolled ==
  ASSUME TypeOK, NEW p \in PollThreads, fdses' = [fdses EXCEPT ![p] = Polled(p)]
  PROVE  /\ FdsesType
         /\ \A q \in PollThreads, t \in Slots :
              /\ fdses'[q][t].fd = fdses[q][t].fd
              /\ fdses'[q][t].events = fdses[q][t].events
              /\ fdses'[q][t].revents = IF q = p /\ t \in Used(p)
                   THEN Revents(fdses[q][t]) ELSE fdses[q][t].revents
<1>1. \A e \in PollFd : LET y == [e EXCEPT !.revents = Revents(e)] IN
        y \in PollFd /\ y.fd = e.fd /\ y.events = e.events /\ y.revents = Revents(e)
  <2>1. \A e \in PollFd : Revents(e) \in {"none", "in", "hup"}
    BY DEF Revents
  <2> HIDE DEF Revents
  <2> QED
    BY <2>1 DEF PollFd
<1>2. \A t \in Slots : fdses[p][t] \in PollFd
  BY FdsesFacts
<1>3. Polled(p) \in [Slots -> PollFd]
  BY <1>1, <1>2 DEF Polled
<1>4. /\ fdses'[p] = Polled(p)
      /\ \A q \in PollThreads : q # p => fdses'[q] = fdses[q]
      /\ FdsesType
  BY <1>3 DEF TypeOK, FdsesType
<1>5. \A t \in Slots : fdses'[p][t] = IF t \in Used(p)
        THEN [fdses[p][t] EXCEPT !.revents = Revents(fdses[p][t])] ELSE fdses[p][t]
  BY <1>4 DEF Polled
<1>6. \A t \in Slots :
        /\ fdses'[p][t].fd = fdses[p][t].fd
        /\ fdses'[p][t].events = fdses[p][t].events
        /\ fdses'[p][t].revents = IF t \in Used(p)
             THEN Revents(fdses[p][t]) ELSE fdses[p][t].revents
  <2> SUFFICES ASSUME NEW t \in Slots
               PROVE  /\ fdses'[p][t].fd = fdses[p][t].fd
                      /\ fdses'[p][t].events = fdses[p][t].events
                      /\ fdses'[p][t].revents = IF t \in Used(p)
                           THEN Revents(fdses[p][t]) ELSE fdses[p][t].revents
    OBVIOUS
  <2>1. CASE t \in Used(p)
    <3>1. fdses'[p][t] = [fdses[p][t] EXCEPT !.revents = Revents(fdses[p][t])]
      BY <1>5, <2>1
    <3> QED
      BY <1>1, <1>2, <2>1, <3>1, Zenon
  <2>2. CASE t \notin Used(p)
    <3>1. fdses'[p][t] = fdses[p][t]
      BY <1>5, <2>2
    <3> QED
      BY <2>2, <3>1
  <2> QED
    BY <2>1, <2>2
<1> QED
  BY <1>4, <1>6

LEMMA InitTypes == Init => TypeOK /\ BacklogInv /\ WalkInv
<1> SUFFICES ASSUME Init PROVE TypeOK /\ BacklogInv /\ WalkInv
  OBVIOUS
<1> USE SetupFacts, SlotFacts, FdFacts DEF Init
<1>1. fdses \in [PollThreads -> [Slots -> PollFd]]
  BY DEF PollFd
<1>2. /\ curr_indexes \in [PollThreads -> 0 .. setup.max_fds]
      /\ pollAt \in [PollThreads -> Slots]
      /\ pollTmp \in [PollThreads -> 0 .. (Modulus - 1)]
      /\ workTmp \in [Workers -> 0 .. (Modulus - 1)]
      /\ num_connections \in 0 .. (Modulus - 1)
  BY DEF Slots
<1>3. /\ inbuf \in [Conns -> Seq(Ops \union {"body"})]
      /\ backlog \in Seq(Conns) /\ to_process \in Seq(Request)
      /\ requests \in [Conns -> 0 .. setup.requests]
  OBVIOUS
<1>4. /\ died \in Deaths
      /\ peer \in [Conns -> {"none", "up", "fin", "rst"}]
      /\ client \in [Conns -> {"idle", "await", "refused"} \union Ops]
      /\ file \in [Fds -> Conns \union {NoConn}]
      /\ pipe \in [PollThreads -> Nat]
  BY DEF Deaths
<1>6. purging \in [PollThreads -> Walk] /\ placing \in Placing
  <2>1. NoWalk \in Walk
    BY DEF NoWalk, Walk
  <2>2. NotPlacing \in Placing
    BY DEF NotPlacing, Placing
  <2> QED
    BY <2>1, <2>2
<1>5. TypeOK
  BY <1>1, <1>2, <1>3, <1>4, <1>6 DEF TypeOK
<1>7. WalkInv
  BY DEF WalkInv, Purging
<1> QED
  BY <1>5, <1>7 DEF BacklogInv

LEMMA SameSetup == ASSUME [Next]_vars PROVE setup' = setup
<1>1. ASSUME NEW c \in Conns, Client(c) PROVE setup' = setup
  BY <1>1 DEF Client, Connect, SendOperation, SendBody, Close, Reset
<1>2. ASSUME Acceptor PROVE setup' = setup
  BY <1>2 DEF Acceptor, Refuse, CountConnection, Accept, AcceptLoads, AcceptStores,
              AcceptFails, Die
<1>3. ASSUME NEW p \in PollThreads, PollThread(p) PROVE setup' = setup
  BY <1>3 DEF PollThread, PollPipe, Poll, PollTimeout, ScanReadable, ScanHup, CloseHup,
              ScanDone, Purge, PurgeTest, PurgeLower, PurgeMove, PurgeDone
<1>4. ASSUME NEW w \in Workers, Worker(w) PROVE setup' = setup
  <2>1. ASSUME Dequeue(w) \/ ReadOperation(w) \/ UnknownOperation(w) \/ ReadThrows(w)
        PROVE setup' = setup
    BY <2>1 DEF Dequeue, ReadOperation, UnknownOperation, ReadThrows, Die
  <2>2. ASSUME ReadBody(w) \/ EofInOperation(w) \/ EofInBody(w) \/ EndFailedRead(w)
        PROVE setup' = setup
    BY <2>2 DEF ReadBody, EofInOperation, EofInBody, EndFailedRead, BeginFailedRead, Die
  <2>3. ASSUME Reply(w) \/ ReplyFails(w) \/ Rearm(w) PROVE setup' = setup
    BY <2>3 DEF Reply, ReplyFails, Rearm, Die
  <2> QED
    BY <1>4, <2>1, <2>2, <2>3 DEF Worker
<1> QED
  BY <1>1, <1>2, <1>3, <1>4 DEF Next, vars

LEMMA SameParameters ==
  ASSUME setup' = setup
  PROVE  /\ Slots' = Slots /\ Ops' = Ops /\ Modulus' = Modulus /\ Request' = Request
         /\ Roomy' = Roomy /\ Orderly' = Orderly
         /\ Walk' = Walk /\ Placing' = Placing
BY DEF Slots, Ops, Modulus, Request, Roomy, Orderly, Walk, Placing

LEMMA ClientType ==
  ASSUME TypeOK, NEW c \in Conns, Client(c)
  PROVE  TypeOK'
<1> USE DEF clientVars, pollVars, walkVars, workVars
<1>0. setup' = setup
  BY DEF Client, Connect, SendOperation, SendBody, Close, Reset
<1>1. CASE Connect(c)
  <2>1. backlog' \in Seq(Conns) /\ peer' \in [Conns -> {"none", "up", "fin", "rst"}]
    BY <1>1 DEF Connect, TypeOK
  <2> QED
    BY <1>0, <1>1, <2>1, SameParameters DEF Connect, TypeOK
<1>2. ASSUME NEW o \in Ops, SendOperation(c, o) PROVE TypeOK'
  <2>1. inbuf[c] \in Seq(Ops \union {"body"})
    BY DEF TypeOK
  <2>2. inbuf' \in [Conns -> Seq(Ops \union {"body"})]
    BY <1>2, <2>1 DEF SendOperation, TypeOK
  <2>3. requests' \in [Conns -> 0 .. setup.requests]
    <3>1. requests[c] < setup.requests /\ requests' = [requests EXCEPT ![c] = @ + 1]
          /\ setup' = setup
      BY <1>2 DEF SendOperation
    <3>2. requests \in [Conns -> 0 .. setup.requests] /\ setup.requests \in Nat
      BY SetupFacts DEF TypeOK
    <3> QED
      BY <3>1, <3>2
  <2>4. client' \in [Conns -> {"idle", "await", "refused"} \union Ops]
    BY <1>2 DEF SendOperation, TypeOK, AfterRequest
  <2> QED
    BY <1>0, <1>2, <2>2, <2>3, <2>4, SameParameters DEF SendOperation, TypeOK
<1>3. CASE SendBody(c)
  <2>1. inbuf[c] \in Seq(Ops \union {"body"})
    BY DEF TypeOK
  <2>2. inbuf' \in [Conns -> Seq(Ops \union {"body"})]
    BY <1>3, <2>1 DEF SendBody, TypeOK
  <2>3. client' \in [Conns -> {"idle", "await", "refused"} \union Ops]
    BY <1>3 DEF SendBody, TypeOK, AfterRequest
  <2> QED
    BY <1>0, <1>3, <2>2, <2>3, SameParameters DEF SendBody, TypeOK
<1>4. CASE Close(c) \/ Reset(c)
  <2>1. peer' \in [Conns -> {"none", "up", "fin", "rst"}]
    <3>1. peer \in [Conns -> {"none", "up", "fin", "rst"}]
      BY DEF TypeOK
    <3>2. peer' = [peer EXCEPT ![c] = "fin"] \/ peer' = [peer EXCEPT ![c] = "rst"]
      BY <1>4 DEF Close, Reset
    <3> QED
      BY <3>1, <3>2
  <2> QED
    BY <1>0, <1>4, <2>1, SameParameters DEF Close, Reset, TypeOK
<1> QED
  BY <1>1, <1>2, <1>3, <1>4 DEF Client

LEMMA DieType == ASSUME TypeOK, NEW why \in Deaths, Die(why) PROVE TypeOK'
<1>1. setup' = setup
  BY DEF Die
<1> QED
  BY <1>1, SameParameters DEF Die, TypeOK, clientVars, pollVars, walkVars, workVars

Labels == {"poll", "accept", "place", "inc", "scan", "dec", "purge", "test", "lower", "move"}

LEMMA AcceptorType ==
  ASSUME TypeOK, BacklogInv, WalkInv, Acceptor
  PROVE  TypeOK'
<1> USE DEF clientVars, pollVars, walkVars, workVars, Goto
<1>0. setup' = setup
  BY DEF Acceptor, Refuse, CountConnection, Accept, AcceptLoads, AcceptStores, AcceptFails,
         Die
<1>l. ASSUME NEW label \in Labels, Goto(0, label) PROVE pollPc' \in [PollThreads -> Labels]
  BY <1>l DEF TypeOK, Labels
<1>1. CASE Refuse
  <2>1. backlog # <<>> /\ backlog \in Seq(Conns)
    BY <1>1 DEF Refuse, BacklogInv, TypeOK
  <2>2. backlog' \in Seq(Conns) /\ Head(backlog) \in Conns
    BY <1>1, <2>1 DEF Refuse
  <2>3. client' \in [Conns -> {"idle", "await", "refused"} \union Ops]
    BY <1>1, <2>2 DEF Refuse, TypeOK
  <2>4. pollPc' \in [PollThreads -> Labels]
    BY <1>1, <1>l DEF Refuse, Labels
  <2> QED
    BY <1>0, <1>1, <2>2, <2>3, <2>4, SameParameters DEF Refuse, TypeOK, Labels
<1>2. CASE CountConnection
  <2>1. /\ pollTmp[0] \in Int /\ Modulus \in Nat \ {0}
        /\ 0 \in 0 .. (Modulus - 1)
    BY SetupFacts, SlotFacts DEF TypeOK
  <2>2. num_connections' \in 0 .. (Modulus - 1)
    BY <1>2, <2>1 DEF CountConnection
  <2>3. pollTmp' \in [PollThreads -> 0 .. (Modulus - 1)]
    BY <1>2, <2>1 DEF CountConnection, TypeOK
  <2>4. pollPc' \in [PollThreads -> Labels]
    BY <1>2, <1>l DEF CountConnection, Labels
  <2> QED
    BY <1>0, <1>2, <2>2, <2>3, <2>4, SameParameters DEF CountConnection, TypeOK, Labels
<1>3. ASSUME NEW r \in PollThreads, Accept(r) PROVE TypeOK'
  <2>1. backlog # <<>> /\ backlog \in Seq(Conns)
    BY <1>3 DEF Accept, BacklogInv, TypeOK
  <2>2. backlog' \in Seq(Conns) /\ Head(backlog) \in Conns
    BY <1>3, <2>1 DEF Accept
  <2>3. curr_indexes[r] \in Slots
    BY <1>3, SetupFacts DEF Accept, TypeOK, Slots
  <2>4. PICK f \in Fds :
          /\ file' = [file EXCEPT ![f] = Head(backlog)]
          /\ fdses' = [fdses EXCEPT ![r][curr_indexes[r]].fd = f,
                                    ![r][curr_indexes[r]].events = TRUE]
    BY <1>3 DEF Accept
  <2>5. FdsesType
    BY <2>3, <2>4, SetWatched
  <2>6. file' \in [Fds -> Conns \union {NoConn}]
    BY <2>2, <2>4 DEF TypeOK
  <2>7. curr_indexes' \in [PollThreads -> 0 .. setup.max_fds]
    <3>1. curr_indexes[r] < setup.max_fds /\ curr_indexes' = [curr_indexes EXCEPT ![r] = @ + 1]
      BY <1>3 DEF Accept
    <3>2. curr_indexes \in [PollThreads -> 0 .. setup.max_fds] /\ setup.max_fds \in Nat
      BY SetupFacts DEF TypeOK
    <3> QED
      BY <3>1, <3>2
  <2>8. /\ pollPc' \in [PollThreads -> Labels]
        /\ pollTmp' \in [PollThreads -> 0 .. (Modulus - 1)]
    BY <1>3, <1>l DEF Accept, TypeOK, Labels
  <2> QED
    BY <1>0, <1>3, <2>2, <2>5, <2>6, <2>7, <2>8, SameParameters
    DEF Accept, TypeOK, FdsesType, Labels
<1>5. ASSUME NEW r \in PollThreads, AcceptLoads(r) PROVE TypeOK'
  <2>1. backlog # <<>> /\ backlog \in Seq(Conns)
    BY <1>5 DEF AcceptLoads, BacklogInv, TypeOK
  <2>2. backlog' \in Seq(Conns) /\ Head(backlog) \in Conns
    BY <1>5, <2>1 DEF AcceptLoads
  <2>3. curr_indexes[r] \in Slots
    BY <1>5, SetupFacts DEF AcceptLoads, TypeOK, Slots
  <2>4. PICK f \in Fds :
          /\ file' = [file EXCEPT ![f] = Head(backlog)]
          /\ placing' = [fd |-> f, id |-> r, slot |-> curr_indexes[r]]
    BY <1>5 DEF AcceptLoads
  <2>5. placing' \in Placing /\ file' \in [Fds -> Conns \union {NoConn}]
    BY <2>2, <2>3, <2>4 DEF TypeOK, Placing
  <2>6. pollPc' \in [PollThreads -> Labels]
    BY <1>5, <1>l DEF AcceptLoads, Labels
  <2> QED
    BY <1>0, <1>5, <2>2, <2>5, <2>6, SameParameters DEF AcceptLoads, TypeOK, Labels
<1>6. CASE AcceptStores
  <2>1. /\ placing.fd \in Fds /\ placing.id \in PollThreads /\ placing.slot \in Slots
        /\ curr_indexes[placing.id] <= placing.slot
    BY <1>6 DEF AcceptStores, WalkInv, PlaceInv, TypeOK, Placing
  <2>2. FdsesType
    BY <1>6, <2>1, SetWatched DEF AcceptStores
  <2>3. PICK n \in {placing.slot, curr_indexes[placing.id]} :
          curr_indexes' = [curr_indexes EXCEPT ![placing.id] = n + 1]
    BY <1>6 DEF AcceptStores
  <2>4. n + 1 \in 0 .. setup.max_fds
    <3>1. /\ curr_indexes[placing.id] \in 0 .. setup.max_fds /\ setup.max_fds \in Nat
          /\ placing.slot \in 0 .. (setup.max_fds - 1)
      BY <2>1, SetupFacts DEF TypeOK, Slots
    <3> QED
      BY <2>1, <2>3, <3>1
  <2>5. curr_indexes' \in [PollThreads -> 0 .. setup.max_fds]
    BY <2>3, <2>4 DEF TypeOK
  <2>6. placing' \in Placing
    BY <1>6, SlotFacts DEF AcceptStores, NotPlacing, Placing, TypeOK
  <2>7. /\ pollPc' \in [PollThreads -> Labels]
        /\ pollTmp' \in [PollThreads -> 0 .. (Modulus - 1)]
    BY <1>6, <1>l DEF AcceptStores, TypeOK, Labels
  <2> QED
    BY <1>0, <1>6, <2>2, <2>5, <2>6, <2>7, SameParameters
    DEF AcceptStores, TypeOK, FdsesType, Labels
<1>4. ASSUME NEW r \in PollThreads, AcceptFails(r) PROVE TypeOK'
  BY <1>4, DieType DEF AcceptFails, Deaths
<1> QED
  BY <1>1, <1>2, <1>3, <1>4, <1>5, <1>6 DEF Acceptor

LEMMA PollThreadType ==
  ASSUME TypeOK, WalkInv, NEW p \in PollThreads, PollThread(p)
  PROVE  TypeOK'
<1> USE DEF clientVars, pollVars, walkVars, workVars, Goto
<1>0. setup' = setup
  BY DEF PollThread, PollPipe, Poll, PollTimeout, ScanReadable, ScanHup, CloseHup,
         ScanDone, Purge, PurgeTest, PurgeLower, PurgeMove, PurgeDone
<1>l. ASSUME NEW label \in Labels, Goto(p, label) PROVE pollPc' \in [PollThreads -> Labels]
  BY <1>l DEF TypeOK, Labels
<1>1. CASE PollPipe(p)
  <2>1. pollPc' \in [PollThreads -> Labels]
    BY <1>1, <1>l DEF PollPipe, Labels
  <2>2. FdsesType
    BY <1>1, SetPolled DEF PollPipe
  <2>3. pipe' \in [PollThreads -> Nat]
    BY <1>1 DEF PollPipe, TypeOK
  <2> QED
    BY <1>0, <1>1, <2>1, <2>2, <2>3, SameParameters DEF PollPipe, TypeOK, FdsesType, Labels
<1>2. CASE Poll(p)
  <2>1. pollPc' \in [PollThreads -> Labels]
    BY <1>2, <1>l DEF Poll, Labels
  <2>2. FdsesType
    BY <1>2, SetPolled DEF Poll
  <2> QED
    BY <1>0, <1>2, <2>1, <2>2, SameParameters DEF Poll, TypeOK, FdsesType, Labels
<1>3. CASE PollTimeout(p) \/ ScanDone(p)
  <2>1. pollPc' \in [PollThreads -> Labels]
    BY <1>3, <1>l DEF PollTimeout, ScanDone, Labels
  <2> QED
    BY <1>0, <1>3, <2>1, SameParameters DEF PollTimeout, ScanDone, TypeOK, Labels
<1>4. CASE ScanReadable(p)
  <2>1. PICK s \in Slots : NextReported(p, s) /\ process(p, s)
    BY <1>4 DEF ScanReadable
  <2>2. FdsesType
    BY <2>1, SetQueued DEF process
  <2>3. fdses[p][s].fd \in Fds
    BY <2>1, FdsesFacts DEF NextReported, Reported, PollFd
  <2>4. [sock |-> fdses[p][s].fd, id |-> p, slot |-> s,
         conn |-> file[fdses[p][s].fd]] \in Request
    BY <2>3 DEF Request, TypeOK
  <2>5. to_process \in Seq(Request)
    BY DEF TypeOK
  <2>6. to_process' \in Seq(Request)
    BY <2>1, <2>4, <2>5 DEF process
  <2> QED
    BY <1>0, <1>4, <2>2, <2>6, SameParameters DEF ScanReadable, TypeOK, FdsesType
<1>5. CASE ScanHup(p)
  <2>1. pollPc' \in [PollThreads -> Labels]
    BY <1>5, <1>l DEF ScanHup, Labels
  <2>2. /\ pollAt' \in [PollThreads -> Slots]
        /\ pollTmp' \in [PollThreads -> 0 .. (Modulus - 1)]
    BY <1>5 DEF ScanHup, TypeOK
  <2> QED
    BY <1>0, <1>5, <2>1, <2>2, SameParameters DEF ScanHup, TypeOK, Labels
<1>6. CASE CloseHup(p)
  <2>1. pollPc' \in [PollThreads -> Labels]
    BY <1>6, <1>l DEF CloseHup, Labels
  <2>2. /\ pollAt[p] \in Slots /\ pollTmp[p] \in Int
        /\ 0 \in Slots /\ 0 \in 0 .. (Modulus - 1) /\ Modulus \in Nat \ {0}
    BY SetupFacts, SlotFacts DEF TypeOK
  <2>3. FdsesType
    BY <1>6, <2>2, SetErased DEF CloseHup
  <2>4. fdses[p][pollAt[p]].fd \in Fds \union {NoFd}
    BY <2>2, FdsesFacts DEF PollFd
  <2>5. file' \in [Fds -> Conns \union {NoConn}]
    BY <1>6, <2>4, ClosedType DEF CloseHup
  <2>6. num_connections' \in 0 .. (Modulus - 1)
    BY <1>6, <2>2 DEF CloseHup
  <2>7. /\ pollAt' \in [PollThreads -> Slots]
        /\ pollTmp' \in [PollThreads -> 0 .. (Modulus - 1)]
    BY <1>6, <2>2 DEF CloseHup, TypeOK
  <2> QED
    BY <1>0, <1>6, <2>1, <2>3, <2>5, <2>6, <2>7, SameParameters
    DEF CloseHup, TypeOK, FdsesType, Labels
<1>n. /\ setup.max_fds \in Nat /\ Reserved(p) \in Nat
      /\ Reserved(p) <= setup.max_fds
  <2>1. setup \in Setups
    BY DEF TypeOK
  <2> QED
    BY <2>1, SetupFacts, SlotFacts DEF Slots
<1>s. ASSUME NEW e \in Walk, purging' = [purging EXCEPT ![p] = e]
      PROVE  purging' \in [PollThreads -> Walk]
  BY <1>s DEF TypeOK
<1>w. /\ purging[p] \in Walk /\ purging[p].at \in Nat /\ purging[p].to \in Nat
      /\ purging[p].index \in Nat /\ curr_indexes[p] \in 0 .. setup.max_fds
  BY <1>n DEF TypeOK, Walk
<1>e. \A a, b, c \in 0 .. setup.max_fds : [at |-> a, to |-> b, index |-> c] \in Walk
  BY DEF Walk
<1>7. CASE Purge(p)
  <2>1. pollPc' \in [PollThreads -> Labels]
    BY <1>7, <1>l DEF Purge, Labels
  <2>2. purging' \in [PollThreads -> Walk]
    BY <1>7, <1>n, <1>s, <1>e DEF Purge, TypeOK
  <2> QED
    BY <1>0, <1>7, <2>1, <2>2, SameParameters DEF Purge, TypeOK, Labels
<1>8. CASE PurgeTest(p)
  <2>1. pollPc' \in [PollThreads -> Labels]
    BY <1>8, <1>l DEF PurgeTest, Labels, TypeOK
  <2>2. purging' \in [PollThreads -> Walk]
    <3>1. CASE purging' = [purging EXCEPT ![p].index = curr_indexes[p]]
      BY <1>w, <3>1 DEF TypeOK, Walk
    <3>2. CASE purging' = [purging EXCEPT ![p].at = purging[p].at + 1,
                                          ![p].to = purging[p].at + 1]
      <4>1. purging[p].at + 1 \in 0 .. setup.max_fds
        BY <1>8, <1>n, <1>w DEF PurgeTest
      <4> QED
        BY <1>w, <3>2, <4>1 DEF TypeOK, Walk
    <3> QED
      BY <1>8, <3>1, <3>2 DEF PurgeTest, TypeOK
  <2> QED
    BY <1>0, <1>8, <2>1, <2>2, SameParameters DEF PurgeTest, TypeOK, Labels
<1>i. CASE PurgeLower(p) \/ PurgeMove(p)
  <2>1. Purging(p) /\ PurgeInv(p) /\ purging[p].at < setup.max_fds
    BY <1>i DEF PurgeLower, PurgeMove, Purging, WalkInv, PurgeInv
  <2>2. /\ purging[p].at + 1 \in 0 .. setup.max_fds /\ purging[p].to + 1 \in 0 .. setup.max_fds
        /\ purging[p].at \in Slots /\ purging[p].to \in Slots
    BY <1>n, <1>w, <2>1 DEF PurgeInv, Slots
  <2>3. pollPc' \in [PollThreads -> Labels]
    BY <1>i, <1>l DEF PurgeLower, PurgeMove, Labels
  <2>4. purging' \in [PollThreads -> Walk]
    <3> DEFINE Field == 0 .. setup.max_fds
    <3>1. purging \in [PollThreads -> [at : Field, to : Field, index : Field]] /\ 0 \in Field
      BY <1>n DEF TypeOK, Walk
    <3>2. purging[p].at + 1 \in Field /\ purging[p].to + 1 \in Field
      BY <2>2
    <3> HIDE DEF Field
    <3>3. CASE PurgeLower(p)
      <4>1. purging' \in [PollThreads -> [at : Field, to : Field, index : Field]]
        BY <3>1, <3>2, <3>3 DEF PurgeLower
      <4> QED
        BY <4>1 DEF Walk, Field
    <3>4. CASE PurgeMove(p)
      <4>1. purging' \in [PollThreads -> [at : Field, to : Field, index : Field]]
        BY <3>1, <3>2, <3>4 DEF PurgeMove
      <4> QED
        BY <4>1 DEF Walk, Field
    <3> QED
      BY <1>i, <3>3, <3>4
  <2>5. CASE PurgeLower(p)
    <3>1. purging[p].index - 1 \in 0 .. setup.max_fds
      <4>1. /\ Left(p) <= purging[p].index /\ purging[p].index <= curr_indexes[p]
            /\ Reserved(p) <= purging[p].to
        BY <2>1, <2>5 DEF PurgeLower, PurgeInv
      <4>2. Reserved(p) \in {1, 2}
        BY SlotFacts DEF TypeOK
      <4> QED
        BY <1>n, <1>w, <2>1, <4>1, <4>2 DEF Left
    <3>2. curr_indexes' \in [PollThreads -> 0 .. setup.max_fds]
      BY <2>5, <3>1 DEF PurgeLower, TypeOK
    <3> QED
      BY <1>0, <2>3, <2>4, <2>5, <3>2, SameParameters DEF PurgeLower, TypeOK, Labels
  <2>6. CASE PurgeMove(p)
    <3>1. FdsesType
      BY <2>2, <2>6, FdsesFacts, SetEntry DEF PurgeMove, Moved
    <3> QED
      BY <1>0, <2>3, <2>4, <2>6, <3>1, SameParameters DEF PurgeMove, TypeOK, FdsesType, Labels
  <2> QED
    BY <1>i, <2>5, <2>6
<1>9. CASE PurgeDone(p)
  <2>1. pollPc' \in [PollThreads -> Labels]
    BY <1>9, <1>l DEF PurgeDone, Labels
  <2>2. purging' \in [PollThreads -> Walk]
    <3>1. NoWalk \in Walk
      BY <1>n, <1>e DEF NoWalk
    <3> QED
      BY <1>9, <1>s, <3>1 DEF PurgeDone
  <2> QED
    BY <1>0, <1>9, <2>1, <2>2, SameParameters DEF PurgeDone, TypeOK, Labels
<1> QED
  BY <1>1, <1>2, <1>3, <1>4, <1>5, <1>6, <1>7, <1>8, <1>9, <1>i DEF PollThread

Steps == {"wait", "op", "body", "reply", "failOp", "failBody", "rearm"}

LEMMA NextIterationType ==
  ASSUME TypeOK, NEW w \in Workers, NextIteration(w)
  PROVE  /\ workPc' \in [Workers -> Steps]
         /\ req' \in [Workers -> Request \union {NoRequest}]
         /\ sock' \in [Workers -> Fds \union {NoFd}]
         /\ op' \in [Workers -> Ops \union {"none"}]
         /\ workTmp' \in [Workers -> 0 .. (Modulus - 1)]
<1>1. 0 \in 0 .. (Modulus - 1)
  BY SetupFacts DEF TypeOK
<1> QED
  BY <1>1 DEF TypeOK, NextIteration, WorkerAt, Steps

(* A request's slot exists, whichever request a worker has. *)
LEMMA RequestSlot ==
  ASSUME TypeOK, NEW r \in Request \union {NoRequest}
  PROVE  r.id \in PollThreads /\ r.slot \in Slots
<1>1. 0 \in PollThreads /\ 0 \in Slots
  BY SlotFacts DEF TypeOK
<1>2. CASE r \in Request
  BY <1>2 DEF Request
<1>3. CASE r = NoRequest
  BY <1>1, <1>3 DEF NoRequest
<1> QED
  BY <1>2, <1>3

LEMMA ReadFacts ==
  ASSUME TypeOK, NEW f, HasWord(f)
  PROVE  /\ f \in Fds /\ file[f] \in Conns
         /\ inbuf[file[f]] \in Seq(Ops \union {"body"}) /\ inbuf[file[f]] # <<>>
         /\ Head(inbuf[file[f]]) \in Ops \union {"body"}
         /\ Consume(f) => inbuf' \in [Conns -> Seq(Ops \union {"body"})]
<1>1. f \in Fds /\ file[f] \in Conns /\ inbuf[file[f]] # <<>>
  BY DEF HasWord, Bad, Open, TypeOK
<1>2. inbuf \in [Conns -> Seq(Ops \union {"body"})]
  BY DEF TypeOK
<1>3. inbuf[file[f]] \in Seq(Ops \union {"body"})
  BY <1>1, <1>2
<1>4. /\ Head(inbuf[file[f]]) \in Ops \union {"body"}
      /\ Tail(inbuf[file[f]]) \in Seq(Ops \union {"body"})
  BY <1>1, <1>3
<1> QED
  BY <1>1, <1>2, <1>3, <1>4 DEF Consume

LEMMA WorkerType ==
  ASSUME TypeOK, NEW w \in Workers, Worker(w)
  PROVE  TypeOK'
<1> USE DEF clientVars, pollVars, walkVars, workVars
<1>0. setup' = setup
  <2>1. ASSUME Dequeue(w) \/ ReadOperation(w) \/ UnknownOperation(w) \/ ReadThrows(w)
        PROVE setup' = setup
    BY <2>1 DEF Dequeue, ReadOperation, UnknownOperation, ReadThrows, Die
  <2>2. ASSUME ReadBody(w) \/ EofInOperation(w) \/ EofInBody(w) \/ EndFailedRead(w)
        PROVE setup' = setup
    BY <2>2 DEF ReadBody, EofInOperation, EofInBody, EndFailedRead, BeginFailedRead, Die
  <2>3. ASSUME Reply(w) \/ ReplyFails(w) \/ Rearm(w) PROVE setup' = setup
    BY <2>3 DEF Reply, ReplyFails, Rearm, Die
  <2> QED
    BY <2>1, <2>2, <2>3 DEF Worker
<1>l. ASSUME NEW label \in Steps, WorkerAt(w, label) PROVE workPc' \in [Workers -> Steps]
  BY <1>l DEF TypeOK, Steps, WorkerAt
<1>r. /\ req[w].id \in PollThreads /\ req[w].slot \in Slots
      /\ fdses[req[w].id][req[w].slot].fd \in Fds \union {NoFd}
  <2>1. req[w] \in Request \union {NoRequest}
    BY DEF TypeOK
  <2> QED
    BY <2>1, RequestSlot, FdsesFacts DEF PollFd
<1>m. workTmp[w] \in Int /\ Modulus \in Nat \ {0}
  BY SetupFacts DEF TypeOK
<1>1. CASE Dequeue(w)
  <2>1. workPc' \in [Workers -> Steps]
    BY <1>1, <1>l DEF Dequeue, Steps
  <2>2. to_process \in Seq(Request) /\ to_process # <<>>
    BY <1>1 DEF TypeOK, Dequeue
  <2>3. Head(to_process) \in Request /\ Tail(to_process) \in Seq(Request)
    BY <2>2
  <2>4. fdses[Head(to_process).id][Head(to_process).slot].fd \in Fds \union {NoFd}
    BY <2>3, RequestSlot, FdsesFacts DEF PollFd
  <2>5. /\ to_process' \in Seq(Request)
        /\ req' \in [Workers -> Request \union {NoRequest}]
        /\ sock' \in [Workers -> Fds \union {NoFd}]
    BY <1>1, <2>3, <2>4 DEF Dequeue, TypeOK
  <2> QED
    BY <1>0, <1>1, <2>1, <2>5, SameParameters DEF Dequeue, TypeOK, Steps
<1>2. CASE ReadOperation(w)
  <2>1. workPc' \in [Workers -> Steps]
    BY <1>2, <1>l DEF ReadOperation, Steps
  <2>2. inbuf' \in [Conns -> Seq(Ops \union {"body"})]
    BY <1>2, ReadFacts DEF ReadOperation
  <2>3. Head(inbuf[file[sock[w]]]) \in Ops
    BY <1>2, ReadFacts DEF ReadOperation, operation_to_f
  <2>4. op' \in [Workers -> Ops \union {"none"}]
    BY <1>2, <2>3 DEF ReadOperation, TypeOK
  <2> QED
    BY <1>0, <1>2, <2>1, <2>2, <2>4, SameParameters DEF ReadOperation, TypeOK, Steps
<1>3. CASE UnknownOperation(w) \/ ReadThrows(w)
  BY <1>3, DieType DEF UnknownOperation, ReadThrows, Deaths
<1>4. CASE ReadBody(w)
  <2>1. workPc' \in [Workers -> Steps]
    BY <1>4, <1>l DEF ReadBody, Steps
  <2>2. inbuf' \in [Conns -> Seq(Ops \union {"body"})]
    BY <1>4, ReadFacts DEF ReadBody
  <2> QED
    BY <1>0, <1>4, <2>1, <2>2, SameParameters DEF ReadBody, TypeOK, Steps
<1>5. ASSUME NEW label \in Steps, BeginFailedRead(w, label) PROVE TypeOK'
  <2>1. workPc' \in [Workers -> Steps]
    BY <1>5, <1>l DEF BeginFailedRead
  <2>2. file' \in [Fds -> Conns \union {NoConn}]
    BY <1>5, <1>r, ClosedType DEF BeginFailedRead
  <2>3. workTmp' \in [Workers -> 0 .. (Modulus - 1)]
    BY <1>5 DEF BeginFailedRead, TypeOK
  <2> QED
    BY <1>0, <1>5, <2>1, <2>2, <2>3, SameParameters DEF BeginFailedRead, TypeOK, Steps
<1>6. CASE EofInOperation(w)
  BY <1>5, <1>6 DEF EofInOperation, Steps
<1>7. CASE EofInBody(w)
  <2>1. ASSUME BeginFailedRead(w, "failBody") PROVE TypeOK'
    BY <1>5, <2>1 DEF Steps
  <2>2. ASSUME Die("badMessage") PROVE TypeOK'
    BY <2>2, DieType DEF Deaths
  <2>3. ASSUME WorkerAt(w, IF op[w] = "mfsparse" THEN "reply" ELSE "rearm"),
               UNCHANGED <<setup, died, clientVars, inbuf, backlog, file, fdses,
                           curr_indexes, pipe, pollVars, to_process, req, sock, op,
                           workTmp, num_connections>>
        PROVE TypeOK'
    <3>1. workPc' \in [Workers -> Steps]
      BY <2>3, <1>l DEF Steps
    <3> QED
      BY <1>0, <2>3, <3>1, SameParameters DEF TypeOK, Steps
  <2> QED
    BY <1>7, <2>1, <2>2, <2>3 DEF EofInBody
<1>8. CASE EndFailedRead(w)
  <2>1. FdsesType
    BY <1>8, <1>r, SetErased DEF EndFailedRead
  <2>2. num_connections' \in 0 .. (Modulus - 1)
    <3>1. num_connections' = (workTmp[w] - 1) % Modulus
      BY <1>8, Zenon DEF EndFailedRead
    <3> QED
      BY <3>1, <1>m
  <2>3. ASSUME NextIteration(w) PROVE TypeOK'
    BY <1>0, <1>8, <2>1, <2>2, <2>3, NextIterationType, SameParameters
    DEF EndFailedRead, TypeOK, FdsesType, Steps
  <2>4. ASSUME WorkerAt(w, "rearm"), UNCHANGED <<req, sock, op, workTmp>> PROVE TypeOK'
    <3>1. workPc' \in [Workers -> Steps]
      BY <2>4, <1>l DEF Steps
    <3> QED
      BY <1>0, <1>8, <2>1, <2>2, <2>4, <3>1, SameParameters
      DEF EndFailedRead, TypeOK, FdsesType, Steps
  <2> QED
    BY <1>8, <2>3, <2>4 DEF EndFailedRead
<1>9. CASE Reply(w)
  <2>1. workPc' \in [Workers -> Steps]
    BY <1>9, <1>l DEF Reply, Steps
  <2>2. /\ peer' \in [Conns -> {"none", "up", "fin", "rst"}]
        /\ client' \in [Conns -> {"idle", "await", "refused"} \union Ops]
    <3>1. file[sock[w]] \in Conns
      BY <1>9 DEF Reply, Broken, Open, TypeOK
    <3>2. CASE peer[file[sock[w]]] = "fin"
      BY <1>9, <3>1, <3>2 DEF Reply, TypeOK
    <3>3. CASE peer[file[sock[w]]] # "fin"
      <4> DEFINE c == file[sock[w]]
      <4>1. /\ peer' = peer
            /\ client' = [client EXCEPT ![c] = IF @ = "await" THEN "idle" ELSE @]
        BY <1>9, <3>3 DEF Reply
      <4>2. /\ peer \in [Conns -> {"none", "up", "fin", "rst"}]
            /\ client \in [Conns -> {"idle", "await", "refused"} \union Ops]
        BY DEF TypeOK
      <4> HIDE DEF c
      <4> QED
        BY <4>1, <4>2
    <3> QED
      BY <3>2, <3>3
  <2> QED
    BY <1>0, <1>9, <2>1, <2>2, SameParameters DEF Reply, TypeOK, Steps
<1>10. CASE ReplyFails(w)
  <2>1. ASSUME Die("badSend") PROVE TypeOK'
    BY <2>1, DieType DEF Deaths
  <2>2. ASSUME WorkerAt(w, "rearm"),
               UNCHANGED <<setup, died, clientVars, inbuf, backlog, file, fdses,
                           curr_indexes, pipe, pollVars, to_process, req, sock, op,
                           workTmp, num_connections>>
        PROVE TypeOK'
    <3>1. workPc' \in [Workers -> Steps]
      BY <2>2, <1>l DEF Steps
    <3> QED
      BY <1>0, <2>2, <3>1, SameParameters DEF TypeOK, Steps
  <2> QED
    BY <1>10, <2>1, <2>2 DEF ReplyFails
<1>11. CASE Rearm(w)
  <2>1. FdsesType
    BY <1>11, <1>r, SetArmed DEF Rearm
  <2>2. pipe' \in [PollThreads -> Nat]
    BY <1>11, <1>r DEF Rearm, TypeOK
  <2> QED
    BY <1>0, <1>11, <2>1, <2>2, NextIterationType, SameParameters
    DEF Rearm, TypeOK, FdsesType, Steps
<1> QED
  BY <1>1, <1>2, <1>3, <1>4, <1>6, <1>7, <1>8, <1>9, <1>10, <1>11 DEF Worker

LEMMA StutterType == ASSUME TypeOK, UNCHANGED vars PROVE TypeOK'
<1>1. setup' = setup
  BY DEF vars
<1> QED
  BY <1>1, SameParameters DEF TypeOK, vars, clientVars, pollVars, walkVars, workVars

LEMMA StepType ==
  ASSUME TypeOK, BacklogInv, WalkInv, [Next]_vars
  PROVE  TypeOK'
BY ClientType, AcceptorType, PollThreadType, WorkerType, StutterType DEF Next

-----------------------------------------------------------------------------
(* The accept queue.                                                          *)

(* Connections stay connected, the queue is as it was, and the acceptor goes  *)
(* to accept only when it is not empty.                                       *)
KeepsBacklog ==
  /\ setup' = setup /\ backlog' = backlog
  /\ \A c \in Conns : (peer[c] = "none") = (peer'[c] = "none")
  /\ pollPc'[0] = "accept" => pollPc[0] = "accept" \/ backlog # <<>>

LEMMA ClientBacklog ==
  ASSUME TypeOK, NEW c \in Conns, Client(c)
  PROVE  Connect(c) \/ KeepsBacklog
<1>1. CASE (\E o \in Ops : SendOperation(c, o)) \/ SendBody(c)
  BY <1>1 DEF SendOperation, SendBody, KeepsBacklog, pollVars, walkVars
<1>2. CASE Close(c) \/ Reset(c)
  BY <1>2 DEF Close, Reset, KeepsBacklog, pollVars, walkVars, TypeOK
<1> QED
  BY <1>1, <1>2 DEF Client

LEMMA AcceptorBacklog ==
  ASSUME TypeOK, Acceptor
  PROVE  Refuse \/ (\E r \in PollThreads : Accept(r) \/ AcceptLoads(r)) \/ KeepsBacklog
<1>1. CASE CountConnection
  BY <1>1, SlotFacts DEF CountConnection, KeepsBacklog, clientVars, Goto, TypeOK
<1>2. ASSUME NEW r \in PollThreads, AcceptFails(r) PROVE KeepsBacklog
  BY <1>2 DEF AcceptFails, Die, KeepsBacklog, clientVars, pollVars, walkVars
<1>3. CASE AcceptStores
  BY <1>3, SlotFacts DEF AcceptStores, KeepsBacklog, clientVars, Goto, TypeOK
<1> QED
  BY <1>1, <1>2, <1>3 DEF Acceptor

LEMMA PollThreadBacklog ==
  ASSUME TypeOK, NEW p \in PollThreads, PollThread(p)
  PROVE  KeepsBacklog
<1> USE SlotFacts DEF KeepsBacklog, clientVars, pollVars, walkVars, Goto
<1>1. CASE PollPipe(p)
  BY <1>1 DEF PollPipe, TypeOK
<1>2. CASE Poll(p)
  BY <1>2 DEF Poll, TypeOK
<1>3. CASE PollTimeout(p) \/ ScanDone(p)
  BY <1>3 DEF PollTimeout, ScanDone, TypeOK
<1>4. CASE ScanReadable(p)
  BY <1>4 DEF ScanReadable
<1>5. CASE ScanHup(p)
  BY <1>5 DEF ScanHup, TypeOK
<1>6. CASE CloseHup(p)
  BY <1>6 DEF CloseHup, TypeOK
<1>7. CASE Purge(p) \/ PurgeTest(p)
  BY <1>7 DEF Purge, PurgeTest, TypeOK
<1>8. CASE PurgeLower(p) \/ PurgeMove(p) \/ PurgeDone(p)
  BY <1>8 DEF PurgeLower, PurgeMove, PurgeDone, TypeOK
<1> QED
  BY <1>1, <1>2, <1>3, <1>4, <1>5, <1>6, <1>7, <1>8 DEF PollThread

LEMMA WorkerBacklog ==
  ASSUME TypeOK, NEW w \in Workers, Worker(w)
  PROVE  KeepsBacklog /\ UNCHANGED <<curr_indexes, pollVars>>
<1> USE DEF KeepsBacklog, clientVars, pollVars, walkVars
<1>1. CASE Dequeue(w) \/ ReadOperation(w) \/ UnknownOperation(w) \/ ReadThrows(w)
  BY <1>1 DEF Dequeue, ReadOperation, UnknownOperation, ReadThrows, Die
<1>2. CASE ReadBody(w) \/ EofInOperation(w) \/ EofInBody(w) \/ EndFailedRead(w)
  BY <1>2 DEF ReadBody, EofInOperation, EofInBody, EndFailedRead, BeginFailedRead, Die
<1>3. CASE Reply(w)
  <2>1. UNCHANGED <<setup, backlog, curr_indexes, pollVars>>
    BY <1>3 DEF Reply
  <2>2. \/ peer' = peer
        \/ peer[file[sock[w]]] = "fin" /\ peer' = [peer EXCEPT ![file[sock[w]]] = "rst"]
    BY <1>3, Zenon DEF Reply
  <2> QED
    BY <2>1, <2>2 DEF TypeOK
<1>4. CASE ReplyFails(w) \/ Rearm(w)
  BY <1>4 DEF ReplyFails, Rearm, Die
<1> QED
  BY <1>1, <1>2, <1>3, <1>4 DEF Worker

(* Head and tail of the queue, the one place sequences are taken apart. *)
LEMMA QueueFacts ==
  ASSUME NEW S, NEW q \in Seq(S), q # <<>>
  PROVE  /\ Head(q) = q[1] /\ Head(q) \in S
         /\ Len(q) \in Nat /\ Len(q) > 0
         /\ Tail(q) \in Seq(S) /\ Len(Tail(q)) = Len(q) - 1
         /\ \A i \in 1 .. Len(Tail(q)) : Tail(q)[i] = q[i + 1] /\ i + 1 \in 1 .. Len(q)
OBVIOUS

LEMMA AppendFacts ==
  ASSUME NEW S, NEW q \in Seq(S), NEW e \in S
  PROVE  /\ Append(q, e) \in Seq(S) /\ Len(Append(q, e)) = Len(q) + 1
         /\ Len(q) \in Nat
         /\ Append(q, e)[Len(q) + 1] = e
         /\ \A i \in 1 .. Len(q) : Append(q, e)[i] = q[i]
OBVIOUS

LEMMA StepBacklog ==
  ASSUME TypeOK, BacklogInv, [Next]_vars
  PROVE  BacklogInv'
<1>b. backlog \in Seq(Conns) /\ Len(backlog) \in Nat
  BY DEF TypeOK
<1>1. CASE KeepsBacklog
  BY <1>1, <1>b DEF KeepsBacklog, BacklogInv
<1>2. ASSUME NEW c \in Conns, Connect(c) PROVE BacklogInv'
  <2>1. /\ peer[c] = "none" /\ c \in setup.conns /\ backlog' = Append(backlog, c)
        /\ setup' = setup /\ pollPc' = pollPc
        /\ \A d \in Conns : peer'[d] = IF d = c THEN "up" ELSE peer[d]
    BY <1>2 DEF Connect, pollVars, walkVars, TypeOK
  <2>2. /\ Len(backlog') = Len(backlog) + 1 /\ backlog' # <<>>
        /\ backlog'[Len(backlog) + 1] = c
        /\ \A i \in 1 .. Len(backlog) : backlog'[i] = backlog[i]
    BY <1>b, <2>1, AppendFacts
  <2>3. \A i \in 1 .. Len(backlog) : backlog[i] # c /\ backlog[i] \in Conns
    BY <1>b, <2>1 DEF BacklogInv
  <2>4. \A i \in 1 .. Len(backlog') : i \in 1 .. Len(backlog) \/ i = Len(backlog) + 1
    BY <1>b, <2>2
  <2> QED
    BY <2>1, <2>2, <2>3, <2>4 DEF BacklogInv
<1>3. ASSUME Refuse \/ \E r \in PollThreads : Accept(r) \/ AcceptLoads(r) PROVE BacklogInv'
  <2>1. /\ setup' = setup /\ peer' = peer /\ backlog' = Tail(backlog)
        /\ pollPc[0] = "accept" /\ pollPc'[0] # "accept"
    BY <1>3, SlotFacts DEF Refuse, Accept, AcceptLoads, clientVars, Goto, TypeOK
  <2>2. backlog # <<>>
    BY <2>1 DEF BacklogInv
  <2>3. /\ Len(backlog') = Len(backlog) - 1
        /\ \A i \in 1 .. Len(backlog') : backlog'[i] = backlog[i + 1] /\ i + 1 \in 1 .. Len(backlog)
    BY <1>b, <2>1, <2>2, QueueFacts
  <2> QED
    BY <1>b, <2>1, <2>3 DEF BacklogInv
<1>4. CASE UNCHANGED vars
  BY <1>4 DEF BacklogInv, vars, clientVars, pollVars, walkVars
<1> QED
  BY <1>1, <1>2, <1>3, <1>4, ClientBacklog, AcceptorBacklog, PollThreadBacklog,
     WorkerBacklog DEF Next

-----------------------------------------------------------------------------
(* The walk of remove_if.                                                     *)

WalkAction(p) == PurgeTest(p) \/ PurgeLower(p) \/ PurgeMove(p) \/ PurgeDone(p)

(* The labels outside a walk, and apart from an accept into one. *)
PlainLabels == {"poll", "accept", "inc", "scan", "dec", "purge"}

(* No walk is begun or goes on, and no index moves. *)
PlainStep ==
  /\ UNCHANGED <<setup, curr_indexes, purging, placing>>
  /\ \/ pollPc' = pollPc
     \/ \E q \in PollThreads, l \in PlainLabels :
          /\ ~Purging(q) /\ (pollPc[q] # "place")
          /\ pollPc' = [pollPc EXCEPT ![q] = l]

LEMMA StepKinds ==
  ASSUME TypeOK, Next
  PROVE  \/ PlainStep
         \/ \E r \in PollThreads : Accept(r) \/ AcceptLoads(r)
         \/ AcceptStores
         \/ \E p \in PollThreads : Purge(p) /\ curr_indexes[p] = setup.max_fds
         \/ \E p \in PollThreads : WalkAction(p)
<1> USE DEF PlainStep, PlainLabels, Purging, pollVars, walkVars, Goto
<1>1. ASSUME NEW c \in Conns, Client(c) PROVE PlainStep
  BY <1>1 DEF Client, Connect, SendOperation, SendBody, Close, Reset
<1>2. ASSUME Acceptor,
             ~(AcceptStores \/ \E r \in PollThreads : Accept(r) \/ AcceptLoads(r))
      PROVE  PlainStep
  <2>1. 0 \in PollThreads
    BY SlotFacts DEF TypeOK
  <2>2. CASE Refuse
    BY <2>1, <2>2 DEF Refuse
  <2>3. CASE CountConnection
    BY <2>1, <2>3 DEF CountConnection
  <2>4. ASSUME NEW r \in PollThreads, AcceptFails(r) PROVE PlainStep
    BY <2>4 DEF AcceptFails, Die
  <2> QED
    BY <1>2, <2>2, <2>3, <2>4 DEF Acceptor
<1>3. ASSUME NEW p \in PollThreads, PollThread(p), ~WalkAction(p)
      PROVE  PlainStep \/ (Purge(p) /\ curr_indexes[p] = setup.max_fds)
  <2>1. CASE PollPipe(p)
    BY <2>1 DEF PollPipe
  <2>2. CASE Poll(p)
    BY <2>2 DEF Poll
  <2>3. CASE PollTimeout(p) \/ ScanDone(p)
    BY <2>3 DEF PollTimeout, ScanDone
  <2>4. CASE ScanReadable(p)
    BY <2>4 DEF ScanReadable
  <2>5. CASE ScanHup(p)
    BY <2>5 DEF ScanHup
  <2>6. CASE CloseHup(p)
    BY <2>6 DEF CloseHup
  <2>7. CASE Purge(p) /\ curr_indexes[p] # setup.max_fds
    BY <2>7 DEF Purge
  <2> QED
    BY <1>3, <2>1, <2>2, <2>3, <2>4, <2>5, <2>6, <2>7 DEF PollThread, WalkAction
<1>4. ASSUME NEW w \in Workers, Worker(w) PROVE PlainStep
  <2>1. UNCHANGED <<curr_indexes, pollVars>> /\ setup' = setup
    BY <1>4, WorkerBacklog DEF KeepsBacklog
  <2> QED
    BY <2>1
<1> QED
  BY <1>1, <1>2, <1>3, <1>4 DEF Next

(* Values in a walk are numbers. *)
LEMMA WalkFacts ==
  ASSUME TypeOK, NEW p \in PollThreads
  PROVE  /\ setup.max_fds \in Nat /\ curr_indexes[p] \in Nat
         /\ Reserved(p) \in {1, 2} /\ Reserved(p) < setup.max_fds
         /\ purging[p] \in Walk /\ purging[p].at \in Nat /\ purging[p].to \in Nat
         /\ purging[p].index \in Nat
         /\ placing.id \in PollThreads /\ placing.slot \in Nat
         /\ placing.slot < setup.max_fds
         /\ 0 \in PollThreads
<1>1. /\ setup.max_fds \in Nat /\ setup \in Setups /\ 0 \in PollThreads
      /\ Reserved(p) \in Slots /\ Reserved(p) \in {1, 2}
  BY SetupFacts, SlotFacts DEF TypeOK
<1>2. Reserved(p) < setup.max_fds /\ curr_indexes[p] \in Nat
  BY <1>1 DEF TypeOK, Slots
<1>3. purging[p] \in Walk
  BY DEF TypeOK
<1>4. purging[p].at \in Nat /\ purging[p].to \in Nat /\ purging[p].index \in Nat
  BY <1>1, <1>3 DEF Walk
<1>5. placing.id \in PollThreads /\ placing.slot \in Slots
  BY DEF TypeOK, Placing
<1> QED
  BY <1>1, <1>2, <1>3, <1>4, <1>5 DEF Slots

(* What a walk is about stays as it was. *)
LEMMA SameWalk ==
  ASSUME TypeOK, WalkInv, NEW p \in PollThreads, setup' = setup,
         purging'[p] = purging[p], curr_indexes'[p] = curr_indexes[p],
         pollPc'[p] = pollPc[p] \/ ~Purging(p)'
  PROVE  Purging(p)' => PurgeInv(p)'
BY DEF WalkInv, PurgeInv, Purging, Left, Reserved

LEMMA PlainWalk == ASSUME TypeOK, WalkInv, PlainStep PROVE WalkInv'
<1>1. \A p \in PollThreads : pollPc'[p] = pollPc[p] \/ ~Purging(p)'
  BY DEF PlainStep, PlainLabels, Purging, TypeOK
<1>2. \A p \in PollThreads : Purging(p)' => PurgeInv(p)'
  BY <1>1, SameWalk DEF PlainStep
<1>3. pollPc'[0] = "place" => pollPc[0] = "place"
  BY WalkFacts DEF PlainStep, PlainLabels, TypeOK
<1>4. 0 \in PollThreads /\ (Purging(placing.id)' => Purging(placing.id))
  <2>0. 0 \in PollThreads
    BY SlotFacts DEF TypeOK
  <2>1. 0 \in PollThreads /\ placing' = placing /\ placing.id \in PollThreads
    BY <2>0, WalkFacts DEF PlainStep
  <2>2. Purging(placing.id)' => pollPc'[placing.id] = pollPc[placing.id]
    BY <1>1, <2>1
  <2> QED
    BY <2>1, <2>2 DEF Purging
<1>5. pollPc'[0] = "place" => PlaceInv'
  BY <1>3, <1>4 DEF WalkInv, PlaceInv, PlainStep, Left
<1> QED
  BY <1>2, <1>5 DEF WalkInv

(* A connection goes into a table, by one step or two. *)
LEMMA AcceptWalk ==
  ASSUME TypeOK, WalkInv, NEW r \in PollThreads,
         Accept(r) \/ AcceptLoads(r) \/ (AcceptStores /\ r = placing.id)
  PROVE  WalkInv'
<1> USE WalkFacts
<1>1. /\ setup' = setup /\ purging' = purging
      /\ pollPc[0] \in {"accept", "place"}
      /\ \A p \in PollThreads : pollPc'[p] = IF p = 0 THEN pollPc'[0] ELSE pollPc[p]
      /\ pollPc'[0] \in {"inc", "place"}
  BY DEF Accept, AcceptLoads, AcceptStores, walkVars, Goto, TypeOK
<1>2. \A p \in PollThreads : Purging(p)' => p # 0 /\ Purging(p) /\ pollPc'[p] = pollPc[p]
  BY <1>1 DEF Purging
<1>3. \A p \in PollThreads : curr_indexes[p] <= curr_indexes'[p]
  <2>1. CASE Accept(r)
    BY <2>1 DEF Accept, TypeOK
  <2>2. CASE AcceptLoads(r)
    BY <2>2 DEF AcceptLoads
  <2>3. CASE AcceptStores
    <3>1. curr_indexes[placing.id] <= placing.slot
      BY <2>3 DEF AcceptStores, WalkInv, PlaceInv
    <3> DEFINE q == placing.id
    <3>2. q \in PollThreads /\ placing.slot \in Nat /\ curr_indexes[q] \in Nat
      BY WalkFacts
    <3>3. PICK n \in {placing.slot, curr_indexes[q]} :
             curr_indexes' = [curr_indexes EXCEPT ![q] = n + 1]
      BY <2>3 DEF AcceptStores
    <3>4. curr_indexes[q] <= n + 1
      BY <3>1, <3>2, <3>3
    <3>5. \A p \in PollThreads : curr_indexes'[p] = IF p = q THEN n + 1 ELSE curr_indexes[p]
      BY <3>3 DEF TypeOK
    <3>6. \A p \in PollThreads : curr_indexes[p] \in Nat
      BY WalkFacts
    <3> QED
      BY <3>4, <3>5, <3>6
  <2> QED
    BY <2>1, <2>2, <2>3
<1>4. ASSUME NEW p \in PollThreads, Purging(p)' PROVE PurgeInv(p)'
  <2>1. /\ PurgeInv(p) /\ p # 0 /\ pollPc'[p] = pollPc[p] /\ Left(p)' = Left(p)
        /\ Left(p) \in Int /\ curr_indexes'[p] \in Int
    <3>1. PurgeInv(p) /\ p # 0 /\ pollPc'[p] = pollPc[p]
      BY <1>2, <1>4 DEF WalkInv
    <3>2. curr_indexes'[p] \in Int
      <4>1. CASE Accept(r)
        BY <4>1 DEF Accept, TypeOK
      <4>2. CASE AcceptLoads(r)
        BY <4>2 DEF AcceptLoads
      <4>3. CASE AcceptStores /\ r = placing.id
        <5>1. PICK n \in {placing.slot, curr_indexes[r]} :
                 curr_indexes' = [curr_indexes EXCEPT ![r] = n + 1]
          BY <4>3 DEF AcceptStores
        <5>2. n + 1 \in Nat
          BY <4>3, <5>1
        <5> QED
          BY <5>1, <5>2 DEF TypeOK
      <4> QED
        BY <4>1, <4>2, <4>3
    <3> QED
      BY <1>1, <3>1, <3>2 DEF Left
  <2> QED
    BY <1>1, <1>3, <2>1 DEF PurgeInv, Reserved
<1>5. ASSUME pollPc'[0] = "place" PROVE PlaceInv'
  <2>1. AcceptLoads(r)
    BY <1>5 DEF Accept, AcceptStores, Goto, TypeOK
  <2>2. PICK f \in Fds : placing' = [fd |-> f, id |-> r, slot |-> curr_indexes[r]]
    BY <2>1 DEF AcceptLoads
  <2>3. Purging(r) /\ r # 0 /\ PurgeInv(r) /\ curr_indexes' = curr_indexes
    BY <2>1 DEF AcceptLoads, WalkInv, Purging
  <2>4. Left(r)' = Left(r)
    BY <1>1 DEF Left
  <2> QED
    BY <1>1, <2>2, <2>3, <2>4 DEF PlaceInv, PurgeInv, Fds
<1> QED
  BY <1>4, <1>5 DEF WalkInv

(* A purge begins only when the index is at the end of the table.  An index   *)
(* that thread 0 has loaded for the table is then behind it.                  *)
LEMMA PurgeWalk ==
  ASSUME TypeOK, WalkInv, NEW p \in PollThreads, Purge(p), curr_indexes[p] = setup.max_fds
  PROVE  WalkInv'
<1> USE WalkFacts
<1>1. /\ setup' = setup /\ curr_indexes' = curr_indexes /\ placing' = placing
      /\ purging' = [purging EXCEPT ![p] =
            [at |-> Reserved(p), to |-> Reserved(p), index |-> 0]]
      /\ pollPc' = [pollPc EXCEPT ![p] = "test"] /\ pollPc[p] = "purge"
  BY DEF Purge, Goto
<1>2. /\ purging'[p].at = Reserved(p) /\ purging'[p].to = Reserved(p) /\ pollPc'[p] = "test"
      /\ \A q \in PollThreads : q # p => purging'[q] = purging[q] /\ pollPc'[q] = pollPc[q]
  BY <1>1 DEF TypeOK
<1>3. PurgeInv(p)'
  BY <1>1, <1>2 DEF PurgeInv, Left, Reserved
<1>4. \A q \in PollThreads : q # p => (Purging(q)' => PurgeInv(q)')
  BY <1>1, <1>2, SameWalk
<1>5. ASSUME pollPc'[0] = "place" PROVE PlaceInv'
  <2>1. pollPc[0] = "place" /\ PlaceInv
    BY <1>1, <1>5 DEF WalkInv, TypeOK
  <2>2. placing.id # p
    BY <2>1 DEF PlaceInv
  <2>3. Purging(placing.id)' = Purging(placing.id) /\ Left(placing.id)' = Left(placing.id)
    BY <1>1, <1>2, <2>2 DEF Purging, Left
  <2> QED
    BY <1>1, <2>1, <2>3 DEF PlaceInv
<1> QED
  BY <1>3, <1>4, <1>5 DEF WalkInv

(* A step of remove_if. *)
LEMMA TestWalk ==
  ASSUME TypeOK, WalkInv, NEW p \in PollThreads, WalkAction(p)
  PROVE  WalkInv'
<1> USE WalkFacts
<1> DEFINE c == curr_indexes[p]
           at == purging[p].at
           to == purging[p].to
<1>1. /\ setup' = setup /\ placing' = placing /\ Purging(p) /\ PurgeInv(p)
      /\ \A q \in PollThreads : q # p => /\ purging'[q] = purging[q]
                                        /\ pollPc'[q] = pollPc[q]
                                        /\ curr_indexes'[q] = curr_indexes[q]
  <2>1. /\ setup' = setup /\ placing' = placing /\ Purging(p)
        /\ \A q \in PollThreads : q # p => /\ purging'[q] = purging[q]
                                          /\ pollPc'[q] = pollPc[q]
                                          /\ curr_indexes'[q] = curr_indexes[q]
    BY DEF WalkAction, PurgeTest, PurgeLower, PurgeMove, PurgeDone, Goto, Purging, TypeOK
  <2> QED
    BY <2>1 DEF WalkInv
<1>p. pollPc[p] \in {"test", "lower", "move"}
  BY <1>1 DEF Purging
<1> DEFINE Goal == /\ Purging(p)' => PurgeInv(p)' /\ Left(p)' <= Left(p) /\ Left(p)' \in Int
                   /\ curr_indexes'[p] <= c /\ curr_indexes'[p] \in Int
<1>2. ASSUME PurgeTest(p) PROVE Goal
  <2>1. curr_indexes' = curr_indexes /\ at < setup.max_fds /\ pollPc[p] = "test"
    BY <1>2 DEF PurgeTest
  <2>2. CASE purging' = [purging EXCEPT ![p].index = c] /\ pollPc'[p] = "lower"
    <3>1. purging'[p].at = at /\ purging'[p].to = to /\ purging'[p].index = c
      BY <2>2 DEF Walk, TypeOK
    <3> QED
      BY <1>1, <2>1, <2>2, <3>1 DEF PurgeInv, Left, Reserved
  <2>3. CASE /\ purging' = [purging EXCEPT ![p].at = at + 1, ![p].to = at + 1]
             /\ to = at /\ pollPc' = pollPc
    <3>1. purging'[p].at = at + 1 /\ purging'[p].to = at + 1
      BY <2>3 DEF Walk, TypeOK
    <3> QED
      BY <1>1, <2>1, <2>3, <3>1 DEF PurgeInv, Left, Reserved
  <2>4. CASE purging' = purging /\ to # at /\ pollPc'[p] = "move"
    BY <1>1, <2>1, <2>4 DEF PurgeInv, Left, Reserved
  <2> QED
    BY <1>2, <2>2, <2>3, <2>4 DEF PurgeTest, Goto, TypeOK
<1>3. ASSUME PurgeLower(p) PROVE Goal
  <2>1. /\ pollPc[p] = "lower" /\ pollPc'[p] = "test"
        /\ curr_indexes'[p] = purging[p].index - 1
        /\ purging'[p].at = at + 1 /\ purging'[p].to = to
    BY <1>3 DEF PurgeLower, Goto, Walk, TypeOK
  <2> QED
    BY <1>1, <2>1 DEF PurgeInv, Left, Reserved
<1>4. ASSUME PurgeMove(p) PROVE Goal
  <2>1. /\ pollPc[p] = "move" /\ pollPc'[p] = "test" /\ curr_indexes' = curr_indexes
        /\ purging'[p].at = at + 1 /\ purging'[p].to = to + 1
    BY <1>4 DEF PurgeMove, Goto, Walk, TypeOK
  <2> QED
    BY <1>1, <2>1 DEF PurgeInv, Left, Reserved
<1>5. ASSUME PurgeDone(p) PROVE Goal
  BY <1>5 DEF PurgeDone, Goto, Purging, TypeOK
<1>6. Goal
  BY <1>2, <1>3, <1>4, <1>5 DEF WalkAction
<1>7. \A q \in PollThreads : q # p => (Purging(q)' => PurgeInv(q)')
  BY <1>1, SameWalk
<1>8. ASSUME pollPc'[0] = "place" PROVE PlaceInv'
  <2>1. pollPc[0] = "place" /\ PlaceInv
    <3>1. pollPc'[p] # "place"
      BY DEF WalkAction, PurgeTest, PurgeLower, PurgeMove, PurgeDone, Goto, TypeOK
    <3> QED
      BY <1>1, <1>8, <3>1 DEF WalkInv
  <2> DEFINE q == placing.id
  <2>2. CASE q = p
    <3>1. /\ c <= placing.slot /\ Left(p) <= placing.slot
          /\ Left(p) \in Int
      BY <1>1, <2>1, <2>2 DEF PlaceInv, Left
    <3> QED
      BY <1>1, <1>6, <2>1, <2>2, <3>1 DEF PlaceInv
  <2>3. CASE q # p
    <3>1. /\ Purging(q)' = Purging(q) /\ Left(q)' = Left(q)
          /\ curr_indexes'[q] = curr_indexes[q]
      BY <1>1, <2>3 DEF Purging, Left
    <3> QED
      BY <1>1, <2>1, <3>1 DEF PlaceInv
  <2> QED
    BY <2>2, <2>3
<1> QED
  BY <1>6, <1>7, <1>8 DEF WalkInv

LEMMA StepWalk == ASSUME TypeOK, WalkInv, [Next]_vars PROVE WalkInv'
<1>1. CASE Next
  <2>1. AcceptStores => placing.id \in PollThreads
    BY SlotFacts DEF TypeOK, Placing
  <2> QED
    BY <1>1, <2>1, StepKinds, PlainWalk, AcceptWalk, PurgeWalk, TestWalk
<1>2. CASE UNCHANGED vars
  <2>1. PlainStep
    BY <1>2 DEF PlainStep, vars, pollVars, walkVars
  <2> QED
    BY <2>1, PlainWalk
<1> QED
  BY <1>1, <1>2

Typed == TypeOK /\ BacklogInv /\ WalkInv

LEMMA TypesKept == Spec => []Typed
<1>1. Init => Typed
  BY InitTypes DEF Typed
<1>2. Typed /\ [Next]_vars => Typed'
  BY StepType, StepBacklog, StepWalk DEF Typed
<1> QED
  BY <1>1, <1>2, PTL DEF Spec

(* The server's state keeps its type; in particular the index of a table that *)
(* two threads count without a lock never leaves the table.                   *)
THEOREM ServerTypes == Spec => []TypeOK
<1>1. Typed => TypeOK
  BY DEF Typed
<1> QED
  BY <1>1, TypesKept, PTL

-----------------------------------------------------------------------------
(* Room in the tables.                                                        *)

LEMMA AcceptedFinite ==
  ASSUME TypeOK
  PROVE  /\ IsFiniteSet(Accepted) /\ Cardinality(Accepted) \in Nat
         /\ IsFiniteSet(setup.conns) /\ Cardinality(setup.conns) \in Nat
         /\ Cardinality(Accepted) <= Cardinality(setup.conns)
<1>1. setup.conns \in SUBSET Conns /\ Accepted \in SUBSET setup.conns
  BY SetupFacts DEF TypeOK, Accepted
<1>2. IsFiniteSet(setup.conns)
  BY <1>1, ConnsAssumption, FS_Subset
<1>3. IsFiniteSet(Accepted) /\ Cardinality(Accepted) <= Cardinality(setup.conns)
  BY <1>1, <1>2, FS_Subset
<1> QED
  BY <1>2, <1>3, FS_CardinalityType

(* Where the limit exceeds the clients, no table is ever full. *)
LEMMA NoTableFills ==
  ASSUME TypeOK, RoomInv, Roomy, NEW p \in PollThreads
  PROVE  /\ curr_indexes[p] < setup.max_fds /\ curr_indexes[p] # setup.max_fds
         /\ curr_indexes[p] \in Slots
<1>1. curr_indexes[p] <= Reserved(p) + Cardinality(Accepted) /\ Reserved(p) \in {1, 2}
  BY SlotFacts DEF RoomInv, TypeOK
<1>2. setup.max_fds > Cardinality(setup.conns) + 2 /\ setup.max_fds \in Nat
  BY SetupFacts DEF Roomy, TypeOK
<1>3. curr_indexes[p] \in Nat
  BY SetupFacts DEF TypeOK
<1> QED
  BY <1>1, <1>2, <1>3, AcceptedFinite DEF Slots

LEMMA InitRoom == ASSUME Init PROVE RoomInv
<1>1. TypeOK
  BY InitTypes
<1>2. Cardinality(Accepted) \in Nat
  BY <1>1, AcceptedFinite
<1> QED
  BY <1>1, <1>2, SlotFacts DEF Init, RoomInv, Purging

(* What a step adds to the tables and to the connections that have left the   *)
(* queue.                                                                     *)
LEMMA SameAccepted == ASSUME TypeOK, KeepsBacklog PROVE Accepted' = Accepted
<1>1. setup.conns \subseteq Conns
  BY SetupFacts DEF TypeOK
<1> QED
  BY <1>1 DEF KeepsBacklog, Accepted

LEMMA ConnectAccepted ==
  ASSUME TypeOK, BacklogInv, NEW c \in Conns, Connect(c)
  PROVE  Accepted' = Accepted
<1>1. /\ peer[c] = "none" /\ c \in setup.conns /\ backlog' = Append(backlog, c)
      /\ setup' = setup /\ setup.conns \subseteq Conns
      /\ \A d \in Conns : peer'[d] = IF d = c THEN "up" ELSE peer[d]
  BY SetupFacts DEF Connect, TypeOK
<1>2. /\ Len(backlog') = Len(backlog) + 1 /\ Len(backlog) \in Nat
      /\ backlog'[Len(backlog) + 1] = c
      /\ \A i \in 1 .. Len(backlog) : backlog'[i] = backlog[i]
  BY <1>1, AppendFacts DEF TypeOK
<1>3. Len(backlog) + 1 \in 1 .. Len(backlog') /\ 1 .. Len(backlog) \subseteq 1 .. Len(backlog')
  BY <1>2
<1>4. \A i \in 1 .. Len(backlog') : i \in 1 .. Len(backlog) \/ i = Len(backlog) + 1
  BY <1>2
<1>5. \A d \in setup.conns : d \in Accepted <=> d \in Accepted'
  BY <1>1, <1>2, <1>3, <1>4 DEF Accepted
<1> QED
  BY <1>1, <1>5 DEF Accepted

LEMMA LeaveQueue ==
  ASSUME TypeOK, BacklogInv, backlog # <<>>, backlog' = Tail(backlog),
         setup' = setup, peer' = peer
  PROVE  /\ Accepted' = Accepted \union {Head(backlog)}
         /\ Head(backlog) \in setup.conns \ Accepted
         /\ Cardinality(Accepted') = Cardinality(Accepted) + 1
<1>1. /\ Head(backlog) = backlog[1] /\ Len(backlog) \in Nat /\ Len(backlog) > 0
      /\ Len(backlog') = Len(backlog) - 1
      /\ \A i \in 1 .. Len(backlog') : backlog'[i] = backlog[i + 1] /\ i + 1 \in 1 .. Len(backlog)
  BY QueueFacts DEF TypeOK
<1>2. Head(backlog) \in setup.conns \ Accepted /\ peer[Head(backlog)] # "none"
  BY <1>1 DEF BacklogInv, Accepted
<1>3. \A i \in 1 .. Len(backlog') : backlog'[i] # Head(backlog)
  BY <1>1 DEF BacklogInv
<1>4. \A i \in 1 .. Len(backlog) : i = 1 \/ (i - 1 \in 1 .. Len(backlog') /\ backlog'[i - 1] = backlog[i])
  BY <1>1
<1>5. \A d \in setup.conns : d \in Accepted' <=> d \in Accepted \/ d = Head(backlog)
  <2>1. ASSUME NEW d \in Accepted PROVE d \in Accepted'
    BY <1>1 DEF Accepted
  <2>2. Head(backlog) \in Accepted'
    BY <1>2, <1>3 DEF Accepted
  <2>3. ASSUME NEW d \in Accepted', d # Head(backlog) PROVE d \in Accepted
    <3>1. d \in setup.conns /\ peer[d] # "none" /\ \A i \in 1 .. Len(backlog') : backlog'[i] # d
      BY <2>3 DEF Accepted
    <3>2. ASSUME NEW i \in 1 .. Len(backlog) PROVE backlog[i] # d
      <4>1. CASE i = 1
        BY <1>1, <2>3, <4>1
      <4>2. CASE i - 1 \in 1 .. Len(backlog') /\ backlog'[i - 1] = backlog[i]
        BY <3>1, <4>2
      <4> QED
        BY <1>4, <4>1, <4>2
    <3> QED
      BY <3>1, <3>2 DEF Accepted
  <2> QED
    BY <2>1, <2>2, <2>3
<1>6. Accepted' = Accepted \union {Head(backlog)}
  BY <1>2, <1>5 DEF Accepted
<1> QED
  BY <1>2, <1>6, AcceptedFinite, FS_AddElement

LEMMA AcceptFacts ==
  ASSUME TypeOK, BacklogInv, NEW r \in PollThreads, Accept(r)
  PROVE  /\ setup' = setup /\ peer' = peer /\ client' = client /\ backlog # <<>>
         /\ backlog' = Tail(backlog) /\ to_process' = to_process
         /\ UNCHANGED <<died, inbuf, workVars>>
         /\ curr_indexes[r] \in Slots
         /\ curr_indexes' = [curr_indexes EXCEPT ![r] = @ + 1]
         /\ \A p \in PollThreads : pollPc'[p] = pollPc[p] \/ pollPc'[p] = "inc"
<1>1. /\ setup' = setup /\ peer' = peer /\ client' = client
      /\ backlog' = Tail(backlog) /\ to_process' = to_process
      /\ UNCHANGED <<died, inbuf, workVars>>
      /\ curr_indexes[r] < setup.max_fds
      /\ curr_indexes' = [curr_indexes EXCEPT ![r] = @ + 1]
      /\ pollPc[0] = "accept"
  BY DEF Accept, clientVars
<1>2. backlog # <<>>
  BY <1>1 DEF BacklogInv
<1>3. curr_indexes[r] \in 0 .. setup.max_fds /\ setup.max_fds \in Nat
  BY SetupFacts DEF TypeOK
<1>4. curr_indexes[r] \in Slots
  BY <1>1, <1>3 DEF Slots
<1>5. \A p \in PollThreads : pollPc'[p] = pollPc[p] \/ pollPc'[p] = "inc"
  BY DEF Accept, Goto, TypeOK
<1> QED
  BY <1>1, <1>2, <1>4, <1>5

(* Where no table fills, no purge starts. *)
LEMMA RoomySteps ==
  ASSUME TypeOK, RoomInv, Roomy, Next
  PROVE  PlainStep \/ \E r \in PollThreads : Accept(r)
<1>1. 0 \in PollThreads /\ pollPc[0] # "place"
  BY SlotFacts DEF RoomInv, TypeOK
<1>2. \A p \in PollThreads : ~Purging(p) /\ curr_indexes[p] # setup.max_fds
  BY NoTableFills DEF RoomInv
<1>3. ~AcceptStores /\ \A r \in PollThreads : ~AcceptLoads(r)
  BY <1>1, <1>2 DEF AcceptStores, AcceptLoads
<1>4. \A p \in PollThreads : ~WalkAction(p)
  BY <1>2 DEF WalkAction, PurgeTest, PurgeLower, PurgeMove, PurgeDone, Purging
<1> QED
  BY <1>2, <1>3, <1>4, StepKinds

LEMMA RoomyPurge ==
  ASSUME TypeOK, RoomInv, Roomy, NEW p \in PollThreads
  PROVE  /\ ~WalkAction(p) /\ ~AcceptStores /\ ~AcceptLoads(p)
         /\ Purge(p) => UNCHANGED <<fdses, curr_indexes, purging>> /\ Goto(p, "poll")
<1>1. curr_indexes[p] # setup.max_fds /\ ~Purging(p) /\ pollPc[0] # "place"
  BY NoTableFills DEF RoomInv
<1>2. ~WalkAction(p)
  BY <1>1 DEF WalkAction, PurgeTest, PurgeLower, PurgeMove, PurgeDone, Purging
<1> QED
  BY <1>1, <1>2 DEF Purge, AcceptStores, AcceptLoads

LEMMA StepRoom ==
  ASSUME TypeOK, BacklogInv, RoomInv, [Next]_vars
  PROVE  RoomInv'
<1> SUFFICES ASSUME Roomy' PROVE RoomInv'
  BY DEF RoomInv
<1>0. setup' = setup /\ Roomy
  BY SameSetup, SameParameters
<1>t. /\ \A p \in PollThreads : curr_indexes[p] \in Nat /\ Reserved(p) \in {1, 2}
      /\ Cardinality(Accepted) \in Nat
  <2>1. setup \in Setups /\ curr_indexes \in [PollThreads -> 0 .. setup.max_fds]
    BY DEF TypeOK
  <2>2. \A p \in PollThreads : curr_indexes[p] \in Nat
    BY <2>1, SetupFacts
  <2> QED
    BY <2>1, <2>2, SlotFacts, AcceptedFinite
<1>p. ASSUME PlainStep
      PROVE  /\ curr_indexes' = curr_indexes /\ pollPc'[0] # "place"
             /\ \A p \in PollThreads : ~Purging(p)'
  <2>1. \A p \in PollThreads : ~Purging(p)'
    BY <1>0, <1>p DEF PlainStep, PlainLabels, Purging, RoomInv, TypeOK
  <2>2. pollPc'[0] # "place"
    BY <1>0, <1>p, SlotFacts DEF PlainStep, PlainLabels, RoomInv, TypeOK
  <2> QED
    BY <1>p, <2>1, <2>2 DEF PlainStep
<1>1. CASE Accepted' = Accepted /\ PlainStep
  BY <1>0, <1>1, <1>p DEF RoomInv, Reserved
<1>2. ASSUME NEW r \in PollThreads, Accept(r) PROVE RoomInv'
  <2>1. Cardinality(Accepted') = Cardinality(Accepted) + 1
    BY <1>2, AcceptFacts, LeaveQueue
  <2>2. \A p \in PollThreads : curr_indexes'[p] \in {curr_indexes[p], curr_indexes[p] + 1}
    BY <1>2, <1>t DEF Accept, TypeOK
  <2>3. pollPc'[0] # "place" /\ \A p \in PollThreads : ~Purging(p)'
    <3>1. 0 \in PollThreads
      BY SlotFacts DEF TypeOK
    <3>2. \A p \in PollThreads : pollPc'[p] = pollPc[p] \/ pollPc'[p] = "inc"
      BY <1>2, AcceptFacts
    <3> QED
      BY <1>0, <3>1, <3>2 DEF RoomInv, Purging
  <2> QED
    BY <1>0, <1>t, <2>1, <2>2, <2>3 DEF RoomInv
<1>3. ASSUME Refuse, PlainStep PROVE RoomInv'
  <2>1. Cardinality(Accepted') = Cardinality(Accepted) + 1
    BY <1>3, LeaveQueue DEF Refuse, BacklogInv
  <2> QED
    BY <1>0, <1>t, <1>3, <1>p, <2>1 DEF RoomInv
<1>4. CASE UNCHANGED vars
  <2>1. PlainStep /\ Accepted' = Accepted
    BY <1>4 DEF PlainStep, vars, pollVars, walkVars, Accepted, clientVars
  <2> QED
    BY <1>1, <2>1
<1>5. ASSUME Next, \A r \in PollThreads : ~Accept(r) PROVE PlainStep
  BY <1>0, <1>5, RoomySteps
<1>6. ASSUME Next, \A r \in PollThreads : ~Accept(r), ~Refuse PROVE Accepted' = Accepted
  BY <1>0, <1>6, ClientBacklog, AcceptorBacklog, PollThreadBacklog, WorkerBacklog,
     SameAccepted, ConnectAccepted, RoomyPurge DEF Next
<1> QED
  BY <1>1, <1>2, <1>3, <1>4, <1>5, <1>6

-----------------------------------------------------------------------------
(* The hand-over of sockets between poll threads and workers.                 *)

ExclusiveInv == HandOverInv /\ RequestsExclusive

LEMMA InitExclusive == ASSUME Init PROVE ExclusiveInv
<1>1. TypeOK
  BY InitTypes
<1>2. HandOverInv
  BY DEF Init, HandOverInv, Busy
<1>3. RequestsExclusive
  BY DEF Init, RequestsExclusive, Busy
<1> QED
  BY <1>2, <1>3 DEF ExclusiveInv

(* The workers that remain busy keep their requests. *)
NoNewWork == \A v \in Workers : Busy(v)' => Busy(v) /\ req'[v] = req[v]

ArmedReports == \A p \in PollThreads, s \in Slots :
                  fdses'[p][s].revents = "in" => fdses'[p][s].events

(* A step that queues nothing and arms no slot in use. *)
QuietStep ==
  /\ setup' = setup /\ to_process' = to_process /\ NoNewWork
  /\ \A p \in PollThreads : curr_indexes'[p] >= curr_indexes[p]
  /\ \A p \in PollThreads : \A s \in Used(p) :
       fdses'[p][s].events = fdses[p][s].events
  /\ ArmedReports

LEMMA UsedGrows ==
  ASSUME TypeOK, setup' = setup,
         \A p \in PollThreads : curr_indexes'[p] \in Nat /\ curr_indexes'[p] >= curr_indexes[p]
  PROVE  \A p \in PollThreads : Used(p) \subseteq Used(p)'
<1>1. Slots' = Slots /\ Slots \subseteq Nat
  BY SameParameters, SlotFacts DEF TypeOK
<1>2. \A p \in PollThreads : curr_indexes[p] \in Nat
  BY SetupFacts DEF TypeOK
<1>3. ASSUME NEW p \in PollThreads, NEW s \in Used(p) PROVE s \in Used(p)'
  <2>1. s \in Slots /\ s \in Nat /\ s >= Reserved(p) /\ s < curr_indexes[p]
    BY <1>1 DEF Used
  <2>2. s < curr_indexes'[p]
    BY <1>2, <2>1
  <2> QED
    BY <1>1, <2>1, <2>2 DEF Used
<1> QED
  BY <1>3

LEMMA QuietKeepsExclusive ==
  ASSUME TypeOK, TypeOK', ExclusiveInv, QuietStep
  PROVE  ExclusiveInv'
<1> SUFFICES ASSUME Roomy' PROVE ExclusiveInv'
  BY DEF ExclusiveInv, HandOverInv, RequestsExclusive
<1>0. setup' = setup /\ Roomy /\ Slots' = Slots /\ Request' = Request
  BY SameParameters DEF QuietStep
<1>1. \A p \in PollThreads : curr_indexes'[p] \in Nat
  BY SetupFacts DEF TypeOK
<1>2. \A p \in PollThreads : Used(p) \subseteq Used(p)'
  BY <1>0, <1>1, UsedGrows DEF QuietStep
<1>3. \A r \in Request : InUse(r) => InUse(r)' /\ (Disarmed(r) => Disarmed(r)')
  <2> SUFFICES ASSUME NEW r \in Request, InUse(r)
               PROVE  InUse(r)' /\ (Disarmed(r) => Disarmed(r)')
    OBVIOUS
  <2>1. r.id \in PollThreads /\ r.slot \in Used(r.id)
    BY DEF InUse, Request
  <2>2. r \in Request' /\ r.slot \in Used(r.id)'
    BY <1>0, <1>2, <2>1
  <2> QED
    BY <2>1, <2>2 DEF InUse, Disarmed, QuietStep
<1>4. HandOverInv'
  BY <1>0, <1>3 DEF ExclusiveInv, HandOverInv, QuietStep, NoNewWork, ArmedReports, InUse
<1>5. RequestsExclusive'
  <2>1. \A i \in 1 .. Len(to_process) : Disarmed(to_process[i])'
    BY <1>0, <1>3 DEF ExclusiveInv, RequestsExclusive, HandOverInv, InUse, QuietStep, Disarmed
  <2>2. \A v \in Workers : Busy(v)' => Disarmed(req[v])'
    BY <1>0, <1>3 DEF ExclusiveInv, RequestsExclusive, HandOverInv, InUse, QuietStep, NoNewWork
  <2> QED
    BY <1>0, <2>1, <2>2
    DEF ExclusiveInv, RequestsExclusive, QuietStep, NoNewWork, SameSlot, Disarmed
<1> QED
  BY <1>4, <1>5 DEF ExclusiveInv

LEMMA ClientQuiet ==
  ASSUME TypeOK, ExclusiveInv, Roomy, NEW c \in Conns, Client(c)
  PROVE  QuietStep
<1>1. UNCHANGED <<setup, to_process, workPc, req, curr_indexes, fdses>>
  BY DEF Client, Connect, SendOperation, SendBody, Close, Reset, workVars
<1> QED
  BY <1>1, SetupFacts DEF QuietStep, NoNewWork, ArmedReports, Busy, ExclusiveInv, HandOverInv, TypeOK

LEMMA AcceptorQuiet ==
  ASSUME TypeOK, BacklogInv, RoomInv, ExclusiveInv, Roomy, Acceptor
  PROVE  QuietStep
<1>t. \A p \in PollThreads : curr_indexes[p] \in Nat
  BY SetupFacts DEF TypeOK
<1>1. CASE UNCHANGED <<setup, to_process, workPc, req, curr_indexes, fdses>>
  BY <1>1, <1>t DEF QuietStep, NoNewWork, ArmedReports, Busy, ExclusiveInv, HandOverInv
<1>2. ASSUME NEW r \in PollThreads, Accept(r) PROVE QuietStep
  <2>1. /\ UNCHANGED <<setup, to_process, workPc, req>>
        /\ curr_indexes[r] \in Slots
        /\ curr_indexes' = [curr_indexes EXCEPT ![r] = @ + 1]
    BY <1>2, AcceptFacts DEF workVars
  <2>2. PICK f \in Fds : fdses' = [fdses EXCEPT ![r][curr_indexes[r]].fd = f,
                                               ![r][curr_indexes[r]].events = TRUE]
    BY <1>2 DEF Accept
  <2>3. /\ SameElsewhere(r, curr_indexes[r])
        /\ fdses'[r][curr_indexes[r]].events = TRUE
    BY <2>1, <2>2, SetWatched
  <2>5. ArmedReports
    BY <2>3 DEF ArmedReports, SameElsewhere, ExclusiveInv, HandOverInv
  <2>6. \A p \in PollThreads : \A s \in Used(p) : fdses'[p][s] = fdses[p][s]
    BY <1>t, <2>3, SlotFacts DEF SameElsewhere, Used, TypeOK
  <2>7. \A p \in PollThreads : curr_indexes'[p] >= curr_indexes[p]
    BY <1>t, <2>1 DEF TypeOK
  <2> QED
    BY <2>1, <2>5, <2>6, <2>7 DEF QuietStep, NoNewWork, Busy
<1>3. ~AcceptStores /\ \A r \in PollThreads : ~AcceptLoads(r)
  BY RoomyPurge, SlotFacts DEF TypeOK
<1> QED
  BY <1>1, <1>2, <1>3 DEF Acceptor, Refuse, CountConnection, AcceptFails, Die, workVars

LEMMA PollThreadQuiet ==
  ASSUME TypeOK, RoomInv, ExclusiveInv, Roomy, NEW p \in PollThreads, PollThread(p)
  PROVE  QuietStep \/ ScanReadable(p)
<1>t. \A q \in PollThreads : curr_indexes[q] \in Nat
  BY SetupFacts DEF TypeOK
<1>1. CASE UNCHANGED <<setup, to_process, workPc, req, curr_indexes, fdses>>
  BY <1>1, <1>t DEF QuietStep, NoNewWork, ArmedReports, Busy, ExclusiveInv, HandOverInv
<1>2. CASE PollPipe(p) \/ Poll(p)
  <2>1. /\ UNCHANGED <<setup, to_process, workPc, req, curr_indexes>>
        /\ fdses' = [fdses EXCEPT ![p] = Polled(p)]
    BY <1>2 DEF PollPipe, Poll, workVars
  <2>2. \A q \in PollThreads, t \in Slots :
          /\ fdses'[q][t].events = fdses[q][t].events
          /\ fdses'[q][t].revents = IF q = p /\ t \in Used(p)
               THEN Revents(fdses[q][t]) ELSE fdses[q][t].revents
    BY <2>1, SetPolled
  <2>3. \A e \in PollFd : Revents(e) = "in" => e.events
    BY DEF Revents
  <2>4. ArmedReports
    BY <2>2, <2>3, FdsesFacts DEF ArmedReports, ExclusiveInv, HandOverInv
  <2>5. \A q \in PollThreads : \A s \in Used(q) : fdses'[q][s].events = fdses[q][s].events
    BY <2>2 DEF Used
  <2> QED
    BY <1>t, <2>1, <2>4, <2>5 DEF QuietStep, NoNewWork, Busy
<1>3. CASE CloseHup(p)
  <2>1. /\ UNCHANGED <<setup, to_process, workPc, req, curr_indexes>>
        /\ fdses' = [fdses EXCEPT ![p][pollAt[p]].fd = NoFd, ![p][pollAt[p]].revents = "none"]
        /\ pollAt[p] \in Slots
    BY <1>3 DEF CloseHup, workVars, TypeOK
  <2>2. SameElsewhere(p, pollAt[p])
    BY <2>1, SetErased
  <2>3. /\ fdses'[p][pollAt[p]].events = fdses[p][pollAt[p]].events
        /\ fdses'[p][pollAt[p]].revents = "none"
    BY <2>1, SetErased
  <2>4. ArmedReports
    BY <2>2, <2>3 DEF ArmedReports, SameElsewhere, ExclusiveInv, HandOverInv
  <2>5. \A q \in PollThreads : \A s \in Used(q) : fdses'[q][s].events = fdses[q][s].events
    BY <2>2, <2>3 DEF SameElsewhere, Used
  <2>6. NoNewWork /\ \A q \in PollThreads : curr_indexes'[q] >= curr_indexes[q]
    BY <1>t, <2>1 DEF NoNewWork, Busy
  <2> QED
    BY <2>1, <2>4, <2>5, <2>6 DEF QuietStep
<1>4. CASE Purge(p)
  BY <1>1, <1>4, RoomyPurge DEF Purge, workVars
<1> QED
  BY <1>1, <1>2, <1>3, <1>4, RoomyPurge
  DEF PollThread, WalkAction, PollTimeout, ScanHup, ScanDone, workVars

(* A slot is queued once: the ones in the queue or at a worker are not armed, *)
(* the one that is reported readable is.                                      *)
LEMMA ScanReadableExclusive ==
  ASSUME TypeOK, ExclusiveInv, NEW p \in PollThreads, ScanReadable(p)
  PROVE  ExclusiveInv'
<1> SUFFICES ASSUME Roomy' PROVE ExclusiveInv'
  BY DEF ExclusiveInv, HandOverInv, RequestsExclusive
<1>0. /\ UNCHANGED <<setup, curr_indexes, workPc, req>>
      /\ Roomy /\ Slots' = Slots /\ Request' = Request
  BY SameParameters DEF ScanReadable, workVars
<1>1. PICK s \in Slots : NextReported(p, s) /\ fdses[p][s].revents = "in" /\ process(p, s)
  BY DEF ScanReadable
<1> DEFINE new == [sock |-> fdses[p][s].fd, id |-> p, slot |-> s,
                   conn |-> file[fdses[p][s].fd]]
<1>2. s \in Used(p) /\ fdses[p][s].events /\ fdses[p][s].fd \in Fds
  <2>1. s \in Used(p) /\ fdses[p][s].fd # NoFd
    BY <1>1 DEF NextReported, Reported
  <2>2. fdses[p][s].fd \in Fds
    BY <2>1, FdsesFacts DEF PollFd
  <2>3. fdses[p][s].events
    BY <1>0, <1>1, Zenon DEF ExclusiveInv, HandOverInv
  <2> QED
    BY <2>1, <2>2, <2>3
<1>3. new \in Request /\ new.id = p /\ new.slot = s
  BY <1>2 DEF Request, TypeOK
<1>4. to_process' = Append(to_process, new)
  BY <1>1 DEF process
<1> HIDE DEF new
<1>5. /\ to_process \in Seq(Request) /\ Len(to_process) \in Nat
      /\ Len(to_process') = Len(to_process) + 1
      /\ to_process'[Len(to_process) + 1] = new
      /\ \A i \in 1 .. Len(to_process) : to_process'[i] = to_process[i]
  BY <1>3, <1>4, AppendFacts DEF TypeOK
<1>6. \A i \in 1 .. Len(to_process') : i \in 1 .. Len(to_process) \/ i = Len(to_process) + 1
  BY <1>5
<1>7. SameElsewhere(p, s)
  BY <1>1, SetQueued DEF process
<1>8. fdses'[p][s].events = FALSE /\ fdses'[p][s].revents = "none"
  BY <1>1, SetQueued DEF process
<1>9. \A r \in Request : ~fdses[r.id][r.slot].events =>
        ~fdses'[r.id][r.slot].events /\ (r.id # p \/ r.slot # s)
  <2> SUFFICES ASSUME NEW r \in Request, ~fdses[r.id][r.slot].events
               PROVE  ~fdses'[r.id][r.slot].events /\ (r.id # p \/ r.slot # s)
    OBVIOUS
  <2>1. r.id \in PollThreads /\ r.slot \in Slots
    BY DEF Request
  <2>2. r.id # p \/ r.slot # s
    BY <1>2
  <2> QED
    BY <1>7, <2>1, <2>2 DEF SameElsewhere
<1>10. \A i \in 1 .. Len(to_process) :
         InUse(to_process[i]) /\ ~fdses[to_process[i].id][to_process[i].slot].events
  BY <1>0 DEF ExclusiveInv, HandOverInv, RequestsExclusive, Disarmed
<1>11. \A v \in Workers : workPc[v] # "wait" =>
         InUse(req[v]) /\ ~fdses[req[v].id][req[v].slot].events
  BY <1>0 DEF ExclusiveInv, HandOverInv, RequestsExclusive, Disarmed, Busy
<1>12. InUse(new)
  BY <1>2, <1>3 DEF InUse
<1>13. HandOverInv'
  <2>1. \A i \in 1 .. Len(to_process') :
          to_process'[i] \in Request /\ to_process'[i].slot \in Used(to_process'[i].id)
    BY <1>5, <1>6, <1>10, <1>12 DEF InUse
  <2>2. ArmedReports
    BY <1>0, <1>7, <1>8 DEF ArmedReports, SameElsewhere, ExclusiveInv, HandOverInv
  <2> QED
    BY <1>0, <1>11, <2>1, <2>2 DEF HandOverInv, ArmedReports, InUse, Busy, Used
<1>14. RequestsExclusive'
  <2>1. \A i \in 1 .. Len(to_process') :
          ~fdses'[to_process'[i].id][to_process'[i].slot].events
    BY <1>3, <1>5, <1>6, <1>8, <1>9, <1>10 DEF InUse
  <2>2. \A i, j \in 1 .. Len(to_process') : i # j => ~SameSlot(to_process'[i], to_process'[j])
    <3>1. \A i, j \in 1 .. Len(to_process) : i # j => ~SameSlot(to_process[i], to_process[j])
      BY <1>0 DEF ExclusiveInv, RequestsExclusive
    <3>2. \A i \in 1 .. Len(to_process) :
            ~SameSlot(to_process[i], new) /\ ~SameSlot(new, to_process[i])
      BY <1>3, <1>9, <1>10 DEF SameSlot, InUse
    <3> QED
      BY <1>5, <1>6, <3>1, <3>2
  <2>3. \A i \in 1 .. Len(to_process'), v \in Workers :
          workPc[v] # "wait" => ~SameSlot(to_process'[i], req[v])
    <3>1. \A i \in 1 .. Len(to_process), v \in Workers :
            workPc[v] # "wait" => ~SameSlot(to_process[i], req[v])
      BY <1>0 DEF ExclusiveInv, RequestsExclusive, Busy
    <3>2. \A v \in Workers : workPc[v] # "wait" => ~SameSlot(new, req[v])
      BY <1>3, <1>9, <1>11 DEF SameSlot, InUse
    <3> QED
      BY <1>5, <1>6, <3>1, <3>2
  <2>4. \A v \in Workers : workPc[v] # "wait" =>
          /\ ~fdses'[req[v].id][req[v].slot].events
          /\ \A u \in Workers \ {v} : workPc[u] # "wait" => ~SameSlot(req[v], req[u])
    BY <1>0, <1>9, <1>11 DEF ExclusiveInv, RequestsExclusive, Busy, InUse
  <2> QED
    BY <1>0, <2>1, <2>2, <2>3, <2>4 DEF RequestsExclusive, Disarmed, SameSlot, Busy
<1> QED
  BY <1>13, <1>14 DEF ExclusiveInv

(* The worker takes the request from the queue: a slot still has one. *)
LEMMA DequeueExclusive ==
  ASSUME TypeOK, ExclusiveInv, NEW w \in Workers, Dequeue(w)
  PROVE  ExclusiveInv'
<1> SUFFICES ASSUME Roomy' PROVE ExclusiveInv'
  BY DEF ExclusiveInv, HandOverInv, RequestsExclusive
<1>0. /\ UNCHANGED <<setup, curr_indexes, fdses>>
      /\ Roomy /\ Slots' = Slots /\ Request' = Request
      /\ to_process # <<>> /\ to_process' = Tail(to_process)
      /\ workPc[w] = "wait"
  BY SameParameters DEF Dequeue
<1>1. /\ Head(to_process) = to_process[1] /\ 1 \in 1 .. Len(to_process)
      /\ Len(to_process) \in Nat /\ Len(to_process') = Len(to_process) - 1
      /\ \A i \in 1 .. Len(to_process') :
           /\ to_process'[i] = to_process[i + 1] /\ i + 1 \in 1 .. Len(to_process)
           /\ i + 1 # 1
  BY <1>0, QueueFacts DEF TypeOK
<1>2. \A v \in Workers : /\ req'[v] = IF v = w THEN to_process[1] ELSE req[v]
                         /\ workPc'[v] = IF v = w THEN "op" ELSE workPc[v]
  BY <1>1 DEF Dequeue, WorkerAt, TypeOK
<1>3. /\ \A i \in 1 .. Len(to_process) : /\ InUse(to_process[i])
                                         /\ ~fdses[to_process[i].id][to_process[i].slot].events
      /\ \A v \in Workers : workPc[v] # "wait" =>
           InUse(req[v]) /\ ~fdses[req[v].id][req[v].slot].events
  BY <1>0 DEF ExclusiveInv, HandOverInv, RequestsExclusive, Disarmed, Busy
<1>4. /\ \A i, j \in 1 .. Len(to_process) : i # j => ~SameSlot(to_process[i], to_process[j])
      /\ \A i \in 1 .. Len(to_process), v \in Workers :
           workPc[v] # "wait" => ~SameSlot(to_process[i], req[v])
      /\ \A u, v \in Workers : u # v /\ workPc[u] # "wait" /\ workPc[v] # "wait" =>
           ~SameSlot(req[u], req[v])
  BY <1>0 DEF ExclusiveInv, RequestsExclusive, Busy
<1>5. HandOverInv'
  <2>1. /\ \A i \in 1 .. Len(to_process') : InUse(to_process'[i])
        /\ \A v \in Workers : workPc'[v] # "wait" => InUse(req'[v])
    BY <1>1, <1>2, <1>3
  <2>2. \A p \in PollThreads, s \in Slots :
          fdses'[p][s].revents = "in" => fdses'[p][s].events
    BY <1>0 DEF ExclusiveInv, HandOverInv
  <2> QED
    BY <1>0, <2>1, <2>2 DEF HandOverInv, InUse, Busy, Used
<1>6. RequestsExclusive'
  <2>1. \A i \in 1 .. Len(to_process') :
          ~fdses[to_process'[i].id][to_process'[i].slot].events
    BY <1>1, <1>3
  <2>2. \A i, j \in 1 .. Len(to_process') : i # j => ~SameSlot(to_process'[i], to_process'[j])
    BY <1>1, <1>4
  <2>3. \A i \in 1 .. Len(to_process'), v \in Workers :
          workPc'[v] # "wait" => ~SameSlot(to_process'[i], req'[v])
    BY <1>1, <1>2, <1>4
  <2>4. \A v \in Workers : workPc'[v] # "wait" =>
          ~fdses[req'[v].id][req'[v].slot].events
    BY <1>1, <1>2, <1>3
  <2>5. \A u, v \in Workers : u # v /\ workPc'[u] # "wait" /\ workPc'[v] # "wait" =>
          ~SameSlot(req'[u], req'[v])
    BY <1>1, <1>2, <1>4 DEF SameSlot
  <2> QED
    BY <1>0, <2>1, <2>2, <2>3, <2>4, <2>5 DEF RequestsExclusive, Disarmed, SameSlot, Busy
<1> QED
  BY <1>5, <1>6 DEF ExclusiveInv

(* The slot of a busy worker, and what giving it up leaves alone. *)
LEMMA NextIterationWork ==
  ASSUME TypeOK, NEW w \in Workers, NextIteration(w)
  PROVE  /\ NoNewWork
         /\ \A v \in Workers : workPc'[v] # "wait" => v # w
  BY DEF TypeOK, NextIteration, WorkerAt, NoNewWork, Busy

LEMMA WorkerQuiet ==
  ASSUME TypeOK, ExclusiveInv, Roomy, NEW w \in Workers, Worker(w)
  PROVE  QuietStep \/ Dequeue(w) \/ Rearm(w)
<1>t. \A q \in PollThreads : curr_indexes[q] \in Nat
  BY SetupFacts DEF TypeOK
<1>l. ASSUME NEW label, WorkerAt(w, label), workPc[w] # "wait", req' = req
      PROVE  NoNewWork
  BY <1>l DEF NoNewWork, Busy, WorkerAt, TypeOK
<1>1. CASE UNCHANGED <<setup, to_process, curr_indexes, fdses>> /\ NoNewWork
  BY <1>1, <1>t DEF QuietStep, ArmedReports, ExclusiveInv, HandOverInv
<1>2. CASE ReadOperation(w)
  BY <1>1, <1>l, <1>2 DEF ReadOperation
<1>3. CASE UnknownOperation(w) \/ ReadThrows(w)
  BY <1>1, <1>3 DEF UnknownOperation, ReadThrows, Die, workVars, NoNewWork, Busy
<1>4. CASE ReadBody(w)
  BY <1>1, <1>l, <1>4 DEF ReadBody
<1>5. CASE EofInOperation(w)
  BY <1>1, <1>l, <1>5 DEF EofInOperation, BeginFailedRead
<1>6. CASE EofInBody(w)
  <2>1. UNCHANGED <<setup, to_process, curr_indexes, fdses, req>> /\ workPc[w] # "wait"
    BY <1>6 DEF EofInBody, BeginFailedRead, Die, workVars
  <2>2. workPc' = workPc \/ \E label \in {"failBody", "reply", "rearm"} : WorkerAt(w, label)
    BY <1>6 DEF EofInBody, BeginFailedRead, Die, workVars
  <2>3. NoNewWork
    BY <1>l, <2>1, <2>2 DEF NoNewWork, Busy
  <2> QED
    BY <1>1, <2>1, <2>3
<1>7. CASE EndFailedRead(w)
  <2>1. /\ UNCHANGED <<setup, to_process, curr_indexes>> /\ workPc[w] # "wait"
        /\ fdses' = [fdses EXCEPT ![req[w].id][req[w].slot].fd = NoFd,
                                  ![req[w].id][req[w].slot].revents = "none"]
    BY <1>7 DEF EndFailedRead
  <2>2. NoNewWork
    BY <1>7, <1>l, <2>1, NextIterationWork DEF EndFailedRead
  <2>3. req[w].id \in PollThreads /\ req[w].slot \in Slots
    BY RequestSlot DEF TypeOK
  <2>4. SameElsewhere(req[w].id, req[w].slot)
    BY <2>1, <2>3, SetErased
  <2>5. LET e == fdses'[req[w].id][req[w].slot] IN
        e.events = fdses[req[w].id][req[w].slot].events /\ e.revents = "none"
    BY <2>1, <2>3, SetErased
  <2>6. ArmedReports
    BY <2>4, <2>5 DEF ArmedReports, SameElsewhere, ExclusiveInv, HandOverInv
  <2>7. \A q \in PollThreads : \A s \in Used(q) : fdses'[q][s].events = fdses[q][s].events
    BY <2>4, <2>5 DEF SameElsewhere, Used
  <2>8. \A q \in PollThreads : curr_indexes'[q] >= curr_indexes[q]
    BY <1>t, <2>1
  <2> QED
    BY <2>1, <2>2, <2>6, <2>7, <2>8 DEF QuietStep
<1>8. CASE Reply(w)
  BY <1>1, <1>l, <1>8 DEF Reply
<1>9. CASE ReplyFails(w)
  <2>1. UNCHANGED <<setup, to_process, curr_indexes, fdses, req>> /\ workPc[w] # "wait"
    BY <1>9 DEF ReplyFails, Die, workVars
  <2>2. workPc' = workPc \/ WorkerAt(w, "rearm")
    BY <1>9 DEF ReplyFails, Die, workVars
  <2>3. NoNewWork
    BY <1>l, <2>1, <2>2 DEF NoNewWork, Busy
  <2> QED
    BY <1>1, <2>1, <2>3
<1> QED
  BY <1>2, <1>3, <1>4, <1>5, <1>6, <1>7, <1>8, <1>9 DEF Worker

(* The slot is armed again when the request is gone. *)
LEMMA RearmExclusive ==
  ASSUME TypeOK, ExclusiveInv, NEW w \in Workers, Rearm(w)
  PROVE  ExclusiveInv'
<1> SUFFICES ASSUME Roomy' PROVE ExclusiveInv'
  BY DEF ExclusiveInv, HandOverInv, RequestsExclusive
<1>0. /\ UNCHANGED <<setup, curr_indexes, to_process>>
      /\ Roomy /\ Slots' = Slots /\ Request' = Request
      /\ workPc[w] # "wait"
  BY SameParameters DEF Rearm
<1>1. req[w].id \in PollThreads /\ req[w].slot \in Slots
  BY RequestSlot DEF TypeOK
<1>2. SameElsewhere(req[w].id, req[w].slot)
  BY <1>1, SetArmed DEF Rearm
<1>3. /\ fdses'[req[w].id][req[w].slot].events = TRUE
      /\ fdses'[req[w].id][req[w].slot].revents = fdses[req[w].id][req[w].slot].revents
  BY <1>1, SetArmed DEF Rearm
<1>4. \A v \in Workers : workPc'[v] # "wait" =>
        v # w /\ workPc[v] # "wait" /\ req'[v] = req[v]
  BY NextIterationWork DEF Rearm, NoNewWork, Busy
<1>5. /\ \A i \in 1 .. Len(to_process) : InUse(to_process[i]) /\ ~SameSlot(to_process[i], req[w])
      /\ \A v \in Workers : workPc'[v] # "wait" => InUse(req[v]) /\ ~SameSlot(req[v], req[w])
  BY <1>0, <1>4 DEF ExclusiveInv, HandOverInv, RequestsExclusive, Busy
<1>6. \A r \in Request : InUse(r) /\ ~SameSlot(r, req[w]) => fdses'[r.id][r.slot] = fdses[r.id][r.slot]
  BY <1>2 DEF SameElsewhere, SameSlot, Request
<1>7. HandOverInv'
  <2>1. ArmedReports
    BY <1>0, <1>2, <1>3 DEF ArmedReports, SameElsewhere, ExclusiveInv, HandOverInv
  <2> QED
    BY <1>0, <1>4, <1>5, <2>1 DEF HandOverInv, ArmedReports, InUse, Busy, Used
<1>8. RequestsExclusive'
  <2>1. \A i \in 1 .. Len(to_process) :
          ~fdses'[to_process[i].id][to_process[i].slot].events
    BY <1>0, <1>5, <1>6 DEF ExclusiveInv, RequestsExclusive, Disarmed, InUse
  <2>2. \A v \in Workers : workPc'[v] # "wait" => ~fdses'[req[v].id][req[v].slot].events
    BY <1>0, <1>4, <1>5, <1>6 DEF ExclusiveInv, RequestsExclusive, Disarmed, InUse, Busy
  <2> QED
    BY <1>0, <1>4, <2>1, <2>2 DEF ExclusiveInv, RequestsExclusive, Disarmed, SameSlot, Busy
<1> QED
  BY <1>7, <1>8 DEF ExclusiveInv

LEMMA StepExclusive ==
  ASSUME TypeOK, TypeOK', BacklogInv, RoomInv, ExclusiveInv, [Next]_vars
  PROVE  ExclusiveInv'
<1> SUFFICES ASSUME Roomy' PROVE ExclusiveInv'
  BY DEF ExclusiveInv, HandOverInv, RequestsExclusive
<1>0. setup' = setup /\ Roomy
  BY SameSetup, SameParameters
<1>1. CASE QuietStep
  BY <1>1, QuietKeepsExclusive
<1>2. CASE UNCHANGED vars
  <2>1. QuietStep
    <3>1. \A p \in PollThreads : curr_indexes[p] \in Nat
      BY SetupFacts DEF TypeOK
    <3> QED
      BY <1>0, <1>2, <3>1 DEF vars, workVars, QuietStep, NoNewWork, ArmedReports, Busy,
                              ExclusiveInv, HandOverInv
  <2> QED
    BY <2>1, QuietKeepsExclusive
<1> QED
  BY <1>0, <1>1, <1>2, ClientQuiet, AcceptorQuiet, PollThreadQuiet, WorkerQuiet,
     ScanReadableExclusive, DequeueExclusive, RearmExclusive DEF Next

ServerInv == TypeOK /\ BacklogInv /\ WalkInv /\ RoomInv /\ ExclusiveInv

LEMMA ServerInvariant == Spec => []ServerInv
<1>1. Init => ServerInv
  BY InitTypes, InitRoom, InitExclusive DEF ServerInv
<1>2. ServerInv /\ [Next]_vars => ServerInv'
  BY StepType, StepBacklog, StepWalk, StepRoom, StepExclusive DEF ServerInv
<1> QED
  BY <1>1, <1>2, PTL DEF Spec

(* One request per slot: poll threads and workers write the pollfds without a *)
(* lock, and yet no two workers ever serve one connection, whatever the       *)
(* clients do.                                                                *)
THEOREM OneRequestPerSlot == Spec => []RequestsExclusive
<1>1. ServerInv => RequestsExclusive
  BY DEF ServerInv, ExclusiveInv
<1> QED
  BY <1>1, ServerInvariant, PTL

-----------------------------------------------------------------------------
(* The words of a connection.                                                 *)

AllOps == {"gradient", "sparse", "mfsparse", "full", "info", "kill"}
WordSeq == Seq(AllOps \union {"body"})

LEMMA WordsSendOperation ==
  ASSUME NEW q \in WordSeq, NEW b \in BOOLEAN, NEW o \in AllOps, Words(q, "idle", b)
  PROVE  Words(Append(q, o), IF HasBody(o) THEN o ELSE AfterRequest(o), b)
<1> DEFINE r == Append(q, o)
           k == IF HasBody(o) THEN o ELSE AfterRequest(o)
           n == Len(q)
<1>1. /\ n \in Nat /\ Len(r) = n + 1 /\ r[n + 1] = o
      /\ \A i \in 1 .. n : r[i] = q[i]
  BY AppendFacts DEF WordSeq
<1>2. /\ o # "body" /\ o \notin {"idle", "await"}
      /\ k = IF HasBody(o) THEN o ELSE IF HasReply(o) THEN "await" ELSE "idle"
  BY DEF AllOps, AfterRequest
<1> HIDE DEF r, k
<1>3. \A i \in 1 .. n : ~HasReply(q[i])
  BY DEF Words, HasBody
<1>4. n > 0 => ~HasBody(q[n])
  BY DEF Words, HasBody
<1>5. \A i \in 1 .. (n + 1) : i \in 1 .. n \/ i = n + 1
  BY <1>1
<1>6. n + 1 > 0 /\ r[1] = "body" => b
  BY <1>1, <1>2 DEF Words
<1>7. \A i \in 2 .. (n + 1) : r[i] = "body" <=> HasBody(r[i - 1])
  <2> SUFFICES ASSUME NEW i \in 2 .. (n + 1) PROVE r[i] = "body" <=> HasBody(r[i - 1])
    OBVIOUS
  <2>1. CASE i \in 2 .. n
    BY <1>1, <2>1 DEF Words
  <2>2. CASE i = n + 1 /\ n > 0
    BY <1>1, <1>2, <1>4, <2>2
  <2> QED
    BY <1>1, <2>1, <2>2
<1>8. \A i \in 1 .. (n + 1) : HasReply(r[i]) =>
        i = n + 1 /\ k = IF HasBody(r[i]) THEN r[i] ELSE "await"
  BY <1>1, <1>2, <1>3, <1>5
<1>9. n + 1 > 0 /\ (HasBody(o) => k = o) /\ (k \notin {"idle", "await"} => HasBody(k) /\ k = o)
  BY <1>1, <1>2
<1> QED
  BY <1>1, <1>6, <1>7, <1>8, <1>9 DEF Words, r, k

LEMMA WordsSendBody ==
  ASSUME NEW q \in WordSeq, NEW b \in BOOLEAN, NEW k \in AllOps, Words(q, k, b)
  PROVE  Words(Append(q, "body"), AfterRequest(k), b)
<1> DEFINE r == Append(q, "body")
           n == Len(q)
           j == AfterRequest(k)
<1>1. /\ n \in Nat /\ Len(r) = n + 1 /\ r[n + 1] = "body"
      /\ \A i \in 1 .. n : r[i] = q[i]
  BY AppendFacts DEF WordSeq
<1>2. /\ k \notin {"idle", "await"} /\ HasBody(k) /\ (n > 0 => k = q[n]) /\ (n = 0 => b)
  BY <1>1 DEF AllOps, Words
<1>3. j \in {"idle", "await"} /\ (HasReply(k) => j = "await") /\ ~HasBody("body") /\ ~HasReply("body")
  BY DEF AfterRequest, HasBody, HasReply
<1> HIDE DEF r, j
<1>4. r[1] = "body" => b
  BY <1>1, <1>2 DEF Words
<1>5. \A i \in 2 .. (n + 1) : r[i] = "body" <=> HasBody(r[i - 1])
  <2> SUFFICES ASSUME NEW i \in 2 .. (n + 1) PROVE r[i] = "body" <=> HasBody(r[i - 1])
    OBVIOUS
  <2>1. CASE i \in 2 .. n
    BY <1>1, <2>1 DEF Words
  <2>2. CASE i = n + 1 /\ n > 0
    BY <1>1, <1>2, <2>2
  <2> QED
    BY <1>1, <2>1, <2>2
<1>6. \A i \in 1 .. (n + 1) : HasReply(r[i]) => i = (n + 1) - 1 /\ HasBody(r[i]) /\ j = "await"
  <2> SUFFICES ASSUME NEW i \in 1 .. (n + 1), HasReply(r[i])
               PROVE  i = (n + 1) - 1 /\ HasBody(r[i]) /\ j = "await"
    OBVIOUS
  <2>1. i \in 1 .. n /\ r[i] = q[i]
    BY <1>1, <1>3
  <2>2. i = n /\ k = q[i]
    BY <1>2, <2>1 DEF Words
  <2> QED
    BY <1>1, <1>2, <1>3, <2>1, <2>2
<1> QED
  BY <1>1, <1>3, <1>4, <1>5, <1>6 DEF Words, r, j

LEMMA TailShift ==
  ASSUME NEW q \in WordSeq, q # <<>>
  PROVE  /\ Head(q) = q[1] /\ Len(q) \in Nat /\ Len(q) > 0
         /\ q[1] \in AllOps \union {"body"}
         /\ Tail(q) \in WordSeq /\ Len(Tail(q)) = Len(q) - 1
         /\ \A i \in 1 .. (Len(q) - 1) : Tail(q)[i] = q[i + 1]
         /\ Tail(q) = <<>> <=> Len(q) = 1
<1>1. /\ Head(q) = q[1] /\ Head(q) \in AllOps \union {"body"}
      /\ Len(q) \in Nat /\ Len(q) > 0
      /\ Tail(q) \in WordSeq /\ Len(Tail(q)) = Len(q) - 1
      /\ \A i \in 1 .. Len(Tail(q)) : Tail(q)[i] = q[i + 1]
  BY QueueFacts DEF WordSeq
<1>2. \A r \in WordSeq : r = <<>> <=> Len(r) = 0
  BY DEF WordSeq
<1> QED
  BY <1>1, <1>2

(* A word is read: the rest is as before, for the body that is due next. *)
LEMMA WordsRead ==
  ASSUME NEW q \in WordSeq, NEW b \in BOOLEAN, NEW k, q # <<>>, Words(q, k, b)
  PROVE  Words(Tail(q), k, HasBody(q[1]))
<1> DEFINE r == Tail(q)
           n == Len(q)
<1>1. /\ n \in Nat /\ n > 0 /\ Len(r) = n - 1
      /\ \A i \in 1 .. (n - 1) : r[i] = q[i + 1]
  BY TailShift
<1> HIDE DEF r
<1>2. n - 1 > 0 /\ r[1] = "body" => HasBody(q[1])
  BY <1>1 DEF Words
<1>3. ASSUME NEW i \in 2 .. (n - 1) PROVE r[i] = "body" <=> HasBody(r[i - 1])
  <2>1. \A j \in 2 .. n : q[j] = "body" <=> HasBody(q[j - 1])
    BY DEF Words
  <2>2. /\ i \in 1 .. (n - 1) /\ i - 1 \in 1 .. (n - 1) /\ i + 1 \in 2 .. n
        /\ (i - 1) + 1 = i /\ (i + 1) - 1 = i
    BY <1>1
  <2>3. r[i] = q[i + 1] /\ r[i - 1] = q[i]
    BY <1>1, <2>2
  <2> QED
    BY <2>1, <2>2, <2>3
<1>4. k \notin {"idle", "await"} => HasBody(k) /\ IF n - 1 > 0 THEN k = r[n - 1] ELSE HasBody(q[1])
  BY <1>1 DEF Words
<1>5. n - 1 > 0 /\ HasBody(r[n - 1]) => k = r[n - 1]
  BY <1>1 DEF Words
<1>6. \A i \in 1 .. (n - 1) : HasReply(r[i]) =>
       \/ i = n - 1 /\ k = IF HasBody(r[i]) THEN r[i] ELSE "await"
       \/ i = (n - 1) - 1 /\ HasBody(r[i]) /\ k = "await"
  <2> SUFFICES ASSUME NEW i \in 1 .. (n - 1), HasReply(r[i])
               PROVE  \/ i = n - 1 /\ k = IF HasBody(r[i]) THEN r[i] ELSE "await"
                      \/ i = (n - 1) - 1 /\ HasBody(r[i]) /\ k = "await"
    OBVIOUS
  <2>1. i + 1 \in 1 .. n /\ r[i] = q[i + 1]
    BY <1>1
  <2>2. \/ i + 1 = n /\ k = IF HasBody(q[i + 1]) THEN q[i + 1] ELSE "await"
        \/ i + 1 = n - 1 /\ HasBody(q[i + 1]) /\ k = "await"
    BY <2>1 DEF Words
  <2> QED
    BY <1>1, <2>1, <2>2
<1> QED
  BY <1>1, <1>2, <1>3, <1>4, <1>5, <1>6 DEF Words, r

(* What the operation that is read first says about the rest. *)
LEMMA WordsFirst ==
  ASSUME NEW q \in WordSeq, NEW k, q # <<>>, Words(q, k, FALSE)
  PROVE  /\ q[1] \in AllOps
         /\ HasBody(q[1]) => IF Tail(q) = <<>> THEN k = q[1] ELSE Tail(q)[1] = "body"
         /\ HasBody(q[1]) /\ HasReply(q[1]) /\ Tail(q) # <<>> => Len(Tail(q)) = 1 /\ k = "await"
         /\ ~HasBody(q[1]) /\ HasReply(q[1]) => Tail(q) = <<>> /\ k = "await"
<1> DEFINE r == Tail(q)
           n == Len(q)
<1>1. /\ n \in Nat /\ n > 0 /\ Len(r) = n - 1 /\ q[1] \in AllOps \union {"body"}
      /\ \A i \in 1 .. (n - 1) : r[i] = q[i + 1]
      /\ r = <<>> <=> n = 1
  BY TailShift
<1> HIDE DEF r
<1>2. q[1] \in AllOps
  BY <1>1 DEF Words
<1>3. HasBody(q[1]) => IF r = <<>> THEN k = q[1] ELSE r[1] = "body"
  BY <1>1 DEF Words
<1>4. HasReply(q[1]) => \/ 1 = n /\ k = IF HasBody(q[1]) THEN q[1] ELSE "await"
                        \/ 1 = n - 1 /\ HasBody(q[1]) /\ k = "await"
  BY <1>1 DEF Words
<1> QED
  BY <1>1, <1>2, <1>3, <1>4 DEF r

-----------------------------------------------------------------------------
(* Orderly clients: frames.                                                   *)

OrderlyState == /\ ServerInv /\ Orderly /\ Roomy
                /\ DescriptorInv /\ OwnInv /\ StreamInv

Failing == {"failOp", "failBody"}

(* A request in the queue or at a worker that still serves it. *)
Live(r) == \/ \E i \in 1 .. Len(to_process) : r = to_process[i]
           \/ \E w \in Workers : workPc[w] \in Serving /\ r = req[w]

LEMMA LiveFacts ==
  ASSUME OrderlyState, NEW r, Live(r)
  PROVE  /\ r \in Request /\ r.id \in PollThreads /\ r.slot \in Slots /\ r.sock \in Fds
         /\ Own(r) /\ r.conn \in Conns /\ Holds(r.id, r.slot, r.sock)
<1>1. InUse(r) /\ Own(r)
  BY DEF OrderlyState, ServerInv, ExclusiveInv, HandOverInv, OwnInv, Live, Busy, Serving
<1>2. r \in Request /\ r.id \in PollThreads /\ r.slot \in Slots /\ r.sock \in Fds /\ r.conn \in Conns
  BY <1>1 DEF InUse, Request, Own
<1>3. \A v \in Workers : workPc[v] \in Failing => ~SameSlot(r, req[v])
  <2>1. CASE \E i \in 1 .. Len(to_process) : r = to_process[i]
    BY <2>1 DEF OrderlyState, ServerInv, ExclusiveInv, RequestsExclusive, Busy, Failing
  <2>2. CASE \E w \in Workers : workPc[w] \in Serving /\ r = req[w]
    BY <2>2 DEF OrderlyState, ServerInv, ExclusiveInv, RequestsExclusive, Busy, Failing, Serving
  <2> QED
    BY <2>1, <2>2 DEF Live
<1>4. ~Erasing(r.id, r.slot)
  BY <1>3 DEF Erasing, Failing, SameSlot
<1> QED
  BY <1>1, <1>2, <1>4 DEF InUse, Own, Holds

(* Two live requests for one connection are the same. *)
LEMMA LiveSlots ==
  ASSUME OrderlyState, NEW r, NEW q, Live(r), Live(q), r.sock = q.sock \/ r.conn = q.conn
  PROVE  SameSlot(r, q)
<1>1. /\ Holds(r.id, r.slot, r.sock) /\ Holds(q.id, q.slot, q.sock)
      /\ r.id \in PollThreads /\ r.slot \in Slots /\ r.sock \in Fds
      /\ q.id \in PollThreads /\ q.slot \in Slots /\ q.sock \in Fds
      /\ file[r.sock] = r.conn /\ file[q.sock] = q.conn /\ r.conn # NoConn
  BY LiveFacts DEF Own
<1>2. r.sock = q.sock
  BY <1>1 DEF OrderlyState, DescriptorInv
<1> QED
  BY <1>1, <1>2 DEF OrderlyState, DescriptorInv, SameSlot

LEMMA OneServer ==
  ASSUME OrderlyState, NEW v \in Workers, NEW w \in Workers,
         workPc[v] \in Serving, workPc[w] \in Serving, req[v].conn = req[w].conn
  PROVE  v = w
<1>1. SameSlot(req[v], req[w])
  BY LiveSlots DEF Live
<1> QED
  BY <1>1 DEF OrderlyState, ServerInv, ExclusiveInv, RequestsExclusive, Busy, Serving

(* Slots, descriptors and the workers that give one up are as they were. *)
KeepsSlots ==
  /\ setup' = setup /\ curr_indexes' = curr_indexes /\ file' = file
  /\ \A p \in PollThreads, s \in Slots : fdses'[p][s].fd = fdses[p][s].fd
  /\ \A v \in Workers : /\ workPc'[v] \in Failing <=> workPc[v] \in Failing
                        /\ workPc[v] \in Failing => req'[v] = req[v]

LEMMA KeepsHolds ==
  ASSUME KeepsSlots
  PROVE  \A p \in PollThreads, s \in Slots, f \in Fds : Holds(p, s, f)' <=> Holds(p, s, f)
<1> SUFFICES ASSUME NEW p \in PollThreads, NEW s \in Slots, NEW f \in Fds
             PROVE  Holds(p, s, f)' <=> Holds(p, s, f)
  OBVIOUS
<1>1. s \in Used(p)' <=> s \in Used(p)
  BY SameParameters DEF KeepsSlots, Used
<1>2. Erasing(p, s)' <=> Erasing(p, s)
  BY DEF KeepsSlots, Erasing, Failing
<1>3. fdses'[p][s].fd = fdses[p][s].fd
  BY DEF KeepsSlots
<1> QED
  BY <1>1, <1>2, <1>3 DEF Holds

LEMMA KeepsDescriptors ==
  ASSUME DescriptorInv, KeepsSlots, Accepted \subseteq Accepted',
         \A f \in Fds : file[f] # NoConn => client'[file[f]] # "refused",
         \A c \in Conns : client'[c] = "refused" => c \in Accepted'
  PROVE  DescriptorInv'
<1>1. file' = file /\ Slots' = Slots
  BY SameParameters DEF KeepsSlots
<1>2. \A p \in PollThreads, s \in Slots, f \in Fds : Holds(p, s, f)' <=> Holds(p, s, f)
  BY KeepsHolds
<1> QED
  BY <1>1, <1>2 DEF DescriptorInv

LEMMA KeepsOwn ==
  ASSUME KeepsSlots, NEW r \in Request, Own(r)
  PROVE  fdses'[r.id][r.slot].fd = r.sock /\ file'[r.sock] = r.conn /\ r.conn # NoConn
BY DEF KeepsSlots, Own, Request

(* The workers in a body or before a reply are as they were. *)
KeepsServed ==
  \A v \in Workers : \A l \in {"body", "reply"} :
    /\ workPc'[v] = l <=> workPc[v] = l
    /\ workPc[v] = l => req'[v] = req[v] /\ op'[v] = op[v]

LEMMA KeepsInBody == ASSUME KeepsServed, NEW c PROVE InBody(c)' <=> InBody(c)
BY DEF KeepsServed, InBody

LEMMA KeepsStreams ==
  ASSUME StreamInv, KeepsServed, UNCHANGED <<inbuf, client>>,
         \A c \in Conns : \/ peer'[c] = peer[c]
                          \/ peer'[c] = "up"
                          \/ peer'[c] = "fin" /\ client[c] \in {"idle", "refused"}
  PROVE  StreamInv'
<1>1. \A c \in Conns :
        /\ peer'[c] = "none" => client'[c] = "idle" /\ inbuf'[c] = <<>>
        /\ peer'[c] = "fin" => client'[c] \in {"idle", "refused"}
  BY DEF StreamInv
<1>2. ASSUME NEW c \in Conns, client'[c] # "refused"
      PROVE  Words(inbuf[c], client[c], InBody(c))'
  <2>1. Words(inbuf[c], client[c], InBody(c)) /\ (InBody(c)' <=> InBody(c))
    BY <1>2, KeepsInBody DEF StreamInv
  <2> QED
    BY <2>1 DEF Words
<1>3. ASSUME NEW v \in Workers PROVE ServedInv(v)'
  <2>1. ServedInv(v)
    BY DEF StreamInv
  <2> QED
    BY <2>1 DEF ServedInv, KeepsServed
<1> QED
  BY <1>1, <1>2, <1>3 DEF StreamInv

-----------------------------------------------------------------------------
(* Orderly clients: the steps.                                                *)

OrderlyGoal == DescriptorInv' /\ OwnInv' /\ StreamInv'

(* OwnInv where only the poll threads' labels and the peers may change. *)
LEMMA KeepsRequests ==
  ASSUME OrderlyState, KeepsSlots, UNCHANGED <<to_process, req, sock, workPc>>,
         \A c \in Conns : peer'[c] # "rst",
         \A p \in PollThreads : pollPc'[p] # "dec",
         \A p \in PollThreads, s \in Slots : fdses'[p][s].revents # "hup"
  PROVE  OwnInv'
<1>0. setup' = setup /\ Slots' = Slots
  BY SameParameters DEF KeepsSlots
<1>1. \A i \in 1 .. Len(to_process) :
        /\ to_process[i] \in Request
        /\ Own(to_process[i])
  BY LiveFacts DEF Live
<1>2. \A w \in Workers : workPc[w] \in Serving => req[w] \in Request /\ Own(req[w])
  BY LiveFacts DEF Live
<1>3. \A i \in 1 .. Len(to_process) :
        LET r == to_process[i] IN
        fdses'[r.id][r.slot].fd = r.sock /\ file'[r.sock] = r.conn /\ r.conn # NoConn
  BY <1>1, KeepsOwn
<1>4. \A w \in Workers : workPc[w] \in Serving =>
        LET r == req[w] IN
        fdses'[r.id][r.slot].fd = r.sock /\ file'[r.sock] = r.conn /\ r.conn # NoConn
  BY <1>2, KeepsOwn
<1>5. \A w \in Workers : /\ workPc[w] # "failBody"
                         /\ workPc[w] \in Serving => sock[w] = req[w].sock
  BY DEF OrderlyState, OwnInv
<1> QED
  BY <1>0, <1>3, <1>4, <1>5 DEF OwnInv, Own

LEMMA ServerTypesHere == ASSUME OrderlyState PROVE TypeOK /\ BacklogInv /\ RoomInv /\ ExclusiveInv
BY DEF OrderlyState, ServerInv

LEMMA WordTypes ==
  ASSUME OrderlyState, NEW c \in Conns
  PROVE  inbuf[c] \in WordSeq /\ client[c] \in {"idle", "await", "refused"} \union AllOps
         /\ Ops \subseteq AllOps
<1>1. TypeOK /\ Ops \subseteq AllOps
  BY ServerTypesHere, SetupFacts DEF TypeOK, AllOps
<1>2. inbuf[c] \in Seq(Ops \union {"body"}) /\ client[c] \in {"idle", "await", "refused"} \union Ops
  BY <1>1 DEF TypeOK
<1>3. Seq(Ops \union {"body"}) \subseteq Seq(AllOps \union {"body"})
  BY <1>1
<1> QED
  BY <1>1, <1>2, <1>3 DEF WordSeq

(* Frame of a client's step. *)
LEMMA ClientFrame ==
  ASSUME OrderlyState, NEW c \in Conns, Client(c)
  PROVE  /\ KeepsSlots /\ UNCHANGED <<to_process, req, sock, workPc, op, pollPc, fdses, setup>>
         /\ Accepted' = Accepted
         /\ \A p \in PollThreads : pollPc'[p] # "dec"
         /\ \A p \in PollThreads, s \in Slots : fdses'[p][s].revents # "hup"
<1>1. UNCHANGED <<to_process, req, sock, workPc, op, pollPc, fdses, setup, curr_indexes, file>>
  BY DEF Client, Connect, SendOperation, SendBody, Close, Reset, workVars, pollVars, walkVars
<1>2. KeepsSlots
  BY <1>1 DEF KeepsSlots
<1>3. Accepted' = Accepted
  BY ServerTypesHere, ClientBacklog, SameAccepted, ConnectAccepted
<1> QED
  BY <1>1, <1>2, <1>3 DEF OrderlyState, OwnInv

LEMMA ConnectOrderly ==
  ASSUME OrderlyState, NEW c \in Conns, Connect(c)
  PROVE  OrderlyGoal
<1>0. TypeOK
  BY ServerTypesHere
<1>1. UNCHANGED <<client, inbuf>> /\ peer' = [peer EXCEPT ![c] = "up"]
  BY DEF Connect
<1>2. /\ KeepsSlots /\ UNCHANGED <<to_process, req, sock, workPc, op, setup>>
      /\ Accepted' = Accepted
      /\ \A p \in PollThreads : pollPc'[p] # "dec"
      /\ \A p \in PollThreads, s \in Slots : fdses'[p][s].revents # "hup"
  BY ClientFrame DEF Client
<1>3. DescriptorInv'
  BY <1>1, <1>2, KeepsDescriptors DEF OrderlyState, DescriptorInv
<1>4. \A d \in Conns : peer'[d] # "rst" /\ (peer'[d] = peer[d] \/ peer'[d] = "up")
  BY <1>0, <1>1 DEF OrderlyState, OwnInv, TypeOK
<1>5. OwnInv'
  BY <1>2, <1>4, KeepsRequests
<1>6. StreamInv'
  BY <1>1, <1>2, <1>4, KeepsStreams DEF OrderlyState, KeepsServed
<1> QED
  BY <1>3, <1>5, <1>6 DEF OrderlyGoal

LEMMA CloseOrderly ==
  ASSUME OrderlyState, NEW c \in Conns, Close(c)
  PROVE  OrderlyGoal
<1>0. TypeOK
  BY ServerTypesHere
<1>1. /\ UNCHANGED <<client, inbuf>> /\ peer' = [peer EXCEPT ![c] = "fin"]
      /\ client[c] \in {"idle", "refused"}
  BY DEF Close, OrderlyState, Orderly
<1>2. /\ KeepsSlots /\ UNCHANGED <<to_process, req, sock, workPc, op, setup>>
      /\ Accepted' = Accepted
      /\ \A p \in PollThreads : pollPc'[p] # "dec"
      /\ \A p \in PollThreads, s \in Slots : fdses'[p][s].revents # "hup"
  BY ClientFrame DEF Client
<1>3. DescriptorInv'
  BY <1>1, <1>2, KeepsDescriptors DEF OrderlyState, DescriptorInv
<1>4. \A d \in Conns : /\ peer'[d] # "rst"
                       /\ peer'[d] = peer[d] \/ (peer'[d] = "fin" /\ client[d] \in {"idle", "refused"})
  BY <1>0, <1>1 DEF OrderlyState, OwnInv, TypeOK
<1>5. OwnInv'
  BY <1>2, <1>4, KeepsRequests
<1>6. StreamInv'
  BY <1>1, <1>2, <1>4, KeepsStreams DEF OrderlyState, KeepsServed
<1> QED
  BY <1>3, <1>5, <1>6 DEF OrderlyGoal

(* The streams after a step that only client c takes part in. *)
LEMMA StreamsOf ==
  ASSUME OrderlyState, NEW c \in Conns, UNCHANGED <<peer, workPc, req, op>>,
         peer[c] = "up", client[c] # "refused",
         \A d \in Conns \ {c} : inbuf'[d] = inbuf[d] /\ client'[d] = client[d],
         Words(inbuf'[c], client'[c], InBody(c)),
         \A v \in Workers : req[v].conn = c => ServedInv(v)'
  PROVE  StreamInv'
<1>1. \A d : InBody(d)' <=> InBody(d)
  BY DEF InBody
<1>2. ASSUME NEW d \in Conns
      PROVE  /\ peer'[d] = "none" => client'[d] = "idle" /\ inbuf'[d] = <<>>
             /\ peer'[d] = "fin" => client'[d] \in {"idle", "refused"}
             /\ client'[d] # "refused" => Words(inbuf[d], client[d], InBody(d))'
  <2>1. CASE d = c
    BY <1>1, <2>1 DEF Words
  <2>2. CASE d # c
    <3>1. /\ inbuf'[d] = inbuf[d] /\ client'[d] = client[d] /\ (InBody(d)' <=> InBody(d))
          /\ client[d] # "refused" => Words(inbuf[d], client[d], InBody(d))
          /\ peer[d] = "none" => client[d] = "idle" /\ inbuf[d] = <<>>
          /\ peer[d] = "fin" => client[d] \in {"idle", "refused"}
      BY <1>1, <2>2 DEF OrderlyState, StreamInv
    <3> QED
      BY <3>1 DEF Words
  <2> QED
    BY <2>1, <2>2
<1>3. ASSUME NEW v \in Workers PROVE ServedInv(v)'
  <2>1. CASE req[v].conn = c
    BY <2>1
  <2>2. CASE req[v].conn # c /\ workPc[v] \in Serving
    <3>1. req[v].conn \in Conns
      BY <2>2, LiveFacts DEF Live
    <3>2. ServedInv(v)
      BY DEF OrderlyState, StreamInv
    <3> QED
      BY <2>2, <3>1, <3>2 DEF ServedInv
  <2>3. CASE workPc[v] \notin Serving
    BY <2>3 DEF ServedInv, Serving
  <2> QED
    BY <2>1, <2>2, <2>3
<1> QED
  BY <1>2, <1>3 DEF StreamInv

LEMMA SendOperationOrderly ==
  ASSUME OrderlyState, NEW c \in Conns, NEW o \in Ops, SendOperation(c, o)
  PROVE  OrderlyGoal
<1>0. TypeOK
  BY ServerTypesHere
<1>1. /\ peer' = peer /\ peer[c] = "up" /\ client[c] = "idle"
      /\ inbuf'[c] = Append(inbuf[c], o)
      /\ client'[c] = IF HasBody(o) THEN o ELSE AfterRequest(o)
      /\ \A d \in Conns \ {c} : inbuf'[d] = inbuf[d] /\ client'[d] = client[d]
  BY <1>0 DEF SendOperation, TypeOK
<1>2. /\ KeepsSlots /\ UNCHANGED <<to_process, req, sock, workPc, op, setup>>
      /\ Accepted' = Accepted
      /\ \A p \in PollThreads : pollPc'[p] # "dec"
      /\ \A p \in PollThreads, s \in Slots : fdses'[p][s].revents # "hup"
  BY ClientFrame DEF Client
<1>3. o \in AllOps /\ inbuf[c] \in WordSeq /\ client'[c] # "refused"
  BY <1>1, WordTypes DEF AllOps, AfterRequest
<1>4. DescriptorInv'
  <2>1. \A f \in Fds : file[f] # NoConn => client'[file[f]] # "refused"
    <3>1. \A f \in Fds : file[f] # NoConn => file[f] \in Conns /\ client[file[f]] # "refused"
      BY <1>0 DEF OrderlyState, DescriptorInv, TypeOK
    <3> QED
      BY <1>1, <1>3, <3>1
  <2>2. \A d \in Conns : client'[d] = "refused" => d \in Accepted'
    BY <1>1, <1>2, <1>3 DEF OrderlyState, DescriptorInv
  <2> QED
    BY <1>2, <2>1, <2>2, KeepsDescriptors DEF OrderlyState
<1>5. OwnInv'
  BY <1>1, <1>2, KeepsRequests DEF OrderlyState, OwnInv
<1>6. StreamInv'
  <2>1. Words(inbuf[c], "idle", InBody(c)) /\ InBody(c) \in BOOLEAN
    BY <1>1 DEF OrderlyState, StreamInv, InBody
  <2>2. Words(Append(inbuf[c], o), IF HasBody(o) THEN o ELSE AfterRequest(o), InBody(c))
    BY <1>3, <2>1, WordsSendOperation
  <2>3. Words(inbuf'[c], client'[c], InBody(c))
    BY <1>1, <2>2
  <2>4. ASSUME NEW v \in Workers, req[v].conn = c PROVE ServedInv(v)'
    <3>1. ServedInv(v)
      BY DEF OrderlyState, StreamInv
    <3>2. workPc[v] # "reply"
      BY <1>1, <2>4, <3>1 DEF ServedInv
    <3>3. workPc[v] = "body" => /\ HasBody(op[v]) /\ ~HasReply(op[v])
                                /\ inbuf[c] # <<>> /\ inbuf[c][1] = "body"
      BY <1>1, <2>4, <3>1 DEF ServedInv, HasBody
    <3>4. inbuf[c] # <<>> => /\ Append(inbuf[c], o) # <<>>
                             /\ Append(inbuf[c], o)[1] = inbuf[c][1]
      BY <1>3 DEF WordSeq
    <3> QED
      BY <1>1, <1>2, <2>4, <3>2, <3>3, <3>4 DEF ServedInv
  <2> QED
    BY <1>1, <1>2, <2>3, <2>4, StreamsOf
<1> QED
  BY <1>4, <1>5, <1>6 DEF OrderlyGoal

LEMMA SendBodyOrderly ==
  ASSUME OrderlyState, NEW c \in Conns, SendBody(c)
  PROVE  OrderlyGoal
<1>0. TypeOK
  BY ServerTypesHere
<1>1. /\ peer' = peer /\ peer[c] = "up" /\ client[c] \in Ops
      /\ inbuf'[c] = Append(inbuf[c], "body")
      /\ client'[c] = AfterRequest(client[c])
      /\ \A d \in Conns \ {c} : inbuf'[d] = inbuf[d] /\ client'[d] = client[d]
  BY <1>0 DEF SendBody, TypeOK
<1>2. /\ KeepsSlots /\ UNCHANGED <<to_process, req, sock, workPc, op, setup>>
      /\ Accepted' = Accepted
      /\ \A p \in PollThreads : pollPc'[p] # "dec"
      /\ \A p \in PollThreads, s \in Slots : fdses'[p][s].revents # "hup"
  BY ClientFrame DEF Client
<1>3. /\ client[c] \in AllOps /\ client[c] # "refused" /\ client[c] # "await"
      /\ inbuf[c] \in WordSeq /\ client'[c] # "refused"
  BY <1>1, WordTypes DEF AllOps, AfterRequest
<1>4. DescriptorInv'
  <2>1. \A f \in Fds : file[f] # NoConn => client'[file[f]] # "refused"
    <3>1. \A f \in Fds : file[f] # NoConn => file[f] \in Conns /\ client[file[f]] # "refused"
      BY <1>0 DEF OrderlyState, DescriptorInv, TypeOK
    <3> QED
      BY <1>1, <1>3, <3>1
  <2>2. \A d \in Conns : client'[d] = "refused" => d \in Accepted'
    BY <1>1, <1>2, <1>3 DEF OrderlyState, DescriptorInv
  <2> QED
    BY <1>2, <2>1, <2>2, KeepsDescriptors DEF OrderlyState
<1>5. OwnInv'
  BY <1>1, <1>2, KeepsRequests DEF OrderlyState, OwnInv
<1>6. StreamInv'
  <2>1. Words(inbuf[c], client[c], InBody(c)) /\ InBody(c) \in BOOLEAN
    BY <1>3 DEF OrderlyState, StreamInv, InBody
  <2>2. Words(Append(inbuf[c], "body"), AfterRequest(client[c]), InBody(c))
    BY <1>3, <2>1, WordsSendBody
  <2>3. Words(inbuf'[c], client'[c], InBody(c))
    BY <1>1, <2>2
  <2>4. ASSUME NEW v \in Workers, req[v].conn = c PROVE ServedInv(v)'
    <3>1. ServedInv(v)
      BY DEF OrderlyState, StreamInv
    <3>2. workPc[v] # "reply"
      BY <1>3, <2>4, <3>1 DEF ServedInv
    <3>3. /\ Append(inbuf[c], "body") # <<>>
          /\ inbuf[c] = <<>> => /\ Append(inbuf[c], "body")[1] = "body"
                                /\ Len(Append(inbuf[c], "body")) = 1
          /\ inbuf[c] # <<>> => Append(inbuf[c], "body")[1] = inbuf[c][1]
      BY <1>3 DEF WordSeq
    <3>4. workPc[v] = "body" =>
            /\ HasBody(op[v])
            /\ IF inbuf[c] = <<>> THEN client[c] = op[v] ELSE inbuf[c][1] = "body"
            /\ HasReply(op[v]) => inbuf[c] = <<>> /\ client'[c] = "await"
      BY <1>1, <1>3, <2>4, <3>1 DEF ServedInv, AfterRequest
    <3> QED
      BY <1>1, <1>2, <2>4, <3>2, <3>3, <3>4 DEF ServedInv
  <2> QED
    BY <1>1, <1>2, <1>3, <2>3, <2>4, StreamsOf
<1> QED
  BY <1>4, <1>5, <1>6 DEF OrderlyGoal

LEMMA ClientOrderly ==
  ASSUME OrderlyState, NEW c \in Conns, Client(c)
  PROVE  OrderlyGoal /\ died' = died
<1>1. ~Reset(c)
  BY DEF Reset, OrderlyState, Orderly
<1>2. died' = died
  BY <1>1 DEF Client, Connect, SendOperation, SendBody, Close
<1> QED
  BY <1>1, <1>2, ConnectOrderly, SendOperationOrderly, SendBodyOrderly, CloseOrderly DEF Client

(* Nobody has a descriptor for a connection that is still in the queue. *)
LEMMA QueuedIsClosed ==
  ASSUME OrderlyState, backlog # <<>>, NEW f \in Fds
  PROVE  file[f] # Head(backlog) /\ Head(backlog) \in setup.conns \ Accepted
         /\ Head(backlog) \in Conns
<1>1. TypeOK /\ BacklogInv
  BY ServerTypesHere
<1>2. Head(backlog) = backlog[1] /\ 1 \in 1 .. Len(backlog)
  BY <1>1, QueueFacts DEF TypeOK
<1>3. Head(backlog) \in setup.conns \ Accepted /\ Head(backlog) \in Conns
  BY <1>1, <1>2, SetupFacts DEF BacklogInv, Accepted, TypeOK
<1>4. Head(backlog) # NoConn
  BY <1>3, NoConnAssumption
<1> QED
  BY <1>3, <1>4 DEF OrderlyState, DescriptorInv

LEMMA RefuseOrderly ==
  ASSUME OrderlyState, Refuse
  PROVE  OrderlyGoal
<1>0. TypeOK /\ BacklogInv /\ 0 \in PollThreads
  BY ServerTypesHere, SlotFacts DEF TypeOK
<1>1. /\ UNCHANGED <<to_process, req, sock, workPc, op, setup, peer, inbuf, fdses, curr_indexes, file>>
      /\ backlog # <<>> /\ backlog' = Tail(backlog)
      /\ client' = [client EXCEPT ![Head(backlog)] = "refused"]
      /\ pollPc' = [pollPc EXCEPT ![0] = "scan"]
  BY <1>0 DEF Refuse, workVars, Goto, BacklogInv
<1>2. KeepsSlots
  BY <1>1 DEF KeepsSlots
<1>3. Head(backlog) \in Conns /\ \A f \in Fds : file[f] # Head(backlog)
  <2>1. Head(backlog) \in Conns
    BY <1>0, <1>1, QueueFacts DEF TypeOK
  <2> QED
    BY <1>1, <2>1, QueuedIsClosed
<1>4. \A d \in Conns : client'[d] = IF d = Head(backlog) THEN "refused" ELSE client[d]
  BY <1>0, <1>1 DEF TypeOK
<1>5. DescriptorInv'
  <2>1. Accepted' = Accepted \union {Head(backlog)}
    BY <1>0, <1>1, LeaveQueue
  <2>2. \A f \in Fds : file[f] # NoConn => client'[file[f]] # "refused"
    BY <1>0, <1>3, <1>4 DEF OrderlyState, DescriptorInv, TypeOK
  <2>3. \A d \in Conns : client'[d] = "refused" => d \in Accepted'
    BY <1>4, <2>1 DEF OrderlyState, DescriptorInv
  <2> QED
    BY <1>2, <2>1, <2>2, <2>3, KeepsDescriptors DEF OrderlyState
<1>6. OwnInv'
  BY <1>0, <1>1, <1>2, KeepsRequests DEF OrderlyState, OwnInv, TypeOK
<1>7. StreamInv'
  <2>1. \A c : InBody(c)' <=> InBody(c)
    BY <1>1 DEF InBody
  <2>2. ASSUME NEW c \in Conns
        PROVE  /\ peer'[c] = "none" => client'[c] = "idle" /\ inbuf'[c] = <<>>
               /\ peer'[c] = "fin" => client'[c] \in {"idle", "refused"}
    <3>1. peer[Head(backlog)] # "none"
      BY <1>0, <1>1, QueueFacts DEF TypeOK, BacklogInv
    <3> QED
      BY <1>1, <1>4, <3>1 DEF OrderlyState, StreamInv
  <2>3. ASSUME NEW c \in Conns, client'[c] # "refused"
        PROVE  Words(inbuf[c], client[c], InBody(c))'
    <3>1. Words(inbuf[c], client[c], InBody(c)) /\ client'[c] = client[c]
      BY <1>4, <2>3 DEF OrderlyState, StreamInv
    <3> QED
      BY <1>1, <2>1, <3>1 DEF Words
  <2>4. ASSUME NEW v \in Workers PROVE ServedInv(v)'
    <3>1. ServedInv(v)
      BY DEF OrderlyState, StreamInv
    <3>2. CASE workPc[v] \in Serving
      <4>1. req[v].conn \in Conns /\ req[v].sock \in Fds /\ file[req[v].sock] = req[v].conn
        BY <3>2, LiveFacts DEF Live, Own
      <4>2. client'[req[v].conn] = client[req[v].conn]
        BY <1>3, <1>4, <4>1
      <4> QED
        BY <1>1, <3>1, <4>2 DEF ServedInv
    <3>3. CASE workPc[v] \notin Serving
      BY <1>1, <3>3 DEF ServedInv, Serving
    <3> QED
      BY <3>2, <3>3
  <2> QED
    BY <2>2, <2>3, <2>4 DEF StreamInv
<1> QED
  BY <1>5, <1>6, <1>7 DEF OrderlyGoal

(* A descriptor that is free goes into a slot that nobody uses. *)
LEMMA AcceptOrderly ==
  ASSUME OrderlyState, NEW r \in PollThreads, Accept(r)
  PROVE  OrderlyGoal
<1>0. TypeOK /\ BacklogInv /\ RoomInv /\ ExclusiveInv
  BY ServerTypesHere
<1> DEFINE t == curr_indexes[r]
           c == Head(backlog)
<1>1. /\ UNCHANGED <<setup, peer, client, inbuf, to_process, workPc, req, sock, op>>
      /\ backlog # <<>> /\ backlog' = Tail(backlog) /\ t \in Slots
      /\ curr_indexes' = [curr_indexes EXCEPT ![r] = @ + 1]
      /\ \A p \in PollThreads : pollPc'[p] = pollPc[p] \/ pollPc'[p] = "inc"
  BY <1>0, AcceptFacts DEF workVars
<1>2. PICK f \in Fds : /\ file[f] = NoConn
                       /\ file' = [file EXCEPT ![f] = c]
                       /\ fdses' = [fdses EXCEPT ![r][t].fd = f, ![r][t].events = TRUE]
  BY DEF Accept, FreeFd
<1>3. SameElsewhere(r, t) /\ fdses'[r][t].fd = f /\ fdses'[r][t].revents = fdses[r][t].revents
  <2>1. t \in Slots /\ fdses' = [fdses EXCEPT ![r][t].fd = f, ![r][t].events = TRUE]
    BY <1>1, <1>2
  <2> HIDE DEF t
  <2> QED
    BY <1>0, <2>1, SetWatched, Zenon
<1>4. c \in Conns /\ c \in setup.conns /\ \A g \in Fds : file[g] # c
  <2>1. c \in Conns
    BY <1>0, <1>1, QueueFacts DEF TypeOK
  <2> QED
    BY <1>1, <1>2, <2>1, QueuedIsClosed
<1>5. /\ Slots' = Slots /\ Accepted' = Accepted \union {c} /\ c \notin Accepted
      /\ client[c] # "refused"
  <2>1. Accepted' = Accepted \union {c} /\ c \notin Accepted
    BY <1>0, <1>1, LeaveQueue
  <2> QED
    BY <1>1, <1>4, <2>1, SameParameters DEF OrderlyState, DescriptorInv
<1>6. c # NoConn /\ \A g \in Fds : file'[g] = IF g = f THEN c ELSE file[g]
  BY <1>0, <1>2, <1>4, NoConnAssumption DEF TypeOK
<1> HIDE DEF c
<1>7. \A p \in PollThreads, s \in Slots : s \in Used(p)' <=> s \in Used(p) \/ (p = r /\ s = t)
  <2>1. /\ \A p \in PollThreads : curr_indexes[p] \in Nat
        /\ Reserved(r) <= t /\ Reserved(r) \in Nat /\ Slots \subseteq Nat
    <3>1. setup \in Setups /\ curr_indexes \in [PollThreads -> 0 .. setup.max_fds]
      BY <1>0 DEF TypeOK
    <3>2. \A p \in PollThreads : curr_indexes[p] \in Nat
      BY <3>1, SetupFacts
    <3>3. Reserved(r) <= t
      BY <1>0 DEF RoomInv, OrderlyState
    <3> QED
      BY <3>1, <3>2, <3>3, SlotFacts
  <2>2. \A p \in PollThreads : curr_indexes'[p] = IF p = r THEN t + 1 ELSE curr_indexes[p]
    BY <1>0, <1>1 DEF TypeOK
  <2> QED
    BY <1>1, <1>5, <2>1, <2>2 DEF Used
<1>8. t \notin Used(r) /\ ~Erasing(r, t)
  <2>1. t \notin Used(r)
    BY <1>0, <1>1, SlotFacts DEF Used, TypeOK
  <2>2. \A v \in Workers : workPc[v] \in Failing => req[v].slot \in Used(req[v].id)
    BY <1>0 DEF ExclusiveInv, HandOverInv, OrderlyState, InUse, Busy, Failing
  <2> QED
    BY <2>1, <2>2 DEF Erasing, Failing
<1>9. \A p \in PollThreads, s \in Slots : Erasing(p, s)' <=> Erasing(p, s)
  BY <1>1 DEF Erasing
<1>10. \A p \in PollThreads, s \in Slots, g \in Fds :
         Holds(p, s, g)' <=> Holds(p, s, g) \/ (p = r /\ s = t /\ g = f)
  <2> SUFFICES ASSUME NEW p \in PollThreads, NEW s \in Slots, NEW g \in Fds
               PROVE  Holds(p, s, g)' <=> Holds(p, s, g) \/ (p = r /\ s = t /\ g = f)
    OBVIOUS
  <2>1. CASE p = r /\ s = t
    BY <1>3, <1>7, <1>8, <1>9, <2>1 DEF Holds
  <2>2. CASE ~(p = r /\ s = t)
    <3>1. fdses'[p][s] = fdses[p][s]
      BY <1>3, <2>2 DEF SameElsewhere
    <3> QED
      BY <1>7, <1>9, <2>2, <3>1 DEF Holds
  <2> QED
    BY <2>1, <2>2
<1>11. \A p \in PollThreads, s \in Slots : ~Holds(p, s, f)
  BY <1>2 DEF OrderlyState, DescriptorInv
<1>12. DescriptorInv'
  <2>1. \A g, h \in Fds : file'[g] # NoConn /\ g # h => file'[g] # file'[h]
    BY <1>4, <1>6 DEF OrderlyState, DescriptorInv, c
  <2>2. \A g \in Fds : file'[g] # NoConn => file'[g] \in Accepted' /\ client'[file'[g]] # "refused"
    BY <1>1, <1>5, <1>6 DEF OrderlyState, DescriptorInv
  <2>3. \A g \in Fds : file'[g] # NoConn => \E p \in PollThreads, s \in Slots : Holds(p, s, g)'
    BY <1>1, <1>6, <1>10 DEF OrderlyState, DescriptorInv
  <2>4. \A p, q \in PollThreads, s, u \in Slots, g \in Fds :
          Holds(p, s, g)' => file'[g] # NoConn /\ (Holds(q, u, g)' => p = q /\ s = u)
    BY <1>6, <1>10, <1>11 DEF OrderlyState, DescriptorInv
  <2>5. \A d \in Conns : client'[d] = "refused" => d \in Accepted'
    BY <1>1, <1>5 DEF OrderlyState, DescriptorInv
  <2> QED
    BY <1>5, <2>1, <2>2, <2>3, <2>4, <2>5 DEF DescriptorInv
<1>13. \A q : Live(q) => /\ fdses'[q.id][q.slot].fd = q.sock
                         /\ file'[q.sock] = q.conn /\ q.conn # NoConn
  <2> SUFFICES ASSUME NEW q, Live(q)
               PROVE  /\ fdses'[q.id][q.slot].fd = q.sock
                      /\ file'[q.sock] = q.conn /\ q.conn # NoConn
    OBVIOUS
  <2>1. /\ q.id \in PollThreads /\ q.slot \in Slots /\ q.sock \in Fds
        /\ Own(q) /\ Holds(q.id, q.slot, q.sock)
    BY LiveFacts
  <2>2. ~(q.id = r /\ q.slot = t) /\ q.sock # f
    BY <1>2, <1>8, <2>1 DEF Holds, Own
  <2> QED
    BY <1>3, <1>6, <2>1, <2>2 DEF Own, SameElsewhere
<1>14. OwnInv'
  <2>1. \A p \in PollThreads, s \in Slots : fdses'[p][s].revents = fdses[p][s].revents
    BY <1>3 DEF SameElsewhere
  <2>2. \A i \in 1 .. Len(to_process) : Live(to_process[i])
    BY DEF Live
  <2>3. \A w \in Workers : workPc[w] \in Serving => Live(req[w])
    BY DEF Live
  <2> QED
    BY <1>1, <1>5, <1>13, <2>1, <2>2, <2>3 DEF OrderlyState, OwnInv, Own
<1>15. StreamInv'
  BY <1>1, KeepsStreams DEF OrderlyState, KeepsServed
<1> QED
  BY <1>12, <1>14, <1>15 DEF OrderlyGoal

LEMMA AcceptorOrderly ==
  ASSUME OrderlyState, Acceptor
  PROVE  OrderlyGoal /\ died' = died
<1>0. TypeOK /\ BacklogInv /\ RoomInv /\ 0 \in PollThreads
  BY ServerTypesHere, SlotFacts DEF TypeOK
<1>1. CASE CountConnection
  <2>1. /\ UNCHANGED <<to_process, req, sock, workPc, op, setup, peer, client, inbuf, fdses,
                       curr_indexes, file, backlog, died>>
        /\ pollPc' = [pollPc EXCEPT ![0] = "scan"]
    BY <1>1 DEF CountConnection, workVars, clientVars, Goto
  <2>2. KeepsSlots /\ Accepted' = Accepted
    BY <2>1 DEF KeepsSlots, Accepted
  <2>3. DescriptorInv'
    BY <2>1, <2>2, KeepsDescriptors DEF OrderlyState, DescriptorInv
  <2>4. OwnInv'
    BY <1>0, <2>1, <2>2, KeepsRequests DEF OrderlyState, OwnInv, TypeOK
  <2>5. StreamInv'
    BY <2>1, KeepsStreams DEF OrderlyState, KeepsServed
  <2> QED
    BY <2>1, <2>3, <2>4, <2>5 DEF OrderlyGoal
<1>2. ASSUME NEW r \in PollThreads, AcceptFails(r) PROVE FALSE
  BY <1>0, <1>2, NoTableFills DEF AcceptFails, OrderlyState
<1>3. CASE Refuse
  BY <1>3, RefuseOrderly DEF Refuse
<1>4. ASSUME NEW r \in PollThreads, Accept(r) PROVE OrderlyGoal /\ died' = died
  BY <1>4, AcceptOrderly DEF Accept
<1>5. ~AcceptStores /\ \A r \in PollThreads : ~AcceptLoads(r)
  BY <1>0, RoomyPurge DEF OrderlyState
<1> QED
  BY <1>1, <1>2, <1>3, <1>4, <1>5 DEF Acceptor

(* A step of a poll thread, as the connections and the workers see it. *)
LEMMA PollFrame ==
  ASSUME OrderlyState, KeepsSlots,
         UNCHANGED <<peer, client, inbuf, backlog, workPc, req, sock, op>>
  PROVE  DescriptorInv' /\ StreamInv'
<1>1. setup' = setup
  BY DEF KeepsSlots
<1>2. Accepted' = Accepted
  BY <1>1 DEF Accepted
<1>3. DescriptorInv'
  BY <1>2, KeepsDescriptors DEF OrderlyState, DescriptorInv
<1>4. StreamInv'
  BY KeepsStreams DEF OrderlyState, KeepsServed
<1> QED
  BY <1>3, <1>4

LEMMA PolledOrderly ==
  ASSUME OrderlyState, NEW p \in PollThreads, PollPipe(p) \/ Poll(p)
  PROVE  OrderlyGoal
<1>0. TypeOK
  BY ServerTypesHere
<1>1. /\ UNCHANGED <<setup, peer, client, inbuf, backlog, file, curr_indexes, to_process,
                     workPc, req, sock, op>>
      /\ fdses' = [fdses EXCEPT ![p] = Polled(p)]
  BY DEF PollPipe, Poll, clientVars, workVars
<1>2. \A q \in PollThreads : pollPc'[q] # "dec"
  <2>1. \E label \in {"purge", "accept", "scan"} : pollPc' = [pollPc EXCEPT ![p] = label]
    BY DEF PollPipe, Poll, Goto
  <2> QED
    BY <1>0, <2>1 DEF OrderlyState, OwnInv, TypeOK
<1>3. \A q \in PollThreads, t \in Slots :
        /\ fdses'[q][t].fd = fdses[q][t].fd
        /\ fdses'[q][t].revents = IF q = p /\ t \in Used(p)
             THEN Revents(fdses[q][t]) ELSE fdses[q][t].revents
  BY <1>0, <1>1, SetPolled
<1>4. \A e \in PollFd : Revents(e) # "hup"
  <2> SUFFICES ASSUME NEW e \in PollFd, e.fd # NoFd, file[e.fd] # NoConn
               PROVE  peer[file[e.fd]] # "rst"
    BY DEF Revents
  <2>1. e.fd \in Fds
    BY DEF PollFd
  <2>2. file[e.fd] \in Conns
    BY <1>0, <2>1 DEF TypeOK
  <2> QED
    BY <2>2 DEF OrderlyState, OwnInv
<1>5. \A q \in PollThreads, t \in Slots : fdses'[q][t].revents # "hup"
  BY <1>0, <1>3, <1>4, FdsesFacts DEF OrderlyState, OwnInv
<1>6. KeepsSlots
  BY <1>1, <1>3 DEF KeepsSlots
<1>7. OwnInv'
  BY <1>1, <1>2, <1>5, <1>6, KeepsRequests DEF OrderlyState, OwnInv
<1> QED
  BY <1>1, <1>6, <1>7, PollFrame DEF OrderlyGoal

(* The slot that is reported readable holds its connection. *)
LEMMA ScanReadableOrderly ==
  ASSUME OrderlyState, NEW p \in PollThreads, ScanReadable(p)
  PROVE  OrderlyGoal
<1>0. TypeOK /\ ExclusiveInv
  BY ServerTypesHere
<1>1. UNCHANGED <<setup, peer, client, inbuf, backlog, file, curr_indexes, pollPc, workPc, req,
                  sock, op>>
  BY DEF ScanReadable, clientVars, workVars, pollVars, walkVars
<1>2. PICK s \in Slots : NextReported(p, s) /\ fdses[p][s].revents = "in" /\ process(p, s)
  BY DEF ScanReadable
<1>3. /\ SameElsewhere(p, s) /\ fdses'[p][s].fd = fdses[p][s].fd
      /\ fdses'[p][s].revents = "none"
  BY <1>0, <1>2, SetQueued DEF process
<1>4. KeepsSlots
  BY <1>1, <1>3 DEF KeepsSlots, SameElsewhere
<1> DEFINE f == fdses[p][s].fd
           new == [sock |-> f, id |-> p, slot |-> s, conn |-> file[f]]
<1>5. s \in Used(p) /\ f \in Fds
  <2>1. s \in Used(p) /\ f # NoFd
    BY <1>2 DEF NextReported, Reported
  <2> QED
    BY <1>0, <2>1, FdsesFacts DEF PollFd
<1>6. ~Erasing(p, s)
  <2>1. fdses[p][s].events
    BY <1>0, <1>2, Zenon DEF ExclusiveInv, HandOverInv, OrderlyState
  <2>2. \A v \in Workers : workPc[v] \in Failing => ~fdses[req[v].id][req[v].slot].events
    BY <1>0 DEF ExclusiveInv, RequestsExclusive, OrderlyState, Busy, Failing, Disarmed
  <2> QED
    BY <2>1, <2>2 DEF Erasing, Failing
<1>7. file[f] # NoConn
  <2>1. Holds(p, s, f)
    BY <1>5, <1>6 DEF Holds
  <2> QED
    BY <1>5, <2>1 DEF OrderlyState, DescriptorInv
<1>8. new.sock = f /\ new.id = p /\ new.slot = s /\ new.conn = file[f] /\ new \in Request
  BY <1>0, <1>5 DEF Request, TypeOK
<1>9. to_process' = Append(to_process, new)
  BY <1>2 DEF process
<1> HIDE DEF new
<1>10. /\ Len(to_process) \in Nat /\ Len(to_process') = Len(to_process) + 1
       /\ to_process'[Len(to_process) + 1] = new
       /\ \A i \in 1 .. Len(to_process) : to_process'[i] = to_process[i]
  BY <1>0, <1>8, <1>9, AppendFacts DEF TypeOK
<1>11. \A i \in 1 .. Len(to_process') :
         LET r == to_process'[i] IN
         fdses'[r.id][r.slot].fd = r.sock /\ file'[r.sock] = r.conn /\ r.conn # NoConn
  <2> SUFFICES ASSUME NEW i \in 1 .. Len(to_process')
               PROVE  LET r == to_process'[i] IN
                      fdses'[r.id][r.slot].fd = r.sock /\ file'[r.sock] = r.conn /\ r.conn # NoConn
    OBVIOUS
  <2>1. CASE i = Len(to_process) + 1
    BY <1>1, <1>3, <1>7, <1>8, <1>10, <2>1
  <2>2. CASE i \in 1 .. Len(to_process)
    <3>1. to_process[i] \in Request /\ Own(to_process[i])
      BY <2>2, LiveFacts DEF Live
    <3> QED
      BY <1>4, <1>10, <2>2, <3>1, KeepsOwn
  <2> QED
    BY <1>10, <2>1, <2>2
<1>12. \A w \in Workers : workPc[w] \in Serving =>
        LET r == req[w] IN
        fdses'[r.id][r.slot].fd = r.sock /\ file'[r.sock] = r.conn /\ r.conn # NoConn
  <2>1. \A w \in Workers : workPc[w] \in Serving => req[w] \in Request /\ Own(req[w])
    BY LiveFacts DEF Live
  <2> QED
    BY <1>4, <2>1, KeepsOwn
<1>13. \A q \in PollThreads, t \in Slots : fdses'[q][t].revents # "hup"
  BY <1>3 DEF SameElsewhere, OrderlyState, OwnInv
<1>14. Slots' = Slots
  BY <1>1, SameParameters
<1>15. OwnInv'
  BY <1>1, <1>11, <1>12, <1>13, <1>14 DEF OrderlyState, OwnInv, Own
<1> QED
  BY <1>1, <1>4, <1>15, PollFrame DEF OrderlyGoal

LEMMA PollThreadOrderly ==
  ASSUME OrderlyState, NEW p \in PollThreads, PollThread(p)
  PROVE  OrderlyGoal /\ died' = died
<1>0. TypeOK /\ RoomInv /\ Roomy
  BY ServerTypesHere DEF OrderlyState
<1>1. CASE PollPipe(p) \/ Poll(p)
  BY <1>1, PolledOrderly DEF PollPipe, Poll
<1>2. CASE ScanReadable(p)
  BY <1>2, ScanReadableOrderly DEF ScanReadable
<1>3. ~ScanHup(p) /\ ~CloseHup(p)
  BY DEF ScanHup, CloseHup, OrderlyState, OwnInv
<1>4. CASE PollTimeout(p) \/ ScanDone(p) \/ Purge(p)
  <2>1. /\ UNCHANGED <<setup, peer, client, inbuf, backlog, file, curr_indexes, fdses,
                       to_process, workPc, req, sock, op, died>>
        /\ \E label \in {"purge", "poll"} : pollPc' = [pollPc EXCEPT ![p] = label]
    BY <1>0, <1>4, RoomyPurge DEF PollTimeout, ScanDone, Purge, clientVars, workVars, Goto
  <2>2. KeepsSlots
    BY <2>1 DEF KeepsSlots
  <2>3. \A q \in PollThreads : pollPc'[q] # "dec"
    BY <1>0, <2>1 DEF OrderlyState, OwnInv, TypeOK
  <2>4. OwnInv'
    BY <2>1, <2>2, <2>3, KeepsRequests DEF OrderlyState, OwnInv
  <2> QED
    BY <2>1, <2>2, <2>4, PollFrame DEF OrderlyGoal
<1> QED
  BY <1>0, <1>1, <1>2, <1>3, <1>4, RoomyPurge DEF PollThread, WalkAction

LEMMA ServingFacts ==
  ASSUME OrderlyState, NEW w \in Workers, workPc[w] \in Serving
  PROVE  LET c == req[w].conn IN
         /\ sock[w] = req[w].sock /\ sock[w] \in Fds /\ file[sock[w]] = c /\ c \in Conns
         /\ fdses[req[w].id][req[w].slot].fd = sock[w] /\ c # NoConn
         /\ Holds(req[w].id, req[w].slot, sock[w])
         /\ req[w].id \in PollThreads /\ req[w].slot \in Slots
         /\ peer[c] \notin {"none", "rst"} /\ client[c] # "refused"
         /\ ~Bad(sock[w]) /\ ~Broken(sock[w])
         /\ Words(inbuf[c], client[c], InBody(c)) /\ ServedInv(w)
<1>1. Live(req[w])
  BY DEF Live
<1>2. /\ sock[w] = req[w].sock /\ sock[w] \in Fds /\ file[sock[w]] = req[w].conn
      /\ req[w].conn \in Conns /\ req[w].conn # NoConn
      /\ fdses[req[w].id][req[w].slot].fd = sock[w]
      /\ Holds(req[w].id, req[w].slot, sock[w])
      /\ req[w].id \in PollThreads /\ req[w].slot \in Slots
  BY <1>1, LiveFacts DEF OrderlyState, OwnInv, Own
<1>3. /\ peer[req[w].conn] \notin {"none", "rst"}
      /\ client[req[w].conn] # "refused"
  BY <1>2 DEF OrderlyState, OwnInv, DescriptorInv, Accepted
<1>4. ~Bad(sock[w]) /\ ~Broken(sock[w])
  BY <1>2, <1>3 DEF Bad, Broken, Open
<1>5. Words(inbuf[req[w].conn], client[req[w].conn], InBody(req[w].conn)) /\ ServedInv(w)
  BY <1>2, <1>3 DEF OrderlyState, StreamInv
<1> QED
  BY <1>2, <1>3, <1>4, <1>5

(* A worker goes from one label to another and keeps its request and socket. *)
Moves(w, label) ==
  /\ workPc' = [workPc EXCEPT ![w] = label]
  /\ UNCHANGED <<setup, curr_indexes, file, fdses, to_process, req, sock, pollPc, backlog>>

LEMMA MovesSlots ==
  ASSUME OrderlyState, NEW w \in Workers, NEW label \in Serving, workPc[w] \in Serving,
         Moves(w, label)
  PROVE  KeepsSlots /\ \A v \in Workers : workPc'[v] = IF v = w THEN label ELSE workPc[v]
<1>1. \A v \in Workers : workPc'[v] = IF v = w THEN label ELSE workPc[v]
  BY ServerTypesHere DEF Moves, TypeOK
<1>2. KeepsSlots
  BY <1>1 DEF Moves, KeepsSlots, Serving, Failing
<1> QED
  BY <1>1, <1>2

LEMMA MovesOwn ==
  ASSUME OrderlyState, NEW w \in Workers, NEW label \in Serving, workPc[w] \in Serving,
         Moves(w, label), \A c \in Conns : peer'[c] # "rst"
  PROVE  OwnInv'
<1>0. Slots' = Slots
  BY SameParameters DEF Moves
<1>1. KeepsSlots /\ \A v \in Workers : workPc'[v] = IF v = w THEN label ELSE workPc[v]
  BY MovesSlots
<1>2. \A v \in Workers : workPc'[v] \in Serving <=> workPc[v] \in Serving
  BY <1>1
<1>3. \A v \in Workers : workPc'[v] # "failBody"
  BY <1>1 DEF OrderlyState, OwnInv, Serving
<1> QED
  BY <1>0, <1>2, <1>3 DEF Moves, OrderlyState, OwnInv, Own

LEMMA DequeueOrderly ==
  ASSUME OrderlyState, NEW w \in Workers, Dequeue(w)
  PROVE  OrderlyGoal
<1>0. TypeOK
  BY ServerTypesHere
<1>1. /\ UNCHANGED <<setup, peer, client, inbuf, backlog, file, fdses, curr_indexes, pollPc, op>>
      /\ to_process # <<>> /\ to_process' = Tail(to_process) /\ workPc[w] = "wait"
      /\ workPc' = [workPc EXCEPT ![w] = "op"]
      /\ req' = [req EXCEPT ![w] = Head(to_process)]
      /\ sock' = [sock EXCEPT ![w] = fdses[Head(to_process).id][Head(to_process).slot].fd]
  BY DEF Dequeue, clientVars, pollVars, walkVars, WorkerAt
<1>2. \A v \in Workers : v # w => workPc'[v] = workPc[v] /\ req'[v] = req[v] /\ sock'[v] = sock[v]
  BY <1>0, <1>1 DEF TypeOK
<1>3. /\ workPc'[w] = "op" /\ req'[w] = to_process[1] /\ 1 \in 1 .. Len(to_process)
      /\ sock'[w] = fdses[to_process[1].id][to_process[1].slot].fd
  BY <1>0, <1>1, QueueFacts DEF TypeOK
<1>4. \A i \in 1 .. Len(to_process') :
        to_process'[i] = to_process[i + 1] /\ i + 1 \in 1 .. Len(to_process)
  BY <1>0, <1>1, QueueFacts DEF TypeOK
<1>5. KeepsSlots
  BY <1>1, <1>2, <1>3 DEF KeepsSlots, Failing
<1>6. KeepsServed
  BY <1>1, <1>2, <1>3 DEF KeepsServed
<1>7. DescriptorInv'
  <2>1. Accepted' = Accepted
    BY <1>1 DEF Accepted
  <2> QED
    BY <1>1, <1>5, <2>1, KeepsDescriptors DEF OrderlyState, DescriptorInv
<1>8. StreamInv'
  BY <1>1, <1>6, KeepsStreams DEF OrderlyState
<1>9. OwnInv'
  <2>1. \A i \in 1 .. Len(to_process) : Own(to_process[i])
    BY DEF OrderlyState, OwnInv
  <2>2. Slots' = Slots
    BY <1>1, SameParameters
  <2>3. \A i \in 1 .. Len(to_process') :
          LET r == to_process'[i] IN
          fdses'[r.id][r.slot].fd = r.sock /\ file'[r.sock] = r.conn /\ r.conn # NoConn
    BY <1>1, <1>4, <2>1 DEF Own
  <2>4. ASSUME NEW v \in Workers
        PROVE  /\ workPc'[v] # "failBody"
               /\ workPc'[v] \in Serving =>
                    LET r == req'[v] IN
                    /\ fdses'[r.id][r.slot].fd = r.sock /\ file'[r.sock] = r.conn
                    /\ r.conn # NoConn /\ sock'[v] = r.sock
    <3>1. CASE v = w
      BY <1>1, <1>3, <2>1, <3>1 DEF Own
    <3>2. CASE v # w
      <4>1. /\ workPc[v] # "failBody"
            /\ workPc[v] \in Serving => Own(req[v]) /\ sock[v] = req[v].sock
        BY DEF OrderlyState, OwnInv
      <4> QED
        BY <1>1, <1>2, <3>2, <4>1 DEF Own
    <3> QED
      BY <3>1, <3>2
  <2>5. /\ \A c \in Conns : peer'[c] # "rst"
        /\ \A p \in PollThreads : pollPc'[p] # "dec"
        /\ \A p \in PollThreads, s \in Slots : fdses'[p][s].revents # "hup"
    BY <1>1 DEF OrderlyState, OwnInv
  <2> QED
    BY <2>2, <2>3, <2>4, <2>5 DEF OwnInv, Own
<1> QED
  BY <1>7, <1>8, <1>9 DEF OrderlyGoal

(* The streams after worker w has read a word of its connection, or answered. *)
LEMMA StreamsServed ==
  ASSUME OrderlyState, NEW w \in Workers, workPc[w] \in Serving, peer' = peer, req' = req,
         \A v \in Workers \ {w} : workPc'[v] = workPc[v] /\ op'[v] = op[v],
         \A d \in Conns \ {req[w].conn} : inbuf'[d] = inbuf[d] /\ client'[d] = client[d],
         Words(inbuf[req[w].conn], client[req[w].conn], InBody(req[w].conn))',
         client'[req[w].conn] \in {client[req[w].conn], "idle"},
         ServedInv(w)'
  PROVE  StreamInv'
<1> DEFINE c == req[w].conn
<1>1. c \in Conns /\ peer[c] # "none"
  BY ServingFacts
<1>2. \A d \in Conns \ {c} : InBody(d)' <=> InBody(d)
  BY DEF InBody
<1>3. ASSUME NEW d \in Conns
      PROVE  /\ peer'[d] = "none" => client'[d] = "idle" /\ inbuf'[d] = <<>>
             /\ peer'[d] = "fin" => client'[d] \in {"idle", "refused"}
             /\ client'[d] # "refused" => Words(inbuf[d], client[d], InBody(d))'
  <2>0. /\ peer[d] = "none" => client[d] = "idle" /\ inbuf[d] = <<>>
        /\ peer[d] = "fin" => client[d] \in {"idle", "refused"}
    BY DEF OrderlyState, StreamInv
  <2>1. CASE d = c
    BY <1>1, <2>0, <2>1 DEF Words
  <2>2. CASE d # c
    <3>1. /\ inbuf'[d] = inbuf[d] /\ client'[d] = client[d] /\ (InBody(d)' <=> InBody(d))
          /\ client[d] # "refused" => Words(inbuf[d], client[d], InBody(d))
      BY <1>2, <2>2 DEF OrderlyState, StreamInv
    <3> QED
      BY <2>0, <3>1 DEF Words
  <2> QED
    BY <2>1, <2>2
<1>4. ASSUME NEW v \in Workers PROVE ServedInv(v)'
  <2>1. CASE v # w /\ workPc[v] \in Serving
    <3>1. req[v].conn \in Conns \ {c}
      BY <2>1, LiveFacts, OneServer DEF Live
    <3>2. ServedInv(v)
      BY DEF OrderlyState, StreamInv
    <3> QED
      BY <2>1, <3>1, <3>2 DEF ServedInv
  <2>2. CASE v # w /\ workPc[v] \notin Serving
    BY <2>2 DEF ServedInv, Serving
  <2> QED
    BY <2>1, <2>2
<1> QED
  BY <1>3, <1>4 DEF StreamInv

LEMMA ReadOperationOrderly ==
  ASSUME OrderlyState, NEW w \in Workers, ReadOperation(w)
  PROVE  OrderlyGoal
<1> DEFINE c == req[w].conn
           q == inbuf[c]
           o == q[1]
           label == IF HasBody(o) THEN "body" ELSE "reply"
<1>0. TypeOK /\ workPc[w] = "op" /\ workPc[w] \in Serving
  BY ServerTypesHere DEF ReadOperation, Serving
<1>1. /\ sock[w] \in Fds /\ file[sock[w]] = c /\ c \in Conns /\ client[c] # "refused"
      /\ Words(q, client[c], InBody(c)) /\ q \in WordSeq
  BY <1>0, ServingFacts, WordTypes
<1>2. q # <<>> /\ Head(q) = o /\ o \in operation_to_f
  BY <1>1, TailShift DEF ReadOperation, HasWord
<1>3. /\ UNCHANGED <<peer, client, sock>> /\ Moves(w, label) /\ label \in Serving
      /\ inbuf' = [inbuf EXCEPT ![c] = Tail(q)] /\ op' = [op EXCEPT ![w] = o]
  BY <1>1, <1>2 DEF ReadOperation, clientVars, pollVars, walkVars, WorkerAt, Moves, Consume, Serving
<1>4. ~InBody(c)
  BY <1>0, OneServer DEF InBody, Serving
<1>5. /\ inbuf'[c] = Tail(q) /\ \A d \in Conns \ {c} : inbuf'[d] = inbuf[d]
      /\ op'[w] = o /\ \A v \in Workers \ {w} : op'[v] = op[v]
  BY <1>0, <1>1, <1>3 DEF TypeOK
<1>6. KeepsSlots /\ \A v \in Workers : workPc'[v] = IF v = w THEN label ELSE workPc[v]
  BY <1>0, <1>3, MovesSlots
<1>7. DescriptorInv'
  <2>1. Accepted' = Accepted
    BY <1>3 DEF Accepted, Moves
  <2> QED
    BY <1>3, <1>6, <2>1, KeepsDescriptors DEF OrderlyState, DescriptorInv
<1>8. OwnInv'
  BY <1>0, <1>3, MovesOwn DEF OrderlyState, OwnInv
<1>9. StreamInv'
  <2>1. /\ HasBody(o) => IF Tail(q) = <<>> THEN client[c] = o ELSE Tail(q)[1] = "body"
        /\ HasBody(o) /\ HasReply(o) /\ Tail(q) # <<>> => Len(Tail(q)) = 1 /\ client[c] = "await"
        /\ ~HasBody(o) /\ HasReply(o) => Tail(q) = <<>> /\ client[c] = "await"
    <3>1. Words(q, client[c], FALSE)
      BY <1>1, <1>4 DEF Words
    <3> HIDE DEF q
    <3> QED
      BY <1>1, <1>2, <3>1, WordsFirst, Zenon
  <2>2. Words(Tail(q), client[c], HasBody(o))
    <3>1. InBody(c) \in BOOLEAN
      BY DEF InBody
    <3> HIDE DEF q
    <3> QED
      BY <1>1, <1>2, <3>1, WordsRead, Zenon
  <2>3. InBody(c)' <=> HasBody(o)
    BY <1>3, <1>4, <1>6 DEF InBody, Moves
  <2>4. Words(inbuf[c], client[c], InBody(c))'
    BY <1>3, <1>5, <2>2, <2>3 DEF Words, Moves
  <2>5. ~HasBody(o) => HasReply(o)
    BY <1>2 DEF operation_to_f, HasBody, HasReply
  <2>6. ServedInv(w)'
    <3>1. req'[w].conn = c /\ inbuf'[c] = Tail(q) /\ client'[c] = client[c] /\ op'[w] = o
          /\ workPc'[w] = IF HasBody(o) THEN "body" ELSE "reply"
      BY <1>3, <1>5, <1>6 DEF Moves
    <3> HIDE DEF c, q, o
    <3> QED
      BY <2>1, <2>5, <3>1 DEF ServedInv
  <2> QED
    BY <1>0, <1>3, <1>5, <1>6, <2>4, <2>6, StreamsServed DEF Moves
<1> QED
  BY <1>7, <1>8, <1>9 DEF OrderlyGoal

LEMMA ReadBodyOrderly ==
  ASSUME OrderlyState, NEW w \in Workers, ReadBody(w)
  PROVE  OrderlyGoal
<1> DEFINE c == req[w].conn
           q == inbuf[c]
           label == IF HasReply(op[w]) THEN "reply" ELSE "rearm"
<1>0. TypeOK /\ workPc[w] = "body" /\ workPc[w] \in Serving
  BY ServerTypesHere DEF ReadBody, Serving
<1>1. /\ sock[w] = req[w].sock /\ sock[w] \in Fds /\ file[sock[w]] = c /\ c \in Conns
      /\ Words(q, client[c], InBody(c)) /\ q \in WordSeq /\ ServedInv(w)
  BY <1>0, ServingFacts, WordTypes
<1>2. /\ UNCHANGED <<peer, client, op>> /\ Moves(w, label) /\ label \in Serving
      /\ q # <<>> /\ inbuf' = [inbuf EXCEPT ![c] = Tail(q)]
  BY <1>1 DEF ReadBody, HasWord, Consume, clientVars, pollVars, walkVars, WorkerAt, Moves, Serving
<1>3. /\ q[1] = "body" /\ ~HasBody(q[1]) /\ InBody(c)
      /\ HasReply(op[w]) => Len(q) = 1 /\ client[c] = "await"
  BY <1>0, <1>1, <1>2 DEF ServedInv, InBody, HasBody
<1>4. inbuf'[c] = Tail(q) /\ \A d \in Conns \ {c} : inbuf'[d] = inbuf[d]
  BY <1>0, <1>1, <1>2 DEF TypeOK
<1>5. KeepsSlots /\ \A v \in Workers : workPc'[v] = IF v = w THEN label ELSE workPc[v]
  BY <1>0, <1>2, MovesSlots
<1>6. DescriptorInv'
  <2>1. Accepted' = Accepted
    BY <1>2 DEF Accepted, Moves
  <2> QED
    BY <1>2, <1>5, <2>1, KeepsDescriptors DEF OrderlyState, DescriptorInv
<1>7. OwnInv'
  BY <1>0, <1>2, MovesOwn DEF OrderlyState, OwnInv
<1>8. StreamInv'
  <2>1. Words(Tail(q), client[c], FALSE)
    <3>1. Words(Tail(q), client[c], HasBody(q[1]))
      BY <1>1, <1>2, <1>3, WordsRead
    <3> QED
      BY <1>3, <3>1 DEF Words
  <2>2. ~InBody(c)'
    <3>1. \A v \in Workers : workPc[v] = "body" /\ req[v].conn = c => v = w
      BY <1>0, OneServer DEF Serving
    <3> QED
      BY <1>2, <1>5, <3>1 DEF InBody, Moves
  <2>3. Words(inbuf[c], client[c], InBody(c))'
    BY <1>2, <1>4, <2>1, <2>2 DEF Words, Moves
  <2>4. HasReply(op[w]) => Tail(q) = <<>>
    BY <1>1, <1>2, <1>3, TailShift
  <2>5. ServedInv(w)'
    <3>1. req'[w].conn = c /\ inbuf'[c] = Tail(q) /\ client'[c] = client[c] /\ op'[w] = op[w]
          /\ workPc'[w] = IF HasReply(op[w]) THEN "reply" ELSE "rearm"
      BY <1>2, <1>4, <1>5 DEF Moves
    <3>2. HasReply(op[w]) => client[c] = "await"
      BY <1>3
    <3> HIDE DEF c, q
    <3> QED
      BY <2>4, <3>1, <3>2 DEF ServedInv
  <2> QED
    BY <1>0, <1>2, <1>4, <1>5, <2>3, <2>5, StreamsServed DEF Moves
<1> QED
  BY <1>6, <1>7, <1>8 DEF OrderlyGoal

LEMMA ReplyOrderly ==
  ASSUME OrderlyState, NEW w \in Workers, Reply(w)
  PROVE  OrderlyGoal
<1> DEFINE c == req[w].conn
<1>0. TypeOK /\ workPc[w] = "reply" /\ workPc[w] \in Serving
  BY ServerTypesHere DEF Reply, Serving
<1>1. /\ file[sock[w]] = c /\ c \in Conns /\ inbuf[c] = <<>> /\ client[c] = "await"
  BY <1>0, ServingFacts DEF ServedInv
<1>2. peer[c] # "fin"
  BY <1>1 DEF OrderlyState, StreamInv
<1>3. /\ UNCHANGED <<peer, inbuf, op>> /\ Moves(w, "rearm") /\ "rearm" \in Serving
      /\ client' = [client EXCEPT ![c] = "idle"]
  BY <1>1, <1>2 DEF Reply, pollVars, walkVars, WorkerAt, Moves, Serving
<1>4. \A d \in Conns : client'[d] = IF d = c THEN "idle" ELSE client[d]
  BY <1>0, <1>3 DEF TypeOK
<1>5. KeepsSlots /\ \A v \in Workers : workPc'[v] = IF v = w THEN "rearm" ELSE workPc[v]
  BY <1>0, <1>3, MovesSlots
<1>6. DescriptorInv'
  <2>1. Accepted' = Accepted
    BY <1>3 DEF Accepted, Moves
  <2>2. \A f \in Fds : file[f] # NoConn => client'[file[f]] # "refused"
    <3>1. \A f \in Fds : file[f] # NoConn => file[f] \in Conns /\ client[file[f]] # "refused"
      BY <1>0 DEF OrderlyState, DescriptorInv, TypeOK
    <3> QED
      BY <1>4, <3>1
  <2>3. \A d \in Conns : client'[d] = "refused" => d \in Accepted'
    BY <1>4, <2>1 DEF OrderlyState, DescriptorInv
  <2> QED
    BY <1>5, <2>1, <2>2, <2>3, KeepsDescriptors DEF OrderlyState
<1>7. OwnInv'
  BY <1>0, <1>3, MovesOwn DEF OrderlyState, OwnInv
<1>8. StreamInv'
  <2>1. inbuf'[c] = <<>> /\ client'[c] = "idle"
    BY <1>1, <1>3, <1>4
  <2>2. Words(inbuf[c], client[c], InBody(c))'
    BY <1>3, <2>1 DEF Words, Moves
  <2>3. ServedInv(w)'
    BY <1>5 DEF ServedInv
  <2> QED
    BY <1>0, <1>3, <1>4, <1>5, <2>1, <2>2, <2>3, StreamsServed DEF Moves
<1> QED
  BY <1>6, <1>7, <1>8 DEF OrderlyGoal

(* Worker w is through with its request, or gives it up. *)
Kept(r) == fdses'[r.id][r.slot].fd = r.sock /\ file'[r.sock] = r.conn

LEMMA OtherRequests ==
  ASSUME OrderlyState, NEW w \in Workers, Busy(w)
  PROVE  /\ \A i \in 1 .. Len(to_process) : ~SameSlot(to_process[i], req[w])
         /\ \A v \in Workers \ {w} : Busy(v) => ~SameSlot(req[v], req[w])
BY DEF OrderlyState, ServerInv, ExclusiveInv, RequestsExclusive

LEMMA OwnWithout ==
  ASSUME OrderlyState, NEW w \in Workers, UNCHANGED <<setup, to_process, peer, pollPc>>,
         \A v \in Workers \ {w} : workPc'[v] = workPc[v] /\ req'[v] = req[v] /\ sock'[v] = sock[v],
         workPc'[w] \in {"wait", "failOp"},
         \A i \in 1 .. Len(to_process) : Kept(to_process[i]),
         \A v \in Workers \ {w} : workPc[v] \in Serving => Kept(req[v]),
         \A p \in PollThreads, s \in Slots : fdses'[p][s].revents # "hup"
  PROVE  OwnInv'
<1>1. Slots' = Slots
  BY SameParameters
<1>2. \A i \in 1 .. Len(to_process') :
        LET r == to_process'[i] IN
        fdses'[r.id][r.slot].fd = r.sock /\ file'[r.sock] = r.conn /\ r.conn # NoConn
  BY DEF OrderlyState, OwnInv, Own, Kept
<1>3. ASSUME NEW v \in Workers
      PROVE  /\ workPc'[v] # "failBody"
             /\ workPc'[v] \in Serving =>
                  LET r == req'[v] IN
                  /\ fdses'[r.id][r.slot].fd = r.sock /\ file'[r.sock] = r.conn
                  /\ r.conn # NoConn /\ sock'[v] = r.sock
  <2>1. CASE v = w
    BY <2>1 DEF Serving
  <2>2. CASE v # w
    <3>1. /\ workPc[v] # "failBody"
          /\ workPc[v] \in Serving => Own(req[v]) /\ sock[v] = req[v].sock /\ Kept(req[v])
      BY <2>2 DEF OrderlyState, OwnInv
    <3> QED
      BY <2>2, <3>1 DEF Own, Kept
  <2> QED
    BY <2>1, <2>2
<1>4. /\ \A c \in Conns : peer'[c] # "rst"
      /\ \A p \in PollThreads : pollPc'[p] # "dec"
  BY DEF OrderlyState, OwnInv
<1> QED
  BY <1>1, <1>2, <1>3, <1>4 DEF OwnInv, Own

LEMMA RearmOrderly ==
  ASSUME OrderlyState, NEW w \in Workers, Rearm(w)
  PROVE  OrderlyGoal
<1> DEFINE p == req[w].id
           s == req[w].slot
<1>0. TypeOK /\ workPc[w] = "rearm" /\ workPc[w] \in Serving /\ p \in PollThreads /\ s \in Slots
  BY ServerTypesHere, ServingFacts DEF Rearm, Serving
<1>1. /\ UNCHANGED <<setup, peer, client, inbuf, backlog, file, curr_indexes, to_process, pollPc>>
      /\ fdses' = [fdses EXCEPT ![p][s].events = TRUE]
  BY DEF Rearm, clientVars, pollVars, walkVars
<1>2. /\ SameElsewhere(p, s) /\ fdses'[p][s].fd = fdses[p][s].fd
      /\ fdses'[p][s].revents = fdses[p][s].revents
  BY <1>0, <1>1, SetArmed
<1>3. \A q \in PollThreads, t \in Slots :
        fdses'[q][t].fd = fdses[q][t].fd /\ fdses'[q][t].revents = fdses[q][t].revents
  BY <1>2 DEF SameElsewhere
<1>4. /\ workPc'[w] = "wait"
      /\ \A v \in Workers \ {w} : /\ workPc'[v] = workPc[v] /\ req'[v] = req[v]
                                  /\ sock'[v] = sock[v] /\ op'[v] = op[v]
  BY <1>0 DEF Rearm, NextIteration, WorkerAt, TypeOK
<1>5. KeepsSlots
  BY <1>0, <1>1, <1>3, <1>4 DEF KeepsSlots, Failing
<1>6. DescriptorInv'
  <2>1. Accepted' = Accepted
    BY <1>1 DEF Accepted
  <2> QED
    BY <1>1, <1>5, <2>1, KeepsDescriptors DEF OrderlyState, DescriptorInv
<1>7. StreamInv'
  <2>1. KeepsServed
    BY <1>0, <1>4 DEF KeepsServed
  <2> QED
    BY <1>1, <2>1, KeepsStreams DEF OrderlyState
<1>8. OwnInv'
  <2>1. \A i \in 1 .. Len(to_process) : Kept(to_process[i])
    <3>1. \A i \in 1 .. Len(to_process) : to_process[i] \in Request /\ Own(to_process[i])
      BY LiveFacts DEF Live
    <3> QED
      BY <1>5, <3>1, KeepsOwn DEF Kept
  <2>2. \A v \in Workers : workPc[v] \in Serving => Kept(req[v])
    <3>1. \A v \in Workers : workPc[v] \in Serving => req[v] \in Request /\ Own(req[v])
      BY LiveFacts DEF Live
    <3> QED
      BY <1>5, <3>1, KeepsOwn DEF Kept
  <2>3. \A q \in PollThreads, t \in Slots : fdses'[q][t].revents # "hup"
    BY <1>3 DEF OrderlyState, OwnInv
  <2> QED
    BY <1>1, <1>4, <2>1, <2>2, <2>3, OwnWithout
<1> QED
  BY <1>6, <1>7, <1>8 DEF OrderlyGoal

LEMMA EofInOperationOrderly ==
  ASSUME OrderlyState, NEW w \in Workers, EofInOperation(w)
  PROVE  OrderlyGoal
<1> DEFINE f0 == sock[w]
           p0 == req[w].id
           s0 == req[w].slot
<1>0. TypeOK /\ workPc[w] = "op" /\ workPc[w] \in Serving /\ Busy(w) /\ Live(req[w])
  BY ServerTypesHere DEF EofInOperation, Serving, Busy, Live
<1>1. /\ f0 \in Fds /\ p0 \in PollThreads /\ s0 \in Slots /\ fdses[p0][s0].fd = f0
      /\ Holds(p0, s0, f0) /\ req[w].sock = f0
  BY <1>0, ServingFacts
<1>2. /\ UNCHANGED <<setup, peer, client, inbuf, backlog, fdses, curr_indexes, to_process,
                     pollPc, req, sock, op>>
      /\ workPc' = [workPc EXCEPT ![w] = "failOp"]
      /\ file' = Closed(f0)
  BY <1>1 DEF EofInOperation, BeginFailedRead, WorkerAt, clientVars, pollVars, walkVars
<1>3. /\ workPc'[w] = "failOp"
      /\ \A v \in Workers \ {w} : workPc'[v] = workPc[v]
      /\ file'[f0] = NoConn /\ \A f \in Fds \ {f0} : file'[f] = file[f]
  <2>1. f0 # NoFd
    BY <1>1, FdFacts
  <2> QED
    BY <1>0, <1>1, <1>2, <2>1 DEF TypeOK, Closed
<1> HIDE DEF f0, p0, s0
<1>4. ASSUME NEW p \in PollThreads, NEW s \in Slots, NEW f \in Fds
      PROVE  Holds(p, s, f)' <=> Holds(p, s, f) /\ f # f0
  <2>1. s \in Used(p)' <=> s \in Used(p)
    BY <1>2, SameParameters DEF Used
  <2>2. Erasing(p, s)' <=> Erasing(p, s) \/ (p = p0 /\ s = s0)
    BY <1>0, <1>2, <1>3 DEF Erasing, p0, s0
  <2>3. Holds(p, s, f) /\ f = f0 => p = p0 /\ s = s0
    BY <1>1 DEF OrderlyState, DescriptorInv
  <2>4. p = p0 /\ s = s0 => fdses[p][s].fd = f0
    BY <1>1
  <2> QED
    BY <1>2, <2>1, <2>2, <2>3, <2>4 DEF Holds
<1>5. DescriptorInv'
  <2>1. Accepted' = Accepted /\ Slots' = Slots
    BY <1>2, SameParameters DEF Accepted
  <2>2. \A f \in Fds : file'[f] # NoConn => f # f0 /\ file'[f] = file[f]
    BY <1>3
  <2>3. \A f, g \in Fds : file'[f] # NoConn /\ f # g => file'[f] # file'[g]
    BY <1>3, <2>2 DEF OrderlyState, DescriptorInv
  <2>4. \A f \in Fds : file'[f] # NoConn =>
          /\ file'[f] \in Accepted /\ client[file'[f]] # "refused"
          /\ \E p \in PollThreads, s \in Slots : Holds(p, s, f)
    BY <2>2 DEF OrderlyState, DescriptorInv
  <2>5. \A p, q \in PollThreads, s, t \in Slots, f \in Fds :
         Holds(p, s, f) => file[f] # NoConn /\ (Holds(q, t, f) => p = q /\ s = t)
    BY DEF OrderlyState, DescriptorInv
  <2>6. \A c \in Conns : client[c] = "refused" => c \in Accepted
    BY DEF OrderlyState, DescriptorInv
  <2> QED
    BY <1>2, <1>3, <1>4, <2>1, <2>2, <2>3, <2>4, <2>5, <2>6 DEF DescriptorInv
<1>6. StreamInv'
  <2>1. KeepsServed
    BY <1>0, <1>2, <1>3 DEF KeepsServed
  <2> QED
    BY <1>2, <2>1, KeepsStreams DEF OrderlyState
<1>7. OwnInv'
  <2>1. ASSUME NEW r, Live(r), ~SameSlot(r, req[w]) PROVE Kept(r)
    <3>1. Own(r) /\ r.sock \in Fds
      BY <2>1, LiveFacts
    <3>2. r.sock # f0
      BY <1>0, <1>1, <2>1, LiveSlots
    <3> QED
      BY <1>2, <1>3, <3>1, <3>2 DEF Own, Kept
  <2>2. \A i \in 1 .. Len(to_process) : Kept(to_process[i])
    BY <1>0, <2>1, OtherRequests DEF Live
  <2>3. \A v \in Workers \ {w} : workPc[v] \in Serving => Kept(req[v])
    BY <1>0, <2>1, OtherRequests DEF Live, Busy, Serving
  <2>4. \A q \in PollThreads, t \in Slots : fdses'[q][t].revents # "hup"
    BY <1>2 DEF OrderlyState, OwnInv
  <2> QED
    BY <1>2, <1>3, <2>2, <2>3, <2>4, OwnWithout
<1> QED
  BY <1>5, <1>6, <1>7 DEF OrderlyGoal

LEMMA EndFailedReadOrderly ==
  ASSUME OrderlyState, NEW w \in Workers, EndFailedRead(w)
  PROVE  OrderlyGoal
<1> DEFINE p0 == req[w].id
           s0 == req[w].slot
<1>0. /\ TypeOK /\ workPc[w] = "failOp" /\ Busy(w)
      /\ p0 \in PollThreads /\ s0 \in Slots /\ NextIteration(w)
  <2>1. TypeOK /\ workPc[w] = "failOp" /\ NextIteration(w)
    BY ServerTypesHere DEF EndFailedRead, OrderlyState, OwnInv
  <2>2. req[w] \in Request \union {NoRequest}
    BY <2>1 DEF TypeOK
  <2> QED
    BY <2>1, <2>2, RequestSlot DEF Busy
<1>1. /\ UNCHANGED <<setup, peer, client, inbuf, backlog, file, curr_indexes, to_process, pollPc>>
      /\ fdses' = [fdses EXCEPT ![p0][s0].fd = NoFd, ![p0][s0].revents = "none"]
  BY DEF EndFailedRead, clientVars, pollVars, walkVars
<1>2. /\ workPc'[w] = "wait"
      /\ \A v \in Workers \ {w} : /\ workPc'[v] = workPc[v] /\ req'[v] = req[v]
                                  /\ sock'[v] = sock[v] /\ op'[v] = op[v]
  BY <1>0 DEF NextIteration, WorkerAt, TypeOK
<1>3. SameElsewhere(p0, s0) /\ fdses'[p0][s0].fd = NoFd /\ fdses'[p0][s0].revents = "none"
  BY <1>0, <1>1, SetErased
<1> HIDE DEF p0, s0
<1>4. ASSUME NEW p \in PollThreads, NEW s \in Slots, NEW f \in Fds
      PROVE  Holds(p, s, f)' <=> Holds(p, s, f)
  <2>1. s \in Used(p)' <=> s \in Used(p)
    BY <1>1, SameParameters DEF Used
  <2>2. CASE p = p0 /\ s = s0
    <3>1. Erasing(p, s)
      BY <1>0, <2>2 DEF Erasing, p0, s0
    <3>2. fdses'[p][s].fd # f
      BY <1>3, <2>2, FdFacts
    <3> QED
      BY <3>1, <3>2 DEF Holds
  <2>3. CASE ~(p = p0 /\ s = s0)
    <3>1. Erasing(p, s)' <=> Erasing(p, s)
      BY <1>2, <2>3 DEF Erasing, p0, s0
    <3>2. fdses'[p][s].fd = fdses[p][s].fd
      BY <1>3, <2>3 DEF SameElsewhere
    <3> QED
      BY <2>1, <3>1, <3>2 DEF Holds
  <2> QED
    BY <2>2, <2>3
<1>5. DescriptorInv'
  <2>1. Accepted' = Accepted /\ Slots' = Slots
    BY <1>1, SameParameters DEF Accepted
  <2> QED
    BY <1>1, <1>4, <2>1 DEF OrderlyState, DescriptorInv
<1>6. StreamInv'
  <2>1. KeepsServed
    BY <1>0, <1>2 DEF KeepsServed
  <2> QED
    BY <1>1, <2>1, KeepsStreams DEF OrderlyState
<1>7. OwnInv'
  <2>1. ASSUME NEW r, Live(r), ~SameSlot(r, req[w]) PROVE Kept(r)
    <3>1. Own(r) /\ r.id \in PollThreads /\ r.slot \in Slots
      BY <2>1, LiveFacts
    <3>2. fdses'[r.id][r.slot] = fdses[r.id][r.slot]
      BY <1>3, <2>1, <3>1 DEF SameElsewhere, SameSlot, p0, s0
    <3> QED
      BY <1>1, <3>1, <3>2 DEF Own, Kept
  <2>2. \A i \in 1 .. Len(to_process) : Kept(to_process[i])
    BY <1>0, <2>1, OtherRequests DEF Live
  <2>3. \A v \in Workers \ {w} : workPc[v] \in Serving => Kept(req[v])
    BY <1>0, <2>1, OtherRequests DEF Live, Busy, Serving
  <2>4. \A q \in PollThreads, t \in Slots : fdses'[q][t].revents # "hup"
    BY <1>3 DEF SameElsewhere, OrderlyState, OwnInv
  <2> QED
    BY <1>1, <1>2, <2>2, <2>3, <2>4, OwnWithout
<1> QED
  BY <1>5, <1>6, <1>7 DEF OrderlyGoal

LEMMA StutterOrderly ==
  ASSUME OrderlyState,
         UNCHANGED <<setup, peer, client, inbuf, backlog, file, fdses, curr_indexes, pollPc,
                     to_process, workPc, req, sock, op>>
  PROVE  OrderlyGoal
<1>1. KeepsSlots
  BY DEF KeepsSlots
<1>2. DescriptorInv' /\ StreamInv'
  BY <1>1, PollFrame
<1>3. OwnInv'
  BY <1>1, KeepsRequests DEF OrderlyState, OwnInv
<1> QED
  BY <1>2, <1>3 DEF OrderlyGoal

(* The errors that orderly clients never cause. *)
LEMMA NoReadFails ==
  ASSUME OrderlyState, NEW w \in Workers
  PROVE  ~ReadThrows(w) /\ ~EofInBody(w) /\ ~ReplyFails(w)
<1>1. ~ReadThrows(w)
  BY ServingFacts DEF ReadThrows, Serving
<1>2. ~EofInBody(w)
  <2> SUFFICES ASSUME EofInBody(w) PROVE FALSE
    OBVIOUS
  <2> DEFINE c == req[w].conn
  <2>1. workPc[w] = "body" /\ workPc[w] \in Serving
    BY DEF EofInBody, Serving
  <2>2. c \in Conns /\ file[sock[w]] = c /\ ServedInv(w)
    BY <2>1, ServingFacts
  <2>3. peer[c] = "fin" /\ inbuf[c] = <<>>
    BY <2>2 DEF EofInBody, AtEof
  <2>4. HasBody(client[c])
    BY <2>1, <2>2, <2>3 DEF ServedInv
  <2> QED
    BY <2>2, <2>3, <2>4 DEF OrderlyState, StreamInv, HasBody
<1>3. ~ReplyFails(w)
  BY ServingFacts DEF ReplyFails, Serving
<1> QED
  BY <1>1, <1>2, <1>3

LEMMA OnlyKillIsUnknown ==
  ASSUME OrderlyState, NEW w \in Workers, UnknownOperation(w)
  PROVE  "kill" \in Ops
<1> DEFINE c == req[w].conn
           q == inbuf[c]
<1>0. TypeOK /\ workPc[w] = "op" /\ workPc[w] \in Serving
  BY ServerTypesHere DEF UnknownOperation, Serving
<1>1. /\ file[sock[w]] = c /\ c \in Conns
      /\ Words(q, client[c], InBody(c)) /\ q \in WordSeq
  BY <1>0, ServingFacts, WordTypes
<1>2. q # <<>> /\ Head(q) = q[1] /\ q[1] \notin operation_to_f /\ q[1] \in Ops \union {"body"}
  <2>1. HasWord(sock[w]) /\ Head(q) \notin operation_to_f
    BY <1>1 DEF UnknownOperation
  <2>2. q # <<>> /\ Head(q) \in Ops \union {"body"}
    BY <1>0, <1>1, <2>1, ReadFacts
  <2>3. Head(q) = q[1]
    BY <1>1, <2>2, TailShift
  <2> QED
    BY <2>1, <2>2, <2>3
<1>3. ~InBody(c)
  BY <1>0, OneServer DEF InBody, Serving
<1>4. Words(q, client[c], FALSE)
  BY <1>1, <1>3 DEF Words
<1> HIDE DEF q
<1>5. q[1] \in AllOps
  BY <1>1, <1>2, <1>4, WordsFirst, Zenon
<1> QED
  BY <1>2, <1>5 DEF AllOps, operation_to_f

LEMMA WorkerOrderly ==
  ASSUME OrderlyState, NEW w \in Workers, Worker(w)
  PROVE  OrderlyGoal /\ (died' = died \/ "kill" \in Ops)
<1>1. CASE Dequeue(w)
  BY <1>1, DequeueOrderly DEF Dequeue
<1>2. CASE ReadOperation(w)
  BY <1>2, ReadOperationOrderly DEF ReadOperation
<1>3. CASE UnknownOperation(w)
  <2>1. UNCHANGED <<setup, peer, client, inbuf, backlog, file, fdses, curr_indexes, pollPc,
                    to_process, workPc, req, sock, op>>
    BY <1>3 DEF UnknownOperation, Die, clientVars, pollVars, walkVars, workVars
  <2> QED
    BY <1>3, <2>1, StutterOrderly, OnlyKillIsUnknown
<1>4. CASE ReadBody(w)
  BY <1>4, ReadBodyOrderly DEF ReadBody
<1>5. CASE EofInOperation(w)
  BY <1>5, EofInOperationOrderly DEF EofInOperation, BeginFailedRead
<1>6. CASE EndFailedRead(w)
  BY <1>6, EndFailedReadOrderly DEF EndFailedRead
<1>7. CASE Reply(w)
  BY <1>7, ReplyOrderly DEF Reply
<1>8. CASE Rearm(w)
  BY <1>8, RearmOrderly DEF Rearm
<1> QED
  BY <1>1, <1>2, <1>3, <1>4, <1>5, <1>6, <1>7, <1>8, NoReadFails DEF Worker

-----------------------------------------------------------------------------
(* Orderly clients: the theorems.                                             *)

LEMMA InitOrderly == ASSUME Init PROVE OrderlyInv /\ OrderlyClientsAreSafe
<1>0. TypeOK /\ died = "no"
  BY InitTypes DEF Init
<1>1. /\ \A f \in Fds : file[f] = NoConn
      /\ \A c \in Conns : client[c] = "idle" /\ inbuf[c] = <<>> /\ peer[c] = "none"
      /\ \A p \in PollThreads, s \in Slots : fdses[p][s].fd = NoFd /\ fdses[p][s].revents = "none"
      /\ \A p \in PollThreads : pollPc[p] = "poll"
      /\ \A w \in Workers : workPc[w] = "wait"
      /\ Len(to_process) = 0
  BY DEF Init
<1>2. \A p \in PollThreads, s \in Slots, f \in Fds : ~Holds(p, s, f)
  BY <1>1, FdFacts DEF Holds
<1>3. DescriptorInv
  BY <1>1, <1>2 DEF DescriptorInv
<1>4. OwnInv
  BY <1>1 DEF OwnInv, Serving
<1>5. \A c \in Conns : Words(inbuf[c], client[c], InBody(c))
  BY <1>1 DEF Words
<1>6. \A w \in Workers : ServedInv(w)
  BY <1>1 DEF ServedInv
<1>7. StreamInv
  BY <1>1, <1>5, <1>6 DEF StreamInv
<1> QED
  BY <1>0, <1>3, <1>4, <1>7 DEF OrderlyInv, OrderlyClientsAreSafe

OrderlyServer == ServerInv /\ OrderlyInv /\ OrderlyClientsAreSafe

LEMMA StepOrderly ==
  ASSUME OrderlyServer, [Next]_vars
  PROVE  OrderlyInv' /\ OrderlyClientsAreSafe'
<1>1. setup' = setup
  BY SameSetup
<1>2. (Orderly' <=> Orderly) /\ (Roomy' <=> Roomy) /\ Ops' = Ops
  BY <1>1 DEF Orderly, Roomy, Ops
<1> SUFFICES ASSUME Orderly, Roomy
             PROVE  OrderlyGoal /\ (died' = died \/ "kill" \in Ops)
  BY <1>2 DEF OrderlyServer, OrderlyInv, OrderlyClientsAreSafe, OrderlyGoal
<1>3. OrderlyState
  BY DEF OrderlyServer, OrderlyInv, OrderlyState
<1>4. CASE UNCHANGED vars
  BY <1>3, <1>4, StutterOrderly DEF vars, clientVars, pollVars, walkVars, workVars
<1>5. ASSUME NEW c \in Conns, Client(c) PROVE OrderlyGoal /\ died' = died
  BY <1>3, <1>5, ClientOrderly
<1>6. CASE Acceptor
  BY <1>3, <1>6, AcceptorOrderly
<1>7. ASSUME NEW p \in PollThreads, PollThread(p) PROVE OrderlyGoal /\ died' = died
  BY <1>3, <1>7, PollThreadOrderly
<1>8. ASSUME NEW w \in Workers, Worker(w) PROVE OrderlyGoal /\ (died' = died \/ "kill" \in Ops)
  BY <1>3, <1>8, WorkerOrderly
<1> QED
  BY <1>4, <1>5, <1>6, <1>7, <1>8 DEF Next

LEMMA OrderlyInvariant == Spec => []OrderlyServer
<1>1. Init => OrderlyServer
  BY InitTypes, InitRoom, InitExclusive, InitOrderly DEF OrderlyServer, ServerInv
<1>2. OrderlyServer /\ [Next]_vars => OrderlyServer'
  BY StepType, StepBacklog, StepWalk, StepRoom, StepExclusive, StepOrderly
  DEF OrderlyServer, ServerInv
<1> QED
  BY <1>1, <1>2, PTL DEF Spec

(* A worker reads, and answers, the connection that was reported readable,    *)
(* although close() and accept4() reuse descriptors meanwhile: clients close  *)
(* only when they are through and no table of pollfds fills.                  *)
THEOREM ServesReportedConnection == Spec => []OwnSocketWithRoom
<1>1. OrderlyServer => OwnSocketWithRoom
  BY DEF OrderlyServer, OrderlyInv, OwnInv, Own, Serving, OwnSocketWithRoom, OwnSocket
<1> QED
  BY <1>1, OrderlyInvariant, PTL

(* Every open descriptor is in one slot that no handle_failed_read is giving  *)
(* up, and no closed one is in any: with orderly clients no connection leaks, *)
(* also when accept4() returns a descriptor that was closed and is not yet    *)
(* erased from its pollfd.                                                    *)
THEOREM OneSlotPerDescriptor == Spec => []DescriptorsOwned
<1>1. ASSUME OrderlyServer, Orderly, Roomy, NEW f \in Fds
      PROVE  Cardinality(Holders(f) \ Closing) = IF file[f] = NoConn THEN 0 ELSE 1
  <2> DEFINE H == Holders(f) \ Closing
  <2>0. DescriptorInv
    BY <1>1 DEF OrderlyServer, OrderlyInv
  <2>1. ASSUME NEW p \in PollThreads, NEW s \in Slots
        PROVE  <<p, s>> \in H <=> Holds(p, s, f)
    <3>1. <<p, s>> \in Closing <=> Erasing(p, s)
      BY DEF Closing, Erasing
    <3>2. <<p, s>> \in Holders(f) <=> s \in Used(p) /\ fdses[p][s].fd = f
      BY DEF Holders
    <3> QED
      BY <3>1, <3>2 DEF Holds
  <2>2. \A h \in H : h = <<h[1], h[2]>> /\ h[1] \in PollThreads /\ h[2] \in Slots
    BY DEF Holders
  <2> HIDE DEF H
  <2>3. CASE file[f] = NoConn
    <3>1. H = {}
      BY <2>0, <2>1, <2>2, <2>3 DEF DescriptorInv
    <3> QED
      BY <2>3, <3>1, FS_EmptySet DEF H
  <2>4. CASE file[f] # NoConn
    <3>1. PICK p \in PollThreads, s \in Slots : Holds(p, s, f)
      BY <1>1, <2>0, <2>4 DEF DescriptorInv
    <3>2. \A h \in H : h = <<p, s>>
      BY <2>0, <2>1, <2>2, <3>1 DEF DescriptorInv
    <3>3. H = {<<p, s>>}
      BY <2>1, <3>1, <3>2
    <3> QED
      BY <2>4, <3>3, FS_Singleton DEF H
  <2> QED
    BY <2>3, <2>4
<1>2. OrderlyServer => DescriptorsOwned
  BY <1>1 DEF DescriptorsOwned
<1> QED
  BY <1>2, OrderlyInvariant, PTL

(* Clients that complete their requests and send no KILL_SIGNAL never bring   *)
(* the server down while its tables have room: gradient_f never meets a       *)
(* broken or finished connection in a request, an operation that is not in    *)
(* operation_to_f, or a full table.                                           *)
THEOREM OrderlyClientsNeverKill == Spec => []OrderlyClientsAreSafe
<1>1. OrderlyServer => OrderlyClientsAreSafe
  BY DEF OrderlyServer
<1> QED
  BY <1>1, OrderlyInvariant, PTL

-----------------------------------------------------------------------------
(* Making room.                                                               *)

(* A step of a purge is one of remove_if's. *)
LEMMA PurgesByWalking ==
  ASSUME TypeOK, Next, NEW p \in PollThreads, Purges(p)
  PROVE  WalkAction(p)
<1>1. Purging(p) /\ (pollPc'[p] # pollPc[p] \/ purging'[p] # purging[p])
  BY DEF Purges
<1>2. CASE PlainStep
  BY <1>1, <1>2 DEF PlainStep, TypeOK
<1>3. ASSUME AcceptStores \/ \E r \in PollThreads : Accept(r) \/ AcceptLoads(r) PROVE FALSE
  <2>1. /\ purging' = purging /\ pollPc[0] \in {"accept", "place"}
        /\ \E l \in {"inc", "place"} : pollPc' = [pollPc EXCEPT ![0] = l]
    BY <1>3 DEF AcceptStores, Accept, AcceptLoads, walkVars, Goto
  <2> QED
    BY <1>1, <2>1 DEF Purging, TypeOK
<1>4. ASSUME NEW q \in PollThreads, Purge(q), curr_indexes[q] = setup.max_fds PROVE FALSE
  <2>1. /\ pollPc[q] = "purge" /\ pollPc' = [pollPc EXCEPT ![q] = "test"]
        /\ \E e : purging' = [purging EXCEPT ![q] = e]
    BY <1>4 DEF Purge, Goto
  <2> QED
    BY <1>1, <2>1 DEF Purging, TypeOK
<1>5. ASSUME NEW q \in PollThreads, WalkAction(q), q # p PROVE FALSE
  <2>1. pollPc'[p] = pollPc[p] /\ purging'[p] = purging[p]
    BY <1>5 DEF WalkAction, PurgeTest, PurgeLower, PurgeMove, PurgeDone, Goto, TypeOK
  <2> QED
    BY <1>1, <2>1
<1> QED
  BY <1>2, <1>3, <1>4, <1>5, StepKinds

(* The slots that a walk has to watch, and where they go.                     *)
LEMMA SameWatched ==
  ASSUME NEW p \in PollThreads, fdses' = fdses,
         \A s \in Slots : fdses[p][s].fd # NoFd => (s \in Watching(p) <=> s \in Watching(p)'),
         Watching(p) \subseteq Slots, Watching(p)' \subseteq Slots
  PROVE  Watched(p)' = Watched(p)
BY DEF Watched

LEMMA WalkWatched ==
  ASSUME TypeOK, TypeOK', WalkInv, WalkInv', NEW p \in PollThreads, WalkAction(p)
  PROVE  Watched(p) \subseteq Watched(p)' /\ (p = 0 => Watched(p)' = Watched(p))
<1> DEFINE at == purging[p].at
           to == purging[p].to
<1>0. /\ setup' = setup /\ Slots' = Slots /\ Reserved(p)' = Reserved(p)
      /\ Slots = 0 .. (setup.max_fds - 1) /\ at \in Nat /\ to \in Nat
      /\ setup.max_fds \in Nat /\ Reserved(p) \in {1, 2}
      /\ curr_indexes[p] \in Nat
  BY SameParameters, WalkFacts
  DEF WalkAction, PurgeTest, PurgeLower, PurgeMove, PurgeDone, Slots, Reserved
<1>1. Purging(p) /\ PurgeInv(p)
  BY DEF WalkAction, PurgeTest, PurgeLower, PurgeMove, PurgeDone, Purging, WalkInv
<1>2. Watching(p) \subseteq Slots /\ Watching(p)' \subseteq Slots
  BY <1>0 DEF Watching, Used
<1>3. CASE PurgeTest(p)
  <2>1. /\ fdses' = fdses /\ at \in Slots /\ pollPc[p] = "test" /\ Purging(p)'
    BY <1>0, <1>3 DEF PurgeTest, Goto, Purging, TypeOK
  <2>2. \/ fdses[p][at].fd = NoFd /\ purging'[p].at = at /\ purging'[p].to = to
           /\ pollPc'[p] = "lower"
        \/ to = at /\ purging'[p].at = at + 1 /\ purging'[p].to = at + 1
           /\ pollPc'[p] = "test"
        \/ purging'[p] = purging[p] /\ pollPc'[p] = "move"
    <3>1. CASE fdses[p][at].fd = NoFd /\ Goto(p, "lower")
               /\ purging' = [purging EXCEPT ![p].index = curr_indexes[p]]
      BY <3>1 DEF Goto, Walk, TypeOK
    <3>2. CASE to = at /\ UNCHANGED pollPc
               /\ purging' = [purging EXCEPT ![p].at = at + 1, ![p].to = at + 1]
      BY <2>1, <3>2 DEF Walk, TypeOK
    <3>3. CASE Goto(p, "move") /\ UNCHANGED purging
      BY <3>3 DEF Goto, TypeOK
    <3> QED
      BY <1>3, <3>1, <3>2, <3>3 DEF PurgeTest
  <2>3. \A s \in Slots : fdses[p][s].fd # NoFd =>
                           (s \in Watching(p) <=> s \in Watching(p)')
    BY <1>0, <1>1, <2>1, <2>2 DEF Watching, PurgeInv
  <2> QED
    BY <1>2, <2>1, <2>3, SameWatched
<1>4. CASE PurgeLower(p)
  <2>1. /\ fdses' = fdses /\ pollPc[p] = "lower" /\ pollPc'[p] = "test" /\ Purging(p)'
        /\ purging'[p].at = at + 1 /\ purging'[p].to = to
    BY <1>4 DEF PurgeLower, Goto, Purging, Walk, TypeOK
  <2>2. \A s \in Slots : s \in Watching(p) <=> s \in Watching(p)'
    BY <1>0, <1>1, <2>1 DEF Watching
  <2> QED
    BY <1>2, <2>1, <2>2, SameWatched
<1>5. CASE PurgeMove(p)
  <2>1. /\ pollPc[p] = "move" /\ pollPc'[p] = "test" /\ Purging(p)'
        /\ purging'[p].at = at + 1 /\ purging'[p].to = to + 1
        /\ fdses' = Moved(p)
    BY <1>5 DEF PurgeMove, Goto, Purging, Walk, TypeOK
  <2>2. at \in Slots /\ to \in Slots /\ to < at
    BY <1>0, <1>1, <2>1 DEF PurgeInv
  <2>3. /\ fdses'[p][to] = fdses[p][at]
        /\ \A s \in Slots : s # to => fdses'[p][s] = fdses[p][s]
    BY <2>1, <2>2, FdsesFacts DEF Moved
  <2>4. /\ \A s \in Slots : s \in Watching(p) =>
             s # to /\ (s = at \/ s \in Watching(p)')
        /\ \A s \in Slots : s \in Watching(p)' =>
             (s = to \/ (s # to /\ s \in Watching(p)))
        /\ at \in Watching(p) /\ to \in Watching(p)'
    BY <1>0, <1>1, <2>1, <2>2 DEF Watching, PurgeInv
  <2>5. Watched(p) \subseteq Watched(p)'
    BY <1>2, <2>2, <2>3, <2>4 DEF Watched
  <2>6. Watched(p)' \subseteq Watched(p)
    BY <1>2, <2>2, <2>3, <2>4 DEF Watched
  <2> QED
    BY <2>5, <2>6
<1>6. CASE PurgeDone(p)
  <2>1. /\ fdses' = fdses /\ curr_indexes' = curr_indexes /\ pollPc[p] = "test"
        /\ at = setup.max_fds /\ ~Purging(p)'
    BY <1>6 DEF PurgeDone, Goto, Purging, TypeOK
  <2>2. to <= curr_indexes[p] /\ (p = 0 => curr_indexes[p] = to)
    BY <1>0, <1>1, <2>1 DEF PurgeInv, Left
  <2>3. /\ \A s \in Slots : s \in Watching(p) <=> Reserved(p) <= s /\ s < to
        /\ \A s \in Slots : s \in Watching(p)' <=> s >= Reserved(p) /\ s < curr_indexes[p]
    BY <1>0, <1>1, <2>1 DEF Watching, Used
  <2>4. \A s \in Slots : s \in Watching(p) => s \in Watching(p)'
    BY <1>0, <2>2, <2>3
  <2>5. Watched(p) \subseteq Watched(p)'
    BY <1>2, <2>1, <2>4 DEF Watched
  <2>6. ASSUME p = 0 PROVE Watched(p)' = Watched(p)
    <3>1. \A s \in Slots : s \in Watching(p) <=> s \in Watching(p)'
      BY <1>0, <2>2, <2>3, <2>6
    <3> QED
      BY <1>2, <2>1, <3>1, SameWatched
  <2> QED
    BY <2>5, <2>6
<1> QED
  BY <1>3, <1>4, <1>5, <1>6 DEF WalkAction

(* remove_if, slot by slot and without a lock, while workers erase and arm    *)
(* slots and thread 0 accepts connections: no step of it loses a pollfd that  *)
(* it has found and that is live, and the index never ends before the last    *)
(* one kept.  Thread 0, whose purge no accept can interrupt, watches after it *)
(* exactly what it watched before, less what workers have erased.             *)
THEOREM PurgeDropsOnlyErased == Spec => PurgeKeepsConnections
<1>1. ASSUME Typed, Typed', [Next]_vars, NEW p \in PollThreads, Purges(p)
      PROVE  Watched(p) \subseteq Watched(p)' /\ (p = 0 => Watched(p)' = Watched(p))
  <2>1. Next
    BY <1>1 DEF vars, pollVars, walkVars, Purges
  <2>2. WalkAction(p)
    BY <1>1, <2>1, PurgesByWalking DEF Typed
  <2> QED
    BY <1>1, <2>2, WalkWatched DEF Typed
<1>2. Typed /\ Typed' /\ [Next]_vars =>
        [\A p \in PollThreads : Purges(p) =>
           /\ Watched(p) \subseteq Watched(p)'
           /\ p = 0 => Watched(p)' = Watched(p)]_vars
  BY <1>1
<1> QED
  BY <1>2, TypesKept, PTL DEF PurgeKeepsConnections, Spec
=============================================================================
