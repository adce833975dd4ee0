------------------------------ MODULE PSServer ------------------------------
(* The connection and request machinery of the parameter server               *)
(* (PSSparseServerTask.cpp): poll threads watch the sockets of the clients    *)
(* and queue a Request for each one that is readable, worker threads          *)
(* (gradient_f) read the operation from the socket, run its handler and give  *)
(* the socket back to the poll thread through the pollfd the Request refers   *)
(* to.  What the handlers compute is left out; what they read, send and close *)
(* is not.                                                                    *)
(*                                                                            *)
(* sem_new_req counts the requests in to_process, so the queue itself stands  *)
(* for both.  A client sends an operation and a body; TCP is modelled by what *)
(* the server sees of it: words not read yet, end of file, reset.             *)
EXTENDS Integers, Sequences, FiniteSets

CONSTANTS Conns,           \* connections clients open in a run of the server
          Workers,         \* NUM_PS_WORK_THREADS threads
          NumPollThreads,  \* NUM_POLL_THREADS
          Setups           \* limits of the server and behaviour of its clients

(* Limits of the server and what its clients do in a run of it: connections,  *)
(* the operations they use, at most how many on each, and what they may do    *)
(* besides closing when idle ("early" close in a request, "reset" when        *)
(* killed).  modulus stands for 2^32, the values of num_connections; with 1   *)
(* the count plays no part.                                                   *)
Setup == [conns : SUBSET Conns, max_fds : {n \in Nat : n > 2},
          max_connections : Nat \ {0},
          ops : SUBSET {"gradient", "sparse", "mfsparse", "full", "info", "kill"},
          requests : Nat, faults : SUBSET {"early", "reset"}, modulus : Nat \ {0}]

ASSUME ConnsAssumption == IsFiniteSet(Conns)
ASSUME PollThreadsAssumption == NumPollThreads \in Nat \ {0}
ASSUME SetupsAssumption == Setups \subseteq Setup

VARIABLES
  setup,            \* fixed in a run
  died,             \* why the process ended, "no" while it runs
  peer,             \* client's end: "none", "up", "fin" (closed), "rst"
  client,           \* "idle", "await" a reply, "refused", or the operation
                    \* whose body is still to be sent
  requests,         \* requests sent so far
  inbuf,            \* words sent and not yet read
  backlog,          \* connections to accept
  file,             \* what each descriptor refers to
  fdses,            \* the pollfds of each poll thread
  curr_indexes,
  pipe,             \* bytes in each pipe
  pollPc, pollAt,   \* poll threads: label, index in the scan
  pollTmp,          \* num_connections loaded by a ++ or --
  purging,          \* how far a poll thread's std::remove_if has come
  placing,          \* connection on its way into a table that is being purged
  to_process,
  workPc, req,      \* workers: label, Request
  sock, op,
  workTmp,
  num_connections

Ops == setup.ops
Modulus == setup.modulus

PollThreads == 0 .. (NumPollThreads - 1)
Slots == 0 .. (setup.max_fds - 1)
Fds == 1 .. Cardinality(Conns)
NoFd == -1
NoConn == "none"

ASSUME NoConnAssumption == NoConn \notin Conns

(* Slots of the listening socket and of the pipe. *)
Reserved(p) == IF p = 0 THEN 2 ELSE 1

(* The operations by what their handlers do with the socket: "gradient" (both *)
(* gradients, set_task_status, set_value), "sparse" (get_lr_sparse_model,     *)
(* task registration and status, get_value), "mfsparse", "full" (both full    *)
(* models), "info" (get_num_conns, get_num_updates).                          *)
HasBody(o) == o \in {"gradient", "sparse", "mfsparse"}
HasReply(o) == o \in {"sparse", "mfsparse", "full", "info"}

(* A plausible bug: a handler that is not entered in the map. *)
operation_to_fMissing == {"gradient", "mfsparse", "full", "info"}

(* Keys of operation_to_f: KILL_SIGNAL is not among them. *)
operation_to_f == {"gradient", "sparse", "mfsparse", "full", "info"}

clientVars == <<peer, client, requests>>
walkVars == <<purging, placing>>
pollVars == <<pollPc, pollAt, pollTmp, walkVars>>
workVars == <<workPc, req, sock, op, workTmp>>
vars == <<setup, died, clientVars, inbuf, backlog, file, fdses, curr_indexes, pipe,
          pollVars, to_process, workVars, num_connections>>

PollFd == [fd : Fds \union {NoFd}, events : BOOLEAN, revents : {"none", "in", "hup"}]

(* A Request: the descriptor when it was queued, the pollfd it refers to, and *)
(* (for the properties) the connection that was readable.                     *)
Request == [sock : Fds, id : PollThreads, slot : Slots,
            conn : Conns \union {NoConn}]
NoRequest == [sock |-> NoFd, id |-> 0, slot |-> 0, conn |-> NoConn]

Deaths == {"no", "badRead", "unknownOp", "badMessage", "badSend", "capacity",
           "overrun"}

(* remove_if looks at slot "at" next and moves what it keeps to slot "to";    *)
(* testRemove has loaded curr_indexes as "index".                             *)
Walk == [at : 0 .. setup.max_fds, to : 0 .. setup.max_fds, index : 0 .. setup.max_fds]
NoWalk == [at |-> 0, to |-> 0, index |-> 0]

Placing == [fd : Fds \union {NoFd}, id : PollThreads, slot : Slots]
NotPlacing == [fd |-> NoFd, id |-> 0, slot |-> 0]

TypeOK ==
  /\ setup \in Setups
  /\ died \in Deaths
  /\ peer \in [Conns -> {"none", "up", "fin", "rst"}]
  /\ client \in [Conns -> {"idle", "await", "refused"} \union Ops]
  /\ requests \in [Conns -> 0 .. setup.requests]
  /\ inbuf \in [Conns -> Seq(Ops \union {"body"})]
  /\ backlog \in Seq(Conns)
  /\ file \in [Fds -> Conns \union {NoConn}]
  /\ fdses \in [PollThreads -> [Slots -> PollFd]]
  /\ curr_indexes \in [PollThreads -> 0 .. setup.max_fds]
  /\ pipe \in [PollThreads -> Nat]
  /\ pollPc \in [PollThreads -> {"poll", "accept", "place", "inc", "scan", "dec",
                                 "purge", "test", "lower", "move"}]
  /\ pollAt \in [PollThreads -> Slots]
  /\ pollTmp \in [PollThreads -> 0 .. (Modulus - 1)]
  /\ purging \in [PollThreads -> Walk]
  /\ placing \in Placing
  /\ to_process \in Seq(Request)
  /\ workPc \in [Workers -> {"wait", "op", "body", "reply", "failOp", "failBody",
                             "rearm"}]
  /\ req \in [Workers -> Request \union {NoRequest}]
  /\ sock \in [Workers -> Fds \union {NoFd}]
  /\ op \in [Workers -> Ops \union {"none"}]
  /\ workTmp \in [Workers -> 0 .. (Modulus - 1)]
  /\ num_connections \in 0 .. (Modulus - 1)

Init ==
  /\ setup \in Setups
  /\ died = "no"
  /\ peer = [c \in Conns |-> "none"]
  /\ client = [c \in Conns |-> "idle"]
  /\ requests = [c \in Conns |-> 0]
  /\ inbuf = [c \in Conns |-> <<>>]
  /\ backlog = <<>>
  /\ file = [f \in Fds |-> NoConn]
  /\ fdses = [p \in PollThreads |->
                [s \in Slots |-> [fd |-> NoFd, events |-> FALSE, revents |-> "none"]]]
  /\ curr_indexes = [p \in PollThreads |-> Reserved(p)]
  /\ pipe = [p \in PollThreads |-> 0]
  /\ pollPc = [p \in PollThreads |-> "poll"]
  /\ pollAt = [p \in PollThreads |-> 0]
  /\ pollTmp = [p \in PollThreads |-> 0]
  /\ purging = [p \in PollThreads |-> NoWalk]
  /\ placing = NotPlacing
  /\ to_process = <<>>
  /\ workPc = [w \in Workers |-> "wait"]
  /\ req = [w \in Workers |-> NoRequest]
  /\ sock = [w \in Workers |-> NoFd]
  /\ op = [w \in Workers |-> "none"]
  /\ workTmp = [w \in Workers |-> 0]
  /\ num_connections = 0

(* An exception nobody catches ends the process, with every thread. *)
Die(why) ==
  /\ died' = why
  /\ UNCHANGED <<setup, clientVars, inbuf, backlog, file, fdses, curr_indexes, pipe,
                 pollVars, to_process, workVars, num_connections>>

-----------------------------------------------------------------------------
(* The clients (PSSparseServerInterface, messenger.py, handler.py).           *)

Connect(c) ==
  /\ died = "no"
  /\ c \in setup.conns /\ peer[c] = "none"
  /\ peer' = [peer EXCEPT ![c] = "up"]
  /\ backlog' = Append(backlog, c)
  /\ UNCHANGED <<setup, died, client, requests, inbuf, file, fdses, curr_indexes, pipe,
                 pollVars, to_process, workVars, num_connections>>

AfterRequest(o) == IF HasReply(o) THEN "await" ELSE "idle"

SendOperation(c, o) ==
  /\ died = "no"
  /\ peer[c] = "up" /\ client[c] = "idle"
  /\ requests[c] < setup.requests
  /\ requests' = [requests EXCEPT ![c] = @ + 1]
  /\ inbuf' = [inbuf EXCEPT ![c] = Append(@, o)]
  /\ client' = [client EXCEPT ![c] = IF HasBody(o) THEN o ELSE AfterRequest(o)]
  /\ UNCHANGED <<setup, died, peer, backlog, file, fdses, curr_indexes, pipe, pollVars,
                 to_process, workVars, num_connections>>

SendBody(c) ==
  /\ died = "no"
  /\ peer[c] = "up" /\ client[c] \in Ops
  /\ inbuf' = [inbuf EXCEPT ![c] = Append(@, "body")]
  /\ client' = [client EXCEPT ![c] = AfterRequest(@)]
  /\ UNCHANGED <<setup, died, peer, requests, backlog, file, fdses, curr_indexes, pipe,
                 pollVars, to_process, workVars, num_connections>>

(* The client closes, when it is through or in the middle of a request. *)
Close(c) ==
  /\ died = "no"
  /\ peer[c] = "up"
  /\ client[c] \in {"idle", "refused"} \/ "early" \in setup.faults
  /\ peer' = [peer EXCEPT ![c] = "fin"]
  /\ UNCHANGED <<setup, died, client, requests, inbuf, backlog, file, fdses, curr_indexes,
                 pipe, pollVars, to_process, workVars, num_connections>>

(* A client that is killed with data it has not read, or a network failure. *)
Reset(c) ==
  /\ died = "no"
  /\ "reset" \in setup.faults
  /\ peer[c] \in {"up", "fin"}
  /\ peer' = [peer EXCEPT ![c] = "rst"]
  /\ UNCHANGED <<setup, died, client, requests, inbuf, backlog, file, fdses, curr_indexes,
                 pipe, pollVars, to_process, workVars, num_connections>>

Client(c) ==
  Connect(c) \/ (\E o \in Ops : SendOperation(c, o)) \/ SendBody(c) \/ Close(c)
  \/ Reset(c)

-----------------------------------------------------------------------------
(* Poll threads: loop().                                                      *)

Goto(p, label) == pollPc' = [pollPc EXCEPT ![p] = label]

Used(p) == {s \in Slots : s >= Reserved(p) /\ s < curr_indexes[p]}

(* A plausible bug: a client that has closed counts as hung up. *)
ReventsHupOnFin(e) ==
  IF e.fd = NoFd \/ file[e.fd] = NoConn THEN "none"
  ELSE IF peer[file[e.fd]] \in {"fin", "rst"} THEN "hup"
  ELSE IF e.events /\ inbuf[file[e.fd]] # <<>> THEN "in" ELSE "none"

(* What poll() reports for a pollfd: a reset even when events is 0. *)
Revents(e) ==
  IF e.fd = NoFd \/ file[e.fd] = NoConn THEN "none"
  ELSE IF peer[file[e.fd]] = "rst" THEN "hup"
  ELSE IF e.events /\ (inbuf[file[e.fd]] # <<>> \/ peer[file[e.fd]] = "fin")
       THEN "in" ELSE "none"

(* The poll thread's table after poll(), which writes every revents. *)
Polled(p) ==
  [s \in Slots |-> IF s \in Used(p)
                   THEN [fdses[p][s] EXCEPT !.revents = Revents(fdses[p][s])]
                   ELSE fdses[p][s]]

(* poll() returns with the pipe readable: the round ends after reading one    *)
(* byte, what it reported waits for the next one.                             *)
PollPipe(p) ==
  /\ died = "no"
  /\ pollPc[p] = "poll"
  /\ pipe[p] > 0
  /\ fdses' = [fdses EXCEPT ![p] = Polled(p)]
  /\ pipe' = [pipe EXCEPT ![p] = @ - 1]
  /\ Goto(p, "purge")
  /\ UNCHANGED <<setup, died, clientVars, inbuf, backlog, file, curr_indexes, pollAt,
                 pollTmp, walkVars, to_process, workVars, num_connections>>

Pending(p) == \/ p = 0 /\ backlog # <<>>
              \/ \E s \in Used(p) : Revents(fdses[p][s]) # "none"

(* poll() returns with other events: the listening socket comes first. *)
Poll(p) ==
  /\ died = "no"
  /\ pollPc[p] = "poll"
  /\ pipe[p] = 0
  /\ Pending(p)
  /\ fdses' = [fdses EXCEPT ![p] = Polled(p)]
  /\ Goto(p, IF p = 0 /\ backlog # <<>> THEN "accept" ELSE "scan")
  /\ UNCHANGED <<setup, died, clientVars, inbuf, backlog, file, curr_indexes, pipe,
                 pollAt, pollTmp, walkVars, to_process, workVars, num_connections>>

(* poll() times out; only the purge can follow. *)
PollTimeout(p) ==
  /\ died = "no"
  /\ pollPc[p] = "poll"
  /\ pipe[p] = 0
  /\ ~Pending(p)
  /\ curr_indexes[p] = setup.max_fds
  /\ Goto(p, "purge")
  /\ UNCHANGED <<setup, died, clientVars, inbuf, backlog, file, fdses, curr_indexes,
                 pipe, pollAt, pollTmp, walkVars, to_process, workVars,
                 num_connections>>

AtCapacity == num_connections > setup.max_connections - 1

Refuse ==
  /\ died = "no"
  /\ pollPc[0] = "accept"
  /\ AtCapacity
  /\ backlog' = Tail(backlog)
  /\ client' = [client EXCEPT ![Head(backlog)] = "refused"]
  /\ Goto(0, "scan")
  /\ UNCHANGED <<setup, died, peer, requests, inbuf, file, fdses, curr_indexes, pipe,
                 pollAt, pollTmp, walkVars, to_process, workVars, num_connections>>

FreeFd(f) == file[f] = NoConn /\ \A g \in Fds : g < f => file[g] # NoConn

(* The new connection goes to a random poll thread, into its next slot; the   *)
(* ++ of num_connections that follows is a load and a store.                  *)
Accept(r) ==
  /\ died = "no"
  /\ pollPc[0] = "accept"
  /\ ~AtCapacity
  /\ curr_indexes[0] # setup.max_fds
  /\ curr_indexes[r] < setup.max_fds
  /\ \E f \in Fds :
       /\ FreeFd(f)
       /\ file' = [file EXCEPT ![f] = Head(backlog)]
       /\ fdses' = [fdses EXCEPT ![r][curr_indexes[r]].fd = f,
                                 ![r][curr_indexes[r]].events = TRUE]
  /\ curr_indexes' = [curr_indexes EXCEPT ![r] = @ + 1]
  /\ backlog' = Tail(backlog)
  /\ pollTmp' = [pollTmp EXCEPT ![0] = num_connections]
  /\ Goto(0, "inc")
  /\ UNCHANGED <<setup, died, clientVars, inbuf, pipe, pollAt, walkVars, to_process,
                 workVars, num_connections>>

(* The index is read three times (lines 863-865).  In a table whose poll      *)
(* thread is purging, what the first read saw may be out of date when the     *)
(* slot is written and the index counted up.                                  *)
Purging(p) == pollPc[p] \in {"test", "lower", "move"}

AcceptLoads(r) ==
  /\ died = "no"
  /\ pollPc[0] = "accept"
  /\ ~AtCapacity
  /\ curr_indexes[0] # setup.max_fds
  /\ Purging(r) /\ curr_indexes[r] < setup.max_fds
  /\ \E f \in Fds :
       /\ FreeFd(f)
       /\ file' = [file EXCEPT ![f] = Head(backlog)]
       /\ placing' = [fd |-> f, id |-> r, slot |-> curr_indexes[r]]
  /\ backlog' = Tail(backlog)
  /\ Goto(0, "place")
  /\ UNCHANGED <<setup, died, clientVars, inbuf, fdses, curr_indexes, pipe, pollAt,
                 pollTmp, purging, to_process, workVars, num_connections>>

AcceptStores ==
  LET r == placing.id IN
  /\ died = "no"
  /\ pollPc[0] = "place"
  /\ fdses' = [fdses EXCEPT ![r][placing.slot].fd = placing.fd,
                            ![r][placing.slot].events = TRUE]
  /\ \E n \in {placing.slot, curr_indexes[r]} :
       curr_indexes' = [curr_indexes EXCEPT ![r] = n + 1]
  /\ placing' = NotPlacing
  /\ pollTmp' = [pollTmp EXCEPT ![0] = num_connections]
  /\ Goto(0, "inc")
  /\ UNCHANGED <<setup, died, clientVars, inbuf, backlog, file, pipe, pollAt, purging,
                 to_process, workVars, num_connections>>

(* "We reached capacity" is looked for in the accepting thread's table only:  *)
(* in another one the slot behind the last is written.                        *)
AcceptFails(r) ==
  /\ died = "no"
  /\ pollPc[0] = "accept"
  /\ ~AtCapacity
  /\ \/ curr_indexes[0] = setup.max_fds /\ Die("capacity")
     \/ curr_indexes[0] # setup.max_fds /\ curr_indexes[r] = setup.max_fds /\ Die("overrun")

CountConnection ==
  /\ died = "no"
  /\ pollPc[0] = "inc"
  /\ num_connections' = (pollTmp[0] + 1) % Modulus
  /\ pollTmp' = [pollTmp EXCEPT ![0] = 0]
  /\ Goto(0, "scan")
  /\ UNCHANGED <<setup, died, clientVars, inbuf, backlog, file, fdses, curr_indexes,
                 pipe, pollAt, walkVars, to_process, workVars>>

(* The scan goes through the slots in order; those without an event, or given *)
(* up by a worker meanwhile, are passed over.                                 *)
Reported(p) == {s \in Used(p) : fdses[p][s].revents # "none" /\ fdses[p][s].fd # NoFd}
NextReported(p, s) == s \in Reported(p) /\ \A t \in Reported(p) : s <= t

(* A plausible bug: the slot stays armed. *)
processStaysArmed(p, s) ==
  /\ fdses' = [fdses EXCEPT ![p][s].revents = "none"]
  /\ to_process' = Append(to_process,
       [sock |-> fdses[p][s].fd, id |-> p, slot |-> s,
        conn |-> file[fdses[p][s].fd]])

process(p, s) ==
  /\ fdses' = [fdses EXCEPT ![p][s].events = FALSE, ![p][s].revents = "none"]
  /\ to_process' = Append(to_process,
       [sock |-> fdses[p][s].fd, id |-> p, slot |-> s,
        conn |-> file[fdses[p][s].fd]])

ScanReadable(p) ==
  /\ died = "no"
  /\ pollPc[p] = "scan"
  /\ \E s \in Slots :
       /\ NextReported(p, s)
       /\ fdses[p][s].revents = "in"
       /\ process(p, s)
  /\ UNCHANGED <<setup, died, clientVars, inbuf, backlog, file, curr_indexes, pipe,
                 pollVars, workVars, num_connections>>

ScanHup(p) ==
  /\ died = "no"
  /\ pollPc[p] = "scan"
  /\ \E s \in Slots :
       /\ NextReported(p, s)
       /\ fdses[p][s].revents = "hup"
       /\ pollAt' = [pollAt EXCEPT ![p] = s]
  /\ pollTmp' = [pollTmp EXCEPT ![p] = num_connections]
  /\ Goto(p, "dec")
  /\ UNCHANGED <<setup, died, clientVars, inbuf, backlog, file, fdses, curr_indexes,
                 pipe, walkVars, to_process, workVars, num_connections>>

(* A plausible bug: the slot is given up and the descriptor stays open. *)
ClosedForgets(fd) == file

(* close(fd): nothing happens to a descriptor that is not open. *)
Closed(fd) == IF fd = NoFd THEN file ELSE [file EXCEPT ![fd] = NoConn]

CloseHup(p) ==
  LET s == pollAt[p] IN
  /\ died = "no"
  /\ pollPc[p] = "dec"
  /\ num_connections' = (pollTmp[p] - 1) % Modulus
  /\ file' = Closed(fdses[p][s].fd)
  /\ fdses' = [fdses EXCEPT ![p][s].fd = NoFd, ![p][s].revents = "none"]
  /\ pollAt' = [pollAt EXCEPT ![p] = 0]
  /\ pollTmp' = [pollTmp EXCEPT ![p] = 0]
  /\ Goto(p, "scan")
  /\ UNCHANGED <<setup, died, clientVars, inbuf, backlog, curr_indexes, pipe, walkVars,
                 to_process, workVars>>

ScanDone(p) ==
  /\ died = "no"
  /\ pollPc[p] = "scan"
  /\ Reported(p) = {}
  /\ Goto(p, "purge")
  /\ UNCHANGED <<setup, died, clientVars, inbuf, backlog, file, fdses, curr_indexes,
                 pipe, pollAt, pollTmp, walkVars, to_process, workVars,
                 num_connections>>

(* A table that is full is purged by std::remove_if, slot by slot and without *)
(* a lock, while workers and thread 0 write to it.  The slots before the      *)
(* first one in use hold the pipe and the listening socket.                   *)
Purge(p) ==
  /\ died = "no"
  /\ pollPc[p] = "purge"
  /\ IF curr_indexes[p] = setup.max_fds
     THEN /\ purging' = [purging EXCEPT ![p] =
               [at |-> Reserved(p), to |-> Reserved(p), index |-> 0]]
          /\ Goto(p, "test")
     ELSE Goto(p, "poll") /\ UNCHANGED purging
  /\ UNCHANGED <<setup, died, clientVars, inbuf, backlog, file, fdses, curr_indexes,
                 pipe, pollAt, pollTmp, placing, to_process, workVars,
                 num_connections>>

(* testRemove: a dead slot counts curr_indexes down, by a load here and a     *)
(* store in PurgeLower.  A live one stays where it is if no dead one came     *)
(* before it.                                                                 *)
PurgeTest(p) ==
  LET at == purging[p].at IN
  /\ died = "no"
  /\ pollPc[p] = "test"
  /\ at < setup.max_fds
  /\ \/ /\ fdses[p][at].fd = NoFd
        /\ purging' = [purging EXCEPT ![p].index = curr_indexes[p]]
        /\ Goto(p, "lower")
     \/ /\ fdses[p][at].fd # NoFd /\ purging[p].to = at
        /\ purging' = [purging EXCEPT ![p].at = at + 1, ![p].to = at + 1]
        /\ UNCHANGED pollPc
     \/ /\ fdses[p][at].fd # NoFd /\ purging[p].to # at
        /\ Goto(p, "move")
        /\ UNCHANGED purging
  /\ UNCHANGED <<setup, died, clientVars, inbuf, backlog, file, fdses, curr_indexes,
                 pipe, pollAt, pollTmp, placing, to_process, workVars,
                 num_connections>>

PurgeLower(p) ==
  /\ died = "no"
  /\ pollPc[p] = "lower"
  /\ curr_indexes' = [curr_indexes EXCEPT ![p] = purging[p].index - 1]
  /\ purging' = [purging EXCEPT ![p].at = @ + 1, ![p].index = 0]
  /\ Goto(p, "test")
  /\ UNCHANGED <<setup, died, clientVars, inbuf, backlog, file, fdses, pipe, pollAt,
                 pollTmp, placing, to_process, workVars, num_connections>>

(* A plausible bug: the slot counts as kept and is not copied. *)
MovedNot(p) == fdses

(* The table with the slot under the walk copied to the front. *)
Moved(p) == [fdses EXCEPT ![p][purging[p].to] = fdses[p][purging[p].at]]

PurgeMove(p) ==
  /\ died = "no"
  /\ pollPc[p] = "move"
  /\ fdses' = Moved(p)
  /\ purging' = [purging EXCEPT ![p].at = @ + 1, ![p].to = @ + 1]
  /\ Goto(p, "test")
  /\ UNCHANGED <<setup, died, clientVars, inbuf, backlog, file, curr_indexes, pipe,
                 pollAt, pollTmp, placing, to_process, workVars, num_connections>>

(* What lies behind the last slot kept stays there. *)
PurgeDone(p) ==
  /\ died = "no"
  /\ pollPc[p] = "test"
  /\ purging[p].at = setup.max_fds
  /\ purging' = [purging EXCEPT ![p] = NoWalk]
  /\ Goto(p, "poll")
  /\ UNCHANGED <<setup, died, clientVars, inbuf, backlog, file, fdses, curr_indexes,
                 pipe, pollAt, pollTmp, placing, to_process, workVars,
                 num_connections>>

PollThread(p) ==
  \/ PollPipe(p) \/ Poll(p) \/ PollTimeout(p) \/ ScanReadable(p) \/ ScanHup(p)
  \/ CloseHup(p) \/ ScanDone(p) \/ Purge(p)
  \/ PurgeTest(p) \/ PurgeLower(p) \/ PurgeMove(p) \/ PurgeDone(p)

Acceptor ==
  \/ Refuse \/ CountConnection \/ AcceptStores
  \/ \E r \in PollThreads : Accept(r) \/ AcceptLoads(r) \/ AcceptFails(r)

-----------------------------------------------------------------------------
(* Worker threads: gradient_f() and the handlers.                             *)

WorkerAt(w, label) == workPc' = [workPc EXCEPT ![w] = label]

(* The end of an iteration: the locals of the loop body go. *)
NextIteration(w) ==
  /\ WorkerAt(w, "wait")
  /\ req' = [req EXCEPT ![w] = NoRequest]
  /\ sock' = [sock EXCEPT ![w] = NoFd]
  /\ op' = [op EXCEPT ![w] = "none"]
  /\ workTmp' = [workTmp EXCEPT ![w] = 0]

(* The descriptor is read through the reference, after the queue's lock. *)
Dequeue(w) ==
  /\ died = "no"
  /\ workPc[w] = "wait"
  /\ to_process # <<>>
  /\ LET r == Head(to_process) IN
       /\ req' = [req EXCEPT ![w] = r]
       /\ sock' = [sock EXCEPT ![w] = fdses[r.id][r.slot].fd]
  /\ to_process' = Tail(to_process)
  /\ WorkerAt(w, "op")
  /\ UNCHANGED <<setup, died, clientVars, inbuf, backlog, file, fdses, curr_indexes,
                 pipe, pollVars, op, workTmp, num_connections>>

Open == {f \in Fds : file[f] # NoConn}

(* What send_all and read_all on descriptor f meet. *)
Broken(f) == f \in Open => peer[file[f]] = "rst"
Bad(f) == f \in Open => peer[file[f]] = "rst" /\ inbuf[file[f]] = <<>>
HasWord(f) == ~Bad(f) /\ inbuf[file[f]] # <<>>
AtEof(f) == ~Bad(f) /\ peer[file[f]] = "fin" /\ inbuf[file[f]] = <<>>

Consume(f) == inbuf' = [inbuf EXCEPT ![file[f]] = Tail(@)]

ReadOperation(w) ==
  LET o == Head(inbuf[file[sock[w]]]) IN
  /\ died = "no"
  /\ workPc[w] = "op"
  /\ HasWord(sock[w])
  /\ o \in operation_to_f
  /\ Consume(sock[w])
  /\ op' = [op EXCEPT ![w] = o]
  /\ WorkerAt(w, IF HasBody(o) THEN "body" ELSE "reply")
  /\ UNCHANGED <<setup, died, clientVars, backlog, file, fdses, curr_indexes, pipe,
                 pollVars, to_process, req, sock, workTmp, num_connections>>

(* The lookup in operation_to_f comes before the test for KILL_SIGNAL.  The   *)
(* body of another request, read as an operation, is unknown as well.         *)
UnknownOperation(w) ==
  /\ died = "no"
  /\ workPc[w] = "op"
  /\ HasWord(sock[w])
  /\ Head(inbuf[file[sock[w]]]) \notin operation_to_f
  /\ Die("unknownOp")

(* read_all throws on an error; no handler catches it and goes on. *)
ReadThrows(w) ==
  /\ died = "no"
  /\ \/ workPc[w] = "op" /\ Bad(sock[w])
     \/ workPc[w] = "body" /\ (Bad(sock[w]) \/ Bad(req[w].sock))
  /\ Die("badRead")

(* A plausible bug: the reply is left out. *)
ReadBodyNoReply(w) ==
  /\ died = "no"
  /\ workPc[w] = "body"
  /\ \E f \in {sock[w], req[w].sock} : HasWord(f) /\ Consume(f)
  /\ WorkerAt(w, "rearm")
  /\ UNCHANGED <<setup, died, clientVars, backlog, file, fdses, curr_indexes, pipe,
                 pollVars, to_process, req, sock, op, workTmp, num_connections>>

(* Most handlers read the size from sock and the rest from req.sock. *)
ReadBody(w) ==
  /\ died = "no"
  /\ workPc[w] = "body"
  /\ \E f \in {sock[w], req[w].sock} : HasWord(f) /\ Consume(f)
  /\ WorkerAt(w, IF HasReply(op[w]) THEN "reply" ELSE "rearm")
  /\ UNCHANGED <<setup, died, clientVars, backlog, file, fdses, curr_indexes, pipe,
                 pollVars, to_process, req, sock, op, workTmp, num_connections>>

(* handle_failed_read: close the pollfd's descriptor, load num_connections. *)
BeginFailedRead(w, label) ==
  /\ file' = Closed(fdses[req[w].id][req[w].slot].fd)
  /\ workTmp' = [workTmp EXCEPT ![w] = num_connections]
  /\ WorkerAt(w, label)
  /\ UNCHANGED <<setup, died, clientVars, inbuf, backlog, fdses, curr_indexes, pipe,
                 pollVars, to_process, req, sock, op, num_connections>>

EofInOperation(w) ==
  /\ died = "no"
  /\ workPc[w] = "op"
  /\ AtEof(sock[w])
  /\ BeginFailedRead(w, "failOp")

(* End of file in the middle of a request: on the first read of the body the  *)
(* connection is closed; later ones just return false or, in                  *)
(* get_mf_sparse_model, are not looked at.                                    *)
EofInBody(w) ==
  /\ died = "no"
  /\ workPc[w] = "body"
  /\ AtEof(sock[w])
  /\ \/ BeginFailedRead(w, "failBody")
     \/ /\ WorkerAt(w, IF op[w] = "mfsparse" THEN "reply" ELSE "rearm")
        /\ UNCHANGED <<setup, died, clientVars, inbuf, backlog, file, fdses,
                       curr_indexes, pipe, pollVars, to_process, req, sock, op,
                       workTmp, num_connections>>
     \/ op[w] = "mfsparse" /\ Die("badMessage")

(* The rest of handle_failed_read.  After the first read the worker goes for  *)
(* the next request; a handler returns to gradient_f, which rearms.           *)
EndFailedRead(w) ==
  /\ died = "no"
  /\ workPc[w] \in {"failOp", "failBody"}
  /\ num_connections' = (workTmp[w] - 1) % Modulus
  /\ fdses' = [fdses EXCEPT ![req[w].id][req[w].slot].fd = NoFd,
                            ![req[w].id][req[w].slot].revents = "none"]
  /\ \/ workPc[w] = "failOp" /\ NextIteration(w)
     \/ /\ workPc[w] = "failBody" /\ WorkerAt(w, "rearm")
        /\ UNCHANGED <<req, sock, op, workTmp>>
  /\ UNCHANGED <<setup, died, clientVars, inbuf, backlog, file, curr_indexes, pipe,
                 pollVars, to_process>>

(* The reply reaches the client; one that has closed answers with a reset. *)
Reply(w) ==
  LET c == file[sock[w]] IN
  /\ died = "no"
  /\ workPc[w] = "reply"
  /\ ~Broken(sock[w])
  /\ IF peer[c] = "fin"
     THEN peer' = [peer EXCEPT ![c] = "rst"] /\ UNCHANGED client
     ELSE client' = [client EXCEPT ![c] = IF @ = "await" THEN "idle" ELSE @]
          /\ UNCHANGED peer
  /\ WorkerAt(w, "rearm")
  /\ UNCHANGED <<setup, died, requests, inbuf, backlog, file, fdses, curr_indexes, pipe,
                 pollVars, to_process, req, sock, op, workTmp, num_connections>>

(* send() fails: most handlers return false, the "info" ones throw; SIGPIPE,  *)
(* which nobody ignores, ends the process when the peer had closed first.     *)
ReplyFails(w) ==
  /\ died = "no"
  /\ workPc[w] = "reply"
  /\ Broken(sock[w])
  /\ \/ (op[w] = "info" \/ sock[w] \in Open) /\ Die("badSend")
     \/ /\ op[w] # "info"
        /\ WorkerAt(w, "rearm")
        /\ UNCHANGED <<setup, died, clientVars, inbuf, backlog, file, fdses,
                       curr_indexes, pipe, pollVars, to_process, req, sock, op,
                       workTmp, num_connections>>

(* A plausible bug: the slot is not armed again. *)
RearmForgets(w) ==
  /\ died = "no"
  /\ workPc[w] = "rearm"
  /\ pipe' = [pipe EXCEPT ![req[w].id] = @ + 1]
  /\ NextIteration(w)
  /\ UNCHANGED <<setup, died, clientVars, inbuf, backlog, file, fdses, curr_indexes,
                 pollVars, to_process, num_connections>>

(* Whatever the handler returned, the slot is armed and poll() woken up. *)
Rearm(w) ==
  /\ died = "no"
  /\ workPc[w] = "rearm"
  /\ fdses' = [fdses EXCEPT ![req[w].id][req[w].slot].events = TRUE]
  /\ pipe' = [pipe EXCEPT ![req[w].id] = @ + 1]
  /\ NextIteration(w)
  /\ UNCHANGED <<setup, died, clientVars, inbuf, backlog, file, curr_indexes, pollVars,
                 to_process, num_connections>>

Worker(w) ==
  \/ Dequeue(w) \/ ReadOperation(w) \/ UnknownOperation(w) \/ ReadThrows(w)
  \/ ReadBody(w) \/ EofInOperation(w) \/ EofInBody(w) \/ EndFailedRead(w)
  \/ Reply(w) \/ ReplyFails(w) \/ Rearm(w)

-----------------------------------------------------------------------------
Next ==
  \/ \E c \in Conns : Client(c)
  \/ Acceptor
  \/ \E p \in PollThreads : PollThread(p)
  \/ \E w \in Workers : Worker(w)

(* The operating system runs every thread; a client that has begun a request  *)
(* completes it or closes.                                                    *)
Fairness ==
  /\ WF_vars(Acceptor)
  /\ \A p \in PollThreads : WF_vars(PollThread(p))
  /\ \A w \in Workers : WF_vars(Worker(w))
  /\ \A c \in Conns : WF_vars(SendBody(c))

Spec == Init /\ [][Next]_vars

FairSpec == Spec /\ Fairness

-----------------------------------------------------------------------------
(* Safety.                                                                    *)

Busy(w) == workPc[w] # "wait"
SameSlot(r, q) == r.id = q.id /\ r.slot = q.slot
Disarmed(r) == ~fdses[r.id][r.slot].events

(* Clients complete their requests, and no table of pollfds ever fills. *)
Orderly == setup.faults = {}
Roomy == setup.max_fds > Cardinality(setup.conns) + 2

(* A connection is served by one worker at a time: the pollfds that poll      *)
(* threads and workers write without a lock (lines 670, 699) hand the socket  *)
(* over, and between the two a slot has exactly one request, faulty clients   *)
(* included, where no table fills.                                            *)
RequestsExclusive ==
  Roomy =>
  /\ \A i \in 1 .. Len(to_process) :
       /\ Disarmed(to_process[i])
       /\ \A j \in 1 .. Len(to_process) :
            i # j => ~SameSlot(to_process[i], to_process[j])
       /\ \A w \in Workers : Busy(w) => ~SameSlot(to_process[i], req[w])
  /\ \A w \in Workers : Busy(w) =>
       /\ Disarmed(req[w])
       /\ \A v \in Workers \ {w} : Busy(v) => ~SameSlot(req[w], req[v])

(* A worker reads and answers the connection that was reported readable,      *)
(* although descriptors are closed and reused meanwhile: with clients that    *)
(* close only when they are through.                                          *)
OwnSocket ==
  Orderly => \A w \in Workers : workPc[w] \in {"op", "body", "reply"} =>
    sock[w] = req[w].sock /\ file[sock[w]] = req[w].conn

(* The same where no table fills, so that no purge moves a slot. *)
OwnSocketWithRoom == Roomy => OwnSocket

Holders(f) ==
  {h \in PollThreads \X Slots : h[2] \in Used(h[1]) /\ fdses[h[1]][h[2]].fd = f}

(* Slots whose descriptor handle_failed_read has closed and not yet erased. *)
Closing == {<<req[w].id, req[w].slot>> :
              w \in {v \in Workers : workPc[v] \in {"failOp", "failBody"}}}

(* Every open descriptor is watched by exactly one slot and no slot holds a   *)
(* closed one: connections do not leak, also when a descriptor is reused      *)
(* between close() and fd = -1 in handle_failed_read.                         *)
DescriptorsOwned ==
  Orderly /\ Roomy => \A f \in Fds :
    Cardinality(Holders(f) \ Closing) = IF file[f] = NoConn THEN 0 ELSE 1

(* Clients that complete their requests and send no KILL_SIGNAL never bring   *)
(* the server down, as long as the tables have room: there is no read past    *)
(* the end of a connection, no operation that is not in the map and no write  *)
(* past a table's end.                                                        *)
OrderlyClientsAreSafe ==
  Orderly /\ Roomy /\ "kill" \notin Ops => died = "no"

(* The slots whose connections poll thread p watches: those in use, and in    *)
(* the middle of a purge those that remove_if has kept or has yet to test.    *)
Watching(p) ==
  IF ~Purging(p) THEN Used(p)
  ELSE {s \in Slots : \/ Reserved(p) <= s /\ s < purging[p].to
                      \/ purging[p].at <= s
                         /\ (pollPc[p] = "lower" => s # purging[p].at)}

Watched(p) == {fdses[p][s] : s \in {t \in Watching(p) : fdses[p][t].fd # NoFd}}

(* A step of a purge by poll thread p. *)
Purges(p) == Purging(p) /\ <<pollPc[p], purging[p]>>' # <<pollPc[p], purging[p]>>

(* Making room (lines 887-894) drops dead connections only.  No step of a     *)
(* purge loses a live pollfd that it has found in the table, and none leaves  *)
(* one behind the index, whatever workers erase and arm and thread 0 accepts  *)
(* between the steps.  In the table of thread 0, which accepts nothing while  *)
(* it purges, what it watches is just what there was.  In another one a       *)
(* connection accepted meanwhile may itself be overwritten, or overwrite one. *)
PurgeKeepsConnections ==
  [][\A p \in PollThreads : Purges(p) =>
       /\ Watched(p) \subseteq Watched(p)'
       /\ p = 0 => Watched(p)' = Watched(p)]_vars

-----------------------------------------------------------------------------
(* Liveness.                                                                  *)

(* Where no table fills, a client that waits for its reply gets it, or is     *)
(* refused: no wake-up is lost between poll(), the queue, the workers and the *)
(* pipes.                                                                     *)
RequestsAnswered ==
  \A c \in Conns : (Roomy /\ client[c] = "await") ~> client[c] # "await"

(* The server lets go of the connections that clients have closed. *)
ConnectionsReleased ==
  \A c \in Conns :
    (Roomy /\ peer[c] = "fin" /\ \E f \in Fds : file[f] = c) ~> \A f \in Fds : file[f] # c
=============================================================================
