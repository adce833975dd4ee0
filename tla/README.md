# A TLA+ development of Cirrus

Cirrus trains machine-learning models on AWS Lambda. A *parameter server* (C++,
`PSSparseServerTask.cpp`) holds the model. *Workers*, each a C++ process that a
Python Lambda handler starts, download minibatches from S3, fetch the weights
they need from the parameter server and send gradients back. A Python front end
starts and stops experiments and keeps the number of workers up. This directory
models the parts of that system whose correctness depends on interleavings,
failures and limits; line numbers refer to files under `src/`.

## 1. Inventory

| Component | State | Operations | Hard behaviour | What makes it correct |
|---|---|---|---|---|
| Ring buffer (`CircularBuffer.h`) | `_buffer`, `_capacity`, `_front`, `_tail` | `add`, `pop`, `front`, `size` | full and empty look alike | a FIFO queue as long as one slot is free |
| Sparse S3 iterator (`S3SparseIterator.cpp`) | two semaphores, a counter, ring of queues, map of owned strings, `current` | constructor, prefetch thread, `getNext` | two threads, partly unlocked; retries of downloads; constructor races its thread | semaphores, counter and queues agree; limits hold; no dangling pointer; order; no mutual wait |
| Task registry (`PSSparseServerTask.cpp`, `handler.py`) | registered ids, start times, remaining times, `num_tasks` | register, deregister, lifetime check; Lambda handler | duplicate invocations, delayed or lost requests, kills, clocks of two machines | one worker per task, running workers not given up, dead tasks leave |
| Server threads (`PSSparseServerTask.cpp`, `Utils.cpp`) | poll tables, request queue, pipes, descriptors, `num_connections` | poll, accept, queue, read, handle, reply, rearm, close, purge | poll threads and workers share `pollfd`s without a lock; descriptors are reused; clients vanish | a socket served by one worker at a time, own socket, no leak, every request answered |
| Client (`PSSparseServerInterface.cpp`, `messenger.py`) | a socket | connect, requests, close | closes in mid request | environment of the server |
| Model store (`PSSparseServerTask.cpp`, `SparseLRModel`, `MFModel`, `SparseMFModel`) | weights, `gradientUpdatesCount`, key-value and status maps | gradient update, full and sparse reads, rate report | sparse reads and the maps take no lock | updates one after the other, none lost; a read is never older than its request; full copies are snapshots |
| Optimisers (`SGD`, `Momentum`, `Nesterov`, `AdaGrad`) | history vectors | `sgd_update`, `edit_weight` | state beside the model | each update applied whole |
| Models and gradients (`SparseLRModel`, `MFModel`, `SparseMFModel`, `ModelGradient`) | weights, a preallocated scratch vector | gradient, loss, prediction, layouts of messages | scratch reused between minibatches; a local model updated while its gradient is taken | the sparse gradient is the dense one; a message reads back as what was written |
| Workers (`LogisticSparseTaskS3`, `MFNetflixTask`) | iterator, local model, row number | get minibatch, get weights, send gradient | partition of rows among workers, a row number kept beside the iterator | gradients are for the users of the rows |
| Error task (`ErrorSparseTask.cpp`) | last time and error | loop of full reads and losses; UDP responder | two threads, a pair written in two steps | a reply lags by one round at most |
| Start barrier (`TasksWait.cpp`) | - | - | - | compiled out: `WAIT_ENABLED` is defined nowhere |
| Configuration (`Configuration.cpp`, `parameter_server.cpp`) | options | parse a line, `check`, choose the task | checks at the line that is read second | accepts exactly the files whose lines it understands and whose sizes, names and switches fit together |
| Experiment life cycle (`core.py`, `automate.py`, `parameter_server.py`) | threads of every run, stop event, server and error process, Lambda function, generations | `run`, `kill`, start and stop over SSH, generations of workers, back-off, clean-up | `kill` against launches in progress, threads of an earlier run, a step of several failing | a kill ends the fleet; a thread never uses an id again |
| Grid search (`GridSearch.py`) | experiments, timers | rotate, kill all | threads over shared lists | every experiment gets its turn |
| Preprocessing (`min_max_scaler.py`, `lambdas/handler.py`, ...) | Redis keys, S3 chunks | scale, hash, normalise | duplicate Lambdas | a chunk is processed once |
| LIBSVM iterator (`S3IteratorLibsvm.cpp`) | ring of lists, two semaphores, a counter | file ranges, parser, prefetch thread, `getNext` | a range cuts the text anywhere; empty lists; throws in a thread | whole lines only, tokens match the ring, no mutual wait |
| Redis iterator (`RedisIterator.cpp`) | ring, semaphore | as above | - | nothing constructs one |
| Input readers (`InputReader.cpp`) | the file, a queue of batches, two result vectors, the map of users | read, parse, publish, join, shuffle | threads share the file, the limit and the results with and without locks | lines once, with their labels, few lost |
| Loading tasks (`LoadingSparseTaskS3`, `LoadingNetflixTask`, `SparseDataset`) | data set, objects | read, normalise, serialise, put, check | layouts | objects decode to the rows they hold |
| Storage clients, cloud set-up | - | I/O | - | - |

The parts meet as follows. The Lambda handler talks to the registry over a TCP
connection per request and starts a worker; the worker's iterator and its
`PSSparseServerInterface` are independent; requests of all clients go through
the poll threads into `to_process` and from there to the worker threads, which
call the registry's and the model store's handlers. The server's main thread
runs the lifetime check once a second. The front end starts the server and the
error task over SSH and invokes the Lambda handler, one thread per worker, with
the task ids that the registry sees. Before any of that a loading task, chosen
by the configuration, has read the input with the readers' threads and put it
into S3 as the objects that the iterators fetch.

## 2. Modules

| Module | Models |
|---|---|
| `Fifo` | abstract bounded FIFO queue |
| `CircularBuffer` | the ring's index arithmetic; `ImplementsFifo` maps it to `Fifo` |
| `S3SparseIterator` | the iterator with its prefetch thread |
| `S3SparseIteratorProofs` | theorems about it |
| `TaskLifecycle` | abstract life of a task: unknown, active, dead |
| `TaskRegistry` | registry and Lambda handler; `ImplementsLifecycle` maps it to `TaskLifecycle` |
| `TaskRegistryProofs` | theorems about it |
| `PSServer` | poll threads, workers, connections, with clients as environment |
| `PSServerProofs` | theorems about it |
| `LibsvmParser` | the LIBSVM parser as operators on sequences of characters |
| `S3IteratorLibsvm` | the LIBSVM iterator; composes `LibsvmParser` and `CircularBuffer` |
| `S3IteratorLibsvmProofs` | theorems about its ring and semaphores |
| `Configuration` | a configuration file, line by line, up to the choice of the task |
| `InputReader` | the threaded readers: CSV, Criteo, Netflix |
| `Loading` | a loading process; composes `Configuration`, `InputReader` and the layout of objects |
| `LoadingProofs` | theorems about the three |
| `SparseLR` | sparse logistic regression: gradient, loss, layouts, as operators |
| `MatrixFactorization` | matrix factorisation likewise |
| `Training` | workers, model store, optimisers and error task; composes `SparseLR` and `MatrixFactorization` |
| `FoldFacts` | what `FoldLeft` and `FlattenSeq` compute, proved once for any operator |
| `TrainingProofs` | theorems about `Training`, the messages of `SparseLR` and `MatrixFactorization`, weights that are read without the lock, and gradients |
| `Experiment` | runs of an experiment: user, processes on the instance, front-end threads, Lambdas |
| `ExperimentProofs` | theorems about it |
| `MC...` | instances for TLC: constants, symmetry |

**Definitions named `...Stays`, `...Reuse`, `...Forgets` and the like**, each
under a comment "A plausible bug", are variants of the definition that follows
them. They are not part of a specification; putting one in place of its
original shows that a property notices the bug.

### CircularBuffer
`_buffer`, `_capacity`, `_front` and `_tail` are the fields of the class; `add`
writes at `_tail` and advances it, `pop` returns what is at `_front`. `add` does not
compare the two indexes, so the ring promises FIFO order only to callers that leave a slot free:
the guard of `add` here, `RingHasRoom` in the sparse iterator. `update` is the
assignment through the reference that `front` returns, which the LIBSVM iterator
makes. The module is instantiated there, and `RingIsFifo` is its refinement of
`Fifo` in that use.

### S3SparseIterator
One action per access to shared state. The prefetch thread goes through
`PrefWait` (`pref_sem.wait`), `SampleObjId` or `LoadCurrent`/`StoreCurrent`
(`getObjId`, whose `++` is a load and a store racing the constructor),
`S3GetSucceeds`/`S3GetFails`/`S3Retry` (the `try`, its `catch` and `goto`), and
`BeginInsert`, `EndInsert`, `AddQueue`, `CountMinibatch`, `PostMinibatch`,
`PushDone` (`pushSamples`). `getNext` is `CallGetNext`, `EraseString`, `SemWait`,
`TakeMinibatch` (under `ring_lock`), `ReadReady`, `ReadPrefSem`, `SignalPrefetch`,
`BuildDataset`. The two operations on `list_strings` are two steps each or happen
in the window between them; `mapRace` records that they overlapped, after which
the map's contents mean nothing and the properties about it are suspended. A
minibatch is abstracted to its string's version, its place in the object and the
mark that makes the consumer delete the string.

### TaskRegistry
An invocation of the handler is a process (`Invoke`, `SendRegister`,
`RecvVerdict`, `WorkerExits`, `SendDeregister`, `DeregisterReturns`, `Raise`,
`HandlerFails`), killed by AWS when its time is up (`Kill`). A request stays in
`regMsg` or `deregMsg` until a server thread handles it, in any order and any
time later, or is lost. The handlers of the server are one step under
`register_lock`; the reply (`SendVerdict`) and `num_tasks++` (`CountTask`) come
after the unlock, as in the code. `check_tasks_lifetime` erases from the
`std::map` over which it iterates: after the first erase the behaviour is
undefined, modelled as any subset of the expired tasks or a crash. `num_tasks` is
a plain integer updated by threads that hold different locks or none: concurrent
updates may lose one another.

### PSServer
A slot is an element of `fdses[p]`; a `Request` holds, as in the code, the
descriptor at the time it was queued and a *reference* to the slot. A poll thread
calls `Poll` (`poll()` writes `revents`), goes through the slots in order
(`ScanReadable`, `ScanHup`, `CloseHup`, `ScanDone`, with `Accept`, `Refuse`,
`AcceptFails`, `CountConnection` for the listening socket) and ends the round with
`Purge`. If the table is full, that begins a walk of `std::remove_if` over it, which
takes no lock and goes slot by slot: `PurgeTest` is `testRemove`, `PurgeLower` the
store of the index it counts down, `PurgeMove` the copy of a live slot to the front,
`PurgeDone` the end. Workers may erase and arm slots between these steps, and thread
0 may accept a connection into the table (`AcceptLoads`, `AcceptStores`): it reads the
index three times, and what the first read saw may be out of date at the others.
Outside a walk nobody else writes the index, and `Accept` is one step. A worker takes a request (`Dequeue`), reads the operation, then the body
if it has one, replies if it has to, and rearms the slot. The operations are
grouped by what their handlers do with the socket: six groups stand for fifteen
operations. The length of a message is abstracted: a request is one word for the
operation and one for the rest. `handle_failed_read` is two steps
(`BeginFailedRead`, `EndFailedRead`) because the descriptor can be reused between
`close()` and `fd = -1`. An exception nobody catches ends the process; `died`
says of what. `kill_server()` cannot be reached (see the findings), so neither is
the shutdown behind it.

### LibsvmParser and S3IteratorLibsvm
`buildDatasetLibsvm`, `parseObjLibsvm` and their helpers keep their names; an
index into the text is the argument that the code passes by reference, and a
throw is a status. Numbers stay sequences of characters, since the question is
where they end. A setup is a file, the length of a range, the order of ranges and
the lines of a minibatch. The fetcher is `PrefWait`, `getFileRange`,
`GetAndParse` (download and parse; a throw sets `aborted`, the end of the
process), `AddList`, `CountMinibatch`, `PostMinibatch`; `getNext` is `SemWait`,
`LockRing`, `PopEmpty`, `TakeMinibatch`, `ReadReady`, `ReadPrefSem`,
`SignalPrefetch`. `Data` is what S3 returns for the header that `S3Client.cpp:117`
builds: both ends of a range included, and nothing past the end of the file. What a range gives is tabulated once (`ParseTable`); `Lists`
is any finite set that holds what the parser gives and is closed under dropping the last
sample, so the proofs do not depend on the texts the runs choose.

### Configuration, InputReader, Loading
A line of a configuration file is an option with a value that can be extracted,
cannot, or is missing; `parse_line` takes them in any order, since the order of
the lines is what its checks depend on. `check` and `run_tasks` follow, each with
its throw or crash as a status. The readers are one action per access to shared
state: `ReadLine`, `CheckEof`, `CheckLimit`, `ParseLine`, `PublishFirst`,
`PublishSecond` for Criteo; `ReadBatch`, `PollQueue`, `Join` in the main thread
and `CheckTerminate`, `TakeLines`, publishing in the others for CSV;
`NetflixReadLine`, `MapUser`, `PublishMax` for Netflix. A line is its number;
what it parses to is looked up where the loader needs it. Kaggle's header line is
not counted. `read_input_rcv1_sparse` runs the Criteo thread with another line
parser, which is not modelled. A loader is `StartLoading`, `ReadDataset`,
`PutObject`, `check_loading`; objects are sequences of words, built and decoded
as in `SparseDataset.cpp`. Normalised values are fractions. The loops over a map
become `Ascending`, its keys in their order.

### SparseLR, MatrixFactorization, Training
Floating point is replaced by integers and the logistic function by a step: what
is compared is which cells a computation reads and writes, in which order and how
often, and integers show a term that is missing or counted twice.
`SparseLR!minibatch_grad` (the dense definition in the code) is the reference for
`minibatch_grad_sparse`. For matrix factorisation it is what `SparseMFModel` itself has
after training on its copy; the update in `MFModel`, with regularisation constants of
its own, is not compared with. Messages are sequences of words.

A worker is `GetMinibatch` (which also sends the request for weights),
`ComputeGradient`, `PushGradient`; the handlers of its two connections are `put[w]`
(`GradientReceive`, `GradientLock`, `GradientApply`, one weight at a time,
`GradientCount`) and `get[w]` (`RequestReceive`, `ReadWeight`, `EditWeight`). Sizes
have consequences: `Refused` and `Unanswerable` are the assertions and checks of
buffers by which a message ends the server, `ErrorModelTooLong` the one for the full
model. A worker whose minibatch has no features, or more than `SparseLRModel.cpp:384`
allows, ends at that assertion (`AbortWorker`), after its request was sent: a request
for no weight is answered without reading anything, and the worker does not wait for
it. A request that is longer than the client's buffer is written past its end
(`PSSparseServerInterface.cpp:83`), which is undefined: the worker ends there
(`OverrunMessage`) or goes on. The
main loop is `ReportRead` and `ReportReset`. The error task is `ErrorTop`,
`ErrorGetModel`, `ErrorGetFails`, `ErrorLoss`, `ErrorTime`, `ErrorError`; the
responder `UdpTime` and `UdpError`. How the server's threads come to serve a
connection, one request at a time, is `PSServer`'s part. `pushed`, `committed`,
`counted` and `window` are history: what was sent, which models there have been
and which of them a read may see. A worker whose iterator stands at an object that
the bucket does not have stays where it is (`Stored`): the download is tried again
for ever.

### Experiment
The user alternates `run()` and `kill()`; each is several steps (`RunStart`,
`RunClear`; `KillSet`, `StopError`, `StopPs`), between which everything else may
happen. Every call of `run()` has its own server, error task and threads:
`WaitUntilStarted`, `MaintainWorkers` and `MakeLambdaRaises` are
`wait_then_maintain_workers`; `CleanUpWait` and `DeleteLambda` are `clean_up`;
`TestStop`, `Invoke`, `Throttled`, `InvokeRaises`, `Register` and `LambdaReturns`
are a `maintain_one` thread, the launch it blocks in and the Lambda it waits for.
`Event.wait()` is a test and a wait: a thread that waits is woken by `set()` even
if `run()` clears the event at once. All runs share `stop_event`, the ports and
the pid files. Servers set `SO_REUSEPORT`, so two may listen and a connection
reaches either. A `registered` entry is kept until its server ends: a task id is
never given out twice by a registry. SSH itself is taken to be reliable, and the
user does not call `run()` twice without a `kill()` in between.

## 3. Runs

| Run | Instance | Shows |
|---|---|---|
| `libsvm` | files of 2 to 4 lines, ranges of 5 to 40 characters at every place, ring of 6, limit 2 | only whole lines become samples; where the parser throws; tokens, ring and read-ahead agree; minibatches keep coming |
| `iterator` | read-ahead 1, threshold 1, 2 minibatches per object, ring of 5, 6 versions, random and sequential | all safety properties of the iterator, and `getNext` returns |
| `iterator_range` | violation | the thread can read `current` before it is assigned |
| `registry` | two invocations, of one task or one of each of two | one worker per task, clocks, life cycle; every registration ends |
| `server` | 2 poll threads, 2 workers; orderly clients, mixed requests, one client alone, early closes, resets and kills, crowds that fill tables of 3 and of 4 slots | exclusive service, own socket while there is room, no leaked descriptor, no crash by orderly clients, a purge loses no connection that it has found |
| `server_live` | one worker | every request is answered, every closed connection released |
| `server_slots` | violation | a purge moves slots that requests refer to |
| `experiment` | one worker, 2 runs, 2 generations, 1 retry | ids fresh; a kill that lasts ends the fleet |
| `experiment_kill` | violation | `kill()` leaves the server up when the error task has died |
| `loading` | 3 threads, inputs of up to 4 lines, configurations around a complete one | what is accepted and usable; lines, labels, rows; objects decode; every load ends |
| `loading_limit` | violation | threads that pass the test of the limit together read more samples than it allows |
| `training` | up to 2 workers, 2 weights or 4 users and 2 items, every optimiser, minibatches without features, without ratings and with too many, buffers too small, 3 rounds of the error task | updates serial, reads current, gradients right, every gradient applied, processes stop for sizes only |

A property of a run may be the conjunction of named parts: `StringsOwned` is
`NoDanglingPointer` and `NoLeak`, `SemaphoreRight` is `TokensMatch` and
`PrefetchBounded`, `VerdictSound` is `AcceptedIffUsable`, `AcceptedSizesFit` and
`CrashOnlyByZero`,
`ObjectsDecode` is `SlicesDecode` and `EveryFieldCounted`, `ReportsHonest` is
`RateNeverOverstates` and `ReplyLag`, `GradientsExact` is
`SparseGradientIsGradient` or `GradientIsLocalProgress` by the kind of model. What
follows from another property of a run, or is proved and follows from the
invariant of a proof, has no place of its own in a cfg (`FrontNeverThrows`,
`ReadAheadLimit`, `ClocksAgree`, `ImplementsFifo` outside `RingIsFifo`). Nor have
the type invariants of `CircularBuffer`, `PSServer`, `S3IteratorLibsvm`,
`Configuration`, `InputReader`, `Training` and `Experiment`, which state the ranges
of the variables; they hold on the instances above, and those of `PSServer`,
`Configuration`, `InputReader` and `Experiment` are proved.

### Bounds, and why they are enough
* *Iterator.* The code's limits are 200 ready minibatches, a ring of 100000 slots
  and versions that are an `int` (`S3SparseIterator.h:61`). What matters is that the threshold is crossed with
  permissions outstanding, that the ring fills up to its bound and that versions
  wrap while old ones are alive. All three happen with the small values; `Capacity`
  and `Versions` are the smallest their assumptions allow. The theorems cover the
  other values.
* *Registry.* Two invocations of one task compete for it, and one of each of two
  tasks, which the lifetime check may find expired together. `MaxLife` 1 and
  `Threshold` 1 let an invocation expire before and after the grace period; `Life` gives
  one invocation a tick of time and the others none. Ages stop at `MaxAge`, one more
  than any comparison can tell apart. `Modulus` 2 stands for 2^32: the wrap below zero
  happens.
* *Server.* Two poll threads, because accepting and secondary threads differ; two
  workers and two connections, the least with which two workers can meet on one
  slot or a descriptor be reused. `MaxRequests` 2 makes a slot be rearmed and used
  again. A table of 5 never fills with two connections (`Roomy`); crowds use
  tables that do: with 3 slots thread 0 accepts into the other table while it is
  purged, with 4, as in `server_slots`, a purge of its own table has something to move. The setups with faults and the crowds have
  modulus 1, which fixes `num_connections` at 0: the counter is inexact after races
  anyway, and with this value no connection is refused.
* *LIBSVM.* Random ranges start at every character, so every kind of cut happens:
  in a label, an index, a value, after a colon, at both sides of a newline. The
  ring of 6 holds what `ReadyLimit` 2 (200 in the code) and a read-ahead of 1 allow.
* *Loading.* Three threads, the least with which two race a third; as many lines as
  threads, or one more; batches of 2 (100 in the code), so that a batch can be
  incomplete; two rows of users and a third user; a complete configuration with up
  to two lines more, or one exchanged.
* *Training.* Two weights, one shared by the minibatches and one repeated in a
  sample; one factor; two objects of two rows and minibatches of one, so that a
  worker goes around its range and two workers split it. `MsgWords` is 4, where a
  message of the client and a reply have 262144 words (1 MB), and a thread's buffer
  (`buffer`, 31457280 words in the code) has 20, or 2, 3, 5 and 15 so that the full
  model, a request, a gradient or a message of ratings does not fit. A worker is bounded by
  `bound` minibatches, where the code has none.
* *Experiment.* Two runs, so that threads of the first meet the second; one worker,
  because workers of a run share nothing but the event and the registry, which the
  theorems cover for any number; two generations, so that the limit is reached with
  one generation behind; one retry. The limits in the code are 10000 generations,
  1000 workers and 3 retries.
* Deadlock is checked for the sparse iterator, the registry and the loader. In the
  LIBSVM run it is not, since an aborted process and the mutual wait after an empty
  list are stops; nor in the training run, whose workers are bounded. In the
  experiment runs it is not, because a user may stop calling. In the server runs it
  is not either: a server whose clients have used up their requests, or that has
  died, rightly does nothing.

### Fairness
* *Threads* (`WF` of the constructor, of the prefetch thread, of `getNext`, of
  poll threads and workers): the operating system runs every thread that can run,
  and the mutexes are held for bounded sections.
* *Downloads* (`SF` of `S3GetSucceeds`): a download that is retried for ever
  succeeds in the end. The code has no other way out of its `goto`, so nothing
  weaker would do.
* *Clock and main loop* (registry): time passes, and the main loop runs the
  lifetime check every second. Nothing is assumed of the Lambdas: they may vanish
  at any time.
* *Front end* (experiment): threads run, and calls of AWS and SSH return or raise; a
  Lambda ends at its time limit. The user need not call anything, and the processes
  need not start or stay up.
* *LIBSVM iterator*: both threads run, downloads end, and the task goes on calling
  `getNext`.
* *Loading*: every thread runs; nothing else is waited for.
* *Training*: workers, handlers and the error task run. The main loop and the UDP
  responder need not.
* *Clients* (server): a client that has sent the operation of a request sends the
  rest, which is one `send` further in the same function. None has to connect,
  begin a request or close.

## 4. Disagreements between code and its own words

1. `iterator_range`: the constructor starts the thread before it sets `current`.
   The first object fetched may be number 0, outside the range.
2. `server_slots`: cleaning dead connections changes what queued requests refer to.
3. `experiment_kill`: `stop()` "sends SIGKILL to both processes" only while both are
   alive. With the error task gone it raises first, and so does every later call; a
   further `run()` then starts a second server on the same port.
4. `loading_limit`: "max number of training input samples" (`Configuration.h:175`) is
   not the maximum. The Criteo readers "enforce max number of lines read"
   (`InputReader.cpp:630`) by a test without a lock, before the line is counted; the
   threads that pass it together read one line each. By how much the limit is missed is
   bounded: `OvershootIsBounded`.

More are visible in the models and have no run of their own:

* `list_strings` is modified by two threads without a lock (`BeginInsert`,
  `EraseString`, `mapRace`), although `ring_lock` is declared "used to synchronize
  access" (`S3SparseIterator.h:51`).
* "We ensure that all workers are killed" (`core.py:143`): a Lambda that was being
  launched when `kill()` set the event, or a thread that sleeps between generations
  until `run()` clears it again, registers with the next server (`TestStop`,
  `Register`).
* A Lambda function whose concurrency cannot be set is left behind: `clean_up` has
  not been started yet (`MakeLambdaRaises`).

* A purge is there to "clean dead connections" (`Tasks.h:275`) and "purge unused fds"
  (`PSSparseServerTask.cpp:889`). An accept into the table that another poll thread is
  purging can write its connection over a live one that has not been moved yet
  (`AcceptLoads`, `AcceptStores`): that connection is open and nobody polls it any more.
  With 3 slots: the first of two slots is dead, `testRemove` counts the index down to
  the second, and thread 0 writes there.
* The range of `getFileRange` has a "right side" that "is exclusive"
  (`S3IteratorLibsvm.cpp:352`), while the request for it includes the byte at its right
  side (`S3Client.cpp:117`): a range that ends before the end of the file brings one byte
  more than it says.
* Refused registrations increment `num_tasks` (`CountTask`; line 472), which is
  documented as "num of currently reg. tasks" (`Tasks.h:376`).
* `num_connections`, "num of current connections" (`Tasks.h:375`), loses updates:
  `ScanHup`/`CloseHup`, `Accept`/`CountConnection` and `BeginFailedRead`/
  `EndFailedRead` load and store it without a lock.
* The table of a poll thread is checked for room only if that thread accepts the
  connection; another thread's can be written past its end (`AcceptFails`).
* Task ids travel as unsigned 32-bit integers (`handler.py:54`): those of experiment
  430 do not fit. Ids are unbounded in the model.
* A read error in a worker thread is not handled (`Tasks.h:268`) but ends the server
  (`ReadThrows`).
* `KILL_SIGNAL` is not in `operation_to_f`, so gradient_f throws before it reaches the
  branch that handles it (`UnknownOperation`).

Seen in the newer modules, where the repository promises nothing to compare with:

* *LIBSVM.* The first line of every range is skipped, of a file's first range too.
  A range that ends just after a colon, that holds one line only or that shows a
  sign makes the parser throw in the prefetch thread, which ends the process
  (`AbortOnlyAtCut`). A range without a full minibatch adds an empty list and posts
  nothing: the fetcher and `getNext` then wait for each other (`Suffices` excludes
  it from `MinibatchesKeepComing`).
* *Configuration.* `minibatch_size:` with 0, with no number or with nothing behind it
  divides by zero if an object size was read before (`CrashOnlyByZero`). A file without `model_type` is
  accepted and the tasks die of it. Ends of ranges that are no numbers become 0, and
  a range may end before it begins. A format other than `csv` for the sparse loader
  is refused only after the configuration was accepted.
* *Readers.* `fin.eof()` is asked outside the lock: up to one line per thread is
  lost (`FewLinesLost`). A limit of 0 reads one line. The CSV reader drops a last batch that is not full,
  and reads `samples[0]` of an empty result if there is no other.
* *Training.* A gradient of which no entry passes the threshold, a minibatch
  without a rating, one with more features than a reply of 1 MB takes, and messages
  and models that are longer than a thread's buffer stop the server for everybody; a
  minibatch without features stops its worker (`StopsOnlyForSizes`). Updates
  between the reading and the reset of the counter are missing from the rate; none
  is counted twice (`RateNeverOverstates`). A worker whose range is rounded to
  nothing divides by zero (`S3SparseIterator.cpp:266`), one with a negative length
  fetches past it; the setups leave both out. With `netflix_workers` 0 and a range
  that does not begin at 0 rows and users differ. The client of the full model does
  not look at the result of its reads in the factorisation case.

The properties that hold are worth as much: the unlocked checks of `getNext`
overshoot by at most one object (`PrefetchBounded`), and the unlocked `pollfd`s
work as a hand-over protocol as long as the table does not fill up
(`RequestsExclusive`, `OwnSocketWithRoom`). Weights that are read without the lock
are each one that the model had between the request and the reply
(`WeightsAreCurrent`).

## 5. Theorems

Proved with TLAPS for all values of the constants that satisfy the named
assumptions.

* **Iterator** (`S3SparseIteratorProofs`). The inductive invariant is `CountInv ==
  TypeOK /\ CountsAgree /\ ReadAheadLimit /\ PrefetchBounded`. `CountsAgree` alone is
  inductive given the types. `RingHasRoom` is not: it needs the bound on minibatches
  queued, in flight and permitted (`PrefetchBounded`), which is stated per point of
  the consumer because `getNext` tests two values and acts on both later. From it:
  `TypeCorrect`, `CountsCorrect`, `NeverEmpty`, `NeverOverflows`, `LimitRespected`.
  On top of it, `OrderInv` says which minibatches each queue of the ring still
  holds (the last ones of the version that its place in the ring determines) and
  `OwnershipInv` which strings are owned while the threads are apart. They give
  `StringsOwnedTheorem` and `InOrder`; both use that the versions alive at one time
  are fewer than `Versions`, so that a wrapped version is never taken for an old one.
  Assumptions: positive read-ahead, threshold and minibatches per object,
  `Capacity > ReadyThreshold + ReadAhead + 2` and `Versions > ReadyThreshold +
  ReadAhead + 3`. The theorems say how large ring and counter have to be; the code's
  100000 and an `int` are ample.
* **LIBSVM iterator** (`S3IteratorLibsvmProofs`). `SemaphoreCounts` and `RingIsQueue`
  share the invariant `IteratorInv`, over the sums `p[i]` of the minibatches in the
  first `i` lists of the ring. `Tokens` relates the last sum to the semaphore, the
  count and what the fetcher has yet to count and to post. That the ring never
  overflows is not in sight from there: lists may be empty, so that minibatches do
  not bound lists, and `getNext` tests a count, tests a semaphore and signals in three
  steps. `Room` says of each list what bounds the lists behind it: each was asked for
  by a minibatch that was taken from this list or from one ahead of it, while fewer
  than `ReadyLimit` of those were left. `Stale` says which lists may have come since
  the count was read. With `Few`, the same in minibatches for `PrefetchBounded`, the
  parts are inductive together. They give `ReadyLimit + 3` lists at the most, which
  the run `libsvm` reaches; the assumption `Capacity > ReadyLimit + read_ahead + 2` is
  the weakest one for which the refinement holds. The ring lemmas (`RingAdd`,
  `RingPop`, `RingUpdate`) are about any user that leaves a slot free. `Lists` is any
  finite set of sequences that has the parser's results and is closed under taking
  the last element.
* **Registry** (`TaskRegistryProofs`). The inductive invariant is `RegistryInv ==
  TypeOK /\ Protocol /\ ClocksAgree /\ StillActive`. `Protocol` relates an
  invocation's label to its requests and to the registry (who holds a verdict 0 has
  registered, and only one does); `StillActive` says that a task whose winner is
  still at work is active, unless the exception handler of a duplicate invocation
  deregistered it. From it
  `RegistryTypeCorrect`, `OneWorker`, `RunningStaysActive`, `ClocksCorrect` and the
  refinement `LifecycleRefined`, for any number of tasks and invocations.
* **Experiment** (`ExperimentProofs`). The inductive invariant is `IndInv == TypeOK /\
  Launching /\ NotStarted /\ RegisteredArePast`. `RegisteredArePast` says that what a
  fleet has registered belongs to a generation that is over or to one past its
  launch; `NotStarted` keeps a run's tables clean until its threads exist, without
  which creating them would forget the past; `Launching` bounds the generation. With
  the arithmetic of task ids (`TaskIdsDistinct`: a number in base
  `MAX_LAMBDA_GENERATIONS` has one reading) it gives `ExperimentTypes` and
  `IdsAreFresh`, for any number of runs, workers, generations and retries.
* **Server threads** (`PSServerProofs`). `ServerTypes` is inductive with the facts
  that requests refer to slots that exist. `OneRequestPerSlot` rests on
  `HandOverInv`: a slot that is queued or at a worker is disarmed, so that `poll()`
  reports nothing on it, and what the scan has read of a slot it read while the
  slot was armed; `RoomInv` (every accepted connection takes one slot) shows that
  no table fills where `Roomy` holds, so no purge moves a slot. With orderly clients
  three more parts are inductive together (`OrderlyInv`): `DescriptorInv`, a
  descriptor is open for one connection and is in one slot; `OwnInv`, a request
  names the connection its slot holds until the worker that reads its end gives it
  up; and `StreamInv`, the words still on a connection are those that the place of
  its client and the step of its worker say. The last is what shows that no handler
  reads past an end (`OrderlyClientsNeverKill`). 
  *The purge*: `PurgeDropsOnlyErased` has the invariant `WalkInv`. Its part `PurgeInv`
  says that the index never falls below `Left`, the size of the table less the dead
  slots found so far, which at the end of the walk is where the last slot kept lies
  (in the table of thread 0 they are equal); the load and the store of the count are
  two steps, and an accept in between only adds. `PlaceInv` says that an index which
  thread 0 has loaded for a table is not behind the one in it, so the index stays in
  the table. The theorem is about the steps of `remove_if`; what the step of an accept
  may overwrite in between is said in section 4. The assumption `NoConn \notin Conns` says
  that the mark for a closed descriptor is no connection.
* **Training** (`TrainingProofs`). `HonestReports` has two small invariants, one for
  the counter that is read and reset in two steps and one for the pair of the error
  task. `RowsAreUsers` relates the two ways in which a worker keeps its place, a row
  number and an object with an offset (`RowsInv`), by arithmetic on products: the
  sizes are positive and `S3Size` is a multiple of `MiniBatch`, as
  `Configuration.cpp` checks. `NoUpdateLost` has the invariant `StoreInv`. For each
  worker, `Waiting` says that the messages on its connection are, one for one, those
  of the gradients it has pushed; `Serving` says that what is left of the gradient in
  hand (`todo`), applied to the model as it is, gives what the whole gradient gives
  when it is applied to the last committed model at once (`Applying`); `Settled` that
  the two models agree when the lock is free. Why a whole gradient is the sum of its
  entries is `EntriesAddUp`; why a message decodes to it are the lemmas on layouts,
  `LRMessage` for logistic regression and `MFWordsLayout`, `MFEntriesEnumerate` and
  `MFMessage` for collaborative filtering, where an entry of the message has to be
  found among biases and blocks of factors. `LRModelRoundTrip` and `MFModelRoundTrip`
  do the same for full models, for the second half of `UpdatesSerial`.
  `StopsExplained` follows from `StoreInv`: a message that ends the server is as long as
  the gradient, minibatch or model it was made from says, through the layouts.
* **Weights read without the lock** (`TrainingProofs`). `ReadsAreCurrent` has the
  invariant `WeightInv`, on top of `StoreInv`. While a worker waits for weights,
  `Asked` says that its window (what the server had since the request) is for the
  cells of the request and holds the model as it is now: each step of a gradient
  that another thread applies extends it, so a weight can be read at any point of
  that gradient. `Answering` says, position by position, that what the handler has
  written so far was in the window for the cell at that position; a weight that is
  read but not yet edited by the optimisation method is one more case. `Current` is
  the property itself, for a worker with its reply. The step between the two is where
  the worker takes the reply apart. An LR reply has no word that says which weight is
  which: `LRReplyLoaded` places them by the request, in which indices repeat. A reply
  for collaborative filtering is a sequence of blocks, a block for each user and then
  for each item: `MFReplyLoaded` shows that a value found in a block was read for the
  cell it is loaded into, although users are known by their place, counted from the
  first, and items come in the order in which they were asked for.
* **Gradients** (`TrainingProofs`). `GradientsAreExact` is about two steps of a
  worker, from whatever state the steps before have left it in. The invariant
  `GradInv` stands on the two above. `NumberStore` says that the server's model and
  histories are integers, those of AdaGrad not negative, so that its divisor is
  positive; by `Seen` so is what the window holds, and by `WeightInv` a worker loads
  nothing else. For logistic regression `Exact` adds that the scratch vector is zero
  between minibatches although it is never cleared as a whole. That is `SweptAll`: the
  walk over the indices of the samples, which repeat, takes each sum once and resets
  it (`SweepStep`), and `CollectIs` says what the sums were. `SparseIsDense` compares
  the result with the dense gradient, entry by entry, and `DistinctCount` shows that
  none is left over. For collaborative filtering `Fetched` says that the worker has
  every cell that its minibatch needs, and `InRange` that its users are users of the
  model; that the server sent those cells is `RequestIsCells` and `LoadedCells`. The
  worker trains its copy rating by rating and pushes the sum of the changes:
  `GradientIsProgress` shows that after each rating the copy is the fetched model
  plus the gradient so far, `MFPushed` that this survives the layout of the message
  and the server's update (`EntriesMove`).
* The theorems on training hold for every `Dim`, number of factors, method and number
  of workers, and any integers for weights, `Threshold` and `Epsilon`. Setups are
  typed by `SetupOK`; with collaborative filtering `RatingsFit` asks that the users and
  items of the data and of the range are those of the model, that the items of a
  request have room in the thread's buffer and that a reply has in the one for
  messages (`THREAD_MSG_BUFFER_SIZE`). The server tests none of this: it reads and
  writes its arrays at what a message names.
* **Induction over data** (`FoldFacts`). The induction theorems of the library take
  an operator, which the provers cannot instantiate. `SetInduction` states induction
  for a set of numbers instead, from the well-foundedness of `<`. With it `FoldFacts`
  shows that the recursive functions inside `FoldLeft` and `FlattenSeq` exist, what
  they are for the empty sequence and for one more element, and where the elements of
  a flattened sequence come from; `FoldStays` carries a property through a fold. It
  is instantiated with the operator to be folded. It repeats the definitions of `Max`,
  `FoldLeft` and `FlattenSeq` of the community modules, since an instance of those
  would bring all their operators into each proof.

* **Configuration** (`LoadingProofs`). `VerdictIsSound` is about files of any length,
  whose lines are read in any order, with options repeated, missing or wrong. The
  invariant is `ConfInv`. `ConfHolds` says that each option of the configuration is
  the default or what one of the lines read so far says of it: with a repeated option
  it is not determined which, but it is one of them. `SizesAgree` says that the check
  of the two sizes, which is made at the line that is read second, has been passed
  as soon as both are there. `Printable` and `Checked` are what the later steps have
  tested. `Rejected` makes the verdict one in both directions: a line that stops the
  process is still a reason when the other lines are not read any more. The getters
  that `print()` calls are part of it: without them a missing learning rate would be
  accepted.
* **Readers** (`LoadingProofs`). `ReaderInv` has a part for each format, for any
  number of threads, lines and limits.
  * *CSV*, `CsvInv`. The main thread sets `terminate` after it has seen the queues
    empty one by one. `CsvControl` says why they are then empty at once: nobody fills
    them while it polls, so all queues before `at` stay empty. `Parted` says that the
    lines handed out are, each once, among the published ones and those that the
    threads hold (`Held`, the lines in hand and in the queue): with all queues empty
    and all threads done these are the published ones. `CsvPublished` says that while a
    thread holds the lock the two vectors differ by its lines. It gives
    `FullBatchesArrive` and, with the fact that a sequence of all positions is a
    permutation (`Shuffled`), `LabelsStay`.
  * *Criteo*, `CriteoInv`. `CriteoMine` says that each line that was read is with one
    thread, kept, in hand or dropped as the last line that this thread read. So at
    most one line per thread can be lost; that it is one less if the file ends in a
    newline is the part of `CriteoFile` that says that some thread has then met the
    end with no line in hand. `CriteoCounted` bounds the lines counted together with
    the threads past the test of the limit, which bounds the overshoot.
    `CriteoLosesFew` and `OvershootIsBounded` are the results.
  * *Netflix*, `NfInv`. `NfUsers` says that the users met have the numbers below
    `user_index`, each its own; `NfRows` that a line that was read is in the row of
    its user, in the hand of one thread or an unended last line; `NfCounted` that
    `number_users` is the number of a user and not below those of the threads that
    are done.
* **Bucket** (`LoadingProofs`). `BucketDecodes` rests on `LoadInv`: once the data set is
  read, the readers and the configuration rest, so that it stays what the reader
  returned and the objects are its first slices. The sizes are positive because the
  configuration was accepted, which is where `ConfInv` is needed. The rest is about
  layouts: `ObjectDecodes` shows that the starting points that the constructor of
  `SparseDataset` computes one from another, each from a length that it has read at
  the one before, are those at which `build_serialized_s3_obj` has put the samples,
  for rows of any lengths; `NormalizedRows` that normalised rows have that layout
  too. `ParsedLine` shows that the counts of a parsed line add up to its fields and
  the bias, whatever collides: the sum over the columns counts each field at the one
  column that it is hashed to (`CountsAddUp`).
  Assumptions: the inputs are typed (`SetupsAssumption`, `FilesAssumption`,
  `JobsAssumption`), the tables `Ratings` and `Columns` cover the lines of the inputs,
  hash values are natural numbers, and there is at least one thread and a positive
  batch size.
* **Induction over data** in `LoadingProofs` is that of `FoldFacts`: `PowerPositive`,
  `IncreasingExists` (a finite set of numbers can be enumerated in order) and
  `CountsAddUp` are by induction over a set of numbers.

Only model-checked: liveness (fairness and `ENABLED` are out of the prover's reach),
and what the LIBSVM parser computes (`WholeLinesOnly`, `AbortOnlyAtCut`). The parser is
three recursions over a text inside one another, and the theorem would need a grammar
of the files it is true of.

## 6. What is not modelled

* *Floating point*: rounding, overflow and convergence; `log_aux(0)`, which the code
  answers with a value close to 0 (`MlUtils.cpp:20`). The losses are modelled by
  which samples they add up.
* *Dense models*: `LRModel`, `SoftmaxModel`, `Matrix` and their gradients are used by
  tests and no task.
* *Widths*: `uniform_int_distribution<int>` over 64-bit offsets
  (`S3IteratorLibsvm.cpp:365`), and a line that fills the buffer of `strncpy`
  (`InputReader.cpp:584`).
* *Text*: the MovieLens, Jester, MNIST, RCV1 and dense Criteo parsers, field
  lengths, and the hash functions behind `BiasHash` and `Columns`.
* *Maps without users*: `task_to_status` and `key_value_map` of the server. The start
  barrier that would set a status is compiled out; nothing calls the key-value
  requests. `RedisIterator` is not constructed either.
* *Pure I/O*: S3, Redis and AWS wrappers, the dashboard, logging.
* *Server start-up and shutdown*: the start is sequential up to a barrier; the
  shutdown cannot be reached. Checkpointing is a loop with an empty body.
* *Third-party algorithms*: MurmurHash, CRC.
* *Grid search and preprocessing*, which are to come.

## 7. Plan

1. *Parser*: a grammar of LIBSVM files as an assumption on `Setups`, and
   `WholeLinesOnly` by induction over the position in the text.
2. *Grid search* over `Experiment`; *preprocessing* with duplicate suppression.
