------------------------------ MODULE Training ------------------------------
(* Training: the workers (LogisticSparseTaskS3.cpp, MFNetflixTask.cpp), the   *)
(* model store of the parameter server (the handlers of                       *)
(* PSSparseServerTask.cpp:121-363 and the optimisation methods) and the error *)
(* task (ErrorSparseTask.cpp).  A worker has two connections, one for models  *)
(* and one for gradients, which are never answered; PSServer models how the   *)
(* server's threads serve a connection, one request at a time.  Here each     *)
(* connection is served by a handler: get[w] and put[w].                      *)
EXTENDS MatrixFactorization

LR == INSTANCE SparseLR

CONSTANTS Setups,       \* see SetupOK
          Dim,          \* 1 << model_bits, weights of an LR model
          Epsilon, Threshold,   \* get_epsilon(), get_grad_threshold() or NoThreshold
          S3Size, MiniBatch,    \* s3_size, minibatch_size
          MsgWords,     \* 1 MB: MAX_MSG_SIZE of a client, the server's data_to_send
          Iters,        \* iters: rounds of the error task
          Required      \* right answers that end its test

THREAD_MSG_BUFFER_SIZE == 250000    \* words

(* A row is a user, and the model has the users and items of the rows and of  *)
(* the objects of the range; items have room in the thread's buffer, and a    *)
(* reply in its message buffer.  The code tests none of this: the server      *)
(* reads and writes its arrays at what a message names.                       *)
RatingsFit(s) ==
  /\ s.nitems <= s.buffer
  /\ (MiniBatch + s.nitems) * (NumFactors + 2) <= THREAD_MSG_BUFFER_SIZE
  /\ DOMAIN s.rows \subseteq 0 .. (s.nusers - 1)
  /\ S3Size * (s.last + 1) <= s.nusers
  /\ \A u \in DOMAIN s.rows : \A i \in DOMAIN s.rows[u] : s.rows[u][i][1] < s.nitems

(* What is trained: the kind of model, the method, the workers, the           *)
(* minibatches of "lr" or the rows of ratings of "mf" with their users and    *)
(* items, the range of objects, netflix_workers, test_iters (0: a worker      *)
(* never exits), a bound on the minibatches of a worker, whether the error    *)
(* task runs and which minibatches it tests with, a bound on the reports of   *)
(* the main loop, and the words of a thread_buffer (31457280 in the code).    *)
SetupOK(s) ==
  /\ s.kind \in {"lr", "mf"}
  /\ s.opt \in {"sgd", "momentum", "nesterov", "adagrad"}
  /\ s.workers \in Nat /\ s.netflix_workers \in Nat
  /\ s.first \in Nat /\ s.last \in Nat /\ s.first <= s.last
  /\ s.eval \in BOOLEAN
  /\ {s.nusers, s.nitems, s.test_iters, s.bound, s.reports, s.buffer} \subseteq Nat
  /\ s.batches \subseteq Seq([label : Int, feats : Seq((0 .. (Dim - 1)) \X Int)])
  /\ \A u \in DOMAIN s.rows : s.rows[u] \in Seq(Nat \X Int)
  /\ s.kind = "mf" => RatingsFit(s)

ASSUME SetupsAssumption == \A s \in Setups : SetupOK(s)
\* Configuration.cpp:119-127: s3_size is a multiple of minibatch_size.
ASSUME SizeAssumption == /\ {MiniBatch, S3Size} \subseteq Nat \ {0}
                         /\ S3Size % MiniBatch = 0
ASSUME BoundsAssumption == /\ {Dim, Iters, Required, MsgWords} \subseteq Nat
                           /\ {Epsilon, Threshold} \subseteq Int

VARIABLES
  setup,
  model,        \* lr_model / mf_model: cell -> value
  opt,          \* weights_hist_ and momentum_avg
  model_lock,   \* worker whose gradient is being applied, or Nobody
  gradientUpdatesCount,
  crashed,      \* what the assertion or exception that ended the server is about, or "no"
  put, get,     \* the handlers
  gradConn,     \* gradients on the way to the server
  wpc, count, iter, wmodel, part3, batch, base, grad,   \* workers
  report,       \* main loop: last reading, sum of what was printed, reports
  err,          \* error task
  udp,          \* its response thread
  pushed, committed, counted, window        \* history, for the properties only

serverVars == <<model, opt, model_lock, gradientUpdatesCount, crashed>>
workerVars == <<wpc, count, iter, wmodel, part3, batch, base, grad>>
history == <<pushed, committed, counted, window>>
vars == <<setup, serverVars, put, get, gradConn, workerVars, report, err, udp, history>>

Nobody == -1
W == 0 .. (setup.workers - 1)
LRKind == setup.kind = "lr"

(* Cells of the model; an LR weight is the cell of its index. *)
ModelCells == IF LRKind THEN 0 .. (Dim - 1)
              ELSE Cells(0 .. (setup.nusers - 1), 0 .. (setup.nitems - 1))

-----------------------------------------------------------------------------
(* Optimisation methods: state [w, hist, avg], one entry of a gradient.       *)
(* momentum_beta is 1/2, and quotients are those of integers.                 *)
SGD(st, e) == [st EXCEPT !.w[e[1]] = @ + Rate * e[2]]

Momentum(st, e) ==
  LET avg == IF st.avg = 0 THEN e[2] ELSE (st.avg + Rate * e[2]) \div 2
  IN [st EXCEPT !.avg = avg, !.w[e[1]] = @ + avg]

Nesterov(st, e) == Momentum(st, e)

AdaGrad(st, e) ==
  LET hist == [st.hist EXCEPT ![e[1]] = @ + e[2] * e[2]]
  IN [st EXCEPT !.hist = hist,
                !.w[e[1]] = @ + (Rate * e[2]) \div (1 + hist[e[1]])]

(* MFModel::sgd_update(learning_rate, gradient): a cell moves by its entry. *)
MFUpdate(st, e) == [st EXCEPT !.w[e[1]] = @ + e[2]]

sgd_update(st, e) ==
  CASE ~LRKind -> MFUpdate(st, e)
    [] LRKind /\ setup.opt = "sgd" -> SGD(st, e)
    [] LRKind /\ setup.opt = "momentum" -> Momentum(st, e)
    [] LRKind /\ setup.opt = "nesterov" -> Nesterov(st, e)
    [] LRKind /\ setup.opt = "adagrad" -> AdaGrad(st, e)

edit_weight(weight) ==
  IF LRKind /\ setup.opt = "nesterov" THEN weight + (opt.avg \div 2) ELSE weight

Store == [w |-> model, hist |-> opt.hist, avg |-> opt.avg]

-----------------------------------------------------------------------------
(* Which rows a worker of collaborative filtering works on: its objects l to  *)
(* r, and the numbers of the users it starts from and stops at.               *)
range_length == ((setup.last - setup.first) \div setup.netflix_workers) + 1
l(w) == IF setup.netflix_workers = 0 THEN setup.first ELSE w * range_length
r(w) == IF setup.netflix_workers = 0 THEN setup.last
        ELSE Min({l(w) + range_length, setup.last})
sample_low(w) == IF setup.netflix_workers = 0 THEN 0 ELSE l(w) * S3Size
sample_high(w) ==
  IF setup.netflix_workers = 0 THEN S3Size * (setup.last + 1)
  ELSE Min({S3Size * (setup.last + 1), (r(w) + 1) * S3Size})

(* A plausible bug: the last minibatch of the range is left out. *)
next_indexShort(w, sample_index) ==
  IF sample_index + 2 * MiniBatch >= sample_high(w) THEN sample_low(w)
  ELSE sample_index + MiniBatch

next_index(w, sample_index) ==
  IF sample_index + 2 * MiniBatch > sample_high(w) THEN sample_low(w)
  ELSE sample_index + MiniBatch

(* The iterator of that worker: object and place, from l to r and again.      *)
(* When l = r + 1 it divides by the length of an empty range.                 *)
IterNext(w, it) ==
  IF it.at + MiniBatch < S3Size THEN [it EXCEPT !.at = @ + MiniBatch]
  ELSE [obj |-> IF it.obj + 1 = r(w) + 1 THEN l(w) ELSE it.obj + 1, at |-> 0]

Place(it, i) == it.obj * S3Size + it.at + i - 1
Rows(it) == [i \in 1 .. MiniBatch |-> setup.rows[Place(it, i)]]

(* The get of an object that the bucket does not have is tried again for ever.*)
Stored(it) == \A i \in 1 .. MiniBatch : Place(it, i) \in DOMAIN setup.rows

-----------------------------------------------------------------------------
Init ==
  /\ setup \in Setups
  /\ model = [c \in ModelCells |-> IF LRKind THEN 0 ELSE 1]
  /\ opt = [hist |-> [c \in ModelCells |-> 0], avg |-> 0]
  /\ model_lock = Nobody
  /\ gradientUpdatesCount = 0
  /\ crashed = "no"
  /\ put = [w \in W |-> [pc |-> "idle", todo |-> <<>>]]
  /\ get = [w \in W |-> [pc |-> "idle", msg |-> <<>>, cells |-> <<>>, out |-> <<>>]]
  /\ gradConn = [w \in W |-> <<>>]
  /\ wpc = [w \in W |-> "next"]
  /\ count = [w \in W |-> 0]
  /\ iter = [w \in W |-> [obj |-> l(w), at |-> 0]]
  /\ wmodel = [w \in W |-> IF LRKind THEN [c \in ModelCells |-> 0] ELSE <<>>]
  /\ part3 = [w \in W |-> IF LRKind THEN [c \in ModelCells |-> 0] ELSE <<>>]
  /\ batch = [w \in W |-> <<>>]
  /\ base = [w \in W |-> sample_low(w)]
  /\ grad = [w \in W |-> <<>>]
  /\ report = [read |-> 0, printed |-> 0, left |-> setup.reports, pc |-> "read"]
  /\ err = [pc |-> IF setup.eval THEN "top" ELSE "off", iterations |-> 0, copy |-> <<>>,
            at |-> 0, right |-> 0, curr_error |-> 0, last_time |-> 0,
            last_error |-> [round |-> 0, loss |-> 0]]
  /\ udp = [pc |-> IF setup.eval THEN "recv" ELSE "off", time |-> 0, error |-> err.last_error]
  /\ pushed = [w \in W |-> <<>>]
  /\ committed = Store
  /\ counted = 0
  /\ window = [w \in W |-> [cells |-> <<>>, avgs |-> {}]]

-----------------------------------------------------------------------------
(* Workers.                                                                   *)

(* The cells the request asks for. *)
RequestCells(msg) ==
  IF LRKind THEN [i \in 1 .. msg[1] |-> msg[i + 1]] ELSE MFRequestCells(msg)

(* The next minibatch: any of the data set, or the next rows in order. *)
NextSamples(w) ==
  /\ LRKind
  /\ \E b \in setup.batches : batch' = [batch EXCEPT ![w] = b]
  /\ UNCHANGED iter

NextRows(w) ==
  /\ ~LRKind
  /\ l(w) # r(w) + 1 /\ Stored(iter[w])
  /\ batch' = [batch EXCEPT ![w] = Rows(iter[w])]
  /\ iter' = [iter EXCEPT ![w] = IterNext(w, @)]

(* Next minibatch, and the request for the part of the model that it needs.   *)
GetMinibatch(w) ==
  /\ wpc[w] = "next" /\ count[w] < setup.bound
  /\ NextSamples(w) \/ NextRows(w)
  /\ LET msg == IF LRKind THEN LR!LRRequestWords(batch'[w])
                ELSE MFRequestWords(base[w], batch'[w], MiniBatch)
     IN /\ get' = [get EXCEPT ![w] = [pc |-> "sent", msg |-> msg, cells |-> <<>>, out |-> <<>>]]
        /\ window' = [window EXCEPT ![w] =
             [cells |-> [c \in ToSet(RequestCells(msg)) |-> {model[c]}], avgs |-> {opt.avg}]]
  /\ wpc' = [wpc EXCEPT ![w] = "model"]
  /\ UNCHANGED <<setup, serverVars, put, gradConn, count, wmodel, part3, base, grad, report,
                 err, udp, pushed, committed, counted>>

(* A request of LR that is longer than the client's buffer is written past    *)
(* its end, which ends the worker here unless it goes unnoticed.              *)
OverrunMessage(w) ==
  /\ wpc[w] = "next" /\ count[w] < setup.bound
  /\ NextSamples(w)
  /\ Len(LR!LRRequestWords(batch'[w])) > MsgWords
  /\ wpc' = [wpc EXCEPT ![w] = "abort"]
  /\ UNCHANGED <<setup, serverVars, put, get, gradConn, count, wmodel, part3, base, grad,
                 report, err, udp, history>>

(* Loading the reply asserts that it has weights; a reply without any is not  *)
(* waited for.                                                                *)
AbortWorker(w) ==
  /\ wpc[w] = "model" /\ LRKind
  /\ ~LR!CountOK(Len(LR!Features(batch[w])))
  /\ LR!Features(batch[w]) = <<>> \/ get[w].pc = "reply"
  /\ wpc' = [wpc EXCEPT ![w] = "abort"]
  /\ UNCHANGED <<setup, serverVars, put, get, gradConn, count, iter, wmodel, part3, batch,
                 base, grad, report, err, udp, history>>

LogisticGradient(w) ==
  /\ LRKind /\ LR!CountOK(Len(LR!Features(batch[w])))
  /\ wmodel' = [wmodel EXCEPT ![w] =
       LR!loadSerializedSparse(LR!LRRequestWords(batch[w]), get[w].out, @)]
  /\ LET step == LR!minibatch_grad_sparse(batch[w], wmodel'[w], Epsilon, Threshold, part3[w])
     IN part3' = [part3 EXCEPT ![w] = step.part3] /\ grad' = [grad EXCEPT ![w] = step.grad]

MFGradient(w) ==
  /\ ~LRKind
  /\ wmodel' = [wmodel EXCEPT ![w] =
       loadSparseMF(MFReplyWords(get[w].cells, get[w].out), base[w], MiniBatch,
                    Len(ItemOrder(batch[w])))]
  /\ grad' = [grad EXCEPT ![w] = minibatch_grad(wmodel'[w], base[w], batch[w]).g]
  /\ UNCHANGED part3

(* The reply becomes the worker's model, and that gives the gradient. *)
ComputeGradient(w) ==
  /\ wpc[w] = "model"
  /\ get[w].pc = "reply"
  /\ LogisticGradient(w) \/ MFGradient(w)
  /\ get' = [get EXCEPT ![w] = [pc |-> "idle", msg |-> <<>>, cells |-> <<>>, out |-> <<>>]]
  /\ wpc' = [wpc EXCEPT ![w] = "grad"]
  /\ UNCHANGED <<setup, serverVars, put, gradConn, count, iter, batch, base,
                 report, err, udp, history>>

MFUsers(w) == [i \in 1 .. Len(batch[w]) |-> base[w] + i - 1]

(* The message of the gradient, and the end of the iteration. *)
PushGradient(w) ==
  /\ wpc[w] = "grad"
  /\ gradConn' = [gradConn EXCEPT ![w] = Append(@,
       IF LRKind THEN LR!LRGradientWords(count[w] + 1, grad[w])
       ELSE MFGradientWords(grad[w], MFUsers(w), ItemOrder(batch[w])))]
  /\ pushed' = [pushed EXCEPT ![w] = Append(@, grad[w])]
  /\ count' = [count EXCEPT ![w] = @ + 1]
  /\ base' = IF LRKind THEN base ELSE [base EXCEPT ![w] = next_index(w, @)]
  /\ wpc' = [wpc EXCEPT ![w] =
       IF setup.test_iters > 0 /\ count'[w] > setup.test_iters THEN "exit" ELSE "next"]
  /\ window' = [window EXCEPT ![w] = [cells |-> <<>>, avgs |-> {}]]
  /\ grad' = [grad EXCEPT ![w] = <<>>]
  /\ batch' = [batch EXCEPT ![w] = <<>>]
  /\ wmodel' = IF LRKind THEN wmodel ELSE [wmodel EXCEPT ![w] = <<>>]
  /\ UNCHANGED <<setup, serverVars, put, get, iter, part3, report, err, udp,
                 committed, counted>>

-----------------------------------------------------------------------------
(* Server: gradients.                                                         *)

(* A plausible bug: off by one. *)
NoWeightsOrOne(msg) == LRKind /\ ~LR!CountOK(msg[2] - 1)

(* loadSerialized asserts that an LR gradient has weights. *)
NoWeights(msg) == LRKind /\ ~LR!CountOK(msg[2])

(* What the server does with a message that it can not take: it ends. *)
Refused(msg) ==
  CASE Len(msg) > setup.buffer -> "Not enough buffer"
    [] Len(msg) <= setup.buffer /\ NoWeights(msg) -> "num_weights"
    [] OTHER -> "no"

GradientReceive(w) ==
  LET msg == Head(gradConn[w]) IN
  /\ put[w].pc = "idle" /\ gradConn[w] # <<>>
  /\ gradConn' = [gradConn EXCEPT ![w] = Tail(@)]
  /\ crashed' = Refused(msg)
  /\ put' = IF Refused(msg) # "no" THEN put
            ELSE [put EXCEPT ![w] = [pc |-> "lock",
                    todo |-> IF LRKind THEN LR!loadLRGradient(msg) ELSE loadMFGradient(msg)]]
  /\ UNCHANGED <<setup, model, opt, model_lock, gradientUpdatesCount, get, workerVars,
                 report, err, udp, history>>

(* A plausible bug: the model is updated without the lock. *)
GradientLockFree(w) ==
  /\ put[w].pc = "lock"
  /\ model_lock' = w
  /\ put' = [put EXCEPT ![w].pc = "apply"]
  /\ UNCHANGED <<setup, model, opt, gradientUpdatesCount, crashed, get, gradConn,
                 workerVars, report, err, udp, history>>

GradientLock(w) ==
  /\ put[w].pc = "lock"
  /\ model_lock = Nobody
  /\ model_lock' = w
  /\ put' = [put EXCEPT ![w].pc = "apply"]
  /\ UNCHANGED <<setup, model, opt, gradientUpdatesCount, crashed, get, gradConn,
                 workerVars, report, err, udp, history>>

(* A whole gradient as the worker pushed it. *)
ApplyAtOnce(st, g) ==
  IF LRKind THEN FoldLeft(sgd_update, st, g) ELSE [st EXCEPT !.w = Plus(@, g)]

(* A plausible bug: a return in between that skips the unlock. *)
UnlockNever(last) == model_lock

Unlock(last) == IF last THEN Nobody ELSE model_lock

(* One entry, and the unlock after the last.  The history applies the whole   *)
(* gradient that the worker pushed at once.                                   *)
GradientApply(w) ==
  LET st == sgd_update(Store, Head(put[w].todo))
      last == Len(put[w].todo) = 1
  IN
  /\ put[w].pc = "apply"
  /\ model' = st.w
  /\ opt' = [hist |-> st.hist, avg |-> st.avg]
  /\ put' = [put EXCEPT ![w] = [pc |-> IF last THEN "count" ELSE "apply", todo |-> Tail(@.todo)]]
  /\ model_lock' = Unlock(last)
  /\ IF last
     THEN /\ committed' = ApplyAtOnce(committed, Head(pushed[w]))
          /\ pushed' = [pushed EXCEPT ![w] = Tail(@)]
     ELSE UNCHANGED <<committed, pushed>>
  /\ window' = [v \in W |->
       [cells |-> [c \in DOMAIN window[v].cells |-> window[v].cells[c] \union {st.w[c]}],
        avgs |-> window[v].avgs \union {st.avg}]]
  /\ UNCHANGED <<setup, gradientUpdatesCount, crashed, get, gradConn, workerVars,
                 report, err, udp, counted>>

GradientCount(w) ==
  /\ put[w].pc = "count"
  /\ gradientUpdatesCount' = gradientUpdatesCount + 1
  /\ counted' = counted + 1
  /\ put' = [put EXCEPT ![w].pc = "idle"]
  /\ UNCHANGED <<setup, model, opt, model_lock, crashed, get, gradConn, workerVars,
                 report, err, udp, pushed, committed, window>>

-----------------------------------------------------------------------------
(* Server: models.                                                            *)

(* Requests that the server can not take: of LR one that is longer than the   *)
(* thread's buffer, or whose answer is not shorter than data_to_send; of MF   *)
(* one that names no item.                                                    *)
Unanswerable(msg) ==
  CASE LRKind /\ Len(msg) > setup.buffer -> "Not enough buffer"
    [] LRKind /\ Len(msg) <= setup.buffer /\ msg[1] >= MsgWords -> "to_send_size"
    [] ~LRKind /\ msg[1] = 0 -> "k_items"
    [] OTHER -> "no"

(* A request without weights is answered at once. *)
RequestReceive(w) ==
  LET cells == RequestCells(get[w].msg) IN
  /\ get[w].pc = "sent"
  /\ crashed' = Unanswerable(get[w].msg)
  /\ get' = IF Unanswerable(get[w].msg) # "no" THEN get
            ELSE [get EXCEPT ![w].pc = IF cells = <<>> THEN "reply" ELSE "read",
                             ![w].cells = cells]
  /\ UNCHANGED <<setup, model, opt, model_lock, gradientUpdatesCount, put, gradConn,
                 workerVars, report, err, udp, history>>

AfterRead(w, out) == IF Len(out) = Len(get[w].cells) THEN "reply" ELSE "read"

(* A plausible bug: the previous cell is read again. *)
ReadWeightBehind(w) ==
  /\ get[w].pc = "read"
  /\ LET out == Append(get[w].out, model[get[w].cells[Max({Len(get[w].out), 1})]])
     IN get' = [get EXCEPT ![w].out = out, ![w].pc = AfterRead(w, out)]
  /\ UNCHANGED <<setup, serverVars, put, gradConn, workerVars, report, err, udp, history>>

(* Sparse models are read weight by weight and without the lock. *)
ReadWeight(w) ==
  /\ get[w].pc = "read"
  /\ LET out == Append(get[w].out, model[get[w].cells[Len(get[w].out) + 1]]) IN
     get' = [get EXCEPT ![w].out = out,
                        ![w].pc = IF LRKind /\ setup.opt = "nesterov" THEN "edit"
                                  ELSE AfterRead(w, out)]
  /\ UNCHANGED <<setup, serverVars, put, gradConn, workerVars, report, err, udp, history>>

EditWeight(w) ==
  /\ get[w].pc = "edit"
  /\ LET out == [get[w].out EXCEPT ![Len(get[w].out)] = edit_weight(@)]
     IN get' = [get EXCEPT ![w].out = out, ![w].pc = AfterRead(w, out)]
  /\ UNCHANGED <<setup, serverVars, put, gradConn, workerVars, report, err, udp, history>>

(* The full model, copied under the lock, and as the client decodes it. *)
FullModelWords ==
  IF LRKind THEN LR!LRModelWords(model, Dim)
  ELSE MFModelWords(model, setup.nusers, setup.nitems)

FullModel ==
  IF LRKind THEN LR!loadLRModel(FullModelWords) ELSE loadMFModel(FullModelWords)

(* The main loop prints the rate and resets the counter.  elapsed time is     *)
(* left out, a report is possible at any time.                                *)
ReportRead ==
  /\ report.pc = "read" /\ report.left > 0
  /\ report' = [report EXCEPT !.pc = "reset", !.read = gradientUpdatesCount]
  /\ UNCHANGED <<setup, serverVars, put, get, gradConn, workerVars, err, udp, history>>

(* A plausible bug: the counter is never reset. *)
ReportResetNot ==
  /\ report.pc = "reset"
  /\ report' = [report EXCEPT !.pc = "read", !.printed = @ + report.read, !.left = @ - 1]
  /\ UNCHANGED <<setup, serverVars, put, get, gradConn, workerVars, err, udp, history>>

ReportReset ==
  /\ report.pc = "reset"
  /\ gradientUpdatesCount' = 0
  /\ report' = [report EXCEPT !.pc = "read", !.printed = @ + report.read, !.left = @ - 1]
  /\ UNCHANGED <<setup, model, opt, model_lock, crashed, put, get, gradConn, workerVars,
                 err, udp, history>>

-----------------------------------------------------------------------------
(* The error task, as started for a test.                                     *)

(* Its minibatches: those of the test range, or the objects first to last - 1 *)
(* of the ratings.                                                            *)
minibatches_vec ==
  IF LRKind THEN setup.test
  ELSE [i \in 1 .. ((setup.last - setup.first) * (S3Size \div MiniBatch)) |->
          [j \in 1 .. MiniBatch |->
             setup.rows[setup.first * S3Size + (i - 1) * MiniBatch + j - 1]]]

ErrorTop ==
  /\ err.pc = "top"
  /\ err' = [err EXCEPT !.pc = CASE err.iterations >= Iters -> "failure"
                                 [] err.iterations < Iters /\ err.right >= Required -> "success"
                                 [] OTHER -> "get"]
  /\ UNCHANGED <<setup, serverVars, put, get, gradConn, workerVars, report, udp, history>>

ErrorGetModel ==
  /\ err.pc = "get" /\ crashed = "no"
  /\ model_lock = Nobody
  /\ Len(FullModelWords) <= setup.buffer
  /\ err' = [err EXCEPT !.pc = "loss", !.copy = FullModel, !.at = 1, !.right = 0]
  /\ UNCHANGED <<setup, serverVars, put, get, gradConn, workerVars, report, udp, history>>

(* A model that is too long for the thread's buffer ends the server. *)
ErrorModelTooLong ==
  /\ err.pc = "get" /\ crashed = "no"
  /\ model_lock = Nobody
  /\ Len(FullModelWords) > setup.buffer
  /\ crashed' = "Thread buffer too small"
  /\ UNCHANGED <<setup, model, opt, model_lock, gradientUpdatesCount, put, get, gradConn,
                 workerVars, report, err, udp, history>>

(* The server is gone: for LR get_full_model throws, which counts as a round. *)
(* For MF it ignores the failed read and uses a size that was never set; the  *)
(* error task is not followed from there.                                     *)
ErrorGetFails ==
  /\ err.pc = "get" /\ crashed # "no" /\ LRKind
  /\ err' = [err EXCEPT !.pc = "top", !.iterations = @ + 1]
  /\ UNCHANGED <<setup, serverVars, put, get, gradConn, workerVars, report, udp, history>>

(* calc_loss of one minibatch; curr_error is what has been added up so far.   *)
(* Users are numbered from 0, whatever the first object is.                   *)
ErrorLoss ==
  LET b == minibatches_vec[err.at]
      loss == IF LRKind THEN LR!calc_loss(b, err.copy)
              ELSE calc_loss(err.copy, b, (err.at - 1) * MiniBatch)
      right == IF LRKind THEN Len(b) - loss ELSE Len(RatingSeq(b))
  IN
  /\ err.pc = "loss"
  /\ err' = [err EXCEPT !.curr_error = (IF err.at = 1 THEN 0 ELSE @) + loss,
                        !.right = @ + right, !.at = @ + 1,
                        !.pc = IF err.at = Len(minibatches_vec) THEN "time" ELSE "loss"]
  /\ UNCHANGED <<setup, serverVars, put, get, gradConn, workerVars, report, udp, history>>

(* last_time and last_error are two assignments; a time is a round here. *)
ErrorTime ==
  /\ err.pc = "time"
  /\ err' = [err EXCEPT !.last_time = err.iterations + 1, !.pc = "error"]
  /\ UNCHANGED <<setup, serverVars, put, get, gradConn, workerVars, report, udp, history>>

ErrorError ==
  /\ err.pc = "error"
  /\ err' = [err EXCEPT !.last_error = [round |-> err.iterations + 1, loss |-> err.curr_error],
                        !.iterations = @ + 1, !.pc = "top"]
  /\ UNCHANGED <<setup, serverVars, put, get, gradConn, workerVars, report, udp, history>>

(* error_response: a datagram is answered with last_time, last_error and      *)
(* curr_error, read one after the other; the running curr_error is not kept.  *)
UdpTime ==
  /\ udp.pc = "recv"
  /\ udp' = [udp EXCEPT !.pc = "error", !.time = err.last_time]
  /\ UNCHANGED <<setup, serverVars, put, get, gradConn, workerVars, report, err, history>>

UdpError ==
  /\ udp.pc = "error"
  /\ udp' = [udp EXCEPT !.pc = "recv", !.error = err.last_error]
  /\ UNCHANGED <<setup, serverVars, put, get, gradConn, workerVars, report, err, history>>

-----------------------------------------------------------------------------
Worker(w) ==
  \/ GetMinibatch(w) \/ OverrunMessage(w) \/ AbortWorker(w) \/ ComputeGradient(w)
  \/ PushGradient(w)

PutHandler(w) ==
  /\ crashed = "no"
  /\ GradientReceive(w) \/ GradientLock(w) \/ GradientApply(w) \/ GradientCount(w)

GetHandler(w) == crashed = "no" /\ (RequestReceive(w) \/ ReadWeight(w) \/ EditWeight(w))

Report == crashed = "no" /\ (ReportRead \/ ReportReset)

ErrorTask ==
  \/ ErrorTop \/ ErrorGetModel \/ ErrorModelTooLong \/ ErrorGetFails \/ ErrorLoss
  \/ ErrorTime \/ ErrorError

Udp == err.pc \notin {"failure", "success"} /\ (UdpTime \/ UdpError)

Next ==
  \/ \E w \in W : Worker(w) \/ PutHandler(w) \/ GetHandler(w)
  \/ Report \/ ErrorTask \/ Udp

MaxWorkers == Max({s.workers : s \in Setups})

(* Every thread of every process goes on when it can. *)
Fairness ==
  /\ \A w \in 0 .. (MaxWorkers - 1) :
       /\ WF_vars(w \in W /\ Worker(w))
       /\ WF_vars(w \in W /\ GetHandler(w)) /\ WF_vars(w \in W /\ PutHandler(w))
  /\ WF_vars(ErrorTask)

Spec == Init /\ [][Next]_vars /\ Fairness

-----------------------------------------------------------------------------
TypeOK ==
  /\ setup \in Setups
  /\ DOMAIN model = ModelCells /\ \A c \in ModelCells : model[c] \in Int
  /\ model_lock \in W \union {Nobody}
  /\ gradientUpdatesCount \in 0 .. counted
  /\ crashed \in {"no", "num_weights", "k_items", "Not enough buffer",
                  "to_send_size", "Thread buffer too small"}
  /\ \A w \in W :
       /\ put[w].pc \in {"idle", "lock", "apply", "count"}
       /\ get[w].pc \in {"idle", "sent", "read", "edit", "reply"}
       /\ wpc[w] \in {"next", "model", "grad", "exit", "abort"}
       /\ count[w] \in 0 .. setup.bound
  /\ err.pc \in {"off", "top", "get", "loss", "time", "error", "failure", "success"}
  /\ udp.pc \in {"off", "recv", "error"}

(* Whenever the lock is free the model is what whole gradients make of it,    *)
(* applied one after the other and in the order in which each worker pushed   *)
(* its own, for every optimisation method: no update is lost, torn or applied *)
(* twice, and the messages carry what was pushed                              *)
(* (PSSparseServerTask.cpp:121-198, ModelGradient.cpp:113-152, 337-416).      *)
(* The full model that the error task evaluates is one of these, never half   *)
(* of a gradient (lines 312-314 and 343-345).                                 *)
UpdatesSerial ==
  [][/\ model_lock' = Nobody => Store' = committed'
     /\ err'.copy # err.copy => err'.copy = committed.w]_vars

(* What the reply may have for a cell: a weight that the server had since the *)
(* request, edited as the optimisation method does (Nesterov.cpp:31-33).      *)
Answer(w, c) ==
  IF LRKind /\ setup.opt = "nesterov"
  THEN {v + (a \div 2) : v \in window[w].cells[c], a \in window[w].avgs}
  ELSE window[w].cells[c]

(* Each weight that a worker computes with is one that the server had between *)
(* the request and the reply, the weight of that very index, although they    *)
(* are read without the lock, indices repeat in the request and ids are left  *)
(* out of the reply (lines 254-305, PSSparseServerInterface.cpp:77-136).      *)
WeightsAreCurrent ==
  \A w \in W : wpc[w] = "grad" => \A c \in DOMAIN window[w].cells : wmodel[w][c] \in Answer(w, c)

(* The sparse gradient is the gradient: for LR the entries that are not zero  *)
(* and pass the threshold, each once, and the scratch vector is clean for the *)
(* next minibatch (SparseLRModel.cpp:411-460).                                *)
SparseGradientIsGradient(w) ==
  wpc[w] = "model" /\ wpc'[w] = "grad" =>
    LET dense == LR!minibatch_grad(batch[w], wmodel'[w], Epsilon)
        plain(c) == dense[c] - wmodel'[w][c] * 2 * Epsilon
    IN /\ ToSet(grad'[w]) = {<<c, dense[c]>> : c \in {c \in DOMAIN dense :
                               plain(c) # 0 /\ LR!Abs(dense[c]) > Threshold}}
       /\ Len(grad'[w]) = Cardinality(ToSet(grad'[w]))

(* For collaborative filtering, a server that still has the model that was    *)
(* fetched gets from the message what the worker got, which trained on its    *)
(* own copy rating after rating: no user, item or factor is left out, counted *)
(* twice or taken for another on the way (SparseMFModel.cpp:166-285,          *)
(* ModelGradient.cpp:337-416, MFModel.cpp:193-221).                           *)
GradientIsLocalProgress(w) ==
  wpc[w] = "grad" /\ wpc'[w] # "grad" =>
    FoldLeft(LAMBDA m, e : [m EXCEPT ![e[1]] = @ + e[2]], wmodel[w],
             loadMFGradient(Last(gradConn'[w])))
      = minibatch_grad(wmodel[w], base[w], batch[w]).m

(* What a worker computes and sends is the gradient that the reference        *)
(* definitions of its model give, minibatch after minibatch.                  *)
GradientsExact ==
  [][\A w \in W : IF LRKind THEN SparseGradientIsGradient(w)
                            ELSE GradientIsLocalProgress(w)]_vars

(* "we need to know the index of each row in the dataset matrix because that  *)
(* tells us which user it belongs to" (MFNetflixTask.cpp:88-91): the number   *)
(* a worker gives to the first row of a minibatch is that row's.  It holds    *)
(* when the range starts at object 0, and with netflix_workers for a worker   *)
(* whose own range is not empty.                                              *)
RowsMatchUsers ==
  ~LRKind => \A w \in W :
    /\ wpc[w] = "next"
    /\ IF setup.netflix_workers = 0 THEN setup.first = 0 ELSE l(w) <= r(w)
    => base[w] = iter[w].obj * S3Size + iter[w].at

(* The printed rates never add up to more updates than there were, although   *)
(* the counter is read and reset in two steps (lines 972-983).                *)
RateNeverOverstates == report.printed + gradientUpdatesCount <= counted

(* A reply pairs a time with an error that is at most one round older, in     *)
(* whatever way the two assignments and the two reads interleave              *)
(* (ErrorSparseTask.cpp:99, 213-222).                                         *)
ReplyLag == udp.pc = "recv" => udp.error.round >= udp.time - 1

(* The two figures a user sees, the update rate of the server's main loop and *)
(* the error of the error task, are put together without a lock and are still *)
(* no more than a little behind.                                              *)
ReportsHonest == RateNeverOverstates /\ ReplyLag

(* Words of the message of a gradient. *)
GradientWords(g) ==
  IF LRKind THEN 2 * Len(g) + 2 ELSE 4 + (NumFactors + 3) * Cardinality({c \in DOMAIN g : c[3] = 0})

(* Why a process stops that did not choose to, in terms of what the workers   *)
(* have at hand.  The server stops for the full model only if it is too long, *)
(* and otherwise for a worker whose                                           *)
(*  - gradient has no entry, or too many for the assertion or the buffer      *)
(*    (ModelGradient.cpp:117, PSSparseServerTask.cpp:139, 176),               *)
(*  - minibatch of LR has too many features for the request or the reply      *)
(*    (lines 265, 284), or                                                    *)
(*  - minibatch of MF has no rating (line 223).                               *)
(* A worker stops only for a minibatch without features or with too many      *)
(* (SparseLRModel.cpp:384, PSSparseServerInterface.cpp:81).                   *)
StopsOnlyForSizes ==
  /\ crashed = "Thread buffer too small" =>
       setup.buffer < IF LRKind THEN Dim + 1
                      ELSE 6 + (NumFactors + 1) * (setup.nusers + setup.nitems)
  /\ crashed \in {"num_weights", "Not enough buffer"} =>
       \E w \in W :
         \/ /\ pushed[w] # <<>>
            /\ LET g == Head(pushed[w]) IN
               GradientWords(g) > setup.buffer \/ (LRKind /\ ~LR!CountOK(Len(g)))
         \/ /\ LRKind /\ get[w].pc = "sent"
            /\ Len(LR!Features(batch[w])) + 1 > setup.buffer
  /\ crashed = "to_send_size" =>
       \E w \in W : get[w].pc = "sent" /\ Len(LR!Features(batch[w])) >= MsgWords
  /\ crashed = "k_items" => \E w \in W : get[w].pc = "sent" /\ RatingSeq(batch[w]) = <<>>
  /\ \A w \in W : wpc[w] = "abort" =>
       LET n == Len(LR!Features(batch[w])) IN n >= MsgWords \/ ~LR!CountOK(n)

(* Every gradient that a worker pushed is applied and counted, unless the     *)
(* server stops, also if the worker does.                                     *)
GradientsApplied ==
  <>[](\/ crashed # "no"
       \/ \A w \in W : wpc[w] \in {"next", "exit", "abort"} /\ gradConn[w] = <<>> /\ put[w].pc = "idle"
                       /\ pushed[w] = <<>>)
=============================================================================
