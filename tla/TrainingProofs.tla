--------------------------- MODULE TrainingProofs ---------------------------
(* For every data set, every number of workers and every interleaving: what  *)
(* Training reports is not overstated, the rows that a worker of             *)
(* collaborative filtering trains on are those of the users it names, the    *)
(* model is what whole gradients make of it, what a worker computes with is  *)
(* what the server had for that very weight between request and reply, and   *)
(* what it sends is the gradient.                                            *)
EXTENDS Training, TLAPS, FiniteSetTheorems

-----------------------------------------------------------------------------
(* The update rate that the main loop prints.                                 *)

RateInv ==
  /\ report \in [read : Nat, printed : Nat, left : Int, pc : {"read", "reset"}]
  /\ gradientUpdatesCount \in Nat /\ counted \in Nat
  /\ RateNeverOverstates
  /\ report.pc = "reset" => report.read <= gradientUpdatesCount

LEMMA RateInit == ASSUME Init PROVE RateInv
<1>1. setup \in Setups /\ setup.reports \in Nat
  BY SetupsAssumption DEF Init, SetupOK
<1> QED
  BY <1>1 DEF Init, RateInv, RateNeverOverstates

LEMMA RateStep == ASSUME RateInv, [Next]_vars PROVE RateInv'
<1> USE DEF RateInv, RateNeverOverstates
<1>1. CASE UNCHANGED <<report, gradientUpdatesCount, counted>>
  BY <1>1
<1>2. ASSUME NEW w \in W, Worker(w) PROVE RateInv'
  BY <1>1, <1>2
  DEF Worker, GetMinibatch, OverrunMessage, AbortWorker, ComputeGradient, PushGradient, serverVars, history
<1>3. ASSUME NEW w \in W, PutHandler(w) PROVE RateInv'
  <2>1. CASE GradientCount(w)
    BY <2>1 DEF GradientCount
  <2> QED
    BY <1>1, <1>3, <2>1
    DEF PutHandler, GradientReceive, GradientLock, GradientApply, history
<1>4. ASSUME NEW w \in W, GetHandler(w) PROVE RateInv'
  BY <1>1, <1>4
  DEF GetHandler, RequestReceive, ReadWeight, EditWeight, serverVars, history
<1>5. CASE ReportRead
  <2>1. /\ report' = [report EXCEPT !.pc = "reset", !.read = gradientUpdatesCount]
        /\ UNCHANGED <<gradientUpdatesCount, counted>>
    BY <1>5 DEF ReportRead, serverVars, history
  <2>2. /\ report' \in [read : Nat, printed : Nat, left : Int, pc : {"read", "reset"}]
        /\ report'.read = gradientUpdatesCount /\ report'.printed = report.printed
    BY <2>1
  <2> QED
    BY <2>1, <2>2
<1>6. CASE ReportReset
  <2>1. /\ report.pc = "reset" /\ gradientUpdatesCount' = 0 /\ counted' = counted
        /\ report' = [report EXCEPT !.pc = "read", !.printed = @ + report.read,
                                    !.left = @ - 1]
    BY <1>6 DEF ReportReset, history
  <2>2. report'.pc = "read" /\ report'.printed = report.printed + report.read
    BY <2>1
  <2>3. report.printed + report.read \in Nat /\ report.left - 1 \in Int
    OBVIOUS
  <2> DEFINE p == report.printed + report.read
             q == report.left - 1
  <2>4. report' = [report EXCEPT !.pc = "read", !.printed = p, !.left = q]
    BY <2>1
  <2> HIDE DEF p, q
  <2>5. report' \in [read : Nat, printed : Nat, left : Int, pc : {"read", "reset"}]
    BY <2>3, <2>4 DEF p, q
  <2> QED
    BY <2>1, <2>2, <2>5
<1>7. CASE ErrorTask \/ Udp
  BY <1>1, <1>7
  DEF ErrorTask, ErrorTop, ErrorGetModel, ErrorModelTooLong, ErrorGetFails, ErrorLoss,
      ErrorTime, ErrorError, Udp, UdpTime, UdpError, serverVars, history
<1>8. CASE UNCHANGED vars
  BY <1>1, <1>8 DEF vars, serverVars, history
<1> QED
  BY <1>2, <1>3, <1>4, <1>5, <1>6, <1>7, <1>8 DEF Next, Report

-----------------------------------------------------------------------------
(* The error that the response thread reports.                                *)

Evaluated == crashed = "no" \/ err.pc \in {"loss", "time", "error"}

LagInv ==
  /\ DOMAIN err = {"pc", "iterations", "copy", "at", "right", "curr_error",
                   "last_time", "last_error"}
  /\ DOMAIN udp = {"pc", "time", "error"}
  /\ err.iterations \in Nat /\ err.last_time \in Nat /\ err.last_error.round \in Nat
  /\ udp.time \in Nat /\ udp.error.round \in Nat
  /\ Evaluated => err.last_error.round = err.iterations
  /\ err.last_time = err.last_error.round + (IF err.pc = "error" THEN 1 ELSE 0)
  /\ udp.pc = "error" => udp.time <= err.last_time
  /\ ReplyLag

LEMMA LagInit == ASSUME Init PROVE LagInv
<1>1. /\ err = [pc |-> IF setup.eval THEN "top" ELSE "off", iterations |-> 0,
                copy |-> <<>>, at |-> 0, right |-> 0, curr_error |-> 0,
                last_time |-> 0, last_error |-> [round |-> 0, loss |-> 0]]
      /\ udp = [pc |-> IF setup.eval THEN "recv" ELSE "off", time |-> 0,
                error |-> err.last_error]
  BY DEF Init
<1>2. /\ DOMAIN err = {"pc", "iterations", "copy", "at", "right", "curr_error",
                       "last_time", "last_error"}
      /\ DOMAIN udp = {"pc", "time", "error"}
  BY <1>1
<1>3. /\ err.iterations = 0 /\ err.last_time = 0 /\ err.last_error.round = 0
      /\ udp.time = 0 /\ udp.error.round = 0 /\ err.pc # "error" /\ udp.pc # "error"
  BY <1>1
<1> QED
  BY <1>2, <1>3 DEF LagInv, ReplyLag

LEMMA LagStep == ASSUME LagInv, [Next]_vars PROVE LagInv'
<1> USE DEF LagInv, ReplyLag
<1>1. CASE UNCHANGED <<err, udp>> /\ (crashed' = "no" => crashed = "no")
  BY <1>1 DEF Evaluated
<1>2. CASE \E w \in W : Worker(w) \/ PutHandler(w) \/ GetHandler(w)
  <2>1. PICK w \in W : Worker(w) \/ PutHandler(w) \/ GetHandler(w)
    BY <1>2
  <2>2. CASE Worker(w)
    BY <1>1, <2>2 DEF Worker, GetMinibatch, OverrunMessage, AbortWorker, ComputeGradient, PushGradient, serverVars
  <2>3. CASE PutHandler(w)
    BY <1>1, <2>3 DEF PutHandler, GradientReceive, GradientLock, GradientApply, GradientCount
  <2>4. CASE GetHandler(w)
    BY <1>1, <2>4 DEF GetHandler, RequestReceive, ReadWeight, EditWeight, serverVars
  <2> QED
    BY <2>1, <2>2, <2>3, <2>4
<1>3. CASE Report \/ UNCHANGED vars
  BY <1>1, <1>3 DEF Report, ReportRead, ReportReset, serverVars, vars
<1>4. CASE ErrorTop \/ ErrorGetModel \/ ErrorGetFails \/ ErrorLoss
  <2>1. /\ UNCHANGED <<udp, crashed>>
        /\ DOMAIN err' = DOMAIN err
        /\ err'.last_time = err.last_time /\ err'.last_error = err.last_error
        /\ err.pc # "error" /\ err'.pc # "error"
    <3>1. CASE ErrorTop
      BY <3>1 DEF ErrorTop, serverVars
    <3>2. CASE ErrorGetModel
      BY <3>2 DEF ErrorGetModel, serverVars
    <3>3. CASE ErrorGetFails
      BY <3>3 DEF ErrorGetFails, serverVars
    <3>4. CASE ErrorLoss
      BY <3>4 DEF ErrorLoss, serverVars
    <3> QED
      BY <1>4, <3>1, <3>2, <3>3, <3>4
  <2>2. \/ err'.iterations = err.iterations
        \/ /\ err'.iterations = err.iterations + 1 /\ err'.pc = "top" /\ crashed # "no"
    BY <1>4 DEF ErrorTop, ErrorGetModel, ErrorGetFails, ErrorLoss
  <2>3. err'.pc \in {"loss", "time", "error"} => Evaluated
    BY <1>4 DEF ErrorTop, ErrorGetModel, ErrorGetFails, ErrorLoss, Evaluated
  <2> QED
    BY <2>1, <2>2, <2>3 DEF Evaluated
<1>5. CASE ErrorTime
  <2>1. /\ UNCHANGED <<udp, crashed>> /\ err.pc = "time"
        /\ err' = [err EXCEPT !.last_time = err.iterations + 1, !.pc = "error"]
    BY <1>5 DEF ErrorTime, serverVars
  <2>2. /\ DOMAIN err' = DOMAIN err /\ err'.pc = "error"
        /\ err'.iterations = err.iterations /\ err'.last_error = err.last_error
        /\ err'.last_time = err.iterations + 1
    BY <2>1
  <2>3. err.last_error.round = err.iterations /\ err.last_time = err.last_error.round
    BY <2>1 DEF Evaluated
  <2> QED
    BY <2>1, <2>2, <2>3
<1>6. CASE ErrorError
  <2>1. /\ UNCHANGED <<udp, crashed>> /\ err.pc = "error"
        /\ err' = [err EXCEPT !.last_error = [round |-> err.iterations + 1,
                                              loss |-> err.curr_error],
                              !.iterations = @ + 1, !.pc = "top"]
    BY <1>6 DEF ErrorError, serverVars
  <2>2. /\ DOMAIN err' = DOMAIN err /\ err'.pc = "top"
        /\ err'.iterations = err.iterations + 1 /\ err'.last_time = err.last_time
        /\ err'.last_error.round = err.iterations + 1
    BY <2>1
  <2>3. err.last_error.round = err.iterations /\ err.last_time = err.iterations + 1
    BY <2>1 DEF Evaluated
  <2> QED
    BY <2>1, <2>2, <2>3
<1>7. CASE Udp
  <2>1. UNCHANGED <<err, crashed>> /\ DOMAIN udp' = DOMAIN udp
    BY <1>7 DEF Udp, UdpTime, UdpError, serverVars
  <2>2. CASE UdpTime
    <3>1. udp'.pc = "error" /\ udp'.time = err.last_time /\ udp'.error = udp.error
      BY <2>2 DEF UdpTime
    <3> QED
      BY <2>1, <3>1 DEF Evaluated
  <2>3. CASE UdpError
    <3>1. /\ udp'.pc = "recv" /\ udp'.time = udp.time /\ udp'.error = err.last_error
          /\ udp.pc = "error"
      BY <2>3 DEF UdpError
    <3> QED
      BY <2>1, <3>1 DEF Evaluated
  <2> QED
    BY <1>7, <2>2, <2>3 DEF Udp
<1>8. CASE ErrorModelTooLong
  BY <1>1, <1>8 DEF ErrorModelTooLong
<1> QED
  BY <1>2, <1>3, <1>4, <1>5, <1>6, <1>7, <1>8 DEF Next, ErrorTask

(* The rates that the main loop prints (PSSparseServerTask.cpp:972-983) and   *)
(* the errors that the response thread sends (ErrorSparseTask.cpp:99,         *)
(* 213-222) are never ahead of what was done: however many threads count,     *)
(* read and reset, and whenever the server stops.                             *)
THEOREM HonestReports == Spec => []ReportsHonest
<1>1. Init => RateInv /\ LagInv
  BY RateInit, LagInit
<1>2. (RateInv /\ LagInv) /\ [Next]_vars => (RateInv /\ LagInv)'
  BY RateStep, LagStep
<1>3. RateInv /\ LagInv => ReportsHonest
  BY DEF RateInv, LagInv, ReportsHonest
<1> QED
  BY <1>1, <1>2, <1>3, PTL DEF Spec

-----------------------------------------------------------------------------
(* The rows of collaborative filtering.  The iterator counts objects and      *)
(* places in them, the task counts rows; each wraps around in its own way.    *)

LEMMA Product == \A a, b \in Nat : a * b \in Nat
OBVIOUS

LEMMA Distribute ==
  ASSUME NEW a \in Nat, NEW b \in Nat, NEW n \in Nat
  PROVE  (a + b) * n = a * n + b * n
OBVIOUS

LEMMA ProductMonotone ==
  ASSUME NEW a \in Nat, NEW b \in Nat, NEW n \in Nat, a <= b
  PROVE  a * n <= b * n /\ n * a <= n * b
<1> DEFINE d == b - a
<1>1. d \in Nat /\ b = a + d
  OBVIOUS
<1>2. d * n \in Nat /\ a * n \in Nat
  BY <1>1, Product
<1> HIDE DEF d
<1>3. (a + d) * n = a * n + d * n
  BY <1>1, Distribute
<1>4. a * n <= b * n
  BY <1>1, <1>2, <1>3
<1>5. a * n = n * a /\ b * n = n * b
  OBVIOUS
<1> QED
  BY <1>4, <1>5

LEMMA ProductLess ==
  ASSUME NEW a \in Nat, NEW b \in Nat, NEW n \in Nat, a * n < b * n
  PROVE  a < b
<1>1. SUFFICES ASSUME b <= a PROVE FALSE
  OBVIOUS
<1>2. b * n <= a * n /\ a * n \in Nat /\ b * n \in Nat
  BY <1>1, ProductMonotone, Product
<1> DEFINE x == a * n
           y == b * n
<1>3. x \in Nat /\ y \in Nat /\ y <= x /\ x < y
  BY <1>2
<1> HIDE DEF x, y
<1> QED
  BY <1>3

LEMMA MinOfTwo ==
  ASSUME NEW a \in Nat, NEW b \in Nat
  PROVE  /\ Min({a, b}) \in Nat
         /\ a <= b => Min({a, b}) = a
         /\ b <= a => Min({a, b}) = b
         /\ Min({a, b}) <= b
<1>1. \E x \in {a, b} : \A y \in {a, b} : x <= y
  OBVIOUS
<1>2. /\ Min({a, b}) \in {a, b} /\ \A y \in {a, b} : Min({a, b}) <= y
  BY <1>1 DEF Min
<1> QED
  BY <1>2

(* Places are multiples of minibatch_size. *)
LEMMA Places ==
  ASSUME NEW k \in Nat, k * MiniBatch < S3Size
  PROVE  /\ (k + 1) * MiniBatch = k * MiniBatch + MiniBatch
         /\ k * MiniBatch + MiniBatch <= S3Size
         /\ k * MiniBatch + MiniBatch < S3Size => k * MiniBatch + 2 * MiniBatch <= S3Size
<1> DEFINE n == S3Size \div MiniBatch
<1>1. /\ S3Size \in Nat /\ MiniBatch \in Nat \ {0} /\ S3Size % MiniBatch = 0
  BY SizeAssumption
<1>2. n \in Nat /\ S3Size = n * MiniBatch
  BY <1>1
<1> HIDE DEF n
<1>3. /\ (k + 1) * MiniBatch = k * MiniBatch + MiniBatch
      /\ (k + 2) * MiniBatch = k * MiniBatch + 2 * MiniBatch
  BY <1>1, Distribute
<1>4. k < n
  BY <1>1, <1>2, ProductLess
<1>5. (k + 1) * MiniBatch <= n * MiniBatch
  BY <1>1, <1>2, <1>4, ProductMonotone
<1>6. ASSUME k * MiniBatch + MiniBatch < S3Size
      PROVE  k * MiniBatch + 2 * MiniBatch <= S3Size
  <2>1. (k + 1) * MiniBatch < n * MiniBatch
    BY <1>2, <1>3, <1>6
  <2>2. k + 1 < n
    BY <1>1, <1>2, <2>1, ProductLess
  <2>3. k + 2 <= n
    BY <1>2, <2>2
  <2>4. (k + 2) * MiniBatch <= n * MiniBatch
    BY <1>1, <1>2, <2>3, ProductMonotone
  <2> QED
    BY <1>2, <1>3, <2>4
<1> QED
  BY <1>2, <1>3, <1>5, <1>6

(* The case the property is about: users are the rows from object 0 on, and   *)
(* the worker has a range of its own.                                         *)
Ranged(w) == IF setup.netflix_workers = 0 THEN setup.first = 0 ELSE l(w) <= r(w)

Position(it) == it.obj * S3Size + it.at

LEMMA RangeFacts ==
  ASSUME setup \in Setups, NEW w \in W
  PROVE  /\ l(w) \in Nat /\ r(w) \in Nat /\ sample_low(w) \in Nat
         /\ Ranged(w) => l(w) <= r(w)
         /\ Ranged(w) => sample_low(w) = l(w) * S3Size
         /\ Ranged(w) => sample_high(w) = (r(w) + 1) * S3Size
<1>1. /\ setup.workers \in Nat /\ setup.netflix_workers \in Nat
      /\ setup.first \in Nat /\ setup.last \in Nat /\ setup.first <= setup.last
  BY SetupsAssumption DEF SetupOK
<1>2. w \in Nat /\ S3Size \in Nat
  BY <1>1, SizeAssumption DEF W
<1>3. CASE setup.netflix_workers = 0
  <2>1. /\ l(w) = setup.first /\ r(w) = setup.last /\ sample_low(w) = 0
        /\ sample_high(w) = S3Size * (setup.last + 1)
    BY <1>3 DEF l, r, sample_low, sample_high
  <2>2. S3Size * (setup.last + 1) = (setup.last + 1) * S3Size /\ 0 * S3Size = 0
    BY <1>1, <1>2
  <2> QED
    BY <1>1, <1>3, <2>1, <2>2 DEF Ranged
<1>4. CASE setup.netflix_workers # 0
  <2>1. range_length \in Nat
    BY <1>1, <1>4 DEF range_length
  <2>2. l(w) = w * range_length /\ l(w) \in Nat
    BY <1>2, <1>4, <2>1, Product DEF l
  <2>3. r(w) = Min({l(w) + range_length, setup.last})
    BY <1>4 DEF r
  <2>4. r(w) \in Nat /\ r(w) <= setup.last
    BY <1>1, <2>1, <2>2, <2>3, MinOfTwo
  <2>5. sample_low(w) = l(w) * S3Size /\ sample_low(w) \in Nat
    BY <1>2, <1>4, <2>2, Product DEF sample_low
  <2>6. sample_high(w) = Min({S3Size * (setup.last + 1), (r(w) + 1) * S3Size})
    BY <1>4 DEF sample_high
  <2> DEFINE a == S3Size * (setup.last + 1)
             b == (r(w) + 1) * S3Size
  <2>7. a \in Nat /\ b \in Nat
    BY <1>1, <1>2, <2>4, Product
  <2>8. b <= a
    <3>1. r(w) + 1 \in Nat /\ setup.last + 1 \in Nat /\ r(w) + 1 <= setup.last + 1
      BY <1>1, <2>4
    <3>2. (r(w) + 1) * S3Size <= (setup.last + 1) * S3Size
      BY <1>2, <3>1, ProductMonotone
    <3>3. (setup.last + 1) * S3Size = S3Size * (setup.last + 1)
      BY <1>1, <1>2
    <3> QED
      BY <3>2, <3>3
  <2>9. sample_high(w) = b
    <3> HIDE DEF a, b
    <3>1. Min({a, b}) = b
      BY <2>7, <2>8, MinOfTwo
    <3> QED
      BY <2>6, <3>1 DEF a, b
  <2> QED
    BY <1>4, <2>2, <2>4, <2>5, <2>9 DEF Ranged
<1> QED
  BY <1>3, <1>4

(* Taking the next minibatch and taking the next index keep together. *)
LEMMA NextPosition ==
  ASSUME setup \in Setups, NEW w \in W, Ranged(w),
         NEW it \in [obj : Nat, at : Nat], it.obj \in l(w) .. r(w),
         NEW k \in Nat, it.at = k * MiniBatch, it.at < S3Size
  PROVE  /\ IterNext(w, it) \in [obj : Nat, at : Nat]
         /\ IterNext(w, it).obj \in l(w) .. r(w)
         /\ \E j \in Nat : IterNext(w, it).at = j * MiniBatch
         /\ IterNext(w, it).at < S3Size
         /\ next_index(w, Position(it)) = Position(IterNext(w, it))
<1> DEFINE S == S3Size
           M == MiniBatch
           o == it.obj
           a == it.at
<1>1. /\ S \in Nat /\ M \in Nat /\ M > 0 /\ S > 0 /\ o \in Nat /\ a \in Nat
      /\ l(w) \in Nat /\ r(w) \in Nat /\ l(w) <= r(w)
  BY SizeAssumption, RangeFacts
<1>2. sample_low(w) = l(w) * S /\ sample_high(w) = (r(w) + 1) * S
  BY RangeFacts
<1>3. /\ (k + 1) * M = a + M /\ a + M <= S
      /\ a + M < S => a + 2 * M <= S
  BY Places
<1>4. o * S \in Nat /\ (o + 1) * S = o * S + S /\ (o + 1) * S \in Nat
  BY <1>1, Distribute, Product
<1>5. (r(w) + 1) * S \in Nat
  BY <1>1, Product
<1>6. o + 1 <= r(w) + 1 /\ (o + 1) * S <= (r(w) + 1) * S
  BY <1>1, ProductMonotone
<1>7. CASE a + M < S
  <2>1. IterNext(w, it) = [it EXCEPT !.at = a + M]
    BY <1>7 DEF IterNext
  <2>2. IterNext(w, it).obj = o /\ IterNext(w, it).at = a + M
    BY <2>1
  <2>3. IterNext(w, it) \in [obj : Nat, at : Nat]
    BY <1>1, <2>1
  <2>4. \E j \in Nat : IterNext(w, it).at = j * M
    <3>1. k + 1 \in Nat
      OBVIOUS
    <3> QED
      BY <1>3, <2>2, <3>1
  <2>5. next_index(w, Position(it)) = Position(IterNext(w, it))
    <3> DEFINE p == o * S
               h == (r(w) + 1) * S
    <3>1. /\ p \in Nat /\ h \in Nat /\ p + S <= h
      BY <1>4, <1>5, <1>6
    <3>2. Position(it) = p + a /\ Position(IterNext(w, it)) = p + (a + M)
      BY <2>2 DEF Position
    <3>3. next_index(w, p + a) = IF p + a + 2 * M > h THEN l(w) * S ELSE p + a + M
      BY <1>2 DEF next_index
    <3> HIDE DEF p, h
    <3>4. ~(p + a + 2 * M > h) /\ p + a + M = p + (a + M)
      BY <1>1, <1>3, <1>7, <3>1
    <3> QED
      BY <3>2, <3>3, <3>4
  <2> QED
    BY <1>7, <2>2, <2>3, <2>4, <2>5
<1>8. CASE ~(a + M < S)
  <2>1. a + M = S
    BY <1>1, <1>3, <1>8
  <2> DEFINE o2 == IF o + 1 = r(w) + 1 THEN l(w) ELSE o + 1
  <2>2. IterNext(w, it) = [obj |-> o2, at |-> 0]
    BY <1>8 DEF IterNext
  <2>3. o2 \in l(w) .. r(w) /\ o2 \in Nat
    BY <1>1
  <2>4. \E j \in Nat : IterNext(w, it).at = j * M
    <3>1. 0 * M = 0
      BY <1>1
    <3> QED
      BY <2>2, <3>1
  <2>5. next_index(w, Position(it)) = Position(IterNext(w, it))
    <3> DEFINE p == o * S
               h == (r(w) + 1) * S
    <3>1. p \in Nat /\ h \in Nat
      BY <1>4, <1>5
    <3>2. Position(it) = p + a /\ Position(IterNext(w, it)) = o2 * S
      <4>1. o2 * S \in Nat
        BY <1>1, <2>3, Product
      <4> QED
        BY <2>2, <4>1 DEF Position
    <3>3. next_index(w, p + a) = IF p + a + 2 * M > h THEN l(w) * S ELSE p + a + M
      BY <1>2 DEF next_index
    <3>4. CASE o = r(w)
      <4>1. h = p + S /\ o2 = l(w)
        BY <1>4, <3>4
      <4> HIDE DEF p, h, o2
      <4>2. p + a + 2 * M > h
        BY <1>1, <2>1, <3>1, <4>1
      <4> QED
        BY <3>2, <3>3, <4>1, <4>2
    <3>5. CASE o # r(w)
      <4>1. o2 = o + 1 /\ o + 2 <= r(w) + 1 /\ o + 2 \in Nat
        BY <1>1, <3>5
      <4>2. (o + 2) * S <= h
        BY <1>1, <4>1, ProductMonotone
      <4>3. (o + 2) * S = p + 2 * S /\ o2 * S = p + S
        BY <1>1, <1>4, <4>1, Distribute
      <4> HIDE DEF p, h, o2
      <4>4. ~(p + a + 2 * M > h) /\ p + a + M = p + S
        BY <1>1, <2>1, <3>1, <4>2, <4>3
      <4> QED
        BY <3>2, <3>3, <4>3, <4>4
    <3> QED
      BY <3>4, <3>5
  <2> QED
    BY <1>1, <2>2, <2>3, <2>4, <2>5
<1> QED
  BY <1>7, <1>8

InStep(w) ==
  /\ iter[w].obj \in l(w) .. r(w)
  /\ \E k \in Nat : iter[w].at = k * MiniBatch
  /\ iter[w].at < S3Size
  /\ wpc[w] \in {"next", "exit"} => base[w] = Position(iter[w])
  /\ wpc[w] \in {"model", "grad"} => next_index(w, base[w]) = Position(iter[w])

RowsInv ==
  /\ setup \in Setups
  /\ iter \in [W -> [obj : Nat, at : Nat]]
  /\ wpc \in [W -> {"next", "model", "grad", "exit", "abort"}]
  /\ DOMAIN base = W
  /\ ~LRKind => \A w \in W : Ranged(w) => InStep(w)

LEMMA RowsInit == ASSUME Init PROVE RowsInv
<1>1. setup \in Setups
  BY DEF Init
<1>2. /\ iter = [w \in W |-> [obj |-> l(w), at |-> 0]]
      /\ wpc = [w \in W |-> "next"]
      /\ base = [w \in W |-> sample_low(w)]
  BY DEF Init
<1>3. \A w \in W : l(w) \in Nat
  BY <1>1, RangeFacts
<1>4. iter \in [W -> [obj : Nat, at : Nat]]
  BY <1>2, <1>3
<1>5. ASSUME NEW w \in W, Ranged(w) PROVE InStep(w)
  <2>1. /\ l(w) \in Nat /\ r(w) \in Nat /\ l(w) <= r(w)
        /\ sample_low(w) = l(w) * S3Size
    BY <1>1, <1>5, RangeFacts
  <2>2. iter[w].obj = l(w) /\ iter[w].at = 0 /\ base[w] = l(w) * S3Size /\ wpc[w] = "next"
    BY <1>2, <2>1
  <2>3. /\ l(w) * S3Size \in Nat /\ S3Size \in Nat /\ S3Size > 0 /\ MiniBatch \in Nat
        /\ 0 * MiniBatch = 0
    BY <2>1, SizeAssumption, Product
  <2>4. base[w] = Position(iter[w])
    BY <2>2, <2>3 DEF Position
  <2>5. \E k \in Nat : iter[w].at = k * MiniBatch
    <3>1. 0 \in Nat
      OBVIOUS
    <3> QED
      BY <2>2, <2>3, <3>1, Zenon
  <2>6. iter[w].obj \in l(w) .. r(w) /\ iter[w].at < S3Size
    BY <2>1, <2>2, <2>3
  <2> QED
    BY <2>2, <2>4, <2>5, <2>6 DEF InStep
<1> QED
  BY <1>1, <1>2, <1>4, <1>5 DEF RowsInv

(* Nothing but setup says which rows a worker has. *)
LEMMA SetupFixed ==
  ASSUME setup' = setup
  PROVE  /\ W' = W /\ LRKind' = LRKind
         /\ \A w : l(w)' = l(w) /\ r(w)' = r(w) /\ (Ranged(w)' <=> Ranged(w))
         /\ \A w, x : next_index(w, x)' = next_index(w, x)
<1>1. \A w : l(w)' = l(w) /\ r(w)' = r(w)
  BY DEF l, r, range_length
<1>2. \A w : sample_low(w)' = sample_low(w) /\ sample_high(w)' = sample_high(w)
  BY <1>1 DEF sample_low, sample_high
<1> QED
  BY <1>1, <1>2 DEF W, LRKind, Ranged, next_index

LEMMA RowsStep == ASSUME RowsInv, [Next]_vars PROVE RowsInv'
<1>1. setup' = setup
  <2>1. CASE \E w \in W : Worker(w) \/ PutHandler(w) \/ GetHandler(w)
    <3>1. PICK w \in W : Worker(w) \/ PutHandler(w) \/ GetHandler(w)
      BY <2>1
    <3>2. CASE Worker(w)
      BY <3>2 DEF Worker, GetMinibatch, OverrunMessage, AbortWorker, ComputeGradient, PushGradient
    <3>3. CASE PutHandler(w)
      BY <3>3 DEF PutHandler, GradientReceive, GradientLock, GradientApply, GradientCount
    <3>4. CASE GetHandler(w)
      BY <3>4 DEF GetHandler, RequestReceive, ReadWeight, EditWeight
    <3> QED
      BY <3>1, <3>2, <3>3, <3>4
  <2>2. CASE ErrorTask
    BY <2>2 DEF ErrorTask, ErrorTop, ErrorGetModel, ErrorModelTooLong, ErrorGetFails,
                ErrorLoss, ErrorTime, ErrorError
  <2>3. CASE Report \/ Udp \/ UNCHANGED vars
    BY <2>3 DEF Report, ReportRead, ReportReset, Udp, UdpTime, UdpError, vars
  <2> QED
    BY <2>1, <2>2, <2>3 DEF Next
<1>2. /\ W' = W /\ LRKind' = LRKind
      /\ \A w : l(w)' = l(w) /\ r(w)' = r(w) /\ (Ranged(w)' <=> Ranged(w))
      /\ \A w, x : next_index(w, x)' = next_index(w, x)
  BY <1>1, SetupFixed
<1>3. CASE UNCHANGED <<iter, wpc, base>>
  <2>1. \A w : InStep(w)' <=> InStep(w)
    BY <1>2, <1>3 DEF InStep
  <2> QED
    BY <1>1, <1>2, <1>3, <2>1 DEF RowsInv
<1>4. ASSUME NEW v \in W, \A w \in W \ {v} : UNCHANGED <<iter[w], wpc[w], base[w]>>,
             iter' \in [W -> [obj : Nat, at : Nat]],
             wpc' \in [W -> {"next", "model", "grad", "exit", "abort"}],
             DOMAIN base' = W,
             ~LRKind /\ Ranged(v) => InStep(v)'
      PROVE  RowsInv'
  <2>1. \A w \in W \ {v} : InStep(w)' <=> InStep(w)
    BY <1>2, <1>4 DEF InStep
  <2> QED
    BY <1>1, <1>2, <1>4, <2>1 DEF RowsInv
<1>5. ASSUME NEW v \in W, GetMinibatch(v) PROVE RowsInv'
  <2>1. /\ wpc[v] = "next" /\ wpc' = [wpc EXCEPT ![v] = "model"] /\ base' = base
        /\ NextSamples(v) \/ NextRows(v)
    BY <1>5 DEF GetMinibatch
  <2>2. wpc' \in [W -> {"next", "model", "grad", "exit", "abort"}] /\ wpc'[v] = "model"
        /\ \A w \in W \ {v} : wpc'[w] = wpc[w]
    BY <2>1 DEF RowsInv
  <2>3. CASE NextSamples(v)
    <3>1. iter' = iter /\ LRKind
      BY <2>3 DEF NextSamples
    <3> QED
      BY <1>4, <2>1, <2>2, <3>1 DEF RowsInv
  <2>4. CASE NextRows(v)
    <3> DEFINE it == iter[v]
    <3>1. iter' = [iter EXCEPT ![v] = IterNext(v, it)] /\ ~LRKind
      BY <2>4 DEF NextRows
    <3>2. it \in [obj : Nat, at : Nat]
      BY DEF RowsInv
    <3>3. IterNext(v, it) \in [obj : Nat, at : Nat]
      <4>1. l(v) \in Nat
        BY RangeFacts DEF RowsInv
      <4>2. MiniBatch \in Nat
        BY SizeAssumption
      <4> QED
        BY <3>2, <4>1, <4>2 DEF IterNext
    <3>4. /\ iter' \in [W -> [obj : Nat, at : Nat]]
          /\ iter'[v] = IterNext(v, it)
          /\ \A w \in W \ {v} : iter'[w] = iter[w]
      BY <3>1, <3>3 DEF RowsInv
    <3>5. ASSUME Ranged(v) PROVE InStep(v)'
      <4>1. InStep(v) /\ setup \in Setups
        BY <3>1, <3>5 DEF RowsInv
      <4>2. base[v] = Position(it)
        BY <2>1, <4>1 DEF InStep
      <4>3. PICK k \in Nat : it.at = k * MiniBatch
        BY <4>1 DEF InStep
      <4>4. it.obj \in l(v) .. r(v) /\ it.at < S3Size
        BY <4>1 DEF InStep
      <4> HIDE DEF it
      <4>5. /\ IterNext(v, it).obj \in l(v) .. r(v)
            /\ \E j \in Nat : IterNext(v, it).at = j * MiniBatch
            /\ IterNext(v, it).at < S3Size
            /\ next_index(v, Position(it)) = Position(IterNext(v, it))
        BY <3>2, <3>5, <4>1, <4>3, <4>4, NextPosition
      <4> QED
        BY <1>2, <2>1, <2>2, <3>4, <4>2, <4>5 DEF InStep, Position
    <3> QED
      BY <1>4, <2>1, <2>2, <3>4, <3>5 DEF RowsInv
  <2> QED
    BY <2>1, <2>3, <2>4
<1>6. ASSUME NEW v \in W, ComputeGradient(v) PROVE RowsInv'
  <2>1. /\ wpc[v] = "model" /\ wpc' = [wpc EXCEPT ![v] = "grad"]
        /\ UNCHANGED <<base, iter>>
    BY <1>6 DEF ComputeGradient
  <2>2. wpc' \in [W -> {"next", "model", "grad", "exit", "abort"}] /\ wpc'[v] = "grad"
        /\ \A w \in W \ {v} : wpc'[w] = wpc[w]
    BY <2>1 DEF RowsInv
  <2>3. InStep(v) => InStep(v)'
    BY <1>2, <2>1, <2>2 DEF InStep
  <2> QED
    BY <1>4, <2>1, <2>2, <2>3 DEF RowsInv
<1>7. ASSUME NEW v \in W, PushGradient(v) PROVE RowsInv'
  <2> DEFINE pc == IF setup.test_iters > 0 /\ count'[v] > setup.test_iters
                   THEN "exit" ELSE "next"
  <2>1. /\ wpc[v] = "grad" /\ wpc' = [wpc EXCEPT ![v] = pc] /\ iter' = iter
        /\ base' = IF LRKind THEN base ELSE [base EXCEPT ![v] = next_index(v, @)]
    BY <1>7 DEF PushGradient
  <2>2. pc \in {"next", "exit"}
    OBVIOUS
  <2> HIDE DEF pc
  <2>3. wpc' \in [W -> {"next", "model", "grad", "exit", "abort"}] /\ wpc'[v] = pc
        /\ \A w \in W \ {v} : wpc'[w] = wpc[w]
    BY <2>1, <2>2 DEF RowsInv
  <2>4. /\ DOMAIN base' = W /\ \A w \in W \ {v} : base'[w] = base[w]
        /\ ~LRKind => base'[v] = next_index(v, base[v])
    BY <2>1 DEF RowsInv
  <2>5. ASSUME ~LRKind, Ranged(v) PROVE InStep(v)'
    <3>1. InStep(v)
      BY <2>5 DEF RowsInv
    <3>2. base'[v] = Position(iter[v])
      BY <2>1, <2>4, <2>5, <3>1 DEF InStep
    <3> QED
      BY <1>2, <2>1, <2>2, <2>3, <3>1, <3>2 DEF InStep, Position
  <2> QED
    BY <1>4, <2>1, <2>3, <2>4, <2>5 DEF RowsInv
<1>8. ASSUME NEW v \in W, PutHandler(v) \/ GetHandler(v) PROVE RowsInv'
  BY <1>3, <1>8
  DEF PutHandler, GradientReceive, GradientLock, GradientApply, GradientCount,
      GetHandler, RequestReceive, ReadWeight, EditWeight, workerVars
<1>9. CASE Report \/ ErrorTask \/ Udp \/ UNCHANGED vars
  BY <1>3, <1>9
  DEF Report, ReportRead, ReportReset, ErrorTask, ErrorTop, ErrorGetModel,
      ErrorModelTooLong, ErrorGetFails, ErrorLoss, ErrorTime, ErrorError, Udp, UdpTime, UdpError,
      workerVars, vars
<1>10. ASSUME NEW v \in W, OverrunMessage(v) \/ AbortWorker(v) PROVE RowsInv'
  <2>1. wpc' = [wpc EXCEPT ![v] = "abort"] /\ UNCHANGED <<base, iter>> /\ LRKind
    BY <1>10 DEF OverrunMessage, NextSamples, AbortWorker
  <2>2. wpc' \in [W -> {"next", "model", "grad", "exit", "abort"}]
        /\ \A w \in W \ {v} : wpc'[w] = wpc[w]
    BY <2>1 DEF RowsInv
  <2> QED
    BY <1>4, <2>1, <2>2 DEF RowsInv
<1> QED
  BY <1>5, <1>6, <1>7, <1>8, <1>9, <1>10 DEF Next, Worker

(* For every number of objects, workers and minibatches per object, the       *)
(* number that a worker of collaborative filtering gives to the first row of  *)
(* its next minibatch (MFNetflixTask.cpp:88-91) is the number of that row in  *)
(* the data set, round after round.                                           *)
THEOREM RowsAreUsers == Spec => []RowsMatchUsers
<1>1. Init => RowsInv
  BY RowsInit
<1>2. RowsInv /\ [Next]_vars => RowsInv'
  BY RowsStep
<1>3. RowsInv => RowsMatchUsers
  BY DEF RowsInv, RowsMatchUsers, Ranged, InStep, Position
<1> QED
  BY <1>1, <1>2, <1>3, PTL DEF Spec

-----------------------------------------------------------------------------
(* The model store: no update is lost, torn or applied twice.                 *)

(* sgd_update with the set-up as an argument. *)
UpdateOp(s, st, e) ==
  CASE ~(s.kind = "lr") -> MFUpdate(st, e)
    [] s.kind = "lr" /\ s.opt = "sgd" -> SGD(st, e)
    [] s.kind = "lr" /\ s.opt = "momentum" -> Momentum(st, e)
    [] s.kind = "lr" /\ s.opt = "nesterov" -> Nesterov(st, e)
    [] s.kind = "lr" /\ s.opt = "adagrad" -> AdaGrad(st, e)

U == INSTANCE FoldFacts WITH Op <- UpdateOp

LEMMA UpdateIsOp == \A st, e : sgd_update(st, e) = UpdateOp(setup, st, e)
BY DEF sgd_update, UpdateOp, LRKind

(* The model and the state of the method, with a value for each cell. *)
IsStore(st, cells) ==
  /\ st = [w |-> st.w, hist |-> st.hist, avg |-> st.avg]
  /\ st.w = [c \in cells |-> st.w[c]]

(* An update leaves a store. *)
LEMMA UpdateKeepsStore ==
  ASSUME NEW s, SetupOK(s), NEW st, NEW e, NEW cells, IsStore(st, cells)
  PROVE  IsStore(UpdateOp(s, st, e), cells)
<1>1. IsStore(MFUpdate(st, e), cells)
  BY DEF IsStore, MFUpdate
<1>2. IsStore(SGD(st, e), cells)
  BY DEF IsStore, SGD
<1>3. IsStore(Momentum(st, e), cells)
  <2> DEFINE avg == IF st.avg = 0 THEN e[2] ELSE (st.avg + Rate * e[2]) \div 2
  <2>1. Momentum(st, e) = [st EXCEPT !.avg = avg, !.w[e[1]] = @ + avg]
    BY DEF Momentum
  <2> HIDE DEF avg
  <2> QED
    BY <2>1 DEF IsStore
<1>4. IsStore(Nesterov(st, e), cells)
  BY <1>3 DEF Nesterov
<1>5. IsStore(AdaGrad(st, e), cells)
  <2> DEFINE hist == [st.hist EXCEPT ![e[1]] = @ + e[2] * e[2]]
             move == (Rate * e[2]) \div (1 + hist[e[1]])
  <2>1. AdaGrad(st, e) = [st EXCEPT !.hist = hist, !.w[e[1]] = @ + move]
    BY DEF AdaGrad
  <2> HIDE DEF hist, move
  <2> QED
    BY <2>1 DEF IsStore
<1>6. s.kind \in {"lr", "mf"} /\ s.opt \in {"sgd", "momentum", "nesterov", "adagrad"}
  BY DEF SetupOK
<1> QED
  BY <1>1, <1>2, <1>3, <1>4, <1>5, <1>6 DEF UpdateOp

(* The entries q are each cell of the gradient g with its value, once. *)
Enumerates(q, g) ==
  /\ \A i \in 1 .. Len(q) : q[i][1] \in DOMAIN g /\ q[i][2] = g[q[i][1]]
  /\ \A i, j \in 1 .. Len(q) : q[i][1] = q[j][1] => i = j
  /\ \A c \in DOMAIN g : \E i \in 1 .. Len(q) : q[i][1] = c

(* The entries q are the whole of the gradient g. *)
Whole(s, q, g) ==
  /\ U!IsSeq(q) /\ q # <<>>
  /\ IF s.kind = "lr" THEN q = g ELSE Enumerates(q, g)

(* ApplyAtOnce, with the set-up as an argument. *)
AtOnce(s, st, g) ==
  IF s.kind = "lr" THEN U!Fold(s, st, g) ELSE [st EXCEPT !.w = Plus(@, g)]

LEMMA AtOnceIsApply == \A st, g : ApplyAtOnce(st, g) = AtOnce(setup, st, g)
<1>1. ASSUME NEW st, NEW g PROVE FoldLeft(sgd_update, st, g) = U!Fold(setup, st, g)
  BY DEF U!Fold, FoldLeft, U!FoldLeft, MapThenFoldSet, U!MapThenFoldSet, Max, U!Max,
         sgd_update, UpdateOp, LRKind
<1> QED
  BY <1>1 DEF ApplyAtOnce, AtOnce, LRKind

(* The entries of a factorisation, one by one: each of its cells moves once. *)
LEMMA EntriesAddUp ==
  ASSUME NEW s, s.kind # "lr", NEW cells, NEW from, IsStore(from, cells),
         NEW q, U!IsSeq(q), NEW g, Enumerates(q, g),
         NEW t, U!IsRun(t, s, from, q, Len(q))
  PROVE  t[Len(q)] = [from EXCEPT !.w = Plus(@, g)]
<1> DEFINE n == Len(q)
           M(k) == [c \in cells |-> IF \E i \in 1 .. k : q[i][1] = c
                                    THEN from.w[c] + g[c] ELSE from.w[c]]
           T(k) == [w |-> M(k), hist |-> from.hist, avg |-> from.avg]
           S == {k \in Nat : k <= n => t[k] = T(k)}
<1>1. n \in Nat
  BY U!SeqLength
<1>2. 0 \in S
  <2>1. M(0) = from.w
    <3>1. \A i : i \notin 1 .. 0
      OBVIOUS
    <3>2. M(0) = [c \in cells |-> from.w[c]]
      BY <3>1
    <3> QED
      BY <3>2 DEF IsStore
  <2>2. t[0] = from
    BY DEF U!IsRun
  <2> HIDE DEF M
  <2> QED
    BY <2>1, <2>2 DEF IsStore
<1>3. ASSUME NEW k \in S PROVE k + 1 \in S
  <2>1. k \in Nat
    BY <1>3
  <2> SUFFICES ASSUME k + 1 <= n PROVE t[k + 1] = T(k + 1)
    BY <2>1
  <2>2. k + 1 \in 1 .. n /\ k <= n /\ (k + 1) - 1 = k
    BY <1>1, <2>1
  <2>3. t[k] = T(k)
    BY <1>3, <2>2
  <2> DEFINE e == q[k + 1]
  <2>4. t[k + 1] = UpdateOp(s, t[k], e)
    BY <2>2 DEF U!IsRun
  <2>5. UpdateOp(s, t[k], e) = MFUpdate(t[k], e)
    BY DEF UpdateOp
  <2>6. MFUpdate(T(k), e) = [w |-> [M(k) EXCEPT ![e[1]] = @ + e[2]],
                             hist |-> from.hist, avg |-> from.avg]
    <3> DEFINE m == M(k)
               st == [w |-> m, hist |-> from.hist, avg |-> from.avg]
    <3> HIDE DEF m, e
    <3>1. st.w = m /\ st.hist = from.hist /\ st.avg = from.avg
      OBVIOUS
    <3>2. \A x : MFUpdate(x, e) = [x EXCEPT !.w = [x.w EXCEPT ![e[1]] = x.w[e[1]] + e[2]]]
      BY Zenon DEF MFUpdate
    <3>3. MFUpdate(st, e) = [st EXCEPT !.w = [st.w EXCEPT ![e[1]] = st.w[e[1]] + e[2]]]
      BY <3>2
    <3>4. MFUpdate(st, e) = [w |-> [st.w EXCEPT ![e[1]] = st.w[e[1]] + e[2]],
                             hist |-> from.hist, avg |-> from.avg]
      BY <3>3
    <3>5. st.w = m
      BY <3>1
    <3> HIDE DEF st
    <3>6. MFUpdate(st, e) = [w |-> [m EXCEPT ![e[1]] = @ + e[2]],
                             hist |-> from.hist, avg |-> from.avg]
      BY <3>4, <3>5
    <3> QED
      BY <3>6 DEF m, st
  <2>7. [M(k) EXCEPT ![e[1]] = @ + e[2]] = M(k + 1)
    <3>1. e[2] = g[e[1]]
      BY <2>2 DEF Enumerates
    <3>2. \A i \in 1 .. k : q[i][1] # e[1]
      <4>1. \A i \in 1 .. k : i \in 1 .. n /\ i # k + 1
        BY <1>1, <2>1, <2>2
      <4> QED
        BY <2>2, <4>1 DEF Enumerates
    <3>3. \A i : i \in 1 .. (k + 1) <=> i \in 1 .. k \/ i = k + 1
      BY <2>1
    <3>4. ASSUME NEW c \in cells
          PROVE  [M(k) EXCEPT ![e[1]] = @ + e[2]][c] = M(k + 1)[c]
      <4>1. M(k + 1)[c] = IF c = e[1] \/ (\E i \in 1 .. k : q[i][1] = c)
                          THEN from.w[c] + g[c] ELSE from.w[c]
        BY <3>3
      <4>2. M(k)[c] = IF \E i \in 1 .. k : q[i][1] = c THEN from.w[c] + g[c] ELSE from.w[c]
        OBVIOUS
      <4>3. DOMAIN M(k) = cells
        OBVIOUS
      <4> HIDE DEF M, e
      <4>4. CASE c = e[1]
        BY <3>1, <3>2, <4>1, <4>2, <4>3, <4>4
      <4>5. CASE c # e[1]
        BY <4>1, <4>2, <4>3, <4>5
      <4> QED
        BY <4>4, <4>5
    <3>5. /\ DOMAIN M(k) = cells /\ M(k + 1) = [c \in cells |-> M(k + 1)[c]]
      OBVIOUS
    <3> HIDE DEF M, e
    <3>6. [M(k) EXCEPT ![e[1]] = @ + e[2]]
            = [c \in cells |-> [M(k) EXCEPT ![e[1]] = @ + e[2]][c]]
      BY <3>5
    <3> QED
      BY <3>4, <3>5, <3>6
  <2> HIDE DEF M, e
  <2> QED
    BY <2>3, <2>4, <2>5, <2>6, <2>7
<1>4. S = Nat
  <2> HIDE DEF S
  <2>1. S \subseteq Nat
    BY DEF S
  <2> QED
    BY <1>2, <1>3, <2>1, U!SetInduction
<1>5. t[n] = T(n)
  <2>1. n \in S
    <3> HIDE DEF S
    <3> QED
      BY <1>1, <1>4
  <2> QED
    BY <1>1, <2>1
<1>6. M(n) = Plus(from.w, g)
  <2>1. DOMAIN from.w = cells
    BY DEF IsStore
  <2>2. \A c : c \in DOMAIN g <=> \E i \in 1 .. n : q[i][1] = c
    BY DEF Enumerates
  <2> QED
    BY <2>1, <2>2 DEF Plus
<1>7. [from EXCEPT !.w = Plus(@, g)]
        = [w |-> Plus(from.w, g), hist |-> from.hist, avg |-> from.avg]
  BY DEF IsStore
<1> HIDE DEF M
<1> QED
  BY <1>5, <1>6, <1>7

LEMMA RunOfWhole ==
  ASSUME NEW s, NEW cells, NEW from, IsStore(from, cells), NEW q, NEW g, Whole(s, q, g),
         NEW t, U!IsRun(t, s, from, q, Len(q))
  PROVE  t[Len(q)] = AtOnce(s, from, g)
<1>1. CASE s.kind = "lr"
  <2>1. PICK S : q \in Seq(S)
    BY DEF Whole, U!IsSeq
  <2>2. U!Fold(s, from, q) = t[Len(q)]
    BY <2>1, U!FoldIsRun
  <2> QED
    BY <1>1, <2>2 DEF Whole, AtOnce
<1>2. CASE s.kind # "lr"
  <2>1. U!IsSeq(q) /\ Enumerates(q, g)
    BY <1>2 DEF Whole
  <2>2. t[Len(q)] = [from EXCEPT !.w = Plus(@, g)]
    BY <1>2, <2>1, EntriesAddUp
  <2> QED
    BY <1>2, <2>2 DEF AtOnce
<1> QED
  BY <1>1, <1>2

(* Some entries of the gradient g have been applied to from, which made st of *)
(* it; todo are the others.                                                   *)
Applying(s, from, st, todo, g) ==
  \E q, t : \E k \in Nat :
    /\ Whole(s, q, g) /\ U!IsRun(t, s, from, q, Len(q))
    /\ st = t[k] /\ k < Len(q)
    /\ U!IsSeq(todo) /\ Len(todo) = Len(q) - k
    /\ \A i \in 1 .. Len(todo) : todo[i] = q[k + i]

LEMMA ApplyStarts ==
  ASSUME NEW s, NEW from, NEW q, NEW g, Whole(s, q, g)
  PROVE  Applying(s, from, from, q, g)
<1>1. U!IsSeq(q) /\ q # <<>>
  BY DEF Whole
<1>2. Len(q) \in Nat /\ 0 < Len(q)
  <2>1. Len(q) \in Nat /\ Len(q) # 0
    BY <1>1, U!SeqLength
  <2> QED
    BY <2>1
<1>3. PICK S : q \in Seq(S)
  BY <1>1 DEF U!IsSeq
<1>4. PICK t : U!IsRun(t, s, from, q, Len(q))
  BY <1>3, U!FoldHasRun
<1>5. from = t[0]
  BY <1>4 DEF U!IsRun
<1>6. Len(q) = Len(q) - 0 /\ \A i \in 1 .. Len(q) : q[i] = q[0 + i]
  BY <1>2
<1>7. 0 \in Nat
  OBVIOUS
<1> QED
  BY <1>1, <1>2, <1>4, <1>5, <1>6, <1>7 DEF Applying

LEMMA ApplyGoesOn ==
  ASSUME NEW s, NEW from, NEW st, NEW todo, NEW g, Applying(s, from, st, todo, g),
         Len(todo) # 1
  PROVE  Applying(s, from, UpdateOp(s, st, Head(todo)), Tail(todo), g)
<1>1. PICK q, t : \E k \in Nat :
        /\ Whole(s, q, g) /\ U!IsRun(t, s, from, q, Len(q))
        /\ st = t[k] /\ k < Len(q)
        /\ U!IsSeq(todo) /\ Len(todo) = Len(q) - k
        /\ \A i \in 1 .. Len(todo) : todo[i] = q[k + i]
  BY DEF Applying
<1>2. PICK k \in Nat :
        /\ Whole(s, q, g) /\ U!IsRun(t, s, from, q, Len(q))
        /\ st = t[k] /\ k < Len(q)
        /\ U!IsSeq(todo) /\ Len(todo) = Len(q) - k
        /\ \A i \in 1 .. Len(todo) : todo[i] = q[k + i]
  BY <1>1
<1>3. Len(q) \in Nat /\ Len(todo) \in Nat
  BY <1>2, U!SeqLength DEF Whole
<1>4. k + 1 \in Nat /\ k + 1 < Len(q) /\ k + 1 \in 1 .. Len(q) /\ (k + 1) - 1 = k /\ Len(todo) > 1
  BY <1>2, <1>3
<1>5. todo # <<>>
  BY <1>2, <1>4, U!SeqLength
<1>6. /\ U!IsSeq(Tail(todo)) /\ Len(Tail(todo)) = Len(todo) - 1 /\ Head(todo) = todo[1]
      /\ \A i \in 1 .. Len(Tail(todo)) : i + 1 \in 1 .. Len(todo) /\ Tail(todo)[i] = todo[i + 1]
      /\ 1 \in 1 .. Len(todo)
  BY <1>2, <1>5, U!SeqTail
<1>7. Head(todo) = q[k + 1]
  BY <1>2, <1>6
<1>8. UpdateOp(s, st, Head(todo)) = t[k + 1]
  BY <1>2, <1>4, <1>7 DEF U!IsRun
<1>9. Len(Tail(todo)) = Len(q) - (k + 1)
  BY <1>2, <1>3, <1>6
<1>10. ASSUME NEW i \in 1 .. Len(Tail(todo)) PROVE Tail(todo)[i] = q[(k + 1) + i]
  <2>1. Tail(todo)[i] = todo[i + 1] /\ i + 1 \in 1 .. Len(todo)
    BY <1>6
  <2>2. todo[i + 1] = q[k + (i + 1)]
    BY <1>2, <2>1
  <2>3. k + (i + 1) = (k + 1) + i
    OBVIOUS
  <2> QED
    BY <2>1, <2>2, <2>3
<1>11. \E j \in Nat :
        /\ Whole(s, q, g) /\ U!IsRun(t, s, from, q, Len(q))
        /\ UpdateOp(s, st, Head(todo)) = t[j] /\ j < Len(q)
        /\ U!IsSeq(Tail(todo)) /\ Len(Tail(todo)) = Len(q) - j
        /\ \A i \in 1 .. Len(Tail(todo)) : Tail(todo)[i] = q[j + i]
  <2> WITNESS k + 1 \in Nat
  <2> QED
    BY <1>2, <1>4, <1>6, <1>8, <1>9, <1>10
<1> QED
  BY <1>11 DEF Applying

LEMMA ApplyEnds ==
  ASSUME NEW s, NEW cells, NEW from, IsStore(from, cells), NEW st, NEW todo, NEW g,
         Applying(s, from, st, todo, g), Len(todo) = 1
  PROVE  UpdateOp(s, st, Head(todo)) = AtOnce(s, from, g)
<1>1. PICK q, t : \E k \in Nat :
        /\ Whole(s, q, g) /\ U!IsRun(t, s, from, q, Len(q))
        /\ st = t[k] /\ k < Len(q)
        /\ U!IsSeq(todo) /\ Len(todo) = Len(q) - k
        /\ \A i \in 1 .. Len(todo) : todo[i] = q[k + i]
  BY DEF Applying
<1>2. PICK k \in Nat :
        /\ Whole(s, q, g) /\ U!IsRun(t, s, from, q, Len(q))
        /\ st = t[k] /\ k < Len(q)
        /\ U!IsSeq(todo) /\ Len(todo) = Len(q) - k
        /\ \A i \in 1 .. Len(todo) : todo[i] = q[k + i]
  BY <1>1
<1>3. Len(q) \in Nat
  BY <1>2, U!SeqLength DEF Whole
<1>4. k + 1 = Len(q) /\ k + 1 \in 1 .. Len(q) /\ (k + 1) - 1 = k /\ 1 \in 1 .. Len(todo)
  <2>1. Len(q) - k = 1
    BY <1>2
  <2> QED
    BY <1>3, <2>1
<1>5. todo # <<>>
  BY <1>2, U!SeqLength
<1>6. Head(todo) = todo[1]
  BY <1>2, <1>5, U!SeqTail
<1>7. Head(todo) = q[k + 1]
  BY <1>2, <1>4, <1>6
<1>8. UpdateOp(s, st, Head(todo)) = t[Len(q)]
  BY <1>2, <1>4, <1>7 DEF U!IsRun
<1>9. t[Len(q)] = AtOnce(s, from, g)
  BY <1>2, RunOfWhole
<1> QED
  BY <1>8, <1>9

-----------------------------------------------------------------------------
(* Logistic regression: a gradient is a sequence of pairs, and its message    *)
(* carries it.                                                                *)

IsPairs(g) == U!IsSeq(g) /\ \A i \in 1 .. Len(g) : g[i] = <<g[i][1], g[i][2]>>

LEMMA LRMessage ==
  ASSUME NEW v, NEW g, IsPairs(g)
  PROVE  /\ LR!LRGradientWords(v, g)[2] = Len(g)
         /\ Len(LR!LRGradientWords(v, g)) = 2 * Len(g) + 2
         /\ LR!loadLRGradient(LR!LRGradientWords(v, g)) = g
<1> DEFINE n == Len(g)
           S == {g[i][1] : i \in 1 .. n} \union {g[i][2] : i \in 1 .. n}
           F == LR!FlattenSeq(g)
           T == S \union {v, n}
           words == <<v, n>> \o F
<1>1. PICK R : g \in Seq(R)
  BY DEF IsPairs, U!IsSeq
<1>2. n \in Nat /\ g = [i \in 1 .. n |-> g[i]]
  BY <1>1
<1>3. ASSUME NEW i \in 1 .. n PROVE g[i] \in Seq(S) /\ Len(g[i]) = 2
  <2>1. g[i] = <<g[i][1], g[i][2]>>
    BY DEF IsPairs
  <2>2. g[i][1] \in S /\ g[i][2] \in S
    OBVIOUS
  <2> DEFINE a == g[i][1]
             b == g[i][2]
  <2>3. <<a, b>> \in Seq(S) /\ Len(<<a, b>>) = 2
    <3> HIDE DEF S, a, b
    <3> QED
      BY <2>2 DEF a, b
  <2> QED
    BY <2>1, <2>3
<1> HIDE DEF S
<1>4. g \in Seq(Seq(S))
  BY <1>1, <1>2, <1>3
<1>5. F = U!FlattenSeq(g)
  BY DEF LR!FlattenSeq, U!FlattenSeq
<1>6. /\ F \in Seq(S) /\ Len(F) = 2 * n
      /\ \A i \in 1 .. n : \A j \in 1 .. 2 :
           2 * (i - 1) + j \in 1 .. Len(F) /\ F[2 * (i - 1) + j] = g[i][j]
  <2>1. 2 \in Nat /\ \A i \in 1 .. Len(g) : Len(g[i]) = 2
    BY <1>3
  <2>2. /\ U!FlattenSeq(g) \in Seq(S) /\ Len(U!FlattenSeq(g)) = 2 * Len(g)
        /\ \A i \in 1 .. Len(g) : \A j \in 1 .. 2 :
             /\ 2 * (i - 1) + j \in 1 .. Len(U!FlattenSeq(g))
             /\ U!FlattenSeq(g)[2 * (i - 1) + j] = g[i][j]
    BY <1>4, <2>1, U!FlattenBlocks, ZenonT(60)
  <2> HIDE DEF F
  <2> QED
    BY <1>5, <2>2
<1> HIDE DEF F
<1>7. F \in Seq(T) /\ <<v, n>> \in Seq(T)
  BY <1>6
<1> HIDE DEF T
<1>8. /\ Len(words) = 2 + Len(F) /\ Len(words) = 2 * n + 2 /\ words[2] = n
      /\ \A k \in 1 .. Len(F) : words[2 + k] = F[k]
  BY <1>2, <1>6, <1>7
<1>9. LR!LRGradientWords(v, g) = words
  BY DEF LR!LRGradientWords, F
<1> HIDE DEF words
<1>10. ASSUME NEW i \in 1 .. n PROVE <<words[2 * i + 1], words[2 * i + 2]>> = g[i]
  <2>1. /\ 2 * (i - 1) + 1 \in 1 .. Len(F) /\ F[2 * (i - 1) + 1] = g[i][1]
        /\ 2 * (i - 1) + 2 \in 1 .. Len(F) /\ F[2 * (i - 1) + 2] = g[i][2]
    BY <1>6
  <2>2. 2 + (2 * (i - 1) + 1) = 2 * i + 1 /\ 2 + (2 * (i - 1) + 2) = 2 * i + 2
    OBVIOUS
  <2>3. words[2 * i + 1] = g[i][1] /\ words[2 * i + 2] = g[i][2]
    BY <1>8, <2>1, <2>2
  <2> QED
    BY <2>3 DEF IsPairs
<1>11. LR!loadLRGradient(words) = g
  BY <1>2, <1>8, <1>10 DEF LR!loadLRGradient
<1> QED
  BY <1>8, <1>9, <1>11

(* SparseStep, with what it takes from minibatch_grad_sparse as one argument. *)
SparseOp(p, st, f) == LR!SparseStep(st, f[1], p[1], p[2], p[3])

P == INSTANCE FoldFacts WITH Op <- SparseOp

LEMMA FeaturesAreSeq ==
  ASSUME NEW b \in Seq([label : Int, feats : Seq((0 .. (Dim - 1)) \X Int)])
  PROVE  LR!Features(b) \in Seq((0 .. (Dim - 1)) \X Int)
<1> DEFINE E == (0 .. (Dim - 1)) \X Int
           n == Len(b)
           seqs == [i \in 1 .. n |-> b[i].feats]
<1> HIDE DEF E
<1>1. n \in Nat /\ \A i \in 1 .. n : b[i].feats \in Seq(E)
  <2>1. b \in Seq([label : Int, feats : Seq(E)])
    BY DEF E
  <2> DEFINE R == [label : Int, feats : Seq(E)]
  <2>2. n \in Nat /\ \A i \in 1 .. n : b[i] \in R
    <3>1. b \in Seq(R)
      BY <2>1
    <3> HIDE DEF R
    <3> QED
      BY <3>1
  <2> QED
    BY <2>2
<1> HIDE DEF n
<1>2. seqs \in Seq(Seq(E))
  BY <1>1
<1> HIDE DEF seqs
<1>3. U!FlattenSeq(seqs) \in Seq(E)
  BY <1>2, U!FlattenElements
<1>4. LR!FlattenSeq(seqs) = U!FlattenSeq(seqs)
  BY DEF LR!FlattenSeq, U!FlattenSeq
<1> QED
  BY <1>3, <1>4 DEF LR!Features, seqs, n, E

LEMMA SparseGradientIsPairs ==
  ASSUME NEW b \in Seq([label : Int, feats : Seq((0 .. (Dim - 1)) \X Int)]),
         NEW weights, NEW epsilon, NEW threshold, NEW scratch
  PROVE  IsPairs(LR!minibatch_grad_sparse(b, weights, epsilon, threshold, scratch).grad)
<1> DEFINE p == <<weights, epsilon, threshold>>
           E == (0 .. (Dim - 1)) \X Int
           q == LR!Features(b)
           start == [part3 |-> LR!Collect(b, LR!Residuals(b, weights), scratch), grad |-> <<>>]
<1>1. q \in Seq(E)
  BY FeaturesAreSeq
<1>2. LR!minibatch_grad_sparse(b, weights, epsilon, threshold, scratch)
        = P!Fold(p, start, q)
  <2> HIDE DEF q
  <2>1. p[1] = weights /\ p[2] = epsilon /\ p[3] = threshold
    OBVIOUS
  <2> HIDE DEF p
  <2> QED
    BY <2>1
    DEF LR!minibatch_grad_sparse, P!Fold, LR!FoldLeft, P!FoldLeft, LR!MapThenFoldSet,
        P!MapThenFoldSet, LR!Max, P!Max, SparseOp, q
<1>3. start.grad = <<>>
  OBVIOUS
<1> HIDE DEF p, q, start, E
<1>4. PICK t : P!IsRun(t, p, start, q, Len(q)) /\ P!Fold(p, start, q) = t[Len(q)]
  BY <1>1, P!FoldHasRun
<1> DEFINE S == {k \in Nat : k <= Len(q) => IsPairs(t[k].grad)}
<1>5. 0 \in S
  <2>1. t[0] = start
    BY <1>4 DEF P!IsRun
  <2>2. IsPairs(<<>>)
    BY U!SeqEmpty DEF IsPairs
  <2> QED
    BY <1>3, <2>1, <2>2
<1>6. ASSUME NEW k \in S PROVE k + 1 \in S
  <2>1. k \in Nat /\ Len(q) \in Nat
    BY <1>1, <1>6
  <2> SUFFICES ASSUME k + 1 <= Len(q) PROVE IsPairs(t[k + 1].grad)
    BY <2>1
  <2>2. k + 1 \in 1 .. Len(q) /\ k <= Len(q) /\ (k + 1) - 1 = k
    BY <2>1
  <2>3. IsPairs(t[k].grad)
    BY <1>6, <2>2
  <2>4. t[k + 1] = LR!SparseStep(t[k], q[k + 1][1], p[1], p[2], p[3])
    BY <1>4, <2>2 DEF P!IsRun, SparseOp
  <2> DEFINE c == q[k + 1][1]
             final == t[k].part3[c] + p[1][c] * 2 * p[2]
             g == t[k].grad
  <2>5. t[k + 1].grad = g \/ t[k + 1].grad = Append(g, <<c, final>>)
    <3> DEFINE st == t[k]
               x == Append(g, <<c, final>>)
               rest == [st.part3 EXCEPT ![c] = 0]
    <3>1. t[k + 1] = IF st.part3[c] = 0 THEN st
                     ELSE [part3 |-> rest,
                           grad |-> IF LR!Abs(final) > p[3] THEN x ELSE g]
      BY <2>4, Zenon DEF LR!SparseStep
    <3> DEFINE y == IF LR!Abs(final) > p[3] THEN x ELSE g
    <3>2. y = x \/ y = g
      OBVIOUS
    <3>3. st.grad = g
      OBVIOUS
    <3> HIDE DEF x, rest, y, st, g, final, c
    <3>4. [part3 |-> rest, grad |-> y].grad = y
      OBVIOUS
    <3>5. t[k + 1] = IF st.part3[c] = 0 THEN st ELSE [part3 |-> rest, grad |-> y]
      BY <3>1 DEF y
    <3> QED
      BY <3>2, <3>3, <3>4, <3>5 DEF x
  <2> HIDE DEF g, final, c
  <2>6. IsPairs(Append(g, <<c, final>>))
    <3>1. U!IsSeq(g) /\ \A i \in 1 .. Len(g) : g[i] = <<g[i][1], g[i][2]>>
      BY <2>3 DEF IsPairs, g
    <3> DEFINE x == <<c, final>>
               h == Append(g, x)
    <3>2. x = <<x[1], x[2]>>
      OBVIOUS
    <3> HIDE DEF x
    <3>3. /\ U!IsSeq(h) /\ Len(h) = Len(g) + 1 /\ h[Len(g) + 1] = x
          /\ \A i \in 1 .. Len(g) : h[i] = g[i]
      BY <3>1, U!SeqAppend
    <3>4. Len(g) \in Nat
      BY <3>1, U!SeqLength
    <3> HIDE DEF h
    <3>5. ASSUME NEW i \in 1 .. Len(h) PROVE h[i] = <<h[i][1], h[i][2]>>
      <4>1. i = Len(g) + 1 \/ i \in 1 .. Len(g)
        BY <3>3, <3>4
      <4> QED
        BY <3>1, <3>2, <3>3, <4>1
    <3> QED
      BY <3>3, <3>5 DEF IsPairs, h, x
  <2> QED
    BY <2>3, <2>5, <2>6 DEF g
<1>7. S = Nat
  <2> HIDE DEF S
  <2>1. S \subseteq Nat
    BY DEF S
  <2> QED
    BY <1>5, <1>6, <2>1, U!SetInduction
<1>8. Len(q) \in Nat /\ Len(q) \in S
  <2> HIDE DEF S
  <2>1. Len(q) \in Nat
    BY <1>1
  <2> QED
    BY <1>7, <2>1
<1>9. IsPairs(t[Len(q)].grad)
  BY <1>8
<1> QED
  BY <1>2, <1>4, <1>9

-----------------------------------------------------------------------------
(* Collaborative filtering: the gradient has the cells of the users and items *)
(* of the minibatch, and its message carries each of them once.               *)

LEMMA CellForms ==
  ASSUME NEW users, NEW items, NEW c
  PROVE  c \in Cells(users, items) <=>
           \E k \in 0 .. NumFactors : \/ \E u \in users : c = <<"user", u, k>>
                                      \/ \E m \in items : c = <<"item", m, k>>
<1>1. NumFactors \in Nat
  BY NumFactorsAssumption
<1>2. ASSUME NEW kind, NEW id
      PROVE  c \in CellsOf(kind, id) <=> \E k \in 0 .. NumFactors : c = <<kind, id, k>>
  <2>1. ASSUME c \in CellsOf(kind, id) PROVE \E k \in 0 .. NumFactors : c = <<kind, id, k>>
    <3>1. c = <<kind, id, 0>> \/ \E j \in 0 .. (NumFactors - 1) : c = <<kind, id, j + 1>>
      BY <2>1 DEF CellsOf, Bias, Weight, Factors
    <3>2. 0 \in 0 .. NumFactors /\ \A j \in 0 .. (NumFactors - 1) : j + 1 \in 0 .. NumFactors
      BY <1>1
    <3> QED
      BY <3>1, <3>2
  <2>2. ASSUME NEW k \in 0 .. NumFactors, c = <<kind, id, k>> PROVE c \in CellsOf(kind, id)
    <3>1. CASE k = 0
      BY <2>2, <3>1 DEF CellsOf, Bias
    <3>2. CASE k # 0
      <4>1. k - 1 \in Factors /\ k = (k - 1) + 1
        BY <1>1, <3>2 DEF Factors
      <4>2. Weight(kind, id, k - 1) = c
        BY <2>2, <4>1 DEF Weight
      <4> QED
        BY <4>1, <4>2 DEF CellsOf
    <3> QED
      BY <3>1, <3>2
  <2> QED
    BY <2>1, <2>2
<1>3. c \in Cells(users, items) <=> \/ \E u \in users : c \in CellsOf("user", u)
                                    \/ \E m \in items : c \in CellsOf("item", m)
  <2>1. c \in UNION {CellsOf("user", u) : u \in users}
          <=> \E u \in users : c \in CellsOf("user", u)
    OBVIOUS
  <2>2. c \in UNION {CellsOf("item", m) : m \in items}
          <=> \E m \in items : c \in CellsOf("item", m)
    OBVIOUS
  <2> QED
    BY <2>1, <2>2 DEF Cells
<1> QED
  BY <1>2, <1>3

(* The items of a minibatch, each once. *)
ItemOp(p, acc, f) == IF Contains(acc, f[1]) THEN acc ELSE Append(acc, f[1])

I == INSTANCE FoldFacts WITH Op <- ItemOp

Distinct(q) == \A i, j \in 1 .. Len(q) : q[i] = q[j] => i = j

LEMMA AddItem ==
  ASSUME NEW q, U!IsSeq(q), Distinct(q), NEW x, ~Contains(q, x)
  PROVE  Distinct(Append(q, x))
<1> DEFINE h == Append(q, x)
           n == Len(q)
<1>1. /\ Len(h) = n + 1 /\ h[n + 1] = x
      /\ \A i \in 1 .. n : h[i] = q[i]
  BY U!SeqAppend
<1>2. n \in Nat
  BY U!SeqLength
<1>3. \A i \in 1 .. n : q[i] # x
  BY DEF Contains
<1>4. \A i, j \in 1 .. n : q[i] = q[j] => i = j
  BY DEF Distinct
<1> HIDE DEF h, n
<1>5. \A i \in 1 .. (n + 1) : i = n + 1 \/ i \in 1 .. n
  BY <1>2
<1>6. \A i, j \in 1 .. (n + 1) : h[i] = h[j] => i = j
  BY <1>1, <1>3, <1>4, <1>5
<1> QED
  BY <1>1, <1>6 DEF Distinct, h

LEMMA ItemOrderFacts ==
  ASSUME NEW rows \in Seq(Seq(Nat \X Int))
  PROVE  /\ U!IsSeq(ItemOrder(rows)) /\ Distinct(ItemOrder(rows))
         /\ Items(rows) = {ItemOrder(rows)[i] : i \in 1 .. Len(ItemOrder(rows))}
<1> DEFINE R == Nat \X Int
           q == FlattenSeq(rows)
<1> HIDE DEF R
<1>1. rows \in Seq(Seq(R))
  BY DEF R
<1>2. q = U!FlattenSeq(rows)
  BY DEF FlattenSeq, U!FlattenSeq
<1>3. /\ q \in Seq(R)
      /\ \A i \in 1 .. Len(rows) : \A j \in 1 .. Len(rows[i]) :
           \E k \in 1 .. Len(q) : q[k] = rows[i][j]
      /\ \A k \in 1 .. Len(q) : \E i \in 1 .. Len(rows) : \E j \in 1 .. Len(rows[i]) :
           q[k] = rows[i][j]
  <2>1. /\ U!FlattenSeq(rows) \in Seq(R)
        /\ \A i \in 1 .. Len(rows) : \A j \in 1 .. Len(rows[i]) :
             \E k \in 1 .. Len(U!FlattenSeq(rows)) : U!FlattenSeq(rows)[k] = rows[i][j]
        /\ \A k \in 1 .. Len(U!FlattenSeq(rows)) :
             \E i \in 1 .. Len(rows) : \E j \in 1 .. Len(rows[i]) :
               U!FlattenSeq(rows)[k] = rows[i][j]
    BY <1>1, U!FlattenElements, Zenon
  <2> HIDE DEF q
  <2> QED
    BY <1>2, <2>1, Zenon
<1>4. ItemOrder(rows) = I!Fold(0, <<>>, q)
  BY DEF ItemOrder, I!Fold, FoldLeft, I!FoldLeft, MapThenFoldSet, I!MapThenFoldSet, Max, I!Max,
         ItemOp
<1> HIDE DEF q
<1>5. PICK t : I!IsRun(t, 0, <<>>, q, Len(q)) /\ I!Fold(0, <<>>, q) = t[Len(q)]
  <2>1. q \in Seq(R)
    BY <1>3
  <2> QED
    BY <2>1, I!FoldHasRun
<1> DEFINE Elems(s) == {s[i] : i \in 1 .. Len(s)}
           Good(k) == /\ U!IsSeq(t[k]) /\ Distinct(t[k])
                      /\ \A x : (\E i \in 1 .. Len(t[k]) : t[k][i] = x)
                                  <=> (\E i \in 1 .. k : q[i][1] = x)
           S == {k \in Nat : k <= Len(q) => Good(k)}
<1>6. 0 \in S
  <2>1. t[0] = <<>>
    BY <1>5 DEF I!IsRun
  <2>2. U!IsSeq(<<>>) /\ Len(<<>>) = 0 /\ 1 .. 0 = {}
    BY U!SeqEmpty
  <2> QED
    BY <2>1, <2>2 DEF Distinct
<1>7. ASSUME NEW k \in S PROVE k + 1 \in S
  <2>1. k \in Nat /\ Len(q) \in Nat
    BY <1>3, <1>7
  <2> SUFFICES ASSUME k + 1 <= Len(q) PROVE Good(k + 1)
    <3> HIDE DEF Good
    <3> QED
      BY <2>1
  <2>2. k + 1 \in 1 .. Len(q) /\ k <= Len(q) /\ (k + 1) - 1 = k
    BY <2>1
  <2>3. Good(k)
    <3> HIDE DEF Good
    <3> QED
      BY <1>7, <2>2
  <2> DEFINE x == q[k + 1][1]
             s == t[k]
  <2>4. t[k + 1] = IF Contains(s, x) THEN s ELSE Append(s, x)
    BY <1>5, <2>2 DEF I!IsRun, ItemOp
  <2>5. \A i : i \in 1 .. (k + 1) <=> i \in 1 .. k \/ i = k + 1
    BY <2>1
  <2>6. \A y : (\E i \in 1 .. (k + 1) : q[i][1] = y) <=> y = x \/ (\E i \in 1 .. k : q[i][1] = y)
    BY <2>5
  <2>7. /\ U!IsSeq(s) /\ Distinct(s)
        /\ \A y : (\E i \in 1 .. Len(s) : s[i] = y) <=> (\E i \in 1 .. k : q[i][1] = y)
    BY <2>3
  <2> HIDE DEF x, s
  <2>8. CASE Contains(s, x)
    <3>1. \E i \in 1 .. Len(s) : s[i] = x
      BY <2>8 DEF Contains
    <3> QED
      BY <2>4, <2>6, <2>7, <2>8, <3>1
  <2>9. CASE ~Contains(s, x)
    <3> DEFINE h == Append(s, x)
    <3>1. /\ U!IsSeq(h) /\ Len(h) = Len(s) + 1 /\ h[Len(s) + 1] = x
          /\ \A i \in 1 .. Len(s) : h[i] = s[i]
      BY <2>7, U!SeqAppend
    <3>2. Distinct(h)
      BY <2>7, <2>9, AddItem
    <3>3. Len(s) \in Nat
      BY <2>7, U!SeqLength
    <3> HIDE DEF h
    <3>4. \A i : i \in 1 .. Len(h) <=> i \in 1 .. Len(s) \/ i = Len(s) + 1
      BY <3>1, <3>3
    <3>5. \A y : (\E i \in 1 .. Len(h) : h[i] = y) <=> y = x \/ (\E i \in 1 .. Len(s) : s[i] = y)
      BY <3>1, <3>4
    <3>6. t[k + 1] = h
      BY <2>4, <2>9 DEF h
    <3> QED
      BY <2>6, <2>7, <3>1, <3>2, <3>5, <3>6
  <2> QED
    BY <2>8, <2>9
<1>8. S = Nat
  <2> HIDE DEF S
  <2>1. S \subseteq Nat
    BY DEF S
  <2> QED
    BY <1>6, <1>7, <2>1, U!SetInduction
<1>9. Good(Len(q))
  <2>1. Len(q) \in Nat
    BY <1>3
  <2>2. Len(q) \in S
    <3> HIDE DEF S
    <3> QED
      BY <1>8, <2>1
  <2> HIDE DEF Good
  <2> QED
    BY <2>1, <2>2
<1> DEFINE o == ItemOrder(rows)
<1>10. /\ U!IsSeq(o) /\ Distinct(o)
       /\ \A x : (\E i \in 1 .. Len(o) : o[i] = x) <=> (\E i \in 1 .. Len(q) : q[i][1] = x)
  BY <1>4, <1>5, <1>9
<1> HIDE DEF o
<1>11. \A x : x \in Items(rows) <=> \E i \in 1 .. Len(rows) : \E j \in 1 .. Len(rows[i]) : rows[i][j][1] = x
  <2>1. DOMAIN rows = 1 .. Len(rows)
    BY <1>1
  <2>2. \A i \in 1 .. Len(rows) : DOMAIN rows[i] = 1 .. Len(rows[i])
    <3>1. \A i \in 1 .. Len(rows) : rows[i] \in Seq(R)
      BY <1>1
    <3> QED
      BY <3>1
  <2>3. ToSet(rows) = {rows[i] : i \in 1 .. Len(rows)}
    BY <2>1 DEF ToSet
  <2>4. \A i \in 1 .. Len(rows) : ToSet(rows[i]) = {rows[i][j] : j \in 1 .. Len(rows[i])}
    BY <2>2 DEF ToSet
  <2>5. ASSUME NEW x \in Items(rows)
        PROVE  \E i \in 1 .. Len(rows) : \E j \in 1 .. Len(rows[i]) : rows[i][j][1] = x
    <3>1. PICK f \in UNION {ToSet(s) : s \in ToSet(rows)} : x = f[1]
      BY DEF Items
    <3>2. PICK s \in ToSet(rows) : f \in ToSet(s)
      BY <3>1
    <3>3. PICK i \in 1 .. Len(rows) : s = rows[i]
      BY <2>3, <3>2
    <3>4. PICK j \in 1 .. Len(rows[i]) : f = rows[i][j]
      BY <2>4, <3>2, <3>3
    <3> QED
      BY <3>1, <3>4
  <2>6. ASSUME NEW i \in 1 .. Len(rows), NEW j \in 1 .. Len(rows[i])
        PROVE  rows[i][j][1] \in Items(rows)
    <3>1. rows[i] \in ToSet(rows) /\ rows[i][j] \in ToSet(rows[i])
      BY <2>3, <2>4
    <3> QED
      BY <3>1 DEF Items
  <2> QED
    BY <2>5, <2>6
<1>12. \A x : x \in Items(rows) <=> \E i \in 1 .. Len(q) : q[i][1] = x
  <2>1. ASSUME NEW x \in Items(rows) PROVE \E k \in 1 .. Len(q) : q[k][1] = x
    <3>1. PICK i \in 1 .. Len(rows) : \E j \in 1 .. Len(rows[i]) : rows[i][j][1] = x
      BY <1>11
    <3>2. PICK j \in 1 .. Len(rows[i]) : rows[i][j][1] = x
      BY <3>1
    <3>3. PICK k \in 1 .. Len(q) : q[k] = rows[i][j]
      BY <1>3
    <3> QED
      BY <3>2, <3>3
  <2>2. ASSUME NEW k \in 1 .. Len(q) PROVE q[k][1] \in Items(rows)
    <3>1. PICK i \in 1 .. Len(rows) : \E j \in 1 .. Len(rows[i]) : q[k] = rows[i][j]
      BY <1>3
    <3>2. PICK j \in 1 .. Len(rows[i]) : q[k] = rows[i][j]
      BY <3>1
    <3> QED
      BY <1>11, <3>2
  <2> QED
    BY <2>1, <2>2
<1> QED
  BY <1>10, <1>12 DEF o

LEMMA RatingSeqFacts ==
  ASSUME NEW rows \in Seq(Seq(Nat \X Int))
  PROVE  /\ RatingSeq(rows) \in Seq(Nat \X Nat \X Int)
         /\ ItemOrder(rows) = <<>> => RatingSeq(rows) = <<>>
<1> DEFINE n == Len(rows)
           S == Nat \X Nat \X Int
           rating(i, j) == <<i, rows[i][j][1], rows[i][j][2]>>
           row(i) == [j \in 1 .. Len(rows[i]) |-> rating(i, j)]
           seqs == [i \in 1 .. n |-> row(i)]
<1>1. n \in Nat /\ \A i \in 1 .. n : rows[i] \in Seq(Nat \X Int)
  OBVIOUS
<1>2. ASSUME NEW i \in 1 .. n
      PROVE  /\ Len(rows[i]) \in Nat
             /\ \A j \in 1 .. Len(rows[i]) : rating(i, j) \in S
  <2>1. rows[i] \in Seq(Nat \X Int)
    BY <1>1
  <2>2. Len(rows[i]) \in Nat /\ \A j \in 1 .. Len(rows[i]) : rows[i][j] \in Nat \X Int
    BY <2>1
  <2>3. i \in Nat
    BY <1>1
  <2> QED
    BY <2>2, <2>3
<1> HIDE DEF S, rating
<1>3. ASSUME NEW i \in 1 .. n PROVE row(i) \in Seq(S) /\ Len(row(i)) = Len(rows[i])
  BY <1>2
<1> HIDE DEF row
<1>4. seqs \in Seq(Seq(S)) /\ Len(seqs) = n /\ \A i \in 1 .. n : seqs[i] = row(i)
  BY <1>1, <1>3
<1>5. RatingSeq(rows) = U!FlattenSeq(seqs)
  BY DEF RatingSeq, FlattenSeq, U!FlattenSeq, row, rating
<1> HIDE DEF seqs
<1>6. /\ U!FlattenSeq(seqs) \in Seq(S)
      /\ \A k \in 1 .. Len(U!FlattenSeq(seqs)) :
           \E i \in 1 .. Len(seqs) : \E j \in 1 .. Len(seqs[i]) :
             U!FlattenSeq(seqs)[k] = seqs[i][j]
  <2>1. seqs \in Seq(Seq(S))
    BY <1>4
  <2> QED
    BY <2>1, U!FlattenElements, Zenon
<1>7. ASSUME ItemOrder(rows) = <<>> PROVE RatingSeq(rows) = <<>>
  <2> DEFINE q == U!FlattenSeq(seqs)
  <2>1. Items(rows) = {}
    <3>1. Items(rows) = {ItemOrder(rows)[i] : i \in 1 .. Len(ItemOrder(rows))}
      BY ItemOrderFacts
    <3>2. 1 .. Len(ItemOrder(rows)) = {}
      BY <1>7
    <3> QED
      BY <3>1, <3>2
  <2>2. ASSUME NEW i \in 1 .. n, NEW j \in 1 .. Len(rows[i]) PROVE FALSE
    <3>1. rows[i] \in ToSet(rows)
      BY DEF ToSet
    <3>2. rows[i][j] \in ToSet(rows[i])
      BY <1>1 DEF ToSet
    <3>3. rows[i][j][1] \in Items(rows)
      BY <3>1, <3>2 DEF Items
    <3> QED
      BY <2>1, <3>3
  <2>3. ASSUME NEW k \in 1 .. Len(q) PROVE FALSE
    <3>1. PICK i \in 1 .. Len(seqs) : \E j \in 1 .. Len(seqs[i]) : q[k] = seqs[i][j]
      BY <1>6
    <3>2. PICK j \in 1 .. Len(seqs[i]) : q[k] = seqs[i][j]
      BY <3>1
    <3>3. i \in 1 .. n /\ Len(seqs[i]) = Len(rows[i])
      BY <1>3, <1>4
    <3> QED
      BY <2>2, <3>3
  <2> HIDE DEF q
  <2>4. q \in Seq(S)
    BY <1>6 DEF q
  <2>5. Len(q) = 0
    <3>1. Len(q) \in Nat
      BY <2>4
    <3>2. Len(q) # 0 => 1 \in 1 .. Len(q)
      BY <3>1
    <3> QED
      BY <2>3, <3>2
  <2>6. q = <<>>
    BY <2>4, <2>5
  <2> QED
    BY <1>5, <2>6 DEF q
<1> QED
  BY <1>5, <1>6, <1>7 DEF S

GradOp(p, st, e) == GradientStep(st, p, e)

V == INSTANCE FoldFacts WITH Op <- GradOp

LEMMA MFGradientCells ==
  ASSUME NEW rows \in Seq(Seq(Nat \X Int)), NEW m, NEW first, NEW g,
         g = minibatch_grad(m, first, rows).g
  PROVE  g = [c \in Cells(first .. (first + Len(rows) - 1), Items(rows)) |-> g[c]]
<1> DEFINE C == Cells(first .. (first + Len(rows) - 1), Items(rows))
           q == RatingSeq(rows)
           start == [m |-> m, g |-> [c \in C |-> 0]]
           S == Nat \X Nat \X Int
<1>1. q \in Seq(S)
  BY RatingSeqFacts
<1>2. g = V!Fold(first, start, q).g
  BY DEF minibatch_grad, V!Fold, FoldLeft, V!FoldLeft, MapThenFoldSet, V!MapThenFoldSet, Max,
         V!Max, GradOp
<1>3. start.g = [c \in C |-> start.g[c]]
  OBVIOUS
<1> HIDE DEF C, q, start, S
<1>4. PICK t : V!IsRun(t, first, start, q, Len(q)) /\ V!Fold(first, start, q) = t[Len(q)]
  BY <1>1, V!FoldHasRun
<1> DEFINE Good(k) == t[k].g = [c \in C |-> t[k].g[c]]
           K == {k \in Nat : k <= Len(q) => Good(k)}
<1>5. 0 \in K
  <2>1. t[0] = start
    BY <1>4 DEF V!IsRun
  <2> QED
    BY <1>3, <2>1
<1>6. ASSUME NEW k \in K PROVE k + 1 \in K
  <2>1. k \in Nat /\ Len(q) \in Nat
    BY <1>1, <1>6
  <2> SUFFICES ASSUME k + 1 <= Len(q) PROVE Good(k + 1)
    <3> HIDE DEF Good
    <3> QED
      BY <2>1
  <2>2. k + 1 \in 1 .. Len(q) /\ k <= Len(q) /\ (k + 1) - 1 = k
    BY <2>1
  <2>3. Good(k)
    <3> HIDE DEF Good
    <3> QED
      BY <1>6, <2>2
  <2>4. t[k + 1] = GradientStep(t[k], first, q[k + 1])
    BY <1>4, <2>2 DEF V!IsRun, GradOp
  <2>5. PICK d : t[k + 1].g = Plus(t[k].g, d)
    BY <2>4 DEF GradientStep
  <2>6. DOMAIN t[k].g = C
    BY <2>3
  <2> QED
    BY <2>5, <2>6 DEF Plus
<1>7. K = Nat
  <2> HIDE DEF K
  <2>1. K \subseteq Nat
    BY DEF K
  <2> QED
    BY <1>5, <1>6, <2>1, U!SetInduction
<1>8. Good(Len(q))
  <2>1. Len(q) \in Nat
    BY <1>1
  <2>2. Len(q) \in K
    <3> HIDE DEF K
    <3> QED
      BY <1>7, <2>1
  <2> HIDE DEF Good
  <2> QED
    BY <2>1, <2>2
<1> QED
  BY <1>2, <1>4, <1>8 DEF C

(* The pieces of the messages. *)
LEMMA Cat ==
  ASSUME NEW S, NEW a \in Seq(S), NEW b \in Seq(S)
  PROVE  /\ a \o b \in Seq(S) /\ Len(a \o b) = Len(a) + Len(b)
         /\ \A i \in 1 .. Len(a) : (a \o b)[i] = a[i]
         /\ \A i \in 1 .. Len(b) : (a \o b)[Len(a) + i] = b[i]
OBVIOUS

FactorSeq(m, kind, id) == [k \in 1 .. NumFactors |-> m[Weight(kind, id, k - 1)]]

LEMMA FactorsOf ==
  ASSUME NEW m, NEW kind, NEW id
  PROVE  Tail(Values(m, CellSeq(kind, id))) = FactorSeq(m, kind, id)
<1> DEFINE a == <<Bias(kind, id)>>
           b == [k \in 1 .. NumFactors |-> Weight(kind, id, k - 1)]
           S == {Bias(kind, id)} \union {Weight(kind, id, k - 1) : k \in 1 .. NumFactors}
           q == CellSeq(kind, id)
           v == Values(m, q)
           T == {m[q[i]] : i \in 1 .. (NumFactors + 1)}
<1>1. NumFactors \in Nat
  BY NumFactorsAssumption
<1>2. a \in Seq(S) /\ Len(a) = 1
  OBVIOUS
<1>3. b \in Seq(S) /\ Len(b) = NumFactors
  BY <1>1
<1>4. /\ q \in Seq(S) /\ Len(q) = NumFactors + 1
      /\ \A k \in 1 .. NumFactors : q[1 + k] = b[k]
  <2>1. q = a \o b
    BY DEF CellSeq
  <2> HIDE DEF a, b, S, q
  <2>2. /\ a \o b \in Seq(S) /\ Len(a \o b) = Len(a) + Len(b)
        /\ \A k \in 1 .. Len(b) : (a \o b)[Len(a) + k] = b[k]
    <3>1. a \in Seq(S) /\ b \in Seq(S)
      BY <1>2, <1>3
    <3> QED
      BY <3>1, Cat
  <2> QED
    BY <1>1, <1>2, <1>3, <2>1, <2>2
<1>5. \A k \in 1 .. NumFactors : q[1 + k] = Weight(kind, id, k - 1)
  BY <1>4
<1> HIDE DEF a, b, S, q
<1>6. v = [i \in 1 .. (NumFactors + 1) |-> m[q[i]]]
  BY <1>4 DEF Values
<1>7. v \in Seq(T) /\ Len(v) = NumFactors + 1
  BY <1>1, <1>6
<1> HIDE DEF T, v
<1>8. /\ Tail(v) \in Seq(T) /\ Len(Tail(v)) = NumFactors
      /\ \A k \in 1 .. NumFactors : Tail(v)[k] = v[k + 1]
  BY <1>1, <1>7
<1>9. ASSUME NEW k \in 1 .. NumFactors PROVE Tail(v)[k] = m[Weight(kind, id, k - 1)]
  <2>1. k + 1 \in 1 .. (NumFactors + 1) /\ k + 1 = 1 + k
    BY <1>1
  <2> QED
    BY <1>5, <1>6, <1>8, <2>1
<1>10. Tail(v) = [k \in 1 .. NumFactors |-> Tail(v)[k]]
  <2> DEFINE z == Tail(v)
  <2>1. z \in Seq(T) /\ Len(z) = NumFactors
    BY <1>8
  <2> HIDE DEF z
  <2>2. z = [k \in 1 .. NumFactors |-> z[k]]
    BY <2>1
  <2> QED
    BY <2>2 DEF z
<1> QED
  BY <1>9, <1>10 DEF v, q, FactorSeq

(* The biases of the users or items ids, and their factors. *)
BiasWords(g, kind, ids) ==
  FlattenSeq([i \in 1 .. Len(ids) |-> <<ids[i], g[Bias(kind, ids[i])]>>])

FactorWords(g, kind, ids) ==
  FlattenSeq([i \in 1 .. Len(ids) |->
                <<ids[i]>> \o Tail(Values(g, CellSeq(kind, ids[i])))])

LEMMA BiasWordsFacts ==
  ASSUME NEW S, NEW ids \in Seq(S), NEW g, NEW kind,
         \A i \in 1 .. Len(ids) : g[Bias(kind, ids[i])] \in S
  PROVE  /\ BiasWords(g, kind, ids) \in Seq(S)
         /\ Len(BiasWords(g, kind, ids)) = 2 * Len(ids)
         /\ \A i \in 1 .. Len(ids) :
              /\ 2 * i - 1 \in 1 .. 2 * Len(ids) /\ 2 * i \in 1 .. 2 * Len(ids)
              /\ BiasWords(g, kind, ids)[2 * i - 1] = ids[i]
              /\ BiasWords(g, kind, ids)[2 * i] = g[Bias(kind, ids[i])]
<1> DEFINE n == Len(ids)
           block(i) == <<ids[i], g[Bias(kind, ids[i])]>>
           seqs == [i \in 1 .. n |-> block(i)]
           q == U!FlattenSeq(seqs)
<1>1. n \in Nat /\ \A i \in 1 .. n : ids[i] \in S
  OBVIOUS
<1>2. ASSUME NEW i \in 1 .. n
      PROVE  /\ block(i) \in Seq(S) /\ Len(block(i)) = 2
             /\ block(i)[1] = ids[i] /\ block(i)[2] = g[Bias(kind, ids[i])]
  <2> DEFINE x == ids[i]
             y == g[Bias(kind, ids[i])]
  <2>1. x \in S /\ y \in S
    BY <1>1
  <2> HIDE DEF x, y
  <2>2. <<x, y>> \in Seq(S) /\ Len(<<x, y>>) = 2
    BY <2>1
  <2> QED
    BY <2>2 DEF x, y
<1> HIDE DEF block
<1>3. seqs \in Seq(Seq(S)) /\ Len(seqs) = n /\ \A i \in 1 .. n : seqs[i] = block(i)
  BY <1>1, <1>2
<1> HIDE DEF seqs
<1>4. \A i \in 1 .. Len(seqs) : Len(seqs[i]) = 2
  BY <1>2, <1>3
<1>5. /\ q \in Seq(S) /\ Len(q) = 2 * Len(seqs)
      /\ \A i \in 1 .. Len(seqs) : \A j \in 1 .. 2 :
           2 * (i - 1) + j \in 1 .. Len(q) /\ q[2 * (i - 1) + j] = seqs[i][j]
  <2>1. 2 \in Nat /\ seqs \in Seq(Seq(S))
    BY <1>3
  <2> QED
    BY <1>4, <2>1, U!FlattenBlocks, ZenonT(60)
<1>6. BiasWords(g, kind, ids) = q
  BY DEF BiasWords, FlattenSeq, U!FlattenSeq, seqs, block
<1> HIDE DEF q, n
<1>7. ASSUME NEW i \in 1 .. n
      PROVE  /\ 2 * i - 1 \in 1 .. 2 * n /\ 2 * i \in 1 .. 2 * n
             /\ q[2 * i - 1] = ids[i] /\ q[2 * i] = g[Bias(kind, ids[i])]
  <2>1. 2 * (i - 1) + 1 = 2 * i - 1 /\ 2 * (i - 1) + 2 = 2 * i
    OBVIOUS
  <2>2. /\ 2 * (i - 1) + 1 \in 1 .. Len(q) /\ q[2 * (i - 1) + 1] = seqs[i][1]
        /\ 2 * (i - 1) + 2 \in 1 .. Len(q) /\ q[2 * (i - 1) + 2] = seqs[i][2]
    <3>1. i \in 1 .. Len(seqs) /\ 1 \in 1 .. 2 /\ 2 \in 1 .. 2
      BY <1>3
    <3> QED
      BY <1>5, <3>1, Zenon
  <2> QED
    BY <1>2, <1>3, <1>5, <2>1, <2>2
<1> QED
  BY <1>3, <1>5, <1>6, <1>7 DEF n

LEMMA FactorWordsFacts ==
  ASSUME NEW S, NEW ids \in Seq(S), NEW g, NEW kind,
         \A i \in 1 .. Len(ids) : \A k \in Factors : g[Weight(kind, ids[i], k)] \in S
  PROVE  /\ FactorWords(g, kind, ids) \in Seq(S)
         /\ Len(FactorWords(g, kind, ids)) = (1 + NumFactors) * Len(ids)
         /\ \A i \in 1 .. Len(ids) :
              /\ (1 + NumFactors) * (i - 1) + 1 \in 1 .. Len(FactorWords(g, kind, ids))
              /\ FactorWords(g, kind, ids)[(1 + NumFactors) * (i - 1) + 1] = ids[i]
              /\ \A k \in Factors :
                   /\ (1 + NumFactors) * (i - 1) + (k + 2) \in 1 .. Len(FactorWords(g, kind, ids))
                   /\ FactorWords(g, kind, ids)[(1 + NumFactors) * (i - 1) + (k + 2)]
                        = g[Weight(kind, ids[i], k)]
<1> DEFINE n == Len(ids)
           b == 1 + NumFactors
           f(i) == [k \in 1 .. NumFactors |-> g[Weight(kind, ids[i], k - 1)]]
           block(i) == <<ids[i]>> \o f(i)
           seqs == [i \in 1 .. n |-> block(i)]
           q == U!FlattenSeq(seqs)
<1>1. n \in Nat /\ NumFactors \in Nat /\ \A i \in 1 .. n : ids[i] \in S
  BY NumFactorsAssumption
<1>2. ASSUME NEW i \in 1 .. n
      PROVE  /\ block(i) \in Seq(S) /\ Len(block(i)) = b /\ block(i)[1] = ids[i]
             /\ \A k \in Factors : block(i)[k + 2] = g[Weight(kind, ids[i], k)]
  <2> DEFINE a == <<ids[i]>>
             h == f(i)
  <2>1. a \in Seq(S) /\ Len(a) = 1 /\ a[1] = ids[i]
    <3> DEFINE x == ids[i]
    <3>1. x \in S
      BY <1>1
    <3> HIDE DEF x
    <3>2. <<x>> \in Seq(S) /\ Len(<<x>>) = 1
      BY <3>1
    <3> QED
      BY <3>2 DEF x
  <2>2. \A k \in 1 .. NumFactors : k - 1 \in Factors
    BY <1>1 DEF Factors
  <2>3. h \in Seq(S) /\ Len(h) = NumFactors
    <3>1. \A k \in 1 .. NumFactors : g[Weight(kind, ids[i], k - 1)] \in S
      BY <2>2
    <3> QED
      BY <1>1, <3>1
  <2>4. \A k \in Factors : k + 1 \in 1 .. NumFactors /\ h[k + 1] = g[Weight(kind, ids[i], k)]
    <3>1. \A k \in Factors : k + 1 \in 1 .. NumFactors /\ (k + 1) - 1 = k
      BY <1>1 DEF Factors
    <3> QED
      BY <3>1
  <2> HIDE DEF a, h
  <2>5. /\ a \o h \in Seq(S) /\ Len(a \o h) = Len(a) + Len(h)
        /\ \A j \in 1 .. Len(a) : (a \o h)[j] = a[j]
        /\ \A j \in 1 .. Len(h) : (a \o h)[Len(a) + j] = h[j]
    <3>1. a \in Seq(S) /\ h \in Seq(S)
      BY <2>1, <2>3
    <3> QED
      BY <3>1, Cat
  <2>6. \A k \in Factors : 1 + (k + 1) = k + 2
    BY DEF Factors
  <2>7. \A k \in Factors : (a \o h)[k + 2] = g[Weight(kind, ids[i], k)]
    BY <2>1, <2>3, <2>4, <2>5, <2>6
  <2>8. block(i) = a \o h
    BY DEF a, h
  <2>9. 1 \in 1 .. Len(a)
    BY <2>1
  <2> HIDE DEF block
  <2> QED
    BY <2>1, <2>3, <2>5, <2>7, <2>8, <2>9
<1> HIDE DEF block
<1>3. seqs \in Seq(Seq(S)) /\ Len(seqs) = n /\ \A i \in 1 .. n : seqs[i] = block(i)
  BY <1>1, <1>2
<1>4. FactorWords(g, kind, ids) = q
  <2>1. \A i : <<ids[i]>> \o Tail(Values(g, CellSeq(kind, ids[i]))) = block(i)
    <3> TAKE i
    <3>1. Tail(Values(g, CellSeq(kind, ids[i])))
            = FactorSeq(g, kind, ids[i])
      BY FactorsOf
    <3> QED
      BY <3>1, Zenon DEF block, FactorSeq
  <2>2. [i \in 1 .. n |-> <<ids[i]>> \o Tail(Values(g, CellSeq(kind, ids[i])))] = seqs
    BY <2>1
  <2>3. FactorWords(g, kind, ids) = FlattenSeq(seqs)
    BY <2>2 DEF FactorWords
  <2> HIDE DEF seqs
  <2> QED
    BY <2>3 DEF FlattenSeq, U!FlattenSeq
<1> HIDE DEF seqs
<1>5. \A i \in 1 .. Len(seqs) : Len(seqs[i]) = b
  BY <1>2, <1>3
<1>6. /\ q \in Seq(S) /\ Len(q) = b * Len(seqs)
      /\ \A i \in 1 .. Len(seqs) : \A j \in 1 .. b :
           b * (i - 1) + j \in 1 .. Len(q) /\ q[b * (i - 1) + j] = seqs[i][j]
  <2>1. b \in Nat /\ seqs \in Seq(Seq(S))
    BY <1>1, <1>3
  <2> HIDE DEF b
  <2> QED
    BY <1>5, <2>1, U!FlattenBlocks, Zenon
<1>7. 1 \in 1 .. b /\ \A k \in Factors : k + 2 \in 1 .. b
  BY <1>1 DEF Factors
<1> HIDE DEF q, n, b
<1>8. ASSUME NEW i \in 1 .. n
      PROVE  /\ b * (i - 1) + 1 \in 1 .. Len(q) /\ q[b * (i - 1) + 1] = ids[i]
             /\ \A k \in Factors : /\ b * (i - 1) + (k + 2) \in 1 .. Len(q)
                                   /\ q[b * (i - 1) + (k + 2)] = g[Weight(kind, ids[i], k)]
  <2>1. \A j \in 1 .. b : b * (i - 1) + j \in 1 .. Len(q) /\ q[b * (i - 1) + j] = block(i)[j]
    BY <1>3, <1>6
  <2>2. b * (i - 1) + 1 \in 1 .. Len(q) /\ q[b * (i - 1) + 1] = ids[i]
    BY <1>2, <1>7, <2>1, Zenon
  <2>3. ASSUME NEW k \in Factors
        PROVE  /\ b * (i - 1) + (k + 2) \in 1 .. Len(q)
               /\ q[b * (i - 1) + (k + 2)] = g[Weight(kind, ids[i], k)]
    BY <1>2, <1>7, <2>1, Zenon
  <2> QED
    BY <2>2, <2>3
<1> QED
  BY <1>3, <1>4, <1>6, <1>8 DEF n, b

(* Three and five sequences, one after the other. *)
Parts3(q, S, a, b, c) ==
  /\ q \in Seq(S) /\ Len(q) = Len(a) + Len(b) + Len(c)
  /\ \A i \in 1 .. Len(a) : q[i] = a[i]
  /\ \A i \in 1 .. Len(b) : q[Len(a) + i] = b[i]
  /\ \A i \in 1 .. Len(c) : q[Len(a) + Len(b) + i] = c[i]

LEMMA Cat3 ==
  ASSUME NEW S, NEW a \in Seq(S), NEW b \in Seq(S), NEW c \in Seq(S)
  PROVE  Parts3(a \o b \o c, S, a, b, c)
<1> DEFINE x == a \o b
           y == x \o c
<1>1. /\ x \in Seq(S) /\ Len(x) = Len(a) + Len(b)
      /\ \A i \in 1 .. Len(a) : x[i] = a[i]
      /\ \A i \in 1 .. Len(b) : x[Len(a) + i] = b[i]
  BY Cat
<1>2. Len(a) \in Nat /\ Len(b) \in Nat /\ Len(c) \in Nat
  OBVIOUS
<1> HIDE DEF x
<1>3. /\ y \in Seq(S) /\ Len(y) = Len(x) + Len(c)
      /\ \A i \in 1 .. Len(x) : y[i] = x[i]
      /\ \A i \in 1 .. Len(c) : y[Len(x) + i] = c[i]
  <2>1. x \in Seq(S)
    BY <1>1
  <2> QED
    BY <2>1, Cat
<1> HIDE DEF y
<1>4. ASSUME NEW i \in 1 .. Len(a) PROVE y[i] = a[i]
  BY <1>1, <1>2, <1>3
<1>5. ASSUME NEW i \in 1 .. Len(b) PROVE y[Len(a) + i] = b[i]
  <2>1. Len(a) + i \in 1 .. Len(x)
    BY <1>1, <1>2
  <2> QED
    BY <1>1, <1>3, <2>1
<1>6. ASSUME NEW i \in 1 .. Len(c) PROVE y[Len(a) + Len(b) + i] = c[i]
  BY <1>1, <1>3
<1>7. y \in Seq(S) /\ Len(y) = Len(a) + Len(b) + Len(c)
  BY <1>1, <1>3
<1>8. y = a \o b \o c
  BY DEF x, y
<1> QED
  BY <1>4, <1>5, <1>6, <1>7, <1>8 DEF Parts3

Parts5(q, S, a, b, c, d, e) ==
  /\ q \in Seq(S) /\ Len(q) = Len(a) + Len(b) + Len(c) + Len(d) + Len(e)
  /\ \A i \in 1 .. Len(a) : q[i] = a[i]
  /\ \A i \in 1 .. Len(b) : q[Len(a) + i] = b[i]
  /\ \A i \in 1 .. Len(c) : q[Len(a) + Len(b) + i] = c[i]
  /\ \A i \in 1 .. Len(d) : q[Len(a) + Len(b) + Len(c) + i] = d[i]
  /\ \A i \in 1 .. Len(e) : q[Len(a) + Len(b) + Len(c) + Len(d) + i] = e[i]

LEMMA Cat5 ==
  ASSUME NEW S, NEW a \in Seq(S), NEW b \in Seq(S), NEW c \in Seq(S), NEW d \in Seq(S),
         NEW e \in Seq(S)
  PROVE  Parts5(a \o b \o c \o d \o e, S, a, b, c, d, e)
<1> DEFINE x == a \o b \o c
           q == a \o b \o c \o d \o e
<1>1. /\ x \in Seq(S) /\ Len(x) = Len(a) + Len(b) + Len(c)
      /\ \A i \in 1 .. Len(a) : x[i] = a[i]
      /\ \A i \in 1 .. Len(b) : x[Len(a) + i] = b[i]
      /\ \A i \in 1 .. Len(c) : x[Len(a) + Len(b) + i] = c[i]
  <2>1. Parts3(x, S, a, b, c)
    BY Cat3
  <2> QED
    BY <2>1 DEF Parts3
<1>2. /\ Len(a) \in Nat /\ Len(b) \in Nat /\ Len(c) \in Nat /\ Len(d) \in Nat
      /\ Len(e) \in Nat
  OBVIOUS
<1>3. q = x \o d \o e
  OBVIOUS
<1> HIDE DEF x, q
<1>4. /\ q \in Seq(S) /\ Len(q) = Len(x) + Len(d) + Len(e)
      /\ \A i \in 1 .. Len(x) : q[i] = x[i]
      /\ \A i \in 1 .. Len(d) : q[Len(x) + i] = d[i]
      /\ \A i \in 1 .. Len(e) : q[Len(x) + Len(d) + i] = e[i]
  <2>1. x \in Seq(S)
    BY <1>1
  <2>2. Parts3(x \o d \o e, S, x, d, e)
    BY <2>1, Cat3
  <2> QED
    BY <1>3, <2>2 DEF Parts3
<1>5. ASSUME NEW i \in 1 .. Len(a) PROVE q[i] = a[i]
  BY <1>1, <1>2, <1>4
<1>6. ASSUME NEW i \in 1 .. Len(b) PROVE q[Len(a) + i] = b[i]
  <2>1. Len(a) + i \in 1 .. Len(x)
    BY <1>1, <1>2
  <2> QED
    BY <1>1, <1>4, <2>1
<1>7. ASSUME NEW i \in 1 .. Len(c) PROVE q[Len(a) + Len(b) + i] = c[i]
  <2>1. Len(a) + Len(b) + i \in 1 .. Len(x)
    BY <1>1, <1>2
  <2> QED
    BY <1>1, <1>4, <2>1
<1>8. ASSUME NEW i \in 1 .. Len(d) PROVE q[Len(a) + Len(b) + Len(c) + i] = d[i]
  BY <1>1, <1>4
<1>9. ASSUME NEW i \in 1 .. Len(e) PROVE q[Len(a) + Len(b) + Len(c) + Len(d) + i] = e[i]
  BY <1>1, <1>4
<1>10. q \in Seq(S) /\ Len(q) = Len(a) + Len(b) + Len(c) + Len(d) + Len(e)
  BY <1>1, <1>4
<1>11. Parts5(q, S, a, b, c, d, e)
  BY <1>5, <1>6, <1>7, <1>8, <1>9, <1>10 DEF Parts5
<1> QED
  BY <1>11 DEF q

(* The place of a factor, and which one is at a place. *)
LEMMA FactorPlaces ==
  ASSUME NEW n \in Nat, NEW i \in 1 .. (n * NumFactors)
  PROVE  /\ (i - 1) \div NumFactors \in 0 .. (n - 1)
         /\ (i - 1) % NumFactors \in Factors
         /\ i = NumFactors * ((i - 1) \div NumFactors) + ((i - 1) % NumFactors) + 1
<1> DEFINE f == NumFactors
           d == (i - 1) \div f
           m == (i - 1) % f
<1>1. f \in Nat \ {0} /\ n * f \in Nat /\ i \in Nat /\ i - 1 \in Nat /\ i - 1 < n * f
  BY NumFactorsAssumption, Product
<1>2. d \in Nat /\ m \in 0 .. (f - 1) /\ i - 1 = f * d + m
  BY <1>1
<1> HIDE DEF d, m
<1>3. f * d = d * f /\ d * f \in Nat
  BY <1>1, <1>2
<1>4. d * f < n * f
  <2> DEFINE x == f * d
             y == d * f
             z == n * f
  <2>1. x = y /\ x \in Nat /\ z \in Nat /\ i - 1 = x + m /\ i - 1 < z /\ m \in Nat
    BY <1>1, <1>2, <1>3
  <2> HIDE DEF x, y, z
  <2>2. y < z
    BY <1>1, <2>1
  <2> QED
    BY <2>2 DEF y, z
<1>5. d < n
  BY <1>1, <1>2, <1>4, ProductLess
<1>6. i = f * d + m + 1
  <2> DEFINE x == f * d
  <2>1. i - 1 = x + m /\ x \in Nat /\ m \in Nat
    BY <1>2, <1>3
  <2> HIDE DEF x
  <2>2. i = x + m + 1
    BY <2>1
  <2> QED
    BY <2>2 DEF x
<1> QED
  BY <1>2, <1>5, <1>6 DEF d, m, Factors

LEMMA PlaceOfFactor ==
  ASSUME NEW n \in Nat, NEW u \in 1 .. n, NEW k \in Factors
  PROVE  /\ NumFactors * (u - 1) + k + 1 \in 1 .. (n * NumFactors)
         /\ ((NumFactors * (u - 1) + k + 1) - 1) \div NumFactors = u - 1
         /\ ((NumFactors * (u - 1) + k + 1) - 1) % NumFactors = k
<1> DEFINE f == NumFactors
           x == f * (u - 1)
<1>1. f \in Nat \ {0} /\ k \in 0 .. (f - 1) /\ u \in Nat /\ u - 1 \in Nat
  BY NumFactorsAssumption DEF Factors
<1>2. x \in Nat /\ x = (u - 1) * f
  BY <1>1, Product
<1>3. ((u - 1) + 1) * f = (u - 1) * f + f /\ (u - 1) + 1 = u
  <2>1. ((u - 1) + 1) * f = (u - 1) * f + 1 * f
    BY <1>1, Distribute
  <2> QED
    BY <1>1, <2>1
<1>4. u * f <= n * f
  BY <1>1, ProductMonotone
<1>5. u * f = x + f
  BY <1>2, <1>3
<1>6. x + k + 1 \in 1 .. (n * f)
  <2> DEFINE y == u * f
             z == n * f
  <2>1. y \in Nat /\ z \in Nat /\ y = x + f /\ y <= z
    BY <1>1, <1>4, <1>5, Product
  <2> HIDE DEF x, y, z
  <2>2. x + k + 1 \in 1 .. z
    BY <1>1, <1>2, <2>1
  <2> QED
    BY <2>2 DEF z
<1>7. (f * (u - 1) + k) \div f = u - 1 /\ (f * (u - 1) + k) % f = k
  BY <1>1
<1>8. (x + k + 1) - 1 = f * (u - 1) + k
  BY <1>1, <1>2
<1> QED
  BY <1>6, <1>7, <1>8

(* Where the numbers of a gradient are in its message. *)
MFLayout(words, users, items, g) ==
  LET nu == Len(users)
      ni == Len(items)
      block == 1 + NumFactors
      from == 4 + 2 * (nu + ni)
  IN /\ Len(words) = 4 + (NumFactors + 3) * (nu + ni)
     /\ words[2] = nu /\ words[3] = ni
     /\ \A i \in 1 .. nu : /\ words[2 + 2 * i] = users[i]
                           /\ words[2 + 2 * i + 1] = g[Bias("user", users[i])]
     /\ \A i \in 1 .. ni : /\ words[2 + 2 * nu + 2 * i] = items[i]
                           /\ words[2 + 2 * nu + 2 * i + 1] = g[Bias("item", items[i])]
     /\ \A i \in 1 .. nu :
          /\ words[from + block * (i - 1)] = users[i]
          /\ \A k \in Factors : words[from + block * (i - 1) + 1 + k]
                                  = g[Weight("user", users[i], k)]
     /\ \A i \in 1 .. ni :
          /\ words[from + nu * block + block * (i - 1)] = items[i]
          /\ \A k \in Factors : words[from + nu * block + block * (i - 1) + 1 + k]
                                  = g[Weight("item", items[i], k)]

LEMMA MFWordsLayout ==
  ASSUME NEW A, NEW users \in Seq(A), NEW items \in Seq(A), NEW g
  PROVE  MFLayout(MFGradientWords(g, users, items), users, items, g)
<1> DEFINE nu == Len(users)
           ni == Len(items)
           block == 1 + NumFactors
           S == A \union {MagicNumber, nu, ni, EndMagic}
                  \union {g[Bias(k, x)] : k \in {"user", "item"}, x \in A}
                  \union {g[Weight(k, x, j)] : k \in {"user", "item"}, x \in A, j \in Factors}
           p1 == <<MagicNumber, nu, ni>>
           p2 == BiasWords(g, "user", users)
           p3 == BiasWords(g, "item", items)
           p4 == FactorWords(g, "user", users)
           p5 == FactorWords(g, "item", items)
           q == p1 \o p2 \o p3 \o p4 \o p5
           words == MFGradientWords(g, users, items)
<1>1. /\ nu \in Nat /\ ni \in Nat /\ NumFactors \in Nat
      /\ \A i \in 1 .. nu : users[i] \in A
      /\ \A i \in 1 .. ni : items[i] \in A
  BY NumFactorsAssumption
<1>2. /\ users \in Seq(S) /\ items \in Seq(S) /\ EndMagic \in S
      /\ p1 \in Seq(S) /\ Len(p1) = 3 /\ p1[2] = nu /\ p1[3] = ni
  <2>1. A \subseteq S /\ MagicNumber \in S /\ nu \in S /\ ni \in S /\ EndMagic \in S
    OBVIOUS
  <2> HIDE DEF S, nu, ni
  <2> QED
    BY <2>1
<1>3. /\ \A i \in 1 .. nu : g[Bias("user", users[i])] \in S
      /\ \A i \in 1 .. ni : g[Bias("item", items[i])] \in S
  BY <1>1
<1>4. /\ \A i \in 1 .. nu : \A k \in Factors : g[Weight("user", users[i], k)] \in S
      /\ \A i \in 1 .. ni : \A k \in Factors : g[Weight("item", items[i], k)] \in S
  BY <1>1
<1>5. words = q \o <<EndMagic>>
  <2>1. p2 = FlattenSeq([i \in 1 .. Len(users) |-> <<users[i], g[Bias("user", users[i])]>>])
    BY DEF BiasWords
  <2>2. p3 = FlattenSeq([i \in 1 .. Len(items) |-> <<items[i], g[Bias("item", items[i])]>>])
    BY DEF BiasWords
  <2>3. p4 = FlattenSeq([i \in 1 .. Len(users) |->
                           <<users[i]>> \o Tail(Values(g, CellSeq("user", users[i])))])
    BY DEF FactorWords
  <2>4. p5 = FlattenSeq([i \in 1 .. Len(items) |->
                           <<items[i]>> \o Tail(Values(g, CellSeq("item", items[i])))])
    BY DEF FactorWords
  <2> HIDE DEF p2, p3, p4, p5
  <2> QED
    BY <2>1, <2>2, <2>3, <2>4 DEF MFGradientWords
<1> HIDE DEF S, words
<1>6. /\ p2 \in Seq(S) /\ Len(p2) = 2 * nu
      /\ \A i \in 1 .. nu : /\ 2 * i - 1 \in 1 .. Len(p2) /\ 2 * i \in 1 .. Len(p2)
                            /\ p2[2 * i - 1] = users[i]
                            /\ p2[2 * i] = g[Bias("user", users[i])]
  <2>1. /\ users \in Seq(S) /\ \A i \in 1 .. Len(users) : g[Bias("user", users[i])] \in S
    BY <1>2, <1>3
  <2>2. /\ p2 \in Seq(S) /\ Len(p2) = 2 * Len(users)
        /\ \A i \in 1 .. Len(users) :
             /\ 2 * i - 1 \in 1 .. 2 * Len(users) /\ 2 * i \in 1 .. 2 * Len(users)
             /\ p2[2 * i - 1] = users[i]
             /\ p2[2 * i] = g[Bias("user", users[i])]
    BY <2>1, BiasWordsFacts
  <2> HIDE DEF p2
  <2> QED
    BY <2>2
<1>7. /\ p3 \in Seq(S) /\ Len(p3) = 2 * ni
      /\ \A i \in 1 .. ni : /\ 2 * i - 1 \in 1 .. Len(p3) /\ 2 * i \in 1 .. Len(p3)
                            /\ p3[2 * i - 1] = items[i]
                            /\ p3[2 * i] = g[Bias("item", items[i])]
  <2>1. /\ items \in Seq(S) /\ \A i \in 1 .. Len(items) : g[Bias("item", items[i])] \in S
    BY <1>2, <1>3
  <2>2. /\ p3 \in Seq(S) /\ Len(p3) = 2 * Len(items)
        /\ \A i \in 1 .. Len(items) :
             /\ 2 * i - 1 \in 1 .. 2 * Len(items) /\ 2 * i \in 1 .. 2 * Len(items)
             /\ p3[2 * i - 1] = items[i]
             /\ p3[2 * i] = g[Bias("item", items[i])]
    BY <2>1, BiasWordsFacts
  <2> HIDE DEF p3
  <2> QED
    BY <2>2
<1>8. /\ p4 \in Seq(S) /\ Len(p4) = block * nu
      /\ \A i \in 1 .. nu :
           /\ block * (i - 1) + 1 \in 1 .. Len(p4) /\ p4[block * (i - 1) + 1] = users[i]
           /\ \A k \in Factors : /\ block * (i - 1) + (k + 2) \in 1 .. Len(p4)
                                 /\ p4[block * (i - 1) + (k + 2)] = g[Weight("user", users[i], k)]
  BY <1>2, <1>4, FactorWordsFacts
<1>9. /\ p5 \in Seq(S) /\ Len(p5) = block * ni
      /\ \A i \in 1 .. ni :
           /\ block * (i - 1) + 1 \in 1 .. Len(p5) /\ p5[block * (i - 1) + 1] = items[i]
           /\ \A k \in Factors : /\ block * (i - 1) + (k + 2) \in 1 .. Len(p5)
                                 /\ p5[block * (i - 1) + (k + 2)] = g[Weight("item", items[i], k)]
  BY <1>2, <1>4, FactorWordsFacts
<1> HIDE DEF p1, p2, p3, p4, p5, block, nu, ni
<1>10. block \in Nat /\ block * nu \in Nat /\ block * ni \in Nat /\ block * nu = nu * block
  BY <1>1, Product DEF block
<1>11. /\ q \in Seq(S) /\ Len(q) = Len(p1) + Len(p2) + Len(p3) + Len(p4) + Len(p5)
       /\ \A i \in 1 .. Len(p1) : q[i] = p1[i]
       /\ \A i \in 1 .. Len(p2) : q[Len(p1) + i] = p2[i]
       /\ \A i \in 1 .. Len(p3) : q[Len(p1) + Len(p2) + i] = p3[i]
       /\ \A i \in 1 .. Len(p4) : q[Len(p1) + Len(p2) + Len(p3) + i] = p4[i]
       /\ \A i \in 1 .. Len(p5) : q[Len(p1) + Len(p2) + Len(p3) + Len(p4) + i] = p5[i]
  <2>1. p1 \in Seq(S) /\ p2 \in Seq(S) /\ p3 \in Seq(S) /\ p4 \in Seq(S) /\ p5 \in Seq(S)
    BY <1>2, <1>6, <1>7, <1>8, <1>9
  <2>2. Parts5(q, S, p1, p2, p3, p4, p5)
    BY <2>1, Cat5, Zenon DEF q
  <2> HIDE DEF q
  <2> QED
    BY <2>2 DEF Parts5
<1> HIDE DEF q
<1>12. Len(words) = Len(q) + 1 /\ \A i \in 1 .. Len(q) : words[i] = q[i]
  <2>1. q \in Seq(S) /\ <<EndMagic>> \in Seq(S) /\ Len(<<EndMagic>>) = 1
    BY <1>2, <1>11
  <2> QED
    BY <1>5, <2>1, Cat
<1> DEFINE n4 == block * nu
           n5 == block * ni
           n == 3 + 2 * nu + 2 * ni
<1>13. /\ n4 \in Nat /\ n5 \in Nat /\ Len(q) = n + n4 + n5
       /\ \A i \in 1 .. 3 : q[i] = p1[i]
       /\ \A i \in 1 .. 2 * nu : q[3 + i] = p2[i]
       /\ \A i \in 1 .. 2 * ni : q[3 + 2 * nu + i] = p3[i]
       /\ \A i \in 1 .. n4 : q[n + i] = p4[i]
       /\ \A i \in 1 .. n5 : q[n + n4 + i] = p5[i]
  BY <1>2, <1>6, <1>7, <1>8, <1>9, <1>10, <1>11
<1> HIDE DEF n4, n5, n
<1>14. /\ \A i \in 1 .. 3 : words[i] = p1[i]
       /\ \A i \in 1 .. 2 * nu : words[3 + i] = p2[i]
       /\ \A i \in 1 .. 2 * ni : words[3 + 2 * nu + i] = p3[i]
       /\ \A i \in 1 .. n4 : words[n + i] = p4[i]
       /\ \A i \in 1 .. n5 : words[n + n4 + i] = p5[i]
  <2>1. n = 3 + 2 * nu + 2 * ni /\ n \in Nat
    BY <1>1 DEF n
  <2>m. n4 \in Nat /\ n5 \in Nat /\ Len(q) = n + n4 + n5
    BY <1>13
  <2>k. nu \in Nat /\ ni \in Nat
    BY <1>1
  <2>l. Len(q) \in Nat /\ 3 + 2 * nu + 2 * ni <= Len(q)
    BY <2>k, <2>m, <2>1
  <2>2. \A i \in 1 .. 3 : i \in 1 .. Len(q)
    BY <2>k, <2>l
  <2>3. \A i \in 1 .. 2 * nu : 3 + i \in 1 .. Len(q)
    BY <2>k, <2>l
  <2>4. \A i \in 1 .. 2 * ni : 3 + 2 * nu + i \in 1 .. Len(q)
    BY <2>k, <2>l
  <2>5. \A i \in 1 .. n4 : n + i \in 1 .. Len(q)
    BY <2>m, <2>1
  <2>6. \A i \in 1 .. n5 : n + n4 + i \in 1 .. Len(q)
    BY <2>m, <2>1
  <2> QED
    BY <1>12, <1>13, <2>2, <2>3, <2>4, <2>5, <2>6
<1>15. words[2] = nu /\ words[3] = ni
  BY <1>2, <1>14
<1>16. ASSUME NEW i \in 1 .. nu
       PROVE  words[2 + 2 * i] = users[i] /\ words[2 + 2 * i + 1] = g[Bias("user", users[i])]
  <2>1. 3 + (2 * i - 1) = 2 + 2 * i /\ 3 + 2 * i = 2 + 2 * i + 1
    OBVIOUS
  <2> QED
    BY <1>6, <1>14, <2>1
<1>17. ASSUME NEW i \in 1 .. ni
       PROVE  /\ words[2 + 2 * nu + 2 * i] = items[i]
              /\ words[2 + 2 * nu + 2 * i + 1] = g[Bias("item", items[i])]
  <2>1. /\ 3 + 2 * nu + (2 * i - 1) = 2 + 2 * nu + 2 * i
        /\ 3 + 2 * nu + 2 * i = 2 + 2 * nu + 2 * i + 1
    BY <1>1
  <2> QED
    BY <1>7, <1>14, <2>1
<1> DEFINE from == 4 + 2 * (nu + ni)
<1>18. from = n + 1 /\ n \in Nat
  BY <1>1 DEF n
<1> HIDE DEF from
<1>19. ASSUME NEW i \in 1 .. nu
       PROVE  /\ words[from + block * (i - 1)] = users[i]
              /\ \A k \in Factors : words[from + block * (i - 1) + 1 + k]
                                      = g[Weight("user", users[i], k)]
  <2> DEFINE x == block * (i - 1)
  <2>1. x \in Nat
    <3>1. i - 1 \in Nat
      BY <1>1
    <3> QED
      BY <1>10, <3>1, Product
  <2>2. Len(p4) = n4
    BY <1>8 DEF n4
  <2>3. words[n + (x + 1)] = users[i]
    BY <1>8, <1>14, <2>2
  <2>4. \A k \in Factors : words[n + (x + (k + 2))] = g[Weight("user", users[i], k)]
    BY <1>8, <1>14, <2>2
  <2> HIDE DEF x
  <2>5. n + (x + 1) = from + x /\ \A k \in Factors : n + (x + (k + 2)) = from + x + 1 + k
    BY <1>18, <2>1 DEF Factors
  <2> QED
    BY <2>3, <2>4, <2>5 DEF x
<1>20. ASSUME NEW i \in 1 .. ni
       PROVE  /\ words[from + nu * block + block * (i - 1)] = items[i]
              /\ \A k \in Factors : words[from + nu * block + block * (i - 1) + 1 + k]
                                      = g[Weight("item", items[i], k)]
  <2> DEFINE x == block * (i - 1)
  <2>1. x \in Nat
    <3>1. i - 1 \in Nat
      BY <1>1
    <3> QED
      BY <1>10, <3>1, Product
  <2>2. Len(p5) = n5 /\ nu * block = n4
    BY <1>9, <1>10 DEF n4, n5
  <2>3. words[n + n4 + (x + 1)] = items[i]
    BY <1>9, <1>14, <2>2
  <2>4. \A k \in Factors : words[n + n4 + (x + (k + 2))] = g[Weight("item", items[i], k)]
    BY <1>9, <1>14, <2>2
  <2> HIDE DEF x
  <2>5. /\ n + n4 + (x + 1) = from + n4 + x
        /\ \A k \in Factors : n + n4 + (x + (k + 2)) = from + n4 + x + 1 + k
    <3>1. n4 \in Nat /\ n \in Nat /\ from = n + 1 /\ x \in Nat
      BY <1>13, <1>18, <2>1
    <3>2. Factors \subseteq Int
      BY DEF Factors
    <3> QED
      BY <3>1, <3>2
  <2> QED
    BY <2>2, <2>3, <2>4, <2>5 DEF x
<1>21. Len(words) = 4 + (NumFactors + 3) * (nu + ni)
  <2>1. /\ n4 + n5 = block * (nu + ni) /\ (NumFactors + 3) * (nu + ni) \in Nat
        /\ (NumFactors + 3) * (nu + ni) = block * (nu + ni) + 2 * (nu + ni)
    <3>1. \A f, x, y \in Nat : /\ (1 + f) * x + (1 + f) * y = (1 + f) * (x + y)
                              /\ (f + 3) * (x + y) \in Nat
                              /\ (f + 3) * (x + y) = (1 + f) * (x + y) + 2 * (x + y)
      OBVIOUS
    <3> QED
      BY <1>1, <3>1 DEF n4, n5, block
  <2> DEFINE wide == (NumFactors + 3) * (nu + ni)
             part == block * (nu + ni)
  <2>2. n4 + n5 = part /\ wide \in Nat /\ wide = part + 2 * (nu + ni)
    BY <2>1
  <2>3. n = 3 + 2 * nu + 2 * ni /\ nu \in Nat /\ ni \in Nat
    BY <1>1 DEF n
  <2>4. Len(words) = n + n4 + n5 + 1 /\ n4 \in Nat /\ n5 \in Nat
    BY <1>12, <1>13
  <2> HIDE DEF wide, part, nu, ni, words
  <2>5. Len(words) = 4 + wide
    <3>1. part \in Int
      BY <2>2, <2>4
    <3>2. n + n4 + n5 + 1 = n + part + 1
      BY <2>2, <2>3, <2>4, <3>1
    <3> QED
      BY <2>2, <2>3, <2>4, <3>1, <3>2
  <2> QED
    BY <2>5 DEF wide
<1> QED
  BY <1>15, <1>16, <1>17, <1>19, <1>20, <1>21, Zenon DEF MFLayout, words, from, nu, ni, block

(* The entries that the server reads from such a message. *)
Entry(g, c) == <<c, g[c]>>
FactorCell(kind, ids, i) ==
  Weight(kind, ids[((i - 1) \div NumFactors) + 1], (i - 1) % NumFactors)
BiasEntries(g, kind, ids) == [i \in 1 .. Len(ids) |-> Entry(g, Bias(kind, ids[i]))]
FactorEntries(g, kind, ids) ==
  [i \in 1 .. (Len(ids) * NumFactors) |-> Entry(g, FactorCell(kind, ids, i))]
MFEntries(g, users, items) ==
  BiasEntries(g, "user", users) \o BiasEntries(g, "item", items)
    \o FactorEntries(g, "user", users) \o FactorEntries(g, "item", items)

(* The factors that start at from. *)
LoadedFactors(words, kind, from, n) ==
  [i \in 1 .. (n * NumFactors) |->
     LET at == from + (1 + NumFactors) * ((i - 1) \div NumFactors) IN
     <<Weight(kind, words[at], (i - 1) % NumFactors), words[at + 1 + ((i - 1) % NumFactors)]>>]

FactorsAt(words, from, kind, ids, g) ==
  \A i \in 1 .. Len(ids) :
    /\ words[from + (1 + NumFactors) * (i - 1)] = ids[i]
    /\ \A k \in Factors : words[from + (1 + NumFactors) * (i - 1) + 1 + k]
                            = g[Weight(kind, ids[i], k)]

LEMMA FactorsLoaded ==
  ASSUME NEW words, NEW g, NEW kind, NEW ids, Len(ids) \in Nat, NEW from,
         FactorsAt(words, from, kind, ids, g)
  PROVE  LoadedFactors(words, kind, from, Len(ids)) = FactorEntries(g, kind, ids)
<1> DEFINE n == Len(ids)
<1>1. ASSUME NEW i \in 1 .. (n * NumFactors)
      PROVE  <<Weight(kind, words[from + (1 + NumFactors) * ((i - 1) \div NumFactors)],
                      (i - 1) % NumFactors),
               words[from + (1 + NumFactors) * ((i - 1) \div NumFactors) + 1
                       + ((i - 1) % NumFactors)]>>
               = Entry(g, FactorCell(kind, ids, i))
  <2> DEFINE d == (i - 1) \div NumFactors
             m == (i - 1) % NumFactors
  <2>1. d \in 0 .. (n - 1) /\ m \in Factors
    BY FactorPlaces
  <2> HIDE DEF d, m
  <2>2. d + 1 \in 1 .. n /\ (d + 1) - 1 = d
    BY <2>1
  <2>3. words[from + (1 + NumFactors) * d] = ids[d + 1]
    BY <2>2 DEF FactorsAt
  <2>4. words[from + (1 + NumFactors) * d + 1 + m] = g[Weight(kind, ids[d + 1], m)]
    BY <2>1, <2>2 DEF FactorsAt
  <2>5. <<Weight(kind, words[from + (1 + NumFactors) * d], m),
          words[from + (1 + NumFactors) * d + 1 + m]>>
          = Entry(g, Weight(kind, ids[d + 1], m))
    BY <2>3, <2>4, Zenon DEF Entry
  <2> QED
    BY <2>5 DEF FactorCell, d, m
<1> QED
  BY <1>1, Zenon DEF LoadedFactors, FactorEntries

LEMMA MFLoaded ==
  ASSUME NEW words, NEW g, NEW users, NEW items, Len(users) \in Nat, Len(items) \in Nat,
         MFLayout(words, users, items, g)
  PROVE  loadMFGradient(words) = MFEntries(g, users, items)
<1> DEFINE nu == Len(users)
           ni == Len(items)
           block == 1 + NumFactors
           from == 4 + 2 * (nu + ni)
           a == [i \in 1 .. nu |-> <<Bias("user", words[2 + 2 * i]), words[2 + 2 * i + 1]>>]
           b == [i \in 1 .. ni |-> <<Bias("item", words[2 + 2 * nu + 2 * i]),
                                     words[2 + 2 * nu + 2 * i + 1]>>]
<1>1. /\ words[2] = nu /\ words[3] = ni
      /\ \A i \in 1 .. nu : /\ words[2 + 2 * i] = users[i]
                            /\ words[2 + 2 * i + 1] = g[Bias("user", users[i])]
      /\ \A i \in 1 .. ni : /\ words[2 + 2 * nu + 2 * i] = items[i]
                            /\ words[2 + 2 * nu + 2 * i + 1] = g[Bias("item", items[i])]
  BY DEF MFLayout
<1>2. a = BiasEntries(g, "user", users)
  BY <1>1, Zenon DEF BiasEntries, Entry
<1>3. b = BiasEntries(g, "item", items)
  BY <1>1, Zenon DEF BiasEntries, Entry
<1>4. LoadedFactors(words, "user", from, nu) = FactorEntries(g, "user", users)
  <2>1. FactorsAt(words, from, "user", users, g)
    BY DEF MFLayout, FactorsAt
  <2> QED
    BY <2>1, FactorsLoaded
<1>5. LoadedFactors(words, "item", from + nu * block, ni) = FactorEntries(g, "item", items)
  <2>1. FactorsAt(words, from + nu * block, "item", items, g)
    BY DEF MFLayout, FactorsAt
  <2> QED
    BY <2>1, FactorsLoaded
<1>6. loadMFGradient(words)
        = a \o b \o LoadedFactors(words, "user", from, nu)
            \o LoadedFactors(words, "item", from + nu * block, ni)
  BY <1>1, Zenon DEF loadMFGradient, LoadedFactors
<1> QED
  BY <1>2, <1>3, <1>4, <1>5, <1>6, Zenon DEF MFEntries

Parts4(q, S, a, b, c, d) ==
  /\ q \in Seq(S) /\ Len(q) = Len(a) + Len(b) + Len(c) + Len(d)
  /\ \A i \in 1 .. Len(a) : q[i] = a[i]
  /\ \A i \in 1 .. Len(b) : q[Len(a) + i] = b[i]
  /\ \A i \in 1 .. Len(c) : q[Len(a) + Len(b) + i] = c[i]
  /\ \A i \in 1 .. Len(d) : q[Len(a) + Len(b) + Len(c) + i] = d[i]

LEMMA Cat4 ==
  ASSUME NEW S, NEW a \in Seq(S), NEW b \in Seq(S), NEW c \in Seq(S), NEW d \in Seq(S)
  PROVE  Parts4(a \o b \o c \o d, S, a, b, c, d)
<1> DEFINE x == a \o b
           q == x \o c \o d
<1>1. /\ x \in Seq(S) /\ Len(x) = Len(a) + Len(b)
      /\ \A i \in 1 .. Len(a) : x[i] = a[i]
      /\ \A i \in 1 .. Len(b) : x[Len(a) + i] = b[i]
  BY Cat
<1>2. Len(a) \in Nat /\ Len(b) \in Nat /\ Len(c) \in Nat /\ Len(d) \in Nat
  OBVIOUS
<1> HIDE DEF x
<1>3. Parts3(q, S, x, c, d)
  <2>1. x \in Seq(S)
    BY <1>1
  <2> QED
    BY <2>1, Cat3
<1> HIDE DEF q
<1>4. ASSUME NEW i \in 1 .. Len(a) PROVE q[i] = a[i]
  BY <1>1, <1>2, <1>3 DEF Parts3
<1>5. ASSUME NEW i \in 1 .. Len(b) PROVE q[Len(a) + i] = b[i]
  <2>1. Len(a) + i \in 1 .. Len(x)
    BY <1>1, <1>2
  <2> QED
    BY <1>1, <1>3, <2>1 DEF Parts3
<1>6. ASSUME NEW i \in 1 .. Len(c) PROVE q[Len(a) + Len(b) + i] = c[i]
  BY <1>1, <1>3 DEF Parts3
<1>7. ASSUME NEW i \in 1 .. Len(d) PROVE q[Len(a) + Len(b) + Len(c) + i] = d[i]
  BY <1>1, <1>3 DEF Parts3
<1>8. q \in Seq(S) /\ Len(q) = Len(a) + Len(b) + Len(c) + Len(d)
  BY <1>1, <1>3 DEF Parts3
<1>9. Parts4(q, S, a, b, c, d)
  BY <1>4, <1>5, <1>6, <1>7, <1>8 DEF Parts4
<1> QED
  BY <1>9 DEF q, x

(* Each bias and each factor of ids is a cell. *)
LEMMA BiasInCells ==
  ASSUME NEW users, NEW items, NEW id
  PROVE  /\ id \in users => Bias("user", id) \in Cells(users, items)
         /\ id \in items => Bias("item", id) \in Cells(users, items)
<1>1. 0 \in 0 .. NumFactors
  BY NumFactorsAssumption
<1>2. \A kind : Bias(kind, id) = <<kind, id, 0>>
  BY DEF Bias
<1> QED
  BY <1>1, <1>2, CellForms

LEMMA WeightInCells ==
  ASSUME NEW users, NEW items, NEW id, NEW k \in Factors
  PROVE  /\ id \in users => Weight("user", id, k) \in Cells(users, items)
         /\ id \in items => Weight("item", id, k) \in Cells(users, items)
<1>1. k + 1 \in 0 .. NumFactors
  BY NumFactorsAssumption DEF Factors
<1>2. \A kind : Weight(kind, id, k) = <<kind, id, k + 1>>
  BY DEF Weight
<1> QED
  BY <1>1, <1>2, CellForms

(* The cell at place i is one of those factors. *)
FactorPlaced(kind, ids, i) ==
  \E d \in 1 .. Len(ids), k \in Factors :
    /\ FactorCell(kind, ids, i) = Weight(kind, ids[d], k)
    /\ i = NumFactors * (d - 1) + k + 1

LEMMA FactorCellFacts ==
  ASSUME NEW kind, NEW ids, Len(ids) \in Nat, NEW i \in 1 .. (Len(ids) * NumFactors)
  PROVE  FactorPlaced(kind, ids, i)
<1> DEFINE d == (i - 1) \div NumFactors
           k == (i - 1) % NumFactors
<1>1. d \in 0 .. (Len(ids) - 1) /\ k \in Factors /\ i = NumFactors * d + k + 1
  BY FactorPlaces
<1>2. FactorCell(kind, ids, i) = Weight(kind, ids[d + 1], k)
  BY DEF FactorCell
<1> HIDE DEF d, k
<1>3. d + 1 \in 1 .. Len(ids) /\ (d + 1) - 1 = d
  BY <1>1
<1> QED
  BY <1>1, <1>2, <1>3 DEF FactorPlaced

LEMMA FactorCellAt ==
  ASSUME NEW kind, NEW ids, Len(ids) \in Nat, NEW d \in 1 .. Len(ids), NEW k \in Factors
  PROVE  \E i \in 1 .. (Len(ids) * NumFactors) :
           FactorCell(kind, ids, i) = Weight(kind, ids[d], k)
<1> DEFINE i == NumFactors * (d - 1) + k + 1
<1>1. /\ i \in 1 .. (Len(ids) * NumFactors)
      /\ (i - 1) \div NumFactors = d - 1 /\ (i - 1) % NumFactors = k
  BY PlaceOfFactor
<1> HIDE DEF i
<1>2. (d - 1) + 1 = d
  OBVIOUS
<1> QED
  BY <1>1, <1>2 DEF FactorCell

(* The entries are the cells of the gradient, each of them once.  The place   *)
(* of a cell among them tells that none comes twice.                          *)
LEMMA MFEntriesEnumerate ==
  ASSUME NEW users, U!IsSeq(users), Distinct(users), users # <<>>,
         NEW items, U!IsSeq(items), Distinct(items), NEW g,
         DOMAIN g = Cells({users[i] : i \in 1 .. Len(users)}, {items[i] : i \in 1 .. Len(items)})
  PROVE  /\ U!IsSeq(MFEntries(g, users, items)) /\ MFEntries(g, users, items) # <<>>
         /\ Enumerates(MFEntries(g, users, items), g)
<1> DEFINE nu == Len(users)
           ni == Len(items)
           nuf == nu * NumFactors
           nif == ni * NumFactors
           us == {users[i] : i \in 1 .. nu}
           is == {items[i] : i \in 1 .. ni}
           C == DOMAIN g
           S == {Entry(g, c) : c \in C}
           a == BiasEntries(g, "user", users)
           b == BiasEntries(g, "item", items)
           c == FactorEntries(g, "user", users)
           d == FactorEntries(g, "item", items)
           q == MFEntries(g, users, items)
<1>1. nu \in Nat /\ ni \in Nat /\ nuf \in Nat /\ nif \in Nat /\ NumFactors \in Nat /\ nu # 0
  BY U!SeqLength, Product, NumFactorsAssumption
<1>2. C = Cells(us, is) /\ (\A i \in 1 .. nu : users[i] \in us)
      /\ (\A i \in 1 .. ni : items[i] \in is)
  OBVIOUS
<1> HIDE DEF C, S
<1>3. /\ \A i \in 1 .. nu : Bias("user", users[i]) \in C
      /\ \A i \in 1 .. ni : Bias("item", items[i]) \in C
  BY <1>2, BiasInCells
<1>4. /\ \A i \in 1 .. nu : \A k \in Factors : Weight("user", users[i], k) \in C
      /\ \A i \in 1 .. ni : \A k \in Factors : Weight("item", items[i], k) \in C
  BY <1>2, WeightInCells
<1> HIDE DEF us, is
<1>5. /\ \A i \in 1 .. nuf : FactorCell("user", users, i) \in C
      /\ \A i \in 1 .. nif : FactorCell("item", items, i) \in C
  <2>1. ASSUME NEW i \in 1 .. nuf PROVE FactorCell("user", users, i) \in C
    <3>1. \E e \in 1 .. nu, k \in Factors : FactorCell("user", users, i) = Weight("user", users[e], k)
      <4>1. FactorPlaced("user", users, i)
        BY <1>1, FactorCellFacts
      <4> QED
        BY <4>1 DEF FactorPlaced
    <3>2. PICK e \in 1 .. nu, k \in Factors : FactorCell("user", users, i) = Weight("user", users[e], k)
      BY <3>1
    <3> QED
      BY <1>4, <3>2
  <2>2. ASSUME NEW i \in 1 .. nif PROVE FactorCell("item", items, i) \in C
    <3>1. \E e \in 1 .. ni, k \in Factors : FactorCell("item", items, i) = Weight("item", items[e], k)
      <4>1. FactorPlaced("item", items, i)
        BY <1>1, FactorCellFacts
      <4> QED
        BY <4>1 DEF FactorPlaced
    <3>2. PICK e \in 1 .. ni, k \in Factors : FactorCell("item", items, i) = Weight("item", items[e], k)
      BY <3>1
    <3> QED
      BY <1>4, <3>2
  <2> QED
    BY <2>1, <2>2
<1>6. \A x \in C : Entry(g, x) \in S
  BY DEF S
<1>7. /\ a \in Seq(S) /\ Len(a) = nu /\ \A i \in 1 .. nu : a[i] = Entry(g, Bias("user", users[i]))
      /\ b \in Seq(S) /\ Len(b) = ni /\ \A i \in 1 .. ni : b[i] = Entry(g, Bias("item", items[i]))
  BY <1>1, <1>3, <1>6 DEF BiasEntries
<1>8. /\ c \in Seq(S) /\ Len(c) = nuf
      /\ \A i \in 1 .. nuf : c[i] = Entry(g, FactorCell("user", users, i))
  <2> HIDE DEF nuf
  <2>1. c = [i \in 1 .. nuf |-> Entry(g, FactorCell("user", users, i))]
    BY DEF FactorEntries, nuf
  <2> HIDE DEF c
  <2> QED
    BY <1>1, <1>5, <1>6, <2>1
<1>9. /\ d \in Seq(S) /\ Len(d) = nif
      /\ \A i \in 1 .. nif : d[i] = Entry(g, FactorCell("item", items, i))
  <2> HIDE DEF nif
  <2>1. d = [i \in 1 .. nif |-> Entry(g, FactorCell("item", items, i))]
    BY DEF FactorEntries, nif
  <2> HIDE DEF d
  <2> QED
    BY <1>1, <1>5, <1>6, <2>1
<1>10. Parts4(q, S, a, b, c, d)
  <2>1. a \in Seq(S) /\ b \in Seq(S) /\ c \in Seq(S) /\ d \in Seq(S)
    BY <1>7, <1>8, <1>9
  <2> QED
    BY <2>1, Cat4, Zenon DEF MFEntries
<1> HIDE DEF a, b, c, d, q, nu, ni, nuf, nif
<1>11. /\ q \in Seq(S) /\ Len(q) = nu + ni + nuf + nif
       /\ \A i \in 1 .. nu : q[i] = Entry(g, Bias("user", users[i]))
       /\ \A i \in 1 .. ni : q[nu + i] = Entry(g, Bias("item", items[i]))
       /\ \A i \in 1 .. nuf : q[nu + ni + i] = Entry(g, FactorCell("user", users, i))
       /\ \A i \in 1 .. nif : q[nu + ni + nuf + i] = Entry(g, FactorCell("item", items, i))
  <2>1. Len(a) = nu /\ Len(b) = ni /\ Len(c) = nuf /\ Len(d) = nif
    BY <1>7, <1>8, <1>9
  <2>2. /\ q \in Seq(S) /\ Len(q) = nu + ni + nuf + nif
        /\ \A i \in 1 .. nu : q[i] = a[i]
        /\ \A i \in 1 .. ni : q[nu + i] = b[i]
        /\ \A i \in 1 .. nuf : q[nu + ni + i] = c[i]
        /\ \A i \in 1 .. nif : q[nu + ni + nuf + i] = d[i]
    BY <1>10, <2>1 DEF Parts4
  <2>3. \A i \in 1 .. nu : q[i] = Entry(g, Bias("user", users[i]))
    BY <1>7, <2>2
  <2>4. \A i \in 1 .. ni : q[nu + i] = Entry(g, Bias("item", items[i]))
    BY <1>7, <2>2
  <2>5. \A i \in 1 .. nuf : q[nu + ni + i] = Entry(g, FactorCell("user", users, i))
    BY <1>8, <2>2
  <2>6. \A i \in 1 .. nif : q[nu + ni + nuf + i] = Entry(g, FactorCell("item", items, i))
    BY <1>9, <2>2
  <2> QED
    BY <2>2, <2>3, <2>4, <2>5, <2>6
<1>12. ASSUME NEW i \in 1 .. Len(q)
       PROVE  \/ i \in 1 .. nu
              \/ \E j \in 1 .. ni : i = nu + j
              \/ \E j \in 1 .. nuf : i = nu + ni + j
              \/ \E j \in 1 .. nif : i = nu + ni + nuf + j
  <2>1. i \in 1 .. (nu + ni + nuf + nif)
    BY <1>11
  <2>2. CASE i <= nu
    BY <1>1, <2>1, <2>2
  <2>3. CASE i > nu /\ i <= nu + ni
    <3>1. i - nu \in 1 .. ni /\ i = nu + (i - nu)
      BY <1>1, <2>1, <2>3
    <3> QED
      BY <3>1
  <2>4. CASE i > nu + ni /\ i <= nu + ni + nuf
    <3>1. i - nu - ni \in 1 .. nuf /\ i = nu + ni + (i - nu - ni)
      BY <1>1, <2>1, <2>4
    <3> QED
      BY <3>1
  <2>5. CASE i > nu + ni + nuf
    <3>1. i - nu - ni - nuf \in 1 .. nif /\ i = nu + ni + nuf + (i - nu - ni - nuf)
      BY <1>1, <2>1, <2>5
    <3> QED
      BY <3>1
  <2> QED
    BY <1>1, <2>1, <2>2, <2>3, <2>4, <2>5
<1>13. \A i \in 1 .. Len(q) : \E x \in C : q[i] = Entry(g, x)
  BY <1>11 DEF S
<1>14. \A x : Entry(g, x)[1] = x /\ Entry(g, x)[2] = g[x]
  BY DEF Entry
<1>15. \A i \in 1 .. Len(q) : q[i][1] \in C /\ q[i][2] = g[q[i][1]]
  BY <1>13, <1>14
<1> DEFINE uth(x) == CHOOSE i \in 1 .. nu : users[i] = x
           ith(x) == CHOOSE i \in 1 .. ni : items[i] = x
           place(x) ==
             IF x[1] = "user"
             THEN IF x[3] = 0 THEN uth(x[2]) ELSE nu + ni + (NumFactors * (uth(x[2]) - 1) + x[3])
             ELSE IF x[3] = 0 THEN nu + ith(x[2])
                  ELSE nu + ni + nuf + (NumFactors * (ith(x[2]) - 1) + x[3])
<1>16. (\A i \in 1 .. nu : uth(users[i]) = i) /\ (\A i \in 1 .. ni : ith(items[i]) = i)
  BY DEF Distinct, nu, ni
<1> HIDE DEF uth, ith
<1>17. \A i \in 1 .. nu : place(Bias("user", users[i])) = i
  BY <1>16 DEF Bias
<1>18. \A i \in 1 .. ni : place(Bias("item", items[i])) = nu + i
  BY <1>16 DEF Bias
<1>19. \A i \in 1 .. nu : \A k \in Factors :
         place(Weight("user", users[i], k)) = nu + ni + (NumFactors * (i - 1) + (k + 1))
  <2> TAKE i \in 1 .. nu
  <2> TAKE k \in Factors
  <2>1. k + 1 # 0
    BY <1>1 DEF Factors
  <2>2. uth(users[i]) = i
    BY <1>16
  <2>3. place(<<"user", users[i], k + 1>>)
          = nu + ni + (NumFactors * (uth(users[i]) - 1) + (k + 1))
    BY <2>1
  <2> QED
    BY <2>2, <2>3 DEF Weight
<1>20. \A i \in 1 .. ni : \A k \in Factors :
         place(Weight("item", items[i], k)) = nu + ni + nuf + (NumFactors * (i - 1) + (k + 1))
  <2> TAKE i \in 1 .. ni
  <2> TAKE k \in Factors
  <2>1. k + 1 # 0
    BY <1>1 DEF Factors
  <2>2. ith(items[i]) = i
    BY <1>16
  <2>3. place(<<"item", items[i], k + 1>>)
          = nu + ni + nuf + (NumFactors * (ith(items[i]) - 1) + (k + 1))
    BY <2>1
  <2> QED
    BY <2>2, <2>3 DEF Weight
<1> HIDE DEF place
<1>21. ASSUME NEW i \in 1 .. nuf PROVE place(FactorCell("user", users, i)) = nu + ni + i
  <2>1. \E e \in 1 .. nu, k \in Factors :
          /\ FactorCell("user", users, i) = Weight("user", users[e], k)
          /\ i = NumFactors * (e - 1) + k + 1
    <3>1. Len(users) \in Nat /\ i \in 1 .. (Len(users) * NumFactors)
      BY <1>1 DEF nu, nuf
    <3>2. FactorPlaced("user", users, i)
      BY <3>1, FactorCellFacts
    <3> QED
      BY <3>2 DEF FactorPlaced, nu
  <2>2. PICK e \in 1 .. nu, k \in Factors :
          /\ FactorCell("user", users, i) = Weight("user", users[e], k)
          /\ i = NumFactors * (e - 1) + k + 1
    BY <2>1
  <2>3. NumFactors * (e - 1) + (k + 1) = NumFactors * (e - 1) + k + 1
    <3>1. NumFactors * (e - 1) \in Nat
      <4>1. e - 1 \in Nat
        BY <1>1
      <4> QED
        BY <1>1, <4>1, Product
    <3> DEFINE x == NumFactors * (e - 1)
    <3> HIDE DEF x
    <3>2. x \in Nat /\ k \in Int
      BY <3>1 DEF x, Factors
    <3>3. x + (k + 1) = x + k + 1
      BY <3>2
    <3> QED
      BY <3>3 DEF x
  <2> QED
    BY <1>19, <2>2, <2>3
<1>22. ASSUME NEW i \in 1 .. nif PROVE place(FactorCell("item", items, i)) = nu + ni + nuf + i
  <2>1. \E e \in 1 .. ni, k \in Factors :
          /\ FactorCell("item", items, i) = Weight("item", items[e], k)
          /\ i = NumFactors * (e - 1) + k + 1
    <3>1. Len(items) \in Nat /\ i \in 1 .. (Len(items) * NumFactors)
      BY <1>1 DEF ni, nif
    <3>2. FactorPlaced("item", items, i)
      BY <3>1, FactorCellFacts
    <3> QED
      BY <3>2 DEF FactorPlaced, ni
  <2>2. PICK e \in 1 .. ni, k \in Factors :
          /\ FactorCell("item", items, i) = Weight("item", items[e], k)
          /\ i = NumFactors * (e - 1) + k + 1
    BY <2>1
  <2>3. NumFactors * (e - 1) + (k + 1) = NumFactors * (e - 1) + k + 1
    <3>1. NumFactors * (e - 1) \in Nat
      <4>1. e - 1 \in Nat
        BY <1>1
      <4> QED
        BY <1>1, <4>1, Product
    <3> DEFINE x == NumFactors * (e - 1)
    <3> HIDE DEF x
    <3>2. x \in Nat /\ k \in Int
      BY <3>1 DEF x, Factors
    <3>3. x + (k + 1) = x + k + 1
      BY <3>2
    <3> QED
      BY <3>3 DEF x
  <2> QED
    BY <1>20, <2>2, <2>3
<1>23. ASSUME NEW i \in 1 .. Len(q) PROVE place(q[i][1]) = i
  BY <1>11, <1>12, <1>14, <1>17, <1>18, <1>21, <1>22
<1>24. \A i, j \in 1 .. Len(q) : q[i][1] = q[j][1] => i = j
  BY <1>23
<1>25. /\ \A i \in 1 .. nu : i \in 1 .. Len(q)
       /\ \A i \in 1 .. ni : nu + i \in 1 .. Len(q)
       /\ \A i \in 1 .. nuf : nu + ni + i \in 1 .. Len(q)
       /\ \A i \in 1 .. nif : nu + ni + nuf + i \in 1 .. Len(q)
  BY <1>1, <1>11
<1>26. ASSUME NEW x \in C PROVE \E i \in 1 .. Len(q) : q[i][1] = x
  <2>1. \E k \in 0 .. NumFactors : \/ \E u \in us : x = <<"user", u, k>>
                                   \/ \E m \in is : x = <<"item", m, k>>
    BY <1>2, CellForms
  <2>2. PICK k \in 0 .. NumFactors : \/ \E u \in us : x = <<"user", u, k>>
                                     \/ \E m \in is : x = <<"item", m, k>>
    BY <2>1
  <2>3. k = 0 \/ (k - 1 \in Factors /\ (k - 1) + 1 = k)
    BY <1>1 DEF Factors
  <2>4. CASE \E u \in us : x = <<"user", u, k>>
    <3>1. PICK e \in 1 .. nu : x = <<"user", users[e], k>>
      BY <2>4 DEF us
    <3>2. CASE k = 0
      <4>1. x = Bias("user", users[e])
        BY <3>1, <3>2 DEF Bias
      <4> QED
        BY <1>11, <1>14, <1>25, <4>1
    <3>3. CASE k # 0
      <4>1. x = Weight("user", users[e], k - 1) /\ k - 1 \in Factors
        BY <2>3, <3>1, <3>3 DEF Weight
      <4>2. PICK i \in 1 .. nuf : FactorCell("user", users, i) = Weight("user", users[e], k - 1)
        BY <1>1, <4>1, FactorCellAt DEF nu, nuf
      <4> QED
        BY <1>11, <1>14, <1>25, <4>1, <4>2
    <3> QED
      BY <3>2, <3>3
  <2>5. CASE \E m \in is : x = <<"item", m, k>>
    <3>1. PICK e \in 1 .. ni : x = <<"item", items[e], k>>
      BY <2>5 DEF is
    <3>2. CASE k = 0
      <4>1. x = Bias("item", items[e])
        BY <3>1, <3>2 DEF Bias
      <4> QED
        BY <1>11, <1>14, <1>25, <4>1
    <3>3. CASE k # 0
      <4>1. x = Weight("item", items[e], k - 1) /\ k - 1 \in Factors
        BY <2>3, <3>1, <3>3 DEF Weight
      <4>2. PICK i \in 1 .. nif : FactorCell("item", items, i) = Weight("item", items[e], k - 1)
        BY <1>1, <4>1, FactorCellAt DEF ni, nif
      <4> QED
        BY <1>11, <1>14, <1>25, <4>1, <4>2
    <3> QED
      BY <3>2, <3>3
  <2> QED
    BY <2>2, <2>4, <2>5
<1>27. U!IsSeq(q)
  BY <1>11 DEF U!IsSeq
<1>28. q # <<>>
  <2>1. Len(q) # 0
    BY <1>1, <1>11
  <2>2. Len(<<>>) = 0
    OBVIOUS
  <2> QED
    BY <2>1, <2>2
<1> QED
  BY <1>15, <1>24, <1>26, <1>27, <1>28 DEF Enumerates, q, C

(* A sequence without repetition has as many elements as places. *)
LEMMA DistinctCount ==
  ASSUME NEW q, U!IsSeq(q), Distinct(q)
  PROVE  Len(q) = Cardinality(ToSet(q))
<1> DEFINE n == Len(q)
           S == ToSet(q)
<1>1. n \in Nat /\ DOMAIN q = 1 .. n
  BY U!SeqLength
<1>2. S = {q[i] : i \in 1 .. n} /\ q = [i \in 1 .. n |-> q[i]]
  <2>1. q = [i \in DOMAIN q |-> q[i]]
    <3>1. PICK T : q \in Seq(T)
      BY DEF U!IsSeq
    <3> QED
      BY <3>1
  <2> QED
    BY <1>1, <2>1 DEF ToSet
<1> HIDE DEF S
<1>3. q \in Bijection(1 .. n, S)
  BY <1>2 DEF Bijection, Injection, Surjection, Distinct, IsInjective
<1>4. ExistsBijection(1 .. n, S)
  BY <1>3 DEF ExistsBijection
<1> HIDE DEF n
<1>5. Cardinality(S) = n
  BY <1>1, <1>4, FS_CountingElements
<1> QED
  BY <1>5 DEF n, S

(* A gradient has one bias for each of its users and items. *)
LEMMA BiasCount ==
  ASSUME NEW users, U!IsSeq(users), Distinct(users),
         NEW items, U!IsSeq(items), Distinct(items), NEW C,
         C = Cells({users[i] : i \in 1 .. Len(users)}, {items[i] : i \in 1 .. Len(items)})
  PROVE  Cardinality({c \in C : c[3] = 0}) = Len(users) + Len(items)
<1> DEFINE nu == Len(users)
           ni == Len(items)
           x(i) == IF i <= nu THEN Bias("user", users[i]) ELSE Bias("item", items[i - nu])
           q == [i \in 1 .. (nu + ni) |-> x(i)]
           B == {x(i) : i \in 1 .. (nu + ni)}
<1>0. 0 \in 0 .. NumFactors
  BY NumFactorsAssumption
<1>1. nu \in Nat /\ ni \in Nat
  BY U!SeqLength
<1>2. /\ \A i \in 1 .. nu : x(i) = Bias("user", users[i])
      /\ \A i \in 1 .. ni : nu + i \in 1 .. (nu + ni) /\ x(nu + i) = Bias("item", items[i])
      /\ \A i \in 1 .. (nu + ni) : i \in 1 .. nu \/ (i - nu \in 1 .. ni /\ nu + (i - nu) = i)
  <2>1. \A i \in 1 .. nu : i <= nu
    BY <1>1
  <2>2. \A i \in 1 .. ni : nu + i \in 1 .. (nu + ni) /\ ~(nu + i <= nu) /\ (nu + i) - nu = i
    BY <1>1
  <2>3. \A i \in 1 .. (nu + ni) : i \in 1 .. nu \/ (i - nu \in 1 .. ni /\ nu + (i - nu) = i)
    BY <1>1
  <2> QED
    BY <2>1, <2>2, <2>3
<1> HIDE DEF x, nu, ni
<1>3. B = {c \in C : c[3] = 0}
  <2>1. ASSUME NEW c \in B PROVE c \in C /\ c[3] = 0
    <3>1. PICK i \in 1 .. (nu + ni) : c = x(i)
      BY <2>1
    <3>2. CASE i \in 1 .. nu
      <4>1. c = Bias("user", users[i])
        BY <1>2, <3>1, <3>2
      <4> QED
        BY <1>0, <3>2, <4>1, CellForms DEF Bias, nu
    <3>3. CASE i - nu \in 1 .. ni /\ nu + (i - nu) = i
      <4>1. c = Bias("item", items[i - nu])
        BY <1>2, <3>1, <3>3
      <4> QED
        BY <1>0, <3>3, <4>1, CellForms DEF Bias, ni
    <3> QED
      BY <1>2, <3>2, <3>3
  <2>2. ASSUME NEW c \in C, c[3] = 0 PROVE c \in B
    <3>1. PICK k \in 0 .. NumFactors :
            \/ \E u \in {users[i] : i \in 1 .. nu} : c = <<"user", u, k>>
            \/ \E m \in {items[i] : i \in 1 .. ni} : c = <<"item", m, k>>
      BY <2>2, CellForms DEF nu, ni
    <3>2. k = 0
      BY <2>2, <3>1
    <3>3. CASE \E i \in 1 .. nu : c = Bias("user", users[i])
      <4>1. PICK i \in 1 .. nu : c = Bias("user", users[i])
        BY <3>3
      <4>2. c = x(i) /\ i \in 1 .. (nu + ni)
        BY <1>1, <1>2, <4>1
      <4> QED
        BY <4>2
    <3>4. CASE \E i \in 1 .. ni : c = Bias("item", items[i])
      BY <1>2, <3>4
    <3> QED
      BY <3>1, <3>2, <3>3, <3>4 DEF Bias
  <2> HIDE DEF B
  <2> QED
    BY <2>1, <2>2
<1>4. U!IsSeq(q) /\ Len(q) = nu + ni /\ ToSet(q) = B
  <2>1. q \in Seq(B) /\ Len(q) = nu + ni /\ DOMAIN q = 1 .. (nu + ni)
    BY <1>1
  <2>2. ToSet(q) = B
    BY <2>1 DEF ToSet
  <2> HIDE DEF q, B
  <2> QED
    BY <2>1, <2>2 DEF U!IsSeq
<1>5. Distinct(q)
  <2> SUFFICES ASSUME NEW i \in 1 .. (nu + ni), NEW j \in 1 .. (nu + ni), x(i) = x(j)
               PROVE  i = j
    BY <1>4 DEF Distinct
  <2>1. CASE i \in 1 .. nu /\ j \in 1 .. nu
    <3>1. users[i] = users[j]
      BY <1>2, <2>1 DEF Bias
    <3> QED
      BY <2>1, <3>1 DEF Distinct, nu
  <2>2. CASE i - nu \in 1 .. ni /\ nu + (i - nu) = i /\ j - nu \in 1 .. ni /\ nu + (j - nu) = j
    <3> DEFINE a == i - nu
               b == j - nu
    <3>0. a \in 1 .. ni /\ b \in 1 .. ni /\ i = nu + a /\ j = nu + b
      BY <2>2
    <3> HIDE DEF a, b
    <3>1. items[a] = items[b]
      BY <1>2, <3>0 DEF Bias
    <3> QED
      BY <3>0, <3>1 DEF Distinct, ni
  <2>3. CASE i \in 1 .. nu /\ j - nu \in 1 .. ni /\ nu + (j - nu) = j
    <3>1. x(i)[1] = "user" /\ x(j)[1] = "item"
      BY <1>2, <2>3 DEF Bias
    <3> QED
      BY <3>1
  <2>4. CASE j \in 1 .. nu /\ i - nu \in 1 .. ni /\ nu + (i - nu) = i
    <3>1. x(j)[1] = "user" /\ x(i)[1] = "item"
      BY <1>2, <2>4 DEF Bias
    <3> QED
      BY <3>1
  <2> QED
    BY <1>2, <2>1, <2>2, <2>3, <2>4
<1> HIDE DEF q, B
<1>6. Cardinality(B) = nu + ni
  BY <1>4, <1>5, DistinctCount
<1> QED
  BY <1>3, <1>6 DEF nu, ni

(* What the server reads from the message of a gradient is that gradient. *)
MFRead(g, rows, first) ==
  loadMFGradient(MFGradientWords(g, [i \in 1 .. Len(rows) |-> first + i - 1], ItemOrder(rows)))

LEMMA MFMessage ==
  ASSUME NEW rows \in Seq(Seq(Nat \X Int)), rows # <<>>, NEW first \in Int, NEW g,
         DOMAIN g = Cells(first .. (first + Len(rows) - 1), Items(rows))
  PROVE  /\ U!IsSeq(MFRead(g, rows, first)) /\ MFRead(g, rows, first) # <<>>
         /\ Enumerates(MFRead(g, rows, first), g)
         /\ LET msg == MFGradientWords(g, [i \in 1 .. Len(rows) |-> first + i - 1], ItemOrder(rows))
            IN /\ Len(msg) \in Nat
               /\ Len(msg) = 4 + (NumFactors + 3) * Cardinality({c \in DOMAIN g : c[3] = 0})
<1> DEFINE n == Len(rows)
           users == [i \in 1 .. n |-> first + i - 1]
           items == ItemOrder(rows)
<1>1. n \in Nat /\ n # 0
  OBVIOUS
<1> HIDE DEF n
<1>2. users \in Seq(Int) /\ Len(users) = n /\ users # <<>>
  <2>1. users \in Seq(Int) /\ Len(users) = n
    BY <1>1
  <2> HIDE DEF users
  <2>2. users # <<>>
    <3>1. Len(<<>>) = 0
      OBVIOUS
    <3> QED
      BY <1>1, <2>1, <3>1
  <2> QED
    BY <2>1, <2>2
<1>3. Distinct(users)
  BY <1>1, <1>2 DEF Distinct
<1>4. {users[i] : i \in 1 .. Len(users)} = first .. (first + n - 1)
  <2>1. ASSUME NEW x \in first .. (first + n - 1) PROVE \E i \in 1 .. n : users[i] = x
    <3>1. x - first + 1 \in 1 .. n /\ first + (x - first + 1) - 1 = x
      BY <1>1
    <3> QED
      BY <3>1
  <2>2. \A i \in 1 .. n : users[i] \in first .. (first + n - 1)
    BY <1>1
  <2> HIDE DEF users
  <2> QED
    BY <1>2, <2>1, <2>2
<1>5. /\ U!IsSeq(items) /\ Distinct(items)
      /\ Items(rows) = {items[i] : i \in 1 .. Len(items)}
  BY ItemOrderFacts
<1> HIDE DEF users, items
<1>6. PICK R : items \in Seq(R)
  BY <1>5 DEF U!IsSeq
<1> DEFINE A == R \union Int
<1>7. users \in Seq(A) /\ items \in Seq(A)
  <2>1. R \subseteq A /\ Int \subseteq A
    OBVIOUS
  <2> HIDE DEF A
  <2> QED
    BY <1>2, <1>6, <2>1
<1> HIDE DEF A
<1>8. MFLayout(MFGradientWords(g, users, items), users, items, g)
  BY <1>7, MFWordsLayout
<1>9. Len(users) \in Nat /\ Len(items) \in Nat
  BY <1>7
<1>10. loadMFGradient(MFGradientWords(g, users, items)) = MFEntries(g, users, items)
  BY <1>8, <1>9, MFLoaded
<1>11. DOMAIN g = Cells({users[i] : i \in 1 .. Len(users)}, {items[i] : i \in 1 .. Len(items)})
  BY <1>4, <1>5 DEF n
<1>12. U!IsSeq(users)
  BY <1>2 DEF U!IsSeq
<1>13. /\ U!IsSeq(MFEntries(g, users, items)) /\ MFEntries(g, users, items) # <<>>
       /\ Enumerates(MFEntries(g, users, items), g)
  BY <1>2, <1>3, <1>5, <1>11, <1>12, MFEntriesEnumerate
<1>14. Cardinality({c \in DOMAIN g : c[3] = 0}) = Len(users) + Len(items)
  BY <1>3, <1>5, <1>11, <1>12, BiasCount
<1>15. /\ Len(MFGradientWords(g, users, items)) = 4 + (NumFactors + 3) * (Len(users) + Len(items))
       /\ 4 + (NumFactors + 3) * (Len(users) + Len(items)) \in Nat
  <2>1. \A f, x \in Nat : 4 + (f + 3) * x \in Nat
    OBVIOUS
  <2> QED
    BY <1>8, <1>9, <2>1, NumFactorsAssumption DEF MFLayout
<1> QED
  BY <1>10, <1>13, <1>14, <1>15 DEF MFRead, users, items, n

(* The full model as the error task decodes it is the server's. *)
LEMMA LRModelRoundTrip ==
  ASSUME NEW d \in Nat, NEW m, m = [c \in 0 .. (d - 1) |-> m[c]]
  PROVE  LR!loadLRModel(LR!LRModelWords(m, d)) = m /\ Len(LR!LRModelWords(m, d)) = d + 1
<1> DEFINE S == {m[c] : c \in 0 .. (d - 1)} \union {d}
           b == [i \in 1 .. d |-> m[i - 1]]
           words == <<d>> \o b
<1>1. \A i \in 1 .. d : i - 1 \in 0 .. (d - 1)
  OBVIOUS
<1>2. b \in Seq(S) /\ Len(b) = d /\ <<d>> \in Seq(S)
  <2>1. \A i \in 1 .. d : m[i - 1] \in S
    BY <1>1
  <2>2. d \in S
    OBVIOUS
  <2> HIDE DEF S
  <2> QED
    BY <2>1, <2>2
<1> HIDE DEF S, b
<1>3. /\ Len(<<d>>) = 1 /\ Len(words) = d + 1 /\ words[1] = d
      /\ \A i \in 1 .. d : words[1 + i] = b[i]
  BY <1>2
<1> HIDE DEF words
<1>4. ASSUME NEW c \in 0 .. (d - 1) PROVE words[c + 2] = m[c]
  <2>1. c + 1 \in 1 .. d /\ 1 + (c + 1) = c + 2 /\ (c + 1) - 1 = c
    OBVIOUS
  <2> QED
    BY <1>3, <2>1 DEF b
<1>5. LR!loadLRModel(words) = m
  BY <1>3, <1>4 DEF LR!loadLRModel
<1> QED
  BY <1>3, <1>5 DEF LR!LRModelWords, words, b

Side(m, kind, n) == FlattenSeq([i \in 1 .. n |-> Tail(Values(m, CellSeq(kind, i - 1)))])

SideHolds(q, S, m, kind, n) ==
  /\ q \in Seq(S) /\ Len(q) = NumFactors * n
  /\ \A id \in 0 .. (n - 1) : \A k \in Factors :
       /\ NumFactors * id + (k + 1) \in 1 .. Len(q)
       /\ q[NumFactors * id + (k + 1)] = m[Weight(kind, id, k)]

LEMMA SideFacts ==
  ASSUME NEW S, NEW n \in Nat, NEW m, NEW kind,
         \A id \in 0 .. (n - 1) : \A k \in Factors : m[Weight(kind, id, k)] \in S
  PROVE  SideHolds(Side(m, kind, n), S, m, kind, n)
<1> DEFINE f == NumFactors
           block(i) == FactorSeq(m, kind, i - 1)
           seqs == [i \in 1 .. n |-> block(i)]
           q == U!FlattenSeq(seqs)
<1>1. f \in Nat /\ \A i \in 1 .. n : i - 1 \in 0 .. (n - 1)
  BY NumFactorsAssumption
<1>2. ASSUME NEW i \in 1 .. n
      PROVE  /\ block(i) \in Seq(S) /\ Len(block(i)) = f
             /\ \A k \in Factors : k + 1 \in 1 .. f /\ block(i)[k + 1] = m[Weight(kind, i - 1, k)]
  <2>1. \A k \in 1 .. f : k - 1 \in Factors
    BY <1>1 DEF Factors
  <2>2. \A k \in Factors : k + 1 \in 1 .. f /\ (k + 1) - 1 = k
    BY <1>1 DEF Factors
  <2>3. \A k \in 1 .. f : m[Weight(kind, i - 1, k - 1)] \in S
    BY <1>1, <2>1
  <2>4. block(i) = [k \in 1 .. f |-> m[Weight(kind, i - 1, k - 1)]]
    BY DEF FactorSeq
  <2> HIDE DEF block
  <2> QED
    BY <1>1, <2>2, <2>3, <2>4
<1>3. Side(m, kind, n) = q
  <2>1. \A i : Tail(Values(m, CellSeq(kind, i - 1))) = block(i)
    <3> HIDE DEF block
    <3> QED
      BY FactorsOf, Zenon DEF block
  <2>2. [i \in 1 .. n |-> Tail(Values(m, CellSeq(kind, i - 1)))] = seqs
    BY <2>1
  <2>3. Side(m, kind, n) = FlattenSeq(seqs)
    BY <2>2 DEF Side
  <2> HIDE DEF seqs
  <2> QED
    BY <2>3 DEF FlattenSeq, U!FlattenSeq
<1> HIDE DEF block
<1>4. seqs \in Seq(Seq(S)) /\ Len(seqs) = n /\ \A i \in 1 .. n : seqs[i] = block(i)
  BY <1>2
<1> HIDE DEF seqs
<1>5. /\ q \in Seq(S) /\ Len(q) = f * Len(seqs)
      /\ \A i \in 1 .. Len(seqs) : \A j \in 1 .. f :
           f * (i - 1) + j \in 1 .. Len(q) /\ q[f * (i - 1) + j] = seqs[i][j]
  <2>1. f \in Nat /\ seqs \in Seq(Seq(S))
    BY <1>1, <1>4
  <2>2. \A i \in 1 .. Len(seqs) : Len(seqs[i]) = f
    BY <1>2, <1>4
  <2> HIDE DEF f
  <2> QED
    BY <2>1, <2>2, U!FlattenBlocks, Zenon
<1> HIDE DEF q
<1>6. ASSUME NEW id \in 0 .. (n - 1), NEW k \in Factors
      PROVE  /\ f * id + (k + 1) \in 1 .. Len(q)
             /\ q[f * id + (k + 1)] = m[Weight(kind, id, k)]
  <2>1. id + 1 \in 1 .. n /\ (id + 1) - 1 = id
    OBVIOUS
  <2> DEFINE i == id + 1
             j == k + 1
  <2>2. i \in 1 .. Len(seqs) /\ j \in 1 .. f /\ block(i)[j] = m[Weight(kind, id, k)]
    BY <1>2, <1>4, <2>1
  <2>3. f * (i - 1) + j \in 1 .. Len(q) /\ q[f * (i - 1) + j] = block(i)[j]
    <3> HIDE DEF i, j
    <3> QED
      BY <1>4, <1>5, <2>2
  <2> QED
    BY <2>1, <2>2, <2>3
<1> QED
  BY <1>3, <1>4, <1>5, <1>6 DEF SideHolds

LEMMA MFModelRoundTrip ==
  ASSUME NEW nu \in Nat, NEW ni \in Nat, NEW m,
         m = [c \in Cells(0 .. (nu - 1), 0 .. (ni - 1)) |-> m[c]]
  PROVE  /\ loadMFModel(MFModelWords(m, nu, ni)) = m
         /\ Len(MFModelWords(m, nu, ni)) = 6 + (NumFactors + 1) * (nu + ni)
<1> DEFINE C == Cells(0 .. (nu - 1), 0 .. (ni - 1))
           S == {m[c] : c \in C} \union {nu, ni, 0, NumFactors}
           p1 == <<nu, 0, ni, 0, NumFactors, 0>>
           p2 == [i \in 1 .. nu |-> m[Bias("user", i - 1)]]
           p3 == [i \in 1 .. ni |-> m[Bias("item", i - 1)]]
           p4 == Side(m, "user", nu)
           p5 == Side(m, "item", ni)
           q == p1 \o p2 \o p3 \o p4 \o p5
           f == NumFactors
<1>1. f \in Nat
  BY NumFactorsAssumption
<1>2. (\A c \in C : m[c] \in S) /\ nu \in S /\ ni \in S /\ 0 \in S /\ NumFactors \in S
  OBVIOUS
<1> HIDE DEF S
<1>3. /\ \A i \in 1 .. nu : m[Bias("user", i - 1)] \in S
      /\ \A i \in 1 .. ni : m[Bias("item", i - 1)] \in S
  BY <1>2, BiasInCells
<1>4. /\ \A i \in 0 .. (nu - 1) : \A k \in Factors : m[Weight("user", i, k)] \in S
      /\ \A i \in 0 .. (ni - 1) : \A k \in Factors : m[Weight("item", i, k)] \in S
  BY <1>2, WeightInCells
<1>5. p1 \in Seq(S) /\ Len(p1) = 6 /\ p1[1] = nu /\ p1[3] = ni
  BY <1>2
<1>6. /\ p2 \in Seq(S) /\ Len(p2) = nu /\ \A i \in 1 .. nu : p2[i] = m[Bias("user", i - 1)]
      /\ p3 \in Seq(S) /\ Len(p3) = ni /\ \A i \in 1 .. ni : p3[i] = m[Bias("item", i - 1)]
  <2> DEFINE x(i) == m[Bias("user", i - 1)]
             y(i) == m[Bias("item", i - 1)]
  <2>1. p2 = [i \in 1 .. nu |-> x(i)] /\ p3 = [i \in 1 .. ni |-> y(i)]
    OBVIOUS
  <2>2. (\A i \in 1 .. nu : x(i) \in S) /\ (\A i \in 1 .. ni : y(i) \in S)
    <3>1. (\A i \in 1 .. nu : i - 1 \in 0 .. (nu - 1)) /\ (\A i \in 1 .. ni : i - 1 \in 0 .. (ni - 1))
      OBVIOUS
    <3> QED
      BY <1>3, <3>1
  <2> HIDE DEF x, y, p2, p3
  <2>3. /\ p2 \in Seq(S) /\ Len(p2) = nu /\ \A i \in 1 .. nu : p2[i] = x(i)
        /\ p3 \in Seq(S) /\ Len(p3) = ni /\ \A i \in 1 .. ni : p3[i] = y(i)
    BY <2>1, <2>2
  <2> QED
    BY <2>3 DEF x, y
<1>7. /\ p4 \in Seq(S) /\ Len(p4) = f * nu
      /\ \A id \in 0 .. (nu - 1) : \A k \in Factors :
           /\ f * id + (k + 1) \in 1 .. Len(p4)
           /\ p4[f * id + (k + 1)] = m[Weight("user", id, k)]
  <2>1. SideHolds(p4, S, m, "user", nu)
    BY <1>4, SideFacts
  <2> HIDE DEF p4
  <2> QED
    BY <2>1 DEF SideHolds
<1>8. /\ p5 \in Seq(S) /\ Len(p5) = f * ni
      /\ \A id \in 0 .. (ni - 1) : \A k \in Factors :
           /\ f * id + (k + 1) \in 1 .. Len(p5)
           /\ p5[f * id + (k + 1)] = m[Weight("item", id, k)]
  <2>1. SideHolds(p5, S, m, "item", ni)
    BY <1>4, SideFacts
  <2> HIDE DEF p5
  <2> QED
    BY <2>1 DEF SideHolds
<1>9. MFModelWords(m, nu, ni) = q
  BY Zenon DEF MFModelWords, Side
<1>10. Parts5(q, S, p1, p2, p3, p4, p5)
  <2>1. p1 \in Seq(S) /\ p2 \in Seq(S) /\ p3 \in Seq(S) /\ p4 \in Seq(S) /\ p5 \in Seq(S)
    BY <1>5, <1>6, <1>7, <1>8
  <2> HIDE DEF p1, p2, p3, p4, p5
  <2> QED
    BY <2>1, Cat5
<1> HIDE DEF p1, p2, p3, p4, p5, q, C, f
<1>n. Len(q) = 6 + (NumFactors + 1) * (nu + ni)
  <2>1. \A x, y, z \in Nat : 6 + y + z + x * y + x * z = 6 + (x + 1) * (y + z)
    OBVIOUS
  <2>2. Len(q) = 6 + nu + ni + f * nu + f * ni
    BY <1>5, <1>6, <1>7, <1>8, <1>10 DEF Parts5
  <2> QED
    BY <1>1, <2>1, <2>2 DEF f
<1> DEFINE x4 == f * nu
<1>11. /\ x4 \in Nat /\ x4 = nu * f
       /\ q[1] = nu /\ q[3] = ni
       /\ \A i \in 1 .. nu : q[6 + i] = m[Bias("user", i - 1)]
       /\ \A i \in 1 .. ni : q[6 + nu + i] = m[Bias("item", i - 1)]
       /\ \A i \in 1 .. Len(p4) : q[6 + nu + ni + i] = p4[i]
       /\ \A i \in 1 .. Len(p5) : q[6 + nu + ni + x4 + i] = p5[i]
  <2>1. x4 \in Nat /\ x4 = nu * f
    BY <1>1, Product
  <2> HIDE DEF x4
  <2>2. Len(p4) = x4
    BY <1>7 DEF x4
  <2>3. /\ \A i \in 1 .. 6 : q[i] = p1[i]
        /\ \A i \in 1 .. nu : q[6 + i] = p2[i]
        /\ \A i \in 1 .. ni : q[6 + nu + i] = p3[i]
        /\ \A i \in 1 .. Len(p4) : q[6 + nu + ni + i] = p4[i]
        /\ \A i \in 1 .. Len(p5) : q[6 + nu + ni + x4 + i] = p5[i]
    BY <1>5, <1>6, <1>10, <2>2, Zenon DEF Parts5
  <2>4. q[1] = nu /\ q[3] = ni
    <3>1. 1 \in 1 .. 6 /\ 3 \in 1 .. 6
      OBVIOUS
    <3> QED
      BY <1>5, <2>3, <3>1
  <2> QED
    BY <1>6, <2>1, <2>3, <2>4
<1> HIDE DEF x4
<1>12. ASSUME NEW id \in 0 .. (nu - 1)
       PROVE  /\ q[7 + 0 + id] = m[Bias("user", id)]
              /\ \A k \in Factors : q[7 + nu + ni + 0 + f * id + (k + 1) - 1]
                                      = m[Weight("user", id, k)]
  <2>1. id + 1 \in 1 .. nu /\ 6 + (id + 1) = 7 + 0 + id /\ (id + 1) - 1 = id
    OBVIOUS
  <2>2. ASSUME NEW k \in Factors
        PROVE  q[7 + nu + ni + 0 + f * id + (k + 1) - 1] = m[Weight("user", id, k)]
    <3> DEFINE y == f * id
    <3>1. y \in Nat /\ k \in Int
      BY <1>1, Product DEF Factors
    <3>2. y + (k + 1) \in 1 .. Len(p4) /\ p4[y + (k + 1)] = m[Weight("user", id, k)]
      BY <1>7
    <3> HIDE DEF y
    <3>3. 6 + nu + ni + (y + (k + 1)) = 7 + nu + ni + 0 + y + (k + 1) - 1
      BY <3>1
    <3>4. q[6 + nu + ni + (y + (k + 1))] = m[Weight("user", id, k)]
      BY <1>11, <3>2
    <3>5. q[7 + nu + ni + 0 + y + (k + 1) - 1] = m[Weight("user", id, k)]
      BY <3>3, <3>4
    <3> QED
      BY <3>5 DEF y
  <2> QED
    BY <1>11, <2>1, <2>2
<1>13. ASSUME NEW id \in 0 .. (ni - 1)
       PROVE  /\ q[7 + nu + id] = m[Bias("item", id)]
              /\ \A k \in Factors : q[7 + nu + ni + nu * f + f * id + (k + 1) - 1]
                                      = m[Weight("item", id, k)]
  <2>1. id + 1 \in 1 .. ni /\ 6 + nu + (id + 1) = 7 + nu + id /\ (id + 1) - 1 = id
    OBVIOUS
  <2>2. ASSUME NEW k \in Factors
        PROVE  q[7 + nu + ni + nu * f + f * id + (k + 1) - 1] = m[Weight("item", id, k)]
    <3> DEFINE y == f * id
    <3>1. y \in Nat /\ k \in Int
      BY <1>1, Product DEF Factors
    <3>2. y + (k + 1) \in 1 .. Len(p5) /\ p5[y + (k + 1)] = m[Weight("item", id, k)]
      BY <1>8
    <3> HIDE DEF y
    <3>3. 6 + nu + ni + x4 + (y + (k + 1)) = 7 + nu + ni + x4 + y + (k + 1) - 1
      <4>1. nu \in Int /\ ni \in Int /\ x4 \in Int /\ y \in Int /\ k \in Int
        BY <1>1, <1>11, <3>1
      <4> HIDE DEF x4
      <4> QED
        BY <4>1, SMTT(30)
    <3>4. q[6 + nu + ni + x4 + (y + (k + 1))] = m[Weight("item", id, k)]
      BY <1>11, <3>2
    <3>5. q[7 + nu + ni + x4 + y + (k + 1) - 1] = m[Weight("item", id, k)]
      BY <3>3, <3>4
    <3> QED
      BY <1>11, <3>5 DEF y
  <2> QED
    BY <1>11, <2>1, <2>2
<1> DEFINE off(kind) == IF kind = "user" THEN 0 ELSE nu
           woff(kind) == IF kind = "user" THEN 0 ELSE nu * NumFactors
           at(c) == IF c[3] = 0 THEN q[7 + off(c[1]) + c[2]]
                    ELSE q[7 + nu + ni + woff(c[1]) + NumFactors * c[2] + c[3] - 1]
<1>14. ASSUME NEW c \in C PROVE at(c) = m[c]
  <2>1. \E k \in 0 .. NumFactors : \/ \E u \in 0 .. (nu - 1) : c = <<"user", u, k>>
                                   \/ \E v \in 0 .. (ni - 1) : c = <<"item", v, k>>
    BY CellForms DEF C
  <2>2. PICK k \in 0 .. NumFactors : \/ \E u \in 0 .. (nu - 1) : c = <<"user", u, k>>
                                     \/ \E v \in 0 .. (ni - 1) : c = <<"item", v, k>>
    BY <2>1
  <2>3. k = 0 \/ (k - 1 \in Factors /\ (k - 1) + 1 = k /\ k # 0)
    BY <1>1 DEF Factors, f
  <2>4. CASE \E u \in 0 .. (nu - 1) : c = <<"user", u, k>>
    <3>1. PICK u \in 0 .. (nu - 1) : c = <<"user", u, k>>
      BY <2>4
    <3>2. c[1] = "user" /\ c[2] = u /\ c[3] = k
      BY <3>1
    <3>3. CASE k = 0
      BY <1>12, <3>1, <3>2, <3>3 DEF Bias
    <3>4. CASE k # 0
      <4>1. at(c) = q[7 + nu + ni + 0 + f * u + k - 1]
        BY <3>2, <3>4 DEF f
      <4>2. q[7 + nu + ni + 0 + f * u + ((k - 1) + 1) - 1] = m[Weight("user", u, k - 1)]
        BY <1>12, <2>3, <3>4
      <4>3. c = Weight("user", u, k - 1)
        BY <2>3, <3>1, <3>4 DEF Weight
      <4> HIDE DEF at
      <4> QED
        BY <2>3, <3>4, <4>1, <4>2, <4>3
    <3> QED
      BY <3>3, <3>4
  <2>5. CASE \E v \in 0 .. (ni - 1) : c = <<"item", v, k>>
    <3>1. PICK v \in 0 .. (ni - 1) : c = <<"item", v, k>>
      BY <2>5
    <3>2. c[1] = "item" /\ c[2] = v /\ c[3] = k /\ c[1] # "user"
      BY <3>1
    <3>3. CASE k = 0
      BY <1>13, <3>1, <3>2, <3>3 DEF Bias
    <3>4. CASE k # 0
      <4>1. at(c) = q[7 + nu + ni + nu * f + f * v + k - 1]
        BY <3>2, <3>4 DEF f
      <4>2. q[7 + nu + ni + nu * f + f * v + ((k - 1) + 1) - 1] = m[Weight("item", v, k - 1)]
        BY <1>13, <2>3, <3>4
      <4>3. c = Weight("item", v, k - 1)
        BY <2>3, <3>1, <3>4 DEF Weight
      <4> HIDE DEF at
      <4> QED
        BY <2>3, <3>4, <4>1, <4>2, <4>3
    <3> QED
      BY <3>3, <3>4
  <2> QED
    BY <2>2, <2>4, <2>5
<1>15. loadMFModel(q) = [c \in C |-> at(c)]
  BY <1>11, Zenon DEF loadMFModel, C
<1> HIDE DEF at
<1>16. [c \in C |-> at(c)] = [c \in C |-> m[c]]
  BY <1>14
<1> QED
  BY <1>9, <1>n, <1>15, <1>16 DEF C

-----------------------------------------------------------------------------
(* The invariant of the model store.                                          *)

Sample == [label : Int, feats : Seq((0 .. (Dim - 1)) \X Int)]

(* A minibatch of either kind, and the gradient of one. *)
IsBatch(s, b) ==
  IF s.kind = "lr" THEN b \in Seq(Sample)
  ELSE b \in Seq(Seq(Nat \X Int)) /\ b # <<>>

IsGradient(s, g, first, b) ==
  IF s.kind = "lr" THEN IsPairs(g)
  ELSE DOMAIN g = Cells(first .. (first + Len(b) - 1), Items(b))

Working(w) ==
  /\ get[w] = [pc |-> get[w].pc, msg |-> get[w].msg, cells |-> get[w].cells, out |-> get[w].out]
  /\ ~LRKind => base[w] \in Int
  /\ wpc[w] \in {"model", "grad", "abort"} => IsBatch(setup, batch[w])
  /\ wpc[w] = "grad" => IsGradient(setup, grad[w], base[w], batch[w])
  /\ get[w].pc # "idle" => wpc[w] \in {"model", "abort"}
  /\ wpc[w] = "abort" => LRKind
  /\ get[w].pc = "sent" => IF LRKind THEN get[w].msg = LR!LRRequestWords(batch[w])
                            ELSE get[w].msg[1] = Len(ItemOrder(batch[w]))

(* The message carries the gradient. *)
Words(s, g) ==
  IF s.kind = "lr" THEN 2 * Len(g) + 2
  ELSE 4 + (NumFactors + 3) * Cardinality({c \in DOMAIN g : c[3] = 0})

Carries(s, msg, g) ==
  /\ Len(msg) \in Nat /\ Len(msg) = Words(s, g)
  /\ IF s.kind = "lr" THEN msg[2] = Len(g) /\ U!IsSeq(g) /\ LR!loadLRGradient(msg) = g
     ELSE Whole(s, loadMFGradient(msg), g)

(* 1 while the first gradient that was pushed is being served. *)
InHand(w) == IF put[w].pc \in {"lock", "apply"} THEN 1 ELSE 0

Serving(w) ==
  /\ put[w] = [pc |-> put[w].pc, todo |-> put[w].todo]
  /\ put[w].pc = "apply" <=> model_lock = w
  /\ U!IsSeq(pushed[w]) /\ U!IsSeq(gradConn[w])
  /\ put[w].pc \in {"lock", "apply"} => pushed[w] # <<>>
  /\ put[w].pc = "lock" => Whole(setup, put[w].todo, Head(pushed[w]))
  /\ put[w].pc = "apply" => Applying(setup, committed, Store, put[w].todo, Head(pushed[w]))

Waiting(w) ==
  /\ Len(pushed[w]) = Len(gradConn[w]) + InHand(w)
  /\ \A i \in 1 .. Len(gradConn[w]) :
       Carries(setup, gradConn[w][i], pushed[w][i + InHand(w)])

Domains ==
  /\ DOMAIN wpc = W /\ DOMAIN batch = W /\ DOMAIN base = W /\ DOMAIN grad = W
  /\ DOMAIN get = W /\ DOMAIN put = W /\ DOMAIN pushed = W /\ DOMAIN gradConn = W

Settled ==
  /\ model_lock = Nobody => Store = committed
  /\ IsStore(Store, ModelCells) /\ IsStore(committed, ModelCells)

StoreInv ==
  /\ setup \in Setups /\ Domains /\ Settled
  /\ \A w \in W : Working(w) /\ Serving(w)
  /\ crashed = "no" => \A w \in W : Waiting(w)

LEMMA SetupFacts ==
  ASSUME NEW s \in Setups
  PROVE  /\ SetupOK(s) /\ s.kind \in {"lr", "mf"} /\ s.nusers \in Nat /\ s.nitems \in Nat
         /\ s.buffer \in Nat
         /\ s.batches \subseteq Seq(Sample)
         /\ \A u \in DOMAIN s.rows : s.rows[u] \in Seq(Nat \X Int)
BY SetupsAssumption DEF SetupOK, Sample

LEMMA WorkerNumbers == ASSUME setup \in Setups, NEW w \in W PROVE w # Nobody
<1>1. setup.workers \in Nat
  BY SetupsAssumption DEF SetupOK
<1> QED
  BY <1>1 DEF W, Nobody

(* What a worker needs to go on. *)
LEMMA RowsAreBatch ==
  ASSUME NEW it, setup \in Setups, Stored(it)
  PROVE  Rows(it) \in Seq(Seq(Nat \X Int)) /\ Rows(it) # <<>>
<1>1. MiniBatch \in Nat \ {0}
  BY SizeAssumption
<1>2. \A i \in 1 .. MiniBatch : setup.rows[Place(it, i)] \in Seq(Nat \X Int)
  BY SetupFacts DEF Stored
<1> DEFINE x(i) == setup.rows[Place(it, i)]
           q == [i \in 1 .. MiniBatch |-> x(i)]
           R == Seq(Nat \X Int)
<1>3. Rows(it) = q
  BY DEF Rows
<1>4. \A i \in 1 .. MiniBatch : x(i) \in R
  BY <1>2
<1> HIDE DEF x, R
<1>5. q \in Seq(R) /\ Len(q) = MiniBatch
  BY <1>1, <1>4
<1> HIDE DEF q
<1>6. q # <<>>
  <2>1. Len(<<>>) = 0
    OBVIOUS
  <2> QED
    BY <1>1, <1>5, <2>1
<1> QED
  BY <1>3, <1>5, <1>6 DEF R

LEMMA RequestNamesItems ==
  ASSUME NEW rows \in Seq(Seq(Nat \X Int)), NEW first, NEW n
  PROVE  MFRequestWords(first, rows, n)[1] = Len(ItemOrder(rows))
<1> DEFINE o == ItemOrder(rows)
           h == <<Len(o), first, n, MagicNumber>>
<1>1. PICK R : o \in Seq(R)
  BY ItemOrderFacts DEF U!IsSeq
<1> HIDE DEF o
<1> DEFINE T == R \union {Len(o), first, n, MagicNumber}
<1>2. o \in Seq(T) /\ h \in Seq(T) /\ h[1] = Len(o) /\ 1 \in 1 .. Len(h)
  BY <1>1
<1> HIDE DEF h, T
<1>3. (h \o o)[1] = h[1]
  BY <1>2
<1> QED
  BY <1>2, <1>3 DEF MFRequestWords, h, o

LEMMA GradientCarried ==
  ASSUME NEW s \in Setups, NEW v, NEW first \in Int, NEW b, IsBatch(s, b), NEW g,
         IsGradient(s, g, first, b)
  PROVE  Carries(s, IF s.kind = "lr" THEN LR!LRGradientWords(v, g)
                    ELSE MFGradientWords(g, [i \in 1 .. Len(b) |-> first + i - 1], ItemOrder(b)),
                 g)
<1>1. CASE s.kind = "lr"
  <2>1. IsPairs(g)
    BY <1>1 DEF IsGradient
  <2>2. /\ LR!LRGradientWords(v, g)[2] = Len(g)
        /\ Len(LR!LRGradientWords(v, g)) = 2 * Len(g) + 2
        /\ LR!loadLRGradient(LR!LRGradientWords(v, g)) = g
    BY <2>1, LRMessage
  <2>3. Len(g) \in Nat
    BY <2>1, U!SeqLength DEF IsPairs
  <2> QED
    BY <1>1, <2>1, <2>2, <2>3 DEF Carries, Words, IsPairs
<1>2. CASE s.kind # "lr"
  <2>1. /\ b \in Seq(Seq(Nat \X Int)) /\ b # <<>>
        /\ DOMAIN g = Cells(first .. (first + Len(b) - 1), Items(b))
    BY <1>2 DEF IsBatch, IsGradient
  <2> DEFINE msg == MFGradientWords(g, [i \in 1 .. Len(b) |-> first + i - 1], ItemOrder(b))
  <2>2. /\ U!IsSeq(MFRead(g, b, first)) /\ MFRead(g, b, first) # <<>>
        /\ Enumerates(MFRead(g, b, first), g)
        /\ Len(msg) \in Nat
        /\ Len(msg) = 4 + (NumFactors + 3) * Cardinality({c \in DOMAIN g : c[3] = 0})
    BY <2>1, MFMessage
  <2>3. Whole(s, MFRead(g, b, first), g)
    BY <1>2, <2>2 DEF Whole
  <2>4. Len(msg) = Words(s, g)
    BY <1>2, <2>2 DEF Words
  <2> QED
    BY <1>2, <2>2, <2>3, <2>4 DEF Carries, MFRead
<1> QED
  BY <1>1, <1>2

LEMMA StoreInit == ASSUME Init PROVE StoreInv
<1>1. setup \in Setups
  BY DEF Init
<1>2. Domains
  BY DEF Init, Domains
<1>3. Settled
  <2>1. /\ model = [c \in ModelCells |-> IF LRKind THEN 0 ELSE 1]
        /\ opt = [hist |-> [c \in ModelCells |-> 0], avg |-> 0]
        /\ committed = Store
    BY DEF Init
  <2>2. model = [c \in ModelCells |-> model[c]]
    BY <2>1
  <2>3. Store.w = model /\ Store = [w |-> Store.w, hist |-> Store.hist, avg |-> Store.avg]
    BY DEF Store
  <2> QED
    BY <2>1, <2>2, <2>3 DEF Settled, IsStore
<1>4. ASSUME NEW w \in W PROVE Working(w) /\ Serving(w) /\ Waiting(w)
  <2>1. /\ get[w] = [pc |-> "idle", msg |-> <<>>, cells |-> <<>>, out |-> <<>>]
        /\ base[w] = sample_low(w) /\ wpc[w] = "next"
        /\ put[w] = [pc |-> "idle", todo |-> <<>>] /\ model_lock = Nobody
        /\ pushed[w] = <<>> /\ gradConn[w] = <<>>
    BY DEF Init
  <2>2. sample_low(w) \in Int
    BY <1>1, RangeFacts
  <2>3. w # Nobody
    BY <1>1, WorkerNumbers
  <2>4. Working(w)
    BY <2>1, <2>2 DEF Working
  <2>5. U!IsSeq(<<>>) /\ Len(<<>>) = 0 /\ 1 .. 0 = {}
    BY U!SeqEmpty
  <2>6. Serving(w)
    BY <2>1, <2>3, <2>5 DEF Serving
  <2>7. Waiting(w)
    BY <2>1, <2>5 DEF Waiting, InHand
  <2> QED
    BY <2>4, <2>6, <2>7
<1> QED
  BY <1>1, <1>2, <1>3, <1>4 DEF StoreInv

(* What keeps the parts of the invariant for a worker. *)
LEMMA WorkingSame ==
  ASSUME NEW w, setup' = setup,
         get'[w] = get[w], base'[w] = base[w], wpc'[w] = wpc[w], batch'[w] = batch[w],
         grad'[w] = grad[w], Working(w)
  PROVE  Working(w)'
BY DEF Working, LRKind

LEMMA ServingSame ==
  ASSUME NEW w, setup' = setup,
         put'[w] = put[w], model_lock' = w <=> model_lock = w,
         pushed'[w] = pushed[w], gradConn'[w] = gradConn[w],
         put[w].pc # "apply" \/ (Store' = Store /\ committed' = committed), Serving(w)
  PROVE  Serving(w)'
<1>1. CASE put[w].pc # "apply"
  BY <1>1 DEF Serving
<1>2. CASE Store' = Store /\ committed' = committed
  BY <1>2 DEF Serving
<1> QED
  BY <1>1, <1>2

LEMMA WaitingSame ==
  ASSUME NEW w, setup' = setup, put'[w].pc = put[w].pc,
         pushed'[w] = pushed[w], gradConn'[w] = gradConn[w], Waiting(w)
  PROVE  Waiting(w)'
<1>1. InHand(w)' = InHand(w)
  BY DEF InHand
<1> QED
  BY <1>1 DEF Waiting

LEMMA SettledSame ==
  ASSUME setup' = setup, Store' = Store, committed' = committed, model_lock' = model_lock, Settled
  PROVE  Settled'
<1>1. ModelCells' = ModelCells
  BY DEF ModelCells, LRKind
<1> QED
  BY <1>1 DEF Settled

(* A step of the worker v or of its handlers. *)
LEMMA StoreStepOf ==
  ASSUME StoreInv, setup' = setup, Domains', Settled',
         NEW v \in W, Working(v)', Serving(v)', crashed' = "no" => crashed = "no" /\ Waiting(v)',
         \A w \in W \ {v} : /\ get'[w] = get[w] /\ base'[w] = base[w] /\ wpc'[w] = wpc[w]
                            /\ batch'[w] = batch[w] /\ grad'[w] = grad[w]
                            /\ put'[w] = put[w] /\ (model_lock' = w <=> model_lock = w)
                            /\ pushed'[w] = pushed[w] /\ gradConn'[w] = gradConn[w]
                            /\ put[w].pc # "apply" \/ (Store' = Store /\ committed' = committed)
  PROVE  StoreInv'
<1>1. W' = W /\ setup' \in Setups
  BY DEF W, StoreInv
<1>2. ASSUME NEW w \in W \ {v} PROVE Working(w)'
  BY <1>2, WorkingSame DEF StoreInv
<1>3. ASSUME NEW w \in W \ {v} PROVE Serving(w)'
  BY <1>3, ServingSame DEF StoreInv
<1>4. ASSUME crashed' = "no", NEW w \in W \ {v} PROVE Waiting(w)'
  <2>1. Waiting(w) /\ put'[w].pc = put[w].pc
    BY <1>4 DEF StoreInv
  <2> QED
    BY <2>1, WaitingSame
<1> QED
  BY <1>1, <1>2, <1>3, <1>4 DEF StoreInv

LEMMA StoreGet ==
  ASSUME StoreInv, NEW v \in W, GetMinibatch(v)
  PROVE  StoreInv'
<1> DEFINE msg == IF LRKind THEN LR!LRRequestWords(batch'[v])
                  ELSE MFRequestWords(base[v], batch'[v], MiniBatch)
           req == [pc |-> "sent", msg |-> msg, cells |-> <<>>, out |-> <<>>]
<1>1. /\ wpc[v] = "next" /\ (NextSamples(v) \/ NextRows(v))
      /\ get' = [get EXCEPT ![v] = req] /\ wpc' = [wpc EXCEPT ![v] = "model"]
      /\ UNCHANGED <<setup, model, opt, model_lock, crashed, put, gradConn, base, grad,
                     pushed, committed>>
  BY DEF GetMinibatch, serverVars
<1>2. setup \in Setups /\ Domains /\ Working(v) /\ Serving(v) /\ Settled
  BY DEF StoreInv
<1>3. \E b : batch' = [batch EXCEPT ![v] = b] /\ IsBatch(setup, b)
  <2>1. CASE NextSamples(v)
    <3>1. PICK b \in setup.batches : batch' = [batch EXCEPT ![v] = b]
      BY <2>1 DEF NextSamples
    <3>2. b \in Seq(Sample) /\ LRKind
      BY <1>2, <2>1, SetupFacts DEF NextSamples
    <3> QED
      BY <3>1, <3>2 DEF IsBatch, LRKind
  <2>2. CASE NextRows(v)
    <3>1. batch' = [batch EXCEPT ![v] = Rows(iter[v])] /\ Stored(iter[v]) /\ ~LRKind
      BY <2>2 DEF NextRows
    <3>2. IsBatch(setup, Rows(iter[v]))
      BY <1>2, <3>1, RowsAreBatch DEF IsBatch, LRKind
    <3> QED
      BY <3>1, <3>2
  <2> QED
    BY <1>1, <2>1, <2>2
<1>4. PICK b : batch' = [batch EXCEPT ![v] = b] /\ IsBatch(setup, b)
  BY <1>3
<1> HIDE DEF req
<1>5. /\ get'[v] = req /\ wpc'[v] = "model" /\ batch'[v] = b
      /\ \A w \in W \ {v} : get'[w] = get[w] /\ wpc'[w] = wpc[w] /\ batch'[w] = batch[w]
  BY <1>1, <1>2, <1>4 DEF Domains
<1>6. Domains'
  BY <1>1, <1>2, <1>4 DEF Domains, W
<1>7. Store' = Store
  BY <1>1 DEF Store
<1>8. Settled'
  BY <1>1, <1>2, <1>7, SettledSame
<1>9. IF LRKind THEN req.msg = LR!LRRequestWords(b) ELSE req.msg[1] = Len(ItemOrder(b))
  <2>1. req.msg = IF LRKind THEN LR!LRRequestWords(b)
                  ELSE MFRequestWords(base[v], b, MiniBatch)
    BY <1>5 DEF req
  <2>2. ASSUME ~LRKind PROVE req.msg[1] = Len(ItemOrder(b))
    <3>1. b \in Seq(Seq(Nat \X Int))
      BY <1>4, <2>2 DEF IsBatch, LRKind
    <3> QED
      BY <2>1, <2>2, <3>1, RequestNamesItems
  <2> QED
    BY <2>1, <2>2
<1>10. req.pc = "sent" /\ req = [pc |-> req.pc, msg |-> req.msg, cells |-> req.cells, out |-> req.out]
  BY DEF req
<1>11. Working(v)'
  BY <1>1, <1>2, <1>4, <1>5, <1>9, <1>10 DEF Working, LRKind
<1>12. Serving(v)'
  BY <1>1, <1>2, <1>7, ServingSame
<1>13. crashed' = "no" => crashed = "no" /\ Waiting(v)'
  BY <1>1, WaitingSame DEF StoreInv
<1> QED
  BY <1>1, <1>2, <1>5, <1>6, <1>7, <1>8, <1>11, <1>12, <1>13, StoreStepOf DEF Domains

(* A worker that stops. *)
LEMMA StoreLeave ==
  ASSUME StoreInv, NEW v \in W, OverrunMessage(v) \/ AbortWorker(v)
  PROVE  StoreInv'
<1>1. /\ wpc' = [wpc EXCEPT ![v] = "abort"] /\ LRKind
      /\ UNCHANGED <<setup, model, opt, model_lock, crashed, put, get, gradConn, base, grad,
                     pushed, committed>>
  BY DEF OverrunMessage, NextSamples, AbortWorker, serverVars, history
<1>2. setup \in Setups /\ Domains /\ Working(v) /\ Serving(v) /\ Settled
  BY DEF StoreInv
<1>3. /\ DOMAIN batch' = W /\ IsBatch(setup, batch'[v])
      /\ \A w \in W \ {v} : batch'[w] = batch[w]
      /\ get[v].pc = "sent" => batch' = batch
  <2>1. CASE OverrunMessage(v)
    <3>1. wpc[v] = "next" /\ \E b \in setup.batches : batch' = [batch EXCEPT ![v] = b]
      BY <2>1 DEF OverrunMessage, NextSamples
    <3>2. PICK b \in setup.batches : batch' = [batch EXCEPT ![v] = b]
      BY <3>1
    <3>3. b \in Seq(Sample) /\ get[v].pc = "idle"
      BY <1>2, <3>1, SetupFacts DEF Working
    <3> QED
      BY <1>1, <1>2, <3>2, <3>3 DEF IsBatch, LRKind, Domains
  <2>2. CASE AbortWorker(v)
    <3>1. wpc[v] = "model" /\ batch' = batch
      BY <2>2 DEF AbortWorker
    <3> QED
      BY <1>2, <3>1 DEF Working, Domains
  <2> QED
    BY <2>1, <2>2
<1>4. wpc'[v] = "abort" /\ \A w \in W \ {v} : wpc'[w] = wpc[w]
  BY <1>1, <1>2 DEF Domains
<1>5. Domains'
  BY <1>1, <1>2, <1>3 DEF Domains, W
<1>6. Store' = Store
  BY <1>1 DEF Store
<1>7. Settled'
  BY <1>1, <1>2, <1>6, SettledSame
<1>8. Working(v)'
  BY <1>1, <1>2, <1>3, <1>4 DEF Working, LRKind
<1>9. Serving(v)'
  BY <1>1, <1>2, <1>6, ServingSame
<1>10. crashed' = "no" => crashed = "no" /\ Waiting(v)'
  BY <1>1, WaitingSame DEF StoreInv
<1> QED
  BY <1>1, <1>3, <1>4, <1>5, <1>6, <1>7, <1>8, <1>9, <1>10, StoreStepOf

LEMMA StoreCompute ==
  ASSUME StoreInv, NEW v \in W, ComputeGradient(v)
  PROVE  StoreInv'
<1> DEFINE none == [pc |-> "idle", msg |-> <<>>, cells |-> <<>>, out |-> <<>>]
<1>1. /\ wpc[v] = "model" /\ get[v].pc = "reply" /\ (LogisticGradient(v) \/ MFGradient(v))
      /\ get' = [get EXCEPT ![v] = none] /\ wpc' = [wpc EXCEPT ![v] = "grad"]
      /\ UNCHANGED <<setup, model, opt, model_lock, crashed, put, gradConn, base, batch,
                     pushed, committed>>
  BY DEF ComputeGradient, serverVars, history
<1>2. setup \in Setups /\ Domains /\ Working(v) /\ Serving(v) /\ Settled
  BY DEF StoreInv
<1>3. IsBatch(setup, batch[v])
  BY <1>1, <1>2 DEF Working
<1>4. \E g : grad' = [grad EXCEPT ![v] = g] /\ IsGradient(setup, g, base[v], batch[v])
  <2>1. CASE LogisticGradient(v)
    <3> DEFINE g == LR!minibatch_grad_sparse(batch[v], wmodel'[v], Epsilon, Threshold, part3[v]).grad
    <3>1. grad' = [grad EXCEPT ![v] = g] /\ LRKind
      BY <2>1 DEF LogisticGradient
    <3>2. batch[v] \in Seq(Sample)
      BY <1>3, <3>1 DEF IsBatch, LRKind
    <3>3. IsPairs(g)
      BY <3>2, SparseGradientIsPairs DEF Sample
    <3> QED
      BY <3>1, <3>3 DEF IsGradient, LRKind
  <2>2. CASE MFGradient(v)
    <3> DEFINE g == minibatch_grad(wmodel'[v], base[v], batch[v]).g
    <3>1. grad' = [grad EXCEPT ![v] = g] /\ ~LRKind
      BY <2>2 DEF MFGradient
    <3>2. batch[v] \in Seq(Seq(Nat \X Int))
      BY <1>3, <3>1 DEF IsBatch, LRKind
    <3>3. g = [c \in Cells(base[v] .. (base[v] + Len(batch[v]) - 1), Items(batch[v])) |-> g[c]]
      BY <3>2, MFGradientCells
    <3> HIDE DEF g
    <3>4. DOMAIN g = Cells(base[v] .. (base[v] + Len(batch[v]) - 1), Items(batch[v]))
      BY <3>3
    <3> QED
      BY <3>1, <3>4 DEF IsGradient, LRKind
  <2> QED
    BY <1>1, <2>1, <2>2
<1>5. PICK g : grad' = [grad EXCEPT ![v] = g] /\ IsGradient(setup, g, base[v], batch[v])
  BY <1>4
<1> HIDE DEF none
<1>6. /\ get'[v] = none /\ wpc'[v] = "grad" /\ grad'[v] = g
      /\ \A w \in W \ {v} : get'[w] = get[w] /\ wpc'[w] = wpc[w] /\ grad'[w] = grad[w]
  BY <1>1, <1>2, <1>5 DEF Domains
<1>7. Domains'
  BY <1>1, <1>2, <1>5 DEF Domains, W
<1>8. Store' = Store
  BY <1>1 DEF Store
<1>9. Settled'
  BY <1>1, <1>2, <1>8, SettledSame
<1>10. none.pc = "idle" /\ none = [pc |-> none.pc, msg |-> none.msg, cells |-> none.cells, out |-> none.out]
  BY DEF none
<1>11. Working(v)'
  BY <1>1, <1>2, <1>3, <1>5, <1>6, <1>10 DEF Working, LRKind
<1>12. Serving(v)'
  BY <1>1, <1>2, <1>8, ServingSame
<1>13. crashed' = "no" => crashed = "no" /\ Waiting(v)'
  BY <1>1, WaitingSame DEF StoreInv
<1> QED
  BY <1>1, <1>2, <1>6, <1>7, <1>8, <1>9, <1>11, <1>12, <1>13, StoreStepOf DEF Domains

LEMMA StorePush ==
  ASSUME StoreInv, NEW v \in W, PushGradient(v)
  PROVE  StoreInv'
<1> DEFINE msg == IF LRKind THEN LR!LRGradientWords(count[v] + 1, grad[v])
                  ELSE MFGradientWords(grad[v], MFUsers(v), ItemOrder(batch[v]))
           pc == IF setup.test_iters > 0 /\ count'[v] > setup.test_iters THEN "exit" ELSE "next"
           q == gradConn[v]
           p == pushed[v]
           g == grad[v]
<1>1. /\ wpc[v] = "grad"
      /\ gradConn' = [gradConn EXCEPT ![v] = Append(q, msg)]
      /\ pushed' = [pushed EXCEPT ![v] = Append(p, g)]
      /\ base' = IF LRKind THEN base ELSE [base EXCEPT ![v] = next_index(v, base[v])]
      /\ wpc' = [wpc EXCEPT ![v] = pc]
      /\ grad' = [grad EXCEPT ![v] = <<>>] /\ batch' = [batch EXCEPT ![v] = <<>>]
      /\ UNCHANGED <<setup, model, opt, model_lock, crashed, put, get, committed>>
  BY DEF PushGradient, serverVars
<1>2. /\ setup \in Setups /\ Domains /\ Working(v) /\ Serving(v) /\ Settled
      /\ crashed = "no" => Waiting(v)
  BY DEF StoreInv
<1>3. pc \in {"exit", "next"}
  OBVIOUS
<1> HIDE DEF msg, pc
<1>4. /\ gradConn'[v] = Append(q, msg) /\ pushed'[v] = Append(p, g) /\ wpc'[v] = pc
      /\ ~LRKind => base'[v] = next_index(v, base[v])
      /\ \A w \in W \ {v} : /\ gradConn'[w] = gradConn[w] /\ pushed'[w] = pushed[w]
                            /\ wpc'[w] = wpc[w] /\ base'[w] = base[w]
                            /\ grad'[w] = grad[w] /\ batch'[w] = batch[w]
  BY <1>1, <1>2 DEF Domains
<1>5. Domains'
  BY <1>1, <1>2 DEF Domains, W
<1>6. Store' = Store
  BY <1>1 DEF Store
<1>7. Settled'
  BY <1>1, <1>2, <1>6, SettledSame
<1>8. get[v].pc = "idle"
  BY <1>1, <1>2 DEF Working
<1>9. ~LRKind => base'[v] \in Int
  <2>1. sample_low(v) \in Int /\ MiniBatch \in Int
    BY <1>2, RangeFacts, SizeAssumption
  <2> QED
    BY <1>2, <1>4, <2>1 DEF Working, next_index
<1>10. Working(v)'
  BY <1>1, <1>2, <1>3, <1>4, <1>8, <1>9 DEF Working, LRKind
<1>11. /\ U!IsSeq(Append(q, msg)) /\ Len(Append(q, msg)) = Len(q) + 1
       /\ Append(q, msg)[Len(q) + 1] = msg /\ \A i \in 1 .. Len(q) : Append(q, msg)[i] = q[i]
  BY <1>2, U!SeqAppend DEF Serving
<1>12. /\ U!IsSeq(Append(p, g)) /\ Append(p, g) # <<>> /\ Len(Append(p, g)) = Len(p) + 1
       /\ Append(p, g)[Len(p) + 1] = g /\ \A i \in 1 .. Len(p) : Append(p, g)[i] = p[i]
  BY <1>2, U!SeqAppend DEF Serving
<1>13. U!IsSeq(p) /\ U!IsSeq(q) /\ Len(p) \in Nat /\ Len(q) \in Nat
  BY <1>2, U!SeqLength DEF Serving
<1>14. p # <<>> => Head(Append(p, g)) = Head(p)
  <2> SUFFICES ASSUME p # <<>> PROVE Head(Append(p, g)) = Head(p)
    OBVIOUS
  <2>1. Head(p) = p[1] /\ 1 \in 1 .. Len(p)
    BY <1>13, U!SeqTail
  <2>2. Head(Append(p, g)) = Append(p, g)[1]
    BY <1>12, U!SeqTail
  <2> QED
    BY <1>12, <2>1, <2>2
<1>15. Serving(v)'
  BY <1>1, <1>2, <1>4, <1>6, <1>11, <1>12, <1>14 DEF Serving
<1>16. Carries(setup, msg, g)
  <2>1. IsBatch(setup, batch[v]) /\ IsGradient(setup, g, base[v], batch[v])
    BY <1>1, <1>2 DEF Working
  <2> DEFINE first == IF LRKind THEN 0 ELSE base[v]
  <2>2. first \in Int /\ IsGradient(setup, g, first, batch[v])
    BY <1>2, <2>1 DEF Working, IsGradient, LRKind
  <2> HIDE DEF first
  <2>3. Carries(setup, IF setup.kind = "lr" THEN LR!LRGradientWords(count[v] + 1, g)
                       ELSE MFGradientWords(g, [i \in 1 .. Len(batch[v]) |-> first + i - 1],
                                            ItemOrder(batch[v])), g)
    BY <1>2, <2>1, <2>2, GradientCarried
  <2>4. CASE LRKind
    BY <2>3, <2>4 DEF msg, LRKind
  <2>5. CASE ~LRKind
    <3>1. MFUsers(v) = [i \in 1 .. Len(batch[v]) |-> first + i - 1]
      BY <2>5 DEF MFUsers, first
    <3> QED
      BY <2>3, <2>5, <3>1 DEF msg, LRKind
  <2> QED
    BY <2>4, <2>5
<1>17. ASSUME Waiting(v) PROVE Waiting(v)'
  <2> DEFINE h == InHand(v)
  <2>1. h \in {0, 1} /\ InHand(v)' = h
    BY <1>1 DEF InHand
  <2>2. Len(p) = Len(q) + h /\ \A i \in 1 .. Len(q) : Carries(setup, q[i], p[i + h])
    BY <1>17 DEF Waiting
  <2> HIDE DEF h, q, p, g
  <2>3. Len(Append(p, g)) = Len(Append(q, msg)) + h
    BY <1>11, <1>12, <1>13, <2>1, <2>2
  <2>4. ASSUME NEW i \in 1 .. Len(Append(q, msg))
        PROVE  Carries(setup, Append(q, msg)[i], Append(p, g)[i + h])
    <3>1. i = Len(q) + 1 \/ i \in 1 .. Len(q)
      BY <1>11, <1>13
    <3>2. CASE i = Len(q) + 1
      <4>1. i + h = Len(p) + 1
        BY <1>13, <2>1, <2>2, <3>2
      <4> QED
        BY <1>11, <1>12, <1>16, <3>2, <4>1
    <3>3. CASE i \in 1 .. Len(q)
      <4>1. i + h \in 1 .. Len(p)
        BY <1>13, <2>1, <2>2, <3>3
      <4> QED
        BY <1>11, <1>12, <2>2, <3>3, <4>1
    <3> QED
      BY <3>1, <3>2, <3>3
  <2>5. gradConn'[v] = Append(q, msg) /\ pushed'[v] = Append(p, g) /\ setup' = setup
    BY <1>1, <1>4
  <2> QED
    BY <2>1, <2>3, <2>4, <2>5 DEF Waiting
<1>18. crashed' = "no" => crashed = "no" /\ Waiting(v)'
  BY <1>1, <1>2, <1>17
<1> HIDE DEF q, p, g
<1> QED
  BY <1>1, <1>2, <1>4, <1>5, <1>6, <1>7, <1>10, <1>15, <1>18, StoreStepOf DEF Domains

(* What is wrong with a gradient that the server refuses. *)
LEMMA RefusedFor ==
  ASSUME setup \in Setups, NEW msg, Len(msg) \in Nat
  PROVE  /\ Refused(msg) \in {"no", "Not enough buffer", "num_weights"}
         /\ Refused(msg) = "no" => ~NoWeights(msg)
         /\ Refused(msg) = "Not enough buffer" => Len(msg) > setup.buffer
         /\ Refused(msg) = "num_weights" => NoWeights(msg)
<1>1. setup.buffer \in Nat
  BY SetupFacts
<1>2. CASE Len(msg) > setup.buffer
  <2>1. ~(Len(msg) <= setup.buffer)
    BY <1>1, <1>2
  <2>2. Refused(msg) = "Not enough buffer"
    BY <1>2, <2>1 DEF Refused
  <2> QED
    BY <1>2, <2>2
<1>3. CASE Len(msg) <= setup.buffer
  <2>1. ~(Len(msg) > setup.buffer)
    BY <1>1, <1>3
  <2>2. Refused(msg) = IF NoWeights(msg) THEN "num_weights" ELSE "no"
    BY <1>3, <2>1 DEF Refused
  <2> QED
    BY <2>2
<1>4. Len(msg) > setup.buffer \/ Len(msg) <= setup.buffer
  BY <1>1
<1> QED
  BY <1>2, <1>3, <1>4, Zenon

(* The next message is that of the first gradient which is not served yet. *)
LEMMA FirstCarried ==
  ASSUME StoreInv, crashed = "no", NEW v \in W, put[v].pc = "idle", gradConn[v] # <<>>
  PROVE  /\ Len(pushed[v]) = Len(gradConn[v])
         /\ \A i \in 1 .. Len(gradConn[v]) : Carries(setup, gradConn[v][i], pushed[v][i])
         /\ pushed[v] # <<>> /\ Carries(setup, Head(gradConn[v]), Head(pushed[v]))
<1> DEFINE q == gradConn[v]
           p == pushed[v]
<1>1. Serving(v) /\ Waiting(v)
  BY DEF StoreInv
<1>2. U!IsSeq(p) /\ U!IsSeq(q) /\ Len(p) \in Nat /\ Len(q) \in Nat
  BY <1>1, U!SeqLength DEF Serving
<1>3. Head(q) = q[1] /\ 1 \in 1 .. Len(q)
  BY <1>2, U!SeqTail
<1>4. Len(p) = Len(q) /\ \A i \in 1 .. Len(q) : Carries(setup, q[i], p[i])
  <2>1. InHand(v) = 0
    BY DEF InHand
  <2>2. \A i \in 1 .. Len(q) : i + 0 = i
    OBVIOUS
  <2> QED
    BY <1>1, <1>2, <2>1, <2>2 DEF Waiting
<1>5. p # <<>>
  BY <1>2, <1>3, <1>4, U!SeqLength
<1>6. Head(p) = p[1]
  BY <1>2, <1>5, U!SeqTail
<1> QED
  BY <1>3, <1>4, <1>5, <1>6

LEMMA StoreReceive ==
  ASSUME StoreInv, crashed = "no", NEW v \in W, GradientReceive(v)
  PROVE  StoreInv'
<1> DEFINE q == gradConn[v]
           p == pushed[v]
           msg == Head(q)
           todo == IF LRKind THEN LR!loadLRGradient(msg) ELSE loadMFGradient(msg)
<1>1. /\ put[v].pc = "idle" /\ q # <<>>
      /\ gradConn' = [gradConn EXCEPT ![v] = Tail(q)]
      /\ crashed' = Refused(msg)
      /\ put' = IF Refused(msg) # "no" THEN put
                ELSE [put EXCEPT ![v] = [pc |-> "lock", todo |-> todo]]
      /\ UNCHANGED <<setup, model, opt, model_lock, get, wpc, batch, base, grad, pushed, committed>>
  BY DEF GradientReceive, workerVars, history
<1>2. /\ setup \in Setups /\ Domains /\ Working(v) /\ Serving(v) /\ Settled
      /\ Waiting(v)
  BY DEF StoreInv
<1> HIDE DEF todo
<1>3. /\ gradConn'[v] = Tail(q)
      /\ \A w \in W \ {v} : gradConn'[w] = gradConn[w] /\ put'[w] = put[w]
      /\ put'[v] = IF Refused(msg) # "no" THEN put[v] ELSE [pc |-> "lock", todo |-> todo]
  BY <1>1, <1>2 DEF Domains
<1>4. Domains'
  BY <1>1, <1>2 DEF Domains, W
<1>5. Store' = Store
  BY <1>1 DEF Store
<1>6. Settled'
  BY <1>1, <1>2, <1>5, SettledSame
<1>7. Working(v)'
  BY <1>1, <1>2, WorkingSame
<1>8. U!IsSeq(p) /\ U!IsSeq(q) /\ Len(p) \in Nat /\ Len(q) \in Nat
  BY <1>2, U!SeqLength DEF Serving
<1>9. /\ U!IsSeq(Tail(q)) /\ Len(Tail(q)) = Len(q) - 1 /\ msg = q[1] /\ 1 \in 1 .. Len(q)
      /\ \A i \in 1 .. Len(Tail(q)) : i + 1 \in 1 .. Len(q) /\ Tail(q)[i] = q[i + 1]
  BY <1>1, <1>8, U!SeqTail
<1>10. Len(p) = Len(q) /\ \A i \in 1 .. Len(q) : Carries(setup, q[i], p[i])
  BY <1>1, FirstCarried
<1>11. p # <<>> /\ Carries(setup, msg, Head(p))
  BY <1>1, FirstCarried
<1> HIDE DEF msg
<1>12. CASE Refused(msg) # "no"
  <2>1. Serving(v)'
    BY <1>1, <1>2, <1>3, <1>9, <1>12 DEF Serving
  <2>2. crashed' # "no"
    BY <1>1, <1>12
  <2> QED
    BY <1>1, <1>3, <1>4, <1>5, <1>6, <1>7, <1>12, <2>1, <2>2, StoreStepOf
<1>13. CASE Refused(msg) = "no"
  <2>0. ~NoWeights(msg)
    BY <1>2, <1>11, <1>13, RefusedFor DEF Carries
  <2>1. Whole(setup, todo, Head(p))
    <3>1. CASE LRKind
      <4>1. U!IsSeq(Head(p)) /\ todo = Head(p) /\ Len(Head(p)) # 0
        BY <1>11, <2>0, <3>1 DEF Carries, LRKind, NoWeights, LR!CountOK, todo
      <4>2. Head(p) # <<>>
        BY <4>1, U!SeqLength
      <4> QED
        BY <3>1, <4>1, <4>2 DEF Whole, LRKind
    <3>2. CASE ~LRKind
      BY <1>11, <3>2 DEF Carries, LRKind, todo
    <3> QED
      BY <3>1, <3>2
  <2>2. put'[v] = [pc |-> "lock", todo |-> todo] /\ crashed' = crashed
    BY <1>1, <1>3, <1>13
  <2>3. put'[v].pc = "lock" /\ put'[v].todo = todo
    BY <2>2
  <2>4. Serving(v)'
    <3>1. model_lock' # v
      BY <1>1, <1>2 DEF Serving
    <3> QED
      BY <1>1, <1>2, <1>3, <1>8, <1>9, <1>11, <2>1, <2>2, <2>3, <3>1 DEF Serving
  <2>5. Waiting(v)'
    <3>1. InHand(v)' = 1
      BY <2>3 DEF InHand
    <3>2. Len(p) = Len(Tail(q)) + 1
      BY <1>8, <1>9, <1>10
    <3>3. \A i \in 1 .. Len(Tail(q)) : Carries(setup, Tail(q)[i], p[i + 1])
      BY <1>9, <1>10
    <3>4. gradConn'[v] = Tail(q) /\ pushed'[v] = p /\ setup' = setup
      BY <1>1, <1>3
    <3> HIDE DEF p, q
    <3> QED
      BY <3>1, <3>2, <3>3, <3>4 DEF Waiting
  <2> QED
    BY <1>1, <1>3, <1>4, <1>5, <1>6, <1>7, <2>2, <2>4, <2>5, StoreStepOf
<1> QED
  BY <1>12, <1>13

LEMMA StoreLock ==
  ASSUME StoreInv, NEW v \in W, GradientLock(v)
  PROVE  StoreInv'
<1>1. /\ put[v].pc = "lock" /\ model_lock = Nobody /\ model_lock' = v
      /\ put' = [put EXCEPT ![v].pc = "apply"]
      /\ UNCHANGED <<setup, model, opt, crashed, get, gradConn, wpc, batch, base, grad,
                     pushed, committed>>
  BY DEF GradientLock, workerVars, history
<1>2. /\ setup \in Setups /\ Domains /\ Working(v) /\ Serving(v) /\ Settled
      /\ crashed = "no" => Waiting(v)
  BY DEF StoreInv
<1>3. v # Nobody /\ \A w \in W : w # Nobody
  BY <1>2, WorkerNumbers
<1>4. /\ put'[v].pc = "apply" /\ put'[v].todo = put[v].todo
      /\ put'[v] = [pc |-> put'[v].pc, todo |-> put'[v].todo]
      /\ \A w \in W \ {v} : put'[w] = put[w]
  <2>1. put[v] = [pc |-> put[v].pc, todo |-> put[v].todo]
    BY <1>2 DEF Serving
  <2> QED
    BY <1>1, <1>2, <2>1 DEF Domains
<1>5. Domains'
  BY <1>1, <1>2 DEF Domains, W
<1>6. Store' = Store /\ Store = committed
  BY <1>1, <1>2 DEF Store, Settled
<1>7. Settled'
  <2>1. ModelCells' = ModelCells
    BY <1>1 DEF ModelCells, LRKind
  <2> QED
    BY <1>1, <1>2, <1>3, <1>6, <2>1 DEF Settled
<1>8. Working(v)'
  BY <1>1, <1>2, WorkingSame
<1>9. Applying(setup, committed, Store, put[v].todo, Head(pushed[v]))
  <2>1. Whole(setup, put[v].todo, Head(pushed[v]))
    BY <1>1, <1>2 DEF Serving
  <2>2. Applying(setup, Store, Store, put[v].todo, Head(pushed[v]))
    BY <2>1, ApplyStarts
  <2> QED
    BY <1>6, <2>2
<1>10. Serving(v)'
  BY <1>1, <1>2, <1>4, <1>6, <1>9 DEF Serving
<1>11. crashed' = "no" => crashed = "no" /\ Waiting(v)'
  <2>1. InHand(v)' = InHand(v)
    BY <1>1, <1>4 DEF InHand
  <2> QED
    BY <1>1, <1>2, <2>1 DEF Waiting
<1>12. \A w \in W \ {v} : model_lock' = w <=> model_lock = w
  BY <1>1, <1>3
<1> QED
  BY <1>1, <1>2, <1>4, <1>5, <1>6, <1>7, <1>8, <1>10, <1>11, <1>12, StoreStepOf

LEMMA StoreApply ==
  ASSUME StoreInv, crashed = "no", NEW v \in W, GradientApply(v)
  PROVE  StoreInv'
<1> DEFINE st == sgd_update(Store, Head(put[v].todo))
           todo == put[v].todo
           g == Head(pushed[v])
           last == Len(todo) = 1
           pc == IF last THEN "count" ELSE "apply"
<1>1. /\ put[v].pc = "apply" /\ model' = st.w /\ opt' = [hist |-> st.hist, avg |-> st.avg]
      /\ put' = [put EXCEPT ![v] = [pc |-> pc, todo |-> Tail(todo)]]
      /\ model_lock' = IF last THEN Nobody ELSE model_lock
      /\ IF last THEN /\ committed' = ApplyAtOnce(committed, g)
                      /\ pushed' = [pushed EXCEPT ![v] = Tail(pushed[v])]
         ELSE UNCHANGED <<committed, pushed>>
      /\ UNCHANGED <<setup, crashed, get, gradConn, wpc, batch, base, grad>>
  BY DEF GradientApply, Unlock, workerVars
<1>2. /\ setup \in Setups /\ Domains /\ Working(v) /\ Serving(v) /\ Settled
      /\ crashed = "no" => Waiting(v)
  BY DEF StoreInv
<1>3. v # Nobody /\ \A w \in W : w # Nobody
  BY <1>2, WorkerNumbers
<1>4. /\ model_lock = v /\ pushed[v] # <<>> /\ Applying(setup, committed, Store, todo, g)
      /\ U!IsSeq(pushed[v]) /\ U!IsSeq(gradConn[v])
  BY <1>1, <1>2 DEF Serving
<1> HIDE DEF pc, last, todo, g
<1>5. /\ put'[v] = [pc |-> pc, todo |-> Tail(todo)]
      /\ put'[v].pc = pc /\ put'[v].todo = Tail(todo)
      /\ \A w \in W \ {v} : put'[w] = put[w]
  BY <1>1, <1>2 DEF Domains
<1>6. Domains'
  BY <1>1, <1>2 DEF Domains, W
<1>7. ModelCells' = ModelCells
  BY <1>1 DEF ModelCells, LRKind
<1>8. st = UpdateOp(setup, Store, Head(todo))
  BY UpdateIsOp DEF todo
<1>9. IsStore(st, ModelCells)
  BY <1>2, <1>8, UpdateKeepsStore, SetupFacts DEF Settled
<1> HIDE DEF st
<1>10. Store' = st
  BY <1>1, <1>9 DEF Store, IsStore
<1>11. Working(v)'
  BY <1>1, <1>2, WorkingSame
<1>12. \A w \in W \ {v} : /\ put[w].pc # "apply"
                          /\ model_lock' = w <=> model_lock = w
                          /\ pushed'[w] = pushed[w]
  <2>1. ASSUME NEW w \in W \ {v} PROVE put[w].pc # "apply"
    BY <1>4 DEF StoreInv, Serving
  <2>2. \A w \in W \ {v} : model_lock' # w /\ model_lock # w
    BY <1>1, <1>3, <1>4
  <2>3. \A w \in W \ {v} : pushed'[w] = pushed[w]
    BY <1>1, <1>2 DEF Domains
  <2> QED
    BY <2>1, <2>2, <2>3
<1>13. CASE last
  <2> DEFINE p == pushed[v]
             q == gradConn[v]
  <2>1. /\ pc = "count" /\ model_lock' = Nobody /\ committed' = ApplyAtOnce(committed, g)
        /\ pushed'[v] = Tail(p)
    BY <1>1, <1>2, <1>13 DEF pc, Domains
  <2>2. committed' = st
    <3>1. ApplyAtOnce(committed, g) = AtOnce(setup, committed, g)
      BY AtOnceIsApply
    <3>2. UpdateOp(setup, Store, Head(todo)) = AtOnce(setup, committed, g)
      BY <1>2, <1>4, <1>13, ApplyEnds DEF last, Settled
    <3> QED
      BY <1>8, <2>1, <3>1, <3>2
  <2>3. Settled'
    BY <1>7, <1>9, <1>10, <2>1, <2>2 DEF Settled
  <2>4. /\ U!IsSeq(Tail(p)) /\ Len(Tail(p)) = Len(p) - 1
        /\ \A i \in 1 .. Len(Tail(p)) : i + 1 \in 1 .. Len(p) /\ Tail(p)[i] = p[i + 1]
        /\ Len(p) \in Nat /\ Len(q) \in Nat
    BY <1>4, U!SeqTail, U!SeqLength
  <2>5. Serving(v)'
    BY <1>1, <1>3, <1>4, <1>5, <2>1, <2>4 DEF Serving
  <2>6. ASSUME Waiting(v) PROVE Waiting(v)'
    <3>1. InHand(v) = 1 /\ InHand(v)' = 0
      BY <1>1, <1>5, <2>1 DEF InHand
    <3>2. Len(p) = Len(q) + 1 /\ \A i \in 1 .. Len(q) : Carries(setup, q[i], p[i + 1])
      BY <2>6, <3>1 DEF Waiting
    <3>3. gradConn'[v] = q /\ pushed'[v] = Tail(p) /\ setup' = setup
      BY <1>1, <2>1
    <3> HIDE DEF p, q
    <3>4. Len(Tail(p)) = Len(q) + 0
      BY <2>4, <3>2
    <3>5. \A i \in 1 .. Len(q) : Carries(setup, q[i], Tail(p)[i + 0])
      BY <2>4, <3>2, <3>4
    <3> QED
      BY <3>1, <3>3, <3>4, <3>5 DEF Waiting
  <2>7. crashed' = "no" => crashed = "no" /\ Waiting(v)'
    BY <1>1, <1>2, <2>6
  <2> QED
    BY <1>1, <1>5, <1>6, <1>11, <1>12, <2>3, <2>5, <2>7, StoreStepOf
<1>14. CASE ~last
  <2>1. /\ pc = "apply" /\ model_lock' = v /\ committed' = committed /\ pushed' = pushed
    BY <1>1, <1>4, <1>14 DEF pc
  <2>2. Applying(setup, committed, st, Tail(todo), g)
    BY <1>4, <1>8, <1>14, ApplyGoesOn DEF last
  <2>3. Settled'
    BY <1>2, <1>3, <1>7, <1>9, <1>10, <2>1 DEF Settled
  <2>4. Serving(v)'
    BY <1>1, <1>4, <1>5, <1>10, <2>1, <2>2 DEF Serving, g
  <2>5. crashed' = "no" => crashed = "no" /\ Waiting(v)'
    BY <1>1, <1>2, <1>5, <2>1, WaitingSame
  <2> QED
    BY <1>1, <1>5, <1>6, <1>11, <1>12, <2>1, <2>3, <2>4, <2>5, StoreStepOf
<1> QED
  BY <1>13, <1>14

LEMMA StoreCount ==
  ASSUME StoreInv, NEW v \in W, GradientCount(v)
  PROVE  StoreInv'
<1>1. /\ put[v].pc = "count" /\ put' = [put EXCEPT ![v].pc = "idle"]
      /\ UNCHANGED <<setup, model, opt, model_lock, crashed, get, gradConn, wpc, batch, base,
                     grad, pushed, committed>>
  BY DEF GradientCount, workerVars
<1>2. /\ setup \in Setups /\ Domains /\ Working(v) /\ Serving(v) /\ Settled
      /\ crashed = "no" => Waiting(v)
  BY DEF StoreInv
<1>3. /\ put'[v].pc = "idle"
      /\ put'[v] = [pc |-> put'[v].pc, todo |-> put'[v].todo]
      /\ \A w \in W \ {v} : put'[w] = put[w]
  <2>1. put[v] = [pc |-> put[v].pc, todo |-> put[v].todo]
    BY <1>2 DEF Serving
  <2> QED
    BY <1>1, <1>2, <2>1 DEF Domains
<1>4. Domains'
  BY <1>1, <1>2 DEF Domains, W
<1>5. Store' = Store
  BY <1>1 DEF Store
<1>6. Settled'
  BY <1>1, <1>2, <1>5, SettledSame
<1>7. Working(v)'
  BY <1>1, <1>2, WorkingSame
<1>8. Serving(v)'
  BY <1>1, <1>2, <1>3 DEF Serving
<1>9. crashed' = "no" => crashed = "no" /\ Waiting(v)'
  <2>1. InHand(v)' = InHand(v)
    BY <1>1, <1>3 DEF InHand
  <2> QED
    BY <1>1, <1>2, <2>1 DEF Waiting
<1> QED
  BY <1>1, <1>3, <1>4, <1>5, <1>6, <1>7, <1>8, <1>9, StoreStepOf

(* A step of the handler of requests that goes on with x. *)
LEMMA StoreModels ==
  ASSUME StoreInv, crashed = "no", NEW v \in W, NEW x, get' = [get EXCEPT ![v] = x],
         get[v].pc # "idle", x.pc # "sent",
         x = [pc |-> x.pc, msg |-> x.msg, cells |-> x.cells, out |-> x.out],
         UNCHANGED <<setup, serverVars, put, gradConn, workerVars, history>>
  PROVE  StoreInv'
<1>1. UNCHANGED <<setup, model, opt, model_lock, crashed, put, gradConn, wpc, batch, base,
                  grad, pushed, committed>>
  BY DEF serverVars, workerVars, history
<1>2. /\ setup \in Setups /\ Domains /\ Working(v) /\ Serving(v) /\ Settled
      /\ crashed = "no" => Waiting(v)
  BY DEF StoreInv
<1>3. get'[v] = x /\ \A w \in W \ {v} : get'[w] = get[w]
  BY <1>2 DEF Domains
<1>4. Domains'
  BY <1>1, <1>2 DEF Domains, W
<1>5. Store' = Store
  BY <1>1 DEF Store
<1>6. Settled'
  BY <1>1, <1>2, <1>5, SettledSame
<1>7. Working(v)'
  BY <1>1, <1>2, <1>3 DEF Working, LRKind
<1>8. Serving(v)'
  BY <1>1, <1>2, <1>5, ServingSame
<1>9. crashed' = "no" => crashed = "no" /\ Waiting(v)'
  BY <1>1, <1>2, WaitingSame
<1> QED
  BY <1>1, <1>3, <1>4, <1>5, <1>6, <1>7, <1>8, <1>9, StoreStepOf

(* What RequestReceive, ReadWeight and EditWeight set in the record of a request.       *)
GetRecord(g) == g = [pc |-> g.pc, msg |-> g.msg, cells |-> g.cells, out |-> g.out]

LEMMA GetReads ==
  ASSUME NEW g, GetRecord(g), NEW p, NEW o
  PROVE  [g EXCEPT !.out = o, !.pc = p]
           = [pc |-> p, msg |-> g.msg, cells |-> g.cells, out |-> o]
<1> USE DEF GetRecord
<1> DEFINE h == [g EXCEPT !.out = o]
<1>1. h = [pc |-> g.pc, msg |-> g.msg, cells |-> g.cells, out |-> o]
  OBVIOUS
<1>2. [g EXCEPT !.out = o, !.pc = p] = [h EXCEPT !.pc = p]
  BY Zenon
<1> HIDE DEF h
<1>3. /\ h.msg = g.msg /\ h.cells = g.cells /\ h.out = o
      /\ h = [pc |-> h.pc, msg |-> h.msg, cells |-> h.cells, out |-> h.out]
  BY <1>1
<1>4. [h EXCEPT !.pc = p] = [pc |-> p, msg |-> h.msg, cells |-> h.cells, out |-> h.out]
  BY <1>3
<1> QED
  BY <1>2, <1>3, <1>4

LEMMA GetRequested ==
  ASSUME NEW g, GetRecord(g), NEW p, NEW c
  PROVE  [g EXCEPT !.pc = p, !.cells = c]
           = [pc |-> p, msg |-> g.msg, cells |-> c, out |-> g.out]
<1> USE DEF GetRecord
<1> DEFINE h == [g EXCEPT !.pc = p]
<1>1. h = [pc |-> p, msg |-> g.msg, cells |-> g.cells, out |-> g.out]
  OBVIOUS
<1>2. [g EXCEPT !.pc = p, !.cells = c] = [h EXCEPT !.cells = c]
  BY Zenon
<1> HIDE DEF h
<1>3. /\ h.msg = g.msg /\ h.pc = p /\ h.out = g.out
      /\ h = [pc |-> h.pc, msg |-> h.msg, cells |-> h.cells, out |-> h.out]
  BY <1>1
<1>4. [h EXCEPT !.cells = c] = [pc |-> h.pc, msg |-> h.msg, cells |-> c, out |-> h.out]
  BY <1>3
<1> QED
  BY <1>2, <1>3, <1>4

LEMMA StoreReads ==
  ASSUME StoreInv, crashed = "no", NEW v \in W, ReadWeight(v) \/ EditWeight(v)
  PROVE  StoreInv'
<1> DEFINE g == get[v]
           Is(q) == q = [pc |-> q.pc, msg |-> q.msg, cells |-> q.cells, out |-> q.out]
<1>1. GetRecord(g) /\ DOMAIN get = W
  BY DEF StoreInv, Working, Domains, GetRecord
<1>2. \E x : /\ get' = [get EXCEPT ![v] = x] /\ Is(x) /\ x.pc # "sent"
             /\ g.pc # "idle"
  <2>1. CASE ReadWeight(v)
    <3> DEFINE out == Append(g.out, model[g.cells[Len(g.out) + 1]])
               pc == IF LRKind /\ setup.opt = "nesterov" THEN "edit" ELSE AfterRead(v, out)
               x == [pc |-> pc, msg |-> g.msg, cells |-> g.cells, out |-> out]
    <3>1. g.pc = "read" /\ get' = [get EXCEPT ![v].out = out, ![v].pc = pc]
      BY <2>1, Zenon DEF ReadWeight
    <3>2. pc # "sent"
      BY DEF AfterRead
    <3> HIDE DEF out, pc
    <3>3. get' = [get EXCEPT ![v] = x]
      <4>1. get' = [get EXCEPT ![v] = [g EXCEPT !.out = out, !.pc = pc]]
        BY <3>1
      <4>2. [g EXCEPT !.out = out, !.pc = pc] = x
        <5> HIDE DEF g
        <5> QED
          BY <1>1, GetReads, Zenon
      <4> QED
        BY <4>1, <4>2
    <3>4. Is(x) /\ x.pc = pc
      OBVIOUS
    <3> HIDE DEF x, Is
    <3> QED
      BY <3>1, <3>2, <3>3, <3>4
  <2>2. CASE EditWeight(v)
    <3> DEFINE out == [g.out EXCEPT ![Len(g.out)] = edit_weight(@)]
               pc == AfterRead(v, out)
               x == [pc |-> pc, msg |-> g.msg, cells |-> g.cells, out |-> out]
    <3>1. g.pc = "edit" /\ get' = [get EXCEPT ![v].out = out, ![v].pc = pc]
      BY <2>2, Zenon DEF EditWeight
    <3>2. pc # "sent"
      BY DEF AfterRead
    <3> HIDE DEF out, pc
    <3>3. get' = [get EXCEPT ![v] = x]
      <4>1. get' = [get EXCEPT ![v] = [g EXCEPT !.out = out, !.pc = pc]]
        BY <3>1
      <4>2. [g EXCEPT !.out = out, !.pc = pc] = x
        <5> HIDE DEF g
        <5> QED
          BY <1>1, GetReads, Zenon
      <4> QED
        BY <4>1, <4>2
    <3>4. Is(x) /\ x.pc = pc
      OBVIOUS
    <3> HIDE DEF x, Is
    <3> QED
      BY <3>1, <3>2, <3>3, <3>4
  <2> QED
    BY <2>1, <2>2
<1>3. PICK x : /\ get' = [get EXCEPT ![v] = x] /\ Is(x) /\ x.pc # "sent"
               /\ g.pc # "idle"
  BY <1>2
<1>4. UNCHANGED <<setup, serverVars, put, gradConn, workerVars, history>>
  BY DEF ReadWeight, EditWeight
<1> QED
  BY <1>3, <1>4, StoreModels

(* The server stops where it is. *)
LEMMA StoreStops ==
  ASSUME StoreInv, crashed' # "no",
         UNCHANGED <<setup, model, opt, model_lock, get, put, gradConn, wpc, batch, base, grad,
                     pushed, committed>>
  PROVE  StoreInv'
<1>1. /\ setup \in Setups /\ Domains /\ Settled
      /\ \A w \in W : Working(w) /\ Serving(w)
  BY DEF StoreInv
<1>2. Store' = Store
  BY DEF Store
<1>3. Settled' /\ Domains' /\ W' = W /\ setup' \in Setups
  BY <1>1, <1>2, SettledSame DEF Domains, W
<1>4. \A w \in W : Working(w)' /\ Serving(w)'
  BY <1>1, <1>2, WorkingSame, ServingSame
<1> QED
  BY <1>3, <1>4 DEF StoreInv

LEMMA StoreRequest ==
  ASSUME StoreInv, crashed = "no", NEW v \in W, RequestReceive(v)
  PROVE  StoreInv'
<1> DEFINE g == get[v]
           Then(q) == IF q = <<>> THEN "reply" ELSE "read"
<1>1. GetRecord(g) /\ DOMAIN get = W
  BY DEF StoreInv, Working, Domains, GetRecord
<1>2. /\ g.pc = "sent"
      /\ UNCHANGED <<setup, model, opt, model_lock, gradientUpdatesCount, put, gradConn,
                     workerVars, history>>
      /\ \/ crashed' # "no" /\ get' = get
         \/ /\ get' = [get EXCEPT ![v].pc = Then(RequestCells(g.msg)),
                                   ![v].cells = RequestCells(g.msg)]
            /\ crashed' = crashed
  BY DEF RequestReceive
<1>3. CASE crashed' # "no" /\ get' = get
  BY <1>2, <1>3, StoreStops DEF workerVars, history
<1>4. CASE /\ get' = [get EXCEPT ![v].pc = Then(RequestCells(g.msg)),
                                  ![v].cells = RequestCells(g.msg)]
           /\ crashed' = crashed
  <2> DEFINE cells == RequestCells(g.msg)
             pc == Then(cells)
             x == [pc |-> pc, msg |-> g.msg, cells |-> cells, out |-> g.out]
  <2>0. pc # "sent"
    OBVIOUS
  <2> HIDE DEF cells, pc
  <2>1. get' = [get EXCEPT ![v] = x]
    <3>1. get' = [get EXCEPT ![v] = [g EXCEPT !.pc = pc, !.cells = cells]]
      BY <1>4 DEF cells, pc
    <3>2. [g EXCEPT !.pc = pc, !.cells = cells] = x
      BY <1>1, GetRequested, Zenon
    <3> QED
      BY <3>1, <3>2
  <2>2. x.pc # "sent" /\ x = [pc |-> x.pc, msg |-> x.msg, cells |-> x.cells, out |-> x.out]
    BY <2>0
  <2>3. UNCHANGED <<setup, serverVars, put, gradConn, workerVars, history>>
    BY <1>2, <1>4 DEF serverVars
  <2> HIDE DEF x
  <2> QED
    BY <1>2, <2>1, <2>2, <2>3, StoreModels
<1> QED
  BY <1>2, <1>3, <1>4

LEMMA StoreStep == ASSUME StoreInv, [Next]_vars PROVE StoreInv'
<1>1. CASE UNCHANGED <<setup, serverVars, put, get, gradConn, workerVars, history>>
  <2>1. UNCHANGED <<setup, model, opt, model_lock, crashed, get, put, gradConn, wpc, batch,
                    base, grad, pushed, committed>>
    BY <1>1 DEF serverVars, workerVars, history
  <2>2. Store' = Store /\ W' = W /\ LRKind' = LRKind
    BY <2>1 DEF Store, W, LRKind
  <2>3. /\ setup \in Setups /\ Domains /\ Settled
        /\ \A w \in W : Working(w) /\ Serving(w)
        /\ crashed = "no" => \A w \in W : Waiting(w)
    BY DEF StoreInv
  <2>4. Settled' /\ Domains'
    BY <2>1, <2>2, <2>3, SettledSame DEF Domains
  <2>5. \A w \in W : Working(w)' /\ Serving(w)'
    BY <2>1, <2>2, <2>3, WorkingSame, ServingSame
  <2>6. crashed = "no" => \A w \in W : Waiting(w)'
    BY <2>1, <2>3, WaitingSame
  <2> QED
    BY <2>1, <2>2, <2>3, <2>4, <2>5, <2>6 DEF StoreInv
<1>2. ASSUME NEW v \in W, Worker(v) PROVE StoreInv'
  BY <1>2, StoreGet, StoreLeave, StoreCompute, StorePush DEF Worker
<1>3. ASSUME NEW v \in W, PutHandler(v) PROVE StoreInv'
  BY <1>3, StoreReceive, StoreLock, StoreApply, StoreCount DEF PutHandler
<1>4. ASSUME NEW v \in W, GetHandler(v) PROVE StoreInv'
  BY <1>4, StoreRequest, StoreReads DEF GetHandler
<1>5. CASE ReportReset
  <2>1. UNCHANGED <<setup, model, opt, model_lock, crashed, get, put, gradConn, wpc, batch,
                    base, grad, pushed, committed>>
    BY <1>5 DEF ReportReset, workerVars, history
  <2>2. Store' = Store /\ W' = W /\ LRKind' = LRKind
    BY <2>1 DEF Store, W, LRKind
  <2>3. /\ setup \in Setups /\ Domains /\ Settled
        /\ \A w \in W : Working(w) /\ Serving(w)
        /\ crashed = "no" => \A w \in W : Waiting(w)
    BY DEF StoreInv
  <2>4. Settled' /\ Domains'
    BY <2>1, <2>2, <2>3, SettledSame DEF Domains
  <2>5. \A w \in W : Working(w)' /\ Serving(w)'
    BY <2>1, <2>2, <2>3, WorkingSame, ServingSame
  <2>6. crashed = "no" => \A w \in W : Waiting(w)'
    BY <2>1, <2>3, WaitingSame
  <2> QED
    BY <2>1, <2>2, <2>3, <2>4, <2>5, <2>6 DEF StoreInv
<1>6. CASE ErrorModelTooLong
  BY <1>6, StoreStops DEF ErrorModelTooLong, workerVars, history
<1>7. CASE ReportRead \/ ErrorTask \/ Udp \/ UNCHANGED vars
  BY <1>1, <1>6, <1>7
  DEF ReportRead, ErrorTask, ErrorTop, ErrorGetModel, ErrorGetFails, ErrorLoss, ErrorTime,
      ErrorError, Udp, UdpTime, UdpError, vars
<1> QED
  BY <1>2, <1>3, <1>4, <1>5, <1>7 DEF Next, Report

(* The full model is decoded to what the server has. *)
LEMMA FullModelIsModel ==
  ASSUME setup \in Setups, Settled
  PROVE  FullModel = model
<1>1. model = [c \in ModelCells |-> model[c]]
  BY DEF Settled, IsStore, Store
<1>2. Dim \in Nat /\ setup.nusers \in Nat /\ setup.nitems \in Nat
  BY BoundsAssumption, SetupFacts
<1>3. CASE LRKind
  <2>1. model = [c \in 0 .. (Dim - 1) |-> model[c]]
    BY <1>1, <1>3 DEF ModelCells
  <2> QED
    BY <1>2, <1>3, <2>1, LRModelRoundTrip DEF FullModel, FullModelWords
<1>4. CASE ~LRKind
  <2>1. model = [c \in Cells(0 .. (setup.nusers - 1), 0 .. (setup.nitems - 1)) |-> model[c]]
    BY <1>1, <1>4 DEF ModelCells
  <2> QED
    BY <1>2, <1>4, <2>1, MFModelRoundTrip DEF FullModel, FullModelWords
<1> QED
  BY <1>3, <1>4

LEMMA CopyIsModel ==
  ASSUME setup \in Setups, Settled, LagInv, [Next]_vars, err'.copy # err.copy
  PROVE  err'.copy = committed.w
<1>1. err' # err
  OBVIOUS
<1>2. ErrorTask
  BY <1>1
  DEF Next, vars, Worker, GetMinibatch, OverrunMessage, AbortWorker, ComputeGradient,
      PushGradient, PutHandler,
      GradientReceive, GradientLock, GradientApply, GradientCount, GetHandler,
      RequestReceive, ReadWeight, EditWeight, Report, ReportRead, ReportReset, Udp,
      UdpTime, UdpError
<1>3. "copy" \in DOMAIN err
  BY DEF LagInv
<1>4. CASE ErrorGetModel
  <2>1. model_lock = Nobody /\ err' = [err EXCEPT !.pc = "loss", !.copy = FullModel, !.at = 1, !.right = 0]
    BY <1>4 DEF ErrorGetModel
  <2>2. err'.copy = FullModel
    BY <1>3, <2>1
  <2>3. FullModel = model
    BY FullModelIsModel
  <2>4. Store.w = model /\ Store = committed
    BY <2>1 DEF Store, Settled
  <2> QED
    BY <2>2, <2>3, <2>4
<1>5. CASE ErrorTop \/ ErrorModelTooLong \/ ErrorGetFails \/ ErrorLoss \/ ErrorTime \/ ErrorError
  <2>1. err'.copy = err.copy
    BY <1>3, <1>5 DEF ErrorTop, ErrorModelTooLong, ErrorGetFails, ErrorLoss, ErrorTime, ErrorError
  <2> QED
    BY <2>1
<1> QED
  BY <1>2, <1>4, <1>5 DEF ErrorTask

(* For every model, method, data set and number of workers: whenever the lock *)
(* is free the model is what whole gradients make of it, each applied once    *)
(* and in the order in which its worker pushed them, and the full model that  *)
(* is evaluated is such a one (PSSparseServerTask.cpp:121-198, 312-345).      *)
THEOREM NoUpdateLost == Spec => UpdatesSerial
<1>1. Init => StoreInv /\ LagInv
  BY StoreInit, LagInit
<1>2. StoreInv /\ LagInv /\ [Next]_vars => StoreInv' /\ LagInv'
  BY StoreStep, LagStep
<1>3. StoreInv /\ LagInv /\ [Next]_vars =>
        [/\ model_lock' = Nobody => Store' = committed'
         /\ err'.copy # err.copy => err'.copy = committed.w]_vars
  <2> SUFFICES ASSUME StoreInv, LagInv, [Next]_vars
               PROVE  /\ model_lock' = Nobody => Store' = committed'
                      /\ err'.copy # err.copy => err'.copy = committed.w
    OBVIOUS
  <2>1. Settled' /\ setup \in Setups /\ Settled
    BY StoreStep DEF StoreInv
  <2>2. model_lock' = Nobody => Store' = committed'
    BY <2>1 DEF Settled
  <2>3. err'.copy # err.copy => err'.copy = committed.w
    BY <2>1, CopyIsModel
  <2> QED
    BY <2>2, <2>3
<1> QED
  BY <1>1, <1>2, <1>3, PTL DEF Spec, UpdatesSerial

-----------------------------------------------------------------------------
(* The reply to a request of collaborative filtering.  A block has an id, its *)
(* bias and its factors.                                                      *)

LEMMA PlaceOf ==
  ASSUME NEW p, NEW seqs, NEW m, U!IsPlaces(p, seqs, m), NEW y \in 1 .. m
  PROVE  p[y] = p[y - 1] + Len(seqs[y])
BY DEF U!IsPlaces

(* The pieces of a reply that is made of n blocks of b values.                *)
InBlocks(seqs, b, n) ==
  \A i \in 1 .. n : \A j \in 1 .. b :
    Len(seqs[b * (i - 1) + j]) = IF j = 1 THEN 2 ELSE 1

(* Where they start. *)
StartInBlocks(p, b, n) ==
  \A i \in 1 .. n :
    /\ p[b * (i - 1)] = (b + 1) * (i - 1)
    /\ \A j \in 1 .. b : p[b * (i - 1) + j] = (b + 1) * (i - 1) + j + 1

LEMMA ReplyPlaces ==
  ASSUME NEW b \in Nat \ {0}, NEW n \in Nat, NEW seqs, NEW p, U!IsPlaces(p, seqs, b * n),
         InBlocks(seqs, b, n)
  PROVE  StartInBlocks(p, b, n)
<1>1. /\ p[0] = 0
      /\ \A k \in 1 .. (b * n) : p[k] = p[k - 1] + Len(seqs[k])
  BY DEF U!IsPlaces
<1>2. ASSUME NEW i \in 1 .. n, p[b * (i - 1)] = (b + 1) * (i - 1), NEW j \in 1 .. b
      PROVE  p[b * (i - 1) + j] = (b + 1) * (i - 1) + j + 1
  <2> DEFINE a == b * (i - 1)
             e == (b + 1) * (i - 1)
             S == {m \in Nat : m + 1 <= b => p[a + m + 1] = e + m + 2}
  <2>1. a \in Nat /\ e \in Nat /\ a + b <= b * n /\ b * n \in Nat
    <3>1. i \in Nat /\ i - 1 \in Nat /\ i <= n /\ (i - 1) + 1 = i /\ b + 1 \in Nat
      OBVIOUS
    <3>2. a \in Nat /\ e \in Nat /\ b * n \in Nat
      BY <3>1, Product
    <3>3. b * i <= b * n
      BY <3>1, ProductMonotone
    <3>4. ((i - 1) + 1) * b = (i - 1) * b + 1 * b
      BY <3>1, Distribute
    <3>5. b * i = a + b
      BY <3>1, <3>4
    <3> QED
      BY <3>2, <3>3, <3>5
  <2>2. p[a] = e
    BY <1>2
  <2>3. \A k \in 1 .. b : /\ a + k \in 1 .. (b * n) /\ p[a + k] = p[(a + k) - 1] + Len(seqs[a + k])
                          /\ Len(seqs[a + k]) = IF k = 1 THEN 2 ELSE 1
    <3> SUFFICES ASSUME NEW k \in 1 .. b
                 PROVE  /\ a + k \in 1 .. (b * n)
                        /\ p[a + k] = p[(a + k) - 1] + Len(seqs[a + k])
                        /\ Len(seqs[a + k]) = IF k = 1 THEN 2 ELSE 1
      OBVIOUS
    <3>1. Len(seqs[a + k]) = IF k = 1 THEN 2 ELSE 1
      BY DEF InBlocks
    <3> DEFINE all == b * n
    <3>2. all \in Nat /\ a + b <= all
      BY <2>1
    <3>3. U!IsPlaces(p, seqs, all)
      OBVIOUS
    <3> HIDE DEF a, all
    <3>4. a + k \in 1 .. all
      BY <2>1, <3>2
    <3>5. p[a + k] = p[(a + k) - 1] + Len(seqs[a + k])
      BY <3>3, <3>4, PlaceOf
    <3> QED
      BY <3>1, <3>4, <3>5 DEF all
  <2> HIDE DEF a, e, S
  <2>4. 0 \in S
    <3>1. p[a + 1] = p[(a + 1) - 1] + 2 /\ (a + 1) - 1 = a
      BY <2>1, <2>3
    <3> QED
      BY <2>1, <2>2, <3>1 DEF S
  <2>5. \A m \in S : m + 1 \in S
    <3> SUFFICES ASSUME NEW m \in S PROVE m + 1 \in S
      OBVIOUS
    <3>1. m \in Nat
      BY DEF S
    <3>2. CASE m + 2 <= b
      <4>1. p[a + m + 1] = e + m + 2
        BY <3>1, <3>2 DEF S
      <4>2. m + 2 \in 1 .. b /\ m + 2 # 1 /\ (a + (m + 2)) - 1 = a + m + 1
        BY <2>1, <3>1, <3>2
      <4> DEFINE q == m + 2
                 x == a + q
      <4>3. p[x] = p[x - 1] + 1
        BY <2>3, <4>2
      <4>4. p[x - 1] = e + m + 2
        BY <4>1, <4>2
      <4>5. a + (m + 1) + 1 = x /\ e + (m + 1) + 2 = e + m + 2 + 1
        BY <2>1, <3>1
      <4> HIDE DEF x, q
      <4> QED
        BY <3>1, <4>3, <4>4, <4>5 DEF S
    <3>3. CASE ~(m + 2 <= b)
      BY <3>1, <3>3 DEF S
    <3> QED
      BY <3>2, <3>3
  <2>6. S = Nat
    <3>1. S \subseteq Nat
      BY DEF S
    <3> QED
      BY <2>4, <2>5, <3>1, U!SetInduction
  <2>7. j - 1 \in S /\ (j - 1) + 1 <= b /\ a + (j - 1) + 1 = a + j /\ e + (j - 1) + 2 = e + j + 1
    BY <2>1, <2>6
  <2>8. p[a + j] = e + j + 1
    BY <2>7 DEF S
  <2> QED
    BY <2>8 DEF a, e
<1>3. \A i \in 1 .. n : p[b * (i - 1)] = (b + 1) * (i - 1)
  <2> DEFINE S == {m \in Nat : m + 1 <= n => p[b * m] = (b + 1) * m}
  <2>1. 0 \in S
    <3>1. b * 0 = 0 /\ (b + 1) * 0 = 0
      OBVIOUS
    <3> QED
      BY <1>1, <3>1
  <2>2. ASSUME NEW m \in S PROVE m + 1 \in S
    <3>1. m \in Nat
      OBVIOUS
    <3>2. CASE (m + 1) + 1 <= n
      <4>1. p[b * m] = (b + 1) * m
        BY <3>1, <3>2
      <4>2. m + 1 \in 1 .. n /\ (m + 1) - 1 = m /\ b \in 1 .. b
        BY <3>1, <3>2
      <4>3. p[b * m + b] = (b + 1) * m + b + 1
        BY <1>2, <4>1, <4>2
      <4>4. (m + 1) * b = m * b + 1 * b /\ (m + 1) * (b + 1) = m * (b + 1) + 1 * (b + 1)
        BY <3>1, Distribute
      <4>5. b * (m + 1) = b * m + b /\ (b + 1) * (m + 1) = (b + 1) * m + (b + 1)
        BY <3>1, <4>4
      <4>6. (b + 1) * m + (b + 1) = (b + 1) * m + b + 1
        <5>1. (b + 1) * m \in Nat
          BY <3>1, Product
        <5> QED
          BY <5>1
      <4> QED
        BY <3>1, <4>3, <4>5, <4>6
    <3>3. CASE ~((m + 1) + 1 <= n)
      BY <3>1, <3>3
    <3> QED
      BY <3>2, <3>3
  <2>3. S = Nat
    <3>1. S \subseteq Nat
      OBVIOUS
    <3> HIDE DEF S
    <3> QED
      BY <2>1, <2>2, <3>1, U!SetInduction
  <2> SUFFICES ASSUME NEW i \in 1 .. n PROVE p[b * (i - 1)] = (b + 1) * (i - 1)
    OBVIOUS
  <2>4. i - 1 \in Nat /\ (i - 1) + 1 <= n
    OBVIOUS
  <2> QED
    BY <2>3, <2>4
<1> QED
  BY <1>2, <1>3, Zenon DEF StartInBlocks

(* The cells of a user or an item, in the order of their places. *)
LEMMA CellSeqFacts ==
  ASSUME NEW kind, NEW id
  PROVE  /\ CellSeq(kind, id) \in Seq({<<kind, id, k>> : k \in 0 .. NumFactors})
         /\ Len(CellSeq(kind, id)) = NumFactors + 1
         /\ \A j \in 1 .. (NumFactors + 1) : CellSeq(kind, id)[j] = <<kind, id, j - 1>>
<1> DEFINE S == {<<kind, id, k>> : k \in 0 .. NumFactors}
           a == <<Bias(kind, id)>>
           z == [k \in 1 .. NumFactors |-> Weight(kind, id, k - 1)]
           q == CellSeq(kind, id)
<1>1. NumFactors \in Nat
  BY NumFactorsAssumption
<1>2. a \in Seq(S) /\ Len(a) = 1 /\ a[1] = <<kind, id, 0>>
  BY <1>1 DEF Bias
<1>3. \A k \in 1 .. NumFactors : Weight(kind, id, k - 1) = <<kind, id, k>>
  BY DEF Weight
<1>4. z \in Seq(S) /\ Len(z) = NumFactors /\ \A k \in 1 .. NumFactors : z[k] = <<kind, id, k>>
  <2>1. \A k \in 1 .. NumFactors : <<kind, id, k>> \in S
    BY <1>1
  <2> DEFINE x(k) == Weight(kind, id, k - 1)
  <2>2. \A k \in 1 .. NumFactors : x(k) \in S /\ x(k) = <<kind, id, k>>
    BY <1>3, <2>1
  <2> HIDE DEF S, x
  <2>3. [k \in 1 .. NumFactors |-> x(k)] \in Seq(S)
    BY <1>1, <2>2
  <2> QED
    BY <1>1, <2>2, <2>3 DEF x
<1>5. q = a \o z
  BY DEF CellSeq
<1> HIDE DEF a, z, S, q
<1>6. /\ q \in Seq(S) /\ Len(q) = 1 + NumFactors
      /\ \A i \in 1 .. 1 : q[i] = a[i]
      /\ \A i \in 1 .. NumFactors : q[1 + i] = z[i]
  <2>1. /\ a \o z \in Seq(S) /\ Len(a \o z) = Len(a) + Len(z)
        /\ \A i \in 1 .. Len(a) : (a \o z)[i] = a[i]
        /\ \A i \in 1 .. Len(z) : (a \o z)[Len(a) + i] = z[i]
    <3>1. a \in Seq(S) /\ z \in Seq(S)
      BY <1>2, <1>4
    <3> QED
      BY <3>1, Cat
  <2> QED
    BY <1>2, <1>4, <1>5, <2>1
<1>7. ASSUME NEW j \in 1 .. (NumFactors + 1) PROVE q[j] = <<kind, id, j - 1>>
  <2>1. CASE j = 1
    BY <1>2, <1>6, <2>1
  <2>2. CASE j # 1
    <3>1. j - 1 \in 1 .. NumFactors /\ 1 + (j - 1) = j
      BY <1>1, <2>2
    <3> QED
      BY <1>4, <1>6, <3>1
  <2> QED
    BY <2>1, <2>2
<1> QED
  BY <1>1, <1>6, <1>7 DEF S, q

(* One side of a request: the cells of the ids, block after block. *)
SideCells(kind, ids) == FlattenSeq([i \in 1 .. Len(ids) |-> CellSeq(kind, ids[i])])

HasBlocks(q, kind, ids, b) ==
  /\ U!IsSeq(q) /\ Len(q) = b * Len(ids)
  /\ \A i \in 1 .. Len(ids) : \A j \in 1 .. b :
       /\ b * (i - 1) + j \in 1 .. Len(q)
       /\ q[b * (i - 1) + j] = <<kind, ids[i], j - 1>>
  /\ \A k \in 1 .. Len(q) : \E i \in 1 .. Len(ids) : \E j \in 1 .. b :
       q[k] = <<kind, ids[i], j - 1>>

LEMMA SideCellsFacts ==
  ASSUME NEW kind, NEW T, NEW ids \in Seq(T)
  PROVE  HasBlocks(SideCells(kind, ids), kind, ids, NumFactors + 1)
<1> DEFINE b == NumFactors + 1
           n == Len(ids)
           S == {<<kind, x, k>> : x \in T, k \in 0 .. NumFactors}
           seqs == [i \in 1 .. n |-> CellSeq(kind, ids[i])]
           q == SideCells(kind, ids)
<1>1. n \in Nat /\ b \in Nat /\ \A i \in 1 .. n : ids[i] \in T
  BY NumFactorsAssumption
<1>2. ASSUME NEW i \in 1 .. n
      PROVE  /\ CellSeq(kind, ids[i]) \in Seq(S) /\ Len(CellSeq(kind, ids[i])) = b
             /\ \A j \in 1 .. b : CellSeq(kind, ids[i])[j] = <<kind, ids[i], j - 1>>
  <2> DEFINE x == ids[i]
             R == {<<kind, x, k>> : k \in 0 .. NumFactors}
  <2>1. x \in T
    BY <1>1
  <2>2. R \subseteq S
    BY <2>1
  <2>3. /\ CellSeq(kind, x) \in Seq(R) /\ Len(CellSeq(kind, x)) = b
        /\ \A j \in 1 .. b : CellSeq(kind, x)[j] = <<kind, x, j - 1>>
    BY CellSeqFacts
  <2> HIDE DEF R, S, x, b
  <2>4. CellSeq(kind, x) \in Seq(S)
    BY <2>2, <2>3
  <2> QED
    BY <2>3, <2>4 DEF x
<1> HIDE DEF S, n, b
<1>3. /\ seqs \in Seq(Seq(S)) /\ Len(seqs) = n
      /\ \A i \in 1 .. n : seqs[i] = CellSeq(kind, ids[i])
  BY <1>1, <1>2
<1>4. q = U!FlattenSeq(seqs)
  BY DEF SideCells, FlattenSeq, U!FlattenSeq, n
<1> HIDE DEF seqs, q
<1>5. \A i \in 1 .. Len(seqs) : Len(seqs[i]) = b
  BY <1>2, <1>3
<1>6. /\ q \in Seq(S) /\ Len(q) = b * n
      /\ \A i \in 1 .. n : \A j \in 1 .. b :
           b * (i - 1) + j \in 1 .. Len(q) /\ q[b * (i - 1) + j] = seqs[i][j]
  <2>1. /\ U!FlattenSeq(seqs) \in Seq(S)
        /\ Len(U!FlattenSeq(seqs)) = b * Len(seqs)
        /\ \A i \in 1 .. Len(seqs) : \A j \in 1 .. b :
             /\ b * (i - 1) + j \in 1 .. Len(U!FlattenSeq(seqs))
             /\ U!FlattenSeq(seqs)[b * (i - 1) + j] = seqs[i][j]
    BY <1>1, <1>3, <1>5, U!FlattenBlocks, Zenon
  <2> QED
    BY <1>3, <1>4, <2>1, Zenon
<1>7. \A k \in 1 .. Len(q) : \E i \in 1 .. n : \E j \in 1 .. b : q[k] = seqs[i][j]
  <2>1. \A k \in 1 .. Len(q) : \E i \in 1 .. Len(seqs) : \E j \in 1 .. Len(seqs[i]) :
          q[k] = seqs[i][j]
    <3>1. \A k \in 1 .. Len(U!FlattenSeq(seqs)) :
            \E i \in 1 .. Len(seqs) : \E j \in 1 .. Len(seqs[i]) :
              U!FlattenSeq(seqs)[k] = seqs[i][j]
      BY <1>3, U!FlattenElements, Zenon
    <3> QED
      BY <1>4, <3>1, Zenon
  <2> QED
    BY <1>3, <1>5, <2>1
<1>8. \A i \in 1 .. n : \A j \in 1 .. b : seqs[i][j] = <<kind, ids[i], j - 1>>
  BY <1>2, <1>3
<1>9. U!IsSeq(q)
  BY <1>6 DEF U!IsSeq
<1>10. \A i \in 1 .. n : \A j \in 1 .. b :
         /\ b * (i - 1) + j \in 1 .. Len(q)
         /\ q[b * (i - 1) + j] = <<kind, ids[i], j - 1>>
  BY <1>6, <1>8, Zenon
<1>11. \A k \in 1 .. Len(q) : \E i \in 1 .. n : \E j \in 1 .. b : q[k] = <<kind, ids[i], j - 1>>
  <2> SUFFICES ASSUME NEW k \in 1 .. Len(q)
               PROVE  \E i \in 1 .. n : \E j \in 1 .. b : q[k] = <<kind, ids[i], j - 1>>
    OBVIOUS
  <2>1. PICK i \in 1 .. n, j \in 1 .. b : q[k] = seqs[i][j]
    BY <1>7, Zenon
  <2>2. q[k] = <<kind, ids[i], j - 1>>
    BY <1>8, <2>1, Zenon
  <2> QED
    BY <2>2
<1> QED
  BY <1>6, <1>9, <1>10, <1>11 DEF HasBlocks, n, b, q

(* A block of the request and of the reply: a user of the minibatch or one of *)
(* its items.                                                                 *)
BlockKind(i) == IF i <= MiniBatch THEN "user" ELSE "item"
BlockId(first, o, i) == IF i <= MiniBatch THEN first + i - 1 ELSE o[i - MiniBatch]
BlockCell(first, o, i, j) == <<BlockKind(i), BlockId(first, o, i), j - 1>>

RequestLayout(cells, first, o, b, n) ==
  /\ U!IsSeq(cells) /\ Len(cells) = b * n
  /\ \A i \in 1 .. n : \A j \in 1 .. b :
       /\ b * (i - 1) + j \in 1 .. Len(cells)
       /\ cells[b * (i - 1) + j] = BlockCell(first, o, i, j)
  /\ \A k \in 1 .. Len(cells) : \E i \in 1 .. n : \E j \in 1 .. b :
       cells[k] = BlockCell(first, o, i, j)

(* The sides of a request, one after the other. *)
LEMMA SidesJoin ==
  ASSUME NEW a, NEW z, NEW first, NEW o, NEW users, NEW ni \in Nat, NEW b \in Nat,
         HasBlocks(a, "user", users, b), Len(users) = MiniBatch,
         \A i \in 1 .. MiniBatch : users[i] = first + i - 1,
         HasBlocks(z, "item", o, b), Len(o) = ni
  PROVE  RequestLayout(a \o z, first, o, b, MiniBatch + ni)
<1> DEFINE M == MiniBatch
           n == M + ni
           q == a \o z
<1>1. M \in Nat
  BY SizeAssumption
<1>2. /\ U!IsSeq(a) /\ Len(a) = b * M
      /\ \A i \in 1 .. M : \A j \in 1 .. b :
           /\ b * (i - 1) + j \in 1 .. Len(a)
           /\ a[b * (i - 1) + j] = <<"user", users[i], j - 1>>
      /\ \A k \in 1 .. Len(a) : \E i \in 1 .. M : \E j \in 1 .. b :
           a[k] = <<"user", users[i], j - 1>>
  BY DEF HasBlocks
<1>3. /\ U!IsSeq(z) /\ Len(z) = b * ni
      /\ \A i \in 1 .. ni : \A j \in 1 .. b :
           /\ b * (i - 1) + j \in 1 .. Len(z)
           /\ z[b * (i - 1) + j] = <<"item", o[i], j - 1>>
      /\ \A k \in 1 .. Len(z) : \E i \in 1 .. ni : \E j \in 1 .. b :
           z[k] = <<"item", o[i], j - 1>>
  BY DEF HasBlocks
<1>4. \E S : a \in Seq(S) /\ z \in Seq(S)
  <2>1. PICK A : a \in Seq(A)
    BY <1>2 DEF U!IsSeq
  <2>2. PICK Z : z \in Seq(Z)
    BY <1>3 DEF U!IsSeq
  <2>3. a \in Seq(A \union Z) /\ z \in Seq(A \union Z)
    BY <2>1, <2>2
  <2> QED
    BY <2>3
<1>5. PICK S : a \in Seq(S) /\ z \in Seq(S)
  BY <1>4
<1> HIDE DEF q
<1>6. /\ q \in Seq(S) /\ Len(q) = Len(a) + Len(z)
      /\ \A i \in 1 .. Len(a) : q[i] = a[i]
      /\ \A i \in 1 .. Len(z) : q[Len(a) + i] = z[i]
  BY <1>5, Cat DEF q
<1>7. Len(a) \in Nat /\ Len(z) \in Nat /\ \A k \in Int : k \in 1 .. Len(a) => k \in 1 .. Len(q)
  BY <1>5, <1>6
<1>8. Len(q) = b * n
  <2>1. (M + ni) * b = M * b + ni * b
    BY <1>1, Distribute
  <2>2. b * n = b * M + b * ni
    BY <1>1, <2>1
  <2> QED
    BY <1>2, <1>3, <1>6, <2>2
<1>9. ASSUME NEW i \in 1 .. n, NEW j \in 1 .. b
      PROVE  /\ b * (i - 1) + j \in 1 .. Len(q)
             /\ q[b * (i - 1) + j] = BlockCell(first, o, i, j)
  <2>1. CASE i <= M
    <3>1. i \in 1 .. M
      BY <1>1, <2>1
    <3>2. /\ b * (i - 1) + j \in 1 .. Len(a)
          /\ a[b * (i - 1) + j] = <<"user", users[i], j - 1>>
      BY <1>2, <3>1
    <3>3. BlockCell(first, o, i, j) = <<"user", users[i], j - 1>>
      BY <2>1, <3>1 DEF BlockCell, BlockKind, BlockId
    <3> DEFINE y == b * (i - 1) + j
    <3>4. y \in 1 .. Len(a) /\ a[y] = BlockCell(first, o, i, j)
      BY <3>2, <3>3
    <3> HIDE DEF y
    <3>5. y \in 1 .. Len(q) /\ q[y] = BlockCell(first, o, i, j)
      BY <1>6, <1>7, <3>4
    <3> QED
      BY <3>5 DEF y
  <2>2. CASE ~(i <= M)
    <3> DEFINE h == i - M
               y == b * (h - 1) + j
    <3>1. h \in 1 .. ni /\ h - 1 \in Nat /\ i - 1 = M + (h - 1)
      BY <1>1, <2>2
    <3>2. y \in 1 .. Len(z) /\ z[y] = <<"item", o[h], j - 1>>
      BY <1>3, <3>1
    <3>3. BlockCell(first, o, i, j) = <<"item", o[h], j - 1>>
      BY <2>2 DEF BlockCell, BlockKind, BlockId
    <3>4. b * (i - 1) + j = Len(a) + y
      <4> DEFINE x == h - 1
      <4>1. x \in Nat /\ i - 1 = M + x
        BY <3>1
      <4> HIDE DEF x
      <4>2. (M + x) * b = M * b + x * b
        BY <1>1, <4>1, Distribute
      <4>3. b * (i - 1) = b * M + b * x
        BY <1>1, <4>1, <4>2
      <4>4. b * M \in Nat /\ b * x \in Nat
        BY <1>1, <4>1, Product
      <4>5. y = b * x + j
        BY DEF x
      <4> DEFINE t == b * (i - 1)
                 u == b * M
                 v == b * x
      <4>6. t = u + v /\ Len(a) = u /\ y = v + j /\ u \in Nat /\ v \in Nat /\ j \in Nat
        BY <1>2, <4>3, <4>4, <4>5
      <4> HIDE DEF t, u, v, y
      <4>7. t + j = Len(a) + y
        BY <4>6
      <4> QED
        BY <4>7 DEF t
    <3> HIDE DEF y, h
    <3>5. q[Len(a) + y] = z[y]
      BY <1>6, <3>2
    <3>6. Len(a) + y \in 1 .. Len(q)
      <4>1. Len(q) = Len(a) + Len(z) /\ Len(a) \in Nat /\ Len(z) \in Nat /\ y \in 1 .. Len(z)
        BY <1>6, <1>7, <3>2
      <4> QED
        BY <4>1
    <3> QED
      BY <3>2, <3>3, <3>4, <3>5, <3>6
  <2> QED
    BY <2>1, <2>2
<1>10. ASSUME NEW k \in 1 .. Len(q)
       PROVE  \E i \in 1 .. n : \E j \in 1 .. b : q[k] = BlockCell(first, o, i, j)
  <2>1. CASE k \in 1 .. Len(a)
    <3>1. PICK i \in 1 .. M, j \in 1 .. b : a[k] = <<"user", users[i], j - 1>>
      BY <1>2, <2>1
    <3>2. i <= M /\ i \in 1 .. n
      BY <1>1
    <3>3. BlockCell(first, o, i, j) = <<"user", users[i], j - 1>>
      BY <3>2 DEF BlockCell, BlockKind, BlockId
    <3> QED
      BY <1>6, <2>1, <3>1, <3>2, <3>3
  <2>2. CASE ~(k \in 1 .. Len(a))
    <3> DEFINE y == k - Len(a)
    <3>1. y \in 1 .. Len(z) /\ k = Len(a) + y
      BY <1>6, <1>7, <2>2
    <3>2. PICK h \in 1 .. ni, j \in 1 .. b : z[y] = <<"item", o[h], j - 1>>
      BY <1>3, <3>1
    <3>3. M + h \in 1 .. n /\ ~(M + h <= M) /\ (M + h) - M = h
      BY <1>1
    <3>4. BlockCell(first, o, M + h, j) = <<"item", o[h], j - 1>>
      BY <3>3 DEF BlockCell, BlockKind, BlockId
    <3> HIDE DEF y
    <3>5. q[k] = BlockCell(first, o, M + h, j)
      BY <1>6, <3>1, <3>2, <3>4
    <3> QED
      BY <3>3, <3>5
  <2> QED
    BY <2>1, <2>2
<1>11. U!IsSeq(q)
  BY <1>6 DEF U!IsSeq
<1> HIDE DEF n
<1>12. RequestLayout(q, first, o, b, n)
  BY <1>8, <1>9, <1>10, <1>11, Zenon DEF RequestLayout
<1> QED
  BY <1>12 DEF n, q

LEMMA RequestLaidOut ==
  ASSUME NEW rows \in Seq(Seq(Nat \X Int)), NEW first \in Int
  PROVE  RequestLayout(MFRequestCells(MFRequestWords(first, rows, MiniBatch)), first,
                       ItemOrder(rows), NumFactors + 1, MiniBatch + Len(ItemOrder(rows)))
<1> DEFINE o == ItemOrder(rows)
           ni == Len(o)
           h == <<ni, first, MiniBatch, MagicNumber>>
           words == MFRequestWords(first, rows, MiniBatch)
           users == [i \in 1 .. MiniBatch |-> first + i - 1]
<1>1. PICK R : o \in Seq(R)
  BY ItemOrderFacts DEF U!IsSeq
<1>2. MiniBatch \in Nat /\ words = h \o o
  BY SizeAssumption DEF MFRequestWords
<1> HIDE DEF o, words
<1>3. ni \in Nat
  BY <1>1
<1> DEFINE T == R \union {ni, first, MiniBatch, MagicNumber}
<1>4. o \in Seq(T) /\ h \in Seq(T) /\ Len(h) = 4 /\ h[1] = ni /\ h[2] = first /\ h[3] = MiniBatch
  BY <1>1
<1> HIDE DEF h, T, ni
<1>5. /\ \A i \in 1 .. 4 : words[i] = h[i]
      /\ \A i \in 1 .. ni : words[4 + i] = o[i]
  <2>1. /\ \A i \in 1 .. Len(h) : (h \o o)[i] = h[i]
        /\ \A i \in 1 .. Len(o) : (h \o o)[Len(h) + i] = o[i]
    <3>1. h \in Seq(T) /\ o \in Seq(T)
      BY <1>4
    <3> QED
      BY <3>1, Cat
  <2> QED
    BY <1>2, <1>4, <2>1 DEF ni
<1>6. words[1] = ni /\ words[2] = first /\ words[3] = MiniBatch
  BY <1>4, <1>5
<1>7. users \in Seq(Int) /\ Len(users) = MiniBatch
      /\ \A i \in 1 .. MiniBatch : users[i] = first + i - 1
  BY <1>2
<1> DEFINE a == SideCells("user", users)
           z == SideCells("item", o)
<1>8. MFRequestCells(words) = a \o z
  <2>1. [i \in 1 .. words[3] |-> CellSeq("user", words[2] + i - 1)]
          = [i \in 1 .. Len(users) |-> CellSeq("user", users[i])]
    BY <1>6, <1>7
  <2>2. [i \in 1 .. words[1] |-> CellSeq("item", words[4 + i])]
          = [i \in 1 .. Len(o) |-> CellSeq("item", o[i])]
    BY <1>5, <1>6 DEF ni
  <2> QED
    BY <2>1, <2>2, Zenon DEF MFRequestCells, SideCells
<1> HIDE DEF users
<1>9. HasBlocks(a, "user", users, NumFactors + 1) /\ HasBlocks(z, "item", o, NumFactors + 1)
  BY <1>1, <1>7, SideCellsFacts
<1> HIDE DEF a, z
<1>10. NumFactors + 1 \in Nat
  BY NumFactorsAssumption
<1>11. RequestLayout(a \o z, first, o, NumFactors + 1, MiniBatch + ni)
  BY <1>3, <1>7, <1>9, <1>10, SidesJoin DEF ni
<1> QED
  BY <1>8, <1>11 DEF o, ni, words

(* The reply: block after block the id and the values that were read. *)
ReplyLayout(words, first, o, b, n, out) ==
  \A i \in 1 .. n :
    /\ words[1 + (b + 1) * (i - 1)] = BlockId(first, o, i)
    /\ \A j \in 1 .. b : words[(1 + (b + 1) * (i - 1)) + j] = out[b * (i - 1) + j]

LEMMA ReplyLaidOut ==
  ASSUME NEW first, NEW o, NEW n \in Nat, NEW b \in Nat \ {0}, NEW cells, NEW out,
         RequestLayout(cells, first, o, b, n), U!IsSeq(out), Len(out) = Len(cells)
  PROVE  ReplyLayout(MFReplyWords(cells, out), first, o, b, n, out)
<1> DEFINE all == b * n
           piece(i) == IF cells[i][3] = 0 THEN <<cells[i][2], out[i]>> ELSE <<out[i]>>
           S == {cells[i][2] : i \in 1 .. all} \union {out[i] : i \in 1 .. all}
           seqs == [i \in 1 .. all |-> piece(i)]
           words == MFReplyWords(cells, out)
<1>1. /\ Len(cells) = all
      /\ \A i \in 1 .. n : \A j \in 1 .. b :
           /\ b * (i - 1) + j \in 1 .. Len(cells)
           /\ cells[b * (i - 1) + j] = BlockCell(first, o, i, j)
  BY DEF RequestLayout
<1>2. all \in Nat
  BY Product
<1>3. \A i \in 1 .. all : piece(i) \in Seq(S)
  <2> SUFFICES ASSUME NEW i \in 1 .. all PROVE piece(i) \in Seq(S)
    OBVIOUS
  <2>1. cells[i][2] \in S /\ out[i] \in S
    OBVIOUS
  <2> HIDE DEF S
  <2>2. <<cells[i][2], out[i]>> \in Seq(S) /\ <<out[i]>> \in Seq(S)
    BY <2>1
  <2> QED
    BY <2>2
<1>4. words = U!FlattenSeq(seqs)
  BY <1>1 DEF MFReplyWords, FlattenSeq, U!FlattenSeq
<1>5. ASSUME NEW i \in 1 .. n, NEW j \in 1 .. b
      PROVE  /\ b * (i - 1) + j \in 1 .. all
             /\ j = 1 => /\ Len(piece(b * (i - 1) + j)) = 2
                         /\ piece(b * (i - 1) + j)[1] = BlockId(first, o, i)
                         /\ piece(b * (i - 1) + j)[2] = out[b * (i - 1) + j]
             /\ j # 1 => /\ Len(piece(b * (i - 1) + j)) = 1
                         /\ piece(b * (i - 1) + j)[1] = out[b * (i - 1) + j]
  <2> DEFINE y == b * (i - 1) + j
  <2>1. y \in 1 .. all /\ cells[y] = BlockCell(first, o, i, j)
    BY <1>1
  <2>2. cells[y][3] = j - 1 /\ cells[y][2] = BlockId(first, o, i)
    BY <2>1 DEF BlockCell
  <2> HIDE DEF y
  <2>3. j = 1 => piece(y) = <<BlockId(first, o, i), out[y]>>
    BY <2>2
  <2>4. j # 1 => piece(y) = <<out[y]>>
    BY <2>2
  <2> HIDE DEF piece
  <2>5. j = 1 => Len(piece(y)) = 2 /\ piece(y)[1] = BlockId(first, o, i) /\ piece(y)[2] = out[y]
    BY <2>3
  <2>6. j # 1 => Len(piece(y)) = 1 /\ piece(y)[1] = out[y]
    BY <2>4
  <2> QED
    BY <2>1, <2>5, <2>6 DEF y
<1> HIDE DEF piece, S, all
<1>6. seqs \in Seq(Seq(S)) /\ Len(seqs) = all /\ \A k \in 1 .. all : seqs[k] = piece(k)
  BY <1>2, <1>3
<1> HIDE DEF seqs, words
<1>7. InBlocks(seqs, b, n)
  <2> SUFFICES ASSUME NEW i \in 1 .. n, NEW j \in 1 .. b
               PROVE  Len(seqs[b * (i - 1) + j]) = IF j = 1 THEN 2 ELSE 1
    BY DEF InBlocks
  <2> DEFINE y == b * (i - 1) + j
  <2>1. y \in 1 .. all /\ (j = 1 => Len(piece(y)) = 2) /\ (j # 1 => Len(piece(y)) = 1)
    BY <1>5, Zenon
  <2> HIDE DEF y
  <2>2. seqs[y] = piece(y)
    BY <1>6, <2>1
  <2> QED
    BY <2>1, <2>2 DEF y
<1>8. PICK p : U!IsPlaces(p, seqs, all)
  BY <1>6, U!PlacesExist
<1>9. /\ \A i \in 1 .. n : p[b * (i - 1)] = (b + 1) * (i - 1)
      /\ \A i \in 1 .. n : \A j \in 1 .. b : p[b * (i - 1) + j] = (b + 1) * (i - 1) + j + 1
  <2>1. U!IsPlaces(p, seqs, b * n)
    BY <1>8 DEF all
  <2>2. StartInBlocks(p, b, n)
    BY <1>7, <2>1, ReplyPlaces, Zenon
  <2> QED
    BY <2>2, Zenon DEF StartInBlocks
<1>10. \A k \in 1 .. all : \A y \in 1 .. Len(piece(k)) : words[p[k - 1] + y] = piece(k)[y]
  <2>1. U!Joins(words, p, seqs, all)
    BY <1>4, <1>6, <1>8, U!FlattenJoins, Zenon
  <2> SUFFICES ASSUME NEW k \in 1 .. all, NEW y \in 1 .. Len(piece(k))
               PROVE  words[p[k - 1] + y] = piece(k)[y]
    OBVIOUS
  <2>2. seqs[k] = piece(k)
    BY <1>6
  <2>3. y \in 1 .. Len(seqs[k])
    BY <2>2
  <2>4. words[p[k - 1] + y] = seqs[k][y]
    BY <2>1, <2>3, Zenon DEF U!Joins
  <2> QED
    BY <2>2, <2>4
<1>11. ASSUME NEW i \in 1 .. n
       PROVE  /\ words[(b + 1) * (i - 1) + 1] = BlockId(first, o, i)
              /\ words[(b + 1) * (i - 1) + 2] = out[b * (i - 1) + 1]
  <2> DEFINE y == b * (i - 1) + 1
  <2>1. 1 \in 1 .. b
    OBVIOUS
  <2>2. y \in 1 .. all /\ Len(piece(y)) = 2 /\ piece(y)[1] = BlockId(first, o, i)
        /\ piece(y)[2] = out[y]
    BY <1>5, <2>1
  <2>3. y - 1 = b * (i - 1)
    <3>1. b * (i - 1) \in Nat
      BY Product
    <3> QED
      BY <3>1
  <2>4. p[y - 1] = (b + 1) * (i - 1)
    BY <1>9, <2>3
  <2> HIDE DEF y
  <2>5. 1 \in 1 .. Len(piece(y)) /\ 2 \in 1 .. Len(piece(y))
    BY <2>2
  <2>6. words[p[y - 1] + 1] = piece(y)[1] /\ words[p[y - 1] + 2] = piece(y)[2]
    BY <1>10, <2>2, <2>5
  <2> QED
    BY <2>2, <2>4, <2>6 DEF y
<1>12. ASSUME NEW i \in 1 .. n, NEW j \in 1 .. b, j # 1
       PROVE  words[((b + 1) * (i - 1) + j) + 1] = out[b * (i - 1) + j]
  <2> DEFINE y == b * (i - 1) + j
             x == b * (i - 1)
             e == (b + 1) * (i - 1)
  <2>1. x \in Nat /\ e \in Nat /\ j - 1 \in 1 .. b
    BY <1>12, Product
  <2>2. y \in 1 .. all /\ Len(piece(y)) = 1 /\ piece(y)[1] = out[y]
    BY <1>5, <1>12
  <2>3. p[x + (j - 1)] = e + (j - 1) + 1
    BY <1>9, <2>1
  <2>4. y = x + j
    OBVIOUS
  <2> HIDE DEF y, x, e
  <2>5. y - 1 = x + (j - 1) /\ e + (j - 1) + 1 = e + j
    BY <2>1, <2>4
  <2>6. 1 \in 1 .. Len(piece(y))
    BY <2>2
  <2>7. words[p[y - 1] + 1] = piece(y)[1]
    BY <1>10, <2>2, <2>6
  <2>8. words[(e + j) + 1] = out[y]
    BY <2>2, <2>3, <2>5, <2>7
  <2> QED
    BY <2>8 DEF y, e
<1>13. ASSUME NEW i \in 1 .. n
       PROVE  /\ words[1 + (b + 1) * (i - 1)] = BlockId(first, o, i)
              /\ \A j \in 1 .. b : words[(1 + (b + 1) * (i - 1)) + j] = out[b * (i - 1) + j]
  <2> DEFINE e == (b + 1) * (i - 1)
             x == b * (i - 1)
  <2>1. e \in Nat
    BY Product
  <2>2. words[e + 1] = BlockId(first, o, i) /\ words[e + 2] = out[x + 1]
    BY <1>11
  <2>3. \A j \in 1 .. b : j # 1 => words[(e + j) + 1] = out[x + j]
    BY <1>12
  <2> HIDE DEF e, x
  <2>4. 1 + e = e + 1 /\ \A j \in 1 .. b : (1 + e) + j = (e + j) + 1
    BY <2>1
  <2>5. ASSUME NEW j \in 1 .. b PROVE words[(1 + e) + j] = out[x + j]
    <3>1. CASE j = 1
      <4>1. (1 + e) + j = e + 2
        BY <2>1, <3>1
      <4> QED
        BY <2>2, <3>1, <4>1
    <3>2. CASE j # 1
      BY <2>3, <2>4, <3>2
    <3> QED
      BY <3>1, <3>2
  <2> QED
    BY <2>2, <2>4, <2>5 DEF e, x
<1> QED
  BY <1>13, Zenon DEF ReplyLayout, words

LEMMA InCellsOf ==
  ASSUME NEW kind, NEW id, NEW j \in 1 .. (NumFactors + 1)
  PROVE  <<kind, id, j - 1>> \in CellsOf(kind, id)
<1>1. NumFactors \in Nat
  BY NumFactorsAssumption
<1>2. CASE j = 1
  <2>1. <<kind, id, j - 1>> = Bias(kind, id)
    BY <1>2 DEF Bias
  <2> QED
    BY <2>1 DEF CellsOf
<1>3. CASE j # 1
  <2>1. j - 2 \in Factors /\ (j - 2) + 1 = j - 1
    BY <1>1, <1>3 DEF Factors
  <2>2. <<kind, id, j - 1>> = Weight(kind, id, j - 2)
    BY <2>1 DEF Weight
  <2> QED
    BY <2>1, <2>2 DEF CellsOf
<1> QED
  BY <1>2, <1>3

(* The loaded model has, for cell x of the request, a value that was read for *)
(* that cell.                                                                 *)
LoadedFrom(loaded, cells, x, out) ==
  \E k \in 1 .. Len(cells) : cells[k] = cells[x] /\ loaded[cells[x]] = out[k]

(* What a worker of collaborative filtering loads for a cell is a value that  *)
(* was read for that cell.                                                    *)
LEMMA MFReplyLoaded ==
  ASSUME NEW first, NEW o, NEW ni \in Nat, NEW cells, NEW out, NEW x \in 1 .. Len(cells),
         RequestLayout(cells, first, o, NumFactors + 1, MiniBatch + ni),
         U!IsSeq(out), Len(out) = Len(cells)
  PROVE  LoadedFrom(loadSparseMF(MFReplyWords(cells, out), first, MiniBatch, ni), cells, x, out)
<1> DEFINE b == NumFactors + 1
           n == MiniBatch + ni
           block == 2 + NumFactors
           words == MFReplyWords(cells, out)
           start(i) == 1 + block * (i - 1)
           id(i) == IF i <= MiniBatch THEN first + i - 1 ELSE words[start(i)]
           Is(i, d) == BlockKind(i) = d[1] /\ id(i) = d[2]
           at(d) == CHOOSE i \in 1 .. n : Is(i, d)
           D == UNION {CellsOf(BlockKind(i), id(i)) : i \in 1 .. n}
           c == cells[x]
<1>1. loadSparseMF(words, first, MiniBatch, ni) = [d \in D |-> words[start(at(d)) + 1 + d[3]]]
  BY DEF loadSparseMF, BlockKind
<1>2. b \in Nat \ {0} /\ n \in Nat /\ block = b + 1
  BY NumFactorsAssumption, SizeAssumption
<1>3. ReplyLayout(words, first, o, b, n, out)
  <2> HIDE DEF b, n
  <2>1. RequestLayout(cells, first, o, b, n)
    BY DEF b, n
  <2> QED
    BY <1>2, <2>1, ReplyLaidOut
<1> HIDE DEF words, block, b, n
<1>4. ASSUME NEW i \in 1 .. n
      PROVE  /\ words[start(i)] = BlockId(first, o, i)
             /\ \A j \in 1 .. b : words[start(i) + j] = out[b * (i - 1) + j]
  BY <1>2, <1>3, Zenon DEF ReplyLayout
<1>5. \A i \in 1 .. n : id(i) = BlockId(first, o, i)
  <2> SUFFICES ASSUME NEW i \in 1 .. n PROVE id(i) = BlockId(first, o, i)
    OBVIOUS
  <2>1. words[start(i)] = BlockId(first, o, i)
    BY <1>4
  <2> QED
    BY <2>1, Zenon DEF BlockId
<1> HIDE DEF start, id
<1>6. PICK i \in 1 .. n, j \in 1 .. b : c = BlockCell(first, o, i, j)
  BY DEF RequestLayout, b, n
<1>7. c = <<BlockKind(i), BlockId(first, o, i), j - 1>>
  BY <1>6 DEF BlockCell
<1>8. c[1] = BlockKind(i) /\ c[2] = BlockId(first, o, i) /\ c[3] = j - 1
  BY <1>7
<1> HIDE DEF c
<1>9. Is(i, c)
  BY <1>5, <1>8
<1> HIDE DEF Is
<1>10. at(c) \in 1 .. n /\ Is(at(c), c)
  BY <1>9
<1> HIDE DEF at
<1> DEFINE a == at(c)
<1>11. a \in 1 .. n /\ BlockKind(a) = BlockKind(i) /\ BlockId(first, o, a) = BlockId(first, o, i)
  BY <1>5, <1>8, <1>10, Zenon DEF Is
<1> HIDE DEF a
<1>12. c \in D
  <2>1. c = <<BlockKind(i), id(i), j - 1>>
    BY <1>5, <1>7
  <2>2. <<BlockKind(i), id(i), j - 1>> \in CellsOf(BlockKind(i), id(i))
    BY InCellsOf DEF b
  <2> QED
    BY <2>1, <2>2
<1> DEFINE k == b * (a - 1) + j
<1>13. k \in 1 .. Len(cells) /\ cells[k] = BlockCell(first, o, a, j)
  BY <1>11 DEF RequestLayout, b, n
<1>14. cells[k] = c
  BY <1>7, <1>11, <1>13 DEF BlockCell
<1>15. start(a) + 1 + c[3] = start(a) + j
  <2>1. start(a) \in Int
    <3>1. a - 1 \in Nat /\ b + 1 \in Nat
      BY <1>2, <1>11
    <3> DEFINE y == (b + 1) * (a - 1)
    <3>2. y \in Nat
      BY <3>1, Product
    <3>3. start(a) = 1 + y
      BY <1>2 DEF start
    <3> HIDE DEF y
    <3> QED
      BY <3>2, <3>3
  <2> QED
    BY <1>8, <2>1
<1>16. words[start(a) + j] = out[k]
  BY <1>4, <1>11
<1> HIDE DEF D, k
<1>17. loadSparseMF(words, first, MiniBatch, ni)[c] = words[start(a) + 1 + c[3]]
  BY <1>1, <1>12 DEF a
<1>18. loadSparseMF(words, first, MiniBatch, ni)[c] = out[k]
  BY <1>15, <1>16, <1>17
<1> QED
  BY <1>13, <1>14, <1>18 DEF words, c, LoadedFrom

-----------------------------------------------------------------------------
(* The reply to a request of logistic regression. *)

LRCells(m) == [i \in 1 .. m[1] |-> m[i + 1]]

LEMMA LRRequestFacts ==
  ASSUME NEW b \in Seq(Sample), NEW m, m = LR!LRRequestWords(b)
  PROVE  /\ m[1] \in Nat /\ m[1] = Len(LR!Features(b)) /\ Len(m) = m[1] + 1
         /\ U!IsSeq(LRCells(m)) /\ Len(LRCells(m)) = m[1]
         /\ \A i \in 1 .. m[1] : LRCells(m)[i] = m[i + 1] /\ m[i + 1] \in 0 .. (Dim - 1)
<1> DEFINE f == LR!Features(b)
           n == Len(f)
           E == 0 .. (Dim - 1)
           z == [i \in 1 .. n |-> f[i][1]]
           T == E \union {n}
<1>1. f \in Seq(E \X Int)
  BY FeaturesAreSeq DEF Sample
<1>2. m = <<n>> \o z
  BY DEF LR!LRRequestWords
<1>n. n = Len(LR!Features(b))
  OBVIOUS
<1> HIDE DEF f, E
<1>3. n \in Nat /\ \A i \in 1 .. n : f[i][1] \in E
  BY <1>1
<1> HIDE DEF n
<1>4. /\ z \in Seq(T) /\ Len(z) = n /\ \A i \in 1 .. n : z[i] \in E
      /\ <<n>> \in Seq(T) /\ Len(<<n>>) = 1 /\ <<n>>[1] = n
  BY <1>3
<1> HIDE DEF z, T
<1>5. /\ Len(m) = 1 + n
      /\ \A i \in 1 .. 1 : m[i] = <<n>>[i]
      /\ \A i \in 1 .. n : m[1 + i] = z[i]
  <2> DEFINE h == <<n>>
  <2>1. h \in Seq(T) /\ z \in Seq(T) /\ Len(h) = 1
    BY <1>4
  <2> HIDE DEF h
  <2>2. /\ Len(h \o z) = Len(h) + Len(z)
        /\ \A i \in 1 .. Len(h) : (h \o z)[i] = h[i]
        /\ \A i \in 1 .. Len(z) : (h \o z)[Len(h) + i] = z[i]
    <3>1. h \in Seq(T) /\ z \in Seq(T)
      BY <2>1
    <3> QED
      BY <3>1, Cat
  <2> QED
    BY <1>2, <1>4, <2>1, <2>2 DEF h
<1>6. m[1] = n
  BY <1>4, <1>5
<1>7. \A i \in 1 .. n : m[i + 1] \in E
  <2> SUFFICES ASSUME NEW i \in 1 .. n PROVE m[i + 1] \in E
    OBVIOUS
  <2>1. i + 1 = 1 + i
    BY <1>3
  <2> QED
    BY <1>4, <1>5, <2>1
<1>8. LRCells(m) \in Seq(E) /\ Len(LRCells(m)) = n /\ \A i \in 1 .. n : LRCells(m)[i] = m[i + 1]
  BY <1>3, <1>6, <1>7 DEF LRCells
<1> QED
  BY <1>3, <1>n, <1>5, <1>6, <1>7, <1>8 DEF U!IsSeq, E

-----------------------------------------------------------------------------
(* Why a process stops. *)

(* Once the server has stopped, the first gradient pushed and what a request  *)
(* was made for stay as they are, and so does the minibatch of a worker that  *)
(* stopped.                                                                   *)
HeadKept(w) == pushed[w] # <<>> => pushed'[w] # <<>> /\ Head(pushed'[w]) = Head(pushed[w])
SentKept(w) == get[w].pc = "sent" => get'[w].pc = "sent" /\ batch'[w] = batch[w]

LEMMA ReasonsStay ==
  ASSUME StopsOnlyForSizes, setup' = setup, crashed' = crashed,
         crashed # "no" => \A w \in W : HeadKept(w) /\ SentKept(w),
         \A w \in W : wpc'[w] = "abort" =>
           LET n == Len(LR!Features(batch'[w])) IN n >= MsgWords \/ ~LR!CountOK(n)
  PROVE  StopsOnlyForSizes'
<1>1. W' = W /\ LRKind' = LRKind
  BY DEF W, LRKind
<1>2. crashed \in {"num_weights", "Not enough buffer", "to_send_size",
                   "k_items"} => crashed # "no"
  OBVIOUS
<1>3. \A g : GradientWords(g)' = GradientWords(g)
  BY <1>1 DEF GradientWords
<1>4. ASSUME crashed \in {"num_weights", "Not enough buffer"}
      PROVE  \E w \in W :
               \/ /\ pushed'[w] # <<>>
                  /\ LET g == Head(pushed'[w]) IN
                     GradientWords(g) > setup.buffer \/ (LRKind /\ ~LR!CountOK(Len(g)))
               \/ /\ LRKind /\ get'[w].pc = "sent"
                  /\ Len(LR!Features(batch'[w])) + 1 > setup.buffer
  <2>1. PICK w \in W :
          \/ /\ pushed[w] # <<>>
             /\ LET g == Head(pushed[w]) IN
                GradientWords(g) > setup.buffer \/ (LRKind /\ ~LR!CountOK(Len(g)))
          \/ /\ LRKind /\ get[w].pc = "sent"
             /\ Len(LR!Features(batch[w])) + 1 > setup.buffer
    BY <1>4 DEF StopsOnlyForSizes
  <2>2. HeadKept(w) /\ SentKept(w)
    BY <1>2, <1>4
  <2> QED
    BY <2>1, <2>2 DEF HeadKept, SentKept
<1>5. crashed = "to_send_size" =>
        \E w \in W : get'[w].pc = "sent" /\ Len(LR!Features(batch'[w])) >= MsgWords
  BY <1>2 DEF StopsOnlyForSizes, SentKept
<1>6. crashed = "k_items" => \E w \in W : get'[w].pc = "sent" /\ RatingSeq(batch'[w]) = <<>>
  BY <1>2 DEF StopsOnlyForSizes, SentKept
<1>7. crashed = "Thread buffer too small" =>
        setup.buffer < IF LRKind THEN Dim + 1
                       ELSE 6 + (NumFactors + 1) * (setup.nusers + setup.nitems)
  BY DEF StopsOnlyForSizes
<1> QED
  BY <1>1, <1>3, <1>4, <1>5, <1>6, <1>7 DEF StopsOnlyForSizes

(* A worker whose step does not stop it. *)
LEMMA StopWork ==
  ASSUME StoreInv, StopsOnlyForSizes, NEW v \in W,
         GetMinibatch(v) \/ ComputeGradient(v) \/ PushGradient(v)
  PROVE  StopsOnlyForSizes'
<1>1. Domains /\ (\A w \in W : Working(w) /\ Serving(w))
  BY DEF StoreInv
<1>2. /\ setup' = setup /\ crashed' = crashed
      /\ wpc[v] \in {"next", "model", "grad"}
      /\ wpc'[v] \in {"model", "grad", "exit", "next"} /\ DOMAIN wpc' = W
      /\ \A w \in W \ {v} : /\ wpc'[w] = wpc[w] /\ batch'[w] = batch[w]
                            /\ get'[w] = get[w] /\ pushed'[w] = pushed[w]
  <2>1. CASE GetMinibatch(v)
    BY <1>1, <2>1 DEF GetMinibatch, NextSamples, NextRows, serverVars, Domains
  <2>2. CASE ComputeGradient(v)
    BY <1>1, <2>2 DEF ComputeGradient, serverVars, Domains, history
  <2>3. CASE PushGradient(v)
    <3>1. wpc' = [wpc EXCEPT ![v] =
             IF setup.test_iters > 0 /\ count'[v] > setup.test_iters THEN "exit" ELSE "next"]
      BY <2>3 DEF PushGradient
    <3>2. wpc'[v] \in {"exit", "next"}
      BY <1>1, <3>1 DEF Domains
    <3> QED
      BY <1>1, <2>3, <3>1, <3>2 DEF PushGradient, serverVars, Domains
  <2> QED
    BY <2>1, <2>2, <2>3
<1>3. get[v].pc = "sent" => batch'[v] = batch[v] /\ get'[v] = get[v]
  <2>1. CASE GetMinibatch(v)
    BY <1>1, <2>1 DEF GetMinibatch, Working
  <2>2. CASE ComputeGradient(v)
    BY <2>2 DEF ComputeGradient
  <2>3. CASE PushGradient(v)
    BY <1>1, <2>3 DEF PushGradient, Working
  <2> QED
    BY <2>1, <2>2, <2>3
<1>4. HeadKept(v)
  <2>1. CASE PushGradient(v)
    <3> DEFINE p == pushed[v]
               g == grad[v]
    <3>1. pushed'[v] = Append(p, g) /\ U!IsSeq(p)
      BY <1>1, <2>1 DEF PushGradient, Serving, Domains
    <3> HIDE DEF p, g
    <3>2. Append(p, g) # <<>>
      BY <3>1, U!SeqAppend, U!SeqEmpty, U!SeqLength
    <3>3. p # <<>> => Head(Append(p, g)) = Head(p)
      <4> SUFFICES ASSUME p # <<>> PROVE Head(Append(p, g)) = Head(p)
        OBVIOUS
      <4>1. /\ Head(p) = p[1] /\ 1 \in 1 .. Len(p)
            /\ U!IsSeq(Append(p, g)) /\ Append(p, g)[1] = p[1]
        BY <3>1, U!SeqTail, U!SeqAppend
      <4>2. Head(Append(p, g)) = Append(p, g)[1]
        BY <3>2, <4>1, U!SeqTail
      <4> QED
        BY <4>1, <4>2
    <3> QED
      BY <3>1, <3>2, <3>3 DEF HeadKept, p
  <2>2. CASE ~PushGradient(v)
    BY <2>2 DEF HeadKept, GetMinibatch, ComputeGradient, history
  <2> QED
    BY <2>1, <2>2
<1>5. \A w \in W : HeadKept(w) /\ SentKept(w)
  BY <1>2, <1>3, <1>4 DEF HeadKept, SentKept
<1>6. \A w \in W : wpc'[w] = "abort" => wpc[w] = "abort" /\ batch'[w] = batch[w]
  BY <1>2
<1>7. \A w \in W : wpc'[w] = "abort" =>
        LET n == Len(LR!Features(batch'[w])) IN n >= MsgWords \/ ~LR!CountOK(n)
  BY <1>6 DEF StopsOnlyForSizes
<1> QED
  BY <1>2, <1>5, <1>7, ReasonsStay

LEMMA StopLeave ==
  ASSUME StoreInv, StopsOnlyForSizes, NEW v \in W, OverrunMessage(v) \/ AbortWorker(v)
  PROVE  StopsOnlyForSizes'
<1>1. setup \in Setups /\ Domains /\ Working(v)
  BY DEF StoreInv
<1>2. /\ wpc' = [wpc EXCEPT ![v] = "abort"]
      /\ UNCHANGED <<setup, crashed, get, pushed>>
  BY DEF OverrunMessage, AbortWorker, serverVars, history
<1> DEFINE n == Len(LR!Features(batch'[v]))
<1>3. /\ \A w \in W \ {v} : batch'[w] = batch[w]
      /\ get[v].pc = "sent" => batch'[v] = batch[v]
      /\ n >= MsgWords \/ ~LR!CountOK(n)
  <2>1. CASE OverrunMessage(v)
    <3>1. /\ wpc[v] = "next" /\ LRKind /\ Len(LR!LRRequestWords(batch'[v])) > MsgWords
          /\ \E b \in setup.batches : batch' = [batch EXCEPT ![v] = b]
      BY <2>1 DEF OverrunMessage, NextSamples
    <3>2. PICK b \in setup.batches : batch' = [batch EXCEPT ![v] = b]
      BY <3>1
    <3>3. b \in Seq(Sample) /\ batch'[v] = b /\ \A w \in W \ {v} : batch'[w] = batch[w]
      BY <1>1, <3>2, SetupFacts DEF Domains
    <3>4. n \in Nat /\ Len(LR!LRRequestWords(b)) = n + 1
      BY <3>3, LRRequestFacts
    <3>5. n + 1 > MsgWords /\ MsgWords \in Nat
      BY <3>1, <3>3, <3>4, BoundsAssumption
    <3> HIDE DEF n
    <3>6. n >= MsgWords
      BY <3>4, <3>5
    <3> QED
      BY <1>1, <3>1, <3>3, <3>6 DEF Working
  <2>2. CASE AbortWorker(v)
    BY <2>2 DEF AbortWorker
  <2> QED
    BY <2>1, <2>2
<1>4. \A w \in W : HeadKept(w) /\ SentKept(w)
  BY <1>2, <1>3 DEF HeadKept, SentKept
<1>5. \A w \in W \ {v} : wpc'[w] = wpc[w]
  BY <1>1, <1>2 DEF Domains
<1> HIDE DEF n
<1>6. ASSUME NEW w \in W, wpc'[w] = "abort"
      PROVE  LET k == Len(LR!Features(batch'[w])) IN k >= MsgWords \/ ~LR!CountOK(k)
  <2>1. CASE w = v
    BY <1>3, <2>1 DEF n
  <2>2. CASE w # v
    BY <1>3, <1>5, <1>6, <2>2 DEF StopsOnlyForSizes
  <2> QED
    BY <2>1, <2>2
<1> QED
  BY <1>2, <1>4, <1>6, ReasonsStay

(* The server stops for a message, while the workers stand where they are. *)
LEMMA StopNow ==
  ASSUME StopsOnlyForSizes, UNCHANGED <<setup, wpc, batch, get, pushed>>, NEW v \in W,
         \/ crashed' = "no"
         \/ /\ crashed' = "num_weights" /\ pushed[v] # <<>> /\ LRKind
            /\ ~LR!CountOK(Len(Head(pushed[v])))
         \/ /\ crashed' = "Not enough buffer" /\ pushed[v] # <<>>
            /\ GradientWords(Head(pushed[v])) > setup.buffer
         \/ /\ crashed' = "Not enough buffer" /\ LRKind /\ get[v].pc = "sent"
            /\ Len(LR!Features(batch[v])) + 1 > setup.buffer
         \/ /\ crashed' = "to_send_size" /\ get[v].pc = "sent"
            /\ Len(LR!Features(batch[v])) >= MsgWords
         \/ crashed' = "k_items" /\ get[v].pc = "sent" /\ RatingSeq(batch[v]) = <<>>
  PROVE  StopsOnlyForSizes'
<1>1. W' = W /\ LRKind' = LRKind
  BY DEF W, LRKind
<1>2. \A g : GradientWords(g)' = GradientWords(g)
  BY <1>1 DEF GradientWords
<1>3. \A w \in W : wpc[w] = "abort" =>
        LET n == Len(LR!Features(batch[w])) IN n >= MsgWords \/ ~LR!CountOK(n)
  BY DEF StopsOnlyForSizes
<1>4. crashed' # "Thread buffer too small"
  OBVIOUS
<1> QED
  BY <1>1, <1>2, <1>3, <1>4 DEF StopsOnlyForSizes

LEMMA StopReceive ==
  ASSUME StoreInv, StopsOnlyForSizes, crashed = "no", NEW v \in W, GradientReceive(v)
  PROVE  StopsOnlyForSizes'
<1> DEFINE msg == Head(gradConn[v])
           g == Head(pushed[v])
<1>1. /\ put[v].pc = "idle" /\ gradConn[v] # <<>>
      /\ crashed' = Refused(msg)
      /\ UNCHANGED <<setup, wpc, batch, get, pushed>>
  BY DEF GradientReceive, workerVars, history
<1>2. setup \in Setups
  BY DEF StoreInv
<1>3. pushed[v] # <<>> /\ Carries(setup, msg, g)
  BY <1>1, FirstCarried
<1> HIDE DEF msg, g
<1>4. Len(msg) \in Nat /\ Len(msg) = GradientWords(g) /\ (LRKind => msg[2] = Len(g))
  BY <1>3 DEF Carries, Words, GradientWords, LRKind
<1>5. /\ Refused(msg) \in {"no", "Not enough buffer", "num_weights"}
      /\ Refused(msg) = "Not enough buffer" => Len(msg) > setup.buffer
      /\ Refused(msg) = "num_weights" => LRKind /\ ~LR!CountOK(msg[2])
  BY <1>2, <1>4, RefusedFor DEF NoWeights
<1>6. \/ crashed' = "no"
      \/ crashed' = "num_weights" /\ LRKind /\ ~LR!CountOK(Len(g))
      \/ crashed' = "Not enough buffer" /\ GradientWords(g) > setup.buffer
  BY <1>1, <1>4, <1>5
<1> QED
  BY <1>1, <1>3, <1>6, StopNow DEF g

LEMMA StopRequest ==
  ASSUME StoreInv, StopsOnlyForSizes, crashed = "no", NEW v \in W, RequestReceive(v)
  PROVE  StopsOnlyForSizes'
<1> DEFINE msg == get[v].msg
           n == Len(LR!Features(batch[v]))
<1>1. /\ get[v].pc = "sent" /\ crashed' = Unanswerable(msg)
      /\ UNCHANGED <<setup, wpc, batch, pushed>>
      /\ get' = get \/ Unanswerable(msg) = "no"
  BY DEF RequestReceive, workerVars, history
<1>2. setup \in Setups /\ Working(v) /\ Domains
  BY DEF StoreInv
<1>3. wpc[v] \in {"model", "abort"} /\ IsBatch(setup, batch[v])
  BY <1>1, <1>2 DEF Working
<1>4. CASE Unanswerable(msg) = "no"
  <2>1. crashed' = crashed
    BY <1>1, <1>4
  <2>2. \A w \in W : wpc'[w] = "abort" =>
          LET k == Len(LR!Features(batch'[w])) IN k >= MsgWords \/ ~LR!CountOK(k)
    BY <1>1 DEF StopsOnlyForSizes
  <2> QED
    BY <1>1, <2>1, <2>2, ReasonsStay
<1>5. CASE Unanswerable(msg) # "no" /\ LRKind
  <2>1. batch[v] \in Seq(Sample) /\ msg = LR!LRRequestWords(batch[v])
    BY <1>1, <1>2, <1>3, <1>5 DEF Working, IsBatch, LRKind
  <2>2. n \in Nat /\ msg[1] = n /\ Len(msg) = n + 1
    BY <2>1, LRRequestFacts
  <2> HIDE DEF msg, n
  <2>3. setup.buffer \in Nat /\ MsgWords \in Nat
    BY <1>2, SetupFacts, BoundsAssumption
  <2>4. CASE n + 1 > setup.buffer
    <3>1. Unanswerable(msg) = "Not enough buffer"
      BY <1>5, <2>2, <2>3, <2>4 DEF Unanswerable
    <3>2. crashed' = "Not enough buffer" /\ LRKind /\ get[v].pc = "sent"
      BY <1>1, <1>5, <3>1
    <3>3. get' = get
      BY <1>1, <1>5
    <3> QED
      BY <1>1, <2>4, <3>2, <3>3, StopNow DEF n
  <2>5. CASE n + 1 <= setup.buffer
    <3>1. n >= MsgWords /\ Unanswerable(msg) = "to_send_size"
      BY <1>5, <2>2, <2>3, <2>5 DEF Unanswerable
    <3>2. crashed' = "to_send_size" /\ get[v].pc = "sent" /\ get' = get
      BY <1>1, <1>5, <3>1
    <3> QED
      BY <1>1, <3>1, <3>2, StopNow DEF n
  <2> QED
    BY <2>2, <2>3, <2>4, <2>5
<1>6. CASE Unanswerable(msg) # "no" /\ ~LRKind
  <2>1. batch[v] \in Seq(Seq(Nat \X Int)) /\ msg[1] = Len(ItemOrder(batch[v]))
    BY <1>1, <1>2, <1>3, <1>6 DEF Working, IsBatch, LRKind
  <2> HIDE DEF msg
  <2>2. msg[1] = 0 /\ Unanswerable(msg) = "k_items"
    BY <1>6 DEF Unanswerable
  <2>3. RatingSeq(batch[v]) = <<>>
    <3>1. U!IsSeq(ItemOrder(batch[v]))
      BY <2>1, ItemOrderFacts
    <3>2. ItemOrder(batch[v]) = <<>>
      BY <2>1, <2>2, <3>1, U!SeqLength
    <3> QED
      BY <2>1, <3>2, RatingSeqFacts
  <2>4. crashed' = "k_items" /\ get[v].pc = "sent" /\ get' = get
    BY <1>1, <1>6, <2>2
  <2> QED
    BY <1>1, <2>3, <2>4, StopNow
<1> QED
  BY <1>4, <1>5, <1>6

LEMMA StopTooLong ==
  ASSUME StoreInv, StopsOnlyForSizes, crashed = "no", ErrorModelTooLong
  PROVE  StopsOnlyForSizes'
<1> DEFINE n == IF LRKind THEN Dim + 1
                ELSE 6 + (NumFactors + 1) * (setup.nusers + setup.nitems)
<1>1. /\ crashed' = "Thread buffer too small" /\ Len(FullModelWords) > setup.buffer
      /\ UNCHANGED <<setup, wpc, batch>>
  BY DEF ErrorModelTooLong, workerVars
<1>2. setup \in Setups /\ Settled
  BY DEF StoreInv
<1>3. Len(FullModelWords) = n /\ n \in Nat
  <2>1. model = [c \in ModelCells |-> model[c]]
    BY <1>2 DEF Settled, IsStore, Store
  <2>2. Dim \in Nat /\ setup.nusers \in Nat /\ setup.nitems \in Nat
    BY <1>2, BoundsAssumption, SetupFacts
  <2>3. CASE LRKind
    <3>1. model = [c \in 0 .. (Dim - 1) |-> model[c]]
      BY <2>1, <2>3 DEF ModelCells
    <3> QED
      BY <2>2, <2>3, <3>1, LRModelRoundTrip DEF FullModelWords
  <2>4. CASE ~LRKind
    <3>1. model = [c \in Cells(0 .. (setup.nusers - 1), 0 .. (setup.nitems - 1)) |-> model[c]]
      BY <2>1, <2>4 DEF ModelCells
    <3>2. Len(FullModelWords) = 6 + (NumFactors + 1) * (setup.nusers + setup.nitems)
      BY <2>2, <2>4, <3>1, MFModelRoundTrip DEF FullModelWords
    <3>3. \A a, b, c \in Nat : 6 + (a + 1) * (b + c) \in Nat
      OBVIOUS
    <3> QED
      BY <2>2, <2>4, <3>2, <3>3, NumFactorsAssumption
  <2> QED
    BY <2>3, <2>4
<1>4. setup.buffer \in Nat
  BY <1>2, SetupFacts
<1> HIDE DEF n
<1>5. setup.buffer < n
  BY <1>1, <1>3, <1>4
<1>6. W' = W /\ LRKind' = LRKind
  BY <1>1 DEF W, LRKind
<1>7. \A w \in W : wpc'[w] = "abort" =>
        LET k == Len(LR!Features(batch'[w])) IN k >= MsgWords \/ ~LR!CountOK(k)
  BY <1>1 DEF StopsOnlyForSizes
<1> QED
  BY <1>1, <1>5, <1>6, <1>7 DEF StopsOnlyForSizes, n

LEMMA StopStep ==
  ASSUME StoreInv, StopsOnlyForSizes, [Next]_vars
  PROVE  StopsOnlyForSizes'
<1> DEFINE Same == /\ UNCHANGED <<setup, crashed, wpc, batch, pushed>>
                   /\ crashed = "no" \/ get' = get
<1>1. CASE Same
  <2>1. /\ setup' = setup /\ crashed' = crashed
        /\ crashed # "no" => \A w \in W : HeadKept(w) /\ SentKept(w)
    BY <1>1 DEF HeadKept, SentKept
  <2>2. \A w \in W : wpc'[w] = "abort" =>
          LET n == Len(LR!Features(batch'[w])) IN n >= MsgWords \/ ~LR!CountOK(n)
    BY <1>1 DEF StopsOnlyForSizes
  <2> QED
    BY <2>1, <2>2, ReasonsStay
<1>2. ASSUME NEW v \in W, Worker(v) PROVE StopsOnlyForSizes'
  BY <1>2, StopWork, StopLeave DEF Worker
<1>3. ASSUME crashed = "no", NEW v \in W, GradientApply(v) PROVE StopsOnlyForSizes'
  <2>1. UNCHANGED <<setup, crashed, wpc, batch, get>>
    BY <1>3 DEF GradientApply, workerVars
  <2>2. \A w \in W : wpc'[w] = "abort" =>
          LET n == Len(LR!Features(batch'[w])) IN n >= MsgWords \/ ~LR!CountOK(n)
    BY <2>1 DEF StopsOnlyForSizes
  <2> QED
    BY <1>3, <2>1, <2>2, ReasonsStay
<1>4. ASSUME NEW v \in W, PutHandler(v) PROVE StopsOnlyForSizes'
  <2>1. CASE GradientReceive(v)
    BY <1>4, <2>1, StopReceive DEF PutHandler
  <2>2. CASE GradientApply(v)
    BY <1>3, <1>4, <2>2 DEF PutHandler
  <2>3. CASE GradientLock(v) \/ GradientCount(v)
    BY <1>1, <1>4, <2>3 DEF PutHandler, GradientLock, GradientCount, workerVars, history
  <2> QED
    BY <1>4, <2>1, <2>2, <2>3 DEF PutHandler
<1>5. ASSUME NEW v \in W, GetHandler(v) PROVE StopsOnlyForSizes'
  <2>1. CASE RequestReceive(v)
    BY <1>5, <2>1, StopRequest DEF GetHandler
  <2>2. CASE ReadWeight(v) \/ EditWeight(v)
    BY <1>1, <1>5, <2>2 DEF GetHandler, ReadWeight, EditWeight, serverVars, workerVars, history
  <2> QED
    BY <1>5, <2>1, <2>2 DEF GetHandler
<1>6. CASE ErrorModelTooLong
  BY <1>6, StopTooLong DEF ErrorModelTooLong
<1>7. CASE Report \/ ErrorTop \/ ErrorGetModel \/ ErrorGetFails \/ ErrorLoss \/ ErrorTime
           \/ ErrorError \/ Udp \/ UNCHANGED vars
  BY <1>1, <1>7
  DEF Report, ReportRead, ReportReset, ErrorTop, ErrorGetModel, ErrorGetFails, ErrorLoss,
      ErrorTime, ErrorError, Udp, UdpTime, UdpError, vars, serverVars, workerVars, history
<1> QED
  BY <1>2, <1>4, <1>5, <1>6, <1>7 DEF Next, ErrorTask

(* For every data set, buffer and number of workers: the server and the       *)
(* workers stop only for what the assertions and the checks of buffers on     *)
(* their messages say of the gradient, the minibatch or the model behind the  *)
(* message, whatever has been pushed and asked for in the meantime            *)
(* (ModelGradient.cpp:117, PSSparseServerTask.cpp:139, 176, 223, 265, 284 and *)
(* 320, SparseLRModel.cpp:384, PSSparseServerInterface.cpp:81).               *)
THEOREM StopsExplained == Spec => []StopsOnlyForSizes
<1>1. Init => StoreInv /\ StopsOnlyForSizes
  <2>1. Init => crashed = "no" /\ \A w \in W : wpc[w] = "next"
    BY DEF Init
  <2> QED
    BY <2>1, StoreInit DEF StopsOnlyForSizes
<1>2. StoreInv /\ StopsOnlyForSizes /\ [Next]_vars => StoreInv' /\ StopsOnlyForSizes'
  BY StoreStep, StopStep
<1> QED
  BY <1>1, <1>2, PTL DEF Spec

(* What the worker loads for an index is a value that was read for it.        *)
LEMMA LRReplyLoaded ==
  ASSUME NEW b \in Seq(Sample), NEW m, m = LR!LRRequestWords(b), NEW out, NEW wm,
         NEW x \in 1 .. Len(LRCells(m)), LRCells(m)[x] \in DOMAIN wm
  PROVE  LoadedFrom(LR!loadSerializedSparse(m, out, wm), LRCells(m), x, out)
<1> DEFINE c == LRCells(m)[x]
           at(d) == {i \in 1 .. m[1] : m[i + 1] = d}
           k == U!Max(at(c))
<1>1. /\ m[1] \in Nat /\ Len(LRCells(m)) = m[1]
      /\ \A i \in 1 .. m[1] : LRCells(m)[i] = m[i + 1]
  BY LRRequestFacts
<1>2. x \in at(c)
  BY <1>1
<1>3. k \in at(c)
  <2>1. at(c) \in SUBSET (1 .. m[1]) /\ at(c) # {}
    BY <1>2
  <2> HIDE DEF at, c
  <2> QED
    BY <1>1, <2>1, U!MaxOfNumbers
<1>4. k \in 1 .. m[1] /\ LRCells(m)[k] = c
  BY <1>1, <1>3
<1>5. \A s : LR!Max(s) = U!Max(s)
  BY DEF LR!Max, U!Max
<1>6. LR!loadSerializedSparse(m, out, wm)
        = [d \in DOMAIN wm |-> IF at(d) = {} THEN wm[d] ELSE out[LR!Max(at(d))]]
  BY DEF LR!loadSerializedSparse
<1> HIDE DEF at, c
<1>7. at(c) # {} /\ c \in DOMAIN wm
  BY <1>2 DEF c
<1>8. LR!loadSerializedSparse(m, out, wm)[c] = out[k]
  <2>1. LR!loadSerializedSparse(m, out, wm)[c] = out[LR!Max(at(c))]
    BY <1>6, <1>7
  <2> QED
    BY <1>5, <2>1
<1> HIDE DEF k
<1> QED
  BY <1>1, <1>4, <1>8 DEF c, LoadedFrom

-----------------------------------------------------------------------------
(* The invariant: how far the reply to each worker has got, and what the      *)
(* server had since the request.                                              *)

Request(w) ==
  IF LRKind THEN LR!LRRequestWords(batch[w]) ELSE MFRequestWords(base[w], batch[w], MiniBatch)

(* The window holds what the server has now, for the cells of the request.    *)
Asked(w) ==
  /\ get[w].pc # "idle" /\ get[w].msg = Request(w)
  /\ DOMAIN window[w].cells = ToSet(RequestCells(get[w].msg))
  /\ opt.avg \in window[w].avgs
  /\ \A c \in DOMAIN window[w].cells : model[c] \in window[w].cells[c]

(* A weight that was read but not edited yet is the server's. *)
ReadAs(w, i) ==
  IF get[w].pc = "edit" /\ i = Len(get[w].out) THEN window[w].cells[get[w].cells[i]]
  ELSE Answer(w, get[w].cells[i])

Answering(w) ==
  /\ U!IsSeq(get[w].out)
  /\ get[w].pc = "sent" => get[w].out = <<>>
  /\ get[w].pc # "sent" => /\ get[w].cells = RequestCells(get[w].msg)
                           /\ Len(get[w].out) <= Len(get[w].cells)
  /\ get[w].pc = "read" => Len(get[w].out) # Len(get[w].cells)
  /\ get[w].pc = "edit" => get[w].out # <<>>
  /\ get[w].pc = "reply" => Len(get[w].out) = Len(get[w].cells)
  /\ \A i \in 1 .. Len(get[w].out) : get[w].out[i] \in ReadAs(w, i)

Current(w) == \A c \in DOMAIN window[w].cells : wmodel[w][c] \in Answer(w, c)

Informed(w) ==
  /\ LRKind => DOMAIN wmodel[w] = ModelCells
  /\ wpc[w] = "model" => Asked(w) /\ Answering(w)
  /\ wpc[w] = "grad" => Current(w)

WeightInv ==
  /\ DOMAIN window = W /\ DOMAIN wmodel = W
  /\ \A w \in W : Informed(w)

(* The request is well formed. *)
LEMMA RequestIsSeq ==
  ASSUME NEW w, IsBatch(setup, batch[w]), ~LRKind => base[w] \in Int
  PROVE  U!IsSeq(RequestCells(Request(w)))
<1>1. CASE LRKind
  <2>1. batch[w] \in Seq(Sample)
    BY <1>1 DEF IsBatch, LRKind
  <2>2. RequestCells(Request(w)) = LRCells(Request(w)) /\ Request(w) = LR!LRRequestWords(batch[w])
    BY <1>1 DEF RequestCells, LRCells, Request
  <2> QED
    BY <2>1, <2>2, LRRequestFacts
<1>2. CASE ~LRKind
  <2>1. batch[w] \in Seq(Seq(Nat \X Int)) /\ base[w] \in Int
    BY <1>2 DEF IsBatch, LRKind
  <2>2. RequestCells(Request(w)) = MFRequestCells(MFRequestWords(base[w], batch[w], MiniBatch))
    BY <1>2 DEF RequestCells, Request
  <2> QED
    BY <2>1, <2>2, RequestLaidOut DEF RequestLayout
<1> QED
  BY <1>1, <1>2

LEMMA SameKind ==
  ASSUME setup' = setup
  PROVE  /\ LRKind' = LRKind /\ ModelCells' = ModelCells /\ W' = W
         /\ \A m : RequestCells(m)' = RequestCells(m)
<1>1. LRKind' = LRKind
  BY DEF LRKind
<1>2. ModelCells' = ModelCells
  BY <1>1 DEF ModelCells
<1>3. W' = W
  BY DEF W
<1>4. \A m : RequestCells(m)' = RequestCells(m)
  BY <1>1 DEF RequestCells
<1> QED
  BY <1>1, <1>2, <1>3, <1>4

(* What Informed(w) is about, apart from the model of the server. *)
Own(w) == <<get[w], window[w], wmodel[w], wpc[w], batch[w], base[w]>>

LEMMA InformedSame ==
  ASSUME setup' = setup, model' = model, opt' = opt, NEW w, Own(w)' = Own(w), Informed(w)
  PROVE  Informed(w)'
<1>1. /\ LRKind' = LRKind /\ ModelCells' = ModelCells
      /\ \A m : RequestCells(m)' = RequestCells(m)
  BY SameKind
<1>2. /\ get'[w] = get[w] /\ window'[w] = window[w] /\ wmodel'[w] = wmodel[w]
      /\ wpc'[w] = wpc[w] /\ batch'[w] = batch[w] /\ base'[w] = base[w]
  BY DEF Own
<1>3. Request(w)' = Request(w)
  BY <1>1, <1>2 DEF Request
<1>4. \A c : Answer(w, c)' = Answer(w, c)
  BY <1>1, <1>2 DEF Answer
<1>5. RequestCells(get[w].msg)' = RequestCells(get[w].msg)
  BY <1>1, <1>2
<1>6. Asked(w) => Asked(w)'
  BY <1>2, <1>3, <1>5 DEF Asked
<1>7. \A i : ReadAs(w, i)' = ReadAs(w, i)
  BY <1>2, <1>4 DEF ReadAs
<1>8. Answering(w) => Answering(w)'
  BY <1>2, <1>5, <1>7 DEF Answering
<1>9. Current(w) => Current(w)'
  BY <1>2, <1>4 DEF Current
<1> QED
  BY <1>1, <1>2, <1>6, <1>8, <1>9 DEF Informed

LEMMA WeightInit == ASSUME Init PROVE WeightInv
<1>1. DOMAIN window = W /\ DOMAIN wmodel = W
  BY DEF Init
<1>2. ASSUME NEW w \in W PROVE Informed(w)
  <2>1. wpc[w] = "next" /\ (LRKind => wmodel[w] = [c \in ModelCells |-> 0])
    BY DEF Init
  <2> QED
    BY <2>1 DEF Informed
<1> QED
  BY <1>1, <1>2 DEF WeightInv

(* A step of the worker v or of its handler of requests.                      *)
LEMMA WeightStepOf ==
  ASSUME WeightInv, setup' = setup, model' = model, opt' = opt, NEW v \in W, Informed(v)',
         DOMAIN window' = W, DOMAIN wmodel' = W, \A w \in W \ {v} : Own(w)' = Own(w)
  PROVE  WeightInv'
<1>1. W' = W
  BY SameKind
<1>2. ASSUME NEW w \in W \ {v} PROVE Informed(w)'
  BY <1>2, InformedSame DEF WeightInv
<1> QED
  BY <1>1, <1>2 DEF WeightInv

LEMMA WeightStutter ==
  ASSUME WeightInv, UNCHANGED <<setup, model, opt, get, window, wmodel, wpc, batch, base>>
  PROVE  WeightInv'
<1>1. W' = W
  BY SameKind
<1>2. ASSUME NEW w \in W PROVE Informed(w)'
  <2>1. Own(w)' = Own(w)
    BY DEF Own
  <2> QED
    BY <2>1, InformedSame DEF WeightInv
<1> QED
  BY <1>1, <1>2 DEF WeightInv

LEMMA WeightGet ==
  ASSUME StoreInv, WeightInv, NEW v \in W, GetMinibatch(v)
  PROVE  WeightInv'
<1> DEFINE msg == IF LRKind THEN LR!LRRequestWords(batch'[v])
                  ELSE MFRequestWords(base[v], batch'[v], MiniBatch)
           req == [pc |-> "sent", msg |-> msg, cells |-> <<>>, out |-> <<>>]
           asked == ToSet(RequestCells(msg))
           win == [cells |-> [c \in asked |-> {model[c]}], avgs |-> {opt.avg}]
<1>1. /\ NextSamples(v) \/ NextRows(v)
      /\ get' = [get EXCEPT ![v] = req] /\ window' = [window EXCEPT ![v] = win]
      /\ wpc' = [wpc EXCEPT ![v] = "model"]
      /\ UNCHANGED <<setup, model, opt, base, wmodel>>
  BY DEF GetMinibatch, serverVars
<1>2. /\ DOMAIN get = W /\ DOMAIN window = W /\ DOMAIN wpc = W /\ DOMAIN wmodel = W
      /\ DOMAIN batch = W /\ Informed(v)
  BY DEF StoreInv, Domains, WeightInv
<1>3. \A w \in W \ {v} : batch'[w] = batch[w]
  BY <1>1, <1>2 DEF NextSamples, NextRows
<1>4. /\ LRKind' = LRKind /\ ModelCells' = ModelCells
      /\ \A m : RequestCells(m)' = RequestCells(m)
  BY <1>1, SameKind
<1>5. Request(v)' = msg
  BY <1>1, <1>4 DEF Request
<1> HIDE DEF msg
<1>6. /\ req.pc = "sent" /\ req.msg = msg /\ req.out = <<>>
      /\ win.cells = [c \in asked |-> {model[c]}] /\ win.avgs = {opt.avg}
  OBVIOUS
<1> HIDE DEF req, win
<1>7. get'[v] = req /\ window'[v] = win /\ wpc'[v] = "model" /\ wmodel'[v] = wmodel[v]
  BY <1>1, <1>2
<1>8. Asked(v)'
  <2>1. RequestCells(get[v].msg)' = RequestCells(msg)
    BY <1>4, <1>6, <1>7
  <2>2. DOMAIN win.cells = asked /\ opt.avg \in win.avgs
        /\ \A c \in DOMAIN win.cells : model[c] \in win.cells[c]
    BY <1>6
  <2> QED
    BY <1>1, <1>5, <1>6, <1>7, <2>1, <2>2 DEF Asked
<1>9. Answering(v)'
  <2>1. U!IsSeq(<<>>) /\ Len(<<>>) = 0
    BY U!SeqEmpty
  <2>2. get'[v].pc = "sent" /\ get'[v].out = <<>>
    BY <1>6, <1>7
  <2>3. 1 .. 0 = {}
    OBVIOUS
  <2> QED
    BY <2>1, <2>2, <2>3 DEF Answering
<1>10. Informed(v)'
  BY <1>2, <1>4, <1>7, <1>8, <1>9 DEF Informed
<1>11. DOMAIN window' = W /\ DOMAIN wmodel' = W
  BY <1>1, <1>2
<1>12. \A w \in W \ {v} : Own(w)' = Own(w)
  BY <1>1, <1>2, <1>3 DEF Own
<1> QED
  BY <1>1, <1>10, <1>11, <1>12, WeightStepOf

(* A worker that stops, and the handler of one that has stopped. *)
LEMMA WeightLeave ==
  ASSUME StoreInv, WeightInv, NEW v \in W, wpc'[v] = "abort",
         UNCHANGED <<setup, model, opt, window, wmodel, base>>,
         \A w \in W \ {v} : wpc'[w] = wpc[w] /\ batch'[w] = batch[w] /\ get'[w] = get[w]
  PROVE  WeightInv'
<1>1. DOMAIN window = W /\ DOMAIN wmodel = W /\ Informed(v)
  BY DEF WeightInv
<1>2. LRKind' = LRKind /\ ModelCells' = ModelCells
  BY SameKind
<1>3. Informed(v)'
  BY <1>1, <1>2 DEF Informed
<1>4. \A w \in W \ {v} : Own(w)' = Own(w)
  BY DEF Own
<1> QED
  BY <1>1, <1>3, <1>4, WeightStepOf

LEMMA WeightStops ==
  ASSUME StoreInv, WeightInv, NEW v \in W, OverrunMessage(v) \/ AbortWorker(v)
  PROVE  WeightInv'
<1>1. DOMAIN wpc = W /\ DOMAIN batch = W
  BY DEF StoreInv, Domains
<1>2. /\ wpc' = [wpc EXCEPT ![v] = "abort"]
      /\ UNCHANGED <<setup, model, opt, window, wmodel, base, get>>
  BY DEF OverrunMessage, AbortWorker, serverVars, history
<1>3. \A w \in W \ {v} : batch'[w] = batch[w]
  BY <1>1 DEF OverrunMessage, NextSamples, AbortWorker
<1> QED
  BY <1>1, <1>2, <1>3, WeightLeave

LEMMA WeightLeft ==
  ASSUME StoreInv, WeightInv, NEW v \in W, wpc[v] = "abort",
         RequestReceive(v) \/ ReadWeight(v) \/ EditWeight(v)
  PROVE  WeightInv'
<1>1. DOMAIN get = W
  BY DEF StoreInv, Domains
<1>2. UNCHANGED <<setup, model, opt, window, wmodel, base, wpc, batch>>
  BY DEF RequestReceive, ReadWeight, EditWeight, serverVars, workerVars, history
<1>3. \A w \in W \ {v} : get'[w] = get[w]
  BY <1>1 DEF RequestReceive, ReadWeight, EditWeight
<1> QED
  BY <1>2, <1>3, WeightLeave

LEMMA WeightPush ==
  ASSUME StoreInv, WeightInv, NEW v \in W, PushGradient(v)
  PROVE  WeightInv'
<1> DEFINE pc == IF setup.test_iters > 0 /\ count'[v] > setup.test_iters THEN "exit" ELSE "next"
           win == [cells |-> <<>>, avgs |-> {}]
<1>1. /\ wpc' = [wpc EXCEPT ![v] = pc] /\ window' = [window EXCEPT ![v] = win]
      /\ batch' = [batch EXCEPT ![v] = <<>>]
      /\ base' = IF LRKind THEN base ELSE [base EXCEPT ![v] = next_index(v, base[v])]
      /\ wmodel' = IF LRKind THEN wmodel ELSE [wmodel EXCEPT ![v] = <<>>]
      /\ UNCHANGED <<setup, model, opt, get>>
  BY DEF PushGradient, serverVars
<1>2. /\ DOMAIN window = W /\ DOMAIN wpc = W /\ DOMAIN wmodel = W
      /\ DOMAIN batch = W /\ DOMAIN base = W /\ Informed(v)
  BY DEF StoreInv, Domains, WeightInv
<1>3. pc \in {"exit", "next"}
  OBVIOUS
<1> HIDE DEF pc, win
<1>4. LRKind' = LRKind /\ ModelCells' = ModelCells
  BY <1>1, SameKind
<1>5. wpc'[v] = pc /\ (LRKind => wmodel'[v] = wmodel[v])
  BY <1>1, <1>2
<1>6. Informed(v)'
  BY <1>2, <1>3, <1>4, <1>5 DEF Informed
<1>7. DOMAIN window' = W /\ DOMAIN wmodel' = W
  BY <1>1, <1>2
<1>8. \A w \in W \ {v} : Own(w)' = Own(w)
  BY <1>1, <1>2 DEF Own
<1> QED
  BY <1>1, <1>6, <1>7, <1>8, WeightStepOf

(* What the worker loads is what was read for it. *)
LEMMA ReplyLoaded ==
  ASSUME setup \in Setups, NEW v \in W, wpc[v] = "model", Working(v), Informed(v),
         LogisticGradient(v) \/ MFGradient(v), v \in DOMAIN wmodel,
         NEW c \in ToSet(RequestCells(get[v].msg)), get[v].pc = "reply"
  PROVE  \E k \in 1 .. Len(get[v].cells) :
           get[v].cells[k] = c /\ wmodel'[v][c] = get[v].out[k]
<1> DEFINE g == get[v]
           cells == g.cells
           out == g.out
<1>1. /\ IsBatch(setup, batch[v]) /\ (~LRKind => base[v] \in Int)
      /\ g.msg = Request(v) /\ cells = RequestCells(g.msg)
      /\ U!IsSeq(out) /\ Len(out) = Len(cells)
      /\ LRKind => DOMAIN wmodel[v] = ModelCells
  BY DEF Working, Informed, Asked, Answering
<1>2. U!IsSeq(cells)
  BY <1>1, RequestIsSeq
<1>3. PICK x \in 1 .. Len(cells) : cells[x] = c
  <2>1. DOMAIN cells = 1 .. Len(cells)
    BY <1>2, U!SeqLength
  <2>2. c \in ToSet(cells)
    BY <1>1
  <2> QED
    BY <2>1, <2>2 DEF ToSet
<1>4. CASE LogisticGradient(v)
  <2>1. /\ LRKind
        /\ wmodel' = [wmodel EXCEPT ![v] =
             LR!loadSerializedSparse(LR!LRRequestWords(batch[v]), out, wmodel[v])]
    BY <1>4 DEF LogisticGradient
  <2>2. /\ batch[v] \in Seq(Sample) /\ g.msg = LR!LRRequestWords(batch[v])
        /\ cells = LRCells(g.msg)
    BY <1>1, <2>1 DEF IsBatch, LRKind, Request, RequestCells, LRCells
  <2>3. c \in DOMAIN wmodel[v]
    <3> DEFINE m == g.msg
    <3>2. /\ batch[v] \in Seq(Sample) /\ m = LR!LRRequestWords(batch[v])
          /\ x \in 1 .. Len(LRCells(m)) /\ LRCells(m)[x] = c
      BY <1>3, <2>2
    <3> HIDE DEF cells, out, g, m
    <3>3. /\ Len(LRCells(m)) = m[1]
          /\ \A i \in 1 .. m[1] : LRCells(m)[i] = m[i + 1] /\ m[i + 1] \in 0 .. (Dim - 1)
      BY <3>2, LRRequestFacts, Zenon
    <3>1. c \in 0 .. (Dim - 1)
      BY <3>2, <3>3
    <3> QED
      BY <1>1, <2>1, <3>1 DEF ModelCells
  <2> HIDE DEF cells, out, g
  <2>4. PICK k \in 1 .. Len(cells) :
          cells[k] = c /\ LR!loadSerializedSparse(g.msg, out, wmodel[v])[c] = out[k]
    <3> DEFINE m == g.msg
               wm == wmodel[v]
    <3>1. /\ x \in 1 .. Len(LRCells(m)) /\ LRCells(m)[x] = c /\ LRCells(m)[x] \in DOMAIN wm
          /\ batch[v] \in Seq(Sample) /\ m = LR!LRRequestWords(batch[v])
      BY <1>3, <2>2, <2>3
    <3> HIDE DEF m, wm
    <3>2. LoadedFrom(LR!loadSerializedSparse(m, out, wm), LRCells(m), x, out)
      BY <3>1, LRReplyLoaded, Zenon
    <3> QED
      BY <2>2, <3>1, <3>2 DEF m, wm, LoadedFrom
  <2>5. wmodel'[v][c] = out[k]
    BY <2>1, <2>2, <2>4
  <2> QED
    BY <2>4, <2>5 DEF cells, out, g
<1>5. CASE MFGradient(v)
  <2> DEFINE o == ItemOrder(batch[v])
             ni == Len(o)
  <2>1. /\ ~LRKind
        /\ wmodel' = [wmodel EXCEPT ![v] =
             loadSparseMF(MFReplyWords(cells, out), base[v], MiniBatch, ni)]
    BY <1>5 DEF MFGradient
  <2>2. /\ batch[v] \in Seq(Seq(Nat \X Int)) /\ base[v] \in Int
        /\ cells = MFRequestCells(MFRequestWords(base[v], batch[v], MiniBatch))
    BY <1>1, <2>1 DEF IsBatch, LRKind, Request, RequestCells
  <2>3. RequestLayout(cells, base[v], o, NumFactors + 1, MiniBatch + ni) /\ ni \in Nat
    BY <2>2, RequestLaidOut, ItemOrderFacts, U!SeqLength
  <2> HIDE DEF cells, out, g, o, ni
  <2>4. PICK k \in 1 .. Len(cells) :
          /\ cells[k] = cells[x]
          /\ loadSparseMF(MFReplyWords(cells, out), base[v], MiniBatch, ni)[cells[x]] = out[k]
    <3>1. U!IsSeq(out) /\ Len(out) = Len(cells)
      BY <1>1
    <3>2. LoadedFrom(loadSparseMF(MFReplyWords(cells, out), base[v], MiniBatch, ni), cells,
                     x, out)
      BY <2>3, <3>1, MFReplyLoaded, Zenon
    <3> QED
      BY <3>2 DEF LoadedFrom
  <2>5. wmodel'[v][c] = out[k]
    BY <1>3, <2>1, <2>4
  <2> QED
    BY <1>3, <2>4, <2>5 DEF cells, out, g
<1> QED
  BY <1>4, <1>5

LEMMA WeightCompute ==
  ASSUME StoreInv, WeightInv, NEW v \in W, ComputeGradient(v)
  PROVE  WeightInv'
<1> DEFINE none == [pc |-> "idle", msg |-> <<>>, cells |-> <<>>, out |-> <<>>]
<1>1. /\ wpc[v] = "model" /\ get[v].pc = "reply" /\ (LogisticGradient(v) \/ MFGradient(v))
      /\ get' = [get EXCEPT ![v] = none] /\ wpc' = [wpc EXCEPT ![v] = "grad"]
      /\ UNCHANGED <<setup, model, opt, batch, base, window>>
  BY DEF ComputeGradient, serverVars, history
<1>2. /\ DOMAIN get = W /\ DOMAIN window = W /\ DOMAIN wpc = W /\ DOMAIN wmodel = W
      /\ setup \in Setups /\ Working(v) /\ Informed(v)
  BY DEF StoreInv, Domains, WeightInv
<1>3. LRKind' = LRKind /\ ModelCells' = ModelCells
  BY <1>1, SameKind
<1>4. /\ DOMAIN wmodel' = W
      /\ LRKind => DOMAIN wmodel'[v] = DOMAIN wmodel[v]
      /\ \A w \in W \ {v} : wmodel'[w] = wmodel[w]
  <2>1. CASE LogisticGradient(v)
    <3>1. wmodel' = [wmodel EXCEPT ![v] =
            LR!loadSerializedSparse(LR!LRRequestWords(batch[v]), get[v].out, wmodel[v])]
      BY <2>1 DEF LogisticGradient
    <3>2. DOMAIN LR!loadSerializedSparse(LR!LRRequestWords(batch[v]), get[v].out, wmodel[v])
            = DOMAIN wmodel[v]
      BY DEF LR!loadSerializedSparse
    <3> QED
      BY <1>2, <3>1, <3>2
  <2>2. CASE MFGradient(v)
    BY <1>2, <2>2 DEF MFGradient
  <2> QED
    BY <1>1, <2>1, <2>2
<1>5. Current(v)'
  <2> SUFFICES ASSUME NEW c \in DOMAIN window[v].cells PROVE wmodel'[v][c] \in Answer(v, c)
    <3>1. \A x : Answer(v, x)' = Answer(v, x)
      BY <1>1, <1>3 DEF Answer
    <3> QED
      BY <1>1, <3>1 DEF Current
  <2>1. Asked(v) /\ Answering(v)
    BY <1>1, <1>2 DEF Informed
  <2>2. c \in ToSet(RequestCells(get[v].msg))
    BY <2>1 DEF Asked
  <2>3. PICK k \in 1 .. Len(get[v].cells) :
          get[v].cells[k] = c /\ wmodel'[v][c] = get[v].out[k]
    BY <1>1, <1>2, <2>2, ReplyLoaded
  <2>4. k \in 1 .. Len(get[v].out) /\ ReadAs(v, k) = Answer(v, c)
    BY <1>1, <2>1, <2>3 DEF Answering, ReadAs
  <2> QED
    BY <2>1, <2>3, <2>4 DEF Answering
<1> HIDE DEF none
<1>6. wpc'[v] = "grad"
  BY <1>1, <1>2
<1>7. Informed(v)'
  BY <1>2, <1>3, <1>4, <1>5, <1>6 DEF Informed
<1>8. \A w \in W \ {v} : Own(w)' = Own(w)
  BY <1>1, <1>2, <1>4 DEF Own
<1> QED
  BY <1>1, <1>2, <1>4, <1>7, <1>8, WeightStepOf

(* The cells of a request are in its window. *)
LEMMA CellInWindow ==
  ASSUME NEW v, wpc[v] = "model", Working(v), Informed(v), get[v].pc # "sent"
  PROVE  /\ U!IsSeq(get[v].cells) /\ Len(get[v].cells) \in Nat
         /\ \A i \in 1 .. Len(get[v].cells) : get[v].cells[i] \in DOMAIN window[v].cells
<1>1. /\ IsBatch(setup, batch[v]) /\ (~LRKind => base[v] \in Int)
      /\ get[v].msg = Request(v) /\ get[v].cells = RequestCells(get[v].msg)
      /\ DOMAIN window[v].cells = ToSet(RequestCells(get[v].msg))
  BY DEF Working, Informed, Asked, Answering
<1>2. U!IsSeq(get[v].cells)
  BY <1>1, RequestIsSeq
<1>3. Len(get[v].cells) \in Nat /\ DOMAIN get[v].cells = 1 .. Len(get[v].cells)
  BY <1>2, U!SeqLength
<1>4. DOMAIN window[v].cells = ToSet(get[v].cells)
  BY <1>1
<1> QED
  BY <1>2, <1>3, <1>4 DEF ToSet

LEMMA WeightApply ==
  ASSUME StoreInv, WeightInv, NEW v \in W, GradientApply(v)
  PROVE  WeightInv'
<1> DEFINE st == sgd_update(Store, Head(put[v].todo))
           cells(u) == [c \in DOMAIN window[u].cells |-> window[u].cells[c] \union {st.w[c]}]
           win(u) == [cells |-> cells(u), avgs |-> window[u].avgs \union {st.avg}]
<1>1. /\ model' = st.w /\ opt' = [hist |-> st.hist, avg |-> st.avg]
      /\ window' = [u \in W |-> win(u)]
      /\ UNCHANGED <<setup, get, wpc, wmodel, batch, base>>
  BY DEF GradientApply, workerVars
<1>2. /\ W' = W /\ LRKind' = LRKind /\ ModelCells' = ModelCells
      /\ \A m : RequestCells(m)' = RequestCells(m)
  BY <1>1, SameKind
<1>3. opt'.avg = st.avg
  BY <1>1
<1> HIDE DEF st
<1>4. ASSUME NEW w \in W PROVE Informed(w)'
  <2> DEFINE D == DOMAIN window[w].cells
  <2>1. window'[w] = win(w) /\ win(w).cells = cells(w) /\ win(w).avgs = window[w].avgs \union {st.avg}
    BY <1>1
  <2>2. /\ DOMAIN window'[w].cells = D
        /\ \A c \in D : window'[w].cells[c] = window[w].cells[c] \union {st.w[c]}
        /\ window'[w].avgs = window[w].avgs \union {st.avg}
    BY <2>1
  <2>3. Working(w) /\ Informed(w)
    BY DEF StoreInv, WeightInv
  <2>4. \A c \in D : Answer(w, c) \subseteq Answer(w, c)'
    <3> SUFFICES ASSUME NEW c \in D PROVE Answer(w, c) \subseteq Answer(w, c)'
      OBVIOUS
    <3>1. /\ window[w].cells[c] \subseteq window'[w].cells[c]
          /\ window[w].avgs \subseteq window'[w].avgs
      BY <2>2
    <3> QED
      BY <1>1, <1>2, <3>1 DEF Answer
  <2>5. ASSUME wpc[w] = "model" PROVE Asked(w)'
    <3>1. Asked(w)
      BY <2>3, <2>5 DEF Informed
    <3>2. Request(w)' = Request(w) /\ RequestCells(get[w].msg)' = RequestCells(get[w].msg)
      BY <1>1, <1>2 DEF Request
    <3>3. \A c \in D : model'[c] \in window'[w].cells[c]
      BY <1>1, <2>2
    <3>4. opt'.avg \in window'[w].avgs
      BY <1>3, <2>2
    <3> QED
      BY <1>1, <2>2, <3>1, <3>2, <3>3, <3>4 DEF Asked
  <2>6. ASSUME wpc[w] = "model" PROVE Answering(w)'
    <3>1. Answering(w)
      BY <2>3, <2>6 DEF Informed
    <3>2. RequestCells(get[w].msg)' = RequestCells(get[w].msg) /\ get'[w] = get[w]
      BY <1>1, <1>2
    <3>3. ASSUME NEW i \in 1 .. Len(get[w].out) PROVE get[w].out[i] \in ReadAs(w, i)'
      <4>1. get[w].pc # "sent"
        <5>1. 1 .. Len(<<>>) = {}
          OBVIOUS
        <5> QED
          BY <3>1, <5>1 DEF Answering
      <4>2. i \in 1 .. Len(get[w].cells)
        <5>1. Len(get[w].cells) \in Nat
          BY <2>3, <2>6, <4>1, CellInWindow
        <5>2. Len(get[w].out) <= Len(get[w].cells) /\ Len(get[w].out) \in Nat
          BY <3>1, <4>1, U!SeqLength DEF Answering
        <5> QED
          BY <5>1, <5>2
      <4>3. get[w].cells[i] \in D
        BY <2>3, <2>6, <4>1, <4>2, CellInWindow
      <4>4. get[w].out[i] \in ReadAs(w, i)
        BY <3>1 DEF Answering
      <4>5. ReadAs(w, i) \subseteq ReadAs(w, i)'
        BY <2>2, <2>4, <3>2, <4>3 DEF ReadAs
      <4> QED
        BY <4>4, <4>5
    <3> QED
      BY <3>1, <3>2, <3>3 DEF Answering
  <2>7. ASSUME wpc[w] = "grad" PROVE Current(w)'
    <3>1. Current(w)
      BY <2>3, <2>7 DEF Informed
    <3> QED
      BY <1>1, <2>2, <2>4, <3>1 DEF Current
  <2>8. LRKind' => DOMAIN wmodel'[w] = ModelCells'
    BY <1>1, <1>2, <2>3 DEF Informed
  <2> QED
    BY <1>1, <2>5, <2>6, <2>7, <2>8 DEF Informed
<1>5. DOMAIN window' = W /\ DOMAIN wmodel' = W
  BY <1>1 DEF WeightInv
<1> QED
  BY <1>2, <1>4, <1>5 DEF WeightInv

(* A step of the handler of requests that goes on with x.                     *)
LEMMA WeightServe ==
  ASSUME StoreInv, WeightInv, NEW v \in W, NEW x, get' = [get EXCEPT ![v] = x],
         wpc[v] = "model", x.pc # "idle", x.msg = get[v].msg,
         UNCHANGED <<setup, model, opt, window, wmodel, wpc, batch, base>>, Answering(v)'
  PROVE  WeightInv'
<1>1. DOMAIN get = W /\ DOMAIN window = W /\ DOMAIN wmodel = W /\ Informed(v)
  BY DEF StoreInv, Domains, WeightInv
<1>2. get'[v] = x /\ \A w \in W \ {v} : get'[w] = get[w]
  BY <1>1
<1>3. /\ LRKind' = LRKind /\ ModelCells' = ModelCells
      /\ \A m : RequestCells(m)' = RequestCells(m)
  BY SameKind
<1>4. Asked(v)'
  <2>1. Asked(v)
    BY <1>1 DEF Informed
  <2>2. Request(v)' = Request(v) /\ RequestCells(get[v].msg)' = RequestCells(get[v].msg)
    BY <1>2, <1>3 DEF Request
  <2> QED
    BY <1>2, <2>1, <2>2 DEF Asked
<1>5. Informed(v)'
  BY <1>1, <1>3, <1>4 DEF Informed
<1>6. \A w \in W \ {v} : Own(w)' = Own(w)
  BY <1>2 DEF Own
<1> QED
  BY <1>1, <1>5, <1>6, WeightStepOf

LEMMA WeightRequest ==
  ASSUME StoreInv, WeightInv, NEW v \in W, wpc[v] = "model", RequestReceive(v)
  PROVE  WeightInv'
<1> DEFINE g == get[v]
           cells == RequestCells(g.msg)
           pc == IF cells = <<>> THEN "reply" ELSE "read"
           x == [pc |-> pc, msg |-> g.msg, cells |-> cells, out |-> g.out]
<1>1. /\ g.pc = "sent"
      /\ UNCHANGED <<setup, model, opt, window, wmodel, wpc, batch, base>>
      /\ get' = get \/ get' = [get EXCEPT ![v].pc = pc, ![v].cells = cells]
  BY DEF RequestReceive, workerVars, history
<1>2. CASE get' = get
  BY <1>1, <1>2, WeightStutter
<1>3. CASE get' = [get EXCEPT ![v].pc = pc, ![v].cells = cells]
  <2>1. /\ GetRecord(g) /\ DOMAIN get = W /\ Informed(v) /\ wpc[v] = "model"
        /\ IsBatch(setup, batch[v]) /\ (~LRKind => base[v] \in Int)
    BY <1>1 DEF StoreInv, Working, Domains, GetRecord, WeightInv
  <2>2. Asked(v) /\ Answering(v)
    BY <2>1 DEF Informed
  <2>3. U!IsSeq(cells)
    BY <2>1, <2>2, RequestIsSeq DEF Asked
  <2>4. pc \in {"reply", "read"} /\ (pc = "reply" <=> cells = <<>>)
    OBVIOUS
  <2> HIDE DEF cells, pc
  <2>6. get' = [get EXCEPT ![v] = x]
    <3>1. get' = [get EXCEPT ![v] = [g EXCEPT !.pc = pc, !.cells = cells]]
      BY <1>3
    <3>2. [g EXCEPT !.pc = pc, !.cells = cells] = x
      BY <2>1, GetRequested, Zenon
    <3> QED
      BY <3>1, <3>2
  <2>7. x.pc = pc /\ x.msg = g.msg /\ x.cells = cells /\ x.out = g.out
    OBVIOUS
  <2> HIDE DEF x
  <2>8. get'[v] = x
    BY <2>1, <2>6
  <2>9. Answering(v)'
    <3>1. g.out = <<>> /\ U!IsSeq(<<>>) /\ Len(<<>>) = 0 /\ 1 .. 0 = {}
      BY <1>1, <2>2, U!SeqEmpty DEF Answering
    <3>2. Len(cells) \in Nat /\ (cells = <<>> <=> Len(cells) = 0)
      BY <2>3, U!SeqLength
    <3>3. RequestCells(get[v].msg)' = cells
      <4>1. \A m : RequestCells(m)' = RequestCells(m)
        BY <1>1, SameKind
      <4> QED
        BY <2>7, <2>8, <4>1 DEF cells
    <3>4. /\ U!IsSeq(x.out) /\ x.pc # "sent" /\ x.pc # "edit" /\ x.cells = cells
          /\ Len(x.out) = 0 /\ Len(x.out) <= Len(x.cells)
          /\ x.pc = "read" => Len(x.out) # Len(x.cells)
          /\ x.pc = "reply" => Len(x.out) = Len(x.cells)
      BY <2>4, <2>7, <3>1, <3>2
    <3>5. \A i \in 1 .. Len(x.out) : FALSE
      BY <3>1, <3>4
    <3> QED
      BY <2>8, <3>3, <3>4, <3>5 DEF Answering
  <2>10. x.pc # "idle"
    BY <2>4, <2>7
  <2> QED
    BY <1>1, <2>6, <2>7, <2>9, <2>10, WeightServe
<1> QED
  BY <1>1, <1>2, <1>3

LEMMA WeightRead ==
  ASSUME StoreInv, WeightInv, NEW v \in W, wpc[v] = "model", ReadWeight(v)
  PROVE  WeightInv'
<1> DEFINE g == get[v]
           n == Len(g.out)
           c == g.cells[n + 1]
           out == Append(g.out, model[c])
           edits == LRKind /\ setup.opt = "nesterov"
           pc == IF edits THEN "edit" ELSE AfterRead(v, out)
           x == [pc |-> pc, msg |-> g.msg, cells |-> g.cells, out |-> out]
<1>1. /\ g.pc = "read" /\ get' = [get EXCEPT ![v].out = out, ![v].pc = pc]
      /\ UNCHANGED <<setup, model, opt, window, wmodel, wpc, batch, base>>
  BY Zenon DEF ReadWeight, serverVars, workerVars, history
<1>2. GetRecord(g) /\ DOMAIN get = W /\ Working(v) /\ Informed(v) /\ wpc[v] = "model"
  BY <1>1 DEF StoreInv, Working, Domains, GetRecord, WeightInv
<1>3. Asked(v) /\ Answering(v)
  BY <1>2 DEF Informed
<1>4. /\ U!IsSeq(g.cells) /\ Len(g.cells) \in Nat
      /\ \A i \in 1 .. Len(g.cells) : g.cells[i] \in DOMAIN window[v].cells
  BY <1>1, <1>2, CellInWindow
<1>5. /\ U!IsSeq(g.out) /\ n \in Nat /\ n <= Len(g.cells) /\ n # Len(g.cells)
      /\ \A i \in 1 .. n : g.out[i] \in Answer(v, g.cells[i])
  <2>1. U!IsSeq(g.out) /\ n <= Len(g.cells) /\ n # Len(g.cells)
    BY <1>1, <1>3 DEF Answering
  <2>2. n \in Nat
    BY <2>1, U!SeqLength
  <2>3. \A i \in 1 .. n : g.out[i] \in Answer(v, g.cells[i])
    BY <1>1, <1>3 DEF Answering, ReadAs
  <2> QED
    BY <2>1, <2>2, <2>3
<1>6. /\ U!IsSeq(out) /\ Len(out) = n + 1 /\ out[n + 1] = model[c]
      /\ \A i \in 1 .. n : out[i] = g.out[i]
  BY <1>5, U!SeqAppend
<1>7. c \in DOMAIN window[v].cells /\ model[c] \in window[v].cells[c]
  <2>1. n + 1 \in 1 .. Len(g.cells)
    BY <1>4, <1>5
  <2>2. c \in DOMAIN window[v].cells
    BY <1>4, <2>1
  <2> QED
    BY <1>3, <2>2 DEF Asked
<1>8. /\ edits => pc = "edit"
      /\ ~edits => pc = IF n + 1 = Len(g.cells) THEN "reply" ELSE "read"
  BY <1>6 DEF AfterRead
<1>9. get' = [get EXCEPT ![v] = x]
  <2> HIDE DEF out, pc
  <2>1. get' = [get EXCEPT ![v] = [g EXCEPT !.out = out, !.pc = pc]]
    BY <1>1
  <2>2. [g EXCEPT !.out = out, !.pc = pc] = x
    <3> HIDE DEF g
    <3> QED
      BY <1>2, GetReads, Zenon
  <2> QED
    BY <2>1, <2>2
<1> HIDE DEF out, pc
<1>10. x.pc = pc /\ x.msg = g.msg /\ x.cells = g.cells /\ x.out = out
  OBVIOUS
<1> HIDE DEF x, n
<1>11. get'[v] = x
  BY <1>2, <1>9
<1>12. ~edits => \A d : Answer(v, d) = window[v].cells[d]
  BY DEF Answer
<1>13. \A d : Answer(v, d)' = Answer(v, d)
  BY <1>1, SameKind DEF Answer
<1> HIDE DEF edits
<1>14. /\ pc = "edit" => edits
       /\ pc \in {"edit", "reply", "read"}
       /\ pc = "reply" => n + 1 = Len(g.cells)
       /\ pc = "read" => n + 1 # Len(g.cells)
  BY <1>8
<1>15. ASSUME NEW i \in 1 .. Len(out) PROVE out[i] \in ReadAs(v, i)'
  <2>0. /\ get'[v].pc = pc /\ get'[v].out = out /\ get'[v].cells = g.cells
        /\ window'[v] = window[v]
    BY <1>1, <1>10, <1>11
  <2>1. CASE i = n + 1
    <3>1. out[i] \in window[v].cells[c] /\ g.cells[i] = c /\ i = Len(out)
      BY <1>6, <1>7, <2>1 DEF n
    <3>2. CASE pc = "edit"
      <4>1. ReadAs(v, i)' = window[v].cells[c]
        BY <2>0, <3>1, <3>2 DEF ReadAs
      <4> QED
        BY <3>1, <4>1
    <3>3. CASE pc # "edit"
      <4>1. ReadAs(v, i)' = Answer(v, c)
        BY <1>13, <2>0, <3>1, <3>3 DEF ReadAs
      <4>2. ~edits
        BY <1>8, <3>3
      <4> QED
        BY <1>12, <3>1, <4>1, <4>2
    <3> QED
      BY <3>2, <3>3
  <2>2. CASE i # n + 1
    <3>1. i \in 1 .. n /\ i # Len(out)
      BY <1>5, <1>6, <2>2
    <3>2. ReadAs(v, i)' = Answer(v, g.cells[i])
      BY <1>13, <2>0, <3>1 DEF ReadAs
    <3> QED
      BY <1>5, <1>6, <3>1, <3>2
  <2> QED
    BY <2>1, <2>2
<1>16. Answering(v)'
  <2>1. RequestCells(get[v].msg)' = g.cells
    <3>1. \A m : RequestCells(m)' = RequestCells(m)
      BY <1>1, SameKind
    <3>2. g.cells = RequestCells(g.msg)
      BY <1>1, <1>3 DEF Answering
    <3> QED
      BY <1>10, <1>11, <3>1, <3>2
  <2>2. /\ get'[v].pc = pc /\ get'[v].out = out /\ get'[v].cells = g.cells
        /\ Len(out) <= Len(g.cells) /\ out # <<>>
    <3>1. Len(out) # 0
      BY <1>5, <1>6
    <3>2. out # <<>>
      BY <1>6, <3>1, U!SeqLength
    <3> QED
      BY <1>4, <1>5, <1>6, <1>10, <1>11, <3>2
  <2> QED
    BY <1>6, <1>14, <1>15, <2>1, <2>2 DEF Answering
<1>17. x.pc # "idle"
  BY <1>10, <1>14
<1> QED
  BY <1>1, <1>9, <1>10, <1>16, <1>17, WeightServe

LEMMA EditedIsAnswer ==
  ASSUME NEW w, NEW c, NEW weight \in window[w].cells[c], opt.avg \in window[w].avgs
  PROVE  edit_weight(weight) \in Answer(w, c)
<1>1. CASE LRKind /\ setup.opt = "nesterov"
  BY <1>1 DEF edit_weight, Answer
<1>2. CASE ~(LRKind /\ setup.opt = "nesterov")
  BY <1>2 DEF edit_weight, Answer
<1> QED
  BY <1>1, <1>2

LEMMA WeightEdit ==
  ASSUME StoreInv, WeightInv, NEW v \in W, wpc[v] = "model", EditWeight(v)
  PROVE  WeightInv'
<1> DEFINE g == get[v]
           n == Len(g.out)
           c == g.cells[n]
           w == edit_weight(g.out[n])
           out == [g.out EXCEPT ![n] = w]
           pc == AfterRead(v, out)
           x == [pc |-> pc, msg |-> g.msg, cells |-> g.cells, out |-> out]
<1>1. /\ g.pc = "edit" /\ get' = [get EXCEPT ![v].out = out, ![v].pc = pc]
      /\ UNCHANGED <<setup, model, opt, window, wmodel, wpc, batch, base>>
  BY Zenon DEF EditWeight, serverVars, workerVars, history
<1>2. GetRecord(g) /\ DOMAIN get = W /\ Working(v) /\ Informed(v) /\ wpc[v] = "model"
  BY <1>1 DEF StoreInv, Working, Domains, GetRecord, WeightInv
<1>3. Asked(v) /\ Answering(v)
  BY <1>2 DEF Informed
<1>4. /\ U!IsSeq(g.cells) /\ Len(g.cells) \in Nat
      /\ \A i \in 1 .. Len(g.cells) : g.cells[i] \in DOMAIN window[v].cells
  BY <1>1, <1>2, CellInWindow
<1>5. /\ U!IsSeq(g.out) /\ n \in Nat /\ n <= Len(g.cells) /\ n # 0
      /\ \A i \in 1 .. n : i # n => g.out[i] \in Answer(v, g.cells[i])
      /\ g.out[n] \in window[v].cells[c]
  <2>1. U!IsSeq(g.out) /\ n <= Len(g.cells) /\ g.out # <<>>
    BY <1>1, <1>3 DEF Answering
  <2>2. n \in Nat /\ n # 0
    BY <2>1, U!SeqLength
  <2>3. \A i \in 1 .. n : g.out[i] \in ReadAs(v, i)
    BY <1>3 DEF Answering
  <2>4. /\ \A i \in 1 .. n : i # n => ReadAs(v, i) = Answer(v, g.cells[i])
        /\ ReadAs(v, n) = window[v].cells[c]
    BY <1>1 DEF ReadAs
  <2> QED
    BY <2>1, <2>2, <2>3, <2>4
<1>6. w \in Answer(v, c)
  <2>1. opt.avg \in window[v].avgs
    BY <1>3 DEF Asked
  <2> QED
    BY <1>5, <2>1, EditedIsAnswer
<1> HIDE DEF w
<1>7. /\ U!IsSeq(out) /\ Len(out) = n /\ out[n] = w
      /\ \A i \in 1 .. n : i # n => out[i] = g.out[i]
  <2>1. PICK S : g.out \in Seq(S)
    BY <1>5 DEF U!IsSeq
  <2> DEFINE T == S \union {w}
  <2>2. g.out \in Seq(T) /\ w \in T
    BY <2>1
  <2> HIDE DEF T
  <2>3. out \in Seq(T) /\ Len(out) = n /\ out[n] = w /\ \A i \in 1 .. n : i # n => out[i] = g.out[i]
    BY <1>5, <2>2
  <2> QED
    BY <2>3 DEF U!IsSeq
<1>8. pc = IF n = Len(g.cells) THEN "reply" ELSE "read"
  BY <1>7 DEF AfterRead
<1>9. get' = [get EXCEPT ![v] = x]
  <2> HIDE DEF out, pc
  <2>1. get' = [get EXCEPT ![v] = [g EXCEPT !.out = out, !.pc = pc]]
    BY <1>1
  <2>2. [g EXCEPT !.out = out, !.pc = pc] = x
    <3> HIDE DEF g
    <3> QED
      BY <1>2, GetReads, Zenon
  <2> QED
    BY <2>1, <2>2
<1> HIDE DEF out, pc
<1>10. x.pc = pc /\ x.msg = g.msg /\ x.cells = g.cells /\ x.out = out
  OBVIOUS
<1> HIDE DEF x, n
<1>11. get'[v] = x
  BY <1>2, <1>9
<1>12. \A d : Answer(v, d)' = Answer(v, d)
  BY <1>1, SameKind DEF Answer
<1>13. /\ get'[v].pc = pc /\ get'[v].out = out /\ get'[v].cells = g.cells
       /\ pc \in {"reply", "read"}
  BY <1>8, <1>10, <1>11
<1>14. ASSUME NEW i \in 1 .. Len(out) PROVE out[i] \in ReadAs(v, i)'
  <2>1. ReadAs(v, i)' = Answer(v, g.cells[i])
    BY <1>12, <1>13 DEF ReadAs
  <2>2. CASE i = n
    <3>1. g.cells[i] = c
      BY <2>2 DEF n
    <3> QED
      BY <1>6, <1>7, <2>1, <2>2, <3>1
  <2>3. CASE i # n
    BY <1>5, <1>7, <2>1, <2>3
  <2> QED
    BY <2>2, <2>3
<1>15. Answering(v)'
  <2>1. RequestCells(get[v].msg)' = g.cells
    <3>1. \A m : RequestCells(m)' = RequestCells(m)
      BY <1>1, SameKind
    <3>2. g.cells = RequestCells(g.msg)
      BY <1>1, <1>3 DEF Answering
    <3> QED
      BY <1>10, <1>11, <3>1, <3>2
  <2> QED
    BY <1>5, <1>7, <1>8, <1>13, <1>14, <2>1 DEF Answering
<1>16. x.pc # "idle"
  BY <1>10, <1>13
<1> QED
  BY <1>1, <1>9, <1>10, <1>15, <1>16, WeightServe

LEMMA WeightStep == ASSUME StoreInv, WeightInv, [Next]_vars PROVE WeightInv'
<1>1. ASSUME NEW v \in W, Worker(v) PROVE WeightInv'
  BY <1>1, WeightGet, WeightStops, WeightCompute, WeightPush DEF Worker
<1>2. ASSUME NEW v \in W, GradientReceive(v) \/ GradientLock(v) \/ GradientCount(v)
      PROVE  WeightInv'
  BY <1>2, WeightStutter DEF GradientReceive, GradientLock, GradientCount, workerVars, history
<1>3. ASSUME NEW v \in W, PutHandler(v) PROVE WeightInv'
  BY <1>2, <1>3, WeightApply DEF PutHandler
<1>4. ASSUME NEW v \in W, GetHandler(v) PROVE WeightInv'
  <2>1. wpc[v] \in {"model", "abort"}
    BY <1>4 DEF GetHandler, RequestReceive, ReadWeight, EditWeight, StoreInv, Working
  <2> QED
    BY <1>4, <2>1, WeightRequest, WeightRead, WeightEdit, WeightLeft DEF GetHandler
<1>5. CASE Report \/ Udp \/ UNCHANGED vars
  BY <1>5, WeightStutter
  DEF Report, ReportRead, ReportReset, Udp, UdpTime, UdpError, vars, serverVars, workerVars,
      history
<1>6. CASE ErrorTask
  BY <1>6, WeightStutter
  DEF ErrorTask, ErrorTop, ErrorGetModel, ErrorModelTooLong, ErrorGetFails, ErrorLoss,
      ErrorTime, ErrorError, serverVars, workerVars, history
<1> QED
  BY <1>1, <1>3, <1>4, <1>5, <1>6 DEF Next

(* For every model, method, data set and number of workers: each weight that  *)
(* a worker computes with is one that the server had for that very index or   *)
(* id between the request and the reply, although weights are read without    *)
(* the lock while gradients are applied (PSSparseServerTask.cpp:254-305,      *)
(* PSSparseServerInterface.cpp:77-136).                                       *)
THEOREM ReadsAreCurrent == Spec => []WeightsAreCurrent
<1>1. Init => StoreInv /\ WeightInv
  BY StoreInit, WeightInit
<1>2. StoreInv /\ WeightInv /\ [Next]_vars => StoreInv' /\ WeightInv'
  BY StoreStep, WeightStep
<1>3. WeightInv => WeightsAreCurrent
  <2>1. WeightInv => \A w \in W : wpc[w] = "grad" =>
                       \A c \in DOMAIN window[w].cells : wmodel[w][c] \in Answer(w, c)
    BY Zenon DEF WeightInv, Informed, Current
  <2> QED
    BY <2>1, Zenon DEF WeightsAreCurrent
<1> QED
  BY <1>1, <1>2, <1>3, PTL DEF Spec

-----------------------------------------------------------------------------
(* Sums of integers. *)
AddOp(p, n, e) == n + e[2]

A == INSTANCE FoldFacts WITH Op <- AddOp

LEMMA SumFacts ==
  ASSUME NEW q, U!IsSeq(q), \A i \in 1 .. Len(q) : q[i][2] \in Int
  PROVE  /\ LR!Sum(q) \in Int
         /\ (\A i \in 1 .. Len(q) : q[i][2] = 0) => LR!Sum(q) = 0
<1>1. PICK T : q \in Seq(T)
  BY DEF U!IsSeq
<1>2. LR!Sum(q) = A!Fold(0, 0, q)
  BY DEF LR!Sum, A!Fold, LR!FoldLeft, A!FoldLeft, LR!MapThenFoldSet, A!MapThenFoldSet,
         LR!Max, A!Max, AddOp
<1>3. A!Fold(0, 0, q) \in Int
  <2>1. \A x \in Int : \A i \in 1 .. Len(q) : AddOp(0, x, q[i]) \in Int
    BY DEF AddOp
  <2>2. 0 \in Int
    OBVIOUS
  <2> QED
    BY <1>1, <2>1, <2>2, A!FoldStays
<1>4. ASSUME \A i \in 1 .. Len(q) : q[i][2] = 0 PROVE A!Fold(0, 0, q) \in {0}
  <2>1. \A x \in {0} : \A i \in 1 .. Len(q) : AddOp(0, x, q[i]) \in {0}
    BY <1>4 DEF AddOp
  <2>2. 0 \in {0}
    OBVIOUS
  <2> QED
    BY <1>1, <2>1, <2>2, A!FoldStays
<1> QED
  BY <1>2, <1>3, <1>4

-----------------------------------------------------------------------------
(* Logistic regression: the sums of part3.                                    *)

LEMMA FeatureIndices ==
  ASSUME NEW b \in Seq(Sample)
  PROVE  /\ LR!Features(b) \in Seq((0 .. (Dim - 1)) \X Int)
         /\ LR!Indices(b) = {LR!Features(b)[k][1] : k \in 1 .. Len(LR!Features(b))}
         /\ LR!Indices(b) \subseteq 0 .. (Dim - 1)
         /\ \A i \in 1 .. Len(b) :
              /\ b[i].label \in Int /\ b[i].feats \in Seq((0 .. (Dim - 1)) \X Int)
              /\ \A j \in 1 .. Len(b[i].feats) : b[i].feats[j][1] \in LR!Indices(b)
<1> DEFINE E == (0 .. (Dim - 1)) \X Int
           n == Len(b)
           q == LR!Features(b)
           seqs == [i \in 1 .. n |-> b[i].feats]
<1>1. q \in Seq(E)
  BY FeaturesAreSeq DEF Sample
<1>2. n \in Nat /\ \A i \in 1 .. n : b[i].label \in Int /\ b[i].feats \in Seq(E)
  <2>1. n \in Nat /\ \A i \in 1 .. n : b[i] \in Sample
    OBVIOUS
  <2> QED
    BY <2>1 DEF Sample
<1>3. q = U!FlattenSeq(seqs)
  BY DEF LR!Features, LR!FlattenSeq, U!FlattenSeq
<1> HIDE DEF q
<1>4. LR!Indices(b) = {q[k][1] : k \in 1 .. Len(q)}
  <2>1. LR!ToSet(q) = {q[k] : k \in 1 .. Len(q)}
    <3>1. DOMAIN q = 1 .. Len(q)
      BY <1>1
    <3> QED
      BY <3>1 DEF LR!ToSet
  <2> QED
    BY <2>1 DEF LR!Indices, q
<1>5. \A k \in 1 .. Len(q) : q[k][1] \in 0 .. (Dim - 1)
  <2>1. \A k \in 1 .. Len(q) : q[k] \in E
    BY <1>1
  <2> QED
    BY <2>1
<1> HIDE DEF E, n
<1>6. seqs \in Seq(Seq(E)) /\ Len(seqs) = n /\ \A i \in 1 .. n : seqs[i] = b[i].feats
  BY <1>2
<1> HIDE DEF seqs
<1>7. ASSUME NEW i \in 1 .. n, NEW j \in 1 .. Len(b[i].feats)
      PROVE  b[i].feats[j][1] \in LR!Indices(b)
  <2>1. /\ U!FlattenSeq(seqs) \in Seq(E)
        /\ \A x \in 1 .. Len(seqs) : \A y \in 1 .. Len(seqs[x]) :
             \E k \in 1 .. Len(U!FlattenSeq(seqs)) : U!FlattenSeq(seqs)[k] = seqs[x][y]
    BY <1>6, U!FlattenElements
  <2>2. PICK k \in 1 .. Len(q) : q[k] = b[i].feats[j]
    BY <1>3, <1>6, <2>1
  <2> QED
    BY <1>4, <2>2
<1> QED
  BY <1>1, <1>2, <1>4, <1>5, <1>7 DEF E, n, q

(* What the minibatch b adds to part3[c]. *)
Share(feats, c, x) ==
  LR!Sum([j \in 1 .. Len(feats) |-> <<c, IF feats[j][1] = c THEN feats[j][2] * x ELSE 0>>])

Collected(b, weights, c) ==
  LR!Sum([i \in 1 .. Len(b) |-> <<c, Share(b[i].feats, c, LR!Residuals(b, weights)[i])>>])

LEMMA ShareFacts ==
  ASSUME NEW feats \in Seq((0 .. (Dim - 1)) \X Int), NEW c, NEW x \in Int
  PROVE  /\ Share(feats, c, x) \in Int
         /\ (\A j \in 1 .. Len(feats) : feats[j][1] # c) => Share(feats, c, x) = 0
<1> DEFINE n == Len(feats)
           v(j) == IF feats[j][1] = c THEN feats[j][2] * x ELSE 0
           q == [j \in 1 .. n |-> <<c, v(j)>>]
<1>1. n \in Nat /\ \A j \in 1 .. n : feats[j][2] \in Int
  <2>1. \A j \in 1 .. n : feats[j] \in (0 .. (Dim - 1)) \X Int
    OBVIOUS
  <2> QED
    BY <2>1
<1>2. \A j \in 1 .. n : v(j) \in Int
  BY <1>1
<1>3. (\A j \in 1 .. n : feats[j][1] # c) => \A j \in 1 .. n : v(j) = 0
  OBVIOUS
<1>4. Share(feats, c, x) = LR!Sum(q)
  BY DEF Share
<1> HIDE DEF n, v
<1>5. q \in Seq({c} \X Int) /\ Len(q) = n /\ \A j \in 1 .. n : q[j][2] = v(j)
  BY <1>1, <1>2
<1> HIDE DEF q
<1>6. U!IsSeq(q)
  BY <1>5 DEF U!IsSeq
<1> QED
  BY <1>2, <1>3, <1>4, <1>5, <1>6, SumFacts DEF n

LEMMA CollectedFacts ==
  ASSUME NEW b \in Seq(Sample), NEW weights, NEW c
  PROVE  /\ Collected(b, weights, c) \in Int
         /\ c \notin LR!Indices(b) => Collected(b, weights, c) = 0
<1> DEFINE n == Len(b)
           res == LR!Residuals(b, weights)
           v(i) == Share(b[i].feats, c, res[i])
           q == [i \in 1 .. n |-> <<c, v(i)>>]
<1>1. n \in Nat /\ \A i \in 1 .. n : res[i] \in Int
  <2>1. \A x : LR!s_1(x) \in Int
    BY DEF LR!s_1
  <2>2. \A i \in 1 .. n : b[i].label \in Int
    BY FeatureIndices
  <2>3. \A i \in 1 .. n : res[i] = b[i].label - LR!s_1(LR!dot_product(b[i].feats, weights))
    BY DEF LR!Residuals
  <2>4. n \in Nat
    OBVIOUS
  <2> QED
    BY <2>1, <2>2, <2>3, <2>4
<1> HIDE DEF res
<1>2. \A i \in 1 .. n : v(i) \in Int
  BY <1>1, FeatureIndices, ShareFacts
<1>3. ASSUME c \notin LR!Indices(b), NEW i \in 1 .. n PROVE v(i) = 0
  <2>1. \A j \in 1 .. Len(b[i].feats) : b[i].feats[j][1] # c
    BY <1>3, FeatureIndices
  <2>2. b[i].feats \in Seq((0 .. (Dim - 1)) \X Int) /\ res[i] \in Int
    BY <1>1, FeatureIndices
  <2> QED
    BY <2>1, <2>2, ShareFacts
<1>4. Collected(b, weights, c) = LR!Sum(q)
  BY DEF Collected, res
<1> HIDE DEF n, v
<1>5. q \in Seq({c} \X Int) /\ Len(q) = n /\ \A j \in 1 .. n : q[j][2] = v(j)
  BY <1>1, <1>2
<1> HIDE DEF q
<1>6. U!IsSeq(q)
  BY <1>5 DEF U!IsSeq
<1> QED
  BY <1>2, <1>3, <1>4, <1>5, <1>6, SumFacts

LEMMA CollectIs ==
  ASSUME NEW b, NEW weights, NEW D, \A c \in D : Collected(b, weights, c) \in Int
  PROVE  LR!Collect(b, LR!Residuals(b, weights), [c \in D |-> 0])
           = [c \in D |-> Collected(b, weights, c)]
<1> DEFINE res == LR!Residuals(b, weights)
           z == [c \in D |-> 0]
<1>1. LR!Collect(b, res, z) = [c \in DOMAIN z |-> z[c] + Collected(b, weights, c)]
  BY DEF LR!Collect, Collected, Share
<1>2. DOMAIN z = D /\ \A c \in D : z[c] + Collected(b, weights, c) = Collected(b, weights, c)
  OBVIOUS
<1> QED
  BY <1>1, <1>2

-----------------------------------------------------------------------------
(* Logistic regression: the walk over the indices, with their duplicates.     *)
(* S are the indices that were met, x the sums that the walk began with.      *)

Final(x, weights, c) == x[c] + weights[c] * 2 * Epsilon
Kept(x, weights, c) == x[c] # 0 /\ LR!Abs(Final(x, weights, c)) > Threshold

Swept(st, S, x, weights) ==
  /\ st = [part3 |-> st.part3, grad |-> st.grad]
  /\ st.part3 = [c \in DOMAIN x |-> IF c \in S THEN 0 ELSE x[c]]
  /\ U!IsSeq(st.grad) /\ Distinct(st.grad)
  /\ \A i \in 1 .. Len(st.grad) :
       \E c \in S : Kept(x, weights, c) /\ st.grad[i] = <<c, Final(x, weights, c)>>
  /\ \A c \in S : Kept(x, weights, c) =>
       \E i \in 1 .. Len(st.grad) : st.grad[i] = <<c, Final(x, weights, c)>>

LEMMA SweepStep ==
  ASSUME NEW x, NEW weights, NEW S, S \subseteq DOMAIN x, NEW c \in DOMAIN x,
         NEW st, Swept(st, S, x, weights)
  PROVE  Swept(LR!SparseStep(st, c, weights, Epsilon, Threshold), S \union {c}, x, weights)
<1> DEFINE e == <<c, Final(x, weights, c)>>
           g == st.grad
           n == Len(g)
           rest == [st.part3 EXCEPT ![c] = 0]
           T == S \union {c}
           F(d) == <<d, Final(x, weights, d)>>
<1>1. /\ st = [part3 |-> st.part3, grad |-> g]
      /\ st.part3 = [d \in DOMAIN x |-> IF d \in S THEN 0 ELSE x[d]]
      /\ U!IsSeq(g) /\ Distinct(g)
      /\ \A i \in 1 .. n : \E d \in S : Kept(x, weights, d) /\ g[i] = F(d)
      /\ \A d \in S : Kept(x, weights, d) => \E i \in 1 .. n : g[i] = F(d)
  BY DEF Swept
<1>2. st.part3[c] = IF c \in S THEN 0 ELSE x[c]
  BY <1>1
<1>3. CASE st.part3[c] = 0
  <2>1. LR!SparseStep(st, c, weights, Epsilon, Threshold) = st
    BY <1>3 DEF LR!SparseStep
  <2>2. c \in S \/ x[c] = 0
    BY <1>2, <1>3
  <2>3. st.part3 = [d \in DOMAIN x |-> IF d \in T THEN 0 ELSE x[d]]
    BY <1>1, <2>2
  <2>4. \A d \in T : Kept(x, weights, d) => d \in S
    BY <2>2 DEF Kept
  <2> HIDE DEF F, T
  <2>5. \A i \in 1 .. n : \E d \in T : Kept(x, weights, d) /\ g[i] = F(d)
    BY <1>1 DEF T
  <2>6. \A d \in T : Kept(x, weights, d) => \E i \in 1 .. n : g[i] = F(d)
    BY <1>1, <2>4
  <2> QED
    BY <1>1, <2>1, <2>3, <2>5, <2>6 DEF Swept, F, T
<1>4. CASE st.part3[c] # 0
  <2> DEFINE h == IF Kept(x, weights, c) THEN Append(g, e) ELSE g
  <2>1. c \notin S /\ st.part3[c] = x[c] /\ x[c] # 0
    BY <1>2, <1>4
  <2>2. LR!SparseStep(st, c, weights, Epsilon, Threshold) = [part3 |-> rest, grad |-> h]
    <3> DEFINE final == st.part3[c] + weights[c] * 2 * Epsilon
               y == IF LR!Abs(final) > Threshold THEN Append(g, <<c, final>>) ELSE g
    <3>1. LR!SparseStep(st, c, weights, Epsilon, Threshold)
            = IF st.part3[c] = 0 THEN st ELSE [part3 |-> rest, grad |-> y]
      BY Zenon DEF LR!SparseStep
    <3>2. final = Final(x, weights, c)
      BY <2>1 DEF Final
    <3>3. y = h
      BY <2>1, <3>2 DEF Kept
    <3> HIDE DEF y, h, rest
    <3> QED
      BY <1>4, <3>1, <3>3
  <2>3. rest = [d \in DOMAIN x |-> IF d \in T THEN 0 ELSE x[d]]
    BY <1>1
  <2> DEFINE new == [part3 |-> rest, grad |-> h]
  <2>4. new.part3 = rest /\ new.grad = h /\ new = [part3 |-> new.part3, grad |-> new.grad]
    OBVIOUS
  <2> HIDE DEF new, rest, h
  <2>5. /\ U!IsSeq(h) /\ Distinct(h)
        /\ \A i \in 1 .. Len(h) : \E d \in T : Kept(x, weights, d) /\ h[i] = F(d)
        /\ \A d \in T : Kept(x, weights, d) => \E i \in 1 .. Len(h) : h[i] = F(d)
    <3>1. CASE ~Kept(x, weights, c)
      <4>1. h = g
        BY <3>1 DEF h
      <4> QED
        BY <1>1, <3>1, <4>1
    <3>2. CASE Kept(x, weights, c)
      <4>1. h = Append(g, e) /\ e = F(c)
        BY <3>2 DEF h
      <4> HIDE DEF e, F, T
      <4>2. /\ U!IsSeq(h) /\ Len(h) = n + 1 /\ h[n + 1] = e /\ n \in Nat
            /\ \A i \in 1 .. n : h[i] = g[i]
        BY <1>1, <4>1, U!SeqAppend, U!SeqLength
      <4>3. Distinct(h)
        <5>1. \A d \in S : F(d) # F(c)
          BY <2>1 DEF F
        <5>2. ~Contains(g, e)
          <6>1. DOMAIN g = 1 .. n
            BY <1>1, U!SeqLength
          <6> QED
            BY <1>1, <4>1, <5>1, <6>1 DEF Contains
        <5> QED
          BY <1>1, <4>1, <5>2, AddItem
      <4>4. ASSUME NEW i \in 1 .. Len(h)
            PROVE  \E d \in T : Kept(x, weights, d) /\ h[i] = F(d)
        <5>1. i = n + 1 \/ i \in 1 .. n
          BY <4>2
        <5>2. CASE i = n + 1
          BY <3>2, <4>1, <4>2, <5>2 DEF T
        <5>3. CASE i \in 1 .. n
          BY <1>1, <4>2, <5>3 DEF T
        <5> QED
          BY <5>1, <5>2, <5>3
      <4>5. ASSUME NEW d \in T, Kept(x, weights, d)
            PROVE  \E i \in 1 .. Len(h) : h[i] = F(d)
        <5>1. CASE d = c
          <6>1. n + 1 \in 1 .. Len(h)
            BY <4>2
          <6> QED
            BY <4>1, <4>2, <5>1, <6>1
        <5>2. CASE d \in S
          <6>1. PICK i \in 1 .. n : g[i] = F(d)
            BY <1>1, <4>5, <5>2
          <6>2. i \in 1 .. Len(h) /\ h[i] = F(d)
            BY <4>2, <6>1
          <6> QED
            BY <6>2
        <5> QED
          BY <5>1, <5>2 DEF T
      <4> QED
        BY <4>2, <4>3, <4>4, <4>5
    <3> QED
      BY <3>1, <3>2
  <2> HIDE DEF T, F
  <2>6. Swept(new, T, x, weights)
    BY <2>3, <2>4, <2>5 DEF Swept, F
  <2> QED
    BY <2>2, <2>6 DEF new, T
<1> QED
  BY <1>3, <1>4

(* Every index of the minibatch is met. *)
LEMMA SweptAll ==
  ASSUME NEW b \in Seq(Sample), NEW weights, NEW scratch, NEW x,
         x = LR!Collect(b, LR!Residuals(b, weights), scratch),
         LR!Indices(b) \subseteq DOMAIN x
  PROVE  Swept(LR!minibatch_grad_sparse(b, weights, Epsilon, Threshold, scratch),
               LR!Indices(b), x, weights)
<1> DEFINE p == <<weights, Epsilon, Threshold>>
           E == (0 .. (Dim - 1)) \X Int
           q == LR!Features(b)
           start == [part3 |-> x, grad |-> <<>>]
           Met(k) == {q[i][1] : i \in 1 .. k}
<1>1. q \in Seq(E) /\ LR!Indices(b) = Met(Len(q))
  BY FeatureIndices
<1>2. LR!minibatch_grad_sparse(b, weights, Epsilon, Threshold, scratch) = P!Fold(p, start, q)
  <2> HIDE DEF q
  <2>1. p[1] = weights /\ p[2] = Epsilon /\ p[3] = Threshold
    OBVIOUS
  <2> HIDE DEF p
  <2> QED
    BY <2>1
    DEF LR!minibatch_grad_sparse, P!Fold, LR!FoldLeft, P!FoldLeft, LR!MapThenFoldSet,
        P!MapThenFoldSet, LR!Max, P!Max, SparseOp, q
<1>3. Swept(start, {}, x, weights)
  <2>1. start.part3 = x /\ start.grad = <<>>
    OBVIOUS
  <2>2. x = [c \in DOMAIN x |-> IF c \in {} THEN 0 ELSE x[c]]
    <3>1. x = [c \in DOMAIN x |-> x[c]]
      BY DEF LR!Collect
    <3> QED
      BY <3>1
  <2>3. U!IsSeq(<<>>) /\ Len(<<>>) = 0 /\ 1 .. 0 = {}
    BY U!SeqEmpty
  <2>4. Distinct(<<>>)
    BY <2>3 DEF Distinct
  <2> QED
    BY <2>1, <2>2, <2>3, <2>4 DEF Swept
<1>4. \A i \in 1 .. Len(q) : q[i][1] \in DOMAIN x
  BY <1>1
<1>5. p[1] = weights /\ p[2] = Epsilon /\ p[3] = Threshold
  OBVIOUS
<1>6. Met(0) = {} /\ \A k \in Nat : Met(k + 1) = Met(k) \union {q[k + 1][1]}
  <2>1. ASSUME NEW k \in Nat PROVE Met(k + 1) = Met(k) \union {q[k + 1][1]}
    <3>1. 1 .. (k + 1) = (1 .. k) \union {k + 1}
      OBVIOUS
    <3> HIDE DEF q
    <3> QED
      BY <3>1
  <2>2. 1 .. 0 = {}
    OBVIOUS
  <2> QED
    BY <2>1, <2>2
<1>7. \A k \in Nat : k <= Len(q) => Met(k) \subseteq DOMAIN x
  <2> SUFFICES ASSUME NEW k \in Nat, k <= Len(q) PROVE Met(k) \subseteq DOMAIN x
    OBVIOUS
  <2>1. \A i \in 1 .. k : i \in 1 .. Len(q)
    BY <1>1
  <2> QED
    BY <1>4, <2>1
<1> HIDE DEF p, q, start, E, Met
<1>8. PICK t : P!IsRun(t, p, start, q, Len(q)) /\ P!Fold(p, start, q) = t[Len(q)]
  BY <1>1, P!FoldHasRun
<1> DEFINE K == {k \in Nat : k <= Len(q) => Swept(t[k], Met(k), x, weights)}
<1>9. 0 \in K
  <2>1. t[0] = start
    BY <1>8 DEF P!IsRun
  <2> QED
    BY <1>3, <1>6, <2>1
<1>10. ASSUME NEW k \in K PROVE k + 1 \in K
  <2>1. k \in Nat /\ Len(q) \in Nat
    BY <1>1, <1>10
  <2> SUFFICES ASSUME k + 1 <= Len(q) PROVE Swept(t[k + 1], Met(k + 1), x, weights)
    BY <2>1
  <2>2. k + 1 \in 1 .. Len(q) /\ k <= Len(q) /\ (k + 1) - 1 = k
    BY <2>1
  <2> DEFINE c == q[k + 1][1]
  <2>3. Swept(t[k], Met(k), x, weights) /\ Met(k) \subseteq DOMAIN x /\ c \in DOMAIN x
    BY <1>4, <1>7, <1>10, <2>1, <2>2
  <2>4. t[k + 1] = LR!SparseStep(t[k], c, weights, Epsilon, Threshold)
    BY <1>5, <1>8, <2>2 DEF P!IsRun, SparseOp
  <2>5. Met(k + 1) = Met(k) \union {c}
    BY <1>6, <2>1
  <2> HIDE DEF c
  <2> QED
    BY <2>3, <2>4, <2>5, SweepStep
<1>11. K = Nat
  <2> HIDE DEF K
  <2>1. K \subseteq Nat
    BY DEF K
  <2> QED
    BY <1>9, <1>10, <2>1, U!SetInduction
<1>12. Len(q) \in Nat /\ Len(q) \in K
  <2> HIDE DEF K
  <2>1. Len(q) \in Nat
    BY <1>1
  <2> QED
    BY <1>11, <2>1
<1>13. Swept(t[Len(q)], Met(Len(q)), x, weights)
  BY <1>12
<1> QED
  BY <1>1, <1>2, <1>8, <1>13

(* The sparse gradient is the dense one, without what is 0 or too small, and  *)
(* leaves the vector part3 clean.                                             *)
ExactLR(g, b, weights) ==
  LET dense == LR!minibatch_grad(b, weights, Epsilon)
      plain(c) == dense[c] - weights[c] * 2 * Epsilon
  IN /\ ToSet(g) = {<<c, dense[c]>> : c \in {c \in DOMAIN dense :
                         plain(c) # 0 /\ LR!Abs(dense[c]) > Threshold}}
     /\ Len(g) = Cardinality(ToSet(g))

LEMMA SparseIsDense ==
  ASSUME NEW b \in Seq(Sample), NEW weights, \A c \in 0 .. (Dim - 1) : weights[c] \in Int,
         NEW step,
         step = LR!minibatch_grad_sparse(b, weights, Epsilon, Threshold,
                                         [c \in 0 .. (Dim - 1) |-> 0])
  PROVE  /\ step.part3 = [c \in 0 .. (Dim - 1) |-> 0]
         /\ \A i \in 1 .. Len(step.grad) : step.grad[i][2] \in Int
         /\ ExactLR(step.grad, b, weights)
<1> DEFINE D == 0 .. (Dim - 1)
           Ind == LR!Indices(b)
           x == LR!Collect(b, LR!Residuals(b, weights), [c \in D |-> 0])
           F(c) == <<c, Final(x, weights, c)>>
           g == step.grad
<1>1. Epsilon \in Int
  BY BoundsAssumption
<1>2. Ind \subseteq D
  BY FeatureIndices
<1>3. \A c : Collected(b, weights, c) \in Int /\ (c \notin Ind => Collected(b, weights, c) = 0)
  BY CollectedFacts
<1>4. x = [c \in D |-> Collected(b, weights, c)]
  BY <1>3, CollectIs
<1> HIDE DEF x, Ind
<1>5. DOMAIN x = D /\ \A c \in D : x[c] \in Int /\ (c \notin Ind => x[c] = 0)
  BY <1>3, <1>4
<1>6. Swept(step, Ind, x, weights)
  BY <1>2, <1>5, SweptAll DEF x, Ind
<1>7. step.part3 = [c \in D |-> 0]
  <2>1. step.part3 = [c \in D |-> IF c \in Ind THEN 0 ELSE x[c]]
    BY <1>5, <1>6 DEF Swept
  <2>2. \A c \in D : (IF c \in Ind THEN 0 ELSE x[c]) = 0
    BY <1>5
  <2> HIDE DEF D
  <2> QED
    BY <2>1, <2>2
<1> HIDE DEF D
<1>8. ASSUME NEW c \in D PROVE Final(x, weights, c) \in Int
  <2>1. weights[c] \in Int /\ x[c] \in Int
    BY <1>5 DEF D
  <2>2. weights[c] * 2 * Epsilon \in Int
    BY <1>1, <2>1
  <2> QED
    BY <2>1, <2>2 DEF Final
<1>9. /\ U!IsSeq(g) /\ Distinct(g)
      /\ \A i \in 1 .. Len(g) : \E c \in Ind : Kept(x, weights, c) /\ g[i] = F(c)
      /\ \A c \in Ind : Kept(x, weights, c) => \E i \in 1 .. Len(g) : g[i] = F(c)
  BY <1>6 DEF Swept
<1>10. ASSUME NEW i \in 1 .. Len(g) PROVE g[i][2] \in Int
  <2>1. PICK c \in Ind : g[i] = F(c)
    BY <1>9
  <2>2. F(c)[2] = Final(x, weights, c) /\ Final(x, weights, c) \in Int
    BY <1>2, <1>8
  <2> HIDE DEF F, g
  <2> QED
    BY <2>1, <2>2 DEF g
<1>11. ExactLR(g, b, weights)
  <2> DEFINE dense == LR!minibatch_grad(b, weights, Epsilon)
             plain(c) == dense[c] - weights[c] * 2 * Epsilon
             E == {c \in DOMAIN dense : plain(c) # 0 /\ LR!Abs(dense[c]) > Threshold}
  <2>1. dense = [c \in Ind |-> Final(x, weights, c)]
    <3> DEFINE y == LR!Collect(b, LR!Residuals(b, weights), [c \in Ind |-> 0])
    <3>1. y = [c \in Ind |-> Collected(b, weights, c)]
      BY <1>3, CollectIs
    <3>2. dense = [c \in Ind |-> y[c] + weights[c] * 2 * Epsilon]
      BY DEF LR!minibatch_grad, Ind
    <3> HIDE DEF y, dense
    <3>3. \A c \in Ind : y[c] = x[c]
      BY <1>2, <1>4, <3>1
    <3> QED
      BY <3>2, <3>3 DEF Final
  <2> HIDE DEF dense
  <2>2. ASSUME NEW c \in Ind PROVE plain(c) = x[c]
    <3>1. weights[c] \in Int /\ x[c] \in Int
      BY <1>2, <1>5 DEF D
    <3>2. weights[c] * 2 * Epsilon \in Int
      BY <1>1, <3>1
    <3>3. dense[c] = x[c] + weights[c] * 2 * Epsilon
      BY <2>1 DEF Final
    <3> DEFINE z == weights[c] * 2 * Epsilon
    <3> HIDE DEF z
    <3>4. z \in Int /\ dense[c] = x[c] + z
      BY <3>2, <3>3 DEF z
    <3>5. dense[c] - z = x[c]
      BY <3>1, <3>4
    <3> QED
      BY <3>5 DEF z
  <2>3. E = {c \in Ind : Kept(x, weights, c)}
    <3>1. DOMAIN dense = Ind /\ \A c \in Ind : dense[c] = Final(x, weights, c)
      BY <2>1
    <3> HIDE DEF plain
    <3> QED
      BY <2>2, <3>1 DEF Kept
  <2>4. ToSet(g) = {g[i] : i \in 1 .. Len(g)}
    BY <1>9, U!SeqLength DEF ToSet
  <2>5. {<<c, dense[c]>> : c \in E} = {F(c) : c \in E}
    BY <2>1, <2>3
  <2> HIDE DEF E, g, F
  <2>6. ToSet(g) = {F(c) : c \in E}
    <3>1. \A i \in 1 .. Len(g) : \E c \in E : g[i] = F(c)
      BY <1>9, <2>3
    <3>2. \A c \in E : \E i \in 1 .. Len(g) : g[i] = F(c)
      BY <1>9, <2>3
    <3> QED
      BY <2>4, <3>1, <3>2
  <2>7. Len(g) = Cardinality(ToSet(g))
    BY <1>9, DistinctCount
  <2> QED
    BY <2>5, <2>6, <2>7 DEF ExactLR, E, dense
<1> QED
  BY <1>7, <1>10, <1>11 DEF D, g

-----------------------------------------------------------------------------
(* Collaborative filtering: the gradient is what training on the worker's own *)
(* model changes.                                                             *)

Numbers(f, D) == f = [c \in D |-> f[c]] /\ \A c \in D : f[c] \in Int

PredictOp(p, res, k) == res + p[1][Weight("user", p[2], k)] * p[1][Weight("item", p[3], k)]

R == INSTANCE FoldFacts WITH Op <- PredictOp

LEMMA PredictInt ==
  ASSUME NEW m, NEW user, NEW item,
         \A c \in CellsOf("user", user) \union CellsOf("item", item) : m[c] \in Int
  PROVE  predict(m, user, item) \in Int
<1> DEFINE p == <<m, user, item>>
           base0 == GlobalBias + m[Bias("user", user)] + m[Bias("item", item)]
           q == [k \in 1 .. NumFactors |-> k - 1]
<1>1. NumFactors \in Nat /\ GlobalBias \in Int
  BY NumFactorsAssumption, NumbersAssumption
<1>2. predict(m, user, item) = R!Fold(p, base0, q)
  <2>1. p[1] = m /\ p[2] = user /\ p[3] = item
    OBVIOUS
  <2> HIDE DEF p
  <2> QED
    BY <2>1
    DEF predict, R!Fold, FoldLeft, R!FoldLeft, MapThenFoldSet, R!MapThenFoldSet, Max, R!Max,
        PredictOp
<1>3. q \in Seq(Factors) /\ Len(q) = NumFactors /\ \A k \in 1 .. NumFactors : q[k] \in Factors
  BY <1>1 DEF Factors
<1>4. base0 \in Int
  <2>1. m[Bias("user", user)] \in Int /\ m[Bias("item", item)] \in Int
    BY DEF CellsOf
  <2> QED
    BY <1>1, <2>1
<1>5. \A k \in Factors : m[Weight("user", user, k)] \in Int /\ m[Weight("item", item, k)] \in Int
  BY DEF CellsOf
<1>6. p[1] = m /\ p[2] = user /\ p[3] = item
  OBVIOUS
<1> HIDE DEF p, base0, q
<1>7. \A x \in Int : \A i \in 1 .. Len(q) : PredictOp(p, x, q[i]) \in Int
  <2> SUFFICES ASSUME NEW x \in Int, NEW i \in 1 .. Len(q) PROVE PredictOp(p, x, q[i]) \in Int
    OBVIOUS
  <2> DEFINE k == q[i]
             a == m[Weight("user", user, k)]
             b == m[Weight("item", item, k)]
  <2>1. a \in Int /\ b \in Int
    BY <1>3, <1>5
  <2>2. PredictOp(p, x, k) = x + a * b
    BY <1>6 DEF PredictOp
  <2> HIDE DEF a, b, k
  <2>3. x + a * b \in Int
    BY <2>1
  <2> QED
    BY <2>2, <2>3 DEF k
<1>8. R!Fold(p, base0, q) \in Int
  BY <1>3, <1>4, <1>7, R!FoldStays
<1> QED
  BY <1>2, <1>8

LEMMA DeltasInt ==
  ASSUME NEW m, NEW user, NEW item, NEW rating \in Int,
         \A c \in CellsOf("user", user) \union CellsOf("item", item) : m[c] \in Int
  PROVE  Numbers(Deltas(m, user, item, rating), CellsOf("user", user) \union CellsOf("item", item))
<1> DEFINE D == CellsOf("user", user) \union CellsOf("item", item)
           error == rating - predict(m, user, item)
           mu(k) == m[Weight("user", user, k)]
           mi(k) == m[Weight("item", item, k)]
           du(k) == Rate * (error * mi(k) - Reg * mu(k))
           di(k) == Rate * (error * (mu(k) + du(k)) - Reg * mi(k))
           v(c) == CASE c[3] = 0 -> Rate * (error - Reg * m[c])
                     [] c[3] > 0 /\ c[1] = "user" -> du(c[3] - 1)
                     [] OTHER -> di(c[3] - 1)
<1>1. Rate \in Int /\ Reg \in Int /\ NumFactors \in Nat
  BY NumFactorsAssumption, NumbersAssumption
<1>2. error \in Int
  BY PredictInt
<1>3. \A k \in Factors : mu(k) \in Int /\ mi(k) \in Int
  BY DEF CellsOf
<1>4. Deltas(m, user, item, rating) = [c \in D |-> v(c)]
  BY DEF Deltas
<1> HIDE DEF error, mu, mi
<1>5. ASSUME NEW k \in Factors PROVE du(k) \in Int
  <2> DEFINE a == mi(k)
             b == mu(k)
  <2>1. a \in Int /\ b \in Int
    BY <1>3
  <2> HIDE DEF a, b
  <2>2. error * a \in Int /\ Reg * b \in Int
    BY <1>1, <1>2, <2>1
  <2>3. Rate * (error * a - Reg * b) \in Int
    BY <1>1, <2>2
  <2> QED
    BY <2>3 DEF a, b
<1> HIDE DEF du
<1>6. ASSUME NEW k \in Factors PROVE di(k) \in Int
  <2> DEFINE a == mi(k)
             b == mu(k) + du(k)
  <2>1. a \in Int /\ b \in Int
    BY <1>3, <1>5
  <2> HIDE DEF a, b
  <2>2. error * b \in Int /\ Reg * a \in Int
    BY <1>1, <1>2, <2>1
  <2>3. Rate * (error * b - Reg * a) \in Int
    BY <1>1, <2>2
  <2> QED
    BY <2>3 DEF a, b
<1> HIDE DEF di
<1>7. ASSUME NEW c \in D PROVE v(c) \in Int
  <2>1. m[c] \in Int
    OBVIOUS
  <2>2. c[3] = 0 \/ (c[3] > 0 /\ c[3] - 1 \in Factors)
    <3>1. \/ c = <<"user", user, 0>> \/ c = <<"item", item, 0>>
          \/ \E k \in Factors : c = <<"user", user, k + 1>> \/ c = <<"item", item, k + 1>>
      BY DEF CellsOf, Bias, Weight
    <3>2. CASE c = <<"user", user, 0>> \/ c = <<"item", item, 0>>
      BY <3>2
    <3>3. CASE \E k \in Factors : c = <<"user", user, k + 1>> \/ c = <<"item", item, k + 1>>
      <4>1. PICK k \in Factors : c = <<"user", user, k + 1>> \/ c = <<"item", item, k + 1>>
        BY <3>3
      <4>2. c[3] = k + 1
        BY <4>1
      <4>3. k + 1 > 0 /\ (k + 1) - 1 = k
        BY <1>1 DEF Factors
      <4> QED
        BY <4>2, <4>3
    <3> QED
      BY <3>1, <3>2, <3>3
  <2>3. CASE c[3] = 0
    <3> DEFINE a == m[c]
    <3> HIDE DEF a
    <3>1. a \in Int
      BY <2>1 DEF a
    <3>2. Rate * (error - Reg * a) \in Int
      <4>1. Reg * a \in Int
        BY <1>1, <3>1
      <4> QED
        BY <1>1, <1>2, <4>1
    <3> QED
      BY <2>3, <3>2 DEF a
  <2>4. CASE c[3] > 0 /\ c[3] - 1 \in Factors
    <3>1. c[3] # 0
      <4>1. c[3] \in Int => c[3] # 0
        BY <2>4
      <4>2. c[3] = 0 => c[3] \in Int
        OBVIOUS
      <4> QED
        BY <4>1, <4>2
    <3>2. du(c[3] - 1) \in Int /\ di(c[3] - 1) \in Int
      BY <1>5, <1>6, <2>4
    <3> QED
      BY <3>1, <3>2
  <2> QED
    BY <2>2, <2>3, <2>4
<1> HIDE DEF v, D
<1> QED
  BY <1>4, <1>7 DEF Numbers, D

(* Each rating is one of a row. *)
LEMMA RatingsOfRows ==
  ASSUME NEW rows \in Seq(Seq(Nat \X Int)), NEW k \in 1 .. Len(RatingSeq(rows))
  PROVE  /\ RatingSeq(rows)[k][1] \in 1 .. Len(rows)
         /\ RatingSeq(rows)[k][2] \in Items(rows)
         /\ RatingSeq(rows)[k][3] \in Int
<1> DEFINE n == Len(rows)
           S == Nat \X Nat \X Int
           rating(i, j) == <<i, rows[i][j][1], rows[i][j][2]>>
           row(i) == [j \in 1 .. Len(rows[i]) |-> rating(i, j)]
           seqs == [i \in 1 .. n |-> row(i)]
<1>1. n \in Nat /\ \A i \in 1 .. n : rows[i] \in Seq(Nat \X Int)
  OBVIOUS
<1>2. ASSUME NEW i \in 1 .. n
      PROVE  /\ Len(rows[i]) \in Nat
             /\ \A j \in 1 .. Len(rows[i]) :
                  /\ rating(i, j) \in S /\ rows[i][j][2] \in Int /\ rows[i][j] \in ToSet(rows[i])
  <2>1. rows[i] \in Seq(Nat \X Int)
    BY <1>1
  <2>2. Len(rows[i]) \in Nat /\ \A j \in 1 .. Len(rows[i]) : rows[i][j] \in Nat \X Int
    BY <2>1
  <2>3. i \in Nat
    BY <1>1
  <2>4. DOMAIN rows[i] = 1 .. Len(rows[i])
    BY <2>1
  <2> QED
    BY <2>2, <2>3, <2>4 DEF ToSet
<1>3. ASSUME NEW i \in 1 .. n, NEW j \in 1 .. Len(rows[i])
      PROVE  rows[i][j][1] \in Items(rows)
  <2>1. rows[i] \in ToSet(rows)
    BY DEF ToSet
  <2> QED
    BY <1>2, <2>1 DEF Items
<1> HIDE DEF S, rating
<1>4. ASSUME NEW i \in 1 .. n
      PROVE  /\ row(i) \in Seq(S) /\ Len(row(i)) = Len(rows[i])
             /\ \A j \in 1 .. Len(rows[i]) : row(i)[j] = rating(i, j)
  BY <1>2
<1> HIDE DEF row
<1>5. seqs \in Seq(Seq(S)) /\ Len(seqs) = n /\ \A i \in 1 .. n : seqs[i] = row(i)
  BY <1>1, <1>4
<1>6. RatingSeq(rows) = U!FlattenSeq(seqs)
  BY DEF RatingSeq, FlattenSeq, U!FlattenSeq, row, rating
<1> HIDE DEF seqs
<1>7. \A x \in 1 .. Len(U!FlattenSeq(seqs)) :
        \E i \in 1 .. Len(seqs) : \E j \in 1 .. Len(seqs[i]) :
          U!FlattenSeq(seqs)[x] = seqs[i][j]
  <2>1. seqs \in Seq(Seq(S))
    BY <1>5
  <2> QED
    BY <2>1, U!FlattenElements, Zenon
<1>8. PICK i \in 1 .. Len(seqs) : \E j \in 1 .. Len(seqs[i]) : RatingSeq(rows)[k] = seqs[i][j]
  BY <1>6, <1>7
<1>9. PICK j \in 1 .. Len(seqs[i]) : RatingSeq(rows)[k] = seqs[i][j]
  BY <1>8
<1>10. i \in 1 .. n /\ j \in 1 .. Len(rows[i]) /\ RatingSeq(rows)[k] = rating(i, j)
  BY <1>4, <1>5, <1>9
<1>11. rating(i, j)[1] = i /\ rating(i, j)[2] = rows[i][j][1] /\ rating(i, j)[3] = rows[i][j][2]
  BY DEF rating
<1> QED
  BY <1>2, <1>3, <1>10, <1>11

(* How far the worker has got: m is the model it fetched, C the cells of the  *)
(* minibatch.                                                                 *)
Progress(st, m, C) ==
  /\ Numbers(st.m, DOMAIN m) /\ Numbers(st.g, C)
  /\ \A c \in DOMAIN m : st.m[c] = IF c \in C THEN m[c] + st.g[c] ELSE m[c]

LEMMA ProgressStep ==
  ASSUME NEW m, NEW C, C \subseteq DOMAIN m, Numbers(m, DOMAIN m), NEW st, Progress(st, m, C),
         NEW d, NEW D, D \subseteq C, Numbers(d, D)
  PROVE  Progress([m |-> Plus(st.m, d), g |-> Plus(st.g, d)], m, C)
<1> DEFINE M == Plus(st.m, d)
           G == Plus(st.g, d)
<1>1. /\ DOMAIN st.m = DOMAIN m /\ DOMAIN st.g = C /\ DOMAIN d = D
      /\ \A c \in DOMAIN m : st.m[c] \in Int /\ m[c] \in Int
      /\ \A c \in C : st.g[c] \in Int
      /\ \A c \in D : d[c] \in Int
      /\ \A c \in DOMAIN m : st.m[c] = IF c \in C THEN m[c] + st.g[c] ELSE m[c]
  BY DEF Progress, Numbers
<1>2. /\ M = [c \in DOMAIN m |-> IF c \in D THEN st.m[c] + d[c] ELSE st.m[c]]
      /\ G = [c \in C |-> IF c \in D THEN st.g[c] + d[c] ELSE st.g[c]]
  BY <1>1 DEF Plus
<1> HIDE DEF M, G
<1>3. Numbers(M, DOMAIN m) /\ Numbers(G, C)
  BY <1>1, <1>2 DEF Numbers
<1>4. ASSUME NEW c \in DOMAIN m PROVE M[c] = IF c \in C THEN m[c] + G[c] ELSE m[c]
  <2>1. CASE c \in D
    <3>1. /\ M[c] = st.m[c] + d[c] /\ G[c] = st.g[c] + d[c] /\ st.m[c] = m[c] + st.g[c]
          /\ c \in C /\ d[c] \in Int /\ st.g[c] \in Int /\ m[c] \in Int
      BY <1>1, <1>2, <2>1
    <3> QED
      BY <3>1
  <2>2. CASE c \notin D
    BY <1>1, <1>2, <2>2
  <2> QED
    BY <2>1, <2>2
<1> DEFINE new == [m |-> M, g |-> G]
<1>5. new.m = M /\ new.g = G
  OBVIOUS
<1> HIDE DEF new
<1>6. Progress(new, m, C)
  BY <1>3, <1>4, <1>5 DEF Progress
<1> QED
  BY <1>6 DEF new, M, G

LEMMA GradientIsProgress ==
  ASSUME NEW rows \in Seq(Seq(Nat \X Int)), NEW first \in Int, NEW m, NEW C,
         C = Cells(first .. (first + Len(rows) - 1), Items(rows)),
         C \subseteq DOMAIN m, Numbers(m, DOMAIN m), NEW g, g = minibatch_grad(m, first, rows).g
  PROVE  Numbers(g, C) /\ Plus(m, g) = minibatch_grad(m, first, rows).m
<1> DEFINE q == RatingSeq(rows)
           n == Len(q)
           start == [m |-> m, g |-> [c \in C |-> 0]]
           S == Nat \X Nat \X Int
<1>1. q \in Seq(S) /\ n \in Nat
  BY RatingSeqFacts
<1>2. minibatch_grad(m, first, rows) = V!Fold(first, start, q)
  BY DEF minibatch_grad, V!Fold, FoldLeft, V!FoldLeft, MapThenFoldSet, V!MapThenFoldSet, Max,
         V!Max, GradOp
<1>4. ASSUME NEW k \in 1 .. n
      PROVE  CellsOf("user", first + q[k][1] - 1) \union CellsOf("item", q[k][2]) \subseteq C
  <2>1. q[k][1] \in 1 .. Len(rows) /\ q[k][2] \in Items(rows) /\ Len(rows) \in Nat
    BY RatingsOfRows
  <2>2. first + q[k][1] - 1 \in first .. (first + Len(rows) - 1)
    BY <2>1
  <2> QED
    BY <2>1, <2>2 DEF Cells
<1>5. \A k \in 1 .. n : q[k][3] \in Int
  BY RatingsOfRows
<1>6. Progress(start, m, C)
  <2>1. start.m = m /\ start.g = [c \in C |-> 0]
    OBVIOUS
  <2>2. Numbers(start.g, C) /\ \A c \in C : start.g[c] = 0
    BY <2>1 DEF Numbers
  <2>3. \A c \in DOMAIN m : m[c] = IF c \in C THEN m[c] + 0 ELSE m[c]
    BY DEF Numbers
  <2> HIDE DEF start
  <2> QED
    BY <2>1, <2>2, <2>3 DEF Progress
<1>7. start.m = m
  OBVIOUS
<1> HIDE DEF q, n, start, S
<1>8. PICK t : V!IsRun(t, first, start, q, n) /\ V!Fold(first, start, q) = t[n]
  BY <1>1, V!FoldHasRun DEF n
<1> DEFINE d(k) == Deltas(t[k - 1].m, first + q[k][1] - 1, q[k][2], q[k][3])
<1>9. ASSUME NEW k \in 1 .. n
      PROVE  t[k] = [m |-> Plus(t[k - 1].m, d(k)), g |-> Plus(t[k - 1].g, d(k))]
  <2>1. t[k] = GradientStep(t[k - 1], first, q[k])
    BY <1>8 DEF V!IsRun, GradOp
  <2> QED
    BY <2>1 DEF GradientStep
<1> DEFINE K == {k \in Nat : k <= n => Progress(t[k], m, C)}
<1>10. 0 \in K
  <2>1. t[0] = start
    BY <1>8 DEF V!IsRun
  <2> QED
    BY <1>6, <2>1
<1>11. ASSUME NEW k \in K PROVE k + 1 \in K
  <2>1. k \in Nat
    BY <1>11
  <2> SUFFICES ASSUME k + 1 <= n PROVE Progress(t[k + 1], m, C)
    BY <2>1
  <2>2. k + 1 \in 1 .. n /\ k <= n /\ (k + 1) - 1 = k
    BY <1>1, <2>1
  <2> DEFINE j == k + 1
             D == CellsOf("user", first + q[j][1] - 1) \union CellsOf("item", q[j][2])
  <2>3. Progress(t[k], m, C)
    BY <1>11, <2>2
  <2>4. D \subseteq C
    BY <1>4, <2>2
  <2>5. \A c \in D : t[k].m[c] \in Int
    BY <2>3, <2>4 DEF Progress, Numbers
  <2>6. q[j][3] \in Int
    BY <1>5, <2>2
  <2> DEFINE e == Deltas(t[k].m, first + q[j][1] - 1, q[j][2], q[j][3])
  <2>7. Numbers(e, D)
    BY <2>5, <2>6, DeltasInt
  <2>8. t[j] = [m |-> Plus(t[k].m, e), g |-> Plus(t[k].g, e)]
    BY <1>9, <2>2
  <2> HIDE DEF e, D, j
  <2>9. Progress([m |-> Plus(t[k].m, e), g |-> Plus(t[k].g, e)], m, C)
    BY <2>3, <2>4, <2>7, ProgressStep
  <2> QED
    BY <2>8, <2>9 DEF j
<1>12. K = Nat
  <2> HIDE DEF K
  <2>1. K \subseteq Nat
    BY DEF K
  <2> QED
    BY <1>10, <1>11, <2>1, U!SetInduction
<1>13. Progress(t[n], m, C)
  <2>1. n \in K
    <3> HIDE DEF K
    <3> QED
      BY <1>1, <1>12
  <2> QED
    BY <1>1, <2>1
<1> HIDE DEF K
<1>14. g = t[n].g /\ minibatch_grad(m, first, rows).m = t[n].m
  BY <1>2, <1>8
<1>15. Plus(m, g) = t[n].m
  <2>1. /\ t[n].m = [c \in DOMAIN m |-> t[n].m[c]] /\ DOMAIN g = C
        /\ \A c \in DOMAIN m : t[n].m[c] = IF c \in C THEN m[c] + g[c] ELSE m[c]
    BY <1>13, <1>14 DEF Progress, Numbers
  <2>2. Plus(m, g) = [c \in DOMAIN m |-> IF c \in C THEN m[c] + g[c] ELSE m[c]]
    BY <2>1 DEF Plus
  <2> QED
    BY <2>1, <2>2
<1> QED
  BY <1>13, <1>14, <1>15 DEF Progress

(* Entries that are a gradient move each of its cells once. *)
MoveOp(p, m, e) == [m EXCEPT ![e[1]] = @ + e[2]]

Move == INSTANCE FoldFacts WITH Op <- MoveOp

LEMMA EntriesMove ==
  ASSUME NEW m, m = [c \in DOMAIN m |-> m[c]], NEW q, U!IsSeq(q), NEW g, Enumerates(q, g)
  PROVE  FoldLeft(LAMBDA acc, e : [acc EXCEPT ![e[1]] = @ + e[2]], m, q) = Plus(m, g)
<1> DEFINE n == Len(q)
           D == DOMAIN m
           Met(k) == {q[i][1] : i \in 1 .. k}
           M(k) == [c \in D |-> IF c \in Met(k) THEN m[c] + g[c] ELSE m[c]]
           t == [k \in 0 .. n |-> M(k)]
<1>1. PICK T : q \in Seq(T)
  BY DEF U!IsSeq
<1>2. n \in Nat
  BY <1>1
<1>3. FoldLeft(LAMBDA acc, e : [acc EXCEPT ![e[1]] = @ + e[2]], m, q) = Move!Fold(0, m, q)
  BY DEF Move!Fold, FoldLeft, Move!FoldLeft, MapThenFoldSet, Move!MapThenFoldSet, Max,
         Move!Max, MoveOp
<1>4. /\ \A i \in 1 .. n : q[i][1] \in DOMAIN g /\ q[i][2] = g[q[i][1]]
      /\ \A i, j \in 1 .. n : q[i][1] = q[j][1] => i = j
      /\ \A c \in DOMAIN g : \E i \in 1 .. n : q[i][1] = c
  BY DEF Enumerates
<1> HIDE DEF n
<1>5. Met(0) = {} /\ Met(n) = DOMAIN g
  <2>1. 1 .. 0 = {}
    OBVIOUS
  <2>2. Met(0) = {}
    BY <2>1
  <2>3. ASSUME NEW c \in DOMAIN g PROVE c \in Met(n)
    <3>1. PICK i \in 1 .. n : q[i][1] = c
      BY <1>4
    <3> QED
      BY <3>1
  <2>4. Met(n) \subseteq DOMAIN g
    BY <1>4
  <2> HIDE DEF Met
  <2>5. Met(n) = DOMAIN g
    BY <2>3, <2>4
  <2> QED
    BY <2>2, <2>5
<1>6. ASSUME NEW k \in 1 .. n
      PROVE  /\ k - 1 \in 0 .. n /\ k \in 0 .. n
             /\ Met(k) = Met(k - 1) \union {q[k][1]} /\ q[k][1] \notin Met(k - 1)
  <2>1. k - 1 \in 0 .. n /\ k \in 0 .. n /\ 1 .. k = (1 .. (k - 1)) \union {k}
    BY <1>2
  <2>2. \A i \in 1 .. (k - 1) : i \in 1 .. n /\ i # k
    BY <1>2
  <2>3. q[k][1] \notin Met(k - 1)
    BY <1>4, <2>2
  <2> HIDE DEF n
  <2> QED
    BY <2>1, <2>3
<1> HIDE DEF Met, n, D
<1>7. t[0] = m
  <2>1. 0 \in 0 .. n
    BY <1>2
  <2> QED
    BY <1>5, <2>1 DEF D
<1>8. ASSUME NEW k \in 1 .. n PROVE t[k] = MoveOp(0, t[k - 1], q[k])
  <2> DEFINE e == q[k]
             new == [M(k - 1) EXCEPT ![e[1]] = @ + e[2]]
  <2>1. t[k] = M(k) /\ t[k - 1] = M(k - 1)
    BY <1>6
  <2>2. e[2] = g[e[1]] /\ Met(k) = Met(k - 1) \union {e[1]} /\ e[1] \notin Met(k - 1)
    BY <1>4, <1>6
  <2> HIDE DEF e
  <2>3. new = M(k)
    BY <2>2
  <2> HIDE DEF M, t
  <2> QED
    BY <2>1, <2>3 DEF MoveOp, e
<1>9. t[n] = Plus(m, g)
  <2>1. n \in 0 .. n
    BY <1>2
  <2>2. t[n] = [c \in D |-> IF c \in DOMAIN g THEN m[c] + g[c] ELSE m[c]]
    BY <1>5, <2>1
  <2> QED
    BY <2>2 DEF Plus, D
<1> HIDE DEF t
<1>10. Move!IsRun(t, 0, m, q, Len(q))
  BY <1>7, <1>8 DEF Move!IsRun, n
<1>11. Move!Fold(0, m, q) = t[Len(q)]
  BY <1>1, <1>10, Move!FoldIsRun
<1> QED
  BY <1>3, <1>9, <1>11 DEF n

-----------------------------------------------------------------------------
(* The invariant: every number is an integer, the scratch vector is clean,    *)
(* and a worker of collaborative filtering has fetched what it works on.      *)

IsNumeric(s, g) ==
  IF s.kind = "lr" THEN \A i \in 1 .. Len(g) : g[i][2] \in Int
  ELSE \A c \in DOMAIN g : g[c] \in Int

NumberStore(st, cells) ==
  /\ st.avg \in Int /\ DOMAIN st.hist = cells
  /\ \A c \in cells : st.w[c] \in Int /\ st.hist[c] \in Nat

Seen(w) ==
  /\ DOMAIN window[w].cells \subseteq ModelCells /\ window[w].avgs \subseteq Int
  /\ \A c \in DOMAIN window[w].cells : window[w].cells[c] \subseteq Int

(* The users of a worker are users of the model, once it has had a minibatch. *)
LowFits(w) == sample_low(w) + MiniBatch <= setup.nusers

InRange(w) ==
  /\ base[w] = sample_low(w) \/ (base[w] \in Nat /\ base[w] + MiniBatch <= setup.nusers)
  /\ iter[w] = [obj |-> l(w), at |-> 0] \/ LowFits(w)

BatchCells(first, b) == Cells(first .. (first + Len(b) - 1), Items(b))

Fetched(w) ==
  /\ Numbers(wmodel[w], DOMAIN wmodel[w])
  /\ BatchCells(base[w], batch[w]) \subseteq DOMAIN wmodel[w]
  /\ grad[w] = minibatch_grad(wmodel[w], base[w], batch[w]).g

Exact(w) ==
  /\ Seen(w) /\ \A i \in 1 .. Len(pushed[w]) : IsNumeric(setup, pushed[w][i])
  /\ wpc[w] = "grad" => IsNumeric(setup, grad[w])
  /\ LRKind => part3[w] = [c \in ModelCells |-> 0] /\ \A c \in ModelCells : wmodel[w][c] \in Int
  /\ ~LRKind => /\ InRange(w)
                /\ wpc[w] \in {"model", "grad"} => Len(batch[w]) = MiniBatch
                /\ wpc[w] = "grad" => Fetched(w)

GradInv ==
  /\ DOMAIN part3 = W /\ DOMAIN iter = W
  /\ NumberStore(Store, ModelCells)
  /\ \A w \in W : Exact(w)

LEMMA SetupFits ==
  ASSUME setup \in Setups, ~LRKind
  PROVE  RatingsFit(setup) /\ setup.last \in Nat /\ setup.nusers \in Nat /\ setup.nitems \in Nat
BY SetupsAssumption DEF SetupOK, LRKind

(* A minibatch that the bucket has. *)
LEMMA RowsFit ==
  ASSUME setup \in Setups, ~LRKind, NEW it, Stored(it)
  PROVE  Len(Rows(it)) = MiniBatch /\ Items(Rows(it)) \subseteq 0 .. (setup.nitems - 1)
<1>1. MiniBatch \in Nat
  BY SizeAssumption
<1>2. /\ setup.nitems \in Nat
      /\ \A u \in DOMAIN setup.rows :
           /\ setup.rows[u] \in Seq(Nat \X Int)
           /\ \A i \in DOMAIN setup.rows[u] : setup.rows[u][i][1] < setup.nitems
  BY SetupFits, SetupFacts DEF RatingsFit
<1> DEFINE b == Rows(it)
<1>3. Len(b) = MiniBatch /\ DOMAIN b = 1 .. MiniBatch
      /\ \A i \in 1 .. MiniBatch : b[i] = setup.rows[Place(it, i)]
  BY <1>1 DEF Rows
<1> HIDE DEF b
<1>4. ASSUME NEW c \in Items(b) PROVE c \in 0 .. (setup.nitems - 1)
  <2>1. PICK f \in UNION {ToSet(q) : q \in ToSet(b)} : c = f[1]
    BY DEF Items
  <2>2. PICK i \in 1 .. MiniBatch : f \in ToSet(b[i])
    BY <1>3, <2>1 DEF ToSet
  <2> DEFINE row == setup.rows[Place(it, i)]
  <2>3. row \in Seq(Nat \X Int) /\ \A j \in DOMAIN row : row[j][1] < setup.nitems
    BY <1>2, <2>2 DEF Stored
  <2>4. PICK j \in DOMAIN row : f = row[j]
    BY <1>3, <2>2 DEF ToSet
  <2> HIDE DEF row
  <2>5. c \in Nat /\ c < setup.nitems
    BY <2>1, <2>3, <2>4
  <2> QED
    BY <1>2, <2>5
<1> QED
  BY <1>3, <1>4 DEF b

(* The first minibatch of a worker is of users of the model. *)
LEMMA FirstFits ==
  ASSUME setup \in Setups, ~LRKind, NEW w \in W, NEW it, it = [obj |-> l(w), at |-> 0], Stored(it)
  PROVE  LowFits(w)
<1>1. /\ S3Size \in Nat \ {0} /\ MiniBatch \in Nat \ {0} /\ S3Size % MiniBatch = 0
      /\ setup.last \in Nat /\ setup.nusers \in Nat
      /\ DOMAIN setup.rows \subseteq 0 .. (setup.nusers - 1)
      /\ l(w) \in Nat
  BY SetupFits, SizeAssumption, RangeFacts DEF RatingsFit
<1>2. Place(it, MiniBatch) \in 0 .. (setup.nusers - 1)
  BY <1>1 DEF Stored
<1>3. l(w) * S3Size \in Nat
  BY <1>1, Product
<1>4. Place(it, MiniBatch) = l(w) * S3Size + MiniBatch - 1
  BY <1>1, <1>3 DEF Place
<1>5. l(w) * S3Size + MiniBatch <= setup.nusers
  BY <1>1, <1>2, <1>3, <1>4
<1>6. CASE setup.netflix_workers = 0
  BY <1>1, <1>3, <1>5, <1>6 DEF LowFits, sample_low
<1>7. CASE setup.netflix_workers # 0
  BY <1>5, <1>7 DEF LowFits, sample_low
<1> QED
  BY <1>6, <1>7

(* So are those after it. *)
LEMMA NextFits ==
  ASSUME setup \in Setups, ~LRKind, NEW w \in W, NEW x \in Nat
  PROVE  \/ next_index(w, x) = sample_low(w)
         \/ next_index(w, x) \in Nat /\ next_index(w, x) + MiniBatch <= setup.nusers
<1>1. /\ S3Size \in Nat /\ MiniBatch \in Nat /\ setup.last \in Nat /\ setup.nusers \in Nat
      /\ S3Size * (setup.last + 1) <= setup.nusers
      /\ r(w) \in Nat
  BY SetupFits, SizeAssumption, RangeFacts DEF RatingsFit
<1> DEFINE a == (r(w) + 1) * S3Size
           b == S3Size * (setup.last + 1)
<1>2. a \in Nat /\ b \in Nat /\ b <= setup.nusers
  BY <1>1, Product
<1>3. sample_high(w) \in Nat /\ sample_high(w) <= setup.nusers
  <2>1. CASE setup.netflix_workers = 0
    BY <1>2, <2>1 DEF sample_high
  <2>2. CASE setup.netflix_workers # 0
    <3>1. sample_high(w) = Min({b, a})
      BY <2>2 DEF sample_high
    <3> HIDE DEF a, b
    <3>2. Min({b, a}) \in Nat /\ (b <= a => Min({b, a}) = b) /\ (a <= b => Min({b, a}) = a)
      BY <1>2, MinOfTwo
    <3> QED
      BY <1>1, <1>2, <3>1, <3>2
  <2> QED
    BY <2>1, <2>2
<1> QED
  BY <1>1, <1>3 DEF next_index

(* The cells of a user or an item are its places 0 to nfactors.               *)
LEMMA PlacesOf ==
  ASSUME NEW kind, NEW id
  PROVE  CellsOf(kind, id) = {<<kind, id, j - 1>> : j \in 1 .. (NumFactors + 1)}
<1>1. NumFactors \in Nat
  BY NumFactorsAssumption
<1>2. ASSUME NEW c \in CellsOf(kind, id) PROVE \E j \in 1 .. (NumFactors + 1) : c = <<kind, id, j - 1>>
  <2>1. CASE c = Bias(kind, id)
    <3>1. 1 \in 1 .. (NumFactors + 1) /\ c = <<kind, id, 1 - 1>>
      BY <1>1, <2>1 DEF Bias
    <3> QED
      BY <3>1
  <2>2. CASE \E k \in Factors : c = Weight(kind, id, k)
    <3>1. PICK k \in Factors : c = Weight(kind, id, k)
      BY <2>2
    <3>2. k + 2 \in 1 .. (NumFactors + 1) /\ (k + 2) - 1 = k + 1
      BY <1>1 DEF Factors
    <3>3. c = <<kind, id, (k + 2) - 1>>
      BY <3>1, <3>2 DEF Weight
    <3> QED
      BY <3>2, <3>3
  <2> QED
    BY <2>1, <2>2 DEF CellsOf
<1>3. \A j \in 1 .. (NumFactors + 1) : <<kind, id, j - 1>> \in CellsOf(kind, id)
  BY InCellsOf
<1> QED
  BY <1>2, <1>3

(* What a worker asks for are the cells of its minibatch.                     *)
LEMMA RequestIsCells ==
  ASSUME NEW rows \in Seq(Seq(Nat \X Int)), Len(rows) = MiniBatch, NEW first \in Int, NEW cells,
         RequestLayout(cells, first, ItemOrder(rows), NumFactors + 1,
                       MiniBatch + Len(ItemOrder(rows)))
  PROVE  /\ ToSet(cells) = BatchCells(first, rows)
         /\ UNION {CellsOf(BlockKind(i), BlockId(first, ItemOrder(rows), i)) :
                     i \in 1 .. (MiniBatch + Len(ItemOrder(rows)))} = BatchCells(first, rows)
<1> DEFINE o == ItemOrder(rows)
           ni == Len(o)
           n == MiniBatch + ni
           b == NumFactors + 1
           Block(i) == CellsOf(BlockKind(i), BlockId(first, o, i))
           users == first .. (first + Len(rows) - 1)
           Us == UNION {CellsOf("user", u) : u \in users}
           Is == UNION {CellsOf("item", m) : m \in Items(rows)}
<1>1. Items(rows) = {o[i] : i \in 1 .. ni} /\ ni \in Nat
  BY ItemOrderFacts, U!SeqLength
<1>2. MiniBatch \in Nat /\ NumFactors \in Nat
  BY SizeAssumption, NumFactorsAssumption
<1>3. BatchCells(first, rows) = Us \union Is
  BY DEF BatchCells, Cells
<1> HIDE DEF o, ni
<1>4. ASSUME NEW i \in 1 .. n PROVE Block(i) \subseteq Us \union Is
  <2>1. CASE i <= MiniBatch
    <3>1. first + i - 1 \in users
      BY <1>1, <1>2, <2>1
    <3>2. Block(i) = CellsOf("user", first + i - 1)
      BY <2>1 DEF BlockKind, BlockId
    <3> HIDE DEF users
    <3> QED
      BY <3>1, <3>2
  <2>2. CASE ~(i <= MiniBatch)
    <3>1. i - MiniBatch \in 1 .. ni
      BY <1>1, <1>2, <2>2
    <3>2. Block(i) = CellsOf("item", o[i - MiniBatch]) /\ o[i - MiniBatch] \in Items(rows)
      BY <1>1, <2>2, <3>1 DEF BlockKind, BlockId
    <3> QED
      BY <3>2
  <2> QED
    BY <2>1, <2>2
<1>5. ASSUME NEW u \in users PROVE \E i \in 1 .. n : CellsOf("user", u) = Block(i)
  <2> DEFINE i == u - first + 1
  <2>1. i \in 1 .. n /\ i <= MiniBatch /\ first + i - 1 = u
    BY <1>1, <1>2
  <2> HIDE DEF i
  <2>2. CellsOf("user", u) = Block(i)
    BY <2>1 DEF BlockKind, BlockId
  <2> QED
    BY <2>1, <2>2
<1>6. ASSUME NEW m \in Items(rows) PROVE \E i \in 1 .. n : CellsOf("item", m) = Block(i)
  <2>1. PICK k \in 1 .. ni : m = o[k]
    BY <1>1
  <2> DEFINE i == k + MiniBatch
  <2>2. i \in 1 .. n /\ ~(i <= MiniBatch) /\ i - MiniBatch = k
    BY <1>1, <1>2
  <2> HIDE DEF i
  <2>3. CellsOf("item", m) = Block(i)
    BY <2>1, <2>2 DEF BlockKind, BlockId
  <2> QED
    BY <2>2, <2>3
<1> DEFINE Bs == UNION {Block(i) : i \in 1 .. n}
<1>7. Bs = Us \union Is
  <2>1. Bs \subseteq Us \union Is
    BY <1>4
  <2> HIDE DEF Block, users, n
  <2>2. Us \subseteq Bs
    BY <1>5
  <2>3. Is \subseteq Bs
    BY <1>6
  <2> QED
    BY <2>1, <2>2, <2>3
<1>8. /\ U!IsSeq(cells)
      /\ \A i \in 1 .. n : \A j \in 1 .. b :
           /\ b * (i - 1) + j \in 1 .. Len(cells)
           /\ cells[b * (i - 1) + j] = BlockCell(first, o, i, j)
      /\ \A k \in 1 .. Len(cells) : \E i \in 1 .. n : \E j \in 1 .. b :
           cells[k] = BlockCell(first, o, i, j)
  BY DEF RequestLayout, o, ni
<1>9. ToSet(cells) = {cells[k] : k \in 1 .. Len(cells)}
  <2>1. DOMAIN cells = 1 .. Len(cells)
    BY <1>8, U!SeqLength
  <2> QED
    BY <2>1 DEF ToSet
<1>10. ASSUME NEW i \in 1 .. n PROVE Block(i) = {BlockCell(first, o, i, j) : j \in 1 .. b}
  BY PlacesOf DEF BlockCell
<1> HIDE DEF Block, n, b
<1>11. ToSet(cells) \subseteq Bs
  <2> SUFFICES ASSUME NEW k \in 1 .. Len(cells) PROVE cells[k] \in Bs
    BY <1>9
  <2>1. PICK i \in 1 .. n : \E j \in 1 .. b : cells[k] = BlockCell(first, o, i, j)
    BY <1>8
  <2>2. cells[k] \in Block(i)
    BY <1>10, <2>1
  <2> QED
    BY <2>2
<1>12. Bs \subseteq ToSet(cells)
  <2> SUFFICES ASSUME NEW i \in 1 .. n, NEW c \in Block(i) PROVE c \in ToSet(cells)
    OBVIOUS
  <2>1. PICK j \in 1 .. b : c = BlockCell(first, o, i, j)
    BY <1>10
  <2>2. b * (i - 1) + j \in 1 .. Len(cells) /\ cells[b * (i - 1) + j] = c
    BY <1>8, <2>1
  <2> DEFINE y == b * (i - 1) + j
  <2>3. y \in 1 .. Len(cells) /\ cells[y] = c
    BY <2>2
  <2> HIDE DEF y
  <2> QED
    BY <1>9, <2>3
<1> HIDE DEF Bs
<1>13. ToSet(cells) = BatchCells(first, rows) /\ Bs = BatchCells(first, rows)
  BY <1>3, <1>7, <1>11, <1>12
<1> QED
  BY <1>13 DEF Bs, Block, o, ni, n

(* A request is for cells of the model.                                       *)
LEMMA RequestFits ==
  ASSUME setup \in Setups, NEW b, IsBatch(setup, b), NEW first \in Int, NEW msg,
         msg = IF LRKind THEN LR!LRRequestWords(b) ELSE MFRequestWords(first, b, MiniBatch),
         ~LRKind => /\ Len(b) = MiniBatch /\ Items(b) \subseteq 0 .. (setup.nitems - 1)
                    /\ first >= 0 /\ first + MiniBatch <= setup.nusers
  PROVE  ToSet(RequestCells(msg)) \subseteq ModelCells
<1>1. CASE LRKind
  <2>1. b \in Seq(Sample) /\ msg = LR!LRRequestWords(b) /\ RequestCells(msg) = LRCells(msg)
    BY <1>1 DEF IsBatch, LRKind, RequestCells, LRCells
  <2>2. /\ U!IsSeq(LRCells(msg)) /\ Len(LRCells(msg)) = msg[1]
        /\ \A i \in 1 .. msg[1] : LRCells(msg)[i] \in 0 .. (Dim - 1)
    BY <2>1, LRRequestFacts
  <2>3. DOMAIN LRCells(msg) = 1 .. msg[1]
    BY <2>2, U!SeqLength
  <2> QED
    BY <1>1, <2>1, <2>2, <2>3 DEF ToSet, ModelCells
<1>2. CASE ~LRKind
  <2>1. b \in Seq(Seq(Nat \X Int)) /\ RequestCells(msg) = MFRequestCells(msg)
        /\ msg = MFRequestWords(first, b, MiniBatch)
    BY <1>2 DEF IsBatch, LRKind, RequestCells
  <2>2. ToSet(RequestCells(msg)) = BatchCells(first, b)
    BY <1>2, <2>1, RequestLaidOut, RequestIsCells
  <2>3. setup.nusers \in Nat /\ MiniBatch \in Nat
    BY <1>2, SetupFits, SizeAssumption
  <2>4. first .. (first + Len(b) - 1) \subseteq 0 .. (setup.nusers - 1)
    BY <1>2, <2>3
  <2>5. ModelCells = Cells(0 .. (setup.nusers - 1), 0 .. (setup.nitems - 1))
    BY <1>2 DEF ModelCells
  <2> DEFINE A1 == first .. (first + Len(b) - 1)
             A2 == 0 .. (setup.nusers - 1)
             B1 == Items(b)
             B2 == 0 .. (setup.nitems - 1)
  <2>6. A1 \subseteq A2 /\ B1 \subseteq B2
    BY <1>2, <2>4
  <2> HIDE DEF A1, A2, B1, B2
  <2>7. Cells(A1, B1) \subseteq Cells(A2, B2)
    BY <2>6 DEF Cells
  <2> QED
    BY <2>2, <2>5, <2>7 DEF BatchCells, A1, A2, B1, B2
<1> QED
  BY <1>1, <1>2

(* The cells that a worker of collaborative filtering loads are those.        *)
LEMMA LoadedCells ==
  ASSUME NEW rows \in Seq(Seq(Nat \X Int)), Len(rows) = MiniBatch, NEW first \in Int, NEW cells,
         RequestLayout(cells, first, ItemOrder(rows), NumFactors + 1,
                       MiniBatch + Len(ItemOrder(rows))),
         NEW out, U!IsSeq(out), Len(out) = Len(cells), NEW loaded,
         loaded = loadSparseMF(MFReplyWords(cells, out), first, MiniBatch, Len(ItemOrder(rows)))
  PROVE  loaded = [c \in BatchCells(first, rows) |-> loaded[c]]
<1> DEFINE o == ItemOrder(rows)
           ni == Len(o)
           n == MiniBatch + ni
           words == MFReplyWords(cells, out)
           block == 2 + NumFactors
           start(i) == 1 + block * (i - 1)
           id(i) == IF i <= MiniBatch THEN first + i - 1 ELSE words[start(i)]
           at(d) == CHOOSE i \in 1 .. n : BlockKind(i) = d[1] /\ id(i) = d[2]
           D == UNION {CellsOf(BlockKind(i), id(i)) : i \in 1 .. n}
<1>1. loaded = [d \in D |-> words[start(at(d)) + 1 + d[3]]]
  BY DEF loadSparseMF, BlockKind
<1>2. loaded = [d \in D |-> loaded[d]]
  <2> HIDE DEF D, at, start, words
  <2> QED
    BY <1>1
<1>3. MiniBatch \in Nat /\ NumFactors \in Nat /\ ni \in Nat
  BY SizeAssumption, NumFactorsAssumption, ItemOrderFacts, U!SeqLength
<1>4. ReplyLayout(words, first, o, NumFactors + 1, n, out)
  <2>1. n \in Nat /\ NumFactors + 1 \in Nat \ {0}
    BY <1>3
  <2> QED
    BY <2>1, ReplyLaidOut
<1>5. ASSUME NEW i \in 1 .. n PROVE id(i) = BlockId(first, o, i)
  <2>1. words[1 + ((NumFactors + 1) + 1) * (i - 1)] = BlockId(first, o, i)
    BY <1>4 DEF ReplyLayout
  <2>2. (NumFactors + 1) + 1 = block
    BY <1>3
  <2>3. words[start(i)] = BlockId(first, o, i)
    BY <2>1, <2>2
  <2> HIDE DEF start, words
  <2> QED
    BY <2>3 DEF BlockId
<1> HIDE DEF id
<1>6. D = UNION {CellsOf(BlockKind(i), BlockId(first, o, i)) : i \in 1 .. n}
  BY <1>5
<1>7. D = BatchCells(first, rows)
  <2> HIDE DEF D
  <2> QED
    BY <1>6, RequestIsCells
<1> HIDE DEF D
<1> QED
  BY <1>2, <1>7

(* What keeps the part of a worker.                                           *)
Mine(w) == <<window[w], pushed[w], wpc[w], grad[w], part3[w], wmodel[w], base[w], iter[w], batch[w]>>

LEMMA RangeSame ==
  ASSUME setup' = setup, NEW w
  PROVE  /\ LRKind' = LRKind /\ ModelCells' = ModelCells /\ W' = W
         /\ sample_low(w)' = sample_low(w) /\ l(w)' = l(w) /\ LowFits(w)' = LowFits(w)
<1>1. l(w)' = l(w)
  BY DEF l, range_length
<1>2. sample_low(w)' = sample_low(w)
  BY <1>1 DEF sample_low
<1> QED
  BY <1>1, <1>2, SameKind DEF LowFits

LEMMA ExactSame ==
  ASSUME setup' = setup, NEW w, Mine(w)' = Mine(w), Exact(w)
  PROVE  Exact(w)'
<1>1. /\ LRKind' = LRKind /\ ModelCells' = ModelCells
      /\ sample_low(w)' = sample_low(w) /\ l(w)' = l(w) /\ LowFits(w)' = LowFits(w)
  BY RangeSame
<1>2. /\ window'[w] = window[w] /\ pushed'[w] = pushed[w] /\ wpc'[w] = wpc[w]
      /\ grad'[w] = grad[w] /\ part3'[w] = part3[w] /\ wmodel'[w] = wmodel[w]
      /\ base'[w] = base[w] /\ iter'[w] = iter[w] /\ batch'[w] = batch[w]
  BY DEF Mine
<1>3. Seen(w) => Seen(w)'
  BY <1>1, <1>2 DEF Seen
<1>4. InRange(w) => InRange(w)'
  BY <1>1, <1>2 DEF InRange
<1>5. Fetched(w) => Fetched(w)'
  BY <1>2 DEF Fetched
<1> QED
  BY <1>1, <1>2, <1>3, <1>4, <1>5 DEF Exact

LEMMA GradStepOf ==
  ASSUME GradInv, setup' = setup, model' = model, opt' = opt, DOMAIN part3' = W, DOMAIN iter' = W,
         NEW v \in W, Exact(v)', \A w \in W \ {v} : Mine(w)' = Mine(w)
  PROVE  GradInv'
<1>1. W' = W /\ ModelCells' = ModelCells
  BY SameKind
<1>2. Store' = Store
  BY DEF Store
<1>3. ASSUME NEW w \in W \ {v} PROVE Exact(w)'
  BY <1>3, ExactSame DEF GradInv
<1> QED
  BY <1>1, <1>2, <1>3 DEF GradInv

LEMMA GradStutter ==
  ASSUME GradInv, UNCHANGED <<setup, model, opt, workerVars, pushed, window>>
  PROVE  GradInv'
<1>1. W' = W /\ ModelCells' = ModelCells
  BY SameKind
<1>2. Store' = Store
  BY DEF Store
<1>3. ASSUME NEW w \in W PROVE Exact(w)'
  <2>1. Mine(w)' = Mine(w)
    BY DEF Mine, workerVars
  <2> QED
    BY <2>1, ExactSame DEF GradInv
<1> QED
  BY <1>1, <1>2, <1>3 DEF GradInv, workerVars

LEMMA GradInit == ASSUME Init PROVE GradInv
<1>1. setup \in Setups
  BY DEF Init
<1>2. DOMAIN part3 = W /\ DOMAIN iter = W
  BY DEF Init
<1>3. NumberStore(Store, ModelCells)
  <2>1. /\ model = [c \in ModelCells |-> IF LRKind THEN 0 ELSE 1]
        /\ opt = [hist |-> [c \in ModelCells |-> 0], avg |-> 0]
    BY DEF Init
  <2> HIDE DEF ModelCells
  <2>2. \A c \in ModelCells : model[c] \in Int /\ opt.hist[c] = 0
    BY <2>1
  <2>3. DOMAIN opt.hist = ModelCells /\ opt.avg = 0
    BY <2>1
  <2> QED
    BY <2>2, <2>3 DEF NumberStore, Store
<1>4. ASSUME NEW w \in W PROVE Exact(w)
  <2>1. /\ wpc[w] = "next" /\ pushed[w] = <<>>
        /\ window[w] = [cells |-> <<>>, avgs |-> {}]
        /\ base[w] = sample_low(w) /\ iter[w] = [obj |-> l(w), at |-> 0]
        /\ LRKind => /\ wmodel[w] = [c \in ModelCells |-> 0]
                     /\ part3[w] = [c \in ModelCells |-> 0]
    BY DEF Init
  <2>2. Len(<<>>) = 0 /\ 1 .. 0 = {} /\ DOMAIN <<>> = {}
    OBVIOUS
  <2>3. Seen(w)
    BY <2>1, <2>2 DEF Seen
  <2>4. InRange(w)
    BY <2>1 DEF InRange
  <2>5. LRKind => \A c \in ModelCells : wmodel[w][c] \in Int
    BY <2>1
  <2> QED
    BY <2>1, <2>2, <2>3, <2>4, <2>5 DEF Exact
<1> QED
  BY <1>2, <1>3, <1>4 DEF GradInv

LEMMA GradGet ==
  ASSUME StoreInv, WeightInv, GradInv, NEW v \in W, GetMinibatch(v)
  PROVE  GradInv'
<1> DEFINE msg == IF LRKind THEN LR!LRRequestWords(batch'[v])
                  ELSE MFRequestWords(base[v], batch'[v], MiniBatch)
           asked == ToSet(RequestCells(msg))
           win == [cells |-> [c \in asked |-> {model[c]}], avgs |-> {opt.avg}]
<1>1. /\ NextSamples(v) \/ NextRows(v)
      /\ window' = [window EXCEPT ![v] = win] /\ wpc' = [wpc EXCEPT ![v] = "model"]
      /\ UNCHANGED <<setup, model, opt, base, wmodel, part3, grad, pushed>>
  BY DEF GetMinibatch, serverVars
<1>2. /\ DOMAIN wpc = W /\ DOMAIN batch = W /\ DOMAIN iter = W /\ DOMAIN part3 = W
      /\ setup \in Setups /\ Working(v) /\ Exact(v) /\ NumberStore(Store, ModelCells)
  BY DEF StoreInv, Domains, GradInv
<1>3. IsBatch(setup, batch'[v]) /\ wpc'[v] = "model"
  <2>1. StoreInv' /\ W' = W
    BY <1>1, StoreGet, SameKind
  <2>2. Working(v)' /\ wpc'[v] = "model"
    BY <1>1, <1>2, <2>1 DEF StoreInv
  <2> QED
    BY <1>1, <2>2 DEF Working
<1>4. /\ LRKind' = LRKind /\ ModelCells' = ModelCells
      /\ sample_low(v)' = sample_low(v) /\ l(v)' = l(v) /\ LowFits(v)' = LowFits(v)
  BY <1>1, RangeSame
<1>5. ASSUME ~LRKind
      PROVE  /\ LowFits(v) /\ base[v] \in Nat /\ base[v] + MiniBatch <= setup.nusers
             /\ Len(batch'[v]) = MiniBatch /\ Items(batch'[v]) \subseteq 0 .. (setup.nitems - 1)
  <2>1. Stored(iter[v]) /\ batch'[v] = Rows(iter[v])
    BY <1>1, <1>2, <1>5 DEF NextSamples, NextRows
  <2>2. InRange(v)
    BY <1>2, <1>5 DEF Exact
  <2>3. LowFits(v)
    BY <1>2, <1>5, <2>1, <2>2, FirstFits DEF InRange
  <2>4. base[v] \in Nat /\ base[v] + MiniBatch <= setup.nusers
    BY <1>2, <2>2, <2>3, RangeFacts DEF InRange, LowFits
  <2> QED
    BY <1>2, <1>5, <2>1, <2>3, <2>4, RowsFit
<1>6. asked \subseteq ModelCells
  <2> DEFINE b == batch'[v]
             m == IF LRKind THEN LR!LRRequestWords(b) ELSE MFRequestWords(base[v], b, MiniBatch)
  <2>1. CASE LRKind
    <3>1. LR!LRRequestWords(b) = m
      BY <2>1
    <3>2. /\ 0 \in Int /\ m = IF LRKind THEN LR!LRRequestWords(b) ELSE MFRequestWords(0, b, MiniBatch)
      BY <2>1
    <3> HIDE DEF m, b
    <3>3. ToSet(RequestCells(m)) \subseteq ModelCells
      BY <1>2, <1>3, <2>1, <3>2, RequestFits DEF b
    <3> QED
      BY <3>3 DEF m, b
  <2>2. CASE ~LRKind
    <3>1. /\ base[v] \in Int /\ base[v] >= 0 /\ base[v] + MiniBatch <= setup.nusers
          /\ Len(b) = MiniBatch /\ Items(b) \subseteq 0 .. (setup.nitems - 1)
          /\ IsBatch(setup, b)
          /\ m = IF LRKind THEN LR!LRRequestWords(b) ELSE MFRequestWords(base[v], b, MiniBatch)
      BY <1>3, <1>5, <2>2
    <3> HIDE DEF m, b
    <3>3. ToSet(RequestCells(m)) \subseteq ModelCells
      BY <1>2, <3>1, RequestFits
    <3> QED
      BY <3>3 DEF m, b
  <2> QED
    BY <2>1, <2>2
<1> HIDE DEF msg, asked
<1>7. win.cells = [c \in asked |-> {model[c]}] /\ win.avgs = {opt.avg}
  OBVIOUS
<1> HIDE DEF win
<1>8. window'[v] = win
  BY <1>1 DEF WeightInv
<1>9. Seen(v)'
  <2>1. opt.avg \in Int /\ \A c \in ModelCells : model[c] \in Int
    BY <1>2 DEF NumberStore, Store
  <2>2. DOMAIN win.cells = asked /\ \A c \in asked : win.cells[c] = {model[c]}
    BY <1>7
  <2> QED
    BY <1>4, <1>6, <1>7, <1>8, <2>1, <2>2 DEF Seen
<1>10. ~LRKind => InRange(v)'
  BY <1>1, <1>4, <1>5 DEF InRange
<1>11. Exact(v)'
  BY <1>1, <1>2, <1>3, <1>4, <1>5, <1>9, <1>10 DEF Exact
<1>12. DOMAIN part3' = W /\ DOMAIN iter' = W
  BY <1>1, <1>2 DEF NextSamples, NextRows
<1>13. \A w \in W \ {v} : Mine(w)' = Mine(w)
  BY <1>1, <1>2 DEF WeightInv, Mine, NextSamples, NextRows
<1> QED
  BY <1>1, <1>11, <1>12, <1>13, GradStepOf

(* A worker that stops. *)
LEMMA GradLeave ==
  ASSUME StoreInv, GradInv, NEW v \in W, OverrunMessage(v) \/ AbortWorker(v)
  PROVE  GradInv'
<1>1. /\ LRKind /\ wpc' = [wpc EXCEPT ![v] = "abort"]
      /\ UNCHANGED <<setup, model, opt, window, pushed, grad, part3, wmodel, base, iter>>
  BY DEF OverrunMessage, NextSamples, AbortWorker, serverVars, history
<1>2. DOMAIN wpc = W /\ DOMAIN batch = W /\ DOMAIN part3 = W /\ DOMAIN iter = W /\ Exact(v)
  BY DEF StoreInv, Domains, GradInv
<1>3. \A w \in W \ {v} : batch'[w] = batch[w] /\ wpc'[w] = wpc[w]
  BY <1>1, <1>2 DEF OverrunMessage, NextSamples, AbortWorker
<1>4. LRKind' = LRKind /\ ModelCells' = ModelCells
  BY <1>1, SameKind
<1>5. Seen(v) => Seen(v)'
  BY <1>1, <1>4 DEF Seen
<1>6. Exact(v)'
  BY <1>1, <1>2, <1>4, <1>5 DEF Exact
<1>7. \A w \in W \ {v} : Mine(w)' = Mine(w)
  BY <1>1, <1>3 DEF Mine
<1> QED
  BY <1>1, <1>2, <1>6, <1>7, GradStepOf

(* A worker computes with integers. *)
LEMMA AnswerIsNumber ==
  ASSUME NEW w, Seen(w), NEW c \in DOMAIN window[w].cells
  PROVE  Answer(w, c) \subseteq Int
<1>1. window[w].cells[c] \subseteq Int /\ window[w].avgs \subseteq Int
  BY DEF Seen
<1>2. \A v \in window[w].cells[c], a \in window[w].avgs : v + (a \div 2) \in Int
  BY <1>1
<1> QED
  BY <1>1, <1>2 DEF Answer

LEMMA FetchedNumbers ==
  ASSUME StoreInv, WeightInv, GradInv, NEW v \in W, ComputeGradient(v)
  PROVE  \A c \in DOMAIN window[v].cells : wmodel'[v][c] \in Int
<1>1. /\ wpc' = [wpc EXCEPT ![v] = "grad"]
      /\ UNCHANGED <<setup, window>>
  BY DEF ComputeGradient, history
<1>2. wpc'[v] = "grad" /\ v \in W'
  BY <1>1, SameKind DEF StoreInv, Domains
<1>3. Current(v)'
  BY <1>2, WeightCompute DEF WeightInv, Informed
<1>4. LRKind' = LRKind
  BY <1>1, SameKind
<1>5. \A c : Answer(v, c)' = Answer(v, c)
  BY <1>1, <1>4 DEF Answer
<1>6. Seen(v)
  BY DEF GradInv, Exact
<1> QED
  BY <1>1, <1>3, <1>5, <1>6, AnswerIsNumber DEF Current

(* For LR: the weights are integers, so the sparse gradient is the dense one. *)
LEMMA LRComputed ==
  ASSUME StoreInv, WeightInv, GradInv, NEW v \in W, ComputeGradient(v), LRKind
  PROVE  /\ \A c \in ModelCells : wmodel'[v][c] \in Int
         /\ part3'[v] = [c \in ModelCells |-> 0]
         /\ \A i \in 1 .. Len(grad'[v]) : grad'[v][i][2] \in Int
         /\ ExactLR(grad'[v], batch[v], wmodel'[v])
<1> DEFINE m == LR!LRRequestWords(batch[v])
           wm == LR!loadSerializedSparse(m, get[v].out, wmodel[v])
           step == LR!minibatch_grad_sparse(batch[v], wmodel'[v], Epsilon, Threshold, part3[v])
           at(c) == {i \in 1 .. m[1] : m[i + 1] = c}
<1>1. /\ wpc[v] = "model" /\ get[v].pc = "reply"
      /\ wmodel' = [wmodel EXCEPT ![v] = wm]
      /\ part3' = [part3 EXCEPT ![v] = step.part3] /\ grad' = [grad EXCEPT ![v] = step.grad]
  BY DEF ComputeGradient, LogisticGradient, MFGradient
<1>2. /\ DOMAIN wmodel = W /\ DOMAIN part3 = W /\ DOMAIN grad = W
      /\ setup \in Setups /\ Working(v) /\ Informed(v) /\ Exact(v)
  BY DEF StoreInv, Domains, WeightInv, GradInv
<1>3. /\ batch[v] \in Seq(Sample) /\ get[v].msg = m /\ RequestCells(m) = LRCells(m)
      /\ DOMAIN window[v].cells = ToSet(LRCells(m)) /\ DOMAIN wmodel[v] = ModelCells
      /\ ModelCells = 0 .. (Dim - 1)
      /\ part3[v] = [c \in ModelCells |-> 0] /\ \A c \in ModelCells : wmodel[v][c] \in Int
  BY <1>1, <1>2
  DEF Working, IsBatch, LRKind, Informed, Asked, Request, RequestCells, LRCells, ModelCells, Exact
<1>4. wm = [c \in ModelCells |-> IF at(c) = {} THEN wmodel[v][c] ELSE get[v].out[LR!Max(at(c))]]
  BY <1>3 DEF LR!loadSerializedSparse
<1>5. wmodel'[v] = wm /\ part3'[v] = step.part3 /\ grad'[v] = step.grad
  BY <1>1, <1>2
<1> HIDE DEF wm, step, m
<1>6. ASSUME NEW c \in ModelCells PROVE wmodel'[v][c] \in Int
  <2>1. CASE at(c) = {}
    <3>1. wm[c] = wmodel[v][c]
      BY <1>4, <2>1
    <3> QED
      BY <1>3, <1>5, <3>1
  <2>2. CASE at(c) # {}
    <3>1. PICK i \in 1 .. m[1] : m[i + 1] = c
      BY <2>2
    <3>2. /\ U!IsSeq(LRCells(m)) /\ Len(LRCells(m)) = m[1]
          /\ LRCells(m)[i] = m[i + 1]
      BY <1>3, LRRequestFacts DEF m
    <3>3. DOMAIN LRCells(m) = 1 .. m[1]
      BY <3>2, U!SeqLength
    <3>4. c \in DOMAIN window[v].cells
      BY <1>3, <3>1, <3>2, <3>3 DEF ToSet
    <3> QED
      BY <3>4, FetchedNumbers
  <2> QED
    BY <2>1, <2>2
<1>7. step = LR!minibatch_grad_sparse(batch[v], wmodel'[v], Epsilon, Threshold,
                                      [c \in 0 .. (Dim - 1) |-> 0])
  BY <1>3 DEF step
<1>8. /\ step.part3 = [c \in 0 .. (Dim - 1) |-> 0]
      /\ \A i \in 1 .. Len(step.grad) : step.grad[i][2] \in Int
      /\ ExactLR(step.grad, batch[v], wmodel'[v])
  <2> DEFINE weights == wmodel'[v]
             b == batch[v]
  <2>1. b \in Seq(Sample) /\ \A c \in 0 .. (Dim - 1) : weights[c] \in Int
    BY <1>3, <1>6
  <2>2. step = LR!minibatch_grad_sparse(b, weights, Epsilon, Threshold, [c \in 0 .. (Dim - 1) |-> 0])
    BY <1>7
  <2> HIDE DEF b, weights
  <2>3. /\ step.part3 = [c \in 0 .. (Dim - 1) |-> 0]
        /\ \A i \in 1 .. Len(step.grad) : step.grad[i][2] \in Int
        /\ ExactLR(step.grad, b, weights)
    BY <2>1, <2>2, SparseIsDense
  <2> QED
    BY <2>3 DEF b, weights
<1> QED
  BY <1>3, <1>5, <1>6, <1>8

(* For collaborative filtering: the worker has every cell of its minibatch.   *)
LEMMA MFComputed ==
  ASSUME StoreInv, WeightInv, GradInv, NEW v \in W, ComputeGradient(v), ~LRKind
  PROVE  Fetched(v)' /\ IsNumeric(setup, grad'[v])
<1> DEFINE cells == get[v].cells
           out == get[v].out
           o == ItemOrder(batch[v])
           loaded == loadSparseMF(MFReplyWords(cells, out), base[v], MiniBatch, Len(o))
           C == BatchCells(base[v], batch[v])
<1>1. /\ wpc[v] = "model" /\ get[v].pc = "reply"
      /\ wmodel' = [wmodel EXCEPT ![v] = loaded]
      /\ grad' = [grad EXCEPT ![v] = minibatch_grad(wmodel'[v], base[v], batch[v]).g]
      /\ UNCHANGED <<setup, base, batch>>
  BY DEF ComputeGradient, LogisticGradient, MFGradient
<1>2. /\ DOMAIN wmodel = W /\ DOMAIN grad = W
      /\ setup \in Setups /\ Working(v) /\ Informed(v) /\ Exact(v)
  BY DEF StoreInv, Domains, WeightInv, GradInv
<1>3. /\ batch[v] \in Seq(Seq(Nat \X Int)) /\ base[v] \in Int /\ Len(batch[v]) = MiniBatch
      /\ cells = MFRequestCells(MFRequestWords(base[v], batch[v], MiniBatch))
      /\ DOMAIN window[v].cells = ToSet(cells)
      /\ U!IsSeq(out) /\ Len(out) = Len(cells)
  BY <1>1, <1>2
  DEF Working, IsBatch, LRKind, Informed, Asked, Answering, Request, RequestCells, Exact
<1>4. RequestLayout(cells, base[v], o, NumFactors + 1, MiniBatch + Len(o))
  BY <1>3, RequestLaidOut
<1>5. wmodel'[v] = loaded /\ grad'[v] = minibatch_grad(loaded, base[v], batch[v]).g
  BY <1>1, <1>2
<1> HIDE DEF cells, out, loaded
<1>6. DOMAIN window[v].cells = C
  BY <1>3, <1>4, RequestIsCells
<1>7. loaded = [c \in C |-> loaded[c]]
  BY <1>3, <1>4, LoadedCells DEF loaded
<1>8. \A c \in C : loaded[c] \in Int
  BY <1>5, <1>6, FetchedNumbers
<1> HIDE DEF C
<1>9. DOMAIN loaded = C
  BY <1>7
<1>10. Numbers(loaded, DOMAIN loaded)
  BY <1>7, <1>8, <1>9 DEF Numbers
<1>11. Numbers(grad'[v], C)
  <2>1. C = Cells(base[v] .. (base[v] + Len(batch[v]) - 1), Items(batch[v]))
    BY DEF C, BatchCells
  <2> QED
    BY <1>3, <1>5, <1>9, <1>10, <2>1, GradientIsProgress
<1>12. Fetched(v)'
  BY <1>1, <1>5, <1>9, <1>10 DEF Fetched, C
<1>13. IsNumeric(setup, grad'[v])
  BY <1>11 DEF IsNumeric, LRKind, Numbers
<1> QED
  BY <1>12, <1>13

LEMMA GradCompute ==
  ASSUME StoreInv, WeightInv, GradInv, NEW v \in W, ComputeGradient(v)
  PROVE  GradInv'
<1>1. /\ wpc' = [wpc EXCEPT ![v] = "grad"] /\ (LogisticGradient(v) \/ MFGradient(v))
      /\ UNCHANGED <<setup, model, opt, batch, base, iter, pushed, window>>
      /\ wpc[v] = "model"
  BY DEF ComputeGradient, serverVars, history
<1>2. /\ DOMAIN wmodel = W /\ DOMAIN part3 = W /\ DOMAIN grad = W /\ DOMAIN wpc = W
      /\ DOMAIN iter = W /\ setup \in Setups /\ Exact(v)
  BY DEF StoreInv, Domains, WeightInv, GradInv
<1>3. /\ LRKind' = LRKind /\ ModelCells' = ModelCells
      /\ sample_low(v)' = sample_low(v) /\ l(v)' = l(v) /\ LowFits(v)' = LowFits(v)
  BY <1>1, RangeSame
<1>4. Seen(v)' /\ wpc'[v] = "grad"
  BY <1>1, <1>2, <1>3 DEF Exact, Seen
<1>5. CASE LRKind
  <2>1. /\ \A c \in ModelCells : wmodel'[v][c] \in Int
        /\ part3'[v] = [c \in ModelCells |-> 0] /\ IsNumeric(setup, grad'[v])
    BY <1>5, LRComputed DEF IsNumeric, LRKind
  <2>2. Exact(v)'
    BY <1>1, <1>2, <1>3, <1>4, <1>5, <2>1 DEF Exact
  <2>3. LogisticGradient(v)
    BY <1>1, <1>5 DEF MFGradient
  <2>4. DOMAIN part3' = W /\ \A w \in W \ {v} : Mine(w)' = Mine(w)
    BY <1>1, <1>2, <2>3 DEF Mine, LogisticGradient
  <2> QED
    BY <1>1, <1>2, <2>2, <2>4, GradStepOf
<1>6. CASE ~LRKind
  <2>1. Fetched(v)' /\ IsNumeric(setup, grad'[v])
    BY <1>6, MFComputed
  <2>2. InRange(v)'
    BY <1>1, <1>2, <1>3, <1>6 DEF Exact, InRange
  <2>3. Exact(v)'
    BY <1>1, <1>2, <1>3, <1>4, <1>6, <2>1, <2>2 DEF Exact
  <2>4. MFGradient(v)
    BY <1>1, <1>6 DEF LogisticGradient
  <2>5. DOMAIN part3' = W /\ \A w \in W \ {v} : Mine(w)' = Mine(w)
    BY <1>1, <1>2, <2>4 DEF Mine, MFGradient
  <2> QED
    BY <1>1, <1>2, <2>3, <2>5, GradStepOf
<1> QED
  BY <1>5, <1>6

LEMMA GradPush ==
  ASSUME StoreInv, WeightInv, GradInv, NEW v \in W, PushGradient(v)
  PROVE  GradInv'
<1> DEFINE pc == IF setup.test_iters > 0 /\ count'[v] > setup.test_iters THEN "exit" ELSE "next"
           win == [cells |-> <<>>, avgs |-> {}]
<1>1. /\ wpc' = [wpc EXCEPT ![v] = pc] /\ window' = [window EXCEPT ![v] = win] /\ wpc[v] = "grad"
      /\ pushed' = [pushed EXCEPT ![v] = Append(pushed[v], grad[v])]
      /\ grad' = [grad EXCEPT ![v] = <<>>] /\ batch' = [batch EXCEPT ![v] = <<>>]
      /\ base' = IF LRKind THEN base ELSE [base EXCEPT ![v] = next_index(v, base[v])]
      /\ wmodel' = IF LRKind THEN wmodel ELSE [wmodel EXCEPT ![v] = <<>>]
      /\ UNCHANGED <<setup, model, opt, iter, part3>>
  BY DEF PushGradient, serverVars
<1>2. pc \in {"exit", "next"} /\ DOMAIN win.cells = {} /\ win.avgs = {}
  OBVIOUS
<1> HIDE DEF pc, win
<1>3. /\ DOMAIN window = W /\ DOMAIN wpc = W /\ DOMAIN wmodel = W /\ DOMAIN pushed = W
      /\ DOMAIN batch = W /\ DOMAIN base = W /\ DOMAIN grad = W /\ DOMAIN part3 = W
      /\ DOMAIN iter = W /\ setup \in Setups /\ Exact(v) /\ U!IsSeq(pushed[v])
  BY DEF StoreInv, Domains, WeightInv, GradInv, Serving
<1>4. /\ LRKind' = LRKind /\ ModelCells' = ModelCells
      /\ sample_low(v)' = sample_low(v) /\ l(v)' = l(v) /\ LowFits(v)' = LowFits(v)
  BY <1>1, RangeSame
<1>5. wpc'[v] \in {"exit", "next"} /\ Seen(v)'
  BY <1>1, <1>2, <1>3 DEF Seen
<1>6. \A i \in 1 .. Len(pushed'[v]) : IsNumeric(setup, pushed'[v][i])
  <2> DEFINE q == pushed[v]
             n == Len(q)
             g == grad[v]
  <2>1. IsNumeric(setup, g) /\ \A i \in 1 .. n : IsNumeric(setup, q[i])
    BY <1>1, <1>3 DEF Exact
  <2>2. pushed'[v] = Append(q, g) /\ U!IsSeq(q)
    BY <1>1, <1>3
  <2> HIDE DEF q, g
  <2>3. PICK T : q \in Seq(T)
    BY <2>2 DEF U!IsSeq
  <2>4. /\ n \in Nat /\ Len(Append(q, g)) = n + 1 /\ Append(q, g)[n + 1] = g
        /\ \A i \in 1 .. n : Append(q, g)[i] = q[i]
    BY <2>3
  <2> HIDE DEF n
  <2>5. \A i \in 1 .. (n + 1) : i \in 1 .. n \/ i = n + 1
    BY <2>4
  <2> QED
    BY <2>1, <2>2, <2>4, <2>5
<1>7. ~LRKind => InRange(v)'
  <2> SUFFICES ASSUME ~LRKind PROVE InRange(v)'
    OBVIOUS
  <2>1. InRange(v) /\ sample_low(v) \in Nat
    BY <1>3, RangeFacts DEF Exact
  <2>2. base[v] \in Nat
    BY <2>1 DEF InRange
  <2>3. base'[v] = next_index(v, base[v])
    BY <1>1, <1>3
  <2> QED
    BY <1>1, <1>3, <1>4, <2>1, <2>2, <2>3, NextFits DEF InRange
<1>8. LRKind => wmodel'[v] = wmodel[v]
  BY <1>1
<1>9. Exact(v)'
  BY <1>1, <1>3, <1>4, <1>5, <1>6, <1>7, <1>8 DEF Exact
<1>10. \A w \in W \ {v} : Mine(w)' = Mine(w)
  BY <1>1, <1>3 DEF Mine
<1> QED
  BY <1>1, <1>3, <1>9, <1>10, GradStepOf

(* An update by an integer leaves integers.                                   *)
LEMMA UpdateKeepsNumbers ==
  ASSUME NEW s, SetupOK(s), NEW st, NEW cells, IsStore(st, cells), NumberStore(st, cells),
         NEW e, e[2] \in Int
  PROVE  NumberStore(UpdateOp(s, st, e), cells)
<1> DEFINE x == e[1]
           n == e[2]
<1>1. /\ st = [w |-> st.w, hist |-> st.hist, avg |-> st.avg]
      /\ DOMAIN st.w = cells /\ DOMAIN st.hist = cells /\ st.avg \in Int
      /\ \A c \in cells : st.w[c] \in Int /\ st.hist[c] \in Nat
      /\ Rate \in Int /\ n \in Int
  BY NumbersAssumption DEF IsStore, NumberStore
<1>2. ASSUME NEW move, NEW avg \in Int, NEW hist, DOMAIN hist = cells,
             \A c \in cells : hist[c] \in Nat, x \in cells => move \in Int, NEW new,
             new = [w |-> [st.w EXCEPT ![x] = @ + move], hist |-> hist, avg |-> avg]
      PROVE  NumberStore(new, cells)
  <2>1. /\ new.avg = avg /\ new.hist = hist
        /\ \A c \in cells : new.w[c] = IF c = x THEN st.w[c] + move ELSE st.w[c]
    BY <1>1, <1>2
  <2>2. \A c \in cells : new.w[c] \in Int
    BY <1>1, <1>2, <2>1
  <2> QED
    BY <1>2, <2>1, <2>2 DEF NumberStore
<1>3. Rate * n \in Int /\ n * n \in Nat
  <2>1. \A a \in Int : a * a \in Nat
    OBVIOUS
  <2> QED
    BY <1>1, <2>1
<1>4. NumberStore(MFUpdate(st, e), cells)
  <2>1. MFUpdate(st, e) = [w |-> [st.w EXCEPT ![x] = @ + n], hist |-> st.hist, avg |-> st.avg]
    BY <1>1 DEF MFUpdate
  <2> HIDE DEF x, n
  <2> QED
    BY <1>1, <1>2, <2>1
<1>5. NumberStore(SGD(st, e), cells)
  <2> DEFINE m == Rate * n
  <2>1. SGD(st, e) = [w |-> [st.w EXCEPT ![x] = @ + m], hist |-> st.hist, avg |-> st.avg]
    BY <1>1 DEF SGD
  <2>2. m \in Int
    BY <1>3
  <2> HIDE DEF x, n, m
  <2> QED
    BY <1>1, <1>2, <2>1, <2>2
<1>6. NumberStore(Momentum(st, e), cells)
  <2> DEFINE avg == IF st.avg = 0 THEN n ELSE (st.avg + Rate * n) \div 2
  <2>1. avg \in Int
    <3> DEFINE y == st.avg + Rate * n
    <3>1. y \in Int
      BY <1>1, <1>3
    <3> HIDE DEF y
    <3>2. y \div 2 \in Int
      BY <3>1
    <3> QED
      BY <1>1, <3>2 DEF y
  <2>2. Momentum(st, e) = [st EXCEPT !.avg = avg, !.w[x] = @ + avg]
    BY DEF Momentum
  <2> HIDE DEF avg, x
  <2>3. Momentum(st, e) = [w |-> [st.w EXCEPT ![x] = @ + avg], hist |-> st.hist, avg |-> avg]
    BY <1>1, <2>2
  <2> QED
    BY <1>1, <1>2, <2>1, <2>3
<1>7. NumberStore(Nesterov(st, e), cells)
  BY <1>6 DEF Nesterov
<1>8. NumberStore(AdaGrad(st, e), cells)
  <2> DEFINE hist == [st.hist EXCEPT ![x] = @ + n * n]
             move == (Rate * n) \div (1 + hist[x])
             sq == n * n
  <2>1. AdaGrad(st, e) = [st EXCEPT !.hist = hist, !.w[x] = @ + move]
    BY DEF AdaGrad
  <2>2. DOMAIN hist = cells /\ \A c \in cells : hist[c] \in Nat
    <3>1. sq \in Nat /\ hist = [st.hist EXCEPT ![x] = @ + sq]
      BY <1>3
    <3> HIDE DEF sq, x, n, hist
    <3> QED
      BY <1>1, <3>1
  <2>3. x \in cells => move \in Int
    <3> DEFINE a == Rate * n
               d == 1 + hist[x]
    <3> SUFFICES ASSUME x \in cells PROVE a \div d \in Int
      OBVIOUS
    <3>1. a \in Int /\ hist[x] \in Nat
      BY <1>3, <2>2
    <3> HIDE DEF hist, a, x
    <3>2. d \in Nat /\ d > 0
      BY <3>1
    <3> HIDE DEF d
    <3> QED
      BY <3>1, <3>2
  <2> HIDE DEF hist, move, x, n
  <2>4. AdaGrad(st, e) = [w |-> [st.w EXCEPT ![x] = @ + move], hist |-> hist, avg |-> st.avg]
    BY <1>1, <2>1
  <2> QED
    BY <1>1, <1>2, <2>2, <2>3, <2>4
<1>9. s.kind \in {"lr", "mf"} /\ s.opt \in {"sgd", "momentum", "nesterov", "adagrad"}
  BY DEF SetupOK
<1> QED
  BY <1>4, <1>5, <1>6, <1>7, <1>8, <1>9 DEF UpdateOp

LEMMA GradApply ==
  ASSUME StoreInv, WeightInv, GradInv, NEW v \in W, GradientApply(v)
  PROVE  GradInv'
<1> DEFINE e == Head(put[v].todo)
           st == sgd_update(Store, e)
           cells(u) == [c \in DOMAIN window[u].cells |-> window[u].cells[c] \union {st.w[c]}]
           win(u) == [cells |-> cells(u), avgs |-> window[u].avgs \union {st.avg}]
           g == Head(pushed[v])
<1>1. /\ put[v].pc = "apply"
      /\ model' = st.w /\ opt' = [hist |-> st.hist, avg |-> st.avg]
      /\ window' = [u \in W |-> win(u)]
      /\ pushed' = pushed \/ pushed' = [pushed EXCEPT ![v] = Tail(pushed[v])]
      /\ UNCHANGED <<setup, workerVars>>
  BY DEF GradientApply
<1>2. W' = W /\ LRKind' = LRKind /\ ModelCells' = ModelCells
  BY <1>1, SameKind
<1>3. /\ setup \in Setups /\ SetupOK(setup) /\ Serving(v) /\ IsStore(Store, ModelCells)
      /\ NumberStore(Store, ModelCells) /\ DOMAIN pushed = W
      /\ \A w \in W : Exact(w)
  BY SetupFacts DEF StoreInv, Settled, Domains, GradInv
<1>4. PICK n \in Nat : Len(pushed[v]) = n /\ n # 0 /\ U!IsSeq(pushed[v])
  <2>1. U!IsSeq(pushed[v]) /\ pushed[v] # <<>>
    BY <1>1, <1>3 DEF Serving
  <2> DEFINE q == pushed[v]
  <2>2. PICK T : q \in Seq(T)
    BY <2>1 DEF U!IsSeq
  <2> HIDE DEF q
  <2>3. Len(q) \in Nat /\ (q # <<>> => Len(q) # 0)
    BY <2>2
  <2> QED
    BY <2>1, <2>3 DEF q
<1>5. IsNumeric(setup, g)
  <2>1. g = pushed[v][1]
    BY DEF Head
  <2>2. 1 \in 1 .. Len(pushed[v])
    BY <1>4
  <2> QED
    BY <1>3, <2>1, <2>2 DEF Exact
<1>6. e[2] \in Int
  <2>1. Applying(setup, committed, Store, put[v].todo, g)
    BY <1>1, <1>3 DEF Serving
  <2> DEFINE todo == put[v].todo
  <2>2. PICK q, t : \E k \in Nat :
          /\ Whole(setup, q, g) /\ k < Len(q)
          /\ U!IsSeq(todo) /\ Len(todo) = Len(q) - k
          /\ \A i \in 1 .. Len(todo) : todo[i] = q[k + i]
    BY <2>1 DEF Applying
  <2>3. PICK k \in Nat :
          /\ Whole(setup, q, g) /\ k < Len(q)
          /\ U!IsSeq(todo) /\ Len(todo) = Len(q) - k
          /\ \A i \in 1 .. Len(todo) : todo[i] = q[k + i]
    BY <2>2
  <2>4. Len(q) \in Nat
    BY <2>3, U!SeqLength DEF Whole
  <2>5. 1 \in 1 .. Len(todo) /\ k + 1 \in 1 .. Len(q)
    BY <2>3, <2>4
  <2>6. e = q[k + 1]
    <3>1. e = todo[1]
      BY DEF Head
    <3> HIDE DEF e
    <3> QED
      BY <2>3, <2>5, <3>1
  <2> HIDE DEF e, g, todo
  <2> DEFINE y == k + 1
  <2>7. y \in 1 .. Len(q) /\ e = q[y]
    BY <2>5, <2>6
  <2> HIDE DEF y
  <2>8. CASE setup.kind = "lr"
    BY <1>5, <2>3, <2>7, <2>8 DEF Whole, IsNumeric
  <2>9. CASE setup.kind # "lr"
    <3>1. \A c \in DOMAIN g : g[c] \in Int
      BY <1>5, <2>9 DEF IsNumeric
    <3>2. Enumerates(q, g)
      BY <2>3, <2>9 DEF Whole
    <3>3. q[y][1] \in DOMAIN g /\ q[y][2] = g[q[y][1]]
      BY <2>7, <3>2 DEF Enumerates
    <3> QED
      BY <2>7, <3>1, <3>3
  <2> QED
    BY <2>8, <2>9
<1>7. NumberStore(st, ModelCells)
  <2>1. st = UpdateOp(setup, Store, e)
    BY UpdateIsOp
  <2> HIDE DEF st, e
  <2> QED
    BY <1>3, <1>6, <2>1, UpdateKeepsNumbers
<1> HIDE DEF e, st, g
<1>8. NumberStore(Store, ModelCells)'
  <2>1. Store' = [w |-> st.w, hist |-> st.hist, avg |-> st.avg]
    BY <1>1 DEF Store
  <2> QED
    BY <1>2, <1>7, <2>1 DEF NumberStore
<1>9. ASSUME NEW w \in W PROVE Exact(w)'
  <2> DEFINE D == DOMAIN window[w].cells
  <2>1. window'[w] = win(w) /\ win(w).cells = cells(w) /\ win(w).avgs = window[w].avgs \union {st.avg}
    BY <1>1
  <2>2. /\ DOMAIN window'[w].cells = D
        /\ \A c \in D : window'[w].cells[c] = window[w].cells[c] \union {st.w[c]}
        /\ window'[w].avgs = window[w].avgs \union {st.avg}
    BY <2>1
  <2>3. Exact(w) /\ st.avg \in Int /\ \A c \in ModelCells : st.w[c] \in Int
    BY <1>3, <1>7 DEF NumberStore
  <2>4. Seen(w)'
    BY <1>2, <2>2, <2>3 DEF Exact, Seen
  <2>5. \A i \in 1 .. Len(pushed'[w]) : IsNumeric(setup, pushed'[w][i])
    <3>1. CASE pushed'[w] = pushed[w]
      BY <2>3, <3>1 DEF Exact
    <3>2. CASE pushed'[w] # pushed[w]
      <4>1. w = v /\ pushed'[v] = Tail(pushed[v])
        BY <1>1, <1>3, <3>2
      <4> DEFINE q == pushed[v]
      <4>2. PICK T : q \in Seq(T)
        BY <1>4 DEF U!IsSeq
      <4>3. q # <<>>
        <5>1. Len(<<>>) = 0
          OBVIOUS
        <5> QED
          BY <1>4, <5>1
      <4> HIDE DEF q
      <4>4. /\ Len(q) \in Nat /\ Len(Tail(q)) = Len(q) - 1
            /\ \A i \in 1 .. Len(Tail(q)) : Tail(q)[i] = q[i + 1] /\ i + 1 \in 1 .. Len(q)
        BY <4>2, <4>3
      <4>5. \A i \in 1 .. Len(q) : IsNumeric(setup, q[i])
        BY <2>3, <4>1 DEF Exact, q
      <4>6. \A i \in 1 .. Len(Tail(q)) : IsNumeric(setup, Tail(q)[i])
        BY <4>4, <4>5
      <4> QED
        BY <4>1, <4>6 DEF q
    <3> QED
      BY <3>1, <3>2
  <2>6. /\ wpc'[w] = wpc[w] /\ grad'[w] = grad[w] /\ part3'[w] = part3[w]
        /\ wmodel'[w] = wmodel[w] /\ base'[w] = base[w] /\ iter'[w] = iter[w]
        /\ batch'[w] = batch[w]
    BY <1>1 DEF workerVars
  <2>7. /\ sample_low(w)' = sample_low(w) /\ l(w)' = l(w) /\ LowFits(w)' = LowFits(w)
    BY <1>1, RangeSame
  <2>8. InRange(w) => InRange(w)'
    BY <1>1, <2>6, <2>7 DEF InRange
  <2>9. Fetched(w) => Fetched(w)'
    BY <2>6 DEF Fetched
  <2> HIDE DEF D
  <2> QED
    BY <1>1, <1>2, <2>3, <2>4, <2>5, <2>6, <2>8, <2>9 DEF Exact
<1> QED
  BY <1>1, <1>2, <1>8, <1>9 DEF GradInv, workerVars

LEMMA GradStep == ASSUME StoreInv, WeightInv, GradInv, [Next]_vars PROVE GradInv'
<1>1. ASSUME NEW v \in W, Worker(v) PROVE GradInv'
  BY <1>1, GradGet, GradLeave, GradCompute, GradPush DEF Worker
<1>2. ASSUME NEW v \in W, GradientReceive(v) \/ GradientLock(v) \/ GradientCount(v)
      PROVE  GradInv'
  BY <1>2, GradStutter DEF GradientReceive, GradientLock, GradientCount, history
<1>3. ASSUME NEW v \in W, PutHandler(v) PROVE GradInv'
  BY <1>2, <1>3, GradApply DEF PutHandler
<1>4. ASSUME NEW v \in W, GetHandler(v) PROVE GradInv'
  BY <1>4, GradStutter DEF GetHandler, RequestReceive, ReadWeight, EditWeight, serverVars, history
<1>5. CASE Report \/ Udp \/ UNCHANGED vars
  BY <1>5, GradStutter
  DEF Report, ReportRead, ReportReset, Udp, UdpTime, UdpError, vars, serverVars, history
<1>6. CASE ErrorTask
  BY <1>6, GradStutter
  DEF ErrorTask, ErrorTop, ErrorGetModel, ErrorModelTooLong, ErrorGetFails, ErrorLoss,
      ErrorTime, ErrorError, serverVars, history
<1> QED
  BY <1>1, <1>3, <1>4, <1>5, <1>6 DEF Next

(* Only a worker itself goes from one part of its work to the next.           *)
LEMMA WorkerGoesOn ==
  ASSUME StoreInv, [Next]_vars, NEW w \in W, wpc'[w] # wpc[w]
  PROVE  Worker(w)
<1>1. DOMAIN wpc = W
  BY DEF StoreInv, Domains
<1>2. wpc' # wpc
  OBVIOUS
<1>3. ASSUME NEW v \in W, Worker(v) PROVE Worker(w)
  <2>1. v = w
    BY <1>1, <1>3
    DEF Worker, GetMinibatch, OverrunMessage, AbortWorker, ComputeGradient, PushGradient
  <2> QED
    BY <1>3, <2>1
<1>4. \A v \in W : ~PutHandler(v) /\ ~GetHandler(v)
  BY <1>2
  DEF PutHandler, GradientReceive, GradientLock, GradientApply, GradientCount, GetHandler,
      RequestReceive, ReadWeight, EditWeight, workerVars
<1>5. ~Report /\ ~Udp /\ ~ErrorTask /\ ~(UNCHANGED vars)
  BY <1>2
  DEF Report, ReportRead, ReportReset, Udp, UdpTime, UdpError, ErrorTask, ErrorTop, ErrorGetModel,
      ErrorModelTooLong, ErrorGetFails, ErrorLoss, ErrorTime, ErrorError, vars, workerVars
<1> QED
  BY <1>3, <1>4, <1>5 DEF Next

(* The message of a factorisation, applied to what was fetched, gives the     *)
(* worker's own model.                                                        *)
LEMMA MFPushed ==
  ASSUME StoreInv, WeightInv, GradInv, NEW v \in W, PushGradient(v), ~LRKind
  PROVE  FoldLeft(LAMBDA acc, e : [acc EXCEPT ![e[1]] = @ + e[2]], wmodel[v],
                  loadMFGradient(Last(gradConn'[v])))
           = minibatch_grad(wmodel[v], base[v], batch[v]).m
<1> DEFINE m == wmodel[v]
           b == batch[v]
           g == grad[v]
           C == Cells(base[v] .. (base[v] + Len(b) - 1), Items(b))
           msg == MFGradientWords(g, MFUsers(v), ItemOrder(b))
           read == loadMFGradient(msg)
<1>1. wpc[v] = "grad" /\ gradConn' = [gradConn EXCEPT ![v] = Append(gradConn[v], msg)]
  BY DEF PushGradient
<1>2. /\ DOMAIN gradConn = W /\ U!IsSeq(gradConn[v]) /\ Working(v) /\ Exact(v)
  BY DEF StoreInv, Domains, Serving, GradInv
<1>3. /\ b \in Seq(Seq(Nat \X Int)) /\ b # <<>> /\ base[v] \in Int
      /\ Numbers(m, DOMAIN m) /\ C \subseteq DOMAIN m /\ g = minibatch_grad(m, base[v], b).g
      /\ DOMAIN g = C
  BY <1>1, <1>2 DEF Working, IsBatch, IsGradient, LRKind, Exact, Fetched, BatchCells
<1>4. Last(gradConn'[v]) = msg
  <2> DEFINE q == gradConn[v]
  <2> HIDE DEF msg
  <2>1. gradConn'[v] = Append(q, msg)
    BY <1>1, <1>2
  <2>2. PICK T : q \in Seq(T)
    BY <1>2 DEF U!IsSeq
  <2> HIDE DEF q
  <2>3. Last(Append(q, msg)) = msg
    BY <2>2 DEF Last
  <2> QED
    BY <2>1, <2>3
<1>5. read = MFRead(g, b, base[v])
  BY DEF MFRead, MFUsers
<1>6. U!IsSeq(read) /\ Enumerates(read, g)
  <2> HIDE DEF read, g, b
  <2> QED
    BY <1>3, <1>5, MFMessage
<1>7. m = [c \in DOMAIN m |-> m[c]]
  BY <1>3 DEF Numbers
<1> HIDE DEF m, g, read, C, b
<1>8. FoldLeft(LAMBDA acc, e : [acc EXCEPT ![e[1]] = @ + e[2]], m, read) = Plus(m, g)
  BY <1>6, <1>7, EntriesMove
<1>9. Plus(m, g) = minibatch_grad(m, base[v], b).m
  <2>1. C = Cells(base[v] .. (base[v] + Len(b) - 1), Items(b))
    BY DEF C
  <2> QED
    BY <1>3, <2>1, GradientIsProgress
<1> QED
  BY <1>4, <1>8, <1>9 DEF m, read, b

(* For every model, data set, threshold and number of workers: the sparse     *)
(* gradient of LR has the entries of the dense one that are not zero and pass *)
(* the threshold, each once, minibatch after minibatch with the scratch       *)
(* vector that the one before left; and the message of a factorisation, read  *)
(* by the server and applied to the model that was fetched, gives the model   *)
(* that the worker trained on its own (SparseLRModel.cpp:411-460,             *)
(* SparseMFModel.cpp:166-285, ModelGradient.cpp:337-416).                     *)
THEOREM GradientsAreExact == Spec => GradientsExact
<1>1. Init => StoreInv /\ WeightInv /\ GradInv
  BY StoreInit, WeightInit, GradInit
<1>2. StoreInv /\ WeightInv /\ GradInv /\ [Next]_vars => StoreInv' /\ WeightInv' /\ GradInv'
  BY StoreStep, WeightStep, GradStep
<1>3. StoreInv /\ WeightInv /\ GradInv /\ [Next]_vars =>
        [\A w \in W : IF LRKind THEN SparseGradientIsGradient(w)
                                ELSE GradientIsLocalProgress(w)]_vars
  <2> SUFFICES ASSUME StoreInv, WeightInv, GradInv, [Next]_vars, NEW w \in W
               PROVE  IF LRKind THEN SparseGradientIsGradient(w) ELSE GradientIsLocalProgress(w)
    OBVIOUS
  <2>1. ASSUME wpc[w] = "model", wpc'[w] = "grad", LRKind
        PROVE  ExactLR(grad'[w], batch[w], wmodel'[w])
    <3>1. Worker(w)
      BY <2>1, WorkerGoesOn
    <3>2. ComputeGradient(w)
      BY <2>1, <3>1
      DEF Worker, GetMinibatch, OverrunMessage, AbortWorker, PushGradient, StoreInv, Domains
    <3> QED
      BY <2>1, <3>2, LRComputed
  <2>2. ASSUME LRKind PROVE SparseGradientIsGradient(w)
    BY <2>1, <2>2 DEF SparseGradientIsGradient, ExactLR
  <2>3. ASSUME wpc[w] = "grad", wpc'[w] # "grad", ~LRKind PROVE GradientIsLocalProgress(w)
    <3>1. Worker(w)
      BY <2>3, WorkerGoesOn
    <3>2. PushGradient(w)
      BY <2>3, <3>1
      DEF Worker, GetMinibatch, OverrunMessage, NextSamples, AbortWorker, ComputeGradient
    <3> QED
      BY <2>3, <3>2, MFPushed DEF GradientIsLocalProgress
  <2>4. ASSUME ~LRKind PROVE GradientIsLocalProgress(w)
    BY <2>3, <2>4 DEF GradientIsLocalProgress
  <2> QED
    BY <2>2, <2>4
<1> QED
  BY <1>1, <1>2, <1>3, PTL DEF Spec, GradientsExact
=============================================================================
