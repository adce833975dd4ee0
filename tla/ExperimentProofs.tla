-------------------------- MODULE ExperimentProofs --------------------------
(* Theorems about Experiment: ids of a fleet are fresh and registered once,   *)
(* for any number of workers, generations, retries and runs.                  *)
EXTENDS Experiment, TLAPS

USE ExperimentIdAssumption, WorkersAssumption, GenerationsAssumption,
    RetriesAssumption, RunsAssumption

IndInv == TypeOK /\ Launching /\ NotStarted /\ RegisteredArePast

-----------------------------------------------------------------------------
LEMMA WorkerIdsNat == WorkerIds \subseteq Nat
BY DEF WorkerIds

(* Task ids are worker ids and generations in base MAX_LAMBDA_GENERATIONS     *)
(* (automate.py:666): no two of them collide.                                 *)
LEMMA TaskIdsDistinct ==
  ASSUME NEW w \in Nat, NEW v \in Nat, NEW g \in 0 .. (MaxGenerations - 1),
         NEW h \in 0 .. (MaxGenerations - 1), task_id(w, g) = task_id(v, h)
  PROVE  w = v /\ g = h
<1> DEFINE M == MaxGenerations
<1>1. M \in Nat /\ M > 0
  BY DEF M
<1>2. w * M + g = v * M + h
  BY DEF task_id
<1>3. ASSUME NEW a \in Nat, NEW b \in Nat, a < b PROVE (a + 1) * M <= b * M
  <2> HIDE DEF M
  <2>1. PICK k \in Nat : b = a + 1 + k
    <3>1. b - (a + 1) \in Nat /\ b = a + 1 + (b - (a + 1))
      BY <1>3
    <3> QED BY <3>1
  <2>2. b * M = (a + 1) * M + k * M
    BY <1>1, <2>1
  <2>3. k * M \in Nat
    BY <1>1, <2>1
  <2>4. (a + 1) * M \in Nat
    BY <1>1, <1>3
  <2> QED BY <2>2, <2>3, <2>4
<1>4. \A a \in Nat : a * M \in Nat /\ (a + 1) * M = a * M + M
  BY <1>1
<1>5. ~(w < v)
  <2>1. SUFFICES ASSUME w < v PROVE FALSE
    OBVIOUS
  <2>2. (w + 1) * M <= v * M
    BY <1>3, <2>1
  <2> QED BY <1>1, <1>2, <1>4, <2>2
<1>6. ~(v < w)
  <2>1. SUFFICES ASSUME v < w PROVE FALSE
    OBVIOUS
  <2>2. (v + 1) * M <= w * M
    BY <1>3, <2>1
  <2> QED BY <1>1, <1>2, <1>4, <2>2
<1>7. w = v
  BY <1>5, <1>6
<1>8. w * M \in Nat
  BY <1>4
<1>9. g = h
  <2> HIDE DEF M
  <2> QED BY <1>2, <1>7, <1>8
<1> QED BY <1>7, <1>9

-----------------------------------------------------------------------------
(* Typing of a table indexed by run and worker after one entry has changed.   *)
LEMMA TableType ==
  ASSUME NEW S, NEW f \in [Runs -> [WorkerIds -> S]], NEW r \in Runs,
         NEW w \in WorkerIds, NEW e \in S, NEW f1, f1 = [f EXCEPT ![r][w] = e]
  PROVE  /\ f1 \in [Runs -> [WorkerIds -> S]]
         /\ f1[r][w] = e
         /\ \A q \in Runs : \A v \in WorkerIds :
              q # r \/ v # w => f1[q][v] = f[q][v]
OBVIOUS

(* A step of a maintain_one thread keeps the types.                           *)
LEMMA OneStepType ==
  ASSUME TypeOK, Launching, NEW r \in Runs, NEW w \in WorkerIds,
         MaintainOne(r, w)
  PROVE  TypeOK'
<1>1. UNCHANGED <<userVars, ps, errorTask, boss, function, cleanUp>>
  BY DEF MaintainOne, TestStop, Invoke, Throttled, InvokeRaises, Register, LambdaReturns
<1>2. one' \in [Runs -> [WorkerIds -> OnePcs]]
  <2>1. one \in [Runs -> [WorkerIds -> OnePcs]]
    BY DEF TypeOK
  <2>2. one' = one \/ \E l \in OnePcs : one' = [one EXCEPT ![r][w] = l]
    BY DEF MaintainOne, TestStop, Invoke, Throttled, InvokeRaises, Register,
           LambdaReturns, Goto, OnePcs
  <2>3. ASSUME NEW l \in OnePcs, one' = [one EXCEPT ![r][w] = l]
        PROVE  one' \in [Runs -> [WorkerIds -> OnePcs]]
    BY <2>1, <2>3
  <2> QED BY <2>1, <2>2, <2>3
<1>3. retries' \in [Runs -> [WorkerIds -> 0 .. MaxRetries]]
  <2>1. retries \in [Runs -> [WorkerIds -> 0 .. MaxRetries]]
    BY DEF TypeOK
  <2>2. \/ retries' = retries
        \/ retries' = [retries EXCEPT ![r][w] = 0]
        \/ retries[r][w] < MaxRetries /\ retries' = [retries EXCEPT ![r][w] = @ + 1]
    BY DEF MaintainOne, TestStop, Invoke, Throttled, InvokeRaises, Register,
           LambdaReturns
  <2>3. CASE retries[r][w] < MaxRetries /\ retries' = [retries EXCEPT ![r][w] = @ + 1]
    <3>1. retries[r][w] + 1 \in 0 .. MaxRetries
      BY <2>1, <2>3
    <3>2. retries' = [retries EXCEPT ![r][w] = retries[r][w] + 1]
      BY <2>1, <2>3
    <3> QED BY <2>1, <3>1, <3>2, TableType
  <2>4. CASE retries' = [retries EXCEPT ![r][w] = 0]
    <3>1. 0 \in 0 .. MaxRetries
      OBVIOUS
    <3> QED BY <2>1, <2>4, <3>1, TableType
  <2> QED BY <2>1, <2>2, <2>3, <2>4
<1>4. generation' \in [Runs -> [WorkerIds -> 0 .. MaxGenerations]]
  <2>1. generation \in [Runs -> [WorkerIds -> 0 .. MaxGenerations]]
    BY DEF TypeOK
  <2>2. \/ generation' = generation
        \/ /\ generation[r][w] < MaxGenerations
           /\ generation' = [generation EXCEPT ![r][w] = @ + 1]
    BY DEF MaintainOne, TestStop, Invoke, Throttled, InvokeRaises, Register,
           LambdaReturns, Launching
  <2>3. CASE /\ generation[r][w] < MaxGenerations
             /\ generation' = [generation EXCEPT ![r][w] = @ + 1]
    <3>1. generation[r][w] + 1 \in 0 .. MaxGenerations
      BY <2>1, <2>3
    <3>2. generation' = [generation EXCEPT ![r][w] = generation[r][w] + 1]
      BY <2>1, <2>3
    <3> QED BY <2>1, <3>1, <3>2, TableType
  <2> QED BY <2>1, <2>2, <2>3
<1>5. registered' \in [Runs -> SUBSET (TaskIds \X Runs)]
  <2>1. \/ registered' = registered
        \/ /\ one[r][w] = "launched"
           /\ \E s \in Runs :
                registered' = [registered EXCEPT ![s] = @ \union {<<Id(r, w), r>>}]
    BY DEF MaintainOne, TestStop, Invoke, Throttled, InvokeRaises, Register,
           LambdaReturns, reachable
  <2>2. ASSUME one[r][w] = "launched" PROVE Id(r, w) \in TaskIds
    <3>1. generation[r][w] \in 0 .. (MaxGenerations - 1)
      BY <2>2 DEF Launching, TypeOK
    <3> QED BY <3>1 DEF Id, TaskIds
  <2>3. registered \in [Runs -> SUBSET (TaskIds \X Runs)]
    BY DEF TypeOK
  <2> QED BY <2>1, <2>2, <2>3
<1> QED
  BY <1>1, <1>2, <1>3, <1>4, <1>5 DEF TypeOK, userVars

(* The steps of the user, of the processes and of the other threads: they     *)
(* leave the launched generations alone and only ever empty a registry.       *)
OtherStep ==
  \/ RunStart \/ KillSet \/ Call
  \/ \E r \in Runs : PsListens(r) \/ Crash(r) \/ Boss(r) \/ CleanUp(r)

LEMMA OtherStepType ==
  ASSUME TypeOK, OtherStep
  PROVE  TypeOK'
<1>1. CASE RunStart
  BY <1>1 DEF RunStart, TypeOK, Runs, oneVars
<1>2. CASE KillSet
  BY <1>2 DEF KillSet, TypeOK, oneVars
<1>3. CASE Call
  <2>1. runs \in Runs => TypeOK'
    BY <1>3 DEF Call, RunClear, StopError, StopPs, TypeOK, oneVars
  <2>2. CASE runs \notin Runs
    BY <1>3, <2>2 DEF Call, RunClear, StopError, StopPs, TypeOK, oneVars
  <2> QED BY <2>1, <2>2
<1>4. ASSUME NEW r \in Runs, PsListens(r) \/ Crash(r) \/ Boss(r) \/ CleanUp(r)
      PROVE  TypeOK'
  <2>1. CASE PsListens(r)
    BY <2>1 DEF PsListens, TypeOK, userVars, oneVars
  <2>2. CASE Crash(r)
    BY <2>2 DEF Crash, TypeOK, userVars, oneVars
  <2>3. CASE WaitUntilStarted(r)
    BY <2>3 DEF WaitUntilStarted, TypeOK, userVars, oneVars
  <2>4. CASE MaintainWorkers(r)
    <3>1. [w \in WorkerIds |-> "test"] \in [WorkerIds -> OnePcs]
      BY DEF OnePcs
    <3>2. one' \in [Runs -> [WorkerIds -> OnePcs]]
      BY <2>4, <3>1 DEF MaintainWorkers, TypeOK
    <3> QED BY <2>4, <3>2 DEF MaintainWorkers, TypeOK, userVars
  <2>5. CASE MakeLambdaRaises(r)
    BY <2>5 DEF MakeLambdaRaises, TypeOK, userVars, oneVars
  <2>6. CASE CleanUpWait(r)
    BY <2>6 DEF CleanUpWait, TypeOK, userVars, oneVars
  <2>7. CASE DeleteLambda(r)
    BY <2>7 DEF DeleteLambda, TypeOK, userVars, oneVars
  <2> QED BY <1>4, <2>1, <2>2, <2>3, <2>4, <2>5, <2>6, <2>7 DEF Boss, CleanUp
<1> QED BY <1>1, <1>2, <1>3, <1>4 DEF OtherStep

(* A maintain_one thread starts with a clean table: MaintainWorkers is the    *)
(* only other step that writes `one', and it comes first.                     *)
LEMMA OtherStepKeeps ==
  ASSUME TypeOK, OtherStep
  PROVE  /\ UNCHANGED <<generation, retries>>
         /\ \A s \in Runs : registered'[s] \in {registered[s], {}}
         /\ \/ UNCHANGED one
            \/ \E r \in Runs :
                 /\ boss[r] = "make" /\ boss'[r] = "done"
                 /\ one' = [one EXCEPT ![r] = [w \in WorkerIds |-> "test"]]
<1>1. registered \in [Runs -> SUBSET (TaskIds \X Runs)]
  BY DEF TypeOK
<1>2. UNCHANGED <<generation, retries>>
  BY DEF OtherStep, RunStart, KillSet, Call, RunClear, StopError, StopPs,
         PsListens, Crash, Boss, CleanUp, WaitUntilStarted, MaintainWorkers,
         MakeLambdaRaises, CleanUpWait, DeleteLambda, oneVars
<1>3. \/ registered' = registered
      \/ \E r \in Runs \union {runs} :
           registered' = [registered EXCEPT ![r] = {}]
  BY DEF OtherStep, RunStart, KillSet, Call, RunClear, StopError, StopPs,
         PsListens, Crash, Boss, CleanUp, WaitUntilStarted, MaintainWorkers,
         MakeLambdaRaises, CleanUpWait, DeleteLambda
<1>4. \A s \in Runs : registered'[s] \in {registered[s], {}}
  BY <1>1, <1>3
<1>5. \/ UNCHANGED one
      \/ \E r \in Runs : MaintainWorkers(r)
  BY DEF OtherStep, RunStart, KillSet, Call, RunClear, StopError, StopPs,
         PsListens, Crash, Boss, CleanUp, WaitUntilStarted,
         MakeLambdaRaises, CleanUpWait, DeleteLambda, oneVars
<1>6. ASSUME NEW r \in Runs, MaintainWorkers(r)
      PROVE  /\ boss[r] = "make" /\ boss'[r] = "done"
             /\ one' = [one EXCEPT ![r] = [w \in WorkerIds |-> "test"]]
  BY <1>6 DEF MaintainWorkers, TypeOK
<1> QED BY <1>2, <1>4, <1>5, <1>6

-----------------------------------------------------------------------------
(* A maintain_one step touches one entry of the tables, and only Register     *)
(* adds to a registry: the id of the thread's present generation.             *)
LEMMA OneStepEffect ==
  ASSUME TypeOK, Launching, NEW r \in Runs, NEW w \in WorkerIds,
         MaintainOne(r, w)
  PROVE  /\ \A q \in Runs : \A v \in WorkerIds :
              q # r \/ v # w =>
                one'[q][v] = one[q][v] /\ generation'[q][v] = generation[q][v]
         /\ one[r][w] \in {"test", "invoke", "launched", "working"}
         /\ \/ /\ generation'[r][w] = generation[r][w]
               /\ one'[r][w] \in {"invoke", "launched", "working"} =>
                    \/ generation[r][w] < MaxGenerations
                    \/ one[r][w] \in {"invoke", "launched", "working"}
               /\ one[r][w] = "working" => one'[r][w] = "raised"
            \/ generation'[r][w] = generation[r][w] + 1 /\ one'[r][w] = "test"
         /\ \/ UNCHANGED registered
            \/ /\ one[r][w] = "launched" /\ one'[r][w] = "working"
               /\ generation'[r][w] = generation[r][w]
               /\ \E s \in Runs :
                    /\ ~Taken(s, Id(r, w))
                    /\ registered' = [registered EXCEPT ![s] =
                                        @ \union {<<Id(r, w), r>>}]
<1>1. /\ one \in [Runs -> [WorkerIds -> OnePcs]]
      /\ generation \in [Runs -> [WorkerIds -> 0 .. MaxGenerations]]
  BY DEF TypeOK
<1>2. CASE TestStop(r, w)
  BY <1>1, <1>2 DEF TestStop, Goto
<1>3. CASE Invoke(r, w)
  BY <1>1, <1>3 DEF Invoke, Goto
<1>4. CASE Throttled(r, w)
  BY <1>1, <1>4 DEF Throttled, Goto
<1>5. CASE InvokeRaises(r, w)
  BY <1>1, <1>5 DEF InvokeRaises, Goto
<1>6. CASE Register(r, w)
  BY <1>1, <1>6 DEF Register, Goto, reachable
<1>7. CASE LambdaReturns(r, w)
  BY <1>1, <1>7 DEF LambdaReturns, Goto
<1> QED BY <1>2, <1>3, <1>4, <1>5, <1>6, <1>7 DEF MaintainOne

(* A generation is launched only below the limit (automate.py:664).           *)
LEMMA LaunchingStep ==
  ASSUME IndInv, Next
  PROVE  Launching'
<1> USE DEF IndInv
<1>1. ASSUME NEW r \in Runs, NEW w \in WorkerIds, MaintainOne(r, w)
      PROVE  Launching'
  <2>1. SUFFICES ASSUME NEW q \in Runs, NEW v \in WorkerIds,
                        one'[q][v] \in {"invoke", "launched", "working"}
                 PROVE  generation'[q][v] < MaxGenerations
    BY DEF Launching
  <2>2. CASE q = r /\ v = w
    BY <1>1, <2>1, <2>2, OneStepEffect DEF Launching
  <2>3. CASE q # r \/ v # w
    BY <1>1, <2>1, <2>3, OneStepEffect DEF Launching
  <2> QED BY <2>2, <2>3
<1>2. CASE OtherStep
  <2>1. SUFFICES ASSUME NEW q \in Runs, NEW v \in WorkerIds,
                        one'[q][v] \in {"invoke", "launched", "working"}
                 PROVE  generation'[q][v] < MaxGenerations
    BY DEF Launching
  <2>2. one[q][v] = one'[q][v]
    <3>1. one \in [Runs -> [WorkerIds -> OnePcs]]
      BY DEF TypeOK
    <3>2. ASSUME NEW r \in Runs,
                 one' = [one EXCEPT ![r] = [w \in WorkerIds |-> "test"]]
          PROVE  one[q][v] = one'[q][v]
      <4>1. CASE q = r
        BY <2>1, <3>1, <3>2, <4>1
      <4>2. CASE q # r
        BY <3>1, <3>2, <4>2
      <4> QED BY <4>1, <4>2
    <3> QED BY <1>2, <3>2, OtherStepKeeps
  <2> QED BY <1>2, <2>1, <2>2, OtherStepKeeps DEF Launching
<1> QED BY <1>1, <1>2 DEF Next, OtherStep

(* The threads of a run start after its call of run(), and only once.         *)
LEMMA NotStartedStep ==
  ASSUME IndInv, Next
  PROVE  NotStarted'
<1> USE DEF IndInv
<1>1. ASSUME NEW r \in Runs, NEW w \in WorkerIds, MaintainOne(r, w)
      PROVE  NotStarted'
  <2>1. UNCHANGED <<user, runs, boss>>
    BY <1>1 DEF MaintainOne, TestStop, Invoke, Throttled, InvokeRaises, Register,
                LambdaReturns, userVars
  <2>2. one[r][w] # "none"
    BY <1>1, OneStepEffect
  <2>3. boss[r] \notin {"none", "wait", "make"}
    BY <2>2 DEF NotStarted
  <2>4. \A q \in Runs : \A v \in WorkerIds :
          q # r => one'[q][v] = one[q][v] /\ generation'[q][v] = generation[q][v]
    BY <1>1, OneStepEffect
  <2> QED BY <2>1, <2>3, <2>4 DEF NotStarted
<1>2. CASE OtherStep
  <2>1. ASSUME NEW q \in Runs, q > runs' \/ (user' = "clear" /\ q = runs')
        PROVE  boss'[q] = "none"
    <3>1. q > runs \/ (user = "clear" /\ q = runs)
      <4>1. CASE RunStart
        BY <2>1, <4>1 DEF RunStart, TypeOK, Runs
      <4>2. CASE ~RunStart
        <5>1. runs' = runs
          BY <1>2, <4>2 DEF OtherStep, KillSet, Call, RunClear, StopError, StopPs,
               PsListens, Crash, Boss, CleanUp, WaitUntilStarted, MaintainWorkers,
               MakeLambdaRaises, CleanUpWait, DeleteLambda, userVars
        <5>2. user' = "clear" => user = "clear"
          BY <1>2, <4>2 DEF OtherStep, KillSet, Call, RunClear, StopError, StopPs,
               PsListens, Crash, Boss, CleanUp, WaitUntilStarted, MaintainWorkers,
               MakeLambdaRaises, CleanUpWait, DeleteLambda, userVars
        <5> QED BY <2>1, <5>1, <5>2
      <4> QED BY <4>1, <4>2
    <3>2. boss[q] = "none"
      BY <3>1 DEF NotStarted
    <3> QED
      BY <1>2, <2>1, <3>2 DEF OtherStep, RunStart, KillSet, Call, RunClear,
             StopError, StopPs, PsListens, Crash, Boss, CleanUp, WaitUntilStarted,
             MaintainWorkers, MakeLambdaRaises, CleanUpWait, DeleteLambda,
             userVars, TypeOK
  <2>2. ASSUME NEW q \in Runs, boss'[q] \in {"none", "wait", "make"}
        PROVE  boss[q] \in {"none", "wait", "make"}
    <3>1. CASE RunClear
      BY <2>2, <3>1 DEF RunClear, NotStarted, TypeOK
    <3>2. CASE ~RunClear
      BY <1>2, <2>2, <3>2 DEF OtherStep, RunStart, KillSet, Call,
             StopError, StopPs, PsListens, Crash, Boss, CleanUp, WaitUntilStarted,
             MaintainWorkers, MakeLambdaRaises, CleanUpWait, DeleteLambda, TypeOK
    <3> QED BY <3>1, <3>2
  <2>3. ASSUME NEW q \in Runs, boss'[q] \in {"none", "wait", "make"},
               NEW v \in WorkerIds
        PROVE  one'[q][v] = "none" /\ generation'[q][v] = 0
    <3>1. one[q][v] = "none" /\ generation[q][v] = 0
      BY <2>2, <2>3 DEF NotStarted
    <3>2. one'[q] = one[q]
      BY <1>2, <2>3, OtherStepKeeps DEF TypeOK
    <3> QED BY <1>2, <3>1, <3>2, OtherStepKeeps
  <2> QED BY <2>1, <2>2, <2>3 DEF NotStarted
<1> QED BY <1>1, <1>2 DEF Next, OtherStep

(* A past generation stays past.                                              *)
LEMMA PastStays ==
  ASSUME IndInv, Next, NEW r \in Runs, NEW w \in WorkerIds,
         NEW g \in 0 .. (MaxGenerations - 1), Past(r, w, g)
  PROVE  Past(r, w, g)'
<1> USE DEF IndInv
<1>1. generation[r][w] \in 0 .. MaxGenerations
  BY DEF TypeOK
<1>2. ASSUME NEW q \in Runs, NEW v \in WorkerIds, MaintainOne(q, v)
      PROVE  Past(r, w, g)'
  <2>1. CASE q = r /\ v = w
    BY <1>1, <1>2, <2>1, OneStepEffect DEF Past
  <2>2. CASE r # q \/ w # v
    BY <1>2, <2>2, OneStepEffect DEF Past
  <2> QED BY <2>1, <2>2
<1>3. CASE OtherStep
  <2>1. generation' = generation
    BY <1>3, OtherStepKeeps
  <2>2. boss[r] # "make"
    BY <1>1 DEF Past, NotStarted
  <2>3. one'[r][w] = one[r][w]
    BY <1>3, <2>2, OtherStepKeeps DEF TypeOK
  <2> QED BY <2>1, <2>3 DEF Past
<1> QED BY <1>2, <1>3 DEF Next, OtherStep

(* What a fleet has registered is past (handler.py:32-61).                    *)
LEMMA RegisteredStep ==
  ASSUME IndInv, Next
  PROVE  RegisteredArePast'
<1> USE DEF IndInv
<1>1. SUFFICES ASSUME NEW s \in Runs, NEW x \in registered'[s]
               PROVE  \E w \in WorkerIds : \E g \in 0 .. (MaxGenerations - 1) :
                        x[1] = task_id(w, g) /\ Past(x[2], w, g)'
  BY DEF RegisteredArePast, task_id
<1>2. CASE x \in registered[s]
  <2>1. x[2] \in Runs
    BY <1>2 DEF TypeOK
  <2>2. PICK w \in WorkerIds, g \in 0 .. (MaxGenerations - 1) :
          x[1] = task_id(w, g) /\ Past(x[2], w, g)
    BY <1>2 DEF RegisteredArePast
  <2>3. Past(x[2], w, g)'
    BY <2>1, <2>2, PastStays
  <2> QED BY <2>2, <2>3
<1>3. CASE x \notin registered[s]
  <2>1. ~OtherStep
    BY <1>1, <1>3, OtherStepKeeps
  <2>2. PICK r \in Runs, w \in WorkerIds : MaintainOne(r, w)
    BY <2>1 DEF Next, OtherStep
  <2>3. registered \in [Runs -> SUBSET (TaskIds \X Runs)]
    BY DEF TypeOK
  <2>4. /\ one[r][w] = "launched" /\ one'[r][w] = "working"
        /\ generation'[r][w] = generation[r][w]
        /\ x = <<Id(r, w), r>>
    BY <1>1, <1>3, <2>2, <2>3, OneStepEffect
  <2>5. PICK g \in 0 .. (MaxGenerations - 1) : g = generation[r][w]
    BY <2>4 DEF Launching, TypeOK
  <2>6. x[1] = task_id(w, g) /\ Past(x[2], w, g)'
    BY <2>4, <2>5 DEF Id, Past
  <2> QED BY <2>6
<1> QED BY <1>2, <1>3

THEOREM IndInvHolds == Spec => []IndInv
<1>1. Init => IndInv
  <2>1. SUFFICES ASSUME Init PROVE IndInv
    OBVIOUS
  <2>2. /\ one \in [Runs -> [WorkerIds -> OnePcs]]
        /\ generation \in [Runs -> [WorkerIds -> 0 .. MaxGenerations]]
        /\ retries \in [Runs -> [WorkerIds -> 0 .. MaxRetries]]
    BY <2>1 DEF Init, OnePcs
  <2>3. TypeOK
    <3>1. function \in [Runs -> BOOLEAN] /\ stop_event \in BOOLEAN
      BY <2>1 DEF Init
    <3>2. registered \in [Runs -> SUBSET (TaskIds \X Runs)]
      BY <2>1 DEF Init
    <3>3. /\ user \in {"idle", "clear", "running", "stopError", "stopPs", "raised"}
          /\ runs \in 0 .. MaxRuns
          /\ ps \in [Runs -> {"none", "starting", "up", "dead"}]
          /\ errorTask \in [Runs -> {"none", "up", "dead"}]
          /\ boss \in [Runs -> {"none", "wait", "make", "done", "raised"}]
          /\ cleanUp \in [Runs -> {"none", "start", "wait", "delete", "done", "raised"}]
      BY <2>1 DEF Init
    <3> QED BY <2>2, <3>1, <3>2, <3>3 DEF TypeOK
  <2>4. Launching /\ NotStarted /\ RegisteredArePast
    BY <2>1 DEF Init, Launching, NotStarted, RegisteredArePast
  <2> QED BY <2>3, <2>4 DEF IndInv
<1>2. IndInv /\ [Next]_vars => IndInv'
  <2>1. SUFFICES ASSUME IndInv, [Next]_vars PROVE IndInv'
    OBVIOUS
  <2>2. CASE Next
    <3>1. TypeOK'
      BY <2>1, <2>2, OneStepType, OtherStepType DEF Next, OtherStep, IndInv
    <3> QED
      BY <2>1, <2>2, <3>1, LaunchingStep, NotStartedStep, RegisteredStep DEF IndInv
  <2>3. CASE UNCHANGED vars
    BY <2>1, <2>3 DEF vars, userVars, oneVars, IndInv, TypeOK, Launching, NotStarted,
           RegisteredArePast, Past
  <2> QED BY <2>1, <2>2, <2>3
<1> QED BY <1>1, <1>2, PTL DEF Spec

-----------------------------------------------------------------------------
(* The variables keep their types; in particular the generation never exceeds *)
(* MAX_LAMBDA_GENERATIONS (automate.py:664), which keeps task ids apart.      *)
THEOREM ExperimentTypes == Spec => []TypeOK
BY IndInvHolds, PTL DEF IndInv

(* A fleet never launches a Lambda under an id that it has registered before, *)
(* whatever the throttling, exceptions, crashes and kills (automate.py:661).  *)
THEOREM IdsAreFresh == Spec => FreshIds
<1> DEFINE Fresh == \A r \in Runs : \A w \in WorkerIds :
             one[r][w] = "invoke" /\ one'[r][w] = "launched" =>
               \A s \in Runs : <<Id(r, w), r>> \notin registered[s]
<1>1. IndInv => Fresh
  <2>1. SUFFICES ASSUME IndInv, NEW r \in Runs, NEW w \in WorkerIds,
                        one[r][w] = "invoke", NEW s \in Runs,
                        <<Id(r, w), r>> \in registered[s]
                 PROVE  FALSE
    OBVIOUS
  <2>2. PICK v \in WorkerIds, g \in 0 .. (MaxGenerations - 1) :
          task_id(w, generation[r][w]) = task_id(v, g) /\ Past(r, v, g)
    BY <2>1 DEF IndInv, RegisteredArePast, Id
  <2>3. generation[r][w] \in 0 .. (MaxGenerations - 1)
    BY <2>1 DEF IndInv, Launching, TypeOK
  <2>4. w = v /\ generation[r][w] = g
    BY <2>2, <2>3, WorkerIdsNat, TaskIdsDistinct
  <2> QED BY <2>1, <2>2, <2>3, <2>4 DEF Past
<1>2. IndInv /\ [Next]_vars => [Fresh]_vars
  BY <1>1
<1> QED BY <1>2, IndInvHolds, PTL DEF Spec, FreshIds
=============================================================================
