------------------------- MODULE TaskRegistryProofs -------------------------
(* For any tasks, any number of invocations of each and any lifetimes: one    *)
(* worker per task, no worker given up because of its age, and a registry     *)
(* that implements TaskLifecycle.                                             *)
EXTENDS TaskRegistry, FiniteSetTheorems, TLAPS

RegistryInv == TypeOK /\ Protocol /\ ClocksAgree /\ StillActive

-----------------------------------------------------------------------------
(* Types.                                                                     *)

LEMMA InitInv == Init => RegistryInv
<1> SUFFICES ASSUME Init PROVE RegistryInv
  OBVIOUS
<1> USE TasksAssumption, TaskOfAssumption, MaxLifeAssumption,
        ThresholdAssumption, ModulusAssumption
    DEF Init, NoVerdict
<1>1. TypeOK
  <2>1. psUp \in BOOLEAN
    BY Zenon
  <2>2. age \in [Tasks -> 0 .. MaxAge] /\ num_tasks \in 0 .. (Modulus - 1)
    BY DEF MaxAge
  <2>3. task_to_remaining_time \in [Tasks -> -1 .. MaxLife]
    OBVIOUS
  <2>4. left \in [Invocations -> 0 .. MaxLife] /\ secs \in [Invocations -> 0 .. MaxLife]
    OBVIOUS
  <2>5. /\ pc \in [Invocations -> Pcs]
        /\ verdict \in [Invocations -> {0, 1, NoVerdict}]
        /\ regMsg \in [Invocations -> {"none", "sent", "lost", "locked", "count", "done"}]
    BY DEF Pcs
  <2>6. deregMsg \in [Invocations -> [Attempts -> {"none", "sent", "lost", "done"}]]
    OBVIOUS
  <2> QED
    BY <2>1, <2>2, <2>3, <2>4, <2>5, <2>6 DEF TypeOK
<1>2. Protocol
  BY DEF Protocol, Granted, Working, Attempts
<1>3. ClocksAgree /\ StillActive
  BY DEF ClocksAgree, StillActive, Live, Granted
<1> QED
  BY <1>1, <1>2, <1>3 DEF RegistryInv

(* num_tasks stays a uint32_t. *)
LEMMA CountedType ==
  ASSUME TypeOK, NEW is \in SUBSET Invocations, NEW deaths \in Nat,
         Counted(is, deaths)
  PROVE  /\ num_tasks' \in 0 .. (Modulus - 1)
         /\ regMsg' \in [Invocations -> {"none", "sent", "lost", "locked", "count", "done"}]
         /\ \A i \in Invocations : regMsg'[i] = regMsg[i]
                                   \/ (regMsg[i] = "count" /\ regMsg'[i] = "done")
<1>1. Cardinality(is) \in Nat
  BY TaskOfAssumption, FS_Subset, FS_CardinalityType
<1>2. PICK d \in Int : num_tasks' = (num_tasks + d) % Modulus
  BY <1>1 DEF Counted
<1>3. num_tasks' \in 0 .. (Modulus - 1)
  BY <1>2, ModulusAssumption DEF TypeOK
<1> QED
  BY <1>3 DEF Counted, TypeOK

LEMMA DeadType ==
  ASSUME TypeOK, NEW ts \in SUBSET Tasks, declare_task_dead(ts)
  PROVE  /\ num_tasks' \in 0 .. (Modulus - 1)
         /\ regMsg' \in [Invocations -> {"none", "sent", "lost", "locked", "count", "done"}]
         /\ \A i \in Invocations : regMsg'[i] = regMsg[i]
                                   \/ (regMsg[i] = "count" /\ regMsg'[i] = "done")
         /\ task_to_remaining_time' \in [Tasks -> -1 .. MaxLife]
         /\ \A t \in Tasks \ ts : task_to_remaining_time'[t] = task_to_remaining_time[t]
         /\ task_to_starttime' = task_to_starttime \ ts
         /\ UNCHANGED <<registered_tasks, age>>
<1>1. Cardinality(ts) \in Nat
  BY TasksAssumption, FS_Subset, FS_CardinalityType
<1>2. PICK is \in SUBSET Invocations : Counted(is, Cardinality(ts))
  BY DEF declare_task_dead
<1>3. /\ num_tasks' \in 0 .. (Modulus - 1)
      /\ regMsg' \in [Invocations -> {"none", "sent", "lost", "locked", "count", "done"}]
      /\ \A i \in Invocations : regMsg'[i] = regMsg[i]
                                \/ (regMsg[i] = "count" /\ regMsg'[i] = "done")
  BY <1>1, <1>2, CountedType
<1> QED
  BY <1>3, MaxLifeAssumption DEF declare_task_dead, TypeOK

DeregStates == {"none", "sent", "lost", "done"}

(* Setting one deregister request leaves every other one alone. *)
LEMMA SetDereg ==
  ASSUME NEW f \in [Invocations -> [Attempts -> DeregStates]],
         NEW i \in Invocations, NEW a \in Attempts, NEW v \in DeregStates
  PROVE  /\ [f EXCEPT ![i][a] = v] \in [Invocations -> [Attempts -> DeregStates]]
         /\ [f EXCEPT ![i][a] = v][i][a] = v
         /\ \A j \in Invocations : \A b \in Attempts :
              j # i \/ b # a => [f EXCEPT ![i][a] = v][j][b] = f[j][b]
<1> DEFINE g == [f[i] EXCEPT ![a] = v]
           h == [f EXCEPT ![i] = g]
<1>1. [f EXCEPT ![i][a] = v] = h
  OBVIOUS
<1>2. g \in [Attempts -> DeregStates]
  OBVIOUS
<1>3. h \in [Invocations -> [Attempts -> DeregStates]]
  BY <1>2
<1>4. h[i] = g /\ \A j \in Invocations : j # i => h[j] = f[j]
  BY <1>2
<1>5. g[a] = v /\ \A b \in Attempts : b # a => g[b] = f[i][b]
  OBVIOUS
<1> HIDE DEF g, h
<1> QED
  BY <1>1, <1>3, <1>4, <1>5

(* The two outcomes of process_register_task. *)
Admitted(i) ==
  /\ TaskOf[i] \notin registered_tasks
  /\ verdict' = [verdict EXCEPT ![i] = 0]
  /\ registered_tasks' = registered_tasks \union {TaskOf[i]}
  /\ task_to_starttime' = task_to_starttime \union {TaskOf[i]}
  /\ task_to_remaining_time' = [task_to_remaining_time EXCEPT ![TaskOf[i]] = secs[i]]
  /\ age' = [age EXCEPT ![TaskOf[i]] = 0]

Refused(i) ==
  /\ TaskOf[i] \in registered_tasks
  /\ verdict' = [verdict EXCEPT ![i] = 1]
  /\ UNCHANGED psVars

LEMMA RegisterEffect ==
  ASSUME NEW i \in Invocations, process_register_task(i)
  PROVE  /\ regMsg[i] = "sent" /\ regMsg' = [regMsg EXCEPT ![i] = "locked"]
         /\ UNCHANGED <<psUp, num_tasks, lambdaVars, secs, deregMsg>>
         /\ Admitted(i) \/ Refused(i)
<1>1. CASE TaskOf[i] \in registered_tasks
  BY <1>1 DEF process_register_task, Refused
<1>2. CASE TaskOf[i] \notin registered_tasks
  BY <1>2 DEF process_register_task, Admitted
<1> QED
  BY <1>1, <1>2

LEMMA TypeStep ==
  ASSUME TypeOK, [Next]_vars
  PROVE  TypeOK'
<1> USE TasksAssumption, TaskOfAssumption, MaxLifeAssumption
<1>1. CASE Tick
  <2>1. left' \in [Invocations -> 0 .. MaxLife]
    BY <1>1 DEF Tick, TypeOK
  <2>2. age' \in [Tasks -> 0 .. MaxAge]
    <3>1. ASSUME NEW t \in Tasks, t \in task_to_starttime, ~Expired(t)
          PROVE  age[t] + 1 \in 0 .. MaxAge
      BY <3>1, ThresholdAssumption DEF Expired, TypeOK, MaxAge
    <3>2. age \in [Tasks -> 0 .. MaxAge]
      BY DEF TypeOK
    <3> QED
      BY <1>1, <3>1, <3>2 DEF Tick
  <2> QED
    BY <1>1, <2>1, <2>2 DEF Tick, TypeOK
<1>2. ASSUME NEW i \in Invocations, Handler(i) PROVE TypeOK'
  <2>1. CASE Invoke(i)
    BY <2>1 DEF Invoke, Goto, TypeOK, Pcs, psVars
  <2>2. CASE SendRegister(i)
    BY <2>2 DEF SendRegister, Goto, TypeOK, Pcs, psVars
  <2>3. CASE RecvVerdict(i)
    BY <2>3 DEF RecvVerdict, Goto, TypeOK, Pcs, psVars
  <2>4. CASE Raise(i)
    BY <2>4 DEF Raise, Goto, TypeOK, Pcs, psVars
  <2>5. CASE WorkerExits(i)
    BY <2>5 DEF WorkerExits, Goto, TypeOK, Pcs, psVars
  <2>6. CASE SendDeregister(i)
    <3>1. PICK a \in Attempts : deregMsg' = [deregMsg EXCEPT ![i][a] = "sent"]
      BY <2>6 DEF SendDeregister, Attempts
    <3>2. deregMsg' \in [Invocations -> [Attempts -> DeregStates]]
      BY <3>1, SetDereg DEF TypeOK, DeregStates
    <3>3. pc' \in [Invocations -> Pcs]
      BY <2>6 DEF SendDeregister, Goto, TypeOK, Pcs
    <3> QED
      BY <2>6, <3>2, <3>3 DEF SendDeregister, TypeOK, DeregStates, psVars
  <2>7. CASE DeregisterReturns(i)
    BY <2>7 DEF DeregisterReturns, Goto, TypeOK, Pcs, psVars
  <2>8. CASE HandlerFails(i)
    BY <2>8 DEF HandlerFails, Goto, TypeOK, Pcs, psVars
  <2>9. CASE Kill(i)
    BY <2>9 DEF Kill, Goto, TypeOK, Pcs, psVars
  <2>10. CASE LoseRequest(i)
    <3>1. CASE UNCHANGED deregMsg
      BY <2>10, <3>1 DEF LoseRequest, TypeOK, psVars, lambdaVars
    <3>2. CASE UNCHANGED regMsg
      <4>1. deregMsg' = deregMsg \/ \E a \in Attempts :
              deregMsg' = [deregMsg EXCEPT ![i][a] = "lost"]
        BY <2>10 DEF LoseRequest
      <4>2. deregMsg' \in [Invocations -> [Attempts -> DeregStates]]
        <5>1. CASE deregMsg' = deregMsg
          BY <5>1 DEF TypeOK, DeregStates
        <5>2. CASE \E a \in Attempts : deregMsg' = [deregMsg EXCEPT ![i][a] = "lost"]
          BY <5>2, SetDereg DEF TypeOK, DeregStates
        <5> QED
          BY <4>1, <5>1, <5>2
      <4> QED
        BY <2>10, <3>2, <4>2 DEF LoseRequest, TypeOK, DeregStates, psVars, lambdaVars
    <3> QED
      BY <2>10, <3>1, <3>2 DEF LoseRequest
  <2> QED
    BY <1>2, <2>1, <2>2, <2>3, <2>4, <2>5, <2>6, <2>7, <2>8, <2>9, <2>10
    DEF Handler
<1>3. ASSUME NEW i \in Invocations, process_register_task(i) PROVE TypeOK'
  <2>1. CASE Admitted(i)
    <3>1. /\ age' \in [Tasks -> 0 .. MaxAge]
          /\ task_to_remaining_time' \in [Tasks -> -1 .. MaxLife]
      BY <2>1, ThresholdAssumption DEF Admitted, TypeOK, MaxAge
    <3>2. registered_tasks' \subseteq Tasks /\ task_to_starttime' \subseteq Tasks
      BY <2>1 DEF Admitted, TypeOK
    <3>3. /\ verdict' \in [Invocations -> {0, 1, NoVerdict}]
          /\ regMsg' \in [Invocations -> {"none", "sent", "lost", "locked", "count", "done"}]
      BY <1>3, <2>1, RegisterEffect DEF Admitted, TypeOK
    <3> QED
      BY <1>3, <3>1, <3>2, <3>3, RegisterEffect DEF TypeOK, lambdaVars
  <2>2. CASE Refused(i)
    BY <1>3, <2>2, RegisterEffect DEF Refused, TypeOK, lambdaVars, psVars
  <2> QED
    BY <1>3, <2>1, <2>2, RegisterEffect
<1>4. ASSUME NEW i \in Invocations, SendVerdict(i) PROVE TypeOK'
  BY <1>4 DEF SendVerdict, TypeOK, psVars, lambdaVars
<1>5. ASSUME NEW i \in Invocations, NEW a \in Attempts,
             process_deregister_task(i, a)
      PROVE  TypeOK'
  <2> DEFINE ts == {TaskOf[i]} \intersect task_to_starttime
  <2>1. ts \in SUBSET Tasks /\ declare_task_dead(ts)
    BY <1>5 DEF process_deregister_task, TypeOK
  <2> HIDE DEF ts
  <2> QED
    BY <1>5, <2>1, DeadType DEF process_deregister_task, TypeOK, lambdaVars
<1>6. CASE CountTask
  <2>1. PICK is \in SUBSET Invocations : Counted(is, 0)
    BY <1>6 DEF CountTask
  <2> QED
    BY <1>6, <2>1, CountedType DEF CountTask, TypeOK, psVars, lambdaVars
<1>7. CASE check_tasks_lifetime
  <2>1. PICK dead \in SUBSET Tasks : declare_task_dead(dead)
    BY <1>7 DEF check_tasks_lifetime
  <2> QED
    BY <1>7, <2>1, DeadType DEF check_tasks_lifetime, TypeOK, lambdaVars
<1>8. CASE UNCHANGED vars
  BY <1>8 DEF vars, TypeOK, psVars, lambdaVars
<1> QED
  BY <1>1, <1>2, <1>3, <1>4, <1>5, <1>6, <1>7, <1>8 DEF Next, Server

-----------------------------------------------------------------------------
(* The handlers that only move on. *)
Moves(i) ==
  \/ RecvVerdict(i) \/ Raise(i) \/ WorkerExits(i) \/ DeregisterReturns(i)
  \/ HandlerFails(i) \/ Kill(i)

LEMMA MovesEffect ==
  ASSUME TypeOK, NEW i \in Invocations, Moves(i)
  PROVE  /\ UNCHANGED <<psUp, psVars, num_tasks, left, regMsg, secs, verdict, deregMsg>>
         /\ pc[i] \notin {"idle"} /\ pc'[i] \notin {"idle", "connect", "await"}
         /\ pc'[i] = "work" => pc[i] = "await" /\ Granted(i)
         /\ Working(i)' => Working(i) \/ (pc[i] = "await" /\ Granted(i))
         /\ Live(i)' => Live(i)
         /\ pc'[i] = "dereg" => pc[i] = "work"
         /\ pc'[i] \notin {"awaitRaise", "failed", "killed"} =>
              pc[i] \notin {"awaitRaise", "failed", "killed"}
         /\ \A j \in Invocations : j # i => pc'[j] = pc[j]
BY DEF Moves, RecvVerdict, Raise, WorkerExits, DeregisterReturns, HandlerFails,
       Kill, Goto, TypeOK, Granted, Working, Live

LEMMA DeregEffect ==
  ASSUME TypeOK, NEW i \in Invocations, NEW a \in Attempts, process_deregister_task(i, a)
  PROVE  \E ts \in SUBSET Tasks :
           /\ ts \subseteq {TaskOf[i]}
           /\ declare_task_dead(ts)
<1> DEFINE ts == {TaskOf[i]} \intersect task_to_starttime
<1>1. ts \in SUBSET Tasks /\ ts \subseteq {TaskOf[i]} /\ declare_task_dead(ts)
  BY DEF process_deregister_task, TypeOK
<1> QED
  BY <1>1

LEMMA SetDeregMsg ==
  ASSUME TypeOK, NEW i \in Invocations, NEW a \in Attempts, NEW v \in DeregStates,
         deregMsg' = [deregMsg EXCEPT ![i][a] = v]
  PROVE  /\ deregMsg'[i][a] = v
         /\ \A j \in Invocations : \A b \in Attempts :
              j # i \/ b # a => deregMsg'[j][b] = deregMsg[j][b]
BY SetDereg DEF TypeOK, DeregStates

LEMMA ProtocolStep ==
  ASSUME TypeOK, TypeOK', Protocol, [Next]_vars
  PROVE  Protocol'
<1> USE TasksAssumption, TaskOfAssumption
<1>1. ASSUME NEW i \in Invocations, Handler(i) PROVE Protocol'
  <2>1. CASE Invoke(i)
    BY <2>1 DEF Invoke, Goto, TypeOK, psVars, Protocol, Granted, Working
  <2>2. CASE SendRegister(i)
    BY <2>2 DEF SendRegister, Goto, TypeOK, psVars, Protocol, Granted, Working
  <2>3. CASE Moves(i)
    BY <2>3, MovesEffect DEF TypeOK, psVars, Protocol, Granted, Working
  <2>4. CASE SendDeregister(i)
    <3>1. PICK a \in Attempts :
            /\ deregMsg' = [deregMsg EXCEPT ![i][a] = "sent"]
            /\ pc[i] = (IF a = "run" THEN "dereg" ELSE "raise")
      BY <2>4 DEF SendDeregister, Attempts
    <3>2. /\ deregMsg'[i][a] = "sent"
          /\ \A j \in Invocations : \A b \in Attempts :
               j # i \/ b # a => deregMsg'[j][b] = deregMsg[j][b]
      BY <3>1, SetDeregMsg DEF DeregStates
    <3>3. /\ pc'[i] = (IF a = "run" THEN "awaitDereg" ELSE "awaitRaise")
          /\ \A j \in Invocations : j # i => pc'[j] = pc[j]
      BY <2>4, <3>1 DEF SendDeregister, Goto, TypeOK
    <3>4. UNCHANGED <<psVars, regMsg, verdict>>
      BY <2>4 DEF SendDeregister
    <3> QED
      BY <3>1, <3>2, <3>3, <3>4 DEF Protocol, Granted, Working, psVars, Attempts
  <2>5. CASE LoseRequest(i)
    <3>1. UNCHANGED <<psVars, pc, verdict>>
      BY <2>5 DEF LoseRequest, lambdaVars
    <3>2. CASE UNCHANGED deregMsg
      BY <2>5, <3>1, <3>2 DEF LoseRequest, TypeOK, Protocol, Granted, Working, psVars
    <3>3. CASE deregMsg' # deregMsg
      <4>1. PICK a \in Attempts :
              deregMsg[i][a] = "sent" /\ deregMsg' = [deregMsg EXCEPT ![i][a] = "lost"]
        BY <2>5, <3>3 DEF LoseRequest
      <4>2. /\ deregMsg'[i][a] = "lost"
            /\ \A j \in Invocations : \A b \in Attempts :
                 j # i \/ b # a => deregMsg'[j][b] = deregMsg[j][b]
        BY <4>1, SetDeregMsg DEF DeregStates
      <4>3. UNCHANGED regMsg
        BY <2>5, <3>3 DEF LoseRequest
      <4> QED
        BY <3>1, <4>1, <4>2, <4>3 DEF Protocol, Granted, Working, psVars, Attempts
    <3> QED
      BY <3>2, <3>3
  <2> QED
    BY <1>1, <2>1, <2>2, <2>3, <2>4, <2>5 DEF Handler, Moves
<1>2. ASSUME NEW i \in Invocations, process_register_task(i) PROVE Protocol'
  <2>1. CASE Admitted(i)
    <3>1. /\ verdict'[i] = 0 /\ regMsg'[i] = "locked"
          /\ \A j \in Invocations \ {i} : verdict'[j] = verdict[j] /\ regMsg'[j] = regMsg[j]
          /\ UNCHANGED <<pc, deregMsg>>
      <4>1. /\ verdict' = [verdict EXCEPT ![i] = 0]
            /\ regMsg' = [regMsg EXCEPT ![i] = "locked"]
        BY <1>2, <2>1, RegisterEffect DEF Admitted
      <4>2. UNCHANGED <<pc, deregMsg>>
        BY <1>2, RegisterEffect DEF lambdaVars
      <4> QED
        BY <4>1, <4>2 DEF TypeOK
    <3>2. /\ task_to_starttime' \subseteq registered_tasks'
          /\ TaskOf[i] \in registered_tasks' /\ registered_tasks \subseteq registered_tasks'
      BY <2>1 DEF Admitted, Protocol
    <3>3. \A j \in Invocations : Granted(j)' /\ j # i => TaskOf[j] # TaskOf[i]
      BY <2>1, <3>1 DEF Admitted, Protocol, Granted
    <3>4. \A j \in Invocations : Granted(j)' => TaskOf[j] \in registered_tasks'
      BY <3>1, <3>2 DEF Protocol, Granted
    <3>5. \A j, k \in Invocations :
            Granted(j)' /\ Granted(k)' /\ TaskOf[j] = TaskOf[k] => j = k
      BY <3>1, <3>3 DEF Protocol, Granted
    <3>6. /\ regMsg[i] = "sent" /\ verdict[i] = NoVerdict
      BY <1>2, RegisterEffect DEF Protocol
    <3> QED
      BY <3>1, <3>2, <3>4, <3>5, <3>6 DEF Protocol, Granted, Working
  <2>2. CASE Refused(i)
    BY <1>2, <2>2, RegisterEffect
    DEF Refused, TypeOK, lambdaVars, psVars, Protocol, Granted, Working, NoVerdict
  <2> QED
    BY <1>2, <2>1, <2>2, RegisterEffect
<1>3. ASSUME NEW i \in Invocations, SendVerdict(i) PROVE Protocol'
  BY <1>3 DEF SendVerdict, TypeOK, psVars, lambdaVars, Protocol, Granted, Working
<1>4. ASSUME NEW i \in Invocations, NEW a \in Attempts,
             process_deregister_task(i, a)
      PROVE  Protocol'
  <2>1. PICK ts \in SUBSET Tasks : declare_task_dead(ts)
    BY <1>4, DeregEffect
  <2>2. /\ deregMsg[i][a] = "sent" /\ deregMsg'[i][a] = "done"
        /\ \A j \in Invocations : \A b \in Attempts :
             j # i \/ b # a => deregMsg'[j][b] = deregMsg[j][b]
    BY <1>4, SetDeregMsg DEF process_deregister_task, DeregStates
  <2>3. UNCHANGED <<pc, verdict>>
    BY <1>4 DEF process_deregister_task, lambdaVars
  <2>4. /\ registered_tasks' = registered_tasks
        /\ task_to_starttime' \subseteq task_to_starttime
        /\ \A j \in Invocations : regMsg'[j] = regMsg[j]
                                  \/ (regMsg[j] = "count" /\ regMsg'[j] = "done")
    BY <2>1, DeadType
  <2> QED
    BY <2>2, <2>3, <2>4 DEF Protocol, Granted, Working, Attempts
<1>5. CASE CountTask
  <2>1. PICK is \in SUBSET Invocations : Counted(is, 0)
    BY <1>5 DEF CountTask
  <2> QED
    BY <1>5, <2>1, CountedType
    DEF CountTask, TypeOK, psVars, lambdaVars, Protocol, Granted, Working
<1>6. CASE check_tasks_lifetime
  <2>1. PICK dead \in SUBSET Tasks : declare_task_dead(dead)
    BY <1>6 DEF check_tasks_lifetime
  <2> QED
    BY <1>6, <2>1, DeadType
    DEF check_tasks_lifetime, TypeOK, lambdaVars, Protocol, Granted, Working
<1>7. CASE Tick \/ UNCHANGED vars
  BY <1>7 DEF Tick, vars, psVars, lambdaVars, Protocol, Granted, Working
<1> QED
  BY <1>1, <1>2, <1>3, <1>4, <1>5, <1>6, <1>7 DEF Next, Server

-----------------------------------------------------------------------------
(* Clocks.                                                                    *)

LEMMA ClocksStep ==
  ASSUME TypeOK, TypeOK', Protocol, ClocksAgree, [Next]_vars
  PROVE  ClocksAgree'
<1> USE TasksAssumption, TaskOfAssumption, MaxLifeAssumption
<1>1. ASSUME NEW i \in Invocations, Handler(i) PROVE ClocksAgree'
  <2>1. CASE Invoke(i)
    BY <2>1 DEF Invoke, Goto, TypeOK, psVars, Protocol, ClocksAgree, Granted, Live, NoVerdict
  <2>2. CASE SendRegister(i)
    BY <2>2 DEF SendRegister, Goto, TypeOK, psVars, Protocol, ClocksAgree, Granted, Live, NoVerdict
  <2>3. CASE Moves(i)
    BY <2>3, MovesEffect DEF TypeOK, psVars, ClocksAgree, Granted, Live
  <2>4. CASE SendDeregister(i)
    BY <2>4 DEF SendDeregister, Goto, TypeOK, psVars, ClocksAgree, Granted, Live
  <2>5. CASE LoseRequest(i)
    <3>1. \A j \in Invocations : regMsg'[j] = "sent" => regMsg[j] = "sent"
      BY <2>5 DEF LoseRequest, TypeOK
    <3>2. UNCHANGED <<psVars, pc, left, secs, verdict>>
      BY <2>5 DEF LoseRequest, lambdaVars
    <3> QED
      BY <3>1, <3>2 DEF psVars, ClocksAgree, Granted, Live
  <2> QED
    BY <1>1, <2>1, <2>2, <2>3, <2>4, <2>5 DEF Handler, Moves
<1>2. ASSUME NEW i \in Invocations, process_register_task(i) PROVE ClocksAgree'
  <2>1. /\ regMsg[i] = "sent" /\ UNCHANGED <<pc, left, secs>>
        /\ \A j \in Invocations : regMsg'[j] = "sent" => regMsg[j] = "sent"
    BY <1>2, RegisterEffect DEF lambdaVars, TypeOK
  <2>2. CASE Admitted(i)
    <3>1. /\ task_to_remaining_time'[TaskOf[i]] = secs[i] /\ age'[TaskOf[i]] = 0
          /\ \A t \in Tasks \ {TaskOf[i]} :
               /\ task_to_remaining_time'[t] = task_to_remaining_time[t]
               /\ age'[t] = age[t]
               /\ t \in task_to_starttime' => t \in task_to_starttime
      BY <2>2 DEF Admitted, TypeOK
    <3>2. \A j \in Invocations \ {i} :
            Granted(j)' => Granted(j) /\ TaskOf[j] # TaskOf[i]
      BY <2>2 DEF Admitted, TypeOK, Protocol, Granted
    <3>3. left[i] \in Int /\ secs[i] \in Int
      BY DEF TypeOK
    <3>4. Live(i) => left[i] <= secs[i] + 1 /\ age'[TaskOf[i]] + left[i] <= secs[i] + 1
      BY <2>1, <3>1, <3>3 DEF ClocksAgree
    <3> QED
      BY <2>1, <3>1, <3>2, <3>4 DEF ClocksAgree, Live
  <2>3. CASE Refused(i)
    <3>1. \A j \in Invocations : Granted(j)' => Granted(j)
      BY <2>3 DEF Refused, TypeOK, Granted
    <3> QED
      BY <2>1, <2>3, <3>1 DEF Refused, ClocksAgree, Live, psVars
  <2> QED
    BY <1>2, <2>2, <2>3, RegisterEffect
<1>3. ASSUME NEW i \in Invocations, SendVerdict(i) PROVE ClocksAgree'
  BY <1>3 DEF SendVerdict, TypeOK, psVars, lambdaVars, ClocksAgree, Granted, Live
<1>4. ASSUME NEW ts \in SUBSET Tasks, declare_task_dead(ts),
             UNCHANGED <<lambdaVars, secs, verdict>>
      PROVE  ClocksAgree'
  <2>1. /\ \A j \in Invocations : regMsg'[j] = "sent" => regMsg[j] = "sent"
        /\ \A t \in Tasks : t \in task_to_starttime' =>
             /\ t \in task_to_starttime /\ age'[t] = age[t]
             /\ task_to_remaining_time'[t] = task_to_remaining_time[t]
    BY <1>4, DeadType
  <2> QED
    BY <1>4, <2>1 DEF lambdaVars, ClocksAgree, Granted, Live
<1>5. ASSUME NEW i \in Invocations, NEW a \in Attempts,
             process_deregister_task(i, a)
      PROVE  ClocksAgree'
  BY <1>4, <1>5, DeregEffect DEF process_deregister_task
<1>6. CASE check_tasks_lifetime
  BY <1>4, <1>6 DEF check_tasks_lifetime
<1>7. CASE CountTask
  <2>1. PICK is \in SUBSET Invocations : Counted(is, 0)
    BY <1>7 DEF CountTask
  <2>2. \A j \in Invocations : regMsg'[j] = "sent" => regMsg[j] = "sent"
    BY <2>1, CountedType
  <2> QED
    BY <1>7, <2>2 DEF CountTask, psVars, lambdaVars, ClocksAgree, Granted, Live
<1>8. CASE Tick
  <2>1. /\ UNCHANGED <<task_to_starttime, task_to_remaining_time, pc, regMsg, secs, verdict>>
        /\ \A j \in Invocations : Live(j) => left'[j] = left[j] - 1
        /\ \A t \in Tasks : age'[t] <= age[t] + 1
    BY <1>8 DEF Tick, TypeOK
  <2>2. /\ \A j \in Invocations : left[j] \in Int /\ secs[j] \in Int
        /\ \A t \in Tasks : age[t] \in Int /\ age'[t] \in Int
    BY DEF TypeOK
  <2> SUFFICES ASSUME NEW i \in Invocations, Live(i)'
               PROVE  /\ regMsg'[i] = "sent" => left'[i] <= secs'[i] + 1
                      /\ Granted(i)' /\ TaskOf[i] \in task_to_starttime' =>
                           /\ task_to_remaining_time'[TaskOf[i]] = secs'[i]
                           /\ age'[TaskOf[i]] + left'[i] <= secs'[i] + 1
    BY DEF ClocksAgree
  <2>3. Live(i) /\ left'[i] = left[i] - 1
    BY <2>1 DEF Live
  <2>4. /\ regMsg[i] = "sent" => left[i] <= secs[i] + 1
        /\ Granted(i) /\ TaskOf[i] \in task_to_starttime =>
             /\ task_to_remaining_time[TaskOf[i]] = secs[i]
             /\ age[TaskOf[i]] + left[i] <= secs[i] + 1
    BY <2>3 DEF ClocksAgree
  <2>5. left[i] \in Int /\ secs[i] \in Int /\ age[TaskOf[i]] \in Int
        /\ age'[TaskOf[i]] \in Int /\ age'[TaskOf[i]] <= age[TaskOf[i]] + 1
    BY <2>1, <2>2
  <2> QED
    BY <2>1, <2>3, <2>4, <2>5 DEF Granted
<1>9. CASE UNCHANGED vars
  BY <1>9 DEF vars, psVars, lambdaVars, ClocksAgree, Granted, Live
<1> QED
  BY <1>1, <1>2, <1>3, <1>5, <1>6, <1>7, <1>8, <1>9 DEF Next, Server

-----------------------------------------------------------------------------
(* A worker stays registered.                                                 *)

LEMMA StillActiveStep ==
  ASSUME TypeOK, TypeOK', Protocol, ClocksAgree, StillActive, [Next]_vars
  PROVE  StillActive'
<1> USE TasksAssumption, TaskOfAssumption
<1>1. ASSUME NEW i \in Invocations, Handler(i) PROVE StillActive'
  <2>1. CASE Invoke(i)
    BY <2>1 DEF Invoke, Goto, TypeOK, psVars, StillActive, Granted
  <2>2. CASE SendRegister(i)
    BY <2>2 DEF SendRegister, Goto, TypeOK, psVars, Protocol, StillActive, Granted, NoVerdict
  <2>3. CASE Moves(i)
    BY <2>3, MovesEffect DEF psVars, StillActive, Granted
  <2>4. CASE SendDeregister(i)
    <3>1. PICK a \in Attempts : deregMsg' = [deregMsg EXCEPT ![i][a] = "sent"]
      BY <2>4 DEF SendDeregister, Attempts
    <3>2. /\ \A j \in Invocations : j # i => deregMsg'[j]["except"] = deregMsg[j]["except"]
          /\ a = "run" => deregMsg'[i]["except"] = deregMsg[i]["except"]
      BY <3>1, SetDeregMsg DEF DeregStates, Attempts
    <3>3. deregMsg[i]["except"] = "none"
      BY <2>4 DEF SendDeregister, Protocol
    <3>4. /\ UNCHANGED <<psVars, verdict>>
          /\ pc'[i] \notin {"await", "work"}
          /\ \A j \in Invocations : j # i => pc'[j] = pc[j]
      BY <2>4 DEF SendDeregister, Goto, TypeOK
    <3> QED
      BY <3>2, <3>3, <3>4 DEF psVars, StillActive, Granted
  <2>5. CASE LoseRequest(i)
    <3>1. \A j \in Invocations :
            deregMsg[j]["except"] = "done" => deregMsg'[j]["except"] = "done"
      <4>1. CASE deregMsg' = deregMsg
        BY <4>1
      <4>2. CASE deregMsg' # deregMsg
        <5>1. PICK a \in Attempts :
                deregMsg[i][a] = "sent" /\ deregMsg' = [deregMsg EXCEPT ![i][a] = "lost"]
          BY <2>5, <4>2 DEF LoseRequest
        <5> QED
          BY <5>1, SetDeregMsg DEF DeregStates, Attempts
      <4> QED
        BY <4>1, <4>2
    <3>2. UNCHANGED <<psVars, pc, verdict>>
      BY <2>5 DEF LoseRequest, lambdaVars
    <3> QED
      BY <3>1, <3>2 DEF psVars, StillActive, Granted
  <2> QED
    BY <1>1, <2>1, <2>2, <2>3, <2>4, <2>5 DEF Handler, Moves
<1>2. ASSUME NEW i \in Invocations, process_register_task(i) PROVE StillActive'
  <2>1. UNCHANGED <<pc, deregMsg>>
    BY <1>2, RegisterEffect DEF lambdaVars
  <2>2. CASE Admitted(i)
    <3>1. /\ \A j \in Invocations : j # i /\ Granted(j)' => Granted(j)
          /\ task_to_starttime \subseteq task_to_starttime'
          /\ TaskOf[i] \in task_to_starttime'
      BY <2>2 DEF Admitted, TypeOK, Granted
    <3> QED
      BY <2>1, <3>1 DEF StillActive
  <2>3. CASE Refused(i)
    <3>1. \A j \in Invocations : Granted(j)' => Granted(j)
      BY <2>3 DEF Refused, TypeOK, Granted
    <3> QED
      BY <2>1, <2>3, <3>1 DEF Refused, StillActive, psVars
  <2> QED
    BY <1>2, <2>2, <2>3, RegisterEffect
<1>3. ASSUME NEW i \in Invocations, SendVerdict(i) PROVE StillActive'
  BY <1>3 DEF SendVerdict, psVars, lambdaVars, StillActive, Granted
<1>4. ASSUME NEW i \in Invocations, NEW a \in Attempts,
             process_deregister_task(i, a)
      PROVE  StillActive'
  <2>1. PICK ts \in SUBSET Tasks : ts \subseteq {TaskOf[i]} /\ declare_task_dead(ts)
    BY <1>4, DeregEffect
  <2>2. /\ deregMsg[i][a] = "sent" /\ deregMsg'[i][a] = "done"
        /\ \A j \in Invocations : \A b \in Attempts :
             j # i \/ b # a => deregMsg'[j][b] = deregMsg[j][b]
    BY <1>4, SetDeregMsg DEF process_deregister_task, DeregStates
  <2>3. UNCHANGED <<pc, verdict>>
    BY <1>4 DEF process_deregister_task, lambdaVars
  <2>4. \A t \in Tasks : t \in task_to_starttime /\ t # TaskOf[i] => t \in task_to_starttime'
    BY <2>1, DeadType
  <2>5. ASSUME NEW j \in Invocations, Granted(j), pc[j] \in {"await", "work"},
               TaskOf[j] = TaskOf[i]
        PROVE  i # j /\ a = "except"
    \* the run() of i deregisters only what was granted to i, and then i is past "work"
    BY <2>2, <2>5 DEF Protocol, Attempts
  <2>6. \A j \in Invocations :
          deregMsg[j]["except"] = "done" => deregMsg'[j]["except"] = "done"
    BY <2>2 DEF Attempts
  <2> SUFFICES ASSUME NEW j \in Invocations, Granted(j), pc[j] \in {"await", "work"}
               PROVE  \/ TaskOf[j] \in task_to_starttime'
                      \/ \E k \in Invocations :
                           k # j /\ TaskOf[k] = TaskOf[j] /\ deregMsg'[k]["except"] = "done"
    BY <2>3 DEF StillActive, Granted
  <2>7. CASE TaskOf[j] = TaskOf[i]
    BY <2>2, <2>5, <2>7
  <2>8. CASE TaskOf[j] # TaskOf[i]
    BY <2>4, <2>6, <2>8 DEF StillActive
  <2> QED
    BY <2>7, <2>8
<1>5. CASE check_tasks_lifetime
  <2>1. PICK dead \in SUBSET Tasks :
          declare_task_dead(dead) /\ \A t \in dead : Expired(t)
    BY <1>5 DEF check_tasks_lifetime
  <2>2. task_to_starttime' = task_to_starttime \ dead
    BY <2>1, DeadType
  <2>3. UNCHANGED <<pc, verdict, deregMsg>>
    BY <1>5 DEF check_tasks_lifetime, lambdaVars
  <2>4. ASSUME NEW i \in Invocations, Granted(i), pc[i] \in {"await", "work"}
        PROVE  TaskOf[i] \notin dead
    <3>1. SUFFICES ASSUME TaskOf[i] \in dead PROVE FALSE
      OBVIOUS
    <3> DEFINE t == TaskOf[i]
    <3>2. t \in task_to_starttime /\ age[t] > task_to_remaining_time[t] + Threshold
      BY <2>1, <3>1 DEF Expired
    <3>3. task_to_remaining_time[t] = secs[i] /\ age[t] + left[i] <= secs[i] + 1
      BY <2>4, <3>2 DEF ClocksAgree, Live
    <3>4. age[t] \in Int /\ left[i] \in Nat /\ secs[i] \in Int
      <4>1. t \in Tasks
        OBVIOUS
      <4>2. /\ age[t] \in 0 .. MaxAge
            /\ left[i] \in 0 .. MaxLife /\ secs[i] \in 0 .. MaxLife
        BY <4>1 DEF TypeOK
      <4> QED
        BY <4>2
    <3>5. Threshold \in Int /\ Threshold >= 1
      BY ThresholdAssumption
    <3> QED
      BY <3>2, <3>3, <3>4, <3>5
  <2> QED
    BY <2>2, <2>3, <2>4 DEF StillActive, Granted
<1>6. CASE CountTask \/ Tick \/ UNCHANGED vars
  BY <1>6 DEF CountTask, Tick, vars, psVars, lambdaVars, StillActive, Granted
<1> QED
  BY <1>1, <1>2, <1>3, <1>4, <1>5, <1>6 DEF Next, Server

-----------------------------------------------------------------------------
(* The theorems.                                                              *)

LEMMA RegistryInvHolds == Spec => []RegistryInv
<1>1. RegistryInv /\ [Next]_vars => RegistryInv'
  BY TypeStep, ProtocolStep, ClocksStep, StillActiveStep DEF RegistryInv
<1> QED
  BY <1>1, InitInv, PTL DEF Spec

(* Every variable keeps its type: num_tasks wraps as a uint32_t, a remaining  *)
(* time is -1 or what a Lambda announced (PSSparseServerTask.cpp:435-475).    *)
THEOREM RegistryTypeCorrect == Spec => []TypeOK
BY RegistryInvHolds, PTL DEF RegistryInv

(* One invocation at most of every task runs the worker (handler.py:135-151). *)
THEOREM OneWorker == Spec => []OneWorkerPerTask
<1>1. RegistryInv => OneWorkerPerTask
  BY DEF RegistryInv, Protocol, OneWorkerPerTask
<1> QED
  BY <1>1, RegistryInvHolds, PTL

(* The lifetime check (PSSparseServerTask.cpp:902-920) never declares a       *)
(* running worker dead: only a failed duplicate can deregister it.            *)
THEOREM RunningStaysActive == Spec => []RunningIsActive
<1>1. RegistryInv => RunningIsActive
  BY DEF RegistryInv, Protocol, StillActive, RunningIsActive, Working
<1> QED
  BY <1>1, RegistryInvHolds, PTL

(* The server's clock never runs ahead of the Lambda's.                       *)
THEOREM ClocksCorrect == Spec => []ClocksAgree
BY RegistryInvHolds, PTL DEF RegistryInv

(* The registry implements TaskLifecycle: ids are used once.                  *)
THEOREM LifecycleRefined == Spec => ImplementsLifecycle
<1>1. Init => L!LifecycleInit
  BY DEF Init, L!LifecycleInit, Status
<1>2. RegistryInv /\ [Next]_vars => [L!LifecycleNext]_Status
  <2> SUFFICES ASSUME RegistryInv, [Next]_vars PROVE [L!LifecycleNext]_Status
    OBVIOUS
  <2> USE TasksAssumption, TaskOfAssumption
  <2>1. TypeOK /\ task_to_starttime \subseteq registered_tasks
    BY DEF RegistryInv, Protocol
  <2>2. ASSUME UNCHANGED <<registered_tasks, task_to_starttime>>
        PROVE  Status' = Status
    BY <2>2 DEF Status
  <2>3. ASSUME NEW i \in Invocations, process_register_task(i)
        PROVE  [L!LifecycleNext]_Status
    <3>1. CASE Admitted(i)
      <4>1. TaskOf[i] \in Tasks /\ Status[TaskOf[i]] = "unknown"
        BY <3>1 DEF Admitted, Status
      <4>2. Status' = [Status EXCEPT ![TaskOf[i]] = "active"]
        BY <2>1, <3>1 DEF Admitted, Status
      <4> QED
        BY <4>1, <4>2 DEF L!LifecycleNext, L!Register
    <3>2. CASE Refused(i)
      BY <2>2, <3>2 DEF Refused, psVars
    <3> QED
      BY <2>3, <3>1, <3>2, RegisterEffect
  <2>4. ASSUME NEW ts \in SUBSET Tasks, ts \subseteq task_to_starttime,
               declare_task_dead(ts)
        PROVE  L!LifecycleNext
    <3>1. registered_tasks' = registered_tasks /\ task_to_starttime' = task_to_starttime \ ts
      BY <2>1, <2>4, DeadType
    <3>2. \A t \in ts : Status[t] = "active"
      BY <2>1, <2>4 DEF Status
    <3>3. Status' = [t \in Tasks |-> IF t \in ts THEN "dead" ELSE Status[t]]
      BY <2>1, <2>4, <3>1 DEF Status
    <3> QED
      BY <2>4, <3>2, <3>3 DEF L!LifecycleNext, L!Die
  <2>5. ASSUME NEW i \in Invocations, NEW a \in Attempts,
               process_deregister_task(i, a)
        PROVE  L!LifecycleNext
    <3> DEFINE ts == {TaskOf[i]} \intersect task_to_starttime
    <3>1. ts \in SUBSET Tasks /\ ts \subseteq task_to_starttime /\ declare_task_dead(ts)
      BY <2>1, <2>5 DEF process_deregister_task, TypeOK
    <3> QED
      BY <2>4, <3>1
  <2>6. CASE check_tasks_lifetime
    <3>1. PICK dead \in SUBSET Tasks :
            declare_task_dead(dead) /\ \A t \in dead : Expired(t)
      BY <2>6 DEF check_tasks_lifetime
    <3> QED
      BY <2>4, <3>1 DEF Expired
  <2>7. ASSUME NEW i \in Invocations, Handler(i) \/ SendVerdict(i)
        PROVE  Status' = Status
    BY <2>2, <2>7
    DEF Handler, Invoke, SendRegister, RecvVerdict, Raise, WorkerExits,
        SendDeregister, DeregisterReturns, HandlerFails, Kill, LoseRequest,
        SendVerdict, psVars
  <2>8. CASE Tick \/ CountTask \/ UNCHANGED vars
    BY <2>2, <2>8 DEF Tick, CountTask, vars, psVars
  <2> QED
    BY <2>3, <2>5, <2>6, <2>7, <2>8 DEF Next, Server
<1> QED
  BY <1>1, <1>2, RegistryInvHolds, PTL DEF Spec, ImplementsLifecycle, L!LifecycleSpec
=============================================================================
