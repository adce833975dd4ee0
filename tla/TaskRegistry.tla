---------------------------- MODULE TaskRegistry ----------------------------
(* Registration of workers: the AWS Lambda handler (handler.py) registers its *)
(* task id with the parameter server, runs the worker process and deregisters *)
(* it; the parameter server (PSSparseServerTask.cpp) keeps the registry and   *)
(* declares dead the tasks that outlive their Lambda.                         *)
(*                                                                            *)
(* AWS may run several invocations of one task.  Requests travel over their   *)
(* own TCP connections: they can be delayed past the handler's timeout,       *)
(* overtake one another, or be lost with their connection.                    *)
(* One tick is one second.                                                    *)
EXTENDS Integers, FiniteSets

CONSTANTS Tasks,        \* task ids, integers: std::map visits them in order
          Invocations,  \* runs of the Lambda handler
          TaskOf,       \* event["task_id"] of each invocation
          MaxLife,      \* bound: seconds an invocation may live
          Life,         \* seconds that AWS gives each invocation
          Started,      \* bound: sets of invocations AWS may start in one run
          Threshold,    \* TIMEOUT_THRESHOLD_SEC
          Modulus       \* 2^32, the values of num_tasks

ASSUME TasksAssumption == Tasks \subseteq Nat /\ IsFiniteSet(Tasks)
ASSUME TaskOfAssumption == IsFiniteSet(Invocations) /\ TaskOf \in [Invocations -> Tasks]
ASSUME MaxLifeAssumption == MaxLife \in Nat /\ Life \in [Invocations -> 0 .. MaxLife]
ASSUME ThresholdAssumption == Threshold \in Nat \ {0}
ASSUME ModulusAssumption == Modulus \in Nat \ {0}

VARIABLES
  psUp,                    \* FALSE once the server has crashed
  registered_tasks,
  task_to_starttime,       \* its keys: the tasks that are active
  age,                     \* seconds since the start time, until it has expired
  task_to_remaining_time,
  num_tasks,
  pc,                      \* of each invocation
  left,                    \* seconds until AWS kills it
  regMsg,                  \* its register request
  secs,                    \* remaining time in that request
  verdict,                 \* the server's answer: 0 registered, 1 refused
  deregMsg                 \* its deregister requests, one of run() and one of
                           \* the exception handler

psVars == <<registered_tasks, task_to_starttime, age, task_to_remaining_time>>
lambdaVars == <<pc, left>>
vars == <<psUp, psVars, num_tasks, lambdaVars, regMsg, secs, verdict, deregMsg>>

MaxAge == MaxLife + Threshold + 1
NoVerdict == 2
Attempts == {"run", "except"}

Pcs == {"idle", "connect", "await", "work", "dereg", "awaitDereg", "raise",
        "awaitRaise", "done", "failed", "killed"}
Live(i) == pc[i] \notin {"idle", "done", "failed", "killed"}

TypeOK ==
  /\ psUp \in BOOLEAN
  /\ registered_tasks \subseteq Tasks
  /\ task_to_starttime \subseteq Tasks
  /\ age \in [Tasks -> 0 .. MaxAge]
  /\ task_to_remaining_time \in [Tasks -> -1 .. MaxLife]
  /\ num_tasks \in 0 .. (Modulus - 1)
  /\ pc \in [Invocations -> Pcs]
  /\ left \in [Invocations -> 0 .. MaxLife]
  /\ regMsg \in [Invocations -> {"none", "sent", "lost", "locked", "count", "done"}]
  /\ secs \in [Invocations -> 0 .. MaxLife]
  /\ verdict \in [Invocations -> {0, 1, NoVerdict}]
  /\ deregMsg \in [Invocations -> [Attempts -> {"none", "sent", "lost", "done"}]]

Init ==
  /\ psUp = TRUE
  /\ registered_tasks = {}
  /\ task_to_starttime = {}
  /\ age = [t \in Tasks |-> 0]
  /\ task_to_remaining_time = [t \in Tasks |-> -1]
  /\ num_tasks = 0
  /\ pc = [i \in Invocations |-> "idle"]
  /\ left = [i \in Invocations |-> 0]
  /\ regMsg = [i \in Invocations |-> "none"]
  /\ secs = [i \in Invocations |-> 0]
  /\ verdict = [i \in Invocations |-> NoVerdict]
  /\ deregMsg = [i \in Invocations |-> [a \in Attempts |-> "none"]]

-----------------------------------------------------------------------------
(* The Lambda handler.                                                        *)

Goto(i, label) == pc' = [pc EXCEPT ![i] = label]

Invoke(i) ==
  /\ pc[i] = "idle"
  /\ \E S \in Started : {i} \union {j \in Invocations : pc[j] # "idle"} \subseteq S
  /\ Goto(i, "connect")
  /\ left' = [left EXCEPT ![i] = Life[i]]
  /\ UNCHANGED <<psUp, psVars, num_tasks, regMsg, secs, verdict, deregMsg>>

(* register(): time_left() // 1000 loses up to a second. *)
SendRegister(i) ==
  /\ pc[i] = "connect"
  /\ psUp
  /\ Goto(i, "await")
  /\ regMsg' = [regMsg EXCEPT ![i] = "sent"]
  /\ \E s \in {left[i], left[i] - 1} : s >= 0 /\ secs' = [secs EXCEPT ![i] = s]
  /\ UNCHANGED <<psUp, psVars, num_tasks, left, verdict, deregMsg>>

(* The handler starts the worker or leaves it to a duplicate that won. *)
RecvVerdict(i) ==
  /\ pc[i] = "await"
  /\ regMsg[i] \in {"count", "done"}
  /\ Goto(i, IF verdict[i] = 0 THEN "work" ELSE "done")
  /\ UNCHANGED <<psUp, psVars, num_tasks, left, regMsg, secs, verdict, deregMsg>>

(* A failed connect, a timeout of five seconds, an empty answer or a worker   *)
(* that exits with an error: to the except clause, which deregisters.         *)
Raise(i) ==
  /\ pc[i] \in {"connect", "await", "work", "dereg", "awaitDereg"}
  /\ Goto(i, "raise")
  /\ UNCHANGED <<psUp, psVars, num_tasks, left, regMsg, secs, verdict, deregMsg>>

WorkerExits(i) ==
  /\ pc[i] = "work"
  /\ Goto(i, "dereg")
  /\ UNCHANGED <<psUp, psVars, num_tasks, left, regMsg, secs, verdict, deregMsg>>

(* deregister() *)
SendDeregister(i) ==
  /\ psUp
  /\ \/ pc[i] = "dereg" /\ Goto(i, "awaitDereg")
        /\ deregMsg' = [deregMsg EXCEPT ![i]["run"] = "sent"]
     \/ pc[i] = "raise" /\ Goto(i, "awaitRaise")
        /\ deregMsg' = [deregMsg EXCEPT ![i]["except"] = "sent"]
  /\ UNCHANGED <<psUp, psVars, num_tasks, left, regMsg, secs, verdict>>

DeregisterReturns(i) ==
  /\ \/ pc[i] = "awaitDereg" /\ deregMsg[i]["run"] = "done" /\ Goto(i, "done")
     \/ pc[i] = "awaitRaise" /\ deregMsg[i]["except"] = "done" /\ Goto(i, "failed")
  /\ UNCHANGED <<psUp, psVars, num_tasks, left, regMsg, secs, verdict, deregMsg>>

(* deregister() in the except clause fails as well: the error propagates. *)
HandlerFails(i) ==
  /\ pc[i] \in {"raise", "awaitRaise"}
  /\ Goto(i, "failed")
  /\ UNCHANGED <<psUp, psVars, num_tasks, left, regMsg, secs, verdict, deregMsg>>

(* AWS kills an invocation, worker process included, at its time limit. *)
Kill(i) ==
  /\ Live(i)
  /\ left[i] = 0
  /\ Goto(i, "killed")
  /\ UNCHANGED <<psUp, psVars, num_tasks, left, regMsg, secs, verdict, deregMsg>>

(* A connection breaks before the server has read the whole request. *)
LoseRequest(i) ==
  /\ \/ regMsg[i] = "sent" /\ regMsg' = [regMsg EXCEPT ![i] = "lost"]
        /\ UNCHANGED deregMsg
     \/ \E a \in Attempts :
          /\ deregMsg[i][a] = "sent"
          /\ deregMsg' = [deregMsg EXCEPT ![i][a] = "lost"]
          /\ UNCHANGED regMsg
  /\ UNCHANGED <<psUp, psVars, num_tasks, lambdaVars, secs, verdict>>

-----------------------------------------------------------------------------
(* The parameter server.                                                      *)

(* A plausible bug: the id of a dead task can be used again. *)
process_register_taskReuse(i) ==
  LET t == TaskOf[i]
      task_reg == IF t \in task_to_starttime THEN 1 ELSE 0
  IN
  /\ psUp
  /\ regMsg[i] = "sent"
  /\ regMsg' = [regMsg EXCEPT ![i] = "locked"]
  /\ verdict' = [verdict EXCEPT ![i] = task_reg]
  /\ IF task_reg = 0
     THEN /\ registered_tasks' = registered_tasks \union {t}
          /\ task_to_remaining_time' = [task_to_remaining_time EXCEPT ![t] = secs[i]]
          /\ task_to_starttime' = task_to_starttime \union {t}
          /\ age' = [age EXCEPT ![t] = 0]
     ELSE UNCHANGED psVars
  /\ UNCHANGED <<psUp, num_tasks, lambdaVars, secs, deregMsg>>

(* process_register_task under register_lock. *)
process_register_task(i) ==
  LET t == TaskOf[i]
      task_reg == IF t \in registered_tasks THEN 1 ELSE 0
  IN
  /\ psUp
  /\ regMsg[i] = "sent"
  /\ regMsg' = [regMsg EXCEPT ![i] = "locked"]
  /\ verdict' = [verdict EXCEPT ![i] = task_reg]
  /\ IF task_reg = 0
     THEN /\ registered_tasks' = registered_tasks \union {t}
          /\ task_to_remaining_time' = [task_to_remaining_time EXCEPT ![t] = secs[i]]
          /\ task_to_starttime' = task_to_starttime \union {t}
          /\ age' = [age EXCEPT ![t] = 0]
     ELSE UNCHANGED psVars
  /\ UNCHANGED <<psUp, num_tasks, lambdaVars, secs, deregMsg>>

(* The reply, after the unlock: sent, or the handler is gone and the request  *)
(* ends here. *)
SendVerdict(i) ==
  /\ psUp
  /\ regMsg[i] = "locked"
  /\ \/ regMsg' = [regMsg EXCEPT ![i] = "count"]
     \/ pc[i] # "await" /\ regMsg' = [regMsg EXCEPT ![i] = "lost"]
  /\ UNCHANGED <<psUp, psVars, num_tasks, lambdaVars, secs, verdict, deregMsg>>

(* A plausible misreading: num_tasks as a signed number. *)
CountedSigned(is, deaths) ==
  /\ \A i \in is : regMsg[i] = "count"
  /\ num_tasks' = num_tasks + Cardinality(is) - deaths
  /\ regMsg' = [i \in Invocations |-> IF i \in is THEN "done" ELSE regMsg[i]]

(* num_tasks is a plain uint32_t: increments (outside the lock) that overlap  *)
(* one another or `deaths' decrements can be lost, or make those lost.        *)
Counted(is, deaths) ==
  /\ \A i \in is : regMsg[i] = "count"
  /\ \E d \in (IF is # {} /\ deaths = 0 THEN 1 ELSE 0 - deaths) .. Cardinality(is) :
       /\ is = {} => d = 0 - deaths
       /\ num_tasks' = (num_tasks + d) % Modulus
  /\ regMsg' = [i \in Invocations |-> IF i \in is THEN "done" ELSE regMsg[i]]

(* num_tasks++, of one request or of several at a time *)
CountTask ==
  /\ psUp
  /\ \E is \in SUBSET Invocations : is # {} /\ Counted(is, 0)
  /\ UNCHANGED <<psUp, psVars, lambdaVars, secs, verdict, deregMsg>>

(* A plausible bug: the start time is kept. *)
declare_task_deadKeepsStart(ts) ==
  /\ task_to_remaining_time' =
       [t \in Tasks |-> IF t \in ts THEN -1 ELSE task_to_remaining_time[t]]
  /\ UNCHANGED <<registered_tasks, task_to_starttime, age>>
  /\ Counted({}, Cardinality(ts))

(* declare_task_dead for the tasks ts, all of them active. *)
declare_task_dead(ts) ==
  /\ task_to_remaining_time' =
       [t \in Tasks |-> IF t \in ts THEN -1 ELSE task_to_remaining_time[t]]
  /\ task_to_starttime' = task_to_starttime \ ts
  /\ UNCHANGED <<registered_tasks, age>>
  /\ \E is \in SUBSET Invocations :
       /\ ts = {} => is = {}
       /\ Counted(is, Cardinality(ts))

(* process_deregister_task under register_lock; the reply changes nothing.    *)
(* An id that is not registered, or is dead already, is left alone.           *)
process_deregister_task(i, a) ==
  /\ psUp
  /\ deregMsg[i][a] = "sent"
  /\ deregMsg' = [deregMsg EXCEPT ![i][a] = "done"]
  /\ declare_task_dead({TaskOf[i]} \intersect task_to_starttime)
  /\ UNCHANGED <<psUp, lambdaVars, secs, verdict>>

(* A plausible bug: the grace period is forgotten. *)
ExpiredNoGrace(t) == t \in task_to_starttime /\ age[t] > task_to_remaining_time[t]

Expired(t) ==
  t \in task_to_starttime /\ age[t] > task_to_remaining_time[t] + Threshold

(* check_tasks_lifetime erases from the map it is iterating over: what the    *)
(* loop visits after its first erase is undefined, a crash included.          *)
check_tasks_lifetime ==
  /\ psUp
  /\ \E dead \in SUBSET {t \in Tasks : Expired(t)} :
       /\ dead # {}
       /\ \A t \in Tasks : Expired(t) => \E u \in dead : u <= t
       /\ declare_task_dead(dead)
  /\ psUp' \in BOOLEAN
  /\ UNCHANGED <<lambdaVars, secs, verdict, deregMsg>>

-----------------------------------------------------------------------------
Tick ==
  /\ \A i \in Invocations : Live(i) => left[i] > 0
  /\ left' = [i \in Invocations |-> IF Live(i) THEN left[i] - 1 ELSE left[i]]
  /\ age' = [t \in Tasks |-> IF t \in task_to_starttime /\ ~Expired(t)
                             THEN age[t] + 1 ELSE age[t]]
  /\ UNCHANGED <<psUp, registered_tasks, task_to_starttime, task_to_remaining_time,
                 num_tasks, pc, regMsg, secs, verdict, deregMsg>>

Handler(i) ==
  \/ Invoke(i) \/ SendRegister(i) \/ RecvVerdict(i) \/ Raise(i) \/ WorkerExits(i)
  \/ SendDeregister(i) \/ DeregisterReturns(i) \/ HandlerFails(i) \/ Kill(i)
  \/ LoseRequest(i)

Server ==
  \/ \E i \in Invocations :
       \/ process_register_task(i) \/ SendVerdict(i)
       \/ \E a \in Attempts : process_deregister_task(i, a)
  \/ CountTask
  \/ check_tasks_lifetime

Next == Tick \/ Server \/ \E i \in Invocations : Handler(i)

(* Time passes, AWS enforces its limit, and the server's main loop looks at   *)
(* the registry every second; a check may crash it, but need not.             *)
Fairness ==
  /\ WF_vars(Tick)
  /\ \A i \in Invocations : WF_vars(Kill(i))
  /\ WF_vars(check_tasks_lifetime /\ psUp')

Spec == Init /\ [][Next]_vars

FairSpec == Spec /\ Fairness

-----------------------------------------------------------------------------
(* Safety.                                                                    *)

(* However often AWS starts a task, and however requests and deregistrations  *)
(* of its invocations interleave, one invocation at most runs the worker:     *)
(* "abort if a duplicate invocation with the same worker ID has already won   *)
(* the race" (handler.py:135-136).                                            *)
Working(i) == pc[i] \in {"work", "dereg", "awaitDereg"}
OneWorkerPerTask ==
  \A i, j \in Invocations :
    Working(i) /\ Working(j) /\ TaskOf[i] = TaskOf[j] => i = j

(* The registry as its users see it. *)
Status == [t \in Tasks |->
  IF t \notin registered_tasks THEN "unknown"
  ELSE IF t \in task_to_starttime THEN "active" ELSE "dead"]

L == INSTANCE TaskLifecycle WITH status <- Status

(* An id goes from unknown to active to dead and never back, although the     *)
(* three containers are updated separately and late requests arrive.          *)
ImplementsLifecycle == L!LifecycleSpec

(* A worker that runs is in the registry unless an invocation of its task     *)
(* that failed has deregistered it: the server never gives up on it because   *)
(* of its age, however late its registration arrived.                         *)
RunningIsActive ==
  \A i \in Invocations : pc[i] = "work" =>
    \/ TaskOf[i] \in task_to_starttime
    \/ \E j \in Invocations :
         j # i /\ TaskOf[j] = TaskOf[i] /\ deregMsg[j]["except"] = "done"

(* Why: what the server and the handlers know about each other at any time.   *)
Granted(i) == verdict[i] = 0

Protocol ==
  /\ task_to_starttime \subseteq registered_tasks
  /\ \A i \in Invocations : Granted(i) => TaskOf[i] \in registered_tasks
  /\ \A i, j \in Invocations :
       Granted(i) /\ Granted(j) /\ TaskOf[i] = TaskOf[j] => i = j
  /\ \A i \in Invocations :
       /\ pc[i] \in {"idle", "connect"} => regMsg[i] = "none"
       /\ regMsg[i] \in {"none", "sent"} => verdict[i] = NoVerdict
       /\ Working(i) => Granted(i)
       /\ deregMsg[i]["run"] # "none" => Granted(i)
       /\ pc[i] \in {"idle", "connect", "await", "work", "dereg"} =>
            deregMsg[i]["run"] = "none"
       /\ pc[i] \notin {"awaitRaise", "failed", "killed"} =>
            deregMsg[i]["except"] = "none"

(* The server's clock for a task never runs ahead of the Lambda's own: a      *)
(* registration delayed on its way starts it later, and the second lost in    *)
(* time_left() // 1000 is within the threshold.                               *)
ClocksAgree ==
  \A i \in Invocations : Live(i) =>
    /\ regMsg[i] = "sent" => left[i] <= secs[i] + 1
    /\ Granted(i) /\ TaskOf[i] \in task_to_starttime =>
         /\ task_to_remaining_time[TaskOf[i]] = secs[i]
         /\ age[TaskOf[i]] + left[i] <= secs[i] + 1

StillActive ==
  \A i \in Invocations : Granted(i) /\ pc[i] \in {"await", "work"} =>
    \/ TaskOf[i] \in task_to_starttime
    \/ \E j \in Invocations :
         j # i /\ TaskOf[j] = TaskOf[i] /\ deregMsg[j]["except"] = "done"

(* Every registration ends: killed, lost and duplicated Lambdas do not stay   *)
(* in the registry, unless the server crashed.                                *)
TasksDie == \A t \in Tasks :
  t \in task_to_starttime ~> (t \notin task_to_starttime \/ ~psUp)
=============================================================================
