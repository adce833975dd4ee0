----------------------------- MODULE Experiment -----------------------------
(* The life cycle of an experiment in the Python front end: BaseTask.run and  *)
(* kill (core.py), the parameter server and error task they start and stop    *)
(* over SSH (parameter_server.py), and the threads of maintain_workers        *)
(* (automate.py) that keep launching generations of worker Lambdas.           *)
(*                                                                            *)
(* A user runs and kills one experiment, several times.  The r-th run has its *)
(* own server and error task, its own worker Lambda function, its own threads *)
(* (one that waits for the server, one that cleans up, one per worker), and   *)
(* shares with the other runs stop_event, the ports and the pid files.  The   *)
(* server sets SO_REUSEPORT, so two servers may listen on one port and a      *)
(* connection reaches either.                                                 *)
EXTENDS Integers, FiniteSets

CONSTANTS ExperimentId,
          NWorkers,        \* n_workers
          MaxWorkers,      \* MAX_WORKERS_PER_EXPERIMENT
          MaxGenerations,  \* MAX_LAMBDA_GENERATIONS
          MaxRetries,      \* max_retries of launch_worker
          MaxRuns          \* bound: calls of run()

ASSUME ExperimentIdAssumption == ExperimentId \in Nat
ASSUME WorkersAssumption == MaxWorkers \in Nat /\ NWorkers \in 1 .. MaxWorkers
ASSUME GenerationsAssumption == MaxGenerations \in Nat \ {0}
ASSUME RetriesAssumption == MaxRetries \in Nat
ASSUME RunsAssumption == MaxRuns \in Nat \ {0}

Runs == 1 .. MaxRuns
WorkerIds == (ExperimentId * MaxWorkers) .. (ExperimentId * MaxWorkers + NWorkers - 1)

(* What a worker registers under; launch_worker passes it to the Lambda. *)
task_id(w, g) == w * MaxGenerations + g

VARIABLES
  user,         \* where the user's thread is in run() or kill()
  runs,         \* calls of run(): the pid files name the processes of the last
  stop_event,
  ps,           \* server of each run: "none", "starting", "up", "dead"
  errorTask,    \* error task of each run: "none", "up", "dead"
  boss,         \* wait_then_maintain_workers of each run
  function,     \* whether the Lambda function of the run exists
  cleanUp,      \* clean_up thread
  one,          \* maintain_one threads
  generation,
  retries,
  registered    \* <<task id, run>> in the registry of each server

userVars == <<user, runs, stop_event>>
oneVars == <<one, generation, retries>>
vars == <<userVars, ps, errorTask, boss, function, cleanUp, oneVars, registered>>

OnePcs == {"none", "test", "invoke", "launched", "working", "done", "raised"}
TaskIds == {task_id(w, g) : w \in WorkerIds, g \in 0 .. (MaxGenerations - 1)}

TypeOK ==
  /\ user \in {"idle", "clear", "running", "stopError", "stopPs", "raised"}
  /\ runs \in 0 .. MaxRuns
  /\ stop_event \in BOOLEAN
  /\ ps \in [Runs -> {"none", "starting", "up", "dead"}]
  /\ errorTask \in [Runs -> {"none", "up", "dead"}]
  /\ boss \in [Runs -> {"none", "wait", "make", "done", "raised"}]
  /\ function \in [Runs -> BOOLEAN]
  /\ cleanUp \in [Runs -> {"none", "start", "wait", "delete", "done", "raised"}]
  /\ one \in [Runs -> [WorkerIds -> OnePcs]]
  /\ generation \in [Runs -> [WorkerIds -> 0 .. MaxGenerations]]
  /\ retries \in [Runs -> [WorkerIds -> 0 .. MaxRetries]]
  /\ registered \in [Runs -> SUBSET (TaskIds \X Runs)]

Init ==
  /\ user = "idle"
  /\ runs = 0
  /\ stop_event = FALSE
  /\ ps = [r \in Runs |-> "none"]
  /\ errorTask = [r \in Runs |-> "none"]
  /\ boss = [r \in Runs |-> "none"]
  /\ function = [r \in Runs |-> FALSE]
  /\ cleanUp = [r \in Runs |-> "none"]
  /\ one = [r \in Runs |-> [w \in WorkerIds |-> "none"]]
  /\ generation = [r \in Runs |-> [w \in WorkerIds |-> 0]]
  /\ retries = [r \in Runs |-> [w \in WorkerIds |-> 0]]
  /\ registered = [r \in Runs |-> {}]

-----------------------------------------------------------------------------
(* The user's thread.                                                         *)

(* run(): ps.start() starts both processes.  The error task ends at once when *)
(* an older one still has its port; the server shares its port.               *)
RunStart ==
  /\ user \in {"idle", "raised"}
  /\ runs < MaxRuns
  /\ runs' = runs + 1
  /\ ps' = [ps EXCEPT ![runs + 1] = "starting"]
  /\ errorTask' = [errorTask EXCEPT ![runs + 1] =
       IF \E r \in Runs : errorTask[r] = "up" THEN "dead" ELSE "up"]
  /\ user' = "clear"
  /\ UNCHANGED <<stop_event, boss, function, cleanUp, oneVars, registered>>

(* run(): stop_event.clear() and the thread. *)
RunClear ==
  /\ user = "clear"
  /\ stop_event' = FALSE
  /\ boss' = [boss EXCEPT ![runs] = "wait"]
  /\ user' = "running"
  /\ UNCHANGED <<runs, ps, errorTask, function, cleanUp, oneVars, registered>>

(* kill(): stop_event.set() wakes every thread that waits for the event. *)
KillSet ==
  /\ user \in {"running", "raised"}
  /\ stop_event' = TRUE
  /\ cleanUp' = [r \in Runs |-> IF cleanUp[r] = "wait" THEN "delete" ELSE cleanUp[r]]
  /\ user' = "stopError"
  /\ UNCHANGED <<runs, ps, errorTask, boss, function, oneVars, registered>>

(* ps.stop(): kill(1) fails when the process is gone, and run_command raises. *)
StopError ==
  /\ user = "stopError"
  /\ IF errorTask[runs] = "up"
     THEN /\ errorTask' = [errorTask EXCEPT ![runs] = "dead"]
          /\ user' = "stopPs"
     ELSE /\ user' = "raised"
          /\ UNCHANGED errorTask
  /\ UNCHANGED <<runs, stop_event, ps, boss, function, cleanUp, oneVars, registered>>

StopPs ==
  /\ user = "stopPs"
  /\ IF ps[runs] \in {"starting", "up"}
     THEN /\ ps' = [ps EXCEPT ![runs] = "dead"]
          /\ registered' = [registered EXCEPT ![runs] = {}]
          /\ user' = "idle"
     ELSE user' = "raised" /\ UNCHANGED <<ps, registered>>
  /\ UNCHANGED <<runs, stop_event, errorTask, boss, function, cleanUp, oneVars>>

(* The processes on the instance. *)
PsListens(r) ==
  /\ ps[r] = "starting"
  /\ ps' = [ps EXCEPT ![r] = "up"]
  /\ UNCHANGED <<userVars, errorTask, boss, function, cleanUp, oneVars, registered>>

(* A process dies of its own; with the server goes its registry. *)
Crash(r) ==
  /\ \/ /\ ps[r] \in {"starting", "up"}
        /\ ps' = [ps EXCEPT ![r] = "dead"]
        /\ registered' = [registered EXCEPT ![r] = {}]
        /\ UNCHANGED errorTask
     \/ /\ errorTask[r] = "up"
        /\ errorTask' = [errorTask EXCEPT ![r] = "dead"]
        /\ UNCHANGED <<ps, registered>>
  /\ UNCHANGED <<userVars, boss, function, cleanUp, oneVars>>

-----------------------------------------------------------------------------
(* wait_then_maintain_workers and clean_up.                                   *)

reachable == {s \in Runs : ps[s] = "up"}

WaitUntilStarted(r) ==
  /\ boss[r] = "wait"
  /\ \/ reachable # {} /\ boss' = [boss EXCEPT ![r] = "make"]
     \/ boss' = [boss EXCEPT ![r] = "raised"]   \* twelve attempts failed
  /\ UNCHANGED <<userVars, ps, errorTask, function, cleanUp, oneVars, registered>>

(* make_lambda, and the threads. *)
MaintainWorkers(r) ==
  /\ boss[r] = "make"
  /\ boss' = [boss EXCEPT ![r] = "done"]
  /\ function' = [function EXCEPT ![r] = TRUE]
  /\ cleanUp' = [cleanUp EXCEPT ![r] = "start"]
  /\ one' = [one EXCEPT ![r] = [w \in WorkerIds |-> "test"]]
  /\ UNCHANGED <<userVars, ps, errorTask, generation, retries, registered>>

(* create_function or put_function_concurrency raises: in the second case the *)
(* function is left behind.                                                   *)
MakeLambdaRaises(r) ==
  /\ boss[r] = "make"
  /\ boss' = [boss EXCEPT ![r] = "raised"]
  /\ \E b \in BOOLEAN : function' = [function EXCEPT ![r] = b]
  /\ UNCHANGED <<userVars, ps, errorTask, cleanUp, oneVars, registered>>

(* A plausible bug: the event is not looked at before waiting for it. *)
CleanUpWaitBlind(r) ==
  /\ cleanUp[r] = "start"
  /\ cleanUp' = [cleanUp EXCEPT ![r] = "wait"]
  /\ UNCHANGED <<userVars, ps, errorTask, boss, function, oneVars, registered>>

(* stop_event.wait(): a thread that finds the event set goes on; one that     *)
(* waits is woken by KillSet.                                                 *)
CleanUpWait(r) ==
  /\ cleanUp[r] = "start"
  /\ cleanUp' = [cleanUp EXCEPT ![r] = IF stop_event THEN "delete" ELSE "wait"]
  /\ UNCHANGED <<userVars, ps, errorTask, boss, function, oneVars, registered>>

DeleteLambda(r) ==
  /\ cleanUp[r] = "delete"
  /\ \/ /\ function' = [function EXCEPT ![r] = FALSE]
        /\ cleanUp' = [cleanUp EXCEPT ![r] = "done"]
     \/ /\ cleanUp' = [cleanUp EXCEPT ![r] = "raised"]
        /\ UNCHANGED function
  /\ UNCHANGED <<userVars, ps, errorTask, boss, oneVars, registered>>

-----------------------------------------------------------------------------
(* maintain_one, launch_worker and the Lambda it waits for.                   *)

Goto(r, w, label) == one' = [one EXCEPT ![r][w] = label]
Id(r, w) == task_id(w, generation[r][w])

TestStop(r, w) ==
  /\ one[r][w] = "test"
  /\ \/ stop_event /\ Goto(r, w, "done")
     \/ ~stop_event /\ generation[r][w] < MaxGenerations /\ Goto(r, w, "invoke")
     \/ ~stop_event /\ generation[r][w] = MaxGenerations /\ Goto(r, w, "raised")
  /\ UNCHANGED <<userVars, ps, errorTask, boss, function, cleanUp, generation,
                 retries, registered>>

Invoke(r, w) ==
  /\ one[r][w] = "invoke"
  /\ function[r]
  /\ Goto(r, w, "launched")
  /\ retries' = [retries EXCEPT ![r][w] = 0]
  /\ UNCHANGED <<userVars, ps, errorTask, boss, function, cleanUp, generation,
                 registered>>

(* TooManyRequestsException: the back-off sleeps and retries a few times. *)
Throttled(r, w) ==
  /\ one[r][w] = "invoke"
  /\ function[r]
  /\ IF retries[r][w] < MaxRetries
     THEN retries' = [retries EXCEPT ![r][w] = @ + 1] /\ UNCHANGED one
     ELSE retries' = [retries EXCEPT ![r][w] = 0] /\ Goto(r, w, "raised")
  /\ UNCHANGED <<userVars, ps, errorTask, boss, function, cleanUp, generation,
                 registered>>

(* Any other exception, such as a function that is gone, ends the thread; a   *)
(* Lambda whose caller is gone is not followed further.                       *)
InvokeRaises(r, w) ==
  /\ one[r][w] \in {"invoke", "launched", "working"}
  /\ Goto(r, w, "raised")
  /\ retries' = [retries EXCEPT ![r][w] = 0]
  /\ UNCHANGED <<userVars, ps, errorTask, boss, function, cleanUp, generation,
                 registered>>

Taken(s, id) == \E q \in Runs : <<id, q>> \in registered[s]

(* The handler registers with whichever server its connection reaches. *)
Register(r, w) ==
  /\ one[r][w] = "launched"
  /\ \E s \in reachable :
       /\ ~Taken(s, Id(r, w))
       /\ registered' = [registered EXCEPT ![s] = @ \union {<<Id(r, w), r>>}]
  /\ Goto(r, w, "working")
  /\ UNCHANGED <<userVars, ps, errorTask, boss, function, cleanUp, generation,
                 retries>>

(* A plausible bug: the generation is not counted. *)
LambdaReturnsForgets(r, w) ==
  /\ one[r][w] \in {"launched", "working"}
  /\ Goto(r, w, "test")
  /\ UNCHANGED <<userVars, ps, errorTask, boss, function, cleanUp, generation,
                 retries, registered>>

(* The Lambda ends: refused, without a server, at its time limit, with an     *)
(* error of its own.  AWS answers with status 200 in all these cases.  The    *)
(* thread sleeps, if the Lambda was short-lived, before it tests again.       *)
LambdaReturns(r, w) ==
  /\ one[r][w] \in {"launched", "working"}
  /\ generation' = [generation EXCEPT ![r][w] = @ + 1]
  /\ Goto(r, w, "test")
  /\ UNCHANGED <<userVars, ps, errorTask, boss, function, cleanUp, retries,
                 registered>>

MaintainOne(r, w) ==
  \/ TestStop(r, w) \/ Invoke(r, w) \/ Throttled(r, w) \/ InvokeRaises(r, w)
  \/ Register(r, w) \/ LambdaReturns(r, w)

-----------------------------------------------------------------------------
Boss(r) == WaitUntilStarted(r) \/ MaintainWorkers(r) \/ MakeLambdaRaises(r)
CleanUp(r) == CleanUpWait(r) \/ DeleteLambda(r)
Call == RunClear \/ StopError \/ StopPs

Next ==
  \/ RunStart \/ KillSet \/ Call
  \/ \E r \in Runs :
       \/ PsListens(r) \/ Crash(r) \/ Boss(r) \/ CleanUp(r)
       \/ \E w \in WorkerIds : MaintainOne(r, w)

(* Threads run, calls of AWS and SSH return, and Lambdas end at their time    *)
(* limit.  Nothing makes the user call run() or kill().                       *)
Fairness ==
  /\ WF_vars(Call)
  /\ \A r \in Runs : WF_vars(Boss(r)) /\ WF_vars(CleanUp(r))
  /\ \A r \in Runs : \A w \in WorkerIds : WF_vars(MaintainOne(r, w))

Spec == Init /\ [][Next]_vars

FairSpec == Spec /\ Fairness

-----------------------------------------------------------------------------
(* Safety.                                                                    *)

(* A fleet never launches a Lambda under a task id it has registered before:  *)
(* generations and retries give every Lambda that gets as far as the server   *)
(* an id of its own.  Otherwise the registry would turn it away.  A thread    *)
(* that an earlier run has left behind is another fleet: it can take the id.  *)
FreshIds ==
  [][\A r \in Runs : \A w \in WorkerIds :
       one[r][w] = "invoke" /\ one'[r][w] = "launched" =>
         \A s \in Runs : <<Id(r, w), r>> \notin registered[s]]_vars

(* Why: a fleet's registered ids belong to generations that are over, or to   *)
(* the present one of a thread that is past its launch.                       *)
Past(r, w, g) ==
  \/ g < generation[r][w]
  \/ g = generation[r][w] /\ one[r][w] \in {"working", "raised"}

RegisteredArePast ==
  \A s \in Runs : \A x \in registered[s] :
    \E w \in WorkerIds : \E g \in 0 .. (MaxGenerations - 1) :
      x[1] = task_id(w, g) /\ Past(x[2], w, g)

NotStarted ==
  \A r \in Runs :
    /\ r > runs \/ (user = "clear" /\ r = runs) => boss[r] = "none"
    /\ boss[r] \in {"none", "wait", "make"} =>
         \A w \in WorkerIds : one[r][w] = "none" /\ generation[r][w] = 0

Launching ==
  \A r \in Runs : \A w \in WorkerIds :
    one[r][w] \in {"invoke", "launched", "working"} =>
      generation[r][w] < MaxGenerations

(* "Stop this parameter server and its associated error task.  Sends SIGKILL  *)
(* to both processes" (parameter_server.py:156-158): once kill() is over, no  *)
(* server is left.                                                            *)
ServerStopped ==
  user \in {"idle", "raised"} => \A r \in Runs : ps[r] \in {"none", "dead"}

-----------------------------------------------------------------------------
(* Liveness.                                                                  *)

Ended(r) ==
  /\ boss[r] \in {"none", "done", "raised"}
  /\ cleanUp[r] \in {"none", "done", "raised"}
  /\ \A w \in WorkerIds : one[r][w] \in {"none", "done", "raised"}
  /\ function[r] => boss[r] = "raised" \/ cleanUp[r] = "raised"

(* "By stopping the spawning of new workers" (core.py:141): when the          *)
(* experiment has been killed for good, every thread of every run ends and    *)
(* the Lambda functions are deleted, also when kill() met a run that was      *)
(* still making its function, or raised an exception half way.                *)
KillEndsFleet == <>[]stop_event => <>[](\A r \in Runs : Ended(r))
=============================================================================
