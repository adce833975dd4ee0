---------------------------- MODULE TaskLifecycle ----------------------------
(* What the parameter server promises about the task ids it hands out work   *)
(* for: an id is registered once, is active until it is declared dead, and    *)
(* is never active again.                                                     *)

CONSTANT Tasks

VARIABLE status  \* status[t] \in {"unknown", "active", "dead"}

Register(t) == status[t] = "unknown" /\ status' = [status EXCEPT ![t] = "active"]

(* Several tasks may be found dead by one check. *)
Die(ts) ==
  /\ \A t \in ts : status[t] = "active"
  /\ status' = [t \in Tasks |-> IF t \in ts THEN "dead" ELSE status[t]]

LifecycleInit == status = [t \in Tasks |-> "unknown"]

LifecycleNext == (\E t \in Tasks : Register(t)) \/ (\E ts \in SUBSET Tasks : Die(ts))

LifecycleSpec == LifecycleInit /\ [][LifecycleNext]_status
=============================================================================
