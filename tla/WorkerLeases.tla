---------------------------- MODULE WorkerLeases ----------------------------
(***************************************************************************)
(* What acp/worker_pool.py promises its callers: a worker serves one task  *)
(* at a time, it passes from one task to the next only through the idle    *)
(* set, and no more than MaxWorkers are in service, busy or idle.          *)
(***************************************************************************)
EXTENDS Integers, FiniteSets

CONSTANTS
  Tasks,       \* the callers that may hold a worker
  Workers,     \* the workers there may be
  MaxWorkers

VARIABLE holder   \* of each worker: a task, "idle" or "out" of service

Idle == {w \in Workers : holder[w] = "idle"}
InService == {w \in Workers : holder[w] # "out"}

Init == holder = [w \in Workers |-> "out"]

(* The workers of D, found dead, go out of service.                         *)
Without(D) == [w \in Workers |-> IF w \in D THEN "out" ELSE holder[w]]

(* Task t, which holds none, gets an idle worker or a new one.              *)
Lease(t) ==
  /\ \A w \in Workers : holder[w] # t
  /\ \E D \in SUBSET Idle :
       \E w \in Workers \ D :
         /\ holder[w] \in {"idle", "out"}
         /\ holder' = [Without(D) EXCEPT ![w] = t]
         /\ holder[w] = "out" => Cardinality(InService \ D) < MaxWorkers

Return(w) == holder[w] \in Tasks /\ holder' = [holder EXCEPT ![w] = "idle"]

Withdraw(w) == holder[w] \in Tasks /\ holder' = [holder EXCEPT ![w] = "out"]

Discard == \E D \in SUBSET Idle : holder' = Without(D)

Next ==
  \/ \E t \in Tasks : Lease(t)
  \/ \E w \in Workers : Return(w) \/ Withdraw(w)
  \/ Discard

Spec == Init /\ [][Next]_holder
=============================================================================
