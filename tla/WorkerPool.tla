----------------------------- MODULE WorkerPool -----------------------------
(***************************************************************************)
(* The pool of warm agent sessions (acp/worker_pool.py) as the workflow    *)
(* steps use it (workflows/agent_pool.py): send() takes a permit, reuses   *)
(* an idle worker or starts one, resets it, runs the step on it and puts   *)
(* it back, or retires it.  Like the code, an action runs from one await   *)
(* to the next; no lock is held over an await, so the locked blocks are    *)
(* part of the actions.  _protected is left out: it shields the processes  *)
(* of workers that tell their pid() from the orphan sweep, and the workers *)
(* of the workflows have no pid() (agent_pool.py:74-176), so that it stays *)
(* empty.                                                                  *)
(***************************************************************************)
EXTENDS Integers, Sequences, FiniteSets, SequencesExt

CONSTANTS
  Tasks,        \* callers of send(), each of which may call it again
  Workers,      \* bounds the worker sessions that exist at a time
  MaxWorkers,   \* _max_workers
  MaxStarting,  \* _max_starting
  NoWorker,     \* a task has none in hand
  Events        \* what may happen to the pool in an instance

EventKinds ==
  {"fail",           \* a start, a reset or a step raises or times out
   "die",            \* a worker's process dies
   "cancel",         \* a call of send() is cancelled while it serves its step
   "cancelCleanup",  \* a task is cancelled while it awaits a worker's shutdown
   "shutdown"}       \* the run is over: shutdown()

ASSUME SetsAssumption == IsFiniteSet(Tasks) /\ IsFiniteSet(Workers)
ASSUME TasksAssumption == Tasks \cap {"idle", "out"} = {}
ASSUME NoWorkerAssumption == NoWorker \notin Workers
ASSUME MaxWorkersAssumption == MaxWorkers \in Nat \ {0}
ASSUME MaxStartingAssumption == MaxStarting \in Nat \ {0}
ASSUME EventsAssumption == Events \subseteq EventKinds

VARIABLES
  taskSema,   \* _task_sema, a permit for each task that may have a worker
  startSema,  \* _start_sema, a permit for each cold start
  idle,       \* _idle, the most recently used worker last
  created,    \* _created
  closing,    \* _closing
  pc,         \* where each call of send() stands
  wk,         \* the worker each call has in hand
  reap,       \* the dead workers each call has still to retire
  cancelReq,  \* tasks whose cancellation is pending
  sweep,      \* the workers shutdown() has still to retire
  up,         \* workers whose session exists
  dead,       \* those of up whose process has died
  used        \* those of up whose conversation has seen a step

semas == <<taskSema, startSema>>
calls == <<pc, wk, reap>>
pool == <<idle, created, closing, sweep>>
sessions == <<up, dead, used>>
vars == <<semas, calls, cancelReq, pool, sessions>>

Stages ==
  {"out",         \* not in send()
   "waiting",     \* awaits a permit of _task_sema
   "reaping",     \* retires dead workers it found idle
   "startWait",   \* awaits a permit of _start_sema
   "starting",    \* in worker.start()
   "resetting",   \* in worker.reset()
   "running",     \* in worker.send_message()
   "retiring"}    \* release() retires its worker

-----------------------------------------------------------------------------
(***************************************************************************)
(* asyncio.Semaphore: value counts the free permits; a release hands one   *)
(* to the waiter that came first, which then is woken.                     *)
(***************************************************************************)
Semaphore(n) == [value |-> n, waiters |-> <<>>, woken |-> {}]

Available(s) == s.value > 0 /\ s.waiters = <<>> /\ s.woken = {}

Acquired(s) == [s EXCEPT !.value = @ - 1]

Awaited(s, t) == [s EXCEPT !.waiters = Append(@, t)]

WakeNext(s) ==
  IF s.waiters = <<>> THEN s
  ELSE [value |-> s.value - 1, waiters |-> Tail(s.waiters),
        woken |-> s.woken \union {Head(s.waiters)}]

Released(s) == WakeNext([s EXCEPT !.value = @ + 1])

(* The waiter t goes on with the permit it was given.                       *)
Resumed(s, t) ==
  LET r == [s EXCEPT !.woken = @ \ {t}]
  IN IF r.value > 0 THEN WakeNext(r) ELSE r

(* The waiter t is cancelled before it is given a permit, and after.        *)
Unawaited(s, t) ==
  IF Contains(s.waiters, t)
  THEN LET i == CHOOSE i \in 1..Len(s.waiters) : s.waiters[i] = t
       IN [s EXCEPT !.waiters = RemoveAt(@, i)]
  ELSE s

Declined(s, t) == Released([s EXCEPT !.woken = @ \ {t}])

-----------------------------------------------------------------------------
(* One task for each worker there may be.                                   *)
PermitsOffByOne == MaxWorkers + 1
Permits == MaxWorkers

Init ==
  /\ taskSema = Semaphore(Permits)
  /\ startSema = Semaphore(MaxStarting)
  /\ idle = <<>>
  /\ created = 0
  /\ closing = FALSE
  /\ pc = [t \in Tasks |-> "out"]
  /\ wk = [t \in Tasks |-> NoWorker]
  /\ reap = [t \in Tasks |-> <<>>]
  /\ cancelReq = {}
  /\ sweep = <<>>
  /\ up = {}
  /\ dead = {}
  /\ used = {}

Goes(t, stage) == pc' = [pc EXCEPT ![t] = stage]

(* The call ends and gives back its permit of _task_sema.                   *)
LeavesKeepingPermit(t) ==
  /\ Goes(t, "out")
  /\ wk' = [wk EXCEPT ![t] = NoWorker]
  /\ UNCHANGED taskSema
LeavesTwice(t) ==
  /\ Goes(t, "out")
  /\ wk' = [wk EXCEPT ![t] = NoWorker]
  /\ taskSema' = Released(Released(taskSema))
Leaves(t) ==
  /\ Goes(t, "out")
  /\ wk' = [wk EXCEPT ![t] = NoWorker]
  /\ taskSema' = Released(taskSema)

(* The session of w is gone, or the shutdown of w was cut short.            *)
Ended(w) == up' = up \ {w} /\ dead' = dead \ {w} /\ used' = used \ {w}
CutShort(w) == Ended(w) \/ UNCHANGED sessions

(* A worker object the factory has not handed out, or that is gone again.   *)
Fresh == {w \in Workers \ up : \A t \in Tasks : wk[t] # w}

(* A reused worker is reset; a new one waits for a permit of _start_sema.   *)
StartsNew(t) ==
  \/ /\ Available(startSema)
     /\ startSema' = Acquired(startSema)
     /\ Goes(t, "starting")
     /\ \E w \in Fresh : wk' = [wk EXCEPT ![t] = w]
  \/ /\ ~Available(startSema)
     /\ startSema' = Awaited(startSema, t)
     /\ Goes(t, "startWait")
     /\ wk' = [wk EXCEPT ![t] = NoWorker]

UnresetReuse(t, w) ==
  \/ /\ w # NoWorker
     /\ Goes(t, "running")
     /\ wk' = [wk EXCEPT ![t] = w]
     /\ UNCHANGED startSema
  \/ w = NoWorker /\ StartsNew(t)
Proceeds(t, w) ==
  \/ /\ w # NoWorker
     /\ Goes(t, "resetting")
     /\ wk' = [wk EXCEPT ![t] = w]
     /\ UNCHANGED startSema
  \/ w = NoWorker /\ StartsNew(t)

(* What _get_or_create leaves of the idle workers when it takes the n-th.   *)
LeftIdlePeek(n) == SubSeq(idle, 1, n)
LeftIdle(n) == SubSeq(idle, 1, n - 1)

(* _get_or_create: the idle workers are popped up to the n-th, the first    *)
(* that is alive, or all of them; the dead ones among them are retired, and *)
(* a new worker is counted if none is alive.                                *)
GetsWorker(t) ==
  \E n \in 0..Len(idle) :
    LET w == IF n = 0 THEN NoWorker ELSE idle[n]
        doomed == [i \in 1..(Len(idle) - n) |-> idle[Len(idle) + 1 - i]]
    IN /\ n > 0 => idle[n] \notin dead
       /\ \A i \in (n + 1)..Len(idle) : idle[i] \in dead
       /\ idle' = LeftIdle(n)
       /\ created' = created - Len(doomed) + (IF n = 0 THEN 1 ELSE 0)
       /\ reap' = [reap EXCEPT ![t] = doomed]
       /\ \/ /\ doomed = <<>>
             /\ Proceeds(t, w)
          \/ /\ doomed # <<>>
             /\ Goes(t, "reaping")
             /\ wk' = [wk EXCEPT ![t] = w]
             /\ UNCHANGED startSema

(* send() on a pool that is not closing.                                    *)
Send(t) ==
  /\ pc[t] = "out"
  /\ ~closing
  /\ \/ /\ Available(taskSema)
        /\ taskSema' = Acquired(taskSema)
        /\ GetsWorker(t)
     \/ /\ ~Available(taskSema)
        /\ taskSema' = Awaited(taskSema, t)
        /\ Goes(t, "waiting")
        /\ UNCHANGED <<startSema, idle, created, wk, reap>>
  /\ UNCHANGED <<sessions, closing, cancelReq, sweep>>

GetsPermit(t) ==
  /\ pc[t] = "waiting"
  /\ t \in taskSema.woken
  /\ t \notin cancelReq
  /\ taskSema' = Resumed(taskSema, t)
  /\ GetsWorker(t)
  /\ UNCHANGED <<sessions, closing, cancelReq, sweep>>

(* A dead worker is retired; the last one lets the call proceed.            *)
Reaped(t) ==
  /\ pc[t] = "reaping"
  /\ t \notin cancelReq
  /\ Ended(Head(reap[t]))
  /\ reap' = [reap EXCEPT ![t] = Tail(@)]
  /\ \/ /\ Tail(reap[t]) = <<>>
        /\ Proceeds(t, wk[t])
     \/ /\ Tail(reap[t]) # <<>>
        /\ UNCHANGED <<pc, wk, startSema>>
  /\ UNCHANGED <<pool, taskSema, cancelReq>>

GetsStartPermit(t) ==
  /\ pc[t] = "startWait"
  /\ t \in startSema.woken
  /\ t \notin cancelReq
  /\ startSema' = Resumed(startSema, t)
  /\ Goes(t, "starting")
  /\ \E w \in Fresh : wk' = [wk EXCEPT ![t] = w]
  /\ UNCHANGED <<pool, sessions, taskSema, reap, cancelReq>>

(* start() returns; the new worker runs the step.                           *)
Started(t) ==
  /\ pc[t] = "starting"
  /\ t \notin cancelReq
  /\ startSema' = Released(startSema)
  /\ up' = up \union {wk[t]}
  /\ Goes(t, "running")
  /\ UNCHANGED <<pool, taskSema, wk, reap, cancelReq, dead, used>>

(* start() raises or is cancelled, or the wait for it is cancelled; what it *)
(* had made of a session by then is the session manager's to undo.          *)
StartFails(t) ==
  /\ \/ /\ pc[t] = "starting"
        /\ "fail" \in Events \/ t \in cancelReq
        /\ startSema' = Released(startSema)
     \/ /\ pc[t] = "startWait"
        /\ t \in cancelReq
        /\ startSema' = IF t \in startSema.woken THEN Declined(startSema, t)
                                                 ELSE startSema
  /\ created' = created - 1
  /\ cancelReq' = cancelReq \ {t}
  /\ Leaves(t)
  /\ UNCHANGED <<sessions, idle, closing, reap, sweep>>

(* reset(): a new conversation on the live process or, failing that, a new  *)
(* process under the same key, which the session manager does not resume.   *)
ResetSucceeds(t) ==
  /\ pc[t] = "resetting"
  /\ t \notin cancelReq
  /\ used' = used \ {wk[t]}
  /\ dead' = dead \ {wk[t]}
  /\ Goes(t, "running")
  /\ UNCHANGED <<semas, pool, wk, reap, cancelReq, up>>

(* release(), called by t's send().                                         *)
OneLess == created - 1

KeepsWorkerWhenClosing(t, healthy) == healthy /\ wk[t] \notin dead
KeepsWorker(t, healthy) == healthy /\ ~closing /\ wk[t] \notin dead

ReleaseWithoutRetiring(t, healthy) ==
  \/ /\ KeepsWorker(t, healthy)
     /\ idle' = Append(idle, wk[t])
     /\ Leaves(t)
     /\ UNCHANGED created
  \/ /\ ~KeepsWorker(t, healthy)
     /\ created' = OneLess
     /\ Leaves(t)
     /\ UNCHANGED idle

Release(t, healthy) ==
  \/ /\ KeepsWorker(t, healthy)
     /\ idle' = Append(idle, wk[t])
     /\ Leaves(t)
     /\ UNCHANGED created
  \/ /\ ~KeepsWorker(t, healthy)
     /\ created' = OneLess
     /\ Goes(t, "retiring")
     /\ UNCHANGED <<taskSema, idle, wk>>

(* The step is over; it leaves its context in the conversation.             *)
StepReturns(t) ==
  /\ pc[t] = "running"
  /\ t \notin cancelReq
  /\ used' = used \union {wk[t]}
  /\ Release(t, TRUE)
  /\ UNCHANGED <<startSema, closing, reap, cancelReq, sweep, up, dead>>

(* The reset or the step raises, times out or is cancelled.                 *)
StepFails(t) ==
  /\ pc[t] \in {"resetting", "running"}
  /\ "fail" \in Events \/ t \in cancelReq \/ wk[t] \in dead
  /\ used' = used \union {wk[t]}
  /\ Release(t, FALSE)
  /\ cancelReq' = cancelReq \ {t}
  /\ UNCHANGED <<startSema, closing, reap, sweep, up, dead>>

Retired(t) ==
  /\ pc[t] = "retiring"
  /\ t \notin cancelReq
  /\ Ended(wk[t])
  /\ Leaves(t)
  /\ UNCHANGED <<pool, startSema, reap, cancelReq>>

(* Cancelled while it reaps, a call may leave _created too high for good:   *)
(* this bounds how high.                                                    *)
MayLeak == created <= MaxWorkers

(* task.cancel(): the future of a waiter is cancelled at once, the call     *)
(* itself sees the cancellation when it is next scheduled.                  *)
Cancel(t) ==
  /\ t \notin cancelReq
  /\ pc[t] # "out"
  /\ IF pc[t] \in {"reaping", "retiring"} THEN "cancelCleanup" \in Events /\ MayLeak
                                         ELSE "cancel" \in Events
  /\ cancelReq' = cancelReq \union {t}
  /\ taskSema' = Unawaited(taskSema, t)
  /\ startSema' = Unawaited(startSema, t)
  /\ UNCHANGED <<calls, pool, sessions>>

CancelledWaiting(t) ==
  /\ pc[t] = "waiting"
  /\ t \in cancelReq
  /\ cancelReq' = cancelReq \ {t}
  /\ taskSema' = IF t \in taskSema.woken THEN Declined(taskSema, t) ELSE taskSema
  /\ Goes(t, "out")
  /\ UNCHANGED <<pool, sessions, startSema, wk, reap>>

(* The shutdown the call awaits is cut short.  In _get_or_create nothing    *)
(* handles this: the call leaves with what it has popped and counted.       *)
CancelledCleanup(t) ==
  /\ pc[t] \in {"reaping", "retiring"}
  /\ t \in cancelReq
  /\ cancelReq' = cancelReq \ {t}
  /\ CutShort(IF pc[t] = "reaping" THEN Head(reap[t]) ELSE wk[t])
  /\ reap' = [reap EXCEPT ![t] = <<>>]
  /\ Leaves(t)
  /\ UNCHANGED <<pool, startSema>>

(* The process of an idle or busy worker dies.                              *)
Dies(w) ==
  /\ "die" \in Events
  /\ w \in up \ dead
  /\ dead' = dead \union {w}
  /\ UNCHANGED <<semas, calls, pool, cancelReq, up, used>>

(* shutdown(): the idle workers are taken and retired one after the other.  *)
Shutdown ==
  /\ "shutdown" \in Events
  /\ ~closing
  /\ closing' = TRUE
  /\ idle' = <<>>
  /\ created' = created - Len(idle)
  /\ sweep' = idle
  /\ UNCHANGED <<semas, calls, sessions, cancelReq>>

Swept ==
  /\ sweep # <<>>
  /\ Ended(Head(sweep))
  /\ sweep' = Tail(sweep)
  /\ UNCHANGED <<semas, calls, idle, created, closing, cancelReq>>

ShutdownCancelled ==
  /\ "cancelCleanup" \in Events
  /\ sweep # <<>>
  /\ CutShort(Head(sweep))
  /\ sweep' = <<>>
  /\ UNCHANGED <<semas, calls, idle, created, closing, cancelReq>>

Serves(t) ==
  \/ GetsPermit(t) \/ Reaped(t) \/ GetsStartPermit(t) \/ Started(t)
  \/ StartFails(t) \/ ResetSucceeds(t) \/ StepReturns(t) \/ StepFails(t)
  \/ Retired(t) \/ CancelledWaiting(t) \/ CancelledCleanup(t)

Next ==
  \/ \E t \in Tasks : Send(t) \/ Cancel(t) \/ Serves(t)
  \/ \E w \in Workers : Dies(w)
  \/ Shutdown \/ Swept \/ ShutdownCancelled

Spec == Init /\ [][Next]_vars

(***************************************************************************)
(* Fairness: the event loop runs a call that is ready; a start, a reset, a *)
(* step and a shutdown of a worker end, a step by its timeout at the latest*)
(* (default_timeout).  Nobody has to call send(), to cancel or to shut the *)
(* pool down.                                                              *)
(***************************************************************************)
FairSpec == Spec /\ (\A t \in Tasks : WF_vars(Serves(t))) /\ WF_vars(Swept)

-----------------------------------------------------------------------------
SemaphoreType(max) == [value : 0..max, waiters : Seq(Tasks), woken : SUBSET Tasks]

(* Every variable keeps the kind of value the code gives it; no semaphore   *)
(* hands out more permits than it has, and _created never goes negative.    *)
TypeOK ==
  /\ taskSema \in SemaphoreType(MaxWorkers)
  /\ startSema \in SemaphoreType(MaxStarting)
  /\ idle \in Seq(Workers)
  /\ created \in Nat
  /\ closing \in BOOLEAN
  /\ pc \in [Tasks -> Stages]
  /\ wk \in [Tasks -> Workers \union {NoWorker}]
  /\ reap \in [Tasks -> Seq(Workers)]
  /\ cancelReq \subseteq Tasks
  /\ sweep \in Seq(Workers)
  /\ up \subseteq Workers
  /\ dead \subseteq up
  /\ used \subseteq up

At(stages) == {t \in Tasks : pc[t] \in stages}

(* No permit is lost or handed out twice, whatever way a call ends.         *)
PermitsConserved ==
  /\ taskSema.value + Cardinality(taskSema.woken)
       + Cardinality(At(Stages \ {"out", "waiting"})) = MaxWorkers
  /\ startSema.value + Cardinality(startSema.woken)
       + Cardinality(At({"starting"})) = MaxStarting

(* There are no more than _max_workers live sessions, but for those being   *)
(* shut down.                                                               *)
LiveBounded ==
  LET retiring == ToSet(sweep) \union {wk[t] : t \in At({"retiring"})}
  IN Cardinality(up \ (dead \union retiring)) <= MaxWorkers

(* A step runs on a conversation no other step has left its context in.     *)
CleanSlate == \A t \in At({"running"}) : wk[t] \notin used

(* No live worker is lost on the way from the idle workers to a call and    *)
(* back: the pool will reuse it or retire it, being idle, in the hands of a *)
(* call, or one of those a call or shutdown() has still to retire.          *)
NoneForgotten ==
  up \ dead \subseteq ToSet(idle) \union {wk[t] : t \in Tasks} \union ToSet(sweep)
                     \union UNION {ToSet(reap[t]) : t \in Tasks}

(* Every call that waits for a permit gets one or is cancelled.             *)
CallsAreServed == \A t \in Tasks : pc[t] = "waiting" ~> pc[t] # "waiting"

(* After shutdown() the calls under way end and no session stays.           *)
PoolDrains == closing ~> up = {}

(* The pool implements the leases it promises.                              *)
Holder(w) ==
  IF \E t \in Tasks : wk[t] = w /\ pc[t] # "retiring"
  THEN CHOOSE t \in Tasks : wk[t] = w /\ pc[t] # "retiring"
  ELSE IF w \in ToSet(idle) THEN "idle" ELSE "out"

Leases == INSTANCE WorkerLeases WITH holder <- [w \in Workers |-> Holder(w)]

(* Every step of the pool is a step of the leases or leaves them alone: no  *)
(* two calls ever have the same worker.                                     *)
ImplementsLeases == Leases!Spec
=============================================================================
