-------------------------- MODULE SubagentManager --------------------------
(***************************************************************************)
(* The SubagentManager of codex_crew (subagent.py and the coordinators of  *)
(* subagent_manager/): admission of background agents through a staggered  *)
(* queue, spawn approval, the run task with its teardown, the one-shot     *)
(* recovery of an unexpected cancellation, user stop, the reaper, the      *)
(* single terminal report of an agent and the shutdown of the manager.     *)
(*                                                                         *)
(* The code is asyncio code on one event loop: what runs between two       *)
(* awaits is one atomic step here, and every await is a point where any    *)
(* other task may run.  Task.cancel() only asks for a CancelledError, which*)
(* the task sees when it is next scheduled (cancelReq, recCancel).         *)
(***************************************************************************)
EXTENDS Integers, Sequences, FiniteSets

CONSTANTS
  Agents,         \* agent ids, each submitted at most once
  Batched,        \* those submitted with a batch_id
  MaxConcurrent,  \* _max_concurrent
  Gates,          \* how spawn() may decide a submission, see Outcome
  Events          \* what may happen to the manager in an instance

GateKinds == {"reject", "auto", "approval", "hooksNone", "bareNone"}

EventKinds ==
  {"fail",        \* a run raises, times out or reaches a limit
   "tools",       \* a run executes tools
   "stray",       \* a run task is cancelled from outside the manager
   "stop",        \* cancel()
   "stopAll",     \* cancel_for_parent()
   "reap",        \* the reaper finds agents past a deadline
   "failReport",  \* _on_done raises or times out
   "shutdown"}    \* cancel_all()

ASSUME AgentsAssumption == IsFiniteSet(Agents)
ASSUME BatchedAssumption == Batched \subseteq Agents
ASSUME MaxConcurrentAssumption == MaxConcurrent \in Nat \ {0}
ASSUME GatesAssumption == Gates \subseteq GateKinds
ASSUME EventsAssumption == Events \subseteq EventKinds

VARIABLES
  queue,         \* _queue: submissions waiting for a slot, oldest first
  runningCount,  \* _running_count
  tooSoon,       \* the last start is less than _spawn_stagger_secs old
  drainTimer,    \* some call_later(_drain_queue) is pending
  task,          \* where each agent's submission or run task stands
  cancelReq,     \* agents whose run task was cancelled but has not seen it
  info,          \* the SubagentInfo of each agent
  tomb,          \* the tombstone.json of each agent's folder
  rec,           \* the recovery task "{id}:recovery" of each agent
  recCancel,     \* agents whose recovery task was cancelled but has not seen it
  rep,           \* the terminal report task of each agent
  stop,          \* the caller of cancel(id) of each agent
  reaper,        \* the reaper loop: its step and the agent it is at
  shutdown,      \* cancel_all: "up" until it is called
  awaited,       \* tasks cancel_all gathers
  draining       \* agents whose report cancel_all waits for

admission == <<queue, runningCount, tooSoon, drainTimer>>
vars == <<admission, task, cancelReq, info, tomb, rec, recCancel, rep, stop,
          reaper, shutdown, awaited, draining>>

(***************************************************************************)
(* The record of an agent.  announced counts the calls of _on_done made    *)
(* for the agent; logged says that its state folder exists; byRun that its *)
(* report was spawned by the run itself, which alone marks delivery.       *)
(***************************************************************************)
NewInfo ==
  [done |-> FALSE, error |-> FALSE, userStopped |-> FALSE, reaped |-> FALSE,
   reapStarted |-> FALSE, recovering |-> FALSE, retryUsed |-> FALSE,
   finalized |-> FALSE, slotReleased |-> FALSE, reported |-> FALSE,
   tools |-> FALSE, byRun |-> FALSE, logged |-> FALSE, announced |-> 0]

TaskStates ==
  {"unspawned",    \* spawn() has not been called for it
   "queued",       \* its parameters are in _queue
   "rejected",     \* spawn() refused it
   "stopped",      \* stopped by the user while still queued
   "approval",     \* _spawn_with_approval awaits the decision
   "announce",     \* approval declined, awaiting _safe_announce
   "created",      \* the task of _run exists, its first step is to come
   "running",      \* inside _run_inner
   "teardown",     \* in the finally of _run, awaiting the session teardown
   "awaitReport",  \* _run awaits its shielded report
   "ended"}

(* Run tasks that _tasks still holds while they are not reaped. *)
Live == {"approval", "created", "running", "teardown"}

(* The agents spawn() put in _agents and counted as running. *)
Started == Live \union {"announce", "awaitReport", "ended"}

(* The agents that hold one of the MaxConcurrent slots. *)
Holders == {a \in Agents : task[a] \in Started /\ ~info[a].slotReleased}

Reporting == {"inject", "gate"}

ShuttingDown == shutdown # "up"

Init ==
  /\ queue = <<>>
  /\ runningCount = 0
  /\ tooSoon = FALSE
  /\ drainTimer = FALSE
  /\ task = [a \in Agents |-> "unspawned"]
  /\ cancelReq = {}
  /\ info = [a \in Agents |-> NewInfo]
  /\ tomb = [a \in Agents |-> "none"]
  /\ rec = [a \in Agents |-> "none"]
  /\ recCancel = {}
  /\ rep = [a \in Agents |-> "none"]
  /\ stop = [a \in Agents |-> "none"]
  /\ reaper = [pc |-> "idle", at |-> {}]
  /\ shutdown = "up"
  /\ awaited = {}
  /\ draining = {}

-----------------------------------------------------------------------------
(***************************************************************************)
(* Admission.                                                              *)
(***************************************************************************)

(* _drain_queue announces a refusal that _announce_rejection leaves out.    *)
DrainAnnouncesAll(a, fromQueue) == fromQueue
DrainAnnounces(a, fromQueue) == fromQueue /\ a \notin Batched

(* What spawn() makes of submission a once it is neither queued nor, when   *)
(* it comes from the queue, re-queued.  gate is what it meets: a refusal    *)
(* before registration (memory, governance, working directory, agent name),*)
(* an approval that is automatic or to be asked for, or no approval         *)
(* mechanism, with and without a hook configuration.  A refused submission  *)
(* is announced by _announce_rejection when it is batched, by the bare      *)
(* no-mechanism branch always, and by _drain_queue when it is not batched.  *)
Outcome(gate, a, fromQueue) ==
  LET byDrain == IF DrainAnnounces(a, fromQueue) THEN 1 ELSE 0
      byBatch == IF a \in Batched THEN 1 ELSE 0
  IN CASE gate = "auto"      -> [pc |-> "created",  stamps |-> TRUE,  calls |-> 0]
       [] gate = "approval"  -> [pc |-> "approval", stamps |-> TRUE,  calls |-> 0]
       [] gate = "hooksNone" -> [pc |-> "rejected", stamps |-> TRUE,  calls |-> byBatch + byDrain]
       [] gate = "bareNone"  -> [pc |-> "rejected", stamps |-> TRUE,  calls |-> 1 + byDrain]
       [] gate = "reject"    -> [pc |-> "rejected", stamps |-> FALSE, calls |-> byBatch + byDrain]

(* The slots outcome o takes: a refusal gives back the one it took. *)
SlotsTaken(o) == IF o.pc = "rejected" THEN 0 ELSE 1

(* The record of an agent with outcome o; _log_spawned makes its folder. *)
Recorded(i, o) ==
  [i EXCEPT !.done = (o.pc = "rejected"), !.error = (o.pc = "rejected"),
            !.logged = (o.pc = "created"), !.announced = o.calls]

SlotFreeOffByOne(count) == count <= MaxConcurrent
SlotFree(count) == count < MaxConcurrent

(* _drain_queue re-arms its timer while q could still be served.            *)
MoreToDrainOffByOne(q, count) == q # <<>> /\ SlotFree(count + 1)
MoreToDrain(q, count) == q # <<>> /\ SlotFree(count)

(* _drain_queue, called when the running count is count, the tasks are T,   *)
(* the records I and timer tells whether a drain timer is pending.          *)
DrainQueue(count, T, I, timer) ==
  IF queue = <<>> \/ ~SlotFree(count)
  THEN /\ runningCount' = count
       /\ task' = T
       /\ info' = I
       /\ drainTimer' = timer
       /\ UNCHANGED <<queue, tooSoon>>
  ELSE \/ /\ tooSoon
          /\ drainTimer' = TRUE
          /\ runningCount' = count
          /\ task' = T
          /\ info' = I
          /\ UNCHANGED <<queue, tooSoon>>
       \/ /\ ~tooSoon
          /\ \E gate \in Gates :
               LET h == Head(queue)
                   o == Outcome(gate, h, TRUE)
               IN /\ runningCount' = count + SlotsTaken(o)
                  /\ task' = [T EXCEPT ![h] = o.pc]
                  /\ info' = [I EXCEPT ![h] = Recorded(@, o)]
                  /\ tooSoon' = o.stamps
                  /\ drainTimer' = \/ timer
                                   \/ MoreToDrain(Tail(queue), count + SlotsTaken(o))
          /\ queue' = Tail(queue)

(* spawn(): refused, queued behind the stagger and concurrency gate, or     *)
(* started.  Gateway shutdown closes the callers of spawn before the        *)
(* manager; only the manager's own drain spawns after that.                 *)
Spawn(a) ==
  /\ task[a] = "unspawned"
  /\ ~ShuttingDown
  /\ LET slotFree == SlotFree(runningCount)
     IN \/ /\ "reject" \in Gates
           /\ task' = [task EXCEPT ![a] = "rejected"]
           /\ info' = [info EXCEPT ![a] = Recorded(@, Outcome("reject", a, FALSE))]
           /\ UNCHANGED admission
        \/ /\ ~slotFree \/ tooSoon
           /\ queue' = Append(queue, a)
           /\ task' = [task EXCEPT ![a] = "queued"]
           /\ drainTimer' = (drainTimer \/ slotFree)
           /\ UNCHANGED <<runningCount, tooSoon, info>>
        \/ /\ slotFree
           /\ ~tooSoon
           /\ \E gate \in Gates \ {"reject"} :
                LET o == Outcome(gate, a, FALSE)
                IN /\ task' = [task EXCEPT ![a] = o.pc]
                   /\ info' = [info EXCEPT ![a] = Recorded(@, o)]
                   /\ runningCount' = runningCount + SlotsTaken(o)
                   /\ drainTimer' = (drainTimer \/ (SlotsTaken(o) = 0 /\ queue # <<>>))
           /\ tooSoon' = TRUE
           /\ UNCHANGED queue
  /\ UNCHANGED <<cancelReq, tomb, rec, recCancel, rep, stop, reaper, shutdown,
                 awaited, draining>>

(* _spawn_stagger_secs pass since the last start. *)
StaggerElapses ==
  /\ tooSoon
  /\ tooSoon' = FALSE
  /\ UNCHANGED <<queue, runningCount, drainTimer, task, cancelReq, info, tomb,
                 rec, recCancel, rep, stop, reaper, shutdown, awaited, draining>>

(* A call_later(_drain_queue) fires; others may still be pending. *)
DrainTimerFires ==
  /\ drainTimer
  /\ \E others \in BOOLEAN : DrainQueue(runningCount, task, info, others)
  /\ UNCHANGED <<cancelReq, tomb, rec, recCancel, rep, stop, reaper, shutdown,
                 awaited, draining>>

-----------------------------------------------------------------------------
(***************************************************************************)
(* The guards every terminal path goes through.                            *)
(***************************************************************************)

(* _claim_finalize grants the report of record i. *)
MayClaimPatiently(i, supersede) == ~i.recovering /\ ~i.finalized
MayClaim(i, supersede) == (~i.recovering \/ supersede) /\ ~i.finalized

(* The record after a claim, and after the report task it leads to is made: *)
(* _report_terminal sets done and calls _on_done.                           *)
Claimed(i, supersede) ==
  IF MayClaim(i, supersede)
  THEN [i EXCEPT !.recovering = FALSE, !.finalized = TRUE, !.done = TRUE,
                 !.announced = @ + 1]
  ELSE i

(* A failure is written into the record. *)
Failed(i) == [i EXCEPT !.done = TRUE, !.error = TRUE]

(* _release_slot with what its winner does: give the slot back and drain.   *)
ReleaseSlotUntokened(a, T, I) ==
  DrainQueue(runningCount - 1, T, [I EXCEPT ![a].slotReleased = TRUE], drainTimer)
ReleaseSlotUnlessReaped(a, T, I) ==
  IF I[a].slotReleased \/ I[a].reaped
  THEN task' = T /\ info' = I /\ UNCHANGED admission
  ELSE DrainQueue(runningCount - 1, T, [I EXCEPT ![a].slotReleased = TRUE], drainTimer)
ReleaseSlot(a, T, I) ==
  IF I[a].slotReleased
  THEN task' = T /\ info' = I /\ UNCHANGED admission
  ELSE DrainQueue(runningCount - 1, T, [I EXCEPT ![a].slotReleased = TRUE], drainTimer)

-----------------------------------------------------------------------------
(***************************************************************************)
(* The run task: _spawn_with_approval and _run.  A pending cancellation is *)
(* what the task sees next, so its other steps need a \notin cancelReq.    *)
(***************************************************************************)

(* The end of _run: the slot is released, the teardown gate opens and the   *)
(* run awaits the report it spawned, except during shutdown.                *)
RunExit(a, I, awaitsReport) ==
  ReleaseSlot(a, [task EXCEPT ![a] = IF awaitsReport /\ ~ShuttingDown
                                     THEN "awaitReport" ELSE "ended"], I)

(* The finally of _run, entered with record i: the report is claimed and    *)
(* spawned before the teardown, which is left to the reaper once reaped.    *)
RunFinally(a, i) ==
  LET mine == MayClaim(i, FALSE)
      I == [info EXCEPT ![a] = IF mine THEN [Claimed(i, FALSE) EXCEPT !.byRun = TRUE]
                                       ELSE i]
  IN /\ rep' = IF mine THEN [rep EXCEPT ![a] = "inject"] ELSE rep
     /\ IF i.reaped
        THEN RunExit(a, I, mine)
        ELSE /\ task' = [task EXCEPT ![a] = "teardown"]
             /\ info' = I
             /\ UNCHANGED admission

SpawnApproved(a) ==
  /\ task[a] = "approval"
  /\ a \notin cancelReq
  /\ task' = [task EXCEPT ![a] = "running"]
  /\ info' = [info EXCEPT ![a].logged = TRUE]
  /\ UNCHANGED <<admission, cancelReq, tomb, rec, recCancel, rep, stop, reaper,
                 shutdown, awaited, draining>>

(* Declined, or asking for the decision failed.                             *)
SpawnDeclined(a) ==
  /\ task[a] = "approval"
  /\ a \notin cancelReq
  /\ LET i == Failed(info[a])
         pc == IF MayClaim(i, FALSE) THEN "announce" ELSE "ended"
     IN ReleaseSlot(a, [task EXCEPT ![a] = pc], [info EXCEPT ![a] = Claimed(i, FALSE)])
  /\ UNCHANGED <<cancelReq, tomb, rec, recCancel, rep, stop, reaper, shutdown,
                 awaited, draining>>

AnnounceReturns(a) ==
  /\ task[a] = "announce"
  /\ task' = [task EXCEPT ![a] = "ended"]
  /\ UNCHANGED <<admission, cancelReq, info, tomb, rec, recCancel, rep, stop,
                 reaper, shutdown, awaited, draining>>

(* A task cancelled before its first step, or while it awaits the approval, *)
(* ends without running any of the handlers of _run.                        *)
ApprovalOutlivesCancel(a) ==
  /\ task[a] = "created"
  /\ a \in cancelReq
  /\ task' = [task EXCEPT ![a] = "ended"]
  /\ cancelReq' = cancelReq \ {a}
  /\ UNCHANGED <<admission, info, tomb, rec, recCancel, rep, stop, reaper,
                 shutdown, awaited, draining>>
CancelledBeforeRun(a) ==
  /\ task[a] \in {"approval", "created"}
  /\ a \in cancelReq
  /\ task' = [task EXCEPT ![a] = "ended"]
  /\ cancelReq' = cancelReq \ {a}
  /\ UNCHANGED <<admission, info, tomb, rec, recCancel, rep, stop, reaper,
                 shutdown, awaited, draining>>

RunStarts(a) ==
  /\ task[a] = "created"
  /\ a \notin cancelReq
  /\ task' = [task EXCEPT ![a] = "running"]
  /\ UNCHANGED <<admission, cancelReq, info, tomb, rec, recCancel, rep, stop,
                 reaper, shutdown, awaited, draining>>

(* The turn executes its first tool: tool_count > 0 from here on.           *)
RunUsesTool(a) ==
  /\ "tools" \in Events
  /\ task[a] = "running"
  /\ a \notin cancelReq
  /\ ~info[a].tools
  /\ info' = [info EXCEPT ![a].tools = TRUE]
  /\ UNCHANGED <<admission, task, cancelReq, tomb, rec, recCancel, rep, stop,
                 reaper, shutdown, awaited, draining>>

RunCompletes(a) ==
  /\ task[a] = "running"
  /\ a \notin cancelReq
  /\ RunFinally(a, [info[a] EXCEPT !.done = TRUE])
  /\ UNCHANGED <<cancelReq, tomb, rec, recCancel, stop, reaper, shutdown,
                 awaited, draining>>

(* _run_inner times out, reaches a turn limit or raises; the session that a *)
(* stop or the reaper is resetting under it makes it raise, too.            *)
RunFails(a) ==
  /\ "fail" \in Events
  /\ task[a] = "running"
  /\ a \notin cancelReq
  /\ RunFinally(a, Failed(info[a]))
  /\ tomb' = [tomb EXCEPT ![a] = "cause"]
  /\ UNCHANGED <<cancelReq, rec, recCancel, stop, reaper, shutdown, awaited,
                 draining>>

(* Whether an unexpected cancellation of run i is recovered. *)
RecoversAfterTools(i, writing) ==
  ~i.userStopped /\ ~ShuttingDown /\ ~i.retryUsed /\ ~writing
Recovers(i, writing) ==
  ~i.userStopped /\ ~ShuttingDown /\ ~i.retryUsed /\ ~writing /\ ~i.tools

(* The CancelledError arm of _run: a reaped run leaves the record to the    *)
(* reaper; an unexpected cancellation of a run without side effects is      *)
(* recovered once; any other is terminal.  writing: the cancellation met a  *)
(* state write whose drain was still active or had timed out.               *)
RunCancelled(a) ==
  /\ task[a] = "running"
  /\ a \in cancelReq
  /\ cancelReq' = cancelReq \ {a}
  /\ \E writing \in BOOLEAN :
       LET i == info[a]
       IN \/ /\ i.reaped
             /\ RunFinally(a, i)
             /\ UNCHANGED <<tomb, rec>>
          \/ /\ ~i.reaped
             /\ Recovers(i, writing)
             /\ rec' = [rec EXCEPT ![a] = "created"]
             /\ RunFinally(a, [i EXCEPT !.retryUsed = TRUE, !.recovering = TRUE])
             /\ UNCHANGED tomb
          \/ /\ ~i.reaped
             /\ ~Recovers(i, writing)
             /\ RunFinally(a, Failed(i))
             /\ tomb' = [tomb EXCEPT ![a] = "cause"]
             /\ UNCHANGED rec
  /\ UNCHANGED <<recCancel, stop, reaper, shutdown, awaited, draining>>

(* The session teardown of _run returns, or is cut short by a cancellation, *)
(* which then leaves _run without awaiting the report.                      *)
TeardownEnds(a) ==
  /\ task[a] = "teardown"
  /\ RunExit(a, info, a \notin cancelReq /\ info[a].byRun)
  /\ cancelReq' = cancelReq \ {a}
  /\ UNCHANGED <<tomb, rec, recCancel, rep, stop, reaper, shutdown, awaited,
                 draining>>

RunReturns(a) ==
  /\ task[a] = "awaitReport"
  /\ rep[a] \notin Reporting
  /\ task' = [task EXCEPT ![a] = "ended"]
  /\ UNCHANGED <<admission, cancelReq, info, tomb, rec, recCancel, rep, stop,
                 reaper, shutdown, awaited, draining>>

(* Something outside the manager cancels the run task.                      *)
StrayCancel(a) ==
  /\ "stray" \in Events
  /\ task[a] \in Live
  /\ a \notin cancelReq
  /\ cancelReq' = cancelReq \union {a}
  /\ UNCHANGED <<admission, task, info, tomb, rec, recCancel, rep, stop, reaper,
                 shutdown, awaited, draining>>

-----------------------------------------------------------------------------
(***************************************************************************)
(* The terminal report, shielded from the cancellation of its awaiter.     *)
(***************************************************************************)

(* The teardown gate of a's run is not set yet. *)
GateNeverShut(a) == FALSE
GateShut(a) == task[a] = "teardown"

(* _on_done returned: the outcome reached the parent.  The delivered mark   *)
(* is left out for a failed agent, for a report the run did not spawn, and  *)
(* where the consumer holds the result or queued it (held); it waits for    *)
(* the teardown of the run, whose bound is below the wait's own.            *)
ReportInjected(a) ==
  /\ rep[a] = "inject"
  /\ info' = [info EXCEPT ![a].reported = TRUE]
  /\ \E held \in BOOLEAN :
       LET marks == info[a].byRun /\ ~info[a].error /\ ~held
           gated == marks /\ GateShut(a)
       IN /\ rep' = [rep EXCEPT ![a] = IF gated THEN "gate" ELSE "delivered"]
          /\ tomb' = IF marks /\ ~gated THEN [tomb EXCEPT ![a] = "delivered"] ELSE tomb
  /\ UNCHANGED <<admission, task, cancelReq, rec, recCancel, stop, reaper,
                 shutdown, awaited, draining>>

ReportPassesGate(a) ==
  /\ rep[a] = "gate"
  /\ ~GateShut(a)
  /\ rep' = [rep EXCEPT ![a] = "delivered"]
  /\ tomb' = [tomb EXCEPT ![a] = "delivered"]
  /\ UNCHANGED <<admission, task, cancelReq, info, rec, recCancel, stop, reaper,
                 shutdown, awaited, draining>>

(* _on_done raised, or timed out and notify_injection_failed was called.    *)
ReportFails(a) ==
  /\ "failReport" \in Events
  /\ rep[a] = "inject"
  /\ rep' = [rep EXCEPT ![a] = "failed"]
  /\ UNCHANGED <<admission, task, cancelReq, info, tomb, rec, recCancel, stop,
                 reaper, shutdown, awaited, draining>>

-----------------------------------------------------------------------------
(***************************************************************************)
(* The recovery task made by _schedule_cancel_recovery.                    *)
(***************************************************************************)
RecLive == {"created", "waitOrig", "waitSlot", "event", "report"}

(* The run task that _tasks still has for a.                                *)
Registered(a) == task[a] \in Live /\ ~info[a].reaped

(* Some force_reap of a is awaiting the reset of a's session.               *)
InReset(a) == stop[a] = "reset" \/ (reaper.pc = "reset" /\ reaper.at = {a})

RecoveryStarts(a) ==
  /\ rec[a] = "created"
  /\ a \notin recCancel
  /\ rec' = [rec EXCEPT ![a] = "waitOrig"]
  /\ UNCHANGED <<admission, task, cancelReq, info, tomb, recCancel, rep, stop,
                 reaper, shutdown, awaited, draining>>

(* The agent was settled, or is about to be, while its recovery waited. *)
OvertakenWhenDone(i) == i.done \/ ShuttingDown
Overtaken(i) == i.done \/ i.reapStarted \/ i.reaped \/ ShuttingDown

(* The original task has ended, or the poll for a slot found one: give up   *)
(* if the agent was overtaken, take a slot and respawn _run in one step if  *)
(* one is free, or keep waiting for a slot.                                 *)
RecoveryResumes(a) ==
  /\ a \notin recCancel
  /\ \/ rec[a] = "waitOrig" /\ task[a] \notin Live
     \/ rec[a] = "waitSlot" /\ SlotFree(runningCount)
  /\ \/ /\ Overtaken(info[a])
        /\ info' = [info EXCEPT ![a].recovering = FALSE]
        /\ rec' = [rec EXCEPT ![a] = "none"]
        /\ UNCHANGED <<runningCount, task>>
     \/ /\ ~Overtaken(info[a])
        /\ ~SlotFree(runningCount)
        /\ rec' = [rec EXCEPT ![a] = "waitSlot"]
        /\ UNCHANGED <<runningCount, task, info>>
     \/ /\ ~Overtaken(info[a])
        /\ SlotFree(runningCount)
        /\ runningCount' = runningCount + 1
        /\ info' = [info EXCEPT ![a].recovering = FALSE, ![a].slotReleased = FALSE]
        /\ task' = [task EXCEPT ![a] = "created"]
        /\ rec' = [rec EXCEPT ![a] = "event"]
  /\ UNCHANGED <<queue, tooSoon, drainTimer, cancelReq, tomb, recCancel, rep,
                 stop, reaper, shutdown, awaited, draining>>

(* The wait for the original task or for a slot runs out, or shutdown ends  *)
(* it: the recovery finalizes the agent itself.  The wait for the original  *)
(* task outlasts every session reset.                                       *)
RecoveryFails(a) ==
  /\ a \notin recCancel
  /\ \/ rec[a] = "waitOrig" /\ task[a] \in Live /\ ~InReset(a)
     \/ rec[a] = "waitSlot" /\ ~SlotFree(runningCount)
  /\ LET i == [info[a] EXCEPT !.recovering = FALSE]
         records == ~i.done /\ ~i.reapStarted /\ ~i.reaped
         j == IF records THEN Failed(i) ELSE i
         claims == MayClaim(j, FALSE)
     IN /\ info' = [info EXCEPT ![a] = Claimed(j, FALSE)]
        /\ tomb' = IF records THEN [tomb EXCEPT ![a] = "cause"] ELSE tomb
        /\ rep' = IF claims THEN [rep EXCEPT ![a] = "inject"] ELSE rep
        /\ rec' = [rec EXCEPT ![a] = IF claims THEN "report" ELSE "none"]
  /\ UNCHANGED <<admission, task, cancelReq, recCancel, stop, reaper, shutdown,
                 awaited, draining>>

(* The subagent_recovering event is sent, or the report it awaits is done.  *)
RecoveryReturns(a) ==
  /\ a \notin recCancel
  /\ rec[a] = "event" \/ (rec[a] = "report" /\ rep[a] \notin Reporting)
  /\ rec' = [rec EXCEPT ![a] = "none"]
  /\ UNCHANGED <<admission, task, cancelReq, info, tomb, recCancel, rep, stop,
                 reaper, shutdown, awaited, draining>>

(* The CancelledError arm of _resume_guarded: it writes the record unless a *)
(* live run owns it, and never reports.  Cancelled before its first step    *)
(* the task does not reach that arm.                                        *)
RecoveryCancelled(a) ==
  /\ a \in recCancel
  /\ rec' = [rec EXCEPT ![a] = "none"]
  /\ recCancel' = recCancel \ {a}
  /\ LET i == [info[a] EXCEPT !.recovering = FALSE]
         records == ~Registered(a) /\ ~i.done /\ ~i.reapStarted /\ ~i.reaped
     IN \/ /\ rec[a] = "created"
           /\ UNCHANGED <<info, tomb>>
        \/ /\ rec[a] # "created"
           /\ info' = [info EXCEPT ![a] = IF records THEN Failed(i) ELSE i]
           /\ tomb' = IF records THEN [tomb EXCEPT ![a] = "cause"] ELSE tomb
  /\ UNCHANGED <<admission, task, cancelReq, rep, stop, reaper, shutdown,
                 awaited, draining>>

-----------------------------------------------------------------------------
(***************************************************************************)
(* _force_reap, run by the caller of cancel() and by the reaper.           *)
(***************************************************************************)

(* Up to its first await: no respawn can happen from here on.               *)
ReapBegins(a, I) ==
  /\ info' = [I EXCEPT ![a].reapStarted = TRUE]
  /\ recCancel' = IF rec[a] \in RecLive THEN recCancel \union {a} ELSE recCancel

(* The record a reap leaves: the first terminal record of an agent stays.   *)
ReapedRecordAlways(i) ==
  [i EXCEPT !.reaped = TRUE, !.done = TRUE, !.error = @ \/ ~i.userStopped]
ReapedRecord(i) ==
  IF i.done THEN [i EXCEPT !.reaped = TRUE]
  ELSE [i EXCEPT !.reaped = TRUE, !.done = TRUE, !.error = @ \/ ~i.userStopped]

ReapClaims(a) == MayClaim(ReapedRecord(info[a]), TRUE)

(* After the session reset, up to the report: pop and cancel the run task,  *)
(* write the record if nobody has, release the slot, claim the report.      *)
ReapEnds(a) ==
  LET i == ReapedRecord(info[a])
  IN /\ cancelReq' = IF Registered(a) THEN cancelReq \union {a} ELSE cancelReq
     /\ tomb' = IF info[a].done THEN tomb ELSE [tomb EXCEPT ![a] = "cause"]
     /\ ReleaseSlot(a, task, [info EXCEPT ![a] = Claimed(i, TRUE)])
     /\ rep' = IF ReapClaims(a) THEN [rep EXCEPT ![a] = "inject"] ELSE rep

(* The record of a submission stopped in the queue, announced at once.      *)
QueuedStop(i) == [i EXCEPT !.userStopped = TRUE, !.finalized = TRUE,
                           !.done = TRUE, !.announced = @ + 1]

(* _unqueue pops the entry at k. *)
WithoutAt(q, k) ==
  [j \in 1..(Len(q) - 1) |-> IF j < k THEN q[j] ELSE q[j + 1]]

(* cancel() of an agent that waits in the queue.                            *)
CancelQueued(a) ==
  /\ "stop" \in Events
  /\ task[a] = "queued"
  /\ \E k \in 1..Len(queue) : queue[k] = a /\ queue' = WithoutAt(queue, k)
  /\ task' = [task EXCEPT ![a] = "stopped"]
  /\ info' = [info EXCEPT ![a] = QueuedStop(@)]
  /\ rep' = [rep EXCEPT ![a] = "inject"]
  /\ UNCHANGED <<runningCount, tooSoon, drainTimer, cancelReq, tomb, rec,
                 recCancel, stop, reaper, shutdown, awaited, draining>>

(* cancel() of an agent that was started and is not done.                   *)
StopBegins(a) ==
  /\ task[a] \in Started
  /\ ~info[a].done
  /\ ReapBegins(a, [info EXCEPT ![a].userStopped = TRUE])
  /\ stop' = [stop EXCEPT ![a] = "reset"]
  /\ UNCHANGED <<admission, task, cancelReq, tomb, rec, rep, reaper, shutdown,
                 awaited, draining>>

Cancel(a) == "stop" \in Events /\ stop[a] = "none" /\ StopBegins(a)

GatheredCancel(a) == stop[a] = "requested" /\ StopBegins(a)

(* The cancel() that cancel_for_parent gathered finds the agent done.       *)
CancelTooLate(a) ==
  /\ stop[a] = "requested"
  /\ info[a].done
  /\ stop' = [stop EXCEPT ![a] = "none"]
  /\ UNCHANGED <<admission, task, cancelReq, info, tomb, rec, recCancel, rep,
                 reaper, shutdown, awaited, draining>>

(* cancel_for_parent, with one parent for all agents: every queued agent is *)
(* stopped at once, cancel() of each running one becomes a task.            *)
CancelForParent ==
  LET running == {a \in Agents : /\ task[a] \in Started \ {"approval"}
                                 /\ ~info[a].done
                                 /\ stop[a] = "none"}
      waiting == {a \in Agents : task[a] = "queued"}
  IN /\ "stopAll" \in Events
     /\ running \union waiting # {}
     /\ stop' = [a \in Agents |-> IF a \in running THEN "requested" ELSE stop[a]]
     /\ queue' = <<>>
     /\ task' = [a \in Agents |-> IF a \in waiting THEN "stopped" ELSE task[a]]
     /\ info' = [a \in Agents |-> IF a \in waiting THEN QueuedStop(info[a]) ELSE info[a]]
     /\ rep' = [a \in Agents |-> IF a \in waiting THEN "inject" ELSE rep[a]]
     /\ UNCHANGED <<runningCount, tooSoon, drainTimer, cancelReq, tomb, rec,
                    recCancel, reaper, shutdown, awaited, draining>>

StopReaps(a) ==
  /\ stop[a] = "reset"
  /\ ReapEnds(a)
  /\ stop' = [stop EXCEPT ![a] = IF ReapClaims(a) THEN "report" ELSE "none"]
  /\ UNCHANGED <<rec, recCancel, reaper, shutdown, awaited, draining>>

StopReturns(a) ==
  /\ stop[a] = "report"
  /\ rep[a] \notin Reporting
  /\ stop' = [stop EXCEPT ![a] = "none"]
  /\ UNCHANGED <<admission, task, cancelReq, info, tomb, rec, recCancel, rep,
                 reaper, shutdown, awaited, draining>>

-----------------------------------------------------------------------------
(***************************************************************************)
(* The reaper loop: one agent at a time, each reap awaited.                *)
(***************************************************************************)

(* The sweep comes to an agent that is not done and awaits its stall check, *)
(* or finds it wedged in startup and reaps it without that await.           *)
ReaperVisits(a) ==
  /\ "reap" \in Events
  /\ reaper.pc = "idle"
  /\ task[a] \in Started
  /\ ~info[a].done
  /\ \/ /\ reaper' = [pc |-> "check", at |-> {a}]
        /\ UNCHANGED <<info, recCancel>>
     \/ /\ task[a] = "running"
        /\ reaper' = [pc |-> "reset", at |-> {a}]
        /\ ReapBegins(a, info)
  /\ UNCHANGED <<admission, task, cancelReq, tomb, rec, rep, stop, shutdown,
                 awaited, draining>>

(* After the stall check the agent is within its deadline, or it is reaped, *)
(* whether or not it is done by now.                                        *)
ReaperPasses(a) ==
  /\ reaper = [pc |-> "check", at |-> {a}]
  /\ reaper' = [pc |-> "idle", at |-> {}]
  /\ UNCHANGED <<admission, task, cancelReq, info, tomb, rec, recCancel, rep,
                 stop, shutdown, awaited, draining>>

ReaperExpires(a) ==
  /\ reaper = [pc |-> "check", at |-> {a}]
  /\ reaper' = [pc |-> "reset", at |-> {a}]
  /\ ReapBegins(a, info)
  /\ UNCHANGED <<admission, task, cancelReq, tomb, rec, rep, stop, shutdown,
                 awaited, draining>>

ReaperReaps(a) ==
  /\ reaper = [pc |-> "reset", at |-> {a}]
  /\ ReapEnds(a)
  /\ reaper' = IF ReapClaims(a) THEN [pc |-> "report", at |-> {a}]
                               ELSE [pc |-> "idle", at |-> {}]
  /\ UNCHANGED <<rec, recCancel, stop, shutdown, awaited, draining>>

ReaperReturns(a) ==
  /\ reaper = [pc |-> "report", at |-> {a}]
  /\ rep[a] \notin Reporting
  /\ reaper' = [pc |-> "idle", at |-> {}]
  /\ UNCHANGED <<admission, task, cancelReq, info, tomb, rec, recCancel, rep,
                 stop, shutdown, awaited, draining>>

-----------------------------------------------------------------------------
(***************************************************************************)
(* cancel_all.                                                             *)
(***************************************************************************)

(* The flag is up and the reaper is cancelled wherever it awaits; the       *)
(* follow-up watchers are gathered next.                                    *)
ShutdownBegins ==
  /\ "shutdown" \in Events
  /\ shutdown = "up"
  /\ shutdown' = "watchers"
  /\ reaper' = [pc |-> "dead", at |-> {}]
  /\ UNCHANGED <<admission, task, cancelReq, info, tomb, rec, recCancel, rep,
                 stop, awaited, draining>>

(* Every live task of _tasks is cancelled and becomes one to gather.        *)
ShutdownCancels ==
  /\ shutdown = "watchers"
  /\ shutdown' = "gather"
  /\ LET runs == {a \in Agents : Registered(a)}
         recs == {a \in Agents : rec[a] \in RecLive /\ a \notin recCancel}
     IN /\ cancelReq' = cancelReq \union runs
        /\ recCancel' = recCancel \union recs
        /\ awaited' = ({"run"} \X runs) \union ({"rec"} \X recs)
  /\ UNCHANGED <<admission, task, info, tomb, rec, rep, stop, reaper, draining>>

(* The gathered tasks have ended; the reports now pending are waited for.   *)
ShutdownGathers ==
  /\ shutdown = "gather"
  /\ \A a \in Agents : /\ <<"run", a>> \in awaited => task[a] = "ended"
                       /\ <<"rec", a>> \in awaited => rec[a] = "none"
  /\ shutdown' = "drain"
  /\ draining' = {a \in Agents : rep[a] \in Reporting}
  /\ UNCHANGED <<admission, task, cancelReq, info, tomb, rec, recCancel, rep,
                 stop, reaper, awaited>>

(* A report cancelled before _on_done returned: clear_tombstone. *)
ReadmittedUnclaimed(a) == ~info[a].finalized
Readmitted(a) == ~info[a].reported

(* The reports are done, or _REPORT_DRAIN_TIMEOUT has passed: stragglers    *)
(* are cancelled, and those that did not reach the parent become orphans.   *)
ShutdownDrains ==
  /\ shutdown = "drain"
  /\ shutdown' = "down"
  /\ LET late == {a \in draining : rep[a] \in Reporting}
     IN /\ rep' = [a \in Agents |-> IF a \in late THEN "cancelled" ELSE rep[a]]
        /\ tomb' = [a \in Agents |-> IF a \in late /\ Readmitted(a)
                                     THEN "none" ELSE tomb[a]]
  /\ UNCHANGED <<admission, task, cancelReq, info, rec, recCancel, stop, reaper,
                 awaited, draining>>

-----------------------------------------------------------------------------
Loop(a) ==
  \/ AnnounceReturns(a)
  \/ CancelledBeforeRun(a) \/ RunStarts(a) \/ RunCancelled(a)
  \/ TeardownEnds(a) \/ RunReturns(a)
  \/ ReportInjected(a) \/ ReportPassesGate(a) \/ ReportFails(a)
  \/ RecoveryStarts(a) \/ RecoveryResumes(a) \/ RecoveryFails(a)
  \/ RecoveryReturns(a) \/ RecoveryCancelled(a)
  \/ GatheredCancel(a) \/ CancelTooLate(a) \/ StopReaps(a) \/ StopReturns(a)
  \/ ReaperPasses(a) \/ ReaperExpires(a) \/ ReaperReaps(a) \/ ReaperReturns(a)

Next ==
  \/ \E a \in Agents :
       \/ Spawn(a)
       \/ SpawnApproved(a) \/ SpawnDeclined(a)
       \/ RunUsesTool(a) \/ RunCompletes(a) \/ RunFails(a) \/ StrayCancel(a)
       \/ CancelQueued(a) \/ Cancel(a)
       \/ ReaperVisits(a)
       \/ Loop(a)
  \/ CancelForParent
  \/ StaggerElapses \/ DrainTimerFires
  \/ ShutdownBegins \/ ShutdownCancels \/ ShutdownGathers \/ ShutdownDrains

Spec == Init /\ [][Next]_vars

(***************************************************************************)
(* Fairness.  The event loop runs every task that is ready; _run is bounded*)
(* by its wait_for, a report by _ON_DONE_TIMEOUT, a session reset by       *)
(* _RESET_TIMEOUT, a recovery by its two deadlines and the gathering of    *)
(* cancel_all by the tasks it cancelled.  The reaper comes to every agent  *)
(* in every sweep, and an agent that stays long enough is past its         *)
(* deadline.  Nobody has to submit, approve, stop or shut down.            *)
(***************************************************************************)
RunStep(a) ==
  \/ CancelledBeforeRun(a) \/ RunStarts(a) \/ RunCompletes(a) \/ RunFails(a)
  \/ RunCancelled(a) \/ TeardownEnds(a) \/ RunReturns(a) \/ AnnounceReturns(a)

ReportStep(a) == ReportInjected(a) \/ ReportPassesGate(a) \/ ReportFails(a)

RecoveryStep(a) ==
  \/ RecoveryStarts(a) \/ RecoveryResumes(a) \/ RecoveryFails(a)
  \/ RecoveryReturns(a) \/ RecoveryCancelled(a)

StopStep(a) ==
  GatheredCancel(a) \/ CancelTooLate(a) \/ StopReaps(a) \/ StopReturns(a)

ReaperStep(a) ==
  ReaperPasses(a) \/ ReaperExpires(a) \/ ReaperReaps(a) \/ ReaperReturns(a)

Fairness ==
  /\ \A a \in Agents : /\ WF_vars(RunStep(a))
                       /\ WF_vars(ReportStep(a))
                       /\ WF_vars(RecoveryStep(a))
                       /\ WF_vars(StopStep(a))
                       /\ WF_vars(ReaperStep(a))
                       /\ SF_vars(ReaperVisits(a))
                       /\ SF_vars(ReaperExpires(a))
  /\ WF_vars(StaggerElapses)
  /\ WF_vars(DrainTimerFires)
  /\ WF_vars(ShutdownCancels)
  /\ WF_vars(ShutdownGathers)
  /\ WF_vars(ShutdownDrains)

FairSpec == Spec /\ Fairness

(***************************************************************************)
(* Spec takes a queued stop for done at once.  In the code its record is in*)
(* _agents with done = False until the report task has run its first step, *)
(* and a second cancel() that is scheduled before it finds an agent to     *)
(* reap.  SpecStopTwice adds that pair of stops: the record is done when   *)
(* the second stop returns from its session reset, and StopReaps follows.  *)
(***************************************************************************)
QueuedStopTwice(a) ==
  /\ "stop" \in Events
  /\ task[a] = "queued"
  /\ stop[a] = "none"
  /\ \E k \in 1..Len(queue) : queue[k] = a /\ queue' = WithoutAt(queue, k)
  /\ task' = [task EXCEPT ![a] = "stopped"]
  /\ ReapBegins(a, [info EXCEPT ![a] = QueuedStop(@)])
  /\ rep' = [rep EXCEPT ![a] = "inject"]
  /\ stop' = [stop EXCEPT ![a] = "reset"]
  /\ UNCHANGED <<runningCount, tooSoon, drainTimer, cancelReq, tomb, rec,
                 reaper, shutdown, awaited, draining>>

NextStopTwice == Next \/ \E a \in Agents : QueuedStopTwice(a)

SpecStopTwice == Init /\ [][NextStopTwice]_vars

-----------------------------------------------------------------------------
(***************************************************************************)
(* Type invariant.                                                         *)
(***************************************************************************)
InfoType ==
  [done : BOOLEAN, error : BOOLEAN, userStopped : BOOLEAN, reaped : BOOLEAN,
   reapStarted : BOOLEAN, recovering : BOOLEAN, retryUsed : BOOLEAN,
   finalized : BOOLEAN, slotReleased : BOOLEAN, reported : BOOLEAN,
   tools : BOOLEAN, byRun : BOOLEAN, logged : BOOLEAN, announced : Nat]

(* Every variable keeps the kind of value the code gives it; in particular  *)
(* _running_count never becomes negative (admission.py, run.py, terminal.py).*)
TypeOK ==
  /\ queue \in Seq(Agents)
  /\ runningCount \in Nat
  /\ tooSoon \in BOOLEAN
  /\ drainTimer \in BOOLEAN
  /\ task \in [Agents -> TaskStates]
  /\ cancelReq \subseteq Agents
  /\ info \in [Agents -> InfoType]
  /\ tomb \in [Agents -> {"none", "cause", "delivered"}]
  /\ rec \in [Agents -> {"none"} \union RecLive]
  /\ recCancel \subseteq Agents
  /\ rep \in [Agents -> {"none", "delivered", "failed", "cancelled"} \union Reporting]
  /\ stop \in [Agents -> {"none", "requested", "reset", "report"}]
  /\ reaper \in [pc : {"idle", "check", "reset", "report", "dead"}, at : SUBSET Agents]
  /\ shutdown \in {"up", "watchers", "gather", "drain", "down"}
  /\ awaited \subseteq {"run", "rec"} \X Agents
  /\ draining \subseteq Agents

(***************************************************************************)
(* Slots.                                                                  *)
(***************************************************************************)

(* The counter that _run, _force_reap, a declined approval and a recovery   *)
(* all change is the number of agents that hold a slot, and within bounds:  *)
(* no interleaving of them releases a slot twice or takes one too many.     *)
SlotAccounting ==
  /\ runningCount = Cardinality(Holders)
  /\ runningCount <= MaxConcurrent

(* Not only the counter: the run tasks that exist and are not being         *)
(* cancelled never outnumber the slots, although a reap gives the slot back *)
(* while the run task it cancelled is still there.                          *)
OccupancyBounded ==
  Cardinality({a \in Agents : task[a] \in Live /\ a \notin cancelReq}) <= MaxConcurrent

(* While something is queued and a slot is free a drain is scheduled: the   *)
(* staggered drain never misses its wake-up, whatever frees the slot.       *)
NoLostWakeup == queue # <<>> /\ SlotFree(runningCount) => drainTimer

(***************************************************************************)
(* Records and reports.                                                    *)
(***************************************************************************)

(* The parent's _on_done is called at most once for an agent, whichever of  *)
(* the run, the reaper, a stop, a failed recovery and the queue ends it.    *)
AnnouncedOnce == \A a \in Agents : info[a].announced <= 1

(* The delivered mark, which hides the folder from orphan recovery, is only *)
(* on an agent without error whose outcome reached the parent and whose run *)
(* has left its session teardown.                                           *)
DeliveredTrailsTeardown ==
  \A a \in Agents :
    tomb[a] = "delivered" =>
      /\ info[a].reported
      /\ ~info[a].error
      /\ task[a] \in {"awaitReport", "ended"}

(* The outcome that was claimed for the report is the outcome of the agent  *)
(* from then on: no late arm of another terminal path rewrites it.          *)
OutcomeSettled ==
  [][\A a \in Agents :
       info[a].finalized => /\ info'[a].error = info[a].error
                            /\ info'[a].userStopped = info[a].userStopped
                            /\ info'[a].finalized]_vars

(***************************************************************************)
(* Recovery and stop.                                                      *)
(***************************************************************************)

(* A run is respawned only if it has executed no tool: side effects are     *)
(* never repeated by the auto-continue.                                     *)
NoReplayAfterTools ==
  [][\A a \in Agents :
       task[a] = "ended" /\ task'[a] # "ended" => ~info[a].tools]_vars

(* Once an agent is done or its reap has begun no task is started for it,   *)
(* neither from the queue nor by a recovery.                                *)
NoStartAfterStop ==
  [][\A a \in Agents :
       /\ info[a].done \/ info[a].reapStarted
       /\ task[a] \notin Live
       => task'[a] \notin Live]_vars

(* A stopped agent has no error in its record.                              *)
StoppedIsNeutral ==
  \A a \in Agents : info[a].userStopped /\ info[a].finalized => ~info[a].error

(***************************************************************************)
(* Shutdown.                                                               *)
(***************************************************************************)

(* A report cancelled by the shutdown before it reached the parent leaves   *)
(* no tombstone, so that the next start finds the agent as an orphan.       *)
AbandonedReportRecoverable ==
  \A a \in Agents :
    rep[a] = "cancelled" /\ ~info[a].reported => tomb[a] = "none"

(* After the shutdown an agent nobody reported is left to orphan recovery.  *)
UnreportedRecoverable ==
  \A a \in Agents :
    /\ shutdown = "down"
    /\ task[a] = "ended"
    /\ rec[a] = "none"
    /\ ~InReset(a)
    /\ ~info[a].finalized
    => tomb[a] = "none"

(* When cancel_all returns, every run task has ended.                       *)
NothingRunsAfterShutdown ==
  shutdown = "down" => \A a \in Agents : task[a] \notin Live

(***************************************************************************)
(* Liveness.                                                               *)
(***************************************************************************)

(* Every agent that was started is reported, unless the manager shuts down. *)
StartedIsReported ==
  \A a \in Agents :
    task[a] \in Live ~> (info[a].finalized \/ ShuttingDown)

(* Every queued submission leaves the queue, unless the manager shuts down. *)
QueueIsServed ==
  \A a \in Agents : task[a] = "queued" ~> (task[a] # "queued" \/ ShuttingDown)

(* The slot of every agent comes back, however its run task ends.           *)
SlotComesBack ==
  \A a \in Agents : a \in Holders ~> (a \notin Holders \/ ShuttingDown)

(* A user stop is reported, whatever else goes on with the agent, shutdown  *)
(* included.                                                                *)
StopIsReported ==
  \A a \in Agents : stop[a] = "reset" ~> info[a].finalized

(* cancel_all returns.                                                      *)
ShutdownEnds == shutdown = "watchers" ~> shutdown = "down"
=============================================================================
