----------------------- MODULE SubagentRecordsProofs -----------------------
(***************************************************************************)
(* Proofs about the records of the agents of SubagentManager: their        *)
(* reports, marks, outcomes, respawns and the wake-up of the queue, for    *)
(* any agents and any number of slots.                                     *)
(*                                                                         *)
(* All but the wake-up comes from one invariant of each agent by itself    *)
(* (AgentInv: its task, record, tombstone, recovery and report), together  *)
(* with where recoveries, stops and reaps may stand (SlotInv, RecInv).     *)
(* Every step is the step of one agent a; besides, it admits at most one   *)
(* agent from the queue, and leaves every other aside.  Right(b) says that *)
(* the step keeps b's invariant and respects what b had settled.           *)
(***************************************************************************)
EXTENDS SubagentManagerProofs

(***************************************************************************)
(* The wake-up of the queue.  NoLostWakeup is inductive: every drain       *)
(* establishes it, and between drains slots and the queue only shrink.     *)
(***************************************************************************)
LEMMA DrainArms ==
  ASSUME NEW count, NEW T, NEW I, NEW timer, DrainQueue(count, T, I, timer)
  PROVE  NoLostWakeup'
<1>1. CASE queue = <<>> \/ ~SlotFree(count)
  BY <1>1 DEF DrainQueue, NoLostWakeup, SlotFree
<1>2. CASE ~(queue = <<>> \/ ~SlotFree(count))
  <2>1. CASE drainTimer'
    BY <2>1 DEF NoLostWakeup
  <2>2. CASE ~drainTimer'
    <3>1. PICK gate \in Gates :
            LET o == Outcome(gate, Head(queue), TRUE)
            IN /\ runningCount' = count + SlotsTaken(o)
               /\ drainTimer' = (timer \/ MoreToDrain(Tail(queue), count + SlotsTaken(o)))
      BY <1>2, <2>2 DEF DrainQueue
    <3>2. queue' = Tail(queue)
      BY <1>2, <2>2 DEF DrainQueue
    <3> DEFINE n == count + SlotsTaken(Outcome(gate, Head(queue), TRUE))
    <3>3. runningCount' = n /\ drainTimer' = (timer \/ MoreToDrain(Tail(queue), n))
      BY <3>1
    <3> HIDE DEF n
    <3>4. ~MoreToDrain(Tail(queue), n)
      BY <2>2, <3>3
    <3> QED BY <3>2, <3>3, <3>4 DEF MoreToDrain, NoLostWakeup, SlotFree
  <2> QED BY <2>1, <2>2
<1> QED BY <1>1, <1>2

LEMMA ReleaseArms ==
  ASSUME NEW a, NEW T, NEW I, NoLostWakeup, ReleaseSlot(a, T, I)
  PROVE  NoLostWakeup'
<1>1. CASE I[a].slotReleased
  BY <1>1 DEF ReleaseSlot, admission, NoLostWakeup, SlotFree
<1>2. CASE ~I[a].slotReleased
  BY <1>2, DrainArms DEF ReleaseSlot
<1> QED BY <1>1, <1>2

\* Nothing of the admission changes, or the count only grows.
LEMMA QuietWakeup ==
  ASSUME NoLostWakeup, UNCHANGED <<queue, drainTimer>>,
         runningCount \in Nat, runningCount' = runningCount \/ runningCount' = runningCount + 1
  PROVE  NoLostWakeup'
BY MaxConcurrentAssumption DEF NoLostWakeup, SlotFree

LEMMA RunFinallyArms ==
  ASSUME NEW a, NEW i, runningCount \in Nat, NoLostWakeup, RunFinally(a, i)
  PROVE  NoLostWakeup'
<1>1. CASE i.reaped
  BY <1>1, ReleaseArms DEF RunFinally, RunExit
<1>2. CASE ~i.reaped
  <2>1. UNCHANGED admission
    BY <1>2 DEF RunFinally
  <2> QED BY <2>1, QuietWakeup DEF admission
<1> QED BY <1>1, <1>2

LEMMA SpawnArms ==
  ASSUME TypeOK, NEW a \in Agents, NoLostWakeup, Spawn(a)
  PROVE  NoLostWakeup'
<1>0. runningCount \in Nat
  BY DEF TypeOK
<1>1. CASE UNCHANGED admission
  BY <1>0, <1>1, QuietWakeup DEF admission
<1>2. CASE /\ queue' = Append(queue, a) /\ UNCHANGED runningCount
           /\ drainTimer' = (drainTimer \/ SlotFree(runningCount))
  BY <1>2 DEF NoLostWakeup, SlotFree
<1>3. CASE /\ SlotFree(runningCount) /\ UNCHANGED queue
           /\ \E gate \in Gates \ {"reject"} :
                LET o == Outcome(gate, a, FALSE)
                IN /\ runningCount' = runningCount + SlotsTaken(o)
                   /\ drainTimer' = (drainTimer \/ (SlotsTaken(o) = 0 /\ queue # <<>>))
  BY <1>3 DEF NoLostWakeup
<1> QED BY <1>1, <1>2, <1>3 DEF Spawn

LEMMA WakeupStep ==
  ASSUME TypeOK, NoLostWakeup, [Next]_vars
  PROVE  NoLostWakeup'
<1>0. runningCount \in Nat /\ queue \in Seq(Agents)
  BY DEF TypeOK
<1> USE DEF admission
<1>1. ASSUME NEW a \in Agents, Spawn(a) PROVE NoLostWakeup'
  BY <1>1, SpawnArms
<1>2. ASSUME NEW a \in Agents, RunCompletes(a) \/ RunFails(a) \/ RunCancelled(a)
      PROVE  NoLostWakeup'
  <2>1. \E i : RunFinally(a, i)
    BY <1>2 DEF RunCompletes, RunFails, RunCancelled
  <2> QED BY <1>0, <2>1, RunFinallyArms
<1>3. ASSUME NEW a \in Agents,
             SpawnDeclined(a) \/ TeardownEnds(a) \/ StopReaps(a) \/ ReaperReaps(a)
      PROVE  NoLostWakeup'
  <2>1. \E T, I : ReleaseSlot(a, T, I)
    BY <1>3 DEF SpawnDeclined, TeardownEnds, RunExit, StopReaps, ReaperReaps, ReapEnds
  <2> QED BY <2>1, ReleaseArms
<1>4. ASSUME NEW a \in Agents, RecoveryResumes(a) PROVE NoLostWakeup'
  BY <1>0, <1>4, QuietWakeup DEF RecoveryResumes
<1>5. ASSUME NEW a \in Agents, CancelQueued(a) PROVE NoLostWakeup'
  <2>1. queue # <<>> /\ UNCHANGED <<runningCount, drainTimer>>
    BY <1>0, <1>5 DEF CancelQueued
  <2> QED BY <2>1 DEF NoLostWakeup, SlotFree
<1>6. CASE CancelForParent
  BY <1>6 DEF CancelForParent, NoLostWakeup
<1>7. CASE DrainTimerFires
  BY <1>7, DrainArms DEF DrainTimerFires
<1>8. ASSUME NEW a \in Agents,
             \/ SpawnApproved(a) \/ RunUsesTool(a) \/ StrayCancel(a) \/ Cancel(a) \/ ReaperVisits(a)
             \/ AnnounceReturns(a) \/ CancelledBeforeRun(a) \/ RunStarts(a) \/ RunReturns(a)
             \/ ReportInjected(a) \/ ReportPassesGate(a) \/ ReportFails(a)
             \/ RecoveryStarts(a) \/ RecoveryFails(a) \/ RecoveryReturns(a) \/ RecoveryCancelled(a)
             \/ GatheredCancel(a) \/ CancelTooLate(a) \/ StopReturns(a)
             \/ ReaperPasses(a) \/ ReaperExpires(a) \/ ReaperReturns(a)
      PROVE  NoLostWakeup'
  <2>1. UNCHANGED admission
    BY <1>8 DEF SpawnApproved, RunUsesTool, StrayCancel, Cancel, StopBegins, ReaperVisits,
         AnnounceReturns, CancelledBeforeRun, RunStarts, RunReturns, ReportInjected,
         ReportPassesGate, ReportFails, RecoveryStarts, RecoveryFails, RecoveryReturns,
         RecoveryCancelled, GatheredCancel, CancelTooLate, StopReturns, ReaperPasses,
         ReaperExpires, ReaperReturns
  <2> QED BY <1>0, <2>1, QuietWakeup
<1>9. CASE ShutdownBegins \/ ShutdownCancels \/ ShutdownGathers \/ ShutdownDrains
           \/ UNCHANGED vars
  <2>1. UNCHANGED admission
    BY <1>9 DEF ShutdownBegins, ShutdownCancels, ShutdownGathers, ShutdownDrains, vars
  <2> QED BY <1>0, <2>1, QuietWakeup
<1>10. CASE StaggerElapses
  BY <1>0, <1>10, QuietWakeup DEF StaggerElapses
<1> QED
  BY <1>1, <1>2, <1>3, <1>4, <1>5, <1>6, <1>7, <1>8, <1>9, <1>10 DEF Next, Loop

(* The staggered queue never misses its wake-up: while something is queued *)
(* and a slot is free, a drain is scheduled, whichever path freed the slot.*)
THEOREM WakeupSafe == Spec => []NoLostWakeup
<1>1. Init => NoLostWakeup
  BY DEF Init, NoLostWakeup
<1>2. IInv /\ NoLostWakeup /\ [Next]_vars => NoLostWakeup'
  BY WakeupStep DEF IInv
<1> QED BY <1>1, <1>2, InitIInv, NextIInv, PTL DEF Spec

(***************************************************************************)
(* The invariant of one agent with task t, record i, pending cancellation  *)
(* c, tombstone m, recovery r and report p.                                *)
(***************************************************************************)
Early == {"approval", "created", "running"}
Late == {"teardown", "awaitReport", "ended"}

(* A claim is by the finally of the run, which is then late, or by a reap   *)
(* that has cancelled the run, or by a path that leaves no run; a slot is   *)
(* given back under a live run only by a reap; a run that used tools is not *)
(* one a recovery waits for.                                                *)
Records(t, i, c, r, p) ==
  /\ t \in {"unspawned", "queued"} => i = NewInfo
  /\ i.finalized => i.done
  /\ p # "none" => i.finalized
  /\ i.byRun => i.finalized /\ t \in Late
  /\ i.finalized /\ t \in Early => i.reaped
  /\ i.reaped /\ t \in Live => c
  /\ i.slotReleased /\ t \in Live => i.reaped
  /\ r \in {"created", "waitOrig", "waitSlot"} => ~i.tools

Marks(t, i, m, p) ==
  /\ m = "delivered" => i.byRun /\ i.reported /\ ~i.error /\ t # "teardown"
  /\ p = "gate" => i.byRun /\ i.reported /\ ~i.error
  /\ p = "cancelled" /\ ~i.reported => m = "none"

Calls(t, i) ==
  "bareNone" \notin Gates =>
    /\ i.announced <= 1
    /\ ~i.finalized /\ t # "rejected" => i.announced = 0

Good(t, i, c, m, r, p) == Records(t, i, c, r, p) /\ Marks(t, i, m, p) /\ Calls(t, i)

(* A recovery task belongs to a started agent, and only what exists is      *)
(* cancelled.                                                               *)
RecInv ==
  \A b \in Agents : /\ rec[b] # "none" => task[b] \in Started
                    /\ b \in recCancel => rec[b] # "none"

AgentInv ==
  \A b \in Agents : Good(task[b], info[b], b \in cancelReq, tomb[b], rec[b], rep[b])

(* What a step from task t and record i to task u and record j respects.    *)
Settles(t, i, u, j) ==
  /\ i.finalized => /\ j.error = i.error
                    /\ j.userStopped = i.userStopped
                    /\ j.finalized
  /\ t = "ended" /\ u # "ended" => ~i.tools
  /\ (i.done \/ i.reapStarted) /\ t \notin Live => u \notin Live
  /\ t \in Started => u \in Started

(* This step does right by b. *)
Right(b) ==
  /\ Good(task'[b], info'[b], b \in cancelReq', tomb'[b], rec'[b], rep'[b])
  /\ Settles(task[b], info[b], task'[b], info'[b])

(* b has task t and record i after the step, or was admitted from the queue *)
(* with them.                                                               *)
AsideFrom(t, i, b) ==
  \/ task'[b] = t /\ info'[b] = i
  \/ /\ t = "queued"
     /\ \E gate \in Gates : LET o == Outcome(gate, b, TRUE)
                            IN task'[b] = o.pc /\ info'[b] = Recorded(i, o)

(* The step is of others than b. *)
Aside(b) ==
  /\ AsideFrom(task[b], info[b], b)
  /\ UNCHANGED <<tomb[b], rec[b], rep[b]>>
  /\ b \in cancelReq' <=> b \in cancelReq

(* A new submission that meets a gate has a good record. *)
LEMMA AdmittedGood ==
  ASSUME NEW b \in Agents, NEW gate \in Gates, NEW q \in BOOLEAN, NEW t \in {"unspawned", "queued"},
         NEW i, NEW c, NEW m, NEW r, NEW p, Good(t, i, c, m, r, p)
  PROVE  LET o == Outcome(gate, b, q)
         IN /\ Good(o.pc, Recorded(i, o), c, m, r, p)
            /\ Settles(t, i, o.pc, Recorded(i, o))
<1> DEFINE o == Outcome(gate, b, q)
           j == Recorded(i, o)
<1>1. i = NewInfo
  BY DEF Good, Records
<1>2. p = "none" /\ m # "delivered"
  BY <1>1 DEF Good, Records, Marks, NewInfo
<1>3. gate \in GateKinds
  BY GatesAssumption
<1>4. /\ o.pc \in {"created", "approval", "rejected"}
      /\ o.pc # "rejected" => o.calls = 0
      /\ gate # "bareNone" => o.calls <= 1
  BY <1>3 DEF Outcome, GateKinds, DrainAnnounces
<1> HIDE DEF o
<1>5. /\ j.announced = o.calls
      /\ ~j.finalized /\ ~j.byRun /\ ~j.reaped /\ ~j.slotReleased /\ ~j.tools
  BY <1>1 DEF Recorded, NewInfo
<1>6. ~i.finalized /\ ~i.tools /\ ~i.done /\ ~i.reapStarted
  BY <1>1 DEF NewInfo
<1> HIDE DEF j
<1>7. Records(o.pc, j, c, r, p)
  BY <1>2, <1>4, <1>5 DEF Records
<1>8. Marks(o.pc, j, m, p)
  BY <1>2 DEF Marks
<1>9. Calls(o.pc, j)
  BY <1>4, <1>5 DEF Calls
<1>10. Settles(t, i, o.pc, j)
  BY <1>6 DEF Settles, Started, Live
<1> QED BY <1>7, <1>8, <1>9, <1>10 DEF Good, o, j

(* A step of others does right by an agent. *)
LEMMA AsideRight ==
  ASSUME AgentInv, NEW b \in Agents, Aside(b)
  PROVE  Right(b)
<1>1. Good(task[b], info[b], b \in cancelReq, tomb[b], rec[b], rep[b])
  BY DEF AgentInv
<1>2. Good(task[b], info[b], b \in cancelReq', tomb'[b], rec'[b], rep'[b])
  BY <1>1 DEF Aside, Good, Records, Marks
<1>3. CASE task'[b] = task[b] /\ info'[b] = info[b]
  BY <1>2, <1>3 DEF Right, Settles, Started, Live
<1>4. CASE task[b] = "queued" /\
           \E gate \in Gates : LET o == Outcome(gate, b, TRUE)
                               IN task'[b] = o.pc /\ info'[b] = Recorded(info[b], o)
  <2>1. PICK gate \in Gates : /\ task'[b] = Outcome(gate, b, TRUE).pc
                              /\ info'[b] = Recorded(info[b], Outcome(gate, b, TRUE))
    BY <1>4
  <2>2. LET o == Outcome(gate, b, TRUE)
        IN /\ Good(o.pc, Recorded(info[b], o), b \in cancelReq', tomb'[b], rec'[b], rep'[b])
           /\ Settles(task[b], info[b], o.pc, Recorded(info[b], o))
    BY <1>2, <1>4, AdmittedGood
  <2> QED BY <2>1, <2>2 DEF Right
<1> QED BY <1>3, <1>4 DEF Aside, AsideFrom

(* A drain leaves every agent aside. *)
LEMMA DrainAside ==
  ASSUME queue \in Seq(Agents), NEW count, NEW T \in [Agents -> TaskStates],
         NEW I \in [Agents -> InfoType], NEW timer,
         \A k \in 1..Len(queue) : T[queue[k]] = "queued", DrainQueue(count, T, I, timer)
  PROVE  \A b \in Agents : AsideFrom(T[b], I[b], b)
<1>1. CASE task' = T /\ info' = I
  BY <1>1 DEF AsideFrom
<1>2. CASE ~(task' = T /\ info' = I)
  <2>1. queue # <<>> /\ \E gate \in Gates :
          LET o == Outcome(gate, Head(queue), TRUE)
          IN task' = [T EXCEPT ![Head(queue)] = o.pc] /\ info' = [I EXCEPT ![Head(queue)] = Recorded(@, o)]
    BY <1>2 DEF DrainQueue
  <2> DEFINE h == Head(queue)
  <2>2. h \in Agents /\ T[h] = "queued"
    BY <2>1
  <2>3. PICK gate \in Gates :
          /\ task' = [T EXCEPT ![h] = Outcome(gate, h, TRUE).pc]
          /\ info' = [I EXCEPT ![h] = Recorded(I[h], Outcome(gate, h, TRUE))]
    BY <2>1
  <2> HIDE DEF h
  <2>4. \A b \in Agents \ {h} : AsideFrom(T[b], I[b], b)
    BY <2>3 DEF AsideFrom
  <2>5. AsideFrom(T[h], I[h], h)
    BY <2>2, <2>3 DEF AsideFrom
  <2> QED BY <2>4, <2>5
<1> QED BY <1>1, <1>2

(* A release gives the slot of a back and leaves the others aside. *)
LEMMA ReleaseAside ==
  ASSUME queue \in Seq(Agents), NEW a \in Agents, NEW T \in [Agents -> TaskStates],
         NEW I \in [Agents -> InfoType],
         \A k \in 1..Len(queue) : T[queue[k]] = "queued", T[a] # "queued",
         ReleaseSlot(a, T, I)
  PROVE  /\ task'[a] = T[a] /\ info'[a] = [I[a] EXCEPT !.slotReleased = TRUE]
         /\ \A b \in Agents \ {a} : AsideFrom(T[b], I[b], b)
<1> DEFINE J == [I EXCEPT ![a].slotReleased = TRUE]
<1>1. /\ J \in [Agents -> InfoType]
      /\ J[a] = [I[a] EXCEPT !.slotReleased = TRUE]
      /\ \A b \in Agents \ {a} : J[b] = I[b]
  BY TokenTypes
<1>2. CASE I[a].slotReleased
  <2>1. J = I
    BY <1>2 DEF InfoType
  <2>2. task' = T /\ info' = J
    BY <1>2, <2>1 DEF ReleaseSlot
  <2> HIDE DEF J
  <2> QED BY <1>1, <2>1, <2>2 DEF AsideFrom
<1>3. CASE ~I[a].slotReleased
  <2>1. DrainQueue(runningCount - 1, T, J, drainTimer)
    BY <1>3 DEF ReleaseSlot
  <2> HIDE DEF J
  <2>2. \A b \in Agents : AsideFrom(T[b], J[b], b)
    BY <1>1, <2>1, DrainAside
  <2>3. task'[a] = T[a] /\ info'[a] = J[a]
    BY <2>2 DEF AsideFrom
  <2>4. \A b \in Agents \ {a} : AsideFrom(T[b], I[b], b)
    BY <1>1, <2>2
  <2> QED BY <1>1, <2>3, <2>4
<1> QED BY <1>2, <1>3

(* What is queued is one of the agents, and waits there. *)
LEMMA QueueWaits ==
  ASSUME IInv
  PROVE  queue \in Seq(Agents) /\ \A k \in 1..Len(queue) : queue[k] \in Agents /\ task[queue[k]] = "queued"
BY DEF IInv, TypeOK, SlotInv, Slots

(* The record with which a run goes into its teardown, having entered its   *)
(* finally with record i.                                                   *)
Left(i) == IF MayClaim(i, FALSE) THEN [Claimed(i, FALSE) EXCEPT !.byRun = TRUE] ELSE i

LEMMA LeftType ==
  ASSUME NEW i \in InfoType
  PROVE  Left(i) \in InfoType
<1>1. Claimed(i, FALSE) \in InfoType
  BY RecordTypes
<1>2. [Claimed(i, FALSE) EXCEPT !.byRun = TRUE] \in InfoType
  BY <1>1 DEF InfoType
<1> QED BY <1>2 DEF Left

LEMMA RunFinallyAside ==
  ASSUME IInv, NEW a \in Agents, task[a] = "running", NEW i \in InfoType, RunFinally(a, i)
  PROVE  /\ rep'[a] = IF MayClaim(i, FALSE) THEN "inject" ELSE rep[a]
         /\ \/ /\ i.reaped
               /\ task'[a] \in {"awaitReport", "ended"}
               /\ info'[a] = [Left(i) EXCEPT !.slotReleased = TRUE]
            \/ /\ ~i.reaped
               /\ task'[a] = "teardown"
               /\ info'[a] = Left(i)
         /\ \A b \in Agents \ {a} : AsideFrom(task[b], info[b], b) /\ rep'[b] = rep[b]
<1> DEFINE I == [info EXCEPT ![a] = Left(i)]
           w == MayClaim(i, FALSE)
           T == [task EXCEPT ![a] = IF w /\ ~ShuttingDown THEN "awaitReport" ELSE "ended"]
<1>0. task \in [Agents -> TaskStates] /\ info \in [Agents -> InfoType]
      /\ rep \in [Agents -> {"none", "delivered", "failed", "cancelled"} \union Reporting]
  BY DEF IInv, TypeOK
<1>1. /\ I \in [Agents -> InfoType] /\ I[a] = Left(i)
      /\ \A b \in Agents \ {a} : I[b] = info[b]
  BY <1>0, LeftType
<1>2. /\ rep' = IF MayClaim(i, FALSE) THEN [rep EXCEPT ![a] = "inject"] ELSE rep
      /\ IF i.reaped THEN RunExit(a, I, w)
         ELSE task' = [task EXCEPT ![a] = "teardown"] /\ info' = I
  BY DEF RunFinally, Left
<1>3. rep'[a] = (IF MayClaim(i, FALSE) THEN "inject" ELSE rep[a])
      /\ \A b \in Agents \ {a} : rep'[b] = rep[b]
  BY <1>0, <1>2
<1> HIDE DEF I
<1>4. CASE ~i.reaped
  <2>1. task' = [task EXCEPT ![a] = "teardown"] /\ info' = I
    BY <1>2, <1>4
  <2>2. \A b \in Agents \ {a} : task'[b] = task[b] /\ info'[b] = info[b]
    BY <1>0, <1>1, <2>1
  <2>3. task'[a] = "teardown" /\ info'[a] = Left(i)
    BY <1>0, <1>1, <2>1
  <2> QED BY <1>3, <1>4, <2>2, <2>3 DEF AsideFrom
<1>5. CASE i.reaped
  <2>1. ReleaseSlot(a, T, I)
    BY <1>2, <1>5 DEF RunExit
  <2>2. /\ T \in [Agents -> TaskStates]
        /\ T[a] \in {"awaitReport", "ended"}
        /\ \A b \in Agents \ {a} : T[b] = task[b]
    BY <1>0 DEF TaskStates
  <2>3. \A k \in 1..Len(queue) : T[queue[k]] = "queued"
    BY <2>2, QueueWaits
  <2> HIDE DEF T
  <2>4. /\ task'[a] = T[a] /\ info'[a] = [I[a] EXCEPT !.slotReleased = TRUE]
        /\ \A b \in Agents \ {a} : AsideFrom(T[b], I[b], b)
    BY <1>1, <2>1, <2>2, <2>3, QueueWaits, ReleaseAside
  <2>5. \A b \in Agents \ {a} : AsideFrom(task[b], info[b], b)
    BY <1>1, <2>2, <2>4
  <2> QED BY <1>1, <1>3, <1>5, <2>2, <2>4, <2>5
<1> QED BY <1>4, <1>5

(* A reap after its session reset: what it makes of a. *)
LEMMA ReapEndsAside ==
  ASSUME IInv, NEW a \in Agents, task[a] \in Started, ReapEnds(a)
  PROVE  /\ task'[a] = task[a]
         /\ info'[a] = [Claimed(ReapedRecord(info[a]), TRUE) EXCEPT !.slotReleased = TRUE]
         /\ rep'[a] = IF ReapClaims(a) THEN "inject" ELSE rep[a]
         /\ tomb'[a] = IF info[a].done THEN tomb[a] ELSE "cause"
         /\ a \in cancelReq' <=> Registered(a) \/ a \in cancelReq
         /\ \A b \in Agents \ {a} : /\ AsideFrom(task[b], info[b], b)
                                    /\ rep'[b] = rep[b] /\ tomb'[b] = tomb[b]
                                    /\ b \in cancelReq' <=> b \in cancelReq
<1> DEFINE i == Claimed(ReapedRecord(info[a]), TRUE)
           I == [info EXCEPT ![a] = i]
<1>0. /\ task \in [Agents -> TaskStates] /\ info \in [Agents -> InfoType]
      /\ rep \in [Agents -> {"none", "delivered", "failed", "cancelled"} \union Reporting]
      /\ tomb \in [Agents -> {"none", "cause", "delivered"}]
  BY DEF IInv, TypeOK
<1>1. i \in InfoType
  BY <1>0, ReapedRecordType, RecordTypes
<1>2. ReleaseSlot(a, task, I)
  BY DEF ReapEnds
<1> HIDE DEF i
<1>3. I \in [Agents -> InfoType] /\ I[a] = i /\ \A b \in Agents \ {a} : I[b] = info[b]
  BY <1>0, <1>1
<1>4. task[a] # "queued"
  BY DEF Started, Live
<1> HIDE DEF I
<1>5. /\ task'[a] = task[a] /\ info'[a] = [I[a] EXCEPT !.slotReleased = TRUE]
      /\ \A b \in Agents \ {a} : AsideFrom(task[b], I[b], b)
  BY <1>0, <1>2, <1>3, <1>4, QueueWaits, ReleaseAside
<1>6. \A b \in Agents \ {a} : AsideFrom(task[b], info[b], b)
  BY <1>3, <1>5
<1>7. /\ rep'[a] = IF ReapClaims(a) THEN "inject" ELSE rep[a]
      /\ \A b \in Agents \ {a} : rep'[b] = rep[b]
  BY <1>0 DEF ReapEnds
<1>8. /\ tomb'[a] = IF info[a].done THEN tomb[a] ELSE "cause"
      /\ \A b \in Agents \ {a} : tomb'[b] = tomb[b]
  BY <1>0 DEF ReapEnds
<1>9. /\ a \in cancelReq' <=> Registered(a) \/ a \in cancelReq
      /\ \A b \in Agents \ {a} : b \in cancelReq' <=> b \in cancelReq
  BY DEF ReapEnds
<1> QED BY <1>3, <1>5, <1>6, <1>7, <1>8, <1>9 DEF i

(***************************************************************************)
(* What the updates of a record keep.                                      *)
(***************************************************************************)

(* Records i and j of one agent differ in what a step may change, its       *)
(* outcome and claim apart.                                                 *)
SameCore(i, j) ==
  /\ j.reaped = i.reaped /\ j.reapStarted = i.reapStarted /\ j.slotReleased = i.slotReleased
  /\ j.reported = i.reported /\ j.tools = i.tools /\ j.byRun = i.byRun
  /\ j.userStopped = i.userStopped

LEMMA SameCoreChain ==
  ASSUME NEW i, NEW j, NEW k, SameCore(i, j), SameCore(j, k)
  PROVE  SameCore(i, k)
BY DEF SameCore

LEMMA FailedFields ==
  ASSUME NEW i \in InfoType
  PROVE  /\ Failed(i) \in InfoType /\ SameCore(i, Failed(i))
         /\ Failed(i).done /\ Failed(i).error
         /\ Failed(i).finalized = i.finalized /\ Failed(i).announced = i.announced
         /\ Failed(i).recovering = i.recovering
<1>1. Failed(i) \in InfoType
  BY RecordTypes
<1> QED BY <1>1 DEF Failed, InfoType, SameCore

LEMMA ClaimedFields ==
  ASSUME NEW i \in InfoType, NEW s \in BOOLEAN
  PROVE  /\ Claimed(i, s) \in InfoType /\ SameCore(i, Claimed(i, s))
         /\ Claimed(i, s).error = i.error
         /\ MayClaim(i, s) => /\ Claimed(i, s).finalized /\ Claimed(i, s).done
                              /\ Claimed(i, s).announced = i.announced + 1
         /\ ~MayClaim(i, s) => Claimed(i, s) = i
<1>1. Claimed(i, s) \in InfoType
  BY RecordTypes
<1>2. CASE MayClaim(i, s)
  <2>1. Claimed(i, s) = [i EXCEPT !.recovering = FALSE, !.finalized = TRUE, !.done = TRUE,
                                  !.announced = i.announced + 1]
    BY <1>2 DEF Claimed
  <2> QED BY <1>1, <1>2, <2>1 DEF InfoType, SameCore
<1>3. CASE ~MayClaim(i, s)
  <2>1. Claimed(i, s) = i
    BY <1>3 DEF Claimed
  <2> QED BY <1>3, <2>1 DEF SameCore
<1> QED BY <1>2, <1>3

LEMMA ReleasedFields ==
  ASSUME NEW i \in InfoType
  PROVE  LET j == [i EXCEPT !.slotReleased = TRUE]
         IN /\ j \in InfoType /\ j.slotReleased
            /\ j.done = i.done /\ j.error = i.error /\ j.userStopped = i.userStopped
            /\ j.reaped = i.reaped /\ j.reapStarted = i.reapStarted
            /\ j.finalized = i.finalized /\ j.reported = i.reported /\ j.tools = i.tools
            /\ j.byRun = i.byRun /\ j.announced = i.announced
<1>1. [i EXCEPT !.slotReleased = TRUE] \in InfoType
  BY TokenTypes
<1> QED BY <1>1 DEF InfoType

(* A step of a does right by all if it does right by a and is of no other.  *)
LEMMA OneAgent ==
  ASSUME AgentInv, NEW a \in Agents, Right(a), \A b \in Agents \ {a} : Aside(b)
  PROVE  \A b \in Agents : Right(b)
BY AsideRight

(* What is known of an agent before the step. *)
Before(b) ==
  /\ task[b] \in TaskStates /\ info[b] \in InfoType
  /\ Good(task[b], info[b], b \in cancelReq, tomb[b], rec[b], rep[b])
  /\ stop[b] \in {"requested", "reset"} => task[b] \in Started
  /\ reaper.pc \in {"check", "reset"} /\ b \in reaper.at => task[b] \in Started
  /\ rec[b] \in {"created", "waitOrig", "waitSlot"} =>
       /\ ~info[b].byRun
       /\ \/ task[b] = "teardown" /\ rec[b] # "waitSlot"
          \/ task[b] = "ended" /\ info[b].slotReleased

LEMMA BeforeHolds ==
  ASSUME IInv, AgentInv
  PROVE  /\ task \in [Agents -> TaskStates] /\ info \in [Agents -> InfoType]
         /\ tomb \in [Agents -> {"none", "cause", "delivered"}]
         /\ rec \in [Agents -> {"none"} \union RecLive]
         /\ rep \in [Agents -> {"none", "delivered", "failed", "cancelled"} \union Reporting]
         /\ \A b \in Agents : Before(b)
BY DEF IInv, TypeOK, SlotInv, Life, AgentInv, Before

LEMMA SpawnRight ==
  ASSUME IInv, AgentInv, NEW a \in Agents, Spawn(a)
  PROVE  \A b \in Agents : Right(b)
<1>1. /\ task \in [Agents -> TaskStates] /\ info \in [Agents -> InfoType] /\ Before(a)
      /\ task[a] = "unspawned"
  BY BeforeHolds DEF Spawn
<1>2. UNCHANGED <<cancelReq, tomb, rec, rep>>
  BY DEF Spawn
<1>3. \A b \in Agents \ {a} : Aside(b)
  <2>1. \A b \in Agents \ {a} : task'[b] = task[b] /\ info'[b] = info[b]
    BY <1>1 DEF Spawn
  <2> QED BY <1>2, <2>1 DEF Aside, AsideFrom
<1>4. Right(a)
  <2>1. CASE \E gate \in Gates : /\ task'[a] = Outcome(gate, a, FALSE).pc
                                 /\ info'[a] = Recorded(info[a], Outcome(gate, a, FALSE))
    <3>1. PICK gate \in Gates : /\ task'[a] = Outcome(gate, a, FALSE).pc
                                /\ info'[a] = Recorded(info[a], Outcome(gate, a, FALSE))
      BY <2>1
    <3>2. LET o == Outcome(gate, a, FALSE)
          IN /\ Good(o.pc, Recorded(info[a], o), a \in cancelReq, tomb[a], rec[a], rep[a])
             /\ Settles(task[a], info[a], o.pc, Recorded(info[a], o))
      BY <1>1, AdmittedGood DEF Before
    <3> QED BY <1>2, <3>1, <3>2 DEF Right
  <2>2. CASE task'[a] = "queued" /\ info'[a] = info[a]
    <3>1. info[a] = NewInfo /\ ~info[a].finalized /\ ~info[a].byRun /\ ~info[a].reaped
          /\ ~info[a].done /\ ~info[a].reapStarted /\ info[a].announced = 0
      BY <1>1 DEF Before, Good, Records, NewInfo
    <3> QED BY <1>1, <1>2, <2>2, <3>1 DEF Right, Before, Good, Records, Marks, Calls, Settles, Started, Live, Early
  <2>3. CASE task' = [task EXCEPT ![a] = "queued"] /\ UNCHANGED info
    BY <1>1, <2>2, <2>3
  <2>4. CASE /\ "reject" \in Gates
             /\ task' = [task EXCEPT ![a] = Outcome("reject", a, FALSE).pc]
             /\ info' = [info EXCEPT ![a] = Recorded(info[a], Outcome("reject", a, FALSE))]
    BY <1>1, <2>1, <2>4
  <2>5. CASE \E gate \in Gates : 
               /\ task' = [task EXCEPT ![a] = Outcome(gate, a, FALSE).pc]
               /\ info' = [info EXCEPT ![a] = Recorded(info[a], Outcome(gate, a, FALSE))]
    BY <1>1, <2>1, <2>5
  <2>6. Outcome("reject", a, FALSE).pc = "rejected"
    BY DEF Outcome
  <2> QED BY <1>1, <2>3, <2>4, <2>5, <2>6 DEF Spawn
<1> QED BY <1>3, <1>4, OneAgent

LEMMA SpawnDeclinedRight ==
  ASSUME IInv, AgentInv, NEW a \in Agents, SpawnDeclined(a)
  PROVE  \A b \in Agents : Right(b)
<1> DEFINE i == Failed(info[a])
           j == [Claimed(i, FALSE) EXCEPT !.slotReleased = TRUE]
           T == [task EXCEPT ![a] = IF MayClaim(i, FALSE) THEN "announce" ELSE "ended"]
           I == [info EXCEPT ![a] = Claimed(i, FALSE)]
<1>1. /\ task \in [Agents -> TaskStates] /\ info \in [Agents -> InfoType] /\ Before(a)
      /\ task[a] = "approval" /\ a \notin cancelReq
      /\ UNCHANGED <<cancelReq, tomb, rec, rep>>
  BY BeforeHolds DEF SpawnDeclined
<1>2. Claimed(i, FALSE) \in InfoType
  BY <1>1, RecordTypes
<1>3. /\ T \in [Agents -> TaskStates] /\ I \in [Agents -> InfoType]
      /\ T[a] \in {"announce", "ended"} /\ I[a] = Claimed(i, FALSE)
      /\ \A b \in Agents \ {a} : T[b] = task[b] /\ I[b] = info[b]
  BY <1>1, <1>2 DEF TaskStates
<1>4. ReleaseSlot(a, T, I)
  BY DEF SpawnDeclined
<1> HIDE DEF T, I
<1>5. \A k \in 1..Len(queue) : T[queue[k]] = "queued"
  BY <1>1, <1>3, QueueWaits
<1>6. /\ task'[a] = T[a] /\ info'[a] = [I[a] EXCEPT !.slotReleased = TRUE]
      /\ \A b \in Agents \ {a} : AsideFrom(T[b], I[b], b)
  <2>1. T[a] # "queued"
    BY <1>3
  <2> QED BY <1>3, <1>4, <1>5, <2>1, QueueWaits, ReleaseAside
<1>7. \A b \in Agents \ {a} : Aside(b)
  <2>1. \A b \in Agents \ {a} : AsideFrom(task[b], info[b], b)
    BY <1>3, <1>6
  <2> QED BY <1>1, <2>1 DEF Aside
<1>8. Right(a)
  <2>1. ~info[a].finalized /\ ~info[a].byRun /\ rep[a] = "none" /\ tomb[a] # "delivered"
        /\ rec[a] \notin {"created", "waitOrig", "waitSlot"}
    BY <1>1 DEF Before, Good, Records, Marks, Early, Late, Live
  <2>2. /\ j.finalized => j.done
        /\ ~j.byRun
        /\ "bareNone" \notin Gates => j.announced <= 1 /\ (~j.finalized => j.announced = 0)
    <3>1. info[a] \in InfoType /\ i \in InfoType
      BY <1>1, FailedFields
    <3>2. /\ i.done /\ i.announced = info[a].announced /\ ~i.finalized /\ ~i.byRun
      BY <2>1, <3>1, FailedFields DEF SameCore
    <3> HIDE DEF i
    <3> DEFINE k == Claimed(i, FALSE)
    <3>3. /\ k \in InfoType /\ k.done /\ k.byRun = i.byRun
          /\ k.announced = i.announced \/ (k.finalized /\ k.announced = i.announced + 1)
          /\ ~k.finalized => k.announced = i.announced
      BY <3>1, <3>2, ClaimedFields DEF SameCore
    <3> HIDE DEF k
    <3>4. /\ j.done /\ j.byRun = k.byRun /\ j.finalized = k.finalized /\ j.announced = k.announced
      BY <3>3, ReleasedFields DEF k
    <3> HIDE DEF j
    <3>5. "bareNone" \notin Gates => i.announced = 0
      BY <1>1, <2>1, <3>2 DEF Before, Good, Calls
    <3> QED BY <3>2, <3>3, <3>4, <3>5
  <2> HIDE DEF j, i
  <2>3. task'[a] \in {"announce", "ended"} /\ info'[a] = j
    BY <1>3, <1>6 DEF j
  <2> QED
    BY <1>1, <2>1, <2>2, <2>3 DEF Right, Good, Records, Marks, Calls, Settles, Started, Early, Live
<1> QED BY <1>7, <1>8, OneAgent

LEMMA DrainTimerRight ==
  ASSUME IInv, AgentInv, DrainTimerFires
  PROVE  \A b \in Agents : Right(b)
<1>1. PICK timer \in BOOLEAN : DrainQueue(runningCount, task, info, timer)
  BY DEF DrainTimerFires
<1>2. \A b \in Agents : AsideFrom(task[b], info[b], b)
  BY <1>1, QueueWaits, BeforeHolds, DrainAside
<1>3. \A b \in Agents : Aside(b)
  BY <1>2 DEF DrainTimerFires, Aside
<1> QED BY <1>3, AsideRight

(***************************************************************************)
(* The run.                                                                *)
(***************************************************************************)
LEMMA LeftFields ==
  ASSUME NEW i \in InfoType
  PROVE  /\ Left(i) \in InfoType
         /\ Left(i).reaped = i.reaped /\ Left(i).slotReleased = i.slotReleased
         /\ Left(i).reported = i.reported /\ Left(i).tools = i.tools
         /\ Left(i).userStopped = i.userStopped /\ Left(i).error = i.error
         /\ MayClaim(i, FALSE) => /\ Left(i).finalized /\ Left(i).done /\ Left(i).byRun
                                  /\ Left(i).announced = i.announced + 1
         /\ ~MayClaim(i, FALSE) => Left(i) = i
<1>1. CASE MayClaim(i, FALSE)
  <2> DEFINE k == Claimed(i, FALSE)
  <2>1. /\ k \in InfoType /\ SameCore(i, k) /\ k.error = i.error
        /\ k.finalized /\ k.done /\ k.announced = i.announced + 1
    BY <1>1, ClaimedFields
  <2>2. Left(i) = [k EXCEPT !.byRun = TRUE] /\ Left(i) \in InfoType
    BY <1>1, LeftType DEF Left
  <2> HIDE DEF k
  <2>3. LET j == [k EXCEPT !.byRun = TRUE]
        IN /\ j.byRun /\ j.done = k.done /\ j.error = k.error /\ j.userStopped = k.userStopped
           /\ j.reaped = k.reaped /\ j.slotReleased = k.slotReleased
           /\ j.finalized = k.finalized /\ j.reported = k.reported /\ j.tools = k.tools
           /\ j.announced = k.announced
    BY <2>1 DEF InfoType
  <2>4. /\ k.reaped = i.reaped /\ k.slotReleased = i.slotReleased /\ k.reported = i.reported
        /\ k.tools = i.tools /\ k.userStopped = i.userStopped
    BY <2>1 DEF SameCore
  <2>5. /\ Left(i).byRun /\ Left(i).done /\ Left(i).finalized /\ Left(i).error = k.error
        /\ Left(i).reaped = k.reaped /\ Left(i).slotReleased = k.slotReleased
        /\ Left(i).reported = k.reported /\ Left(i).tools = k.tools
        /\ Left(i).userStopped = k.userStopped /\ Left(i).announced = k.announced
    BY <2>1, <2>2, <2>3
  <2> QED BY <1>1, <2>1, <2>2, <2>4, <2>5
<1>2. CASE ~MayClaim(i, FALSE)
  <2>1. Left(i) = i
    BY <1>2 DEF Left
  <2> QED BY <1>2, <2>1
<1> QED BY <1>1, <1>2

(* The finally of a run, whatever it was entered for, does right by it.     *)
LEMMA RunFinallyRight ==
  ASSUME IInv, AgentInv, NEW a \in Agents, task[a] = "running",
         NEW i \in InfoType, RunFinally(a, i),
         i.reaped = info[a].reaped, i.slotReleased = info[a].slotReleased,
         i.reported = info[a].reported, i.tools = info[a].tools, i.byRun = info[a].byRun,
         i.userStopped = info[a].userStopped,
         i.finalized = info[a].finalized, i.announced = info[a].announced,
         info[a].done => i.done,
         info[a].finalized => i.error = info[a].error,
         tomb'[a] = tomb[a] \/ (tomb'[a] = "cause" /\ ~info[a].reaped),
         rec'[a] = rec[a] \/ (rec'[a] = "created" /\ ~info[a].tools),
         \A b \in Agents \ {a} : /\ UNCHANGED <<tomb[b], rec[b]>>
                                 /\ b \in cancelReq' <=> b \in cancelReq
  PROVE  \A b \in Agents : Right(b)
<1>1. /\ rep'[a] = IF MayClaim(i, FALSE) THEN "inject" ELSE rep[a]
      /\ \/ /\ i.reaped
            /\ task'[a] \in {"awaitReport", "ended"}
            /\ info'[a] = [Left(i) EXCEPT !.slotReleased = TRUE]
         \/ /\ ~i.reaped
            /\ task'[a] = "teardown"
            /\ info'[a] = Left(i)
      /\ \A b \in Agents \ {a} : AsideFrom(task[b], info[b], b) /\ rep'[b] = rep[b]
  BY RunFinallyAside
<1>2. \A b \in Agents \ {a} : Aside(b)
  BY <1>1 DEF Aside
<1>3. Before(a) /\ info[a] \in InfoType
  BY BeforeHolds DEF Before
<1>4. /\ ~info[a].byRun /\ (info[a].finalized => info[a].reaped)
      /\ rep[a] # "none" => info[a].finalized
      /\ rec[a] \notin {"created", "waitOrig", "waitSlot"}
      /\ info[a].finalized => info[a].done
      /\ info[a].slotReleased => info[a].reaped
      /\ tomb[a] # "delivered" /\ rep[a] # "gate"
      /\ rep[a] = "cancelled" /\ ~info[a].reported => tomb[a] = "none"
      /\ "bareNone" \notin Gates =>
           /\ info[a].announced <= 1
           /\ ~info[a].finalized => info[a].announced = 0
  BY <1>3 DEF Before, Good, Records, Marks, Calls, Early, Late, Live
<1> DEFINE j == Left(i)
<1>5. /\ j \in InfoType /\ j.reaped = i.reaped /\ j.slotReleased = i.slotReleased
      /\ j.reported = i.reported /\ j.tools = i.tools /\ j.userStopped = i.userStopped
      /\ j.error = i.error
      /\ MayClaim(i, FALSE) => j.finalized /\ j.done /\ j.byRun /\ j.announced = i.announced + 1
      /\ ~MayClaim(i, FALSE) => j = i
  BY LeftFields
<1>6. MayClaim(i, FALSE) => ~info[a].finalized
  BY DEF MayClaim
<1> DEFINE k == info'[a]
<1>r. (~i.reaped /\ k = j) \/ (i.reaped /\ k = [j EXCEPT !.slotReleased = TRUE])
  <2> HIDE DEF j
  <2>1. (~i.reaped /\ info'[a] = j) \/ (i.reaped /\ info'[a] = [j EXCEPT !.slotReleased = TRUE])
    BY <1>1 DEF j
  <2> QED BY <2>1
<1> HIDE DEF j, k
<1>7. /\ k.reaped = j.reaped /\ (k.slotReleased <=> j.slotReleased \/ i.reaped)
      /\ k.reported = j.reported /\ k.tools = j.tools /\ k.userStopped = j.userStopped
      /\ k.error = j.error /\ k.finalized = j.finalized /\ k.done = j.done
      /\ k.byRun = j.byRun /\ k.announced = j.announced
  <2>1. CASE k = j /\ ~i.reaped
    BY <1>5, <2>1 DEF InfoType
  <2>2. CASE i.reaped /\ k = [j EXCEPT !.slotReleased = TRUE]
    BY <1>5, <2>2, ReleasedFields
  <2> QED BY <1>r, <2>1, <2>2
<1>8. /\ k.finalized => k.done
      /\ k.byRun => k.finalized
      /\ rep'[a] # "none" => k.finalized
      /\ info[a].finalized => k.finalized /\ k.error = info[a].error
      /\ k.userStopped = info[a].userStopped
      /\ rep'[a] = "cancelled" => rep[a] = "cancelled" /\ info[a].reaped
      /\ rep'[a] # "gate"
      /\ k.slotReleased => k.reaped
      /\ k.finalized /\ ~k.byRun => info[a].finalized
  <2>1. /\ k.userStopped = info[a].userStopped
        /\ k.slotReleased => k.reaped
        /\ info[a].finalized => k.error = info[a].error
    BY <1>4, <1>5, <1>7
  <2>2. CASE MayClaim(i, FALSE)
    <3>1. k.finalized /\ k.done /\ k.byRun /\ ~info[a].finalized /\ rep'[a] = "inject"
      BY <1>1, <1>5, <1>6, <1>7, <2>2
    <3> QED BY <2>1, <3>1
  <2>3. CASE ~MayClaim(i, FALSE)
    <3>1. j = i /\ rep'[a] = rep[a]
      BY <1>1, <1>5, <2>3
    <3>2. k.finalized = i.finalized /\ k.done = i.done /\ k.byRun = i.byRun
      BY <1>7, <3>1
    <3>3. (k.finalized => k.done) /\ ~k.byRun /\ k.finalized = info[a].finalized
      BY <1>4, <3>2
    <3>4. rep'[a] = "cancelled" => info[a].reaped
      BY <1>4, <3>1
    <3> QED BY <1>4, <2>1, <3>1, <3>3, <3>4
  <2> QED BY <2>2, <2>3
<1>9. Calls(task'[a], k)
  <2>1. CASE MayClaim(i, FALSE)
    <3>1. k.announced = info[a].announced + 1 /\ k.finalized
      BY <1>5, <1>7, <2>1
    <3>2. "bareNone" \notin Gates => info[a].announced = 0
      BY <1>4, <1>6, <2>1
    <3> QED BY <3>1, <3>2 DEF Calls
  <2>2. CASE ~MayClaim(i, FALSE)
    <3>1. k.announced = info[a].announced /\ k.finalized = info[a].finalized
      BY <1>5, <1>7, <2>2
    <3> QED BY <1>4, <3>1 DEF Calls
  <2> QED BY <2>1, <2>2
<1>10. task'[a] \in {"awaitReport", "ended"} \/ (task'[a] = "teardown" /\ ~k.reaped)
  BY <1>1, <1>5, <1>7
<1>11. Records(task'[a], k, a \in cancelReq', rec'[a], rep'[a])
  BY <1>4, <1>5, <1>7, <1>8, <1>10 DEF Records, Early, Late, Live
<1>12. Marks(task'[a], k, tomb'[a], rep'[a])
  BY <1>4, <1>5, <1>7, <1>8 DEF Marks
<1>13. Settles(task[a], info[a], task'[a], k)
  BY <1>8, <1>10 DEF Settles, Started, Live
<1>14. Right(a)
  BY <1>9, <1>11, <1>12, <1>13 DEF Right, Good, k
<1> QED BY <1>2, <1>14, OneAgent

LEMMA RunEndsRight ==
  ASSUME IInv, AgentInv, NEW a \in Agents,
         RunCompletes(a) \/ RunFails(a) \/ RunCancelled(a)
  PROVE  \A b \in Agents : Right(b)
<1>1. /\ info[a] \in InfoType /\ task[a] = "running" /\ Before(a)
      /\ tomb \in [Agents -> {"none", "cause", "delivered"}]
      /\ rec \in [Agents -> {"none"} \union RecLive]
  BY BeforeHolds DEF RunCompletes, RunFails, RunCancelled
<1>2. info[a].finalized => info[a].reaped /\ a \in cancelReq
  BY <1>1 DEF Before, Good, Records, Early, Live
<1>3. info[a].reaped => a \in cancelReq
  BY <1>1 DEF Before, Good, Records, Live
<1>4. CASE RunCompletes(a)
  <2> DEFINE i == [info[a] EXCEPT !.done = TRUE]
  <2>1. i \in InfoType
    BY <1>1, DoneTypes
  <2>2. SameCore(info[a], i) /\ i.finalized = info[a].finalized
        /\ i.announced = info[a].announced /\ i.done /\ i.error = info[a].error
    BY <1>1 DEF InfoType, SameCore
  <2>3. RunFinally(a, i) /\ UNCHANGED <<cancelReq, tomb, rec>>
    BY <1>4 DEF RunCompletes
  <2> HIDE DEF i
  <2> QED BY <1>1, <2>1, <2>2, <2>3, RunFinallyRight DEF SameCore
<1>5. CASE RunFails(a)
  <2> DEFINE i == Failed(info[a])
  <2>1. /\ i \in InfoType /\ SameCore(info[a], i) /\ i.done
        /\ i.finalized = info[a].finalized /\ i.announced = info[a].announced
    BY <1>1, FailedFields
  <2>2. ~info[a].reaped /\ ~info[a].finalized
    BY <1>2, <1>3, <1>5 DEF RunFails
  <2>3. RunFinally(a, i) /\ UNCHANGED <<cancelReq, rec>> /\ tomb' = [tomb EXCEPT ![a] = "cause"]
    BY <1>5 DEF RunFails
  <2>4. tomb'[a] = "cause" /\ \A b \in Agents \ {a} : tomb'[b] = tomb[b]
    BY <1>1, <2>3
  <2> HIDE DEF i
  <2> QED BY <1>1, <2>1, <2>2, <2>3, <2>4, RunFinallyRight DEF SameCore
<1>6. CASE RunCancelled(a)
  <2>0. \A b \in Agents \ {a} : b \in cancelReq' <=> b \in cancelReq
    BY <1>6 DEF RunCancelled
  <2>1. CASE RunFinally(a, info[a]) /\ UNCHANGED <<tomb, rec>>
    BY <1>1, <2>0, <2>1, RunFinallyRight
  <2>2. CASE /\ ~info[a].tools
             /\ rec' = [rec EXCEPT ![a] = "created"]
             /\ RunFinally(a, [info[a] EXCEPT !.retryUsed = TRUE, !.recovering = TRUE])
             /\ UNCHANGED tomb
    <3> DEFINE i == [info[a] EXCEPT !.retryUsed = TRUE, !.recovering = TRUE]
    <3>1. i \in InfoType
      BY <1>1, RetryTypes
    <3>2. SameCore(info[a], i) /\ i.finalized = info[a].finalized
          /\ i.announced = info[a].announced /\ i.done = info[a].done /\ i.error = info[a].error
      BY <1>1 DEF InfoType, SameCore
    <3>3. RunFinally(a, i)
      BY <2>2
    <3>4. rec'[a] = "created" /\ \A b \in Agents \ {a} : rec'[b] = rec[b]
      BY <1>1, <2>2
    <3> HIDE DEF i
    <3> QED BY <1>1, <2>0, <2>2, <3>1, <3>2, <3>3, <3>4, RunFinallyRight DEF SameCore
  <2>3. CASE /\ ~info[a].reaped
             /\ RunFinally(a, Failed(info[a]))
             /\ tomb' = [tomb EXCEPT ![a] = "cause"]
             /\ UNCHANGED rec
    <3> DEFINE i == Failed(info[a])
    <3>1. /\ i \in InfoType /\ SameCore(info[a], i) /\ i.done
          /\ i.finalized = info[a].finalized /\ i.announced = info[a].announced
      BY <1>1, FailedFields
    <3>2. tomb'[a] = "cause" /\ \A b \in Agents \ {a} : tomb'[b] = tomb[b]
      BY <1>1, <2>3
    <3>3. RunFinally(a, i)
      BY <2>3
    <3> HIDE DEF i
    <3> QED BY <1>1, <1>2, <2>0, <2>3, <3>1, <3>2, <3>3, RunFinallyRight DEF SameCore
  <2> QED BY <1>6, <2>1, <2>2, <2>3 DEF RunCancelled, Recovers
<1> QED BY <1>4, <1>5, <1>6

LEMMA RunMovesRight ==
  ASSUME IInv, AgentInv, NEW a \in Agents,
         \/ SpawnApproved(a) \/ AnnounceReturns(a) \/ CancelledBeforeRun(a) \/ RunStarts(a)
         \/ RunUsesTool(a) \/ RunReturns(a) \/ StrayCancel(a)
  PROVE  \A b \in Agents : Right(b)
<1> USE DEF admission
<1>1. /\ task \in [Agents -> TaskStates] /\ info \in [Agents -> InfoType]
      /\ info[a] \in InfoType /\ Before(a)
  BY BeforeHolds
<1>2. UNCHANGED <<tomb, rec, rep>>
  BY DEF SpawnApproved, AnnounceReturns, CancelledBeforeRun, RunStarts, RunUsesTool,
         RunReturns, StrayCancel
<1>3. \A b \in Agents \ {a} : task'[b] = task[b] /\ info'[b] = info[b]
                              /\ (b \in cancelReq' <=> b \in cancelReq)
  BY <1>1 DEF SpawnApproved, AnnounceReturns, CancelledBeforeRun, RunStarts, RunUsesTool,
         RunReturns, StrayCancel
<1>4. \A b \in Agents \ {a} : Aside(b)
  BY <1>2, <1>3 DEF Aside, AsideFrom
<1> DEFINE i == info[a]  j == info'[a]
<1>5. CASE SpawnApproved(a)
  <2>1. /\ task[a] = "approval" /\ task'[a] = "running" /\ a \notin cancelReq /\ a \notin cancelReq'
        /\ j = [i EXCEPT !.logged = TRUE]
    BY <1>1, <1>5 DEF SpawnApproved
  <2>2. /\ j.done = i.done /\ j.error = i.error /\ j.userStopped = i.userStopped
        /\ j.reaped = i.reaped /\ j.finalized = i.finalized /\ j.slotReleased = i.slotReleased
        /\ j.reported = i.reported /\ j.tools = i.tools /\ j.byRun = i.byRun
        /\ j.announced = i.announced
    BY <1>1, <2>1 DEF InfoType
  <2> HIDE DEF i, j
  <2>3. Right(a)
    BY <1>1, <1>2, <2>1, <2>2 DEF i, j, Right, Before, Good, Records, Marks, Calls, Settles, Started,
       Early, Late, Live
  <2> QED BY <1>4, <2>3, OneAgent
<1>6. CASE RunUsesTool(a)
  <2>1. /\ task[a] = "running" /\ task'[a] = "running"
        /\ (a \in cancelReq' <=> a \in cancelReq)
        /\ j = [i EXCEPT !.tools = TRUE]
    BY <1>1, <1>6 DEF RunUsesTool
  <2>2. /\ j.done = i.done /\ j.error = i.error /\ j.userStopped = i.userStopped
        /\ j.reaped = i.reaped /\ j.finalized = i.finalized /\ j.slotReleased = i.slotReleased
        /\ j.reported = i.reported /\ j.byRun = i.byRun
        /\ j.announced = i.announced
    BY <1>1, <2>1 DEF InfoType
  <2> HIDE DEF i, j
  <2>3. Right(a)
    BY <1>1, <1>2, <2>1, <2>2 DEF i, j, Right, Before, Good, Records, Marks, Calls, Settles, Started,
       Early, Late, Live
  <2> QED BY <1>4, <2>3, OneAgent
<1>7. CASE RunStarts(a)
  <2>1. /\ task[a] = "created" /\ task'[a] = "running" /\ info'[a] = info[a]
        /\ (a \in cancelReq' <=> a \in cancelReq)
    BY <1>1, <1>7 DEF RunStarts
  <2>2. Right(a)
    BY <1>1, <1>2, <2>1 DEF Right, Before, Good, Records, Marks, Calls, Settles, Started, Early, Late, Live
  <2> QED BY <1>4, <2>2, OneAgent
<1>8. CASE AnnounceReturns(a) \/ CancelledBeforeRun(a) \/ RunReturns(a)
  <2>1. /\ task[a] \in {"announce", "approval", "created", "awaitReport"}
        /\ task'[a] = "ended" /\ info'[a] = info[a]
    BY <1>1, <1>8 DEF AnnounceReturns, CancelledBeforeRun, RunReturns
  <2>2. Right(a)
    BY <1>1, <1>2, <2>1 DEF Right, Before, Good, Records, Marks, Calls, Settles, Started, Early, Late, Live
  <2> QED BY <1>4, <2>2, OneAgent
<1>9. CASE StrayCancel(a)
  <2>1. /\ task'[a] = task[a] /\ info'[a] = info[a] /\ a \in cancelReq'
    BY <1>1, <1>9 DEF StrayCancel
  <2>2. Right(a)
    BY <1>1, <1>2, <2>1 DEF Right, Before, Good, Records, Marks, Calls, Settles, Started, Live
  <2> QED BY <1>4, <2>2, OneAgent
<1> QED BY <1>5, <1>6, <1>7, <1>8, <1>9

LEMMA TeardownRight ==
  ASSUME IInv, AgentInv, NEW a \in Agents, TeardownEnds(a)
  PROVE  \A b \in Agents : Right(b)
<1> DEFINE T == [task EXCEPT ![a] = IF (a \notin cancelReq /\ info[a].byRun) /\ ~ShuttingDown
                                    THEN "awaitReport" ELSE "ended"]
           i == info[a]
           j == [i EXCEPT !.slotReleased = TRUE]
<1>1. /\ task \in [Agents -> TaskStates] /\ info \in [Agents -> InfoType]
      /\ info[a] \in InfoType /\ Before(a) /\ task[a] = "teardown"
      /\ UNCHANGED <<tomb, rec, rep>> /\ cancelReq' = cancelReq \ {a}
  BY BeforeHolds DEF TeardownEnds
<1>2. /\ T \in [Agents -> TaskStates]
      /\ T[a] \in {"awaitReport", "ended"}
      /\ \A b \in Agents \ {a} : T[b] = task[b]
  BY <1>1 DEF TaskStates
<1>3. ReleaseSlot(a, T, info)
  BY DEF TeardownEnds, RunExit
<1> HIDE DEF T
<1>4. \A k \in 1..Len(queue) : T[queue[k]] = "queued"
  BY <1>1, <1>2, QueueWaits
<1>5. T[a] # "queued"
  BY <1>2
<1>6. /\ task'[a] = T[a] /\ info'[a] = j
      /\ \A b \in Agents \ {a} : AsideFrom(T[b], info[b], b)
  BY <1>1, <1>2, <1>3, <1>4, <1>5, QueueWaits, ReleaseAside
<1>7. \A b \in Agents \ {a} : Aside(b)
  <2>1. \A b \in Agents \ {a} : AsideFrom(task[b], info[b], b)
    BY <1>2, <1>6
  <2> QED BY <1>1, <2>1 DEF Aside
<1>8. /\ j.done = i.done /\ j.error = i.error /\ j.userStopped = i.userStopped
      /\ j.reaped = i.reaped /\ j.finalized = i.finalized
      /\ j.reported = i.reported /\ j.tools = i.tools /\ j.byRun = i.byRun
      /\ j.announced = i.announced
  BY <1>1, ReleasedFields
<1>9. info'[a] = j /\ task'[a] \in {"awaitReport", "ended"}
  BY <1>2, <1>6
<1> HIDE DEF i, j
<1>10. Right(a)
  BY <1>1, <1>8, <1>9 DEF i, Right, Before, Good, Records, Marks, Calls, Settles, Started, Early, Late, Live
<1> QED BY <1>7, <1>10, OneAgent

(***************************************************************************)
(* The report.                                                             *)
(***************************************************************************)
LEMMA ReportRight ==
  ASSUME IInv, AgentInv, NEW a \in Agents,
         ReportInjected(a) \/ ReportPassesGate(a) \/ ReportFails(a)
  PROVE  \A b \in Agents : Right(b)
<1>1. /\ info \in [Agents -> InfoType] /\ info[a] \in InfoType /\ Before(a)
      /\ tomb \in [Agents -> {"none", "cause", "delivered"}]
      /\ rep \in [Agents -> {"none", "delivered", "failed", "cancelled"} \union Reporting]
  BY BeforeHolds
<1>2. UNCHANGED <<task, cancelReq, rec>>
  BY DEF ReportInjected, ReportPassesGate, ReportFails
<1>3. \A b \in Agents \ {a} : info'[b] = info[b] /\ rep'[b] = rep[b] /\ tomb'[b] = tomb[b]
  BY <1>1 DEF ReportInjected, ReportPassesGate, ReportFails
<1>4. \A b \in Agents \ {a} : Aside(b)
  BY <1>2, <1>3 DEF Aside, AsideFrom
<1> DEFINE i == info[a]  j == info'[a]
<1>5. CASE ReportInjected(a)
  <2>1. j = [i EXCEPT !.reported = TRUE] /\ rep[a] = "inject"
    BY <1>1, <1>5 DEF ReportInjected
  <2>2. /\ j.done = i.done /\ j.error = i.error /\ j.userStopped = i.userStopped
        /\ j.reaped = i.reaped /\ j.finalized = i.finalized /\ j.slotReleased = i.slotReleased
        /\ j.reported /\ j.tools = i.tools /\ j.byRun = i.byRun
        /\ j.announced = i.announced
    BY <1>1, <2>1 DEF InfoType
  <2>3. \/ rep'[a] = "gate" /\ tomb'[a] = tomb[a] /\ i.byRun /\ ~i.error
        \/ rep'[a] = "delivered" /\ tomb'[a] = tomb[a]
        \/ rep'[a] = "delivered" /\ tomb'[a] = "delivered" /\ i.byRun /\ ~i.error
           /\ task[a] # "teardown"
    BY <1>1, <1>5 DEF ReportInjected, GateShut
  <2>4. i.finalized
    BY <1>1, <2>1 DEF Before, Good, Records
  <2>5. task[a] \notin {"unspawned", "queued"}
    BY <1>1, <2>4 DEF Before, Good, Records, NewInfo
  <2> HIDE DEF i, j
  <2>6. Right(a)
    BY <1>1, <1>2, <2>1, <2>2, <2>3, <2>4, <2>5 DEF i, j, Right, Before, Good, Records, Marks,
       Calls, Settles, Started, Live
  <2> QED BY <1>4, <2>6, OneAgent
<1>6. CASE ReportPassesGate(a)
  <2>1. /\ rep[a] = "gate" /\ task[a] # "teardown" /\ info'[a] = info[a]
        /\ rep'[a] = "delivered" /\ tomb'[a] = "delivered"
    BY <1>1, <1>6 DEF ReportPassesGate, GateShut
  <2>2. Right(a)
    BY <1>1, <1>2, <2>1 DEF Right, Before, Good, Records, Marks, Calls, Settles, Started, Live
  <2> QED BY <1>4, <2>2, OneAgent
<1>7. CASE ReportFails(a)
  <2>1. rep[a] = "inject" /\ info'[a] = info[a] /\ rep'[a] = "failed" /\ tomb'[a] = tomb[a]
    BY <1>1, <1>7 DEF ReportFails
  <2>2. Right(a)
    BY <1>1, <1>2, <2>1 DEF Right, Before, Good, Records, Marks, Calls, Settles, Started, Live
  <2> QED BY <1>4, <2>2, OneAgent
<1> QED BY <1>5, <1>6, <1>7

(***************************************************************************)
(* The recovery.                                                           *)
(***************************************************************************)
LEMMA RecoveringFields ==
  ASSUME NEW i \in InfoType
  PROVE  LET j == [i EXCEPT !.recovering = FALSE]
         IN /\ j \in InfoType /\ SameCore(i, j) /\ j.done = i.done /\ j.error = i.error
            /\ j.finalized = i.finalized /\ j.announced = i.announced
<1>1. [i EXCEPT !.recovering = FALSE] \in InfoType
  BY RecoveringTypes
<1> QED BY <1>1 DEF InfoType, SameCore

LEMMA RecoveryQuietRight ==
  ASSUME IInv, AgentInv, NEW a \in Agents, RecoveryStarts(a) \/ RecoveryReturns(a)
  PROVE  \A b \in Agents : Right(b)
<1>1. Before(a) /\ rec \in [Agents -> {"none"} \union RecLive]
  BY BeforeHolds
<1>2. UNCHANGED <<task, info, cancelReq, tomb, rep>>
  BY DEF RecoveryStarts, RecoveryReturns
<1>3. \A b \in Agents \ {a} : rec'[b] = rec[b]
  BY <1>1 DEF RecoveryStarts, RecoveryReturns
<1>4. rec'[a] = "none" \/ rec[a] = "created"
  BY <1>1 DEF RecoveryStarts, RecoveryReturns
<1>5. Right(a)
  BY <1>1, <1>2, <1>4 DEF Right, Before, Good, Records, Settles, Started, Live
<1>6. \A b \in Agents \ {a} : Aside(b)
  BY <1>2, <1>3 DEF Aside, AsideFrom
<1> QED BY <1>5, <1>6, OneAgent

LEMMA RecoveryResumesRight ==
  ASSUME IInv, AgentInv, NEW a \in Agents, RecoveryResumes(a)
  PROVE  \A b \in Agents : Right(b)
<1>1. /\ task \in [Agents -> TaskStates] /\ info \in [Agents -> InfoType]
      /\ info[a] \in InfoType /\ Before(a) /\ rec \in [Agents -> {"none"} \union RecLive]
      /\ rec[a] \in {"waitOrig", "waitSlot"}
      /\ UNCHANGED <<cancelReq, tomb, rep>>
  BY BeforeHolds DEF RecoveryResumes
<1>2. \A b \in Agents \ {a} : task'[b] = task[b] /\ info'[b] = info[b] /\ rec'[b] = rec[b]
  BY <1>1 DEF RecoveryResumes
<1>3. \A b \in Agents \ {a} : Aside(b)
  BY <1>1, <1>2 DEF Aside, AsideFrom
<1> DEFINE i == info[a]  j == info'[a]
<1>4. task[a] = "ended"
  BY <1>1 DEF RecoveryResumes, Before, Live
<1>5. CASE j = [i EXCEPT !.recovering = FALSE] /\ task'[a] = task[a] /\ rec'[a] = "none"
  <2>1. /\ SameCore(i, j) /\ j.done = i.done /\ j.error = i.error
        /\ j.finalized = i.finalized /\ j.announced = i.announced
    BY <1>1, <1>5, RecoveringFields
  <2> HIDE DEF i, j
  <2>2. Right(a)
    BY <1>1, <1>4, <1>5, <2>1 DEF i, j, SameCore, Right, Before, Good, Records, Marks, Calls,
       Settles, Started, Live, Early
  <2> QED BY <1>3, <2>2, OneAgent
<1>6. CASE info'[a] = info[a] /\ task'[a] = task[a] /\ rec'[a] = "waitSlot"
  <2>1. Right(a)
    BY <1>1, <1>6 DEF Right, Before, Good, Records, Marks, Calls, Settles, Started, Live
  <2> QED BY <1>3, <2>1, OneAgent
<1>7. CASE /\ ~i.done /\ ~i.reapStarted /\ ~i.reaped
           /\ j = [i EXCEPT !.recovering = FALSE, !.slotReleased = FALSE]
           /\ task'[a] = "created" /\ rec'[a] = "event"
  <2>1. j \in InfoType
    BY <1>1, <1>7, ResumedTypes
  <2>2. /\ j.done = i.done /\ j.error = i.error /\ j.userStopped = i.userStopped
        /\ j.reaped = i.reaped /\ j.finalized = i.finalized /\ ~j.slotReleased
        /\ j.reported = i.reported /\ j.tools = i.tools /\ j.byRun = i.byRun
        /\ j.announced = i.announced
    BY <1>1, <1>7, <2>1 DEF InfoType
  <2>3. /\ ~i.finalized /\ ~i.byRun /\ ~i.tools
    BY <1>1, <1>7 DEF Before, Good, Records
  <2> HIDE DEF i, j
  <2>4. Right(a)
    BY <1>1, <1>4, <1>7, <2>2, <2>3 DEF i, j, Right, Before, Good, Records, Marks, Calls,
       Settles, Started, Live, Early, Late
  <2> QED BY <1>3, <2>4, OneAgent
<1>8. \/ /\ info' = [info EXCEPT ![a].recovering = FALSE]
         /\ rec' = [rec EXCEPT ![a] = "none"] /\ task' = task
      \/ rec' = [rec EXCEPT ![a] = "waitSlot"] /\ task' = task /\ info' = info
      \/ /\ ~Overtaken(info[a])
         /\ info' = [info EXCEPT ![a].recovering = FALSE, ![a].slotReleased = FALSE]
         /\ task' = [task EXCEPT ![a] = "created"] /\ rec' = [rec EXCEPT ![a] = "event"]
  BY DEF RecoveryResumes
<1> QED BY <1>1, <1>5, <1>6, <1>7, <1>8 DEF Overtaken

LEMMA RecoveryFailsRight ==
  ASSUME IInv, AgentInv, NEW a \in Agents, RecoveryFails(a)
  PROVE  \A b \in Agents : Right(b)
<1> DEFINE i == [info[a] EXCEPT !.recovering = FALSE]
           records == ~i.done /\ ~i.reapStarted /\ ~i.reaped
           j == IF records THEN Failed(i) ELSE i
           k == Claimed(j, FALSE)
<1>1. /\ task \in [Agents -> TaskStates] /\ info \in [Agents -> InfoType]
      /\ info[a] \in InfoType /\ Before(a) /\ rec \in [Agents -> {"none"} \union RecLive]
      /\ tomb \in [Agents -> {"none", "cause", "delivered"}]
      /\ rep \in [Agents -> {"none", "delivered", "failed", "cancelled"} \union Reporting]
      /\ rec[a] \in {"waitOrig", "waitSlot"}
      /\ UNCHANGED <<task, cancelReq>>
  BY BeforeHolds DEF RecoveryFails
<1>2. /\ info' = [info EXCEPT ![a] = k]
      /\ tomb' = IF records THEN [tomb EXCEPT ![a] = "cause"] ELSE tomb
      /\ rep' = IF MayClaim(j, FALSE) THEN [rep EXCEPT ![a] = "inject"] ELSE rep
      /\ rec' = [rec EXCEPT ![a] = IF MayClaim(j, FALSE) THEN "report" ELSE "none"]
  BY DEF RecoveryFails
<1>3. /\ i \in InfoType /\ SameCore(info[a], i) /\ i.done = info[a].done
      /\ i.error = info[a].error
      /\ i.finalized = info[a].finalized /\ i.announced = info[a].announced
  BY <1>1, RecoveringFields
<1> HIDE DEF i
<1>4. /\ j \in InfoType /\ SameCore(i, j) /\ (i.done => j.done)
      /\ records => j.done
      /\ ~records => j = i
      /\ j.finalized = i.finalized /\ j.announced = i.announced
  BY <1>3, FailedFields DEF SameCore
<1> HIDE DEF j, records
<1>5. /\ SameCore(j, k) /\ k.error = j.error
      /\ MayClaim(j, FALSE) => k.finalized /\ k.done /\ k.announced = j.announced + 1
      /\ ~MayClaim(j, FALSE) => k = j
  BY <1>4, ClaimedFields
<1> HIDE DEF k
<1>6. /\ info'[a] = k
      /\ tomb'[a] = (IF records THEN "cause" ELSE tomb[a])
      /\ rep'[a] = (IF MayClaim(j, FALSE) THEN "inject" ELSE rep[a])
      /\ rec'[a] \in {"report", "none"}
      /\ \A b \in Agents \ {a} : /\ info'[b] = info[b] /\ tomb'[b] = tomb[b]
                                 /\ rep'[b] = rep[b] /\ rec'[b] = rec[b]
  BY <1>1, <1>2
<1>7. \A b \in Agents \ {a} : Aside(b)
  BY <1>1, <1>6 DEF Aside, AsideFrom
<1>8. /\ task[a] \in {"teardown", "ended"} /\ ~info[a].byRun
      /\ tomb[a] # "delivered" /\ rep[a] # "gate"
      /\ info[a].finalized => info[a].done
      /\ rep[a] # "none" => info[a].finalized
      /\ info[a].reaped /\ task[a] \in Live => a \in cancelReq
      /\ info[a].slotReleased /\ task[a] \in Live => info[a].reaped
      /\ rep[a] = "cancelled" /\ ~info[a].reported => tomb[a] = "none"
  BY <1>1 DEF Before, Good, Records, Marks
<1>9. records => ~info[a].finalized
  BY <1>3, <1>8 DEF records
<1>10. MayClaim(j, FALSE) => ~info[a].finalized
  BY <1>3, <1>4 DEF MayClaim
<1>11. /\ k.finalized => k.done
       /\ info[a].finalized => k.finalized /\ k.error = info[a].error
       /\ k.userStopped = info[a].userStopped
       /\ ~k.byRun /\ k.reaped = info[a].reaped /\ k.slotReleased = info[a].slotReleased
       /\ k.reported = info[a].reported
       /\ rep'[a] # "none" => k.finalized
  <2>1. SameCore(info[a], k)
    BY <1>3, <1>4, <1>5, SameCoreChain
  <2>2. /\ k.userStopped = info[a].userStopped
        /\ ~k.byRun /\ k.reaped = info[a].reaped /\ k.slotReleased = info[a].slotReleased
        /\ k.reported = info[a].reported
    BY <1>8, <2>1 DEF SameCore
  <2>3. CASE MayClaim(j, FALSE)
    <3>1. k.finalized /\ k.done /\ ~info[a].finalized
      BY <1>5, <1>10, <2>3
    <3> QED BY <2>2, <3>1
  <2>4. CASE ~MayClaim(j, FALSE)
    <3>1. k = j /\ rep'[a] = rep[a]
      BY <1>5, <1>6, <2>4
    <3>2. k.finalized = info[a].finalized
      BY <1>3, <1>4, <3>1
    <3>3. k.finalized => k.done
      BY <1>3, <1>4, <1>8, <3>1, <3>2
    <3>4. info[a].finalized => k.error = info[a].error
      BY <1>3, <1>4, <1>9, <3>1
    <3> QED BY <1>8, <2>2, <3>1, <3>2, <3>3, <3>4
  <2> QED BY <2>3, <2>4
<1>12. Records(task'[a], k, a \in cancelReq', rec'[a], rep'[a])
  BY <1>1, <1>6, <1>8, <1>11 DEF Records, Early
<1>13. Marks(task'[a], k, tomb'[a], rep'[a])
  BY <1>6, <1>8, <1>9, <1>11 DEF Marks
<1>14. Calls(task'[a], k)
  <2>1. "bareNone" \notin Gates => /\ info[a].announced <= 1
                                   /\ ~info[a].finalized => info[a].announced = 0
    BY <1>1, <1>8 DEF Before, Good, Calls
  <2>2. CASE MayClaim(j, FALSE)
    <3>1. k.announced = info[a].announced + 1 /\ k.finalized
      BY <1>3, <1>4, <1>5, <2>2
    <3>2. "bareNone" \notin Gates => info[a].announced = 0
      BY <1>10, <2>1, <2>2
    <3> QED BY <3>1, <3>2 DEF Calls
  <2>3. CASE ~MayClaim(j, FALSE)
    <3>1. k.announced = info[a].announced /\ k.finalized = info[a].finalized
      BY <1>3, <1>4, <1>5, <2>3
    <3> QED BY <2>1, <3>1 DEF Calls
  <2> QED BY <2>2, <2>3
<1>15. Settles(task[a], info[a], task'[a], k)
  BY <1>1, <1>11 DEF Settles, Started, Live
<1>16. Right(a)
  BY <1>6, <1>12, <1>13, <1>14, <1>15 DEF Right, Good
<1> QED BY <1>7, <1>16, OneAgent

LEMMA RecoveryCancelledRight ==
  ASSUME IInv, AgentInv, RecInv, NEW a \in Agents, RecoveryCancelled(a)
  PROVE  \A b \in Agents : Right(b)
<1> DEFINE i == [info[a] EXCEPT !.recovering = FALSE]
           records == ~Registered(a) /\ ~i.done /\ ~i.reapStarted /\ ~i.reaped
           k == info'[a]
<1>1. /\ task \in [Agents -> TaskStates] /\ info \in [Agents -> InfoType]
      /\ info[a] \in InfoType /\ Before(a) /\ rec \in [Agents -> {"none"} \union RecLive]
      /\ tomb \in [Agents -> {"none", "cause", "delivered"}]
      /\ UNCHANGED <<task, cancelReq, rep>>
  BY BeforeHolds DEF RecoveryCancelled
<1>2. /\ rec' = [rec EXCEPT ![a] = "none"]
      /\ \/ UNCHANGED <<info, tomb>>
         \/ /\ info' = [info EXCEPT ![a] = IF records THEN Failed(i) ELSE i]
            /\ tomb' = IF records THEN [tomb EXCEPT ![a] = "cause"] ELSE tomb
  BY DEF RecoveryCancelled
<1>3. /\ i \in InfoType /\ SameCore(info[a], i) /\ i.done = info[a].done
      /\ i.error = info[a].error
      /\ i.finalized = info[a].finalized /\ i.announced = info[a].announced
  BY <1>1, RecoveringFields
<1>4. records => ~info[a].done
  BY <1>3
<1> HIDE DEF i, records
<1>5. /\ rec'[a] = "none"
      /\ \A b \in Agents \ {a} : info'[b] = info[b] /\ tomb'[b] = tomb[b] /\ rec'[b] = rec[b]
  BY <1>1, <1>2
<1>6. \/ info'[a] = info[a] /\ tomb'[a] = tomb[a]
      \/ ~records /\ info'[a] = i /\ tomb'[a] = tomb[a]
      \/ records /\ info'[a] = Failed(i) /\ tomb'[a] = "cause"
  BY <1>1, <1>2
<1>7. \A b \in Agents \ {a} : Aside(b)
  BY <1>1, <1>5 DEF Aside, AsideFrom
<1>8. CASE info'[a] = info[a] /\ tomb'[a] = tomb[a]
  <2>1. Right(a)
    BY <1>1, <1>5, <1>8 DEF Right, Before, Good, Records, Settles, Started, Live
  <2> QED BY <1>7, <2>1, OneAgent
<1>9. CASE ~records /\ k = i /\ tomb'[a] = tomb[a]
  <2> HIDE DEF k
  <2>1. task[a] \notin {"unspawned", "queued"}
    BY DEF RecoveryCancelled, RecInv, Started, Live
  <2>2. Right(a)
    BY <1>1, <1>3, <1>5, <1>9, <2>1 DEF k, SameCore, Right, Before, Good, Records, Marks, Calls,
       Settles, Started, Live
  <2> QED BY <1>7, <2>2, OneAgent
<1>10. CASE records /\ k = Failed(i) /\ tomb'[a] = "cause"
  <2>1. /\ SameCore(i, k) /\ k.done /\ k.finalized = i.finalized /\ k.announced = i.announced
    BY <1>3, <1>10, FailedFields
  <2>2. ~info[a].done /\ ~info[a].finalized /\ rep[a] = "none"
    BY <1>1, <1>4, <1>10 DEF Before, Good, Records
  <2>3. task[a] \notin {"unspawned", "queued"}
    BY DEF RecoveryCancelled, RecInv, Started, Live
  <2> HIDE DEF k
  <2>4. Right(a)
    BY <1>1, <1>3, <1>5, <1>10, <2>1, <2>2, <2>3 DEF k, SameCore, Right, Before, Good, Records,
       Marks, Calls, Settles, Started, Live
  <2> QED BY <1>7, <2>4, OneAgent
<1> QED BY <1>6, <1>8, <1>9, <1>10

(***************************************************************************)
(* Reaps and stops.                                                        *)
(***************************************************************************)

(* A reap that begins marks the record, whoever asks for it. *)
LEMMA ReapBeginsRight ==
  ASSUME IInv, AgentInv, NEW a \in Agents, task[a] \in Started,
         UNCHANGED <<task, cancelReq, tomb, rec, rep>>,
         NEW I \in [Agents -> InfoType], \A b \in Agents \ {a} : I[b] = info[b],
         \/ I[a] = info[a]
         \/ ~info[a].done /\ I[a] = [info[a] EXCEPT !.userStopped = TRUE],
         ReapBegins(a, I)
  PROVE  \A b \in Agents : Right(b)
<1> DEFINE i == info[a]  j == info'[a]
<1>1. /\ info \in [Agents -> InfoType] /\ info[a] \in InfoType /\ Before(a)
      /\ task \in [Agents -> TaskStates]
  BY BeforeHolds
<1>2. /\ j = [I[a] EXCEPT !.reapStarted = TRUE]
      /\ \A b \in Agents \ {a} : info'[b] = info[b]
  BY DEF ReapBegins
<1>3. \A b \in Agents \ {a} : Aside(b)
  BY <1>2 DEF Aside, AsideFrom
<1>4. /\ I[a].done = i.done /\ I[a].error = i.error
      /\ i.done => I[a].userStopped = i.userStopped
      /\ I[a].reaped = i.reaped /\ I[a].finalized = i.finalized
      /\ I[a].slotReleased = i.slotReleased
      /\ I[a].reported = i.reported /\ I[a].tools = i.tools /\ I[a].byRun = i.byRun
      /\ I[a].announced = i.announced
  <2>1. CASE I[a] = i
    BY <2>1
  <2>2. CASE ~i.done /\ I[a] = [i EXCEPT !.userStopped = TRUE]
    BY <1>1, <2>2 DEF InfoType
  <2> QED BY <2>1, <2>2
<1>5. /\ j.done = I[a].done /\ j.error = I[a].error /\ j.userStopped = I[a].userStopped
      /\ j.reaped = I[a].reaped /\ j.finalized = I[a].finalized
      /\ j.slotReleased = I[a].slotReleased
      /\ j.reported = I[a].reported /\ j.tools = I[a].tools /\ j.byRun = I[a].byRun
      /\ j.announced = I[a].announced
  <2>1. I[a] \in InfoType
    OBVIOUS
  <2> QED BY <1>2, <2>1 DEF InfoType
<1>6. task[a] \notin {"unspawned", "queued"}
  BY DEF Started, Live
<1>7. i.finalized => i.done
  BY <1>1 DEF Before, Good, Records
<1> HIDE DEF i, j
<1>8. Right(a)
  BY <1>1, <1>4, <1>5, <1>6, <1>7 DEF i, j, Right, Before, Good, Records, Marks, Calls, Settles
<1> QED BY <1>3, <1>8, OneAgent

LEMMA ReapedFields ==
  ASSUME NEW i \in InfoType
  PROVE  LET j == ReapedRecord(i)
         IN /\ j \in InfoType /\ j.reaped /\ j.done
            /\ i.done => j.error = i.error
            /\ j.finalized = i.finalized /\ j.announced = i.announced
            /\ j.userStopped = i.userStopped /\ j.reapStarted = i.reapStarted
            /\ j.reported = i.reported /\ j.tools = i.tools /\ j.byRun = i.byRun
<1> DEFINE j == ReapedRecord(i)
<1>1. j \in InfoType
  BY ReapedRecordType
<1>2. CASE i.done
  <2>1. j = [i EXCEPT !.reaped = TRUE]
    BY <1>2 DEF ReapedRecord
  <2> HIDE DEF j
  <2>2. /\ j.reaped /\ j.done /\ (i.done => j.error = i.error)
        /\ j.finalized = i.finalized /\ j.announced = i.announced
        /\ j.userStopped = i.userStopped /\ j.reapStarted = i.reapStarted
        /\ j.reported = i.reported /\ j.tools = i.tools /\ j.byRun = i.byRun
    BY <1>1, <1>2, <2>1 DEF InfoType
  <2> QED BY <1>1, <2>2 DEF j
<1>3. CASE ~i.done
  <2>1. j = [i EXCEPT !.reaped = TRUE, !.done = TRUE, !.error = i.error \/ ~i.userStopped]
    BY <1>3 DEF ReapedRecord
  <2> HIDE DEF j
  <2>2. /\ j.reaped /\ j.done /\ (i.done => j.error = i.error)
        /\ j.finalized = i.finalized /\ j.announced = i.announced
        /\ j.userStopped = i.userStopped /\ j.reapStarted = i.reapStarted
        /\ j.reported = i.reported /\ j.tools = i.tools /\ j.byRun = i.byRun
    BY <1>1, <1>3, <2>1 DEF InfoType
  <2> QED BY <1>1, <2>2 DEF j
<1> QED BY <1>2, <1>3

LEMMA ReapEndsRight ==
  ASSUME IInv, AgentInv, NEW a \in Agents, task[a] \in Started, ReapEnds(a), UNCHANGED rec
  PROVE  \A b \in Agents : Right(b)
<1> DEFINE i == ReapedRecord(info[a])
           j == Claimed(i, TRUE)
           k == [j EXCEPT !.slotReleased = TRUE]
<1>1. /\ info[a] \in InfoType /\ Before(a)
  BY BeforeHolds DEF Before
<1>2. /\ task'[a] = task[a] /\ info'[a] = k
      /\ rep'[a] = (IF MayClaim(i, TRUE) THEN "inject" ELSE rep[a])
      /\ tomb'[a] = (IF info[a].done THEN tomb[a] ELSE "cause")
      /\ a \in cancelReq' <=> (Registered(a) \/ a \in cancelReq)
      /\ \A b \in Agents \ {a} : /\ AsideFrom(task[b], info[b], b)
                                 /\ rep'[b] = rep[b] /\ tomb'[b] = tomb[b]
                                 /\ b \in cancelReq' <=> b \in cancelReq
  BY ReapEndsAside DEF ReapClaims
<1>3. \A b \in Agents \ {a} : Aside(b)
  BY <1>2 DEF Aside
<1>4. /\ i \in InfoType /\ i.reaped /\ i.done
      /\ info[a].done => i.error = info[a].error
      /\ i.finalized = info[a].finalized /\ i.announced = info[a].announced
      /\ i.userStopped = info[a].userStopped
      /\ i.reported = info[a].reported /\ i.tools = info[a].tools /\ i.byRun = info[a].byRun
  BY <1>1, ReapedFields
<1> HIDE DEF i
<1>5. /\ j \in InfoType /\ SameCore(i, j) /\ j.error = i.error
      /\ MayClaim(i, TRUE) => j.finalized /\ j.done /\ j.announced = i.announced + 1
      /\ ~MayClaim(i, TRUE) => j = i
  BY <1>4, ClaimedFields
<1> HIDE DEF j
<1>6. /\ k.slotReleased
      /\ k.done = j.done /\ k.error = j.error /\ k.userStopped = j.userStopped
      /\ k.reaped = j.reaped /\ k.finalized = j.finalized
      /\ k.reported = j.reported /\ k.tools = j.tools /\ k.byRun = j.byRun
      /\ k.announced = j.announced
  BY <1>5, ReleasedFields
<1> HIDE DEF k
<1>7. MayClaim(i, TRUE) <=> ~info[a].finalized
  BY <1>4 DEF MayClaim
<1>8. /\ info[a].finalized => info[a].done
      /\ rep[a] # "none" => info[a].finalized
      /\ info[a].byRun => info[a].finalized /\ task[a] \in Late
      /\ info[a].reaped /\ task[a] \in Live => a \in cancelReq
      /\ rec[a] \in {"created", "waitOrig", "waitSlot"} => ~info[a].tools
      /\ task[a] \notin {"unspawned", "queued", "rejected"}
  BY <1>1 DEF Before, Good, Records, Started, Live
<1>9. /\ k.finalized /\ k.done /\ k.reaped
      /\ k.byRun = info[a].byRun /\ k.tools = info[a].tools
      /\ k.reported = info[a].reported /\ k.userStopped = info[a].userStopped
      /\ info[a].done => k.error = info[a].error
  BY <1>4, <1>5, <1>6, <1>7 DEF SameCore
<1>10. task[a] \in Live => a \in cancelReq'
  BY <1>2, <1>8 DEF Registered
<1>11. Records(task'[a], k, a \in cancelReq', rec'[a], rep'[a])
  BY <1>2, <1>8, <1>9, <1>10 DEF Records
<1>12. Marks(task'[a], k, tomb'[a], rep'[a])
  BY <1>1, <1>2, <1>7, <1>8, <1>9 DEF Before, Good, Marks
<1>13. Calls(task'[a], k)
  <2>1. "bareNone" \notin Gates => /\ info[a].announced <= 1
                                   /\ ~info[a].finalized => info[a].announced = 0
    BY <1>1, <1>8 DEF Before, Good, Calls
  <2>2. CASE MayClaim(i, TRUE)
    <3>1. k.announced = info[a].announced + 1
      BY <1>4, <1>5, <1>6, <2>2
    <3>2. "bareNone" \notin Gates => info[a].announced = 0
      BY <1>7, <2>1, <2>2
    <3> QED BY <1>9, <3>1, <3>2 DEF Calls
  <2>3. CASE ~MayClaim(i, TRUE)
    <3>1. k.announced = info[a].announced
      BY <1>4, <1>5, <1>6, <2>3
    <3> QED BY <1>9, <2>1, <3>1 DEF Calls
  <2> QED BY <2>2, <2>3
<1>14. Settles(task[a], info[a], task'[a], k)
  BY <1>2, <1>8, <1>9 DEF Settles
<1>15. Right(a)
  BY <1>2, <1>11, <1>12, <1>13, <1>14 DEF Right, Good
<1> QED BY <1>3, <1>15, OneAgent

(* A submission stopped in the queue. *)
LEMMA QueuedStopGood ==
  ASSUME NEW i \in InfoType, NEW c, NEW m, NEW r, NEW p, Good("queued", i, c, m, r, p)
  PROVE  /\ Good("stopped", QueuedStop(i), c, m, r, "inject")
         /\ Settles("queued", i, "stopped", QueuedStop(i))
<1>1. i = NewInfo
  BY DEF Good, Records
<1>2. /\ ~i.finalized /\ ~i.byRun /\ ~i.tools /\ ~i.reaped /\ ~i.slotReleased /\ i.announced = 0
  BY <1>1 DEF NewInfo
<1> DEFINE j == QueuedStop(i)
<1>3. /\ j.finalized /\ j.done /\ ~j.byRun /\ ~j.tools /\ ~j.reaped /\ j.announced = 1
  <2>1. j = [i EXCEPT !.userStopped = TRUE, !.finalized = TRUE, !.done = TRUE,
                      !.announced = i.announced + 1]
    BY DEF QueuedStop
  <2> HIDE DEF j
  <2> QED BY <1>2, <2>1 DEF InfoType
<1> HIDE DEF j
<1>4. m # "delivered"
  BY <1>2 DEF Good, Marks
<1>5. Good("stopped", j, c, m, r, "inject") /\ Settles("queued", i, "stopped", j)
  BY <1>2, <1>3, <1>4 DEF Good, Records, Marks, Calls, Settles, Early, Live, Started
<1> QED BY <1>5 DEF j

LEMMA StopRight ==
  ASSUME IInv, AgentInv, NEW a \in Agents,
         \/ CancelQueued(a) \/ Cancel(a) \/ GatheredCancel(a) \/ CancelTooLate(a)
         \/ StopReaps(a) \/ StopReturns(a)
  PROVE  \A b \in Agents : Right(b)
<1>1. /\ task \in [Agents -> TaskStates] /\ info \in [Agents -> InfoType]
      /\ info[a] \in InfoType /\ Before(a)
      /\ rep \in [Agents -> {"none", "delivered", "failed", "cancelled"} \union Reporting]
  BY BeforeHolds
<1>2. CASE CancelQueued(a)
  <2>1. /\ task[a] = "queued" /\ task'[a] = "stopped" /\ info'[a] = QueuedStop(info[a])
        /\ rep'[a] = "inject"
        /\ UNCHANGED <<cancelReq, tomb, rec>>
        /\ \A b \in Agents \ {a} : task'[b] = task[b] /\ info'[b] = info[b] /\ rep'[b] = rep[b]
    BY <1>1, <1>2 DEF CancelQueued
  <2>2. \A b \in Agents \ {a} : Aside(b)
    BY <2>1 DEF Aside, AsideFrom
  <2>3. Good("queued", info[a], a \in cancelReq, tomb[a], rec[a], rep[a])
    BY <1>1, <2>1 DEF Before
  <2>4. Right(a)
    BY <1>1, <2>1, <2>3, QueuedStopGood DEF Right
  <2> QED BY <2>2, <2>4, OneAgent
<1>3. CASE Cancel(a) \/ GatheredCancel(a)
  <2> DEFINE I == [info EXCEPT ![a].userStopped = TRUE]
  <2>1. /\ task[a] \in Started /\ ~info[a].done /\ ReapBegins(a, I)
        /\ UNCHANGED <<task, cancelReq, tomb, rec, rep>>
    BY <1>3 DEF Cancel, GatheredCancel, StopBegins
  <2>2. /\ I \in [Agents -> InfoType] /\ I[a] = [info[a] EXCEPT !.userStopped = TRUE]
        /\ \A b \in Agents \ {a} : I[b] = info[b]
    BY <1>1, UserStoppedTypes
  <2> HIDE DEF I
  <2> QED BY <2>1, <2>2, ReapBeginsRight
<1>4. CASE StopReaps(a)
  <2>1. task[a] \in Started /\ ReapEnds(a) /\ UNCHANGED rec
    BY <1>1, <1>4 DEF StopReaps, Before
  <2> QED BY <2>1, ReapEndsRight
<1>5. CASE CancelTooLate(a) \/ StopReturns(a)
  <2>1. \A b \in Agents : Aside(b)
    BY <1>5 DEF CancelTooLate, StopReturns, Aside, AsideFrom
  <2> QED BY <2>1, AsideRight
<1> QED BY <1>2, <1>3, <1>4, <1>5

LEMMA CancelForParentRight ==
  ASSUME IInv, AgentInv, CancelForParent
  PROVE  \A b \in Agents : Right(b)
<1>1. SUFFICES ASSUME NEW b \in Agents PROVE Right(b)
  OBVIOUS
<1>2. info[b] \in InfoType /\ Before(b)
  BY BeforeHolds DEF Before
<1>3. UNCHANGED <<cancelReq, tomb, rec>>
  BY DEF CancelForParent
<1>4. CASE task[b] = "queued"
  <2>1. task'[b] = "stopped" /\ info'[b] = QueuedStop(info[b]) /\ rep'[b] = "inject"
    BY <1>4 DEF CancelForParent
  <2>2. Good("queued", info[b], b \in cancelReq, tomb[b], rec[b], rep[b])
    BY <1>2, <1>4 DEF Before
  <2> QED BY <1>2, <1>3, <1>4, <2>1, <2>2, QueuedStopGood DEF Right
<1>5. CASE task[b] # "queued"
  <2>1. task'[b] = task[b] /\ info'[b] = info[b] /\ rep'[b] = rep[b]
    BY <1>5 DEF CancelForParent
  <2>2. Aside(b)
    BY <1>3, <2>1 DEF Aside, AsideFrom
  <2> QED BY <2>2, AsideRight
<1> QED BY <1>4, <1>5

LEMMA ReaperRight ==
  ASSUME IInv, AgentInv, NEW a \in Agents,
         \/ ReaperVisits(a) \/ ReaperPasses(a) \/ ReaperExpires(a)
         \/ ReaperReaps(a) \/ ReaperReturns(a)
  PROVE  \A b \in Agents : Right(b)
<1>1. info \in [Agents -> InfoType] /\ Before(a)
  BY BeforeHolds
<1>2. CASE ReaperPasses(a) \/ ReaperReturns(a) \/ (ReaperVisits(a) /\ UNCHANGED info)
  <2>1. \A b \in Agents : Aside(b)
    BY <1>2 DEF ReaperPasses, ReaperReturns, ReaperVisits, Aside, AsideFrom
  <2> QED BY <2>1, AsideRight
<1>3. CASE (ReaperVisits(a) /\ ~UNCHANGED info) \/ ReaperExpires(a)
  <2>1. /\ task[a] \in Started /\ ReapBegins(a, info)
        /\ UNCHANGED <<task, cancelReq, tomb, rec, rep>>
    BY <1>1, <1>3 DEF ReaperVisits, ReaperExpires, Before
  <2> QED BY <1>1, <2>1, ReapBeginsRight
<1>4. CASE ReaperReaps(a)
  <2>1. task[a] \in Started /\ ReapEnds(a) /\ UNCHANGED rec
    BY <1>1, <1>4 DEF ReaperReaps, Before
  <2> QED BY <2>1, ReapEndsRight
<1> QED BY <1>2, <1>3, <1>4

(***************************************************************************)
(* The shutdown.                                                           *)
(***************************************************************************)
LEMMA ShutdownRight ==
  ASSUME IInv, AgentInv,
         ShutdownBegins \/ ShutdownCancels \/ ShutdownGathers \/ ShutdownDrains
         \/ StaggerElapses \/ UNCHANGED vars
  PROVE  \A b \in Agents : Right(b)
<1>1. SUFFICES ASSUME NEW b \in Agents PROVE Right(b)
  OBVIOUS
<1>2. Before(b) /\ UNCHANGED <<task, info, rec>>
  BY BeforeHolds DEF ShutdownBegins, ShutdownCancels, ShutdownGathers, ShutdownDrains,
     StaggerElapses, vars
<1>3. CASE ShutdownCancels
  <2>1. (b \in cancelReq => b \in cancelReq') /\ UNCHANGED <<tomb, rep>>
    BY <1>3 DEF ShutdownCancels
  <2> QED BY <1>2, <2>1 DEF Right, Before, Good, Records, Settles
<1>4. CASE ShutdownDrains
  <2>1. /\ UNCHANGED cancelReq
        /\ \/ rep'[b] = rep[b] /\ tomb'[b] = tomb[b]
           \/ /\ rep[b] \in Reporting /\ rep'[b] = "cancelled"
              /\ ~info[b].reported => tomb'[b] = "none"
              /\ info[b].reported => tomb'[b] = tomb[b]
    BY <1>4 DEF ShutdownDrains, Readmitted
  <2> QED BY <1>2, <2>1 DEF Right, Before, Good, Records, Marks, Settles, Reporting
<1>5. CASE ~ShutdownCancels /\ ~ShutdownDrains
  <2>1. UNCHANGED <<cancelReq, tomb, rep>>
    BY <1>5 DEF ShutdownBegins, ShutdownGathers, StaggerElapses, vars
  <2>2. Aside(b)
    BY <1>2, <2>1 DEF Aside, AsideFrom
  <2> QED BY <2>2, AsideRight
<1> QED BY <1>3, <1>4, <1>5

(***************************************************************************)
(* Every step.                                                             *)
(***************************************************************************)
LEMMA StepRight ==
  ASSUME IInv, AgentInv, RecInv, [Next]_vars
  PROVE  \A b \in Agents : Right(b)
<1>1. ASSUME NEW a \in Agents, Spawn(a) PROVE \A b \in Agents : Right(b)
  BY <1>1, SpawnRight
<1>2. ASSUME NEW a \in Agents, SpawnDeclined(a) PROVE \A b \in Agents : Right(b)
  BY <1>2, SpawnDeclinedRight
<1>3. ASSUME NEW a \in Agents,
             \/ SpawnApproved(a) \/ AnnounceReturns(a) \/ CancelledBeforeRun(a) \/ RunStarts(a)
             \/ RunUsesTool(a) \/ RunReturns(a) \/ StrayCancel(a)
      PROVE  \A b \in Agents : Right(b)
  BY <1>3, RunMovesRight
<1>4. ASSUME NEW a \in Agents, RunCompletes(a) \/ RunFails(a) \/ RunCancelled(a)
      PROVE  \A b \in Agents : Right(b)
  BY <1>4, RunEndsRight
<1>5. ASSUME NEW a \in Agents, TeardownEnds(a) PROVE \A b \in Agents : Right(b)
  BY <1>5, TeardownRight
<1>6. ASSUME NEW a \in Agents, ReportInjected(a) \/ ReportPassesGate(a) \/ ReportFails(a)
      PROVE  \A b \in Agents : Right(b)
  BY <1>6, ReportRight
<1>7. ASSUME NEW a \in Agents,
             \/ RecoveryStarts(a) \/ RecoveryReturns(a) \/ RecoveryResumes(a)
             \/ RecoveryFails(a) \/ RecoveryCancelled(a)
      PROVE  \A b \in Agents : Right(b)
  BY <1>7, RecoveryQuietRight, RecoveryResumesRight, RecoveryFailsRight, RecoveryCancelledRight
<1>8. ASSUME NEW a \in Agents,
             \/ CancelQueued(a) \/ Cancel(a) \/ GatheredCancel(a) \/ CancelTooLate(a)
             \/ StopReaps(a) \/ StopReturns(a)
      PROVE  \A b \in Agents : Right(b)
  BY <1>8, StopRight
<1>9. ASSUME NEW a \in Agents,
             \/ ReaperVisits(a) \/ ReaperPasses(a) \/ ReaperExpires(a)
             \/ ReaperReaps(a) \/ ReaperReturns(a)
      PROVE  \A b \in Agents : Right(b)
  BY <1>9, ReaperRight
<1> QED
  BY <1>1, <1>2, <1>3, <1>4, <1>5, <1>6, <1>7, <1>8, <1>9, CancelForParentRight,
     DrainTimerRight, ShutdownRight DEF Next, Loop

LEMMA RecStep ==
  ASSUME TypeOK, RecInv, [Next]_vars, \A b \in Agents : Right(b)
  PROVE  RecInv'
<1>0. rec \in [Agents -> {"none"} \union RecLive] /\ recCancel \subseteq Agents
  BY DEF TypeOK
<1>1. \A b \in Agents : task[b] \in Started => task'[b] \in Started
  BY DEF Right, Settles
<1>2. CASE UNCHANGED <<rec, recCancel>>
  BY <1>1, <1>2 DEF RecInv
<1>3. ASSUME NEW a \in Agents, RunCancelled(a) PROVE RecInv'
  <2>1. /\ UNCHANGED recCancel /\ task[a] \in Started
        /\ rec' = rec \/ rec' = [rec EXCEPT ![a] = "created"]
    BY <1>3 DEF RunCancelled, Started, Live
  <2>2. CASE rec' = rec
    BY <1>2, <2>1, <2>2
  <2>3. CASE rec' = [rec EXCEPT ![a] = "created"]
    BY <1>0, <1>1, <2>1, <2>3 DEF RecInv
  <2> QED BY <2>1, <2>2, <2>3
<1>4. ASSUME NEW a \in Agents,
             \/ RecoveryStarts(a) \/ RecoveryReturns(a) \/ RecoveryResumes(a) \/ RecoveryFails(a)
      PROVE  RecInv'
  <2>1. UNCHANGED recCancel /\ a \notin recCancel /\ rec[a] # "none"
    BY <1>4 DEF RecoveryStarts, RecoveryReturns, RecoveryResumes, RecoveryFails
  <2>2. \E r : rec' = [rec EXCEPT ![a] = r]
    BY <1>4 DEF RecoveryStarts, RecoveryReturns, RecoveryResumes, RecoveryFails
  <2> QED BY <1>0, <1>1, <2>1, <2>2 DEF RecInv
<1>5. ASSUME NEW a \in Agents, RecoveryCancelled(a) PROVE RecInv'
  BY <1>0, <1>1, <1>5 DEF RecoveryCancelled, RecInv
<1>6. ASSUME NEW a \in Agents, NEW I, ReapBegins(a, I), UNCHANGED rec PROVE RecInv'
  BY <1>0, <1>1, <1>6 DEF ReapBegins, RecInv, RecLive
<1>7. ASSUME NEW a \in Agents,
             Cancel(a) \/ GatheredCancel(a) \/ ReaperVisits(a) \/ ReaperExpires(a)
      PROVE  RecInv'
  <2>1. UNCHANGED rec /\ (UNCHANGED recCancel \/ \E I : ReapBegins(a, I))
    BY <1>7 DEF Cancel, GatheredCancel, StopBegins, ReaperVisits, ReaperExpires
  <2> QED BY <1>2, <1>6, <2>1
<1>8. CASE ShutdownCancels
  BY <1>0, <1>1, <1>8 DEF ShutdownCancels, RecInv, RecLive
<1>9. ASSUME NEW a \in Agents,
             \/ Spawn(a) \/ SpawnApproved(a) \/ SpawnDeclined(a) \/ RunUsesTool(a)
             \/ RunCompletes(a) \/ RunFails(a) \/ StrayCancel(a) \/ CancelQueued(a)
             \/ AnnounceReturns(a) \/ CancelledBeforeRun(a) \/ RunStarts(a) \/ TeardownEnds(a)
             \/ RunReturns(a) \/ ReportInjected(a) \/ ReportPassesGate(a) \/ ReportFails(a)
             \/ CancelTooLate(a) \/ StopReaps(a) \/ StopReturns(a)
             \/ ReaperPasses(a) \/ ReaperReaps(a) \/ ReaperReturns(a)
      PROVE  RecInv'
  <2>1. UNCHANGED <<rec, recCancel>>
    BY <1>9 DEF Spawn, SpawnApproved, SpawnDeclined, RunUsesTool, RunCompletes, RunFails,
       StrayCancel, CancelQueued, AnnounceReturns, CancelledBeforeRun, RunStarts, TeardownEnds,
       RunReturns, ReportInjected, ReportPassesGate, ReportFails, CancelTooLate, StopReaps,
       StopReturns, ReaperPasses, ReaperReaps, ReaperReturns
  <2> QED BY <1>2, <2>1
<1>10. CASE \/ CancelForParent \/ StaggerElapses \/ DrainTimerFires \/ ShutdownBegins
            \/ ShutdownGathers \/ ShutdownDrains \/ UNCHANGED vars
  BY <1>2, <1>10 DEF CancelForParent, StaggerElapses, DrainTimerFires, ShutdownBegins,
     ShutdownGathers, ShutdownDrains, vars
<1> QED
  BY <1>2, <1>3, <1>4, <1>5, <1>7, <1>8, <1>9, <1>10 DEF Next, Loop

RInv == IInv /\ AgentInv /\ RecInv

LEMMA InitRInv == Init => RInv
<1> SUFFICES ASSUME Init PROVE RInv
  OBVIOUS
<1>1. /\ task = [a \in Agents |-> "unspawned"] /\ info = [a \in Agents |-> NewInfo]
      /\ tomb = [a \in Agents |-> "none"] /\ rec = [a \in Agents |-> "none"]
      /\ rep = [a \in Agents |-> "none"] /\ recCancel = {}
  BY DEF Init
<1>2. ASSUME NEW b \in Agents
      PROVE  Good(task[b], info[b], b \in cancelReq, tomb[b], rec[b], rep[b])
  BY <1>1 DEF Good, Records, Marks, Calls, NewInfo, Early, Live
<1>3. AgentInv
  BY <1>2 DEF AgentInv
<1>4. RecInv
  BY <1>1 DEF RecInv
<1> QED BY <1>3, <1>4, InitIInv DEF RInv

LEMMA NextRInv ==
  ASSUME RInv, [Next]_vars
  PROVE  RInv' /\ \A b \in Agents : Right(b)
<1>1. \A b \in Agents : Right(b)
  BY StepRight DEF RInv
<1>2. AgentInv'
  BY <1>1 DEF AgentInv, Right
<1>3. RecInv'
  BY <1>1, RecStep DEF RInv, IInv
<1>4. IInv'
  BY NextIInv DEF RInv
<1> QED BY <1>1, <1>2, <1>3, <1>4 DEF RInv

LEMMA AlwaysRInv == Spec => []RInv
<1>1. RInv /\ [Next]_vars => RInv'
  BY NextRInv
<1> QED BY <1>1, InitRInv, PTL DEF Spec

(* The delivered mark, which hides a folder from orphan recovery, is only   *)
(* on an agent without error whose outcome reached the parent and whose run *)
(* has left its session teardown.                                           *)
THEOREM DeliveredSafe == Spec => []DeliveredTrailsTeardown
<1>1. RInv => DeliveredTrailsTeardown
  BY DEF RInv, AgentInv, Good, Records, Marks, Late, DeliveredTrailsTeardown
<1> QED BY <1>1, AlwaysRInv, PTL

(* A report the shutdown cancelled before it reached the parent leaves no   *)
(* tombstone behind.                                                        *)
THEOREM AbandonedSafe == Spec => []AbandonedReportRecoverable
<1>1. RInv => AbandonedReportRecoverable
  BY DEF RInv, AgentInv, Good, Marks, AbandonedReportRecoverable
<1> QED BY <1>1, AlwaysRInv, PTL

(* An outcome once claimed is never rewritten by another terminal path.     *)
THEOREM OutcomeSettles == Spec => OutcomeSettled
<1>1. RInv /\ [Next]_vars =>
        [\A a \in Agents :
           info[a].finalized => /\ info'[a].error = info[a].error
                                /\ info'[a].userStopped = info[a].userStopped
                                /\ info'[a].finalized]_vars
  BY NextRInv DEF Right, Settles
<1> QED BY <1>1, AlwaysRInv, PTL DEF Spec, OutcomeSettled

(* A run that executed a tool is never respawned. *)
THEOREM NeverReplays == Spec => NoReplayAfterTools
<1>1. RInv /\ [Next]_vars =>
        [\A a \in Agents : task[a] = "ended" /\ task'[a] # "ended" => ~info[a].tools]_vars
  BY NextRInv DEF Right, Settles
<1> QED BY <1>1, AlwaysRInv, PTL DEF Spec, NoReplayAfterTools

(* Once an agent is done or its reap has begun, neither the queue nor a     *)
(* recovery starts a task for it.                                           *)
THEOREM StoppedStaysStopped == Spec => NoStartAfterStop
<1>1. RInv /\ [Next]_vars =>
        [\A a \in Agents :
           /\ info[a].done \/ info[a].reapStarted
           /\ task[a] \notin Live
           => task'[a] \notin Live]_vars
  BY NextRInv DEF Right, Settles
<1> QED BY <1>1, AlwaysRInv, PTL DEF Spec, NoStartAfterStop

(* The run tasks that are not being cancelled never outnumber the slots: a  *)
(* reap gives back the slot of a run only when it has cancelled it.         *)
THEOREM OccupancySafe == Spec => []OccupancyBounded
<1>1. ASSUME RInv PROVE OccupancyBounded
  <2> DEFINE S == {a \in Agents : task[a] \in Live /\ a \notin cancelReq}
  <2>1. S \subseteq HoldersIn(task, info)
    BY <1>1 DEF RInv, AgentInv, Good, Records, HoldersIn, Started
  <2>2. IsFiniteSet(HoldersIn(task, info)) /\ Cardinality(HoldersIn(task, info)) \in Nat
    BY HoldersFinite
  <2>3. IsFiniteSet(S) /\ Cardinality(S) <= Cardinality(HoldersIn(task, info))
    BY <2>1, <2>2, FS_Subset
  <2>4. Cardinality(S) \in Nat
    BY <2>3, FS_CardinalityType
  <2>5. Cardinality(HoldersIn(task, info)) <= MaxConcurrent
    BY <1>1 DEF RInv, IInv, SlotInv, Slots
  <2> HIDE DEF S
  <2>6. Cardinality(S) <= MaxConcurrent
    BY <2>2, <2>3, <2>4, <2>5, MaxConcurrentAssumption
  <2> QED BY <2>6 DEF S, OccupancyBounded
<1> QED BY <1>1, AlwaysRInv, PTL

(* Where a submission without an approval mechanism always has a hook       *)
(* configuration, the parent's _on_done is called at most once for an agent.*)
THEOREM AnnouncedSafe ==
  ASSUME "bareNone" \notin Gates
  PROVE  Spec => []AnnouncedOnce
<1>1. RInv => AnnouncedOnce
  BY DEF RInv, AgentInv, Good, Calls, AnnouncedOnce
<1> QED BY <1>1, AlwaysRInv, PTL
=============================================================================
