----------------------- MODULE SubagentManagerProofs -----------------------
(***************************************************************************)
(* Proofs about SubagentManager: that every variable keeps its type and    *)
(* that the slot counter is exact, for any agents and any number of slots. *)
(*                                                                         *)
(* SlotAccounting is not inductive.  It holds because a submission in the  *)
(* queue is there once and has not touched a slot (Slots), and because     *)
(* only a started agent is stopped, reaped or recovered, and a recovery    *)
(* that waits to take a new slot does so for a run that has given its own  *)
(* back, or will (Life).  IInv adds the two to the types.                  *)
(***************************************************************************)
EXTENDS SubagentManager, FiniteSetTheorems, TLAPS

(* What spawn makes of a submission is an outcome that takes at most one    *)
(* slot.                                                                    *)
LEMMA OutcomeType ==
  ASSUME NEW gate \in GateKinds, NEW a \in Agents, NEW fromQueue \in BOOLEAN
  PROVE  /\ Outcome(gate, a, fromQueue) \in
              [pc : {"created", "approval", "rejected"}, stamps : BOOLEAN, calls : Nat]
         /\ SlotsTaken(Outcome(gate, a, fromQueue)) \in {0, 1}
  BY DEF Outcome, GateKinds, SlotsTaken

(* Recording an outcome keeps the record, its slot token and its reporter. *)
LEMMA RecordedType ==
  ASSUME NEW i \in InfoType,
         NEW o \in [pc : {"created", "approval", "rejected"}, stamps : BOOLEAN, calls : Nat]
  PROVE  /\ Recorded(i, o) \in InfoType
         /\ Recorded(i, o).slotReleased = i.slotReleased
         /\ Recorded(i, o).byRun = i.byRun
<1>1. ASSUME NEW b \in BOOLEAN, NEW c \in BOOLEAN, NEW n \in Nat
      PROVE  [i EXCEPT !.done = b, !.error = b, !.logged = c, !.announced = n] \in InfoType
  BY DEF InfoType
<1>2. (o.pc = "rejected") \in BOOLEAN /\ (o.pc = "created") \in BOOLEAN /\ o.calls \in Nat
  OBVIOUS
<1>3. Recorded(i, o) \in InfoType
  BY <1>1, <1>2 DEF Recorded
<1>4. Recorded(i, o).slotReleased = i.slotReleased /\ Recorded(i, o).byRun = i.byRun
  BY DEF Recorded, InfoType
<1> QED
  BY <1>3, <1>4

(* A drain keeps the types of what it changes, if the count it leaves is    *)
(* natural.                                                                 *)
LEMMA DrainTyped ==
  ASSUME TypeOK, NEW count,
         NEW T \in [Agents -> TaskStates], NEW I \in [Agents -> InfoType],
         NEW timer \in BOOLEAN, DrainQueue(count, T, I, timer)
  PROVE  /\ queue' \in Seq(Agents)
         /\ tooSoon' \in BOOLEAN
         /\ drainTimer' \in BOOLEAN
         /\ task' \in [Agents -> TaskStates]
         /\ info' \in [Agents -> InfoType]
<1>1. CASE queue = <<>> \/ ~SlotFree(count)
  BY <1>1 DEF DrainQueue, TypeOK
<1>2. CASE ~(queue = <<>> \/ ~SlotFree(count)) /\ tooSoon /\ UNCHANGED <<queue, tooSoon>>
  BY <1>2 DEF DrainQueue, TypeOK
<1>3. CASE ~(queue = <<>> \/ ~SlotFree(count)) /\ ~(tooSoon /\ UNCHANGED <<queue, tooSoon>>)
  <2>1. queue # <<>> /\ Head(queue) \in Agents /\ Tail(queue) \in Seq(Agents)
    BY <1>3 DEF TypeOK
  <2> DEFINE h == Head(queue)
  <2>2. PICK gate \in Gates :
          LET o == Outcome(gate, h, TRUE)
          IN /\ task' = [T EXCEPT ![h] = o.pc]
             /\ info' = [I EXCEPT ![h] = Recorded(@, o)]
             /\ tooSoon' = o.stamps
             /\ drainTimer' = (timer \/ MoreToDrain(Tail(queue), count + SlotsTaken(o)))
    BY <1>3 DEF DrainQueue
  <2>3. queue' = Tail(queue)
    BY <1>3 DEF DrainQueue
  <2> DEFINE o == Outcome(gate, h, TRUE)
  <2>4. o \in [pc : {"created", "approval", "rejected"}, stamps : BOOLEAN, calls : Nat]
    BY <2>1, OutcomeType, GatesAssumption
  <2>5. Recorded(I[h], o) \in InfoType
    BY <2>1, <2>4, RecordedType
  <2> HIDE DEF o
  <2>6. task' = [T EXCEPT ![h] = o.pc] /\ info' = [I EXCEPT ![h] = Recorded(I[h], o)]
        /\ tooSoon' = o.stamps /\ drainTimer' = (timer \/ MoreToDrain(Tail(queue), count + SlotsTaken(o)))
    BY <2>2, <2>1 DEF o
  <2>7. o.pc \in TaskStates /\ o.stamps \in BOOLEAN
    BY <2>4 DEF TaskStates
  <2> QED
    BY <2>1, <2>3, <2>5, <2>6, <2>7 DEF MoreToDrain
<1> QED
  BY <1>1, <1>2, <1>3

(* The failures, claims and stops written into a record leave a record. *)
LEMMA RecordTypes ==
  ASSUME NEW i \in InfoType, NEW s \in BOOLEAN
  PROVE  /\ Failed(i) \in InfoType
         /\ Failed(i).slotReleased = i.slotReleased
         /\ Failed(i).byRun = i.byRun
         /\ Claimed(i, s) \in InfoType
         /\ Claimed(i, s).slotReleased = i.slotReleased
         /\ Claimed(i, s).byRun = i.byRun
         /\ QueuedStop(i) \in InfoType
         /\ QueuedStop(i).slotReleased = i.slotReleased
         /\ QueuedStop(i).byRun = i.byRun
<1>1. i.announced + 1 \in Nat
  BY DEF InfoType
<1>2. /\ Failed(i) \in InfoType
      /\ Failed(i).slotReleased = i.slotReleased
      /\ Failed(i).byRun = i.byRun
  BY DEF Failed, InfoType
<1>3. /\ Claimed(i, s) \in InfoType
      /\ Claimed(i, s).slotReleased = i.slotReleased
      /\ Claimed(i, s).byRun = i.byRun
  <2>1. CASE MayClaim(i, s)
    <3>1. Claimed(i, s) = [i EXCEPT !.recovering = FALSE, !.finalized = TRUE, !.done = TRUE,
                                    !.announced = i.announced + 1]
      BY <2>1 DEF Claimed, InfoType
    <3> QED
      BY <1>1, <3>1 DEF InfoType
  <2>2. CASE ~MayClaim(i, s)
    BY <2>2 DEF Claimed
  <2> QED
    BY <2>1, <2>2
<1>4. /\ QueuedStop(i) \in InfoType
      /\ QueuedStop(i).slotReleased = i.slotReleased
      /\ QueuedStop(i).byRun = i.byRun
  BY <1>1 DEF QueuedStop, InfoType
<1> QED
  BY <1>2, <1>3, <1>4

(* So does what a reap writes, and it leaves the slot token alone. *)
LEMMA ReapedRecordType ==
  ASSUME NEW i \in InfoType
  PROVE  /\ ReapedRecord(i) \in InfoType
         /\ ReapedRecord(i).slotReleased = i.slotReleased
         /\ ReapedRecord(i).byRun = i.byRun
<1>1. ASSUME NEW b \in BOOLEAN
      PROVE  [i EXCEPT !.reaped = TRUE, !.done = TRUE, !.error = b] \in InfoType
  BY DEF InfoType
<1>2. (i.error \/ ~i.userStopped) \in BOOLEAN
  OBVIOUS
<1>3. [i EXCEPT !.reaped = TRUE] \in InfoType
  BY DEF InfoType
<1>4. ReapedRecord(i) \in InfoType
  BY <1>1, <1>2, <1>3 DEF ReapedRecord
<1>5. ReapedRecord(i).slotReleased = i.slotReleased /\ ReapedRecord(i).byRun = i.byRun
  BY DEF ReapedRecord, InfoType
<1> QED
  BY <1>4, <1>5

(* Releasing a slot, with the drain it leads to, keeps the types. *)
LEMMA ReleaseTyped ==
  ASSUME TypeOK, NEW a \in Agents,
         NEW T \in [Agents -> TaskStates], NEW I \in [Agents -> InfoType],
         ReleaseSlot(a, T, I)
  PROVE  /\ queue' \in Seq(Agents)
         /\ tooSoon' \in BOOLEAN
         /\ drainTimer' \in BOOLEAN
         /\ task' \in [Agents -> TaskStates]
         /\ info' \in [Agents -> InfoType]
<1>1. CASE I[a].slotReleased
  BY <1>1 DEF ReleaseSlot, admission, TypeOK
<1>2. CASE ~I[a].slotReleased
  <2> DEFINE J == [I EXCEPT ![a].slotReleased = TRUE]
  <2>1. J \in [Agents -> InfoType]
    <3>1. [I[a] EXCEPT !.slotReleased = TRUE] \in InfoType
      <4> DEFINE i == I[a]
      <4>1. i \in InfoType
        OBVIOUS
      <4> HIDE DEF i
      <4>2. [i EXCEPT !.slotReleased = TRUE] \in InfoType
        BY <4>1 DEF InfoType
      <4> QED BY <4>2 DEF i
    <3> QED
      BY <3>1
  <2>2. DrainQueue(runningCount - 1, T, J, drainTimer)
    BY <1>2 DEF ReleaseSlot
  <2>3. drainTimer \in BOOLEAN
    BY DEF TypeOK
  <2> HIDE DEF J
  <2> QED
    BY <2>1, <2>2, <2>3, DrainTyped
<1> QED
  BY <1>1, <1>2

(* So does the end of a run. *)
LEMMA RunExitTyped ==
  ASSUME TypeOK, NEW a \in Agents, NEW I \in [Agents -> InfoType], NEW w \in BOOLEAN,
         RunExit(a, I, w)
  PROVE  /\ queue' \in Seq(Agents)
         /\ tooSoon' \in BOOLEAN
         /\ drainTimer' \in BOOLEAN
         /\ task' \in [Agents -> TaskStates]
         /\ info' \in [Agents -> InfoType]
<1> DEFINE T == [task EXCEPT ![a] = IF w /\ ~ShuttingDown THEN "awaitReport" ELSE "ended"]
<1>1. T \in [Agents -> TaskStates]
  BY DEF TypeOK, TaskStates
<1>2. ReleaseSlot(a, T, I)
  BY DEF RunExit
<1> QED
  BY <1>1, <1>2, ReleaseTyped

(* So does the finally of a run. *)
LEMMA RunFinallyTyped ==
  ASSUME TypeOK, NEW a \in Agents, NEW i \in InfoType, RunFinally(a, i)
  PROVE  /\ queue' \in Seq(Agents)
         /\ tooSoon' \in BOOLEAN
         /\ drainTimer' \in BOOLEAN
         /\ task' \in [Agents -> TaskStates]
         /\ info' \in [Agents -> InfoType]
         /\ rep' \in [Agents -> {"none", "delivered", "failed", "cancelled"} \union Reporting]
<1> DEFINE mine == MayClaim(i, FALSE)
           I == [info EXCEPT ![a] = IF mine THEN [Claimed(i, FALSE) EXCEPT !.byRun = TRUE] ELSE i]
<1>1. Claimed(i, FALSE) \in InfoType
  BY RecordTypes
<1>2. [Claimed(i, FALSE) EXCEPT !.byRun = TRUE] \in InfoType
  BY <1>1 DEF InfoType
<1>3. I \in [Agents -> InfoType]
  BY <1>2 DEF TypeOK
<1>4. rep' \in [Agents -> {"none", "delivered", "failed", "cancelled"} \union Reporting]
  BY DEF RunFinally, TypeOK, Reporting
<1>5. mine \in BOOLEAN
  BY DEF MayClaim
<1>6. CASE i.reaped
  <2>1. RunExit(a, I, mine)
    BY <1>6 DEF RunFinally
  <2> HIDE DEF I, mine
  <2> QED
    BY <1>3, <1>4, <1>5, <2>1, RunExitTyped
<1>7. CASE ~i.reaped
  <2>1. task' = [task EXCEPT ![a] = "teardown"] /\ info' = I /\ UNCHANGED admission
    BY <1>7 DEF RunFinally
  <2> HIDE DEF I, mine
  <2> QED
    BY <1>3, <1>4, <2>1 DEF TypeOK, TaskStates, admission
<1> QED
  BY <1>6, <1>7

(* So does a reap after its session reset. *)
LEMMA ReapEndsTyped ==
  ASSUME TypeOK, NEW a \in Agents, ReapEnds(a)
  PROVE  /\ queue' \in Seq(Agents)
         /\ tooSoon' \in BOOLEAN
         /\ drainTimer' \in BOOLEAN
         /\ task' \in [Agents -> TaskStates]
         /\ info' \in [Agents -> InfoType]
         /\ cancelReq' \subseteq Agents
         /\ tomb' \in [Agents -> {"none", "cause", "delivered"}]
         /\ rep' \in [Agents -> {"none", "delivered", "failed", "cancelled"} \union Reporting]
<1> DEFINE I == [info EXCEPT ![a] = Claimed(ReapedRecord(info[a]), TRUE)]
<1>1. Claimed(ReapedRecord(info[a]), TRUE) \in InfoType
  <2>1. info[a] \in InfoType
    BY DEF TypeOK
  <2> QED
    BY <2>1, ReapedRecordType, RecordTypes
<1>2. I \in [Agents -> InfoType] /\ task \in [Agents -> TaskStates]
  BY <1>1 DEF TypeOK
<1>3. ReleaseSlot(a, task, I)
  BY DEF ReapEnds
<1>4. /\ cancelReq' \subseteq Agents
      /\ tomb' \in [Agents -> {"none", "cause", "delivered"}]
      /\ rep' \in [Agents -> {"none", "delivered", "failed", "cancelled"} \union Reporting]
  BY DEF ReapEnds, TypeOK, Reporting
<1> HIDE DEF I
<1> QED
  BY <1>2, <1>3, <1>4, ReleaseTyped

(* Popping an entry of a sequence leaves a sequence one shorter. *)
LEMMA WithoutAtType ==
  ASSUME NEW S, NEW q \in Seq(S), NEW k \in 1..Len(q)
  PROVE  WithoutAt(q, k) \in Seq(S) /\ Len(WithoutAt(q, k)) = Len(q) - 1
<1>1. Len(q) \in Nat /\ Len(q) - 1 \in Nat
  OBVIOUS
<1>2. \A j \in 1..(Len(q) - 1) : (IF j < k THEN q[j] ELSE q[j + 1]) \in S
  OBVIOUS
<1>3. WithoutAt(q, k) \in [1..(Len(q) - 1) -> S]
  BY <1>2 DEF WithoutAt
<1> QED
  BY <1>1, <1>3

(* The updates of a flag by the actions keep a record a record, and all but *)
(* the respawn of a recovery keep its slot token.                           *)
LEMMA LoggedTypes == ASSUME NEW i \in InfoType PROVE [i EXCEPT !.logged = TRUE] \in InfoType
BY DEF InfoType

LEMMA ToolsTypes == ASSUME NEW i \in InfoType PROVE [i EXCEPT !.tools = TRUE] \in InfoType
BY DEF InfoType

LEMMA ReportedTypes == ASSUME NEW i \in InfoType PROVE [i EXCEPT !.reported = TRUE] \in InfoType
BY DEF InfoType

LEMMA UserStoppedTypes ==
  ASSUME NEW i \in InfoType PROVE [i EXCEPT !.userStopped = TRUE] \in InfoType
BY DEF InfoType

LEMMA ReapStartedTypes ==
  ASSUME NEW i \in InfoType PROVE [i EXCEPT !.reapStarted = TRUE] \in InfoType
BY DEF InfoType

LEMMA TokenTypes ==
  ASSUME NEW i \in InfoType PROVE [i EXCEPT !.slotReleased = TRUE] \in InfoType
BY DEF InfoType

LEMMA ResumedTypes ==
  ASSUME NEW i \in InfoType
  PROVE  [i EXCEPT !.recovering = FALSE, !.slotReleased = FALSE] \in InfoType
BY DEF InfoType

LEMMA DoneTypes ==
  ASSUME NEW i \in InfoType
  PROVE  /\ [i EXCEPT !.done = TRUE] \in InfoType
         /\ [i EXCEPT !.done = TRUE].slotReleased = i.slotReleased
         /\ [i EXCEPT !.done = TRUE].byRun = i.byRun
BY DEF InfoType

LEMMA RecoveringTypes ==
  ASSUME NEW i \in InfoType
  PROVE  /\ [i EXCEPT !.recovering = FALSE] \in InfoType
         /\ [i EXCEPT !.recovering = FALSE].slotReleased = i.slotReleased
         /\ [i EXCEPT !.recovering = FALSE].byRun = i.byRun
BY DEF InfoType

LEMMA RetryTypes ==
  ASSUME NEW i \in InfoType
  PROVE  /\ [i EXCEPT !.retryUsed = TRUE, !.recovering = TRUE] \in InfoType
         /\ [i EXCEPT !.retryUsed = TRUE, !.recovering = TRUE].slotReleased = i.slotReleased
         /\ [i EXCEPT !.retryUsed = TRUE, !.recovering = TRUE].byRun = i.byRun
         /\ [i EXCEPT !.retryUsed = TRUE, !.recovering = TRUE].recovering
         /\ [i EXCEPT !.retryUsed = TRUE, !.recovering = TRUE].reaped = i.reaped
BY DEF InfoType

(* So does a drain timer that fires. *)
LEMMA DrainTimerTyped ==
  ASSUME TypeOK, DrainTimerFires
  PROVE  /\ queue' \in Seq(Agents)
         /\ tooSoon' \in BOOLEAN
         /\ drainTimer' \in BOOLEAN
         /\ task' \in [Agents -> TaskStates]
         /\ info' \in [Agents -> InfoType]
<1>1. task \in [Agents -> TaskStates] /\ info \in [Agents -> InfoType]
  BY DEF TypeOK
<1>2. PICK others \in BOOLEAN : DrainQueue(runningCount, task, info, others)
  BY DEF DrainTimerFires
<1> QED
  BY <1>1, <1>2, DrainTyped

(* Type correctness of a step, given that it leaves the counter a natural:  *)
(* that it does is part of the slot invariant below.                        *)
LEMMA TypeStep ==
  ASSUME TypeOK, [Next]_vars, runningCount' \in Nat
  PROVE  TypeOK'
<1> USE DEF TypeOK
<1>1. ASSUME NEW a \in Agents, Spawn(a)
      PROVE  TypeOK'
  <2>1. info[a] \in InfoType
    OBVIOUS
  <2>2. ASSUME NEW gate \in GateKinds
        PROVE  /\ Outcome(gate, a, FALSE).pc \in TaskStates
               /\ Recorded(info[a], Outcome(gate, a, FALSE)) \in InfoType
    BY <2>1, OutcomeType, RecordedType DEF TaskStates
  <2>3. CASE UNCHANGED admission /\ "reject" \in Gates
             /\ task' = [task EXCEPT ![a] = "rejected"]
             /\ info' = [info EXCEPT ![a] = Recorded(@, Outcome("reject", a, FALSE))]
    <3>1. Recorded(info[a], Outcome("reject", a, FALSE)) \in InfoType
      BY <2>2 DEF GateKinds
    <3> QED
      BY <1>1, <2>3, <3>1 DEF Spawn, admission, TaskStates
  <2>4. CASE UNCHANGED <<runningCount, tooSoon, info>> /\ queue' = Append(queue, a)
             /\ task' = [task EXCEPT ![a] = "queued"]
             /\ drainTimer' = (drainTimer \/ SlotFree(runningCount))
    BY <1>1, <2>4 DEF Spawn, TaskStates, SlotFree
  <2>5. CASE /\ \E gate \in Gates \ {"reject"} :
                  LET o == Outcome(gate, a, FALSE)
                  IN /\ task' = [task EXCEPT ![a] = o.pc]
                     /\ info' = [info EXCEPT ![a] = Recorded(@, o)]
                     /\ runningCount' = runningCount + SlotsTaken(o)
                     /\ drainTimer' = (drainTimer \/ (SlotsTaken(o) = 0 /\ queue # <<>>))
             /\ tooSoon' = TRUE
             /\ UNCHANGED queue
    <3>1. PICK gate \in Gates \ {"reject"} :
            /\ task' = [task EXCEPT ![a] = Outcome(gate, a, FALSE).pc]
            /\ info' = [info EXCEPT ![a] = Recorded(@, Outcome(gate, a, FALSE))]
            /\ drainTimer' = (drainTimer \/ (SlotsTaken(Outcome(gate, a, FALSE)) = 0 /\ queue # <<>>))
      BY <2>5
    <3>2. /\ Outcome(gate, a, FALSE).pc \in TaskStates
          /\ Recorded(info[a], Outcome(gate, a, FALSE)) \in InfoType
      BY <2>2, GatesAssumption
    <3>3. task' \in [Agents -> TaskStates] /\ info' \in [Agents -> InfoType] /\ drainTimer' \in BOOLEAN
      BY <3>1, <3>2
    <3> QED
      BY <1>1, <2>5, <3>3 DEF Spawn
  <2> QED
    BY <1>1, <2>3, <2>4, <2>5 DEF Spawn
<1>2. ASSUME NEW a \in Agents, SpawnApproved(a)
      PROVE  TypeOK'
  <2>1. [info[a] EXCEPT !.logged = TRUE] \in InfoType
    BY LoggedTypes
  <2> QED
    BY <1>2, <2>1 DEF SpawnApproved, admission, TaskStates
<1>3. ASSUME NEW a \in Agents, SpawnDeclined(a)
      PROVE  TypeOK'
  <2> DEFINE T == [task EXCEPT ![a] = IF MayClaim(Failed(info[a]), FALSE) THEN "announce" ELSE "ended"]
             I == [info EXCEPT ![a] = Claimed(Failed(info[a]), FALSE)]
  <2>1. Claimed(Failed(info[a]), FALSE) \in InfoType
    BY RecordTypes
  <2>2. T \in [Agents -> TaskStates] /\ I \in [Agents -> InfoType]
    BY <2>1 DEF TaskStates
  <2>3. ReleaseSlot(a, T, I)
    BY <1>3 DEF SpawnDeclined
  <2> HIDE DEF T, I
  <2> QED
    BY <1>3, <2>2, <2>3, ReleaseTyped DEF SpawnDeclined
<1>4. ASSUME NEW a \in Agents, RunUsesTool(a)
      PROVE  TypeOK'
  <2>1. [info[a] EXCEPT !.tools = TRUE] \in InfoType
    BY ToolsTypes
  <2> QED
    BY <1>4, <2>1 DEF RunUsesTool, admission
<1>5. ASSUME NEW a \in Agents, RunCompletes(a)
      PROVE  TypeOK'
  <2>1. [info[a] EXCEPT !.done = TRUE] \in InfoType
    BY DoneTypes
  <2> QED
    BY <1>5, <2>1, RunFinallyTyped DEF RunCompletes
<1>6. ASSUME NEW a \in Agents, RunFails(a)
      PROVE  TypeOK'
  <2>1. Failed(info[a]) \in InfoType
    BY RecordTypes
  <2> QED
    BY <1>6, <2>1, RunFinallyTyped DEF RunFails
<1>7. ASSUME NEW a \in Agents, StrayCancel(a)
      PROVE  TypeOK'
  BY <1>7 DEF StrayCancel, admission
<1>8. ASSUME NEW a \in Agents, CancelQueued(a)
      PROVE  TypeOK'
  <2>1. \A k \in 1..Len(queue) : WithoutAt(queue, k) \in Seq(Agents)
    BY WithoutAtType
  <2>2. QueuedStop(info[a]) \in InfoType
    BY RecordTypes
  <2> QED
    BY <1>8, <2>1, <2>2 DEF CancelQueued, TaskStates, Reporting
<1>9. ASSUME NEW a \in Agents, StopBegins(a)
      PROVE  TypeOK'
  <2>1. [info[a] EXCEPT !.userStopped = TRUE] \in InfoType
    BY UserStoppedTypes
  <2>2. [[info[a] EXCEPT !.userStopped = TRUE] EXCEPT !.reapStarted = TRUE] \in InfoType
    BY <2>1, ReapStartedTypes
  <2>3. [[info EXCEPT ![a].userStopped = TRUE] EXCEPT ![a].reapStarted = TRUE] \in [Agents -> InfoType]
    BY <2>2
  <2> QED
    BY <1>9, <2>3 DEF StopBegins, ReapBegins, admission
<1>10. ASSUME NEW a \in Agents, Cancel(a)
      PROVE  TypeOK'
  BY <1>10, <1>9 DEF Cancel
<1>11. ASSUME NEW a \in Agents, GatheredCancel(a)
      PROVE  TypeOK'
  BY <1>11, <1>9 DEF GatheredCancel
<1>12. ASSUME NEW a \in Agents, ReaperVisits(a)
      PROVE  TypeOK'
  <2>1. [info[a] EXCEPT !.reapStarted = TRUE] \in InfoType
    BY ReapStartedTypes
  <2>2. info' \in [Agents -> InfoType] /\ recCancel' \subseteq Agents
    <3>1. CASE UNCHANGED <<info, recCancel>>
      BY <3>1
    <3>2. CASE ReapBegins(a, info)
      BY <2>1, <3>2 DEF ReapBegins
    <3> QED
      BY <1>12, <3>1, <3>2 DEF ReaperVisits
  <2>3. reaper' \in [pc : {"idle", "check", "reset", "report", "dead"}, at : SUBSET Agents]
    BY <1>12 DEF ReaperVisits
  <2>4. UNCHANGED <<admission, task, cancelReq, tomb, rec, rep, stop, shutdown,
                    awaited, draining>>
    BY <1>12 DEF ReaperVisits
  <2> QED
    BY <2>2, <2>3, <2>4 DEF admission
<1>13. ASSUME NEW a \in Agents, AnnounceReturns(a)
      PROVE  TypeOK'
  BY <1>13 DEF AnnounceReturns, admission, TaskStates
<1>14. ASSUME NEW a \in Agents, CancelledBeforeRun(a)
      PROVE  TypeOK'
  BY <1>14 DEF CancelledBeforeRun, admission, TaskStates
<1>15. ASSUME NEW a \in Agents, RunStarts(a)
      PROVE  TypeOK'
  BY <1>15 DEF RunStarts, admission, TaskStates
<1>16. ASSUME NEW a \in Agents, RunCancelled(a)
      PROVE  TypeOK'
  <2>1. /\ Failed(info[a]) \in InfoType
        /\ [info[a] EXCEPT !.retryUsed = TRUE, !.recovering = TRUE] \in InfoType
    BY RecordTypes, RetryTypes
  <2>2. \E i \in InfoType : RunFinally(a, i)
    BY <1>16, <2>1 DEF RunCancelled
  <2> QED
    BY <1>16, <2>2, RunFinallyTyped DEF RunCancelled, RecLive
<1>17. ASSUME NEW a \in Agents, TeardownEnds(a)
      PROVE  TypeOK'
  <2>1. (a \notin cancelReq /\ info[a].byRun) \in BOOLEAN
    BY DEF InfoType
  <2> QED
    BY <1>17, <2>1, RunExitTyped DEF TeardownEnds
<1>18. ASSUME NEW a \in Agents, ReportInjected(a)
      PROVE  TypeOK'
  <2>1. [info[a] EXCEPT !.reported = TRUE] \in InfoType
    BY ReportedTypes
  <2> QED
    BY <1>18, <2>1 DEF ReportInjected, admission, Reporting
<1>19. ASSUME NEW a \in Agents, RunReturns(a)
      PROVE  TypeOK'
  BY <1>19 DEF RunReturns, admission, TaskStates
<1>20. ASSUME NEW a \in Agents, ReportPassesGate(a)
      PROVE  TypeOK'
  BY <1>20 DEF ReportPassesGate, admission, Reporting
<1>21. ASSUME NEW a \in Agents, ReportFails(a)
      PROVE  TypeOK'
  BY <1>21 DEF ReportFails, admission
<1>22. ASSUME NEW a \in Agents, RecoveryStarts(a)
      PROVE  TypeOK'
  BY <1>22 DEF RecoveryStarts, admission, RecLive
<1>23. ASSUME NEW a \in Agents, RecoveryResumes(a)
      PROVE  TypeOK'
  <2>1. /\ [info[a] EXCEPT !.recovering = FALSE] \in InfoType
        /\ [info[a] EXCEPT !.recovering = FALSE, !.slotReleased = FALSE] \in InfoType
    BY RecoveringTypes, ResumedTypes
  <2>2. [info EXCEPT ![a].recovering = FALSE, ![a].slotReleased = FALSE]
          = [info EXCEPT ![a] = [info[a] EXCEPT !.recovering = FALSE, !.slotReleased = FALSE]]
    OBVIOUS
  <2>3. \/ info' = info
        \/ info' = [info EXCEPT ![a].recovering = FALSE]
        \/ info' = [info EXCEPT ![a].recovering = FALSE, ![a].slotReleased = FALSE]
    BY <1>23 DEF RecoveryResumes
  <2>4. info' \in [Agents -> InfoType]
    <3>1. CASE info' = info
      BY <3>1
    <3>2. CASE info' = [info EXCEPT ![a].recovering = FALSE]
      BY <2>1, <3>2
    <3>3. CASE info' = [info EXCEPT ![a].recovering = FALSE, ![a].slotReleased = FALSE]
      BY <2>1, <2>2, <3>3
    <3> QED
      BY <2>3, <3>1, <3>2, <3>3
  <2>5. /\ runningCount' = runningCount \/ runningCount' = runningCount + 1
        /\ task' = task \/ task' = [task EXCEPT ![a] = "created"]
        /\ \E r \in {"none", "waitSlot", "event"} : rec' = [rec EXCEPT ![a] = r]
        /\ UNCHANGED <<queue, tooSoon, drainTimer, cancelReq, tomb, recCancel, rep, stop, reaper,
                       shutdown, awaited, draining>>
    BY <1>23 DEF RecoveryResumes
  <2>6. runningCount' \in Nat /\ task' \in [Agents -> TaskStates] /\ rec' \in [Agents -> {"none"} \union RecLive]
    BY <2>5 DEF TaskStates, RecLive
  <2> QED
    BY <2>4, <2>5, <2>6
<1>24. ASSUME NEW a \in Agents, RecoveryFails(a)
      PROVE  TypeOK'
  <2> DEFINE i == [info[a] EXCEPT !.recovering = FALSE]
             j == IF ~i.done /\ ~i.reapStarted /\ ~i.reaped THEN Failed(i) ELSE i
  <2>1. i \in InfoType
    BY RecoveringTypes
  <2>2. j \in InfoType
    BY <2>1, RecordTypes
  <2>3. Claimed(j, FALSE) \in InfoType
    BY <2>2, RecordTypes
  <2>4. info' = [info EXCEPT ![a] = Claimed(j, FALSE)]
    BY <1>24 DEF RecoveryFails
  <2>5. /\ tomb' \in [Agents -> {"none", "cause", "delivered"}]
        /\ rep' \in [Agents -> {"none", "delivered", "failed", "cancelled"} \union Reporting]
        /\ rec' \in [Agents -> {"none"} \union RecLive]
    BY <1>24 DEF RecoveryFails, Reporting, RecLive
  <2>6. UNCHANGED <<admission, task, cancelReq, recCancel, stop, reaper, shutdown,
                    awaited, draining>>
    BY <1>24 DEF RecoveryFails
  <2> HIDE DEF j, i
  <2> QED
    BY <2>3, <2>4, <2>5, <2>6 DEF admission
<1>25. ASSUME NEW a \in Agents, RecoveryReturns(a)
      PROVE  TypeOK'
  BY <1>25 DEF RecoveryReturns, admission, RecLive
<1>26. ASSUME NEW a \in Agents, RecoveryCancelled(a)
      PROVE  TypeOK'
  <2> DEFINE i == [info[a] EXCEPT !.recovering = FALSE]
  <2>1. i \in InfoType
    BY RecoveringTypes
  <2>2. Failed(i) \in InfoType
    BY <2>1, RecordTypes
  <2>3. info' = info \/ info' = [info EXCEPT ![a] = Failed(i)] \/ info' = [info EXCEPT ![a] = i]
    BY <1>26 DEF RecoveryCancelled
  <2>4. /\ tomb' \in [Agents -> {"none", "cause", "delivered"}]
        /\ rec' \in [Agents -> {"none"} \union RecLive]
        /\ recCancel' \subseteq Agents
    BY <1>26 DEF RecoveryCancelled, RecLive
  <2> HIDE DEF i
  <2>5. info' \in [Agents -> InfoType]
    BY <2>1, <2>2, <2>3
  <2> QED
    BY <1>26, <2>4, <2>5 DEF RecoveryCancelled, admission
<1>27. ASSUME NEW a \in Agents, CancelTooLate(a)
      PROVE  TypeOK'
  BY <1>27 DEF CancelTooLate, admission
<1>28. ASSUME NEW a \in Agents, StopReaps(a)
      PROVE  TypeOK'
  BY <1>28, ReapEndsTyped DEF StopReaps
<1>29. ASSUME NEW a \in Agents, StopReturns(a)
      PROVE  TypeOK'
  BY <1>29 DEF StopReturns, admission
<1>30. ASSUME NEW a \in Agents, ReaperPasses(a)
      PROVE  TypeOK'
  BY <1>30 DEF ReaperPasses, admission
<1>31. ASSUME NEW a \in Agents, ReaperExpires(a)
      PROVE  TypeOK'
  <2>1. [info[a] EXCEPT !.reapStarted = TRUE] \in InfoType
    BY ReapStartedTypes
  <2> QED
    BY <1>31, <2>1 DEF ReaperExpires, ReapBegins, admission
<1>32. ASSUME NEW a \in Agents, ReaperReaps(a)
      PROVE  TypeOK'
  BY <1>32, ReapEndsTyped DEF ReaperReaps
<1>33. ASSUME NEW a \in Agents, ReaperReturns(a)
      PROVE  TypeOK'
  BY <1>33 DEF ReaperReturns, admission
<1>34. ASSUME CancelForParent
      PROVE  TypeOK'
  <2>1. \A a \in Agents : QueuedStop(info[a]) \in InfoType
    BY RecordTypes
  <2>2. info' \in [Agents -> InfoType]
    BY <1>34, <2>1 DEF CancelForParent
  <2>3. <<>> \in Seq(Agents)
    OBVIOUS
  <2> QED
    BY <1>34, <2>2, <2>3 DEF CancelForParent, TaskStates, Reporting
<1>35. ASSUME StaggerElapses
      PROVE  TypeOK'
  BY <1>35 DEF StaggerElapses
<1>36. ASSUME DrainTimerFires
      PROVE  TypeOK'
  <2>1. UNCHANGED <<cancelReq, tomb, rec, recCancel, rep, stop, reaper, shutdown,
                    awaited, draining>>
    BY <1>36 DEF DrainTimerFires
  <2> QED
    BY <1>36, <2>1, DrainTimerTyped
<1>37. ASSUME ShutdownBegins
      PROVE  TypeOK'
  BY <1>37 DEF ShutdownBegins, admission
<1>38. ASSUME ShutdownCancels
      PROVE  TypeOK'
  BY <1>38 DEF ShutdownCancels, admission
<1>39. ASSUME ShutdownGathers
      PROVE  TypeOK'
  BY <1>39 DEF ShutdownGathers, admission
<1>40. ASSUME ShutdownDrains
      PROVE  TypeOK'
  BY <1>40 DEF ShutdownDrains, admission
<1>41. CASE UNCHANGED vars
  BY <1>41 DEF vars, admission
<1> QED
  BY <1>1, <1>2, <1>3, <1>4, <1>5, <1>6, <1>7, <1>8, <1>9, <1>10, <1>11, <1>12, <1>13, <1>14, <1>15, <1>16, <1>17, <1>18, <1>19, <1>20, <1>21, <1>22, <1>23, <1>24, <1>25, <1>26, <1>27, <1>28, <1>29, <1>30, <1>31, <1>32, <1>33, <1>34, <1>35, <1>36, <1>37, <1>38, <1>39, <1>40, <1>41 DEF Next, Loop

(***************************************************************************)
(* Slots.  SlotAccounting is not inductive: that a step takes a slot the   *)
(* agent did not have, or gives back one it did, follows from where the    *)
(* agent, its recovery, its stop and the reaper stand.                     *)
(***************************************************************************)
HoldersIn(T, I) == {a \in Agents : T[a] \in Started /\ ~I[a].slotReleased}

(* n is exact, the queue holds waiting submissions once each, and what was  *)
(* not started has released nothing.                                        *)
Slots(q, n, T, I) ==
  /\ n = Cardinality(HoldersIn(T, I))
  /\ n <= MaxConcurrent
  /\ \A k \in 1..Len(q) : T[q[k]] = "queued"
  /\ \A j, k \in 1..Len(q) : q[j] = q[k] => j = k
  /\ \A a \in Agents : T[a] \in {"unspawned", "queued"} => ~I[a].slotReleased

(* Only what was started is reaped, a recovery waits for a run that is in   *)
(* its teardown or has released its slot, and the report of a run comes     *)
(* from its finally.                                                        *)
Life(T, I, r, s, p) ==
  \A a \in Agents :
    /\ s[a] \in {"requested", "reset"} => T[a] \in Started
    /\ p.pc \in {"check", "reset"} /\ a \in p.at => T[a] \in Started
    /\ r[a] \in {"created", "waitOrig", "waitSlot"} =>
         /\ ~I[a].byRun
         /\ \/ T[a] = "teardown" /\ r[a] # "waitSlot"
            \/ T[a] = "ended" /\ I[a].slotReleased
    /\ T[a] \in {"unspawned", "queued", "approval", "created", "running"} => ~I[a].byRun

SlotInv ==
  /\ Slots(queue, runningCount, task, info)
  /\ Life(task, info, rec, stop, reaper)

(* There are finitely many holders of a slot, so they can be counted. *)
LEMMA HoldersFinite ==
  ASSUME NEW T, NEW I
  PROVE  IsFiniteSet(HoldersIn(T, I)) /\ Cardinality(HoldersIn(T, I)) \in Nat
<1>1. HoldersIn(T, I) \subseteq Agents
  BY DEF HoldersIn
<1> QED
  BY <1>1, AgentsAssumption, FS_Subset, FS_CardinalityType

(* A step that moves no agent into or out of Started. *)
LEMMA SlotsSame ==
  ASSUME NEW q \in Seq(Agents), NEW n,
         NEW T \in [Agents -> TaskStates], NEW I \in [Agents -> InfoType],
         NEW U \in [Agents -> TaskStates], NEW J \in [Agents -> InfoType],
         Slots(q, n, T, I),
         \A a \in Agents :
           /\ U[a] \in Started <=> T[a] \in Started
           /\ J[a].slotReleased = I[a].slotReleased
           /\ T[a] = "queued" => U[a] = "queued" \/ \A k \in 1..Len(q) : q[k] # a
           /\ U[a] \in {"unspawned", "queued"} => T[a] \in {"unspawned", "queued"}
  PROVE  Slots(q, n, U, J)
<1>1. HoldersIn(U, J) = HoldersIn(T, I)
  BY DEF HoldersIn
<1>2. \A k \in 1..Len(q) : q[k] \in Agents
  OBVIOUS
<1>3. \A k \in 1..Len(q) : U[q[k]] = "queued"
  BY <1>2 DEF Slots
<1>4. \A a \in Agents : U[a] \in {"unspawned", "queued"} => ~J[a].slotReleased
  BY DEF Slots
<1> QED
  BY <1>1, <1>3, <1>4 DEF Slots

(* An agent that waits in no queue takes a slot. *)
LEMMA SlotTaken ==
  ASSUME NEW q \in Seq(Agents), NEW n,
         NEW T \in [Agents -> TaskStates], NEW I \in [Agents -> InfoType],
         NEW U \in [Agents -> TaskStates], NEW J \in [Agents -> InfoType],
         NEW a \in Agents,
         Slots(q, n, T, I), SlotFree(n), a \notin HoldersIn(T, I),
         \A k \in 1..Len(q) : q[k] # a,
         U[a] \in {"created", "approval"}, ~J[a].slotReleased,
         \A b \in Agents \ {a} : U[b] = T[b] /\ J[b].slotReleased = I[b].slotReleased
  PROVE  Slots(q, n + 1, U, J)
<1>1. HoldersIn(U, J) = HoldersIn(T, I) \union {a}
  BY DEF HoldersIn, Started, Live
<1>2. Cardinality(HoldersIn(U, J)) = Cardinality(HoldersIn(T, I)) + 1
  <2> DEFINE H == HoldersIn(T, I)
  <2>1. IsFiniteSet(H) /\ a \notin H
    BY HoldersFinite
  <2> HIDE DEF H
  <2>2. Cardinality(H \union {a}) = Cardinality(H) + 1
    BY <2>1, FS_AddElement
  <2> QED BY <1>1, <2>2 DEF H
<1>3. n + 1 = Cardinality(HoldersIn(U, J)) /\ n + 1 <= MaxConcurrent
  BY <1>2, HoldersFinite, MaxConcurrentAssumption DEF Slots, SlotFree
<1>4. ASSUME NEW k \in 1..Len(q) PROVE U[q[k]] = "queued"
  <2>1. q[k] \in Agents
    OBVIOUS
  <2>2. q[k] \in Agents \ {a} /\ T[q[k]] = "queued"
    BY <2>1 DEF Slots
  <2> QED BY <2>2
<1>5. \A k \in 1..Len(q) : U[q[k]] = "queued"
  BY <1>4
<1>6. \A b \in Agents : U[b] \in {"unspawned", "queued"} => ~J[b].slotReleased
  BY DEF Slots
<1> QED
  BY <1>3, <1>5, <1>6 DEF Slots

(* An agent that holds a slot gives it back. *)
LEMMA SlotGiven ==
  ASSUME NEW q \in Seq(Agents), NEW n,
         NEW T \in [Agents -> TaskStates], NEW I \in [Agents -> InfoType],
         NEW a \in Agents, T[a] \in Started, ~I[a].slotReleased,
         Slots(q, n, T, I)
  PROVE  Slots(q, n - 1, T, [I EXCEPT ![a].slotReleased = TRUE])
<1> DEFINE J == [I EXCEPT ![a].slotReleased = TRUE]
<1>1. J[a].slotReleased /\ \A b \in Agents \ {a} : J[b] = I[b]
  BY DEF InfoType
<1> HIDE DEF J
<1>2. HoldersIn(T, J) = HoldersIn(T, I) \ {a} /\ a \in HoldersIn(T, I)
  BY <1>1 DEF HoldersIn
<1>3. Cardinality(HoldersIn(T, J)) = Cardinality(HoldersIn(T, I)) - 1
  <2> DEFINE H == HoldersIn(T, I)
  <2>1. IsFiniteSet(H) /\ a \in H
    BY <1>2, HoldersFinite
  <2> HIDE DEF H
  <2>2. Cardinality(H \ {a}) = Cardinality(H) - 1
    BY <2>1, FS_RemoveElement
  <2> QED BY <1>2, <2>2 DEF H
<1>4. n - 1 = Cardinality(HoldersIn(T, J)) /\ n - 1 <= MaxConcurrent
  BY <1>3, HoldersFinite, MaxConcurrentAssumption DEF Slots
<1>5. \A b \in Agents : T[b] \in {"unspawned", "queued"} => ~J[b].slotReleased
  BY <1>1 DEF Slots, Started, Live
<1>6. Slots(q, n - 1, T, J)
  BY <1>4, <1>5 DEF Slots
<1> QED
  BY <1>6 DEF J

(* The submission at the head of the queue leaves it. *)
LEMMA TailSlots ==
  ASSUME NEW q \in Seq(Agents), q # <<>>, NEW n, NEW T, NEW I, Slots(q, n, T, I)
  PROVE  /\ Tail(q) \in Seq(Agents)
         /\ Head(q) \in Agents
         /\ T[Head(q)] = "queued"
         /\ Slots(Tail(q), n, T, I)
         /\ \A k \in 1..Len(Tail(q)) : Tail(q)[k] # Head(q)
<1>1. /\ Tail(q) \in Seq(Agents)
      /\ Len(Tail(q)) = Len(q) - 1
      /\ Len(q) \in Nat
      /\ Len(q) >= 1
      /\ \A k \in 1..Len(Tail(q)) : Tail(q)[k] = q[k + 1] /\ k + 1 \in 1..Len(q)
      /\ Head(q) = q[1]
      /\ 1 \in 1..Len(q)
  OBVIOUS
<1>2. T[Head(q)] = "queued" /\ Head(q) \in Agents
  BY <1>1 DEF Slots
<1>3. \A k \in 1..Len(Tail(q)) : T[Tail(q)[k]] = "queued"
  BY <1>1 DEF Slots
<1>4. \A j, k \in 1..Len(Tail(q)) : Tail(q)[j] = Tail(q)[k] => j = k
  <2>1. SUFFICES ASSUME NEW j \in 1..Len(Tail(q)), NEW k \in 1..Len(Tail(q)),
                        Tail(q)[j] = Tail(q)[k]
                 PROVE  j = k
    OBVIOUS
  <2>2. q[j + 1] = q[k + 1] /\ j + 1 \in 1..Len(q) /\ k + 1 \in 1..Len(q)
    BY <1>1, <2>1
  <2>3. j + 1 = k + 1
    BY <2>2 DEF Slots
  <2> QED
    BY <2>3
<1>5. ASSUME NEW k \in 1..Len(Tail(q))
      PROVE  Tail(q)[k] # Head(q)
  <2>1. q[k + 1] = q[1] => k + 1 = 1
    BY <1>1 DEF Slots
  <2> QED
    BY <1>1, <2>1
<1>6. Slots(Tail(q), n, T, I)
  BY <1>3, <1>4 DEF Slots
<1> QED
  BY <1>1, <1>2, <1>5, <1>6
(* What _drain_queue may do to the agents with tasks T and records I. *)
Drained(T, I) ==
  \A b \in Agents :
    /\ task'[b] = T[b] \/ (T[b] = "queued" /\ task'[b] \in {"created", "approval", "rejected"})
    /\ info'[b].slotReleased = I[b].slotReleased
    /\ info'[b].byRun = I[b].byRun

(* A drain gives what it dequeues a slot of its own, or none to a refusal. *)
LEMMA DrainSlots ==
  ASSUME TypeOK, NEW count,
         NEW T \in [Agents -> TaskStates], NEW I \in [Agents -> InfoType],
         NEW timer \in BOOLEAN, DrainQueue(count, T, I, timer),
         Slots(queue, count, T, I)
  PROVE  Slots(queue', runningCount', task', info') /\ Drained(T, I)
<1>1. CASE UNCHANGED queue /\ runningCount' = count /\ task' = T /\ info' = I
  BY <1>1 DEF Drained
<1>2. CASE ~(UNCHANGED queue /\ runningCount' = count /\ task' = T /\ info' = I)
  <2>1. queue \in Seq(Agents)
    BY DEF TypeOK
  <2>2. queue # <<>> /\ SlotFree(count) /\ queue' = Tail(queue)
    BY <1>2 DEF DrainQueue
  <2>3. PICK gate \in Gates :
          LET o == Outcome(gate, Head(queue), TRUE)
          IN /\ runningCount' = count + SlotsTaken(o)
             /\ task' = [T EXCEPT ![Head(queue)] = o.pc]
             /\ info' = [I EXCEPT ![Head(queue)] = Recorded(@, o)]
    BY <1>2 DEF DrainQueue
  <2> DEFINE h == Head(queue)
             o == Outcome(gate, h, TRUE)
  <2>4. /\ Tail(queue) \in Seq(Agents)
        /\ h \in Agents
        /\ T[h] = "queued"
        /\ Slots(Tail(queue), count, T, I)
        /\ \A k \in 1..Len(Tail(queue)) : Tail(queue)[k] # h
    BY <2>1, <2>2, TailSlots
  <2>5. /\ o \in [pc : {"created", "approval", "rejected"}, stamps : BOOLEAN, calls : Nat]
        /\ SlotsTaken(o) \in {0, 1}
    BY <2>4, OutcomeType, GatesAssumption
  <2>6. I[h] \in InfoType
    BY <2>4
  <2>7. /\ Recorded(I[h], o) \in InfoType
        /\ Recorded(I[h], o).slotReleased = I[h].slotReleased
        /\ Recorded(I[h], o).byRun = I[h].byRun
    BY <2>5, <2>6, RecordedType
  <2>8. /\ runningCount' = count + SlotsTaken(o)
        /\ task' = [T EXCEPT ![h] = o.pc]
        /\ info' = [I EXCEPT ![h] = Recorded(I[h], o)]
    BY <2>3
  <2> HIDE DEF o, h
  <2>9. /\ task' \in [Agents -> TaskStates]
        /\ info' \in [Agents -> InfoType]
        /\ task'[h] = o.pc
        /\ info'[h].slotReleased = I[h].slotReleased
        /\ info'[h].byRun = I[h].byRun
        /\ \A b \in Agents \ {h} : task'[b] = T[b] /\ info'[b] = I[b]
    BY <2>4, <2>5, <2>7, <2>8 DEF TaskStates
  <2>10. Drained(T, I)
    BY <2>4, <2>5, <2>9 DEF Drained
  <2>11. ~I[h].slotReleased
    BY <2>4 DEF Slots
  <2>12. CASE o.pc = "rejected"
    <3>1. SlotsTaken(o) = 0
      BY <2>12 DEF SlotsTaken
    <3>2. runningCount' = count
      <4>1. count \in Int
        BY <2>4, HoldersFinite DEF Slots
      <4> QED
        BY <3>1, <4>1, <2>8
    <3>3. \A b \in Agents :
            /\ task'[b] \in Started <=> T[b] \in Started
            /\ info'[b].slotReleased = I[b].slotReleased
            /\ T[b] = "queued" => task'[b] = "queued" \/ \A k \in 1..Len(Tail(queue)) : Tail(queue)[k] # b
            /\ task'[b] \in {"unspawned", "queued"} => T[b] \in {"unspawned", "queued"}
      BY <2>4, <2>9, <2>12 DEF Started, Live
    <3>4. Tail(queue) \in Seq(Agents) /\ Slots(Tail(queue), count, T, I)
      BY <2>4
    <3>5. task' \in [Agents -> TaskStates] /\ info' \in [Agents -> InfoType]
      BY <2>9
    <3>6. Slots(Tail(queue), count, task', info')
      BY <3>3, <3>4, <3>5, SlotsSame
    <3> QED
      BY <2>2, <2>10, <3>2, <3>6
  <2>13. CASE o.pc # "rejected"
    <3>1. SlotsTaken(o) = 1 /\ o.pc \in {"created", "approval"}
      BY <2>5, <2>13 DEF SlotsTaken
    <3>2. h \notin HoldersIn(T, I)
      BY <2>4 DEF HoldersIn, Started, Live
    <3>3. Slots(Tail(queue), count + 1, task', info')
      BY <2>2, <2>4, <2>9, <2>11, <3>1, <3>2, SlotTaken
    <3> QED
      BY <2>2, <2>8, <2>10, <3>1, <3>3
  <2> QED
    BY <2>12, <2>13
<1> QED
  BY <1>1, <1>2

(* The token makes a release give back the slot of a once, and never        *)
(* another's.                                                               *)
LEMMA ReleaseSlots ==
  ASSUME TypeOK, NEW a \in Agents,
         NEW T \in [Agents -> TaskStates], NEW I \in [Agents -> InfoType],
         T[a] \in Started, Slots(queue, runningCount, T, I), ReleaseSlot(a, T, I)
  PROVE  /\ Slots(queue', runningCount', task', info')
         /\ Drained(T, [I EXCEPT ![a].slotReleased = TRUE])
<1> DEFINE J == [I EXCEPT ![a].slotReleased = TRUE]
<1>1. J \in [Agents -> InfoType]
  BY TokenTypes
<1>2. CASE I[a].slotReleased
  <2>1. J = I
    BY <1>2 DEF InfoType
  <2> QED
    BY <1>2, <2>1 DEF ReleaseSlot, admission, Drained
<1>3. CASE ~I[a].slotReleased
  <2>1. DrainQueue(runningCount - 1, T, J, drainTimer)
    BY <1>3 DEF ReleaseSlot
  <2>2. queue \in Seq(Agents) /\ drainTimer \in BOOLEAN
    BY DEF TypeOK
  <2>3. Slots(queue, runningCount - 1, T, J)
    BY <1>3, <2>2, SlotGiven
  <2> HIDE DEF J
  <2>4. Slots(queue', runningCount', task', info') /\ Drained(T, J)
    BY <1>1, <2>1, <2>2, <2>3, DrainSlots
  <2> QED
    BY <2>4 DEF J
<1> QED
  BY <1>2, <1>3

(* Life is about tasks, and a drain changes those of queued agents only. *)
LEMMA LifeDrained ==
  ASSUME NEW T, NEW I, NEW r, NEW s, NEW p, Life(T, I, r, s, p), Drained(T, I)
  PROVE  Life(task', info', r, s, p)
  BY DEF Life, Drained, Started, Live

(* So does a release, which only drains. *)
LEMMA LifeReleased ==
  ASSUME NEW T, NEW I, NEW J, NEW r, NEW s, NEW p, Life(T, I, r, s, p),
         \A b \in Agents : /\ J[b].byRun = I[b].byRun
                           /\ I[b].slotReleased => J[b].slotReleased
  PROVE  Life(T, J, r, s, p)
  BY DEF Life

(* A step that leaves the queue and the counter alone. *)
LEMMA QuietSlots ==
  ASSUME TypeOK, TypeOK', SlotInv, UNCHANGED <<queue, runningCount>>,
         \A b \in Agents :
           /\ task'[b] \in Started <=> task[b] \in Started
           /\ info'[b].slotReleased = info[b].slotReleased
           /\ task'[b] = "queued" <=> task[b] = "queued"
           /\ task'[b] = "unspawned" => task[b] = "unspawned"
  PROVE  Slots(queue', runningCount', task', info')
<1>1. /\ queue \in Seq(Agents)
      /\ task \in [Agents -> TaskStates] /\ task' \in [Agents -> TaskStates]
      /\ info \in [Agents -> InfoType] /\ info' \in [Agents -> InfoType]
  BY DEF TypeOK
<1>2. Slots(queue, runningCount, task, info)
  BY DEF SlotInv
<1>3. Slots(queue, runningCount, task', info')
  BY <1>1, <1>2, SlotsSame
<1> QED
  BY <1>3

(* The end of a run, whose claimed report only a run without a waiting      *)
(* recovery may have.                                                       *)
LEMMA RunExitSlots ==
  ASSUME TypeOK, NEW a \in Agents, NEW I \in [Agents -> InfoType], NEW w \in BOOLEAN,
         NEW r, NEW S, S = [task EXCEPT ![a] = "teardown"],
         task[a] \in {"running", "teardown"},
         Slots(queue, runningCount, S, I),
         Life(S, I, r, stop, reaper),
         w => I[a].byRun,
         RunExit(a, I, w)
  PROVE  /\ Slots(queue', runningCount', task', info')
         /\ Life(task', info', r, stop, reaper)
<1> DEFINE T == [task EXCEPT ![a] = IF w /\ ~ShuttingDown THEN "awaitReport" ELSE "ended"]
           J == [I EXCEPT ![a].slotReleased = TRUE]
<1>1. T \in [Agents -> TaskStates] /\ S \in [Agents -> TaskStates]
  BY DEF TypeOK, TaskStates
<1>2. ReleaseSlot(a, T, I)
  BY DEF RunExit
<1>3. T[a] \in {"awaitReport", "ended"} /\ \A b \in Agents \ {a} : T[b] = S[b]
  BY DEF TypeOK
<1>4. S[a] = "teardown"
  BY DEF TypeOK
<1>5. queue \in Seq(Agents)
  BY DEF TypeOK
<1>6. Slots(queue, runningCount, T, I)
  <2>1. \A b \in Agents :
          /\ T[b] \in Started <=> S[b] \in Started
          /\ I[b].slotReleased = I[b].slotReleased
          /\ S[b] = "queued" => T[b] = "queued" \/ \A k \in 1..Len(queue) : queue[k] # b
          /\ T[b] \in {"unspawned", "queued"} => S[b] \in {"unspawned", "queued"}
    BY <1>3, <1>4 DEF Started, Live
  <2> HIDE DEF T
  <2> QED
    BY <1>1, <1>5, <2>1, SlotsSame
<1>7. T[a] = "awaitReport" => w
  BY DEF TypeOK
<1>8. J[a].slotReleased /\ J[a].byRun = I[a].byRun /\ \A b \in Agents \ {a} : J[b] = I[b]
  BY DEF InfoType
<1> HIDE DEF T, J
<1>9. Life(T, J, r, stop, reaper)
  BY <1>3, <1>4, <1>7, <1>8 DEF Life, Started, Live
<1>10. Slots(queue', runningCount', task', info') /\ Drained(T, J)
  BY <1>1, <1>2, <1>3, <1>6, ReleaseSlots DEF J, Started
<1> QED
  BY <1>9, <1>10, LifeDrained

(* The finally of a run, r being what becomes of the recoveries. *)
LEMMA RunFinallySlots ==
  ASSUME TypeOK, SlotInv, NEW a \in Agents, task[a] = "running",
         NEW i \in InfoType, i.slotReleased = info[a].slotReleased, i.byRun = info[a].byRun,
         NEW r, \/ r = rec
                \/ r = [rec EXCEPT ![a] = "created"] /\ i.recovering /\ ~i.reaped,
         RunFinally(a, i)
  PROVE  /\ Slots(queue', runningCount', task', info')
         /\ Life(task', info', r, stop, reaper)
<1> DEFINE mine == MayClaim(i, FALSE)
           j == IF mine THEN [Claimed(i, FALSE) EXCEPT !.byRun = TRUE] ELSE i
           I == [info EXCEPT ![a] = j]
           S == [task EXCEPT ![a] = "teardown"]
<1>1. /\ Claimed(i, FALSE) \in InfoType
      /\ Claimed(i, FALSE).slotReleased = i.slotReleased
      /\ Claimed(i, FALSE).byRun = i.byRun
  BY RecordTypes
<1>2. j \in InfoType /\ j.slotReleased = info[a].slotReleased /\ (mine => j.byRun)
      /\ (~mine => j.byRun = info[a].byRun)
  <2>1. /\ [Claimed(i, FALSE) EXCEPT !.byRun = TRUE] \in InfoType
        /\ [Claimed(i, FALSE) EXCEPT !.byRun = TRUE].byRun
        /\ [Claimed(i, FALSE) EXCEPT !.byRun = TRUE].slotReleased = i.slotReleased
    BY <1>1 DEF InfoType
  <2>2. CASE mine
    <3>1. j = [Claimed(i, FALSE) EXCEPT !.byRun = TRUE]
      BY <2>2
    <3> QED
      BY <2>1, <2>2, <3>1
  <2>3. CASE ~mine
    <3>1. j = i
      BY <2>3
    <3> QED
      BY <2>3, <3>1
  <2> QED
    BY <2>2, <2>3
<1>3. mine \in BOOLEAN /\ (i.recovering => ~mine)
  BY DEF MayClaim
<1>4. IF i.reaped THEN RunExit(a, I, mine)
      ELSE task' = S /\ info' = I /\ UNCHANGED admission
  BY DEF RunFinally
<1> HIDE DEF mine, j
<1>5. /\ I \in [Agents -> InfoType]
      /\ I[a] = j
      /\ \A b \in Agents \ {a} : I[b] = info[b]
  BY <1>2 DEF TypeOK
<1>6. /\ S \in [Agents -> TaskStates]
      /\ S[a] = "teardown"
      /\ \A b \in Agents \ {a} : S[b] = task[b]
  BY DEF TypeOK, TaskStates
<1>7. /\ queue \in Seq(Agents)
      /\ task \in [Agents -> TaskStates] /\ info \in [Agents -> InfoType]
      /\ rec \in [Agents -> {"none"} \union RecLive]
  BY DEF TypeOK
<1> HIDE DEF I, S
<1>8. Slots(queue, runningCount, S, I)
  <2>1. \A b \in Agents :
          /\ S[b] \in Started <=> task[b] \in Started
          /\ I[b].slotReleased = info[b].slotReleased
          /\ task[b] = "queued" => S[b] = "queued" \/ \A k \in 1..Len(queue) : queue[k] # b
          /\ S[b] \in {"unspawned", "queued"} => task[b] \in {"unspawned", "queued"}
    BY <1>2, <1>5, <1>6 DEF Started, Live
  <2> QED
    BY <1>5, <1>6, <1>7, <2>1, SlotsSame DEF SlotInv
<1>9. /\ ~info[a].byRun
      /\ rec[a] \notin {"created", "waitOrig", "waitSlot"}
      /\ \A b \in Agents \ {a} : r[b] = rec[b]
      /\ r[a] \in {"created", "waitOrig", "waitSlot"} => ~mine
      /\ r[a] # "waitSlot"
  BY <1>3, <1>7 DEF SlotInv, Life
<1>10. Life(S, I, r, stop, reaper)
  <2>1. ~mine => ~I[a].byRun
    BY <1>2, <1>5, <1>9
  <2>2. Life(task, info, rec, stop, reaper)
    BY DEF SlotInv
  <2>3. S[a] = "teardown" /\ S[a] \in Started
    BY <1>6 DEF Started, Live
  <2> QED
    BY <1>5, <1>6, <1>9, <2>1, <2>2, <2>3 DEF Life
<1>11. CASE i.reaped
  <2>1. RunExit(a, I, mine)
    BY <1>4, <1>11
  <2>2. S = [task EXCEPT ![a] = "teardown"]
    BY DEF S
  <2>3. mine => I[a].byRun
    BY <1>2, <1>5
  <2> QED
    BY <1>3, <1>5, <1>8, <1>10, <2>1, <2>2, <2>3, RunExitSlots
<1>12. CASE ~i.reaped
  <2>1. task' = S /\ info' = I /\ UNCHANGED <<queue, runningCount>>
    BY <1>4, <1>12 DEF admission
  <2> QED
    BY <1>8, <1>10, <2>1
<1> QED
  BY <1>11, <1>12

(* A reap after its session reset releases the slot of a started agent. *)
LEMMA ReapEndsSlots ==
  ASSUME TypeOK, SlotInv, NEW a \in Agents, task[a] \in Started, ReapEnds(a)
  PROVE  /\ Slots(queue', runningCount', task', info')
         /\ Life(task', info', rec, stop, reaper)
         /\ task'[a] \in Started
<1> DEFINE i == Claimed(ReapedRecord(info[a]), TRUE)
           I == [info EXCEPT ![a] = i]
           J == [I EXCEPT ![a].slotReleased = TRUE]
<1>1. info[a] \in InfoType
  BY DEF TypeOK
<1>2. /\ ReapedRecord(info[a]) \in InfoType
      /\ ReapedRecord(info[a]).slotReleased = info[a].slotReleased
      /\ ReapedRecord(info[a]).byRun = info[a].byRun
  BY <1>1, ReapedRecordType
<1>3. i \in InfoType /\ i.slotReleased = info[a].slotReleased /\ i.byRun = info[a].byRun
  BY <1>2, RecordTypes
<1>4. ReleaseSlot(a, task, I)
  BY DEF ReapEnds
<1> HIDE DEF i
<1>5. /\ queue \in Seq(Agents)
      /\ task \in [Agents -> TaskStates]
      /\ info \in [Agents -> InfoType]
      /\ I \in [Agents -> InfoType]
      /\ I[a] = i
      /\ \A b \in Agents \ {a} : I[b] = info[b]
  BY <1>3 DEF TypeOK
<1>6. Slots(queue, runningCount, task, I)
  <2>1. \A b \in Agents :
          /\ task[b] \in Started <=> task[b] \in Started
          /\ I[b].slotReleased = info[b].slotReleased
          /\ task[b] = "queued" => task[b] = "queued" \/ \A k \in 1..Len(queue) : queue[k] # b
          /\ task[b] \in {"unspawned", "queued"} => task[b] \in {"unspawned", "queued"}
    BY <1>3, <1>5
  <2> HIDE DEF I
  <2> QED
    BY <1>5, <2>1, SlotsSame DEF SlotInv
<1>7. J[a].slotReleased /\ J[a].byRun = i.byRun /\ \A b \in Agents \ {a} : J[b] = info[b]
  BY <1>3, <1>5 DEF InfoType
<1> HIDE DEF I
<1>8. Slots(queue', runningCount', task', info') /\ Drained(task, J)
  BY <1>4, <1>5, <1>6, ReleaseSlots
<1> HIDE DEF J
<1>9. Life(task, J, rec, stop, reaper)
  BY <1>3, <1>7, LifeReleased DEF SlotInv
<1>10. task'[a] \in Started
  BY <1>8 DEF Drained, Started, Live
<1> QED
  BY <1>8, <1>9, <1>10, LifeDrained

(* A step that leaves the queue, the counter, the tasks and the records'    *)
(* tokens alone.                                                            *)
LEMMA QuietStep ==
  ASSUME TypeOK, SlotInv, [Next]_vars, UNCHANGED <<queue, runningCount>>,
         \A b \in Agents :
           /\ task'[b] \in Started <=> task[b] \in Started
           /\ info'[b].slotReleased = info[b].slotReleased
           /\ task'[b] = "queued" <=> task[b] = "queued"
           /\ task'[b] = "unspawned" => task[b] = "unspawned",
         Life(task', info', rec', stop', reaper')
  PROVE  SlotInv'
<1>1. TypeOK'
  <2>1. runningCount' \in Nat
    BY DEF TypeOK
  <2> QED
    BY <2>1, TypeStep
<1>2. Slots(queue', runningCount', task', info')
  BY <1>1, QuietSlots
<1> QED
  BY <1>2 DEF SlotInv

(* The slots stay exact at every step, one case per action. *)
LEMMA SlotStep ==
  ASSUME TypeOK, SlotInv, [Next]_vars
  PROVE  SlotInv'
<1>t. /\ queue \in Seq(Agents)
      /\ runningCount \in Nat
      /\ task \in [Agents -> TaskStates]
      /\ info \in [Agents -> InfoType]
      /\ rec \in [Agents -> {"none"} \union RecLive]
      /\ stop \in [Agents -> {"none", "requested", "reset", "report"}]
      /\ reaper \in [pc : {"idle", "check", "reset", "report", "dead"}, at : SUBSET Agents]
  BY DEF TypeOK
<1>s. Slots(queue, runningCount, task, info)
  BY DEF SlotInv
<1>l. Life(task, info, rec, stop, reaper)
  BY DEF SlotInv
<1>1. ASSUME NEW a \in Agents, Spawn(a)
      PROVE  SlotInv'
  <2>1. /\ task[a] = "unspawned"
        /\ ~info[a].slotReleased
        /\ ~info[a].byRun
        /\ a \notin HoldersIn(task, info)
        /\ info[a] \in InfoType
        /\ \A k \in 1..Len(queue) : queue[k] # a
        /\ UNCHANGED <<rec, stop, reaper>>
    BY <1>t, <1>s, <1>l, <1>1 DEF Spawn, Slots, Life, HoldersIn, Started, Live
  <2> DEFINE Decided(gate) ==
               /\ Outcome(gate, a, FALSE).pc \in {"created", "approval", "rejected"}
               /\ SlotsTaken(Outcome(gate, a, FALSE)) \in {0, 1}
               /\ task' \in [Agents -> TaskStates]
               /\ info' \in [Agents -> InfoType]
               /\ task'[a] = Outcome(gate, a, FALSE).pc
               /\ ~info'[a].slotReleased
               /\ ~info'[a].byRun
               /\ \A b \in Agents \ {a} : task'[b] = task[b] /\ info'[b] = info[b]
  <2>2. ASSUME NEW gate \in GateKinds,
               task' = [task EXCEPT ![a] = Outcome(gate, a, FALSE).pc],
               info' = [info EXCEPT ![a] = Recorded(info[a], Outcome(gate, a, FALSE))]
        PROVE  Decided(gate)
    <3>1. /\ Outcome(gate, a, FALSE) \in
               [pc : {"created", "approval", "rejected"}, stamps : BOOLEAN, calls : Nat]
          /\ SlotsTaken(Outcome(gate, a, FALSE)) \in {0, 1}
      BY OutcomeType
    <3>2. /\ Recorded(info[a], Outcome(gate, a, FALSE)) \in InfoType
          /\ Recorded(info[a], Outcome(gate, a, FALSE)).slotReleased = info[a].slotReleased
          /\ Recorded(info[a], Outcome(gate, a, FALSE)).byRun = info[a].byRun
      BY <2>1, <3>1, RecordedType
    <3>3. Outcome(gate, a, FALSE).pc \in {"created", "approval", "rejected"}
      BY <3>1
    <3> QED
      BY <1>t, <2>1, <2>2, <3>1, <3>2, <3>3 DEF TaskStates
  <2>3. ASSUME NEW gate \in GateKinds,
               task' = [task EXCEPT ![a] = Outcome(gate, a, FALSE).pc],
               info' = [info EXCEPT ![a] = Recorded(info[a], Outcome(gate, a, FALSE))]
        PROVE  Life(task', info', rec', stop', reaper')
    <3>1. /\ task'[a] \in {"created", "approval", "rejected"}
          /\ ~info'[a].byRun
          /\ \A b \in Agents \ {a} : task'[b] = task[b] /\ info'[b] = info[b]
      BY <2>2, <2>3
    <3>2. /\ stop[a] \notin {"requested", "reset"}
          /\ ~(reaper.pc \in {"check", "reset"} /\ a \in reaper.at)
          /\ rec[a] \notin {"created", "waitOrig", "waitSlot"}
      BY <1>l, <2>1 DEF Life, Started, Live
    <3> QED
      BY <1>l, <2>1, <3>1, <3>2 DEF Life
  <2>4. ASSUME NEW gate \in GateKinds,
               task' = [task EXCEPT ![a] = Outcome(gate, a, FALSE).pc],
               info' = [info EXCEPT ![a] = Recorded(info[a], Outcome(gate, a, FALSE))],
               SlotsTaken(Outcome(gate, a, FALSE)) = 0,
               UNCHANGED <<queue, runningCount>>
        PROVE  SlotInv'
    <3> DEFINE o == Outcome(gate, a, FALSE)
    <3>0. /\ o.pc \in {"created", "approval", "rejected"}
          /\ SlotsTaken(o) = 0
          /\ task' \in [Agents -> TaskStates]
          /\ info' \in [Agents -> InfoType]
          /\ task'[a] = o.pc
          /\ ~info'[a].slotReleased
          /\ \A b \in Agents \ {a} : task'[b] = task[b] /\ info'[b] = info[b]
      BY <2>2, <2>4
    <3> HIDE DEF o
    <3>1. task'[a] = "rejected"
      BY <3>0 DEF SlotsTaken
    <3>3. info'[a].slotReleased = info[a].slotReleased
      BY <2>1, <3>0 DEF InfoType
    <3>2. \A b \in Agents :
            /\ task'[b] \in Started <=> task[b] \in Started
            /\ info'[b].slotReleased = info[b].slotReleased
            /\ task'[b] = "queued" <=> task[b] = "queued"
            /\ task'[b] = "unspawned" => task[b] = "unspawned"
      BY <2>1, <3>0, <3>1, <3>3 DEF Started, Live
    <3> QED
      BY <2>3, <2>4, <3>2, QuietStep
  <2>5. CASE UNCHANGED admission /\ "reject" \in Gates
             /\ task' = [task EXCEPT ![a] = "rejected"]
             /\ info' = [info EXCEPT ![a] = Recorded(@, Outcome("reject", a, FALSE))]
    <3>1. /\ Outcome("reject", a, FALSE).pc = "rejected"
          /\ SlotsTaken(Outcome("reject", a, FALSE)) = 0
          /\ "reject" \in GateKinds
      BY DEF Outcome, SlotsTaken, GateKinds
    <3>2. info' = [info EXCEPT ![a] = Recorded(info[a], Outcome("reject", a, FALSE))]
      BY <2>5
    <3>3. task' = [task EXCEPT ![a] = Outcome("reject", a, FALSE).pc]
      BY <2>5, <3>1
    <3>4. UNCHANGED <<queue, runningCount>>
      BY <2>5 DEF admission
    <3> QED
      BY <2>4, <3>1, <3>2, <3>3, <3>4
  <2>6. CASE /\ queue' = Append(queue, a)
             /\ task' = [task EXCEPT ![a] = "queued"]
             /\ UNCHANGED <<runningCount, info>>
    <3>1. /\ task' \in [Agents -> TaskStates]
          /\ task'[a] = "queued"
          /\ \A b \in Agents \ {a} : task'[b] = task[b]
      BY <1>t, <2>6 DEF TaskStates
    <3>2. Slots(queue, runningCount, task', info)
      <4>1. \A b \in Agents :
              /\ task'[b] \in Started <=> task[b] \in Started
              /\ info[b].slotReleased = info[b].slotReleased
              /\ task[b] = "queued" => task'[b] = "queued" \/ \A k \in 1..Len(queue) : queue[k] # b
              /\ task'[b] \in {"unspawned", "queued"} => task[b] \in {"unspawned", "queued"}
        BY <2>1, <3>1 DEF Started, Live
      <4> QED
        BY <1>t, <1>s, <3>1, <4>1, SlotsSame
    <3>3. Slots(queue', runningCount', task', info')
      <4>1. /\ Len(queue') = Len(queue) + 1
            /\ Len(queue) \in Nat
            /\ \A k \in 1..Len(queue) : queue'[k] = queue[k]
            /\ queue'[Len(queue) + 1] = a
        BY <1>t, <2>6
      <4>2. \A k \in 1..Len(queue') : task'[queue'[k]] = "queued"
        BY <3>1, <3>2, <4>1 DEF Slots
      <4>3. \A j, k \in 1..Len(queue') : queue'[j] = queue'[k] => j = k
        BY <2>1, <3>2, <4>1 DEF Slots
      <4> QED
        BY <2>6, <3>2, <4>2, <4>3 DEF Slots
    <3>4. Life(task', info', rec', stop', reaper')
      BY <1>l, <2>1, <2>6, <3>1 DEF Life, Started, Live
    <3> QED
      BY <3>3, <3>4 DEF SlotInv
  <2>7. CASE /\ SlotFree(runningCount)
             /\ \E gate \in Gates \ {"reject"} :
                  LET o == Outcome(gate, a, FALSE)
                  IN /\ task' = [task EXCEPT ![a] = o.pc]
                     /\ info' = [info EXCEPT ![a] = Recorded(@, o)]
                     /\ runningCount' = runningCount + SlotsTaken(o)
             /\ UNCHANGED queue
    <3>1. PICK gate \in GateKinds :
            /\ task' = [task EXCEPT ![a] = Outcome(gate, a, FALSE).pc]
            /\ info' = [info EXCEPT ![a] = Recorded(info[a], Outcome(gate, a, FALSE))]
            /\ runningCount' = runningCount + SlotsTaken(Outcome(gate, a, FALSE))
      BY <2>7, GatesAssumption
    <3> DEFINE o == Outcome(gate, a, FALSE)
    <3>0. /\ o.pc \in {"created", "approval", "rejected"}
          /\ SlotsTaken(o) \in {0, 1}
          /\ task' \in [Agents -> TaskStates]
          /\ info' \in [Agents -> InfoType]
          /\ task'[a] = o.pc
          /\ ~info'[a].slotReleased
          /\ \A b \in Agents \ {a} : task'[b] = task[b] /\ info'[b] = info[b]
      BY <2>2, <3>1
    <3>2. runningCount' = runningCount + SlotsTaken(o) /\ runningCount \in Nat
      BY <1>t, <3>1
    <3>5. Life(task', info', rec', stop', reaper')
      BY <2>3, <3>1
    <3>3. CASE SlotsTaken(o) = 0
      <4> HIDE DEF o
      <4>1. runningCount' = runningCount
        BY <3>2, <3>3
      <4> USE DEF o
      <4> QED
        BY <2>4, <2>7, <3>1, <3>3, <4>1
    <3>4. CASE SlotsTaken(o) = 1
      <4> HIDE DEF o
      <4>1. /\ task' \in [Agents -> TaskStates]
            /\ info' \in [Agents -> InfoType]
            /\ task'[a] \in {"created", "approval", "rejected"}
            /\ task'[a] # "rejected"
            /\ ~info'[a].slotReleased
            /\ \A b \in Agents \ {a} : task'[b] = task[b] /\ info'[b] = info[b]
        BY <3>0, <3>4 DEF SlotsTaken
      <4>2. Slots(queue, runningCount + 1, task', info')
        BY <1>t, <1>s, <2>1, <2>7, <4>1, SlotTaken
      <4> QED
        BY <2>7, <3>2, <3>4, <3>5, <4>2 DEF SlotInv
    <3> QED
      BY <3>0, <3>3, <3>4
  <2> QED
    BY <1>1, <2>5, <2>6, <2>7 DEF Spawn
<1>2. ASSUME NEW a \in Agents, SpawnApproved(a)
      PROVE  SlotInv'
  <2>1. UNCHANGED <<queue, runningCount>>
    BY <1>2 DEF SpawnApproved, admission
  <2>2. \A b \in Agents :
          /\ task'[b] \in Started <=> task[b] \in Started
          /\ info'[b].slotReleased = info[b].slotReleased
          /\ info'[b].byRun = info[b].byRun
          /\ task'[b] = "queued" <=> task[b] = "queued"
          /\ task'[b] = "unspawned" => task[b] = "unspawned"
    BY <1>t, <1>2 DEF SpawnApproved, Started, Live, InfoType
  <2>3. Life(task', info', rec', stop', reaper')
    BY <1>t, <1>l, <1>2, <2>2 DEF SpawnApproved, Life, Started, Live
  <2> QED
    BY <2>1, <2>2, <2>3, QuietStep
<1>3. ASSUME NEW a \in Agents, SpawnDeclined(a)
      PROVE  SlotInv'
  <2> DEFINE T == [task EXCEPT ![a] = IF MayClaim(Failed(info[a]), FALSE) THEN "announce" ELSE "ended"]
             i == Claimed(Failed(info[a]), FALSE)
             I == [info EXCEPT ![a] = i]
             J == [I EXCEPT ![a].slotReleased = TRUE]
  <2>1. task[a] = "approval" /\ ReleaseSlot(a, T, I) /\ UNCHANGED <<rec, stop, reaper>>
    BY <1>3 DEF SpawnDeclined
  <2>2. info[a] \in InfoType
    BY <1>t
  <2>3. /\ Failed(info[a]) \in InfoType
        /\ Failed(info[a]).slotReleased = info[a].slotReleased
        /\ Failed(info[a]).byRun = info[a].byRun
    BY <2>2, RecordTypes
  <2>4. i \in InfoType /\ i.slotReleased = info[a].slotReleased /\ i.byRun = info[a].byRun
    BY <2>3, RecordTypes
  <2>5. /\ T \in [Agents -> TaskStates]
        /\ T[a] \in {"announce", "ended"}
        /\ \A b \in Agents \ {a} : T[b] = task[b]
    BY <1>t DEF TaskStates
  <2> HIDE DEF T, i
  <2>6. /\ I \in [Agents -> InfoType]
        /\ I[a] = i
        /\ \A b \in Agents \ {a} : I[b] = info[b]
    BY <1>t, <2>4
  <2> HIDE DEF I
  <2>7. Slots(queue, runningCount, T, I)
    <3>1. \A b \in Agents :
            /\ T[b] \in Started <=> task[b] \in Started
            /\ I[b].slotReleased = info[b].slotReleased
            /\ task[b] = "queued" => T[b] = "queued" \/ \A k \in 1..Len(queue) : queue[k] # b
            /\ T[b] \in {"unspawned", "queued"} => task[b] \in {"unspawned", "queued"}
      BY <2>1, <2>4, <2>5, <2>6 DEF Started, Live
    <3> QED
      BY <1>t, <1>s, <2>5, <2>6, <3>1, SlotsSame
  <2>8. Slots(queue', runningCount', task', info') /\ Drained(T, J)
    BY <2>1, <2>5, <2>6, <2>7, ReleaseSlots DEF Started
  <2>9. J[a].slotReleased /\ J[a].byRun = i.byRun /\ \A b \in Agents \ {a} : J[b] = info[b]
    BY <2>4, <2>6 DEF InfoType
  <2> HIDE DEF J
  <2>10. Life(T, J, rec, stop, reaper)
    BY <1>l, <2>1, <2>4, <2>5, <2>9 DEF Life, Started, Live
  <2> QED
    BY <2>1, <2>8, <2>10, LifeDrained DEF SlotInv
<1>4. ASSUME NEW a \in Agents, RunUsesTool(a)
      PROVE  SlotInv'
  <2>1. UNCHANGED <<queue, runningCount>>
    BY <1>4 DEF RunUsesTool, admission
  <2>2. \A b \in Agents :
          /\ task'[b] \in Started <=> task[b] \in Started
          /\ info'[b].slotReleased = info[b].slotReleased
          /\ info'[b].byRun = info[b].byRun
          /\ task'[b] = "queued" <=> task[b] = "queued"
          /\ task'[b] = "unspawned" => task[b] = "unspawned"
    BY <1>t, <1>4 DEF RunUsesTool, Started, Live, InfoType
  <2>3. Life(task', info', rec', stop', reaper')
    BY <1>t, <1>l, <1>4, <2>2 DEF RunUsesTool, Life, Started, Live
  <2> QED
    BY <2>1, <2>2, <2>3, QuietStep
<1>5. ASSUME NEW a \in Agents, RunCompletes(a)
      PROVE  SlotInv'
  <2>1. info[a] \in InfoType
    BY <1>t
  <2>2. /\ [info[a] EXCEPT !.done = TRUE] \in InfoType
        /\ [info[a] EXCEPT !.done = TRUE].slotReleased = info[a].slotReleased
        /\ [info[a] EXCEPT !.done = TRUE].byRun = info[a].byRun
    BY <2>1, DoneTypes
  <2>3. /\ task[a] = "running"
        /\ RunFinally(a, [info[a] EXCEPT !.done = TRUE])
        /\ UNCHANGED <<rec, stop, reaper>>
    BY <1>5 DEF RunCompletes
  <2> QED
    BY <2>2, <2>3, RunFinallySlots DEF SlotInv
<1>6. ASSUME NEW a \in Agents, RunFails(a)
      PROVE  SlotInv'
  <2>1. info[a] \in InfoType
    BY <1>t
  <2>2. /\ Failed(info[a]) \in InfoType
        /\ Failed(info[a]).slotReleased = info[a].slotReleased
        /\ Failed(info[a]).byRun = info[a].byRun
    BY <2>1, RecordTypes
  <2>3. /\ task[a] = "running"
        /\ RunFinally(a, Failed(info[a]))
        /\ UNCHANGED <<rec, stop, reaper>>
    BY <1>6 DEF RunFails
  <2> QED
    BY <2>2, <2>3, RunFinallySlots DEF SlotInv
<1>7. ASSUME NEW a \in Agents, StrayCancel(a)
      PROVE  SlotInv'
  <2>1. UNCHANGED <<queue, runningCount>>
    BY <1>7 DEF StrayCancel, admission
  <2>2. \A b \in Agents :
          /\ task'[b] \in Started <=> task[b] \in Started
          /\ info'[b].slotReleased = info[b].slotReleased
          /\ info'[b].byRun = info[b].byRun
          /\ task'[b] = "queued" <=> task[b] = "queued"
          /\ task'[b] = "unspawned" => task[b] = "unspawned"
    BY <1>t, <1>7 DEF StrayCancel, Started, Live
  <2>3. Life(task', info', rec', stop', reaper')
    BY <1>t, <1>l, <1>7, <2>2 DEF StrayCancel, Life, Started, Live
  <2> QED
    BY <2>1, <2>2, <2>3, QuietStep
<1>8. ASSUME NEW a \in Agents, CancelQueued(a)
      PROVE  SlotInv'
  <2>1. PICK k \in 1..Len(queue) : queue[k] = a /\ queue' = WithoutAt(queue, k)
    BY <1>8 DEF CancelQueued
  <2>2. /\ task[a] = "queued"
        /\ task' = [task EXCEPT ![a] = "stopped"]
        /\ info' = [info EXCEPT ![a] = QueuedStop(info[a])]
        /\ UNCHANGED <<runningCount, rec, stop, reaper>>
    BY <1>8 DEF CancelQueued
  <2>3. /\ QueuedStop(info[a]) \in InfoType
        /\ QueuedStop(info[a]).slotReleased = info[a].slotReleased
        /\ QueuedStop(info[a]).byRun = info[a].byRun
    <3>1. info[a] \in InfoType
      BY <1>t
    <3> QED
      BY <3>1, RecordTypes
  <2>4. /\ task' \in [Agents -> TaskStates]
        /\ info' \in [Agents -> InfoType]
        /\ task'[a] = "stopped"
        /\ info'[a].slotReleased = info[a].slotReleased
        /\ info'[a].byRun = info[a].byRun
        /\ \A b \in Agents \ {a} : task'[b] = task[b] /\ info'[b] = info[b]
    BY <1>t, <2>2, <2>3 DEF TaskStates
  <2>5. /\ queue' \in Seq(Agents)
        /\ Len(queue') = Len(queue) - 1
        /\ Len(queue) \in Nat
        /\ \A j \in 1..Len(queue') : queue'[j] = IF j < k THEN queue[j] ELSE queue[j + 1]
    BY <1>t, <2>1, WithoutAtType DEF WithoutAt
  <2>6. \A j \in 1..Len(queue') : task[queue'[j]] = "queued" /\ queue'[j] # a
    <3>1. SUFFICES ASSUME NEW j \in 1..Len(queue')
                   PROVE  task[queue'[j]] = "queued" /\ queue'[j] # a
      OBVIOUS
    <3>2. PICK m \in 1..Len(queue) : m # k /\ queue'[j] = queue[m]
      BY <2>1, <2>5
    <3> QED
      BY <1>s, <2>1, <3>2 DEF Slots
  <2>7. \A i, j \in 1..Len(queue') : queue'[i] = queue'[j] => i = j
    <3>1. SUFFICES ASSUME NEW i \in 1..Len(queue'), NEW j \in 1..Len(queue'),
                          queue'[i] = queue'[j]
                   PROVE  i = j
      OBVIOUS
    <3>2. /\ IF i < k THEN i \in 1..Len(queue) /\ queue'[i] = queue[i]
             ELSE i + 1 \in 1..Len(queue) /\ queue'[i] = queue[i + 1]
          /\ IF j < k THEN j \in 1..Len(queue) /\ queue'[j] = queue[j]
             ELSE j + 1 \in 1..Len(queue) /\ queue'[j] = queue[j + 1]
      BY <2>1, <2>5
    <3>3. (IF i < k THEN i ELSE i + 1) = (IF j < k THEN j ELSE j + 1)
      BY <1>s, <3>1, <3>2 DEF Slots
    <3> QED
      BY <2>1, <2>5, <3>3
  <2>8. Slots(queue', runningCount, task, info)
    BY <1>s, <2>6, <2>7 DEF Slots
  <2>9. Slots(queue', runningCount, task', info')
    <3>1. \A j \in 1..Len(queue') : queue'[j] # a
      BY <2>6
    <3>2. \A b \in Agents :
            /\ task'[b] \in Started <=> task[b] \in Started
            /\ info'[b].slotReleased = info[b].slotReleased
            /\ task[b] = "queued" => task'[b] = "queued" \/ b = a
            /\ task'[b] \in {"unspawned", "queued"} => task[b] \in {"unspawned", "queued"}
      BY <2>2, <2>4 DEF Started, Live
    <3>3. \A b \in Agents :
            /\ task'[b] \in Started <=> task[b] \in Started
            /\ info'[b].slotReleased = info[b].slotReleased
            /\ task[b] = "queued" => task'[b] = "queued" \/ \A j \in 1..Len(queue') : queue'[j] # b
            /\ task'[b] \in {"unspawned", "queued"} => task[b] \in {"unspawned", "queued"}
      BY <3>1, <3>2
    <3>4. /\ queue' \in Seq(Agents)
          /\ task \in [Agents -> TaskStates] /\ task' \in [Agents -> TaskStates]
          /\ info \in [Agents -> InfoType] /\ info' \in [Agents -> InfoType]
      BY <1>t, <2>4, <2>5
    <3> QED
      BY <2>8, <3>3, <3>4, SlotsSame
  <2>10. Life(task', info', rec', stop', reaper')
    BY <1>l, <2>2, <2>4 DEF Life, Started, Live
  <2> QED
    BY <2>2, <2>9, <2>10 DEF SlotInv
<1>9. ASSUME NEW a \in Agents, StopBegins(a)
      PROVE  SlotInv'
  <2>1. UNCHANGED <<queue, runningCount>>
    BY <1>9 DEF StopBegins, admission
  <2>2. \A b \in Agents :
          /\ task'[b] \in Started <=> task[b] \in Started
          /\ info'[b].slotReleased = info[b].slotReleased
          /\ info'[b].byRun = info[b].byRun
          /\ task'[b] = "queued" <=> task[b] = "queued"
          /\ task'[b] = "unspawned" => task[b] = "unspawned"
    BY <1>t, <1>9 DEF StopBegins, Started, Live, InfoType, ReapBegins
  <2>3. Life(task', info', rec', stop', reaper')
    BY <1>t, <1>l, <1>9, <2>2 DEF StopBegins, Life, Started, Live, ReapBegins
  <2> QED
    BY <2>1, <2>2, <2>3, QuietStep
<1>10. ASSUME NEW a \in Agents, Cancel(a)
      PROVE  SlotInv'
  BY <1>10, <1>9 DEF Cancel
<1>11. ASSUME NEW a \in Agents, GatheredCancel(a)
      PROVE  SlotInv'
  BY <1>11, <1>9 DEF GatheredCancel
<1>12. ASSUME NEW a \in Agents, ReaperVisits(a)
      PROVE  SlotInv'
  <2>1. UNCHANGED <<queue, runningCount, task, rec, stop>> /\ task[a] \in Started
    BY <1>12 DEF ReaperVisits, admission
  <2>2. info' = info \/ info' = [info EXCEPT ![a].reapStarted = TRUE]
    BY <1>12 DEF ReaperVisits, ReapBegins
  <2>3. \A b \in Agents : /\ info'[b].slotReleased = info[b].slotReleased
                          /\ info'[b].byRun = info[b].byRun
    BY <1>t, <2>2 DEF InfoType
  <2>4. reaper'.at = {a}
    BY <1>12 DEF ReaperVisits
  <2>5. Life(task', info', rec', stop', reaper')
    BY <1>l, <2>1, <2>3, <2>4 DEF Life
  <2> QED
    BY <2>1, <2>3, <2>5, QuietStep
<1>13. ASSUME NEW a \in Agents, AnnounceReturns(a)
      PROVE  SlotInv'
  <2>1. UNCHANGED <<queue, runningCount>>
    BY <1>13 DEF AnnounceReturns, admission
  <2>2. \A b \in Agents :
          /\ task'[b] \in Started <=> task[b] \in Started
          /\ info'[b].slotReleased = info[b].slotReleased
          /\ info'[b].byRun = info[b].byRun
          /\ task'[b] = "queued" <=> task[b] = "queued"
          /\ task'[b] = "unspawned" => task[b] = "unspawned"
    BY <1>t, <1>13 DEF AnnounceReturns, Started, Live
  <2>3. Life(task', info', rec', stop', reaper')
    BY <1>t, <1>l, <1>13, <2>2 DEF AnnounceReturns, Life, Started, Live
  <2> QED
    BY <2>1, <2>2, <2>3, QuietStep
<1>14. ASSUME NEW a \in Agents, CancelledBeforeRun(a)
      PROVE  SlotInv'
  <2>1. UNCHANGED <<queue, runningCount>>
    BY <1>14 DEF CancelledBeforeRun, admission
  <2>2. \A b \in Agents :
          /\ task'[b] \in Started <=> task[b] \in Started
          /\ info'[b].slotReleased = info[b].slotReleased
          /\ info'[b].byRun = info[b].byRun
          /\ task'[b] = "queued" <=> task[b] = "queued"
          /\ task'[b] = "unspawned" => task[b] = "unspawned"
    BY <1>t, <1>14 DEF CancelledBeforeRun, Started, Live
  <2>3. Life(task', info', rec', stop', reaper')
    BY <1>t, <1>l, <1>14, <2>2 DEF CancelledBeforeRun, Life, Started, Live
  <2> QED
    BY <2>1, <2>2, <2>3, QuietStep
<1>15. ASSUME NEW a \in Agents, RunStarts(a)
      PROVE  SlotInv'
  <2>1. UNCHANGED <<queue, runningCount>>
    BY <1>15 DEF RunStarts, admission
  <2>2. \A b \in Agents :
          /\ task'[b] \in Started <=> task[b] \in Started
          /\ info'[b].slotReleased = info[b].slotReleased
          /\ info'[b].byRun = info[b].byRun
          /\ task'[b] = "queued" <=> task[b] = "queued"
          /\ task'[b] = "unspawned" => task[b] = "unspawned"
    BY <1>t, <1>15 DEF RunStarts, Started, Live
  <2>3. Life(task', info', rec', stop', reaper')
    BY <1>t, <1>l, <1>15, <2>2 DEF RunStarts, Life, Started, Live
  <2> QED
    BY <2>1, <2>2, <2>3, QuietStep
<1>16. ASSUME NEW a \in Agents, RunCancelled(a)
      PROVE  SlotInv'
  <2>1. info[a] \in InfoType /\ task[a] = "running" /\ UNCHANGED <<stop, reaper>>
    BY <1>t, <1>16 DEF RunCancelled
  <2>2. CASE RunFinally(a, info[a]) /\ UNCHANGED rec
    BY <2>1, <2>2, RunFinallySlots DEF SlotInv
  <2>3. CASE RunFinally(a, Failed(info[a])) /\ UNCHANGED rec
    <3>1. /\ Failed(info[a]) \in InfoType
          /\ Failed(info[a]).slotReleased = info[a].slotReleased
          /\ Failed(info[a]).byRun = info[a].byRun
      BY <2>1, RecordTypes
    <3> QED
      BY <2>1, <2>3, <3>1, RunFinallySlots DEF SlotInv
  <2>4. CASE /\ ~info[a].reaped
             /\ rec' = [rec EXCEPT ![a] = "created"]
             /\ RunFinally(a, [info[a] EXCEPT !.retryUsed = TRUE, !.recovering = TRUE])
    <3> DEFINE i == [info[a] EXCEPT !.retryUsed = TRUE, !.recovering = TRUE]
    <3>1. /\ i \in InfoType
          /\ i.slotReleased = info[a].slotReleased
          /\ i.byRun = info[a].byRun
          /\ i.recovering
          /\ ~i.reaped
      BY <2>1, <2>4, RetryTypes
    <3>2. RunFinally(a, i)
      BY <2>4
    <3> HIDE DEF i
    <3> QED
      BY <2>1, <2>4, <3>1, <3>2, RunFinallySlots DEF SlotInv
  <2> QED
    BY <1>16, <2>2, <2>3, <2>4 DEF RunCancelled
<1>17. ASSUME NEW a \in Agents, TeardownEnds(a)
      PROVE  SlotInv'
  <2> DEFINE w == a \notin cancelReq /\ info[a].byRun
             S == [task EXCEPT ![a] = "teardown"]
  <2>1. task[a] = "teardown" /\ RunExit(a, info, w) /\ UNCHANGED <<rec, stop, reaper>>
    BY <1>17 DEF TeardownEnds
  <2>2. w \in BOOLEAN /\ (w => info[a].byRun)
    BY <1>t DEF InfoType
  <2>3. S = task
    BY <1>t, <2>1
  <2> HIDE DEF w
  <2> QED
    BY <1>t, <1>s, <1>l, <2>1, <2>2, <2>3, RunExitSlots DEF SlotInv
<1>18. ASSUME NEW a \in Agents, RunReturns(a)
      PROVE  SlotInv'
  <2>1. UNCHANGED <<queue, runningCount>>
    BY <1>18 DEF RunReturns, admission
  <2>2. \A b \in Agents :
          /\ task'[b] \in Started <=> task[b] \in Started
          /\ info'[b].slotReleased = info[b].slotReleased
          /\ info'[b].byRun = info[b].byRun
          /\ task'[b] = "queued" <=> task[b] = "queued"
          /\ task'[b] = "unspawned" => task[b] = "unspawned"
    BY <1>t, <1>18 DEF RunReturns, Started, Live
  <2>3. Life(task', info', rec', stop', reaper')
    BY <1>t, <1>l, <1>18, <2>2 DEF RunReturns, Life, Started, Live
  <2> QED
    BY <2>1, <2>2, <2>3, QuietStep
<1>19. ASSUME NEW a \in Agents, ReportInjected(a)
      PROVE  SlotInv'
  <2>1. UNCHANGED <<queue, runningCount>>
    BY <1>19 DEF ReportInjected, admission
  <2>2. \A b \in Agents :
          /\ task'[b] \in Started <=> task[b] \in Started
          /\ info'[b].slotReleased = info[b].slotReleased
          /\ info'[b].byRun = info[b].byRun
          /\ task'[b] = "queued" <=> task[b] = "queued"
          /\ task'[b] = "unspawned" => task[b] = "unspawned"
    BY <1>t, <1>19 DEF ReportInjected, Started, Live, InfoType
  <2>3. Life(task', info', rec', stop', reaper')
    BY <1>t, <1>l, <1>19, <2>2 DEF ReportInjected, Life, Started, Live
  <2> QED
    BY <2>1, <2>2, <2>3, QuietStep
<1>20. ASSUME NEW a \in Agents, ReportPassesGate(a)
      PROVE  SlotInv'
  <2>1. UNCHANGED <<queue, runningCount>>
    BY <1>20 DEF ReportPassesGate, admission
  <2>2. \A b \in Agents :
          /\ task'[b] \in Started <=> task[b] \in Started
          /\ info'[b].slotReleased = info[b].slotReleased
          /\ info'[b].byRun = info[b].byRun
          /\ task'[b] = "queued" <=> task[b] = "queued"
          /\ task'[b] = "unspawned" => task[b] = "unspawned"
    BY <1>t, <1>20 DEF ReportPassesGate, Started, Live
  <2>3. Life(task', info', rec', stop', reaper')
    BY <1>t, <1>l, <1>20, <2>2 DEF ReportPassesGate, Life, Started, Live
  <2> QED
    BY <2>1, <2>2, <2>3, QuietStep
<1>21. ASSUME NEW a \in Agents, ReportFails(a)
      PROVE  SlotInv'
  <2>1. UNCHANGED <<queue, runningCount>>
    BY <1>21 DEF ReportFails, admission
  <2>2. \A b \in Agents :
          /\ task'[b] \in Started <=> task[b] \in Started
          /\ info'[b].slotReleased = info[b].slotReleased
          /\ info'[b].byRun = info[b].byRun
          /\ task'[b] = "queued" <=> task[b] = "queued"
          /\ task'[b] = "unspawned" => task[b] = "unspawned"
    BY <1>t, <1>21 DEF ReportFails, Started, Live
  <2>3. Life(task', info', rec', stop', reaper')
    BY <1>t, <1>l, <1>21, <2>2 DEF ReportFails, Life, Started, Live
  <2> QED
    BY <2>1, <2>2, <2>3, QuietStep
<1>22. ASSUME NEW a \in Agents, RecoveryStarts(a)
      PROVE  SlotInv'
  <2>1. UNCHANGED <<queue, runningCount>>
    BY <1>22 DEF RecoveryStarts, admission
  <2>2. \A b \in Agents :
          /\ task'[b] \in Started <=> task[b] \in Started
          /\ info'[b].slotReleased = info[b].slotReleased
          /\ info'[b].byRun = info[b].byRun
          /\ task'[b] = "queued" <=> task[b] = "queued"
          /\ task'[b] = "unspawned" => task[b] = "unspawned"
    BY <1>t, <1>22 DEF RecoveryStarts, Started, Live
  <2>3. Life(task', info', rec', stop', reaper')
    BY <1>t, <1>l, <1>22, <2>2 DEF RecoveryStarts, Life, Started, Live
  <2> QED
    BY <2>1, <2>2, <2>3, QuietStep
<1>23. ASSUME NEW a \in Agents, RecoveryResumes(a)
      PROVE  SlotInv'
  <2>1. UNCHANGED <<queue, stop, reaper>> /\ rec[a] \in {"waitOrig", "waitSlot"}
    BY <1>23 DEF RecoveryResumes
  <2>2. ~info[a].byRun /\ task[a] = "ended" /\ info[a].slotReleased
    BY <1>l, <1>23, <2>1 DEF RecoveryResumes, Life, Live
  <2>3. CASE /\ info' = [info EXCEPT ![a].recovering = FALSE]
             /\ rec' = [rec EXCEPT ![a] = "none"]
             /\ UNCHANGED <<runningCount, task>>
    <3>1. \A b \in Agents : /\ info'[b].slotReleased = info[b].slotReleased
                            /\ info'[b].byRun = info[b].byRun
      BY <1>t, <2>3 DEF InfoType
    <3>2. Life(task', info', rec', stop', reaper')
      BY <1>t, <1>l, <2>1, <2>3, <3>1 DEF Life
    <3> QED
      BY <2>1, <2>3, <3>1, <3>2, QuietStep
  <2>4. CASE /\ rec' = [rec EXCEPT ![a] = "waitSlot"]
             /\ UNCHANGED <<runningCount, task, info>>
    <3>1. Life(task', info', rec', stop', reaper')
      BY <1>t, <1>l, <2>1, <2>2, <2>4 DEF Life
    <3> QED
      BY <2>1, <2>4, <3>1, QuietStep
  <2>5. CASE /\ SlotFree(runningCount)
             /\ runningCount' = runningCount + 1
             /\ info' = [info EXCEPT ![a].recovering = FALSE, ![a].slotReleased = FALSE]
             /\ task' = [task EXCEPT ![a] = "created"]
             /\ rec' = [rec EXCEPT ![a] = "event"]
    <3>2. /\ task' \in [Agents -> TaskStates]
          /\ task'[a] = "created"
          /\ \A b \in Agents \ {a} : task'[b] = task[b]
      BY <1>t, <2>5 DEF TaskStates
    <3>3. /\ info' \in [Agents -> InfoType]
          /\ ~info'[a].slotReleased
          /\ info'[a].byRun = info[a].byRun
          /\ \A b \in Agents \ {a} : info'[b] = info[b]
      <4>1. info' = [info EXCEPT ![a] = [info[a] EXCEPT !.recovering = FALSE, !.slotReleased = FALSE]]
        BY <1>t, <2>5
      <4>2. info[a] \in InfoType
        BY <1>t
      <4>3. [info[a] EXCEPT !.recovering = FALSE, !.slotReleased = FALSE] \in InfoType
        BY <4>2, ResumedTypes
      <4> QED
        BY <1>t, <4>1, <4>2, <4>3 DEF InfoType
    <3>4. a \notin HoldersIn(task, info) /\ \A k \in 1..Len(queue) : queue[k] # a
      BY <1>s, <2>2 DEF HoldersIn, Slots
    <3>5. Slots(queue, runningCount + 1, task', info')
      BY <1>t, <1>s, <2>5, <3>2, <3>3, <3>4, SlotTaken
    <3>6. /\ rec'[a] = "event"
          /\ \A b \in Agents \ {a} : rec'[b] = rec[b]
      BY <1>t, <2>5
    <3>7. Life(task', info', rec', stop', reaper')
      BY <1>l, <2>1, <2>2, <3>2, <3>3, <3>6 DEF Life, Started, Live
    <3> QED
      BY <2>1, <2>5, <3>5, <3>7 DEF SlotInv
  <2> QED
    BY <1>23, <2>3, <2>4, <2>5 DEF RecoveryResumes
<1>24. ASSUME NEW a \in Agents, RecoveryFails(a)
      PROVE  SlotInv'
  <2> DEFINE i == [info[a] EXCEPT !.recovering = FALSE]
             j == IF ~i.done /\ ~i.reapStarted /\ ~i.reaped THEN Failed(i) ELSE i
             c == Claimed(j, FALSE)
  <2>1. info[a] \in InfoType
    BY <1>t
  <2>2. i \in InfoType /\ i.slotReleased = info[a].slotReleased /\ i.byRun = info[a].byRun
    BY <2>1, RecoveringTypes
  <2>3. /\ UNCHANGED <<admission, task, stop, reaper>>
        /\ info' = [info EXCEPT ![a] = c]
        /\ rec' = [rec EXCEPT ![a] = "report"] \/ rec' = [rec EXCEPT ![a] = "none"]
    BY <1>24 DEF RecoveryFails
  <2> HIDE DEF i
  <2>4. j \in InfoType /\ j.slotReleased = i.slotReleased /\ j.byRun = i.byRun
    BY <2>2, RecordTypes
  <2> HIDE DEF j
  <2>5. c.slotReleased = info[a].slotReleased /\ c.byRun = info[a].byRun
    BY <2>2, <2>4, RecordTypes
  <2> HIDE DEF c
  <2>6. \A b \in Agents : /\ info'[b].slotReleased = info[b].slotReleased
                          /\ info'[b].byRun = info[b].byRun
    BY <1>t, <2>3, <2>5
  <2>7. Life(task', info', rec', stop', reaper')
    BY <1>t, <1>l, <2>3, <2>6 DEF Life
  <2> QED
    BY <2>3, <2>6, <2>7, QuietStep DEF admission
<1>25. ASSUME NEW a \in Agents, RecoveryReturns(a)
      PROVE  SlotInv'
  <2>1. UNCHANGED <<queue, runningCount>>
    BY <1>25 DEF RecoveryReturns, admission
  <2>2. \A b \in Agents :
          /\ task'[b] \in Started <=> task[b] \in Started
          /\ info'[b].slotReleased = info[b].slotReleased
          /\ info'[b].byRun = info[b].byRun
          /\ task'[b] = "queued" <=> task[b] = "queued"
          /\ task'[b] = "unspawned" => task[b] = "unspawned"
    BY <1>t, <1>25 DEF RecoveryReturns, Started, Live
  <2>3. Life(task', info', rec', stop', reaper')
    BY <1>t, <1>l, <1>25, <2>2 DEF RecoveryReturns, Life, Started, Live
  <2> QED
    BY <2>1, <2>2, <2>3, QuietStep
<1>26. ASSUME NEW a \in Agents, RecoveryCancelled(a)
      PROVE  SlotInv'
  <2> DEFINE i == [info[a] EXCEPT !.recovering = FALSE]
  <2>1. info[a] \in InfoType
    BY <1>t
  <2>2. i \in InfoType /\ i.slotReleased = info[a].slotReleased /\ i.byRun = info[a].byRun
    BY <2>1, RecoveringTypes
  <2>3. Failed(i).slotReleased = i.slotReleased /\ Failed(i).byRun = i.byRun
    BY <2>2, RecordTypes
  <2>4. /\ UNCHANGED <<admission, task, stop, reaper>>
        /\ info' = info \/ info' = [info EXCEPT ![a] = Failed(i)] \/ info' = [info EXCEPT ![a] = i]
        /\ rec' = [rec EXCEPT ![a] = "none"]
    BY <1>26 DEF RecoveryCancelled
  <2> HIDE DEF i
  <2>5. \A b \in Agents : /\ info'[b].slotReleased = info[b].slotReleased
                          /\ info'[b].byRun = info[b].byRun
    BY <1>t, <2>2, <2>3, <2>4
  <2>6. Life(task', info', rec', stop', reaper')
    BY <1>t, <1>l, <2>4, <2>5 DEF Life
  <2> QED
    BY <2>4, <2>5, <2>6, QuietStep DEF admission
<1>27. ASSUME NEW a \in Agents, CancelTooLate(a)
      PROVE  SlotInv'
  <2>1. UNCHANGED <<queue, runningCount>>
    BY <1>27 DEF CancelTooLate, admission
  <2>2. \A b \in Agents :
          /\ task'[b] \in Started <=> task[b] \in Started
          /\ info'[b].slotReleased = info[b].slotReleased
          /\ info'[b].byRun = info[b].byRun
          /\ task'[b] = "queued" <=> task[b] = "queued"
          /\ task'[b] = "unspawned" => task[b] = "unspawned"
    BY <1>t, <1>27 DEF CancelTooLate, Started, Live
  <2>3. Life(task', info', rec', stop', reaper')
    BY <1>t, <1>l, <1>27, <2>2 DEF CancelTooLate, Life, Started, Live
  <2> QED
    BY <2>1, <2>2, <2>3, QuietStep
<1>28. ASSUME NEW a \in Agents, StopReaps(a)
      PROVE  SlotInv'
  <2>1. /\ ReapEnds(a)
        /\ task[a] \in Started
        /\ stop' = [stop EXCEPT ![a] = "report"] \/ stop' = [stop EXCEPT ![a] = "none"]
        /\ UNCHANGED <<rec, reaper>>
    BY <1>l, <1>28 DEF StopReaps, Life
  <2>2. Slots(queue', runningCount', task', info') /\ Life(task', info', rec, stop, reaper)
    BY <2>1, ReapEndsSlots
  <2>3. \A b \in Agents : stop'[b] \in {"requested", "reset"} => stop[b] \in {"requested", "reset"}
    BY <1>t, <2>1
  <2>4. Life(task', info', rec', stop', reaper')
    BY <2>1, <2>2, <2>3 DEF Life
  <2> QED
    BY <2>2, <2>4 DEF SlotInv
<1>29. ASSUME NEW a \in Agents, StopReturns(a)
      PROVE  SlotInv'
  <2>1. UNCHANGED <<queue, runningCount>>
    BY <1>29 DEF StopReturns, admission
  <2>2. \A b \in Agents :
          /\ task'[b] \in Started <=> task[b] \in Started
          /\ info'[b].slotReleased = info[b].slotReleased
          /\ info'[b].byRun = info[b].byRun
          /\ task'[b] = "queued" <=> task[b] = "queued"
          /\ task'[b] = "unspawned" => task[b] = "unspawned"
    BY <1>t, <1>29 DEF StopReturns, Started, Live
  <2>3. Life(task', info', rec', stop', reaper')
    BY <1>t, <1>l, <1>29, <2>2 DEF StopReturns, Life, Started, Live
  <2> QED
    BY <2>1, <2>2, <2>3, QuietStep
<1>30. ASSUME NEW a \in Agents, ReaperPasses(a)
      PROVE  SlotInv'
  <2>1. UNCHANGED <<queue, runningCount>>
    BY <1>30 DEF ReaperPasses, admission
  <2>2. \A b \in Agents :
          /\ task'[b] \in Started <=> task[b] \in Started
          /\ info'[b].slotReleased = info[b].slotReleased
          /\ info'[b].byRun = info[b].byRun
          /\ task'[b] = "queued" <=> task[b] = "queued"
          /\ task'[b] = "unspawned" => task[b] = "unspawned"
    BY <1>t, <1>30 DEF ReaperPasses, Started, Live
  <2>3. Life(task', info', rec', stop', reaper')
    BY <1>t, <1>l, <1>30, <2>2 DEF ReaperPasses, Life, Started, Live
  <2> QED
    BY <2>1, <2>2, <2>3, QuietStep
<1>31. ASSUME NEW a \in Agents, ReaperExpires(a)
      PROVE  SlotInv'
  <2>1. UNCHANGED <<queue, runningCount>>
    BY <1>31 DEF ReaperExpires, admission
  <2>2. \A b \in Agents :
          /\ task'[b] \in Started <=> task[b] \in Started
          /\ info'[b].slotReleased = info[b].slotReleased
          /\ info'[b].byRun = info[b].byRun
          /\ task'[b] = "queued" <=> task[b] = "queued"
          /\ task'[b] = "unspawned" => task[b] = "unspawned"
    BY <1>t, <1>31 DEF ReaperExpires, Started, Live, InfoType, ReapBegins
  <2>3. Life(task', info', rec', stop', reaper')
    BY <1>t, <1>l, <1>31, <2>2 DEF ReaperExpires, Life, Started, Live, ReapBegins
  <2> QED
    BY <2>1, <2>2, <2>3, QuietStep
<1>32. ASSUME NEW a \in Agents, ReaperReaps(a)
      PROVE  SlotInv'
  <2>1. /\ ReapEnds(a)
        /\ task[a] \in Started
        /\ reaper'.pc \notin {"check", "reset"}
        /\ UNCHANGED <<rec, stop>>
    BY <1>l, <1>32 DEF ReaperReaps, Life
  <2>2. Slots(queue', runningCount', task', info') /\ Life(task', info', rec, stop, reaper)
    BY <2>1, ReapEndsSlots
  <2>3. Life(task', info', rec', stop', reaper')
    BY <2>1, <2>2 DEF Life
  <2> QED
    BY <2>2, <2>3 DEF SlotInv
<1>33. ASSUME NEW a \in Agents, ReaperReturns(a)
      PROVE  SlotInv'
  <2>1. UNCHANGED <<queue, runningCount>>
    BY <1>33 DEF ReaperReturns, admission
  <2>2. \A b \in Agents :
          /\ task'[b] \in Started <=> task[b] \in Started
          /\ info'[b].slotReleased = info[b].slotReleased
          /\ info'[b].byRun = info[b].byRun
          /\ task'[b] = "queued" <=> task[b] = "queued"
          /\ task'[b] = "unspawned" => task[b] = "unspawned"
    BY <1>t, <1>33 DEF ReaperReturns, Started, Live
  <2>3. Life(task', info', rec', stop', reaper')
    BY <1>t, <1>l, <1>33, <2>2 DEF ReaperReturns, Life, Started, Live
  <2> QED
    BY <2>1, <2>2, <2>3, QuietStep
<1>34. ASSUME CancelForParent
      PROVE  SlotInv'
  <2> DEFINE waiting == {b \in Agents : task[b] = "queued"}
             running == {b \in Agents : /\ task[b] \in Started \ {"approval"}
                                        /\ ~info[b].done
                                        /\ stop[b] = "none"}
  <2>1. /\ stop' = [b \in Agents |-> IF b \in running THEN "requested" ELSE stop[b]]
        /\ queue' = <<>>
        /\ task' = [b \in Agents |-> IF b \in waiting THEN "stopped" ELSE task[b]]
        /\ info' = [b \in Agents |-> IF b \in waiting THEN QueuedStop(info[b]) ELSE info[b]]
        /\ UNCHANGED <<runningCount, rec, reaper>>
    BY <1>34 DEF CancelForParent
  <2>2. \A b \in Agents : /\ QueuedStop(info[b]) \in InfoType
                          /\ QueuedStop(info[b]).slotReleased = info[b].slotReleased
                          /\ QueuedStop(info[b]).byRun = info[b].byRun
    BY <1>t, RecordTypes
  <2>3. /\ task' \in [Agents -> TaskStates]
        /\ info' \in [Agents -> InfoType]
        /\ queue' \in Seq(Agents)
        /\ Len(queue') = 0
    BY <1>t, <2>1, <2>2 DEF TaskStates
  <2>4. \A b \in Agents :
          /\ IF task[b] = "queued" THEN task'[b] = "stopped" ELSE task'[b] = task[b]
          /\ info'[b].slotReleased = info[b].slotReleased
          /\ info'[b].byRun = info[b].byRun
          /\ stop'[b] = stop[b] \/ task[b] \in Started
    BY <2>1, <2>2
  <2> HIDE DEF waiting, running
  <2>5. Slots(queue', runningCount, task, info)
    BY <1>s, <2>3 DEF Slots
  <2>6. Slots(queue', runningCount, task', info')
    <3>1. \A b \in Agents :
            /\ task'[b] \in Started <=> task[b] \in Started
            /\ info'[b].slotReleased = info[b].slotReleased
            /\ task[b] = "queued" => task'[b] = "queued" \/ \A j \in 1..Len(queue') : queue'[j] # b
            /\ task'[b] \in {"unspawned", "queued"} => task[b] \in {"unspawned", "queued"}
      BY <2>3, <2>4 DEF Started, Live
    <3>2. /\ task \in [Agents -> TaskStates] /\ info \in [Agents -> InfoType]
          /\ task' \in [Agents -> TaskStates] /\ info' \in [Agents -> InfoType]
          /\ queue' \in Seq(Agents)
      BY <1>t, <2>3
    <3> QED
      BY <2>5, <3>1, <3>2, SlotsSame
  <2>7. Life(task', info', rec', stop', reaper')
    BY <1>l, <2>1, <2>4 DEF Life, Started, Live
  <2> QED
    BY <2>1, <2>6, <2>7 DEF SlotInv
<1>35. ASSUME StaggerElapses
      PROVE  SlotInv'
  <2>1. UNCHANGED <<queue, runningCount>>
    BY <1>35 DEF StaggerElapses, admission
  <2>2. \A b \in Agents :
          /\ task'[b] \in Started <=> task[b] \in Started
          /\ info'[b].slotReleased = info[b].slotReleased
          /\ info'[b].byRun = info[b].byRun
          /\ task'[b] = "queued" <=> task[b] = "queued"
          /\ task'[b] = "unspawned" => task[b] = "unspawned"
    BY <1>t, <1>35 DEF StaggerElapses, Started, Live
  <2>3. Life(task', info', rec', stop', reaper')
    BY <1>t, <1>l, <1>35, <2>2 DEF StaggerElapses, Life, Started, Live
  <2> QED
    BY <2>1, <2>2, <2>3, QuietStep
<1>36. ASSUME DrainTimerFires
      PROVE  SlotInv'
  <2>1. PICK others \in BOOLEAN : DrainQueue(runningCount, task, info, others)
    BY <1>36 DEF DrainTimerFires
  <2>2. Slots(queue', runningCount', task', info') /\ Drained(task, info)
    BY <1>t, <1>s, <2>1, DrainSlots
  <2>3. UNCHANGED <<rec, stop, reaper>>
    BY <1>36 DEF DrainTimerFires
  <2> QED
    BY <1>l, <2>2, <2>3, LifeDrained DEF SlotInv
<1>37. ASSUME ShutdownBegins
      PROVE  SlotInv'
  <2>1. UNCHANGED <<queue, runningCount>>
    BY <1>37 DEF ShutdownBegins, admission
  <2>2. \A b \in Agents :
          /\ task'[b] \in Started <=> task[b] \in Started
          /\ info'[b].slotReleased = info[b].slotReleased
          /\ info'[b].byRun = info[b].byRun
          /\ task'[b] = "queued" <=> task[b] = "queued"
          /\ task'[b] = "unspawned" => task[b] = "unspawned"
    BY <1>t, <1>37 DEF ShutdownBegins, Started, Live
  <2>3. Life(task', info', rec', stop', reaper')
    BY <1>t, <1>l, <1>37, <2>2 DEF ShutdownBegins, Life, Started, Live
  <2> QED
    BY <2>1, <2>2, <2>3, QuietStep
<1>38. ASSUME ShutdownCancels
      PROVE  SlotInv'
  <2>1. UNCHANGED <<queue, runningCount>>
    BY <1>38 DEF ShutdownCancels, admission
  <2>2. \A b \in Agents :
          /\ task'[b] \in Started <=> task[b] \in Started
          /\ info'[b].slotReleased = info[b].slotReleased
          /\ info'[b].byRun = info[b].byRun
          /\ task'[b] = "queued" <=> task[b] = "queued"
          /\ task'[b] = "unspawned" => task[b] = "unspawned"
    BY <1>t, <1>38 DEF ShutdownCancels, Started, Live
  <2>3. Life(task', info', rec', stop', reaper')
    BY <1>t, <1>l, <1>38, <2>2 DEF ShutdownCancels, Life, Started, Live
  <2> QED
    BY <2>1, <2>2, <2>3, QuietStep
<1>39. ASSUME ShutdownGathers
      PROVE  SlotInv'
  <2>1. UNCHANGED <<queue, runningCount>>
    BY <1>39 DEF ShutdownGathers, admission
  <2>2. \A b \in Agents :
          /\ task'[b] \in Started <=> task[b] \in Started
          /\ info'[b].slotReleased = info[b].slotReleased
          /\ info'[b].byRun = info[b].byRun
          /\ task'[b] = "queued" <=> task[b] = "queued"
          /\ task'[b] = "unspawned" => task[b] = "unspawned"
    BY <1>t, <1>39 DEF ShutdownGathers, Started, Live
  <2>3. Life(task', info', rec', stop', reaper')
    BY <1>t, <1>l, <1>39, <2>2 DEF ShutdownGathers, Life, Started, Live
  <2> QED
    BY <2>1, <2>2, <2>3, QuietStep
<1>40. ASSUME ShutdownDrains
      PROVE  SlotInv'
  <2>1. UNCHANGED <<queue, runningCount>>
    BY <1>40 DEF ShutdownDrains, admission
  <2>2. \A b \in Agents :
          /\ task'[b] \in Started <=> task[b] \in Started
          /\ info'[b].slotReleased = info[b].slotReleased
          /\ info'[b].byRun = info[b].byRun
          /\ task'[b] = "queued" <=> task[b] = "queued"
          /\ task'[b] = "unspawned" => task[b] = "unspawned"
    BY <1>t, <1>40 DEF ShutdownDrains, Started, Live
  <2>3. Life(task', info', rec', stop', reaper')
    BY <1>t, <1>l, <1>40, <2>2 DEF ShutdownDrains, Life, Started, Live
  <2> QED
    BY <2>1, <2>2, <2>3, QuietStep
<1>41. CASE UNCHANGED vars
  BY <1>41 DEF vars, admission, SlotInv
<1> QED
  BY <1>1, <1>2, <1>3, <1>4, <1>5, <1>6, <1>7, <1>8, <1>9, <1>10, <1>11, <1>12, <1>13, <1>14, <1>15, <1>16, <1>17, <1>18, <1>19, <1>20, <1>21, <1>22, <1>23, <1>24, <1>25, <1>26, <1>27, <1>28, <1>29, <1>30, <1>31, <1>32, <1>33, <1>34, <1>35, <1>36, <1>37, <1>38, <1>39, <1>40, <1>41 DEF Next, Loop

IInv == TypeOK /\ SlotInv

(* The inductive invariant holds initially. *)
LEMMA InitIInv == Init => IInv
<1> SUFFICES ASSUME Init
             PROVE  IInv
  OBVIOUS
<1>1. NewInfo \in InfoType /\ ~NewInfo.slotReleased /\ ~NewInfo.byRun
  BY DEF NewInfo, InfoType
<1>2. /\ info = [a \in Agents |-> NewInfo]
      /\ queue = <<>>
      /\ runningCount = 0
      /\ task = [a \in Agents |-> "unspawned"]
      /\ rec = [a \in Agents |-> "none"]
      /\ stop = [a \in Agents |-> "none"]
      /\ reaper = [pc |-> "idle", at |-> {}]
  BY DEF Init
<1>3. HoldersIn(task, info) = {}
  BY <1>2 DEF HoldersIn, Started, Live
<1>4. Cardinality(HoldersIn(task, info)) = 0
  BY <1>3, FS_EmptySet
<1>5. Len(queue) = 0 /\ queue \in Seq(Agents) /\ 0 <= MaxConcurrent
  BY <1>2, MaxConcurrentAssumption
<1>6. \A a \in Agents : ~info[a].slotReleased /\ ~info[a].byRun
  BY <1>1, <1>2
<1>7. runningCount = 0
  BY <1>2
<1>8. Slots(queue, runningCount, task, info)
  BY <1>4, <1>5, <1>6, <1>7 DEF Slots
<1>9. Life(task, info, rec, stop, reaper)
  BY <1>2, <1>6 DEF Life
<1>10. info \in [Agents -> InfoType] /\ task \in [Agents -> TaskStates]
  BY <1>1, <1>2 DEF TaskStates
<1>11. reaper \in [pc : {"idle", "check", "reset", "report", "dead"}, at : SUBSET Agents]
  BY <1>2
<1>12. /\ tooSoon \in BOOLEAN /\ drainTimer \in BOOLEAN
       /\ cancelReq \subseteq Agents /\ recCancel \subseteq Agents
       /\ draining \subseteq Agents /\ awaited \subseteq {"run", "rec"} \X Agents
       /\ shutdown \in {"up", "watchers", "gather", "drain", "down"}
  BY DEF Init
<1>13. /\ tomb \in [Agents -> {"none", "cause", "delivered"}]
       /\ rec \in [Agents -> {"none"} \union RecLive]
       /\ rep \in [Agents -> {"none", "delivered", "failed", "cancelled"} \union Reporting]
       /\ stop \in [Agents -> {"none", "requested", "reset", "report"}]
  BY DEF Init
<1>14. runningCount \in Nat
  BY <1>7
<1>15. TypeOK
  BY <1>5, <1>10, <1>11, <1>12, <1>13, <1>14 DEF TypeOK
<1> QED
  BY <1>8, <1>9, <1>15 DEF IInv, SlotInv

(* The inductive invariant is kept by every step. *)
LEMMA NextIInv == IInv /\ [Next]_vars => IInv'
<1> SUFFICES ASSUME IInv, [Next]_vars
             PROVE  IInv'
  OBVIOUS
<1>1. SlotInv'
  BY SlotStep DEF IInv
<1>2. runningCount' \in Nat
  BY <1>1, HoldersFinite DEF SlotInv, Slots
<1>3. TypeOK'
  BY <1>2, TypeStep DEF IInv
<1> QED
  BY <1>1, <1>3 DEF IInv

(* Every variable keeps its type for any agents and any number of slots; in *)
(* particular _running_count, which four paths decrement, stays a natural.  *)
THEOREM TypeInvariant == Spec => []TypeOK
<1>1. IInv => TypeOK
  BY DEF IInv
<1> QED
  BY <1>1, InitIInv, NextIInv, PTL DEF Spec

(* _running_count is the number of agents that hold a slot and never above  *)
(* _max_concurrent, for any agents and any number of slots.                 *)
THEOREM SlotSafety == Spec => []SlotAccounting
<1>1. IInv => SlotAccounting
  BY DEF IInv, SlotInv, Slots, SlotAccounting, Holders, HoldersIn
<1> QED
  BY <1>1, InitIInv, NextIInv, PTL DEF Spec
=============================================================================
