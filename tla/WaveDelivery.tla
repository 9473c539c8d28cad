---------------------------- MODULE WaveDelivery ----------------------------
(***************************************************************************)
(* How the results of a wave of subagents reach their parent: the spawn    *)
(* submissions of the wave and its bookkeeping in the manager              *)
(* (subagent_manager/waves.py), the digest chunks the gateway composes of  *)
(* the members that ended (_subagent_done in slack/gateway.py), the slot   *)
(* of the parent's tab, which runs one turn at a time and queues the       *)
(* chunks that find it busy, the delivery debts of the queued chunks       *)
(* (slot_queue_repository.py, chat_runner.py), the tombstones on disk, and *)
(* the reconciliation of orphans after a crash (monitoring.py).            *)
(*                                                                         *)
(* A wave has one submission for each member.  The text of a chunk is the  *)
(* set of the members it reports.  Clocks are left out: a deadline may     *)
(* pass whenever something is there to wait for it.  The report of a       *)
(* member, its teardown gate and its one-shot claim are those of           *)
(* SubagentManager.                                                        *)
(***************************************************************************)
EXTENDS Integers, FiniteSets, Sequences

CONSTANTS
  Members,      \* the submissions of the wave, batch_total many
  ChunkSize,    \* SUBAGENT_DIGEST_CHUNK_SIZE
  MaxRetries,   \* how often a turn that failed unread is queued again
  MaxFlushes,   \* bound: forced flushes under way at a time
  MaxCrashes    \* bound: crashes of the gateway

ASSUME WaveAssumption ==
  /\ IsFiniteSet(Members)
  /\ {ChunkSize, MaxRetries, MaxFlushes, MaxCrashes} \subseteq Nat

VARIABLES
  member,       \* how far each submission, and its run, has come
  outcome,      \* of the members that have ended
  submitted,    \* _batch_submitted: how many arrived, or Pruned
  progress,     \* _batch_progress: the gateway's record of the wave
  flushes,      \* flush-only announces the manager has scheduled
  tab,          \* the parent has a tab
  waiting,      \* deliveries that wait for the turn in front of them
  turn,         \* the turn of the slot, or NoTurn
  queue,        \* chunks queued in the slot
  ledger,       \* _subagent_delivery_pending: chunks with the marks they owe
  ending,       \* turns that are over, their done callback still to come
  settling,     \* members whose mark settle_queued_delivery is writing
  retries,      \* retries the slot has used up
  emptied,      \* the slot has replayed an empty turn already
  tomb,         \* the tombstone of each member's folder
  notifying,    \* the orphan that has its tombstone but no notice yet
  crashes,
  read,         \* history: members the parent's model has taken in
  told,         \* history: members a notification or an orphan notice named
  dropped       \* history: members of chunks whose turn failed for good

wave == <<member, outcome, submitted, progress, flushes>>
slot == <<tab, waiting, turn, queue, ledger, ending, settling, retries, emptied>>
disk == <<tomb, notifying, crashes>>
history == <<read, told, dropped>>
vars == <<wave, slot, disk, history>>

Total == Cardinality(Members)

Pruned == -1
NoTurn == [chunk |-> {}, kind |-> "none", consumed |-> FALSE]
UserTurn == [NoTurn EXCEPT !.kind = "user"]
TurnOf(c) == [chunk |-> c, kind |-> "chunk", consumed |-> FALSE]

NoWave == [known |-> FALSE, done |-> 0, flushed |-> 0, lines |-> {}]
FreshWave == [NoWave EXCEPT !.known = TRUE]

Init ==
  /\ member = [a \in Members |-> "inflight"]
  /\ outcome = [a \in Members |-> "none"]
  /\ submitted = Pruned
  /\ progress = NoWave
  /\ flushes = 0
  /\ tab \in BOOLEAN
  /\ waiting = {}
  /\ turn = NoTurn
  /\ queue = <<>>
  /\ ledger = {}
  /\ ending = {}
  /\ settling = {}
  /\ retries = 0
  /\ emptied = FALSE
  /\ tomb = [a \in Members |-> "none"]
  /\ notifying = {}
  /\ crashes = 0
  /\ read = {}
  /\ told = {}
  /\ dropped = {}

-----------------------------------------------------------------------------
(***************************************************************************)
(* The manager's side of the wave.                                         *)
(***************************************************************************)

\* setdefault, then += 1.
OneMore(n) == IF n = Pruned THEN 1 ELSE n + 1

\* spawn() counts the member; it is queued or started ("live"), or refused,
\* which is announced by a task of its own.
Arrives(a) ==
  /\ member[a] = "inflight"
  /\ \E admitted \in BOOLEAN :
       /\ submitted' = OneMore(submitted)
       /\ member' = [member EXCEPT ![a] = IF admitted THEN "live" ELSE "done"]
       /\ outcome' = [outcome EXCEPT ![a] = IF admitted THEN "none" ELSE "never"]
  /\ UNCHANGED <<progress, flushes, slot, disk, history>>

\* The HTTP handler turns the submission away before spawn(), which the caller
\* is told; or the connection fails and the caller cannot know.
NeverArrives(a) ==
  /\ member[a] = "inflight"
  /\ \E how \in {"rejected", "lost"} : member' = [member EXCEPT ![a] = how]
  /\ UNCHANGED <<outcome, submitted, progress, flushes, slot, disk, history>>

\* record_lost_submission: counts the member and announces it as failed.
RecordLost(a) ==
  /\ submitted' = OneMore(submitted)
  /\ member' = [member EXCEPT ![a] = "done"]
  /\ outcome' = [outcome EXCEPT ![a] = "never"]

\* POST /api/spawn/lost.
LostReported(a) ==
  /\ member[a] = "rejected"
  /\ RecordLost(a)
  /\ UNCHANGED <<progress, flushes, slot, disk, history>>

\* _sweep_stuck_waves, one submission at a time.  The grace period is longer
\* than any submission can be on its way.
SweepsStuckWave(a) ==
  /\ member[a] = "lost"
  /\ submitted # Pruned
  /\ submitted < Total
  /\ \A b \in Members : member[b] \notin {"live", "inflight", "rejected"}
  /\ RecordLost(a)
  /\ UNCHANGED <<progress, flushes, slot, disk, history>>

\* The run of a member sets its done flag, and a run that failed or was stopped
\* writes its tombstone; the report is a task of its own.
Ends(a) ==
  /\ member[a] = "live"
  /\ member' = [member EXCEPT ![a] = "done"]
  /\ \E o \in {"ok", "failed"} :
       /\ outcome' = [outcome EXCEPT ![a] = o]
       /\ tomb' = [tomb EXCEPT ![a] = IF o = "failed" THEN "failed" ELSE @]
  /\ UNCHANGED <<submitted, progress, flushes, slot, notifying, crashes, history>>

\* batch_members_pending.
MembersPending ==
  \/ submitted # Pruned /\ submitted < Total
  \/ \E b \in Members : member[b] = "live"

-----------------------------------------------------------------------------
(***************************************************************************)
(* The slot of the parent.                                                 *)
(***************************************************************************)
Ok(c) == {a \in c : outcome[a] = "ok"}

\* note_pending_subagent_delivery: no entry for a chunk that owes nothing.
Noted(c) == IF Ok(c) = {} THEN {} ELSE {[chunk |-> c, owed |-> Ok(c)]}

\* The chunk starts a turn of its own, or joins the queue; either way its
\* marks are left to whoever consumes it.
Inject(c) ==
  /\ ledger' = ledger \cup Noted(c)
  /\ IF turn = NoTurn
     THEN turn' = TurnOf(c) /\ UNCHANGED queue
     ELSE queue' = Append(queue, c) /\ UNCHANGED turn

\* With no tab the reporting member is named in a notification, and what
\* returned to the manager is marked on the spot.
Notify(own, c, settles) ==
  /\ told' = told \cup own
  /\ tomb' = [a \in Members |-> IF settles /\ a \in Ok(c) THEN "delivered" ELSE tomb[a]]

\* Where _subagent_done routes a chunk.  The wait for a busy slot is for its
\* turn to end or for a timeout, whichever is first.
Route(own, c, settles) ==
  \/ /\ ~tab
     /\ Notify(own, c, settles)
     /\ UNCHANGED <<waiting, turn, queue, ledger, read, dropped>>
  \/ /\ tab
     /\ IF turn = NoTurn THEN Inject(c) /\ UNCHANGED waiting
        ELSE waiting' = waiting \cup {c} /\ UNCHANGED <<turn, queue, ledger>>
     /\ UNCHANGED <<tomb, history>>

RouteWakes(c) ==
  /\ c \in waiting
  /\ waiting' = waiting \ {c}
  /\ Inject(c)
  /\ UNCHANGED <<wave, tab, ending, settling, retries, emptied, disk, history>>

-----------------------------------------------------------------------------
(***************************************************************************)
(* The completion consumer of the gateway.                                 *)
(***************************************************************************)
\* Mutants: a chunk has been composed, and its lines, or its count, stay.
EmptiedKeeping(p) == [p EXCEPT !.flushed = p.done]
EmptiedUncounted(p) == [p EXCEPT !.lines = {}]

Emptied(p) == [p EXCEPT !.flushed = p.done, !.lines = {}]

\* Every member is accounted for, or none of them is outstanding.
Closes(p) == p.done >= Total \/ ~MembersPending

\* A mutant: the wave's count is kept.
PrunedNever(closes) == submitted

\* finalize_batch.
Finalized(closes) == IF closes THEN Pruned ELSE submitted

\* The member is accounted for, then held for a later chunk, or it flushes what
\* has been held: as the last of its wave, or when the chunk is full.  Only the
\* report of a run settles what was held.  The parent is no stopped orchestrator,
\* whose reports return before the accounting.
Reports(a) ==
  /\ member[a] = "done"
  /\ member' = [member EXCEPT ![a] = "reported"]
  /\ LET p0 == IF progress.known THEN progress ELSE FreshWave
         p == [p0 EXCEPT !.done = @ + 1, !.lines = @ \cup {a}]
         closes == Closes(p)
     IN /\ submitted' = Finalized(closes)
        /\ IF closes \/ p.done - p.flushed >= ChunkSize
           THEN /\ progress' = IF closes THEN NoWave ELSE Emptied(p)
                /\ Route({a}, p.lines, outcome[a] \in {"ok", "failed"})
           ELSE /\ progress' = p
                /\ UNCHANGED <<waiting, turn, queue, ledger, tomb, history>>
  /\ UNCHANGED <<outcome, flushes, tab, ending, settling, retries, emptied,
                 notifying, crashes>>

\* A mutant: the sweep takes only waves that no member is missing from.
OverdueWhenOver ==
  /\ \E a \in progress.lines : outcome[a] \in {"ok", "failed"}
  /\ ~MembersPending

\* _sweep_digest_holds: a result has been held for DIGEST_HOLD_SECS, and the
\* wave is not about to close by itself.  Members that were never registered
\* have no hold clock the sweep could see.
Overdue ==
  /\ \E a \in progress.lines : outcome[a] \in {"ok", "failed"}
  /\ MembersPending

SweepsHolds ==
  /\ flushes < MaxFlushes
  /\ Overdue
  /\ flushes' = flushes + 1
  /\ UNCHANGED <<member, outcome, submitted, progress, slot, disk, history>>

\* The wave has closed, or a chunk has taken everything, since the sweep.
NothingHeld(p) == ~p.known \/ p.done <= p.flushed

\* The flush-only announce: what is held by now goes out, if anything is.
FlushReports ==
  /\ flushes > 0
  /\ flushes' = flushes - 1
  /\ IF NothingHeld(progress)
     THEN UNCHANGED <<progress, waiting, turn, queue, ledger, tomb, history>>
     ELSE /\ progress' = Emptied(progress)
          /\ Route({}, progress.lines, TRUE)
  /\ UNCHANGED <<member, outcome, submitted, tab, ending, settling, retries, emptied,
                 notifying, crashes>>

-----------------------------------------------------------------------------
(***************************************************************************)
(* Turns.                                                                  *)
(***************************************************************************)
\* A turn is over and the tail of it starts the next one, q being the queue by
\* now.  The done callback of the turn comes after that.
TurnIsOver(consumed, q) ==
  /\ ending' = IF turn.kind = "chunk"
               THEN ending \cup {[chunk |-> turn.chunk, consumed |-> consumed]}
               ELSE ending
  /\ turn' = IF q = <<>> THEN NoTurn ELSE TurnOf(Head(q))
  /\ queue' = IF q = <<>> THEN <<>> ELSE Tail(q)
  /\ UNCHANGED <<wave, tab, waiting, ledger, settling, disk, told>>

UserTurnStarts ==
  /\ tab
  /\ turn = NoTurn
  /\ turn' = UserTurn
  /\ UNCHANGED <<wave, tab, waiting, queue, ledger, ending, settling, retries, emptied,
                 disk, history>>

\* The first token or tool call: from here on the chunk is not replayed.
TurnConsumes ==
  /\ turn.kind = "chunk"
  /\ ~turn.consumed
  /\ turn' = [turn EXCEPT !.consumed = TRUE]
  /\ read' = read \cup turn.chunk
  /\ UNCHANGED <<wave, tab, waiting, queue, ledger, ending, settling, retries, emptied,
                 disk, told, dropped>>

TurnCompletes ==
  /\ turn.kind = "user" \/ turn.consumed
  /\ TurnIsOver(turn.consumed, queue)
  /\ retries' = 0
  /\ emptied' = FALSE
  /\ UNCHANGED <<read, dropped>>

\* The turn came to its end with nothing to show.  The first time the chunk is
\* queued again and its consumption taken back; the second time it counts.
TurnComesUpEmpty ==
  /\ turn.kind = "chunk"
  /\ ~turn.consumed
  /\ emptied' = TRUE
  /\ IF emptied
     THEN TurnIsOver(TRUE, queue) /\ read' = read \cup turn.chunk
     ELSE TurnIsOver(FALSE, <<turn.chunk>> \o queue) /\ UNCHANGED read
  /\ UNCHANGED <<retries, dropped>>

\* A turn that failed before the model had the prompt puts it back at the head
\* of the queue, unless its budget is used up or the user has stopped it.
TurnFails ==
  /\ turn.kind = "chunk"
  /\ ~turn.consumed
  /\ \/ /\ retries < MaxRetries
        /\ retries' = retries + 1
        /\ TurnIsOver(FALSE, <<turn.chunk>> \o queue)
        /\ UNCHANGED dropped
     \/ /\ TurnIsOver(FALSE, queue)
        /\ dropped' = dropped \cup turn.chunk
        /\ UNCHANGED retries
  /\ UNCHANGED <<emptied, read>>

\* A mutant: the outcome of the turn is taken for its consumption.
ClaimsAtEnd(e) == {d \in ledger : d.chunk = e.chunk}

\* take_pending_subagent_deliveries, of a turn whose prompt was consumed.
Claims(e) == {d \in ledger : e.consumed /\ d.chunk = e.chunk}

TurnCallsBack(e) ==
  /\ e \in ending
  /\ ending' = ending \ {e}
  /\ ledger' = ledger \ Claims(e)
  /\ settling' = settling \cup UNION {d.owed : d \in Claims(e)}
  /\ UNCHANGED <<wave, tab, waiting, turn, queue, retries, emptied, disk, history>>

\* settle_queued_delivery, once the teardown gate of the member lets it.
Settles(a) ==
  /\ a \in settling
  /\ settling' = settling \ {a}
  /\ tomb' = [tomb EXCEPT ![a] = "delivered"]
  /\ UNCHANGED <<wave, tab, waiting, turn, queue, ledger, ending, retries, emptied,
                 notifying, crashes, history>>

-----------------------------------------------------------------------------
(***************************************************************************)
(* Crash and restart.                                                      *)
(***************************************************************************)
\* Everything but the folders is gone.  A live member has a folder if its run
\* had started.
Crash ==
  /\ crashes < MaxCrashes
  /\ crashes' = crashes + 1
  /\ member' = [a \in Members |-> "gone"]
  /\ \E started \in SUBSET {a \in Members : member[a] = "live"} :
       outcome' = [a \in Members |-> IF a \in started THEN "cut" ELSE outcome[a]]
  /\ submitted' = Pruned
  /\ progress' = NoWave
  /\ flushes' = 0
  /\ waiting' = {}
  /\ turn' = NoTurn
  /\ queue' = <<>>
  /\ ledger' = {}
  /\ ending' = {}
  /\ settling' = {}
  /\ retries' = 0
  /\ emptied' = FALSE
  /\ notifying' = {}
  /\ UNCHANGED <<tab, tomb, history>>

\* _reconcile_orphans takes one folder without a tombstone after the other and
\* writes the tombstone first.
Reconciles(a) ==
  /\ member[a] = "gone"
  /\ notifying = {}
  /\ outcome[a] \in {"ok", "cut"}
  /\ tomb[a] = "none"
  /\ tomb' = [tomb EXCEPT ![a] = "restart"]
  /\ notifying' = {a}
  /\ UNCHANGED <<wave, slot, crashes, history>>

\* _notify_orphan: to the tab, else with the digest to the owner.  It is taken to
\* arrive; the code only logs a notice that fails.
NotifiesOrphan(a) ==
  /\ a \in notifying
  /\ notifying' = {}
  /\ told' = told \cup {a}
  /\ UNCHANGED <<wave, slot, tomb, crashes, read, dropped>>

-----------------------------------------------------------------------------
Next ==
  \/ \E a \in Members :
       \/ Arrives(a) \/ NeverArrives(a) \/ LostReported(a) \/ SweepsStuckWave(a)
       \/ Ends(a) \/ Reports(a) \/ Settles(a)
       \/ Reconciles(a) \/ NotifiesOrphan(a)
  \/ SweepsHolds \/ FlushReports
  \/ \E c \in waiting : RouteWakes(c)
  \/ UserTurnStarts \/ TurnConsumes \/ TurnCompletes \/ TurnComesUpEmpty \/ TurnFails
  \/ \E e \in ending : TurnCallsBack(e)
  \/ Crash

Spec == Init /\ [][Next]_vars

\* Tasks that are ready run, the reaper comes round, and a turn has a ceiling.
\* Nothing makes a run end, a submission arrive or the gateway crash.
Fairness ==
  /\ \A a \in Members :
       /\ WF_vars(LostReported(a))
       /\ WF_vars(SweepsStuckWave(a))
       /\ WF_vars(Reports(a))
       /\ WF_vars(Settles(a))
       /\ WF_vars(Reconciles(a))
       /\ WF_vars(NotifiesOrphan(a))
  /\ WF_vars(SweepsHolds)
  /\ WF_vars(FlushReports)
  /\ WF_vars(\E c \in waiting : RouteWakes(c))
  /\ WF_vars(TurnCompletes \/ TurnComesUpEmpty \/ TurnFails)
  /\ WF_vars(\E e \in ending : TurnCallsBack(e))

FairSpec == Spec /\ Fairness

-----------------------------------------------------------------------------
(***************************************************************************)
(* Properties.                                                             *)
(***************************************************************************)
Stages == {"inflight", "rejected", "lost", "live", "done", "reported", "gone"}
Outcomes == {"none", "ok", "failed", "never", "cut"}
Chunks == (SUBSET Members) \ {{}}

\* Every variable keeps its kind of value, and the wave record holds as many
\* lines as it has counted since the last chunk.
TypeOK ==
  /\ member \in [Members -> Stages]
  /\ outcome \in [Members -> Outcomes]
  /\ submitted \in {Pruned} \cup 1..Total
  /\ progress \in [known: BOOLEAN, done: 0..Total, flushed: 0..Total, lines: SUBSET Members]
  /\ Cardinality(progress.lines) = progress.done - progress.flushed
  /\ flushes \in 0..MaxFlushes
  /\ tab \in BOOLEAN
  /\ waiting \subseteq Chunks
  /\ turn \in {NoTurn, UserTurn} \cup [chunk: Chunks, kind: {"chunk"}, consumed: BOOLEAN]
  /\ queue \in Seq(Chunks)
  /\ ledger \subseteq [chunk: Chunks, owed: Chunks]
  /\ ending \subseteq [chunk: Chunks, consumed: BOOLEAN]
  /\ settling \subseteq Members
  /\ retries \in 0..MaxRetries
  /\ emptied \in BOOLEAN
  /\ tomb \in [Members -> {"none", "failed", "delivered", "restart"}]
  /\ notifying \subseteq Members
  /\ crashes \in 0..MaxCrashes
  /\ read \cup told \cup dropped \subseteq Members

\* The delivered mark, which hides a folder from the next start and lets its
\* result be pruned, is only on members the parent's model has taken in,
\* whatever was queued, replayed or cut off in between.
DeliveredMeansRead ==
  tab => \A a \in Members : tomb[a] = "delivered" => a \in read

\* In how many places a result is on its way to the parent.
Places(a) ==
  Cardinality({c \in waiting : a \in c})
    + Cardinality({i \in DOMAIN queue : a \in queue[i]})
    + (IF a \in progress.lines THEN 1 ELSE 0)
    + (IF a \in turn.chunk /\ ~turn.consumed THEN 1 ELSE 0)

\* No result is lost on its way and none is sent twice: the report of a member
\* is in exactly one place, a held line, a waiting chunk, a queued one or the
\* turn, until it is read or given up, and in none from then on.  The flush of
\* a closing wave, of a full chunk and of the deadline never meet.
OnePlace ==
  tab => \A a \in Members :
    member[a] = "reported" => Places(a) = (IF a \in read \cup dropped THEN 0 ELSE 1)

\* A completed result is delivered, read and marked so, although its siblings
\* may never end, a submission may be lost and the gateway may crash; but for
\* one whose turn failed for good, which the next start announces again.
ResultsDelivered ==
  \A a \in Members :
    tab /\ outcome[a] = "ok" ~> tomb[a] = "delivered" \/ a \in told \cup dropped

\* Once no member is on its way or running the records of the wave go, in the
\* manager and in the gateway, whatever submissions were lost.
WavesClose ==
  (<>[](\A a \in Members : member[a] \notin {"inflight", "live"}))
    => <>[](submitted = Pruned /\ ~progress.known)
=============================================================================
