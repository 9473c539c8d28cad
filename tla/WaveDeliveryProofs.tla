------------------------- MODULE WaveDeliveryProofs -------------------------
(***************************************************************************)
(* Theorems about the delivery of a wave, for any wave, any chunk size and *)
(* any number of retries, sweeps and crashes: that a delivered mark is     *)
(* only written for a result the parent has read (DeliveryInv), the types  *)
(* with the counts of the wave (TypeInv), and that a reported result is in *)
(* exactly one place until it is read or given up (PlaceInv).              *)
(***************************************************************************)
EXTENDS WaveDelivery, FiniteSetTheorems, SequenceTheorems, TLAPS

\* DeliveredMeansRead is not inductive: the mark is written long after the turn
\* has read the chunk, by way of the consumption cell of the turn, of the done
\* callback that has yet to come, and of the writer.  At each of them the claim
\* is that what is there to be marked has been read.
DebtsAreRead ==
  /\ turn.consumed => turn.chunk \subseteq read
  /\ \A e \in ending : e.consumed => e.chunk \subseteq read
  /\ \A d \in ledger : d.owed \subseteq d.chunk
  /\ settling \subseteq read

DeliveryInv == tab \in BOOLEAN /\ DebtsAreRead /\ DeliveredMeansRead

-----------------------------------------------------------------------------
\* What a chunk is noted to owe are members of it.
LEMMA NotedOwesItsOwn ==
  ASSUME NEW c, NEW d \in Noted(c)
  PROVE  d.owed \subseteq d.chunk
BY DEF Noted, Ok

\* A chunk that is injected starts unread, and owes only its own members.
LEMMA InjectKeeps ==
  ASSUME NEW c, DebtsAreRead, Inject(c), UNCHANGED <<ending, settling, read>>
  PROVE  DebtsAreRead'
<1>1. turn'.consumed => turn'.chunk \subseteq read'
  BY DEF DebtsAreRead, Inject, TurnOf
<1>2. \A d \in ledger' : d.owed \subseteq d.chunk
  BY NotedOwesItsOwn DEF DebtsAreRead, Inject
<1> QED BY <1>1, <1>2 DEF DebtsAreRead

\* Wherever a chunk is routed, a mark is written at once only with no tab.
LEMMA RouteKeeps ==
  ASSUME NEW own, NEW c, NEW settles, DeliveryInv, Route(own, c, settles),
         UNCHANGED <<tab, ending, settling>>
  PROVE  DeliveryInv'
<1>1. CASE ~tab
  BY <1>1 DEF DeliveryInv, DebtsAreRead, DeliveredMeansRead, Route, Notify
<1>2. CASE tab /\ turn = NoTurn
  <2>1. Inject(c) /\ UNCHANGED <<tomb, read>>
    BY <1>2 DEF Route, history
  <2> QED BY <2>1, InjectKeeps DEF DeliveryInv, DeliveredMeansRead
<1>3. CASE tab /\ turn # NoTurn
  BY <1>3 DEF DeliveryInv, DebtsAreRead, DeliveredMeansRead, Route, history
<1> QED BY <1>1, <1>2, <1>3 DEF DeliveryInv

\* The end of a turn hands its consumption to the callback and starts the next
\* turn unread.
LEMMA TurnIsOverKeeps ==
  ASSUME NEW consumed, NEW q, DeliveryInv, TurnIsOver(consumed, q),
         turn.kind = "chunk" /\ consumed => turn.chunk \subseteq read',
         read \subseteq read'
  PROVE  DeliveryInv'
<1>1. turn'.consumed => turn'.chunk \subseteq read'
  BY DEF TurnIsOver, TurnOf, NoTurn
<1>2. \A e \in ending' : e.consumed => e.chunk \subseteq read'
  BY DEF TurnIsOver, DeliveryInv, DebtsAreRead
<1>3. UNCHANGED <<tab, ledger, settling, tomb>>
  BY DEF TurnIsOver, disk
<1> QED BY <1>1, <1>2, <1>3 DEF DeliveryInv, DebtsAreRead, DeliveredMeansRead

LEMMA DeliveryInit == Init => DeliveryInv
BY DEF Init, DeliveryInv, DebtsAreRead, DeliveredMeansRead, NoTurn

-----------------------------------------------------------------------------
LEMMA DeliveryStep == DeliveryInv /\ [Next]_vars => DeliveryInv'
<1> SUFFICES ASSUME DeliveryInv, [Next]_vars PROVE DeliveryInv'
  OBVIOUS
<1> USE DEF wave, slot, disk, history
<1>1. ASSUME NEW a \in Members, Arrives(a) PROVE DeliveryInv'
  BY <1>1 DEF Arrives, DeliveryInv, DebtsAreRead, DeliveredMeansRead
<1>2. ASSUME NEW a \in Members, NeverArrives(a) PROVE DeliveryInv'
  BY <1>2 DEF NeverArrives, DeliveryInv, DebtsAreRead, DeliveredMeansRead
<1>3. ASSUME NEW a \in Members, LostReported(a) PROVE DeliveryInv'
  BY <1>3 DEF LostReported, DeliveryInv, DebtsAreRead, DeliveredMeansRead
<1>4. ASSUME NEW a \in Members, SweepsStuckWave(a) PROVE DeliveryInv'
  BY <1>4 DEF SweepsStuckWave, DeliveryInv, DebtsAreRead, DeliveredMeansRead
<1>5. ASSUME NEW a \in Members, Ends(a) PROVE DeliveryInv'
  <2>1. \A b \in Members : tomb'[b] = "delivered" => tomb[b] = "delivered"
    BY <1>5 DEF Ends
  <2> QED BY <1>5, <2>1 DEF Ends, DeliveryInv, DebtsAreRead, DeliveredMeansRead
<1>6. ASSUME NEW a \in Members, Reports(a) PROVE DeliveryInv'
  <2>1. UNCHANGED <<tab, ending, settling>>
    BY <1>6 DEF Reports
  <2>2. \/ \E c, s : Route({a}, c, s)
        \/ UNCHANGED <<turn, ledger, tomb, read>>
    BY <1>6 DEF Reports
  <2>3. CASE \E c, s : Route({a}, c, s)
    BY <2>1, <2>3, RouteKeeps
  <2>4. CASE UNCHANGED <<turn, ledger, tomb, read>>
    BY <2>1, <2>4 DEF DeliveryInv, DebtsAreRead, DeliveredMeansRead
  <2> QED BY <2>2, <2>3, <2>4
<1>7. ASSUME FlushReports PROVE DeliveryInv'
  <2>1. UNCHANGED <<tab, ending, settling>>
    BY <1>7 DEF FlushReports
  <2>2. \/ Route({}, progress.lines, TRUE)
        \/ UNCHANGED <<turn, ledger, tomb, read>>
    BY <1>7 DEF FlushReports
  <2>3. CASE Route({}, progress.lines, TRUE)
    BY <2>1, <2>3, RouteKeeps
  <2>4. CASE UNCHANGED <<turn, ledger, tomb, read>>
    BY <2>1, <2>4 DEF DeliveryInv, DebtsAreRead, DeliveredMeansRead
  <2> QED BY <2>2, <2>3, <2>4
<1>8. CASE SweepsHolds
  BY <1>8 DEF SweepsHolds, DeliveryInv, DebtsAreRead, DeliveredMeansRead
<1>9. ASSUME NEW c \in waiting, RouteWakes(c) PROVE DeliveryInv'
  <2>1. Inject(c) /\ UNCHANGED <<tab, ending, settling, tomb, read>>
    BY <1>9 DEF RouteWakes
  <2> QED BY <2>1, InjectKeeps DEF DeliveryInv, DeliveredMeansRead
<1>10. CASE UserTurnStarts
  BY <1>10 DEF UserTurnStarts, UserTurn, NoTurn, DeliveryInv, DebtsAreRead, DeliveredMeansRead
<1>11. CASE TurnConsumes
  <2>1. turn'.chunk = turn.chunk
    BY <1>11 DEF TurnConsumes
  <2> QED BY <1>11, <2>1 DEF TurnConsumes, DeliveryInv, DebtsAreRead, DeliveredMeansRead
<1>12. CASE TurnCompletes
  BY <1>12, TurnIsOverKeeps DEF TurnCompletes, DeliveryInv, DebtsAreRead
<1>13. CASE TurnComesUpEmpty
  BY <1>13, TurnIsOverKeeps DEF TurnComesUpEmpty
<1>14. CASE TurnFails
  BY <1>14, TurnIsOverKeeps DEF TurnFails
<1>15. ASSUME NEW e \in ending, TurnCallsBack(e) PROVE DeliveryInv'
  <2>1. UNION {d.owed : d \in Claims(e)} \subseteq read
    BY <1>15 DEF Claims, DeliveryInv, DebtsAreRead
  <2> QED BY <1>15, <2>1 DEF TurnCallsBack, DeliveryInv, DebtsAreRead, DeliveredMeansRead
<1>16. ASSUME NEW a \in Members, Settles(a) PROVE DeliveryInv'
  <2>1. \A b \in Members : tomb'[b] = "delivered" => tomb[b] = "delivered" \/ b = a
    BY <1>16 DEF Settles
  <2> QED BY <1>16, <2>1 DEF Settles, DeliveryInv, DebtsAreRead, DeliveredMeansRead
<1>17. CASE Crash
  BY <1>17 DEF Crash, NoTurn, DeliveryInv, DebtsAreRead, DeliveredMeansRead
<1>18. ASSUME NEW a \in Members, Reconciles(a) PROVE DeliveryInv'
  <2>1. \A b \in Members : tomb'[b] = "delivered" => tomb[b] = "delivered"
    BY <1>18 DEF Reconciles
  <2> QED BY <1>18, <2>1 DEF Reconciles, DeliveryInv, DebtsAreRead, DeliveredMeansRead
<1>19. ASSUME NEW a \in Members, NotifiesOrphan(a) PROVE DeliveryInv'
  BY <1>19 DEF NotifiesOrphan, DeliveryInv, DebtsAreRead, DeliveredMeansRead
<1>20. CASE UNCHANGED vars
  BY <1>20 DEF vars, DeliveryInv, DebtsAreRead, DeliveredMeansRead
<1> QED
  BY <1>1, <1>2, <1>3, <1>4, <1>5, <1>6, <1>7, <1>8, <1>9, <1>10, <1>11, <1>12, <1>13,
     <1>14, <1>15, <1>16, <1>17, <1>18, <1>19, <1>20 DEF Next

\* The delivered mark is only on results the parent has read.  It holds of the
\* code as it is because the debt of a chunk is claimed by the turn that consumed
\* it and by no other, and because an orphan gets a mark of another kind.
THEOREM DeliveredMarksAreRead == Spec => []DeliveredMeansRead
<1>1. Init => DeliveryInv
  BY DeliveryInit
<1>2. DeliveryInv /\ [Next]_vars => DeliveryInv'
  BY DeliveryStep
<1>3. DeliveryInv => DeliveredMeansRead
  BY DEF DeliveryInv
<1> QED BY <1>1, <1>2, <1>3, PTL DEF Spec

-----------------------------------------------------------------------------
(***************************************************************************)
(* Types.  That the counts of the wave stay within its size is not         *)
(* inductive: a count goes up with a member that had not been counted.     *)
(***************************************************************************)
Reported == {a \in Members : member[a] = "reported"}
Counted == {a \in Members : member[a] \in {"live", "done", "reported"}}

\* The records of the wave, the gateway's and the manager's, are about members
\* that were reported and that have been submitted.
CountInv ==
  /\ progress.lines \subseteq Reported
  /\ progress.done <= Cardinality(Reported)
  /\ submitted <= Cardinality(Counted)

Records == [known: BOOLEAN, done: 0..Total, flushed: 0..Total, lines: SUBSET Members]
Turns == {NoTurn, UserTurn} \cup [chunk: Chunks, kind: {"chunk"}, consumed: BOOLEAN]
Marks == {"none", "failed", "delivered", "restart"}

WaveOK ==
  /\ member \in [Members -> Stages]
  /\ outcome \in [Members -> Outcomes]
  /\ submitted \in {Pruned} \cup 1..Total
  /\ progress \in Records
  /\ Cardinality(progress.lines) = progress.done - progress.flushed
  /\ flushes \in 0..MaxFlushes
  /\ CountInv

SlotOK ==
  /\ tab \in BOOLEAN
  /\ waiting \subseteq Chunks
  /\ turn \in Turns
  /\ queue \in Seq(Chunks)
  /\ ledger \subseteq [chunk: Chunks, owed: Chunks]
  /\ ending \subseteq [chunk: Chunks, consumed: BOOLEAN]
  /\ settling \subseteq Members
  /\ retries \in 0..MaxRetries
  /\ emptied \in BOOLEAN

DiskOK ==
  /\ tomb \in [Members -> Marks]
  /\ notifying \subseteq Members
  /\ crashes \in 0..MaxCrashes
  /\ read \cup told \cup dropped \subseteq Members

TypeInv == WaveOK /\ SlotOK /\ DiskOK

-----------------------------------------------------------------------------
\* Sets of members are finite and have natural sizes, those of the wave at most.
LEMMA MembersFinite ==
  ASSUME NEW S, S \subseteq Members
  PROVE  IsFiniteSet(S) /\ Cardinality(S) \in Nat /\ Cardinality(S) <= Total /\ Total \in Nat
BY FS_Subset, FS_CardinalityType, WaveAssumption DEF Total

\* A set that gains a member it did not have.
LEMMA OneMoreMember ==
  ASSUME NEW S, S \subseteq Members, NEW a \in Members, a \notin S
  PROVE  Cardinality(S \cup {a}) = Cardinality(S) + 1
BY MembersFinite, FS_AddElement

\* A turn is none, the user's, or of a chunk.
LEMMA TurnKinds ==
  ASSUME turn \in Turns
  PROVE  /\ turn.kind \in {"none", "user", "chunk"}
         /\ turn.kind = "chunk" => turn.chunk \in Chunks
         /\ turn.kind # "chunk" => turn.chunk = {} /\ ~turn.consumed
         /\ turn.kind = "none" <=> turn = NoTurn
         /\ turn.consumed \in BOOLEAN
         /\ turn.chunk \subseteq Members
<1>1. CASE turn = NoTurn
  BY <1>1 DEF NoTurn
<1>2. CASE turn = UserTurn
  <2>1. turn.chunk = {} /\ turn.kind = "user" /\ turn.consumed = FALSE
    BY <1>2 DEF UserTurn, NoTurn
  <2>2. turn # NoTurn
    BY <2>1 DEF NoTurn
  <2> QED BY <2>1, <2>2
<1>3. CASE turn \in [chunk: Chunks, kind: {"chunk"}, consumed: BOOLEAN]
  BY <1>3 DEF NoTurn, Chunks
<1> QED BY <1>1, <1>2, <1>3 DEF Turns

\* A chunk that starts a turn.
LEMMA TurnOfChunk ==
  ASSUME NEW c \in Chunks
  PROVE  /\ TurnOf(c) \in Turns
         /\ TurnOf(c).chunk = c /\ TurnOf(c).kind = "chunk" /\ TurnOf(c).consumed = FALSE
BY DEF Turns, TurnOf

\* A chunk owes members of it, if it owes anything.
LEMMA NotedTypes ==
  ASSUME NEW c \in Chunks
  PROVE  Noted(c) \subseteq [chunk: Chunks, owed: Chunks]
BY DEF Noted, Ok, Chunks

LEMMA InjectTypes ==
  ASSUME SlotOK, NEW c \in Chunks, Inject(c),
         UNCHANGED <<tab, ending, settling, retries, emptied>>, waiting' \subseteq waiting
  PROVE  SlotOK'
<1>1. ledger' \subseteq [chunk: Chunks, owed: Chunks]
  BY NotedTypes DEF Inject, SlotOK
<1>2. turn' \in Turns
  BY TurnOfChunk DEF Inject, SlotOK
<1>3. queue' \in Seq(Chunks)
  BY DEF Inject, SlotOK
<1> QED BY <1>1, <1>2, <1>3 DEF SlotOK

LEMMA RouteTypes ==
  ASSUME SlotOK, DiskOK, NEW own \in SUBSET Members, NEW c \in Chunks, NEW settles,
         Route(own, c, settles),
         UNCHANGED <<tab, ending, settling, retries, emptied, notifying, crashes>>
  PROVE  SlotOK' /\ DiskOK'
<1>1. CASE ~tab
  <2>1. tomb' \in [Members -> Marks]
    BY <1>1 DEF Route, Notify, DiskOK, Marks
  <2> QED BY <1>1, <2>1 DEF Route, Notify, SlotOK, DiskOK
<1>2. CASE tab /\ turn = NoTurn
  <2>1. SlotOK'
    BY <1>2, InjectTypes DEF Route
  <2> QED BY <1>2, <2>1 DEF Route, DiskOK, history
<1>3. CASE tab /\ turn # NoTurn
  BY <1>3 DEF Route, SlotOK, DiskOK, history
<1> QED BY <1>1, <1>2, <1>3 DEF SlotOK

\* The queue a turn leaves starts the next one.
LEMMA TurnIsOverTypes ==
  ASSUME SlotOK, NEW b \in BOOLEAN, NEW q \in Seq(Chunks), TurnIsOver(b, q),
         retries' \in 0..MaxRetries, emptied' \in BOOLEAN
  PROVE  SlotOK'
<1>1. ending' \subseteq [chunk: Chunks, consumed: BOOLEAN]
  BY TurnKinds DEF TurnIsOver, SlotOK
<1>2. CASE q = <<>>
  <2>1. turn' = NoTurn /\ queue' = <<>>
    BY <1>2 DEF TurnIsOver
  <2>2. turn' \in Turns /\ queue' \in Seq(Chunks)
    BY <2>1 DEF Turns
  <2> QED BY <1>1, <2>2 DEF TurnIsOver, SlotOK
<1>3. CASE q # <<>>
  <2>1. turn' = TurnOf(Head(q)) /\ queue' = Tail(q)
    BY <1>3 DEF TurnIsOver
  <2>2. Head(q) \in Chunks /\ Tail(q) \in Seq(Chunks)
    BY <1>3, HeadTailProperties
  <2> QED BY <1>1, <2>1, <2>2, TurnOfChunk DEF TurnIsOver, SlotOK
<1> QED BY <1>2, <1>3

-----------------------------------------------------------------------------
\* A submission that has not been counted is counted.
LEMMA CountsOne ==
  ASSUME WaveOK, NEW a \in Members, a \notin Counted, NEW s \in {"live", "done"},
         NEW o \in Outcomes, submitted' = OneMore(submitted),
         member' = [member EXCEPT ![a] = s], outcome' = [outcome EXCEPT ![a] = o],
         UNCHANGED <<progress, flushes>>
  PROVE  WaveOK'
<1>1. member' \in [Members -> Stages] /\ outcome' \in [Members -> Outcomes]
  BY DEF WaveOK, Stages
<1>2. Counted' = Counted \cup {a} /\ Counted' \subseteq Members
  BY DEF Counted, WaveOK
<1>3. Reported' = Reported
  BY DEF Reported, Counted, WaveOK
<1>4. Cardinality(Counted') = Cardinality(Counted) + 1 /\ Cardinality(Counted) \in Nat
      /\ Cardinality(Counted') <= Total /\ Total \in Nat
  BY <1>2, OneMoreMember, MembersFinite DEF Counted
<1>5. submitted' \in 1..Total /\ submitted' <= Cardinality(Counted')
  BY <1>4 DEF WaveOK, CountInv, OneMore, Pruned
<1> QED BY <1>1, <1>3, <1>5 DEF WaveOK, CountInv

\* A member that moves on without being counted or reported.
LEMMA MovesOn ==
  ASSUME WaveOK, member' \in [Members -> Stages], outcome' \in [Members -> Outcomes],
         Counted' = Counted, Reported' = Reported,
         UNCHANGED <<submitted, progress, flushes>>
  PROVE  WaveOK'
BY DEF WaveOK, CountInv

LEMMA WaveSame == ASSUME WaveOK, UNCHANGED wave PROVE WaveOK'
BY MovesOn DEF wave, Counted, Reported, WaveOK

LEMMA SlotSame == ASSUME SlotOK, UNCHANGED slot PROVE SlotOK'
BY DEF slot, SlotOK

LEMMA DiskSame == ASSUME DiskOK, UNCHANGED <<disk, history>> PROVE DiskOK'
BY DEF disk, history, DiskOK

\* The record of a wave no chunk has been composed of, and of one that just was.
LEMMA EmptyRecords ==
  /\ NoWave \in Records /\ FreshWave \in Records
  /\ \A p \in {NoWave, FreshWave} : p.done = 0 /\ p.flushed = 0 /\ p.lines = {}
  /\ \A p \in Records :
       /\ Emptied(p) \in Records
       /\ Emptied(p).done = p.done /\ Emptied(p).flushed = p.done /\ Emptied(p).lines = {}
<1>1. Total \in Nat /\ Cardinality({}) = 0
  BY MembersFinite, FS_EmptySet
<1>2. NoWave \in Records /\ FreshWave \in Records
  <2>1. 0 \in 0..Total /\ {} \in SUBSET Members
    BY <1>1
  <2>2. NoWave \in Records
    BY <2>1 DEF NoWave, Records
  <2>3. FreshWave \in Records
    BY <2>2 DEF FreshWave, Records
  <2> QED BY <2>2, <2>3
<1>3. \A p \in {NoWave, FreshWave} : p.done = 0 /\ p.flushed = 0 /\ p.lines = {}
  BY DEF NoWave, FreshWave
<1>4. ASSUME NEW p \in Records
      PROVE  /\ Emptied(p) \in Records
             /\ Emptied(p).done = p.done /\ Emptied(p).flushed = p.done /\ Emptied(p).lines = {}
  <2>1. /\ p = [known |-> p.known, done |-> p.done, flushed |-> p.flushed, lines |-> p.lines]
        /\ p.done \in 0..Total /\ {} \in SUBSET Members
    BY DEF Records
  <2>2. Emptied(p) \in Records
    BY <2>1 DEF Emptied, Records
  <2>3. Emptied(p).done = p.done /\ Emptied(p).flushed = p.done /\ Emptied(p).lines = {}
    BY <2>1 DEF Emptied
  <2> QED BY <2>2, <2>3
<1> QED BY <1>2, <1>3, <1>4

\* The report of a member adds its line, to the open record or to a fresh one,
\* and leaves a chunk to be composed of at least that line.
LEMMA LineAdded ==
  ASSUME WaveOK, NEW a \in Members, member[a] = "done",
         member' = [member EXCEPT ![a] = "reported"]
  PROVE  LET p0 == IF progress.known THEN progress ELSE FreshWave
             p == [p0 EXCEPT !.done = @ + 1, !.lines = @ \cup {a}]
         IN /\ p \in Records
            /\ Cardinality(p.lines) = p.done - p.flushed
            /\ p.lines \subseteq Reported'
            /\ p.done <= Cardinality(Reported')
            /\ p.lines \in Chunks
<1> DEFINE p0 == IF progress.known THEN progress ELSE FreshWave
           p == [p0 EXCEPT !.done = @ + 1, !.lines = @ \cup {a}]
<1>1. Reported' = Reported \cup {a} /\ a \notin Reported /\ Reported' \subseteq Members
  BY DEF Reported, WaveOK
<1>2. /\ Cardinality(Reported') = Cardinality(Reported) + 1
      /\ Cardinality(Reported) \in Nat /\ Cardinality(Reported') <= Total /\ Total \in Nat
  BY <1>1, OneMoreMember, MembersFinite DEF Reported
<1>3. /\ p0 \in Records /\ p0.lines \subseteq Reported /\ p0.done <= Cardinality(Reported)
      /\ Cardinality(p0.lines) = p0.done - p0.flushed
  <2>1. Cardinality({}) = 0
    BY FS_EmptySet
  <2>2. CASE progress.known
    BY <2>2 DEF WaveOK, CountInv
  <2>3. CASE ~progress.known
    <3>1. p0 = FreshWave
      BY <2>3
    <3>2. 0 <= Cardinality(Reported) /\ 0 - 0 = 0
      BY <1>2
    <3>3. FreshWave.done = 0 /\ FreshWave.flushed = 0 /\ FreshWave.lines = {}
      BY EmptyRecords
    <3> HIDE DEF p0
    <3> QED BY <3>1, <3>2, <3>3, <2>1, EmptyRecords
  <2> QED BY <2>2, <2>3
<1>4. p0.lines \subseteq Members /\ a \notin p0.lines
  BY <1>1, <1>3
<1>5. Cardinality(p0.lines \cup {a}) = Cardinality(p0.lines) + 1
  BY <1>4, OneMoreMember
<1> HIDE DEF p0
<1>6. /\ p.done = p0.done + 1 /\ p.flushed = p0.flushed /\ p.lines = p0.lines \cup {a}
      /\ p \in [known: BOOLEAN, done: {p0.done + 1}, flushed: 0..Total, lines: {p0.lines \cup {a}}]
  BY <1>3 DEF Records
<1>7. p0.done \in Nat /\ p0.flushed \in Nat /\ p0.done + 1 \in 0..Total
  BY <1>2, <1>3 DEF Records
<1>8. p \in Records
  BY <1>4, <1>6, <1>7 DEF Records
<1>9. Cardinality(p.lines) = p.done - p.flushed
  BY <1>3, <1>5, <1>6, <1>7
<1>10. p.lines \subseteq Reported' /\ p.done <= Cardinality(Reported')
  BY <1>1, <1>2, <1>3, <1>6, <1>7
<1>11. p.lines \in Chunks
  BY <1>4, <1>6 DEF Chunks
<1> QED BY <1>8, <1>9, <1>10, <1>11 DEF p0

LEMMA ReportsTypes ==
  ASSUME TypeInv, NEW a \in Members, Reports(a)
  PROVE  TypeInv'
<1> DEFINE p0 == IF progress.known THEN progress ELSE FreshWave
           p == [p0 EXCEPT !.done = @ + 1, !.lines = @ \cup {a}]
<1>1. /\ p \in Records /\ p.lines \in Chunks
      /\ Cardinality(p.lines) = p.done - p.flushed
      /\ p.lines \subseteq Reported' /\ p.done <= Cardinality(Reported')
  BY LineAdded DEF Reports, TypeInv
<1>2. /\ member' = [member EXCEPT ![a] = "reported"] /\ member[a] = "done"
      /\ UNCHANGED <<outcome, flushes, tab, ending, settling, retries, emptied,
                     notifying, crashes>>
  BY DEF Reports
<1>3. submitted' \in {Pruned, submitted}
  BY DEF Reports, Finalized
<1>4. \/ /\ progress' \in {NoWave, Emptied(p)}
         /\ \E b : Route({a}, p.lines, b)
      \/ /\ progress' = p
         /\ UNCHANGED <<waiting, turn, queue, ledger, tomb, history>>
  BY DEF Reports
<1> HIDE DEF p, p0
<1>5. Counted' = Counted /\ Cardinality(Counted) \in Nat
  BY <1>2, MembersFinite DEF Counted, TypeInv, WaveOK
<1>6. Cardinality({}) = 0 /\ Cardinality(Reported') \in Nat
  BY FS_EmptySet, MembersFinite, <1>2 DEF Reported
<1>7. progress' \in Records /\ Cardinality(progress'.lines) = progress'.done - progress'.flushed
      /\ progress'.lines \subseteq Reported' /\ progress'.done <= Cardinality(Reported')
  <2>1. CASE progress' = NoWave
    BY <2>1, <1>6, EmptyRecords
  <2>2. CASE progress' = Emptied(p)
    <3>1. p.done - p.done = 0
      BY <1>1 DEF Records
    <3> QED BY <2>2, <3>1, <1>1, <1>6, EmptyRecords
  <2>3. CASE progress' = p
    BY <2>3, <1>1
  <2> QED BY <2>1, <2>2, <2>3, <1>4
<1>8. WaveOK'
  <2>1. member' \in [Members -> Stages]
    BY <1>2 DEF TypeInv, WaveOK, Stages
  <2>2. submitted' <= Cardinality(Counted') /\ submitted' \in {Pruned} \cup 1..Total
    BY <1>3, <1>5 DEF TypeInv, WaveOK, CountInv, Pruned
  <2> QED BY <1>2, <1>7, <2>1, <2>2 DEF TypeInv, WaveOK, CountInv
<1>9. SlotOK' /\ DiskOK'
  <2>1. ASSUME NEW b, Route({a}, p.lines, b) PROVE SlotOK' /\ DiskOK'
    BY <2>1, <1>1, <1>2, RouteTypes DEF TypeInv
  <2>2. CASE UNCHANGED <<waiting, turn, queue, ledger, tomb, history>>
    BY <2>2, <1>2 DEF TypeInv, SlotOK, DiskOK, history
  <2> QED BY <2>1, <2>2, <1>4
<1> QED BY <1>8, <1>9 DEF TypeInv

LEMMA FlushTypes ==
  ASSUME TypeInv, FlushReports
  PROVE  TypeInv'
<1>1. /\ UNCHANGED <<member, outcome, submitted, tab, ending, settling, retries, emptied,
                     notifying, crashes>>
      /\ flushes' \in 0..MaxFlushes
  BY WaveAssumption DEF FlushReports, TypeInv, WaveOK
<1>2. Counted' = Counted /\ Reported' = Reported
  BY <1>1 DEF Counted, Reported
<1>3. CASE NothingHeld(progress)
  <2>1. UNCHANGED <<progress, waiting, turn, queue, ledger, tomb, history>>
    BY <1>3 DEF FlushReports
  <2> QED BY <1>1, <1>2, <2>1 DEF TypeInv, WaveOK, CountInv, SlotOK, DiskOK, history
<1>4. CASE ~NothingHeld(progress)
  <2>1. progress' = Emptied(progress) /\ Route({}, progress.lines, TRUE)
    BY <1>4 DEF FlushReports
  <2>2. progress.lines \in Chunks
    <3>1. progress.done \in Nat /\ progress.flushed \in Nat /\ progress.done > progress.flushed
          /\ progress.lines \subseteq Members
      BY <1>4 DEF NothingHeld, TypeInv, WaveOK, Records
    <3>2. Cardinality({}) = 0
      BY FS_EmptySet
    <3>3. progress.lines # {}
      <4>1. progress.done - progress.flushed # 0
        BY <3>1
      <4> QED BY <4>1, <3>2 DEF TypeInv, WaveOK
    <3> QED BY <3>1, <3>3 DEF Chunks
  <2>3. SlotOK' /\ DiskOK'
    BY <1>1, <2>1, <2>2, RouteTypes DEF TypeInv
  <2>4. /\ progress' \in Records /\ progress'.done = progress.done
        /\ progress'.flushed = progress.done /\ progress'.lines = {}
    BY <2>1, EmptyRecords DEF TypeInv, WaveOK
  <2>5. Cardinality({}) = 0 /\ progress.done - progress.done = 0
    BY FS_EmptySet DEF TypeInv, WaveOK, Records
  <2>6. WaveOK'
    BY <1>1, <1>2, <2>4, <2>5 DEF TypeInv, WaveOK, CountInv
  <2> QED BY <2>3, <2>6 DEF TypeInv
<1> QED BY <1>3, <1>4

LEMMA TypeInvInit == Init => TypeInv
<1> SUFFICES ASSUME Init PROVE TypeInv
  OBVIOUS
<1>1. Counted = {} /\ Cardinality({}) = 0 /\ Total \in Nat
  BY FS_EmptySet, MembersFinite DEF Init, Counted
<1>2. Reported = {}
  BY DEF Init, Reported
<1>3. NoWave \in Records /\ NoWave.done = 0 /\ NoWave.flushed = 0 /\ NoWave.lines = {}
  BY EmptyRecords
<1>4. WaveOK
  BY <1>1, <1>2, <1>3, WaveAssumption DEF Init, WaveOK, CountInv, Stages, Outcomes, Pruned
<1>5. SlotOK
  <2>1. MaxRetries \in Nat /\ <<>> \in Seq(Chunks) /\ NoTurn \in Turns
    BY WaveAssumption DEF Turns
  <2>2. retries \in 0..MaxRetries
    BY <2>1 DEF Init
  <2>3. turn \in Turns /\ queue \in Seq(Chunks)
    BY <2>1 DEF Init
  <2>4. waiting \subseteq Chunks /\ tab \in BOOLEAN /\ emptied \in BOOLEAN /\ settling \subseteq Members
    BY DEF Init
  <2>5. ledger \subseteq [chunk: Chunks, owed: Chunks]
        /\ ending \subseteq [chunk: Chunks, consumed: BOOLEAN]
    BY DEF Init
  <2> QED BY <2>2, <2>3, <2>4, <2>5 DEF SlotOK
<1>6. DiskOK
  BY WaveAssumption DEF Init, DiskOK, Marks
<1> QED BY <1>4, <1>5, <1>6 DEF TypeInv

\* The turns: each ends with what is left of the queue, or with the chunk put
\* back at its head.
LEMMA TurnTypes ==
  ASSUME TypeInv, UserTurnStarts \/ TurnConsumes \/ TurnCompletes \/ TurnComesUpEmpty \/ TurnFails
  PROVE  TypeInv'
<1>0. /\ turn.kind \in {"none", "user", "chunk"} /\ turn.consumed \in BOOLEAN
      /\ turn.chunk \subseteq Members
      /\ turn.kind = "chunk" => turn.chunk \in Chunks
  BY TurnKinds DEF TypeInv, SlotOK
<1>1. turn.kind = "chunk" => <<turn.chunk>> \o queue \in Seq(Chunks)
  BY <1>0, ConcatProperties DEF TypeInv, SlotOK
<1>2. CASE UserTurnStarts
  <2>1. SlotOK'
    BY <1>2 DEF UserTurnStarts, TypeInv, SlotOK, Turns
  <2> QED BY <1>2, <2>1, WaveSame, DiskSame DEF UserTurnStarts, TypeInv
<1>3. CASE TurnConsumes
  <2>1. turn \in [chunk: Chunks, kind: {"chunk"}, consumed: BOOLEAN]
    BY <1>3 DEF TurnConsumes, TypeInv, SlotOK, Turns, NoTurn, UserTurn
  <2>2. turn' \in Turns
    BY <1>3, <2>1 DEF TurnConsumes, Turns
  <2>3. SlotOK'
    BY <1>3, <2>2 DEF TurnConsumes, TypeInv, SlotOK
  <2>4. DiskOK'
    BY <1>0, <1>3 DEF TurnConsumes, TypeInv, DiskOK, disk
  <2> QED BY <1>3, <2>3, <2>4, WaveSame DEF TurnConsumes, TypeInv
<1>4. ASSUME NEW b \in BOOLEAN, NEW q \in Seq(Chunks), TurnIsOver(b, q),
             retries' \in 0..MaxRetries, emptied' \in BOOLEAN,
             read' \subseteq read \cup turn.chunk, dropped' \subseteq dropped \cup turn.chunk
      PROVE  TypeInv'
  <2>1. SlotOK'
    BY <1>4, TurnIsOverTypes DEF TypeInv
  <2>2. DiskOK'
    BY <1>0, <1>4 DEF TurnIsOver, TypeInv, DiskOK, disk
  <2> QED BY <1>4, <2>1, <2>2, WaveSame DEF TurnIsOver, TypeInv
<1>5. queue \in Seq(Chunks) /\ retries \in 0..MaxRetries /\ emptied \in BOOLEAN
      /\ MaxRetries \in Nat
  BY WaveAssumption DEF TypeInv, SlotOK
<1>6. CASE TurnCompletes
  <2>1. TurnIsOver(turn.consumed, queue) /\ retries' = 0 /\ emptied' = FALSE
        /\ UNCHANGED <<read, dropped>>
    BY <1>6 DEF TurnCompletes
  <2>2. retries' \in 0..MaxRetries
    BY <1>5, <2>1
  <2> QED BY <1>0, <1>4, <1>5, <2>1, <2>2
<1>7. CASE TurnComesUpEmpty
  BY <1>0, <1>1, <1>4, <1>5, <1>7 DEF TurnComesUpEmpty
<1>8. CASE TurnFails
  <2>1. CASE /\ retries < MaxRetries /\ retries' = retries + 1
             /\ TurnIsOver(FALSE, <<turn.chunk>> \o queue) /\ UNCHANGED dropped
    <3>1. retries' \in 0..MaxRetries
      BY <1>5, <2>1
    <3> QED BY <1>0, <1>1, <1>4, <1>5, <1>8, <2>1, <3>1 DEF TurnFails
  <2>2. CASE /\ TurnIsOver(FALSE, queue) /\ dropped' = dropped \cup turn.chunk
             /\ UNCHANGED retries
    BY <1>0, <1>4, <1>5, <1>8, <2>2 DEF TurnFails
  <2> QED BY <1>8, <2>1, <2>2 DEF TurnFails
<1> QED BY <1>2, <1>3, <1>6, <1>7, <1>8

LEMMA TypeInvStep == TypeInv /\ [Next]_vars => TypeInv'
<1> SUFFICES ASSUME TypeInv, [Next]_vars PROVE TypeInv'
  OBVIOUS
<1>0. WaveOK /\ SlotOK /\ DiskOK
  BY DEF TypeInv
<1>1. ASSUME NEW a \in Members, Arrives(a) \/ LostReported(a) \/ SweepsStuckWave(a)
      PROVE  TypeInv'
  <2>1. a \notin Counted
    BY <1>1 DEF Arrives, LostReported, SweepsStuckWave, Counted
  <2>2. \E s \in {"live", "done"}, o \in Outcomes :
          member' = [member EXCEPT ![a] = s] /\ outcome' = [outcome EXCEPT ![a] = o]
    BY <1>1 DEF Arrives, LostReported, SweepsStuckWave, RecordLost, Outcomes
  <2>3. submitted' = OneMore(submitted) /\ UNCHANGED <<progress, flushes, slot, disk, history>>
    BY <1>1 DEF Arrives, LostReported, SweepsStuckWave, RecordLost
  <2>4. WaveOK'
    BY <1>0, <2>1, <2>2, <2>3, CountsOne
  <2> QED BY <1>0, <2>3, <2>4, SlotSame, DiskSame DEF TypeInv
<1>2. ASSUME NEW a \in Members, NeverArrives(a) PROVE TypeInv'
  <2>1. /\ member' \in [Members -> Stages] /\ Counted' = Counted /\ Reported' = Reported
        /\ UNCHANGED <<outcome, submitted, progress, flushes, slot, disk, history>>
    BY <1>0, <1>2 DEF NeverArrives, WaveOK, Stages, Counted, Reported
  <2>2. WaveOK'
    BY <1>0, <2>1, MovesOn DEF WaveOK
  <2> QED BY <1>0, <2>1, <2>2, SlotSame, DiskSame DEF TypeInv
<1>3. ASSUME NEW a \in Members, Ends(a) PROVE TypeInv'
  <2>1. member' \in [Members -> Stages] /\ Counted' = Counted /\ Reported' = Reported
    BY <1>0, <1>3 DEF Ends, WaveOK, Stages, Counted, Reported
  <2>2. outcome' \in [Members -> Outcomes]
    BY <1>0, <1>3 DEF Ends, WaveOK, Outcomes
  <2>3. tomb' \in [Members -> Marks]
    BY <1>0, <1>3 DEF Ends, DiskOK, Marks
  <2>4. UNCHANGED <<submitted, progress, flushes, slot, notifying, crashes, history>>
    BY <1>3 DEF Ends
  <2>5. WaveOK' /\ DiskOK'
    BY <1>0, <2>1, <2>2, <2>3, <2>4, MovesOn DEF DiskOK, history
  <2> QED BY <1>0, <2>4, <2>5, SlotSame DEF TypeInv
<1>4. ASSUME NEW a \in Members, Reports(a) PROVE TypeInv'
  BY <1>4, ReportsTypes
<1>5. ASSUME NEW a \in Members, Settles(a) PROVE TypeInv'
  <2>1. tomb' \in [Members -> Marks]
    BY <1>0, <1>5 DEF Settles, DiskOK, Marks
  <2>2. SlotOK' /\ DiskOK'
    BY <1>0, <1>5, <2>1 DEF Settles, SlotOK, DiskOK, history
  <2> QED BY <1>0, <1>5, <2>2, WaveSame DEF Settles, TypeInv
<1>6. ASSUME NEW a \in Members, Reconciles(a) PROVE TypeInv'
  <2>1. tomb' \in [Members -> Marks]
    BY <1>0, <1>6 DEF Reconciles, DiskOK, Marks
  <2>2. DiskOK'
    BY <1>0, <1>6, <2>1 DEF Reconciles, DiskOK, history
  <2> QED BY <1>0, <1>6, <2>2, WaveSame, SlotSame DEF Reconciles, TypeInv
<1>7. ASSUME NEW a \in Members, NotifiesOrphan(a) PROVE TypeInv'
  <2>1. DiskOK'
    BY <1>0, <1>7 DEF NotifiesOrphan, DiskOK
  <2> QED BY <1>0, <1>7, <2>1, WaveSame, SlotSame DEF NotifiesOrphan, TypeInv
<1>8. CASE SweepsHolds
  <2>1. Counted' = Counted /\ Reported' = Reported /\ flushes' \in 0..MaxFlushes
    BY <1>0, <1>8, WaveAssumption DEF SweepsHolds, WaveOK, Counted, Reported
  <2>2. WaveOK'
    BY <1>0, <1>8, <2>1 DEF SweepsHolds, WaveOK, CountInv
  <2> QED BY <1>0, <1>8, <2>2, SlotSame, DiskSame DEF SweepsHolds, TypeInv
<1>9. CASE FlushReports
  BY <1>9, FlushTypes
<1>10. ASSUME NEW c \in waiting, RouteWakes(c) PROVE TypeInv'
  <2>1. SlotOK'
    BY <1>0, <1>10, InjectTypes DEF RouteWakes, SlotOK
  <2> QED BY <1>0, <1>10, <2>1, WaveSame, DiskSame DEF RouteWakes, TypeInv
<1>11. CASE UserTurnStarts \/ TurnConsumes \/ TurnCompletes \/ TurnComesUpEmpty \/ TurnFails
  BY <1>11, TurnTypes
<1>12. ASSUME NEW e \in ending, TurnCallsBack(e) PROVE TypeInv'
  <2>1. UNION {d.owed : d \in Claims(e)} \subseteq Members
    BY <1>0 DEF Claims, SlotOK, Chunks
  <2>2. SlotOK'
    BY <1>0, <1>12, <2>1 DEF TurnCallsBack, SlotOK
  <2> QED BY <1>0, <1>12, <2>2, WaveSame, DiskSame DEF TurnCallsBack, TypeInv
<1>13. CASE Crash
  <2>1. member' \in [Members -> Stages] /\ outcome' \in [Members -> Outcomes]
    BY <1>0, <1>13 DEF Crash, WaveOK, Stages, Outcomes
  <2>2. submitted' = Pruned /\ progress' = NoWave /\ flushes' = 0
    BY <1>13 DEF Crash
  <2>3. Reported' = {} /\ Counted' = {} /\ Cardinality({}) = 0
    BY <1>13, FS_EmptySet DEF Crash, Reported, Counted
  <2>4. NoWave \in Records /\ NoWave.done = 0 /\ NoWave.flushed = 0 /\ NoWave.lines = {}
    BY EmptyRecords
  <2>5. WaveOK'
    BY <2>1, <2>2, <2>3, <2>4, WaveAssumption DEF WaveOK, CountInv, Pruned
  <2>6. SlotOK'
    <3>1. MaxRetries \in Nat /\ <<>> \in Seq(Chunks) /\ NoTurn \in Turns
      BY WaveAssumption DEF Turns
    <3>2. retries' \in 0..MaxRetries
      BY <1>13, <3>1 DEF Crash
    <3>3. turn' \in Turns /\ queue' \in Seq(Chunks)
      BY <1>13, <3>1 DEF Crash
    <3>4. /\ waiting' = {} /\ ledger' = {} /\ ending' = {} /\ settling' = {}
          /\ emptied' = FALSE /\ tab' = tab
      BY <1>13 DEF Crash
    <3> QED BY <1>0, <3>2, <3>3, <3>4 DEF SlotOK
  <2>7. DiskOK'
    BY <1>0, <1>13, WaveAssumption DEF Crash, DiskOK, history
  <2> QED BY <2>5, <2>6, <2>7 DEF TypeInv
<1>14. CASE UNCHANGED vars
  BY <1>0, <1>14, WaveSame, SlotSame, DiskSame DEF vars, TypeInv
<1> QED
  BY <1>1, <1>2, <1>3, <1>4, <1>5, <1>6, <1>7, <1>8, <1>9, <1>10, <1>11, <1>12, <1>13, <1>14
  DEF Next

\* Every variable keeps its kind of value: the counts of a wave never exceed its
\* size, whatever arrives, is lost, swept or cut off, and no chunk is ever empty.
THEOREM TypeSafe == Spec => []TypeOK
<1>1. Init => TypeInv
  BY TypeInvInit
<1>2. TypeInv /\ [Next]_vars => TypeInv'
  BY TypeInvStep
<1>3. TypeInv => TypeOK
  BY DEF TypeInv, TypeOK, WaveOK, SlotOK, DiskOK, Records, Turns, Marks
<1> QED BY <1>1, <1>2, <1>3, PTL DEF Spec

-----------------------------------------------------------------------------
(***************************************************************************)
(* Where a result is.  OnePlace is about reported members; what makes it   *)
(* inductive is that a member that was not reported is nowhere and has     *)
(* been neither read nor dropped.                                          *)
(***************************************************************************)
InWaiting(S, a) == {c \in S : a \in c}
InQueue(q, a) == {i \in DOMAIN q : a \in q[i]}
One(b) == IF b THEN 1 ELSE 0

Waits(a) == Cardinality(InWaiting(waiting, a))
Queued(a) == Cardinality(InQueue(queue, a))
IsHeld(a) == One(a \in progress.lines)
IsTaken(a) == One(a \in turn.chunk /\ ~turn.consumed)

Placed(a) ==
  member[a] # "gone" =>
    IF member[a] = "reported" /\ a \notin read \cup dropped
    THEN Places(a) = 1
    ELSE Places(a) = 0

Unread(a) == member[a] \notin {"reported", "gone"} => a \notin read \cup dropped

PlaceInv ==
  /\ ~progress.known => progress.lines = {}
  /\ tab => \A a \in Members : Placed(a) /\ Unread(a)

-----------------------------------------------------------------------------
\* The sets of places are finite.
LEMMA WaitingFinite ==
  ASSUME NEW S, S \subseteq Chunks, NEW a
  PROVE  IsFiniteSet(InWaiting(S, a)) /\ Cardinality(InWaiting(S, a)) \in Nat
<1>1. InWaiting(S, a) \subseteq SUBSET Members
  BY DEF InWaiting, Chunks
<1> QED BY <1>1, FS_SUBSET, FS_Subset, FS_CardinalityType, WaveAssumption

LEMMA QueueFinite ==
  ASSUME NEW q \in Seq(Chunks), NEW a
  PROVE  IsFiniteSet(InQueue(q, a)) /\ Cardinality(InQueue(q, a)) \in Nat
<1>1. DOMAIN q = 1..Len(q) /\ Len(q) \in Nat
  BY LenProperties
<1>2. InQueue(q, a) \subseteq 1..Len(q) /\ IsFiniteSet(1..Len(q))
  BY <1>1, FS_Interval DEF InQueue
<1> QED BY <1>2, FS_Subset, FS_CardinalityType

\* A chunk that comes to wait, and one that goes.
LEMMA WaitingAdd ==
  ASSUME NEW S, S \subseteq Chunks, NEW c \in Chunks, NEW a \in Members,
         a \in c => Cardinality(InWaiting(S, a)) = 0
  PROVE  Cardinality(InWaiting(S \cup {c}, a)) = Cardinality(InWaiting(S, a)) + One(a \in c)
<1>1. CASE a \in c
  <2>1. InWaiting(S, a) = {}
    BY <1>1, WaitingFinite, FS_EmptySet
  <2>2. InWaiting(S \cup {c}, a) = {c}
    BY <1>1, <2>1 DEF InWaiting
  <2> QED BY <1>1, <2>2, FS_Singleton DEF One
<1>2. CASE a \notin c
  <2>1. InWaiting(S \cup {c}, a) = InWaiting(S, a)
    BY <1>2 DEF InWaiting
  <2>2. Cardinality(InWaiting(S, a)) \in Nat
    BY WaitingFinite
  <2> QED BY <1>2, <2>1, <2>2 DEF One
<1> QED BY <1>1, <1>2

LEMMA WaitingRemove ==
  ASSUME NEW S, S \subseteq Chunks, NEW c \in S, NEW a \in Members
  PROVE  Cardinality(InWaiting(S, a)) = Cardinality(InWaiting(S \ {c}, a)) + One(a \in c)
<1>0. Cardinality(InWaiting(S, a)) \in Nat /\ IsFiniteSet(InWaiting(S, a))
  BY WaitingFinite
<1>1. CASE a \in c
  <2>1. InWaiting(S \ {c}, a) = InWaiting(S, a) \ {c} /\ c \in InWaiting(S, a)
    BY <1>1 DEF InWaiting
  <2>2. Cardinality(InWaiting(S, a) \ {c}) = Cardinality(InWaiting(S, a)) - 1
    BY <1>0, <2>1, FS_RemoveElement
  <2>3. One(a \in c) = 1
    BY <1>1 DEF One
  <2>4. Cardinality(InWaiting(S \ {c}, a)) = Cardinality(InWaiting(S, a)) - 1
    BY <2>1, <2>2
  <2> QED BY <1>0, <2>3, <2>4
<1>2. CASE a \notin c
  <2>1. InWaiting(S \ {c}, a) = InWaiting(S, a)
    BY <1>2 DEF InWaiting
  <2> QED BY <1>0, <1>2, <2>1 DEF One
<1> QED BY <1>1, <1>2

\* A chunk that joins the queue, and the one at its head that leaves it.
LEMMA QueueAppend ==
  ASSUME NEW q \in Seq(Chunks), NEW c \in Chunks, NEW a \in Members
  PROVE  Cardinality(InQueue(Append(q, c), a)) = Cardinality(InQueue(q, a)) + One(a \in c)
<1>0. Len(q) \in Nat /\ DOMAIN q = 1..Len(q)
  BY LenProperties
<1>1. /\ DOMAIN Append(q, c) = 1..(Len(q) + 1)
      /\ \A i \in 1..Len(q) : Append(q, c)[i] = q[i]
      /\ Append(q, c)[Len(q) + 1] = c
  BY <1>0
<1>2. Cardinality(InQueue(q, a)) \in Nat /\ IsFiniteSet(InQueue(q, a))
  BY QueueFinite
<1>3. CASE a \in c
  <2>1. InQueue(Append(q, c), a) = InQueue(q, a) \cup {Len(q) + 1}
    BY <1>0, <1>1, <1>3 DEF InQueue
  <2>2. Len(q) + 1 \notin InQueue(q, a)
    BY <1>0 DEF InQueue
  <2>3. Cardinality(InQueue(q, a) \cup {Len(q) + 1}) = Cardinality(InQueue(q, a)) + 1
    BY <1>2, <2>2, FS_AddElement
  <2> QED BY <1>3, <2>1, <2>3 DEF One
<1>4. CASE a \notin c
  <2>1. InQueue(Append(q, c), a) = InQueue(q, a)
    BY <1>0, <1>1, <1>4 DEF InQueue
  <2> QED BY <1>2, <1>4, <2>1 DEF One
<1> QED BY <1>3, <1>4

LEMMA QueueTail ==
  ASSUME NEW q \in Seq(Chunks), q # <<>>, NEW a \in Members
  PROVE  Cardinality(InQueue(q, a)) = Cardinality(InQueue(Tail(q), a)) + One(a \in Head(q))
<1> DEFINE r == Tail(q)
           rest == InQueue(q, a) \ {1}
<1>0. /\ Len(q) \in Nat \ {0} /\ DOMAIN q = 1..Len(q) /\ Head(q) = q[1]
      /\ r \in Seq(Chunks) /\ Len(r) = Len(q) - 1 /\ DOMAIN r = 1..Len(r)
      /\ \A i \in 1..Len(r) : r[i] = q[i + 1]
  BY LenProperties, EmptySeq, HeadTailProperties
<1> HIDE DEF r
<1>1. Cardinality(InQueue(q, a)) \in Nat /\ IsFiniteSet(InQueue(q, a))
  BY QueueFinite
<1>2. IsFiniteSet(InQueue(r, a))
  BY <1>0, QueueFinite
<1>3. Cardinality(rest) = Cardinality(InQueue(r, a))
  <2> DEFINE f == [i \in InQueue(r, a) |-> i + 1]
  <2>1. \A i \in InQueue(r, a) : i \in Nat /\ i + 1 \in rest
    BY <1>0 DEF InQueue
  <2>2. \A j \in rest : j \in Nat /\ j - 1 \in InQueue(r, a) /\ (j - 1) + 1 = j
    BY <1>0 DEF InQueue
  <2>3. f \in [InQueue(r, a) -> rest]
    BY <2>1
  <2>4. \A i, j \in InQueue(r, a) : f[i] = f[j] => i = j
    BY <2>1
  <2>5. \A j \in rest : \E i \in InQueue(r, a) : f[i] = j
    BY <2>2
  <2>6. f \in Bijection(InQueue(r, a), rest)
    BY <2>3, <2>4, <2>5 DEF Bijection, Injection, Surjection, IsInjective
  <2> QED BY <1>2, <2>6, FS_Bijection DEF ExistsBijection
<1>4. CASE a \in Head(q)
  <2>1. 1 \in InQueue(q, a)
    BY <1>0, <1>4 DEF InQueue
  <2>2. Cardinality(rest) = Cardinality(InQueue(q, a)) - 1
    BY <1>1, <2>1, FS_RemoveElement
  <2> QED BY <1>1, <1>3, <1>4, <2>2 DEF One, r
<1>5. CASE a \notin Head(q)
  <2>1. rest = InQueue(q, a)
    BY <1>0, <1>5 DEF InQueue
  <2>2. One(a \in Head(q)) = 0
    BY <1>5 DEF One
  <2>3. Cardinality(InQueue(q, a)) = Cardinality(InQueue(Tail(q), a))
    BY <1>3, <2>1 DEF r
  <2> QED BY <1>1, <2>2, <2>3
<1> QED BY <1>4, <1>5

LEMMA QueuePrepend ==
  ASSUME NEW q \in Seq(Chunks), NEW c \in Chunks, NEW a \in Members
  PROVE  /\ <<c>> \o q \in Seq(Chunks)
         /\ Cardinality(InQueue(<<c>> \o q, a)) = Cardinality(InQueue(q, a)) + One(a \in c)
<1> DEFINE r == <<c>> \o q
<1>1. /\ <<c>> \in Seq(Chunks) /\ Len(<<c>>) = 1 /\ <<c>>[1] = c /\ Len(q) \in Nat
  BY LenProperties
<1>2. /\ r \in Seq(Chunks) /\ Len(r) = 1 + Len(q)
      /\ \A i \in 1..Len(<<c>>) + Len(q) :
           r[i] = IF i <= Len(<<c>>) THEN <<c>>[i] ELSE q[i - Len(<<c>>)]
  BY <1>1, ConcatProperties
<1> HIDE DEF r
<1>3. r[1] = c /\ \A i \in 1..Len(q) : r[i + 1] = q[i]
  <2>1. r[1] = c
    BY <1>1, <1>2
  <2>2. ASSUME NEW i \in 1..Len(q) PROVE r[i + 1] = q[i]
    <3>1. i + 1 \in 1..1 + Len(q) /\ ~(i + 1 <= 1) /\ (i + 1) - 1 = i
      BY <1>1
    <3> QED BY <1>1, <1>2, <3>1
  <2> QED BY <2>1, <2>2
<1>4. r # <<>>
  BY <1>1, <1>2
<1>5. Head(r) = c
  BY <1>3
<1>6. Tail(r) = q
  <2>1. /\ Tail(r) \in Seq(Chunks) /\ Len(Tail(r)) = Len(r) - 1
        /\ \A i \in 1..Len(Tail(r)) : Tail(r)[i] = r[i + 1]
    BY <1>2, <1>4, HeadTailProperties
  <2>2. Len(Tail(r)) = Len(q)
    BY <1>1, <1>2, <2>1
  <2>3. \A i \in 1..Len(Tail(r)) : Tail(r)[i] = q[i]
    BY <1>3, <2>1, <2>2
  <2> HIDE DEF r
  <2> QED BY <2>1, <2>2, <2>3, SeqEqual, Zenon
<1> QED BY <1>2, <1>4, <1>5, <1>6, QueueTail DEF r

-----------------------------------------------------------------------------
\* The places of a member, now and in the next state, are counted by four numbers.
LEMMA PlaceSum ==
  ASSUME SlotOK, NEW a \in Members
  PROVE  /\ Places(a) = Waits(a) + Queued(a) + IsHeld(a) + IsTaken(a)
         /\ Waits(a) \in Nat /\ Queued(a) \in Nat
         /\ IsHeld(a) \in {0, 1} /\ IsTaken(a) \in {0, 1}
<1>1. Waits(a) \in Nat /\ Queued(a) \in Nat
  BY WaitingFinite, QueueFinite DEF Waits, Queued, SlotOK
<1>2. IsHeld(a) \in {0, 1} /\ IsTaken(a) \in {0, 1}
  BY DEF IsHeld, IsTaken, One
<1>3. Places(a) = Waits(a) + Queued(a) + IsHeld(a) + IsTaken(a)
  BY DEF Places, Waits, Queued, IsHeld, IsTaken, One, InWaiting, InQueue
<1> QED BY <1>1, <1>2, <1>3

LEMMA PlaceSumNext ==
  ASSUME SlotOK', NEW a \in Members
  PROVE  /\ Places(a)' = Waits(a)' + Queued(a)' + IsHeld(a)' + IsTaken(a)'
         /\ Waits(a)' \in Nat /\ Queued(a)' \in Nat
         /\ IsHeld(a)' \in {0, 1} /\ IsTaken(a)' \in {0, 1}
<1>1. Waits(a)' \in Nat /\ Queued(a)' \in Nat
  BY WaitingFinite, QueueFinite DEF Waits, Queued, SlotOK
<1>2. IsHeld(a)' \in {0, 1} /\ IsTaken(a)' \in {0, 1}
  BY DEF IsHeld, IsTaken, One
<1>3. Places(a)' = Waits(a)' + Queued(a)' + IsHeld(a)' + IsTaken(a)'
  BY DEF Places, Waits, Queued, IsHeld, IsTaken, One, InWaiting, InQueue
<1> QED BY <1>1, <1>2, <1>3

\* An injected chunk goes to the turn or to the end of the queue.
LEMMA InjectMoves ==
  ASSUME SlotOK, NEW c \in Chunks, NEW a \in Members, Inject(c)
  PROVE  Queued(a)' + IsTaken(a)' = Queued(a) + IsTaken(a) + One(a \in c)
<1>0. /\ Queued(a) \in Nat /\ IsTaken(a) \in {0, 1} /\ One(a \in c) \in {0, 1}
  BY PlaceSum DEF One
<1>1. CASE turn = NoTurn
  <2>1. turn' = TurnOf(c) /\ queue' = queue
    BY <1>1 DEF Inject
  <2>2. Queued(a)' = Queued(a)
    BY <2>1 DEF Queued
  <2>3. IsTaken(a)' = One(a \in c)
    BY <2>1, TurnOfChunk DEF IsTaken, One
  <2>4. IsTaken(a) = 0
    BY <1>1 DEF NoTurn, IsTaken, One
  <2> QED BY <1>0, <2>2, <2>3, <2>4
<1>2. CASE turn # NoTurn
  <2>1. queue' = Append(queue, c) /\ turn' = turn
    BY <1>2 DEF Inject
  <2>2. Queued(a)' = Queued(a) + One(a \in c)
    BY <2>1, QueueAppend DEF Queued, SlotOK
  <2>3. IsTaken(a)' = IsTaken(a)
    BY <2>1 DEF IsTaken
  <2> QED BY <1>0, <2>2, <2>3
<1> QED BY <1>1, <1>2

\* A routed chunk is in one place more, the turn, the queue or the waiting ones.
LEMMA RouteMoves ==
  ASSUME SlotOK, tab, NEW c \in Chunks, NEW own, NEW s, Route(own, c, s),
         NEW a \in Members, a \in c => Waits(a) = 0
  PROVE  /\ Waits(a)' + Queued(a)' + IsTaken(a)'
              = Waits(a) + Queued(a) + IsTaken(a) + One(a \in c)
         /\ UNCHANGED <<read, dropped>>
<1>0. /\ Waits(a) \in Nat /\ Queued(a) \in Nat /\ IsTaken(a) \in {0, 1}
      /\ One(a \in c) \in {0, 1}
  BY PlaceSum DEF One
<1>1. UNCHANGED <<read, dropped>>
  BY DEF Route, history
<1>2. CASE turn = NoTurn
  <2>1. Inject(c) /\ waiting' = waiting
    BY <1>2 DEF Route
  <2>2. Waits(a)' = Waits(a)
    BY <2>1 DEF Waits
  <2>3. Queued(a)' + IsTaken(a)' = Queued(a) + IsTaken(a) + One(a \in c)
    BY <2>1, InjectMoves
  <2>4. Queued(a)' \in Nat /\ IsTaken(a)' \in Nat
    <3>1. queue' \in Seq(Chunks)
      BY <2>1 DEF Inject, SlotOK
    <3> QED BY <3>1, QueueFinite DEF Queued, IsTaken, One
  <2> QED BY <1>0, <1>1, <2>2, <2>3, <2>4
<1>3. CASE turn # NoTurn
  <2>1. waiting' = waiting \cup {c} /\ UNCHANGED <<turn, queue>>
    BY <1>3 DEF Route
  <2>2. Waits(a)' = Waits(a) + One(a \in c)
    BY <2>1, WaitingAdd DEF Waits, SlotOK
  <2>3. Queued(a)' = Queued(a) /\ IsTaken(a)' = IsTaken(a)
    BY <2>1 DEF Queued, IsTaken
  <2> QED BY <1>0, <1>1, <2>2, <2>3
<1> QED BY <1>2, <1>3

\* When a turn is over its chunk is nowhere but in the queue it leaves.
LEMMA TurnIsOverMoves ==
  ASSUME NEW q \in Seq(Chunks), NEW b, TurnIsOver(b, q), NEW a \in Members
  PROVE  /\ Queued(a)' + IsTaken(a)' = Cardinality(InQueue(q, a))
         /\ Waits(a)' = Waits(a) /\ IsHeld(a)' = IsHeld(a)
<1>1. Waits(a)' = Waits(a) /\ IsHeld(a)' = IsHeld(a)
  BY DEF TurnIsOver, wave, Waits, IsHeld
<1>2. CASE q = <<>>
  <2>1. turn' = NoTurn /\ queue' = <<>>
    BY <1>2 DEF TurnIsOver
  <2>2. IsTaken(a)' = 0
    BY <2>1 DEF NoTurn, IsTaken, One
  <2>3. Queued(a)' = Cardinality(InQueue(q, a)) /\ Queued(a)' \in Nat
    BY <1>2, <2>1, QueueFinite DEF Queued
  <2> QED BY <1>1, <2>2, <2>3
<1>3. CASE q # <<>>
  <2>1. turn' = TurnOf(Head(q)) /\ queue' = Tail(q)
    BY <1>3 DEF TurnIsOver
  <2>2. Head(q) \in Chunks
    BY <1>3, HeadTailProperties
  <2>3. IsTaken(a)' = One(a \in Head(q))
    BY <2>1, <2>2, TurnOfChunk DEF IsTaken, One
  <2>4. Queued(a)' = Cardinality(InQueue(Tail(q), a))
    BY <2>1 DEF Queued
  <2> QED BY <1>1, <1>3, <2>3, <2>4, QueueTail
<1> QED BY <1>2, <1>3

-----------------------------------------------------------------------------
\* A step after which every member is in as many places as before, and only
\* members that were not reported have moved.
LEMMA PlacesKept ==
  ASSUME PlaceInv, UNCHANGED <<tab, read, dropped>>,
         \A a \in Members : Places(a)' = Places(a),
         ~progress'.known => progress'.lines = {},
         \A a \in Members : \/ member'[a] = member[a]
                            \/ {member[a], member'[a]} \cap {"reported", "gone"} = {}
  PROVE  PlaceInv'
BY DEF PlaceInv, Placed, Unread

\* As a case of it, the variables a place is counted from do not change.
LEMMA PlacesSame ==
  ASSUME PlaceInv, UNCHANGED <<tab, read, dropped, waiting, queue, turn>>,
         UNCHANGED progress,
         \A a \in Members : \/ member'[a] = member[a]
                            \/ {member[a], member'[a]} \cap {"reported", "gone"} = {}
  PROVE  PlaceInv'
<1>1. \A a \in Members : Places(a)' = Places(a)
  BY DEF Places
<1>2. ~progress'.known => progress'.lines = {}
  BY DEF PlaceInv
<1> QED BY <1>1, <1>2, PlacesKept

\* The new line of the record of a wave is in one place more, with the lines or
\* in the chunk they become; every other line is where it was or in that chunk.
LEMMA ReportsPlaces ==
  ASSUME TypeInv, TypeInv', PlaceInv, NEW a \in Members, Reports(a)
  PROVE  PlaceInv'
<1> DEFINE p0 == IF progress.known THEN progress ELSE FreshWave
           p == [p0 EXCEPT !.done = @ + 1, !.lines = @ \cup {a}]
<1>1. p \in Records /\ p.lines \in Chunks
  BY LineAdded DEF Reports, TypeInv
<1>2. p.lines = progress.lines \cup {a}
  <2>1. p0 \in Records /\ p0.lines = progress.lines
    <3>1. FreshWave \in Records /\ FreshWave.lines = {}
      BY EmptyRecords
    <3> QED BY <3>1 DEF TypeInv, WaveOK, PlaceInv
  <2> HIDE DEF p0
  <2> QED BY <2>1 DEF Records
<1>3. p.known
  <2>1. p0 \in Records /\ p0.known
    BY EmptyRecords DEF TypeInv, WaveOK, FreshWave
  <2> HIDE DEF p0
  <2> QED BY <2>1 DEF Records
<1>4. \/ /\ progress' \in {NoWave, Emptied(p)}
         /\ \E b : Route({a}, p.lines, b)
      \/ /\ progress' = p
         /\ UNCHANGED <<waiting, turn, queue, read, dropped>>
  BY DEF Reports, history
<1>5. member' = [member EXCEPT ![a] = "reported"] /\ member[a] = "done" /\ tab' = tab
  BY DEF Reports
<1> HIDE DEF p, p0
<1>6. ~progress'.known => progress'.lines = {}
  BY <1>1, <1>3, <1>4, EmptyRecords
<1>7. a \notin progress.lines /\ progress.lines \subseteq Reported
  BY <1>5 DEF TypeInv, WaveOK, CountInv, Reported
<1> SUFFICES ASSUME tab, NEW b \in Members PROVE Placed(b)' /\ Unread(b)'
  BY <1>5, <1>6 DEF PlaceInv
<1>8. Placed(b) /\ Unread(b)
  BY DEF PlaceInv
<1>9. /\ Places(b) = Waits(b) + Queued(b) + IsHeld(b) + IsTaken(b)
      /\ Waits(b) \in Nat /\ Queued(b) \in Nat
      /\ IsHeld(b) \in {0, 1} /\ IsTaken(b) \in {0, 1}
  BY PlaceSum DEF TypeInv
<1>10. /\ Places(b)' = Waits(b)' + Queued(b)' + IsHeld(b)' + IsTaken(b)'
       /\ Waits(b)' \in Nat /\ Queued(b)' \in Nat
       /\ IsHeld(b)' \in {0, 1} /\ IsTaken(b)' \in {0, 1}
  BY PlaceSumNext DEF TypeInv
<1>11. One(b \in p.lines) = IsHeld(b) + One(b = a) /\ One(b = a) \in {0, 1}
  BY <1>2, <1>7 DEF IsHeld, One
<1>12. UNCHANGED <<read, dropped>>
       /\ Places(b)' = Places(b) + One(b = a)
  <2>1. CASE progress' \in {NoWave, Emptied(p)} /\ \E s : Route({a}, p.lines, s)
    <3>1. b \in p.lines => Waits(b) = 0
      <4>1. CASE b = a
        <5>1. Places(b) = 0
          BY <1>5, <1>8, <4>1 DEF Placed
        <5> QED BY <1>9, <5>1
      <4>2. CASE b \in progress.lines
        <5>1. IsHeld(b) = 1
          BY <4>2 DEF IsHeld, One
        <5>2. Places(b) \in {0, 1}
          BY <1>7, <1>8, <4>2 DEF Placed, Reported
        <5> QED BY <1>9, <5>1, <5>2
      <4> QED BY <1>2, <4>1, <4>2
    <3>2. /\ Waits(b)' + Queued(b)' + IsTaken(b)'
               = Waits(b) + Queued(b) + IsTaken(b) + One(b \in p.lines)
          /\ UNCHANGED <<read, dropped>>
      BY <1>1, <2>1, <3>1, RouteMoves DEF TypeInv
    <3>3. IsHeld(b)' = 0
      <4>1. progress'.lines = {}
        BY <1>1, <2>1, EmptyRecords
      <4> QED BY <4>1 DEF IsHeld, One
    <3>4. Waits(b)' + Queued(b)' + IsTaken(b)'
            = Waits(b) + Queued(b) + IsTaken(b) + IsHeld(b) + One(b = a)
      BY <1>9, <1>11, <3>2
    <3> QED BY <1>9, <1>10, <1>11, <3>2, <3>3, <3>4
  <2>2. CASE progress' = p /\ UNCHANGED <<waiting, turn, queue, read, dropped>>
    <3>1. Waits(b)' = Waits(b) /\ Queued(b)' = Queued(b) /\ IsTaken(b)' = IsTaken(b)
      BY <2>2 DEF Waits, Queued, IsTaken
    <3>2. IsHeld(b)' = One(b \in p.lines)
      BY <2>2 DEF IsHeld
    <3> QED BY <1>9, <1>10, <1>11, <2>2, <3>1, <3>2 DEF One
  <2> QED BY <1>4, <2>1, <2>2
<1>13. CASE b = a
  <2>1. Places(b) = 0 /\ b \notin read \cup dropped
    BY <1>5, <1>8, <1>13 DEF Placed, Unread
  <2>2. Places(b)' = 1
    BY <1>12, <1>13, <2>1 DEF One
  <2>3. member'[b] = "reported"
    BY <1>5, <1>13 DEF TypeInv, WaveOK
  <2> QED BY <1>12, <2>1, <2>2, <2>3 DEF Placed, Unread
<1>14. CASE b # a
  <2>1. Places(b)' = Places(b)
    BY <1>9, <1>12, <1>14 DEF One
  <2>2. member'[b] = member[b]
    BY <1>5, <1>14 DEF TypeInv, WaveOK
  <2> QED BY <1>8, <1>12, <2>1, <2>2 DEF Placed, Unread
<1> QED BY <1>13, <1>14

\* The lines that a forced flush takes from the record are in their chunk.
LEMMA FlushPlaces ==
  ASSUME TypeInv, TypeInv', PlaceInv, FlushReports
  PROVE  PlaceInv'
<1>1. UNCHANGED <<member, tab>>
  BY DEF FlushReports
<1>2. CASE NothingHeld(progress)
  <2>1. UNCHANGED <<progress, waiting, turn, queue, read, dropped>>
    BY <1>2 DEF FlushReports, history
  <2> QED BY <1>1, <2>1, PlacesSame
<1>3. CASE ~NothingHeld(progress)
  <2>1. progress' = Emptied(progress) /\ Route({}, progress.lines, TRUE)
    BY <1>3 DEF FlushReports
  <2>2. progress'.lines = {}
    BY <2>1, EmptyRecords DEF TypeInv, WaveOK
  <2>3. progress.lines \in Chunks
    <3>1. progress.done \in Nat /\ progress.flushed \in Nat /\ progress.done > progress.flushed
          /\ progress.lines \subseteq Members
      BY <1>3 DEF NothingHeld, TypeInv, WaveOK, Records
    <3>2. Cardinality({}) = 0
      BY FS_EmptySet
    <3>3. progress.done - progress.flushed # 0
      BY <3>1
    <3> QED BY <3>1, <3>2, <3>3 DEF Chunks, TypeInv, WaveOK
  <2>4. ASSUME tab, NEW b \in Members
        PROVE  Places(b)' = Places(b) /\ UNCHANGED <<read, dropped>>
    <3>1. /\ Places(b) = Waits(b) + Queued(b) + IsHeld(b) + IsTaken(b)
          /\ Waits(b) \in Nat /\ Queued(b) \in Nat
          /\ IsHeld(b) \in {0, 1} /\ IsTaken(b) \in {0, 1}
      BY PlaceSum DEF TypeInv
    <3>2. /\ Places(b)' = Waits(b)' + Queued(b)' + IsHeld(b)' + IsTaken(b)'
          /\ Waits(b)' \in Nat /\ Queued(b)' \in Nat
          /\ IsHeld(b)' \in {0, 1} /\ IsTaken(b)' \in {0, 1}
      BY PlaceSumNext DEF TypeInv
    <3>3. b \in progress.lines => Waits(b) = 0
      <4>1. b \in progress.lines => IsHeld(b) = 1
        BY DEF IsHeld, One
      <4>2. b \in progress.lines => Places(b) \in {0, 1}
        BY <2>4 DEF PlaceInv, Placed, TypeInv, WaveOK, CountInv, Reported
      <4> QED BY <3>1, <4>1, <4>2
    <3>4. /\ Waits(b)' + Queued(b)' + IsTaken(b)'
               = Waits(b) + Queued(b) + IsTaken(b) + One(b \in progress.lines)
          /\ UNCHANGED <<read, dropped>>
      BY <2>1, <2>3, <2>4, <3>3, RouteMoves DEF TypeInv
    <3>5. IsHeld(b)' = 0 /\ IsHeld(b) = One(b \in progress.lines)
      BY <2>2 DEF IsHeld, One
    <3> QED BY <3>1, <3>2, <3>4, <3>5
  <2>5. ASSUME tab, NEW b \in Members PROVE Placed(b)' /\ Unread(b)'
    <3>1. Places(b)' = Places(b) /\ UNCHANGED <<member, read, dropped>>
      BY <1>1, <2>4, <2>5
    <3> QED BY <2>5, <3>1 DEF PlaceInv, Placed, Unread
  <2> QED BY <1>1, <2>2, <2>5 DEF PlaceInv
<1> QED BY <1>2, <1>3

\* The turn that ends: its chunk was read before, is read or dropped with it, or is
\* back at the head of the queue.
LEMMA TurnEndsPlaces ==
  ASSUME TypeInv, TypeInv', PlaceInv, NEW b, NEW q \in Seq(Chunks), TurnIsOver(b, q),
         \/ q = queue
         \/ turn.chunk \in Chunks /\ ~turn.consumed /\ q = <<turn.chunk>> \o queue,
         UNCHANGED <<read, dropped>>,
         q = queue => turn.chunk = {} \/ turn.consumed
  PROVE  PlaceInv'
<1>1. UNCHANGED <<member, tab, progress>>
  BY DEF TurnIsOver, wave
<1>2. ASSUME NEW a \in Members PROVE Places(a)' = Places(a)
  <2>1. /\ Places(a) = Waits(a) + Queued(a) + IsHeld(a) + IsTaken(a)
        /\ Waits(a) \in Nat /\ Queued(a) \in Nat
        /\ IsHeld(a) \in {0, 1} /\ IsTaken(a) \in {0, 1}
    BY PlaceSum DEF TypeInv
  <2>2. /\ Places(a)' = Waits(a)' + Queued(a)' + IsHeld(a)' + IsTaken(a)'
        /\ Waits(a)' \in Nat /\ Queued(a)' \in Nat
        /\ IsHeld(a)' \in {0, 1} /\ IsTaken(a)' \in {0, 1}
    BY PlaceSumNext DEF TypeInv
  <2>3. /\ Queued(a)' + IsTaken(a)' = Cardinality(InQueue(q, a))
        /\ Waits(a)' = Waits(a) /\ IsHeld(a)' = IsHeld(a)
    BY TurnIsOverMoves
  <2>4. Cardinality(InQueue(q, a)) = Queued(a) + IsTaken(a)
    <3>1. CASE q = queue
      <4>1. IsTaken(a) = 0
        BY <3>1 DEF IsTaken, One
      <4> QED BY <2>1, <3>1, <4>1 DEF Queued
    <3>2. CASE turn.chunk \in Chunks /\ ~turn.consumed /\ q = <<turn.chunk>> \o queue
      <4>1. IsTaken(a) = One(a \in turn.chunk)
        BY <3>2 DEF IsTaken, One
      <4> QED BY <3>2, <4>1, QueuePrepend DEF Queued, TypeInv, SlotOK
    <3> QED BY <3>1, <3>2
  <2> QED BY <2>1, <2>2, <2>3, <2>4
<1> QED BY <1>1, <1>2, PlacesKept DEF PlaceInv

\* The chunk of the turn leaves its place, read or dropped.
LEMMA ChunkLeaves ==
  ASSUME TypeInv, TypeInv', PlaceInv, turn.kind = "chunk", ~turn.consumed,
         UNCHANGED <<member, tab, progress>>,
         read' \cup dropped' = read \cup dropped \cup turn.chunk,
         \A a \in Members :
           /\ Queued(a)' + IsTaken(a)' = Queued(a)
           /\ Waits(a)' = Waits(a) /\ IsHeld(a)' = IsHeld(a)
  PROVE  PlaceInv'
<1> SUFFICES ASSUME tab, NEW a \in Members PROVE Placed(a)' /\ Unread(a)'
  BY DEF PlaceInv
<1>0. Placed(a) /\ Unread(a)
  BY DEF PlaceInv
<1>1. /\ Places(a) = Waits(a) + Queued(a) + IsHeld(a) + IsTaken(a)
      /\ Waits(a) \in Nat /\ Queued(a) \in Nat
      /\ IsHeld(a) \in {0, 1} /\ IsTaken(a) \in {0, 1}
  BY PlaceSum DEF TypeInv
<1>2. /\ Places(a)' = Waits(a)' + Queued(a)' + IsHeld(a)' + IsTaken(a)'
      /\ Waits(a)' \in Nat /\ Queued(a)' \in Nat
      /\ IsHeld(a)' \in {0, 1} /\ IsTaken(a)' \in {0, 1}
  BY PlaceSumNext DEF TypeInv
<1>3. Places(a)' = Places(a) - IsTaken(a)
  BY <1>1, <1>2
<1>4. CASE a \in turn.chunk
  <2>1. IsTaken(a) = 1
    BY <1>4 DEF IsTaken, One
  <2>2. member[a] # "gone" => member[a] = "reported" /\ Places(a) = 1
    BY <1>0, <1>1, <2>1 DEF Placed
  <2> QED BY <1>3, <1>4, <2>1, <2>2 DEF Placed, Unread
<1>5. CASE a \notin turn.chunk
  <2>1. IsTaken(a) = 0
    BY <1>5 DEF IsTaken, One
  <2>2. Places(a)' = Places(a)
    BY <1>1, <1>3, <2>1
  <2> QED BY <1>0, <1>5, <2>2 DEF Placed, Unread
<1> QED BY <1>4, <1>5

LEMMA TurnPlaces ==
  ASSUME TypeInv, TypeInv', PlaceInv, TurnConsumes \/ TurnCompletes \/ TurnComesUpEmpty \/ TurnFails
  PROVE  PlaceInv'
<1>0. /\ turn.kind = "chunk" => turn.chunk \in Chunks
      /\ turn.kind # "chunk" => turn.chunk = {} /\ ~turn.consumed
      /\ queue \in Seq(Chunks)
  BY TurnKinds DEF TypeInv, SlotOK
<1>1. turn.kind = "chunk" => <<turn.chunk>> \o queue \in Seq(Chunks)
  BY <1>0, ConcatProperties DEF TypeInv, SlotOK
<1>2. ASSUME NEW b, TurnIsOver(b, queue), turn.kind = "chunk", ~turn.consumed,
             read' \cup dropped' = read \cup dropped \cup turn.chunk
      PROVE  PlaceInv'
  <2>1. UNCHANGED <<member, tab, progress>>
    BY <1>2 DEF TurnIsOver, wave
  <2>2. \A a \in Members :
          /\ Queued(a)' + IsTaken(a)' = Queued(a)
          /\ Waits(a)' = Waits(a) /\ IsHeld(a)' = IsHeld(a)
    BY <1>0, <1>2, TurnIsOverMoves DEF Queued
  <2> QED BY <1>2, <2>1, <2>2, ChunkLeaves
<1>3. ASSUME NEW b, TurnIsOver(b, <<turn.chunk>> \o queue), turn.kind = "chunk", ~turn.consumed,
             UNCHANGED <<read, dropped>>
      PROVE  PlaceInv'
  <2>1. <<turn.chunk>> \o queue # queue
    BY <1>0, <1>3, ConcatProperties
  <2> QED BY <1>0, <1>1, <1>3, <2>1, TurnEndsPlaces
<1>4. CASE TurnConsumes
  <2>1. /\ turn.kind = "chunk" /\ ~turn.consumed /\ read' = read \cup turn.chunk
        /\ UNCHANGED <<member, tab, progress, waiting, queue, dropped>>
        /\ turn' = [turn EXCEPT !.consumed = TRUE]
    BY <1>4 DEF TurnConsumes, wave
  <2>2. turn'.consumed
    <3>1. turn \in [chunk: Chunks, kind: {"chunk"}, consumed: BOOLEAN]
      BY <2>1 DEF TypeInv, SlotOK, Turns, NoTurn, UserTurn
    <3> QED BY <2>1, <3>1
  <2>3. ASSUME NEW a \in Members
        PROVE  /\ Queued(a)' + IsTaken(a)' = Queued(a)
               /\ Waits(a)' = Waits(a) /\ IsHeld(a)' = IsHeld(a)
    <3>1. Queued(a) \in Nat
      BY PlaceSum DEF TypeInv
    <3>2. Queued(a)' = Queued(a) /\ Waits(a)' = Waits(a) /\ IsHeld(a)' = IsHeld(a)
      BY <2>1 DEF Queued, Waits, IsHeld
    <3>3. IsTaken(a)' = 0
      BY <2>2 DEF IsTaken, One
    <3> QED BY <3>1, <3>2, <3>3
  <2> QED BY <2>1, <2>3, ChunkLeaves
<1>5. CASE TurnCompletes
  BY <1>0, <1>5, TurnEndsPlaces DEF TurnCompletes
<1>6. CASE TurnComesUpEmpty
  <2>1. CASE emptied
    BY <1>2, <1>6, <2>1 DEF TurnComesUpEmpty
  <2>2. CASE ~emptied
    BY <1>3, <1>6, <2>2 DEF TurnComesUpEmpty
  <2> QED BY <2>1, <2>2
<1>7. CASE TurnFails
  <2>1. CASE TurnIsOver(FALSE, <<turn.chunk>> \o queue) /\ UNCHANGED dropped
    BY <1>3, <1>7, <2>1 DEF TurnFails
  <2>2. CASE TurnIsOver(FALSE, queue) /\ dropped' = dropped \cup turn.chunk
    BY <1>2, <1>7, <2>2 DEF TurnFails
  <2> QED BY <1>7, <2>1, <2>2 DEF TurnFails
<1> QED BY <1>4, <1>5, <1>6, <1>7

LEMMA PlaceInvInit == Init => PlaceInv
<1> SUFFICES ASSUME Init, NEW a \in Members PROVE Placed(a) /\ Unread(a)
  <2>1. Init => (~progress.known => progress.lines = {})
    BY DEF Init, NoWave
  <2> QED BY <2>1 DEF PlaceInv
<1>1. /\ waiting = {} /\ queue = <<>> /\ turn.chunk = {} /\ progress.lines = {}
      /\ member[a] = "inflight" /\ read = {} /\ dropped = {}
  BY DEF Init, NoTurn, NoWave
<1>2. InWaiting(waiting, a) = {} /\ InQueue(queue, a) = {} /\ Cardinality({}) = 0
  <2>1. DOMAIN queue = {}
    BY <1>1
  <2> QED BY <1>1, <2>1, FS_EmptySet DEF InWaiting, InQueue
<1>3. Waits(a) = 0 /\ Queued(a) = 0 /\ IsHeld(a) = 0 /\ IsTaken(a) = 0
  BY <1>1, <1>2 DEF Waits, Queued, IsHeld, IsTaken, One
<1>4. Places(a) = 0
  BY <1>3, TypeInvInit, PlaceSum DEF TypeInv
<1> QED BY <1>1, <1>4 DEF Placed, Unread

LEMMA PlaceInvStep == TypeInv /\ TypeInv' /\ PlaceInv /\ [Next]_vars => PlaceInv'
<1> SUFFICES ASSUME TypeInv, TypeInv', PlaceInv, [Next]_vars PROVE PlaceInv'
  OBVIOUS
<1> USE DEF slot, disk, history
<1>1. ASSUME NEW a \in Members,
             Arrives(a) \/ NeverArrives(a) \/ LostReported(a) \/ SweepsStuckWave(a) \/ Ends(a)
      PROVE  PlaceInv'
  <2>1. \A b \in Members : \/ member'[b] = member[b]
                           \/ {member[b], member'[b]} \cap {"reported", "gone"} = {}
    <3>1. member[a] \in {"inflight", "rejected", "lost", "live"}
      BY <1>1 DEF Arrives, NeverArrives, LostReported, SweepsStuckWave, Ends
    <3>2. \E s \in {"live", "done", "rejected", "lost"} : member' = [member EXCEPT ![a] = s]
      BY <1>1 DEF Arrives, NeverArrives, LostReported, SweepsStuckWave, Ends, RecordLost
    <3> QED BY <3>1, <3>2 DEF TypeInv, WaveOK
  <2>2. UNCHANGED <<tab, read, dropped, waiting, queue, turn, progress>>
    BY <1>1 DEF Arrives, NeverArrives, LostReported, SweepsStuckWave, Ends
  <2> QED BY <2>1, <2>2, PlacesSame
<1>2. ASSUME NEW a \in Members, Reports(a) PROVE PlaceInv'
  BY <1>2, ReportsPlaces
<1>3. ASSUME NEW a \in Members, Settles(a) \/ Reconciles(a) \/ NotifiesOrphan(a) PROVE PlaceInv'
  <2>1. UNCHANGED <<member, tab, read, dropped, waiting, queue, turn, progress>>
    BY <1>3 DEF Settles, Reconciles, NotifiesOrphan, wave
  <2> QED BY <2>1, PlacesSame
<1>4. CASE SweepsHolds
  <2>1. UNCHANGED <<member, tab, read, dropped, waiting, queue, turn, progress>>
    BY <1>4 DEF SweepsHolds
  <2> QED BY <2>1, PlacesSame
<1>5. CASE FlushReports
  BY <1>5, FlushPlaces
<1>6. ASSUME NEW c \in waiting, RouteWakes(c) PROVE PlaceInv'
  <2>1. /\ UNCHANGED <<member, tab, progress, read, dropped>>
        /\ waiting' = waiting \ {c} /\ Inject(c) /\ c \in Chunks
    BY <1>6 DEF RouteWakes, wave, TypeInv, SlotOK
  <2>2. ASSUME NEW a \in Members PROVE Places(a)' = Places(a)
    <3>1. /\ Places(a) = Waits(a) + Queued(a) + IsHeld(a) + IsTaken(a)
          /\ Waits(a) \in Nat /\ Queued(a) \in Nat
          /\ IsHeld(a) \in {0, 1} /\ IsTaken(a) \in {0, 1}
      BY PlaceSum DEF TypeInv
    <3>2. /\ Places(a)' = Waits(a)' + Queued(a)' + IsHeld(a)' + IsTaken(a)'
          /\ Waits(a)' \in Nat /\ Queued(a)' \in Nat
          /\ IsHeld(a)' \in {0, 1} /\ IsTaken(a)' \in {0, 1}
      BY PlaceSumNext DEF TypeInv
    <3>3. Queued(a)' + IsTaken(a)' = Queued(a) + IsTaken(a) + One(a \in c)
      BY <2>1, InjectMoves DEF TypeInv
    <3>4. Waits(a) = Waits(a)' + One(a \in c)
      BY <1>6, <2>1, WaitingRemove DEF Waits, TypeInv, SlotOK
    <3>5. IsHeld(a)' = IsHeld(a) /\ One(a \in c) \in {0, 1}
      BY <2>1 DEF IsHeld, One
    <3> QED BY <3>1, <3>2, <3>3, <3>4, <3>5
  <2> QED BY <2>1, <2>2, PlacesKept DEF PlaceInv
<1>7. CASE UserTurnStarts
  <2>1. /\ turn.chunk = {} /\ turn'.chunk = {}
        /\ UNCHANGED <<member, tab, read, dropped, waiting, queue, progress>>
    BY <1>7 DEF UserTurnStarts, UserTurn, NoTurn, wave
  <2>2. \A a \in Members : Places(a)' = Places(a)
    BY <2>1 DEF Places
  <2> QED BY <2>1, <2>2, PlacesKept DEF PlaceInv
<1>8. CASE TurnConsumes \/ TurnCompletes \/ TurnComesUpEmpty \/ TurnFails
  BY <1>8, TurnPlaces
<1>9. ASSUME NEW e \in ending, TurnCallsBack(e) PROVE PlaceInv'
  <2>1. UNCHANGED <<member, tab, read, dropped, waiting, queue, turn, progress>>
    BY <1>9 DEF TurnCallsBack, wave
  <2> QED BY <2>1, PlacesSame
<1>10. CASE Crash
  <2>1. \A a \in Members : member'[a] = "gone"
    BY <1>10 DEF Crash
  <2>2. progress'.lines = {}
    BY <1>10 DEF Crash, NoWave
  <2> QED BY <2>1, <2>2 DEF PlaceInv, Placed, Unread
<1>11. CASE UNCHANGED vars
  BY <1>11, PlacesSame DEF vars, wave
<1> QED
  BY <1>1, <1>2, <1>3, <1>4, <1>5, <1>6, <1>7, <1>8, <1>9, <1>10, <1>11 DEF Next

\* With a tab, no result is lost on its way to the parent and none is sent twice:
\* a reported one is in exactly one place until it is read or given up.  The code
\* has no such count; it follows from how the gateway takes lines out of a record,
\* whichever of the three flushes is first, and from how a turn puts its chunk back.
THEOREM OnePlaceSafe == Spec => []OnePlace
<1>1. Init => TypeInv /\ PlaceInv
  BY TypeInvInit, PlaceInvInit
<1>2. TypeInv /\ PlaceInv /\ [Next]_vars => TypeInv' /\ PlaceInv'
  BY TypeInvStep, PlaceInvStep
<1>3. PlaceInv => OnePlace
  <2> SUFFICES ASSUME PlaceInv, tab, NEW a \in Members, member[a] = "reported"
               PROVE  Places(a) = IF a \in read \cup dropped THEN 0 ELSE 1
    BY DEF OnePlace
  <2> QED BY DEF PlaceInv, Placed
<1> QED BY <1>1, <1>2, <1>3, PTL DEF Spec
=============================================================================
