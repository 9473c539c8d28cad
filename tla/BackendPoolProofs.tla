------------------------- MODULE BackendPoolProofs -------------------------
(***************************************************************************)
(* Theorems about the pool of shared backends, for any number of keys,     *)
(* connections, prewarming passes and processes.  PoolInv is what every    *)
(* stage, lock, table and sweeper carries; each theorem adds what it needs *)
(*   SizeInv  that no insertion finds the pool full;                       *)
(*   RefInv   that the refcounts follow the attachments;                   *)
(*   BornInv  that a new backend is as old as its call noted;              *)
(*   LeakInv  that a running backend is in somebody's hands;               *)
(* and is shown for the four kinds of steps there are (StepKinds).         *)
(***************************************************************************)
EXTENDS BackendPool, FiniteSetTheorems, SequenceTheorems, TLAPS

(***************************************************************************)
(* Types.  A refcount is only known to be an integer here: that it is not  *)
(* negative is part of what RefcountExact says.                            *)
(***************************************************************************)
ProcStates == [st: {"up", "bad", "dead"}, refs: Int, born: 0..MaxDrains, pinned: BOOLEAN]

HandStages == {"stale", "record", "discard", "refuse", "swap", "prime", "attached", "closing",
               "reap"}

\* What call[c] tells at each stage, where own is the private backend of c.
CallOK(c, s, own) ==
  /\ s \in CallStates
  /\ s.pc \in HandStages => s.hand \in Procs
  /\ s.pc \notin {"out", "reap"} => s.key \in Keys
  /\ s.pc \in {"lockWait", "stale", "discard", "refuse"} => ~s.private
  /\ s.pc \in InPool => (s.lck = None <=> s.private)
  /\ s.pc = "swap" => s.private /\ s.lck = None /\ own # None
  /\ c \in Warmers => s.pc \in InPool \cup {"out"} /\ ~s.private

OwnOf(c, own) == IF c \in Stubs THEN own[c] ELSE None

CallInv ==
  /\ call \in [Calls -> CallStates]
  /\ \A c \in Calls : CallOK(c, call[c], OwnOf(c, private))
  /\ stage \in Stages \ {"serving", "cancelConns"} => \A c \in Stubs : call[c].pc = "out"

IndexInv ==
  /\ pooled \in [Keys -> Procs \cup {None}]
  /\ lockOf \in [Keys -> Locks \cup {None}]
  /\ reserved \in [Keys -> Nat]
  /\ draining \subseteq [key: Keys, proc: Procs, late: BOOLEAN]
  /\ epoch \in 0..MaxDrains
  /\ private \in [Stubs -> Procs \cup {None}]
  /\ proc \in [Procs -> ProcStates]
  /\ breaker \in [Keys -> Breaker!KeyStates]

\* A call waits for the lock it has noted.
LockInv ==
  /\ lock \in [Locks -> [held: BOOLEAN, waiters: Seq(Calls)]]
  /\ \A c \in Calls : call[c].pc = "lockWait" => Contains(lock[call[c].lck].waiters, c)

SweepInv ==
  /\ stopping \cup shielded \cup sweep \cup abandoned \subseteq Procs
  /\ rotate \in [busy: BOOLEAN, todo: SUBSET Procs]
  /\ (rotate.busy => epoch < MaxDrains) /\ (rotate.todo # {} => rotate.busy)
  /\ beat \in [pc: {"rest", "probe", "ping", "gone", "shut", "reap"}, todo: SUBSET (Keys \X Procs),
               cur: (Keys \X Procs) \cup {None}, shut: SUBSET Procs]
  /\ beat.pc \in {"ping", "gone"} => beat.cur \in Keys \X Procs
  /\ beat.pc \notin {"shut", "reap"} => beat.shut = {}
  /\ stage \in Stages

PoolInv == CallInv /\ IndexInv /\ LockInv /\ SweepInv

(***************************************************************************)
(* What the properties need beyond the types.                              *)
(***************************************************************************)
\* The connections attached to p.
Attached(p) == { c \in Stubs : call[c].pc \in {"attached", "closing"} /\ call[c].hand = p }

\* A connection cancelled late stays counted.
RefInv ==
  \A p \in Procs : /\ proc[p].refs >= Cardinality(Attached(p))
                   /\ "lateCancel" \notin Events => proc[p].refs = Cardinality(Attached(p))

\* A backend still to be recorded was started in the epoch its call noted.
BornInv ==
  /\ NoStalePooled
  /\ \A c \in Calls : call[c].pc = "record" /\ Alive(call[c].hand) =>
                        proc[call[c].hand].born = call[c].epoch

(***************************************************************************)
(* What becomes of a call, and of the refcounts with it.                   *)
(***************************************************************************)
Uses(c, s, p) == c \in Stubs /\ s.pc \in {"attached", "closing"} /\ s.hand = p

CallTo(c, t, own) == t \in CallStates /\ Goes(c, t) /\ CallOK(c, t, OwnOf(c, own))

\* No process starts: st and born of p are kept, or p is dead or bad.
Calms(old, new) == /\ new.st = "up" => old.st = "up" /\ new.born = old.born
                   /\ new.st = "bad" => old.st \in {"up", "bad"}

ProcTo(c, t, procs) ==
  /\ proc' \in [Procs -> ProcStates]
  /\ \A p \in Procs : /\ Calms(procs[p], proc'[p])
                      /\ proc'[p].refs = procs[p].refs + (IF Uses(c, t, p) THEN 1 ELSE 0)

LEMMA Constants ==
  /\ Cardinality(Calls) \in Nat /\ Cardinality(Keys) \in Nat
  /\ Locks \subseteq Nat /\ None \notin Locks \cup Procs \cup Keys
  /\ MaxRetries \in Nat /\ MaxDrains \in Nat /\ MaxBackends \in Nat /\ IsFiniteSet(Calls)
<1>1. IsFiniteSet(Calls)
  BY PoolAssumption, FS_Union DEF Calls
<1>2. Cardinality(Calls) \in Nat /\ Cardinality(Keys) \in Nat
  BY <1>1, PoolAssumption, FS_CardinalityType
<1>3. Locks \subseteq Nat
  BY <1>2 DEF Locks
<1> QED BY <1>1, <1>2, <1>3, PoolAssumption

LEMMA StatesOf ==
  ASSUME NEW s \in CallStates
  PROVE  /\ s.pc \in InPool \cup {"out", "swap", "prime", "attached", "closing", "reap"}
         /\ s.key \in Keys \cup {None} /\ s.hand \in Procs \cup {None}
         /\ s.lck \in Locks \cup {None} /\ s.epoch \in 0..MaxDrains /\ s.tries \in 0..MaxRetries
         /\ s.private \in BOOLEAN /\ s.again \in BOOLEAN
         /\ s = [pc |-> s.pc, key |-> s.key, hand |-> s.hand, lck |-> s.lck, epoch |-> s.epoch,
                 tries |-> s.tries, private |-> s.private, again |-> s.again]
BY DEF CallStates

LEMMA OutIs == Out \in CallStates /\ \A c, own : CallOK(c, Out, own)
<1>1. Out \in CallStates
  BY Constants DEF Out, CallStates
<1> QED BY <1>1 DEF Out, CallOK, HandStages, InPool

\* A call that obtains a backend is out, attached or about to attach to it.
LEMMA ObtainsMoves ==
  ASSUME NEW c \in Calls, NEW s \in CallStates, s.key \in Keys, NEW p \in Procs,
         NEW procs \in [Procs -> ProcStates], NEW own,
         reserved \in [Keys -> Nat], Obtains(c, s, p, procs)
  PROVE  \E t \in CallStates :
           /\ CallTo(c, t, own) /\ ProcTo(c, t, procs) /\ reserved' \in [Keys -> Nat]
           /\ t.pc \in {"out", "attached", "prime"}
<1>1. s.private \in BOOLEAN
  BY StatesOf
<1>2. c \in Stubs \/ c \in Warmers
  BY DEF Calls
<1>3. CASE c \in Warmers /\ proc' = [procs EXCEPT ![p].pinned = TRUE] /\ Goes(c, Out) /\ UNCHANGED reserved
  <2>1. CallTo(c, Out, own)
    BY <1>3, OutIs DEF CallTo
  <2>2. ProcTo(c, Out, procs)
    <3>1. proc' \in [Procs -> ProcStates]
      BY <1>3 DEF ProcStates
    <3>2. \A q \in Procs : ~Uses(c, Out, q)
      BY DEF Uses, Out
    <3>3. \A q \in Procs : proc'[q].st = procs[q].st /\ proc'[q].born = procs[q].born
                             /\ proc'[q].refs = procs[q].refs /\ procs[q].refs \in Int /\ procs[q].st \in {"up", "bad", "dead"}
      BY <1>3 DEF ProcStates
    <3> QED BY <3>1, <3>2, <3>3 DEF ProcTo, Calms
  <2> QED BY <1>3, <2>1, <2>2, OutIs DEF Out
<1>4. CASE /\ c \in Stubs /\ ~s.again
           /\ proc' = [procs EXCEPT ![p].refs = @ + 1]
           /\ Goes(c, [Out EXCEPT !.pc = "attached", !.key = s.key, !.hand = p, !.private = s.private])
           /\ UNCHANGED reserved
  <2> DEFINE t == [Out EXCEPT !.pc = "attached", !.key = s.key, !.hand = p, !.private = s.private]
  <2>1. t \in CallStates /\ t.pc = "attached" /\ t.hand = p /\ t.key \in Keys
    BY <1>1, OutIs DEF CallStates
  <2>2. Goes(c, t)
    BY <1>4
  <2> HIDE DEF t
  <2>3. CallOK(c, t, OwnOf(c, own))
    BY <1>4, <2>1, PoolAssumption DEF CallOK, InPool
  <2>4. ProcTo(c, t, procs)
    <3>1. proc' \in [Procs -> ProcStates]
      BY <1>4 DEF ProcStates
    <3>2. \A q \in Procs : Uses(c, t, q) <=> q = p
      BY <1>4, <2>1 DEF Uses
    <3>3. \A q \in Procs : proc'[q].st = procs[q].st /\ proc'[q].born = procs[q].born
                             /\ proc'[q].refs = procs[q].refs + (IF q = p THEN 1 ELSE 0)
                             /\ procs[q].st \in {"up", "bad", "dead"}
      BY <1>4 DEF ProcStates
    <3> QED BY <3>1, <3>2, <3>3 DEF ProcTo, Calms
  <2> QED BY <1>4, <2>1, <2>2, <2>3, <2>4 DEF CallTo
<1>5. CASE /\ c \in Stubs /\ s.again
           /\ proc' = procs
           /\ Goes(c, [Out EXCEPT !.pc = "prime", !.key = s.key, !.hand = p, !.private = s.private])
           /\ reserved' = IF s.private THEN reserved ELSE [reserved EXCEPT ![s.key] = @ + 1]
  <2> DEFINE t == [Out EXCEPT !.pc = "prime", !.key = s.key, !.hand = p, !.private = s.private]
  <2>1. t \in CallStates /\ t.pc = "prime" /\ t.hand = p /\ t.key \in Keys
    BY <1>1, OutIs DEF CallStates
  <2>2. Goes(c, t)
    BY <1>5
  <2> HIDE DEF t
  <2>3. CallOK(c, t, OwnOf(c, own))
    BY <1>5, <2>1, PoolAssumption DEF CallOK, InPool
  <2>4. ProcTo(c, t, procs)
    <3>1. \A q \in Procs : ~Uses(c, t, q) /\ procs[q].refs \in Int /\ procs[q].st \in {"up", "bad", "dead"}
      BY <2>1 DEF Uses, ProcStates
    <3> QED BY <1>5, <3>1 DEF ProcTo, Calms
  <2>5. reserved' \in [Keys -> Nat]
    BY <1>5
  <2> QED BY <1>5, <2>1, <2>2, <2>3, <2>4, <2>5 DEF CallTo
<1> QED BY <1>2, <1>3, <1>4, <1>5 DEF Obtains

(***************************************************************************)
(* Locks and breaker.                                                      *)
(***************************************************************************)
LockStates == [held: BOOLEAN, waiters: Seq(Calls)]
LockMaps == [Keys -> Locks \cup {None}]
Breakers == [Keys -> Breaker!KeyStates]

\* Nobody but c leaves the queue of a lock.
Keeps(locks, new, c) ==
  /\ new \in [Locks -> LockStates]
  /\ \A l \in Locks, d \in Calls \ {c} : Contains(locks[l].waiters, d) => Contains(new[l].waiters, d)

LEMMA FreedKeeps ==
  ASSUME NEW locks \in [Locks -> LockStates], NEW l \in Locks, NEW c, NEW b \in BOOLEAN
  PROVE  Keeps(locks, [locks EXCEPT ![l].held = b], c)
<1> DEFINE new == [locks EXCEPT ![l].held = b]
<1>1. new \in [Locks -> LockStates]
  BY DEF LockStates
<1>2. \A m \in Locks : new[m].waiters = locks[m].waiters
  BY DEF LockStates
<1> HIDE DEF new
<1> QED BY <1>1, <1>2 DEF Keeps, new

LEMMA ReapedMap ==
  ASSUME NEW map \in LockMaps, NEW locks, NEW k, NEW l, NEW occupied
  PROVE  LockReaped(map, locks, k, l, occupied) \in LockMaps
BY DEF LockReaped, LockMaps

LEMMA BreakerForgets ==
  ASSUME breaker \in Breakers, NEW k, Breaker!Forget(k)
  PROVE  breaker' \in Breakers
<1>1. Breaker!Clear \in Breaker!KeyStates
  BY DEF Breaker!Clear, Breaker!KeyStates
<1> QED BY <1>1 DEF Breaker!Forget, Breakers

LEMMA BreakerNotes ==
  ASSUME breaker \in Breakers, NEW k \in Keys, NotesDeath(k)
  PROVE  breaker' \in Breakers
<1>1. CASE Breaker!RecordDeath(k)
  <2>1. PICK s \in Breaker!AfterDeath(breaker[k]), F \in SUBSET Keys :
          breaker' = [j \in Keys |-> IF j \in F THEN Breaker!Clear ELSE IF j = k THEN s ELSE breaker[j]]
    BY <1>1 DEF Breaker!RecordDeath
  <2>2. Breaker!Clear \in Breaker!KeyStates
    BY DEF Breaker!Clear, Breaker!KeyStates
  <2>3. s \in Breaker!KeyStates
    <3>1. breaker[k].recent \in Nat
      BY DEF Breakers, Breaker!KeyStates
    <3>2. PICK n \in 1..(breaker[k].recent + 1) :
            s = [recent |-> n, open |-> breaker[k].open \/ n >= FastDeathLimit]
      BY DEF Breaker!AfterDeath
    <3> DEFINE b == breaker[k].open \/ n >= FastDeathLimit
    <3>3. b \in BOOLEAN /\ n \in Nat
      BY <3>1
    <3> HIDE DEF b
    <3>4. s = [recent |-> n, open |-> b]
      BY <3>2 DEF b
    <3> QED BY <3>3, <3>4 DEF Breaker!KeyStates
  <2> QED BY <2>1, <2>2, <2>3 DEF Breakers
<1> QED BY <1>1 DEF NotesDeath

SpawnStates == {"spawn", "out"}

\* A call that asks the breaker spawns, or it is refused and leaves the lock.
LEMMA SpawningMoves ==
  ASSUME NEW c \in Calls, NEW s \in CallStates, s.key \in Keys, epoch \in 0..MaxDrains,
         s.lck = None <=> s.private, c \in Warmers => ~s.private, Goes(c, Spawning(s)), NEW own
  PROVE  /\ CallTo(c, Spawning(s), own) /\ Spawning(s).pc = "spawn"
<1> DEFINE t == Spawning(s)
<1>1. t \in CallStates
  BY DEF Spawning, CallStates, InPool
<1>2. t.pc = "spawn" /\ t.key = s.key /\ t.lck = s.lck /\ t.private = s.private
  BY DEF Spawning, CallStates
<1> HIDE DEF t
<1>3. CallOK(c, t, OwnOf(c, own))
  BY <1>1, <1>2 DEF CallOK, HandStages, InPool
<1> QED BY <1>1, <1>2, <1>3 DEF CallTo, t

LEMMA AsksMoves ==
  ASSUME NEW c \in Calls, NEW s \in CallStates, s.key \in Keys, s.lck \in Locks, ~s.private,
         epoch \in 0..MaxDrains, breaker \in Breakers,
         NEW locks \in [Locks -> LockStates], NEW map \in LockMaps, NEW own,
         Asks(c, s, locks, map)
  PROVE  /\ Keeps(locks, lock', c) /\ lockOf' \in LockMaps /\ breaker' \in Breakers
         /\ \E t \in CallStates : CallTo(c, t, own) /\ t.pc \in SpawnStates
<1>1. s.lck # None
  BY Constants
<1>2. CASE /\ Goes(c, Spawning(s)) /\ lock' = locks /\ lockOf' = map
           /\ Breaker!Forget(s.key) \/ UNCHANGED breaker
  <2>1. Keeps(locks, lock', c)
    BY <1>2 DEF Keeps
  <2>2. CallTo(c, Spawning(s), own) /\ Spawning(s).pc = "spawn"
    BY <1>1, <1>2, SpawningMoves
  <2>3. breaker' \in Breakers
    BY <1>2, BreakerForgets
  <2> QED BY <1>2, <2>1, <2>2, <2>3 DEF CallTo, SpawnStates
<1>3. CASE /\ Goes(c, Out) /\ lock' = Freed(locks, s.lck) /\ UNCHANGED breaker
           /\ lockOf' = LockReaped(map, lock', s.key, s.lck, FALSE)
  <2>1. Keeps(locks, lock', c) /\ lockOf' \in LockMaps
    BY <1>3, FreedKeeps, ReapedMap DEF Freed
  <2> QED BY <1>3, <2>1, OutIs DEF CallTo, Out, SpawnStates
<1> QED BY <1>2, <1>3 DEF Asks

\* A dead backend is taken out of the pool by the call that shuts it down.
PoolTo(t) ==
  /\ pooled' \in [Keys -> Procs \cup {None}]
  /\ \A k \in Keys : pooled'[k] = pooled[k] \/ (pooled'[k] = None /\ t.pc = "stale" /\ t.hand = pooled[k])

TakenStages == {"out", "attached", "prime", "stale", "spawn", "lockWait"}

Took(c, t, procs, locks, own) ==
  /\ CallTo(c, t, own) /\ ProcTo(c, t, procs) /\ Keeps(locks, lock', c) /\ PoolTo(t)
  /\ lockOf' \in LockMaps /\ breaker' \in Breakers /\ reserved' \in [Keys -> Nat]
  /\ t.pc \in TakenStages
  /\ t.pc = "lockWait" => Contains(lock'[t.lck].waiters, c)

Maps ==
  /\ pooled \in [Keys -> Procs \cup {None}] /\ lockOf \in LockMaps /\ breaker \in Breakers
  /\ reserved \in [Keys -> Nat] /\ epoch \in 0..MaxDrains

LEMMA ProcSame ==
  ASSUME NEW procs \in [Procs -> ProcStates], proc' = procs, NEW c, NEW t,
         t.pc \notin {"attached", "closing"}
  PROVE  ProcTo(c, t, procs)
<1>1. \A p \in Procs : ~Uses(c, t, p) /\ procs[p].refs \in Int /\ procs[p].st \in {"up", "bad", "dead"}
  BY DEF Uses, ProcStates
<1> QED BY <1>1 DEF ProcTo, Calms

LEMMA PoolSame == Maps /\ UNCHANGED pooled => \A t : PoolTo(t)
BY DEF Maps, PoolTo

LEMMA EntersMoves ==
  ASSUME Maps, NEW c \in Calls, NEW s \in CallStates, s.key \in Keys, s.lck \in Locks, ~s.private,
         NEW locks \in [Locks -> LockStates], NEW map \in LockMaps,
         NEW procs \in [Procs -> ProcStates], NEW own, EntersLock(c, s, locks, map, procs)
  PROVE  \E t \in CallStates : Took(c, t, procs, locks, own)
<1> DEFINE k == s.key
           p == pooled[k]
<1>1. p \in Procs \cup {None} /\ s.lck # None /\ None \notin Procs
  BY Constants DEF Maps
<1>2. CASE /\ p # None /\ Obtains(c, s, p, procs)
           /\ lock' = Freed(locks, s.lck) /\ lockOf' = map /\ UNCHANGED <<pooled, breaker>>
  <2>1. PICK t \in CallStates : /\ CallTo(c, t, own) /\ ProcTo(c, t, procs) /\ reserved' \in [Keys -> Nat]
                                /\ t.pc \in {"out", "attached", "prime"}
    BY <1>1, <1>2, ObtainsMoves DEF Maps
  <2>2. Keeps(locks, lock', c)
    BY <1>2, FreedKeeps DEF Freed
  <2>3. lockOf' \in LockMaps /\ breaker' \in Breakers /\ PoolTo(t)
    BY <1>2, PoolSame DEF Maps
  <2> QED BY <2>1, <2>2, <2>3 DEF Took, TakenStages
<1>3. CASE /\ p # None /\ NotesDeath(k)
           /\ pooled' = [pooled EXCEPT ![k] = None]
           /\ Goes(c, [s EXCEPT !.pc = "stale", !.hand = p])
           /\ lock' = locks /\ lockOf' = map /\ proc' = procs /\ UNCHANGED reserved
  <2> DEFINE t == [s EXCEPT !.pc = "stale", !.hand = p]
  <2>0. p \in Procs
    BY <1>1, <1>3
  <2>1. t \in CallStates /\ t.pc = "stale" /\ t.hand = p
    BY <2>0 DEF CallStates, InPool
  <2>2. t.key = s.key /\ t.lck = s.lck /\ t.private = s.private
    BY DEF CallStates
  <2>3. Goes(c, t)
    BY <1>3
  <2> HIDE DEF t
  <2>4. CallTo(c, t, own)
    <3>1. CallOK(c, t, OwnOf(c, own))
      BY <1>1, <2>0, <2>1, <2>2 DEF CallOK, HandStages, InPool
    <3> QED BY <2>1, <2>3, <3>1 DEF CallTo
  <2>5. ProcTo(c, t, procs)
    BY <1>3, <2>1, ProcSame
  <2>6. Keeps(locks, lock', c)
    BY <1>3 DEF Keeps
  <2>7. PoolTo(t)
    BY <1>3, <2>1 DEF PoolTo, Maps
  <2>8. breaker' \in Breakers
    BY <1>3, BreakerNotes DEF Maps
  <2> QED BY <1>3, <2>1, <2>4, <2>5, <2>6, <2>7, <2>8 DEF Took, TakenStages, Maps
<1>4. CASE Asks(c, s, locks, map) /\ proc' = procs /\ UNCHANGED <<pooled, reserved>>
  <2>1. /\ Keeps(locks, lock', c) /\ lockOf' \in LockMaps /\ breaker' \in Breakers
        /\ \E t \in CallStates : CallTo(c, t, own) /\ t.pc \in SpawnStates
    BY <1>4, AsksMoves DEF Maps
  <2>2. PICK t \in CallStates : CallTo(c, t, own) /\ t.pc \in SpawnStates
    BY <2>1
  <2>3. ProcTo(c, t, procs)
    BY <1>4, <2>2, ProcSame DEF SpawnStates
  <2>4. PoolTo(t) /\ reserved' \in [Keys -> Nat]
    BY <1>4, PoolSame DEF Maps
  <2> QED BY <2>1, <2>2, <2>3, <2>4 DEF Took, TakenStages, SpawnStates
<1> QED BY <1>2, <1>3, <1>4 DEF EntersLock

LEMMA Joins ==
  ASSUME NEW locks \in [Locks -> LockStates], NEW l \in Locks, NEW c \in Calls
  PROVE  LET new == [locks EXCEPT ![l].waiters = Append(@, c)]
         IN Keeps(locks, new, c) /\ Contains(new[l].waiters, c)
<1> DEFINE new == [locks EXCEPT ![l].waiters = Append(@, c)]
           w == locks[l].waiters
<1>1. w \in Seq(Calls) /\ Len(w) \in Nat
  BY DEF LockStates
<1>2. /\ Append(w, c) \in Seq(Calls) /\ Len(Append(w, c)) = Len(w) + 1
      /\ Append(w, c)[Len(w) + 1] = c /\ \A i \in 1..Len(w) : Append(w, c)[i] = w[i]
  BY <1>1
<1>3. new \in [Locks -> LockStates]
  BY <1>2 DEF LockStates
<1>4. new[l].waiters = Append(w, c) /\ \A m \in Locks \ {l} : new[m] = locks[m]
  BY DEF LockStates
<1> HIDE DEF new
<1>5. Contains(new[l].waiters, c)
  BY <1>1, <1>2, <1>4 DEF Contains
<1>6. ASSUME NEW m \in Locks, NEW d \in Calls \ {c}, Contains(locks[m].waiters, d)
      PROVE  Contains(new[m].waiters, d)
  <2>1. CASE m = l
    <3>1. PICK i \in 1..Len(w) : w[i] = d
      BY <1>6, <2>1 DEF Contains
    <3>2. i \in 1..(Len(w) + 1) /\ Append(w, c)[i] = d
      BY <1>1, <1>2, <3>1
    <3> HIDE DEF w
    <3> QED BY <1>2, <1>4, <2>1, <3>2 DEF Contains
  <2>2. CASE m # l
    BY <1>4, <1>6, <2>2
  <2> QED BY <2>1, <2>2
<1> QED BY <1>3, <1>5, <1>6 DEF Keeps, new

LEMMA WithLock ==
  ASSUME NEW s \in CallStates, NEW n \in Locks
  PROVE  LET t == [s EXCEPT !.lck = n]
         IN t \in CallStates /\ t.lck = n /\ t.key = s.key /\ t.private = s.private
BY DEF CallStates

LEMMA CreateMoves ==
  ASSUME Maps, NEW c \in Calls, NEW s \in CallStates, s.key \in Keys, ~s.private,
         lock \in [Locks -> LockStates],
         NEW procs \in [Procs -> ProcStates], NEW own, GetOrCreate(c, s, procs)
  PROVE  \E t \in CallStates : Took(c, t, procs, lock, own)
<1> DEFINE k == s.key
           p == pooled[k]
           l == lockOf[k]
<1>1. /\ p \in Procs \cup {None} /\ l \in Locks \cup {None} /\ None \notin Procs
      /\ lockOf \in LockMaps
  BY Constants DEF Maps, LockMaps
<1>2. CASE /\ p # None /\ Obtains(c, s, p, procs)
           /\ UNCHANGED <<pooled, lock, lockOf, breaker>>
  <2>1. PICK t \in CallStates : /\ CallTo(c, t, own) /\ ProcTo(c, t, procs) /\ reserved' \in [Keys -> Nat]
                                /\ t.pc \in {"out", "attached", "prime"}
    BY <1>1, <1>2, ObtainsMoves DEF Maps
  <2>2. Keeps(lock, lock', c)
    BY <1>2 DEF Keeps
  <2>3. lockOf' \in LockMaps /\ breaker' \in Breakers /\ PoolTo(t)
    BY <1>2, PoolSame DEF Maps
  <2> QED BY <2>1, <2>2, <2>3 DEF Took, TakenStages
<1>3. ASSUME NEW n \in Locks, NEW locks, NEW map \in LockMaps,
             locks = [lock EXCEPT ![n].held = TRUE],
             EntersLock(c, [s EXCEPT !.lck = n], locks, map, procs)
      PROVE  \E t \in CallStates : Took(c, t, procs, lock, own)
  <2> DEFINE u == [s EXCEPT !.lck = n]
  <2>1. u \in CallStates /\ u.lck = n /\ u.key = s.key /\ u.private = s.private
    BY WithLock
  <2>2. EntersLock(c, u, locks, map, procs)
    BY <1>3
  <2> HIDE DEF u
  <2>3. Keeps(lock, locks, c)
    BY <1>3, FreedKeeps
  <2>4. locks \in [Locks -> LockStates]
    BY <2>3 DEF Keeps
  <2>5. PICK t \in CallStates : Took(c, t, procs, locks, own)
    BY <2>1, <2>2, <2>4, EntersMoves
  <2>6. Keeps(lock, lock', c)
    BY <2>3, <2>5 DEF Keeps, Took
  <2> QED BY <2>5, <2>6 DEF Took
<1>4. ASSUME NEW n \in NewLocks,
             EntersLock(c, [s EXCEPT !.lck = n], [lock EXCEPT ![n].held = TRUE],
                        [lockOf EXCEPT ![k] = n], procs)
      PROVE  \E t \in CallStates : Took(c, t, procs, lock, own)
  <2>1. n \in Locks
    BY DEF NewLocks
  <2>2. [lockOf EXCEPT ![k] = n] \in LockMaps
    BY <1>1, <2>1 DEF LockMaps
  <2> QED BY <1>3, <1>4, <2>1, <2>2
<1>5. CASE /\ l # None
           /\ EntersLock(c, [s EXCEPT !.lck = l], [lock EXCEPT ![l].held = TRUE], lockOf, procs)
  BY <1>1, <1>3, <1>5
<1>6. CASE /\ l # None
           /\ lock' = [lock EXCEPT ![l].waiters = Append(@, c)]
           /\ Goes(c, [s EXCEPT !.pc = "lockWait", !.lck = l])
           /\ proc' = procs
           /\ UNCHANGED <<pooled, lockOf, reserved, breaker>>
  <2> DEFINE t == [s EXCEPT !.pc = "lockWait", !.lck = l]
  <2>0. l \in Locks /\ l # None
    BY <1>1, <1>6
  <2>1. t \in CallStates /\ t.pc = "lockWait" /\ t.lck = l
    BY <2>0 DEF CallStates, InPool
  <2>2. t.key = s.key /\ t.private = s.private
    BY DEF CallStates
  <2>3. Goes(c, t)
    BY <1>6
  <2> HIDE DEF t
  <2>4. CallTo(c, t, own)
    <3>1. CallOK(c, t, OwnOf(c, own))
      BY <2>0, <2>1, <2>2 DEF CallOK, HandStages, InPool
    <3> QED BY <2>1, <2>3, <3>1 DEF CallTo
  <2>5. Keeps(lock, lock', c) /\ Contains(lock'[t.lck].waiters, c)
    BY <1>6, <2>0, <2>1, Joins
  <2>6. ProcTo(c, t, procs) /\ PoolTo(t)
    BY <1>6, <2>1, ProcSame, PoolSame
  <2> QED BY <1>6, <2>1, <2>4, <2>5, <2>6 DEF Took, TakenStages, Maps
<1> QED BY <1>2, <1>4, <1>5, <1>6 DEF GetOrCreate

LEMMA AcquiresMoves ==
  ASSUME Maps, NEW c \in Stubs, NEW s \in CallStates, s.key \in Keys, s.lck = None,
         lock \in [Locks -> LockStates],
         NEW procs \in [Procs -> ProcStates], NEW own, Acquires(c, s, procs)
  PROVE  \E t \in CallStates : Took(c, t, procs, lock, own)
<1>0. c \in Calls /\ c \notin Warmers
  BY PoolAssumption DEF Calls
<1>1. CASE ~s.private /\ GetOrCreate(c, s, procs)
  BY <1>0, <1>1, CreateMoves
<1>2. CASE /\ s.private /\ Goes(c, Spawning(s)) /\ proc' = procs
           /\ UNCHANGED <<pooled, lock, lockOf, reserved, breaker>>
  <2>1. epoch \in 0..MaxDrains
    BY DEF Maps
  <2>2. CallTo(c, Spawning(s), own) /\ Spawning(s).pc = "spawn"
    BY <1>0, <1>2, <2>1, SpawningMoves
  <2> DEFINE t == Spawning(s)
  <2> HIDE DEF t
  <2>3. ProcTo(c, t, procs) /\ PoolTo(t)
    BY <1>2, <2>2, ProcSame, PoolSame DEF t
  <2>4. Keeps(lock, lock', c)
    BY <1>2 DEF Keeps
  <2>5. CallTo(c, t, own) /\ t.pc = "spawn" /\ t \in CallStates
    BY <2>2 DEF t, CallTo
  <2> QED BY <1>2, <2>3, <2>4, <2>5 DEF Took, TakenStages, Maps
<1> QED BY <1>1, <1>2 DEF Acquires

(***************************************************************************)
(* What the steps of a call have in common.                                *)
(***************************************************************************)
PrivateTo(c) ==
  /\ private' \in [Stubs -> Procs \cup {None}]
  /\ \A d \in Stubs \ {c} : private'[d] = private[d]

\* Who sees to p: the index, a shutdown, nobody any more -- or a call in state s.
IsKept(p) ==
  \/ \E k \in Keys : pooled[k] = p
  \/ \E c \in Stubs : private[c] = p
  \/ \E e \in draining : e.proc = p
  \/ p \in Condemned \cup abandoned

HeldStages == {"stale", "record", "discard", "refuse", "swap", "reap"}

Holds(s, p) == s.pc \in HeldStages /\ s.hand = p

\* A running backend that was kept, or held by c, still is.
Passes(c, t) ==
  \A p \in Procs : proc'[p].st # "dead" /\ (IsKept(p) \/ Holds(call[c], p)) => IsKept(p)' \/ Holds(t, p)

\* The refcounts follow the attachment of c.
Shift(c, t) ==
  \A p \in Procs :
    proc'[p].refs = proc[p].refs + (IF Uses(c, t, p) THEN 1 ELSE 0)
                                 - (IF Uses(c, call[c], p) THEN 1 ELSE 0)

\* A connection that is cancelled late leaves without being counted out.
Forgets(c, t) == "lateCancel" \in Events /\ UNCHANGED proc /\ t.pc = "out"

\* A process starts for c.
Starts(c, t) ==
  /\ call[c].pc = "spawn" /\ t.pc = "record" /\ t.hand \in Fresh /\ t.epoch = call[c].epoch
  /\ proc' = [proc EXCEPT ![t.hand] = [NoProc EXCEPT !.st = "up", !.born = call[c].epoch]]
  /\ UNCHANGED pooled

Acts(c, t) ==
  /\ CallTo(c, t, private') /\ (Shift(c, t) \/ Forgets(c, t) \/ Starts(c, t)) /\ PrivateTo(c)
  /\ Passes(c, t)
  /\ proc' \in [Procs -> ProcStates]
  /\ Keeps(lock, lock', c) /\ (t.pc = "lockWait" => Contains(lock'[t.lck].waiters, c))
  /\ Maps'
  /\ UNCHANGED <<draining, epoch, sweep, rotate, beat, stage>>
  /\ stopping' \cup shielded' \cup abandoned' \subseteq Procs

Calm == \A p \in Procs : Calms(proc[p], proc'[p])

NoneAdded == \A k \in Keys : pooled'[k] \in {pooled[k], None}

\* No process starts and none enters the pool.
Quiet(c) == \E t \in CallStates : Acts(c, t) /\ Calm /\ NoneAdded /\ t.pc # "record"

LEMMA TypesOf ==
  ASSUME PoolInv
  PROVE  /\ Maps /\ lock \in [Locks -> LockStates] /\ proc \in [Procs -> ProcStates]
         /\ private \in [Stubs -> Procs \cup {None}] /\ call \in [Calls -> CallStates]
         /\ \A c \in Calls : call[c] \in CallStates /\ CallOK(c, call[c], OwnOf(c, private))
         /\ stopping \cup shielded \cup abandoned \subseteq Procs
BY DEF PoolInv, CallInv, IndexInv, LockInv, SweepInv, Maps, LockStates, LockMaps, Breakers

\* The processes before a call obtains one: its old one is let go.
LetsGo(c, procs) ==
  /\ procs \in [Procs -> ProcStates]
  /\ \A p \in Procs : /\ Calms(proc[p], procs[p])
                      /\ procs[p].refs = proc[p].refs - (IF Uses(c, call[c], p) THEN 1 ELSE 0)

LEMMA CalmsThrough ==
  ASSUME NEW a, NEW b, NEW d, Calms(a, b), Calms(b, d)
  PROVE  Calms(a, d)
BY DEF Calms

\* Shown for every process at once, a shift and a calm add up.
LEMMA ProcThrough ==
  ASSUME proc \in [Procs -> ProcStates], NEW c, NEW t, NEW procs, LetsGo(c, procs), ProcTo(c, t, procs)
  PROVE  Shift(c, t) /\ Calm
<1>1. Calm
  BY CalmsThrough DEF LetsGo, ProcTo, Calm
<1>2. ASSUME NEW p \in Procs
      PROVE  proc'[p].refs = proc[p].refs + (IF Uses(c, t, p) THEN 1 ELSE 0)
                                          - (IF Uses(c, call[c], p) THEN 1 ELSE 0)
  <2>1. /\ proc[p].refs \in Int
        /\ procs[p].refs = proc[p].refs - (IF Uses(c, call[c], p) THEN 1 ELSE 0)
        /\ proc'[p].refs = procs[p].refs + (IF Uses(c, t, p) THEN 1 ELSE 0)
    BY DEF LetsGo, ProcTo, ProcStates
  <2> QED BY <2>1
<1> QED BY <1>1, <1>2 DEF Shift

LEMMA ProcSettles ==
  ASSUME PoolInv, NEW c, NEW t, NEW procs, LetsGo(c, procs), ProcTo(c, t, procs)
  PROVE  Shift(c, t) /\ Calm /\ proc' \in [Procs -> ProcStates]
<1>1. proc \in [Procs -> ProcStates]
  BY TypesOf
<1>2. Shift(c, t) /\ Calm
  BY <1>1, ProcThrough
<1> QED BY <1>2 DEF ProcTo

LEMMA TookQuiet ==
  ASSUME PoolInv, NEW c \in Calls, NEW procs, LetsGo(c, procs),
         call[c].pc \in HeldStages => proc'[call[c].hand].st = "dead",
         NEW t \in CallStates, Took(c, t, procs, lock, private),
         UNCHANGED <<draining, epoch, private, tasks>>
  PROVE  Quiet(c)
<1>1. Shift(c, t) /\ Calm
  BY TypesOf, ProcThrough DEF Took
<1>2. PrivateTo(c) /\ private' = private
  BY TypesOf DEF PrivateTo
<1>3. Maps'
  BY TypesOf DEF Took, Maps, PoolTo, LockMaps, Breakers
<1>4. NoneAdded
  BY DEF Took, PoolTo, NoneAdded
<1>5. Keeps(lock, lock', c) /\ (t.pc = "lockWait" => Contains(lock'[t.lck].waiters, c))
  BY DEF Took
<1>6. UNCHANGED <<draining, epoch, sweep, rotate, beat, stage>> /\ stopping' \cup shielded' \cup abandoned' \subseteq Procs
  BY TypesOf DEF tasks
<1>7. CallTo(c, t, private') /\ proc' \in [Procs -> ProcStates] /\ t.pc # "record"
  BY <1>2 DEF Took, ProcTo, TakenStages
<1>8. Passes(c, t)
  <2> SUFFICES ASSUME NEW p \in Procs, proc'[p].st # "dead", IsKept(p) \/ Holds(call[c], p)
               PROVE  IsKept(p)' \/ Holds(t, p)
    BY DEF Passes
  <2>1. IsKept(p)
    BY DEF Holds
  <2>2. CASE \E k \in Keys : pooled[k] = p
    <3>1. PICK k \in Keys : pooled[k] = p
      BY <2>2
    <3>2. pooled'[k] = p \/ (t.pc = "stale" /\ t.hand = p)
      BY <3>1 DEF Took, PoolTo
    <3> QED BY <3>2 DEF IsKept, Holds, HeldStages
  <2> QED BY <2>1, <2>2 DEF IsKept, Condemned, tasks
<1>9. Acts(c, t)
  BY <1>1, <1>2, <1>3, <1>5, <1>6, <1>7, <1>8 DEF Acts
<1> QED BY <1>1, <1>4, <1>7, <1>9 DEF Quiet

LEMMA CalmsSame == \A x \in ProcStates : Calms(x, x)
BY DEF Calms, ProcStates

LEMMA StoppedDead == ASSUME PoolInv, NEW q \in Procs PROVE Stopped(q)[q].st = "dead"
BY TypesOf DEF Stopped, NoProc

\* Processes that are not used by c, and those it stops or leaves.
LEMMA LetsGoSame ==
  ASSUME PoolInv, NEW c \in Calls, call[c].pc \notin {"attached", "closing"}
  PROVE  LetsGo(c, proc)
<1>1. \A p \in Procs : ~Uses(c, call[c], p) /\ proc[p].refs \in Int /\ Calms(proc[p], proc[p])
  BY TypesOf, CalmsSame DEF Uses, ProcStates
<1> QED BY <1>1, TypesOf DEF LetsGo

LEMMA LetsGoStopped ==
  ASSUME PoolInv, NEW c \in Calls, call[c].pc \notin {"attached", "closing"}, NEW q \in Procs
  PROVE  LetsGo(c, Stopped(q))
<1> DEFINE new == Stopped(q)
<1>1. proc \in [Procs -> ProcStates] /\ 0 \in 0..MaxDrains
  BY TypesOf, Constants
<1>2. new \in [Procs -> ProcStates] /\ new[q].st = "dead" /\ new[q].refs = proc[q].refs
  <2> DEFINE r == [NoProc EXCEPT !.refs = proc[q].refs]
  <2>1. NoProc \in ProcStates /\ NoProc.st = "dead"
    BY <1>1 DEF NoProc, ProcStates
  <2>2. r \in ProcStates /\ r.st = "dead" /\ r.refs = proc[q].refs
    BY <1>1, <2>1 DEF ProcStates
  <2> HIDE DEF r
  <2>3. new = [proc EXCEPT ![q] = r]
    BY DEF Stopped, r
  <2> HIDE DEF new
  <2> QED BY <1>1, <2>2, <2>3
<1>3. \A p \in Procs \ {q} : new[p] = proc[p]
  BY <1>1 DEF Stopped
<1> HIDE DEF new
<1>4. \A p \in Procs : ~Uses(c, call[c], p) /\ proc[p].refs \in Int
  BY <1>1 DEF Uses, ProcStates
<1>5. \A p \in Procs : Calms(proc[p], new[p]) /\ new[p].refs = proc[p].refs
  <2> TAKE p \in Procs
  <2>1. CASE p = q
    BY <1>2, <2>1 DEF Calms
  <2>2. CASE p # q
    BY <1>1, <1>3, <2>2, CalmsSame
  <2> QED BY <2>1, <2>2
<1> QED BY <1>2, <1>4, <1>5 DEF LetsGo, new

LEMMA LetsGoDetached ==
  ASSUME PoolInv, NEW c \in Stubs, call[c].pc \in {"attached", "closing"}, NEW q, q = call[c].hand
  PROVE  LetsGo(c, Detached(q))
<1> DEFINE new == Detached(q)
<1>0. c \in Calls
  BY DEF Calls
<1>1. proc \in [Procs -> ProcStates] /\ q \in Procs
  BY <1>0, TypesOf DEF CallOK, HandStages
<1>2. /\ new \in [Procs -> ProcStates]
      /\ \A p \in Procs : /\ new[p].st = proc[p].st /\ new[p].born = proc[p].born
                          /\ new[p].refs = proc[p].refs - (IF p = q THEN 1 ELSE 0)
  BY <1>1 DEF Detached, ProcStates
<1> HIDE DEF new
<1>3. \A p \in Procs : (Uses(c, call[c], p) <=> p = q) /\ proc[p].st \in {"up", "bad", "dead"}
  BY <1>1 DEF Uses, ProcStates
<1> QED BY <1>2, <1>3 DEF LetsGo, Calms, new

(***************************************************************************)
(* The steps of a call, one by one.                                        *)
(***************************************************************************)
LEMMA KeepsBoth ==
  ASSUME NEW locks, NEW middle, NEW new, NEW c, Keeps(locks, middle, c), Keeps(middle, new, c)
  PROVE  Keeps(locks, new, c)
BY DEF Keeps

\* The call with which a stub connects again.
Again(k, b) == [Out EXCEPT !.key = k, !.private = b, !.again = TRUE]

LEMMA AgainCall ==
  ASSUME NEW k \in Keys, NEW b \in BOOLEAN
  PROVE  /\ Again(k, b) \in CallStates /\ Again(k, b).key = k
         /\ Again(k, b).lck = None /\ Again(k, b).private = b
<1>1. Out.lck = None
  BY DEF Out
<1> QED BY <1>1, OutIs DEF Again, CallStates

LEMMA ConnectQuiet == ASSUME PoolInv, NEW c \in Stubs, Connect(c) PROVE Quiet(c)
<1>1. c \in Calls /\ call[c].pc = "out" /\ UNCHANGED <<draining, epoch, private, tasks>>
  BY DEF Calls, Connect
<1>2. PICK k \in Keys, b \in BOOLEAN : Acquires(c, [Out EXCEPT !.key = k, !.private = b], proc)
  BY DEF Connect
<1> DEFINE s == [Out EXCEPT !.key = k, !.private = b]
<1>3. s \in CallStates /\ s.key = k /\ s.lck = None
  <2>1. Out.lck = None
    BY DEF Out
  <2> QED BY <2>1, OutIs DEF CallStates
<1>4. Acquires(c, s, proc)
  BY <1>2
<1> HIDE DEF s
<1>5. PICK t \in CallStates : Took(c, t, proc, lock, private)
  BY <1>3, <1>4, TypesOf, AcquiresMoves
<1>6. LetsGo(c, proc)
  BY <1>1, LetsGoSame
<1> QED BY <1>1, <1>5, <1>6, TookQuiet DEF HeldStages

LEMMA WarmQuiet == ASSUME PoolInv, NEW c \in Warmers, Warm(c) PROVE Quiet(c)
<1>1. c \in Calls /\ call[c].pc = "out" /\ UNCHANGED <<draining, epoch, private, tasks>>
  BY DEF Calls, Warm
<1>2. PICK k \in Keys : GetOrCreate(c, [Out EXCEPT !.key = k], proc)
  BY DEF Warm
<1> DEFINE s == [Out EXCEPT !.key = k]
<1>3. s \in CallStates /\ s.key = k /\ ~s.private
  <2>1. Out.private = FALSE
    BY DEF Out
  <2> QED BY <2>1, OutIs DEF CallStates
<1>4. GetOrCreate(c, s, proc)
  BY <1>2
<1> HIDE DEF s
<1>5. PICK t \in CallStates : Took(c, t, proc, lock, private)
  BY <1>1, <1>3, <1>4, TypesOf, CreateMoves
<1>6. LetsGo(c, proc)
  BY <1>1, LetsGoSame
<1> QED BY <1>1, <1>5, <1>6, TookQuiet DEF HeldStages

LEMMA RespawnQuiet == ASSUME PoolInv, NEW c \in Stubs, Respawn(c) PROVE Quiet(c)
<1>1. c \in Calls /\ call[c].pc = "attached" /\ UNCHANGED <<draining, epoch, private, tasks>>
  BY DEF Calls, Respawn
<1> DEFINE procs == Detached(call[c].hand)
<1>2. PICK b \in BOOLEAN :
        Acquires(c, [Out EXCEPT !.key = call[c].key, !.private = b, !.again = TRUE], procs)
  BY DEF Respawn
<1> DEFINE s == [Out EXCEPT !.key = call[c].key, !.private = b, !.again = TRUE]
<1>3. s \in CallStates /\ s.key \in Keys /\ s.lck = None
  <2>1. call[c].key \in Keys
    BY <1>1, TypesOf DEF CallOK
  <2>2. s = Again(call[c].key, b)
    BY DEF Again
  <2> HIDE DEF s
  <2> QED BY <2>1, <2>2, AgainCall
<1>4. Acquires(c, s, procs)
  BY <1>2
<1> HIDE DEF s, procs
<1>6. LetsGo(c, procs)
  BY <1>1, LetsGoDetached DEF procs
<1>5. PICK t \in CallStates : Took(c, t, procs, lock, private)
  BY <1>3, <1>4, <1>6, TypesOf, AcquiresMoves DEF LetsGo
<1> QED BY <1>1, <1>5, <1>6, TookQuiet DEF HeldStages

\* The first in a queue leaves it.
LEMMA GrantKeeps ==
  ASSUME NEW locks \in [Locks -> LockStates], NEW l \in Locks, NEW c,
         Contains(locks[l].waiters, c), Head(locks[l].waiters) = c
  PROVE  Keeps(locks, [locks EXCEPT ![l] = [held |-> TRUE, waiters |-> Tail(@.waiters)]], c)
<1> DEFINE w == locks[l].waiters
           r == [held |-> TRUE, waiters |-> Tail(w)]
           new == [locks EXCEPT ![l] = r]
<1>1. w \in Seq(Calls) /\ Len(w) \in Nat
  BY DEF LockStates
<1>2. Len(w) >= 1 /\ w # <<>>
  BY <1>1 DEF Contains
<1>3. /\ Tail(w) \in Seq(Calls) /\ Len(Tail(w)) = Len(w) - 1 /\ w[1] = c
      /\ \A i \in 1..(Len(w) - 1) : Tail(w)[i] = w[i + 1]
  BY <1>1, <1>2, HeadTailProperties
<1>4. r \in LockStates /\ r.waiters = Tail(w)
  BY <1>3 DEF LockStates
<1> HIDE DEF r
<1>5. new \in [Locks -> LockStates] /\ new[l].waiters = Tail(w) /\ \A m \in Locks \ {l} : new[m] = locks[m]
  BY <1>4
<1> HIDE DEF new
<1>6. ASSUME NEW m \in Locks, NEW d \in Calls \ {c}, Contains(locks[m].waiters, d)
      PROVE  Contains(new[m].waiters, d)
  <2>1. CASE m = l
    <3>1. PICK i \in 1..Len(w) : w[i] = d
      BY <1>6, <2>1 DEF Contains
    <3> DEFINE j == i - 1
    <3>2. i # 1
      BY <1>3, <3>1
    <3>3. j \in 1..(Len(w) - 1) /\ i = j + 1
      BY <1>1, <3>2
    <3> HIDE DEF j, w
    <3>4. Tail(w)[j] = d /\ j \in 1..Len(Tail(w))
      BY <1>3, <3>1, <3>3
    <3> QED BY <1>5, <2>1, <3>4 DEF Contains
  <2>2. CASE m # l
    BY <1>5, <1>6, <2>2
  <2> QED BY <2>1, <2>2
<1> QED BY <1>5, <1>6 DEF Keeps, new, r

LEMMA GrantedQuiet == ASSUME PoolInv, NEW c \in Calls, LockGranted(c) PROVE Quiet(c)
<1> DEFINE s == call[c]
           l == s.lck
           locks == [lock EXCEPT ![l] = [held |-> TRUE, waiters |-> Tail(@.waiters)]]
<1>1. /\ s.pc = "lockWait" /\ Head(lock[l].waiters) = c /\ UNCHANGED <<draining, epoch, private, tasks>>
      /\ EntersLock(c, s, locks, lockOf, proc)
  BY DEF LockGranted
<1>2. /\ s \in CallStates /\ s.key \in Keys /\ l \in Locks /\ ~s.private
  BY <1>1, TypesOf, StatesOf DEF CallOK, InPool
<1>3. Contains(lock[l].waiters, c)
  BY <1>1 DEF PoolInv, LockInv
<1>4. Keeps(lock, locks, c)
  BY <1>1, <1>2, <1>3, TypesOf, GrantKeeps
<1> HIDE DEF locks, s
<1>5. locks \in [Locks -> LockStates] /\ lockOf \in LockMaps
  BY <1>4, TypesOf DEF Keeps, Maps
<1>6. PICK t \in CallStates : Took(c, t, proc, locks, private)
  BY <1>1, <1>2, <1>5, TypesOf, EntersMoves
<1>7. Took(c, t, proc, lock, private)
  BY <1>4, <1>6, KeepsBoth DEF Took
<1>8. LetsGo(c, proc)
  BY <1>1, LetsGoSame DEF s
<1> QED BY <1>1, <1>7, <1>8, TookQuiet DEF HeldStages, s

LEMMA StaleStoppedQuiet == ASSUME PoolInv, NEW c \in Calls, StaleStopped(c) PROVE Quiet(c)
<1> DEFINE s == call[c]
           procs == Stopped(s.hand)
<1>1. /\ s.pc = "stale" /\ proc' = procs /\ Asks(c, s, lock, lockOf)
      /\ UNCHANGED <<pooled, reserved, draining, epoch, private, tasks>>
  BY DEF StaleStopped
<1>2. s \in CallStates /\ s.key \in Keys /\ s.lck \in Locks /\ ~s.private /\ s.hand \in Procs
  BY <1>1, TypesOf, StatesOf DEF CallOK, InPool, HandStages
<1>3. LetsGo(c, procs) /\ proc'[s.hand].st = "dead"
  BY <1>1, <1>2, LetsGoStopped, StoppedDead
<1> HIDE DEF procs
<1>4. /\ Keeps(lock, lock', c) /\ lockOf' \in LockMaps /\ breaker' \in Breakers
      /\ \E t \in CallStates : CallTo(c, t, private) /\ t.pc \in SpawnStates
  <2> HIDE DEF s
  <2> QED BY <1>1, <1>2, TypesOf, AsksMoves DEF Maps
<1>5. PICK t \in CallStates : CallTo(c, t, private) /\ t.pc \in SpawnStates
  BY <1>4
<1>6. ProcTo(c, t, procs)
  BY <1>1, <1>3, <1>5, ProcSame DEF SpawnStates, LetsGo
<1>7. PoolTo(t) /\ reserved' \in [Keys -> Nat]
  BY <1>1, TypesOf, PoolSame DEF Maps
<1>8. Took(c, t, procs, lock, private)
  BY <1>4, <1>5, <1>6, <1>7 DEF Took, TakenStages, SpawnStates
<1> QED BY <1>1, <1>3, <1>8, TookQuiet

\* What a step of c shows to be quiet.
LEMMA StepQuiet ==
  ASSUME PoolInv, NEW c \in Calls, NEW t \in CallStates, CallTo(c, t, private'), PrivateTo(c),
         Shift(c, t) \/ Forgets(c, t), Calm, proc' \in [Procs -> ProcStates], Passes(c, t),
         t.pc \notin {"record", "lockWait"},
         Keeps(lock, lock', c), lockOf' \in LockMaps, reserved' \in [Keys -> Nat],
         UNCHANGED <<pooled, breaker, draining, epoch, sweep, rotate, beat, stage>>,
         stopping' \cup shielded' \cup abandoned' \subseteq Procs
  PROVE  Quiet(c)
<1>1. Maps'
  BY TypesOf DEF Maps, LockMaps, Breakers
<1>2. Acts(c, t)
  BY <1>1 DEF Acts
<1>3. NoneAdded
  BY DEF NoneAdded
<1> QED BY <1>2, <1>3 DEF Quiet

EndStages == {"out", "reap"}

\* What happens to the private backend of c.
PassesPrivate(c, t) ==
  c \in Stubs => private'[c] = private[c] \/ private[c] = None \/ Holds(t, private[c])

LEMMA EndsMoves ==
  ASSUME PoolInv, NEW c \in Calls, Ends(c)
  PROVE  /\ PrivateTo(c)
         /\ \E t \in CallStates : CallTo(c, t, private') /\ t.pc \in EndStages /\ PassesPrivate(c, t)
<1>1. private \in [Stubs -> Procs \cup {None}]
  BY TypesOf
<1>2. CASE /\ c \in Stubs /\ private[c] # None
           /\ Goes(c, [Out EXCEPT !.pc = "reap", !.hand = private[c]])
           /\ private' = [private EXCEPT ![c] = None]
  <2> DEFINE t == [Out EXCEPT !.pc = "reap", !.hand = private[c]]
  <2>1. private[c] \in Procs
    BY <1>1, <1>2
  <2>2. t \in CallStates /\ t.pc = "reap" /\ t.hand = private[c]
    BY <2>1, OutIs DEF CallStates
  <2>3. Goes(c, t)
    BY <1>2
  <2> HIDE DEF t
  <2>4. CallOK(c, t, OwnOf(c, private'))
    BY <1>2, <2>1, <2>2, PoolAssumption DEF CallOK, InPool
  <2>5. PrivateTo(c)
    BY <1>1, <1>2 DEF PrivateTo
  <2>6. PassesPrivate(c, t)
    BY <2>2 DEF PassesPrivate, Holds, HeldStages
  <2> QED BY <2>2, <2>3, <2>4, <2>5, <2>6 DEF CallTo, EndStages
<1>3. CASE Goes(c, Out) /\ UNCHANGED private
  <2>1. PrivateTo(c)
    BY <1>1, <1>3 DEF PrivateTo
  <2>2. PassesPrivate(c, Out)
    BY <1>3 DEF PassesPrivate
  <2> QED BY <1>3, <2>1, <2>2, OutIs DEF CallTo, EndStages, Out
<1> QED BY <1>2, <1>3 DEF Ends

LEMMA FailsMoves ==
  ASSUME PoolInv, NEW c \in Calls, Fails(c)
  PROVE  Keeps(lock, lock', c) /\ lockOf' \in LockMaps /\ Ends(c)
<1> DEFINE k == call[c].key
           l == call[c].lck
<1>1. l \in Locks \cup {None} /\ lock \in [Locks -> LockStates] /\ lockOf \in LockMaps
  BY TypesOf, StatesOf DEF Maps
<1>2. CASE l = None /\ UNCHANGED <<lock, lockOf>>
  BY <1>1, <1>2 DEF Keeps, Fails
<1>3. CASE /\ l # None /\ lock' = Freed(lock, l)
           /\ lockOf' = LockReaped(lockOf, lock', k, l, pooled[k] # None)
  <2>1. Keeps(lock, lock', c)
    BY <1>1, <1>3, FreedKeeps DEF Freed
  <2> QED BY <1>1, <1>3, <2>1, ReapedMap DEF Fails
<1> QED BY <1>2, <1>3 DEF Fails

\* The tasks that shut backends down keep theirs.
Grows == stopping \subseteq stopping' /\ shielded \subseteq shielded' /\ abandoned \subseteq abandoned'

\* The backend c has held is dead, or somebody else's.
GivenUp(c) ==
  call[c].pc \in HeldStages =>
    proc'[call[c].hand].st = "dead" \/ call[c].hand \in shielded' \cup abandoned'

LEMMA StepPasses ==
  ASSUME PoolInv, NEW c \in Calls, NEW t, PrivateTo(c), PassesPrivate(c, t), Grows,
         UNCHANGED <<pooled, draining, sweep, rotate, beat>>,
         \A p \in Procs : proc'[p].st # "dead" /\ Holds(call[c], p) => IsKept(p)' \/ Holds(t, p)
  PROVE  Passes(c, t)
<1> SUFFICES ASSUME NEW p \in Procs, IsKept(p) PROVE IsKept(p)' \/ Holds(t, p)
  BY DEF Passes
<1>1. CASE \E d \in Stubs : private[d] = p
  <2>1. PICK d \in Stubs : private[d] = p
    BY <1>1
  <2>2. private'[d] = p \/ Holds(t, p)
    BY <2>1, Constants DEF PrivateTo, PassesPrivate
  <2> QED BY <2>2 DEF IsKept
<1>2. CASE p \in Condemned \cup abandoned
  <2>1. p \in (Condemned \cup abandoned)'
    BY <1>2 DEF Grows, Condemned
  <2> QED BY <2>1 DEF IsKept
<1>3. CASE \E k \in Keys : pooled[k] = p
  BY <1>3 DEF IsKept
<1>4. CASE \E e \in draining : e.proc = p
  BY <1>4 DEF IsKept
<1> QED BY <1>1, <1>2, <1>3, <1>4 DEF IsKept

LEMMA GivenUpPasses ==
  ASSUME NEW c, GivenUp(c), NEW p, proc'[p].st # "dead", Holds(call[c], p)
  PROVE  IsKept(p)'
BY DEF GivenUp, Holds, IsKept, Condemned

\* A call that ends uses no backend.
LEMMA EndsQuiet ==
  ASSUME PoolInv, NEW c \in Calls, Ends(c), LetsGo(c, proc'), Grows, GivenUp(c),
         Keeps(lock, lock', c), lockOf' \in LockMaps, reserved' \in [Keys -> Nat],
         UNCHANGED <<pooled, breaker, draining, epoch, sweep, rotate, beat, stage>>,
         stopping' \cup shielded' \cup abandoned' \subseteq Procs
  PROVE  Quiet(c)
<1>1. PICK t \in CallStates : CallTo(c, t, private') /\ t.pc \in EndStages /\ PassesPrivate(c, t)
  BY EndsMoves
<1>2. proc' \in [Procs -> ProcStates]
  BY DEF LetsGo
<1> DEFINE procs == proc'
<1>3. procs \in [Procs -> ProcStates] /\ LetsGo(c, procs) /\ proc' = procs
  BY <1>2
<1> HIDE DEF procs
<1>4. ProcTo(c, t, procs)
  BY <1>1, <1>3, ProcSame DEF EndStages
<1>5. Shift(c, t) /\ Calm
  BY <1>3, <1>4, TypesOf, ProcThrough
<1>6. Passes(c, t)
  BY <1>1, EndsMoves, GivenUpPasses, StepPasses
<1> QED BY <1>1, <1>2, <1>5, <1>6, EndsMoves, StepQuiet DEF EndStages

LEMMA DetachesMoves ==
  ASSUME PoolInv, NEW c \in Stubs, call[c].pc \in {"attached", "closing"}, NEW inFlight, Detaches(c, inFlight)
  PROVE  LetsGo(c, proc') /\ Ends(c)
<1> DEFINE p == call[c].hand
           new == [Stopped(p) EXCEPT ![p].refs = 0]
<1>0. c \in Calls
  BY DEF Calls
<1>1. proc \in [Procs -> ProcStates] /\ p \in Procs /\ 0 \in 0..MaxDrains
  BY <1>0, TypesOf, Constants DEF CallOK, HandStages
<1>2. CASE proc' = Detached(p)
  BY <1>2, LetsGoDetached DEF Detaches
<1>3. CASE proc' = new /\ proc[p].refs = 1
  <2>1. NoProc \in ProcStates /\ NoProc.st = "dead"
    BY <1>1 DEF NoProc, ProcStates
  <2>2. /\ Stopped(p) \in [Procs -> ProcStates] /\ Stopped(p)[p].st = "dead"
        /\ \A q \in Procs \ {p} : Stopped(p)[q] = proc[q]
    BY <1>1, <2>1 DEF Stopped, ProcStates
  <2>3. /\ new \in [Procs -> ProcStates] /\ new[p].st = "dead" /\ new[p].refs = 0
        /\ \A q \in Procs \ {p} : new[q] = proc[q]
    BY <1>1, <2>2 DEF ProcStates
  <2> HIDE DEF new
  <2>4. \A q \in Procs : (Uses(c, call[c], q) <=> q = p) /\ proc[q].refs \in Int
    BY <1>1 DEF Uses, ProcStates
  <2>5. Calms(proc[p], new[p]) /\ \A q \in Procs \ {p} : Calms(proc[q], new[q])
    BY <1>1, <2>3, CalmsSame DEF Calms
  <2>6. \A q \in Procs : new[q].refs = proc[q].refs - (IF Uses(c, call[c], q) THEN 1 ELSE 0)
    <3> HIDE DEF p
    <3> QED BY <1>3, <2>3, <2>4
  <2>7. LetsGo(c, new)
    BY <2>3, <2>5, <2>6 DEF LetsGo
  <2>8. LetsGo(c, proc')
    BY <1>3, <2>7 DEF new
  <2> QED BY <2>8 DEF Detaches
<1> QED BY <1>2, <1>3 DEF Detaches

\* A call without a backend it is attached to.
LEMMA IdleFails ==
  ASSUME PoolInv, NEW c \in Calls, Fails(c), call[c].pc \notin {"attached", "closing"}, Grows, GivenUp(c),
         \/ UNCHANGED proc
         \/ \E q \in Procs : proc' = Stopped(q),
         UNCHANGED <<pooled, reserved, draining, epoch, breaker, sweep, rotate, beat, stage>>,
         stopping' \cup shielded' \cup abandoned' \subseteq Procs
  PROVE  Quiet(c)
<1>1. LetsGo(c, proc')
  BY LetsGoSame, LetsGoStopped
<1>2. reserved' \in [Keys -> Nat]
  BY TypesOf DEF Maps
<1> QED BY <1>1, <1>2, FailsMoves, EndsQuiet

LEMMA SpawnFailsQuiet == ASSUME PoolInv, NEW c \in Calls, SpawnFails(c) PROVE Quiet(c)
<1>1. stopping' \cup shielded' \cup abandoned' \subseteq Procs
  BY TypesOf DEF SpawnFails, tasks
<1>2. Grows /\ GivenUp(c)
  BY DEF SpawnFails, tasks, Grows, GivenUp, HeldStages
<1> QED BY <1>1, <1>2, IdleFails DEF SpawnFails, tasks

LEMMA RefusedQuiet == ASSUME PoolInv, NEW c \in Calls, Refused(c) PROVE Quiet(c)
<1>1. stopping' \cup shielded' \cup abandoned' \subseteq Procs
  BY TypesOf DEF Refused, tasks
<1>2. call[c].hand \in Procs
  BY TypesOf DEF Refused, CallOK, HandStages
<1>3. Grows /\ GivenUp(c)
  BY <1>2, StoppedDead DEF Refused, tasks, Grows, GivenUp
<1> QED BY <1>1, <1>2, <1>3, IdleFails DEF Refused, tasks

LEMMA DiscardedQuiet == ASSUME PoolInv, NEW c \in Calls, Discarded(c) PROVE Quiet(c)
<1> DEFINE s == call[c]
           procs == Stopped(s.hand)
<1>1. /\ s.pc = "discard" /\ proc' = procs
      /\ UNCHANGED <<pooled, reserved, draining, epoch, breaker, tasks>>
  BY DEF Discarded
<1>2. s \in CallStates /\ s.key \in Keys /\ s.lck \in Locks /\ ~s.private /\ s.hand \in Procs
  BY <1>1, TypesOf, StatesOf DEF CallOK, InPool, HandStages
<1>3. stopping' \cup shielded' \cup abandoned' \subseteq Procs
  BY <1>1, TypesOf DEF tasks
<1>6. Grows /\ GivenUp(c)
  BY <1>1, <1>2, StoppedDead DEF tasks, Grows, GivenUp
<1>4. CASE /\ s.tries < MaxRetries /\ Goes(c, Spawning([s EXCEPT !.tries = @ + 1]))
           /\ UNCHANGED <<lock, lockOf, private>>
  <2> DEFINE u == [s EXCEPT !.tries = @ + 1]
  <2>1. u \in CallStates /\ u.key = s.key /\ u.lck = s.lck /\ u.private = s.private
    <3>1. s.tries + 1 \in 0..MaxRetries
      BY <1>2, <1>4, Constants, StatesOf
    <3> QED BY <1>2, <3>1 DEF CallStates
  <2>2. Goes(c, Spawning(u))
    BY <1>4
  <2> HIDE DEF u
  <2>3. CallTo(c, Spawning(u), private') /\ Spawning(u).pc = "spawn"
    <3>1. epoch \in 0..MaxDrains /\ u.lck # None
      BY <1>2, <2>1, TypesOf, Constants DEF Maps
    <3> QED BY <1>2, <2>1, <2>2, <3>1, SpawningMoves
  <2> DEFINE t == Spawning(u)
  <2> HIDE DEF t
  <2>4. CallTo(c, t, private') /\ t.pc = "spawn" /\ t \in CallStates
    BY <2>3 DEF t, CallTo
  <2>5. LetsGo(c, procs)
    BY <1>1, <1>2, LetsGoStopped
  <2>6. ProcTo(c, t, procs)
    BY <1>1, <2>4, <2>5, ProcSame DEF LetsGo
  <2>7. Shift(c, t) /\ Calm /\ proc' \in [Procs -> ProcStates]
    BY <2>5, <2>6, ProcSettles
  <2>8. PrivateTo(c) /\ Keeps(lock, lock', c) /\ lockOf' \in LockMaps /\ reserved' \in [Keys -> Nat]
    BY <1>1, <1>4, TypesOf DEF PrivateTo, Keeps, Maps
  <2>9. Passes(c, t)
    <3>1. PassesPrivate(c, t)
      BY <1>4 DEF PassesPrivate
    <3> QED BY <1>1, <1>6, <2>8, <3>1, GivenUpPasses, StepPasses DEF tasks
  <2> QED BY <1>1, <1>3, <2>4, <2>7, <2>8, <2>9, StepQuiet DEF tasks
<1>5. CASE Fails(c)
  BY <1>1, <1>2, <1>3, <1>5, <1>6, IdleFails DEF tasks
<1> QED BY <1>4, <1>5 DEF Discarded

LEMMA ReapedQuiet == ASSUME PoolInv, NEW c \in Stubs, Reaped(c) PROVE Quiet(c)
<1>1. /\ c \in Calls /\ call[c].pc = "reap" /\ proc' = Stopped(call[c].hand) /\ Goes(c, Out)
      /\ UNCHANGED <<index, breaker, tasks>>
  BY DEF Calls, Reaped
<1>2. call[c].hand \in Procs
  BY <1>1, TypesOf DEF CallOK, HandStages
<1> DEFINE procs == Stopped(call[c].hand)
<1>3. LetsGo(c, procs) /\ proc' = procs
  BY <1>1, <1>2, LetsGoStopped
<1> HIDE DEF procs
<1>4. CallTo(c, Out, private') /\ Out.pc = "out"
  BY <1>1, OutIs DEF CallTo, Out
<1>5. ProcTo(c, Out, procs)
  BY <1>3, <1>4, ProcSame DEF LetsGo
<1>6. Shift(c, Out) /\ Calm /\ proc' \in [Procs -> ProcStates]
  BY <1>3, <1>5, ProcSettles
<1>7. PrivateTo(c) /\ Keeps(lock, lock', c) /\ lockOf' \in LockMaps /\ reserved' \in [Keys -> Nat]
  BY <1>1, TypesOf DEF PrivateTo, Keeps, Maps, index
<1>8. stopping' \cup shielded' \cup abandoned' \subseteq Procs
  BY <1>1, TypesOf DEF tasks
<1>9. Passes(c, Out)
  <2>1. Grows /\ GivenUp(c) /\ PassesPrivate(c, Out)
    BY <1>1, <1>2, StoppedDead DEF tasks, index, Grows, GivenUp, PassesPrivate
  <2> QED BY <1>1, <1>7, <2>1, GivenUpPasses, StepPasses DEF tasks, index
<1> QED BY <1>1, <1>4, <1>6, <1>7, <1>8, <1>9, OutIs, StepQuiet DEF tasks, index

LEMMA ClosesQuiet ==
  ASSUME PoolInv, NEW c \in Stubs, call[c].pc = "attached", Closes(c), Grows,
         UNCHANGED <<pooled, lock, lockOf, reserved, draining, epoch, breaker, sweep, rotate, beat, stage>>,
         stopping' \cup shielded' \cup abandoned' \subseteq Procs
  PROVE  Quiet(c)
<1>1. c \in Calls
  BY DEF Calls
<1>2. Keeps(lock, lock', c) /\ lockOf' \in LockMaps /\ reserved' \in [Keys -> Nat]
  BY TypesOf DEF Keeps, Maps
<1>3. CASE Detaches(c, FALSE)
  <2>1. GivenUp(c)
    BY DEF GivenUp, HeldStages
  <2> QED BY <1>1, <1>2, <1>3, <2>1, DetachesMoves, EndsQuiet
<1>4. CASE call' = [call EXCEPT ![c].pc = "closing"] /\ UNCHANGED <<proc, private>>
  <2> DEFINE t == [call[c] EXCEPT !.pc = "closing"]
  <2>1. call[c] \in CallStates /\ call[c].hand \in Procs /\ call[c].key \in Keys
    BY <1>1, TypesOf DEF CallOK, HandStages
  <2>2. t \in CallStates /\ t.pc = "closing" /\ t.hand = call[c].hand /\ t.key = call[c].key
    BY <2>1 DEF CallStates
  <2>3. Goes(c, t)
    BY <1>1, <1>4, TypesOf DEF Goes
  <2> HIDE DEF t
  <2>4. CallTo(c, t, private')
    <3>1. CallOK(c, t, OwnOf(c, private'))
      BY <1>1, <2>1, <2>2, PoolAssumption DEF CallOK, InPool
    <3> QED BY <2>2, <2>3, <3>1 DEF CallTo
  <2>5. PrivateTo(c) /\ proc' \in [Procs -> ProcStates]
    BY <1>4, TypesOf DEF PrivateTo
  <2>6. Shift(c, t) /\ Calm
    <3>1. \A p \in Procs : /\ Uses(c, t, p) <=> Uses(c, call[c], p)
                           /\ proc[p].refs \in Int /\ Calms(proc[p], proc[p])
      BY <2>2, TypesOf, CalmsSame DEF Uses, ProcStates
    <3> QED BY <1>4, <3>1 DEF Shift, Calm
  <2>7. Passes(c, t)
    <3>1. PassesPrivate(c, t) /\ \A p : ~Holds(call[c], p)
      BY <1>4 DEF PassesPrivate, Holds, HeldStages
    <3> QED BY <1>1, <2>5, <3>1, StepPasses
  <2> QED BY <1>1, <1>2, <2>2, <2>4, <2>5, <2>6, <2>7, StepQuiet
<1> QED BY <1>3, <1>4 DEF Closes

LEMMA DisconnectQuiet == ASSUME PoolInv, NEW c \in Stubs, Disconnect(c) PROVE Quiet(c)
<1>1. stopping' \cup shielded' \cup abandoned' \subseteq Procs
  BY TypesOf DEF Disconnect, tasks
<1>2. Grows
  BY DEF Disconnect, tasks, Grows
<1> QED BY <1>1, <1>2, ClosesQuiet DEF Disconnect, tasks

LEMMA ClosedQuiet == ASSUME PoolInv, NEW c \in Stubs, Closed(c) PROVE Quiet(c)
<1>1. stopping' \cup shielded' \cup abandoned' \subseteq Procs
  BY TypesOf DEF Closed, tasks
<1>2. Keeps(lock, lock', c) /\ lockOf' \in LockMaps /\ reserved' \in [Keys -> Nat]
  BY TypesOf DEF Closed, Keeps, Maps
<1>3. LetsGo(c, proc') /\ Ends(c) /\ c \in Calls
  BY DetachesMoves DEF Closed, Calls
<1>4. Grows /\ GivenUp(c)
  BY DEF Closed, tasks, Grows, GivenUp, HeldStages
<1> QED BY <1>1, <1>2, <1>3, <1>4, EndsQuiet DEF Closed, tasks

\* A private backend is obtained.
LEMMA ObtainedQuiet ==
  ASSUME PoolInv, NEW c \in Stubs, call[c].key \in Keys, NEW p \in Procs, NEW procs, LetsGo(c, procs),
         PrivateTo(c), Obtains(c, call[c], p, procs), \A t : PassesPrivate(c, t),
         \A q \in Procs : proc'[q].st # "dead" /\ Holds(call[c], q) => IsKept(q)',
         UNCHANGED <<pooled, lock, lockOf, draining, epoch, breaker, tasks>>
  PROVE  Quiet(c)
<1>1. c \in Calls /\ call[c] \in CallStates /\ reserved \in [Keys -> Nat] /\ procs \in [Procs -> ProcStates]
  BY TypesOf DEF Calls, Maps, LetsGo
<1>2. PICK t \in CallStates : /\ CallTo(c, t, private') /\ ProcTo(c, t, procs) /\ reserved' \in [Keys -> Nat]
                              /\ t.pc \in {"out", "attached", "prime"}
  BY <1>1, ObtainsMoves
<1>3. Shift(c, t) /\ Calm /\ proc' \in [Procs -> ProcStates]
  BY <1>2, ProcSettles
<1>4. Keeps(lock, lock', c) /\ lockOf' \in LockMaps /\ stopping' \cup shielded' \cup abandoned' \subseteq Procs
  BY TypesOf DEF Keeps, Maps, tasks
<1>5. Passes(c, t)
  <2>1. Grows /\ PassesPrivate(c, t)
    BY DEF tasks, Grows
  <2> QED BY <1>1, <2>1, StepPasses DEF tasks
<1> QED BY <1>1, <1>2, <1>3, <1>4, <1>5, StepQuiet DEF tasks

LEMMA SwappedQuiet == ASSUME PoolInv, NEW c \in Stubs, Swapped(c) PROVE Quiet(c)
<1>1. c \in Calls /\ call[c].pc = "swap" /\ call[c].hand \in Procs /\ call[c].key \in Keys
  BY TypesOf DEF Calls, Swapped, CallOK, HandStages
<1>2. private[c] \in Procs
  BY <1>1, TypesOf DEF CallOK, OwnOf
<1>3. LetsGo(c, Stopped(call[c].hand))
  BY <1>1, LetsGoStopped
<1>4. PrivateTo(c)
  BY TypesOf DEF Swapped, PrivateTo
<1>5. \A q \in Procs : proc'[q].st # "dead" => ~Holds(call[c], q)
  <2> DEFINE p == call[c].hand
  <2>1. Stopped(p)[p].st = "dead" /\ p \in Procs /\ Stopped(p) \in [Procs -> ProcStates]
    BY <1>1, <1>3, StoppedDead DEF LetsGo
  <2> DEFINE procs == Stopped(p)
  <2>2. Obtains(c, call[c], private[c], procs) /\ procs \in [Procs -> ProcStates] /\ procs[p].st = "dead"
    BY <2>1 DEF Swapped
  <2> HIDE DEF procs
  <2>3. proc'[p].st = "dead"
    BY <1>2, <2>1, <2>2 DEF Obtains, ProcStates
  <2> QED BY <2>3 DEF Holds
<1>6. \A t : PassesPrivate(c, t)
  BY DEF Swapped, PassesPrivate
<1> QED BY <1>1, <1>2, <1>3, <1>4, <1>5, <1>6, ObtainedQuiet DEF Swapped

LEMMA AddPrivateQuiet == ASSUME PoolInv, NEW c \in Stubs, AddPrivate(c) PROVE Quiet(c)
<1> DEFINE s == call[c]
           old == private[c]
<1>1. /\ c \in Calls /\ s.pc = "record" /\ s.private /\ private' = [private EXCEPT ![c] = s.hand]
      /\ UNCHANGED <<pooled, lock, lockOf, draining, epoch, breaker, tasks>>
  BY DEF Calls, AddPrivate
<1>2. s \in CallStates /\ s.hand \in Procs /\ s.key \in Keys /\ s.lck = None /\ CallOK(c, s, old)
  BY <1>1, TypesOf DEF CallOK, HandStages, InPool, OwnOf
<1>3. PrivateTo(c) /\ private'[c] = s.hand /\ old \in Procs \cup {None}
  BY <1>1, <1>2, TypesOf DEF PrivateTo
<1>6. \A q \in Procs : Holds(s, q) => IsKept(q)'
  BY <1>3 DEF Holds, IsKept
<1>4. CASE old = None /\ Obtains(c, s, s.hand, proc)
  <2>1. \A t : PassesPrivate(c, t)
    BY <1>1, <1>4 DEF AddPrivate, PassesPrivate
  <2> QED BY <1>1, <1>2, <1>3, <1>4, <1>6, <2>1, LetsGoSame, ObtainedQuiet
<1>5. CASE /\ old # None
           /\ call' = [call EXCEPT ![c].pc = "swap", ![c].hand = old]
           /\ UNCHANGED <<proc, reserved>>
  <2> DEFINE t == [s EXCEPT !.pc = "swap", !.hand = old]
  <2>1. t \in CallStates /\ t.pc = "swap" /\ t.hand = old /\ t.key = s.key /\ t.lck = s.lck /\ t.private = s.private
    BY <1>2, <1>3 DEF CallStates
  <2>2. Goes(c, t)
    BY <1>1, <1>5, TypesOf DEF Goes, CallStates
  <2> HIDE DEF t
  <2>3. CallTo(c, t, private')
    <3>1. s.hand # None /\ old \in Procs
      BY <1>2, <1>3, <1>5, Constants
    <3>2. CallOK(c, t, OwnOf(c, private'))
      BY <1>1, <1>2, <1>3, <2>1, <3>1, PoolAssumption DEF CallOK, InPool, OwnOf
    <3> QED BY <2>1, <2>2, <3>2 DEF CallTo
  <2>4. ProcTo(c, t, proc) /\ LetsGo(c, proc)
    BY <1>1, <1>5, <2>1, ProcSame, LetsGoSame, TypesOf
  <2>5. Shift(c, t) /\ Calm /\ proc' \in [Procs -> ProcStates]
    BY <2>4, ProcSettles
  <2>6. /\ Keeps(lock, lock', c) /\ lockOf' \in LockMaps /\ reserved' \in [Keys -> Nat]
        /\ stopping' \cup shielded' \cup abandoned' \subseteq Procs
    BY <1>1, <1>5, TypesOf DEF Keeps, Maps, tasks
  <2>7. Passes(c, t)
    <3>1. Grows /\ PassesPrivate(c, t)
      BY <1>1, <2>1 DEF tasks, Grows, PassesPrivate, Holds, HeldStages
    <3> QED BY <1>1, <1>3, <1>6, <3>1, StepPasses DEF tasks
  <2> QED BY <1>1, <1>3, <2>1, <2>3, <2>5, <2>6, <2>7, StepQuiet DEF tasks
<1> QED BY <1>4, <1>5 DEF AddPrivate

LEMMA UnreservedType ==
  ASSUME PoolInv, NEW c \in Calls, call[c].pc = "prime"
  PROVE  Unreserved(call[c]) \in [Keys -> Nat]
<1>1. reserved \in [Keys -> Nat] /\ call[c].key \in Keys
  BY TypesOf DEF Maps, CallOK
<1> DEFINE n == reserved[call[c].key]
<1>2. (IF n > 0 THEN n - 1 ELSE 0) \in Nat
  BY <1>1
<1> QED BY <1>1, <1>2 DEF Unreserved

LEMMA PrimedQuiet == ASSUME PoolInv, NEW c \in Stubs, Primed(c) PROVE Quiet(c)
<1> DEFINE p == call[c].hand
<1>1. /\ c \in Calls /\ call[c].pc = "prime" /\ reserved' = Unreserved(call[c])
      /\ UNCHANGED <<pooled, lock, lockOf, draining, epoch, breaker, tasks>>
  BY DEF Calls, Primed
<1>2. call[c] \in CallStates /\ p \in Procs /\ call[c].key \in Keys
  BY <1>1, TypesOf DEF CallOK, HandStages
<1>3. /\ Keeps(lock, lock', c) /\ lockOf' \in LockMaps /\ reserved' \in [Keys -> Nat]
      /\ stopping' \cup shielded' \cup abandoned' \subseteq Procs
  BY <1>1, UnreservedType, TypesOf DEF Keeps, Maps, tasks
<1>6. Grows /\ GivenUp(c) /\ \A q : ~Holds(call[c], q)
  BY <1>1 DEF tasks, Grows, GivenUp, Holds, HeldStages
<1>4. CASE Ends(c) /\ UNCHANGED proc
  <2>1. LetsGo(c, proc')
    BY <1>1, <1>4, LetsGoSame
  <2> QED BY <1>1, <1>3, <1>4, <1>6, <2>1, EndsQuiet DEF tasks
<1>5. CASE /\ proc' = [proc EXCEPT ![p].refs = @ + 1]
           /\ call' = [call EXCEPT ![c].pc = "attached"]
           /\ UNCHANGED private
  <2> DEFINE t == [call[c] EXCEPT !.pc = "attached"]
  <2>1. t \in CallStates /\ t.pc = "attached" /\ t.hand = p /\ t.key = call[c].key
    BY <1>2 DEF CallStates
  <2>2. Goes(c, t)
    BY <1>1, <1>5, TypesOf DEF Goes
  <2> HIDE DEF t
  <2>3. CallTo(c, t, private')
    <3>1. CallOK(c, t, OwnOf(c, private'))
      BY <1>1, <1>2, <2>1, PoolAssumption DEF CallOK, InPool
    <3> QED BY <2>1, <2>2, <3>1 DEF CallTo
  <2>4. /\ proc' \in [Procs -> ProcStates]
        /\ \A q \in Procs : /\ proc'[q].st = proc[q].st /\ proc'[q].born = proc[q].born
                            /\ proc'[q].refs = proc[q].refs + (IF q = p THEN 1 ELSE 0)
    BY <1>2, <1>5, TypesOf DEF ProcStates
  <2>5. \A q \in Procs : /\ Uses(c, t, q) <=> q = p
                         /\ ~Uses(c, call[c], q)
                         /\ proc[q].refs \in Int /\ proc[q].st \in {"up", "bad", "dead"}
    BY <1>1, <2>1, TypesOf DEF Uses, ProcStates
  <2>6. Shift(c, t)
    <3> HIDE DEF p
    <3> QED BY <2>4, <2>5 DEF Shift
  <2>7. Calm /\ PrivateTo(c)
    BY <1>5, <2>4, <2>5, TypesOf DEF Calm, Calms, PrivateTo
  <2>8. Passes(c, t)
    <3>1. PassesPrivate(c, t)
      BY <1>5 DEF PassesPrivate
    <3> QED BY <1>1, <1>6, <2>7, <3>1, StepPasses DEF tasks
  <2> QED BY <1>1, <1>3, <2>1, <2>3, <2>4, <2>6, <2>7, <2>8, StepQuiet DEF tasks
<1> QED BY <1>4, <1>5 DEF Primed

\* Who leaves a queue leaves the others in it.
LEMMA WithoutKeeps ==
  ASSUME NEW w \in Seq(Calls), NEW c
  PROVE  /\ Without(w, c) \in Seq(Calls)
         /\ \A d \in Calls \ {c} : Contains(w, d) => Contains(Without(w, c), d)
<1>1. Len(w) \in Nat /\ DOMAIN w = 1..Len(w)
  OBVIOUS
<1>2. CASE ~Contains(w, c)
  BY <1>2 DEF Without
<1>3. CASE Contains(w, c)
  <2> DEFINE i == CHOOSE i \in DOMAIN w : w[i] = c
             p == RemoveAt(w, i)
             a == SubSeq(w, 1, i - 1)
             b == SubSeq(w, i + 1, Len(w))
  <2>1. i \in 1..Len(w) /\ w[i] = c
    BY <1>1, <1>3 DEF Contains
  <2>2. Without(w, c) = p
    BY <1>3 DEF Without
  <2> HIDE DEF i
  <2>3. a \in Seq(Calls) /\ Len(a) = i - 1 /\ \A j \in 1..(i - 1) : a[j] = w[j]
    BY <1>1, <2>1
  <2>4. b \in Seq(Calls) /\ Len(b) = Len(w) - i /\ \A j \in 1..(Len(w) - i) : b[j] = w[i + j]
    <3> DEFINE m == i + 1  n == Len(w)
    <3>0. \A y \in Nat : \A x \in 1..y :
            /\ x + 1 \in Int /\ y \in Int /\ y - (x + 1) + 1 = y - x
            /\ (IF x + 1 <= y THEN y - (x + 1) + 1 ELSE 0) = y - x
      OBVIOUS
    <3>1. m \in Int /\ n \in Int /\ n - m + 1 = Len(w) - i /\ (IF m <= n THEN n - m + 1 ELSE 0) = Len(w) - i
      BY <1>1, <2>1, <3>0
    <3>2. \A j \in m..n : w[j] \in Calls
      BY <1>1, <2>1
    <3>3. /\ SubSeq(w, m, n) \in Seq(Calls)
          /\ Len(SubSeq(w, m, n)) = IF m <= n THEN n - m + 1 ELSE 0
          /\ \A j \in 1..(n - m + 1) : SubSeq(w, m, n)[j] = w[m + j - 1]
      <4> HIDE DEF m, n
      <4> QED BY <3>1, <3>2, SubSeqProperties
    <3>4. \A j \in 1..(Len(w) - i) : m + j - 1 = i + j
      BY <1>1, <2>1
    <3>5. b \in Seq(Calls) /\ Len(b) = Len(w) - i
      BY <3>1, <3>3
    <3>6. \A j \in 1..(Len(w) - i) : b[j] = w[m + j - 1]
      BY <3>1, <3>3
    <3> HIDE DEF b, m, n
    <3>7. \A j \in 1..(Len(w) - i) : b[j] = w[i + j]
      BY <3>4, <3>6
    <3> QED BY <3>5, <3>7
  <2>5. p = a \o b
    BY DEF RemoveAt
  <2> HIDE DEF a, b, p
  <2>6. /\ p \in Seq(Calls) /\ Len(p) = Len(a) + Len(b)
        /\ \A j \in 1..(Len(a) + Len(b)) : p[j] = IF j <= Len(a) THEN a[j] ELSE b[j - Len(a)]
    BY <2>3, <2>4, <2>5, ConcatProperties
  <2>7. Len(p) = Len(w) - 1 /\ Len(a) + Len(b) = Len(w) - 1
    BY <1>1, <2>1, <2>3, <2>4, <2>6
  <2>8. ASSUME NEW d \in Calls \ {c}, Contains(w, d) PROVE Contains(p, d)
    <3>1. PICK k \in 1..Len(w) : w[k] = d
      BY <2>8 DEF Contains
    <3>2. k # i
      BY <2>1, <2>8, <3>1
    <3>3. CASE k < i
      <4>1. k \in 1..(i - 1) /\ k \in 1..(Len(w) - 1) /\ k <= Len(a)
        BY <1>1, <2>1, <2>3, <3>1, <3>3
      <4>2. p[k] = d
        BY <2>3, <2>6, <2>7, <3>1, <4>1
      <4> QED BY <2>7, <4>1, <4>2 DEF Contains
    <3>4. CASE k > i
      <4> DEFINE j == k - 1
      <4>1. /\ j \in 1..(Len(w) - 1) /\ ~(j <= Len(a)) /\ j - Len(a) \in 1..(Len(w) - i)
            /\ i + (j - Len(a)) = k
        BY <1>1, <2>1, <2>3, <3>1, <3>4
      <4> HIDE DEF j
      <4>2. p[j] = d
        BY <2>4, <2>6, <2>7, <3>1, <4>1
      <4> QED BY <2>7, <4>1, <4>2 DEF Contains
    <3> QED BY <1>1, <2>1, <3>1, <3>2, <3>3, <3>4
  <2> QED BY <2>2, <2>6, <2>8
<1> QED BY <1>2, <1>3

LEMMA LeavesKeeps ==
  ASSUME NEW locks \in [Locks -> LockStates], NEW l \in Locks, NEW c
  PROVE  Keeps(locks, [locks EXCEPT ![l].waiters = Without(@, c)], c)
<1> DEFINE new == [locks EXCEPT ![l].waiters = Without(@, c)]
<1>1. locks[l].waiters \in Seq(Calls)
  BY DEF LockStates
<1>2. Without(locks[l].waiters, c) \in Seq(Calls)
  BY <1>1, WithoutKeeps
<1>3. new \in [Locks -> LockStates] /\ new[l].waiters = Without(locks[l].waiters, c)
      /\ \A m \in Locks \ {l} : new[m] = locks[m]
  BY <1>2 DEF LockStates
<1> HIDE DEF new
<1>4. ASSUME NEW m \in Locks, NEW d \in Calls \ {c}, Contains(locks[m].waiters, d)
      PROVE  Contains(new[m].waiters, d)
  <2>1. CASE m = l
    BY <1>1, <1>3, <1>4, <2>1, WithoutKeeps
  <2>2. CASE m # l
    BY <1>3, <1>4, <2>2
  <2> QED BY <2>1, <2>2
<1> QED BY <1>3, <1>4 DEF Keeps, new

LEMMA CancelQuiet == ASSUME PoolInv, NEW c \in Calls, Cancel(c) PROVE Quiet(c)
<1> DEFINE s == call[c]
<1>1. UNCHANGED <<pooled, draining, epoch, breaker, sweep, rotate, beat, stage, stopping>>
  BY DEF Cancel
<1>2. s \in CallStates /\ CallOK(c, s, OwnOf(c, private)) /\ c \in Stubs \cup Warmers
  BY TypesOf DEF Calls
<1>3. stopping \cup shielded \cup abandoned \subseteq Procs
  BY TypesOf
<1>4. CASE /\ s.pc = "lockWait"
           /\ lock' = [lock EXCEPT ![s.lck].waiters = Without(@, c)]
           /\ lockOf' = LockReaped(lockOf, lock', s.key, s.lck, pooled[s.key] # None)
           /\ Ends(c)
           /\ UNCHANGED <<proc, reserved, abandoned, shielded>>
  <2>1. s.lck \in Locks
    BY <1>2, <1>4, StatesOf DEF CallOK, InPool
  <2>2. Keeps(lock, lock', c) /\ lockOf' \in LockMaps /\ reserved' \in [Keys -> Nat]
    BY <1>4, <2>1, TypesOf, LeavesKeeps, ReapedMap DEF Maps
  <2>3. LetsGo(c, proc')
    BY <1>4, LetsGoSame
  <2>4. Grows /\ GivenUp(c)
    BY <1>1, <1>4 DEF Grows, GivenUp, HeldStages
  <2> QED BY <1>1, <1>3, <1>4, <2>2, <2>3, <2>4, EndsQuiet
<1>5. CASE /\ s.pc \in {"stale", "record", "swap"}
           /\ Fails(c) /\ Dropped({s.hand})
           /\ UNCHANGED <<proc, reserved, shielded>>
  <2>1. abandoned' \subseteq Procs
    BY <1>3, <1>5 DEF Dropped, Running
  <2>2. Grows
    BY <1>1, <1>5 DEF Grows, Dropped
  <2>3. GivenUp(c)
    <3>1. s.hand \in Procs
      BY <1>2, <1>5 DEF CallOK, HandStages
    <3>2. s.hand \in Running \/ proc[s.hand].st = "dead"
      BY <3>1, TypesOf DEF Running, ProcStates
    <3> QED BY <1>5, <3>2 DEF GivenUp, Dropped
  <2> QED BY <1>1, <1>3, <1>5, <2>1, <2>2, <2>3, IdleFails
<1>6. CASE s.pc = "spawn" /\ Fails(c) /\ UNCHANGED <<proc, reserved, abandoned, shielded>>
  <2>1. Grows /\ GivenUp(c)
    BY <1>1, <1>6 DEF Grows, GivenUp, HeldStages
  <2> QED BY <1>1, <1>3, <1>6, <2>1, IdleFails
<1>7. CASE /\ s.pc \in {"discard", "refuse"} /\ Fails(c)
           /\ shielded' = shielded \cup {s.hand}
           /\ UNCHANGED <<proc, reserved, abandoned>>
  <2>1. s.hand \in Procs
    BY <1>2, <1>7 DEF CallOK, HandStages
  <2>2. Grows /\ GivenUp(c)
    BY <1>1, <1>7 DEF Grows, GivenUp
  <2> QED BY <1>1, <1>3, <1>7, <2>1, <2>2, IdleFails
<1>8. CASE /\ s.pc = "prime" /\ reserved' = Unreserved(s) /\ Ends(c)
           /\ UNCHANGED <<lock, lockOf, proc, abandoned, shielded>>
  <2>1. Keeps(lock, lock', c) /\ lockOf' \in LockMaps /\ reserved' \in [Keys -> Nat]
    BY <1>8, UnreservedType, TypesOf DEF Keeps, Maps
  <2>2. LetsGo(c, proc')
    BY <1>8, LetsGoSame
  <2>3. Grows /\ GivenUp(c)
    BY <1>1, <1>8 DEF Grows, GivenUp, HeldStages
  <2> QED BY <1>1, <1>3, <1>8, <2>1, <2>2, <2>3, EndsQuiet
<1>9. CASE s.pc = "attached" /\ Closes(c) /\ UNCHANGED <<lock, lockOf, reserved, abandoned, shielded>>
  <2>1. c \in Stubs
    BY <1>2, <1>9 DEF CallOK, InPool
  <2>2. Grows
    BY <1>1, <1>9 DEF Grows
  <2> QED BY <1>1, <1>3, <1>9, <2>1, <2>2, ClosesQuiet
<1>10. CASE /\ s.pc = "closing" /\ Goes(c, Out)
            /\ UNCHANGED <<lock, lockOf, proc, reserved, private, abandoned, shielded>>
  <2>1. "lateCancel" \in Events
    BY <1>2, <1>10 DEF Cancel, Cancellable, CallOK, InPool
  <2>2. Forgets(c, Out) /\ Out.pc = "out"
    BY <1>10, <2>1 DEF Forgets, Out
  <2>3. Calm /\ proc' \in [Procs -> ProcStates]
    BY <1>10, TypesOf, CalmsSame DEF Calm
  <2>4. CallTo(c, Out, private') /\ PrivateTo(c) /\ Keeps(lock, lock', c) /\ lockOf' \in LockMaps
        /\ reserved' \in [Keys -> Nat]
    BY <1>10, OutIs, TypesOf DEF CallTo, PrivateTo, Keeps, Maps
  <2>5. Passes(c, Out)
    <3>1. Grows /\ GivenUp(c) /\ PassesPrivate(c, Out)
      BY <1>1, <1>10 DEF Grows, GivenUp, HeldStages, PassesPrivate
    <3> QED BY <1>1, <2>4, <3>1, GivenUpPasses, StepPasses
  <2> QED BY <1>1, <1>3, <1>10, <2>2, <2>3, <2>4, <2>5, OutIs, StepQuiet
<1>11. CASE /\ s.pc = "reap" /\ Goes(c, Out) /\ Dropped({s.hand})
            /\ UNCHANGED <<lock, lockOf, proc, reserved, private, shielded>>
  <2>1. abandoned' \subseteq Procs
    BY <1>3, <1>11 DEF Dropped, Running
  <2>2. ProcTo(c, Out, proc) /\ LetsGo(c, proc) /\ Out.pc = "out"
    BY <1>11, TypesOf, LetsGoSame, ProcSame DEF Out
  <2>3. Shift(c, Out) /\ Calm /\ proc' \in [Procs -> ProcStates]
    BY <2>2, ProcSettles
  <2>4. CallTo(c, Out, private') /\ PrivateTo(c) /\ Keeps(lock, lock', c) /\ lockOf' \in LockMaps
        /\ reserved' \in [Keys -> Nat]
    BY <1>11, OutIs, TypesOf DEF CallTo, PrivateTo, Keeps, Maps
  <2>5. Passes(c, Out)
    <3>1. s.hand \in Procs
      BY <1>2, <1>11 DEF CallOK, HandStages
    <3>2. s.hand \in Running \/ proc[s.hand].st = "dead"
      BY <3>1, TypesOf DEF Running, ProcStates
    <3>3. GivenUp(c)
      BY <1>11, <3>2 DEF GivenUp, Dropped
    <3>4. Grows /\ PassesPrivate(c, Out)
      BY <1>1, <1>11 DEF Grows, Dropped, PassesPrivate
    <3> QED BY <1>1, <2>4, <3>3, <3>4, GivenUpPasses, StepPasses
  <2> QED BY <1>1, <1>3, <1>11, <2>1, <2>2, <2>3, <2>4, <2>5, OutIs, StepQuiet
<1> QED BY <1>4, <1>5, <1>6, <1>7, <1>8, <1>9, <1>10, <1>11 DEF Cancel

LEMMA SpawnedActs ==
  ASSUME PoolInv, NEW c \in Calls, Spawned(c)
  PROVE  \E t \in CallStates : Acts(c, t) /\ Starts(c, t)
<1>1. PICK p \in Fresh :
        /\ proc' = [proc EXCEPT ![p] = [NoProc EXCEPT !.st = "up", !.born = call[c].epoch]]
        /\ call' = [call EXCEPT ![c].pc = "record", ![c].hand = p]
        /\ abandoned' = abandoned \ {p}
  BY DEF Spawned
<1> DEFINE s == call[c]
           t == [s EXCEPT !.pc = "record", !.hand = p]
           r == [NoProc EXCEPT !.st = "up", !.born = call[c].epoch]
<1>2. s \in CallStates /\ CallOK(c, s, OwnOf(c, private)) /\ s.pc = "spawn" /\ p \in Procs
  BY TypesOf DEF Spawned, Fresh
<1>3. /\ t \in CallStates /\ t.pc = "record" /\ t.hand = p /\ t.key = s.key /\ t.lck = s.lck
      /\ t.private = s.private /\ t.epoch = s.epoch
  BY <1>2 DEF CallStates, InPool
<1>4. Goes(c, t)
  BY <1>1, <1>2, TypesOf DEF Goes, CallStates
<1>5. Starts(c, t)
  BY <1>1, <1>2, <1>3 DEF Starts, Spawned, index
<1>6. r \in ProcStates
  <2>1. 0 \in Int /\ call[c].epoch \in 0..MaxDrains
    BY <1>2, StatesOf
  <2> QED BY <2>1 DEF NoProc, ProcStates
<1>7. proc' \in [Procs -> ProcStates]
  <2> HIDE DEF r
  <2>1. proc' = [proc EXCEPT ![p] = r]
    BY <1>1 DEF r
  <2> QED BY <1>2, <1>6, <2>1, TypesOf
<1> HIDE DEF t, r
<1>8. CallTo(c, t, private')
  <2>1. CallOK(c, t, OwnOf(c, private'))
    BY <1>2, <1>3 DEF CallOK, InPool
  <2> QED BY <1>3, <1>4, <2>1 DEF CallTo
<1>9. /\ PrivateTo(c) /\ Keeps(lock, lock', c) /\ Maps'
      /\ UNCHANGED <<draining, epoch, sweep, rotate, beat, stage>>
      /\ stopping' \cup shielded' \cup abandoned' \subseteq Procs
  BY <1>1, TypesOf DEF Spawned, index, PrivateTo, Keeps, Maps, LockMaps, Breakers
<1>10. Passes(c, t)
  <2> SUFFICES ASSUME NEW q \in Procs, q # p, IsKept(q) \/ Holds(s, q) PROVE IsKept(q)'
    BY <1>3 DEF Passes, Holds, HeldStages
  <2>1. IsKept(q)
    BY <1>2 DEF Holds, HeldStages
  <2> QED BY <1>1, <2>1 DEF IsKept, Condemned, Spawned, index
<1> QED BY <1>3, <1>5, <1>7, <1>8, <1>9, <1>10 DEF Acts

LEMMA AddActs ==
  ASSUME PoolInv, NEW c \in Calls, Add(c)
  PROVE  \E t \in CallStates :
           /\ Acts(c, t) /\ Calm /\ t.pc # "record"
           /\ \/ UNCHANGED pooled
              \/ /\ call[c].pc = "record" /\ ~Stale(call[c]) /\ call[c].hand \in Procs
                 /\ call[c].key \in Keys /\ Inserts(c, call[c].key, call[c].hand)
<1> DEFINE s == call[c]
           k == s.key
           p == s.hand
<1>1. /\ s.pc = "record" /\ ~s.private
      /\ UNCHANGED <<draining, epoch, private, breaker, sweep, rotate, beat, stage, abandoned, shielded>>
  BY DEF Add
<1>2. s \in CallStates /\ k \in Keys /\ p \in Procs /\ s.lck \in Locks /\ CallOK(c, s, OwnOf(c, private))
  BY <1>1, TypesOf, StatesOf DEF CallOK, InPool, HandStages
<1>3. stopping \cup shielded \cup abandoned \subseteq Procs
  BY TypesOf
<1>4. PrivateTo(c)
  BY <1>1, TypesOf DEF PrivateTo
<1>5. CASE /\ call' = [call EXCEPT ![c].pc = IF Stale(s) THEN "discard" ELSE "refuse"]
           /\ UNCHANGED <<pooled, lock, lockOf, reserved, proc, stopping>>
  <2> DEFINE pc == IF Stale(s) THEN "discard" ELSE "refuse"
             t == [s EXCEPT !.pc = pc]
  <2>1. pc \in {"discard", "refuse"}
    OBVIOUS
  <2>2. Goes(c, t)
    BY <1>2, <1>5, TypesOf DEF Goes, CallStates
  <2> HIDE DEF pc
  <2>3. /\ t \in CallStates /\ t.pc = pc /\ t.hand = p /\ t.key = k /\ t.lck = s.lck
        /\ t.private = s.private
    BY <1>2, <2>1 DEF CallStates, InPool
  <2> HIDE DEF t
  <2>4. CallTo(c, t, private')
    <3>1. CallOK(c, t, OwnOf(c, private'))
      BY <1>1, <1>2, <2>1, <2>3 DEF CallOK, InPool
    <3> QED BY <2>2, <2>3, <3>1 DEF CallTo
  <2>5. ProcTo(c, t, proc) /\ LetsGo(c, proc)
    BY <1>1, <1>5, <2>1, <2>3, ProcSame, LetsGoSame, TypesOf
  <2>6. Shift(c, t) /\ Calm /\ proc' \in [Procs -> ProcStates]
    BY <2>5, ProcSettles
  <2>7. Keeps(lock, lock', c) /\ Maps'
    BY <1>1, <1>5, TypesOf DEF Keeps, Maps, LockMaps, Breakers
  <2>9. Passes(c, t)
    <3>1. Grows /\ PassesPrivate(c, t) /\ \A q : Holds(s, q) => Holds(t, q)
      BY <1>1, <1>5, <2>1, <2>3 DEF Grows, PassesPrivate, Holds, HeldStages
    <3> QED BY <1>1, <1>4, <1>5, <3>1, StepPasses
  <2>8. Acts(c, t)
    BY <1>1, <1>3, <1>4, <1>5, <2>1, <2>3, <2>4, <2>6, <2>7, <2>9 DEF Acts
  <2> QED BY <1>5, <2>1, <2>3, <2>6, <2>8
<1>6. CASE /\ ~Stale(s) /\ pooled[k] = None /\ Inserts(c, k, p) /\ Obtains(c, s, p, proc)
           /\ lock' = Freed(lock, s.lck)
  <2>1. PICK t \in CallStates : /\ CallTo(c, t, private') /\ ProcTo(c, t, proc) /\ reserved' \in [Keys -> Nat]
                                /\ t.pc \in {"out", "attached", "prime"}
    BY <1>2, <1>6, ObtainsMoves, TypesOf DEF Maps
  <2>2. Shift(c, t) /\ Calm /\ proc' \in [Procs -> ProcStates]
    <3>1. LetsGo(c, proc)
      BY <1>1, LetsGoSame
    <3> QED BY <2>1, <3>1, ProcSettles
  <2>3. Keeps(lock, lock', c)
    BY <1>2, <1>6, TypesOf, FreedKeeps DEF Freed
  <2>4. /\ pooled' \in [Keys -> Procs \cup {None}] /\ lockOf' \in LockMaps
        /\ stopping' \cup shielded' \cup abandoned' \subseteq Procs
    <3>1. CASE pooled' = [pooled EXCEPT ![k] = p] /\ UNCHANGED <<lockOf, stopping>>
      BY <1>1, <1>2, <1>3, <3>1, TypesOf DEF Maps, LockMaps
    <3>2. CASE \E v \in Evictable :
                 /\ pooled' = [pooled EXCEPT ![v] = None, ![k] = p]
                 /\ lockOf' = [lockOf EXCEPT ![v] = None]
                 /\ stopping' = stopping \cup {pooled[v]}
      <4>1. \A v \in Evictable : v \in Keys /\ pooled[v] \in Procs
        BY TypesOf DEF Evictable, Idle, Maps
      <4> QED BY <1>1, <1>2, <1>3, <3>2, <4>1, TypesOf DEF Maps, LockMaps
    <3> QED BY <1>6, <3>1, <3>2 DEF Inserts
  <2>5. Maps'
    BY <1>1, <2>1, <2>4, TypesOf DEF Maps, LockMaps, Breakers
  <2>7. Passes(c, t)
    <3> SUFFICES ASSUME NEW q \in Procs, IsKept(q) \/ Holds(s, q) PROVE IsKept(q)'
      BY DEF Passes
    <3>1. /\ pooled'[k] = p
          /\ \A j \in Keys \ {k} : pooled'[j] = pooled[j] \/ pooled[j] \in stopping'
          /\ stopping \subseteq stopping'
      BY <1>2, <1>6, TypesOf DEF Inserts, Maps
    <3>2. CASE \E j \in Keys : pooled[j] = q
      <4>1. PICK j \in Keys : pooled[j] = q
        BY <3>2
      <4>2. j # k
        BY <1>6, <4>1, Constants
      <4> QED BY <3>1, <4>1, <4>2 DEF IsKept, Condemned
    <3>3. CASE Holds(s, q)
      BY <1>2, <3>1, <3>3 DEF Holds, IsKept
    <3>4. CASE q \in Condemned \cup abandoned
      <4>1. q \in (Condemned \cup abandoned)'
        BY <1>1, <3>1, <3>4 DEF Condemned
      <4> QED BY <4>1 DEF IsKept
    <3> QED BY <1>1, <3>2, <3>3, <3>4 DEF IsKept
  <2>6. Acts(c, t)
    BY <1>1, <1>4, <2>1, <2>2, <2>3, <2>4, <2>5, <2>7 DEF Acts
  <2> QED BY <1>1, <1>2, <1>6, <2>1, <2>2, <2>6
<1> QED BY <1>5, <1>6 DEF Add

(***************************************************************************)
(* The steps of the others: no call moves, no process starts, none enters  *)
(* the pool, and a cutover leaves the pool empty.                          *)
(***************************************************************************)
ProcKept ==
  /\ proc' \in [Procs -> ProcStates] /\ Calm
  /\ \A p \in Procs : proc'[p].refs = proc[p].refs

KeptOn == \A p \in Procs : proc'[p].st # "dead" /\ IsKept(p) => IsKept(p)'

Stays ==
  /\ PoolInv' /\ UNCHANGED call /\ ProcKept /\ NoneAdded /\ KeptOn
  /\ epoch' = epoch \/ \A k \in Keys : pooled'[k] = None

LEMMA SameKept == ASSUME PoolInv, UNCHANGED proc PROVE ProcKept
<1>1. proc \in [Procs -> ProcStates] /\ \A p \in Procs : Calms(proc[p], proc[p])
  BY TypesOf, CalmsSame
<1> QED BY <1>1 DEF ProcKept, Calm

LEMMA StoppedKept == ASSUME PoolInv, NEW q \in Procs, proc' = Stopped(q) PROVE ProcKept
<1>1. proc \in [Procs -> ProcStates] /\ 0 \in 0..MaxDrains
  BY TypesOf, Constants
<1> DEFINE r == [NoProc EXCEPT !.refs = proc[q].refs]
<1>2. r \in ProcStates /\ r.st = "dead" /\ r.refs = proc[q].refs
  <2>1. NoProc \in ProcStates /\ NoProc.st = "dead"
    BY <1>1 DEF NoProc, ProcStates
  <2> QED BY <1>1, <2>1 DEF ProcStates
<1> HIDE DEF r
<1>3. proc' = [proc EXCEPT ![q] = r]
  BY DEF Stopped, r
<1>4. \A p \in Procs : Calms(proc[p], proc'[p]) /\ proc'[p].refs = proc[p].refs
  <2> TAKE p \in Procs
  <2>1. CASE p = q
    BY <1>1, <1>2, <1>3, <2>1 DEF Calms
  <2>2. CASE p # q
    BY <1>1, <1>3, <2>2, CalmsSame
  <2> QED BY <2>1, <2>2
<1> QED BY <1>1, <1>2, <1>3, <1>4 DEF ProcKept, Calm

LEMMA BadKept ==
  ASSUME PoolInv, NEW q \in Procs, proc[q].st # "dead", proc' = [proc EXCEPT ![q].st = "bad"]
  PROVE  ProcKept
<1>1. proc \in [Procs -> ProcStates]
  BY TypesOf
<1>2. proc' \in [Procs -> ProcStates] /\ \A p \in Procs : proc'[p].refs = proc[p].refs
  BY <1>1 DEF ProcStates
<1>3. Calms(proc[q], proc'[q]) /\ \A p \in Procs \ {q} : Calms(proc[p], proc'[p])
  <2>1. proc[q].st \in {"up", "bad"} /\ proc'[q].st = "bad"
    BY <1>1 DEF ProcStates
  <2>2. \A p \in Procs \ {q} : proc'[p] = proc[p]
    BY <1>1
  <2> QED BY <1>1, <2>1, <2>2, CalmsSame DEF Calms
<1> QED BY <1>2, <1>3 DEF ProcKept, Calm

\* The invariant of a step that leaves the calls alone.
LEMMA OthersKeep ==
  ASSUME PoolInv, UNCHANGED <<call, lock>>, IndexInv', SweepInv',
         UNCHANGED private \/ \A c \in Stubs : call[c].pc = "out",
         stage' = stage \/ stage' = "cancelConns" \/ \A c \in Stubs : call[c].pc = "out"
  PROVE  PoolInv'
<1>1. ASSUME NEW c \in Calls PROVE CallOK(c, call[c], OwnOf(c, private'))
  <2>1. CallOK(c, call[c], OwnOf(c, private))
    BY TypesOf
  <2>2. CASE UNCHANGED private
    BY <2>1, <2>2
  <2>3. CASE \A d \in Stubs : call[d].pc = "out"
    <3>1. CASE c \in Stubs
      BY <2>1, <2>3, <3>1 DEF CallOK
    <3>2. CASE c \notin Stubs
      BY <2>1, <3>2 DEF OwnOf
    <3> QED BY <3>1, <3>2
  <2> QED BY <2>2, <2>3
<1>2. stage' \in Stages \ {"serving", "cancelConns"} => \A c \in Stubs : call[c].pc = "out"
  BY DEF PoolInv, CallInv, SweepInv
<1>3. CallInv'
  BY <1>1, <1>2 DEF PoolInv, CallInv
<1>4. LockInv'
  BY DEF PoolInv, LockInv
<1> QED BY <1>3, <1>4 DEF PoolInv

LEMMA Unpools ==
  ASSUME PoolInv, NEW K \in SUBSET Keys
  PROVE  /\ Unpooled(K) \in [Keys -> Procs \cup {None}] /\ Unlocked(K) \in [Keys -> Locks \cup {None}]
         /\ \A k \in Keys : Unpooled(K)[k] \in {pooled[k], None}
         /\ \A k \in Keys : Unpooled(K)[k] = pooled[k] \/ pooled[k] \in Backends(K)
         /\ (\A k \in K : pooled[k] # None) => Backends(K) \subseteq Procs
BY DEF PoolInv, IndexInv, Unpooled, Unlocked, Backends

\* Who is evicted is condemned.
LEMMA EvictedKept ==
  ASSUME PoolInv, NEW K \in SUBSET Keys, pooled' = Unpooled(K), Backends(K) \subseteq Condemned',
         UNCHANGED <<private, abandoned, draining>>, Condemned \subseteq Condemned'
  PROVE  KeptOn
<1> SUFFICES ASSUME NEW p \in Procs, IsKept(p) PROVE IsKept(p)'
  BY DEF KeptOn
<1>1. CASE \E k \in Keys : pooled[k] = p
  BY <1>1, Unpools DEF IsKept
<1> QED BY <1>1 DEF IsKept

LEMMA IdleSweepStays == ASSUME PoolInv, IdleSweep PROVE Stays
<1>1. PICK K \in SUBSET Evictable : /\ sweep' = Backends(K)
                                    /\ pooled' = Unpooled(K) /\ lockOf' = Unlocked(K)
  BY DEF IdleSweep
<1>2. K \in SUBSET Keys /\ \A k \in K : pooled[k] # None
  BY DEF Evictable, Idle
<1>3. sweep' \subseteq Procs /\ NoneAdded
  BY <1>1, <1>2, Unpools DEF NoneAdded
<1>4. ProcKept
  BY SameKept DEF IdleSweep
<1>5. IndexInv'
  BY <1>1, <1>2, Unpools DEF PoolInv, IndexInv, IdleSweep
<1>6. SweepInv'
  BY <1>3 DEF PoolInv, SweepInv, IdleSweep
<1>7. PoolInv'
  BY <1>5, <1>6, OthersKeep DEF IdleSweep
<1>8. KeptOn
  BY <1>1, <1>2, EvictedKept DEF IdleSweep, Condemned
<1> QED BY <1>3, <1>4, <1>7, <1>8 DEF Stays, IdleSweep

\* A backend is stopped, and who stops it goes on.
LEMMA StopStays ==
  ASSUME PoolInv, NEW p \in Procs, proc' = Stopped(p), UNCHANGED <<index, call, breaker, stage>>, SweepInv',
         Condemned \cup abandoned \subseteq Condemned' \cup abandoned' \cup {p}
  PROVE  Stays
<1>1. ProcKept
  BY StoppedKept
<1>2. NoneAdded
  BY DEF NoneAdded, index
<1>3. IndexInv'
  BY <1>1 DEF PoolInv, IndexInv, ProcKept, index
<1>4. PoolInv'
  BY <1>3, OthersKeep DEF index
<1>5. KeptOn
  BY StoppedDead DEF KeptOn, IsKept, index
<1> QED BY <1>1, <1>2, <1>4, <1>5 DEF Stays, index

LEMMA SweptStays == ASSUME PoolInv, NEW p \in Procs, Swept(p) PROVE Stays
<1>1. SweepInv'
  BY DEF PoolInv, SweepInv, Swept, index
<1>2. Condemned \cup abandoned \subseteq Condemned' \cup abandoned' \cup {p}
  BY DEF Swept, Condemned
<1> QED BY <1>1, <1>2, StopStays DEF Swept

LEMMA TaskStopsStays == ASSUME PoolInv, NEW p \in Procs, TaskStops(p) PROVE Stays
<1>1. SweepInv'
  BY DEF PoolInv, SweepInv, TaskStops, index
<1>2. Condemned \cup abandoned \subseteq Condemned' \cup abandoned' \cup {p}
  BY DEF TaskStops, Condemned
<1> QED BY <1>1, <1>2, StopStays DEF TaskStops

LEMMA DiesStays == ASSUME PoolInv, NEW p \in Procs, Dies(p) PROVE Stays
<1>1. SweepInv'
  BY DEF PoolInv, SweepInv, Dies, index, tasks
<1>2. Condemned \cup abandoned \subseteq Condemned' \cup abandoned' \cup {p}
  BY DEF Dies, Condemned, tasks
<1> QED BY <1>1, <1>2, StopStays DEF Dies, tasks

LEMMA BreaksStays == ASSUME PoolInv, NEW p \in Procs, Breaks(p) PROVE Stays
<1>1. ProcKept
  BY BadKept DEF Breaks, Alive
<1>2. NoneAdded
  BY DEF NoneAdded, index, Breaks
<1>3. IndexInv'
  BY <1>1 DEF PoolInv, IndexInv, ProcKept, index, Breaks
<1>4. SweepInv'
  BY DEF PoolInv, SweepInv, Breaks, index, tasks
<1>5. PoolInv'
  BY <1>3, <1>4, OthersKeep DEF index, tasks, Breaks
<1>6. KeptOn
  BY DEF KeptOn, IsKept, Condemned, index, tasks, Breaks
<1> QED BY <1>1, <1>2, <1>5, <1>6 DEF Stays, index, Breaks

LEMMA DrainsMoves ==
  ASSUME PoolInv, Drains, epoch < MaxDrains
  PROVE  /\ epoch' \in 0..MaxDrains /\ \A k \in Keys : pooled'[k] = None
         /\ pooled' \in [Keys -> Procs \cup {None}] /\ lockOf' \in [Keys -> Locks \cup {None}]
         /\ draining' \subseteq [key: Keys, proc: Procs, late: BOOLEAN]
         /\ draining \subseteq draining'
         /\ \A k \in Keys : pooled[k] # None => \E e \in draining' : e.proc = pooled[k]
<1> DEFINE K == { k \in Keys : pooled[k] # None }
           free == { k \in K : lockOf[k] # None /\ ~lock[lockOf[k]].held
                                /\ lock[lockOf[k]].waiters = <<>> }
           new == { [key |-> k, proc |-> pooled[k], late |-> FALSE] : k \in K }
<1>1. /\ epoch' = epoch + 1 /\ draining' = draining \cup new
      /\ pooled' = Unpooled(K) /\ lockOf' = Unlocked(free)
  BY DEF Drains
<1>2. epoch' \in 0..MaxDrains
  BY <1>1, TypesOf, Constants DEF Maps
<1>3. pooled' \in [Keys -> Procs \cup {None}] /\ lockOf' \in [Keys -> Locks \cup {None}]
  BY <1>1, Unpools
<1>4. \A k \in Keys : pooled'[k] = None
  BY <1>1 DEF Unpooled
<1>5. new \subseteq [key: Keys, proc: Procs, late: BOOLEAN]
  <2>1. \A k \in K : k \in Keys /\ pooled[k] \in Procs
    BY TypesOf DEF Maps
  <2> HIDE DEF K
  <2> SUFFICES ASSUME NEW e \in new PROVE e \in [key: Keys, proc: Procs, late: BOOLEAN]
    OBVIOUS
  <2>2. PICK k \in K : e = [key |-> k, proc |-> pooled[k], late |-> FALSE]
    OBVIOUS
  <2> QED BY <2>1, <2>2
<1>7. \A k \in Keys : pooled[k] # None => \E e \in new : e.proc = pooled[k]
  <2> TAKE k \in Keys
  <2> HAVE pooled[k] # None
  <2>1. [key |-> k, proc |-> pooled[k], late |-> FALSE] \in new
    OBVIOUS
  <2> QED BY <2>1
<1> HIDE DEF new
<1>6. draining' \subseteq [key: Keys, proc: Procs, late: BOOLEAN]
  BY <1>1, <1>5 DEF PoolInv, IndexInv
<1> QED BY <1>1, <1>2, <1>3, <1>4, <1>6, <1>7

\* Who is drained is in the draining list.
LEMMA DrainedKept ==
  ASSUME PoolInv, Drains, epoch < MaxDrains, UNCHANGED private,
         \A p \in Condemned \cup abandoned : proc'[p].st # "dead" => p \in Condemned' \cup abandoned'
  PROVE  KeptOn
<1> SUFFICES ASSUME NEW p \in Procs, proc'[p].st # "dead", IsKept(p) PROVE IsKept(p)'
  BY DEF KeptOn
<1>1. CASE \E k \in Keys : pooled[k] = p
  <2>1. \E e \in draining' : e.proc = p
    BY <1>1, DrainsMoves, Constants
  <2> QED BY <2>1 DEF IsKept
<1>2. CASE \E e \in draining : e.proc = p
  <2>1. \E e \in draining' : e.proc = p
    BY <1>2, DrainsMoves
  <2> QED BY <2>1 DEF IsKept
<1> QED BY <1>1, <1>2 DEF IsKept

LEMMA RotateStays == ASSUME PoolInv, Rotate PROVE Stays
<1> DEFINE K == { k \in Keys : Idle(k) }
<1>1. /\ ~rotate.busy /\ epoch < MaxDrains
      /\ UNCHANGED <<lock, reserved, private, proc, call, breaker, sweep, beat, stage,
                     abandoned, stopping, shielded>>
  BY DEF Rotate
<1>2. ProcKept
  BY <1>1, SameKept
<1>3. CASE /\ rotate' = [busy |-> TRUE, todo |-> Backends(K)]
           /\ pooled' = Unpooled(K) /\ lockOf' = Unlocked(K)
           /\ UNCHANGED <<epoch, draining>>
  <2>1. K \in SUBSET Keys /\ \A k \in K : pooled[k] # None
    BY DEF Idle
  <2> HIDE DEF K
  <2>2. Backends(K) \subseteq Procs /\ NoneAdded
    BY <1>3, <2>1, Unpools DEF NoneAdded
  <2>3. IndexInv'
    BY <1>1, <1>3, <2>1, Unpools DEF PoolInv, IndexInv
  <2>4. SweepInv'
    BY <1>1, <1>3, <2>2 DEF PoolInv, SweepInv
  <2>5. PoolInv'
    BY <1>1, <2>3, <2>4, OthersKeep
  <2>6. KeptOn
    BY <1>1, <1>3, <2>1, EvictedKept DEF Condemned, PoolInv, SweepInv
  <2> QED BY <1>1, <1>2, <1>3, <2>2, <2>5, <2>6 DEF Stays
<1>4. CASE Drains /\ UNCHANGED rotate
  <2>1. NoneAdded
    BY <1>1, <1>4, DrainsMoves DEF NoneAdded
  <2>2. IndexInv'
    BY <1>1, <1>4, DrainsMoves DEF PoolInv, IndexInv
  <2>3. SweepInv'
    BY <1>1, <1>4 DEF PoolInv, SweepInv
  <2>4. PoolInv'
    BY <1>1, <2>2, <2>3, OthersKeep
  <2>5. KeptOn
    BY <1>1, <1>4, DrainedKept DEF Condemned
  <2> QED BY <1>1, <1>2, <1>4, <2>1, <2>4, <2>5, DrainsMoves DEF Stays
<1> QED BY <1>3, <1>4 DEF Rotate

LEMMA RotatedStays == ASSUME PoolInv, NEW p \in Procs, Rotated(p) PROVE Stays
<1>1. /\ p \in rotate.todo /\ proc' = Stopped(p)
      /\ UNCHANGED <<lock, reserved, private, call, breaker, sweep, beat, stage, abandoned,
                     stopping, shielded>>
  BY DEF Rotated
<1>2. ProcKept
  BY <1>1, StoppedKept
<1>3. rotate \in [busy: BOOLEAN, todo: SUBSET Procs] /\ epoch < MaxDrains /\ rotate.busy
  BY <1>1 DEF PoolInv, SweepInv
<1>6. proc'[p].st = "dead"
  BY <1>1, StoppedDead
<1>4. CASE /\ rotate' = [rotate EXCEPT !.todo = @ \ {p}]
           /\ UNCHANGED <<pooled, lockOf, epoch, draining>>
  <2>1. NoneAdded
    BY <1>4 DEF NoneAdded
  <2>2. IndexInv'
    BY <1>1, <1>2, <1>4 DEF PoolInv, IndexInv, ProcKept
  <2>3. SweepInv'
    <3>1. rotate' \in [busy: BOOLEAN, todo: SUBSET Procs] /\ rotate'.busy
      BY <1>3, <1>4
    <3> QED BY <1>1, <1>3, <1>4, <3>1 DEF PoolInv, SweepInv
  <2>4. PoolInv'
    BY <1>1, <2>2, <2>3, OthersKeep
  <2>5. KeptOn
    BY <1>1, <1>3, <1>4, <1>6 DEF KeptOn, IsKept, Condemned
  <2> QED BY <1>1, <1>2, <1>4, <2>1, <2>4, <2>5 DEF Stays
<1>5. CASE Drains /\ rotate.todo = {p} /\ rotate' = [busy |-> FALSE, todo |-> {}]
  <2>1. NoneAdded
    BY <1>3, <1>5, DrainsMoves DEF NoneAdded
  <2>2. IndexInv'
    BY <1>1, <1>2, <1>3, <1>5, DrainsMoves DEF PoolInv, IndexInv, ProcKept
  <2>3. SweepInv'
    BY <1>1, <1>5 DEF PoolInv, SweepInv
  <2>4. PoolInv'
    BY <1>1, <2>2, <2>3, OthersKeep
  <2>5. KeptOn
    BY <1>1, <1>3, <1>5, <1>6, DrainedKept DEF Condemned
  <2> QED BY <1>1, <1>2, <1>3, <1>5, <2>1, <2>4, <2>5, DrainsMoves DEF Stays
<1> QED BY <1>4, <1>5 DEF Rotated

LEMMA DeadlineStays == ASSUME PoolInv, NEW e \in draining, DeadlinePasses(e) PROVE Stays
<1>1. /\ draining' = (draining \ {e}) \cup {[e EXCEPT !.late = TRUE]}
      /\ UNCHANGED <<pooled, lockOf, lock, reserved, epoch, private, proc, call, breaker, tasks>>
  BY DEF DeadlinePasses
<1>2. ProcKept /\ NoneAdded
  BY <1>1, SameKept DEF NoneAdded
<1>3. IndexInv'
  <2>1. draining \subseteq [key: Keys, proc: Procs, late: BOOLEAN]
    BY DEF PoolInv, IndexInv
  <2>2. [e EXCEPT !.late = TRUE] \in [key: Keys, proc: Procs, late: BOOLEAN]
    BY <2>1
  <2> QED BY <1>1, <2>1, <2>2 DEF PoolInv, IndexInv
<1>4. SweepInv'
  BY <1>1 DEF PoolInv, SweepInv, tasks
<1>5. PoolInv'
  BY <1>1, <1>3, <1>4, OthersKeep DEF tasks
<1>6. KeptOn
  <2>1. \A d \in draining : \E f \in draining' : f.proc = d.proc
    <3>1. e.proc = [e EXCEPT !.late = TRUE].proc
      BY DEF PoolInv, IndexInv
    <3> QED BY <1>1, <3>1
  <2> QED BY <1>1, <2>1 DEF KeptOn, IsKept, Condemned, tasks
<1> QED BY <1>1, <1>2, <1>5, <1>6 DEF Stays

BeatStates ==
  [pc: {"rest", "probe", "ping", "gone", "shut", "reap"}, todo: SUBSET (Keys \X Procs),
   cur: (Keys \X Procs) \cup {None}, shut: SUBSET Procs]

LEMMA RestingIs == Resting \in BeatStates
BY DEF Resting, BeatStates

\* What a step of the heartbeat sweeper shows.
LEMMA BeatKeeps ==
  ASSUME PoolInv, UNCHANGED rest, beat' \in BeatStates, beat'.pc \in {"ping", "gone"} => beat'.cur \in Keys \X Procs,
         ProcKept, NoneAdded, KeptOn, pooled' \in [Keys -> Procs \cup {None}],
         beat'.pc \notin {"shut", "reap"} => beat'.shut = {},
         lockOf' \in [Keys -> Locks \cup {None}], draining' \subseteq draining, breaker' \in Breakers
  PROVE  Stays
<1>1. IndexInv'
  BY DEF PoolInv, IndexInv, ProcKept, rest, Breakers
<1>2. SweepInv'
  BY DEF PoolInv, SweepInv, rest, BeatStates
<1>3. PoolInv'
  BY <1>1, <1>2, OthersKeep DEF rest
<1> QED BY <1>3 DEF Stays, rest

\* The heartbeat sweeper shuts down what it has to.
LEMMA BeatKept ==
  ASSUME UNCHANGED <<rest, pooled, draining>>,
         \A p \in beat.shut : proc'[p].st # "dead" => p \in beat'.shut
  PROVE  KeptOn
BY DEF KeptOn, IsKept, Condemned, rest

LEMMA BeatTypes ==
  ASSUME PoolInv
  PROVE  /\ (beat.pc \notin {"shut", "reap"} => beat.shut = {})
         /\ beat \in BeatStates /\ (beat.pc \in {"ping", "gone"} => beat.cur \in Keys \X Procs)
         /\ breaker \in Breakers /\ pooled \in [Keys -> Procs \cup {None}]
         /\ lockOf \in [Keys -> Locks \cup {None}]
         /\ beat.todo \subseteq Keys \X Procs /\ beat.shut \subseteq Procs
BY DEF PoolInv, SweepInv, IndexInv, BeatStates, Breakers

LEMMA BeatStartsStays == ASSUME PoolInv, BeatStarts PROVE Stays
<1> DEFINE todo == { <<k, pooled[k]>> : k \in { j \in Keys : pooled[j] # None } }
<1>1. beat' = [Resting EXCEPT !.pc = "probe", !.todo = todo]
      /\ UNCHANGED <<rest, pooled, lockOf, draining, proc, breaker>>
  BY DEF BeatStarts
<1>2. todo \subseteq Keys \X Procs
  BY BeatTypes
<1> HIDE DEF todo
<1>3. beat' \in BeatStates /\ beat'.pc = "probe" /\ beat'.shut = {}
  BY <1>1, <1>2, RestingIs DEF BeatStates, Resting
<1>5. KeptOn
  BY <1>1, BeatTypes, BeatKept DEF BeatStarts
<1>4. ProcKept /\ NoneAdded
  BY <1>1, SameKept DEF NoneAdded
<1> QED BY <1>1, <1>3, <1>4, <1>5, BeatTypes, BeatKeeps

LEMMA BeatProbesStays == ASSUME PoolInv, NEW w \in beat.todo, BeatProbes(w) PROVE Stays
<1> DEFINE left == beat.todo \ {w}
<1>1. UNCHANGED <<rest, pooled, lockOf, draining, breaker>> /\ NoneAdded
  BY DEF BeatProbes, NoneAdded
<1>2. /\ w \in Keys \X Procs /\ left \in SUBSET (Keys \X Procs) /\ beat \in BeatStates
      /\ w[2] \in Procs
  BY BeatTypes
<1>5. beat'.shut = {} /\ beat.shut = {}
  BY <1>2, BeatTypes DEF BeatProbes, BeatStates
<1>6. KeptOn
  BY <1>1, <1>5, BeatKept
<1>3. CASE UNCHANGED proc
  <2>1. beat' \in BeatStates /\ (beat'.pc \in {"ping", "gone"} => beat'.cur \in Keys \X Procs)
    <3>1. PICK pc \in {"gone", "ping"} :
            \/ beat' = [beat EXCEPT !.pc = pc, !.todo = left, !.cur = w]
            \/ beat.pc = "probe" /\ beat' = [beat EXCEPT !.todo = left]
      BY DEF BeatProbes
    <3> HIDE DEF left
    <3> QED BY <1>2, <3>1 DEF BeatStates
  <2> QED BY <1>1, <1>3, <1>5, <1>6, <2>1, SameKept, BeatTypes, BeatKeeps
<1>4. CASE /\ proc[w[2]].st # "dead" /\ proc' = [proc EXCEPT ![w[2]].st = "bad"]
           /\ beat' = [beat EXCEPT !.pc = "gone", !.todo = left, !.cur = w]
  <2>1. beat' \in BeatStates /\ beat'.cur \in Keys \X Procs
    <3> HIDE DEF left
    <3> QED BY <1>2, <1>4 DEF BeatStates
  <2>2. ProcKept
    BY <1>2, <1>4, BadKept
  <2> QED BY <1>1, <1>5, <1>6, <2>1, <2>2, BeatTypes, BeatKeeps
<1> QED BY <1>3, <1>4 DEF BeatProbes

LEMMA BeatPingedStays == ASSUME PoolInv, BeatPinged PROVE Stays
<1> DEFINE k == beat.cur[1]  p == beat.cur[2]
<1>1. UNCHANGED <<rest, pooled, lockOf, draining>> /\ NoneAdded /\ beat.pc = "ping"
  BY DEF BeatPinged, NoneAdded
<1>2. beat \in BeatStates /\ k \in Keys /\ p \in Procs /\ beat.cur \in Keys \X Procs
  BY <1>1, BeatTypes DEF BeatStates
<1>5. beat'.shut = {} /\ beat.shut = {}
  BY <1>1, <1>2, BeatTypes DEF BeatPinged, BeatStates
<1>6. KeptOn
  BY <1>1, <1>5, BeatKept
<1>3. CASE Breaker!Forget(k) /\ beat' = [beat EXCEPT !.pc = "probe", !.cur = None] /\ UNCHANGED proc
  <2>1. beat' \in BeatStates /\ beat'.pc = "probe"
    BY <1>2, <1>3 DEF BeatStates
  <2>2. breaker' \in Breakers
    BY <1>3, BeatTypes, BreakerForgets
  <2> QED BY <1>1, <1>3, <1>5, <1>6, <2>1, <2>2, SameKept, BeatTypes, BeatKeeps
<1>4. CASE /\ proc' = IF Alive(p) THEN [proc EXCEPT ![p].st = "bad"] ELSE proc
           /\ beat' = [beat EXCEPT !.pc = "gone"] /\ UNCHANGED breaker
  <2>1. beat' \in BeatStates /\ beat'.cur \in Keys \X Procs
    BY <1>2, <1>4 DEF BeatStates
  <2>2. ProcKept
    BY <1>2, <1>4, SameKept, BadKept DEF Alive
  <2> QED BY <1>1, <1>4, <1>5, <1>6, <2>1, <2>2, BeatTypes, BeatKeeps
<1> QED BY <1>3, <1>4 DEF BeatPinged

LEMMA BeatEvictsStays == ASSUME PoolInv, BeatEvicts PROVE Stays
<1> DEFINE k == beat.cur[1]  p == beat.cur[2]
<1>1. UNCHANGED <<rest, draining, proc>> /\ beat.pc = "gone" /\ NotesDeath(k)
  BY DEF BeatEvicts
<1>2. beat \in BeatStates /\ k \in Keys /\ p \in Procs /\ beat.shut = {}
  BY <1>1, BeatTypes DEF BeatStates
<1>3. ProcKept /\ breaker' \in Breakers
  BY <1>1, <1>2, SameKept, BeatTypes, BreakerNotes
<1>4. CASE /\ pooled[k] = p /\ pooled' = Unpooled({k}) /\ lockOf' = Unlocked({k})
           /\ beat' = [beat EXCEPT !.pc = "shut", !.cur = None, !.shut = {p}]
  <2>1. beat' \in BeatStates /\ beat'.pc = "shut"
    BY <1>2, <1>4 DEF BeatStates
  <2>2. /\ pooled' \in [Keys -> Procs \cup {None}] /\ lockOf' \in [Keys -> Locks \cup {None}]
        /\ NoneAdded
    BY <1>2, <1>4, Unpools DEF NoneAdded
  <2>3. KeptOn
    <3>1. Backends({k}) \subseteq Condemned' /\ Condemned \subseteq Condemned'
      BY <1>1, <1>2, <1>4 DEF Condemned, Backends, BeatEvicts, BeatStates, rest
    <3> QED BY <1>1, <1>2, <1>4, <3>1, EvictedKept DEF rest
  <2> QED BY <1>1, <1>3, <2>1, <2>2, <2>3, BeatKeeps
<1>5. CASE beat' = [beat EXCEPT !.pc = "probe", !.cur = None] /\ UNCHANGED <<pooled, lockOf>>
  <2>1. beat' \in BeatStates /\ beat'.pc = "probe"
    BY <1>2, <1>5 DEF BeatStates
  <2>2. beat'.shut = {}
    BY <1>2, <1>5 DEF BeatStates
  <2>3. KeptOn
    BY <1>1, <1>2, <1>5, BeatKept
  <2> QED BY <1>1, <1>3, <1>5, <2>1, <2>2, <2>3, BeatTypes, BeatKeeps DEF NoneAdded
<1> QED BY <1>4, <1>5 DEF BeatEvicts

LEMMA BeatReapsStays == ASSUME PoolInv, BeatReaps PROVE Stays
<1> DEFINE pc == IF Due = {} THEN "rest" ELSE "reap"
           shut == { e.proc : e \in Due }
<1>1. /\ draining' = draining \ Due /\ beat' = [Resting EXCEPT !.pc = pc, !.shut = shut]
      /\ UNCHANGED <<rest, pooled, lockOf, proc, breaker>>
  BY DEF BeatReaps
<1>2. shut \subseteq Procs /\ pc \in {"rest", "reap"}
  <2>1. draining \subseteq [key: Keys, proc: Procs, late: BOOLEAN]
    BY DEF PoolInv, IndexInv
  <2> QED BY <2>1 DEF Due
<1>5. \A e \in draining \ draining' : e.proc \in shut
  BY <1>1
<1>6. beat.shut = {} /\ (pc = "rest" => shut = {})
  BY BeatTypes DEF BeatReaps
<1> HIDE DEF pc, shut
<1>3. beat' \in BeatStates /\ beat'.pc = pc /\ beat'.shut = shut
  BY <1>1, <1>2, RestingIs DEF BeatStates
<1>7. KeptOn
  BY <1>1, <1>3, <1>5, <1>6 DEF KeptOn, IsKept, Condemned, rest
<1>4. ProcKept /\ NoneAdded
  BY <1>1, SameKept DEF NoneAdded
<1> QED BY <1>1, <1>2, <1>3, <1>4, <1>6, <1>7, BeatTypes, BeatKeeps

LEMMA BeatStopsStays == ASSUME PoolInv, NEW p \in Procs, BeatStops(p) PROVE Stays
<1> DEFINE pc == IF beat.shut # {p} THEN beat.pc ELSE IF beat.pc = "shut" THEN "probe" ELSE "rest"
<1>1. /\ beat.pc \in {"shut", "reap"} /\ proc' = Stopped(p)
      /\ beat' = [beat EXCEPT !.shut = @ \ {p}, !.pc = pc]
      /\ UNCHANGED <<rest, pooled, lockOf, draining, breaker>>
  BY DEF BeatStops
<1>2. pc \in {"shut", "reap", "probe", "rest"} /\ (beat.shut \ {p} # {} => pc \in {"shut", "reap"})
  BY <1>1
<1> HIDE DEF pc
<1>3. beat' \in BeatStates /\ beat'.pc = pc /\ beat'.shut = beat.shut \ {p}
  BY <1>1, <1>2, BeatTypes DEF BeatStates
<1>5. KeptOn
  BY <1>1, <1>3, StoppedDead, BeatKept
<1>4. ProcKept /\ NoneAdded
  BY <1>1, StoppedKept DEF NoneAdded
<1> QED BY <1>1, <1>2, <1>3, <1>4, <1>5, BeatTypes, BeatKeeps

LEMMA ShutsDownStays == ASSUME PoolInv, ShutsDown \/ Stop PROVE Stays
<1>1. call' = call /\ ProcKept /\ UNCHANGED epoch
  BY SameKept DEF ShutsDown, Stop, ConnsGone, SweepsCancelled, ShutdownAll, AllStopped, index
<1>2. stage = "serving" \/ stage = "cancelConns" \/ \A c \in Stubs : call[c].pc = "out"
  BY DEF PoolInv, CallInv, SweepInv
<1>3. CASE Stop
  <2>1. NoneAdded /\ IndexInv' /\ SweepInv'
    BY <1>3 DEF Stop, Advances, Stages, PoolInv, IndexInv, SweepInv, NoneAdded, index
  <2>2. PoolInv'
    BY <1>3, <2>1, OthersKeep DEF Stop, Advances, index
  <2>3. KeptOn
    BY <1>3 DEF KeptOn, IsKept, Condemned, Stop, index
  <2> QED BY <1>1, <2>1, <2>2, <2>3 DEF Stays
<1>4. CASE ConnsGone \/ AllStopped
  <2>1. NoneAdded /\ IndexInv' /\ SweepInv'
    BY <1>4 DEF ConnsGone, AllStopped, Advances, Stages, PoolInv, IndexInv, SweepInv, NoneAdded, index
  <2>2. \A c \in Stubs : call[c].pc = "out"
    BY <1>2, <1>4 DEF ConnsGone, AllStopped
  <2>3. PoolInv'
    BY <1>4, <2>1, <2>2, OthersKeep DEF ConnsGone, AllStopped, index
  <2>4. KeptOn
    BY <1>4 DEF KeptOn, IsKept, Condemned, ConnsGone, AllStopped, index
  <2> QED BY <1>1, <2>1, <2>3, <2>4 DEF Stays
<1>5. CASE SweepsCancelled
  <2>1. NoneAdded /\ IndexInv'
    BY <1>5 DEF SweepsCancelled, PoolInv, IndexInv, NoneAdded, index
  <2>2. SweepInv'
    <3>1. beat' \in BeatStates /\ beat'.pc = "rest" /\ beat'.shut = {}
      BY <1>5, RestingIs DEF SweepsCancelled, Resting
    <3>2. abandoned' \subseteq Procs
      BY <1>5, TypesOf DEF SweepsCancelled, Dropped, Running
    <3> QED BY <1>5, <3>1, <3>2 DEF SweepsCancelled, Advances, Stages, PoolInv, SweepInv, BeatStates
  <2>3. \A c \in Stubs : call[c].pc = "out"
    BY <1>2, <1>5 DEF SweepsCancelled
  <2>4. PoolInv'
    BY <1>5, <2>1, <2>2, <2>3, OthersKeep DEF SweepsCancelled, index
  <2>5. KeptOn
    <3>1. \A p \in Procs : proc'[p].st # "dead" => p \in Running
      BY <1>5, TypesOf DEF SweepsCancelled, Running, ProcStates
    <3> QED BY <1>5, <3>1 DEF SweepsCancelled, Dropped, KeptOn, IsKept, Condemned, index
  <2> QED BY <1>1, <2>1, <2>4, <2>5 DEF Stays
<1>6. CASE ShutdownAll
  <2>1. NoneAdded /\ IndexInv'
    BY <1>6 DEF ShutdownAll, PoolInv, IndexInv, NoneAdded
  <2>2. Indexed \subseteq Procs
    BY DEF Indexed, PoolInv, IndexInv
  <2>3. SweepInv'
    BY <1>6, <2>2 DEF ShutdownAll, Advances, Stages, PoolInv, SweepInv
  <2>4. \A c \in Stubs : call[c].pc = "out"
    BY <1>2, <1>6 DEF ShutdownAll
  <2>5. PoolInv'
    BY <1>6, <2>1, <2>3, <2>4, OthersKeep DEF ShutdownAll
  <2>6. KeptOn
    <3>1. \A p \in Procs : IsKept(p) => p \in Indexed \cup Condemned \cup abandoned
      BY Constants DEF IsKept, Indexed
    <3> QED BY <1>6, <3>1 DEF ShutdownAll, KeptOn, IsKept, Condemned
  <2> QED BY <1>1, <2>1, <2>5, <2>6 DEF Stays
<1> QED BY <1>3, <1>4, <1>5, <1>6 DEF ShutsDown

LEMMA ActsKeep ==
  ASSUME PoolInv, NEW c \in Calls, NEW t \in CallStates, Acts(c, t),
         c \in Stubs /\ call[c].pc = "out" => stage = "serving"
  PROVE  PoolInv'
<1>1. /\ call' = [call EXCEPT ![c] = t] /\ CallOK(c, t, OwnOf(c, private')) /\ PrivateTo(c)
      /\ Keeps(lock, lock', c) /\ (t.pc = "lockWait" => Contains(lock'[t.lck].waiters, c))
      /\ UNCHANGED <<draining, epoch, sweep, rotate, beat, stage>>
  BY DEF Acts, CallTo, Goes
<1>2. /\ call' \in [Calls -> CallStates] /\ call'[c] = t
      /\ \A d \in Calls \ {c} : call'[d] = call[d]
  BY <1>1, TypesOf
<1>3. CallInv'
  <2>1. ASSUME NEW d \in Calls PROVE CallOK(d, call'[d], OwnOf(d, private'))
    <3>1. CASE d = c
      BY <1>1, <1>2, <3>1
    <3>2. CASE d # c
      <4>1. OwnOf(d, private') = OwnOf(d, private)
        BY <1>1, <3>2 DEF OwnOf, PrivateTo
      <4> QED BY <1>2, <3>2, <4>1, TypesOf
    <3> QED BY <3>1, <3>2
  <2>2. ASSUME stage' \in Stages \ {"serving", "cancelConns"}, NEW d \in Stubs PROVE call'[d].pc = "out"
    <3>1. d \in Calls /\ call[d].pc = "out"
      BY <1>1, <2>2 DEF Calls, PoolInv, CallInv
    <3>2. d # c
      BY <1>1, <2>2, <3>1
    <3> QED BY <1>2, <3>1, <3>2
  <2> QED BY <1>2, <2>1, <2>2 DEF CallInv
<1>4. IndexInv'
  <2>1. Maps' /\ private' \in [Stubs -> Procs \cup {None}] /\ proc' \in [Procs -> ProcStates]
    BY DEF Acts, PrivateTo
  <2> QED BY <1>1, <2>1 DEF PoolInv, IndexInv, Maps, LockMaps, Breakers
<1>5. LockInv'
  <2>1. lock' \in [Locks -> LockStates]
    BY <1>1 DEF Keeps
  <2>2. ASSUME NEW d \in Calls, call'[d].pc = "lockWait" PROVE Contains(lock'[call'[d].lck].waiters, d)
    <3>1. CASE d = c
      BY <1>1, <1>2, <2>2, <3>1
    <3>2. CASE d # c
      <4>1. call'[d] = call[d] /\ Contains(lock[call[d].lck].waiters, d)
        BY <1>2, <2>2, <3>2 DEF PoolInv, LockInv
      <4>2. call[d].lck \in Locks
        BY <2>2, <4>1, TypesOf, StatesOf DEF CallOK, InPool
      <4> QED BY <1>1, <3>2, <4>1, <4>2 DEF Keeps
    <3> QED BY <3>1, <3>2
  <2> QED BY <2>1, <2>2 DEF LockInv, LockStates
<1>6. SweepInv'
  BY <1>1 DEF PoolInv, SweepInv, Acts
<1> QED BY <1>3, <1>4, <1>5, <1>6 DEF PoolInv

(***************************************************************************)
(* Every step is of one of four kinds.                                     *)
(***************************************************************************)
Adds(c) ==
  \E t \in CallStates :
    /\ Acts(c, t) /\ Calm /\ t.pc # "record"
    /\ call[c].pc = "record" /\ ~Stale(call[c]) /\ call[c].hand \in Procs /\ call[c].key \in Keys
    /\ Inserts(c, call[c].key, call[c].hand)

StartsFor(c) == \E t \in CallStates : Acts(c, t) /\ Starts(c, t)

LEMMA AddKinds == ASSUME PoolInv, NEW c \in Calls, Add(c) PROVE Quiet(c) \/ Adds(c)
<1>1. PICK t \in CallStates :
           /\ Acts(c, t) /\ Calm /\ t.pc # "record"
           /\ \/ UNCHANGED pooled
              \/ /\ call[c].pc = "record" /\ ~Stale(call[c]) /\ call[c].hand \in Procs
                 /\ call[c].key \in Keys /\ Inserts(c, call[c].key, call[c].hand)
  BY AddActs
<1> QED BY <1>1 DEF Quiet, Adds, NoneAdded

LEMMA ServesKinds ==
  ASSUME PoolInv, NEW c \in Calls, Serves(c)
  PROVE  (Quiet(c) \/ Adds(c) \/ StartsFor(c)) /\ call[c].pc # "out"
<1>1. call[c].pc # "out"
  BY DEF Serves, StaleStopped, Spawned, SpawnFails, Add, Discarded, Refused, AddPrivate, Swapped,
         Primed, Closed, Reaped
<1>2. CASE Spawned(c)
  BY <1>1, <1>2, SpawnedActs DEF StartsFor
<1>3. CASE Add(c)
  BY <1>1, <1>3, AddKinds
<1>4. CASE StaleStopped(c) \/ SpawnFails(c) \/ Discarded(c) \/ Refused(c)
  BY <1>1, <1>4, StaleStoppedQuiet, SpawnFailsQuiet, DiscardedQuiet, RefusedQuiet
<1>5. CASE c \in Stubs /\ (AddPrivate(c) \/ Swapped(c) \/ Primed(c) \/ Closed(c) \/ Reaped(c))
  BY <1>1, <1>5, AddPrivateQuiet, SwappedQuiet, PrimedQuiet, ClosedQuiet, ReapedQuiet
<1> QED BY <1>2, <1>3, <1>4, <1>5 DEF Serves

LEMMA StepKinds ==
  ASSUME PoolInv, [Next]_vars
  PROVE  \/ UNCHANGED vars
         \/ Stays
         \/ \E c \in Calls : /\ Quiet(c) \/ Adds(c) \/ StartsFor(c)
                             /\ c \in Stubs /\ call[c].pc = "out" => stage = "serving"
<1>1. ASSUME NEW c \in Stubs, Connect(c) \/ Respawn(c) \/ Disconnect(c)
      PROVE  c \in Calls /\ Quiet(c) /\ (call[c].pc = "out" => stage = "serving")
  BY <1>1, ConnectQuiet, RespawnQuiet, DisconnectQuiet DEF Calls, Connect, Respawn, Disconnect
<1>2. ASSUME NEW c \in Warmers, Warm(c) PROVE c \in Calls /\ Quiet(c) /\ c \notin Stubs
  <2>1. c \in Calls /\ c \notin Stubs
    BY PoolAssumption DEF Calls
  <2>2. Quiet(c)
    BY <1>2, WarmQuiet
  <2> QED BY <2>1, <2>2
<1>3. ASSUME NEW c \in Calls, LockGranted(c) \/ Cancel(c) PROVE Quiet(c) /\ call[c].pc # "out"
  BY <1>3, GrantedQuiet, CancelQuiet DEF LockGranted, Cancel
<1>4. CASE IdleSweep \/ Rotate \/ BeatStarts \/ BeatPinged \/ Stop \/ ShutsDown
  BY <1>4, IdleSweepStays, RotateStays, BeatStartsStays, BeatPingedStays, ShutsDownStays
<1>5. CASE Beats
  BY <1>5, BeatEvictsStays, BeatReapsStays, BeatProbesStays DEF Beats
<1>6. ASSUME NEW e \in draining, DeadlinePasses(e) PROVE Stays
  BY <1>6, DeadlineStays
<1>7. ASSUME NEW p \in Procs, Dies(p) \/ Breaks(p) \/ Stops(p) PROVE Stays
  BY <1>7, DiesStays, BreaksStays, SweptStays, RotatedStays, TaskStopsStays, BeatStopsStays DEF Stops
<1>8. CASE Exited \/ UNCHANGED vars
  BY <1>8 DEF Exited
<1>9. CASE \E c \in Stubs : Connect(c) \/ Respawn(c) \/ Disconnect(c)
  BY <1>1, <1>9
<1>10. CASE \E c \in Warmers : Warm(c)
  BY <1>2, <1>10
<1>11. CASE \E c \in Calls : LockGranted(c) \/ Cancel(c)
  BY <1>3, <1>11
<1>12. CASE \E c \in Calls : Serves(c)
  BY <1>12, ServesKinds
<1>13. CASE (\E e \in draining : DeadlinePasses(e)) \/ (\E p \in Procs : Dies(p) \/ Breaks(p) \/ Stops(p))
  BY <1>6, <1>7, <1>13
<1> QED BY <1>4, <1>5, <1>8, <1>9, <1>10, <1>11, <1>12, <1>13 DEF Next

LEMMA PoolStep == ASSUME PoolInv, [Next]_vars PROVE PoolInv'
<1>1. CASE UNCHANGED vars
  BY <1>1 DEF vars, index, tasks, PoolInv, CallInv, IndexInv, LockInv, SweepInv
<1>2. CASE Stays
  BY <1>2 DEF Stays
<1>3. ASSUME NEW c \in Calls, Quiet(c) \/ Adds(c) \/ StartsFor(c),
             c \in Stubs /\ call[c].pc = "out" => stage = "serving"
      PROVE  PoolInv'
  BY <1>3, ActsKeep DEF Quiet, Adds, StartsFor
<1> QED BY <1>1, <1>2, <1>3, StepKinds

(***************************************************************************)
(* The invariants hold initially.                                          *)
(***************************************************************************)
LEMMA PoolInit == Init => PoolInv /\ RefInv /\ BornInv
<1> SUFFICES ASSUME Init PROVE PoolInv /\ RefInv /\ BornInv
  OBVIOUS
<1>1. 0 \in 0..MaxDrains /\ Out.pc = "out" /\ NoProc \in ProcStates /\ NoProc.refs = 0 /\ NoProc.st = "dead"
  <2>1. 0 \in 0..MaxDrains
    BY Constants
  <2> QED BY <2>1 DEF Out, NoProc, ProcStates
<1>2. CallInv
  BY OutIs, <1>1 DEF Init, CallInv
<1>3. IndexInv
  <2>1. Breaker!Clear \in Breaker!KeyStates
    BY DEF Breaker!Clear, Breaker!KeyStates
  <2> QED BY <1>1, <2>1 DEF Init, IndexInv
<1>4. LockInv
  <2>1. [held |-> FALSE, waiters |-> <<>>] \in [held: BOOLEAN, waiters: Seq(Calls)]
    OBVIOUS
  <2>2. \A c \in Calls : call[c].pc = "out"
    BY <1>1 DEF Init
  <2> QED BY <2>1, <2>2 DEF Init, LockInv
<1>5. SweepInv
  <2>1. Resting \in BeatStates /\ Resting.pc = "rest" /\ Resting.shut = {}
    BY RestingIs DEF Resting
  <2> QED BY <2>1 DEF Init, SweepInv, BeatStates, Stages
<1>6. RefInv
  <2>1. \A p \in Procs : Attached(p) = {} /\ proc[p].refs = 0
    BY <1>1 DEF Init, Attached, Calls
  <2>2. Cardinality({}) = 0
    BY FS_EmptySet
  <2> QED BY <2>1, <2>2 DEF RefInv
<1>7. BornInv
  BY <1>1 DEF Init, BornInv, NoStalePooled
<1> QED BY <1>2, <1>3, <1>4, <1>5, <1>6, <1>7 DEF PoolInv

(***************************************************************************)
(* Refcounts.                                                              *)
(***************************************************************************)
LEMMA AttachedFinite ==
  ASSUME NEW p PROVE IsFiniteSet(Attached(p)) /\ Cardinality(Attached(p)) \in Nat
<1>1. IsFiniteSet(Stubs) /\ Attached(p) \subseteq Stubs
  BY PoolAssumption DEF Attached
<1> QED BY <1>1, FS_Subset, FS_CardinalityType

\* Only c attaches or leaves.
LEMMA AttachedMoves ==
  ASSUME PoolInv, NEW c \in Calls, NEW t, call' = [call EXCEPT ![c] = t], NEW p
  PROVE  Cardinality(Attached(p)') = Cardinality(Attached(p)) + (IF Uses(c, t, p) THEN 1 ELSE 0)
                                       - (IF Uses(c, call[c], p) THEN 1 ELSE 0)
<1> DEFINE A == Attached(p)
           B == { d \in Stubs : call'[d].pc \in {"attached", "closing"} /\ call'[d].hand = p }
<1>1. Attached(p)' = B
  BY DEF Attached
<1>2. call'[c] = t /\ \A d \in Calls \ {c} : call'[d] = call[d]
  BY TypesOf
<1>3. c \in A <=> Uses(c, call[c], p)
  BY DEF Attached, Uses
<1>4. c \in B <=> Uses(c, t, p)
  BY <1>2 DEF Uses
<1>5. A \ {c} = B \ {c}
  BY <1>2 DEF Attached, Calls
<1>6. IsFiniteSet(A) /\ Cardinality(A) \in Nat /\ IsFiniteSet(B) /\ Cardinality(B) \in Nat
  <2>1. IsFiniteSet(Stubs) /\ B \subseteq Stubs
    BY PoolAssumption
  <2>2. IsFiniteSet(B) /\ Cardinality(B) \in Nat
    BY <2>1, FS_Subset, FS_CardinalityType
  <2> QED BY <2>2, AttachedFinite
<1> HIDE DEF A, B
<1>7. /\ Cardinality(A \ {c}) = IF c \in A THEN Cardinality(A) - 1 ELSE Cardinality(A)
      /\ Cardinality(B \ {c}) = IF c \in B THEN Cardinality(B) - 1 ELSE Cardinality(B)
  BY <1>6, FS_RemoveElement
<1>8. Cardinality(B) = Cardinality(A) + (IF Uses(c, t, p) THEN 1 ELSE 0) - (IF Uses(c, call[c], p) THEN 1 ELSE 0)
  <2> DEFINE a == Cardinality(A)  b == Cardinality(B)
             r == Cardinality(A \ {c})  q == Cardinality(B \ {c})
             inA == Uses(c, call[c], p)  inB == Uses(c, t, p)
  <2>1. a \in Nat /\ b \in Nat /\ r = q
    BY <1>5, <1>6
  <2>2. (IF inA THEN r = a - 1 ELSE r = a) /\ (IF inB THEN q = b - 1 ELSE q = b)
    BY <1>3, <1>4, <1>7
  <2> HIDE DEF a, b, r, q, inA, inB
  <2>3. b = a + (IF inB THEN 1 ELSE 0) - (IF inA THEN 1 ELSE 0)
    BY <2>1, <2>2
  <2> QED BY <2>3 DEF a, b, inA, inB
<1> QED BY <1>1, <1>8 DEF A

LEMMA RefStep == ASSUME PoolInv, RefInv, [Next]_vars PROVE RefInv'
<1>1. CASE UNCHANGED vars
  BY <1>1 DEF vars, RefInv, Attached
<1>2. CASE Stays
  <2>1. \A p \in Procs : Attached(p)' = Attached(p) /\ proc'[p].refs = proc[p].refs
    BY <1>2 DEF Stays, ProcKept, Attached
  <2> QED BY <2>1 DEF RefInv
<1>3. ASSUME NEW c \in Calls, NEW t \in CallStates, Acts(c, t) PROVE RefInv'
  <2>0. call' = [call EXCEPT ![c] = t]
    BY <1>3 DEF Acts, CallTo, Goes
  <2>1. ASSUME NEW p \in Procs
        PROVE  /\ proc'[p].refs >= Cardinality(Attached(p)')
               /\ "lateCancel" \notin Events => proc'[p].refs = Cardinality(Attached(p)')
    <3> DEFINE in == IF Uses(c, t, p) THEN 1 ELSE 0
               out == IF Uses(c, call[c], p) THEN 1 ELSE 0
               n == Cardinality(Attached(p))
               m == Cardinality(Attached(p)')
    <3>1. m = n + in - out /\ n \in Nat
      BY <2>0, AttachedMoves, AttachedFinite
    <3>2. /\ proc[p].refs \in Int /\ proc[p].refs >= n
          /\ "lateCancel" \notin Events => proc[p].refs = n
      BY TypesOf DEF RefInv, ProcStates
    <3>3. in \in 0..1 /\ out \in 0..1
      OBVIOUS
    <3>4. CASE Shift(c, t)
      <4>1. proc'[p].refs = proc[p].refs + in - out
        BY <3>4 DEF Shift
      <4> HIDE DEF in, out, n, m
      <4>2. proc'[p].refs >= m
        BY <3>1, <3>2, <3>3, <4>1
      <4>3. "lateCancel" \notin Events => proc'[p].refs = m
        BY <3>1, <3>2, <3>3, <4>1
      <4> QED BY <4>2, <4>3 DEF m
    <3>5. CASE Forgets(c, t)
      <4>1. in = 0 /\ proc' = proc /\ "lateCancel" \in Events
        BY <3>5 DEF Forgets, Uses
      <4> HIDE DEF in, out, n, m
      <4>2. proc'[p].refs >= m
        BY <3>1, <3>2, <3>3, <4>1
      <4> QED BY <4>1, <4>2 DEF m
    <3>6. CASE Starts(c, t)
      <4>1. in = 0 /\ out = 0
        BY <3>6 DEF Starts, Uses
      <4>2. CASE p = t.hand
        <5>1. Attached(p) = {}
          BY <3>6, <4>2, TypesOf, Constants DEF Starts, Fresh, Referenced, Handled, Attached, Calls
        <5>2. n = 0
          BY <5>1, FS_EmptySet
        <5>3. proc'[p].refs = 0
          BY <3>6, <4>2, TypesOf DEF Starts, NoProc
        <5> HIDE DEF in, out, n, m
        <5>4. m = 0
          BY <3>1, <4>1, <5>2
        <5> QED BY <5>3, <5>4 DEF m
      <4>3. CASE p # t.hand
        <5>1. proc'[p] = proc[p]
          BY <3>6, <4>3, TypesOf DEF Starts
        <5> HIDE DEF in, out, n, m
        <5>2. m = n
          BY <3>1, <4>1
        <5> QED BY <3>2, <5>1, <5>2 DEF m
      <4> QED BY <4>2, <4>3
    <3> QED BY <1>3, <3>4, <3>5, <3>6 DEF Acts
  <2> QED BY <2>1 DEF RefInv
<1> QED BY <1>1, <1>2, <1>3, StepKinds DEF Quiet, Adds, StartsFor

\* The inductive invariant holds in every state.
LEMMA PoolAlways == Spec => []PoolInv
<1>1. Init => PoolInv
  BY PoolInit
<1>2. PoolInv /\ [Next]_vars => PoolInv'
  BY PoolStep
<1> QED BY <1>1, <1>2, PTL DEF Spec

\* RefcountExact: the refcount of a backend, by which the sweepers take it for
\* idle and which decides whether the last connection kills it, is the number
\* of connections attached to it, whatever is cancelled, stopped or respawned
\* in between -- as long as the cancellation of a handler does not hit its
\* teardown (_cleanup_connection), which would leave the connection counted.
THEOREM RefcountsExact ==
  ASSUME "lateCancel" \notin Events
  PROVE  Spec => []RefcountExact
<1>1. Init => RefInv
  BY PoolInit
<1>2. PoolInv /\ RefInv /\ [Next]_vars => RefInv'
  BY RefStep
<1>3. RefInv => RefcountExact
  BY DEF RefInv, RefcountExact, Attached
<1> QED BY <1>1, <1>2, <1>3, PoolAlways, PTL DEF Spec

(***************************************************************************)
(* The bound of the pool.                                                  *)
(***************************************************************************)
SizeInv == Size <= MaxBackends

LEMMA SizeIs ==
  ASSUME NEW S \in SUBSET Keys
  PROVE  IsFiniteSet(S) /\ Cardinality(S) \in Nat
BY PoolAssumption, FS_Subset, FS_CardinalityType

LEMMA SizeShrinks ==
  ASSUME NEW S \in SUBSET Keys, NEW T \in SUBSET S, Cardinality(S) <= MaxBackends
  PROVE  Cardinality(T) <= MaxBackends
<1>1. Cardinality(T) <= Cardinality(S) /\ T \in SUBSET Keys
  BY SizeIs, FS_Subset
<1> QED BY <1>1, SizeIs, Constants

LEMMA SizeGrows ==
  ASSUME NEW S \in SUBSET Keys, NEW k \in Keys
  PROVE  IsFiniteSet(S \cup {k}) /\ Cardinality(S \cup {k}) <= Cardinality(S) + 1
<1>1. IsFiniteSet(S) /\ Cardinality(S) \in Nat
  BY SizeIs
<1>2. /\ IsFiniteSet(S \cup {k})
      /\ Cardinality(S \cup {k}) = IF k \in S THEN Cardinality(S) ELSE Cardinality(S) + 1
  BY <1>1, FS_AddElement
<1> DEFINE n == Cardinality(S)  m == Cardinality(S \cup {k})
<1>3. n \in Nat /\ (m = n \/ m = n + 1)
  BY <1>1, <1>2
<1> HIDE DEF n, m
<1>4. m <= n + 1
  BY <1>3
<1> QED BY <1>2, <1>4 DEF n, m

LEMMA SizeStep == ASSUME PoolInv, SizeInv, [Next]_vars PROVE SizeInv'
<1> DEFINE S == { k \in Keys : pooled[k] # None }
           T == { k \in Keys : pooled'[k] # None }
<1>1. Size = Cardinality(S) /\ Size' = Cardinality(T) /\ S \in SUBSET Keys /\ T \in SUBSET Keys
  BY DEF Size
<1>2. CASE NoneAdded
  <2>1. T \in SUBSET S
    BY <1>2 DEF NoneAdded
  <2> HIDE DEF S, T
  <2>2. Cardinality(S) <= MaxBackends
    BY <1>1 DEF SizeInv
  <2>3. Cardinality(T) <= MaxBackends
    BY <1>1, <2>1, <2>2, SizeShrinks
  <2> QED BY <1>1, <2>3 DEF SizeInv
<1>3. ASSUME NEW c \in Calls, NEW k \in Keys, NEW p \in Procs, Inserts(c, k, p) PROVE SizeInv'
  <2>0. MaxBackends \in Nat /\ Cardinality(S) \in Nat /\ Cardinality(T) \in Nat /\ IsFiniteSet(S)
    <3> HIDE DEF S, T
    <3> QED BY <1>1, SizeIs, Constants
  <2>1. CASE Size < MaxBackends /\ pooled' = [pooled EXCEPT ![k] = p]
    <3>1. T \subseteq S \cup {k}
      BY <2>1, TypesOf DEF Maps
    <3> HIDE DEF S, T
    <3>2. Cardinality(S \cup {k}) <= Cardinality(S) + 1 /\ IsFiniteSet(S \cup {k})
      BY <1>1, SizeGrows
    <3>3. Cardinality(T) <= Cardinality(S \cup {k})
      BY <3>1, <3>2, FS_Subset
    <3>4. S \cup {k} \in SUBSET Keys
      BY <1>1
    <3>5. Cardinality(S \cup {k}) \in Nat
      BY <3>4, SizeIs
    <3>6. Cardinality(T) <= MaxBackends
      BY <1>1, <2>0, <2>1, <3>2, <3>3, <3>5
    <3> QED BY <1>1, <3>6 DEF SizeInv
  <2>2. ASSUME NEW v \in Evictable, pooled' = [pooled EXCEPT ![v] = None, ![k] = p] PROVE SizeInv'
    <3>1. v \in S
      BY DEF Evictable, Idle
    <3>2. T \subseteq (S \ {v}) \cup {k}
      BY <2>2, TypesOf DEF Maps
    <3> DEFINE U == S \ {v}
    <3>3. Cardinality(U) = Cardinality(S) - 1 /\ IsFiniteSet(U) /\ U \cup {k} \in SUBSET Keys
      <4> HIDE DEF S, T
      <4> QED BY <1>1, <2>0, <3>1, FS_RemoveElement
    <3> HIDE DEF S, T, U
    <3>4. Cardinality(U \cup {k}) <= Cardinality(U) + 1 /\ IsFiniteSet(U \cup {k})
      <4>1. U \in SUBSET Keys
        BY <3>3
      <4> QED BY <4>1, SizeGrows
    <3>5. Cardinality(T) <= Cardinality(U \cup {k}) /\ Cardinality(U \cup {k}) \in Nat
      BY <3>2, <3>3, <3>4, FS_Subset, SizeIs DEF U
    <3>6. Cardinality(T) <= Cardinality(S)
      BY <2>0, <3>3, <3>4, <3>5
    <3>7. Cardinality(T) <= MaxBackends
      BY <1>1, <2>0, <3>6 DEF SizeInv
    <3> QED BY <1>1, <3>7 DEF SizeInv
  <2> QED BY <1>3, <2>1, <2>2 DEF Inserts
<1>4. CASE UNCHANGED vars
  BY <1>4 DEF vars, index, SizeInv, Size
<1>5. CASE Stays
  BY <1>2, <1>5 DEF Stays
<1>6. ASSUME NEW c \in Calls, Quiet(c) PROVE NoneAdded
  BY <1>6 DEF Quiet
<1>7. ASSUME NEW c \in Calls, StartsFor(c) PROVE NoneAdded
  BY <1>7 DEF StartsFor, Starts, NoneAdded
<1>8. ASSUME NEW c \in Calls, Adds(c) PROVE SizeInv'
  BY <1>3, <1>8 DEF Adds
<1> QED BY <1>2, <1>4, <1>5, <1>6, <1>7, <1>8, StepKinds

\* TypeOK, with the bound of the pool: at most _max_backends backends are
\* pooled at a time, whatever spawns race; and no refcount becomes negative.
THEOREM TypeSafe == Spec => []TypeOK
<1>1. Init => SizeInv
  <2> SUFFICES ASSUME Init PROVE SizeInv
    OBVIOUS
  <2>1. { k \in Keys : pooled[k] # None } = {}
    BY DEF Init
  <2>2. Cardinality({}) = 0
    BY FS_EmptySet
  <2> QED BY <2>1, <2>2, Constants DEF SizeInv, Size
<1>2. PoolInv /\ SizeInv /\ [Next]_vars => SizeInv'
  BY SizeStep
<1>3. Init => RefInv
  BY PoolInit
<1>4. PoolInv /\ RefInv /\ [Next]_vars => RefInv'
  BY RefStep
<1>5. PoolInv /\ SizeInv /\ RefInv => TypeOK
  <2> SUFFICES ASSUME PoolInv, SizeInv, RefInv PROVE TypeOK
    OBVIOUS
  <2>1. proc \in [Procs -> [st: {"up", "bad", "dead"}, refs: Nat, born: 0..MaxDrains, pinned: BOOLEAN]]
    <3>1. ASSUME NEW p \in Procs PROVE proc[p].refs \in Nat
      <4>1. proc[p].refs \in Int /\ proc[p].refs >= Cardinality(Attached(p))
        BY TypesOf DEF RefInv, ProcStates
      <4> QED BY <4>1, AttachedFinite
    <3> QED BY <3>1, TypesOf DEF ProcStates
  <2>2. /\ pooled \in [Keys -> Procs \cup {None}] /\ lockOf \in [Keys -> Locks \cup {None}]
        /\ lock \in [Locks -> [held: BOOLEAN, waiters: Seq(Calls)]] /\ reserved \in [Keys -> Nat]
        /\ draining \subseteq [key: Keys, proc: Procs, late: BOOLEAN] /\ epoch \in 0..MaxDrains
        /\ private \in [Stubs -> Procs \cup {None}] /\ call \in [Calls -> CallStates]
        /\ breaker \in [Keys -> Breaker!KeyStates] /\ stage \in Stages
    BY DEF PoolInv, CallInv, IndexInv, LockInv, SweepInv
  <2>3. stopping \cup shielded \cup sweep \cup rotate.todo \cup beat.shut \cup abandoned \subseteq Procs
    BY DEF PoolInv, SweepInv
  <2> QED BY <2>1, <2>2, <2>3 DEF TypeOK, SizeInv
<1> QED BY <1>1, <1>2, <1>3, <1>4, <1>5, PoolAlways, PTL DEF Spec

(***************************************************************************)
(* The epoch of the pooled backends.                                       *)
(***************************************************************************)
\* Once alive, always as old: a backend that runs after a calm step ran before.
LEMMA CalmBorn ==
  ASSUME Calm, NEW p \in Procs, proc'[p].st = "up"
  PROVE  proc[p].st = "up" /\ proc'[p].born = proc[p].born
BY DEF Calm, Calms

LEMMA BornStep == ASSUME PoolInv, BornInv, [Next]_vars PROVE BornInv'
<1> USE DEF Alive
<1>0. /\ pooled \in [Keys -> Procs \cup {None}]
      /\ \A c \in Calls : call[c].pc = "record" => call[c].hand \in Procs
  BY TypesOf DEF Maps, CallOK, HandStages
<1>1. CASE UNCHANGED vars
  BY <1>1 DEF vars, index, BornInv, NoStalePooled
<1>2. ASSUME Calm, NoneAdded, UNCHANGED epoch PROVE NoStalePooled'
  <2> SUFFICES ASSUME NEW k \in Keys, pooled'[k] # None, proc'[pooled'[k]].st = "up"
               PROVE  proc'[pooled'[k]].born = epoch'
    BY DEF NoStalePooled
  <2>1. pooled'[k] = pooled[k] /\ pooled[k] \in Procs
    BY <1>0, <1>2 DEF NoneAdded
  <2>2. proc[pooled[k]].born = epoch
    BY <1>2, <2>1, CalmBorn DEF BornInv, NoStalePooled
  <2> QED BY <1>2, <2>1, <2>2, CalmBorn
<1>3. CASE Stays
  <2>1. Calm /\ NoneAdded /\ call' = call
    BY <1>3 DEF Stays, ProcKept
  <2>2. NoStalePooled'
    <3>1. CASE epoch' = epoch
      BY <1>2, <2>1, <3>1
    <3>2. CASE \A k \in Keys : pooled'[k] = None
      BY <3>2 DEF NoStalePooled
    <3> QED BY <1>3, <3>1, <3>2 DEF Stays
  <2>3. ASSUME NEW c \in Calls, call'[c].pc = "record", proc'[call'[c].hand].st = "up"
        PROVE  proc'[call'[c].hand].born = call'[c].epoch
    BY <1>0, <2>1, <2>3, CalmBorn DEF BornInv
  <2> QED BY <2>2, <2>3 DEF BornInv
<1>4. ASSUME NEW c \in Calls, NEW t \in CallStates, Acts(c, t), Calm, t.pc # "record",
             NEW d \in Calls, call'[d].pc = "record", proc'[call'[d].hand].st = "up"
      PROVE  proc'[call'[d].hand].born = call'[d].epoch
  <2>1. call' = [call EXCEPT ![c] = t]
    BY <1>4 DEF Acts, CallTo, Goes
  <2>2. d # c /\ call'[d] = call[d]
    BY <1>4, <2>1, TypesOf
  <2> QED BY <1>0, <1>4, <2>2, CalmBorn DEF BornInv
<1>5. ASSUME NEW c \in Calls, Quiet(c) PROVE BornInv'
  <2>1. NoStalePooled'
    BY <1>2, <1>5 DEF Quiet, Acts
  <2> QED BY <1>4, <1>5, <2>1 DEF Quiet, BornInv
<1>6. ASSUME NEW c \in Calls, Adds(c) PROVE BornInv'
  <2> DEFINE p == call[c].hand
  <2>1. /\ Calm /\ UNCHANGED epoch /\ call[c].pc = "record" /\ call[c].epoch = epoch /\ p \in Procs
        /\ \A k \in Keys : pooled'[k] \in {pooled[k], None, p}
    <3>1. Calm /\ UNCHANGED epoch /\ call[c].pc = "record" /\ call[c].epoch = epoch /\ p \in Procs
      BY <1>6 DEF Adds, Acts, Stale
    <3>2. \A k \in Keys : pooled'[k] \in {pooled[k], None, p}
      <4>1. PICK k \in Keys : Inserts(c, k, p)
        BY <1>6 DEF Adds
      <4>2. CASE pooled' = [pooled EXCEPT ![k] = p]
        BY <1>0, <4>2
      <4>3. CASE \E v \in Evictable : pooled' = [pooled EXCEPT ![v] = None, ![k] = p]
        BY <1>0, <4>3
      <4> QED BY <4>1, <4>2, <4>3 DEF Inserts
    <3> QED BY <3>1, <3>2
  <2>2. NoStalePooled'
    <3> SUFFICES ASSUME NEW k \in Keys, pooled'[k] # None, proc'[pooled'[k]].st = "up"
                 PROVE  proc'[pooled'[k]].born = epoch'
      BY DEF NoStalePooled
    <3>1. CASE pooled'[k] = p
      BY <2>1, <3>1, CalmBorn DEF BornInv
    <3>2. CASE pooled'[k] = pooled[k]
      <4>1. pooled[k] \in Procs
        BY <1>0, <3>2
      <4> QED BY <2>1, <3>2, <4>1, CalmBorn DEF BornInv, NoStalePooled
    <3> QED BY <2>1, <3>1, <3>2
  <2>3. ASSUME NEW d \in Calls, call'[d].pc = "record", proc'[call'[d].hand].st = "up"
        PROVE  proc'[call'[d].hand].born = call'[d].epoch
    BY <1>4, <1>6, <2>3 DEF Adds
  <2> QED BY <2>2, <2>3 DEF BornInv
<1>7. ASSUME NEW c \in Calls, StartsFor(c) PROVE BornInv'
  <2>1. PICK t \in CallStates : Acts(c, t) /\ Starts(c, t)
    BY <1>7 DEF StartsFor
  <2> DEFINE p == t.hand
  <2>2. /\ call' = [call EXCEPT ![c] = t] /\ UNCHANGED <<epoch, pooled>> /\ p \in Procs
        /\ t.epoch = call[c].epoch /\ p # None
        /\ proc' = [proc EXCEPT ![p] = [NoProc EXCEPT !.st = "up", !.born = call[c].epoch]]
    BY <2>1, Constants DEF Acts, CallTo, Goes, Starts, Fresh
  <2>3. (\A k \in Keys : pooled[k] # p) /\ \A d \in Calls : call[d].hand # p
    BY <2>1, <2>2 DEF Starts, Fresh, Referenced, Handled, Indexed
  <2>4. /\ proc'[p].born = call[c].epoch /\ \A q \in Procs \ {p} : proc'[q] = proc[q]
    BY <2>2, TypesOf DEF NoProc
  <2>5. NoStalePooled'
    BY <1>0, <2>2, <2>3, <2>4 DEF NoStalePooled, BornInv
  <2>6. ASSUME NEW d \in Calls, call'[d].pc = "record", proc'[call'[d].hand].st = "up"
        PROVE  proc'[call'[d].hand].born = call'[d].epoch
    <3>1. CASE d = c
      BY <2>2, <2>4, <3>1, TypesOf
    <3>2. CASE d # c
      <4>1. call'[d] = call[d]
        BY <2>2, <3>2, TypesOf
      <4> QED BY <1>0, <2>3, <2>4, <2>6, <4>1 DEF BornInv
    <3> QED BY <3>1, <3>2
  <2> QED BY <2>5, <2>6 DEF BornInv
<1> QED BY <1>1, <1>3, <1>5, <1>6, <1>7, StepKinds

\* NoStalePooled: whatever cutovers overtake whatever spawns, no running
\* backend in the pool was started before the last cutover -- a spawn notes the
\* drain epoch before it awaits the process, and add compares it.
THEOREM NoStaleInPool == Spec => []NoStalePooled
<1>1. Init => BornInv
  BY PoolInit
<1>2. PoolInv /\ BornInv /\ [Next]_vars => BornInv'
  BY BornStep
<1>3. BornInv => NoStalePooled
  BY DEF BornInv
<1> QED BY <1>1, <1>2, <1>3, PoolAlways, PTL DEF Spec

(***************************************************************************)
(* No running backend is lost.                                             *)
(***************************************************************************)
LeakInv == \A p \in Running : IsKept(p) \/ \E c \in Calls : Holds(call[c], p)

LEMMA LeakStep == ASSUME PoolInv, LeakInv, [Next]_vars PROVE LeakInv'
<1>1. CASE UNCHANGED vars
  BY <1>1 DEF vars, index, tasks, LeakInv, IsKept, Condemned, Running
<1>2. CASE Stays
  <2> SUFFICES ASSUME NEW p \in Procs, proc'[p].st \in {"up", "bad"}
               PROVE  IsKept(p)' \/ \E c \in Calls : Holds(call'[c], p)
    BY DEF LeakInv, Running, Holds
  <2>1. p \in Running
    BY <1>2 DEF Stays, ProcKept, Calm, Calms, Running
  <2> QED BY <1>2, <2>1 DEF LeakInv, Stays, KeptOn
<1>3. ASSUME NEW c \in Calls, NEW t \in CallStates, Acts(c, t), Calm \/ Starts(c, t) PROVE LeakInv'
  <2> SUFFICES ASSUME NEW p \in Procs, proc'[p].st \in {"up", "bad"}
               PROVE  IsKept(p)' \/ \E d \in Calls : Holds(call'[d], p)
    BY DEF LeakInv, Running, Holds
  <2>1. call'[c] = t /\ \A d \in Calls \ {c} : call'[d] = call[d]
    BY <1>3, TypesOf DEF Acts, CallTo, Goes
  <2>2. CASE p \in Running
    <3>1. CASE IsKept(p) \/ Holds(call[c], p)
      BY <1>3, <2>1, <3>1 DEF Acts, Passes
    <3>2. CASE \E d \in Calls \ {c} : Holds(call[d], p)
      BY <2>1, <3>2
    <3> QED BY <2>2, <3>1, <3>2 DEF LeakInv
  <2>3. CASE p \notin Running
    <3>1. ~Calm
      BY <2>3 DEF Calm, Calms, Running
    <3>2. p = t.hand
      BY <1>3, <2>3, <3>1, TypesOf DEF Starts, Running
    <3> QED BY <1>3, <2>1, <3>1, <3>2 DEF Starts, Holds, HeldStages
  <2> QED BY <2>2, <2>3
<1>4. ASSUME NEW c \in Calls, Quiet(c) \/ Adds(c) \/ StartsFor(c) PROVE LeakInv'
  BY <1>3, <1>4 DEF Quiet, Adds, StartsFor
<1> QED BY <1>1, <1>2, <1>4, StepKinds

\* NoLeak: whatever fails, is cancelled, refused, swapped or stopped, a backend
\* whose process runs is in the index of the pool, or somebody is at its
\* shutdown, or is about to put it into the index -- unless its shutdown itself
\* was cut short.  None of the awaits of get_or_create, acquire_exclusive and
\* the sweepers loses one that shutdown_all would then not find.
THEOREM NoneLeaks == Spec => []NoLeak
<1>1. Init => LeakInv
  BY DEF Init, LeakInv, Running, NoProc
<1>2. PoolInv /\ LeakInv /\ [Next]_vars => LeakInv'
  BY LeakStep
<1>3. PoolInv /\ LeakInv => NoLeak
  <2> SUFFICES ASSUME PoolInv, LeakInv, NEW p \in Running
               PROVE  p \in Indexed \cup Condemned \cup abandoned
                            \cup { call[c].hand : c \in { d \in Calls : call[d].pc \in HeldStages } }
    BY DEF NoLeak, HeldStages
  <2>1. p \in Procs /\ p # None
    BY Constants DEF Running
  <2> QED BY <2>1 DEF LeakInv, IsKept, Holds, Indexed
<1> QED BY <1>1, <1>2, <1>3, PoolAlways, PTL DEF Spec
=============================================================================
