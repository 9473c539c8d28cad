-------------------------- MODULE BackendUseProofs --------------------------
(***************************************************************************)
(* That no backend of the pool is shut down under a connection.  Beyond    *)
(* the invariants of BackendPoolProofs, it rests on                        *)
(*   OwnInv   every backend belongs to one key, or to one call, at a time; *)
(*   ResInv   every respawn about to attach to a backend of a key has a    *)
(*            reservation of the key;                                      *)
(*   BeatInv  the heartbeat takes only backends for gone that do not run.  *)
(***************************************************************************)
EXTENDS BackendPoolProofs

UseStages == {"prime", "attached", "closing"}
NewStages == {"record", "discard", "refuse"}

\* A call in state s uses p as the backend of key k, or as its own.
Shares(s, p, k) == s.pc \in UseStages /\ s.hand = p /\ ~s.private /\ s.key = k
Has(s, p) == s.hand = p /\ (s.pc \in NewStages \/ (s.pc \in UseStages /\ s.private))

OfIndex(p, k) == pooled[k] = p \/ \E e \in draining : e.proc = p /\ e.key = k

OfKey(p, k) == OfIndex(p, k) \/ \E c \in Calls : Shares(call[c], p, k)
OfCall(p, c) == (c \in Stubs /\ private[c] = p) \/ Has(call[c], p)

OneOwner(p) ==
  /\ \A j, k \in Keys : OfKey(p, j) /\ OfKey(p, k) => j = k
  /\ \A c, d \in Calls : OfCall(p, c) /\ OfCall(p, d) => c = d
  /\ \A k \in Keys, c \in Calls : ~(OfKey(p, k) /\ OfCall(p, c))

\* A private backend is not registered while it is new.
OwnInv ==
  /\ \A p \in Procs : OneOwner(p)
  /\ \A c \in Stubs : call[c].pc \in NewStages => private[c] # call[c].hand

\* The respawns that wait for the handshake of a backend of k.
Comes(c, s, k) == c \in Stubs /\ s.pc = "prime" /\ s.key = k /\ ~s.private
Coming(k) == { c \in Stubs : Comes(c, call[c], k) }

ResInv == \A k \in Keys : reserved[k] >= Cardinality(Coming(k))

BeatInv == beat.pc = "gone" => proc[beat.cur[2]].st # "up"

(***************************************************************************)
(* Owners.  A step by which nobody new claims p leaves it one owner.       *)
(***************************************************************************)
Narrows(p) ==
  /\ \A k \in Keys : OfKey(p, k)' => OfKey(p, k)
  /\ \A c \in Calls : OfCall(p, c)' => OfCall(p, c)

LEMMA NarrowsKeeps ==
  ASSUME NEW p, OneOwner(p), Narrows(p)
  PROVE  OneOwner(p)'
BY DEF OneOwner, Narrows

\* What a call in state t claims of p, the key or the call has claimed before.
Fits(c, t, p) ==
  /\ \A k \in Keys : Shares(t, p, k) => OfKey(p, k)
  /\ Has(t, p) => OfCall(p, c)

PrivateFits(c) == c \in Stubs /\ private'[c] # None => OfCall(private'[c], c)

LEMMA FitsNarrows ==
  ASSUME PoolInv, NEW c \in Calls, NEW t, Goes(c, t), NEW p \in Procs, Fits(c, t, p),
         \A k \in Keys : pooled'[k] = p => pooled[k] = p,
         UNCHANGED draining, PrivateTo(c), PrivateFits(c)
  PROVE  Narrows(p)
<1>1. call'[c] = t /\ \A d \in Calls \ {c} : call'[d] = call[d]
  BY TypesOf DEF Goes
<1>2. ASSUME NEW k \in Keys, OfKey(p, k)' PROVE OfKey(p, k)
  <2>1. CASE OfIndex(p, k)'
    BY <2>1 DEF OfIndex, OfKey
  <2>2. CASE \E d \in Calls : Shares(call'[d], p, k)
    BY <1>1, <2>2 DEF Fits, OfKey
  <2> QED BY <1>2, <2>1, <2>2 DEF OfKey, Shares
<1>3. ASSUME NEW d \in Calls, OfCall(p, d)' PROVE OfCall(p, d)
  <2>1. CASE d \in Stubs /\ private'[d] = p
    <3>1. p # None
      BY Constants
    <3>2. CASE d = c
      BY <2>1, <3>1, <3>2 DEF PrivateFits
    <3>3. CASE d # c
      BY <2>1, <3>3 DEF PrivateTo, OfCall
    <3> QED BY <3>2, <3>3
  <2>2. CASE Has(call'[d], p)
    BY <1>1, <2>2 DEF Fits, OfCall
  <2> QED BY <1>3, <2>1, <2>2 DEF OfCall, Has
<1> QED BY <1>2, <1>3 DEF Narrows

(***************************************************************************)
(* Reservations: what there is of a key follows who comes.                 *)
(***************************************************************************)
Reserves(c, t) ==
  \A k \in Keys : /\ reserved'[k] \in Nat
                  /\ reserved'[k] >= reserved[k] + (IF Comes(c, t, k) THEN 1 ELSE 0)
                                                 - (IF Comes(c, call[c], k) THEN 1 ELSE 0)

LEMMA ComingFinite == ASSUME NEW k PROVE IsFiniteSet(Coming(k)) /\ Cardinality(Coming(k)) \in Nat
<1>1. IsFiniteSet(Stubs) /\ Coming(k) \subseteq Stubs
  BY PoolAssumption DEF Coming
<1> QED BY <1>1, FS_Subset, FS_CardinalityType

LEMMA ReservesKeeps ==
  ASSUME PoolInv, ResInv, NEW c \in Calls, NEW t, Goes(c, t), Reserves(c, t)
  PROVE  ResInv'
<1> SUFFICES ASSUME NEW k \in Keys PROVE reserved'[k] >= Cardinality(Coming(k)')
  BY DEF ResInv
<1> DEFINE A == Coming(k)
           B == { d \in Stubs : Comes(d, call'[d], k) }
<1>1. Coming(k)' = B
  BY DEF Coming, Comes
<1>2. call'[c] = t /\ \A d \in Calls \ {c} : call'[d] = call[d]
  BY TypesOf DEF Goes
<1>3. c \in A <=> Comes(c, call[c], k)
  BY DEF Coming, Comes
<1>4. c \in B <=> Comes(c, t, k)
  BY <1>2 DEF Comes
<1>5. A \ {c} = B \ {c}
  BY <1>2 DEF Coming, Calls
<1>6. IsFiniteSet(A) /\ Cardinality(A) \in Nat /\ IsFiniteSet(B) /\ Cardinality(B) \in Nat
  <2>1. IsFiniteSet(Stubs) /\ B \subseteq Stubs
    BY PoolAssumption
  <2>2. IsFiniteSet(B) /\ Cardinality(B) \in Nat
    BY <2>1, FS_Subset, FS_CardinalityType
  <2> QED BY <2>2, ComingFinite
<1> HIDE DEF A, B
<1>7. /\ Cardinality(A \ {c}) = IF c \in A THEN Cardinality(A) - 1 ELSE Cardinality(A)
      /\ Cardinality(B \ {c}) = IF c \in B THEN Cardinality(B) - 1 ELSE Cardinality(B)
  BY <1>6, FS_RemoveElement
<1>8. /\ reserved[k] \in Nat /\ reserved'[k] \in Nat /\ reserved[k] >= Cardinality(A)
      /\ reserved'[k] >= reserved[k] + (IF Comes(c, t, k) THEN 1 ELSE 0)
                                     - (IF Comes(c, call[c], k) THEN 1 ELSE 0)
  BY TypesOf DEF Maps, ResInv, Reserves, A
<1>9. reserved'[k] >= Cardinality(B)
  <2> DEFINE a == Cardinality(A)  b == Cardinality(B)  n == reserved[k]  m == reserved'[k]
             r == Cardinality(A \ {c})  q == Cardinality(B \ {c})
             inA == Comes(c, call[c], k)  inB == Comes(c, t, k)
  <2>1. a \in Nat /\ b \in Nat /\ r = q /\ n \in Nat /\ m \in Nat /\ n >= a
    BY <1>5, <1>6, <1>8
  <2>2. (IF inA THEN r = a - 1 ELSE r = a) /\ (IF inB THEN q = b - 1 ELSE q = b)
    BY <1>3, <1>4, <1>7
  <2>3. m >= n + (IF inB THEN 1 ELSE 0) - (IF inA THEN 1 ELSE 0)
    BY <1>8
  <2> HIDE DEF a, b, r, q, inA, inB, n, m
  <2>4. m >= b
    BY <2>1, <2>2, <2>3
  <2> QED BY <2>4 DEF b, m
<1> QED BY <1>1, <1>9

(***************************************************************************)
(* The steps of a call, one by one.  Settles(c): c claims nothing new, and *)
(* its reservation follows it.                                             *)
(***************************************************************************)
Settles(c) ==
  \E t : /\ Goes(c, t) /\ t.pc \notin NewStages /\ (\A p \in Procs : Fits(c, t, p))
         /\ Reserves(c, t)

\* A call that neither uses a backend nor waits to.
LEMMA AsideSettles ==
  ASSUME PoolInv, NEW c \in Calls, NEW t, Goes(c, t), t.pc \notin NewStages \cup UseStages,
         reserved' \in [Keys -> Nat],
         \A k \in Keys : reserved'[k] >= reserved[k] - (IF Comes(c, call[c], k) THEN 1 ELSE 0)
  PROVE  Settles(c)
<1>1. \A p \in Procs : Fits(c, t, p)
  BY DEF Fits, Shares, Has
<1>2. Reserves(c, t)
  <2> SUFFICES ASSUME NEW k \in Keys
               PROVE  /\ reserved'[k] \in Nat
                      /\ reserved'[k] >= reserved[k] + (IF Comes(c, t, k) THEN 1 ELSE 0)
                                                     - (IF Comes(c, call[c], k) THEN 1 ELSE 0)
    BY DEF Reserves
  <2>1. ~Comes(c, t, k) /\ reserved[k] \in Nat /\ reserved'[k] \in Nat
    BY TypesOf DEF Comes, UseStages, Maps
  <2>2. reserved'[k] >= reserved[k] - (IF Comes(c, call[c], k) THEN 1 ELSE 0)
    OBVIOUS
  <2> QED BY <2>1, <2>2
<1> QED BY <1>1, <1>2 DEF Settles

\* The same for a call that does not wait to attach.
LEMMA QuietSettles ==
  ASSUME PoolInv, NEW c \in Calls, NEW t, Goes(c, t), t.pc \notin NewStages \cup UseStages,
         UNCHANGED reserved
  PROVE  Settles(c)
<1>1. \A k \in Keys : reserved'[k] >= reserved[k] - (IF Comes(c, call[c], k) THEN 1 ELSE 0)
  <2> TAKE k \in Keys
  <2>1. reserved[k] \in Nat /\ reserved'[k] = reserved[k]
    BY TypesOf DEF Maps
  <2> QED BY <2>1
<1> QED BY <1>1, TypesOf, AsideSettles DEF Maps

\* c obtains p, which is the backend of its key, or its own.
LEMMA ObtainsSettles ==
  ASSUME PoolInv, NEW c \in Calls, call[c].pc # "prime", NEW s \in CallStates, s.key \in Keys,
         NEW p \in Procs, NEW procs, ~s.private => OfKey(p, s.key), s.private => OfCall(p, c),
         Obtains(c, s, p, procs)
  PROVE  Settles(c)
<1>1. CASE Goes(c, Out) /\ UNCHANGED reserved
  BY <1>1, QuietSettles DEF Out, NewStages, UseStages
<1>2. CASE /\ Goes(c, [Out EXCEPT !.pc = "attached", !.key = s.key, !.hand = p, !.private = s.private])
           /\ UNCHANGED reserved
  <2> DEFINE t == [Out EXCEPT !.pc = "attached", !.key = s.key, !.hand = p, !.private = s.private]
  <2>1. t.pc = "attached" /\ t.key = s.key /\ t.hand = p /\ t.private = s.private
    BY DEF Out
  <2>2. Goes(c, t)
    BY <1>2
  <2> HIDE DEF t
  <2>3. \A q \in Procs : Fits(c, t, q)
    BY <2>1 DEF Fits, Shares, Has, NewStages
  <2>4. Reserves(c, t)
    <3>1. \A k \in Keys : ~Comes(c, t, k) /\ ~Comes(c, call[c], k) /\ reserved[k] \in Nat
      BY <2>1, TypesOf DEF Comes, Maps
    <3> QED BY <1>2, <3>1 DEF Reserves
  <2> QED BY <2>1, <2>2, <2>3, <2>4 DEF Settles, NewStages
<1>3. CASE /\ Goes(c, [Out EXCEPT !.pc = "prime", !.key = s.key, !.hand = p, !.private = s.private])
           /\ reserved' = IF s.private THEN reserved ELSE [reserved EXCEPT ![s.key] = @ + 1]
  <2> DEFINE t == [Out EXCEPT !.pc = "prime", !.key = s.key, !.hand = p, !.private = s.private]
  <2>1. t.pc = "prime" /\ t.key = s.key /\ t.hand = p /\ t.private = s.private
    BY DEF Out
  <2>2. Goes(c, t)
    BY <1>3
  <2> HIDE DEF t
  <2>3. \A q \in Procs : Fits(c, t, q)
    BY <2>1 DEF Fits, Shares, Has, NewStages
  <2>4. Reserves(c, t)
    <3>1. \A k \in Keys : /\ Comes(c, t, k) => k = s.key /\ ~s.private
                          /\ ~Comes(c, call[c], k) /\ reserved[k] \in Nat
      BY <2>1, TypesOf DEF Comes, Maps
    <3>2. CASE s.private
      BY <1>3, <3>1, <3>2 DEF Reserves
    <3>3. CASE ~s.private
      <4>1. \A k \in Keys : reserved'[k] = IF k = s.key THEN reserved[k] + 1 ELSE reserved[k]
        BY <1>3, <3>3, TypesOf DEF Maps
      <4> QED BY <3>1, <4>1 DEF Reserves
    <3> QED BY <3>2, <3>3
  <2> QED BY <2>1, <2>2, <2>3, <2>4 DEF Settles, NewStages
<1> QED BY <1>1, <1>2, <1>3 DEF Obtains

LEMMA AsksSettles ==
  ASSUME PoolInv, NEW c \in Calls, NEW s \in CallStates, NEW locks, NEW map,
         Asks(c, s, locks, map), UNCHANGED reserved
  PROVE  Settles(c)
<1>1. Spawning(s).pc = "spawn" /\ Out.pc = "out"
  BY DEF Spawning, Out, CallStates
<1> QED BY <1>1, QuietSettles DEF Asks, NewStages, UseStages

LEMMA EntersSettles ==
  ASSUME PoolInv, NEW c \in Calls, call[c].pc # "prime", NEW s \in CallStates, s.key \in Keys,
         ~s.private, NEW locks, NEW map, NEW procs, EntersLock(c, s, locks, map, procs)
  PROVE  Settles(c)
<1> DEFINE k == s.key
           p == pooled[k]
<1>1. CASE p # None /\ Obtains(c, s, p, procs)
  <2>1. p \in Procs /\ OfKey(p, k)
    BY <1>1, TypesOf DEF Maps, OfKey, OfIndex
  <2> QED BY <1>1, <2>1, ObtainsSettles
<1>2. CASE Goes(c, [s EXCEPT !.pc = "stale", !.hand = p]) /\ UNCHANGED reserved
  <2>1. [s EXCEPT !.pc = "stale", !.hand = p].pc = "stale"
    BY DEF CallStates
  <2> QED BY <1>2, <2>1, QuietSettles DEF NewStages, UseStages
<1>3. CASE Asks(c, s, locks, map) /\ UNCHANGED reserved
  BY <1>3, AsksSettles
<1> QED BY <1>1, <1>2, <1>3 DEF EntersLock

LEMMA CreateSettles ==
  ASSUME PoolInv, NEW c \in Calls, call[c].pc # "prime", NEW s \in CallStates, s.key \in Keys,
         ~s.private, NEW procs, GetOrCreate(c, s, procs)
  PROVE  Settles(c)
<1> DEFINE k == s.key
           p == pooled[k]
           l == lockOf[k]
<1>1. CASE p # None /\ Obtains(c, s, p, procs)
  <2>1. p \in Procs /\ OfKey(p, k)
    BY <1>1, TypesOf DEF Maps, OfKey, OfIndex
  <2> QED BY <1>1, <2>1, ObtainsSettles
<1>2. CASE \E n \in NewLocks :
             EntersLock(c, [s EXCEPT !.lck = n], [lock EXCEPT ![n].held = TRUE],
                        [lockOf EXCEPT ![k] = n], procs)
  <2>1. PICK n \in NewLocks :
             EntersLock(c, [s EXCEPT !.lck = n], [lock EXCEPT ![n].held = TRUE],
                        [lockOf EXCEPT ![k] = n], procs)
    BY <1>2
  <2>2. n \in Locks
    BY DEF NewLocks
  <2> QED BY <2>1, <2>2, WithLock, EntersSettles
<1>3. CASE /\ l # None
           /\ EntersLock(c, [s EXCEPT !.lck = l], [lock EXCEPT ![l].held = TRUE], lockOf, procs)
  <2>1. l \in Locks
    BY <1>3, TypesOf DEF Maps, LockMaps
  <2> QED BY <1>3, <2>1, WithLock, EntersSettles
<1>4. CASE Goes(c, [s EXCEPT !.pc = "lockWait", !.lck = l]) /\ UNCHANGED reserved
  <2>1. [s EXCEPT !.pc = "lockWait", !.lck = l].pc = "lockWait"
    BY DEF CallStates
  <2> QED BY <1>4, <2>1, QuietSettles DEF NewStages, UseStages
<1> QED BY <1>1, <1>2, <1>3, <1>4 DEF GetOrCreate

LEMMA AcquiresSettles ==
  ASSUME PoolInv, NEW c \in Calls, call[c].pc # "prime", NEW s \in CallStates, s.key \in Keys,
         NEW procs, Acquires(c, s, procs)
  PROVE  Settles(c)
<1>1. CASE ~s.private /\ GetOrCreate(c, s, procs)
  BY <1>1, CreateSettles
<1>2. CASE Goes(c, Spawning(s)) /\ UNCHANGED reserved
  <2>1. Spawning(s).pc = "spawn"
    BY DEF Spawning, CallStates
  <2> QED BY <1>2, <2>1, QuietSettles DEF NewStages, UseStages
<1> QED BY <1>1, <1>2 DEF Acquires

\* c ends, and gives its reservation back if it has one.
LEMMA EndsSettles ==
  ASSUME PoolInv, NEW c \in Calls, Ends(c), reserved' \in [Keys -> Nat],
         \A k \in Keys : reserved'[k] >= reserved[k] - (IF Comes(c, call[c], k) THEN 1 ELSE 0)
  PROVE  Settles(c)
<1>1. Out.pc = "out" /\ [Out EXCEPT !.pc = "reap", !.hand = private[c]].pc = "reap"
  BY DEF Out
<1> QED BY <1>1, AsideSettles DEF Ends, NewStages, UseStages

LEMMA EndsSameSettles ==
  ASSUME PoolInv, NEW c \in Calls, Ends(c), UNCHANGED reserved
  PROVE  Settles(c)
<1>1. \A k \in Keys : reserved'[k] >= reserved[k] - (IF Comes(c, call[c], k) THEN 1 ELSE 0)
  <2> TAKE k \in Keys
  <2>1. reserved[k] \in Nat /\ reserved'[k] = reserved[k]
    BY TypesOf DEF Maps
  <2> QED BY <2>1
<1> QED BY <1>1, TypesOf, EndsSettles DEF Maps

LEMMA EndsPrivate ==
  ASSUME PoolInv, NEW c, Ends(c)
  PROVE  PrivateFits(c)
BY TypesOf DEF Ends, PrivateFits, OfCall

LEMMA SamePrivate ==
  ASSUME NEW c, UNCHANGED private
  PROVE  PrivateFits(c)
BY DEF PrivateFits, OfCall

LEMMA ConnectSettles == ASSUME PoolInv, NEW c \in Stubs, Connect(c) PROVE Settles(c)
<1>1. c \in Calls /\ call[c].pc = "out"
  BY DEF Calls, Connect
<1>2. PICK k \in Keys, b \in BOOLEAN : Acquires(c, [Out EXCEPT !.key = k, !.private = b], proc)
  BY DEF Connect
<1> DEFINE s == [Out EXCEPT !.key = k, !.private = b]
<1>3. s \in CallStates /\ s.key = k
  BY OutIs DEF CallStates
<1>4. Acquires(c, s, proc)
  BY <1>2
<1> HIDE DEF s
<1> QED BY <1>1, <1>3, <1>4, AcquiresSettles

LEMMA WarmSettles == ASSUME PoolInv, NEW c \in Warmers, Warm(c) PROVE Settles(c)
<1>1. c \in Calls /\ call[c].pc = "out"
  BY DEF Calls, Warm
<1>2. PICK k \in Keys : GetOrCreate(c, [Out EXCEPT !.key = k], proc)
  BY DEF Warm
<1> DEFINE s == [Out EXCEPT !.key = k]
<1>3. s \in CallStates /\ s.key = k /\ ~s.private
  <2>1. Out.private = FALSE
    BY DEF Out
  <2> QED BY <2>1, OutIs DEF CallStates
<1>4. GetOrCreate(c, s, proc)
  BY <1>2
<1> HIDE DEF s
<1> QED BY <1>1, <1>3, <1>4, CreateSettles

LEMMA RespawnSettles == ASSUME PoolInv, NEW c \in Stubs, Respawn(c) PROVE Settles(c)
<1>1. c \in Calls /\ call[c].pc = "attached"
  BY DEF Calls, Respawn
<1> DEFINE procs == Detached(call[c].hand)
<1>2. PICK b \in BOOLEAN :
        Acquires(c, [Out EXCEPT !.key = call[c].key, !.private = b, !.again = TRUE], procs)
  BY DEF Respawn
<1> DEFINE s == [Out EXCEPT !.key = call[c].key, !.private = b, !.again = TRUE]
<1>3. s \in CallStates /\ s.key \in Keys
  <2>1. call[c].key \in Keys
    BY <1>1, TypesOf DEF CallOK
  <2>2. s = Again(call[c].key, b)
    BY DEF Again
  <2> HIDE DEF s
  <2> QED BY <2>1, <2>2, AgainCall
<1>4. Acquires(c, s, procs)
  BY <1>2
<1> HIDE DEF s, procs
<1> QED BY <1>1, <1>3, <1>4, AcquiresSettles

LEMMA GrantedSettles == ASSUME PoolInv, NEW c \in Calls, LockGranted(c) PROVE Settles(c)
<1> DEFINE s == call[c]
           locks == [lock EXCEPT ![s.lck] = [held |-> TRUE, waiters |-> Tail(@.waiters)]]
<1>1. s.pc = "lockWait" /\ EntersLock(c, s, locks, lockOf, proc)
  BY DEF LockGranted
<1>2. s \in CallStates /\ s.key \in Keys /\ ~s.private
  BY <1>1, TypesOf DEF CallOK
<1> HIDE DEF locks
<1> QED BY <1>1, <1>2, EntersSettles

LEMMA StaleStoppedSettles == ASSUME PoolInv, NEW c \in Calls, StaleStopped(c) PROVE Settles(c)
BY TypesOf, AsksSettles DEF StaleStopped

LEMMA FailsSettles ==
  ASSUME PoolInv, NEW c \in Calls, Fails(c), UNCHANGED reserved
  PROVE  Settles(c) /\ PrivateFits(c)
BY EndsSameSettles, EndsPrivate DEF Fails

LEMMA DiscardedSettles ==
  ASSUME PoolInv, NEW c \in Calls, Discarded(c)
  PROVE  Settles(c) /\ PrivateFits(c)
<1>1. UNCHANGED reserved /\ call[c] \in CallStates
  BY TypesOf DEF Discarded
<1>2. CASE Goes(c, Spawning([call[c] EXCEPT !.tries = @ + 1])) /\ UNCHANGED private
  <2>1. Spawning([call[c] EXCEPT !.tries = @ + 1]).pc = "spawn"
    BY <1>1 DEF Spawning, CallStates
  <2> QED BY <1>1, <1>2, <2>1, QuietSettles, SamePrivate DEF NewStages, UseStages
<1>3. CASE Fails(c)
  BY <1>1, <1>3, FailsSettles
<1> QED BY <1>2, <1>3 DEF Discarded

LEMMA AddPrivateSettles ==
  ASSUME PoolInv, NEW c \in Stubs, AddPrivate(c)
  PROVE  Settles(c) /\ PrivateFits(c)
<1> DEFINE s == call[c]
<1>0. c \in Calls
  BY DEF Calls
<1>1. s.pc = "record" /\ s.private /\ private' = [private EXCEPT ![c] = s.hand]
  BY DEF AddPrivate
<1>2. s \in CallStates /\ s.hand \in Procs /\ s.key \in Keys /\ OfCall(s.hand, c)
  BY <1>0, <1>1, TypesOf DEF CallOK, HandStages, OfCall, Has, NewStages
<1>3. PrivateFits(c)
  BY <1>1, <1>2, TypesOf DEF PrivateFits
<1>4. CASE Obtains(c, s, s.hand, proc)
  BY <1>0, <1>1, <1>2, <1>3, <1>4, ObtainsSettles
<1>5. CASE call' = [call EXCEPT ![c].pc = "swap", ![c].hand = private[c]] /\ UNCHANGED reserved
  <2> DEFINE t == [s EXCEPT !.pc = "swap", !.hand = private[c]]
  <2>1. t.pc = "swap" /\ Goes(c, t)
    BY <1>0, <1>2, <1>5, TypesOf DEF Goes, CallStates
  <2> HIDE DEF t
  <2> QED BY <1>0, <1>3, <1>5, <2>1, QuietSettles DEF NewStages, UseStages
<1> QED BY <1>4, <1>5 DEF AddPrivate

LEMMA SwappedSettles == ASSUME PoolInv, NEW c \in Stubs, Swapped(c) PROVE Settles(c)
<1> DEFINE s == call[c]
<1>0. c \in Calls
  BY DEF Calls
<1>1. s.pc = "swap" /\ Obtains(c, s, private[c], Stopped(s.hand))
  BY DEF Swapped
<1>2. s \in CallStates /\ s.private /\ s.key \in Keys /\ private[c] # None
  BY <1>0, <1>1, TypesOf DEF CallOK, OwnOf
<1>3. private[c] \in Procs /\ OfCall(private[c], c)
  BY <1>2, TypesOf DEF OfCall
<1> QED BY <1>0, <1>1, <1>2, <1>3, ObtainsSettles

\* A respawn that stops waiting gives one reservation back.
LEMMA UnreservedLess ==
  ASSUME PoolInv, NEW c \in Stubs, call[c].pc = "prime", reserved' = Unreserved(call[c])
  PROVE  /\ reserved' \in [Keys -> Nat]
         /\ \A k \in Keys : reserved'[k] >= reserved[k] - (IF Comes(c, call[c], k) THEN 1 ELSE 0)
<1> DEFINE s == call[c]
<1>1. c \in Calls /\ reserved \in [Keys -> Nat]
  BY TypesOf DEF Calls, Maps
<1>2. s.key \in Keys
  BY <1>1, TypesOf DEF CallOK
<1>3. CASE s.private
  <2>1. reserved' = reserved
    BY <1>3 DEF Unreserved
  <2>2. \A k \in Keys : reserved[k] \in Nat /\ ~Comes(c, s, k)
    BY <1>1, <1>3 DEF Comes
  <2> QED BY <1>1, <2>1, <2>2
<1>4. CASE ~s.private
  <2>1. \A k \in Keys : reserved[k] \in Nat /\ (Comes(c, s, k) <=> k = s.key)
    BY <1>1, <1>4 DEF Comes
  <2>2. reserved' \in [Keys -> Nat]
        /\ \A k \in Keys : reserved'[k] = IF k = s.key THEN (IF reserved[k] > 0 THEN reserved[k] - 1 ELSE 0)
                                          ELSE reserved[k]
    BY <1>1, <1>2, <1>4 DEF Unreserved
  <2>3. ASSUME NEW k \in Keys PROVE reserved'[k] >= reserved[k] - (IF Comes(c, s, k) THEN 1 ELSE 0)
    <3> DEFINE n == reserved[k]  m == reserved'[k]  in == Comes(c, s, k)
    <3>1. n \in Nat /\ m = IF in THEN (IF n > 0 THEN n - 1 ELSE 0) ELSE n
      BY <2>1, <2>2
    <3> HIDE DEF n, m, in
    <3>2. m >= n - (IF in THEN 1 ELSE 0)
      BY <3>1
    <3> QED BY <3>2 DEF n, m, in
  <2> QED BY <2>2, <2>3
<1> QED BY <1>3, <1>4

LEMMA PrimedSettles ==
  ASSUME PoolInv, NEW c \in Stubs, Primed(c)
  PROVE  Settles(c) /\ PrivateFits(c)
<1> DEFINE s == call[c]
<1>0. c \in Calls
  BY DEF Calls
<1>1. s.pc = "prime" /\ reserved' = Unreserved(s)
  BY DEF Primed
<1>2. s \in CallStates
  BY <1>0, TypesOf
<1>3. CASE call' = [call EXCEPT ![c].pc = "attached"] /\ UNCHANGED private
  <2> DEFINE t == [s EXCEPT !.pc = "attached"]
  <2>1. /\ Goes(c, t) /\ t.pc = "attached" /\ t.hand = s.hand /\ t.key = s.key /\ t.private = s.private
    BY <1>0, <1>2, <1>3, TypesOf DEF Goes, CallStates
  <2> HIDE DEF t
  <2>2. \A p \in Procs : Fits(c, t, p)
    BY <1>0, <1>1, <2>1 DEF Fits, Shares, Has, OfKey, OfCall, NewStages, UseStages
  <2>3. Reserves(c, t)
    <3>1. \A k \in Keys : ~Comes(c, t, k)
      BY <2>1 DEF Comes
    <3>2. reserved \in [Keys -> Nat]
      BY TypesOf DEF Maps
    <3> QED BY <1>1, <3>1, <3>2, UnreservedLess DEF Reserves
  <2> QED BY <1>3, <2>1, <2>2, <2>3, SamePrivate DEF Settles, NewStages
<1>4. CASE Ends(c)
  BY <1>0, <1>1, <1>4, UnreservedLess, EndsSettles, EndsPrivate
<1> QED BY <1>3, <1>4 DEF Primed

LEMMA ClosesSettles ==
  ASSUME PoolInv, NEW c \in Calls, call[c].pc = "attached", Closes(c), UNCHANGED reserved
  PROVE  Settles(c) /\ PrivateFits(c)
<1> DEFINE s == call[c]
<1>1. CASE Ends(c)
  BY <1>1, EndsSameSettles, EndsPrivate
<1>2. CASE call' = [call EXCEPT ![c].pc = "closing"] /\ UNCHANGED private
  <2> DEFINE t == [s EXCEPT !.pc = "closing"]
  <2>1. /\ Goes(c, t) /\ t.pc = "closing" /\ t.hand = s.hand /\ t.key = s.key /\ t.private = s.private
    BY <1>2, TypesOf DEF Goes, CallStates
  <2> HIDE DEF t
  <2>2. \A p \in Procs : Fits(c, t, p)
    BY <2>1 DEF Fits, Shares, Has, OfKey, OfCall, NewStages, UseStages
  <2>3. Reserves(c, t)
    <3>1. \A k \in Keys : ~Comes(c, t, k) /\ ~Comes(c, s, k) /\ reserved[k] \in Nat
      BY <2>1, TypesOf DEF Comes, Maps
    <3> QED BY <3>1 DEF Reserves
  <2> QED BY <1>2, <2>1, <2>2, <2>3, SamePrivate DEF Settles, NewStages
<1> QED BY <1>1, <1>2 DEF Closes, Detaches

LEMMA CancelSettles ==
  ASSUME PoolInv, NEW c \in Calls, Cancel(c)
  PROVE  Settles(c) /\ PrivateFits(c)
<1> DEFINE s == call[c]
<1>1. CASE s.pc = "lockWait" /\ Ends(c) /\ UNCHANGED reserved
  BY <1>1, EndsSameSettles, EndsPrivate
<1>2. CASE Fails(c) /\ UNCHANGED reserved
  BY <1>2, FailsSettles
<1>3. CASE s.pc = "prime" /\ reserved' = Unreserved(s) /\ Ends(c)
  <2>1. c \in Stubs
    BY <1>3, TypesOf DEF CallOK, InPool, Calls
  <2> QED BY <1>3, <2>1, UnreservedLess, EndsSettles, EndsPrivate
<1>4. CASE s.pc = "attached" /\ Closes(c) /\ UNCHANGED reserved
  BY <1>4, ClosesSettles
<1>5. CASE Goes(c, Out) /\ UNCHANGED <<reserved, private>>
  BY <1>5, QuietSettles, SamePrivate DEF Out, NewStages, UseStages
<1> QED BY <1>1, <1>2, <1>3, <1>4, <1>5 DEF Cancel

(***************************************************************************)
(* What the steps of a call do to the owners.                              *)
(***************************************************************************)
LEMMA SettlesOwns ==
  ASSUME PoolInv, OwnInv, ResInv, NEW c \in Calls, Quiet(c), Settles(c), PrivateFits(c)
  PROVE  OwnInv' /\ ResInv'
<1>1. PICK t : /\ Goes(c, t) /\ t.pc \notin NewStages /\ (\A p \in Procs : Fits(c, t, p))
               /\ Reserves(c, t)
  BY DEF Settles
<1>2. NoneAdded /\ UNCHANGED draining /\ PrivateTo(c)
  BY DEF Quiet, Acts
<1>3. ASSUME NEW p \in Procs PROVE OneOwner(p)'
  <2>1. \A k \in Keys : pooled'[k] = p => pooled[k] = p
    BY <1>2, Constants DEF NoneAdded
  <2>2. Narrows(p)
    BY <1>1, <1>2, <2>1, FitsNarrows
  <2> QED BY <2>2, NarrowsKeeps DEF OwnInv
<1>4. ASSUME NEW d \in Stubs, call'[d].pc \in NewStages PROVE private'[d] # call'[d].hand
  <2>1. d # c /\ call'[d] = call[d]
    BY <1>1, <1>4, TypesOf DEF Goes, Calls
  <2> QED BY <1>2, <1>4, <2>1 DEF PrivateTo, OwnInv
<1> QED BY <1>1, <1>3, <1>4, ReservesKeeps DEF OwnInv

\* A new process is nobody's but the call's that started it.
LEMMA SpawnedOwns ==
  ASSUME PoolInv, OwnInv, ResInv, NEW c \in Calls, Spawned(c)
  PROVE  OwnInv' /\ ResInv'
<1>1. PICK p \in Fresh : call' = [call EXCEPT ![c].pc = "record", ![c].hand = p]
  BY DEF Spawned
<1> DEFINE s == call[c]
           t == [s EXCEPT !.pc = "record", !.hand = p]
<1>2. s \in CallStates /\ s.pc = "spawn" /\ p \in Procs /\ p # None
  BY TypesOf, Constants DEF Spawned, Fresh
<1>3. t.pc = "record" /\ t.hand = p
  BY <1>2 DEF CallStates
<1>4. Goes(c, t)
  BY <1>1, <1>2, TypesOf DEF Goes, CallStates
<1> HIDE DEF t
<1>5. UNCHANGED <<pooled, draining, private, reserved>>
  BY DEF Spawned, index
<1>6. /\ \A k \in Keys : pooled[k] # p
      /\ \A d \in Stubs : private[d] # p
      /\ \A e \in draining : e.proc # p
      /\ \A d \in Calls : call[d].hand # p
  BY <1>2 DEF Fresh, Referenced, Handled, Indexed
<1>7. call'[c] = t /\ \A d \in Calls \ {c} : call'[d] = call[d]
  BY <1>4, TypesOf DEF Goes
<1>8. OneOwner(p)'
  <2>1. \A k \in Keys : ~OfKey(p, k)'
    BY <1>3, <1>5, <1>6, <1>7 DEF OfKey, OfIndex, Shares, UseStages
  <2>2. \A d \in Calls : OfCall(p, d)' => d = c
    BY <1>5, <1>6, <1>7 DEF OfCall, Has
  <2> QED BY <2>1, <2>2 DEF OneOwner
<1>9. ASSUME NEW q \in Procs, q # p PROVE OneOwner(q)'
  <2>1. Fits(c, t, q)
    BY <1>3, <1>9 DEF Fits, Shares, Has
  <2>2. PrivateTo(c)
    BY <1>5, TypesOf DEF PrivateTo
  <2>3. Narrows(q)
    BY <1>4, <1>5, <2>1, <2>2, SamePrivate, FitsNarrows
  <2> QED BY <2>3, NarrowsKeeps DEF OwnInv
<1>10. ASSUME NEW d \in Stubs, call'[d].pc \in NewStages PROVE private'[d] # call'[d].hand
  <2>1. CASE d = c
    BY <1>3, <1>5, <1>6, <1>7, <2>1
  <2>2. CASE d # c
    BY <1>5, <1>7, <1>10, <2>2 DEF OwnInv, Calls
  <2> QED BY <2>1, <2>2
<1>11. Reserves(c, t)
  <2>1. \A k \in Keys : ~Comes(c, t, k) /\ ~Comes(c, s, k) /\ reserved[k] \in Nat
    BY <1>2, <1>3, TypesOf DEF Comes, Maps
  <2> QED BY <1>5, <2>1 DEF Reserves
<1> QED BY <1>4, <1>8, <1>9, <1>10, <1>11, ReservesKeeps DEF OwnInv

\* What c does with the backend it has just put into the pool.
LEMMA AddedSettles ==
  ASSUME PoolInv, NEW c \in Calls, call[c].pc = "record", NEW s \in CallStates, s.key \in Keys,
         ~s.private, NEW p \in Procs, NEW procs, Obtains(c, s, p, procs)
  PROVE  \E t : /\ Goes(c, t) /\ t.pc \notin NewStages /\ Reserves(c, t)
                /\ \A q, j : Shares(t, q, j) => q = p /\ j = s.key
                /\ \A q : ~Has(t, q)
<1>1. \A k \in Keys : ~Comes(c, call[c], k) /\ reserved[k] \in Nat
  BY TypesOf DEF Comes, Maps
<1>2. CASE Goes(c, Out) /\ UNCHANGED reserved
  BY <1>1, <1>2 DEF Out, NewStages, UseStages, Shares, Has, Reserves, Comes
<1>3. CASE /\ Goes(c, [Out EXCEPT !.pc = "attached", !.key = s.key, !.hand = p, !.private = s.private])
           /\ UNCHANGED reserved
  <2> DEFINE t == [Out EXCEPT !.pc = "attached", !.key = s.key, !.hand = p, !.private = s.private]
  <2>1. Goes(c, t) /\ t.pc = "attached" /\ t.key = s.key /\ t.hand = p /\ ~t.private
    BY <1>3 DEF Out
  <2> HIDE DEF t
  <2> QED BY <1>1, <1>3, <2>1 DEF NewStages, Shares, Has, Reserves, Comes
<1>4. CASE /\ Goes(c, [Out EXCEPT !.pc = "prime", !.key = s.key, !.hand = p, !.private = s.private])
           /\ reserved' = [reserved EXCEPT ![s.key] = @ + 1]
  <2> DEFINE t == [Out EXCEPT !.pc = "prime", !.key = s.key, !.hand = p, !.private = s.private]
  <2>1. Goes(c, t) /\ t.pc = "prime" /\ t.key = s.key /\ t.hand = p /\ ~t.private
    BY <1>4 DEF Out
  <2> HIDE DEF t
  <2>2. \A k \in Keys : /\ Comes(c, t, k) => k = s.key
                        /\ reserved'[k] = IF k = s.key THEN reserved[k] + 1 ELSE reserved[k]
    BY <1>4, <2>1, TypesOf DEF Comes, Maps
  <2>3. Reserves(c, t)
    BY <1>1, <2>2 DEF Reserves
  <2> QED BY <2>1, <2>3 DEF NewStages, Shares, Has
<1> QED BY <1>2, <1>3, <1>4 DEF Obtains

\* A new backend stays with its call, or passes to the key it was started for.
LEMMA AddOwns ==
  ASSUME PoolInv, OwnInv, ResInv, NEW c \in Calls, Add(c)
  PROVE  OwnInv' /\ ResInv'
<1> DEFINE s == call[c]
           k == s.key
<1>1. s.pc = "record" /\ ~s.private /\ UNCHANGED <<draining, private>>
  BY DEF Add
<1>0. PICK p \in Procs : p = s.hand
  BY <1>1, TypesOf DEF CallOK, HandStages
<1>2. s \in CallStates /\ k \in Keys /\ p = s.hand /\ p # None /\ Has(s, p)
  BY <1>0, <1>1, TypesOf, Constants DEF CallOK, Has, NewStages
<1>3. PrivateTo(c) /\ PrivateFits(c)
  BY <1>1, TypesOf, SamePrivate DEF PrivateTo
<1>4. CASE /\ call' = [call EXCEPT ![c].pc = IF Stale(s) THEN "discard" ELSE "refuse"]
           /\ UNCHANGED <<pooled, reserved>>
  <2> DEFINE pc == IF Stale(s) THEN "discard" ELSE "refuse"
             t == [s EXCEPT !.pc = pc]
  <2>1. pc \in {"discard", "refuse"}
    OBVIOUS
  <2>2. Goes(c, t)
    BY <1>2, <1>4, TypesOf DEF Goes, CallStates
  <2> HIDE DEF pc
  <2>3. t.pc = pc /\ t.hand = p
    BY <1>2 DEF CallStates
  <2> HIDE DEF t
  <2>4. ASSUME NEW q \in Procs PROVE OneOwner(q)'
    <3>1. Fits(c, t, q)
      BY <1>2, <2>1, <2>3 DEF Fits, Shares, Has, OfCall, UseStages
    <3>2. Narrows(q)
      BY <1>1, <1>3, <1>4, <2>2, <3>1, FitsNarrows
    <3> QED BY <3>2, NarrowsKeeps DEF OwnInv
  <2>5. call'[c] = t /\ \A d \in Calls \ {c} : call'[d] = call[d]
    BY <2>2, TypesOf DEF Goes
  <2>6. ASSUME NEW d \in Stubs, call'[d].pc \in NewStages PROVE private'[d] # call'[d].hand
    <3>1. CASE d = c
      BY <1>1, <1>2, <2>3, <2>5, <3>1 DEF OwnInv, NewStages
    <3>2. CASE d # c
      BY <1>1, <2>5, <2>6, <3>2 DEF OwnInv, Calls
    <3> QED BY <3>1, <3>2
  <2>7. Reserves(c, t)
    <3>1. \A j \in Keys : ~Comes(c, t, j) /\ ~Comes(c, s, j) /\ reserved[j] \in Nat
      BY <1>1, <2>1, <2>3, TypesOf DEF Comes, Maps
    <3> QED BY <1>4, <3>1 DEF Reserves
  <2> QED BY <2>2, <2>4, <2>6, <2>7, ReservesKeeps DEF OwnInv
<1>5. CASE Inserts(c, k, p) /\ Obtains(c, s, p, proc)
  <2>1. pooled'[k] = p /\ \A j \in Keys \ {k} : pooled'[j] \in {pooled[j], None}
    BY <1>2, <1>5, TypesOf DEF Inserts, Maps
  <2>2. PICK t : /\ Goes(c, t) /\ t.pc \notin NewStages /\ Reserves(c, t)
                 /\ \A q, j : Shares(t, q, j) => q = p /\ j = k
                 /\ \A q : ~Has(t, q)
    BY <1>1, <1>2, <1>5, AddedSettles
  <2>3. call'[c] = t /\ \A d \in Calls \ {c} : call'[d] = call[d]
    BY <2>2, TypesOf DEF Goes
  <2>4. OfCall(p, c) /\ (c \in Stubs => private[c] # p)
    BY <1>1, <1>2 DEF OfCall, OwnInv, NewStages
  <2>5. OneOwner(p)'
    <3>1. OneOwner(p)
      BY <1>2 DEF OwnInv
    <3>2. ASSUME NEW j \in Keys, OfKey(p, j)' PROVE j = k
      <4>1. ~OfKey(p, j)
        BY <2>4, <3>1 DEF OneOwner
      <4>2. CASE OfIndex(p, j)'
        <5>1. ~OfIndex(p, j)
          BY <4>1 DEF OfKey
        <5> QED BY <1>1, <1>2, <2>1, <4>2, <5>1 DEF OfIndex
      <4>3. CASE \E d \in Calls : Shares(call'[d], p, j)
        BY <2>2, <2>3, <4>1, <4>3 DEF OfKey
      <4> QED BY <3>2, <4>2, <4>3 DEF OfKey, Shares
    <3>3. ASSUME NEW d \in Calls, OfCall(p, d)' PROVE FALSE
      <4>1. CASE d = c
        BY <1>1, <2>2, <2>3, <2>4, <3>3, <4>1 DEF OfCall, Has
      <4>2. CASE d # c
        <5>1. OfCall(p, d)
          BY <1>1, <2>3, <3>3, <4>2 DEF OfCall, Has
        <5> QED BY <2>4, <3>1, <4>2, <5>1 DEF OneOwner
      <4> QED BY <4>1, <4>2
    <3> QED BY <3>2, <3>3 DEF OneOwner
  <2>6. ASSUME NEW q \in Procs, q # p PROVE OneOwner(q)'
    <3>1. Fits(c, t, q)
      BY <2>2, <2>6 DEF Fits
    <3>2. \A j \in Keys : pooled'[j] = q => pooled[j] = q
      BY <2>1, <2>6, Constants
    <3>3. Narrows(q)
      BY <1>1, <1>3, <2>2, <3>1, <3>2, FitsNarrows
    <3> QED BY <3>3, NarrowsKeeps DEF OwnInv
  <2>7. ASSUME NEW d \in Stubs, call'[d].pc \in NewStages PROVE private'[d] # call'[d].hand
    <3>1. d # c /\ call'[d] = call[d]
      BY <2>2, <2>3, <2>7 DEF Calls
    <3> QED BY <1>1, <2>7, <3>1 DEF OwnInv
  <2> QED BY <2>2, <2>5, <2>6, <2>7, ReservesKeeps DEF OwnInv
<1> QED BY <1>2, <1>4, <1>5 DEF Add

(***************************************************************************)
(* The steps of the others, one by one: what the index says of a backend   *)
(* it said before, what the heartbeat takes for gone does not run, and who *)
(* is condemned is not in use.                                             *)
(***************************************************************************)
Recedes ==
  /\ UNCHANGED <<call, reserved>>
  /\ \A p \in Procs, k \in Keys : OfIndex(p, k)' => OfIndex(p, k)
  /\ \A c \in Stubs : private'[c] \in {private[c], None}

Late(p) == \E e \in draining : e.proc = p /\ e.late

Spares ==
  stage = "serving" =>
    \A p \in Condemned' \ Condemned : Alive(p) => Users(p) = {} \/ Late(p)

UseInv == PoolInv /\ RefInv /\ OwnInv /\ ResInv /\ BeatInv

LEMMA RecedesKeeps ==
  ASSUME PoolInv, OwnInv, ResInv, Recedes
  PROVE  OwnInv' /\ ResInv'
<1>1. ASSUME NEW p \in Procs PROVE OneOwner(p)'
  <2>1. \A k \in Keys : OfKey(p, k)' => OfKey(p, k)
    BY DEF Recedes, OfKey, Shares
  <2>2. \A c \in Calls : OfCall(p, c)' => OfCall(p, c)
    BY Constants DEF Recedes, OfCall, Has
  <2> QED BY <2>1, <2>2, NarrowsKeeps DEF Narrows, OwnInv
<1>2. ASSUME NEW c \in Stubs, call'[c].pc \in NewStages PROVE private'[c] # call'[c].hand
  <2>1. c \in Calls /\ call'[c] = call[c]
    BY DEF Recedes, Calls
  <2>2. call[c].hand # None
    BY <1>2, <2>1, TypesOf, Constants DEF CallOK, HandStages, NewStages
  <2> QED BY <1>2, <2>1, <2>2 DEF Recedes, OwnInv
<1>3. ResInv'
  <2>1. \A k \in Keys : Coming(k)' = Coming(k)
    BY DEF Recedes, Coming, Comes
  <2> QED BY <2>1 DEF Recedes, ResInv
<1> QED BY <1>1, <1>2, <1>3 DEF OwnInv

\* The heartbeat holds on to what it takes for gone.
LEMMA GoneKeeps ==
  ASSUME PoolInv, BeatInv, Calm,
         (beat'.pc = "gone") => (beat.pc = "gone" /\ beat'.cur = beat.cur)
  PROVE  BeatInv'
<1>1. ASSUME beat'.pc = "gone" PROVE proc'[beat'.cur[2]].st # "up"
  <2>1. beat.pc = "gone" /\ beat'.cur = beat.cur /\ beat.cur[2] \in Procs
    BY <1>1 DEF PoolInv, SweepInv
  <2> QED BY <2>1 DEF Calm, Calms, BeatInv
<1> QED BY <1>1 DEF BeatInv

\* A backend of k with neither connections nor reservations has no users.
LEMMA FreeOfUsers ==
  ASSUME UseInv, NEW p \in Procs, NEW k \in Keys, OfIndex(p, k), proc[p].refs = 0, reserved[k] = 0
  PROVE  Users(p) = {}
<1>1. Attached(p) = {}
  <2>1. Cardinality(Attached(p)) = 0
    <3> DEFINE n == Cardinality(Attached(p))
    <3>1. n \in Nat /\ proc[p].refs >= n
      BY AttachedFinite DEF UseInv, RefInv
    <3> HIDE DEF n
    <3>2. n = 0
      BY <3>1
    <3> QED BY <3>2 DEF n
  <2> QED BY <2>1, AttachedFinite, FS_EmptySet
<1>2. Coming(k) = {}
  <2>1. Cardinality(Coming(k)) = 0
    <3> DEFINE n == Cardinality(Coming(k))
    <3>1. n \in Nat /\ reserved[k] >= n
      BY ComingFinite DEF UseInv, ResInv
    <3> HIDE DEF n
    <3>2. n = 0
      BY <3>1
    <3> QED BY <3>2 DEF n
  <2> QED BY <2>1, ComingFinite, FS_EmptySet
<1> SUFFICES ASSUME NEW c \in Stubs, call[c].hand = p, call[c].pc \in UseStages PROVE FALSE
  BY DEF Users, UseStages
<1>3. c \in Calls /\ OfKey(p, k) /\ OneOwner(p)
  BY DEF Calls, OfKey, UseInv, OwnInv
<1>4. call[c].pc = "prime"
  BY <1>1 DEF Attached, UseStages
<1>5. call[c].key \in Keys /\ call[c].private \in BOOLEAN
  BY <1>3, <1>4, TypesOf, StatesOf DEF UseInv, CallOK
<1>6. CASE call[c].private
  <2>1. OfCall(p, c)
    BY <1>6 DEF OfCall, Has
  <2> QED BY <1>3, <2>1 DEF OneOwner
<1>7. CASE ~call[c].private
  <2>1. OfKey(p, call[c].key)
    BY <1>3, <1>7 DEF OfKey, Shares
  <2>2. call[c].key = k
    BY <1>3, <1>5, <2>1 DEF OneOwner
  <2> QED BY <1>2, <1>4, <1>7, <2>2 DEF Coming, Comes
<1> QED BY <1>5, <1>6, <1>7

LEMMA IdleHasNoUsers ==
  ASSUME UseInv, NEW k \in Keys, Idle(k)
  PROVE  pooled[k] \in Procs /\ Users(pooled[k]) = {}
<1>1. pooled[k] \in Procs /\ OfIndex(pooled[k], k)
  BY TypesOf DEF UseInv, Idle, Maps, OfIndex
<1> QED BY <1>1, FreeOfUsers DEF Idle

LEMMA SameIndex ==
  ASSUME UNCHANGED <<pooled, draining, private, call, reserved>>
  PROVE  Recedes
BY DEF Recedes, OfIndex

LEMMA UnpooledRecedes ==
  ASSUME PoolInv, NEW K \in SUBSET Keys, pooled' = Unpooled(K),
         UNCHANGED <<draining, private, call, reserved>>
  PROVE  Recedes
<1>1. \A k \in Keys : pooled'[k] \in {pooled[k], None}
  BY Unpools
<1> QED BY <1>1, Constants DEF Recedes, OfIndex

LEMMA DrainsRecedes ==
  ASSUME PoolInv, Drains, UNCHANGED <<private, call, reserved>>
  PROVE  Recedes
<1> DEFINE K == { k \in Keys : pooled[k] # None }
<1>1. /\ pooled' = Unpooled(K)
      /\ draining' = draining \cup { [key |-> k, proc |-> pooled[k], late |-> FALSE] : k \in K }
  BY DEF Drains
<1>2. \A k \in Keys : pooled'[k] = None
  BY <1>1 DEF Unpooled
<1>3. \A e \in draining' : e \in draining \/ (e.key \in Keys /\ pooled[e.key] = e.proc)
  BY <1>1
<1> QED BY <1>2, <1>3, Constants DEF Recedes, OfIndex

Aside == Recedes /\ BeatInv' /\ Spares

LEMMA IdleSweepAside == ASSUME UseInv, IdleSweep PROVE Aside
<1>1. PICK K \in SUBSET Evictable : sweep' = Backends(K) /\ pooled' = Unpooled(K)
  BY DEF IdleSweep
<1>2. K \in SUBSET Keys /\ \A k \in K : Idle(k)
  BY DEF Evictable
<1>3. Recedes
  BY <1>1, <1>2, UnpooledRecedes DEF UseInv, IdleSweep
<1>4. BeatInv'
  BY DEF UseInv, BeatInv, Alive, IdleSweep
<1>5. \A p \in Condemned' \ Condemned : Users(p) = {}
  <2>1. \A p \in Condemned' \ Condemned : p \in Backends(K)
    BY <1>1 DEF Condemned, IdleSweep
  <2> QED BY <1>2, <2>1, IdleHasNoUsers DEF Backends
<1> QED BY <1>3, <1>4, <1>5 DEF Aside, Spares

LEMMA RotateAside == ASSUME UseInv, Rotate PROVE Aside
<1> DEFINE K == { k \in Keys : Idle(k) }
<1>1. UNCHANGED <<reserved, private, proc, call, sweep, beat, stopping, shielded>>
  BY DEF Rotate
<1>2. BeatInv'
  BY <1>1 DEF UseInv, BeatInv, Alive
<1>3. CASE rotate'.todo = Backends(K) /\ pooled' = Unpooled(K) /\ UNCHANGED draining
  <2>1. Recedes
    BY <1>1, <1>3, UnpooledRecedes DEF UseInv
  <2>2. \A p \in Condemned' \ Condemned : p \in Backends(K)
    BY <1>1, <1>3 DEF Condemned
  <2>3. \A p \in Condemned' \ Condemned : Users(p) = {}
    BY <2>2, IdleHasNoUsers DEF Backends
  <2> QED BY <1>2, <2>1, <2>3 DEF Aside, Spares
<1>4. CASE Drains /\ UNCHANGED rotate
  <2>1. Recedes
    BY <1>1, <1>4, DrainsRecedes DEF UseInv
  <2>2. Condemned' = Condemned
    BY <1>1, <1>4 DEF Condemned
  <2> QED BY <1>2, <2>1, <2>2 DEF Aside, Spares
<1> QED BY <1>3, <1>4 DEF Rotate

\* A step that condemns nobody, and finds nobody gone.
LEMMA MildAside ==
  ASSUME UseInv, Stays, Recedes, Condemned' \subseteq Condemned,
         (beat'.pc = "gone") => (beat.pc = "gone" /\ beat'.cur = beat.cur)
  PROVE  Aside
<1>1. BeatInv'
  BY GoneKeeps DEF UseInv, Stays, ProcKept
<1> QED BY <1>1 DEF Aside, Spares

LEMMA TasksAside ==
  ASSUME UseInv, NEW p \in Procs, Swept(p) \/ TaskStops(p) \/ Dies(p) \/ Breaks(p)
  PROVE  Aside
<1>1. Stays
  BY SweptStays, TaskStopsStays, DiesStays, BreaksStays DEF UseInv
<1>2. Recedes /\ UNCHANGED beat
  BY SameIndex DEF Swept, TaskStops, Dies, Breaks, index, tasks
<1>3. Condemned' \subseteq Condemned
  BY DEF Condemned, Swept, TaskStops, Dies, Breaks, tasks
<1> QED BY <1>1, <1>2, <1>3, MildAside

LEMMA RotatedAside == ASSUME UseInv, NEW p \in Procs, Rotated(p) PROVE Aside
<1>1. UNCHANGED <<lock, reserved, private, call, sweep, beat, stopping, shielded>> /\ Stays
  BY RotatedStays DEF Rotated, UseInv
<1>2. CASE rotate' = [rotate EXCEPT !.todo = @ \ {p}] /\ UNCHANGED <<pooled, draining>>
  <2>1. rotate \in [busy: BOOLEAN, todo: SUBSET Procs]
    BY DEF UseInv, PoolInv, SweepInv
  <2>2. Condemned' \subseteq Condemned
    BY <1>1, <1>2, <2>1 DEF Condemned
  <2> QED BY <1>1, <1>2, <2>2, SameIndex, MildAside
<1>3. CASE Drains /\ rotate' = [busy |-> FALSE, todo |-> {}]
  <2>1. Condemned' \subseteq Condemned
    BY <1>1, <1>3 DEF Condemned
  <2> QED BY <1>1, <1>3, <2>1, DrainsRecedes, MildAside DEF UseInv
<1> QED BY <1>2, <1>3 DEF Rotated

LEMMA DeadlineAside == ASSUME UseInv, NEW e \in draining, DeadlinePasses(e) PROVE Aside
<1> DEFINE d == [e EXCEPT !.late = TRUE]
<1>1. /\ draining' = (draining \ {e}) \cup {d}
      /\ UNCHANGED <<pooled, reserved, private, call, tasks>>
  BY DEF DeadlinePasses
<1>2. d.proc = e.proc /\ d.key = e.key
  BY DEF UseInv, PoolInv, IndexInv
<1> HIDE DEF d
<1>3. Recedes
  BY <1>1, <1>2 DEF Recedes, OfIndex
<1>4. Condemned' \subseteq Condemned /\ UNCHANGED beat
  BY <1>1 DEF Condemned, tasks
<1> QED BY <1>3, <1>4, DeadlineStays, MildAside DEF UseInv

LEMMA BeatStartsAside == ASSUME UseInv, BeatStarts PROVE Aside
<1>1. /\ UNCHANGED <<pooled, draining, private, call, reserved, sweep, rotate, stopping, shielded>>
      /\ beat'.pc = "probe" /\ beat'.shut = {}
  BY DEF BeatStarts, Resting, rest
<1>2. Condemned' \subseteq Condemned
  BY <1>1 DEF Condemned
<1> QED BY <1>1, <1>2, BeatStartsStays, SameIndex, MildAside DEF UseInv

LEMMA BeatStopsAside == ASSUME UseInv, NEW p \in Procs, BeatStops(p) PROVE Aside
<1> DEFINE pc == IF beat.shut # {p} THEN beat.pc ELSE IF beat.pc = "shut" THEN "probe" ELSE "rest"
<1>1. /\ UNCHANGED <<pooled, draining, private, call, reserved, sweep, rotate, stopping, shielded>>
      /\ beat' = [beat EXCEPT !.shut = @ \ {p}, !.pc = pc] /\ pc # "gone"
  BY DEF BeatStops, rest
<1> HIDE DEF pc
<1>2. beat'.pc = pc /\ beat'.shut = beat.shut \ {p}
  BY <1>1, BeatTypes DEF BeatStates, UseInv
<1>3. Condemned' \subseteq Condemned
  BY <1>1, <1>2 DEF Condemned
<1> QED BY <1>1, <1>2, <1>3, BeatStopsStays, SameIndex, MildAside DEF UseInv

\* The heartbeat finds a process gone only when it has exited or is broken.
LEMMA BeatProbesAside == ASSUME UseInv, NEW w \in beat.todo, BeatProbes(w) PROVE Aside
<1> DEFINE left == beat.todo \ {w}
<1>1. /\ UNCHANGED <<pooled, draining, private, call, reserved, sweep, rotate, stopping, shielded>>
      /\ beat.pc = "probe"
  BY DEF BeatProbes, rest
<1>2. w[2] \in Procs /\ beat \in BeatStates /\ proc \in [Procs -> ProcStates]
  BY BeatTypes, TypesOf DEF UseInv
<1>3. beat'.shut = beat.shut
  BY <1>2 DEF BeatProbes, BeatStates
<1>4. Recedes /\ Spares
  <2>1. Condemned' = Condemned
    BY <1>1, <1>3 DEF Condemned
  <2> QED BY <1>1, <2>1, SameIndex DEF Spares
<1>5. CASE beat' = [beat EXCEPT !.pc = "gone", !.todo = left, !.cur = w] /\ proc'[w[2]].st # "up"
  <2>1. beat'.cur = w
    BY <1>2, <1>5 DEF BeatStates
  <2> QED BY <1>4, <1>5, <2>1 DEF Aside, BeatInv
<1>6. CASE beat'.pc # "gone"
  BY <1>4, <1>6 DEF Aside, BeatInv
<1>7. \/ beat' = [beat EXCEPT !.pc = "gone", !.todo = left, !.cur = w] /\ proc'[w[2]].st # "up"
      \/ beat'.pc # "gone"
  <2>1. CASE /\ proc[w[2]].st = "dead" /\ UNCHANGED proc
             /\ beat' = [beat EXCEPT !.pc = "gone", !.todo = left, !.cur = w]
    BY <2>1
  <2>2. CASE beat' = [beat EXCEPT !.todo = left]
    BY <1>1, <1>2, <2>2 DEF BeatStates
  <2>3. CASE /\ proc' = [proc EXCEPT ![w[2]].st = "bad"]
             /\ beat' = [beat EXCEPT !.pc = "gone", !.todo = left, !.cur = w]
    BY <1>2, <2>3 DEF ProcStates
  <2>4. CASE beat' = [beat EXCEPT !.pc = "ping", !.todo = left, !.cur = w]
    BY <1>2, <2>4 DEF BeatStates
  <2> QED BY <2>1, <2>2, <2>3, <2>4 DEF BeatProbes
<1> QED BY <1>5, <1>6, <1>7

LEMMA BeatPingedAside == ASSUME UseInv, BeatPinged PROVE Aside
<1> DEFINE p == beat.cur[2]
<1>1. /\ UNCHANGED <<pooled, draining, private, call, reserved, sweep, rotate, stopping, shielded>>
      /\ beat.pc = "ping"
  BY DEF BeatPinged, rest
<1>2. /\ p \in Procs /\ beat \in BeatStates /\ proc \in [Procs -> ProcStates]
  BY <1>1, BeatTypes, TypesOf DEF UseInv
<1>3. beat'.shut = beat.shut
  BY <1>2 DEF BeatPinged, BeatStates
<1>4. Recedes /\ Spares
  <2>1. Condemned' = Condemned
    BY <1>1, <1>3 DEF Condemned
  <2> QED BY <1>1, <2>1, SameIndex DEF Spares
<1>5. BeatInv'
  <2>1. CASE beat' = [beat EXCEPT !.pc = "probe", !.cur = None]
    BY <1>2, <2>1 DEF BeatStates, BeatInv
  <2>2. CASE /\ beat' = [beat EXCEPT !.pc = "gone"]
             /\ proc' = IF Alive(p) THEN [proc EXCEPT ![p].st = "bad"] ELSE proc
    <3>1. proc'[p].st # "up"
      BY <1>2, <2>2 DEF Alive, ProcStates
    <3>2. beat'.cur = beat.cur
      BY <1>2, <2>2 DEF BeatStates
    <3> QED BY <3>1, <3>2 DEF BeatInv
  <2> QED BY <2>1, <2>2 DEF BeatPinged
<1> QED BY <1>4, <1>5 DEF Aside

LEMMA BeatEvictsAside == ASSUME UseInv, BeatEvicts PROVE Aside
<1> DEFINE k == beat.cur[1]  p == beat.cur[2]
<1>1. /\ UNCHANGED <<draining, private, call, reserved, sweep, rotate, stopping, shielded>>
      /\ beat.pc = "gone" /\ ~Alive(p)
  BY DEF BeatEvicts, rest, UseInv, BeatInv, Alive
<1>2. beat \in BeatStates /\ k \in Keys
  BY <1>1, BeatTypes DEF UseInv, BeatStates
<1>3. CASE pooled' = Unpooled({k}) /\ beat' = [beat EXCEPT !.pc = "shut", !.cur = None, !.shut = {p}]
  <2>1. beat'.pc = "shut" /\ beat'.shut = {p}
    BY <1>2, <1>3 DEF BeatStates
  <2>2. Condemned' \subseteq Condemned \cup {p}
    BY <1>1, <2>1 DEF Condemned
  <2>3. Recedes
    BY <1>1, <1>2, <1>3, UnpooledRecedes DEF UseInv
  <2> QED BY <1>1, <2>1, <2>2, <2>3 DEF Aside, Spares, BeatInv
<1>4. CASE beat' = [beat EXCEPT !.pc = "probe", !.cur = None] /\ UNCHANGED pooled
  <2>1. beat'.pc = "probe" /\ beat'.shut = beat.shut
    BY <1>2, <1>4 DEF BeatStates
  <2>2. Condemned' = Condemned
    BY <1>1, <2>1 DEF Condemned
  <2> QED BY <1>1, <1>4, <2>1, <2>2, SameIndex DEF Aside, Spares, BeatInv
<1> QED BY <1>3, <1>4 DEF BeatEvicts

\* A draining backend is reaped late, or when it has no users.
LEMMA BeatReapsAside == ASSUME UseInv, BeatReaps PROVE Aside
<1> DEFINE pc == IF Due = {} THEN "rest" ELSE "reap"
           shut == { e.proc : e \in Due }
<1>1. /\ UNCHANGED <<pooled, private, call, reserved, sweep, rotate, stopping, shielded>>
      /\ draining' = draining \ Due /\ beat' = [Resting EXCEPT !.pc = pc, !.shut = shut]
      /\ pc \in {"rest", "reap"}
  BY DEF BeatReaps, rest
<1>2. \A p \in shut : Users(p) = {} \/ Late(p)
  <2> SUFFICES ASSUME NEW e \in Due, ~Late(e.proc) PROVE Users(e.proc) = {}
    OBVIOUS
  <2>1. e \in draining /\ e.key \in Keys /\ e.proc \in Procs
    BY DEF Due, UseInv, PoolInv, IndexInv
  <2>2. proc[e.proc].refs = 0 /\ reserved[e.key] = 0
    BY <2>1 DEF Due, Late
  <2>3. OfIndex(e.proc, e.key)
    BY <2>1 DEF OfIndex
  <2> QED BY <2>1, <2>2, <2>3, FreeOfUsers
<1> HIDE DEF pc, shut
<1>3. beat'.pc = pc /\ beat'.shut = shut
  BY <1>1 DEF Resting
<1>4. Condemned' \subseteq Condemned \cup shut
  BY <1>1, <1>3 DEF Condemned
<1>5. Recedes
  BY <1>1 DEF Recedes, OfIndex
<1> QED BY <1>1, <1>2, <1>3, <1>4, <1>5 DEF Aside, Spares, BeatInv

LEMMA ShutsDownAside == ASSUME UseInv, ShutsDown \/ Stop PROVE Aside
<1>1. CASE ConnsGone \/ AllStopped \/ Stop
  <2>1. /\ UNCHANGED <<pooled, draining, private, call, reserved, beat, proc>>
        /\ Condemned' = Condemned
    BY <1>1 DEF ConnsGone, AllStopped, Stop, index, Condemned
  <2> QED BY <2>1, SameIndex DEF Aside, Spares, BeatInv, UseInv
<1>2. CASE SweepsCancelled
  <2>1. UNCHANGED <<pooled, draining, private, call, reserved>> /\ stage # "serving" /\ beat'.pc = "rest"
    BY <1>2 DEF SweepsCancelled, index, Resting
  <2> QED BY <2>1, SameIndex DEF Aside, Spares, BeatInv
<1>3. CASE ShutdownAll
  <2>1. Recedes
    BY <1>3, Constants DEF ShutdownAll, Recedes, OfIndex
  <2>2. stage # "serving" /\ UNCHANGED <<beat, proc>>
    BY <1>3 DEF ShutdownAll
  <2> QED BY <2>1, <2>2 DEF Aside, Spares, BeatInv, UseInv
<1> QED BY <1>1, <1>2, <1>3 DEF ShutsDown

(***************************************************************************)
(* The steps of the calls: what the heartbeat takes for gone stays so, and *)
(* who is condemned is not in use.                                         *)
(***************************************************************************)
Mine == OwnInv' /\ ResInv' /\ BeatInv' /\ Spares

LEMMA CallBeat == ASSUME UseInv, NEW c \in Calls, Quiet(c) \/ Adds(c) PROVE BeatInv'
<1>1. Calm /\ UNCHANGED beat
  BY DEF Quiet, Adds, Acts
<1> QED BY <1>1, GoneKeeps DEF UseInv

LEMMA QuietMine ==
  ASSUME UseInv, NEW c \in Calls, Quiet(c), Settles(c), PrivateFits(c), Spares
  PROVE  Mine
BY CallBeat, SettlesOwns DEF UseInv, Mine

LEMMA SameTasks == ASSUME UNCHANGED tasks PROVE Spares
BY DEF Spares, Condemned, tasks

LEMMA AcquiringMine ==
  ASSUME UseInv, NEW c \in Calls,
         \/ c \in Stubs /\ (Connect(c) \/ Respawn(c))
         \/ c \in Warmers /\ Warm(c)
         \/ LockGranted(c) \/ StaleStopped(c)
  PROVE  Mine
<1>1. UNCHANGED <<private, tasks>>
  BY DEF Connect, Respawn, Warm, LockGranted, StaleStopped
<1>2. Quiet(c) /\ Settles(c)
  BY ConnectQuiet, RespawnQuiet, WarmQuiet, GrantedQuiet, StaleStoppedQuiet, ConnectSettles,
     RespawnSettles, WarmSettles, GrantedSettles, StaleStoppedSettles DEF UseInv
<1>3. c \in Calls /\ PrivateFits(c) /\ Spares
  BY <1>1, SameTasks, SamePrivate
<1> QED BY <1>2, <1>3, QuietMine

LEMMA SpawnedMine == ASSUME UseInv, NEW c \in Calls, Spawned(c) PROVE Mine
<1>1. OwnInv' /\ ResInv'
  BY SpawnedOwns DEF UseInv
<1>2. Spares
  <2>1. Condemned' = Condemned
    BY DEF Spawned, Condemned
  <2> QED BY <2>1 DEF Spares
<1>3. BeatInv'
  <2>1. PICK t \in CallStates : Acts(c, t) /\ Starts(c, t)
    BY SpawnedActs DEF UseInv
  <2>2. UNCHANGED beat /\ t.hand \in Fresh
    BY <2>1 DEF Acts, Starts
  <2>3. ASSUME beat.pc = "gone" PROVE proc'[beat.cur[2]].st # "up"
    <3>1. beat.cur \in Keys \X Procs /\ beat.cur # None
      <4>1. beat.cur \in Keys \X Procs
        BY <2>3, BeatTypes DEF UseInv
      <4> QED BY <4>1, PoolAssumption
    <3>2. beat.cur[2] # t.hand /\ beat.cur[2] \in Procs
      BY <2>2, <3>1 DEF Fresh, Referenced
    <3> QED BY <2>1, <2>3, <3>2, TypesOf DEF Starts, UseInv, BeatInv
  <2> QED BY <2>2, <2>3 DEF BeatInv
<1> QED BY <1>1, <1>2, <1>3 DEF Mine

LEMMA AddMine == ASSUME UseInv, NEW c \in Calls, Add(c) PROVE Mine
<1>1. OwnInv' /\ ResInv' /\ BeatInv'
  BY AddOwns, AddKinds, CallBeat DEF UseInv
<1>2. UNCHANGED <<sweep, rotate, beat, shielded>>
  BY DEF Add
<1>3. CASE UNCHANGED stopping
  <2>1. Condemned' = Condemned
    BY <1>2, <1>3 DEF Condemned
  <2> QED BY <1>1, <2>1 DEF Mine, Spares
<1>4. CASE \E v \in Evictable : stopping' = stopping \cup {pooled[v]}
  <2>1. PICK v \in Evictable : stopping' = stopping \cup {pooled[v]}
    BY <1>4
  <2>2. Condemned' \subseteq Condemned \cup {pooled[v]} /\ v \in Keys /\ Idle(v)
    BY <1>2, <2>1 DEF Condemned, Evictable
  <2> QED BY <1>1, <2>2, IdleHasNoUsers DEF Mine, Spares
<1> QED BY <1>3, <1>4 DEF Add, Inserts

LEMMA EndingMine ==
  ASSUME UseInv, NEW c \in Calls,
         \/ SpawnFails(c) \/ Discarded(c) \/ Refused(c)
         \/ c \in Stubs /\ (Closed(c) \/ Reaped(c) \/ Disconnect(c))
  PROVE  Mine
<1>1. CASE SpawnFails(c) \/ Refused(c)
  <2>1. Fails(c) /\ UNCHANGED <<reserved, tasks>>
    BY <1>1 DEF SpawnFails, Refused
  <2> QED BY <1>1, <2>1, SpawnFailsQuiet, RefusedQuiet, FailsSettles, SameTasks, QuietMine DEF UseInv
<1>2. CASE Discarded(c)
  <2>1. UNCHANGED tasks
    BY <1>2 DEF Discarded
  <2> QED BY <1>2, <2>1, DiscardedQuiet, DiscardedSettles, SameTasks, QuietMine DEF UseInv
<1>3. CASE c \in Stubs /\ Closed(c)
  <2>1. Ends(c) /\ UNCHANGED <<reserved, tasks>>
    BY <1>3 DEF Closed, Detaches
  <2> QED BY <1>3, <2>1, ClosedQuiet, EndsSameSettles, EndsPrivate, SameTasks, QuietMine DEF UseInv
<1>4. CASE c \in Stubs /\ Reaped(c)
  <2>1. Goes(c, Out) /\ UNCHANGED <<reserved, private, tasks>>
    BY <1>4 DEF Reaped, index
  <2>2. Settles(c)
    BY <2>1, QuietSettles DEF UseInv, Out, NewStages, UseStages
  <2> QED BY <1>4, <2>1, <2>2, ReapedQuiet, SamePrivate, SameTasks, QuietMine DEF UseInv
<1>5. CASE c \in Stubs /\ Disconnect(c)
  <2>1. call[c].pc = "attached" /\ Closes(c) /\ UNCHANGED <<reserved, tasks>>
    BY <1>5 DEF Disconnect
  <2> QED BY <1>5, <2>1, DisconnectQuiet, ClosesSettles, SameTasks, QuietMine DEF UseInv
<1> QED BY <1>1, <1>2, <1>3, <1>4, <1>5

LEMMA OwnedMine ==
  ASSUME UseInv, NEW c \in Stubs, AddPrivate(c) \/ Swapped(c) \/ Primed(c)
  PROVE  Mine
<1>1. c \in Calls /\ UNCHANGED tasks
  BY DEF Calls, AddPrivate, Swapped, Primed
<1>2. Quiet(c)
  BY AddPrivateQuiet, SwappedQuiet, PrimedQuiet DEF UseInv
<1>3. Settles(c) /\ PrivateFits(c)
  <2>1. CASE AddPrivate(c) \/ Primed(c)
    BY <2>1, AddPrivateSettles, PrimedSettles DEF UseInv
  <2>2. CASE Swapped(c)
    BY <2>2, SwappedSettles, SamePrivate DEF UseInv, Swapped
  <2> QED BY <2>1, <2>2
<1> QED BY <1>1, <1>2, <1>3, SameTasks, QuietMine

\* A backend the pool has not taken is used by nobody.
LEMMA NewHasNoUsers ==
  ASSUME UseInv, NEW c \in Calls, call[c].pc \in NewStages
  PROVE  call[c].hand \in Procs /\ Users(call[c].hand) = {}
<1> DEFINE p == call[c].hand
<1>1. p \in Procs /\ OfCall(p, c)
  BY TypesOf DEF UseInv, CallOK, HandStages, NewStages, OfCall, Has
<1>2. OneOwner(p)
  BY <1>1 DEF UseInv, OwnInv
<1>3. ASSUME NEW d \in Stubs, call[d].hand = p, call[d].pc \in UseStages PROVE FALSE
  <2>1. d \in Calls /\ d # c
    BY <1>3 DEF Calls, UseStages, NewStages
  <2>2. call[d].key \in Keys /\ call[d].private \in BOOLEAN
    BY <1>3, <2>1, TypesOf, StatesOf DEF UseInv, CallOK, UseStages
  <2>3. CASE call[d].private
    <3>1. OfCall(p, d)
      BY <1>3, <2>3 DEF OfCall, Has
    <3> QED BY <1>1, <1>2, <2>1, <3>1 DEF OneOwner
  <2>4. CASE ~call[d].private
    <3>1. OfKey(p, call[d].key)
      BY <1>3, <2>1, <2>4 DEF OfKey, Shares
    <3> QED BY <1>1, <1>2, <2>2, <3>1 DEF OneOwner
  <2> QED BY <2>2, <2>3, <2>4
<1> QED BY <1>1, <1>3 DEF Users, UseStages

LEMMA CancelMine == ASSUME UseInv, NEW c \in Calls, Cancel(c) PROVE Mine
<1>1. UNCHANGED <<sweep, rotate, beat, stopping>>
  BY DEF Cancel
<1>2. CASE UNCHANGED shielded
  <2>1. Condemned' = Condemned
    BY <1>1, <1>2 DEF Condemned
  <2>2. Spares
    BY <2>1 DEF Spares
  <2> QED BY <2>2, CancelQuiet, CancelSettles, QuietMine DEF UseInv
<1>3. CASE call[c].pc \in {"discard", "refuse"} /\ shielded' = shielded \cup {call[c].hand}
  <2>1. Condemned' \subseteq Condemned \cup {call[c].hand}
    BY <1>1, <1>3 DEF Condemned
  <2>2. Spares
    BY <1>3, <2>1, NewHasNoUsers DEF Spares, NewStages
  <2> QED BY <2>2, CancelQuiet, CancelSettles, QuietMine DEF UseInv
<1> QED BY <1>2, <1>3 DEF Cancel

(***************************************************************************)
(* Every step.                                                             *)
(***************************************************************************)
LEMMA AsideMine == ASSUME UseInv, Aside PROVE Mine
BY RecedesKeeps DEF UseInv, Aside, Mine

LEMMA UseSteps == ASSUME UseInv, Next PROVE Mine
<1>1. ASSUME NEW c \in Stubs, Connect(c) \/ Respawn(c) \/ Disconnect(c) PROVE Mine
  BY <1>1, AcquiringMine, EndingMine DEF Calls
<1>2. ASSUME NEW c \in Warmers, Warm(c) PROVE Mine
  BY <1>2, AcquiringMine DEF Calls
<1>3. ASSUME NEW c \in Calls, LockGranted(c) \/ Cancel(c) PROVE Mine
  BY <1>3, AcquiringMine, CancelMine
<1>4. CASE IdleSweep \/ Rotate \/ BeatStarts \/ BeatPinged \/ Stop \/ ShutsDown
  BY <1>4, IdleSweepAside, RotateAside, BeatStartsAside, BeatPingedAside, ShutsDownAside, AsideMine
<1>5. CASE Beats
  BY <1>5, BeatEvictsAside, BeatReapsAside, BeatProbesAside, AsideMine DEF Beats
<1>6. ASSUME NEW e \in draining, DeadlinePasses(e) PROVE Mine
  BY <1>6, DeadlineAside, AsideMine
<1>7. ASSUME NEW p \in Procs, Dies(p) \/ Breaks(p) \/ Stops(p) PROVE Mine
  BY <1>7, TasksAside, RotatedAside, BeatStopsAside, AsideMine DEF Stops
<1>8. ASSUME NEW c \in Calls, Serves(c) PROVE Mine
  BY <1>8, AcquiringMine, SpawnedMine, AddMine, EndingMine, OwnedMine DEF Serves
<1>9. CASE Exited
  <2>1. UNCHANGED vars
    BY <1>9 DEF Exited
  <2>2. Aside
    BY <2>1, SameIndex DEF vars, index, tasks, UseInv, Aside, Spares, BeatInv, Condemned
  <2> QED BY <2>2, AsideMine
<1> QED BY <1>1, <1>2, <1>3, <1>4, <1>5, <1>6, <1>7, <1>8, <1>9 DEF Next

LEMMA UseStep == ASSUME UseInv, [Next]_vars PROVE UseInv'
<1>1. PoolInv' /\ RefInv'
  BY PoolStep, RefStep DEF UseInv
<1>2. CASE Next
  BY <1>1, <1>2, UseSteps DEF UseInv, Mine
<1>3. CASE UNCHANGED vars
  <2>1. Recedes /\ BeatInv'
    BY <1>3, SameIndex DEF vars, index, tasks, UseInv, BeatInv
  <2> QED BY <1>1, <2>1, RecedesKeeps DEF UseInv
<1> QED BY <1>2, <1>3

LEMMA UseInit == Init => UseInv
<1> SUFFICES ASSUME Init PROVE UseInv
  OBVIOUS
<1>1. PoolInv /\ RefInv
  BY PoolInit
<1>2. \A c \in Calls : call[c] = Out
  BY DEF Init
<1>3. Out.pc = "out" /\ Resting.pc = "rest"
  BY DEF Out, Resting
<1>4. OwnInv
  <2>1. ASSUME NEW p \in Procs PROVE OneOwner(p)
    <3>1. \A k \in Keys : ~OfKey(p, k)
      BY <1>2, <1>3, Constants DEF Init, OfKey, OfIndex, Shares, UseStages
    <3>2. \A c \in Calls : ~OfCall(p, c)
      BY <1>2, <1>3, Constants DEF Init, OfCall, Has, NewStages, UseStages
    <3> QED BY <3>1, <3>2 DEF OneOwner
  <2>2. \A c \in Stubs : call[c].pc \notin NewStages
    BY <1>2, <1>3 DEF Calls, NewStages
  <2> QED BY <2>1, <2>2 DEF OwnInv
<1>5. ResInv
  <2>1. \A k \in Keys : Coming(k) = {} /\ reserved[k] = 0
    BY <1>2, <1>3 DEF Init, Coming, Comes, Calls
  <2> QED BY <2>1, FS_EmptySet DEF ResInv
<1>6. BeatInv
  BY <1>3 DEF Init, BeatInv
<1> QED BY <1>1, <1>4, <1>5, <1>6 DEF UseInv

\* NoneYanked: while the daemon serves, nobody -- the idle sweeper, the
\* credential watcher, the heartbeat, an eviction from the full pool, a
\* cancelled acquisition -- begins to shut a healthy backend down under a
\* connection that is attached to it, or under a respawn that waits for its
\* handshake and has only a reservation to show for it; except after the
\* deadline of a cutover.
THEOREM ConnectionsKept == Spec => NoneYanked
<1>1. UseInv /\ [Next]_vars =>
        [ stage = "serving" =>
            \A p \in Condemned' \ Condemned :
              Alive(p) => Users(p) = {} \/ \E e \in draining : e.proc = p /\ e.late ]_vars
  <2>1. UseInv /\ Next => Spares
    BY UseSteps DEF Mine
  <2> QED BY <2>1 DEF Spares, Late
<1> QED BY <1>1, UseInit, UseStep, PTL DEF Spec, NoneYanked
=============================================================================
