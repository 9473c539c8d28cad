---------------------------- MODULE BackendPool ----------------------------
(***************************************************************************)
(* The pool of shared MCP backends (mcp_gateway/pool.py) with everybody    *)
(* who works on it: the connections of stubs, which acquire a backend and  *)
(* attach to it, their respawns, the prewarming passes, the idle sweeper,  *)
(* the credential watcher, the heartbeat sweeper and the shutdown of the   *)
(* daemon (gatewayd.py, prewarm.py), and the life of a backend's process   *)
(* (backend.py).  Like the code, an action runs from one await to the      *)
(* next: _lock is never held over an await, so its blocks are part of the  *)
(* actions.  A cancellation takes effect at the await it interrupts.       *)
(***************************************************************************)
EXTENDS Naturals, SequencesExt, FiniteSets

CONSTANTS
  Keys,            \* PoolKey digests
  Stubs,           \* connection handlers
  Warmers,         \* prewarming passes, of one key each
  Procs,           \* bounds the backend processes somebody refers to
  None,
  MaxBackends,     \* _max_backends
  MaxRetries,      \* _MAX_SPAWN_DRAIN_RETRIES
  MaxDrains,       \* bound: credential cutovers
  FastDeathLimit,  \* FAST_DEATH_LIMIT, see SpawnBreaker
  Events           \* what may happen in an instance

EventKinds ==
  {"die",        \* a backend's process exits
   "wedge",      \* a backend is found broken while its process runs
   "fail",       \* a spawn or the handshake of a respawn fails
   "private",    \* connections that do not share their backend
   "respawn",    \* a connection replaces its dead backend
   "idle",       \* the idle sweeper runs
   "beat",       \* the heartbeat sweeper runs
   "cancel",     \* the handler of a stub whose transport is dead is cancelled
   "lateCancel", \* the same while the handler already tears down
   "stop"}       \* the daemon is shut down

Calls == Stubs \cup Warmers
Locks == 1..(Cardinality(Calls) + Cardinality(Keys))

ASSUME PoolAssumption ==
  /\ IsFiniteSet(Keys) /\ IsFiniteSet(Stubs) /\ IsFiniteSet(Warmers)
  /\ Stubs \cap Warmers = {}
  /\ None \notin Keys \cup Procs \cup Nat /\ None \notin Keys \X Procs
  /\ MaxBackends \in Nat \ {0} /\ MaxRetries \in Nat /\ MaxDrains \in Nat
  /\ Events \subseteq EventKinds

VARIABLES
  pooled,     \* _backends
  lockOf,     \* _spawn_locks
  lock,       \* the asyncio.Lock objects; the first waiter of a free one is woken
  reserved,   \* _reserved_digests
  draining,   \* _draining: [key, proc, late], late once the deadline has passed
  epoch,      \* _drain_epoch
  private,    \* _exclusive
  stopping,   \* backends that tasks of _shutdown_tasks or shutdown_all shut down
  shielded,   \* backends a shielded shutdown goes on for, its caller cancelled
  proc,       \* the backends: their process, refcount, epoch of birth, pinned
  call,       \* where each connection and prewarming pass stands
  sweep,      \* what the idle sweeper still has to shut down
  rotate,     \* the credential watcher: a cutover under way, and the same
  beat,       \* the heartbeat sweeper
  breaker,    \* the circuit breaker of the keys
  stage,      \* how far the shutdown of the daemon is
  abandoned   \* not in the code: backends whose shutdown was cut short

index == <<pooled, lockOf, lock, reserved, draining, epoch, private>>
tasks == <<sweep, rotate, beat, stage, abandoned, stopping, shielded>>
vars == <<index, proc, call, tasks, breaker>>

Breaker == INSTANCE SpawnBreaker

Acquiring == {"lockWait",  \* waits for the spawn lock of its key
              "stale",     \* shuts the dead backend down that it replaces
              "spawn",     \* awaits the start of the process
              "record",    \* awaits the record of the new process's owner
              "discard",   \* shuts a backend down that a cutover made stale
              "refuse",    \* shuts a backend down that the pool did not take
              "swap"}      \* shuts the private backend down that it replaces

InPool == {"lockWait", "stale", "spawn", "record", "discard", "refuse"}

Stages == {"serving", "cancelConns", "cancelSweeps", "cancelWarmers", "closing", "closed"}

Out == [pc |-> "out", key |-> None, hand |-> None, lck |-> None, epoch |-> 0,
        tries |-> 0, private |-> FALSE, again |-> FALSE]

NoProc == [st |-> "dead", refs |-> 0, born |-> 0, pinned |-> FALSE]

Resting == [pc |-> "rest", todo |-> {}, cur |-> None, shut |-> {}]

Init ==
  /\ pooled = [k \in Keys |-> None]
  /\ lockOf = [k \in Keys |-> None]
  /\ lock = [l \in Locks |-> [held |-> FALSE, waiters |-> <<>>]]
  /\ reserved = [k \in Keys |-> 0]
  /\ draining = {} /\ epoch = 0
  /\ private = [c \in Stubs |-> None]
  /\ stopping = {} /\ shielded = {}
  /\ proc = [p \in Procs |-> NoProc]
  /\ call = [c \in Calls |-> Out]
  /\ sweep = {} /\ rotate = [busy |-> FALSE, todo |-> {}] /\ beat = Resting
  /\ breaker = [k \in Keys |-> Breaker!Clear]
  /\ stage = "serving" /\ abandoned = {}

-----------------------------------------------------------------------------
(***************************************************************************)
(* Processes.  "bad" is a process that runs while _dead_reason is set.     *)
(***************************************************************************)
Alive(p) == proc[p].st = "up"
Running == { p \in Procs : proc[p].st \in {"up", "bad"} }

Stopped(p) == [proc EXCEPT ![p] = [NoProc EXCEPT !.refs = proc[p].refs]]

\* The backends the pool and its tasks, and the connections, refer to.
Handled == { call[c].hand : c \in Calls } \ {None}
Indexed == ({ pooled[k] : k \in Keys } \cup { private[c] : c \in Stubs }
              \cup { e.proc : e \in draining }) \ {None}
Condemned == stopping \cup shielded \cup sweep \cup rotate.todo \cup beat.shut

Referenced ==
  Handled \cup Indexed \cup Condemned \cup { w[2] : w \in beat.todo }
    \cup (IF beat.cur = None THEN {} ELSE { beat.cur[2] })

Fresh == Procs \ (Referenced \cup Running)

-----------------------------------------------------------------------------
(***************************************************************************)
(* Acquiring: get_or_create and acquire_exclusive.  The operators below    *)
(* are the parts between two awaits; each says what becomes of the call,   *)
(* the locks, the index, the processes and the breaker.                    *)
(***************************************************************************)
Goes(c, s) == call' = [call EXCEPT ![c] = s]

Freed(locks, l) == [locks EXCEPT ![l].held = FALSE]

\* The finally of get_or_create, when l has been left: a lock nobody waits
\* for is dropped unless there is a backend to keep it for.
LockReaped(map, locks, k, l, occupied) ==
  IF ~occupied /\ map[k] = l /\ ~locks[l].held /\ locks[l].waiters = <<>>
  THEN [map EXCEPT ![k] = None] ELSE map

\* A connection ends by shutting its private backend down, if it has one.
Ends(c) ==
  IF c \in Stubs /\ private[c] # None
  THEN /\ Goes(c, [Out EXCEPT !.pc = "reap", !.hand = private[c]])
       /\ private' = [private EXCEPT ![c] = None]
  ELSE Goes(c, Out) /\ UNCHANGED private

\* The acquisition of c fails: it leaves the spawn lock.  A connection is
\* rejected and ends, a prewarming pass skips the key.
Fails(c) ==
  LET k == call[c].key  l == call[c].lck
  IN /\ IF l = None THEN UNCHANGED <<lock, lockOf>>
        ELSE /\ lock' = Freed(lock, l)
             /\ lockOf' = LockReaped(lockOf, lock', k, l, pooled[k] # None)
     /\ Ends(c)

\* What c does with a backend p, without an await: a prewarming pass pins it
\* and gives its reservation back, a connection attaches and does the same; a
\* respawn first awaits the handshake.
Obtains(c, s, p, procs) ==
  \/ /\ c \in Warmers
     /\ proc' = [procs EXCEPT ![p].pinned = TRUE]
     /\ Goes(c, Out)
     /\ UNCHANGED reserved
  \/ /\ c \in Stubs /\ ~s.again
     /\ proc' = [procs EXCEPT ![p].refs = @ + 1]
     /\ Goes(c, [Out EXCEPT !.pc = "attached", !.key = s.key, !.hand = p,
                            !.private = s.private])
     /\ UNCHANGED reserved
  \/ /\ c \in Stubs /\ s.again
     /\ proc' = procs
     /\ Goes(c, [Out EXCEPT !.pc = "prime", !.key = s.key, !.hand = p,
                            !.private = s.private])
     /\ reserved' = IF s.private THEN reserved ELSE [reserved EXCEPT ![s.key] = @ + 1]

Spawning(s) == [s EXCEPT !.pc = "spawn", !.hand = None, !.epoch = epoch]

\* A mutant: a call the breaker refuses keeps the spawn lock.
AsksHolding(c, s, locks, map) ==
  /\ \/ /\ breaker[s.key].open
        /\ UNCHANGED breaker
        /\ Goes(c, Out)
     \/ /\ breaker[s.key].open /\ Breaker!Forget(s.key)
        /\ Goes(c, Spawning(s))
     \/ /\ ~breaker[s.key].open /\ UNCHANGED breaker
        /\ Goes(c, Spawning(s))
  /\ lock' = locks /\ lockOf' = map

\* c, in state s, holds the spawn lock and finds no backend: it asks the breaker.
Asks(c, s, locks, map) ==
  \/ /\ \/ breaker[s.key].open /\ Breaker!Forget(s.key)
        \/ ~breaker[s.key].open /\ UNCHANGED breaker
     /\ Goes(c, Spawning(s))
     /\ lock' = locks /\ lockOf' = map
  \/ /\ breaker[s.key].open
     /\ Goes(c, Out)
     /\ lock' = Freed(locks, s.lck)
     /\ lockOf' = LockReaped(map, lock', s.key, s.lck, FALSE)
     /\ UNCHANGED breaker

\* A death counts unless the backend had lived long enough.
NotesDeath(k) == Breaker!RecordDeath(k) \/ UNCHANGED breaker

\* c, in state s, has just been given the spawn lock.
EntersLock(c, s, locks, map, procs) ==
  LET k == s.key  p == pooled[k]
  IN \/ /\ p # None /\ Alive(p)
        /\ Obtains(c, s, p, procs)
        /\ lock' = Freed(locks, s.lck) /\ lockOf' = map
        /\ UNCHANGED <<pooled, breaker>>
     \/ /\ p # None /\ ~Alive(p)
        /\ NotesDeath(k)
        /\ pooled' = [pooled EXCEPT ![k] = None]
        /\ Goes(c, [s EXCEPT !.pc = "stale", !.hand = p])
        /\ lock' = locks /\ lockOf' = map
        /\ proc' = procs
        /\ UNCHANGED reserved
     \/ /\ p = None
        /\ Asks(c, s, locks, map)
        /\ proc' = procs
        /\ UNCHANGED <<pooled, reserved>>

\* Locks are numbered; a new one gets the least number in no use.
NewLocks ==
  LET unused == Locks \ ({ lockOf[k] : k \in Keys } \cup { call[c].lck : c \in Calls })
  IN { l \in unused : \A m \in unused : l <= m }

GetOrCreate(c, s, procs) ==
  LET k == s.key  p == pooled[k]  l == lockOf[k]
  IN \/ /\ p # None /\ Alive(p)
        /\ Obtains(c, s, p, procs)
        /\ UNCHANGED <<pooled, lock, lockOf, breaker>>
     \/ /\ ~(p # None /\ Alive(p))
        /\ \/ /\ l = None
              /\ \E n \in NewLocks :
                   EntersLock(c, [s EXCEPT !.lck = n], [lock EXCEPT ![n].held = TRUE],
                              [lockOf EXCEPT ![k] = n], procs)
           \/ /\ l # None /\ ~lock[l].held /\ lock[l].waiters = <<>>
              /\ EntersLock(c, [s EXCEPT !.lck = l],
                            [lock EXCEPT ![l].held = TRUE], lockOf, procs)
           \/ /\ l # None /\ (lock[l].held \/ lock[l].waiters # <<>>)
              /\ lock' = [lock EXCEPT ![l].waiters = Append(@, c)]
              /\ Goes(c, [s EXCEPT !.pc = "lockWait", !.lck = l])
              /\ proc' = procs
              /\ UNCHANGED <<pooled, lockOf, reserved, breaker>>

\* _acquire_backend: a private backend is spawned at once.
Acquires(c, s, procs) ==
  \/ /\ ~s.private
     /\ GetOrCreate(c, s, procs)
  \/ /\ s.private
     /\ Goes(c, Spawning(s))
     /\ proc' = procs
     /\ UNCHANGED <<pooled, lock, lockOf, reserved, breaker>>

Connect(c) ==
  /\ stage = "serving" /\ call[c].pc = "out" /\ private[c] = None
  /\ \E k \in Keys, own \in { b \in BOOLEAN : b => "private" \in Events } :
       Acquires(c, [Out EXCEPT !.key = k, !.private = own], proc)
  /\ UNCHANGED <<draining, epoch, private, tasks>>

Warm(c) ==
  /\ stage \in {"serving", "cancelConns", "cancelSweeps"} /\ call[c].pc = "out"
  /\ \E k \in Keys : GetOrCreate(c, [Out EXCEPT !.key = k], proc)
  /\ UNCHANGED <<draining, epoch, private, tasks>>

\* A mutant: a stub that leaves stays counted.
StaysAttached(p) == proc

Detached(p) == [proc EXCEPT ![p].refs = @ - 1]

\* A respawn keeps a private backend private, and may make a shared one so.
Respawn(c) ==
  /\ "respawn" \in Events
  /\ call[c].pc = "attached" /\ ~Alive(call[c].hand)
  /\ \E own \in { b \in BOOLEAN : /\ call[c].private => b
                                  /\ b => "private" \in Events } :
       Acquires(c, [Out EXCEPT !.key = call[c].key, !.private = own, !.again = TRUE],
                Detached(call[c].hand))
  /\ UNCHANGED <<draining, epoch, private, tasks>>

LockGranted(c) ==
  LET l == call[c].lck
  IN /\ call[c].pc = "lockWait"
     /\ ~lock[l].held /\ Head(lock[l].waiters) = c
     /\ EntersLock(c, call[c], [lock EXCEPT ![l] = [held |-> TRUE, waiters |-> Tail(@.waiters)]],
                   lockOf, proc)
     /\ UNCHANGED <<draining, epoch, private, tasks>>

StaleStopped(c) ==
  /\ call[c].pc = "stale"
  /\ proc' = Stopped(call[c].hand)
  /\ Asks(c, call[c], lock, lockOf)
  /\ UNCHANGED <<pooled, reserved, draining, epoch, private, tasks>>

\* spawn_backend: the process exists before its owner is recorded.
Spawned(c) ==
  /\ call[c].pc = "spawn"
  /\ \E p \in Fresh :
       /\ proc' = [proc EXCEPT ![p] = [NoProc EXCEPT !.st = "up", !.born = call[c].epoch]]
       /\ call' = [call EXCEPT ![c].pc = "record", ![c].hand = p]
       /\ abandoned' = abandoned \ {p}
  /\ UNCHANGED <<index, breaker, sweep, rotate, beat, stage, stopping, shielded>>

SpawnFails(c) ==
  /\ "fail" \in Events
  /\ call[c].pc = "spawn"
  /\ Fails(c)
  /\ UNCHANGED <<pooled, reserved, draining, epoch, proc, breaker, tasks>>

-----------------------------------------------------------------------------
(***************************************************************************)
(* What becomes of a new backend: add, and the rest of get_or_create.      *)
(***************************************************************************)
Size == Cardinality({ k \in Keys : pooled[k] # None })

\* A mutant: reservations do not count.
IdleUnreserved(k) == pooled[k] # None /\ proc[pooled[k]].refs = 0

Idle(k) == pooled[k] # None /\ proc[pooled[k]].refs = 0 /\ reserved[k] = 0

\* A pool that is full makes room by one idle backend that is not pinned, shut
\* down by a task of its own.  Which is the least recently used is left open.
Evictable == { k \in Keys : Idle(k) /\ ~proc[pooled[k]].pinned }

\* Mutants: the pool grows above its bound; the victim is not shut down.
InsertsUnbounded(c, k, p) ==
  /\ pooled' = [pooled EXCEPT ![k] = p]
  /\ UNCHANGED <<lockOf, stopping>>

InsertsLeaking(c, k, p) ==
  \/ /\ Size < MaxBackends
     /\ pooled' = [pooled EXCEPT ![k] = p]
     /\ UNCHANGED <<lockOf, stopping>>
  \/ /\ Size >= MaxBackends
     /\ \E v \in Evictable :
          /\ pooled' = [pooled EXCEPT ![v] = None, ![k] = p]
          /\ lockOf' = [lockOf EXCEPT ![v] = None]
          /\ UNCHANGED stopping

Inserts(c, k, p) ==
  \/ /\ Size < MaxBackends
     /\ pooled' = [pooled EXCEPT ![k] = p]
     /\ UNCHANGED <<lockOf, stopping>>
  \/ /\ Size >= MaxBackends
     /\ \E v \in Evictable :
          /\ pooled' = [pooled EXCEPT ![v] = None, ![k] = p]
          /\ lockOf' = [lockOf EXCEPT ![v] = None]
          /\ stopping' = stopping \cup {pooled[v]}

\* A mutant: the drain epoch is not compared.
StaleNever(s) == FALSE

\* A cutover has overtaken the spawn of s.
Stale(s) == s.epoch # epoch

Add(c) ==
  LET s == call[c]  k == s.key  p == s.hand
      refused == pooled[k] # None \/ (Size >= MaxBackends /\ Evictable = {})
  IN /\ s.pc = "record" /\ ~s.private
     /\ \/ /\ Stale(s) \/ refused
           /\ call' = [call EXCEPT ![c].pc = IF Stale(s) THEN "discard" ELSE "refuse"]
           /\ UNCHANGED <<pooled, lock, lockOf, reserved, proc, stopping>>
        \/ /\ ~Stale(s) /\ ~refused
           /\ Inserts(c, k, p)
           /\ Obtains(c, s, p, proc)
           /\ lock' = Freed(lock, s.lck)
     /\ UNCHANGED <<draining, epoch, private, breaker, sweep, rotate, beat, stage,
                    abandoned, shielded>>

\* acquire_exclusive registers the backend and shuts a former one down.
AddPrivate(c) ==
  LET s == call[c]  old == private[c]
  IN /\ s.pc = "record" /\ s.private
     /\ private' = [private EXCEPT ![c] = s.hand]
     /\ \/ /\ old = None
           /\ Obtains(c, s, s.hand, proc)
        \/ /\ old # None
           /\ call' = [call EXCEPT ![c].pc = "swap", ![c].hand = old]
           /\ UNCHANGED <<proc, reserved>>
     /\ UNCHANGED <<pooled, lock, lockOf, draining, epoch, breaker, tasks>>

Swapped(c) ==
  /\ call[c].pc = "swap"
  /\ Obtains(c, call[c], private[c], Stopped(call[c].hand))
  /\ UNCHANGED <<pooled, lock, lockOf, draining, epoch, private, breaker, tasks>>

\* A backend a cutover has overtaken is discarded and another one spawned.
Discarded(c) ==
  /\ call[c].pc = "discard"
  /\ proc' = Stopped(call[c].hand)
  /\ \/ /\ call[c].tries < MaxRetries
        /\ Goes(c, Spawning([call[c] EXCEPT !.tries = @ + 1]))
        /\ UNCHANGED <<lock, lockOf, private>>
     \/ /\ call[c].tries >= MaxRetries
        /\ Fails(c)
  /\ UNCHANGED <<pooled, reserved, draining, epoch, breaker, tasks>>

Refused(c) ==
  /\ call[c].pc = "refuse"
  /\ proc' = Stopped(call[c].hand)
  /\ Fails(c)
  /\ UNCHANGED <<pooled, reserved, draining, epoch, breaker, tasks>>

\* A respawn has primed its backend and attaches, or gives up; either way it
\* gives its reservation back.
Unreserved(s) == IF s.private THEN reserved
                 ELSE [reserved EXCEPT ![s.key] = IF @ > 0 THEN @ - 1 ELSE 0]

Primed(c) ==
  /\ call[c].pc = "prime"
  /\ reserved' = Unreserved(call[c])
  /\ \/ /\ Alive(call[c].hand)
        /\ proc' = [proc EXCEPT ![call[c].hand].refs = @ + 1]
        /\ call' = [call EXCEPT ![c].pc = "attached"]
        /\ UNCHANGED private
     \/ /\ Alive(call[c].hand) => "fail" \in Events
        /\ Ends(c)
        /\ UNCHANGED proc
  /\ UNCHANGED <<pooled, lock, lockOf, draining, epoch, breaker, tasks>>

-----------------------------------------------------------------------------
(***************************************************************************)
(* The end of a connection.  Requests in flight are cancelled at the       *)
(* backend before the stub detaches; if it was the last one, the backend   *)
(* is killed (recycle_if_idle).                                            *)
(***************************************************************************)
Detaches(c, inFlight) ==
  LET p == call[c].hand
  IN /\ proc' = IF inFlight /\ Alive(p) /\ proc[p].refs = 1
                THEN [Stopped(p) EXCEPT ![p].refs = 0] ELSE Detached(p)
     /\ Ends(c)

Closes(c) ==
  \/ /\ Detaches(c, FALSE)
  \/ /\ call' = [call EXCEPT ![c].pc = "closing"]
     /\ UNCHANGED <<proc, private>>

Disconnect(c) ==
  /\ call[c].pc = "attached"
  /\ Closes(c)
  /\ UNCHANGED <<pooled, lock, lockOf, reserved, draining, epoch, breaker, tasks>>

Closed(c) ==
  /\ call[c].pc = "closing"
  /\ Detaches(c, TRUE)
  /\ UNCHANGED <<pooled, lock, lockOf, reserved, draining, epoch, breaker, tasks>>

Reaped(c) ==
  /\ call[c].pc = "reap"
  /\ proc' = Stopped(call[c].hand)
  /\ Goes(c, Out)
  /\ UNCHANGED <<index, breaker, tasks>>

\* Who is cancelled where: a handler once, unless the cancellation comes late;
\* a prewarming pass when the daemon stops.
Cancellable(c) ==
  \/ c \in Warmers /\ stage = "cancelWarmers"
  \/ c \in Stubs /\ stage = "cancelConns" /\ call[c].pc # "closing"
  \/ c \in Stubs /\ "cancel" \in Events /\ call[c].pc \notin {"closing", "reap"}
  \/ c \in Stubs /\ "lateCancel" \in Events /\ call[c].pc \in {"closing", "reap"}

Dropped(P) == abandoned' = abandoned \cup (P \cap Running)

\* A queue that c, which waits in it once, has left.
Without(w, c) ==
  IF Contains(w, c) THEN RemoveAt(w, CHOOSE i \in DOMAIN w : w[i] = c) ELSE w

\* CancelledError at the await where c stands.
Cancel(c) ==
  LET s == call[c]
  IN /\ Cancellable(c) /\ s.pc # "out"
     /\ \/ /\ s.pc = "lockWait"
           /\ lock' = [lock EXCEPT ![s.lck].waiters = Without(@, c)]
           /\ lockOf' = LockReaped(lockOf, lock', s.key, s.lck, pooled[s.key] # None)
           /\ Ends(c)
           /\ UNCHANGED <<proc, reserved, abandoned, shielded>>
        \/ /\ s.pc \in {"stale", "record", "swap"}
           /\ Fails(c)
           /\ Dropped({s.hand})
           /\ UNCHANGED <<proc, reserved, shielded>>
        \/ /\ s.pc = "spawn"
           /\ Fails(c)
           /\ UNCHANGED <<proc, reserved, abandoned, shielded>>
        \/ /\ s.pc \in {"discard", "refuse"}
           /\ Fails(c)
           /\ shielded' = shielded \cup {s.hand}
           /\ UNCHANGED <<proc, reserved, abandoned>>
        \/ /\ s.pc = "prime"
           /\ reserved' = Unreserved(s)
           /\ Ends(c)
           /\ UNCHANGED <<lock, lockOf, proc, abandoned, shielded>>
        \/ /\ s.pc = "attached"
           /\ Closes(c)
           /\ UNCHANGED <<lock, lockOf, reserved, abandoned, shielded>>
        \/ /\ s.pc = "closing"
           /\ Goes(c, Out)
           /\ UNCHANGED <<lock, lockOf, proc, reserved, private, abandoned, shielded>>
        \/ /\ s.pc = "reap"
           /\ Goes(c, Out)
           /\ Dropped({s.hand})
           /\ UNCHANGED <<lock, lockOf, proc, reserved, private, shielded>>
     /\ UNCHANGED <<pooled, draining, epoch, breaker, sweep, rotate, beat, stage, stopping>>

-----------------------------------------------------------------------------
(***************************************************************************)
(* The sweepers.                                                           *)
(***************************************************************************)
Unpooled(K) == [k \in Keys |-> IF k \in K THEN None ELSE pooled[k]]
Unlocked(K) == [k \in Keys |-> IF k \in K THEN None ELSE lockOf[k]]
Backends(K) == { pooled[k] : k \in K }

\* evict_idle of the idle sweeper; how long a backend has been idle is left open.
IdleSweep ==
  /\ "idle" \in Events /\ sweep = {} /\ stage \in {"serving", "cancelConns"}
  /\ \E K \in (SUBSET Evictable) \ {{}} :
       /\ sweep' = Backends(K)
       /\ pooled' = Unpooled(K) /\ lockOf' = Unlocked(K)
  /\ UNCHANGED <<lock, reserved, draining, epoch, private, proc, call, breaker, rotate,
                 beat, stage, abandoned, stopping, shielded>>

Swept(p) ==
  /\ p \in sweep
  /\ sweep' = sweep \ {p} /\ proc' = Stopped(p)
  /\ UNCHANGED <<index, call, breaker, rotate, beat, stage, abandoned, stopping, shielded>>

\* drain_all_to_bluegreen
Drains ==
  LET K == { k \in Keys : pooled[k] # None }
      free == { k \in K : lockOf[k] # None /\ ~lock[lockOf[k]].held
                           /\ lock[lockOf[k]].waiters = <<>> }
  IN /\ epoch' = epoch + 1
     /\ draining' = draining \cup { [key |-> k, proc |-> pooled[k], late |-> FALSE] : k \in K }
     /\ pooled' = Unpooled(K) /\ lockOf' = Unlocked(free)

\* The credential watcher shuts the idle backends down, then drains the others.
Rotate ==
  LET K == { k \in Keys : Idle(k) }
  IN /\ ~rotate.busy /\ epoch < MaxDrains
     /\ stage \in {"serving", "cancelConns", "cancelSweeps"}
     /\ \/ /\ K # {}
           /\ rotate' = [busy |-> TRUE, todo |-> Backends(K)]
           /\ pooled' = Unpooled(K) /\ lockOf' = Unlocked(K)
           /\ UNCHANGED <<epoch, draining>>
        \/ /\ K = {}
           /\ Drains
           /\ UNCHANGED rotate
     /\ UNCHANGED <<lock, reserved, private, proc, call, breaker, sweep, beat, stage,
                    abandoned, stopping, shielded>>

Rotated(p) ==
  /\ p \in rotate.todo
  /\ proc' = Stopped(p)
  /\ \/ /\ rotate.todo # {p}
        /\ rotate' = [rotate EXCEPT !.todo = @ \ {p}]
        /\ UNCHANGED <<pooled, lockOf, epoch, draining>>
     \/ /\ rotate.todo = {p}
        /\ rotate' = [busy |-> FALSE, todo |-> {}]
        /\ Drains
  /\ UNCHANGED <<lock, reserved, private, call, breaker, sweep, beat, stage, abandoned,
                 stopping, shielded>>

DeadlinePasses(e) ==
  /\ e \in draining /\ ~e.late
  /\ draining' = (draining \ {e}) \cup {[e EXCEPT !.late = TRUE]}
  /\ UNCHANGED <<pooled, lockOf, lock, reserved, epoch, private, proc, call, breaker, tasks>>

(***************************************************************************)
(* The heartbeat sweeper probes the backends that were pooled when it      *)
(* began, evicts the dead ones and then reaps the draining ones.           *)
(***************************************************************************)
rest == <<lock, reserved, epoch, private, call, sweep, rotate, stage, abandoned, stopping,
          shielded>>

BeatStarts ==
  /\ "beat" \in Events /\ beat.pc = "rest" /\ stage \in {"serving", "cancelConns"}
  /\ beat' = [Resting EXCEPT !.pc = "probe",
                !.todo = { <<k, pooled[k]>> : k \in { j \in Keys : pooled[j] # None } }]
  /\ UNCHANGED <<rest, pooled, lockOf, draining, proc, breaker>>

\* _heartbeat_once: exited, idle, wedged, or pinged.
BeatProbes(w) ==
  LET p == w[2]  left == beat.todo \ {w}
  IN /\ beat.pc = "probe" /\ w \in beat.todo
     /\ \/ /\ proc[p].st = "dead"
           /\ beat' = [beat EXCEPT !.pc = "gone", !.todo = left, !.cur = w]
           /\ UNCHANGED proc
        \/ /\ proc[p].st # "dead" /\ proc[p].refs = 0
           /\ beat' = [beat EXCEPT !.todo = left]
           /\ UNCHANGED proc
        \/ /\ proc[p].st # "dead" /\ proc[p].refs > 0 /\ "wedge" \in Events
           /\ proc' = [proc EXCEPT ![p].st = "bad"]
           /\ beat' = [beat EXCEPT !.pc = "gone", !.todo = left, !.cur = w]
        \/ /\ proc[p].st # "dead" /\ proc[p].refs > 0
           /\ beat' = [beat EXCEPT !.pc = "ping", !.todo = left, !.cur = w]
           /\ UNCHANGED proc
     /\ UNCHANGED <<rest, pooled, lockOf, draining, breaker>>

BeatPinged ==
  LET k == beat.cur[1]  p == beat.cur[2]
  IN /\ beat.pc = "ping"
     /\ \/ /\ Breaker!Forget(k)
           /\ beat' = [beat EXCEPT !.pc = "probe", !.cur = None]
           /\ UNCHANGED proc
        \/ /\ Alive(p) => "wedge" \in Events
           /\ proc' = IF Alive(p) THEN [proc EXCEPT ![p].st = "bad"] ELSE proc
           /\ beat' = [beat EXCEPT !.pc = "gone"]
           /\ UNCHANGED breaker
     /\ UNCHANGED <<rest, pooled, lockOf, draining>>

\* The death is noted; the backend is evicted if it is still the key's.
BeatEvicts ==
  LET k == beat.cur[1]  p == beat.cur[2]
  IN /\ beat.pc = "gone"
     /\ NotesDeath(k)
     /\ \/ /\ pooled[k] = p
           /\ pooled' = Unpooled({k}) /\ lockOf' = Unlocked({k})
           /\ beat' = [beat EXCEPT !.pc = "shut", !.cur = None, !.shut = {p}]
        \/ /\ pooled[k] # p
           /\ beat' = [beat EXCEPT !.pc = "probe", !.cur = None]
           /\ UNCHANGED <<pooled, lockOf>>
     /\ UNCHANGED <<rest, draining, proc>>

\* A mutant: the deadline is not enforced.
DueWhenFree == { e \in draining : proc[e.proc].refs = 0 /\ reserved[e.key] = 0 }

\* A draining backend is reaped when its deadline has passed, or when it is
\* neither in use nor about to be.
Due == { e \in draining : e.late \/ (proc[e.proc].refs = 0 /\ reserved[e.key] = 0) }

BeatReaps ==
  /\ beat.pc = "probe" /\ beat.todo = {}
  /\ draining' = draining \ Due
  /\ beat' = [Resting EXCEPT !.pc = IF Due = {} THEN "rest" ELSE "reap",
                             !.shut = { e.proc : e \in Due }]
  /\ UNCHANGED <<rest, pooled, lockOf, proc, breaker>>

BeatStops(p) ==
  /\ beat.pc \in {"shut", "reap"} /\ p \in beat.shut
  /\ proc' = Stopped(p)
  /\ beat' = [beat EXCEPT !.shut = @ \ {p},
                !.pc = IF beat.shut # {p} THEN @ ELSE IF @ = "shut" THEN "probe" ELSE "rest"]
  /\ UNCHANGED <<rest, pooled, lockOf, draining, breaker>>

\* Shutdowns that nobody awaits.
TaskStops(p) ==
  /\ p \in stopping \cup shielded
  /\ proc' = Stopped(p)
  /\ stopping' = stopping \ {p} /\ shielded' = shielded \ {p}
  /\ UNCHANGED <<index, call, breaker, sweep, rotate, beat, stage, abandoned>>

-----------------------------------------------------------------------------
(***************************************************************************)
(* The environment, and the shutdown of the daemon.                        *)
(***************************************************************************)
Dies(p) ==
  /\ "die" \in Events /\ p \in Running
  /\ proc' = Stopped(p)
  /\ UNCHANGED <<index, call, breaker, tasks>>

Breaks(p) ==
  /\ "wedge" \in Events /\ Alive(p) /\ proc[p].refs > 0
  /\ proc' = [proc EXCEPT ![p].st = "bad"]
  /\ UNCHANGED <<index, call, breaker, tasks>>

Advances(to) == stage' = to

Stop ==
  /\ "stop" \in Events /\ stage = "serving"
  /\ Advances("cancelConns")
  /\ UNCHANGED <<index, proc, call, breaker, sweep, rotate, beat, abandoned, stopping, shielded>>

ConnsGone ==
  /\ stage = "cancelConns" /\ \A c \in Stubs : call[c].pc = "out"
  /\ Advances("cancelSweeps")
  /\ UNCHANGED <<index, proc, call, breaker, sweep, rotate, beat, abandoned, stopping, shielded>>

\* The idle sweeper, the heartbeat and the watchers are cancelled; a shutdown
\* they await is cut short, those they had still to do are not done.
SweepsCancelled ==
  /\ stage = "cancelSweeps"
  /\ Advances("cancelWarmers")
  /\ Dropped(sweep \cup rotate.todo \cup beat.shut)
  /\ sweep' = {} /\ rotate' = [busy |-> FALSE, todo |-> {}] /\ beat' = Resting
  /\ UNCHANGED <<index, proc, call, breaker, stopping, shielded>>

\* shutdown_all
ShutdownAll ==
  /\ stage = "cancelWarmers" /\ \A c \in Warmers : call[c].pc = "out"
  /\ Advances("closing")
  /\ stopping' = stopping \cup Indexed
  /\ pooled' = [k \in Keys |-> None] /\ lockOf' = [k \in Keys |-> None]
  /\ draining' = {} /\ private' = [c \in Stubs |-> None]
  /\ UNCHANGED <<lock, reserved, epoch, proc, call, breaker, sweep, rotate, beat, abandoned,
                 shielded>>

AllStopped ==
  /\ stage = "closing" /\ stopping = {}
  /\ Advances("closed")
  /\ UNCHANGED <<index, proc, call, breaker, sweep, rotate, beat, abandoned, stopping, shielded>>

\* The daemon has exited.
Exited == stage = "closed" /\ UNCHANGED vars

-----------------------------------------------------------------------------
Serves(c) ==
  \/ StaleStopped(c) \/ Spawned(c) \/ SpawnFails(c) \/ Add(c) \/ Discarded(c) \/ Refused(c)
  \/ c \in Stubs /\ (AddPrivate(c) \/ Swapped(c) \/ Primed(c) \/ Closed(c) \/ Reaped(c))

Stops(p) == Swept(p) \/ Rotated(p) \/ TaskStops(p) \/ BeatStops(p)

ShutsDown == ConnsGone \/ SweepsCancelled \/ ShutdownAll \/ AllStopped

Beats == BeatEvicts \/ BeatReaps \/ \E w \in beat.todo : BeatProbes(w)

Next ==
  \/ \E c \in Stubs : Connect(c) \/ Respawn(c) \/ Disconnect(c)
  \/ \E c \in Warmers : Warm(c)
  \/ \E c \in Calls : LockGranted(c) \/ Cancel(c)
  \/ IdleSweep \/ Rotate \/ BeatStarts \/ Beats
  \/ \E e \in draining : DeadlinePasses(e)
  \/ \E p \in Procs : Dies(p) \/ Breaks(p)
  \/ BeatPinged
  \/ \E c \in Calls : Serves(c)
  \/ \E p \in Procs : Stops(p)
  \/ Stop \/ ShutsDown \/ Exited

Spec == Init /\ [][Next]_vars

\* Fairness: the event loop runs what is ready; starting a process, recording
\* its owner, a handshake, a ping and a shutdown end, by their timeouts at the
\* latest; the heartbeat ticks and the deadline of a cutover passes.  Starting a
\* process is strongly fair, because the bound Procs may disable it for a while.
\* Nobody has to connect, to disconnect or to rotate a credential.
FairSpec ==
  /\ Spec
  /\ \A c \in Calls : WF_vars(LockGranted(c)) /\ SF_vars(Spawned(c)) /\ WF_vars(Serves(c))
  /\ \A p \in Procs : WF_vars(Stops(p))
  /\ WF_vars(BeatStarts) /\ WF_vars(Beats) /\ WF_vars(BeatPinged)
  /\ \A k \in Keys, p \in Procs : WF_vars(DeadlinePasses([key |-> k, proc |-> p, late |-> FALSE]))

-----------------------------------------------------------------------------
(***************************************************************************)
(* Properties.                                                             *)
(***************************************************************************)
CallStates == [pc: InPool \cup {"out", "swap", "prime", "attached", "closing", "reap"},
               key: Keys \cup {None}, hand: Procs \cup {None}, lck: Locks \cup {None},
               epoch: 0..MaxDrains, tries: 0..MaxRetries, private: BOOLEAN, again: BOOLEAN]

TypeOK ==
  /\ pooled \in [Keys -> Procs \cup {None}] /\ Size <= MaxBackends
  /\ lockOf \in [Keys -> Locks \cup {None}]
  /\ lock \in [Locks -> [held: BOOLEAN, waiters: Seq(Calls)]]
  /\ reserved \in [Keys -> Nat]
  /\ draining \subseteq [key: Keys, proc: Procs, late: BOOLEAN]
  /\ epoch \in 0..MaxDrains
  /\ private \in [Stubs -> Procs \cup {None}]
  /\ stopping \cup shielded \cup sweep \cup rotate.todo \cup beat.shut \cup abandoned
       \subseteq Procs
  /\ proc \in [Procs -> [st: {"up", "bad", "dead"}, refs: Nat, born: 0..MaxDrains,
                         pinned: BOOLEAN]]
  /\ call \in [Calls -> CallStates]
  /\ breaker \in [Keys -> Breaker!KeyStates]
  /\ stage \in Stages

\* Every running backend is in the index, or somebody is at its shutdown, or
\* still has to put it into the index; or its shutdown was cut short.  That a
\* stub is attached does not count: nobody would shut it down.
NoLeak ==
  Running \subseteq Indexed \cup Condemned \cup abandoned
    \cup { call[c].hand : c \in { d \in Calls :
             call[d].pc \in {"stale", "record", "discard", "refuse", "swap", "reap"} } }

\* A cutover leaves no backend in the pool, and lets none in, that was started
\* before it.
NoStalePooled == \A k \in Keys : pooled[k] # None /\ Alive(pooled[k]) => proc[pooled[k]].born = epoch

\* The refcount of a backend is the number of connections attached to it.
RefcountExact ==
  \A p \in Procs : p \in Referenced =>
    proc[p].refs = Cardinality({ c \in Stubs : /\ call[c].pc \in {"attached", "closing"}
                                               /\ call[c].hand = p })

\* The shutdown of the daemon "completes once every shutdown task has finished
\* ... without leaving orphans behind": so says pool.py of shutdown_all.
NoOrphans == stage = "closed" => Running = {}

Users(p) == { c \in Stubs : call[c].hand = p /\ call[c].pc \in {"prime", "attached", "closing"} }

\* Nobody shuts a healthy backend down under a connection that is attached to
\* it or about to be, except after the deadline of a cutover.
NoneYanked ==
  [][ stage = "serving" =>
        \A p \in Condemned' \ Condemned :
          Alive(p) => Users(p) = {} \/ \E e \in draining : e.proc = p /\ e.late ]_vars

\* Every acquisition comes to an end, whoever holds the spawn lock before it and
\* whatever is evicted, drained or dies meanwhile.
AcquireEnds == \A c \in Calls : call[c].pc \in Acquiring ~> call[c].pc \notin Acquiring

\* A backend started with the old credential is gone after the deadline at the
\* latest, attached to or not.
DrainingReaped ==
  \A p \in Procs : (\E e \in draining : e.proc = p) ~> p \notin Running
=============================================================================
