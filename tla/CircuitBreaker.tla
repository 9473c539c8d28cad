--------------------------- MODULE CircuitBreaker ---------------------------
(***************************************************************************)
(* The circuit breaker of the MCP gateway: mcp_gateway/breaker.py.  A key  *)
(* is tracked from its first fast death until it is healthy, until a spawn *)
(* is asked for after the cool-down, or until it is pruned.  The methods   *)
(* are synchronous, so each is one action; the clock advances between them.*)
(***************************************************************************)
EXTENDS Naturals, Sequences, FiniteSets

CONSTANTS Keys,             \* PoolKey digests
          FastDeathLimit,   \* FAST_DEATH_LIMIT
          Window,           \* WINDOW_SECS
          Cooldown,         \* OPEN_COOLDOWN_SECS
          MaxTrackedKeys,   \* MAX_TRACKED_KEYS
          MaxTime,          \* bound: the clock stops here
          MaxDeaths         \* bound: deaths of a key since its last clean slate

ASSUME BreakerAssumption ==
  /\ FastDeathLimit \in Nat \ {0} /\ Window \in Nat \ {0} /\ Cooldown \in Nat \ {0}
  /\ MaxTrackedKeys \in Nat /\ MaxTime \in Nat /\ MaxDeaths \in Nat
  /\ IsFiniteSet(Keys)

VARIABLES
  now,        \* self._now(), at most MaxTime
  tracked,    \* the keys of self._states
  deaths,     \* _State.deaths: time stamps, oldest first; <<>> if not tracked
  openedAt,   \* _State.opened_at, or Never
  refused,    \* what allow last answered to each key
  history     \* not in the code: all fast deaths since the last clean slate

vars == <<now, tracked, deaths, openedAt, refused, history>>

Never == MaxTime + 1     \* stands for opened_at = None

Init ==
  /\ now = 0 /\ tracked = {}
  /\ deaths = [k \in Keys |-> <<>>]
  /\ openedAt = [k \in Keys |-> Never]
  /\ refused = [k \in Keys |-> FALSE]
  /\ history = [k \in Keys |-> <<>>]

-----------------------------------------------------------------------------
(***************************************************************************)
(* The methods.                                                            *)
(***************************************************************************)
Open(k) == openedAt[k] # Never

\* A mutant: the window is half open.
InHalfWindow(t) == t + Window > now

\* A death at time t is in the sliding window that ends now.
InWindow(t) == t + Window >= now

\* The deaths that have not aged out: what stays of the filter, written as a
\* suffix, because the time stamps come in order.
Recent(s) == SubSeq(s, Cardinality({ i \in DOMAIN s : ~InWindow(s[i]) }) + 1, Len(s))

\* The keys _prune drops from a table st whose deaths and opening times are
\* ds and os: first the closed ones without recent deaths, then, as long as
\* there are too many, the open ones, those that opened first first.
Inactive(st, ds, os) ==
  { k \in st : os[k] = Never /\ \A i \in DOMAIN ds[k] : ~InWindow(ds[k][i]) }

OldestOpen(st, os, n) ==
  { D \in SUBSET { k \in st : os[k] # Never } :
      /\ \A k \in D, j \in st \ D : os[j] # Never => os[k] <= os[j]
      /\ \/ Cardinality(st \ D) = n
         \/ Cardinality(st \ D) > n /\ \A j \in st \ D : os[j] = Never }

\* A mutant: open keys are never dropped.
PrunedOfIdle(st, ds, os) ==
  { IF Cardinality(st) <= MaxTrackedKeys THEN {} ELSE Inactive(st, ds, os) }

Pruned(st, ds, os) ==
  IF Cardinality(st) <= MaxTrackedKeys THEN { {} }
  ELSE LET idle == Inactive(st, ds, os)
       IN IF Cardinality(st \ idle) <= MaxTrackedKeys THEN { idle }
          ELSE { idle \cup D : D \in OldestOpen(st \ idle, os, MaxTrackedKeys) }

\* record_death of an uptime below the threshold; any other changes nothing.
RecordDeath(k) ==
  /\ Len(history[k]) < MaxDeaths
  /\ LET st == tracked \cup {k}
         ds == [deaths EXCEPT ![k] = Append(Recent(@), now)]
         os == [openedAt EXCEPT ![k] = IF @ = Never /\ Len(ds[k]) >= FastDeathLimit
                                       THEN now ELSE @]
     IN \E D \in Pruned(st, ds, os) :
          /\ tracked' = st \ D
          /\ deaths' = [j \in Keys |-> IF j \in D THEN <<>> ELSE ds[j]]
          /\ openedAt' = [j \in Keys |-> IF j \in D THEN Never ELSE os[j]]
          /\ history' = [j \in Keys |-> IF j \in D /\ os[j] # Never THEN <<>>
                                        ELSE IF j = k THEN Append(history[j], now)
                                        ELSE history[j]]
  /\ UNCHANGED <<now, refused>>

\* A mutant: only the trip is forgotten.
SlateHalfOpen(k) ==
  /\ openedAt' = [openedAt EXCEPT ![k] = Never]
  /\ history' = [history EXCEPT ![k] = <<>>]
  /\ UNCHANGED <<tracked, deaths>>

CleanSlate(k) ==
  /\ tracked' = tracked \ {k}
  /\ deaths' = [deaths EXCEPT ![k] = <<>>]
  /\ openedAt' = [openedAt EXCEPT ![k] = Never]
  /\ history' = [history EXCEPT ![k] = <<>>]

RecordHealthy(k) ==
  /\ k \in tracked
  /\ CleanSlate(k)
  /\ UNCHANGED <<now, refused>>

\* A mutant: the cool-down is a moment longer.
CooledDownLate(k) == Open(k) /\ now > openedAt[k] + Cooldown

CooledDown(k) == Open(k) /\ now >= openedAt[k] + Cooldown

\* allow
Allow(k) ==
  /\ refused' = [refused EXCEPT ![k] = Open(k) /\ ~CooledDown(k)]
  /\ IF CooledDown(k) THEN CleanSlate(k)
     ELSE UNCHANGED <<tracked, deaths, openedAt, history>>
  /\ UNCHANGED now

Tick ==
  /\ now < MaxTime
  /\ now' = now + 1
  /\ UNCHANGED <<tracked, deaths, openedAt, refused, history>>

Next == Tick \/ \E k \in Keys : RecordDeath(k) \/ RecordHealthy(k) \/ Allow(k)

Spec == Init /\ [][Next]_vars

-----------------------------------------------------------------------------
(***************************************************************************)
(* Properties.                                                             *)
(***************************************************************************)
\* The time of the first fast death that was the FastDeathLimit-th within a
\* window, by the whole history of k.
TripTime(k) ==
  LET trips == { i \in DOMAIN history[k] :
                   /\ i >= FastDeathLimit
                   /\ history[k][i] - history[k][i - FastDeathLimit + 1] <= Window }
  IN IF trips = {} THEN Never
     ELSE history[k][CHOOSE i \in trips : \A j \in trips : i <= j]

\* A key trips exactly when FAST_DEATH_LIMIT fast deaths fall within one
\* window, whatever was dropped from the record in between: deaths that aged
\* out, and keys _prune took for inactive.
TripExact == \A k \in Keys : openedAt[k] = TripTime(k)

\* allow refuses a key for OPEN_COOLDOWN_SECS after its trip, no shorter and
\* no longer, and refuses nobody else.
RefusesWhileCooling ==
  [][ \A k \in Keys :
        refused'[k] # refused[k] =>
          refused'[k] = (TripTime(k) # Never /\ now < TripTime(k) + Cooldown) ]_vars

\* A record_death that leaves the table over its cap leaves in it only keys
\* that count: closed ones, each with a death in the window.
OverflowIsActive ==
  [][ ~(tracked' \subseteq tracked) =>
        \/ Cardinality(tracked') <= MaxTrackedKeys
        \/ \A k \in tracked' :
             /\ openedAt'[k] = Never
             /\ \E i \in DOMAIN deaths'[k] : InWindow(deaths'[k][i]) ]_vars

\* MAX_TRACKED_KEYS is the "upper bound on distinct keys tracked": breaker.py
\* says so, but _prune keeps the closed keys with a recent death, however many.
TrackedBounded == Cardinality(tracked) <= MaxTrackedKeys

\* The breaker does what the backend pool is promised.
Abstract == INSTANCE SpawnBreaker WITH
  breaker <- [k \in Keys |-> [recent |-> Len(deaths[k]), open |-> Open(k)]]

ImplementsBreaker == Abstract!Spec

=============================================================================
