------------------------ MODULE CircuitBreakerProofs ------------------------
(***************************************************************************)
(* Theorems about the circuit breaker, for any keys, cap, window, limit    *)
(* and cool-down: that its table overflows only by keys that still count,  *)
(* that a key trips exactly when it should, that allow answers by the trip *)
(* alone, and that the breaker implements SpawnBreaker.  BreakerInv says   *)
(* of each key that its record is what is left of its history when the     *)
(* deaths that have aged out are dropped.                                  *)
(***************************************************************************)
EXTENDS CircuitBreaker, FiniteSetTheorems, SequenceTheorems, TLAPS

\* A closed key is kept by _prune's first pass because of a recent death.
LEMMA KeptIsActive ==
  ASSUME NEW st, NEW ds, NEW os, NEW k \in st \ Inactive(st, ds, os), os[k] = Never
  PROVE  \E i \in DOMAIN ds[k] : InWindow(ds[k][i])
BY DEF Inactive

\* What _prune leaves of a table is within the cap, or is all closed keys with
\* recent deaths: the open ones go before the cap is given up.
LEMMA PruneBounds ==
  ASSUME NEW st, NEW ds, NEW os, NEW D \in Pruned(st, ds, os)
  PROVE  \/ Cardinality(st \ D) <= MaxTrackedKeys
         \/ \A k \in st \ D :
              os[k] = Never /\ \E i \in DOMAIN ds[k] : InWindow(ds[k][i])
<1>1. CASE Cardinality(st) <= MaxTrackedKeys
  <2>1. D = {}
    BY <1>1 DEF Pruned
  <2>2. st \ D = st
    BY <2>1
  <2> QED BY <1>1, <2>2
<1>2. CASE ~(Cardinality(st) <= MaxTrackedKeys)
  <2> DEFINE idle == Inactive(st, ds, os)
  <2>1. CASE Cardinality(st \ idle) <= MaxTrackedKeys
    <3>1. D = idle
      BY <1>2, <2>1 DEF Pruned
    <3> QED BY <2>1, <3>1
  <2>2. CASE ~(Cardinality(st \ idle) <= MaxTrackedKeys)
    <3>1. PICK E \in OldestOpen(st \ idle, os, MaxTrackedKeys) : D = idle \cup E
      BY <1>2, <2>2 DEF Pruned
    <3>2. st \ D = (st \ idle) \ E
      BY <3>1
    <3>3. CASE Cardinality((st \ idle) \ E) = MaxTrackedKeys
      BY <3>2, <3>3, BreakerAssumption
    <3>4. CASE \A k \in (st \ idle) \ E : os[k] = Never
      <4>1. ASSUME NEW k \in st \ D
            PROVE  os[k] = Never /\ \E i \in DOMAIN ds[k] : InWindow(ds[k][i])
        BY <3>2, <3>4, KeptIsActive
      <4> QED BY <4>1
    <3> QED BY <3>1, <3>3, <3>4 DEF OldestOpen
  <2> QED BY <2>1, <2>2
<1> QED BY <1>1, <1>2

\* The keys a death leaves in the table keep the record it gave them.
LEMMA DeathOverflow ==
  ASSUME NEW k \in Keys, RecordDeath(k), tracked \subseteq Keys
  PROVE  \/ Cardinality(tracked') <= MaxTrackedKeys
         \/ \A j \in tracked' :
              /\ openedAt'[j] = Never
              /\ \E i \in DOMAIN deaths'[j] : InWindow(deaths'[j][i])
<1> DEFINE st == tracked \cup {k}
           ds == [deaths EXCEPT ![k] = Append(Recent(@), now)]
           os == [openedAt EXCEPT ![k] = IF @ = Never /\ Len(ds[k]) >= FastDeathLimit
                                         THEN now ELSE @]
<1>1. PICK D \in Pruned(st, ds, os) :
        /\ tracked' = st \ D
        /\ deaths' = [j \in Keys |-> IF j \in D THEN <<>> ELSE ds[j]]
        /\ openedAt' = [j \in Keys |-> IF j \in D THEN Never ELSE os[j]]
  BY DEF RecordDeath
<1>2. \A j \in tracked' : deaths'[j] = ds[j] /\ openedAt'[j] = os[j]
  <2> HIDE DEF ds, os
  <2> QED BY <1>1
<1> HIDE DEF st, ds, os
<1>3. \/ Cardinality(st \ D) <= MaxTrackedKeys
      \/ \A j \in st \ D : os[j] = Never /\ \E i \in DOMAIN ds[j] : InWindow(ds[j][i])
  BY PruneBounds
<1> QED BY <1>1, <1>2, <1>3

\* The table holds keys.
TableOfKeys == tracked \subseteq Keys

LEMMA TableStep == TableOfKeys /\ [Next]_vars => TableOfKeys'
<1> SUFFICES ASSUME TableOfKeys, [Next]_vars PROVE TableOfKeys'
  OBVIOUS
<1>1. CASE Tick
  BY <1>1 DEF Tick, TableOfKeys
<1>2. ASSUME NEW k \in Keys, RecordDeath(k) PROVE TableOfKeys'
  BY <1>2 DEF RecordDeath, TableOfKeys
<1>3. ASSUME NEW k \in Keys, RecordHealthy(k) PROVE TableOfKeys'
  BY <1>3 DEF RecordHealthy, CleanSlate, TableOfKeys
<1>4. ASSUME NEW k \in Keys, Allow(k) PROVE TableOfKeys'
  BY <1>4 DEF Allow, CleanSlate, TableOfKeys
<1>5. CASE UNCHANGED vars
  BY <1>5 DEF vars, TableOfKeys
<1> QED BY <1>1, <1>2, <1>3, <1>4, <1>5 DEF Next

\* The action of OverflowIsActive, by name.
Overflows ==
  ~(tracked' \subseteq tracked) =>
    \/ Cardinality(tracked') <= MaxTrackedKeys
    \/ \A k \in tracked' :
         /\ openedAt'[k] = Never
         /\ \E i \in DOMAIN deaths'[k] : InWindow(deaths'[k][i])

LEMMA OverflowStep == TableOfKeys /\ [Next]_vars => [Overflows]_vars
<1> SUFFICES ASSUME TableOfKeys, Next PROVE Overflows
  OBVIOUS
<1>1. CASE Tick
  BY <1>1 DEF Tick, Overflows
<1>2. ASSUME NEW k \in Keys, RecordDeath(k) PROVE Overflows
  BY <1>2, DeathOverflow DEF Overflows, TableOfKeys
<1>3. ASSUME NEW k \in Keys, RecordHealthy(k) PROVE Overflows
  BY <1>3 DEF RecordHealthy, CleanSlate, Overflows
<1>4. ASSUME NEW k \in Keys, Allow(k) PROVE Overflows
  BY <1>4 DEF Allow, CleanSlate, Overflows
<1> QED BY <1>1, <1>2, <1>3, <1>4 DEF Next

\* However many keys die, the table of breaker states exceeds MAX_TRACKED_KEYS
\* only by closed keys that each have a death in the window.
THEOREM OverflowOnlyByActive == Spec => OverflowIsActive
<1>1. Init => TableOfKeys
  BY DEF Init, TableOfKeys
<1>2. TableOfKeys /\ [Next]_vars => TableOfKeys'
  BY TableStep
<1>3. TableOfKeys /\ [Next]_vars => [Overflows]_vars
  BY OverflowStep
<1> QED BY <1>1, <1>2, <1>3, PTL DEF Spec, OverflowIsActive, Overflows

(***************************************************************************)
(* Trips.  Trips(h) are the positions of a history h at which a death is   *)
(* the FastDeathLimit-th within a window.                                  *)
(***************************************************************************)
Trips(h) ==
  { i \in DOMAIN h : /\ i >= FastDeathLimit
                     /\ h[i] - h[i - FastDeathLimit + 1] <= Window }

InTimeOrder(h) == \A i, j \in DOMAIN h : i <= j => h[i] <= h[j]

\* A history up to time n, and the record d that is left of it: the deaths
\* after the m-th, where those up to the m-th have aged out.
IsHistory(h, n) ==
  /\ h \in Seq(Nat) /\ InTimeOrder(h)
  /\ \A i \in DOMAIN h : h[i] <= n

LeftOf(h, d, n, m) ==
  /\ \A i \in 1..m : h[i] + Window < n
  /\ Len(d) = Len(h) - m
  /\ \A i \in 1..(Len(h) - m) : d[i] = h[i + m]

IsRecord(h, d, n) == d \in Seq(Nat) /\ \E m \in 0..Len(h) : LeftOf(h, d, n, m)

HasFirst(h) == Trips(h) # {} => \E i \in Trips(h) : \A j \in Trips(h) : i <= j

TripOf(h) ==
  IF Trips(h) = {} THEN Never
  ELSE h[CHOOSE i \in Trips(h) : \A j \in Trips(h) : i <= j]

ClockInv == now \in Nat /\ now <= MaxTime

RecordInv(k) ==
  /\ IsHistory(history[k], now) /\ HasFirst(history[k])
  /\ IsRecord(history[k], deaths[k], now)
  /\ openedAt[k] = TripOf(history[k])

TablesInv ==
  /\ DOMAIN deaths = Keys /\ deaths = [k \in Keys |-> deaths[k]]
  /\ openedAt = [k \in Keys |-> openedAt[k]]
  /\ history = [k \in Keys |-> history[k]]
  /\ refused \in [Keys -> BOOLEAN]
  /\ tracked \subseteq Keys

BreakerInv == ClockInv /\ TablesInv /\ \A k \in Keys : RecordInv(k)

LEMMA FirstOnes == \A n \in Nat : IsFiniteSet(1..n) /\ Cardinality(1..n) = n
<1> SUFFICES ASSUME NEW n \in Nat PROVE IsFiniteSet(1..n) /\ Cardinality(1..n) = n
  OBVIOUS
<1>1. IsFiniteSet(1..n) /\ Cardinality(1..n) = IF 1 > n THEN 0 ELSE n - 1 + 1
  BY FS_Interval
<1>2. (IF 1 > n THEN 0 ELSE n - 1 + 1) = n
  OBVIOUS
<1> QED BY <1>1, <1>2

\* The deaths that have aged out of a history in time order are its first ones.
LEMMA AgedIsPrefix ==
  ASSUME NEW s \in Seq(Nat), InTimeOrder(s), now \in Nat
  PROVE  \E m \in 0..Len(s) :
           /\ { i \in DOMAIN s : ~InWindow(s[i]) } = 1..m
           /\ Cardinality({ i \in DOMAIN s : ~InWindow(s[i]) }) = m
<1> DEFINE aged == { i \in DOMAIN s : ~InWindow(s[i]) }
<1>1. /\ DOMAIN s = 1..Len(s) /\ Len(s) \in Nat /\ \A i \in 1..Len(s) : s[i] \in Nat
      /\ Window \in Nat
  BY BreakerAssumption
<1>2. aged \subseteq 1..Len(s) /\ \A i \in aged, j \in 1..Len(s) : j <= i => j \in aged
  <2>1. aged \subseteq 1..Len(s)
    BY <1>1
  <2>2. ASSUME NEW i \in aged, NEW j \in 1..Len(s), j <= i PROVE j \in aged
    <3>1. i \in 1..Len(s) /\ ~(s[i] + Window >= now) /\ s[j] <= s[i]
      BY <1>1, <2>2 DEF InTimeOrder, InWindow
    <3>2. s[i] \in Nat /\ s[j] \in Nat
      BY <1>1, <3>1
    <3> QED BY <1>1, <3>1, <3>2 DEF InWindow
  <2> QED BY <2>1, <2>2
<1>3. IsFiniteSet(aged) /\ Cardinality(aged) \in Nat
  <2>1. IsFiniteSet(1..Len(s))
    BY <1>1, FirstOnes
  <2> QED BY <1>2, <2>1, FS_Subset, FS_CardinalityType
<1> DEFINE m == Cardinality(aged)
<1> HIDE DEF aged
<1>4. m <= Len(s)
  <2>1. Cardinality(1..Len(s)) = Len(s)
    BY <1>1, FirstOnes
  <2>2. IsFiniteSet(1..Len(s))
    BY <1>1, FirstOnes
  <2>3. Cardinality(aged) <= Cardinality(1..Len(s))
    BY <1>2, <2>2, FS_Subset
  <2> QED BY <2>1, <2>3
<1>5. aged = 1..m
  <2>1. \A i \in aged : i <= m
    <3> SUFFICES ASSUME NEW i \in aged PROVE i <= m
      OBVIOUS
    <3>1. i \in Nat /\ 1..i \subseteq aged
      BY <1>1, <1>2
    <3>2. Cardinality(1..i) = i
      BY <3>1, FirstOnes
    <3>3. Cardinality(1..i) <= m
      BY <1>3, <3>1, FS_Subset
    <3> QED BY <3>2, <3>3
  <2>2. aged \subseteq 1..m
    BY <1>1, <1>2, <1>3, <2>1
  <2>3. IsFiniteSet(1..m) /\ Cardinality(1..m) = m
    BY <1>3, FirstOnes
  <2>4. Cardinality(aged) = Cardinality(1..m) => aged = 1..m
    BY <2>2, <2>3, FS_Subset
  <2> QED BY <2>3, <2>4
<1> HIDE DEF m
<1>6. m \in 0..Len(s) /\ aged = 1..m /\ Cardinality(aged) = m
  BY <1>1, <1>3, <1>4, <1>5 DEF m
<1> QED BY <1>6 DEF aged

\* A death at the end of a sequence of deaths.
LEMMA LastOfAppend ==
  ASSUME NEW s \in Seq(Nat), NEW x \in Nat
  PROVE  /\ Append(s, x) \in Seq(Nat) /\ Len(Append(s, x)) = Len(s) + 1
         /\ DOMAIN Append(s, x) = 1..(Len(s) + 1)
         /\ Append(s, x)[Len(Append(s, x))] = x /\ Append(s, x)[Len(s) + 1] = x
         /\ \A i \in 1..Len(s) : Append(s, x)[i] = s[i]
<1>1. /\ Append(s, x) \in Seq(Nat) /\ Len(Append(s, x)) = Len(s) + 1
      /\ Append(s, x)[Len(s) + 1] = x
      /\ \A i \in 1..Len(s) : Append(s, x)[i] = s[i]
  BY AppendProperties
<1> DEFINE t == Append(s, x)
<1> HIDE DEF t
<1>2. t \in Seq(Nat) => DOMAIN t = 1..Len(t)
  OBVIOUS
<1> QED BY <1>1, <1>2 DEF t

\* record_death drops from a record the deaths that have aged out, no other.
LEMMA RecentIsLeft ==
  ASSUME NEW h, NEW d, now \in Nat, IsHistory(h, now), IsRecord(h, d, now)
  PROVE  /\ Recent(d) \in Seq(Nat)
         /\ Len(Recent(d)) <= Len(d)
         /\ \E m \in 0..Len(h) : /\ LeftOf(h, Recent(d), now, m)
                                 /\ \A i \in m+1..Len(h) : h[i] + Window >= now
<1>1. h \in Seq(Nat) /\ d \in Seq(Nat) /\ InTimeOrder(h) /\ Len(h) \in Nat /\ Len(d) \in Nat
      /\ DOMAIN h = 1..Len(h) /\ DOMAIN d = 1..Len(d) /\ Window \in Nat
      /\ \A i \in 1..Len(h) : h[i] \in Nat
  BY BreakerAssumption DEF IsHistory, IsRecord
<1>2. PICK m \in 0..Len(h) : LeftOf(h, d, now, m)
  BY DEF IsRecord
<1>3. InTimeOrder(d)
  <2> SUFFICES ASSUME NEW i \in 1..Len(d), NEW j \in 1..Len(d), i <= j PROVE d[i] <= d[j]
    BY <1>1 DEF InTimeOrder
  <2>1. Len(d) = Len(h) - m /\ \A l \in 1..(Len(h) - m) : d[l] = h[l + m]
    BY <1>2 DEF LeftOf
  <2>2. d[i] = h[i + m] /\ d[j] = h[j + m]
    BY <2>1
  <2>3. i + m \in 1..Len(h) /\ j + m \in 1..Len(h) /\ i + m <= j + m
    BY <1>1, <2>1
  <2>4. h[i + m] <= h[j + m]
    BY <1>1, <2>3 DEF InTimeOrder
  <2> QED BY <2>2, <2>4
<1>4. PICK a \in 0..Len(d) :
        /\ { i \in DOMAIN d : ~InWindow(d[i]) } = 1..a
        /\ Cardinality({ i \in DOMAIN d : ~InWindow(d[i]) }) = a
  BY <1>1, <1>3, AgedIsPrefix
<1>5. Recent(d) = SubSeq(d, a + 1, Len(d))
  BY <1>4 DEF Recent
<1>6. /\ Recent(d) \in Seq(Nat)
      /\ Len(Recent(d)) = Len(d) - a
      /\ \A i \in 1..(Len(d) - a) : Recent(d)[i] = d[i + a]
  <2> DEFINE r == SubSeq(d, a + 1, Len(d))
  <2>1. r \in Seq(Nat) /\ Len(r) = Len(d) - a /\ \A i \in 1..(Len(d) - a) : r[i] = d[i + a]
    <3>0. a + 1 \in Int /\ Len(d) \in Int /\ \A i \in a+1..Len(d) : d[i] \in Nat
      <4>1. \A i \in a+1..Len(d) : i \in 1..Len(d)
        BY <1>1
      <4> QED BY <1>1, <4>1
    <3>1. /\ SubSeq(d, a + 1, Len(d)) \in Seq(Nat)
          /\ Len(SubSeq(d, a + 1, Len(d))) = IF a + 1 <= Len(d) THEN Len(d) - (a + 1) + 1 ELSE 0
          /\ \A i \in 1..(Len(d) - (a + 1) + 1) : SubSeq(d, a + 1, Len(d))[i] = d[a + 1 + i - 1]
      <4> DEFINE first == a + 1  last == Len(d)
      <4>1. first \in Int /\ last \in Int /\ \A i \in first..last : d[i] \in Nat
        BY <3>0
      <4> HIDE DEF first, last
      <4>2. /\ SubSeq(d, first, last) \in Seq(Nat)
            /\ Len(SubSeq(d, first, last)) = IF first <= last THEN last - first + 1 ELSE 0
            /\ \A i \in 1..(last - first + 1) : SubSeq(d, first, last)[i] = d[first + i - 1]
        BY <4>1, SubSeqProperties
      <4> QED BY <4>2 DEF first, last
    <3>2. \A i \in 1..(Len(d) - a) : i \in 1..(Len(d) - (a + 1) + 1) /\ a + 1 + i - 1 = i + a
      BY <1>1
    <3> HIDE DEF r
    <3>3. r \in Seq(Nat) /\ Len(r) = Len(d) - a
      <4>1. \A l \in Nat : \A b \in 0..l : (IF b + 1 <= l THEN l - (b + 1) + 1 ELSE 0) = l - b
        OBVIOUS
      <4>2. (IF a + 1 <= Len(d) THEN Len(d) - (a + 1) + 1 ELSE 0) = Len(d) - a
        BY <1>1, <4>1
      <4> QED BY <3>1, <4>2 DEF r
    <3>4. \A i \in 1..(Len(d) - a) : r[i] = d[i + a]
      BY <3>1, <3>2 DEF r
    <3> QED BY <3>3, <3>4
  <2> QED BY <1>5, <2>1
<1>7. \A i \in 1..Len(d) : d[i] = h[i + m] /\ (i \in 1..a <=> ~(h[i + m] + Window >= now))
  BY <1>1, <1>2, <1>4 DEF LeftOf, InWindow
<1> DEFINE e == m + a
<1>8. e \in 0..Len(h) /\ Len(Recent(d)) = Len(h) - e
  BY <1>1, <1>2, <1>6 DEF LeftOf
<1>9. \A i \in 1..e : h[i] + Window < now
  <2> SUFFICES ASSUME NEW i \in 1..e PROVE h[i] + Window < now
    OBVIOUS
  <2>1. CASE i <= m
    BY <1>2, <2>1 DEF LeftOf
  <2>2. CASE i > m
    <3> DEFINE j == i - m
    <3>1. j \in 1..a /\ j \in 1..Len(d) /\ i = j + m /\ i \in 1..Len(h)
      BY <1>1, <1>8, <2>2
    <3> HIDE DEF j
    <3>2. ~(h[i] + Window >= now)
      BY <1>7, <3>1
    <3>3. h[i] \in Nat /\ Window \in Nat
      BY <1>1, <3>1
    <3> QED BY <3>2, <3>3
  <2> QED BY <2>1, <2>2
<1>10. \A i \in e+1..Len(h) : h[i] + Window >= now
  <2> SUFFICES ASSUME NEW i \in e+1..Len(h) PROVE h[i] + Window >= now
    OBVIOUS
  <2> DEFINE j == i - m
  <2>1. j \in 1..Len(d) /\ ~(j \in 1..a) /\ i = j + m
    BY <1>1, <1>2 DEF LeftOf
  <2> HIDE DEF j
  <2> QED BY <1>7, <2>1
<1>11. \A i \in 1..(Len(h) - e) : Recent(d)[i] = h[i + e]
  <2> SUFFICES ASSUME NEW i \in 1..(Len(h) - e) PROVE Recent(d)[i] = h[i + e]
    OBVIOUS
  <2> DEFINE j == i + a
  <2>1. i \in 1..(Len(d) - a) /\ j \in 1..Len(d) /\ j + m = i + e
    BY <1>1, <1>6, <1>8
  <2>2. Recent(d)[i] = d[j]
    BY <1>6, <2>1
  <2> HIDE DEF j
  <2> QED BY <1>7, <2>1, <2>2
<1> HIDE DEF e
<1>12. LeftOf(h, Recent(d), now, e)
  BY <1>8, <1>9, <1>11 DEF LeftOf
<1> QED BY <1>1, <1>4, <1>6, <1>8, <1>10, <1>12

\* One more death: the record that is left of the longer history, and whether
\* it trips.
LEMMA DeathRecord ==
  ASSUME NEW h, NEW d, now \in Nat, IsHistory(h, now), IsRecord(h, d, now)
  PROVE  LET g == Append(h, now)
             e == Append(Recent(d), now)
         IN /\ IsHistory(g, now) /\ IsRecord(g, e, now)
            /\ Len(e) \in 1..(Len(d) + 1) /\ e[Len(e)] = now
            /\ Len(e) >= FastDeathLimit <=> Len(g) \in Trips(g)
            /\ Trips(g) \ {Len(g)} = Trips(h)
            /\ Len(g) \notin Trips(h)
<1> DEFINE g == Append(h, now)
           r == Recent(d)
           e == Append(r, now)
           n == Len(h) + 1
           L == FastDeathLimit
<1>1. /\ h \in Seq(Nat) /\ InTimeOrder(h) /\ Len(h) \in Nat /\ DOMAIN h = 1..Len(h)
      /\ Len(d) \in Nat
      /\ Window \in Nat /\ L \in Nat /\ L >= 1 /\ \A i \in 1..Len(h) : h[i] \in Nat /\ h[i] <= now
  BY BreakerAssumption DEF IsHistory, IsRecord
<1>2. PICK m \in 0..Len(h) : /\ LeftOf(h, r, now, m)
                             /\ \A i \in m+1..Len(h) : h[i] + Window >= now
  BY RecentIsLeft
<1>3. r \in Seq(Nat) /\ Len(r) \in Nat /\ Len(r) <= Len(d)
  BY RecentIsLeft
<1>4. /\ g \in Seq(Nat) /\ Len(g) = n /\ DOMAIN g = 1..n /\ g[n] = now
      /\ \A i \in 1..Len(h) : g[i] = h[i]
  BY <1>1, LastOfAppend
<1> HIDE DEF r
<1>5. /\ e \in Seq(Nat) /\ Len(e) = Len(r) + 1 /\ e[Len(e)] = now
      /\ \A i \in 1..Len(r) : e[i] = r[i]
  BY <1>3, LastOfAppend
<1> HIDE DEF g, e
<1>6. IsHistory(g, now)
  <2>1. \A i \in 1..n : i \in 1..Len(h) \/ i = n
    BY <1>1
  <2>2. ASSUME NEW i \in 1..n PROVE g[i] \in Nat /\ g[i] <= now
    <3>1. CASE i = n
      BY <1>4, <3>1
    <3>2. CASE i \in 1..Len(h)
      BY <1>1, <1>4, <3>2
    <3> QED BY <2>1, <3>1, <3>2
  <2>3. ASSUME NEW i \in 1..n, NEW j \in 1..n, i <= j PROVE g[i] <= g[j]
    <3>1. CASE j = n
      BY <1>4, <2>2, <3>1
    <3>2. CASE j # n
      <4>1. i \in 1..Len(h) /\ j \in 1..Len(h)
        BY <1>1, <2>3, <3>2
      <4> QED BY <1>1, <1>4, <2>3, <4>1 DEF InTimeOrder
    <3> QED BY <3>1, <3>2
  <2> QED BY <1>4, <2>2, <2>3 DEF IsHistory, InTimeOrder
<1>7. IsRecord(g, e, now)
  <2>1. Len(e) = Len(g) - m /\ m \in 0..Len(g)
    BY <1>1, <1>2, <1>4, <1>5 DEF LeftOf
  <2>2. \A i \in 1..m : g[i] + Window < now
    <3>1. \A i \in 1..m : i \in 1..Len(h)
      BY <1>1
    <3> QED BY <1>2, <1>4, <3>1 DEF LeftOf
  <2>3. ASSUME NEW i \in 1..(n - m) PROVE e[i] = g[i + m]
    <3>1. CASE i = Len(r) + 1
      <4>1. i + m = n
        BY <1>1, <1>4, <1>5, <2>1, <3>1
      <4> QED BY <1>4, <1>5, <3>1, <4>1
    <3>2. CASE i # Len(r) + 1
      <4>1. Len(r) = Len(h) - m
        BY <1>2 DEF LeftOf
      <4>2. i \in 1..Len(r) /\ i + m \in 1..Len(h) /\ i \in 1..(Len(h) - m)
        BY <1>1, <3>2, <4>1
      <4> QED BY <1>2, <1>4, <1>5, <4>2 DEF LeftOf
    <3> QED BY <3>1, <3>2
  <2> QED BY <1>4, <1>5, <2>1, <2>2, <2>3 DEF IsRecord, LeftOf
<1>8. Len(e) \in 1..(Len(d) + 1)
  BY <1>1, <1>3, <1>5
<1>9. Len(e) >= L <=> n \in Trips(g)
  <2>0. Len(e) = n - m
    BY <1>1, <1>2, <1>5 DEF LeftOf
  <2> DEFINE f == n - L + 1
  <2>1. n \in Trips(g) <=> n >= L /\ now - g[f] <= Window
    BY <1>1, <1>4 DEF Trips
  <2>2. CASE n - m >= L
    <3>1. f \in m+1..n /\ f \in 1..n
      BY <1>1, <2>2
    <3>2. now - g[f] <= Window
      <4>1. CASE f = n
        BY <1>1, <1>4, <4>1
      <4>2. CASE f # n
        <5>1. f \in 1..Len(h) /\ f \in m+1..Len(h)
          BY <1>1, <3>1, <4>2
        <5>2. g[f] = h[f] /\ h[f] \in Nat /\ h[f] + Window >= now
          BY <1>1, <1>2, <1>4, <5>1
        <5> HIDE DEF f
        <5> QED BY <1>1, <5>2
      <4> QED BY <4>1, <4>2
    <3> QED BY <1>1, <2>0, <2>1, <2>2, <3>2
  <2>3. CASE n - m < L /\ n >= L
    <3>1. f \in 1..m /\ f \in 1..Len(h)
      BY <1>1, <2>3
    <3>2. g[f] = h[f] /\ h[f] \in Nat /\ h[f] + Window < now
      BY <1>1, <1>2, <1>4, <3>1 DEF LeftOf
    <3> HIDE DEF f
    <3>3. ~(now - g[f] <= Window)
      BY <1>1, <3>2
    <3> QED BY <1>1, <2>0, <2>1, <2>3, <3>3
  <2>4. CASE n < L
    BY <1>1, <2>0, <2>1, <2>4
  <2> QED BY <1>1, <2>2, <2>3, <2>4
<1>10. Trips(g) \ {n} = Trips(h)
  <2>1. \A i \in 1..Len(h) : i >= L => i - L + 1 \in 1..Len(h)
    BY <1>1
  <2>2. \A i \in 1..Len(h) : i \in Trips(g) <=> i \in Trips(h)
    <3>1. ASSUME NEW i \in 1..Len(h), i >= L
          PROVE  g[i] = h[i] /\ g[i - L + 1] = h[i - L + 1]
      <4>1. i - L + 1 \in 1..Len(h)
        BY <2>1, <3>1
      <4> QED BY <1>4, <4>1
    <3>2. \A i \in 1..Len(h) : i \in DOMAIN g /\ i \in DOMAIN h
      BY <1>1, <1>4
    <3> QED BY <3>1, <3>2 DEF Trips
  <2>3. Trips(h) \subseteq 1..Len(h) /\ Trips(g) \subseteq 1..n
    BY <1>1, <1>4 DEF Trips
  <2>4. 1..n \ {n} = 1..Len(h)
    BY <1>1
  <2> QED BY <2>2, <2>3, <2>4
<1>11. n \notin Trips(h)
  BY <1>1 DEF Trips
<1>12. /\ IsHistory(g, now) /\ IsRecord(g, e, now)
       /\ Len(e) \in 1..(Len(d) + 1) /\ e[Len(e)] = now
       /\ Len(e) >= FastDeathLimit <=> Len(g) \in Trips(g)
       /\ Trips(g) \ {Len(g)} = Trips(h)
       /\ Len(g) \notin Trips(h)
  BY <1>4, <1>5, <1>6, <1>7, <1>8, <1>9, <1>10, <1>11
<1> QED BY <1>12 DEF g, e, r

\* A death changes when a key tripped only if it is the one that trips it.
LEMMA DeathTrips ==
  ASSUME NEW h, NEW d, ClockInv, IsHistory(h, now), IsRecord(h, d, now), HasFirst(h)
  PROVE  LET g == Append(h, now)
             e == Append(Recent(d), now)
         IN /\ HasFirst(g)
            /\ TripOf(g) = IF TripOf(h) = Never /\ Len(e) >= FastDeathLimit THEN now ELSE TripOf(h)
<1> DEFINE g == Append(h, now)
           e == Append(Recent(d), now)
           First(s, i) == i \in Trips(s) /\ \A j \in Trips(s) : i <= j
<1>1. /\ now \in Nat /\ now <= MaxTime /\ Never = MaxTime + 1 /\ MaxTime \in Nat
      /\ h \in Seq(Nat) /\ Len(h) \in Nat /\ DOMAIN h = 1..Len(h)
      /\ \A i \in 1..Len(h) : h[i] \in Nat /\ h[i] <= now
  BY BreakerAssumption DEF ClockInv, IsHistory, Never
<1>2. /\ Len(e) >= FastDeathLimit <=> Len(g) \in Trips(g)
      /\ Trips(g) \ {Len(g)} = Trips(h) /\ Len(g) \notin Trips(h)
  BY <1>1, DeathRecord
<1>3. Len(g) = Len(h) + 1 /\ g[Len(g)] = now /\ \A i \in 1..Len(h) : g[i] = h[i]
  BY <1>1
<1>4. Trips(h) \subseteq 1..Len(h) /\ Trips(g) \subseteq 1..Len(g)
  <2>1. DOMAIN g = 1..Len(g)
    BY <1>1
  <2> QED BY <1>1, <2>1 DEF Trips
<1> HIDE DEF e, g
<1>5. ASSUME NEW i, First(h, i) PROVE First(g, i)
  <2>1. i \in Trips(g) /\ i \in 1..Len(h)
    BY <1>2, <1>4, <1>5
  <2>2. ASSUME NEW j \in Trips(g) PROVE i <= j
    <3>1. CASE j = Len(g)
      BY <1>1, <1>3, <2>1, <3>1
    <3>2. CASE j # Len(g)
      <4>1. j \in Trips(h)
        BY <1>2, <2>2, <3>2
      <4> QED BY <1>5, <4>1
    <3> QED BY <3>1, <3>2
  <2> QED BY <2>1, <2>2
<1>6. ASSUME NEW i, NEW s, First(s, i), Trips(s) \subseteq Nat
      PROVE  HasFirst(s) /\ TripOf(s) = s[i]
  <2>1. HasFirst(s) /\ Trips(s) # {}
    BY <1>6 DEF HasFirst
  <2> DEFINE c == CHOOSE x \in Trips(s) : \A j \in Trips(s) : x <= j
  <2>2. c \in Trips(s) /\ \A j \in Trips(s) : c <= j
    BY <1>6
  <2> HIDE DEF c
  <2>3. c \in Nat /\ i \in Nat /\ c <= i /\ i <= c
    BY <1>6, <2>2
  <2>4. c = i
    BY <2>3
  <2> QED BY <2>1, <2>4 DEF TripOf, c
<1>7. Trips(h) \subseteq Nat /\ Trips(g) \subseteq Nat
  BY <1>1, <1>3, <1>4
<1>8. CASE Trips(h) # {}
  <2>1. PICK i : First(h, i)
    BY <1>8 DEF HasFirst
  <2>2. TripOf(h) = h[i] /\ HasFirst(g) /\ TripOf(g) = g[i]
    BY <1>5, <1>6, <1>7, <2>1
  <2>3. g[i] = h[i] /\ h[i] # Never
    <3>1. i \in 1..Len(h)
      BY <1>4, <2>1
    <3> QED BY <1>1, <1>3, <3>1
  <2> QED BY <2>2, <2>3 DEF g, e
<1>9. CASE Trips(h) = {} /\ Len(g) \in Trips(g)
  <2>1. Trips(g) = {Len(g)}
    BY <1>2, <1>9
  <2>2. First(g, Len(g))
    BY <1>7, <2>1
  <2>3. HasFirst(g) /\ TripOf(g) = now
    BY <1>3, <1>6, <1>7, <2>2
  <2>4. TripOf(h) = Never
    BY <1>9 DEF TripOf
  <2> QED BY <1>2, <1>9, <2>3, <2>4 DEF g, e
<1>10. CASE Trips(h) = {} /\ Len(g) \notin Trips(g)
  <2>1. Trips(g) = {}
    BY <1>2, <1>10
  <2>2. HasFirst(g) /\ TripOf(g) = Never /\ TripOf(h) = Never
    BY <1>10, <2>1 DEF TripOf, HasFirst
  <2> QED BY <1>2, <1>10, <2>2 DEF g, e
<1> QED BY <1>8, <1>9, <1>10

\* A key that is not tracked has a clean slate, or deaths that have aged out.
LEMMA CleanRecord ==
  \A n \in Nat : IsHistory(<<>>, n) /\ HasFirst(<<>>) /\ IsRecord(<<>>, <<>>, n) /\ TripOf(<<>>) = Never
<1> SUFFICES ASSUME NEW n \in Nat
             PROVE  IsHistory(<<>>, n) /\ HasFirst(<<>>) /\ IsRecord(<<>>, <<>>, n) /\ TripOf(<<>>) = Never
  OBVIOUS
<1> DEFINE z == <<>>
<1>1. z \in Seq(Nat) /\ Len(z) = 0 /\ DOMAIN z = {} /\ 0 \in 0..0
  OBVIOUS
<1> HIDE DEF z
<1>2. Trips(z) = {}
  BY <1>1 DEF Trips
<1>3. HasFirst(z) /\ TripOf(z) = Never
  BY <1>2 DEF HasFirst, TripOf
<1>4. IsHistory(z, n)
  BY <1>1 DEF IsHistory, InTimeOrder
<1>5. LeftOf(z, z, n, 0)
  BY <1>1 DEF LeftOf
<1>6. IsRecord(z, z, n)
  BY <1>1, <1>5 DEF IsRecord
<1> QED BY <1>3, <1>4, <1>6 DEF z

LEMMA AgedRecord ==
  ASSUME NEW h, NEW d, now \in Nat, IsHistory(h, now), IsRecord(h, d, now),
         \A i \in DOMAIN d : ~InWindow(d[i])
  PROVE  IsRecord(h, <<>>, now)
<1>1. /\ h \in Seq(Nat) /\ Len(h) \in Nat /\ d \in Seq(Nat) /\ DOMAIN d = 1..Len(d) /\ Window \in Nat
      /\ \A i \in 1..Len(h) : h[i] \in Nat
  BY BreakerAssumption DEF IsHistory, IsRecord
<1>2. PICK m \in 0..Len(h) : LeftOf(h, d, now, m)
  BY DEF IsRecord
<1>3. \A i \in 1..Len(h) : h[i] + Window < now
  <2> SUFFICES ASSUME NEW i \in 1..Len(h) PROVE h[i] + Window < now
    OBVIOUS
  <2>1. CASE i <= m
    BY <1>2, <2>1 DEF LeftOf
  <2>2. CASE i > m
    <3> DEFINE j == i - m
    <3>1. j \in 1..(Len(h) - m) /\ j + m = i /\ Len(d) = Len(h) - m
      BY <1>1, <1>2, <2>2 DEF LeftOf
    <3> HIDE DEF j
    <3>2. d[j] = h[i] /\ j \in DOMAIN d
      BY <1>1, <1>2, <3>1 DEF LeftOf
    <3>3. ~(h[i] + Window >= now)
      BY <3>2 DEF InWindow
    <3> QED BY <1>1, <3>3
  <2> QED BY <1>1, <2>1, <2>2
<1> DEFINE z == <<>>
<1>4. z \in Seq(Nat) /\ Len(z) = 0
  OBVIOUS
<1> HIDE DEF z
<1>5. LeftOf(h, z, now, Len(h)) /\ Len(h) \in 0..Len(h)
  BY <1>1, <1>3, <1>4 DEF LeftOf
<1> QED BY <1>4, <1>5 DEF IsRecord, z

LEMMA OlderRecord ==
  ASSUME NEW h, NEW d, NEW n \in Nat, IsHistory(h, n), IsRecord(h, d, n)
  PROVE  IsHistory(h, n + 1) /\ IsRecord(h, d, n + 1)
<1>1. /\ h \in Seq(Nat) /\ Len(h) \in Nat /\ DOMAIN h = 1..Len(h) /\ Window \in Nat
      /\ \A i \in 1..Len(h) : h[i] \in Nat /\ h[i] <= n
  BY BreakerAssumption DEF IsHistory
<1>2. IsHistory(h, n + 1)
  BY <1>1 DEF IsHistory
<1>3. PICK m \in 0..Len(h) : LeftOf(h, d, n, m)
  BY DEF IsRecord
<1>4. ASSUME NEW i \in 1..m PROVE h[i] + Window < n + 1
  <2>1. i \in 1..Len(h) /\ h[i] + Window < n
    BY <1>1, <1>3 DEF LeftOf
  <2> QED BY <1>1, <2>1
<1>5. LeftOf(h, d, n + 1, m)
  BY <1>3, <1>4 DEF LeftOf
<1> QED BY <1>2, <1>5 DEF IsRecord

LEMMA PruneDrops ==
  ASSUME NEW st, NEW ds, NEW os, NEW D \in Pruned(st, ds, os)
  PROVE  /\ D \subseteq st
         /\ \A j \in D : os[j] # Never \/ \A i \in DOMAIN ds[j] : ~InWindow(ds[j][i])
<1> DEFINE aged == Inactive(st, ds, os)
<1>1. \A j \in aged : j \in st /\ \A i \in DOMAIN ds[j] : ~InWindow(ds[j][i])
  BY DEF Inactive
<1> HIDE DEF aged
<1>2. D = {} \/ D = aged \/ \E E \in OldestOpen(st \ aged, os, MaxTrackedKeys) : D = aged \cup E
  BY DEF Pruned, aged
<1>3. \A E \in OldestOpen(st \ aged, os, MaxTrackedKeys) : \A j \in E : j \in st /\ os[j] # Never
  BY DEF OldestOpen
<1> QED BY <1>1, <1>2, <1>3

(***************************************************************************)
(* The inductive invariant.                                                *)
(***************************************************************************)
LEMMA BreakerInit == Init => BreakerInv
<1> SUFFICES ASSUME Init PROVE BreakerInv
  OBVIOUS
<1>1. ClockInv
  BY BreakerAssumption DEF Init, ClockInv
<1>2. TablesInv
  BY DEF Init, TablesInv
<1>3. ASSUME NEW k \in Keys PROVE RecordInv(k)
  <2>1. now = 0 /\ deaths[k] = <<>> /\ history[k] = <<>> /\ openedAt[k] = Never
    BY DEF Init
  <2> QED BY <2>1, CleanRecord DEF RecordInv
<1> QED BY <1>1, <1>2, <1>3 DEF BreakerInv

\* A key's record is as good as what is written to its four tables.
LEMMA Rewritten ==
  ASSUME NEW k, NEW h, NEW d, NEW o,
         history'[k] = h, deaths'[k] = d, openedAt'[k] = o,
         IsHistory(h, now'), HasFirst(h), IsRecord(h, d, now'), o = TripOf(h)
  PROVE  RecordInv(k)'
<1>1. /\ IsHistory(history[k], now)'
      /\ HasFirst(history[k])'
  BY DEF HasFirst, Trips, IsHistory, InTimeOrder
<1>2. IsRecord(history[k], deaths[k], now)'
  BY DEF IsRecord, LeftOf
<1>3. (openedAt[k] = TripOf(history[k]))'
  BY DEF TripOf, Trips, Never
<1> QED BY <1>1, <1>2, <1>3 DEF RecordInv

LEMMA SameRecord ==
  ASSUME NEW k, RecordInv(k), now' = now,
         history'[k] = history[k], deaths'[k] = deaths[k], openedAt'[k] = openedAt[k]
  PROVE  RecordInv(k)'
BY Rewritten DEF RecordInv

\* What a death writes, key by key.
LEMMA DeathWrites ==
  ASSUME BreakerInv, NEW k \in Keys, RecordDeath(k)
  PROVE  /\ UNCHANGED <<now, refused>> /\ TablesInv'
         /\ \E e, o :
              /\ e = Append(Recent(deaths[k]), now)
              /\ o = IF openedAt[k] = Never /\ Len(e) >= FastDeathLimit THEN now ELSE openedAt[k]
              /\ \/ /\ history'[k] = Append(history[k], now)
                    /\ deaths'[k] = e /\ openedAt'[k] = o
                 \/ history'[k] = <<>> /\ deaths'[k] = <<>> /\ openedAt'[k] = Never
              /\ \A j \in Keys \ {k} :
                   \/ history'[j] = history[j] /\ deaths'[j] = deaths[j] /\ openedAt'[j] = openedAt[j]
                   \/ history'[j] = <<>> /\ deaths'[j] = <<>> /\ openedAt'[j] = Never
                   \/ /\ history'[j] = history[j] /\ deaths'[j] = <<>> /\ openedAt'[j] = openedAt[j]
                      /\ openedAt[j] = Never
                      /\ \A i \in DOMAIN deaths[j] : ~InWindow(deaths[j][i])
<1> DEFINE st == tracked \cup {k}
           ds == [deaths EXCEPT ![k] = Append(Recent(@), now)]
           os == [openedAt EXCEPT ![k] = IF @ = Never /\ Len(ds[k]) >= FastDeathLimit
                                         THEN now ELSE @]
           e == Append(Recent(deaths[k]), now)
           o == IF openedAt[k] = Never /\ Len(e) >= FastDeathLimit THEN now ELSE openedAt[k]
<1>1. PICK D \in Pruned(st, ds, os) :
        /\ tracked' = st \ D
        /\ deaths' = [j \in Keys |-> IF j \in D THEN <<>> ELSE ds[j]]
        /\ openedAt' = [j \in Keys |-> IF j \in D THEN Never ELSE os[j]]
        /\ history' = [j \in Keys |-> IF j \in D /\ os[j] # Never THEN <<>>
                                      ELSE IF j = k THEN Append(history[j], now)
                                      ELSE history[j]]
  BY DEF RecordDeath
<1>2. UNCHANGED <<now, refused>>
  BY DEF RecordDeath
<1>3. /\ TablesInv /\ now \in Nat /\ Window \in Nat
      /\ IsHistory(history[k], now) /\ IsRecord(history[k], deaths[k], now)
  BY BreakerAssumption DEF BreakerInv, ClockInv, RecordInv
<1>4. ds[k] = e /\ os[k] = o /\ \A j \in Keys \ {k} : ds[j] = deaths[j] /\ os[j] = openedAt[j]
  <2>1. deaths = [j \in Keys |-> deaths[j]] /\ openedAt = [j \in Keys |-> openedAt[j]]
    BY <1>3 DEF TablesInv
  <2>2. ds[k] = e /\ \A j \in Keys \ {k} : ds[j] = deaths[j]
    BY <2>1
  <2> HIDE DEF ds, e
  <2> QED BY <2>1, <2>2
<1>5. e # <<>> /\ ~(\A i \in DOMAIN e : ~InWindow(e[i]))
  <2>1. e[Len(e)] = now /\ Len(e) \in Nat \ {0} /\ DOMAIN e = 1..Len(e)
    <3>1. Recent(deaths[k]) \in Seq(Nat)
      BY <1>3, RecentIsLeft
    <3> QED BY <1>3, <3>1
  <2> HIDE DEF e
  <2> QED BY <1>3, <2>1 DEF InWindow
<1> HIDE DEF st, ds, os, e, o
<1>6. \A j \in D : os[j] # Never \/ \A i \in DOMAIN ds[j] : ~InWindow(ds[j][i])
  BY PruneDrops
<1>7. TablesInv'
  <2>1. tracked' \subseteq Keys
    BY <1>1, <1>3 DEF TablesInv, st
  <2>2. refused' \in [Keys -> BOOLEAN]
    BY <1>2, <1>3 DEF TablesInv
  <2> QED BY <1>1, <2>1, <2>2 DEF TablesInv
<1>8. \/ history'[k] = Append(history[k], now) /\ deaths'[k] = e /\ openedAt'[k] = o
      \/ history'[k] = <<>> /\ deaths'[k] = <<>> /\ openedAt'[k] = Never
  <2>1. CASE k \in D
    <3>1. os[k] # Never
      BY <1>4, <1>5, <1>6, <2>1
    <3> QED BY <1>1, <2>1, <3>1
  <2>2. CASE k \notin D
    BY <1>1, <1>4, <2>2
  <2> QED BY <2>1, <2>2
<1>9. ASSUME NEW j \in Keys \ {k}
      PROVE  \/ history'[j] = history[j] /\ deaths'[j] = deaths[j] /\ openedAt'[j] = openedAt[j]
             \/ history'[j] = <<>> /\ deaths'[j] = <<>> /\ openedAt'[j] = Never
             \/ /\ history'[j] = history[j] /\ deaths'[j] = <<>> /\ openedAt'[j] = openedAt[j]
                /\ openedAt[j] = Never
                /\ \A i \in DOMAIN deaths[j] : ~InWindow(deaths[j][i])
  <2>1. CASE j \notin D
    BY <1>1, <1>4, <2>1
  <2>2. CASE j \in D /\ os[j] # Never
    BY <1>1, <2>2
  <2>3. CASE j \in D /\ os[j] = Never
    BY <1>1, <1>4, <1>6, <2>3
  <2> QED BY <2>1, <2>2, <2>3
<1> QED BY <1>2, <1>7, <1>8, <1>9 DEF e, o

LEMMA DeathKeeps == ASSUME BreakerInv, NEW k \in Keys, RecordDeath(k) PROVE BreakerInv'
<1>1. ClockInv /\ now \in Nat /\ now' = now /\ TablesInv'
  BY DeathWrites DEF BreakerInv, ClockInv
<1>2. ClockInv'
  BY <1>1 DEF ClockInv
<1>3. \A j \in Keys : RecordInv(j)
  BY DEF BreakerInv
<1> DEFINE h == history[k]
           g == Append(h, now)
           e == Append(Recent(deaths[k]), now)
           o == IF openedAt[k] = Never /\ Len(e) >= FastDeathLimit THEN now ELSE openedAt[k]
<1>4. /\ IsHistory(g, now) /\ HasFirst(g) /\ IsRecord(g, e, now) /\ o = TripOf(g)
  <2>1. IsHistory(h, now) /\ HasFirst(h) /\ IsRecord(h, deaths[k], now) /\ openedAt[k] = TripOf(h)
    BY <1>3 DEF RecordInv
  <2>2. IsHistory(g, now) /\ IsRecord(g, e, now)
    BY <1>1, <2>1, DeathRecord
  <2>3. /\ HasFirst(g)
        /\ TripOf(g) = IF TripOf(h) = Never /\ Len(e) >= FastDeathLimit THEN now ELSE TripOf(h)
    BY <1>1, <2>1, DeathTrips
  <2> HIDE DEF g, e, h
  <2> QED BY <2>1, <2>2, <2>3
<1>5. RecordInv(k)'
  <2>1. \/ history'[k] = g /\ deaths'[k] = e /\ openedAt'[k] = o
        \/ history'[k] = <<>> /\ deaths'[k] = <<>> /\ openedAt'[k] = Never
    BY DeathWrites
  <2> HIDE DEF g, e, o
  <2>2. CASE history'[k] = g /\ deaths'[k] = e /\ openedAt'[k] = o
    BY <1>1, <1>4, <2>2, Rewritten
  <2>3. CASE history'[k] = <<>> /\ deaths'[k] = <<>> /\ openedAt'[k] = Never
    BY <1>1, <2>3, CleanRecord, Rewritten
  <2> QED BY <2>1, <2>2, <2>3
<1>6. ASSUME NEW j \in Keys \ {k} PROVE RecordInv(j)'
  <2>1. \/ history'[j] = history[j] /\ deaths'[j] = deaths[j] /\ openedAt'[j] = openedAt[j]
        \/ history'[j] = <<>> /\ deaths'[j] = <<>> /\ openedAt'[j] = Never
        \/ /\ history'[j] = history[j] /\ deaths'[j] = <<>> /\ openedAt'[j] = openedAt[j]
           /\ \A i \in DOMAIN deaths[j] : ~InWindow(deaths[j][i])
    BY DeathWrites
  <2>2. CASE history'[j] = history[j] /\ deaths'[j] = deaths[j] /\ openedAt'[j] = openedAt[j]
    BY <1>1, <1>3, <2>2, SameRecord
  <2>3. CASE history'[j] = <<>> /\ deaths'[j] = <<>> /\ openedAt'[j] = Never
    BY <1>1, <2>3, CleanRecord, Rewritten
  <2>4. CASE /\ history'[j] = history[j] /\ deaths'[j] = <<>> /\ openedAt'[j] = openedAt[j]
             /\ \A i \in DOMAIN deaths[j] : ~InWindow(deaths[j][i])
    <3>1. /\ IsHistory(history[j], now) /\ HasFirst(history[j]) /\ openedAt[j] = TripOf(history[j])
          /\ IsRecord(history[j], deaths[j], now)
      BY <1>3 DEF RecordInv
    <3>2. IsRecord(history[j], <<>>, now)
      BY <1>1, <2>4, <3>1, AgedRecord
    <3> QED BY <1>1, <2>4, <3>1, <3>2, Rewritten
  <2> QED BY <2>1, <2>2, <2>3, <2>4
<1> QED BY <1>1, <1>2, <1>5, <1>6 DEF BreakerInv

LEMMA SlateKeeps ==
  ASSUME BreakerInv, NEW k \in Keys, CleanSlate(k), now' = now, refused' \in [Keys -> BOOLEAN]
  PROVE  BreakerInv'
<1>1. ClockInv' /\ TablesInv'
  BY DEF BreakerInv, ClockInv, TablesInv, CleanSlate
<1>2. RecordInv(k)'
  <2>1. history'[k] = <<>> /\ deaths'[k] = <<>> /\ openedAt'[k] = Never /\ now' \in Nat
    BY DEF BreakerInv, ClockInv, TablesInv, CleanSlate
  <2> QED BY <2>1, CleanRecord, Rewritten
<1>3. ASSUME NEW j \in Keys \ {k} PROVE RecordInv(j)'
  <2>1. history'[j] = history[j] /\ deaths'[j] = deaths[j] /\ openedAt'[j] = openedAt[j]
    BY DEF BreakerInv, TablesInv, CleanSlate
  <2> QED BY <2>1, SameRecord DEF BreakerInv
<1> QED BY <1>1, <1>2, <1>3 DEF BreakerInv

LEMMA TickKeeps == BreakerInv /\ Tick => BreakerInv'
<1> SUFFICES ASSUME BreakerInv, Tick PROVE BreakerInv'
  OBVIOUS
<1>1. now \in Nat /\ now' = now + 1 /\ UNCHANGED <<tracked, deaths, openedAt, refused, history>>
  BY DEF BreakerInv, ClockInv, Tick
<1>2. ClockInv' /\ TablesInv'
  BY BreakerAssumption DEF BreakerInv, ClockInv, TablesInv, Tick
<1>3. ASSUME NEW k \in Keys PROVE RecordInv(k)'
  <2>1. /\ IsHistory(history[k], now) /\ HasFirst(history[k]) /\ openedAt[k] = TripOf(history[k])
        /\ IsRecord(history[k], deaths[k], now)
    BY DEF BreakerInv, RecordInv
  <2>2. IsHistory(history[k], now') /\ IsRecord(history[k], deaths[k], now')
    BY <1>1, <2>1, OlderRecord
  <2> QED BY <1>1, <2>1, <2>2, Rewritten
<1> QED BY <1>2, <1>3 DEF BreakerInv

LEMMA BreakerStep == BreakerInv /\ [Next]_vars => BreakerInv'
<1> SUFFICES ASSUME BreakerInv, [Next]_vars PROVE BreakerInv'
  OBVIOUS
<1>1. ASSUME UNCHANGED <<now, tracked, deaths, openedAt, history>>, refused' \in [Keys -> BOOLEAN]
      PROVE  BreakerInv'
  <2>1. ClockInv' /\ TablesInv'
    BY <1>1 DEF BreakerInv, ClockInv, TablesInv
  <2>2. ASSUME NEW k \in Keys PROVE RecordInv(k)'
    BY <1>1, SameRecord DEF BreakerInv
  <2> QED BY <2>1, <2>2 DEF BreakerInv
<1>2. ASSUME NEW k \in Keys, RecordHealthy(k) PROVE BreakerInv'
  <2>1. CleanSlate(k) /\ now' = now /\ refused' \in [Keys -> BOOLEAN]
    BY <1>2 DEF RecordHealthy, BreakerInv, TablesInv
  <2> QED BY <2>1, SlateKeeps
<1>3. ASSUME NEW k \in Keys, Allow(k) PROVE BreakerInv'
  <2>1. now' = now /\ (CleanSlate(k) \/ UNCHANGED <<tracked, deaths, openedAt, history>>)
    BY <1>3 DEF Allow
  <2>2. refused' \in [Keys -> BOOLEAN]
    <3> DEFINE b == Open(k) /\ ~CooledDown(k)
    <3>1. refused' = [refused EXCEPT ![k] = b] /\ refused \in [Keys -> BOOLEAN]
      BY <1>3 DEF Allow, BreakerInv, TablesInv
    <3>2. b \in BOOLEAN
      OBVIOUS
    <3> HIDE DEF b
    <3> QED BY <3>1, <3>2
  <2> QED BY <1>1, <2>1, <2>2, SlateKeeps
<1>4. CASE UNCHANGED vars
  <2>1. UNCHANGED <<now, tracked, deaths, openedAt, history>> /\ refused' \in [Keys -> BOOLEAN]
    BY <1>4 DEF vars, BreakerInv, TablesInv
  <2> QED BY <1>1, <2>1
<1> QED BY <1>2, <1>3, <1>4, TickKeeps, DeathKeeps DEF Next

LEMMA TripTimeIs == \A k : TripTime(k) = TripOf(history[k])
BY DEF TripTime, TripOf, Trips

\* A key trips exactly at the fast death that is the FAST_DEATH_LIMIT-th
\* within one window, though record_death and _prune drop what has aged out.
THEOREM TripsExactly == Spec => []TripExact
<1>1. BreakerInv => TripExact
  BY TripTimeIs DEF BreakerInv, RecordInv, TripExact
<1> QED BY <1>1, BreakerInit, BreakerStep, PTL DEF Spec

\* The action of RefusesWhileCooling, by name.
AnswersByTrip ==
  \A k \in Keys :
    refused'[k] # refused[k] =>
      refused'[k] = (TripTime(k) # Never /\ now < TripTime(k) + Cooldown)

LEMMA AnswerStep == BreakerInv /\ [Next]_vars => [AnswersByTrip]_vars
<1> SUFFICES ASSUME BreakerInv, Next PROVE AnswersByTrip
  OBVIOUS
<1>1. CASE UNCHANGED refused
  BY <1>1 DEF AnswersByTrip
<1>2. ASSUME NEW k \in Keys, Allow(k) PROVE AnswersByTrip
  <2>1. refused \in [Keys -> BOOLEAN] /\ openedAt[k] = TripTime(k) /\ now \in Nat /\ Cooldown \in Nat
        /\ openedAt[k] \in Nat
    <3>1. openedAt[k] = TripOf(history[k]) /\ IsHistory(history[k], now) /\ HasFirst(history[k])
      BY DEF BreakerInv, RecordInv
    <3>2. TripOf(history[k]) \in Nat
      <4>1. CASE Trips(history[k]) = {}
        BY <4>1, BreakerAssumption DEF TripOf, Never
      <4>2. CASE Trips(history[k]) # {}
        <5> DEFINE c == CHOOSE i \in Trips(history[k]) : \A j \in Trips(history[k]) : i <= j
        <5>1. c \in Trips(history[k])
          BY <3>1, <4>2 DEF HasFirst
        <5> HIDE DEF c
        <5>2. history[k][c] \in Nat
          BY <3>1, <5>1 DEF Trips, IsHistory
        <5> QED BY <4>2, <5>2 DEF TripOf, c
      <4> QED BY <4>1, <4>2
    <3> QED BY <3>1, <3>2, TripTimeIs, BreakerAssumption DEF BreakerInv, TablesInv, ClockInv
  <2> DEFINE b == Open(k) /\ ~CooledDown(k)
  <2>2. refused' = [refused EXCEPT ![k] = b]
    BY <1>2 DEF Allow
  <2>3. b = (TripTime(k) # Never /\ now < TripTime(k) + Cooldown)
    BY <2>1 DEF Open, CooledDown
  <2> HIDE DEF b
  <2>4. \A j \in Keys : refused'[j] = IF j = k THEN b ELSE refused[j]
    BY <2>1, <2>2
  <2> QED BY <2>3, <2>4 DEF AnswersByTrip
<1>3. UNCHANGED refused \/ \E k \in Keys : Allow(k)
  BY DEF Next, Tick, RecordDeath, RecordHealthy
<1> QED BY <1>1, <1>2, <1>3

\* allow answers by the trip alone: refused until the cool-down is over,
\* counted from the death that tripped the key, and never otherwise.
THEOREM RefusesByTrip == Spec => RefusesWhileCooling
<1> QED BY BreakerInit, BreakerStep, AnswerStep, PTL DEF Spec, RefusesWhileCooling, AnswersByTrip

(***************************************************************************)
(* The breaker implements SpawnBreaker.                                    *)
(***************************************************************************)
Seen == [k \in Keys |-> [recent |-> Len(deaths[k]), open |-> Open(k)]]

LEMMA SeenDeath == ASSUME BreakerInv, NEW k \in Keys, RecordDeath(k) PROVE Abstract!RecordDeath(k)
<1> DEFINE e == Append(Recent(deaths[k]), now)
           o == IF openedAt[k] = Never /\ Len(e) >= FastDeathLimit THEN now ELSE openedAt[k]
           s == [recent |-> Len(e), open |-> o # Never]
           F == { j \in Keys : deaths'[j] = <<>> /\ openedAt'[j] = Never }
<1>1. /\ (deaths'[k] = e /\ openedAt'[k] = o) \/ k \in F
      /\ \A j \in Keys \ {k} : (deaths'[j] = deaths[j] /\ openedAt'[j] = openedAt[j]) \/ j \in F
  <2>1. \/ deaths'[k] = e /\ openedAt'[k] = o
        \/ deaths'[k] = <<>> /\ openedAt'[k] = Never
    BY DeathWrites
  <2>2. ASSUME NEW j \in Keys \ {k}
        PROVE  \/ deaths'[j] = deaths[j] /\ openedAt'[j] = openedAt[j]
               \/ deaths'[j] = <<>> /\ openedAt'[j] = Never
    <3>1. \/ history'[j] = history[j] /\ deaths'[j] = deaths[j] /\ openedAt'[j] = openedAt[j]
          \/ history'[j] = <<>> /\ deaths'[j] = <<>> /\ openedAt'[j] = Never
          \/ /\ history'[j] = history[j] /\ deaths'[j] = <<>> /\ openedAt'[j] = openedAt[j]
             /\ openedAt[j] = Never
      BY DeathWrites
    <3> QED BY <3>1
  <2>3. \A j \in Keys : deaths'[j] = <<>> /\ openedAt'[j] = Never => j \in F
    OBVIOUS
  <2> HIDE DEF e, o, F
  <2> QED BY <2>1, <2>2, <2>3
<1>2. Len(e) \in 1..(Len(deaths[k]) + 1)
  BY DeathRecord DEF BreakerInv, RecordInv, ClockInv
<1>3. now \in Nat /\ now # Never
  BY BreakerAssumption DEF BreakerInv, ClockInv, Never
<1> HIDE DEF e
<1>4. (o # Never) = (openedAt[k] # Never \/ Len(e) >= FastDeathLimit)
  BY <1>3
<1>5. s \in Abstract!AfterDeath(Seen[k])
  <2>1. Seen[k] = [recent |-> Len(deaths[k]), open |-> openedAt[k] # Never]
    BY DEF Seen, Open
  <2>2. (o # Never) = (Seen[k].open \/ Len(e) >= FastDeathLimit)
    <3>1. Seen[k].open = (openedAt[k] # Never)
      BY <2>1
    <3> HIDE DEF o
    <3> QED BY <1>4, <3>1
  <2>3. Len(e) \in 1..(Seen[k].recent + 1)
    BY <1>2, <2>1
  <2> HIDE DEF o
  <2> QED BY <2>2, <2>3 DEF Abstract!AfterDeath
<1> HIDE DEF o
<1>6. \A j \in Keys : Seen'[j] = IF j \in F THEN Abstract!Clear ELSE IF j = k THEN s ELSE Seen[j]
  <2> TAKE j \in Keys
  <2>0. Seen'[j] = [recent |-> Len(deaths'[j]), open |-> openedAt'[j] # Never]
    BY DEF Seen, Open, Never
  <2>1. CASE j \in F
    <3>1. Len(deaths'[j]) = 0 /\ openedAt'[j] = Never
      BY <2>1
    <3> QED BY <2>0, <2>1, <3>1 DEF Abstract!Clear
  <2>2. CASE j \notin F /\ j = k
    BY <1>1, <2>0, <2>2
  <2>3. CASE j \notin F /\ j # k
    <3>1. Seen[j] = [recent |-> Len(deaths[j]), open |-> openedAt[j] # Never]
      BY DEF Seen, Open
    <3> QED BY <1>1, <2>0, <2>3, <3>1
  <2> QED BY <2>1, <2>2, <2>3
<1> HIDE DEF s, F
<1>7. Seen' = [j \in Keys |-> IF j \in F THEN Abstract!Clear ELSE IF j = k THEN s ELSE Seen[j]]
  BY <1>6 DEF Seen
<1>8. F \in SUBSET Keys
  BY DEF F
<1> QED BY <1>5, <1>7, <1>8 DEF Abstract!RecordDeath, Seen
LEMMA SeenSlate ==
  ASSUME BreakerInv, NEW k \in Keys, CleanSlate(k)
  PROVE  Abstract!Forget(k)
<1>1. \A j \in Keys : Seen'[j] = IF j = k THEN Abstract!Clear ELSE Seen[j]
  <2> TAKE j \in Keys
  <2>1. /\ Seen'[j] = [recent |-> Len(deaths'[j]), open |-> openedAt'[j] # Never]
        /\ Seen[j] = [recent |-> Len(deaths[j]), open |-> openedAt[j] # Never]
    BY DEF Seen, Open, Never
  <2>2. CASE j = k
    <3>1. deaths'[j] = <<>> /\ openedAt'[j] = Never
      BY <2>2 DEF CleanSlate, BreakerInv, TablesInv
    <3>2. Len(deaths'[j]) = 0
      BY <3>1
    <3> QED BY <2>1, <2>2, <3>1, <3>2 DEF Abstract!Clear
  <2>3. CASE j # k
    <3>1. deaths'[j] = deaths[j] /\ openedAt'[j] = openedAt[j]
      BY <2>3 DEF CleanSlate, BreakerInv, TablesInv
    <3> QED BY <2>1, <2>3, <3>1
  <2> QED BY <2>2, <2>3
<1>2. Seen' = [Seen EXCEPT ![k] = Abstract!Clear]
  BY <1>1 DEF Seen
<1> QED BY <1>2 DEF Abstract!Forget, Seen

LEMMA SeenStep == BreakerInv /\ [Next]_vars => [Abstract!Next]_Seen
<1> SUFFICES ASSUME BreakerInv, [Next]_vars PROVE Abstract!Next \/ Seen' = Seen
  OBVIOUS
<1>1. CASE UNCHANGED <<deaths, openedAt>>
  BY <1>1 DEF Seen, Open, Never
<1>2. ASSUME NEW k \in Keys, RecordDeath(k) PROVE Abstract!Next
  BY <1>2, SeenDeath DEF Abstract!Next
<1>3. ASSUME NEW k \in Keys, CleanSlate(k) PROVE Abstract!Next
  BY <1>3, SeenSlate DEF Abstract!Next
<1>4. \/ UNCHANGED <<deaths, openedAt>>
      \/ \E k \in Keys : RecordDeath(k) \/ CleanSlate(k)
  BY DEF Next, Tick, RecordHealthy, Allow, vars
<1> QED BY <1>1, <1>2, <1>3, <1>4

\* The breaker keeps the promise the backend pool relies on: it never counts
\* more deaths than it was told, trips by their number alone, and forgets a
\* key only altogether.
THEOREM BreakerImplements == Spec => ImplementsBreaker
<1>1. Init => Abstract!Init
  <2> SUFFICES ASSUME Init PROVE Abstract!Init
    OBVIOUS
  <2>1. \A k \in Keys : deaths[k] = <<>> /\ Open(k) = FALSE
    BY DEF Init, Open
  <2>2. Len(<<>>) = 0
    OBVIOUS
  <2> QED BY <2>1, <2>2 DEF Abstract!Init, Abstract!Clear
<1>2. BreakerInv /\ [Next]_vars => [Abstract!Next]_[k \in Keys |-> [recent |-> Len(deaths[k]), open |-> Open(k)]]
  BY SeenStep DEF Seen
<1> QED BY <1>1, <1>2, BreakerInit, BreakerStep, PTL DEF Spec, ImplementsBreaker, Abstract!Spec
=============================================================================
