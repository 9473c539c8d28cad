-------------------------- MODULE WorkerPoolProofs --------------------------
(***************************************************************************)
(* Theorems about the worker pool, for any number of tasks and workers.    *)
(* The invariants are proved one on top of the other:                      *)
(*   PermitInv  what each semaphore knows of the calls, and how many there *)
(*              are at each stage;                                         *)
(*   WorkerInv  that no two places hold the same worker, and what session  *)
(*              the worker of each stage has;                              *)
(*   CountInv   that _created counts the workers in service;               *)
(*   KnownInv   that every live session is some place's worker.            *)
(* The last part shows that the pool implements WorkerLeases.              *)
(***************************************************************************)
EXTENDS WorkerPool, FiniteSetTheorems, SequenceTheorems, TLAPS

(***************************************************************************)
(* Semaphores.  A semaphore is in order if nobody waits in it twice; Queue *)
(* are the tasks it knows, Free the permits nobody holds.                  *)
(***************************************************************************)
Semaphores == [value : Nat, waiters : Seq(Tasks), woken : SUBSET Tasks]

InOrder(s) ==
  /\ s \in Semaphores
  /\ IsInjective(s.waiters)
  /\ ToSet(s.waiters) \cap s.woken = {}

Queue(s) == ToSet(s.waiters) \cup s.woken

Free(s) == s.value + Cardinality(s.woken)

LEMMA FiniteTasks == \A S \in SUBSET Tasks : IsFiniteSet(S) /\ Cardinality(S) \in Nat
BY SetsAssumption, FS_Subset, FS_CardinalityType

\* A queue without its head.
LEMMA HeadLeaves ==
  ASSUME NEW S, NEW q \in Seq(S), IsInjective(q), q # <<>>
  PROVE  /\ Tail(q) \in Seq(S) /\ IsInjective(Tail(q))
         /\ Head(q) \in S
         /\ ToSet(Tail(q)) = ToSet(q) \ {Head(q)}
         /\ Head(q) \in ToSet(q)
<1>1. /\ Len(q) \in Nat \ {0} /\ Tail(q) \in Seq(S)
      /\ DOMAIN q = 1..Len(q) /\ DOMAIN Tail(q) = 1..(Len(q) - 1)
      /\ \A i \in 1..(Len(q) - 1) : Tail(q)[i] = q[i + 1]
      /\ Head(q) = q[1] /\ q[1] \in S
  OBVIOUS
<1>2. IsInjective(Tail(q))
  <2> SUFFICES ASSUME NEW i \in 1..(Len(q) - 1), NEW j \in 1..(Len(q) - 1), q[i + 1] = q[j + 1]
               PROVE  i = j
    BY <1>1 DEF IsInjective
  <2>1. i + 1 \in DOMAIN q /\ j + 1 \in DOMAIN q
    BY <1>1
  <2> QED BY <2>1 DEF IsInjective
<1>3. ToSet(Tail(q)) = ToSet(q) \ {Head(q)}
  <2>1. ASSUME NEW x \in ToSet(Tail(q)) PROVE x \in ToSet(q) \ {Head(q)}
    <3>1. PICK i \in 1..(Len(q) - 1) : x = q[i + 1]
      BY <1>1 DEF ToSet
    <3>2. i + 1 \in DOMAIN q /\ 1 \in DOMAIN q /\ i + 1 # 1
      BY <1>1
    <3> QED BY <1>1, <3>1, <3>2 DEF ToSet, IsInjective
  <2>2. ASSUME NEW x \in ToSet(q) \ {Head(q)} PROVE x \in ToSet(Tail(q))
    <3>1. PICK i \in 1..Len(q) : x = q[i]
      BY <1>1 DEF ToSet
    <3>2. i - 1 \in 1..(Len(q) - 1) /\ q[(i - 1) + 1] = x
      BY <1>1, <3>1
    <3> QED BY <1>1, <3>2 DEF ToSet
  <2> QED BY <2>1, <2>2
<1>4. Head(q) \in ToSet(q)
  <2>1. 1 \in DOMAIN q
    BY <1>1
  <2> QED BY <1>1, <2>1 DEF ToSet
<1> QED BY <1>1, <1>2, <1>3, <1>4

\* A queue with one more at its end.
LEMMA LastJoins ==
  ASSUME NEW S, NEW q \in Seq(S), IsInjective(q), NEW x \in S \ ToSet(q)
  PROVE  /\ Append(q, x) \in Seq(S) /\ IsInjective(Append(q, x))
         /\ ToSet(Append(q, x)) = ToSet(q) \cup {x}
         /\ Len(Append(q, x)) = Len(q) + 1
<1>1. Len(q) \in Nat /\ DOMAIN q = 1..Len(q) /\ DOMAIN Append(q, x) = 1..(Len(q) + 1)
      /\ Append(q, x) \in Seq(S) /\ Len(Append(q, x)) = Len(q) + 1
      /\ \A i \in 1..Len(q) : Append(q, x)[i] = q[i]
      /\ Append(q, x)[Len(q) + 1] = x
  OBVIOUS
<1>2. IsInjective(Append(q, x))
  BY <1>1 DEF IsInjective, ToSet
<1>3. ToSet(Append(q, x)) = ToSet(q) \cup {x}
  BY <1>1 DEF ToSet
<1> QED BY <1>1, <1>2, <1>3

\* The permits of one more task, and of one less.
LEMMA OneMoreTask ==
  ASSUME NEW S \in SUBSET Tasks, NEW t \in Tasks \ S
  PROVE  Cardinality(S \cup {t}) = Cardinality(S) + 1
BY FiniteTasks, FS_AddElement

LEMMA OneTaskLess ==
  ASSUME NEW S \in SUBSET Tasks, NEW t \in S
  PROVE  Cardinality(S \ {t}) = Cardinality(S) - 1
BY FiniteTasks, FS_RemoveElement

LEMMA WakeNextKeeps ==
  ASSUME NEW s, InOrder(s), s.value > 0
  PROVE  /\ InOrder(WakeNext(s))
         /\ Queue(WakeNext(s)) = Queue(s)
         /\ ToSet(WakeNext(s).waiters) \subseteq ToSet(s.waiters)
         /\ Free(WakeNext(s)) = Free(s)
<1>1. CASE s.waiters = <<>>
  BY <1>1 DEF WakeNext
<1>2. CASE s.waiters # <<>>
  <2> DEFINE q == s.waiters  r == WakeNext(s)
  <2>1. q \in Seq(Tasks) /\ IsInjective(q) /\ s.woken \subseteq Tasks /\ s.value \in Nat
    BY DEF InOrder, Semaphores
  <2>2. /\ Tail(q) \in Seq(Tasks) /\ IsInjective(Tail(q)) /\ Head(q) \in Tasks
        /\ ToSet(Tail(q)) = ToSet(q) \ {Head(q)} /\ Head(q) \in ToSet(q)
    BY <1>2, <2>1, HeadLeaves
  <2>3. r = [value |-> s.value - 1, waiters |-> Tail(q), woken |-> s.woken \cup {Head(q)}]
    BY <1>2 DEF WakeNext
  <2>4. r.value = s.value - 1 /\ r.waiters = Tail(q) /\ r.woken = s.woken \cup {Head(q)}
    BY <2>3
  <2>5. ToSet(q) \cap s.woken = {}
    BY DEF InOrder
  <2>6. r \in Semaphores
    BY <2>1, <2>2, <2>3 DEF Semaphores
  <2>7. Cardinality(r.woken) = Cardinality(s.woken) + 1
    BY <2>1, <2>2, <2>4, <2>5, OneMoreTask
  <2>8. Cardinality(s.woken) \in Nat
    BY <2>1, FiniteTasks
  <2> HIDE DEF q, r
  <2>9. InOrder(r) /\ Queue(r) = Queue(s) /\ ToSet(r.waiters) \subseteq ToSet(q)
    BY <2>2, <2>4, <2>5, <2>6 DEF InOrder, Queue, q
  <2>10. Free(r) = Free(s)
    BY <2>1, <2>4, <2>7, <2>8 DEF Free
  <2> QED BY <2>9, <2>10 DEF q, r
<1> QED BY <1>1, <1>2

\* A permit comes back.
LEMMA ReleasedKeeps ==
  ASSUME NEW s, InOrder(s)
  PROVE  /\ InOrder(Released(s))
         /\ Queue(Released(s)) = Queue(s)
         /\ ToSet(Released(s).waiters) \subseteq ToSet(s.waiters)
         /\ Free(Released(s)) = Free(s) + 1
<1> DEFINE r == [s EXCEPT !.value = @ + 1]
<1>1. r.value = s.value + 1 /\ r.waiters = s.waiters /\ r.woken = s.woken /\ s.value \in Nat
      /\ s.woken \subseteq Tasks /\ r \in Semaphores
  BY DEF InOrder, Semaphores
<1>2. InOrder(r) /\ Queue(r) = Queue(s) /\ r.value > 0
  BY <1>1 DEF InOrder, Queue
<1>3. Cardinality(s.woken) \in Nat
  BY <1>1, FiniteTasks
<1>4. Free(r) = Free(s) + 1
  BY <1>1, <1>3 DEF Free
<1>5. Released(s) = WakeNext(r)
  BY DEF Released
<1> HIDE DEF r
<1> QED BY <1>1, <1>2, <1>4, <1>5, WakeNextKeeps

\* A woken waiter leaves, with its permit or without.
LEMMA WokenLeaves ==
  ASSUME NEW s, InOrder(s), NEW t \in s.woken, NEW r, r = [s EXCEPT !.woken = @ \ {t}]
  PROVE  /\ InOrder(r) /\ Queue(r) = Queue(s) \ {t} /\ r.waiters = s.waiters
         /\ Free(r) = Free(s) - 1 /\ t \notin Queue(r)
<1>1. r.value = s.value /\ r.waiters = s.waiters /\ r.woken = s.woken \ {t}
      /\ s.value \in Nat /\ s.woken \subseteq Tasks /\ r \in Semaphores
  BY DEF InOrder, Semaphores
<1>2. ToSet(s.waiters) \cap s.woken = {}
  BY DEF InOrder
<1>3. Cardinality(r.woken) = Cardinality(s.woken) - 1 /\ Cardinality(s.woken) \in Nat
  BY <1>1, OneTaskLess, FiniteTasks
<1> QED BY <1>1, <1>2, <1>3 DEF InOrder, Queue, Free

LEMMA ResumedKeeps ==
  ASSUME NEW s, InOrder(s), NEW t \in s.woken
  PROVE  /\ InOrder(Resumed(s, t))
         /\ Queue(Resumed(s, t)) = Queue(s) \ {t}
         /\ ToSet(Resumed(s, t).waiters) \subseteq ToSet(s.waiters)
         /\ Free(Resumed(s, t)) = Free(s) - 1
<1> DEFINE r == [s EXCEPT !.woken = @ \ {t}]
<1>1. InOrder(r) /\ Queue(r) = Queue(s) \ {t} /\ r.waiters = s.waiters /\ Free(r) = Free(s) - 1
  BY WokenLeaves
<1>2. Resumed(s, t) = IF r.value > 0 THEN WakeNext(r) ELSE r
  BY DEF Resumed
<1> HIDE DEF r
<1> QED BY <1>1, <1>2, WakeNextKeeps

LEMMA DeclinedKeeps ==
  ASSUME NEW s, InOrder(s), NEW t \in s.woken
  PROVE  /\ InOrder(Declined(s, t))
         /\ Queue(Declined(s, t)) = Queue(s) \ {t}
         /\ ToSet(Declined(s, t).waiters) \subseteq ToSet(s.waiters)
         /\ Free(Declined(s, t)) = Free(s)
<1> DEFINE r == [s EXCEPT !.woken = @ \ {t}]
<1>1. InOrder(r) /\ Queue(r) = Queue(s) \ {t} /\ r.waiters = s.waiters /\ Free(r) = Free(s) - 1
  BY WokenLeaves
<1>2. Declined(s, t) = Released(r)
  BY DEF Declined
<1>3. Free(s) \in Int
  BY FiniteTasks DEF InOrder, Semaphores, Free
<1> HIDE DEF r
<1> QED BY <1>1, <1>2, <1>3, ReleasedKeeps

LEMMA AcquiredKeeps ==
  ASSUME NEW s, InOrder(s), Available(s)
  PROVE  /\ InOrder(Acquired(s)) /\ Queue(Acquired(s)) = Queue(s)
         /\ Acquired(s).waiters = s.waiters
         /\ Free(Acquired(s)) = Free(s) - 1
<1> DEFINE r == Acquired(s)
<1>1. r.value = s.value - 1 /\ r.waiters = s.waiters /\ r.woken = s.woken
      /\ s.value \in Nat /\ s.value > 0 /\ s.woken \subseteq Tasks /\ r \in Semaphores
  BY DEF InOrder, Semaphores, Acquired, Available
<1>2. Cardinality(s.woken) \in Nat
  BY <1>1, FiniteTasks
<1> HIDE DEF r
<1>3. InOrder(r) /\ Queue(r) = Queue(s) /\ r.waiters = s.waiters /\ Free(r) = Free(s) - 1
  BY <1>1, <1>2 DEF InOrder, Queue, Free
<1> QED BY <1>3 DEF r

LEMMA AwaitedKeeps ==
  ASSUME NEW s, InOrder(s), NEW t \in Tasks \ Queue(s)
  PROVE  /\ InOrder(Awaited(s, t)) /\ Queue(Awaited(s, t)) = Queue(s) \cup {t}
         /\ ToSet(Awaited(s, t).waiters) = ToSet(s.waiters) \cup {t}
         /\ Free(Awaited(s, t)) = Free(s)
<1> DEFINE q == s.waiters  r == Awaited(s, t)
<1>0. s \in Semaphores /\ q \in Seq(Tasks) /\ IsInjective(q) /\ ToSet(q) \cap s.woken = {}
  BY DEF InOrder, Semaphores
<1>1. r.value = s.value /\ r.waiters = Append(q, t) /\ r.woken = s.woken
      /\ q \in Seq(Tasks) /\ IsInjective(q) /\ r \in Semaphores
      /\ ToSet(q) \cap s.woken = {}
  <2>1. Append(q, t) \in Seq(Tasks)
    BY <1>0
  <2> HIDE DEF q
  <2>2. r = [s EXCEPT !.waiters = Append(q, t)]
    BY DEF Awaited, q
  <2> QED BY <1>0, <2>1, <2>2 DEF Semaphores
<1>3. t \notin ToSet(q) /\ t \notin s.woken
  BY DEF Queue
<1> HIDE DEF q, r
<1>4. IsInjective(Append(q, t)) /\ ToSet(Append(q, t)) = ToSet(q) \cup {t}
  BY <1>1, <1>3, LastJoins
<1>6. InOrder(r) /\ Queue(r) = Queue(s) \cup {t} /\ ToSet(r.waiters) = ToSet(q) \cup {t}
      /\ Free(r) = Free(s)
  BY <1>1, <1>3, <1>4 DEF InOrder, Queue, Free, q
<1> QED BY <1>6 DEF q, r

LEMMA UnawaitedKeeps ==
  ASSUME NEW s, InOrder(s), NEW t
  PROVE  /\ InOrder(Unawaited(s, t))
         /\ Queue(Unawaited(s, t)) \subseteq Queue(s)
         /\ Unawaited(s, t).woken = s.woken
         /\ ToSet(Unawaited(s, t).waiters) = ToSet(s.waiters) \ {t}
         /\ Free(Unawaited(s, t)) = Free(s)
<1> DEFINE q == s.waiters  r == Unawaited(s, t)
<1>1. q \in Seq(Tasks) /\ IsInjective(q) /\ s \in Semaphores /\ ToSet(q) \cap s.woken = {}
      /\ Len(q) \in Nat /\ DOMAIN q = 1..Len(q)
  BY DEF InOrder, Semaphores
<1>2. CASE ~Contains(q, t)
  <2>1. t \notin ToSet(q)
    BY <1>1, <1>2 DEF Contains, ToSet
  <2> QED BY <1>2, <2>1 DEF Unawaited, Queue
<1>3. CASE Contains(q, t)
  <2> DEFINE i == CHOOSE i \in 1..Len(q) : q[i] = t
             p == RemoveAt(q, i)
  <2>1. i \in 1..Len(q) /\ q[i] = t
    BY <1>3 DEF Contains
  <2>2. r = [s EXCEPT !.waiters = p]
    BY <1>3 DEF Unawaited
  <2> HIDE DEF i, r
  <2>3. /\ p \in Seq(Tasks) /\ Len(p) = Len(q) - 1 /\ DOMAIN p = 1..(Len(q) - 1)
        /\ \A j \in 1..(Len(q) - 1) : p[j] = IF j < i THEN q[j] ELSE q[j + 1]
    <3>1. /\ SubSeq(q, 1, i - 1) \in Seq(Tasks) /\ Len(SubSeq(q, 1, i - 1)) = i - 1
          /\ \A j \in 1..(i - 1) : SubSeq(q, 1, i - 1)[j] = q[j]
      BY <1>1, <2>1
    <3>2. /\ SubSeq(q, i + 1, Len(q)) \in Seq(Tasks) /\ Len(SubSeq(q, i + 1, Len(q))) = Len(q) - i
          /\ \A j \in 1..(Len(q) - i) : SubSeq(q, i + 1, Len(q))[j] = q[i + j]
      BY <1>1, <2>1
    <3> DEFINE a == SubSeq(q, 1, i - 1)  b == SubSeq(q, i + 1, Len(q))
    <3>3. p = a \o b
      BY DEF RemoveAt
    <3> HIDE DEF a, b, p
    <3>4. a \in Seq(Tasks) /\ b \in Seq(Tasks) /\ Len(a) = i - 1 /\ Len(b) = Len(q) - i
      BY <3>1, <3>2 DEF a, b
    <3>5. /\ p \in Seq(Tasks) /\ Len(p) = Len(q) - 1
          /\ \A j \in 1..(Len(q) - 1) : p[j] = IF j <= Len(a) THEN a[j] ELSE b[j - Len(a)]
      <4>1. /\ p \in Seq(Tasks) /\ Len(p) = Len(a) + Len(b)
            /\ \A j \in 1..(Len(a) + Len(b)) : p[j] = IF j <= Len(a) THEN a[j] ELSE b[j - Len(a)]
        BY <3>3, <3>4, ConcatProperties
      <4>2. Len(a) + Len(b) = Len(q) - 1
        BY <1>1, <2>1, <3>4
      <4> QED BY <4>1, <4>2
    <3>6. \A j \in 1..(Len(q) - 1) : p[j] = IF j < i THEN q[j] ELSE q[j + 1]
      <4> TAKE j \in 1..(Len(q) - 1)
      <4>1. CASE j < i
        BY <1>1, <2>1, <3>1, <3>4, <3>5, <4>1 DEF a
      <4>2. CASE ~(j < i)
        <5>1. j - (i - 1) \in 1..(Len(q) - i) /\ i + (j - (i - 1)) = j + 1
          BY <1>1, <2>1, <4>2
        <5> QED BY <1>1, <2>1, <3>2, <3>4, <3>5, <4>2, <5>1 DEF b
      <4> QED BY <4>1, <4>2
    <3> QED BY <1>1, <2>1, <3>5, <3>6
  <2> HIDE DEF p
  <2>4. IsInjective(p)
    <3> SUFFICES ASSUME NEW j \in 1..(Len(q) - 1), NEW k \in 1..(Len(q) - 1), p[j] = p[k]
                 PROVE  j = k
      BY <2>3 DEF IsInjective
    <3> DEFINE Old(m) == IF m < i THEN m ELSE m + 1
    <3>1. \A m \in 1..(Len(q) - 1) : Old(m) \in 1..Len(q) /\ p[m] = q[Old(m)]
      BY <1>1, <2>1, <2>3
    <3>2. Old(j) = Old(k)
      <4> HIDE DEF Old
      <4> QED BY <1>1, <3>1 DEF IsInjective
    <3> QED BY <1>1, <2>1, <3>2
  <2>5. ToSet(p) = ToSet(q) \ {t}
    <3>1. ASSUME NEW x \in ToSet(p) PROVE x \in ToSet(q) \ {t}
      <4>1. PICK j \in 1..(Len(q) - 1) : x = p[j]
        BY <2>3 DEF ToSet
      <4> DEFINE k == IF j < i THEN j ELSE j + 1
      <4>2. k \in DOMAIN q /\ i \in DOMAIN q /\ k # i /\ x = q[k]
        BY <1>1, <2>1, <2>3, <4>1
      <4> QED BY <2>1, <4>2 DEF ToSet, IsInjective, InOrder
    <3>2. ASSUME NEW x \in ToSet(q) \ {t} PROVE x \in ToSet(p)
      <4>1. PICK k \in 1..Len(q) : x = q[k]
        BY <1>1 DEF ToSet
      <4>2. k # i
        BY <2>1, <4>1
      <4> DEFINE j == IF k < i THEN k ELSE k - 1
      <4>3. j \in 1..(Len(q) - 1) /\ k = (IF j < i THEN j ELSE j + 1)
        BY <1>1, <2>1, <4>2
      <4>4. p[j] = x
        <5> HIDE DEF j
        <5> QED BY <2>3, <4>1, <4>3
      <4> QED BY <2>3, <4>3, <4>4 DEF ToSet
    <3> QED BY <3>1, <3>2
  <2>6. r.value = s.value /\ r.waiters = p /\ r.woken = s.woken /\ r \in Semaphores
    BY <1>1, <2>2, <2>3 DEF Semaphores
  <2>7. InOrder(r) /\ Queue(r) \subseteq Queue(s) /\ Free(r) = Free(s)
    BY <1>1, <2>4, <2>5, <2>6 DEF InOrder, Queue, Free
  <2> QED BY <2>5, <2>6, <2>7 DEF r
<1> QED BY <1>2, <1>3

-----------------------------------------------------------------------------
(***************************************************************************)
(* Permits.  PermitsConserved is not inductive.  It holds because a call   *)
(* is known to a semaphore only while it waits there, and once at most,    *)
(* and because a cancelled waiter has left the queue at once.              *)
(***************************************************************************)
Holding == Stages \ {"out", "waiting"}

SemaInv(s, waiting, holding, max) ==
  /\ InOrder(s)
  /\ Queue(s) \subseteq waiting
  /\ cancelReq \cap ToSet(s.waiters) = {}
  /\ Free(s) + Cardinality(holding) = max

TaskInv == SemaInv(taskSema, At({"waiting"}), At(Holding), MaxWorkers)

StartInv == SemaInv(startSema, At({"startWait"}), At({"starting"}), MaxStarting)

CallInv ==
  /\ pc \in [Tasks -> Stages]
  /\ cancelReq \subseteq Tasks
  /\ \A t \in cancelReq : pc[t] # "out"

PermitInv == CallInv /\ TaskInv /\ StartInv

\* A call that goes from one stage to another is counted there instead of here.
LEMMA Moves ==
  ASSUME pc \in [Tasks -> Stages], NEW t \in Tasks, NEW stage \in Stages,
         Goes(t, stage), NEW S
  PROVE  /\ pc' = [pc EXCEPT ![t] = stage] /\ pc' \in [Tasks -> Stages]
         /\ At(S)' = IF stage \in S THEN At(S) \cup {t} ELSE At(S) \ {t}
         /\ Cardinality(At(S)') = Cardinality(At(S)) + (IF stage \in S THEN 1 ELSE 0)
                                    - (IF pc[t] \in S THEN 1 ELSE 0)
         /\ Cardinality(At(S)) \in Nat
<1>1. pc' = [pc EXCEPT ![t] = stage] /\ pc' \in [Tasks -> Stages]
  BY DEF Goes
<1>2. At(S)' = IF stage \in S THEN At(S) \cup {t} ELSE At(S) \ {t}
  BY <1>1 DEF At
<1>3. At(S) \in SUBSET Tasks /\ (t \in At(S) <=> pc[t] \in S)
  BY DEF At
<1>4. Cardinality(At(S)) \in Nat
  BY <1>3, FiniteTasks
<1>5. CASE t \in At(S)
  <2>1. At(S) \cup {t} = At(S)
    BY <1>5
  <2>2. Cardinality(At(S) \ {t}) = Cardinality(At(S)) - 1
    BY <1>3, <1>5, OneTaskLess
  <2>3. Cardinality(At(S)') = IF stage \in S THEN Cardinality(At(S)) ELSE Cardinality(At(S)) - 1
    BY <1>2, <2>1, <2>2
  <2> QED BY <1>1, <1>2, <1>3, <1>4, <1>5, <2>3
<1>6. CASE t \notin At(S)
  <2>1. At(S) \ {t} = At(S)
    BY <1>6
  <2>2. Cardinality(At(S) \cup {t}) = Cardinality(At(S)) + 1
    BY <1>3, <1>6, OneMoreTask
  <2>3. Cardinality(At(S)') = IF stage \in S THEN Cardinality(At(S)) + 1 ELSE Cardinality(At(S))
    BY <1>2, <2>1, <2>2
  <2> QED BY <1>1, <1>2, <1>3, <1>4, <1>6, <2>3
<1> QED BY <1>5, <1>6

\* What a call that gets a worker does to the start semaphore, by where it goes.
StartMoves(t, stage) ==
  \/ /\ stage = "startWait"
     /\ startSema' = Awaited(startSema, t)
  \/ /\ stage = "starting"
     /\ Available(startSema) /\ startSema' = Acquired(startSema)
  \/ stage \in {"resetting", "reaping"} /\ startSema' = startSema

LEMMA ProceedsMoves ==
  ASSUME NEW t, NEW w, Proceeds(t, w)
  PROVE  \E stage \in {"startWait", "starting", "resetting"} :
           Goes(t, stage) /\ StartMoves(t, stage)
BY DEF Proceeds, StartsNew, StartMoves

LEMMA GetsWorkerMoves ==
  ASSUME NEW t, GetsWorker(t)
  PROVE  \E stage \in {"startWait", "starting", "resetting", "reaping"} :
           Goes(t, stage) /\ StartMoves(t, stage)
<1>1. \/ \E w : Proceeds(t, w)
      \/ Goes(t, "reaping") /\ UNCHANGED startSema
  BY DEF GetsWorker
<1> QED BY <1>1, ProceedsMoves DEF StartMoves

\* Such a step conserves the permits for cold starts.
LEMMA StartMovesKeeps ==
  ASSUME PermitInv, NEW t \in Tasks \ cancelReq, pc[t] \notin {"startWait", "starting"},
         NEW stage \in Stages, Goes(t, stage), StartMoves(t, stage), UNCHANGED cancelReq
  PROVE  StartInv'
<1> DEFINE s == startSema
<1>1. /\ pc \in [Tasks -> Stages] /\ InOrder(s) /\ Queue(s) \subseteq At({"startWait"})
      /\ cancelReq \cap ToSet(s.waiters) = {} /\ Free(s) + Cardinality(At({"starting"})) = MaxStarting
  BY DEF PermitInv, CallInv, StartInv, SemaInv
<1>2. /\ At({"startWait"})' = IF stage = "startWait" THEN At({"startWait"}) \cup {t}
                                                     ELSE At({"startWait"}) \ {t}
      /\ Cardinality(At({"starting"})') = Cardinality(At({"starting"})) + (IF stage = "starting" THEN 1 ELSE 0)
      /\ Cardinality(At({"starting"})) \in Nat
  <2>1. At({"startWait"})' = IF stage \in {"startWait"} THEN At({"startWait"}) \cup {t}
                                                       ELSE At({"startWait"}) \ {t}
    BY <1>1, Moves
  <2>2. /\ Cardinality(At({"starting"})') = Cardinality(At({"starting"}))
              + (IF stage \in {"starting"} THEN 1 ELSE 0) - (IF pc[t] \in {"starting"} THEN 1 ELSE 0)
        /\ Cardinality(At({"starting"})) \in Nat
    BY <1>1, Moves
  <2> QED BY <2>1, <2>2
<1>3. t \notin Queue(s)
  BY <1>1 DEF At
<1>4. Free(s) \in Int
  BY <1>1, FiniteTasks DEF Free, InOrder, Semaphores
<1>5. CASE stage = "startWait"
  <2>1. startSema' = Awaited(s, t)
    BY <1>5 DEF StartMoves
  <2>2. /\ InOrder(Awaited(s, t)) /\ Queue(Awaited(s, t)) = Queue(s) \cup {t}
        /\ ToSet(Awaited(s, t).waiters) = ToSet(s.waiters) \cup {t}
        /\ Free(Awaited(s, t)) = Free(s)
    BY <1>1, <1>3, AwaitedKeeps
  <2> QED BY <1>1, <1>2, <1>5, <2>1, <2>2 DEF StartInv, SemaInv
<1>6. CASE stage = "starting"
  <2>1. Available(s) /\ startSema' = Acquired(s)
    BY <1>6 DEF StartMoves
  <2>2. /\ InOrder(Acquired(s)) /\ Queue(Acquired(s)) = Queue(s)
        /\ Acquired(s).waiters = s.waiters /\ Free(Acquired(s)) = Free(s) - 1
    BY <1>1, <2>1, AcquiredKeeps
  <2> QED BY <1>1, <1>2, <1>3, <1>4, <1>6, <2>1, <2>2 DEF StartInv, SemaInv
<1>7. CASE stage \in {"resetting", "reaping"}
  <2>1. startSema' = s
    BY <1>7 DEF StartMoves
  <2> QED BY <1>1, <1>2, <1>3, <1>4, <1>7, <2>1 DEF StartInv, SemaInv
<1> QED BY <1>5, <1>6, <1>7 DEF StartMoves

\* A step that leaves the start semaphore alone.
LEMMA StartSame ==
  ASSUME PermitInv, NEW t \in Tasks, NEW stage \in Stages, Goes(t, stage),
         pc[t] \notin {"startWait", "starting"}, stage \notin {"startWait", "starting"},
         UNCHANGED startSema, cancelReq' \subseteq cancelReq
  PROVE  StartInv'
<1>1. /\ At({"startWait"})' = At({"startWait"}) \ {t}
      /\ Cardinality(At({"starting"})') = Cardinality(At({"starting"}))
  BY Moves DEF PermitInv, CallInv
<1>2. t \notin At({"startWait"})
  BY DEF At
<1> QED BY <1>1, <1>2 DEF PermitInv, StartInv, SemaInv

\* A step of a call within the stages that hold a permit.
LEMMA TaskSame ==
  ASSUME PermitInv, NEW t \in Tasks, NEW stage \in Holding, Goes(t, stage),
         pc[t] \in Holding, UNCHANGED taskSema, cancelReq' \subseteq cancelReq
  PROVE  TaskInv'
<1>1. /\ At({"waiting"})' = At({"waiting"}) \ {t}
      /\ Cardinality(At(Holding)') = Cardinality(At(Holding))
  BY Moves DEF PermitInv, CallInv, Holding
<1>2. t \notin At({"waiting"})
  BY DEF At, Holding
<1> QED BY <1>1, <1>2 DEF PermitInv, TaskInv, SemaInv

\* The end of a call gives its permit back.
LEMMA LeavesKeeps ==
  ASSUME PermitInv, NEW t \in Tasks, pc[t] \in Holding, Leaves(t), cancelReq' \subseteq cancelReq
  PROVE  TaskInv'
<1> DEFINE s == taskSema
<1>1. /\ pc \in [Tasks -> Stages] /\ InOrder(s) /\ Queue(s) \subseteq At({"waiting"})
      /\ cancelReq \cap ToSet(s.waiters) = {} /\ Free(s) + Cardinality(At(Holding)) = MaxWorkers
  BY DEF PermitInv, CallInv, TaskInv, SemaInv
<1>2. /\ At({"waiting"})' = At({"waiting"}) \ {t}
      /\ Cardinality(At(Holding)') = Cardinality(At(Holding)) - 1
      /\ Cardinality(At(Holding)) \in Nat
  BY <1>1, Moves DEF Leaves, Holding, Stages
<1>3. t \notin At({"waiting"})
  BY DEF At, Holding
<1>4. Free(s) \in Int
  BY <1>1, FiniteTasks DEF Free, InOrder, Semaphores
<1>5. /\ taskSema' = Released(s) /\ InOrder(Released(s)) /\ Queue(Released(s)) = Queue(s)
      /\ ToSet(Released(s).waiters) \subseteq ToSet(s.waiters)
      /\ Free(Released(s)) = Free(s) + 1
  BY <1>1, ReleasedKeeps DEF Leaves
<1> QED BY <1>1, <1>2, <1>3, <1>4, <1>5 DEF TaskInv, SemaInv

\* The stages of the calls and the pending cancellations.
LEMMA CallsKeep ==
  ASSUME CallInv, NEW t \in Tasks, NEW stage \in Stages, Goes(t, stage),
         cancelReq' \subseteq cancelReq, stage = "out" => t \notin cancelReq'
  PROVE  CallInv'
BY DEF CallInv, Goes

LEMMA PermitInit == Init => PermitInv
<1> SUFFICES ASSUME Init PROVE PermitInv
  OBVIOUS
<1>1. ASSUME NEW n \in Nat PROVE InOrder(Semaphore(n)) /\ Queue(Semaphore(n)) = {} /\ Free(Semaphore(n)) = n
                                 /\ ToSet(Semaphore(n).waiters) = {}
  <2> DEFINE s == Semaphore(n)
  <2>1. s.value = n /\ s.waiters = <<>> /\ s.woken = {} /\ s \in Semaphores
    BY DEF Semaphore, Semaphores
  <2>2. DOMAIN <<>> = {}
    OBVIOUS
  <2>3. Cardinality({}) = 0
    BY FS_EmptySet
  <2> HIDE DEF s
  <2>4. InOrder(s) /\ Queue(s) = {} /\ Free(s) = n /\ ToSet(s.waiters) = {}
    BY <2>1, <2>2, <2>3 DEF InOrder, Queue, Free, IsInjective, ToSet
  <2> QED BY <2>4 DEF s
<1>2. CallInv
  BY DEF Init, CallInv, Stages
<1>3. At(Holding) = {} /\ At({"starting"}) = {} /\ Cardinality({}) = 0
  BY FS_EmptySet DEF Init, At, Holding
<1>4. taskSema = Semaphore(MaxWorkers) /\ startSema = Semaphore(MaxStarting) /\ cancelReq = {}
  BY DEF Init, Permits
<1>5. MaxWorkers \in Nat /\ MaxStarting \in Nat
  BY MaxWorkersAssumption, MaxStartingAssumption
<1>6. ASSUME NEW n \in Nat, NEW W, NEW H, H = {} PROVE SemaInv(Semaphore(n), W, H, n)
  <2>1. InOrder(Semaphore(n)) /\ Queue(Semaphore(n)) = {} /\ Free(Semaphore(n)) = n
        /\ ToSet(Semaphore(n).waiters) = {}
    BY <1>1
  <2>2. n + 0 = n
    OBVIOUS
  <2> QED BY <1>3, <1>6, <2>1, <2>2 DEF SemaInv
<1> QED BY <1>2, <1>3, <1>4, <1>5, <1>6 DEF PermitInv, TaskInv, StartInv

\* A call that asks for a permit of _task_sema and gets it at once.
LEMMA SendKeepsTask ==
  ASSUME PermitInv, NEW t \in Tasks, Send(t) \/ GetsPermit(t)
  PROVE  /\ TaskInv' /\ CallInv' /\ StartInv'
<1> DEFINE s == taskSema
<1>1. /\ pc \in [Tasks -> Stages] /\ InOrder(s) /\ Queue(s) \subseteq At({"waiting"})
      /\ cancelReq \cap ToSet(s.waiters) = {} /\ Free(s) + Cardinality(At(Holding)) = MaxWorkers
      /\ CallInv
  BY DEF PermitInv, CallInv, TaskInv, SemaInv
<1>2. Free(s) \in Int
  BY <1>1, FiniteTasks DEF Free, InOrder, Semaphores
<1>3. t \notin cancelReq /\ UNCHANGED cancelReq /\ pc[t] \notin Holding
  BY <1>1 DEF Send, GetsPermit, CallInv, Holding
<1>4. CASE GetsWorker(t)
  <2>1. PICK stage \in {"startWait", "starting", "resetting", "reaping"} :
          Goes(t, stage) /\ StartMoves(t, stage)
    BY <1>4, GetsWorkerMoves
  <2>2. stage \in Stages /\ stage \in Holding /\ stage # "out" /\ stage \notin {"waiting"}
    BY DEF Stages, Holding
  <2>3. pc[t] \notin {"startWait", "starting"}
    BY <1>3 DEF Holding, Stages
  <2>4. CallInv' /\ StartInv'
    BY <1>1, <1>3, <2>1, <2>2, <2>3, CallsKeep, StartMovesKeeps
  <2>5. /\ At({"waiting"})' = At({"waiting"}) \ {t}
        /\ Cardinality(At(Holding)') = Cardinality(At(Holding)) + 1
        /\ Cardinality(At(Holding)) \in Nat
    BY <1>1, <1>3, <2>1, <2>2, Moves
  <2>6. CASE t \in s.woken /\ s' = Resumed(s, t)
    <3>1. /\ InOrder(s') /\ Queue(s') = Queue(s) \ {t} /\ Free(s') = Free(s) - 1
          /\ ToSet(s'.waiters) \subseteq ToSet(s.waiters)
      BY <1>1, <2>6, ResumedKeeps
    <3> QED BY <1>1, <1>2, <1>3, <2>4, <2>5, <3>1 DEF TaskInv, SemaInv
  <2>7. CASE pc[t] = "out" /\ Available(s) /\ s' = Acquired(s)
    <3>1. /\ InOrder(s') /\ Queue(s') = Queue(s) /\ Free(s') = Free(s) - 1
          /\ s'.waiters = s.waiters
      BY <1>1, <2>7, AcquiredKeeps
    <3>2. t \notin At({"waiting"})
      BY <2>7 DEF At
    <3> QED BY <1>1, <1>2, <1>3, <2>4, <2>5, <3>1, <3>2 DEF TaskInv, SemaInv
  <2>8. CASE pc[t] = "out" /\ Goes(t, "waiting")
    BY <1>1, <2>1, <2>8 DEF Goes
  <2> QED BY <2>6, <2>7, <2>8 DEF Send, GetsPermit
<1>5. CASE ~GetsWorker(t)
  <2>1. /\ pc[t] = "out" /\ Goes(t, "waiting") /\ s' = Awaited(s, t) /\ UNCHANGED startSema
    BY <1>5 DEF Send, GetsPermit
  <2>2. /\ At({"waiting"})' = At({"waiting"}) \cup {t}
        /\ Cardinality(At(Holding)') = Cardinality(At(Holding))
    BY <1>1, <2>1, Moves DEF Holding, Stages
  <2>3. t \notin Queue(s)
    BY <1>1, <2>1 DEF At
  <2>4. /\ InOrder(s') /\ Queue(s') = Queue(s) \cup {t} /\ Free(s') = Free(s)
        /\ ToSet(s'.waiters) = ToSet(s.waiters) \cup {t}
    BY <1>1, <2>1, <2>3, AwaitedKeeps
  <2>5. TaskInv'
    BY <1>1, <1>3, <2>2, <2>4 DEF TaskInv, SemaInv
  <2>6. CallInv' /\ StartInv'
    BY <1>1, <1>3, <2>1, CallsKeep, StartSame DEF Stages
  <2> QED BY <2>5, <2>6
<1> QED BY <1>4, <1>5

\* The permit for a cold start is given, given back, or declined.
LEMMA StartEnds ==
  ASSUME PermitInv, NEW t \in Tasks, NEW stage \in {"running", "out"}, Goes(t, stage),
         cancelReq' \subseteq cancelReq,
         \/ pc[t] = "starting" /\ startSema' = Released(startSema)
         \/ /\ pc[t] = "startWait" /\ t \in cancelReq
            /\ startSema' = IF t \in startSema.woken THEN Declined(startSema, t) ELSE startSema
  PROVE  StartInv'
<1> DEFINE s == startSema
<1>1. /\ pc \in [Tasks -> Stages] /\ InOrder(s) /\ Queue(s) \subseteq At({"startWait"})
      /\ cancelReq \cap ToSet(s.waiters) = {} /\ Free(s) + Cardinality(At({"starting"})) = MaxStarting
  BY DEF PermitInv, CallInv, StartInv, SemaInv
<1>2. stage \in Stages /\ stage \notin {"startWait"} /\ stage \notin {"starting"}
  BY DEF Stages
<1>3. At({"startWait"})' = At({"startWait"}) \ {t}
  BY <1>1, <1>2, Moves
<1>4. /\ Cardinality(At({"starting"})') = Cardinality(At({"starting"})) - (IF pc[t] \in {"starting"} THEN 1 ELSE 0)
      /\ Cardinality(At({"starting"})) \in Nat
  BY <1>1, <1>2, Moves
<1>5. Free(s) \in Int
  BY <1>1, FiniteTasks DEF Free, InOrder, Semaphores
<1>6. CASE pc[t] = "starting" /\ s' = Released(s)
  <2>1. /\ InOrder(s') /\ Queue(s') = Queue(s) /\ Free(s') = Free(s) + 1
        /\ ToSet(s'.waiters) \subseteq ToSet(s.waiters)
    BY <1>1, <1>6, ReleasedKeeps
  <2>2. t \notin At({"startWait"})
    BY <1>6 DEF At
  <2> QED BY <1>1, <1>3, <1>4, <1>5, <1>6, <2>1, <2>2 DEF StartInv, SemaInv
<1>7. CASE pc[t] = "startWait" /\ t \in s.woken /\ s' = Declined(s, t)
  <2>1. /\ InOrder(s') /\ Queue(s') = Queue(s) \ {t} /\ Free(s') = Free(s)
        /\ ToSet(s'.waiters) \subseteq ToSet(s.waiters)
    BY <1>1, <1>7, DeclinedKeeps
  <2> QED BY <1>1, <1>3, <1>4, <1>5, <1>7, <2>1 DEF StartInv, SemaInv
<1>8. CASE pc[t] = "startWait" /\ t \in cancelReq /\ t \notin s.woken /\ s' = s
  <2>1. t \notin Queue(s)
    BY <1>1, <1>8 DEF Queue
  <2> QED BY <1>1, <1>3, <1>4, <1>5, <1>8, <2>1 DEF StartInv, SemaInv
<1> QED BY <1>6, <1>7, <1>8

\* A cancelled waiter of _task_sema leaves.
LEMMA CancelledWaitingKeeps ==
  ASSUME PermitInv, NEW t \in Tasks, CancelledWaiting(t)
  PROVE  TaskInv'
<1> DEFINE s == taskSema
<1>1. /\ pc \in [Tasks -> Stages] /\ InOrder(s) /\ Queue(s) \subseteq At({"waiting"})
      /\ cancelReq \cap ToSet(s.waiters) = {} /\ Free(s) + Cardinality(At(Holding)) = MaxWorkers
  BY DEF PermitInv, CallInv, TaskInv, SemaInv
<1>2. /\ pc[t] = "waiting" /\ t \in cancelReq /\ cancelReq' \subseteq cancelReq /\ Goes(t, "out")
      /\ s' = IF t \in s.woken THEN Declined(s, t) ELSE s
  BY DEF CancelledWaiting
<1>3. /\ At({"waiting"})' = At({"waiting"}) \ {t}
      /\ Cardinality(At(Holding)') = Cardinality(At(Holding))
  BY <1>1, <1>2, Moves DEF Holding, Stages
<1>4. CASE t \in s.woken
  <2>1. /\ InOrder(s') /\ Queue(s') = Queue(s) \ {t} /\ Free(s') = Free(s)
        /\ ToSet(s'.waiters) \subseteq ToSet(s.waiters)
    BY <1>1, <1>2, <1>4, DeclinedKeeps
  <2> QED BY <1>1, <1>2, <1>3, <2>1 DEF TaskInv, SemaInv
<1>5. CASE t \notin s.woken
  <2>1. t \notin Queue(s) /\ s' = s
    BY <1>1, <1>2, <1>5 DEF Queue
  <2> QED BY <1>1, <1>2, <1>3, <2>1 DEF TaskInv, SemaInv
<1> QED BY <1>4, <1>5

LEMMA CancelKeeps ==
  ASSUME PermitInv, NEW t \in Tasks, Cancel(t)
  PROVE  PermitInv'
<1>1. /\ cancelReq' = cancelReq \cup {t} /\ pc[t] # "out" /\ UNCHANGED pc
      /\ taskSema' = Unawaited(taskSema, t) /\ startSema' = Unawaited(startSema, t)
  BY DEF Cancel, calls
<1>2. CallInv'
  BY <1>1 DEF PermitInv, CallInv
<1>3. InOrder(taskSema) /\ InOrder(startSema)
  BY DEF PermitInv, TaskInv, StartInv, SemaInv
<1>4. /\ InOrder(taskSema') /\ Queue(taskSema') \subseteq Queue(taskSema)
      /\ ToSet(taskSema'.waiters) = ToSet(taskSema.waiters) \ {t} /\ Free(taskSema') = Free(taskSema)
  BY <1>1, <1>3, UnawaitedKeeps
<1>5. /\ InOrder(startSema') /\ Queue(startSema') \subseteq Queue(startSema)
      /\ ToSet(startSema'.waiters) = ToSet(startSema.waiters) \ {t} /\ Free(startSema') = Free(startSema)
  BY <1>1, <1>3, UnawaitedKeeps
<1>6. \A S : At(S)' = At(S)
  BY <1>1 DEF At
<1>7. TaskInv'
  BY <1>1, <1>4, <1>6 DEF PermitInv, TaskInv, SemaInv
<1>8. StartInv'
  BY <1>1, <1>5, <1>6 DEF PermitInv, StartInv, SemaInv
<1> QED BY <1>2, <1>7, <1>8 DEF PermitInv

LEMMA PermitStep == PermitInv /\ [Next]_vars => PermitInv'
<1> SUFFICES ASSUME PermitInv, [Next]_vars PROVE PermitInv'
  OBVIOUS
<1> USE DEF semas, calls, pool, sessions
<1>0. CallInv /\ TaskInv /\ StartInv
  BY DEF PermitInv
<1>1. CASE UNCHANGED <<taskSema, startSema, pc, cancelReq>>
  BY <1>0, <1>1 DEF PermitInv, CallInv, TaskInv, StartInv, SemaInv, At
<1>2. ASSUME NEW t \in Tasks, Send(t) \/ GetsPermit(t) PROVE PermitInv'
  BY <1>2, SendKeepsTask DEF PermitInv
<1>3. ASSUME NEW t \in Tasks, Cancel(t) PROVE PermitInv'
  BY <1>3, CancelKeeps
<1>4. ASSUME NEW t \in Tasks, Reaped(t) PROVE PermitInv'
  <2>1. pc[t] = "reaping" /\ t \in Tasks \ cancelReq /\ UNCHANGED <<cancelReq, taskSema>>
    BY <1>4 DEF Reaped
  <2>2. CASE Proceeds(t, wk[t])
    <3>1. PICK stage \in {"startWait", "starting", "resetting"} : Goes(t, stage) /\ StartMoves(t, stage)
      BY <2>2, ProceedsMoves
    <3>2. stage \in Stages /\ stage \in Holding /\ pc[t] \in Holding /\ stage # "out"
      BY <2>1 DEF Stages, Holding
    <3> QED BY <1>0, <2>1, <3>1, <3>2, CallsKeep, StartMovesKeeps, TaskSame DEF PermitInv
  <2>3. CASE UNCHANGED <<pc, startSema>>
    BY <1>1, <2>1, <2>3
  <2> QED BY <1>4, <2>2, <2>3 DEF Reaped
<1>5. ASSUME NEW t \in Tasks, GetsStartPermit(t) PROVE PermitInv'
  <2> DEFINE s == startSema
  <2>1. /\ pc[t] = "startWait" /\ t \in s.woken /\ t \notin cancelReq
        /\ s' = Resumed(s, t) /\ Goes(t, "starting") /\ UNCHANGED <<taskSema, cancelReq>>
    BY <1>5 DEF GetsStartPermit
  <2>2. /\ pc \in [Tasks -> Stages] /\ InOrder(s) /\ Queue(s) \subseteq At({"startWait"})
        /\ cancelReq \cap ToSet(s.waiters) = {} /\ Free(s) + Cardinality(At({"starting"})) = MaxStarting
    BY <1>0 DEF CallInv, StartInv, SemaInv
  <2>3. /\ InOrder(s') /\ Queue(s') = Queue(s) \ {t} /\ Free(s') = Free(s) - 1
        /\ ToSet(s'.waiters) \subseteq ToSet(s.waiters)
    BY <2>1, <2>2, ResumedKeeps
  <2>4. /\ At({"startWait"})' = At({"startWait"}) \ {t}
        /\ Cardinality(At({"starting"})') = Cardinality(At({"starting"})) + 1
        /\ Cardinality(At({"starting"})) \in Nat
    BY <2>1, <2>2, Moves DEF Stages
  <2>5. Free(s) \in Int
    BY <2>2, FiniteTasks DEF Free, InOrder, Semaphores
  <2>6. StartInv'
    BY <2>1, <2>2, <2>3, <2>4, <2>5 DEF StartInv, SemaInv
  <2>7. TaskInv' /\ CallInv'
    BY <1>0, <2>1, TaskSame, CallsKeep DEF Holding, Stages
  <2> QED BY <2>6, <2>7 DEF PermitInv
<1>6. ASSUME NEW t \in Tasks, Started(t) PROVE PermitInv'
  <2>1. /\ pc[t] = "starting" /\ startSema' = Released(startSema) /\ Goes(t, "running")
        /\ UNCHANGED <<taskSema, cancelReq>>
    BY <1>6 DEF Started
  <2>2. TaskInv' /\ CallInv'
    BY <1>0, <2>1, TaskSame, CallsKeep DEF Holding, Stages
  <2>3. StartInv'
    BY <2>1, StartEnds
  <2> QED BY <2>2, <2>3 DEF PermitInv
<1>7. ASSUME NEW t \in Tasks, StartFails(t) PROVE PermitInv'
  <2>1. /\ Leaves(t) /\ Goes(t, "out") /\ cancelReq' = cancelReq \ {t}
        /\ pc[t] \in {"starting", "startWait"}
        /\ \/ pc[t] = "starting" /\ startSema' = Released(startSema)
           \/ /\ pc[t] = "startWait" /\ t \in cancelReq
              /\ startSema' = IF t \in startSema.woken THEN Declined(startSema, t) ELSE startSema
    BY <1>7 DEF StartFails, Leaves
  <2>2. TaskInv' /\ CallInv'
    BY <1>0, <2>1, LeavesKeeps, CallsKeep DEF Holding, Stages
  <2>3. StartInv'
    BY <2>1, StartEnds
  <2> QED BY <2>2, <2>3 DEF PermitInv
<1>8. ASSUME NEW t \in Tasks, ResetSucceeds(t) PROVE PermitInv'
  <2>1. pc[t] = "resetting" /\ Goes(t, "running") /\ UNCHANGED <<taskSema, startSema, cancelReq>>
    BY <1>8 DEF ResetSucceeds
  <2> QED BY <1>0, <2>1, TaskSame, StartSame, CallsKeep DEF PermitInv, Holding, Stages
<1>9. ASSUME NEW t \in Tasks, StepReturns(t) \/ StepFails(t) PROVE PermitInv'
  <2>1. /\ pc[t] \in {"resetting", "running"} /\ UNCHANGED startSema
        /\ cancelReq' \subseteq cancelReq /\ t \notin cancelReq'
        /\ \/ Leaves(t)
           \/ Goes(t, "retiring") /\ UNCHANGED taskSema
    BY <1>9 DEF StepReturns, StepFails, Release
  <2>2. CASE Leaves(t)
    <3>1. Goes(t, "out")
      BY <2>2 DEF Leaves
    <3> QED BY <1>0, <2>1, <2>2, <3>1, LeavesKeeps, StartSame, CallsKeep DEF PermitInv, Holding, Stages
  <2>3. CASE Goes(t, "retiring") /\ UNCHANGED taskSema
    BY <1>0, <2>1, <2>3, TaskSame, StartSame, CallsKeep DEF PermitInv, Holding, Stages
  <2> QED BY <2>1, <2>2, <2>3
<1>10. ASSUME NEW t \in Tasks, Retired(t) \/ CancelledCleanup(t) PROVE PermitInv'
  <2>1. /\ pc[t] \in {"reaping", "retiring"} /\ UNCHANGED startSema /\ Leaves(t) /\ Goes(t, "out")
        /\ cancelReq' \subseteq cancelReq /\ t \notin cancelReq'
    BY <1>10 DEF Retired, CancelledCleanup, Leaves
  <2> QED BY <1>0, <2>1, LeavesKeeps, StartSame, CallsKeep DEF PermitInv, Holding, Stages
<1>11. ASSUME NEW t \in Tasks, CancelledWaiting(t) PROVE PermitInv'
  <2>1. pc[t] = "waiting" /\ UNCHANGED startSema /\ Goes(t, "out") /\ cancelReq' = cancelReq \ {t}
    BY <1>11 DEF CancelledWaiting
  <2> QED BY <1>0, <1>11, <2>1, CancelledWaitingKeeps, StartSame, CallsKeep DEF PermitInv, Stages
<1>12. CASE (\E w \in Workers : Dies(w)) \/ Shutdown \/ Swept \/ ShutdownCancelled
  BY <1>1, <1>12 DEF Dies, Shutdown, Swept, ShutdownCancelled
<1>13. CASE UNCHANGED vars
  BY <1>1, <1>13 DEF vars
<1> QED
  BY <1>2, <1>3, <1>4, <1>5, <1>6, <1>7, <1>8, <1>9, <1>10, <1>11, <1>12, <1>13 DEF Next, Serves

\* Whatever way a call ends, its permits come back, once.
THEOREM PermitsSafe == Spec => []PermitsConserved
<1>1. Init => PermitInv
  BY PermitInit
<1>2. PermitInv /\ [Next]_vars => PermitInv'
  BY PermitStep
<1>3. PermitInv => PermitsConserved
  BY DEF PermitInv, TaskInv, StartInv, SemaInv, PermitsConserved, Free, Holding
<1> QED BY <1>1, <1>2, <1>3, PTL DEF Spec

-----------------------------------------------------------------------------
(***************************************************************************)
(* Workers.  Every worker the pool knows is in one place only: idle, in    *)
(* the hands of a call, or among those a call or shutdown() has still to   *)
(* retire; and all but those that are being started have a session.        *)
(***************************************************************************)
Empty == {"out", "waiting", "startWait"}
Full == {"starting", "resetting", "running", "retiring"}

HandInv ==
  /\ idle \in Seq(Workers) /\ sweep \in Seq(Workers)
  /\ wk \in [Tasks -> Workers \cup {NoWorker}]
  /\ reap \in [Tasks -> Seq(Workers)]
  /\ \A t \in Tasks : /\ pc[t] \in Empty => wk[t] = NoWorker
                      /\ pc[t] \in Full => wk[t] # NoWorker
                      /\ pc[t] = "reaping" <=> reap[t] # <<>>

Apart ==
  /\ IsInjective(idle) /\ IsInjective(sweep) /\ \A t \in Tasks : IsInjective(reap[t])
  /\ ToSet(idle) \cap ToSet(sweep) = {}
  /\ \A t \in Tasks : /\ ToSet(reap[t]) \cap ToSet(idle) = {}
                      /\ ToSet(reap[t]) \cap ToSet(sweep) = {}
                      /\ wk[t] \notin ToSet(idle) /\ wk[t] \notin ToSet(sweep)
  /\ \A t \in Tasks, u \in Tasks : wk[t] \notin ToSet(reap[u])
  /\ \A t \in Tasks, u \in Tasks :
       t # u => /\ ToSet(reap[t]) \cap ToSet(reap[u]) = {}
                /\ wk[t] = wk[u] => wk[t] = NoWorker

SessionInv ==
  /\ up \subseteq Workers /\ dead \subseteq up /\ used \subseteq up
  /\ ToSet(idle) \subseteq up /\ ToSet(sweep) \subseteq up
  /\ \A t \in Tasks : /\ ToSet(reap[t]) \subseteq up
                      /\ pc[t] = "starting" => wk[t] \notin up
                      /\ pc[t] # "starting" /\ wk[t] # NoWorker => wk[t] \in up
  /\ CleanSlate

WorkerInv == HandInv /\ Apart /\ SessionInv

\* A step of the call t that ends in stage, with the worker v in hand and r to
\* retire, and leaves q idle.
Passes(t, stage, v, q, r) ==
  /\ Goes(t, stage)
  /\ wk' = [wk EXCEPT ![t] = v]
  /\ reap' = [reap EXCEPT ![t] = r]
  /\ idle' = q
  /\ UNCHANGED sweep

\* What the call may have then: none of it is known elsewhere, but the worker
\* it had may be idle now.
Owned(t, v, q, r) ==
  /\ ToSet(q) \subseteq ToSet(idle) \cup {wk[t]}
  /\ ToSet(r) \cap (ToSet(q) \cup ToSet(sweep)) = {}
  /\ \A u \in Tasks \ {t} : wk[u] \notin ToSet(r) /\ ToSet(r) \cap ToSet(reap[u]) = {}
  /\ v # NoWorker => /\ v \notin ToSet(q) \cup ToSet(r) \cup ToSet(sweep)
                     /\ \A u \in Tasks \ {t} : v # wk[u] /\ v \notin ToSet(reap[u])

Fits(stage, v, r) ==
  /\ stage \in Empty => v = NoWorker
  /\ stage \in Full => v # NoWorker
  /\ stage = "reaping" <=> r # <<>>

LEMMA PassesKeeps ==
  ASSUME HandInv, Apart, pc \in [Tasks -> Stages], NEW t \in Tasks, NEW stage \in Stages,
         NEW v \in Workers \cup {NoWorker}, NEW q \in Seq(Workers), NEW r \in Seq(Workers),
         IsInjective(q), IsInjective(r), Owned(t, v, q, r), Fits(stage, v, r),
         Passes(t, stage, v, q, r)
  PROVE  HandInv' /\ Apart'
<1>1. /\ \A u \in Tasks : /\ pc'[u] = IF u = t THEN stage ELSE pc[u]
                          /\ wk'[u] = IF u = t THEN v ELSE wk[u]
                          /\ reap'[u] = IF u = t THEN r ELSE reap[u]
      /\ wk' \in [Tasks -> Workers \cup {NoWorker}] /\ reap' \in [Tasks -> Seq(Workers)]
      /\ idle' = q /\ sweep' = sweep /\ sweep \in Seq(Workers)
  BY DEF Passes, Goes, HandInv
<1>2. HandInv'
  BY <1>1 DEF HandInv, Fits
<1>3. \A s \in Seq(Workers) : NoWorker \notin ToSet(s)
  <2> SUFFICES ASSUME NEW s \in Seq(Workers) PROVE NoWorker \notin ToSet(s)
    OBVIOUS
  <2>1. DOMAIN s = 1..Len(s) /\ \A i \in 1..Len(s) : s[i] \in Workers
    OBVIOUS
  <2> QED BY <2>1, NoWorkerAssumption DEF ToSet
<1>4. /\ NoWorker \notin ToSet(q) /\ NoWorker \notin ToSet(sweep) /\ NoWorker \notin ToSet(r)
      /\ \A u \in Tasks : NoWorker \notin ToSet(reap[u])
  BY <1>1, <1>3 DEF HandInv
<1>5. IsInjective(idle') /\ IsInjective(sweep') /\ \A u \in Tasks : IsInjective(reap'[u])
  BY <1>1 DEF Apart
<1>6. ToSet(idle') \cap ToSet(sweep') = {}
  BY <1>1 DEF Apart, Owned
<1>7. ASSUME NEW u \in Tasks
      PROVE  /\ ToSet(reap'[u]) \cap ToSet(idle') = {} /\ ToSet(reap'[u]) \cap ToSet(sweep') = {}
             /\ wk'[u] \notin ToSet(idle') /\ wk'[u] \notin ToSet(sweep')
  <2>1. CASE u = t
    BY <1>1, <1>4, <2>1 DEF Owned
  <2>2. CASE u # t
    <3>1. /\ wk'[u] = wk[u] /\ reap'[u] = reap[u] /\ wk[t] \notin ToSet(reap[u])
          /\ wk[u] = wk[t] => wk[u] = NoWorker
      BY <1>1, <2>2 DEF Apart
    <3>2. /\ ToSet(reap[u]) \cap ToSet(idle) = {} /\ ToSet(reap[u]) \cap ToSet(sweep) = {}
          /\ wk[u] \notin ToSet(idle) /\ wk[u] \notin ToSet(sweep)
      BY DEF Apart
    <3>3. ToSet(q) \subseteq ToSet(idle) \cup {wk[t]}
      BY DEF Owned
    <3>4. ToSet(reap[u]) \cap ToSet(q) = {} /\ wk[u] \notin ToSet(q)
      BY <1>4, <3>1, <3>2, <3>3
    <3> QED BY <1>1, <3>1, <3>2, <3>4
  <2> QED BY <2>1, <2>2
<1>8. ASSUME NEW u \in Tasks, NEW x \in Tasks PROVE wk'[u] \notin ToSet(reap'[x])
  <2>1. wk[u] \notin ToSet(reap[x])
    BY DEF Apart
  <2>2. CASE u = t
    BY <1>1, <1>4, <2>2 DEF Owned
  <2>3. CASE u # t
    BY <1>1, <2>1, <2>3 DEF Owned
  <2> QED BY <2>2, <2>3
<1>9. ASSUME NEW u \in Tasks, NEW x \in Tasks, u # x
      PROVE  ToSet(reap'[u]) \cap ToSet(reap'[x]) = {} /\ (wk'[u] = wk'[x] => wk'[u] = NoWorker)
  <2>1. /\ ToSet(reap[u]) \cap ToSet(reap[x]) = {} /\ (wk[u] = wk[x] => wk[u] = NoWorker)
    BY <1>9 DEF Apart
  <2>2. CASE u # t /\ x # t
    BY <1>1, <2>1, <2>2
  <2>3. CASE u = t /\ x # t
    <3>1. ToSet(r) \cap ToSet(reap[x]) = {} /\ (v # NoWorker => v # wk[x])
      BY <2>3 DEF Owned
    <3> QED BY <1>1, <2>3, <3>1
  <2>4. CASE u # t /\ x = t
    <3>1. ToSet(r) \cap ToSet(reap[u]) = {} /\ (v # NoWorker => v # wk[u])
      BY <2>4 DEF Owned
    <3> QED BY <1>1, <2>4, <3>1
  <2> QED BY <1>9, <2>2, <2>3, <2>4
<1>10. Apart'
  BY <1>5, <1>6, <1>7, <1>8, <1>9 DEF Apart
<1> QED BY <1>2, <1>10

\* The sessions after a step of t, if no worker of another call lost its own.
LEMMA SessionsKeep ==
  ASSUME SessionInv, pc \in [Tasks -> Stages], HandInv, NEW t \in Tasks, NEW stage \in Stages,
         NEW v, NEW q, NEW r, Passes(t, stage, v, q, r),
         up' \subseteq Workers, dead' \subseteq up', used' \subseteq up',
         ToSet(q) \subseteq up', ToSet(sweep) \subseteq up', ToSet(r) \subseteq up',
         stage = "starting" => v \notin up',
         stage # "starting" /\ v # NoWorker => v \in up',
         stage = "running" => v \notin used',
         \A u \in Tasks \ {t} : /\ ToSet(reap[u]) \subseteq up'
                                /\ wk[u] \in up <=> wk[u] \in up'
                                /\ wk[u] \in used' => wk[u] \in used
  PROVE  SessionInv'
<1>1. /\ \A u \in Tasks : /\ pc'[u] = IF u = t THEN stage ELSE pc[u]
                          /\ wk'[u] = IF u = t THEN v ELSE wk[u]
                          /\ reap'[u] = IF u = t THEN r ELSE reap[u]
      /\ idle' = q /\ sweep' = sweep
  BY DEF Passes, Goes, HandInv
<1>2. \A u \in Tasks : pc'[u] = "running" => wk'[u] \notin used'
  BY <1>1 DEF SessionInv, CleanSlate, At
<1>3. ASSUME NEW u \in Tasks
      PROVE  /\ ToSet(reap'[u]) \subseteq up'
             /\ pc'[u] = "starting" => wk'[u] \notin up'
             /\ pc'[u] # "starting" /\ wk'[u] # NoWorker => wk'[u] \in up'
  BY <1>1 DEF SessionInv
<1>4. CleanSlate'
  BY <1>2 DEF CleanSlate, At
<1> QED BY <1>1, <1>3, <1>4 DEF SessionInv

\* A call that proceeds with w, the worker it found idle if any.
Hands(w, v, stage) ==
  \/ stage = "resetting" /\ w # NoWorker /\ v = w
  \/ stage = "starting" /\ w = NoWorker /\ v \in Fresh
  \/ stage = "startWait" /\ w = NoWorker /\ v = NoWorker

LEMMA ProceedsHands ==
  ASSUME NEW t, NEW w \in Workers \cup {NoWorker}, Proceeds(t, w)
  PROVE  \E stage \in Stages, v \in Workers \cup {NoWorker} :
           Goes(t, stage) /\ wk' = [wk EXCEPT ![t] = v] /\ Hands(w, v, stage)
<1>1. CASE w # NoWorker
  <2>1. Goes(t, "resetting") /\ wk' = [wk EXCEPT ![t] = w]
    BY <1>1 DEF Proceeds
  <2> QED BY <1>1, <2>1 DEF Hands, Stages
<1>2. CASE w = NoWorker
  BY <1>2 DEF Proceeds, StartsNew, Hands, Stages, Fresh
<1> QED BY <1>1, <1>2

\* _get_or_create as one step of the call: it takes the n-th idle worker or,
\* if n is 0, none.
Found(n) == IF n = 0 THEN NoWorker ELSE idle[n]
Doomed(n) == [i \in 1..(Len(idle) - n) |-> idle[Len(idle) + 1 - i]]

Pops(t, n, v, stage) ==
  /\ n > 0 => idle[n] \notin dead
  /\ \A i \in (n + 1)..Len(idle) : idle[i] \in dead
  /\ Passes(t, stage, v, LeftIdle(n), Doomed(n))
  /\ IF Doomed(n) = <<>> THEN Hands(Found(n), v, stage)
                         ELSE stage = "reaping" /\ v = Found(n)
  /\ created' = created - Len(Doomed(n)) + (IF n = 0 THEN 1 ELSE 0)

LEMMA GetsWorkerPops ==
  ASSUME HandInv, NEW t \in Tasks, GetsWorker(t), UNCHANGED sweep
  PROVE  \E n \in 0..Len(idle), stage \in Stages, v \in Workers \cup {NoWorker} :
           Pops(t, n, v, stage)
<1>1. PICK n \in 0..Len(idle) :
        /\ n > 0 => idle[n] \notin dead
        /\ \A i \in (n + 1)..Len(idle) : idle[i] \in dead
        /\ idle' = LeftIdle(n)
        /\ created' = created - Len(Doomed(n)) + (IF n = 0 THEN 1 ELSE 0)
              /\ reap' = [reap EXCEPT ![t] = Doomed(n)]
        /\ \/ /\ Doomed(n) = <<>>
              /\ Proceeds(t, Found(n))
           \/ /\ Doomed(n) # <<>>
              /\ Goes(t, "reaping")
              /\ wk' = [wk EXCEPT ![t] = Found(n)]
  BY DEF GetsWorker, Found, Doomed
<1>2. Found(n) \in Workers \cup {NoWorker}
  BY DEF HandInv, Found
<1>3. CASE Doomed(n) = <<>>
  BY <1>1, <1>2, <1>3, ProceedsHands DEF Pops, Passes
<1>4. CASE Doomed(n) # <<>>
  <2>1. "reaping" \in Stages
    BY DEF Stages
  <2> QED BY <1>1, <1>2, <1>4, <2>1 DEF Pops, Passes
<1> QED BY <1>3, <1>4

\* What it pops and leaves is all that was idle, each worker in one place.
LEMMA PopsParts ==
  ASSUME WorkerInv, NEW n \in 0..Len(idle)
  PROVE  /\ LeftIdle(n) \in Seq(Workers) /\ IsInjective(LeftIdle(n))
         /\ Len(LeftIdle(n)) = IF n = 0 THEN 0 ELSE n - 1
         /\ Doomed(n) \in Seq(Workers) /\ IsInjective(Doomed(n)) /\ Len(Doomed(n)) = Len(idle) - n
         /\ ToSet(LeftIdle(n)) \cap ToSet(Doomed(n)) = {}
         /\ ToSet(idle) = ToSet(LeftIdle(n)) \cup ToSet(Doomed(n)) \cup (IF n = 0 THEN {} ELSE {Found(n)})
         /\ n > 0 => /\ Found(n) \in Workers
                     /\ Found(n) \notin ToSet(LeftIdle(n)) /\ Found(n) \notin ToSet(Doomed(n))
         /\ \A w \in ToSet(Doomed(n)) : \E i \in (n + 1)..Len(idle) : w = idle[i]
<1> DEFINE q == idle  left == LeftIdle(n)  doomed == Doomed(n)
<1>0. q \in Seq(Workers) /\ IsInjective(q) /\ n \in 0..Len(q)
      /\ left = SubSeq(q, 1, n - 1) /\ doomed = [i \in 1..(Len(q) - n) |-> q[Len(q) + 1 - i]]
  BY DEF WorkerInv, HandInv, Apart, LeftIdle, Doomed
<1> HIDE DEF q, left, doomed
<1>1. /\ Len(q) \in Nat /\ DOMAIN q = 1..Len(q) /\ \A i \in 1..Len(q) : q[i] \in Workers
      /\ n \in 0..Len(q) /\ IsInjective(q)
  BY <1>0
<1> DEFINE m == IF n = 0 THEN 0 ELSE n - 1
<1>2. /\ left \in Seq(Workers) /\ Len(left) = m /\ DOMAIN left = 1..m
      /\ \A i \in 1..m : left[i] = q[i]
  <2>1. /\ left \in Seq(Workers) /\ Len(left) = IF 1 <= n - 1 THEN (n - 1) - 1 + 1 ELSE 0
        /\ \A i \in 1..((n - 1) - 1 + 1) : left[i] = q[1 + i - 1]
    <3>1. n - 1 \in Int /\ 1 \in Int /\ \A i \in 1..(n - 1) : q[i] \in Workers
      BY <1>1
    <3> QED BY <1>0, <3>1, SubSeqProperties
  <2>2. Len(left) = m /\ m \in Nat
    BY <1>1, <2>1
  <2>3. DOMAIN left = 1..m
    BY <2>1, <2>2
  <2>4. ASSUME NEW i \in 1..m PROVE left[i] = q[i]
    <3>1. i \in 1..((n - 1) - 1 + 1) /\ 1 + i - 1 = i
      BY <1>1, <2>2
    <3> QED BY <2>1, <3>1
  <2> QED BY <2>1, <2>2, <2>3, <2>4
<1>3. \A i \in 1..(Len(q) - n) : Len(q) + 1 - i \in (n + 1)..Len(q) /\ Len(q) + 1 - i \in 1..Len(q)
  BY <1>1
<1>4. /\ doomed \in Seq(Workers) /\ Len(doomed) = Len(q) - n /\ DOMAIN doomed = 1..(Len(q) - n)
      /\ \A i \in 1..(Len(q) - n) : doomed[i] = q[Len(q) + 1 - i]
  <2> DEFINE d == Len(q) - n
  <2>1. d \in Nat
    BY <1>1
  <2>2. doomed = [i \in 1..d |-> q[Len(q) + 1 - i]]
    BY <1>0
  <2>3. \A i \in 1..d : q[Len(q) + 1 - i] \in Workers
    BY <1>1, <1>3
  <2> HIDE DEF d
  <2>4. doomed \in [1..d -> Workers] /\ \A i \in 1..d : doomed[i] = q[Len(q) + 1 - i]
    BY <2>2, <2>3
  <2>5. doomed \in Seq(Workers) /\ Len(doomed) = d /\ DOMAIN doomed = 1..d
    BY <2>1, <2>4
  <2> QED BY <2>4, <2>5 DEF d
<1>5. IsInjective(left)
  BY <1>1, <1>2 DEF IsInjective
<1>12. \A i, j \in 1..Len(q) : q[i] = q[j] => i = j
  BY <1>1 DEF IsInjective
<1>6. IsInjective(doomed)
  <2> SUFFICES ASSUME NEW i \in 1..(Len(q) - n), NEW j \in 1..(Len(q) - n), doomed[i] = doomed[j]
               PROVE  i = j
    BY <1>4 DEF IsInjective
  <2>1. q[Len(q) + 1 - i] = q[Len(q) + 1 - j]
    BY <1>4
  <2>2. Len(q) + 1 - i = Len(q) + 1 - j
    BY <1>3, <1>12, <2>1
  <2> QED BY <1>1, <2>2
<1>7. \A w \in ToSet(doomed) : \E i \in (n + 1)..Len(q) : w = q[i]
  BY <1>3, <1>4 DEF ToSet
<1>8. \A w \in ToSet(left) : \E i \in 1..m : w = q[i]
  BY <1>2 DEF ToSet
<1>9. ToSet(left) \cap ToSet(doomed) = {}
  <2> SUFFICES ASSUME NEW w \in ToSet(left), w \in ToSet(doomed) PROVE FALSE
    OBVIOUS
  <2>1. PICK i \in 1..m : w = q[i]
    BY <1>8
  <2>2. PICK j \in (n + 1)..Len(q) : w = q[j]
    BY <1>7
  <2>3. i \in 1..Len(q) /\ j \in 1..Len(q) /\ i # j
    BY <1>1
  <2> QED BY <1>12, <2>1, <2>2, <2>3
<1>10. ASSUME n > 0 PROVE q[n] \in Workers /\ q[n] \notin ToSet(left) /\ q[n] \notin ToSet(doomed)
  <2>1. n \in 1..Len(q)
    BY <1>1, <1>10
  <2>2. \A i \in 1..m : i \in 1..Len(q) /\ i # n
    BY <1>1
  <2>3. \A i \in (n + 1)..Len(q) : i \in 1..Len(q) /\ i # n
    BY <1>1
  <2> QED BY <1>1, <1>7, <1>8, <1>12, <2>1, <2>2, <2>3
<1>11. ToSet(q) = ToSet(left) \cup ToSet(doomed) \cup (IF n = 0 THEN {} ELSE {q[n]})
  <2>1. ASSUME NEW w \in ToSet(q)
        PROVE  w \in ToSet(left) \cup ToSet(doomed) \cup (IF n = 0 THEN {} ELSE {q[n]})
    <3>1. PICK i \in 1..Len(q) : w = q[i]
      BY <1>1 DEF ToSet
    <3>2. CASE i \in 1..m
      BY <1>2, <3>1, <3>2 DEF ToSet
    <3>3. CASE i > n
      <4>1. Len(q) + 1 - i \in 1..(Len(q) - n) /\ Len(q) + 1 - (Len(q) + 1 - i) = i
        BY <1>1, <3>3
      <4> QED BY <1>4, <3>1, <4>1 DEF ToSet
    <3>4. CASE i = n
      BY <3>1, <3>4
    <3> QED BY <1>1, <3>2, <3>3, <3>4
  <2>0. \A i \in 1..Len(q) : q[i] \in ToSet(q)
    BY <1>1 DEF ToSet
  <2>2. ToSet(left) \subseteq ToSet(q)
    <3>1. \A i \in 1..m : i \in 1..Len(q)
      BY <1>1
    <3> QED BY <1>8, <2>0, <3>1
  <2>3. ToSet(doomed) \subseteq ToSet(q)
    <3>1. \A i \in (n + 1)..Len(q) : i \in 1..Len(q)
      BY <1>1
    <3> QED BY <1>7, <2>0, <3>1
  <2>4. n > 0 => q[n] \in ToSet(q)
    BY <1>1 DEF ToSet
  <2> QED BY <2>1, <2>2, <2>3, <2>4
<1>13. Found(n) = (IF n = 0 THEN NoWorker ELSE q[n]) /\ n \in Nat
  BY <1>0 DEF Found, q
<1>14. Len(left) = (IF n = 0 THEN 0 ELSE n - 1) /\ Len(doomed) = Len(q) - n
  BY <1>2, <1>4
<1> QED BY <1>2, <1>4, <1>5, <1>6, <1>7, <1>9, <1>10, <1>11, <1>13, <1>14 DEF q, left, doomed

LEMMA PopsKeeps ==
  ASSUME CallInv, WorkerInv, NEW t \in Tasks, NEW n \in 0..Len(idle), NEW stage \in Stages,
         NEW v \in Workers \cup {NoWorker}, Pops(t, n, v, stage),
         pc[t] \in {"out", "waiting"}, UNCHANGED sessions
  PROVE  WorkerInv'
<1> DEFINE q == LeftIdle(n)  r == Doomed(n)  w == Found(n)
<1>1. /\ q \in Seq(Workers) /\ IsInjective(q)
      /\ r \in Seq(Workers) /\ IsInjective(r)
      /\ ToSet(q) \cap ToSet(r) = {}
      /\ ToSet(idle) = ToSet(q) \cup ToSet(r) \cup (IF n = 0 THEN {} ELSE {w})
      /\ n > 0 => w \in Workers /\ w \notin ToSet(q) /\ w \notin ToSet(r)
      /\ n = 0 => w = NoWorker
  BY PopsParts DEF Found
<1>2. /\ Passes(t, stage, v, q, r)
      /\ IF r = <<>> THEN Hands(w, v, stage) ELSE stage = "reaping" /\ v = w
      /\ HandInv /\ Apart /\ SessionInv /\ pc \in [Tasks -> Stages] /\ wk[t] = NoWorker
  BY DEF Pops, WorkerInv, HandInv, Empty, CallInv
<1> HIDE DEF q, r, w
<1>3. Fits(stage, v, r)
  BY <1>1, <1>2, NoWorkerAssumption DEF Hands, Fits, Fresh, Empty, Full
<1>4. ToSet(r) \subseteq ToSet(idle) /\ ToSet(q) \subseteq ToSet(idle)
  BY <1>1
<1>5. CASE v \in Fresh /\ stage = "starting" /\ r = <<>>
  <2>1. v \in Workers \ up /\ \A u \in Tasks : wk[u] # v
    BY <1>5 DEF Fresh
  <2>2. ToSet(idle) \subseteq up /\ ToSet(sweep) \subseteq up /\ \A u \in Tasks : ToSet(reap[u]) \subseteq up
    BY <1>2 DEF SessionInv
  <2>3. Owned(t, v, q, r)
    BY <1>1, <1>2, <1>4, <2>1, <2>2 DEF Owned, Apart
  <2>4. SessionInv'
    BY <1>2, <1>4, <1>5, <2>1, <2>2, SessionsKeep DEF SessionInv, sessions
  <2> QED BY <1>1, <1>2, <1>3, <2>3, <2>4, PassesKeeps DEF WorkerInv
<1>6. CASE v = w /\ stage \in {"resetting", "reaping"}
  <2>1. w # NoWorker => w \in ToSet(idle) /\ w \notin ToSet(q) /\ w \notin ToSet(r)
    BY <1>1
  <2>2. Owned(t, v, q, r)
    BY <1>1, <1>2, <1>4, <1>6, <2>1 DEF Owned, Apart
  <2>3. SessionInv'
    BY <1>2, <1>4, <1>6, <2>1, SessionsKeep DEF SessionInv, sessions
  <2> QED BY <1>1, <1>2, <1>3, <2>2, <2>3, PassesKeeps DEF WorkerInv
<1>7. CASE v = NoWorker /\ stage = "startWait"
  <2>1. Owned(t, v, q, r)
    BY <1>1, <1>2, <1>4, <1>7 DEF Owned, Apart
  <2>2. SessionInv'
    BY <1>2, <1>4, <1>7, SessionsKeep DEF SessionInv, sessions
  <2> QED BY <1>1, <1>2, <1>3, <2>1, <2>2, PassesKeeps DEF WorkerInv
<1> QED BY <1>2, <1>5, <1>6, <1>7 DEF Hands

\* A call that keeps what it has, or lets go of some of it.
LEMMA OwnsLess ==
  ASSUME HandInv, Apart, NEW t \in Tasks, NEW v \in {wk[t], NoWorker}, NEW r,
         ToSet(r) \subseteq ToSet(reap[t])
  PROVE  Owned(t, v, idle, r)
BY DEF Apart, Owned

LEMMA OwnsFresh ==
  ASSUME WorkerInv, NEW t \in Tasks, NEW v \in Fresh, NEW r, ToSet(r) \subseteq ToSet(reap[t])
  PROVE  Owned(t, v, idle, r)
<1>1. v \notin up /\ \A u \in Tasks : wk[u] # v
  BY DEF Fresh
<1>2. /\ ToSet(idle) \subseteq up /\ ToSet(sweep) \subseteq up
      /\ \A u \in Tasks : ToSet(reap[u]) \subseteq up
  BY DEF WorkerInv, SessionInv
<1>3. Owned(t, NoWorker, idle, r)
  BY OwnsLess DEF WorkerInv
<1> QED BY <1>1, <1>2, <1>3 DEF Owned

\* A step of a call that leaves every session as it is.
LEMMA StaysKeeps ==
  ASSUME CallInv, WorkerInv, NEW t \in Tasks, NEW stage \in Stages \ {"starting", "running"},
         NEW v \in {wk[t], NoWorker}, pc[t] # "starting" \/ v = NoWorker,
         Passes(t, stage, v, idle, reap[t]), Fits(stage, v, reap[t]), UNCHANGED sessions
  PROVE  WorkerInv'
<1>1. /\ HandInv /\ Apart /\ SessionInv /\ pc \in [Tasks -> Stages] /\ v \in Workers \cup {NoWorker}
      /\ idle \in Seq(Workers) /\ reap[t] \in Seq(Workers) /\ IsInjective(idle) /\ IsInjective(reap[t])
  BY DEF WorkerInv, CallInv, HandInv, Apart
<1>2. Owned(t, v, idle, reap[t])
  BY <1>1, OwnsLess
<1>3. HandInv' /\ Apart'
  BY <1>1, <1>2, PassesKeeps
<1>4. SessionInv'
  BY <1>1, SessionsKeep DEF SessionInv, sessions
<1> QED BY <1>3, <1>4 DEF WorkerInv

LEMMA GetsStartPermitKeeps ==
  ASSUME CallInv, WorkerInv, NEW t \in Tasks, GetsStartPermit(t)
  PROVE  WorkerInv'
<1>1. PICK v \in Fresh : wk' = [wk EXCEPT ![t] = v]
  BY DEF GetsStartPermit
<1>2. /\ pc[t] = "startWait" /\ Goes(t, "starting") /\ "starting" \in Stages
      /\ UNCHANGED <<idle, sweep, reap>> /\ UNCHANGED sessions
  BY DEF GetsStartPermit, pool, Stages
<1>3. /\ HandInv /\ Apart /\ SessionInv /\ pc \in [Tasks -> Stages] /\ v \in Workers \cup {NoWorker}
      /\ idle \in Seq(Workers) /\ reap[t] \in Seq(Workers) /\ IsInjective(idle) /\ IsInjective(reap[t])
      /\ reap[t] = <<>> /\ v \in Workers /\ v \notin up
  BY <1>2 DEF WorkerInv, CallInv, HandInv, Apart, Fresh
<1>4. Passes(t, "starting", v, idle, reap[t])
  BY <1>1, <1>2, <1>3 DEF Passes, HandInv
<1>5. Fits("starting", v, reap[t]) /\ Owned(t, v, idle, reap[t])
  BY <1>3, NoWorkerAssumption, OwnsFresh DEF Fits, Empty
<1>6. HandInv' /\ Apart'
  BY <1>2, <1>3, <1>4, <1>5, PassesKeeps
<1>7. SessionInv'
  BY <1>2, <1>3, <1>4, SessionsKeep DEF SessionInv, sessions
<1> QED BY <1>6, <1>7 DEF WorkerInv

\* The session of x, which nobody else has, ends.
LEMMA EndedSessions ==
  ASSUME SessionInv, NEW x, Ended(x)
  PROVE  /\ up' = up \ {x} /\ up' \subseteq Workers /\ dead' \subseteq up' /\ used' \subseteq up'
         /\ used' \subseteq used
BY DEF Ended, SessionInv

\* A dead worker is gone, and the last one lets the call proceed.
LEMMA ReapedPasses ==
  ASSUME HandInv, pc \in [Tasks -> Stages], NEW t \in Tasks, Reaped(t)
  PROVE  \E stage \in Stages, v \in Workers \cup {NoWorker} :
           /\ Passes(t, stage, v, idle, Tail(reap[t]))
           /\ IF Tail(reap[t]) = <<>> THEN Hands(wk[t], v, stage)
                                      ELSE stage = "reaping" /\ v = wk[t]
<1> DEFINE r == Tail(reap[t])
<1>1. /\ wk[t] \in Workers \cup {NoWorker} /\ pc[t] = "reaping" /\ UNCHANGED <<idle, sweep>>
      /\ reap' = [reap EXCEPT ![t] = r]
  BY DEF Reaped, HandInv, pool
<1>2. CASE r = <<>>
  <2>1. Proceeds(t, wk[t])
    BY <1>2 DEF Reaped
  <2> QED BY <1>1, <1>2, <2>1, ProceedsHands DEF Passes
<1>3. CASE r # <<>>
  <2>1. UNCHANGED <<pc, wk>>
    BY <1>3 DEF Reaped
  <2>2. Goes(t, "reaping") /\ wk' = [wk EXCEPT ![t] = wk[t]]
    BY <1>1, <2>1 DEF Goes, HandInv
  <2>3. "reaping" \in Stages
    BY DEF Stages
  <2> QED BY <1>1, <1>3, <2>2, <2>3 DEF Passes
<1> QED BY <1>2, <1>3

LEMMA ReapedKeeps ==
  ASSUME CallInv, WorkerInv, NEW t \in Tasks, Reaped(t)
  PROVE  WorkerInv'
<1> DEFINE r == Tail(reap[t])  x == Head(reap[t])
<1>1. /\ HandInv /\ Apart /\ SessionInv /\ pc \in [Tasks -> Stages]
      /\ idle \in Seq(Workers) /\ IsInjective(idle) /\ wk[t] \in Workers \cup {NoWorker}
      /\ pc[t] = "reaping" /\ reap[t] \in Seq(Workers) /\ reap[t] # <<>> /\ IsInjective(reap[t])
  BY DEF WorkerInv, CallInv, HandInv, Apart, Reaped
<1>2. /\ r \in Seq(Workers) /\ IsInjective(r) /\ ToSet(r) = ToSet(reap[t]) \ {x}
      /\ x \in ToSet(reap[t])
  BY <1>1, HeadLeaves
<1>3. PICK stage \in Stages, v \in Workers \cup {NoWorker} :
        /\ Passes(t, stage, v, idle, r)
        /\ IF r = <<>> THEN Hands(wk[t], v, stage) ELSE stage = "reaping" /\ v = wk[t]
  BY <1>1, ReapedPasses
<1>4. Passes(t, stage, v, idle, r) /\ Ended(x)
  BY <1>3 DEF Reaped
<1> HIDE DEF r, x
<1>5. Fits(stage, v, r)
  BY <1>3, NoWorkerAssumption DEF Hands, Fits, Fresh, Empty, Full
<1>6. up' = up \ {x} /\ up' \subseteq Workers /\ dead' \subseteq up' /\ used' \subseteq up' /\ used' \subseteq used
  BY <1>1, <1>4, EndedSessions
<1>7. /\ x \notin ToSet(idle) /\ x \notin ToSet(sweep) /\ x \notin ToSet(r)
      /\ \A u \in Tasks \ {t} : x \notin ToSet(reap[u])
      /\ \A u \in Tasks : wk[u] # x
  BY <1>1, <1>2 DEF Apart
<1>8. CASE v \in Fresh /\ stage = "starting"
  <2>1. Owned(t, v, idle, r)
    BY <1>2, <1>8, OwnsFresh
  <2>2. v \notin up'
    BY <1>6, <1>8 DEF Fresh
  <2>3. SessionInv'
    BY <1>1, <1>2, <1>4, <1>6, <1>7, <1>8, <2>2, SessionsKeep DEF SessionInv
  <2> QED BY <1>1, <1>2, <1>4, <1>5, <2>1, <2>3, PassesKeeps DEF WorkerInv
<1>9. CASE v = wk[t] /\ stage \in {"resetting", "reaping", "startWait"}
  <2>1. Owned(t, v, idle, r)
    BY <1>1, <1>2, <1>9, OwnsLess
  <2>2. v # NoWorker => v \in up'
    BY <1>1, <1>6, <1>7, <1>9 DEF SessionInv
  <2>3. SessionInv'
    BY <1>1, <1>2, <1>4, <1>6, <1>7, <1>9, <2>2, SessionsKeep DEF SessionInv
  <2> QED BY <1>1, <1>2, <1>4, <1>5, <2>1, <2>3, PassesKeeps DEF WorkerInv
<1> QED BY <1>3, <1>8, <1>9 DEF Hands

LEMMA StartedKeeps ==
  ASSUME CallInv, WorkerInv, NEW t \in Tasks, Started(t)
  PROVE  WorkerInv'
<1> DEFINE w == wk[t]
<1>1. /\ HandInv /\ Apart /\ SessionInv /\ pc \in [Tasks -> Stages]
      /\ idle \in Seq(Workers) /\ IsInjective(idle)
      /\ reap[t] \in Seq(Workers) /\ IsInjective(reap[t]) /\ reap[t] = <<>>
      /\ pc[t] = "starting" /\ w \in Workers /\ w # NoWorker /\ w \notin up
  BY DEF WorkerInv, CallInv, HandInv, Apart, SessionInv, Started, Full
<1>2. Goes(t, "running") /\ "running" \in Stages /\ UNCHANGED <<wk, reap, idle, sweep, dead, used>>
      /\ up' = up \cup {w}
  BY DEF Started, pool, Stages
<1>3. Passes(t, "running", w, idle, reap[t])
  BY <1>1, <1>2 DEF Passes, HandInv
<1>4. Owned(t, w, idle, reap[t]) /\ Fits("running", w, reap[t])
  BY <1>1, OwnsLess DEF Fits, Empty
<1>5. \A u \in Tasks \ {t} : wk[u] # w
  BY <1>1 DEF Apart
<1> HIDE DEF w
<1>6. SessionInv'
  BY <1>1, <1>2, <1>3, <1>5, SessionsKeep DEF SessionInv
<1> QED BY <1>1, <1>2, <1>3, <1>4, <1>6, PassesKeeps DEF WorkerInv

\* A reset leaves the worker without a past.
LEMMA ResetSucceedsKeeps ==
  ASSUME CallInv, WorkerInv, NEW t \in Tasks, ResetSucceeds(t)
  PROVE  WorkerInv'
<1> DEFINE w == wk[t]
<1>1. /\ HandInv /\ Apart /\ SessionInv /\ pc \in [Tasks -> Stages]
      /\ idle \in Seq(Workers) /\ IsInjective(idle)
      /\ reap[t] \in Seq(Workers) /\ IsInjective(reap[t]) /\ reap[t] = <<>>
      /\ pc[t] = "resetting" /\ w \in Workers /\ w # NoWorker /\ w \in up
  BY DEF WorkerInv, CallInv, HandInv, Apart, SessionInv, ResetSucceeds, Full
<1>2. Goes(t, "running") /\ "running" \in Stages /\ UNCHANGED <<wk, reap, idle, sweep, up>>
      /\ used' = used \ {w} /\ dead' = dead \ {w}
  BY DEF ResetSucceeds, pool, Stages
<1>3. Passes(t, "running", w, idle, reap[t])
  BY <1>1, <1>2 DEF Passes, HandInv
<1>4. Owned(t, w, idle, reap[t]) /\ Fits("running", w, reap[t])
  BY <1>1, OwnsLess DEF Fits, Empty
<1> HIDE DEF w
<1>6. SessionInv'
  BY <1>1, <1>2, <1>3, SessionsKeep DEF SessionInv
<1> QED BY <1>1, <1>2, <1>3, <1>4, <1>6, PassesKeeps DEF WorkerInv

\* The end of a step puts the worker back or retires it; it is used now.
LEMMA ReleaseKeeps ==
  ASSUME CallInv, WorkerInv, NEW t \in Tasks, StepReturns(t) \/ StepFails(t)
  PROVE  WorkerInv'
<1> DEFINE w == wk[t]
<1>1. /\ HandInv /\ Apart /\ SessionInv /\ pc \in [Tasks -> Stages]
      /\ idle \in Seq(Workers) /\ IsInjective(idle)
      /\ reap[t] \in Seq(Workers) /\ IsInjective(reap[t])
      /\ pc[t] \in {"resetting", "running"}
  BY DEF WorkerInv, CallInv, HandInv, Apart, StepReturns, StepFails
<1>2. /\ reap[t] = <<>> /\ w \in Workers /\ w # NoWorker /\ w \in up
      /\ w \notin ToSet(idle) /\ w \notin ToSet(sweep)
      /\ \A u \in Tasks \ {t} : w # wk[u] /\ w \notin ToSet(reap[u])
  BY <1>1 DEF HandInv, Apart, SessionInv, Full
<1>3. /\ used' = used \cup {w} /\ UNCHANGED <<up, dead, reap, sweep>>
      /\ \/ idle' = Append(idle, w) /\ Leaves(t)
         \/ UNCHANGED <<idle, wk>> /\ Goes(t, "retiring")
  BY DEF StepReturns, StepFails, Release
<1> HIDE DEF w
<1>4. CASE idle' = Append(idle, w) /\ Leaves(t)
  <2> DEFINE q == Append(idle, w)
  <2>1. q \in Seq(Workers) /\ IsInjective(q) /\ ToSet(q) = ToSet(idle) \cup {w}
    BY <1>1, <1>2, LastJoins
  <2>2. "out" \in Stages /\ Passes(t, "out", NoWorker, q, reap[t])
    BY <1>1, <1>3, <1>4 DEF Leaves, Passes, HandInv, Stages
  <2> HIDE DEF q
  <2>3. Owned(t, NoWorker, q, reap[t])
    BY <1>1, <1>2, <2>1 DEF Owned, Apart, w
  <2>4. Fits("out", NoWorker, reap[t])
    BY <1>2 DEF Fits, Full
  <2>5. SessionInv'
    BY <1>1, <1>2, <1>3, <2>1, <2>2, SessionsKeep DEF SessionInv
  <2> QED BY <1>1, <2>1, <2>2, <2>3, <2>4, <2>5, PassesKeeps DEF WorkerInv
<1>5. CASE UNCHANGED <<idle, wk>> /\ Goes(t, "retiring")
  <2>1. "retiring" \in Stages /\ Passes(t, "retiring", w, idle, reap[t])
    BY <1>1, <1>3, <1>5 DEF Passes, HandInv, Stages, w
  <2>2. Owned(t, w, idle, reap[t]) /\ Fits("retiring", w, reap[t])
    BY <1>1, <1>2, OwnsLess DEF Fits, Empty, w
  <2>3. SessionInv'
    BY <1>1, <1>2, <1>3, <2>1, SessionsKeep DEF SessionInv
  <2> QED BY <1>1, <1>2, <2>1, <2>2, <2>3, PassesKeeps DEF WorkerInv
<1> QED BY <1>3, <1>4, <1>5

\* A cleanup that ends, or is cut short, ends the call.
LEMMA CleanupKeeps ==
  ASSUME CallInv, WorkerInv, NEW t \in Tasks, Retired(t) \/ CancelledCleanup(t)
  PROVE  WorkerInv'
<1> DEFINE x == IF pc[t] = "reaping" THEN Head(reap[t]) ELSE wk[t]
<1>1. /\ HandInv /\ Apart /\ SessionInv /\ pc \in [Tasks -> Stages]
      /\ idle \in Seq(Workers) /\ IsInjective(idle)
      /\ pc[t] \in {"reaping", "retiring"} /\ <<>> \in Seq(Workers) /\ IsInjective(<<>>)
      /\ ToSet(<<>>) = {} /\ reap[t] \in Seq(Workers) /\ IsInjective(reap[t])
      /\ pc[t] = "reaping" => reap[t] # <<>>
      /\ pc[t] = "retiring" => reap[t] = <<>> /\ wk[t] # NoWorker
  <2>1. DOMAIN <<>> = {}
    OBVIOUS
  <2>2. IsInjective(<<>>) /\ ToSet(<<>>) = {}
    BY <2>1 DEF IsInjective, ToSet
  <2> QED BY <2>2 DEF WorkerInv, CallInv, HandInv, Apart, Retired, CancelledCleanup, Full
<1>2. /\ CutShort(x) /\ Leaves(t) /\ UNCHANGED <<idle, sweep>> /\ reap' = [reap EXCEPT ![t] = <<>>]
  BY <1>1 DEF Retired, CancelledCleanup, CutShort, pool, HandInv
<1>3. "out" \in Stages /\ Passes(t, "out", NoWorker, idle, <<>>)
  BY <1>2 DEF Leaves, Passes, Stages
<1>4. Owned(t, NoWorker, idle, <<>>) /\ Fits("out", NoWorker, <<>>)
  BY <1>1, OwnsLess DEF Fits, Full
<1>5. /\ x \notin ToSet(idle) /\ x \notin ToSet(sweep)
      /\ \A u \in Tasks \ {t} : x \notin ToSet(reap[u]) /\ x # wk[u]
  <2>1. CASE pc[t] = "reaping"
    <3>1. x \in ToSet(reap[t])
      BY <1>1, <2>1, HeadLeaves
    <3> QED BY <1>1, <3>1 DEF Apart
  <2>2. CASE pc[t] = "retiring"
    <3>1. x = wk[t] /\ wk[t] # NoWorker
      BY <1>1, <2>2
    <3> HIDE DEF x
    <3> QED BY <1>1, <3>1 DEF Apart
  <2> QED BY <1>1, <2>1, <2>2
<1> HIDE DEF x
<1>6. CASE Ended(x)
  <2>1. up' = up \ {x} /\ up' \subseteq Workers /\ dead' \subseteq up' /\ used' \subseteq up' /\ used' \subseteq used
    BY <1>1, <1>6, EndedSessions
  <2>2. SessionInv'
    BY <1>1, <1>3, <1>5, <2>1, SessionsKeep DEF SessionInv
  <2> QED BY <1>1, <1>3, <1>4, <2>2, PassesKeeps DEF WorkerInv
<1>7. CASE UNCHANGED sessions
  <2>1. SessionInv'
    BY <1>1, <1>3, <1>7, SessionsKeep DEF SessionInv, sessions
  <2> QED BY <1>1, <1>3, <1>4, <2>1, PassesKeeps DEF WorkerInv
<1> QED BY <1>2, <1>6, <1>7 DEF CutShort

\* shutdown() takes what is idle, and retires it one by one.
LEMMA ShutdownKeeps ==
  ASSUME WorkerInv, Shutdown \/ Swept \/ ShutdownCancelled
  PROVE  WorkerInv'
<1>1. /\ HandInv /\ Apart /\ SessionInv /\ UNCHANGED <<pc, wk, reap>>
      /\ idle \in Seq(Workers) /\ sweep \in Seq(Workers) /\ IsInjective(idle) /\ IsInjective(sweep)
      /\ <<>> \in Seq(Workers) /\ IsInjective(<<>>) /\ ToSet(<<>>) = {}
  <2>1. DOMAIN <<>> = {}
    OBVIOUS
  <2>2. IsInjective(<<>>) /\ ToSet(<<>>) = {}
    BY <2>1 DEF IsInjective, ToSet
  <2> QED BY <2>2 DEF WorkerInv, HandInv, Apart, Shutdown, Swept, ShutdownCancelled, calls
<1>2. CASE Shutdown
  <2>1. idle' = <<>> /\ sweep' = idle /\ UNCHANGED sessions
    BY <1>2 DEF Shutdown
  <2>2. HandInv' /\ Apart'
    BY <1>1, <2>1 DEF HandInv, Apart
  <2>3. SessionInv'
    BY <1>1, <2>1 DEF SessionInv, CleanSlate, At, sessions
  <2> QED BY <2>2, <2>3 DEF WorkerInv
<1>3. CASE Swept \/ ShutdownCancelled
  <2> DEFINE x == Head(sweep)
  <2>1. /\ Tail(sweep) \in Seq(Workers) /\ IsInjective(Tail(sweep)) /\ x \in ToSet(sweep)
        /\ ToSet(Tail(sweep)) = ToSet(sweep) \ {x}
    BY <1>1, <1>3, HeadLeaves DEF Swept, ShutdownCancelled
  <2>2. /\ UNCHANGED idle /\ (Ended(x) \/ UNCHANGED sessions)
        /\ sweep' \in {Tail(sweep), <<>>}
    <3>1. CASE Swept
      BY <3>1 DEF Swept
    <3>2. CASE ShutdownCancelled
      BY <3>2 DEF ShutdownCancelled, CutShort
    <3> QED BY <1>3, <3>1, <3>2
  <2> HIDE DEF x
  <2>3. sweep' \in Seq(Workers) /\ IsInjective(sweep') /\ ToSet(sweep') \subseteq ToSet(sweep) \ {x}
    BY <1>1, <2>1, <2>2
  <2>4. HandInv' /\ Apart'
    BY <1>1, <2>2, <2>3 DEF HandInv, Apart
  <2>5. \A u \in Tasks : x # wk[u] /\ x \notin ToSet(reap[u])
    BY <1>1, <2>1 DEF Apart
  <2>6. x \notin ToSet(idle)
    BY <1>1, <2>1 DEF Apart
  <2>7. SessionInv'
    <3>1. CASE Ended(x)
      <4>1. up' = up \ {x} /\ up' \subseteq Workers /\ dead' \subseteq up' /\ used' \subseteq up' /\ used' \subseteq used
        BY <1>1, <3>1, EndedSessions
      <4>2. CleanSlate'
        BY <1>1, <4>1 DEF SessionInv, CleanSlate, At
      <4> QED BY <1>1, <2>2, <2>3, <2>5, <2>6, <4>1, <4>2 DEF SessionInv
    <3>2. CASE UNCHANGED sessions
      BY <1>1, <2>2, <2>3, <3>2 DEF SessionInv, CleanSlate, At, sessions
    <3> QED BY <2>2, <3>1, <3>2
  <2> QED BY <2>4, <2>7 DEF WorkerInv
<1> QED BY <1>2, <1>3

LEMMA WorkerInit == Init => WorkerInv
<1> SUFFICES ASSUME Init PROVE WorkerInv
  OBVIOUS
<1>1. DOMAIN <<>> = {}
  OBVIOUS
<1>2. IsInjective(<<>>) /\ ToSet(<<>>) = {}
  BY <1>1 DEF IsInjective, ToSet
<1>3. HandInv /\ Apart
  BY <1>2 DEF Init, HandInv, Apart, Empty, Full
<1>4. SessionInv
  BY <1>2 DEF Init, SessionInv, CleanSlate, At
<1> QED BY <1>3, <1>4 DEF WorkerInv

LEMMA WorkerStep == CallInv /\ WorkerInv /\ [Next]_vars => WorkerInv'
<1> SUFFICES ASSUME CallInv, WorkerInv, [Next]_vars PROVE WorkerInv'
  OBVIOUS
<1>1. CASE UNCHANGED <<calls, idle, sweep, sessions>>
  BY <1>1 DEF WorkerInv, HandInv, Apart, SessionInv, CleanSlate, At, calls, sessions
<1>2. ASSUME NEW t \in Tasks, Send(t) \/ GetsPermit(t) PROVE WorkerInv'
  <2>1. pc[t] \in {"out", "waiting"} /\ UNCHANGED sessions /\ UNCHANGED sweep
    BY <1>2 DEF Send, GetsPermit
  <2>2. CASE GetsWorker(t)
    <3>1. PICK n \in 0..Len(idle), stage \in Stages, v \in Workers \cup {NoWorker} : Pops(t, n, v, stage)
      BY <2>1, <2>2, GetsWorkerPops DEF WorkerInv
    <3> QED BY <2>1, <3>1, PopsKeeps
  <2>3. CASE ~GetsWorker(t)
    <3>1. pc[t] = "out" /\ Goes(t, "waiting") /\ UNCHANGED <<wk, idle, reap>>
      BY <1>2, <2>3 DEF Send, GetsPermit
    <3>2. Passes(t, "waiting", wk[t], idle, reap[t])
      BY <2>1, <3>1 DEF Passes, WorkerInv, HandInv
    <3>3. "waiting" \in Stages \ {"starting", "running"} /\ Fits("waiting", wk[t], reap[t])
      BY <3>1 DEF Fits, WorkerInv, HandInv, Empty, Full, Stages
    <3> QED BY <2>1, <3>1, <3>2, <3>3, StaysKeeps
  <2> QED BY <2>2, <2>3
<1>3. ASSUME NEW t \in Tasks, Cancel(t) PROVE WorkerInv'
  BY <1>1, <1>3 DEF Cancel, pool
<1>4. ASSUME NEW t \in Tasks, StartFails(t) \/ CancelledWaiting(t) PROVE WorkerInv'
  <2>1. /\ pc[t] \in {"starting", "startWait", "waiting"} /\ Goes(t, "out")
        /\ UNCHANGED <<idle, sweep, reap>> /\ UNCHANGED sessions
        /\ \/ wk' = [wk EXCEPT ![t] = NoWorker]
           \/ pc[t] = "waiting" /\ UNCHANGED wk
    BY <1>4 DEF StartFails, CancelledWaiting, Leaves, pool
  <2>2. Passes(t, "out", NoWorker, idle, reap[t])
    BY <2>1 DEF Passes, WorkerInv, HandInv, Empty
  <2>3. "out" \in Stages \ {"starting", "running"} /\ Fits("out", NoWorker, reap[t])
    BY <2>1 DEF Fits, WorkerInv, HandInv, Empty, Full, Stages
  <2> QED BY <2>1, <2>2, <2>3, StaysKeeps
<1>5. CASE \E w \in Workers : Dies(w)
  <2>1. PICK w \in Workers : w \in up /\ dead' = dead \cup {w}
    BY <1>5 DEF Dies
  <2>2. UNCHANGED <<pc, wk, reap, idle, sweep, up, used>>
    BY <1>5 DEF Dies, calls, pool
  <2>3. CleanSlate'
    BY <2>2 DEF WorkerInv, SessionInv, CleanSlate, At
  <2>4. HandInv' /\ Apart'
    BY <2>2 DEF WorkerInv, HandInv, Apart
  <2> QED BY <2>1, <2>2, <2>3, <2>4 DEF WorkerInv, SessionInv
<1>6. CASE UNCHANGED vars
  BY <1>1, <1>6 DEF vars, pool
<1> QED
  BY <1>2, <1>3, <1>4, <1>5, <1>6, ReapedKeeps, GetsStartPermitKeeps, StartedKeeps, ResetSucceedsKeeps,
     ReleaseKeeps, CleanupKeeps, ShutdownKeeps DEF Next, Serves

\* A step never runs on a conversation another step has left its context in:
\* whoever gets a worker, its reset or its start came in between.
THEOREM CleanSlateSafe == Spec => []CleanSlate
<1> DEFINE Inv == PermitInv /\ WorkerInv
<1>1. Init => Inv
  BY PermitInit, WorkerInit
<1>2. Inv /\ [Next]_vars => Inv'
  BY PermitStep, WorkerStep DEF PermitInv
<1>3. Inv => CleanSlate
  BY DEF WorkerInv, SessionInv
<1> QED BY <1>1, <1>2, <1>3, PTL DEF Spec

-----------------------------------------------------------------------------
(***************************************************************************)
(* Accounts.  _created counts the idle workers and the calls that have or  *)
(* will have one, and with the permits that bounds the workers in service. *)
(***************************************************************************)
Serving == Holding \ {"retiring"}

CountInv ==
  /\ created \in Int
  /\ created >= Len(idle) + Cardinality(At(Serving))
  /\ Len(idle) + Cardinality(At(Holding)) <= MaxWorkers
  /\ closing \in BOOLEAN

\* A step of a call: what it adds to the idle workers and to those counted.
LEMMA CountKeeps ==
  ASSUME PermitInv, PermitInv', WorkerInv, WorkerInv', CountInv,
         NEW t \in Tasks, NEW stage \in Stages, Goes(t, stage),
         closing' = closing, created' \in Int,
         created' - created >= (Len(idle') - Len(idle)) + (IF stage \in Serving THEN 1 ELSE 0)
                                 - (IF pc[t] \in Serving THEN 1 ELSE 0),
         \/ idle' = <<>>
         \/ Len(idle') - Len(idle) + (IF stage \in Holding THEN 1 ELSE 0)
              - (IF pc[t] \in Holding THEN 1 ELSE 0) <= 0
  PROVE  CountInv'
<1>1. /\ Len(idle) \in Nat /\ Len(idle') \in Nat /\ pc \in [Tasks -> Stages] /\ MaxWorkers \in Nat
  BY MaxWorkersAssumption DEF WorkerInv, HandInv, PermitInv, CallInv
<1>2. /\ Cardinality(At(Serving)') = Cardinality(At(Serving)) + (IF stage \in Serving THEN 1 ELSE 0)
                                       - (IF pc[t] \in Serving THEN 1 ELSE 0)
      /\ Cardinality(At(Serving)) \in Nat
  BY <1>1, Moves
<1>3. /\ Cardinality(At(Holding)') = Cardinality(At(Holding)) + (IF stage \in Holding THEN 1 ELSE 0)
                                       - (IF pc[t] \in Holding THEN 1 ELSE 0)
      /\ Cardinality(At(Holding)) \in Nat
  BY <1>1, Moves
<1>4. Free(taskSema') \in Nat /\ Free(taskSema') + Cardinality(At(Holding)') = MaxWorkers
  <2>1. InOrder(taskSema') /\ Free(taskSema') + Cardinality(At(Holding)') = MaxWorkers
    BY DEF PermitInv, TaskInv, SemaInv
  <2> QED BY <2>1, FiniteTasks DEF InOrder, Semaphores, Free
<1>5. /\ created \in Int /\ created >= Len(idle) + Cardinality(At(Serving))
      /\ Len(idle) + Cardinality(At(Holding)) <= MaxWorkers
  BY DEF CountInv
<1>6. created' >= Len(idle') + Cardinality(At(Serving)')
  <2> DEFINE a == IF stage \in Serving THEN 1 ELSE 0  b == IF pc[t] \in Serving THEN 1 ELSE 0
             k == Cardinality(At(Serving))  m == Cardinality(At(Serving)')
  <2>1. a \in Int /\ b \in Int /\ k \in Nat /\ m = k + a - b
    BY <1>2
  <2>2. created' - created >= (Len(idle') - Len(idle)) + a - b /\ created >= Len(idle) + k
    BY <1>5
  <2> HIDE DEF a, b, k, m
  <2>3. created' >= Len(idle') + m
    BY <1>1, <1>5, <2>1, <2>2
  <2> QED BY <2>3 DEF m
<1>7. Len(idle') + Cardinality(At(Holding)') <= MaxWorkers
  <2> DEFINE a == IF stage \in Holding THEN 1 ELSE 0  b == IF pc[t] \in Holding THEN 1 ELSE 0
             k == Cardinality(At(Holding))  m == Cardinality(At(Holding)')
  <2>1. a \in Int /\ b \in Int /\ k \in Nat /\ m = k + a - b /\ Len(idle) + k <= MaxWorkers
    BY <1>3, <1>5
  <2>2. idle' = <<>> \/ Len(idle') - Len(idle) + a - b <= 0
    OBVIOUS
  <2>3. Free(taskSema') + m = MaxWorkers
    BY <1>4
  <2> HIDE DEF a, b, k, m
  <2>4. CASE idle' = <<>>
    <3>1. Len(idle') = 0
      BY <2>4
    <3> QED BY <1>1, <1>4, <2>1, <2>3, <3>1 DEF m
  <2>5. CASE Len(idle') - Len(idle) + a - b <= 0
    <3>1. Len(idle') + m <= MaxWorkers
      BY <1>1, <2>1, <2>5
    <3> QED BY <3>1 DEF m
  <2> QED BY <2>2, <2>4, <2>5
<1> QED BY <1>6, <1>7 DEF CountInv

LEMMA CountInit == Init => CountInv
<1> SUFFICES ASSUME Init PROVE CountInv
  OBVIOUS
<1>1. At(Serving) = {} /\ At(Holding) = {} /\ Cardinality({}) = 0
  BY FS_EmptySet DEF Init, At, Holding, Serving
<1>2. created = 0 /\ Len(idle) = 0 /\ closing = FALSE
  BY DEF Init
<1>3. Cardinality(At(Serving)) = 0 /\ Cardinality(At(Holding)) = 0
  BY <1>1
<1>4. 0 >= 0 + 0 /\ 0 + 0 <= MaxWorkers
  BY MaxWorkersAssumption
<1> HIDE DEF At
<1>5. created >= Len(idle) + Cardinality(At(Serving)) /\ Len(idle) + Cardinality(At(Holding)) <= MaxWorkers
  BY <1>2, <1>3, <1>4
<1>6. created \in Int
  BY <1>2
<1>7. closing \in BOOLEAN
  BY <1>2
<1> QED BY <1>5, <1>6, <1>7 DEF CountInv

LEMMA CountStep ==
  PermitInv /\ PermitInv' /\ WorkerInv /\ WorkerInv' /\ CountInv /\ [Next]_vars => CountInv'
<1> SUFFICES ASSUME PermitInv, PermitInv', WorkerInv, WorkerInv', CountInv, [Next]_vars
             PROVE  CountInv'
  OBVIOUS
<1>0. /\ created \in Int /\ Len(idle) \in Nat /\ CallInv
      /\ pc \in [Tasks -> Stages] /\ idle \in Seq(Workers)
  BY DEF CountInv, WorkerInv, HandInv, PermitInv, CallInv
<1>1. CASE UNCHANGED <<pc, idle, created, closing>>
  BY <1>0, <1>1 DEF CountInv, At
<1>2. ASSUME NEW t \in Tasks, Send(t) \/ GetsPermit(t) PROVE CountInv'
  <2>1. pc[t] \in {"out", "waiting"} /\ pc[t] \notin Holding /\ pc[t] \notin Serving /\ UNCHANGED <<closing, sweep>>
    BY <1>2 DEF Send, GetsPermit, Holding, Serving
  <2>2. CASE GetsWorker(t)
    <3>1. PICK n \in 0..Len(idle), stage \in Stages, v \in Workers \cup {NoWorker} : Pops(t, n, v, stage)
      BY <2>1, <2>2, GetsWorkerPops DEF WorkerInv
    <3>2. stage \in Holding /\ stage \in Serving /\ Goes(t, stage) /\ idle' = LeftIdle(n)
      BY <3>1 DEF Pops, Passes, Hands, Holding, Serving, Stages
    <3>3. Len(idle') = (IF n = 0 THEN 0 ELSE n - 1) /\ Len(Doomed(n)) = Len(idle) - n /\ idle' \in Seq(Workers)
      BY <3>2, PopsParts
    <3>4. created' = created - (Len(idle) - n) + (IF n = 0 THEN 1 ELSE 0)
      BY <3>1, <3>3 DEF Pops
    <3>6. CASE n = 0
      <4>1. idle' = <<>>
        BY <3>3, <3>6
      <4> QED BY <1>0, <2>1, <3>2, <3>3, <3>4, <3>6, <4>1, CountKeeps
    <3>7. CASE n > 0
      <4>1. created' - created >= (Len(idle') - Len(idle)) + 1 /\ created' \in Int
        BY <1>0, <3>3, <3>4, <3>7
      <4>2. Len(idle') - Len(idle) + 1 - 0 <= 0
        BY <1>0, <3>3, <3>7
      <4>3. created' - created >= (Len(idle') - Len(idle)) + (IF stage \in Serving THEN 1 ELSE 0)
                                    - (IF pc[t] \in Serving THEN 1 ELSE 0)
        BY <1>0, <2>1, <3>2, <3>3, <4>1
      <4>4. Len(idle') - Len(idle) + (IF stage \in Holding THEN 1 ELSE 0)
              - (IF pc[t] \in Holding THEN 1 ELSE 0) <= 0
        BY <2>1, <3>2, <4>2
      <4> QED BY <2>1, <3>2, <4>1, <4>3, <4>4, CountKeeps
    <3> QED BY <3>6, <3>7
  <2>3. CASE ~GetsWorker(t)
    <3>1. Goes(t, "waiting") /\ UNCHANGED <<idle, created>>
      BY <1>2, <2>3 DEF Send, GetsPermit
    <3> QED BY <1>0, <2>1, <3>1, CountKeeps DEF Stages, Holding, Serving
  <2> QED BY <2>2, <2>3
<1>3. ASSUME NEW t \in Tasks, Cancel(t) PROVE CountInv'
  BY <1>0, <1>1, <1>3 DEF Cancel, pool, calls
<1>4. ASSUME NEW t \in Tasks, Reaped(t) PROVE CountInv'
  <2>1. pc[t] = "reaping" /\ UNCHANGED <<idle, created, closing>>
    BY <1>4 DEF Reaped, pool
  <2>2. CASE UNCHANGED pc
    BY <1>1, <2>1, <2>2
  <2>3. CASE Proceeds(t, wk[t])
    <3>1. wk[t] \in Workers \cup {NoWorker}
      BY DEF WorkerInv, HandInv
    <3>2. PICK stage \in Stages, v \in Workers \cup {NoWorker} : Goes(t, stage) /\ Hands(wk[t], v, stage)
      BY <2>3, <3>1, ProceedsHands
    <3>3. stage \in Serving /\ stage \in Holding /\ pc[t] \in Serving /\ pc[t] \in Holding
      BY <2>1, <3>2 DEF Hands, Serving, Holding, Stages
    <3> QED BY <1>0, <2>1, <3>2, <3>3, CountKeeps
  <2> QED BY <1>4, <2>2, <2>3 DEF Reaped
<1>5. ASSUME NEW t \in Tasks, GetsStartPermit(t) \/ Started(t) \/ ResetSucceeds(t) PROVE CountInv'
  <2>1. PICK stage \in {"starting", "running"} : Goes(t, stage)
    BY <1>5 DEF GetsStartPermit, Started, ResetSucceeds
  <2>2. pc[t] \in {"startWait", "starting", "resetting"} /\ UNCHANGED <<idle, created, closing>>
    BY <1>5 DEF GetsStartPermit, Started, ResetSucceeds, pool
  <2> QED BY <1>0, <2>1, <2>2, CountKeeps DEF Stages, Holding, Serving
<1>6. ASSUME NEW t \in Tasks, StartFails(t) PROVE CountInv'
  <2>1. /\ Goes(t, "out") /\ pc[t] \in {"startWait", "starting"} /\ created' = created - 1
        /\ UNCHANGED <<idle, closing>>
    BY <1>6 DEF StartFails, Leaves
  <2> QED BY <1>0, <2>1, CountKeeps DEF Stages, Holding, Serving
<1>7. ASSUME NEW t \in Tasks, StepReturns(t) \/ StepFails(t) PROVE CountInv'
  <2>1. /\ pc[t] \in {"resetting", "running"} /\ closing' = closing
        /\ \/ Goes(t, "out") /\ idle' = Append(idle, wk[t]) /\ UNCHANGED created
           \/ Goes(t, "retiring") /\ UNCHANGED idle /\ created' = created - 1
    BY <1>7 DEF StepReturns, StepFails, Release, Leaves, OneLess
  <2>2. Len(Append(idle, wk[t])) = Len(idle) + 1
    BY <1>0
  <2>3. CASE Goes(t, "out") /\ idle' = Append(idle, wk[t]) /\ UNCHANGED created
    BY <1>0, <2>1, <2>2, <2>3, CountKeeps DEF Stages, Holding, Serving
  <2>4. CASE Goes(t, "retiring") /\ UNCHANGED idle /\ created' = created - 1
    BY <1>0, <2>1, <2>4, CountKeeps DEF Stages, Holding, Serving
  <2> QED BY <2>1, <2>3, <2>4
<1>8. ASSUME NEW t \in Tasks, Retired(t) \/ CancelledCleanup(t) \/ CancelledWaiting(t) PROVE CountInv'
  <2>1. /\ Goes(t, "out") /\ pc[t] \in {"reaping", "retiring", "waiting"}
        /\ UNCHANGED <<idle, created, closing>>
    BY <1>8 DEF Retired, CancelledCleanup, CancelledWaiting, Leaves, pool
  <2> QED BY <1>0, <2>1, CountKeeps DEF Stages, Holding, Serving
<1>9. CASE Shutdown
  <2>1. UNCHANGED pc /\ closing' = TRUE /\ idle' = <<>> /\ created' = created - Len(idle)
    BY <1>9 DEF Shutdown, calls
  <2>2. At(Serving)' = At(Serving) /\ At(Holding)' = At(Holding)
    BY <2>1 DEF At
  <2>3. Cardinality(At(Serving)) \in Nat /\ Cardinality(At(Holding)) \in Nat /\ Len(idle') = 0
    BY <2>1, FiniteTasks DEF At
  <2> QED BY <1>0, <2>1, <2>2, <2>3, MaxWorkersAssumption DEF CountInv
<1>10. CASE (\E w \in Workers : Dies(w)) \/ Swept \/ ShutdownCancelled
  BY <1>0, <1>1, <1>10 DEF Dies, Swept, ShutdownCancelled, pool, calls
<1>11. CASE UNCHANGED vars
  BY <1>0, <1>1, <1>11 DEF vars, pool, calls
<1> QED BY <1>2, <1>3, <1>4, <1>5, <1>6, <1>7, <1>8, <1>9, <1>10, <1>11 DEF Next, Serves

LEMMA TypesFollow == PermitInv /\ WorkerInv /\ CountInv => TypeOK
<1> SUFFICES ASSUME PermitInv, WorkerInv, CountInv PROVE TypeOK
  OBVIOUS
<1>1. ASSUME NEW s, NEW H \in SUBSET Tasks, NEW max \in Nat, InOrder(s), Free(s) + Cardinality(H) = max
      PROVE  s \in SemaphoreType(max)
  <2>1. s \in Semaphores /\ Cardinality(s.woken) \in Nat /\ Cardinality(H) \in Nat
    BY <1>1, FiniteTasks DEF InOrder, Semaphores
  <2>2. s.value \in 0..max
    BY <1>1, <2>1 DEF Free, Semaphores
  <2> QED BY <2>1, <2>2 DEF Semaphores, SemaphoreType
<1>2. taskSema \in SemaphoreType(MaxWorkers) /\ startSema \in SemaphoreType(MaxStarting)
  <2>1. At(Holding) \in SUBSET Tasks /\ At({"starting"}) \in SUBSET Tasks
    BY DEF At
  <2>2. MaxWorkers \in Nat /\ MaxStarting \in Nat
    BY MaxWorkersAssumption, MaxStartingAssumption
  <2> QED BY <1>1, <2>1, <2>2 DEF PermitInv, TaskInv, StartInv, SemaInv
<1>3. created \in Nat
  <2>1. Len(idle) \in Nat /\ Cardinality(At(Serving)) \in Nat
    BY FiniteTasks DEF WorkerInv, HandInv, At
  <2> QED BY <2>1 DEF CountInv
<1> QED BY <1>2, <1>3 DEF TypeOK, WorkerInv, HandInv, SessionInv, PermitInv, CallInv, CountInv

\* The state keeps its type: no semaphore ever holds more permits than it has,
\* and _created, which several failing paths decrement, never goes negative.
THEOREM TypeSafe == Spec => []TypeOK
<1> DEFINE Inv == PermitInv /\ WorkerInv /\ CountInv
<1>1. Init => Inv
  BY PermitInit, WorkerInit, CountInit
<1>2. Inv /\ [Next]_vars => Inv'
  BY PermitStep, WorkerStep, CountStep DEF PermitInv
<1>3. Inv => TypeOK
  BY TypesFollow
<1> QED BY <1>1, <1>2, <1>3, PTL DEF Spec

-----------------------------------------------------------------------------
(***************************************************************************)
(* Nothing is forgotten, as long as no call is cancelled while it retires a*)
(* worker: then every session is known to the pool, a call that retires    *)
(* workers is not cancelled, and those found dead stay dead.               *)
(***************************************************************************)
Known == ToSet(idle) \cup {wk[t] : t \in Tasks} \cup ToSet(sweep)
           \cup UNION {ToSet(reap[t]) : t \in Tasks}

KnownInv ==
  /\ \A t \in cancelReq : pc[t] \notin {"reaping", "retiring"}
  /\ ~closing => sweep = <<>>
  /\ up \subseteq Known
  /\ \A t \in Tasks : ToSet(reap[t]) \subseteq dead

\* What WorkerInv says of the workers one call has.
LEMMA HandsApart ==
  ASSUME WorkerInv, NEW t \in Tasks
  PROVE  /\ NoWorker \notin up
         /\ wk[t] \in Workers \cup {NoWorker}
         /\ \A u \in Tasks : wk[t] \notin ToSet(reap[u])
         /\ ToSet(reap[t]) \cap ToSet(sweep) = {}
         /\ \A u \in Tasks \ {t} : ToSet(reap[t]) \cap ToSet(reap[u]) = {}
<1>1. HandInv /\ Apart /\ SessionInv
  BY DEF WorkerInv
<1>2. NoWorker \notin up
  BY <1>1, NoWorkerAssumption DEF SessionInv
<1> QED BY <1>1, <1>2 DEF HandInv, Apart

LEMMA KnownKeeps ==
  ASSUME WorkerInv, pc \in [Tasks -> Stages], KnownInv, NEW t \in Tasks, NEW stage, NEW v, NEW q, NEW r,
         Passes(t, stage, v, q, r), closing' = closing, up' \subseteq up \cup {v},
         \A w \in up \cap up' : w \in ToSet(idle) \/ w = wk[t] \/ w \in ToSet(reap[t])
                                  => w \in ToSet(q) \/ w = v \/ w \in ToSet(r),
         cancelReq' \subseteq cancelReq, cancelReq \subseteq Tasks,
         stage \in {"reaping", "retiring"} => t \notin cancelReq',
         ToSet(r) \subseteq dead', \A u \in Tasks \ {t} : ToSet(reap[u]) \subseteq dead'
  PROVE  KnownInv'
<1>1. /\ \A u \in Tasks : /\ pc'[u] = IF u = t THEN stage ELSE pc[u]
                          /\ wk'[u] = IF u = t THEN v ELSE wk[u]
                          /\ reap'[u] = IF u = t THEN r ELSE reap[u]
      /\ idle' = q /\ sweep' = sweep
  BY DEF Passes, Goes, WorkerInv, HandInv
<1>2. up' \subseteq Known'
  <2> SUFFICES ASSUME NEW w \in up' PROVE w \in Known'
    OBVIOUS
  <2>1. CASE w = v \/ w \in ToSet(q) \/ w \in ToSet(r)
    BY <1>1, <2>1 DEF Known
  <2>2. CASE w \in up /\ ~(w \in ToSet(q) \/ w = v \/ w \in ToSet(r))
    <3>1. w \notin ToSet(idle) /\ w # wk[t] /\ w \notin ToSet(reap[t]) /\ w \in Known
      BY <2>2 DEF KnownInv
    <3>2. CASE w \in ToSet(sweep)
      BY <1>1, <3>2 DEF Known
    <3>3. ASSUME NEW u \in Tasks, w = wk[u] \/ w \in ToSet(reap[u]) PROVE w \in Known'
      <4>1. u # t
        BY <3>1, <3>3
      <4>2. w = wk'[u] \/ w \in ToSet(reap'[u])
        BY <1>1, <3>3, <4>1
      <4> QED BY <4>2 DEF Known
    <3> QED BY <3>1, <3>2, <3>3 DEF Known
  <2> QED BY <2>1, <2>2
<1>3. \A u \in cancelReq' : pc'[u] \notin {"reaping", "retiring"}
  BY <1>1 DEF KnownInv
<1>4. \A u \in Tasks : ToSet(reap'[u]) \subseteq dead'
  BY <1>1
<1> QED BY <1>1, <1>2, <1>3, <1>4 DEF KnownInv

\* A step of t that keeps every worker but one whose session ends.
LEMMA KnownStays ==
  ASSUME WorkerInv, CallInv, KnownInv, NEW t \in Tasks, NEW stage, NEW v,
         Passes(t, stage, v, idle, reap[t]), closing' = closing, UNCHANGED <<up, dead>>,
         v = wk[t] \/ wk[t] \notin up, cancelReq' \subseteq cancelReq,
         stage \in {"reaping", "retiring"} => t \notin cancelReq'
  PROVE  KnownInv'
BY KnownKeeps DEF KnownInv, CallInv

LEMMA PopsKnown ==
  ASSUME CallInv, WorkerInv, KnownInv, NEW t \in Tasks, NEW n \in 0..Len(idle),
         NEW stage \in Stages, NEW v \in Workers \cup {NoWorker}, Pops(t, n, v, stage),
         pc[t] \in {"out", "waiting"}, t \notin cancelReq,
         UNCHANGED sessions, UNCHANGED <<cancelReq, closing>>
  PROVE  KnownInv'
<1> DEFINE q == LeftIdle(n)  r == Doomed(n)  w == Found(n)
<1>1. /\ ToSet(idle) = ToSet(q) \cup ToSet(r) \cup (IF n = 0 THEN {} ELSE {w})
      /\ \A x \in ToSet(r) : x \in dead
      /\ n = 0 => w = NoWorker
  <2>1. /\ ToSet(idle) = ToSet(q) \cup ToSet(r) \cup (IF n = 0 THEN {} ELSE {w})
        /\ \A x \in ToSet(r) : \E i \in (n + 1)..Len(idle) : x = idle[i]
    BY PopsParts
  <2>2. \A i \in (n + 1)..Len(idle) : idle[i] \in dead
    BY DEF Pops
  <2>3. n = 0 => w = NoWorker
    BY DEF Found
  <2> HIDE DEF q, r, w
  <2> QED BY <2>1, <2>2, <2>3
<1>2. /\ Passes(t, stage, v, q, r)
      /\ IF r = <<>> THEN Hands(w, v, stage) ELSE stage = "reaping" /\ v = w
  BY DEF Pops
<1>3. wk[t] = NoWorker /\ NoWorker \notin up /\ reap[t] = <<>>
  BY NoWorkerAssumption DEF WorkerInv, HandInv, SessionInv, Empty
<1>4. w # NoWorker => v = w
  BY <1>2 DEF Hands
<1>5. ToSet(<<>>) = {}
  <2>1. DOMAIN <<>> = {}
    OBVIOUS
  <2> QED BY <2>1 DEF ToSet
<1> HIDE DEF q, r, w
<1>6. \A x \in up : x \in ToSet(idle) \/ x = wk[t] \/ x \in ToSet(reap[t])
                      => x \in ToSet(q) \/ x = v \/ x \in ToSet(r)
  <2>1. n # 0 => \A x \in up : x = w => x = v
    BY <1>3, <1>4
  <2> QED BY <1>1, <1>3, <1>5, <2>1
<1>7. /\ up' = up /\ dead' = dead /\ cancelReq' = cancelReq /\ cancelReq \subseteq Tasks
      /\ pc \in [Tasks -> Stages]
  BY DEF sessions, CallInv
<1>8. \A u \in Tasks : ToSet(reap[u]) \subseteq dead
  BY DEF KnownInv
<1> QED BY <1>1, <1>2, <1>6, <1>7, <1>8, KnownKeeps

LEMMA ReapedKnown ==
  ASSUME CallInv, WorkerInv, KnownInv, NEW t \in Tasks, Reaped(t)
  PROVE  KnownInv'
<1> DEFINE r == Tail(reap[t])  x == Head(reap[t])
<1>1. /\ HandInv /\ SessionInv /\ pc \in [Tasks -> Stages] /\ pc[t] = "reaping"
      /\ reap[t] \in Seq(Workers) /\ reap[t] # <<>> /\ IsInjective(reap[t])
  BY DEF WorkerInv, CallInv, HandInv, Apart, Reaped
<1>2. ToSet(r) = ToSet(reap[t]) \ {x} /\ x \in ToSet(reap[t])
  BY <1>1, HeadLeaves
<1>3. PICK stage \in Stages, v \in Workers \cup {NoWorker} :
        /\ Passes(t, stage, v, idle, r)
        /\ IF r = <<>> THEN Hands(wk[t], v, stage) ELSE stage = "reaping" /\ v = wk[t]
  BY <1>1, ReapedPasses
<1>4. /\ up' = up \ {x} /\ dead' = dead \ {x} /\ UNCHANGED <<cancelReq, closing>>
      /\ t \notin cancelReq /\ cancelReq \subseteq Tasks
  BY DEF Reaped, Ended, pool, CallInv
<1> HIDE DEF r, x
<1>5. ToSet(r) \subseteq dead' /\ \A u \in Tasks \ {t} : ToSet(reap[u]) \subseteq dead'
  BY <1>2, <1>4, HandsApart DEF KnownInv
<1>6. NoWorker \notin up /\ (wk[t] # NoWorker => v = wk[t])
  BY <1>3, HandsApart DEF Hands
<1> QED BY <1>1, <1>2, <1>3, <1>4, <1>5, <1>6, KnownKeeps

LEMMA StartedKnown ==
  ASSUME CallInv, WorkerInv, KnownInv, NEW t \in Tasks, Started(t)
  PROVE  KnownInv'
<1>1. /\ HandInv /\ pc \in [Tasks -> Stages] /\ cancelReq \subseteq Tasks
      /\ \A u \in Tasks : ToSet(reap[u]) \subseteq dead
  BY DEF WorkerInv, CallInv, KnownInv
<1>2. /\ Goes(t, "running") /\ UNCHANGED <<wk, reap, idle, sweep, cancelReq, closing, dead>>
      /\ up' = up \cup {wk[t]}
  BY DEF Started, pool
<1>3. Passes(t, "running", wk[t], idle, reap[t])
  BY <1>1, <1>2 DEF Passes, HandInv
<1> QED BY <1>1, <1>2, <1>3, KnownKeeps

LEMMA ReleaseKnown ==
  ASSUME CallInv, WorkerInv, KnownInv, NEW t \in Tasks, StepReturns(t) \/ StepFails(t)
  PROVE  KnownInv'
<1> DEFINE w == wk[t]
<1>1. /\ HandInv /\ pc \in [Tasks -> Stages] /\ cancelReq \subseteq Tasks
      /\ pc[t] \in {"resetting", "running"} /\ w \in Workers /\ w # NoWorker
      /\ idle \in Seq(Workers) /\ IsInjective(idle) /\ w \notin ToSet(idle)
      /\ \A u \in Tasks : ToSet(reap[u]) \subseteq dead
  BY DEF WorkerInv, CallInv, KnownInv, HandInv, Apart, StepReturns, StepFails, Full
<1>2. /\ UNCHANGED <<up, dead, reap, sweep, closing>> /\ cancelReq' \subseteq cancelReq /\ t \notin cancelReq'
      /\ \/ idle' = Append(idle, w) /\ Leaves(t)
         \/ UNCHANGED <<idle, wk>> /\ Goes(t, "retiring")
  BY DEF StepReturns, StepFails, Release
<1> HIDE DEF w
<1>3. CASE idle' = Append(idle, w) /\ Leaves(t)
  <2>1. ToSet(Append(idle, w)) = ToSet(idle) \cup {w}
    BY <1>1, LastJoins
  <2>2. Passes(t, "out", NoWorker, Append(idle, w), reap[t])
    BY <1>1, <1>2, <1>3 DEF Leaves, Passes, HandInv
  <2> QED BY <1>1, <1>2, <2>1, <2>2, KnownKeeps DEF w
<1>4. CASE UNCHANGED <<idle, wk>> /\ Goes(t, "retiring")
  <2>1. Passes(t, "retiring", w, idle, reap[t])
    BY <1>1, <1>2, <1>4 DEF Passes, HandInv, w
  <2> QED BY <1>1, <1>2, <2>1, KnownKeeps DEF w
<1> QED BY <1>2, <1>3, <1>4

LEMMA RetiredKnown ==
  ASSUME CallInv, WorkerInv, KnownInv, NEW t \in Tasks, Retired(t)
  PROVE  KnownInv'
<1>1. /\ HandInv /\ pc \in [Tasks -> Stages] /\ cancelReq \subseteq Tasks
      /\ pc[t] = "retiring" /\ wk[t] # NoWorker
      /\ \A u \in Tasks : ToSet(reap[u]) \subseteq dead
  BY DEF WorkerInv, CallInv, KnownInv, HandInv, Retired, Full
<1>2. /\ up' = up \ {wk[t]} /\ dead' = dead \ {wk[t]} /\ Leaves(t)
      /\ UNCHANGED <<reap, idle, sweep, closing, cancelReq>>
  BY DEF Retired, Ended, pool
<1>3. Passes(t, "out", NoWorker, idle, reap[t])
  BY <1>1, <1>2 DEF Leaves, Passes, HandInv
<1>4. \A u \in Tasks : ToSet(reap[u]) \subseteq dead'
  BY <1>1, <1>2, HandsApart
<1> QED BY <1>1, <1>2, <1>3, <1>4, KnownKeeps

LEMMA ShutdownKnown ==
  ASSUME WorkerInv, KnownInv, Shutdown \/ Swept
  PROVE  KnownInv'
<1>1. UNCHANGED <<pc, wk, reap, cancelReq>> /\ ToSet(<<>>) = {}
  <2>1. DOMAIN <<>> = {}
    OBVIOUS
  <2> QED BY <2>1 DEF ToSet, Shutdown, Swept, calls
<1>2. CASE Shutdown
  <2>1. closing' = TRUE /\ idle' = <<>> /\ sweep = <<>> /\ sweep' = idle /\ UNCHANGED <<up, dead>>
    BY <1>2 DEF Shutdown, KnownInv, sessions
  <2> QED BY <1>1, <2>1 DEF KnownInv, Known
<1>3. CASE Swept
  <2> DEFINE x == Head(sweep)  r == Tail(sweep)
  <2>1. sweep \in Seq(Workers) /\ IsInjective(sweep) /\ sweep # <<>>
    BY <1>3 DEF Swept, WorkerInv, HandInv, Apart
  <2>2. ToSet(r) = ToSet(sweep) \ {x} /\ x \in ToSet(sweep)
    BY <2>1, HeadLeaves
  <2>3. up' = up \ {x} /\ dead' = dead \ {x} /\ sweep' = r /\ UNCHANGED <<idle, closing>>
    BY <1>3 DEF Swept, Ended
  <2> HIDE DEF x, r
  <2>4. closing
    BY <2>1 DEF KnownInv
  <2>5. up' \subseteq Known'
    BY <1>1, <2>2, <2>3 DEF KnownInv, Known
  <2>6. \A u \in Tasks : ToSet(reap[u]) \subseteq dead'
    BY <2>2, <2>3, HandsApart DEF KnownInv
  <2> QED BY <1>1, <2>3, <2>4, <2>5, <2>6 DEF KnownInv
<1> QED BY <1>2, <1>3

LEMMA KnownInit == Init => KnownInv
<1> SUFFICES ASSUME Init PROVE KnownInv
  OBVIOUS
<1>1. DOMAIN <<>> = {}
  OBVIOUS
<1> QED BY <1>1 DEF Init, KnownInv, Known, ToSet

LEMMA KnownStep ==
  ASSUME "cancelCleanup" \notin Events, CallInv, WorkerInv, KnownInv, [Next]_vars
  PROVE  KnownInv'
<1>0. HandInv /\ SessionInv /\ pc \in [Tasks -> Stages] /\ NoWorker \notin up /\ cancelReq \subseteq Tasks
  BY NoWorkerAssumption DEF WorkerInv, CallInv, SessionInv
<1>1. CASE UNCHANGED <<calls, idle, sweep, closing, cancelReq, up>> /\ dead \subseteq dead'
  BY <1>1 DEF KnownInv, Known, calls
<1>2. ASSUME NEW t \in Tasks, Send(t) \/ GetsPermit(t) PROVE KnownInv'
  <2>1. /\ pc[t] \in {"out", "waiting"} /\ UNCHANGED sessions /\ UNCHANGED <<sweep, closing, cancelReq>>
        /\ t \notin cancelReq
    BY <1>2 DEF Send, GetsPermit, CallInv
  <2>2. CASE GetsWorker(t)
    <3>1. PICK n \in 0..Len(idle), stage \in Stages, v \in Workers \cup {NoWorker} : Pops(t, n, v, stage)
      BY <1>0, <2>1, <2>2, GetsWorkerPops
    <3> QED BY <2>1, <3>1, PopsKnown
  <2>3. CASE ~GetsWorker(t)
    <3>1. Goes(t, "waiting") /\ UNCHANGED <<wk, idle, reap>>
      BY <1>2, <2>3 DEF Send, GetsPermit
    <3>2. Passes(t, "waiting", wk[t], idle, reap[t])
      BY <1>0, <2>1, <3>1 DEF Passes, HandInv
    <3> QED BY <2>1, <3>2, KnownStays DEF sessions
  <2> QED BY <2>2, <2>3
<1>3. ASSUME NEW t \in Tasks, Cancel(t) PROVE KnownInv'
  <2>1. /\ pc[t] \notin {"reaping", "retiring"} /\ cancelReq' = cancelReq \cup {t}
        /\ UNCHANGED <<calls, idle, sweep, closing, up, dead>>
    BY <1>3 DEF Cancel, pool, sessions
  <2> QED BY <2>1 DEF KnownInv, Known, calls
<1>4. ASSUME NEW t \in Tasks, CancelledWaiting(t) \/ StartFails(t) PROVE KnownInv'
  <2>1. /\ Goes(t, "out") /\ UNCHANGED <<idle, sweep, reap, up, dead, closing>> /\ cancelReq' \subseteq cancelReq
        /\ pc[t] \in {"waiting", "startWait", "starting"}
        /\ \/ wk' = [wk EXCEPT ![t] = NoWorker]
           \/ pc[t] = "waiting" /\ UNCHANGED wk
    BY <1>4 DEF StartFails, CancelledWaiting, Leaves, pool, sessions
  <2>2. Passes(t, "out", NoWorker, idle, reap[t])
    BY <1>0, <2>1 DEF Passes, HandInv, Empty
  <2>3. wk[t] \notin up
    BY <1>0, <2>1 DEF SessionInv, HandInv, Empty
  <2> QED BY <2>1, <2>2, <2>3, KnownStays
<1>5. ASSUME NEW t \in Tasks, GetsStartPermit(t) PROVE KnownInv'
  <2>1. PICK v \in Fresh : wk' = [wk EXCEPT ![t] = v]
    BY <1>5 DEF GetsStartPermit
  <2>2. /\ Goes(t, "starting") /\ UNCHANGED <<idle, sweep, reap, up, dead, closing, cancelReq>>
        /\ pc[t] = "startWait"
    BY <1>5 DEF GetsStartPermit, pool, sessions
  <2>3. Passes(t, "starting", v, idle, reap[t])
    BY <1>0, <2>1, <2>2 DEF Passes, HandInv
  <2>4. wk[t] \notin up
    BY <1>0, <2>2 DEF HandInv, Empty
  <2> QED BY <2>2, <2>3, <2>4, KnownStays
<1>6. ASSUME NEW t \in Tasks, ResetSucceeds(t) PROVE KnownInv'
  <2>1. /\ Goes(t, "running") /\ UNCHANGED <<wk, idle, sweep, reap, up, closing, cancelReq>>
        /\ dead' = dead \ {wk[t]}
    BY <1>6 DEF ResetSucceeds, pool
  <2>2. Passes(t, "running", wk[t], idle, reap[t])
    BY <1>0, <2>1 DEF Passes, HandInv
  <2>3. \A u \in Tasks : ToSet(reap[u]) \subseteq dead'
    BY <2>1, HandsApart DEF KnownInv
  <2> QED BY <1>0, <2>1, <2>2, <2>3, KnownKeeps
<1>7. CASE \E w \in Workers : Dies(w)
  BY <1>1, <1>7 DEF Dies, pool
<1>8. CASE UNCHANGED vars
  BY <1>1, <1>8 DEF vars, pool, sessions
<1>9. ~ShutdownCancelled /\ \A t \in Tasks : ~CancelledCleanup(t)
  BY DEF ShutdownCancelled, CancelledCleanup, KnownInv
<1> QED
  BY <1>2, <1>3, <1>4, <1>5, <1>6, <1>7, <1>8, <1>9, ReapedKnown, StartedKnown, ReleaseKnown, RetiredKnown,
     ShutdownKnown DEF Next, Serves

\* Every live worker is idle, in the hands of a call, or one that is still to
\* be retired, unless a cancellation hits a cleanup (the run wp_forgets shows
\* what is forgotten then).
THEOREM NoneForgottenSafe ==
  ASSUME "cancelCleanup" \notin Events
  PROVE  Spec => []NoneForgotten
<1> DEFINE Inv == PermitInv /\ WorkerInv /\ KnownInv
<1>1. Init => Inv
  BY PermitInit, WorkerInit, KnownInit
<1>2. Inv /\ [Next]_vars => Inv'
  BY PermitStep, WorkerStep, KnownStep DEF PermitInv
<1>3. Inv => NoneForgotten
  BY DEF KnownInv, Known, NoneForgotten
<1> QED BY <1>1, <1>2, <1>3, PTL DEF Spec

\* Workers that are in a queue or in the hands of some calls.
LEMMA AtMost ==
  ASSUME NEW S \in SUBSET Tasks, NEW q \in Seq(Workers), NEW f \in [Tasks -> Workers \cup {NoWorker}],
         NEW T, T \subseteq ToSet(q) \cup {f[t] : t \in S}
  PROVE  Cardinality(T) \in Nat /\ Cardinality(T) <= Len(q) + Cardinality(S)
<1> DEFINE A == ToSet(q)  B == {f[t] : t \in S}
<1>1. IsFiniteSet(A) /\ Cardinality(A) <= Len(q)
  <2>1. Len(q) \in Nat /\ DOMAIN q = 1..Len(q) /\ q \in [1..Len(q) -> A]
    BY DEF ToSet
  <2>2. q \in Surjection(1..Len(q), A)
    BY <2>1 DEF Surjection, ToSet
  <2>3. IsFiniteSet(1..Len(q)) /\ Cardinality(1..Len(q)) = Len(q)
    <3>1. \A n \in Nat : (IF 1 > n THEN 0 ELSE n - 1 + 1) = n
      OBVIOUS
    <3>2. /\ IsFiniteSet(1..Len(q))
          /\ Cardinality(1..Len(q)) = IF 1 > Len(q) THEN 0 ELSE Len(q) - 1 + 1
      BY <2>1, FS_Interval
    <3> QED BY <2>1, <3>1, <3>2
  <2> HIDE DEF A
  <2> QED BY <2>2, <2>3, FS_Surjection
<1>2. IsFiniteSet(B) /\ Cardinality(B) <= Cardinality(S)
  <2> DEFINE g == [t \in S |-> f[t]]
  <2>1. g \in Surjection(S, B)
    BY DEF Surjection
  <2> HIDE DEF g, B
  <2> QED BY <2>1, FiniteTasks, FS_Surjection
<1>3. /\ IsFiniteSet(A \cup B) /\ Cardinality(A \cup B) = Cardinality(A) + Cardinality(B) - Cardinality(A \cap B)
      /\ Cardinality(A) \in Nat /\ Cardinality(B) \in Nat /\ Cardinality(A \cap B) \in Nat
  <2>1. IsFiniteSet(A \cap B)
    <3>1. A \cap B \in SUBSET A
      OBVIOUS
    <3> HIDE DEF A, B
    <3> QED BY <1>1, <3>1, FS_Subset
  <2> HIDE DEF A, B
  <2> QED BY <1>1, <1>2, <2>1, FS_Union, FS_CardinalityType
<1>4. T \in SUBSET (A \cup B)
  OBVIOUS
<1> HIDE DEF A, B
<1>5. IsFiniteSet(T) /\ Cardinality(T) <= Cardinality(A \cup B)
  BY <1>3, <1>4, FS_Subset
<1>6. Cardinality(T) \in Nat /\ Cardinality(S) \in Nat /\ Len(q) \in Nat /\ Cardinality(A \cup B) \in Int
  BY <1>3, <1>5, FiniteTasks, FS_CardinalityType
<1> QED BY <1>1, <1>2, <1>3, <1>5, <1>6

LEMMA LiveFollows ==
  ASSUME PermitInv, WorkerInv, CountInv, KnownInv
  PROVE  LiveBounded
<1> DEFINE retiring == ToSet(sweep) \cup {wk[t] : t \in At({"retiring"})}
           live == up \ (dead \cup retiring)
<1>1. live \subseteq ToSet(idle) \cup {wk[t] : t \in At(Serving)}
  <2> SUFFICES ASSUME NEW w \in live, w \notin ToSet(idle) PROVE w \in {wk[t] : t \in At(Serving)}
    OBVIOUS
  <2>1. w \in up /\ w \notin dead /\ w \notin ToSet(sweep) /\ w \in Known
    BY DEF KnownInv
  <2>2. PICK t \in Tasks : w = wk[t]
    BY <2>1 DEF Known, KnownInv
  <2>3. pc[t] # "retiring"
    BY <2>2 DEF At
  <2>4. wk[t] # NoWorker
    BY <2>1, <2>2, HandsApart
  <2>5. pc[t] \in Serving
    BY <2>3, <2>4 DEF WorkerInv, HandInv, PermitInv, CallInv, Serving, Holding, Stages, Empty
  <2> QED BY <2>2, <2>5 DEF At
<1>2. /\ At(Serving) \in SUBSET Tasks /\ At(Holding) \in SUBSET Tasks /\ At(Serving) \in SUBSET At(Holding)
      /\ idle \in Seq(Workers) /\ wk \in [Tasks -> Workers \cup {NoWorker}]
  BY DEF At, Serving, WorkerInv, HandInv
<1>3. Cardinality(live) \in Nat /\ Cardinality(live) <= Len(idle) + Cardinality(At(Serving))
  <2> HIDE DEF live
  <2> QED BY <1>1, <1>2, AtMost
<1>4. Cardinality(At(Serving)) <= Cardinality(At(Holding))
  BY <1>2, FiniteTasks, FS_Subset
<1>5. Len(idle) + Cardinality(At(Holding)) <= MaxWorkers /\ MaxWorkers \in Nat /\ Len(idle) \in Nat
  BY <1>2, MaxWorkersAssumption DEF CountInv
<1>6. Cardinality(At(Holding)) \in Nat /\ Cardinality(At(Serving)) \in Nat
  BY <1>2, FiniteTasks
<1>7. Cardinality(live) <= MaxWorkers
  <2> HIDE DEF live
  <2> QED BY <1>3, <1>4, <1>5, <1>6
<1> QED BY <1>7 DEF LiveBounded

\* There are never more live sessions than _max_workers, but for those that
\* are being shut down, unless a cancellation hits a cleanup.
THEOREM LiveSafe ==
  ASSUME "cancelCleanup" \notin Events
  PROVE  Spec => []LiveBounded
<1> DEFINE Inv == PermitInv /\ WorkerInv /\ CountInv /\ KnownInv
<1>1. Init => Inv
  BY PermitInit, WorkerInit, CountInit, KnownInit
<1>2. Inv /\ [Next]_vars => Inv'
  BY PermitStep, WorkerStep, CountStep, KnownStep DEF PermitInv
<1>3. Inv => LiveBounded
  BY LiveFollows
<1> QED BY <1>1, <1>2, <1>3, PTL DEF Spec

-----------------------------------------------------------------------------
(***************************************************************************)
(* The pool implements WorkerLeases.  A worker's holder is the one call    *)
(* that has it and does not retire it, and every step of the pool changes  *)
(* the holders the way a step of the leases does, or not at all.           *)
(***************************************************************************)
Holds(t, w) == wk[t] = w /\ pc[t] # "retiring"

HolderIs(w) ==
  /\ \A t \in Tasks : Holds(t, w) => Holder(w) = t
  /\ w \in ToSet(idle) => Holder(w) = "idle"
  /\ (\A t \in Tasks : ~Holds(t, w)) /\ w \notin ToSet(idle) => Holder(w) = "out"

LEMMA HolderUnique == WorkerInv => \A w \in Workers : HolderIs(w)
<1> SUFFICES ASSUME WorkerInv, NEW w \in Workers PROVE HolderIs(w)
  OBVIOUS
<1>1. \A t, u \in Tasks : Holds(t, w) /\ Holds(u, w) => t = u
  BY NoWorkerAssumption DEF Holds, WorkerInv, Apart
<1>2. w \in ToSet(idle) => \A t \in Tasks : ~Holds(t, w)
  BY DEF Holds, WorkerInv, Apart
<1>3. ASSUME NEW t \in Tasks, Holds(t, w) PROVE Holder(w) = t
  <2>1. \E u \in Tasks : wk[u] = w /\ pc[u] # "retiring"
    BY <1>3 DEF Holds
  <2>2. Holder(w) = CHOOSE u \in Tasks : wk[u] = w /\ pc[u] # "retiring"
    BY <2>1 DEF Holder
  <2>3. Holder(w) \in Tasks /\ Holds(Holder(w), w)
    BY <2>1, <2>2 DEF Holds
  <2> QED BY <1>1, <1>3, <2>3
<1>4. ASSUME \A t \in Tasks : ~Holds(t, w) PROVE Holder(w) = IF w \in ToSet(idle) THEN "idle" ELSE "out"
  BY <1>4 DEF Holder, Holds
<1> QED BY <1>2, <1>3, <1>4 DEF HolderIs

LEMMA HolderNext == (WorkerInv => \A w \in Workers : HolderIs(w))'
BY HolderUnique, PTL

\* The holders after a step of t.
LEMMA HolderPasses ==
  ASSUME WorkerInv, WorkerInv', pc \in [Tasks -> Stages], NEW t \in Tasks, NEW stage, NEW v, NEW q, NEW r,
         Passes(t, stage, v, q, r), NEW w \in Workers
  PROVE  Holder(w)' = IF w = v /\ stage # "retiring" THEN t
                      ELSE IF w \in ToSet(q) THEN "idle"
                      ELSE IF Holds(t, w) \/ w \in ToSet(idle) THEN "out"
                      ELSE Holder(w)
<1>1. HolderIs(w) /\ HolderIs(w)'
  BY HolderUnique, HolderNext
<1>2. /\ \A u \in Tasks : Holds(u, w)' <=> IF u = t THEN w = v /\ stage # "retiring" ELSE Holds(u, w)
      /\ idle' = q
  BY DEF Passes, Goes, Holds, WorkerInv, HandInv
<1>3. \A u \in Tasks : Holds(t, w) /\ Holds(u, w) => t = u
  BY NoWorkerAssumption DEF Holds, WorkerInv, Apart
<1>4. w \in ToSet(idle) => \A u \in Tasks : ~Holds(u, w)
  BY DEF Holds, WorkerInv, Apart
<1> QED BY <1>1, <1>2, <1>3, <1>4 DEF HolderIs

\* The steps of the leases in terms of Holder.
LEMMA NothingHappens ==
  ASSUME \A w \in Workers : Holder(w)' = Holder(w)
  PROVE  UNCHANGED [w \in Workers |-> Holder(w)]
OBVIOUS

LEMMA ReturnHappens ==
  ASSUME NEW x \in Workers, Holder(x) \in Tasks,
         \A w \in Workers : Holder(w)' = IF w = x THEN "idle" ELSE Holder(w)
  PROVE  Leases!Next
<1>1. Leases!Return(x)
  BY DEF Leases!Return
<1> QED BY <1>1 DEF Leases!Next

LEMMA WithdrawHappens ==
  ASSUME NEW x \in Workers, Holder(x) \in Tasks,
         \A w \in Workers : Holder(w)' = IF w = x THEN "out" ELSE Holder(w)
  PROVE  Leases!Next
<1>1. Leases!Withdraw(x)
  BY DEF Leases!Withdraw
<1> QED BY <1>1 DEF Leases!Next

LEMMA DiscardHappens ==
  ASSUME NEW D \in SUBSET Workers, \A w \in D : Holder(w) = "idle",
         \A w \in Workers : Holder(w)' = IF w \in D THEN "out" ELSE Holder(w)
  PROVE  Leases!Next
<1>1. D \in SUBSET Leases!Idle
  BY DEF Leases!Idle
<1>2. [w \in Workers |-> Holder(w)]' = Leases!Without(D)
  BY DEF Leases!Without
<1> QED BY <1>1, <1>2 DEF Leases!Next, Leases!Discard

LEMMA LeaseHappens ==
  ASSUME NEW t \in Tasks, \A w \in Workers : Holder(w) # t,
         NEW D \in SUBSET Workers, \A w \in D : Holder(w) = "idle",
         NEW x \in Workers \ D, Holder(x) \in {"idle", "out"},
         \A w \in Workers : Holder(w)' = IF w = x THEN t ELSE IF w \in D THEN "out" ELSE Holder(w),
         Holder(x) = "out" => Cardinality({w \in Workers : Holder(w) # "out"} \ D) < MaxWorkers
  PROVE  Leases!Next
<1>1. D \in SUBSET Leases!Idle
  BY DEF Leases!Idle
<1>2. [w \in Workers |-> Holder(w)]' = [Leases!Without(D) EXCEPT ![x] = t]
  BY DEF Leases!Without
<1>3. Leases!InService = {w \in Workers : Holder(w) # "out"}
  BY DEF Leases!InService
<1>4. Leases!Cardinality(Leases!InService \ D) = Cardinality(Leases!InService \ D)
  BY DEF Leases!Cardinality, Cardinality
<1>5. Leases!Lease(t)
  BY <1>1, <1>2, <1>3, <1>4 DEF Leases!Lease
<1> QED BY <1>5 DEF Leases!Next

\* A call without a worker holds none.
LEMMA HoldsNone ==
  ASSUME WorkerInv, NEW t \in Tasks, wk[t] = NoWorker
  PROVE  \A w \in Workers : Holder(w) # t
<1> SUFFICES ASSUME NEW w \in Workers, Holder(w) = t PROVE FALSE
  OBVIOUS
<1>1. HolderIs(w) /\ w # NoWorker
  BY HolderUnique, NoWorkerAssumption
<1>2. t # "idle" /\ t # "out"
  BY TasksAssumption
<1>3. ~Holds(t, w)
  BY <1>1 DEF Holds
<1> QED BY <1>1, <1>2, <1>3 DEF HolderIs

\* A call that starts a worker leases it: there is room, since the call has a
\* permit and no worker.
LEMMA FreshLease ==
  ASSUME WorkerInv, WorkerInv', PermitInv, PermitInv', CountInv', NEW t \in Tasks,
         NEW v \in Fresh, NEW q, NEW r, wk[t] = NoWorker, ToSet(q) \subseteq ToSet(idle),
         Passes(t, "starting", v, q, r)
  PROVE  Leases!Next
<1> DEFINE D == ToSet(idle) \ ToSet(q)
           S == At(Holding)' \ {t}
           T == {w \in Workers : Holder(w) # "out"} \ D
<1>1. /\ HandInv /\ HandInv' /\ SessionInv /\ pc \in [Tasks -> Stages] /\ pc' \in [Tasks -> Stages]
      /\ ToSet(idle) \subseteq Workers /\ NoWorker \notin up
  BY NoWorkerAssumption DEF WorkerInv, SessionInv, PermitInv, CallInv
<1>2. /\ \A u \in Tasks \ {t} : wk'[u] = wk[u] /\ pc'[u] = pc[u]
      /\ pc'[t] = "starting" /\ idle' = q
  BY <1>1 DEF Passes, Goes, HandInv
<1>3. \A w \in Workers : HolderIs(w)
  BY HolderUnique
<1>4. v \in Workers /\ v \notin ToSet(idle) /\ \A u \in Tasks : wk[u] # v
  BY <1>1 DEF Fresh, SessionInv
<1>5. Holder(v) = "out"
  BY <1>3, <1>4 DEF HolderIs, Holds
<1>6. \A w \in Workers : ~Holds(t, w)
  BY NoWorkerAssumption DEF Holds
<1>7. \A w \in Workers : Holder(w)' = IF w = v THEN t ELSE IF w \in D THEN "out" ELSE Holder(w)
  <2> SUFFICES ASSUME NEW w \in Workers
               PROVE  Holder(w)' = IF w = v THEN t ELSE IF w \in D THEN "out" ELSE Holder(w)
    OBVIOUS
  <2>1. Holder(w)' = IF w = v THEN t ELSE IF w \in ToSet(q) THEN "idle"
                     ELSE IF w \in ToSet(idle) THEN "out" ELSE Holder(w)
    BY <1>1, <1>6, HolderPasses
  <2>2. w \in ToSet(q) => Holder(w) = "idle"
    BY <1>3 DEF HolderIs
  <2> QED BY <2>1, <2>2
<1>8. T \subseteq ToSet(idle') \cup {wk'[u] : u \in S}
  <2> SUFFICES ASSUME NEW w \in Workers, Holder(w) # "out", w \notin D, w \notin ToSet(q)
               PROVE  w \in {wk'[u] : u \in S}
    BY <1>2
  <2>1. PICK u \in Tasks : Holds(u, w)
    BY <1>3 DEF HolderIs
  <2>2. u # t /\ wk'[u] = w /\ pc'[u] # "retiring" /\ w # NoWorker
    BY <1>2, <1>6, <2>1, NoWorkerAssumption DEF Holds
  <2>3. pc'[u] \in Holding
    BY <1>1, <2>2 DEF HandInv, Empty, Holding, Stages
  <2>4. u \in S
    BY <2>2, <2>3 DEF At
  <2> QED BY <2>2, <2>4
<1>9. /\ S \in SUBSET Tasks /\ idle' \in Seq(Workers) /\ wk' \in [Tasks -> Workers \cup {NoWorker}]
      /\ At(Holding)' \in SUBSET Tasks /\ t \in At(Holding)'
  BY <1>1, <1>2 DEF At, HandInv, Holding, Stages
<1>10. Cardinality(T) \in Nat /\ Cardinality(T) <= Len(idle') + Cardinality(S)
  <2> HIDE DEF S, T
  <2> QED BY <1>8, <1>9, AtMost
<1>11. /\ Cardinality(S) = Cardinality(At(Holding)') - 1 /\ Cardinality(At(Holding)') \in Nat
       /\ Len(idle') + Cardinality(At(Holding)') <= MaxWorkers
       /\ Len(idle') \in Nat /\ MaxWorkers \in Nat
  BY <1>9, OneTaskLess, FiniteTasks, MaxWorkersAssumption DEF CountInv
<1>12. Cardinality(T) < MaxWorkers
  <2> HIDE DEF S, T
  <2> QED BY <1>10, <1>11
<1>13. D \in SUBSET Workers /\ v \in Workers \ D /\ \A w \in D : Holder(w) = "idle"
  BY <1>1, <1>3, <1>4 DEF HolderIs
<1>14. \A w \in Workers : Holder(w) # t
  BY HoldsNone
<1> HIDE DEF D
<1> QED BY <1>5, <1>7, <1>12, <1>13, <1>14, LeaseHappens

LEMMA PopsLease ==
  ASSUME WorkerInv, WorkerInv', PermitInv, PermitInv', CountInv', NEW t \in Tasks, NEW n \in 0..Len(idle),
         NEW stage \in Stages, NEW v \in Workers \cup {NoWorker}, Pops(t, n, v, stage),
         pc[t] \in {"out", "waiting"}
  PROVE  Leases!Next
<1> DEFINE q == LeftIdle(n)  r == Doomed(n)  f == Found(n)
<1>1. /\ ToSet(q) \cap ToSet(r) = {}
      /\ ToSet(idle) = ToSet(q) \cup ToSet(r) \cup (IF n = 0 THEN {} ELSE {f})
      /\ n > 0 => f \in Workers /\ f \notin ToSet(q) /\ f \notin ToSet(r)
      /\ n = 0 => f = NoWorker
      /\ n \in Nat
  <2>1. n \in Nat
    BY DEF WorkerInv, HandInv
  <2> QED BY <2>1, PopsParts DEF Found
<1>2. /\ Passes(t, stage, v, q, r)
      /\ IF r = <<>> THEN Hands(f, v, stage) ELSE stage = "reaping" /\ v = f
  BY DEF Pops
<1>3. /\ HandInv /\ SessionInv /\ pc \in [Tasks -> Stages] /\ wk[t] = NoWorker
      /\ ToSet(idle) \subseteq Workers
  BY DEF WorkerInv, HandInv, SessionInv, Empty, PermitInv, CallInv
<1> HIDE DEF q, r, f
<1>4. \A w \in Workers : HolderIs(w) /\ ~Holds(t, w)
  BY <1>3, HolderUnique, NoWorkerAssumption DEF Holds
<1>5. \A w \in Workers : Holder(w)' = IF w = v /\ stage # "retiring" THEN t
                                      ELSE IF w \in ToSet(q) THEN "idle"
                                      ELSE IF w \in ToSet(idle) THEN "out" ELSE Holder(w)
  BY <1>2, <1>3, <1>4, HolderPasses
<1>6. CASE v \in Fresh /\ stage = "starting"
  BY <1>1, <1>2, <1>3, <1>6, FreshLease
<1>7. CASE v = f /\ v # NoWorker /\ stage \in {"resetting", "reaping"}
  <2>1. Holder(v) = "idle" /\ v \in Workers \ ToSet(r)
    BY <1>1, <1>4, <1>7 DEF HolderIs
  <2>2. ToSet(r) \in SUBSET Workers /\ \A w \in ToSet(r) : Holder(w) = "idle"
    BY <1>1, <1>3, <1>4 DEF HolderIs
  <2>3. \A w \in Workers : Holder(w)' = IF w = v THEN t ELSE IF w \in ToSet(r) THEN "out" ELSE Holder(w)
    BY <1>1, <1>4, <1>5, <1>7 DEF HolderIs
  <2>4. \A w \in Workers : Holder(w) # t
    BY <1>3, HoldsNone
  <2>5. PICK D \in SUBSET Workers : D = ToSet(r)
    BY <2>2
  <2>6. v \in Workers \ D /\ Holder(v) \in {"idle", "out"}
    BY <2>1, <2>5
  <2>7. \A w \in D : Holder(w) = "idle"
    BY <2>2, <2>5
  <2>8. \A w \in Workers : Holder(w)' = IF w = v THEN t ELSE IF w \in D THEN "out" ELSE Holder(w)
    BY <2>3, <2>5
  <2>9. Holder(v) = "out" => Cardinality({w \in Workers : Holder(w) # "out"} \ D) < MaxWorkers
    BY <2>1
  <2> QED BY <2>4, <2>6, <2>7, <2>8, <2>9, LeaseHappens, ZenonT(40)
<1>8. CASE v = NoWorker /\ f = NoWorker
  <2>1. n = 0
    BY <1>1, <1>8, NoWorkerAssumption
  <2>2. ToSet(r) \in SUBSET Workers /\ \A w \in ToSet(r) : Holder(w) = "idle"
    BY <1>1, <1>3, <1>4 DEF HolderIs
  <2>3. \A w \in Workers : Holder(w)' = IF w \in ToSet(r) THEN "out" ELSE Holder(w)
    BY <1>1, <1>4, <1>5, <1>8, <2>1, NoWorkerAssumption DEF HolderIs
  <2> QED BY <2>2, <2>3, DiscardHappens
<1> QED BY <1>2, <1>6, <1>7, <1>8 DEF Hands

\* A step of t after which it holds what it held.
LEMMA HoldersStay ==
  ASSUME WorkerInv, WorkerInv', pc \in [Tasks -> Stages], NEW t \in Tasks, NEW stage, NEW v, NEW r,
         Passes(t, stage, v, idle, r),
         \A w \in Workers : Holds(t, w) <=> w = v /\ stage # "retiring"
  PROVE  UNCHANGED [w \in Workers |-> Holder(w)]
<1> SUFFICES ASSUME NEW w \in Workers PROVE Holder(w)' = Holder(w)
  BY NothingHappens
<1>1. HolderIs(w)
  BY HolderUnique
<1>2. Holds(t, w) => w \notin ToSet(idle)
  BY DEF Holds, WorkerInv, Apart
<1> QED BY <1>1, <1>2, HolderPasses DEF HolderIs

\* A step of t that takes its worker out of service.
LEMMA Withdraws ==
  ASSUME WorkerInv, WorkerInv', pc \in [Tasks -> Stages], NEW t \in Tasks, NEW stage, NEW v, NEW r,
         Passes(t, stage, v, idle, r), wk[t] \in Workers, pc[t] # "retiring",
         \A w \in Workers : ~(w = v /\ stage # "retiring")
  PROVE  Leases!Next
<1>1. \A w \in Workers : HolderIs(w) /\ (Holds(t, w) <=> w = wk[t])
  BY HolderUnique DEF Holds
<1>2. wk[t] \notin ToSet(idle)
  BY DEF WorkerInv, Apart
<1>3. Holder(wk[t]) = t
  BY <1>1 DEF HolderIs
<1>4. \A w \in Workers : Holder(w)' = IF w = wk[t] THEN "out" ELSE Holder(w)
  BY <1>1, <1>2, HolderPasses DEF HolderIs
<1> QED BY <1>3, <1>4, WithdrawHappens

LEMMA ReapedLease ==
  ASSUME WorkerInv, WorkerInv', PermitInv, PermitInv', CountInv', NEW t \in Tasks, Reaped(t)
  PROVE  Leases!Next \/ UNCHANGED [w \in Workers |-> Holder(w)]
<1> DEFINE r == Tail(reap[t])
<1>1. HandInv /\ pc \in [Tasks -> Stages] /\ pc[t] = "reaping"
  BY DEF WorkerInv, PermitInv, CallInv, Reaped
<1>2. PICK stage \in Stages, v \in Workers \cup {NoWorker} :
        /\ Passes(t, stage, v, idle, r)
        /\ IF r = <<>> THEN Hands(wk[t], v, stage) ELSE stage = "reaping" /\ v = wk[t]
  BY <1>1, ReapedPasses
<1> HIDE DEF r
<1>3. CASE v \in Fresh /\ stage = "starting" /\ wk[t] = NoWorker
  BY <1>2, <1>3, FreshLease
<1>4. CASE v = wk[t] /\ stage # "retiring"
  <2>1. \A w \in Workers : Holds(t, w) <=> w = v /\ stage # "retiring"
    BY <1>1, <1>4 DEF Holds
  <2> QED BY <1>1, <1>2, <2>1, HoldersStay
<1> QED BY <1>2, <1>3, <1>4 DEF Hands

LEMMA ReleaseLease ==
  ASSUME WorkerInv, WorkerInv', PermitInv, NEW t \in Tasks, StepReturns(t) \/ StepFails(t)
  PROVE  Leases!Next
<1> DEFINE w == wk[t]
<1>1. /\ HandInv /\ pc \in [Tasks -> Stages] /\ idle \in Seq(Workers) /\ IsInjective(idle)
      /\ pc[t] \in {"resetting", "running"} /\ w \in Workers /\ w # NoWorker /\ w \notin ToSet(idle)
  BY DEF WorkerInv, PermitInv, CallInv, HandInv, Apart, StepReturns, StepFails, Full
<1>2. /\ UNCHANGED <<reap, sweep>>
      /\ \/ idle' = Append(idle, w) /\ Leaves(t)
         \/ UNCHANGED <<idle, wk>> /\ Goes(t, "retiring")
  BY DEF StepReturns, StepFails, Release
<1> HIDE DEF w
<1>3. CASE idle' = Append(idle, w) /\ Leaves(t)
  <2> DEFINE q == Append(idle, w)
  <2>1. ToSet(q) = ToSet(idle) \cup {w}
    BY <1>1, LastJoins
  <2>2. Passes(t, "out", NoWorker, q, reap[t])
    BY <1>1, <1>2, <1>3 DEF Leaves, Passes, HandInv
  <2> HIDE DEF q
  <2>3. \A x \in Workers : HolderIs(x) /\ (Holds(t, x) <=> x = w) /\ x # NoWorker
    BY <1>1, HolderUnique, NoWorkerAssumption DEF Holds, w
  <2>4. \A x \in Workers : Holder(x)' = IF x = w THEN "idle" ELSE Holder(x)
    BY <1>1, <2>1, <2>2, <2>3, HolderPasses DEF HolderIs
  <2>5. Holder(w) \in Tasks
    BY <1>1, <2>3 DEF HolderIs
  <2> QED BY <1>1, <2>4, <2>5, ReturnHappens
<1>4. CASE UNCHANGED <<idle, wk>> /\ Goes(t, "retiring")
  <2>1. Passes(t, "retiring", w, idle, reap[t])
    BY <1>1, <1>2, <1>4 DEF Passes, HandInv, w
  <2> QED BY <1>1, <2>1, Withdraws DEF w
<1> QED BY <1>2, <1>3, <1>4

\* A call that starts no worker ends, or its cleanup does.
LEMMA EndsLease ==
  ASSUME WorkerInv, WorkerInv', PermitInv, NEW t \in Tasks,
         StartFails(t) \/ Retired(t) \/ CancelledWaiting(t) \/ CancelledCleanup(t)
  PROVE  Leases!Next \/ UNCHANGED [w \in Workers |-> Holder(w)]
<1>1. HandInv /\ pc \in [Tasks -> Stages] /\ wk[t] \in Workers \cup {NoWorker}
  BY DEF WorkerInv, PermitInv, CallInv, HandInv
<1>2. PICK r : Passes(t, "out", NoWorker, idle, r)
  <2>1. /\ Goes(t, "out") /\ UNCHANGED <<idle, sweep>>
        /\ wk' = [wk EXCEPT ![t] = NoWorker] \/ (pc[t] = "waiting" /\ UNCHANGED wk)
        /\ reap' = [reap EXCEPT ![t] = <<>>] \/ UNCHANGED reap
    <3>1. CASE StartFails(t)
      <4>1. Leaves(t) /\ UNCHANGED <<idle, sweep>>
        BY <3>1 DEF StartFails, pool
      <4>2. reap' = [reap EXCEPT ![t] = <<>>] \/ UNCHANGED reap
        BY <3>1 DEF StartFails, pool
      <4>3. Goes(t, "out") /\ wk' = [wk EXCEPT ![t] = NoWorker]
        BY <4>1 DEF Leaves
      <4> QED BY <4>1, <4>2, <4>3
    <3>2. CASE Retired(t)
      <4>1. Leaves(t) /\ UNCHANGED <<idle, sweep>>
        BY <3>2 DEF Retired, pool
      <4>2. reap' = [reap EXCEPT ![t] = <<>>] \/ UNCHANGED reap
        BY <3>2 DEF Retired, pool
      <4>3. Goes(t, "out") /\ wk' = [wk EXCEPT ![t] = NoWorker]
        BY <4>1 DEF Leaves
      <4> QED BY <4>1, <4>2, <4>3
    <3>3. CASE CancelledWaiting(t)
      BY <3>3 DEF CancelledWaiting, pool
    <3>4. CASE CancelledCleanup(t)
      <4>1. Leaves(t) /\ UNCHANGED <<idle, sweep>>
        BY <3>4 DEF CancelledCleanup, pool
      <4>2. reap' = [reap EXCEPT ![t] = <<>>] \/ UNCHANGED reap
        BY <3>4 DEF CancelledCleanup, pool
      <4>3. Goes(t, "out") /\ wk' = [wk EXCEPT ![t] = NoWorker]
        BY <4>1 DEF Leaves
      <4> QED BY <4>1, <4>2, <4>3
    <3> QED BY <3>1, <3>2, <3>3, <3>4
  <2>2. wk' = [wk EXCEPT ![t] = NoWorker]
    BY <1>1, <2>1 DEF HandInv, Empty
  <2>3. reap' = [reap EXCEPT ![t] = <<>>] \/ reap' = [reap EXCEPT ![t] = reap[t]]
    BY <1>1, <2>1 DEF HandInv
  <2> QED BY <2>1, <2>2, <2>3 DEF Passes
<1>3. CASE wk[t] = NoWorker \/ pc[t] = "retiring"
  <2>1. \A w \in Workers : ~Holds(t, w) /\ w # NoWorker
    BY <1>3, NoWorkerAssumption DEF Holds
  <2> QED BY <1>1, <1>2, <2>1, HoldersStay
<1>4. CASE wk[t] \in Workers /\ pc[t] # "retiring"
  BY <1>1, <1>2, <1>4, NoWorkerAssumption, Withdraws
<1> QED BY <1>1, <1>3, <1>4

LEMMA LeasesStep ==
  ASSUME PermitInv, PermitInv', WorkerInv, WorkerInv', CountInv', [Next]_vars
  PROVE  Leases!Next \/ UNCHANGED [w \in Workers |-> Holder(w)]
<1>0. HandInv /\ pc \in [Tasks -> Stages]
  BY DEF WorkerInv, PermitInv, CallInv
<1>1. CASE UNCHANGED <<calls, idle>>
  <2>1. \A w \in Workers : HolderIs(w) /\ HolderIs(w)' /\ \A t \in Tasks : Holds(t, w)' <=> Holds(t, w)
    BY <1>1, HolderUnique, HolderNext DEF Holds, calls
  <2>2. \A w \in Workers : Holder(w)' = Holder(w)
    BY <1>1, <2>1 DEF HolderIs
  <2> QED BY <2>2, NothingHappens
<1>2. ASSUME NEW t \in Tasks, Send(t) \/ GetsPermit(t)
      PROVE  Leases!Next \/ UNCHANGED [w \in Workers |-> Holder(w)]
  <2>1. pc[t] \in {"out", "waiting"} /\ UNCHANGED sweep
    BY <1>2 DEF Send, GetsPermit
  <2>2. CASE GetsWorker(t)
    <3>1. PICK n \in 0..Len(idle), stage \in Stages, v \in Workers \cup {NoWorker} : Pops(t, n, v, stage)
      BY <1>0, <2>1, <2>2, GetsWorkerPops
    <3> QED BY <2>1, <3>1, PopsLease
  <2>3. CASE ~GetsWorker(t)
    <3>1. Goes(t, "waiting") /\ UNCHANGED <<wk, idle, reap>>
      BY <1>2, <2>3 DEF Send, GetsPermit
    <3>2. Passes(t, "waiting", wk[t], idle, reap[t])
      BY <1>0, <2>1, <3>1 DEF Passes, HandInv
    <3>3. \A w \in Workers : Holds(t, w) <=> w = wk[t]
      BY <2>1 DEF Holds
    <3> QED BY <1>0, <3>2, <3>3, HoldersStay
  <2> QED BY <2>2, <2>3
<1>3. ASSUME NEW t \in Tasks, GetsStartPermit(t) PROVE Leases!Next
  <2>1. PICK v \in Fresh : wk' = [wk EXCEPT ![t] = v]
    BY <1>3 DEF GetsStartPermit
  <2>2. Goes(t, "starting") /\ UNCHANGED <<idle, sweep, reap>> /\ pc[t] = "startWait"
    BY <1>3 DEF GetsStartPermit, pool
  <2>3. Passes(t, "starting", v, idle, reap[t]) /\ wk[t] = NoWorker
    BY <1>0, <2>1, <2>2 DEF Passes, HandInv, Empty
  <2> QED BY <2>3, FreshLease
<1>4. ASSUME NEW t \in Tasks, Started(t) \/ ResetSucceeds(t)
      PROVE  UNCHANGED [w \in Workers |-> Holder(w)]
  <2>1. Goes(t, "running") /\ UNCHANGED <<wk, idle, sweep, reap>> /\ pc[t] \in {"starting", "resetting"}
    BY <1>4 DEF Started, ResetSucceeds, pool
  <2>2. Passes(t, "running", wk[t], idle, reap[t])
    BY <1>0, <2>1 DEF Passes, HandInv
  <2>3. \A w \in Workers : Holds(t, w) <=> w = wk[t]
    BY <2>1 DEF Holds
  <2> QED BY <1>0, <2>2, <2>3, HoldersStay
<1>5. CASE Shutdown
  <2>1. UNCHANGED calls /\ idle' = <<>>
    BY <1>5 DEF Shutdown
  <2>2. ToSet(<<>>) = {}
    <3>1. DOMAIN <<>> = {}
      OBVIOUS
    <3> QED BY <3>1 DEF ToSet
  <2>3. \A w \in Workers : /\ HolderIs(w) /\ HolderIs(w)'
                           /\ \A t \in Tasks : Holds(t, w)' <=> Holds(t, w)
    BY <2>1, HolderUnique, HolderNext DEF Holds, calls
  <2>4. \A w \in ToSet(idle) : \A t \in Tasks : ~Holds(t, w)
    BY DEF Holds, WorkerInv, Apart
  <2>5. \A w \in Workers : Holder(w)' = IF w \in ToSet(idle) THEN "out" ELSE Holder(w)
    BY <2>1, <2>2, <2>3, <2>4 DEF HolderIs
  <2>6. ToSet(idle) \in SUBSET Workers
    BY DEF WorkerInv, SessionInv
  <2>7. \A w \in ToSet(idle) : Holder(w) = "idle"
    BY <2>3, <2>6 DEF HolderIs
  <2> QED BY <2>5, <2>6, <2>7, DiscardHappens
<1>6. CASE (\E t \in Tasks : Cancel(t)) \/ (\E w \in Workers : Dies(w)) \/ Swept \/ ShutdownCancelled
           \/ UNCHANGED vars
  BY <1>1, <1>6 DEF Cancel, Dies, Swept, ShutdownCancelled, vars, pool
<1> QED
  BY <1>2, <1>3, <1>4, <1>5, <1>6, ReapedLease, ReleaseLease, EndsLease DEF Next, Serves

\* Two calls never have the same worker, a worker passes from one to the next
\* through the idle set only, and those in service never exceed _max_workers:
\* every step of the pool is a step of the leases, or none.
THEOREM PoolImplementsLeases == Spec => ImplementsLeases
<1> DEFINE Inv == PermitInv /\ WorkerInv /\ CountInv
<1>1. Init => Inv
  BY PermitInit, WorkerInit, CountInit
<1>2. Inv /\ [Next]_vars => Inv'
  BY PermitStep, WorkerStep, CountStep DEF PermitInv
<1>3. Init => Leases!Init
  <2> SUFFICES ASSUME Init PROVE Leases!Init
    OBVIOUS
  <2>1. WorkerInv /\ idle = <<>> /\ \A t \in Tasks : wk[t] = NoWorker
    BY WorkerInit DEF Init
  <2>2. DOMAIN <<>> = {}
    OBVIOUS
  <2>3. \A w \in Workers : Holder(w) = "out"
    BY <2>1, <2>2, HolderUnique, NoWorkerAssumption DEF HolderIs, Holds, ToSet
  <2> QED BY <2>3 DEF Leases!Init
<1>4. Inv /\ Inv' /\ [Next]_vars => [Leases!Next]_([w \in Workers |-> Holder(w)])
  BY LeasesStep
<1> QED BY <1>1, <1>2, <1>3, <1>4, PTL DEF Spec, ImplementsLeases, Leases!Spec
=============================================================================
