---------------------- MODULE ConcurrencyControlProofs ----------------------
(***************************************************************************)
(* Proofs about ConcurrencyControl, for any finite set of callers and any  *)
(* limits.  The code never compares the counter with the number of holders,*)
(* so what the counter means (CapacityAccounted) is an invariant of the    *)
(* whole service; Inv is its inductive strengthening, and the two other    *)
(* results follow from it as well.                                         *)
(***************************************************************************)
EXTENDS ConcurrencyControl, FiniteSetTheorems, SequenceTheorems, TLAPS

-----------------------------------------------------------------------------
(* Array.splice(i, 1): one entry shorter, later entries move down by one.   *)
LEMMA SpliceProperties ==
    ASSUME NEW S, NEW q \in Seq(S), NEW i \in 1..Len(q)
    PROVE  /\ Splice(q, i) \in Seq(S)
           /\ Len(Splice(q, i)) = Len(q) - 1
           /\ \A k \in 1..(Len(q) - 1) :
                 Splice(q, i)[k] = IF k < i THEN q[k] ELSE q[k + 1]
<1> DEFINE a == SubSeq(q, 1, i - 1)
           b == SubSeq(q, i + 1, Len(q))
<1>1. /\ a \in Seq(S) /\ Len(a) = i - 1
      /\ \A k \in 1..(i - 1) : a[k] = q[k]
  OBVIOUS
<1>2. /\ b \in Seq(S) /\ Len(b) = Len(q) - i
      /\ \A k \in 1..(Len(q) - i) : b[k] = q[k + i]
  OBVIOUS
<1>3. Splice(q, i) = a \o b
  BY DEF Splice
<1> HIDE DEF a, b
<1>4. a \o b \in Seq(S) /\ Len(a \o b) = Len(q) - 1
  <2>1. a \o b \in Seq(S) /\ Len(a \o b) = Len(a) + Len(b)
    BY <1>1, <1>2, ConcatProperties
  <2>2. Len(q) \in Nat
    OBVIOUS
  <2>3. QED
    BY <1>1, <1>2, <2>1, <2>2
<1>5. ASSUME NEW k \in 1..(Len(q) - 1)
      PROVE  (a \o b)[k] = IF k < i THEN q[k] ELSE q[k + 1]
  <2>1. CASE k < i
    BY <1>1, <1>2, <2>1
  <2>2. CASE ~(k < i)
    <3>1. (a \o b)[k] = b[k - (i - 1)] /\ k - (i - 1) \in 1..(Len(q) - i)
      BY <1>1, <1>2, <2>2
    <3>2. QED
      BY <1>2, <3>1, <2>2
  <2>3. QED
    BY <2>1, <2>2
<1>6. QED
  BY <1>3, <1>4, <1>5

(* Array.shift(): every later entry moves up by one.                        *)
LEMMA ShiftedProperties ==
    ASSUME NEW S, NEW q \in Seq(S)
    PROVE  /\ Shifted(q) \in Seq(S)
           /\ q = <<>> => Shifted(q) = <<>>
           /\ q # <<>> => /\ Len(Shifted(q)) = Len(q) - 1
                          /\ Head(q) = q[1] /\ Head(q) \in S
                          /\ \A k \in 1..(Len(q) - 1) : Shifted(q)[k] = q[k + 1]
BY DEF Shifted

(* resolveNext() changes one grant at most, that of the head of the queue.  *)
LEMMA ResolveNextType ==
    ASSUME NEW q \in Seq(Caller), NEW g \in [Caller -> Grant]
    PROVE  ResolveNext(q, g) \in [Caller -> Grant]
BY ShiftedProperties DEF ResolveNext, Grant

(* Resolving the evaluation limit keeps the two flags Boolean.              *)
LEMMA EnsureResolvedType ==
    ASSUME NEW t, isEnabled \in BOOLEAN, evalQueueResolved \in BOOLEAN,
           ensureEvalQueueResolved(t)
    PROVE  isEnabled' \in BOOLEAN /\ evalQueueResolved' \in BOOLEAN
BY Zenon DEF ensureEvalQueueResolved, BuildsEvalQueue

-----------------------------------------------------------------------------
(* The constructor gives every variable its type.                           *)
LEMMA TypeInit == ccInit => ccTypeOK
<1>1. ccInit => evalQueueResolved \in BOOLEAN /\ isEnabled \in BOOLEAN
  BY LimitAssumption, Zenon DEF ccInit, LimitAssumption
<1>2. ccInit => queue \in [QueueType -> Seq(Caller)] /\ grant \in [Caller -> Grant]
  BY DEF ccInit, Grant
<1>3. ccInit => capacity \in [QueueType -> Int] /\ disabled \in BOOLEAN
  BY LimitAssumption DEF ccInit, LimitAssumption
<1>4. QED
  BY <1>1, <1>2, <1>3 DEF ccTypeOK

(* throttle(), release(), remove() and disable() keep the types.            *)
LEMMA TypeStep == ccTypeOK /\ [ccNext]_ccVars => ccTypeOK'
<1> SUFFICES ASSUME ccTypeOK, [ccNext]_ccVars PROVE ccTypeOK'
  OBVIOUS
<1> USE DEF ccTypeOK
<1>1. ASSUME NEW c \in Caller, throttle(c) PROVE ccTypeOK'
  <2>1. isEnabled' \in BOOLEAN /\ evalQueueResolved' \in BOOLEAN
    BY <1>1, EnsureResolvedType DEF throttle
  <2>2. CASE IsThrottled(QueueOf[c])
    <3> DEFINE t == QueueOf[c]
    <3>1. t \in QueueType /\ queue[t] \in Seq(Caller)
      BY <2>2 DEF IsThrottled
    <3>2. Append(queue[t], c) \in Seq(Caller)
      BY <3>1
    <3>3. enqueue(t, c)
      BY <1>1, <2>2 DEF throttle
    <3> HIDE DEF t
    <3>4. capacity' \in [QueueType -> Int]
      BY <3>1, <3>3 DEF enqueue
    <3>5. queue' \in [QueueType -> Seq(Caller)] /\ grant' \in [Caller -> Grant]
      BY <3>1, <3>2, <3>3 DEF enqueue, Grant
    <3>6. QED
      BY <1>1, <2>1, <3>4, <3>5 DEF throttle
  <2>3. CASE ~IsThrottled(QueueOf[c])
    BY <1>1, <2>1, <2>3 DEF throttle, Grant
  <2>4. QED
    BY <2>2, <2>3
<1>2. ASSUME NEW c \in Caller, release(c) PROVE ccTypeOK'
  <2> DEFINE g == [grant EXCEPT ![c] = "released"]
  <2>0. isEnabled' \in BOOLEAN /\ evalQueueResolved' \in BOOLEAN
    BY <1>2, EnsureResolvedType DEF release
  <2>1. g \in [Caller -> Grant]
    BY DEF Grant
  <2>2. CASE IsThrottled(QueueOf[c])
    <3> DEFINE t == QueueOf[c]
    <3>1. t \in QueueType /\ queue[t] \in Seq(Caller)
      BY <2>2 DEF IsThrottled
    <3>2. ResolveNext(queue[t], g) \in [Caller -> Grant]
      BY <3>1, <2>1, ResolveNextType
    <3>3. Shifted(queue[t]) \in Seq(Caller)
      BY <3>1, ShiftedProperties
    <3> HIDE DEF g
    <3>4. /\ capacity' = [capacity EXCEPT ![t] = @ + 1]
          /\ queue' = [queue EXCEPT ![t] = Shifted(queue[t])]
          /\ grant' = ResolveNext(queue[t], g)
          /\ disabled' = disabled
      BY <1>2, <2>2, <3>1 DEF release, dequeue, g
    <3>5. QED
      BY <2>0, <3>1, <3>2, <3>3, <3>4
  <2>3. CASE ~IsThrottled(QueueOf[c])
    BY <1>2, <2>0, <2>3, <2>1 DEF release
  <2>4. QED
    BY <2>2, <2>3
<1>3. ASSUME NEW c \in Caller, remove(QueueOf[c], IdOf[c]) PROVE ccTypeOK'
  <2> DEFINE t == QueueOf[c]
  <2>0. isEnabled' \in BOOLEAN /\ evalQueueResolved' \in BOOLEAN
    BY <1>3, EnsureResolvedType DEF remove
  <2>1. CASE /\ IsThrottled(t)
             /\ \E i \in DOMAIN queue[t] : IsFirstIndex(t, IdOf[c], i) /\ removeFromQueue(t, i)
    <3>1. PICK i \in DOMAIN queue[t] : removeFromQueue(t, i)
      BY <2>1
    <3>2. t \in QueueType /\ queue[t] \in Seq(Caller) /\ i \in 1..Len(queue[t])
      BY <2>1 DEF IsThrottled
    <3> DEFINE rest == Splice(queue[t], i)
               g == [grant EXCEPT ![queue[t][i]] = "evicted"]
    <3>3. rest \in Seq(Caller) /\ g \in [Caller -> Grant]
      BY <3>2, SpliceProperties DEF Grant
    <3>4. Shifted(rest) \in Seq(Caller) /\ ResolveNext(rest, g) \in [Caller -> Grant]
      BY <3>3, ShiftedProperties, ResolveNextType
    <3> HIDE DEF rest, g
    <3>5. /\ capacity' = [capacity EXCEPT ![t] = @ + 1]
          /\ queue' = [queue EXCEPT ![t] = Shifted(rest)]
          /\ grant' = ResolveNext(rest, g)
      BY <3>1 DEF removeFromQueue, rest, g
    <3>6. QED
      BY <1>3, <2>0, <3>2, <3>4, <3>5 DEF remove
  <2>2. CASE UNCHANGED <<capacity, queue, grant>>
    BY <1>3, <2>0, <2>2 DEF remove
  <2>3. QED
    BY <1>3, <2>1, <2>2 DEF remove
<1>4. CASE disable
  BY <1>4 DEF disable
<1>5. CASE UNCHANGED ccVars
  BY <1>5 DEF ccVars
<1>6. QED
  BY <1>1, <1>2, <1>3, <1>4, <1>5 DEF ccNext

(* Every variable of the service keeps its type under throttle(), release(),
   remove() and disable(). *)
THEOREM ConcurrencyTypeCorrect == ccSpec => []ccTypeOK
BY TypeInit, TypeStep, PTL DEF ccSpec

-----------------------------------------------------------------------------
(* The inductive invariant.  Waiters: an entry of a queue is a caller of its *)
(* own kind that is still waiting, and is there once.  Load: the slots a     *)
(* queue has promised, to holders and to waiters.                            *)
GrantedIn(g, t) == {c \in Caller : QueueOf[c] = t /\ g[c] = "granted"}

Load(q, g, t) == Cardinality(GrantedIn(g, t)) + Len(q)

Waiters(q, g, t) ==
    /\ \A i \in 1..Len(q) : g[q[i]] = "queued" /\ QueueOf[q[i]] = t
    /\ \A i, j \in 1..Len(q) : q[i] = q[j] => i = j

QueueInv(t) ==
    /\ Waiters(queue[t], grant, t)
    /\ queue[t] # <<>> => Limit[t] > 0
    /\ ~disabled /\ Limit[t] > 0 =>
          /\ capacity[t] = Limit[t] - Load(queue[t], grant, t)
          /\ queue[t] # <<>> => capacity[t] <= -Len(queue[t])

(* Until disable(), whoever has a limited queue finds the service enabled.   *)
EnabledInv ==
    ~disabled =>
        /\ Limit["production"] > 0 => isEnabled
        /\ Limit["evaluation"] > 0 /\ evalQueueResolved => isEnabled

Inv == ccTypeOK /\ EnabledInv /\ \A t \in QueueType : QueueInv(t)

(* Holders and promised slots are counted in natural numbers.               *)
LEMMA LoadType ==
    ASSUME NEW t, NEW g, NEW q \in Seq(Caller)
    PROVE  IsFiniteSet(GrantedIn(g, t)) /\ Load(q, g, t) \in Nat /\ Len(q) \in Nat
           /\ Cardinality(GrantedIn(g, t)) \in Nat
<1>1. IsFiniteSet(GrantedIn(g, t))
  BY CallerAssumption, FS_Subset DEF GrantedIn, CallerAssumption
<1>2. Cardinality(GrantedIn(g, t)) \in Nat
  BY <1>1, FS_CardinalityType
<1>3. QED
  BY <1>1, <1>2 DEF Load

(* A caller that is given a slot adds one holder.                            *)
LEMMA GrantAdds ==
    ASSUME NEW g \in [Caller -> Grant], NEW c \in Caller, NEW t,
           QueueOf[c] = t, g[c] # "granted"
    PROVE  Cardinality(GrantedIn([g EXCEPT ![c] = "granted"], t))
              = Cardinality(GrantedIn(g, t)) + 1
<1>1. GrantedIn([g EXCEPT ![c] = "granted"], t) = GrantedIn(g, t) \cup {c}
  BY DEF GrantedIn
<1>2. IsFiniteSet(GrantedIn(g, t)) /\ c \notin GrantedIn(g, t)
  BY CallerAssumption, FS_Subset DEF GrantedIn, CallerAssumption
<1>3. QED
  BY <1>1, <1>2, FS_AddElement

(* A holder that gives its slot back is one holder less.                     *)
LEMMA ReleaseSubtracts ==
    ASSUME NEW g \in [Caller -> Grant], NEW c \in Caller, NEW t,
           QueueOf[c] = t, g[c] = "granted"
    PROVE  Cardinality(GrantedIn([g EXCEPT ![c] = "released"], t))
              = Cardinality(GrantedIn(g, t)) - 1
<1>1. GrantedIn([g EXCEPT ![c] = "released"], t) = GrantedIn(g, t) \ {c}
  BY DEF GrantedIn
<1>2. IsFiniteSet(GrantedIn(g, t)) /\ c \in GrantedIn(g, t)
  BY CallerAssumption, FS_Subset DEF GrantedIn, CallerAssumption
<1>3. QED
  BY <1>1, <1>2, FS_RemoveElement

(* Holders of queue t are those callers of it whose grant says so: a change  *)
(* of another grant, or from one other value to another, leaves them alone.  *)
LEMMA HoldersUnchanged ==
    ASSUME NEW g \in [Caller -> Grant], NEW c \in Caller, NEW t, NEW x,
           QueueOf[c] # t \/ (g[c] # "granted" /\ x # "granted")
    PROVE  GrantedIn([g EXCEPT ![c] = x], t) = GrantedIn(g, t)
BY DEF GrantedIn

(* A change of a grant that is not a waiter of t leaves the waiters alone.   *)
LEMMA WaitersUnchanged ==
    ASSUME NEW g \in [Caller -> Grant], NEW c \in Caller, NEW t, NEW x,
           NEW q \in Seq(Caller), Waiters(q, g, t),
           QueueOf[c] # t \/ g[c] # "queued"
    PROVE  Waiters(q, [g EXCEPT ![c] = x], t)
BY DEF Waiters

(* enqueue(): a caller at the end of the queue is one more promised slot.    *)
LEMMA EnqueueWaiter ==
    ASSUME NEW g \in [Caller -> Grant], NEW c \in Caller, NEW t,
           NEW q \in Seq(Caller), Waiters(q, g, t),
           QueueOf[c] = t, g[c] = "none"
    PROVE  /\ Waiters(Append(q, c), [g EXCEPT ![c] = "queued"], t)
           /\ Load(Append(q, c), [g EXCEPT ![c] = "queued"], t) = Load(q, g, t) + 1
           /\ Len(Append(q, c)) = Len(q) + 1
<1> DEFINE r == Append(q, c)
           h == [g EXCEPT ![c] = "queued"]
<1>1. /\ Len(r) = Len(q) + 1 /\ Len(q) \in Nat
      /\ \A i \in 1..Len(q) : r[i] = q[i] /\ q[i] \in Caller
      /\ r[Len(q) + 1] = c
  OBVIOUS
<1>2. \A i \in 1..Len(q) : q[i] # c
  BY DEF Waiters
<1> HIDE DEF r
<1>3. \A i \in 1..Len(r) : i \in 1..Len(q) \/ i = Len(q) + 1
  BY <1>1
<1>4. Waiters(r, h, t)
  BY <1>1, <1>2, <1>3 DEF Waiters
<1>5. GrantedIn(h, t) = GrantedIn(g, t)
  BY HoldersUnchanged
<1>6. Load(r, h, t) = Load(q, g, t) + 1
  BY <1>1, <1>5, LoadType DEF Load
<1>7. QED
  BY <1>1, <1>4, <1>6 DEF r

(* resolveNext(): the waiter at the head becomes a holder; the number of     *)
(* promised slots is the same.                                               *)
LEMMA ResolveNextKeepsLoad ==
    ASSUME NEW g \in [Caller -> Grant], NEW t, NEW q \in Seq(Caller), Waiters(q, g, t)
    PROVE  /\ Waiters(Shifted(q), ResolveNext(q, g), t)
           /\ Load(Shifted(q), ResolveNext(q, g), t) = Load(q, g, t)
<1>1. CASE q = <<>>
  BY <1>1 DEF Shifted, ResolveNext
<1>2. CASE q # <<>>
  <2> DEFINE r == Shifted(q)
             c == Head(q)
             h == [g EXCEPT ![c] = "granted"]
  <2>1. ResolveNext(q, g) = h
    BY <1>2 DEF ResolveNext
  <2>2. /\ r \in Seq(Caller) /\ Len(r) = Len(q) - 1
        /\ c = q[1] /\ c \in Caller
        /\ \A k \in 1..(Len(q) - 1) : r[k] = q[k + 1]
    BY <1>2, ShiftedProperties
  <2>3. Len(q) \in Nat \ {0} /\ Len(r) \in Nat
    BY <1>2, <2>2
  <2>4. g[c] = "queued" /\ QueueOf[c] = t
    BY <2>2, <2>3 DEF Waiters
  <2> HIDE DEF r, c
  <2>5. \A k \in 1..Len(r) : k + 1 \in 1..Len(q) /\ r[k] = q[k + 1] /\ r[k] \in Caller /\ r[k] # c
    BY <2>2, <2>3 DEF Waiters
  <2>6. Waiters(r, h, t)
    BY <2>2, <2>5 DEF Waiters
  <2>7. Cardinality(GrantedIn(h, t)) = Cardinality(GrantedIn(g, t)) + 1
    BY <2>2, <2>4, GrantAdds
  <2>8. Load(r, h, t) = Load(q, g, t)
    BY <2>2, <2>3, <2>7, LoadType DEF Load
  <2>9. QED
    BY <2>1, <2>6, <2>8 DEF r
<1>3. QED
  BY <1>1, <1>2

(* resolveNext() on one queue leaves the other one alone.                    *)
LEMMA ResolveNextOther ==
    ASSUME NEW g \in [Caller -> Grant], NEW t, NEW q \in Seq(Caller), Waiters(q, g, t),
           NEW u, u # t, NEW p \in Seq(Caller), Waiters(p, g, u)
    PROVE  /\ Waiters(p, ResolveNext(q, g), u)
           /\ Load(p, ResolveNext(q, g), u) = Load(p, g, u)
<1>1. CASE q = <<>>
  BY <1>1 DEF ResolveNext
<1>2. CASE q # <<>>
  <2>1. Head(q) = q[1] /\ Head(q) \in Caller /\ 1 \in 1..Len(q)
    BY <1>2, ShiftedProperties
  <2>2. QueueOf[Head(q)] # u
    BY <2>1 DEF Waiters
  <2>3. ResolveNext(q, g) = [g EXCEPT ![Head(q)] = "granted"]
    BY <1>2 DEF ResolveNext
  <2> DEFINE c == Head(q)
  <2>0. c \in Caller /\ QueueOf[c] # u
    BY <2>1, <2>2
  <2> HIDE DEF c
  <2>4. /\ Waiters(p, [g EXCEPT ![c] = "granted"], u)
        /\ Load(p, [g EXCEPT ![c] = "granted"], u) = Load(p, g, u)
    <3>1. Waiters(p, [g EXCEPT ![c] = "granted"], u)
      BY <2>0, WaitersUnchanged
    <3>2. GrantedIn([g EXCEPT ![c] = "granted"], u) = GrantedIn(g, u)
      BY <2>0, HoldersUnchanged
    <3>3. QED
      BY <3>1, <3>2 DEF Load
  <2>5. QED
    BY <2>3, <2>4 DEF c
<1>3. QED
  BY <1>1, <1>2

(* splice(): the waiter that is taken out is one promised slot less.         *)
LEMMA SpliceSubtracts ==
    ASSUME NEW g \in [Caller -> Grant], NEW t, NEW q \in Seq(Caller), Waiters(q, g, t),
           NEW i \in 1..Len(q)
    PROVE  /\ Waiters(Splice(q, i), [g EXCEPT ![q[i]] = "evicted"], t)
           /\ Load(Splice(q, i), [g EXCEPT ![q[i]] = "evicted"], t) = Load(q, g, t) - 1
<1> DEFINE r == Splice(q, i)
           c == q[i]
           h == [g EXCEPT ![c] = "evicted"]
           old(k) == IF k < i THEN k ELSE k + 1
<1>1. c \in Caller /\ g[c] = "queued" /\ QueueOf[c] = t /\ Len(q) \in Nat \ {0}
  BY DEF Waiters
<1>2. /\ r \in Seq(Caller) /\ Len(r) = Len(q) - 1
      /\ \A k \in 1..Len(r) : r[k] = q[old(k)]
  BY SpliceProperties
<1> HIDE DEF r
<1>3. \A k \in 1..Len(r) : old(k) \in 1..Len(q) /\ old(k) # i
  BY <1>1, <1>2
<1>4. \A k, l \in 1..Len(r) : old(k) = old(l) => k = l
  BY <1>1, <1>2
<1> HIDE DEF old
<1>5. \A k \in 1..Len(r) : r[k] # c /\ r[k] \in Caller
  BY <1>2, <1>3 DEF Waiters
<1> HIDE DEF c
<1>6. Waiters(r, h, t)
  <2>1. \A k \in 1..Len(r) : h[r[k]] = "queued" /\ QueueOf[r[k]] = t
    BY <1>1, <1>2, <1>3, <1>5 DEF Waiters
  <2>2. \A k, l \in 1..Len(r) : r[k] = r[l] => k = l
    <3> SUFFICES ASSUME NEW k \in 1..Len(r), NEW l \in 1..Len(r), r[k] = r[l]
                 PROVE  k = l
      OBVIOUS
    <3>1. q[old(k)] = q[old(l)]
      BY <1>2
    <3>2. old(k) = old(l)
      BY <3>1, <1>3 DEF Waiters
    <3>3. QED
      BY <3>2, <1>4
  <2>3. QED
    BY <2>1, <2>2 DEF Waiters
<1>7. GrantedIn(h, t) = GrantedIn(g, t)
  BY <1>1, HoldersUnchanged, ZenonT(30)
<1>8. Load(r, h, t) = Load(q, g, t) - 1
  BY <1>1, <1>2, <1>7, LoadType DEF Load
<1>9. QED
  BY <1>6, <1>8 DEF r, c

(* Looking up a queue keeps the service enabled for whoever has a limit, and *)
(* finds it enabled.                                                         *)
LEMMA EnabledStep ==
    ASSUME ccTypeOK, EnabledInv, NEW t, ensureEvalQueueResolved(t), disabled' = disabled
    PROVE  EnabledInv'
BY DEF EnabledInv, ensureEvalQueueResolved, BuildsEvalQueue, ccTypeOK

(* Until disable(), a call for a limited queue reaches the queue.           *)
LEMMA LimitedIsThrottled ==
    ASSUME EnabledInv, ~disabled, NEW t \in QueueType, Limit[t] > 0
    PROVE  IsThrottled(t)
BY DEF EnabledInv, IsThrottled, BuildsEvalQueue, QueueType

(* The new service has promised nothing.                                    *)
LEMMA InvInit == ccInit => Inv
<1> SUFFICES ASSUME ccInit PROVE Inv
  OBVIOUS
<1>1. ccTypeOK
  BY TypeInit
<1>2. EnabledInv
  BY DEF EnabledInv, ccInit
<1>3. ASSUME NEW t \in QueueType PROVE QueueInv(t)
  <2>1. queue[t] = <<>> /\ capacity[t] = Limit[t] /\ Limit[t] \in Int
    BY LimitAssumption DEF ccInit, LimitAssumption
  <2>2. GrantedIn(grant, t) = {}
    BY DEF GrantedIn, ccInit
  <2>3. Load(queue[t], grant, t) = 0
    BY <2>1, <2>2, FS_EmptySet DEF Load
  <2>4. Waiters(queue[t], grant, t)
    BY <2>1 DEF Waiters
  <2>5. QED
    BY <2>1, <2>3, <2>4 DEF QueueInv
<1>4. QED
  BY <1>1, <1>2, <1>3 DEF Inv

(* What holds of queue t after a step that changes its promised slots and    *)
(* its counter by the same amount d.                                         *)
LEMMA QueueInvAfter ==
    ASSUME Inv, NEW t \in QueueType, ccTypeOK', disabled' = disabled, NEW d \in Int,
           Waiters(queue[t], grant, t)', Limit[t] > 0,
           Load(queue[t], grant, t)' = Load(queue[t], grant, t) + d,
           capacity'[t] = capacity[t] - d,
           ~disabled /\ queue'[t] # <<>> => capacity'[t] <= -Len(queue'[t])
    PROVE  QueueInv(t)'
<1>1. Limit[t] \in Int /\ capacity[t] \in Int /\ queue[t] \in Seq(Caller)
  BY LimitAssumption DEF LimitAssumption, Inv, ccTypeOK
<1>2. Load(queue[t], grant, t) \in Nat
  BY <1>1, LoadType
<1>3. ~disabled => capacity[t] = Limit[t] - Load(queue[t], grant, t)
  BY DEF Inv, QueueInv
<1>4. ~disabled => capacity'[t] = Limit[t] - Load(queue[t], grant, t)'
  BY <1>1, <1>2, <1>3
<1>5. QED
  BY <1>4 DEF QueueInv

(* What holds of queue t after a step that changes one grant only, and not   *)
(* that of one of its callers.                                               *)
LEMMA QueueInvKept ==
    ASSUME Inv, NEW t \in QueueType, disabled' = disabled,
           queue'[t] = queue[t], capacity'[t] = capacity[t],
           Waiters(queue[t], grant', t),
           ~disabled /\ Limit[t] > 0 => Load(queue[t], grant', t) = Load(queue[t], grant, t)
    PROVE  QueueInv(t)'
<1>1. QueueInv(t)
  BY DEF Inv
<1>2. QED
  BY <1>1 DEF QueueInv

(* throttle() promises one slot more, at once or at the end of the queue.   *)
LEMMA InvThrottle ==
    ASSUME Inv, ccTypeOK', NEW c \in Caller, throttle(c) PROVE Inv'
<1> DEFINE t == QueueOf[c]
<1>1. /\ ccTypeOK /\ EnabledInv
      /\ grant \in [Caller -> Grant] /\ grant[c] = "none" /\ disabled' = disabled
      /\ ensureEvalQueueResolved(t)
  BY DEF Inv, ccTypeOK, throttle
<1>2. EnabledInv'
  BY <1>1, EnabledStep
<1>3. ASSUME NEW u \in QueueType
      PROVE  /\ queue[u] \in Seq(Caller) /\ Len(queue[u]) \in Nat /\ capacity[u] \in Int
             /\ Waiters(queue[u], grant, u) /\ QueueInv(u)
  BY DEF Inv, ccTypeOK, QueueInv
<1>4. ASSUME NEW u \in QueueType, u # t PROVE QueueInv(u)'
  <2>1. /\ queue'[u] = queue[u] /\ capacity'[u] = capacity[u]
        /\ \E x \in Grant : grant' = [grant EXCEPT ![c] = x]
    BY <1>1, <1>4 DEF throttle, enqueue, IsThrottled, ccTypeOK, Grant
  <2>2. PICK x \in Grant : grant' = [grant EXCEPT ![c] = x]
    BY <2>1
  <2>3. /\ Waiters(queue[u], [grant EXCEPT ![c] = x], u)
        /\ GrantedIn([grant EXCEPT ![c] = x], u) = GrantedIn(grant, u)
    BY <1>1, <1>3, <1>4, WaitersUnchanged, HoldersUnchanged
  <2>4. QED
    BY <1>1, <2>1, <2>2, <2>3, QueueInvKept DEF Load
<1>5. ASSUME t \in QueueType PROVE QueueInv(t)'
  <2>1. CASE IsThrottled(t) /\ capacity[t] - 1 < 0
    <3>1. /\ queue'[t] = Append(queue[t], c) /\ capacity'[t] = capacity[t] - 1
          /\ grant' = [grant EXCEPT ![c] = "queued"] /\ Limit[t] > 0
      BY <1>1, <1>5, <2>1 DEF throttle, enqueue, IsThrottled, ccTypeOK
    <3>2. /\ Waiters(Append(queue[t], c), [grant EXCEPT ![c] = "queued"], t)
          /\ Load(Append(queue[t], c), [grant EXCEPT ![c] = "queued"], t) = Load(queue[t], grant, t) + 1
          /\ Len(Append(queue[t], c)) = Len(queue[t]) + 1
      BY <1>1, <1>3, <1>5, EnqueueWaiter
    <3>3. ~disabled => capacity[t] - 1 <= -(Len(queue[t]) + 1)
      <4>1. CASE queue[t] = <<>>
        BY <4>1, <2>1, <1>3, <1>5
      <4>2. CASE queue[t] # <<>>
        BY <4>2, <1>3, <1>5, <3>1 DEF QueueInv
      <4>3. QED
        BY <4>1, <4>2
    <3>4. Waiters(queue[t], grant, t)' /\ Load(queue[t], grant, t)' = Load(queue[t], grant, t) + 1
      BY <3>1, <3>2
    <3>5. ~disabled /\ queue'[t] # <<>> => capacity'[t] <= -Len(queue'[t])
      BY <3>1, <3>2, <3>3
    <3> HIDE DEF t
    <3>6. QED
      BY <1>1, <1>5, <3>1, <3>4, <3>5, 1 \in Int, QueueInvAfter
  <2>2. CASE IsThrottled(t) /\ ~(capacity[t] - 1 < 0)
    <3>1. /\ queue'[t] = queue[t] /\ capacity'[t] = capacity[t] - 1
          /\ grant' = [grant EXCEPT ![c] = "granted"] /\ Limit[t] > 0
      BY <1>1, <1>5, <2>2 DEF throttle, enqueue, IsThrottled, ccTypeOK
    <3>2. Waiters(queue[t], [grant EXCEPT ![c] = "granted"], t)
      BY <1>1, <1>3, <1>5, WaitersUnchanged
    <3>3. Cardinality(GrantedIn([grant EXCEPT ![c] = "granted"], t)) = Cardinality(GrantedIn(grant, t)) + 1
      BY <1>1, GrantAdds
    <3>4. Load(queue[t], [grant EXCEPT ![c] = "granted"], t) = Load(queue[t], grant, t) + 1
      BY <1>3, <1>5, <3>3, LoadType DEF Load
    <3>5. ~disabled => queue[t] = <<>>
      BY <1>3, <1>5, <2>2, <3>1 DEF QueueInv
    <3>6. Waiters(queue[t], grant, t)' /\ Load(queue[t], grant, t)' = Load(queue[t], grant, t) + 1
      BY <3>1, <3>2, <3>4
    <3>7. ~disabled /\ queue'[t] # <<>> => capacity'[t] <= -Len(queue'[t])
      BY <3>1, <3>5
    <3> HIDE DEF t
    <3>8. QED
      BY <1>1, <1>5, <3>1, <3>6, <3>7, 1 \in Int, QueueInvAfter
  <2>3. CASE ~IsThrottled(t)
    <3>1. queue' = queue /\ capacity' = capacity /\ grant' = [grant EXCEPT ![c] = "granted"]
      BY <2>3 DEF throttle
    <3>2. Waiters(queue[t], [grant EXCEPT ![c] = "granted"], t)
      BY <1>1, <1>3, <1>5, WaitersUnchanged
    <3>3. disabled \/ ~(Limit[t] > 0)
      BY <1>1, <1>5, <2>3, LimitedIsThrottled
    <3>4. QED
      BY <1>1, <1>5, <3>1, <3>2, <3>3, QueueInvKept
  <2>4. QED
    BY <2>1, <2>2, <2>3
<1>6. QED
  BY <1>2, <1>4, <1>5 DEF Inv

(* release() takes one promise back and admits the head of the queue.       *)
LEMMA InvRelease ==
    ASSUME Inv, ccTypeOK', NEW c \in Caller, release(c) PROVE Inv'
<1> DEFINE t == QueueOf[c]
           g == [grant EXCEPT ![c] = "released"]
<1>1. /\ ccTypeOK /\ EnabledInv
      /\ grant \in [Caller -> Grant] /\ grant[c] = "granted" /\ disabled' = disabled
      /\ ensureEvalQueueResolved(t) /\ g \in [Caller -> Grant]
  BY DEF Inv, ccTypeOK, release, Grant
<1>2. EnabledInv'
  BY <1>1, EnabledStep
<1>3. ASSUME NEW u \in QueueType
      PROVE  /\ queue[u] \in Seq(Caller) /\ Len(queue[u]) \in Nat /\ capacity[u] \in Int
             /\ Waiters(queue[u], grant, u) /\ QueueInv(u) /\ Waiters(queue[u], g, u)
  <2>1. /\ queue[u] \in Seq(Caller) /\ Len(queue[u]) \in Nat /\ capacity[u] \in Int
        /\ Waiters(queue[u], grant, u) /\ QueueInv(u)
    BY DEF Inv, ccTypeOK, QueueInv
  <2>2. QED
    BY <1>1, <2>1, WaitersUnchanged
<1>4. ASSUME NEW u \in QueueType, u # t PROVE Load(queue[u], g, u) = Load(queue[u], grant, u)
  BY <1>1, <1>4, HoldersUnchanged, ZenonT(30) DEF Load
<1>5. CASE IsThrottled(t)
  <2>1. /\ t \in QueueType /\ Limit[t] > 0
        /\ capacity' = [capacity EXCEPT ![t] = @ + 1]
        /\ queue' = [queue EXCEPT ![t] = Shifted(queue[t])]
        /\ grant' = ResolveNext(queue[t], g)
    BY <1>5 DEF release, dequeue, IsThrottled
  <2>2. Cardinality(GrantedIn(g, t)) = Cardinality(GrantedIn(grant, t)) - 1
    BY <1>1, ReleaseSubtracts
  <2> HIDE DEF g
  <2>3. Load(queue[t], g, t) = Load(queue[t], grant, t) - 1
    BY <1>3, <2>1, <2>2, LoadType DEF Load
  <2> HIDE DEF t
  <2>4. /\ Waiters(Shifted(queue[t]), ResolveNext(queue[t], g), t)
        /\ Load(Shifted(queue[t]), ResolveNext(queue[t], g), t) = Load(queue[t], g, t)
    BY <1>1, <1>3, <2>1, ResolveNextKeepsLoad
  <2>5. QueueInv(t)'
    <3>1. queue'[t] = Shifted(queue[t]) /\ capacity'[t] = capacity[t] + 1
      BY <1>1, <2>1 DEF ccTypeOK
    <3>2. /\ Waiters(queue[t], grant, t)'
          /\ Load(queue[t], grant, t)' = Load(queue[t], grant, t) - 1
      BY <2>1, <2>3, <2>4, <3>1
    <3>3. ~disabled /\ Shifted(queue[t]) # <<>> => capacity[t] + 1 <= -Len(Shifted(queue[t]))
      <4>1. CASE queue[t] = <<>>
        BY <4>1 DEF Shifted
      <4>2. CASE queue[t] # <<>>
        <5>1. Len(Shifted(queue[t])) = Len(queue[t]) - 1
          BY <4>2, <1>3, <2>1, ShiftedProperties
        <5>2. ~disabled => capacity[t] <= -Len(queue[t])
          BY <4>2, <1>3, <2>1 DEF QueueInv
        <5>3. QED
          BY <5>1, <5>2, <1>3, <2>1
      <4>3. QED
        BY <4>1, <4>2
    <3>4. Load(queue[t], grant, t)' = Load(queue[t], grant, t) + (-1) /\ capacity'[t] = capacity[t] - (-1)
      BY <1>3, <2>1, <3>1, <3>2, LoadType
    <3>5. ~disabled /\ queue'[t] # <<>> => capacity'[t] <= -Len(queue'[t])
      BY <3>1, <3>3
    <3>6. QED
      BY <1>1, <2>1, <3>2, <3>4, <3>5, -1 \in Int, QueueInvAfter
  <2>6. ASSUME NEW u \in QueueType, u # t PROVE QueueInv(u)'
    <3>1. queue'[u] = queue[u] /\ capacity'[u] = capacity[u]
      BY <1>1, <2>1, <2>6 DEF ccTypeOK
    <3>2. /\ Waiters(queue[u], ResolveNext(queue[t], g), u)
          /\ Load(queue[u], ResolveNext(queue[t], g), u) = Load(queue[u], g, u)
      BY <1>1, <1>3, <2>1, <2>6, ResolveNextOther, SMTT(30)
    <3>3. QED
      BY <1>1, <1>4, <2>1, <2>6, <3>1, <3>2, QueueInvKept
  <2>7. QED
    BY <1>2, <2>5, <2>6 DEF Inv
<1>6. CASE ~IsThrottled(t)
  <2>1. queue' = queue /\ capacity' = capacity /\ grant' = g
    BY <1>6 DEF release
  <2>2. ASSUME NEW u \in QueueType, ~disabled, Limit[u] > 0 PROVE u # t
    BY <1>1, <1>6, <2>2, LimitedIsThrottled
  <2> HIDE DEF g, t
  <2>3. ASSUME NEW u \in QueueType PROVE QueueInv(u)'
    BY <1>1, <1>3, <1>4, <2>1, <2>2, QueueInvKept
  <2>4. QED
    BY <1>2, <2>3 DEF Inv
<1>7. QED
  BY <1>5, <1>6

(* remove() takes the promise of a waiter back and admits the next one.     *)
LEMMA InvRemove ==
    ASSUME Inv, ccTypeOK', NEW t, NEW id, remove(t, id) PROVE Inv'
<1>1. /\ ccTypeOK /\ EnabledInv /\ grant \in [Caller -> Grant]
      /\ disabled' = disabled /\ ensureEvalQueueResolved(t)
  BY DEF Inv, ccTypeOK, remove
<1>2. EnabledInv'
  BY <1>1, EnabledStep
<1>3. ASSUME NEW u \in QueueType
      PROVE  /\ queue[u] \in Seq(Caller) /\ Len(queue[u]) \in Nat /\ capacity[u] \in Int
             /\ Waiters(queue[u], grant, u) /\ QueueInv(u)
  BY DEF Inv, ccTypeOK, QueueInv
<1>4. ASSUME IsThrottled(t), NEW i \in DOMAIN queue[t], removeFromQueue(t, i)
      PROVE  Inv'
  <2> DEFINE rest == Splice(queue[t], i)
             c == queue[t][i]
             g == [grant EXCEPT ![c] = "evicted"]
  <2>1. t \in QueueType /\ Limit[t] > 0 /\ i \in 1..Len(queue[t])
    BY <1>3, <1>4 DEF IsThrottled
  <2>2. c \in Caller /\ QueueOf[c] = t /\ g \in [Caller -> Grant]
    BY <1>1, <1>3, <2>1 DEF Waiters, Grant
  <2>3. rest \in Seq(Caller) /\ Len(rest) = Len(queue[t]) - 1
    BY <1>3, <2>1, SpliceProperties
  <2>4. Waiters(rest, g, t) /\ Load(rest, g, t) = Load(queue[t], grant, t) - 1
    BY <1>1, <1>3, <2>1, SpliceSubtracts
  <2>5. /\ capacity' = [capacity EXCEPT ![t] = @ + 1]
        /\ queue' = [queue EXCEPT ![t] = Shifted(rest)]
        /\ grant' = ResolveNext(rest, g)
    BY <1>4 DEF removeFromQueue
  <2> HIDE DEF rest
  <2>6. ASSUME NEW u \in QueueType, u # t PROVE QueueInv(u)'
    <3>1. queue'[u] = queue[u] /\ capacity'[u] = capacity[u]
      BY <1>1, <2>1, <2>5, <2>6 DEF ccTypeOK
    <3> HIDE DEF c
    <3>2. Waiters(queue[u], g, u) /\ GrantedIn(g, u) = GrantedIn(grant, u)
      <4>1. Waiters(queue[u], g, u)
        BY <1>1, <1>3, <2>2, <2>6, WaitersUnchanged
      <4>2. GrantedIn(g, u) = GrantedIn(grant, u)
        BY <1>1, <2>2, <2>6, HoldersUnchanged, ZenonT(30)
      <4>3. QED
        BY <4>1, <4>2
    <3> HIDE DEF g
    <3>3. /\ Waiters(queue[u], ResolveNext(rest, g), u)
          /\ Load(queue[u], ResolveNext(rest, g), u) = Load(queue[u], g, u)
      BY <1>3, <2>2, <2>3, <2>4, <2>6, <3>2, ResolveNextOther
    <3>4. Load(queue[u], g, u) = Load(queue[u], grant, u)
      BY <3>2 DEF Load
    <3>5. QED
      BY <1>1, <2>5, <2>6, <3>1, <3>3, <3>4, QueueInvKept
  <2> HIDE DEF c, g
  <2>7. QueueInv(t)'
    <3>1. queue'[t] = Shifted(rest) /\ capacity'[t] = capacity[t] + 1
      BY <1>1, <2>1, <2>5 DEF ccTypeOK
    <3>2. /\ Waiters(Shifted(rest), ResolveNext(rest, g), t)
          /\ Load(Shifted(rest), ResolveNext(rest, g), t) = Load(rest, g, t)
      BY <2>2, <2>3, <2>4, ResolveNextKeepsLoad
    <3>3. /\ Waiters(queue[t], grant, t)'
          /\ Load(queue[t], grant, t)' = Load(queue[t], grant, t) - 1
      BY <2>4, <2>5, <3>1, <3>2
    <3>4. Load(queue[t], grant, t)' = Load(queue[t], grant, t) + (-1) /\ capacity'[t] = capacity[t] - (-1)
      BY <1>3, <2>1, <3>1, <3>3, LoadType
    <3>5. ~disabled /\ Shifted(rest) # <<>> => capacity[t] + 1 <= -Len(Shifted(rest))
      <4>1. CASE rest = <<>>
        BY <4>1 DEF Shifted
      <4>2. CASE rest # <<>>
        <5>1. Len(Shifted(rest)) = Len(rest) - 1
          BY <4>2, <2>3, ShiftedProperties
        <5>2. ~disabled => capacity[t] <= -Len(queue[t])
          BY <1>3, <2>1 DEF QueueInv
        <5>3. QED
          BY <5>1, <5>2, <1>3, <2>1, <2>3
      <4>3. QED
        BY <4>1, <4>2
    <3>6. ~disabled /\ queue'[t] # <<>> => capacity'[t] <= -Len(queue'[t])
      BY <3>1, <3>5
    <3>7. QED
      BY <1>1, <2>1, <3>3, <3>4, <3>6, -1 \in Int, QueueInvAfter
  <2>8. QED
    BY <1>2, <2>6, <2>7 DEF Inv
<1>5. CASE UNCHANGED <<capacity, queue, grant>>
  <2>1. ASSUME NEW u \in QueueType PROVE QueueInv(u)'
    BY <1>1, <1>3, <1>5, QueueInvKept
  <2>2. QED
    BY <1>2, <2>1 DEF Inv
<1>6. QED
  BY <1>4, <1>5 DEF remove

(* The invariant is inductive.                                              *)
LEMMA InvStep == Inv /\ [ccNext]_ccVars => Inv'
<1> SUFFICES ASSUME Inv, [ccNext]_ccVars PROVE Inv'
  OBVIOUS
<1>0. ccTypeOK'
  BY TypeStep DEF Inv
<1>1. ASSUME NEW c \in Caller, throttle(c) PROVE Inv'
  BY <1>0, <1>1, InvThrottle
<1>2. ASSUME NEW c \in Caller, release(c) PROVE Inv'
  BY <1>0, <1>2, InvRelease
<1>3. ASSUME NEW c \in Caller, remove(QueueOf[c], IdOf[c]) PROVE Inv'
  BY <1>0, <1>3, InvRemove
<1>4. CASE disable
  BY <1>0, <1>4 DEF disable, Inv, QueueInv, EnabledInv
<1>5. CASE UNCHANGED ccVars
  BY <1>0, <1>5 DEF ccVars, Inv, QueueInv, EnabledInv
<1>6. QED
  BY <1>1, <1>2, <1>3, <1>4, <1>5 DEF ccNext

(* The counter of a limited queue is its limit less its holders and waiters. *)
LEMMA InvImpliesAccounted == Inv => CapacityAccounted
<1> SUFFICES ASSUME Inv, ~disabled, NEW t \in QueueType, Limit[t] > 0
             PROVE  capacity[t] = Limit[t] - Cardinality(Granted(t)) - Len(queue[t])
  BY DEF CapacityAccounted
<1>1. capacity[t] = Limit[t] - Load(queue[t], grant, t)
  BY DEF Inv, QueueInv
<1>2. queue[t] \in Seq(Caller) /\ Limit[t] \in Int
  BY LimitAssumption DEF LimitAssumption, Inv, ccTypeOK
<1>3. Cardinality(GrantedIn(grant, t)) \in Nat /\ Len(queue[t]) \in Nat
  BY <1>2, LoadType
<1>4. Granted(t) = GrantedIn(grant, t)
  BY DEF Granted, GrantedIn
<1>5. QED
  BY <1>1, <1>2, <1>3, <1>4 DEF Load

(* A queue that is not empty belongs to a counter that is spent.             *)
LEMMA InvImpliesNoIdleSlot == Inv => NoIdleSlot
<1> SUFFICES ASSUME Inv, ~disabled, NEW t \in QueueType, queue[t] # <<>>
             PROVE  Cardinality(Granted(t)) >= Limit[t]
  BY DEF NoIdleSlot
<1>1. capacity[t] = Limit[t] - Cardinality(Granted(t)) - Len(queue[t])
  BY InvImpliesAccounted DEF CapacityAccounted, Inv, QueueInv
<1>2. capacity[t] <= -Len(queue[t])
  BY DEF Inv, QueueInv
<1>3. queue[t] \in Seq(Caller) /\ Limit[t] \in Int
  BY LimitAssumption DEF LimitAssumption, Inv, ccTypeOK
<1>4. Cardinality(Granted(t)) \in Nat /\ Len(queue[t]) \in Nat
  <2>1. Granted(t) = GrantedIn(grant, t)
    BY DEF Granted, GrantedIn
  <2>2. QED
    BY <1>3, <2>1, LoadType
<1>5. QED
  BY <1>1, <1>2, <1>3, <1>4

(* throttle(), release() and remove() never lose or invent a slot: until
   disable(), the counter accounts for every holder and every waiter. *)
THEOREM SlotsAccountedFor == ccSpec => []CapacityAccounted
BY InvInit, InvStep, InvImpliesAccounted, PTL DEF ccSpec

(* Until disable(), nobody waits in a queue that has a slot to give. *)
THEOREM NoSlotIdles == ccSpec => []NoIdleSlot
BY InvInit, InvStep, InvImpliesNoIdleSlot, PTL DEF ccSpec

(* Only the head of the queue that is shifted can be admitted.               *)
LEMMA OnlyHeadIsAdmitted ==
    ASSUME NEW q \in Seq(Caller), NEW g \in [Caller -> Grant], NEW c \in Caller,
           g[c] # "granted", ResolveNext(q, g)[c] = "granted"
    PROVE  q # <<>> /\ c = q[1] /\ 1 \in 1..Len(q)
BY ShiftedProperties DEF ResolveNext

(* A waiter that is admitted leaves nobody ahead of it waiting.             *)
LEMMA OrderKept ==
    ASSUME Inv, ccNext, NEW t \in QueueType,
           NEW i \in DOMAIN queue[t], NEW j \in DOMAIN queue[t], i < j,
           grant'[queue[t][j]] = "granted"
    PROVE  grant'[queue[t][i]] # "queued"
<1> DEFINE a == queue[t][i]
           b == queue[t][j]
<1>1. /\ ccTypeOK /\ grant \in [Caller -> Grant]
      /\ \A u \in QueueType : queue[u] \in Seq(Caller) /\ Waiters(queue[u], grant, u)
  BY DEF Inv, ccTypeOK, QueueInv
<1>2. i \in 1..Len(queue[t]) /\ j \in 1..Len(queue[t])
  BY <1>1
<1>3. /\ a \in Caller /\ b \in Caller /\ grant[a] = "queued" /\ grant[b] = "queued"
      /\ QueueOf[a] = t /\ QueueOf[b] = t
  BY <1>1, <1>2 DEF Waiters
<1>4. \A k \in 1..Len(queue[t]) : b = queue[t][k] => k = j
  BY <1>1, <1>2 DEF Waiters
<1>5. grant' # grant /\ grant'[b] = "granted"
  BY <1>3
<1>6. ASSUME NEW c \in Caller, throttle(c) PROVE FALSE
  <2>1. c # b /\ \E x \in Grant : grant' = [grant EXCEPT ![c] = x]
    BY <1>1, <1>3, <1>6 DEF throttle, enqueue, Grant
  <2>2. QED
    BY <2>1, <1>1, <1>3, <1>5
<1>7. ASSUME NEW c \in Caller, release(c) PROVE FALSE
  <2> DEFINE u == QueueOf[c]
             g == [grant EXCEPT ![c] = "released"]
  <2>1. c # b /\ g \in [Caller -> Grant] /\ g[b] = "queued"
    BY <1>1, <1>3, <1>7 DEF release, Grant
  <2>2. IsThrottled(u)
    BY <1>5, <1>7, <2>1 DEF release
  <2>3. u \in QueueType /\ grant' = ResolveNext(queue[u], g)
    BY <1>7, <2>2 DEF release, dequeue, IsThrottled
  <2> HIDE DEF u, g, b
  <2>4. b = queue[u][1] /\ 1 \in 1..Len(queue[u])
    BY <1>1, <1>3, <1>5, <2>1, <2>3, OnlyHeadIsAdmitted
  <2>5. u = t
    BY <1>1, <1>3, <2>3, <2>4 DEF Waiters
  <2>6. QED
    BY <1>2, <1>4, <2>4, <2>5
<1>8. ASSUME NEW c \in Caller, remove(QueueOf[c], IdOf[c]) PROVE grant'[a] # "queued"
  <2> DEFINE u == QueueOf[c]
  <2>1. PICK k \in DOMAIN queue[u] : IsThrottled(u) /\ removeFromQueue(u, k)
    BY <1>5, <1>8 DEF remove
  <2> DEFINE rest == Splice(queue[u], k)
             g == [grant EXCEPT ![queue[u][k]] = "evicted"]
  <2>2. /\ u \in QueueType /\ queue[u] \in Seq(Caller) /\ k \in 1..Len(queue[u])
        /\ grant' = ResolveNext(rest, g)
    BY <1>1, <2>1 DEF removeFromQueue, IsThrottled
  <2>3. /\ queue[u][k] \in Caller /\ QueueOf[queue[u][k]] = u
        /\ g \in [Caller -> Grant] /\ g[b] # "granted"
    BY <1>1, <1>3, <2>2 DEF Waiters, Grant
  <2>4. /\ rest \in Seq(Caller) /\ Len(rest) = Len(queue[u]) - 1
        /\ \A n \in 1..(Len(queue[u]) - 1) :
              rest[n] = IF n < k THEN queue[u][n] ELSE queue[u][n + 1]
    BY <2>2, SpliceProperties, ZenonT(30)
  <2> HIDE DEF rest, b
  <2>5. b = rest[1] /\ 1 \in 1..Len(rest) /\ rest # <<>>
    BY <1>3, <1>5, <2>2, <2>3, <2>4, OnlyHeadIsAdmitted, ZenonT(30)
  <2>6. /\ b = queue[u][IF 1 < k THEN 1 ELSE 2]
        /\ (IF 1 < k THEN 1 ELSE 2) \in 1..Len(queue[u])
    BY <2>2, <2>4, <2>5
  <2>7. u = t
    BY <1>1, <1>3, <2>2, <2>6 DEF Waiters
  <2>8. j = IF 1 < k THEN 1 ELSE 2
    BY <1>4, <2>6, <2>7
  <2>9. k = 1 /\ i = 1
    BY <1>2, <2>2, <2>8
  <2>10. g[a] = "evicted" /\ a # b
    BY <1>1, <1>2, <1>3, <1>4, <2>7, <2>9
  <2>11. Head(rest) = b
    BY <2>4, <2>5, ShiftedProperties
  <2>12. grant' = [g EXCEPT ![b] = "granted"]
    BY <2>2, <2>5, <2>11 DEF ResolveNext
  <2> HIDE DEF g
  <2>13. QED
    BY <1>3, <2>3, <2>10, <2>12
<1>9. ~disable
  BY <1>5 DEF disable
<1>10. QED
  BY <1>6, <1>7, <1>8, <1>9 DEF ccNext

(* resolveNext() serves waiters in the order of their arrival, also when
   remove() takes entries out of the middle of the queue. *)
THEOREM ServedInOrder == ccSpec => FirstComeFirstServed
<1>1. Inv /\ [ccNext]_ccVars =>
        [\A t \in QueueType : \A i, j \in DOMAIN queue[t] :
            i < j /\ grant'[queue[t][j]] = "granted" => grant'[queue[t][i]] # "queued"]_ccVars
  BY OrderKept
<1>2. QED
  BY <1>1, InvInit, InvStep, PTL DEF ccSpec, FirstComeFirstServed

-----------------------------------------------------------------------------
(* What one call does to the promises of all callers.  Whoever is admitted   *)
(* without having called was waiting.                                        *)
LEMMA ResolveNextAdmits ==
    ASSUME NEW q \in Seq(Caller), NEW g \in [Caller -> Grant], NEW d \in Caller
    PROVE  \/ ResolveNext(q, g)[d] = g[d]
           \/ ResolveNext(q, g)[d] = "granted" /\ \E i \in 1..Len(q) : d = q[i]
BY ShiftedProperties DEF ResolveNext

LEMMA ThrottleGrants ==
    ASSUME Inv, NEW c \in Caller, throttle(c)
    PROVE  /\ grant'[c] \in {"queued", "granted"}
           /\ \A d \in Caller : d # c => grant'[d] = grant[d]
BY DEF Inv, ccTypeOK, throttle, enqueue

LEMMA ReleaseGrants ==
    ASSUME Inv, NEW c \in Caller, release(c)
    PROVE  /\ grant'[c] = "released"
           /\ \A d \in Caller : d # c =>
                  grant'[d] = grant[d] \/ (grant[d] = "queued" /\ grant'[d] = "granted")
<1> DEFINE u == QueueOf[c]
           g == [grant EXCEPT ![c] = "released"]
<1>1. /\ grant \in [Caller -> Grant] /\ grant[c] = "granted" /\ g \in [Caller -> Grant]
      /\ g[c] = "released" /\ \A d \in Caller : d # c => g[d] = grant[d]
  BY DEF Inv, ccTypeOK, release, Grant
<1>2. CASE ~IsThrottled(u)
  BY <1>1, <1>2 DEF release
<1>3. CASE IsThrottled(u)
  <2>1. /\ u \in QueueType /\ queue[u] \in Seq(Caller) /\ Waiters(queue[u], grant, u)
        /\ grant' = ResolveNext(queue[u], g)
    BY <1>3 DEF release, dequeue, IsThrottled, Inv, ccTypeOK, QueueInv
  <2> HIDE DEF u, g
  <2>2. \A d \in Caller : grant'[d] = g[d] \/ (grant[d] = "queued" /\ grant'[d] = "granted")
    BY <1>1, <2>1, ResolveNextAdmits DEF Waiters
  <2>3. QED
    BY <1>1, <2>2
<1>4. QED
  BY <1>2, <1>3

LEMMA RemoveGrants ==
    ASSUME Inv, NEW t, NEW id, remove(t, id), NEW d \in Caller
    PROVE  \/ grant'[d] = grant[d]
           \/ grant[d] = "queued" /\ grant'[d] \in {"granted", "evicted"}
<1>1. grant \in [Caller -> Grant]
  BY DEF Inv, ccTypeOK
<1>2. CASE UNCHANGED grant
  BY <1>2
<1>3. ASSUME NEW k \in DOMAIN queue[t], IsThrottled(t), removeFromQueue(t, k)
      PROVE  \/ grant'[d] = grant[d]
             \/ grant[d] = "queued" /\ grant'[d] \in {"granted", "evicted"}
  <2> DEFINE rest == Splice(queue[t], k)
             g == [grant EXCEPT ![queue[t][k]] = "evicted"]
  <2>1. /\ t \in QueueType /\ queue[t] \in Seq(Caller) /\ k \in 1..Len(queue[t])
        /\ Waiters(queue[t], grant, t) /\ grant' = ResolveNext(rest, g)
    BY <1>3 DEF removeFromQueue, IsThrottled, Inv, ccTypeOK, QueueInv
  <2>2. /\ g \in [Caller -> Grant]
        /\ g[d] = grant[d] \/ (grant[d] = "queued" /\ g[d] = "evicted")
    BY <1>1, <2>1 DEF Waiters, Grant
  <2>3. /\ rest \in Seq(Caller)
        /\ \A n \in 1..Len(rest) : grant[rest[n]] = "queued"
    <3>1. /\ rest \in Seq(Caller) /\ Len(rest) = Len(queue[t]) - 1
          /\ \A n \in 1..(Len(queue[t]) - 1) :
                rest[n] = IF n < k THEN queue[t][n] ELSE queue[t][n + 1]
      BY <2>1, SpliceProperties
    <3> HIDE DEF rest
    <3>2. QED
      BY <2>1, <3>1 DEF Waiters
  <2> HIDE DEF rest, g
  <2>4. grant'[d] = g[d] \/ (grant[d] = "queued" /\ grant'[d] = "granted")
    <3>1. \/ ResolveNext(rest, g)[d] = g[d]
          \/ ResolveNext(rest, g)[d] = "granted" /\ \E i \in 1..Len(rest) : d = rest[i]
      BY <2>2, <2>3, ResolveNextAdmits
    <3>2. QED
      BY <2>1, <2>3, <3>1
  <2>5. QED
    BY <2>2, <2>4
<1>4. QED
  BY <1>2, <1>3 DEF remove

-----------------------------------------------------------------------------
(* No promise gets lost.  Whoever is still pending after a shift was not the *)
(* head of the queue, and whoever is still pending after a splice was not    *)
(* the entry that was cut out.                                               *)
LEMMA ShiftKeepsPending ==
    ASSUME NEW q \in Seq(Caller), NEW g \in [Caller -> Grant], NEW d \in Caller,
           ResolveNext(q, g)[d] = "queued", NEW i \in 1..Len(q), q[i] = d
    PROVE  \E j \in 1..Len(Shifted(q)) : Shifted(q)[j] = d
<1>1. Len(q) \in Nat /\ q # <<>>
  OBVIOUS
<1>2. /\ Len(Shifted(q)) = Len(q) - 1 /\ Head(q) = q[1]
      /\ \A k \in 1..(Len(q) - 1) : Shifted(q)[k] = q[k + 1]
  BY <1>1, ShiftedProperties
<1>3. i # 1
  BY <1>1, <1>2 DEF ResolveNext
<1>4. i - 1 \in 1..(Len(q) - 1) /\ q[(i - 1) + 1] = d
  BY <1>1, <1>3
<1>5. QED
  BY <1>2, <1>4

LEMMA SpliceKeepsOthers ==
    ASSUME NEW q \in Seq(Caller), NEW k \in 1..Len(q), NEW i \in 1..Len(q), i # k
    PROVE  \E j \in 1..Len(Splice(q, k)) : Splice(q, k)[j] = q[i]
<1>1. Len(q) \in Nat
  OBVIOUS
<1>2. /\ Len(Splice(q, k)) = Len(q) - 1
      /\ \A n \in 1..(Len(q) - 1) : Splice(q, k)[n] = IF n < k THEN q[n] ELSE q[n + 1]
  BY SpliceProperties
<1>3. CASE i < k
  <2>1. i \in 1..(Len(q) - 1)
    BY <1>1, <1>3
  <2>2. QED
    BY <1>2, <1>3, <2>1
<1>4. CASE ~(i < k)
  <2>1. i - 1 \in 1..(Len(q) - 1) /\ ~(i - 1 < k) /\ q[(i - 1) + 1] = q[i]
    BY <1>1, <1>4
  <2>2. QED
    BY <1>2, <2>1
<1>5. QED
  BY <1>3, <1>4

LEMMA PendingStep ==
    ASSUME Inv, PendingIsQueued, [ccNext]_ccVars PROVE PendingIsQueued'
<1> SUFFICES ASSUME NEW d \in Caller, grant'[d] = "queued"
             PROVE  \E t \in QueueType : \E i \in DOMAIN queue'[t] : queue'[t][i] = d
  BY DEF PendingIsQueued
<1>1. /\ grant \in [Caller -> Grant] /\ queue \in [QueueType -> Seq(Caller)]
      /\ \A u \in QueueType : queue[u] \in Seq(Caller) /\ Len(queue[u]) \in Nat
                             /\ DOMAIN queue[u] = 1..Len(queue[u])
  BY DEF Inv, ccTypeOK
<1>2. ASSUME grant[d] = "queued"
      PROVE  \E u \in QueueType : \E i \in 1..Len(queue[u]) : queue[u][i] = d
  BY <1>1, <1>2 DEF PendingIsQueued
<1>3. ASSUME grant[d] = "queued", UNCHANGED queue
      PROVE  \E t \in QueueType : \E i \in DOMAIN queue'[t] : queue'[t][i] = d
  BY <1>1, <1>2, <1>3
<1>4. ASSUME NEW c \in Caller, throttle(c)
      PROVE  \E t \in QueueType : \E i \in DOMAIN queue'[t] : queue'[t][i] = d
  <2>1. CASE UNCHANGED queue /\ grant' = [grant EXCEPT ![c] = "granted"]
    BY <1>1, <1>3, <2>1
  <2>2. CASE /\ QueueOf[c] \in QueueType /\ grant' = [grant EXCEPT ![c] = "queued"]
             /\ queue' = [queue EXCEPT ![QueueOf[c]] = Append(queue[QueueOf[c]], c)]
    <3> DEFINE t == QueueOf[c]
    <3>1. /\ queue'[t] = Append(queue[t], c)
          /\ DOMAIN queue'[t] = 1..Len(queue[t]) + 1
          /\ queue'[t][Len(queue[t]) + 1] = c
          /\ \A i \in 1..Len(queue[t]) : queue'[t][i] = queue[t][i]
      <4>1. queue'[t] = Append(queue[t], c) /\ queue[t] \in Seq(Caller)
        BY <1>1, <2>2
      <4> HIDE DEF t
      <4>2. QED
        BY <4>1
    <3>2. CASE d = c
      BY <1>1, <2>2, <3>1, <3>2
    <3>3. CASE d # c
      <4>1. PICK u \in QueueType : \E i \in 1..Len(queue[u]) : queue[u][i] = d
        BY <1>1, <1>2, <2>2, <3>3
      <4>2. CASE u = t
        <5>1. PICK i \in 1..Len(queue[t]) : queue[t][i] = d
          BY <4>1, <4>2
        <5>2. i \in DOMAIN queue'[t] /\ queue'[t][i] = d
          BY <1>1, <2>2, <3>1, <5>1
        <5>3. QED
          BY <2>2, <5>2
      <4>3. CASE u # t
        BY <1>1, <2>2, <4>1, <4>3
      <4>4. QED
        BY <4>2, <4>3
    <3>4. QED
      BY <3>2, <3>3
  <2>3. QED
    BY <1>1, <1>4, <2>1, <2>2 DEF throttle, enqueue, IsThrottled
<1>5. ASSUME NEW t \in QueueType, NEW q, queue' = [queue EXCEPT ![t] = q],
             NEW u \in QueueType, u # t, NEW i \in 1..Len(queue[u]), queue[u][i] = d
      PROVE  \E v \in QueueType : \E j \in DOMAIN queue'[v] : queue'[v][j] = d
  BY <1>1, <1>5
<1>6. ASSUME NEW c \in Caller, release(c)
      PROVE  \E t \in QueueType : \E i \in DOMAIN queue'[t] : queue'[t][i] = d
  <2> DEFINE t == QueueOf[c]
             g == [grant EXCEPT ![c] = "released"]
  <2>1. grant[d] = "queued"
    BY <1>6, ReleaseGrants
  <2>2. PICK u \in QueueType : \E i \in 1..Len(queue[u]) : queue[u][i] = d
    BY <1>2, <2>1
  <2>3. CASE ~IsThrottled(t)
    BY <1>3, <1>6, <2>1, <2>3 DEF release
  <2>4. CASE IsThrottled(t)
    <3>1. /\ t \in QueueType /\ g \in [Caller -> Grant]
          /\ queue' = [queue EXCEPT ![t] = Shifted(queue[t])]
          /\ grant' = ResolveNext(queue[t], g)
      BY <1>1, <1>6, <2>4 DEF release, dequeue, IsThrottled, Grant
    <3> HIDE DEF t, g
    <3>2. CASE u # t
      BY <1>5, <2>2, <3>1, <3>2
    <3>3. CASE u = t
      <4>1. \E j \in 1..Len(Shifted(queue[t])) : Shifted(queue[t])[j] = d
        BY <1>1, <2>2, <3>1, <3>3, ShiftKeepsPending
      <4>2. QED
        BY <1>1, <3>1, <4>1, ShiftedProperties
    <3>4. QED
      BY <3>2, <3>3
  <2>5. QED
    BY <2>3, <2>4
<1>7. ASSUME NEW c \in Caller, remove(QueueOf[c], IdOf[c])
      PROVE  \E t \in QueueType : \E i \in DOMAIN queue'[t] : queue'[t][i] = d
  <2> DEFINE t == QueueOf[c]
  <2>1. grant[d] = "queued"
    BY <1>7, RemoveGrants
  <2>2. PICK u \in QueueType : \E i \in 1..Len(queue[u]) : queue[u][i] = d
    BY <1>2, <2>1
  <2>3. CASE UNCHANGED queue
    BY <1>3, <2>1, <2>3
  <2>4. ASSUME NEW k \in DOMAIN queue[t], IsThrottled(t), removeFromQueue(t, k)
        PROVE  \E v \in QueueType : \E i \in DOMAIN queue'[v] : queue'[v][i] = d
    <3> DEFINE rest == Splice(queue[t], k)
               g == [grant EXCEPT ![queue[t][k]] = "evicted"]
    <3>1. /\ t \in QueueType /\ k \in 1..Len(queue[t]) /\ queue[t][k] \in Caller
          /\ queue' = [queue EXCEPT ![t] = Shifted(rest)]
          /\ grant' = ResolveNext(rest, g) /\ g \in [Caller -> Grant]
      BY <1>1, <2>4 DEF removeFromQueue, IsThrottled, Grant
    <3>2. rest \in Seq(Caller)
      BY <1>1, <3>1, SpliceProperties
    <3>3. CASE u # t
      <4> HIDE DEF t, rest, g
      <4>1. QED
        BY <1>5, <2>2, <3>1, <3>3
    <3>4. CASE u = t
      <4>1. PICK i \in 1..Len(queue[t]) : queue[t][i] = d
        BY <2>2, <3>4
      <4>2. i # k
        <5>1. g[queue[t][k]] = "evicted"
          BY <1>1, <3>1
        <5> HIDE DEF rest, g
        <5>2. ResolveNext(rest, g)[queue[t][k]] \in {"evicted", "granted"}
          BY <3>1, <3>2, <5>1, ResolveNextAdmits
        <5>3. QED
          BY <3>1, <4>1, <5>2
      <4>3. \E j \in 1..Len(rest) : rest[j] = d
        BY <1>1, <3>1, <4>1, <4>2, SpliceKeepsOthers
      <4> HIDE DEF t, rest, g
      <4>4. \E j \in 1..Len(Shifted(rest)) : Shifted(rest)[j] = d
        BY <3>1, <3>2, <4>3, ShiftKeepsPending
      <4>5. QED
        BY <1>1, <3>1, <3>2, <4>4, ShiftedProperties
    <3>5. QED
      BY <3>3, <3>4
  <2>5. QED
    BY <1>7, <2>3, <2>4 DEF remove
<1>8. CASE disable \/ UNCHANGED ccVars
  BY <1>3, <1>8 DEF disable, ccVars
<1>9. QED
  BY <1>4, <1>6, <1>7, <1>8 DEF ccNext

(* Every caller whose promise is pending is in a queue: throttle(), release()
   and remove() drop no promise unresolved, before disable() and after it. *)
THEOREM NobodyIsForgotten == ccSpec => []PendingIsQueued
<1>1. ccInit => PendingIsQueued
  BY DEF ccInit, PendingIsQueued
<1>2. QED
  BY <1>1, InvInit, InvStep, PendingStep, PTL DEF ccSpec

(* Until disable(), whoever waits waits for a holder of a slot of its queue.  *)
LEMMA PendingHasHolder ==
    ASSUME Inv, PendingIsQueued, ~disabled, NEW c \in Caller, grant[c] = "queued"
    PROVE  \E d \in Caller : QueueOf[d] = QueueOf[c] /\ grant[d] = "granted"
<1>1. PICK t \in QueueType : \E i \in DOMAIN queue[t] : queue[t][i] = c
  BY DEF PendingIsQueued
<1>2. queue[t] \in Seq(Caller) /\ Waiters(queue[t], grant, t) /\ Limit[t] \in Int
  BY LimitAssumption DEF LimitAssumption, Inv, ccTypeOK, QueueInv
<1>3. queue[t] # <<>> /\ QueueOf[c] = t
  <2>1. PICK i \in 1..Len(queue[t]) : queue[t][i] = c
    BY <1>1, <1>2
  <2>2. queue[t] # <<>>
    BY <1>2, <2>1
  <2>3. QED
    BY <1>2, <2>1, <2>2 DEF Waiters
<1>4. Limit[t] > 0 /\ Cardinality(Granted(t)) >= Limit[t]
  BY <1>3, InvImpliesNoIdleSlot DEF Inv, QueueInv, NoIdleSlot
<1>5. Granted(t) # {}
  <2> SUFFICES ASSUME Granted(t) = {} PROVE FALSE
    OBVIOUS
  <2>1. Cardinality(Granted(t)) = 0
    BY FS_EmptySet
  <2>2. QED
    BY <1>2, <1>4, <2>1
<1>6. QED
  BY <1>3, <1>5 DEF Granted

-----------------------------------------------------------------------------
(* The limit.  The counter says how many holders there are, so that only the *)
(* counter and the length of the queue have to be followed.                  *)

(* What the counter n says of the holders, in numbers.                       *)
LEMMA HoldersCounted ==
    ASSUME NEW t \in QueueType, NEW q \in Seq(Caller), NEW g, NEW n \in Int,
           n = Limit[t] - Load(q, g, t)
    PROVE  /\ Cardinality(GrantedIn(g, t)) = Limit[t] - n - Len(q)
           /\ Len(q) \in Nat /\ Limit[t] \in Int
<1>1. Len(q) \in Nat /\ Cardinality(GrantedIn(g, t)) \in Nat
  BY LoadType
<1>2. Limit[t] \in Int
  BY LimitAssumption DEF LimitAssumption
<1>3. QED
  BY <1>1, <1>2 DEF Load

EvictedIn(g, t) == {c \in Caller : QueueOf[c] = t /\ g[c] = "evicted"}

LEMMA EvictedFinite ==
    ASSUME NEW g, NEW t
    PROVE  IsFiniteSet(EvictedIn(g, t)) /\ Cardinality(EvictedIn(g, t)) \in Nat
<1>1. EvictedIn(g, t) \subseteq Caller /\ IsFiniteSet(Caller)
  BY CallerAssumption DEF EvictedIn, CallerAssumption
<1>2. IsFiniteSet(EvictedIn(g, t))
  BY <1>1, FS_Subset
<1>3. QED
  BY <1>2, FS_CardinalityType

(* h, v: holders and evicted before a call; n, k: counter and length.        *)
LEMMA LimitArithmetic ==
    ASSUME NEW l \in Int, NEW h, NEW hh, NEW v \in Nat, NEW vv \in Nat,
           NEW n \in Int, NEW nn \in Int, NEW k \in Nat, NEW kk \in Nat,
           h = l - n - k, hh = l - nn - kk, h <= l + v, v <= vv,
           \/ nn = n /\ kk = k
           \/ nn = n - 1 /\ (kk = k + 1 \/ (kk = k /\ n - 1 >= 0))
           \/ nn = n + 1 /\ (kk = k - 1 \/ (kk = k /\ k = 0))
           \/ nn = n + 1 /\ kk \in {k - 1, k - 2} /\ v + 1 <= vv
    PROVE  hh <= l + vv
OBVIOUS

(* Nobody that was evicted comes back.                                       *)
LEMMA EvictedStay ==
    ASSUME Inv, [ccNext]_ccVars, NEW c \in Caller, grant[c] = "evicted"
    PROVE  grant'[c] = "evicted"
<1>1. ASSUME NEW d \in Caller, throttle(d) PROVE grant'[c] = "evicted"
  BY <1>1, ThrottleGrants DEF throttle
<1>2. ASSUME NEW d \in Caller, release(d) PROVE grant'[c] = "evicted"
  BY <1>2, ReleaseGrants DEF release
<1>3. ASSUME NEW d \in Caller, remove(QueueOf[d], IdOf[d]) PROVE grant'[c] = "evicted"
  BY <1>3, RemoveGrants
<1>4. CASE disable \/ UNCHANGED ccVars
  BY <1>4 DEF disable, ccVars
<1>5. QED
  BY <1>1, <1>2, <1>3, <1>4 DEF ccNext

(* A splice evicts the caller whose entry it takes.                          *)
LEMMA SpliceEvicts ==
    ASSUME Inv, NEW t \in QueueType, NEW k \in 1..Len(queue[t]), removeFromQueue(t, k)
    PROVE  /\ queue[t][k] \in Caller /\ QueueOf[queue[t][k]] = t
           /\ grant[queue[t][k]] = "queued" /\ grant'[queue[t][k]] = "evicted"
<1> DEFINE c == queue[t][k]
           rest == Splice(queue[t], k)
           g == [grant EXCEPT ![c] = "evicted"]
<1>1. /\ queue[t] \in Seq(Caller) /\ grant \in [Caller -> Grant]
      /\ Waiters(queue[t], grant, t)
  BY DEF Inv, QueueInv, ccTypeOK
<1>2. c \in Caller /\ QueueOf[c] = t /\ grant[c] = "queued"
  BY <1>1 DEF Waiters
<1>3. grant' = ResolveNext(rest, g)
  BY DEF removeFromQueue
<1>4. g \in [Caller -> Grant] /\ g[c] = "evicted"
  BY <1>1, <1>2 DEF Grant
<1>5. rest \in Seq(Caller) /\ Waiters(rest, g, t)
  BY <1>1, SpliceProperties, SpliceSubtracts
<1> HIDE DEF rest, g, c
<1>6. grant'[c] = "evicted"
  BY <1>2, <1>3, <1>4, <1>5, ResolveNextAdmits DEF Waiters
<1>7. QED
  BY <1>2, <1>6 DEF c

(* What each call does to the counter and the length of a limited queue.     *)
LEMMA QueueMoves ==
    ASSUME Inv, ~disabled', [ccNext]_ccVars, NEW t \in QueueType, Limit[t] > 0
    PROVE  \/ capacity'[t] = capacity[t] /\ queue'[t] = queue[t]
           \/ /\ capacity'[t] = capacity[t] - 1
              /\ \/ Len(queue'[t]) = Len(queue[t]) + 1
                 \/ Len(queue'[t]) = Len(queue[t]) /\ capacity[t] - 1 >= 0
           \/ /\ capacity'[t] = capacity[t] + 1
              /\ \/ Len(queue'[t]) = Len(queue[t]) - 1
                 \/ Len(queue'[t]) = Len(queue[t]) /\ Len(queue[t]) = 0
           \/ /\ capacity'[t] = capacity[t] + 1
              /\ Len(queue'[t]) \in {Len(queue[t]) - 1, Len(queue[t]) - 2}
              /\ \E c \in Caller : /\ QueueOf[c] = t
                                   /\ grant[c] # "evicted" /\ grant'[c] = "evicted"
<1>1. /\ capacity \in [QueueType -> Int] /\ queue \in [QueueType -> Seq(Caller)]
      /\ queue[t] \in Seq(Caller) /\ Len(queue[t]) \in Nat /\ capacity[t] \in Int
  BY DEF Inv, ccTypeOK
<1> DEFINE Same == capacity'[t] = capacity[t] /\ queue'[t] = queue[t]
<1>2. ASSUME NEW c \in Caller, throttle(c)
      PROVE  \/ Same
             \/ /\ capacity'[t] = capacity[t] - 1
                /\ \/ Len(queue'[t]) = Len(queue[t]) + 1
                   \/ Len(queue'[t]) = Len(queue[t]) /\ capacity[t] - 1 >= 0
  <2>1. CASE IsThrottled(QueueOf[c]) /\ QueueOf[c] = t
    <3>1. enqueue(t, c)
      BY <1>2, <2>1 DEF throttle
    <3>2. capacity'[t] = capacity[t] - 1
      BY <1>1, <3>1 DEF enqueue
    <3>3. \/ queue'[t] = Append(queue[t], c)
          \/ queue'[t] = queue[t] /\ ~(capacity[t] - 1 < 0)
      BY <1>1, <3>1 DEF enqueue
    <3>4. Len(Append(queue[t], c)) = Len(queue[t]) + 1
      BY <1>1
    <3>5. QED
      BY <1>1, <3>2, <3>3, <3>4
  <2>2. CASE IsThrottled(QueueOf[c]) /\ QueueOf[c] # t
    BY <1>1, <1>2, <2>2 DEF throttle, enqueue
  <2>3. CASE ~IsThrottled(QueueOf[c])
    BY <1>2, <2>3 DEF throttle
  <2>4. QED
    BY <2>1, <2>2, <2>3
<1>3. ASSUME NEW c \in Caller, release(c)
      PROVE  \/ Same
             \/ /\ capacity'[t] = capacity[t] + 1
                /\ \/ Len(queue'[t]) = Len(queue[t]) - 1
                   \/ Len(queue'[t]) = Len(queue[t]) /\ Len(queue[t]) = 0
  <2>1. CASE IsThrottled(QueueOf[c]) /\ QueueOf[c] = t
    <3>1. capacity'[t] = capacity[t] + 1 /\ queue'[t] = Shifted(queue[t])
      BY <1>1, <1>3, <2>1 DEF release, dequeue
    <3>2. CASE queue[t] = <<>>
      BY <3>1, <3>2 DEF Shifted
    <3>3. CASE queue[t] # <<>>
      BY <1>1, <3>1, <3>3, ShiftedProperties
    <3>4. QED
      BY <3>1, <3>2, <3>3
  <2>2. CASE IsThrottled(QueueOf[c]) /\ QueueOf[c] # t
    BY <1>1, <1>3, <2>2 DEF release, dequeue
  <2>3. CASE ~IsThrottled(QueueOf[c])
    BY <1>3, <2>3 DEF release
  <2>4. QED
    BY <2>1, <2>2, <2>3
<1>4. ASSUME NEW u, NEW id, remove(u, id)
      PROVE  \/ Same
             \/ /\ capacity'[t] = capacity[t] + 1
                /\ Len(queue'[t]) \in {Len(queue[t]) - 1, Len(queue[t]) - 2}
                /\ \E c \in Caller : /\ QueueOf[c] = t
                                     /\ grant[c] # "evicted" /\ grant'[c] = "evicted"
  <2>1. CASE UNCHANGED <<capacity, queue>>
    BY <2>1
  <2>2. ASSUME NEW k \in DOMAIN queue[u], removeFromQueue(u, k), u # t PROVE Same
    BY <1>1, <2>2 DEF removeFromQueue
  <2>3. ASSUME NEW k \in DOMAIN queue[t], removeFromQueue(t, k)
        PROVE  /\ capacity'[t] = capacity[t] + 1
               /\ Len(queue'[t]) \in {Len(queue[t]) - 1, Len(queue[t]) - 2}
               /\ \E c \in Caller : /\ QueueOf[c] = t
                                    /\ grant[c] # "evicted" /\ grant'[c] = "evicted"
    <3> DEFINE rest == Splice(queue[t], k)
    <3>1. k \in 1..Len(queue[t])
      BY <1>1
    <3>2. rest \in Seq(Caller) /\ Len(rest) = Len(queue[t]) - 1
      BY <1>1, <3>1, SpliceProperties
    <3>3. capacity'[t] = capacity[t] + 1 /\ queue'[t] = Shifted(rest)
      BY <1>1, <2>3 DEF removeFromQueue
    <3> HIDE DEF rest
    <3>4. Len(Shifted(rest)) \in {Len(rest), Len(rest) - 1}
      <4>1. CASE rest = <<>>
        BY <4>1 DEF Shifted
      <4>2. CASE rest # <<>>
        BY <3>2, <4>2, ShiftedProperties
      <4>3. QED
        BY <4>1, <4>2
    <3>5. Len(queue'[t]) \in {Len(queue[t]) - 1, Len(queue[t]) - 2}
      BY <1>1, <3>2, <3>3, <3>4
    <3>6. QED
      BY <2>3, <3>1, <3>3, <3>5, SpliceEvicts
  <2>4. QED
    BY <1>4, <2>1, <2>2, <2>3 DEF remove
<1>5. ~disable
  BY DEF disable
<1>6. CASE UNCHANGED ccVars
  BY <1>6 DEF ccVars
<1>7. QED
  BY <1>2, <1>3, <1>4, <1>5, <1>6 DEF ccNext

LEMMA WithinLimitStep ==
    ASSUME Inv, HoldersWithinLimit, [ccNext]_ccVars PROVE HoldersWithinLimit'
<1> SUFFICES ASSUME ~disabled', NEW t \in QueueType, Limit[t] > 0
             PROVE  Cardinality(Granted(t)') <= Limit[t] + Cardinality(Evicted(t)')
  BY DEF HoldersWithinLimit
<1> DEFINE h == Cardinality(GrantedIn(grant, t))
           hh == Cardinality(GrantedIn(grant', t))
           v == Cardinality(EvictedIn(grant, t))
           vv == Cardinality(EvictedIn(grant', t))
<1>1. Inv'
  BY InvStep
<1>2. ~disabled
  <2>1. disabled \in BOOLEAN /\ disabled' \in BOOLEAN
    BY <1>1 DEF Inv, ccTypeOK
  <2>2. QED
    BY <2>1 DEF ccNext, throttle, release, remove, disable, ccVars
<1>3. /\ Granted(t) = GrantedIn(grant, t) /\ Granted(t)' = GrantedIn(grant', t)
      /\ Evicted(t) = EvictedIn(grant, t) /\ Evicted(t)' = EvictedIn(grant', t)
  BY DEF Granted, GrantedIn, Evicted, EvictedIn
<1>4. /\ h = Limit[t] - capacity[t] - Len(queue[t])
      /\ Len(queue[t]) \in Nat /\ capacity[t] \in Int /\ Limit[t] \in Int
  <2>1. queue[t] \in Seq(Caller) /\ capacity[t] \in Int
    BY DEF Inv, ccTypeOK
  <2>2. capacity[t] = Limit[t] - Load(queue[t], grant, t)
    BY <1>2 DEF Inv, QueueInv
  <2>3. QED
    BY <2>1, <2>2, HoldersCounted
<1>5. /\ hh = Limit[t] - capacity'[t] - Len(queue'[t])
      /\ Len(queue'[t]) \in Nat /\ capacity'[t] \in Int
  <2>1. queue'[t] \in Seq(Caller) /\ capacity'[t] \in Int
    BY <1>1 DEF Inv, ccTypeOK
  <2>2. capacity'[t] = Limit[t] - Load(queue'[t], grant', t)
    BY <1>1 DEF Inv, QueueInv, Load, GrantedIn
  <2>3. QED
    BY <2>1, <2>2, HoldersCounted
<1>6. h <= Limit[t] + v
  BY <1>2, <1>3 DEF HoldersWithinLimit
<1>7. /\ EvictedIn(grant, t) \subseteq EvictedIn(grant', t)
      /\ IsFiniteSet(EvictedIn(grant, t)) /\ IsFiniteSet(EvictedIn(grant', t))
      /\ v \in Nat /\ vv \in Nat
  <2>1. EvictedIn(grant, t) \subseteq EvictedIn(grant', t)
    BY EvictedStay DEF EvictedIn
  <2>2. QED
    BY <2>1, EvictedFinite
<1>8. v <= vv
  BY <1>7, FS_Subset
<1>9. ASSUME NEW c \in Caller, QueueOf[c] = t, grant[c] # "evicted", grant'[c] = "evicted"
      PROVE  v + 1 <= vv
  <2>1. c \notin EvictedIn(grant, t) /\ c \in EvictedIn(grant', t)
    BY <1>9 DEF EvictedIn
  <2>2. Cardinality(EvictedIn(grant, t) \cup {c}) = v + 1
    BY <1>7, <2>1, FS_AddElement
  <2>3. EvictedIn(grant, t) \cup {c} \subseteq EvictedIn(grant', t)
    BY <1>7, <2>1
  <2>4. Cardinality(EvictedIn(grant, t) \cup {c}) <= vv
    BY <1>7, <2>3, FS_Subset
  <2>5. QED
    BY <2>2, <2>4
<1> HIDE DEF h, hh, v, vv
<1> DEFINE n == capacity[t]
           nn == capacity'[t]
           k == Len(queue[t])
           kk == Len(queue'[t])
<1>10. \/ nn = n /\ kk = k
       \/ nn = n - 1 /\ (kk = k + 1 \/ (kk = k /\ n - 1 >= 0))
       \/ nn = n + 1 /\ (kk = k - 1 \/ (kk = k /\ k = 0))
       \/ nn = n + 1 /\ kk \in {k - 1, k - 2} /\ v + 1 <= vv
  BY <1>9, QueueMoves, Zenon
<1> HIDE DEF n, nn, k, kk
<1>11. /\ n \in Int /\ nn \in Int /\ k \in Nat /\ kk \in Nat
       /\ h = Limit[t] - n - k /\ hh = Limit[t] - nn - kk
  BY <1>4, <1>5 DEF n, nn, k, kk
<1>12. hh <= Limit[t] + vv
  <2> DEFINE l == Limit[t]
  <2>1. l \in Int /\ v \in Nat /\ vv \in Nat /\ h <= l + v
    BY <1>4, <1>6, <1>7
  <2>2. h = l - n - k /\ hh = l - nn - kk
    BY <1>11
  <2> HIDE DEF l
  <2>3. hh <= l + vv
    BY <2>1, <2>2, <1>8, <1>10, <1>11, LimitArithmetic, SMTT(30)
  <2>4. QED
    BY <2>3 DEF l
<1>13. QED
  BY <1>3, <1>12 DEF hh, vv

(* Until disable(), a limited queue never has more holders than its limit and
   the number of executions that were stopped while they waited in it. *)
THEOREM LimitRespected == ccSpec => []HoldersWithinLimit
<1>1. ccInit => HoldersWithinLimit
  <2> SUFFICES ASSUME ccInit, ~disabled, NEW t \in QueueType, Limit[t] > 0
               PROVE  Cardinality(Granted(t)) <= Limit[t] + Cardinality(Evicted(t))
    BY DEF HoldersWithinLimit
  <2>1. Granted(t) = {} /\ Limit[t] \in Int
    BY LimitAssumption DEF Granted, ccInit, LimitAssumption
  <2>2. Cardinality(Granted(t)) = 0
    BY <2>1, FS_EmptySet
  <2>3. Cardinality(Evicted(t)) \in Nat
    <3>1. Evicted(t) = EvictedIn(grant, t)
      BY DEF Evicted, EvictedIn
    <3>2. QED
      BY <3>1, EvictedFinite
  <2>4. QED
    BY <2>1, <2>2, <2>3
<1>2. QED
  BY <1>1, InvInit, InvStep, WithinLimitStep, PTL DEF ccSpec

-----------------------------------------------------------------------------
(* A service that is disabled after a step has neither spliced nor shifted a *)
(* queue in it.                                                              *)
LEMMA DisabledStep ==
    ASSUME Inv, [ccNext]_ccVars, ~isEnabled', disabled,
           NEW c \in Caller, grant[c] = "queued"
    PROVE  grant'[c] = "queued"
<1>1. grant \in [Caller -> Grant]
  BY DEF Inv, ccTypeOK
<1>2. ASSUME NEW t, ensureEvalQueueResolved(t) PROVE ~IsThrottled(t)
  BY <1>2 DEF ensureEvalQueueResolved, IsThrottled
<1>3. CASE UNCHANGED ccVars
  BY <1>3 DEF ccVars
<1>4. ASSUME NEW d \in Caller, throttle(d) \/ release(d) PROVE grant'[c] = "queued"
  BY <1>1, <1>2, <1>4 DEF throttle, release
<1>5. ASSUME NEW d \in Caller, remove(QueueOf[d], IdOf[d]) PROVE grant'[c] = "queued"
  BY <1>2, <1>5 DEF remove
<1>6. CASE disable
  BY <1>6 DEF disable
<1>7. QED
  BY <1>3, <1>4, <1>5, <1>6 DEF ccNext

(* Only the first look at the evaluation limit can enable a service again.   *)
LEMMA ReenabledStep ==
    ASSUME Inv, [ccNext]_ccVars
    PROVE  isEnabled' => isEnabled \/ (~evalQueueResolved /\ evalQueueResolved')
<1> DEFINE G == isEnabled' => isEnabled \/ (~evalQueueResolved /\ evalQueueResolved')
<1>1. ASSUME NEW t, ensureEvalQueueResolved(t) PROVE G
  BY <1>1 DEF ensureEvalQueueResolved, BuildsEvalQueue
<1>2. CASE UNCHANGED ccVars
  BY <1>2 DEF ccVars
<1>3. ASSUME NEW d \in Caller, throttle(d) \/ release(d) \/ remove(QueueOf[d], IdOf[d]) PROVE G
  BY <1>1, <1>3 DEF throttle, release, remove
<1>4. CASE disable
  BY <1>4 DEF disable
<1>5. QED
  BY <1>2, <1>3, <1>4 DEF ccNext

(* Once shutdown has disabled the service, an execution that was waiting is   *)
(* admitted only if the first look at the evaluation limit has enabled the    *)
(* service again, and that happens at most once.                              *)
THEOREM ShutdownAdmitsNobody == ccSpec => ResumeNeedsReenabling
<1>1. ASSUME Inv, [ccNext]_ccVars
      PROVE  [disabled =>
                /\ isEnabled' => isEnabled \/ (~evalQueueResolved /\ evalQueueResolved')
                /\ ~isEnabled' => \A c \in Caller : grant[c] = "queued" => grant'[c] # "granted"]_ccVars
  <2>1. isEnabled' => isEnabled \/ (~evalQueueResolved /\ evalQueueResolved')
    BY <1>1, ReenabledStep
  <2>2. ASSUME disabled, ~isEnabled', NEW c \in Caller, grant[c] = "queued"
        PROVE  grant'[c] # "granted"
    <3>1. grant'[c] = "queued"
      BY <1>1, <2>2, DisabledStep
    <3>2. QED
      BY <3>1
  <2>3. QED
    BY <2>1, <2>2
<1>2. QED
  BY <1>1, InvInit, InvStep, PTL DEF ccSpec, ResumeNeedsReenabling
=============================================================================
