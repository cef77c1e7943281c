-------------------------- MODULE TaskBrokerProofs --------------------------
(***************************************************************************)
(* For any runners, requests and numbers of offers: a request is executed  *)
(* at most once, the assertion about the settings holds, nothing of a      *)
(* runner that has disconnected is kept, a runner never promises a slot it *)
(* does not have, and the system implements TaskCalls.                     *)
(*                                                                         *)
(* The argument follows one offer.  Its number is used once, so that it is *)
(* on the wire, in the broker's list, or accepted, and never in two of     *)
(* these places; its settings are sent when its task is entered, for a     *)
(* request that is still pending and stops being so in the same step.      *)
(***************************************************************************)
EXTENDS TaskBroker, NaturalsInduction, WellFoundedInduction, FiniteSetTheorems,
        SequenceTheorems, TLAPS

-----------------------------------------------------------------------------
(* What Without(s, S) is, for any sequence and any set: the elements that    *)
(* are kept are those outside of S, each at one place for every place it     *)
(* had.  The provers have no induction; in its place, the least prefix of s  *)
(* for which a statement fails leads to a contradiction.                     *)

(* A set of natural numbers has a least element. *)
LEMMA LeastExists ==
    ASSUME NEW B \in SUBSET Nat, B # {}
    PROVE  \E x \in B : \A y \in B : x <= y
<1>1. PICK x \in B : \A y \in B : ~(<<y, x>> \in OpToRel(<, Nat))
  BY NatLessThanWellFounded, WFMin, Zenon
<1>2. ASSUME NEW y \in B PROVE ~(y < x)
  <2>1. y < x => <<y, x>> \in OpToRel(<, Nat)
    BY Zenon DEF OpToRel
  <2>2. QED
    BY <1>1, <2>1, Zenon
<1>3. QED
  BY <1>2

(* What is kept of each prefix of s. *)
KeptPrefixes(T, s, S, n) ==
    {f \in [0..n -> Seq(T)] :
        /\ f[0] = <<>>
        /\ \A i \in 1..n : f[i] = IF s[i] \in S THEN f[i - 1] ELSE Append(f[i - 1], s[i])}

LEMMA PrefixesExist ==
    ASSUME NEW T, NEW s \in Seq(T), NEW S
    PROVE  \A n \in 0..Len(s) : KeptPrefixes(T, s, S, n) # {}
<1> DEFINE B == {n \in 0..Len(s) : KeptPrefixes(T, s, S, n) = {}}
<1> SUFFICES ASSUME B # {} PROVE FALSE
  OBVIOUS
<1>1. PICK x \in B : \A y \in B : x <= y
  <2>1. B \in SUBSET Nat
    OBVIOUS
  <2> HIDE DEF B
  <2>2. QED
    BY <2>1, LeastExists
<1>2. x # 0
  <2>1. [i \in 0..0 |-> <<>>] \in KeptPrefixes(T, s, S, 0)
    BY DEF KeptPrefixes
  <2>2. QED
    BY <2>1
<1>3. x \in Nat /\ x - 1 \in 0..Len(s) /\ x \in 1..Len(s) /\ ~(x <= x - 1)
  BY <1>2
<1>4. x - 1 \notin B
  BY <1>1, <1>3
<1>5. PICK f : f \in KeptPrefixes(T, s, S, x - 1)
  BY <1>3, <1>4
<1> DEFINE e == IF s[x] \in S THEN f[x - 1] ELSE Append(f[x - 1], s[x])
           g == [i \in 0..x |-> IF i = x THEN e ELSE f[i]]
<1>6. f \in [0..x - 1 -> Seq(T)] /\ f[x - 1] \in Seq(T) /\ s[x] \in T
  BY <1>3, <1>5 DEF KeptPrefixes
<1>7. e \in Seq(T)
  BY <1>6
<1> HIDE DEF e
<1>8. g \in [0..x -> Seq(T)]
  BY <1>3, <1>6, <1>7
<1>9. g[0] = <<>>
  BY <1>3, <1>5 DEF KeptPrefixes
<1>10. ASSUME NEW i \in 1..x
       PROVE  g[i] = IF s[i] \in S THEN g[i - 1] ELSE Append(g[i - 1], s[i])
  <2>1. i - 1 \in 0..x /\ i - 1 # x /\ g[i - 1] = f[i - 1]
    BY <1>3
  <2>2. CASE i = x
    BY <2>1, <2>2 DEF e
  <2>3. CASE i # x
    <3>1. i \in 1..x - 1 /\ g[i] = f[i]
      BY <1>3, <2>3
    <3>2. QED
      BY <1>5, <2>1, <3>1 DEF KeptPrefixes
  <2>4. QED
    BY <2>2, <2>3
<1>11. g \in KeptPrefixes(T, s, S, x)
  BY <1>8, <1>9, <1>10 DEF KeptPrefixes
<1>12. QED
  BY <1>11

LEMMA WithoutIsKept ==
    ASSUME NEW T, NEW s \in Seq(T), NEW S
    PROVE  \E f \in KeptPrefixes(T, s, S, Len(s)) : Without(s, S) = f[Len(s)]
<1> DEFINE Body(f) == [i \in 0..Len(s) |->
                          IF i = 0 THEN <<>>
                          ELSE IF s[i] \in S THEN f[i - 1] ELSE Append(f[i - 1], s[i])]
           kept == CHOOSE f : f = Body(f)
           n == Len(s)
<1>1. n \in Nat
  OBVIOUS
<1>2. PICK g : g \in KeptPrefixes(T, s, S, n)
  BY PrefixesExist
<1>3. g = Body(g)
  <2>1. g \in [0..n -> Seq(T)] /\ DOMAIN Body(g) = 0..n
    BY <1>2 DEF KeptPrefixes
  <2>2. \A i \in 0..n : g[i] = Body(g)[i]
    <3>1. 0 \in 0..n /\ g[0] = Body(g)[0]
      BY <1>1, <1>2 DEF KeptPrefixes
    <3>2. \A i \in 0..n : i # 0 => i \in 1..n
      BY <1>1
    <3>3. ASSUME NEW i \in 1..n PROVE g[i] = Body(g)[i]
      <4>1. i \in 0..n /\ i # 0
        BY <1>1
      <4>2. g[i] = IF s[i] \in S THEN g[i - 1] ELSE Append(g[i - 1], s[i])
        BY <1>2 DEF KeptPrefixes
      <4>3. QED
        BY <4>1, <4>2, Zenon
    <3>4. QED
      BY <3>1, <3>2, <3>3
  <2>3. Body(g) = [i \in 0..n |-> Body(g)[i]]
    OBVIOUS
  <2> HIDE DEF Body
  <2>4. QED
    BY <2>1, <2>2, <2>3
<1>4. kept = Body(kept)
  BY <1>3, Zenon
<1> HIDE DEF kept
<1>5. kept[0] = <<>>
  <2>1. 0 \in 0..n
    BY <1>1
  <2>2. Body(kept)[0] = <<>>
    BY <2>1
  <2>3. QED
    BY <1>4, <2>2, Zenon
<1>6. ASSUME NEW i \in 1..n
      PROVE  kept[i] = IF s[i] \in S THEN kept[i - 1] ELSE Append(kept[i - 1], s[i])
  <2>1. i \in 0..n /\ i # 0
    BY <1>1
  <2>2. Body(kept)[i] = IF s[i] \in S THEN kept[i - 1] ELSE Append(kept[i - 1], s[i])
    BY <2>1, Zenon
  <2>3. QED
    BY <1>4, <2>2, Zenon
<1>7. \A i \in 0..n : kept[i] = g[i]
  <2> DEFINE B == {i \in 0..n : kept[i] # g[i]}
  <2> SUFFICES ASSUME B # {} PROVE FALSE
    OBVIOUS
  <2>1. PICK x \in B : \A y \in B : x <= y
    <3>1. B \in SUBSET Nat
      OBVIOUS
    <3> HIDE DEF B
    <3>2. QED
      BY <3>1, LeastExists
  <2>2. x # 0
    BY <1>2, <1>5 DEF KeptPrefixes
  <2>3. x \in 1..n /\ x - 1 \in 0..n /\ ~(x <= x - 1)
    BY <1>1, <2>2
  <2>4. kept[x - 1] = g[x - 1]
    BY <2>1, <2>3
  <2>5. QED
    BY <1>2, <1>6, <2>3, <2>4 DEF KeptPrefixes
<1>8. Without(s, S) = kept[n]
  BY DEF Without, kept
<1>9. QED
  BY <1>1, <1>2, <1>7, <1>8

(* Where in s the kept elements come from: increasing places, all of those   *)
(* with an element outside of S.                                             *)
KeptPlaces(s, S, k, n) ==
    {p \in [1..Len(k) -> 1..n] :
        /\ \A a, b \in 1..Len(k) : a < b => p[a] < p[b]
        /\ \A a \in 1..Len(k) : k[a] = s[p[a]] /\ s[p[a]] \notin S
        /\ \A i \in 1..n : s[i] \notin S => \E a \in 1..Len(k) : p[a] = i}

LEMMA PlacesExist ==
    ASSUME NEW T, NEW s \in Seq(T), NEW S
    PROVE  KeptPlaces(s, S, Without(s, S), Len(s)) # {} /\ Without(s, S) \in Seq(T)
<1>1. PICK f \in KeptPrefixes(T, s, S, Len(s)) : Without(s, S) = f[Len(s)]
  BY WithoutIsKept
<1> DEFINE n == Len(s)
           B == {i \in 0..n : KeptPlaces(s, S, f[i], i) = {}}
<1>2. /\ n \in Nat /\ f[0] = <<>> /\ f \in [0..n -> Seq(T)]
      /\ \A i \in 1..n : f[i] = IF s[i] \in S THEN f[i - 1] ELSE Append(f[i - 1], s[i])
  BY DEF KeptPrefixes
<1>3. B = {}
  <2> SUFFICES ASSUME B # {} PROVE FALSE
    OBVIOUS
  <2>1. PICK x \in B : \A y \in B : x <= y
    <3>1. B \in SUBSET Nat
      BY <1>2
    <3> HIDE DEF B
    <3>2. QED
      BY <3>1, LeastExists
  <2>2. x # 0
    <3>1. [a \in {} |-> 0] \in KeptPlaces(s, S, f[0], 0)
      BY <1>2 DEF KeptPlaces
    <3>2. QED
      BY <3>1
  <2>3. x \in Nat /\ x \in 1..n /\ x - 1 \in 0..n /\ ~(x <= x - 1)
    BY <1>2, <2>2
  <2>4. PICK p : p \in KeptPlaces(s, S, f[x - 1], x - 1)
    BY <2>1, <2>3
  <2> DEFINE k == f[x - 1]
             q == [a \in 1..Len(k) + 1 |-> IF a = Len(k) + 1 THEN x ELSE p[a]]
  <2>5. k \in Seq(T) /\ Len(k) \in Nat /\ s[x] \in T
    BY <1>2, <2>3
  <2>6. /\ p \in [1..Len(k) -> 1..x - 1]
        /\ \A a, b \in 1..Len(k) : a < b => p[a] < p[b]
        /\ \A a \in 1..Len(k) : k[a] = s[p[a]] /\ s[p[a]] \notin S
        /\ \A i \in 1..x - 1 : s[i] \notin S => \E a \in 1..Len(k) : p[a] = i
    BY <2>4 DEF KeptPlaces
  <2>7. CASE s[x] \in S
    <3>1. f[x] = k
      BY <1>2, <2>3, <2>7
    <3>2. p \in KeptPlaces(s, S, f[x], x)
      BY <2>3, <2>5, <2>6, <2>7, <3>1 DEF KeptPlaces
    <3>3. QED
      BY <3>2
  <2>8. CASE s[x] \notin S
    <3>1. /\ f[x] = Append(k, s[x]) /\ Len(f[x]) = Len(k) + 1
          /\ f[x][Len(k) + 1] = s[x]
          /\ \A a \in 1..Len(k) : f[x][a] = k[a]
      <4>1. f[x] = Append(k, s[x])
        BY <1>2, <2>3, <2>8
      <4> HIDE DEF k
      <4>2. QED
        BY <2>5, <4>1
    <3>2. q \in [1..Len(f[x]) -> 1..x]
      BY <2>3, <2>5, <2>6, <3>1
    <3>3. ASSUME NEW a \in 1..Len(k) PROVE q[a] = p[a] /\ q[a] < x
      <4>1. a \in 1..Len(k) + 1 /\ a # Len(k) + 1
        BY <2>5
      <4>2. q[a] = p[a]
        BY <4>1
      <4>3. p[a] \in 1..x - 1
        BY <2>6
      <4>4. QED
        BY <2>3, <4>2, <4>3
    <3>4. q[Len(k) + 1] = x
      BY <2>5
    <3> HIDE DEF q, k
    <3>5. \A a, b \in 1..Len(f[x]) : a < b => q[a] < q[b]
      BY <2>3, <2>5, <2>6, <3>1, <3>3, <3>4, SMTT(30)
    <3>6. \A a \in 1..Len(f[x]) : f[x][a] = s[q[a]] /\ s[q[a]] \notin S
      BY <2>5, <2>6, <2>8, <3>1, <3>3, <3>4
    <3>7. \A i \in 1..x : s[i] \notin S => \E a \in 1..Len(f[x]) : q[a] = i
      BY <2>3, <2>5, <2>6, <3>1, <3>3, <3>4, SMTT(30)
    <3>8. q \in KeptPlaces(s, S, f[x], x)
      BY <3>2, <3>5, <3>6, <3>7 DEF KeptPlaces
    <3>9. QED
      BY <3>8
  <2>9. QED
    BY <2>7, <2>8
<1>4. n \in 0..n
  BY <1>2
<1>5. QED
  BY <1>1, <1>2, <1>3, <1>4

(* The elements of a sequence, and whether it has any of them twice. *)
Elements(s) == {s[i] : i \in DOMAIN s}
Distinct(s) == \A i, j \in DOMAIN s : s[i] = s[j] => i = j

(* filter() keeps the elements it is meant to keep, and repeats none. *)
LEMMA WithoutProperties ==
    ASSUME NEW T, NEW s \in Seq(T), NEW S
    PROVE  /\ Without(s, S) \in Seq(T)
           /\ Elements(Without(s, S)) = Elements(s) \ S
           /\ Distinct(s) => Distinct(Without(s, S))
<1> DEFINE k == Without(s, S)
<1>1. k \in Seq(T)
  BY PlacesExist
<1>2. PICK p : p \in KeptPlaces(s, S, k, Len(s))
  BY PlacesExist
<1> HIDE DEF k
<1>3. /\ p \in [1..Len(k) -> 1..Len(s)]
      /\ \A a, b \in 1..Len(k) : a < b => p[a] < p[b]
      /\ \A a \in 1..Len(k) : k[a] = s[p[a]] /\ s[p[a]] \notin S
      /\ \A i \in 1..Len(s) : s[i] \notin S => \E a \in 1..Len(k) : p[a] = i
  BY <1>2 DEF KeptPlaces
<1>4. DOMAIN k = 1..Len(k) /\ DOMAIN s = 1..Len(s) /\ Len(k) \in Nat /\ Len(s) \in Nat
  BY <1>1
<1>5. Elements(k) = Elements(s) \ S
  <2>1. ASSUME NEW a \in 1..Len(k) PROVE k[a] \in {s[i] : i \in DOMAIN s} \ S
    <3>1. p[a] \in DOMAIN s
      BY <1>3, <1>4
    <3>2. QED
      BY <1>3, <3>1
  <2>2. ASSUME NEW i \in 1..Len(s), s[i] \notin S PROVE s[i] \in {k[a] : a \in DOMAIN k}
    <3>1. PICK a \in 1..Len(k) : p[a] = i
      BY <1>3, <2>2
    <3>2. QED
      BY <1>3, <1>4, <3>1
  <2>3. QED
    BY <1>4, <2>1, <2>2 DEF Elements
<1>6. ASSUME Distinct(s), NEW a \in DOMAIN k, NEW b \in DOMAIN k, k[a] = k[b] PROVE a = b
  <2>1. p[a] = p[b]
    BY <1>3, <1>4, <1>6 DEF Distinct
  <2>2. QED
    BY <1>3, <1>4, <2>1
<1>7. QED
  BY <1>1, <1>5, <1>6 DEF k, Distinct

(* The messages the argument is about. *)
OfferMsg(n) == <<"offer", n>>
SettingsMsg(n) == <<"settings", n>>
DoneMsg(n) == <<"done", n>>

Has(w, m) == \E i \in DOMAIN w : w[i] = m
Once(w, m) == \A i, j \in DOMAIN w : w[i] = m /\ w[j] = m => i = j

(* The work of a task has been started. *)
Worked == Executing \cup {"ran"}

(* The task of an offer was, or is being, given its request. *)
Given(r, n) == Has(toRunner[r], SettingsMsg(n)) \/ run[<<r, n>>] \in Worked

-----------------------------------------------------------------------------
(* Numbers the runner has not reached are in no use, open ones have no task. *)
NumberInv ==
    \A r \in Runner, n \in Number :
        /\ n > issued[r] => /\ ~Has(toBroker[r], OfferMsg(n)) /\ n \notin open[r]
                            /\ <<r, n>> \notin ToSet(offers)
                            /\ phase[<<r, n>>] = "free" /\ run[<<r, n>>] = "none"
        /\ n \in open[r] => run[<<r, n>>] = "none"

(* An offer is in one place, and only once there. *)
OfferInv ==
    /\ \A r \in Runner, n \in Number :
           /\ Once(toBroker[r], OfferMsg(n))
           /\ Has(toBroker[r], OfferMsg(n)) =>
                  <<r, n>> \notin ToSet(offers) /\ phase[<<r, n>>] = "free"
           /\ <<r, n>> \in ToSet(offers) => phase[<<r, n>>] = "free"
    /\ Distinct(offers)

(* Settings are sent once, for a task that has been entered, and find it     *)
(* not started.                                                              *)
SettingsInv ==
    \A r \in Runner, n \in Number :
        /\ Once(toRunner[r], SettingsMsg(n))
        /\ Given(r, n) => phase[<<r, n>>] \in {"task", "over"}
        /\ Has(toRunner[r], SettingsMsg(n)) => run[<<r, n>>] \notin Worked

(* A request is given to one task, and is not pending from then on. *)
GivenInv ==
    /\ \A r \in Runner, n \in Number :
           Given(r, n) => /\ forReq[<<r, n>>] \in Request
                          /\ call[forReq[<<r, n>>]] \in {"given", "done", "failed"}
    /\ \A q \in ToSet(requests) : call[q] = "asked"
    /\ \A r, s \in Runner, n, m \in Number :
           Given(r, n) /\ Given(s, m) /\ forReq[<<r, n>>] = forReq[<<s, m>>] => r = s /\ n = m

(* A result is that of finished work. *)
DoneInv ==
    /\ \A r \in Runner, n \in Number : Has(toBroker[r], DoneMsg(n)) => run[<<r, n>>] = "ran"
    /\ \A q \in Request : call[q] = "done" =>
           \E r \in Runner, n \in Number : forReq[<<r, n>>] = q /\ run[<<r, n>>] = "ran"

BrokerInv ==
    /\ TypeOK /\ NumberInv /\ OfferInv /\ SettingsInv /\ GivenInv /\ DoneInv
    /\ NothingOfUnknownRunner /\ OffersWithinCapacity

-----------------------------------------------------------------------------
(* Wires as sequences. *)

(* What has been taken off the front is gone. *)
LEMMA TailHas ==
    ASSUME NEW T, NEW w \in Seq(T), w # <<>>, NEW m
    PROVE  /\ Tail(w) \in Seq(T) /\ Head(w) \in T
           /\ Has(w, Head(w))
           /\ Has(Tail(w), m) => Has(w, m)
           /\ Once(w, m) => Once(Tail(w), m)
           /\ Once(w, m) /\ m = Head(w) => ~Has(Tail(w), m)
<1>1. /\ Len(w) \in Nat /\ Len(w) # 0 /\ DOMAIN w = 1..Len(w)
      /\ Tail(w) \in Seq(T) /\ DOMAIN Tail(w) = 1..(Len(w) - 1)
      /\ \A i \in 1..(Len(w) - 1) : Tail(w)[i] = w[i + 1]
      /\ Head(w) = w[1] /\ Head(w) \in T
  OBVIOUS
<1>2. \A i \in DOMAIN Tail(w) : i \in Nat /\ i + 1 \in DOMAIN w /\ i + 1 # 1 /\ 1 \in DOMAIN w
  BY <1>1
<1>3. Has(w, Head(w)) /\ (Has(Tail(w), m) => Has(w, m))
  BY <1>1, <1>2 DEF Has
<1>4. ASSUME Once(w, m), NEW i \in DOMAIN Tail(w), NEW j \in DOMAIN Tail(w),
             Tail(w)[i] = m, Tail(w)[j] = m
      PROVE  i = j
  <2>1. i + 1 = j + 1
    BY <1>1, <1>2, <1>4 DEF Once
  <2>2. QED
    BY <1>2, <2>1
<1>5. ASSUME Once(w, m), m = Head(w), NEW i \in DOMAIN Tail(w), Tail(w)[i] = m PROVE FALSE
  BY <1>1, <1>2, <1>5 DEF Once
<1>6. QED
  BY <1>1, <1>3, <1>4, <1>5 DEF Once, Has

(* What is sent comes after what is on its way. *)
LEMMA ConcatHas ==
    ASSUME NEW T, NEW w \in Seq(T), NEW v \in Seq(T), NEW m
    PROVE  /\ w \o v \in Seq(T)
           /\ Has(w \o v, m) <=> Has(w, m) \/ Has(v, m)
           /\ Once(w, m) /\ ~Has(v, m) => Once(w \o v, m)
           /\ ~Has(w, m) /\ Once(v, m) => Once(w \o v, m)
<1> DEFINE u == w \o v
<1>1. /\ Len(w) \in Nat /\ Len(v) \in Nat /\ DOMAIN w = 1..Len(w) /\ DOMAIN v = 1..Len(v)
      /\ u \in Seq(T) /\ DOMAIN u = 1..(Len(w) + Len(v))
      /\ \A i \in 1..(Len(w) + Len(v)) : u[i] = IF i <= Len(w) THEN w[i] ELSE v[i - Len(w)]
  OBVIOUS
<1> HIDE DEF u
<1>2. \A i \in DOMAIN w : i \in DOMAIN u /\ u[i] = w[i]
  BY <1>1
<1>3. \A i \in DOMAIN v : i + Len(w) \in DOMAIN u /\ u[i + Len(w)] = v[i]
  BY <1>1
<1>4. ASSUME NEW i \in DOMAIN u
      PROVE  \/ i \in DOMAIN w /\ u[i] = w[i]
             \/ i - Len(w) \in DOMAIN v /\ i \in Int /\ u[i] = v[i - Len(w)]
  BY <1>1
<1>5. Has(u, m) <=> Has(w, m) \/ Has(v, m)
  BY <1>2, <1>3, <1>4 DEF Has
<1>6. Once(w, m) /\ ~Has(v, m) => Once(u, m)
  BY <1>4 DEF Has, Once
<1>7. ASSUME ~Has(w, m), Once(v, m), NEW i \in DOMAIN u, NEW j \in DOMAIN u, u[i] = m, u[j] = m
      PROVE  i = j
  <2>1. i \in Int /\ j \in Int /\ i - Len(w) = j - Len(w)
    BY <1>4, <1>7 DEF Has, Once
  <2>2. QED
    BY <1>1, <2>1
<1>8. QED
  BY <1>1, <1>5, <1>6, <1>7 DEF u, Once

(* A part of a wire is lost. *)
LEMMA PrefixHas ==
    ASSUME NEW T, NEW w \in Seq(T), NEW k \in 0..Len(w), NEW m
    PROVE  /\ SubSeq(w, 1, k) \in Seq(T)
           /\ Has(SubSeq(w, 1, k), m) => Has(w, m)
           /\ Once(w, m) => Once(SubSeq(w, 1, k), m)
<1> DEFINE v == SubSeq(w, 1, k)
<1>1. /\ Len(w) \in Nat /\ DOMAIN w = 1..Len(w) /\ v \in Seq(T)
      /\ DOMAIN v = 1..k /\ \A i \in 1..k : v[i] = w[i]
  BY SubSeqProperties
<1> HIDE DEF v
<1>2. \A i \in DOMAIN v : i \in DOMAIN w /\ v[i] = w[i]
  BY <1>1
<1>3. QED
  BY <1>1, <1>2 DEF v, Has, Once

(* A message alone, and no message. *)
LEMMA SingleHas ==
    ASSUME NEW T, NEW e \in T, NEW m
    PROVE  /\ <<e>> \in Seq(T) /\ Once(<<e>>, m) /\ (Has(<<e>>, m) <=> m = e)
           /\ <<>> \in Seq(T) /\ Once(<<>>, m) /\ ~Has(<<>>, m)
<1>1. DOMAIN <<e>> = {1} /\ <<e>>[1] = e /\ DOMAIN <<>> = {}
  OBVIOUS
<1>2. QED
  BY <1>1 DEF Has, Once

(* Messages are told apart by their kinds. *)
LEMMA MessageFacts ==
    /\ \A n \in Number, k \in {"accept", "settings", "cancel", "offer", "accepted", "rejected",
                               "done", "error"} : <<k, n>> \in Message
    /\ \A k \in {"registered", "drain", "close"} : <<k, 0>> \in Message
    /\ \A m \in Message :
           /\ m = <<m[1], m[2]>>
           /\ m[1] \notin {"registered", "drain", "close"} => m[2] \in Number
BY DEF Message

(* The wire v holds m only where w does. *)
Shrinks(v, w, m) == (Has(v, m) => Has(w, m)) /\ (Once(w, m) => Once(v, m))

LEMMA SentShrinks ==
    ASSUME NEW r \in Runner, toRunner[r] \in Seq(Message), NEW msgs \in Seq(Message),
           NEW m, ~Has(msgs, m)
    PROVE  Sent(r, msgs) \in Seq(Message) /\ Shrinks(Sent(r, msgs), toRunner[r], m)
<1>1. Sent(r, msgs) = toRunner[r] \/ Sent(r, msgs) = toRunner[r] \o msgs
  BY DEF Sent
<1>2. CASE Sent(r, msgs) = toRunner[r]
  BY <1>2 DEF Shrinks
<1>3. CASE Sent(r, msgs) = toRunner[r] \o msgs
  <2>1. /\ toRunner[r] \o msgs \in Seq(Message)
        /\ Has(toRunner[r] \o msgs, m) => Has(toRunner[r], m)
        /\ Once(toRunner[r], m) => Once(toRunner[r] \o msgs, m)
    BY ConcatHas
  <2>2. QED
    BY <1>3, <2>1 DEF Shrinks
<1>4. QED
  BY <1>1, <1>2, <1>3

(* filter(), in the words of this module. *)
LEMMA WithoutList ==
    ASSUME NEW T, NEW s \in Seq(T), NEW S
    PROVE  /\ Without(s, S) \in Seq(T)
           /\ ToSet(Without(s, S)) = ToSet(s) \ S
           /\ Distinct(s) => Distinct(Without(s, S))
<1>1. ToSet(s) = Elements(s) /\ ToSet(Without(s, S)) = Elements(Without(s, S))
  BY DEF ToSet, Elements
<1>2. QED
  BY <1>1, WithoutProperties

LEMMA ListElements ==
    ASSUME NEW T, NEW s \in Seq(T) PROVE ToSet(s) \subseteq T
<1>1. \A i \in DOMAIN s : s[i] \in T
  OBVIOUS
<1>2. QED
  BY <1>1 DEF ToSet

(* push() of an element that is not yet listed. *)
LEMMA AppendList ==
    ASSUME NEW T, NEW s \in Seq(T), NEW e \in T
    PROVE  /\ Append(s, e) \in Seq(T)
           /\ ToSet(Append(s, e)) = ToSet(s) \cup {e}
           /\ Distinct(s) /\ e \notin ToSet(s) => Distinct(Append(s, e))
<1> DEFINE a == Append(s, e)
<1>1. /\ a \in Seq(T) /\ DOMAIN a = 1..(Len(s) + 1) /\ Len(s) \in Nat
      /\ DOMAIN s = 1..Len(s) /\ a[Len(s) + 1] = e
      /\ \A i \in 1..Len(s) : a[i] = s[i]
  OBVIOUS
<1> HIDE DEF a
<1>2. \A i \in DOMAIN a : i = Len(s) + 1 \/ (i \in DOMAIN s /\ a[i] = s[i])
  BY <1>1
<1>3. Len(s) + 1 \in DOMAIN a /\ \A i \in DOMAIN s : i \in DOMAIN a
  BY <1>1
<1>4. ASSUME NEW x PROVE x \in ToSet(a) <=> x \in ToSet(s) \/ x = e
  <2>1. x \in ToSet(a) <=> \E i \in DOMAIN a : x = a[i]
    BY DEF ToSet
  <2>2. x \in ToSet(s) <=> \E i \in DOMAIN s : x = s[i]
    BY DEF ToSet
  <2>3. QED
    BY <1>1, <1>2, <1>3, <2>1, <2>2
<1>5. ASSUME e \notin ToSet(s) PROVE \A i \in DOMAIN s : s[i] # e
  BY <1>5 DEF ToSet
<1>6. Distinct(s) /\ e \notin ToSet(s) => Distinct(a)
  BY <1>1, <1>2, <1>5 DEF Distinct
<1>7. QED
  BY <1>1, <1>4, <1>6 DEF a

(* A list with distinct elements is cut in two. *)
LEMMA CutList ==
    ASSUME NEW T, NEW s \in Seq(T), NEW k \in 0..Len(s)
    PROVE  LET a == SubSeq(s, 1, k)
               b == SubSeq(s, k + 1, Len(s))
           IN  /\ a \in Seq(T) /\ b \in Seq(T) /\ Len(a) = k
               /\ \A i \in 1..k : a[i] = s[i]
               /\ ToSet(a) = {s[i] : i \in 1..k}
               /\ ToSet(a) \subseteq ToSet(s) /\ ToSet(b) \subseteq ToSet(s)
               /\ Distinct(s) => Distinct(b) /\ ToSet(b) \cap ToSet(a) = {}
<1> DEFINE a == SubSeq(s, 1, k)
           b == SubSeq(s, k + 1, Len(s))
<1>1. Len(s) \in Nat /\ DOMAIN s = 1..Len(s) /\ k \in Nat
  OBVIOUS
<1>2. a \in Seq(T) /\ Len(a) = k /\ DOMAIN a = 1..k /\ \A i \in 1..k : a[i] = s[i]
  BY <1>1, SubSeqProperties
<1>3. /\ b \in Seq(T) /\ DOMAIN b = 1..(Len(s) - k)
      /\ \A i \in 1..(Len(s) - k) : b[i] = s[i + k]
  <2>1. /\ b \in Seq(T)
        /\ Len(b) = IF k + 1 <= Len(s) THEN Len(s) - (k + 1) + 1 ELSE 0
        /\ \A i \in 1..Len(b) : b[i] = s[k + 1 + i - 1]
    BY <1>1, SubSeqProperties, SMTT(30)
  <2>2. Len(b) = Len(s) - k
    BY <1>1, <2>1
  <2> HIDE DEF b
  <2>3. \A i \in 1..(Len(s) - k) : k + 1 + i - 1 = i + k
    BY <1>1
  <2>4. Len(b) \in Nat /\ DOMAIN b = 1..Len(b)
    BY <2>1
  <2>5. DOMAIN b = 1..(Len(s) - k)
    BY <2>2, <2>4
  <2>6. ASSUME NEW i \in 1..(Len(s) - k) PROVE b[i] = s[i + k]
    BY <2>1, <2>2, <2>3
  <2>7. QED
    BY <2>1, <2>5, <2>6
<1> HIDE DEF a, b
<1>4. \A i \in DOMAIN b : i \in Int /\ i + k \in 1..Len(s) /\ i + k \notin 1..k /\ b[i] = s[i + k]
  BY <1>1, <1>3
<1>5. \A i \in 1..k : i \in DOMAIN s
  BY <1>1
<1>6. ToSet(a) = {s[i] : i \in 1..k}
  BY <1>2 DEF ToSet
<1>7. ToSet(a) \subseteq ToSet(s) /\ ToSet(b) \subseteq ToSet(s)
  <2>1. \A i \in DOMAIN s : s[i] \in ToSet(s)
    BY DEF ToSet
  <2>2. ASSUME NEW e \in ToSet(b) PROVE e \in ToSet(s)
    <3>1. PICK i \in DOMAIN b : e = b[i]
      BY DEF ToSet
    <3>2. QED
      BY <1>1, <1>4, <2>1, <3>1
  <2>3. QED
    BY <1>5, <1>6, <2>1, <2>2
<1>8. ASSUME Distinct(s), NEW e \in ToSet(b) PROVE e \notin ToSet(a)
  <2>1. PICK i \in DOMAIN b : e = b[i]
    BY <1>8 DEF ToSet
  <2>2. i + k \in DOMAIN s /\ i + k \notin 1..k /\ e = s[i + k]
    BY <1>1, <1>4, <2>1
  <2>3. ASSUME NEW j \in 1..k, e = s[j] PROVE FALSE
    BY <1>5, <1>8, <2>2, <2>3 DEF Distinct
  <2>4. QED
    BY <1>6, <2>3
<1>9. ASSUME Distinct(s), NEW i \in DOMAIN b, NEW j \in DOMAIN b, b[i] = b[j] PROVE i = j
  <2>1. i + k = j + k
    BY <1>1, <1>4, <1>9 DEF Distinct
  <2>2. QED
    BY <1>1, <1>4, <2>1
<1>10. QED
  BY <1>2, <1>3, <1>6, <1>7, <1>8, <1>9 DEF a, b, Distinct

(* The messages of acceptOffer(). *)
LEMMA AcceptsProperties ==
    ASSUME NEW s \in Seq(Offer), NEW r \in Runner
    PROVE  /\ Accepts(s, r) \in Seq(Message)
           /\ \A n : ~Has(Accepts(s, r), SettingsMsg(n))
<1> DEFINE mine == Without(s, {o \in Offer : o[1] # r})
           acc == [i \in DOMAIN mine |-> <<"accept", mine[i][2]>>]
<1>1. mine \in Seq(Offer)
  BY WithoutList
<1>2. Accepts(s, r) = acc
  BY DEF Accepts
<1> HIDE DEF mine
<1>3. Len(mine) \in Nat /\ DOMAIN mine = 1..Len(mine) /\ \A i \in 1..Len(mine) : mine[i] \in Offer
  BY <1>1
<1>4. \A i \in 1..Len(mine) : <<"accept", mine[i][2]>> \in Message
  BY <1>3, MessageFacts DEF Offer
<1>5. acc \in [1..Len(mine) -> Message]
  BY <1>3, <1>4
<1>6. acc \in Seq(Message)
  BY <1>3, <1>5, SeqDef
<1>7. ASSUME NEW n PROVE ~Has(acc, SettingsMsg(n))
  BY <1>3 DEF Has, SettingsMsg
<1>8. QED
  BY <1>2, <1>6, <1>7

-----------------------------------------------------------------------------
(* What settleTasks() does to the offers: those of T leave the list and are  *)
(* being accepted, for some request each.                                    *)
Settles(offs, T) ==
    /\ T \subseteq ToSet(offs)
    /\ offers' \in Seq(Offer) /\ Distinct(offers') /\ ToSet(offers') \subseteq ToSet(offs) \ T
    /\ phase' = [o \in Offer |-> IF o \in T THEN "accepting" ELSE phase[o]]
    /\ forReq' \in [Offer -> Request \cup {NoRequest}]
    /\ \A o \in Offer \ T : forReq'[o] = forReq[o]
    /\ toRunner' \in [Runner -> Seq(Message)]
    /\ \A r \in Runner, n \in Number : Shrinks(toRunner'[r], toRunner[r], SettingsMsg(n))

LEMMA SettleProperties ==
    ASSUME TypeOK, NEW offs \in Seq(Offer), NEW reqs \in Seq(Request), Distinct(offs),
           settleTasks(offs, reqs)
    PROVE  \E T : Settles(offs, T)
<1>1. PICK expired \in SUBSET ToSet(offs) :
          LET valid == Without(offs, expired)
              idle  == Without(reqs, {q \in Request : AcceptInProgress(q)})
              n     == Lesser(Len(valid), Len(idle))
              taken == SubSeq(valid, 1, n)
          IN  /\ offers' = SubSeq(valid, n + 1, Len(valid))
              /\ phase' = [o \in Offer |-> IF o \in ToSet(taken) THEN "accepting" ELSE phase[o]]
              /\ forReq' = [o \in Offer |->
                     IF o \in ToSet(taken) THEN idle[CHOOSE i \in 1..n : taken[i] = o] ELSE forReq[o]]
              /\ toRunner' = [r \in Runner |-> Sent(r, Accepts(taken, r))]
  BY DEF settleTasks
<1> DEFINE valid == Without(offs, expired)
           idle  == Without(reqs, {q \in Request : AcceptInProgress(q)})
           n     == Lesser(Len(valid), Len(idle))
           taken == SubSeq(valid, 1, n)
           T     == ToSet(taken)
<1>2. /\ offers' = SubSeq(valid, n + 1, Len(valid))
      /\ phase' = [o \in Offer |-> IF o \in T THEN "accepting" ELSE phase[o]]
      /\ forReq' = [o \in Offer |->
             IF o \in T THEN idle[CHOOSE i \in 1..n : taken[i] = o] ELSE forReq[o]]
      /\ toRunner' = [r \in Runner |-> Sent(r, Accepts(taken, r))]
  BY <1>1
<1>3. valid \in Seq(Offer) /\ ToSet(valid) \subseteq ToSet(offs) /\ Distinct(valid)
  BY WithoutList
<1>4. idle \in Seq(Request)
  BY WithoutList
<1> HIDE DEF valid, idle
<1>5. n \in 0..Len(valid) /\ n \in 0..Len(idle) /\ n \in Nat
  BY <1>3, <1>4 DEF Lesser
<1> HIDE DEF n
<1>6. LET b == SubSeq(valid, n + 1, Len(valid))
      IN  /\ taken \in Seq(Offer) /\ b \in Seq(Offer) /\ Len(taken) = n
          /\ \A i \in 1..n : taken[i] = valid[i]
          /\ ToSet(taken) = {valid[i] : i \in 1..n}
          /\ ToSet(taken) \subseteq ToSet(valid) /\ ToSet(b) \subseteq ToSet(valid)
          /\ Distinct(valid) => Distinct(b) /\ ToSet(b) \cap ToSet(taken) = {}
  BY <1>3, <1>5, CutList
<1> HIDE DEF taken
<1>7. T \subseteq ToSet(offs)
  BY <1>3, <1>6
<1>8. offers' \in Seq(Offer) /\ Distinct(offers') /\ ToSet(offers') \subseteq ToSet(offs) \ T
  BY <1>2, <1>3, <1>6
<1>9. ASSUME NEW o \in T PROVE idle[CHOOSE i \in 1..n : taken[i] = o] \in Request
  <2>1. \E i \in 1..n : taken[i] = o
    BY <1>6, <1>9
  <2>2. (CHOOSE i \in 1..n : taken[i] = o) \in 1..n
    BY <2>1
  <2>3. \A i \in 1..n : idle[i] \in Request
    BY <1>4, <1>5
  <2>4. QED
    BY <2>2, <2>3
<1>10. forReq \in [Offer -> Request \cup {NoRequest}] /\ toRunner \in [Runner -> Seq(Message)]
  BY DEF TypeOK
<1>11. forReq' \in [Offer -> Request \cup {NoRequest}]
  <2> DEFINE F(o) == idle[CHOOSE i \in 1..n : taken[i] = o]
  <2>1. \A o \in T : F(o) \in Request
    BY <1>9
  <2>2. forReq' = [o \in Offer |-> IF o \in T THEN F(o) ELSE forReq[o]]
    BY <1>2
  <2> HIDE DEF F
  <2>3. QED
    BY <1>10, <2>1, <2>2
<1>12. ASSUME NEW o \in Offer \ T PROVE forReq'[o] = forReq[o]
  BY <1>2, <1>12, Zenon
<1>13. ASSUME NEW r \in Runner
       PROVE  /\ toRunner'[r] \in Seq(Message)
              /\ \A k \in Number : Shrinks(toRunner'[r], toRunner[r], SettingsMsg(k))
  <2>1. toRunner'[r] = Sent(r, Accepts(taken, r)) /\ toRunner[r] \in Seq(Message)
    BY <1>2, <1>10
  <2>2. Accepts(taken, r) \in Seq(Message) /\ \A k : ~Has(Accepts(taken, r), SettingsMsg(k))
    BY <1>6, AcceptsProperties
  <2>3. ASSUME NEW k
        PROVE  /\ Sent(r, Accepts(taken, r)) \in Seq(Message)
               /\ Shrinks(Sent(r, Accepts(taken, r)), toRunner[r], SettingsMsg(k))
    BY <2>1, <2>2, SentShrinks
  <2>4. QED
    BY <2>1, <2>3
<1>14. toRunner' \in [Runner -> Seq(Message)]
  BY <1>2, <1>13
<1> HIDE DEF T
<1>15. Settles(offs, T)
  BY <1>2, <1>7, <1>8, <1>11, <1>12, <1>13, <1>14 DEF Settles
<1>16. QED
  BY <1>15

-----------------------------------------------------------------------------
(* What a step of the broker may do. *)

(* An offer stays where it is or is forgotten, while its acceptance and its  *)
(* task come to an end; or it was listed or received, and is listed or being *)
(* accepted.                                                                 *)
OfferMoves(r, n) ==
    \/ /\ <<r, n>> \in ToSet(offers') => <<r, n>> \in ToSet(offers)
       /\ \/ phase'[<<r, n>>] = phase[<<r, n>>]
          \/ phase[<<r, n>>] \in {"accepting", "task"} /\ phase'[<<r, n>>] \in {"task", "over"}
       /\ forReq'[<<r, n>>] = forReq[<<r, n>>]
    \/ /\ phase[<<r, n>>] = "free" /\ ~(n > issued[r]) /\ ~Has(toBroker'[r], OfferMsg(n))
       /\ phase'[<<r, n>>] \in {"free", "accepting"}
       /\ <<r, n>> \in ToSet(offers') => phase'[<<r, n>>] = "free"

(* No settings are sent, or those of one task that is being entered. *)
Quiet(r, n) == Shrinks(toRunner'[r], toRunner[r], SettingsMsg(n))

SettingsMoves ==
    \/ \A r \in Runner, n \in Number : Quiet(r, n)
    \/ \E r \in Runner, n \in Number :
           /\ phase[<<r, n>>] = "accepting" /\ phase'[<<r, n>>] = "task"
           /\ Once(toRunner'[r], SettingsMsg(n))
           /\ forReq[<<r, n>>] \in ToSet(requests) /\ forReq[<<r, n>>] \in Request
           /\ call'[forReq[<<r, n>>]] = "given"
           /\ \A s \in Runner, m \in Number : <<s, m>> # <<r, n>> => Quiet(s, m)

(* Some task of the request q has been executed. *)
Finished(q) == \E r \in Runner, n \in Number : forReq[<<r, n>>] = q /\ run[<<r, n>>] = "ran"

CallMoves(q) ==
    \/ call'[q] = call[q]
    \/ call[q] = "idle" /\ call'[q] \in {"asked", "expired"}
    \/ call[q] = "asked" /\ call'[q] \in {"given", "expired"} /\ q \notin ToSet(requests')
    \/ call[q] = "given" /\ call'[q] = "failed"
    \/ call[q] = "given" /\ call'[q] = "done" /\ Finished(q)

RequestMoves(q) ==
    q \in ToSet(requests') => q \in ToSet(requests) \/ (call[q] = "idle" /\ call'[q] = "asked")

(* Messages of runners are only taken. *)
WireTaken ==
    /\ toBroker' \in [Runner -> Seq(Message)]
    /\ \A r \in Runner, n \in Number : Shrinks(toBroker'[r], toBroker[r], OfferMsg(n))
    /\ \A r \in Runner, n \in Number : Shrinks(toBroker'[r], toBroker[r], DoneMsg(n))

BrokerMoves ==
    /\ TypeOK' /\ NothingOfUnknownRunner' /\ Distinct(offers')
    /\ UNCHANGED <<issued, open, run>> /\ WireTaken
    /\ \A r \in Runner, n \in Number : OfferMoves(r, n)
    /\ SettingsMoves
    /\ \A q \in Request : CallMoves(q) /\ RequestMoves(q)

-----------------------------------------------------------------------------
(* Parts of the steps of the broker. *)

LEMMA OfferFacts ==
    /\ \A r \in Runner, n \in Number : <<r, n>> \in Offer /\ <<r, n>>[1] = r /\ <<r, n>>[2] = n
    /\ \A o \in Offer : o = <<o[1], o[2]>> /\ o[1] \in Runner /\ o[2] \in Number
BY DEF Offer

LEMMA WireKept ==
    ASSUME TypeOK, UNCHANGED toBroker PROVE WireTaken
BY DEF TypeOK, WireTaken, Shrinks

LEMMA QuietKept ==
    ASSUME TypeOK, UNCHANGED toRunner PROVE \A r \in Runner, n \in Number : Quiet(r, n)
BY DEF Quiet, Shrinks

(* A message of runner r is taken off the wire. *)
LEMMA TakesMessage ==
    ASSUME TypeOK, NEW r \in Runner, toBroker[r] # <<>>,
           toBroker' = [toBroker EXCEPT ![r] = Tail(@)]
    PROVE  /\ WireTaken
           /\ Head(toBroker[r]) \in Message /\ Has(toBroker[r], Head(toBroker[r]))
           /\ \A m : m = Head(toBroker[r]) /\ Once(toBroker[r], m) => ~Has(toBroker'[r], m)
<1>1. toBroker \in [Runner -> Seq(Message)] /\ toBroker[r] \in Seq(Message)
  BY DEF TypeOK
<1>2. toBroker'[r] = Tail(toBroker[r]) /\ \A s \in Runner : s # r => toBroker'[s] = toBroker[s]
  BY <1>1
<1>3. /\ Tail(toBroker[r]) \in Seq(Message) /\ Head(toBroker[r]) \in Message
      /\ Has(toBroker[r], Head(toBroker[r]))
  BY <1>1, TailHas
<1>4. ASSUME NEW m
      PROVE  /\ Shrinks(toBroker'[r], toBroker[r], m)
             /\ m = Head(toBroker[r]) /\ Once(toBroker[r], m) => ~Has(toBroker'[r], m)
  BY <1>1, <1>2, TailHas DEF Shrinks
<1>5. \A s \in Runner : \A m : Shrinks(toBroker'[s], toBroker[s], m)
  BY <1>2, <1>4 DEF Shrinks
<1>6. toBroker' \in [Runner -> Seq(Message)]
  BY <1>1, <1>3
<1>7. WireTaken
  BY <1>5, <1>6 DEF WireTaken
<1>8. QED
  BY <1>3, <1>4, <1>7

(* A message other than settings is sent to runner r. *)
LEMMA SendsQuietly ==
    ASSUME TypeOK, NEW r \in Runner, NEW e \in Message, e[1] # "settings",
           toRunner' = [toRunner EXCEPT ![r] = Sent(r, <<e>>)]
    PROVE  /\ toRunner' \in [Runner -> Seq(Message)]
           /\ \A s \in Runner, n \in Number : Quiet(s, n)
<1>1. toRunner \in [Runner -> Seq(Message)] /\ toRunner[r] \in Seq(Message)
  BY DEF TypeOK
<1>2. <<e>> \in Seq(Message) /\ \A n : ~Has(<<e>>, SettingsMsg(n))
  <2>1. ASSUME NEW n PROVE SettingsMsg(n) # e
    BY DEF SettingsMsg
  <2>2. QED
    BY <2>1, SingleHas
<1>3. \A n : Sent(r, <<e>>) \in Seq(Message) /\ Shrinks(Sent(r, <<e>>), toRunner[r], SettingsMsg(n))
  BY <1>1, <1>2, SentShrinks
<1>4. toRunner'[r] = Sent(r, <<e>>) /\ \A s \in Runner : s # r => toRunner'[s] = toRunner[s]
  BY <1>1
<1>5. toRunner' \in [Runner -> Seq(Message)]
  BY <1>1, <1>3
<1>6. QED
  BY <1>3, <1>4, <1>5 DEF Quiet, Shrinks

(* Offers that are settled were listed or have just been received. *)
LEMMA SettleMoves ==
    ASSUME TypeOK, NEW offs, NEW T, Settles(offs, T),
           \A r \in Runner, n \in Number : <<r, n>> \in ToSet(offs) =>
               phase[<<r, n>>] = "free" /\ ~(n > issued[r]) /\ ~Has(toBroker'[r], OfferMsg(n))
    PROVE  /\ \A r \in Runner, n \in Number : OfferMoves(r, n)
           /\ phase' \in [Offer -> Phase] /\ \A o \in Offer : phase'[o] = "task" => phase[o] = "task"
<1>1. /\ T \subseteq ToSet(offs) /\ ToSet(offers') \subseteq ToSet(offs) \ T
      /\ phase' = [o \in Offer |-> IF o \in T THEN "accepting" ELSE phase[o]]
      /\ \A o \in Offer \ T : forReq'[o] = forReq[o]
  BY DEF Settles
<1>2. phase \in [Offer -> Phase]
  BY DEF TypeOK
<1>3. ASSUME NEW r \in Runner, NEW n \in Number PROVE OfferMoves(r, n)
  <2>1. <<r, n>> \in Offer
    BY OfferFacts
  <2>2. CASE <<r, n>> \in ToSet(offs)
    <3>1. phase[<<r, n>>] = "free" /\ ~(n > issued[r]) /\ ~Has(toBroker'[r], OfferMsg(n))
      BY <2>2
    <3>2. /\ phase'[<<r, n>>] \in {"free", "accepting"}
          /\ <<r, n>> \in ToSet(offers') => phase'[<<r, n>>] = "free"
      BY <1>1, <2>1, <3>1
    <3>3. QED
      BY <3>1, <3>2 DEF OfferMoves
  <2>3. CASE <<r, n>> \notin ToSet(offs)
    BY <1>1, <2>1, <2>3 DEF OfferMoves
  <2>4. QED
    BY <2>2, <2>3
<1>4. QED
  BY <1>1, <1>2, <1>3 DEF Phase

LEMMA InvParts ==
    BrokerInv => /\ TypeOK /\ NumberInv /\ OfferInv /\ SettingsInv /\ GivenInv /\ DoneInv
                 /\ NothingOfUnknownRunner /\ OffersWithinCapacity
BY DEF BrokerInv

-----------------------------------------------------------------------------
(* The steps of the broker. *)

LEMMA RequestedMoves ==
    ASSUME BrokerInv, NEW q \in Request, taskRequested(q) PROVE BrokerMoves
<1> DEFINE c == IF draining THEN "expired" ELSE "asked"
<1>0. TypeOK /\ OfferInv /\ NumberInv /\ NothingOfUnknownRunner
  BY InvParts
<1>1. /\ call[q] = "idle" /\ call' = [call EXCEPT ![q] = c]
      /\ UNCHANGED <<known, draining, proc, canSend, issued, open, run, toBroker>>
  BY DEF taskRequested, runnerVars
<1>2. /\ call' \in [Request -> Call] /\ call'[q] = c
      /\ \A p \in Request : p # q => call'[p] = call[p]
  BY <1>0, <1>1 DEF TypeOK, Call
<1>3. WireTaken
  BY <1>0, <1>1, WireKept
<1>4. CASE draining
  <2>1. UNCHANGED <<offers, requests, phase, forReq, toRunner>>
    BY <1>4 DEF taskRequested
  <2>2. TypeOK' /\ NothingOfUnknownRunner' /\ Distinct(offers')
    BY <1>0, <1>1, <1>2, <2>1 DEF TypeOK, NothingOfUnknownRunner, OfferInv
  <2>3. \A r \in Runner, n \in Number : OfferMoves(r, n)
    BY <2>1 DEF OfferMoves
  <2>4. SettingsMoves
    BY <1>0, <2>1, QuietKept DEF SettingsMoves
  <2>5. \A p \in Request : CallMoves(p) /\ RequestMoves(p)
    BY <1>1, <1>2, <1>4, <2>1 DEF CallMoves, RequestMoves
  <2>6. QED
    BY <1>1, <1>3, <2>2, <2>3, <2>4, <2>5 DEF BrokerMoves
<1>5. CASE ~draining
  <2>1. requests' = Append(requests, q) /\ settleTasks(offers, requests')
    BY <1>5 DEF taskRequested
  <2>2. /\ requests' \in Seq(Request)
        /\ \A p : p \in ToSet(requests') => p \in ToSet(requests) \/ p = q
    <3>1. requests \in Seq(Request)
      BY <1>0 DEF TypeOK
    <3>2. QED
      BY <2>1, <3>1, AppendList
  <2>3. PICK T : Settles(offers, T)
    <3>1. offers \in Seq(Offer) /\ Distinct(offers)
      BY <1>0 DEF TypeOK, OfferInv
    <3>2. QED
      BY <1>0, <2>1, <2>2, <3>1, SettleProperties
  <2>4. \A r \in Runner, n \in Number : <<r, n>> \in ToSet(offers) =>
            phase[<<r, n>>] = "free" /\ ~(n > issued[r]) /\ ~Has(toBroker'[r], OfferMsg(n))
    BY <1>0, <1>1 DEF OfferInv, NumberInv
  <2>5. /\ \A r \in Runner, n \in Number : OfferMoves(r, n)
        /\ phase' \in [Offer -> Phase] /\ \A o \in Offer : phase'[o] = "task" => phase[o] = "task"
    BY <1>0, <2>3, <2>4, SettleMoves
  <2>6. /\ offers' \in Seq(Offer) /\ Distinct(offers') /\ ToSet(offers') \subseteq ToSet(offers)
        /\ forReq' \in [Offer -> Request \cup {NoRequest}]
        /\ toRunner' \in [Runner -> Seq(Message)]
        /\ \A r \in Runner, n \in Number : Quiet(r, n)
    BY <2>3 DEF Settles, Quiet
  <2>7. TypeOK'
    BY <1>0, <1>1, <1>2, <2>2, <2>5, <2>6 DEF TypeOK
  <2>8. NothingOfUnknownRunner'
    BY <1>0, <1>1, <2>5, <2>6 DEF NothingOfUnknownRunner
  <2>9. \A p \in Request : CallMoves(p) /\ RequestMoves(p)
    BY <1>1, <1>2, <1>5, <2>2 DEF CallMoves, RequestMoves
  <2>10. QED
    BY <1>1, <1>3, <2>5, <2>6, <2>7, <2>8, <2>9 DEF BrokerMoves, SettingsMoves
<1>6. QED
  BY <1>4, <1>5

LEMMA RequestTimeoutMoves ==
    ASSUME BrokerInv, NEW q \in Request, handleRequestTimeout(q) PROVE BrokerMoves
<1>0. TypeOK /\ OfferInv /\ GivenInv /\ NothingOfUnknownRunner
  BY InvParts
<1>1. /\ q \in ToSet(requests) /\ requests' = Without(requests, {q})
      /\ call' = [call EXCEPT ![q] = "expired"]
      /\ UNCHANGED <<known, offers, phase, forReq, draining, proc, canSend, issued, open, run,
                     toBroker, toRunner>>
  BY DEF handleRequestTimeout, runnerVars, wires
<1>2. /\ call' \in [Request -> Call] /\ call'[q] = "expired" /\ call[q] = "asked"
      /\ \A p \in Request : p # q => call'[p] = call[p]
  BY <1>0, <1>1 DEF TypeOK, Call, GivenInv
<1>3. requests' \in Seq(Request) /\ ToSet(requests') = ToSet(requests) \ {q}
  <2>1. requests \in Seq(Request)
    BY <1>0 DEF TypeOK
  <2>2. QED
    BY <1>1, <2>1, WithoutList
<1>4. WireTaken /\ SettingsMoves
  BY <1>0, <1>1, WireKept, QuietKept DEF SettingsMoves
<1>5. TypeOK' /\ NothingOfUnknownRunner' /\ Distinct(offers')
  BY <1>0, <1>1, <1>2, <1>3 DEF TypeOK, NothingOfUnknownRunner, OfferInv
<1>6. \A r \in Runner, n \in Number : OfferMoves(r, n)
  BY <1>1 DEF OfferMoves
<1>7. \A p \in Request : CallMoves(p) /\ RequestMoves(p)
  BY <1>2, <1>3 DEF CallMoves, RequestMoves
<1>8. QED
  BY <1>1, <1>4, <1>5, <1>6, <1>7 DEF BrokerMoves

LEMMA OfferedMoves ==
    ASSUME BrokerInv, NEW r \in Runner, taskOffered(r) PROVE BrokerMoves
<1> DEFINE n == Head(toBroker[r])[2]
           offs == Append(offers, <<r, n>>)
<1>0. TypeOK /\ OfferInv /\ NumberInv /\ NothingOfUnknownRunner
  BY InvParts
<1>1. /\ toBroker[r] # <<>> /\ Head(toBroker[r])[1] = "offer"
      /\ toBroker' = [toBroker EXCEPT ![r] = Tail(@)]
      /\ r \in known /\ settleTasks(offs, requests)
      /\ UNCHANGED <<known, requests, draining, call, proc, canSend, issued, open, run>>
  BY DEF taskOffered, Receives, runnerVars
<1>2. /\ WireTaken /\ Head(toBroker[r]) \in Message /\ Has(toBroker[r], Head(toBroker[r]))
      /\ \A m : m = Head(toBroker[r]) /\ Once(toBroker[r], m) => ~Has(toBroker'[r], m)
  BY <1>0, <1>1, TakesMessage
<1>3. n \in Number /\ Head(toBroker[r]) = OfferMsg(n)
  BY <1>1, <1>2, MessageFacts DEF OfferMsg
<1>4. /\ Has(toBroker[r], OfferMsg(n)) /\ ~Has(toBroker'[r], OfferMsg(n))
      /\ <<r, n>> \notin ToSet(offers) /\ phase[<<r, n>>] = "free" /\ ~(n > issued[r])
  <2>1. Has(toBroker[r], OfferMsg(n)) /\ Once(toBroker[r], OfferMsg(n))
    BY <1>0, <1>2, <1>3 DEF OfferInv
  <2>2. ~Has(toBroker'[r], OfferMsg(n))
    BY <1>2, <1>3, <2>1
  <2>3. QED
    BY <1>0, <1>3, <2>1, <2>2 DEF OfferInv, NumberInv
<1> HIDE DEF n
<1>5. /\ offs \in Seq(Offer) /\ ToSet(offs) = ToSet(offers) \cup {<<r, n>>} /\ Distinct(offs)
  <2>1. offers \in Seq(Offer) /\ <<r, n>> \in Offer /\ Distinct(offers)
    BY <1>0, <1>3, OfferFacts DEF TypeOK, OfferInv
  <2>2. QED
    BY <1>4, <2>1, AppendList
<1> HIDE DEF offs
<1>6. PICK T : Settles(offs, T)
  <2>1. requests \in Seq(Request)
    BY <1>0 DEF TypeOK
  <2>2. QED
    BY <1>0, <1>1, <1>5, <2>1, SettleProperties
<1>7. ASSUME NEW s \in Runner, NEW m \in Number, <<s, m>> \in ToSet(offs)
      PROVE  phase[<<s, m>>] = "free" /\ ~(m > issued[s]) /\ ~Has(toBroker'[s], OfferMsg(m))
  <2>1. CASE <<s, m>> = <<r, n>>
    BY <1>4, <2>1
  <2>2. CASE <<s, m>> \in ToSet(offers)
    BY <1>0, <1>2, <2>2 DEF OfferInv, NumberInv, WireTaken, Shrinks
  <2>3. QED
    BY <1>5, <1>7, <2>1, <2>2
<1>8. /\ \A s \in Runner, m \in Number : OfferMoves(s, m)
      /\ phase' \in [Offer -> Phase] /\ \A o \in Offer : phase'[o] = "task" => phase[o] = "task"
  BY <1>0, <1>6, <1>7, SettleMoves
<1>9. /\ offers' \in Seq(Offer) /\ Distinct(offers') /\ ToSet(offers') \subseteq ToSet(offs)
      /\ forReq' \in [Offer -> Request \cup {NoRequest}]
      /\ toRunner' \in [Runner -> Seq(Message)]
      /\ \A s \in Runner, m \in Number : Quiet(s, m)
  BY <1>6 DEF Settles, Quiet
<1>10. TypeOK'
  BY <1>0, <1>1, <1>2, <1>8, <1>9 DEF TypeOK, WireTaken
<1>11. NothingOfUnknownRunner'
  <2>1. ASSUME NEW o \in ToSet(offers') PROVE o[1] \in known
    <3>1. o \in ToSet(offers) \/ o = <<r, n>>
      BY <1>5, <1>9, <2>1
    <3>2. <<r, n>>[1] = r
      OBVIOUS
    <3>3. QED
      BY <1>0, <1>1, <3>1, <3>2 DEF NothingOfUnknownRunner
  <2>2. QED
    BY <1>0, <1>1, <1>8, <2>1 DEF NothingOfUnknownRunner
<1>12. \A p \in Request : CallMoves(p) /\ RequestMoves(p)
  BY <1>1 DEF CallMoves, RequestMoves
<1>13. QED
  BY <1>1, <1>2, <1>8, <1>9, <1>10, <1>11, <1>12 DEF BrokerMoves, SettingsMoves

LEMMA AcceptMoves ==
    ASSUME BrokerInv, NEW r \in Runner, handleRunnerAccept(r) PROVE BrokerMoves
<1> DEFINE n == Head(toBroker[r])[2]
           o == <<r, n>>
           q == forReq[o]
<1>0. TypeOK /\ OfferInv /\ SettingsInv /\ GivenInv /\ NothingOfUnknownRunner
  BY InvParts
<1>1. /\ toBroker[r] # <<>> /\ Head(toBroker[r])[1] = "accepted"
      /\ toBroker' = [toBroker EXCEPT ![r] = Tail(@)] /\ r \in known
      /\ UNCHANGED <<known, offers, forReq, draining, proc, canSend, issued, open, run>>
  BY DEF handleRunnerAccept, Receives, runnerVars
<1>2. WireTaken /\ Head(toBroker[r]) \in Message
  BY <1>0, <1>1, TakesMessage
<1>3. n \in Number /\ o \in Offer
  BY <1>1, <1>2, MessageFacts, OfferFacts
<1>4. CASE phase[o] # "accepting"
  <2>1. UNCHANGED <<phase, requests, call, toRunner>>
    BY <1>4 DEF handleRunnerAccept
  <2>2. TypeOK' /\ NothingOfUnknownRunner' /\ Distinct(offers')
    BY <1>0, <1>1, <1>2, <2>1 DEF TypeOK, NothingOfUnknownRunner, OfferInv, WireTaken
  <2>3. \A s \in Runner, m \in Number : OfferMoves(s, m)
    BY <1>1, <2>1 DEF OfferMoves
  <2>4. SettingsMoves
    BY <1>0, <2>1, QuietKept DEF SettingsMoves
  <2>5. \A p \in Request : CallMoves(p) /\ RequestMoves(p)
    BY <2>1 DEF CallMoves, RequestMoves
  <2>6. QED
    BY <1>1, <1>2, <2>2, <2>3, <2>4, <2>5 DEF BrokerMoves
<1>5. CASE phase[o] = "accepting"
  <2>1. phase' = [phase EXCEPT ![o] = "task"]
    BY <1>5 DEF handleRunnerAccept
  <2>2. /\ phase' \in [Offer -> Phase] /\ phase'[o] = "task"
        /\ \A b \in Offer : b # o => phase'[b] = phase[b]
    <3>1. phase \in [Offer -> Phase] /\ "task" \in Phase
      BY <1>0 DEF TypeOK, Phase
    <3> HIDE DEF o
    <3>2. QED
      BY <1>3, <2>1, <3>1
  <2>3. \A s \in Runner, m \in Number : OfferMoves(s, m)
    BY <1>1, <1>5, <2>2, OfferFacts DEF OfferMoves
  <2>4. NothingOfUnknownRunner' /\ Distinct(offers')
    <3>1. \A b \in Offer : phase'[b] = "task" => b[1] \in known
      BY <1>0, <1>1, <2>2 DEF NothingOfUnknownRunner
    <3>2. QED
      BY <1>0, <1>1, <3>1 DEF NothingOfUnknownRunner, OfferInv
  <2>5. CASE q \in ToSet(requests)
    <3>1. /\ requests' = Without(requests, {q}) /\ call' = [call EXCEPT ![q] = "given"]
          /\ toRunner' = [toRunner EXCEPT ![r] = Sent(r, <<SettingsMsg(n)>>)]
      BY <1>5, <2>5 DEF handleRunnerAccept, SettingsMsg
    <3>2. requests \in Seq(Request) /\ q \in Request /\ call[q] = "asked"
      <4>1. requests \in Seq(Request)
        BY <1>0 DEF TypeOK
      <4>2. ToSet(requests) \subseteq Request
        BY <4>1, ListElements
      <4>3. call[q] = "asked"
        BY <1>0, <2>5 DEF GivenInv
      <4>4. QED
        BY <2>5, <4>1, <4>2, <4>3
    <3>3. requests' \in Seq(Request) /\ ToSet(requests') = ToSet(requests) \ {q}
      BY <3>1, <3>2, WithoutList
    <3>4. /\ call' \in [Request -> Call] /\ call'[q] = "given"
          /\ \A p \in Request : p # q => call'[p] = call[p]
      <4>1. call \in [Request -> Call] /\ "given" \in Call
        BY <1>0 DEF TypeOK, Call
      <4> HIDE DEF q
      <4>2. QED
        BY <3>1, <3>2, <4>1
    <3>5. toRunner \in [Runner -> Seq(Message)] /\ toRunner[r] \in Seq(Message)
      BY <1>0 DEF TypeOK
    <3>6. SettingsMsg(n) \in Message
      BY <1>3, MessageFacts DEF SettingsMsg
    <3>7. ~Has(toRunner[r], SettingsMsg(n))
      BY <1>0, <1>3, <1>5 DEF SettingsInv, Given
    <3>8. /\ <<SettingsMsg(n)>> \in Seq(Message) /\ Once(<<SettingsMsg(n)>>, SettingsMsg(n))
          /\ \A m : m # SettingsMsg(n) => ~Has(<<SettingsMsg(n)>>, m)
      BY <3>6, SingleHas
    <3>9. /\ Sent(r, <<SettingsMsg(n)>>) \in Seq(Message)
          /\ Once(Sent(r, <<SettingsMsg(n)>>), SettingsMsg(n))
          /\ \A m : m # SettingsMsg(n) => Shrinks(Sent(r, <<SettingsMsg(n)>>), toRunner[r], m)
      <4>1. CASE Sent(r, <<SettingsMsg(n)>>) = toRunner[r]
        BY <1>0, <1>3, <3>5, <4>1 DEF Shrinks, SettingsInv
      <4>2. CASE Sent(r, <<SettingsMsg(n)>>) = toRunner[r] \o <<SettingsMsg(n)>>
        <5> DEFINE w == toRunner[r]
                   v == <<SettingsMsg(n)>>
        <5>1. w \in Seq(Message) /\ v \in Seq(Message)
          BY <3>5, <3>8
        <5>2. ~Has(w, SettingsMsg(n)) /\ Once(v, SettingsMsg(n))
              /\ \A m : m # SettingsMsg(n) => ~Has(v, m)
          BY <3>7, <3>8
        <5> HIDE DEF w, v
        <5>3. ASSUME NEW m
              PROVE  /\ w \o v \in Seq(Message)
                     /\ Has(w \o v, m) <=> Has(w, m) \/ Has(v, m)
                     /\ Once(w, m) /\ ~Has(v, m) => Once(w \o v, m)
                     /\ ~Has(w, m) /\ Once(v, m) => Once(w \o v, m)
          BY <5>1, ConcatHas
        <5>4. /\ w \o v \in Seq(Message) /\ Once(w \o v, SettingsMsg(n))
              /\ \A m : m # SettingsMsg(n) => Shrinks(w \o v, w, m)
          BY <5>2, <5>3 DEF Shrinks
        <5>5. QED
          BY <4>2, <5>4 DEF w, v
      <4>3. QED
        BY <4>1, <4>2 DEF Sent
    <3>10. /\ toRunner' \in [Runner -> Seq(Message)]
           /\ toRunner'[r] = Sent(r, <<SettingsMsg(n)>>)
           /\ \A s \in Runner : s # r => toRunner'[s] = toRunner[s]
      BY <3>1, <3>5, <3>9
    <3>11. ASSUME NEW s \in Runner, NEW m \in Number, <<s, m>> # <<r, n>> PROVE Quiet(s, m)
      <4>1. CASE s = r
        <5>1. SettingsMsg(m) # SettingsMsg(n)
          BY <3>11, <4>1 DEF SettingsMsg
        <5>2. QED
          BY <3>9, <3>10, <4>1, <5>1 DEF Quiet
      <4>2. CASE s # r
        BY <3>10, <4>2 DEF Quiet, Shrinks
      <4>3. QED
        BY <4>1, <4>2
    <3>12. SettingsMoves
      <4>1. Once(toRunner'[r], SettingsMsg(n))
        BY <3>9, <3>10
      <4>2. QED
        BY <1>3, <1>5, <2>2, <2>5, <3>2, <3>4, <3>11, <4>1 DEF SettingsMoves
    <3>13. \A p \in Request : CallMoves(p) /\ RequestMoves(p)
      BY <3>2, <3>3, <3>4 DEF CallMoves, RequestMoves
    <3>14. TypeOK'
      BY <1>0, <1>1, <1>2, <2>2, <3>3, <3>4, <3>10 DEF TypeOK, WireTaken
    <3>15. QED
      BY <1>1, <1>2, <2>3, <2>4, <3>12, <3>13, <3>14 DEF BrokerMoves
  <2>6. CASE q \notin ToSet(requests)
    <3>1. UNCHANGED <<requests, call, toRunner>>
      BY <1>5, <2>6 DEF handleRunnerAccept
    <3>2. TypeOK'
      BY <1>0, <1>1, <1>2, <2>2, <3>1 DEF TypeOK, WireTaken
    <3>3. SettingsMoves /\ \A p \in Request : CallMoves(p) /\ RequestMoves(p)
      BY <1>0, <3>1, QuietKept DEF SettingsMoves, CallMoves, RequestMoves
    <3>4. QED
      BY <1>1, <1>2, <2>3, <2>4, <3>2, <3>3 DEF BrokerMoves
  <2>7. QED
    BY <2>5, <2>6
<1>6. QED
  BY <1>4, <1>5

(* The phase of one offer moves on, and everything but calls and the wire of *)
(* the runners stays as it is.                                               *)
LEMMA PhaseMoves ==
    ASSUME BrokerInv, NEW o \in Offer, NEW ph \in Phase,
           phase' = [phase EXCEPT ![o] = ph],
           ph = phase[o] \/ (phase[o] \in {"accepting", "task"} /\ ph = "over"),
           UNCHANGED <<known, offers, requests, forReq, draining, proc, canSend, issued, open, run>>,
           WireTaken, call' \in [Request -> Call], \A q \in Request : CallMoves(q),
           toRunner' \in [Runner -> Seq(Message)], \A r \in Runner, n \in Number : Quiet(r, n)
    PROVE  BrokerMoves
<1>0. TypeOK /\ OfferInv /\ NothingOfUnknownRunner
  BY InvParts
<1>1. /\ phase' \in [Offer -> Phase] /\ phase'[o] = ph
      /\ \A b \in Offer : b # o => phase'[b] = phase[b]
  BY <1>0 DEF TypeOK
<1>2. \A r \in Runner, n \in Number : OfferMoves(r, n)
  BY <1>1, OfferFacts DEF OfferMoves
<1>3. \A b \in Offer : phase'[b] = "task" => phase[b] = "task"
  BY <1>1
<1>4. NothingOfUnknownRunner' /\ Distinct(offers')
  BY <1>0, <1>3 DEF NothingOfUnknownRunner, OfferInv
<1>5. TypeOK'
  BY <1>0, <1>1 DEF TypeOK, WireTaken
<1>6. \A q \in Request : RequestMoves(q)
  BY DEF RequestMoves
<1>7. QED
  BY <1>2, <1>4, <1>5, <1>6 DEF BrokerMoves, SettingsMoves

LEMMA RejectMoves ==
    ASSUME BrokerInv, NEW r \in Runner, handleRunnerReject(r) PROVE BrokerMoves
<1> DEFINE o == <<r, Head(toBroker[r])[2]>>
           ph == IF phase[o] = "accepting" THEN "over" ELSE phase[o]
<1>0. TypeOK
  BY InvParts
<1>1. /\ toBroker[r] # <<>> /\ Head(toBroker[r])[1] = "rejected"
      /\ toBroker' = [toBroker EXCEPT ![r] = Tail(@)]
      /\ phase' = IF phase[o] = "accepting" THEN [phase EXCEPT ![o] = "over"] ELSE phase
      /\ UNCHANGED <<known, offers, requests, forReq, draining, call, proc, canSend, issued, open,
                     run, toRunner>>
  BY DEF handleRunnerReject, Receives, runnerVars
<1>2. WireTaken /\ Head(toBroker[r]) \in Message
  BY <1>0, <1>1, TakesMessage
<1>3. o \in Offer
  BY <1>1, <1>2, MessageFacts, OfferFacts
<1>4. phase \in [Offer -> Phase]
  BY <1>0 DEF TypeOK
<1> HIDE DEF o
<1>5. ph \in Phase /\ (ph = phase[o] \/ (phase[o] \in {"accepting", "task"} /\ ph = "over"))
  BY <1>3, <1>4 DEF Phase
<1>6. phase' = [phase EXCEPT ![o] = ph]
  BY <1>1, <1>3, <1>4
<1>7. call' \in [Request -> Call] /\ toRunner' \in [Runner -> Seq(Message)]
  BY <1>0, <1>1 DEF TypeOK
<1>8. \A q \in Request : CallMoves(q)
  BY <1>1 DEF CallMoves
<1>9. \A s \in Runner, n \in Number : Quiet(s, n)
  BY <1>0, <1>1, QuietKept
<1> HIDE DEF ph
<1>10. QED
  BY <1>1, <1>2, <1>3, <1>5, <1>6, <1>7, <1>8, <1>9, PhaseMoves

(* The promise of a call is settled: at most the call of the task changes. *)
LEMMA AnsweredMoves ==
    ASSUME TypeOK, NEW o, NEW result \in {"done", "failed"}, call' = Answered(o, result),
           result = "done" => Finished(forReq[o])
    PROVE  call' \in [Request -> Call] /\ \A q \in Request : CallMoves(q)
<1>1. call \in [Request -> Call] /\ result \in Call
  BY DEF TypeOK, Call
<1> DEFINE p == forReq[o]
<1>2. CASE phase[o] = "task" /\ call[p] = "given"
  <2>1. call' = [call EXCEPT ![p] = result]
    BY <1>2 DEF Answered
  <2>2. result = "done" => Finished(p)
    OBVIOUS
  <2> HIDE DEF p
  <2>3. /\ call' \in [Request -> Call]
        /\ \A q \in Request : call'[q] = IF q = p THEN result ELSE call[q]
    BY <1>1, <2>1
  <2>4. QED
    BY <1>2, <2>2, <2>3 DEF CallMoves
<1>3. CASE ~(phase[o] = "task" /\ call[p] = "given")
  BY <1>1, <1>3 DEF Answered, CallMoves
<1>4. QED
  BY <1>2, <1>3

LEMMA DoneMoves ==
    ASSUME BrokerInv, NEW r \in Runner, taskDoneHandler(r) PROVE BrokerMoves
<1> DEFINE n == Head(toBroker[r])[2]
           o == <<r, n>>
           kind == Head(toBroker[r])[1]
           result == IF kind = "done" THEN "done" ELSE "failed"
           ph == IF phase[o] = "task" THEN "over" ELSE phase[o]
<1>0. TypeOK /\ DoneInv
  BY InvParts
<1>1. /\ toBroker[r] # <<>> /\ kind \in {"done", "error"}
      /\ toBroker' = [toBroker EXCEPT ![r] = Tail(@)]
      /\ call' = Answered(o, result)
      /\ phase' = IF phase[o] = "task" THEN [phase EXCEPT ![o] = "over"] ELSE phase
      /\ UNCHANGED <<known, offers, requests, forReq, draining, proc, canSend, issued, open,
                     run, toRunner>>
  BY DEF taskDoneHandler, Receives, runnerVars
<1>2. WireTaken /\ Head(toBroker[r]) \in Message /\ Has(toBroker[r], Head(toBroker[r]))
  BY <1>0, <1>1, TakesMessage
<1>3. n \in Number /\ o \in Offer /\ Head(toBroker[r]) = <<kind, n>>
  BY <1>1, <1>2, MessageFacts, OfferFacts
<1>4. ASSUME result = "done" PROVE Finished(forReq[o])
  <2>1. Has(toBroker[r], DoneMsg(n))
    BY <1>2, <1>3, <1>4 DEF DoneMsg
  <2>2. run[o] = "ran"
    BY <1>0, <1>3, <2>1 DEF DoneInv
  <2>3. QED
    BY <1>3, <2>2 DEF Finished
<1>5. phase \in [Offer -> Phase] /\ toRunner' \in [Runner -> Seq(Message)]
  BY <1>0, <1>1 DEF TypeOK
<1>6. \A s \in Runner, m \in Number : Quiet(s, m)
  BY <1>0, <1>1, QuietKept
<1>7. result \in {"done", "failed"}
  OBVIOUS
<1> HIDE DEF o, result
<1>8. ph \in Phase /\ (ph = phase[o] \/ (phase[o] \in {"accepting", "task"} /\ ph = "over"))
  BY <1>3, <1>5 DEF Phase
<1>9. phase' = [phase EXCEPT ![o] = ph]
  BY <1>1, <1>3, <1>5
<1>10. call' \in [Request -> Call] /\ \A q \in Request : CallMoves(q)
  <2>1. call' = Answered(o, result)
    BY <1>1
  <2>2. QED
    BY <1>0, <1>4, <1>7, <2>1, AnsweredMoves
<1> HIDE DEF ph
<1>11. QED
  BY <1>1, <1>2, <1>3, <1>5, <1>6, <1>8, <1>9, <1>10, PhaseMoves

(* A message of an unknown runner changes nothing else. *)
LEMMA IgnoredMoves ==
    ASSUME BrokerInv, NEW r \in Runner, messageIgnored(r) PROVE BrokerMoves
<1>0. TypeOK /\ OfferInv /\ NothingOfUnknownRunner
  BY InvParts
<1>1. /\ toBroker[r] # <<>> /\ toBroker' = [toBroker EXCEPT ![r] = Tail(@)]
      /\ UNCHANGED <<known, offers, requests, phase, forReq, draining, call, proc, canSend, issued,
                     open, run, toRunner>>
  BY DEF messageIgnored, brokerVars, runnerVars
<1>2. WireTaken
  BY <1>0, <1>1, TakesMessage
<1>3. SettingsMoves
  BY <1>0, <1>1, QuietKept DEF SettingsMoves
<1>4. TypeOK' /\ NothingOfUnknownRunner' /\ Distinct(offers')
  BY <1>0, <1>1, <1>2 DEF TypeOK, WireTaken, NothingOfUnknownRunner, OfferInv
<1>5. QED
  BY <1>1, <1>2, <1>3, <1>4 DEF BrokerMoves, OfferMoves, CallMoves, RequestMoves

LEMMA TimerMoves ==
    ASSUME BrokerInv, NEW o \in Offer, brokerTimer(o) PROVE BrokerMoves
<1>0. TypeOK /\ "over" \in Phase
  BY InvParts DEF Phase
<1>1. /\ phase' = [phase EXCEPT ![o] = "over"] /\ phase[o] \in {"accepting", "task"}
      /\ UNCHANGED <<known, offers, requests, forReq, draining, proc, canSend, issued, open, run,
                     toBroker>>
  BY DEF brokerTimer, acceptTimeout, handleTaskTimeout, runnerVars, wires
<1>2. WireTaken
  BY <1>0, <1>1, WireKept
<1>3. call' \in [Request -> Call] /\ \A q \in Request : CallMoves(q)
  <2>1. CASE acceptTimeout(o)
    BY <1>0, <2>1 DEF acceptTimeout, TypeOK, CallMoves
  <2>2. CASE handleTaskTimeout(o)
    <3>1. call' = Answered(o, "failed")
      BY <2>2 DEF handleTaskTimeout
    <3>2. QED
      BY <1>0, <3>1, AnsweredMoves
  <2>3. QED
    BY <2>1, <2>2 DEF brokerTimer
<1>4. toRunner' \in [Runner -> Seq(Message)] /\ \A r \in Runner, n \in Number : Quiet(r, n)
  <2>1. CASE acceptTimeout(o)
    BY <1>0, <2>1, QuietKept DEF acceptTimeout, wires, TypeOK
  <2>2. CASE handleTaskTimeout(o)
    <3> DEFINE e == <<"cancel", o[2]>>
    <3>1. /\ o[1] \in Runner /\ e \in Message /\ e[1] # "settings"
          /\ toRunner' = [toRunner EXCEPT ![o[1]] = Sent(o[1], <<e>>)]
      BY <2>2, OfferFacts, MessageFacts DEF handleTaskTimeout
    <3> HIDE DEF e
    <3>2. QED
      BY <1>0, <3>1, SendsQuietly
  <2>3. QED
    BY <2>1, <2>2 DEF brokerTimer
<1>5. QED
  BY <1>0, <1>1, <1>2, <1>3, <1>4, PhaseMoves

LEMMA RegisterMoves ==
    ASSUME BrokerInv, NEW r \in Runner, registerRunner(r) PROVE BrokerMoves
<1> DEFINE e == <<"registered", 0>>
<1>0. TypeOK /\ OfferInv /\ NothingOfUnknownRunner
  BY InvParts
<1>1. /\ proc' = [proc EXCEPT ![r] = "up"] /\ known' = known \cup {r}
      /\ toRunner' = [toRunner EXCEPT ![r] = <<e>>]
      /\ UNCHANGED <<offers, requests, phase, forReq, draining, call, canSend, issued, open, run,
                     toBroker>>
  BY DEF registerRunner
<1>2. WireTaken
  BY <1>0, <1>1, WireKept
<1>3. e \in Message /\ \A n : SettingsMsg(n) # e
  BY MessageFacts DEF SettingsMsg
<1> HIDE DEF e
<1>4. <<e>> \in Seq(Message) /\ \A n : ~Has(<<e>>, SettingsMsg(n)) /\ Once(<<e>>, SettingsMsg(n))
  BY <1>3, SingleHas
<1>5. toRunner \in [Runner -> Seq(Message)]
  BY <1>0 DEF TypeOK
<1>6. /\ toRunner' \in [Runner -> Seq(Message)] /\ toRunner'[r] = <<e>>
      /\ \A s \in Runner : s # r => toRunner'[s] = toRunner[s]
  BY <1>1, <1>4, <1>5
<1>7. \A s \in Runner, n \in Number : Quiet(s, n)
  BY <1>4, <1>6 DEF Quiet, Shrinks
<1>8. TypeOK'
  BY <1>0, <1>1, <1>2, <1>6 DEF TypeOK, Proc, WireTaken
<1>9. NothingOfUnknownRunner' /\ Distinct(offers')
  BY <1>0, <1>1 DEF NothingOfUnknownRunner, OfferInv
<1>10. QED
  BY <1>1, <1>2, <1>7, <1>8, <1>9 DEF BrokerMoves, SettingsMoves, OfferMoves, CallMoves, RequestMoves

(* A runner disconnects. *)
LEMMA DeregisterMoves ==
    ASSUME BrokerInv, NEW r \in Runner, deregisterRunner(r),
           UNCHANGED <<proc, canSend, issued, open, run, toBroker>>,
           toRunner' \in [Runner -> Seq(Message)], \A s \in Runner, n \in Number : Quiet(s, n)
    PROVE  BrokerMoves
<1> DEFINE lost == {o \in Offer : o[1] = r /\ phase[o] = "task"}
<1>0. TypeOK /\ OfferInv /\ NothingOfUnknownRunner
  BY InvParts
<1>1. /\ known' = known \ {r} /\ offers' = Without(offers, {o \in Offer : o[1] = r})
      /\ phase' = [o \in Offer |-> IF o \in lost THEN "over" ELSE phase[o]]
      /\ call' = [q \in Request |->
             IF call[q] = "given" /\ \E o \in lost : forReq[o] = q THEN "failed" ELSE call[q]]
      /\ UNCHANGED <<requests, forReq, draining>>
  BY DEF deregisterRunner
<1>2. offers \in Seq(Offer) /\ phase \in [Offer -> Phase] /\ call \in [Request -> Call]
  BY <1>0 DEF TypeOK
<1>3. /\ offers' \in Seq(Offer) /\ Distinct(offers')
      /\ ToSet(offers') = ToSet(offers) \ {o \in Offer : o[1] = r}
  BY <1>0, <1>1, <1>2, WithoutList DEF OfferInv
<1>4. phase' \in [Offer -> Phase]
  BY <1>1, <1>2 DEF Phase
<1>5. call' \in [Request -> Call] /\ \A q \in Request : CallMoves(q)
  <2> HIDE DEF lost
  <2>1. \A q \in Request : call'[q] = call[q] \/ (call[q] = "given" /\ call'[q] = "failed")
    BY <1>1
  <2>2. call' \in [Request -> Call]
    BY <1>1, <1>2 DEF Call
  <2>3. QED
    BY <2>1, <2>2 DEF CallMoves
<1>6. \A o \in Offer : \/ o \notin lost /\ phase'[o] = phase[o]
                       \/ phase[o] = "task" /\ phase'[o] = "over"
  BY <1>1
<1>7. \A s \in Runner, n \in Number : OfferMoves(s, n)
  <2> HIDE DEF lost
  <2>1. QED
    BY <1>1, <1>3, <1>6, OfferFacts DEF OfferMoves
<1>8. NothingOfUnknownRunner'
  <2>1. ASSUME NEW o \in Offer, phase'[o] = "task" PROVE o[1] \in known'
    BY <1>0, <1>1, <1>6, <2>1 DEF NothingOfUnknownRunner
  <2>2. ASSUME NEW o \in ToSet(offers') PROVE o[1] \in known'
    <3>1. o \in ToSet(offers) /\ o \in Offer /\ o[1] # r
      BY <1>2, <1>3, <2>2, ListElements
    <3>2. QED
      BY <1>0, <1>1, <3>1 DEF NothingOfUnknownRunner
  <2>3. QED
    BY <2>1, <2>2 DEF NothingOfUnknownRunner
<1>9. WireTaken
  BY <1>0, WireKept
<1>10. TypeOK'
  BY <1>0, <1>1, <1>3, <1>4, <1>5, <1>9 DEF TypeOK, WireTaken
<1>11. \A q \in Request : RequestMoves(q)
  BY <1>1 DEF RequestMoves
<1>12. QED
  BY <1>3, <1>5, <1>7, <1>8, <1>9, <1>10, <1>11 DEF BrokerMoves, SettingsMoves

LEMMA DisconnectMoves ==
    ASSUME BrokerInv, NEW r \in Runner, connectionClosed(r) \/ removeConnection(r)
    PROVE  BrokerMoves
<1>0. TypeOK
  BY InvParts
<1>1. CASE connectionClosed(r)
  <2>1. /\ deregisterRunner(r)
        /\ UNCHANGED <<proc, canSend, issued, open, run, toBroker, toRunner>>
    BY <1>1 DEF connectionClosed, runnerVars, wires
  <2>2. toRunner' \in [Runner -> Seq(Message)] /\ \A s \in Runner, n \in Number : Quiet(s, n)
    BY <1>0, <2>1, QuietKept DEF TypeOK
  <2>3. QED
    BY <2>1, <2>2, DeregisterMoves
<1>2. CASE removeConnection(r)
  <2> DEFINE e == <<"close", 0>>
  <2>1. /\ deregisterRunner(r) /\ UNCHANGED <<proc, canSend, issued, open, run, toBroker>>
        /\ toRunner' = [toRunner EXCEPT ![r] = Sent(r, <<e>>)]
    BY <1>2 DEF removeConnection, runnerVars
  <2>2. e \in Message /\ e[1] # "settings"
    BY MessageFacts
  <2> HIDE DEF e
  <2>3. toRunner' \in [Runner -> Seq(Message)] /\ \A s \in Runner, n \in Number : Quiet(s, n)
    BY <1>0, <2>1, <2>2, SendsQuietly
  <2>4. QED
    BY <2>1, <2>3, DeregisterMoves
<1>3. QED
  BY <1>1, <1>2

LEMMA DrainingMoves ==
    ASSUME BrokerInv, startDraining PROVE BrokerMoves
<1> DEFINE e == <<"drain", 0>>
<1>0. TypeOK /\ OfferInv /\ NothingOfUnknownRunner
  BY InvParts
<1>1. /\ draining' = TRUE
      /\ toRunner' = [r \in Runner |-> IF r \in known THEN Sent(r, <<e>>) ELSE toRunner[r]]
      /\ UNCHANGED <<known, offers, requests, phase, forReq, call, proc, canSend, issued, open, run,
                     toBroker>>
  BY DEF startDraining, runnerVars
<1>2. e \in Message /\ \A n : SettingsMsg(n) # e
  BY MessageFacts DEF SettingsMsg
<1> HIDE DEF e
<1>3. <<e>> \in Seq(Message) /\ \A n : ~Has(<<e>>, SettingsMsg(n))
  BY <1>2, SingleHas
<1>4. ASSUME NEW r \in Runner, NEW n
      PROVE  toRunner'[r] \in Seq(Message) /\ Shrinks(toRunner'[r], toRunner[r], SettingsMsg(n))
  <2>1. toRunner[r] \in Seq(Message)
    BY <1>0 DEF TypeOK
  <2>2. Sent(r, <<e>>) \in Seq(Message) /\ Shrinks(Sent(r, <<e>>), toRunner[r], SettingsMsg(n))
    BY <1>3, <2>1, SentShrinks
  <2>3. QED
    BY <1>1, <2>1, <2>2 DEF Shrinks
<1>5. toRunner' \in [Runner -> Seq(Message)] /\ \A r \in Runner, n \in Number : Quiet(r, n)
  <2>1. \A r \in Runner : toRunner'[r] \in Seq(Message)
    BY <1>4
  <2>2. QED
    BY <1>1, <1>4, <2>1 DEF Quiet
<1>6. WireTaken
  BY <1>0, <1>1, WireKept
<1>7. TypeOK' /\ NothingOfUnknownRunner' /\ Distinct(offers')
  BY <1>0, <1>1, <1>5, <1>6 DEF TypeOK, WireTaken, NothingOfUnknownRunner, OfferInv
<1>8. QED
  BY <1>1, <1>5, <1>6, <1>7 DEF BrokerMoves, SettingsMoves, OfferMoves, CallMoves, RequestMoves

-----------------------------------------------------------------------------
(* Whatever a step of the broker does within these bounds keeps the          *)
(* invariant.                                                                *)

LEMMA BrokerKeepsOffers ==
    ASSUME BrokerInv, BrokerMoves PROVE NumberInv' /\ OfferInv'
<1>0. NumberInv /\ OfferInv
  BY InvParts
<1>1. /\ Distinct(offers') /\ UNCHANGED <<issued, open, run>>
      /\ \A r \in Runner, n \in Number :
             OfferMoves(r, n) /\ Shrinks(toBroker'[r], toBroker[r], OfferMsg(n))
  BY DEF BrokerMoves, WireTaken
<1>2. ASSUME NEW r \in Runner, NEW n \in Number
      PROVE  /\ n > issued[r] => /\ ~Has(toBroker'[r], OfferMsg(n))
                                 /\ <<r, n>> \notin ToSet(offers') /\ phase'[<<r, n>>] = "free"
             /\ Once(toBroker'[r], OfferMsg(n))
             /\ Has(toBroker'[r], OfferMsg(n)) =>
                    <<r, n>> \notin ToSet(offers') /\ phase'[<<r, n>>] = "free"
             /\ <<r, n>> \in ToSet(offers') => phase'[<<r, n>>] = "free"
  <2>1. /\ Once(toBroker'[r], OfferMsg(n))
        /\ Has(toBroker'[r], OfferMsg(n)) => Has(toBroker[r], OfferMsg(n))
    BY <1>0, <1>1 DEF OfferInv, Shrinks
  <2>2. /\ n > issued[r] => /\ ~Has(toBroker[r], OfferMsg(n))
                            /\ <<r, n>> \notin ToSet(offers) /\ phase[<<r, n>>] = "free"
        /\ Has(toBroker[r], OfferMsg(n)) =>
               <<r, n>> \notin ToSet(offers) /\ phase[<<r, n>>] = "free"
        /\ <<r, n>> \in ToSet(offers) => phase[<<r, n>>] = "free"
    BY <1>0 DEF NumberInv, OfferInv
  <2>3. OfferMoves(r, n)
    BY <1>1
  <2>4. QED
    BY <2>1, <2>2, <2>3 DEF OfferMoves
<1>3. OfferInv'
  BY <1>1, <1>2 DEF OfferInv
<1>4. NumberInv'
  <2>1. \A r \in Runner, n \in Number :
            /\ n > issued[r] => n \notin open[r] /\ run[<<r, n>>] = "none"
            /\ n \in open[r] => run[<<r, n>>] = "none"
    BY <1>0 DEF NumberInv
  <2>2. QED
    BY <1>1, <1>2, <2>1 DEF NumberInv
<1>5. QED
  BY <1>3, <1>4

(* A task that was given its request stays so, for the same request. *)
LEMMA BrokerKeepsTask ==
    ASSUME BrokerInv, BrokerMoves, NEW r \in Runner, NEW n \in Number, Given(r, n)
    PROVE  /\ phase[<<r, n>>] \in {"task", "over"} /\ phase'[<<r, n>>] \in {"task", "over"}
           /\ forReq'[<<r, n>>] = forReq[<<r, n>>] /\ forReq[<<r, n>>] \in Request
           /\ call[forReq[<<r, n>>]] \in {"given", "done", "failed"}
           /\ call'[forReq[<<r, n>>]] \in {"given", "done", "failed"}
<1>1. phase[<<r, n>>] \in {"task", "over"}
  BY InvParts DEF SettingsInv
<1>2. OfferMoves(r, n)
  BY DEF BrokerMoves
<1>3. phase'[<<r, n>>] \in {"task", "over"} /\ forReq'[<<r, n>>] = forReq[<<r, n>>]
  BY <1>1, <1>2 DEF OfferMoves
<1> DEFINE q == forReq[<<r, n>>]
<1>4. q \in Request /\ call[q] \in {"given", "done", "failed"}
  BY InvParts DEF GivenInv
<1> HIDE DEF q
<1>5. CallMoves(q)
  BY <1>4 DEF BrokerMoves
<1>6. call'[q] \in {"given", "done", "failed"}
  BY <1>4, <1>5 DEF CallMoves
<1>7. QED
  BY <1>1, <1>3, <1>4, <1>6 DEF q

LEMMA BrokerKeepsSettings ==
    ASSUME BrokerInv, BrokerMoves PROVE SettingsInv' /\ GivenInv'
<1>0. SettingsInv /\ GivenInv /\ TypeOK
  BY InvParts
<1>1. run' = run /\ SettingsMoves /\ \A q \in Request : CallMoves(q) /\ RequestMoves(q)
  BY DEF BrokerMoves
<1>2. \A q \in ToSet(requests)' : call'[q] = "asked"
  <2>1. SUFFICES ASSUME NEW q \in ToSet(requests') PROVE call'[q] = "asked"
    OBVIOUS
  <2>2. q \in Request
    <3>1. requests' \in Seq(Request)
      BY DEF BrokerMoves, TypeOK
    <3>2. QED
      BY <2>1, <3>1, ListElements
  <2>3. CallMoves(q) /\ RequestMoves(q) /\ (q \in ToSet(requests) => call[q] = "asked")
    BY <1>0, <1>1, <2>2 DEF GivenInv
  <2>4. QED
    BY <2>1, <2>3 DEF CallMoves, RequestMoves
<1>3. ASSUME NEW r \in Runner, NEW n \in Number, Quiet(r, n)
      PROVE  Once(toRunner'[r], SettingsMsg(n)) /\ (Given(r, n)' => Given(r, n))
             /\ (Has(toRunner'[r], SettingsMsg(n)) => Has(toRunner[r], SettingsMsg(n)))
  BY <1>0, <1>1, <1>3 DEF Quiet, Shrinks, SettingsInv, Given
<1>4. ASSUME NEW r \in Runner, NEW n \in Number, Quiet(r, n)
      PROVE  /\ Given(r, n)' => phase'[<<r, n>>] \in {"task", "over"}
             /\ Has(toRunner'[r], SettingsMsg(n)) => run'[<<r, n>>] \notin Worked
             /\ Given(r, n)' => /\ forReq'[<<r, n>>] \in Request
                                /\ call'[forReq'[<<r, n>>]] \in {"given", "done", "failed"}
  <2>1. Has(toRunner'[r], SettingsMsg(n)) => run'[<<r, n>>] \notin Worked
    BY <1>0, <1>1, <1>3, <1>4 DEF SettingsInv
  <2>2. ASSUME Given(r, n)'
        PROVE  /\ phase'[<<r, n>>] \in {"task", "over"} /\ forReq'[<<r, n>>] \in Request
               /\ call'[forReq'[<<r, n>>]] \in {"given", "done", "failed"}
    <3>1. Given(r, n)
      BY <1>3, <1>4, <2>2
    <3>2. QED
      BY <3>1, BrokerKeepsTask
  <2>3. QED
    BY <2>1, <2>2
<1>5. ASSUME NEW r \in Runner, NEW n \in Number, NEW s \in Runner, NEW m \in Number,
             Quiet(r, n), Quiet(s, m), Given(r, n)', Given(s, m)',
             forReq'[<<r, n>>] = forReq'[<<s, m>>]
      PROVE  r = s /\ n = m
  <2>1. Given(r, n) /\ Given(s, m)
    BY <1>3, <1>5
  <2>2. forReq'[<<r, n>>] = forReq[<<r, n>>] /\ forReq'[<<s, m>>] = forReq[<<s, m>>]
    BY <2>1, BrokerKeepsTask
  <2>3. forReq[<<r, n>>] = forReq[<<s, m>>]
    BY <1>5, <2>2
  <2>4. \A r1, s1 \in Runner, n1, m1 \in Number :
            Given(r1, n1) /\ Given(s1, m1) /\ forReq[<<r1, n1>>] = forReq[<<s1, m1>>]
                => r1 = s1 /\ n1 = m1
    BY <1>0 DEF GivenInv
  <2>5. QED
    BY <2>1, <2>3, <2>4, Zenon
<1>6. CASE \A r \in Runner, n \in Number : Quiet(r, n)
  <2>1. SettingsInv'
    BY <1>3, <1>4, <1>6 DEF SettingsInv
  <2>2. GivenInv'
    <3>1. \A r \in Runner, n \in Number :
              Given(r, n)' => /\ forReq'[<<r, n>>] \in Request
                              /\ call'[forReq'[<<r, n>>]] \in {"given", "done", "failed"}
      BY <1>4, <1>6
    <3>2. \A r, s \in Runner, n, m \in Number :
              Given(r, n)' /\ Given(s, m)' /\ forReq'[<<r, n>>] = forReq'[<<s, m>>]
                  => r = s /\ n = m
      BY <1>5, <1>6
    <3>3. QED
      BY <1>2, <3>1, <3>2 DEF GivenInv
  <2>3. QED
    BY <2>1, <2>2
<1>7. CASE \E r \in Runner, n \in Number :
               /\ phase[<<r, n>>] = "accepting" /\ phase'[<<r, n>>] = "task"
               /\ Once(toRunner'[r], SettingsMsg(n))
               /\ forReq[<<r, n>>] \in ToSet(requests) /\ forReq[<<r, n>>] \in Request
               /\ call'[forReq[<<r, n>>]] = "given"
               /\ \A s \in Runner, m \in Number : <<s, m>> # <<r, n>> => Quiet(s, m)
  <2>1. PICK r \in Runner, n \in Number :
               /\ phase[<<r, n>>] = "accepting" /\ phase'[<<r, n>>] = "task"
               /\ Once(toRunner'[r], SettingsMsg(n))
               /\ forReq[<<r, n>>] \in ToSet(requests) /\ forReq[<<r, n>>] \in Request
               /\ call'[forReq[<<r, n>>]] = "given"
               /\ \A s \in Runner, m \in Number : <<s, m>> # <<r, n>> => Quiet(s, m)
    BY <1>7
  <2>2. ~Given(r, n) /\ run'[<<r, n>>] \notin Worked
    BY <1>0, <1>1, <2>1 DEF SettingsInv, Given
  <2>3. forReq'[<<r, n>>] = forReq[<<r, n>>]
    <3>1. OfferMoves(r, n)
      BY DEF BrokerMoves
    <3>2. QED
      BY <2>1, <3>1 DEF OfferMoves
  <2>4. ASSUME NEW s \in Runner, NEW m \in Number, ~(s = r /\ m = n) PROVE Quiet(s, m)
    BY <2>1, <2>4
  <2>5. ASSUME NEW s \in Runner, NEW m \in Number, ~(s = r /\ m = n), Given(s, m)'
        PROVE  forReq'[<<s, m>>] # forReq'[<<r, n>>]
    <3>1. Given(s, m)
      BY <1>3, <2>4, <2>5
    <3>2. /\ forReq'[<<s, m>>] = forReq[<<s, m>>]
          /\ call[forReq[<<s, m>>]] \in {"given", "done", "failed"}
      BY <3>1, BrokerKeepsTask
    <3>3. call[forReq[<<r, n>>]] = "asked"
      BY <1>0, <2>1 DEF GivenInv
    <3>4. QED
      BY <2>3, <3>2, <3>3
  <2>6. SettingsInv'
    <3>1. ASSUME NEW s \in Runner, NEW m \in Number
          PROVE  /\ Once(toRunner'[s], SettingsMsg(m))
                 /\ Given(s, m)' => phase'[<<s, m>>] \in {"task", "over"}
                 /\ Has(toRunner'[s], SettingsMsg(m)) => run'[<<s, m>>] \notin Worked
      <4>1. CASE s = r /\ m = n
        BY <2>1, <2>2, <4>1
      <4>2. CASE ~(s = r /\ m = n)
        BY <1>3, <1>4, <2>4, <4>2
      <4>3. QED
        BY <4>1, <4>2
    <3>2. QED
      BY <3>1 DEF SettingsInv
  <2>7. GivenInv'
    <3>1. ASSUME NEW s \in Runner, NEW m \in Number, Given(s, m)'
          PROVE  /\ forReq'[<<s, m>>] \in Request
                 /\ call'[forReq'[<<s, m>>]] \in {"given", "done", "failed"}
      <4>1. CASE s = r /\ m = n
        BY <2>1, <2>3, <4>1
      <4>2. CASE ~(s = r /\ m = n)
        BY <1>4, <2>4, <3>1, <4>2
      <4>3. QED
        BY <4>1, <4>2
    <3>2. ASSUME NEW s \in Runner, NEW m \in Number, NEW t \in Runner, NEW k \in Number,
                 Given(s, m)', Given(t, k)', forReq'[<<s, m>>] = forReq'[<<t, k>>]
          PROVE  s = t /\ m = k
      <4>1. CASE s = r /\ m = n
        BY <2>5, <3>2, <4>1
      <4>2. CASE t = r /\ k = n
        BY <2>5, <3>2, <4>2
      <4>3. CASE ~(s = r /\ m = n) /\ ~(t = r /\ k = n)
        BY <1>5, <2>4, <3>2, <4>3
      <4>4. QED
        BY <4>1, <4>2, <4>3
    <3>3. QED
      BY <1>2, <3>1, <3>2 DEF GivenInv
  <2>8. QED
    BY <2>6, <2>7
<1>8. QED
  BY <1>1, <1>6, <1>7 DEF SettingsMoves

LEMMA BrokerKeepsDone ==
    ASSUME BrokerInv, BrokerMoves PROVE DoneInv'
<1>0. DoneInv
  BY InvParts
<1>1. ASSUME NEW r \in Runner, NEW n \in Number, Has(toBroker'[r], DoneMsg(n))
      PROVE  run'[<<r, n>>] = "ran"
  BY <1>0, <1>1 DEF BrokerMoves, WireTaken, Shrinks, DoneInv
<1>2. ASSUME NEW q \in Request, Finished(q) PROVE Finished(q)'
  <2>1. PICK r \in Runner, n \in Number : forReq[<<r, n>>] = q /\ run[<<r, n>>] = "ran"
    BY <1>2 DEF Finished
  <2>2. Given(r, n)
    BY <2>1 DEF Given, Worked
  <2>3. forReq'[<<r, n>>] = q /\ run'[<<r, n>>] = "ran"
    BY <2>1, <2>2, BrokerKeepsTask DEF BrokerMoves
  <2>4. QED
    BY <2>3 DEF Finished
<1>3. ASSUME NEW q \in Request, call'[q] = "done" PROVE Finished(q)'
  <2>1. Finished(q)
    BY <1>0, <1>3 DEF BrokerMoves, CallMoves, DoneInv, Finished
  <2>2. QED
    BY <1>2, <2>1
<1>4. QED
  BY <1>1, <1>3 DEF DoneInv, Finished

LEMMA BrokerKeepsInv ==
    ASSUME BrokerInv, BrokerMoves PROVE BrokerInv'
<1>1. OffersWithinCapacity'
  BY InvParts DEF BrokerMoves, OffersWithinCapacity, Running
<1>2. TypeOK' /\ NothingOfUnknownRunner'
  BY DEF BrokerMoves
<1>3. QED
  BY <1>1, <1>2, BrokerKeepsOffers, BrokerKeepsSettings, BrokerKeepsDone DEF BrokerInv

-----------------------------------------------------------------------------
(* What a step of a runner may do. *)

(* A task is made of an open offer, which is open no more; it is dropped or, *)
(* by its settings, started; and what is started ends.                       *)
RunMoves(r, n) ==
    \/ run'[<<r, n>>] = run[<<r, n>>]
    \/ n \in open[r] /\ n \notin open'[r] /\ run'[<<r, n>>] = "waiting"
    \/ run[<<r, n>>] = "waiting" /\ run'[<<r, n>>] = "dropped"
    \/ /\ run[<<r, n>>] = "waiting" /\ run'[<<r, n>>] = "running"
       /\ Has(toRunner[r], SettingsMsg(n)) /\ ~Has(toRunner'[r], SettingsMsg(n))
    \/ run[<<r, n>>] \in Executing /\ run'[<<r, n>>] \in Worked

(* Offers are opened and sent under new numbers only. *)
IssueMoves(r, n) ==
    /\ issued'[r] \in Nat /\ issued[r] <= issued'[r]
    /\ n \in open'[r] => n \in open[r] \/ (n > issued[r] /\ ~(n > issued'[r]))
    /\ \/ Shrinks(toBroker'[r], toBroker[r], OfferMsg(n))
       \/ /\ n > issued[r] /\ ~(n > issued'[r])
          /\ ~Has(toBroker[r], OfferMsg(n)) => Once(toBroker'[r], OfferMsg(n))

(* A result is sent with the end of the work. *)
ResultMoves(r, n) ==
    Has(toBroker'[r], DoneMsg(n)) => Has(toBroker[r], DoneMsg(n)) \/ run'[<<r, n>>] = "ran"

Room(r, opened, status) ==
    Cardinality(opened) + Cardinality(Running(r, status)) <= MaxConcurrency

RunnerMoves ==
    /\ TypeOK' /\ UNCHANGED <<known, offers, requests, phase, forReq, draining, call>>
    /\ \A r \in Runner : Room(r, open'[r], run')
    /\ \A r \in Runner, n \in Number :
           RunMoves(r, n) /\ IssueMoves(r, n) /\ ResultMoves(r, n) /\ Quiet(r, n)

-----------------------------------------------------------------------------
(* Parts of the steps of a runner. *)

LEMMA FiniteFacts ==
    /\ MaxConcurrency \in Nat /\ MaxOffers \in Nat
    /\ \A S \in SUBSET Number : IsFiniteSet(S) /\ Cardinality(S) \in Nat
    /\ \A r, st : IsFiniteSet(Running(r, st)) /\ Cardinality(Running(r, st)) \in Nat
<1>1. MaxConcurrency \in Nat /\ MaxOffers \in Nat
  BY BrokerAssumption DEF BrokerAssumption
<1>2. IsFiniteSet(Number)
  BY <1>1, FS_Interval DEF Number
<1>3. ASSUME NEW S \in SUBSET Number PROVE IsFiniteSet(S) /\ Cardinality(S) \in Nat
  BY <1>2, FS_Subset, FS_CardinalityType
<1>4. ASSUME NEW r, NEW st
      PROVE  IsFiniteSet(Running(r, st)) /\ Cardinality(Running(r, st)) \in Nat
  <2>1. IsFiniteSet({r})
    BY FS_AddElement, FS_EmptySet
  <2>2. IsFiniteSet({r} \X Number)
    BY <1>2, <2>1, FS_Product
  <2>3. Running(r, st) \subseteq {r} \X Number
    BY DEF Running, Offer
  <2>4. QED
    BY <2>2, <2>3, FS_Subset, FS_CardinalityType
<1>5. QED
  BY <1>1, <1>3, <1>4

(* The offers of one sendOffers(). *)
NewOffers(i, n) == [j \in 1..n |-> <<"offer", i + j>>]

LEMMA NewOffersProperties ==
    ASSUME NEW i \in Nat, NEW n \in Nat, i + n <= MaxOffers
    PROVE  /\ NewOffers(i, n) \in Seq(Message)
           /\ \A k \in Number : /\ Has(NewOffers(i, n), OfferMsg(k)) => k > i /\ ~(k > i + n)
                                /\ Once(NewOffers(i, n), OfferMsg(k))
                                /\ ~Has(NewOffers(i, n), DoneMsg(k))
<1> DEFINE w == NewOffers(i, n)
<1>0. MaxOffers \in Nat
  BY FiniteFacts
<1>1. \A j \in 1..n : i + j \in Number
  BY <1>0 DEF Number
<1>2. w \in [1..n -> Message] /\ \A j \in 1..n : w[j] = <<"offer", i + j>>
  BY <1>1, MessageFacts DEF NewOffers
<1>3. w \in Seq(Message) /\ DOMAIN w = 1..n
  BY <1>2, SeqDef
<1> HIDE DEF w
<1>4. ASSUME NEW k \in Number
      PROVE  /\ Has(w, OfferMsg(k)) => k > i /\ ~(k > i + n)
             /\ Once(w, OfferMsg(k)) /\ ~Has(w, DoneMsg(k))
  <2>1. \A j \in 1..n : /\ w[j] = OfferMsg(k) => i + j = k
                        /\ w[j] # DoneMsg(k)
    BY <1>2 DEF OfferMsg, DoneMsg
  <2>2. k \in Nat
    BY DEF Number
  <2>3. Has(w, OfferMsg(k)) => k > i /\ ~(k > i + n)
    BY <1>3, <2>1, <2>2 DEF Has
  <2>4. Once(w, OfferMsg(k))
    BY <1>3, <2>1, <2>2 DEF Once
  <2>5. ~Has(w, DoneMsg(k))
    BY <1>3, <2>1 DEF Has
  <2>6. QED
    BY <2>3, <2>4, <2>5
<1>5. QED
  BY <1>3, <1>4 DEF w

(* sendOffers() of runner r, after the message sent. *)
OffersSent(r, status, sent) ==
    /\ open' \in [Runner -> SUBSET Number] /\ issued' \in [Runner -> 0..MaxOffers]
    /\ toBroker' \in [Runner -> Seq(Message)]
    /\ \A s \in Runner : s # r => /\ open'[s] = open[s] /\ issued'[s] = issued[s]
                                  /\ toBroker'[s] = toBroker[s]
    /\ \A s \in Runner, n \in Number : IssueMoves(s, n)
    /\ \A n \in Number : Has(toBroker'[r], DoneMsg(n)) =>
                             Has(toBroker[r], DoneMsg(n)) \/ Has(sent, DoneMsg(n))
    /\ Room(r, open[r], status) => Room(r, open'[r], status)

LEMMA SendOffersProperties ==
    ASSUME TypeOK, NEW r \in Runner, NEW status, NEW sent \in Seq(Message),
           \A n \in Number : ~Has(sent, OfferMsg(n)),
           sendOffers(r, open[r], status, sent)
    PROVE  OffersSent(r, status, sent)
<1> DEFINE busy == Cardinality(Running(r, status))
           i == issued[r]
<1>1. PICK stale \in SUBSET open[r] :
          LET fresh == open[r] \ stale
              room  == MaxConcurrency - (Cardinality(fresh) + busy)
              n     == IF canSend[r] /\ room > 0 THEN Lesser(room, MaxOffers - issued[r]) ELSE 0
              made  == issued[r] + 1 .. issued[r] + n
          IN  /\ open' = [open EXCEPT ![r] = fresh \cup made]
              /\ issued' = [issued EXCEPT ![r] = @ + n]
              /\ toBroker' = [toBroker EXCEPT ![r] = @ \o sent \o [j \in 1..n |-> <<"offer", issued[r] + j>>]]
  BY DEF sendOffers
<1> DEFINE fresh == open[r] \ stale
           room == MaxConcurrency - (Cardinality(fresh) + busy)
           n == IF canSend[r] /\ room > 0 THEN Lesser(room, MaxOffers - i) ELSE 0
           made == i + 1 .. i + n
<1>2. /\ open' = [open EXCEPT ![r] = fresh \cup made]
      /\ issued' = [issued EXCEPT ![r] = i + n]
      /\ toBroker' = [toBroker EXCEPT ![r] = (toBroker[r] \o sent) \o NewOffers(i, n)]
  <2>1. issued \in [Runner -> 0..MaxOffers] /\ toBroker \in [Runner -> Seq(Message)]
    BY DEF TypeOK
  <2>2. QED
    BY <1>1, <2>1 DEF NewOffers
<1>3. /\ open \in [Runner -> SUBSET Number] /\ issued \in [Runner -> 0..MaxOffers]
      /\ toBroker \in [Runner -> Seq(Message)] /\ toBroker[r] \in Seq(Message)
      /\ i \in 0..MaxOffers
  BY DEF TypeOK
<1>4. fresh \in SUBSET Number /\ open[r] \in SUBSET Number
  BY <1>3
<1>5. /\ busy \in Nat /\ Cardinality(fresh) \in Nat /\ IsFiniteSet(fresh)
      /\ MaxConcurrency \in Nat /\ MaxOffers \in Nat
      /\ Cardinality(open[r]) \in Nat /\ IsFiniteSet(open[r])
  BY <1>4, FiniteFacts
<1>6. Cardinality(fresh) <= Cardinality(open[r])
  <2>1. fresh \in SUBSET open[r]
    OBVIOUS
  <2> HIDE DEF fresh
  <2>2. QED
    BY <1>5, <2>1, FS_Subset
<1> HIDE DEF busy, fresh, i
<1>7. /\ n \in Nat /\ i \in Nat /\ i + n \in 0..MaxOffers
      /\ n = 0 \/ n <= room
  <2>1. room \in Int /\ MaxOffers - i \in Nat /\ i \in Nat
    BY <1>3, <1>5
  <2> HIDE DEF room
  <2>2. CASE ~(canSend[r] /\ room > 0)
    BY <1>5, <2>1, <2>2
  <2>3. CASE canSend[r] /\ room > 0
    BY <1>5, <2>1, <2>3 DEF Lesser
  <2>4. QED
    BY <2>2, <2>3
<1>8. n <= room \/ (n = 0 /\ room \in Int)
  BY <1>5, <1>7
<1> HIDE DEF n
<1>9. made \in SUBSET Number /\ \A k \in made : k > i /\ ~(k > i + n)
  BY <1>5, <1>7, SMTT(30) DEF Number
<1>10. IsFiniteSet(made) /\ Cardinality(made) = n
  <2> DEFINE a == i + 1
             b == i + n
  <2>1. a \in Int /\ b \in Int /\ made = a..b /\ (IF a > b THEN 0 ELSE b - a + 1) = n
    BY <1>7
  <2> HIDE DEF a, b, made
  <2>2. IsFiniteSet(a..b) /\ Cardinality(a..b) = IF a > b THEN 0 ELSE b - a + 1
    BY <2>1, FS_Interval
  <2>3. QED
    BY <2>1, <2>2
<1>11. Cardinality(fresh \cup made) <= Cardinality(fresh) + n
       /\ Cardinality(fresh \cup made) \in Nat
  <2> HIDE DEF made
  <2>1. /\ IsFiniteSet(fresh \cup made)
        /\ Cardinality(fresh \cup made) =
               Cardinality(fresh) + Cardinality(made) - Cardinality(fresh \cap made)
    BY <1>5, <1>10, FS_Union
  <2>2. fresh \cap made \in SUBSET fresh
    OBVIOUS
  <2>3. Cardinality(fresh \cap made) \in Nat
    BY <1>5, <2>2, FS_Subset, FS_CardinalityType
  <2>4. Cardinality(fresh \cup made) \in Nat
    BY <2>1, FS_CardinalityType
  <2>5. QED
    BY <1>5, <1>7, <1>10, <2>1, <2>3, <2>4
<1>12. /\ open' \in [Runner -> SUBSET Number] /\ open'[r] = fresh \cup made
       /\ \A s \in Runner : s # r => open'[s] = open[s]
  <2> HIDE DEF made
  <2>1. QED
    BY <1>2, <1>3, <1>4, <1>9
<1>13. /\ issued' \in [Runner -> 0..MaxOffers] /\ issued'[r] = i + n
       /\ \A s \in Runner : s # r => issued'[s] = issued[s]
  BY <1>2, <1>3, <1>7
<1> DEFINE w == toBroker[r]
           v == NewOffers(i, n)
<1>14. /\ v \in Seq(Message)
       /\ \A k \in Number : /\ Has(v, OfferMsg(k)) => k > i /\ ~(k > i + n)
                            /\ Once(v, OfferMsg(k)) /\ ~Has(v, DoneMsg(k))
  <2>1. i \in Nat /\ n \in Nat /\ i + n <= MaxOffers
    BY <1>5, <1>7
  <2>2. QED
    BY <2>1, NewOffersProperties
<1> HIDE DEF v
<1>15. w \in Seq(Message)
  BY <1>3
<1>16. toBroker' = [toBroker EXCEPT ![r] = (w \o sent) \o v]
  BY <1>2 DEF v
<1> HIDE DEF w
<1>17. ASSUME NEW m
       PROVE  /\ w \o sent \in Seq(Message)
              /\ Has(w \o sent, m) <=> Has(w, m) \/ Has(sent, m)
              /\ Once(w, m) /\ ~Has(sent, m) => Once(w \o sent, m)
  BY <1>15, ConcatHas
<1>18. ASSUME NEW m
       PROVE  /\ (w \o sent) \o v \in Seq(Message)
              /\ Has((w \o sent) \o v, m) <=> Has(w, m) \/ Has(sent, m) \/ Has(v, m)
              /\ Once(w \o sent, m) /\ ~Has(v, m) => Once((w \o sent) \o v, m)
              /\ ~Has(w \o sent, m) /\ Once(v, m) => Once((w \o sent) \o v, m)
  <2> DEFINE u == w \o sent
  <2>1. u \in Seq(Message) /\ (Has(u, m) <=> Has(w, m) \/ Has(sent, m))
    BY <1>17
  <2> HIDE DEF u
  <2>2. /\ u \o v \in Seq(Message) /\ (Has(u \o v, m) <=> Has(u, m) \/ Has(v, m))
        /\ Once(u, m) /\ ~Has(v, m) => Once(u \o v, m)
        /\ ~Has(u, m) /\ Once(v, m) => Once(u \o v, m)
    BY <1>14, <2>1, ConcatHas
  <2>3. QED
    BY <2>1, <2>2 DEF u
<1>19. /\ toBroker' \in [Runner -> Seq(Message)] /\ toBroker'[r] = (w \o sent) \o v
       /\ \A s \in Runner : s # r => toBroker'[s] = toBroker[s]
  BY <1>3, <1>16, <1>18
<1>20. ASSUME NEW k \in Number PROVE IssueMoves(r, k)
  <2>1. k \in open'[r] => k \in open[r] \/ (k > issued[r] /\ ~(k > issued'[r]))
    BY <1>9, <1>12, <1>13 DEF fresh, i
  <2>2. \/ Shrinks(toBroker'[r], toBroker[r], OfferMsg(k))
        \/ /\ k > issued[r] /\ ~(k > issued'[r])
           /\ ~Has(toBroker[r], OfferMsg(k)) => Once(toBroker'[r], OfferMsg(k))
    <3>1. CASE Has(v, OfferMsg(k))
      <4>1. k > i /\ ~(k > i + n)
        BY <1>14, <3>1
      <4>2. ~Has(w, OfferMsg(k)) => Once((w \o sent) \o v, OfferMsg(k))
        BY <1>14, <1>17, <1>18
      <4>3. QED
        BY <1>13, <1>19, <4>1, <4>2 DEF w, i
    <3>2. CASE ~Has(v, OfferMsg(k))
      <4>1. Shrinks((w \o sent) \o v, w, OfferMsg(k))
        BY <1>17, <1>18, <3>2 DEF Shrinks
      <4>2. QED
        BY <1>19, <4>1 DEF w
    <3>3. QED
      BY <3>1, <3>2
  <2>3. issued'[r] \in Nat /\ issued[r] <= issued'[r]
    BY <1>7, <1>13 DEF i
  <2>4. QED
    BY <2>1, <2>2, <2>3 DEF IssueMoves
<1>21. ASSUME NEW s \in Runner, s # r, NEW k \in Number PROVE IssueMoves(s, k)
  BY <1>3, <1>5, <1>12, <1>13, <1>19, <1>21 DEF IssueMoves, Shrinks
<1>22. \A k \in Number : Has(toBroker'[r], DoneMsg(k)) =>
           Has(toBroker[r], DoneMsg(k)) \/ Has(sent, DoneMsg(k))
  BY <1>14, <1>18, <1>19 DEF w
<1>23. Room(r, open[r], status) => Room(r, open'[r], status)
  <2>1. ASSUME Cardinality(open[r]) + busy <= MaxConcurrency
        PROVE  Cardinality(fresh \cup made) + busy <= MaxConcurrency
    <3> HIDE DEF made
    <3>1. QED
      BY <1>5, <1>6, <1>7, <1>8, <1>11, <2>1
  <2>2. QED
    BY <1>12, <2>1 DEF Room, busy
<1>24. QED
  BY <1>12, <1>13, <1>19, <1>20, <1>21, <1>22, <1>23 DEF OffersSent

(* A message of the broker is taken off the wire to runner r. *)
LEMMA GetsMessage ==
    ASSUME TypeOK, NEW r \in Runner, toRunner[r] # <<>>,
           toRunner' = [toRunner EXCEPT ![r] = Tail(@)]
    PROVE  /\ toRunner' \in [Runner -> Seq(Message)] /\ \A s \in Runner, n \in Number : Quiet(s, n)
           /\ Head(toRunner[r]) \in Message /\ Has(toRunner[r], Head(toRunner[r]))
           /\ \A m : m = Head(toRunner[r]) /\ Once(toRunner[r], m) => ~Has(toRunner'[r], m)
<1>1. toRunner \in [Runner -> Seq(Message)] /\ toRunner[r] \in Seq(Message)
  BY DEF TypeOK
<1>2. toRunner'[r] = Tail(toRunner[r]) /\ \A s \in Runner : s # r => toRunner'[s] = toRunner[s]
  BY <1>1
<1>3. /\ Tail(toRunner[r]) \in Seq(Message) /\ Head(toRunner[r]) \in Message
      /\ Has(toRunner[r], Head(toRunner[r]))
  BY <1>1, TailHas
<1>4. ASSUME NEW m
      PROVE  /\ Shrinks(toRunner'[r], toRunner[r], m)
             /\ m = Head(toRunner[r]) /\ Once(toRunner[r], m) => ~Has(toRunner'[r], m)
  BY <1>1, <1>2, TailHas DEF Shrinks
<1>5. \A s \in Runner, n \in Number : Quiet(s, n)
  BY <1>2, <1>4 DEF Shrinks, Quiet
<1>6. toRunner' \in [Runner -> Seq(Message)]
  BY <1>1, <1>3
<1>7. QED
  BY <1>3, <1>4, <1>5, <1>6

(* Fewer open offers and running tasks leave more room. *)
LEMMA RoomKept ==
    ASSUME TypeOK, NEW r \in Runner, NEW opened \in SUBSET open[r], NEW status,
           Room(r, open[r], run),
           \A o \in Offer : o[1] = r /\ status[o] \in Active => run[o] \in Active
    PROVE  Room(r, opened, status)
<1>1. open[r] \in SUBSET Number
  BY DEF TypeOK
<1>2. opened \in SUBSET Number
  BY <1>1
<1>3. Running(r, status) \in SUBSET Running(r, run)
  BY DEF Running
<1>4. /\ IsFiniteSet(open[r]) /\ Cardinality(open[r]) \in Nat /\ Cardinality(opened) \in Nat
      /\ IsFiniteSet(Running(r, run)) /\ Cardinality(Running(r, run)) \in Nat
      /\ Cardinality(Running(r, status)) \in Nat /\ MaxConcurrency \in Nat
  BY <1>1, <1>2, FiniteFacts
<1>5. Cardinality(opened) <= Cardinality(open[r])
  BY <1>4, FS_Subset
<1>6. Cardinality(Running(r, status)) <= Cardinality(Running(r, run))
  BY <1>3, <1>4, FS_Subset
<1>7. QED
  BY <1>4, <1>5, <1>6 DEF Room

(* A step without offers: tasks move on, open offers may be withdrawn. *)
LEMMA NoOfferMoves ==
    ASSUME BrokerInv, TypeOK', UNCHANGED <<known, offers, requests, phase, forReq, draining, call>>,
           issued' = issued, \A r \in Runner : open'[r] \subseteq open[r],
           \A r \in Runner, n \in Number :
               /\ RunMoves(r, n) /\ ResultMoves(r, n) /\ Quiet(r, n)
               /\ Shrinks(toBroker'[r], toBroker[r], OfferMsg(n)),
           \A o \in Offer : run'[o] \in Active => run[o] \in Active
    PROVE  RunnerMoves
<1>0. TypeOK /\ \A r \in Runner : Room(r, open[r], run)
  BY InvParts DEF OffersWithinCapacity, Room
<1>1. \A r \in Runner : Room(r, open'[r], run')
  BY <1>0, RoomKept
<1>2. ASSUME NEW r \in Runner, NEW n \in Number PROVE IssueMoves(r, n)
  <2>1. issued[r] \in Nat
    BY <1>0, FiniteFacts DEF TypeOK
  <2>2. QED
    BY <2>1 DEF IssueMoves
<1>3. QED
  BY <1>1, <1>2 DEF RunnerMoves

LEMMA ResultsKept ==
    ASSUME NEW r, NEW n, toBroker'[r] = toBroker[r]
    PROVE  ResultMoves(r, n) /\ Shrinks(toBroker'[r], toBroker[r], OfferMsg(n))
BY DEF ResultMoves, Shrinks

(* finishTask(): the slot of the task is free when the offers are counted. *)
LEMMA FinishMoves ==
    ASSUME BrokerInv, NEW o \in Offer, run[o] \in Active, NEW sent \in Seq(Message),
           \A n \in Number : ~Has(sent, OfferMsg(n)),
           \A n \in Number : Has(sent, DoneMsg(n)) => n = o[2] /\ run[o] \in Executing,
           finishTask(o, sent),
           UNCHANGED <<known, offers, requests, phase, forReq, draining, call, proc, canSend>>,
           toRunner' \in [Runner -> Seq(Message)], \A r \in Runner, n \in Number : Quiet(r, n)
    PROVE  RunnerMoves
<1> DEFINE r == o[1]
           st == IF run[o] = "waiting" THEN "dropped" ELSE "ran"
<1>0. TypeOK /\ \A s \in Runner : Room(s, open[s], run)
  BY InvParts DEF OffersWithinCapacity, Room
<1>1. r \in Runner /\ o[2] \in Number /\ o = <<r, o[2]>>
  BY OfferFacts
<1>2. run' = [run EXCEPT ![o] = st] /\ sendOffers(r, open[r], run', sent)
  BY <1>0 DEF finishTask, TypeOK
<1>3. /\ run' \in [Offer -> Status] /\ run'[o] = st /\ st \notin Active
      /\ \A b \in Offer : b # o => run'[b] = run[b]
  <2>1. run \in [Offer -> Status] /\ st \in Status /\ st \notin Active
    BY <1>0 DEF TypeOK, Status, Active, Executing
  <2> HIDE DEF st
  <2>2. QED
    BY <1>2, <2>1
<1>4. \A b \in Offer : run'[b] \in Active => run[b] \in Active
  BY <1>3
<1> HIDE DEF r, st
<1>5. OffersSent(r, run', sent)
  BY <1>0, <1>1, <1>2, SendOffersProperties
<1>6. ASSUME NEW s \in Runner PROVE Room(s, open'[s], run')
  <2>1. Room(s, open[s], run')
    BY <1>0, <1>4, RoomKept
  <2>2. QED
    BY <1>5, <2>1 DEF OffersSent
<1>7. ASSUME NEW s \in Runner, NEW n \in Number PROVE RunMoves(s, n)
  <2>1. CASE <<s, n>> = o
    BY <1>3, <2>1 DEF RunMoves, st, Active, Worked
  <2>2. CASE <<s, n>> # o
    BY <1>3, <2>2, OfferFacts DEF RunMoves
  <2>3. QED
    BY <2>1, <2>2
<1>8. ASSUME NEW s \in Runner, NEW n \in Number PROVE ResultMoves(s, n)
  <2>1. CASE s = r
    <3>1. Has(toBroker'[r], DoneMsg(n)) => Has(toBroker[r], DoneMsg(n)) \/ Has(sent, DoneMsg(n))
      BY <1>5 DEF OffersSent
    <3>2. Has(sent, DoneMsg(n)) => run'[<<r, n>>] = "ran"
      BY <1>1, <1>3 DEF st, Executing
    <3>3. QED
      BY <2>1, <3>1, <3>2 DEF ResultMoves
  <2>2. CASE s # r
    BY <1>5, <2>2 DEF OffersSent, ResultMoves
  <2>3. QED
    BY <2>1, <2>2
<1>9. TypeOK'
  BY <1>0, <1>3, <1>5 DEF TypeOK, OffersSent
<1>10. \A s \in Runner, n \in Number : IssueMoves(s, n)
  BY <1>5 DEF OffersSent
<1>11. QED
  BY <1>6, <1>7, <1>8, <1>9, <1>10 DEF RunnerMoves

(* One task changes its status without ending. *)
LEMMA StatusMoves ==
    ASSUME BrokerInv, NEW o \in Offer, NEW st \in Active, run[o] \in Active,
           run' = [run EXCEPT ![o] = st], RunMoves(o[1], o[2]),
           UNCHANGED <<known, offers, requests, phase, forReq, draining, call, proc, canSend,
                       issued, open, toBroker>>,
           toRunner' \in [Runner -> Seq(Message)], \A r \in Runner, n \in Number : Quiet(r, n)
    PROVE  RunnerMoves
<1>0. TypeOK
  BY InvParts
<1>1. /\ run' \in [Offer -> Status] /\ run'[o] = st
      /\ \A b \in Offer : b # o => run'[b] = run[b]
  BY <1>0 DEF TypeOK, Status
<1>2. TypeOK'
  BY <1>0, <1>1 DEF TypeOK
<1>3. \A b \in Offer : run'[b] \in Active => run[b] \in Active
  BY <1>1
<1>4. ASSUME NEW r \in Runner, NEW n \in Number
      PROVE  RunMoves(r, n) /\ ResultMoves(r, n) /\ Shrinks(toBroker'[r], toBroker[r], OfferMsg(n))
  <2>1. RunMoves(r, n)
    <3>1. CASE <<r, n>> = o
      BY <3>1
    <3>2. CASE <<r, n>> # o
      BY <1>1, <3>2, OfferFacts DEF RunMoves
    <3>3. QED
      BY <3>1, <3>2
  <2>2. QED
    BY <2>1, ResultsKept
<1>5. QED
  BY <1>2, <1>3, <1>4, NoOfferMoves

-----------------------------------------------------------------------------
(* The steps of a runner. *)

LEMMA IntervalMoves ==
    ASSUME BrokerInv, NEW r \in Runner, offerInterval(r) PROVE RunnerMoves
<1>0. TypeOK /\ \A s \in Runner : Room(s, open[s], run)
  BY InvParts DEF OffersWithinCapacity, Room
<1>1. /\ sendOffers(r, open[r], run, <<>>)
      /\ UNCHANGED <<known, offers, requests, phase, forReq, draining, call, proc, canSend, run,
                     toRunner>>
  BY DEF offerInterval, brokerVars
<1>2. <<>> \in Seq(Message) /\ \A m : ~Has(<<>>, m)
  BY DEF Has
<1>3. OffersSent(r, run, <<>>)
  BY <1>0, <1>1, <1>2, SendOffersProperties
<1>4. TypeOK'
  BY <1>0, <1>1, <1>3 DEF TypeOK, OffersSent
<1>5. \A s \in Runner : Room(s, open'[s], run')
  BY <1>0, <1>1, <1>3 DEF OffersSent
<1>6. ASSUME NEW s \in Runner, NEW n \in Number
      PROVE  RunMoves(s, n) /\ ResultMoves(s, n) /\ IssueMoves(s, n)
  BY <1>1, <1>2, <1>3 DEF OffersSent, RunMoves, ResultMoves
<1>7. \A s \in Runner, n \in Number : Quiet(s, n)
  BY <1>0, <1>1, QuietKept
<1>8. QED
  BY <1>1, <1>4, <1>5, <1>6, <1>7 DEF RunnerMoves

(* Messages, and stop(), that only switch the offers on or off. *)
LEMMA SwitchMoves ==
    ASSUME BrokerInv, NEW r \in Runner, startTaskOffers(r) \/ stopTaskOffers(r) \/ stop(r)
    PROVE  RunnerMoves
<1>0. TypeOK
  BY InvParts
<1>1. /\ UNCHANGED <<known, offers, requests, phase, forReq, draining, call, issued, run, toBroker>>
      /\ proc' \in [Runner -> Proc] /\ canSend' \in [Runner -> BOOLEAN]
      /\ open' \in [Runner -> SUBSET Number] /\ \A s \in Runner : open'[s] \subseteq open[s]
  BY <1>0 DEF startTaskOffers, stopTaskOffers, stop, brokerVars, wires, TypeOK, Proc
<1>2. toRunner' \in [Runner -> Seq(Message)] /\ \A s \in Runner, n \in Number : Quiet(s, n)
  <2>1. CASE stop(r)
    BY <1>0, <2>1, QuietKept DEF stop, wires, TypeOK
  <2>2. CASE startTaskOffers(r) \/ stopTaskOffers(r)
    <3>1. toRunner[r] # <<>> /\ toRunner' = [toRunner EXCEPT ![r] = Tail(@)]
      BY <2>2 DEF startTaskOffers, stopTaskOffers, Gets
    <3>2. QED
      BY <1>0, <3>1, GetsMessage
  <2>3. QED
    BY <2>1, <2>2
<1>3. TypeOK'
  BY <1>0, <1>1, <1>2 DEF TypeOK
<1>4. \A s \in Runner, n \in Number :
          RunMoves(s, n) /\ ResultMoves(s, n) /\ Shrinks(toBroker'[s], toBroker[s], OfferMsg(n))
  BY <1>1 DEF RunMoves, ResultMoves, Shrinks
<1>5. QED
  BY <1>1, <1>2, <1>3, <1>4, NoOfferMoves

LEMMA AppendKeepsWire ==
    ASSUME NEW w \in Seq(Message), NEW e \in Message, NEW m, m # e
    PROVE  Append(w, e) \in Seq(Message) /\ Shrinks(Append(w, e), w, m)
<1>1. Append(w, e) = w \o <<e>> /\ <<e>> \in Seq(Message)
  BY AppendIsConcat
<1>2. ~Has(<<e>>, m)
  BY SingleHas
<1> DEFINE v == <<e>>
<1>3. v \in Seq(Message) /\ ~Has(v, m)
  BY <1>1, <1>2
<1> HIDE DEF v
<1>4. w \o v \in Seq(Message) /\ Shrinks(w \o v, w, m)
  BY <1>3, ConcatHas DEF Shrinks
<1>5. QED
  BY <1>1, <1>4 DEF v

LEMMA OfferAcceptedMoves ==
    ASSUME BrokerInv, NEW r \in Runner, offerAccepted(r) PROVE RunnerMoves
<1> DEFINE n == Head(toRunner[r])[2]
           o == <<r, n>>
           taken == proc[r] = "up" /\ hasOpenTaskSlots(r) /\ n \in open[r]
           e == <<IF taken THEN "accepted" ELSE "rejected", n>>
<1>0. TypeOK /\ NumberInv /\ \A s \in Runner : Room(s, open[s], run)
  BY InvParts DEF OffersWithinCapacity, Room
<1>1. /\ toRunner[r] # <<>> /\ Head(toRunner[r])[1] = "accept"
      /\ toRunner' = [toRunner EXCEPT ![r] = Tail(@)]
      /\ open' = IF proc[r] = "up" THEN [open EXCEPT ![r] = @ \ {n}] ELSE open
      /\ run' = IF taken THEN [run EXCEPT ![o] = "waiting"] ELSE run
      /\ toBroker' = [toBroker EXCEPT ![r] = Append(@, e)]
      /\ UNCHANGED <<known, offers, requests, phase, forReq, draining, call, proc, canSend, issued>>
  BY DEF offerAccepted, Gets, brokerVars
<1>2. /\ toRunner' \in [Runner -> Seq(Message)] /\ \A s \in Runner, m \in Number : Quiet(s, m)
      /\ Head(toRunner[r]) \in Message
  BY <1>0, <1>1, GetsMessage
<1>3. n \in Number /\ o \in Offer
  BY <1>1, <1>2, MessageFacts, OfferFacts
<1>4. e \in Message /\ \A m : OfferMsg(m) # e /\ DoneMsg(m) # e
  BY <1>3, MessageFacts DEF OfferMsg, DoneMsg
<1>5. taken => n \in open[r] /\ proc[r] = "up"
  OBVIOUS
<1> HIDE DEF n, taken, e
<1>6. /\ open' \in [Runner -> SUBSET Number] /\ \A s \in Runner : open'[s] \subseteq open[s]
      /\ \A s \in Runner : s # r => open'[s] = open[s]
      /\ proc[r] = "up" => open'[r] = open[r] \ {n}
  BY <1>0, <1>1 DEF TypeOK
<1>7. toBroker \in [Runner -> Seq(Message)] /\ toBroker[r] \in Seq(Message)
  BY <1>0 DEF TypeOK
<1>8. ASSUME NEW m
      PROVE  /\ Append(toBroker[r], e) \in Seq(Message)
             /\ Shrinks(Append(toBroker[r], e), toBroker[r], OfferMsg(m))
             /\ Shrinks(Append(toBroker[r], e), toBroker[r], DoneMsg(m))
  BY <1>4, <1>7, AppendKeepsWire
<1>9. /\ toBroker' \in [Runner -> Seq(Message)] /\ toBroker'[r] = Append(toBroker[r], e)
      /\ \A s \in Runner : s # r => toBroker'[s] = toBroker[s]
  BY <1>1, <1>7, <1>8
<1>10. ASSUME NEW s \in Runner, NEW m \in Number
       PROVE  Shrinks(toBroker'[s], toBroker[s], OfferMsg(m)) /\ ResultMoves(s, m)
  <2>1. CASE s = r
    BY <1>8, <1>9, <2>1 DEF ResultMoves, Shrinks
  <2>2. CASE s # r
    BY <1>9, <2>2 DEF ResultMoves, Shrinks
  <2>3. QED
    BY <2>1, <2>2
<1>11. run \in [Offer -> Status] /\ "waiting" \in Status
  BY <1>0 DEF TypeOK, Status, Active
<1> HIDE DEF o
<1>12. CASE taken
  <2>1. /\ run' \in [Offer -> Status] /\ run'[o] = "waiting"
        /\ \A b \in Offer : b # o => run'[b] = run[b]
    BY <1>1, <1>3, <1>11, <1>12
  <2>2. TypeOK'
    BY <1>0, <1>1, <1>2, <1>6, <1>9, <2>1 DEF TypeOK
  <2>3. n \in open[r] /\ open'[r] = open[r] \ {n}
    BY <1>5, <1>6, <1>12
  <2>4. ASSUME NEW s \in Runner, NEW m \in Number PROVE RunMoves(s, m)
    <3>1. CASE <<s, m>> = o
      <4>1. s = r /\ m = n
        BY <3>1 DEF o
      <4>2. QED
        BY <2>1, <2>3, <3>1, <4>1 DEF RunMoves
    <3>2. CASE <<s, m>> # o
      BY <2>1, <3>2, OfferFacts DEF RunMoves
    <3>3. QED
      BY <3>1, <3>2
  <2>5. ASSUME NEW s \in Runner, NEW m \in Number PROVE IssueMoves(s, m)
    <3>1. issued[s] \in Nat
      BY <1>0, FiniteFacts DEF TypeOK
    <3>2. QED
      BY <1>1, <1>6, <1>10, <3>1 DEF IssueMoves
  <2>6. Room(r, open'[r], run')
    <3>1. open[r] \in SUBSET Number
      BY <1>0 DEF TypeOK
    <3>2. Running(r, run') = Running(r, run) \cup {o}
      <4>1. o[1] = r /\ "waiting" \in Active
        BY <1>3, OfferFacts DEF o, Active
      <4>2. QED
        BY <1>3, <2>1, <4>1 DEF Running
    <3>3. /\ IsFiniteSet(open[r]) /\ Cardinality(open[r]) \in Nat
          /\ IsFiniteSet(Running(r, run)) /\ Cardinality(Running(r, run)) \in Nat
          /\ MaxConcurrency \in Nat
      BY <3>1, FiniteFacts
    <3>4. Cardinality(open[r] \ {n}) = Cardinality(open[r]) - 1
      BY <2>3, <3>3, FS_RemoveElement
    <3>5. \/ Cardinality(Running(r, run) \cup {o}) = Cardinality(Running(r, run))
          \/ Cardinality(Running(r, run) \cup {o}) = Cardinality(Running(r, run)) + 1
      BY <3>3, FS_AddElement
    <3>6. Cardinality(open[r]) + Cardinality(Running(r, run)) <= MaxConcurrency
      BY <1>0 DEF Room
    <3>7. QED
      BY <2>3, <3>2, <3>3, <3>4, <3>5, <3>6 DEF Room
  <2>7. ASSUME NEW s \in Runner, s # r PROVE Room(s, open'[s], run')
    <3>1. \A b \in Offer : b[1] = s /\ run'[b] \in Active => run[b] \in Active
      <4>1. o[1] = r
        BY <1>3, OfferFacts DEF o
      <4>2. QED
        BY <2>1, <2>7, <4>1
    <3>2. QED
      BY <1>0, <1>6, <3>1, RoomKept
  <2>8. QED
    BY <1>1, <1>2, <1>10, <2>2, <2>4, <2>5, <2>6, <2>7 DEF RunnerMoves
<1>13. CASE ~taken
  <2>1. run' = run
    BY <1>1, <1>13
  <2>2. TypeOK'
    BY <1>0, <1>1, <1>2, <1>6, <1>9, <2>1 DEF TypeOK
  <2>3. \A s \in Runner, m \in Number : RunMoves(s, m)
    BY <2>1 DEF RunMoves
  <2>4. QED
    BY <1>1, <1>2, <1>6, <1>10, <2>1, <2>2, <2>3, NoOfferMoves
<1>14. QED
  BY <1>12, <1>13

(* Nothing but the wire to the runner changes. *)
LEMMA IdleMoves ==
    ASSUME BrokerInv,
           UNCHANGED <<known, offers, requests, phase, forReq, draining, call, proc, canSend,
                       issued, open, run, toBroker>>,
           toRunner' \in [Runner -> Seq(Message)], \A r \in Runner, n \in Number : Quiet(r, n)
    PROVE  RunnerMoves
<1>1. TypeOK'
  BY InvParts DEF TypeOK
<1>2. \A r \in Runner, n \in Number :
          RunMoves(r, n) /\ ResultMoves(r, n) /\ Shrinks(toBroker'[r], toBroker[r], OfferMsg(n))
  BY DEF RunMoves, ResultMoves, Shrinks
<1>3. QED
  BY <1>1, <1>2, NoOfferMoves

LEMMA CancelledMoves ==
    ASSUME BrokerInv, NEW r \in Runner, taskCancelled(r) PROVE RunnerMoves
<1> DEFINE o == <<r, Head(toRunner[r])[2]>>
<1>0. TypeOK
  BY InvParts
<1>1. /\ toRunner[r] # <<>> /\ Head(toRunner[r])[1] = "cancel"
      /\ toRunner' = [toRunner EXCEPT ![r] = Tail(@)]
      /\ UNCHANGED <<known, offers, requests, phase, forReq, draining, call, proc, canSend>>
      /\ IF run[o] = "waiting" THEN finishTask(o, <<>>)
         ELSE /\ run' = IF run[o] = "running" THEN [run EXCEPT ![o] = "cancelled"] ELSE run
              /\ UNCHANGED <<issued, open, toBroker>>
  BY DEF taskCancelled, Gets, brokerVars
<1>2. /\ toRunner' \in [Runner -> Seq(Message)] /\ \A s \in Runner, m \in Number : Quiet(s, m)
      /\ Head(toRunner[r]) \in Message
  BY <1>0, <1>1, GetsMessage
<1>3. o \in Offer
  BY <1>1, <1>2, MessageFacts, OfferFacts
<1> HIDE DEF o
<1>4. CASE run[o] = "waiting"
  <2>1. finishTask(o, <<>>) /\ run[o] \in Active
    BY <1>1, <1>4 DEF Active
  <2>2. <<>> \in Seq(Message) /\ \A m : ~Has(<<>>, m)
    BY DEF Has
  <2>3. QED
    BY <1>1, <1>2, <1>3, <2>1, <2>2, FinishMoves
<1>5. CASE run[o] = "running"
  <2>1. /\ run' = [run EXCEPT ![o] = "cancelled"] /\ UNCHANGED <<issued, open, toBroker>>
        /\ "cancelled" \in Active /\ run[o] \in Active
    BY <1>1, <1>5 DEF Active, Executing
  <2>2. RunMoves(o[1], o[2])
    <3>1. <<o[1], o[2]>> = o /\ run'[o] = "cancelled"
      BY <1>0, <1>3, <2>1, OfferFacts DEF TypeOK
    <3>2. QED
      BY <1>5, <3>1 DEF RunMoves, Executing, Worked
  <2>3. QED
    BY <1>1, <1>2, <1>3, <2>1, <2>2, StatusMoves
<1>6. CASE run[o] \notin {"waiting", "running"}
  <2>1. UNCHANGED <<run, issued, open, toBroker>>
    BY <1>1, <1>6
  <2>2. QED
    BY <1>1, <1>2, <2>1, IdleMoves
<1>7. QED
  BY <1>4, <1>5, <1>6

LEMMA ReceivedSettingsMoves ==
    ASSUME BrokerInv, NEW r \in Runner, receivedSettings(r) PROVE RunnerMoves
<1> DEFINE n == Head(toRunner[r])[2]
           o == <<r, n>>
<1>0. TypeOK /\ SettingsInv
  BY InvParts
<1>1. /\ toRunner[r] # <<>> /\ Head(toRunner[r])[1] = "settings"
      /\ toRunner' = [toRunner EXCEPT ![r] = Tail(@)]
      /\ run' = IF run[o] = "waiting" THEN [run EXCEPT ![o] = "running"] ELSE run
      /\ UNCHANGED <<known, offers, requests, phase, forReq, draining, call, proc, canSend, issued,
                     open, toBroker>>
  BY DEF receivedSettings, Gets, brokerVars
<1>2. /\ toRunner' \in [Runner -> Seq(Message)] /\ \A s \in Runner, m \in Number : Quiet(s, m)
      /\ Head(toRunner[r]) \in Message /\ Has(toRunner[r], Head(toRunner[r]))
      /\ \A m : m = Head(toRunner[r]) /\ Once(toRunner[r], m) => ~Has(toRunner'[r], m)
  BY <1>0, <1>1, GetsMessage
<1>3. n \in Number /\ o \in Offer /\ Head(toRunner[r]) = SettingsMsg(n)
  BY <1>1, <1>2, MessageFacts, OfferFacts DEF SettingsMsg
<1>4. Has(toRunner[r], SettingsMsg(n)) /\ ~Has(toRunner'[r], SettingsMsg(n))
  BY <1>0, <1>2, <1>3 DEF SettingsInv
<1>5. o[1] = r /\ o[2] = n
  OBVIOUS
<1> HIDE DEF n
<1>6. CASE run[o] = "waiting"
  <2>1. run' = [run EXCEPT ![o] = "running"] /\ "running" \in Active /\ run[o] \in Active
    BY <1>1, <1>6 DEF Active, Executing
  <2>2. RunMoves(r, n)
    <3>1. run'[o] = "running"
      BY <1>0, <1>3, <2>1 DEF TypeOK
    <3>2. QED
      BY <1>4, <1>6, <3>1 DEF RunMoves
  <2> HIDE DEF o
  <2>3. RunMoves(o[1], o[2])
    BY <1>5, <2>2
  <2>4. QED
    BY <1>1, <1>2, <1>3, <2>1, <2>3, StatusMoves
<1>7. CASE run[o] # "waiting"
  BY <1>1, <1>2, <1>7, IdleMoves
<1>8. QED
  BY <1>6, <1>7

(* The messages of the end of a task. *)
LEMMA EndMessages ==
    ASSUME NEW k \in {"done", "error"}, NEW n \in Number
    PROVE  /\ <<<<k, n>>>> \in Seq(Message)
           /\ \A m : ~Has(<<<<k, n>>>>, OfferMsg(m))
           /\ \A m : Has(<<<<k, n>>>>, DoneMsg(m)) => m = n /\ k = "done"
<1> DEFINE e == <<k, n>>
<1>1. e \in Message
  BY MessageFacts
<1>2. \A m : OfferMsg(m) # e /\ (DoneMsg(m) = e => m = n /\ k = "done")
  BY DEF OfferMsg, DoneMsg
<1> HIDE DEF e
<1>3. <<e>> \in Seq(Message) /\ \A m : Has(<<e>>, m) <=> m = e
  BY <1>1, SingleHas
<1>4. /\ <<e>> \in Seq(Message) /\ \A m : ~Has(<<e>>, OfferMsg(m))
      /\ \A m : Has(<<e>>, DoneMsg(m)) => m = n /\ k = "done"
  BY <1>2, <1>3
<1>5. QED
  BY <1>4 DEF e

LEMMA TimedOutMoves ==
    ASSUME BrokerInv, NEW o \in Offer, taskTimedOut(o) PROVE RunnerMoves
<1>0. TypeOK
  BY InvParts
<1>1. /\ run[o] \in {"waiting", "running"}
      /\ UNCHANGED <<known, offers, requests, phase, forReq, draining, call, proc, canSend, toRunner>>
      /\ IF run[o] = "waiting" THEN finishTask(o, <<<<"error", o[2]>>>>)
         ELSE run' = [run EXCEPT ![o] = "timeout"] /\ UNCHANGED <<issued, open, toBroker>>
  BY DEF taskTimedOut, brokerVars
<1>2. toRunner' \in [Runner -> Seq(Message)] /\ \A s \in Runner, m \in Number : Quiet(s, m)
  BY <1>0, <1>1, QuietKept DEF TypeOK
<1>3. CASE run[o] = "waiting"
  <2> DEFINE sent == <<<<"error", o[2]>>>>
  <2>1. /\ sent \in Seq(Message) /\ \A m : ~Has(sent, OfferMsg(m)) /\ ~Has(sent, DoneMsg(m))
    BY OfferFacts, EndMessages
  <2>2. finishTask(o, sent) /\ run[o] \in Active
    BY <1>1, <1>3 DEF Active
  <2> HIDE DEF sent
  <2>3. QED
    BY <1>1, <1>2, <2>1, <2>2, FinishMoves
<1>4. CASE run[o] = "running"
  <2>1. /\ run' = [run EXCEPT ![o] = "timeout"] /\ UNCHANGED <<issued, open, toBroker>>
        /\ "timeout" \in Active /\ run[o] \in Active
    BY <1>1, <1>4 DEF Active, Executing
  <2>2. RunMoves(o[1], o[2])
    <3>1. <<o[1], o[2]>> = o /\ run'[o] = "timeout"
      BY <1>0, <2>1, OfferFacts DEF TypeOK
    <3>2. QED
      BY <1>4, <3>1 DEF RunMoves, Executing, Worked
  <2>3. QED
    BY <1>1, <1>2, <2>1, <2>2, StatusMoves
<1>5. QED
  BY <1>1, <1>3, <1>4

LEMMA ExecutionEndsMoves ==
    ASSUME BrokerInv, NEW o \in Offer, executionEnds(o) PROVE RunnerMoves
<1>0. TypeOK
  BY InvParts
<1>1. /\ run[o] \in Executing
      /\ UNCHANGED <<known, offers, requests, phase, forReq, draining, call, proc, canSend, toRunner>>
  BY DEF executionEnds, brokerVars
<1>2. PICK kind \in {"done", "error"} :
          finishTask(o, IF run[o] = "cancelled" THEN <<>> ELSE <<<<kind, o[2]>>>>)
  BY DEF executionEnds
<1> DEFINE sent == IF run[o] = "cancelled" THEN <<>> ELSE <<<<kind, o[2]>>>>
<1>3. toRunner' \in [Runner -> Seq(Message)] /\ \A s \in Runner, m \in Number : Quiet(s, m)
  BY <1>0, <1>1, QuietKept DEF TypeOK
<1>4. /\ sent \in Seq(Message) /\ \A m : ~Has(sent, OfferMsg(m))
      /\ \A m : Has(sent, DoneMsg(m)) => m = o[2]
  <2>1. <<>> \in Seq(Message) /\ \A m : ~Has(<<>>, m)
    BY DEF Has
  <2>2. /\ <<<<kind, o[2]>>>> \in Seq(Message) /\ \A m : ~Has(<<<<kind, o[2]>>>>, OfferMsg(m))
        /\ \A m : Has(<<<<kind, o[2]>>>>, DoneMsg(m)) => m = o[2]
    BY OfferFacts, EndMessages
  <2>3. QED
    BY <2>1, <2>2
<1>5. finishTask(o, sent) /\ run[o] \in Active
  BY <1>1, <1>2 DEF Active
<1> HIDE DEF sent
<1>6. QED
  BY <1>1, <1>3, <1>4, <1>5, FinishMoves

(* The end of a process, with what of its messages has left it. *)
LEMMA ExitMoves ==
    ASSUME BrokerInv, NEW r \in Runner, Exits(r),
           toBroker' \in [Runner -> Seq(Message)],
           \A s \in Runner, n \in Number : /\ Shrinks(toBroker'[s], toBroker[s], OfferMsg(n))
                                           /\ Shrinks(toBroker'[s], toBroker[s], DoneMsg(n))
    PROVE  RunnerMoves
<1>0. TypeOK
  BY InvParts
<1>1. /\ proc' = [proc EXCEPT ![r] = "gone"] /\ canSend' = [canSend EXCEPT ![r] = FALSE]
      /\ open' = [open EXCEPT ![r] = {}] /\ toRunner' = [toRunner EXCEPT ![r] = <<>>]
      /\ run' = [o \in Offer |->
             IF o[1] = r /\ run[o] \in Executing THEN "ran"
             ELSE IF o[1] = r /\ run[o] = "waiting" THEN "dropped" ELSE run[o]]
      /\ UNCHANGED <<known, offers, requests, phase, forReq, draining, call, issued>>
  BY DEF Exits, brokerVars
<1>2. /\ run' \in [Offer -> Status]
      /\ \A o \in Offer : \/ run'[o] = run[o]
                          \/ run[o] \in Executing /\ run'[o] = "ran"
                          \/ run[o] = "waiting" /\ run'[o] = "dropped"
  BY <1>0, <1>1 DEF TypeOK, Status
<1>3. /\ open' \in [Runner -> SUBSET Number] /\ \A s \in Runner : open'[s] \subseteq open[s]
      /\ proc' \in [Runner -> Proc] /\ canSend' \in [Runner -> BOOLEAN]
  BY <1>0, <1>1 DEF TypeOK, Proc
<1>4. toRunner' \in [Runner -> Seq(Message)] /\ \A s \in Runner, n \in Number : Quiet(s, n)
  <2>1. \A m : ~Has(<<>>, m) /\ Once(<<>>, m)
    BY DEF Has, Once
  <2>2. /\ toRunner' \in [Runner -> Seq(Message)] /\ toRunner'[r] = <<>>
        /\ \A s \in Runner : s # r => toRunner'[s] = toRunner[s]
    BY <1>0, <1>1 DEF TypeOK
  <2>3. QED
    BY <2>1, <2>2 DEF Quiet, Shrinks
<1>5. TypeOK'
  BY <1>0, <1>1, <1>2, <1>3, <1>4 DEF TypeOK
<1>6. \A o \in Offer : run'[o] \in Active => run[o] \in Active
  BY <1>2 DEF Active, Executing
<1>7. \A s \in Runner, n \in Number : RunMoves(s, n) /\ ResultMoves(s, n)
  BY <1>2, OfferFacts DEF RunMoves, ResultMoves, Shrinks, Worked
<1>8. QED
  BY <1>1, <1>3, <1>4, <1>5, <1>6, <1>7, NoOfferMoves

LEMMA LeaveMoves ==
    ASSUME BrokerInv, NEW r \in Runner, closeConnection(r) \/ onConnectionClose(r) \/ crash(r)
    PROVE  RunnerMoves
<1>0. TypeOK
  BY InvParts
<1>1. CASE Exits(r) /\ UNCHANGED toBroker
  <2>1. toBroker' \in [Runner -> Seq(Message)]
    BY <1>0, <1>1 DEF TypeOK
  <2>2. \A s \in Runner : \A m : Shrinks(toBroker'[s], toBroker[s], m)
    BY <1>1 DEF Shrinks
  <2>3. QED
    BY <1>1, <2>1, <2>2, ExitMoves
<1>2. CASE crash(r)
  <2>1. PICK k \in 0..Len(toBroker[r]) : toBroker' = [toBroker EXCEPT ![r] = SubSeq(@, 1, k)]
    BY <1>2 DEF crash
  <2>2. toBroker \in [Runner -> Seq(Message)] /\ toBroker[r] \in Seq(Message) /\ Exits(r)
    BY <1>0, <1>2 DEF TypeOK, crash
  <2>3. ASSUME NEW m
        PROVE  /\ SubSeq(toBroker[r], 1, k) \in Seq(Message)
               /\ Shrinks(SubSeq(toBroker[r], 1, k), toBroker[r], m)
    BY <2>2, PrefixHas DEF Shrinks
  <2>4. /\ toBroker' \in [Runner -> Seq(Message)] /\ toBroker'[r] = SubSeq(toBroker[r], 1, k)
        /\ \A s \in Runner : s # r => toBroker'[s] = toBroker[s]
    BY <2>1, <2>2, <2>3
  <2>5. \A s \in Runner : \A m : Shrinks(toBroker'[s], toBroker[s], m)
    BY <2>3, <2>4 DEF Shrinks
  <2>6. QED
    BY <2>2, <2>4, <2>5, ExitMoves
<1>3. CASE onConnectionClose(r) /\ proc[r] # "up"
  <2>1. /\ toRunner[r] # <<>> /\ toRunner' = [toRunner EXCEPT ![r] = Tail(@)]
        /\ UNCHANGED <<known, offers, requests, phase, forReq, draining, call, proc, canSend,
                       issued, open, run, toBroker>>
    BY <1>3 DEF onConnectionClose, brokerVars, runnerVars
  <2>2. toRunner' \in [Runner -> Seq(Message)] /\ \A s \in Runner, m \in Number : Quiet(s, m)
    BY <1>0, <2>1, GetsMessage
  <2>3. QED
    BY <2>1, <2>2, IdleMoves
<1>4. QED
  BY <1>1, <1>2, <1>3 DEF closeConnection, onConnectionClose

-----------------------------------------------------------------------------
(* Whatever a step of a runner does within these bounds keeps the invariant. *)

LEMMA RunnerKeepsOffers ==
    ASSUME BrokerInv, RunnerMoves PROVE NumberInv' /\ OfferInv'
<1>0. NumberInv /\ OfferInv /\ TypeOK
  BY InvParts
<1>1. /\ UNCHANGED <<offers, phase>>
      /\ \A r \in Runner, n \in Number : RunMoves(r, n) /\ IssueMoves(r, n)
  BY DEF RunnerMoves
<1>2. ASSUME NEW r \in Runner, NEW n \in Number
      PROVE  /\ n > issued'[r] => /\ ~Has(toBroker'[r], OfferMsg(n)) /\ n \notin open'[r]
                                  /\ <<r, n>> \notin ToSet(offers)
                                  /\ phase[<<r, n>>] = "free" /\ run'[<<r, n>>] = "none"
             /\ n \in open'[r] => run'[<<r, n>>] = "none"
             /\ Once(toBroker'[r], OfferMsg(n))
             /\ Has(toBroker'[r], OfferMsg(n)) =>
                    <<r, n>> \notin ToSet(offers) /\ phase[<<r, n>>] = "free"
  <2>1. /\ n > issued[r] => /\ ~Has(toBroker[r], OfferMsg(n)) /\ n \notin open[r]
                            /\ <<r, n>> \notin ToSet(offers)
                            /\ phase[<<r, n>>] = "free" /\ run[<<r, n>>] = "none"
        /\ n \in open[r] => run[<<r, n>>] = "none"
        /\ Once(toBroker[r], OfferMsg(n))
        /\ Has(toBroker[r], OfferMsg(n)) =>
               <<r, n>> \notin ToSet(offers) /\ phase[<<r, n>>] = "free"
    BY <1>0 DEF NumberInv, OfferInv
  <2>2. RunMoves(r, n) /\ IssueMoves(r, n)
    BY <1>1
  <2>3. n > issued'[r] => n > issued[r]
    <3>1. n \in Nat /\ issued[r] \in Nat
      BY <1>0, BrokerAssumption DEF TypeOK, Number
    <3>2. QED
      BY <2>2, <3>1 DEF IssueMoves
  <2>4. run[<<r, n>>] = "none" /\ n \notin open[r] => run'[<<r, n>>] = "none"
    BY <2>2 DEF RunMoves, Executing
  <2>5. run[<<r, n>>] = "none" /\ n \in open'[r] => run'[<<r, n>>] = "none"
    BY <2>2 DEF RunMoves, Executing
  <2>6. /\ n > issued'[r] => ~Has(toBroker'[r], OfferMsg(n)) /\ n \notin open'[r]
        /\ Once(toBroker'[r], OfferMsg(n))
        /\ Has(toBroker'[r], OfferMsg(n)) =>
               <<r, n>> \notin ToSet(offers) /\ phase[<<r, n>>] = "free"
        /\ n \in open'[r] => n \in open[r] \/ n > issued[r]
    BY <2>1, <2>2, <2>3 DEF IssueMoves, Shrinks
  <2>7. QED
    BY <2>1, <2>3, <2>4, <2>5, <2>6
<1>3. NumberInv'
  BY <1>1, <1>2 DEF NumberInv
<1>4. OfferInv'
  BY <1>0, <1>1, <1>2 DEF OfferInv
<1>5. QED
  BY <1>3, <1>4

(* A runner works on what it was given, and starts it by taking the settings. *)
LEMMA RunnerKeepsTask ==
    ASSUME BrokerInv, RunnerMoves, NEW r \in Runner, NEW n \in Number
    PROVE  /\ Given(r, n)' => Given(r, n)
           /\ Once(toRunner'[r], SettingsMsg(n))
           /\ Has(toRunner'[r], SettingsMsg(n)) => run'[<<r, n>>] \notin Worked
           /\ run[<<r, n>>] \in Worked => run'[<<r, n>>] \in Worked
           /\ run[<<r, n>>] = "ran" => run'[<<r, n>>] = "ran"
           /\ run'[<<r, n>>] = "ran" => run[<<r, n>>] \in Worked
<1>1. RunMoves(r, n) /\ Quiet(r, n)
  BY DEF RunnerMoves
<1>2. /\ Once(toRunner[r], SettingsMsg(n))
      /\ Has(toRunner[r], SettingsMsg(n)) => run[<<r, n>>] \notin Worked
  BY InvParts DEF SettingsInv
<1>3. n \in open[r] => run[<<r, n>>] = "none"
  BY InvParts DEF NumberInv
<1>4. /\ Has(toRunner'[r], SettingsMsg(n)) => Has(toRunner[r], SettingsMsg(n))
      /\ Once(toRunner'[r], SettingsMsg(n))
  BY <1>1, <1>2 DEF Quiet, Shrinks
<1>5. run'[<<r, n>>] \in Worked =>
          \/ run[<<r, n>>] \in Worked
          \/ Has(toRunner[r], SettingsMsg(n)) /\ ~Has(toRunner'[r], SettingsMsg(n))
  BY <1>1 DEF RunMoves, Worked, Executing
<1>6. /\ run[<<r, n>>] \in Worked => run'[<<r, n>>] \in Worked
      /\ run[<<r, n>>] = "ran" => run'[<<r, n>>] = "ran"
      /\ run'[<<r, n>>] = "ran" => run[<<r, n>>] \in Worked
  BY <1>1, <1>3 DEF RunMoves, Worked, Executing
<1>7. QED
  BY <1>2, <1>4, <1>5, <1>6 DEF Given

LEMMA RunnerKeepsSettings ==
    ASSUME BrokerInv, RunnerMoves PROVE SettingsInv' /\ GivenInv'
<1>0. SettingsInv /\ GivenInv
  BY InvParts
<1>1. UNCHANGED <<requests, phase, forReq, call>>
  BY DEF RunnerMoves
<1>2. \A r \in Runner, n \in Number :
          /\ Given(r, n)' => Given(r, n)
          /\ Once(toRunner'[r], SettingsMsg(n))
          /\ Has(toRunner'[r], SettingsMsg(n)) => run'[<<r, n>>] \notin Worked
  BY RunnerKeepsTask
<1>3. SettingsInv'
  BY <1>0, <1>1, <1>2 DEF SettingsInv
<1>4. GivenInv'
  <2>1. \A r \in Runner, n \in Number :
            Given(r, n)' => /\ forReq'[<<r, n>>] \in Request
                            /\ call'[forReq'[<<r, n>>]] \in {"given", "done", "failed"}
    BY <1>0, <1>1, <1>2 DEF GivenInv
  <2>2. \A q \in ToSet(requests') : call'[q] = "asked"
    BY <1>0, <1>1 DEF GivenInv
  <2>3. ASSUME NEW r \in Runner, NEW n \in Number, NEW s \in Runner, NEW m \in Number,
               Given(r, n)', Given(s, m)', forReq'[<<r, n>>] = forReq'[<<s, m>>]
        PROVE  r = s /\ n = m
    <3>1. Given(r, n) /\ Given(s, m) /\ forReq[<<r, n>>] = forReq[<<s, m>>]
      BY <1>1, <1>2, <2>3
    <3>2. \A r1, s1 \in Runner, n1, m1 \in Number :
              Given(r1, n1) /\ Given(s1, m1) /\ forReq[<<r1, n1>>] = forReq[<<s1, m1>>]
                  => r1 = s1 /\ n1 = m1
      BY <1>0 DEF GivenInv
    <3>3. QED
      BY <3>1, <3>2, Zenon
  <2>4. QED
    BY <2>1, <2>2, <2>3 DEF GivenInv
<1>5. QED
  BY <1>3, <1>4

LEMMA RunnerKeepsInv ==
    ASSUME BrokerInv, RunnerMoves PROVE BrokerInv'
<1>1. TypeOK' /\ UNCHANGED <<known, offers, phase, forReq, call>>
  BY DEF RunnerMoves
<1>2. DoneInv'
  <2>1. \A r \in Runner, n \in Number : run[<<r, n>>] = "ran" => run'[<<r, n>>] = "ran"
    BY RunnerKeepsTask
  <2>2. \A r \in Runner, n \in Number : Has(toBroker'[r], DoneMsg(n)) => run'[<<r, n>>] = "ran"
    BY <2>1, InvParts DEF RunnerMoves, ResultMoves, DoneInv
  <2>3. \A q \in Request : call[q] = "done" =>
            \E r \in Runner, n \in Number : forReq[<<r, n>>] = q /\ run[<<r, n>>] = "ran"
    BY InvParts DEF DoneInv
  <2>4. \A q \in Request : call'[q] = "done" =>
            \E r \in Runner, n \in Number : forReq'[<<r, n>>] = q /\ run'[<<r, n>>] = "ran"
    BY <1>1, <2>1, <2>3
  <2>5. QED
    BY <2>2, <2>4 DEF DoneInv
<1>3. NothingOfUnknownRunner'
  BY <1>1, InvParts DEF NothingOfUnknownRunner
<1>4. OffersWithinCapacity'
  BY DEF RunnerMoves, Room, OffersWithinCapacity, Running
<1>5. QED
  BY <1>1, <1>2, <1>3, <1>4, RunnerKeepsOffers, RunnerKeepsSettings DEF BrokerInv

-----------------------------------------------------------------------------
(* The invariant of the system. *)

LEMMA BrokerInit == Init => BrokerInv
<1> SUFFICES ASSUME Init PROVE BrokerInv
  OBVIOUS
<1>1. \A w, m : w = <<>> => ~Has(w, m) /\ Once(w, m)
  BY DEF Has, Once
<1>2. offers = <<>> /\ requests = <<>> /\ ToSet(<<>>) = {} /\ Distinct(<<>>)
  BY DEF Init, ToSet, Distinct
<1>3. ASSUME NEW r \in Runner, NEW n \in Number
      PROVE  /\ phase[<<r, n>>] = "free" /\ run[<<r, n>>] = "none" /\ open[r] = {}
             /\ toBroker[r] = <<>> /\ toRunner[r] = <<>>
  BY OfferFacts DEF Init
<1>4. ASSUME NEW r \in Runner, NEW n \in Number PROVE ~Given(r, n)
  BY <1>1, <1>3 DEF Given, Worked, Executing
<1>5. TypeOK
  <2>1. 0 \in 0..MaxOffers
    BY BrokerAssumption
  <2>2. <<>> \in Seq(Offer) /\ <<>> \in Seq(Request) /\ <<>> \in Seq(Message)
    OBVIOUS
  <2>3. QED
    BY <2>1, <2>2 DEF Init, TypeOK, Phase, Call, Proc, Status
<1>6. NumberInv /\ OfferInv
  BY <1>1, <1>2, <1>3 DEF NumberInv, OfferInv
<1>7. SettingsInv /\ GivenInv
  <2>1. SettingsInv
    BY <1>1, <1>3, <1>4 DEF SettingsInv
  <2>2. GivenInv
    BY <1>2, <1>4 DEF GivenInv
  <2>3. QED
    BY <2>1, <2>2
<1>8. DoneInv
  BY <1>1, <1>3 DEF DoneInv, Init
<1>9. NothingOfUnknownRunner
  BY <1>2 DEF NothingOfUnknownRunner, Init
<1>10. OffersWithinCapacity
  <2>1. ASSUME NEW r \in Runner PROVE open[r] = {} /\ Running(r, run) = {}
    BY <2>1 DEF Init, Running, Active, Executing
  <2>2. Cardinality({}) = 0
    BY FS_EmptySet
  <2>3. MaxConcurrency \in Nat
    BY BrokerAssumption
  <2>4. QED
    BY <2>1, <2>2, <2>3 DEF OffersWithinCapacity
<1>11. QED
  BY <1>5, <1>6, <1>7, <1>8, <1>9, <1>10 DEF BrokerInv

(* A step is one of the broker or one of a runner. *)
LEMMA StepKinds == BrokerInv /\ Next => BrokerMoves \/ RunnerMoves
<1> SUFFICES ASSUME BrokerInv, Next PROVE BrokerMoves \/ RunnerMoves
  OBVIOUS
<1>1. ASSUME NEW q \in Request, taskRequested(q) \/ handleRequestTimeout(q) PROVE BrokerMoves
  BY <1>1, RequestedMoves, RequestTimeoutMoves
<1>2. ASSUME NEW o \in Offer, brokerTimer(o) PROVE BrokerMoves
  BY <1>2, TimerMoves
<1>3. ASSUME NEW o \in Offer, taskTimedOut(o) \/ executionEnds(o) PROVE RunnerMoves
  BY <1>3, TimedOutMoves, ExecutionEndsMoves
<1>4. ASSUME NEW r \in Runner, registerRunner(r) \/ connectionClosed(r) \/ removeConnection(r)
      PROVE  BrokerMoves
  BY <1>4, RegisterMoves, DisconnectMoves
<1>5. ASSUME NEW r \in Runner, brokerStep(r) PROVE BrokerMoves
  <2>1. \/ taskOffered(r) \/ handleRunnerAccept(r) \/ handleRunnerReject(r) \/ taskDoneHandler(r)
        \/ messageIgnored(r)
    BY <1>5 DEF brokerStep
  <2>2. QED
    BY <2>1, OfferedMoves, AcceptMoves, RejectMoves, DoneMoves, IgnoredMoves
<1>6. ASSUME NEW r \in Runner, runnerStep(r) PROVE RunnerMoves
  <2>1. \/ startTaskOffers(r) \/ stopTaskOffers(r) \/ offerAccepted(r) \/ taskCancelled(r)
        \/ receivedSettings(r) \/ onConnectionClose(r) \/ closeConnection(r)
    BY <1>6 DEF runnerStep
  <2>2. QED
    BY <2>1, SwitchMoves, OfferAcceptedMoves, CancelledMoves, ReceivedSettingsMoves, LeaveMoves
<1>7. ASSUME NEW r \in Runner, offerInterval(r) \/ stop(r) \/ crash(r) PROVE RunnerMoves
  BY <1>7, IntervalMoves, SwitchMoves, LeaveMoves
<1>8. QED
  BY <1>1, <1>2, <1>3, <1>4, <1>5, <1>6, <1>7, DrainingMoves DEF Next

LEMMA BrokerStep == BrokerInv /\ [Next]_vars => BrokerInv'
<1> SUFFICES ASSUME BrokerInv, [Next]_vars PROVE BrokerInv'
  OBVIOUS
<1>1. CASE Next
  BY <1>1, StepKinds, BrokerKeepsInv, RunnerKeepsInv
<1>2. CASE UNCHANGED vars
  <2>1. UNCHANGED <<known, offers, requests, phase, forReq, draining, call, proc, canSend, issued,
                    open, run, toBroker, toRunner>>
    BY <1>2 DEF vars, brokerVars, runnerVars, wires
  <2>2. TypeOK' = TypeOK /\ NumberInv' = NumberInv /\ OfferInv' = OfferInv
    BY <2>1 DEF TypeOK, NumberInv, OfferInv
  <2>3. SettingsInv' = SettingsInv /\ GivenInv' = GivenInv /\ DoneInv' = DoneInv
    BY <2>1 DEF SettingsInv, GivenInv, DoneInv, Given
  <2>4. /\ NothingOfUnknownRunner' = NothingOfUnknownRunner
        /\ OffersWithinCapacity' = OffersWithinCapacity
    BY <2>1 DEF NothingOfUnknownRunner, OffersWithinCapacity, Running
  <2>5. QED
    BY <2>2, <2>3, <2>4 DEF BrokerInv
<1>3. QED
  BY <1>1, <1>2

(* The invariant the other results rest on. *)
THEOREM BrokerInvariant == Spec => []BrokerInv
BY BrokerInit, BrokerStep, PTL DEF Spec

(* Every variable of broker, requester and runners has its type. *)
THEOREM BrokerTypeCorrect == Spec => []TypeOK
BY BrokerInvariant, InvParts, PTL

(* A call of startTask() is executed by at most one runner, although the     *)
(* broker offers its request again when an accept is rejected, comes late or *)
(* never comes (acceptOffer() and its two seconds).                          *)
THEOREM RequestsExecutedOnce == Spec => []AtMostOnce
<1>1. BrokerInv => AtMostOnce
  <2> SUFFICES ASSUME BrokerInv, NEW o \in Offer, NEW b \in Offer, forReq[o] = forReq[b],
                      run[o] \in Executing \cup {"ran"}, run[b] \in Executing \cup {"ran"}
               PROVE  o = b
    BY DEF AtMostOnce
  <2>1. PICK r \in Runner, n \in Number : o = <<r, n>>
    BY DEF Offer
  <2>2. PICK s \in Runner, m \in Number : b = <<s, m>>
    BY DEF Offer
  <2>3. Given(r, n) /\ Given(s, m) /\ forReq[<<r, n>>] = forReq[<<s, m>>]
    BY <2>1, <2>2 DEF Given, Worked
  <2>4. \A r1, s1 \in Runner, n1, m1 \in Number :
            Given(r1, n1) /\ Given(s1, m1) /\ forReq[<<r1, n1>>] = forReq[<<s1, m1>>]
                => r1 = s1 /\ n1 = m1
    BY InvParts DEF GivenInv
  <2>5. r = s /\ n = m
    BY <2>3, <2>4, Zenon
  <2>6. QED
    BY <2>1, <2>2, <2>5
<1>2. QED
  BY <1>1, BrokerInvariant, PTL

(* receivedSettings() never meets a status it would throw for as unexpected. *)
THEOREM SettingsAssertionHolds == Spec => []SettingsFindWaitingTask
<1>1. BrokerInv => SettingsFindWaitingTask
  <2> SUFFICES ASSUME BrokerInv, NEW r \in Runner, NEW i \in DOMAIN toRunner[r],
                      toRunner[r][i][1] = "settings"
               PROVE  run[<<r, toRunner[r][i][2]>>] \notin Executing
    BY DEF SettingsFindWaitingTask
  <2>1. toRunner[r] \in Seq(Message)
    BY InvParts DEF TypeOK
  <2>2. toRunner[r][i] \in Message
    BY <2>1
  <2> DEFINE n == toRunner[r][i][2]
  <2>3. n \in Number /\ toRunner[r][i] = SettingsMsg(n)
    BY <2>2, MessageFacts DEF SettingsMsg
  <2>4. Has(toRunner[r], SettingsMsg(n))
    BY <2>3 DEF Has
  <2> HIDE DEF n
  <2>5. run[<<r, n>>] \notin Worked
    BY <2>3, <2>4, InvParts DEF SettingsInv
  <2>6. QED
    BY <2>5 DEF Worked, n
<1>2. QED
  BY <1>1, BrokerInvariant, PTL

(* deregisterRunner() leaves no task and no offer of the runner behind. *)
THEOREM UnknownRunnersForgotten == Spec => []NothingOfUnknownRunner
BY BrokerInvariant, InvParts, PTL

(* sendOffers() never promises a slot that is taken, whatever expires, is    *)
(* cancelled or ends in between.                                             *)
THEOREM OffersFitCapacity == Spec => []OffersWithinCapacity
BY BrokerInvariant, InvParts, PTL

-----------------------------------------------------------------------------
(* The system implements TaskCalls. *)

(* WorkOf(q), by the tasks f assigns to q and their statuses g. *)
SomeTask(f, g, q, S) == \E r \in Runner, n \in Number : f[<<r, n>>] = q /\ g[<<r, n>>] \in S

WorkState(f, g, q) ==
    IF SomeTask(f, g, q, {"ran"}) THEN "finished"
    ELSE IF SomeTask(f, g, q, Executing) THEN "started" ELSE "none"

LEMMA TasksOfRequest ==
    ASSUME NEW f, NEW g, NEW q, NEW S
    PROVE  (\E e \in {g[o] : o \in {b \in Offer : f[b] = q}} : e \in S) <=> SomeTask(f, g, q, S)
<1>1. (\E e \in {g[o] : o \in {b \in Offer : f[b] = q}} : e \in S)
          <=> \E o \in Offer : f[o] = q /\ g[o] \in S
  OBVIOUS
<1>2. ASSUME NEW o \in Offer, f[o] = q, g[o] \in S PROVE SomeTask(f, g, q, S)
  <2>1. o[1] \in Runner /\ o[2] \in Number /\ o = <<o[1], o[2]>>
    BY OfferFacts
  <2>2. f[<<o[1], o[2]>>] = q /\ g[<<o[1], o[2]>>] \in S
    BY <1>2, <2>1
  <2>3. QED
    BY <2>1, <2>2 DEF SomeTask
<1>3. SomeTask(f, g, q, S) => \E o \in Offer : f[o] = q /\ g[o] \in S
  BY OfferFacts DEF SomeTask
<1>4. QED
  BY <1>1, <1>2, <1>3

LEMMA WorkOfState ==
    ASSUME NEW q
    PROVE  WorkOf(q) = WorkState(forReq, run, q) /\ WorkOf(q)' = WorkState(forReq', run', q)
<1>1. ASSUME NEW f, NEW g
      PROVE  LET of == {g[o] : o \in {b \in Offer : f[b] = q}}
             IN  (IF "ran" \in of THEN "finished"
                  ELSE IF of \cap Executing # {} THEN "started" ELSE "none") = WorkState(f, g, q)
  <2> DEFINE of == {g[o] : o \in {b \in Offer : f[b] = q}}
  <2>1. /\ (\E e \in of : e \in {"ran"}) <=> SomeTask(f, g, q, {"ran"})
        /\ (\E e \in of : e \in Executing) <=> SomeTask(f, g, q, Executing)
    BY TasksOfRequest
  <2> HIDE DEF of
  <2>2. /\ "ran" \in of <=> SomeTask(f, g, q, {"ran"})
        /\ of \cap Executing # {} <=> SomeTask(f, g, q, Executing)
    BY <2>1
  <2>3. (IF "ran" \in of THEN "finished"
         ELSE IF of \cap Executing # {} THEN "started" ELSE "none") = WorkState(f, g, q)
    BY <2>2 DEF WorkState
  <2>4. QED
    BY <2>3 DEF of
<1>2. WorkOf(q) = WorkState(forReq, run, q)
  BY <1>1 DEF WorkOf
<1>3. WorkOf(q)' = WorkState(forReq', run', q)
  BY <1>1 DEF WorkOf
<1>4. QED
  BY <1>2, <1>3

(* A step of the broker changes no work, and moves a call. *)
LEMMA BrokerImplements ==
    ASSUME BrokerInv, BrokerMoves, NEW q \in Request
    PROVE  WorkOf(q)' = WorkOf(q) /\ (Calls!Moves(q) \/ call'[q] = call[q])
<1>1. run' = run /\ CallMoves(q)
  BY DEF BrokerMoves
<1>2. ASSUME NEW r \in Runner, NEW n \in Number, run[<<r, n>>] \in Worked
      PROVE  forReq'[<<r, n>>] = forReq[<<r, n>>]
  <2>1. Given(r, n)
    BY <1>2 DEF Given
  <2>2. QED
    BY <2>1, BrokerKeepsTask
<1>3. ASSUME NEW S, S \subseteq Worked
      PROVE  SomeTask(forReq', run', q, S) <=> SomeTask(forReq, run, q, S)
  BY <1>1, <1>2, <1>3 DEF SomeTask
<1>4. {"ran"} \subseteq Worked /\ Executing \subseteq Worked
  BY DEF Worked
<1>5. WorkOf(q)' = WorkOf(q)
  BY <1>3, <1>4, WorkOfState DEF WorkState
<1>6. Finished(q) => WorkOf(q) = "finished"
  BY WorkOfState DEF Finished, WorkState, SomeTask
<1>7. QED
  BY <1>1, <1>5, <1>6 DEF CallMoves, Calls!Moves

(* A step of a runner changes no call, and moves the work of requests that   *)
(* were given to it.                                                         *)
LEMMA RunnerImplements ==
    ASSUME BrokerInv, RunnerMoves, NEW q \in Request
    PROVE  call' = call /\ (Calls!Works(q) \/ WorkOf(q)' = WorkOf(q))
<1>1. call' = call /\ forReq' = forReq
  BY DEF RunnerMoves
<1>2. \A r \in Runner, n \in Number :
          /\ run[<<r, n>>] \in Worked => run'[<<r, n>>] \in Worked
          /\ run[<<r, n>>] = "ran" => run'[<<r, n>>] = "ran"
          /\ run'[<<r, n>>] = "ran" => run[<<r, n>>] \in Worked
          /\ Given(r, n)' => Given(r, n)
  BY RunnerKeepsTask
<1>3. SomeTask(forReq, run, q, {"ran"}) => SomeTask(forReq', run', q, {"ran"})
  BY <1>1, <1>2 DEF SomeTask
<1>4. \/ SomeTask(forReq', run', q, {"ran"}) \/ SomeTask(forReq', run', q, Executing)
      \/ ~SomeTask(forReq, run, q, Executing)
  BY <1>1, <1>2 DEF SomeTask, Worked
<1>5. \/ SomeTask(forReq, run, q, {"ran"}) \/ SomeTask(forReq, run, q, Executing)
      \/ ~SomeTask(forReq', run', q, {"ran"})
  BY <1>1, <1>2 DEF SomeTask, Worked
<1>6. ASSUME ~SomeTask(forReq, run, q, {"ran"}), SomeTask(forReq', run', q, Executing)
      PROVE  call[q] \in {"given", "failed"}
  <2>1. PICK r \in Runner, n \in Number : forReq'[<<r, n>>] = q /\ run'[<<r, n>>] \in Executing
    BY <1>6 DEF SomeTask
  <2>2. Given(r, n)'
    BY <2>1 DEF Given, Worked
  <2>3. Given(r, n) /\ forReq[<<r, n>>] = q
    BY <1>1, <1>2, <2>1, <2>2
  <2>4. call[q] \in {"given", "done", "failed"}
    BY <2>3, InvParts DEF GivenInv
  <2>5. call[q] # "done"
    BY <1>6, InvParts DEF DoneInv, SomeTask
  <2>6. QED
    BY <2>4, <2>5
<1>7. WorkOf(q) = WorkState(forReq, run, q) /\ WorkOf(q)' = WorkState(forReq', run', q)
  BY WorkOfState
<1>8. \/ WorkOf(q)' = WorkOf(q)
      \/ WorkOf(q) = "none" /\ WorkOf(q)' = "started" /\ call[q] \in {"given", "failed"}
      \/ WorkOf(q) = "started" /\ WorkOf(q)' = "finished"
  BY <1>3, <1>4, <1>5, <1>6, <1>7 DEF WorkState
<1>9. QED
  BY <1>1, <1>8 DEF Calls!Works

LEMMA StepImplements ==
    ASSUME BrokerInv, [Next]_vars
    PROVE  [Calls!CallsNext]_<<call, [q \in Request |-> WorkOf(q)]>>
<1>1. CASE UNCHANGED vars
  <2>1. call' = call /\ forReq' = forReq /\ run' = run
    BY <1>1 DEF vars, brokerVars, runnerVars
  <2>2. \A q \in Request : WorkOf(q)' = WorkOf(q)
    BY <2>1 DEF WorkOf
  <2>3. QED
    BY <2>1, <2>2
<1>2. CASE Next
  <2>1. BrokerMoves \/ RunnerMoves
    BY <1>2, StepKinds
  <2>2. ASSUME NEW q \in Request
        PROVE  /\ Calls!Moves(q) \/ call'[q] = call[q]
               /\ Calls!Works(q) \/ WorkOf(q)' = WorkOf(q)
    BY <2>1, BrokerImplements, RunnerImplements
  <2>3. call' \in [Request -> Calls!Stage]
    <3>1. TypeOK'
      BY <2>1 DEF BrokerMoves, RunnerMoves
    <3>2. QED
      BY <3>1 DEF TypeOK, Call, Calls!Stage
  <2>4. ASSUME NEW q \in Request PROVE WorkOf(q)' \in Calls!Work
    BY WorkOfState DEF WorkState, Calls!Work
  <2>5. [q \in Request |-> WorkOf(q)'] \in [Request -> Calls!Work]
    BY <2>4
  <2>6. QED
    BY <2>2, <2>3, <2>5 DEF Calls!CallsNext
<1>3. QED
  BY <1>1, <1>2

(* To its callers the whole of broker, requester, runners and wires looks    *)
(* like TaskCalls: work starts once, only for a call that was given to a     *)
(* runner, and a call ends once, with a result only of finished work.        *)
THEOREM BrokerImplementsTaskCalls == Spec => ImplementsTaskCalls
<1>1. Init => Calls!CallsInit
  <2> SUFFICES ASSUME Init PROVE Calls!CallsInit
    OBVIOUS
  <2>1. ASSUME NEW q \in Request PROVE WorkOf(q) = "none"
    <3>1. \A r \in Runner, n \in Number : run[<<r, n>>] = "none"
      BY OfferFacts DEF Init
    <3>2. QED
      BY <3>1, WorkOfState DEF WorkState, SomeTask, Executing
  <2>2. QED
    BY <2>1 DEF Init, Calls!CallsInit
<1>2. BrokerInv /\ [Next]_vars => [Calls!CallsNext]_<<call, [q \in Request |-> WorkOf(q)]>>
  BY StepImplements
<1>3. QED
  BY <1>1, <1>2, BrokerInvariant, PTL DEF Spec, ImplementsTaskCalls, Calls!CallsSpec
=============================================================================
