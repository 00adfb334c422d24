------------------------ MODULE ProducerServiceProofs ------------------------
(***************************************************************************)
(* The slots of the transactions are given back exactly once and the rates *)
(* of requests are bounded; the server acts for the user a page showed,    *)
(* and links only what its wallet signed: for any addresses, limits,       *)
(* bodies, pages, users, wallets and bounds.                               *)
(***************************************************************************)
EXTENDS ProducerService, FiniteSetTheorems, TLAPS

(***************************************************************************)
(* The slots.                                                              *)
(***************************************************************************)
TxRequests == [from : Addresses, reads : BOOLEAN, released : BOOLEAN]

(* The requests of an address whose slot is not given back.                *)
Held(a) == {r \in Requests : /\ request[r] # None
                             /\ request[r].from = a
                             /\ ~request[r].released}

SlotsInv ==
  /\ request \in [Requests -> TxRequests \cup {None}]
  /\ \A a \in DOMAIN slots : a \in Addresses /\ slots[a] \in Nat
  /\ \A a \in Addresses : InFlight(a) = Cardinality(Held(a))

LEMMA SlotsInvIsExact == SlotsInv => SlotsAreExact
BY DEF SlotsInv, SlotsAreExact, Held

LEMMA HeldIsFinite ==
  ASSUME NEW a PROVE IsFiniteSet(Held(a)) /\ Cardinality(Held(a)) \in Nat
<1>1. Held(a) \subseteq Requests
  BY DEF Held
<1> QED BY <1>1, FS_Subset, FS_CardinalityType, LimitsAssumption

LEMMA SlotsInit == Init => SlotsInv
<1> SUFFICES ASSUME Init PROVE SlotsInv
  OBVIOUS
<1>1. slots = <<>> /\ request = [r \in Requests |-> None]
  BY DEF Init, LimitsInit, NoRequests
<1>2. \A a \in Addresses : Held(a) = {}
  BY <1>1 DEF Held
<1>3. DOMAIN slots = {}
  BY <1>1
<1>4. \A a \in Addresses : InFlight(a) = Cardinality(Held(a))
  BY <1>2, <1>3, FS_EmptySet DEF InFlight
<1> QED BY <1>1, <1>3, <1>4 DEF SlotsInv

(* Nothing changes for the slots.                                          *)
LEMMA SameSlots == SlotsInv /\ UNCHANGED <<slots, request>> => SlotsInv'
BY DEF SlotsInv, InFlight, Held

(* A request that takes a slot is one more that holds it.                  *)
LEMMA PostKeepsSlots ==
  ASSUME SlotsInv, NEW a \in Addresses, NEW r \in Requests, NEW body, Post(a, r, body)
  PROVE  SlotsInv'
<1>1. CASE UNCHANGED <<slots, request>>
  BY <1>1, SameSlots
<1>2. CASE ~UNCHANGED <<slots, request>>
  <2> DEFINE reads == ~HeadRefused(body)
             new == [from |-> a, reads |-> reads, released |-> FALSE]
  <2>1. /\ request[r] = None
        /\ slots' = [b \in DOMAIN slots \cup {a} |->
                       IF b = a THEN InFlight(a) + 1 ELSE slots[b]]
        /\ request' = [request EXCEPT ![r] = new]
    BY <1>2 DEF Post
  <2>2. new \in TxRequests /\ new # None
    <3>1. reads \in BOOLEAN
      BY DEF HeadRefused
    <3> HIDE DEF reads
    <3>2. new \in TxRequests
      BY <3>1 DEF TxRequests
    <3> QED BY <3>2, LimitsAssumption DEF TxRequests
  <2>3. /\ request' \in [Requests -> TxRequests \cup {None}] /\ request'[r] = new
        /\ \A q \in Requests \ {r} : request'[q] = request[q]
    BY <2>1, <2>2 DEF SlotsInv
  <2>4. InFlight(a) \in Nat
    BY HeldIsFinite DEF SlotsInv
  <2>5. \A b \in DOMAIN slots' : b \in Addresses /\ slots'[b] \in Nat
    <3> HIDE DEF new
    <3>1. DOMAIN slots' = DOMAIN slots \cup {a}
      BY <2>1
    <3>2. \A b \in DOMAIN slots' : slots'[b] = IF b = a THEN InFlight(a) + 1 ELSE slots[b]
      BY <2>1
    <3>3. \A b \in DOMAIN slots : b \in Addresses /\ slots[b] \in Nat
      BY DEF SlotsInv
    <3> QED BY <2>4, <3>1, <3>2, <3>3
  <2>6. InFlight(a)' = InFlight(a) + 1 /\ \A b \in Addresses \ {a} : InFlight(b)' = InFlight(b)
    BY <2>1 DEF InFlight
  <2>7. Held(a)' = Held(a) \cup {r} /\ r \notin Held(a)
    BY <2>1, <2>2, <2>3 DEF Held
  <2>8. \A b \in Addresses \ {a} : Held(b)' = Held(b)
    BY <2>1, <2>2, <2>3 DEF Held
  <2>9. Cardinality(Held(a)') = Cardinality(Held(a)) + 1
    BY <2>7, HeldIsFinite, FS_AddElement
  <2>10. \A b \in Addresses : InFlight(b)' = Cardinality(Held(b)')
    BY <2>6, <2>8, <2>9 DEF SlotsInv
  <2> QED BY <2>3, <2>5, <2>10 DEF SlotsInv
<1> QED BY <1>1, <1>2

(* A request that ends gives its slot back, unless it has done so.         *)
LEMMA ReleaseKeepsSlots ==
  ASSUME SlotsInv, NEW r \in Requests, request[r] # None, Release(r),
         request' \in [Requests -> TxRequests \cup {None}],
         \A q \in Requests \ {r} : request'[q] = request[q],
         request'[r] = None \/ request'[r].released
  PROVE  SlotsInv'
<1>1. PICK a \in Addresses : a = request[r].from
  BY DEF SlotsInv, TxRequests
<1>2. Held(a)' = Held(a) \ {r} /\ \A b \in Addresses \ {a} : Held(b)' = Held(b)
  BY <1>1 DEF Held
<1>3. CASE request[r].released
  <2>1. r \notin Held(a) /\ slots' = slots
    BY <1>1, <1>3 DEF Held, Release
  <2>2. \A b \in Addresses : Held(b)' = Held(b) /\ InFlight(b)' = InFlight(b)
    BY <1>2, <2>1 DEF InFlight, Held
  <2> QED BY <2>1, <2>2 DEF SlotsInv
<1>4. CASE ~request[r].released
  <2>1. r \in Held(a)
    BY <1>1, <1>4 DEF Held
  <2>2. /\ Cardinality(Held(a)') = Cardinality(Held(a)) - 1
        /\ Cardinality(Held(a)) \in Nat /\ Cardinality(Held(a)') \in Nat
    BY <1>2, <2>1, HeldIsFinite, FS_RemoveElement, FS_CardinalityType
  <2>3. InFlight(a) = Cardinality(Held(a)) /\ InFlight(a) > 0
    BY <1>1, <2>2 DEF SlotsInv
  <2>4. a \in DOMAIN slots /\ slots[a] = InFlight(a)
    BY <2>3 DEF InFlight
  <2>5. slots' = IF InFlight(a) <= 1 THEN Restrict(slots, DOMAIN slots \ {a})
                                     ELSE [slots EXCEPT ![a] = @ - 1]
    BY <1>1, <1>4 DEF Release
  <2>6. /\ \A b \in DOMAIN slots' : b \in Addresses /\ slots'[b] \in Nat
        /\ InFlight(a)' = InFlight(a) - 1
        /\ \A b \in Addresses \ {a} : InFlight(b)' = InFlight(b)
    <3>1. CASE InFlight(a) <= 1
      <4>1. slots' = [b \in DOMAIN slots \ {a} |-> slots[b]]
        BY <2>5, <3>1 DEF Restrict
      <4>2. InFlight(a) = 1
        BY <2>2, <2>3, <3>1
      <4>3. \A b \in DOMAIN slots' : b \in Addresses /\ slots'[b] \in Nat
        BY <4>1 DEF SlotsInv
      <4>4. a \notin DOMAIN slots' /\ \A b : b # a => InFlight(b)' = InFlight(b)
        BY <4>1 DEF InFlight
      <4> QED BY <4>2, <4>3, <4>4 DEF InFlight
    <3>2. CASE ~(InFlight(a) <= 1)
      <4>1. slots' = [slots EXCEPT ![a] = @ - 1]
        BY <2>5, <3>2
      <4>2. slots[a] - 1 \in Nat /\ slots[a] \in Nat
        BY <2>2, <2>3, <2>4, <3>2
      <4>3. DOMAIN slots' = DOMAIN slots
        BY <4>1
      <4>4. \A b \in DOMAIN slots : b # a => slots'[b] = slots[b]
        BY <4>1
      <4>5. slots'[a] = slots[a] - 1
        BY <4>1, <2>4
      <4>6. \A b \in DOMAIN slots' : b \in Addresses /\ slots'[b] \in Nat
        BY <4>2, <4>3, <4>4, <4>5 DEF SlotsInv
      <4>7. InFlight(a)' = InFlight(a) - 1
        BY <2>4, <4>3, <4>5 DEF InFlight
      <4>8. \A b \in Addresses \ {a} : InFlight(b)' = InFlight(b)
        BY <4>3, <4>4 DEF InFlight
      <4> QED BY <4>6, <4>7, <4>8
    <3> QED BY <3>1, <3>2
  <2>7. \A b \in Addresses : InFlight(b)' = Cardinality(Held(b)')
    <3>1. InFlight(a)' = Cardinality(Held(a)')
      BY <2>2, <2>3, <2>6
    <3>2. \A b \in Addresses \ {a} : InFlight(b)' = Cardinality(Held(b)')
      BY <1>2, <2>6 DEF SlotsInv
    <3> QED BY <3>1, <3>2
  <2> QED BY <2>6, <2>7 DEF SlotsInv
<1> QED BY <1>1, <1>3, <1>4

LEMMA FinishKeepsSlots ==
  ASSUME SlotsInv, NEW r \in Requests, Finish(r) PROVE SlotsInv'
<1>1. request[r] \in TxRequests /\ request[r] # None
  BY DEF SlotsInv, Finish
<1>2. request' = [request EXCEPT ![r] = [request[r] EXCEPT !.released = TRUE]]
  BY DEF Finish
<1>3. [request[r] EXCEPT !.released = TRUE] \in TxRequests
  BY <1>1 DEF TxRequests
<1>4. [request[r] EXCEPT !.released = TRUE].released
  BY <1>1 DEF TxRequests
<1>5. request' \in [Requests -> TxRequests \cup {None}]
  BY <1>2, <1>3 DEF SlotsInv
<1>6. request'[r].released /\ \A q \in Requests \ {r} : request'[q] = request[q]
  BY <1>2, <1>4 DEF SlotsInv
<1> QED BY <1>1, <1>5, <1>6, ReleaseKeepsSlots DEF Finish

LEMMA CloseKeepsSlots ==
  ASSUME SlotsInv, NEW r \in Requests, Close(r) PROVE SlotsInv'
<1>1. request' = [request EXCEPT ![r] = None]
  BY DEF Close
<1>2. /\ request' \in [Requests -> TxRequests \cup {None}] /\ request'[r] = None
      /\ \A q \in Requests \ {r} : request'[q] = request[q]
  BY <1>1 DEF SlotsInv
<1> QED BY <1>2, ReleaseKeepsSlots DEF Close

(* The body that is read changes nothing of who holds a slot.              *)
LEMMA ReadBodyKeepsSlots ==
  ASSUME SlotsInv, NEW r \in Requests, ReadBody(r) PROVE SlotsInv'
<1> DEFINE new == [request[r] EXCEPT !.reads = FALSE]
<1>1. request[r] \in TxRequests /\ request[r] # None
  BY DEF SlotsInv, ReadBody
<1>2. new \in TxRequests /\ new # None
  BY <1>1, LimitsAssumption DEF TxRequests
<1>3. new.from = request[r].from /\ new.released = request[r].released
  BY <1>1 DEF TxRequests
<1>4. request' = [request EXCEPT ![r] = new] /\ slots' = slots
  BY DEF ReadBody
<1> HIDE DEF new
<1>5. /\ request' \in [Requests -> TxRequests \cup {None}] /\ request'[r] = new
      /\ \A q \in Requests \ {r} : request'[q] = request[q]
  BY <1>2, <1>4 DEF SlotsInv
<1>6. \A b \in Addresses : Held(b)' = Held(b) /\ InFlight(b)' = InFlight(b)
  BY <1>1, <1>2, <1>3, <1>4, <1>5 DEF Held, InFlight
<1> QED BY <1>4, <1>5, <1>6 DEF SlotsInv

(* A process that starts holds no slot and has no request.                 *)
LEMMA RestartKeepsSlots ==
  ASSUME NEW keys, LimitsRestart(keys) PROVE SlotsInv'
<1>1. slots' = <<>> /\ request' = [r \in Requests |-> None]
  BY DEF LimitsRestart, NoRequests
<1>2. \A a \in Addresses : Held(a)' = {}
  BY <1>1 DEF Held
<1>3. DOMAIN <<>> = {}
  OBVIOUS
<1>4. \A a \in Addresses : InFlight(a)' = Cardinality(Held(a)')
  BY <1>1, <1>2, <1>3, FS_EmptySet DEF InFlight
<1> QED BY <1>1, <1>3, <1>4 DEF SlotsInv

LEMMA SlotsStep == SlotsInv /\ [Next]_vars => SlotsInv'
<1> SUFFICES ASSUME SlotsInv, [Next]_vars PROVE SlotsInv'
  OBVIOUS
<1>1. CASE UNCHANGED <<slots, request>>
  BY <1>1, SameSlots
<1>2. ASSUME NEW a \in Addresses, NEW r \in Requests, NEW body \in Bodies, Post(a, r, body)
      PROVE  SlotsInv'
  BY <1>2, PostKeepsSlots
<1>3. ASSUME NEW r \in Requests, ReadBody(r) \/ Finish(r) \/ Close(r) PROVE SlotsInv'
  BY <1>3, ReadBodyKeepsSlots, FinishKeepsSlots, CloseKeepsSlots
<1>4. CASE LimitsNext
  <2>1. ASSUME NEW a \in Addresses, NEW g \in Readers, Get(a, g) PROVE SlotsInv'
    BY <2>1, SameSlots DEF Get
  <2> QED BY <1>2, <1>3, <1>4, <2>1 DEF LimitsNext
<1>5. CASE ObserverNext
  <2>1. UNCHANGED <<slots, request>>
    BY <1>5 DEF ObserverNext, SaveSettings, Send, TimeOut, StopObserver, StartObserver,
         Deliver, CutAnswer, Arrives, LoseHeartbeat, Tick, LimitsTick, limitVars
  <2> QED BY <2>1, SameSlots
<1>6. CASE Restart
  BY <1>6, RestartKeepsSlots DEF Restart, TableLost
<1>7. CASE UNCHANGED limitVars \/ UNCHANGED vars
  BY <1>7, SameSlots DEF limitVars, vars
<1> QED BY <1>4, <1>5, <1>6, <1>7 DEF Next

(* However the requests for transactions interleave, are refused, break    *)
(* off or go down with the process, an address holds as many slots as it   *)
(* has requests under way (httpSecurity.js, createConcurrencyLimiter).     *)
THEOREM SlotsExact == Spec => []SlotsAreExact
<1>1. Init => SlotsInv
  BY SlotsInit
<1>2. SlotsInv /\ [Next]_vars => SlotsInv'
  BY SlotsStep
<1>3. SlotsInv => SlotsAreExact
  BY SlotsInvIsExact
<1> QED BY <1>1, <1>2, <1>3, PTL DEF Spec

(***************************************************************************)
(* The rates.                                                              *)
(*                                                                         *)
(* A bucket was opened by a request that was let through, and counts at    *)
(* least what was let through since.  What was let through before it is    *)
(* left of another bucket, whose first request is too long ago.            *)
(***************************************************************************)
Going(bs, k) == k \in DOMAIN bs /\ bs[k].left > 0

Counts(bs) == \A k \in DOMAIN bs : bs[k] \in [count : Nat, left : Nat]

Since(ps, age) == {p \in ps : p[1] <= age}
Before(ps, age) == {p \in ps : p[1] > age}

(* The requests ps let through for k by a limiter with the buckets bs.     *)
Rated(ps, bs, k, window, limit) ==
  /\ ps \subseteq (0 .. window - 1) \X Nat /\ IsFiniteSet(ps)
  /\ Going(bs, k) =>
       LET age == window - bs[k].left
       IN  /\ bs[k].left <= window
           /\ \E p \in ps : p[1] = age
           /\ Cardinality(Since(ps, age)) <= bs[k].count
           /\ Cardinality(Since(ps, age)) <= limit
           /\ Cardinality(Before(ps, age)) < limit
  /\ ~Going(bs, k) =>
       Cardinality(ps) < limit /\ \A p \in ps : p[1] # 0

RateInv ==
  /\ DOMAIN buckets = Limiters /\ DOMAIN passed = Limiters
  /\ \A g \in Limiters : Counts(buckets[g])
  /\ \A g \in Limiters : \A k \in DOMAIN passed[g] :
       Rated(passed[g][k], buckets[g], k, Window[g], Limit[g])

LEMMA RatedIsBounded ==
  ASSUME NEW ps, NEW bs, NEW k, NEW window \in Nat \ {0}, NEW limit \in Nat \ {0},
         Counts(bs), Rated(ps, bs, k, window, limit)
  PROVE  Cardinality(ps) < 2 * limit
<1>1. IsFiniteSet(ps) /\ Cardinality(ps) \in Nat
  BY FS_CardinalityType DEF Rated
<1>2. CASE Going(bs, k)
  <2> DEFINE age == window - bs[k].left
             new == Since(ps, age)
             old == Before(ps, age)
  <2>1. bs[k].left \in Nat /\ age \in Int
    BY <1>2 DEF Counts, Going
  <2>2. ps = new \cup old /\ new \cap old = {}
    <3>1. \A p \in ps : p[1] \in Nat
      BY DEF Rated
    <3> QED BY <2>1, <3>1 DEF Since, Before
  <2>3. /\ new \subseteq ps /\ old \subseteq ps
        /\ Cardinality(new) <= limit /\ Cardinality(old) < limit
    BY <1>2 DEF Rated, Since, Before
  <2> HIDE DEF age, new, old
  <2>4. /\ IsFiniteSet(new) /\ Cardinality(new) \in Nat
        /\ IsFiniteSet(old) /\ Cardinality(old) \in Nat
    BY <1>1, <2>3, FS_Subset, FS_CardinalityType
  <2>5. Cardinality(ps) = Cardinality(new) + Cardinality(old)
    BY <2>2, <2>4, FS_Union, FS_EmptySet
  <2> QED BY <2>3, <2>4, <2>5
<1>3. CASE ~Going(bs, k)
  BY <1>1, <1>3 DEF Rated
<1> QED BY <1>2, <1>3

(* The sweep leaves the buckets that go on as they are.                    *)
LEMMA KeptGoesOn ==
  ASSUME RateInv, NEW g \in Limiters
  PROVE  /\ Counts(Kept(g))
         /\ \A k : Going(Kept(g), k) <=> Going(buckets[g], k)
         /\ \A k : Going(buckets[g], k) => Kept(g)[k] = buckets[g][k]
<1>1. \A k \in DOMAIN Kept(g) : k \in DOMAIN buckets[g] /\ Kept(g)[k] = buckets[g][k]
  BY DEF Kept, Restrict
<1>2. \A k \in DOMAIN buckets[g] : buckets[g][k].left > 0 => k \in DOMAIN Kept(g)
  BY DEF Kept, Restrict
<1> QED BY <1>1, <1>2 DEF RateInv, Counts, Going

(* Buckets that agree on k are the same to it.                             *)
LEMMA RatedAlike ==
  ASSUME NEW ps, NEW bs, NEW bs2, NEW k, NEW window, NEW limit,
         Rated(ps, bs, k, window, limit), Going(bs2, k) <=> Going(bs, k),
         Going(bs, k) => bs2[k] = bs[k]
  PROVE  Rated(ps, bs2, k, window, limit)
BY DEF Rated

(* A request of k that is let through opens a bucket.                      *)
LEMMA OpensRated ==
  ASSUME NEW ps, NEW bs, NEW bs2, NEW k, NEW window \in Nat \ {0},
         NEW limit \in Nat \ {0}, NEW n \in Nat,
         Rated(ps, bs, k, window, limit), ~Going(bs, k),
         k \in DOMAIN bs2, bs2[k] = [count |-> 1, left |-> window]
  PROVE  Rated(ps \cup {<<0, n>>}, bs2, k, window, limit)
<1> DEFINE p == <<0, n>>
           all == ps \cup {p}
<1>1. /\ ps \subseteq (0 .. window - 1) \X Nat /\ IsFiniteSet(ps)
      /\ Cardinality(ps) < limit /\ \A q \in ps : q[1] # 0
  BY DEF Rated
<1>2. p \in (0 .. window - 1) \X Nat /\ p[1] = 0
  OBVIOUS
<1>3. all \subseteq (0 .. window - 1) \X Nat /\ IsFiniteSet(all)
  BY <1>1, <1>2, FS_AddElement
<1>4. Going(bs2, k) /\ window - bs2[k].left = 0 /\ bs2[k].count = 1 /\ bs2[k].left = window
  BY DEF Going
<1>5. Since(all, 0) = {p} /\ Before(all, 0) = ps
  <2>1. \A q \in ps : q[1] \in Nat /\ q[1] > 0
    BY <1>1
  <2> HIDE DEF p
  <2> QED BY <1>2, <2>1 DEF Since, Before
<1>6. Cardinality({p}) = 1
  BY FS_Singleton
<1>7. \E q \in all : q[1] = 0
  BY <1>2
<1> DEFINE age == window - bs2[k].left
<1>8. /\ age = 0 /\ Cardinality(Since(all, age)) = 1 /\ \E q \in all : q[1] = age
      /\ Cardinality(Before(all, age)) < limit
  BY <1>1, <1>4, <1>5, <1>6, <1>7
<1> HIDE DEF p, all
<1>9. 1 <= limit /\ 1 <= bs2[k].count /\ bs2[k].left <= window
  BY <1>4
<1>10. Rated(all, bs2, k, window, limit)
  BY <1>3, <1>4, <1>8, <1>9 DEF Rated
<1> QED BY <1>10 DEF all, p

(* One that is let through by a bucket counts in it.                       *)
LEMMA CountsRated ==
  ASSUME NEW ps, NEW bs, NEW bs2, NEW k, NEW window \in Nat \ {0},
         NEW limit \in Nat \ {0}, NEW n \in Nat, Counts(bs),
         Rated(ps, bs, k, window, limit), Going(bs, k), bs[k].count < limit,
         k \in DOMAIN bs2, bs2[k].left = bs[k].left, bs2[k].count = bs[k].count + 1
  PROVE  Rated(ps \cup {<<0, n>>}, bs2, k, window, limit)
<1> DEFINE p == <<0, n>>
           all == ps \cup {p}
           age == window - bs[k].left
<1>1. /\ ps \subseteq (0 .. window - 1) \X Nat /\ IsFiniteSet(ps)
      /\ bs[k].left <= window /\ bs[k].left > 0
      /\ bs[k].left \in Nat /\ bs[k].count \in Nat
      /\ \E q \in ps : q[1] = age
      /\ Cardinality(Since(ps, age)) <= bs[k].count
      /\ Cardinality(Before(ps, age)) < limit
  BY DEF Rated, Going, Counts
<1>2. p \in (0 .. window - 1) \X Nat /\ p[1] = 0 /\ age \in Nat
  BY <1>1
<1>3. all \subseteq (0 .. window - 1) \X Nat /\ IsFiniteSet(all)
  BY <1>1, <1>2, FS_AddElement
<1>4. Going(bs2, k) /\ window - bs2[k].left = age
  BY <1>1 DEF Going
<1> HIDE DEF p, age
<1>5. Since(all, age) = Since(ps, age) \cup {p} /\ Before(all, age) = Before(ps, age)
  BY <1>2 DEF Since, Before
<1>6. IsFiniteSet(Since(ps, age)) /\ Cardinality(Since(ps, age)) \in Nat
  BY <1>1, FS_Subset, FS_CardinalityType DEF Since
<1>7. Cardinality(Since(all, age)) <= Cardinality(Since(ps, age)) + 1
      /\ Cardinality(Since(all, age)) \in Nat
  <2> DEFINE old == Since(ps, age)
  <2>1. IsFiniteSet(old) /\ Cardinality(old) \in Nat
    BY <1>6
  <2>2. Since(all, age) = old \cup {p} /\ old = Since(ps, age)
    BY <1>5
  <2> HIDE DEF old
  <2>3. IsFiniteSet(old \cup {p})
        /\ Cardinality(old \cup {p}) = IF p \in old THEN Cardinality(old) ELSE Cardinality(old) + 1
    BY <2>1, FS_AddElement
  <2>4. Cardinality(old \cup {p}) \in Nat /\ Cardinality(old \cup {p}) <= Cardinality(old) + 1
    <3>1. CASE p \in old
      BY <2>1, <2>3, <3>1
    <3>2. CASE p \notin old
      BY <2>1, <2>3, <3>2
    <3> QED BY <3>1, <3>2
  <2> QED BY <2>2, <2>4
<1>8. \E q \in all : q[1] = age
  BY <1>1
<1> HIDE DEF all
<1>9. Cardinality(Since(all, age)) <= bs2[k].count
      /\ Cardinality(Since(all, age)) <= limit
  BY <1>1, <1>6, <1>7
<1>10. Cardinality(Before(all, age)) < limit /\ bs2[k].left <= window
  BY <1>1, <1>5
<1>11. Rated(all, bs2, k, window, limit)
  BY <1>3, <1>4, <1>8, <1>9, <1>10 DEF Rated
<1> QED BY <1>11 DEF all, p

(* One that is refused is counted or not.                                  *)
LEMMA RefusesRated ==
  ASSUME NEW ps, NEW bs, NEW bs2, NEW k, NEW window, NEW limit \in Nat, Counts(bs),
         Rated(ps, bs, k, window, limit), Going(bs, k),
         k \in DOMAIN bs2, bs2[k].left = bs[k].left,
         bs2[k].count \in {bs[k].count, bs[k].count + 1}
  PROVE  Rated(ps, bs2, k, window, limit)
<1>1. Going(bs2, k) /\ bs[k].count \in Nat
  BY DEF Going, Counts
<1>2. Cardinality(Since(ps, window - bs[k].left)) \in Nat
  <2>1. Since(ps, window - bs[k].left) \subseteq ps /\ IsFiniteSet(ps)
    BY DEF Since, Rated
  <2> QED BY <2>1, FS_Subset, FS_CardinalityType
<1>3. Cardinality(Since(ps, window - bs[k].left)) <= bs2[k].count
  BY <1>1, <1>2 DEF Rated
<1> QED BY <1>1, <1>3 DEF Rated


(* A tick makes requests older, and no more of them.                       *)
Older(ps) == {<<p[1] + 1, p[2]>> : p \in ps}

LEMMA OlderAreNoMore ==
  ASSUME NEW ps, IsFiniteSet(ps)
  PROVE  /\ IsFiniteSet(Older(ps))
         /\ Cardinality(Older(ps)) <= Cardinality(ps)
<1> DEFINE f == [p \in ps |-> <<p[1] + 1, p[2]>>]
<1>1. f \in Surjection(ps, Older(ps))
  <2>1. f \in [ps -> Older(ps)]
    BY DEF Older
  <2>2. \A q \in Older(ps) : \E p \in ps : f[p] = q
    BY DEF Older
  <2> HIDE DEF f
  <2> QED BY <2>1, <2>2 DEF Surjection
<1> QED BY <1>1, FS_Surjection

LEMMA FewerOlder ==
  ASSUME NEW ps, IsFiniteSet(ps), NEW qs, qs \subseteq Older(ps)
  PROVE  IsFiniteSet(qs) /\ Cardinality(qs) <= Cardinality(ps) /\ Cardinality(qs) \in Nat
<1>1. /\ IsFiniteSet(Older(ps)) /\ Cardinality(Older(ps)) <= Cardinality(ps)
      /\ Cardinality(Older(ps)) \in Nat /\ Cardinality(ps) \in Nat
  BY OlderAreNoMore, FS_CardinalityType
<1>2. IsFiniteSet(qs) /\ Cardinality(qs) <= Cardinality(Older(ps)) /\ Cardinality(qs) \in Nat
  BY <1>1, FS_Subset, FS_CardinalityType
<1> QED BY <1>1, <1>2

LEMMA TicksRated ==
  ASSUME NEW ps, NEW bs, NEW bs2, NEW k, NEW window \in Nat \ {0},
         NEW limit \in Nat \ {0}, Counts(bs), Rated(ps, bs, k, window, limit),
         bs2 = [j \in DOMAIN bs |-> [bs[j] EXCEPT !.left = IF @ = 0 THEN 0 ELSE @ - 1]]
  PROVE  /\ Rated({<<p[1] + 1, p[2]>> : p \in {q \in ps : q[1] + 1 < window}},
                  bs2, k, window, limit)
         /\ Counts(bs2)
<1> DEFINE young == {q \in ps : q[1] + 1 < window}
           qs == Older(young)
<1>1. /\ DOMAIN bs2 = DOMAIN bs
      /\ \A j \in DOMAIN bs :
           /\ bs2[j].count = bs[j].count
           /\ bs2[j].left = IF bs[j].left = 0 THEN 0 ELSE bs[j].left - 1
           /\ bs2[j] \in [count : Nat, left : Nat]
           /\ bs[j].count \in Nat /\ bs[j].left \in Nat
  <2> SUFFICES ASSUME NEW j \in DOMAIN bs
               PROVE  /\ bs2[j].count = bs[j].count
                      /\ bs2[j].left = IF bs[j].left = 0 THEN 0 ELSE bs[j].left - 1
                      /\ bs2[j] \in [count : Nat, left : Nat]
                      /\ bs[j].count \in Nat /\ bs[j].left \in Nat
    OBVIOUS
  <2>1. bs[j] \in [count : Nat, left : Nat]
    BY DEF Counts
  <2>2. bs2[j] = [bs[j] EXCEPT !.left = IF @ = 0 THEN 0 ELSE @ - 1]
    OBVIOUS
  <2> QED BY <2>1, <2>2
<1>2. Counts(bs2)
  BY <1>1 DEF Counts
<1>3. /\ ps \subseteq (0 .. window - 1) \X Nat /\ IsFiniteSet(ps)
      /\ \A p \in ps : p = <<p[1], p[2]>> /\ p[1] \in 0 .. window - 1 /\ p[2] \in Nat
  BY DEF Rated
<1>4. young \subseteq ps /\ IsFiniteSet(young)
  BY <1>3, FS_Subset
<1>5. qs \subseteq (0 .. window - 1) \X Nat /\ IsFiniteSet(qs) /\ \A q \in qs : q[1] # 0
  <2>1. IsFiniteSet(qs)
    BY <1>4, OlderAreNoMore
  <2>2. ASSUME NEW q \in qs
        PROVE  q \in (0 .. window - 1) \X Nat /\ q[1] # 0
    <3>1. PICK p \in young : q = <<p[1] + 1, p[2]>>
      BY DEF Older
    <3>2. p[1] + 1 \in 0 .. window - 1 /\ p[1] + 1 # 0 /\ p[2] \in Nat
      BY <1>3
    <3> QED BY <3>1, <3>2
  <2> QED BY <2>1, <2>2
<1>6. Rated(qs, bs2, k, window, limit)
  <2>1. CASE Going(bs2, k)
    <3> DEFINE age == window - bs[k].left
    <3>1. /\ Going(bs, k) /\ bs[k].left > 1 /\ bs2[k].left = bs[k].left - 1
          /\ bs2[k].count = bs[k].count /\ bs[k].left \in Nat /\ bs[k].count \in Nat
      BY <1>1, <2>1 DEF Going
    <3>2. /\ bs[k].left <= window /\ \E p \in ps : p[1] = age
          /\ Cardinality(Since(ps, age)) <= bs[k].count
          /\ Cardinality(Since(ps, age)) <= limit
          /\ Cardinality(Before(ps, age)) < limit
      BY <3>1 DEF Rated
    <3>3. age \in Nat /\ age + 1 < window /\ window - bs2[k].left = age + 1
      BY <3>1, <3>2
    <3> HIDE DEF age
    <3>4. \E q \in qs : q[1] = age + 1
      <4>1. PICK p \in ps : p[1] = age
        BY <3>2
      <4>2. p \in young
        BY <3>3, <4>1
      <4>3. <<p[1] + 1, p[2]>> \in qs
        BY <4>2 DEF Older
      <4> QED BY <4>1, <4>3
    <3>5. /\ Since(qs, age + 1) \subseteq Older(Since(ps, age))
          /\ Before(qs, age + 1) \subseteq Older(Before(ps, age))
      BY <1>3, <3>3 DEF Since, Before, Older
    <3>6. IsFiniteSet(Since(ps, age)) /\ IsFiniteSet(Before(ps, age))
      BY <1>3, FS_Subset DEF Since, Before
    <3>7. /\ Cardinality(Since(qs, age + 1)) <= Cardinality(Since(ps, age))
          /\ Cardinality(Before(qs, age + 1)) <= Cardinality(Before(ps, age))
          /\ Cardinality(Since(qs, age + 1)) \in Nat /\ Cardinality(Since(ps, age)) \in Nat
          /\ Cardinality(Before(qs, age + 1)) \in Nat /\ Cardinality(Before(ps, age)) \in Nat
      BY <3>5, <3>6, FewerOlder, FS_CardinalityType
    <3>8. /\ Cardinality(Since(qs, age + 1)) <= bs2[k].count
          /\ Cardinality(Since(qs, age + 1)) <= limit
          /\ Cardinality(Before(qs, age + 1)) < limit
          /\ bs2[k].left <= window
      BY <3>1, <3>2, <3>7
    <3> HIDE DEF qs
    <3> QED BY <1>5, <2>1, <3>3, <3>4, <3>8 DEF Rated
  <2>2. CASE ~Going(bs2, k)
    <3>1. Cardinality(qs) < limit
      <4>1. CASE ~Going(bs, k)
        <5>1. Cardinality(ps) < limit
          BY <4>1 DEF Rated
        <5>2. qs \subseteq Older(ps)
          BY DEF Older
        <5> QED BY <1>3, <5>1, <5>2, FewerOlder, FS_CardinalityType
      <4>2. CASE Going(bs, k)
        <5>1. bs[k].left = 1
          BY <1>1, <2>2, <4>2 DEF Going
        <5>2. PICK p \in ps : p[1] = window - 1
          BY <4>2, <5>1 DEF Rated
        <5> DEFINE all == Since(ps, window - 1)
        <5>3. p \in all /\ IsFiniteSet(all) /\ Cardinality(all) <= limit
          <6>1. p \in all
            BY <5>2 DEF Since
          <6>2. all \subseteq ps
            BY DEF Since
          <6>3. Cardinality(all) <= limit
            BY <4>2, <5>1 DEF Rated
          <6> QED BY <1>3, <6>1, <6>2, <6>3, FS_Subset
        <5>4. qs \subseteq Older(all \ {p})
          BY <1>3, <5>2 DEF Older, Since
        <5> HIDE DEF all
        <5>5. /\ IsFiniteSet(all \ {p}) /\ Cardinality(all) \in Nat
              /\ Cardinality(all \ {p}) = Cardinality(all) - 1
          BY <5>3, FS_RemoveElement, FS_CardinalityType
        <5>6. Cardinality(qs) <= Cardinality(all \ {p}) /\ Cardinality(qs) \in Nat
          BY <5>4, <5>5, FewerOlder
        <5> HIDE DEF qs
        <5> QED BY <5>3, <5>5, <5>6
      <4> QED BY <4>1, <4>2
    <3> HIDE DEF qs
    <3> QED BY <1>5, <2>2, <3>1 DEF Rated
  <2> QED BY <2>1, <2>2
<1> QED BY <1>2, <1>6 DEF Older

(* What a request does to a limiter it comes to.                           *)
LEMMA CountedRated ==
  ASSUME RateInv, NEW g \in Limiters, NEW key,
         buckets'[g] = Counted(g, key),
         passed'[g] = IF Passes(g, key)
                        THEN [passed[g] EXCEPT ![key] =
                                @ \cup {<<0, Cardinality({p \in @ : p[1] = 0})>>}]
                        ELSE passed[g]
  PROVE  /\ Counts(buckets'[g]) /\ DOMAIN passed'[g] = DOMAIN passed[g]
         /\ \A k \in DOMAIN passed[g] :
              Rated(passed'[g][k], buckets'[g], k, Window[g], Limit[g])
<1> DEFINE bs == Kept(g)
           bs2 == Counted(g, key)
<1>1. Window[g] \in Nat \ {0} /\ Limit[g] \in Nat \ {0}
  BY LimitsAssumption
<1>2. Counts(bs) /\ \A k \in DOMAIN passed[g] : Rated(passed[g][k], bs, k, Window[g], Limit[g])
  BY KeptGoesOn, RatedAlike DEF RateInv
<1>3. Live(g, key) <=> Going(bs, key)
  BY DEF Live, Going
<1>4. /\ DOMAIN bs2 = DOMAIN bs \cup {key}
      /\ \A j \in DOMAIN bs : j # key => bs2[j] = bs[j]
      /\ Going(bs, key) => bs2[key] = [bs[key] EXCEPT !.count =
                                        IF @ > Limit[g] THEN @ ELSE @ + 1]
      /\ ~Going(bs, key) => bs2[key] = [count |-> 1, left |-> Window[g]]
  BY <1>3 DEF Counted
<1> HIDE DEF bs, bs2
<1>5. Going(bs, key) => /\ bs[key] \in [count : Nat, left : Nat]
                        /\ bs2[key] \in [count : Nat, left : Nat]
                        /\ bs2[key].left = bs[key].left
                        /\ bs2[key].count = IF bs[key].count > Limit[g] THEN bs[key].count
                                            ELSE bs[key].count + 1
  <2> SUFFICES ASSUME Going(bs, key)
               PROVE  /\ bs[key] \in [count : Nat, left : Nat]
                      /\ bs2[key] \in [count : Nat, left : Nat]
                      /\ bs2[key].left = bs[key].left
                      /\ bs2[key].count = IF bs[key].count > Limit[g] THEN bs[key].count
                                          ELSE bs[key].count + 1
    OBVIOUS
  <2>1. bs[key] \in [count : Nat, left : Nat]
    BY <1>2 DEF Going, Counts
  <2> QED BY <1>4, <2>1
<1>6. Counts(bs2)
  <2> SUFFICES ASSUME NEW j \in DOMAIN bs2 PROVE bs2[j] \in [count : Nat, left : Nat]
    BY DEF Counts
  <2>1. CASE j # key
    BY <1>2, <1>4, <2>1 DEF Counts
  <2>2. CASE j = key
    BY <1>1, <1>4, <1>5, <2>2
  <2> QED BY <2>1, <2>2
<1>7. ASSUME NEW k \in DOMAIN passed[g], k # key
      PROVE  passed'[g][k] = passed[g][k] /\ Rated(passed[g][k], bs2, k, Window[g], Limit[g])
  <2>1. Going(bs2, k) <=> Going(bs, k)
    BY <1>4, <1>7 DEF Going
  <2>2. Going(bs, k) => bs2[k] = bs[k]
    BY <1>4, <1>7 DEF Going
  <2> QED BY <1>2, <1>7, <2>1, <2>2, RatedAlike
<1>8. ASSUME key \in DOMAIN passed[g]
      PROVE  Rated(passed'[g][key], bs2, key, Window[g], Limit[g])
  <2> DEFINE ps == passed[g][key]
             now == {p \in ps : p[1] = 0}
             n == Cardinality(now)
  <2>1. IsFiniteSet(ps) /\ Rated(ps, bs, key, Window[g], Limit[g])
    BY <1>2, <1>8 DEF Rated
  <2>2. n \in Nat
    BY <2>1, FS_Subset, FS_CardinalityType
  <2>3. Passes(g, key) <=> (Going(bs, key) => bs[key].count < Limit[g])
    BY <1>3 DEF Passes, bs
  <2>4. CASE Passes(g, key)
    <3>1. passed'[g][key] = ps \cup {<<0, n>>}
      BY <1>8, <2>4
    <3> HIDE DEF ps, n
    <3>2. CASE ~Going(bs, key)
      <4>1. key \in DOMAIN bs2 /\ bs2[key] = [count |-> 1, left |-> Window[g]]
        BY <1>4, <3>2
      <4>2. Rated(ps, bs, key, Window[g], Limit[g])
        BY <1>2, <1>8 DEF ps
      <4>3. n \in Nat
        BY <2>2
      <4>4. Rated(ps \cup {<<0, n>>}, bs2, key, Window[g], Limit[g])
        BY <1>1, <3>2, <4>1, <4>2, <4>3, OpensRated
      <4> QED BY <3>1, <4>4
    <3>3. CASE Going(bs, key)
      <4>1. bs[key].count < Limit[g] /\ bs2[key].count = bs[key].count + 1
            /\ bs2[key].left = bs[key].left /\ key \in DOMAIN bs2
        BY <1>1, <1>4, <1>5, <2>3, <2>4, <3>3
      <4>2. Rated(ps, bs, key, Window[g], Limit[g])
        BY <1>2, <1>8 DEF ps
      <4>3. n \in Nat /\ Counts(bs)
        BY <1>2, <2>2
      <4>4. Rated(ps \cup {<<0, n>>}, bs2, key, Window[g], Limit[g])
        BY <1>1, <3>3, <4>1, <4>2, <4>3, CountsRated
      <4> QED BY <3>1, <4>4
    <3> QED BY <3>2, <3>3
  <2>5. CASE ~Passes(g, key)
    <3>1. passed'[g][key] = ps /\ Going(bs, key)
      BY <2>3, <2>5
    <3> HIDE DEF ps
    <3>2. /\ bs2[key].left = bs[key].left /\ key \in DOMAIN bs2
          /\ bs2[key].count \in {bs[key].count, bs[key].count + 1}
      BY <1>4, <1>5, <3>1
    <3> QED BY <1>1, <1>2, <2>1, <3>1, <3>2, RefusesRated
  <2> QED BY <2>4, <2>5
<1>9. DOMAIN passed'[g] = DOMAIN passed[g]
  OBVIOUS
<1> QED BY <1>6, <1>7, <1>8, <1>9 DEF bs2

LEMMA ThroughKeepsRates ==
  ASSUME RateInv, NEW chain, NEW keys, Through(chain, keys) PROVE RateInv'
<1> DEFINE reached == Reached(chain, keys)
           at(g) == CHOOSE i \in reached : chain[i] = g
           groups == {chain[i] : i \in reached}
<1>1. /\ DOMAIN buckets' = Limiters /\ DOMAIN passed' = Limiters
      /\ \A g \in Limiters \ groups : buckets'[g] = buckets[g] /\ passed'[g] = passed[g]
      /\ \A g \in Limiters \cap groups :
           /\ buckets'[g] = Counted(g, keys[at(g)])
           /\ passed'[g] = IF Passes(g, keys[at(g)])
                             THEN [passed[g] EXCEPT ![keys[at(g)]] =
                                     @ \cup {<<0, Cardinality({p \in @ : p[1] = 0})>>}]
                             ELSE passed[g]
  BY DEF Through
<1>2. ASSUME NEW g \in Limiters
      PROVE  /\ Counts(buckets'[g])
             /\ \A k \in DOMAIN passed'[g] :
                  Rated(passed'[g][k], buckets'[g], k, Window[g], Limit[g])
  <2>1. CASE g \in groups
    <3>1. PICK key : key = keys[at(g)]
      OBVIOUS
    <3>2. /\ buckets'[g] = Counted(g, key)
          /\ passed'[g] = IF Passes(g, key)
                            THEN [passed[g] EXCEPT ![key] =
                                    @ \cup {<<0, Cardinality({p \in @ : p[1] = 0})>>}]
                            ELSE passed[g]
      BY <1>1, <2>1, <3>1
    <3> QED BY <3>2, CountedRated
  <2>2. CASE g \notin groups
    <3>1. buckets'[g] = buckets[g] /\ passed'[g] = passed[g]
      BY <1>1, <2>2
    <3> QED BY <3>1 DEF RateInv
  <2> QED BY <2>1, <2>2
<1> QED BY <1>1, <1>2 DEF RateInv

LEMMA TickKeepsRates == ASSUME RateInv, LimitsTick PROVE RateInv'
<1>1. /\ DOMAIN buckets' = Limiters /\ DOMAIN passed' = Limiters
      /\ \A g \in Limiters :
           /\ buckets'[g] = [k \in DOMAIN buckets[g] |->
                [buckets[g][k] EXCEPT !.left = IF @ = 0 THEN 0 ELSE @ - 1]]
           /\ passed'[g] = [k \in DOMAIN passed[g] |->
                {<<p[1] + 1, p[2]>> : p \in {q \in passed[g][k] : q[1] + 1 < Window[g]}}]
  BY DEF LimitsTick
<1>2. ASSUME NEW g \in Limiters
      PROVE  /\ Counts(buckets'[g])
             /\ \A k \in DOMAIN passed'[g] :
                  Rated(passed'[g][k], buckets'[g], k, Window[g], Limit[g])
  <2> DEFINE bs == buckets[g]
             bs2 == buckets'[g]
  <2>1. Window[g] \in Nat \ {0} /\ Limit[g] \in Nat \ {0}
    BY LimitsAssumption
  <2>2. Counts(bs)
    BY DEF RateInv
  <2>3. bs2 = [j \in DOMAIN bs |-> [bs[j] EXCEPT !.left = IF @ = 0 THEN 0 ELSE @ - 1]]
    BY <1>1
  <2>4. Counts(bs2)
    <3> SUFFICES ASSUME NEW j \in DOMAIN bs PROVE bs2[j] \in [count : Nat, left : Nat]
      BY <2>3 DEF Counts
    <3>1. bs[j] \in [count : Nat, left : Nat]
      BY <2>2 DEF Counts
    <3>2. bs2[j] = [bs[j] EXCEPT !.left = IF @ = 0 THEN 0 ELSE @ - 1]
      BY <2>3
    <3> QED BY <3>1, <3>2
  <2>5. ASSUME NEW k \in DOMAIN passed[g]
        PROVE  Rated(passed'[g][k], bs2, k, Window[g], Limit[g])
    <3> DEFINE ps == passed[g][k]
    <3>1. Rated(ps, bs, k, Window[g], Limit[g])
      BY DEF RateInv
    <3>2. passed'[g][k] = {<<p[1] + 1, p[2]>> : p \in {q \in ps : q[1] + 1 < Window[g]}}
      BY <1>1
    <3> HIDE DEF ps, bs, bs2
    <3> QED BY <2>1, <2>2, <2>3, <3>1, <3>2, TicksRated
  <2> QED BY <1>1, <2>4, <2>5
<1> QED BY <1>1, <1>2 DEF RateInv

(* A process that starts has let nothing through.                          *)
LEMMA NewRates ==
  ASSUME NEW g \in Limiters, NEW k
  PROVE  Counts(<<>>) /\ Rated({}, <<>>, k, Window[g], Limit[g])
<1>1. Limit[g] \in Nat \ {0} /\ Window[g] \in Nat \ {0}
  BY LimitsAssumption
<1>2. DOMAIN <<>> = {}
  OBVIOUS
<1>3. ~Going(<<>>, k) /\ Counts(<<>>)
  BY <1>2 DEF Going, Counts
<1>4. IsFiniteSet({}) /\ Cardinality({}) = 0
  BY FS_EmptySet
<1>5. Cardinality({}) < Limit[g]
  BY <1>1, <1>4
<1> QED BY <1>3, <1>4, <1>5 DEF Rated

LEMMA RateInit == Init => RateInv
<1> SUFFICES ASSUME Init PROVE RateInv
  OBVIOUS
<1>1. /\ buckets = [g \in Limiters |-> <<>>]
      /\ passed = [g \in Limiters |-> [k \in Keys |-> {}]]
  BY DEF Init, LimitsInit, NoBuckets, NonePassed
<1> QED BY <1>1, NewRates DEF RateInv

LEMMA RestartKeepsRates == ASSUME NEW keys, LimitsRestart(keys) PROVE RateInv'
<1>1. /\ buckets' = [g \in Limiters |-> <<>>]
      /\ passed' = [g \in Limiters |-> [k \in keys |-> {}]]
  BY DEF LimitsRestart, NoBuckets, NonePassed
<1> QED BY <1>1, NewRates DEF RateInv

LEMMA SameRates == RateInv /\ UNCHANGED <<buckets, passed>> => RateInv'
BY DEF RateInv

LEMMA RateStep == RateInv /\ [Next]_vars => RateInv'
<1> SUFFICES ASSUME RateInv, [Next]_vars PROVE RateInv'
  OBVIOUS
<1>1. ASSUME NEW a, NEW r, NEW body, NEW g, Post(a, r, body) \/ Get(a, g) PROVE RateInv'
  BY <1>1, ThroughKeepsRates DEF Post, Get
<1>2. ASSUME NEW r, ReadBody(r) \/ Finish(r) \/ Close(r) PROVE RateInv'
  BY <1>2, SameRates DEF ReadBody, Finish, Close
<1>3. CASE LimitsNext
  BY <1>1, <1>2, <1>3 DEF LimitsNext
<1>4. ASSUME NEW m \in sent, Deliver(m) \/ CutAnswer(m) \/ LoseHeartbeat(m) PROVE RateInv'
  BY <1>4, ThroughKeepsRates, SameRates
     DEF Deliver, CutAnswer, Arrives, LoseHeartbeat, limitVars
<1>5. CASE Tick
  BY <1>5, TickKeepsRates DEF Tick
<1>6. CASE ObserverNext
  <2>1. ASSUME NEW n \in Nodes, NEW face,
               SaveSettings(n, face) \/ Send(n) \/ TimeOut(n) \/ StopObserver(n)
                 \/ StartObserver(n)
        PROVE  RateInv'
    BY <2>1, SameRates DEF SaveSettings, Send, TimeOut, StopObserver, StartObserver, limitVars
  <2> QED BY <1>4, <1>5, <1>6, <2>1 DEF ObserverNext
<1>7. CASE Restart
  BY <1>7, RestartKeepsRates DEF Restart, TableLost
<1>8. CASE UNCHANGED limitVars \/ UNCHANGED vars
  BY <1>8, SameRates DEF limitVars, vars
<1> QED BY <1>3, <1>6, <1>7, <1>8 DEF Next

(* In the time of a window a limiter lets through fewer requests of a key  *)
(* than twice its limit, wherever that time begins, however the requests   *)
(* come and whatever the sweeps deleted (httpSecurity.js,                  *)
(* createRateLimiter).                                                     *)
THEOREM RatesAreBounded == Spec => []RateIsBounded
<1>1. Init => RateInv
  BY RateInit
<1>2. RateInv /\ [Next]_vars => RateInv'
  BY RateStep
<1>3. RateInv => RateIsBounded
  <2> SUFFICES ASSUME RateInv, NEW g \in Limiters, NEW k \in DOMAIN passed[g]
               PROVE  Cardinality(passed[g][k]) < 2 * Limit[g]
    BY DEF RateIsBounded
  <2>1. Window[g] \in Nat \ {0} /\ Limit[g] \in Nat \ {0}
    BY LimitsAssumption
  <2> QED BY <2>1, RatedIsBounded DEF RateInv
<1> QED BY <1>1, <1>2, <1>3, PTL DEF Spec


(***************************************************************************)
(* The pages.                                                              *)
(*                                                                         *)
(* A token is the number of its session, a session keeps its user for      *)
(* good, and one that is made has a number no page has seen.  So the token *)
(* a page or a request carries belongs to the user that was shown with it, *)
(* or to no session any more.                                              *)
(***************************************************************************)
(* The sessions s, of m that were made: each has the token of its own      *)
(* number.                                                                 *)
Sound(s, m) ==
  /\ m \in Nat
  /\ \A id \in DOMAIN s :
       /\ id \in 1 .. m
       /\ s[id] = [user |-> s[id].user, token |-> id, state |-> s[id].state]

(* What may become of them: sessions go, new ones have new numbers.        *)
Grows(s, m, s2, m2) ==
  /\ m <= m2
  /\ \A id \in DOMAIN s2 : id <= m => id \in DOMAIN s /\ s2[id].user = s[id].user

(* The token is that of a session of the user, or of none there is now.    *)
Right(s, m, token, user) ==
  /\ token \in 0 .. m
  /\ token \in DOMAIN s => s[token].user = user

PageFields == {"at", "me", "wallet", "challenge", "dialog", "state"}

GoodPage(p, s, m) ==
  /\ DOMAIN p = PageFields
  /\ p.me # Null => Right(s, m, p.me.token, p.me.user)

CallFields == {"kind", "from", "stage", "cookie", "signs", "token", "shown", "wallet",
               "challenge", "signed", "state", "user", "ok", "reply", "setCookie"}

GoodCall(r, s, m) ==
  /\ DOMAIN r = CallFields
  /\ r.from \in Tabs \cup {Null}
  /\ Right(s, m, r.token, r.shown)
  /\ r.ok \in BOOLEAN
  /\ r.stage = "waits" => r.kind # "me"
  /\ r.kind = "me" /\ r.ok => Right(s, m, r.reply.token, r.reply.user)

PagesInv ==
  /\ Sound(session, made)
  /\ DOMAIN tab = Tabs /\ \A t \in Tabs : GoodPage(tab[t], session, made)
  /\ DOMAIN call = Pending
  /\ \A c \in Pending : call[c] # Null => GoodCall(call[c], session, made)

-----------------------------------------------------------------------------
(* The sessions.                                                           *)

LEMMA RightLasts ==
  ASSUME NEW s, NEW m, NEW s2, NEW m2, NEW token, NEW user,
         Sound(s, m), Sound(s2, m2), Grows(s, m, s2, m2), Right(s, m, token, user)
  PROVE  Right(s2, m2, token, user)
BY DEF Sound, Grows, Right

LEMMA PageLasts ==
  ASSUME NEW s, NEW m, NEW s2, NEW m2, NEW p,
         Sound(s, m), Sound(s2, m2), Grows(s, m, s2, m2), GoodPage(p, s, m)
  PROVE  GoodPage(p, s2, m2)
BY RightLasts DEF GoodPage

LEMMA CallLasts ==
  ASSUME NEW s, NEW m, NEW s2, NEW m2, NEW r,
         Sound(s, m), Sound(s2, m2), Grows(s, m, s2, m2), GoodCall(r, s, m)
  PROVE  GoodCall(r, s2, m2)
BY RightLasts DEF GoodCall

LEMMA NothingGrows ==
  ASSUME NEW s, NEW m, Sound(s, m) PROVE Grows(s, m, s, m)
BY DEF Sound, Grows

(* Sessions that are taken away.                                           *)
LEMMA RestrictGrows ==
  ASSUME NEW s, NEW m, NEW gone, Sound(s, m)
  PROVE  LET s2 == Restrict(s, DOMAIN s \ gone) IN Sound(s2, m) /\ Grows(s, m, s2, m)
<1> DEFINE s2 == Restrict(s, DOMAIN s \ gone)
<1>1. DOMAIN s2 = DOMAIN s \ gone /\ \A id \in DOMAIN s2 : s2[id] = s[id]
  BY DEF Restrict
<1> HIDE DEF s2
<1>2. Sound(s2, m) /\ Grows(s, m, s2, m)
  BY <1>1 DEF Sound, Grows
<1> QED BY <1>2 DEF s2

(* A session that is made.                                                 *)
LEMMA NewGrows ==
  ASSUME NEW s, NEW m, NEW user, NEW state, Sound(s, m)
  PROVE  LET s2 == With(s, m + 1, [user |-> user, token |-> m + 1, state |-> state])
         IN /\ Sound(s2, m + 1) /\ Grows(s, m, s2, m + 1)
            /\ m + 1 \in DOMAIN s2 /\ s2[m + 1].user = user
<1> DEFINE new == [user |-> user, token |-> m + 1, state |-> state]
           s2 == With(s, m + 1, new)
<1>1. new = [user |-> new.user, token |-> m + 1, state |-> new.state] /\ new.user = user
  OBVIOUS
<1> HIDE DEF new
<1>2. /\ DOMAIN s2 = DOMAIN s \cup {m + 1} /\ s2[m + 1] = new
      /\ \A id \in DOMAIN s : id # m + 1 => s2[id] = s[id]
  BY DEF With
<1> HIDE DEF s2
<1>3. \A id \in DOMAIN s2 \ {m + 1} : id \in DOMAIN s /\ s2[id] = s[id]
  BY <1>2
<1>4. Sound(s2, m + 1)
  <2>1. m + 1 \in Nat /\ m + 1 \in 1 .. m + 1
    BY DEF Sound
  <2>2. ASSUME NEW id \in DOMAIN s2, id # m + 1
        PROVE  /\ id \in 1 .. m + 1
               /\ s2[id] = [user |-> s2[id].user, token |-> id, state |-> s2[id].state]
    BY <1>3, <2>2 DEF Sound
  <2> QED BY <1>1, <1>2, <2>1, <2>2 DEF Sound
<1>5. Grows(s, m, s2, m + 1)
  BY <1>3 DEF Grows, Sound
<1> QED BY <1>1, <1>2, <1>4, <1>5 DEF new, s2

(* A session whose OAuth state changes.                                    *)
LEMMA StateGrows ==
  ASSUME NEW s, NEW m, NEW s2, NEW i \in DOMAIN s, NEW state, Sound(s, m),
         DOMAIN s2 = DOMAIN s, s2[i] = [s[i] EXCEPT !.state = state],
         \A id \in DOMAIN s \ {i} : s2[id] = s[id]
  PROVE  Sound(s2, m) /\ Grows(s, m, s2, m)
<1>1. s[i] = [user |-> s[i].user, token |-> i, state |-> s[i].state]
  BY DEF Sound
<1>2. [s[i] EXCEPT !.state = state] = [user |-> s[i].user, token |-> i, state |-> state]
  BY <1>1
<1>3. s2[i] = [user |-> s2[i].user, token |-> i, state |-> s2[i].state]
      /\ s2[i].user = s[i].user
  BY <1>2
<1> QED BY <1>3 DEF Sound, Grows

(* rotate: a session with a new number in place of one.                    *)
LEMMA RotatedGrows ==
  ASSUME NEW id, NEW user, Sound(session, made)
  PROVE  LET s2 == Rotated(id, user) IN Sound(s2, made + 1) /\ Grows(session, made, s2, made + 1)
<1> DEFINE s1 == Restrict(session, DOMAIN session \ {id})
           s2 == With(s1, made + 1, [user |-> user, token |-> made + 1, state |-> 0])
<1>1. Sound(s1, made) /\ Grows(session, made, s1, made)
  BY RestrictGrows
<1> HIDE DEF s1
<1>2. Sound(s2, made + 1) /\ Grows(s1, made, s2, made + 1)
  BY <1>1, NewGrows
<1>3. s2 = Rotated(id, user)
  BY DEF s1, s2, Rotated, New
<1> HIDE DEF s2
<1>4. Grows(session, made, s2, made + 1)
  BY <1>1, <1>2 DEF Grows, Sound
<1> QED BY <1>2, <1>3, <1>4

-----------------------------------------------------------------------------
(* The pages and their requests.                                           *)

(* The invariant after a step that changes pages and requests for good     *)
(* ones.                                                                   *)
LEMMA GoodStep ==
  ASSUME PagesInv, Sound(session', made'), Grows(session, made, session', made'),
         DOMAIN tab' = Tabs, DOMAIN call' = Pending,
         \A t \in Tabs : tab'[t] = tab[t] \/ GoodPage(tab'[t], session', made'),
         \A c \in Pending : \/ call'[c] = call[c] \/ call'[c] = Null
                            \/ GoodCall(call'[c], session', made')
  PROVE  PagesInv'
<1>1. \A t \in Tabs : GoodPage(tab[t], session', made')
  BY PageLasts DEF PagesInv
<1>2. \A c \in Pending : call[c] # Null => GoodCall(call[c], session', made')
  BY CallLasts DEF PagesInv
<1>3. \A t \in Tabs : GoodPage(tab'[t], session', made')
  BY <1>1
<1>4. \A c \in Pending : call'[c] # Null => GoodCall(call'[c], session', made')
  BY <1>2
<1> QED BY <1>3, <1>4 DEF PagesInv

(* A step of the page, and one of the server or the browser.               *)
LEMMA SameSessions ==
  ASSUME PagesInv, UNCHANGED <<session, made>>
  PROVE  Sound(session', made') /\ Grows(session, made, session', made')
BY NothingGrows DEF PagesInv

LEMMA RequestIsGood ==
  ASSUME PagesInv, NEW t \in Tabs, NEW kind
  PROVE  GoodCall(Request(t, kind), session, made)
<1> DEFINE r == Request(t, kind)
<1>1. DOMAIN r = CallFields
  BY DEF Request, CallFields
<1>2. r.from = t /\ r.ok = FALSE /\ r.stage = "sent"
  BY DEF Request
<1>3. Right(session, made, r.token, r.shown)
  <2>1. GoodPage(tab[t], session, made) /\ Sound(session, made)
    BY DEF PagesInv
  <2>2. Right(session, made, 0, Null)
    BY <2>1 DEF Right, Sound
  <2>3. CASE tab[t].me = Null
    BY <2>2, <2>3 DEF Request
  <2>4. CASE tab[t].me # Null
    <3>1. r.token = tab[t].me.token /\ r.shown = tab[t].me.user
      BY <2>4 DEF Request
    <3> QED BY <2>1, <2>4, <3>1 DEF GoodPage
  <2> QED BY <2>3, <2>4
<1> HIDE DEF r
<1>4. GoodCall(r, session, made)
  BY <1>1, <1>2, <1>3 DEF GoodCall
<1> QED BY <1>4 DEF r

(* A request is good whatever becomes of its other fields.                 *)
LEMMA LikeIsGood ==
  ASSUME NEW s, NEW m, NEW r, GoodCall(r, s, m), NEW q, DOMAIN q = DOMAIN r,
         q.from \in {r.from, Null}, q.token = r.token, q.shown = r.shown,
         q.ok = r.ok, q.kind = r.kind, q.reply = r.reply,
         q.stage \in {r.stage, "answered"} \/ q.kind # "me"
  PROVE  GoodCall(q, s, m)
BY DEF GoodCall

LEMMA FieldIsGood ==
  ASSUME NEW s, NEW m, NEW r, GoodCall(r, s, m), NEW x
  PROVE  /\ GoodCall([r EXCEPT !.wallet = x], s, m)
         /\ GoodCall([r EXCEPT !.challenge = x], s, m)
         /\ GoodCall([r EXCEPT !.signed = x], s, m)
         /\ GoodCall([r EXCEPT !.state = x], s, m)
         /\ GoodCall([r EXCEPT !.user = x], s, m)
         /\ GoodCall([r EXCEPT !.stage = "answered"], s, m)
         /\ GoodCall([r EXCEPT !.cookie = x], s, m)
         /\ GoodCall([r EXCEPT !.signs = x], s, m)
         /\ GoodCall([r EXCEPT !.setCookie = x], s, m)
         /\ GoodCall([r EXCEPT !.from = Null], s, m)
<1> USE DEF CallFields
<1>1. DOMAIN r = CallFields
  BY DEF GoodCall
<1>2. GoodCall([r EXCEPT !.wallet = x], s, m)
  BY <1>1, LikeIsGood
<1>3. GoodCall([r EXCEPT !.challenge = x], s, m)
  BY <1>1, LikeIsGood
<1>4. GoodCall([r EXCEPT !.signed = x], s, m)
  BY <1>1, LikeIsGood
<1>5. GoodCall([r EXCEPT !.state = x], s, m)
  BY <1>1, LikeIsGood
<1>6. GoodCall([r EXCEPT !.user = x], s, m)
  BY <1>1, LikeIsGood
<1>7. GoodCall([r EXCEPT !.stage = "answered"], s, m)
  BY <1>1, LikeIsGood
<1>8. GoodCall([r EXCEPT !.cookie = x], s, m)
  BY <1>1, LikeIsGood
<1>9. GoodCall([r EXCEPT !.signs = x], s, m)
  BY <1>1, LikeIsGood
<1>10. GoodCall([r EXCEPT !.setCookie = x], s, m)
  BY <1>1, LikeIsGood
<1>11. GoodCall([r EXCEPT !.from = Null], s, m)
  BY <1>1, LikeIsGood
<1> QED BY <1>2, <1>3, <1>4, <1>5, <1>6, <1>7, <1>8, <1>9, <1>10, <1>11

LEMMA FieldOfPage ==
  ASSUME NEW s, NEW m, NEW p, GoodPage(p, s, m), NEW x
  PROVE  /\ GoodPage([p EXCEPT !.wallet = x], s, m)
         /\ GoodPage([p EXCEPT !.challenge = x], s, m)
         /\ GoodPage([p EXCEPT !.dialog = x], s, m)
         /\ GoodPage([p EXCEPT !.at = x], s, m)
         /\ GoodPage([p EXCEPT !.state = x], s, m)
<1> USE DEF PageFields
<1>1. DOMAIN p = PageFields
  BY DEF GoodPage
<1>2. /\ [p EXCEPT !.wallet = x].me = p.me
      /\ DOMAIN [p EXCEPT !.wallet = x] = PageFields
  BY <1>1
<1>3. /\ [p EXCEPT !.challenge = x].me = p.me
      /\ DOMAIN [p EXCEPT !.challenge = x] = PageFields
  BY <1>1
<1>4. /\ [p EXCEPT !.dialog = x].me = p.me
      /\ DOMAIN [p EXCEPT !.dialog = x] = PageFields
  BY <1>1
<1>5. /\ [p EXCEPT !.at = x].me = p.me
      /\ DOMAIN [p EXCEPT !.at = x] = PageFields
  BY <1>1
<1>6. /\ [p EXCEPT !.state = x].me = p.me
      /\ DOMAIN [p EXCEPT !.state = x] = PageFields
  BY <1>1
<1> QED BY <1>2, <1>3, <1>4, <1>5, <1>6 DEF GoodPage

LEMMA ClosedIsGood ==
  ASSUME NEW s, NEW m PROVE GoodPage(Closed, s, m)
<1>1. DOMAIN Closed = PageFields /\ Closed.me = Null
  BY DEF Closed, PageFields
<1> QED BY <1>1 DEF GoodPage

LEMMA SendsGood ==
  ASSUME PagesInv, NEW c \in Pending, NEW r, GoodCall(r, session, made), Sends(c, r)
  PROVE  /\ DOMAIN call' = Pending
         /\ \A d \in Pending : call'[d] = call[d] \/ GoodCall(call'[d], session, made)
BY DEF PagesInv, Sends

LEMMA OpenPageGood ==
  ASSUME PagesInv, NEW t \in Tabs, NEW w, NEW c \in Pending, OpenPage(t, w, c)
  PROVE  PagesInv'
<1>1. UNCHANGED <<session, made>> /\ Sends(c, Request(t, "me"))
  BY DEF OpenPage
<1> DEFINE p == [[Closed EXCEPT !.at = "wallet"] EXCEPT !.wallet = w]
<1>2. GoodPage(p, session, made)
  BY ClosedIsGood, FieldOfPage
<1>3. [Closed EXCEPT !.at = "wallet", !.wallet = w] = p
  OBVIOUS
<1>4. tab' = [tab EXCEPT ![t] = p]
  BY <1>3 DEF OpenPage
<1> HIDE DEF p
<1>5. DOMAIN tab' = Tabs /\ \A u \in Tabs : tab'[u] = tab[u] \/ tab'[u] = p
  BY <1>4 DEF PagesInv
<1> QED BY <1>1, <1>2, <1>5, RequestIsGood, SendsGood, SameSessions, GoodStep

(* A page in another state that shows the same user.                       *)
LEMMA PageStep ==
  ASSUME PagesInv, UNCHANGED <<session, made>>, NEW t \in Tabs, NEW p,
         GoodPage(p, session, made), tab' = [tab EXCEPT ![t] = p],
         DOMAIN call' = Pending,
         \A c \in Pending : call'[c] = call[c] \/ call'[c] = Null
                            \/ GoodCall(call'[c], session, made)
  PROVE  PagesInv'
<1>1. DOMAIN tab' = Tabs /\ \A u \in Tabs : tab'[u] = tab[u] \/ tab'[u] = p
  BY DEF PagesInv
<1> QED BY <1>1, SameSessions, GoodStep

LEMMA TabIsGood ==
  ASSUME PagesInv, NEW t \in Tabs PROVE GoodPage(tab[t], session, made)
BY DEF PagesInv

LEMMA ReplaceWalletGood ==
  ASSUME PagesInv, NEW t \in Tabs, NEW w, ReplaceWallet(t, w) PROVE PagesInv'
<1>1. tab' = [tab EXCEPT ![t] = [tab[t] EXCEPT !.wallet = w]]
  BY DEF ReplaceWallet
<1>2. UNCHANGED <<session, made, call>> /\ DOMAIN call = Pending
  BY DEF ReplaceWallet, PagesInv
<1> QED BY <1>1, <1>2, TabIsGood, FieldOfPage, PageStep

LEMMA SwitchWalletGood ==
  ASSUME PagesInv, NEW t \in Tabs, NEW w, NEW c \in Pending, SwitchWallet(t, w, c)
  PROVE  PagesInv'
<1> DEFINE p == [[tab[t] EXCEPT !.wallet = w] EXCEPT !.challenge = Null]
<1>1. GoodPage(p, session, made)
  BY TabIsGood, FieldOfPage
<1>2. p = [tab[t] EXCEPT !.wallet = w, !.challenge = Null]
  OBVIOUS
<1>3. tab' = [tab EXCEPT ![t] = p]
  BY DEF SwitchWallet, PagesInv
<1> HIDE DEF p
<1>4. UNCHANGED <<session, made>> /\ Sends(c, Request(t, "me"))
  BY DEF SwitchWallet
<1> QED BY <1>1, <1>3, <1>4, RequestIsGood, SendsGood, PageStep

LEMMA PressGood ==
  ASSUME PagesInv, NEW t \in Tabs, NEW kind, NEW c \in Pending, Press(t, kind, c)
  PROVE  PagesInv'
<1> DEFINE r == [Request(t, kind) EXCEPT !.wallet = tab[t].wallet]
<1>1. GoodCall(r, session, made)
  BY RequestIsGood, FieldIsGood
<1>2. UNCHANGED <<tab, session, made>> /\ Sends(c, r)
  BY DEF Press
<1> HIDE DEF r
<1>3. DOMAIN tab' = Tabs
  BY <1>2 DEF PagesInv
<1> QED BY <1>1, <1>2, <1>3, SendsGood, SameSessions, GoodStep

LEMMA SignGood ==
  ASSUME PagesInv, NEW t \in Tabs, SignChallenge(t) \/ Cancel(t) PROVE PagesInv'
<1>1. UNCHANGED <<session, made, call>> /\ DOMAIN call = Pending
  BY DEF SignChallenge, Cancel, PagesInv
<1>2. PICK p : tab' = [tab EXCEPT ![t] = p] /\ GoodPage(p, session, made)
  <2>1. GoodPage(tab[t], session, made)
    BY TabIsGood
  <2>2. \A x : /\ GoodPage([tab[t] EXCEPT !.dialog = x], session, made)
               /\ GoodPage([tab[t] EXCEPT !.challenge = x], session, made)
    BY <2>1, FieldOfPage
  <2>3. \/ \E x : tab' = [tab EXCEPT ![t] = [tab[t] EXCEPT !.dialog = x]]
        \/ tab' = [tab EXCEPT ![t] = [tab[t] EXCEPT !.challenge = Null]]
    BY DEF SignChallenge, Cancel
  <2> QED BY <2>2, <2>3
<1> QED BY <1>1, <1>2, PageStep

LEMMA ConfirmGood ==
  ASSUME PagesInv, NEW t \in Tabs, NEW c \in Pending, Confirm(t, c) PROVE PagesInv'
<1> DEFINE r1 == [Request(t, "verify") EXCEPT !.wallet = tab[t].wallet]
           r2 == [r1 EXCEPT !.challenge = tab[t].challenge.id]
           r  == [r2 EXCEPT !.signed = tab[t].dialog]
<1>1. GoodCall(r, session, made)
  <2>1. GoodCall(r1, session, made)
    BY RequestIsGood, FieldIsGood
  <2> HIDE DEF r1
  <2>2. GoodCall(r2, session, made)
    BY <2>1, FieldIsGood
  <2> HIDE DEF r2
  <2> QED BY <2>2, FieldIsGood
<1>2. r = [Request(t, "verify") EXCEPT !.wallet = tab[t].wallet,
                                       !.challenge = tab[t].challenge.id,
                                       !.signed = tab[t].dialog]
  OBVIOUS
<1>3. Sends(c, r) \/ UNCHANGED call
  BY <1>2 DEF Confirm
<1> HIDE DEF r
<1>4. /\ DOMAIN call' = Pending
      /\ \A d \in Pending : call'[d] = call[d] \/ GoodCall(call'[d], session, made)
  BY <1>1, <1>3, SendsGood DEF PagesInv
<1>5. /\ tab' = [tab EXCEPT ![t] = [tab[t] EXCEPT !.dialog = Null]]
      /\ UNCHANGED <<session, made>>
  BY DEF Confirm
<1> QED BY <1>4, <1>5, TabIsGood, FieldOfPage, PageStep

LEMMA AgreeGood ==
  ASSUME PagesInv, NEW t \in Tabs, NEW u, NEW c \in Pending, Agree(t, u, c) PROVE PagesInv'
<1> DEFINE r1 == [Request(t, "callback") EXCEPT !.state = tab[t].state]
           r  == [r1 EXCEPT !.user = u]
<1>1. GoodCall(r, session, made)
  <2>1. GoodCall(r1, session, made)
    BY RequestIsGood, FieldIsGood
  <2> HIDE DEF r1
  <2> QED BY <2>1, FieldIsGood
<1>2. Sends(c, r)
  BY DEF Agree
<1> HIDE DEF r
<1>3. /\ tab' = [tab EXCEPT ![t] = [tab[t] EXCEPT !.at = "leaving"]]
      /\ UNCHANGED <<session, made>>
  BY DEF Agree
<1> QED BY <1>1, <1>2, <1>3, SendsGood, TabIsGood, FieldOfPage, PageStep

LEMMA ConnectGood ==
  ASSUME PagesInv, NEW t \in Tabs, NEW c \in Pending, Connect(t, c) PROVE PagesInv'
<1>1. GoodPage([Closed EXCEPT !.at = "leaving"], session, made)
  BY ClosedIsGood, FieldOfPage
<1>2. /\ tab' = [tab EXCEPT ![t] = [Closed EXCEPT !.at = "leaving"]]
      /\ UNCHANGED <<session, made>>
  BY DEF Connect
<1>3. /\ DOMAIN call' = Pending
      /\ \A d \in Pending :
           \/ d = c /\ call'[d] = [Request(t, "start") EXCEPT !.state = clicks']
           \/ call[d] # Null /\ call'[d] = [call[d] EXCEPT !.from = Null]
           \/ call'[d] = call[d]
  BY DEF Connect
<1>4. GoodCall([Request(t, "start") EXCEPT !.state = clicks'], session, made)
  BY RequestIsGood, FieldIsGood
<1>5. \A d \in Pending : call[d] # Null =>
        GoodCall([call[d] EXCEPT !.from = Null], session, made)
  BY FieldIsGood DEF PagesInv
<1>6. \A d \in Pending : call'[d] = call[d] \/ GoodCall(call'[d], session, made)
  BY <1>3, <1>4, <1>5
<1> QED BY <1>1, <1>2, <1>3, <1>6, PageStep

-----------------------------------------------------------------------------
(* The server.                                                             *)

LEMMA CallIsGood ==
  ASSUME PagesInv, NEW c \in Pending, call[c] # Null PROVE GoodCall(call[c], session, made)
BY DEF PagesInv

(* What the server does to a request it has, when the page stays.          *)
LEMMA ServerStep ==
  ASSUME PagesInv, Sound(session', made'), Grows(session, made, session', made'),
         UNCHANGED tab, NEW c \in Pending, NEW r, GoodCall(r, session', made'),
         call' = [call EXCEPT ![c] = r]
  PROVE  PagesInv'
<1>1. /\ DOMAIN call' = Pending
      /\ \A d \in Pending : call'[d] = call[d] \/ call'[d] = r
  BY DEF PagesInv
<1>2. DOMAIN tab' = Tabs /\ \A t \in Tabs : tab'[t] = tab[t]
  BY DEF PagesInv
<1> QED BY <1>1, <1>2, GoodStep

LEMMA AsksGood ==
  ASSUME PagesInv, Sound(session', made'), Grows(session, made, session', made'),
         UNCHANGED tab, NEW c \in Pending, call[c] # Null, call[c].kind # "me",
         NEW user, AsksDiscord(c, user)
  PROVE  PagesInv'
<1> DEFINE q == [call[c] EXCEPT !.stage = "waits"]
           r == [q EXCEPT !.user = user]
<1>1. GoodCall(call[c], session', made')
  BY CallIsGood, CallLasts DEF PagesInv
<1>2. GoodCall(r, session', made')
  <2>1. DOMAIN call[c] = CallFields
    BY <1>1 DEF GoodCall
  <2>2. GoodCall(q, session', made')
    BY <1>1, <2>1, LikeIsGood DEF CallFields
  <2> HIDE DEF q
  <2> QED BY <2>2, FieldIsGood
<1>3. call' = [call EXCEPT ![c] = r]
  BY DEF AsksDiscord, PagesInv
<1> HIDE DEF r
<1> QED BY <1>2, <1>3, ServerStep

LEMMA RefusesGood ==
  ASSUME PagesInv, Sound(session', made'), Grows(session, made, session', made'),
         UNCHANGED tab, NEW c \in Pending, call[c] # Null, Refuses(c)
  PROVE  PagesInv'
<1>1. GoodCall(call[c], session', made')
  BY CallIsGood, CallLasts DEF PagesInv
<1>2. GoodCall([call[c] EXCEPT !.stage = "answered"], session', made')
  BY <1>1, FieldIsGood
<1>3. call' = [call EXCEPT ![c] = [call[c] EXCEPT !.stage = "answered"]]
  BY DEF Refuses
<1> QED BY <1>2, <1>3, ServerStep

LEMMA RepliesGood ==
  ASSUME PagesInv, Sound(session', made'), Grows(session, made, session', made'),
         UNCHANGED tab, NEW c \in Pending, call[c] # Null, NEW reply, NEW set,
         Replies(c, reply, set),
         call[c].kind = "me" => Right(session', made', reply.token, reply.user)
  PROVE  PagesInv'
<1> DEFINE r == [call[c] EXCEPT !.stage = "answered", !.ok = TRUE,
                                !.reply = reply, !.setCookie = set]
<1>1. GoodCall(call[c], session', made')
  BY CallIsGood, CallLasts DEF PagesInv
<1>2. DOMAIN call[c] = CallFields
  BY <1>1 DEF GoodCall
<1>3. /\ DOMAIN r = CallFields /\ r.from = call[c].from /\ r.token = call[c].token
      /\ r.shown = call[c].shown /\ r.kind = call[c].kind /\ r.ok = TRUE
      /\ r.reply = reply /\ r.stage = "answered"
  BY <1>2 DEF CallFields
<1>4. call' = [call EXCEPT ![c] = r]
  BY DEF Replies
<1> HIDE DEF r
<1>5. GoodCall(r, session', made')
  BY <1>1, <1>3 DEF GoodCall
<1> QED BY <1>4, <1>5, ServerStep

LEMMA MeGood ==
  ASSUME PagesInv, NEW c \in Pending, call[c] # Null, HandleMe(c), UNCHANGED tab
  PROVE  PagesInv'
<1> DEFINE s == Of(call[c].cookie)
           Me(user, token) ==
             [user |-> user, token |-> token, wallet |-> IF user = Null THEN Null ELSE link[user]]
<1>1. Sound(session, made)
  BY DEF PagesInv
<1>2. CASE /\ s # Null /\ Replies(c, Me(s.user, s.token), 0)
           /\ UNCHANGED <<session, made>>
  <2>1. call[c].cookie \in DOMAIN session /\ s = session[call[c].cookie]
    BY <1>2 DEF Of
  <2>2. s.token = call[c].cookie /\ call[c].cookie \in 1 .. made
    BY <1>1, <2>1 DEF Sound
  <2>3. Right(session, made, s.token, s.user)
    BY <1>1, <2>1, <2>2 DEF Right, Sound
  <2>4. Right(session', made', Me(s.user, s.token).token, Me(s.user, s.token).user)
    BY <1>2, <2>3
  <2> QED BY <1>2, <2>4, SameSessions, RepliesGood
<1>3. CASE /\ s = Null /\ Makes /\ session' = With(session, made', New(Null))
           /\ Replies(c, Me(Null, made'), made')
  <2>1. made' = made + 1
    BY <1>3 DEF Makes
  <2>2. session' = With(session, made + 1, [user |-> Null, token |-> made + 1, state |-> 0])
    BY <1>3, <2>1 DEF New
  <2>3. /\ Sound(session', made') /\ Grows(session, made, session', made')
        /\ session'[made'].user = Null
    BY <1>1, <2>1, <2>2, NewGrows
  <2>4. Right(session', made', made', Null)
    BY <2>3 DEF Right, Sound
  <2>5. Right(session', made', Me(Null, made').token, Me(Null, made').user)
    BY <2>4
  <2> QED BY <1>3, <2>3, <2>5, RepliesGood
<1> QED BY <1>2, <1>3 DEF HandleMe

LEMMA StartGood ==
  ASSUME PagesInv, NEW c \in Pending, call[c] # Null, HandleStart(c), UNCHANGED tab
  PROVE  PagesInv'
<1> DEFINE s  == Of(call[c].cookie)
           id == IF s = Null THEN made + 1 ELSE call[c].cookie
<1>1. Sound(session, made) /\ call[c].kind # "me" /\ Replies(c, call[c].state, id)
  BY DEF PagesInv, HandleStart
<1>2. Sound(session', made') /\ Grows(session, made, session', made')
  <2>1. CASE s = Null
    <3>1. made' = made + 1
      BY <2>1 DEF HandleStart, Makes
    <3>2. session' = With(session, made + 1, [New(Null) EXCEPT !.state = call[c].state])
      BY <2>1 DEF HandleStart
    <3>3. [New(Null) EXCEPT !.state = call[c].state]
          = [user |-> Null, token |-> made + 1, state |-> call[c].state]
      BY DEF New
    <3> QED BY <1>1, <3>1, <3>2, <3>3, NewGrows
  <2>2. CASE s # Null
    <3>1. call[c].cookie \in DOMAIN session /\ s = session[call[c].cookie]
      BY <2>2 DEF Of
    <3>2. made' = made /\ session' = With(session, call[c].cookie, [s EXCEPT !.state = call[c].state])
      BY <2>2 DEF HandleStart
    <3>3. /\ DOMAIN session' = DOMAIN session
          /\ session'[call[c].cookie] = [session[call[c].cookie] EXCEPT !.state = call[c].state]
          /\ \A i \in DOMAIN session \ {call[c].cookie} : session'[i] = session[i]
      BY <3>1, <3>2 DEF With
    <3> HIDE DEF s, id
    <3>4. Sound(session', made) /\ Grows(session, made, session', made)
      BY <1>1, <3>1, <3>3, StateGrows
    <3> QED BY <3>2, <3>4
  <2> QED BY <2>1, <2>2
<1> QED BY <1>1, <1>2, RepliesGood

LEMMA CallbackGood ==
  ASSUME PagesInv, NEW c \in Pending, call[c] # Null, HandleCallback(c), UNCHANGED tab
  PROVE  PagesInv'
<1>1. CASE Refuses(c) /\ UNCHANGED <<session, made>>
  BY <1>1, SameSessions, RefusesGood
<1>2. CASE /\ Of(call[c].cookie) # Null
           /\ session' = [session EXCEPT ![call[c].cookie].state = 0]
           /\ AsksDiscord(c, call[c].user) \/ Refuses(c)
           /\ UNCHANGED made
  <2>1. call[c].cookie \in DOMAIN session
    BY <1>2 DEF Of
  <2>2. /\ DOMAIN session' = DOMAIN session
        /\ session'[call[c].cookie] = [session[call[c].cookie] EXCEPT !.state = 0]
        /\ \A i \in DOMAIN session \ {call[c].cookie} : session'[i] = session[i]
    BY <1>2, <2>1
  <2>3. Sound(session', made') /\ Grows(session, made, session', made')
    BY <1>2, <2>1, <2>2, StateGrows DEF PagesInv
  <2>4. call[c].kind # "me"
    BY DEF HandleCallback
  <2> QED BY <1>2, <2>3, <2>4, AsksGood, RefusesGood
<1> QED BY <1>1, <1>2 DEF HandleCallback

LEMMA ActionGood ==
  ASSUME PagesInv, NEW c \in Pending, call[c] # Null, HandleAction(c), UNCHANGED tab
  PROVE  PagesInv'
<1>1. UNCHANGED <<session, made>> /\ call[c].kind # "me"
  BY DEF HandleAction
<1>2. \/ Refuses(c) \/ (\E user : AsksDiscord(c, user)) \/ (\E reply : Replies(c, reply, 0))
  <2>1. ASSUME NEW user, Acts(c, user)
        PROVE  \/ Refuses(c) \/ AsksDiscord(c, user) \/ (\E reply : Replies(c, reply, 0))
    BY <2>1 DEF Acts
  <2> QED BY <2>1 DEF HandleAction
<1> QED BY <1>1, <1>2, SameSessions, RefusesGood, AsksGood, RepliesGood

LEMMA HandleGood ==
  ASSUME PagesInv, NEW c \in Pending, Handle(c) PROVE PagesInv'
BY MeGood, StartGood, CallbackGood, ActionGood DEF Handle

LEMMA DiscordGood ==
  ASSUME PagesInv, NEW c \in Pending, DiscordAnswers(c) \/ DiscordFails(c) PROVE PagesInv'
<1>1. CASE DiscordFails(c)
  <2>1. call[c] # Null /\ Refuses(c) /\ UNCHANGED <<session, made, tab>>
    BY <1>1 DEF DiscordFails
  <2> QED BY <2>1, SameSessions, RefusesGood
<1>2. CASE DiscordAnswers(c) /\ call[c].kind = "sync"
  <2>1. call[c] # Null /\ Replies(c, Null, 0) /\ UNCHANGED <<session, made, tab>>
    BY <1>2 DEF DiscordAnswers
  <2>2. call[c].kind # "me"
    BY <1>2
  <2> QED BY <2>1, <2>2, SameSessions, RepliesGood
<1>3. CASE DiscordAnswers(c) /\ call[c].kind # "sync"
  <2>1. /\ call[c] # Null /\ UNCHANGED tab /\ made' = made + 1
        /\ session' = Rotated(call[c].cookie, call[c].user) /\ Replies(c, Null, made')
    BY <1>3 DEF DiscordAnswers, Makes
  <2>2. Sound(session', made') /\ Grows(session, made, session', made')
    BY <2>1, RotatedGrows DEF PagesInv
  <2>3. call[c].kind # "me"
    BY <1>3, CallIsGood DEF DiscordAnswers, GoodCall
  <2> QED BY <2>1, <2>2, <2>3, RepliesGood
<1> QED BY <1>1, <1>2, <1>3

LEMMA LostGood ==
  ASSUME PagesInv, SessionsLost \/ \E id \in DOMAIN session : Expire(id) PROVE PagesInv'
<1>1. CASE \E id \in DOMAIN session : Expire(id)
  <2>1. PICK id \in DOMAIN session : Expire(id)
    BY <1>1
  <2>2. /\ UNCHANGED <<tab, call, made>>
        /\ session' = Restrict(session, DOMAIN session \ {id})
    BY <2>1 DEF Expire
  <2>3. Sound(session', made') /\ Grows(session, made, session', made')
    BY <2>2, RestrictGrows DEF PagesInv
  <2>4. DOMAIN tab' = Tabs /\ DOMAIN call' = Pending
    BY <2>2 DEF PagesInv
  <2> QED BY <2>2, <2>3, <2>4, GoodStep
<1>2. CASE SessionsLost
  <2>1. made' = made /\ session' = <<>> /\ DOMAIN <<>> = {}
    BY <1>2 DEF SessionsLost
  <2>2. DOMAIN session' = {}
    BY <2>1
  <2>3. Sound(session', made') /\ Grows(session, made, session', made')
    BY <2>1, <2>2 DEF PagesInv, Sound, Grows
  <2>4. /\ DOMAIN tab' = Tabs /\ \A t \in Tabs : tab'[t] = tab[t] \/ tab'[t] = Closed
        /\ DOMAIN call' = Pending /\ \A c \in Pending : call'[c] = Null
    BY <1>2 DEF SessionsLost
  <2> QED BY <2>3, <2>4, ClosedIsGood, GoodStep
<1> QED BY <1>1, <1>2

-----------------------------------------------------------------------------
(* The browser.                                                            *)

LEMMA ShownGood ==
  ASSUME NEW p, NEW r, GoodPage(p, session, made), GoodCall(r, session, made)
  PROVE  GoodPage(Shown(p, r), session, made)
<1>1. CASE r.ok /\ r.kind = "me"
  <2>1. DOMAIN p = PageFields /\ Shown(p, r) = [p EXCEPT !.me = r.reply]
    BY <1>1 DEF GoodPage, Shown
  <2>2. DOMAIN Shown(p, r) = PageFields /\ Shown(p, r).me = r.reply
    BY <2>1 DEF PageFields
  <2>3. Right(session, made, r.reply.token, r.reply.user)
    BY <1>1 DEF GoodCall
  <2> QED BY <2>2, <2>3 DEF GoodPage
<1>2. CASE ~(r.ok /\ r.kind = "me")
  <2>1. \/ Shown(p, r) = p
        \/ Shown(p, r) = [p EXCEPT !.challenge = [id |-> r.reply, label |-> p.wallet]]
        \/ Shown(p, r) = [p EXCEPT !.challenge = Null]
    BY <1>2 DEF Shown
  <2>2. /\ GoodPage([p EXCEPT !.challenge = [id |-> r.reply, label |-> p.wallet]], session, made)
        /\ GoodPage([p EXCEPT !.challenge = Null], session, made)
    BY FieldOfPage
  <2>3. CASE Shown(p, r) = p
    BY <2>3
  <2>4. CASE Shown(p, r) = [p EXCEPT !.challenge = [id |-> r.reply, label |-> p.wallet]]
    BY <2>2, <2>4
  <2>5. CASE Shown(p, r) = [p EXCEPT !.challenge = Null]
    BY <2>2, <2>5
  <2> QED BY <2>1, <2>3, <2>4, <2>5
<1> QED BY <1>1, <1>2

LEMMA AnsweredGood ==
  ASSUME PagesInv, NEW c \in Pending, Answered(c) PROVE PagesInv'
<1>1. PICK r : r = call[c]
  OBVIOUS
<1>2. PICK t : t = r.from
  OBVIOUS
<1>3. r # Null /\ t # Null /\ UNCHANGED <<session, made>>
  BY <1>1, <1>2 DEF Answered
<1>4. GoodCall(r, session, made) /\ t \in Tabs
  BY <1>1, <1>2, <1>3, CallIsGood DEF GoodCall
<1>5. tab' = [tab EXCEPT ![t] = Shown(tab[t], r)] /\ GoodPage(Shown(tab[t], r), session, made)
  BY <1>1, <1>2, <1>4, ShownGood, TabIsGood DEF Answered
<1>6. PICK x : x = cookie'
  OBVIOUS
<1> DEFINE q == [[Request(t, "me") EXCEPT !.cookie = x] EXCEPT !.signs = r.signs]
<1>7. GoodCall(q, session, made)
  BY <1>4, RequestIsGood, FieldIsGood
<1>8. q = [Request(t, "me") EXCEPT !.cookie = x, !.signs = r.signs]
  OBVIOUS
<1>9. call' = [call EXCEPT ![c] = q] \/ call' = [call EXCEPT ![c] = Null]
  BY <1>1, <1>2, <1>6, <1>8 DEF Answered
<1> HIDE DEF q
<1>10. /\ DOMAIN call' = Pending
       /\ \A d \in Pending : call'[d] = call[d] \/ call'[d] = Null \/ call'[d] = q
  BY <1>9 DEF PagesInv
<1> QED BY <1>3, <1>4, <1>5, <1>7, <1>10, PageStep

LEMMA EndedGood ==
  ASSUME PagesInv, NEW c \in Pending, Ended(c)
  PROVE  DOMAIN call' = Pending /\ \A d \in Pending : call'[d] = call[d] \/ call'[d] = Null
BY DEF PagesInv, Ended

LEMMA RedirectedGood ==
  ASSUME PagesInv, NEW c \in Pending, Redirected(c) PROVE PagesInv'
<1>1. UNCHANGED <<session, made>> /\ Ended(c)
  BY DEF Redirected
<1>2. PICK t, x : tab' = [tab EXCEPT ![t].at = "discord", ![t].state = x]
                  \/ tab' = [tab EXCEPT ![t] = Closed]
  BY DEF Redirected
<1>3. \A u \in Tabs : GoodPage([[tab[u] EXCEPT !.at = "discord"] EXCEPT !.state = x],
                              session, made)
  <2> SUFFICES ASSUME NEW u \in Tabs
               PROVE GoodPage([[tab[u] EXCEPT !.at = "discord"] EXCEPT !.state = x], session, made)
    OBVIOUS
  <2> DEFINE p == [tab[u] EXCEPT !.at = "discord"]
  <2>1. GoodPage(p, session, made)
    BY TabIsGood, FieldOfPage
  <2> HIDE DEF p
  <2>2. GoodPage([p EXCEPT !.state = x], session, made)
    BY <2>1, FieldOfPage
  <2> QED BY <2>2 DEF p
<1> DEFINE left(u) == [[tab[u] EXCEPT !.at = "discord"] EXCEPT !.state = x]
<1>4. /\ DOMAIN tab' = Tabs
      /\ \A u \in Tabs : \/ tab'[u] = tab[u] \/ tab'[u] = Closed \/ tab'[u] = left(u)
  BY <1>2 DEF PagesInv
<1>5. \A u \in Tabs : GoodPage(left(u), session, made)
  BY <1>3
<1> HIDE DEF left
<1>6. GoodPage(Closed, session, made)
  BY ClosedIsGood
<1>7. \A u \in Tabs : tab'[u] = tab[u] \/ GoodPage(tab'[u], session, made)
  BY <1>4, <1>5, <1>6
<1> QED BY <1>1, <1>4, <1>7, EndedGood, SameSessions, GoodStep

LEMMA DroppedGood ==
  ASSUME PagesInv, NEW c \in Pending, Dropped(c) PROVE PagesInv'
<1>1. UNCHANGED <<session, made>> /\ Ended(c)
  BY DEF Dropped
<1>2. DOMAIN tab' = Tabs /\ \A t \in Tabs : tab'[t] = tab[t] \/ tab'[t] = Closed
  BY DEF Dropped, PagesInv
<1> QED BY <1>1, <1>2, EndedGood, ClosedIsGood, SameSessions, GoodStep

LEMMA PagesInit == Init => PagesInv
<1> SUFFICES ASSUME Init PROVE PagesInv
  OBVIOUS
<1>1. PICK user, linked, w : PageInit(user, linked, w)
  BY DEF Init
<1>2. made \in {0, 1} /\ made \in Nat
  BY <1>1 DEF PageInit
<1>3. session = [id \in 1 .. made |-> [user |-> user, token |-> id, state |-> 0]]
  BY <1>1 DEF PageInit
<1>4. Sound(session, made)
  BY <1>2, <1>3 DEF Sound
<1>5. CASE user = Null
  <2>1. tab = [t \in Tabs |-> Closed] /\ call = [c \in Pending |-> Null]
    BY <1>1, <1>5 DEF PageInit
  <2> QED BY <1>4, <2>1, ClosedIsGood DEF PagesInv
<1>6. CASE user # Null
  <2> DEFINE p == [Closed EXCEPT !.at = "wallet", !.wallet = w,
                     !.me = [user |-> user, token |-> 1, wallet |-> linked]]
  <2>1. tab = [t \in Tabs |-> p] /\ call = [c \in Pending |-> Null] /\ made = 1
    BY <1>1, <1>6 DEF PageInit
  <2>2. DOMAIN p = PageFields /\ p.me.token = 1 /\ p.me.user = user
    BY DEF Closed, PageFields
  <2> HIDE DEF p
  <2>3. Right(session, made, 1, user)
    BY <1>3, <2>1 DEF Right
  <2>4. GoodPage(p, session, made)
    BY <2>2, <2>3 DEF GoodPage
  <2> QED BY <1>4, <2>1, <2>4 DEF PagesInv
<1> QED BY <1>5, <1>6

LEMMA PagesSame == PagesInv /\ UNCHANGED pageVars => PagesInv'
BY DEF PagesInv, pageVars

LEMMA PagesStep == PagesInv /\ [Next]_vars => PagesInv'
<1> SUFFICES ASSUME PagesInv, [Next]_vars PROVE PagesInv'
  OBVIOUS
<1>1. CASE UNCHANGED pageVars
  BY <1>1, PagesSame
<1>2. CASE PageNext
  <2>1. ASSUME NEW t \in Tabs, NEW c \in Pending,
               \/ \E w \in Wallets : OpenPage(t, w, c) \/ SwitchWallet(t, w, c)
               \/ \E kind \in {"challenge", "sync", "privacy", "unlink"} : Press(t, kind, c)
               \/ Confirm(t, c)
               \/ Connect(t, c)
               \/ \E u \in Users : Agree(t, u, c)
        PROVE  PagesInv'
    BY <2>1, OpenPageGood, SwitchWalletGood, PressGood, ConfirmGood, ConnectGood, AgreeGood
  <2>2. ASSUME NEW t \in Tabs,
               SignChallenge(t) \/ Cancel(t) \/ \E w \in Wallets : ReplaceWallet(t, w)
        PROVE  PagesInv'
    BY <2>2, SignGood, ReplaceWalletGood
  <2>3. ASSUME NEW c \in Pending,
               \/ Handle(c) \/ DiscordAnswers(c) \/ DiscordFails(c)
               \/ Answered(c) \/ Redirected(c) \/ Dropped(c)
        PROVE  PagesInv'
    BY <2>3, HandleGood, DiscordGood, AnsweredGood, RedirectedGood, DroppedGood
  <2>4. CASE \E id \in DOMAIN session : Expire(id)
    BY <2>4, LostGood
  <2> QED BY <1>2, <2>1, <2>2, <2>3, <2>4 DEF PageNext
<1>3. CASE Restart
  BY <1>3, LostGood DEF Restart
<1> QED BY <1>1, <1>2, <1>3 DEF Next, vars

-----------------------------------------------------------------------------
(* What the server acts for.                                               *)

LEMMA ActedStep ==
  PagesInv /\ ActsForShownUser /\ [Next]_vars => ActsForShownUser'
<1> SUFFICES ASSUME PagesInv, ActsForShownUser, [Next]_vars PROVE ActsForShownUser'
  OBVIOUS
<1>1. CASE UNCHANGED acted
  BY <1>1 DEF ActsForShownUser
<1>2. ASSUME NEW c \in Pending, call[c] # Null, HandleAction(c) PROVE ActsForShownUser'
  <2>1. CASE Allowed(call[c])
               /\ acted' = acted \cup {[user |-> session[call[c].cookie].user,
                                       shown |-> call[c].shown]}
    <3>1. /\ call[c].cookie \in DOMAIN session
          /\ call[c].token = session[call[c].cookie].token
      BY <2>1 DEF Allowed, Of
    <3>2. call[c].token = call[c].cookie
      BY <3>1 DEF PagesInv, Sound
    <3>3. session[call[c].cookie].user = call[c].shown
      BY <1>2, <3>1, <3>2, CallIsGood DEF GoodCall, Right
    <3> QED BY <2>1, <3>3 DEF ActsForShownUser
  <2> QED BY <1>1, <1>2, <2>1 DEF HandleAction
<1>3. CASE PageNext
  <2>1. ASSUME NEW c \in Pending, Handle(c) PROVE ActsForShownUser'
    BY <1>1, <1>2, <2>1 DEF Handle, HandleMe, HandleStart, HandleCallback
  <2> QED BY <1>1, <1>3, <2>1 DEF PageNext, OpenPage, SwitchWallet, Press, Confirm, Connect,
             Agree, SignChallenge, Cancel, ReplaceWallet, DiscordAnswers, DiscordFails,
             Answered, Redirected, Dropped, Expire
<1> QED BY <1>1, <1>3 DEF Next, Restart, SessionsLost, pageVars, vars

(* Whatever the pages of a browser do while sessions are rotated, expire   *)
(* or go down with the server, it acts for the user that was shown where   *)
(* the button was pressed (sessions.js, rotate and requireCsrf).           *)
THEOREM ActsForShown == Spec => []ActsForShownUser
<1>1. Init => PagesInv /\ ActsForShownUser
  BY PagesInit DEF Init, PageInit, ActsForShownUser
<1>2. PagesInv /\ ActsForShownUser /\ [Next]_vars => (PagesInv /\ ActsForShownUser)'
  BY PagesStep, ActedStep
<1> QED BY <1>1, <1>2, PTL DEF Spec

-----------------------------------------------------------------------------
(* What was signed.                                                        *)

(* A request to link carries what was signed, and a challenge is used up   *)
(* only by a signature of its own wallet under its own message.            *)
SignedInv ==
  /\ DOMAIN call = Pending
  /\ \A c \in Pending :
       call[c] # Null => /\ DOMAIN call[c] = CallFields
                         /\ call[c].kind = "verify" => call[c].signed \in signatures
  /\ \A id \in DOMAIN challenge :
       /\ challenge[id] = [user |-> challenge[id].user, wallet |-> challenge[id].wallet,
                           used |-> challenge[id].used]
       /\ challenge[id].used => [message |-> id, by |-> challenge[id].wallet] \in signatures

(* The same request, as far as what was signed goes.                       *)
SameSigned(q, r) == DOMAIN q = DOMAIN r /\ q.kind = r.kind /\ q.signed = r.signed

LEMMA SignedCalls ==
  ASSUME SignedInv, signatures \subseteq signatures', UNCHANGED challenge,
         DOMAIN call' = Pending,
         \A c \in Pending : \/ call'[c] = call[c] \/ call'[c] = Null
                            \/ call[c] # Null /\ SameSigned(call'[c], call[c])
                            \/ /\ DOMAIN call'[c] = CallFields
                               /\ \/ call'[c].kind # "verify"
                                  \/ call'[c].signed \in signatures'
  PROVE  SignedInv'
<1>1. \A c \in Pending :
        call'[c] # Null => /\ DOMAIN call'[c] = CallFields
                           /\ call'[c].kind = "verify" => call'[c].signed \in signatures'
  BY DEF SignedInv, SameSigned
<1>2. \A id \in DOMAIN challenge' :
       /\ challenge'[id] = [user |-> challenge'[id].user, wallet |-> challenge'[id].wallet,
                            used |-> challenge'[id].used]
       /\ challenge'[id].used => [message |-> id, by |-> challenge'[id].wallet] \in signatures'
  BY DEF SignedInv
<1> QED BY <1>1, <1>2 DEF SignedInv

(* A request that is sent.                                                 *)
LEMMA SignedSends ==
  ASSUME SignedInv, UNCHANGED <<signatures, challenge>>, NEW c \in Pending, NEW r,
         DOMAIN r = CallFields, r.kind # "verify", Sends(c, r)
  PROVE  SignedInv'
<1>1. /\ DOMAIN call' = Pending
      /\ \A d \in Pending : call'[d] = call[d] \/ call'[d] = r
  BY DEF SignedInv, Sends
<1> QED BY <1>1, SignedCalls

LEMMA RequestFields ==
  ASSUME NEW t, NEW kind
  PROVE  DOMAIN Request(t, kind) = CallFields /\ Request(t, kind).kind = kind
BY DEF Request, CallFields

LEMMA SignedPage ==
  ASSUME SignedInv, NEW t \in Tabs, NEW c \in Pending,
         \/ \E w \in Wallets : OpenPage(t, w, c) \/ SwitchWallet(t, w, c)
         \/ \E kind \in {"challenge", "sync", "privacy", "unlink"} : Press(t, kind, c)
         \/ \E u \in Users : Agree(t, u, c)
  PROVE  SignedInv'
<1>1. UNCHANGED <<signatures, challenge>>
  BY DEF OpenPage, SwitchWallet, Press, Agree
<1>2. CASE \E w \in Wallets : OpenPage(t, w, c) \/ SwitchWallet(t, w, c)
  <2>1. Sends(c, Request(t, "me"))
    BY <1>2 DEF OpenPage, SwitchWallet
  <2>2. DOMAIN Request(t, "me") = CallFields /\ Request(t, "me").kind # "verify"
    BY RequestFields
  <2> QED BY <1>1, <2>1, <2>2, SignedSends
<1>3. ASSUME NEW kind \in {"challenge", "sync", "privacy", "unlink"}, Press(t, kind, c)
      PROVE  SignedInv'
  <2> DEFINE q == Request(t, kind)
             r == [q EXCEPT !.wallet = tab[t].wallet]
  <2>1. DOMAIN q = CallFields /\ q.kind = kind
    BY RequestFields
  <2>2. Sends(c, r)
    BY <1>3 DEF Press
  <2> HIDE DEF q
  <2>3. DOMAIN r = CallFields /\ r.kind # "verify"
    BY <2>1 DEF CallFields
  <2> HIDE DEF r
  <2> QED BY <1>1, <2>2, <2>3, SignedSends
<1>4. ASSUME NEW u, Agree(t, u, c) PROVE SignedInv'
  <2> DEFINE q == Request(t, "callback")
             r == [q EXCEPT !.state = tab[t].state, !.user = u]
  <2>1. DOMAIN q = CallFields /\ q.kind = "callback"
    BY RequestFields
  <2>2. Sends(c, r)
    BY <1>4 DEF Agree
  <2> HIDE DEF q
  <2>3. DOMAIN r = CallFields /\ r.kind # "verify"
    BY <2>1 DEF CallFields
  <2> HIDE DEF r
  <2> QED BY <1>1, <2>2, <2>3, SignedSends
<1> QED BY <1>2, <1>3, <1>4

(* What is sent to link is what was just signed.                           *)
LEMMA SignedConfirm ==
  ASSUME SignedInv, NEW t \in Tabs, NEW c \in Pending, Confirm(t, c) PROVE SignedInv'
<1> DEFINE q == Request(t, "verify")
           r == [q EXCEPT !.wallet = tab[t].wallet, !.challenge = tab[t].challenge.id,
                          !.signed = tab[t].dialog]
<1>1. DOMAIN q = CallFields
  BY RequestFields
<1>2. /\ signatures' = signatures \cup {tab[t].dialog} /\ UNCHANGED challenge
      /\ UNCHANGED call \/ Sends(c, r)
  BY DEF Confirm
<1> HIDE DEF q
<1>3. DOMAIN r = CallFields /\ r.signed = tab[t].dialog
  BY <1>1 DEF CallFields
<1> HIDE DEF r
<1>4. /\ DOMAIN call' = Pending
      /\ \A d \in Pending : call'[d] = call[d] \/ call'[d] = r
  BY <1>2 DEF SignedInv, Sends
<1> QED BY <1>2, <1>3, <1>4, SignedCalls

LEMMA SignedConnect ==
  ASSUME SignedInv, NEW t \in Tabs, NEW c \in Pending, Connect(t, c) PROVE SignedInv'
<1> DEFINE q == Request(t, "start")
           r == [q EXCEPT !.state = clicks']
<1>1. DOMAIN q = CallFields /\ q.kind = "start"
  BY RequestFields
<1>2. /\ UNCHANGED <<signatures, challenge>> /\ DOMAIN call' = Pending
      /\ \A d \in Pending :
           \/ d = c /\ call'[d] = r
           \/ call[d] # Null /\ call'[d] = [call[d] EXCEPT !.from = Null]
           \/ call'[d] = call[d]
  BY DEF Connect
<1> HIDE DEF q
<1>3. DOMAIN r = CallFields /\ r.kind # "verify"
  BY <1>1 DEF CallFields
<1> HIDE DEF r
<1>4. \A d \in Pending : call[d] # Null => SameSigned([call[d] EXCEPT !.from = Null], call[d])
  BY DEF SignedInv, SameSigned, CallFields
<1>5. \A d \in Pending : \/ call'[d] = call[d] \/ call'[d] = r
                         \/ call[d] # Null /\ SameSigned(call'[d], call[d])
  BY <1>2, <1>4
<1> QED BY <1>2, <1>3, <1>5, SignedCalls

(* What the server does to a request changes nothing of what it carries.   *)
LEMMA ServerKeeps ==
  ASSUME SignedInv, NEW c \in Pending, call[c] # Null,
         \/ Refuses(c) \/ (\E user : AsksDiscord(c, user))
         \/ (\E reply, set : Replies(c, reply, set))
  PROVE  /\ DOMAIN call' = Pending
         /\ \A d \in Pending : \/ call'[d] = call[d]
                               \/ call[d] # Null /\ SameSigned(call'[d], call[d])
<1>1. DOMAIN call[c] = CallFields /\ DOMAIN call = Pending
  BY DEF SignedInv
<1>2. \E r : call' = [call EXCEPT ![c] = r] /\ SameSigned(r, call[c])
  <2>1. CASE Refuses(c)
    <3> DEFINE r == [call[c] EXCEPT !.stage = "answered"]
    <3>1. call' = [call EXCEPT ![c] = r]
      BY <2>1 DEF Refuses
    <3>2. DOMAIN r = CallFields /\ r.kind = call[c].kind /\ r.signed = call[c].signed
      BY <1>1 DEF CallFields
    <3> HIDE DEF r
    <3> QED BY <1>1, <3>1, <3>2 DEF SameSigned
  <2>2. ASSUME NEW user, AsksDiscord(c, user)
        PROVE  \E r : call' = [call EXCEPT ![c] = r] /\ SameSigned(r, call[c])
    <3> DEFINE r == [call[c] EXCEPT !.stage = "waits", !.user = user]
    <3>1. call' = [call EXCEPT ![c] = r]
      BY <2>2 DEF AsksDiscord
    <3>2. DOMAIN r = CallFields /\ r.kind = call[c].kind /\ r.signed = call[c].signed
      BY <1>1 DEF CallFields
    <3> HIDE DEF r
    <3> QED BY <1>1, <3>1, <3>2 DEF SameSigned
  <2>3. ASSUME NEW reply, NEW set, Replies(c, reply, set)
        PROVE  \E r : call' = [call EXCEPT ![c] = r] /\ SameSigned(r, call[c])
    <3> DEFINE r == [call[c] EXCEPT !.stage = "answered", !.ok = TRUE,
                                  !.reply = reply, !.setCookie = set]
    <3>1. call' = [call EXCEPT ![c] = r]
      BY <2>3 DEF Replies
    <3>2. DOMAIN r = CallFields /\ r.kind = call[c].kind /\ r.signed = call[c].signed
      BY <1>1 DEF CallFields
    <3> HIDE DEF r
    <3> QED BY <1>1, <3>1, <3>2 DEF SameSigned
  <2> QED BY <2>1, <2>2, <2>3
<1>3. PICK r : call' = [call EXCEPT ![c] = r] /\ SameSigned(r, call[c])
  BY <1>2
<1>4. DOMAIN call' = Pending /\ \A d \in Pending : call'[d] = call[d] \/ (d = c /\ call'[d] = r)
  BY <1>1, <1>3
<1> QED BY <1>3, <1>4

LEMMA SignedHandle ==
  ASSUME SignedInv, NEW c \in Pending, Handle(c) PROVE SignedInv'
<1>1. /\ call[c] # Null /\ UNCHANGED signatures
      /\ HandleMe(c) \/ HandleStart(c) \/ HandleCallback(c) \/ HandleAction(c)
  BY DEF Handle
<1>2. CASE UNCHANGED challenge
  <2>1. \/ Refuses(c) \/ (\E user : AsksDiscord(c, user))
        \/ (\E reply, set : Replies(c, reply, set))
    BY <1>1 DEF HandleMe, HandleStart, HandleCallback, HandleAction, Acts
  <2> QED BY <1>1, <1>2, <2>1, ServerKeeps, SignedCalls
<1>3. ASSUME NEW user, Acts(c, user), ~UNCHANGED challenge PROVE SignedInv'
  <2>1. \/ (AsksDiscord(c, user)) \/ (\E reply, set : Replies(c, reply, set))
    BY <1>3 DEF Acts
  <2>2. /\ DOMAIN call' = Pending
        /\ \A d \in Pending : \/ call'[d] = call[d]
                              \/ call[d] # Null /\ SameSigned(call'[d], call[d])
    BY <1>1, <2>1, ServerKeeps
  <2>3. \A d \in Pending : call'[d] # Null =>
          /\ DOMAIN call'[d] = CallFields
          /\ call'[d].kind = "verify" => call'[d].signed \in signatures'
    BY <1>1, <2>2 DEF SignedInv, SameSigned
  <2> DEFINE Used(ch, id) ==
        /\ ch[id] = [user |-> ch[id].user, wallet |-> ch[id].wallet, used |-> ch[id].used]
        /\ ch[id].used => [message |-> id, by |-> ch[id].wallet] \in signatures
  <2>4. \A id \in DOMAIN challenge : Used(challenge, id)
    BY DEF SignedInv
  <2>5. CASE call[c].kind = "challenge"
    <3>1. PICK id, new : /\ challenge' = With(challenge, id, new)
                         /\ new = [user |-> user, wallet |-> call[c].wallet, used |-> FALSE]
      BY <1>3, <2>5 DEF Acts
    <3>2. /\ DOMAIN challenge' = DOMAIN challenge \cup {id} /\ challenge'[id] = new
          /\ \A i \in DOMAIN challenge : i # id => challenge'[i] = challenge[i]
      BY <3>1 DEF With
    <3>3. Used(challenge', id)
      BY <3>1, <3>2
    <3>4. \A i \in DOMAIN challenge' : i # id => Used(challenge', i)
      BY <2>4, <3>2
    <3>5. \A i \in DOMAIN challenge' : Used(challenge', i)
      BY <3>3, <3>4
    <3> QED BY <1>1, <2>2, <2>3, <3>5 DEF SignedInv
  <2>6. CASE call[c].kind = "verify"
    <3> DEFINE r == call[c]
    <3>1. /\ Verified(r, user)
          /\ challenge' = [challenge EXCEPT ![r.challenge].used = TRUE]
      BY <1>3, <2>6 DEF Acts
    <3>2. r.signed \in signatures
      BY <1>1, <2>6 DEF SignedInv
    <3>3. [message |-> r.challenge, by |-> challenge[r.challenge].wallet] \in signatures
      BY <3>1, <3>2 DEF Verified
    <3>4. PICK id : id = r.challenge
      OBVIOUS
    <3> HIDE DEF r
    <3>5. /\ DOMAIN challenge' = DOMAIN challenge
          /\ \A i \in DOMAIN challenge : i # id => challenge'[i] = challenge[i]
          /\ id \in DOMAIN challenge => challenge'[id] = [challenge[id] EXCEPT !.used = TRUE]
      BY <3>1, <3>4
    <3>6. \A i \in DOMAIN challenge' : i # id => Used(challenge', i)
      BY <2>4, <3>5
    <3>7. id \in DOMAIN challenge => Used(challenge', id)
      <4>1. SUFFICES ASSUME id \in DOMAIN challenge PROVE Used(challenge', id)
        OBVIOUS
      <4>2. challenge[id] = [user |-> challenge[id].user, wallet |-> challenge[id].wallet,
                             used |-> challenge[id].used]
        BY <2>4, <4>1
      <4>3. challenge'[id] = [user |-> challenge[id].user, wallet |-> challenge[id].wallet,
                              used |-> TRUE]
        BY <3>5, <4>1, <4>2
      <4>4. challenge'[id].wallet = challenge[id].wallet
        BY <4>3
      <4> QED BY <3>3, <3>4, <4>3, <4>4
    <3>8. \A i \in DOMAIN challenge' : Used(challenge', i)
      BY <3>5, <3>6, <3>7
    <3> QED BY <1>1, <2>2, <2>3, <3>8 DEF SignedInv
  <2> QED BY <1>3, <2>5, <2>6 DEF Acts
<1> QED BY <1>1, <1>2, <1>3 DEF HandleMe, HandleStart, HandleCallback, HandleAction

LEMMA SignedDiscord ==
  ASSUME SignedInv, NEW c \in Pending, DiscordAnswers(c) \/ DiscordFails(c) PROVE SignedInv'
<1>1. /\ call[c] # Null /\ UNCHANGED <<signatures, challenge>>
      /\ Refuses(c) \/ (\E reply, set : Replies(c, reply, set))
  BY DEF DiscordAnswers, DiscordFails
<1> QED BY <1>1, ServerKeeps, SignedCalls

LEMMA SignedBrowser ==
  ASSUME SignedInv, NEW c \in Pending, Answered(c) \/ Redirected(c) \/ Dropped(c)
  PROVE  SignedInv'
<1>1. UNCHANGED <<signatures, challenge>> /\ DOMAIN call = Pending
  BY DEF Answered, Redirected, Dropped, SignedInv
<1>2. CASE Ended(c)
  BY <1>1, <1>2, SignedCalls DEF Ended
<1>3. CASE Answered(c) /\ ~Ended(c)
  <2>1. PICK t : t = call[c].from
    OBVIOUS
  <2> DEFINE q == Request(t, "me")
             r == [q EXCEPT !.cookie = cookie', !.signs = call[c].signs]
  <2>2. DOMAIN q = CallFields /\ q.kind = "me"
    BY RequestFields
  <2>3. call' = [call EXCEPT ![c] = r]
    BY <1>3, <2>1 DEF Answered, Ended
  <2> HIDE DEF q
  <2>4. DOMAIN r = CallFields /\ r.kind # "verify"
    BY <2>2 DEF CallFields
  <2> HIDE DEF r
  <2>5. /\ DOMAIN call' = Pending
        /\ \A d \in Pending : call'[d] = call[d] \/ call'[d] = r
    BY <1>1, <2>3
  <2> QED BY <1>1, <2>4, <2>5, SignedCalls
<1> QED BY <1>2, <1>3 DEF Redirected, Dropped

LEMMA SignedSame ==
  SignedInv /\ UNCHANGED <<call, challenge, signatures>> => SignedInv'
BY DEF SignedInv

LEMMA SignedStep == SignedInv /\ [Next]_vars => SignedInv'
<1> SUFFICES ASSUME SignedInv, [Next]_vars PROVE SignedInv'
  OBVIOUS
<1>1. CASE UNCHANGED pageVars
  BY <1>1, SignedSame DEF pageVars
<1>2. CASE PageNext
  <2>1. ASSUME NEW t \in Tabs, NEW c \in Pending,
               \/ \E w \in Wallets : OpenPage(t, w, c) \/ SwitchWallet(t, w, c)
               \/ \E kind \in {"challenge", "sync", "privacy", "unlink"} : Press(t, kind, c)
               \/ Confirm(t, c)
               \/ Connect(t, c)
               \/ \E u \in Users : Agree(t, u, c)
        PROVE  SignedInv'
    BY <2>1, SignedPage, SignedConfirm, SignedConnect
  <2>2. ASSUME NEW t \in Tabs,
               SignChallenge(t) \/ Cancel(t) \/ \E w \in Wallets : ReplaceWallet(t, w)
        PROVE  SignedInv'
    BY <2>2, SignedSame DEF SignChallenge, Cancel, ReplaceWallet
  <2>3. ASSUME NEW c \in Pending,
               \/ Handle(c) \/ DiscordAnswers(c) \/ DiscordFails(c)
               \/ Answered(c) \/ Redirected(c) \/ Dropped(c)
        PROVE  SignedInv'
    BY <2>3, SignedHandle, SignedDiscord, SignedBrowser
  <2>4. CASE \E id \in DOMAIN session : Expire(id)
    BY <2>4, SignedSame DEF Expire
  <2> QED BY <1>2, <2>1, <2>2, <2>3, <2>4 DEF PageNext
<1>3. CASE Restart
  <2>1. /\ UNCHANGED <<challenge, signatures>> /\ DOMAIN call' = Pending
        /\ \A c \in Pending : call'[c] = Null
    BY <1>3 DEF Restart, SessionsLost
  <2> QED BY <2>1, SignedCalls
<1> QED BY <1>1, <1>2, <1>3 DEF Next, vars

LEMMA SignedInit == Init => SignedInv
<1> SUFFICES ASSUME Init PROVE SignedInv
  OBVIOUS
<1>1. PICK user, linked, w : PageInit(user, linked, w)
  BY DEF Init
<1>2. call = [c \in Pending |-> Null]
  BY <1>1 DEF PageInit
<1>3. CASE linked = Null
  <2>1. challenge = <<>> /\ DOMAIN <<>> = {}
    BY <1>1, <1>3 DEF PageInit
  <2> QED BY <1>2, <2>1 DEF SignedInv
<1>4. CASE linked # Null
  <2> DEFINE first == [user |-> user, wallet |-> linked, used |-> TRUE]
  <2>1. challenge = <<first>> /\ signatures = {[message |-> 1, by |-> linked]}
    BY <1>1, <1>4 DEF PageInit
  <2>2. first = [user |-> first.user, wallet |-> first.wallet, used |-> first.used]
        /\ first.wallet = linked
    OBVIOUS
  <2> HIDE DEF first
  <2>3. DOMAIN challenge = {1} /\ challenge[1] = first
    BY <2>1
  <2> QED BY <1>2, <2>1, <2>2, <2>3 DEF SignedInv
<1> QED BY <1>3, <1>4

(* However the pages mix up their challenges and wallets, a challenge that *)
(* linked a wallet was signed by that very wallet (identityService.js,     *)
(* verifyAndLink).                                                         *)
THEOREM SignedIsLinked == Spec => []OnlySignedIsLinked
<1>1. Init => SignedInv
  BY SignedInit
<1>2. SignedInv /\ [Next]_vars => SignedInv'
  BY SignedStep
<1>3. SignedInv => OnlySignedIsLinked
  BY DEF SignedInv, OnlySignedIsLinked
<1> QED BY <1>1, <1>2, <1>3, PTL DEF Spec

=============================================================================
