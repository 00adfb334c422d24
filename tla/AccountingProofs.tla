-------------------------- MODULE AccountingProofs --------------------------
(***************************************************************************)
(* What the node counts.  The emission over any number of blocks, for any  *)
(* supply and any length of the year: what the accumulator carries over    *)
(* is exact, and what is minted is on a balance, in a bond or in a pool.   *)
(* Then the pending transactions, for any limits: the counters are what    *)
(* they count, and no call is unfair to what is pending.                   *)
(***************************************************************************)
EXTENDS Issuance, Mempool, Sums, SequenceTheorems, TLAPS

LEMMA Constants == InitialSupply \in Nat /\ BlocksPerYear \in Nat \ {0}
BY IssuanceAssumption DEF IssuanceAssumption

(* Division with remainder, for the accumulator.                           *)
LEMMA DivMod ==
  ASSUME NEW x \in Nat, NEW d \in Nat \ {0}
  PROVE  /\ x \div d \in Nat
         /\ x % d \in 0..d - 1
         /\ (x \div d) * d + (x % d) = x
  OBVIOUS

(* A product of two natural numbers is one.                                *)
LEMMA ProductNat ==
  ASSUME NEW x \in Nat, NEW y \in Nat
  PROVE  x * y \in Nat
  OBVIOUS

(* The rate of getRatePpm stays between 2% and 5% at every height.         *)
THEOREM RateIsBounded ==
  ASSUME NEW h \in Nat
  PROVE  RatePpm(h) \in Nat /\ 20000 <= RatePpm(h) /\ RatePpm(h) <= 50000
<1> DEFINE span == 4 * BlocksPerYear
           drop == (30000 * h) \div span
<1>1. span \in Nat \ {0}
  BY Constants
<1>2. CASE h >= span
  BY <1>2 DEF RatePpm
<1>3. CASE h < span
  <2>1. 30000 * h \in Nat
    OBVIOUS
  <2>2. RatePpm(h) = 50000 - drop
    BY <1>1, <1>3, Constants DEF RatePpm
  <2> HIDE DEF span
  <2>3. drop \in Nat /\ drop * span + ((30000 * h) % span) = 30000 * h
    BY <1>1, <2>1, DivMod
  <2>4. (30000 * h) % span \in Nat
    BY <1>1, <2>1, DivMod
  <2> HIDE DEF drop
  <2>5. drop * span < 30000 * span
    <3>1. drop * span \in Nat
      BY <1>1, <2>3, ProductNat
    <3> QED BY <1>1, <1>3, <2>3, <2>4, <3>1
  <2>6. drop \in Nat
    BY <2>3
  <2>7. drop < 30000
    <3> SUFFICES ASSUME drop >= 30000 PROVE FALSE
      BY <2>6
    <3>1. (drop - 30000) * span \in Nat
      <4>1. drop - 30000 \in Nat
        BY <2>6
      <4> QED BY <4>1, <1>1, ProductNat
    <3>2. drop * span = 30000 * span + (drop - 30000) * span
      BY <1>1, <2>6
    <3>3. 30000 * span \in Nat
      BY <1>1
    <3> QED BY <2>5, <3>1, <3>2, <3>3
  <2> QED BY <2>2, <2>6, <2>7
<1> QED BY <1>1, <1>2, <1>3

(* The four parts of a block's mint add up to it, and none is negative.    *)
THEOREM SplitConserves ==
  ASSUME NEW units \in Nat
  PROVE  LET split == Split(units)
         IN /\ split.participants \in Nat /\ split.node \in Nat
            /\ split.holder \in Nat /\ split.treasury \in Nat
            /\ split.participants + split.node + split.holder + split.treasury = units
<1> DEFINE part(bps) == (units * bps) \div 10000
<1>1. /\ part(1500) \in Nat /\ part(7000) \in Nat /\ part(500) \in Nat /\ part(1000) \in Nat
      /\ part(1500) + part(7000) + part(1000) + part(500) <= units
  OBVIOUS
<1>2. Split(units) =
        [participants |-> part(1500), node |-> part(7000), holder |-> part(500),
         treasury |-> part(1000)
           + (units - part(1500) - part(7000) - part(1000) - part(500))]
  BY DEF Split
<1> HIDE DEF part
<1> QED BY <1>1, <1>2

-----------------------------------------------------------------------------

(* What the emission needs: counters that are numbers, an accumulator      *)
(* below one unit, and supply and minted moving together.                  *)
EmissionInv ==
  /\ height \in Nat /\ owed \in Nat
  /\ meta.supply \in Nat /\ meta.minted \in Nat
  /\ meta.mintAcc \in 0..PPM * BlocksPerYear - 1
  /\ meta.supply = InitialSupply + meta.minted
  /\ EmissionIsExact

LEMMA EmissionInit == Init => EmissionInv
<1> SUFFICES ASSUME Init PROVE EmissionInv
  OBVIOUS
<1>1. PPM * BlocksPerYear \in Nat \ {0}
  BY Constants DEF PPM
<1>2. /\ height = 0 /\ owed = 0 /\ meta.supply = InitialSupply
      /\ meta.minted = 0 /\ meta.mintAcc = 0
  BY DEF Init
<1> QED BY <1>1, <1>2, Constants DEF EmissionInv, EmissionIsExact, PPM

(* The emission looks at no transaction: any block keeps the invariant.    *)
LEMMA EmissionSeal ==
  ASSUME NEW l, EmissionInv, Seal(l)
  PROVE  EmissionInv'
<1> DEFINE h     == height + 1
           rate  == RatePpm(h)
           denom == PPM * BlocksPerYear
           acc   == meta.mintAcc + meta.supply * rate
           units == acc \div denom
<1>1. h \in Nat /\ rate \in Nat /\ denom \in Nat \ {0}
  <2>1. h \in Nat /\ height \in Nat
    BY DEF EmissionInv
  <2>2. rate \in Nat
    BY <2>1, RateIsBounded
  <2>3. denom \in Nat \ {0}
    BY Constants DEF PPM
  <2> QED BY <2>1, <2>2, <2>3
<1>2. acc \in Nat
  <2>1. meta.mintAcc \in Nat
    <3> HIDE DEF denom
    <3>1. meta.mintAcc \in 0..denom - 1
      BY DEF EmissionInv, denom
    <3> QED BY <1>1, <3>1
  <2> HIDE DEF rate
  <2>2. meta.supply * rate \in Nat
    BY <1>1, ProductNat DEF EmissionInv
  <2> QED BY <2>1, <2>2
<1>3. /\ height' = h
      /\ owed' = owed + meta.supply * rate
      /\ meta'.supply = meta.supply + units
      /\ meta'.minted = meta.minted + units
      /\ meta'.mintAcc = acc % denom
  <2>1. Minted(meta, h) = [units |-> units, acc |-> acc % denom]
    BY DEF Minted
  <2> DEFINE due    == h - meta.lastPayout >= BlocksPer14Days
             minted == Minted(meta, h)
             node   == IF due THEN 0 ELSE meta.nodePool + Split(minted.units).node
             holder == IF due THEN 0 ELSE meta.holderPool + Split(minted.units).holder
             payout == IF due THEN h ELSE meta.lastPayout
  <2>2. meta' = [supply     |-> meta.supply + minted.units,
                 minted     |-> meta.minted + minted.units,
                 mintAcc    |-> minted.acc,
                 nodePool   |-> node,
                 holderPool |-> holder,
                 lastPayout |-> payout]
    BY DEF Seal, MintAndDistribute, Due
  <2>3. height' = h /\ owed' = owed + meta.supply * rate
    BY SMT DEF Seal
  <2> HIDE DEF units, acc, denom, rate, h, node, holder, payout, minted
  <2>4. /\ meta'.supply = meta.supply + minted.units
        /\ meta'.minted = meta.minted + minted.units
        /\ meta'.mintAcc = minted.acc
    BY <2>2
  <2>5. minted.units = units /\ minted.acc = acc % denom
    BY <2>1 DEF minted
  <2> QED BY <2>3, <2>4, <2>5
<1>4. units \in Nat /\ acc % denom \in 0..denom - 1 /\ units * denom + (acc % denom) = acc
  <2> HIDE DEF acc, denom
  <2> QED BY <1>1, <1>2, DivMod
<1>5. meta.minted * denom + meta.mintAcc = owed
  <2>1. meta.minted * PPM * BlocksPerYear = meta.minted * denom
    <3>1. PPM \in Nat
      BY DEF PPM
    <3> QED BY <3>1, Constants DEF EmissionInv
  <2> QED BY <2>1 DEF EmissionInv, EmissionIsExact
<1>6. (meta.minted + units) * denom + (acc % denom) = owed + meta.supply * rate
  <2>1. (meta.minted + units) * denom = meta.minted * denom + units * denom
    <3> HIDE DEF units, denom
    <3> QED BY <1>1, <1>4 DEF EmissionInv
  <2> HIDE DEF units, denom, rate
  <2>2. meta.minted * denom \in Nat /\ units * denom \in Nat /\ meta.supply * rate \in Nat
    BY <1>1, <1>4, ProductNat DEF EmissionInv
  <2> QED BY <1>4, <1>5, <2>1, <2>2 DEF EmissionInv, acc
<1>7. meta.supply * rate \in Nat
  <2> HIDE DEF rate
  <2> QED BY <1>1, ProductNat DEF EmissionInv
<1>8. EmissionIsExact'
  <2>1. meta'.minted * denom + meta'.mintAcc = owed'
    <3> HIDE DEF units, denom, rate, acc
    <3> QED BY <1>3, <1>6
  <2>2. meta'.minted * PPM * BlocksPerYear = meta'.minted * denom
    <3>1. PPM \in Nat
      BY DEF PPM
    <3>2. meta'.minted \in Nat
      <4> HIDE DEF units
      <4> QED BY <1>3, <1>4 DEF EmissionInv
    <3> QED BY <3>1, <3>2, Constants
  <2> HIDE DEF denom
  <2> QED BY <2>1, <2>2 DEF EmissionIsExact
<1>9. meta'.mintAcc \in 0..PPM * BlocksPerYear - 1
  BY <1>3, <1>4
<1> HIDE DEF units, denom, rate, acc
<1> QED BY <1>1, <1>3, <1>4, <1>7, <1>8, <1>9, Constants DEF EmissionInv

LEMMA EmissionStep == EmissionInv /\ [Next]_vars => EmissionInv'
<1> SUFFICES ASSUME EmissionInv, [Next]_vars PROVE EmissionInv'
  OBVIOUS
<1>1. CASE UNCHANGED vars
  BY <1>1 DEF EmissionInv, EmissionIsExact, vars
<1>2. CASE EmptyBlock
  BY <1>2, EmissionSeal DEF EmptyBlock
<1>3. ASSUME NEW a \in Signers, NEW b \in Addresses, NEW units \in Amounts, Transfer(a, b, units)
      PROVE  EmissionInv'
  BY <1>3, EmissionSeal DEF Transfer
<1>4. ASSUME NEW a \in Signers, NEW b \in Wallets, Register(a, b)
      PROVE  EmissionInv'
  BY <1>4, EmissionSeal DEF Register
<1>5. ASSUME NEW a \in Signers \cap Wallets, Unregister(a)
      PROVE  EmissionInv'
  BY <1>5, EmissionSeal DEF Unregister
<1>6. ASSUME NEW a \in Signers \cap Wallets, Heartbeat(a)
      PROVE  EmissionInv'
  BY <1>6, EmissionSeal DEF Heartbeat
<1> QED BY <1>1, <1>2, <1>3, <1>4, <1>5, <1>6 DEF Next

(* Nothing of the emission is lost to rounding, over any number of blocks  *)
(* (mintAndDistribute with mintAcc).                                       *)
THEOREM EmissionExact == Spec => []EmissionIsExact
<1>1. EmissionInv => EmissionIsExact
  BY DEF EmissionInv
<1> QED BY <1>1, EmissionInit, EmissionStep, PTL DEF Spec

(* What is still owed never reaches a whole unit, and the supply is the    *)
(* initial one and what was minted.                                        *)
THEOREM AccumulatorBelowOneUnit ==
  Spec => [](meta.mintAcc < PPM * BlocksPerYear /\ meta.supply = InitialSupply + meta.minted)
<1>1. EmissionInv => /\ meta.mintAcc < PPM * BlocksPerYear
                     /\ meta.supply = InitialSupply + meta.minted
  BY Constants DEF EmissionInv, PPM
<1> QED BY <1>1, EmissionInit, EmissionStep, PTL DEF Spec

-----------------------------------------------------------------------------

(* What a ledger is made of.                                               *)
Entries == [height : Int, balance : Int]

Records == [sponsor : Addresses, bond : Nat, registered : Nat, lastSeen : Nat]

Ledgers == [balances     : [Addresses -> Int],
            history      : [Addresses -> Seq(Entries)],
            participants : [Wallets -> Records \cup {Null}]]

LEMMA Sets ==
  /\ IsFiniteSet(Addresses) /\ IsFiniteSet(Wallets)
  /\ Wallets \subseteq Addresses
  /\ {Treasury, NodePool, HolderPool} \subseteq Addresses
  /\ Wallets \cap {Treasury, NodePool, HolderPool} = {}
  /\ Signers \subseteq Addresses /\ Stakes \subseteq Wallets
  /\ BondMicro \in Nat /\ Amounts \subseteq Nat
  /\ Null \notin Records
  /\ BlocksPer14Days \in Nat \ {0}
<1>1. IsFiniteSet({Treasury}) /\ IsFiniteSet({NodePool}) /\ IsFiniteSet({HolderPool})
      /\ IsFiniteSet({Proposer})
  BY FS_Singleton
<1>2. Addresses = (Wallets \cup {Treasury}) \cup ({NodePool} \cup ({HolderPool} \cup {Proposer}))
  BY DEF Addresses
<1>3. IsFiniteSet(Wallets)
  BY IssuanceAssumption DEF IssuanceAssumption
<1>4. IsFiniteSet(Addresses)
  BY <1>1, <1>2, <1>3, FS_Union
<1> QED BY <1>3, <1>4, IssuanceAssumption DEF IssuanceAssumption, Addresses, Records

LEMMA TotalIsSum ==
  ASSUME NEW f
  PROVE  Total(f) = SumFunction(f)
BY DEF Total, MapThenSumSet, SumFunction, SumFunctionOnSet, FoldFunctionOnSet

LEMMA OnlyTotal ==
  ASSUME NEW a \in Addresses, NEW units \in Int
  PROVE  /\ Only(a, units) \in [Addresses -> Int]
         /\ Total(Only(a, units)) = units
<1> DEFINE f == Only(a, units)
<1>1. f \in [Addresses -> Int] /\ \A b \in Addresses : f[b] = IF b \in {a} THEN units ELSE 0
  BY DEF Only
<1>2. Cardinality({a}) = 1
  BY FS_Singleton
<1> HIDE DEF f
<1>3. SumFunction(f) = units * Cardinality({a})
  BY <1>1, Sets, SumOfShares
<1>4. SumFunction(f) = units
  BY <1>2, <1>3
<1> QED BY <1>1, <1>4, TotalIsSum DEF f

LEMMA PlusTotal ==
  ASSUME NEW f \in [Addresses -> Int], NEW g \in [Addresses -> Int]
  PROVE  /\ Plus(f, g) \in [Addresses -> Int]
         /\ Total(f) \in Int /\ Total(g) \in Int
         /\ Total(Plus(f, g)) = Total(f) + Total(g)
<1> DEFINE h == Plus(f, g)
<1>1. h \in [Addresses -> Int] /\ \A a \in Addresses : h[a] = f[a] + g[a]
  BY DEF Plus
<1> HIDE DEF h
<1>2. SumFunctionOnSet(h, Addresses)
        = SumFunctionOnSet(f, Addresses) + SumFunctionOnSet(g, Addresses)
  BY <1>1, Sets, SumPlus
<1>3. /\ SumFunction(h) = SumFunctionOnSet(h, Addresses)
      /\ SumFunction(f) = SumFunctionOnSet(f, Addresses)
      /\ SumFunction(g) = SumFunctionOnSet(g, Addresses)
      /\ SumFunctionOnSet(f, Addresses) \in Int /\ SumFunctionOnSet(g, Addresses) \in Int
  BY <1>1, Sets, SumStep
<1>4. Total(f) = SumFunction(f) /\ Total(g) = SumFunction(g) /\ Total(h) = SumFunction(h)
  BY TotalIsSum
<1> QED BY <1>1, <1>2, <1>3, <1>4 DEF h

(* The history keeps entries of the same kind.                             *)
LEMMA RecordedType ==
  ASSUME NEW entries \in Seq(Entries), NEW balance \in Int, NEW h \in Int
  PROVE  Recorded(entries, balance, h) \in Seq(Entries)
<1> DEFINE again == entries # <<>> /\ Last(entries).height = h
           kept  == IF again THEN Front(entries) ELSE entries
           all   == Append(kept, [height |-> h, balance |-> balance])
           n     == Before(all, h)
<1>1. kept \in Seq(Entries)
  <2>1. CASE entries # <<>>
    <3>1. Front(entries) \in Seq(Entries)
      BY <2>1, SubSeqProperties DEF Front
    <3> QED BY <3>1
  <2>2. CASE entries = <<>>
    BY <2>2
  <2> QED BY <2>1, <2>2
<1>2. all \in Seq(Entries)
  BY <1>1 DEF Entries
<1> HIDE DEF all
<1>3. Recorded(entries, balance, h) = SubSeq(all, IF n = 0 THEN 1 ELSE n, Len(all))
  BY DEF Recorded, Pruned, all
<1>4. n \in Nat
  <2>1. IsFiniteSet(DOMAIN all)
    BY <1>2, FS_Interval
  <2>2. IsFiniteSet({i \in DOMAIN all : all[i].height < WindowStart(h)})
    BY <2>1, FS_Subset
  <2> QED BY <2>2, FS_CardinalityType DEF Before
<1> HIDE DEF n
<1> QED BY <1>2, <1>3, <1>4, SubSeqProperties

LEMMA LedgerExcept ==
  ASSUME NEW l \in Ledgers, NEW b, NEW y
  PROVE  [l EXCEPT !.balances = b, !.history = y]
           = [balances |-> b, history |-> y, participants |-> l.participants]
<1> DEFINE m == [l EXCEPT !.balances = b]
<1>1. m = [balances |-> b, history |-> l.history, participants |-> l.participants]
  BY DEF Ledgers
<1>2. [m EXCEPT !.history = y] = [l EXCEPT !.balances = b, !.history = y]
  OBVIOUS
<1> HIDE DEF m
<1>3. [m EXCEPT !.history = y]
        = [balances |-> b, history |-> y, participants |-> l.participants]
  BY <1>1
<1> QED BY <1>2, <1>3

LEMMA SetBalancesType ==
  ASSUME NEW l \in Ledgers, NEW new \in [Addresses -> Int], NEW changed, NEW h \in Int
  PROVE  /\ SetBalances(l, new, changed, h) \in Ledgers
         /\ SetBalances(l, new, changed, h).participants = l.participants
         /\ SetBalances(l, new, changed, h).balances
              = [a \in Addresses |-> IF a \in changed THEN new[a] ELSE l.balances[a]]
<1> DEFINE b == [a \in Addresses |-> IF a \in changed THEN new[a] ELSE l.balances[a]]
           y == [a \in Addresses |-> IF a \in changed THEN Recorded(l.history[a], new[a], h)
                                     ELSE l.history[a]]
<1>0. l = [balances |-> l.balances, history |-> l.history, participants |-> l.participants]
  BY DEF Ledgers
<1>1. l.balances \in [Addresses -> Int] /\ l.history \in [Addresses -> Seq(Entries)]
      /\ l.participants \in [Wallets -> Records \cup {Null}]
  BY DEF Ledgers
<1>2. b \in [Addresses -> Int]
  BY <1>1
<1>3. y \in [Addresses -> Seq(Entries)]
  BY <1>1, RecordedType
<1>4. SetBalances(l, new, changed, h) = [l EXCEPT !.balances = b, !.history = y]
  BY DEF SetBalances
<1> HIDE DEF b, y
<1>5. [l EXCEPT !.balances = b, !.history = y]
        = [balances |-> b, history |-> y, participants |-> l.participants]
  BY LedgerExcept
<1>6. [balances |-> b, history |-> y, participants |-> l.participants] \in Ledgers
  BY <1>1, <1>2, <1>3 DEF Ledgers
<1> QED BY <1>4, <1>5, <1>6 DEF b

(* A credit adds what is paid.                                             *)
LEMMA CreditTotal ==
  ASSUME NEW l \in Ledgers, NEW pay \in [Addresses -> Int], NEW h \in Int
  PROVE  /\ Credit(l, pay, h) \in Ledgers
         /\ Credit(l, pay, h).participants = l.participants
         /\ Credit(l, pay, h).balances = Plus(l.balances, pay)
         /\ Total(Credit(l, pay, h).balances) = Total(l.balances) + Total(pay)
<1> DEFINE new     == [a \in Addresses |-> l.balances[a] + pay[a]]
           changed == {a \in Addresses : pay[a] # 0}
           r       == SetBalances(l, new, changed, h)
<1>1. l.balances \in [Addresses -> Int]
  BY DEF Ledgers
<1>2. new \in [Addresses -> Int]
  BY <1>1
<1>3. Credit(l, pay, h) = r
  BY DEF Credit
<1>4. /\ r \in Ledgers /\ r.participants = l.participants
      /\ r.balances = [a \in Addresses |-> IF a \in changed THEN new[a] ELSE l.balances[a]]
  <2> HIDE DEF new, changed
  <2> QED BY <1>2, SetBalancesType
<1>5. r.balances = Plus(l.balances, pay)
  <2> HIDE DEF r
  <2>1. \A a \in Addresses : (IF a \in changed THEN new[a] ELSE l.balances[a])
                               = l.balances[a] + pay[a]
    BY <1>1
  <2> HIDE DEF new, changed
  <2> QED BY <1>4, <2>1 DEF Plus
<1> HIDE DEF r
<1> QED BY <1>1, <1>3, <1>4, <1>5, PlusTotal

(* A pool's address gives what it holds of the pool.                       *)
LEMMA DebitTotal ==
  ASSUME NEW l \in Ledgers, NEW pool \in Addresses, NEW units \in Nat, NEW h \in Int,
         pool # Treasury => units <= l.balances[pool]
  PROVE  /\ DebitPool(l, pool, units, h) \in Ledgers
         /\ DebitPool(l, pool, units, h).participants = l.participants
         /\ l.balances = Plus(DebitPool(l, pool, units, h).balances, Held(pool, units))
         /\ Total(l.balances)
              = Total(DebitPool(l, pool, units, h).balances) + Total(Held(pool, units))
<1> DEFINE r == DebitPool(l, pool, units, h)
           p == IF pool = Treasury THEN 0 ELSE units
<1>0. Held(pool, units) = Only(pool, p) /\ p \in Int
  BY DEF Held
<1>1. l.balances \in [Addresses -> Int] /\ Held(pool, units) \in [Addresses -> Int]
  <2> HIDE DEF p
  <2> QED BY <1>0, OnlyTotal DEF Ledgers
<1>2. /\ r \in Ledgers /\ r.participants = l.participants
      /\ \A a \in Addresses : l.balances[a] = r.balances[a] + Held(pool, units)[a]
  <2>1. CASE pool = Treasury
    <3>1. r = l
      BY <2>1 DEF DebitPool
    <3>2. \A a \in Addresses : Held(pool, units)[a] = 0
      BY <2>1 DEF Held, Only
    <3> QED BY <1>1, <3>1, <3>2
  <2>2. CASE pool # Treasury
    <3> DEFINE new == [l.balances EXCEPT ![pool] =
                         IF l.balances[pool] > units THEN l.balances[pool] - units ELSE 0]
               changed == {b \in {pool} : units # 0}
    <3>1. r = SetBalances(l, new, changed, h)
      BY <2>2 DEF DebitPool, Debit
    <3>2. new \in [Addresses -> Int] /\ \A a \in Addresses \ {pool} : new[a] = l.balances[a]
      BY <1>1
    <3>3. new[pool] = l.balances[pool] - units
      BY <1>1, <2>2
    <3>4. /\ r \in Ledgers /\ r.participants = l.participants
          /\ r.balances = [a \in Addresses |-> IF a \in changed THEN new[a] ELSE l.balances[a]]
      <4> HIDE DEF new, changed, r
      <4> QED BY <3>1, <3>2, SetBalancesType
    <3>5. \A a \in Addresses : r.balances[a] = IF a = pool THEN l.balances[a] - units
                                              ELSE l.balances[a]
      <4>1. \A a \in Addresses : a \in changed <=> a = pool /\ units # 0
        OBVIOUS
      <4> HIDE DEF new, changed, r
      <4>2. \A a \in Addresses : r.balances[a] = IF a \in changed THEN new[a] ELSE l.balances[a]
        BY <3>4
      <4> QED BY <1>1, <3>2, <3>3, <4>1, <4>2
    <3>6. \A a \in Addresses : Held(pool, units)[a] = IF a = pool THEN units ELSE 0
      BY <2>2 DEF Held, Only
    <3> HIDE DEF r
    <3> QED BY <1>1, <3>4, <3>5, <3>6
  <2> QED BY <2>1, <2>2
<1> HIDE DEF r
<1>3. r.balances \in [Addresses -> Int]
  BY <1>2 DEF Ledgers
<1>4. l.balances = Plus(r.balances, Held(pool, units))
  BY <1>1, <1>2 DEF Plus
<1> QED BY <1>1, <1>2, <1>3, <1>4, PlusTotal DEF r

LEMMA HeldTotal ==
  ASSUME NEW pool \in Addresses, NEW units \in Nat
  PROVE  /\ Held(pool, units) \in [Addresses -> Int]
         /\ \A a \in Addresses : Held(pool, units)[a] =
              IF a = pool /\ pool # Treasury THEN units ELSE 0
         /\ Total(Held(pool, units)) = IF pool = Treasury THEN 0 ELSE units
<1> DEFINE p == IF pool = Treasury THEN 0 ELSE units
<1>1. Held(pool, units) = Only(pool, p) /\ p \in Int
  BY DEF Held
<1>2. \A a \in Addresses : Held(pool, units)[a] = IF a = pool /\ pool # Treasury THEN units ELSE 0
  BY DEF Held, Only
<1>3. Held(pool, units) \in [Addresses -> Int] /\ Total(Held(pool, units)) = p
  <2> HIDE DEF p
  <2> QED BY <1>1, OnlyTotal
<1> QED BY <1>2, <1>3

LEMMA WindowFacts ==
  ASSUME NEW h \in Nat
  PROVE  WindowStart(h) \in Nat /\ WindowStart(h) <= h
BY Sets DEF WindowStart

(* The average of a history is a number.                                   *)
LEMMA AverageType ==
  ASSUME NEW entries \in Seq(Entries), NEW balance \in Int,
         NEW start \in Int, NEW end \in Int, start <= end
  PROVE  AverageBalance(entries, balance, start, end) \in Int
<1> DEFINE from(i)  == IF entries[i].height <= start THEN start ELSE entries[i].height
           until(i) == IF i = Len(entries) THEN end + 1 ELSE from(i + 1)
           parts    == [i \in DOMAIN entries |-> entries[i].balance * (until(i) - from(i))]
<1>1. CASE entries = <<>>
  BY <1>1 DEF AverageBalance
<1>2. CASE entries # <<>>
  <2>1. AverageBalance(entries, balance, start, end) = Total(parts) \div (end - start + 1)
    BY <1>2 DEF AverageBalance
  <2>2. \A i \in 1..Len(entries) : entries[i].height \in Int /\ entries[i].balance \in Int
    <3>1. \A i \in 1..Len(entries) : entries[i] \in Entries
      OBVIOUS
    <3> QED BY <3>1 DEF Entries
  <2>3. \A i \in 1..Len(entries) : from(i) \in Int /\ until(i) \in Int
    <3>1. \A i \in 1..Len(entries) : from(i) \in Int
      BY <2>2
    <3>2. \A i \in 1..Len(entries) : i # Len(entries) => i + 1 \in 1..Len(entries)
      OBVIOUS
    <3> QED BY <3>1, <3>2
  <2>4. \A i \in 1..Len(entries) : entries[i].balance * (until(i) - from(i)) \in Int
    <3> HIDE DEF from, until
    <3> QED BY <2>2, <2>3
  <2>5. DOMAIN entries = 1..Len(entries) /\ IsFiniteSet(DOMAIN entries)
    BY FS_Interval
  <2>6. parts \in [DOMAIN entries -> Int]
    <3> HIDE DEF from, until
    <3> QED BY <2>4, <2>5
  <2> HIDE DEF parts
  <2>7. Total(parts) \in Int
    <3>1. SumFunction(parts) \in Int
      BY <2>5, <2>6, SumStep
    <3> QED BY <3>1, TotalIsSum
  <2> QED BY <2>1, <2>7
<1> QED BY <1>1, <1>2

(* The rewards go to participants, and none is negative.                   *)
LEMMA RewardsType ==
  ASSUME NEW l \in Ledgers, NEW units \in Nat, NEW h \in Int
  PROVE  /\ ParticipantRewards(l, units, h) \in [Addresses -> Int]
         /\ \A a \in Addresses \ Wallets : ParticipantRewards(l, units, h)[a] = 0
<1> DEFINE active == ActiveParticipants(l, h)
           share  == units \div Cardinality(active)
           times(a) == Multiplier(l.participants[a], h)
<1>1. ParticipantRewards(l, units, h)
        = [a \in Addresses |-> IF a \in active THEN (share * times(a)) \div 10000 ELSE 0]
  BY DEF ParticipantRewards
<1>2. active \subseteq Wallets
  BY DEF ActiveParticipants
<1>3. IsFiniteSet(active) /\ Cardinality(active) \in Nat
  BY <1>2, Sets, FS_Subset, FS_CardinalityType
<1>4. ASSUME NEW a \in active PROVE (share * times(a)) \div 10000 \in Int
  <2>1. Cardinality(active) # 0
    BY <1>3, FS_EmptySet
  <2>2. share \in Int
    <3> HIDE DEF active
    <3> QED BY <1>3, <2>1
  <2>3. times(a) \in Int
    BY DEF Multiplier
  <2>4. share * times(a) \in Int
    <3> HIDE DEF share, times
    <3> QED BY <2>2, <2>3
  <2> HIDE DEF share, times
  <2> QED BY <2>4
<1> HIDE DEF active, share, times
<1> QED BY <1>1, <1>2, <1>4

(* A payout pays out all of the pool's units, to wallets and the treasury, *)
(* whatever the weights.                                                   *)
LEMMA PayoutTotal ==
  ASSUME NEW units \in Nat, NEW D \in SUBSET Wallets, NEW weight \in [D -> Int]
  PROVE  /\ Payout(units, weight) \in [Addresses -> Int]
         /\ Total(Payout(units, weight)) = units
         /\ \A a \in Addresses \ Wallets : a # Treasury => Payout(units, weight)[a] = 0
<1> DEFINE total  == Total(weight)
           reward == [a \in Addresses |->
                       IF total > 0 /\ a \in DOMAIN weight
                         THEN (units * weight[a]) \div total ELSE 0]
           rest   == Only(Treasury, units - Total(reward))
<1>1. total \in Int
  <2>1. IsFiniteSet(D)
    BY Sets, FS_Subset
  <2>2. SumFunction(weight) \in Int
    BY <2>1, SumStep
  <2> QED BY <2>2, TotalIsSum
<1>2. Payout(units, weight) = Plus(reward, rest)
  BY DEF Payout
<1>3. /\ reward \in [Addresses -> Int]
      /\ \A a \in Addresses \ Wallets : reward[a] = 0
  <2>1. DOMAIN weight = D
    OBVIOUS
  <2>2. ASSUME NEW a \in D, total > 0 PROVE (units * weight[a]) \div total \in Int
    <3>1. units * weight[a] \in Int
      OBVIOUS
    <3> HIDE DEF total
    <3> QED BY <1>1, <2>2, <3>1
  <2> HIDE DEF total
  <2> QED BY <2>1, <2>2
<1> HIDE DEF reward, total
<1>4. Total(reward) \in Int
  <2>1. SumFunction(reward) \in Int
    BY <1>3, Sets, SumStep
  <2> QED BY <2>1, TotalIsSum
<1>5. rest \in [Addresses -> Int] /\ Total(rest) = units - Total(reward)
  <2>1. units - Total(reward) \in Int
    BY <1>4
  <2> QED BY <2>1, Sets, OnlyTotal
<1>6. \A a \in Addresses : a # Treasury => rest[a] = 0
  BY DEF Only
<1> HIDE DEF rest
<1>7. \A a \in Addresses : Plus(reward, rest)[a] = reward[a] + rest[a]
  BY DEF Plus
<1>8. Plus(reward, rest) \in [Addresses -> Int] /\ Total(Plus(reward, rest)) = units
  BY <1>3, <1>4, <1>5, PlusTotal
<1> QED BY <1>2, <1>3, <1>6, <1>7, <1>8

LEMMA NodePayoutTotal ==
  ASSUME NEW units \in Nat
  PROVE  /\ NodePayout(units) \in [Addresses -> Int]
         /\ Total(NodePayout(units)) = units
         /\ \A a \in Addresses \ Wallets : a # Treasury => NodePayout(units)[a] = 0
<1>1. [a \in Stakes |-> 1] \in [Stakes -> Int]
  OBVIOUS
<1> QED BY <1>1, Sets, PayoutTotal DEF NodePayout

LEMMA HolderPayoutTotal ==
  ASSUME NEW l \in Ledgers, NEW units \in Nat, NEW h \in Nat
  PROVE  /\ HolderPayout(l, units, h) \in [Addresses -> Int]
         /\ Total(HolderPayout(l, units, h)) = units
         /\ \A a \in Addresses \ Wallets : a # Treasury => HolderPayout(l, units, h)[a] = 0
<1> DEFINE averages == HolderAverages(l, h)
           D        == EligibleHolders(l, h)
           weight   == [a \in D |-> averages[a]]
<1>1. averages \in [Addresses -> Int]
  <2>1. l.balances \in [Addresses -> Int] /\ l.history \in [Addresses -> Seq(Entries)]
    BY DEF Ledgers
  <2>2. \A a \in Addresses :
          AverageBalance(l.history[a], l.balances[a], WindowStart(h), h) \in Int
    BY <2>1, WindowFacts, AverageType
  <2> QED BY <2>2 DEF HolderAverages
<1>2. D \subseteq Wallets
  BY DEF EligibleHolders
<1>3. HolderPayout(l, units, h) = Payout(units, weight)
  BY DEF HolderPayout
<1> HIDE DEF averages, D
<1>4. weight \in [D -> Int]
  BY <1>1, <1>2, Sets
<1> HIDE DEF weight
<1> QED BY <1>2, <1>3, <1>4, PayoutTotal

-----------------------------------------------------------------------------

(* What an address other than the treasury holds of the pools.             *)
HeldAt(a, node, holder) ==
  (IF a = NodePool THEN node ELSE 0) + (IF a = HolderPool THEN holder ELSE 0)

(* The pools' addresses have what they owe.                                *)
Backed(l, node, holder) ==
  \A a \in {NodePool, HolderPool} \ {Treasury} : HeldAt(a, node, holder) <= l.balances[a]

(* A pool that pays out gives what its address holds of it, no more.       *)
LEMMA PaysOut ==
  ASSUME NEW l \in Ledgers, NEW pool \in Addresses, NEW units \in Nat, NEW h \in Int,
         NEW pay \in [Addresses -> Int], Total(pay) = units,
         \A a \in Addresses \ Wallets : a # Treasury => pay[a] = 0,
         pool # Treasury => units <= l.balances[pool]
  PROVE  LET r == Credit(DebitPool(l, pool, units, h), pay, h)
         IN /\ r \in Ledgers /\ r.participants = l.participants
            /\ Total(r.balances)
                 = Total(l.balances) + units - (IF pool = Treasury THEN 0 ELSE units)
            /\ \A a \in Addresses \ Wallets :
                 a # Treasury => r.balances[a] = l.balances[a] - (IF a = pool THEN units ELSE 0)
<1> DEFINE d == DebitPool(l, pool, units, h)
           r == Credit(d, pay, h)
<1>1. /\ d \in Ledgers /\ d.participants = l.participants
      /\ l.balances = Plus(d.balances, Held(pool, units))
      /\ Total(l.balances) = Total(d.balances) + Total(Held(pool, units))
  BY DebitTotal
<1> HIDE DEF d
<1>2. /\ r \in Ledgers /\ r.participants = d.participants
      /\ r.balances = Plus(d.balances, pay)
      /\ Total(r.balances) = Total(d.balances) + Total(pay)
  BY <1>1, CreditTotal
<1> HIDE DEF r
<1>3. d.balances \in [Addresses -> Int] /\ Total(d.balances) \in Int
  <2>1. d.balances \in [Addresses -> Int]
    BY <1>1 DEF Ledgers
  <2> QED BY <2>1, PlusTotal
<1>4. Total(Held(pool, units)) = IF pool = Treasury THEN 0 ELSE units
  BY HeldTotal
<1>5. Total(r.balances) = Total(l.balances) + units - (IF pool = Treasury THEN 0 ELSE units)
  BY <1>1, <1>2, <1>3, <1>4
<1>6. ASSUME NEW a \in Addresses \ Wallets, a # Treasury
      PROVE  r.balances[a] = l.balances[a] - (IF a = pool THEN units ELSE 0)
  <2>1. Held(pool, units)[a] = IF a = pool THEN units ELSE 0
    BY <1>6, HeldTotal
  <2>2. pay[a] = 0
    BY <1>6
  <2>3. l.balances[a] = d.balances[a] + Held(pool, units)[a]
    BY <1>1 DEF Plus
  <2>4. r.balances[a] = d.balances[a] + pay[a]
    BY <1>2 DEF Plus
  <2> QED BY <1>3, <2>1, <2>2, <2>3, <2>4
<1> QED BY <1>1, <1>2, <1>5, <1>6 DEF d, r

LEMMA PoolFacts ==
  ASSUME NEW l \in Ledgers, NEW node \in Nat, NEW holder \in Nat, Backed(l, node, holder)
  PROVE  /\ NodePool # Treasury => node <= l.balances[NodePool]
         /\ HolderPool # Treasury => holder <= l.balances[HolderPool]
         /\ \A a \in {NodePool, HolderPool} \ {Treasury} :
              a \in Addresses \ Wallets /\ l.balances[a] \in Int
<1>1. \A a \in {NodePool, HolderPool} \ {Treasury} :
        a \in Addresses \ Wallets /\ l.balances[a] \in Int
  BY Sets DEF Ledgers
<1>2. \A a \in {NodePool, HolderPool} \ {Treasury} :
        (IF a = NodePool THEN node ELSE 0) + (IF a = HolderPool THEN holder ELSE 0)
          <= l.balances[a]
  BY DEF Backed, HeldAt
<1> QED BY <1>1, <1>2

(* The nodes' pool is paid out of its address, and then the holders'.      *)
LEMMA PayNodesTotal ==
  ASSUME NEW l \in Ledgers, NEW node \in Nat, NEW holder \in Nat, NEW h \in Nat,
         Backed(l, node, holder)
  PROVE  LET r == PayNodes(l, node, h)
         IN /\ r \in Ledgers /\ r.participants = l.participants
            /\ Backed(r, 0, holder)
            /\ Total(r.balances)
                 = Total(l.balances) + node - (IF NodePool = Treasury THEN 0 ELSE node)
<1> DEFINE r == PayNodes(l, node, h)
<1>1. /\ r \in Ledgers /\ r.participants = l.participants
      /\ Total(r.balances)
           = Total(l.balances) + node - (IF NodePool = Treasury THEN 0 ELSE node)
      /\ \A a \in Addresses \ Wallets :
           a # Treasury => r.balances[a] = l.balances[a] - (IF a = NodePool THEN node ELSE 0)
  <2> DEFINE pay == NodePayout(node)
  <2>1. /\ pay \in [Addresses -> Int] /\ Total(pay) = node
        /\ \A a \in Addresses \ Wallets : a # Treasury => pay[a] = 0
    BY NodePayoutTotal
  <2>2. r = Credit(DebitPool(l, NodePool, node, h), pay, h)
    BY DEF PayNodes
  <2> HIDE DEF pay
  <2>3. NodePool \in Addresses /\ (NodePool # Treasury => node <= l.balances[NodePool])
    BY Sets, PoolFacts
  <2> QED BY <2>1, <2>2, <2>3, PaysOut
<1> HIDE DEF r
<1>2. Backed(r, 0, holder)
  <2> SUFFICES ASSUME NEW a \in {NodePool, HolderPool} \ {Treasury}
               PROVE  HeldAt(a, 0, holder) <= r.balances[a]
    BY DEF Backed
  <2>1. a \in Addresses \ Wallets /\ l.balances[a] \in Int
    BY PoolFacts
  <2>2. HeldAt(a, node, holder) <= l.balances[a]
    BY DEF Backed
  <2>3. r.balances[a] = l.balances[a] - (IF a = NodePool THEN node ELSE 0)
    BY <1>1, <2>1
  <2> QED BY <2>1, <2>2, <2>3 DEF HeldAt
<1> QED BY <1>1, <1>2 DEF r

LEMMA PayHoldersTotal ==
  ASSUME NEW l \in Ledgers, NEW holder \in Nat, NEW h \in Nat, Backed(l, 0, holder)
  PROVE  LET r == PayHolders(l, holder, h)
         IN /\ r \in Ledgers /\ r.participants = l.participants
            /\ Backed(r, 0, 0)
            /\ Total(r.balances)
                 = Total(l.balances) + holder - (IF HolderPool = Treasury THEN 0 ELSE holder)
<1> DEFINE r == PayHolders(l, holder, h)
<1>1. /\ r \in Ledgers /\ r.participants = l.participants
      /\ Total(r.balances)
           = Total(l.balances) + holder - (IF HolderPool = Treasury THEN 0 ELSE holder)
      /\ \A a \in Addresses \ Wallets :
           a # Treasury => r.balances[a] = l.balances[a] - (IF a = HolderPool THEN holder ELSE 0)
  <2> DEFINE pay == HolderPayout(l, holder, h)
  <2>1. /\ pay \in [Addresses -> Int] /\ Total(pay) = holder
        /\ \A a \in Addresses \ Wallets : a # Treasury => pay[a] = 0
    BY HolderPayoutTotal
  <2>2. r = Credit(DebitPool(l, HolderPool, holder, h), pay, h)
    BY DEF PayHolders
  <2> HIDE DEF pay
  <2>3. HolderPool \in Addresses /\ (HolderPool # Treasury => holder <= l.balances[HolderPool])
    BY Sets, PoolFacts
  <2> QED BY <2>1, <2>2, <2>3, PaysOut
<1> HIDE DEF r
<1>2. Backed(r, 0, 0)
  <2> SUFFICES ASSUME NEW a \in {NodePool, HolderPool} \ {Treasury}
               PROVE  HeldAt(a, 0, 0) <= r.balances[a]
    BY DEF Backed
  <2>1. a \in Addresses \ Wallets /\ l.balances[a] \in Int
    BY PoolFacts
  <2>2. HeldAt(a, 0, holder) <= l.balances[a]
    BY DEF Backed
  <2>3. r.balances[a] = l.balances[a] - (IF a = HolderPool THEN holder ELSE 0)
    BY <1>1, <2>1
  <2> QED BY <2>1, <2>2, <2>3 DEF HeldAt
<1> QED BY <1>1, <1>2 DEF r

(* A block's mint is distributed whole: the pools' addresses get what they *)
(* hold of it, participants and treasury the rest.                         *)
LEMMA DistributedTotal ==
  ASSUME NEW l \in Ledgers, NEW h \in Nat, NEW units \in Nat,
         NEW node \in Nat, NEW holder \in Nat, Backed(l, node, holder)
  PROVE  LET split == Split(units)
             r     == Distributed(l, split, h)
         IN /\ r \in Ledgers /\ r.participants = l.participants
            /\ Backed(r, node + split.node, holder + split.holder)
            /\ Total(r.balances)
                 = Total(l.balances) + split.participants + split.treasury
                     + (IF NodePool = Treasury THEN 0 ELSE split.node)
                     + (IF HolderPool = Treasury THEN 0 ELSE split.holder)
<1> DEFINE split   == Split(units)
           rewards == ParticipantRewards(l, split.participants, h)
           paid    == Credit(l, rewards, h)
           left    == split.participants - Total(rewards)
           rest    == Only(Treasury, split.treasury + left)
           toNode  == Held(NodePool, split.node)
           toHolder == Held(HolderPool, split.holder)
           pools   == Plus(toNode, toHolder)
           all     == Plus(rest, pools)
           r       == Credit(paid, all, h)
<1>0. Distributed(l, split, h) = r
  BY DEF Distributed
<1>1. /\ split.participants \in Nat /\ split.node \in Nat
      /\ split.holder \in Nat /\ split.treasury \in Nat
  BY SplitConserves
<1> HIDE DEF split
<1>2. /\ rewards \in [Addresses -> Int]
      /\ \A a \in Addresses \ Wallets : rewards[a] = 0
  BY <1>1, RewardsType
<1> HIDE DEF rewards
<1>3. /\ paid \in Ledgers /\ paid.participants = l.participants
      /\ paid.balances = Plus(l.balances, rewards)
      /\ Total(paid.balances) = Total(l.balances) + Total(rewards)
  BY <1>2, CreditTotal
<1> HIDE DEF paid
<1>4. l.balances \in [Addresses -> Int] /\ Total(l.balances) \in Int /\ Total(rewards) \in Int
  <2>1. l.balances \in [Addresses -> Int]
    BY DEF Ledgers
  <2> QED BY <1>2, <2>1, PlusTotal
<1>5. /\ rest \in [Addresses -> Int] /\ Total(rest) = split.treasury + left
      /\ \A a \in Addresses : a # Treasury => rest[a] = 0
  <2>1. split.treasury + left \in Int
    BY <1>1, <1>4
  <2>2. \A a \in Addresses : a # Treasury => rest[a] = 0
    BY DEF Only
  <2> HIDE DEF left
  <2> QED BY <2>1, <2>2, Sets, OnlyTotal
<1> HIDE DEF rest
<1>6. /\ toNode \in [Addresses -> Int] /\ toHolder \in [Addresses -> Int]
      /\ Total(toNode) = IF NodePool = Treasury THEN 0 ELSE split.node
      /\ Total(toHolder) = IF HolderPool = Treasury THEN 0 ELSE split.holder
      /\ \A a \in Addresses : a # Treasury =>
           /\ toNode[a] = IF a = NodePool THEN split.node ELSE 0
           /\ toHolder[a] = IF a = HolderPool THEN split.holder ELSE 0
  BY <1>1, Sets, HeldTotal
<1> HIDE DEF toNode, toHolder
<1>7. pools \in [Addresses -> Int] /\ Total(pools) = Total(toNode) + Total(toHolder)
      /\ \A a \in Addresses : pools[a] = toNode[a] + toHolder[a]
  <2>1. \A a \in Addresses : pools[a] = toNode[a] + toHolder[a]
    BY DEF Plus
  <2> QED BY <1>6, <2>1, PlusTotal
<1> HIDE DEF pools
<1>8. all \in [Addresses -> Int] /\ Total(all) = Total(rest) + Total(pools)
      /\ \A a \in Addresses : all[a] = rest[a] + pools[a]
  <2>1. \A a \in Addresses : all[a] = rest[a] + pools[a]
    BY DEF Plus
  <2> QED BY <1>5, <1>7, <2>1, PlusTotal
<1> HIDE DEF all
<1>9. /\ r \in Ledgers /\ r.participants = paid.participants
      /\ r.balances = Plus(paid.balances, all)
      /\ Total(r.balances) = Total(paid.balances) + Total(all)
  BY <1>3, <1>8, CreditTotal
<1> HIDE DEF r
<1>10. Total(r.balances)
         = Total(l.balances) + split.participants + split.treasury
             + (IF NodePool = Treasury THEN 0 ELSE split.node)
             + (IF HolderPool = Treasury THEN 0 ELSE split.holder)
  BY <1>1, <1>3, <1>4, <1>5, <1>6, <1>7, <1>8, <1>9
<1>11. Backed(r, node + split.node, holder + split.holder)
  <2> SUFFICES ASSUME NEW a \in {NodePool, HolderPool} \ {Treasury}
               PROVE  HeldAt(a, node + split.node, holder + split.holder) <= r.balances[a]
    BY DEF Backed
  <2>1. a \in Addresses \ Wallets /\ a # Treasury /\ l.balances[a] \in Int
    BY PoolFacts
  <2>2. HeldAt(a, node, holder) <= l.balances[a]
    BY DEF Backed
  <2>3. paid.balances[a] = l.balances[a] + rewards[a] /\ rewards[a] = 0
    BY <1>2, <1>3, <2>1 DEF Plus
  <2>4. r.balances[a] = paid.balances[a] + all[a]
    BY <1>9, <2>1 DEF Plus
  <2>5. all[a] = (IF a = NodePool THEN split.node ELSE 0)
                   + (IF a = HolderPool THEN split.holder ELSE 0)
    <3>1. all[a] = rest[a] + (toNode[a] + toHolder[a]) /\ rest[a] = 0
      BY <1>5, <1>7, <1>8, <2>1
    <3>2. /\ toNode[a] = IF a = NodePool THEN split.node ELSE 0
          /\ toHolder[a] = IF a = HolderPool THEN split.holder ELSE 0
      BY <1>6, <2>1
    <3> QED BY <1>1, <3>1, <3>2
  <2> QED BY <1>1, <2>1, <2>2, <2>3, <2>4, <2>5 DEF HeldAt
<1> QED BY <1>0, <1>3, <1>9, <1>10, <1>11 DEF split

-----------------------------------------------------------------------------

BondsOf(l) == Total([a \in Wallets |-> IF l.participants[a] = Null THEN 0
                                       ELSE l.participants[a].bond])

(* The ledger l, with the pools of meta, is what was minted so far.        *)
Conserved(l) ==
  /\ l \in Ledgers
  /\ Backed(l, meta.nodePool, meta.holderPool)
  /\ Total(l.balances) + BondsOf(l) + Unheld(NodePool, meta.nodePool)
       + Unheld(HolderPool, meta.holderPool) = meta.minted

(* What conservation needs: numbers, and pools whose addresses have what   *)
(* the pools hold, as debitBalance stops at zero.                          *)
MintInv ==
  /\ EmissionInv
  /\ meta.nodePool \in Nat /\ meta.holderPool \in Nat
  /\ Conserved(ledger)

LEMMA BondsType ==
  ASSUME NEW l \in Ledgers
  PROVE  /\ [a \in Wallets |-> IF l.participants[a] = Null THEN 0
                               ELSE l.participants[a].bond] \in [Wallets -> Int]
         /\ BondsOf(l) \in Int
<1> DEFINE bond == [a \in Wallets |-> IF l.participants[a] = Null THEN 0
                                      ELSE l.participants[a].bond]
<1>1. \A a \in Wallets : l.participants[a] # Null => l.participants[a] \in Records
  BY DEF Ledgers
<1>2. bond \in [Wallets -> Int]
  BY <1>1 DEF Records
<1> HIDE DEF bond
<1>3. SumFunction(bond) \in Int
  BY <1>2, Sets, SumStep
<1>4. BondsOf(l) = Total(bond)
  BY DEF BondsOf, bond
<1> QED BY <1>2, <1>3, <1>4, TotalIsSum DEF bond

(* What the next block mints is a number of units.                         *)
LEMMA MintedType ==
  ASSUME EmissionInv
  PROVE  height + 1 \in Nat /\ Minted(meta, height + 1).units \in Nat
<1> DEFINE h     == height + 1
           acc   == meta.mintAcc + meta.supply * RatePpm(h)
           denom == PPM * BlocksPerYear
<1>1. h \in Nat
  BY DEF EmissionInv
<1>2. RatePpm(h) \in Nat
  BY <1>1, RateIsBounded
<1>3. denom \in Nat \ {0}
  BY Constants DEF PPM
<1>4. meta.supply \in Nat /\ meta.mintAcc \in Nat
  BY <1>3 DEF EmissionInv
<1>5. acc \in Nat
  <2>1. meta.supply * RatePpm(h) \in Nat
    BY <1>2, <1>4, ProductNat
  <2> QED BY <1>4, <2>1
<1>6. Minted(meta, h).units = acc \div denom
  BY DEF Minted
<1> HIDE DEF acc, denom
<1>7. acc \div denom \in Nat
  BY <1>3, <1>5, DivMod
<1> QED BY <1>1, <1>6, <1>7

(* A block on a ledger that is what was minted so far.                     *)
LEMMA SealConserves ==
  ASSUME NEW l, EmissionInv, meta.nodePool \in Nat, meta.holderPool \in Nat,
         Conserved(l), Seal(l)
  PROVE  MintInv'
<1> DEFINE h      == height + 1
           mint   == Minted(meta, h)
           units  == mint.units
           split  == Split(units)
           node   == meta.nodePool + split.node
           holder == meta.holderPool + split.holder
           after  == Distributed(l, split, h)
           nodes  == PayNodes(after, node, h)
           due    == Due(h)
<1>1. EmissionInv'
  BY EmissionSeal
<1>2. /\ ledger' = IF due THEN PayoutPools(after, node, holder, h) ELSE after
      /\ meta' = [supply     |-> meta.supply + units,
                  minted     |-> meta.minted + units,
                  mintAcc    |-> mint.acc,
                  nodePool   |-> IF due THEN 0 ELSE node,
                  holderPool |-> IF due THEN 0 ELSE holder,
                  lastPayout |-> IF due THEN h ELSE meta.lastPayout]
  BY DEF Seal, MintAndDistribute
<1>3. h \in Nat /\ units \in Nat
  BY MintedType
<1> DEFINE payout == IF due THEN h ELSE meta.lastPayout
           acc    == mint.acc
<1> HIDE DEF h, units, mint
<1>4. /\ split.participants \in Nat /\ split.node \in Nat
      /\ split.holder \in Nat /\ split.treasury \in Nat
      /\ split.participants + split.node + split.holder + split.treasury = units
  BY <1>3, SplitConserves
<1>5. /\ l \in Ledgers /\ Backed(l, meta.nodePool, meta.holderPool)
      /\ Total(l.balances) + BondsOf(l) + Unheld(NodePool, meta.nodePool)
           + Unheld(HolderPool, meta.holderPool) = meta.minted
      /\ meta.minted \in Nat
  BY DEF Conserved, EmissionInv
<1>6. Total(l.balances) \in Int /\ BondsOf(l) \in Int
  <2>1. l.balances \in [Addresses -> Int]
    BY <1>5 DEF Ledgers
  <2> QED BY <1>5, <2>1, PlusTotal, BondsType
<1>7. /\ after \in Ledgers /\ after.participants = l.participants
      /\ Backed(after, node, holder)
      /\ Total(after.balances)
           = Total(l.balances) + split.participants + split.treasury
               + (IF NodePool = Treasury THEN 0 ELSE split.node)
               + (IF HolderPool = Treasury THEN 0 ELSE split.holder)
  BY <1>3, <1>5, DistributedTotal
<1>8. node \in Nat /\ holder \in Nat
  <2> HIDE DEF split
  <2> QED BY <1>4
<1> HIDE DEF after
<1>9. CASE due
  <2> DEFINE r == PayHolders(nodes, holder, h)
  <2>1. ledger' = r
    BY <1>2, <1>9 DEF PayoutPools
  <2>2. /\ meta'.nodePool = 0 /\ meta'.holderPool = 0 /\ meta'.minted = meta.minted + units
    <3> HIDE DEF split, node, holder
    <3> QED BY <1>2, <1>9
  <2>3. /\ nodes \in Ledgers /\ nodes.participants = after.participants
        /\ Backed(nodes, 0, holder)
        /\ Total(nodes.balances)
             = Total(after.balances) + node - (IF NodePool = Treasury THEN 0 ELSE node)
    <3> HIDE DEF node, holder
    <3> QED BY <1>3, <1>7, <1>8, PayNodesTotal
  <2> HIDE DEF nodes
  <2>4. /\ r \in Ledgers /\ r.participants = nodes.participants
        /\ Backed(r, 0, 0)
        /\ Total(r.balances)
             = Total(nodes.balances) + holder - (IF HolderPool = Treasury THEN 0 ELSE holder)
    <3> HIDE DEF node, holder
    <3> QED BY <1>3, <1>8, <2>3, PayHoldersTotal
  <2> HIDE DEF r
  <2>5. BondsOf(r) = BondsOf(l)
    BY <1>7, <2>3, <2>4 DEF BondsOf
  <2>6. Total(r.balances) + BondsOf(r) + Unheld(NodePool, 0) + Unheld(HolderPool, 0)
          = meta.minted + units
    <3>1. /\ node - (IF NodePool = Treasury THEN 0 ELSE node) = Unheld(NodePool, node)
          /\ holder - (IF HolderPool = Treasury THEN 0 ELSE holder) = Unheld(HolderPool, holder)
          /\ Unheld(NodePool, 0) = 0 /\ Unheld(HolderPool, 0) = 0
      <4> HIDE DEF node, holder
      <4> QED BY <1>8 DEF Unheld
    <3>2. /\ Unheld(NodePool, node) + (IF NodePool = Treasury THEN 0 ELSE split.node)
               = Unheld(NodePool, meta.nodePool) + split.node
          /\ Unheld(HolderPool, holder) + (IF HolderPool = Treasury THEN 0 ELSE split.holder)
               = Unheld(HolderPool, meta.holderPool) + split.holder
      <4> HIDE DEF split
      <4> QED BY <1>4 DEF Unheld
    <3>3. /\ Unheld(NodePool, node) \in Int /\ Unheld(HolderPool, holder) \in Int
          /\ Unheld(NodePool, meta.nodePool) \in Int
          /\ Unheld(HolderPool, meta.holderPool) \in Int
      <4> HIDE DEF node, holder
      <4> QED BY <1>8 DEF Unheld
    <3> DEFINE nodeHeld   == IF NodePool = Treasury THEN 0 ELSE split.node
               holderHeld == IF HolderPool = Treasury THEN 0 ELSE split.holder
    <3>4. nodeHeld \in Int /\ holderHeld \in Int
      <4> HIDE DEF split
      <4> QED BY <1>4
    <3>5. Total(nodes.balances) = Total(after.balances) + Unheld(NodePool, node)
      <4>1. Total(after.balances) \in Int /\ Total(nodes.balances) \in Int
        BY <1>7, <2>3, PlusTotal DEF Ledgers
      <4> HIDE DEF node
      <4> QED BY <1>8, <2>3, <3>1, <4>1
    <3>6. Total(r.balances) = Total(nodes.balances) + Unheld(HolderPool, holder)
      <4>1. Total(nodes.balances) \in Int /\ Total(r.balances) \in Int
        BY <2>3, <2>4, PlusTotal DEF Ledgers
      <4> HIDE DEF holder
      <4> QED BY <1>8, <2>4, <3>1, <4>1
    <3>7. Total(after.balances)
            = Total(l.balances) + split.participants + split.treasury + nodeHeld + holderHeld
      BY <1>7
    <3> HIDE DEF split, due, h, nodeHeld, holderHeld, node, holder
    <3> QED BY <1>3, <1>4, <1>5, <1>6, <2>5, <3>1, <3>2, <3>3, <3>4, <3>5, <3>6, <3>7
            DEF nodeHeld, holderHeld
  <2>7. Conserved(ledger)'
    BY <2>1, <2>2, <2>4, <2>6 DEF Conserved, BondsOf
  <2> QED BY <1>1, <2>2, <2>7 DEF MintInv
<1>10. CASE ~due
  <2>1. ledger' = after
    BY <1>2, <1>10
  <2>2. /\ meta'.nodePool = node /\ meta'.holderPool = holder /\ meta'.minted = meta.minted + units
    <3> HIDE DEF split, node, holder
    <3> QED BY <1>2, <1>10
  <2>3. BondsOf(after) = BondsOf(l)
    BY <1>7 DEF BondsOf
  <2>4. Total(after.balances) + BondsOf(after) + Unheld(NodePool, node)
          + Unheld(HolderPool, holder) = meta.minted + units
    <3> HIDE DEF split, due, h
    <3> QED BY <1>3, <1>4, <1>5, <1>6, <1>7, <2>3 DEF Unheld
  <2> HIDE DEF node, holder
  <2>5. Conserved(ledger)'
    BY <1>7, <2>1, <2>2, <2>4 DEF Conserved, BondsOf
  <2> QED BY <1>1, <1>8, <2>2, <2>5 DEF MintInv
<1> QED BY <1>9, <1>10

-----------------------------------------------------------------------------

(* A pool that is not the treasury's has an address whose owner sends      *)
(* nothing: blocks pay out of it what nobody else may spend.               *)
PoolsAreSilent == Signers \cap {NodePool, HolderPool} \subseteq {Treasury}

LEMMA MintInit == Init => MintInv
<1> SUFFICES ASSUME Init PROVE MintInv
  OBVIOUS
<1> DEFINE none == [a \in Addresses |-> 0]
           bond == [a \in Wallets |-> IF ledger.participants[a] = Null THEN 0
                                      ELSE ledger.participants[a].bond]
<1>1. /\ meta.nodePool = 0 /\ meta.holderPool = 0 /\ meta.minted = 0
      /\ ledger = [balances     |-> none,
                   history      |-> [a \in Addresses |-> <<>>],
                   participants |-> [a \in Wallets |-> Null]]
  BY DEF Init
<1>2. ledger \in Ledgers
  <2>1. none \in [Addresses -> Int] /\ [a \in Addresses |-> <<>>] \in [Addresses -> Seq(Entries)]
    OBVIOUS
  <2> QED BY <1>1, <2>1 DEF Ledgers
<1>3. Total(none) = 0
  <2>1. SumFunction(none) = 0 * Cardinality({})
    <3>1. none \in [Addresses -> Int] /\ \A a \in Addresses : none[a] = IF a \in {} THEN 0 ELSE 0
      OBVIOUS
    <3> HIDE DEF none
    <3> QED BY <3>1, Sets, SumOfShares
  <2>2. Cardinality({}) = 0
    BY FS_EmptySet
  <2> QED BY <2>1, <2>2, TotalIsSum
<1>4. Total(bond) = 0
  <2>1. bond \in [Wallets -> Int] /\ \A a \in Wallets : bond[a] = IF a \in {} THEN 0 ELSE 0
    BY <1>1
  <2> HIDE DEF bond
  <2>2. SumFunction(bond) = 0 * Cardinality({})
    BY <2>1, Sets, SumOfShares
  <2>3. Cardinality({}) = 0
    BY FS_EmptySet
  <2> QED BY <2>2, <2>3, TotalIsSum
<1>5. Backed(ledger, 0, 0)
  BY <1>1, Sets DEF Backed, HeldAt
<1>6. Total(ledger.balances) = 0 /\ BondsOf(ledger) = 0
  BY <1>1, <1>3, <1>4 DEF BondsOf
<1>7. Conserved(ledger)
  BY <1>1, <1>2, <1>5, <1>6 DEF Conserved, Unheld
<1> QED BY <1>1, <1>7, EmissionInit DEF MintInv

LEMMA ParticipantsExcept ==
  ASSUME NEW l \in Ledgers, NEW p \in [Wallets -> Records \cup {Null}]
  PROVE  /\ [l EXCEPT !.participants = p] \in Ledgers
         /\ [l EXCEPT !.participants = p].balances = l.balances
         /\ [l EXCEPT !.participants = p].participants = p
<1> DEFINE m == [l EXCEPT !.participants = p]
<1>1. /\ l.balances \in [Addresses -> Int] /\ l.history \in [Addresses -> Seq(Entries)]
      /\ m = [balances |-> l.balances, history |-> l.history, participants |-> p]
  BY DEF Ledgers
<1> HIDE DEF m
<1>2. m \in Ledgers
  BY <1>1 DEF Ledgers
<1> QED BY <1>1, <1>2 DEF m

(* A record that changes takes its bond with it.                           *)
LEMMA BondsChange ==
  ASSUME NEW l \in Ledgers, NEW m \in Ledgers, NEW a \in Wallets, NEW n \in Int,
         m.participants[a] = Null => n = 0,
         m.participants[a] # Null => m.participants[a].bond = n,
         \A b \in Wallets \ {a} : m.participants[b] = l.participants[b]
  PROVE  BondsOf(m) = BondsOf(l) - (IF l.participants[a] = Null THEN 0
                                    ELSE l.participants[a].bond) + n
<1> DEFINE f == [b \in Wallets |-> IF l.participants[b] = Null THEN 0
                                   ELSE l.participants[b].bond]
           g == [b \in Wallets |-> IF m.participants[b] = Null THEN 0
                                   ELSE m.participants[b].bond]
<1>1. f \in [Wallets -> Int] /\ g \in [Wallets -> Int]
  BY BondsType
<1>2. g = [f EXCEPT ![a] = n]
  <2>1. \A b \in Wallets : g[b] = IF b = a THEN n ELSE f[b]
    OBVIOUS
  <2> HIDE DEF f, g
  <2> QED BY <1>1, <2>1
<1>3. BondsOf(l) = SumFunction(f) /\ BondsOf(m) = SumFunction(g)
  BY TotalIsSum DEF BondsOf
<1>4. f[a] = IF l.participants[a] = Null THEN 0 ELSE l.participants[a].bond
  OBVIOUS
<1> HIDE DEF f, g
<1>5. SumFunction(g) = SumFunction(f) - f[a] + n
  <2>1. IsFiniteSet(Wallets)
    BY Sets
  <2>2. SumFunction([f EXCEPT ![a] = n]) = SumFunction(f) - f[a] + n
    BY <1>1, <2>1, SumChange
  <2> QED BY <1>2, <2>2
<1> QED BY <1>3, <1>4, <1>5

(* A transaction leaves a ledger: the record of its signer has another     *)
(* lastSeen, and no other field of a record changes.                       *)
LEMMA SignedType ==
  ASSUME ledger \in Ledgers, NEW a \in Signers, NEW units \in Nat, NEW h \in Nat
  PROVE  LET r == Signed(a, units, h)
         IN /\ r \in Ledgers
            /\ r.balances = [ledger.balances EXCEPT ![a] = ledger.balances[a] - units]
            /\ \A b \in Wallets :
                 /\ (r.participants[b] = Null) <=> (ledger.participants[b] = Null)
                 /\ r.participants[b] # Null =>
                      /\ r.participants[b].bond = ledger.participants[b].bond
                      /\ r.participants[b].sponsor = ledger.participants[b].sponsor
<1> DEFINE new == [ledger.balances EXCEPT ![a] = ledger.balances[a] - units]
           d   == SetBalances(ledger, new, {a}, h)
           r   == Signed(a, units, h)
           seen == a \in Wallets /\ ledger.participants[a] # Null
           p   == [ledger.participants EXCEPT ![a].lastSeen = h]
<1>1. /\ ledger.balances \in [Addresses -> Int] /\ a \in Addresses
      /\ ledger.participants \in [Wallets -> Records \cup {Null}]
  BY Sets DEF Ledgers
<1>2. new \in [Addresses -> Int] /\ \A b \in Addresses \ {a} : new[b] = ledger.balances[b]
  BY <1>1
<1>3. /\ d \in Ledgers /\ d.participants = ledger.participants /\ d.balances = new
  <2>1. d \in Ledgers /\ d.participants = ledger.participants
        /\ d.balances = [b \in Addresses |-> IF b \in {a} THEN new[b] ELSE ledger.balances[b]]
    <3> HIDE DEF new
    <3> QED BY <1>1, <1>2, SetBalancesType
  <2> HIDE DEF d, new
  <2>2. \A b \in Addresses : (IF b \in {a} THEN new[b] ELSE ledger.balances[b]) = new[b]
    BY <1>2
  <2> QED BY <1>2, <2>1, <2>2
<1>4. /\ r \in Ledgers /\ r.balances = new
      /\ r.participants = IF seen THEN p ELSE ledger.participants
  <2>1. r = IF seen THEN [d EXCEPT !.participants[a].lastSeen = h] ELSE d
    BY DEF Signed
  <2>2. CASE ~seen
    BY <1>3, <2>1, <2>2
  <2>3. CASE seen
    <3>1. p \in [Wallets -> Records \cup {Null}]
      <4>1. ledger.participants[a] \in Records
        BY <1>1, <2>3
      <4>2. [ledger.participants[a] EXCEPT !.lastSeen = h] \in Records
        BY <4>1 DEF Records
      <4> QED BY <1>1, <4>2
    <3>2. r = [d EXCEPT !.participants[a].lastSeen = h]
      BY <2>1, <2>3
    <3>3. [d EXCEPT !.participants[a].lastSeen = h]
            = [d EXCEPT !.participants = [d.participants EXCEPT ![a].lastSeen = h]]
      BY <1>3 DEF Ledgers
    <3> HIDE DEF d, r
    <3>4. r = [d EXCEPT !.participants = p]
      BY <1>3, <3>2, <3>3
    <3> HIDE DEF p, new
    <3> QED BY <1>3, <2>3, <3>1, <3>4, ParticipantsExcept
  <2> QED BY <2>2, <2>3
<1> HIDE DEF r
<1>5. ASSUME NEW b \in Wallets
      PROVE  /\ (r.participants[b] = Null) <=> (ledger.participants[b] = Null)
             /\ r.participants[b] # Null =>
                  /\ r.participants[b].bond = ledger.participants[b].bond
                  /\ r.participants[b].sponsor = ledger.participants[b].sponsor
  <2>1. CASE b = a /\ seen
    <3>1. ledger.participants[a] \in Records
      BY <1>1, <2>1
    <3>2. r.participants[b] = [ledger.participants[a] EXCEPT !.lastSeen = h]
      BY <1>1, <1>4, <2>1
    <3>3. [ledger.participants[a] EXCEPT !.lastSeen = h] \in Records
          /\ [ledger.participants[a] EXCEPT !.lastSeen = h].bond = ledger.participants[a].bond
          /\ [ledger.participants[a] EXCEPT !.lastSeen = h].sponsor = ledger.participants[a].sponsor
      BY <3>1 DEF Records
    <3> QED BY <2>1, <3>1, <3>2, <3>3, Sets
  <2>2. CASE ~(b = a /\ seen)
    <3>1. r.participants[b] = ledger.participants[b]
      BY <1>1, <1>4, <2>2
    <3> QED BY <3>1
  <2> QED BY <2>1, <2>2
<1> QED BY <1>4, <1>5 DEF r, new

(* What a transaction takes from its signer, and what it leaves alone.     *)
LEMMA SignedTotal ==
  ASSUME PoolsAreSilent, MintInv, NEW a \in Signers, NEW units \in Nat, NEW h \in Nat
  PROVE  LET r == Signed(a, units, h)
         IN /\ r \in Ledgers
            /\ Backed(r, meta.nodePool, meta.holderPool)
            /\ Total(r.balances) = Total(ledger.balances) - units
            /\ BondsOf(r) = BondsOf(ledger)
            /\ \A b \in Wallets :
                 /\ (r.participants[b] = Null) <=> (ledger.participants[b] = Null)
                 /\ r.participants[b] # Null =>
                      /\ r.participants[b].bond = ledger.participants[b].bond
                      /\ r.participants[b].sponsor = ledger.participants[b].sponsor
<1> DEFINE new == [ledger.balances EXCEPT ![a] = ledger.balances[a] - units]
           r   == Signed(a, units, h)
<1>1. /\ ledger \in Ledgers /\ Backed(ledger, meta.nodePool, meta.holderPool)
      /\ ledger.balances \in [Addresses -> Int] /\ a \in Addresses
  BY Sets DEF MintInv, Conserved, Ledgers
<1>2. new \in [Addresses -> Int] /\ \A b \in Addresses \ {a} : new[b] = ledger.balances[b]
  BY <1>1
<1>3. Total(new) = Total(ledger.balances) - units
  <2>1. SumFunction(new) = SumFunction(ledger.balances) - ledger.balances[a]
                             + (ledger.balances[a] - units)
    BY <1>1, Sets, SumChange
  <2>2. SumFunction(ledger.balances) \in Int /\ ledger.balances[a] \in Int
    BY <1>1, Sets, SumStep
  <2> HIDE DEF new
  <2> QED BY <2>1, <2>2, TotalIsSum
<1>4. /\ r \in Ledgers /\ r.balances = new
      /\ \A b \in Wallets :
           /\ (r.participants[b] = Null) <=> (ledger.participants[b] = Null)
           /\ r.participants[b] # Null =>
                /\ r.participants[b].bond = ledger.participants[b].bond
                /\ r.participants[b].sponsor = ledger.participants[b].sponsor
  BY <1>1, SignedType
<1> HIDE DEF r
<1>5. BondsOf(r) = BondsOf(ledger)
  <2>1. [b \in Wallets |-> IF r.participants[b] = Null THEN 0 ELSE r.participants[b].bond]
          = [b \in Wallets |-> IF ledger.participants[b] = Null THEN 0
                               ELSE ledger.participants[b].bond]
    BY <1>4
  <2> QED BY <2>1 DEF BondsOf
<1>6. Backed(r, meta.nodePool, meta.holderPool)
  <2> SUFFICES ASSUME NEW b \in {NodePool, HolderPool} \ {Treasury}
               PROVE  HeldAt(b, meta.nodePool, meta.holderPool) <= r.balances[b]
    BY DEF Backed
  <2>1. b # a /\ b \in Addresses
    BY Sets DEF PoolsAreSilent
  <2>2. r.balances[b] = ledger.balances[b]
    BY <1>2, <1>4, <2>1
  <2> QED BY <1>1, <2>2 DEF Backed
<1> QED BY <1>3, <1>4, <1>5, <1>6 DEF r

(* What a transaction gives to an address.                                 *)
LEMMA GivenTotal ==
  ASSUME NEW l \in Ledgers, NEW b \in Addresses, NEW units \in Nat, NEW h \in Nat,
         meta.nodePool \in Nat, meta.holderPool \in Nat,
         Backed(l, meta.nodePool, meta.holderPool)
  PROVE  LET r == Credit(l, Only(b, units), h)
         IN /\ r \in Ledgers
            /\ Backed(r, meta.nodePool, meta.holderPool)
            /\ Total(r.balances) = Total(l.balances) + units
            /\ BondsOf(r) = BondsOf(l)
<1> DEFINE pay == Only(b, units)
           r   == Credit(l, pay, h)
<1>1. pay \in [Addresses -> Int] /\ Total(pay) = units
  BY OnlyTotal
<1>2. \A a \in Addresses : pay[a] \in Nat
  BY DEF Only
<1> HIDE DEF pay
<1>3. /\ r \in Ledgers /\ r.participants = l.participants
      /\ r.balances = Plus(l.balances, pay)
      /\ Total(r.balances) = Total(l.balances) + Total(pay)
  BY <1>1, CreditTotal
<1> HIDE DEF r
<1>4. Backed(r, meta.nodePool, meta.holderPool)
  <2> SUFFICES ASSUME NEW a \in {NodePool, HolderPool} \ {Treasury}
               PROVE  HeldAt(a, meta.nodePool, meta.holderPool) <= r.balances[a]
    BY DEF Backed
  <2>1. a \in Addresses /\ l.balances[a] \in Int
    BY PoolFacts
  <2>2. r.balances[a] = l.balances[a] + pay[a]
    BY <1>3, <2>1 DEF Plus
  <2>3. HeldAt(a, meta.nodePool, meta.holderPool) \in Int
    BY DEF HeldAt
  <2>4. HeldAt(a, meta.nodePool, meta.holderPool) <= l.balances[a]
    BY DEF Backed
  <2> QED BY <1>2, <2>1, <2>2, <2>3, <2>4
<1>5. BondsOf(r) = BondsOf(l)
  BY <1>3 DEF BondsOf
<1> QED BY <1>1, <1>3, <1>4, <1>5 DEF r, pay

LEMMA MintTransfer ==
  ASSUME PoolsAreSilent, MintInv, NEW a \in Signers, NEW b \in Addresses, NEW units \in Amounts,
         Transfer(a, b, units)
  PROVE  MintInv'
<1> DEFINE h == height + 1
           d == Signed(a, units, h)
           r == Credit(d, Only(b, units), h)
<1>1. units \in Nat /\ h \in Nat /\ meta.nodePool \in Nat /\ meta.holderPool \in Nat
  BY Sets DEF MintInv, EmissionInv
<1>2. /\ d \in Ledgers /\ Backed(d, meta.nodePool, meta.holderPool)
      /\ Total(d.balances) = Total(ledger.balances) - units
      /\ BondsOf(d) = BondsOf(ledger)
  <2> HIDE DEF h
  <2> QED BY <1>1, SignedTotal
<1>3. Seal(r)
  BY DEF Transfer
<1> HIDE DEF d, h
<1>4. /\ r \in Ledgers /\ Backed(r, meta.nodePool, meta.holderPool)
      /\ Total(r.balances) = Total(d.balances) + units
      /\ BondsOf(r) = BondsOf(d)
  BY <1>1, <1>2, GivenTotal
<1> HIDE DEF r
<1>5. Total(ledger.balances) \in Int
  BY PlusTotal DEF MintInv, Conserved, Ledgers
<1>6. Total(r.balances) = Total(ledger.balances)
  BY <1>1, <1>2, <1>4, <1>5
<1>7. Conserved(r)
  BY <1>2, <1>4, <1>6 DEF MintInv, Conserved
<1> QED BY <1>1, <1>3, <1>7, SealConserves DEF MintInv

LEMMA MintRegister ==
  ASSUME PoolsAreSilent, MintInv, NEW a \in Signers, NEW b \in Wallets, Register(a, b)
  PROVE  MintInv'
<1> DEFINE h   == height + 1
           d   == Signed(a, BondMicro, h)
           rec == [sponsor |-> a, bond |-> BondMicro, registered |-> h, lastSeen |-> h]
           p   == [d.participants EXCEPT ![b] = rec]
           r   == [d EXCEPT !.participants = p]
<1>1. BondMicro \in Nat /\ h \in Nat /\ meta.nodePool \in Nat /\ meta.holderPool \in Nat
  BY Sets DEF MintInv, EmissionInv
<1>2. /\ d \in Ledgers /\ Backed(d, meta.nodePool, meta.holderPool)
      /\ Total(d.balances) = Total(ledger.balances) - BondMicro
      /\ BondsOf(d) = BondsOf(ledger)
      /\ (d.participants[b] = Null) <=> (ledger.participants[b] = Null)
  <2> HIDE DEF h
  <2> QED BY <1>1, SignedTotal
<1>3. Seal([d EXCEPT !.participants[b] = rec]) /\ ledger.participants[b] = Null
  BY DEF Register
<1>4. rec \in Records /\ rec # Null
  <2>1. rec \in Records
    BY <1>1, Sets DEF Records
  <2> QED BY <2>1, Sets
<1>5. rec.bond = BondMicro
  OBVIOUS
<1> HIDE DEF d, h, rec
<1>6. Seal(r)
  <2>1. [d EXCEPT !.participants[b] = rec] = [d EXCEPT !.participants = [d.participants EXCEPT ![b] = rec]]
    BY <1>2 DEF Ledgers
  <2> QED BY <1>3, <2>1
<1>7. p \in [Wallets -> Records \cup {Null}]
  BY <1>2, <1>4 DEF Ledgers
<1>8. /\ p[b] = rec /\ \A c \in Wallets \ {b} : p[c] = d.participants[c]
  BY <1>2 DEF Ledgers
<1> HIDE DEF p
<1>9. r \in Ledgers /\ r.balances = d.balances /\ r.participants = p
  BY <1>2, <1>7, ParticipantsExcept
<1> HIDE DEF r
<1>10. BondsOf(r) = BondsOf(d) - (IF d.participants[b] = Null THEN 0
                                  ELSE d.participants[b].bond) + BondMicro
  BY <1>1, <1>2, <1>4, <1>5, <1>8, <1>9, BondsChange
<1>11. Total(ledger.balances) \in Int /\ BondsOf(ledger) \in Int
  BY PlusTotal, BondsType DEF MintInv, Conserved, Ledgers
<1>12. Total(r.balances) + BondsOf(r) = Total(ledger.balances) + BondsOf(ledger)
  BY <1>1, <1>2, <1>3, <1>9, <1>10, <1>11
<1>13. Backed(r, meta.nodePool, meta.holderPool)
  BY <1>2, <1>9 DEF Backed
<1>14. Conserved(r)
  BY <1>9, <1>12, <1>13 DEF MintInv, Conserved
<1> QED BY <1>1, <1>6, <1>14, SealConserves DEF MintInv

LEMMA MintUnregister ==
  ASSUME PoolsAreSilent, MintInv, NEW a \in Signers \cap Wallets, Unregister(a)
  PROVE  MintInv'
<1> DEFINE h    == height + 1
           rec  == ledger.participants[a]
           d    == Signed(a, 0, h)
           p    == [d.participants EXCEPT ![a] = Null]
           gone == [d EXCEPT !.participants = p]
           r    == Credit(gone, Only(rec.sponsor, rec.bond), h)
<1>1. h \in Nat /\ meta.nodePool \in Nat /\ meta.holderPool \in Nat
  BY DEF MintInv, EmissionInv
<1>2. rec # Null /\ Seal(Credit([d EXCEPT !.participants[a] = Null],
                                Only(rec.sponsor, rec.bond), h))
  BY DEF Unregister
<1>3. rec.sponsor \in Addresses /\ rec.bond \in Nat
  <2>1. rec \in Records
    BY <1>2 DEF MintInv, Conserved, Ledgers
  <2> QED BY <2>1 DEF Records
<1> HIDE DEF rec
<1>4. /\ d \in Ledgers /\ Backed(d, meta.nodePool, meta.holderPool)
      /\ Total(d.balances) = Total(ledger.balances) - 0
      /\ BondsOf(d) = BondsOf(ledger)
      /\ d.participants[a] # Null /\ d.participants[a].bond = rec.bond
  <2>1. a \in Signers /\ a \in Wallets /\ 0 \in Nat
    OBVIOUS
  <2>2. ledger.participants[a] # Null
    BY <1>2 DEF rec
  <2> HIDE DEF h
  <2>3. /\ d \in Ledgers /\ Backed(d, meta.nodePool, meta.holderPool)
        /\ Total(d.balances) = Total(ledger.balances) - 0
        /\ BondsOf(d) = BondsOf(ledger)
        /\ (d.participants[a] = Null) <=> (ledger.participants[a] = Null)
        /\ d.participants[a] # Null => d.participants[a].bond = ledger.participants[a].bond
    BY <1>1, <2>1, SignedTotal
  <2> HIDE DEF d
  <2> QED BY <2>2, <2>3 DEF rec
<1> HIDE DEF d, h
<1>5. Seal(r)
  <2>1. [d EXCEPT !.participants[a] = Null] = [d EXCEPT !.participants = [d.participants EXCEPT ![a] = Null]]
    BY <1>4 DEF Ledgers
  <2> QED BY <1>2, <2>1
<1>6. /\ p \in [Wallets -> Records \cup {Null}]
      /\ p[a] = Null /\ \A c \in Wallets \ {a} : p[c] = d.participants[c]
  BY <1>4 DEF Ledgers
<1> HIDE DEF p
<1>7. gone \in Ledgers /\ gone.balances = d.balances /\ gone.participants = p
  BY <1>4, <1>6, ParticipantsExcept
<1> HIDE DEF gone
<1>8. BondsOf(gone) = BondsOf(d) - (IF d.participants[a] = Null THEN 0
                                    ELSE d.participants[a].bond) + 0
  BY <1>4, <1>6, <1>7, BondsChange
<1>9. Backed(gone, meta.nodePool, meta.holderPool)
  BY <1>4, <1>7 DEF Backed
<1>10. /\ r \in Ledgers /\ Backed(r, meta.nodePool, meta.holderPool)
       /\ Total(r.balances) = Total(gone.balances) + rec.bond
       /\ BondsOf(r) = BondsOf(gone)
  BY <1>1, <1>3, <1>7, <1>9, GivenTotal
<1> HIDE DEF r
<1>11. Total(ledger.balances) \in Int /\ BondsOf(ledger) \in Int
  BY PlusTotal, BondsType DEF MintInv, Conserved, Ledgers
<1>12. Total(r.balances) + BondsOf(r) = Total(ledger.balances) + BondsOf(ledger)
  BY <1>3, <1>4, <1>7, <1>8, <1>10, <1>11
<1>13. Conserved(r)
  BY <1>10, <1>12 DEF MintInv, Conserved
<1> QED BY <1>1, <1>5, <1>13, SealConserves DEF MintInv

LEMMA MintHeartbeat ==
  ASSUME PoolsAreSilent, MintInv, NEW a \in Signers \cap Wallets, Heartbeat(a)
  PROVE  MintInv'
<1> DEFINE h == height + 1
           r == Signed(a, 0, h)
<1>1. h \in Nat /\ meta.nodePool \in Nat /\ meta.holderPool \in Nat
  BY DEF MintInv, EmissionInv
<1>2. /\ r \in Ledgers /\ Backed(r, meta.nodePool, meta.holderPool)
      /\ Total(r.balances) = Total(ledger.balances) - 0
      /\ BondsOf(r) = BondsOf(ledger)
  <2> HIDE DEF h
  <2> QED BY <1>1, SignedTotal
<1>3. Seal(r)
  BY DEF Heartbeat
<1> HIDE DEF r
<1>4. Total(ledger.balances) \in Int
  BY PlusTotal DEF MintInv, Conserved, Ledgers
<1>5. Conserved(r)
  BY <1>2, <1>4 DEF MintInv, Conserved
<1> QED BY <1>1, <1>3, <1>5, SealConserves DEF MintInv

LEMMA MintStep == PoolsAreSilent /\ MintInv /\ [Next]_vars => MintInv'
<1> SUFFICES ASSUME PoolsAreSilent, MintInv, [Next]_vars PROVE MintInv'
  OBVIOUS
<1>1. CASE UNCHANGED vars
  BY <1>1, EmissionStep DEF MintInv, Conserved, BondsOf, vars
<1>2. CASE EmptyBlock
  BY <1>2, SealConserves DEF EmptyBlock, MintInv
<1>3. ASSUME NEW a \in Signers, NEW b \in Addresses, NEW units \in Amounts, Transfer(a, b, units)
      PROVE  MintInv'
  BY <1>3, MintTransfer
<1>4. ASSUME NEW a \in Signers, NEW b \in Wallets, Register(a, b)
      PROVE  MintInv'
  BY <1>4, MintRegister
<1>5. ASSUME NEW a \in Signers \cap Wallets, Unregister(a)
      PROVE  MintInv'
  BY <1>5, MintUnregister
<1>6. ASSUME NEW a \in Signers \cap Wallets, Heartbeat(a)
      PROVE  MintInv'
  BY <1>6, MintHeartbeat
<1> QED BY <1>1, <1>2, <1>3, <1>4, <1>5, <1>6 DEF Next

(* Balances, bonds and pools are together what was minted, over any number *)
(* of blocks, whatever the addresses of the pools, the stakes, the         *)
(* histories and the maturities are, as long as nobody sends from a pool's *)
(* address (mintAndDistribute, payoutPools).                               *)
THEOREM NothingIsLostInMint ==
  ASSUME PoolsAreSilent
  PROVE  Spec => []MintIsConserved
<1>1. MintInv => MintIsConserved
  BY DEF MintInv, EmissionInv, Conserved, MintIsConserved, BondsOf, Bonds
<1>2. Init => MintInv
  BY MintInit
<1>3. MintInv /\ [Next]_vars => MintInv'
  BY MintStep
<1> QED BY <1>1, <1>2, <1>3, PTL DEF Spec

(* A pool's address always has what the pool owes: its payout is whole.    *)
THEOREM PoolsAreBacked ==
  ASSUME PoolsAreSilent
  PROVE  Spec => []Backed(ledger, meta.nodePool, meta.holderPool)
<1>1. MintInv => Backed(ledger, meta.nodePool, meta.holderPool)
  BY DEF MintInv, Conserved
<1>2. Init => MintInv
  BY MintInit
<1>3. MintInv /\ [Next]_vars => MintInv'
  BY MintStep
<1> QED BY <1>1, <1>2, <1>3, PTL DEF Spec

-----------------------------------------------------------------------------

(* What the history of an address tells of its balances was[1], was[2], .. *)
(* at the heights that are known: from each entry to the next one they are *)
(* what it says, and before the first one nothing, unless entries before   *)
(* the window were dropped.                                                *)
Ascending(entries, h) ==
  /\ \A i \in 1..Len(entries) : entries[i].height \in 1..h
  /\ \A i, j \in 1..Len(entries) : i < j => entries[i].height < entries[j].height

Covers(entries, i, k) ==
  entries[i].height <= k /\ (i # Len(entries) => k < entries[i + 1].height)

Tells(entries, balance, was, h) ==
  /\ entries \in Seq(Entries)
  /\ Ascending(entries, h)
  /\ entries # <<>> => entries[Len(entries)].balance = balance
  /\ entries = <<>> => balance = 0 /\ \A k \in DOMAIN was : was[k] = 0
  /\ \A i \in 1..Len(entries), k \in DOMAIN was :
       Covers(entries, i, k) => was[k] = entries[i].balance
  /\ entries # <<>> =>
       \/ entries[1].height < WindowStart(h)
       \/ \A k \in DOMAIN was : k < entries[1].height => was[k] = 0

LEMMA AverageIsMean ==
  ASSUME NEW h \in Nat, NEW was \in [1..h -> Int], NEW entries, NEW balance \in Int,
         Tells(entries, balance, was, h)
  PROVE  LET start == WindowStart(h)
         IN AverageBalance(entries, balance, start, h)
              = Total([k \in {j \in start..h : j > 0} |-> was[k]]) \div (h - start + 1)
<1> DEFINE start == WindowStart(h)
           window == {j \in start..h : j > 0}
           v == [k \in window |-> was[k]]
           w == [k \in 0..h |-> IF k \in window THEN was[k] ELSE 0]
           n == Len(entries)
           from(i)  == IF entries[i].height <= start THEN start ELSE entries[i].height
           until(i) == IF i = n THEN h + 1 ELSE from(i + 1)
           parts    == [i \in DOMAIN entries |-> entries[i].balance * (until(i) - from(i))]
<1>1. start \in Nat /\ start <= h
  BY WindowFacts
<1>2. entries \in Seq(Entries) /\ n \in Nat /\ DOMAIN entries = 1..n
  BY DEF Tells
<1>3. \A i \in 1..n : /\ entries[i].height \in 1..h /\ entries[i].height \in Int
                      /\ entries[i].balance \in Int
  <2>1. \A i \in 1..n : entries[i] \in Entries
    BY <1>2
  <2> QED BY <2>1 DEF Tells, Ascending, Entries
<1> HIDE DEF start
<1>4. /\ window \in SUBSET (0..h) /\ v \in [window -> Int] /\ w \in [0..h -> Int]
      /\ \A k \in window : k \in 1..h /\ v[k] = w[k]
      /\ \A k \in (0..h) \ window : w[k] = 0
      /\ \A k \in 0..h : w[k] = IF k >= start /\ k > 0 THEN was[k] ELSE 0
      /\ IsFiniteSet(0..h)
  <2>1. \A k \in 0..h : k \in window <=> k >= start /\ k > 0
    BY <1>1
  <2>2. window \in SUBSET (0..h) /\ \A k \in window : k \in 1..h /\ was[k] \in Int
    BY <1>1
  <2> HIDE DEF window
  <2>3. v \in [window -> Int] /\ w \in [0..h -> Int]
    BY <2>2
  <2>4. \A k \in window : k \in 1..h /\ v[k] = w[k]
    BY <2>2
  <2>5. \A k \in (0..h) \ window : w[k] = 0
    OBVIOUS
  <2>6. \A k \in 0..h : w[k] = IF k >= start /\ k > 0 THEN was[k] ELSE 0
    BY <2>1
  <2>7. IsFiniteSet(0..h)
    BY FS_Interval
  <2> QED BY <2>2, <2>3, <2>4, <2>5, <2>6, <2>7
<1>5. Total(v) = SumFunction(w)
  <2> HIDE DEF v, w, window
  <2>1. PICK S, f, T, g : S = 0..h /\ f = w /\ T = window /\ g = v
    OBVIOUS
  <2>2. /\ IsFiniteSet(S) /\ f \in [S -> Int] /\ T \in SUBSET S /\ g \in [T -> Int]
        /\ \A k \in S \ T : f[k] = 0
        /\ \A k \in T : g[k] = f[k]
    BY <1>4, <2>1
  <2>3. SumFunction(f) = SumFunctionOnSet(f, T)
    BY <2>2, SumOfSupport
  <2>4. SumFunctionOnSet(f, T) = SumFunction(g)
    BY <2>2, SumOfPart
  <2> QED BY <2>1, <2>3, <2>4, TotalIsSum
<1>6. CASE entries = <<>>
  <2>1. balance = 0 /\ \A k \in 1..h : was[k] = 0
    BY <1>6 DEF Tells
  <2>2. \A k \in 0..h : w[k] = IF k \in {} THEN 0 ELSE 0
    BY <1>4, <2>1
  <2> HIDE DEF w
  <2>3. SumFunction(w) = 0 * Cardinality({})
    BY <1>4, <2>2, SumOfShares
  <2>4. SumFunction(w) = 0
    BY <2>3, FS_EmptySet
  <2>5. AverageBalance(entries, balance, start, h) = 0
    BY <1>6, <2>1 DEF AverageBalance
  <2>6. 0 \div (h - start + 1) = 0
    BY <1>1
  <2> QED BY <1>5, <2>4, <2>5, <2>6 DEF start
<1>7. CASE entries # <<>>
  <2>1. n # 0 /\ 1 \in 1..n /\ n \in 1..n
    BY <1>2, <1>7
  <2>2. AverageBalance(entries, balance, start, h) = Total(parts) \div (h - start + 1)
    BY <1>7 DEF AverageBalance
  <2>3. \A i \in 1..n : from(i) \in start..h /\ from(i) >= entries[i].height /\ from(i) >= 1 - 1
    BY <1>1, <1>3
  <2>4. \A i \in 1..n : i # n => i + 1 \in 1..n /\ entries[i].height < entries[i + 1].height
    <3>1. \A i \in 1..n : i # n => i + 1 \in 1..n /\ i < i + 1
      <4> HIDE DEF n
      <4> QED BY <1>2
    <3> QED BY <3>1 DEF Tells, Ascending
  <2>5. \A i \in 1..n : until(i) \in start..h + 1 /\ from(i) <= until(i)
    <3> SUFFICES ASSUME NEW i \in 1..n PROVE until(i) \in start..h + 1 /\ from(i) <= until(i)
      OBVIOUS
    <3>1. CASE i = n
      BY <1>1, <2>3, <3>1
    <3>2. CASE i # n
      <4>1. i + 1 \in 1..n /\ entries[i].height < entries[i + 1].height
        BY <2>4, <3>2
      <4>2. from(i + 1) \in start..h /\ from(i) <= from(i + 1)
        BY <1>1, <1>3, <2>3, <4>1
      <4> QED BY <1>1, <3>2, <4>2
    <3> QED BY <3>1, <3>2
  <2>6. ASSUME NEW i \in 1..n, NEW k \in from(i)..until(i) - 1
        PROVE  w[k] = entries[i].balance
    <3>1. k \in Int /\ k >= start /\ k >= entries[i].height /\ k \in 1..h
      BY <1>1, <1>3, <2>3, <2>5
    <3>2. i # n => k < entries[i + 1].height
      <4> SUFFICES ASSUME i # n PROVE k < entries[i + 1].height
        OBVIOUS
      <4>1. i + 1 \in 1..n /\ until(i) = from(i + 1)
        BY <2>4
      <4>2. k < from(i + 1)
        BY <1>3, <2>3, <3>1, <4>1
      <4>3. CASE entries[i + 1].height <= start
        BY <1>1, <3>1, <4>2, <4>3
      <4>4. CASE ~(entries[i + 1].height <= start)
        BY <4>2, <4>4
      <4> QED BY <4>3, <4>4
    <3>3. Covers(entries, i, k)
      BY <3>1, <3>2 DEF Covers
    <3>4. was[k] = entries[i].balance
      BY <3>1, <3>3 DEF Tells
    <3> QED BY <1>4, <3>1, <3>4
  <2>7. ASSUME NEW k \in 0..from(1) - 1
        PROVE  w[k] = 0
    <3>1. CASE k < start
      BY <1>1, <1>4, <2>1, <2>3, <3>1
    <3>2. CASE k = 0
      BY <1>4, <3>2
    <3>3. CASE k >= start /\ k > 0
      <4>1. k \in 1..h /\ k < entries[1].height /\ ~(entries[1].height < start)
        BY <1>1, <1>3, <2>1, <2>3, <3>3
      <4>2. was[k] = 0
        BY <1>7, <4>1 DEF Tells, start
      <4> QED BY <1>4, <4>1, <4>2
    <3> QED BY <1>1, <2>1, <2>3, <3>1, <3>2, <3>3
  <2>8. parts \in [1..n -> Int] /\ \A i \in 1..n : parts[i] = entries[i].balance * (until(i) - from(i))
    <3>1. \A i \in 1..n : entries[i].balance * (until(i) - from(i)) \in Int
      <4>1. \A i \in 1..n : entries[i].balance \in Int /\ until(i) \in Int /\ from(i) \in Int
        BY <1>1, <1>3, <2>3, <2>5
      <4> HIDE DEF from, until
      <4> QED BY <4>1
    <3> HIDE DEF from, until
    <3> QED BY <1>2, <3>1
  <2> HIDE DEF v, w, parts, window
  <2>9. PICK P : PartialSums(P, w, 0, h) /\ P[h + 1] = SumFunction(w)
    BY <1>4, PrefixSums
  <2>10. PICK F : PartialSums(F, parts, 1, n) /\ F[n + 1] = SumFunction(parts)
    <3>1. n \in Int /\ 1 \in Int /\ 1 <= n + 1
      <4> HIDE DEF n
      <4> QED BY <1>2
    <3> HIDE DEF n
    <3> QED BY <2>8, <3>1, PrefixSums
  <2>11. P[from(1)] = 0
    <3>1. from(1) \in 0..h + 1 /\ 0 \in 0..h + 1 /\ 0 <= from(1)
      BY <1>1, <2>1, <2>3
    <3>4. Equal(w, 0, from(1), 0)
      BY <2>7 DEF Equal
    <3> HIDE DEF from
    <3>2. P[from(1)] = P[0] + 0 * (from(1) - 0)
      BY <3>4, <2>9, <3>1, RunOfTerms
    <3>3. P[0] = 0
      BY <2>9 DEF PartialSums
    <3> QED BY <3>1, <3>2, <3>3
  <2>12. ASSUME NEW i \in 1..n
         PROVE  P[until(i)] = P[from(i)] + entries[i].balance * (until(i) - from(i))
    <3>1. from(i) \in 0..h + 1 /\ until(i) \in 0..h + 1 /\ from(i) <= until(i)
      BY <1>1, <2>3, <2>5
    <3>2. \A k \in from(i)..until(i) - 1 : w[k] = entries[i].balance
      BY <2>6
    <3>3. entries[i].balance \in Int
      BY <1>3
    <3>4. PICK lo \in Int, hi \in 0..h + 1, c \in Int :
            lo = from(i) /\ hi = until(i) /\ c = entries[i].balance
      BY <3>1, <3>3
    <3>5. /\ lo \in 0..h + 1 /\ lo <= hi /\ 0 \in Int /\ h \in Int
          /\ Equal(w, lo, hi, c)
      BY <3>1, <3>2, <3>4 DEF Equal
    <3> HIDE DEF from, until
    <3>6. P[hi] = P[lo] + c * (hi - lo)
      BY <2>9, <3>5, RunOfTerms
    <3> QED BY <3>4, <3>6
  <2> DEFINE C == {m \in Nat : m < n => F[m + 1] = P[from(m + 1)]}
  <2>13. 0 \in C
    BY <2>10, <2>11 DEF PartialSums
  <2>14. ASSUME NEW m \in Nat, m < n, F[m + 1] = P[from(m + 1)]
         PROVE  F[m + 2] = P[until(m + 1)]
    <3>1. m + 1 \in 1..n /\ (m + 1) + 1 = m + 2
      BY <1>2, <2>14
    <3>2. F[m + 2] = F[m + 1] + parts[m + 1]
      BY <2>10, <3>1 DEF PartialSums
    <3>3. parts[m + 1] = entries[m + 1].balance * (until(m + 1) - from(m + 1))
      BY <2>8, <3>1
    <3> HIDE DEF from, until
    <3> QED BY <2>12, <2>14, <3>1, <3>2, <3>3
  <2>15. ASSUME NEW m \in Nat, m \in C PROVE m + 1 \in C
    <3> SUFFICES ASSUME m + 1 < n PROVE F[(m + 1) + 1] = P[from((m + 1) + 1)]
      OBVIOUS
    <3>1. m < n /\ m + 1 # n /\ (m + 1) + 1 = m + 2
      <4> HIDE DEF n
      <4> QED BY <1>2
    <3>2. F[m + 2] = P[until(m + 1)]
      BY <2>14, <2>15, <3>1
    <3>3. until(m + 1) = from((m + 1) + 1)
      BY <3>1
    <3> HIDE DEF from, until
    <3> QED BY <3>1, <3>2, <3>3
  <2>16. Nat \subseteq C
    <3> HIDE DEF C
    <3> QED BY <2>13, <2>15, Induction
  <2>17. F[n + 1] = P[h + 1]
    <3>1. n - 1 \in Nat /\ n - 1 < n /\ (n - 1) + 1 = n /\ (n - 1) + 2 = n + 1
      BY <1>2, <2>1
    <3>2. F[(n - 1) + 1] = P[from((n - 1) + 1)]
      BY <2>16, <3>1
    <3>3. F[(n - 1) + 2] = P[until((n - 1) + 1)]
      <4> HIDE DEF from, until
      <4> QED BY <2>14, <3>1, <3>2
    <3>4. until(n) = h + 1
      OBVIOUS
    <3> HIDE DEF from, until
    <3> QED BY <3>1, <3>3, <3>4
  <2>18. Total(parts) = Total(v)
    BY <1>5, <2>9, <2>10, <2>17, TotalIsSum
  <2> QED BY <2>2, <2>18 DEF v, window, start
<1> QED BY <1>6, <1>7

(* A part of a sequence that begins it is as long as it has positions.     *)
LEMMA Beginning ==
  ASSUME NEW n \in Nat, NEW T \in SUBSET (1..n),
         \A i \in 1..n, j \in T : i <= j => i \in T
  PROVE  Cardinality(T) \in 0..n /\ T = 1..Cardinality(T)
<1> DEFINE R == {k \in 1..n + 1 : k \notin T}
<1>1. R \in SUBSET Nat /\ R # {}
  <2>1. n + 1 \in R
    OBVIOUS
  <2>2. R \in SUBSET Nat
    OBVIOUS
  <2> HIDE DEF R
  <2> QED BY <2>1, <2>2
<1>2. PICK c \in R : \A k \in R : c <= k
  <2> HIDE DEF R
  <2> QED BY <1>1, LeastLemma
<1>3. c \in 1..n + 1 /\ c \notin T
  BY <1>2
<1>4. T = 1..c - 1
  <2>1. \A k \in 1..c - 1 : k \in T
    BY <1>2, <1>3
  <2>2. \A k \in T : k \in 1..c - 1
    BY <1>3
  <2> QED BY <2>1, <2>2
<1>5. Cardinality(1..c - 1) = c - 1
  BY <1>3, FS_Interval
<1> QED BY <1>3, <1>4, <1>5

(* The entries that are dropped are not needed within the window.          *)
LEMMA PrunedTells ==
  ASSUME NEW h \in Nat, NEW entries, entries # <<>>, NEW balance, NEW was,
         DOMAIN was \in SUBSET Nat, Tells(entries, balance, was, h)
  PROVE  Pruned(entries, h) # <<>> /\ Tells(Pruned(entries, h), balance, was, h)
<1> DEFINE n == Len(entries)
           T == {i \in DOMAIN entries : entries[i].height < WindowStart(h)}
           b == Before(entries, h)
           m == IF b = 0 THEN 1 ELSE b
           q == SubSeq(entries, m, n)
           d == m - 1
<1>1. entries \in Seq(Entries) /\ n \in Nat /\ n # 0 /\ DOMAIN entries = 1..n
  BY DEF Tells
<1>2. /\ \A i \in 1..n : entries[i] \in Entries /\ entries[i].height \in 1..h
      /\ \A i, j \in 1..n : i < j => entries[i].height < entries[j].height
  BY <1>1 DEF Tells, Ascending
<1>3. WindowStart(h) \in Nat
  BY WindowFacts
<1>4. T \in SUBSET (1..n) /\ \A i \in 1..n, j \in T : i <= j => i \in T
  <2> HIDE DEF n
  <2>1. T \in SUBSET (1..n)
    BY <1>1
  <2>2. ASSUME NEW i \in 1..n, NEW j \in T, i <= j PROVE i \in T
    <3>1. j \in 1..n /\ entries[j].height < WindowStart(h)
      BY <2>1
    <3>2. i = j \/ i < j
      BY <2>2, <3>1
    <3>3. entries[i].height <= entries[j].height
      BY <1>2, <3>1, <3>2
    <3> QED BY <1>1, <1>2, <1>3, <3>1, <3>3
  <2> QED BY <2>1, <2>2
<1>5. b \in 0..n /\ T = 1..b
  <2>1. b = Cardinality(T)
    BY DEF Before
  <2> HIDE DEF n, T, b
  <2> QED BY <1>1, <1>4, <2>1, Beginning
<1>6. Pruned(entries, h) = q
  BY DEF Pruned
<1>7. m \in 1..n /\ (m > 1 => m \in T) /\ d \in Nat /\ (b # 0 => m \in T)
  <2> HIDE DEF n, T, b
  <2> QED BY <1>1, <1>5
<1> HIDE DEF n, T, b, m
<1>8. /\ q \in Seq(Entries) /\ Len(q) = n - d /\ Len(q) \in Nat \ {0}
      /\ \A i \in 1..Len(q) : q[i] = entries[i + d] /\ i + d \in 1..n
  <2>1. \A i \in m..n : entries[i] \in Entries
    BY <1>1, <1>2, <1>7
  <2>2. m \in Int /\ n \in Int /\ m <= n
    BY <1>1, <1>7
  <2>3. /\ q \in Seq(Entries) /\ Len(q) = n - m + 1
        /\ \A i \in 1..n - m + 1 : q[i] = entries[m + i - 1]
    BY <2>1, <2>2, SubSeqProperties
  <2> HIDE DEF q
  <2>4. Len(q) = n - d /\ Len(q) \in Nat \ {0}
    BY <2>2, <2>3, <1>7
  <2>5. ASSUME NEW i \in 1..Len(q) PROVE q[i] = entries[i + d] /\ i + d \in 1..n
    <3>1. i \in 1..n - m + 1 /\ m + i - 1 = i + d /\ i + d \in 1..n
      BY <2>2, <2>3, <1>7
    <3> QED BY <2>3, <3>1
  <2> QED BY <2>3, <2>4, <2>5
<1> HIDE DEF q
<1> DEFINE k == Len(q)
<1>9. k \in Nat \ {0} /\ k + d = n /\ 1 \in 1..k /\ k \in 1..k /\ q # <<>>
  BY <1>1, <1>7, <1>8
<1>10. Ascending(q, h)
  <2>1. \A i \in 1..k : q[i].height \in 1..h
    BY <1>2, <1>8
  <2>2. ASSUME NEW i \in 1..k, NEW j \in 1..k, i < j PROVE q[i].height < q[j].height
    <3>1. i + d \in 1..n /\ j + d \in 1..n /\ i + d < j + d
      BY <1>7, <1>8, <2>2
    <3> QED BY <1>2, <1>8, <3>1
  <2> QED BY <2>1, <2>2 DEF Ascending
<1>11. q[k].balance = balance
  <2>1. q[k] = entries[n]
    BY <1>8, <1>9
  <2>2. entries[n].balance = balance
    BY DEF Tells, n
  <2> QED BY <2>1, <2>2
<1>12. ASSUME NEW i \in 1..k, NEW x \in DOMAIN was, Covers(q, i, x)
       PROVE  was[x] = q[i].balance
  <2>1. i + d \in 1..n /\ q[i] = entries[i + d]
    BY <1>8
  <2>2. Covers(entries, i + d, x)
    <3>1. entries[i + d].height <= x
      BY <1>12, <2>1 DEF Covers
    <3>2. ASSUME i + d # n PROVE x < entries[(i + d) + 1].height
      <4>1. i # k /\ i + 1 \in 1..k /\ (i + 1) + d = (i + d) + 1
        BY <1>7, <1>9, <3>2
      <4>2. x < q[i + 1].height
        BY <1>12, <4>1 DEF Covers
      <4>3. q[i + 1] = entries[(i + 1) + d]
        BY <1>8, <4>1
      <4> QED BY <4>1, <4>2, <4>3
    <3> QED BY <3>1, <3>2 DEF Covers, n
  <2>3. was[x] = entries[i + d].balance
    BY <2>1, <2>2 DEF Tells, n
  <2> QED BY <2>1, <2>3
<1>13. \/ q[1].height < WindowStart(h)
       \/ \A x \in DOMAIN was : x < q[1].height => was[x] = 0
  <2>1. q[1] = entries[1 + d] /\ 1 + d = m
    BY <1>7, <1>8, <1>9
  <2>2. CASE m \in T
    BY <2>1, <2>2 DEF T
  <2>3. CASE m \notin T
    <3>1. m = 1
      BY <1>7, <2>3
    <3> QED BY <2>1, <3>1 DEF Tells
  <2> QED BY <2>2, <2>3
<1> QED BY <1>6, <1>8, <1>9, <1>10, <1>11, <1>12, <1>13 DEF Tells

(* A later window begins later, and a later height allows the entries of   *)
(* an earlier one.                                                         *)
LEMMA LaterTells ==
  ASSUME NEW h \in Nat, NEW entries, NEW balance, NEW was, Tells(entries, balance, was, h)
  PROVE  Tells(entries, balance, was, h + 1)
<1>1. WindowStart(h) \in Nat /\ WindowStart(h + 1) \in Nat /\ WindowStart(h) <= WindowStart(h + 1)
  BY Sets, WindowFacts DEF WindowStart
<1>2. entries \in Seq(Entries) /\ \A i \in 1..Len(entries) : entries[i].height \in 1..h
  BY DEF Tells, Ascending
<1>3. Ascending(entries, h + 1)
  <2>1. \A i \in 1..Len(entries) : entries[i].height \in 1..h + 1
    BY <1>2
  <2> QED BY <2>1 DEF Tells, Ascending
<1>4. entries # <<>> =>
       \/ entries[1].height < WindowStart(h + 1)
       \/ \A k \in DOMAIN was : k < entries[1].height => was[k] = 0
  <2> SUFFICES ASSUME entries # <<>>, entries[1].height < WindowStart(h)
               PROVE  entries[1].height < WindowStart(h + 1)
    BY DEF Tells
  <2>1. 1 \in 1..Len(entries)
    BY <1>2
  <2> QED BY <1>1, <1>2, <2>1
<1> QED BY <1>3, <1>4 DEF Tells

(* The balance at height h is told by an entry at the end, which replaces  *)
(* one of the same height.                                                 *)
LEMMA AppendedTells ==
  ASSUME NEW h \in Nat, h # 0, NEW was, DOMAIN was = 1..h - 1, NEW entries, NEW old,
         Tells(entries, old, was, h), NEW balance \in Int
  PROVE  LET entry == [height |-> h, balance |-> balance]
             again == entries # <<>> /\ Last(entries).height = h
             all   == Append(IF again THEN Front(entries) ELSE entries, entry)
         IN all # <<>> /\ Tells(all, balance, was, h)
<1> DEFINE entry == [height |-> h, balance |-> balance]
           again == entries # <<>> /\ Last(entries).height = h
           kept  == IF again THEN Front(entries) ELSE entries
           all   == Append(kept, entry)
           n     == Len(entries)
           m     == Len(kept)
<1>1. entries \in Seq(Entries) /\ n \in Nat /\ (entries # <<>> <=> n # 0)
  BY DEF Tells
<1>2. /\ \A i \in 1..n : entries[i] \in Entries /\ entries[i].height \in 1..h
      /\ \A i, j \in 1..n : i < j => entries[i].height < entries[j].height
  BY <1>1 DEF Tells, Ascending
<1>3. entry \in Entries /\ entry.height = h /\ entry.balance = balance
  BY DEF Entries
<1> HIDE DEF entry
<1>4. /\ kept \in Seq(Entries) /\ m = (IF again THEN n - 1 ELSE n)
      /\ \A i \in 1..m : kept[i] = entries[i]
  <2>1. CASE again
    <3>1. \A i \in 1..n - 1 : entries[i] \in Entries
      BY <1>1, <1>2
    <3>2. n - 1 \in Nat
      BY <1>1, <2>1
    <3>3. kept = SubSeq(entries, 1, n - 1)
      BY <2>1 DEF Front
    <3> HIDE DEF kept, n
    <3>4. /\ SubSeq(entries, 1, n - 1) \in Seq(Entries)
          /\ Len(SubSeq(entries, 1, n - 1)) = IF 1 <= n - 1 THEN n - 1 - 1 + 1 ELSE 0
          /\ \A i \in 1..n - 1 - 1 + 1 : SubSeq(entries, 1, n - 1)[i] = entries[1 + i - 1]
      BY <3>1, <3>2, SubSeqProperties
    <3> QED BY <2>1, <3>2, <3>3, <3>4 DEF kept
  <2>2. CASE ~again
    BY <1>1, <2>2
  <2> QED BY <2>1, <2>2
<1>5. /\ m \in Nat /\ m <= n
      /\ again => n # 0 /\ m + 1 = n /\ entries[n].height = h
      /\ ~again => m = n /\ (n # 0 => entries[n].height < h)
  <2>1. again => n # 0 /\ entries[n].height = h
    BY <1>1 DEF Last
  <2>2. ASSUME ~again, n # 0 PROVE entries[n].height < h
    <3>1. entries[n].height \in 1..h /\ entries[n].height # h
      BY <1>1, <1>2, <2>2 DEF Last
    <3> QED BY <3>1
  <2> HIDE DEF again, n, m
  <2> QED BY <1>1, <1>4, <2>1, <2>2 DEF m
<1> HIDE DEF kept
<1>6. /\ all \in Seq(Entries) /\ Len(all) = m + 1 /\ all # <<>>
      /\ all[m + 1] = entry /\ \A i \in 1..m : all[i] = entries[i]
  BY <1>3, <1>4, AppendProperties
<1> HIDE DEF all, m, again, n
<1>7. /\ \A i \in 1..m : i \in 1..n /\ entries[i].height < h
      /\ \A i \in 1..m + 1 : all[i].height \in 1..h
  <2>1. ASSUME NEW i \in 1..m PROVE i \in 1..n /\ entries[i].height < h
    <3>1. i \in 1..n /\ n \in 1..n /\ n # 0
      BY <1>1, <1>5
    <3>2. CASE again
      <4>1. i < n /\ entries[i].height < entries[n].height
        BY <1>2, <1>5, <3>1, <3>2
      <4> QED BY <1>5, <3>1, <3>2, <4>1
    <3>3. CASE ~again
      <4>1. entries[n].height < h /\ entries[n].height \in Int /\ entries[i].height \in Int
        BY <1>2, <1>5, <3>1, <3>3
      <4>2. i = n \/ entries[i].height < entries[n].height
        <5>1. i = n \/ i < n
          BY <3>1
        <5> QED BY <1>2, <3>1, <5>1
      <4> QED BY <3>1, <4>1, <4>2
    <3> QED BY <3>2, <3>3
  <2>2. \A i \in 1..m + 1 : i \in 1..m \/ i = m + 1
    BY <1>5
  <2> QED BY <1>2, <1>3, <1>6, <2>1, <2>2
<1>8. Ascending(all, h)
  <2>1. ASSUME NEW i \in 1..m + 1, NEW j \in 1..m + 1, i < j PROVE all[i].height < all[j].height
    <3>1. i \in 1..m /\ (j \in 1..m \/ j = m + 1)
      BY <1>5, <2>1
    <3>2. CASE j \in 1..m
      BY <1>2, <1>6, <1>7, <2>1, <3>1, <3>2
    <3>3. CASE j = m + 1
      BY <1>3, <1>6, <1>7, <3>1, <3>3
    <3> QED BY <3>1, <3>2, <3>3
  <2> QED BY <1>6, <1>7, <2>1 DEF Ascending
<1>9. ASSUME NEW i \in 1..m + 1, NEW x \in 1..h - 1, Covers(all, i, x)
      PROVE  was[x] = all[i].balance
  <2>1. CASE i = m + 1
    <3>1. h <= x
      BY <1>3, <1>6, <1>9, <2>1 DEF Covers
    <3> QED BY <3>1
  <2>2. CASE i # m + 1
    <3>1. i \in 1..m /\ i \in 1..n /\ all[i] = entries[i] /\ i + 1 \in 1..m + 1
      BY <1>5, <1>6, <1>7, <2>2
    <3>2. entries[i].height <= x /\ x < all[i + 1].height
      BY <1>6, <1>9, <2>2, <3>1 DEF Covers
    <3>3. ASSUME i # n PROVE x < entries[i + 1].height
      <4>1. CASE i + 1 \in 1..m
        BY <1>6, <3>2, <4>1
      <4>2. CASE i + 1 \notin 1..m
        <5>1. i = m /\ again /\ i + 1 = n
          BY <1>1, <1>5, <3>1, <3>3, <4>2
        <5>2. entries[i + 1].height = h
          BY <1>5, <5>1
        <5> QED BY <5>2
      <4> QED BY <4>1, <4>2
    <3>4. Covers(entries, i, x)
      BY <3>2, <3>3 DEF Covers, n
    <3>5. was[x] = entries[i].balance
      BY <3>1, <3>4 DEF Tells, n
    <3> QED BY <3>1, <3>5
  <2> QED BY <2>1, <2>2
<1>10. \/ all[1].height < WindowStart(h)
       \/ \A x \in 1..h - 1 : x < all[1].height => was[x] = 0
  <2>1. CASE n = 0
    <3>1. \A x \in 1..h - 1 : was[x] = 0
      BY <1>1, <2>1 DEF Tells
    <3> QED BY <3>1
  <2>2. CASE n # 0
    <3>1. all[1].height = entries[1].height
      <4>1. CASE m = 0
        <5>1. n = 1 /\ entries[1].height = h
          BY <1>1, <1>5, <2>2, <4>1
        <5> QED BY <1>3, <1>6, <4>1, <5>1
      <4>2. CASE m # 0
        <5>1. 1 \in 1..m
          BY <1>5, <4>2
        <5> QED BY <1>6, <5>1
      <4> QED BY <4>1, <4>2
    <3> QED BY <1>1, <2>2, <3>1 DEF Tells
  <2> QED BY <2>1, <2>2
<1>11. Tells(all, balance, was, h)
  BY <1>3, <1>6, <1>8, <1>9, <1>10 DEF Tells
<1> QED BY <1>6, <1>11 DEF all, kept, again, entry

LEMMA RecordedTells ==
  ASSUME NEW h \in Nat, h # 0, NEW was, DOMAIN was = 1..h - 1, NEW entries, NEW old,
         Tells(entries, old, was, h), NEW balance \in Int
  PROVE  Tells(Recorded(entries, balance, h), balance, was, h)
<1> DEFINE entry == [height |-> h, balance |-> balance]
           again == entries # <<>> /\ Last(entries).height = h
           all   == Append(IF again THEN Front(entries) ELSE entries, entry)
<1>1. all # <<>> /\ Tells(all, balance, was, h)
  BY AppendedTells
<1>2. Recorded(entries, balance, h) = Pruned(all, h)
  BY DEF Recorded
<1> HIDE DEF all
<1>3. DOMAIN was \in SUBSET Nat
  OBVIOUS
<1> QED BY <1>1, <1>2, <1>3, PrunedTells

(* What a ledger tells of the balances p after the blocks so far.          *)
Recounts(l, p, h) ==
  \A a \in Addresses :
    Tells(l.history[a], l.balances[a], [k \in DOMAIN p |-> p[k][a]], h)

(* The ledger r tells what l did: nothing of it is lost by height h.       *)
Retells(r, l, h) ==
  \A p : h \in Nat \ {0} /\ DOMAIN p = 1..h - 1 /\ Recounts(l, p, h) => Recounts(r, p, h)

LEMMA RetellsChain ==
  ASSUME NEW l, NEW m, NEW r, NEW h, Retells(m, l, h), Retells(r, m, h)
  PROVE  Retells(r, l, h)
BY DEF Retells

LEMMA SetBalancesHistory ==
  ASSUME NEW l \in Ledgers, NEW new \in [Addresses -> Int], NEW changed, NEW h \in Int
  PROVE  SetBalances(l, new, changed, h).history
           = [a \in Addresses |-> IF a \in changed THEN Recorded(l.history[a], new[a], h)
                                  ELSE l.history[a]]
<1> DEFINE b == [a \in Addresses |-> IF a \in changed THEN new[a] ELSE l.balances[a]]
           y == [a \in Addresses |-> IF a \in changed THEN Recorded(l.history[a], new[a], h)
                                     ELSE l.history[a]]
<1>1. SetBalances(l, new, changed, h) = [l EXCEPT !.balances = b, !.history = y]
  BY DEF SetBalances, Ledgers
<1> HIDE DEF b, y
<1>2. [l EXCEPT !.balances = b, !.history = y]
        = [balances |-> b, history |-> y, participants |-> l.participants]
  BY LedgerExcept
<1> QED BY <1>1, <1>2 DEF y

(* Every change of a balance is recorded.                                  *)
LEMMA SetBalancesRetells ==
  ASSUME NEW l \in Ledgers, NEW new \in [Addresses -> Int], NEW changed, NEW h \in Int
  PROVE  Retells(SetBalances(l, new, changed, h), l, h)
<1> DEFINE r == SetBalances(l, new, changed, h)
<1>1. /\ r.balances = [a \in Addresses |-> IF a \in changed THEN new[a] ELSE l.balances[a]]
      /\ r.history = [a \in Addresses |-> IF a \in changed THEN Recorded(l.history[a], new[a], h)
                                          ELSE l.history[a]]
  BY SetBalancesType, SetBalancesHistory
<1> HIDE DEF r
<1> SUFFICES ASSUME NEW p, h \in Nat \ {0}, DOMAIN p = 1..h - 1, Recounts(l, p, h),
                    NEW a \in Addresses
             PROVE  Tells(r.history[a], r.balances[a], [k \in DOMAIN p |-> p[k][a]], h)
  BY DEF Recounts, Retells, r
<1> DEFINE was == [k \in DOMAIN p |-> p[k][a]]
<1>2. DOMAIN was = 1..h - 1 /\ Tells(l.history[a], l.balances[a], was, h)
  BY DEF Recounts
<1> HIDE DEF was
<1>3. CASE a \in changed
  <2>1. r.balances[a] = new[a] /\ r.history[a] = Recorded(l.history[a], new[a], h) /\ new[a] \in Int
    BY <1>1, <1>3
  <2>2. Tells(Recorded(l.history[a], new[a], h), new[a], was, h)
    BY <1>2, <2>1, RecordedTells
  <2> QED BY <2>1, <2>2 DEF was
<1>4. CASE a \notin changed
  BY <1>1, <1>2, <1>4 DEF was
<1> QED BY <1>3, <1>4

LEMMA CreditRetells ==
  ASSUME NEW l \in Ledgers, NEW pay \in [Addresses -> Int], NEW h \in Int
  PROVE  Retells(Credit(l, pay, h), l, h)
<1> DEFINE new     == [a \in Addresses |-> l.balances[a] + pay[a]]
           changed == {a \in Addresses : pay[a] # 0}
<1>1. new \in [Addresses -> Int]
  BY DEF Ledgers
<1>2. Credit(l, pay, h) = SetBalances(l, new, changed, h)
  BY DEF Credit
<1> HIDE DEF new, changed
<1> QED BY <1>1, <1>2, SetBalancesRetells

(* The participants' records have no part in it.                           *)
LEMMA ParticipantsRetell ==
  ASSUME NEW l \in Ledgers, NEW p, NEW h
  PROVE  Retells([l EXCEPT !.participants = p], l, h)
<1> DEFINE m == [l EXCEPT !.participants = p]
<1>1. m.balances = l.balances /\ m.history = l.history
  BY DEF Ledgers
<1> HIDE DEF m
<1>2. Retells(m, l, h)
  BY <1>1 DEF Retells, Recounts
<1> QED BY <1>2 DEF m

(* What a pool's address gives is recorded, and no other address gives.    *)
LEMMA DebitRetells ==
  ASSUME NEW l \in Ledgers, NEW pool \in Addresses, NEW units \in Nat, NEW h \in Int
  PROVE  /\ DebitPool(l, pool, units, h) \in Ledgers
         /\ DebitPool(l, pool, units, h).participants = l.participants
         /\ \A a \in Addresses \ {pool} :
              DebitPool(l, pool, units, h).balances[a] = l.balances[a]
         /\ Retells(DebitPool(l, pool, units, h), l, h)
<1> DEFINE d == DebitPool(l, pool, units, h)
<1>1. l.balances \in [Addresses -> Int]
  BY DEF Ledgers
<1>2. CASE pool = Treasury
  BY <1>2 DEF DebitPool, Retells
<1>3. CASE pool # Treasury
  <2> DEFINE new == [l.balances EXCEPT ![pool] =
                       IF l.balances[pool] > units THEN l.balances[pool] - units ELSE 0]
             changed == {b \in {pool} : units # 0}
  <2>1. d = SetBalances(l, new, changed, h)
    BY <1>3 DEF DebitPool, Debit
  <2>2. new \in [Addresses -> Int] /\ \A a \in Addresses \ {pool} : new[a] = l.balances[a]
    BY <1>1
  <2>3. /\ d \in Ledgers /\ d.participants = l.participants
        /\ d.balances = [a \in Addresses |-> IF a \in changed THEN new[a] ELSE l.balances[a]]
    <3> HIDE DEF new, changed, d
    <3> QED BY <2>1, <2>2, SetBalancesType
  <2>4. Retells(d, l, h)
    <3> HIDE DEF new, changed, d
    <3> QED BY <2>1, <2>2, SetBalancesRetells
  <2> HIDE DEF new, changed, d
  <2>5. \A a \in Addresses \ {pool} : d.balances[a] = l.balances[a]
    BY <2>2, <2>3
  <2> QED BY <2>3, <2>4, <2>5 DEF d
<1> QED BY <1>2, <1>3

-----------------------------------------------------------------------------

(* A positive factor keeps the order.                                      *)
LEMMA FactorOrder ==
  ASSUME NEW a \in Int, NEW b \in Int, NEW c \in Nat \ {0}, c * a <= c * b
  PROVE  a <= b
<1> SUFFICES ASSUME a > b PROVE FALSE
  OBVIOUS
<1>1. c * (a - b) <= 0
  OBVIOUS
<1>2. PICK d \in Nat : a - b = d /\ d > 0
  OBVIOUS
<1>3. c * d > 0
  BY <1>2
<1> QED BY <1>1, <1>2, <1>3

(* No participant's reward is negative, and there is enough for all.       *)
LEMMA RewardsFit ==
  ASSUME NEW l \in Ledgers, NEW units \in Nat, NEW h \in Int
  PROVE  /\ ParticipantRewards(l, units, h) \in [Addresses -> Nat]
         /\ Total(ParticipantRewards(l, units, h)) <= units
<1> DEFINE active == ActiveParticipants(l, h)
           n      == Cardinality(active)
           share  == units \div n
           times(a) == Multiplier(l.participants[a], h)
           rewards == ParticipantRewards(l, units, h)
           shares == [a \in Addresses |-> IF a \in active THEN share ELSE 0]
<1>1. rewards = [a \in Addresses |-> IF a \in active THEN (share * times(a)) \div 10000 ELSE 0]
  BY DEF ParticipantRewards
<1>2. active \subseteq Addresses /\ IsFiniteSet(active) /\ n \in Nat
  <2>1. active \subseteq Wallets
    BY DEF ActiveParticipants
  <2> QED BY <2>1, Sets, FS_Subset, FS_CardinalityType
<1>3. \A a \in active : n # 0
  BY <1>2, FS_EmptySet
<1>4. \A a \in active : times(a) \in {2500, 6000, 10000}
  BY DEF Multiplier
<1>5. n # 0 => share \in Nat /\ share * n <= units
  <2> HIDE DEF active
  <2> SUFFICES ASSUME n # 0 PROVE share \in Nat /\ share * n <= units
    OBVIOUS
  <2>1. units \div n \in Nat /\ (units \div n) * n + (units % n) = units /\ units % n \in Nat
    <3> HIDE DEF n
    <3> QED BY <1>2, DivMod
  <2> HIDE DEF n
  <2> QED BY <1>2, <2>1
<1> HIDE DEF active, n, share, times, rewards
<1>6. ASSUME NEW a \in active
      PROVE  /\ (share * times(a)) \div 10000 \in Nat
             /\ (share * times(a)) \div 10000 <= share
  <2>1. share \in Nat
    BY <1>3, <1>5
  <2>2. CASE times(a) = 2500
    BY <2>1, <2>2
  <2>3. CASE times(a) = 6000
    BY <2>1, <2>3
  <2>4. CASE times(a) = 10000
    BY <2>1, <2>4
  <2> QED BY <1>4, <2>2, <2>3, <2>4
<1>7. rewards \in [Addresses -> Nat]
  BY <1>1, <1>6
<1>8. Total(rewards) <= units
  <2>1. CASE n = 0
    <3>1. rewards \in [Addresses -> Int] /\ \A a \in Addresses : rewards[a] = IF a \in {} THEN 0 ELSE 0
      BY <1>1, <1>3, <2>1
    <3>2. SumFunction(rewards) = 0 * Cardinality({})
      BY <3>1, Sets, SumOfShares
    <3>3. Cardinality({}) = 0
      BY FS_EmptySet
    <3> QED BY <3>2, <3>3, TotalIsSum
  <2>2. CASE n # 0
    <3>1. /\ shares \in [Addresses -> Int] /\ share \in Int
          /\ \A a \in Addresses : shares[a] = IF a \in active THEN share ELSE 0
      BY <1>5, <2>2
    <3>2. rewards \in [Addresses -> Int] /\ \A a \in Addresses : rewards[a] <= shares[a]
      BY <1>1, <1>6, <1>7
    <3> HIDE DEF shares
    <3>3. SumFunction(shares) = share * n
      BY <1>2, <3>1, Sets, SumOfShares DEF n
    <3>4. SumFunctionOnSet(rewards, Addresses) <= SumFunctionOnSet(shares, Addresses)
      BY <3>1, <3>2, Sets, SumOrder
    <3>5. /\ SumFunction(rewards) = SumFunctionOnSet(rewards, Addresses)
          /\ SumFunction(shares) = SumFunctionOnSet(shares, Addresses)
          /\ SumFunction(rewards) \in Int
      BY <3>1, <3>2, Sets, SumStep
    <3>6. SumFunction(rewards) <= share * n
      BY <3>3, <3>4, <3>5
    <3>7. share * n \in Int
      BY <1>2, <3>1
    <3> QED BY <1>5, <2>2, <3>5, <3>6, <3>7, TotalIsSum
  <2> QED BY <2>1, <2>2
<1> QED BY <1>7, <1>8 DEF rewards

(* No payout takes from an address, as the parts are rounded down.         *)
LEMMA PayoutFits ==
  ASSUME NEW units \in Nat, NEW D \in SUBSET Wallets, NEW weight \in [D -> Nat]
  PROVE  Payout(units, weight) \in [Addresses -> Nat]
<1> DEFINE total  == Total(weight)
           reward == [a \in Addresses |->
                       IF total > 0 /\ a \in DOMAIN weight
                         THEN (units * weight[a]) \div total ELSE 0]
           wide   == [a \in Addresses |-> IF a \in D THEN weight[a] ELSE 0]
           product == [a \in Addresses |-> units * wide[a]]
           back   == [a \in Addresses |-> total * reward[a]]
           rest   == Only(Treasury, units - Total(reward))
<1>0. Payout(units, weight) = Plus(reward, rest)
  BY DEF Payout
<1>1. D \in SUBSET Addresses /\ IsFiniteSet(D) /\ IsFiniteSet(Addresses)
  BY Sets, FS_Subset
<1>2. total \in Nat /\ total = SumFunction(weight)
  <2>1. SumFunction(weight) \in Nat
    BY <1>1, SumOfNaturals
  <2> QED BY <2>1, TotalIsSum
<1>3. /\ wide \in [Addresses -> Nat]
      /\ \A a \in D : wide[a] = weight[a]
      /\ \A a \in Addresses \ D : wide[a] = 0
  BY <1>1
<1>4. SumFunction(wide) = total
  <2> HIDE DEF wide
  <2>1. wide \in [Addresses -> Int] /\ weight \in [D -> Int]
    BY <1>3
  <2>2. SumFunction(wide) = SumFunctionOnSet(wide, D)
    BY <1>1, <1>3, <2>1, SumOfSupport
  <2>3. \A a \in D : weight[a] = wide[a]
    BY <1>3
  <2>4. SumFunctionOnSet(wide, D) = SumFunction(weight)
    BY <1>1, <2>1, <2>3, SumOfPart
  <2> QED BY <1>2, <2>2, <2>4
<1>5. \A a \in Addresses : reward[a] = IF total > 0 /\ a \in D THEN (units * weight[a]) \div total ELSE 0
  OBVIOUS
<1>6. DOMAIN reward = Addresses /\ reward = [a \in Addresses |-> reward[a]]
  OBVIOUS
<1> HIDE DEF total, reward, wide
<1>7. ASSUME NEW a \in Addresses
      PROVE  reward[a] \in Nat /\ total * reward[a] <= units * wide[a]
  <2>1. CASE total > 0 /\ a \in D
    <3>1. units * weight[a] \in Nat
      BY <2>1, ProductNat
    <3>2. PICK x \in Nat : x = units * weight[a]
      BY <3>1
    <3>3. /\ x \div total \in Nat /\ (x \div total) * total + (x % total) = x
          /\ x % total \in Nat
      <4>1. total \in Nat \ {0}
        BY <1>2, <2>1
      <4>2. /\ x \div total \in Nat /\ (x \div total) * total + (x % total) = x
            /\ x % total \in 0..total - 1
        BY <4>1, DivMod
      <4> QED BY <4>1, <4>2
    <3>4. reward[a] = x \div total /\ wide[a] = weight[a]
      BY <1>3, <1>5, <2>1, <3>2
    <3>5. PICK y \in Nat : y = x \div total
      BY <3>3
    <3>6. total * y = y * total
      BY <1>2
    <3>7. y * total <= x
      <4>1. y * total \in Nat
        BY <1>2, ProductNat
      <4> QED BY <3>3, <3>5, <4>1
    <3> QED BY <3>2, <3>4, <3>5, <3>6, <3>7
  <2>2. CASE ~(total > 0 /\ a \in D)
    <3>1. reward[a] = 0
      BY <1>5, <2>2
    <3>2. units * wide[a] \in Nat
      BY <1>3, ProductNat
    <3>3. total * 0 = 0
      BY <1>2
    <3> QED BY <3>1, <3>2, <3>3
  <2> QED BY <2>1, <2>2
<1>8. reward \in [Addresses -> Nat]
  BY <1>6, <1>7
<1>9. SumFunction(reward) <= units /\ SumFunction(reward) \in Nat
  <2>0. SumFunction(reward) \in Nat
    BY <1>1, <1>8, SumOfNaturals
  <2>1. CASE total = 0
    <3>1. reward \in [Addresses -> Int] /\ \A a \in Addresses : reward[a] = IF a \in {} THEN 0 ELSE 0
      BY <1>5, <1>8, <2>1
    <3>2. SumFunction(reward) = 0 * Cardinality({})
      BY <1>1, <3>1, SumOfShares
    <3>3. Cardinality({}) = 0
      BY FS_EmptySet
    <3> QED BY <2>0, <3>2, <3>3
  <2>2. CASE total # 0
    <3>1. /\ product \in [Addresses -> Int] /\ back \in [Addresses -> Int]
          /\ reward \in [Addresses -> Int] /\ wide \in [Addresses -> Int]
      BY <1>2, <1>3, <1>8
    <3>2. /\ \A a \in Addresses : product[a] = units * wide[a]
          /\ \A a \in Addresses : back[a] = total * reward[a]
          /\ \A a \in Addresses : back[a] <= product[a]
      BY <1>7
    <3> HIDE DEF product, back
    <3>3. SumFunction(product) = units * SumFunction(wide)
      BY <1>1, <3>1, <3>2, SumOfMultiples
    <3>4. SumFunction(back) = total * SumFunction(reward)
      BY <1>1, <1>2, <3>1, <3>2, SumOfMultiples
    <3>5. SumFunction(back) <= SumFunction(product)
      <4>1. SumFunctionOnSet(back, Addresses) <= SumFunctionOnSet(product, Addresses)
        BY <1>1, <3>1, <3>2, SumOrder
      <4> QED BY <1>1, <3>1, <4>1, SumStep
    <3>6. total * SumFunction(reward) <= units * total
      BY <1>4, <3>3, <3>4, <3>5
    <3>7. units * total = total * units
      BY <1>2
    <3>8. total * SumFunction(reward) <= total * units
      BY <3>6, <3>7
    <3>9. PICK s \in Nat : s = SumFunction(reward)
      BY <2>0
    <3>10. total * s <= total * units /\ total \in Nat \ {0} /\ s \in Int /\ units \in Int
      BY <1>2, <2>2, <3>8, <3>9
    <3>11. s <= units
      BY <3>10, FactorOrder
    <3> QED BY <2>0, <3>9, <3>11
  <2> QED BY <2>1, <2>2
<1>10. \A a \in Addresses : rest[a] \in Nat
  <2>1. units - Total(reward) \in Nat
    BY <1>9, TotalIsSum
  <2> QED BY <2>1 DEF Only
<1> HIDE DEF rest
<1>11. \A a \in Addresses : Plus(reward, rest)[a] = reward[a] + rest[a]
  BY DEF Plus
<1>12. Plus(reward, rest) = [a \in Addresses |-> Plus(reward, rest)[a]]
  BY DEF Plus
<1> QED BY <1>0, <1>8, <1>10, <1>11, <1>12

LEMMA NodePayoutFits ==
  ASSUME NEW units \in Nat
  PROVE  NodePayout(units) \in [Addresses -> Nat]
<1>1. [a \in Stakes |-> 1] \in [Stakes -> Nat]
  OBVIOUS
<1> QED BY <1>1, Sets, PayoutFits DEF NodePayout

LEMMA HolderPayoutFits ==
  ASSUME NEW l \in Ledgers, NEW units \in Nat, NEW h \in Nat
  PROVE  HolderPayout(l, units, h) \in [Addresses -> Nat]
<1> DEFINE averages == HolderAverages(l, h)
           D        == EligibleHolders(l, h)
           weight   == [a \in D |-> averages[a]]
<1>1. averages \in [Addresses -> Int]
  <2>1. l.balances \in [Addresses -> Int] /\ l.history \in [Addresses -> Seq(Entries)]
    BY DEF Ledgers
  <2>2. \A a \in Addresses :
          AverageBalance(l.history[a], l.balances[a], WindowStart(h), h) \in Int
    BY <2>1, WindowFacts, AverageType
  <2> QED BY <2>2 DEF HolderAverages
<1>2. D \subseteq Wallets /\ \A a \in D : averages[a] >= HolderMinimum
  BY DEF EligibleHolders
<1>3. HolderMinimum \in Nat
  BY IssuanceAssumption DEF IssuanceAssumption
<1>4. HolderPayout(l, units, h) = Payout(units, weight)
  BY DEF HolderPayout
<1> HIDE DEF averages, D
<1>5. weight \in [D -> Nat]
  BY <1>1, <1>2, <1>3, Sets
<1> HIDE DEF weight
<1> QED BY <1>2, <1>4, <1>5, PayoutFits

(* A pool that pays out changes the balance of its address and of those it *)
(* pays, no other.                                                         *)
LEMMA PaysThem ==
  ASSUME NEW l \in Ledgers, NEW pool \in Addresses, NEW units \in Nat, NEW h \in Int,
         NEW pay \in [Addresses -> Int]
  PROVE  LET r == Credit(DebitPool(l, pool, units, h), pay, h)
         IN /\ r \in Ledgers /\ r.participants = l.participants
            /\ \A a \in Addresses \ {pool} : r.balances[a] = l.balances[a] + pay[a]
            /\ Retells(r, l, h)
<1> DEFINE d == DebitPool(l, pool, units, h)
           r == Credit(d, pay, h)
<1>1. l.balances \in [Addresses -> Int]
  BY DEF Ledgers
<1>2. /\ d \in Ledgers /\ d.participants = l.participants
      /\ \A a \in Addresses \ {pool} : d.balances[a] = l.balances[a]
      /\ Retells(d, l, h)
  BY DebitRetells
<1> HIDE DEF d
<1>3. /\ r \in Ledgers /\ r.participants = d.participants
      /\ r.balances = Plus(d.balances, pay)
  BY <1>2, CreditTotal
<1>4. Retells(r, l, h)
  <2>1. Retells(r, d, h)
    BY <1>2, CreditRetells
  <2> QED BY <1>2, <2>1, RetellsChain
<1> HIDE DEF r
<1>5. \A a \in Addresses : r.balances[a] = d.balances[a] + pay[a]
  BY <1>3 DEF Plus
<1> QED BY <1>2, <1>3, <1>4, <1>5 DEF r, d

(* What the distribution of a block's mint adds, off the pools' addresses. *)
LEMMA DistributedAdds ==
  ASSUME NEW l \in Ledgers, NEW h \in Nat, NEW units \in Nat
  PROVE  LET split   == Split(units)
             rewards == ParticipantRewards(l, split.participants, h)
             rest    == Only(Treasury, split.treasury + split.participants - Total(rewards))
             r       == Distributed(l, split, h)
         IN /\ r \in Ledgers /\ r.participants = l.participants
            /\ Retells(r, l, h)
            /\ rewards \in [Addresses -> Nat] /\ rest \in [Addresses -> Nat]
            /\ \A a \in Addresses \ {NodePool, HolderPool} :
                 r.balances[a] = l.balances[a] + rewards[a] + rest[a]
<1> DEFINE split   == Split(units)
           rewards == ParticipantRewards(l, split.participants, h)
           paid    == Credit(l, rewards, h)
           left    == split.participants - Total(rewards)
           rest    == Only(Treasury, split.treasury + left)
           rest2   == Only(Treasury, split.treasury + split.participants - Total(rewards))
           toNode  == Held(NodePool, split.node)
           toHolder == Held(HolderPool, split.holder)
           pools   == Plus(toNode, toHolder)
           all     == Plus(rest, pools)
           r       == Credit(paid, all, h)
<1>0. Distributed(l, split, h) = r
  BY DEF Distributed
<1>1. /\ split.participants \in Nat /\ split.node \in Nat
      /\ split.holder \in Nat /\ split.treasury \in Nat
  BY SplitConserves
<1> HIDE DEF split
<1>2. /\ rewards \in [Addresses -> Nat] /\ Total(rewards) <= split.participants
      /\ Total(rewards) \in Int
  <2>1. rewards \in [Addresses -> Nat] /\ Total(rewards) <= split.participants
    <3>1. PICK n \in Nat : n = split.participants
      BY <1>1
    <3>2. /\ ParticipantRewards(l, n, h) \in [Addresses -> Nat]
          /\ Total(ParticipantRewards(l, n, h)) <= n
      BY RewardsFit
    <3> QED BY <3>1, <3>2
  <2> HIDE DEF rewards
  <2>2. Total(rewards) \in Int
    BY <2>1, PlusTotal
  <2> QED BY <2>1, <2>2
<1> HIDE DEF rewards
<1>3. /\ paid \in Ledgers /\ paid.participants = l.participants
      /\ paid.balances = Plus(l.balances, rewards)
      /\ Retells(paid, l, h)
  <2>1. rewards \in [Addresses -> Int]
    BY <1>2
  <2>2. Retells(paid, l, h)
    BY <2>1, CreditRetells
  <2> QED BY <2>1, <2>2, CreditTotal
<1> HIDE DEF paid
<1>4. l.balances \in [Addresses -> Int]
  BY DEF Ledgers
<1>5. rest \in [Addresses -> Nat] /\ rest2 = rest
  <2>1. split.treasury + left \in Nat
        /\ split.treasury + left = split.treasury + split.participants - Total(rewards)
    BY <1>1, <1>2
  <2> HIDE DEF left
  <2> QED BY <2>1 DEF Only
<1> HIDE DEF rest, rest2
<1>6. /\ toNode \in [Addresses -> Int] /\ toHolder \in [Addresses -> Int]
      /\ \A a \in Addresses \ {NodePool, HolderPool} : toNode[a] = 0 /\ toHolder[a] = 0
  BY <1>1, Sets, HeldTotal
<1> HIDE DEF toNode, toHolder
<1>7. /\ pools \in [Addresses -> Int]
      /\ \A a \in Addresses \ {NodePool, HolderPool} : pools[a] = 0
  <2>1. \A a \in Addresses : pools[a] = toNode[a] + toHolder[a]
    BY DEF Plus
  <2> QED BY <1>6, <2>1, PlusTotal
<1> HIDE DEF pools
<1>8. all \in [Addresses -> Int] /\ \A a \in Addresses : all[a] = rest[a] + pools[a]
  <2>1. \A a \in Addresses : all[a] = rest[a] + pools[a]
    BY DEF Plus
  <2> QED BY <1>5, <1>7, <2>1, PlusTotal
<1> HIDE DEF all
<1>9. /\ r \in Ledgers /\ r.participants = paid.participants
      /\ r.balances = Plus(paid.balances, all)
  BY <1>3, <1>8, CreditTotal
<1>11. Retells(r, l, h)
  <2>1. Retells(r, paid, h)
    BY <1>3, <1>8, CreditRetells
  <2> HIDE DEF r
  <2> QED BY <1>3, <2>1, RetellsChain
<1> HIDE DEF r
<1>10. ASSUME NEW a \in Addresses \ {NodePool, HolderPool}
       PROVE  r.balances[a] = l.balances[a] + rewards[a] + rest[a]
  <2>1. r.balances[a] = (l.balances[a] + rewards[a]) + all[a]
    BY <1>3, <1>9 DEF Plus
  <2>2. all[a] = rest[a] /\ rest[a] \in Nat
    BY <1>5, <1>7, <1>8
  <2> QED BY <2>1, <2>2
<1> QED BY <1>0, <1>2, <1>3, <1>5, <1>9, <1>10, <1>11 DEF split, rewards, rest2

(* What a ledger and the pools are made of, at any time.                   *)
LedgerInv ==
  /\ EmissionInv
  /\ meta.nodePool \in Nat /\ meta.holderPool \in Nat
  /\ ledger \in Ledgers

(* What a block leaves of the ledger with its transactions applied: all of *)
(* a kind, and off the pools' addresses the sum of what is due.            *)
LEMMA SealAdds ==
  ASSUME NEW l \in Ledgers, EmissionInv, meta.nodePool \in Nat, meta.holderPool \in Nat, Seal(l)
  PROVE  LET h       == height + 1
             split   == Split(Minted(meta, h).units)
             rewards == ParticipantRewards(l, split.participants, h)
             rest    == Only(Treasury, split.treasury + split.participants - Total(rewards))
             node    == meta.nodePool + split.node
             holder  == meta.holderPool + split.holder
             paid    == PayNodes(Distributed(l, split, h), node, h)
         IN /\ LedgerInv' /\ Retells(ledger', l, h)
            /\ rewards \in [Addresses -> Nat] /\ rest \in [Addresses -> Nat]
            /\ split.participants \in Nat /\ split.node \in Nat /\ split.holder \in Nat
            /\ node \in Nat /\ holder \in Nat
            /\ paid \in Ledgers
            /\ \A a \in Addresses \ {NodePool, HolderPool} :
                 ledger'.balances[a] = l.balances[a] + rewards[a] + rest[a]
                   + (IF Due(h) THEN NodePayout(node)[a] + HolderPayout(paid, holder, h)[a]
                      ELSE 0)
<1> DEFINE h       == height + 1
           units   == Minted(meta, h).units
           split   == Split(units)
           rewards == ParticipantRewards(l, split.participants, h)
           rest    == Only(Treasury, split.treasury + split.participants - Total(rewards))
           node    == meta.nodePool + split.node
           holder  == meta.holderPool + split.holder
           after   == Distributed(l, split, h)
           paid    == PayNodes(after, node, h)
           last    == PayHolders(paid, holder, h)
           due     == Due(h)
<1>1. /\ EmissionInv'
      /\ ledger' = IF due THEN last ELSE after
      /\ meta'.nodePool = IF due THEN 0 ELSE node
      /\ meta'.holderPool = IF due THEN 0 ELSE holder
  <2>1. EmissionInv'
    BY EmissionSeal
  <2>2. ledger' = IF due THEN last ELSE after
    BY DEF Seal, MintAndDistribute, PayoutPools
  <2>3. /\ meta'.nodePool = IF due THEN 0 ELSE node
        /\ meta'.holderPool = IF due THEN 0 ELSE holder
    BY DEF Seal, MintAndDistribute
  <2> QED BY <2>1, <2>2, <2>3
<1>2. h \in Nat /\ units \in Nat
  BY MintedType
<1> HIDE DEF h, units
<1>3. /\ split.participants \in Nat /\ split.node \in Nat /\ split.holder \in Nat
      /\ split.treasury \in Nat
  BY <1>2, SplitConserves
<1>4. /\ after \in Ledgers /\ Retells(after, l, h)
      /\ rewards \in [Addresses -> Nat] /\ rest \in [Addresses -> Nat]
      /\ \A a \in Addresses \ {NodePool, HolderPool} :
           after.balances[a] = l.balances[a] + rewards[a] + rest[a]
  BY <1>2, DistributedAdds
<1>5. node \in Nat /\ holder \in Nat
  <2> HIDE DEF split
  <2> QED BY <1>3
<1> HIDE DEF due, after, node, holder, rest, rewards, split
<1>7. /\ paid \in Ledgers /\ Retells(paid, after, h)
      /\ \A a \in Addresses \ {NodePool} :
           paid.balances[a] = after.balances[a] + NodePayout(node)[a]
      /\ NodePayout(node) \in [Addresses -> Nat]
  <2>1. NodePayout(node) \in [Addresses -> Nat]
    BY <1>5, NodePayoutFits
  <2>2. PICK pay \in [Addresses -> Int] : pay = NodePayout(node)
    BY <2>1
  <2>3. paid = Credit(DebitPool(after, NodePool, node, h), pay, h)
    BY <2>2 DEF PayNodes
  <2> HIDE DEF paid
  <2> QED BY <1>2, <1>4, <1>5, <2>1, <2>2, <2>3, Sets, PaysThem
<1> HIDE DEF paid
<1>8. /\ last \in Ledgers /\ Retells(last, paid, h)
      /\ \A a \in Addresses \ {HolderPool} :
           last.balances[a] = paid.balances[a] + HolderPayout(paid, holder, h)[a]
      /\ HolderPayout(paid, holder, h) \in [Addresses -> Nat]
  <2>1. HolderPayout(paid, holder, h) \in [Addresses -> Nat]
    BY <1>2, <1>5, <1>7, HolderPayoutFits
  <2>2. PICK pay \in [Addresses -> Int] : pay = HolderPayout(paid, holder, h)
    BY <2>1
  <2>3. last = Credit(DebitPool(paid, HolderPool, holder, h), pay, h)
    BY <2>2 DEF PayHolders
  <2> HIDE DEF last
  <2> QED BY <1>2, <1>5, <1>7, <2>1, <2>2, <2>3, Sets, PaysThem
<1> HIDE DEF last
<1>9. LedgerInv'
  BY <1>1, <1>4, <1>5, <1>8 DEF LedgerInv
<1>10. Retells(ledger', l, h)
  <2>1. Retells(paid, l, h)
    BY <1>4, <1>7, RetellsChain
  <2>2. Retells(last, l, h)
    BY <1>8, <2>1, RetellsChain
  <2> QED BY <1>1, <1>4, <2>2
<1>11. ASSUME NEW a \in Addresses \ {NodePool, HolderPool}
       PROVE  ledger'.balances[a] = l.balances[a] + rewards[a] + rest[a]
                + (IF due THEN NodePayout(node)[a] + HolderPayout(paid, holder, h)[a] ELSE 0)
  <2>1. after.balances[a] = l.balances[a] + rewards[a] + rest[a]
    BY <1>4
  <2>2. l.balances[a] \in Int /\ rewards[a] \in Nat /\ rest[a] \in Nat
    BY <1>4 DEF Ledgers
  <2>3. NodePayout(node)[a] \in Nat /\ HolderPayout(paid, holder, h)[a] \in Nat
    BY <1>7, <1>8
  <2>4. CASE due
    <3>1. ledger'.balances[a] = (after.balances[a] + NodePayout(node)[a])
                                  + HolderPayout(paid, holder, h)[a]
      BY <1>1, <1>7, <1>8, <2>4
    <3> QED BY <2>1, <2>2, <2>3, <2>4, <3>1
  <2>5. CASE ~due
    BY <1>1, <2>1, <2>2, <2>5
  <2> QED BY <2>4, <2>5
<1> QED BY <1>3, <1>4, <1>5, <1>7, <1>9, <1>10, <1>11
        DEF h, units, split, rewards, rest, node, holder, after, paid, due

(* The transactions that are about a.                                      *)
For(txs, a) == {t \in txs : t.to = a}

Transactions(txs) == IsFiniteSet(txs) /\ \A t \in txs : t.units \in Int

LEMMA NoUnits == Transactions({}) /\ Units({}) = 0
<1> DEFINE f == [t \in {} |-> t.units]
<1>1. f \in [{} -> Int] /\ IsFiniteSet({})
  BY FS_EmptySet
<1> HIDE DEF f
<1>2. SumFunction(f) = 0
  BY <1>1, SumStep
<1> QED BY <1>1, <1>2, TotalIsSum DEF Units, Transactions, f

LEMMA OneMore ==
  ASSUME NEW txs, Transactions(txs), NEW t, t \notin txs, t.units \in Int
  PROVE  /\ Transactions(txs \cup {t})
         /\ Units(txs \cup {t}) = Units(txs) + t.units
<1> DEFINE all == txs \cup {t}
           f   == [u \in all |-> u.units]
           g   == [u \in txs |-> u.units]
<1>1. IsFiniteSet(all) /\ \A u \in all : u.units \in Int
  BY FS_AddElement DEF Transactions
<1>2. /\ f \in [all -> Int] /\ g \in [txs -> Int] /\ f[t] = t.units
      /\ txs \in SUBSET all /\ t \in all /\ all \ {t} = txs /\ all \in SUBSET all
      /\ \A u \in txs : g[u] = f[u]
  BY <1>1 DEF Transactions
<1> HIDE DEF f, g, all
<1>3. /\ SumFunction(f) = SumFunctionOnSet(f, all)
      /\ SumFunctionOnSet(f, all) = f[t] + SumFunctionOnSet(f, all \ {t})
  BY <1>1, <1>2, SumStep
<1>4. SumFunctionOnSet(f, txs) = SumFunction(g)
  BY <1>1, <1>2, SumOfPart
<1>5. SumFunction(g) \in Int
  BY <1>2, SumStep DEF Transactions
<1>6. SumFunction(f) = SumFunction(g) + t.units
  <2>1. SumFunctionOnSet(f, all \ {t}) = SumFunction(g)
    BY <1>2, <1>4, Zenon
  <2>2. SumFunction(f) = t.units + SumFunction(g)
    BY <1>2, <1>3, <2>1, Zenon
  <2> QED BY <1>5, <2>2
<1>7. Units(all) = SumFunction(f) /\ Units(txs) = SumFunction(g)
  BY TotalIsSum DEF Units, f, g
<1> QED BY <1>1, <1>6, <1>7 DEF Transactions, all

(* A list of payments of a new kind adds what it pays.                     *)
LEMMA ListedAdds ==
  ASSUME NEW txs, Transactions(txs), NEW type, \A t \in txs : t.type # type,
         NEW pay \in [Addresses -> Nat], NEW a \in Addresses
  PROVE  /\ Transactions(txs \cup For(Listed(type, pay), a))
         /\ Units(txs \cup For(Listed(type, pay), a)) = Units(txs) + pay[a]
         /\ \A t \in For(Listed(type, pay), a) : t.type = type
<1> DEFINE t   == [type |-> type, to |-> a, units |-> pay[a]]
           new == For(Listed(type, pay), a)
<1>1. new = IF pay[a] > 0 THEN {t} ELSE {}
  BY DEF For, Listed
<1>2. Units(txs) \in Int
  <2> DEFINE f == [u \in txs |-> u.units]
  <2>1. f \in [txs -> Int] /\ IsFiniteSet(txs)
    BY DEF Transactions
  <2> HIDE DEF f
  <2>2. SumFunction(f) \in Int
    BY <2>1, SumStep
  <2> QED BY <2>2, TotalIsSum DEF Units, f
<1>3. t.type = type /\ t.units = pay[a] /\ pay[a] \in Nat
  OBVIOUS
<1>4. t \notin txs
  BY <1>3
<1> HIDE DEF t, new
<1>5. CASE pay[a] > 0
  <2>1. Transactions(txs \cup {t}) /\ Units(txs \cup {t}) = Units(txs) + t.units
    BY <1>3, <1>4, OneMore
  <2> QED BY <1>1, <1>3, <1>5, <2>1 DEF new
<1>6. CASE ~(pay[a] > 0)
  <2>1. pay[a] = 0 /\ txs \cup new = txs /\ new = {}
    BY <1>1, <1>3, <1>6
  <2> QED BY <1>2, <2>1 DEF new
<1> QED BY <1>5, <1>6

LEMMA NothingElsewhere ==
  ASSUME NEW type, NEW b, NEW units, NEW a \in Addresses \ {b}
  PROVE  For(Listed(type, Only(b, units)), a) = {}
<1>1. Only(b, units)[a] = 0
  BY DEF Only
<1>2. ~(Only(b, units)[a] > 0)
  BY <1>1
<1>3. \A t \in Listed(type, Only(b, units)) : Only(b, units)[t.to] > 0
  BY DEF Listed
<1> QED BY <1>2, <1>3 DEF For

(* A block without transactions credits what it lists.                     *)
LEMMA EmptyCredits ==
  ASSUME LedgerInv
  PROVE  CreditsWhatItLists
<1> SUFFICES ASSUME EmptyBlock, NEW a \in Addresses \ {NodePool, HolderPool}
             PROVE  ledger'.balances[a] - ledger.balances[a]
                      = Units(For(MintTxs(ledger, height + 1), a))
  BY DEF CreditsWhatItLists, For
<1> DEFINE h       == height + 1
           split   == Split(Minted(meta, h).units)
           rewards == ParticipantRewards(ledger, split.participants, h)
           rest    == Only(Treasury, split.treasury + split.participants - Total(rewards))
           node    == meta.nodePool + split.node
           holder  == meta.holderPool + split.holder
           paid    == PayNodes(Distributed(ledger, split, h), node, h)
           due     == Due(h)
           nodes   == NodePayout(node)
           holders == HolderPayout(paid, holder, h)
           accrual == Listed("node_pool_accrual", Only(NodePool, split.node))
           hold    == Listed("holder_pool_accrual", Only(HolderPool, split.holder))
           first   == Listed("participant_reward", rewards)
           second  == Listed("treasury_reward", rest)
           third   == Listed("node_payout", nodes)
           fourth  == Listed("holder_payout", holders)
<1>1. /\ rewards \in [Addresses -> Nat] /\ rest \in [Addresses -> Nat]
      /\ node \in Nat /\ holder \in Nat /\ paid \in Ledgers
      /\ ledger'.balances[a] = ledger.balances[a] + rewards[a] + rest[a]
           + (IF due THEN nodes[a] + holders[a] ELSE 0)
  BY SealAdds DEF LedgerInv, EmptyBlock
<1>2. MintTxs(ledger, h)
        = UNION {accrual, hold, first, second, IF due THEN third ELSE {}, IF due THEN fourth ELSE {}}
  BY DEF MintTxs
<1>3. For(accrual, a) = {} /\ For(hold, a) = {}
  BY NothingElsewhere
<1>4. h \in Nat
  BY DEF LedgerInv, EmissionInv
<1> HIDE DEF h, split, rewards, rest, node, holder, paid, due, accrual, hold
<1>5. nodes \in [Addresses -> Nat] /\ holders \in [Addresses -> Nat]
  BY <1>1, <1>4, NodePayoutFits, HolderPayoutFits
<1> HIDE DEF nodes, holders
<1> DEFINE T1 == {} \cup For(first, a)
           T2 == T1 \cup For(second, a)
           T3 == T2 \cup For(third, a)
           T4 == T3 \cup For(fourth, a)
<1>6. Transactions({}) /\ Units({}) = 0
  BY NoUnits
<1>7. /\ Transactions(T1) /\ Units(T1) = 0 + rewards[a]
      /\ \A t \in For(first, a) : t.type = "participant_reward"
  BY <1>1, <1>6, ListedAdds
<1>8. /\ Transactions(T2) /\ Units(T2) = Units(T1) + rest[a]
      /\ \A t \in T2 : t.type \in {"participant_reward", "treasury_reward"}
  <2>1. \A t \in T1 : t.type = "participant_reward"
    BY <1>7
  <2>2. \A t \in T1 : t.type # "treasury_reward"
    BY <2>1
  <2> HIDE DEF T1
  <2>3. /\ Transactions(T1 \cup For(second, a)) /\ Units(T1 \cup For(second, a)) = Units(T1) + rest[a]
        /\ \A t \in For(second, a) : t.type = "treasury_reward"
    <3>1. rest \in [Addresses -> Nat] /\ a \in Addresses /\ Transactions(T1)
      BY <1>1, <1>7
    <3> QED BY <2>2, <3>1, ListedAdds
  <2> HIDE DEF second
  <2> QED BY <2>1, <2>3
<1>9. /\ Transactions(T3) /\ Units(T3) = Units(T2) + nodes[a]
      /\ \A t \in T3 : t.type \in {"participant_reward", "treasury_reward", "node_payout"}
  <2> HIDE DEF T2
  <2> QED BY <1>5, <1>8, ListedAdds
<1>10. Transactions(T4) /\ Units(T4) = Units(T3) + holders[a]
  <2>1. \A t \in T3 : t.type # "holder_payout"
    BY <1>9
  <2> HIDE DEF T3
  <2> QED BY <1>5, <1>9, <2>1, ListedAdds
<1>11. For(MintTxs(ledger, h), a) = IF due THEN T4 ELSE T2
  <2> HIDE DEF first, second, third, fourth
  <2> QED BY <1>2, <1>3 DEF For
<1>12. /\ ledger.balances[a] \in Int /\ rewards[a] \in Nat /\ rest[a] \in Nat
       /\ nodes[a] \in Nat /\ holders[a] \in Nat
  BY <1>1, <1>5 DEF LedgerInv, Ledgers
<1> HIDE DEF T1, T2, T3, T4
<1>13. ledger'.balances[a] - ledger.balances[a] = Units(For(MintTxs(ledger, h), a))
  BY <1>1, <1>7, <1>8, <1>9, <1>10, <1>11, <1>12
<1> QED BY <1>13 DEF h

(* What a transaction takes from its signer is recorded.                   *)
LEMMA SignedRetells ==
  ASSUME ledger \in Ledgers, NEW a \in Signers, NEW units \in Nat, NEW h \in Nat
  PROVE  Retells(Signed(a, units, h), ledger, h)
<1> DEFINE new == [ledger.balances EXCEPT ![a] = ledger.balances[a] - units]
           d   == SetBalances(ledger, new, {a}, h)
           p   == [d.participants EXCEPT ![a].lastSeen = h]
<1>1. new \in [Addresses -> Int]
  BY Sets DEF Ledgers
<1>2. Signed(a, units, h) \in {d, [d EXCEPT !.participants[a].lastSeen = h]}
  BY DEF Signed
<1> HIDE DEF new
<1>3. d \in Ledgers /\ Retells(d, ledger, h)
  <2>1. d \in Ledgers
    <3>1. h \in Int
      OBVIOUS
    <3> HIDE DEF d
    <3>2. SetBalances(ledger, new, {a}, h) \in Ledgers
      BY <1>1, <3>1, SetBalancesType
    <3> QED BY <3>2 DEF d
  <2>2. Retells(d, ledger, h)
    BY <1>1, SetBalancesRetells
  <2> QED BY <2>1, <2>2
<1> HIDE DEF d
<1>4. [d EXCEPT !.participants[a].lastSeen = h] = [d EXCEPT !.participants = p]
  BY <1>3 DEF Ledgers
<1> HIDE DEF p
<1>5. Retells([d EXCEPT !.participants = p], ledger, h)
  BY <1>3, ParticipantsRetell, RetellsChain
<1> QED BY <1>2, <1>3, <1>4, <1>5

LEMMA LedgerStart == Init => LedgerInv
BY MintInit DEF MintInv, Conserved, LedgerInv

LEMMA LedgerTransfer ==
  ASSUME LedgerInv, NEW a \in Signers, NEW b \in Addresses, NEW units \in Amounts,
         Transfer(a, b, units)
  PROVE  LedgerInv' /\ Retells(ledger', ledger, height + 1)
<1> DEFINE h == height + 1
           d == Signed(a, units, h)
           r == Credit(d, Only(b, units), h)
<1>1. units \in Nat /\ h \in Nat
  BY Sets DEF LedgerInv, EmissionInv
<1>2. Seal(r)
  BY DEF Transfer
<1>3. Only(b, units) \in [Addresses -> Int]
  BY <1>1, OnlyTotal
<1> HIDE DEF h
<1>4. d \in Ledgers /\ Retells(d, ledger, h)
  BY <1>1, SignedType, SignedRetells DEF LedgerInv
<1> HIDE DEF d
<1>5. r \in Ledgers /\ Retells(r, d, h)
  BY <1>1, <1>3, <1>4, CreditTotal, CreditRetells
<1> HIDE DEF r
<1>6. LedgerInv' /\ Retells(ledger', r, h)
  BY <1>2, <1>5, SealAdds DEF LedgerInv, h
<1> QED BY <1>4, <1>5, <1>6, RetellsChain DEF h

LEMMA LedgerRegister ==
  ASSUME LedgerInv, NEW a \in Signers, NEW b \in Wallets, Register(a, b)
  PROVE  LedgerInv' /\ Retells(ledger', ledger, height + 1)
<1> DEFINE h   == height + 1
           d   == Signed(a, BondMicro, h)
           rec == [sponsor |-> a, bond |-> BondMicro, registered |-> h, lastSeen |-> h]
           p   == [d.participants EXCEPT ![b] = rec]
           r   == [d EXCEPT !.participants = p]
<1>1. BondMicro \in Nat /\ h \in Nat
  BY Sets DEF LedgerInv, EmissionInv
<1>2. Seal([d EXCEPT !.participants[b] = rec])
  BY DEF Register
<1>3. rec \in Records
  BY <1>1, Sets DEF Records
<1>4. d \in Ledgers /\ Retells(d, ledger, h)
  <2> HIDE DEF h
  <2> QED BY <1>1, SignedType, SignedRetells DEF LedgerInv
<1> HIDE DEF d, h, rec
<1>5. Seal(r)
  <2>1. [d EXCEPT !.participants[b] = rec] = [d EXCEPT !.participants = [d.participants EXCEPT ![b] = rec]]
    BY <1>4 DEF Ledgers
  <2> QED BY <1>2, <2>1
<1>6. p \in [Wallets -> Records \cup {Null}]
  BY <1>3, <1>4 DEF Ledgers
<1> HIDE DEF p
<1>7. r \in Ledgers /\ Retells(r, d, h)
  BY <1>4, <1>6, ParticipantsExcept, ParticipantsRetell
<1> HIDE DEF r
<1>8. LedgerInv' /\ Retells(ledger', r, h)
  BY <1>5, <1>7, SealAdds DEF LedgerInv, h
<1> QED BY <1>4, <1>7, <1>8, RetellsChain DEF h

LEMMA LedgerUnregister ==
  ASSUME LedgerInv, NEW a \in Signers \cap Wallets, Unregister(a)
  PROVE  LedgerInv' /\ Retells(ledger', ledger, height + 1)
<1> DEFINE h    == height + 1
           rec  == ledger.participants[a]
           d    == Signed(a, 0, h)
           p    == [d.participants EXCEPT ![a] = Null]
           gone == [d EXCEPT !.participants = p]
           pay  == Only(rec.sponsor, rec.bond)
           r    == Credit(gone, pay, h)
<1>1. h \in Nat
  BY DEF LedgerInv, EmissionInv
<1>2. rec # Null /\ Seal(Credit([d EXCEPT !.participants[a] = Null], pay, h))
  BY DEF Unregister
<1>3. pay \in [Addresses -> Int]
  <2>1. rec \in Records
    BY <1>2 DEF LedgerInv, Ledgers
  <2>2. rec.sponsor \in Addresses /\ rec.bond \in Int
    BY <2>1 DEF Records
  <2> HIDE DEF rec
  <2> QED BY <2>2, OnlyTotal
<1>4. d \in Ledgers /\ Retells(d, ledger, h)
  <2>1. a \in Signers /\ 0 \in Nat
    OBVIOUS
  <2> HIDE DEF h
  <2> QED BY <1>1, <2>1, SignedType, SignedRetells DEF LedgerInv
<1> HIDE DEF d, h, pay, rec
<1>5. Seal(r)
  <2>1. [d EXCEPT !.participants[a] = Null] = [d EXCEPT !.participants = [d.participants EXCEPT ![a] = Null]]
    BY <1>4 DEF Ledgers
  <2> QED BY <1>2, <2>1
<1>6. p \in [Wallets -> Records \cup {Null}]
  BY <1>4 DEF Ledgers
<1> HIDE DEF p
<1>7. gone \in Ledgers /\ Retells(gone, d, h)
  BY <1>4, <1>6, ParticipantsExcept, ParticipantsRetell
<1> HIDE DEF gone
<1>8. r \in Ledgers /\ Retells(r, gone, h)
  BY <1>1, <1>3, <1>7, CreditTotal, CreditRetells
<1> HIDE DEF r
<1>9. LedgerInv' /\ Retells(ledger', r, h)
  BY <1>5, <1>8, SealAdds DEF LedgerInv, h
<1>10. Retells(r, ledger, h)
  BY <1>4, <1>7, <1>8, RetellsChain
<1> QED BY <1>9, <1>10, RetellsChain DEF h

LEMMA LedgerHeartbeat ==
  ASSUME LedgerInv, NEW a \in Signers \cap Wallets, Heartbeat(a)
  PROVE  LedgerInv' /\ Retells(ledger', ledger, height + 1)
<1> DEFINE h == height + 1
           r == Signed(a, 0, h)
<1>1. h \in Nat /\ a \in Signers /\ 0 \in Nat
  BY DEF LedgerInv, EmissionInv
<1>2. Seal(r)
  BY DEF Heartbeat
<1> HIDE DEF h
<1>3. r \in Ledgers /\ Retells(r, ledger, h)
  BY <1>1, SignedType, SignedRetells DEF LedgerInv
<1> HIDE DEF r
<1>4. LedgerInv' /\ Retells(ledger', r, h)
  BY <1>2, <1>3, SealAdds DEF LedgerInv, h
<1> QED BY <1>3, <1>4, RetellsChain DEF h

LEMMA LedgerNext ==
  ASSUME LedgerInv, Next
  PROVE  LedgerInv' /\ Retells(ledger', ledger, height + 1)
<1>1. CASE EmptyBlock
  BY <1>1, SealAdds DEF EmptyBlock, LedgerInv
<1>2. ASSUME NEW a \in Signers, NEW b \in Addresses, NEW units \in Amounts, Transfer(a, b, units)
      PROVE  LedgerInv' /\ Retells(ledger', ledger, height + 1)
  BY <1>2, LedgerTransfer
<1>3. ASSUME NEW a \in Signers, NEW b \in Wallets, Register(a, b)
      PROVE  LedgerInv' /\ Retells(ledger', ledger, height + 1)
  BY <1>3, LedgerRegister
<1>4. ASSUME NEW a \in Signers \cap Wallets, Unregister(a)
      PROVE  LedgerInv' /\ Retells(ledger', ledger, height + 1)
  BY <1>4, LedgerUnregister
<1>5. ASSUME NEW a \in Signers \cap Wallets, Heartbeat(a)
      PROVE  LedgerInv' /\ Retells(ledger', ledger, height + 1)
  BY <1>5, LedgerHeartbeat
<1> QED BY <1>1, <1>2, <1>3, <1>4, <1>5 DEF Next

LEMMA LedgerStep == LedgerInv /\ [Next]_vars => LedgerInv'
<1>1. ASSUME LedgerInv, UNCHANGED vars PROVE LedgerInv'
  BY <1>1, EmissionStep DEF LedgerInv, vars
<1> QED BY <1>1, LedgerNext

(* What a block lists for a wallet is what it is credited with, for any    *)
(* maturities, stakes, histories and pools, whoever sends from which       *)
(* address (buildMintTxs and mintAndDistribute compute it apart).          *)
THEOREM BlocksListWhatTheyPay == Spec => ListedIsCredited
<1>1. LedgerInv /\ [Next]_vars => [CreditsWhatItLists]_vars
  BY EmptyCredits
<1> QED BY <1>1, LedgerStart, LedgerStep, PTL DEF Spec, ListedIsCredited

(* What was can be continued: the balance after the block at height h + 1. *)
LEMMA ContinuedTells ==
  ASSUME NEW h \in Nat, NEW was, DOMAIN was = 1..h, NEW more, DOMAIN more = 1..h + 1,
         \A k \in 1..h : more[k] = was[k],
         NEW entries, NEW balance, Tells(entries, balance, was, h + 1),
         more[h + 1] = balance
  PROVE  Tells(entries, balance, more, h + 1)
<1> DEFINE n == Len(entries)
<1>1. entries \in Seq(Entries) /\ n \in Nat /\ (entries # <<>> <=> n # 0)
  BY DEF Tells
<1>2. /\ \A i \in 1..n : entries[i].height \in 1..h + 1
      /\ \A i, j \in 1..n : i < j => entries[i].height < entries[j].height
      /\ n # 0 => entries[n].balance = balance
  BY <1>1 DEF Tells, Ascending
<1>3. \A k \in 1..h + 1 : k \in 1..h \/ k = h + 1
  OBVIOUS
<1>4. ASSUME NEW i \in 1..n, NEW k \in 1..h + 1, Covers(entries, i, k)
      PROVE  more[k] = entries[i].balance
  <2>1. CASE k \in 1..h
    <3>1. was[k] = entries[i].balance
      BY <1>4, <2>1 DEF Tells
    <3> QED BY <2>1, <3>1
  <2>2. CASE k = h + 1
    <3>1. i = n
      <4> SUFFICES ASSUME i # n PROVE FALSE
        OBVIOUS
      <4>1. i + 1 \in 1..n
        <5> HIDE DEF n
        <5> QED BY <1>1
      <4>2. k < entries[i + 1].height
        BY <1>4 DEF Covers
      <4> QED BY <1>2, <2>2, <4>1, <4>2
    <3>2. n # 0
      <4> HIDE DEF n
      <4> QED BY <1>1
    <3> QED BY <1>2, <2>2, <3>1, <3>2
  <2> QED BY <1>3, <2>1, <2>2
<1>5. entries = <<>> => balance = 0 /\ \A k \in 1..h + 1 : more[k] = 0
  BY <1>3 DEF Tells
<1>6. entries # <<>> =>
        \/ entries[1].height < WindowStart(h + 1)
        \/ \A k \in 1..h + 1 : k < entries[1].height => more[k] = 0
  <2> SUFFICES ASSUME entries # <<>>, ~(entries[1].height < WindowStart(h + 1)),
                      NEW k \in 1..h + 1, k < entries[1].height
               PROVE  more[k] = 0
    OBVIOUS
  <2>1. 1 \in 1..n
    <3> HIDE DEF n
    <3> QED BY <1>1
  <2>2. k \in 1..h
    BY <1>2, <2>1
  <2>3. was[k] = 0
    BY <2>2 DEF Tells
  <2> QED BY <2>2, <2>3
<1> QED BY <1>4, <1>5, <1>6 DEF Tells

(* The history of balances is one of the blocks so far, and every          *)
(* address's own history tells it.                                         *)
AverageInv ==
  /\ LedgerInv
  /\ past \in Seq([Addresses -> Int]) /\ Len(past) = height
  /\ Recounts(ledger, past, height)

LEMMA AverageStart == Init => AverageInv
<1> SUFFICES ASSUME Init PROVE AverageInv
  OBVIOUS
<1>1. LedgerInv /\ height = 0 /\ past = <<>>
  BY LedgerStart DEF Init
<1>2. past \in Seq([Addresses -> Int]) /\ Len(past) = height /\ DOMAIN past = {}
  BY <1>1
<1>3. ASSUME NEW a \in Addresses
      PROVE  Tells(ledger.history[a], ledger.balances[a], [k \in DOMAIN past |-> past[k][a]], height)
  <2>1. ledger.history[a] = <<>> /\ ledger.balances[a] = 0
    BY DEF Init
  <2>2. Tells(<<>>, 0, [k \in DOMAIN past |-> past[k][a]], height)
    <3>1. <<>> \in Seq(Entries) /\ Len(<<>>) = 0
      OBVIOUS
    <3> QED BY <1>2, <3>1 DEF Tells, Ascending
  <2> QED BY <2>1, <2>2
<1> QED BY <1>1, <1>2, <1>3 DEF AverageInv, Recounts

LEMMA AverageNext == AverageInv /\ Next => AverageInv'
<1> SUFFICES ASSUME AverageInv, Next PROVE AverageInv'
  OBVIOUS
<1>1. /\ LedgerInv /\ height \in Nat /\ Recounts(ledger, past, height)
      /\ past \in Seq([Addresses -> Int]) /\ Len(past) = height /\ DOMAIN past = 1..height
  <2>1. LedgerInv /\ past \in Seq([Addresses -> Int]) /\ Len(past) = height
        /\ Recounts(ledger, past, height)
    BY DEF AverageInv
  <2> QED BY <2>1 DEF LedgerInv, EmissionInv
<1>2. LedgerInv' /\ Retells(ledger', ledger, height + 1)
  BY <1>1, LedgerNext
<1>3. height' = height + 1 /\ past' = Append(past, ledger'.balances)
  BY DEF Next, EmptyBlock, Transfer, Register, Unregister, Heartbeat, Seal
<1>4. ledger'.balances \in [Addresses -> Int]
  BY <1>2 DEF LedgerInv, Ledgers
<1>5. /\ past' \in Seq([Addresses -> Int]) /\ Len(past') = height'
      /\ DOMAIN past' = 1..height + 1
      /\ past'[height + 1] = ledger'.balances /\ \A k \in 1..height : past'[k] = past[k]
  BY <1>1, <1>3, <1>4, AppendProperties
<1>6. Recounts(ledger, past, height + 1)
  BY <1>1, LaterTells DEF Recounts
<1>7. Recounts(ledger', past, height + 1)
  <2>1. height + 1 \in Nat \ {0} /\ DOMAIN past = 1..(height + 1) - 1
    BY <1>1
  <2> QED BY <1>2, <1>6, <2>1 DEF Retells
<1>8. ASSUME NEW a \in Addresses
      PROVE  Tells(ledger'.history[a], ledger'.balances[a],
                   [k \in DOMAIN past' |-> past'[k][a]], height + 1)
  <2> DEFINE was  == [k \in DOMAIN past |-> past[k][a]]
             more == [k \in DOMAIN past' |-> past'[k][a]]
  <2>1. /\ DOMAIN was = 1..height /\ DOMAIN more = 1..height + 1
        /\ more[height + 1] = ledger'.balances[a]
        /\ \A k \in 1..height : more[k] = was[k]
    BY <1>1, <1>5
  <2>2. Tells(ledger'.history[a], ledger'.balances[a], was, height + 1)
    BY <1>7 DEF Recounts
  <2> HIDE DEF was, more
  <2>3. Tells(ledger'.history[a], ledger'.balances[a], more, height + 1)
    BY <1>1, <2>1, <2>2, ContinuedTells
  <2> QED BY <2>3 DEF more
<1>9. Recounts(ledger', past', height')
  BY <1>3, <1>8 DEF Recounts
<1> QED BY <1>2, <1>5, <1>9 DEF AverageInv

LEMMA AverageStep == AverageInv /\ [Next]_vars => AverageInv'
<1>1. ASSUME AverageInv, UNCHANGED vars PROVE AverageInv'
  BY <1>1, LedgerStep DEF AverageInv, vars
<1> QED BY <1>1, AverageNext

LEMMA InvIsExact == AverageInv => AverageIsExact
<1> SUFFICES ASSUME AverageInv, NEW a \in Addresses
             PROVE  LET start == WindowStart(height)
                        real  == Total([h \in {k \in start..height : k > 0} |-> past[h][a]])
                    IN HolderAverages(ledger, height)[a] = real \div (height - start + 1)
  BY DEF AverageIsExact
<1> DEFINE start  == WindowStart(height)
           window == {k \in start..height : k > 0}
           was    == [k \in DOMAIN past |-> past[k][a]]
           y      == ledger.history[a]
           b      == ledger.balances[a]
<1>1. /\ height \in Nat /\ b \in Int /\ start \in Nat
      /\ past \in Seq([Addresses -> Int]) /\ DOMAIN past = 1..height
      /\ Tells(y, b, was, height)
  <2>1. height \in Nat /\ ledger \in Ledgers
    BY DEF AverageInv, LedgerInv, EmissionInv
  <2>2. past \in Seq([Addresses -> Int]) /\ DOMAIN past = 1..height
    BY DEF AverageInv
  <2>3. Tells(y, b, was, height)
    BY DEF AverageInv, Recounts
  <2> QED BY <2>1, <2>2, <2>3, WindowFacts DEF Ledgers
<1>2. was \in [1..height -> Int]
  BY <1>1
<1>3. [k \in window |-> was[k]] = [k \in window |-> past[k][a]]
  <2>1. \A k \in window : k \in DOMAIN past
    BY <1>1
  <2> HIDE DEF window
  <2> QED BY <2>1
<1> HIDE DEF was, y, b
<1>4. AverageBalance(y, b, start, height)
        = Total([k \in window |-> was[k]]) \div (height - start + 1)
  BY <1>1, <1>2, AverageIsMean
<1>5. HolderAverages(ledger, height)[a] = AverageBalance(y, b, start, height)
  BY DEF HolderAverages, y, b
<1> HIDE DEF window
<1> QED BY <1>3, <1>4, <1>5 DEF window

(* The average a holder's payout is computed from is, at every height and  *)
(* for every address, that of the balances it really had: the entries that *)
(* recordBalanceHistory drops or replaces are never missed, whatever       *)
(* window, credits and debits there are (computeAverageBalance).           *)
THEOREM AveragesAreExact == Spec => []AverageIsExact
<1>1. AverageInv => AverageIsExact
  BY InvIsExact
<1> QED BY <1>1, AverageStart, AverageStep, PTL DEF Spec

-----------------------------------------------------------------------------

(* The greatest of a set of positions.                                     *)
LEMMA GreatestLemma ==
  ASSUME NEW S, NEW k \in Nat, k \in S, S \subseteq 0..k
  PROVE  Max(S) = k
<1>1. k \in S /\ \A y \in S : k >= y
  OBVIOUS
<1>2. Max(S) \in S /\ \A y \in S : Max(S) >= y
  BY <1>1 DEF Max
<1>3. Max(S) \in 0..k /\ Max(S) >= k
  BY <1>2
<1> QED BY <1>3

(* The two loops over ids, by name.                                        *)
RemoveAll(p, ids) == FoldLeft(RemoveInternal, p, ids)

SweepAll(d, ids) == FoldLeft(Sweep, d, ids)

(* The recursion of FoldLeft over a part of the positions of ids.          *)
Removing(g, p, ids, S) ==
  g = [s \in SUBSET S |-> IF s = {} THEN p
                          ELSE RemoveInternal(g[s \ {Max(s)}], ids[Max(s)])]

LEMMA RemovingExists ==
  ASSUME NEW p, NEW ids
  PROVE  \A n \in Nat : \E g : Removing(g, p, ids, 1..n)
<1> DEFINE C == {n \in Nat : \E g : Removing(g, p, ids, 1..n)}
<1>1. 0 \in C
  <2>1. 1..0 = {}
    OBVIOUS
  <2>2. Removing([s \in SUBSET {} |-> p], p, ids, {})
    BY DEF Removing
  <2> QED BY <2>1, <2>2
<1>2. ASSUME NEW n \in Nat, n \in C PROVE n + 1 \in C
  <2>1. PICK g : Removing(g, p, ids, 1..n)
    BY <1>2
  <2> DEFINE m == n + 1
             h == [s \in SUBSET (1..m) |->
                    IF m \in s THEN RemoveInternal(g[s \ {m}], ids[m]) ELSE g[s]]
  <2>2. ASSUME NEW s \in SUBSET (1..m)
        PROVE  h[s] = IF s = {} THEN p ELSE RemoveInternal(h[s \ {Max(s)}], ids[Max(s)])
    <3>1. CASE m \in s
      <4>1. Max(s) = m
        <5>1. s \subseteq 0..m /\ m \in Nat
          OBVIOUS
        <5> HIDE DEF m
        <5> QED BY <3>1, <5>1, GreatestLemma
      <4>2. s \ {m} \in SUBSET (1..m) /\ m \notin s \ {m} /\ s # {}
        BY <3>1
      <4>3. h[s \ {m}] = g[s \ {m}]
        BY <4>2
      <4>4. h[s] = RemoveInternal(g[s \ {m}], ids[m])
        BY <3>1
      <4> HIDE DEF h, m
      <4> QED BY <4>1, <4>2, <4>3, <4>4
    <3>2. CASE m \notin s
      <4>1. s \in SUBSET (1..n)
        BY <3>2
      <4>2. h[s] = g[s]
        BY <3>2
      <4>3. s \ {Max(s)} \in SUBSET (1..m) /\ m \notin s \ {Max(s)}
        BY <3>2
      <4>4. h[s \ {Max(s)}] = g[s \ {Max(s)}]
        BY <4>3
      <4> HIDE DEF h, m
      <4> QED BY <2>1, <4>1, <4>2, <4>4 DEF Removing
    <3> QED BY <3>1, <3>2
  <2>3. Removing(h, p, ids, 1..m)
    BY <2>2 DEF Removing
  <2> QED BY <2>3
<1>3. Nat \subseteq C
  <2> HIDE DEF C
  <2> QED BY <1>1, <1>2, Induction
<1> QED BY <1>3

(* RemoveInternal for one id after the other.                              *)
LEMMA RemovingChain ==
  ASSUME NEW p, NEW n \in Nat, NEW ids, DOMAIN ids = 1..n
  PROVE  \E g : /\ g[0] = p
                /\ \A k \in 1..n : g[k] = RemoveInternal(g[k - 1], ids[k])
                /\ RemoveAll(p, ids) = g[n]
<1> DEFINE iter == CHOOSE g : Removing(g, p, ids, 1..n)
           c == [k \in 0..n |-> iter[1..k]]
<1>1. RemoveAll(p, ids) = iter[1..n]
  BY DEF RemoveAll, FoldLeft, MapThenFoldSet, Removing
<1>2. Removing(iter, p, ids, 1..n)
  BY RemovingExists
<1> HIDE DEF iter
<1>3. iter[1..0] = p
  BY <1>2 DEF Removing
<1>4. ASSUME NEW k \in 1..n PROVE iter[1..k] = RemoveInternal(iter[1..(k - 1)], ids[k])
  <2>1. Max(1..k) = k
    <3> DEFINE s == 1..k
    <3>1. k \in Nat /\ k \in s /\ s \subseteq 0..k
      OBVIOUS
    <3> HIDE DEF s
    <3>2. Max(s) = k
      BY <3>1, GreatestLemma
    <3> QED BY <3>2 DEF s
  <2>2. (1..k) \ {k} = 1..(k - 1) /\ 1..k \in SUBSET (1..n) /\ 1..k # {}
    OBVIOUS
  <2> QED BY <1>2, <2>1, <2>2 DEF Removing
<1>5. c[0] = p /\ c[n] = RemoveAll(p, ids)
  BY <1>1, <1>3
<1>6. \A k \in 1..n : c[k] = RemoveInternal(c[k - 1], ids[k])
  <2> TAKE k \in 1..n
  <2>1. k \in 0..n /\ k - 1 \in 0..n
    OBVIOUS
  <2>2. c[k] = iter[1..k] /\ c[k - 1] = iter[1..(k - 1)]
    BY <2>1
  <2> QED BY <1>4, <2>2
<1> HIDE DEF c
<1> QED BY <1>5, <1>6

(* The same for the loop of cleanupExpired.                                *)
Sweeping(g, p, ids, S) ==
  g = [s \in SUBSET S |-> IF s = {} THEN p
                          ELSE Sweep(g[s \ {Max(s)}], ids[Max(s)])]

LEMMA SweepingExists ==
  ASSUME NEW p, NEW ids
  PROVE  \A n \in Nat : \E g : Sweeping(g, p, ids, 1..n)
<1> DEFINE C == {n \in Nat : \E g : Sweeping(g, p, ids, 1..n)}
<1>1. 0 \in C
  <2>1. 1..0 = {}
    OBVIOUS
  <2>2. Sweeping([s \in SUBSET {} |-> p], p, ids, {})
    BY DEF Sweeping
  <2> QED BY <2>1, <2>2
<1>2. ASSUME NEW n \in Nat, n \in C PROVE n + 1 \in C
  <2>1. PICK g : Sweeping(g, p, ids, 1..n)
    BY <1>2
  <2> DEFINE m == n + 1
             h == [s \in SUBSET (1..m) |->
                    IF m \in s THEN Sweep(g[s \ {m}], ids[m]) ELSE g[s]]
  <2>2. ASSUME NEW s \in SUBSET (1..m)
        PROVE  h[s] = IF s = {} THEN p ELSE Sweep(h[s \ {Max(s)}], ids[Max(s)])
    <3>1. CASE m \in s
      <4>1. Max(s) = m
        <5>1. s \subseteq 0..m /\ m \in Nat
          OBVIOUS
        <5> HIDE DEF m
        <5> QED BY <3>1, <5>1, GreatestLemma
      <4>2. s \ {m} \in SUBSET (1..m) /\ m \notin s \ {m} /\ s # {}
        BY <3>1
      <4>3. h[s \ {m}] = g[s \ {m}]
        BY <4>2
      <4>4. h[s] = Sweep(g[s \ {m}], ids[m])
        BY <3>1
      <4> HIDE DEF h, m
      <4> QED BY <4>1, <4>2, <4>3, <4>4
    <3>2. CASE m \notin s
      <4>1. s \in SUBSET (1..n)
        BY <3>2
      <4>2. h[s] = g[s]
        BY <3>2
      <4>3. s \ {Max(s)} \in SUBSET (1..m) /\ m \notin s \ {Max(s)}
        BY <3>2
      <4>4. h[s \ {Max(s)}] = g[s \ {Max(s)}]
        BY <4>3
      <4> HIDE DEF h, m
      <4> QED BY <2>1, <4>1, <4>2, <4>4 DEF Sweeping
    <3> QED BY <3>1, <3>2
  <2>3. Sweeping(h, p, ids, 1..m)
    BY <2>2 DEF Sweeping
  <2> QED BY <2>3
<1>3. Nat \subseteq C
  <2> HIDE DEF C
  <2> QED BY <1>1, <1>2, Induction
<1> QED BY <1>3

LEMMA SweepingChain ==
  ASSUME NEW p, NEW n \in Nat, NEW ids, DOMAIN ids = 1..n
  PROVE  \E g : /\ g[0] = p
                /\ \A k \in 1..n : g[k] = Sweep(g[k - 1], ids[k])
                /\ SweepAll(p, ids) = g[n]
<1> DEFINE iter == CHOOSE g : Sweeping(g, p, ids, 1..n)
           c == [k \in 0..n |-> iter[1..k]]
<1>1. SweepAll(p, ids) = iter[1..n]
  BY DEF SweepAll, FoldLeft, MapThenFoldSet, Sweeping
<1>2. Sweeping(iter, p, ids, 1..n)
  BY SweepingExists
<1> HIDE DEF iter
<1>3. iter[1..0] = p
  BY <1>2 DEF Sweeping
<1>4. ASSUME NEW k \in 1..n PROVE iter[1..k] = Sweep(iter[1..(k - 1)], ids[k])
  <2>1. Max(1..k) = k
    <3> DEFINE s == 1..k
    <3>1. k \in Nat /\ k \in s /\ s \subseteq 0..k
      OBVIOUS
    <3> HIDE DEF s
    <3>2. Max(s) = k
      BY <3>1, GreatestLemma
    <3> QED BY <3>2 DEF s
  <2>2. (1..k) \ {k} = 1..(k - 1) /\ 1..k \in SUBSET (1..n) /\ 1..k # {}
    OBVIOUS
  <2> QED BY <1>2, <2>1, <2>2 DEF Sweeping
<1>5. c[0] = p /\ c[n] = SweepAll(p, ids)
  BY <1>1, <1>3
<1>6. \A k \in 1..n : c[k] = Sweep(c[k - 1], ids[k])
  <2> TAKE k \in 1..n
  <2>1. k \in 0..n /\ k - 1 \in 0..n
    OBVIOUS
  <2>2. c[k] = iter[1..k] /\ c[k - 1] = iter[1..(k - 1)]
    BY <2>1
  <2> QED BY <1>4, <2>2
<1> HIDE DEF c
<1> QED BY <1>5, <1>6

-----------------------------------------------------------------------------

(* No position lists what another one does.                                *)
Once(seq) == \A m, n \in DOMAIN seq : seq[m] = seq[n] => m = n

Precedes(seq, i, j) == \E m, n \in DOMAIN seq : m < n /\ seq[m] = i /\ seq[n] = j

LEMMA RemoveFirstLemma ==
  ASSUME NEW S, NEW seq \in Seq(S), Once(seq), NEW e \in ToSet(seq)
  PROVE  /\ RemoveFirst(seq, e) \in Seq(S)
         /\ Len(RemoveFirst(seq, e)) = Len(seq) - 1
         /\ Once(RemoveFirst(seq, e))
         /\ ToSet(RemoveFirst(seq, e)) = ToSet(seq) \ {e}
         /\ \A i, j \in S \ {e} : Precedes(seq, i, j) => Precedes(RemoveFirst(seq, e), i, j)
<1>1. PICK k \in 1..Len(seq) : seq[k] = e
  BY DEF ToSet
<1> DEFINE n == Len(seq)
           r == RemoveFirst(seq, e)
<1>2. n \in Nat /\ DOMAIN seq = 1..n /\ \A m \in 1..n : seq[m] \in S
  OBVIOUS
<1>3. SelectInSeq(seq, LAMBDA v : v = e) = k
  <2> DEFINE I == {i \in 1..Len(seq) : seq[i] = e}
  <2>1. I = {k}
    BY <1>1, <1>2 DEF Once
  <2>2. Min({k}) = k
    BY DEF Min
  <2>3. SelectInSeq(seq, LAMBDA v : v = e) = IF I # {} THEN Min(I) ELSE 0
    BY DEF SelectInSeq
  <2> HIDE DEF I
  <2> QED BY <2>1, <2>2, <2>3
<1>4. r = RemoveAt(seq, k)
  BY <1>1, <1>3 DEF RemoveFirst
<1> DEFINE u == SubSeq(seq, 1, k - 1)
           v == SubSeq(seq, k + 1, n)
<1>5. /\ u \in Seq(S) /\ Len(u) = k - 1 /\ \A m \in 1..(k - 1) : u[m] = seq[m]
      /\ v \in Seq(S) /\ Len(v) = n - k /\ \A m \in 1..(n - k) : v[m] = seq[m + k]
  <2>1. \A m \in 1..(k - 1) : seq[m] \in S
    BY <1>1, <1>2
  <2>2. \A m \in (k + 1)..n : seq[m] \in S
    BY <1>1, <1>2
  <2>3. u \in Seq(S) /\ Len(u) = (IF 1 <= k - 1 THEN k - 1 - 1 + 1 ELSE 0)
        /\ \A m \in 1..(k - 1 - 1 + 1) : u[m] = seq[1 + m - 1]
    BY <1>1, <1>2, <2>1, SubSeqProperties
  <2>4. v \in Seq(S) /\ Len(v) = (IF k + 1 <= n THEN n - (k + 1) + 1 ELSE 0)
        /\ \A m \in 1..(n - (k + 1) + 1) : v[m] = seq[k + 1 + m - 1]
    BY <1>1, <1>2, <2>2, SubSeqProperties
  <2> HIDE DEF u, v, n
  <2>5. Len(u) = k - 1 /\ \A m \in 1..(k - 1) : u[m] = seq[m]
    BY <1>2, <2>3
  <2>6. Len(v) = n - k
    BY <1>2, <2>4
  <2>7. \A m \in 1..(n - k) : v[m] = seq[m + k]
    <3> TAKE m \in 1..(n - k)
    <3>1. m \in 1..(n - (k + 1) + 1) /\ k + 1 + m - 1 = m + k
      BY <1>2
    <3> QED BY <2>4, <3>1
  <2> QED BY <2>3, <2>4, <2>5, <2>6, <2>7
<1> HIDE DEF u, v
<1>6. /\ r \in Seq(S) /\ Len(r) = n - 1 /\ DOMAIN r = 1..(n - 1)
      /\ \A m \in 1..(n - 1) : r[m] = IF m < k THEN seq[m] ELSE seq[m + 1]
  <2>1. r = u \o v
    BY <1>4 DEF RemoveAt, u, v
  <2> HIDE DEF r, n
  <2>2. /\ u \o v \in Seq(S) /\ Len(u \o v) = Len(u) + Len(v)
        /\ \A m \in 1..(Len(u) + Len(v)) :
              (u \o v)[m] = IF m <= Len(u) THEN u[m] ELSE v[m - Len(u)]
    BY <1>5, ConcatProperties
  <2>3. r \in Seq(S) /\ Len(r) = n - 1 /\ DOMAIN r = 1..(n - 1)
    BY <1>2, <1>5, <2>1, <2>2
  <2>4. \A m \in 1..(n - 1) : r[m] = IF m < k THEN seq[m] ELSE seq[m + 1]
    <3> TAKE m \in 1..(n - 1)
    <3>1. r[m] = IF m <= k - 1 THEN u[m] ELSE v[m - (k - 1)]
      BY <1>2, <1>5, <2>1, <2>2
    <3>2. CASE m < k
      BY <1>2, <1>5, <3>1, <3>2
    <3>3. CASE ~(m < k)
      <4>1. m - (k - 1) \in 1..(n - k) /\ m - (k - 1) + k = m + 1
        BY <1>2, <3>3
      <4>2. v[m - (k - 1)] = seq[m + 1]
        BY <1>5, <4>1
      <4> QED BY <1>2, <3>1, <3>3, <4>2
    <3> QED BY <3>2, <3>3
  <2> QED BY <2>3, <2>4
<1> HIDE DEF r, n
<1> DEFINE At(m) == IF m < k THEN m ELSE m + 1
           In(m) == IF m < k THEN m ELSE m - 1
<1>7. \A m \in 1..(n - 1) : At(m) \in 1..n /\ At(m) # k /\ r[m] = seq[At(m)]
  BY <1>2, <1>6
<1>8. \A m \in (1..n) \ {k} : In(m) \in 1..(n - 1) /\ r[In(m)] = seq[m]
  BY <1>1, <1>2, <1>6
<1>9. Once(r)
  <2> SUFFICES ASSUME NEW a \in 1..(n - 1), NEW b \in 1..(n - 1), r[a] = r[b] PROVE a = b
    BY <1>6 DEF Once
  <2>1. At(a) = At(b)
    BY <1>2, <1>7 DEF Once
  <2> QED BY <1>2, <2>1
<1>10. ToSet(r) = ToSet(seq) \ {e}
  <2>1. ASSUME NEW m \in 1..n PROVE seq[m] = e <=> m = k
    BY <1>1, <1>2 DEF Once, n
  <2>2. \A m \in 1..(n - 1) : r[m] \in ToSet(seq) \ {e}
    BY <1>2, <1>7, <2>1 DEF ToSet
  <2>3. \A m \in (1..n) \ {k} : seq[m] \in ToSet(r)
    <3> TAKE m \in (1..n) \ {k}
    <3>1. In(m) \in DOMAIN r /\ r[In(m)] = seq[m]
      BY <1>6, <1>8
    <3> QED BY <3>1 DEF ToSet
  <2>4. ToSet(r) \subseteq ToSet(seq) \ {e}
    BY <1>6, <2>2 DEF ToSet
  <2>5. ToSet(seq) \ {e} \subseteq ToSet(r)
    BY <1>1, <1>2, <2>3 DEF ToSet
  <2> QED BY <2>4, <2>5
<1>11. ASSUME NEW i \in S \ {e}, NEW j \in S \ {e}, Precedes(seq, i, j)
       PROVE  Precedes(r, i, j)
  <2>1. PICK a \in 1..n, b \in 1..n : a < b /\ seq[a] = i /\ seq[b] = j
    BY <1>2, <1>11 DEF Precedes
  <2>2. a # k /\ b # k
    BY <1>1, <2>1
  <2>3. In(a) < In(b)
    BY <1>1, <1>2, <2>1, <2>2
  <2>4. In(a) \in DOMAIN r /\ In(b) \in DOMAIN r /\ r[In(a)] = i /\ r[In(b)] = j
    BY <1>6, <1>8, <2>1, <2>2
  <2> HIDE DEF In
  <2> QED BY <2>3, <2>4 DEF Precedes
<1> QED BY <1>6, <1>9, <1>10, <1>11 DEF r, n

LEMMA AppendLemma ==
  ASSUME NEW S, NEW seq \in Seq(S), Once(seq), NEW e \in S, e \notin ToSet(seq)
  PROVE  /\ Append(seq, e) \in Seq(S)
         /\ Len(Append(seq, e)) = Len(seq) + 1
         /\ Once(Append(seq, e))
         /\ ToSet(Append(seq, e)) = ToSet(seq) \cup {e}
         /\ \A i, j \in S : Precedes(seq, i, j) => Precedes(Append(seq, e), i, j)
         /\ \A i \in ToSet(seq) : Precedes(Append(seq, e), i, e)
<1> DEFINE n == Len(seq)
           r == Append(seq, e)
<1>1. n \in Nat /\ DOMAIN seq = 1..n
  OBVIOUS
<1>2. /\ r \in Seq(S) /\ Len(r) = n + 1 /\ DOMAIN r = 1..(n + 1)
      /\ r[n + 1] = e /\ \A m \in 1..n : r[m] = seq[m]
  OBVIOUS
<1>3. \A m \in 1..n : seq[m] # e
  BY <1>1 DEF ToSet
<1> HIDE DEF n, r
<1>4. 1..(n + 1) = (1..n) \cup {n + 1} /\ n + 1 \notin 1..n
  BY <1>1
<1>5. Once(r)
  BY <1>1, <1>2, <1>3, <1>4 DEF Once
<1>6. ToSet(r) = ToSet(seq) \cup {e}
  BY <1>1, <1>2, <1>4 DEF ToSet
<1>7. ASSUME NEW i \in S, NEW j \in S, Precedes(seq, i, j) PROVE Precedes(r, i, j)
  BY <1>1, <1>2, <1>4, <1>7 DEF Precedes
<1>8. ASSUME NEW i \in ToSet(seq) PROVE Precedes(r, i, e)
  <2>1. PICK m \in 1..n : seq[m] = i
    BY <1>1, <1>8 DEF ToSet
  <2>2. m < n + 1 /\ m \in DOMAIN r /\ n + 1 \in DOMAIN r
    BY <1>1, <1>2
  <2> QED BY <1>2, <2>1, <2>2 DEF Precedes
<1> QED BY <1>2, <1>5, <1>6, <1>7, <1>8 DEF n, r

-----------------------------------------------------------------------------

Owned(p, s) == {id \in Pending(p) : Signer[id] = s}

(* The inductive invariant, of a pool p: the order lists what is pending,  *)
(* once, the counters count it, and the counters are within the limits.    *)
PoolTypes(p) ==
  /\ p = [txById |-> p.txById, order |-> p.order, counts |-> p.counts, bytes |-> p.bytes]
  /\ Pending(p) \subseteq Ids
  /\ \A id \in Pending(p) : p.txById[id] \in 0..MaxTime
  /\ p.counts \in [Senders -> Nat]
  /\ p.bytes \in Nat

PoolLists(p) ==
  /\ p.order \in Seq(Ids)
  /\ Once(p.order)
  /\ ToSet(p.order) = Pending(p)
  /\ Len(p.order) = Cardinality(Pending(p))

PoolCounts(p) ==
  /\ \A s \in Senders : p.counts[s] = Cardinality(Owned(p, s))
  /\ p.bytes = SumFunctionOnSet(Bytes, Pending(p))

PoolLimits(p) ==
  /\ Cardinality(Pending(p)) <= MaxTransactions
  /\ p.bytes <= MaxBytes
  /\ \A s \in Senders : p.counts[s] <= MaxPerSender

PoolOK(p) == PoolTypes(p) /\ PoolLists(p) /\ PoolCounts(p) /\ PoolLimits(p)

(* What is left of p is as it was, in the order it was in.                 *)
Left(p, q) ==
  /\ Pending(q) \subseteq Pending(p)
  /\ \A id \in Pending(q) : q.txById[id] = p.txById[id]
  /\ \A i, j \in Pending(q) : Ahead(p, i, j) => Ahead(q, i, j)

LEMMA LeftIsTransitive ==
  ASSUME NEW p, NEW q, NEW r, Left(p, q), Left(q, r)
  PROVE  Left(p, r)
BY DEF Left

LEMMA LimitTypes ==
  /\ IsFiniteSet(Ids) /\ Signer \in [Ids -> Senders] /\ Bytes \in [Ids -> Int]
  /\ \A id \in Ids : Bytes[id] \in Nat /\ Bytes[id] > 0
  /\ MaxTransactions \in Nat /\ MaxBytes \in Nat /\ MaxPerSender \in Nat
  /\ Ttl \in Nat /\ Ttl > 0 /\ MaxRemovals \in Nat /\ MaxRemovals > 0
  /\ MaxBlock \in Nat /\ MaxTime \in Nat
  /\ MaxTransactions > 0 /\ MaxBytes > 0 /\ MaxPerSender > 0
BY MempoolAssumption DEF MempoolAssumption

LEMMA PoolSets ==
  ASSUME NEW p, PoolOK(p)
  PROVE  /\ IsFiniteSet(Pending(p)) /\ Cardinality(Pending(p)) \in Nat
         /\ \A s : /\ Owned(p, s) \subseteq Pending(p)
                   /\ IsFiniteSet(Owned(p, s))
                   /\ Cardinality(Owned(p, s)) \in Nat
<1>1. Pending(p) \subseteq Ids /\ IsFiniteSet(Ids)
  BY LimitTypes DEF PoolOK, PoolTypes
<1>2. IsFiniteSet(Pending(p))
  BY <1>1, FS_Subset
<1>3. \A s : Owned(p, s) \subseteq Pending(p)
  BY DEF Owned
<1>4. \A s : IsFiniteSet(Owned(p, s))
  BY <1>2, <1>3, FS_Subset
<1> QED BY <1>2, <1>3, <1>4, FS_CardinalityType

(* removeInternal keeps the counters true.                                 *)
LEMMA RemoveLemma ==
  ASSUME NEW p, PoolOK(p), NEW id
  PROVE  /\ PoolOK(RemoveInternal(p, id))
         /\ Left(p, RemoveInternal(p, id))
         /\ Pending(RemoveInternal(p, id)) = Pending(p) \ {id}
<1>1. CASE id \notin Pending(p)
  <2>1. RemoveInternal(p, id) = p
    BY <1>1 DEF RemoveInternal
  <2>2. Left(p, p) /\ Pending(p) = Pending(p) \ {id}
    BY <1>1 DEF Left
  <2> QED BY <2>1, <2>2
<1>2. CASE id \in Pending(p)
  <2> DEFINE q == RemoveInternal(p, id)
             P == Pending(p)
             sender == Signer[id]
  <2>1. /\ q.txById = Restrict(p.txById, P \ {id})
        /\ q.order = RemoveFirst(p.order, id)
        /\ q.counts = [p.counts EXCEPT ![sender] = IF @ <= 1 THEN 0 ELSE @ - 1]
        /\ q.bytes = IF p.bytes < Bytes[id] THEN 0 ELSE p.bytes - Bytes[id]
    BY <1>2 DEF RemoveInternal
  <2> HIDE DEF q
  <2>2. Pending(q) = P \ {id} /\ \A i \in P \ {id} : q.txById[i] = p.txById[i]
    BY <2>1 DEF Pending, Restrict
  <2>3. /\ P \subseteq Ids /\ id \in Ids /\ sender \in Senders
        /\ p.counts \in [Senders -> Nat] /\ p.bytes \in Nat
        /\ \A i \in P : p.txById[i] \in 0..MaxTime
    BY <1>2, LimitTypes DEF PoolOK, PoolTypes
  <2>4. /\ p.order \in Seq(Ids) /\ Once(p.order) /\ ToSet(p.order) = P
        /\ Len(p.order) = Cardinality(P)
    BY DEF PoolOK, PoolLists
  <2>5. IsFiniteSet(P) /\ Cardinality(P) \in Nat
    BY PoolSets
  <2>6. Cardinality(P \ {id}) = Cardinality(P) - 1
    BY <1>2, <2>5, FS_RemoveElement
  <2>7. /\ q.order \in Seq(Ids) /\ Len(q.order) = Cardinality(P) - 1 /\ Once(q.order)
        /\ ToSet(q.order) = P \ {id}
        /\ \A i, j \in Ids \ {id} : Precedes(p.order, i, j) => Precedes(q.order, i, j)
    BY <1>2, <2>1, <2>4, RemoveFirstLemma
  <2>8. PoolLists(q)
    BY <2>2, <2>6, <2>7 DEF PoolLists
  <2>9. Left(p, q)
    <3>1. \A i, j \in Pending(q) : Ahead(p, i, j) => Ahead(q, i, j)
      BY <2>2, <2>3, <2>7 DEF Ahead, Precedes
    <3> QED BY <2>2, <3>1 DEF Left
  <2>10. \A s \in Senders : /\ q.counts[s] \in Nat
                            /\ q.counts[s] <= p.counts[s]
                            /\ q.counts[s] = Cardinality(Owned(q, s))
    <3> TAKE s \in Senders
    <3>1. p.counts[s] = Cardinality(Owned(p, s)) /\ IsFiniteSet(Owned(p, s))
          /\ p.counts[s] \in Nat
      BY <2>3, PoolSets DEF PoolOK, PoolCounts
    <3>2. CASE s = sender
      <4>1. Owned(q, s) = Owned(p, s) \ {id} /\ id \in Owned(p, s)
        BY <1>2, <2>2, <3>2 DEF Owned
      <4>2. Cardinality(Owned(q, s)) = Cardinality(Owned(p, s)) - 1
            /\ Cardinality(Owned(q, s)) \in Nat
        BY <3>1, <4>1, FS_RemoveElement, FS_CardinalityType
      <4>3. q.counts[s] = IF p.counts[s] <= 1 THEN 0 ELSE p.counts[s] - 1
        BY <2>1, <2>3, <3>2
      <4> QED BY <3>1, <4>2, <4>3
    <3>3. CASE s # sender
      <4>1. Owned(q, s) = Owned(p, s)
        BY <2>2, <3>3 DEF Owned
      <4>2. q.counts[s] = p.counts[s]
        BY <2>1, <2>3, <3>3
      <4> QED BY <3>1, <4>1, <4>2
    <3> QED BY <3>2, <3>3
  <2>11. q.counts \in [Senders -> Nat]
    <3>1. q.counts \in [Senders -> Int]
      BY <2>1, <2>3
    <3> QED BY <2>10, <3>1
  <2>12. /\ p.bytes = SumFunctionOnSet(Bytes, P)
         /\ q.bytes = SumFunctionOnSet(Bytes, P \ {id})
         /\ q.bytes \in Nat /\ q.bytes <= p.bytes
    <3>1. p.bytes = SumFunctionOnSet(Bytes, P)
      BY DEF PoolOK, PoolCounts
    <3>2. SumFunctionOnSet(Bytes, P) = Bytes[id] + SumFunctionOnSet(Bytes, P \ {id})
      BY <1>2, <2>3, LimitTypes, SumStep
    <3>3. SumFunctionOnSet(Bytes, P \ {id}) \in Nat
      <4>1. \A i \in Ids : Bytes[i] \in Nat
        BY LimitTypes
      <4> QED BY <2>3, <4>1, LimitTypes, SumIsNatural
    <3>4. Bytes[id] \in Nat
      BY <2>3, LimitTypes
    <3> QED BY <2>1, <2>3, <3>1, <3>2, <3>3, <3>4
  <2>13. PoolTypes(q)
    <3>1. q = [txById |-> q.txById, order |-> q.order, counts |-> q.counts, bytes |-> q.bytes]
      BY <1>2 DEF q, RemoveInternal
    <3> QED BY <2>2, <2>3, <2>11, <2>12, <3>1 DEF PoolTypes
  <2>14. PoolCounts(q)
    BY <2>2, <2>10, <2>12 DEF PoolCounts
  <2>15. PoolLimits(q)
    <3>1. /\ Cardinality(P) <= MaxTransactions /\ p.bytes <= MaxBytes
          /\ \A s \in Senders : p.counts[s] <= MaxPerSender
      BY DEF PoolOK, PoolLimits
    <3>2. Cardinality(Pending(q)) <= MaxTransactions
      BY <2>2, <2>5, <2>6, <3>1, LimitTypes
    <3>3. q.bytes <= MaxBytes
      BY <2>3, <2>12, <3>1, LimitTypes
    <3>4. \A s \in Senders : q.counts[s] <= MaxPerSender
      BY <2>3, <2>10, <3>1, LimitTypes
    <3> QED BY <3>2, <3>3, <3>4 DEF PoolLimits
  <2>16. PoolOK(q) /\ Left(p, q) /\ Pending(q) = P \ {id}
    BY <2>2, <2>8, <2>9, <2>13, <2>14, <2>15 DEF PoolOK
  <2> QED BY <2>16 DEF q
<1> QED BY <1>1, <1>2

(* The ids that removeByIds removes are among those it is called with.     *)
LEMMA RemoveAllLemma ==
  ASSUME NEW p, PoolOK(p), NEW n \in Nat, NEW ids, DOMAIN ids = 1..n
  PROVE  /\ PoolOK(RemoveAll(p, ids))
         /\ Left(p, RemoveAll(p, ids))
         /\ Pending(p) \ Pending(RemoveAll(p, ids)) \subseteq ToSet(ids)
<1>1. PICK g : /\ g[0] = p
               /\ \A k \in 1..n : g[k] = RemoveInternal(g[k - 1], ids[k])
               /\ RemoveAll(p, ids) = g[n]
  BY RemovingChain
<1> DEFINE C == {k \in Nat : k <= n =>
                   /\ PoolOK(g[k]) /\ Left(p, g[k])
                   /\ Pending(p) \ Pending(g[k]) \subseteq ToSet(ids)}
<1>2. 0 \in C
  <2>1. Left(p, p)
    BY DEF Left
  <2> QED BY <1>1, <2>1
<1>3. ASSUME NEW k \in Nat, k \in C PROVE k + 1 \in C
  <2> SUFFICES ASSUME k + 1 <= n
               PROVE  /\ PoolOK(g[k + 1]) /\ Left(p, g[k + 1])
                      /\ Pending(p) \ Pending(g[k + 1]) \subseteq ToSet(ids)
    OBVIOUS
  <2>1. /\ PoolOK(g[k]) /\ Left(p, g[k])
        /\ Pending(p) \ Pending(g[k]) \subseteq ToSet(ids)
    BY <1>3
  <2>2. k + 1 \in 1..n /\ (k + 1) - 1 = k
    OBVIOUS
  <2>3. g[k + 1] = RemoveInternal(g[k], ids[k + 1])
    BY <1>1, <2>2
  <2>4. /\ PoolOK(g[k + 1]) /\ Left(g[k], g[k + 1])
        /\ Pending(g[k + 1]) = Pending(g[k]) \ {ids[k + 1]}
    BY <2>1, <2>3, RemoveLemma
  <2>5. ids[k + 1] \in ToSet(ids)
    BY <2>2 DEF ToSet
  <2> QED BY <2>1, <2>4, <2>5, LeftIsTransitive
<1>4. Nat \subseteq C
  <2> HIDE DEF C
  <2> QED BY <1>2, <1>3, Induction
<1>5. n \in C
  BY <1>4
<1> QED BY <1>1, <1>5

(* What the loop of cleanupExpired knows after its first k turns.          *)
Swept(p, k, d) ==
  /\ d = [pool |-> d.pool, removed |-> d.removed]
  /\ PoolOK(d.pool) /\ Left(p, d.pool)
  /\ d.removed = Cardinality(Pending(p) \ Pending(d.pool))
  /\ d.removed <= MaxRemovals
  /\ \A id \in Pending(p) \ Pending(d.pool) : Expired(p, id)
  /\ d.removed < MaxRemovals =>
       \A m \in 1..k : p.order[m] \in Pending(d.pool) => ~Expired(p, p.order[m])

LEMMA SweepLemma ==
  ASSUME NEW p, PoolOK(p), NEW k \in Nat, NEW d, Swept(p, k, d)
  PROVE  Swept(p, k + 1, Sweep(d, p.order[k + 1]))
<1> DEFINE id == p.order[k + 1]
           q == d.pool
           e == Sweep(d, id)
<1>1. /\ d = [pool |-> q, removed |-> d.removed]
      /\ PoolOK(q) /\ Left(p, q)
      /\ d.removed = Cardinality(Pending(p) \ Pending(q)) /\ d.removed <= MaxRemovals
      /\ \A i \in Pending(p) \ Pending(q) : Expired(p, i)
      /\ d.removed < MaxRemovals =>
           \A m \in 1..k : p.order[m] \in Pending(q) => ~Expired(p, p.order[m])
  BY DEF Swept
<1>2. Pending(q) \subseteq Pending(p) /\ IsFiniteSet(Pending(p) \ Pending(q))
      /\ d.removed \in Nat /\ MaxRemovals \in Nat
  <2>1. IsFiniteSet(Pending(p) \ Pending(q))
    BY PoolSets, FS_Difference
  <2> QED BY <1>1, <2>1, FS_CardinalityType, LimitTypes DEF Left
<1>3. 1..(k + 1) = (1..k) \cup {k + 1}
  OBVIOUS
<1> HIDE DEF id, q
<1>4. \A i \in Pending(q) : Expired(q, i) <=> Expired(p, i)
  BY <1>1 DEF Left, Expired
<1>5. CASE d.removed >= MaxRemovals
  <2>1. e = d
    BY <1>5 DEF Sweep
  <2>2. ~(d.removed < MaxRemovals)
    BY <1>2, <1>5
  <2> QED BY <2>1, <2>2 DEF Swept, id
<1>6. CASE d.removed < MaxRemovals /\ id \notin Pending(q)
  <2>1. e = [d EXCEPT !.pool.order = RemoveFirst(@, id)]
    BY <1>2, <1>6 DEF Sweep, q
  <2>2. RemoveFirst(q.order, id) = q.order
    <3>1. id \notin ToSet(q.order) /\ q.order \in Seq(Ids)
      BY <1>1, <1>6 DEF PoolOK, PoolLists
    <3> QED BY <3>1 DEF RemoveFirst, ToSet
  <2>3. q = [txById |-> q.txById, order |-> q.order, counts |-> q.counts, bytes |-> q.bytes]
    BY <1>1 DEF PoolOK, PoolTypes
  <2>4. [q EXCEPT !.order = q.order] = q
    BY <2>3
  <2>5. e = [d EXCEPT !.pool = [q EXCEPT !.order = q.order]]
    BY <2>1, <2>2 DEF q
  <2>6. e = d
    BY <1>1, <2>4, <2>5
  <2>7. \A m \in 1..(k + 1) : p.order[m] \in Pending(q) => ~Expired(p, p.order[m])
    BY <1>1, <1>3, <1>6 DEF id
  <2> QED BY <2>6, <2>7 DEF Swept, id, q
<1>7. CASE d.removed < MaxRemovals /\ id \in Pending(q) /\ Expired(q, id)
  <2>1. e = [pool |-> RemoveInternal(q, id), removed |-> d.removed + 1]
    BY <1>2, <1>7 DEF Sweep, q
  <2> DEFINE r == RemoveInternal(q, id)
  <2>2. PoolOK(r) /\ Left(q, r) /\ Pending(r) = Pending(q) \ {id}
    BY <1>1, RemoveLemma
  <2>3. Left(p, r)
    BY <1>1, <2>2, LeftIsTransitive
  <2>4. Pending(p) \ Pending(r) = (Pending(p) \ Pending(q)) \cup {id}
        /\ id \notin Pending(p) \ Pending(q)
    BY <1>2, <1>7, <2>2
  <2>5. Cardinality(Pending(p) \ Pending(r)) = d.removed + 1
    <3> DEFINE gone == Pending(p) \ Pending(q)
    <3>1. IsFiniteSet(gone) /\ d.removed = Cardinality(gone) /\ id \notin gone
      BY <1>1, <1>2, <2>4
    <3>2. Pending(p) \ Pending(r) = gone \cup {id}
      BY <2>4
    <3> HIDE DEF gone, r
    <3>3. Cardinality(gone \cup {id}) = Cardinality(gone) + 1
      BY <3>1, FS_AddElement
    <3> QED BY <3>1, <3>2, <3>3
  <2>6. d.removed + 1 <= MaxRemovals
    BY <1>2, <1>7
  <2>7. \A i \in Pending(p) \ Pending(r) : Expired(p, i)
    BY <1>1, <1>4, <1>7, <2>4
  <2>8. \A m \in 1..(k + 1) : p.order[m] \in Pending(r) => ~Expired(p, p.order[m])
    BY <1>1, <1>3, <1>7, <2>2 DEF id
  <2> HIDE DEF r
  <2>9. e.pool = r /\ e.removed = d.removed + 1 /\ e = [pool |-> e.pool, removed |-> e.removed]
    BY <2>1 DEF r
  <2> HIDE DEF e
  <2>10. Swept(p, k + 1, e)
    BY <2>2, <2>3, <2>5, <2>6, <2>7, <2>8, <2>9 DEF Swept
  <2> QED BY <2>10 DEF e, id
<1>8. CASE d.removed < MaxRemovals /\ id \in Pending(q) /\ ~Expired(q, id)
  <2>1. e = d
    BY <1>2, <1>8 DEF Sweep, q
  <2>2. \A m \in 1..(k + 1) : p.order[m] \in Pending(q) => ~Expired(p, p.order[m])
    BY <1>1, <1>3, <1>4, <1>8 DEF id
  <2> QED BY <2>1, <2>2 DEF Swept, id, q
<1>9. d.removed >= MaxRemovals \/ d.removed < MaxRemovals
  BY <1>2
<1> QED BY <1>5, <1>6, <1>7, <1>8, <1>9

(* cleanupExpired removes only what has expired, and all of it unless it   *)
(* stops at its cap.                                                       *)
LEMMA CleanedLemma ==
  ASSUME NEW p, PoolOK(p)
  PROVE  /\ PoolOK(Cleaned(p)) /\ Left(p, Cleaned(p))
         /\ \A id \in Pending(p) \ Pending(Cleaned(p)) : Expired(p, id)
         /\ \/ \A id \in Pending(Cleaned(p)) : ~Expired(p, id)
            \/ Cardinality(Pending(p) \ Pending(Cleaned(p))) = MaxRemovals
<1> DEFINE n == Len(p.order)
           base == [pool |-> p, removed |-> 0]
<1>1. p.order \in Seq(Ids) /\ ToSet(p.order) = Pending(p)
  BY DEF PoolOK, PoolLists
<1>2. n \in Nat /\ DOMAIN p.order = 1..n
  BY <1>1
<1> HIDE DEF n
<1>3. PICK g : /\ g[0] = base
               /\ \A k \in 1..n : g[k] = Sweep(g[k - 1], p.order[k])
               /\ SweepAll(base, p.order) = g[n]
  <2> HIDE DEF base
  <2>1. PICK ids, start, last : ids = p.order /\ start = base /\ last = n
    OBVIOUS
  <2>2. last \in Nat /\ DOMAIN ids = 1..last
    BY <1>2, <2>1
  <2>3. \E g : /\ g[0] = start
               /\ \A k \in 1..last : g[k] = Sweep(g[k - 1], ids[k])
               /\ SweepAll(start, ids) = g[last]
    BY <2>2, SweepingChain
  <2> QED BY <2>1, <2>3
<1> DEFINE C == {k \in Nat : k <= n => Swept(p, k, g[k])}
<1>4. 0 \in C
  <2>1. Left(p, p) /\ Pending(p) \ Pending(p) = {} /\ Cardinality({}) = 0
    BY FS_EmptySet DEF Left
  <2>2. base = [pool |-> base.pool, removed |-> base.removed] /\ base.pool = p /\ base.removed = 0
    OBVIOUS
  <2>3. 0 <= MaxRemovals /\ 1..0 = {}
    BY LimitTypes
  <2> HIDE DEF base
  <2>4. Swept(p, 0, base)
    BY <2>1, <2>2, <2>3 DEF Swept
  <2> QED BY <1>3, <2>4
<1>5. ASSUME NEW k \in Nat, k \in C PROVE k + 1 \in C
  <2> SUFFICES ASSUME k + 1 <= n PROVE Swept(p, k + 1, g[k + 1])
    OBVIOUS
  <2>1. Swept(p, k, g[k])
    BY <1>2, <1>5
  <2>2. k + 1 \in 1..n /\ (k + 1) - 1 = k
    BY <1>2
  <2>3. g[k + 1] = Sweep(g[k], p.order[k + 1])
    BY <1>3, <2>2
  <2> QED BY <2>1, <2>3, SweepLemma
<1>6. Nat \subseteq C
  <2> HIDE DEF C
  <2> QED BY <1>4, <1>5, Induction
<1>7. Swept(p, n, g[n])
  BY <1>2, <1>6
<1> DEFINE q == g[n].pool
<1>8. Cleaned(p) = q
  BY <1>3 DEF Cleaned, SweepAll
<1>9. /\ PoolOK(q) /\ Left(p, q)
      /\ \A id \in Pending(p) \ Pending(q) : Expired(p, id)
      /\ g[n].removed = Cardinality(Pending(p) \ Pending(q))
      /\ g[n].removed <= MaxRemovals
      /\ g[n].removed < MaxRemovals =>
           \A m \in 1..n : p.order[m] \in Pending(q) => ~Expired(p, p.order[m])
  BY <1>7 DEF Swept
<1>10. Cardinality(Pending(p) \ Pending(q)) \in Nat /\ MaxRemovals \in Nat
  BY PoolSets, FS_Difference, FS_CardinalityType, LimitTypes
<1>11. CASE g[n].removed < MaxRemovals
  <2>1. \A id \in Pending(q) : \E m \in 1..n : p.order[m] = id
    BY <1>1, <1>2, <1>9 DEF Left, ToSet
  <2> HIDE DEF q
  <2>2. \A id \in Pending(q) : ~Expired(p, id)
    BY <1>9, <1>11, <2>1
  <2> QED BY <1>8, <1>9, <2>2
<1>12. CASE ~(g[n].removed < MaxRemovals)
  <2> HIDE DEF q
  <2>1. Cardinality(Pending(p) \ Pending(q)) = MaxRemovals
    BY <1>9, <1>10, <1>12
  <2> QED BY <1>8, <1>9, <2>1
<1> QED BY <1>11, <1>12

-----------------------------------------------------------------------------

(* What is admitted is counted, and the limits are tested with it.         *)
LEMMA InsertLemma ==
  ASSUME NEW p, PoolOK(p), NEW id \in Ids, Verdict(p, id) = "queued", now \in 0..MaxTime
  PROVE  /\ PoolOK(Inserted(p, id))
         /\ id \notin Pending(p)
         /\ Pending(Inserted(p, id)) = Pending(p) \cup {id}
         /\ Inserted(p, id).txById[id] = now
         /\ \A i \in Pending(p) : Inserted(p, id).txById[i] = p.txById[i]
         /\ \A i, j \in Ids : Ahead(p, i, j) => Ahead(Inserted(p, id), i, j)
         /\ \A i \in Pending(p) : Ahead(Inserted(p, id), i, id)
<1> DEFINE q == Inserted(p, id)
           P == Pending(p)
           sender == Signer[id]
<1>1. /\ id \notin P
      /\ ~(p.counts[sender] >= MaxPerSender)
      /\ ~(Cardinality(P) + 1 > MaxTransactions)
      /\ ~(p.bytes + Bytes[id] > MaxBytes)
  BY DEF Verdict
<1>2. /\ q.txById = [i \in P \cup {id} |-> IF i = id THEN now ELSE p.txById[i]]
      /\ q.order = Append(p.order, id)
      /\ q.counts = [p.counts EXCEPT ![sender] = @ + 1]
      /\ q.bytes = p.bytes + Bytes[id]
      /\ q = [txById |-> q.txById, order |-> q.order, counts |-> q.counts, bytes |-> q.bytes]
  BY DEF Inserted
<1> HIDE DEF q
<1>3. /\ Pending(q) = P \cup {id} /\ q.txById[id] = now
      /\ \A i \in P : q.txById[i] = p.txById[i]
  BY <1>1, <1>2 DEF Pending
<1>4. /\ P \subseteq Ids /\ sender \in Senders
      /\ p.counts \in [Senders -> Nat] /\ p.bytes \in Nat
      /\ \A i \in P : p.txById[i] \in 0..MaxTime
  BY LimitTypes DEF PoolOK, PoolTypes
<1>5. /\ p.order \in Seq(Ids) /\ Once(p.order) /\ ToSet(p.order) = P
      /\ Len(p.order) = Cardinality(P)
  BY DEF PoolOK, PoolLists
<1>6. IsFiniteSet(P) /\ Cardinality(P) \in Nat
  BY PoolSets
<1>7. Cardinality(P \cup {id}) = Cardinality(P) + 1
  BY <1>1, <1>6, FS_AddElement
<1>8. /\ q.order \in Seq(Ids) /\ Len(q.order) = Cardinality(P) + 1 /\ Once(q.order)
      /\ ToSet(q.order) = P \cup {id}
      /\ \A i, j \in Ids : Precedes(p.order, i, j) => Precedes(q.order, i, j)
      /\ \A i \in P : Precedes(q.order, i, id)
  BY <1>1, <1>2, <1>5, AppendLemma
<1>9. PoolLists(q)
  BY <1>3, <1>7, <1>8 DEF PoolLists
<1>10. \A s \in Senders : /\ q.counts[s] \in Nat
                          /\ q.counts[s] <= MaxPerSender
                          /\ q.counts[s] = Cardinality(Owned(q, s))
  <2> TAKE s \in Senders
  <2>1. p.counts[s] = Cardinality(Owned(p, s)) /\ IsFiniteSet(Owned(p, s))
        /\ p.counts[s] \in Nat /\ p.counts[s] <= MaxPerSender
    BY <1>4, PoolSets DEF PoolOK, PoolCounts, PoolLimits
  <2>2. CASE s = sender
    <3>1. Owned(q, s) = Owned(p, s) \cup {id} /\ id \notin Owned(p, s)
      BY <1>1, <1>3, <2>2 DEF Owned
    <3>2. Cardinality(Owned(q, s)) = p.counts[s] + 1
      BY <2>1, <3>1, FS_AddElement
    <3>3. q.counts[s] = p.counts[s] + 1
      BY <1>2, <1>4, <2>2
    <3> QED BY <1>1, <2>1, <2>2, <3>2, <3>3, LimitTypes
  <2>3. CASE s # sender
    <3>1. Owned(q, s) = Owned(p, s)
      BY <1>3, <2>3 DEF Owned
    <3>2. q.counts[s] = p.counts[s]
      BY <1>2, <1>4, <2>3
    <3> QED BY <2>1, <3>1, <3>2
  <2> QED BY <2>2, <2>3
<1>11. q.counts \in [Senders -> Nat]
  BY <1>2, <1>4
<1>12. q.bytes \in Nat /\ q.bytes <= MaxBytes
       /\ q.bytes = SumFunctionOnSet(Bytes, P \cup {id})
  <2>1. p.bytes = SumFunctionOnSet(Bytes, P)
    BY DEF PoolOK, PoolCounts
  <2>2. P \cup {id} \in SUBSET Ids /\ (P \cup {id}) \ {id} = P
    BY <1>1, <1>4
  <2>3. SumFunctionOnSet(Bytes, P \cup {id})
          = Bytes[id] + SumFunctionOnSet(Bytes, (P \cup {id}) \ {id})
    BY <2>2, LimitTypes, SumStep
  <2>4. Bytes[id] \in Nat
    BY LimitTypes
  <2>5. SumFunctionOnSet(Bytes, P \cup {id}) = Bytes[id] + p.bytes
    BY <2>1, <2>2, <2>3
  <2>6. q.bytes \in Nat /\ q.bytes <= MaxBytes
    <3>1. q.bytes = p.bytes + Bytes[id] /\ ~(q.bytes > MaxBytes)
      BY <1>1, <1>2
    <3>2. p.bytes \in Nat /\ MaxBytes \in Nat
      BY <1>4, LimitTypes
    <3> QED BY <2>4, <3>1, <3>2
  <2>7. q.bytes = SumFunctionOnSet(Bytes, P \cup {id})
    BY <1>2, <1>4, <2>4, <2>5
  <2> QED BY <2>6, <2>7
<1>13. PoolTypes(q)
  <2>1. \A i \in Pending(q) : q.txById[i] \in 0..MaxTime
    BY <1>3, <1>4
  <2> QED BY <1>2, <1>3, <1>4, <1>11, <1>12, <2>1 DEF PoolTypes
<1>14. PoolCounts(q)
  BY <1>3, <1>10, <1>12 DEF PoolCounts
<1>15. PoolLimits(q)
  <2>1. Cardinality(Pending(q)) <= MaxTransactions
    BY <1>1, <1>3, <1>6, <1>7, LimitTypes
  <2> QED BY <1>10, <1>12, <2>1 DEF PoolLimits
<1>16. PoolOK(q)
  BY <1>9, <1>13, <1>14, <1>15 DEF PoolOK
<1>17. \A i, j \in Ids : Ahead(p, i, j) => Ahead(q, i, j)
  BY <1>8 DEF Ahead, Precedes
<1>18. \A i \in P : Ahead(q, i, id)
  BY <1>8 DEF Ahead, Precedes
<1> QED BY <1>1, <1>3, <1>16, <1>17, <1>18 DEF q

-----------------------------------------------------------------------------

MempoolInv ==
  /\ now \in 0..MaxTime
  /\ answer \in Answers
  /\ PoolOK(mempool)

LEMMA InvIsSound ==
  ASSUME MempoolInv
  PROVE  PoolIsSound
<1>1. /\ PoolTypes(mempool) /\ PoolLists(mempool) /\ PoolCounts(mempool) /\ PoolLimits(mempool)
      /\ now \in 0..MaxTime /\ answer \in Answers
  BY DEF MempoolInv, PoolOK
<1>2. MempoolTypeOK
  BY <1>1 DEF MempoolTypeOK, PoolTypes, PoolLists
<1>3. MapThenSumSet(LAMBDA id : Bytes[id], Pending(mempool)) = mempool.bytes
  <2>1. MapThenSumSet(LAMBDA id : Bytes[id], Pending(mempool))
          = SumFunctionOnSet(Bytes, Pending(mempool))
    BY DEF MapThenSumSet, SumFunctionOnSet, FoldFunctionOnSet
  <2> QED BY <1>1, <2>1 DEF PoolCounts
<1>4. \A s : Of(s) = Owned(mempool, s)
  BY DEF Of, Owned
<1>5. \A s \in Senders : mempool.counts[s] = Cardinality(Of(s))
  BY <1>1, <1>4 DEF PoolCounts
<1>6. Accounting
  BY <1>1, <1>3, <1>5 DEF Accounting, PoolLists
<1>7. WithinLimits
  BY <1>1, <1>3, <1>5 DEF WithinLimits, PoolLimits
<1> QED BY <1>2, <1>6, <1>7 DEF PoolIsSound

LEMMA MempoolStart == MempoolInit => MempoolInv
<1> SUFFICES ASSUME MempoolInit PROVE MempoolInv
  OBVIOUS
<1>1. /\ mempool.txById = <<>> /\ mempool.order = <<>> /\ mempool.bytes = 0
      /\ mempool.counts = [s \in Senders |-> 0] /\ now = 0 /\ answer = "none"
      /\ mempool = [txById |-> mempool.txById, order |-> mempool.order,
                    counts |-> mempool.counts, bytes |-> mempool.bytes]
  BY DEF MempoolInit
<1>2. Pending(mempool) = {} /\ Cardinality({}) = 0
  BY <1>1, FS_EmptySet DEF Pending
<1>3. now \in 0..MaxTime /\ answer \in Answers
  BY <1>1, LimitTypes DEF Answers
<1>4. PoolTypes(mempool)
  BY <1>1, <1>2 DEF PoolTypes
<1>5. PoolLists(mempool)
  BY <1>1, <1>2 DEF PoolLists, Once, ToSet
<1>6. PoolCounts(mempool)
  <2>1. \A s : Owned(mempool, s) = {}
    BY <1>2 DEF Owned
  <2>2. SumFunctionOnSet(Bytes, {}) = 0
    BY LimitTypes, SumStep
  <2> QED BY <1>1, <1>2, <2>1, <2>2 DEF PoolCounts
<1>7. PoolLimits(mempool)
  BY <1>1, <1>2, LimitTypes DEF PoolLimits
<1> QED BY <1>3, <1>4, <1>5, <1>6, <1>7 DEF MempoolInv, PoolOK

(* The ids of a block: a sequence.                                         *)
LEMMA BlockIds ==
  ASSUME NEW ids \in SeqOf(Ids, MaxBlock)
  PROVE  \E n \in Nat : DOMAIN ids = 1..n
BY LimitTypes DEF SeqOf

LEMMA MempoolStep ==
  ASSUME MempoolInv, [MempoolNext]_mempoolVars
  PROVE  MempoolInv'
<1>1. PoolOK(mempool) /\ now \in 0..MaxTime /\ answer \in Answers
  BY DEF MempoolInv
<1>2. PoolOK(Cleaned(mempool))
  BY <1>1, CleanedLemma
<1>3. CASE ClockMoves
  BY <1>1, <1>3 DEF ClockMoves, MempoolInv
<1>4. ASSUME NEW id \in Ids, AddTx(id) PROVE MempoolInv'
  <2> DEFINE p == Cleaned(mempool)
             said == Verdict(p, id)
  <2>1. /\ mempool' = IF said = "queued" THEN Inserted(p, id) ELSE p
        /\ answer' = said /\ now' = now
    BY <1>4 DEF AddTx
  <2>2. said \in Answers
    BY DEF Verdict, Answers
  <2>3. PoolOK(mempool')
    BY <1>1, <1>2, <2>1, InsertLemma
  <2> QED BY <1>1, <2>1, <2>2, <2>3 DEF MempoolInv
<1>5. CASE Read
  BY <1>1, <1>2, <1>5 DEF Read, MempoolInv
<1>6. ASSUME NEW ids \in SeqOf(Ids, MaxBlock), RemoveByIds(ids) PROVE MempoolInv'
  <2>1. mempool' = RemoveAll(mempool, ids) /\ now' = now /\ answer' = answer
    BY <1>6 DEF RemoveByIds, RemoveAll
  <2>2. PoolOK(mempool')
    BY <1>1, <2>1, BlockIds, RemoveAllLemma
  <2> QED BY <1>1, <2>1, <2>2 DEF MempoolInv
<1>7. CASE UNCHANGED mempoolVars
  BY <1>1, <1>7 DEF mempoolVars, MempoolInv
<1> QED BY <1>3, <1>4, <1>5, <1>6, <1>7 DEF MempoolNext

(* PoolIsSound, for any limits and any transactions: the order lists each  *)
(* pending transaction once, the counters are what they count, and the     *)
(* transactions themselves stay within the limits (mempool.js).            *)
THEOREM MempoolSound == MempoolSpec => []PoolIsSound
<1>1. MempoolInv /\ [MempoolNext]_mempoolVars => MempoolInv'
  BY MempoolStep
<1>2. MempoolInv => PoolIsSound
  BY InvIsSound
<1> QED BY MempoolStart, <1>1, <1>2, PTL DEF MempoolSpec

-----------------------------------------------------------------------------

(* What a step makes of the pool: a part of it, or that and one more.      *)
LEMMA AddLemma ==
  ASSUME MempoolInv, NEW id \in Ids, AddTx(id)
  PROVE  /\ PoolOK(Cleaned(mempool)) /\ Left(mempool, Cleaned(mempool))
         /\ \A i \in Pending(mempool) \ Pending(Cleaned(mempool)) : Expired(mempool, i)
         /\ answer' = Verdict(Cleaned(mempool), id)
         /\ \/ mempool' = Cleaned(mempool)
            \/ /\ Verdict(Cleaned(mempool), id) = "queued"
               /\ mempool' = Inserted(Cleaned(mempool), id)
BY CleanedLemma DEF MempoolInv, AddTx

LEMMA LeftKeepsOrder ==
  ASSUME Left(mempool, mempool')
  PROVE  KeepsOrder
BY DEF Left, KeepsOrder, Stays

LEMMA OrderLemma ==
  ASSUME MempoolInv, MempoolNext
  PROVE  KeepsOrder
<1>1. PoolOK(mempool) /\ now \in 0..MaxTime
  BY DEF MempoolInv
<1>2. CASE ClockMoves
  <2>1. Left(mempool, mempool')
    BY <1>2 DEF ClockMoves, Left
  <2> QED BY <2>1, LeftKeepsOrder
<1>3. CASE Read
  <2>1. Left(mempool, mempool')
    BY <1>1, <1>3, CleanedLemma DEF Read
  <2> QED BY <2>1, LeftKeepsOrder
<1>4. ASSUME NEW ids \in SeqOf(Ids, MaxBlock), RemoveByIds(ids) PROVE KeepsOrder
  <2>1. mempool' = RemoveAll(mempool, ids)
    BY <1>4 DEF RemoveByIds, RemoveAll
  <2>2. Left(mempool, mempool')
    BY <1>1, <2>1, BlockIds, RemoveAllLemma
  <2> QED BY <2>2, LeftKeepsOrder
<1>5. ASSUME NEW id \in Ids, AddTx(id) PROVE KeepsOrder
  <2> DEFINE p == Cleaned(mempool)
  <2>1. /\ PoolOK(p) /\ Left(mempool, p)
        /\ \A i \in Pending(mempool) \ Pending(p) : Expired(mempool, i)
        /\ \/ mempool' = p
           \/ Verdict(p, id) = "queued" /\ mempool' = Inserted(p, id)
    BY <1>5, AddLemma
  <2> HIDE DEF p
  <2>2. CASE mempool' = p
    BY <2>1, <2>2, LeftKeepsOrder
  <2>3. CASE Verdict(p, id) = "queued" /\ mempool' = Inserted(p, id)
    <3>1. /\ id \notin Pending(p) /\ Pending(mempool') = Pending(p) \cup {id}
          /\ mempool'.txById[id] = now
          /\ \A i \in Pending(p) : mempool'.txById[i] = p.txById[i]
          /\ \A i, j \in Ids : Ahead(p, i, j) => Ahead(mempool', i, j)
          /\ \A i \in Pending(p) : Ahead(mempool', i, id)
      BY <1>1, <2>1, <2>3, InsertLemma
    <3>2. /\ Pending(p) \subseteq Pending(mempool) /\ Pending(mempool) \subseteq Ids
          /\ \A i \in Pending(p) : p.txById[i] = mempool.txById[i]
          /\ \A i, j \in Pending(p) : Ahead(mempool, i, j) => Ahead(p, i, j)
      BY <1>1, <2>1 DEF Left, PoolOK, PoolTypes
    <3>3. ~Stays(id)
      <4>1. SUFFICES ASSUME id \in Pending(mempool), mempool.txById[id] = now PROVE FALSE
        BY <3>1 DEF Stays
      <4>2. now - now > Ttl
        BY <2>1, <3>1, <4>1 DEF Expired
      <4> QED BY <1>1, <4>2, LimitTypes
    <3> SUFFICES ASSUME NEW i \in Pending(mempool'), NEW j \in Pending(mempool'),
                        i # j, Stays(i), Stays(j) => Ahead(mempool, i, j)
                 PROVE  Ahead(mempool', i, j)
      BY DEF KeepsOrder
    <3>4. i \in Pending(p)
      BY <3>1, <3>3
    <3>5. CASE j = id
      BY <3>1, <3>4, <3>5
    <3>6. CASE j # id
      <4>1. j \in Pending(p) /\ Stays(j)
        BY <3>1, <3>2, <3>6 DEF Stays
      <4>2. Ahead(p, i, j)
        BY <3>2, <3>4, <4>1
      <4> QED BY <3>1, <3>2, <3>4, <4>1, <4>2
    <3> QED BY <3>5, <3>6
  <2> QED BY <2>1, <2>2, <2>3
<1> QED BY <1>2, <1>3, <1>4, <1>5 DEF MempoolNext

LEMMA EvictionLemma ==
  ASSUME MempoolInv, MempoolNext
  PROVE  EvictsNothing
<1>1. PoolOK(mempool)
  BY DEF MempoolInv
<1>2. CASE ClockMoves
  BY <1>2 DEF ClockMoves, EvictsNothing
<1>3. CASE Read
  BY <1>1, <1>3, CleanedLemma DEF Read, EvictsNothing
<1>4. ASSUME NEW ids \in SeqOf(Ids, MaxBlock), RemoveByIds(ids) PROVE EvictsNothing
  <2>1. mempool' = RemoveAll(mempool, ids)
    BY <1>4 DEF RemoveByIds, RemoveAll
  <2>2. Pending(mempool) \ Pending(mempool') \subseteq ToSet(ids)
    BY <1>1, <2>1, BlockIds, RemoveAllLemma
  <2> QED BY <1>4, <2>2 DEF EvictsNothing
<1>5. ASSUME NEW id \in Ids, AddTx(id) PROVE EvictsNothing
  <2>1. Pending(Cleaned(mempool)) \subseteq Pending(mempool')
    BY <1>5, AddLemma, InsertLemma DEF MempoolInv
  <2>2. \A i \in Pending(mempool) \ Pending(Cleaned(mempool)) : Expired(mempool, i)
    BY <1>5, AddLemma
  <2> QED BY <2>1, <2>2 DEF EvictsNothing
<1> QED BY <1>2, <1>3, <1>4, <1>5 DEF MempoolNext

LEMMA RefusalLemma ==
  ASSUME MempoolInv
  PROVE  RefusesForTheLiving
<1> DEFINE live == {i \in Pending(mempool) : ~Expired(mempool, i)}
           p == Cleaned(mempool)
<1> SUFFICES ASSUME NEW id \in Ids, AddTx(id), answer' \in {"full", "sender_limit"}
             PROVE  \/ Cardinality(Pending(mempool) \ live) > MaxRemovals
                    \/ Cardinality(live) >= MaxTransactions
                    \/ MapThenSumSet(LAMBDA i : Bytes[i], live) + Bytes[id] > MaxBytes
                    \/ Cardinality({i \in live : Signer[i] = Signer[id]}) >= MaxPerSender
  BY DEF RefusesForTheLiving
<1>1. PoolOK(mempool)
  BY DEF MempoolInv
<1>2. /\ PoolOK(p) /\ Pending(p) \subseteq Pending(mempool)
      /\ \A i \in Pending(mempool) \ Pending(p) : Expired(mempool, i)
      /\ Verdict(p, id) \in {"full", "sender_limit"}
  BY AddLemma DEF Left
<1>3. \/ \A i \in Pending(p) : ~Expired(mempool, i)
      \/ Cardinality(Pending(mempool) \ Pending(p)) = MaxRemovals
  BY <1>1, CleanedLemma
<1>4. MapThenSumSet(LAMBDA i : Bytes[i], live) = SumFunctionOnSet(Bytes, live)
  BY DEF MapThenSumSet, SumFunctionOnSet, FoldFunctionOnSet
<1> HIDE DEF p
<1>5. CASE \A i \in Pending(p) : ~Expired(mempool, i)
  <2>1. live = Pending(p)
    BY <1>2, <1>5
  <2>2. {i \in live : Signer[i] = Signer[id]} = Owned(p, Signer[id])
    BY <2>1 DEF Owned
  <2>3. /\ p.counts[Signer[id]] = Cardinality(Owned(p, Signer[id]))
        /\ p.bytes = SumFunctionOnSet(Bytes, live)
    <3>1. Signer[id] \in Senders
      BY LimitTypes
    <3> QED BY <1>2, <2>1, <3>1 DEF PoolOK, PoolCounts
  <2> HIDE DEF live
  <2>4. \/ p.counts[Signer[id]] >= MaxPerSender
        \/ Cardinality(Pending(p)) + 1 > MaxTransactions
        \/ p.bytes + Bytes[id] > MaxBytes
    BY <1>2 DEF Verdict
  <2>5. Cardinality(Pending(p)) \in Nat
    BY <1>2, PoolSets
  <2>6. Cardinality(Pending(p)) + 1 > MaxTransactions => Cardinality(live) >= MaxTransactions
    BY <2>1, <2>5, LimitTypes
  <2> QED BY <1>4, <2>2, <2>3, <2>4, <2>6
<1>6. CASE /\ Cardinality(Pending(mempool) \ Pending(p)) = MaxRemovals
           /\ ~(\A i \in Pending(p) : ~Expired(mempool, i))
  <2> DEFINE gone == Pending(mempool) \ Pending(p)
             dead == Pending(mempool) \ live
  <2>1. PICK i \in Pending(p) : Expired(mempool, i)
    BY <1>6
  <2>2. IsFiniteSet(gone) /\ IsFiniteSet(dead)
    BY <1>1, PoolSets, FS_Difference
  <2>3. gone \cup {i} \subseteq dead /\ i \notin gone
    BY <1>2, <2>1
  <2>4. Cardinality(gone) = MaxRemovals
    BY <1>6
  <2> HIDE DEF gone, dead
  <2>5. Cardinality(gone \cup {i}) = MaxRemovals + 1 /\ IsFiniteSet(gone \cup {i})
    BY <2>2, <2>3, <2>4, FS_AddElement
  <2>6. Cardinality(gone \cup {i}) <= Cardinality(dead) /\ Cardinality(dead) \in Nat
    BY <2>2, <2>3, FS_Subset, FS_CardinalityType
  <2>7. Cardinality(dead) > MaxRemovals
    BY <2>5, <2>6, LimitTypes
  <2> QED BY <2>7 DEF dead
<1> QED BY <1>3, <1>5, <1>6

(* PoolSteps, for any limits: no call reorders what stays pending, evicts  *)
(* what is alive, or refuses a transaction for the sake of expired ones    *)
(* (addTx, cleanupExpired, removeByIds).                                   *)
THEOREM MempoolIsFair == MempoolSpec => PoolSteps
<1>1. MempoolInv /\ [MempoolNext]_mempoolVars => MempoolInv'
  BY MempoolStep
<1>2. MempoolInv /\ [MempoolNext]_mempoolVars => [KeepsOrder]_mempoolVars
  BY OrderLemma
<1>3. MempoolInv /\ [MempoolNext]_mempoolVars => [EvictsNothing]_mempoolVars
  BY EvictionLemma
<1>4. MempoolInv /\ [MempoolNext]_mempoolVars => [RefusesForTheLiving]_mempoolVars
  BY RefusalLemma
<1> QED BY MempoolStart, <1>1, <1>2, <1>3, <1>4, PTL
        DEF MempoolSpec, PoolSteps, OrderIsKept, NothingIsEvicted, RefusedByTheLiving
=============================================================================
