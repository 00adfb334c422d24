------------------------------ MODULE Issuance ------------------------------
(***************************************************************************)
(* What a block mints and who receives it: mintAndDistribute of            *)
(* server/lib/blockchain.js, with the maturity of the participants'        *)
(* rewards, the payout of the two pools every 14 days and the history of   *)
(* balances the holders' averages are computed from.                       *)
(*                                                                         *)
(* One step is one block.  Its user transactions are one transaction       *)
(* without a fee: module TxExecution models their loop.  The order of the  *)
(* credits to different addresses within a part of the block is left out,  *)
(* as they add up to the same balances and leave the same history.         *)
(***************************************************************************)
EXTENDS Integers, Sequences, FiniteSets, FiniteSetsExt, SequencesExt

CONSTANTS
  Wallets,             \* the addresses that are not of the system
  Treasury,            \* rewards.treasuryAddress
  NodePool,            \* rewards.nodePoolAddress
  HolderPool,          \* rewards.holderPoolAddress
  Proposer,            \* mining.proposerAddress
  Signers,             \* the addresses whose owners send transactions
  InitialSupply,       \* token.initialSupplyTokens in base units
  BlocksPerYear,       \* a year in blocks
  BlocksPer14Days,     \* the payout window in blocks
  ActiveWindowBlocks,  \* economics.participation.activeWindowBlocks
  BondMicro,           \* economics.participation.bondMicro
  ActivationHeight,    \* economics.participantRewardRamp.activationHeight
  NewUntil,            \* the age in blocks up to which a participant is New
  GrowingUntil,        \* the age in blocks up to which it is Growing
  HolderMinimum,       \* 1000 tokens in base units
  Stakes,              \* the addresses with a recorded stake of one unit each
  Amounts,             \* bound: the amounts that are transferred
  MaxHeight,           \* bound: the height of the last block
  Null                 \* an absent value

Addresses == Wallets \cup {Treasury, NodePool, HolderPool, Proposer}

ASSUME IssuanceAssumption ==
  /\ IsFiniteSet(Wallets)
  /\ Wallets \cap {Treasury, NodePool, HolderPool} = {}
  /\ Signers \subseteq Addresses /\ Stakes \subseteq Wallets
  /\ InitialSupply \in Nat
  /\ BlocksPerYear \in Nat \ {0} /\ BlocksPer14Days \in Nat \ {0}
  /\ ActiveWindowBlocks \in Nat /\ BondMicro \in Nat /\ ActivationHeight \in Nat
  /\ NewUntil \in Nat /\ GrowingUntil \in Nat /\ NewUntil < GrowingUntil
  /\ HolderMinimum \in Nat \ {0}
  /\ Amounts \subseteq Nat \ {0}
  /\ MaxHeight \in Nat
  /\ Null \notin [sponsor : Addresses, bond : Nat, registered : Nat, lastSeen : Nat]

VARIABLES
  height,   \* meta.latestHeight
  meta,     \* supply, minted, mintAcc, nodePool, holderPool, lastPayoutHeight
  ledger,   \* balances, balanceHistory and participants
  past,     \* the balances after every block so far (history variable)
  owed      \* the sum of supply times rate over the blocks (history variable)

vars == <<height, meta, ledger, past, owed>>

-----------------------------------------------------------------------------

PPM == 1000000

(* The rate falls from 5% to 2% over four years.                           *)
RatePpm(h) ==
  LET span == 4 * BlocksPerYear
  IN IF h >= span THEN 20000 ELSE 50000 - (30000 * h) \div span

Total(f) == MapThenSumSet(LAMBDA a : f[a], DOMAIN f)

(* The first height of the window that ends at h.                          *)
WindowStart(h) == IF h >= BlocksPer14Days THEN h - BlocksPer14Days + 1 ELSE 0

(* How many of the entries, whose heights ascend, are before the window.   *)
Before(entries, h) == Cardinality({i \in DOMAIN entries : entries[i].height < WindowStart(h)})

\* Mutant of Pruned: the last entry before the window is dropped with the others.
PrunedWithoutLast(entries, h) == SubSeq(entries, Before(entries, h) + 1, Len(entries))

(* The entries within the window and the last one before it.               *)
Pruned(entries, h) ==
  LET before == Before(entries, h)
  IN SubSeq(entries, IF before = 0 THEN 1 ELSE before, Len(entries))

(* recordBalanceHistory: one entry per height, the latest balance in it.   *)
Recorded(entries, balance, h) ==
  LET entry == [height |-> h, balance |-> balance]
      again == entries # <<>> /\ Last(entries).height = h
  IN Pruned(Append(IF again THEN Front(entries) ELSE entries, entry), h)

(* setBalanceWithHistory for the addresses whose amount is not zero.       *)
SetBalances(l, new, changed, h) ==
  [l EXCEPT
    !.balances = [a \in Addresses |-> IF a \in changed THEN new[a] ELSE @[a]],
    !.history  = [a \in Addresses |-> IF a \in changed THEN Recorded(@[a], new[a], h)
                                                       ELSE @[a]]]

Credit(l, pay, h) ==
  SetBalances(l, [a \in Addresses |-> l.balances[a] + pay[a]],
              {a \in Addresses : pay[a] # 0}, h)

(* debitBalance: never below zero.                                         *)
Debit(l, a, units, h) ==
  SetBalances(l, [l.balances EXCEPT ![a] = IF @ > units THEN @ - units ELSE 0],
              {b \in {a} : units # 0}, h)

Only(a, units) == [b \in Addresses |-> IF b = a THEN units ELSE 0]

Plus(f, g) == [a \in Addresses |-> f[a] + g[a]]

(* What a pool's address is credited with: nothing when it is the          *)
(* treasury's.                                                             *)
Held(pool, units) == Only(pool, IF pool = Treasury THEN 0 ELSE units)

-----------------------------------------------------------------------------

ActiveParticipants(l, h) ==
  {a \in Wallets : /\ l.participants[a] # Null
                   /\ l.participants[a].lastSeen >= h - ActiveWindowBlocks}

(* participantMaturity, in basis points.                                   *)
Multiplier(record, h) ==
  LET age == h - record.registered
  IN IF h < ActivationHeight THEN 10000
     ELSE IF age <= NewUntil THEN 2500
     ELSE IF age <= GrowingUntil THEN 6000
     ELSE 10000

(* The participants' rewards out of their pool.                            *)
ParticipantRewards(l, units, h) ==
  LET active == ActiveParticipants(l, h)
      share  == units \div Cardinality(active)
  IN [a \in Addresses |->
       IF a \in active THEN (share * Multiplier(l.participants[a], h)) \div 10000 ELSE 0]

(* computeAverageBalance: each entry counts from its height, or from the   *)
(* start of the window, to the next one or to the end of the window.       *)
AverageBalance(entries, balance, start, end) ==
  LET from(i)  == IF entries[i].height <= start THEN start ELSE entries[i].height
      until(i) == IF i = Len(entries) THEN end + 1 ELSE from(i + 1)
      parts    == [i \in DOMAIN entries |-> entries[i].balance * (until(i) - from(i))]
  IN IF entries = <<>> THEN balance ELSE Total(parts) \div (end - start + 1)

HolderAverages(l, h) ==
  [a \in Addresses |-> AverageBalance(l.history[a], l.balances[a], WindowStart(h), h)]

EligibleHolders(l, h) ==
  {a \in Wallets \ {Proposer} : HolderAverages(l, h)[a] >= HolderMinimum}

(* A pool's units in proportion to the weights, the rest for the treasury: *)
(* all of it when nobody has a weight.                                     *)
Payout(units, weight) ==
  LET total  == Total(weight)
      reward == [a \in Addresses |->
                  IF total > 0 /\ a \in DOMAIN weight THEN (units * weight[a]) \div total ELSE 0]
  IN Plus(reward, Only(Treasury, units - Total(reward)))

DebitPool(l, pool, units, h) ==
  IF pool = Treasury THEN l ELSE Debit(l, pool, units, h)

NodePayout(units) == Payout(units, [a \in Stakes |-> 1])

HolderPayout(l, units, h) ==
  LET averages == HolderAverages(l, h)
  IN Payout(units, [a \in EligibleHolders(l, h) |-> averages[a]])

(* payoutPools: the holders' averages are taken after the nodes are paid.  *)
PayNodes(l, units, h) ==
  Credit(DebitPool(l, NodePool, units, h), NodePayout(units), h)

PayHolders(l, units, h) ==
  Credit(DebitPool(l, HolderPool, units, h), HolderPayout(l, units, h), h)

\* Mutant of PayoutPools: the holders are paid first.
PayoutPoolsHoldersFirst(l, node, holder, h) ==
  PayNodes(PayHolders(l, holder, h), node, h)

PayoutPools(l, node, holder, h) == PayHolders(PayNodes(l, node, h), holder, h)

\* Mutant of Split: the units lost to rounding go to nobody.
SplitWithoutRemainder(units) ==
  [participants |-> (units * 1500) \div 10000, node |-> (units * 7000) \div 10000,
   holder |-> (units * 500) \div 10000, treasury |-> (units * 1000) \div 10000]

(* What a block mints goes to four parts, the rest to the treasury.        *)
Split(units) ==
  LET part(bps)    == (units * bps) \div 10000
      remainder    == units - part(1500) - part(7000) - part(1000) - part(500)
  IN [participants |-> part(1500), node |-> part(7000), holder |-> part(500),
      treasury |-> part(1000) + remainder]

\* Mutant of Minted: the accumulator keeps nothing of what it could not mint.
MintedForgetting(m, h) ==
  LET denom == PPM * BlocksPerYear
      acc   == m.supply * RatePpm(h)
  IN [units |-> acc \div denom, acc |-> 0]

(* The units of a block, and what the accumulator keeps for later ones.    *)
Minted(m, h) ==
  LET denom == PPM * BlocksPerYear
      acc   == m.mintAcc + m.supply * RatePpm(h)
  IN [units |-> acc \div denom, acc |-> acc % denom]

(* The ledger once the block's mint is distributed, before any payout.     *)
Distributed(l, split, h) ==
  LET rewards == ParticipantRewards(l, split.participants, h)
      paid    == Credit(l, rewards, h)
      left    == split.participants - Total(rewards)
  IN Credit(paid, Plus(Only(Treasury, split.treasury + left),
                       Plus(Held(NodePool, split.node), Held(HolderPool, split.holder))), h)

Due(h) == h - meta.lastPayout >= BlocksPer14Days

Listed(type, pay) ==
  {[type |-> type, to |-> a, units |-> pay[a]] : a \in {b \in Addresses : pay[b] > 0}}

(* buildMintTxs: the transactions a block lists for what it mints and pays *)
(* on the ledger l; the explorer and the observers know no others.         *)
MintTxs(l, h) ==
  LET split   == Split(Minted(meta, h).units)
      rewards == ParticipantRewards(l, split.participants, h)
      node    == meta.nodePool + split.node
      paid    == PayNodes(Distributed(l, split, h), node, h)
  IN UNION {Listed("node_pool_accrual", Only(NodePool, split.node)),
            Listed("holder_pool_accrual", Only(HolderPool, split.holder)),
            Listed("participant_reward", rewards),
            Listed("treasury_reward", Only(Treasury, split.treasury
                                             + split.participants - Total(rewards))),
            IF Due(h) THEN Listed("node_payout", NodePayout(node)) ELSE {},
            IF Due(h) THEN Listed("holder_payout",
                                  HolderPayout(paid, meta.holderPool + split.holder, h))
                      ELSE {}}

(* mintAndDistribute on the ledger l with the user transactions applied.   *)
MintAndDistribute(l, h) ==
  LET mint   == Minted(meta, h)
      split  == Split(mint.units)
      node   == meta.nodePool + split.node
      holder == meta.holderPool + split.holder
      due    == Due(h)
      after  == Distributed(l, split, h)
  IN /\ ledger' = IF due THEN PayoutPools(after, node, holder, h) ELSE after
     /\ meta' = [supply     |-> meta.supply + mint.units,
                 minted     |-> meta.minted + mint.units,
                 mintAcc    |-> mint.acc,
                 nodePool   |-> IF due THEN 0 ELSE node,
                 holderPool |-> IF due THEN 0 ELSE holder,
                 lastPayout |-> IF due THEN h ELSE meta.lastPayout]

(* A block with the ledger l after its user transactions.                  *)
Seal(l) ==
  LET h == height + 1
  IN /\ height < MaxHeight
     /\ MintAndDistribute(l, h)
     /\ height' = h
     /\ past' = Append(past, ledger'.balances)
     /\ owed' = owed + meta.supply * RatePpm(h)

-----------------------------------------------------------------------------

(* The initial supply is on no balance.                                    *)
Init ==
  /\ height = 0
  /\ meta = [supply |-> InitialSupply, minted |-> 0, mintAcc |-> 0,
             nodePool |-> 0, holderPool |-> 0, lastPayout |-> 0]
  /\ ledger = [balances     |-> [a \in Addresses |-> 0],
               history      |-> [a \in Addresses |-> <<>>],
               participants |-> [a \in Wallets |-> Null]]
  /\ past = <<>>
  /\ owed = 0

(* The ledger after the debit of a transaction of a at height h.           *)
Signed(a, units, h) ==
  LET debited == SetBalances(ledger, [ledger.balances EXCEPT ![a] = @ - units], {a}, h)
  IN IF a \in Wallets /\ ledger.participants[a] # Null
       THEN [debited EXCEPT !.participants[a].lastSeen = h]
       ELSE debited

EmptyBlock == Seal(ledger)

Transfer(a, b, units) ==
  /\ ledger.balances[a] >= units
  /\ Seal(Credit(Signed(a, units, height + 1), Only(b, units), height + 1))

(* The sponsor a registers b, bond locked.                                 *)
Register(a, b) ==
  /\ ledger.balances[a] >= BondMicro
  /\ ledger.participants[b] = Null
  /\ Seal([Signed(a, BondMicro, height + 1) EXCEPT
             !.participants[b] = [sponsor |-> a, bond |-> BondMicro,
                                  registered |-> height + 1, lastSeen |-> height + 1]])

Unregister(a) ==
  /\ ledger.participants[a] # Null
  /\ LET record == ledger.participants[a]
         gone   == [Signed(a, 0, height + 1) EXCEPT !.participants[a] = Null]
     IN Seal(Credit(gone, Only(record.sponsor, record.bond), height + 1))

Heartbeat(a) ==
  /\ ledger.participants[a] # Null
  /\ Seal(Signed(a, 0, height + 1))

Next ==
  \/ EmptyBlock
  \/ \E a \in Signers, b \in Addresses, units \in Amounts : a # b /\ Transfer(a, b, units)
  \/ \E a \in Signers, b \in Wallets : Register(a, b)
  \/ \E a \in Signers \cap Wallets : Unregister(a) \/ Heartbeat(a)

Spec == Init /\ [][Next]_vars

-----------------------------------------------------------------------------

Bonds == Total([a \in Wallets |-> IF ledger.participants[a] = Null THEN 0
                                  ELSE ledger.participants[a].bond])

(* The units of a pool that no address holds.                              *)
Unheld(pool, units) == IF pool = Treasury THEN units ELSE 0

(* Balances, bonds and pools are together what was minted, to the unit:    *)
(* split, rewards, payouts and their roundings create and lose nothing     *)
(* (docs/protocol.md: "These transfers conserve the complete minted        *)
(* amount; they do not mint additional SPRG beyond the block's recorded    *)
(* total").                                                                *)
MintIsConserved ==
  /\ Total(ledger.balances) + Bonds + Unheld(NodePool, meta.nodePool)
       + Unheld(HolderPool, meta.holderPool) = meta.minted
  /\ meta.supply = InitialSupply + meta.minted

(* Every address's average, from its pruned history, is the average of the *)
(* balances it really had after the blocks of the window (height 0: none). *)
AverageIsExact ==
  \A a \in Addresses :
    LET start == WindowStart(height)
        real  == Total([h \in {k \in start..height : k > 0} |-> past[h][a]])
    IN HolderAverages(ledger, height)[a] = real \div (height - start + 1)

Units(txs) == Total([t \in txs |-> t.units])

CreditsWhatItLists ==
  EmptyBlock =>
    \A a \in Addresses \ {NodePool, HolderPool} :
      ledger'.balances[a] - ledger.balances[a]
        = Units({t \in MintTxs(ledger, height + 1) : t.to = a})

(* What a block lists for a wallet is what the wallet gains by it, to the  *)
(* unit, whatever maturities, payouts and roundings there are.  The pools' *)
(* addresses are excepted: accruals to a pool that is the treasury's are   *)
(* listed although no balance moves, and payouts out of a pool are not     *)
(* (blockchain.js, buildMintTxs).                                          *)
ListedIsCredited == [][CreditsWhatItLists]_vars

(* Nothing of the emission is lost to rounding: what was minted and what   *)
(* the accumulator keeps are the sum of supply times rate over the blocks. *)
EmissionIsExact == meta.minted * PPM * BlocksPerYear + meta.mintAcc = owed

=============================================================================
