------------------------------ MODULE Producer ------------------------------
(***************************************************************************)
(* The block producer: admission of signed transactions into the mempool   *)
(* (server/routes/rpc.js), expiry, selection, execution and persistence of *)
(* blocks (server/lib/blockchain.js, mineNextBlock), the pause that a      *)
(* failed invariant check causes, and the loss of everything in memory     *)
(* when the process ends.                                                  *)
(*                                                                         *)
(* mineNextBlock is synchronous: between StartBlock and the step that ends *)
(* the block, pc is not "idle" and nothing but the end of the process      *)
(* comes in between.  Storage is SQLite: putBlock is one transaction.      *)
(***************************************************************************)
EXTENDS TxExecution, FiniteSetsExt, Functions

CONSTANTS
  InitialLedger,             \* the ledger loaded at the model's start
  Clients,                   \* the accounts whose owners submit transactions
  Amounts, Fees,             \* the amounts and fees they use
  EnabledTypes,              \* the transaction types they use
  MinFeeMicro,               \* tx.minFeeMicro
  GasBlockLimit,             \* gas.blockLimit
  SortMode,                  \* mempool.sort: "fee" or "fifo"
  MaxTransactions,           \* mempool.maxTransactions
  MaxTransactionsPerSender,  \* mempool.maxTransactionsPerSender
  MaxFutureNonceGap,         \* mempool.maxFutureNonceGap
  ParticipantUnits,          \* minted to the active participants in a block
  TreasuryUnits,             \* minted to the treasury in a block
  MaxHeight,                 \* bound: the blocks mined
  MaxExpiries,               \* bound: the transactions that expire
  MaxFaults                  \* bound: failed block checks and process ends

ASSUME ProducerAssumption ==
  /\ InitialLedger \in Ledgers
  /\ Clients \subseteq Accounts
  /\ Amounts \subseteq Nat
  /\ Fees \subseteq Nat
  /\ EnabledTypes \subseteq TxTypes
  /\ SortMode \in {"fee", "fifo"}
  /\ {MinFeeMicro, ParticipantUnits, TreasuryUnits} \subseteq Nat
  /\ {GasBlockLimit, MaxTransactions, MaxTransactionsPerSender,
      MaxFutureNonceGap} \subseteq Nat \ {0}
  /\ {MaxHeight, MaxExpiries, MaxFaults} \subseteq Nat

VARIABLES
  mempool,    \* the pending transactions, each with the bond admission expects
  selected,   \* the transactions chosen for the block, in order
  pc,         \* "idle", or the phase of mineNextBlock
  snapshot,   \* preLedger and preMeta of mineNextBlock, Null outside it
  chain,      \* the blocks in storage after genesis
  stored,     \* the ledger and meta in storage
  paused,     \* invariantHealth.miningPausedForSafety
  expiries,   \* how many transactions have expired
  faults      \* how many checks failed or processes ended

poolVars == <<mempool, selected>>
nodeVars == <<pc, snapshot, paused>>
diskVars == <<chain, stored>>
boundVars == <<expiries, faults>>
vars == <<execVars, poolVars, nodeVars, diskVars, boundVars>>

-----------------------------------------------------------------------------

Entries == [tx : Txs, bond : Nat]

Pending(a) == {e \in mempool : e.tx.from = a}

PendingNonces(a) == {e.tx.nonce : e \in Pending(a)}

(* Of the pending transactions of a with nonce n, the one that pays most.  *)
BestPending(a, n) ==
  CHOOSE e \in {f \in Pending(a) : f.tx.nonce = n} :
    \A f \in Pending(a) : f.tx.nonce = n => f.tx.fee <= e.tx.fee

(* The transactions of a that can execute in order from the ledger's nonce. *)
Executable(a) ==
  {BestPending(a, n) : n \in {m \in PendingNonces(a) :
     /\ m >= ledger.nonces[a]
     /\ \A k \in ledger.nonces[a] .. m : k \in PendingNonces(a)}}

PendingSpend(a) ==
  MapThenSumSet(LAMBDA e : e.tx.amount + e.tx.fee + e.bond, Executable(a))

NextNonce(a) ==
  IF Pending(a) = {} THEN ledger.nonces[a] ELSE Max(PendingNonces(a)) + 1

LatestHeight == Len(chain)

(* The bond as admission sees it: with the height of the latest block, not *)
(* of the block the transaction will be in.                                *)
AdmissionGenesisFree(tx) ==
  /\ tx.type = "register_participant"
  /\ ~genesisFreeUsed
  /\ LatestHeight < GenesisFreeBlocks
  /\ tx.from = GenesisOperator
  /\ tx.participant = tx.from

AdmissionBond(tx) ==
  IF tx.type = "register_participant" /\ ~AdmissionGenesisFree(tx)
  THEN BondMicro ELSE 0

Confirmed(tx) == \E i \in DOMAIN chain : \E j \in DOMAIN chain[i].txs : chain[i].txs[j] = tx

\* Mutant of Affordable: every transaction is looked at alone.
AffordableAlone(tx) ==
  ledger.balances[tx.from] >= tx.amount + tx.fee + AdmissionBond(tx)

(* The account's balance covers the transaction and what it has pending.   *)
Affordable(tx) ==
  ledger.balances[tx.from] >=
    tx.amount + tx.fee + AdmissionBond(tx) + PendingSpend(tx.from)

(* The checks of POST /tx, in the order of the handler.                    *)
Admissible(tx) ==
  /\ tx.type = "transfer" => tx.to # Null /\ tx.amount > 0 /\ tx.participant = Null
  /\ tx.type # "transfer" => tx.to = Null /\ tx.amount = 0
  /\ tx.type = "register_participant" =>
       /\ tx.participant # Null
       /\ ~Registered(ledger, tx.participant)
       /\ Cardinality(SponsoredActive(ledger, tx.from, LatestHeight))
            < MaxSponsoredParticipants
  /\ tx.type \in {"unregister_participant", "heartbeat"} =>
       tx.participant = Null /\ Registered(ledger, tx.from)
  /\ AdmissionGenesisFree(tx) \/ tx.fee >= MinFeeMicro
  /\ Affordable(tx)
  /\ tx.nonce <= ledger.nonces[tx.from] + MaxFutureNonceGap
  /\ tx.nonce = NextNonce(tx.from)
  /\ \A e \in mempool : e.tx # tx
  /\ ~Confirmed(tx)
  /\ Cardinality(Pending(tx.from)) < MaxTransactionsPerSender
  /\ Cardinality(mempool) < MaxTransactions

(* What the owner of an account may submit: with any nonce it has used, the *)
(* next one, or one too far.                                               *)
Submissions(a) ==
  UNION {[type : {type}, from : {a},
          to : IF type = "transfer" THEN Accounts ELSE {Null},
          participant : IF type = "register_participant" THEN Accounts ELSE {Null},
          amount : IF type = "transfer" THEN Amounts ELSE {0},
          fee : Fees, nonce : 0 .. NextNonce(a) + 1] : type \in EnabledTypes}

-----------------------------------------------------------------------------

Init ==
  /\ ledger = InitialLedger
  /\ genesisFreeUsed = FALSE
  /\ height = 0
  /\ todo = <<>>
  /\ cachedBalance = NoCache
  /\ applied = <<>>
  /\ mempool = {}
  /\ selected = <<>>
  /\ pc = "idle"
  /\ snapshot = Null
  /\ chain = <<>>
  /\ stored = [ledger |-> InitialLedger, genesisFreeUsed |-> FALSE]
  /\ paused = FALSE
  /\ expiries = 0
  /\ faults = 0

Admit(tx) ==
  /\ pc = "idle"
  /\ Admissible(tx)
  /\ mempool' = mempool \cup {[tx |-> tx, bond |-> AdmissionBond(tx)]}
  /\ UNCHANGED <<execVars, selected, nodeVars, diskVars, boundVars>>

(* A transaction outlives its time to live.  An account's transactions     *)
(* were admitted in the order of their nonces and expire in that order.    *)
Expire(e) ==
  /\ pc = "idle"
  /\ expiries < MaxExpiries
  /\ \A f \in Pending(e.tx.from) : e.tx.nonce <= f.tx.nonce
  /\ mempool' = mempool \ {e}
  /\ expiries' = expiries + 1
  /\ UNCHANGED <<execVars, selected, nodeVars, diskVars, faults>>

StartBlock ==
  /\ pc = "idle"
  /\ ~paused
  /\ LatestHeight < MaxHeight
  /\ pc' = "select"
  /\ height' = LatestHeight + 1
  /\ snapshot' = [ledger |-> ledger, genesisFreeUsed |-> genesisFreeUsed]
  /\ UNCHANGED <<ledger, genesisFreeUsed, todo, cachedBalance, applied,
                 poolVars, paused, diskVars, boundVars>>

(* The next transaction of each account's chain of consecutive nonces.     *)
Candidates ==
  LET Taken(a) == Cardinality({i \in DOMAIN selected : selected[i].from = a})
      n(a) == ledger.nonces[a] + Taken(a)
  IN  {BestPending(a, n(a)) : a \in {b \in Accounts : n(b) \in PendingNonces(b)}}

(* One turn of the merge in selectMempoolTxs: the highest fee goes first,  *)
(* or the earliest timestamp, which is left out: any may have it.  A tie   *)
(* is broken by txid, a hash: any of the tied may come first.              *)
SelectTx(e) ==
  /\ pc = "select"
  /\ Len(selected) < GasBlockLimit
  /\ SortMode = "fee" => \A f \in Candidates : f.tx.fee <= e.tx.fee
  /\ selected' = Append(selected, e.tx)
  /\ UNCHANGED <<execVars, mempool, nodeVars, diskVars, boundVars>>

EndSelection ==
  /\ pc = "select"
  /\ Len(selected) = GasBlockLimit \/ Candidates = {}
  /\ pc' = "apply"
  /\ BeginExecution(selected, height)
  /\ UNCHANGED <<ledger, genesisFreeUsed, poolVars, snapshot, paused,
                 diskVars, boundVars>>

ExecuteBlock ==
  /\ pc = "apply"
  /\ ExecuteTx
  /\ UNCHANGED <<poolVars, nodeVars, diskVars, boundVars>>

-----------------------------------------------------------------------------

(* mintAndDistribute, for the units that reach accounts able to sign: the  *)
(* active participants share equally, the rest goes to the treasury.  The  *)
(* pools, held by system addresses until their payout, are in Issuance.    *)
Rewarded(l, h) ==
  LET active == ActiveParticipants(l, h)
      share == IF active = {} THEN 0 ELSE ParticipantUnits \div Cardinality(active)
      paid == [l EXCEPT !.balances =
                 [a \in Accounts |-> IF a \in active THEN @[a] + share ELSE @[a]]]
  IN  Credit(paid, Treasury,
             TreasuryUnits + ParticipantUnits - share * Cardinality(active))

Bonds(l) == [a \in Accounts |-> IF Registered(l, a) THEN l.participants[a].bond ELSE 0]

(* What the balances and the locked bonds add up to.                       *)
Circulating(l) == SumFunction(l.balances) + SumFunction(Bonds(l))

(* meta.totalSupplyUnits at a height.                                      *)
TotalSupply(h) ==
  Circulating(InitialLedger) + h * (ParticipantUnits + TreasuryUnits)

(* The loop's locals and the selection go when mineNextBlock returns.      *)
EndBlock ==
  /\ pc' = "idle"
  /\ selected' = <<>>
  /\ snapshot' = Null
  /\ BeginExecution(<<>>, 0)

(* The candidate block passes the fast checks, is stored with the ledger   *)
(* and meta in one transaction, and every selected transaction leaves the  *)
(* mempool, whether it was applied or not.                                 *)
SealBlock ==
  /\ pc = "apply"
  /\ todo = <<>>
  /\ LET l == Rewarded(ledger, height) IN
       /\ ledger' = l
       /\ chain' = Append(chain, [txs |-> applied, stateRoot |-> StateRoot(l)])
       /\ stored' = [ledger |-> l, genesisFreeUsed |-> genesisFreeUsed]
  /\ mempool' = {e \in mempool : \A i \in DOMAIN selected : selected[i] # e.tx}
  /\ EndBlock
  /\ UNCHANGED <<genesisFreeUsed, paused, boundVars>>

(* A fast check fails, for instance because the clock was set back behind  *)
(* the previous block's timestamp: ledger and meta are restored, mining is *)
(* paused (invariants.stopMiningOnFailure) and the mempool is kept.        *)
RejectBlock ==
  /\ pc = "apply"
  /\ todo = <<>>
  /\ faults < MaxFaults
  /\ ledger' = snapshot.ledger
  /\ genesisFreeUsed' = snapshot.genesisFreeUsed
  /\ paused' = TRUE
  /\ faults' = faults + 1
  /\ EndBlock
  /\ UNCHANGED <<mempool, diskVars, expiries>>

(* The full audit compares the ledger in memory with the latest block.     *)
AuditOk(l) == chain # <<>> => StateRoot(l) = chain[Len(chain)].stateRoot

(* GET /debug/invariants runs the full audit, which sets or ends the pause. *)
CheckInvariants ==
  /\ pc = "idle"
  /\ paused' = ~AuditOk(ledger)
  /\ UNCHANGED <<execVars, poolVars, pc, snapshot, diskVars, boundVars>>

(* The process ends at any moment, also because putBlock threw and nobody  *)
(* caught it, and is started again: memory is reloaded from storage, the   *)
(* mempool is gone, and the startup audit decides about the pause.         *)
Restart ==
  /\ faults < MaxFaults
  /\ ledger' = stored.ledger
  /\ genesisFreeUsed' = stored.genesisFreeUsed
  /\ mempool' = {}
  /\ paused' = ~AuditOk(stored.ledger)
  /\ faults' = faults + 1
  /\ EndBlock
  /\ UNCHANGED <<diskVars, expiries>>

Next ==
  \/ \E a \in Clients : \E tx \in Submissions(a) : Admit(tx)
  \/ \E e \in mempool : Expire(e)
  \/ StartBlock
  \/ \E e \in Candidates : SelectTx(e)
  \/ EndSelection
  \/ ExecuteBlock
  \/ SealBlock
  \/ RejectBlock
  \/ CheckInvariants
  \/ Restart

Spec == Init /\ [][Next]_vars

-----------------------------------------------------------------------------

Memory == [ledger |-> ledger, genesisFreeUsed |-> genesisFreeUsed]

TypeOK ==
  /\ ExecTypeOK
  /\ mempool \subseteq Entries
  /\ selected \in Seq(Txs)
  /\ pc \in {"idle", "select", "apply"}
  /\ snapshot \in [ledger : Ledgers, genesisFreeUsed : BOOLEAN] \cup {Null}
  /\ chain \in Seq([txs : Seq(Txs),
                    stateRoot : [balances : [Accounts -> Nat],
                                 participants : [Accounts -> ParticipantRecords \cup {Null}]]])
  /\ stored \in [ledger : Ledgers, genesisFreeUsed : BOOLEAN]
  /\ paused \in BOOLEAN
  /\ expiries \in Nat
  /\ faults \in Nat

(* Outside the execution of a block the state in memory is the state in    *)
(* storage, whose state root is the one the latest block commits to, after *)
(* every block that was stored, rejected or lost.                          *)
MemoryIsStored ==
  /\ pc # "apply" => Memory = stored
  /\ AuditOk(stored.ledger)

(* No account has two confirmed transactions with the same nonce: nothing  *)
(* is executed twice, whatever was replayed after an expiry, a rejected    *)
(* block or a restart.                                                     *)
NoDoubleConfirm ==
  \A i, k \in DOMAIN chain : \A j \in DOMAIN chain[i].txs, m \in DOMAIN chain[k].txs :
    /\ chain[i].txs[j].from = chain[k].txs[m].from
    /\ chain[i].txs[j].nonce = chain[k].txs[m].nonce
    => i = k /\ j = m

(* What keeps a confirmed transaction from being admitted, selected or     *)
(* applied again: its nonce is behind its signer's in storage, at every    *)
(* step of a block, and the block in progress only uses nonces from the    *)
(* stored one up to the ledger's, each once.                               *)
ReplayProtection ==
  /\ \A i \in DOMAIN chain : \A j \in DOMAIN chain[i].txs :
       LET tx == chain[i].txs[j] IN tx.nonce < stored.ledger.nonces[tx.from]
  /\ \A j \in DOMAIN applied :
       LET tx == applied[j] IN
         /\ stored.ledger.nonces[tx.from] <= tx.nonce
         /\ tx.nonce < ledger.nonces[tx.from]
  /\ \A j, k \in DOMAIN applied :
       applied[j].from = applied[k].from /\ applied[j].nonce = applied[k].nonce => j = k
  /\ \A a \in Accounts : stored.ledger.nonces[a] <= ledger.nonces[a]

(* No pending transaction is further ahead of its signer's stored nonce    *)
(* than the gap admission allows, whatever was expired, mined or lost.     *)
PendingWithinGap ==
  \A e \in mempool : e.tx.nonce <= stored.ledger.nonces[e.tx.from] + MaxFutureNonceGap

(* Admission never lets two transactions of an account wait under the same *)
(* nonce, so the fee comparison between such rivals never decides.         *)
OneTxPerNonce ==
  \A e, f \in mempool : e.tx.from = f.tx.from /\ e.tx.nonce = f.tx.nonce => e = f

(* Balances and locked bonds never exceed the supply: no order of debits,  *)
(* fees, refunds and stale cached balances creates units.                  *)
NoInflation == Circulating(ledger) <= TotalSupply(LatestHeight)

(* What mineNextBlock holds in its locals in each of its phases; a block   *)
(* that is rejected finds in the snapshot what storage holds.              *)
BlockInProgress ==
  /\ pc = "idle" => selected = <<>> /\ snapshot = Null
  /\ pc # "idle" => snapshot = stored
  /\ pc # "apply" => todo = <<>> /\ applied = <<>> /\ cachedBalance = NoCache

(* The invariant that is inductive: ProducerProofs proves it.              *)
ProducerInv ==
  /\ TypeOK
  /\ BlockInProgress
  /\ MemoryIsStored
  /\ OneTxPerNonce
  /\ PendingWithinGap
  /\ ReplayProtection
  /\ NoDoubleConfirm
  /\ CacheNeverAhead

(* The account can pay everything it has pending in executable order, as   *)
(* admission counts it, after any number of blocks, expiries and restarts. *)
PendingFunded ==
  pc = "idle" => \A a \in Accounts : PendingSpend(a) <= ledger.balances[a]

(* A transaction that was selected for a block leaves the mempool only by  *)
(* being confirmed in it.                                                  *)
SelectedAreConfirmed ==
  [][chain' # chain =>
       \A e \in mempool \ mempool' :
         \E j \in DOMAIN chain'[Len(chain')].txs : chain'[Len(chain')].txs[j] = e.tx]_vars

(* While a participant stays registered, nothing changes its sponsor, its  *)
(* bond or its registration height, which its reward maturity counts from. *)
RegistrationKept ==
  [][pc = "apply" /\ pc' = "apply" =>
       \A a \in Accounts : Registered(ledger, a) /\ Registered(ledger', a) =>
         LET old == ledger.participants[a]
             new == ledger'.participants[a]
         IN  /\ new.sponsor = old.sponsor
             /\ new.bond = old.bond
             /\ new.registeredHeight = old.registeredHeight]_vars
=============================================================================
