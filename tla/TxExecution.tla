---------------------------- MODULE TxExecution ----------------------------
(***************************************************************************)
(* The loop of applyUserTxs (server/lib/blockchain.js): the user           *)
(* transactions of a block are applied one after the other to the ledger.  *)
(* The producer runs it on the transactions it selected from its mempool,  *)
(* an observer on the transactions of a block it downloaded; each of them  *)
(* takes the actions of this module on its own variables.  One step is one *)
(* iteration of the loop.                                                  *)
(*                                                                         *)
(* A transaction is identified with its canonical fields, as its txid is   *)
(* the hash of them, and its signer is its field from (admission refuses   *)
(* any other).  The loop's cachedNonce is not modelled: it is written      *)
(* together with the ledger's nonce and always equal to it.                *)
(***************************************************************************)
EXTENDS Integers, Sequences, FiniteSets

CONSTANTS
  Accounts,                  \* the addresses
  Treasury,                  \* rewards.treasuryAddress, the fee recipient
  BondMicro,                 \* economics.participation.bondMicro
  ActiveWindowBlocks,        \* economics.participation.activeWindowBlocks
  MaxSponsoredParticipants,  \* economics.participation.maxSponsoredParticipants
  GenesisOperator,           \* the account that may register itself for free
  GenesisFreeBlocks,         \* the height from which it may not
  Null                       \* an absent value

ASSUME ExecutionAssumption ==
  /\ IsFiniteSet(Accounts)
  /\ Treasury \in Accounts
  /\ GenesisOperator \in Accounts
  /\ BondMicro \in Nat
  /\ ActiveWindowBlocks \in Nat
  /\ MaxSponsoredParticipants \in Nat
  /\ GenesisFreeBlocks \in Nat
  /\ Null \notin Accounts
  /\ Null \notin Nat
  /\ Null \notin [sponsor : Accounts, bond : Nat,
                  registeredHeight : Nat, lastSeenHeight : Nat]

VARIABLES
  ledger,           \* balances, nonces and participant records
  genesisFreeUsed,  \* meta.genesisFreeUsed
  height,           \* the height of the block being applied
  todo,             \* the transactions the loop has not reached yet
  cachedBalance,    \* the loop's balance per signer, Null before its first debit
  applied           \* the transactions applied so far

execVars == <<ledger, genesisFreeUsed, height, todo, cachedBalance, applied>>

-----------------------------------------------------------------------------

TxTypes ==
  {"transfer", "register_participant", "unregister_participant", "heartbeat"}

Txs == [type : TxTypes, from : Accounts,
        to : Accounts \cup {Null}, participant : Accounts \cup {Null},
        amount : Nat, fee : Nat, nonce : Nat]

ParticipantRecords ==
  [sponsor : Accounts, bond : Nat, registeredHeight : Nat, lastSeenHeight : Nat]

Ledgers == [balances : [Accounts -> Nat],
            nonces : [Accounts -> Nat],
            participants : [Accounts -> ParticipantRecords \cup {Null}]]

Registered(l, a) == l.participants[a] # Null

(* An account is active while it was last seen within the activity window. *)
ActiveParticipants(l, h) ==
  {a \in Accounts : /\ Registered(l, a)
                    /\ l.participants[a].lastSeenHeight >= h - ActiveWindowBlocks}

SponsoredActive(l, sponsor, h) ==
  {a \in ActiveParticipants(l, h) : l.participants[a].sponsor = sponsor}

Credit(l, a, units) == [l EXCEPT !.balances[a] = @ + units]

(* What the state root commits to: balances and participant records (and   *)
(* stakes, which no transaction changes), but not the nonces.              *)
StateRoot(l) == [balances |-> l.balances, participants |-> l.participants]

-----------------------------------------------------------------------------

(* The balance the loop believes the signer has: the one it left after the *)
(* signer's previous debit in this block, else the ledger's.               *)
Spendable(a) ==
  IF cachedBalance[a] = Null THEN ledger.balances[a] ELSE cachedBalance[a]

GenesisFree(tx) ==
  /\ tx.type = "register_participant"
  /\ ~genesisFreeUsed
  /\ height < GenesisFreeBlocks
  /\ tx.from = GenesisOperator
  /\ tx.participant = tx.from

BondDue(tx) ==
  IF tx.type = "register_participant" /\ ~GenesisFree(tx) THEN BondMicro ELSE 0

Cost(tx) == tx.amount + tx.fee + BondDue(tx)

\* Mutant of Seen: the record is renewed, its registration height with it.
SeenAsNew(record) ==
  IF record = Null THEN Null
  ELSE [record EXCEPT !.lastSeenHeight = height, !.registeredHeight = height]

(* A participant is seen whenever it signs.                                *)
Seen(record) ==
  IF record = Null THEN Null ELSE [record EXCEPT !.lastSeenHeight = height]

(* The ledger after the debit every funded transaction starts with.        *)
Debited(tx) ==
  [ledger EXCEPT !.balances[tx.from] = Spendable(tx.from) - Cost(tx),
                 !.participants[tx.from] = Seen(ledger.participants[tx.from])]

(* What a transaction's type asks of the ledger, tested after the debit.   *)
Effective(tx) ==
  LET l == Debited(tx) IN
  CASE tx.type = "transfer" -> tx.to # Null /\ tx.amount > 0
    [] tx.type = "register_participant" ->
         /\ tx.participant # Null
         /\ ~Registered(l, tx.participant)
         /\ Cardinality(SponsoredActive(l, tx.from, height)) < MaxSponsoredParticipants
    [] tx.type = "unregister_participant" -> Registered(l, tx.from)
    [] tx.type = "heartbeat" -> TRUE

\* Mutant of Funded: a balance that just covers the cost is refused.
FundedStrictly(tx) ==
  /\ tx.nonce = ledger.nonces[tx.from]
  /\ Spendable(tx.from) > Cost(tx)

Funded(tx) ==
  /\ tx.nonce = ledger.nonces[tx.from]
  /\ Spendable(tx.from) >= Cost(tx)

NextTx(tx) ==
  /\ todo # <<>>
  /\ tx = Head(todo)
  /\ todo' = Tail(todo)
  /\ UNCHANGED height

Debit(tx) ==
  cachedBalance' = [cachedBalance EXCEPT ![tx.from] = Spendable(tx.from) - Cost(tx)]

\* Mutant of Applied: the nonce stays.
AppliedWithoutNonce(tx, l) ==
  /\ Debit(tx)
  /\ ledger' = Credit(l, Treasury, tx.fee)
  /\ applied' = Append(applied, tx)

(* The end of an iteration that applied tx, with l the ledger its type     *)
(* produced: the fee is credited, the nonce advances, tx enters the block. *)
Applied(tx, l) ==
  /\ Debit(tx)
  /\ ledger' = [Credit(l, Treasury, tx.fee) EXCEPT !.nonces[tx.from] = @ + 1]
  /\ applied' = Append(applied, tx)

-----------------------------------------------------------------------------

(* The nonce is not the expected one, or the signer cannot pay: skipped.   *)
SkipTx(tx) ==
  /\ NextTx(tx)
  /\ ~Funded(tx)
  /\ UNCHANGED <<ledger, genesisFreeUsed, cachedBalance, applied>>

(* The debit is made, then the type's own test fails and the iteration is  *)
(* left: neither the nonce nor the block records it.                       *)
AbandonTx(tx) ==
  /\ NextTx(tx)
  /\ Funded(tx)
  /\ ~Effective(tx)
  /\ Debit(tx)
  /\ ledger' = Debited(tx)
  /\ UNCHANGED <<genesisFreeUsed, applied>>

ApplyTransfer(tx) ==
  /\ tx.type = "transfer"
  /\ NextTx(tx)
  /\ Funded(tx)
  /\ Effective(tx)
  /\ Applied(tx, Credit(Debited(tx), tx.to, tx.amount))
  /\ UNCHANGED genesisFreeUsed

ApplyRegister(tx) ==
  /\ tx.type = "register_participant"
  /\ NextTx(tx)
  /\ Funded(tx)
  /\ Effective(tx)
  /\ Applied(tx, [Debited(tx) EXCEPT !.participants[tx.participant] =
                    [sponsor |-> tx.from, bond |-> BondDue(tx),
                     registeredHeight |-> height, lastSeenHeight |-> height]])
  /\ genesisFreeUsed' = (genesisFreeUsed \/ GenesisFree(tx))

\* Mutant of ApplyUnregister: the bond is returned and the record is kept.
UnregisterKeepingRecord(tx) ==
  /\ tx.type = "unregister_participant"
  /\ NextTx(tx)
  /\ Funded(tx)
  /\ Effective(tx)
  /\ LET record == ledger.participants[tx.from]
     IN  Applied(tx, Credit(Debited(tx), record.sponsor, record.bond))
  /\ UNCHANGED genesisFreeUsed

ApplyUnregister(tx) ==
  /\ tx.type = "unregister_participant"
  /\ NextTx(tx)
  /\ Funded(tx)
  /\ Effective(tx)
  /\ LET record == ledger.participants[tx.from]
     IN  Applied(tx, Credit([Debited(tx) EXCEPT !.participants[tx.from] = Null],
                            record.sponsor, record.bond))
  /\ UNCHANGED genesisFreeUsed

ApplyHeartbeat(tx) ==
  /\ tx.type = "heartbeat"
  /\ NextTx(tx)
  /\ Funded(tx)
  /\ Applied(tx, Debited(tx))
  /\ UNCHANGED genesisFreeUsed

(* One iteration of the loop.                                              *)
ExecuteTx ==
  \E tx \in IF todo = <<>> THEN {} ELSE {Head(todo)} :
    \/ SkipTx(tx)
    \/ AbandonTx(tx)
    \/ ApplyTransfer(tx)
    \/ ApplyRegister(tx)
    \/ ApplyUnregister(tx)
    \/ ApplyHeartbeat(tx)

(* The loop's locals when no block is being applied.                       *)
NoCache == [a \in Accounts |-> Null]

(* The loop starts on the transactions txs.                                *)
BeginExecution(txs, h) ==
  /\ todo' = txs
  /\ height' = h
  /\ cachedBalance' = NoCache
  /\ applied' = <<>>

ExecTypeOK ==
  /\ ledger \in Ledgers
  /\ genesisFreeUsed \in BOOLEAN
  /\ height \in Nat
  /\ todo \in Seq(Txs)
  /\ cachedBalance \in [Accounts -> Nat \cup {Null}]
  /\ applied \in Seq(Txs)

(* The balance the loop has cached for a signer never exceeds the signer's *)
(* balance in the ledger: a stale entry can lose credits, never invent any. *)
CacheNeverAhead ==
  \A a \in Accounts : cachedBalance[a] # Null => cachedBalance[a] <= ledger.balances[a]
=============================================================================
