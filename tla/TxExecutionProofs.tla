------------------------- MODULE TxExecutionProofs -------------------------
(***************************************************************************)
(* What one iteration of the loop over a block's transactions preserves,   *)
(* whoever runs it.                                                        *)
(***************************************************************************)
EXTENDS TxExecution, FiniteSetTheorems, TLAPS

(* Crediting an account keeps a ledger a ledger, and its other parts.      *)
LEMMA CreditLemma ==
  ASSUME NEW l \in Ledgers, NEW a \in Accounts, NEW units \in Nat
  PROVE  /\ Credit(l, a, units) \in Ledgers
         /\ Credit(l, a, units).nonces = l.nonces
         /\ Credit(l, a, units).participants = l.participants
         /\ Credit(l, a, units).balances = [l.balances EXCEPT ![a] = @ + units]
BY DEF Credit, Ledgers

(* A transaction costs a natural number of units.                          *)
LEMMA CostType ==
  ASSUME NEW tx \in Txs
  PROVE  Cost(tx) \in Nat
BY ExecutionAssumption DEF Cost, BondDue, Txs

(* The signer of a funded transaction can spend a number of units that     *)
(* covers its cost.                                                        *)
LEMMA SpendableLemma ==
  ASSUME ExecTypeOK, NEW tx \in Txs, Funded(tx)
  PROVE  /\ Spendable(tx.from) \in Nat
         /\ Spendable(tx.from) - Cost(tx) \in Nat
<1>1. tx.from \in Accounts
  BY DEF Txs
<1>2. ledger.balances \in [Accounts -> Nat] /\ cachedBalance \in [Accounts -> Nat \cup {Null}]
  BY DEF ExecTypeOK, Ledgers
<1>3. Spendable(tx.from) \in Nat
  BY <1>1, <1>2 DEF Spendable
<1>4. QED
  BY <1>3, CostType DEF Funded

(* The debit of a funded transaction keeps the ledger a ledger; of the     *)
(* participant records it changes only when one was last seen.             *)
LEMMA DebitedLemma ==
  ASSUME ExecTypeOK, NEW tx \in Txs, Funded(tx)
  PROVE  /\ Debited(tx) \in Ledgers
         /\ Debited(tx).nonces = ledger.nonces
         /\ Debited(tx).balances =
              [ledger.balances EXCEPT ![tx.from] = Spendable(tx.from) - Cost(tx)]
         /\ \A a \in Accounts :
              /\ Registered(Debited(tx), a) <=> Registered(ledger, a)
              /\ Registered(ledger, a) =>
                   Debited(tx).participants[a] =
                     [ledger.participants[a] EXCEPT
                        !.lastSeenHeight = Debited(tx).participants[a].lastSeenHeight]
<1> DEFINE rest == Spendable(tx.from) - Cost(tx)
           old == ledger.participants[tx.from]
<1>1. rest \in Nat /\ tx.from \in Accounts /\ ledger \in Ledgers /\ height \in Nat
  BY SpendableLemma DEF Txs, ExecTypeOK
<1>2. /\ old \in ParticipantRecords \cup {Null}
      /\ Seen(old) \in ParticipantRecords \cup {Null}
      /\ Seen(old) = Null <=> old = Null
      /\ old # Null => Seen(old) = [old EXCEPT !.lastSeenHeight = Seen(old).lastSeenHeight]
  BY <1>1, ExecutionAssumption DEF Ledgers, ParticipantRecords, Seen
<1> HIDE DEF rest
<1>3. /\ Debited(tx).balances = [ledger.balances EXCEPT ![tx.from] = rest]
      /\ Debited(tx).nonces = ledger.nonces
      /\ Debited(tx).participants = [ledger.participants EXCEPT ![tx.from] = Seen(old)]
      /\ Debited(tx) = [balances |-> Debited(tx).balances,
                        nonces |-> Debited(tx).nonces,
                        participants |-> Debited(tx).participants]
  <2> DEFINE new == Seen(old)
  <2> HIDE DEF new
  <2>1. Debited(tx) = [ledger EXCEPT !.balances[tx.from] = rest,
                                     !.participants[tx.from] = new]
    BY DEF Debited, rest, new
  <2>2. Debited(tx).balances = [ledger.balances EXCEPT ![tx.from] = rest]
    BY <1>1, <2>1 DEF Ledgers
  <2>3. Debited(tx).nonces = ledger.nonces
    BY <1>1, <2>1 DEF Ledgers
  <2>4. Debited(tx).participants = [ledger.participants EXCEPT ![tx.from] = new]
    BY <1>1, <2>1 DEF Ledgers
  <2>5. Debited(tx) = [balances |-> Debited(tx).balances,
                       nonces |-> Debited(tx).nonces,
                       participants |-> Debited(tx).participants]
    BY <1>1, <2>1 DEF Ledgers
  <2>6. QED
    BY <2>2, <2>3, <2>4, <2>5 DEF new
<1> HIDE DEF old
<1>4. Debited(tx) \in Ledgers
  BY <1>1, <1>2, <1>3 DEF Ledgers
<1>5. ASSUME NEW a \in Accounts
      PROVE  /\ Registered(Debited(tx), a) <=> Registered(ledger, a)
             /\ Registered(ledger, a) =>
                  Debited(tx).participants[a] =
                    [ledger.participants[a] EXCEPT
                       !.lastSeenHeight = Debited(tx).participants[a].lastSeenHeight]
  <2>1. ledger.participants \in [Accounts -> ParticipantRecords \cup {Null}]
    BY <1>1 DEF Ledgers
  <2>2. CASE a = tx.from
    BY <1>1, <1>2, <1>3, <2>1, <2>2 DEF Registered, old
  <2>3. CASE a # tx.from
    BY <1>1, <1>3, <2>1, <2>3 DEF Registered, ParticipantRecords
  <2>4. QED
    BY <2>2, <2>3
<1>6. QED
  BY <1>3, <1>4, <1>5 DEF rest

-----------------------------------------------------------------------------

(* What the end of an iteration does that applied tx with the ledger l.    *)
LEMMA AppliedLemma ==
  ASSUME ExecTypeOK, NEW tx \in Txs, Funded(tx),
         NEW l \in Ledgers, l.nonces = ledger.nonces,
         Applied(tx, l)
  PROVE  /\ ledger' \in Ledgers
         /\ ledger'.nonces = [ledger.nonces EXCEPT ![tx.from] = @ + 1]
         /\ ledger'.participants = l.participants
         /\ ledger'.balances = [l.balances EXCEPT ![Treasury] = @ + tx.fee]
         /\ cachedBalance' \in [Accounts -> Nat \cup {Null}]
         /\ applied' = Append(applied, tx)
         /\ applied' \in Seq(Txs)
<1> DEFINE paid == Credit(l, Treasury, tx.fee)
<1>1. tx.from \in Accounts /\ tx.fee \in Nat /\ Treasury \in Accounts
  BY ExecutionAssumption DEF Txs
<1>2. /\ paid \in Ledgers
      /\ paid.nonces = l.nonces
      /\ paid.participants = l.participants
      /\ paid.balances = [l.balances EXCEPT ![Treasury] = @ + tx.fee]
  BY <1>1, CreditLemma
<1>3. ledger' = [paid EXCEPT !.nonces[tx.from] = @ + 1]
  BY DEF Applied
<1> HIDE DEF paid
<1>4. /\ ledger' \in Ledgers
      /\ ledger'.nonces = [paid.nonces EXCEPT ![tx.from] = @ + 1]
      /\ ledger'.participants = paid.participants
      /\ ledger'.balances = paid.balances
  BY <1>1, <1>2, <1>3 DEF Ledgers
<1>5. cachedBalance' \in [Accounts -> Nat \cup {Null}]
  BY SpendableLemma DEF Applied, Debit, ExecTypeOK
<1>6. applied' = Append(applied, tx) /\ applied' \in Seq(Txs)
  BY DEF Applied, ExecTypeOK
<1>7. QED
  BY <1>2, <1>4, <1>5, <1>6

(* The ledgers the four types produce before the fee is credited.          *)
LEMMA TransferLedger ==
  ASSUME ExecTypeOK, NEW tx \in Txs, Funded(tx), tx.type = "transfer", Effective(tx),
         NEW l, l = Credit(Debited(tx), tx.to, tx.amount)
  PROVE  /\ l \in Ledgers
         /\ l.nonces = ledger.nonces
         /\ l.participants = Debited(tx).participants
         /\ \A a \in Accounts : l.balances[a] >= Debited(tx).balances[a]
<1>1. Debited(tx) \in Ledgers /\ Debited(tx).nonces = ledger.nonces
  BY DebitedLemma
<1>2. tx.to \in Accounts /\ tx.amount \in Nat
  BY DEF Effective, Txs
<1>3. Debited(tx).balances \in [Accounts -> Nat]
  BY <1>1 DEF Ledgers
<1>4. /\ l \in Ledgers
      /\ l.nonces = Debited(tx).nonces
      /\ l.participants = Debited(tx).participants
      /\ l.balances = [Debited(tx).balances EXCEPT ![tx.to] = @ + tx.amount]
  BY <1>1, <1>2, CreditLemma
<1>5. QED
  BY <1>1, <1>2, <1>3, <1>4

(* A registration adds one record and leaves the others to the debit.      *)
LEMMA RegisterLedger ==
  ASSUME ExecTypeOK, NEW tx \in Txs, Funded(tx),
         tx.type = "register_participant", Effective(tx),
         NEW l,
         l = [Debited(tx) EXCEPT !.participants[tx.participant] =
                [sponsor |-> tx.from, bond |-> BondDue(tx),
                 registeredHeight |-> height, lastSeenHeight |-> height]]
  PROVE  /\ l \in Ledgers
         /\ l.nonces = ledger.nonces
         /\ l.balances = Debited(tx).balances
         /\ tx.participant \in Accounts
         /\ ~Registered(ledger, tx.participant)
         /\ \A a \in Accounts \ {tx.participant} :
              l.participants[a] = Debited(tx).participants[a]
<1>1. Debited(tx) \in Ledgers /\ Debited(tx).nonces = ledger.nonces
  BY DebitedLemma
<1>2. tx.participant \in Accounts /\ ~Registered(Debited(tx), tx.participant)
  BY DEF Effective, Txs
<1>3. ~Registered(ledger, tx.participant)
  BY <1>2, DebitedLemma
<1> DEFINE record == [sponsor |-> tx.from, bond |-> BondDue(tx),
                      registeredHeight |-> height, lastSeenHeight |-> height]
<1>4. record \in ParticipantRecords
  BY ExecutionAssumption DEF ParticipantRecords, Txs, BondDue, ExecTypeOK
<1>5. l = [Debited(tx) EXCEPT !.participants[tx.participant] = record]
  OBVIOUS
<1> HIDE DEF record
<1>6. QED
  BY <1>1, <1>2, <1>3, <1>4, <1>5 DEF Ledgers

(* An unregistration removes the signer's record and only credits.         *)
LEMMA UnregisterLedger ==
  ASSUME ExecTypeOK, NEW tx \in Txs, Funded(tx),
         tx.type = "unregister_participant", Effective(tx),
         NEW l,
         l = Credit([Debited(tx) EXCEPT !.participants[tx.from] = Null],
                    ledger.participants[tx.from].sponsor,
                    ledger.participants[tx.from].bond)
  PROVE  /\ l \in Ledgers
         /\ l.nonces = ledger.nonces
         /\ \A a \in Accounts : l.balances[a] >= Debited(tx).balances[a]
         /\ l.participants[tx.from] = Null
         /\ \A a \in Accounts \ {tx.from} :
              l.participants[a] = Debited(tx).participants[a]
<1>1. Debited(tx) \in Ledgers /\ Debited(tx).nonces = ledger.nonces
  BY DebitedLemma
<1>2. tx.from \in Accounts
  BY DEF Txs
<1>3. Registered(ledger, tx.from)
  BY <1>2, DebitedLemma DEF Effective
<1> DEFINE record == ledger.participants[tx.from]
           left == [Debited(tx) EXCEPT !.participants[tx.from] = Null]
<1>4. record.sponsor \in Accounts /\ record.bond \in Nat
  BY <1>2, <1>3 DEF Registered, ExecTypeOK, Ledgers, ParticipantRecords
<1>5. /\ left \in Ledgers
      /\ left.nonces = ledger.nonces
      /\ left.balances = Debited(tx).balances
      /\ left.participants = [Debited(tx).participants EXCEPT ![tx.from] = Null]
  BY <1>1, <1>2 DEF Ledgers
<1>6. l = Credit(left, record.sponsor, record.bond)
  OBVIOUS
<1>7. Debited(tx).balances \in [Accounts -> Nat]
  BY <1>1 DEF Ledgers
<1> HIDE DEF record, left
<1>8. /\ l \in Ledgers
      /\ l.nonces = ledger.nonces
      /\ l.participants = left.participants
      /\ l.balances = [left.balances EXCEPT ![record.sponsor] = @ + record.bond]
  BY <1>4, <1>5, <1>6, CreditLemma
<1>9. \A a \in Accounts : l.balances[a] >= Debited(tx).balances[a]
  BY <1>4, <1>5, <1>7, <1>8
<1>10. Debited(tx).participants \in [Accounts -> ParticipantRecords \cup {Null}]
  BY <1>1 DEF Ledgers
<1>11. QED
  BY <1>2, <1>5, <1>8, <1>9, <1>10

-----------------------------------------------------------------------------

(* A step of the loop either applies the next transaction, which then has  *)
(* its signer's nonce and advances it, or leaves the nonces and the block  *)
(* alone.                                                                  *)
NonceStep(tx) ==
  \/ applied' = applied /\ ledger'.nonces = ledger.nonces
  \/ /\ tx.nonce = ledger.nonces[tx.from]
     /\ applied' = Append(applied, tx)
     /\ ledger'.nonces = [ledger.nonces EXCEPT ![tx.from] = @ + 1]

(* Who stays registered keeps its sponsor, bond and registration height.   *)
KeepsRegistrations ==
  \A a \in Accounts : Registered(ledger, a) /\ Registered(ledger', a) =>
    /\ ledger'.participants[a].sponsor = ledger.participants[a].sponsor
    /\ ledger'.participants[a].bond = ledger.participants[a].bond
    /\ ledger'.participants[a].registeredHeight = ledger.participants[a].registeredHeight

(* The cache follows the debit, and what comes after it only credits.      *)
LEMMA CacheLemma ==
  ASSUME ExecTypeOK, CacheNeverAhead, NEW tx \in Txs, Funded(tx), Debit(tx),
         ledger' \in Ledgers,
         \A a \in Accounts : ledger'.balances[a] >= Debited(tx).balances[a]
  PROVE  CacheNeverAhead'
<1>1. ledger.balances \in [Accounts -> Nat] /\ ledger'.balances \in [Accounts -> Nat]
  BY DEF ExecTypeOK, Ledgers
<1>2. cachedBalance \in [Accounts -> Nat \cup {Null}]
  BY DEF ExecTypeOK
<1>3. tx.from \in Accounts /\ Spendable(tx.from) - Cost(tx) \in Nat
  BY SpendableLemma DEF Txs
<1>4. Debited(tx).balances =
        [ledger.balances EXCEPT ![tx.from] = Spendable(tx.from) - Cost(tx)]
  BY DebitedLemma
<1>5. cachedBalance' =
        [cachedBalance EXCEPT ![tx.from] = Spendable(tx.from) - Cost(tx)]
  BY DEF Debit
<1>6. QED
  BY <1>1, <1>2, <1>3, <1>4, <1>5 DEF CacheNeverAhead

(* The debit alone keeps every registration.                               *)
LEMMA DebitedKeeps ==
  ASSUME ExecTypeOK, NEW tx \in Txs, Funded(tx), NEW a \in Accounts, Registered(ledger, a)
  PROVE  /\ Debited(tx).participants[a].sponsor = ledger.participants[a].sponsor
         /\ Debited(tx).participants[a].bond = ledger.participants[a].bond
         /\ Debited(tx).participants[a].registeredHeight
              = ledger.participants[a].registeredHeight
<1>1. ledger.participants[a] \in ParticipantRecords
  BY DEF ExecTypeOK, Ledgers, Registered
<1> DEFINE seen == Debited(tx).participants[a].lastSeenHeight
<1>2. Debited(tx).participants[a] =
        [ledger.participants[a] EXCEPT !.lastSeenHeight = seen]
  BY DebitedLemma
<1> HIDE DEF seen
<1>3. QED
  BY <1>1, <1>2 DEF ParticipantRecords

(* An iteration of the loop, whatever its outcome, keeps the types, the    *)
(* cache behind the ledger and the registrations, and treats the nonce and *)
(* the block together.                                                     *)
THEOREM ExecuteStep ==
  ASSUME ExecTypeOK, NEW tx, todo # <<>>, tx = Head(todo),
         \/ SkipTx(tx) \/ AbandonTx(tx) \/ ApplyTransfer(tx)
         \/ ApplyRegister(tx) \/ ApplyUnregister(tx) \/ ApplyHeartbeat(tx)
  PROVE  /\ tx \in Txs
         /\ ExecTypeOK'
         /\ CacheNeverAhead => CacheNeverAhead'
         /\ NonceStep(tx)
         /\ KeepsRegistrations
<1>1. tx \in Txs /\ Tail(todo) \in Seq(Txs)
  BY DEF ExecTypeOK
<1>2. CASE SkipTx(tx)
  BY <1>1, <1>2 DEF SkipTx, NextTx, ExecTypeOK, CacheNeverAhead, NonceStep,
                    KeepsRegistrations
<1>3. CASE AbandonTx(tx)
  <2>1. Funded(tx) /\ ledger' = Debited(tx) /\ Debit(tx)
    BY <1>3 DEF AbandonTx
  <2>2. ledger' \in Ledgers /\ ledger'.nonces = ledger.nonces
    BY <1>1, <2>1, DebitedLemma
  <2>3. ExecTypeOK'
    BY <1>1, <1>3, <2>1, <2>2, SpendableLemma DEF AbandonTx, NextTx, Debit, ExecTypeOK
  <2>4. CacheNeverAhead => CacheNeverAhead'
    <3>1. \A a \in Accounts : ledger'.balances[a] >= Debited(tx).balances[a]
      BY <2>1, <2>2 DEF Ledgers
    <3>2. QED
      BY <1>1, <2>1, <2>2, <3>1, CacheLemma
  <2>5. NonceStep(tx)
    BY <1>3, <2>2 DEF AbandonTx, NonceStep
  <2>6. KeepsRegistrations
    BY <1>1, <2>1, DebitedKeeps DEF KeepsRegistrations
  <2>7. QED
    BY <1>1, <2>3, <2>4, <2>5, <2>6
<1>4. ASSUME Funded(tx), NextTx(tx), genesisFreeUsed' \in BOOLEAN,
             NEW l \in Ledgers, l.nonces = ledger.nonces, Applied(tx, l),
             \A a \in Accounts : l.balances[a] >= Debited(tx).balances[a],
             \A a \in Accounts : Registered(ledger, a) =>
               l.participants[a] \in {Null, Debited(tx).participants[a]}
      PROVE  /\ ExecTypeOK'
             /\ CacheNeverAhead => CacheNeverAhead'
             /\ NonceStep(tx)
             /\ KeepsRegistrations
  <2>1. /\ ledger' \in Ledgers
        /\ ledger'.nonces = [ledger.nonces EXCEPT ![tx.from] = @ + 1]
        /\ ledger'.participants = l.participants
        /\ ledger'.balances = [l.balances EXCEPT ![Treasury] = @ + tx.fee]
        /\ cachedBalance' \in [Accounts -> Nat \cup {Null}]
        /\ applied' = Append(applied, tx)
        /\ applied' \in Seq(Txs)
    BY <1>1, <1>4, AppliedLemma
  <2>2. ExecTypeOK'
    BY <1>1, <1>4, <2>1 DEF NextTx, ExecTypeOK
  <2>3. CacheNeverAhead => CacheNeverAhead'
    <3>1. \A a \in Accounts : ledger'.balances[a] >= Debited(tx).balances[a]
      <4>1. l.balances \in [Accounts -> Nat] /\ tx.fee \in Nat
        BY <1>1 DEF Ledgers, Txs
      <4>2. Debited(tx).balances \in [Accounts -> Nat]
        BY <1>1, <1>4, DebitedLemma DEF Ledgers
      <4>3. QED
        BY <1>4, <2>1, <4>1, <4>2
    <3>2. Debit(tx)
      BY <1>4 DEF Applied
    <3>3. QED
      BY <1>1, <1>4, <2>1, <3>1, <3>2, CacheLemma
  <2>4. NonceStep(tx)
    BY <1>4, <2>1 DEF NonceStep, Funded
  <2>5. KeepsRegistrations
    BY <1>1, <1>4, <2>1, DebitedKeeps DEF KeepsRegistrations, Registered
  <2>6. QED
    BY <2>2, <2>3, <2>4, <2>5
<1>5. CASE ApplyTransfer(tx)
  <2> DEFINE l == Credit(Debited(tx), tx.to, tx.amount)
  <2>1. tx.type = "transfer" /\ Funded(tx) /\ NextTx(tx) /\ Effective(tx) /\ Applied(tx, l)
    BY <1>5 DEF ApplyTransfer
  <2>2. genesisFreeUsed' \in BOOLEAN
    BY <1>5 DEF ApplyTransfer, ExecTypeOK
  <2> HIDE DEF l
  <2>3. /\ l \in Ledgers
        /\ l.nonces = ledger.nonces
        /\ l.participants = Debited(tx).participants
        /\ \A a \in Accounts : l.balances[a] >= Debited(tx).balances[a]
    BY <1>1, <2>1, TransferLedger DEF l
  <2>4. QED
    BY <1>1, <1>4, <2>1, <2>2, <2>3
<1>6. CASE ApplyRegister(tx)
  <2> DEFINE l == [Debited(tx) EXCEPT !.participants[tx.participant] =
                    [sponsor |-> tx.from, bond |-> BondDue(tx),
                     registeredHeight |-> height, lastSeenHeight |-> height]]
  <2>1. /\ tx.type = "register_participant"
        /\ Funded(tx) /\ NextTx(tx) /\ Effective(tx) /\ Applied(tx, l)
    BY <1>6 DEF ApplyRegister
  <2>2. genesisFreeUsed' \in BOOLEAN
    BY <1>6 DEF ApplyRegister, ExecTypeOK
  <2> HIDE DEF l
  <2>3. /\ l \in Ledgers
        /\ l.nonces = ledger.nonces
        /\ l.balances = Debited(tx).balances
        /\ ~Registered(ledger, tx.participant)
        /\ \A a \in Accounts \ {tx.participant} :
             l.participants[a] = Debited(tx).participants[a]
    BY <1>1, <2>1, RegisterLedger DEF l
  <2>4. \A a \in Accounts : l.balances[a] >= Debited(tx).balances[a]
    BY <2>3 DEF Ledgers
  <2>5. \A a \in Accounts : Registered(ledger, a) =>
          l.participants[a] \in {Null, Debited(tx).participants[a]}
    BY <2>3
  <2>6. QED
    BY <1>1, <1>4, <2>1, <2>2, <2>3, <2>4, <2>5
<1>7. CASE ApplyUnregister(tx)
  <2> DEFINE l == Credit([Debited(tx) EXCEPT !.participants[tx.from] = Null],
                         ledger.participants[tx.from].sponsor,
                         ledger.participants[tx.from].bond)
  <2>1. /\ tx.type = "unregister_participant"
        /\ Funded(tx) /\ NextTx(tx) /\ Effective(tx) /\ Applied(tx, l)
    BY <1>7 DEF ApplyUnregister
  <2>2. genesisFreeUsed' \in BOOLEAN
    BY <1>7 DEF ApplyUnregister, ExecTypeOK
  <2> HIDE DEF l
  <2>3. /\ l \in Ledgers
        /\ l.nonces = ledger.nonces
        /\ \A a \in Accounts : l.balances[a] >= Debited(tx).balances[a]
        /\ l.participants[tx.from] = Null
        /\ \A a \in Accounts \ {tx.from} :
             l.participants[a] = Debited(tx).participants[a]
    BY <1>1, <2>1, UnregisterLedger DEF l
  <2>4. QED
    BY <1>1, <1>4, <2>1, <2>2, <2>3
<1>8. CASE ApplyHeartbeat(tx)
  <2>1. Funded(tx) /\ NextTx(tx) /\ Applied(tx, Debited(tx))
    BY <1>8 DEF ApplyHeartbeat
  <2>2. genesisFreeUsed' \in BOOLEAN
    BY <1>8 DEF ApplyHeartbeat, ExecTypeOK
  <2>3. Debited(tx) \in Ledgers /\ Debited(tx).nonces = ledger.nonces
    BY <1>1, <2>1, DebitedLemma
  <2>4. \A a \in Accounts : Debited(tx).balances[a] >= Debited(tx).balances[a]
    BY <2>3 DEF Ledgers
  <2>5. QED
    BY <1>1, <1>4, <2>1, <2>2, <2>3, <2>4
<1>9. QED
  BY <1>1, <1>2, <1>3, <1>5, <1>6, <1>7, <1>8

-----------------------------------------------------------------------------

(* An iteration as a function: what it makes of the state x of the loop    *)
(* (the ledger, the flag and the cached balances) at height h.  Two loops  *)
(* in the same state do the same with the same transaction.                *)
Free(h, tx) ==
  /\ tx.type = "register_participant"
  /\ h < GenesisFreeBlocks
  /\ tx.from = GenesisOperator
  /\ tx.participant = tx.from

Bond(x, h, tx) ==
  IF tx.type = "register_participant" /\ ~(~x.used /\ Free(h, tx)) THEN BondMicro ELSE 0

Price(x, h, tx) == tx.amount + tx.fee + Bond(x, h, tx)

Purse(x, a) == IF x.cache[a] = Null THEN x.ledger.balances[a] ELSE x.cache[a]

Charged(x, h, tx) ==
  [x.ledger EXCEPT
     !.balances[tx.from] = Purse(x, tx.from) - Price(x, h, tx),
     !.participants[tx.from] = IF x.ledger.participants[tx.from] = Null THEN Null
       ELSE [x.ledger.participants[tx.from] EXCEPT !.lastSeenHeight = h]]

Succeeds(l, h, tx) ==
  CASE tx.type = "transfer" -> tx.to # Null /\ tx.amount > 0
    [] tx.type = "register_participant" ->
         /\ tx.participant # Null
         /\ ~Registered(l, tx.participant)
         /\ Cardinality(SponsoredActive(l, tx.from, h)) < MaxSponsoredParticipants
    [] tx.type = "unregister_participant" -> Registered(l, tx.from)
    [] tx.type = "heartbeat" -> TRUE

Works(x, h, tx) ==
  /\ tx.nonce = x.ledger.nonces[tx.from]
  /\ Purse(x, tx.from) >= Price(x, h, tx)
  /\ Succeeds(Charged(x, h, tx), h, tx)

Outcome(x, h, tx) ==
  LET l      == Charged(x, h, tx)
      record == x.ledger.participants[tx.from]
  IN CASE tx.type = "transfer" -> Credit(l, tx.to, tx.amount)
       [] tx.type = "register_participant" ->
            [l EXCEPT !.participants[tx.participant] =
               [sponsor |-> tx.from, bond |-> Bond(x, h, tx),
                registeredHeight |-> h, lastSeenHeight |-> h]]
       [] tx.type = "unregister_participant" ->
            Credit([l EXCEPT !.participants[tx.from] = Null], record.sponsor, record.bond)
       [] tx.type = "heartbeat" -> l

After(x, h, tx) ==
  [ledger |-> [Credit(Outcome(x, h, tx), Treasury, tx.fee) EXCEPT !.nonces[tx.from] = @ + 1],
   used   |-> x.used \/ (~x.used /\ Free(h, tx)),
   cache  |-> [x.cache EXCEPT ![tx.from] = Purse(x, tx.from) - Price(x, h, tx)]]

Loop == [ledger |-> ledger, used |-> genesisFreeUsed, cache |-> cachedBalance]

LEMMA LoopLemma ==
  ASSUME NEW tx
  PROVE  /\ Loop.ledger = ledger /\ Loop.used = genesisFreeUsed /\ Loop.cache = cachedBalance
         /\ GenesisFree(tx) <=> ~genesisFreeUsed /\ Free(height, tx)
         /\ BondDue(tx) = Bond(Loop, height, tx)
         /\ Cost(tx) = Price(Loop, height, tx)
         /\ \A a : Spendable(a) = Purse(Loop, a)
         /\ Debited(tx) = Charged(Loop, height, tx)
         /\ Effective(tx) <=> Succeeds(Charged(Loop, height, tx), height, tx)
<1>1. Loop.ledger = ledger /\ Loop.used = genesisFreeUsed /\ Loop.cache = cachedBalance
  BY DEF Loop
<1> HIDE DEF Loop
<1>2. GenesisFree(tx) <=> ~genesisFreeUsed /\ Free(height, tx)
  BY DEF GenesisFree, Free
<1>3. BondDue(tx) = Bond(Loop, height, tx)
  BY <1>1, <1>2 DEF BondDue, Bond
<1>4. Cost(tx) = Price(Loop, height, tx)
  BY <1>3 DEF Cost, Price
<1>5. ASSUME NEW a PROVE Spendable(a) = Purse(Loop, a)
  BY <1>1 DEF Spendable, Purse
<1>6. Debited(tx) = Charged(Loop, height, tx)
  BY <1>1, <1>4, <1>5 DEF Debited, Charged, Seen
<1>7. Effective(tx) <=> Succeeds(Charged(Loop, height, tx), height, tx)
  BY <1>6 DEF Effective, Succeeds
<1> QED BY <1>1, <1>2, <1>3, <1>4, <1>5, <1>6, <1>7

(* The actions of an iteration do what the functions say.                  *)
THEOREM StepIsFunction ==
  ASSUME ExecTypeOK, NEW tx, todo # <<>>, tx = Head(todo),
         \/ SkipTx(tx) \/ AbandonTx(tx) \/ ApplyTransfer(tx)
         \/ ApplyRegister(tx) \/ ApplyUnregister(tx) \/ ApplyHeartbeat(tx)
  PROVE  /\ todo' = Tail(todo) /\ height' = height
         /\ Works(Loop, height, tx) =>
              applied' = Append(applied, tx) /\ Loop' = After(Loop, height, tx)
         /\ ~Works(Loop, height, tx) =>
              applied' = applied /\ genesisFreeUsed' = genesisFreeUsed
                /\ ledger'.nonces = ledger.nonces
<1>1. tx \in Txs
  BY DEF ExecTypeOK
<1>2. todo' = Tail(todo) /\ height' = height
  BY DEF SkipTx, AbandonTx, ApplyTransfer, ApplyRegister, ApplyUnregister, ApplyHeartbeat, NextTx
<1>3. Works(Loop, height, tx) <=> Funded(tx) /\ Effective(tx)
  BY LoopLemma DEF Works, Funded
<1>4. CASE SkipTx(tx)
  BY <1>2, <1>3, <1>4 DEF SkipTx
<1>5. CASE AbandonTx(tx)
  <2>1. ledger' = Debited(tx) /\ Funded(tx)
    BY <1>5 DEF AbandonTx
  <2>2. ledger'.nonces = ledger.nonces
    BY <1>1, <2>1, DebitedLemma
  <2> QED BY <1>2, <1>3, <1>5, <2>2 DEF AbandonTx
<1>6. ASSUME Applied(tx, Outcome(Loop, height, tx)),
             genesisFreeUsed' = (genesisFreeUsed \/ GenesisFree(tx))
      PROVE  applied' = Append(applied, tx) /\ Loop' = After(Loop, height, tx)
  <2>1. applied' = Append(applied, tx)
    BY <1>6 DEF Applied
  <2>2. /\ ledger' = After(Loop, height, tx).ledger
        /\ genesisFreeUsed' = After(Loop, height, tx).used
        /\ cachedBalance' = After(Loop, height, tx).cache
    BY <1>6, LoopLemma DEF Applied, After, Debit
  <2>3. After(Loop, height, tx) = [ledger |-> After(Loop, height, tx).ledger,
                                   used   |-> After(Loop, height, tx).used,
                                   cache  |-> After(Loop, height, tx).cache]
    BY DEF After
  <2> QED BY <2>1, <2>2, <2>3 DEF Loop
<1>7. CASE ApplyTransfer(tx)
  <2>1. tx.type = "transfer" /\ ~GenesisFree(tx)
    BY <1>7 DEF ApplyTransfer, GenesisFree
  <2>2. Outcome(Loop, height, tx) = Credit(Debited(tx), tx.to, tx.amount)
    BY <2>1, LoopLemma DEF Outcome
  <2> QED BY <1>2, <1>3, <1>6, <1>7, <2>1, <2>2 DEF ApplyTransfer, ExecTypeOK
<1>8. CASE ApplyRegister(tx)
  <2>1. tx.type = "register_participant"
    BY <1>8 DEF ApplyRegister
  <2>2. Outcome(Loop, height, tx) =
          [Debited(tx) EXCEPT !.participants[tx.participant] =
             [sponsor |-> tx.from, bond |-> BondDue(tx),
              registeredHeight |-> height, lastSeenHeight |-> height]]
    BY <2>1, LoopLemma DEF Outcome
  <2> QED BY <1>2, <1>3, <1>6, <1>8, <2>2 DEF ApplyRegister
<1>9. CASE ApplyUnregister(tx)
  <2>1. tx.type = "unregister_participant" /\ ~GenesisFree(tx)
    BY <1>9 DEF ApplyUnregister, GenesisFree
  <2>2. Outcome(Loop, height, tx) =
          Credit([Debited(tx) EXCEPT !.participants[tx.from] = Null],
                 ledger.participants[tx.from].sponsor, ledger.participants[tx.from].bond)
    BY <2>1, LoopLemma DEF Outcome
  <2> QED BY <1>2, <1>3, <1>6, <1>9, <2>1, <2>2 DEF ApplyUnregister, ExecTypeOK
<1>10. CASE ApplyHeartbeat(tx)
  <2>1. tx.type = "heartbeat" /\ ~GenesisFree(tx) /\ Effective(tx)
    BY <1>10 DEF ApplyHeartbeat, GenesisFree, Effective
  <2>2. Outcome(Loop, height, tx) = Debited(tx)
    BY <2>1, LoopLemma DEF Outcome
  <2> QED BY <1>2, <1>3, <1>6, <1>10, <2>1, <2>2 DEF ApplyHeartbeat, ExecTypeOK
<1> QED BY <1>4, <1>5, <1>7, <1>8, <1>9, <1>10

-----------------------------------------------------------------------------

(* How many of the transactions txs are signed by a.                       *)
Count(txs, a) == Cardinality({j \in DOMAIN txs : txs[j].from = a})

AnyFree(txs, h) == \E j \in DOMAIN txs : Free(h, txs[j])

(* The nonces and the flag are those of s with the transactions txs, which *)
(* they are whatever became of the balances.                               *)
Follows(l, used, s, txs, h) ==
  /\ \A a \in Accounts : l.nonces[a] = s.ledger.nonces[a] + Count(txs, a)
  /\ used <=> s.genesisFreeUsed \/ AnyFree(txs, h)

LEMMA CountLemma ==
  ASSUME NEW txs \in Seq(Txs), NEW tx \in Txs, NEW a \in Accounts
  PROVE  /\ Count(txs, a) \in Nat
         /\ Count(<<>>, a) = 0
         /\ Count(Append(txs, tx), a) = Count(txs, a) + (IF tx.from = a THEN 1 ELSE 0)
<1> DEFINE all == Append(txs, tx)
           S   == {j \in DOMAIN txs : txs[j].from = a}
           T   == {j \in DOMAIN all : all[j].from = a}
           n   == Len(txs) + 1
<1>1. IsFiniteSet(S) /\ Cardinality(S) \in Nat
  <2>1. IsFiniteSet(DOMAIN txs)
    BY FS_Interval
  <2> QED BY <2>1, FS_Subset, FS_CardinalityType
<1>2. {j \in DOMAIN <<>> : <<>>[j].from = a} = {}
  OBVIOUS
<1>3. Cardinality({}) = 0
  BY FS_EmptySet
<1>4. /\ Count(txs, a) = Cardinality(S) /\ Count(Append(txs, tx), a) = Cardinality(T)
       /\ Count(<<>>, a) = 0
  BY <1>2, <1>3 DEF Count
<1>5. DOMAIN all = DOMAIN txs \cup {n} /\ n \notin DOMAIN txs
      /\ all[n] = tx /\ \A j \in DOMAIN txs : all[j] = txs[j]
  OBVIOUS
<1> HIDE DEF all, n
<1>6. CASE tx.from = a
  <2>1. T = S \cup {n} /\ n \notin S
    BY <1>5, <1>6
  <2> HIDE DEF S, T
  <2>2. Cardinality(T) = Cardinality(S) + 1
    BY <1>1, <2>1, FS_AddElement
  <2> QED BY <1>1, <1>6, <1>4, <2>2
<1>7. CASE tx.from # a
  <2>1. T = S
    BY <1>5, <1>7
  <2> HIDE DEF S, T
  <2> QED BY <1>1, <1>7, <1>4, <2>1
<1> QED BY <1>6, <1>7

LEMMA FollowsStart ==
  ASSUME NEW s, s.ledger.nonces \in [Accounts -> Nat], NEW l, l.nonces = s.ledger.nonces, NEW h
  PROVE  Follows(l, s.genesisFreeUsed, s, <<>>, h)
<1>1. \A a : {j \in DOMAIN <<>> : <<>>[j].from = a} = {}
  OBVIOUS
<1>2. Cardinality({}) = 0
  BY FS_EmptySet
<1>3. \A a : Count(<<>>, a) = 0
  BY <1>1, <1>2 DEF Count
<1>4. ~AnyFree(<<>>, h)
  BY DEF AnyFree
<1>5. \A a \in Accounts : l.nonces[a] = s.ledger.nonces[a] + Count(<<>>, a)
  BY <1>3
<1> QED BY <1>4, <1>5, Zenon DEF Follows

(* What is applied and what became of nonces and flag stay together.       *)
LEMMA FollowsStep ==
  ASSUME ExecTypeOK, NEW tx, todo # <<>>, tx = Head(todo),
         \/ SkipTx(tx) \/ AbandonTx(tx) \/ ApplyTransfer(tx)
         \/ ApplyRegister(tx) \/ ApplyUnregister(tx) \/ ApplyHeartbeat(tx),
         NEW s, s.ledger.nonces \in [Accounts -> Nat],
         Follows(ledger, genesisFreeUsed, s, applied, height)
  PROVE  Follows(ledger', genesisFreeUsed', s, applied', height')
<1>1. /\ tx \in Txs /\ applied \in Seq(Txs) /\ ledger.nonces \in [Accounts -> Nat]
      /\ tx.from \in Accounts
  <2>1. tx \in Txs
    BY ExecuteStep
  <2> QED BY <2>1 DEF ExecTypeOK, Ledgers, Txs
<1>2. NonceStep(tx) /\ height' = height
  BY ExecuteStep, StepIsFunction
<1>3. CASE Works(Loop, height, tx)
  <2>1. applied' = Append(applied, tx) /\ Loop' = After(Loop, height, tx)
    BY <1>3, StepIsFunction
  <2>2. applied' # applied
    BY <1>1, <2>1
  <2>3. ledger'.nonces = [ledger.nonces EXCEPT ![tx.from] = @ + 1]
    BY <1>2, <2>2 DEF NonceStep
  <2>4. \A a \in Accounts : ledger'.nonces[a] = s.ledger.nonces[a] + Count(applied', a)
    <3> TAKE a \in Accounts
    <3>1. Count(applied, a) \in Nat
          /\ Count(applied', a) = Count(applied, a) + (IF tx.from = a THEN 1 ELSE 0)
      BY <1>1, <2>1, CountLemma
    <3>2. ledger.nonces[a] = s.ledger.nonces[a] + Count(applied, a)
      BY DEF Follows
    <3>3. ledger'.nonces[a] = ledger.nonces[a] + (IF tx.from = a THEN 1 ELSE 0)
      BY <1>1, <2>3
    <3>4. s.ledger.nonces[a] \in Nat
      OBVIOUS
    <3> QED BY <3>1, <3>2, <3>3, <3>4, SMT
  <2>5. genesisFreeUsed' <=> genesisFreeUsed \/ Free(height, tx)
    <3>1. Loop'.used = After(Loop, height, tx).used
      BY <2>1
    <3>2. Loop'.used = genesisFreeUsed' /\ Loop.used = genesisFreeUsed
      BY DEF Loop
    <3>3. After(Loop, height, tx).used = (Loop.used \/ (~Loop.used /\ Free(height, tx)))
      BY DEF After
    <3> QED BY <3>1, <3>2, <3>3, Zenon
  <2>6. AnyFree(applied', height) <=> AnyFree(applied, height) \/ Free(height, tx)
    <3>1. /\ DOMAIN applied' = DOMAIN applied \cup {Len(applied) + 1}
          /\ applied'[Len(applied) + 1] = tx
          /\ \A j \in DOMAIN applied : applied'[j] = applied[j]
      BY <1>1, <2>1
    <3> QED BY <3>1, Zenon DEF AnyFree
  <2>7. genesisFreeUsed' <=> s.genesisFreeUsed \/ AnyFree(applied', height')
    <3>1. genesisFreeUsed <=> s.genesisFreeUsed \/ AnyFree(applied, height)
      BY DEF Follows
    <3> QED BY <1>2, <2>5, <2>6, <3>1, Zenon
  <2> QED BY <2>4, <2>7, Zenon DEF Follows
<1>4. CASE ~Works(Loop, height, tx)
  <2>1. applied' = applied /\ genesisFreeUsed' = genesisFreeUsed /\ ledger'.nonces = ledger.nonces
    BY <1>4, StepIsFunction
  <2> QED BY <1>2, <2>1, Zenon DEF Follows
<1> QED BY <1>3, <1>4
=============================================================================
