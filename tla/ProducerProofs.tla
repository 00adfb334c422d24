--------------------------- MODULE ProducerProofs ---------------------------
(***************************************************************************)
(* The producer never confirms a transaction twice and never inflates the  *)
(* supply, and an observer next to it agrees with it, for every set of     *)
(* accounts and every value of the other constants.  ProducerInv and       *)
(* ReplayIInv are the inductive invariants; there is one lemma for each    *)
(* action of Next and of ReplayNext.                                       *)
(***************************************************************************)
EXTENDS BlockReplay, TxExecutionProofs, Sums

(* An equal share leaves a remainder that is not negative.                 *)
LEMMA DivisionLemma ==
  ASSUME NEW x \in Nat, NEW n \in Nat \ {0}
  PROVE  /\ x \div n \in Nat
         /\ x - (x \div n) * n \in Nat
OBVIOUS

(* A bounded set of natural numbers that is not empty has a maximum.       *)
LEMMA MaxLemma ==
  ASSUME NEW S \in SUBSET Nat, S # {}, NEW B \in Nat, \A n \in S : n <= B
  PROVE  /\ Max(S) \in S
         /\ \A n \in S : n <= Max(S)
<1> DEFINE T == {k \in Nat : \A n \in S : n <= k}
<1>1. T \in SUBSET Nat /\ T # {}
  OBVIOUS
<1>2. PICK m \in T : \A k \in T : m <= k
  BY <1>1, LeastLemma
<1>3. m \in S
  <2>1. SUFFICES ASSUME m \notin S PROVE FALSE
    OBVIOUS
  <2>2. \A n \in S : n < m
    BY <1>2, <2>1
  <2>3. m - 1 \in T
    <3>1. PICK n \in S : TRUE
      OBVIOUS
    <3>2. n \in Nat /\ m \in Nat /\ n < m
      BY <2>2, <1>2
    <3>3. m - 1 \in Nat
      BY <3>2
    <3>4. \A k \in S : k <= m - 1
      BY <2>2, <1>2
    <3>5. QED
      BY <3>3, <3>4
  <2>4. QED
    BY <1>2, <2>3
<1>4. \A n \in S : m >= n
  BY <1>2
<1>5. QED
  BY <1>3, <1>4 DEF Max

(* The rewards of a block keep the ledger a ledger, its nonces and its     *)
(* participants.                                                           *)
LEMMA RewardedLemma ==
  ASSUME NEW l \in Ledgers, NEW h \in Nat
  PROVE  /\ Rewarded(l, h) \in Ledgers
         /\ Rewarded(l, h).nonces = l.nonces
         /\ Rewarded(l, h).participants = l.participants
<1> DEFINE active == ActiveParticipants(l, h)
           n == Cardinality(active)
           share == IF active = {} THEN 0 ELSE ParticipantUnits \div n
           balances == [a \in Accounts |-> IF a \in active THEN l.balances[a] + share
                                                           ELSE l.balances[a]]
           paid == [l EXCEPT !.balances = balances]
           rest == TreasuryUnits + ParticipantUnits - share * n
<1>1. IsFiniteSet(active) /\ active \in SUBSET Accounts
  BY ExecutionAssumption, FS_Subset DEF ActiveParticipants
<1>2. n \in Nat /\ (active # {} => n # 0)
  BY <1>1, FS_CardinalityType, FS_EmptySet
<1>3. ParticipantUnits \in Nat /\ TreasuryUnits \in Nat
  BY ProducerAssumption
<1>4. share \in Nat /\ ParticipantUnits - share * n \in Nat
  <2>1. CASE active = {}
    BY <1>2, <1>3, <2>1
  <2>2. CASE active # {}
    BY <1>2, <1>3, <2>2, DivisionLemma
  <2>3. QED
    BY <2>1, <2>2
<1>5. rest \in Nat
  BY <1>2, <1>3, <1>4
<1>6. balances \in [Accounts -> Nat]
  BY <1>4 DEF Ledgers
<1>7. Rewarded(l, h) = Credit(paid, Treasury, rest)
  BY <1>6 DEF Rewarded, Ledgers
<1> HIDE DEF balances, rest, active, n, share
<1>8. /\ paid \in Ledgers
      /\ paid.nonces = l.nonces
      /\ paid.participants = l.participants
  BY <1>6 DEF Ledgers
<1> HIDE DEF paid
<1>9. Treasury \in Accounts
  BY ExecutionAssumption
<1>10. /\ Credit(paid, Treasury, rest) \in Ledgers
       /\ Credit(paid, Treasury, rest).nonces = paid.nonces
       /\ Credit(paid, Treasury, rest).participants = paid.participants
  BY <1>5, <1>8, <1>9, CreditLemma
<1>11. QED
  BY <1>7, <1>8, <1>10

-----------------------------------------------------------------------------

(* A pending transaction is the best of its account and nonce: there is no *)
(* other.                                                                  *)
LEMMA BestPendingLemma ==
  ASSUME TypeOK, OneTxPerNonce, NEW a \in Accounts, NEW n \in PendingNonces(a)
  PROVE  BestPending(a, n) \in Pending(a) /\ BestPending(a, n).tx.nonce = n
<1>1. PICK e \in Pending(a) : e.tx.nonce = n
  BY DEF PendingNonces
<1>2. \A f \in Pending(a) : f.tx.nonce = n => f = e
  BY <1>1 DEF OneTxPerNonce, Pending
<1>3. e.tx.fee \in Nat
  BY DEF TypeOK, Entries, Txs, Pending
<1>4. \A f \in Pending(a) : f.tx.nonce = n => f.tx.fee <= e.tx.fee
  BY <1>2, <1>3
<1>5. BestPending(a, n) \in {f \in Pending(a) : f.tx.nonce = n}
  BY <1>1, <1>4 DEF BestPending
<1>6. QED
  BY <1>5

(* The nonce admission asks for is a number that no pending transaction of *)
(* the account has.                                                        *)
LEMMA NextNonceLemma ==
  ASSUME TypeOK, PendingWithinGap, NEW a \in Accounts
  PROVE  /\ NextNonce(a) \in Nat
         /\ \A e \in Pending(a) : e.tx.nonce # NextNonce(a)
<1>1. ledger.nonces[a] \in Nat /\ stored.ledger.nonces[a] \in Nat
  BY DEF TypeOK, ExecTypeOK, Ledgers
<1>2. CASE Pending(a) = {}
  BY <1>1, <1>2 DEF NextNonce
<1>3. CASE Pending(a) # {}
  <2> DEFINE S == PendingNonces(a)
             B == stored.ledger.nonces[a] + MaxFutureNonceGap
  <2>1. \A e \in Pending(a) : e.tx.nonce \in Nat /\ e.tx.nonce <= B
    BY DEF Pending, PendingWithinGap, TypeOK, Entries, Txs
  <2>2. S \in SUBSET Nat /\ S # {} /\ \A n \in S : n <= B
    BY <1>3, <2>1 DEF PendingNonces
  <2>3. B \in Nat
    BY <1>1, ProducerAssumption
  <2> HIDE DEF B
  <2>4. Max(S) \in S /\ \A n \in S : n <= Max(S)
    BY <2>2, <2>3, MaxLemma
  <2>5. \A e \in Pending(a) : e.tx.nonce \in S
    BY DEF PendingNonces
  <2> HIDE DEF S
  <2>6. NextNonce(a) = Max(S) + 1
    BY <1>3 DEF NextNonce, S
  <2>7. Max(S) \in Nat
    BY <2>2, <2>4
  <2>8. \A n \in S : n # Max(S) + 1
    BY <2>2, <2>4, <2>7
  <2>9. QED
    BY <2>5, <2>6, <2>7, <2>8
<1>4. QED
  BY <1>2, <1>3

-----------------------------------------------------------------------------

(* The initial states satisfy the invariant.                               *)
LEMMA InitInv ==
  ASSUME Init
  PROVE  ProducerInv
<1>1. InitialLedger \in Ledgers
  BY ProducerAssumption
<1>2. TypeOK
  <2>1. ExecTypeOK
    <3>1. <<>> \in Seq(Txs) /\ NoCache \in [Accounts -> Nat \cup {Null}]
      BY DEF NoCache
    <3>2. QED
      BY <1>1, <3>1 DEF Init, ExecTypeOK
  <2>2. stored \in [ledger : Ledgers, genesisFreeUsed : BOOLEAN]
    BY <1>1 DEF Init
  <2>3. /\ mempool \subseteq Entries /\ selected \in Seq(Txs)
        /\ chain \in Seq([txs : Seq(Txs),
                    stateRoot : [balances : [Accounts -> Nat],
                                 participants : [Accounts -> ParticipantRecords \cup {Null}]]])
    BY DEF Init
  <2>4. QED
    BY <2>1, <2>2, <2>3 DEF Init, TypeOK
<1>3. ReplayProtection
  BY <1>1 DEF Init, ReplayProtection, Ledgers
<1>4. CacheNeverAhead
  BY DEF Init, CacheNeverAhead, NoCache
<1>5. MemoryIsStored
  BY DEF Init, MemoryIsStored, Memory, AuditOk
<1>6. BlockInProgress /\ OneTxPerNonce /\ PendingWithinGap /\ NoDoubleConfirm
  BY DEF Init, BlockInProgress, OneTxPerNonce, PendingWithinGap, NoDoubleConfirm
<1>7. QED
  BY <1>2, <1>3, <1>4, <1>5, <1>6 DEF ProducerInv

(* Admission: the new transaction has a nonce of its own, within the gap.  *)
LEMMA AdmitInv ==
  ASSUME ProducerInv, NEW a \in Clients, NEW tx \in Submissions(a), Admit(tx)
  PROVE  ProducerInv'
<1> USE DEF ProducerInv
<1>1. /\ pc = "idle"
      /\ mempool' = mempool \cup {[tx |-> tx, bond |-> AdmissionBond(tx)]}
      /\ UNCHANGED <<execVars, selected, nodeVars, diskVars, boundVars>>
      /\ tx.nonce <= ledger.nonces[tx.from] + MaxFutureNonceGap
      /\ tx.nonce = NextNonce(tx.from)
  BY DEF Admit, Admissible
<1>2. /\ tx.from \in Accounts /\ tx.type \in TxTypes
      /\ tx.to \in Accounts \cup {Null} /\ tx.participant \in Accounts \cup {Null}
      /\ tx.amount \in Nat /\ tx.fee \in Nat
      /\ tx = [type |-> tx.type, from |-> tx.from, to |-> tx.to,
               participant |-> tx.participant, amount |-> tx.amount,
               fee |-> tx.fee, nonce |-> tx.nonce]
  <2>1. PICK type \in EnabledTypes :
          tx \in [type : {type}, from : {a},
                  to : IF type = "transfer" THEN Accounts ELSE {Null},
                  participant : IF type = "register_participant" THEN Accounts ELSE {Null},
                  amount : IF type = "transfer" THEN Amounts ELSE {0},
                  fee : Fees, nonce : 0 .. NextNonce(a) + 1]
    BY Zenon DEF Submissions
  <2>2. type \in TxTypes /\ a \in Accounts /\ Amounts \subseteq Nat /\ Fees \subseteq Nat
    BY ProducerAssumption
  <2> DEFINE Tos == IF type = "transfer" THEN Accounts ELSE {Null}
             Participants == IF type = "register_participant" THEN Accounts ELSE {Null}
             Paid == IF type = "transfer" THEN Amounts ELSE {0}
             Nonces == 0 .. NextNonce(a) + 1
  <2>3. /\ Tos \subseteq Accounts \cup {Null}
        /\ Participants \subseteq Accounts \cup {Null}
        /\ Paid \subseteq Nat
    BY <2>2
  <2>4. tx \in [type : {type}, from : {a}, to : Tos, participant : Participants,
                amount : Paid, fee : Fees, nonce : Nonces]
    BY <2>1
  <2> HIDE DEF Tos, Participants, Paid, Nonces
  <2>5. QED
    BY <2>2, <2>3, <2>4
<1>3. tx.nonce \in Nat /\ \A e \in Pending(tx.from) : e.tx.nonce # tx.nonce
  BY <1>1, <1>2, NextNonceLemma
<1>4. tx \in Txs /\ AdmissionBond(tx) \in Nat
  BY <1>2, <1>3, ExecutionAssumption DEF Txs, AdmissionBond
<1>5. TypeOK'
  BY <1>1, <1>4 DEF TypeOK, ExecTypeOK, Entries, execVars, nodeVars, diskVars, boundVars
<1>6. ledger = stored.ledger
  BY <1>1 DEF MemoryIsStored, Memory
<1>7. PendingWithinGap'
  BY <1>1, <1>6 DEF PendingWithinGap, diskVars
<1>8. OneTxPerNonce'
  BY <1>1, <1>3 DEF OneTxPerNonce, Pending
<1>9. QED
  BY <1>1, <1>5, <1>7, <1>8
    DEF BlockInProgress, MemoryIsStored, Memory, AuditOk, ReplayProtection,
        NoDoubleConfirm, CacheNeverAhead, execVars, nodeVars, diskVars

(* Expiry only removes.                                                    *)
LEMMA ExpireInv ==
  ASSUME ProducerInv, NEW e \in mempool, Expire(e)
  PROVE  ProducerInv'
<1> USE DEF ProducerInv
<1>1. /\ mempool' = mempool \ {e} /\ expiries' = expiries + 1
      /\ UNCHANGED <<execVars, selected, nodeVars, diskVars, faults>>
  BY DEF Expire
<1>2. TypeOK'
  BY <1>1 DEF TypeOK, ExecTypeOK, execVars, nodeVars, diskVars
<1>3. QED
  BY <1>1, <1>2
    DEF BlockInProgress, MemoryIsStored, Memory, AuditOk, OneTxPerNonce,
        PendingWithinGap, ReplayProtection, NoDoubleConfirm, CacheNeverAhead,
        execVars, nodeVars, diskVars

(* A block starts: the snapshot is what storage holds.                     *)
LEMMA StartBlockInv ==
  ASSUME ProducerInv, StartBlock
  PROVE  ProducerInv'
<1> USE DEF ProducerInv
<1>1. /\ pc = "idle" /\ pc' = "select"
      /\ height' = LatestHeight + 1
      /\ snapshot' = Memory
      /\ UNCHANGED <<ledger, genesisFreeUsed, todo, cachedBalance, applied,
                     poolVars, paused, diskVars, boundVars>>
  BY DEF StartBlock, Memory
<1>2. Memory = stored
  BY <1>1 DEF MemoryIsStored
<1>3. height' \in Nat
  BY <1>1 DEF TypeOK, LatestHeight
<1>4. TypeOK'
  BY <1>1, <1>2, <1>3 DEF TypeOK, ExecTypeOK, poolVars, diskVars, boundVars
<1>5. BlockInProgress'
  BY <1>1, <1>2 DEF BlockInProgress, diskVars
<1>6. QED
  BY <1>1, <1>4, <1>5
    DEF MemoryIsStored, Memory, AuditOk, OneTxPerNonce, PendingWithinGap,
        ReplayProtection, NoDoubleConfirm, CacheNeverAhead, poolVars, diskVars

(* A pending transaction is selected.                                      *)
LEMMA SelectTxInv ==
  ASSUME ProducerInv, NEW e \in Candidates, SelectTx(e)
  PROVE  ProducerInv'
<1> USE DEF ProducerInv
<1>1. /\ pc = "select" /\ selected' = Append(selected, e.tx)
      /\ UNCHANGED <<execVars, mempool, nodeVars, diskVars, boundVars>>
  BY DEF SelectTx
<1>2. e \in mempool
  <2>1. PICK a \in Accounts : \E n \in PendingNonces(a) : e = BestPending(a, n)
    BY DEF Candidates
  <2>2. e \in Pending(a)
    BY <2>1, BestPendingLemma
  <2>3. QED
    BY <2>2 DEF Pending
<1>3. e.tx \in Txs
  BY <1>2 DEF TypeOK, Entries
<1>4. TypeOK'
  BY <1>1, <1>3 DEF TypeOK, ExecTypeOK, execVars, nodeVars, diskVars, boundVars
<1>5. QED
  BY <1>1, <1>4
    DEF BlockInProgress, MemoryIsStored, Memory, AuditOk, OneTxPerNonce,
        PendingWithinGap, ReplayProtection, NoDoubleConfirm, CacheNeverAhead,
        execVars, nodeVars, diskVars

(* The loop starts on the selected transactions.                           *)
LEMMA EndSelectionInv ==
  ASSUME ProducerInv, EndSelection
  PROVE  ProducerInv'
<1> USE DEF ProducerInv
<1>1. /\ pc = "select" /\ pc' = "apply"
      /\ todo' = selected /\ height' = height
      /\ cachedBalance' = NoCache /\ applied' = <<>>
      /\ UNCHANGED <<ledger, genesisFreeUsed, poolVars, snapshot, paused,
                     diskVars, boundVars>>
  BY DEF EndSelection, BeginExecution
<1>2. applied = <<>> /\ snapshot = stored
  BY <1>1 DEF BlockInProgress
<1>3. TypeOK'
  BY <1>1 DEF TypeOK, ExecTypeOK, NoCache, poolVars, diskVars, boundVars
<1>4. CacheNeverAhead'
  BY <1>1 DEF CacheNeverAhead, NoCache
<1>5. QED
  BY <1>1, <1>2, <1>3, <1>4
    DEF BlockInProgress, MemoryIsStored, AuditOk, OneTxPerNonce, PendingWithinGap,
        ReplayProtection, NoDoubleConfirm, poolVars, diskVars

(* One transaction of the block in progress: if it is applied, its nonce   *)
(* is its signer's in the ledger, which then moves past it.                *)
LEMMA ExecuteBlockInv ==
  ASSUME ProducerInv, ExecuteBlock
  PROVE  ProducerInv'
<1> USE DEF ProducerInv
<1>1. /\ pc = "apply"
      /\ UNCHANGED <<poolVars, nodeVars, diskVars, boundVars>>
      /\ ExecuteTx
  BY DEF ExecuteBlock
<1>2. PICK tx : /\ todo # <<>> /\ tx = Head(todo)
                /\ \/ SkipTx(tx) \/ AbandonTx(tx) \/ ApplyTransfer(tx)
                   \/ ApplyRegister(tx) \/ ApplyUnregister(tx) \/ ApplyHeartbeat(tx)
  BY <1>1 DEF ExecuteTx
<1>3. tx \in Txs /\ ExecTypeOK' /\ CacheNeverAhead' /\ NonceStep(tx)
  BY <1>2, ExecuteStep DEF TypeOK
<1>4. TypeOK'
  BY <1>1, <1>3 DEF TypeOK, poolVars, nodeVars, diskVars, boundVars
<1>5. ReplayProtection'
  <2>1. /\ ledger.nonces \in [Accounts -> Nat] /\ ledger'.nonces \in [Accounts -> Nat]
        /\ stored.ledger.nonces \in [Accounts -> Nat] /\ stored' = stored
        /\ chain' = chain /\ applied \in Seq(Txs) /\ tx.from \in Accounts /\ tx.nonce \in Nat
    BY <1>1, <1>3 DEF TypeOK, ExecTypeOK, Ledgers, diskVars, Txs
  <2>2. CASE applied' = applied /\ ledger'.nonces = ledger.nonces
    BY <2>1, <2>2 DEF ReplayProtection
  <2>3. CASE /\ tx.nonce = ledger.nonces[tx.from]
             /\ applied' = Append(applied, tx)
             /\ ledger'.nonces = [ledger.nonces EXCEPT ![tx.from] = @ + 1]
    <3>1. \A a \in Accounts : /\ ledger.nonces[a] <= ledger'.nonces[a]
                              /\ stored.ledger.nonces[a] <= ledger'.nonces[a]
      BY <2>1, <2>3 DEF ReplayProtection
    <3>2. /\ DOMAIN applied' = DOMAIN applied \cup {Len(applied) + 1}
          /\ applied'[Len(applied) + 1] = tx
          /\ \A j \in DOMAIN applied : /\ applied'[j] = applied[j]
                                       /\ applied[j] \in Txs
                                       /\ j # Len(applied) + 1
      BY <1>3, <2>1, <2>3
    <3>3. \A j \in DOMAIN applied :
            /\ applied[j].from \in Accounts /\ applied[j].nonce \in Nat
            /\ stored.ledger.nonces[applied[j].from] <= applied[j].nonce
            /\ applied[j].nonce < ledger.nonces[applied[j].from]
      BY <3>2 DEF ReplayProtection, Txs
    <3>4. \A j \in DOMAIN applied' :
            /\ stored.ledger.nonces[applied'[j].from] <= applied'[j].nonce
            /\ applied'[j].nonce < ledger'.nonces[applied'[j].from]
      <4>1. TAKE j \in DOMAIN applied'
      <4>2. CASE j \in DOMAIN applied
        <5> DEFINE x == applied[j]
        <5>1. applied'[j] = x /\ x.from \in Accounts /\ x.nonce \in Nat
          BY <3>2, <3>3, <4>2
        <5>2. stored.ledger.nonces[x.from] <= x.nonce /\ x.nonce < ledger.nonces[x.from]
          BY <3>3, <4>2
        <5>3. ledger.nonces[x.from] <= ledger'.nonces[x.from]
          BY <3>1, <5>1
        <5> HIDE DEF x
        <5>4. QED
          BY <2>1, <5>1, <5>2, <5>3
      <4>3. CASE j = Len(applied) + 1
        <5>1. applied'[j] = tx
          BY <3>2, <4>3
        <5>2. stored.ledger.nonces[tx.from] <= ledger.nonces[tx.from]
          BY <2>1 DEF ReplayProtection
        <5>3. ledger'.nonces[tx.from] = tx.nonce + 1
          BY <2>1, <2>3
        <5>4. QED
          BY <2>1, <2>3, <5>1, <5>2, <5>3
      <4>4. QED
        BY <3>2, <4>2, <4>3
    <3>5. \A j, k \in DOMAIN applied' :
            applied'[j].from = applied'[k].from /\ applied'[j].nonce = applied'[k].nonce
            => j = k
      <4>1. \A j \in DOMAIN applied : ~(applied[j].from = tx.from /\ applied[j].nonce = tx.nonce)
        BY <2>1, <2>3, <3>3
      <4>2. \A j, k \in DOMAIN applied :
              applied[j].from = applied[k].from /\ applied[j].nonce = applied[k].nonce
              => j = k
        BY DEF ReplayProtection
      <4>3. QED
        BY <3>2, <4>1, <4>2
    <3>6. \A i \in DOMAIN chain : \A j \in DOMAIN chain[i].txs :
            chain[i].txs[j].nonce < stored.ledger.nonces[chain[i].txs[j].from]
      BY DEF ReplayProtection
    <3>7. QED
      BY <2>1, <3>1, <3>4, <3>5, <3>6 DEF ReplayProtection
  <2>4. QED
    BY <1>3, <2>2, <2>3 DEF NonceStep
<1>6. QED
  BY <1>1, <1>3, <1>4, <1>5
    DEF BlockInProgress, MemoryIsStored, AuditOk, OneTxPerNonce, PendingWithinGap,
        NoDoubleConfirm, poolVars, nodeVars, diskVars

(* A sealed block's transactions are new: every transaction already in the *)
(* chain is behind the stored nonces, and every one in the block is not.   *)
LEMMA SealBlockInv ==
  ASSUME ProducerInv, SealBlock
  PROVE  ProducerInv'
<1> USE DEF ProducerInv
<1> DEFINE l == Rewarded(ledger, height)
           block == [txs |-> applied, stateRoot |-> StateRoot(l)]
<1>1. /\ pc = "apply" /\ pc' = "idle"
      /\ ledger' = l
      /\ chain' = Append(chain, block)
      /\ stored' = [ledger |-> l, genesisFreeUsed |-> genesisFreeUsed]
      /\ mempool' \subseteq mempool
      /\ selected' = <<>> /\ snapshot' = Null
      /\ todo' = <<>> /\ height' = 0 /\ cachedBalance' = NoCache /\ applied' = <<>>
      /\ UNCHANGED <<genesisFreeUsed, paused, boundVars>>
  BY DEF SealBlock, EndBlock, BeginExecution
<1>2. /\ l \in Ledgers /\ l.nonces = ledger.nonces
      /\ l = [balances |-> l.balances, nonces |-> l.nonces, participants |-> l.participants]
  BY RewardedLemma DEF TypeOK, ExecTypeOK, Ledgers
<1> HIDE DEF l
<1>3. StateRoot(l) \in [balances : [Accounts -> Nat],
                        participants : [Accounts -> ParticipantRecords \cup {Null}]]
  BY <1>2 DEF StateRoot, Ledgers
<1>4. /\ block \in [txs : Seq(Txs),
                     stateRoot : [balances : [Accounts -> Nat],
                                  participants : [Accounts -> ParticipantRecords \cup {Null}]]]
      /\ block.txs = applied /\ block.stateRoot = StateRoot(l)
  BY <1>3 DEF TypeOK, ExecTypeOK
<1> HIDE DEF block
<1>5. TypeOK'
  <2>1. ExecTypeOK'
    <3>1. <<>> \in Seq(Txs) /\ NoCache \in [Accounts -> Nat \cup {Null}]
      BY DEF NoCache
    <3>2. QED
      BY <1>1, <1>2, <3>1 DEF TypeOK, ExecTypeOK
  <2>2. stored' \in [ledger : Ledgers, genesisFreeUsed : BOOLEAN]
    BY <1>1, <1>2 DEF TypeOK, ExecTypeOK
  <2>3. chain' \in Seq([txs : Seq(Txs),
                     stateRoot : [balances : [Accounts -> Nat],
                                  participants : [Accounts -> ParticipantRecords \cup {Null}]]])
    BY <1>1, <1>4 DEF TypeOK
  <2>4. mempool' \subseteq Entries /\ selected' \in Seq(Txs)
    BY <1>1 DEF TypeOK
  <2>5. QED
    BY <1>1, <2>1, <2>2, <2>3, <2>4 DEF TypeOK, boundVars
<1>6. /\ DOMAIN chain' = DOMAIN chain \cup {Len(chain) + 1}
      /\ Len(chain') = Len(chain) + 1
      /\ chain'[Len(chain) + 1].txs = applied
      /\ chain'[Len(chain) + 1].stateRoot = StateRoot(l)
      /\ \A i \in DOMAIN chain : chain'[i] = chain[i] /\ i # Len(chain) + 1
  BY <1>1, <1>4 DEF TypeOK
<1>7. stored'.ledger.nonces = ledger.nonces /\ ledger'.nonces = ledger.nonces
  BY <1>1, <1>2
<1>8. /\ ledger.nonces \in [Accounts -> Nat]
      /\ stored.ledger.nonces \in [Accounts -> Nat]
      /\ \A a \in Accounts : stored.ledger.nonces[a] <= ledger.nonces[a]
  BY DEF TypeOK, ExecTypeOK, Ledgers, ReplayProtection
<1>9. \A i \in DOMAIN chain : \A j \in DOMAIN chain[i].txs :
        /\ chain[i].txs[j].from \in Accounts /\ chain[i].txs[j].nonce \in Nat
        /\ chain[i].txs[j].nonce < stored.ledger.nonces[chain[i].txs[j].from]
  <2>1. TAKE i \in DOMAIN chain
  <2>2. chain[i].txs \in Seq(Txs)
    <3> DEFINE Blocks == [txs : Seq(Txs),
                          stateRoot : [balances : [Accounts -> Nat],
                                       participants : [Accounts -> ParticipantRecords \cup {Null}]]]
    <3>1. chain \in Seq(Blocks)
      BY DEF TypeOK
    <3>2. chain[i] \in Blocks
      <4> HIDE DEF Blocks
      <4>1. QED
        BY <3>1
    <3>3. QED
      BY <3>2
  <2>3. TAKE j \in DOMAIN chain[i].txs
  <2>4. chain[i].txs[j] \in Txs
    BY <2>2
  <2>5. QED
    BY <2>4 DEF ReplayProtection, Txs
<1>10. \A j \in DOMAIN applied :
         /\ applied[j].from \in Accounts /\ applied[j].nonce \in Nat
         /\ stored.ledger.nonces[applied[j].from] <= applied[j].nonce
         /\ applied[j].nonce < ledger.nonces[applied[j].from]
  <2>1. TAKE j \in DOMAIN applied
  <2>2. applied[j] \in Txs
    BY DEF TypeOK, ExecTypeOK
  <2>3. QED
    BY <2>2 DEF ReplayProtection, Txs
<1>11. ReplayProtection'
  <2>1. \A i \in DOMAIN chain' : \A j \in DOMAIN chain'[i].txs :
          chain'[i].txs[j].nonce < stored'.ledger.nonces[chain'[i].txs[j].from]
    <3>1. TAKE i \in DOMAIN chain'
    <3>2. CASE i \in DOMAIN chain
      BY <1>6, <1>7, <1>8, <1>9, <3>2
    <3>3. CASE i = Len(chain) + 1
      BY <1>6, <1>7, <1>10, <3>3
    <3>4. QED
      BY <1>6, <3>2, <3>3
  <2>2. QED
    BY <1>1, <1>7, <1>8, <2>1 DEF ReplayProtection
<1>12. NoDoubleConfirm'
  <2>1. \A i \in DOMAIN chain : \A j \in DOMAIN chain[i].txs, m \in DOMAIN applied :
          ~(chain[i].txs[j].from = applied[m].from /\ chain[i].txs[j].nonce = applied[m].nonce)
    BY <1>8, <1>9, <1>10
  <2>2. \A j, m \in DOMAIN applied :
          applied[j].from = applied[m].from /\ applied[j].nonce = applied[m].nonce => j = m
    BY DEF ReplayProtection
  <2>3. QED
    BY <1>6, <2>1, <2>2 DEF NoDoubleConfirm
<1>13. PendingWithinGap'
  <2>1. \A e \in mempool : e.tx.from \in Accounts /\ e.tx.nonce \in Nat
    BY DEF TypeOK, Entries, Txs
  <2>2. MaxFutureNonceGap \in Nat
    BY ProducerAssumption
  <2>3. \A e \in mempool :
          e.tx.nonce <= ledger.nonces[e.tx.from] + MaxFutureNonceGap
    BY <1>8, <2>1, <2>2 DEF PendingWithinGap
  <2>4. QED
    BY <1>1, <1>7, <2>3 DEF PendingWithinGap
<1>14. OneTxPerNonce'
  BY <1>1 DEF OneTxPerNonce
<1>15. CacheNeverAhead'
  BY <1>1 DEF CacheNeverAhead, NoCache
<1>16. MemoryIsStored'
  <2>1. Memory' = stored'
    BY <1>1 DEF Memory
  <2>2. stored'.ledger = l
    BY <1>1
  <2>3. chain'[Len(chain')].stateRoot = StateRoot(l)
    BY <1>6
  <2>4. QED
    BY <2>1, <2>2, <2>3 DEF MemoryIsStored, AuditOk, StateRoot
<1>17. BlockInProgress'
  BY <1>1 DEF BlockInProgress
<1>18. QED
  BY <1>5, <1>11, <1>12, <1>13, <1>14, <1>15, <1>16, <1>17

(* What both a rejected block and the end of the process come to: memory   *)
(* holds what storage holds.                                               *)
LEMMA BackToStoredInv ==
  ASSUME ProducerInv, EndBlock,
         ledger' = stored.ledger, genesisFreeUsed' = stored.genesisFreeUsed,
         mempool' \subseteq mempool, paused' \in BOOLEAN, faults' = faults + 1,
         UNCHANGED <<diskVars, expiries>>
  PROVE  ProducerInv'
<1> USE DEF ProducerInv
<1>1. /\ pc' = "idle" /\ selected' = <<>> /\ snapshot' = Null
      /\ todo' = <<>> /\ height' = 0 /\ cachedBalance' = NoCache /\ applied' = <<>>
      /\ chain' = chain /\ stored' = stored
  BY DEF EndBlock, BeginExecution, diskVars
<1>2. /\ stored.ledger \in Ledgers /\ stored.genesisFreeUsed \in BOOLEAN
      /\ stored = [ledger |-> stored.ledger, genesisFreeUsed |-> stored.genesisFreeUsed]
  BY DEF TypeOK
<1>3. TypeOK'
  <2>1. <<>> \in Seq(Txs) /\ NoCache \in [Accounts -> Nat \cup {Null}]
    BY DEF NoCache
  <2>2. ExecTypeOK'
    BY <1>1, <1>2, <2>1 DEF ExecTypeOK
  <2>3. QED
    BY <1>1, <2>1, <2>2 DEF TypeOK
<1>4. ReplayProtection'
  BY <1>1, <1>2 DEF ReplayProtection, Ledgers
<1>5. CacheNeverAhead'
  BY <1>1 DEF CacheNeverAhead, NoCache
<1>6. MemoryIsStored'
  BY <1>1, <1>2 DEF MemoryIsStored, Memory, AuditOk, StateRoot
<1>7. QED
  BY <1>1, <1>3, <1>4, <1>5, <1>6
    DEF BlockInProgress, OneTxPerNonce, PendingWithinGap, NoDoubleConfirm

(* A rejected block leaves memory as it was before the block.              *)
LEMMA RejectBlockInv ==
  ASSUME ProducerInv, RejectBlock
  PROVE  ProducerInv'
<1>1. snapshot = stored
  BY DEF RejectBlock, ProducerInv, BlockInProgress
<1>2. QED
  BY <1>1, BackToStoredInv DEF RejectBlock

(* A restart reloads memory from storage, in any phase of a block.         *)
LEMMA RestartInv ==
  ASSUME ProducerInv, Restart
  PROVE  ProducerInv'
<1>1. mempool' \subseteq mempool /\ paused' \in BOOLEAN
  BY DEF Restart, AuditOk
<1>2. QED
  BY <1>1, BackToStoredInv DEF Restart

(* An audit only reads, but for the pause.                                 *)
LEMMA CheckInvariantsInv ==
  ASSUME ProducerInv, CheckInvariants
  PROVE  ProducerInv'
<1> USE DEF ProducerInv
<1>1. /\ paused' \in BOOLEAN
      /\ UNCHANGED <<execVars, poolVars, pc, snapshot, diskVars, boundVars>>
  BY DEF CheckInvariants, AuditOk
<1>2. TypeOK'
  BY <1>1 DEF TypeOK, ExecTypeOK, execVars, poolVars, diskVars, boundVars
<1>3. QED
  BY <1>1, <1>2
    DEF BlockInProgress, MemoryIsStored, Memory, AuditOk, OneTxPerNonce,
        PendingWithinGap, ReplayProtection, NoDoubleConfirm, CacheNeverAhead,
        execVars, poolVars, diskVars

(* Every step of the producer keeps the invariant.                         *)
LEMMA InvarianceStep == ProducerInv /\ [Next]_vars => ProducerInv'
<1>1. SUFFICES ASSUME ProducerInv, [Next]_vars
             PROVE  ProducerInv'
  OBVIOUS
<1>2. CASE \E a \in Clients : \E tx \in Submissions(a) : Admit(tx)
  BY <1>1, <1>2, AdmitInv
<1>3. CASE \E e \in mempool : Expire(e)
  BY <1>1, <1>3, ExpireInv
<1>4. CASE StartBlock
  BY <1>1, <1>4, StartBlockInv
<1>5. CASE \E e \in Candidates : SelectTx(e)
  BY <1>1, <1>5, SelectTxInv
<1>6. CASE EndSelection
  BY <1>1, <1>6, EndSelectionInv
<1>7. CASE ExecuteBlock
  BY <1>1, <1>7, ExecuteBlockInv
<1>8. CASE SealBlock
  BY <1>1, <1>8, SealBlockInv
<1>9. CASE RejectBlock
  BY <1>1, <1>9, RejectBlockInv
<1>10. CASE CheckInvariants
  BY <1>1, <1>10, CheckInvariantsInv
<1>11. CASE Restart
  BY <1>1, <1>11, RestartInv
<1>12. CASE UNCHANGED vars
  BY <1>1, <1>12
    DEF ProducerInv, TypeOK, ExecTypeOK, BlockInProgress, MemoryIsStored, Memory,
        AuditOk, OneTxPerNonce, PendingWithinGap, ReplayProtection,
        NoDoubleConfirm, CacheNeverAhead,
        vars, execVars, poolVars, nodeVars, diskVars, boundVars
<1>13. QED
  BY <1>1, <1>2, <1>3, <1>4, <1>5, <1>6, <1>7, <1>8, <1>9, <1>10, <1>11, <1>12
    DEF Next

(* ProducerInv holds in every reachable state.                             *)
THEOREM Invariance == Spec => []ProducerInv
<1>1. Init => ProducerInv
  BY InitInv
<1>2. ProducerInv /\ [Next]_vars => ProducerInv'
  BY InvarianceStep
<1>3. QED
  BY <1>1, <1>2, PTL DEF Spec

(* Every variable keeps its type.                                          *)
THEOREM TypeCorrect == Spec => []TypeOK
<1>1. ProducerInv => TypeOK
  BY DEF ProducerInv
<1>2. QED
  BY <1>1, Invariance, PTL

(* No account has two confirmed transactions with the same nonce, across   *)
(* expiries, rejected blocks and restarts at any moment.                   *)
THEOREM NothingConfirmedTwice == Spec => []NoDoubleConfirm
<1>1. ProducerInv => NoDoubleConfirm
  BY DEF ProducerInv
<1>2. QED
  BY <1>1, Invariance, PTL

(* The confirmed transactions are behind the nonces in storage.            *)
THEOREM ReplayProtected == Spec => []ReplayProtection
<1>1. ProducerInv => ReplayProtection
  BY DEF ProducerInv
<1>2. QED
  BY <1>1, Invariance, PTL

(* Memory and storage agree whenever no block is being executed, and the   *)
(* latest block always commits to what is stored.                          *)
THEOREM MemoryMatchesStorage == Spec => []MemoryIsStored
<1>1. ProducerInv => MemoryIsStored
  BY DEF ProducerInv
<1>2. QED
  BY <1>1, Invariance, PTL

(* An account has at most one pending transaction with a nonce.            *)
THEOREM NoRivals == Spec => []OneTxPerNonce
<1>1. ProducerInv => OneTxPerNonce
  BY DEF ProducerInv
<1>2. QED
  BY <1>1, Invariance, PTL

(* A stale cached balance never exceeds the ledger's.                      *)
THEOREM CacheSafe == Spec => []CacheNeverAhead
<1>1. ProducerInv => CacheNeverAhead
  BY DEF ProducerInv
<1>2. QED
  BY <1>1, Invariance, PTL

(* Executing a block never changes the sponsor, bond or registration       *)
(* height of an account that stays registered.                             *)
THEOREM RegistrationsKept == Spec => RegistrationKept
<1>1. ProducerInv /\ [Next]_vars =>
        [pc = "apply" /\ pc' = "apply" => KeepsRegistrations]_vars
  <2>1. SUFFICES ASSUME ProducerInv, Next, pc = "apply", pc' = "apply"
                 PROVE  KeepsRegistrations
    OBVIOUS
  <2>2. ExecuteBlock
    BY <2>1 DEF Next, Admit, Expire, StartBlock, SelectTx, EndSelection, SealBlock,
                RejectBlock, CheckInvariants, Restart, EndBlock
  <2>3. PICK tx : /\ todo # <<>> /\ tx = Head(todo)
                  /\ \/ SkipTx(tx) \/ AbandonTx(tx) \/ ApplyTransfer(tx)
                     \/ ApplyRegister(tx) \/ ApplyUnregister(tx) \/ ApplyHeartbeat(tx)
    BY <2>2 DEF ExecuteBlock, ExecuteTx
  <2>4. QED
    BY <2>1, <2>3, ExecuteStep DEF ProducerInv, TypeOK
<1>2. QED
  BY <1>1, Invariance, PTL DEF Spec, RegistrationKept, KeepsRegistrations

(***************************************************************************)
(* Inflation.  Every debit takes at least the cost from the circulating    *)
(* units, because no cached balance is ahead of the ledger; what follows   *)
(* it in an iteration gives back no more than the cost.                    *)
(***************************************************************************)
LEMMA CirculatingType ==
  ASSUME NEW l \in Ledgers
  PROVE  /\ l.balances \in [Accounts -> Nat] /\ SumFunction(l.balances) \in Nat
         /\ Bonds(l) \in [Accounts -> Nat] /\ SumFunction(Bonds(l)) \in Nat
         /\ Circulating(l) \in Nat
<1>1. l.balances \in [Accounts -> Nat]
  BY DEF Ledgers
<1>2. Bonds(l) \in [Accounts -> Nat]
  BY DEF Bonds, Registered, Ledgers, ParticipantRecords
<1>3. SumFunction(l.balances) \in Nat /\ SumFunction(Bonds(l)) \in Nat
  BY <1>1, <1>2, ExecutionAssumption, SumOfNaturals
<1> QED BY <1>1, <1>2, <1>3 DEF Circulating

(* Two ledgers that differ in one balance differ by as much.               *)
LEMMA BalanceCirculates ==
  ASSUME NEW l \in Ledgers, NEW m \in Ledgers, NEW a \in Accounts, NEW n \in Nat,
         m.balances = [l.balances EXCEPT ![a] = n],
         \A b \in Accounts : Bonds(m)[b] = Bonds(l)[b]
  PROVE  Circulating(m) = Circulating(l) - l.balances[a] + n
<1>1. /\ l.balances \in [Accounts -> Int] /\ l.balances[a] \in Nat
      /\ SumFunction(l.balances) \in Nat /\ SumFunction(Bonds(l)) \in Nat
  BY CirculatingType
<1>2. Bonds(m) = Bonds(l)
  BY DEF Bonds
<1>3. SumFunction(m.balances) = SumFunction(l.balances) - l.balances[a] + n
  BY <1>1, ExecutionAssumption, SumChange
<1> QED BY <1>1, <1>2, <1>3 DEF Circulating

LEMMA CreditCirculates ==
  ASSUME NEW l \in Ledgers, NEW a \in Accounts, NEW units \in Nat
  PROVE  Circulating(Credit(l, a, units)) = Circulating(l) + units
<1> DEFINE m == Credit(l, a, units)
<1>1. /\ m \in Ledgers /\ m.participants = l.participants
      /\ m.balances = [l.balances EXCEPT ![a] = @ + units]
  BY CreditLemma
<1> HIDE DEF m
<1>2. l.balances[a] \in Nat /\ l.balances[a] + units \in Nat /\ Circulating(l) \in Nat
  BY CirculatingType
<1>3. \A b \in Accounts : Bonds(m)[b] = Bonds(l)[b]
  BY <1>1 DEF Bonds, Registered
<1>4. Circulating(m) = Circulating(l) - l.balances[a] + (l.balances[a] + units)
  BY <1>1, <1>2, <1>3, BalanceCirculates
<1> QED BY <1>2, <1>4 DEF m

(* Two ledgers that differ in one participant's record differ by its bond. *)
LEMMA RecordCirculates ==
  ASSUME NEW l \in Ledgers, NEW m \in Ledgers, NEW a \in Accounts,
         m.balances = l.balances,
         \A b \in Accounts \ {a} : m.participants[b] = l.participants[b]
  PROVE  Circulating(m) = Circulating(l) - Bonds(l)[a] + Bonds(m)[a]
<1>1. /\ Bonds(l) \in [Accounts -> Int] /\ Bonds(l)[a] \in Nat /\ Bonds(m)[a] \in Nat
      /\ SumFunction(l.balances) \in Nat /\ SumFunction(Bonds(l)) \in Nat
      /\ Bonds(m) \in [Accounts -> Nat]
  BY CirculatingType
<1>2. \A b \in Accounts \ {a} : Bonds(m)[b] = Bonds(l)[b]
  BY DEF Bonds, Registered
<1>3. Bonds(m) = [Bonds(l) EXCEPT ![a] = Bonds(m)[a]]
  BY <1>1, <1>2
<1>4. SumFunction(Bonds(m)) = SumFunction(Bonds(l)) - Bonds(l)[a] + Bonds(m)[a]
  BY <1>1, <1>3, ExecutionAssumption, SumChange
<1> QED BY <1>1, <1>4 DEF Circulating

LEMMA DebitCirculates ==
  ASSUME ExecTypeOK, CacheNeverAhead, NEW tx \in Txs, Funded(tx)
  PROVE  Circulating(Debited(tx)) <= Circulating(ledger) - Cost(tx)
<1> DEFINE d == Debited(tx)
           a == tx.from
           rest == Spendable(a) - Cost(tx)
<1>1. ledger \in Ledgers /\ a \in Accounts
  BY DEF ExecTypeOK, Txs
<1>2. d \in Ledgers /\ d.balances = [ledger.balances EXCEPT ![a] = rest]
  BY DebitedLemma
<1>3. rest \in Nat /\ Spendable(a) \in Nat /\ Cost(tx) \in Nat
  BY SpendableLemma, CostType
<1>4. \A b \in Accounts : Bonds(d)[b] = Bonds(ledger)[b]
  <2>1. \A b \in Accounts : Registered(d, b) <=> Registered(ledger, b)
    BY DebitedLemma
  <2>2. \A b \in Accounts :
          Registered(ledger, b) => d.participants[b].bond = ledger.participants[b].bond
    BY DebitedKeeps
  <2> HIDE DEF d
  <2> QED BY <2>1, <2>2 DEF Bonds
<1>5. Spendable(a) <= ledger.balances[a] /\ ledger.balances[a] \in Nat
  BY <1>1, CirculatingType DEF Spendable, CacheNeverAhead
<1>6. Circulating(ledger) \in Nat
  BY <1>1, CirculatingType
<1> HIDE DEF d
<1>7. Circulating(d) = Circulating(ledger) - ledger.balances[a] + rest
  <2> HIDE DEF rest
  <2> QED BY <1>1, <1>2, <1>3, <1>4, BalanceCirculates
<1> QED BY <1>3, <1>5, <1>6, <1>7 DEF d

(* What the end of an iteration credits is the fee.                        *)
LEMMA AppliedCirculates ==
  ASSUME ExecTypeOK, NEW tx \in Txs, Funded(tx),
         NEW l \in Ledgers, l.nonces = ledger.nonces, Applied(tx, l)
  PROVE  Circulating(ledger') = Circulating(l) + tx.fee
<1>1. /\ ledger' \in Ledgers /\ ledger'.participants = l.participants
      /\ ledger'.balances = [l.balances EXCEPT ![Treasury] = @ + tx.fee]
  BY AppliedLemma
<1>2. Treasury \in Accounts /\ tx.fee \in Nat
  BY ExecutionAssumption DEF Txs
<1>3. /\ l.balances[Treasury] \in Nat /\ l.balances[Treasury] + tx.fee \in Nat
      /\ Circulating(l) \in Nat
  BY <1>2, CirculatingType
<1>4. \A b \in Accounts : Bonds(ledger')[b] = Bonds(l)[b]
  BY <1>1 DEF Bonds, Registered
<1>5. Circulating(ledger') =
        Circulating(l) - l.balances[Treasury] + (l.balances[Treasury] + tx.fee)
  BY <1>1, <1>2, <1>3, <1>4, BalanceCirculates
<1> QED BY <1>2, <1>3, <1>5

(* No iteration of the loop adds to what circulates.                       *)
LEMMA ExecuteCirculates ==
  ASSUME ExecTypeOK, CacheNeverAhead, NEW tx \in Txs,
         \/ SkipTx(tx) \/ AbandonTx(tx) \/ ApplyTransfer(tx)
         \/ ApplyRegister(tx) \/ ApplyUnregister(tx) \/ ApplyHeartbeat(tx)
  PROVE  Circulating(ledger') <= Circulating(ledger)
<1> DEFINE d == Debited(tx)
<1>1. /\ Circulating(ledger) \in Nat /\ Cost(tx) \in Nat
      /\ tx.from \in Accounts /\ tx.amount \in Nat /\ tx.fee \in Nat
      /\ BondDue(tx) \in Nat
  BY CirculatingType, CostType, ExecutionAssumption DEF ExecTypeOK, Txs, BondDue
<1>2. Cost(tx) = tx.amount + tx.fee + BondDue(tx)
  BY DEF Cost
<1>3. CASE SkipTx(tx)
  BY <1>1, <1>3 DEF SkipTx
<1>4. ASSUME Funded(tx)
      PROVE  /\ d \in Ledgers /\ d.nonces = ledger.nonces /\ Circulating(d) \in Nat
             /\ Circulating(d) <= Circulating(ledger) - Cost(tx)
             /\ d.balances \in [Accounts -> Nat]
             /\ d.participants \in [Accounts -> ParticipantRecords \cup {Null}]
  <2>1. d \in Ledgers /\ d.nonces = ledger.nonces
    BY <1>4, DebitedLemma
  <2> QED BY <1>4, <2>1, DebitCirculates, CirculatingType DEF Ledgers
<1>5. CASE AbandonTx(tx)
  BY <1>1, <1>4, <1>5 DEF AbandonTx
<1>6. CASE ApplyTransfer(tx)
  <2> DEFINE l == Credit(d, tx.to, tx.amount)
  <2>1. Funded(tx) /\ Effective(tx) /\ tx.type = "transfer" /\ Applied(tx, l)
    BY <1>6 DEF ApplyTransfer
  <2>2. l \in Ledgers /\ l.nonces = ledger.nonces
    BY <2>1, TransferLedger
  <2>3. tx.to \in Accounts
    BY <2>1 DEF Effective, Txs
  <2>4. Circulating(l) = Circulating(d) + tx.amount
    BY <1>1, <1>4, <2>1, <2>3, CreditCirculates
  <2> HIDE DEF l
  <2>5. Circulating(ledger') = Circulating(l) + tx.fee
    BY <2>1, <2>2, AppliedCirculates
  <2> HIDE DEF d
  <2> QED BY <1>1, <1>2, <1>4, <2>1, <2>4, <2>5
<1>7. CASE ApplyRegister(tx)
  <2> DEFINE record == [sponsor |-> tx.from, bond |-> BondDue(tx),
                        registeredHeight |-> height, lastSeenHeight |-> height]
             l == [d EXCEPT !.participants[tx.participant] = record]
  <2>1. /\ Funded(tx) /\ Effective(tx) /\ tx.type = "register_participant"
        /\ Applied(tx, l)
    BY <1>7 DEF ApplyRegister
  <2>2. /\ l \in Ledgers /\ l.nonces = ledger.nonces /\ l.balances = d.balances
        /\ tx.participant \in Accounts /\ ~Registered(ledger, tx.participant)
        /\ \A b \in Accounts \ {tx.participant} : l.participants[b] = d.participants[b]
    BY <2>1, RegisterLedger
  <2>3. Bonds(d)[tx.participant] = 0
    <3>1. ~Registered(d, tx.participant)
      BY <2>1, <2>2, DebitedLemma
    <3> QED BY <2>2, <3>1 DEF Bonds
  <2>4. Bonds(l)[tx.participant] = BondDue(tx)
    <3>1. record \in ParticipantRecords /\ record.bond = BondDue(tx)
      BY <1>1 DEF ParticipantRecords, ExecTypeOK
    <3>2. record # Null
      BY <3>1, ExecutionAssumption DEF ParticipantRecords
    <3>3. l.participants[tx.participant] = record
      <4> HIDE DEF record
      <4> QED BY <1>4, <2>1, <2>2 DEF Ledgers
    <3> HIDE DEF record, l
    <3> QED BY <2>2, <3>1, <3>2, <3>3 DEF Bonds, Registered
  <2> HIDE DEF l
  <2>5. Circulating(l) = Circulating(d) - Bonds(d)[tx.participant] + Bonds(l)[tx.participant]
    <3> HIDE DEF d
    <3> QED BY <1>4, <2>1, <2>2, RecordCirculates
  <2>6. Circulating(ledger') = Circulating(l) + tx.fee
    BY <2>1, <2>2, AppliedCirculates
  <2> HIDE DEF d
  <2> QED BY <1>1, <1>2, <1>4, <2>1, <2>3, <2>4, <2>5, <2>6
<1>8. CASE ApplyUnregister(tx)
  <2> DEFINE record == ledger.participants[tx.from]
             left == [d EXCEPT !.participants[tx.from] = Null]
             l == Credit(left, record.sponsor, record.bond)
  <2>1. /\ Funded(tx) /\ Effective(tx) /\ tx.type = "unregister_participant"
        /\ Applied(tx, l)
    BY <1>8 DEF ApplyUnregister
  <2>2. l \in Ledgers /\ l.nonces = ledger.nonces
    BY <2>1, UnregisterLedger
  <2>3. Registered(d, tx.from) /\ Registered(ledger, tx.from)
    BY <1>1, <2>1, DebitedLemma DEF Effective
  <2>4. record.sponsor \in Accounts /\ record.bond \in Nat
    BY <1>1, <2>3 DEF Registered, ExecTypeOK, Ledgers, ParticipantRecords
  <2>5. Bonds(d)[tx.from] = record.bond
    BY <1>1, <2>1, <2>3, DebitedKeeps DEF Bonds
  <2> HIDE DEF record
  <2>6. /\ left \in Ledgers /\ left.balances = d.balances
        /\ left.participants = [d.participants EXCEPT ![tx.from] = Null]
    <3> HIDE DEF d
    <3> QED BY <1>1, <1>4, <2>1 DEF Ledgers
  <2> HIDE DEF left
  <2>7. Bonds(left)[tx.from] = 0 /\ \A b \in Accounts \ {tx.from} :
                                       left.participants[b] = d.participants[b]
    BY <1>1, <1>4, <2>1, <2>6 DEF Bonds, Registered
  <2>8. Circulating(left) = Circulating(d) - Bonds(d)[tx.from] + Bonds(left)[tx.from]
    <3> HIDE DEF d
    <3> QED BY <1>1, <1>4, <2>1, <2>6, <2>7, RecordCirculates
  <2>9. Circulating(l) = Circulating(left) + record.bond
    BY <2>4, <2>6, CreditCirculates
  <2> HIDE DEF l
  <2>10. Circulating(ledger') = Circulating(l) + tx.fee
    BY <2>1, <2>2, AppliedCirculates
  <2> HIDE DEF d
  <2> QED BY <1>1, <1>2, <1>4, <2>1, <2>4, <2>5, <2>7, <2>8, <2>9, <2>10
<1>9. CASE ApplyHeartbeat(tx)
  <2>1. Funded(tx) /\ Applied(tx, d)
    BY <1>9 DEF ApplyHeartbeat
  <2> HIDE DEF d
  <2>2. Circulating(ledger') = Circulating(d) + tx.fee
    BY <1>4, <2>1, AppliedCirculates
  <2> QED BY <1>1, <1>2, <1>4, <2>1, <2>2
<1> QED BY <1>3, <1>5, <1>6, <1>7, <1>8, <1>9

(* The rewards of a block add what the block mints, to the unit.           *)
LEMMA RewardedCirculates ==
  ASSUME NEW l \in Ledgers, NEW h \in Nat
  PROVE  Circulating(Rewarded(l, h)) = Circulating(l) + ParticipantUnits + TreasuryUnits
<1> DEFINE active == ActiveParticipants(l, h)
           n == Cardinality(active)
           share == IF active = {} THEN 0 ELSE ParticipantUnits \div n
           balances == [a \in Accounts |-> IF a \in active THEN l.balances[a] + share
                                                           ELSE l.balances[a]]
           shares == [a \in Accounts |-> IF a \in active THEN share ELSE 0]
           paid == [l EXCEPT !.balances = balances]
           rest == TreasuryUnits + ParticipantUnits - share * n
<1>1. IsFiniteSet(active) /\ active \in SUBSET Accounts
  BY ExecutionAssumption, FS_Subset DEF ActiveParticipants
<1>2. n \in Nat /\ (active # {} => n # 0)
  BY <1>1, FS_CardinalityType, FS_EmptySet
<1>3. ParticipantUnits \in Nat /\ TreasuryUnits \in Nat
  BY ProducerAssumption
<1>4. share \in Nat /\ ParticipantUnits - share * n \in Nat
  <2>1. CASE active = {}
    BY <1>2, <1>3, <2>1
  <2>2. CASE active # {}
    BY <1>2, <1>3, <2>2, DivisionLemma
  <2>3. QED
    BY <2>1, <2>2
<1>5. rest \in Nat /\ share * n \in Nat
  <2> HIDE DEF share, n
  <2> QED BY <1>2, <1>3, <1>4
<1>6. l.balances \in [Accounts -> Nat] /\ balances \in [Accounts -> Nat]
  BY <1>4 DEF Ledgers
<1>7. Rewarded(l, h) = Credit(paid, Treasury, rest)
  BY <1>6 DEF Rewarded, Ledgers
<1>8. SumFunction(shares) = share * n
  <2>1. shares \in [Accounts -> Int]
    BY <1>4
  <2> HIDE DEF share, active
  <2> QED BY <1>1, <1>4, <2>1, ExecutionAssumption, SumOfShares
<1>9. SumFunction(balances) = SumFunction(l.balances) + SumFunction(shares)
  <2>1. shares \in [Accounts -> Int] /\ balances \in [Accounts -> Int]
        /\ l.balances \in [Accounts -> Int]
    BY <1>4, <1>6
  <2>2. \A a \in Accounts : balances[a] = l.balances[a] + shares[a]
    BY <1>4, <1>6
  <2> HIDE DEF balances, shares
  <2> QED BY <2>1, <2>2, ExecutionAssumption, SumPlus, SumStep
<1> HIDE DEF balances, rest, active, n, share, shares
<1>10. /\ paid \in Ledgers
       /\ paid.balances = balances
       /\ paid.participants = l.participants
  BY <1>6 DEF Ledgers
<1> HIDE DEF paid
<1>11. Bonds(paid) = Bonds(l)
  BY <1>10 DEF Bonds, Registered
<1>12. Circulating(paid) = Circulating(l) + share * n
  <2>1. SumFunction(l.balances) \in Nat /\ SumFunction(Bonds(l)) \in Nat
    BY CirculatingType
  <2> QED BY <1>5, <1>8, <1>9, <1>10, <1>11, <2>1 DEF Circulating
<1>13. Circulating(Credit(paid, Treasury, rest)) = Circulating(paid) + rest
  BY <1>5, <1>10, ExecutionAssumption, CreditCirculates
<1>14. Circulating(l) \in Nat
  BY CirculatingType
<1> QED BY <1>3, <1>5, <1>7, <1>12, <1>13, <1>14 DEF rest

(* What is in storage is within the supply as well: a rejected block and a *)
(* restart go back to it.                                                  *)
SupplyInv ==
  /\ NoInflation
  /\ Circulating(stored.ledger) <= TotalSupply(LatestHeight)

LEMMA SupplyStep ==
  ASSUME ProducerInv, SupplyInv, [Next]_vars
  PROVE  SupplyInv'
<1>1. /\ ledger \in Ledgers /\ stored.ledger \in Ledgers /\ chain \in Seq(Range(chain))
      /\ ParticipantUnits \in Nat /\ TreasuryUnits \in Nat
      /\ Circulating(InitialLedger) \in Nat /\ Len(chain) \in Nat /\ height \in Nat
  <2>1. InitialLedger \in Ledgers /\ ParticipantUnits \in Nat /\ TreasuryUnits \in Nat
    BY ProducerAssumption
  <2>2. Circulating(InitialLedger) \in Nat
    BY <2>1, CirculatingType
  <2>3. \E B : chain \in Seq(B)
    BY DEF ProducerInv, TypeOK
  <2>4. Len(chain) \in Nat /\ chain \in Seq(Range(chain))
    BY <2>3 DEF Range
  <2> QED BY <2>1, <2>2, <2>4 DEF ProducerInv, TypeOK, ExecTypeOK
<1>2. TotalSupply(Len(chain)) \in Nat
  <2> DEFINE minted == Len(chain) * (ParticipantUnits + TreasuryUnits)
  <2>1. minted \in Nat
    BY <1>1
  <2>2. TotalSupply(Len(chain)) = Circulating(InitialLedger) + minted
    BY DEF TotalSupply
  <2> HIDE DEF minted
  <2> QED BY <1>1, <2>1, <2>2
<1>7. ASSUME UNCHANGED <<ledger, stored, chain>> PROVE SupplyInv'
  BY <1>7 DEF SupplyInv, NoInflation, LatestHeight
<1>3. CASE ExecuteBlock
  <2>1. PICK tx : /\ todo # <<>> /\ tx = Head(todo)
                  /\ \/ SkipTx(tx) \/ AbandonTx(tx) \/ ApplyTransfer(tx)
                     \/ ApplyRegister(tx) \/ ApplyUnregister(tx) \/ ApplyHeartbeat(tx)
    BY <1>3 DEF ExecuteBlock, ExecuteTx
  <2>2. tx \in Txs
    BY <2>1 DEF ProducerInv, TypeOK, ExecTypeOK
  <2>3. Circulating(ledger') <= Circulating(ledger)
    BY <2>1, <2>2, ExecuteCirculates DEF ProducerInv, TypeOK
  <2>4. UNCHANGED <<stored, chain>>
    BY <1>3 DEF ExecuteBlock, diskVars
  <2>5. ledger' \in Ledgers
    BY <2>1, <2>2, ExecuteStep DEF ProducerInv, TypeOK, ExecTypeOK
  <2>6. /\ Circulating(ledger') \in Nat /\ Circulating(ledger) \in Nat
        /\ TotalSupply(LatestHeight) \in Nat
    <3>1. Circulating(ledger') \in Nat /\ Circulating(ledger) \in Nat
      BY <1>1, <2>5, CirculatingType
    <3> QED BY <1>2, <3>1 DEF LatestHeight
  <2>7. Circulating(ledger') <= TotalSupply(LatestHeight)
    BY <2>3, <2>6 DEF SupplyInv, NoInflation
  <2> QED BY <2>4, <2>7 DEF SupplyInv, NoInflation, LatestHeight
<1>4. CASE SealBlock
  <2> DEFINE l == Rewarded(ledger, height)
             u == ParticipantUnits + TreasuryUnits
  <2>1. /\ ledger' = l /\ stored'.ledger = l
        /\ Len(chain') = Len(chain) + 1
    BY <1>1, <1>4 DEF SealBlock
  <2>2. Circulating(l) = Circulating(ledger) + ParticipantUnits + TreasuryUnits
    BY <1>1, RewardedCirculates
  <2>3. TotalSupply(Len(chain) + 1) = TotalSupply(Len(chain)) + u
    <3>1. u \in Nat
      BY <1>1
    <3> HIDE DEF u
    <3>2. (Len(chain) + 1) * u = Len(chain) * u + u
      BY <1>1, <3>1
    <3>3. Len(chain) * u \in Nat
      BY <1>1, <3>1
    <3>4. \A n : TotalSupply(n) = Circulating(InitialLedger) + n * u
      BY DEF TotalSupply, u
    <3> QED BY <1>1, <3>1, <3>2, <3>3, <3>4
  <2>4. Circulating(ledger) \in Nat /\ TotalSupply(Len(chain)) \in Nat
    BY <1>1, <1>2, CirculatingType
  <2> HIDE DEF l
  <2>5. Circulating(l) <= TotalSupply(Len(chain) + 1)
    BY <1>1, <2>2, <2>3, <2>4 DEF SupplyInv, NoInflation, LatestHeight
  <2> QED BY <2>1, <2>5 DEF SupplyInv, NoInflation, LatestHeight
<1>5. CASE RejectBlock \/ Restart
  <2>1. ledger' = stored.ledger /\ UNCHANGED <<stored, chain>>
    BY <1>5 DEF RejectBlock, Restart, diskVars, ProducerInv, BlockInProgress
  <2> QED BY <2>1 DEF SupplyInv, NoInflation, LatestHeight
<1>6. CASE \/ \E a \in Clients : \E tx \in Submissions(a) : Admit(tx)
           \/ \E e \in mempool : Expire(e)
           \/ StartBlock
           \/ \E e \in Candidates : SelectTx(e)
           \/ EndSelection
           \/ CheckInvariants
           \/ UNCHANGED vars
  BY <1>6, <1>7
    DEF Admit, Expire, StartBlock, SelectTx, EndSelection, CheckInvariants,
        vars, execVars, diskVars
<1> QED BY <1>3, <1>4, <1>5, <1>6 DEF Next

(* Balances and locked bonds are never more than the supply, whatever      *)
(* order of debits, stale caches, refunds, rejected blocks and restarts    *)
(* (blockchain.js, applyUserTxs; invariants.js, auditLedger).              *)
THEOREM NothingIsInflated == Spec => []NoInflation
<1>1. Init => SupplyInv
  <2>1. InitialLedger \in Ledgers /\ ParticipantUnits + TreasuryUnits \in Int
    BY ProducerAssumption
  <2>2. Circulating(InitialLedger) \in Nat /\ TotalSupply(0) = Circulating(InitialLedger)
    BY <2>1, CirculatingType DEF TotalSupply
  <2> QED BY <2>2 DEF Init, SupplyInv, NoInflation, LatestHeight
<1>2. ProducerInv /\ SupplyInv /\ [Next]_vars => SupplyInv'
  BY SupplyStep
<1>3. SupplyInv => NoInflation
  BY DEF SupplyInv
<1> QED BY <1>1, <1>2, <1>3, Invariance, PTL DEF Spec

-----------------------------------------------------------------------------

(***************************************************************************)
(* Payments.  Where only transfers and heartbeats are used, whatever was   *)
(* admitted works: what an account has pending from its stored nonce on    *)
(* forms one run of nonces, which its stored balance covers, and in a      *)
(* block what it can spend covers the rest of the run.                     *)
(***************************************************************************)
OnlyPayments == EnabledTypes \subseteq {"transfer", "heartbeat"}

(* A payment is a transfer of something to someone, or a heartbeat.        *)
Payment(tx) ==
  /\ tx.type \in {"transfer", "heartbeat"}
  /\ tx.type = "transfer" => tx.to # Null /\ tx.amount > 0

(* What admission reserves for an entry, and for a set of entries.         *)
Due(e) == e.tx.amount + e.tx.fee + e.bond

Bill(S) == SumFunction([e \in S |-> Due(e)])

(* What a has pending in p from nonce n on.                                *)
Dues(p, a, n) == {e \in p : e.tx.from = a /\ e.tx.nonce >= n}

PoolOfPayments ==
  IsFiniteSet(mempool) /\ \A e \in mempool : Payment(e.tx) /\ e.bond = 0

(* The pending nonces of an account form one run.                          *)
Gapless ==
  \A e, f \in mempool : e.tx.from = f.tx.from =>
    \A k \in e.tx.nonce .. f.tx.nonce : k \in PendingNonces(e.tx.from)

(* Nothing pending is behind its signer's stored nonce.                    *)
NotBehind == \A e \in mempool : stored.ledger.nonces[e.tx.from] <= e.tx.nonce

(* A run that begins at the stored nonce is covered by the stored balance; *)
(* in a block, what is left of it by what its signer can spend.            *)
StoredCovers ==
  \A a \in Accounts : stored.ledger.nonces[a] \in PendingNonces(a) =>
    Bill(Dues(mempool, a, stored.ledger.nonces[a])) <= stored.ledger.balances[a]

CacheCovers ==
  \A a \in Accounts : stored.ledger.nonces[a] \in PendingNonces(a) =>
    Bill(Dues(mempool, a, ledger.nonces[a])) <= Spendable(a)

(* In a block, only accounts whose run begins at the stored nonce move, and*)
(* what they have moved past was applied.                                  *)
Moved ==
  \A a \in Accounts : ledger.nonces[a] # stored.ledger.nonces[a] =>
    stored.ledger.nonces[a] \in PendingNonces(a)

Served ==
  \A e \in mempool : e.tx.nonce < ledger.nonces[e.tx.from] =>
    \E j \in DOMAIN applied : applied[j] = e.tx

(* How many transactions of a come before the i-th of s, and what it means *)
(* that each of s is pending and has the nonce it will need in its turn.   *)
Ahead(s, i, a) == Cardinality({j \in 1 .. i - 1 : s[j].from = a})

InTurn(s) ==
  \A i \in DOMAIN s :
    /\ \E e \in mempool : e.tx = s[i]
    /\ s[i].nonce = ledger.nonces[s[i].from] + Ahead(s, i, s[i].from)

(* The selection is what was applied and what is still to do.              *)
SelectedGo ==
  /\ \A i \in DOMAIN selected :
       \/ \E j \in DOMAIN applied : applied[j] = selected[i]
       \/ \E j \in DOMAIN todo : todo[j] = selected[i]
  /\ \A j \in DOMAIN applied : \E i \in DOMAIN selected : selected[i] = applied[j]
  /\ \A j \in DOMAIN todo : \E i \in DOMAIN selected : selected[i] = todo[j]

BlockOfPayments == Moved /\ Served /\ CacheCovers /\ InTurn(todo) /\ SelectedGo

(* The invariant that is inductive.                                        *)
PaymentInv ==
  /\ ProducerInv
  /\ PoolOfPayments
  /\ Gapless
  /\ NotBehind
  /\ StoredCovers
  /\ pc = "select" => InTurn(selected)
  /\ pc = "apply" => BlockOfPayments

(* What the types say of a pending transaction.                            *)
LEMMA EntryTypes ==
  ASSUME TypeOK, NEW e \in mempool
  PROVE  /\ e \in Entries /\ e.tx \in Txs /\ e.tx.from \in Accounts /\ e.tx.nonce \in Nat
         /\ e.tx.amount \in Nat /\ e.tx.fee \in Nat /\ e.bond \in Nat /\ Due(e) \in Nat
<1>1. e \in Entries
  BY DEF TypeOK
<1>2. e.tx \in Txs /\ e.bond \in Nat
  BY <1>1 DEF Entries
<1>3. e.tx.from \in Accounts /\ e.tx.nonce \in Nat /\ e.tx.amount \in Nat /\ e.tx.fee \in Nat
  BY <1>2 DEF Txs
<1> QED BY <1>1, <1>2, <1>3 DEF Due

(* What the types say of the two ledgers.                                  *)
LEMMA NonceTypes ==
  ASSUME TypeOK
  PROVE  /\ ledger \in Ledgers /\ stored.ledger \in Ledgers
         /\ \A a \in Accounts : /\ ledger.nonces[a] \in Nat /\ ledger.balances[a] \in Nat
                                /\ stored.ledger.nonces[a] \in Nat
                                /\ stored.ledger.balances[a] \in Nat
<1>1. ledger \in Ledgers /\ stored.ledger \in Ledgers
  BY DEF TypeOK, ExecTypeOK
<1> QED BY <1>1 DEF Ledgers

(* A bill is a natural number, and loses what is due for an entry with it. *)
LEMMA BillStep ==
  ASSUME NEW S, IsFiniteSet(S), \A e \in S : Due(e) \in Nat
  PROVE  /\ Bill(S) \in Nat
         /\ \A x \in S : Bill(S) = Due(x) + Bill(S \ {x})
         /\ S = {} => Bill(S) = 0
<1> DEFINE f == [e \in S |-> Due(e)]
<1>1. f \in [S -> Nat] /\ f \in [S -> Int]
  OBVIOUS
<1>2. Bill(S) = SumFunction(f)
  BY DEF Bill
<1>3. ASSUME NEW x \in S PROVE Bill(S) = Due(x) + Bill(S \ {x})
  <2> DEFINE T == S \ {x}
             g == [e \in T |-> Due(e)]
  <2>1. g \in [T -> Int] /\ (\A e \in T : g[e] = f[e]) /\ T \in SUBSET S /\ f[x] = Due(x)
    OBVIOUS
  <2>2. Bill(T) = SumFunction(g)
    BY DEF Bill
  <2> HIDE DEF f, g
  <2>3. SumFunctionOnSet(f, T) = SumFunction(g)
    BY <1>1, <2>1, SumOfPart
  <2>4. SumFunction(f) = f[x] + SumFunctionOnSet(f, S \ {x})
    BY <1>1, SumStep
  <2> QED BY <1>2, <2>1, <2>2, <2>3, <2>4
<1>4. SumFunction(f) \in Nat
  <2> HIDE DEF f
  <2> QED BY <1>1, SumOfNaturals
<1>5. S = {} => SumFunction(f) = 0
  <2> HIDE DEF f
  <2> QED BY <1>1, SumStep
<1> QED BY <1>2, <1>3, <1>4, <1>5

(* The recursion of MapThenSumSet, for what is due.                        *)
AddsDues(g, S) ==
  g = [s \in SUBSET S |-> IF s = {} THEN 0 ELSE Due(Pick(s)) + g[s \ {Pick(s)}]]

(* The fold by which admission adds up what is pending is the bill of it.  *)
LEMMA SpendIsBill ==
  ASSUME NEW S, IsFiniteSet(S), \A e \in S : Due(e) \in Nat
  PROVE  MapThenSumSet(LAMBDA e : e.tx.amount + e.tx.fee + e.bond, S) = Bill(S)
<1> DEFINE w == [s \in SUBSET S |-> Bill(s)]
           g == CHOOSE h : AddsDues(h, S)
<1>1. MapThenSumSet(LAMBDA e : e.tx.amount + e.tx.fee + e.bond, S) = g[S]
  BY DEF MapThenSumSet, MapThenFoldSet, AddsDues, Pick, Due
<1>2. AddsDues(w, S)
  <2>1. \A s \in SUBSET S : w[s] = IF s = {} THEN 0 ELSE Due(Pick(s)) + w[s \ {Pick(s)}]
    <3> TAKE s \in SUBSET S
    <3>1. IsFiniteSet(s) /\ \A e \in s : Due(e) \in Nat
      BY FS_Subset
    <3>2. CASE s = {}
      BY <3>1, <3>2, BillStep
    <3>3. CASE s # {}
      <4>1. Pick(s) \in s
        BY <3>3 DEF Pick
      <4>2. Bill(s) = Due(Pick(s)) + Bill(s \ {Pick(s)})
        BY <3>1, <4>1, BillStep
      <4> QED BY <3>3, <4>2
    <3> QED BY <3>2, <3>3
  <2> QED BY <2>1 DEF AddsDues
<1>3. AddsDues(g, S)
  BY <1>2
<1> HIDE DEF g, w
<1> DEFINE C == {s \in SUBSET S : g[s] = w[s]}
<1>4. {} \in C
  BY <1>2, <1>3 DEF AddsDues
<1>5. ASSUME NEW s \in SUBSET S, s # {}, \A x \in s : s \ {x} \in C PROVE s \in C
  <2>1. Pick(s) \in s
    BY <1>5 DEF Pick
  <2>2. g[s \ {Pick(s)}] = w[s \ {Pick(s)}]
    BY <2>1, <1>5
  <2> QED BY <1>5, <2>2, <1>2, <1>3 DEF AddsDues
<1>6. SUBSET S \subseteq C
  <2> HIDE DEF C
  <2> QED BY <1>4, <1>5, SubsetInduction
<1> QED BY <1>1, <1>6 DEF w

(* Less to pay costs no more.                                              *)
LEMMA BillOrder ==
  ASSUME NEW S, IsFiniteSet(S), \A e \in S : Due(e) \in Nat, NEW T \in SUBSET S
  PROVE  Bill(T) <= Bill(S)
<1> DEFINE f == [e \in S |-> Due(e)]
           g == [e \in S |-> IF e \in T THEN Due(e) ELSE 0]
           h == [e \in T |-> Due(e)]
<1>1. /\ f \in [S -> Int] /\ g \in [S -> Int] /\ h \in [T -> Int]
      /\ \A x \in S : g[x] <= f[x]
      /\ \A x \in S \ T : g[x] = 0
      /\ \A x \in T : h[x] = g[x]
  OBVIOUS
<1>2. Bill(S) = SumFunction(f) /\ Bill(T) = SumFunction(h)
  BY DEF Bill
<1> HIDE DEF f, g, h
<1>3. SumFunctionOnSet(g, T) = SumFunction(h)
  BY <1>1, SumOfPart
<1>4. SumFunction(g) = SumFunctionOnSet(g, T)
  BY <1>1, SumOfSupport
<1>5. SumFunctionOnSet(g, S) <= SumFunctionOnSet(f, S)
  BY <1>1, SumOrder
<1>6. SumFunction(g) = SumFunctionOnSet(g, S) /\ SumFunction(f) = SumFunctionOnSet(f, S)
  BY <1>1, SumStep
<1> QED BY <1>2, <1>3, <1>4, <1>5, <1>6

(* What an account owes is finite and adds up.                             *)
LEMMA DuesTypes ==
  ASSUME TypeOK, PoolOfPayments, NEW p \in SUBSET mempool, NEW a, NEW n
  PROVE  IsFiniteSet(Dues(p, a, n)) /\ \A e \in Dues(p, a, n) : Due(e) \in Nat
<1>1. Dues(p, a, n) \in SUBSET mempool
  BY DEF Dues
<1> QED BY <1>1, FS_Subset, EntryTypes DEF PoolOfPayments

(* Between blocks what admission counts as executable is what is due, if   *)
(* it begins at the ledger's nonce, and nothing if it does not.            *)
LEMMA ExecutableLemma ==
  ASSUME TypeOK, OneTxPerNonce, PoolOfPayments, Gapless, NotBehind,
         ledger = stored.ledger, NEW a \in Accounts
  PROVE  /\ PendingSpend(a) = Bill(Executable(a))
         /\ Pending(a) = {} \/ ledger.nonces[a] \in PendingNonces(a) =>
              Executable(a) = Dues(mempool, a, ledger.nonces[a])
         /\ ledger.nonces[a] \notin PendingNonces(a) => Executable(a) = {}
<1> DEFINE n == ledger.nonces[a]
           D == Dues(mempool, a, n)
           M == {m \in PendingNonces(a) : m >= n /\ \A k \in n .. m : k \in PendingNonces(a)}
<1>1. Executable(a) = {BestPending(a, m) : m \in M}
  BY DEF Executable
<1>2. n \in Nat
  BY NonceTypes
<1>4. ASSUME NEW m \in M PROVE BestPending(a, m) \in D
  <2>1. m \in PendingNonces(a) /\ m >= n
    OBVIOUS
  <2>2. BestPending(a, m) \in Pending(a) /\ BestPending(a, m).tx.nonce = m
    BY <2>1, BestPendingLemma
  <2> QED BY <2>1, <2>2 DEF Dues, Pending
<1>5. ASSUME n \in PendingNonces(a), NEW e \in D PROVE e \in Executable(a)
  <2>1. e \in mempool /\ e \in Pending(a) /\ e.tx.nonce >= n /\ e.tx.from = a
    BY DEF Dues, Pending
  <2>2. PICK f \in Pending(a) : f.tx.nonce = n
    BY <1>5 DEF PendingNonces
  <2>3. \A k \in n .. e.tx.nonce : k \in PendingNonces(a)
    BY <2>1, <2>2 DEF Gapless, Pending
  <2>4. e.tx.nonce \in M
    BY <2>1, <2>3 DEF PendingNonces
  <2>5. BestPending(a, e.tx.nonce) = e
    <3>1. e.tx.nonce \in PendingNonces(a)
      BY <2>4
    <3>2. /\ BestPending(a, e.tx.nonce) \in Pending(a)
          /\ BestPending(a, e.tx.nonce).tx.nonce = e.tx.nonce
      BY <3>1, BestPendingLemma
    <3> QED BY <2>1, <3>2 DEF OneTxPerNonce, Pending
  <2> QED BY <1>1, <2>4, <2>5
<1>6. n \notin PendingNonces(a) => M = {}
  <2>1. \A m \in M : m \in Nat /\ n \in n .. m
    <3> SUFFICES ASSUME NEW m \in M PROVE m \in Nat /\ n \in n .. m
      OBVIOUS
    <3>1. m \in PendingNonces(a) /\ m >= n
      OBVIOUS
    <3>2. m \in Nat
      BY <3>1, EntryTypes DEF PendingNonces, Pending
    <3> QED BY <1>2, <3>1, <3>2
  <2> QED BY <2>1
<1>7. Pending(a) = {} => M = {} /\ D = {}
  BY DEF PendingNonces, Pending, Dues
<1> HIDE DEF n, D, M
<1>8. Executable(a) \subseteq D
  BY <1>1, <1>4
<1>3. PendingSpend(a) = Bill(Executable(a))
  <2>1. IsFiniteSet(D) /\ \A e \in D : Due(e) \in Nat
    BY DuesTypes DEF D
  <2>2. IsFiniteSet(Executable(a)) /\ \A e \in Executable(a) : Due(e) \in Nat
    BY <1>8, <2>1, FS_Subset
  <2> QED BY <2>2, SpendIsBill DEF PendingSpend
<1>9. Pending(a) = {} \/ n \in PendingNonces(a) => Executable(a) = D
  BY <1>1, <1>5, <1>7, <1>8
<1>10. n \notin PendingNonces(a) => Executable(a) = {}
  BY <1>1, <1>6
<1> QED BY <1>3, <1>9, <1>10 DEF n, D

(* What waits can be paid.                                                 *)
LEMMA PaymentsFunded == PaymentInv => PendingFunded
<1> SUFFICES ASSUME PaymentInv, pc = "idle", NEW a \in Accounts
             PROVE  PendingSpend(a) <= ledger.balances[a]
  BY DEF PendingFunded
<1>1. /\ TypeOK /\ OneTxPerNonce /\ PoolOfPayments /\ Gapless /\ NotBehind /\ StoredCovers
      /\ ledger = stored.ledger
  BY DEF PaymentInv, ProducerInv, MemoryIsStored, Memory
<1>2. ledger.balances[a] \in Nat
  BY <1>1, NonceTypes
<1>3. CASE ledger.nonces[a] \in PendingNonces(a)
  BY <1>1, <1>3, ExecutableLemma DEF StoredCovers
<1>4. CASE ledger.nonces[a] \notin PendingNonces(a)
  <2>1. PendingSpend(a) = Bill(Executable(a)) /\ Executable(a) = {}
    BY <1>1, <1>4, ExecutableLemma
  <2>2. IsFiniteSet(Executable(a)) /\ \A e \in Executable(a) : Due(e) \in Nat
    BY <2>1, FS_EmptySet
  <2>3. Bill(Executable(a)) = 0
    BY <2>1, <2>2, BillStep
  <2> QED BY <1>2, <2>1, <2>3
<1> QED BY <1>3, <1>4

(* A submission is of its sender and of a type that is in use.             *)
LEMMA SubmissionType ==
  ASSUME NEW a, NEW tx \in Submissions(a)
  PROVE  tx.from = a /\ tx.type \in EnabledTypes
<1>1. PICK type \in EnabledTypes :
        tx \in [type : {type}, from : {a},
                to : IF type = "transfer" THEN Accounts ELSE {Null},
                participant : IF type = "register_participant" THEN Accounts ELSE {Null},
                amount : IF type = "transfer" THEN Amounts ELSE {0},
                fee : Fees, nonce : 0 .. NextNonce(a) + 1]
  BY Zenon DEF Submissions
<1> QED BY <1>1

(* The nonce of a new transaction follows those that are pending.          *)
LEMMA NextIsAfter ==
  ASSUME TypeOK, PendingWithinGap, NEW a \in Accounts, Pending(a) # {}
  PROVE  /\ NextNonce(a) \in Nat /\ NextNonce(a) - 1 \in PendingNonces(a)
         /\ \A e \in Pending(a) : e.tx.nonce < NextNonce(a)
<1> DEFINE S == PendingNonces(a)
           B == stored.ledger.nonces[a] + MaxFutureNonceGap
<1>1. \A e \in Pending(a) : e.tx.nonce \in Nat /\ e.tx.nonce <= B
  BY DEF Pending, PendingWithinGap, TypeOK, Entries, Txs
<1>2. S \in SUBSET Nat /\ S # {} /\ \A n \in S : n <= B
  BY <1>1 DEF PendingNonces
<1>3. B \in Nat
  BY NonceTypes, ProducerAssumption
<1> HIDE DEF B
<1>4. Max(S) \in S /\ \A n \in S : n <= Max(S)
  BY <1>2, <1>3, MaxLemma
<1>5. \A e \in Pending(a) : e.tx.nonce \in S
  BY DEF PendingNonces
<1> HIDE DEF S
<1>6. NextNonce(a) = Max(S) + 1
  BY DEF NextNonce, S
<1>7. Max(S) \in Nat
  BY <1>2, <1>4
<1>8. \A n \in S : n \in Nat /\ n < Max(S) + 1
  BY <1>2, <1>4, <1>7
<1> QED BY <1>4, <1>5, <1>6, <1>7, <1>8 DEF S

(* Admission: the new transaction continues the run, and the balance       *)
(* covers it and the run.                                                  *)
LEMMA AdmitPays ==
  ASSUME OnlyPayments, PaymentInv, NEW a \in Clients, NEW tx \in Submissions(a), Admit(tx)
  PROVE  PaymentInv'
<1> DEFINE e == [tx |-> tx, bond |-> AdmissionBond(tx)]
           s == stored.ledger.nonces[a]
<1>1. /\ ProducerInv /\ TypeOK /\ OneTxPerNonce /\ PendingWithinGap
      /\ PoolOfPayments /\ Gapless /\ NotBehind /\ StoredCovers
  BY DEF PaymentInv, ProducerInv
<1>2. /\ pc = "idle" /\ mempool' = mempool \cup {e}
      /\ UNCHANGED <<ledger, stored, pc>>
      /\ tx.nonce = NextNonce(tx.from) /\ Affordable(tx)
      /\ tx.type = "transfer" => tx.to # Null /\ tx.amount > 0
  BY DEF Admit, Admissible, execVars, nodeVars, diskVars
<1>3. ProducerInv' /\ TypeOK' /\ OneTxPerNonce'
  <2>1. ProducerInv'
    BY <1>1, AdmitInv
  <2> QED BY <2>1 DEF ProducerInv
<1>4. /\ e \in mempool' /\ e.tx = tx /\ e.bond = 0 /\ tx.from = a /\ a \in Accounts
      /\ Payment(tx) /\ AdmissionBond(tx) = 0
  <2>1. tx.from = a /\ tx.type \in {"transfer", "heartbeat"} /\ a \in Accounts
    BY SubmissionType, ProducerAssumption DEF OnlyPayments
  <2>2. AdmissionBond(tx) = 0
    BY <2>1 DEF AdmissionBond
  <2> QED BY <1>2, <2>1, <2>2 DEF Payment
<1>5. tx \in Txs /\ tx.nonce \in Nat /\ Due(e) \in Nat
  <2>1. e \in Entries
    BY <1>3, <1>4 DEF TypeOK
  <2>2. e.tx \in Txs /\ e.bond \in Nat
    BY <2>1 DEF Entries
  <2> HIDE DEF e
  <2> QED BY <1>4, <2>2 DEF Txs, Due
<1> HIDE DEF e
<1>6. ledger = stored.ledger /\ s \in Nat
  BY <1>1, <1>2, <1>4, NonceTypes DEF ProducerInv, MemoryIsStored, Memory
<1>7. PoolOfPayments'
  BY <1>1, <1>2, <1>4, FS_AddElement DEF PoolOfPayments
<1>8. \A f \in Pending(a) : f \in mempool /\ f.tx.from = a /\ f.tx.nonce \in Nat /\ s <= f.tx.nonce
  BY <1>1, EntryTypes DEF Pending, NotBehind
<1>9. /\ Pending(a) = {} => tx.nonce = s
      /\ Pending(a) # {} => /\ tx.nonce - 1 \in PendingNonces(a)
                            /\ \A f \in Pending(a) : f.tx.nonce < tx.nonce
  BY <1>1, <1>2, <1>4, <1>6, NextIsAfter DEF NextNonce
<1>10. s <= tx.nonce /\ (Pending(a) # {} => s < tx.nonce)
  BY <1>5, <1>6, <1>8, <1>9
<1>11. NotBehind'
  BY <1>1, <1>2, <1>4, <1>10 DEF NotBehind
<1>12. /\ PendingNonces(a)' = PendingNonces(a) \cup {tx.nonce}
       /\ \A b \in Accounts \ {a} : PendingNonces(b)' = PendingNonces(b)
  <2>1. Pending(a)' = Pending(a) \cup {e}
    BY <1>2, <1>4 DEF Pending
  <2>2. \A b \in Accounts \ {a} : Pending(b)' = Pending(b)
    BY <1>2, <1>4 DEF Pending
  <2> QED BY <1>4, <2>1, <2>2 DEF PendingNonces
<1>13. Gapless'
  <2> SUFFICES ASSUME NEW f \in mempool', NEW g \in mempool', f.tx.from = g.tx.from,
                      NEW k \in f.tx.nonce .. g.tx.nonce
               PROVE  k \in PendingNonces(f.tx.from)'
    BY DEF Gapless
  <2>1. f.tx.from \in Accounts /\ f.tx.nonce \in Nat /\ g.tx.nonce \in Nat
    <3>1. \A m \in mempool' : m \in mempool \/ m = e
      BY <1>2
    <3>2. \A m \in mempool' : m.tx.from \in Accounts /\ m.tx.nonce \in Nat
      BY <1>1, <1>4, <1>5, <3>1, EntryTypes
    <3> QED BY <3>2
  <2>2. \A b \in Accounts : PendingNonces(b) \subseteq PendingNonces(b)'
    BY <1>12
  <2>3. CASE f \in mempool /\ g \in mempool
    BY <1>1, <2>1, <2>2, <2>3 DEF Gapless
  <2>4. CASE g = e /\ f \in mempool
    <3>1. f \in Pending(a) /\ g.tx.nonce = tx.nonce /\ f.tx.from = a
      BY <1>4, <2>4 DEF Pending
    <3>2. PICK m \in Pending(a) : m.tx.nonce = tx.nonce - 1
      BY <1>9, <3>1 DEF PendingNonces
    <3>3. CASE k = tx.nonce
      BY <1>12, <3>1, <3>3
    <3>4. CASE k # tx.nonce
      <4>1. k \in f.tx.nonce .. m.tx.nonce
        BY <1>5, <2>1, <3>1, <3>2, <3>4
      <4>2. m \in mempool /\ m.tx.from = a
        BY DEF Pending
      <4>3. k \in PendingNonces(f.tx.from)
        BY <1>1, <2>4, <3>1, <4>1, <4>2 DEF Gapless
      <4> QED BY <2>1, <2>2, <4>3
    <3> QED BY <3>3, <3>4
  <2>5. CASE f = e
    <3>1. CASE g = e
      BY <1>4, <1>5, <1>12, <2>5, <3>1
    <3>2. CASE g \in mempool
      <4>1. g \in Pending(a) /\ f.tx.nonce = tx.nonce
        BY <1>4, <2>5, <3>2 DEF Pending
      <4>2. g.tx.nonce < tx.nonce
        BY <1>9, <4>1
      <4> QED BY <1>5, <2>1, <4>1, <4>2
    <3> QED BY <1>2, <3>1, <3>2
  <2> QED BY <1>2, <2>3, <2>4, <2>5
<1>14. StoredCovers'
  <2> SUFFICES ASSUME NEW b \in Accounts, stored.ledger.nonces[b] \in PendingNonces(b)'
               PROVE  Bill(Dues(mempool', b, stored.ledger.nonces[b])) <= stored.ledger.balances[b]
    BY <1>2 DEF StoredCovers
  <2>1. CASE b # a
    <3>1. Dues(mempool', b, stored.ledger.nonces[b]) = Dues(mempool, b, stored.ledger.nonces[b])
      BY <1>2, <1>4, <2>1 DEF Dues
    <3> QED BY <1>1, <1>12, <2>1, <3>1 DEF StoredCovers
  <2>2. CASE b = a
    <3> DEFINE D  == Dues(mempool, a, s)
               D2 == Dues(mempool', a, s)
    <3>1. Pending(a) = {} \/ s \in PendingNonces(a)
      <4> SUFFICES ASSUME Pending(a) # {} PROVE s \in PendingNonces(a)
        OBVIOUS
      <4>1. s # tx.nonce
        BY <1>5, <1>6, <1>10
      <4> QED BY <1>12, <2>2, <4>1
    <3>2. Executable(a) = D /\ PendingSpend(a) = Bill(Executable(a))
      BY <1>1, <1>4, <1>6, <3>1, ExecutableLemma
    <3>3. D2 = D \cup {e}
      BY <1>2, <1>4, <1>5, <1>6, <1>10 DEF Dues
    <3>4. e \notin D
      <4> SUFFICES ASSUME e \in D PROVE FALSE
        OBVIOUS
      <4>1. e \in Pending(a)
        BY DEF Dues, Pending
      <4>2. e.tx.nonce < tx.nonce
        BY <1>9, <4>1
      <4> QED BY <1>4, <1>5, <4>2
    <3>5. /\ IsFiniteSet(D) /\ (\A f \in D : Due(f) \in Nat)
          /\ IsFiniteSet(D2) /\ (\A f \in D2 : Due(f) \in Nat)
      <4>1. IsFiniteSet(D) /\ (\A f \in D : Due(f) \in Nat)
        BY <1>1, DuesTypes
      <4> HIDE DEF D, D2
      <4> QED BY <1>5, <3>3, <4>1, FS_AddElement
    <3> HIDE DEF D, D2
    <3>6. Bill(D2) = Due(e) + Bill(D)
      <4>1. D2 \ {e} = D /\ e \in D2
        BY <3>3, <3>4
      <4> QED BY <3>5, <4>1, BillStep
    <3>7. Due(e) = tx.amount + tx.fee
      BY <1>4, <1>5 DEF Due, Txs
    <3>8. stored.ledger.balances[a] >= tx.amount + tx.fee + 0 + Bill(D)
      BY <1>2, <1>4, <1>6, <3>2 DEF Affordable
    <3>9. Bill(D) \in Nat /\ stored.ledger.balances[a] \in Nat /\ tx.amount \in Nat /\ tx.fee \in Nat
      BY <1>1, <1>4, <1>5, <3>5, BillStep, NonceTypes DEF Txs
    <3>10. Bill(D2) <= stored.ledger.balances[a]
      BY <3>6, <3>7, <3>8, <3>9
    <3> QED BY <2>2, <3>10 DEF D2
  <2> QED BY <2>1, <2>2
<1> QED BY <1>2, <1>3, <1>7, <1>11, <1>13, <1>14 DEF PaymentInv

(* Expiry takes the first of a run, which then has no beginning.           *)
LEMMA ExpirePays ==
  ASSUME PaymentInv, NEW e \in mempool, Expire(e)
  PROVE  PaymentInv'
<1>1. /\ ProducerInv /\ TypeOK /\ OneTxPerNonce
      /\ PoolOfPayments /\ Gapless /\ NotBehind /\ StoredCovers
  BY DEF PaymentInv, ProducerInv
<1>2. /\ pc = "idle" /\ mempool' = mempool \ {e}
      /\ UNCHANGED <<ledger, stored, pc>>
      /\ \A f \in Pending(e.tx.from) : e.tx.nonce <= f.tx.nonce
  BY DEF Expire, execVars, nodeVars, diskVars
<1>3. ProducerInv'
  BY <1>1, ExpireInv
<1>4. PoolOfPayments' /\ NotBehind'
  BY <1>1, <1>2, FS_Subset DEF PoolOfPayments, NotBehind
<1>5. Gapless'
  <2> SUFFICES ASSUME NEW f \in mempool', NEW g \in mempool', f.tx.from = g.tx.from,
                      NEW k \in f.tx.nonce .. g.tx.nonce
               PROVE  k \in PendingNonces(f.tx.from)'
    BY DEF Gapless
  <2>1. f \in mempool /\ g \in mempool /\ f # e /\ f.tx.nonce \in Nat /\ e.tx.nonce \in Nat
    BY <1>1, <1>2, EntryTypes
  <2>2. PICK m \in Pending(f.tx.from) : m.tx.nonce = k
    BY <1>1, <2>1 DEF Gapless, PendingNonces
  <2>3. m # e
    <3> SUFFICES ASSUME m = e PROVE FALSE
      OBVIOUS
    <3>1. e.tx.from = f.tx.from /\ f \in Pending(e.tx.from)
      BY <2>1, <2>2 DEF Pending
    <3>2. e.tx.nonce <= f.tx.nonce /\ f.tx.nonce <= e.tx.nonce
      BY <1>2, <2>2, <3>1
    <3>3. e.tx.nonce = f.tx.nonce
      BY <2>1, <3>2
    <3> QED BY <1>1, <2>1, <3>1, <3>3 DEF OneTxPerNonce
  <2>4. m \in Pending(f.tx.from)'
    BY <1>2, <2>2, <2>3 DEF Pending
  <2> QED BY <2>2, <2>4 DEF PendingNonces
<1>6. StoredCovers'
  <2> SUFFICES ASSUME NEW b \in Accounts, stored.ledger.nonces[b] \in PendingNonces(b)'
               PROVE  Bill(Dues(mempool', b, stored.ledger.nonces[b])) <= stored.ledger.balances[b]
    BY <1>2 DEF StoredCovers
  <2> DEFINE D  == Dues(mempool, b, stored.ledger.nonces[b])
             D2 == Dues(mempool', b, stored.ledger.nonces[b])
  <2>1. stored.ledger.nonces[b] \in PendingNonces(b) /\ D2 \in SUBSET D
    BY <1>2 DEF PendingNonces, Pending, Dues
  <2>2. IsFiniteSet(D) /\ \A f \in D : Due(f) \in Nat
    BY <1>1, DuesTypes
  <2>3. Bill(D) <= stored.ledger.balances[b] /\ stored.ledger.balances[b] \in Nat
    BY <1>1, <2>1, NonceTypes DEF StoredCovers
  <2> HIDE DEF D, D2
  <2>4. Bill(D2) <= Bill(D) /\ Bill(D) \in Nat /\ Bill(D2) \in Nat
    <3>1. IsFiniteSet(D2) /\ \A f \in D2 : Due(f) \in Nat
      BY <2>1, <2>2, FS_Subset
    <3> QED BY <2>1, <2>2, <3>1, BillOrder, BillStep
  <2>5. Bill(D2) <= stored.ledger.balances[b]
    BY <2>3, <2>4
  <2> QED BY <2>5 DEF D2
<1> QED BY <1>2, <1>3, <1>4, <1>5, <1>6 DEF PaymentInv

(* How many are ahead in a sequence is a natural number.                   *)
LEMMA AheadType ==
  ASSUME NEW s, NEW i \in Int, NEW a
  PROVE  Ahead(s, i, a) \in Nat /\ IsFiniteSet({j \in 1 .. i - 1 : s[j].from = a})
<1>1. IsFiniteSet(1 .. i - 1)
  BY FS_Interval
<1>2. IsFiniteSet({j \in 1 .. i - 1 : s[j].from = a})
  BY <1>1, FS_Subset
<1> QED BY <1>2, FS_CardinalityType DEF Ahead

(* What is appended is ahead of nobody.                                    *)
LEMMA AheadAppend ==
  ASSUME NEW s \in Seq(Txs), NEW tx \in Txs, NEW a
  PROVE  /\ \A i \in DOMAIN s : Ahead(Append(s, tx), i, a) = Ahead(s, i, a)
         /\ Ahead(Append(s, tx), Len(s) + 1, a) = Cardinality({i \in DOMAIN s : s[i].from = a})
<1>1. ASSUME NEW i \in 1 .. Len(s) + 1
      PROVE  {j \in 1 .. i - 1 : Append(s, tx)[j].from = a} = {j \in 1 .. i - 1 : s[j].from = a}
  <2>1. \A j \in 1 .. i - 1 : j \in 1 .. Len(s) /\ Append(s, tx)[j] = s[j]
    OBVIOUS
  <2> QED BY <2>1
<1>2. DOMAIN s = 1 .. Len(s) /\ Len(s) \in Nat /\ (Len(s) + 1) - 1 = Len(s)
      /\ Len(s) + 1 \in 1 .. Len(s) + 1
  OBVIOUS
<1>3. Ahead(Append(s, tx), Len(s) + 1, a) = Ahead(s, Len(s) + 1, a)
  BY <1>1, <1>2 DEF Ahead
<1>4. Ahead(s, Len(s) + 1, a) = Cardinality({i \in DOMAIN s : s[i].from = a})
  BY <1>2 DEF Ahead
<1>5. \A i \in DOMAIN s : Ahead(Append(s, tx), i, a) = Ahead(s, i, a)
  <2> TAKE i \in DOMAIN s
  <2>1. i \in 1 .. Len(s) + 1
    BY <1>2
  <2>2. {j \in 1 .. i - 1 : Append(s, tx)[j].from = a} = {j \in 1 .. i - 1 : s[j].from = a}
    BY <1>1, <2>1
  <2> QED BY <2>2 DEF Ahead
<1> QED BY <1>3, <1>4, <1>5

(* Who leaves at the head is ahead no more.                                *)
LEMMA AheadTail ==
  ASSUME NEW s \in Seq(Txs), s # <<>>, NEW i \in DOMAIN Tail(s), NEW a
  PROVE  /\ Tail(s)[i] = s[i + 1] /\ i + 1 \in DOMAIN s
         /\ Ahead(s, i + 1, a) = Ahead(Tail(s), i, a) + (IF Head(s).from = a THEN 1 ELSE 0)
<1> DEFINE A == {j \in 1 .. i : s[j].from = a}
           B == {j \in 1 .. i - 1 : Tail(s)[j].from = a}
           C == A \ {1}
           f == [j \in B |-> j + 1]
<1>1. /\ i \in Nat /\ i >= 1 /\ i + 1 \in DOMAIN s /\ (i + 1) - 1 = i
      /\ \A j \in 1 .. i : Tail(s)[j] = s[j + 1]
      /\ Head(s) = s[1]
  OBVIOUS
<1>2. Ahead(s, i + 1, a) = Cardinality(A) /\ Ahead(Tail(s), i, a) = Cardinality(B)
  BY <1>1 DEF Ahead
<1>3. IsFiniteSet(B) /\ Cardinality(B) \in Nat
  <2>1. PICK t : t = Tail(s)
    OBVIOUS
  <2>2. IsFiniteSet({j \in 1 .. i - 1 : t[j].from = a})
    <3>1. IsFiniteSet(1 .. i - 1)
      BY <1>1, FS_Interval
    <3> QED BY <3>1, FS_Subset
  <2>3. IsFiniteSet(B)
    BY <2>1, <2>2
  <2> QED BY <2>3, FS_CardinalityType
<1>4. f \in Bijection(B, C)
  <2>1. \A j \in B : j + 1 \in C
    BY <1>1
  <2>2. \A j \in C : j - 1 \in B /\ f[j - 1] = j
    BY <1>1
  <2>3. f \in [B -> C]
    BY <2>1
  <2>4. \A j, k \in B : f[j] = f[k] => j = k
    BY <1>1
  <2> HIDE DEF f, B, C
  <2> QED BY <2>2, <2>3, <2>4 DEF Bijection, Injection, Surjection, IsInjective
<1>5. IsFiniteSet(C) /\ Cardinality(C) = Cardinality(B)
  <2>1. ExistsBijection(B, C)
    BY <1>4 DEF ExistsBijection
  <2> HIDE DEF B, C
  <2> QED BY <1>3, <2>1, FS_Bijection
<1>6. CASE Head(s).from = a
  <2>1. A = C \cup {1} /\ 1 \notin C
    BY <1>1, <1>6
  <2> HIDE DEF A, B, C
  <2>2. Cardinality(A) = Cardinality(C) + 1
    BY <1>5, <2>1, FS_AddElement
  <2> QED BY <1>1, <1>2, <1>5, <1>6, <2>2
<1>7. CASE Head(s).from # a
  <2>1. A = C
    BY <1>1, <1>7
  <2> HIDE DEF A, B, C
  <2> QED BY <1>1, <1>2, <1>3, <1>5, <1>7, <2>1
<1> QED BY <1>6, <1>7

(* Nothing is pending at first.                                            *)
LEMMA InitPays ==
  ASSUME Init
  PROVE  PaymentInv
<1>1. ProducerInv
  BY InitInv
<1>2. mempool = {} /\ pc = "idle" /\ PendingNonces(Null) = PendingNonces(Null)
  BY DEF Init
<1>3. IsFiniteSet(mempool)
  BY <1>2, FS_EmptySet
<1> QED
  BY <1>1, <1>2, <1>3
    DEF PaymentInv, PoolOfPayments, Gapless, NotBehind, StoredCovers, PendingNonces, Pending

(* A block starts with nothing selected.                                   *)
LEMMA StartBlockPays ==
  ASSUME PaymentInv, StartBlock
  PROVE  PaymentInv'
<1>1. ProducerInv' /\ ProducerInv
  BY StartBlockInv DEF PaymentInv
<1>2. /\ pc = "idle" /\ pc' = "select"
      /\ UNCHANGED <<ledger, mempool, selected, stored>>
  BY DEF StartBlock, poolVars, diskVars
<1>3. selected = <<>>
  BY <1>1, <1>2 DEF ProducerInv, BlockInProgress
<1>4. InTurn(selected)'
  BY <1>2, <1>3 DEF InTurn
<1> QED
  BY <1>1, <1>2, <1>4
    DEF PaymentInv, PoolOfPayments, Gapless, NotBehind, StoredCovers, PendingNonces, Pending

(* The transaction that is selected has the nonce its turn asks for.       *)
LEMMA SelectTxPays ==
  ASSUME PaymentInv, NEW e \in Candidates, SelectTx(e)
  PROVE  PaymentInv'
<1>1. ProducerInv' /\ ProducerInv /\ TypeOK /\ OneTxPerNonce
  BY SelectTxInv DEF PaymentInv, ProducerInv
<1>2. /\ pc = "select" /\ pc' = "select" /\ selected' = Append(selected, e.tx)
      /\ UNCHANGED <<ledger, mempool, stored>>
  BY DEF SelectTx, execVars, nodeVars, diskVars
<1> DEFINE Taken(a) == Cardinality({i \in DOMAIN selected : selected[i].from = a})
<1>3. PICK a \in Accounts : /\ ledger.nonces[a] + Taken(a) \in PendingNonces(a)
                            /\ e = BestPending(a, ledger.nonces[a] + Taken(a))
  BY DEF Candidates
<1>4. e \in mempool /\ e.tx.from = a /\ e.tx.nonce = ledger.nonces[a] + Taken(a)
  <2>1. PICK n : n = ledger.nonces[a] + Taken(a)
    OBVIOUS
  <2>2. BestPending(a, n) \in Pending(a) /\ BestPending(a, n).tx.nonce = n
    BY <1>1, <1>3, <2>1, BestPendingLemma
  <2> QED BY <1>3, <2>1, <2>2 DEF Pending
<1>5. e.tx \in Txs /\ selected \in Seq(Txs)
  BY <1>1, <1>4, EntryTypes DEF TypeOK
<1>6. InTurn(selected)
  BY <1>2 DEF PaymentInv
<1>7. InTurn(selected)'
  <2> SUFFICES ASSUME NEW i \in DOMAIN selected'
               PROVE  /\ \E f \in mempool : f.tx = selected'[i]
                      /\ selected'[i].nonce = ledger.nonces[selected'[i].from]
                                                + Ahead(selected', i, selected'[i].from)
    BY <1>2 DEF InTurn
  <2>1. i \in DOMAIN selected \/ i = Len(selected) + 1
    BY <1>2, <1>5
  <2>2. CASE i \in DOMAIN selected
    <3>1. selected'[i] = selected[i]
      BY <1>2, <1>5, <2>2
    <3>2. Ahead(selected', i, selected[i].from) = Ahead(selected, i, selected[i].from)
      BY <1>2, <1>5, <2>2, AheadAppend
    <3> QED BY <1>6, <2>2, <3>1, <3>2 DEF InTurn
  <2>3. CASE i = Len(selected) + 1
    <3>1. selected'[i] = e.tx
      BY <1>2, <1>5, <2>3
    <3>2. Ahead(selected', i, a) = Taken(a)
      BY <1>2, <1>5, <2>3, AheadAppend
    <3> QED BY <1>4, <3>1, <3>2
  <2> QED BY <2>1, <2>2, <2>3
<1> QED
  BY <1>1, <1>2, <1>7
    DEF PaymentInv, PoolOfPayments, Gapless, NotBehind, StoredCovers, PendingNonces, Pending

(* The loop starts on the selection, with what storage holds.              *)
LEMMA EndSelectionPays ==
  ASSUME PaymentInv, EndSelection
  PROVE  PaymentInv'
<1>1. /\ ProducerInv' /\ ProducerInv /\ TypeOK /\ MemoryIsStored
      /\ NotBehind /\ StoredCovers
  BY EndSelectionInv DEF PaymentInv, ProducerInv
<1>2. /\ pc = "select" /\ pc' = "apply" /\ todo' = selected /\ applied' = <<>>
      /\ cachedBalance' = NoCache
      /\ UNCHANGED <<ledger, mempool, selected, stored>>
  BY DEF EndSelection, BeginExecution, poolVars, diskVars
<1>3. ledger = stored.ledger
  BY <1>1, <1>2 DEF MemoryIsStored, Memory
<1>4. Moved'
  BY <1>2, <1>3 DEF Moved
<1>5. Served'
  <2>1. \A e \in mempool : ~(e.tx.nonce < ledger.nonces[e.tx.from])
    BY <1>1, <1>3, EntryTypes, NonceTypes DEF NotBehind
  <2> QED BY <1>2, <2>1 DEF Served
<1>6. CacheCovers'
  <2> SUFFICES ASSUME NEW a \in Accounts, stored.ledger.nonces[a] \in PendingNonces(a)
               PROVE  Bill(Dues(mempool, a, ledger.nonces[a])) <= Spendable(a)'
    BY <1>2 DEF CacheCovers, PendingNonces, Pending
  <2>1. Spendable(a)' = stored.ledger.balances[a]
    BY <1>2, <1>3 DEF Spendable, NoCache
  <2> QED BY <1>1, <1>3, <2>1 DEF StoredCovers
<1>7. InTurn(todo)'
  <2>1. InTurn(selected)
    BY <1>2 DEF PaymentInv
  <2> QED BY <1>2, <2>1 DEF InTurn
<1>8. SelectedGo'
  BY <1>2 DEF SelectedGo
<1>9. BlockOfPayments'
  BY <1>4, <1>5, <1>6, <1>7, <1>8 DEF BlockOfPayments
<1> QED
  BY <1>1, <1>2, <1>9
    DEF PaymentInv, PoolOfPayments, Gapless, NotBehind, StoredCovers, PendingNonces, Pending

(* Rewards take from nobody.                                               *)
LEMMA RewardedPays ==
  ASSUME NEW l \in Ledgers, NEW h \in Nat, NEW a \in Accounts
  PROVE  l.balances[a] <= Rewarded(l, h).balances[a]
<1> DEFINE active == ActiveParticipants(l, h)
           n == Cardinality(active)
           share == IF active = {} THEN 0 ELSE ParticipantUnits \div n
           balances == [b \in Accounts |-> IF b \in active THEN l.balances[b] + share
                                                           ELSE l.balances[b]]
           paid == [l EXCEPT !.balances = balances]
           rest == TreasuryUnits + ParticipantUnits - share * n
<1>1. IsFiniteSet(active) /\ active \in SUBSET Accounts
  BY ExecutionAssumption, FS_Subset DEF ActiveParticipants
<1>2. n \in Nat /\ (active # {} => n # 0)
  BY <1>1, FS_CardinalityType, FS_EmptySet
<1>3. ParticipantUnits \in Nat /\ TreasuryUnits \in Nat
  BY ProducerAssumption
<1>4. share \in Nat /\ ParticipantUnits - share * n \in Nat
  <2>1. CASE active = {}
    BY <1>2, <1>3, <2>1
  <2>2. CASE active # {}
    BY <1>2, <1>3, <2>2, DivisionLemma
  <2> QED BY <2>1, <2>2
<1>5. rest \in Nat
  BY <1>2, <1>3, <1>4
<1>6. l.balances \in [Accounts -> Nat] /\ balances \in [Accounts -> Nat]
  BY <1>4 DEF Ledgers
<1>7. Rewarded(l, h) = Credit(paid, Treasury, rest)
  BY <1>6 DEF Rewarded, Ledgers
<1>8. l.balances[a] <= balances[a]
  BY <1>4, <1>6
<1> HIDE DEF balances, rest, active, n, share
<1>9. paid \in Ledgers /\ paid.balances = balances
  BY <1>6 DEF Ledgers
<1> HIDE DEF paid
<1>10. Treasury \in Accounts
  BY ExecutionAssumption
<1>11. Credit(paid, Treasury, rest).balances = [balances EXCEPT ![Treasury] = @ + rest]
  BY <1>5, <1>9, <1>10, CreditLemma
<1> QED BY <1>5, <1>6, <1>7, <1>8, <1>10, <1>11

(* A sealed block takes its transactions, and all of them are confirmed:   *)
(* what stays pending is behind none of them.                              *)
LEMMA SealBlockPays ==
  ASSUME PaymentInv, SealBlock
  PROVE  /\ PaymentInv'
         /\ \A e \in mempool \ mempool' : \E j \in DOMAIN applied : applied[j] = e.tx
<1>1. /\ ProducerInv' /\ ProducerInv /\ TypeOK /\ OneTxPerNonce /\ CacheNeverAhead
      /\ ReplayProtection /\ PoolOfPayments /\ Gapless
  BY SealBlockInv DEF PaymentInv, ProducerInv
<1>2. /\ pc = "apply" /\ pc' = "idle" /\ todo = <<>>
      /\ stored'.ledger = Rewarded(ledger, height)
      /\ mempool' = {e \in mempool : \A i \in DOMAIN selected : selected[i] # e.tx}
  BY DEF SealBlock, EndBlock
<1>3. Moved /\ Served /\ CacheCovers /\ SelectedGo
  BY <1>2 DEF PaymentInv, BlockOfPayments
<1>4. /\ stored'.ledger.nonces = ledger.nonces
      /\ \A a \in Accounts : ledger.balances[a] <= stored'.ledger.balances[a]
  BY <1>1, <1>2, RewardedLemma, RewardedPays DEF TypeOK, ExecTypeOK
<1>5. \A e \in mempool \ mempool' : \E j \in DOMAIN applied : applied[j] = e.tx
  <2> SUFFICES ASSUME NEW e \in mempool, NEW i \in DOMAIN selected, selected[i] = e.tx
               PROVE  \E j \in DOMAIN applied : applied[j] = e.tx
    BY <1>2
  <2> QED BY <1>2, <1>3 DEF SelectedGo
<1>6. NotBehind'
  <2> SUFFICES ASSUME NEW e \in mempool' PROVE ledger.nonces[e.tx.from] <= e.tx.nonce
    BY <1>4 DEF NotBehind
  <2>1. e \in mempool /\ \A i \in DOMAIN selected : selected[i] # e.tx
    BY <1>2
  <2>2. ~(e.tx.nonce < ledger.nonces[e.tx.from])
    BY <1>3, <2>1 DEF Served, SelectedGo
  <2> QED BY <1>1, <2>1, <2>2, EntryTypes, NonceTypes
<1>7. PoolOfPayments'
  BY <1>1, <1>2, FS_Subset DEF PoolOfPayments
<1>8. Gapless'
  <2> SUFFICES ASSUME NEW e \in mempool', NEW f \in mempool', e.tx.from = f.tx.from,
                      NEW k \in e.tx.nonce .. f.tx.nonce
               PROVE  k \in PendingNonces(e.tx.from)'
    BY DEF Gapless
  <2>1. /\ e \in mempool /\ f \in mempool /\ e.tx.nonce \in Nat /\ f.tx.nonce \in Nat
        /\ e.tx.from \in Accounts
    BY <1>1, <1>2, EntryTypes
  <2>2. PICK m \in Pending(e.tx.from) : m.tx.nonce = k
    BY <1>1, <2>1 DEF Gapless, PendingNonces
  <2>3. m \in mempool /\ m.tx.from = e.tx.from
    BY DEF Pending
  <2>4. m \in mempool'
    <3> SUFFICES ASSUME m \notin mempool' PROVE FALSE
      OBVIOUS
    <3>1. PICK j \in DOMAIN applied : applied[j] = m.tx
      BY <1>5, <2>3
    <3>2. m.tx.nonce < ledger.nonces[m.tx.from]
      BY <1>1, <3>1 DEF ReplayProtection
    <3>3. ledger.nonces[e.tx.from] <= e.tx.nonce
      BY <1>4, <1>6 DEF NotBehind
    <3>4. ledger.nonces[e.tx.from] \in Nat
      BY <1>1, <2>1, NonceTypes
    <3> QED BY <2>1, <2>2, <2>3, <3>2, <3>3, <3>4
  <2> QED BY <2>2, <2>3, <2>4 DEF PendingNonces, Pending
<1>9. StoredCovers'
  <2> SUFFICES ASSUME NEW a \in Accounts, ledger.nonces[a] \in PendingNonces(a)'
               PROVE  Bill(Dues(mempool', a, ledger.nonces[a])) <= stored'.ledger.balances[a]
    BY <1>4 DEF StoredCovers
  <2> DEFINE D  == Dues(mempool, a, ledger.nonces[a])
             D2 == Dues(mempool', a, ledger.nonces[a])
  <2>1. stored.ledger.nonces[a] \in PendingNonces(a)
    <3>1. ledger.nonces[a] \in PendingNonces(a)
      BY <1>2 DEF PendingNonces, Pending
    <3> QED BY <1>3, <3>1 DEF Moved
  <2>2. Bill(D) <= Spendable(a)
    BY <1>3, <2>1 DEF CacheCovers
  <2>3. /\ Spendable(a) <= ledger.balances[a] /\ Spendable(a) \in Nat
        /\ ledger.balances[a] \in Nat
    <3>1. ledger.balances[a] \in Nat
      BY <1>1, NonceTypes
    <3> QED BY <1>1, <3>1 DEF Spendable, CacheNeverAhead, TypeOK, ExecTypeOK
  <2>4. IsFiniteSet(D) /\ \A f \in D : Due(f) \in Nat
    BY <1>1, DuesTypes
  <2>5. D2 \in SUBSET D
    BY <1>2 DEF Dues
  <2> HIDE DEF D, D2
  <2>6. Bill(D2) <= Bill(D) /\ Bill(D) \in Nat /\ Bill(D2) \in Nat
    <3>1. IsFiniteSet(D2) /\ \A f \in D2 : Due(f) \in Nat
      BY <2>4, <2>5, FS_Subset
    <3> QED BY <2>4, <2>5, <3>1, BillOrder, BillStep
  <2>7. stored'.ledger.balances[a] \in Nat
    <3>1. TypeOK'
      BY <1>1 DEF ProducerInv
    <3>2. stored'.ledger \in Ledgers
      BY <3>1 DEF TypeOK
    <3> QED BY <3>2 DEF Ledgers
  <2>8. Bill(D2) <= stored'.ledger.balances[a]
    BY <1>4, <2>2, <2>3, <2>6, <2>7
  <2> QED BY <2>8 DEF D2
<1> QED BY <1>1, <1>2, <1>5, <1>6, <1>7, <1>8, <1>9 DEF PaymentInv

(* A rejected block leaves everything pending, and storage as it was.      *)
LEMMA RejectBlockPays ==
  ASSUME PaymentInv, RejectBlock
  PROVE  PaymentInv'
<1>1. ProducerInv'
  BY RejectBlockInv DEF PaymentInv
<1>2. pc' = "idle" /\ UNCHANGED <<mempool, stored>>
  BY DEF RejectBlock, EndBlock, diskVars
<1> QED
  BY <1>1, <1>2
    DEF PaymentInv, PoolOfPayments, Gapless, NotBehind, StoredCovers, PendingNonces, Pending

(* After a restart nothing is pending.                                     *)
LEMMA RestartPays ==
  ASSUME PaymentInv, Restart
  PROVE  PaymentInv'
<1>1. ProducerInv'
  BY RestartInv DEF PaymentInv
<1>2. pc' = "idle" /\ mempool' = {}
  BY DEF Restart, EndBlock
<1>3. IsFiniteSet(mempool')
  BY <1>2, FS_EmptySet
<1> QED
  BY <1>1, <1>2, <1>3
    DEF PaymentInv, PoolOfPayments, Gapless, NotBehind, StoredCovers, PendingNonces, Pending

(* Steps that change neither the pool nor a ledger nor a block.            *)
LEMMA RestPays ==
  ASSUME PaymentInv, ProducerInv',
         UNCHANGED <<execVars, poolVars, pc, stored>>
  PROVE  PaymentInv'
<1>1. PoolOfPayments' /\ Gapless' /\ NotBehind' /\ StoredCovers'
  BY DEF PaymentInv, PoolOfPayments, Gapless, NotBehind, StoredCovers, PendingNonces, Pending,
         poolVars
<1>2. InTurn(selected)' <=> InTurn(selected)
  BY DEF InTurn, execVars, poolVars
<1>3. BlockOfPayments' <=> BlockOfPayments
  BY DEF BlockOfPayments, InTurn, Moved, Served, CacheCovers, Spendable, SelectedGo,
         PendingNonces, Pending, execVars, poolVars
<1> QED BY <1>1, <1>2, <1>3 DEF PaymentInv

(* A payment that can be made is made: what its signer can spend falls by  *)
(* its cost, and nobody else's balance falls.                              *)
LEMMA PaymentWorks ==
  ASSUME ExecTypeOK, CacheNeverAhead, NEW tx \in Txs, Payment(tx), Funded(tx),
         \/ SkipTx(tx) \/ AbandonTx(tx) \/ ApplyTransfer(tx)
         \/ ApplyRegister(tx) \/ ApplyUnregister(tx) \/ ApplyHeartbeat(tx)
  PROVE  /\ ledger'.nonces = [ledger.nonces EXCEPT ![tx.from] = @ + 1]
         /\ applied' = Append(applied, tx)
         /\ cachedBalance' = [cachedBalance EXCEPT ![tx.from] = Spendable(tx.from) - Cost(tx)]
         /\ \A a \in Accounts \ {tx.from} : ledger.balances[a] <= ledger'.balances[a]
<1> DEFINE d == Debited(tx)
           c == tx.from
<1>1. /\ tx.type \in {"transfer", "heartbeat"} /\ Effective(tx)
      /\ tx.type = "transfer" => tx.to # Null /\ tx.amount > 0
  BY DEF Payment, Effective
<1>2. ApplyTransfer(tx) \/ ApplyHeartbeat(tx)
  BY <1>1 DEF SkipTx, AbandonTx, ApplyRegister, ApplyUnregister
<1>3. /\ d \in Ledgers /\ d.nonces = ledger.nonces
      /\ d.balances = [ledger.balances EXCEPT ![c] = Spendable(c) - Cost(tx)]
  BY DebitedLemma
<1>4. PICK l \in Ledgers : /\ l.nonces = ledger.nonces /\ Applied(tx, l)
                           /\ \A a \in Accounts : d.balances[a] <= l.balances[a]
  <2>1. CASE ApplyTransfer(tx)
    <3> DEFINE m == Credit(d, tx.to, tx.amount)
    <3>1. Applied(tx, m) /\ tx.type = "transfer"
      BY <2>1 DEF ApplyTransfer
    <3>2. /\ m \in Ledgers /\ m.nonces = ledger.nonces
          /\ \A a \in Accounts : m.balances[a] >= d.balances[a]
      BY <1>1, <3>1, TransferLedger
    <3>3. \A a \in Accounts : d.balances[a] <= m.balances[a]
      BY <1>3, <3>2 DEF Ledgers
    <3> QED BY <3>1, <3>2, <3>3
  <2>2. CASE ApplyHeartbeat(tx)
    <3>1. Applied(tx, d)
      BY <2>2 DEF ApplyHeartbeat
    <3>2. \A a \in Accounts : d.balances[a] <= d.balances[a]
      BY <1>3 DEF Ledgers
    <3> HIDE DEF d
    <3> QED BY <1>3, <3>1, <3>2
  <2> QED BY <1>2, <2>1, <2>2
<1>5. /\ ledger'.nonces = [ledger.nonces EXCEPT ![tx.from] = @ + 1]
      /\ ledger'.balances = [l.balances EXCEPT ![Treasury] = @ + tx.fee]
      /\ applied' = Append(applied, tx)
  BY <1>4, AppliedLemma
<1>6. cachedBalance' = [cachedBalance EXCEPT ![tx.from] = Spendable(tx.from) - Cost(tx)]
  BY <1>4 DEF Applied, Debit
<1>7. \A a \in Accounts \ {c} : ledger.balances[a] <= ledger'.balances[a]
  <2> TAKE a \in Accounts \ {c}
  <2>1. /\ l.balances \in [Accounts -> Nat] /\ ledger.balances \in [Accounts -> Nat]
        /\ tx.fee \in Nat
    BY <1>4 DEF Ledgers, ExecTypeOK, Txs
  <2>2. d.balances[a] = ledger.balances[a]
    <3> HIDE DEF d
    <3> QED BY <1>3, <2>1
  <2>3. l.balances[a] <= ledger'.balances[a]
    BY <1>5, <2>1
  <2>4. ledger.balances[a] <= l.balances[a]
    BY <1>4, <2>2
  <2>5. l.balances[a] \in Nat /\ ledger.balances[a] \in Nat /\ ledger'.balances[a] \in Nat
    BY <1>5, <2>1
  <2> QED BY <2>3, <2>4, <2>5
<1> QED BY <1>5, <1>6, <1>7

(* The head of the block has its signer's nonce, and its signer can pay it *)
(* and all it has pending after it.                                        *)
LEMMA HeadIsFunded ==
  ASSUME PaymentInv, pc = "apply", todo # <<>>, NEW tx, tx = Head(todo)
  PROVE  /\ tx \in Txs /\ Payment(tx) /\ Funded(tx) /\ Cost(tx) \in Nat
         /\ stored.ledger.nonces[tx.from] \in PendingNonces(tx.from)
         /\ \E e \in mempool : e.tx = tx /\ Due(e) = Cost(tx)
         /\ tx.nonce = ledger.nonces[tx.from]
<1>1. /\ TypeOK /\ PoolOfPayments /\ Moved /\ CacheCovers /\ InTurn(todo)
  BY DEF PaymentInv, ProducerInv, BlockOfPayments
<1>2. todo \in Seq(Txs) /\ ExecTypeOK
  BY <1>1 DEF TypeOK, ExecTypeOK
<1>3. tx \in Txs /\ 1 \in DOMAIN todo /\ todo[1] = tx
  BY <1>2
<1>4. tx.from \in Accounts /\ tx.amount \in Nat /\ tx.fee \in Nat /\ tx.nonce \in Nat
  BY <1>3 DEF Txs
<1>5. PICK e \in mempool : e.tx = tx
  BY <1>1, <1>3 DEF InTurn
<1>6. ledger.nonces[tx.from] \in Nat
  BY <1>1, <1>4, NonceTypes
<1>7. tx.nonce = ledger.nonces[tx.from]
  <2>1. tx.nonce = ledger.nonces[tx.from] + Ahead(todo, 1, tx.from)
    BY <1>1, <1>3 DEF InTurn
  <2>2. Ahead(todo, 1, tx.from) = 0
    <3>1. {j \in 1 .. 1 - 1 : todo[j].from = tx.from} = {}
      OBVIOUS
    <3> QED BY <3>1, FS_EmptySet DEF Ahead
  <2> QED BY <1>6, <2>1, <2>2
<1>8. Payment(tx) /\ e.bond = 0
  BY <1>1, <1>5 DEF PoolOfPayments
<1>9. Cost(tx) = Due(e) /\ Cost(tx) \in Nat
  <2>1. BondDue(tx) = 0
    BY <1>8 DEF BondDue, Payment
  <2> QED BY <1>4, <1>5, <1>8, <2>1 DEF Cost, Due
<1>10. stored.ledger.nonces[tx.from] \in PendingNonces(tx.from)
  <2>1. tx.nonce \in PendingNonces(tx.from)
    BY <1>5 DEF PendingNonces, Pending
  <2> QED BY <1>1, <1>4, <1>7, <2>1 DEF Moved
<1>11. Spendable(tx.from) >= Cost(tx)
  <2> DEFINE D == Dues(mempool, tx.from, ledger.nonces[tx.from])
  <2>1. Bill(D) <= Spendable(tx.from)
    BY <1>1, <1>4, <1>10 DEF CacheCovers
  <2>2. IsFiniteSet(D) /\ \A f \in D : Due(f) \in Nat
    BY <1>1, DuesTypes
  <2>3. e \in D
    BY <1>5, <1>6, <1>7 DEF Dues
  <2>4. Spendable(tx.from) \in Nat
    BY <1>1, <1>2, <1>4, NonceTypes DEF Spendable, ExecTypeOK
  <2> HIDE DEF D
  <2>5. Bill(D) = Due(e) + Bill(D \ {e}) /\ Bill(D) \in Nat
    BY <2>2, <2>3, BillStep
  <2>6. Bill(D \ {e}) \in Nat
    <3>1. D \ {e} \in SUBSET D
      OBVIOUS
    <3>2. IsFiniteSet(D \ {e}) /\ \A f \in D \ {e} : Due(f) \in Nat
      BY <2>2, FS_Subset
    <3> QED BY <3>2, BillStep
  <2> QED BY <1>9, <2>1, <2>4, <2>5, <2>6
<1> QED BY <1>3, <1>5, <1>7, <1>8, <1>9, <1>10, <1>11 DEF Funded

(* Every payment of a block is made: the rest of its signer's run stays    *)
(* covered, and so do the runs of the others.                              *)
LEMMA ExecuteBlockPays ==
  ASSUME PaymentInv, ExecuteBlock
  PROVE  PaymentInv'
<1>1. /\ ProducerInv' /\ ProducerInv /\ TypeOK /\ OneTxPerNonce /\ CacheNeverAhead
      /\ PoolOfPayments /\ Gapless /\ NotBehind /\ StoredCovers
  BY ExecuteBlockInv DEF PaymentInv, ProducerInv
<1>2. /\ pc = "apply" /\ pc' = "apply"
      /\ UNCHANGED <<mempool, selected, stored>>
      /\ ExecuteTx
  BY DEF ExecuteBlock, poolVars, nodeVars, diskVars
<1>3. Moved /\ Served /\ CacheCovers /\ InTurn(todo) /\ SelectedGo
  BY <1>2 DEF PaymentInv, BlockOfPayments
<1>4. PICK tx : /\ todo # <<>> /\ tx = Head(todo)
                /\ \/ SkipTx(tx) \/ AbandonTx(tx) \/ ApplyTransfer(tx)
                   \/ ApplyRegister(tx) \/ ApplyUnregister(tx) \/ ApplyHeartbeat(tx)
  BY <1>2 DEF ExecuteTx
<1> DEFINE c == tx.from
           n == ledger.nonces[c]
<1>5. /\ tx \in Txs /\ Payment(tx) /\ Funded(tx) /\ Cost(tx) \in Nat
      /\ stored.ledger.nonces[c] \in PendingNonces(c)
      /\ \E e \in mempool : e.tx = tx /\ Due(e) = Cost(tx)
      /\ tx.nonce = n
  BY <1>2, <1>4, HeadIsFunded
<1>6. PICK e \in mempool : e.tx = tx /\ Due(e) = Cost(tx)
  BY <1>5
<1>7. /\ ledger'.nonces = [ledger.nonces EXCEPT ![c] = @ + 1]
      /\ applied' = Append(applied, tx)
      /\ cachedBalance' = [cachedBalance EXCEPT ![c] = Spendable(c) - Cost(tx)]
      /\ \A a \in Accounts \ {c} : ledger.balances[a] <= ledger'.balances[a]
  BY <1>1, <1>4, <1>5, PaymentWorks DEF TypeOK
<1>8. todo' = Tail(todo)
  BY <1>4 DEF SkipTx, AbandonTx, ApplyTransfer, ApplyRegister, ApplyUnregister,
              ApplyHeartbeat, NextTx
<1>9. /\ c \in Accounts /\ n \in Nat
      /\ ledger.nonces \in [Accounts -> Nat]
      /\ cachedBalance \in [Accounts -> Nat \cup {Null}]
      /\ applied \in Seq(Txs) /\ todo \in Seq(Txs)
  BY <1>1, <1>5 DEF TypeOK, ExecTypeOK, Ledgers, Txs
<1>10. ledger'.nonces[c] = n + 1 /\ \A a \in Accounts \ {c} : ledger'.nonces[a] = ledger.nonces[a]
  BY <1>7, <1>9
<1>11. DOMAIN applied' = DOMAIN applied \cup {Len(applied) + 1}
       /\ applied'[Len(applied) + 1] = tx
       /\ \A j \in DOMAIN applied : applied'[j] = applied[j]
  BY <1>5, <1>7, <1>9
<1> HIDE DEF c, n
<1>12. Moved'
  BY <1>2, <1>3, <1>5, <1>10 DEF Moved, PendingNonces, Pending, c
<1>13. Served'
  <2> SUFFICES ASSUME NEW f \in mempool, f.tx.nonce < ledger'.nonces[f.tx.from]
               PROVE  \E j \in DOMAIN applied' : applied'[j] = f.tx
    BY <1>2 DEF Served
  <2>1. f.tx.from \in Accounts /\ f.tx.nonce \in Nat
    BY <1>1, EntryTypes
  <2>2. CASE f.tx.nonce < ledger.nonces[f.tx.from]
    BY <1>3, <1>11, <2>2 DEF Served
  <2>3. CASE ~(f.tx.nonce < ledger.nonces[f.tx.from])
    <3>1. f.tx.from = c /\ f.tx.nonce = n
      <4>1. f.tx.from = c
        BY <1>10, <2>1, <2>3
      <4>2. f.tx.nonce < n + 1 /\ ~(f.tx.nonce < n)
        BY <1>10, <2>3, <4>1 DEF n
      <4> QED BY <1>9, <2>1, <4>1, <4>2
    <3>2. f = e
      BY <1>1, <1>5, <1>6, <3>1 DEF OneTxPerNonce, c
    <3> QED BY <1>6, <1>11, <3>2
  <2> QED BY <2>2, <2>3
<1>14. CacheCovers'
  <2> SUFFICES ASSUME NEW a \in Accounts, stored.ledger.nonces[a] \in PendingNonces(a)
               PROVE  Bill(Dues(mempool, a, ledger'.nonces[a])) <= Spendable(a)'
    BY <1>2 DEF CacheCovers, PendingNonces, Pending
  <2>1. /\ Bill(Dues(mempool, a, ledger.nonces[a])) <= Spendable(a)
        /\ IsFiniteSet(Dues(mempool, a, ledger.nonces[a]))
        /\ \A f \in Dues(mempool, a, ledger.nonces[a]) : Due(f) \in Nat
    BY <1>1, <1>3, DuesTypes DEF CacheCovers
  <2>2. Spendable(a) \in Nat /\ ledger.balances[a] \in Nat /\ ledger'.balances[a] \in Nat
    <3>1. TypeOK'
      BY <1>1 DEF ProducerInv
    <3>2. ledger' \in Ledgers
      BY <3>1 DEF TypeOK, ExecTypeOK
    <3>3. ledger'.balances[a] \in Nat
      BY <3>2 DEF Ledgers
    <3> QED BY <1>1, <1>9, <3>3, NonceTypes DEF Spendable
  <2>3. Spendable(a)' = IF cachedBalance'[a] = Null THEN ledger'.balances[a] ELSE cachedBalance'[a]
    BY DEF Spendable
  <2>4. CASE a # c
    <3>1. cachedBalance'[a] = cachedBalance[a]
      BY <1>7, <1>9, <2>4
    <3>2. Spendable(a) <= Spendable(a)' /\ Spendable(a)' \in Nat
      BY <1>7, <1>9, <2>2, <2>3, <2>4, <3>1 DEF Spendable
    <3>3. Bill(Dues(mempool, a, ledger.nonces[a])) \in Nat
      BY <2>1, BillStep
    <3>4. ledger'.nonces[a] = ledger.nonces[a]
      BY <1>10, <2>4
    <3> QED BY <2>1, <2>2, <3>2, <3>3, <3>4
  <2>5. CASE a = c
    <3> DEFINE D  == Dues(mempool, c, n)
               D2 == Dues(mempool, c, n + 1)
    <3>1. e \in D
      BY <1>5, <1>6, <1>9 DEF Dues, c
    <3>2. D2 = D \ {e}
      <4>1. \A f \in D : f.tx.nonce \in Nat /\ (f.tx.nonce = n => f = e)
        BY <1>1, <1>5, <1>6, EntryTypes DEF Dues, OneTxPerNonce, c
      <4>2. \A f \in mempool : f.tx.nonce \in Nat
        BY <1>1, EntryTypes
      <4>3. e.tx.nonce = n
        BY <1>5, <1>6
      <4>4. \A f \in D2 : f \in D \ {e}
        BY <1>9, <4>2, <4>3 DEF Dues
      <4>5. \A f \in D \ {e} : f \in D2
        BY <1>9, <4>1 DEF Dues
      <4> HIDE DEF D, D2
      <4> QED BY <4>4, <4>5
    <3>3. IsFiniteSet(D) /\ (\A f \in D : Due(f) \in Nat) /\ Bill(D) <= Spendable(c)
      BY <2>1, <2>5 DEF n
    <3> HIDE DEF D, D2
    <3>4. Bill(D) = Due(e) + Bill(D2) /\ Bill(D) \in Nat
      BY <3>1, <3>2, <3>3, BillStep
    <3>5. Bill(D2) \in Nat
      <4>1. IsFiniteSet(D2) /\ \A f \in D2 : Due(f) \in Nat
        BY <3>2, <3>3, FS_Subset
      <4> QED BY <4>1, BillStep
    <3>6. Spendable(c) - Cost(tx) \in Nat
      BY <1>5, <1>6, <2>2, <2>5, <3>3, <3>4, <3>5
    <3>7. Spendable(a)' = Spendable(c) - Cost(tx)
      <4>1. cachedBalance'[c] = Spendable(c) - Cost(tx)
        BY <1>7, <1>9
      <4>2. cachedBalance'[c] # Null
        BY <3>6, <4>1, ExecutionAssumption
      <4> QED BY <2>3, <2>5, <4>1, <4>2
    <3>8. Bill(D2) <= Spendable(c) - Cost(tx)
      BY <1>5, <1>6, <2>2, <2>5, <3>3, <3>4, <3>5
    <3> QED BY <1>10, <2>5, <3>7, <3>8 DEF D2
  <2> QED BY <2>4, <2>5
<1>15. InTurn(todo)'
  <2> SUFFICES ASSUME NEW i \in DOMAIN todo'
               PROVE  /\ \E f \in mempool : f.tx = todo'[i]
                      /\ todo'[i].nonce = ledger'.nonces[todo'[i].from]
                                            + Ahead(todo', i, todo'[i].from)
    BY <1>2 DEF InTurn
  <2>1. PICK b : b = todo'[i].from
    OBVIOUS
  <2>2. PICK t : t = todo'
    OBVIOUS
  <2>3. /\ t[i] = todo[i + 1] /\ i + 1 \in DOMAIN todo
        /\ Ahead(todo, i + 1, b) = Ahead(t, i, b) + (IF c = b THEN 1 ELSE 0)
    BY <1>4, <1>8, <1>9, <2>2, AheadTail DEF c
  <2>4. /\ \E f \in mempool : f.tx = todo[i + 1]
        /\ todo[i + 1].nonce = ledger.nonces[b] + Ahead(todo, i + 1, b)
    BY <1>3, <2>1, <2>2, <2>3 DEF InTurn
  <2>5. b \in Accounts /\ ledger.nonces[b] \in Nat
    <3>1. todo[i + 1] \in Txs
      BY <1>9, <2>3
    <3> QED BY <1>9, <2>1, <2>2, <2>3, <3>1 DEF Txs
  <2>6. Ahead(t, i, b) \in Nat
    <3>1. i \in Int
      BY <1>8, <1>9
    <3> QED BY <3>1, AheadType
  <2>7. ledger'.nonces[b] = ledger.nonces[b] + (IF c = b THEN 1 ELSE 0)
    BY <1>9, <1>10, <2>5 DEF n
  <2>8. todo[i + 1].nonce = ledger'.nonces[b] + Ahead(t, i, b)
    BY <2>3, <2>4, <2>5, <2>6, <2>7
  <2> QED BY <2>1, <2>2, <2>3, <2>4, <2>8
<1>16. SelectedGo'
  <2>1. \A j \in DOMAIN todo : todo[j] = tx \/ \E k \in DOMAIN todo' : todo'[k] = todo[j]
    <3> TAKE j \in DOMAIN todo
    <3>1. CASE j = 1
      BY <1>4, <1>9, <3>1
    <3>2. CASE j # 1
      <4>1. j - 1 \in DOMAIN Tail(todo) /\ Tail(todo)[j - 1] = todo[j]
        BY <1>4, <1>9, <3>2
      <4> QED BY <1>8, <4>1
    <3> QED BY <3>1, <3>2
  <2>2. \A k \in DOMAIN todo' : \E j \in DOMAIN todo : todo[j] = todo'[k]
    BY <1>4, <1>8, <1>9, AheadTail
  <2>3. \E j \in DOMAIN todo : todo[j] = tx
    BY <1>4, <1>9
  <2>4. \A i \in DOMAIN selected :
          \/ \E j \in DOMAIN applied' : applied'[j] = selected[i]
          \/ \E j \in DOMAIN todo' : todo'[j] = selected[i]
    BY <1>3, <1>11, <2>1 DEF SelectedGo
  <2>5. \A j \in DOMAIN applied' : \E i \in DOMAIN selected : selected[i] = applied'[j]
    BY <1>3, <1>11, <2>3 DEF SelectedGo
  <2>6. \A j \in DOMAIN todo' : \E i \in DOMAIN selected : selected[i] = todo'[j]
    BY <1>3, <2>2 DEF SelectedGo
  <2> QED BY <1>2, <2>4, <2>5, <2>6 DEF SelectedGo
<1>17. BlockOfPayments'
  BY <1>12, <1>13, <1>14, <1>15, <1>16 DEF BlockOfPayments
<1>18. PoolOfPayments' /\ Gapless' /\ NotBehind' /\ StoredCovers'
  BY <1>1, <1>2 DEF PoolOfPayments, Gapless, NotBehind, StoredCovers, PendingNonces, Pending
<1> QED BY <1>1, <1>2, <1>17, <1>18 DEF PaymentInv

(* What a sealed block leaves out of the mempool is in it.                 *)
Confirms ==
  chain' # chain =>
    \A e \in mempool \ mempool' :
      \E j \in DOMAIN chain'[Len(chain')].txs : chain'[Len(chain')].txs[j] = e.tx

(* Every step keeps the invariant.                                         *)
LEMMA PaymentStep ==
  ASSUME OnlyPayments, PaymentInv, [Next]_vars
  PROVE  PaymentInv'
<1>1. CASE \E a \in Clients : \E tx \in Submissions(a) : Admit(tx)
  BY <1>1, AdmitPays
<1>2. CASE \E e \in mempool : Expire(e)
  BY <1>2, ExpirePays
<1>3. CASE StartBlock
  BY <1>3, StartBlockPays
<1>4. CASE \E e \in Candidates : SelectTx(e)
  BY <1>4, SelectTxPays
<1>5. CASE EndSelection
  BY <1>5, EndSelectionPays
<1>6. CASE ExecuteBlock
  BY <1>6, ExecuteBlockPays
<1>7. CASE SealBlock
  BY <1>7, SealBlockPays
<1>8. CASE RejectBlock
  BY <1>8, RejectBlockPays
<1>9. CASE CheckInvariants \/ UNCHANGED vars
  <2>1. UNCHANGED <<execVars, poolVars, pc, stored>>
    BY <1>9 DEF CheckInvariants, diskVars, nodeVars, vars
  <2>2. ProducerInv'
    BY InvarianceStep DEF PaymentInv
  <2> QED BY <2>1, <2>2, RestPays
<1>10. CASE Restart
  BY <1>10, RestartPays
<1> QED BY <1>1, <1>2, <1>3, <1>4, <1>5, <1>6, <1>7, <1>8, <1>9, <1>10 DEF Next

(* A block of payments confirms what it takes from the mempool.            *)
LEMMA PaymentConfirms ==
  ASSUME PaymentInv, [Next]_vars
  PROVE  [Confirms]_vars
<1> SUFFICES ASSUME Next, chain' # chain
             PROVE  \A e \in mempool \ mempool' :
                      \E j \in DOMAIN chain'[Len(chain')].txs : chain'[Len(chain')].txs[j] = e.tx
  BY DEF Confirms
<1>1. SealBlock
  BY DEF Next, Admit, Expire, StartBlock, SelectTx, EndSelection, ExecuteBlock,
         RejectBlock, CheckInvariants, Restart, diskVars
<1>2. \A e \in mempool \ mempool' : \E j \in DOMAIN applied : applied[j] = e.tx
  BY <1>1, SealBlockPays
<1>3. chain'[Len(chain')].txs = applied
  <2>1. PICK block : chain' = Append(chain, block) /\ block.txs = applied
    BY <1>1 DEF SealBlock
  <2>2. Len(chain) \in Nat /\ chain \in Seq({chain[i] : i \in DOMAIN chain})
    BY DEF PaymentInv, ProducerInv, TypeOK
  <2>3. chain'[Len(chain')] = block
    BY <2>1, <2>2
  <2> QED BY <2>1, <2>3
<1> QED BY <1>2, <1>3

(* Where only transfers and heartbeats are used, every account can pay all *)
(* it has pending in executable order, between any two blocks, whatever    *)
(* expired, was rejected or got lost: what the checks of POST /tx add up   *)
(* (server/routes/rpc.js) stays true without being checked again.          *)
THEOREM PaymentsCanBePaid ==
  ASSUME OnlyPayments
  PROVE  Spec => []PendingFunded
<1>1. Init => PaymentInv
  BY InitPays
<1>2. PaymentInv /\ [Next]_vars => PaymentInv'
  BY PaymentStep
<1> QED BY <1>1, <1>2, PaymentsFunded, PTL DEF Spec

(* Where only transfers and heartbeats are used, a transaction that leaves *)
(* the mempool with a block is confirmed by that block: the removal of all *)
(* selected transactions, applied or not, at the end of mineNextBlock      *)
(* (server/lib/blockchain.js) loses none.                                  *)
THEOREM SelectedPaymentsConfirm ==
  ASSUME OnlyPayments
  PROVE  Spec => SelectedAreConfirmed
<1>1. Init => PaymentInv
  BY InitPays
<1>2. PaymentInv /\ [Next]_vars => PaymentInv'
  BY PaymentStep
<1>3. PaymentInv /\ [Next]_vars => [Confirms]_vars
  BY PaymentConfirms
<1> QED BY <1>1, <1>2, <1>3, PTL DEF Spec, SelectedAreConfirmed, Confirms

-----------------------------------------------------------------------------

(***************************************************************************)
(* The observer.  A block's run is the sequence of states its loop goes    *)
(* through when every transaction is applied; as an iteration is a         *)
(* function, an observer that starts where the producer started goes       *)
(* through the same.  Of a block that lacks a transaction no run is known: *)
(* there the nonces and the flag follow the block's transactions, and the  *)
(* state root decides about the rest.                                      *)
(***************************************************************************)

O == INSTANCE TxExecutionProofs WITH
  ledger <- obsLedger, genesisFreeUsed <- obsGenesisFreeUsed,
  height <- obsHeight, todo <- obsTodo,
  cachedBalance <- obsCachedBalance, applied <- obsApplied

Stores == [ledger : Ledgers, genesisFreeUsed : BOOLEAN]

Begun(s) == [ledger |-> s.ledger, used |-> s.genesisFreeUsed, cache |-> NoCache]

Ended(x, h) == [ledger |-> Rewarded(x.ledger, h), genesisFreeUsed |-> x.used]

Run(R, s, txs, h) ==
  /\ R[0] = Begun(s)
  /\ \A k \in 1 .. Len(txs) : Works(R[k - 1], h, txs[k]) /\ R[k] = After(R[k - 1], h, txs[k])

(* A block that turns s into t when all its transactions are applied.      *)
Replays(s, t, txs, h) == \E R : Run(R, s, txs, h) /\ t = Ended(R[Len(txs)], h)

(* L holds what was stored with each block so far.                         *)
Stored(L) ==
  /\ L \in [0 .. Len(chain) -> Stores]
  /\ L[Len(chain)] = stored
  /\ L[synced] = adopted
  /\ \A k \in 1 .. Len(chain) :
       /\ StateRoot(L[k].ledger) = chain[k].stateRoot
       /\ Follows(L[k].ledger, L[k].genesisFreeUsed, L[k - 1], chain[k].txs, k)
       /\ k \notin lossy => Replays(L[k - 1], L[k], chain[k].txs, k)

(* The block the producer is working on.                                   *)
Producing ==
  /\ pc # "idle" => height = Len(chain) + 1
  /\ pc = "apply" =>
       /\ Follows(ledger, genesisFreeUsed, stored, applied, height)
       /\ Len(applied) + Len(todo) <= Len(selected)
       /\ Len(applied) + Len(todo) = Len(selected) =>
            \E R : Run(R, stored, applied, height) /\ R[Len(applied)] = Loop

ObsLoop == [ledger |-> obsLedger, used |-> obsGenesisFreeUsed, cache |-> obsCachedBalance]

(* The block the observer is working on.                                   *)
Replaying ==
  /\ obsPc = "idle" =>
       obsLedger = adopted.ledger /\ obsGenesisFreeUsed = adopted.genesisFreeUsed
  /\ obsPc = "apply" =>
       /\ ~rejected /\ synced < Len(chain) /\ obsHeight = synced + 1
       /\ Follows(obsLedger, obsGenesisFreeUsed, adopted, obsApplied, obsHeight)
       /\ Len(obsApplied) + Len(obsTodo) <= Len(NextBlock.txs)
       /\ Len(obsApplied) + Len(obsTodo) = Len(NextBlock.txs) =>
            obsApplied \o obsTodo = NextBlock.txs
       /\ \A R : Run(R, adopted, NextBlock.txs, obsHeight) =>
            /\ Len(obsApplied) + Len(obsTodo) = Len(NextBlock.txs)
            /\ ObsLoop = R[Len(obsApplied)]

ReplayTypes ==
  /\ Obs!ExecTypeOK
  /\ obsPc \in {"idle", "apply"}
  /\ adopted \in Stores
  /\ synced \in 0 .. Len(chain)
  /\ rejected \in BOOLEAN
  /\ lossy \subseteq 1 .. Len(chain)

(* What is inductive of ReplayInv.                                         *)
ReplayIInv ==
  /\ ProducerInv
  /\ ReplayTypes
  /\ OnlyLossyRejected
  /\ Producing
  /\ Replaying
  /\ \E L : Stored(L)

LEMMA ReplayImplies == ReplayIInv => ReplayInv
<1> SUFFICES ASSUME ReplayIInv PROVE ReplayInv
  OBVIOUS
<1>1. PICK L : Stored(L)
  BY DEF ReplayIInv
<1>2. AgreesAtTip
  BY <1>1 DEF Stored, AgreesAtTip
<1>3. ReplayTypeOK
  BY DEF ReplayIInv, ReplayTypes, Stores, ReplayTypeOK, ProducerInv
<1> QED BY <1>2, <1>3 DEF ReplayIInv, ReplayInv

LEMMA ReplayStart == ReplayInit => ReplayIInv
<1> SUFFICES ASSUME ReplayInit PROVE ReplayIInv
  OBVIOUS
<1> DEFINE s == [ledger |-> InitialLedger, genesisFreeUsed |-> FALSE]
<1>1. /\ Init /\ obsLedger = InitialLedger /\ obsGenesisFreeUsed = FALSE /\ obsHeight = 0
      /\ obsTodo = <<>> /\ obsCachedBalance = NoCache /\ obsApplied = <<>>
      /\ obsPc = "idle" /\ adopted = s /\ synced = 0 /\ rejected = FALSE /\ lossy = {}
      /\ chain = <<>> /\ stored = s /\ pc = "idle"
  BY DEF ReplayInit, Init
<1>2. ProducerInv
  BY <1>1, InitInv
<1>3. s \in Stores /\ InitialLedger \in Ledgers
  BY ProducerAssumption DEF Stores
<1>4. s.ledger = InitialLedger /\ s.genesisFreeUsed = FALSE
  OBVIOUS
<1>5. Obs!ExecTypeOK
  <2>1. NoCache \in [Accounts -> Nat \cup {Null}] /\ <<>> \in Seq(Txs)
    BY DEF NoCache
  <2> HIDE DEF s
  <2> QED BY <1>1, <1>3, <2>1
          DEF Obs!ExecTypeOK, Obs!Ledgers, Obs!Txs, Obs!TxTypes, Obs!ParticipantRecords,
              Ledgers, Txs, TxTypes, ParticipantRecords
<1> HIDE DEF s
<1>6. ReplayTypes
  <2>1. synced \in 0 .. Len(chain) /\ lossy \subseteq 1 .. Len(chain)
    BY <1>1
  <2> QED BY <1>1, <1>3, <1>5, <2>1, Zenon DEF ReplayTypes
<1>7. Producing /\ Replaying /\ OnlyLossyRejected
  BY <1>1, <1>4 DEF Producing, Replaying, OnlyLossyRejected
<1>8. Stored([k \in {0} |-> s])
  BY <1>1, <1>3 DEF Stored
<1> QED BY <1>2, <1>6, <1>7, <1>8 DEF ReplayIInv

-----------------------------------------------------------------------------

(* The observer's loop is the same loop.                                   *)
LEMMA SameLoop ==
  ASSUME NEW x, NEW y, NEW h, NEW tx, NEW l, NEW used, NEW s, NEW txs
  PROVE  /\ O!Works(x, h, tx) <=> Works(x, h, tx)
         /\ O!After(x, h, tx) = After(x, h, tx)
         /\ O!Follows(l, used, s, txs, h) <=> Follows(l, used, s, txs, h)
         /\ O!Loop = ObsLoop
         /\ O!ExecTypeOK <=> Obs!ExecTypeOK
<1>1. O!Free(h, tx) <=> Free(h, tx)
  BY DEF O!Free, Free
<1>2. O!Bond(x, h, tx) = Bond(x, h, tx)
  BY <1>1 DEF O!Bond, Bond
<1>3. O!Price(x, h, tx) = Price(x, h, tx)
  BY <1>2 DEF O!Price, Price
<1>4. \A a : O!Purse(x, a) = Purse(x, a)
  BY DEF O!Purse, Purse
<1>5. O!Charged(x, h, tx) = Charged(x, h, tx)
  BY <1>3, <1>4 DEF O!Charged, Charged
<1>6. ASSUME NEW m PROVE O!Succeeds(m, h, tx) <=> Succeeds(m, h, tx)
  BY DEF O!Succeeds, Succeeds, O!Registered, Registered, O!SponsoredActive, SponsoredActive,
         O!ActiveParticipants, ActiveParticipants
<1>7. O!Outcome(x, h, tx) = Outcome(x, h, tx)
  BY <1>2, <1>5 DEF O!Outcome, Outcome, O!Credit, Credit
<1>8. O!Works(x, h, tx) <=> Works(x, h, tx)
  BY <1>3, <1>4, <1>5, <1>6 DEF O!Works, Works
<1>9. O!After(x, h, tx) = After(x, h, tx)
  BY <1>1, <1>3, <1>4, <1>7 DEF O!After, After, O!Credit, Credit
<1>10. O!Follows(l, used, s, txs, h) <=> Follows(l, used, s, txs, h)
  <2>1. ASSUME NEW a PROVE O!Count(txs, a) = Count(txs, a)
    BY DEF O!Count, Count, O!Cardinality, Cardinality
  <2>2. O!AnyFree(txs, h) <=> AnyFree(txs, h)
    BY DEF O!AnyFree, AnyFree, O!Free, Free
  <2> QED BY <2>1, <2>2, Zenon DEF O!Follows, Follows
<1>11. O!Loop = ObsLoop
  BY DEF O!Loop, ObsLoop
<1>12. O!ExecTypeOK <=> Obs!ExecTypeOK
  BY DEF O!ExecTypeOK, O!Ledgers, O!Txs, O!TxTypes, O!ParticipantRecords,
         Obs!ExecTypeOK, Obs!Ledgers, Obs!Txs, Obs!TxTypes, Obs!ParticipantRecords
<1> QED BY <1>8, <1>9, <1>10, <1>11, <1>12

(* A run can be continued with a transaction that works at its end.        *)
LEMMA RunExtends ==
  ASSUME NEW R, NEW s, NEW txs \in Seq(Txs), NEW h, NEW tx \in Txs, Run(R, s, txs, h),
         Works(R[Len(txs)], h, tx)
  PROVE  \E Q : /\ Run(Q, s, Append(txs, tx), h)
                /\ Q[Len(txs) + 1] = After(R[Len(txs)], h, tx)
<1> DEFINE n == Len(txs)
           y == After(R[n], h, tx)
           Q == [k \in 0 .. n + 1 |-> IF k <= n THEN R[k] ELSE y]
           all == Append(txs, tx)
<1>1. n \in Nat /\ Len(all) = n + 1 /\ all[n + 1] = tx
      /\ \A k \in 1 .. n : all[k] = txs[k]
  OBVIOUS
<1> HIDE DEF n, y, all
<1>2. Q[n + 1] = y /\ \A k \in 0 .. n : Q[k] = R[k]
  BY <1>1
<1> HIDE DEF Q
<1>3. Q[0] = Begun(s)
  BY <1>1, <1>2 DEF Run
<1>4. ASSUME NEW k \in 1 .. Len(all)
      PROVE  Works(Q[k - 1], h, all[k]) /\ Q[k] = After(Q[k - 1], h, all[k])
  <2>1. CASE k \in 1 .. n
    <3>1. Q[k - 1] = R[k - 1] /\ Q[k] = R[k] /\ all[k] = txs[k]
      BY <1>1, <1>2, <2>1
    <3> QED BY <2>1, <3>1 DEF Run, n
  <2>2. CASE k = n + 1
    <3>1. Q[k - 1] = R[n] /\ Q[k] = y /\ all[k] = tx
      BY <1>1, <1>2, <2>2
    <3> QED BY <3>1 DEF y, n
  <2> QED BY <1>1, <1>4, <2>1, <2>2
<1>5. Run(Q, s, all, h)
  BY <1>3, <1>4 DEF Run
<1> QED BY <1>2, <1>5 DEF n, y, all

-----------------------------------------------------------------------------

(* What is known of the block at a height that is stored.                  *)
LEMMA BlockFacts ==
  ASSUME ProducerInv, NEW L, Stored(L), NEW k \in 1 .. Len(chain)
  PROVE  /\ chain[k].txs \in Seq(Txs)
         /\ L[k] \in Stores /\ L[k - 1] \in Stores
         /\ L[k].ledger \in Ledgers /\ L[k].genesisFreeUsed \in BOOLEAN
         /\ L[k - 1].ledger.nonces \in [Accounts -> Nat]
         /\ StateRoot(L[k].ledger) = chain[k].stateRoot
         /\ Follows(L[k].ledger, L[k].genesisFreeUsed, L[k - 1], chain[k].txs, k)
         /\ k \notin lossy => Replays(L[k - 1], L[k], chain[k].txs, k)
<1>1. chain[k].txs \in Seq(Txs)
  <2> DEFINE T == Seq(Txs)
             S == [balances : [Accounts -> Nat],
                   participants : [Accounts -> ParticipantRecords \cup {Null}]]
             B == [txs : T, stateRoot : S]
  <2>1. chain \in Seq(B)
    BY DEF ProducerInv, TypeOK
  <2>2. \A b \in B : b.txs \in T
    <3> HIDE DEF T, S
    <3> QED OBVIOUS
  <2> HIDE DEF B
  <2>3. chain[k] \in B
    BY <2>1
  <2> QED BY <2>2, <2>3
<1>2. k \in 0 .. Len(chain) /\ k - 1 \in 0 .. Len(chain)
  BY DEF ProducerInv, TypeOK
<1>3. L[k] \in Stores /\ L[k - 1] \in Stores
  BY <1>2 DEF Stored
<1>4. /\ L[k].ledger \in Ledgers /\ L[k].genesisFreeUsed \in BOOLEAN
      /\ L[k - 1].ledger.nonces \in [Accounts -> Nat]
  BY <1>3 DEF Stores, Ledgers
<1> QED BY <1>1, <1>3, <1>4 DEF Stored

(* Nonces are all of a ledger that Follows speaks of.                      *)
LEMMA FollowsNonces ==
  ASSUME NEW l, NEW m, l.nonces = m.nonces, NEW used, NEW s, NEW txs, NEW h,
         Follows(l, used, s, txs, h)
  PROVE  Follows(m, used, s, txs, h)
BY Zenon DEF Follows

(* A state root and the transactions determine the state.                  *)
LEMMA SameState ==
  ASSUME NEW l \in Ledgers, NEW m \in Ledgers, StateRoot(l) = StateRoot(m),
         NEW u \in BOOLEAN, NEW v \in BOOLEAN, NEW s, NEW txs, NEW h,
         Follows(l, u, s, txs, h), Follows(m, v, s, txs, h)
  PROVE  l = m /\ u = v
<1>1. l.balances = m.balances /\ l.participants = m.participants
  BY DEF StateRoot
<1>2. \A a \in Accounts : l.nonces[a] = m.nonces[a]
  BY DEF Follows
<1>3. l.nonces = m.nonces
  BY <1>2 DEF Ledgers
<1>4. l = m
  BY <1>1, <1>3 DEF Ledgers
<1>5. u <=> v
  BY Zenon DEF Follows
<1> QED BY <1>4, <1>5

(* The chain and what is stored with it do not change.                     *)
LEMMA StoredStays ==
  ASSUME NEW L, Stored(L), UNCHANGED <<chain, stored, lossy, synced, adopted>>
  PROVE  Stored(L)'
BY DEF Stored

LEMMA BeginKeeps ==
  ASSUME ReplayIInv, BeginReplay
  PROVE  ReplayIInv'
<1> DEFINE txs == NextBlock.txs
<1>1. PICK L : Stored(L)
  BY DEF ReplayIInv
<1>2. /\ ProducerInv /\ ReplayTypes /\ OnlyLossyRejected /\ Producing /\ Replaying
  BY DEF ReplayIInv
<1>3. /\ obsPc = "idle" /\ synced < Len(chain) /\ ~rejected
      /\ obsPc' = "apply" /\ obsTodo' = txs /\ obsHeight' = synced + 1
      /\ obsCachedBalance' = NoCache /\ obsApplied' = <<>>
      /\ UNCHANGED <<vars, lossy, obsLedger, obsGenesisFreeUsed, adopted, synced, rejected>>
  BY DEF BeginReplay, Obs!BeginExecution, Obs!NoCache, NoCache
<1>4. UNCHANGED vars /\ UNCHANGED <<chain, stored, pc, height, ledger, genesisFreeUsed,
        applied, todo, selected, cachedBalance>>
  BY <1>3 DEF vars, execVars, poolVars, nodeVars, diskVars
<1>5. ProducerInv'
  BY <1>2, <1>4, InvarianceStep
<1>6. synced + 1 \in 1 .. Len(chain) /\ txs \in Seq(Txs) /\ synced \in Nat
      /\ adopted \in Stores /\ obsLedger = adopted.ledger
      /\ obsGenesisFreeUsed = adopted.genesisFreeUsed
  <2>1. synced + 1 \in 1 .. Len(chain) /\ synced \in Nat
    BY <1>2, <1>3 DEF ReplayTypes
  <2>2. txs \in Seq(Txs)
    BY <1>1, <1>2, <2>1, BlockFacts DEF NextBlock
  <2> QED BY <1>2, <1>3, <2>1, <2>2 DEF ReplayTypes, Replaying
<1>7. Obs!ExecTypeOK'
  <2>1. NoCache \in [Accounts -> Nat \cup {Null}] /\ <<>> \in Seq(Txs)
    BY DEF NoCache
  <2>2. Obs!Txs = Txs
    BY DEF Obs!Txs, Txs, Obs!TxTypes, TxTypes
  <2> HIDE DEF txs
  <2> QED BY <1>2, <1>3, <1>6, <2>1, <2>2 DEF ReplayTypes, Obs!ExecTypeOK
<1>8. ReplayTypes'
  BY <1>2, <1>3, <1>4, <1>7 DEF ReplayTypes, Stores
<1>9. OnlyLossyRejected'
  BY <1>3 DEF OnlyLossyRejected
<1>10. Producing'
  BY <1>2, <1>4 DEF Producing, Loop
<1>11. NextBlock' = NextBlock
  BY <1>3, <1>4 DEF NextBlock
<1>12. Follows(obsLedger', obsGenesisFreeUsed', adopted', obsApplied', obsHeight')
  BY <1>3, <1>6, FollowsStart DEF Stores, Ledgers
<1>13. ASSUME NEW R, Run(R, adopted', NextBlock'.txs, obsHeight')
       PROVE  ObsLoop' = R[Len(obsApplied')]
  <2>1. R[0] = [ledger |-> adopted.ledger, used |-> adopted.genesisFreeUsed, cache |-> NoCache]
    BY <1>3, <1>13 DEF Run, Begun
  <2>2. Len(obsApplied') = 0
    BY <1>3
  <2> QED BY <1>3, <1>6, <2>1, <2>2 DEF ObsLoop
<1>14. Replaying'
  <2>1. /\ Len(obsApplied') = 0 /\ obsApplied' \o obsTodo' = NextBlock.txs
        /\ Len(obsTodo') = Len(NextBlock.txs) /\ Len(NextBlock.txs) \in Nat
    BY <1>3, <1>6
  <2>2. synced' < Len(chain') /\ ~rejected' /\ obsHeight' = synced' + 1 /\ obsPc' = "apply"
    BY <1>3, <1>4
  <2> HIDE DEF txs
  <2> QED BY <1>11, <1>12, <1>13, <2>1, <2>2 DEF Replaying
<1>15. Stored(L)'
  BY <1>1, <1>3, <1>4, StoredStays
<1> QED BY <1>5, <1>8, <1>9, <1>10, <1>14, <1>15 DEF ReplayIInv

(* The observer's actions are those of its loop.                           *)
LEMMA SameActions ==
  ASSUME NEW tx
  PROVE  /\ Obs!SkipTx(tx) => O!SkipTx(tx)
         /\ Obs!AbandonTx(tx) => O!AbandonTx(tx)
         /\ Obs!ApplyTransfer(tx) => O!ApplyTransfer(tx)
         /\ Obs!ApplyRegister(tx) => O!ApplyRegister(tx)
         /\ Obs!ApplyUnregister(tx) => O!ApplyUnregister(tx)
         /\ Obs!ApplyHeartbeat(tx) => O!ApplyHeartbeat(tx)
<1>1. Obs!NextTx(tx) => O!NextTx(tx)
  BY DEF Obs!NextTx, O!NextTx
<1>2. \A a : Obs!Spendable(a) = O!Spendable(a)
  BY DEF Obs!Spendable, O!Spendable
<1>3. Obs!GenesisFree(tx) <=> O!GenesisFree(tx)
  BY DEF Obs!GenesisFree, O!GenesisFree
<1>4. Obs!BondDue(tx) = O!BondDue(tx) /\ Obs!Cost(tx) = O!Cost(tx)
  BY <1>3 DEF Obs!BondDue, O!BondDue, Obs!Cost, O!Cost
<1>5. Obs!Debited(tx) = O!Debited(tx)
  BY <1>2, <1>4 DEF Obs!Debited, O!Debited, Obs!Seen, O!Seen
<1>6. Obs!Funded(tx) <=> O!Funded(tx)
  BY <1>2, <1>4 DEF Obs!Funded, O!Funded
<1>7. Obs!Effective(tx) <=> O!Effective(tx)
  BY <1>5 DEF Obs!Effective, O!Effective, Obs!Registered, O!Registered,
       Obs!SponsoredActive, O!SponsoredActive, Obs!ActiveParticipants, O!ActiveParticipants,
       O!Cardinality, Obs!Cardinality, Cardinality
<1>8. Obs!Debit(tx) => O!Debit(tx)
  BY <1>2, <1>4 DEF Obs!Debit, O!Debit
<1>9. \A l : Obs!Applied(tx, l) => O!Applied(tx, l)
  BY <1>8 DEF Obs!Applied, O!Applied, Obs!Credit, O!Credit
<1>10. Obs!SkipTx(tx) => O!SkipTx(tx)
  BY <1>1, <1>6 DEF Obs!SkipTx, O!SkipTx
<1>11. Obs!AbandonTx(tx) => O!AbandonTx(tx)
  BY <1>1, <1>5, <1>6, <1>7, <1>8 DEF Obs!AbandonTx, O!AbandonTx
<1>12. Obs!ApplyTransfer(tx) => O!ApplyTransfer(tx)
  BY <1>1, <1>5, <1>6, <1>7, <1>9
     DEF Obs!ApplyTransfer, O!ApplyTransfer, Obs!Credit, O!Credit
<1>13. Obs!ApplyRegister(tx) => O!ApplyRegister(tx)
  BY <1>1, <1>3, <1>4, <1>5, <1>6, <1>7, <1>9 DEF Obs!ApplyRegister, O!ApplyRegister
<1>14. Obs!ApplyUnregister(tx) => O!ApplyUnregister(tx)
  BY <1>1, <1>5, <1>6, <1>7, <1>9
     DEF Obs!ApplyUnregister, O!ApplyUnregister, Obs!Credit, O!Credit
<1>15. Obs!ApplyHeartbeat(tx) => O!ApplyHeartbeat(tx)
  BY <1>1, <1>5, <1>6, <1>9 DEF Obs!ApplyHeartbeat, O!ApplyHeartbeat
<1> QED BY <1>10, <1>11, <1>12, <1>13, <1>14, <1>15

(* What the loop assumes of its constants.                                 *)
LEMMA LoopAssumption == O!ExecutionAssumption
BY ExecutionAssumption DEF O!ExecutionAssumption, O!IsFiniteSet, IsFiniteSet

(* An iteration of the observer's loop, in the terms of the loop's         *)
(* functions.                                                              *)
LEMMA ObsStep ==
  ASSUME Obs!ExecTypeOK, Obs!ExecuteTx,
         NEW s, s.ledger.nonces \in [Accounts -> Nat],
         Follows(obsLedger, obsGenesisFreeUsed, s, obsApplied, obsHeight)
  PROVE  /\ obsTodo # <<>> /\ obsTodo \in Seq(Txs) /\ obsApplied \in Seq(Txs)
         /\ Obs!ExecTypeOK'
         /\ obsTodo' = Tail(obsTodo) /\ obsHeight' = obsHeight
         /\ Follows(obsLedger', obsGenesisFreeUsed', s, obsApplied', obsHeight')
         /\ Works(ObsLoop, obsHeight, Head(obsTodo)) =>
              /\ obsApplied' = Append(obsApplied, Head(obsTodo))
              /\ ObsLoop' = After(ObsLoop, obsHeight, Head(obsTodo))
         /\ ~Works(ObsLoop, obsHeight, Head(obsTodo)) => obsApplied' = obsApplied
<1>1. PICK tx : /\ obsTodo # <<>> /\ tx = Head(obsTodo)
                /\ \/ Obs!SkipTx(tx) \/ Obs!AbandonTx(tx) \/ Obs!ApplyTransfer(tx)
                   \/ Obs!ApplyRegister(tx) \/ Obs!ApplyUnregister(tx) \/ Obs!ApplyHeartbeat(tx)
  BY DEF Obs!ExecuteTx
<1>2. O!ExecTypeOK /\ O!Loop = ObsLoop
  BY SameLoop
<1>3. \/ O!SkipTx(tx) \/ O!AbandonTx(tx) \/ O!ApplyTransfer(tx)
      \/ O!ApplyRegister(tx) \/ O!ApplyUnregister(tx) \/ O!ApplyHeartbeat(tx)
  BY <1>1, SameActions
<1>4. /\ obsTodo' = Tail(obsTodo) /\ obsHeight' = obsHeight
      /\ O!Works(O!Loop, obsHeight, tx) =>
           obsApplied' = Append(obsApplied, tx) /\ O!Loop' = O!After(O!Loop, obsHeight, tx)
      /\ ~O!Works(O!Loop, obsHeight, tx) => obsApplied' = obsApplied
  BY <1>1, <1>2, <1>3, LoopAssumption, O!StepIsFunction
<1>5. O!Loop' = ObsLoop'
  BY DEF O!Loop, ObsLoop
<1>6. /\ Works(ObsLoop, obsHeight, tx) =>
           obsApplied' = Append(obsApplied, tx) /\ ObsLoop' = After(ObsLoop, obsHeight, tx)
      /\ ~Works(ObsLoop, obsHeight, tx) => obsApplied' = obsApplied
  BY <1>2, <1>4, <1>5, SameLoop
<1>7. O!Follows(obsLedger, obsGenesisFreeUsed, s, obsApplied, obsHeight)
  BY SameLoop
<1>8. O!Follows(obsLedger', obsGenesisFreeUsed', s, obsApplied', obsHeight')
  BY <1>1, <1>2, <1>3, <1>7, LoopAssumption, O!FollowsStep
<1>9. Follows(obsLedger', obsGenesisFreeUsed', s, obsApplied', obsHeight')
  BY <1>8, SameLoop
<1>10. O!ExecTypeOK'
  BY <1>1, <1>2, <1>3, LoopAssumption, O!ExecuteStep
<1>11. Obs!ExecTypeOK'
  BY <1>10 DEF O!ExecTypeOK, O!Ledgers, O!Txs, O!TxTypes, O!ParticipantRecords,
         Obs!ExecTypeOK, Obs!Ledgers, Obs!Txs, Obs!TxTypes, Obs!ParticipantRecords
<1>12. obsTodo \in Seq(Txs) /\ obsApplied \in Seq(Txs)
  <2>1. Obs!Txs = Txs
    BY DEF Obs!Txs, Txs, Obs!TxTypes, TxTypes
  <2> QED BY <2>1 DEF Obs!ExecTypeOK
<1> QED BY <1>1, <1>4, <1>6, <1>9, <1>11, <1>12

(* What an iteration makes of the transactions done and to do.             *)
LEMMA HeadMoves ==
  ASSUME NEW done \in Seq(Txs), NEW rest \in Seq(Txs), rest # <<>>
  PROVE  /\ Len(Append(done, Head(rest))) = Len(done) + 1
         /\ Len(Tail(rest)) = Len(rest) - 1
         /\ Len(done) \in Nat /\ Len(rest) \in Nat \ {0}
         /\ Append(done, Head(rest)) \o Tail(rest) = done \o rest
         /\ (done \o rest)[Len(done) + 1] = Head(rest)
<1>1. Len(done) \in Nat /\ Len(rest) \in Nat \ {0}
  OBVIOUS
<1>2. /\ Len(Append(done, Head(rest))) = Len(done) + 1
      /\ Len(Tail(rest)) = Len(rest) - 1
  OBVIOUS
<1>3. (done \o rest)[Len(done) + 1] = Head(rest)
  BY <1>1
<1>4. Append(done, Head(rest)) \o Tail(rest) = done \o rest
  OBVIOUS
<1> QED BY <1>1, <1>2, <1>3, <1>4

LEMMA ReplayTxKeeps ==
  ASSUME ReplayIInv, ReplayTx
  PROVE  ReplayIInv'
<1> DEFINE txs == NextBlock.txs
           tx  == Head(obsTodo)
           n   == Len(obsApplied)
<1>1. PICK L : Stored(L)
  BY DEF ReplayIInv
<1>2. /\ ProducerInv /\ ReplayTypes /\ OnlyLossyRejected /\ Producing /\ Replaying
  BY DEF ReplayIInv
<1>3. /\ obsPc = "apply" /\ Obs!ExecuteTx
      /\ UNCHANGED <<vars, lossy, obsPc, adopted, synced, rejected>>
  BY DEF ReplayTx
<1>4. UNCHANGED vars /\ UNCHANGED <<chain, stored, pc, height, ledger, genesisFreeUsed,
        applied, todo, selected, cachedBalance>>
  BY <1>3 DEF vars, execVars, poolVars, nodeVars, diskVars
<1>5. ProducerInv'
  BY <1>2, <1>4, InvarianceStep
<1>6. adopted.ledger.nonces \in [Accounts -> Nat] /\ Obs!ExecTypeOK
  BY <1>2 DEF ReplayTypes, Stores, Ledgers
<1>7. /\ ~rejected /\ synced < Len(chain) /\ obsHeight = synced + 1
      /\ Follows(obsLedger, obsGenesisFreeUsed, adopted, obsApplied, obsHeight)
      /\ n + Len(obsTodo) <= Len(txs)
      /\ n + Len(obsTodo) = Len(txs) => obsApplied \o obsTodo = txs
      /\ \A R : Run(R, adopted, txs, obsHeight) =>
           n + Len(obsTodo) = Len(txs) /\ ObsLoop = R[n]
  BY <1>2, <1>3 DEF Replaying
<1>8. /\ obsTodo # <<>> /\ obsTodo \in Seq(Txs) /\ obsApplied \in Seq(Txs)
      /\ Obs!ExecTypeOK'
      /\ obsTodo' = Tail(obsTodo) /\ obsHeight' = obsHeight
      /\ Follows(obsLedger', obsGenesisFreeUsed', adopted, obsApplied', obsHeight')
      /\ Works(ObsLoop, obsHeight, tx) =>
           obsApplied' = Append(obsApplied, tx) /\ ObsLoop' = After(ObsLoop, obsHeight, tx)
      /\ ~Works(ObsLoop, obsHeight, tx) => obsApplied' = obsApplied
  BY <1>3, <1>6, <1>7, ObsStep
<1>9. /\ Len(Append(obsApplied, tx)) = n + 1 /\ Len(obsTodo') = Len(obsTodo) - 1
      /\ n \in Nat /\ Len(obsTodo) \in Nat \ {0}
      /\ Append(obsApplied, tx) \o obsTodo' = obsApplied \o obsTodo
      /\ (obsApplied \o obsTodo)[n + 1] = tx
  BY <1>8, HeadMoves
<1>10. Len(txs) \in Nat
  <2>1. synced + 1 \in 1 .. Len(chain)
    BY <1>2, <1>7 DEF ReplayTypes
  <2>2. txs \in Seq(Txs)
    BY <1>1, <1>2, <2>1, BlockFacts DEF NextBlock
  <2> HIDE DEF txs
  <2> QED BY <2>2
<1>11. NextBlock' = NextBlock
  BY <1>3, <1>4 DEF NextBlock
<1>12. ReplayTypes'
  BY <1>2, <1>3, <1>4, <1>8 DEF ReplayTypes, Stores
<1>13. OnlyLossyRejected'
  BY <1>3, <1>7 DEF OnlyLossyRejected
<1>14. Producing'
  BY <1>2, <1>4 DEF Producing, Loop
<1>15. Stored(L)'
  BY <1>1, <1>3, <1>4, StoredStays
<1> DEFINE k == Len(obsTodo)
<1> HIDE DEF tx, n, k, txs
<1>16. n = Len(obsApplied) /\ txs = NextBlock.txs /\ k = Len(obsTodo)
  BY DEF n, txs, k
<1>17. ASSUME NEW R, Run(R, adopted, txs, obsHeight)
       PROVE  Works(ObsLoop, obsHeight, tx) /\ After(ObsLoop, obsHeight, tx) = R[n + 1]
  <2>1. n + k = Len(txs) /\ ObsLoop = R[n] /\ obsApplied \o obsTodo = txs
    BY <1>7, <1>16, <1>17
  <2>2. txs[n + 1] = tx /\ n + 1 \in 1 .. Len(txs) /\ (n + 1) - 1 = n
    BY <1>9, <1>10, <1>16, <2>1
  <2> QED BY <1>17, <2>1, <2>2 DEF Run
<1>18. Replaying'
  <2>1. /\ Follows(obsLedger', obsGenesisFreeUsed', adopted', obsApplied', obsHeight')
        /\ ~rejected' /\ synced' < Len(chain') /\ obsHeight' = synced' + 1
        /\ obsPc' = "apply"
    BY <1>3, <1>4, <1>7, <1>8
  <2>2. CASE Works(ObsLoop, obsHeight, tx)
    <3>1. obsApplied' = Append(obsApplied, tx) /\ ObsLoop' = After(ObsLoop, obsHeight, tx)
      BY <1>8, <2>2
    <3>2. Len(obsApplied') = n + 1 /\ Len(obsTodo') = k - 1 /\ n \in Nat /\ k \in Nat
      BY <1>9, <1>16, <3>1
    <3>3. Len(obsApplied') + Len(obsTodo') = n + k
      BY <3>2
    <3>4. obsApplied' \o obsTodo' = obsApplied \o obsTodo
      BY <1>9, <3>1
    <3>5. ASSUME NEW R, Run(R, adopted', NextBlock'.txs, obsHeight')
          PROVE  /\ Len(obsApplied') + Len(obsTodo') = Len(NextBlock'.txs)
                 /\ ObsLoop' = R[Len(obsApplied')]
      <4>1. Run(R, adopted, txs, obsHeight)
        BY <1>3, <1>8, <1>11, <1>16, <3>5
      <4> QED BY <1>7, <1>11, <1>16, <1>17, <3>1, <3>2, <3>3, <4>1
    <3>6. /\ Len(obsApplied') + Len(obsTodo') <= Len(NextBlock'.txs)
          /\ Len(obsApplied') + Len(obsTodo') = Len(NextBlock'.txs) =>
               obsApplied' \o obsTodo' = NextBlock'.txs
      BY <1>7, <1>11, <1>16, <3>3, <3>4
    <3> QED BY <2>1, <3>5, <3>6 DEF Replaying
  <2>3. CASE ~Works(ObsLoop, obsHeight, tx)
    <3>1. obsApplied' = obsApplied
      BY <1>8, <2>3
    <3>2. Len(obsApplied') + Len(obsTodo') < Len(NextBlock'.txs)
      BY <1>7, <1>9, <1>10, <1>11, <1>16, <3>1
    <3>3. ASSUME NEW R, Run(R, adopted', NextBlock'.txs, obsHeight') PROVE FALSE
      <4>1. Run(R, adopted, txs, obsHeight)
        BY <1>3, <1>8, <1>11, <1>16, <3>3
      <4> QED BY <1>17, <2>3, <4>1
    <3>4. Len(obsApplied') + Len(obsTodo') \in Nat /\ Len(NextBlock'.txs) \in Nat
      BY <1>9, <1>10, <1>11, <1>16, <3>1
    <3> QED BY <2>1, <3>2, <3>3, <3>4 DEF Replaying
  <2> QED BY <2>2, <2>3
<1> QED BY <1>5, <1>12, <1>13, <1>14, <1>15, <1>18 DEF ReplayIInv

(* What the observer has when its loop has ended.                          *)
LEMMA ReplayEnds ==
  ASSUME ReplayIInv, EndReplay, NEW L, Stored(L)
  PROVE  /\ synced + 1 \in 1 .. Len(chain) /\ (synced + 1) - 1 = synced
         /\ ~rejected /\ obsHeight = synced + 1 /\ L[synced] = adopted
         /\ obsLedger \in Ledgers /\ obsGenesisFreeUsed \in BOOLEAN
         /\ Rewarded(obsLedger, obsHeight) \in Ledgers
         /\ Rewarded(obsLedger, obsHeight).nonces = obsLedger.nonces
         /\ Follows(obsLedger, obsGenesisFreeUsed, adopted, obsApplied, obsHeight)
         /\ Len(obsApplied) = Len(NextBlock.txs) => obsApplied = NextBlock.txs
         /\ \A R : Run(R, adopted, NextBlock.txs, obsHeight) =>
              Len(obsApplied) = Len(NextBlock.txs) /\ ObsLoop = R[Len(obsApplied)]
         /\ obsPc' = "idle" /\ obsTodo' = <<>> /\ obsHeight' = 0
         /\ obsCachedBalance' = NoCache /\ obsApplied' = <<>>
<1>1. /\ obsPc = "apply" /\ obsTodo = <<>> /\ obsPc' = "idle" /\ obsTodo' = <<>>
      /\ obsHeight' = 0 /\ obsCachedBalance' = NoCache /\ obsApplied' = <<>>
  BY DEF EndReplay, Obs!BeginExecution, Obs!NoCache, NoCache
<1>2. ReplayTypes /\ Replaying /\ L[synced] = adopted
  BY DEF ReplayIInv, Stored
<1>3. /\ ~rejected /\ synced < Len(chain) /\ obsHeight = synced + 1
      /\ Follows(obsLedger, obsGenesisFreeUsed, adopted, obsApplied, obsHeight)
      /\ Len(obsApplied) + Len(obsTodo) = Len(NextBlock.txs) =>
           obsApplied \o obsTodo = NextBlock.txs
      /\ \A R : Run(R, adopted, NextBlock.txs, obsHeight) =>
           /\ Len(obsApplied) + Len(obsTodo) = Len(NextBlock.txs)
           /\ ObsLoop = R[Len(obsApplied)]
  BY <1>1, <1>2 DEF Replaying
<1>4. obsApplied \in Seq(Txs) /\ obsLedger \in Ledgers /\ obsGenesisFreeUsed \in BOOLEAN
  <2>1. Obs!Txs = Txs /\ Obs!Ledgers = Ledgers
    BY DEF Obs!Txs, Txs, Obs!TxTypes, TxTypes, Obs!Ledgers, Ledgers,
           Obs!ParticipantRecords, ParticipantRecords
  <2> QED BY <1>2, <2>1 DEF ReplayTypes, Obs!ExecTypeOK
<1>5. Len(obsApplied) + Len(obsTodo) = Len(obsApplied) /\ obsApplied \o obsTodo = obsApplied
  BY <1>1, <1>4
<1>6. synced + 1 \in 1 .. Len(chain) /\ (synced + 1) - 1 = synced /\ obsHeight \in Nat
  BY <1>2, <1>3 DEF ReplayTypes
<1>7. /\ Rewarded(obsLedger, obsHeight) \in Ledgers
      /\ Rewarded(obsLedger, obsHeight).nonces = obsLedger.nonces
  BY <1>4, <1>6, RewardedLemma
<1> QED BY <1>1, <1>2, <1>3, <1>4, <1>5, <1>6, <1>7

(* The observer is idle again, with what it has adopted.                   *)
LEMMA IdleAgain ==
  ASSUME obsPc' = "idle", obsTodo' = <<>>, obsHeight' = 0,
         obsCachedBalance' = NoCache, obsApplied' = <<>>,
         adopted' \in Stores, obsLedger' = adopted'.ledger,
         obsGenesisFreeUsed' = adopted'.genesisFreeUsed
  PROVE  Obs!ExecTypeOK' /\ Replaying'
<1>1. obsLedger' \in Ledgers /\ obsGenesisFreeUsed' \in BOOLEAN
  BY DEF Stores
<1>2. NoCache \in [Accounts -> Nat \cup {Null}] /\ <<>> \in Seq(Obs!Txs)
  BY DEF NoCache
<1>3. Obs!Ledgers = Ledgers
  BY DEF Obs!Ledgers, Ledgers, Obs!ParticipantRecords, ParticipantRecords
<1>4. Obs!ExecTypeOK'
  BY <1>1, <1>2, <1>3 DEF Obs!ExecTypeOK
<1>5. Replaying'
  BY DEF Replaying
<1> QED BY <1>4, <1>5

(* What matches the block's commitments is what was stored with it.        *)
LEMMA AdoptKeeps ==
  ASSUME ReplayIInv, AdoptBlock
  PROVE  ReplayIInv'
<1> DEFINE l == Rewarded(obsLedger, obsHeight)
<1>1. PICK L : Stored(L)
  BY DEF ReplayIInv
<1>2. /\ ProducerInv /\ ReplayTypes /\ OnlyLossyRejected /\ Producing
  BY DEF ReplayIInv
<1>3. /\ EndReplay /\ Len(obsApplied) = Len(NextBlock.txs)
      /\ StateRoot(l) = NextBlock.stateRoot
      /\ obsLedger' = l /\ adopted' = [ledger |-> l, genesisFreeUsed |-> obsGenesisFreeUsed]
      /\ synced' = synced + 1
      /\ UNCHANGED <<vars, lossy, obsGenesisFreeUsed, rejected>>
  BY DEF AdoptBlock, BlockMatches
<1>4. UNCHANGED vars /\ UNCHANGED <<chain, stored, pc, height, ledger, genesisFreeUsed,
        applied, todo, selected, cachedBalance>>
  BY <1>3 DEF vars, execVars, poolVars, nodeVars, diskVars
<1>5. ProducerInv'
  BY <1>2, <1>4, InvarianceStep
<1> DEFINE h == synced + 1
<1>6. /\ h \in 1 .. Len(chain) /\ h - 1 = synced /\ ~rejected /\ obsHeight = h
      /\ L[synced] = adopted /\ obsGenesisFreeUsed \in BOOLEAN
      /\ l \in Ledgers /\ l.nonces = obsLedger.nonces
      /\ Follows(obsLedger, obsGenesisFreeUsed, adopted, obsApplied, h)
      /\ obsApplied = chain[h].txs
      /\ obsPc' = "idle" /\ obsTodo' = <<>> /\ obsHeight' = 0
      /\ obsCachedBalance' = NoCache /\ obsApplied' = <<>>
  BY <1>1, <1>3, ReplayEnds DEF NextBlock
<1> HIDE DEF l
<1>7. /\ L[h] \in Stores /\ L[h].ledger \in Ledgers /\ L[h].genesisFreeUsed \in BOOLEAN
      /\ StateRoot(L[h].ledger) = chain[h].stateRoot
      /\ Follows(L[h].ledger, L[h].genesisFreeUsed, L[h - 1], chain[h].txs, h)
  BY <1>1, <1>2, <1>6, BlockFacts
<1>8. StateRoot(l) = chain[h].stateRoot
  BY <1>3 DEF NextBlock
<1>9. Follows(l, obsGenesisFreeUsed, adopted, chain[h].txs, h)
  BY <1>6, FollowsNonces
<1>10. Follows(L[h].ledger, L[h].genesisFreeUsed, adopted, chain[h].txs, h)
  BY <1>6, <1>7
<1>11. l = L[h].ledger /\ obsGenesisFreeUsed = L[h].genesisFreeUsed
  BY <1>6, <1>7, <1>8, <1>9, <1>10, SameState
<1>12. adopted' = L[h]
  BY <1>3, <1>7, <1>11 DEF Stores
<1>13. obsLedger' = adopted'.ledger /\ obsGenesisFreeUsed' = adopted'.genesisFreeUsed
  BY <1>3, <1>11, <1>12
<1>14. Obs!ExecTypeOK' /\ Replaying'
  BY <1>6, <1>7, <1>12, <1>13, IdleAgain
<1>15. synced' \in 0 .. Len(chain')
  BY <1>2, <1>3, <1>4, <1>6 DEF ReplayTypes
<1>16. ReplayTypes'
  BY <1>2, <1>3, <1>4, <1>6, <1>7, <1>12, <1>14, <1>15 DEF ReplayTypes, Stores
<1>17. OnlyLossyRejected'
  BY <1>3, <1>6 DEF OnlyLossyRejected
<1>18. Producing'
  BY <1>2, <1>4 DEF Producing, Loop
<1>19. Stored(L)'
  BY <1>1, <1>3, <1>4, <1>12 DEF Stored
<1> QED BY <1>5, <1>14, <1>16, <1>17, <1>18, <1>19 DEF ReplayIInv

(* A block with all its transactions is never rejected.                    *)
LEMMA RejectKeeps ==
  ASSUME ReplayIInv, RejectExternal
  PROVE  ReplayIInv'
<1> DEFINE h == synced + 1
<1>1. PICK L : Stored(L)
  BY DEF ReplayIInv
<1>2. /\ ProducerInv /\ ReplayTypes /\ OnlyLossyRejected /\ Producing
  BY DEF ReplayIInv
<1>3. /\ EndReplay /\ ~BlockMatches
      /\ obsLedger' = adopted.ledger /\ obsGenesisFreeUsed' = adopted.genesisFreeUsed
      /\ rejected' = TRUE
      /\ UNCHANGED <<vars, lossy, adopted, synced>>
  BY DEF RejectExternal
<1>4. UNCHANGED vars /\ UNCHANGED <<chain, stored, pc, height, ledger, genesisFreeUsed,
        applied, todo, selected, cachedBalance>>
  BY <1>3 DEF vars, execVars, poolVars, nodeVars, diskVars
<1>5. ProducerInv'
  BY <1>2, <1>4, InvarianceStep
<1>6. /\ h \in 1 .. Len(chain) /\ h - 1 = synced /\ obsHeight = h
      /\ L[synced] = adopted
      /\ \A R : Run(R, adopted, NextBlock.txs, h) =>
           Len(obsApplied) = Len(NextBlock.txs) /\ ObsLoop = R[Len(obsApplied)]
      /\ obsPc' = "idle" /\ obsTodo' = <<>> /\ obsHeight' = 0
      /\ obsCachedBalance' = NoCache /\ obsApplied' = <<>>
  BY <1>1, <1>3, ReplayEnds
<1>7. h \in lossy
  <2> SUFFICES ASSUME h \notin lossy PROVE FALSE
    OBVIOUS
  <2>1. Replays(adopted, L[h], NextBlock.txs, h) /\ StateRoot(L[h].ledger) = NextBlock.stateRoot
    BY <1>1, <1>2, <1>6, BlockFacts DEF NextBlock
  <2>2. PICK R : Run(R, adopted, NextBlock.txs, h) /\ L[h] = Ended(R[Len(NextBlock.txs)], h)
    BY <2>1 DEF Replays
  <2>3. Len(obsApplied) = Len(NextBlock.txs) /\ ObsLoop = R[Len(NextBlock.txs)]
    BY <1>6, <2>2
  <2>4. L[h].ledger = Rewarded(obsLedger, obsHeight)
    BY <1>6, <2>2, <2>3 DEF Ended, ObsLoop
  <2> QED BY <1>3, <2>1, <2>3, <2>4 DEF BlockMatches
<1>8. adopted' \in Stores
  BY <1>2, <1>3 DEF ReplayTypes, Stores
<1>9. Obs!ExecTypeOK' /\ Replaying'
  BY <1>3, <1>6, <1>8, IdleAgain
<1>10. ReplayTypes'
  BY <1>2, <1>3, <1>4, <1>6, <1>8, <1>9 DEF ReplayTypes, Stores
<1>11. OnlyLossyRejected'
  BY <1>3, <1>7 DEF OnlyLossyRejected
<1>12. Producing'
  BY <1>2, <1>4 DEF Producing, Loop
<1>13. Stored(L)'
  BY <1>1, <1>3, <1>4, StoredStays
<1> QED BY <1>5, <1>9, <1>10, <1>11, <1>12, <1>13 DEF ReplayIInv

-----------------------------------------------------------------------------

(* An iteration of the producer keeps what is known of its block.          *)
LEMMA ExecuteProduces ==
  ASSUME ReplayIInv, ExecuteBlock
  PROVE  Producing'
<1>1. /\ ProducerInv /\ Producing /\ pc = "apply" /\ ExecTypeOK
  BY DEF ReplayIInv, ExecuteBlock, ProducerInv, TypeOK
<1>2. /\ height = Len(chain) + 1 /\ Follows(ledger, genesisFreeUsed, stored, applied, height)
      /\ Len(applied) + Len(todo) <= Len(selected)
      /\ Len(applied) + Len(todo) = Len(selected) =>
           \E R : Run(R, stored, applied, height) /\ R[Len(applied)] = Loop
  BY <1>1 DEF Producing
<1>3. UNCHANGED <<selected, pc, chain, stored>>
  BY DEF ExecuteBlock, poolVars, nodeVars, diskVars
<1>4. PICK tx : /\ todo # <<>> /\ tx = Head(todo)
                /\ \/ SkipTx(tx) \/ AbandonTx(tx) \/ ApplyTransfer(tx)
                   \/ ApplyRegister(tx) \/ ApplyUnregister(tx) \/ ApplyHeartbeat(tx)
  BY DEF ExecuteBlock, ExecuteTx
<1>5. /\ todo' = Tail(todo) /\ height' = height
      /\ Works(Loop, height, tx) =>
           applied' = Append(applied, tx) /\ Loop' = After(Loop, height, tx)
      /\ ~Works(Loop, height, tx) => applied' = applied
  BY <1>1, <1>4, StepIsFunction
<1>6. stored.ledger.nonces \in [Accounts -> Nat]
  BY <1>1 DEF ProducerInv, TypeOK, Ledgers
<1>7. Follows(ledger', genesisFreeUsed', stored, applied', height')
  BY <1>1, <1>2, <1>4, <1>6, FollowsStep
<1>8. /\ applied \in Seq(Txs) /\ tx \in Txs /\ Len(todo) \in Nat /\ Len(applied) \in Nat
      /\ Len(selected) \in Nat
      /\ Len(todo') = Len(todo) - 1 /\ Len(Append(applied, tx)) = Len(applied) + 1
  <2>1. applied \in Seq(Txs) /\ todo \in Seq(Txs) /\ selected \in Seq(Txs)
    BY <1>1 DEF ExecTypeOK, ProducerInv, TypeOK
  <2>2. tx \in Txs
    BY <1>4, <2>1
  <2> QED BY <1>4, <1>5, <2>1, <2>2, HeadMoves
<1> DEFINE n == Len(selected)
           m == Len(applied) + Len(todo)
<1>9. CASE Works(Loop, height, tx)
  <2>1. applied' = Append(applied, tx) /\ Loop' = After(Loop, height, tx)
    BY <1>5, <1>9
  <2>2. Len(applied') + Len(todo') = m /\ Len(applied') = Len(applied) + 1
    BY <1>8, <2>1
  <2>3. ASSUME m = n
        PROVE  \E R : Run(R, stored, applied', height') /\ R[Len(applied')] = Loop'
    <3>1. PICK R : Run(R, stored, applied, height) /\ R[Len(applied)] = Loop
      BY <1>2, <2>3
    <3>2. PICK Q : /\ Run(Q, stored, Append(applied, tx), height)
                   /\ Q[Len(applied) + 1] = After(Loop, height, tx)
      BY <1>8, <1>9, <3>1, RunExtends
    <3> QED BY <1>5, <2>1, <2>2, <3>2
  <2> HIDE DEF m
  <2>4. m <= n
    BY <1>2 DEF m
  <2> QED BY <1>2, <1>3, <1>5, <1>7, <2>2, <2>3, <2>4 DEF Producing
<1>10. CASE ~Works(Loop, height, tx)
  <2>1. applied' = applied
    BY <1>5, <1>10
  <2>2. Len(applied') + Len(todo') < n /\ Len(applied') + Len(todo') \in Int
    BY <1>2, <1>8, <2>1
  <2> QED BY <1>2, <1>3, <1>5, <1>7, <1>8, <2>2 DEF Producing
<1> QED BY <1>9, <1>10

(* Every step of the producer does; only a sealed block changes the chain. *)
LEMMA ProducerWorks ==
  ASSUME ReplayIInv, Next
  PROVE  /\ Producing'
         /\ SealBlock \/ UNCHANGED <<chain, stored>>
<1>1. ProducerInv /\ Producing
  BY DEF ReplayIInv
<1>2. CASE \E a \in Clients : \E tx \in Submissions(a) : Admit(tx)
  <2>1. pc' = "idle" /\ UNCHANGED <<chain, stored>>
    BY <1>2 DEF Admit, nodeVars, diskVars
  <2> QED BY <2>1 DEF Producing
<1>3. CASE \E e \in mempool : Expire(e)
  <2>1. pc' = "idle" /\ UNCHANGED <<chain, stored>>
    BY <1>3 DEF Expire, nodeVars, diskVars
  <2> QED BY <2>1 DEF Producing
<1>4. CASE StartBlock
  <2>1. pc' = "select" /\ height' = Len(chain) + 1 /\ UNCHANGED <<chain, stored>>
    BY <1>4 DEF StartBlock, diskVars, LatestHeight
  <2> QED BY <2>1 DEF Producing
<1>5. CASE \E e \in Candidates : SelectTx(e)
  <2>1. pc = "select" /\ pc' = "select" /\ height' = height /\ UNCHANGED <<chain, stored>>
    BY <1>5 DEF SelectTx, execVars, nodeVars, diskVars
  <2> QED BY <1>1, <2>1 DEF Producing
<1>6. CASE EndSelection
  <2>1. /\ pc = "select" /\ pc' = "apply" /\ todo' = selected /\ height' = height
        /\ cachedBalance' = NoCache /\ applied' = <<>>
        /\ UNCHANGED <<ledger, genesisFreeUsed, selected, chain, stored>>
    BY <1>6 DEF EndSelection, BeginExecution, poolVars, diskVars
  <2>2. Memory = stored
    BY <1>1, <2>1 DEF ProducerInv, MemoryIsStored
  <2>3. ledger = stored.ledger /\ genesisFreeUsed = stored.genesisFreeUsed
    BY <2>2 DEF Memory
  <2>4. Follows(ledger', genesisFreeUsed', stored', applied', height')
    BY <1>1, <2>1, <2>3, FollowsStart DEF ProducerInv, TypeOK, Ledgers
  <2>5. Len(applied') = 0 /\ Len(todo') = Len(selected) /\ Len(selected) \in Nat
    BY <1>1, <2>1 DEF ProducerInv, TypeOK
  <2> DEFINE R == [k \in {0} |-> Begun(stored)]
  <2>6. R[0] = Loop'
    BY <2>1, <2>3 DEF Begun, Loop
  <2>7. Run(R, stored', applied', height')
    BY <2>1, <2>5 DEF Run
  <2> HIDE DEF R
  <2>8. height' = Len(chain') + 1
    BY <1>1, <2>1 DEF Producing
  <2>9. Producing'
    BY <2>1, <2>4, <2>5, <2>6, <2>7, <2>8 DEF Producing
  <2> QED BY <2>1, <2>9
<1>7. CASE ExecuteBlock
  <2>1. UNCHANGED <<chain, stored>>
    BY <1>7 DEF ExecuteBlock, diskVars
  <2> QED BY <1>7, <2>1, ExecuteProduces
<1>8. CASE SealBlock
  <2>1. pc' = "idle"
    BY <1>8 DEF SealBlock, EndBlock
  <2> QED BY <1>8, <2>1 DEF Producing
<1>9. CASE RejectBlock
  <2>1. pc' = "idle" /\ UNCHANGED <<chain, stored>>
    BY <1>9 DEF RejectBlock, EndBlock, diskVars
  <2> QED BY <2>1 DEF Producing
<1>10. CASE CheckInvariants
  <2>1. pc' = "idle" /\ UNCHANGED <<chain, stored>>
    BY <1>10 DEF CheckInvariants, diskVars
  <2> QED BY <2>1 DEF Producing
<1>11. CASE Restart
  <2>1. pc' = "idle" /\ UNCHANGED <<chain, stored>>
    BY <1>11 DEF Restart, EndBlock, diskVars
  <2> QED BY <2>1 DEF Producing
<1> QED BY <1>2, <1>3, <1>4, <1>5, <1>6, <1>7, <1>8, <1>9, <1>10, <1>11 DEF Next

(* The block that is sealed is stored with what its transactions lead to.  *)
LEMMA SealStores ==
  ASSUME ReplayIInv, SealBlock, ProducerStep, NEW L, Stored(L)
  PROVE  /\ Len(chain') = Len(chain) + 1
         /\ \A k \in 1 .. Len(chain) : chain'[k] = chain[k]
         /\ lossy \subseteq lossy' /\ lossy' \subseteq 1 .. Len(chain')
         /\ \E M : Stored(M)'
<1> DEFINE n == Len(chain)
           l == Rewarded(ledger, height)
           new == [ledger |-> l, genesisFreeUsed |-> genesisFreeUsed]
           block == [txs |-> applied, stateRoot |-> StateRoot(l)]
<1>1. ProducerInv /\ Producing /\ ReplayTypes /\ pc = "apply" /\ todo = <<>>
  BY DEF ReplayIInv, SealBlock
<1>2. /\ chain' = Append(chain, block) /\ stored' = new
      /\ lossy' = IF chain' # chain /\ Len(chain'[Len(chain')].txs) < Len(selected)
                    THEN lossy \cup {Len(chain')} ELSE lossy
      /\ UNCHANGED <<adopted, synced>>
  BY DEF SealBlock, ProducerStep, obsVars
<1>3. /\ chain \in Seq(Range(chain)) /\ n \in Nat
      /\ Len(chain') = n + 1 /\ chain'[n + 1] = block /\ chain' # chain
      /\ \A k \in 1 .. n : chain'[k] = chain[k]
  <2>1. \E S : chain \in Seq(S)
    BY <1>1 DEF ProducerInv, TypeOK
  <2>2. PICK S : chain \in Seq(S)
    BY <2>1
  <2>3. \A k \in 1 .. n : chain[k] \in Range(chain)
    BY <2>2 DEF Range
  <2>4. chain \in Seq(Range(chain)) /\ n \in Nat
    BY <2>2, <2>3
  <2> HIDE DEF block
  <2>5. /\ Len(chain') = n + 1 /\ chain'[n + 1] = block
        /\ \A k \in 1 .. n : chain'[k] = chain[k]
    BY <1>2, <2>4
  <2>6. chain' # chain
    BY <2>4, <2>5
  <2> QED BY <2>4, <2>5, <2>6
<1>4. /\ ledger \in Ledgers /\ genesisFreeUsed \in BOOLEAN /\ height = n + 1 /\ height \in Nat
      /\ applied \in Seq(Txs) /\ selected \in Seq(Txs)
      /\ Follows(ledger, genesisFreeUsed, stored, applied, height)
      /\ Len(applied) + Len(todo) <= Len(selected)
      /\ Len(applied) + Len(todo) = Len(selected) =>
           \E R : Run(R, stored, applied, height) /\ R[Len(applied)] = Loop
  BY <1>1 DEF ProducerInv, TypeOK, ExecTypeOK, Producing
<1>5. l \in Ledgers /\ l.nonces = ledger.nonces
  BY <1>4, RewardedLemma
<1>6. Len(applied) + Len(todo) = Len(applied) /\ Len(applied) \in Nat /\ Len(selected) \in Nat
  BY <1>1, <1>4
<1> HIDE DEF l
<1>7. new \in Stores /\ new.ledger = l /\ new.genesisFreeUsed = genesisFreeUsed
  BY <1>4, <1>5 DEF Stores
<1>8. block.txs = applied /\ block.stateRoot = StateRoot(l)
  OBVIOUS
<1>9. /\ lossy' = IF Len(applied) < Len(selected) THEN lossy \cup {n + 1} ELSE lossy
      /\ lossy \subseteq 1 .. n
  BY <1>1, <1>2, <1>3, <1>8 DEF ReplayTypes
<1>10. lossy \subseteq lossy' /\ lossy' \subseteq 1 .. n + 1
  <2>1. n \in Nat /\ lossy \subseteq 1 .. n
    BY <1>3, <1>9
  <2>2. lossy' = lossy \/ lossy' = lossy \cup {n + 1}
    BY <1>9
  <2> HIDE DEF n
  <2>3. 1 .. n \subseteq 1 .. n + 1 /\ n + 1 \in 1 .. n + 1
    BY <2>1
  <2> QED BY <2>1, <2>2, <2>3
<1>11. /\ L \in [0 .. n -> Stores] /\ L[n] = stored /\ L[synced] = adopted
       /\ \A k \in 1 .. n :
            /\ StateRoot(L[k].ledger) = chain[k].stateRoot
            /\ Follows(L[k].ledger, L[k].genesisFreeUsed, L[k - 1], chain[k].txs, k)
            /\ k \notin lossy => Replays(L[k - 1], L[k], chain[k].txs, k)
  BY DEF Stored
<1> HIDE DEF new, block, n
<1>12. PICK M : /\ M \in [0 .. n + 1 -> Stores] /\ M[n + 1] = new
                /\ \A k \in 0 .. n : M[k] = L[k]
  <2> DEFINE Q == [k \in 0 .. n + 1 |-> IF k = n + 1 THEN new ELSE L[k]]
  <2>1. n \in Nat
    BY <1>3
  <2>2. Q \in [0 .. n + 1 -> Stores] /\ Q[n + 1] = new /\ \A k \in 0 .. n : Q[k] = L[k]
    BY <1>7, <1>11, <2>1
  <2> QED BY <2>2
<1>13. synced \in 0 .. n
  BY <1>1 DEF ReplayTypes, n
<1>14. M[Len(chain')] = stored' /\ M[synced'] = adopted' /\ M \in [0 .. Len(chain') -> Stores]
  BY <1>2, <1>3, <1>11, <1>12, <1>13
<1>15. ASSUME NEW k \in 1 .. Len(chain')
       PROVE  /\ StateRoot(M[k].ledger) = chain'[k].stateRoot
              /\ Follows(M[k].ledger, M[k].genesisFreeUsed, M[k - 1], chain'[k].txs, k)
              /\ k \notin lossy' => Replays(M[k - 1], M[k], chain'[k].txs, k)
  <2>1. CASE k \in 1 .. n
    <3>1. M[k] = L[k] /\ M[k - 1] = L[k - 1] /\ chain'[k] = chain[k]
      BY <1>3, <1>12, <2>1
    <3> QED BY <1>10, <1>11, <2>1, <3>1
  <2>2. CASE k = n + 1
    <3>1. M[k] = new /\ M[k - 1] = stored /\ chain'[k] = block
      BY <1>3, <1>11, <1>12, <2>2
    <3>2. Follows(l, genesisFreeUsed, stored, applied, k)
      BY <1>4, <1>5, <2>2, FollowsNonces
    <3>3. ASSUME k \notin lossy' PROVE Replays(stored, new, applied, k)
      <4>1. Len(applied) = Len(selected)
        BY <1>4, <1>6, <1>9, <2>2, <3>3
      <4>2. PICK R : Run(R, stored, applied, height) /\ R[Len(applied)] = Loop
        BY <1>4, <1>6, <4>1
      <4>3. new = Ended(R[Len(applied)], k)
        BY <1>4, <2>2, <4>2 DEF Ended, Loop, new, l
      <4> QED BY <1>4, <2>2, <4>2, <4>3 DEF Replays
    <3> QED BY <1>7, <1>8, <3>1, <3>2, <3>3
  <2> QED BY <1>3, <1>15, <2>1, <2>2
<1>16. Stored(M)'
  BY <1>14, <1>15 DEF Stored
<1> QED BY <1>3, <1>10, <1>16 DEF n

(* A step of the producer leaves the observer where it is.                 *)
LEMMA ProducerKeeps ==
  ASSUME ReplayIInv, ProducerStep
  PROVE  ReplayIInv'
<1>1. PICK L : Stored(L)
  BY DEF ReplayIInv
<1>2. ProducerInv /\ ReplayTypes /\ OnlyLossyRejected /\ Replaying
  BY DEF ReplayIInv
<1>3. /\ Next
      /\ lossy' = IF chain' # chain /\ Len(chain'[Len(chain')].txs) < Len(selected)
                    THEN lossy \cup {Len(chain')} ELSE lossy
      /\ UNCHANGED <<obsLedger, obsGenesisFreeUsed, obsHeight, obsTodo, obsCachedBalance,
                     obsApplied, obsPc, adopted, synced, rejected>>
  BY DEF ProducerStep, obsVars
<1>4. ProducerInv'
  BY <1>2, <1>3, InvarianceStep
<1>5. Producing' /\ (SealBlock \/ UNCHANGED <<chain, stored>>)
  BY <1>3, ProducerWorks
<1>6. /\ Len(chain') \in Nat /\ Len(chain) \in Nat /\ Len(chain) <= Len(chain')
      /\ \A k \in 1 .. Len(chain) : chain'[k] = chain[k]
      /\ lossy \subseteq lossy' /\ lossy' \subseteq 1 .. Len(chain')
      /\ \E M : Stored(M)'
  <2>1. Len(chain) \in Nat
    BY <1>2 DEF ProducerInv, TypeOK
  <2>2. CASE SealBlock
    <3>1. /\ Len(chain') = Len(chain) + 1
          /\ \A k \in 1 .. Len(chain) : chain'[k] = chain[k]
          /\ lossy \subseteq lossy' /\ lossy' \subseteq 1 .. Len(chain')
          /\ \E M : Stored(M)'
      BY <1>1, <2>2, SealStores
    <3> QED BY <2>1, <3>1
  <2>3. CASE UNCHANGED <<chain, stored>>
    <3>1. lossy' = lossy
      BY <1>3, <2>3
    <3>2. Stored(L)'
      BY <1>1, <1>3, <2>3, <3>1, StoredStays
    <3>3. lossy' \subseteq 1 .. Len(chain')
      BY <1>2, <2>3, <3>1 DEF ReplayTypes
    <3> QED BY <2>1, <2>3, <3>1, <3>2, <3>3
  <2> QED BY <1>5, <2>2, <2>3
<1>7. ReplayTypes'
  <2>1. synced \in 0 .. Len(chain')
    BY <1>2, <1>6 DEF ReplayTypes
  <2>2. Obs!ExecTypeOK'
    BY <1>2, <1>3 DEF ReplayTypes, Obs!ExecTypeOK
  <2> QED BY <1>2, <1>3, <1>6, <2>1, <2>2 DEF ReplayTypes, Stores
<1>8. OnlyLossyRejected'
  BY <1>2, <1>3, <1>6 DEF OnlyLossyRejected
<1>9. Replaying'
  <2>1. ASSUME synced < Len(chain)
        PROVE  NextBlock' = NextBlock /\ synced < Len(chain')
    <3>1. synced + 1 \in 1 .. Len(chain)
      BY <1>2, <1>6, <2>1 DEF ReplayTypes
    <3>2. synced < Len(chain')
      <4>1. synced \in Nat
        BY <1>2, <1>6 DEF ReplayTypes
      <4> QED BY <1>6, <2>1, <4>1
    <3> QED BY <1>3, <1>6, <3>1, <3>2 DEF NextBlock
  <2>2. CASE obsPc = "idle"
    BY <1>2, <1>3, <2>2 DEF Replaying
  <2>3. CASE obsPc = "apply"
    <3>1. ObsLoop' = ObsLoop /\ obsPc' = "apply" /\ synced < Len(chain)
      BY <1>2, <1>3, <2>3 DEF ObsLoop, Replaying
    <3>2. NextBlock' = NextBlock /\ synced' < Len(chain')
      BY <1>3, <2>1, <3>1
    <3> QED BY <1>2, <1>3, <2>3, <3>1, <3>2 DEF Replaying
  <2> QED BY <1>2, <2>2, <2>3 DEF ReplayTypes
<1> QED BY <1>4, <1>5, <1>6, <1>7, <1>8, <1>9 DEF ReplayIInv

LEMMA ReplayStep == ReplayIInv /\ [ReplayNext]_allVars => ReplayIInv'
<1> SUFFICES ASSUME ReplayIInv, [ReplayNext]_allVars PROVE ReplayIInv'
  OBVIOUS
<1>1. CASE UNCHANGED allVars
  <2>1. /\ UNCHANGED vars
        /\ UNCHANGED <<chain, stored, pc, height, ledger, genesisFreeUsed, applied, todo,
                       selected, cachedBalance, lossy, obsLedger, obsGenesisFreeUsed,
                       obsHeight, obsTodo, obsCachedBalance, obsApplied, obsPc, adopted,
                       synced, rejected>>
    BY <1>1 DEF allVars, vars, execVars, poolVars, nodeVars, diskVars, obsVars
  <2>2. ProducerInv'
    BY <2>1, InvarianceStep DEF ReplayIInv
  <2>3. ReplayTypes' /\ OnlyLossyRejected'
    BY <2>1 DEF ReplayIInv, ReplayTypes, Obs!ExecTypeOK, OnlyLossyRejected, Stores
  <2>4. Producing' /\ Replaying'
    BY <2>1 DEF ReplayIInv, Producing, Loop, Replaying, NextBlock, ObsLoop
  <2>5. \E L : Stored(L)'
    <3>1. PICK L : Stored(L)
      BY DEF ReplayIInv
    <3> QED BY <2>1, <3>1, StoredStays
  <2> QED BY <2>2, <2>3, <2>4, <2>5 DEF ReplayIInv
<1>2. CASE ProducerStep
  BY <1>2, ProducerKeeps
<1>3. CASE BeginReplay
  BY <1>3, BeginKeeps
<1>4. CASE ReplayTx
  BY <1>4, ReplayTxKeeps
<1>5. CASE AdoptBlock
  BY <1>5, AdoptKeeps
<1>6. CASE RejectExternal
  BY <1>6, RejectKeeps
<1> QED BY <1>1, <1>2, <1>3, <1>4, <1>5, <1>6 DEF ReplayNext

(* An observer next to the producer rejects a block only when a selected   *)
(* transaction is missing from it, and has the producer's whole state,     *)
(* nonces included, when it has adopted every block (applyExternalBlock).  *)
THEOREM ObserversAgree == ReplaySpec => []ReplayInv
<1>1. ReplaySpec => []ReplayIInv
  BY ReplayStart, ReplayStep, PTL DEF ReplaySpec
<1> QED BY <1>1, ReplayImplies, PTL
=============================================================================
