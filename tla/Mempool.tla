------------------------------- MODULE Mempool -------------------------------
(***************************************************************************)
(* The pool of pending transactions (server/lib/mempool.js): the map of    *)
(* the transactions with, beside it, the order of insertion, the number of *)
(* transactions per sender and the sum of their bytes, on which all limits *)
(* are tested.  Every operation first removes what has expired, except the *)
(* removal of the transactions of a block.                                 *)
(*                                                                         *)
(* Every operation is synchronous: a step is one call.  Module Producer    *)
(* says what is admitted to the pool and what its contents mean.           *)
(***************************************************************************)
EXTENDS Integers, Sequences, FiniteSets, FiniteSetsExt, SequencesExt, Functions

CONSTANTS
  Ids,           \* the transaction ids
  Senders,       \* the signers
  Signer,        \* the signer of each transaction
  Bytes,         \* the serialized size of each transaction
  MaxTransactions, MaxBytes, MaxPerSender,   \* the limits of the configuration
  Ttl,           \* mempool.transactionTtlSeconds
  MaxRemovals,   \* the expired transactions one cleanup removes at most
  MaxBlock,      \* bound: the ids that one call removes
  MaxTime        \* bound: the latest time

ASSUME MempoolAssumption ==
  /\ IsFiniteSet(Ids)
  /\ Signer \in [Ids -> Senders] /\ Bytes \in [Ids -> Nat \ {0}]
  /\ {MaxTransactions, MaxBytes, MaxPerSender, Ttl, MaxRemovals} \subseteq Nat \ {0}
  /\ MaxBlock \in Nat /\ MaxTime \in Nat

VARIABLES
  now,      \* Date.now()
  mempool,  \* txById with the time of admission, insertionOrder,
            \* senderCounts (0 for an absent sender) and totalBytes
  answer    \* what the last addTx said

mempoolVars == <<now, mempool, answer>>

Answers == {"none", "queued", "duplicate", "oversized", "sender_limit", "full"}

-----------------------------------------------------------------------------

Pending(p) == DOMAIN p.txById

\* Mutant of RemoveInternal: the sender's counter is not lowered.
RemoveKeepingCount(p, id) ==
  IF id \notin Pending(p) THEN p
  ELSE [txById |-> Restrict(p.txById, Pending(p) \ {id}),
        order  |-> RemoveFirst(p.order, id),
        counts |-> p.counts,
        bytes  |-> p.bytes - Bytes[id]]

(* removeInternal, for an id that may not be pending.                      *)
RemoveInternal(p, id) ==
  IF id \notin Pending(p) THEN p
  ELSE [txById |-> Restrict(p.txById, Pending(p) \ {id}),
        order  |-> RemoveFirst(p.order, id),
        counts |-> [p.counts EXCEPT ![Signer[id]] = IF @ <= 1 THEN 0 ELSE @ - 1],
        bytes  |-> IF p.bytes < Bytes[id] THEN 0 ELSE p.bytes - Bytes[id]]

Expired(p, id) == now - p.txById[id] > Ttl

(* One turn of the loop of cleanupExpired.                                 *)
Sweep(done, id) ==
  IF done.removed >= MaxRemovals THEN done
  ELSE IF id \notin Pending(done.pool)
    THEN [done EXCEPT !.pool.order = RemoveFirst(@, id)]
  ELSE IF Expired(done.pool, id)
    THEN [pool |-> RemoveInternal(done.pool, id), removed |-> done.removed + 1]
  ELSE done

(* cleanupExpired: in the order of insertion, MaxRemovals at most.         *)
Cleaned(p) == FoldLeft(Sweep, [pool |-> p, removed |-> 0], p.order).pool

Inserted(p, id) ==
  [txById |-> [i \in Pending(p) \cup {id} |-> IF i = id THEN now ELSE p.txById[i]],
   order  |-> Append(p.order, id),
   counts |-> [p.counts EXCEPT ![Signer[id]] = @ + 1],
   bytes  |-> p.bytes + Bytes[id]]

(* The tests of addTx in their order.                                      *)
Verdict(p, id) ==
  IF id \in Pending(p) THEN "duplicate"
  ELSE IF Bytes[id] > MaxBytes THEN "oversized"
  ELSE IF p.counts[Signer[id]] >= MaxPerSender THEN "sender_limit"
  ELSE IF \/ Cardinality(Pending(p)) + 1 > MaxTransactions
          \/ p.bytes + Bytes[id] > MaxBytes THEN "full"
  ELSE "queued"

-----------------------------------------------------------------------------

MempoolInit ==
  /\ now = 0
  /\ mempool = [txById |-> <<>>, order |-> <<>>, counts |-> [s \in Senders |-> 0], bytes |-> 0]
  /\ answer = "none"

(* Time passes, or the clock of the host is set back.                      *)
ClockMoves ==
  /\ now' \in 0..MaxTime \ {now}
  /\ UNCHANGED <<mempool, answer>>

\* Mutant of AddTx: the verdict is reached before the cleanup.
AddBeforeCleanup(id) ==
  LET said == Verdict(mempool, id)
  IN /\ mempool' = IF said = "queued" THEN Inserted(Cleaned(mempool), id) ELSE Cleaned(mempool)
     /\ answer' = said
     /\ UNCHANGED now

(* A transaction that is refused leaves the pool as cleaned.               *)
AddTx(id) ==
  LET p    == Cleaned(mempool)
      said == Verdict(p, id)
  IN /\ mempool' = IF said = "queued" THEN Inserted(p, id) ELSE p
     /\ answer' = said
     /\ UNCHANGED now

(* list, getMaxNonce, getPendingSpend, hasTx, size and getStats.           *)
Read ==
  /\ mempool' = Cleaned(mempool)
  /\ UNCHANGED <<now, answer>>

(* The transactions selected for a block leave, in the block's order.      *)
RemoveByIds(ids) ==
  /\ mempool' = FoldLeft(RemoveInternal, mempool, ids)
  /\ UNCHANGED <<now, answer>>

(* The ids of a block may be pending no more, or be named twice.           *)
MempoolNext ==
  \/ ClockMoves
  \/ \E id \in Ids : AddTx(id)
  \/ Read
  \/ \E ids \in SeqOf(Ids, MaxBlock) : RemoveByIds(ids)

MempoolSpec == MempoolInit /\ [][MempoolNext]_mempoolVars

-----------------------------------------------------------------------------

Of(sender) == {id \in Pending(mempool) : Signer[id] = sender}

(* The type invariant.                                                     *)
MempoolTypeOK ==
  /\ now \in 0..MaxTime
  /\ Pending(mempool) \subseteq Ids
  /\ \A id \in Pending(mempool) : mempool.txById[id] \in 0..MaxTime
  /\ mempool.order \in Seq(Ids)
  /\ mempool.counts \in [Senders -> Nat]
  /\ mempool.bytes \in Nat
  /\ answer \in Answers

(* The order lists every pending transaction once and the counters are     *)
(* what they count (recomputeAccounting), after any sequence of additions, *)
(* refusals, expiries and removals, of ids that are gone already too.      *)
Accounting ==
  /\ ToSet(mempool.order) = Pending(mempool)
  /\ Len(mempool.order) = Cardinality(Pending(mempool))
  /\ \A s \in Senders : mempool.counts[s] = Cardinality(Of(s))
  /\ mempool.bytes = MapThenSumSet(LAMBDA id : Bytes[id], Pending(mempool))

(* The pending transactions themselves, not the counters, never exceed a   *)
(* limit of the configuration.                                             *)
WithinLimits ==
  /\ Cardinality(Pending(mempool)) <= MaxTransactions
  /\ MapThenSumSet(LAMBDA id : Bytes[id], Pending(mempool)) <= MaxBytes
  /\ \A s \in Senders : Cardinality(Of(s)) <= MaxPerSender

(* After any sequence of calls the pool is what its parts say: types, the  *)
(* order and the counters that every limit is tested on, and the limits,   *)
(* which hold of the transactions themselves (mempool.js).                 *)
PoolIsSound ==
  /\ MempoolTypeOK
  /\ Accounting
  /\ WithinLimits

Ahead(p, i, j) == \E m, n \in DOMAIN p.order : m < n /\ p.order[m] = i /\ p.order[n] = j

Stays(id) ==
  /\ id \in Pending(mempool) \cap Pending(mempool')
  /\ mempool'.txById[id] = mempool.txById[id]

(* Transactions keep their order while they are pending, and one that is   *)
(* admitted, for the first time or again, comes after all that were there: *)
(* the mode fifo selects them first come first served.                     *)
KeepsOrder ==
  \A i, j \in Pending(mempool') :
    i # j /\ Stays(i) /\ (Stays(j) => Ahead(mempool, i, j)) => Ahead(mempool', i, j)

OrderIsKept == [][KeepsOrder]_mempoolVars

(* What a call to add or to read removes has outlived the ttl: a full pool *)
(* evicts nothing and a refused transaction costs no other its place.      *)
EvictsNothing ==
  \A id \in Pending(mempool) \ Pending(mempool') :
    \/ Expired(mempool, id)
    \/ \E ids \in SeqOf(Ids, MaxBlock) : id \in ToSet(ids) /\ RemoveByIds(ids)

NothingIsEvicted == [][EvictsNothing]_mempoolVars

(* A refusal counts no expired transaction, unless a cleanup stopped at    *)
(* its MaxRemovals: those still alive fill the pool or the sender's share. *)
RefusesForTheLiving ==
  \A id \in Ids : AddTx(id) /\ answer' \in {"full", "sender_limit"} =>
    LET live == {i \in Pending(mempool) : ~Expired(mempool, i)}
    IN \/ Cardinality(Pending(mempool) \ live) > MaxRemovals
       \/ Cardinality(live) >= MaxTransactions
       \/ MapThenSumSet(LAMBDA i : Bytes[i], live) + Bytes[id] > MaxBytes
       \/ Cardinality({i \in live : Signer[i] = Signer[id]}) >= MaxPerSender

RefusedByTheLiving == [][RefusesForTheLiving]_mempoolVars

(* No call reorders what stays, evicts what is alive or refuses a          *)
(* transaction for the sake of expired ones (addTx, cleanupExpired).       *)
PoolSteps ==
  /\ OrderIsKept
  /\ NothingIsEvicted
  /\ RefusedByTheLiving

=============================================================================
