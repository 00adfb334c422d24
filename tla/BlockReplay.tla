---------------------------- MODULE BlockReplay ----------------------------
(***************************************************************************)
(* An observer next to the producer: it applies the producer's blocks one  *)
(* by one to its own ledger (applyExternalBlock, server/lib/blockchain.js) *)
(* with the same loop over the transactions, and adopts a block only when  *)
(* every transaction applied and the state root is the block's.  The       *)
(* transport of the blocks is the subject of ObserverSync; here a block is *)
(* at hand as soon as the producer has stored it.                          *)
(***************************************************************************)
EXTENDS Producer

VARIABLES
  obsLedger, obsGenesisFreeUsed, obsHeight, obsTodo, obsCachedBalance, obsApplied,
            \* tempLedger, tempMeta and the locals of the observer's loop
  obsPc,    \* "idle", or "apply" while the observer works on a block
  adopted,  \* the observer's own ledger and meta, in memory and in storage
  synced,   \* the observer's meta.latestHeight
  rejected, \* the observer has rejected the block at height synced + 1
  lossy     \* the heights of the blocks a selected transaction is missing
            \* from (history variable)

Obs == INSTANCE TxExecution WITH
  ledger <- obsLedger, genesisFreeUsed <- obsGenesisFreeUsed,
  height <- obsHeight, todo <- obsTodo,
  cachedBalance <- obsCachedBalance, applied <- obsApplied

obsVars == <<obsLedger, obsGenesisFreeUsed, obsHeight, obsTodo, obsCachedBalance,
             obsApplied, obsPc, adopted, synced, rejected>>
allVars == <<vars, obsVars, lossy>>

-----------------------------------------------------------------------------

ReplayInit ==
  /\ Init
  /\ obsLedger = InitialLedger
  /\ obsGenesisFreeUsed = FALSE
  /\ obsHeight = 0
  /\ obsTodo = <<>>
  /\ obsCachedBalance = NoCache
  /\ obsApplied = <<>>
  /\ obsPc = "idle"
  /\ adopted = [ledger |-> InitialLedger, genesisFreeUsed |-> FALSE]
  /\ synced = 0
  /\ rejected = FALSE
  /\ lossy = {}

NextBlock == chain[synced + 1]

\* Mutant of BeginReplay: the loop runs at the height of the block before.
BeginReplayOneBehind ==
  /\ obsPc = "idle"
  /\ synced < Len(chain)
  /\ ~rejected
  /\ synced > 0 => StateRoot(adopted.ledger) = chain[synced].stateRoot
  /\ obsPc' = "apply"
  /\ Obs!BeginExecution(NextBlock.txs, synced)
  /\ UNCHANGED <<vars, lossy, obsLedger, obsGenesisFreeUsed, adopted, synced, rejected>>

(* The next block follows the observer's own state; a copy of the ledger   *)
(* and meta is made and the loop starts on the block's transactions.       *)
BeginReplay ==
  /\ obsPc = "idle"
  /\ synced < Len(chain)
  /\ ~rejected
  /\ synced > 0 => StateRoot(adopted.ledger) = chain[synced].stateRoot
  /\ obsPc' = "apply"
  /\ Obs!BeginExecution(NextBlock.txs, synced + 1)
  /\ UNCHANGED <<vars, lossy, obsLedger, obsGenesisFreeUsed, adopted, synced, rejected>>

ReplayTx ==
  /\ obsPc = "apply"
  /\ Obs!ExecuteTx
  /\ UNCHANGED <<vars, lossy, obsPc, adopted, synced, rejected>>

(* The block's own commitments hold for what the observer computed.        *)
BlockMatches ==
  /\ Len(obsApplied) = Len(NextBlock.txs)
  /\ StateRoot(Rewarded(obsLedger, obsHeight)) = NextBlock.stateRoot

EndReplay ==
  /\ obsPc = "apply"
  /\ obsTodo = <<>>
  /\ obsPc' = "idle"
  /\ Obs!BeginExecution(<<>>, 0)

\* Mutant of AdoptBlock: what is adopted is the ledger before the rewards.
AdoptBeforeRewards ==
  /\ EndReplay
  /\ BlockMatches
  /\ obsLedger' = Rewarded(obsLedger, obsHeight)
  /\ adopted' = [ledger |-> obsLedger, genesisFreeUsed |-> obsGenesisFreeUsed]
  /\ synced' = synced + 1
  /\ UNCHANGED <<vars, lossy, obsGenesisFreeUsed, rejected>>

AdoptBlock ==
  /\ EndReplay
  /\ BlockMatches
  /\ LET l == Rewarded(obsLedger, obsHeight) IN
       /\ obsLedger' = l
       /\ adopted' = [ledger |-> l, genesisFreeUsed |-> obsGenesisFreeUsed]
  /\ synced' = synced + 1
  /\ UNCHANGED <<vars, lossy, obsGenesisFreeUsed, rejected>>

(* The copy is dropped.  The observer asks for the same block on its next  *)
(* tick, with the same outcome: nothing it holds has changed.              *)
RejectExternal ==
  /\ EndReplay
  /\ ~BlockMatches
  /\ obsLedger' = adopted.ledger
  /\ obsGenesisFreeUsed' = adopted.genesisFreeUsed
  /\ rejected' = TRUE
  /\ UNCHANGED <<vars, lossy, adopted, synced>>

(* A step of the producer, which may store a block.                        *)
ProducerStep ==
  /\ Next
  /\ lossy' = IF chain' # chain /\ Len(chain'[Len(chain')].txs) < Len(selected)
                THEN lossy \cup {Len(chain')} ELSE lossy
  /\ UNCHANGED obsVars

ReplayNext ==
  \/ ProducerStep
  \/ BeginReplay
  \/ ReplayTx
  \/ AdoptBlock
  \/ RejectExternal

ReplaySpec == ReplayInit /\ [][ReplayNext]_allVars

-----------------------------------------------------------------------------

(* The type invariant.                                                     *)
ReplayTypeOK ==
  /\ TypeOK
  /\ Obs!ExecTypeOK
  /\ obsPc \in {"idle", "apply"}
  /\ adopted \in [ledger : Ledgers, genesisFreeUsed : BOOLEAN]
  /\ synced \in 0 .. Len(chain)
  /\ rejected \in BOOLEAN
  /\ lossy \subseteq 1 .. Len(chain)

(* What an observer rejects is a block whose producer selected more than   *)
(* the block holds: with every selected transaction applied the replay     *)
(* agrees, whatever the types, the stale balances and the bonds returned.  *)
OnlyLossyRejected == rejected => synced + 1 \in lossy

(* An observer that has adopted every stored block holds the producer's    *)
(* state, the nonces included, which the state root does not cover.        *)
AgreesAtTip == synced = Len(chain) /\ obsPc = "idle" => adopted = stored

(* An observer beside the producer stays in a state of the right types,    *)
(* rejects a block only when a selected transaction is missing from it,    *)
(* and holds the producer's whole state when it has all its blocks         *)
(* (applyExternalBlock).                                                   *)
ReplayInv ==
  /\ ReplayTypeOK
  /\ OnlyLossyRejected
  /\ AgreesAtTip
=============================================================================
