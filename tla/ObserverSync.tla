---------------------------- MODULE ObserverSync ----------------------------
(***************************************************************************)
(* The polling loop by which an observer follows the producer              *)
(* (server/lib/sync.js), the heartbeats it sends                           *)
(* (server/lib/observerHeartbeatClient.js) and the record the producer     *)
(* keeps of it (server/lib/observerRegistry.js, networkStatus.js).         *)
(*                                                                         *)
(* What applyExternalBlock computes from a block's transactions is the     *)
(* subject of BlockReplay; here a block that continues the observer's      *)
(* chain is valid.  A batch is applied without yielding to other           *)
(* callbacks, so no heartbeat is sent while pc is "apply", but every block *)
(* of it is stored on its own.  Storage is SQLite: putBlock is one         *)
(* transaction.                                                            *)
(***************************************************************************)
EXTENDS Integers, Sequences, FiniteSets, SequencesExt

CONSTANTS
  BatchSize,     \* maxBatch, the blocks asked for in a request
  None,          \* an absent value
  MaxBlocks,     \* bound: the blocks ever sealed
  MaxRestores,   \* bound: restores of the producer from a backup
  MaxFaults,     \* bound: failed writes and audits, cut responses, restarts
  MaxBeats       \* bound: heartbeats under way at the same time

ASSUME SyncAssumption ==
  /\ BatchSize \in Nat \ {0}
  /\ {MaxBlocks, MaxRestores, MaxFaults, MaxBeats} \subseteq Nat

VARIABLES
  sealed,        \* every block the producer has ever sealed
  chain,         \* the producer's blocks after genesis
  backup,        \* its last backup: chain and observer record
  copy,          \* the observer's blocks after genesis
  pc,            \* where tick is: "idle", "wait", "apply" or "hung"
  answered,      \* the producer has handled the request
  response,      \* its answer, None before it
  syncState,     \* syncStatus.syncState
  syncedHeight,  \* syncStatus.syncedHeight
  knownHeight,   \* syncStatus.producerHeight, 0 for null
  beats,         \* the heartbeats under way
  beatPending,   \* the heartbeat client's inFlight
  record,        \* the producer's observer record, None before the first
  restores,      \* how often the producer was restored
  faults         \* how many faults have happened

producerVars == <<sealed, chain, backup>>
requestVars == <<answered, response>>
statusVars == <<syncState, syncedHeight, knownHeight>>
beatVars == <<beats, beatPending>>
boundVars == <<restores, faults>>
vars == <<producerVars, copy, pc, requestVars, statusVars, beatVars, record, boundVars>>

-----------------------------------------------------------------------------

(* A block as far as synchronization looks at it: its height, its hash,    *)
(* and the hash of the block before it.                                    *)
Blocks == [height : Nat \ {0}, id : 1 .. MaxBlocks, prev : 0 .. MaxBlocks]

Responses == [blocks : Seq(Blocks), height : Nat]

ASSUME NoneAssumption == None \notin Responses

(* meta.latestHeight and meta.latestHash; genesis has height and hash 0.   *)
Height(blocks) == Len(blocks)
Hash(blocks) == IF blocks = <<>> THEN 0 ELSE blocks[Len(blocks)].id

(* The bounds may be spent in part before the observer begins.             *)
Init ==
  /\ sealed = {}
  /\ chain = <<>>
  /\ backup = None
  /\ copy = <<>>
  /\ pc = "idle"
  /\ answered = FALSE
  /\ response = None
  /\ syncState = "syncing"
  /\ syncedHeight = 0
  /\ knownHeight = 0
  /\ beats = {}
  /\ beatPending = FALSE
  /\ record = None
  /\ restores \in 0 .. MaxRestores
  /\ faults \in 0 .. MaxFaults

-----------------------------------------------------------------------------
(* The producer.                                                           *)

SealBlock ==
  /\ Cardinality(sealed) < MaxBlocks
  /\ LET block == [height |-> Height(chain) + 1,
                   id |-> Cardinality(sealed) + 1, prev |-> Hash(chain)]
     IN  /\ sealed' = sealed \cup {block}
         /\ chain' = Append(chain, block)
  /\ UNCHANGED <<backup, copy, pc, requestVars, statusVars, beatVars, record, boundVars>>

(* createBackup takes a snapshot of the database, the observers' records   *)
(* included, and restoreBackup brings it back; the producer is stopped     *)
(* meanwhile and seals other blocks afterwards.                            *)
CreateBackup ==
  /\ restores < MaxRestores
  /\ backup' = [chain |-> chain, record |-> record]
  /\ UNCHANGED <<sealed, chain, copy, pc, requestVars, statusVars, beatVars, record,
                 boundVars>>

RestoreBackup ==
  /\ backup # None
  /\ restores < MaxRestores
  /\ chain' = backup.chain
  /\ record' = backup.record
  /\ restores' = restores + 1
  /\ UNCHANGED <<sealed, backup, copy, pc, requestVars, statusVars, beatVars, faults>>

-----------------------------------------------------------------------------
(* The observer's tick.                                                    *)

(* The timer fires and tick sends its request; a tick that finds another   *)
(* one in flight returns.                                                  *)
Tick ==
  /\ pc = "idle"
  /\ pc' = "wait"
  /\ UNCHANGED <<producerVars, copy, requestVars, statusVars, beatVars, record, boundVars>>

\* Mutant of BlocksFrom: one block too late.
BlocksAfter(h) == SubSeq(chain, h + 1, Min({h + BatchSize, Len(chain)}))

(* getBlocksFromHeight: at most BatchSize blocks from height h on.         *)
BlocksFrom(h) == SubSeq(chain, h, Min({h + BatchSize - 1, Len(chain)}))

(* GET /api/blocks: the blocks after the observer's latest, and the        *)
(* producer's height.                                                      *)
Respond ==
  /\ pc = "wait"
  /\ ~answered
  /\ answered' = TRUE
  /\ response' = [blocks |-> BlocksFrom(Height(copy) + 1), height |-> Height(chain)]
  /\ UNCHANGED <<producerVars, copy, pc, statusVars, beatVars, record, boundVars>>

(* tick returns: inFlight is cleared.                                      *)
Return ==
  /\ pc' = "idle"
  /\ answered' = FALSE
  /\ response' = None

(* What tick reports at its end, without an error.                         *)
Report ==
  /\ syncState' = IF response.height > Height(copy) THEN "syncing" ELSE "synced"
  /\ syncedHeight' = Height(copy)
  /\ knownHeight' = response.height

(* The catch block reports the error and nothing else.                     *)
ReportError ==
  /\ syncState' = "error"
  /\ UNCHANGED <<syncedHeight, knownHeight>>

ReceiveNothingNew ==
  /\ pc = "wait"
  /\ answered
  /\ response.blocks = <<>>
  /\ Return
  /\ Report
  /\ UNCHANGED <<producerVars, copy, beatVars, record, boundVars>>

ReceiveBlocks ==
  /\ pc = "wait"
  /\ answered
  /\ response.blocks # <<>>
  /\ pc' = "apply"
  /\ UNCHANGED <<producerVars, copy, requestVars, statusVars, beatVars, record, boundVars>>

(* The request times out, is refused or loses its connection, before or    *)
(* after the producer handled it; a late answer finds no listener.         *)
FetchFails ==
  /\ pc = "wait"
  /\ Return
  /\ ReportError
  /\ UNCHANGED <<producerVars, copy, beatVars, record, boundVars>>

(* The connection closes within the body of the response.  fetchBlocks     *)
(* waits for the response's 'end' or an 'error' of the request; neither is *)
(* emitted then (Node's http client emits 'aborted' and 'error' on the     *)
(* response), so the promise is never settled and inFlight stays set.      *)
ResponseCut ==
  /\ pc = "wait"
  /\ answered
  /\ faults < MaxFaults
  /\ pc' = "hung"
  /\ faults' = faults + 1
  /\ UNCHANGED <<producerVars, copy, requestVars, statusVars, beatVars, record, restores>>

\* Mutant of Continues: the previous block's hash is not compared.
HasNextHeight(block) == block.height = Height(copy) + 1

(* applyExternalBlock: the block has the next height and follows the       *)
(* observer's latest hash.                                                 *)
Continues(block) ==
  /\ block.height = Height(copy) + 1
  /\ block.prev = Hash(copy)

(* It accepts the next block of the batch, stores it and adopts it.        *)
ApplyBlock ==
  /\ pc = "apply"
  /\ response.blocks # <<>>
  /\ Continues(Head(response.blocks))
  /\ copy' = Append(copy, Head(response.blocks))
  /\ response' = [response EXCEPT !.blocks = Tail(@)]
  /\ UNCHANGED <<producerVars, pc, answered, statusVars, beatVars, record, boundVars>>

RefuseBlock ==
  /\ pc = "apply"
  /\ response.blocks # <<>>
  /\ ~Continues(Head(response.blocks))
  /\ Return
  /\ ReportError
  /\ UNCHANGED <<producerVars, copy, beatVars, record, boundVars>>

(* putBlock fails and nothing of the block is kept, as with SQLite, or the *)
(* block is stored and adopted and the full audit after it fails: the rest *)
(* of the batch is dropped.  What the JSON storage may keep of a block it  *)
(* failed to put is in ChainStorage (PutThrows).                           *)
ApplyFails ==
  /\ pc = "apply"
  /\ response.blocks # <<>>
  /\ Continues(Head(response.blocks))
  /\ faults < MaxFaults
  /\ copy' \in {copy, Append(copy, Head(response.blocks))}
  /\ faults' = faults + 1
  /\ Return
  /\ ReportError
  /\ UNCHANGED <<producerVars, beatVars, record, restores>>

FinishBatch ==
  /\ pc = "apply"
  /\ response.blocks = <<>>
  /\ Return
  /\ Report
  /\ UNCHANGED <<producerVars, copy, beatVars, record, boundVars>>

(* The observer's process ends, at any moment, and is started again.       *)
RestartObserver ==
  /\ faults < MaxFaults
  /\ faults' = faults + 1
  /\ Return
  /\ syncState' = "syncing"
  /\ syncedHeight' = Height(copy)
  /\ knownHeight' = 0
  /\ beatPending' = FALSE
  /\ UNCHANGED <<producerVars, copy, beats, record, restores>>

-----------------------------------------------------------------------------
(* Heartbeats.                                                             *)

\* Mutant of SendBeat: the producer's height is reported as the observer's.
SendProducerHeight ==
  /\ pc # "apply"
  /\ ~beatPending
  /\ Cardinality(beats) < MaxBeats
  /\ beatPending' = TRUE
  /\ beats' = beats \cup {[height |-> knownHeight, hash |-> Hash(copy)]}
  /\ UNCHANGED <<producerVars, copy, pc, requestVars, statusVars, record, boundVars>>

(* The client reports syncStatus.syncedHeight and the latest hash.         *)
SendBeat ==
  /\ pc # "apply"
  /\ ~beatPending
  /\ Cardinality(beats) < MaxBeats
  /\ beatPending' = TRUE
  /\ beats' = beats \cup {[height |-> syncedHeight, hash |-> Hash(copy)]}
  /\ UNCHANGED <<producerVars, copy, pc, requestVars, statusVars, record, boundVars>>

(* The client stops waiting: it was answered, or it timed out, and then    *)
(* the heartbeat may still be under way.                                   *)
BeatReturns ==
  /\ pc # "apply"
  /\ beatPending
  /\ beatPending' = FALSE
  /\ UNCHANGED <<producerVars, copy, pc, requestVars, statusVars, beats, record, boundVars>>

(* The producer overwrites the observer's record, in the order in which    *)
(* heartbeats arrive, or the heartbeat is lost.                            *)
BeatArrives(beat) ==
  /\ beats' = beats \ {beat}
  /\ record' \in {beat, record}
  /\ UNCHANGED <<producerVars, copy, pc, requestVars, statusVars, beatPending, boundVars>>

\* Mutant of ObserverStatus: the hashes are not compared.
StatusByHeight ==
  IF record = None THEN "unknown"
  ELSE IF record.height # Height(chain) THEN "syncing" ELSE "fully_synced"

(* observerStatus, of an observer that was seen recently.                  *)
ObserverStatus ==
  IF record = None THEN "unknown"
  ELSE IF record.height # Height(chain) THEN "syncing"
  ELSE IF record.hash = Hash(chain) THEN "fully_synced" ELSE "mismatch"

-----------------------------------------------------------------------------

Next ==
  \/ SealBlock
  \/ CreateBackup
  \/ RestoreBackup
  \/ Tick
  \/ Respond
  \/ ReceiveNothingNew
  \/ ReceiveBlocks
  \/ FetchFails
  \/ ResponseCut
  \/ ApplyBlock
  \/ RefuseBlock
  \/ ApplyFails
  \/ FinishBatch
  \/ RestartObserver
  \/ SendBeat
  \/ BeatReturns
  \/ \E beat \in beats : BeatArrives(beat)

Spec == Init /\ [][Next]_vars

(* setInterval calls tick again and again; the loop over a batch, once     *)
(* begun, runs to its end; and of the requests that are sent again and     *)
(* again some reach the producer, and some of its answers the observer.    *)
Fairness ==
  /\ WF_vars(Tick)
  /\ SF_vars(Respond)
  /\ SF_vars(ReceiveNothingNew \/ ReceiveBlocks)
  /\ WF_vars(ApplyBlock \/ RefuseBlock \/ FinishBatch)

FairSpec == Spec /\ Fairness

-----------------------------------------------------------------------------

Beats == [height : Nat, hash : 0 .. MaxBlocks]

TypeOK ==
  /\ sealed \subseteq Blocks
  /\ chain \in Seq(Blocks)
  /\ backup \in [chain : Seq(Blocks), record : Beats \cup {None}] \cup {None}
  /\ copy \in Seq(Blocks)
  /\ pc \in {"idle", "wait", "apply", "hung"}
  /\ answered \in BOOLEAN
  /\ response \in Responses \cup {None}
  /\ syncState \in {"syncing", "synced", "error"}
  /\ syncedHeight \in Nat
  /\ knownHeight \in Nat
  /\ beats \subseteq Beats
  /\ beatPending \in BOOLEAN
  /\ record \in Beats \cup {None}
  /\ restores \in Nat
  /\ faults \in Nat

(* Blocks that follow one another from genesis on.                         *)
Linked(blocks) ==
  \A i \in DOMAIN blocks :
    /\ blocks[i].height = i
    /\ blocks[i].prev = IF i = 1 THEN 0 ELSE blocks[i - 1].id

(* Hashes identify the sealed blocks.                                      *)
SealedInv ==
  /\ IsFiniteSet(sealed)
  /\ \A b \in sealed : b.id \in 1 .. Cardinality(sealed)
  /\ \A b, c \in sealed : b.id = c.id => b = c

(* The producer's chain, its backup's and the observer's are linked        *)
(* sequences of sealed blocks.                                             *)
ChainsInv ==
  /\ chain \in Seq(sealed) /\ Linked(chain)
  /\ copy \in Seq(sealed) /\ Linked(copy)
  /\ backup # None => backup.chain \in Seq(sealed) /\ Linked(backup.chain)
  /\ response # None => response.blocks \in Seq(sealed)

RequestInv ==
  /\ answered <=> response # None
  /\ pc = "apply" => answered

(* A heartbeat carries the hash of one of the observer's blocks, and the   *)
(* height of that block or of one before it.                               *)
Truthful(beat, blocks) ==
  \E k \in 0 .. Len(blocks) : /\ beat.height <= k
                             /\ beat.hash = IF k = 0 THEN 0 ELSE blocks[k].id

BeatsInv ==
  /\ syncedHeight <= Height(copy)
  /\ \A beat \in beats : Truthful(beat, copy)
  /\ record # None => Truthful(record, copy)
  /\ backup # None /\ backup.record # None => Truthful(backup.record, copy)

(* The observer's blocks are a path through the sealed blocks, and only    *)
(* one block at a time is ever added to it.                                *)
IdsOf(blocks) == [i \in DOMAIN blocks |-> blocks[i].id]

Abstract == INSTANCE ChainCopy WITH
  Ids <- 1 .. MaxBlocks,
  sealed <- {[id |-> b.id, prev |-> b.prev] : b \in sealed},
  copy <- IdsOf(copy)

ImplementsChainCopy == Abstract!CopySpec

(* An observer that reports "synced" has every block the producer had when *)
(* it answered: a failed batch is never reported as a finished one.        *)
SyncedReachedProducer == syncState = "synced" => Height(copy) >= knownHeight

(* The invariant that is inductive: ObserverSyncProofs proves it.          *)
SyncInv ==
  /\ TypeOK
  /\ SealedInv
  /\ ChainsInv
  /\ RequestInv
  /\ BeatsInv
  /\ SyncedReachedProducer

(* An observer is listed as fully synced only when it has the producer's   *)
(* chain, whatever heartbeats were lost, delayed or overtaken.             *)
FullySyncedIsReal == ObserverStatus = "fully_synced" => IsPrefix(chain, copy)

(* An observer is listed as a mismatch only when its chain has left the    *)
(* producer's: a late heartbeat alone raises no alarm.                     *)
MismatchIsReal == ObserverStatus = "mismatch" => ~IsPrefix(copy, chain)

(* Every block the producer holds reaches the observer, through lost       *)
(* requests, failed writes and restarts, unless a response was cut within  *)
(* its body, or a restored producer has lost it or sealed other blocks.    *)
CatchesUpUnlessHung ==
  \A h \in 1 .. MaxBlocks :
    Height(chain) >= h ~> \/ Height(copy) >= h
                          \/ pc = "hung"
                          \/ Height(chain) < h \/ ~IsPrefix(copy, chain)
=============================================================================
