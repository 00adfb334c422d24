-------------------------- MODULE ObserverSyncProofs --------------------------
(***************************************************************************)
(* What ObserverSync keeps, for every batch size and every bound: its      *)
(* inductive invariant SyncInv, the truth of the statuses that both sides  *)
(* show, and that it implements ChainCopy.  Around an observer, what       *)
(* Desktop keeps for any children, ports and budgets.                      *)
(***************************************************************************)
EXTENDS ObserverSync, Desktop, FiniteSetTheorems, SequenceTheorems, WellFoundedInduction, TLAPS

(* The smaller of two numbers is one of them and bounds both.              *)
LEMMA MinLemma ==
  ASSUME NEW x \in Int, NEW y \in Int
  PROVE  Min({x, y}) \in Int /\ Min({x, y}) <= x /\ Min({x, y}) <= y
<1>1. \E m \in {x, y} : \A k \in {x, y} : m =< k
  <2>1. CASE x <= y
    BY <2>1
  <2>2. CASE ~(x <= y)
    BY <2>2
  <2>3. QED
    BY <2>1, <2>2
<1>2. Min({x, y}) \in {x, y} /\ \A k \in {x, y} : Min({x, y}) =< k
  BY <1>1 DEF Min
<1>3. QED
  BY <1>2

(* What BlocksFrom serves are blocks of the producer's chain.              *)
LEMMA BlocksFromLemma ==
  ASSUME NEW S, chain \in Seq(S), NEW h \in Nat \ {0}
  PROVE  BlocksFrom(h) \in Seq(S)
<1> DEFINE last == Min({h + BatchSize - 1, Len(chain)})
<1>1. h + BatchSize - 1 \in Int /\ Len(chain) \in Nat
  BY SyncAssumption, LenProperties
<1>2. last \in Int /\ last <= Len(chain)
  <2>1. \A x, y \in Int : Min({x, y}) \in Int /\ Min({x, y}) <= y
    BY MinLemma
  <2>2. h + BatchSize - 1 \in Int /\ Len(chain) \in Int
    BY <1>1
  <2>3. QED
    BY <2>1, <2>2, Zenon
<1> HIDE DEF last
<1>3. \A i \in h .. last : chain[i] \in S
  BY <1>1, <1>2, ElementOfSeq
<1>4. SubSeq(chain, h, last) \in Seq(S)
  BY <1>2, <1>3, SubSeqProperties
<1>5. QED
  BY <1>4 DEF BlocksFrom, last

(* A block that continues a linked sequence keeps it linked.               *)
LEMMA LinkedLemma ==
  ASSUME NEW S, NEW blocks \in Seq(S), NEW block \in S, Linked(blocks),
         block.height = Len(blocks) + 1, block.prev = Hash(blocks)
  PROVE  /\ Append(blocks, block) \in Seq(S)
         /\ Linked(Append(blocks, block))
<1> DEFINE longer == Append(blocks, block)
<1>1. /\ longer \in Seq(S)
      /\ Len(longer) = Len(blocks) + 1
      /\ \A i \in 1 .. Len(blocks) : longer[i] = blocks[i]
      /\ longer[Len(blocks) + 1] = block
  BY AppendProperties
<1>2. /\ Len(blocks) \in Nat
      /\ DOMAIN blocks = 1 .. Len(blocks)
      /\ DOMAIN longer = 1 .. Len(blocks) + 1
  BY <1>1, LenProperties
<1>3. blocks = <<>> <=> Len(blocks) = 0
  BY EmptySeq
<1> HIDE DEF longer
<1>4. ASSUME NEW i \in DOMAIN longer
      PROVE  /\ longer[i].height = i
             /\ longer[i].prev = IF i = 1 THEN 0 ELSE longer[i - 1].id
  <2>1. CASE i \in 1 .. Len(blocks)
    <3>1. longer[i] = blocks[i] /\ (i # 1 => longer[i - 1] = blocks[i - 1])
      BY <1>1, <1>2, <2>1
    <3>2. QED
      BY <1>2, <2>1, <3>1 DEF Linked
  <2>2. CASE i = Len(blocks) + 1
    <3>1. longer[i] = block /\ (i # 1 => longer[i - 1] = blocks[Len(blocks)])
      BY <1>1, <1>2, <2>2
    <3>2. i = 1 <=> blocks = <<>>
      BY <1>2, <1>3, <2>2
    <3>3. QED
      BY <2>2, <3>1, <3>2 DEF Hash
  <2>3. QED
    BY <1>2, <2>1, <2>2
<1>5. QED
  BY <1>1, <1>4 DEF longer, Linked

-----------------------------------------------------------------------------

(* The invariant holds at the start.                                       *)
LEMMA InitSync == Init => SyncInv
<1>1. SUFFICES ASSUME Init PROVE SyncInv
  OBVIOUS
<1>2. /\ <<>> \in Seq(Blocks) /\ <<>> \in Seq(sealed) /\ Len(<<>>) = 0
      /\ Linked(<<>>)
  BY EmptySeq DEF Linked
<1>3. TypeOK
  <2>1. restores \in Nat /\ faults \in Nat
    BY <1>1, SyncAssumption DEF Init
  <2>2. QED
    BY <1>1, <1>2, <2>1 DEF Init, TypeOK
<1>4. SealedInv
  BY <1>1, FS_EmptySet DEF Init, SealedInv
<1>5. ChainsInv
  BY <1>1, <1>2 DEF Init, ChainsInv
<1>6. RequestInv /\ BeatsInv /\ SyncedReachedProducer
  BY <1>1, <1>2 DEF Init, RequestInv, BeatsInv, SyncedReachedProducer, Height
<1>7. QED
  BY <1>3, <1>4, <1>5, <1>6 DEF SyncInv

(* A step that leaves the chains and the heartbeats alone only has to keep *)
(* the types, the request and the status.                                  *)
LEMMA StatusStep ==
  ASSUME SyncInv,
         UNCHANGED <<sealed, chain, backup, copy, beats, record>>,
         response' = response \/ response' = None,
         syncedHeight' = syncedHeight \/ syncedHeight' = Height(copy),
         TypeOK', RequestInv', SyncedReachedProducer'
  PROVE  SyncInv'
<1> USE DEF SyncInv
<1>1. SealedInv'
  BY DEF SealedInv
<1>2. ChainsInv'
  BY DEF ChainsInv, Linked
<1>3. Height(copy) \in Nat /\ Height(copy) = Height(copy)'
  BY LenProperties DEF ChainsInv, Height
<1>4. BeatsInv'
  BY <1>3 DEF BeatsInv, Truthful
<1>5. QED
  BY <1>1, <1>2, <1>4

(* The producer seals a block: its hash is new, and its chain stays        *)
(* linked.                                                                 *)
LEMMA SealBlockSync ==
  ASSUME SyncInv, SealBlock
  PROVE  SyncInv'
<1> USE DEF SyncInv
<1> DEFINE block == [height |-> Height(chain) + 1,
                     id |-> Cardinality(sealed) + 1, prev |-> Hash(chain)]
<1>1. /\ sealed' = sealed \cup {block}
      /\ chain' = Append(chain, block)
      /\ Cardinality(sealed) < MaxBlocks
      /\ UNCHANGED <<backup, copy, pc, requestVars, statusVars, beatVars, record,
                     boundVars>>
  BY DEF SealBlock
<1>2. /\ IsFiniteSet(sealed) /\ Cardinality(sealed) \in Nat
      /\ \A b \in sealed : b.id \in 1 .. Cardinality(sealed)
  BY FS_CardinalityType DEF SealedInv
<1>3. /\ block.height = Len(chain) + 1 /\ block.prev = Hash(chain)
      /\ block.id = Cardinality(sealed) + 1
  BY DEF Height
<1>4. chain \in Seq(sealed) /\ Linked(chain) /\ Len(chain) \in Nat
  BY LenProperties DEF ChainsInv
<1>5. Hash(chain) \in 0 .. MaxBlocks
  <2>1. CASE chain = <<>>
    BY <2>1, SyncAssumption DEF Hash
  <2>2. CASE chain # <<>>
    <3>1. Len(chain) \in 1 .. Len(chain)
      BY <1>4, <2>2, EmptySeq
    <3>2. chain[Len(chain)] \in Blocks
      BY <1>4, <3>1, ElementOfSeq DEF TypeOK
    <3>3. QED
      BY <2>2, <3>2, SyncAssumption DEF Hash, Blocks
  <2>3. QED
    BY <2>1, <2>2
<1>6. block \in Blocks
  BY <1>1, <1>2, <1>4, <1>5, SyncAssumption DEF Blocks, Height
<1> HIDE DEF block
<1>7. block \notin sealed
  BY <1>2, <1>3
<1>8. IsFiniteSet(sealed') /\ Cardinality(sealed') = Cardinality(sealed) + 1
  BY <1>1, <1>2, <1>7, FS_AddElement
<1>9. SealedInv'
  <2>1. \A b \in sealed : b.id \in 1 .. Cardinality(sealed) /\ b.id # block.id
    BY <1>2, <1>3
  <2>2. \A b \in sealed' : b \in sealed \/ b = block
    BY <1>1
  <2>3. \A b \in sealed' : b.id \in 1 .. Cardinality(sealed) + 1
    BY <1>2, <1>3, <2>1, <2>2
  <2>4. \A b, c \in sealed' : b.id = c.id => b = c
    BY <2>1, <2>2 DEF SealedInv
  <2>5. QED
    BY <1>8, <2>3, <2>4 DEF SealedInv
<1>10. sealed \subseteq sealed' /\ block \in sealed'
  BY <1>1
<1>11. \A s \in Seq(sealed) : s \in Seq(sealed')
  BY <1>10, SeqMonotonic
<1>12. chain' \in Seq(sealed') /\ Linked(chain')
  BY <1>1, <1>3, <1>4, <1>10, <1>11, LinkedLemma
<1>13. ChainsInv'
  BY <1>1, <1>11, <1>12 DEF ChainsInv, Linked, requestVars
<1>14. TypeOK'
  <2>1. chain' \in Seq(Blocks) /\ sealed' \subseteq Blocks
    BY <1>1, <1>6, AppendProperties DEF TypeOK
  <2>2. QED
    BY <1>1, <2>1 DEF TypeOK, requestVars, statusVars, beatVars, boundVars
<1>15. RequestInv' /\ BeatsInv' /\ SyncedReachedProducer'
  BY <1>1 DEF RequestInv, BeatsInv, Truthful, SyncedReachedProducer, Height,
              requestVars, statusVars, beatVars
<1>16. QED
  BY <1>9, <1>13, <1>14, <1>15

(* A backup holds what the producer holds.                                 *)
LEMMA CreateBackupSync ==
  ASSUME SyncInv, CreateBackup
  PROVE  SyncInv'
<1> USE DEF SyncInv
<1>1. /\ backup' = [chain |-> chain, record |-> record]
      /\ UNCHANGED <<sealed, chain, copy, pc, requestVars, statusVars, beatVars, record,
                     boundVars>>
  BY DEF CreateBackup
<1>2. TypeOK'
  BY <1>1 DEF TypeOK, requestVars, statusVars, beatVars, boundVars
<1>3. ChainsInv'
  BY <1>1 DEF ChainsInv, Linked, requestVars
<1>4. BeatsInv'
  BY <1>1 DEF BeatsInv, Truthful, Height, statusVars, beatVars
<1>5. SealedInv' /\ RequestInv' /\ SyncedReachedProducer'
  BY <1>1 DEF SealedInv, RequestInv, SyncedReachedProducer, Height,
              requestVars, statusVars
<1>6. QED
  BY <1>2, <1>3, <1>4, <1>5

(* A restored producer holds what it held before: blocks that are sealed,  *)
(* and a heartbeat the observer did send.                                  *)
LEMMA RestoreBackupSync ==
  ASSUME SyncInv, RestoreBackup
  PROVE  SyncInv'
<1> USE DEF SyncInv
<1>1. /\ backup # None
      /\ chain' = backup.chain /\ record' = backup.record
      /\ restores' = restores + 1
      /\ UNCHANGED <<sealed, backup, copy, pc, requestVars, statusVars, beatVars, faults>>
  BY DEF RestoreBackup
<1>2. backup.chain \in Seq(Blocks) /\ backup.record \in Beats \cup {None}
  BY <1>1 DEF TypeOK
<1>3. TypeOK'
  BY <1>1, <1>2 DEF TypeOK, requestVars, statusVars, beatVars
<1>4. ChainsInv'
  BY <1>1 DEF ChainsInv, Linked, requestVars
<1>5. BeatsInv'
  BY <1>1 DEF BeatsInv, Truthful, Height, statusVars, beatVars
<1>6. SealedInv' /\ RequestInv' /\ SyncedReachedProducer'
  BY <1>1 DEF SealedInv, RequestInv, SyncedReachedProducer, Height,
              requestVars, statusVars
<1>7. QED
  BY <1>3, <1>4, <1>5, <1>6

-----------------------------------------------------------------------------

(* tick asks.                                                              *)
LEMMA TickSync ==
  ASSUME SyncInv, Tick
  PROVE  SyncInv'
<1> USE DEF SyncInv
<1>1. /\ pc' = "wait"
      /\ UNCHANGED <<producerVars, copy, requestVars, statusVars, beatVars, record,
                     boundVars>>
  BY DEF Tick
<1>2. TypeOK' /\ RequestInv' /\ SyncedReachedProducer'
  BY <1>1 DEF TypeOK, RequestInv, SyncedReachedProducer, Height,
              producerVars, requestVars, statusVars, beatVars, boundVars
<1>3. QED
  BY <1>1, <1>2, StatusStep DEF producerVars, requestVars, statusVars, beatVars

(* The answer holds sealed blocks.                                         *)
LEMMA RespondSync ==
  ASSUME SyncInv, Respond
  PROVE  SyncInv'
<1> USE DEF SyncInv
<1>1. /\ pc = "wait" /\ answered' = TRUE
      /\ response' = [blocks |-> BlocksFrom(Height(copy) + 1), height |-> Height(chain)]
      /\ UNCHANGED <<producerVars, copy, pc, statusVars, beatVars, record, boundVars>>
  BY DEF Respond
<1>2. Height(copy) + 1 \in Nat \ {0} /\ Height(chain) \in Nat
  BY LenProperties DEF ChainsInv, Height
<1>3. /\ BlocksFrom(Height(copy) + 1) \in Seq(sealed)
      /\ BlocksFrom(Height(copy) + 1) \in Seq(Blocks)
  BY <1>2, BlocksFromLemma DEF ChainsInv, TypeOK
<1>4. response' \in Responses
  BY <1>1, <1>2, <1>3 DEF Responses
<1>5. response' # None
  BY <1>4, NoneAssumption
<1>6. TypeOK'
  BY <1>1, <1>4 DEF TypeOK, producerVars, statusVars, beatVars, boundVars
<1>7. ChainsInv'
  BY <1>1, <1>3 DEF ChainsInv, Linked, producerVars
<1>8. RequestInv'
  BY <1>1, <1>5 DEF RequestInv
<1>9. SealedInv' /\ BeatsInv' /\ SyncedReachedProducer'
  BY <1>1 DEF SealedInv, BeatsInv, Truthful, SyncedReachedProducer, Height,
              producerVars, statusVars, beatVars
<1>10. QED
  BY <1>6, <1>7, <1>8, <1>9

(* tick ends in one of its reports, with the chains as they are.           *)
LEMMA ReturnSync ==
  ASSUME SyncInv, Return,
         UNCHANGED <<sealed, chain, backup, copy, beats, record, restores>>,
         faults' \in Nat, beatPending' \in BOOLEAN,
         syncState' \in {"syncing", "synced", "error"},
         syncedHeight' = syncedHeight \/ syncedHeight' = Height(copy),
         knownHeight' \in Nat,
         SyncedReachedProducer'
  PROVE  SyncInv'
<1>1. /\ pc' = "idle" /\ answered' = FALSE /\ response' = None
  BY DEF Return
<1>2. Height(copy) \in Nat
  BY LenProperties DEF SyncInv, ChainsInv, Height
<1>3. TypeOK'
  BY <1>1, <1>2 DEF SyncInv, TypeOK
<1>4. RequestInv'
  BY <1>1 DEF RequestInv
<1>5. QED
  BY <1>1, <1>3, <1>4, StatusStep

(* The report without an error tells what the answer said.                 *)
LEMMA ReportSync ==
  ASSUME SyncInv, answered, Return, Report,
         UNCHANGED <<producerVars, copy, beatVars, record, boundVars>>
  PROVE  SyncInv'
<1>1. response \in Responses
  BY DEF SyncInv, TypeOK, RequestInv
<1>2. /\ syncState' = IF response.height > Height(copy) THEN "syncing" ELSE "synced"
      /\ syncedHeight' = Height(copy)
      /\ knownHeight' = response.height
      /\ response.height \in Nat
  BY <1>1 DEF Report, Responses
<1>3. Height(copy) \in Nat /\ Height(copy)' = Height(copy)
  BY LenProperties DEF SyncInv, ChainsInv, Height
<1>4. SyncedReachedProducer'
  BY <1>2, <1>3 DEF SyncedReachedProducer
<1>5. QED
  BY <1>2, <1>4, ReturnSync DEF SyncInv, TypeOK, producerVars, beatVars, boundVars

(* The report of an error leaves the heights.                              *)
LEMMA ErrorSync ==
  ASSUME SyncInv, Return, ReportError,
         UNCHANGED <<producerVars, copy, beatVars, record, restores>>, faults' \in Nat
  PROVE  SyncInv'
<1>1. syncState' = "error" /\ UNCHANGED <<syncedHeight, knownHeight>>
  BY DEF ReportError
<1>2. SyncedReachedProducer'
  BY <1>1 DEF SyncedReachedProducer
<1>3. QED
  BY <1>1, <1>2, ReturnSync DEF SyncInv, TypeOK, producerVars, beatVars

(* A block that is adopted is sealed and continues the observer's chain;   *)
(* the chain only grows, so what heartbeats said of it stays true.         *)
LEMMA AdoptLemma ==
  ASSUME SyncInv, NEW block \in sealed, Continues(block),
         copy' = Append(copy, block)
  PROVE  /\ copy' \in Seq(sealed) /\ Linked(copy')
         /\ copy' \in Seq(Blocks)
         /\ Height(copy) \in Nat /\ Height(copy') = Height(copy) + 1
         /\ \A beat \in Beats : Truthful(beat, copy) => Truthful(beat, copy')
<1> USE DEF SyncInv
<1>1. copy \in Seq(sealed) /\ Linked(copy) /\ sealed \subseteq Blocks
  BY DEF ChainsInv, TypeOK
<1>2. copy' \in Seq(sealed) /\ Linked(copy')
  BY <1>1, LinkedLemma DEF Continues, Height
<1>3. copy' \in Seq(Blocks)
  BY <1>1, <1>2, SeqMonotonic
<1>4. /\ Len(copy) \in Nat /\ Len(copy') = Len(copy) + 1
      /\ \A i \in 1 .. Len(copy) : copy'[i] = copy[i]
  BY <1>1, AppendProperties, LenProperties
<1>5. ASSUME NEW beat \in Beats, Truthful(beat, copy)
      PROVE  Truthful(beat, copy')
  <2>1. PICK k \in 0 .. Len(copy) : /\ beat.height <= k
                                    /\ beat.hash = IF k = 0 THEN 0 ELSE copy[k].id
    BY <1>5 DEF Truthful
  <2>2. k \in 0 .. Len(copy') /\ (k # 0 => copy'[k] = copy[k])
    BY <1>4, <2>1
  <2>3. QED
    BY <2>1, <2>2 DEF Truthful
<1>6. QED
  BY <1>2, <1>3, <1>4, <1>5 DEF Height

(* The loop takes the head of the batch; what is left are sealed blocks.   *)
LEMMA BatchLemma ==
  ASSUME SyncInv, pc = "apply", response.blocks # <<>>
  PROVE  /\ Head(response.blocks) \in sealed
         /\ response \in Responses
         /\ [response EXCEPT !.blocks = Tail(@)] \in Responses
         /\ Tail(response.blocks) \in Seq(sealed)
         /\ response # None
<1> USE DEF SyncInv
<1>1. response # None /\ response \in Responses
  BY DEF TypeOK, RequestInv
<1>2. response.blocks \in Seq(sealed) /\ response.blocks \in Seq(Blocks)
  BY <1>1 DEF ChainsInv, Responses
<1>3. Head(response.blocks) \in sealed /\ Tail(response.blocks) \in Seq(sealed)
  BY <1>2, HeadTailProperties
<1>4. Tail(response.blocks) \in Seq(Blocks)
  BY <1>2, HeadTailProperties
<1>5. QED
  BY <1>1, <1>3, <1>4 DEF Responses

(* Adopting the next block of the batch, whatever becomes of the batch.    *)
LEMMA AdoptSync ==
  ASSUME SyncInv, NEW block \in sealed, Continues(block),
         copy' = Append(copy, block),
         UNCHANGED <<producerVars, beats, record, syncedHeight, knownHeight>>,
         syncState' = syncState \/ syncState' = "error",
         response' # None => response'.blocks \in Seq(sealed),
         copy' \in Seq(Blocks) => TypeOK',
         RequestInv'
  PROVE  SyncInv'
<1> USE DEF SyncInv
<1>1. /\ copy' \in Seq(sealed) /\ Linked(copy') /\ copy' \in Seq(Blocks)
      /\ Height(copy) \in Nat /\ Height(copy') = Height(copy) + 1
      /\ \A beat \in Beats : Truthful(beat, copy) => Truthful(beat, copy')
  BY AdoptLemma
<1>2. ChainsInv'
  BY <1>1 DEF ChainsInv, Linked, producerVars
<1>3. BeatsInv'
  <2>1. syncedHeight' <= Height(copy')
    BY <1>1 DEF BeatsInv, TypeOK
  <2>2. \A beat \in beats' : Truthful(beat, copy')
    BY <1>1 DEF BeatsInv, TypeOK
  <2>3. record' # None => Truthful(record', copy')
    BY <1>1 DEF BeatsInv, TypeOK
  <2>4. backup' # None /\ backup'.record # None => Truthful(backup'.record, copy')
    <3>1. backup # None /\ backup.record # None => backup.record \in Beats
      BY DEF TypeOK
    <3>2. QED
      BY <1>1, <3>1 DEF BeatsInv, producerVars
  <2>5. QED
    BY <2>1, <2>2, <2>3, <2>4 DEF BeatsInv
<1>4. SealedInv'
  BY DEF SealedInv, producerVars
<1>5. SyncedReachedProducer'
  BY <1>1 DEF SyncedReachedProducer, TypeOK
<1>6. QED
  BY <1>1, <1>2, <1>3, <1>4, <1>5

(* The batch goes on.                                                      *)
LEMMA ApplyBlockSync ==
  ASSUME SyncInv, ApplyBlock
  PROVE  SyncInv'
<1> DEFINE block == Head(response.blocks)
<1>1. /\ pc = "apply" /\ response.blocks # <<>>
      /\ Continues(block)
      /\ copy' = Append(copy, block)
      /\ response' = [response EXCEPT !.blocks = Tail(@)]
      /\ UNCHANGED <<producerVars, pc, answered, statusVars, beatVars, record, boundVars>>
  BY DEF ApplyBlock
<1>2. /\ block \in sealed /\ response \in Responses /\ response' \in Responses
      /\ Tail(response.blocks) \in Seq(sealed) /\ response # None
  BY <1>1, BatchLemma
<1>3. response'.blocks = Tail(response.blocks)
  BY <1>1, <1>2 DEF Responses
<1>4. response' # None
  BY <1>2, NoneAssumption
<1>5. copy' \in Seq(Blocks) => TypeOK'
  BY <1>1, <1>2 DEF SyncInv, TypeOK, producerVars, statusVars, beatVars, boundVars
<1>6. RequestInv'
  BY <1>1, <1>2, <1>4 DEF SyncInv, RequestInv
<1> HIDE DEF block
<1>7. QED
  BY <1>1, <1>2, <1>3, <1>5, <1>6, AdoptSync DEF statusVars, beatVars

(* The batch is dropped, with its next block adopted or not.               *)
LEMMA ApplyFailsSync ==
  ASSUME SyncInv, ApplyFails
  PROVE  SyncInv'
<1> DEFINE block == Head(response.blocks)
<1>1. /\ pc = "apply" /\ response.blocks # <<>>
      /\ Continues(block)
      /\ copy' \in {copy, Append(copy, block)}
      /\ faults' = faults + 1
      /\ Return /\ ReportError
      /\ UNCHANGED <<producerVars, beatVars, record, restores>>
  BY DEF ApplyFails
<1>2. block \in sealed
  BY <1>1, BatchLemma
<1>3. faults' \in Nat
  BY <1>1 DEF SyncInv, TypeOK
<1> HIDE DEF block
<1>4. CASE copy' = copy
  BY <1>1, <1>3, <1>4, ErrorSync
<1>5. CASE copy' = Append(copy, block)
  <2>1. /\ pc' = "idle" /\ answered' = FALSE /\ response' = None
        /\ syncState' = "error" /\ UNCHANGED <<syncedHeight, knownHeight>>
    BY <1>1 DEF Return, ReportError
  <2>2. copy' \in Seq(Blocks) => TypeOK'
    BY <1>1, <1>3, <2>1 DEF SyncInv, TypeOK, producerVars, beatVars
  <2>3. RequestInv'
    BY <2>1 DEF RequestInv
  <2>4. QED
    BY <1>1, <1>2, <1>5, <2>1, <2>2, <2>3, AdoptSync DEF beatVars
<1>6. QED
  BY <1>1, <1>4, <1>5

(* The observer's process ends: its status starts from what it has stored. *)
LEMMA RestartObserverSync ==
  ASSUME SyncInv, RestartObserver
  PROVE  SyncInv'
<1>1. /\ faults' = faults + 1
      /\ Return
      /\ syncState' = "syncing" /\ syncedHeight' = Height(copy) /\ knownHeight' = 0
      /\ beatPending' = FALSE
      /\ UNCHANGED <<producerVars, copy, beats, record, restores>>
  BY DEF RestartObserver
<1>2. SyncedReachedProducer' /\ faults' \in Nat
  BY <1>1 DEF SyncedReachedProducer, SyncInv, TypeOK
<1>3. QED
  BY <1>1, <1>2, ReturnSync DEF producerVars

(* A heartbeat is sent with the status as it is, or the client gives up.   *)
LEMMA SendBeatSync ==
  ASSUME SyncInv, SendBeat \/ BeatReturns
  PROVE  SyncInv'
<1> USE DEF SyncInv
<1> DEFINE beat == [height |-> syncedHeight, hash |-> Hash(copy)]
<1>1. /\ beatPending' \in BOOLEAN
      /\ beats' = beats \cup {beat} \/ beats' = beats
      /\ UNCHANGED <<producerVars, copy, pc, requestVars, statusVars, record, boundVars>>
  BY DEF SendBeat, BeatReturns
<1>2. copy \in Seq(sealed) /\ copy \in Seq(Blocks) /\ Len(copy) \in Nat
  BY LenProperties DEF ChainsInv, TypeOK
<1>3. Hash(copy) = (IF Len(copy) = 0 THEN 0 ELSE copy[Len(copy)].id)
  BY <1>2, EmptySeq DEF Hash
<1>4. Truthful(beat, copy)
  BY <1>2, <1>3 DEF Truthful, BeatsInv, Height, TypeOK
<1>5. beat \in Beats
  <2>1. Len(copy) # 0 => copy[Len(copy)] \in Blocks
    BY <1>2, ElementOfSeq
  <2>2. Hash(copy) \in 0 .. MaxBlocks
    BY <1>3, <2>1, SyncAssumption DEF Blocks
  <2>3. QED
    BY <2>2 DEF Beats, TypeOK
<1> HIDE DEF beat
<1>6. TypeOK'
  BY <1>1, <1>5 DEF TypeOK, producerVars, requestVars, statusVars, boundVars
<1>7. BeatsInv'
  BY <1>1, <1>4 DEF BeatsInv, Height, producerVars, statusVars
<1>8. SealedInv' /\ ChainsInv' /\ RequestInv' /\ SyncedReachedProducer'
  BY <1>1 DEF SealedInv, ChainsInv, Linked, RequestInv, SyncedReachedProducer, Height,
              producerVars, requestVars, statusVars
<1>9. QED
  BY <1>6, <1>7, <1>8

(* A heartbeat arrives, late or in time, or is lost.                       *)
LEMMA BeatArrivesSync ==
  ASSUME SyncInv, NEW beat \in beats, BeatArrives(beat)
  PROVE  SyncInv'
<1> USE DEF SyncInv
<1>1. /\ beats' = beats \ {beat}
      /\ record' \in {beat, record}
      /\ UNCHANGED <<producerVars, copy, pc, requestVars, statusVars, beatPending,
                     boundVars>>
  BY DEF BeatArrives
<1>2. TypeOK'
  BY <1>1 DEF TypeOK, producerVars, requestVars, statusVars, boundVars
<1>3. BeatsInv'
  BY <1>1 DEF BeatsInv, Height, producerVars, statusVars
<1>4. SealedInv' /\ ChainsInv' /\ RequestInv' /\ SyncedReachedProducer'
  BY <1>1 DEF SealedInv, ChainsInv, Linked, RequestInv, SyncedReachedProducer, Height,
              producerVars, requestVars, statusVars
<1>5. QED
  BY <1>2, <1>3, <1>4

(* The answer is read, or its body never ends: only pc changes.            *)
LEMMA ReceiveSync ==
  ASSUME SyncInv, ReceiveBlocks \/ ResponseCut
  PROVE  SyncInv'
<1>1. /\ answered /\ pc' \in {"apply", "hung"} /\ faults' \in Nat
      /\ UNCHANGED <<producerVars, copy, requestVars, statusVars, beatVars, record,
                     restores>>
  BY DEF ReceiveBlocks, ResponseCut, SyncInv, TypeOK, boundVars
<1>2. TypeOK' /\ RequestInv' /\ SyncedReachedProducer'
  BY <1>1 DEF SyncInv, TypeOK, RequestInv, SyncedReachedProducer, Height,
              producerVars, requestVars, statusVars, beatVars
<1>3. QED
  BY <1>1, <1>2, StatusStep DEF producerVars, requestVars, statusVars, beatVars

-----------------------------------------------------------------------------

(* Every reachable state satisfies the inductive invariant: the chains are *)
(* linked sequences of sealed blocks, and whatever a heartbeat that is     *)
(* under way, recorded or backed up says of the observer is true.          *)
THEOREM SyncInvariance == Spec => []SyncInv
<1>1. Init => SyncInv
  BY InitSync
<1>2. SyncInv /\ [Next]_vars => SyncInv'
  <2>1. SUFFICES ASSUME SyncInv, [Next]_vars
                 PROVE  SyncInv'
    OBVIOUS
  <2>2. CASE SealBlock
    BY <2>1, <2>2, SealBlockSync
  <2>3. CASE CreateBackup
    BY <2>1, <2>3, CreateBackupSync
  <2>4. CASE RestoreBackup
    BY <2>1, <2>4, RestoreBackupSync
  <2>5. CASE Tick
    BY <2>1, <2>5, TickSync
  <2>6. CASE Respond
    BY <2>1, <2>6, RespondSync
  <2>7. CASE ReceiveNothingNew
    BY <2>1, <2>7, ReportSync DEF ReceiveNothingNew
  <2>8. CASE ReceiveBlocks \/ ResponseCut
    BY <2>1, <2>8, ReceiveSync
  <2>9. CASE FetchFails
    <3>1. faults' \in Nat /\ UNCHANGED restores
      BY <2>1, <2>9 DEF FetchFails, SyncInv, TypeOK, boundVars
    <3>2. QED
      BY <2>1, <2>9, <3>1, ErrorSync DEF FetchFails
  <2>10. CASE ApplyBlock
    BY <2>1, <2>10, ApplyBlockSync
  <2>11. CASE RefuseBlock
    <3>1. faults' \in Nat /\ UNCHANGED restores
      BY <2>1, <2>11 DEF RefuseBlock, SyncInv, TypeOK, boundVars
    <3>2. QED
      BY <2>1, <2>11, <3>1, ErrorSync DEF RefuseBlock
  <2>12. CASE ApplyFails
    BY <2>1, <2>12, ApplyFailsSync
  <2>13. CASE FinishBatch
    <3>1. answered
      BY <2>1, <2>13 DEF FinishBatch, SyncInv, RequestInv
    <3>2. QED
      BY <2>1, <2>13, <3>1, ReportSync DEF FinishBatch
  <2>14. CASE RestartObserver
    BY <2>1, <2>14, RestartObserverSync
  <2>15. CASE SendBeat \/ BeatReturns
    BY <2>1, <2>15, SendBeatSync
  <2>16. CASE \E beat \in beats : BeatArrives(beat)
    BY <2>1, <2>16, BeatArrivesSync
  <2>17. CASE UNCHANGED vars
    <3>1. TypeOK' /\ RequestInv' /\ SyncedReachedProducer'
      BY <2>1, <2>17
        DEF SyncInv, TypeOK, RequestInv, SyncedReachedProducer, Height, vars,
            producerVars, requestVars, statusVars, beatVars, boundVars
    <3>2. QED
      BY <2>1, <2>17, <3>1, StatusStep
        DEF vars, producerVars, requestVars, statusVars, beatVars
  <2>18. QED
    BY <2>1, <2>2, <2>3, <2>4, <2>5, <2>6, <2>7, <2>8, <2>9, <2>10, <2>11, <2>12,
       <2>13, <2>14, <2>15, <2>16, <2>17
      DEF Next
<1>3. QED
  BY <1>1, <1>2, PTL DEF Spec

(* An observer that reports "synced" has every block the producer had when *)
(* it answered.                                                            *)
THEOREM SyncedIsTrue == Spec => []SyncedReachedProducer
<1>1. SyncInv => SyncedReachedProducer
  BY DEF SyncInv
<1>2. QED
  BY <1>1, SyncInvariance, PTL

-----------------------------------------------------------------------------

(* A set of natural numbers that is not empty has a least element.         *)
LEMMA LeastElement ==
  ASSUME NEW S \in SUBSET Nat, S # {}
  PROVE  \E m \in S : \A k \in S : m <= k
<1>1. PICK m \in S : \A k \in S : ~(<<k, m>> \in OpToRel(<, Nat))
  BY NatLessThanWellFounded, WFMin, Zenon
<1>2. \A k \in S : <<k, m>> \in Nat \X Nat
  OBVIOUS
<1>3. \A k \in S : ~(<<k, m>>[1] < <<k, m>>[2])
  BY <1>1, <1>2, Zenon DEF OpToRel
<1>4. QED
  BY <1>3

(* Linked sequences of blocks that have a block at a place in common have  *)
(* everything before it in common: a hash stands for a whole chain.        *)
LEMMA CommonPrefix ==
  ASSUME NEW S, NEW s \in Seq(S), NEW t \in Seq(S), Linked(s), Linked(t),
         \A b, c \in S : b.id = c.id => b = c,
         \A b \in S : b.id # 0,
         NEW n \in Nat, n <= Len(s), n <= Len(t),
         n # 0 => s[n].id = t[n].id
  PROVE  \A i \in 1 .. n : s[i] = t[i]
<1> DEFINE Differ == {d \in Nat : d < n /\ s[n - d] # t[n - d]}
<1>1. SUFFICES ASSUME Differ # {} PROVE FALSE
  <2>1. ASSUME NEW i \in 1 .. n, s[i] # t[i] PROVE Differ # {}
    <3>1. n - i \in Nat /\ n - i < n /\ n - (n - i) = i
      OBVIOUS
    <3>2. n - i \in Differ
      BY <2>1, <3>1
    <3>3. QED
      BY <3>2
  <2>2. QED
    BY <2>1
<1>2. PICK d \in Differ : \A k \in Differ : d <= k
  BY <1>1, LeastElement
<1>3. d \in Nat /\ d < n /\ s[n - d] # t[n - d]
  BY <1>2
<1>4. /\ \A i \in 1 .. n : s[i] \in S /\ t[i] \in S
      /\ 1 .. n \subseteq DOMAIN s /\ 1 .. n \subseteq DOMAIN t
  BY ElementOfSeq, LenProperties
<1>5. s[n] = t[n]
  BY <1>3, <1>4
<1>6. d # 0
  BY <1>3, <1>5
<1> DEFINE i == n - (d - 1)
<1>7. d - 1 \in Nat /\ i \in 2 .. n /\ i - 1 = n - d
  BY <1>3, <1>6
<1> HIDE DEF Differ
<1>8. d - 1 \notin Differ
  <2>1. ~(d <= d - 1)
    BY <1>3
  <2>2. QED
    BY <1>2, <2>1
<1>9. s[i] = t[i]
  BY <1>3, <1>7, <1>8 DEF Differ
<1> HIDE DEF i
<1>10. s[i].prev = s[i - 1].id /\ t[i].prev = t[i - 1].id
  BY <1>4, <1>7 DEF Linked
<1>11. s[i - 1] = t[i - 1]
  BY <1>4, <1>7, <1>9, <1>10
<1>12. QED
  BY <1>3, <1>7, <1>11

(* Sequences of the same length that agree everywhere up to it, and one    *)
(* that goes on: the shorter is a prefix.                                  *)
LEMMA PrefixLemma ==
  ASSUME NEW S, NEW s \in Seq(S), NEW t \in Seq(S)
  PROVE  IsPrefix(s, t) <=> Len(s) <= Len(t) /\ \A i \in 1 .. Len(s) : s[i] = t[i]
<1>1. Len(s) \in Nat /\ Len(t) \in Nat
  BY LenProperties
<1>2. ASSUME Len(s) <= Len(t)
      PROVE  SubSeq(s, 1, Len(s)) = SubSeq(t, 1, Len(s))
               <=> \A i \in 1 .. Len(s) : s[i] = t[i]
  <2>1. \A i \in 1 .. Len(s) : s[i] \in S /\ t[i] \in S
    BY <1>1, <1>2, ElementOfSeq
  <2>2. SubSeq(s, 1, Len(s)) = s
    BY SubSeqFull
  <2> DEFINE u == SubSeq(t, 1, Len(s))
  <2>3. /\ u \in Seq(S) /\ Len(u) = (IF 1 <= Len(s) THEN Len(s) - 1 + 1 ELSE 0)
        /\ \A i \in 1 .. Len(s) - 1 + 1 : u[i] = t[1 + i - 1]
    BY <1>1, <2>1, SubSeqProperties
  <2>4. Len(u) = Len(s) /\ \A i \in 1 .. Len(s) : u[i] = t[i]
    BY <1>1, <2>3
  <2> HIDE DEF u
  <2>5. (\A i \in 1 .. Len(s) : s[i] = u[i]) => s = u
    BY <2>3, <2>4, SeqEqual
  <2>6. s = u <=> \A i \in 1 .. Len(s) : s[i] = t[i]
    BY <2>4, <2>5
  <2>7. QED
    BY <2>2, <2>6 DEF u
<1>3. QED
  BY <1>2 DEF IsPrefix

(* What the statuses rest on: where the producer's tip is a block of the   *)
(* observer, the producer's whole chain is the observer's.                 *)
LEMMA TipLemma ==
  ASSUME SyncInv, NEW beat \in Beats, Truthful(beat, copy)
  PROVE  /\ beat.hash = Hash(chain) => IsPrefix(chain, copy)
         /\ beat.height = Height(chain) /\ beat.hash # Hash(chain)
              => ~IsPrefix(copy, chain)
<1>1. /\ chain \in Seq(sealed) /\ Linked(chain)
      /\ copy \in Seq(sealed) /\ Linked(copy)
      /\ Len(chain) \in Nat /\ Len(copy) \in Nat
  BY LenProperties DEF SyncInv, ChainsInv
<1>2. /\ \A b, c \in sealed : b.id = c.id => b = c
      /\ \A b \in sealed : b.id # 0
  BY FS_CardinalityType DEF SyncInv, SealedInv
<1>3. PICK k \in 0 .. Len(copy) : /\ beat.height <= k
                                  /\ beat.hash = IF k = 0 THEN 0 ELSE copy[k].id
  BY DEF Truthful
<1>4. /\ Hash(chain) = (IF Len(chain) = 0 THEN 0 ELSE chain[Len(chain)].id)
      /\ \A i \in 1 .. Len(chain) : chain[i] \in sealed /\ chain[i].height = i
      /\ \A i \in 1 .. Len(copy) : copy[i] \in sealed /\ copy[i].height = i
  BY <1>1, EmptySeq, ElementOfSeq, LenProperties DEF Hash, Linked
<1>5. ASSUME beat.hash = Hash(chain)
      PROVE  IsPrefix(chain, copy)
  <2>1. CASE Len(chain) = 0
    <3>1. \A i \in 1 .. Len(chain) : chain[i] = copy[i]
      BY <2>1
    <3>2. Len(chain) <= Len(copy)
      BY <1>1, <2>1
    <3>3. QED
      BY <1>1, <3>1, <3>2, PrefixLemma
  <2>2. CASE Len(chain) # 0
    <3>1. k # 0 /\ copy[k].id = chain[Len(chain)].id
      BY <1>1, <1>2, <1>3, <1>4, <1>5, <2>2
    <3>2. copy[k] = chain[Len(chain)] /\ k = Len(chain)
      BY <1>1, <1>2, <1>3, <1>4, <2>2, <3>1
    <3>3. \A i \in 1 .. Len(chain) : chain[i] = copy[i]
      BY <1>1, <1>2, <1>3, <3>1, <3>2, CommonPrefix
    <3>4. QED
      BY <1>1, <1>3, <3>2, <3>3, PrefixLemma
  <2>3. QED
    BY <2>1, <2>2
<1>6. ASSUME beat.height = Height(chain), beat.hash # Hash(chain), IsPrefix(copy, chain)
      PROVE  FALSE
  <2>1. Len(copy) <= Len(chain) /\ \A i \in 1 .. Len(copy) : copy[i] = chain[i]
    BY <1>1, <1>6, PrefixLemma
  <2>2. k = Len(chain) /\ k = Len(copy)
    BY <1>1, <1>3, <1>6, <2>1 DEF Height
  <2>3. QED
    BY <1>1, <1>3, <1>4, <1>6, <2>1, <2>2
<1>7. QED
  BY <1>5, <1>6

(* An observer is listed as fully synced only when it has the producer's   *)
(* chain, and as a mismatch only when its chain has left the producer's:   *)
(* neither a late or lost heartbeat nor a restored producer misleads.      *)
THEOREM StatusesAreTrue == Spec => [](FullySyncedIsReal /\ MismatchIsReal)
<1>1. SyncInv => FullySyncedIsReal /\ MismatchIsReal
  <2>1. SUFFICES ASSUME SyncInv, record # None
                 PROVE  /\ ObserverStatus = "fully_synced" => IsPrefix(chain, copy)
                        /\ ObserverStatus = "mismatch" => ~IsPrefix(copy, chain)
    BY DEF FullySyncedIsReal, MismatchIsReal, ObserverStatus
  <2>2. record \in Beats /\ Truthful(record, copy)
    BY <2>1 DEF SyncInv, TypeOK, BeatsInv
  <2>3. QED
    BY <2>1, <2>2, TipLemma DEF ObserverStatus
<1>2. QED
  BY <1>1, SyncInvariance, PTL

(* What calls for an operator's attention, a mismatch, is never shown of   *)
(* an observer whose chain is a beginning of the producer's                *)
(* (networkStatus.js).                                                     *)
THEOREM MismatchesAreReal == Spec => []MismatchIsReal
BY StatusesAreTrue, PTL

-----------------------------------------------------------------------------

(* The hashes of a sequence of blocks.                                     *)
LEMMA IdsOfLemma ==
  ASSUME NEW S, NEW blocks \in Seq(S), NEW block
  PROVE  /\ IdsOf(Append(blocks, block)) = Append(IdsOf(blocks), block.id)
         /\ Abstract!Tip(IdsOf(blocks)) = Hash(blocks)
         /\ IdsOf(<<>>) = <<>>
<1> DEFINE T == S \cup {block}
           I == {b.id : b \in T}
           longer == Append(blocks, block)
<1>1. blocks \in Seq(T) /\ block \in T
  BY SeqMonotonic
<1>2. /\ longer \in Seq(T) /\ Len(longer) = Len(blocks) + 1
      /\ \A i \in 1 .. Len(blocks) : longer[i] = blocks[i]
      /\ longer[Len(blocks) + 1] = block
  BY <1>1, AppendProperties
<1>3. /\ Len(blocks) \in Nat /\ DOMAIN blocks = 1 .. Len(blocks)
      /\ DOMAIN longer = 1 .. Len(blocks) + 1
  BY <1>2, LenProperties
<1> HIDE DEF longer
<1>4. IdsOf(blocks) \in Seq(I) /\ Len(IdsOf(blocks)) = Len(blocks)
  BY <1>1, <1>3, ElementOfSeq DEF IdsOf
<1>5. IdsOf(longer) \in Seq(I) /\ Len(IdsOf(longer)) = Len(blocks) + 1
  BY <1>2, <1>3, ElementOfSeq DEF IdsOf
<1>6. block.id \in I
  BY <1>1
<1> HIDE DEF I, T
<1>7. /\ Append(IdsOf(blocks), block.id) \in Seq(I)
      /\ Len(Append(IdsOf(blocks), block.id)) = Len(blocks) + 1
      /\ \A i \in 1 .. Len(blocks) : Append(IdsOf(blocks), block.id)[i] = IdsOf(blocks)[i]
      /\ Append(IdsOf(blocks), block.id)[Len(blocks) + 1] = block.id
  BY <1>4, <1>6, AppendProperties
<1>8. \A i \in 1 .. Len(blocks) + 1 :
        IdsOf(longer)[i] = Append(IdsOf(blocks), block.id)[i]
  BY <1>2, <1>3, <1>7 DEF IdsOf
<1>9. IdsOf(longer) = Append(IdsOf(blocks), block.id)
  BY <1>5, <1>7, <1>8, SeqEqual
<1>10. IdsOf(<<>>) = <<>>
  BY DEF IdsOf
<1>11. Abstract!Tip(IdsOf(blocks)) = Hash(blocks)
  BY <1>3, <1>4, EmptySeq DEF IdsOf, Hash, Abstract!Tip, Abstract!Genesis
<1>12. QED
  BY <1>9, <1>10, <1>11 DEF longer

(* The producer and the observer together implement ChainCopy: whatever is *)
(* lost, cut, restarted or restored, the observer adopts one sealed block  *)
(* at a time, each on top of the last.                                     *)
THEOREM Refinement == Spec => ImplementsChainCopy
<1> DEFINE known == {[id |-> b.id, prev |-> b.prev] : b \in sealed}
           ids == IdsOf(copy)
<1>1. Init => Abstract!CopyInit
  BY IdsOfLemma, EmptySeq DEF Init, Abstract!CopyInit
<1>2. SyncInv /\ [Next]_vars => [Abstract!CopyNext]_<<known, ids>>
  <2>1. SUFFICES ASSUME SyncInv, [Next]_vars
                 PROVE  Abstract!CopyNext \/ UNCHANGED <<known, ids>>
    OBVIOUS
  <2>2. CASE SealBlock
    <3> DEFINE block == [height |-> Height(chain) + 1,
                         id |-> Cardinality(sealed) + 1, prev |-> Hash(chain)]
    <3>1. /\ Cardinality(sealed) < MaxBlocks
          /\ sealed' = sealed \cup {block} /\ copy' = copy
      BY <2>2 DEF SealBlock
    <3>2. Cardinality(sealed) \in Nat
      BY <2>1, FS_CardinalityType DEF SyncInv, SealedInv
    <3>3. \A b \in sealed : b.id # Cardinality(sealed) + 1
      BY <2>1, <3>2 DEF SyncInv, SealedInv
    <3>4. block.id \in 1 .. MaxBlocks /\ block.id = Cardinality(sealed) + 1
      BY <3>1, <3>2, SyncAssumption
    <3>5. block.prev = 0 \/ \E b \in sealed : b.id = block.prev
      <4>1. CASE chain = <<>>
        BY <4>1 DEF Hash
      <4>2. CASE chain # <<>>
        <5>1. chain \in Seq(sealed) /\ Len(chain) \in 1 .. Len(chain)
          BY <2>1, <4>2, EmptySeq DEF SyncInv, ChainsInv
        <5>2. chain[Len(chain)] \in sealed
          BY <5>1, ElementOfSeq
        <5>3. QED
          BY <4>2, <5>2 DEF Hash
      <4>3. QED
        BY <4>1, <4>2
    <3>6. block.prev \in 0 .. MaxBlocks
      BY <2>1, <3>5, SyncAssumption DEF SyncInv, TypeOK, Blocks
    <3> HIDE DEF block
    <3>7. known' = known \cup {[id |-> block.id, prev |-> block.prev]}
      BY <3>1
    <3>8. /\ \A b \in known : b.id # block.id
          /\ block.prev = 0 \/ \E b \in known : b.id = block.prev
      <4>1. \A b \in sealed : [id |-> b.id, prev |-> b.prev] \in known
        OBVIOUS
      <4>2. \A k \in known : \E b \in sealed : k.id = b.id
        OBVIOUS
      <4>3. \A b \in sealed : \E k \in known : k.id = b.id
        BY <4>1
      <4> HIDE DEF known
      <4>4. QED
        BY <3>3, <3>4, <3>5, <4>2, <4>3
    <3>9. ids' = ids
      BY <3>1 DEF IdsOf
    <3>10. block.prev \in 1 .. MaxBlocks \cup {0}
      BY <3>6, SyncAssumption
    <3>11. PICK id \in 1 .. MaxBlocks, prev \in 1 .. MaxBlocks \cup {0} :
             id = block.id /\ prev = block.prev
      BY <3>4, <3>10
    <3> HIDE DEF known, ids
    <3>12. /\ \A b \in known : b.id # id
           /\ prev = 0 \/ \E b \in known : b.id = prev
           /\ known' = known \cup {[id |-> id, prev |-> prev]}
           /\ ids' = ids
      BY <3>7, <3>8, <3>9, <3>11
    <3>13. QED
      BY <3>11, <3>12
        DEF Abstract!CopyNext, Abstract!Seal, Abstract!Genesis, known, ids
  <2>3. ASSUME NEW block \in sealed, Continues(block), UNCHANGED sealed,
               copy' = Append(copy, block)
        PROVE  Abstract!CopyNext
    <3>1. copy \in Seq(sealed)
      BY <2>1 DEF SyncInv, ChainsInv
    <3>2. ids' = Append(ids, block.id) /\ Abstract!Tip(ids) = Hash(copy)
      BY <2>3, <3>1, IdsOfLemma
    <3> DEFINE b == [id |-> block.id, prev |-> block.prev]
    <3>3. b \in known /\ b.id = block.id /\ b.prev = Hash(copy) /\ known' = known
      BY <2>3 DEF Continues
    <3> HIDE DEF b
    <3>4. Abstract!Adopt(b)
      BY <3>2, <3>3 DEF Abstract!Adopt
    <3>5. QED
      BY <3>3, <3>4 DEF Abstract!CopyNext
  <2>4. CASE ApplyBlock
    BY <2>1, <2>3, <2>4, BatchLemma DEF ApplyBlock, producerVars
  <2>5. CASE ApplyFails
    <3>1. CASE copy' = copy
      BY <2>5, <3>1 DEF ApplyFails, producerVars, IdsOf
    <3>2. CASE copy' = Append(copy, Head(response.blocks))
      BY <2>1, <2>3, <2>5, <3>2, BatchLemma DEF ApplyFails, producerVars
    <3>3. QED
      BY <2>5, <3>1, <3>2 DEF ApplyFails
  <2>6. CASE UNCHANGED <<sealed, copy>>
    BY <2>6 DEF IdsOf
  <2>7. ASSUME ~SealBlock, ~ApplyBlock, ~ApplyFails
        PROVE  UNCHANGED <<sealed, copy>>
    BY <2>1, <2>7
      DEF Next, CreateBackup, RestoreBackup, Tick, Respond, ReceiveNothingNew,
          ReceiveBlocks, FetchFails, ResponseCut, RefuseBlock, FinishBatch,
          RestartObserver, SendBeat, BeatReturns, BeatArrives, producerVars, vars
  <2>8. QED
    BY <2>2, <2>4, <2>5, <2>6, <2>7
<1>3. QED
  BY <1>1, <1>2, SyncInvariance, PTL
    DEF Spec, ImplementsChainCopy, Abstract!CopySpec
-----------------------------------------------------------------------------
(* The desktop application around an observer.                             *)

Processes == [st : States, port : Ports \cup {Nothing}, killed : BOOLEAN]

Pages == {page \in [kind : {"starting", "failure", "app", "setup"}, at : Nat] :
            page.kind = "setup" => page.at \in Procs}

Shells == [phase : {"begins", "open", "quitting", "gone"}, page : Pages, ready : BOOLEAN,
           current : Procs \cup {Nothing}, retryUsed : BOOLEAN, relaunch : Nat,
           quitting : BOOLEAN]

Histories == [hasty : Nat, lingered : BOOLEAN, gaveUp : SUBSET Procs,
              setup : SUBSET Procs, moved : SUBSET Procs]

(* A child that starts a node has a port, and there is a configuration.    *)
HasPorts(child, port) ==
  \A p \in Procs : child[p].st \in {"closing", "starting", "serving"} =>
                     child[p].port # Nothing /\ port # Nothing

(* The types of the children and of the shell.                             *)
ShellInv ==
  /\ proc \in [Procs -> Processes]
  /\ config \in Ports \cup {Nothing}
  /\ shell \in Shells
  /\ starts \in Nat
  /\ history \in Histories
  /\ HasPorts(proc, config)

(* The children nobody told to stop, but the one the shell refers to.      *)
Others == {p \in Alive : ~proc[p].killed /\ p # shell.current}
Running == IF shell.current \in Alive THEN 1 ELSE 0

(* One child may run or be about to, until the shell quits.                *)
Slack == IF shell.phase \in {"begins", "open"} THEN 1 ELSE 0

(* What NoneForgotten needs: every launch that is pending will forget the  *)
(* child the shell refers to, and was reckoned with when a stop came       *)
(* before it.                                                              *)
CountInv ==
  /\ Cardinality(Others) <= history.hasty
  /\ Cardinality(Others) + Pending + Running <= history.hasty + Slack
  /\ shell.phase = "begins" => shell.current = Nothing /\ Pending = 0

(* The child the shell refers to was not stopped.                          *)
BackendInv ==
  /\ \A p \in Procs : proc[p].st = "none" => ~proc[p].killed
  /\ shell.current # Nothing =>
       ~proc[shell.current].killed /\ proc[shell.current].st # "none"
  /\ CountInv

Updates == [status : Statuses, checking : BOOLEAN, inCheck : BOOLEAN,
            inDownload : Nat, fetched : BOOLEAN]

(* What is under way is what the status says.                              *)
UpdateInv ==
  /\ upd \in Updates /\ upd.inDownload <= 1
  /\ upd.inCheck => upd.checking /\ upd.status = "checking"
  /\ upd.inDownload > 0 <=> upd.status = "downloading"
  /\ upd.status = "downloaded" => upd.fetched

DesktopInv == ShellInv /\ BackendInv /\ UpdateInv

LEMMA DesktopBegins == DesktopInit => DesktopInv
<1> SUFFICES ASSUME DesktopInit PROVE DesktopInv
  OBVIOUS
<1>1. /\ proc = [p \in Procs |-> [st |-> "none", port |-> Nothing, killed |-> FALSE]]
      /\ starts = 0 /\ upd = [NotChecked EXCEPT !.status = "none"]
      /\ shell = [phase |-> "begins", page |-> Starting, ready |-> FALSE,
                  current |-> Nothing, retryUsed |-> FALSE, relaunch |-> 0,
                  quitting |-> FALSE]
      /\ history = [hasty |-> 0, lingered |-> FALSE, gaveUp |-> {}, setup |-> {},
                    moved |-> {}]
      /\ config \in Ports \cup {Nothing}
  BY DesktopAssumption DEF DesktopInit, DesktopAssumption
<1>2. Starting \in Pages
  BY DEF Starting, Pages, Nothing
<1>3. ShellInv
  <2>1. proc \in [Procs -> Processes]
    BY <1>1 DEF Processes, States
  <2>2. shell \in Shells
    BY <1>1, <1>2 DEF Shells
  <2>3. history \in Histories
    BY <1>1 DEF Histories
  <2>4. HasPorts(proc, config)
    BY <1>1 DEF HasPorts
  <2> QED BY <1>1, <2>1, <2>2, <2>3, <2>4 DEF ShellInv
<1>4. BackendInv
  <2>1. Others = {} /\ Running = 0 /\ Pending = 0 /\ Slack = 1
    BY <1>1 DEF Others, Alive, Running, Pending, Slack
  <2>2. CountInv
    BY <1>1, <2>1, FS_EmptySet DEF CountInv
  <2> QED BY <1>1, <2>2 DEF BackendInv
<1>5. UpdateInv
  <2>1. upd = [status |-> "none", checking |-> FALSE, inCheck |-> FALSE,
               inDownload |-> 0, fetched |-> FALSE]
    BY <1>1 DEF NotChecked
  <2> QED BY <2>1 DEF UpdateInv, Updates, Statuses
<1> QED BY <1>3, <1>4, <1>5 DEF DesktopInv

(* The update manager.                                                     *)
LEMMA UpdaterStep == UpdateInv /\ [DesktopNext]_desktopVars => UpdateInv'
<1> SUFFICES ASSUME UpdateInv, [DesktopNext]_desktopVars PROVE UpdateInv'
  OBVIOUS
<1>1. CASE UNCHANGED upd
  BY <1>1 DEF UpdateInv
<1>2. CASE Check
  <2>1. upd' = [upd EXCEPT !.checking = TRUE, !.inCheck = TRUE, !.status = "checking"]
    BY <1>2 DEF Check
  <2>2. upd \in Updates /\ upd.status # "downloading" /\ upd.inDownload = 0
    BY <1>2 DEF Check, UpdateInv, CanCheck, Updates
  <2>3. upd' \in Updates
    BY <2>1, <2>2 DEF Updates, Statuses
  <2>4. /\ upd'.status = "checking" /\ upd'.checking = TRUE /\ upd'.inCheck = TRUE
        /\ upd'.inDownload = upd.inDownload /\ upd'.fetched = upd.fetched
    BY <2>1, <2>2 DEF Updates
  <2> QED BY <2>2, <2>3, <2>4 DEF UpdateInv, Updates
<1>3. CASE CheckAnswered
  <2>1. PICK status \in {"available", "current", "error"} :
          upd' = [upd EXCEPT !.checking = FALSE, !.inCheck = FALSE, !.status = status]
    BY <1>3 DEF CheckAnswered
  <2>2. upd \in Updates /\ upd.inDownload = 0
    BY <1>3 DEF CheckAnswered, UpdateInv, Updates
  <2>3. upd' \in Updates
    BY <2>1, <2>2 DEF Updates, Statuses
  <2>4. /\ upd'.status = status /\ upd'.checking = FALSE /\ upd'.inCheck = FALSE
        /\ upd'.inDownload = upd.inDownload /\ upd'.fetched = upd.fetched
    BY <2>1, <2>2 DEF Updates
  <2> QED BY <2>2, <2>3, <2>4 DEF UpdateInv, Updates
<1>4. CASE Download
  <2>1. upd \in Updates /\ ~upd.inCheck /\ upd.inDownload = 0
    BY <1>4 DEF Download, UpdateInv, Updates
  <2>2. upd' = [upd EXCEPT !.status = "downloading", !.inDownload = 1]
    BY <1>4, <2>1 DEF Download, Updates
  <2>3. upd' \in Updates
    BY <2>1, <2>2 DEF Updates, Statuses
  <2>4. /\ upd'.status = "downloading" /\ upd'.checking = upd.checking /\ upd'.inCheck = upd.inCheck
        /\ upd'.inDownload = 1 /\ upd'.fetched = upd.fetched
    BY <2>1, <2>2 DEF Updates
  <2> QED BY <2>1, <2>3, <2>4 DEF UpdateInv, Updates
<1>5. CASE Downloaded
  <2>1. upd \in Updates /\ ~upd.inCheck /\ upd.inDownload = 1
    BY <1>5 DEF Downloaded, UpdateInv, Updates
  <2>2. upd' = [upd EXCEPT !.status = "downloaded", !.inDownload = 0,
                       !.fetched = TRUE]
    BY <1>5, <2>1 DEF Downloaded, Updates
  <2>3. upd' \in Updates
    BY <2>1, <2>2 DEF Updates, Statuses
  <2>4. /\ upd'.status = "downloaded" /\ upd'.checking = upd.checking /\ upd'.inCheck = upd.inCheck
        /\ upd'.inDownload = 0 /\ upd'.fetched = TRUE
    BY <2>1, <2>2 DEF Updates
  <2> QED BY <2>1, <2>3, <2>4 DEF UpdateInv, Updates
<1>6. CASE DownloadFails
  <2>1. upd \in Updates /\ ~upd.inCheck /\ upd.inDownload = 1
    BY <1>6 DEF DownloadFails, UpdateInv, Updates
  <2>2. upd' = [upd EXCEPT !.status = "error", !.inDownload = 0,
                       !.checking = FALSE]
    BY <1>6, <2>1 DEF DownloadFails, Updates
  <2>3. upd' \in Updates
    BY <2>1, <2>2 DEF Updates, Statuses
  <2>4. /\ upd'.status = "error" /\ upd'.checking = FALSE /\ upd'.inCheck = upd.inCheck
        /\ upd'.inDownload = 0 /\ upd'.fetched = upd.fetched
    BY <2>1, <2>2 DEF Updates
  <2> QED BY <2>1, <2>3, <2>4 DEF UpdateInv, Updates
<1>7. CASE Install /\ ~UNCHANGED upd
  <2>1. upd' = [upd EXCEPT !.status = "error"]
    BY <1>7 DEF Install
  <2>2. upd \in Updates /\ ~upd.inCheck /\ upd.inDownload = 0
    BY <1>7 DEF Install, UpdateInv, Updates
  <2>3. upd' \in Updates
    BY <2>1, <2>2 DEF Updates, Statuses
  <2>4. /\ upd'.status = "error" /\ upd'.checking = upd.checking /\ upd'.inCheck = upd.inCheck
        /\ upd'.inDownload = upd.inDownload /\ upd'.fetched = upd.fetched
    BY <2>1, <2>2 DEF Updates
  <2> QED BY <2>2, <2>3, <2>4 DEF UpdateInv, Updates
<1>8. CASE Begin
  <2>1. upd' = upd \/ upd' = NotChecked
    BY <1>8 DEF Begin
  <2>2. NotChecked \in Updates /\ NotChecked.inDownload = 0 /\ ~NotChecked.inCheck
        /\ NotChecked.status = "idle"
    BY DEF NotChecked, Updates, Statuses
  <2> QED BY <1>1, <2>1, <2>2 DEF UpdateInv
<1> QED BY <1>1, <1>2, <1>3, <1>4, <1>5, <1>6, <1>7, <1>8
   DEF DesktopNext, User, Updater, Child, Learn, Poll, StartBackend, LaunchFails, Relaunch,
       RestartBackend, StopBackend, Quit, Gone, BootObserver, BootSetup, SaveSetup,
       SetupClosed, Ended, Listen, ListenFails, Die, Crash, WaitSucceeds, WaitGivesUp,
       VerifySetup, PollTick, PollAnswered, desktopVars

-----------------------------------------------------------------------------

LEMMA OthersCount ==
  ASSUME NEW S, NEW T, S \subseteq T, T \subseteq Procs
  PROVE  /\ IsFiniteSet(S) /\ IsFiniteSet(T)
         /\ Cardinality(S) \in Nat /\ Cardinality(T) \in Nat
         /\ Cardinality(S) <= Cardinality(T)
<1>1. IsFiniteSet(T)
  BY FS_Subset, DesktopAssumption DEF DesktopAssumption
<1> QED BY <1>1, FS_Subset, FS_CardinalityType

LEMMA OthersAreProcs == Others \subseteq Procs /\ Alive \subseteq Procs
BY DEF Others, Alive

(* Steps that launch and stop nothing: no child comes to run, and whether  *)
(* one was killed stays.                                                   *)
LEMMA NothingLaunched ==
  ASSUME ShellInv, BackendInv, Pending' \in Nat, Pending' <= Pending,
         shell'.current = shell.current, Slack' = Slack,
         shell'.phase = "begins" => shell.phase = "begins",
         history'.hasty = history.hasty,
         \A p \in Procs : /\ proc'[p].killed = proc[p].killed
                          /\ proc'[p].st = "none" => proc[p].st = "none"
                          /\ proc'[p].st \notin {"none", "dead"}
                               => proc[p].st \notin {"none", "dead"}
  PROVE  BackendInv'
<1>1. \A p \in Procs : p \in Alive' => p \in Alive
  BY DEF Alive
<1>2. Alive' \subseteq Procs /\ Alive \subseteq Procs
  BY DEF Alive
<1>3. \A p \in Procs : proc'[p].st = "none" => ~proc'[p].killed
  BY DEF BackendInv
<1>4. shell'.current # Nothing =>
        ~proc'[shell'.current].killed /\ proc'[shell'.current].st # "none"
  BY DEF BackendInv, ShellInv, Shells
<1>5. Others' \subseteq Others
  BY <1>1, <1>2 DEF Others
<1>6. /\ Cardinality(Others') \in Nat /\ Cardinality(Others) \in Nat
      /\ Cardinality(Others') <= Cardinality(Others)
  BY <1>5, OthersAreProcs, OthersCount
<1>7. Running' \in {0, 1} /\ Running \in {0, 1} /\ Running' <= Running
  BY <1>1, <1>2 DEF Running
<1>8. /\ Cardinality(Others) <= history.hasty
      /\ Cardinality(Others) + Pending + Running <= history.hasty + Slack
      /\ shell.phase = "begins" => shell.current = Nothing /\ Pending = 0
  BY DEF BackendInv, CountInv
<1>9. history.hasty \in Nat /\ Slack \in {0, 1} /\ Pending \in Nat
  BY DEF ShellInv, Histories, Slack, Pending, Shells
<1>10. CountInv'
  BY <1>6, <1>7, <1>8, <1>9 DEF CountInv
<1> QED BY <1>3, <1>4, <1>10 DEF BackendInv

(* One process changes, and no other.                                      *)
LEMMA OneProcess ==
  ASSUME proc \in [Procs -> Processes], NEW p \in Procs, NEW child \in Processes,
         proc' = [proc EXCEPT ![p] = child]
  PROVE  /\ proc' \in [Procs -> Processes]
         /\ proc'[p] = child
         /\ \A q \in Procs \ {p} : proc'[q] = proc[q]
OBVIOUS

(* The killed child is the one the shell refers to; a launch pending then  *)
(* is remembered.                                                          *)
LEMMA StopLemma ==
  ASSUME ShellInv, BackendInv, shell.phase = "open", proc' = Killed, history' = Overtaken,
         shell'.current = Nothing, shell'.phase # "begins",
         \/ Pending' = Pending
         \/ Pending' = Pending + 1 /\ shell'.phase = "open"
  PROVE  BackendInv'
<1>1. /\ proc \in [Procs -> Processes] /\ Pending \in Nat /\ history.hasty \in Nat
      /\ shell.current \in Procs \cup {Nothing}
  BY DEF ShellInv, Shells, Histories, Pending
<1>2. \A p \in Procs : /\ proc'[p].st = proc[p].st
                       /\ proc'[p].killed <=> proc[p].killed \/ p = shell.current
  <2>1. CASE shell.current = Nothing
    <3>1. \A p \in Procs : p # Nothing /\ proc[p].killed \in BOOLEAN
      BY <1>1, DesktopAssumption DEF DesktopAssumption, Nothing, Processes
    <3> QED BY <2>1, <3>1 DEF Killed
  <2>2. CASE shell.current # Nothing
    <3>1. proc' = [proc EXCEPT ![shell.current].killed = TRUE] /\ shell.current \in Procs
      BY <1>1, <2>2 DEF Killed
    <3>2. \A p \in Procs : proc[p] \in Processes /\ proc[p].killed \in BOOLEAN
      BY <1>1 DEF Processes
    <3>3. \A p \in Procs \ {shell.current} : proc'[p] = proc[p]
      BY <1>1, <3>1
    <3>4. proc'[shell.current] = [proc[shell.current] EXCEPT !.killed = TRUE]
      BY <1>1, <3>1
    <3>5. proc'[shell.current].st = proc[shell.current].st /\ proc'[shell.current].killed
      BY <3>1, <3>2, <3>4 DEF Processes
    <3> QED BY <3>3, <3>5
  <2> QED BY <2>1, <2>2
<1>3. history'.hasty = IF Pending > 0 THEN history.hasty + 1 ELSE history.hasty
  <2>1. history \in Histories
    BY DEF ShellInv
  <2> QED BY <2>1 DEF Overtaken, Histories
<1>4. Alive' = Alive /\ Alive \subseteq Procs /\ \A p \in Procs : p # Nothing
  BY <1>2, DesktopAssumption DEF Alive, DesktopAssumption, Nothing
<1>5. \A p \in Procs : proc'[p].st = "none" => ~proc'[p].killed
  <2> SUFFICES ASSUME NEW p \in Procs, proc[p].st = "none", p = shell.current PROVE FALSE
    BY <1>2 DEF BackendInv
  <2> QED BY <1>1, DesktopAssumption DEF BackendInv, DesktopAssumption, Nothing
<1>6. Others' \subseteq Others /\ Running' = 0
  BY <1>2, <1>4 DEF Others, Running
<1>7. /\ Cardinality(Others') \in Nat /\ Cardinality(Others) \in Nat
      /\ Cardinality(Others') <= Cardinality(Others)
  BY <1>6, OthersAreProcs, OthersCount
<1>8. /\ Cardinality(Others) <= history.hasty
      /\ Cardinality(Others) + Pending + Running <= history.hasty + 1
      /\ Running \in {0, 1}
  BY DEF BackendInv, CountInv, Running, Slack
<1>9. Slack' \in {0, 1} /\ (shell'.phase = "open" => Slack' = 1)
  BY DEF Slack
<1>10. Cardinality(Others') <= history'.hasty
  BY <1>1, <1>3, <1>7, <1>8
<1>11. Cardinality(Others') + Pending' + 0 <= history'.hasty + Slack'
  <2>1. CASE Pending = 0
    BY <1>1, <1>3, <1>7, <1>8, <1>9, <2>1
  <2>2. CASE Pending > 0
    BY <1>1, <1>3, <1>7, <1>8, <1>9, <2>2
  <2> QED BY <1>1, <2>1, <2>2
<1>12. CountInv'
  BY <1>6, <1>10, <1>11 DEF CountInv
<1> QED BY <1>5, <1>12 DEF BackendInv

(* A launch uses up one that was pending, or is the first: the child the   *)
(* shell referred to becomes one of the others.                            *)
LEMMA LaunchLemma ==
  ASSUME ShellInv, BackendInv, NEW p \in Procs, Spawned(p),
         shell'.current = p, shell'.phase # "begins", Slack' = Slack,
         \/ Pending > 0 /\ Pending' = Pending - 1
         \/ shell.phase = "begins" /\ Pending' = Pending,
         history'.hasty = history.hasty
  PROVE  BackendInv'
<1>1. /\ proc \in [Procs -> Processes] /\ Pending \in Nat /\ p # Nothing
      /\ history.hasty \in Nat /\ Nothing \notin Procs
  BY DesktopAssumption DEF ShellInv, Shells, Histories, DesktopAssumption, Nothing, Pending
<1>2. /\ proc'[p].st = "spawned" /\ ~proc'[p].killed
      /\ \A q \in Procs \ {p} : proc'[q] = proc[q]
  BY <1>1 DEF Spawned, BackendInv, Processes
<1>3. \A q \in Alive' : q \in Procs /\ (q = p \/ (q \in Alive /\ proc'[q] = proc[q]))
  BY <1>2 DEF Alive
<1>4. \A q \in Procs : proc'[q].st = "none" => ~proc'[q].killed
  BY <1>2 DEF BackendInv
<1>5. /\ Cardinality(Others) \in Nat /\ Cardinality(Others') \in Nat
      /\ Cardinality(Others') <= Cardinality(Others) + Running
  <2>1. CASE shell.current \in Alive
    <3>1. Others' \subseteq Others \cup {shell.current}
      BY <1>3 DEF Others
    <3>2. Others \cup {shell.current} \subseteq Procs
      BY <2>1, OthersAreProcs
    <3>3. /\ Cardinality(Others') <= Cardinality(Others \cup {shell.current})
          /\ Cardinality(Others') \in Nat
          /\ Cardinality(Others \cup {shell.current}) \in Nat
      BY <3>1, <3>2, OthersCount
    <3>4. IsFiniteSet(Others) /\ Cardinality(Others) \in Nat
      BY OthersAreProcs, OthersCount
    <3>5. shell.current \notin Others
      BY DEF Others
    <3>6. Cardinality(Others \cup {shell.current}) = Cardinality(Others) + 1
      BY <3>4, <3>5, FS_AddElement
    <3> QED BY <2>1, <3>3, <3>4, <3>6 DEF Running
  <2>2. CASE shell.current \notin Alive
    <3>1. Others' \subseteq Others
      BY <1>3, <2>2 DEF Others
    <3> QED BY <2>2, <3>1, OthersAreProcs, OthersCount DEF Running
  <2> QED BY <2>1, <2>2
<1>6. Running' \in {0, 1} /\ Running \in {0, 1} /\ Slack \in {0, 1}
  BY DEF Running, Slack
<1>7. /\ Cardinality(Others) <= history.hasty
      /\ Cardinality(Others) + Pending + Running <= history.hasty + Slack
      /\ shell.phase = "begins" => shell.current = Nothing /\ Pending = 0 /\ Slack = 1
  BY DEF BackendInv, CountInv, Slack
<1>8. shell.phase = "begins" => Running = 0
  BY <1>1, <1>7, OthersAreProcs DEF Running
<1>9. CountInv'
  <2>1. CASE Pending > 0 /\ Pending' = Pending - 1
    BY <1>1, <1>5, <1>6, <1>7, <2>1 DEF CountInv
  <2>2. CASE shell.phase = "begins" /\ Pending' = Pending
    BY <1>1, <1>5, <1>6, <1>7, <1>8, <2>2 DEF CountInv
  <2> QED BY <2>1, <2>2
<1> QED BY <1>2, <1>4, <1>9 DEF BackendInv

LEMMA LaunchFailsLemma ==
  ASSUME ShellInv, BackendInv, NEW p \in Procs, LaunchFails(p)
  PROVE  BackendInv'
<1>1. /\ proc \in [Procs -> Processes] /\ starts \in Nat /\ shell \in Shells
      /\ history.hasty \in Nat
      /\ p # Nothing /\ p = shell.current /\ proc[p].st = "spawned" /\ ~proc[p].killed
  BY DesktopAssumption
     DEF LaunchFails, ShellInv, Histories, BackendInv, DesktopAssumption, Nothing
<1>2. /\ proc'[p].st = "dead" /\ ~proc'[p].killed
      /\ \A q \in Procs \ {p} : proc'[q] = proc[q]
  BY <1>1 DEF LaunchFails, Processes
<1>3. /\ shell'.current = p /\ UNCHANGED <<starts, history>>
      /\ shell'.phase = shell.phase
      /\ shell'.relaunch \in {shell.relaunch, shell.relaunch + 1}
  BY <1>1 DEF LaunchFails, Shells
<1>4. \A q \in Alive' : q # p /\ q \in Alive /\ proc'[q] = proc[q]
  BY <1>2 DEF Alive
<1>5. \A q \in Procs : proc'[q].st = "none" => ~proc'[q].killed
  BY <1>2 DEF BackendInv
<1>6. Others' \subseteq Others
  BY <1>1, <1>3, <1>4 DEF Others
<1>7. /\ Cardinality(Others') \in Nat /\ Cardinality(Others) \in Nat
      /\ Cardinality(Others') <= Cardinality(Others)
  BY <1>6, OthersAreProcs, OthersCount
<1>8. Running = 1 /\ Running' = 0
  BY <1>1, <1>3, <1>4 DEF Running, Alive
<1>9. /\ Cardinality(Others) <= history.hasty
      /\ Cardinality(Others) + Pending + Running <= history.hasty + Slack
      /\ shell.phase # "begins"
  BY <1>1 DEF BackendInv, CountInv
<1>10. /\ Slack' = Slack /\ Slack \in {0, 1} /\ Pending \in Nat
       /\ Pending' \in {Pending, Pending + 1}
  BY <1>1, <1>3 DEF Slack, Pending, Shells
<1>11. CountInv'
  BY <1>1, <1>3, <1>7, <1>8, <1>9, <1>10 DEF CountInv
<1> QED BY <1>1, <1>2, <1>3, <1>5, <1>11 DEF BackendInv

(* How a step of a child changes it: it goes on, or it is dead.            *)
LEMMA ChildGoesOn ==
  ASSUME ShellInv, NEW p \in Procs, p \in Alive,
         NEW st \in States \ {"none"},
         \/ proc' = [proc EXCEPT ![p].st = st]
         \/ \E port \in Ports : proc' = [proc EXCEPT ![p].st = st, ![p].port = port]
  PROVE  /\ \A q \in Procs : /\ proc'[q].killed = proc[q].killed
                             /\ proc'[q].st = "none" => proc[q].st = "none"
                             /\ proc'[q].st \notin {"none", "dead"}
                                  => proc[q].st \notin {"none", "dead"}
         /\ proc' \in [Procs -> Processes]
         /\ proc'[p].st = st
         /\ \A q \in Procs \ {p} : proc'[q] = proc[q]
<1>1. proc \in [Procs -> Processes] /\ proc[p] \in Processes /\ proc[p].st \notin {"none", "dead"}
  BY DEF ShellInv, Alive
<1>2. PICK child \in Processes :
        /\ proc' = [proc EXCEPT ![p] = child]
        /\ child.st = st /\ child.killed = proc[p].killed
  <2>1. CASE proc' = [proc EXCEPT ![p].st = st]
    <3> DEFINE child == [proc[p] EXCEPT !.st = st]
    <3>1. child \in Processes /\ child.st = st /\ child.killed = proc[p].killed
      BY <1>1 DEF Processes
    <3>2. proc' = [proc EXCEPT ![p] = child]
      BY <2>1
    <3> HIDE DEF child
    <3> QED BY <3>1, <3>2
  <2>2. ASSUME NEW port \in Ports, proc' = [proc EXCEPT ![p].st = st, ![p].port = port]
        PROVE  \E child \in Processes :
                 /\ proc' = [proc EXCEPT ![p] = child]
                 /\ child.st = st /\ child.killed = proc[p].killed
    <3> DEFINE child == [proc[p] EXCEPT !.st = st, !.port = port]
    <3>1. child \in Processes /\ child.st = st /\ child.killed = proc[p].killed
      BY <1>1 DEF Processes
    <3>2. proc' = [proc EXCEPT ![p] = child]
      BY <1>1, <2>2
    <3> HIDE DEF child
    <3> QED BY <3>1, <3>2
  <2> QED BY <2>1, <2>2
<1>3. /\ proc' \in [Procs -> Processes] /\ proc'[p] = child
      /\ \A q \in Procs \ {p} : proc'[q] = proc[q]
  BY <1>1, <1>2
<1> QED BY <1>1, <1>2, <1>3

-----------------------------------------------------------------------------

(* A set of ports that is not empty has a least one.                       *)
LEMMA FirstPort ==
  ASSUME NEW S \in SUBSET Ports, S # {}
  PROVE  Min(S) \in S
<1>1. S \in SUBSET Nat
  BY DEF Ports
<1>2. PICK m \in S : \A k \in S : ~(<<k, m>> \in OpToRel(<, Nat))
  BY <1>1, NatLessThanWellFounded, WFMin, Zenon
<1>3. \A k \in S : k \in Nat /\ m \in Nat
  BY <1>1
<1>4. \A k \in S : <<k, m>> \in Nat \X Nat
  BY <1>3
<1>5. \A k \in S : ~(<<k, m>>[1] < <<k, m>>[2])
  BY <1>2, <1>4, Zenon DEF OpToRel
<1>6. \A k \in S : m <= k
  BY <1>3, <1>5
<1> QED BY <1>6 DEF Min

LEMMA PortsAreSomething ==
  /\ \A port \in Ports : port # Nothing /\ port \in Nat
  /\ \A p \in Procs : p # Nothing /\ p \in Nat
  /\ Nothing \in Nat
BY DesktopAssumption DEF Ports, Nothing, DesktopAssumption

(* What the node is given is a port, and the configuration has it.         *)
LEMMA StartObserverLemma ==
  ASSUME ShellInv, NEW p \in Procs, NEW wanted, StartObserver(p, wanted)
  PROVE  /\ \E port \in Ports : /\ proc' = [proc EXCEPT ![p].st = "starting", ![p].port = port]
                                /\ config' = port
         /\ history' \in Histories /\ history'.hasty = history.hasty
<1> DEFINE port == Min(FreeFrom(wanted))
<1>1. port \in Ports
  BY FirstPort DEF StartObserver, FreeFrom
<1>2. /\ proc' = [proc EXCEPT ![p].st = "starting", ![p].port = port]
      /\ config' = port
      /\ history' \in {history, [history EXCEPT !.moved = history.moved \cup {p}]}
  BY DEF StartObserver
<1>3. history' \in Histories /\ history'.hasty = history.hasty
  <2>1. history \in Histories
    BY DEF ShellInv
  <2> QED BY <1>2, <2>1 DEF Histories
<1> HIDE DEF port
<1> QED BY <1>1, <1>2, <1>3

(* The types stay when a child goes on as the code has it.                 *)
LEMMA ChildKeepsTypes ==
  ASSUME ShellInv, NEW p \in Procs, p \in Alive,
         NEW st \in States \ {"none"},
         \/ /\ proc' = [proc EXCEPT ![p].st = st] /\ UNCHANGED config
            /\ st \in {"closing", "starting", "serving"} => proc[p].port # Nothing /\ config # Nothing
         \/ \E port \in Ports : /\ proc' = [proc EXCEPT ![p].st = st, ![p].port = port]
                                /\ config' = port,
         shell' \in Shells, UNCHANGED starts, history' \in Histories
  PROVE  ShellInv'
<1>1. /\ proc' \in [Procs -> Processes] /\ proc'[p].st = st
      /\ \A q \in Procs \ {p} : proc'[q] = proc[q]
  BY ChildGoesOn
<1>2. proc \in [Procs -> Processes] /\ HasPorts(proc, config) /\ config \in Ports \cup {Nothing}
  BY DEF ShellInv
<1>3. CASE /\ proc' = [proc EXCEPT ![p].st = st] /\ UNCHANGED config
           /\ st \in {"closing", "starting", "serving"} => proc[p].port # Nothing /\ config # Nothing
  <2>1. proc'[p].port = proc[p].port
    <3>1. proc'[p] = [proc[p] EXCEPT !.st = st] /\ proc[p] \in Processes
      BY <1>2, <1>3
    <3> QED BY <3>1 DEF Processes
  <2>2. HasPorts(proc', config')
    BY <1>1, <1>2, <1>3, <2>1 DEF HasPorts
  <2> QED BY <1>1, <1>2, <1>3, <2>2 DEF ShellInv
<1>4. ASSUME NEW port \in Ports,
             proc' = [proc EXCEPT ![p].st = st, ![p].port = port], config' = port
      PROVE  ShellInv'
  <2>1. proc'[p].port = port
    <3>1. proc'[p] = [proc[p] EXCEPT !.st = st, !.port = port] /\ proc[p] \in Processes
      BY <1>2, <1>4
    <3> QED BY <3>1 DEF Processes
  <2>2. HasPorts(proc', config')
    BY <1>1, <1>2, <1>4, <2>1, PortsAreSomething DEF HasPorts
  <2> QED BY <1>1, <1>4, <2>2 DEF ShellInv
<1> QED BY <1>3, <1>4

(* The types stay when only the shell, its timers and the history change.  *)
LEMMA ShellKeepsTypes ==
  ASSUME ShellInv, UNCHANGED <<proc, config>>,
         shell' \in Shells, starts' \in Nat, history' \in Histories
  PROVE  ShellInv'
BY DEF ShellInv, HasPorts

(* A child that is killed keeps its state.                                 *)
LEMMA StopKeepsTypes ==
  ASSUME ShellInv, proc' = Killed, history' = Overtaken, UNCHANGED config,
         shell' \in Shells, starts' \in Nat
  PROVE  ShellInv'
<1>1. /\ proc \in [Procs -> Processes] /\ history \in Histories
      /\ shell.current \in Procs \cup {Nothing} /\ starts \in Nat /\ shell.relaunch \in Nat
  BY DEF ShellInv, Shells
<1>2. /\ proc' \in [Procs -> Processes]
      /\ \A p \in Procs : proc'[p].st = proc[p].st /\ proc'[p].port = proc[p].port
  <2>1. CASE shell.current = Nothing
    BY <1>1, <2>1 DEF Killed
  <2>2. CASE shell.current # Nothing
    <3>1. proc' = [proc EXCEPT ![shell.current].killed = TRUE] /\ shell.current \in Procs
      BY <1>1, <2>2 DEF Killed
    <3> DEFINE child == [proc[shell.current] EXCEPT !.killed = TRUE]
    <3>2. /\ child \in Processes
          /\ child.st = proc[shell.current].st /\ child.port = proc[shell.current].port
      <4>1. proc[shell.current] \in Processes
        BY <1>1, <3>1
      <4> QED BY <4>1 DEF Processes
    <3>3. proc' = [proc EXCEPT ![shell.current] = child]
      BY <1>1, <3>1
    <3> HIDE DEF child
    <3> QED BY <1>1, <3>1, <3>2, <3>3
  <2> QED BY <2>1, <2>2
<1>3. history' \in Histories
  <2>1. CASE Pending > 0
    BY <1>1, <2>1 DEF Overtaken, Histories
  <2>2. CASE ~(Pending > 0)
    BY <1>1, <2>2 DEF Overtaken, Histories
  <2> QED BY <2>1, <2>2
<1> QED BY <1>2, <1>3 DEF ShellInv, HasPorts

LEMMA SpawnKeepsTypes ==
  ASSUME ShellInv, NEW p \in Procs, Spawned(p), UNCHANGED config,
         shell' \in Shells, starts' \in Nat, history' \in Histories
  PROVE  ShellInv'
<1>1. proc \in [Procs -> Processes] /\ proc' = [proc EXCEPT ![p].st = "spawned"]
  BY DEF ShellInv, Spawned
<1>2. /\ proc' \in [Procs -> Processes] /\ proc'[p].st = "spawned"
      /\ \A q \in Procs \ {p} : proc'[q] = proc[q]
  BY <1>1 DEF Processes, States
<1> QED BY <1>2 DEF ShellInv, HasPorts

-----------------------------------------------------------------------------

LEMMA ShellFields ==
  ASSUME ShellInv
  PROVE  /\ shell \in Shells /\ history \in Histories /\ starts \in Nat
         /\ proc \in [Procs -> Processes]
         /\ shell.current \in Procs \cup {Nothing}
         /\ shell.relaunch \in Nat /\ Pending \in Nat /\ Pending = starts + shell.relaunch
BY DEF ShellInv, Shells, Pending

(* The steps of the shell that launch or stop a child.                     *)
LEMMA LaunchKeeps ==
  ASSUME ShellInv, BackendInv, NEW current \in Shells, Launches(current), UNCHANGED config,
         starts' \in Nat, shell.phase # "gone",
         current.current = shell.current,
         \/ /\ Pending > 0 /\ starts' + current.relaunch = Pending - 1
            /\ current.phase = shell.phase
         \/ /\ shell.phase = "begins" /\ current.phase = "open"
            /\ starts' + current.relaunch = Pending
  PROVE  ShellInv' /\ BackendInv'
<1>1. /\ Slack = IF shell.phase \in {"begins", "open"} THEN 1 ELSE 0
      /\ (Pending > 0 => shell.phase # "begins")
  BY DEF BackendInv, CountInv, Slack
<1>2. CASE /\ shell' = current /\ UNCHANGED <<proc, history>>
  <2>1. ShellInv'
    BY <1>2, ShellFields, ShellKeepsTypes
  <2>2. Pending' \in Nat /\ Pending' <= Pending /\ Slack' = Slack
    BY <1>1, <1>2, ShellFields DEF Pending, Slack
  <2>3. BackendInv'
    BY <1>1, <1>2, <2>2, NothingLaunched
  <2> QED BY <2>1, <2>3
<1>3. ASSUME NEW p \in Procs, Spawned(p), shell' = [current EXCEPT !.current = p],
             history' = [history EXCEPT !.lingered = history.lingered \/ Alive # {}]
      PROVE  ShellInv' /\ BackendInv'
  <2>1. /\ shell' \in Shells /\ shell'.current = p /\ shell'.phase = current.phase
        /\ shell'.relaunch = current.relaunch
    BY <1>3 DEF Shells
  <2>2. history' \in Histories /\ history'.hasty = history.hasty
    BY <1>3, ShellFields DEF Histories
  <2>3. Slack' = Slack /\ Pending' = starts' + current.relaunch /\ shell'.phase # "begins"
    BY <1>1, <2>1 DEF Slack, Pending
  <2> QED BY <1>3, <2>1, <2>2, <2>3, SpawnKeepsTypes, LaunchLemma
<1> QED BY <1>2, <1>3 DEF Launches

LEMMA LaunchSteps ==
  ASSUME ShellInv, BackendInv, Begin \/ StartBackend \/ Relaunch
  PROVE  ShellInv' /\ BackendInv'
<1>1. CASE Begin
  <2>1. PICK s \in Shells : s = [shell EXCEPT !.phase = "open", !.ready = FALSE]
    <3> DEFINE t == [shell EXCEPT !.phase = "open", !.ready = FALSE]
    <3>1. t \in Shells
      BY ShellFields DEF Shells
    <3> QED BY <3>1
  <2>2. /\ s.current = shell.current /\ s.phase = "open" /\ s.relaunch = shell.relaunch
    BY <2>1, ShellFields DEF Shells
  <2>3. Launches(s) /\ UNCHANGED <<config, starts>> /\ shell.phase = "begins"
    <3>1. [[shell EXCEPT !.phase = "open"] EXCEPT !.ready = FALSE] = s
      BY <2>1, ShellFields DEF Shells
    <3> QED BY <1>1, <3>1 DEF Begin, Started
  <2> QED BY <2>2, <2>3, ShellFields, LaunchKeeps
<1>2. CASE StartBackend
  <2>1. PICK s \in Shells : s = [shell EXCEPT !.ready = FALSE]
    <3> DEFINE t == [shell EXCEPT !.ready = FALSE]
    <3>1. t \in Shells
      BY ShellFields DEF Shells
    <3> QED BY <3>1
  <2>2. s.current = shell.current /\ s.phase = shell.phase /\ s.relaunch = shell.relaunch
    BY <2>1, ShellFields DEF Shells
  <2>3. /\ Launches(s) /\ UNCHANGED config /\ shell.phase # "gone"
        /\ starts > 0 /\ starts' = starts - 1
    BY <1>2, <2>1 DEF StartBackend, Started
  <2>4. /\ starts' \in Nat /\ Pending > 0
        /\ starts' + s.relaunch = Pending - 1
    BY <2>2, <2>3, ShellFields
  <2> QED BY <2>2, <2>3, <2>4, LaunchKeeps
<1>3. CASE Relaunch
  <2>1. /\ Launches([shell EXCEPT !.relaunch = shell.relaunch - 1]) /\ UNCHANGED <<config, starts>>
        /\ shell.phase # "gone" /\ shell.relaunch > 0
    BY <1>3 DEF Relaunch
  <2>2. PICK n \in Nat : n = shell.relaunch - 1
    BY <2>1, ShellFields
  <2>3. PICK s \in Shells : s = [shell EXCEPT !.relaunch = n]
    <3> DEFINE t == [shell EXCEPT !.relaunch = n]
    <3>1. t \in Shells
      BY ShellFields DEF Shells
    <3> QED BY <3>1
  <2>4. s.current = shell.current /\ s.phase = shell.phase /\ s.relaunch = n
    BY <2>3, ShellFields DEF Shells
  <2>5. Launches(s)
    BY <2>1, <2>2, <2>3
  <2>6. Pending > 0 /\ starts' + n = Pending - 1 /\ starts' \in Nat
    BY <2>1, <2>2, ShellFields
  <2> QED BY <2>1, <2>4, <2>5, <2>6, LaunchKeeps
<1> QED BY <1>1, <1>2, <1>3

LEMMA StopKeeps ==
  ASSUME ShellInv, BackendInv, RestartBackend \/ StopBackend \/ Quit \/ Install
  PROVE  ShellInv' /\ BackendInv'
<1>1. proc' = Killed /\ history' = Overtaken /\ UNCHANGED config
  BY DEF RestartBackend, StopBackend, Quit, Install
<1>2. starts' \in {starts, starts + 1} /\ starts' \in Nat
  <2>1. starts' = starts \/ starts' = starts + 1
    BY DEF RestartBackend, StopBackend, Quit, Install
  <2>2. starts \in Nat
    BY ShellFields
  <2> QED BY <2>1, <2>2
<1>3. Starting \in Pages
  BY PortsAreSomething DEF Starting, Pages
<1>4. /\ shell' \in Shells /\ shell'.current = Nothing /\ shell'.relaunch = shell.relaunch
      /\ shell'.phase \in {"open", "quitting"} /\ shell.phase = "open"
      /\ starts' = starts + 1 => shell'.phase = "open"
  <2>1. CASE RestartBackend
    BY <1>3, <2>1, ShellFields DEF RestartBackend, Shells
  <2>2. CASE StopBackend
    <3>1. starts' # starts + 1
      BY <2>2, ShellFields DEF StopBackend
    <3> QED BY <2>2, <3>1, ShellFields DEF StopBackend, Shells
  <2>3. CASE Quit
    <3>1. starts' # starts + 1
      BY <2>3, ShellFields DEF Quit
    <3> QED BY <2>3, <3>1, ShellFields DEF Quit, Shells
  <2>4. CASE Install
    <3>1. \/ shell' = [shell EXCEPT !.current = Nothing, !.quitting = TRUE, !.phase = "quitting"]
          \/ shell' = [shell EXCEPT !.current = Nothing, !.quitting = TRUE, !.phase = shell.phase]
      BY <2>4 DEF Install
    <3>2. starts' = starts /\ shell.phase = "open"
      BY <2>4 DEF Install
    <3>3. starts' # starts + 1
      BY <3>2, ShellFields
    <3> QED BY <3>1, <3>2, <3>3, ShellFields DEF Shells
  <2> QED BY <2>1, <2>2, <2>3, <2>4
<1>5. \/ Pending' = Pending
      \/ Pending' = Pending + 1 /\ shell'.phase = "open"
  BY <1>2, <1>4, ShellFields DEF Pending
<1>6. shell'.phase # "begins"
  BY <1>4
<1> QED BY <1>1, <1>2, <1>4, <1>5, <1>6, StopKeepsTypes, StopLemma

(* The shell refers to the same child, and has as many launches pending.   *)
Same == /\ shell'.current = shell.current /\ shell'.relaunch = shell.relaunch
        /\ \/ shell'.phase = shell.phase
           \/ shell.phase = "quitting" /\ shell'.phase = "gone"

LEMMA SameShell == UNCHANGED shell => Same
BY DEF Same

LEMMA SamePending ==
  ASSUME ShellInv, Same, UNCHANGED starts
  PROVE  /\ Pending' \in Nat /\ Pending' <= Pending /\ shell'.current = shell.current
         /\ Slack' = Slack /\ (shell'.phase = "begins" => shell.phase = "begins")
BY ShellFields DEF Same, Pending, Slack

(* The steps of a child.                                                   *)
LEMMA ChildKeeps ==
  ASSUME ShellInv, BackendInv, NEW p \in Procs, p \in Alive,
         NEW st \in States \ {"none"},
         \/ /\ proc' = [proc EXCEPT ![p].st = st] /\ UNCHANGED config
            /\ st \in {"closing", "starting", "serving"} => proc[p].port # Nothing /\ config # Nothing
         \/ \E port \in Ports : /\ proc' = [proc EXCEPT ![p].st = st, ![p].port = port]
                                /\ config' = port,
         shell' \in Shells, Same,
         UNCHANGED starts, history' \in Histories, history'.hasty = history.hasty
  PROVE  ShellInv' /\ BackendInv'
<1>1. ShellInv'
  BY ChildKeepsTypes
<1>2. \A q \in Procs : /\ proc'[q].killed = proc[q].killed
                       /\ proc'[q].st = "none" => proc[q].st = "none"
                       /\ proc'[q].st \notin {"none", "dead"}
                            => proc[q].st \notin {"none", "dead"}
  BY ChildGoesOn
<1>3. BackendInv'
  BY <1>2, SamePending, NothingLaunched
<1> QED BY <1>1, <1>3

(* The steps of the shell that change no child.                            *)
LEMMA OthersKeep ==
  ASSUME ShellInv, BackendInv, UNCHANGED <<proc, config, starts>>,
         shell' \in Shells, Same,
         history' \in Histories, history'.hasty = history.hasty
  PROVE  ShellInv' /\ BackendInv'
BY ShellFields, ShellKeepsTypes, SamePending, NothingLaunched

LEMMA EndKeeps ==
  ASSUME ShellInv, BackendInv, NEW p \in Procs, p \in Alive, NEW failed, Ended(p, failed)
  PROVE  ShellInv' /\ BackendInv'
<1>1. /\ proc' = [proc EXCEPT ![p].st = "dead"]
      /\ shell' \in {shell, [shell EXCEPT !.page = Failure]}
      /\ UNCHANGED <<config, starts, history>>
  BY DEF Ended
<1>2. Failure \in Pages
  BY PortsAreSomething DEF Failure, Pages
<1>3. shell' \in Shells /\ Same
  BY <1>1, <1>2, ShellFields DEF Shells, Same
<1>4. "dead" \in States \ {"none"} /\ "dead" \notin {"closing", "starting", "serving"}
  BY DEF States
<1> QED BY <1>1, <1>3, <1>4, ShellFields, ChildKeeps

LEMMA ShownPages ==
  ASSUME ShellInv, NEW page \in Pages, shell' = Show(page) \/ shell' = [shell EXCEPT !.page = page]
  PROVE  shell' \in Shells /\ Same
BY ShellFields DEF Show, Shells, Same

LEMMA PagesShown ==
  /\ \A p \in Procs : Setup(p) \in Pages
  /\ \A port \in Ports \cup {Nothing} : App(port) \in Pages
  /\ Failure \in Pages
BY PortsAreSomething DEF Setup, App, Failure, Pages

LEMMA ChildStep ==
  ASSUME ShellInv, BackendInv, NEW p \in Procs,
         Child(p) \/ SaveSetup(p) \/ Crash(p) \/ LaunchFails(p)
  PROVE  ShellInv' /\ BackendInv'
<1>1. {"setup", "closing", "starting", "serving", "dead"} \subseteq States \ {"none"}
  BY DEF States
<1>2. ASSUME NEW wanted, p \in Alive, StartObserver(p, wanted), UNCHANGED <<shell, starts>>
      PROVE  ShellInv' /\ BackendInv'
  BY <1>1, <1>2, StartObserverLemma, ShellFields, SameShell, ChildKeeps
<1>3. CASE BootObserver(p)
  <2>1. p \in Alive
    BY <1>3 DEF BootObserver, Alive
  <2> QED BY <1>2, <1>3, <2>1 DEF BootObserver
<1>4. CASE SetupClosed(p)
  <2>1. p \in Alive
    BY <1>4 DEF SetupClosed, Alive
  <2> QED BY <1>2, <1>4, <2>1 DEF SetupClosed
<1>5. CASE BootSetup(p)
  <2>1. /\ p \in Alive /\ proc' = [proc EXCEPT ![p].st = "setup"]
        /\ UNCHANGED <<config, shell, starts, history>>
    BY <1>5 DEF BootSetup, Alive
  <2> QED BY <1>1, <2>1, ShellFields, SameShell, ChildKeeps
<1>6. CASE Listen(p)
  <2>1. /\ p \in Alive /\ proc' = [proc EXCEPT ![p].st = "serving"]
        /\ UNCHANGED <<config, shell, starts, history>>
        /\ proc[p].port # Nothing /\ config # Nothing
    BY <1>6 DEF Listen, Alive, ShellInv, HasPorts
  <2> QED BY <1>1, <2>1, ShellFields, SameShell, ChildKeeps
<1>7. CASE ListenFails(p)
  <2>1. p \in Alive
    BY <1>7 DEF ListenFails, Alive
  <2> QED BY <1>7, <2>1, EndKeeps DEF ListenFails
<1>8. CASE Die(p)
  BY <1>8, EndKeeps DEF Die
<1>9. CASE Crash(p)
  BY <1>9, EndKeeps DEF Crash
<1>10. CASE SaveSetup(p)
  <2>1. PICK port \in OfferedPorts :
          /\ config' = port
          /\ proc' = [proc EXCEPT ![p].st = "closing", ![p].port = port]
    BY <1>10 DEF SaveSetup
  <2>2. port \in Ports
    BY DesktopAssumption DEF DesktopAssumption
  <2>3. /\ p \in Alive /\ UNCHANGED <<shell, starts>>
        /\ history' = [history EXCEPT !.setup = history.setup \cup {p}]
    BY <1>10 DEF SaveSetup, Alive
  <2>4. history' \in Histories /\ history'.hasty = history.hasty
    BY <2>3, ShellFields DEF Histories
  <2> QED BY <1>1, <2>1, <2>2, <2>3, <2>4, ShellFields, SameShell, ChildKeeps
<1>11. CASE LaunchFails(p)
  <2>1. /\ p \in Alive /\ proc' = [proc EXCEPT ![p].st = "dead"]
        /\ shell' \in {[shell EXCEPT !.page = Failure],
                       [shell EXCEPT !.retryUsed = TRUE, !.relaunch = shell.relaunch + 1]}
        /\ UNCHANGED <<config, starts, history>>
    BY <1>11 DEF LaunchFails, Alive
  <2>2. shell' \in Shells
    <3>1. PICK n \in Nat : n = shell.relaunch + 1
      BY ShellFields
    <3> QED BY <2>1, <3>1, PagesShown, ShellFields DEF Shells
  <2>3. ShellInv'
    BY <1>1, <2>1, <2>2, ShellFields, ChildKeepsTypes
  <2> QED BY <1>11, <2>3, LaunchFailsLemma
<1> QED
  BY <1>3, <1>4, <1>5, <1>6, <1>7, <1>8, <1>9, <1>10, <1>11 DEF Child

LEMMA LearnStep ==
  ASSUME ShellInv, BackendInv,
         \/ \E p \in Procs : Learn(p)
         \/ \E port \in Ports : Poll(port)
         \/ Gone
  PROVE  ShellInv' /\ BackendInv'
<1>1. \A p \in Procs : proc[p].port \in Ports \cup {Nothing}
  BY ShellFields DEF Processes
<1>2. ASSUME NEW p \in Procs, WaitSucceeds(p) PROVE ShellInv' /\ BackendInv'
  <2>1. shell' = Show(App(proc[p].port)) /\ UNCHANGED <<proc, config, starts, history>>
    BY <1>2 DEF WaitSucceeds
  <2>2. App(proc[p].port) \in Pages
    BY <1>1, PagesShown
  <2> QED BY <2>1, <2>2, ShownPages, ShellFields, OthersKeep
<1>3. ASSUME NEW p \in Procs, WaitGivesUp(p) PROVE ShellInv' /\ BackendInv'
  <2>1. /\ shell' = [shell EXCEPT !.page = Failure]
        /\ history' = [history EXCEPT !.gaveUp = history.gaveUp \cup {p}]
        /\ UNCHANGED <<proc, config, starts>>
    BY <1>3 DEF WaitGivesUp
  <2>2. history' \in Histories /\ history'.hasty = history.hasty
    BY <2>1, ShellFields DEF Histories
  <2> QED BY <2>1, <2>2, PagesShown, ShownPages, OthersKeep
<1>4. ASSUME NEW p \in Procs, VerifySetup(p) PROVE ShellInv' /\ BackendInv'
  <2>1. /\ shell' = Show(Setup(p)) \/ shell' = shell
        /\ UNCHANGED <<proc, config, starts, history>>
    BY <1>4 DEF VerifySetup
  <2> QED BY <2>1, PagesShown, ShownPages, ShellFields, SameShell, OthersKeep
<1>5. ASSUME NEW port \in Ports, PollTick(port) PROVE ShellInv' /\ BackendInv'
  BY <1>5, ShellFields, SameShell, OthersKeep DEF PollTick
<1>6. ASSUME NEW port \in Ports, PollAnswered(port) PROVE ShellInv' /\ BackendInv'
  <2>1. UNCHANGED <<proc, config, starts, history>>
    BY <1>6 DEF PollAnswered
  <2>2. \/ shell' = Show(App(port)) \/ shell' = shell
        \/ \E p \in Procs : shell' = Show(Setup(p))
    BY <1>6 DEF PollAnswered, Setups, Alive
  <2> QED BY <2>1, <2>2, PagesShown, ShownPages, ShellFields, SameShell, OthersKeep
<1>7. CASE Gone
  <2>1. shell' = [shell EXCEPT !.phase = "gone"] /\ UNCHANGED <<proc, config, starts, history>>
    BY <1>7 DEF Gone
  <2>2. shell' \in Shells /\ Same
    BY <1>7, <2>1, ShellFields DEF Gone, Shells, Same
  <2> QED BY <2>1, <2>2, ShellFields, OthersKeep
<1> QED BY <1>2, <1>3, <1>4, <1>5, <1>6, <1>7 DEF Learn, Poll

LEMMA ShellStep ==
  ShellInv /\ BackendInv /\ [DesktopNext]_desktopVars => ShellInv' /\ BackendInv'
<1> SUFFICES ASSUME ShellInv, BackendInv, [DesktopNext]_desktopVars
             PROVE  ShellInv' /\ BackendInv'
  OBVIOUS
<1>1. CASE UNCHANGED <<proc, config, starts, shell, history>>
  BY <1>1, ShellFields, SameShell, OthersKeep
<1>2. CASE RestartBackend \/ StopBackend \/ Quit \/ Install
  BY <1>2, StopKeeps
<1>3. CASE Begin \/ StartBackend \/ Relaunch
  BY <1>3, LaunchSteps
<1>4. CASE \E p \in Procs : Child(p) \/ SaveSetup(p) \/ Crash(p) \/ LaunchFails(p)
  BY <1>4, ChildStep
<1>5. CASE \/ \E p \in Procs : Learn(p)
           \/ \E port \in Ports : Poll(port)
           \/ Gone
  BY <1>5, LearnStep
<1>6. CASE Check \/ CheckAnswered \/ Download \/ Downloaded \/ DownloadFails
  BY <1>6, <1>1 DEF Check, CheckAnswered, Download, Downloaded, DownloadFails, UpdateStep
<1>7. CASE UNCHANGED desktopVars
  BY <1>7, <1>1 DEF desktopVars
<1> QED BY <1>2, <1>3, <1>4, <1>5, <1>6, <1>7 DEF DesktopNext, User, Updater

LEMMA DesktopInvariance == DesktopSpec => []DesktopInv
<1>1. DesktopInv /\ [DesktopNext]_desktopVars => DesktopInv'
  BY UpdaterStep, ShellStep DEF DesktopInv
<1> QED BY <1>1, DesktopBegins, PTL DEF DesktopSpec

(* However restarts, stops, failed launches, quits and updates follow each *)
(* other, no child is left that nobody can stop, but at most one for each  *)
(* stop that came while a launch was pending (main.js).                    *)
THEOREM NoBackendForgotten == DesktopSpec => []NoneForgotten
<1>1. DesktopInv => NoneForgotten
  <2> SUFFICES ASSUME DesktopInv PROVE NoneForgotten
    OBVIOUS
  <2>1. /\ Cardinality(Others) <= history.hasty
        /\ Cardinality(Others) + Pending + Running <= history.hasty + Slack
        /\ history.hasty \in Nat /\ Pending \in Nat
    BY ShellFields DEF DesktopInv, BackendInv, CountInv, Histories
  <2>2. CASE shell.phase # "gone" \/ shell.current \notin Alive
    <3>1. Forgotten \subseteq Others
      BY <2>2 DEF Forgotten, Others
    <3>2. /\ Cardinality(Forgotten) \in Nat /\ Cardinality(Others) \in Nat
          /\ Cardinality(Forgotten) <= Cardinality(Others)
      BY <3>1, OthersAreProcs, OthersCount
    <3> QED BY <2>1, <3>2 DEF NoneForgotten
  <2>3. CASE shell.phase = "gone" /\ shell.current \in Alive
    <3>1. Forgotten \subseteq Others \cup {shell.current}
      BY DEF Forgotten, Others
    <3>2. Others \cup {shell.current} \subseteq Procs
      BY <2>3, OthersAreProcs
    <3>3. /\ Cardinality(Forgotten) <= Cardinality(Others \cup {shell.current})
          /\ Cardinality(Forgotten) \in Nat
          /\ Cardinality(Others \cup {shell.current}) \in Nat
      BY <3>1, <3>2, OthersCount
    <3>4. IsFiniteSet(Others) /\ Cardinality(Others) \in Nat
      BY OthersAreProcs, OthersCount
    <3>5. shell.current \notin Others
      BY DEF Others
    <3>6. Cardinality(Others \cup {shell.current}) = Cardinality(Others) + 1
      BY <3>4, <3>5, FS_AddElement
    <3>7. Running = 1 /\ Slack = 0
      BY <2>3 DEF Running, Slack
    <3> QED BY <2>1, <3>3, <3>4, <3>6, <3>7 DEF NoneForgotten
  <2> QED BY <2>2, <2>3
<1> QED BY <1>1, DesktopInvariance, PTL

(* The shell and its update manager: a check and a download never overlap, *)
(* and what is offered to install was downloaded (main.js,                 *)
(* updateManager.js).                                                      *)
THEOREM DesktopSound == DesktopSpec => []DesktopIsSound
<1>1. ShellInv /\ UpdateInv => DesktopTypeOK
  BY ShellFields DEF ShellInv, UpdateInv, HasPorts, Processes, Shells, Pages, Updates, DesktopTypeOK
<1>2. UpdateInv => OneUpdateStep
  BY DEF UpdateInv, Updates, OneUpdateStep
<1>3. DesktopInv => DesktopIsSound
  BY <1>1, <1>2 DEF DesktopInv, DesktopIsSound
<1> QED BY <1>3, DesktopInvariance, PTL
=============================================================================
