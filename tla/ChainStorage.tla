---------------------------- MODULE ChainStorage ----------------------------
(***************************************************************************)
(* The data directory of a node and everything that writes or reads it:    *)
(* the storage back ends (sqliteStorage.js, one transaction per block;     *)
(* jsonStorage.js, three files one after the other), the start of a node   *)
(* with its full audit (blockchain.js, invariants.js), and the operator's  *)
(* tools: backup and restore (backup.js), replay (replay.js) and the       *)
(* repair of the balance history (balanceHistoryRepair.js).                *)
(*                                                                         *)
(* A block is known by a number that stands for its hash and for the       *)
(* state root after it; every block changes the state.  `core' is the      *)
(* block whose state the stored balances, nonces and participants are,     *)
(* `hist' the block whose balance history is stored.  Backup, replay and   *)
(* repair run beside the node, in processes of their own, one at a time;   *)
(* a restore is made while the node is down.                               *)
(***************************************************************************)
EXTENDS Integers, Sequences, SequencesExt, FiniteSets

CONSTANTS MaxBlock,     \* the highest number of a block (a bound)
          Situations    \* [backend, mode, budget]: what is configured, and how
                        \* often each kind of event happens

ASSUME StorageAssumption == MaxBlock \in Nat

VARIABLES
  backend,  \* config.storage.backend: "sqlite" or "json"
  mode,     \* "producer" or "observer"
  dir,      \* the data directory, or NoDir
  node,     \* the process of the node and its memory
  put,      \* the files of a block the JSON storage still has to write, and
            \* what the node has in memory once it has written them
  mined,    \* the number of the last block mined
  zips,     \* the archives of createBackup
  copy,     \* the snapshot a backup is working on, or NoDir
  restore,  \* a restore under way
  tool,     \* a replay or a repair under way
  report,   \* the last report of a replay
  budget,
  history   \* what the properties speak about

vars == <<backend, mode, dir, node, put, mined, zips, copy, restore, tool,
          report, budget, history>>

NoDir == [blocks |-> << >>]
None == -1      \* a missing meta, and state or history that is of no block
Genesis == [id |-> 0, height |-> 0, prev |-> None, pre |-> None, sound |-> TRUE]
Latest(d) == Last(d.blocks)
Spend(kind) == budget[kind] > 0 /\ budget' = [budget EXCEPT ![kind] = @ - 1]

(***************************************************************************)
(* What the checks look at.                                                *)
(***************************************************************************)
\* validateBlockStructure over the blocks in order of height: heights without a
\* gap, each block the successor of the one before, headers that hash.
Structure(blocks) ==
  \A i \in DOMAIN blocks :
    /\ blocks[i].height = i - 1
    /\ blocks[i].sound
    /\ blocks[i].prev = IF i = 1 THEN None ELSE blocks[i - 1].id

\* Mutant of AuditOk: the state root of the ledger is not compared.
AuditWithoutRoot(blocks, tip, core) ==
  /\ Structure(blocks)
  /\ blocks # << >> => tip = Last(blocks).id

\* runFullInvariantAudit: also the latest block against meta and the state root.
AuditOk(blocks, tip, core) ==
  /\ Structure(blocks)
  /\ blocks # << >> => /\ tip = Last(blocks).id
                       /\ core = Last(blocks).id

\* applyExternalBlock from an empty ledger on: the state before each block is the
\* state after the one before.
Applies(blocks) ==
  /\ Structure(blocks)
  /\ \A i \in DOMAIN blocks : i > 1 => blocks[i].pre = blocks[i - 1].id

\* verifyGenesis: the stored block of height 0 starts a chain.
HasGenesis(blocks) ==
  blocks # << >> /\ blocks[1].height = 0 /\ blocks[1].prev = None

\* compareTipState: the ledger with its history, meta, and the latest block.
TipMatches(d) ==
  /\ d.core = Latest(d).id
  /\ d.hist = Latest(d).id
  /\ d.tip = Latest(d).id

(***************************************************************************)
(* The node.                                                               *)
(***************************************************************************)
Down == [up |-> FALSE, tip |-> None, core |-> None, hist |-> None,
         paused |-> FALSE]

Whole == [block |-> << >>, left |-> {}, after |-> Down]   \* nothing is being written

Init ==
  /\ \E s \in Situations :
       backend = s.backend /\ mode = s.mode /\ budget = s.budget
  /\ dir = NoDir /\ node = Down /\ put = Whole /\ mined = 0
  /\ zips = {} /\ copy = NoDir
  /\ restore = [step |-> "idle", stage |-> NoDir, force |-> FALSE]
  /\ tool = [step |-> "idle", snap |-> NoDir, to |-> 0]
  /\ report = [kind |-> "none", ok |-> FALSE, snap |-> NoDir]
  /\ history = [started |-> FALSE, left |-> {}, failedLate |-> FALSE,
                repaired |-> "no"]

Tools == <<zips, copy, restore, tool, report>>

\* saveMeta: what the given meta has replaces what is stored.
WithMeta(d, tip) == [d EXCEPT !.tip = tip]

\* saveLedger: the whole ledger replaces the stored one.
WithLedger(d, core, hist) == [d EXCEPT !.core = core, !.hist = hist]

\* putBlock of the SQLite storage: block, meta and ledger in one transaction.
PutSqlite(d, block, after) ==
  /\ dir' = WithLedger(WithMeta([d EXCEPT !.blocks = Append(@, block)], block.id),
                       block.id, after.hist)
  /\ put' = Whole
  /\ node' = after

\* putBlock of the JSON storage appends the block to its file; the meta and the
\* ledger are saved after it.
PutJson(d, block, before, after) ==
  /\ dir' = [d EXCEPT !.blocks = Append(@, block)]
  /\ put' = [block |-> <<block>>, left |-> {"meta", "ledger"}, after |-> after]
  /\ node' = before

\* What the node has in memory before and after putBlock: the producer computes
\* its block in the ledger and the meta it has, an observer in copies of them.
Put(d, block, before, after) ==
  \/ backend = "sqlite" /\ PutSqlite(d, block, after)
  \/ backend = "json" /\ PutJson(d, block, before, after)

\* saveMeta of the JSON storage.
PutMeta ==
  /\ "meta" \in put.left
  /\ dir' = WithMeta(dir, put.block[1].id)
  /\ put' = [put EXCEPT !.left = {"ledger"}]
  /\ UNCHANGED <<backend, mode, node, mined, Tools, budget, history>>

\* saveLedger of the JSON storage, the last of the three.
PutLedger ==
  /\ put.left = {"ledger"}
  /\ dir' = WithLedger(dir, put.block[1].id, put.after.hist)
  /\ node' = put.after
  /\ put' = Whole
  /\ UNCHANGED <<backend, mode, mined, Tools, budget, history>>

\* A node whose directory has no blocks starts a chain from the genesis block.
\* Its ledger is empty, like the state the genesis block declares.
StartFresh ==
  /\ ~node.up /\ dir = NoDir /\ restore.step = "idle"
  /\ LET new == [up |-> TRUE, tip |-> 0, core |-> 0, hist |-> 0, paused |-> FALSE]
     IN  Put([blocks |-> << >>, tip |-> None, core |-> 0, hist |-> 0], Genesis,
             new, new)
  /\ history' = [history EXCEPT !.started = TRUE]
  /\ UNCHANGED <<backend, mode, mined, Tools, budget>>

\* An empty meta is repaired from the latest block.
LoadedTip(d) == IF d.tip = None THEN Latest(d).id ELSE d.tip

\* A node that finds blocks loads meta, ledger and blocks.  What the full audit
\* finds pauses the mining and does not stop the node.
Start ==
  /\ ~node.up /\ dir # NoDir /\ restore.step = "idle"
  /\ LET tip == LoadedTip(dir)
     IN  /\ dir' = WithMeta(dir, tip)
         /\ node' = [up |-> TRUE, tip |-> tip, core |-> dir.core,
                     hist |-> dir.hist,
                     paused |-> ~AuditOk(dir.blocks, tip, dir.core)]
  /\ UNCHANGED <<backend, mode, put, mined, Tools, budget, history>>

\* The process ends, at any moment: also because putBlock threw in the timer of
\* the miner and nobody caught it.
Crash ==
  /\ node.up /\ Spend("crash")
  /\ node' = Down
  /\ put' = Whole
  /\ UNCHANGED <<backend, mode, dir, mined, Tools, history>>

\* Mutant of HistAfter: a block does not add to the history.
HistWithout(id) == node.hist

\* recordBalanceHistory: a history that is not that of the ledger stays wrong.
HistAfter(id) == IF node.hist = node.core THEN id ELSE None

\* The memory of a node once the block is in it.
With(id) == [node EXCEPT !.tip = id, !.core = id, !.hist = HistAfter(id)]

\* mineNextBlock: the block follows the latest stored one and is computed in the
\* ledger in memory.  The fast checks accept what is built this way.
Mine ==
  /\ node.up /\ ~node.paused /\ mode = "producer" /\ put = Whole
  /\ mined < MaxBlock
  /\ LET id == mined + 1
         block == [id |-> id, height |-> Latest(dir).height + 1,
                   prev |-> Latest(dir).id, pre |-> node.core, sound |-> TRUE]
     IN  /\ Put(dir, block, With(id), With(id))
         /\ mined' = id
  /\ UNCHANGED <<backend, mode, Tools, budget, history>>

\* The height of the block an observer last stored, by its meta.
NodeHeight == node.tip

\* The block an observer asks the producer for.
Asked ==
  [id |-> NodeHeight + 1, height |-> NodeHeight + 1, prev |-> NodeHeight,
   pre |-> NodeHeight, sound |-> TRUE]

\* The producer's next block extends the meta and the ledger of an observer.
Offered ==
  /\ node.up /\ mode = "observer" /\ put = Whole /\ NodeHeight < MaxBlock
  /\ Asked.pre = node.core

\* runFastBlockInvariant: a block is the successor of the latest stored one.
Follows(block, latest) ==
  block.prev = latest.id /\ block.height = latest.height + 1

\* applyExternalBlock: an observer stores the block by the fast checks, which
\* call it healthy, and then takes over the copies of ledger and meta.  The full
\* audit that follows sets the health of the node.
Apply ==
  /\ Offered /\ Follows(Asked, Latest(dir))
  /\ LET id == Asked.id
         ok == AuditOk(Append(dir.blocks, Asked), id, id)
     IN  Put(dir, Asked, [node EXCEPT !.paused = FALSE],
             [With(id) EXCEPT !.paused = ~ok])
  /\ UNCHANGED <<backend, mode, mined, Tools, budget, history>>

\* The fast checks refuse a block that is not the successor of the latest stored
\* one: the node is unhealthy from then on.
Refuse ==
  /\ Offered /\ ~Follows(Asked, Latest(dir))
  /\ node' = [node EXCEPT !.paused = TRUE]
  /\ UNCHANGED <<backend, mode, dir, put, mined, Tools, budget, history>>

\* applyExternalBlock catches what putBlock throws and goes on with the memory it
\* has.  Of the block SQLite keeps nothing, the JSON storage what it has written.
PutThrows ==
  /\ mode = "observer" /\ Spend("crash")
  /\ \/ /\ Offered /\ Follows(Asked, Latest(dir))
        /\ node' = [node EXCEPT !.paused = FALSE]
        /\ UNCHANGED put
     \/ /\ put # Whole /\ put.block[1].height > 0
        /\ put' = Whole
        /\ UNCHANGED node
  /\ UNCHANGED <<backend, mode, dir, mined, Tools, history>>

(***************************************************************************)
(* Something else damages the files of a node that is down: a failing disk,*)
(* a hand that edits them, an older version that kept no history.          *)
(***************************************************************************)
Damage ==
  /\ ~node.up /\ dir # NoDir /\ restore.step = "idle" /\ Spend("damage")
  /\ \/ dir' = [dir EXCEPT !.hist = None]
     \/ dir' = [dir EXCEPT !.core = None]
     \/ \E i \in DOMAIN dir.blocks :
          \/ dir' = [dir EXCEPT !.blocks[i].sound = FALSE]
          \/ /\ Len(dir.blocks) > 1
             /\ dir' = [dir EXCEPT !.blocks = RemoveAt(@, i)]
  /\ history' = [history EXCEPT !.repaired = "no"]
  /\ UNCHANGED <<backend, mode, node, put, mined, Tools>>

(***************************************************************************)
(* Backup and restore.                                                     *)
(***************************************************************************)
Core == <<backend, mode, node, put, mined>>

\* createBackup: SQLite's online backup gives one state of the database, whatever
\* the node writes meanwhile.  Nothing audits it.
BackupSnapshot ==
  /\ backend = "sqlite" /\ dir # NoDir /\ copy = NoDir
  /\ restore.step = "idle" /\ Spend("backup")
  /\ copy' = dir
  /\ UNCHANGED <<Core, dir, zips, restore, tool, report, history>>

\* writeZip and the metadata of the files in it.
Archive(content, complete) == [content |-> content, complete |-> complete]

\* readZip and verifyBackupArchive: the checksums of the files and their list.
Verifies(zip) == zip.complete

\* The archive is written and verified, or the process ends while it writes and
\* leaves a part of it behind.
BackupWrite ==
  /\ copy # NoDir
  /\ \E complete \in BOOLEAN :
       zips' = zips \union {Archive(copy, complete)}
  /\ copy' = NoDir
  /\ UNCHANGED <<Core, dir, restore, tool, report, budget, history>>

\* restoreBackup refuses an archive whose checksums fail, and a target with data
\* unless it is forced; it unpacks into a stage beside the target.
RestoreStage ==
  /\ restore.step = "idle" /\ ~node.up /\ copy = NoDir /\ tool.step = "idle"
  /\ Spend("restore")
  /\ \E zip \in zips, force \in BOOLEAN :
       /\ Verifies(zip)
       /\ dir = NoDir \/ force
       /\ restore' = [step |-> "staged", stage |-> zip.content, force |-> force]
  /\ UNCHANGED <<Core, dir, zips, copy, tool, report, history>>

\* verifyRestoredData: the full audit of the stage, removed when it fails.
RestoreVerify ==
  /\ restore.step = "staged"
  /\ LET stage == restore.stage
     IN  restore' = IF AuditOk(stage.blocks, stage.tip, stage.core)
                    THEN [restore EXCEPT !.step = "verified"]
                    ELSE [restore EXCEPT !.step = "idle", !.stage = NoDir]
  /\ UNCHANGED <<Core, dir, zips, copy, tool, report, budget, history>>

\* Mutant of RestoreRemove: the target is removed before the stage is verified.
RestoreRemoveEarly ==
  /\ restore.step \in {"staged", "verified"} /\ restore.force /\ dir # NoDir
  /\ dir' = NoDir
  /\ restore' = [restore EXCEPT !.step = IF @ = "verified" THEN "removed" ELSE @]
  /\ UNCHANGED <<Core, zips, copy, tool, report, budget, history>>

\* A forced restore removes the target.
RestoreRemove ==
  /\ restore.step = "verified" /\ restore.force
  /\ dir' = NoDir
  /\ restore' = [restore EXCEPT !.step = "removed"]
  /\ UNCHANGED <<Core, zips, copy, tool, report, budget, history>>

\* The stage takes the place of the target.
RestoreRename ==
  /\ \/ restore.step = "removed"
     \/ restore.step = "verified" /\ ~restore.force
  /\ dir' = restore.stage
  /\ restore' = [restore EXCEPT !.step = "idle", !.stage = NoDir]
  /\ history' = [history EXCEPT !.repaired = "no"]
  /\ UNCHANGED <<Core, zips, copy, tool, report, budget>>

\* The removal of the target or the rename fails, and the stage is removed.
RestoreThrows ==
  /\ restore.step \in {"verified", "removed"} /\ Spend("crash")
  /\ restore' = [restore EXCEPT !.step = "idle", !.stage = NoDir]
  /\ \/ restore.step = "verified" /\ restore.force /\ dir' \in {dir, NoDir}
     \/ restore.step = "verified" /\ ~restore.force /\ dir' = dir
     \/ restore.step = "removed" /\ dir' = dir
  /\ history' = [history EXCEPT !.failedLate = @ \/ dir' = NoDir]
  /\ UNCHANGED <<Core, zips, copy, tool, report>>

\* The process ends: the stage is left where it is.
RestoreCrash ==
  /\ restore.step # "idle" /\ Spend("crash")
  /\ restore' = [restore EXCEPT !.step = "idle", !.stage = NoDir]
  /\ history' = [history EXCEPT !.left =
                   IF restore.step = "staged" THEN @
                   ELSE @ \union {restore.stage}]
  /\ UNCHANGED <<Core, dir, zips, copy, tool, report>>

(***************************************************************************)
(* Replay and repair: both read one pinned snapshot and apply its blocks   *)
(* to a directory of their own.                                            *)
(***************************************************************************)
\* readPinnedSnapshot, up to a height of the stored chain or to its tip.
Pin(kind) ==
  /\ backend = "sqlite" /\ dir # NoDir /\ tool.step = "idle"
  /\ restore.step = "idle" /\ Spend("tool")
  /\ \E to \in {dir.blocks[i].height : i \in DOMAIN dir.blocks} :
       /\ kind # "full" => to = Latest(dir).height
       /\ tool' = [step |-> kind, snap |-> dir, to |-> to]
  /\ history' = IF kind # "repair" THEN history
                ELSE [history EXCEPT !.repaired = "no"]
  /\ UNCHANGED <<Core, dir, zips, copy, restore, report>>

\* The rows of readPinnedSnapshot: the blocks in order of height, up to the one
\* of the height asked for.
UpTo(blocks, height) ==
  SubSeq(blocks, 1, CHOOSE i \in DOMAIN blocks : blocks[i].height = height)

\* runReplay: the blocks up to the height asked for apply from the genesis block
\* on; at the tip the whole stored state is compared too.
ReplayFull ==
  /\ tool.step = "full"
  /\ LET snap == tool.snap
         upTo == UpTo(snap.blocks, tool.to)
         tip == tool.to = Latest(snap).height
         ok == HasGenesis(upTo) /\ Applies(upTo) /\ (tip => TipMatches(snap))
     IN  report' = [kind |-> IF tip THEN "full" ELSE "partial", ok |-> ok,
                    snap |-> [snap EXCEPT !.blocks = upTo]]
  /\ tool' = [tool EXCEPT !.step = "idle", !.snap = NoDir]
  /\ UNCHANGED <<Core, dir, zips, copy, restore, budget, history>>

\* verifyTipOnly: meta and the state root against the latest block.
ReplayTip ==
  /\ tool.step = "tip"
  /\ report' = [kind |-> "tip", snap |-> tool.snap,
                ok |-> /\ HasGenesis(tool.snap.blocks)
                       /\ tool.snap.tip = Latest(tool.snap).id
                       /\ tool.snap.core = Latest(tool.snap).id]
  /\ tool' = [tool EXCEPT !.step = "idle", !.snap = NoDir]
  /\ UNCHANGED <<Core, dir, zips, copy, restore, budget, history>>

\* rebuildBalanceHistory with --apply: a chain that applies and whose balances
\* are those stored has its history rewritten, as of the snapshot.
Repair ==
  /\ tool.step = "repair"
  /\ LET snap == tool.snap
         ok == Applies(snap.blocks) /\ snap.core = Latest(snap).id
     IN  /\ dir' = IF ok THEN [dir EXCEPT !.hist = Latest(snap).id] ELSE dir
         /\ history' = IF ~ok THEN history
                       ELSE [history EXCEPT !.repaired =
                               IF node.up \/ dir.core # snap.core
                               THEN "beside a node" ELSE "alone"]
  /\ tool' = [tool EXCEPT !.step = "idle", !.snap = NoDir]
  /\ UNCHANGED <<Core, zips, copy, restore, report, budget>>

Next ==
  \/ StartFresh \/ Start \/ Crash \/ Mine \/ Apply \/ Refuse \/ PutThrows
  \/ PutMeta \/ PutLedger
  \/ Damage \/ BackupSnapshot \/ BackupWrite
  \/ RestoreStage \/ RestoreVerify \/ RestoreRemove \/ RestoreRename
  \/ RestoreThrows \/ RestoreCrash
  \/ \E kind \in {"full", "tip", "repair"} : Pin(kind)
  \/ ReplayFull \/ ReplayTip \/ Repair

Spec == Init /\ [][Next]_vars

----------------------------------------------------------------------------
\* The parts of the state fit: a node that runs has a directory, a write is only
\* unfinished in the JSON storage, and tools work on what they pinned.
StorageTypeOK ==
  /\ node.up => dir # NoDir
  /\ put # Whole => node.up /\ backend = "json"
  /\ restore.step # "idle" => restore.stage # NoDir /\ ~node.up
  /\ tool.step # "idle" => tool.snap # NoDir
  /\ \A zip \in zips : zip.content # NoDir

\* A node that may go on with another block: a producer that may mine, an observer
\* that would store the next block of its producer.
MayBuild ==
  /\ node.up /\ put = Whole
  /\ \/ mode = "producer" /\ ~node.paused
     \/ Offered /\ Follows(Asked, Latest(dir))

\* A node goes on only from a state that is whole: whatever a crash or a write that
\* failed left half written, no stored block was computed from another state than
\* that of the block before it, and what a node that may go on has in memory is the
\* state of its latest stored block, and stored.  An observer that takes itself for
\* healthy may only lag: a failed write has kept one block it does not have in
\* memory, and it stores no other.
NothingIsBuiltOnTorn ==
  /\ \A i \in DOMAIN dir.blocks :
       i > 1 => dir.blocks[i].pre = dir.blocks[i].prev
  /\ MayBuild =>
       /\ node.tip = Latest(dir).id /\ node.core = Latest(dir).id
       /\ dir.tip = node.tip /\ dir.core = node.core
  /\ node.up /\ ~node.paused /\ put = Whole =>
       /\ node.core = node.tip
       /\ \/ node.tip = Latest(dir).id
          \/ mode = "observer" /\ node.tip = Latest(dir).prev

\* A directory that held a chain is only gone while a restore replaces it, or when
\* the removal or the rename failed; after a crash its verified stage is left.
NothingIsLost ==
  history.started /\ dir = NoDir =>
    restore.step = "removed" \/ history.left # {} \/ history.failedLate

\* A report of a full replay succeeds exactly for a directory whose blocks, state,
\* history and meta are those of the chain, though the node went on meanwhile.
ReportsAreTrue ==
  /\ report.kind = "full" =>
       (report.ok <=> /\ Applies(report.snap.blocks)
                      /\ {report.snap.tip, report.snap.core, report.snap.hist}
                           = {Latest(report.snap).id})
  /\ report.kind = "partial" /\ report.ok =>
       \A i \in DOMAIN report.snap.blocks : report.snap.blocks[i].sound

\* A history repaired while no node ran is exact and stays so.
RepairHolds ==
  history.repaired = "alone" /\ put = Whole =>
    /\ dir # NoDir => dir.hist = dir.core
    /\ node.up => node.hist = node.core

\* The tools work on what they pinned, a full report is exact, and a repaired
\* history stays exact, though the node goes on beside them (replay.js,
\* balanceHistoryRepair.js).
ToolsAreTrue ==
  /\ StorageTypeOK
  /\ ReportsAreTrue
  /\ RepairHolds
=============================================================================
