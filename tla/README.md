# A TLA+ model of the Sparge node

Sparge is a small chain with one official producer. The producer admits signed
transactions over HTTP, seals a block at a fixed interval, and stores it.
Observers poll the producer, verify every block by executing it again, keep
their own copy, and report with heartbeats. Around the node are a wallet page
in the browser, an identity service that links wallets to Discord users, a
desktop application that runs an observer, operator's tools, and, in the same
repository, an inventory application that has nothing to do with the chain.

This directory holds TLA+ modules translated from the source, TLC
configurations that check them on small instances, and TLAPS proofs of the
properties that matter most for every value of the constants. `PROJECT.json`
lists components, runs, mutants, hazards, theorems, and for each definition the
source lines it models.

## 1. The system

| Part | Where | State it keeps | Operations |
|---|---|---|---|
| Transaction execution | `server/lib/blockchain.js` `applyUserTxs` | ledger (balances, nonces, participants), `genesisFreeUsed`, the loop's caches | one iteration per transaction: skip, abandon after the debit, apply one of four types |
| Block producer | `blockchain.js` `mineNextBlock`, `miner.js`, `invariants.js` | ledger and meta in memory, the safety pause, copies for a rollback | select, execute, mint, check, store, drop from the mempool; audits |
| Admission | `routes/rpc.js` `POST /tx` | none of its own | tests against the confirmed ledger and the mempool, then `addTx` |
| Mempool | `mempool.js` | pending transactions, order, counters | add, expire, list, pending spend, remove |
| Issuance and rewards | `blockchain.js` `mintAndDistribute`, `payoutPools`, `participantRewards.js` | supply, mint accumulator, two pools, balance history | mint and split per block, payouts every 14 days, the list of a block's credits |
| Observer verification | `blockchain.js` `applyExternalBlock` | the observer's own ledger and meta | execute on a copy, compare, store, adopt, audit |
| Observer synchronization | `sync.js`, `routes/blocks.js` | `inFlight`, `syncStatus` | tick, fetch, apply a batch, report |
| Heartbeats, network status | `observerHeartbeatClient.js`, `observerRegistry.js`, `networkStatus.js` | `inFlight`; a row per observer at the producer | send, time out, register, list, forget |
| Storage | `server/storage/*` | blocks, meta, ledger, histories | `putBlock` (one SQLite transaction; three files in the JSON back end), load, start with audit |
| Backup, restore, replay, repair | `backup.js`, `replay.js`, `balanceHistoryRepair.js` | archive, staging directory, a pinned snapshot | snapshot, verify, stage, swap; replay and compare; rebuild the history |
| HTTP limits | `httpSecurity.js`, `requestSize.js` | buckets per limiter, slots in flight | admit or refuse a request, give slots back |
| Community identity | `server/community/*` | challenges, links, role table, `running` | link, unlink, synchronize roles with Discord |
| Community sessions and page | `routes/community.js`, `sessions.js`, `discordOAuth.js`, `public/app.js` | sessions in memory, the cookie, what each page shows | sign in, rotate, challenge, sign, verify, unlink |
| Browser wallet | `public/app.js`, `wallet-store.js`, `wallet-signing.js` | entries of the local storage, a page's list, panel, transfer | create, import, select, remove, refresh, sign, send, poll |
| Desktop application | `electron/main.js`, `updateManager.js`, `launcher.js` | child processes, timers, pollers, page, update status | start, set up, restart, reset, quit; check, download, install |
| Logs | `logger.js`, `launcher.js` | numbered and stamped files | write, rotate, prune |
| Inventory application | `src/server.ts`, `src/store.ts` | one JSON document in memory and in a file | items, orders, receipts, recipes, production; load and write |

How they interact. Everything of a node runs in one Node.js process: admission,
`mineNextBlock` and `applyExternalBlock` are synchronous, so they interleave
with one another only as wholes. What interleaves inside them is the end of the
process. The mempool, sessions, limits and (with JSON storage) the observers'
rows live in memory only. Producer and observer share nothing but HTTP, and so
do the pages and their server; requests and answers are lost, cut, late, or
arrive after a restart of either side. The desktop shell knows its child only
by a process handle, a line of its output and what answers on a port. The
operator's tools open the data directory of a node that may be running.

What is hard. (1) The same loop executes transactions at the producer, over
*selected* transactions, and at the observer, over the *applied* ones; it
debits before it tests, and computes balances from a cache. (2) Admission
decides from state that has changed when the transaction executes, and nonces
must survive expiry, rejected blocks, restarts and resubmission. (3) The
observer's batch can fail anywhere, and its request can end in ways the code
does not listen for. (4) A producer restored from a backup has another future
than the one its observers hold. (5) What is minted is split, accrued, carried
over and paid out with a rounding at each place, and averages come from a
history that is pruned as it grows. (6) Every limit is tested on counters kept
beside the thing they count. (7) Role synchronization, sessions, the wallet
page and the desktop shell all wait and then go on from what they read before.
(8) Files are written, renamed and removed one after the other, with a crash or
an error possible between any two. `PROJECT.json` lists each hazard at its line
with the properties aimed at it.

What makes each part correct:

- execution: no units appear, a registration keeps its sponsor, bond and height;
- producer: nothing is confirmed twice, memory equals storage between blocks,
  a selected transaction is confirmed, everything pending stays affordable;
- verification: an observer accepts what the producer sealed, and agrees with
  it on everything, also on what the state root leaves out;
- synchronization: the observer's chain only grows, by whole sealed blocks that
  follow one another; the statuses shown are true; every block arrives in the end;
- the table of observers comes to show those that go on sending, as they want to
  be shown;
- issuance: every minted unit is on a balance, in a bond or in a pool, no
  emission is lost to rounding, averages are those of the whole history, and
  what a block lists is what the wallets gain;
- mempool: counters and order are what the map says, limits hold of the
  transactions themselves, nothing but age makes room, first come stays first;
- storage and tools: no block is built on a state half written, no chain is
  lost without its verified copy, reports are exact, a repair holds;
- limits: a slot is held exactly as long as its request is worked on, and no
  window's time lets twice the limit through;
- community: a wallet has one owner, who had it sign; the role table agrees
  with Discord and roles settle; the server acts for the user a page showed;
- wallet page: no key is lost or comes back, one transfer at a time, the panel
  settles on the selected wallet;
- desktop: no backend is left that nobody can stop, what serves is shown, one
  step of an update at a time;
- logs: a failure costs no more than the oldest archive;
- inventory: posted stock is that of receipts, a product was paid for in full, no
  order that moved on is emptied, what was answered is in the file.

## 2. Modules

| Module | Models | Used by |
|---|---|---|
| `TxExecution` | the loop of `applyUserTxs`; one step is one iteration | `Producer` (EXTENDS), `BlockReplay` (a second INSTANCE on the observer's variables) |
| `Producer` | admission, expiry, selection, blocks, checks, pause, restart | `MCProducer`, `BlockReplay` |
| `BlockReplay` | `applyExternalBlock` beside a running producer | `MCBlockReplay` |
| `ObserverSync` | polling, batches, heartbeats, restored producer | `MCObserverSync` |
| `ChainCopy` | the abstract specification of synchronization | `ObserverSync` (INSTANCE, refinement) |
| `Issuance` | one block of `mintAndDistribute`: emission, split, maturity, pools, payouts, history, listing | run directly |
| `Mempool` | the pool of `mempool.js` with its order and counters | `MCMempool` |
| `ChainStorage` | both storage back ends, start and audits, backup, restore, replay, repair | `NodeFiles` |
| `LogFiles` | the logger's numbered files and the launcher's stamped ones | `NodeFiles` |
| `NodeFiles` | a node with its data directory and its log | `MCNodeFiles` |
| `HttpLimits` | rate limiters and concurrency slots | `ObserverTable` |
| `ObserverTable` | heartbeats through the limits to rows, list and status | `ProducerService` |
| `CommunityPage` | pages, cookie, sessions, sign-in, challenges, links | `ProducerService` |
| `ProducerService` | limits, table and sessions in one process that restarts | `MCProducerService` |
| `CommunityIdentity` | linking, unlinking, the role table, calls to Discord | `MCCommunity` |
| `BrowserWallet` | wallets in local storage, the panel, a transfer | `MCBrowserWallet` |
| `Desktop` | shell, child processes, ports, launcher, update manager | `MCDesktop`, `MCDesktopInstall` |
| `Inventory` | the handlers of `server.ts` that change the document | `MCInventory` |
| `DataStore` | `store.ts`: load, shared copy, write queue, file | `MCInventory` |
| `Sums` | lemmas on sums over finite sets, and induction over finite sets | `ProducerProofs`, `AccountingProofs`, `FileProofs` |
| `TxExecutionProofs` | theorems on one iteration, and the iteration as a function | `ProducerProofs` |
| `ProducerProofs` | theorems on `Producer` and `BlockReplay` | |
| `ObserverSyncProofs` | theorems on `ObserverSync` and `Desktop` | |
| `CommunityIdentityProofs` | theorems on `CommunityIdentity` and `BrowserWallet` | |
| `AccountingProofs` | theorems on `Issuance` and `Mempool` | |
| `ProducerServiceProofs` | theorems on the limits, the sessions and the pages | |
| `FileProofs` | theorems on `NodeFiles` (`ChainStorage`, `LogFiles`), `DataStore` and `Inventory` | |
| `MC*` | the small instances | |

### Correspondence to the code

**TxExecution.** `ledger` is the ledger object, `todo` the rest of the `for`
loop's list, `cachedBalance` the map of that name, `applied` the result. Each
`continue` of the loop is one of two actions: before the debit (`SkipTx`) or
after it (`AbandonTx`); the four ways to reach `applied.push` are
`ApplyTransfer`, `ApplyRegister`, `ApplyUnregister`, `ApplyHeartbeat`. A
transaction is its canonical fields, because its id is their hash; the signer
is the field `from`, as admission requires.

**Producer.** `mempool` is the set of pending transactions with the bond that
admission computed; `chain` and `stored` are what SQLite holds; `ledger` and
`genesisFreeUsed` what the process holds. `pc` is the phase of
`mineNextBlock`: `StartBlock`, `SelectTx` / `EndSelection`
(`selectMempoolTxs`; `SortMode` says whether by fee or first in, first out, and
then any order of the accounts can come, as times of arrival are left out),
`ExecuteBlock` (the loop), `SealBlock`
(mint, fast checks, `putBlock`, `removeByIds`) or `RejectBlock` (restore and
pause). The phases are separate steps only so that the process may end between
them (`Restart`): the guards `pc = "idle"` keep every other action out, as the
synchronous code does. `Admissible` is the sequence of tests of `POST /tx`.

**BlockReplay.** The observer's loop is `TxExecution` again, on its own
variables, over the transactions of the block only. `BlockMatches` is the
comparison of the applied count and of the state root after the rewards.
`ProducerStep` is a step of `Producer`; it records in `lossy` which blocks hold
less than was selected for them.

**ObserverSync.** `pc` is where `tick` is; `"hung"` is a fetch that nothing
will settle. A batch is applied block by block, each stored at once
(`ApplyBlock`), with `RefuseBlock`, `ApplyFails` and `FinishBatch` as the ways
out of the loop. `beats` is the set of heartbeats under way, which arrive in
any order or never. Blocks carry height, hash and previous hash only.

**Issuance.** One step is one block: at most one user transaction, then
`MintAndDistribute` and the payout that is due. `meta` holds the supply, the
accumulator `mintAcc` and the two pools; `ledger` the balances, their history
and the participants. `Recorded` and `Pruned` are `recordBalanceHistory`;
`MintTxs` is `buildMintTxs`. `past` and `owed` are history variables. The node
pool has an address of its own and the holder pool is the treasury's, where its
accruals are on no balance until they are paid out.

**Mempool.** `mempool` is one record of what the closure of `createMempool` holds.
`Cleaned` is `cleanupExpired`, a `Sweep` for each turn of its loop, which every
operation except `RemoveByIds` runs first; `Verdict` is the sequence of tests of
`addTx` on the pool as cleaned.
`Producer.mempool` is the set of transactions in it, with expiry at any time.

**ChainStorage, LogFiles, NodeFiles.** `dir` is the data directory: blocks
(each with the block whose state it was computed from), the tip in meta, `core`
and `hist`, the blocks whose balances and histories are stored. `put` is what a
`putBlock` of the JSON back end has left to write (one file a step; one step
with SQLite) and what the node takes over when it is done. A write that fails
ends a producer (`Crash`); an observer catches it and goes on with the memory it
had (`PutThrows`), and refuses the block it asks for next, which is the one it
has half stored (`Refuse`). `Start` audits what it loads, `Crash` may come
anywhere. A backup, a
replay and a repair pin a snapshot and go on while the node seals blocks; a
restore is staging, audit, `rmSync` and `rename`, each of which may fail or be
the last before a crash. In `LogFiles` a rotation is the list of removals and
renames of the code in their order (`Calls`), cut or failing at any of them.
A damaged part is one that does not audit.

**HttpLimits, ObserverTable.** `buckets`, `swept` and `slots` are the maps and
`lastSweep` of `httpSecurity.js`, times being ticks left or gone by. A request
runs through its chain of limiters as far as the first that refuses it
(`Through`); `Release` is the callback on `finish` and on `close`. An observer
sends a heartbeat a tick, waits for one at a time, and gives up on a timeout;
the heartbeat may arrive later. An observer whose answer was cut within its body
is in `stuck`: it waits until it is restarted (`CutAnswer`). Ticks are intervals
of the heartbeat timer; its jitter is left out. `rows` is the table of the
registry, `face` the alias and country an owner chose to show, `Retained` the
deletion of old rows.

**CommunityPage.** `tab[t]` is what a page of `app.js` holds: `communityMe`,
the selected wallet, the challenge with the wallet it is labelled for, the
dialog. `call[c]` is a request with the cookie and CSRF token it left with;
`Handle` is what the server does up to its first await, `DiscordAnswers` what
follows: all but a synchronization rotate the session *the request came with*.
A failure of Discord makes a difference to the sign-in only (`DiscordFails`):
`syncIdentity` and `unlink` catch it, and the page is told that roles are delayed.
`Shown` is what a page makes of an answer. Random tokens, states and challenge
ids are numbers of what they belong to.

**ProducerService** puts the limits, the table and the sessions into the
process that holds them: `Restart` empties the maps of all.

**CommunityIdentity.** `rows`, `challenge` and `saved` are the three tables of
`identityRepository.js`, `running` the set of that name, `member` the roles on
Discord's side. `job[p]` is where the function `p` runs is suspended: at which
key of the loop of `syncIdentity` or `removeManagedRoles`, and whether the call
is at Discord, answered or failed. What runs between two awaits is one action.

**BrowserWallet.** `disk` is the local storage with its three entries (`list`,
`selected` and the `legacy` single wallet), `page[t]` what a page read and
shows. `Persist` is every change of the registry: the three entries are written
one after the other (`Stored`), a write may throw, and then the page goes on with
the registry it has in memory, or the page may end in between. A signed action is
a slot that goes from the click through two awaits, the dialog and the sending to
the poll for its block; the selected wallet is read again after each await, and
the end of a transfer or of the creation of a wallet enables all buttons. A
creation goes on when its dialog is cancelled, beside whatever the user does
next.

**Desktop.** `proc[p]` is a child from `spawn` to its end, `starts` and
`shell.relaunch` the timers that will launch one, `pollers` with `asked`, `waits`
and `marks` the ways the shell learns an address, `upd` the status of
`updateManager.js`. The first launch is made at once (`Begin`), and each may throw
before it spawns (`Launches`). What the
launcher does (port choice, setup page, start of the node) is the child's
`Child` steps. `history` is read by properties only.

**Inventory, DataStore.** One action per handler that changes the document.
Quantities and factors are integers of either sign, as `parseQty` lets them in;
fractions and infinite numbers are left out. A
handler that throws half way keeps what it changed in memory (`cut`, `Posted`
up to the line that throws), and the next update writes it. In `DataStore`, the
document is the set of the requests whose changes it holds; a request loads,
changes, queues its write and is answered; a write truncates before it fills.

### The abstract specification

`ChainCopy` says what synchronization promises: the sealed blocks form a tree,
and the observer's chain is a path in it that grows at its tip by one block at
a time. `ObserverSync` implements it under the mapping that keeps only hashes
(`ImplementsChainCopy`, checked by TLC and proved).

## 3. Runs

| Run | Instance | Shows |
|---|---|---|
| `payments` | two clients, a treasury, an observer; transfers with two fees, two blocks of at most two transactions, merged by fee, one expiry, one fault | nothing is confirmed twice, pending transactions stay funded, selected ones are confirmed; the observer accepts every block and the ledgers agree |
| `participation` | the same with registrations, unregistrations, heartbeats, one fee, accounts merged in any order, as first in, first out may have it, and a pool larger than a block; a genesis-free window of two blocks | no inflation in spite of abandoned transactions and stale caches, registrations are kept; the observer rejects only blocks an abandoned transaction is missing from, and agrees otherwise, nonces and flag included |
| `sync` | three blocks, batches of two, two faults or one restore, two heartbeats under way | the statuses are true; refinement of `ChainCopy`; the observer catches up unless a response was cut |
| `mempool` | six transactions of two senders, of sizes 1, 3 and 5; limits of three transactions, four bytes, two per sender; a ttl of 1, two removals per cleanup; a clock from 0 to 3 that moves both ways | counters and order never drift; limits; who makes room for whom |
| `issuance` | six blocks, two wallets, a payout every three blocks, a year of two | nothing minted is lost or doubled; emission, averages and listing are exact |
| `storage` | eight situations: back end, mode, and how many crashes, damages, backups, restores and tools; six of a log: kind, number of files, lines, faults, a clock set back | what crashes, failures and tools beside a running node may do to a directory; what failing rotations may do to a log |
| `service` | one address, three observers, a window of one interval in which it may send two heartbeats, two requests at a time, two pages, two users, two wallets, three sessions | limits and slots are exact; the table settles; sessions and links are right |
| `community` | two users and one wallet, or two challenges of one user with one failure, restart and change of the chain; one request and one sweep under way | one owner per wallet, table and Discord agree; roles settle; an unlinked user loses the roles it was known to have |
| `wallet` | one page opened again and again, three wallets, four storages to begin with, of which one was left by a write that was cut, two clicks under way, four actions, two losses (requests, keys, writes that throw or are cut) | keys, one transfer at a time, the panel settles |
| `desktop` | three children, four ports of which other programs hold some, thirteen situations of clicks, quit, failures and checks | no backend forgotten but by a stop while a launch was pending, no update step beside another, what serves is shown |
| `install` | three children, two restarts, one update; expected to be violated | the installer of an update may be started beside a backend nobody told to stop |
| `inventory` | an empty document, one with an order in two units, and one that has a recipe in both as well; seven budgets over the kinds of handlers; quantities −1, 0 and 1, factors 0 and 2; or the store with four requests, two crashes, one failed write | records, stock and production by their amounts, with postings that fail half way; what was answered is in the file |

All runs pass but `install`, which shows a disagreement of the code with
`docs/observer.md`. Elsewhere, where the code does something its documents do
not say, the model does it too, and the property says what holds nevertheless
(section 6).

**Why the bounds are enough.** Two clients and two blocks give every pair of
transactions the orders that matter: same block, next block, expired between,
resubmitted after. Two transactions per block are needed for the cached balance
to become stale; a treasury that is neither client keeps the fee from hiding a
lost credit. `ActiveWindowBlocks = 1` makes a participant inactive within two
blocks. Batches of two with three blocks give a batch that fails after its first
block, and one restore gives two blocks at one height. The year of two blocks
brings the rate from its highest value to near its lowest and makes the emission
a fraction of a unit; six blocks hold two payouts, a history pruned between
them, and a participant that becomes New, Growing and Mature. In `Mempool` each
limit is reached while the others are not, and more transactions can expire than
a cleanup removes. Three blocks in the storage give a backup of one height, a
node at the next, and a block to build on what was restored. A log of three
files has an oldest, a middle and a latest archive. Three children are one to
end, one to retry, and one that should not be. Three observers with room for two
in each window give one that is refused, and with a stop or a cut answer two
that have room. Two pages are enough to change a session under each other, and a
third session can be made in between. One request and one sweep are enough for
two jobs of one user to meet.

Where one instance with every bound open would be too large, the initial states
have the bounds of one concern unspent and the others spent (`Situations`,
`Beginnings`, `Budgets`, `MCInit`): a run then looks at several concerns one at
a time or in the pairs that interact. The bounds are the constants named `Max…`,
`Amounts`, `Requests`, `Sweeps`, `Pending`, `Slots`, `Procs`, `Overlap`,
`Situations`, `LogSituations`, `Storages`, `Beginnings`, `Seeds` and `Budgets`;
the theorems hold for all values of those in their modules. Deadlock checking is
off where a run stops because a bound is reached; only `sync`, whose polling
goes on for ever, checks it.

**Fairness.** In `ObserverSync`, `setInterval` fires `tick` again and again, and
the loop over a batch runs to its end once begun: weak fairness. Of requests
sent again and again some reach the producer, and some of its answers come
back: strong fairness of `Respond` and of receiving an answer. In
`CommunityIdentity` every call to Discord is answered or fails (`discordBot.js`
sets no timeout of its own, but Node's `fetch` gives up on an answer that does
not come), what awaits it goes on, and the timer of `syncAll` fires. In
`ProducerService` the timer of the heartbeats fires, what is sent arrives
unless it is lost, and the clock goes on. In `BrowserWallet` the refresh timer
fires, on a page that got as far as to begin it, and its requests are answered,
with a bounded number of losses. In
`Desktop` timers fire, a live child gets on with starting, and requests to it
are answered or time out. All but the first are weak. Nothing is assumed of
users, of new blocks, of restarts; failures are bounded.

**Mutants.** Every property of every run is paired in `PROJECT.json` with a
changed definition that stands for a plausible mistake in the code (a rollback
that forgets the ledger, a balance cached before the debit, a release that does
not look at its flag, archives moved in the wrong order). The changed
definitions stand before the ones they replace, marked `Mutant of`; nothing
else uses them.

## 4. Proofs

All constants are arbitrary, subject to the named assumptions of each module:
finitely many accounts or requests, natural numbers, and absent values
different from present ones.

*Execution.* `ExecuteStep` says what any iteration of the loop does, whatever
transaction it meets: types are kept, a cached balance stays at or below the
ledger's, nonces only grow, and what is applied has the nonce its signer is
at. `CacheNeverAhead` is needed for it: the debit subtracts from the cached
balance, and only because no cached balance is ahead of the ledger do credits
never come from nowhere. `StepIsFunction` gives the six actions as one function
of the loop's state, the height and the transaction (`Works`, `After`).

*Producer.* `NoDoubleConfirm` is not inductive: nothing in it forbids a pending
or selected transaction with an old nonce. `ProducerInv` adds
`ReplayProtection` (confirmed nonces are behind the stored ones; the block in
progress uses each nonce between the stored one and the ledger's once),
`BlockInProgress` (the copies taken at the block's start are what storage
holds), `MemoryIsStored`, the gap and uniqueness of pending nonces, and
`CacheNeverAhead`. There is one lemma per action; `Invariance` combines them.

*Inflation.* `NothingIsInflated` needs the bound of the stored ledger as well,
to which a rejected block and a restart go back (`SupplyInv`). Each way an
iteration changes the ledger is an exact account of units (`DebitCirculates`,
`CreditCirculates`, `RecordCirculates`), with one inequality: the debit writes
a balance computed from the cache, which `CacheNeverAhead` keeps at or below
the ledger's. `Sums` has what this needs of sums over finite sets. It states
induction over sets, as an operator cannot be a parameter here.

*Payments.* `PendingFunded` and `SelectedAreConfirmed` are about what admission
promises: it adds up the pending spend once, and no later step adds it up again.
They hold where only transfers and heartbeats are used (`OnlyPayments`): then
every transaction that can be paid works, while a registration may be abandoned
after its debit (section 6). `PaymentInv` says that the pending nonces of an
account form one run (`Gapless`) that never starts behind the stored nonce, and
that a run that starts at the stored nonce is covered by the stored balance
(`StoredCovers`). A run whose beginning has expired is not executable, and what
is admitted continues it, until all of it has expired or a restart empties the
mempool. Within a block, the selection is in turn
(`InTurn`: each transaction has the nonce its signer will have by then), and
what the signer can spend, in its cached balance or in the ledger, covers the
rest of its run (`CacheCovers`). `HeadIsFunded` follows from the two:
the next transaction is neither skipped nor abandoned, so the whole selection is
applied (`SelectedGo`), whatever order the fees or the times of arrival give it.

*Replay.* `ObserversAgree` is about two loops over different lists: the producer
runs over what it selected, the observer over what was applied. A *run* of a
block is the sequence of states of a loop in which every transaction works
(`Run`). As an iteration is a function, a producer that applies all it selected
makes such a run, and the observer, from the same state, can only go through the
same: `RejectKeeps` shows a block outside `lossy` to match. Of a block that
lacks a transaction no run is known; there `Follows` says that the nonces count
the applied transactions and the flag tells whether one was free, and the state
root decides about the rest, so that what matches is again the stored state
(`SameState`). `ReplayIInv` carries both, with the states stored with each
block, which neither node keeps (`Stored`).

*Synchronization.* `SyncInv` adds to the types that hashes identify sealed
blocks (`SealedInv`), that the producer's chain, its backup's and the
observer's are linked sequences of sealed blocks (`ChainsInv`), and that every
heartbeat, wherever it is, names a block the observer has (`BeatsInv`).
`CommonPrefix` then shows that two linked sequences with the same hash at one
height are the same up to it, from which the truth of both statuses follows.
`Refinement` maps every step to a step of `ChainCopy` or a stutter.
A mismatch is real (`MismatchesAreReal`), as a heartbeat, however late, names a
block the observer has: at the producer's height it would be the tip of a copy
that is a beginning of the producer's chain.

*Issuance.* `EmissionIsExact` needs no strengthening but types, the sum of the
mints and the range of the accumulator (`EmissionInv`); the arithmetic is in
lemmas on quotients and remainders, as the rate is multiplied by a supply that
is itself a variable. `SplitConserves` holds of `Split` for all amounts: the
four rounded shares are never more than the whole. `NothingIsLostInMint` needs
`MintInv`: `debitBalance` stops at zero, so a payout is exact only because the
pool's address has what the pool owes (`Backed`). That is so when nobody sends
from it (`PoolsAreSilent`); section 6 says what happens otherwise.
`BlocksListWhatTheyPay` follows each of the six lists to the credit it stands
for (`ListedAdds`, `SealAdds`); it needs that no reward and no remainder is
negative, and no silence of the pools, as these are excepted. For
`AveragesAreExact` the invariant says that every address's entries tell the
balances it had (`Tells`, `Recounts`): from each entry to the next, and before
the first one none unless an entry is older than the window. Recording an entry,
replacing the one of the same height, dropping older ones (`PrunedTells`) and a
window that moves on keep that (`Retells`), and then the weighted sum over the
entries is the sum over the blocks of the window (`AverageIsMean`, by
`PrefixSums` and `RunOfTerms` of `Sums`).

*Community identity.* `OneOwner` follows from `OwnerInv`: the test for another
owner and the write are one transaction. `RunningIsExact` needs `JobsInv`, that
a job in a process is well formed and no two syncs have the same user;
`ReplaceJob` says once how replacing the job of one process changes the set of
running users. `SavedIsReal` needs what a job *knows* of its user's roles
(`Knows`): the key whose call was carried out is as desired, and the keys after
it are still as they were when the member was asked. That stays true as two
jobs on one user make the user `mixed` (`RolesInv`).

*Sessions and page.* `ActsForShownUser` is about tokens: `PagesInv` says that a
session's token is its own, that a session keeps its user as long as it lives
and new ones are numbers no page has seen (`Sound`, `Grows`), and hence that
the token a page or a request carries belongs to the user shown with it or to no
session (`Right`). A request that passes `requireCsrf` has the token of the
session it names, so the user it shows is that session's. `OnlySignedIsLinked`
needs only that a request to link carries what its dialog signed (`SignedInv`).
Both hold however often sessions rotate, expire or are lost.

*HTTP limits.* `SlotsInv` is `SlotsAreExact` with types. `ReleaseKeepsSlots` is
the one lemma for both ways a request ends: the flag decides whether it is still
among those that hold a slot, so the count goes down exactly when the set does.
`RatesAreBounded` follows from `RateInv`: a bucket that is going counts at least
what passed since it was opened, and what passed before it is left of an
earlier bucket, less than the limit in number.

*Files.* `ChainInv` says of every directory there is (the node's, the archives',
the stage, a tool's snapshot) that its blocks are each computed from the state
its predecessor left (`Chains`), of a write under way that what is left of it is
what the node takes over afterwards (`WriteInv`), of a node that calls itself
healthy that it has its latest stored block in memory, and all of it on disk, or
is an observer that lags by that block (`MemoryInv`), and who may be at work
together (`Turns`). Such an observer asks for the block it has half stored, which
is not the successor of its latest one, so that it stores nothing: a block is
built on a whole state only.

*Desktop.* `NoneForgotten` is about the children that run, were not told to stop
and are not the one the shell refers to (`Others`). Each launch may make one, of
the child the shell refers to then. `CountInv` therefore counts what there is
together with what may come: these children, the timers that will launch one
(`Pending`) and the child the shell refers to if it runs (`Running`) are at most
one (`Slack`) more than the stops that came while a launch was pending, and none
more once the shell quits. `UpdateInv` says that the status of
the update tells what is under way: the flags that the code tests before a
check and a download never disagree with it.

*Browser wallet.* `OneTransferAtATime` needs `TransferInv`: a transfer under way
is alone and bars the page (`Bars`): its buttons and that of the creation of a
wallet stay disabled, and no creation is under way, whose end would enable them;
the other clicks enable only their own. A creation begun within another is
excepted, and `Alone` says that otherwise there is one at most. That new keys are
in no page's list (`KnownInv`) keeps the lists without repetition. `KeysAreKept`
needs that the open page has what is stored, up to the wallets in doubt, and that
the legacy entry names only a wallet that is kept or in doubt (`KeysInv`); a write
that goes through settles the doubt. It is proved, as it is checked, for one page,
the rest for any number. `WithoutLemma` says what `splice` leaves.

*Mempool.* `MempoolInv` is `PoolIsSound` with one fact more: no position of the
order lists what another one does, so that taking out the first occurrence takes
out the only one (`RemoveFirstLemma`). A removal and an admission keep it
(`RemoveLemma`, `InsertLemma`): the tests at zero in `removeInternal` never
matter. The two loops are folds over a sequence. `RemovingChain` and
`SweepingChain` turn each into a chain of states, one for each id, over which one
can go by induction, with what the loop knows after `k` turns (`Swept`): what it
removed had expired, it counted what it removed, and below its cap nothing
expired is left among the ids it has passed. The fairness of the calls
(`MempoolIsFair`) follows: an id that is admitted again was removed before, so it
had expired, and its time differs from the one it had.

*Inventory's store.* `StoreInv` ties the queue to the requests (`QueueInv`), the
write under way to what memory held when it began (`WriteInv`), and what was
answered to what is in the file (`SavedInv`).

*Inventory.* A document is `Sound` when its types, its SKUs, its orders and its
stock are right. The invariant (`InventoryInv`) says so of memory and of the
file, since a process that ends goes back to the file, and that no batch is in
the file alone. Soundness needs more than the properties: ids of orders and
receipts never repeat (`NextIdLemma`: a new id is above those of the list,
though an id may come back after a deletion), no receipt belongs to a concept,
which alone may lose lines (`ConceptLemma`), and a movement always refers to a
receipt or batch that is there, so that one with an id used before begins
without stock (`NoStock`). A receipt posts at most one movement for each line of
its order (`PostedLemma`), and a free group SKU exists because the numbers tried
are more than the items (`GroupSkuLemma`). `ProductIsPaidFor` adds that the
movements of a production get distinct ids (`RankGrows`), that the one of a line
has the amount the line takes for what is made, in base units and of either
sign, and that only a production adds a batch (`InventoryGoesOn`). The one
assumption is that the process starts from a sound document (`SeedAssumption`,
which TLC evaluates for the seeds of the run): the file is the empty one that
`store.ts` creates or one that this program wrote.

*Log.* `LatestLinesAreKept` rests on the lines being one run over all files
(`Holds`, `LinesJoin`). For the logger, the state after the first `n` calls of a
rotation is known in closed form (`RotationShifts`): the files from some number
on have moved up, and that number is free. `Reaching` is what a rotation keeps,
whichever call cuts it: the archives up to any number hold the lines of as many
full files, less one for each cut, unless they reach back to the first line. For
the launcher, `Filed` says that archives written later hold later lines, so those
that a pruning keeps hold later lines than the one that goes (`PruningKeeps`), and
a line that is gone is before `maxFiles - 1` full archives (`RunsTakeRoom`).

*Only model-checked:* all liveness, which this prover does not do.

## 5. Not modelled

Signatures, hashing and the form of messages are taken as valid. `Producer`
keeps of the issuance only what reaches accounts able to sign, with constants
for the minted amounts; `Issuance` executes at most one transaction a block,
without a fee. The base fee, the release of a scheduled genesis, the miner's own
on/off flag and the mempool's statistics are left out. So are `POST
/community/logout`, which no page calls; what the signed actions of the wallet
page are called and cost (each is one of `Kinds` and takes the same steps); in
the inventory application the users, their sign-in, the two logs and the views.
The read-only routes and pages change no state but by a call to a part above.
Configuration, validation of input and the wording of logs have no state of
their own. Archive formats, the pages of a database file and what
`electron-updater` does inside are external.

## 6. Where code and documents part

The model does what the code does. Where that is not what a document or a
comment says, or is surprising, the properties name the case they except.

- A registration or unregistration whose test fails after its debit changes the
  state root and is missing from the block, so observers stop at it
  (`blockchain.js:1574`; `docs/protocol.md:7` has observers verify the blocks).
  It also takes bond and fee that no record then holds. `OnlyLossyRejected`, in
  `ReplayInv`, shows that there is no other cause of a rejection.
- A bond returned in a block (`blockchain.js:1602`; `docs/protocol.md:62`) is
  lost when its sponsor has a later transaction in that block, which writes a
  balance cached before. `CacheNeverAhead` shows that units are only ever lost
  this way, never made.
- A response cut within its body stops the observer's polling (`sync.js:42`;
  `docs/internal/launch-checklist-alpha.md:20` wants it to catch up).
  `CatchesUpUnlessHung` shows that nothing else stops it.
- A role sync in flight adds a role after the cleanup of an unlink has looked
  (`roleSync.js:82`; `docs/community-identity.md:75`): the table says it is gone
  and no sweep removes it. `UnlinkRemovesSavedRoles` excepts lost answers and
  two jobs at a time, and nothing else.
- Two pages that each add a wallet write their own list: the second overwrites
  the first's (`wallet-store.js:52`; `docs/wallet.md:12` says another wallet does
  not replace one). `KeysAreKept` holds of one page at a time.
- The registry writes its three entries one after the other and changes its
  memory first (`wallet-store.js:47`). A page that ends before the legacy entry,
  or a write that throws, can bring the last wallet back that was removed, or
  lose one just added; a wallet whose removal could not be stored stays on the
  screen and is "not found" from then on. `KeysAreKept` holds of all other
  wallets, and of these from the next write that goes through.
- The enter key in the dialog asks nothing of its disabled button
  (`app.js:3641`): a second creation begins, and the end of the first enables
  the buttons of a transfer begun beside the second. `OneTransferAtATime`
  excepts pages where that happened.
- The sponsor limit is tested at a registration only (`blockchain.js:1580`): an
  inactive participant that signs again is active again, and its sponsor is
  over its limit. No property states the limit.
- After a partly failed batch a heartbeat pairs the height of before the batch
  with the hash of after it (`observerHeartbeatClient.js:51`). `BeatsInv` says
  what does hold: the height is never above the block the hash names.
- A pool's address is an ordinary one: if its owner spends from it, the payout
  debits what is left and pays out the whole pool (`blockchain.js:1314`).
  `MintIsConserved` is checked with `Signers` that own no pool's address of its
  own. Accruals to a pool at the treasury's address are listed although no
  balance moves: `ListedIsCredited` excepts the addresses of pools, treasury and
  proposer, so the listing of a pool at the treasury's address is not checked.
- A crash between the files of the JSON back end leaves a state that does not
  audit: the next start fails its audit, a producer pauses mining, an observer
  rejects the next block for ever. `NothingIsBuiltOnTorn` holds.
- A write that fails there without ending the process is caught by an observer
  (`jsonStorage.js:136`, `blockchain.js:767`): its memory stays a block behind its
  files, and it reports itself healthy until it asks for that block again, refuses
  it, and is unhealthy from then on, also after a restart, as the ledger is not
  that of the latest block. `NothingIsBuiltOnTorn` allows that lag and shows that
  nothing is built on it.
- A restore that ends between the removal and the rename leaves only the stage,
  and the next start begins a fresh chain; a removal or rename that fails
  deletes the stage too. `NothingIsLost` names both. A backup does not audit
  what it archives; the restore does.
- A repair beside a running producer is undone by its next block, which writes
  the history from memory; `RepairHolds` is about a repair made while no node
  ran.
- A rotation whose last rename fails costs the oldest archive at every line
  that follows; with many failures all are lost. A clock set back makes the
  launcher prune newer archives.
- A `/me` with the old cookie that is handled after a rotation makes a session
  of its own, whose cookie overwrites the rotated one: the page goes on showing
  a user it can do nothing for. `ActsForShownUser` holds nevertheless.
- A challenge is labelled with the wallet selected when it arrives
  (`app.js:3995`), and may be gone when the dialog is confirmed, which then
  throws (`app.js:4024`). Discord failing at the end of a verification leaves
  the link made and the page content; only the answer says that roles are delayed
  (`roleSync.js:68`).
- An observer that stops before its next heartbeat after its owner hid it stays
  listed, as offline, until the retention ends. `ListSettles` is about those
  that send. An observer whose heartbeat is answered by an answer cut within its
  body never sends another (`observerHeartbeatClient.js:18`), as it waits for the
  end of that answer; it goes offline until it is restarted. Observers behind one
  address share its limit, in a window as long as their interval (60 seconds
  both, ten heartbeats): beyond ten, the same ones may be refused in every window
  and stay offline. `ListSettles` excepts both.
- Two launches pending together (two restarts within half a second, or a stop or
  quit while one is pending) leave a second backend that nobody stops
  (`main.js:402`). `NoneForgotten` counts them: one at most for each stop that
  came while a launch was pending. A child that was told to stop may also run
  beside the next one until it acts on the signal. `docs/observer.md:51` says that
  the shell stops the backend and only then launches the installer; the run
  `install` shows one that was left running. An installation that fails leaves the
  backend stopped. `ServedIsShown` excepts a hasty or lingering launch, another
  observer on the port, and a wait that gave up for another child or for one
  whose setup or port has moved since.
- A check by hand or by timer replaces the status of a finished download
  (`updateManager.js:96`).
- A production that fails half way has consumed material and made nothing, and a
  confirmation has posted some lines (`server.ts:1206`); what is in memory is
  written by the next update. A recipe that gives out nothing in its base unit
  (no output, or a factor of zero) consumes nothing for what is made
  (`server.ts:1546`), and a negative quantity turns every movement round
  (`server.ts:65`): `ProductIsPaidFor` excepts the first and holds of the
  second. A line added to a receipt by hand is "posted on confirm" by the
  comment at `server.ts:1330`; the confirmation (`server.ts:1150`) builds lines
  and stock from the order only, so the added line never gets stock.
- A failed write leaves the store's queue rejected: no later update is written
  or answered with success until the process restarts.

## 7. What is left

1. The base fee, the release of a scheduled genesis and the miner's flag.
2. `Mempool` refines the pending set of `Producer`; the storage refines an
   atomic `putBlock` with SQLite.
3. The users and the sign-in of the inventory application.
