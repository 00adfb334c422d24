---------------------------- MODULE BrowserWallet ----------------------------
(***************************************************************************)
(* The wallet page (public/app.js with public/wallet-store.js and          *)
(* public/wallet-signing.js): the wallets kept in the storage of the       *)
(* browser, the selected one with its balance on the screen, and the path  *)
(* of a transaction from its button to the network.                        *)
(*                                                                         *)
(* A page reads the storage once, when it opens, and writes its own list   *)
(* over it at every change, in three entries one after the other: a write  *)
(* may throw, and then the page goes on with what it meant to store, or    *)
(* the page may end in between.  Between the click on a button and the     *)
(* dialog that asks for the signature the page waits for two answers, and  *)
(* reads the selected wallet again after each; nothing stops the user from *)
(* changing it meanwhile.                                                  *)
(*                                                                         *)
(* Amounts, fees, names and keys are left out: a wallet is its address.    *)
(* The producer is what its nonces and its admission are to the page; both *)
(* are modelled in module Producer.                                        *)
(***************************************************************************)
EXTENDS Naturals, Sequences, FiniteSets, SequencesExt

CONSTANTS
  Tabs,        \* the pages of the browser
  Addresses,   \* the wallets that may be created or imported, by address
  Kinds,       \* the buttons that sign something, "transfer" among them
  Slots,       \* bound: the clicks a page works on at a time
  Storages,    \* what earlier versions and sessions left in the storage
  MaxActions,  \* bound: what the user does with wallets and buttons
  MaxLosses,   \* bound: requests, keys and writes that fail, pages that end in a write
  None         \* no wallet

ASSUME WalletAssumption ==
  /\ None \notin Addresses
  /\ "transfer" \in Kinds /\ Kinds \cap {"create", "clear", "selector"} = {}
  /\ Storages \subseteq [list : Seq(Addresses), selected : Addresses \cup {None},
                         legacy : Addresses \cup {None}]
  /\ \A d \in Storages : IsInjective(d.list)
  /\ MaxActions \in Nat /\ MaxLosses \in Nat

VARIABLES
  disk,     \* localStorage: the list, the selected wallet, the legacy wallet
  page,     \* the state of each page
  flow,     \* the clicks each page works on
  pool,     \* the transactions the producer accepted
  added,    \* history: the wallets the user has, created or imported
  removed,  \* history: the wallets the user removed last, not added since
  unsure,   \* history: the wallets that were added or removed in a write that
            \* failed or was cut, until a write goes through
  actions, losses

walletVars == <<disk, page, flow, pool, added, removed, unsure, actions, losses>>
history == <<added, removed, unsure>>

(* What disableWalletActions disables; two import buttons, renaming and     *)
(* deleting are never disabled.                                            *)
Switches == Kinds \cup {"create", "clear", "selector"}

(* A page: what it read and shows; the buttons that are off; the creations  *)
(* that make keys and those that wait for the refresh after it; whether    *)
(* their dialog is open, its confirm button held, and whether one began     *)
(* during another; the refresh timer; the panel and what was asked for it.  *)
Closed == [open |-> FALSE, list |-> <<>>, selected |-> None, wallet |-> None,
           off |-> {}, making |-> 0, filling |-> 0, dialog |-> FALSE, held |-> FALSE,
           twice |-> FALSE, timer |-> FALSE, panel |-> None, asked |-> {}]

Idle == [at |-> "idle", kind |-> "transfer", from |-> None, nonce |-> 0]

(* GET /nonce: the transactions of w that are confirmed or in the mempool. *)
NonceOf(w) == Cardinality({tx \in pool : tx.from = w})

Act ==
  /\ actions < MaxActions
  /\ actions' = actions + 1

Lose ==
  /\ losses < MaxLosses
  /\ losses' = losses + 1

-----------------------------------------------------------------------------
(* The registry of wallet-store.js.                                        *)

\* Mutant of Stored: the legacy wallet stays when the last one is removed.
StoredKeepingLegacy(list, selected, n) ==
  [list     |-> IF n < 1 THEN disk.list ELSE list,
   selected |-> IF n < 2 THEN disk.selected ELSE selected,
   legacy   |-> IF n < 3 \/ selected = None THEN disk.legacy ELSE selected]

(* persist, after n of its writes: the list of this page replaces what is   *)
(* stored, then the selected wallet, then the legacy wallet.               *)
Stored(list, selected, n) ==
  [list     |-> IF n < 1 THEN disk.list ELSE list,
   selected |-> IF n < 2 THEN disk.selected ELSE selected,
   legacy   |-> IF n < 3 THEN disk.legacy ELSE selected]

(* setItem may throw; an entry that is removed is never refused.           *)
MayThrow(selected, n) == n = 0 \/ selected # None

FirstOf(list) == IF list = <<>> THEN None ELSE list[1]

(* initialize: the stored list, or the wallet of an earlier version.       *)
Read ==
  LET legacy == IF disk.legacy = None THEN <<>> ELSE <<disk.legacy>>
      list   == IF disk.list = <<>> THEN legacy ELSE disk.list
  IN [list |-> list,
      selected |-> IF disk.selected \in ToSet(list) THEN disk.selected ELSE FirstOf(list)]

IndexOf(p, w) == CHOOSE n \in DOMAIN p.list : p.list[n] = w

Without(p, w) == RemoveAt(p.list, IndexOf(p, w))

(* The wallet selected after one was removed: the next one, or the last.   *)
SelectedAfter(p, w) ==
  LET i    == IndexOf(p, w)
      rest == Without(p, w)
  IN IF p.selected # w THEN p.selected
     ELSE IF rest = <<>> THEN None
     ELSE rest[IF i <= Len(rest) THEN i ELSE Len(rest)]

Touched(w) == {w} \ {None}

(* The history when w, or none, was added or removed: a write that goes    *)
(* through settles what was in doubt, by the list it stored.               *)
Settles(list, w) ==
  LET doubtful == unsure \cup Touched(w)
  IN /\ added' = (added \ Touched(w)) \cup (doubtful \cap ToSet(list))
     /\ removed' = (removed \ Touched(w)) \cup (doubtful \ ToSet(list))
     /\ unsure' = {}

StaysUnsure(w) ==
  /\ added' = added \ Touched(w)
  /\ removed' = removed \ Touched(w)
  /\ unsure' = unsure \cup Touched(w)

-----------------------------------------------------------------------------
(* Pages.                                                                  *)

PageEnds(t) ==
  /\ page' = [page EXCEPT ![t] = Closed]
  /\ flow' = [flow EXCEPT ![t] = [s \in Slots |-> Idle]]

(* Page t adds or removes wallet w, or none, and stores its list: it is     *)
(* done; or a write throws and the page is left failed; or it ends.        *)
Persist(t, w, done, failed) ==
  \/ /\ disk' = Stored(done.list, done.selected, 3)
     /\ Settles(done.list, w)
     /\ page' = [page EXCEPT ![t] = done]
     /\ UNCHANGED <<flow, losses>>
  \/ \E n \in 0 .. 2 :
       /\ disk' = Stored(done.list, done.selected, n)
       /\ StaysUnsure(w)
       /\ Lose
       /\ \/ /\ MayThrow(done.selected, n)
             /\ page' = [page EXCEPT ![t] = failed]
             /\ UNCHANGED flow
          \/ PageEnds(t)

Asking(t) == \E s \in Slots : flow[t][s].at \in {"dialog", "sending"}

(* The user can reach the page: no dialog lies over it.                    *)
Free(t) == page[t].open /\ ~page[t].dialog /\ ~Asking(t)

(* The wallet page begins: when the storage throws, the rest of the script *)
(* is not run, and the page has neither a wallet nor the refresh timer.    *)
Open(t) ==
  LET failed == [Closed EXCEPT !.open = TRUE, !.list = Read.list, !.selected = Read.selected]
      done   == [failed EXCEPT !.wallet = Read.selected, !.timer = TRUE,
                               !.asked = {Read.selected} \ {None}]
  IN /\ ~page[t].open /\ Act
     /\ Persist(t, None, done, failed)
     /\ UNCHANGED pool

Close(t) ==
  /\ page[t].open /\ Act
  /\ PageEnds(t)
  /\ UNCHANGED <<disk, pool, history, losses>>

(* The page when its registry changed and could not be stored.             *)
Ahead(t, list, selected) == [page[t] EXCEPT !.list = list, !.selected = selected]

(* The page shows wallet w: renderWallet enables the selector and clears   *)
(* the panel without a wallet, and the balance of the wallet is asked for. *)
Shown(t, list, selected, w) ==
  [Ahead(t, list, selected) EXCEPT !.wallet = w, !.off = @ \ {"selector"},
                                   !.panel = IF w = None THEN None ELSE @,
                                   !.asked = @ \cup ({w} \ {None})]

(* disableWalletActions(false): without a wallet the selector stays.       *)
Enabled(t) == IF page[t].wallet = None THEN page[t].off \cap {"selector"} ELSE {}

Disabled(t) ==
  IF page[t].wallet = None THEN page[t].off \cup (Switches \ {"selector"}) ELSE Switches

Creating(t) == page[t].making + page[t].filling > 0

(* createWallet begins: every button is off while the keys are made, and   *)
(* the dialog stays open with its button held.                             *)
Begins(t) ==
  /\ page' = [page EXCEPT ![t].making = @ + 1, ![t].off = Disabled(t), ![t].dialog = TRUE,
                          ![t].held = TRUE, ![t].twice = @ \/ Creating(t)]
  /\ UNCHANGED <<disk, flow, pool, history, losses>>

BeginCreate(t) ==
  /\ Free(t) /\ "create" \notin page[t].off /\ Act
  /\ Begins(t)

(* The enter key in the dialog, which asks nothing of the held button.     *)
ConfirmAgain(t) ==
  /\ page[t].dialog /\ ~Asking(t) /\ Act
  /\ Begins(t)

(* Cancel or escape: the creation goes on without its dialog.              *)
CancelCreate(t) ==
  /\ page[t].dialog /\ ~Asking(t)
  /\ page' = [page EXCEPT ![t].dialog = FALSE]
  /\ UNCHANGED <<disk, flow, pool, history, actions, losses>>

(* The keys are made: the wallet is stored and shown.  When it cannot be   *)
(* stored the creation ends, and all buttons are enabled.                  *)
EndCreate(t, w) ==
  LET list == Append(page[t].list, w)
  IN /\ page[t].making > 0
     /\ w \notin added \cup removed \cup unsure
     /\ Persist(t, w, [Shown(t, list, w, w) EXCEPT !.making = @ - 1, !.filling = @ + 1],
                      [Ahead(t, list, w) EXCEPT !.making = @ - 1, !.off = Enabled(t),
                                                !.held = FALSE])
     /\ UNCHANGED <<pool, actions>>

(* The page was refreshed, or could not be and the dialog stays: all       *)
(* buttons are enabled, those that other clicks had disabled for           *)
(* themselves too.                                                         *)
CreateReturns(t) ==
  /\ page[t].filling > 0
  /\ \E stays \in BOOLEAN :
       /\ IF stays THEN Lose ELSE UNCHANGED losses
       /\ page' = [page EXCEPT ![t].filling = @ - 1, ![t].off = Enabled(t), ![t].held = FALSE,
                               ![t].dialog = @ /\ stays]
  /\ UNCHANGED <<disk, flow, pool, history, actions>>

(* The browser cannot make the keys: the dialog stays with the error.      *)
CreateFails(t) ==
  /\ page[t].making > 0 /\ Lose
  /\ page' = [page EXCEPT ![t].making = @ - 1, ![t].off = Enabled(t), ![t].held = FALSE]
  /\ UNCHANGED <<disk, flow, pool, history, actions>>

(* importWalletFromJson: a wallet that is in the list is refused.  The     *)
(* dialog can be confirmed with the enter key while a wallet is created.   *)
Import(t, w) ==
  LET list == Append(page[t].list, w)
  IN /\ Free(t) /\ w \notin ToSet(page[t].list) /\ Act
     /\ Persist(t, w, [Shown(t, list, w, w) EXCEPT !.held = FALSE],
                      [Ahead(t, list, w) EXCEPT !.held = FALSE])
     /\ UNCHANGED pool

(* switchWallet.                                                           *)
Select(t, w) ==
  /\ Free(t) /\ "selector" \notin page[t].off /\ w \in ToSet(page[t].list) /\ Act
  /\ Persist(t, None, Shown(t, page[t].list, w, w), Ahead(t, page[t].list, w))
  /\ UNCHANGED pool

(* A wallet that is shown but no longer in the list, because its removal    *)
(* could not be stored, is not found any more.                             *)
Found(t) == page[t].wallet \in ToSet(page[t].list)

(* rename: the name is left out, the list is stored again.                 *)
Rename(t) ==
  /\ Free(t) /\ Found(t) /\ Act
  /\ Persist(t, None, [page[t] EXCEPT !.off = @ \ {"selector"}, !.held = FALSE],
                      [page[t] EXCEPT !.held = FALSE])
  /\ UNCHANGED pool

Removed(t, w, done) ==
  Persist(t, w, done, Ahead(t, Without(page[t], w), SelectedAfter(page[t], w)))

(* The delete button, its dialog confirmed: it has no field for the enter  *)
(* key, so the button must not be held.                                    *)
Delete(t) ==
  LET w        == page[t].wallet
      selected == SelectedAfter(page[t], w)
  IN /\ Free(t) /\ Found(t) /\ ~page[t].held /\ Act
     /\ Removed(t, w, Shown(t, Without(page[t], w), selected, selected))
     /\ UNCHANGED pool

(* The clear button: the wallet is removed and none is shown, although the *)
(* registry has selected another.                                          *)
Clear(t) ==
  LET w        == page[t].wallet
      selected == SelectedAfter(page[t], w)
  IN /\ Free(t) /\ Found(t) /\ "clear" \notin page[t].off /\ Act
     /\ Removed(t, w, Shown(t, Without(page[t], w), selected, None))
     /\ UNCHANGED pool

-----------------------------------------------------------------------------
(* refreshWalletState, every six seconds and after every change.           *)

\* Mutant of AskBalance: the balance is asked for once.
AskBalanceOnce(t) ==
  /\ page[t].open /\ page[t].wallet # None /\ page[t].panel = None
  /\ page' = [page EXCEPT ![t].asked = @ \cup {page[t].wallet}]
  /\ UNCHANGED <<disk, flow, pool, history, actions, losses>>

AskBalance(t) ==
  /\ page[t].open /\ page[t].wallet # None
  /\ page' = [page EXCEPT ![t].asked = @ \cup {page[t].wallet}]
  /\ UNCHANGED <<disk, flow, pool, history, actions, losses>>

(* The timer.                                                              *)
Refresh(t) == page[t].timer /\ AskBalance(t)

(* The answer for w is shown whatever wallet is selected by now; without   *)
(* one the handler fails when the mempool has a transaction.               *)
BalanceAnswered(t, w) ==
  /\ w \in page[t].asked
  /\ \E panel \in {w} \cup (IF page[t].wallet = None THEN {page[t].panel} ELSE {}) :
       page' = [page EXCEPT ![t].asked = @ \ {w}, ![t].panel = panel]
  /\ UNCHANGED <<disk, flow, pool, history, actions, losses>>

BalanceFailed(t, w) ==
  /\ w \in page[t].asked /\ Lose
  /\ page' = [page EXCEPT ![t].asked = @ \ {w}]
  /\ UNCHANGED <<disk, flow, pool, history, actions>>

-----------------------------------------------------------------------------
(* From a button to the network.  The five handlers (handleSendTx,         *)
(* registerParticipant, sponsorParticipant, unregisterParticipant,         *)
(* sendHeartbeat) take the same steps and differ in what they disable.     *)

At(t, s, at) == flow[t][s].at = at
Moves(t, s, to) == flow' = [flow EXCEPT ![t][s].at = to]

\* Mutant of Ends: every click enables every button when it ends.
EndsEnablingAll(t, s) ==
  /\ Moves(t, s, "idle")
  /\ page' = [page EXCEPT ![t].off = {}]

(* The end of a click, however it ends: a transfer enables every button.   *)
Ends(t, s) ==
  /\ Moves(t, s, "idle")
  /\ page' = [page EXCEPT ![t].off =
                IF flow[t][s].kind = "transfer" THEN Enabled(t) ELSE @ \ {flow[t][s].kind}]

(* A transfer disables the other buttons, the others only their own.       *)
Click(t, s, k) ==
  /\ Free(t) /\ page[t].wallet # None /\ k \notin page[t].off
  /\ At(t, s, "idle") /\ Act
  /\ flow' = [flow EXCEPT ![t][s] = [Idle EXCEPT !.at = "status", !.kind = k]]
  /\ page' = [page EXCEPT ![t].off = IF k = "transfer" THEN Disabled(t) ELSE @ \cup {k}]
  /\ UNCHANGED <<disk, pool, history, losses>>

(* The form is not filled in, the fee is too low, no wallet is selected    *)
(* any more, or a request on the way fails.                                *)
Fails(t, s) ==
  /\ flow[t][s].at \in {"status", "nonce"}
  /\ Ends(t, s)
  /\ UNCHANGED <<disk, pool, history, actions, losses>>

(* The status is known: the nonce of the wallet of now is asked for.       *)
StatusAnswered(t, s) ==
  /\ At(t, s, "status") /\ page[t].wallet # None
  /\ flow' = [flow EXCEPT ![t][s].at = "nonce", ![t][s].from = page[t].wallet]
  /\ UNCHANGED <<disk, page, pool, history, actions, losses>>

(* The transaction is built for the wallet of now, with that nonce.        *)
NonceAnswered(t, s) ==
  /\ At(t, s, "nonce") /\ page[t].wallet # None
  /\ flow' = [flow EXCEPT ![t][s].at = "hash", ![t][s].nonce = NonceOf(flow[t][s].from),
                          ![t][s].from = page[t].wallet]
  /\ UNCHANGED <<disk, page, pool, history, actions, losses>>

(* signingController.request: one request at a time.                       *)
AskSignature(t, s) ==
  /\ At(t, s, "hash")
  /\ \/ ~Asking(t) /\ Moves(t, s, "dialog") /\ UNCHANGED page
     \/ Asking(t) /\ Ends(t, s)
  /\ UNCHANGED <<disk, pool, history, actions, losses>>

Confirm(t, s) ==
  /\ At(t, s, "dialog") /\ Act
  /\ Moves(t, s, "sending")
  /\ UNCHANGED <<disk, page, pool, history, losses>>

Tx(t, s) == [kind |-> flow[t][s].kind, from |-> flow[t][s].from, nonce |-> flow[t][s].nonce]

(* POST /tx: the mempool takes the transaction with the next nonce only.   *)
Accepts(tx) == tx.nonce = NonceOf(tx.from)

(* The answer to the signed transaction, which the page waits for.         *)
Accepted(t, s) ==
  /\ At(t, s, "sending") /\ Accepts(Tx(t, s))
  /\ pool' = pool \cup {Tx(t, s)}
  /\ Moves(t, s, "polling")
  /\ UNCHANGED <<disk, page, history, actions, losses>>

(* The producer refuses, for the nonce or for a balance the page does not  *)
(* know: the dialog stays with the error.                                  *)
Refused(t, s) ==
  /\ At(t, s, "sending")
  /\ Moves(t, s, "dialog")
  /\ UNCHANGED <<disk, page, pool, history, actions, losses>>

(* The request does not arrive, or its answer does not: the same dialog.   *)
SendFails(t, s) ==
  /\ At(t, s, "sending") /\ Lose
  /\ \/ Moves(t, s, "dialog") /\ UNCHANGED pool
     \/ /\ Accepts(Tx(t, s))
        /\ pool' = pool \cup {Tx(t, s)}
        /\ Moves(t, s, "dialog")
  /\ UNCHANGED <<disk, page, history, actions>>

(* The reject button or the escape key, which are off while the page sends. *)
Reject(t, s) ==
  /\ At(t, s, "dialog") /\ Act
  /\ Ends(t, s)
  /\ UNCHANGED <<disk, pool, history, losses>>

(* pollTxMined: the transaction is mined, or two minutes are over.         *)
EndPoll(t, s) ==
  /\ At(t, s, "polling")
  /\ Ends(t, s)
  /\ UNCHANGED <<disk, pool, history, actions, losses>>

-----------------------------------------------------------------------------

WalletInit ==
  /\ disk \in Storages
  /\ page = [t \in Tabs |-> Closed]
  /\ flow = [t \in Tabs |-> [s \in Slots |-> Idle]]
  /\ pool = {}
  /\ added = ToSet(Read.list)
  /\ removed = {}
  /\ unsure = {disk.legacy} \ (added \cup {None})
  /\ actions = 0 /\ losses = 0

Registry(t) ==
  \/ Open(t)
  \/ Close(t)
  \/ BeginCreate(t)
  \/ ConfirmAgain(t)
  \/ CancelCreate(t)
  \/ CreateReturns(t)
  \/ CreateFails(t)
  \/ Rename(t)
  \/ Delete(t)
  \/ Clear(t)
  \/ \E w \in Addresses : EndCreate(t, w) \/ Import(t, w) \/ Select(t, w)

Balance(t) ==
  \/ AskBalance(t)
  \/ \E w \in Addresses : BalanceAnswered(t, w) \/ BalanceFailed(t, w)

Signing(t, s) ==
  \/ \E k \in Kinds : Click(t, s, k)
  \/ Fails(t, s)
  \/ StatusAnswered(t, s)
  \/ NonceAnswered(t, s)
  \/ AskSignature(t, s)
  \/ Confirm(t, s)
  \/ Accepted(t, s)
  \/ Refused(t, s)
  \/ SendFails(t, s)
  \/ Reject(t, s)
  \/ EndPoll(t, s)

WalletNext == \E t \in Tabs : Registry(t) \/ Balance(t) \/ \E s \in Slots : Signing(t, s)

(* The refresh goes on and its requests are answered, with the bounded     *)
(* failures.                                                               *)
WalletFairness ==
  \A t \in Tabs : /\ WF_walletVars(Refresh(t))
                  /\ \A w \in Addresses : WF_walletVars(BalanceAnswered(t, w))

WalletSpec == WalletInit /\ [][WalletNext]_walletVars /\ WalletFairness

-----------------------------------------------------------------------------
(* The types of the variables; the wallet a page has selected is one of    *)
(* its list.                                                               *)
WalletTypeOK ==
  /\ disk \in [list : Seq(Addresses), selected : Addresses \cup {None},
               legacy : Addresses \cup {None}]
  /\ \A t \in Tabs :
       /\ page[t].list \in Seq(Addresses) /\ IsInjective(page[t].list)
       /\ page[t].selected \in ToSet(page[t].list) \cup {None}
       /\ {page[t].wallet, page[t].panel} \subseteq Addresses \cup {None}
       /\ page[t].off \subseteq Switches /\ page[t].asked \subseteq Addresses
       /\ {page[t].making, page[t].filling} \subseteq Nat
       /\ \A s \in Slots :
            /\ flow[t][s].at \in {"idle", "status", "nonce", "hash", "dialog", "sending",
                                 "polling"}
            /\ flow[t][s].from \in Addresses \cup {None} /\ flow[t][s].nonce \in Nat
  /\ \A tx \in pool : tx.from \in Addresses

(* The next page reads from the storage every wallet the user created or   *)
(* imported and did not remove, and no other, but for those whose own      *)
(* adding or removal failed or was cut between the three entries: with     *)
(* them it is in doubt until a write goes through.  No other key is lost,  *)
(* and none comes back from an entry an earlier write left behind          *)
(* (wallet-store.js, persist and initialize).  It holds of one page at a   *)
(* time.                                                                   *)
KeysAreKept ==
  /\ added \subseteq ToSet(Read.list)
  /\ ToSet(Read.list) \subseteq added \cup unsure

(* A page works on one transfer at a time, although other clicks and the   *)
(* creation of a wallet enable buttons when they end (app.js, handleSendTx *)
(* and disableWalletActions); unless a creation was begun during another   *)
(* with the enter key, whose end enables the buttons too early.            *)
OneTransferAtATime ==
  \A t \in Tabs, r, s \in Slots :
    r # s /\ ~page[t].twice =>
      ~(\A x \in {r, s} : flow[t][x].kind = "transfer" /\ ~At(t, x, "idle"))

(* The page keeps its types, its selected wallet is one of its list, and   *)
(* it works on one transfer at a time (app.js).                            *)
WalletIsSound ==
  /\ WalletTypeOK
  /\ OneTransferAtATime

(* The balance on the screen is at last that of the wallet shown, whatever *)
(* answers for other wallets were late (app.js, refreshWalletState), on a  *)
(* page that got as far as to begin its refresh timer.                     *)
BalanceSettles ==
  \A t \in Tabs :
    <>[](page[t].timer /\ page[t].wallet # None => page[t].panel = page[t].wallet)

=============================================================================
