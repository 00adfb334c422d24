-------------------------- MODULE CommunityIdentity --------------------------
(***************************************************************************)
(* The community identity service of the producer (server/community/): the *)
(* link between a Discord account and a wallet, and the Discord roles that *)
(* follow from it.  A link is one row of the database; the roles are kept  *)
(* on Discord's side and remembered in a second table, and every call to   *)
(* Discord is an await during which other requests and the periodic        *)
(* syncAll run.                                                            *)
(*                                                                         *)
(* removeManagedRoles is syncIdentity with no role desired, without the    *)
(* guard of the set running: both are a job of this module.                *)
(*                                                                         *)
(* The times of a row, the display name and the column eligible are left   *)
(* out: nothing here reads them.  The privacy settings are one flag.       *)
(***************************************************************************)
EXTENDS Integers, Sequences, FiniteSets

CONSTANTS
  Users,        \* the Discord users, named by the id of their row
  Wallets,      \* the wallet addresses
  Challenges,   \* the wallet challenges that are ever created
  Requests,     \* bound: the requests that can be under way at once
  Sweeps,       \* bound: the calls of syncAll that can be under way at once
  Configured,   \* the automatic keys with a role in config.discord.roles
  MaxChanges,   \* bound: changes of the chain state of the wallets
  MaxFailures,  \* bound: calls to Discord that fail or whose answer is lost
  MaxRestarts,  \* bound: crashes of the producer
  Null          \* an absent value

AutomaticKeys == <<"verifiedWallet", "participant", "matureParticipant">>

Procs == Requests \cup Sweeps

ASSUME CommunityAssumption ==
  /\ IsFiniteSet(Users) /\ Users \subseteq Nat
  /\ Configured \subseteq {AutomaticKeys[i] : i \in 1..3}
  /\ MaxChanges \in Nat /\ MaxFailures \in Nat /\ MaxRestarts \in Nat
  /\ Requests \cap Sweeps = {}
  /\ Null \notin Wallets

VARIABLES
  rows,       \* community_identities: status, wallet and public flag per user
  challenge,  \* identity_challenges: user, wallet and status, Null before
  saved,      \* identity_role_state: the roles saved as applied, per user
  member,     \* the automatic roles each user has on Discord
  onChain,    \* the roles a wallet's participation makes its owner eligible for
  running,    \* RoleSyncService.running
  job,        \* what each request or sweep is waiting for, Null when idle
  mixed,      \* the users with a lost answer or two jobs at a time (history)
  changes, failures, restarts   \* counters of the bounds

vars == <<rows, challenge, saved, member, onChain, running, job, mixed,
          changes, failures, restarts>>

stored == <<rows, challenge, saved>>
bounds == <<changes, failures, restarts>>

-----------------------------------------------------------------------------

(* A row, status none before there is one.                                 *)
Rows ==
  {row \in [status : {"none", "linked", "unlinked"}, wallet : Wallets \cup {Null},
            public : BOOLEAN] : row.status = "linked" => row.wallet \in Wallets}

Linked(u) == rows[u].status = "linked"

Unlinked(u) == rows[u].status = "unlinked"

(* Participation is active or not, and mature only when active.            *)
Eligibilities ==
  {e \in SUBSET Configured : /\ "verifiedWallet" \notin e
                             /\ "matureParticipant" \in e => "participant" \in e}

(* The roles a row as it was read makes its user eligible for.             *)
DesiredRoles(row) ==
  IF row.status = "linked"
    THEN onChain[row.wallet] \cup ({"verifiedWallet"} \cap Configured)
    ELSE {}

(* A job: the user whose roles it sets, the roles it wants, those the      *)
(* member had when asked, the key at which it waits (0 for the member      *)
(* itself), how far its call is, and the rest of the sweep it is part of.  *)
Begin(kind, user, desired, sweep, queue) ==
  [kind |-> kind, user |-> user, desired |-> desired, existing |-> {},
   at |-> 0, call |-> "asked", sweep |-> sweep, queue |-> queue]

Jobs ==
  [kind : {"sync", "cleanup"}, user : Users,
   desired : SUBSET Configured, existing : SUBSET Configured,
   at : 0..3, call : {"asked", "answered", "failed"},
   sweep : {"none", "linked", "unlinked"},
   queue : UNION {[S -> Rows] : S \in SUBSET Users}]

ASSUME NullAssumption == Null \notin Jobs

Busy(u) == \E p \in Procs : job[p] # Null /\ job[p].user = u

(* The configured keys at the positions i to j of the loop.                *)
KeysAt(i, j) == {AutomaticKeys[k] : k \in (i..j) \cap (1..3)} \cap Configured

\* Mutant of NeedsCall: roles are added and never removed.
NeedsCallToAdd(j, i) == ~(KeysAt(i, i) \cap j.desired \subseteq j.existing)

(* A call is needed for a key of which the member has what is not desired. *)
NeedsCall(j, i) == KeysAt(i, i) \cap j.desired # KeysAt(i, i) \cap j.existing

(* The next position with a call, 4 when the loop ends without one.        *)
NextCall(j) ==
  CHOOSE i \in j.at + 1 .. 4 : /\ i = 4 \/ NeedsCall(j, i)
                               /\ \A k \in j.at + 1 .. i - 1 : ~NeedsCall(j, k)

-----------------------------------------------------------------------------

First(S) == CHOOSE u \in S : \A v \in S : u <= v

After(queue, u) == [v \in {w \in DOMAIN queue : w > u} |-> queue[v]]

(* listLinked and listUnlinkedWithAppliedRoles: rows as they are now.      *)
LinkedRows == [u \in {v \in Users : Linked(v)} |-> rows[u]]

UnlinkedRows(save) ==
  [u \in {v \in Users : Unlinked(v) /\ save[v] # {}} |-> rows[u]]

\* Mutant of SweepUnlinked: the second loop is missing.
SweepUnlinkedSkipped(queue) == Null

(* The second loop of syncAll, and the first one, which skips an identity  *)
(* that is running and evaluates the row as it was listed.                 *)
SweepUnlinked(queue) ==
  IF DOMAIN queue = {} THEN Null
  ELSE LET u == First(DOMAIN queue)
       IN Begin("cleanup", u, {}, "unlinked", After(queue, u))

SweepLinked(queue, run, save) ==
  LET ready == DOMAIN queue \ run
      u     == First(ready)
  IN IF ready = {} THEN SweepUnlinked(UnlinkedRows(save))
     ELSE Begin("sync", u, DesiredRoles(queue[u]), "linked", After(queue, u))

(* What the process of a job that has ended waits for next.                *)
Following(j, run, save) ==
  CASE j.sweep = "linked"   -> SweepLinked(j.queue, run, save)
    [] j.sweep = "unlinked" -> SweepUnlinked(j.queue)
    [] OTHER                -> Null

(* The process p comes to wait for j, where run are the identities running.*)
Await(p, j, run) ==
  /\ job' = [job EXCEPT ![p] = j]
  /\ running' = IF j # Null /\ j.kind = "sync" THEN run \cup {j.user} ELSE run

(* The users that two processes work on once p waits for j.                *)
Overlapping(p, j) ==
  {u \in Users : /\ j # Null /\ j.user = u
                 /\ \E q \in Procs \ {p} : job[q] # Null /\ job[q].user = u}

-----------------------------------------------------------------------------

Init ==
  /\ rows = [u \in Users |-> [status |-> "none", wallet |-> Null, public |-> FALSE]]
  /\ challenge = [c \in Challenges |-> Null]
  /\ saved = [u \in Users |-> {}]
  /\ member = [u \in Users |-> {}]
  /\ onChain \in [Wallets -> Eligibilities]
  /\ running = {}
  /\ job = [p \in Procs |-> Null]
  /\ mixed = {}
  /\ changes = 0 /\ failures = 0 /\ restarts = 0

(* Blocks make a wallet's participation active, mature or neither.         *)
ChainChanges(w) ==
  /\ changes < MaxChanges
  /\ \E e \in Eligibilities \ {onChain[w]} : onChain' = [onChain EXCEPT ![w] = e]
  /\ changes' = changes + 1
  /\ UNCHANGED <<stored, member, running, job, mixed, failures, restarts>>

(* POST /challenge.                                                        *)
CreateChallenge(u, w, c) ==
  /\ challenge[c] = Null
  /\ challenge' = [challenge EXCEPT ![c] = [user |-> u, wallet |-> w, used |-> FALSE]]
  /\ UNCHANGED <<rows, saved, member, onChain, running, job, mixed, bounds>>

(* A challenge that expires is refused like a used one.  Its row keeps the *)
(* status pending: the update is undone by the error thrown after it.      *)
ChallengeExpires(c) ==
  /\ challenge[c] # Null /\ ~challenge[c].used
  /\ challenge' = [challenge EXCEPT ![c].used = TRUE]
  /\ UNCHANGED <<rows, saved, member, onChain, running, job, mixed, bounds>>

Start(p, j) ==
  /\ Await(p, j, running)
  /\ mixed' = mixed \cup Overlapping(p, j)

\* Mutant of OwnedByOther: the owner of the wallet is not looked up.
OwnedByNobody(u, w) == FALSE

OwnedByOther(u, w) ==
  \E v \in Users \ {u} : Linked(v) /\ rows[v].wallet = w

UnlinkedRow == [status |-> "unlinked", wallet |-> Null, public |-> FALSE]

(* The row after consumeAndLink: another wallet makes it private again.    *)
LinkedRow(u, w) ==
  [status |-> "linked", wallet |-> w,
   public |-> rows[u].public /\ rows[u].wallet = w]

(* POST /verify: the challenge is consumed and the link written in one     *)
(* transaction, then the roles are synchronised with the row just written, *)
(* unless the identity is running already.                                 *)
VerifyAndLink(p, c) ==
  LET u == challenge[c].user
      w == challenge[c].wallet
  IN /\ job[p] = Null
     /\ challenge[c] # Null /\ ~challenge[c].used
     /\ ~OwnedByOther(u, w)
     /\ rows' = [rows EXCEPT ![u] = LinkedRow(u, w)]
     /\ challenge' = [challenge EXCEPT ![c].used = TRUE]
     /\ IF u \in running
          THEN UNCHANGED <<job, running, mixed>>
          ELSE Start(p, Begin("sync", u, DesiredRoles(LinkedRow(u, w)), "none", <<>>))
     /\ UNCHANGED <<saved, member, onChain, bounds>>

(* POST /sync-roles.                                                       *)
SyncRoles(p, u) ==
  /\ job[p] = Null
  /\ Linked(u) /\ u \notin running
  /\ Start(p, Begin("sync", u, DesiredRoles(rows[u]), "none", <<>>))
  /\ UNCHANGED <<stored, member, onChain, bounds>>

(* POST /unlink: the row is unlinked and made private, then the roles are  *)
(* removed.                                                                *)
Unlink(p, u) ==
  /\ job[p] = Null
  /\ Linked(u)
  /\ rows' = [rows EXCEPT ![u] = UnlinkedRow]
  /\ Start(p, Begin("cleanup", u, {}, "none", <<>>))
  /\ UNCHANGED <<challenge, saved, member, onChain, bounds>>

(* PATCH /privacy.                                                         *)
UpdatePrivacy(u) ==
  /\ Linked(u)
  /\ rows' = [rows EXCEPT ![u].public = ~@]
  /\ UNCHANGED <<challenge, saved, member, onChain, running, job, mixed, bounds>>

(* The interval timer calls syncAll, an earlier call finished or not.      *)
SyncAll(p) ==
  LET j == SweepLinked(LinkedRows, running, saved)
  IN /\ job[p] = Null
     /\ j # Null
     /\ Start(p, j)
     /\ UNCHANGED <<stored, member, onChain, bounds>>

-----------------------------------------------------------------------------

(* Discord answers getMember, or adds or removes the role of the key.      *)
DiscordAnswers(p) ==
  /\ job[p] # Null /\ job[p].call = "asked"
  /\ LET j   == job[p]
         key == KeysAt(j.at, j.at)
     IN IF j.at = 0
          THEN /\ job' = [job EXCEPT ![p].call = "answered", ![p].existing = member[j.user]]
               /\ UNCHANGED member
          ELSE /\ job' = [job EXCEPT ![p].call = "answered"]
               /\ member' = [member EXCEPT ![j.user] = (@ \ key) \cup (key \cap j.desired)]
  /\ UNCHANGED <<stored, onChain, running, mixed, bounds>>

(* Discord refuses: a rate limit that stays, a member that is not there.   *)
DiscordRefuses(p) ==
  /\ job[p] # Null /\ job[p].call = "asked"
  /\ failures < MaxFailures
  /\ job' = [job EXCEPT ![p].call = "failed"]
  /\ failures' = failures + 1
  /\ UNCHANGED <<stored, member, onChain, running, mixed, changes, restarts>>

(* The answer to a call that Discord carried out does not arrive.          *)
AnswerIsLost(p) ==
  /\ job[p] # Null /\ job[p].call = "answered"
  /\ failures < MaxFailures
  /\ job' = [job EXCEPT ![p].call = "failed"]
  /\ mixed' = mixed \cup {job[p].user}
  /\ failures' = failures + 1
  /\ UNCHANGED <<stored, member, onChain, running, changes, restarts>>

\* Mutant of SavedAfter: what the member had is saved, a call made or not.
SavedAsFound(j, next) ==
  (saved[j.user] \ KeysAt(j.at, next - 1)) \cup (KeysAt(j.at, next - 1) \cap j.existing)

(* What is saved of the user when the loop comes to the position next: the *)
(* key whose call returned and those after it that needed none now have    *)
(* what was desired.                                                       *)
SavedAfter(j, next) ==
  (saved[j.user] \ KeysAt(j.at, next - 1)) \cup (KeysAt(j.at, next - 1) \cap j.desired)

(* The set running after a job: finally deletes it, failed or not.         *)
Ended(j) == IF j.kind = "sync" THEN running \ {j.user} ELSE running

(* The loop goes on to its next call, saving the keys on its way, or ends  *)
(* and what follows it begins.                                             *)
Continue(p) ==
  /\ job[p] # Null /\ job[p].call = "answered"
  /\ LET j    == job[p]
         next == NextCall(j)
         save == [saved EXCEPT ![j.user] = SavedAfter(j, next)]
         then == Following(j, Ended(j), save)
     IN /\ saved' = save
        /\ IF next < 4
             THEN /\ job' = [job EXCEPT ![p].at = next, ![p].call = "asked"]
                  /\ UNCHANGED <<running, mixed>>
             ELSE /\ Await(p, then, Ended(j))
                  /\ mixed' = mixed \cup Overlapping(p, then)
  /\ UNCHANGED <<rows, challenge, member, onChain, bounds>>

(* A call that failed ends its job, a sweep goes on with the next row.     *)
GiveUp(p) ==
  /\ job[p] # Null /\ job[p].call = "failed"
  /\ LET j    == job[p]
         then == Following(j, Ended(j), saved)
     IN /\ Await(p, then, Ended(j))
        /\ mixed' = mixed \cup Overlapping(p, then)
  /\ UNCHANGED <<stored, member, onChain, bounds>>

(* The producer stops, in the middle of its jobs, and starts again.        *)
Restart ==
  /\ restarts < MaxRestarts
  /\ restarts' = restarts + 1
  /\ job' = [p \in Procs |-> Null]
  /\ running' = {}
  /\ mixed' = mixed \cup {u \in Users : Busy(u)}
  /\ UNCHANGED <<stored, member, onChain, changes, failures>>

RequestNext(p) ==
  \/ \E c \in Challenges : VerifyAndLink(p, c)
  \/ \E u \in Users : SyncRoles(p, u) \/ Unlink(p, u)

JobNext(p) ==
  \/ DiscordAnswers(p) \/ DiscordRefuses(p) \/ AnswerIsLost(p)
  \/ Continue(p) \/ GiveUp(p)

Next ==
  \/ \E w \in Wallets : ChainChanges(w)
  \/ \E u \in Users, w \in Wallets, c \in Challenges : CreateChallenge(u, w, c)
  \/ \E c \in Challenges : ChallengeExpires(c)
  \/ \E u \in Users : UpdatePrivacy(u)
  \/ \E p \in Requests : RequestNext(p)
  \/ \E p \in Sweeps : SyncAll(p)
  \/ \E p \in Procs : JobNext(p)
  \/ Restart

Spec == Init /\ [][Next]_vars

(* Every call to Discord is answered or fails, what waits for it goes on,  *)
(* and the timer of syncAll fires again and again.  Users promise nothing. *)
Fairness ==
  /\ \A p \in Procs : WF_vars(DiscordAnswers(p) \/ Continue(p) \/ GiveUp(p))
  /\ WF_vars(\E p \in Sweeps : SyncAll(p))

FairSpec == Spec /\ Fairness

-----------------------------------------------------------------------------

(* The type invariant.                                                     *)
CommunityTypeOK ==
  /\ rows \in [Users -> Rows]
  /\ challenge \in [Challenges ->
                     [user : Users, wallet : Wallets, used : BOOLEAN] \cup {Null}]
  /\ saved \in [Users -> SUBSET Configured]
  /\ member \in [Users -> SUBSET Configured]
  /\ onChain \in [Wallets -> SUBSET Configured]
  /\ running \subseteq Users
  /\ mixed \subseteq Users
  /\ changes \in 0..MaxChanges
  /\ failures \in 0..MaxFailures
  /\ restarts \in 0..MaxRestarts

(* A wallet is the linked wallet of one Discord user at most, whatever     *)
(* challenges were created, expired and used in between (consumeAndLink).  *)
OneOwner ==
  \A u, v \in Users :
    Linked(u) /\ Linked(v) /\ rows[u].wallet = rows[v].wallet => u = v

(* An identity is in the set running just while one syncIdentity works on  *)
(* it: none is left there by a failed call, which would end its syncs for  *)
(* good, and no two work on it at a time.                                  *)
RunningIsExact ==
  /\ \A u \in Users : u \in running <=>
       \E p \in Procs : job[p] # Null /\ job[p].kind = "sync" /\ job[p].user = u
  /\ \A p, q \in Procs :
       /\ job[p] # Null /\ job[p].kind = "sync"
       /\ job[q] # Null /\ job[q].kind = "sync"
       /\ job[p].user = job[q].user
       => p = q

(* The role table agrees with Discord but for the one role whose call has  *)
(* been carried out and has not returned, through refused calls and        *)
(* changes of the link or of the chain under a job, for every user but     *)
(* those with a lost answer, a restart or two jobs at a time.              *)
SavedIsReal ==
  \A u \in Users \ mixed : \A r \in Configured :
    (r \in saved[u]) = (r \in member[u])
    \/ \E p \in Procs : /\ job[p] # Null /\ job[p].user = u
                        /\ job[p].call = "answered"
                        /\ r \in KeysAt(job[p].at, job[p].at)

(* While a user stays linked the roles on Discord come to be those its     *)
(* link and its wallet's participation entitle to, and stay so once these  *)
(* change no more, whatever failures, restarts, concurrent sweeps and      *)
(* cleanups there were.                                                    *)
RolesSettle ==
  \A u \in Users :
    <>[]Linked(u) => <>[](Linked(u) => member[u] = DesiredRoles(rows[u]))

(* A user that unlinks loses its automatic roles, in the request or in a   *)
(* later sweep, unless an answer was lost or two jobs worked on it.        *)
UnlinkRemovesSavedRoles ==
  \A u \in Users :
    Unlinked(u) ~> (member[u] = {} \/ ~Unlinked(u) \/ u \in mixed)

=============================================================================
