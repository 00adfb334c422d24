----------------------- MODULE CommunityIdentityProofs -----------------------
(***************************************************************************)
(* A wallet has one owner, an identity one sync at a time, and the roles   *)
(* saved are those on Discord, for any users, wallets, challenges,         *)
(* requests and sweeps.  The wallets such a user holds in the browser: no  *)
(* key is lost, and a page works on one transfer at a time.                *)
(***************************************************************************)
EXTENDS CommunityIdentity, BrowserWallet, SequenceTheorems, FiniteSetTheorems,
        WellFoundedInduction, TLAPS

ChallengeRecords == [user : Users, wallet : Wallets, used : BOOLEAN]

(* The rows and the challenges, and who owns a wallet.                     *)
OwnerInv ==
  /\ rows \in [Users -> Rows]
  /\ challenge \in [Challenges -> ChallengeRecords \cup {Null}]
  /\ OneOwner

LEMMA OwnerInit == Init => OwnerInv
BY DEF Init, OwnerInv, OneOwner, Linked, Rows

(* Every step that writes no row leaves the owners as they are.            *)
LEMMA SameRows ==
  ASSUME OwnerInv, UNCHANGED rows,
         challenge' \in [Challenges -> ChallengeRecords \cup {Null}]
  PROVE  OwnerInv'
BY DEF OwnerInv, OneOwner, Linked

(* Jobs and Discord touch neither rows nor challenges.                     *)
LEMMA SameStored ==
  ASSUME OwnerInv, UNCHANGED <<rows, challenge>>
  PROVE  OwnerInv'
BY DEF OwnerInv, OneOwner, Linked

(* The transaction of consumeAndLink: its test of the owner is made on the *)
(* rows it writes to.                                                      *)
LEMMA LinkKeepsOwners ==
  ASSUME OwnerInv, NEW p \in Procs, NEW c \in Challenges, VerifyAndLink(p, c)
  PROVE  OwnerInv'
<1> DEFINE u == challenge[c].user
           w == challenge[c].wallet
<1>1. u \in Users /\ w \in Wallets /\ challenge[c] \in ChallengeRecords
  BY DEF VerifyAndLink, OwnerInv, ChallengeRecords
<1>2. /\ rows' = [rows EXCEPT ![u] = LinkedRow(u, w)]
      /\ challenge' = [challenge EXCEPT ![c].used = TRUE]
      /\ \A v \in Users \ {u} : ~(Linked(v) /\ rows[v].wallet = w)
  BY DEF VerifyAndLink, OwnedByOther
<1> HIDE DEF u, w
<1>3. /\ LinkedRow(u, w) \in Rows
      /\ LinkedRow(u, w).status = "linked" /\ LinkedRow(u, w).wallet = w
  <2>1. (rows[u].public /\ rows[u].wallet = w) \in BOOLEAN
    OBVIOUS
  <2> QED BY <1>1, <2>1 DEF LinkedRow, Rows
<1>4. /\ rows' \in [Users -> Rows]
      /\ rows'[u] = LinkedRow(u, w)
      /\ \A v \in Users \ {u} : rows'[v] = rows[v]
  BY <1>1, <1>2, <1>3 DEF OwnerInv
<1>5. challenge' \in [Challenges -> ChallengeRecords \cup {Null}]
  BY <1>1, <1>2 DEF OwnerInv, ChallengeRecords
<1>6. OneOwner'
  BY <1>2, <1>3, <1>4 DEF OwnerInv, OneOwner, Linked
<1> QED BY <1>4, <1>5, <1>6 DEF OwnerInv

LEMMA UnlinkKeepsOwners ==
  ASSUME OwnerInv, NEW p \in Procs, NEW u \in Users, Unlink(p, u)
  PROVE  OwnerInv'
<1>1. rows' = [rows EXCEPT ![u] = UnlinkedRow] /\ UNCHANGED challenge
  BY DEF Unlink
<1>2. UnlinkedRow \in Rows /\ UnlinkedRow.status # "linked"
  BY DEF UnlinkedRow, Rows
<1>3. /\ rows' \in [Users -> Rows]
      /\ rows'[u] = UnlinkedRow
      /\ \A v \in Users \ {u} : rows'[v] = rows[v]
  BY <1>1, <1>2 DEF OwnerInv
<1> QED BY <1>1, <1>2, <1>3 DEF OwnerInv, OneOwner, Linked

LEMMA PrivacyKeepsOwners ==
  ASSUME OwnerInv, NEW u \in Users, UpdatePrivacy(u)
  PROVE  OwnerInv'
<1>1. rows' = [rows EXCEPT ![u].public = ~rows[u].public] /\ UNCHANGED challenge
  BY DEF UpdatePrivacy
<1>2. /\ rows' \in [Users -> Rows]
      /\ \A v \in Users : rows'[v].status = rows[v].status /\ rows'[v].wallet = rows[v].wallet
  BY <1>1 DEF OwnerInv, Rows
<1> QED BY <1>1, <1>2 DEF OwnerInv, OneOwner, Linked

LEMMA OwnerStep == OwnerInv /\ [Next]_vars => OwnerInv'
<1> SUFFICES ASSUME OwnerInv, [Next]_vars PROVE OwnerInv'
  OBVIOUS
<1>1. CASE UNCHANGED vars
  BY <1>1, SameStored DEF vars
<1>2. ASSUME NEW w \in Wallets, ChainChanges(w) PROVE OwnerInv'
  BY <1>2, SameStored DEF ChainChanges, stored
<1>3. ASSUME NEW u \in Users, NEW w \in Wallets, NEW c \in Challenges, CreateChallenge(u, w, c)
      PROVE  OwnerInv'
  <2>1. challenge' \in [Challenges -> ChallengeRecords \cup {Null}]
    <3>1. [user |-> u, wallet |-> w, used |-> FALSE] \in ChallengeRecords
      BY DEF ChallengeRecords
    <3> QED BY <1>3, <3>1 DEF CreateChallenge, OwnerInv
  <2> QED BY <1>3, <2>1, SameRows DEF CreateChallenge
<1>4. ASSUME NEW c \in Challenges, ChallengeExpires(c) PROVE OwnerInv'
  <2>1. challenge' \in [Challenges -> ChallengeRecords \cup {Null}]
    <3>1. challenge[c] \in ChallengeRecords
      BY <1>4 DEF ChallengeExpires, OwnerInv
    <3> QED BY <1>4, <3>1 DEF ChallengeExpires, OwnerInv, ChallengeRecords
  <2> QED BY <1>4, <2>1, SameRows DEF ChallengeExpires
<1>5. ASSUME NEW u \in Users, UpdatePrivacy(u) PROVE OwnerInv'
  BY <1>5, PrivacyKeepsOwners
<1>6. ASSUME NEW p \in Requests, RequestNext(p) PROVE OwnerInv'
  <2>1. p \in Procs
    BY DEF Procs
  <2>2. ASSUME NEW c \in Challenges, VerifyAndLink(p, c) PROVE OwnerInv'
    BY <2>1, <2>2, LinkKeepsOwners
  <2>3. ASSUME NEW u \in Users, SyncRoles(p, u) PROVE OwnerInv'
    BY <2>3, SameStored DEF SyncRoles, stored
  <2>4. ASSUME NEW u \in Users, Unlink(p, u) PROVE OwnerInv'
    BY <2>1, <2>4, UnlinkKeepsOwners
  <2> QED BY <1>6, <2>2, <2>3, <2>4 DEF RequestNext
<1>7. ASSUME NEW p \in Sweeps, SyncAll(p) PROVE OwnerInv'
  BY <1>7, SameStored DEF SyncAll, stored
<1>8. ASSUME NEW p \in Procs, JobNext(p) PROVE OwnerInv'
  <2>1. CASE DiscordAnswers(p)
    BY <2>1, SameStored DEF DiscordAnswers, stored
  <2>2. CASE DiscordRefuses(p)
    BY <2>2, SameStored DEF DiscordRefuses, stored
  <2>3. CASE AnswerIsLost(p)
    BY <2>3, SameStored DEF AnswerIsLost, stored
  <2>4. CASE Continue(p)
    BY <2>4, SameStored DEF Continue
  <2>5. CASE GiveUp(p)
    BY <2>5, SameStored DEF GiveUp, stored
  <2> QED BY <1>8, <2>1, <2>2, <2>3, <2>4, <2>5 DEF JobNext
<1>9. CASE Restart
  BY <1>9, SameStored DEF Restart, stored
<1> QED BY <1>1, <1>2, <1>3, <1>4, <1>5, <1>6, <1>7, <1>8, <1>9 DEF Next

(* A wallet is linked to one Discord user at most, whatever requests,      *)
(* sweeps and restarts there are (consumeAndLink).                         *)
THEOREM WalletHasOneOwner == Spec => []OneOwner
<1>1. OwnerInv => OneOwner
  BY DEF OwnerInv
<1> QED BY <1>1, OwnerInit, OwnerStep, PTL DEF Spec

-----------------------------------------------------------------------------

IsSync(j) == j # Null /\ j.kind = "sync"

(* RunningIsExact of the jobs jb and the set run.                          *)
ExactFor(jb, run) ==
  /\ \A u \in Users : u \in run <=> \E p \in Procs : IsSync(jb[p]) /\ jb[p].user = u
  /\ \A p, q \in Procs :
       IsSync(jb[p]) /\ IsSync(jb[q]) /\ jb[p].user = jb[q].user => p = q

Queues == UNION {[S -> Rows] : S \in SUBSET Users}

(* What role synchronisation and Discord keep, beside rows and challenges. *)
JobsInv ==
  /\ saved \in [Users -> SUBSET Configured]
  /\ member \in [Users -> SUBSET Configured]
  /\ onChain \in [Wallets -> SUBSET Configured]
  /\ running \subseteq Users
  /\ mixed \subseteq Users
  /\ changes \in 0..MaxChanges
  /\ failures \in 0..MaxFailures
  /\ restarts \in 0..MaxRestarts
  /\ job \in [Procs -> Jobs \cup {Null}]
  /\ ExactFor(job, running)

LEMMA ExactForIsRunningIsExact == RunningIsExact <=> ExactFor(job, running)
BY DEF RunningIsExact, ExactFor, IsSync

(* A set of numbers that is not empty has a least one.                     *)
LEMMA LeastNumber ==
  ASSUME NEW S \in SUBSET Nat, S # {}
  PROVE  \E m \in S : \A k \in S : m <= k
<1>1. PICK m \in S : \A k \in S : ~(<<k, m>> \in OpToRel(<, Nat))
  BY NatLessThanWellFounded, WFMin, Zenon
<1>2. \A k \in S : k \in Nat /\ m \in Nat
  OBVIOUS
<1>3. \A k \in S : <<k, m>> \in Nat \X Nat
  BY <1>2
<1>4. \A k \in S : ~(<<k, m>>[1] < <<k, m>>[2])
  BY <1>1, <1>3, Zenon DEF OpToRel
<1> QED BY <1>2, <1>4

(* The ids of the users are numbers: a set of them has a first one.        *)
LEMMA FirstIsMember ==
  ASSUME NEW S \in SUBSET Users, S # {}
  PROVE  First(S) \in S
<1>1. S \in SUBSET Nat
  BY CommunityAssumption DEF CommunityAssumption
<1>2. \E u \in S : \A v \in S : u <= v
  BY <1>1, LeastNumber
<1> QED BY <1>2 DEF First

LEMMA KeysAreConfigured ==
  ASSUME NEW i, NEW k
  PROVE  KeysAt(i, k) \subseteq Configured
BY DEF KeysAt

LEMMA DesiredAreConfigured ==
  ASSUME NEW row \in Rows, onChain \in [Wallets -> SUBSET Configured]
  PROVE  DesiredRoles(row) \subseteq Configured
BY DEF DesiredRoles, Rows

(* A queue is a function on some of the users, and so is what is left.     *)
LEMMA QueueType ==
  ASSUME NEW queue \in Queues
  PROVE  /\ DOMAIN queue \subseteq Users
         /\ \A u \in DOMAIN queue : queue[u] \in Rows
         /\ \A u : After(queue, u) \in Queues
<1>1. PICK S \in SUBSET Users : queue \in [S -> Rows]
  BY DEF Queues
<1>2. ASSUME NEW u PROVE After(queue, u) \in Queues
  <2> DEFINE T == {w \in DOMAIN queue : w > u}
  <2>1. T \in SUBSET Users
    BY <1>1
  <2>2. After(queue, u) \in [T -> Rows]
    BY <1>1 DEF After
  <2> HIDE DEF T
  <2> QED BY <2>1, <2>2 DEF Queues
<1> QED BY <1>1, <1>2

LEMMA ListType ==
  ASSUME NEW S \in SUBSET Users, rows \in [Users -> Rows]
  PROVE  [u \in S |-> rows[u]] \in Queues
<1>1. [u \in S |-> rows[u]] \in [S -> Rows]
  OBVIOUS
<1> QED BY <1>1 DEF Queues

LEMMA EmptyQueue == <<>> \in Queues
<1>1. <<>> \in [{} -> Rows]
  OBVIOUS
<1> QED BY <1>1 DEF Queues

LEMMA BeginType ==
  ASSUME NEW kind \in {"sync", "cleanup"}, NEW u \in Users,
         NEW desired \in SUBSET Configured,
         NEW sweep \in {"none", "linked", "unlinked"}, NEW queue \in Queues
  PROVE  /\ Begin(kind, u, desired, sweep, queue) \in Jobs
         /\ Begin(kind, u, desired, sweep, queue) # Null
         /\ Begin(kind, u, desired, sweep, queue).kind = kind
         /\ Begin(kind, u, desired, sweep, queue).user = u
<1>1. queue \in UNION {[S -> Rows] : S \in SUBSET Users}
  BY DEF Queues
<1> DEFINE Q == UNION {[S -> Rows] : S \in SUBSET Users}
<1> HIDE DEF Q
<1>2. Begin(kind, u, desired, sweep, queue) \in Jobs
  BY <1>1 DEF Begin, Jobs, Q
<1> QED BY <1>2, NullAssumption DEF Begin

(* What a sweep turns to next: nothing, the cleanup of a user, or the sync *)
(* of one that is not running.                                             *)
NextInSweep(j, run) ==
  /\ j \in Jobs \cup {Null}
  /\ IsSync(j) => j.user \notin run

LEMMA SweepUnlinkedType ==
  ASSUME NEW queue \in Queues, NEW run
  PROVE  NextInSweep(SweepUnlinked(queue), run)
<1>1. CASE DOMAIN queue = {}
  BY <1>1 DEF SweepUnlinked, NextInSweep, IsSync
<1>2. CASE DOMAIN queue # {}
  <2> DEFINE u == First(DOMAIN queue)
  <2>1. u \in Users
    BY <1>2, QueueType, FirstIsMember
  <2>2. After(queue, u) \in Queues
    BY QueueType
  <2> DEFINE b == Begin("cleanup", u, {}, "unlinked", After(queue, u))
  <2>3. SweepUnlinked(queue) = b
    BY <1>2 DEF SweepUnlinked
  <2>4. b \in Jobs /\ b.kind = "cleanup"
    <3> HIDE DEF u
    <3>1. {} \in SUBSET Configured
      OBVIOUS
    <3> QED BY <2>1, <2>2, <3>1, BeginType
  <2> HIDE DEF b
  <2> QED BY <2>3, <2>4 DEF NextInSweep, IsSync
<1> QED BY <1>1, <1>2

LEMMA UnlinkedRowsType ==
  ASSUME NEW save, rows \in [Users -> Rows]
  PROVE  UnlinkedRows(save) \in Queues
<1> DEFINE S == {v \in Users : Unlinked(v) /\ save[v] # {}}
<1>1. UnlinkedRows(save) = [u \in S |-> rows[u]]
  BY DEF UnlinkedRows
<1>2. S \in SUBSET Users
  OBVIOUS
<1> HIDE DEF S
<1> QED BY <1>1, <1>2, ListType

LEMMA SweepLinkedType ==
  ASSUME NEW queue \in Queues, NEW run, NEW save,
         rows \in [Users -> Rows], onChain \in [Wallets -> SUBSET Configured]
  PROVE  NextInSweep(SweepLinked(queue, run, save), run)
<1> DEFINE ready == DOMAIN queue \ run
           u     == First(ready)
<1>1. CASE ready = {}
  <2>1. SweepLinked(queue, run, save) = SweepUnlinked(UnlinkedRows(save))
    BY <1>1 DEF SweepLinked
  <2> QED BY <2>1, UnlinkedRowsType, SweepUnlinkedType
<1>2. CASE ready # {}
  <2>1. u \in ready
    BY <1>2, QueueType, FirstIsMember
  <2>2. u \in Users /\ u \notin run /\ queue[u] \in Rows
    BY <2>1, QueueType
  <2>3. After(queue, u) \in Queues
    BY QueueType
  <2> DEFINE b == Begin("sync", u, DesiredRoles(queue[u]), "linked", After(queue, u))
  <2>4. SweepLinked(queue, run, save) = b
    BY <1>2 DEF SweepLinked
  <2>5. DesiredRoles(queue[u]) \in SUBSET Configured
    BY <2>2, DesiredAreConfigured
  <2>6. b \in Jobs /\ b.user = u
    <3> HIDE DEF u
    <3> QED BY <2>2, <2>3, <2>5, BeginType
  <2> HIDE DEF b, u
  <2> QED BY <2>2, <2>4, <2>6 DEF NextInSweep, IsSync
<1> QED BY <1>1, <1>2

LEMMA FollowingType ==
  ASSUME NEW j \in Jobs, NEW run, NEW save,
         rows \in [Users -> Rows], onChain \in [Wallets -> SUBSET Configured]
  PROVE  NextInSweep(Following(j, run, save), run)
<1>1. j.queue \in Queues
  BY DEF Jobs, Queues
<1>2. CASE j.sweep = "linked"
  BY <1>1, <1>2, SweepLinkedType DEF Following
<1>3. CASE j.sweep = "unlinked"
  BY <1>1, <1>3, SweepUnlinkedType DEF Following
<1>4. CASE j.sweep # "linked" /\ j.sweep # "unlinked"
  BY <1>4 DEF Following, NextInSweep, IsSync
<1> QED BY <1>2, <1>3, <1>4

(* The job of p is replaced: the user of the old one leaves run, that of   *)
(* the new one, who was not in it, enters.                                 *)
LEMMA ReplaceJob ==
  ASSUME NEW jb \in [Procs -> Jobs \cup {Null}], NEW run \in SUBSET Users, ExactFor(jb, run),
         NEW p \in Procs, NEW j \in Jobs \cup {Null},
         NEW left, left = IF IsSync(jb[p]) THEN run \ {jb[p].user} ELSE run,
         IsSync(j) => j.user \notin left
  PROVE  ExactFor([jb EXCEPT ![p] = j], IF IsSync(j) THEN left \cup {j.user} ELSE left)
<1> DEFINE new == [jb EXCEPT ![p] = j]
           now == IF IsSync(j) THEN left \cup {j.user} ELSE left
<1>1. new[p] = j /\ \A q \in Procs \ {p} : new[q] = jb[q]
  OBVIOUS
<1>2. \A u \in Users : u \in left <=>
        \E q \in Procs \ {p} : IsSync(jb[q]) /\ jb[q].user = u
  BY DEF ExactFor
<1>3. \A u \in Users : u \in now <=> \E q \in Procs : IsSync(new[q]) /\ new[q].user = u
  <2> HIDE DEF new
  <2> QED BY <1>1, <1>2
<1>4. ASSUME NEW q \in Procs, NEW r \in Procs,
             IsSync(new[q]), IsSync(new[r]), new[q].user = new[r].user
      PROVE  q = r
  <2>1. \A s \in Procs \ {p} : IsSync(jb[s]) => jb[s].user \in Users
    BY DEF IsSync, Jobs
  <2>2. IsSync(j) => \A s \in Procs \ {p} : ~(IsSync(jb[s]) /\ jb[s].user = j.user)
    BY <1>2, <2>1
  <2> HIDE DEF new
  <2> QED BY <1>1, <1>4, <2>2 DEF ExactFor
<1> HIDE DEF new, now
<1>5. ExactFor(new, now)
  BY <1>3, <1>4 DEF ExactFor
<1> QED BY <1>5 DEF new, now

(* A job that keeps its kind and its user changes nothing of it.           *)
LEMMA SameJob ==
  ASSUME NEW jb \in [Procs -> Jobs \cup {Null}], NEW run, ExactFor(jb, run),
         NEW p \in Procs, jb[p] # Null,
         NEW j \in Jobs, j.kind = jb[p].kind, j.user = jb[p].user
  PROVE  ExactFor([jb EXCEPT ![p] = j], run)
<1> DEFINE new == [jb EXCEPT ![p] = j]
<1>1. new[p] = j /\ \A q \in Procs \ {p} : new[q] = jb[q]
  OBVIOUS
<1>2. j # Null
  BY NullAssumption
<1>3. \A q \in Procs : /\ IsSync(new[q]) <=> IsSync(jb[q])
                       /\ IsSync(jb[q]) => new[q].user = jb[q].user
  <2> HIDE DEF new
  <2> QED BY <1>1, <1>2 DEF IsSync
<1> HIDE DEF new
<1>4. ExactFor(new, run)
  BY <1>3 DEF ExactFor
<1> QED BY <1>4 DEF new

-----------------------------------------------------------------------------

LEMMA JobsInit == Init => JobsInv
BY CommunityAssumption
   DEF Init, JobsInv, ExactFor, IsSync, Eligibilities, CommunityAssumption

(* A process begins to wait for j.                                         *)
LEMMA StartKeepsJobs ==
  ASSUME JobsInv, NEW p \in Procs, job[p] = Null,
         NEW j, NextInSweep(j, running), Start(p, j),
         UNCHANGED <<saved, member, onChain, bounds>>
  PROVE  JobsInv'
<1>1. j \in Jobs \cup {Null} /\ ~IsSync(job[p])
  BY DEF NextInSweep, IsSync
<1>2. /\ job' = [job EXCEPT ![p] = j]
      /\ running' = IF IsSync(j) THEN running \cup {j.user} ELSE running
      /\ mixed' = mixed \cup Overlapping(p, j)
  BY DEF Start, Await, IsSync
<1>3. ExactFor(job', running')
  BY <1>1, <1>2, ReplaceJob DEF JobsInv, NextInSweep
<1>4. job' \in [Procs -> Jobs \cup {Null}]
  BY <1>1, <1>2 DEF JobsInv
<1>5. running' \subseteq Users
  BY <1>1, <1>2 DEF JobsInv, IsSync, Jobs
<1>6. mixed' \subseteq Users
  BY <1>2 DEF JobsInv, Overlapping
<1>7. UNCHANGED <<saved, member, onChain, changes, failures, restarts>>
  BY DEF bounds
<1> QED BY <1>3, <1>4, <1>5, <1>6, <1>7 DEF JobsInv

(* A process ends its job, and what follows it begins.                     *)
LEMMA EndKeepsJobs ==
  ASSUME JobsInv, NEW p \in Procs, job[p] # Null,
         NEW j, NextInSweep(j, Ended(job[p])), Await(p, j, Ended(job[p])),
         mixed' = mixed \cup Overlapping(p, j),
         saved' \in [Users -> SUBSET Configured],
         UNCHANGED <<member, onChain, bounds>>
  PROVE  JobsInv'
<1> DEFINE left == Ended(job[p])
<1>1. left = IF IsSync(job[p]) THEN running \ {job[p].user} ELSE running
  BY DEF Ended, IsSync
<1>2. j \in Jobs \cup {Null} /\ (IsSync(j) => j.user \notin left)
  BY DEF NextInSweep
<1>3. /\ job' = [job EXCEPT ![p] = j]
      /\ running' = IF IsSync(j) THEN left \cup {j.user} ELSE left
  BY DEF Await, IsSync
<1>4. left \subseteq Users
  BY <1>1 DEF JobsInv
<1> HIDE DEF left
<1>5. ExactFor(job', running')
  BY <1>1, <1>2, <1>3, ReplaceJob DEF JobsInv
<1>6. job' \in [Procs -> Jobs \cup {Null}]
  BY <1>2, <1>3 DEF JobsInv
<1>7. running' \subseteq Users
  BY <1>2, <1>3, <1>4 DEF IsSync, Jobs
<1>8. mixed' \subseteq Users
  BY DEF JobsInv, Overlapping
<1>9. UNCHANGED <<member, onChain, changes, failures, restarts>>
  BY DEF bounds
<1> QED BY <1>5, <1>6, <1>7, <1>8, <1>9 DEF JobsInv

(* The call of a job comes to be another: the rest of the job stays.       *)
LEMMA CallKeepsJobs ==
  ASSUME JobsInv, NEW p \in Procs, job[p] # Null, NEW j \in Jobs,
         j.kind = job[p].kind, j.user = job[p].user,
         job' = [job EXCEPT ![p] = j],
         saved' \in [Users -> SUBSET Configured],
         member' \in [Users -> SUBSET Configured],
         mixed' \subseteq Users, failures' \in 0..MaxFailures,
         UNCHANGED <<onChain, running, changes, restarts>>
  PROVE  JobsInv'
<1>1. ExactFor(job', running)
  BY SameJob DEF JobsInv
<1>2. job' \in [Procs -> Jobs \cup {Null}]
  BY DEF JobsInv
<1> QED BY <1>1, <1>2 DEF JobsInv

(* Steps that touch neither jobs nor the set running.                      *)
LEMMA OtherKeepsJobs ==
  ASSUME JobsInv, UNCHANGED <<saved, member, running, job, mixed, failures, restarts>>,
         onChain' \in [Wallets -> SUBSET Configured], changes' \in 0..MaxChanges
  PROVE  JobsInv'
BY DEF JobsInv

LEMMA ChainKeepsJobs ==
  ASSUME JobsInv, NEW w \in Wallets, ChainChanges(w)
  PROVE  JobsInv'
<1>1. onChain' \in [Wallets -> SUBSET Configured]
  BY DEF ChainChanges, JobsInv, Eligibilities
<1>2. changes' \in 0..MaxChanges
  BY CommunityAssumption DEF ChainChanges, JobsInv, CommunityAssumption
<1> QED BY <1>1, <1>2, OtherKeepsJobs DEF ChainChanges, stored

LEMMA VerifyKeepsJobs ==
  ASSUME JobsInv, OwnerInv, NEW p \in Procs, NEW c \in Challenges, VerifyAndLink(p, c)
  PROVE  JobsInv'
<1> DEFINE u   == challenge[c].user
           row == LinkedRow(u, challenge[c].wallet)
<1>1. u \in Users /\ challenge[c].wallet \in Wallets
  BY DEF VerifyAndLink, OwnerInv, ChallengeRecords
<1>2. row \in Rows
  <2>1. (rows[u].public /\ rows[u].wallet = challenge[c].wallet) \in BOOLEAN
    OBVIOUS
  <2> QED BY <1>1, <2>1 DEF LinkedRow, Rows
<1>3. UNCHANGED <<saved, member, onChain, bounds>> /\ job[p] = Null
  BY DEF VerifyAndLink
<1>4. CASE u \in running
  <2>1. UNCHANGED <<job, running, mixed>>
    BY <1>4 DEF VerifyAndLink
  <2> QED BY <1>3, <2>1, OtherKeepsJobs DEF bounds, JobsInv
<1>5. CASE u \notin running
  <2> DEFINE b == Begin("sync", u, DesiredRoles(row), "none", <<>>)
  <2>1. Start(p, b)
    BY <1>5 DEF VerifyAndLink
  <2>2. b \in Jobs /\ b.user = u
    <3>1. DesiredRoles(row) \in SUBSET Configured
      BY <1>2, DesiredAreConfigured DEF JobsInv
    <3> HIDE DEF row, u
    <3> QED BY <1>1, <3>1, EmptyQueue, BeginType
  <2> HIDE DEF b, u
  <2>3. NextInSweep(b, running)
    BY <1>5, <2>2 DEF NextInSweep
  <2> QED BY <1>3, <2>1, <2>3, StartKeepsJobs
<1> QED BY <1>4, <1>5

LEMMA SyncRolesKeepsJobs ==
  ASSUME JobsInv, OwnerInv, NEW p \in Procs, NEW u \in Users, SyncRoles(p, u)
  PROVE  JobsInv'
<1> DEFINE b == Begin("sync", u, DesiredRoles(rows[u]), "none", <<>>)
<1>1. /\ job[p] = Null /\ u \notin running /\ Start(p, b)
      /\ UNCHANGED <<saved, member, onChain, bounds>>
  BY DEF SyncRoles, stored
<1>2. b \in Jobs /\ b.user = u
  <2>1. DesiredRoles(rows[u]) \in SUBSET Configured
    BY DesiredAreConfigured DEF JobsInv, OwnerInv
  <2> QED BY <2>1, EmptyQueue, BeginType
<1> HIDE DEF b
<1>3. NextInSweep(b, running)
  BY <1>1, <1>2 DEF NextInSweep
<1> QED BY <1>1, <1>3, StartKeepsJobs

LEMMA UnlinkKeepsJobs ==
  ASSUME JobsInv, NEW p \in Procs, NEW u \in Users, Unlink(p, u)
  PROVE  JobsInv'
<1> DEFINE b == Begin("cleanup", u, {}, "none", <<>>)
<1>1. /\ job[p] = Null /\ Start(p, b)
      /\ UNCHANGED <<saved, member, onChain, bounds>>
  BY DEF Unlink
<1>2. b \in Jobs /\ b.kind = "cleanup"
  <2>1. {} \in SUBSET Configured
    OBVIOUS
  <2> QED BY <2>1, EmptyQueue, BeginType
<1> HIDE DEF b
<1>3. NextInSweep(b, running)
  BY <1>2 DEF NextInSweep, IsSync
<1> QED BY <1>1, <1>3, StartKeepsJobs

LEMMA SyncAllKeepsJobs ==
  ASSUME JobsInv, OwnerInv, NEW p \in Procs, SyncAll(p)
  PROVE  JobsInv'
<1> DEFINE j == SweepLinked(LinkedRows, running, saved)
<1>1. /\ job[p] = Null /\ Start(p, j)
      /\ UNCHANGED <<saved, member, onChain, bounds>>
  BY DEF SyncAll, stored
<1>2. LinkedRows \in Queues
  <2> DEFINE S == {v \in Users : Linked(v)}
  <2>1. LinkedRows = [u \in S |-> rows[u]] /\ S \in SUBSET Users
    BY DEF LinkedRows
  <2> HIDE DEF S
  <2> QED BY <2>1, ListType DEF OwnerInv
<1>3. NextInSweep(j, running)
  BY <1>2, SweepLinkedType DEF JobsInv, OwnerInv
<1> HIDE DEF j
<1> QED BY <1>1, <1>3, StartKeepsJobs

LEMMA AnswerKeepsJobs ==
  ASSUME JobsInv, NEW p \in Procs, DiscordAnswers(p)
  PROVE  JobsInv'
<1> DEFINE j == job[p]
<1>1. j \in Jobs /\ j # Null /\ j.user \in Users /\ j.desired \subseteq Configured
  BY DEF DiscordAnswers, JobsInv, Jobs
<1>2. UNCHANGED <<saved, onChain, running, mixed, changes, failures, restarts>>
  BY DEF DiscordAnswers, stored, bounds
<1>3. CASE j.at = 0
  <2> DEFINE new == [j EXCEPT !.call = "answered", !.existing = member[j.user]]
  <2>1. job' = [job EXCEPT ![p] = new] /\ UNCHANGED member
    BY <1>3 DEF DiscordAnswers
  <2>2. member[j.user] \in SUBSET Configured
    BY <1>1 DEF JobsInv
  <2>3. new \in Jobs /\ new.kind = j.kind /\ new.user = j.user
    BY <1>1, <2>2 DEF Jobs
  <2> HIDE DEF new
  <2> QED BY <1>1, <1>2, <2>1, <2>3, CallKeepsJobs DEF JobsInv
<1>4. CASE j.at # 0
  <2> DEFINE new == [j EXCEPT !.call = "answered"]
             key == KeysAt(j.at, j.at)
  <2>1. /\ job' = [job EXCEPT ![p] = new]
        /\ member' = [member EXCEPT ![j.user] = (member[j.user] \ key) \cup (key \cap j.desired)]
    BY <1>4 DEF DiscordAnswers
  <2>2. new \in Jobs /\ new.kind = j.kind /\ new.user = j.user
    BY <1>1 DEF Jobs
  <2>3. (member[j.user] \ key) \cup (key \cap j.desired) \in SUBSET Configured
    BY <1>1 DEF JobsInv
  <2>4. member' \in [Users -> SUBSET Configured]
    BY <2>1, <2>3 DEF JobsInv
  <2> HIDE DEF new
  <2> QED BY <1>1, <1>2, <2>1, <2>2, <2>4, CallKeepsJobs DEF JobsInv
<1> QED BY <1>3, <1>4

LEMMA FailureKeepsJobs ==
  ASSUME JobsInv, NEW p \in Procs, DiscordRefuses(p) \/ AnswerIsLost(p)
  PROVE  JobsInv'
<1> DEFINE new == [job[p] EXCEPT !.call = "failed"]
<1>1. /\ job[p] \in Jobs /\ job[p] # Null /\ job[p].user \in Users
      /\ failures < MaxFailures /\ failures' = failures + 1
      /\ job' = [job EXCEPT ![p] = new]
      /\ mixed' \in {mixed, mixed \cup {job[p].user}}
      /\ UNCHANGED <<saved, member, onChain, running, changes, restarts>>
  BY DEF DiscordRefuses, AnswerIsLost, stored, JobsInv, Jobs
<1>2. new \in Jobs /\ new.kind = job[p].kind /\ new.user = job[p].user
  BY <1>1 DEF Jobs
<1>3. failures' \in 0..MaxFailures
  BY <1>1, CommunityAssumption DEF JobsInv, CommunityAssumption
<1>4. mixed' \subseteq Users
  BY <1>1 DEF JobsInv
<1>5. saved' \in [Users -> SUBSET Configured] /\ member' \in [Users -> SUBSET Configured]
  BY <1>1 DEF JobsInv
<1> HIDE DEF new
<1> QED BY <1>1, <1>2, <1>3, <1>4, <1>5, CallKeepsJobs

(* What the least position is that needs a call.                           *)
LEMMA NextCallLemma ==
  ASSUME NEW j, j.at \in 0..3
  PROVE  /\ NextCall(j) \in j.at + 1 .. 4
         /\ \A k \in j.at + 1 .. NextCall(j) - 1 : ~NeedsCall(j, k)
<1> DEFINE IsNext(i) == /\ i = 4 \/ NeedsCall(j, i)
                        /\ \A k \in j.at + 1 .. i - 1 : ~NeedsCall(j, k)
<1>1. \E i \in j.at + 1 .. 4 : IsNext(i)
  <2>1. CASE \A k \in j.at + 1 .. 3 : ~NeedsCall(j, k)
    <3>1. IsNext(4)
      BY <2>1
    <3> HIDE DEF IsNext
    <3> QED BY <3>1
  <2>2. CASE \E k \in j.at + 1 .. 3 : NeedsCall(j, k)
    <3> DEFINE S == {k \in j.at + 1 .. 3 : NeedsCall(j, k)}
    <3>1. S \in SUBSET Nat /\ S # {}
      BY <2>2
    <3>2. PICK m \in S : \A k \in S : m <= k
      BY <3>1, LeastNumber
    <3>3. \A k \in j.at + 1 .. m - 1 : k \in j.at + 1 .. 3 /\ ~(m <= k)
      BY <3>2
    <3>4. IsNext(m)
      BY <3>2, <3>3
    <3> HIDE DEF IsNext
    <3> QED BY <3>2, <3>4
  <2> QED BY <2>1, <2>2
<1>2. NextCall(j) = CHOOSE i \in j.at + 1 .. 4 : IsNext(i)
  BY DEF NextCall
<1>3. NextCall(j) \in j.at + 1 .. 4 /\ IsNext(NextCall(j))
  <2> HIDE DEF IsNext
  <2> QED BY <1>1, <1>2
<1> QED BY <1>3

LEMMA ContinueKeepsJobs ==
  ASSUME JobsInv, OwnerInv, NEW p \in Procs, Continue(p)
  PROVE  JobsInv'
<1> DEFINE j    == job[p]
           next == NextCall(j)
           save == [saved EXCEPT ![j.user] = SavedAfter(j, next)]
           then == Following(j, Ended(j), save)
<1>1. j \in Jobs /\ j # Null /\ j.user \in Users /\ j.at \in 0..3 /\ j.desired \subseteq Configured
  BY DEF Continue, JobsInv, Jobs
<1>2. saved' = save /\ UNCHANGED <<rows, member, onChain, bounds>>
  BY DEF Continue
<1>3. save \in [Users -> SUBSET Configured]
  <2>1. SavedAfter(j, next) \in SUBSET Configured
    BY <1>1 DEF SavedAfter, JobsInv
  <2> QED BY <1>1, <2>1 DEF JobsInv
<1>4. next \in j.at + 1 .. 4
  BY <1>1, NextCallLemma
<1>5. CASE next < 4
  <2> DEFINE new == [j EXCEPT !.at = next, !.call = "asked"]
  <2>1. job' = [job EXCEPT ![p] = new] /\ UNCHANGED <<running, mixed>>
    BY <1>5 DEF Continue
  <2>2. next \in 0..3
    <3> HIDE DEF next
    <3> QED BY <1>1, <1>4, <1>5
  <2>3. new \in Jobs /\ new.kind = j.kind /\ new.user = j.user
    <3> HIDE DEF next
    <3> QED BY <1>1, <2>2 DEF Jobs
  <2>4. UNCHANGED <<changes, failures, restarts>>
    BY <1>2 DEF bounds
  <2> HIDE DEF new, save
  <2> QED BY <1>1, <1>2, <1>3, <2>1, <2>3, <2>4, CallKeepsJobs DEF JobsInv
<1>6. CASE ~(next < 4)
  <2>1. Await(p, then, Ended(j)) /\ mixed' = mixed \cup Overlapping(p, then)
    BY <1>6 DEF Continue
  <2>2. NextInSweep(then, Ended(j))
    BY <1>1, FollowingType DEF OwnerInv, JobsInv
  <2> HIDE DEF then, save
  <2> QED BY <1>1, <1>2, <1>3, <2>1, <2>2, EndKeepsJobs
<1> QED BY <1>5, <1>6

LEMMA GiveUpKeepsJobs ==
  ASSUME JobsInv, OwnerInv, NEW p \in Procs, GiveUp(p)
  PROVE  JobsInv'
<1> DEFINE then == Following(job[p], Ended(job[p]), saved)
<1>1. /\ job[p] \in Jobs /\ job[p] # Null
      /\ Await(p, then, Ended(job[p])) /\ mixed' = mixed \cup Overlapping(p, then)
      /\ UNCHANGED <<saved, member, onChain, bounds>>
  BY DEF GiveUp, JobsInv, stored
<1>2. NextInSweep(then, Ended(job[p]))
  BY <1>1, FollowingType DEF OwnerInv, JobsInv
<1>3. saved' \in [Users -> SUBSET Configured]
  BY <1>1 DEF JobsInv
<1> HIDE DEF then
<1> QED BY <1>1, <1>2, <1>3, EndKeepsJobs

LEMMA RestartKeepsJobs == JobsInv /\ Restart => JobsInv'
<1> SUFFICES ASSUME JobsInv, Restart PROVE JobsInv'
  OBVIOUS
<1>1. /\ job' = [q \in Procs |-> Null] /\ running' = {}
      /\ UNCHANGED <<saved, member, onChain, changes, failures>>
  BY DEF Restart, stored
<1>2. restarts' \in 0..MaxRestarts
  BY CommunityAssumption DEF Restart, JobsInv, CommunityAssumption
<1>3. mixed' \subseteq Users
  BY DEF Restart, JobsInv
<1>4. ExactFor(job', running')
  BY <1>1 DEF ExactFor, IsSync
<1> QED BY <1>1, <1>2, <1>3, <1>4 DEF JobsInv

LEMMA JobsStep == JobsInv /\ OwnerInv /\ [Next]_vars => JobsInv'
<1> SUFFICES ASSUME JobsInv, OwnerInv, [Next]_vars PROVE JobsInv'
  OBVIOUS
<1>1. CASE UNCHANGED vars
  BY <1>1, OtherKeepsJobs DEF vars, JobsInv
<1>2. ASSUME NEW w \in Wallets, ChainChanges(w) PROVE JobsInv'
  BY <1>2, ChainKeepsJobs
<1>3. ASSUME NEW u \in Users, NEW w \in Wallets, NEW c \in Challenges, CreateChallenge(u, w, c)
      PROVE  JobsInv'
  BY <1>3, OtherKeepsJobs DEF CreateChallenge, bounds, JobsInv
<1>4. ASSUME NEW c \in Challenges, ChallengeExpires(c) PROVE JobsInv'
  BY <1>4, OtherKeepsJobs DEF ChallengeExpires, bounds, JobsInv
<1>5. ASSUME NEW u \in Users, UpdatePrivacy(u) PROVE JobsInv'
  BY <1>5, OtherKeepsJobs DEF UpdatePrivacy, bounds, JobsInv
<1>6. ASSUME NEW p \in Requests, RequestNext(p) PROVE JobsInv'
  <2>1. p \in Procs
    BY DEF Procs
  <2>2. ASSUME NEW c \in Challenges, VerifyAndLink(p, c) PROVE JobsInv'
    BY <2>1, <2>2, VerifyKeepsJobs
  <2>3. ASSUME NEW u \in Users, SyncRoles(p, u) PROVE JobsInv'
    BY <2>1, <2>3, SyncRolesKeepsJobs
  <2>4. ASSUME NEW u \in Users, Unlink(p, u) PROVE JobsInv'
    BY <2>1, <2>4, UnlinkKeepsJobs
  <2> QED BY <1>6, <2>2, <2>3, <2>4 DEF RequestNext
<1>7. ASSUME NEW p \in Sweeps, SyncAll(p) PROVE JobsInv'
  <2>1. p \in Procs
    BY DEF Procs
  <2> QED BY <1>7, <2>1, SyncAllKeepsJobs
<1>8. ASSUME NEW p \in Procs, JobNext(p) PROVE JobsInv'
  BY <1>8, AnswerKeepsJobs, FailureKeepsJobs, ContinueKeepsJobs, GiveUpKeepsJobs DEF JobNext
<1>9. CASE Restart
  BY <1>9, RestartKeepsJobs
<1> QED BY <1>1, <1>2, <1>3, <1>4, <1>5, <1>6, <1>7, <1>8, <1>9 DEF Next

CommunityInv == OwnerInv /\ JobsInv

LEMMA CommunityInvariance == Spec => []CommunityInv
<1>1. Init => CommunityInv
  BY OwnerInit, JobsInit DEF CommunityInv
<1>2. CommunityInv /\ [Next]_vars => CommunityInv'
  BY OwnerStep, JobsStep DEF CommunityInv
<1> QED BY <1>1, <1>2, PTL DEF Spec

(* The types of the rows, challenges, roles and jobs, for all users and    *)
(* any number of requests and sweeps.                                      *)
THEOREM CommunityTypes == Spec => []CommunityTypeOK
<1>1. CommunityInv => CommunityTypeOK
  BY DEF CommunityInv, OwnerInv, JobsInv, CommunityTypeOK, ChallengeRecords
<1> QED BY <1>1, CommunityInvariance, PTL

(* An identity is running just while exactly one sync works on it, also    *)
(* when calls fail and sweeps overlap with requests (syncIdentity with its *)
(* finally).                                                               *)
THEOREM RunningExact == Spec => []RunningIsExact
<1>1. CommunityInv => RunningIsExact
  BY ExactForIsRunningIsExact DEF CommunityInv, JobsInv
<1> QED BY <1>1, CommunityInvariance, PTL

-----------------------------------------------------------------------------

(* What a job knows of the roles its user has: the key whose call was      *)
(* carried out is as desired, and those after it are as they were found.   *)
Knows(j, roles) ==
  /\ j.call = "answered" => \A r \in KeysAt(j.at, j.at) : r \in roles <=> r \in j.desired
  /\ j.call = "answered" \/ (j.call = "asked" /\ j.at # 0) =>
       \A k \in j.at + 1 .. 3 : \A r \in KeysAt(k, k) : r \in j.existing <=> r \in roles

(* What SavedIsReal needs: a user has one job at a time, or is mixed.      *)
RolesInv ==
  /\ SavedIsReal
  /\ \A p, q \in Procs :
       job[p] # Null /\ job[q] # Null /\ p # q /\ job[p].user = job[q].user
         => job[p].user \in mixed
  /\ \A p \in Procs :
       job[p] # Null /\ job[p].user \notin mixed => Knows(job[p], member[job[p].user])

(* The job at p is at the key of r, whose call was carried out.            *)
Doing(j, u, r) ==
  j # Null /\ j.user = u /\ j.call = "answered" /\ r \in KeysAt(j.at, j.at)

LEMMA RolesInit == Init => RolesInv
BY DEF Init, RolesInv, SavedIsReal

(* A configured role is the key of one position.                           *)
LEMMA KeyPositions ==
  /\ \A i, j \in Int : \A r : r \in KeysAt(i, j) <=>
       \E k \in 1..3 : i <= k /\ k <= j /\ r \in KeysAt(k, k)
  /\ \A i, j \in 1..3 : i # j => KeysAt(i, i) \cap KeysAt(j, j) = {}
  /\ \A r \in Configured : \E k \in 1..3 : r \in KeysAt(k, k)
  /\ KeysAt(0, 0) = {}
<1>1. ASSUME NEW k \in 1..3 PROVE (k..k) \cap (1..3) = {k}
  <2>1. ASSUME NEW i PROVE i \in (k..k) \cap (1..3) <=> i = k
    <3>1. i \in k..k <=> i \in Int /\ k <= i /\ i <= k
      OBVIOUS
    <3>2. i \in 1..3 <=> i \in Int /\ 1 <= i /\ i <= 3
      OBVIOUS
    <3>3. i \in (k..k) \cap (1..3) <=> i \in k..k /\ i \in 1..3
      OBVIOUS
    <3> QED BY <3>1, <3>2, <3>3
  <2> QED BY <2>1
<1>2. \A k \in 1..3 : KeysAt(k, k) = {AutomaticKeys[k]} \cap Configured
  BY <1>1 DEF KeysAt
<1>3. AutomaticKeys[1] = "verifiedWallet" /\ AutomaticKeys[2] = "participant"
      /\ AutomaticKeys[3] = "matureParticipant"
  BY DEF AutomaticKeys
<1>4. ASSUME NEW i \in Int, NEW j \in Int, NEW r
      PROVE  r \in KeysAt(i, j) <=> \E k \in 1..3 : i <= k /\ k <= j /\ r \in KeysAt(k, k)
  BY <1>2 DEF KeysAt
<1>5. ASSUME NEW i \in 1..3, NEW j \in 1..3, i # j PROVE KeysAt(i, i) \cap KeysAt(j, j) = {}
  BY <1>2, <1>3, <1>5
<1>6. ASSUME NEW r \in Configured PROVE \E k \in 1..3 : r \in KeysAt(k, k)
  BY <1>2, CommunityAssumption
<1>7. KeysAt(0, 0) = {}
  BY DEF KeysAt
<1> QED BY <1>4, <1>5, <1>6, <1>7

(* Steps that touch no job and no role.                                    *)
LEMMA SameRoles ==
  ASSUME RolesInv, UNCHANGED <<saved, member, job, mixed>>
  PROVE  RolesInv'
BY DEF RolesInv, SavedIsReal

(* A job that has only been begun.                                         *)
Fresh(j) == j # Null => j.at = 0 /\ j.call = "asked"

LEMMA SweepsAreFresh ==
  ASSUME NEW j, NEW run, NEW save
  PROVE  /\ Fresh(Following(j, run, save))
         /\ \A queue : Fresh(SweepLinked(queue, run, save))
<1>1. \A kind, user, desired, sweep, queue : Fresh(Begin(kind, user, desired, sweep, queue))
  BY DEF Fresh, Begin
<1>2. ASSUME NEW queue PROVE Fresh(SweepUnlinked(queue))
  BY <1>1 DEF SweepUnlinked, Fresh
<1>3. ASSUME NEW queue PROVE Fresh(SweepLinked(queue, run, save))
  BY <1>1, <1>2 DEF SweepLinked
<1>4. Fresh(Following(j, run, save))
  <2>1. Fresh(Null)
    BY DEF Fresh
  <2> QED BY <1>2, <1>3, <2>1 DEF Following
<1> QED BY <1>3, <1>4

(* The process p comes to wait for a job only begun.                       *)
LEMMA FreshKeepsRoles ==
  ASSUME JobsInv, RolesInv, NEW p \in Procs, NEW j, Fresh(j), j \in Jobs \cup {Null},
         job' = [job EXCEPT ![p] = j],
         mixed' = mixed \cup Overlapping(p, j),
         UNCHANGED member,
         \A u \in Users \ mixed : \A r \in Configured :
           \/ r \in saved'[u] <=> r \in member[u]
           \/ \E q \in Procs \ {p} : Doing(job[q], u, r)
  PROVE  RolesInv'
<1>1. job'[p] = j /\ \A q \in Procs \ {p} : job'[q] = job[q]
  BY DEF JobsInv
<1>2. SavedIsReal'
  BY <1>1 DEF SavedIsReal, Doing
<1>3. ASSUME NEW q \in Procs, NEW s \in Procs, job'[q] # Null, job'[s] # Null, q # s,
             job'[q].user = job'[s].user
      PROVE  job'[q].user \in mixed'
  <2>1. \A t \in Procs : job[t] # Null => job[t].user \in Users
    BY DEF JobsInv, Jobs
  <2>2. \A t \in Procs \ {p} : j # Null /\ job[t] # Null /\ job[t].user = j.user => j.user \in mixed'
    BY <2>1 DEF Overlapping
  <2> QED BY <1>1, <1>3, <2>2 DEF RolesInv
<1>4. ASSUME NEW q \in Procs, job'[q] # Null, job'[q].user \notin mixed'
      PROVE  Knows(job'[q], member'[job'[q].user])
  <2>1. CASE q = p
    BY <1>1, <1>4, <2>1 DEF Knows, Fresh
  <2>2. CASE q # p
    BY <1>1, <1>4, <2>2 DEF RolesInv
  <2> QED BY <2>1, <2>2
<1> QED BY <1>2, <1>3, <1>4 DEF RolesInv

(* When the loop goes on, the table agrees again with what Discord has.    *)
LEMMA SavedAgrees ==
  ASSUME JobsInv, RolesInv, NEW p \in Procs, job[p] # Null, job[p].call = "answered",
         job[p].user \notin mixed,
         NEW next, next = NextCall(job[p]),
         NEW r \in Configured
  PROVE  r \in SavedAfter(job[p], next) <=> r \in member[job[p].user]
<1> DEFINE j == job[p]
           u == j.user
<1>1. /\ j \in Jobs /\ u \in Users /\ j.at \in 0..3 /\ j.call = "answered"
      /\ Knows(j, member[u])
  BY DEF JobsInv, Jobs, RolesInv
<1>2. next \in j.at + 1 .. 4 /\ \A k \in j.at + 1 .. next - 1 : ~NeedsCall(j, k)
  BY <1>1, NextCallLemma
<1>3. PICK k \in 1..3 : r \in KeysAt(k, k)
  BY KeyPositions
<1>4. \A i \in 1..3 : r \in KeysAt(i, i) => i = k
  BY <1>3, KeyPositions
<1>5. r \in KeysAt(j.at, next - 1) <=> j.at <= k /\ k <= next - 1
  <2>1. j.at \in Int /\ next - 1 \in Int
    BY <1>1, <1>2
  <2> HIDE DEF j
  <2> QED BY <1>3, <1>4, <2>1, KeyPositions
<1>6. r \in SavedAfter(j, next) <=>
        IF j.at <= k /\ k <= next - 1 THEN r \in j.desired ELSE r \in saved[u]
  BY <1>5 DEF SavedAfter
<1>7. r \in KeysAt(j.at, j.at) => k = j.at
  BY <1>1, <1>4, KeyPositions
<1>8. k # j.at => (r \in saved[u] <=> r \in member[u])
  <2>1. SUFFICES ASSUME k # j.at PROVE r \in saved[u] <=> r \in member[u]
    OBVIOUS
  <2>2. \A q \in Procs : job[q] # Null /\ job[q].user = u => q = p
    BY DEF RolesInv
  <2>3. ~(r \in KeysAt(j.at, j.at))
    BY <1>7, <2>1
  <2>4. u \in Users \ mixed
    BY <1>1
  <2> QED BY <2>2, <2>3, <2>4 DEF RolesInv, SavedIsReal
<1>9. k = j.at => (r \in member[u] <=> r \in j.desired)
  BY <1>1, <1>3 DEF Knows
<1>10. j.at < k /\ k <= next - 1 => (r \in member[u] <=> r \in j.desired)
  <2> SUFFICES ASSUME j.at < k, k <= next - 1 PROVE r \in member[u] <=> r \in j.desired
    OBVIOUS
  <2>1. k \in j.at + 1 .. next - 1 /\ k \in j.at + 1 .. 3
    BY <1>1, <1>2
  <2>2. KeysAt(k, k) \cap j.desired = KeysAt(k, k) \cap j.existing
    BY <1>2, <2>1 DEF NeedsCall
  <2>3. r \in j.existing <=> r \in member[u]
    BY <1>1, <1>3, <2>1 DEF Knows
  <2> QED BY <1>3, <2>2, <2>3
<1>11. \/ j.at <= k /\ k <= next - 1 /\ (k = j.at \/ j.at < k)
       \/ ~(j.at <= k /\ k <= next - 1) /\ k # j.at
  BY <1>1, <1>2
<1> QED BY <1>6, <1>8, <1>9, <1>10, <1>11

LEMMA ContinueKeepsRoles ==
  ASSUME JobsInv, OwnerInv, RolesInv, NEW p \in Procs, Continue(p)
  PROVE  RolesInv'
<1> DEFINE j    == job[p]
           next == NextCall(j)
           save == [saved EXCEPT ![j.user] = SavedAfter(j, next)]
           then == Following(j, Ended(j), save)
<1>1. j \in Jobs /\ j # Null /\ j.user \in Users /\ j.at \in 0..3 /\ j.call = "answered"
  BY DEF Continue, JobsInv, Jobs
<1>2. saved' = save /\ UNCHANGED member
  BY DEF Continue
<1>3. next \in j.at + 1 .. 4
  BY <1>1, NextCallLemma
<1>4. ASSUME NEW u \in Users \ mixed, NEW r \in Configured
      PROVE  \/ r \in saved'[u] <=> r \in member[u]
             \/ \E q \in Procs \ {p} : Doing(job[q], u, r)
  <2>1. CASE u = j.user
    <3>1. saved'[u] = SavedAfter(j, next)
      BY <1>1, <1>2, <2>1 DEF JobsInv
    <3>2. r \in SavedAfter(j, next) <=> r \in member[j.user]
      BY <1>1, <2>1, SavedAgrees
    <3> QED BY <2>1, <3>1, <3>2
  <2>2. CASE u # j.user
    <3>1. saved'[u] = saved[u]
      BY <1>1, <1>2, <2>2 DEF JobsInv
    <3> QED BY <2>2, <3>1 DEF RolesInv, SavedIsReal, Doing
  <2> QED BY <2>1, <2>2
<1>5. CASE next < 4
  <2> DEFINE new == [j EXCEPT !.at = next, !.call = "asked"]
  <2>1. job' = [job EXCEPT ![p] = new] /\ UNCHANGED mixed
    BY <1>5 DEF Continue
  <2>2. new.user = j.user /\ new.at = next /\ new.call = "asked" /\ new.existing = j.existing
        /\ new # Null
    <3> HIDE DEF next
    <3>1. next \in 0..3
      BY <1>1, <1>3, <1>5
    <3>2. new \in Jobs
      BY <1>1, <3>1 DEF Jobs
    <3> QED BY <1>1, <3>2, NullAssumption DEF Jobs
  <2> HIDE DEF new, save, then
  <2>3. job'[p] = new /\ \A q \in Procs \ {p} : job'[q] = job[q]
    BY <2>1 DEF JobsInv
  <2>4. SavedIsReal'
    BY <1>2, <1>4, <2>1, <2>3 DEF SavedIsReal, Doing
  <2>5. ASSUME j.user \notin mixed PROVE Knows(new, member[j.user])
    <3>1. Knows(j, member[j.user])
      BY <1>1, <2>5 DEF RolesInv
    <3>2. \A k \in next + 1 .. 3 : k \in j.at + 1 .. 3
      <4> HIDE DEF next
      <4> QED BY <1>1, <1>3
    <3> QED BY <1>1, <2>2, <3>1, <3>2 DEF Knows
  <2>6. \A q \in Procs : job'[q] # Null <=> job[q] # Null
    BY <1>1, <2>2, <2>3
  <2>7. \A q \in Procs : job[q] # Null => job'[q].user = job[q].user
    BY <1>1, <2>2, <2>3
  <2>8. \A q \in Procs : job[q] # Null /\ job[q].user \notin mixed
          => Knows(job'[q], member[job[q].user])
    BY <2>3, <2>5 DEF RolesInv
  <2> HIDE DEF j, next
  <2> QED BY <1>2, <2>1, <2>4, <2>6, <2>7, <2>8 DEF RolesInv
<1>6. CASE ~(next < 4)
  <2>1. job' = [job EXCEPT ![p] = then] /\ mixed' = mixed \cup Overlapping(p, then)
    BY <1>6 DEF Continue, Await
  <2>2. Fresh(then)
    BY SweepsAreFresh
  <2>3. then \in Jobs \cup {Null}
    BY <1>1, FollowingType DEF OwnerInv, JobsInv, NextInSweep
  <2> HIDE DEF then, save, j, next
  <2> QED BY <1>2, <1>4, <2>1, <2>2, <2>3, FreshKeepsRoles
<1> QED BY <1>5, <1>6

(* A process begins to wait for a job of its own.                          *)
LEMMA StartKeepsRoles ==
  ASSUME JobsInv, RolesInv, NEW p \in Procs, job[p] = Null,
         NEW j, Fresh(j), j \in Jobs \cup {Null}, Start(p, j),
         UNCHANGED <<saved, member>>
  PROVE  RolesInv'
<1>1. job' = [job EXCEPT ![p] = j] /\ mixed' = mixed \cup Overlapping(p, j)
  BY DEF Start, Await
<1>2. ASSUME NEW u \in Users \ mixed, NEW r \in Configured
      PROVE  \/ r \in saved'[u] <=> r \in member[u]
             \/ \E q \in Procs \ {p} : Doing(job[q], u, r)
  BY DEF RolesInv, SavedIsReal, Doing
<1> QED BY <1>1, <1>2, FreshKeepsRoles

LEMMA VerifyKeepsRoles ==
  ASSUME JobsInv, OwnerInv, RolesInv, NEW p \in Procs, NEW c \in Challenges,
         VerifyAndLink(p, c)
  PROVE  RolesInv'
<1> DEFINE u   == challenge[c].user
           row == LinkedRow(u, challenge[c].wallet)
<1>1. u \in Users /\ challenge[c].wallet \in Wallets
  BY DEF VerifyAndLink, OwnerInv, ChallengeRecords
<1>2. row \in Rows
  <2>1. (rows[u].public /\ rows[u].wallet = challenge[c].wallet) \in BOOLEAN
    OBVIOUS
  <2> QED BY <1>1, <2>1 DEF LinkedRow, Rows
<1>3. UNCHANGED <<saved, member>> /\ job[p] = Null
  BY DEF VerifyAndLink
<1>4. CASE u \in running
  <2>1. UNCHANGED <<job, mixed>>
    BY <1>4 DEF VerifyAndLink
  <2> QED BY <1>3, <2>1, SameRoles
<1>5. CASE u \notin running
  <2> DEFINE b == Begin("sync", u, DesiredRoles(row), "none", <<>>)
  <2>1. Start(p, b)
    BY <1>5 DEF VerifyAndLink
  <2>2. b \in Jobs
    <3>1. DesiredRoles(row) \in SUBSET Configured
      BY <1>2, DesiredAreConfigured DEF JobsInv
    <3> HIDE DEF row, u
    <3> QED BY <1>1, <3>1, EmptyQueue, BeginType
  <2>3. Fresh(b)
    BY DEF Fresh, Begin
  <2> HIDE DEF b, u
  <2> QED BY <1>3, <2>1, <2>2, <2>3, StartKeepsRoles
<1> QED BY <1>4, <1>5

LEMMA SyncRolesKeepsRoles ==
  ASSUME JobsInv, OwnerInv, RolesInv, NEW p \in Procs, NEW u \in Users, SyncRoles(p, u)
  PROVE  RolesInv'
<1> DEFINE b == Begin("sync", u, DesiredRoles(rows[u]), "none", <<>>)
<1>1. job[p] = Null /\ Start(p, b) /\ UNCHANGED <<saved, member>>
  BY DEF SyncRoles, stored
<1>2. b \in Jobs
  <2>1. DesiredRoles(rows[u]) \in SUBSET Configured
    BY DesiredAreConfigured DEF JobsInv, OwnerInv
  <2> QED BY <2>1, EmptyQueue, BeginType
<1>3. Fresh(b)
  BY DEF Fresh, Begin
<1> HIDE DEF b
<1> QED BY <1>1, <1>2, <1>3, StartKeepsRoles

LEMMA UnlinkKeepsRoles ==
  ASSUME JobsInv, RolesInv, NEW p \in Procs, NEW u \in Users, Unlink(p, u)
  PROVE  RolesInv'
<1> DEFINE b == Begin("cleanup", u, {}, "none", <<>>)
<1>1. job[p] = Null /\ Start(p, b) /\ UNCHANGED <<saved, member>>
  BY DEF Unlink
<1>2. b \in Jobs
  <2>1. {} \in SUBSET Configured
    OBVIOUS
  <2> QED BY <2>1, EmptyQueue, BeginType
<1>3. Fresh(b)
  BY DEF Fresh, Begin
<1> HIDE DEF b
<1> QED BY <1>1, <1>2, <1>3, StartKeepsRoles

LEMMA SyncAllKeepsRoles ==
  ASSUME JobsInv, OwnerInv, RolesInv, NEW p \in Procs, SyncAll(p)
  PROVE  RolesInv'
<1> DEFINE j == SweepLinked(LinkedRows, running, saved)
<1>1. job[p] = Null /\ Start(p, j) /\ UNCHANGED <<saved, member>>
  BY DEF SyncAll, stored
<1>2. LinkedRows \in Queues
  <2> DEFINE S == {v \in Users : Linked(v)}
  <2>1. LinkedRows = [u \in S |-> rows[u]] /\ S \in SUBSET Users
    BY DEF LinkedRows
  <2> HIDE DEF S
  <2> QED BY <2>1, ListType DEF OwnerInv
<1>3. j \in Jobs \cup {Null}
  BY <1>2, SweepLinkedType DEF JobsInv, OwnerInv, NextInSweep
<1>4. Fresh(j)
  BY SweepsAreFresh
<1> HIDE DEF j
<1> QED BY <1>1, <1>3, <1>4, StartKeepsRoles

LEMMA GiveUpKeepsRoles ==
  ASSUME JobsInv, OwnerInv, RolesInv, NEW p \in Procs, GiveUp(p)
  PROVE  RolesInv'
<1> DEFINE then == Following(job[p], Ended(job[p]), saved)
<1>1. /\ job[p] \in Jobs /\ job[p].call = "failed"
      /\ job' = [job EXCEPT ![p] = then] /\ mixed' = mixed \cup Overlapping(p, then)
      /\ UNCHANGED <<saved, member>>
  BY DEF GiveUp, Await, JobsInv, stored
<1>2. then \in Jobs \cup {Null}
  BY <1>1, FollowingType DEF OwnerInv, JobsInv, NextInSweep
<1>3. Fresh(then)
  BY SweepsAreFresh
<1>4. ASSUME NEW u \in Users \ mixed, NEW r \in Configured
      PROVE  \/ r \in saved'[u] <=> r \in member[u]
             \/ \E q \in Procs \ {p} : Doing(job[q], u, r)
  BY <1>1 DEF RolesInv, SavedIsReal, Doing
<1> HIDE DEF then
<1> QED BY <1>1, <1>2, <1>3, <1>4, FreshKeepsRoles

(* A call that fails is no longer one of which its job knows anything; of  *)
(* the user whose answer is lost nothing is promised any more.             *)
LEMMA FailureKeepsRoles ==
  ASSUME JobsInv, RolesInv, NEW p \in Procs, DiscordRefuses(p) \/ AnswerIsLost(p)
  PROVE  RolesInv'
<1> DEFINE new == [job[p] EXCEPT !.call = "failed"]
<1>1. /\ job[p] \in Jobs /\ job[p] # Null
      /\ job' = [job EXCEPT ![p] = new]
      /\ \/ job[p].call = "asked" /\ mixed' = mixed
         \/ mixed' = mixed \cup {job[p].user}
      /\ UNCHANGED <<saved, member>>
  BY DEF DiscordRefuses, AnswerIsLost, stored, JobsInv
<1>2. new \in Jobs /\ new # Null /\ new.user = job[p].user /\ new.call = "failed"
  <2>1. new \in Jobs
    BY <1>1 DEF Jobs
  <2> QED BY <1>1, <2>1, NullAssumption DEF Jobs
<1>3. job'[p] = new /\ \A q \in Procs \ {p} : job'[q] = job[q]
  BY <1>1 DEF JobsInv
<1> HIDE DEF new
<1>4. \A q \in Procs : /\ job'[q] # Null <=> job[q] # Null
                       /\ job[q] # Null => job'[q].user = job[q].user
  BY <1>1, <1>2, <1>3
<1>5. SavedIsReal'
  <2> SUFFICES ASSUME NEW u \in Users \ mixed', NEW r \in Configured,
                      ~(r \in saved'[u] <=> r \in member'[u])
               PROVE  \E q \in Procs : Doing(job'[q], u, r)
    BY DEF SavedIsReal, Doing
  <2>1. PICK q \in Procs : Doing(job[q], u, r)
    BY <1>1 DEF RolesInv, SavedIsReal, Doing
  <2>2. q # p
    BY <1>1, <2>1 DEF Doing
  <2> QED BY <1>3, <2>1, <2>2
<1>6. \A q \in Procs : job[q] # Null /\ job[q].user \notin mixed'
        => Knows(job'[q], member[job[q].user])
  <2>1. \A q \in Procs \ {p} : job[q] # Null /\ job[q].user \notin mixed'
          => Knows(job'[q], member[job[q].user])
    BY <1>1, <1>3 DEF RolesInv
  <2>2. Knows(new, member[job[p].user])
    BY <1>2 DEF Knows
  <2> QED BY <1>3, <2>1, <2>2
<1> QED BY <1>1, <1>4, <1>5, <1>6 DEF RolesInv

(* Discord tells what the member has, or changes the role of one key, of   *)
(* a user whom no other job works on.                                      *)
LEMMA AnswerKeepsRoles ==
  ASSUME JobsInv, RolesInv, NEW p \in Procs, DiscordAnswers(p)
  PROVE  RolesInv'
<1> DEFINE j == job[p]
           key == KeysAt(j.at, j.at)
<1>1. /\ j \in Jobs /\ j # Null /\ j.user \in Users /\ j.at \in 0..3 /\ j.call = "asked"
      /\ UNCHANGED <<saved, mixed>>
  BY DEF DiscordAnswers, JobsInv, Jobs, stored
<1>2. PICK new \in Jobs :
        /\ job' = [job EXCEPT ![p] = new]
        /\ new.user = j.user /\ new.at = j.at /\ new.desired = j.desired
        /\ new.call = "answered"
        /\ \/ j.at = 0 /\ new.existing = member[j.user] /\ UNCHANGED member
           \/ /\ j.at # 0 /\ new.existing = j.existing
              /\ member' = [member EXCEPT ![j.user] =
                              (member[j.user] \ key) \cup (key \cap j.desired)]
  <2>1. CASE j.at = 0
    <3> DEFINE n == [j EXCEPT !.call = "answered", !.existing = member[j.user]]
    <3>1. job' = [job EXCEPT ![p] = n] /\ UNCHANGED member
      BY <2>1 DEF DiscordAnswers
    <3>2. member[j.user] \in SUBSET Configured
      BY <1>1 DEF JobsInv
    <3>3. n \in Jobs
      BY <1>1, <3>2 DEF Jobs
    <3>4. /\ n.user = j.user /\ n.at = j.at /\ n.desired = j.desired
          /\ n.call = "answered" /\ n.existing = member[j.user]
      BY <1>1 DEF Jobs
    <3> HIDE DEF n
    <3> QED BY <2>1, <3>1, <3>3, <3>4
  <2>2. CASE j.at # 0
    <3> DEFINE n == [j EXCEPT !.call = "answered"]
    <3>1. /\ job' = [job EXCEPT ![p] = n]
          /\ member' = [member EXCEPT ![j.user] =
                          (member[j.user] \ key) \cup (key \cap j.desired)]
      BY <2>2 DEF DiscordAnswers
    <3>2. n \in Jobs
      BY <1>1 DEF Jobs
    <3>3. /\ n.user = j.user /\ n.at = j.at /\ n.desired = j.desired
          /\ n.call = "answered" /\ n.existing = j.existing
      BY <1>1 DEF Jobs
    <3> HIDE DEF n, key
    <3> QED BY <2>2, <3>1, <3>2, <3>3
  <2> QED BY <2>1, <2>2
<1>3. job'[p] = new /\ new # Null /\ \A q \in Procs \ {p} : job'[q] = job[q]
  BY <1>2, NullAssumption DEF JobsInv
<1>4. /\ \A u \in Users \ {j.user} : member'[u] = member[u]
      /\ \A r : r \notin key => (r \in member'[j.user] <=> r \in member[j.user])
      /\ \A r \in key : r \in member'[j.user] <=> r \in j.desired
  <2>1. CASE j.at = 0
    <3>1. key = {}
      BY <2>1, KeyPositions
    <3> HIDE DEF key, j
    <3> QED BY <1>2, <2>1, <3>1
  <2>2. CASE j.at # 0
    <3>1. member'[j.user] = (member[j.user] \ key) \cup (key \cap j.desired)
      BY <1>1, <1>2, <2>2 DEF JobsInv
    <3>2. \A u \in Users \ {j.user} : member'[u] = member[u]
      BY <1>2, <2>2 DEF JobsInv
    <3> HIDE DEF key, j
    <3> QED BY <3>1, <3>2
  <2> QED BY <2>1, <2>2
<1>5. j.user \notin mixed => \A q \in Procs \ {p} : job[q] # Null => job[q].user # j.user
  BY <1>1 DEF RolesInv
<1>6. SavedIsReal'
  <2> SUFFICES ASSUME NEW u \in Users \ mixed, NEW r \in Configured,
                      ~(r \in saved[u] <=> r \in member'[u])
               PROVE  \E q \in Procs : Doing(job'[q], u, r)
    BY <1>1 DEF SavedIsReal, Doing
  <2>1. CASE u = j.user /\ r \in key
    BY <1>2, <1>3, <2>1 DEF Doing
  <2>2. CASE ~(u = j.user /\ r \in key)
    <3>1. ~(r \in saved[u] <=> r \in member[u])
      <4> HIDE DEF key, j
      <4> QED BY <1>4, <2>2
    <3>2. PICK q \in Procs : Doing(job[q], u, r)
      BY <3>1 DEF RolesInv, SavedIsReal, Doing
    <3>3. q # p
      BY <1>1, <3>2 DEF Doing
    <3> QED BY <1>3, <3>2, <3>3
  <2> QED BY <2>1, <2>2
<1>7. ASSUME j.user \notin mixed PROVE Knows(new, member'[j.user])
  <2>1. \A r \in KeysAt(new.at, new.at) : r \in member'[j.user] <=> r \in new.desired
    <3> HIDE DEF j
    <3> QED BY <1>2, <1>4
  <2>2. ASSUME NEW k \in new.at + 1 .. 3, NEW r \in KeysAt(k, k)
        PROVE  r \in new.existing <=> r \in member'[j.user]
    <3>1. CASE j.at = 0
      <4> HIDE DEF j, key
      <4> QED BY <1>2, <3>1
    <3>2. CASE j.at # 0
      <4>1. k \in 1..3 /\ j.at \in 1..3 /\ k # j.at /\ k \in j.at + 1 .. 3
        BY <1>1, <1>2, <3>2
      <4>2. r \notin key
        BY <4>1, KeyPositions
      <4>3. r \in member'[j.user] <=> r \in member[j.user]
        <5> HIDE DEF j, key
        <5> QED BY <1>4, <4>2
      <4>4. Knows(j, member[j.user])
        BY <1>1, <1>7 DEF RolesInv
      <4>5. r \in j.existing <=> r \in member[j.user]
        BY <1>1, <3>2, <4>1, <4>4 DEF Knows
      <4> QED BY <1>2, <3>2, <4>3, <4>5
    <3> QED BY <3>1, <3>2
  <2> QED BY <2>1, <2>2 DEF Knows
<1>8. \A q \in Procs : /\ job'[q] # Null <=> job[q] # Null
                       /\ job[q] # Null => job'[q].user = job[q].user
  BY <1>1, <1>2, <1>3
<1>9. ASSUME NEW q \in Procs, job[q] # Null, job[q].user \notin mixed
      PROVE  Knows(job'[q], member'[job[q].user])
  <2>1. CASE q = p
    BY <1>3, <1>7, <1>9, <2>1
  <2>2. CASE q # p
    <3>1. job[q].user \in Users
      BY <1>9 DEF JobsInv, Jobs
    <3>2. Knows(job[q], member[job[q].user])
      BY <1>9 DEF RolesInv
    <3>3. job[q].user # j.user
      BY <1>5, <1>9, <2>2
    <3>4. member'[job[q].user] = member[job[q].user]
      BY <1>4, <3>1, <3>3
    <3> QED BY <1>3, <2>2, <3>2, <3>4
  <2> QED BY <2>1, <2>2
<1> HIDE DEF j
<1> QED BY <1>1, <1>6, <1>8, <1>9 DEF RolesInv

(* A crash leaves no job, and the users of those there were promised       *)
(* nothing any more.                                                       *)
LEMMA RestartKeepsRoles == JobsInv /\ RolesInv /\ Restart => RolesInv'
<1> SUFFICES ASSUME JobsInv, RolesInv, Restart PROVE RolesInv'
  OBVIOUS
<1>1. /\ \A q \in Procs : job'[q] = Null
      /\ mixed' = mixed \cup {u \in Users : Busy(u)}
      /\ UNCHANGED <<saved, member>>
  BY DEF Restart, stored
<1>2. SavedIsReal'
  BY <1>1 DEF RolesInv, SavedIsReal, Busy
<1> QED BY <1>1, <1>2 DEF RolesInv

LEMMA RolesStep == JobsInv /\ OwnerInv /\ RolesInv /\ [Next]_vars => RolesInv'
<1> SUFFICES ASSUME JobsInv, OwnerInv, RolesInv, [Next]_vars PROVE RolesInv'
  OBVIOUS
<1>1. CASE UNCHANGED vars
  BY <1>1, SameRoles DEF vars
<1>2. ASSUME NEW w \in Wallets, ChainChanges(w) PROVE RolesInv'
  BY <1>2, SameRoles DEF ChainChanges, stored
<1>3. ASSUME NEW u \in Users, NEW w \in Wallets, NEW c \in Challenges, CreateChallenge(u, w, c)
      PROVE  RolesInv'
  BY <1>3, SameRoles DEF CreateChallenge
<1>4. ASSUME NEW c \in Challenges, ChallengeExpires(c) PROVE RolesInv'
  BY <1>4, SameRoles DEF ChallengeExpires
<1>5. ASSUME NEW u \in Users, UpdatePrivacy(u) PROVE RolesInv'
  BY <1>5, SameRoles DEF UpdatePrivacy
<1>6. ASSUME NEW p \in Requests, RequestNext(p) PROVE RolesInv'
  <2>1. p \in Procs
    BY DEF Procs
  <2> QED BY <1>6, <2>1, VerifyKeepsRoles, SyncRolesKeepsRoles, UnlinkKeepsRoles DEF RequestNext
<1>7. ASSUME NEW p \in Sweeps, SyncAll(p) PROVE RolesInv'
  <2>1. p \in Procs
    BY DEF Procs
  <2> QED BY <1>7, <2>1, SyncAllKeepsRoles
<1>8. ASSUME NEW p \in Procs, JobNext(p) PROVE RolesInv'
  BY <1>8, AnswerKeepsRoles, FailureKeepsRoles, ContinueKeepsRoles, GiveUpKeepsRoles DEF JobNext
<1>9. CASE Restart
  BY <1>9, RestartKeepsRoles
<1> QED BY <1>1, <1>2, <1>3, <1>4, <1>5, <1>6, <1>7, <1>8, <1>9 DEF Next

(* The roles saved as applied are those the user has on Discord, but for   *)
(* the one whose call was carried out and has not returned, while no       *)
(* answer was lost and one job at a time worked on the user: through       *)
(* refused calls, sweeps that overlap, and changes of the link or of the   *)
(* chain in the middle of a job (syncIdentity and its saveRoleState).     *)
THEOREM SavedRolesAreReal == Spec => []SavedIsReal
<1>1. CommunityInv /\ RolesInv /\ [Next]_vars => RolesInv'
  BY RolesStep DEF CommunityInv
<1>2. RolesInv => SavedIsReal
  BY DEF RolesInv
<1> QED BY <1>1, <1>2, RolesInit, CommunityInvariance, PTL DEF Spec

-----------------------------------------------------------------------------
(* The wallet page and the storage of its browser.                         *)

Wallet == Addresses \cup {None}

(* A list of wallets, none of them twice, and one of them selected.        *)
Lists == {list \in Seq(Addresses) : IsInjective(list)}

Selects(list, w) == w \in ToSet(list) \cup {None}

LEMMA ListFacts ==
  ASSUME NEW list \in Lists
  PROVE  /\ Len(list) \in Nat /\ DOMAIN list = 1 .. Len(list)
         /\ \A i \in 1 .. Len(list) : list[i] \in Addresses
         /\ \A i, j \in 1 .. Len(list) : list[i] = list[j] => i = j
         /\ ToSet(list) \subseteq Addresses
         /\ \A w : w \in ToSet(list) <=> \E i \in 1 .. Len(list) : list[i] = w
         /\ list = <<>> => ToSet(list) = {}
         /\ list # <<>> => Len(list) > 0
<1>1. list \in Seq(Addresses) /\ IsInjective(list)
  BY DEF Lists
<1>2. Len(list) \in Nat /\ DOMAIN list = 1 .. Len(list)
  BY <1>1, LenProperties
<1>3. \A i \in 1 .. Len(list) : list[i] \in Addresses
  BY <1>1, ElementOfSeq
<1>4. \A i, j \in 1 .. Len(list) : list[i] = list[j] => i = j
  BY <1>1, <1>2 DEF IsInjective
<1>5. ASSUME NEW w PROVE w \in ToSet(list) <=> \E i \in 1 .. Len(list) : list[i] = w
  BY <1>2 DEF ToSet
<1>6. list = <<>> => ToSet(list) = {}
  BY DEF ToSet
<1>7. list # <<>> => Len(list) > 0
  BY <1>1, <1>2, EmptySeq
<1> QED BY <1>2, <1>3, <1>4, <1>5, <1>6, <1>7

(* splice removes one wallet, and no other.                                *)
LEMMA WithoutLemma ==
  ASSUME NEW p, p.list \in Lists, NEW w \in ToSet(p.list)
  PROVE  /\ Without(p, w) \in Lists
         /\ ToSet(Without(p, w)) = ToSet(p.list) \ {w}
         /\ IndexOf(p, w) \in 1 .. Len(p.list) /\ p.list[IndexOf(p, w)] = w
         /\ Len(Without(p, w)) = Len(p.list) - 1
<1> DEFINE list == p.list
           i == IndexOf(p, w)
           before == SubSeq(list, 1, i - 1)
           after == SubSeq(list, i + 1, Len(list))
<1>1. i \in 1 .. Len(list) /\ list[i] = w
  <2>1. \E n \in DOMAIN list : list[n] = w
    BY ListFacts
  <2>2. i \in DOMAIN list /\ list[i] = w
    BY <2>1 DEF IndexOf
  <2> QED BY <2>2, ListFacts
<1>2. Len(list) \in Nat /\ list \in Lists
  BY ListFacts
<1>3. Without(p, w) = before \o after
  BY DEF Without, RemoveAt
<1> HIDE DEF i, list
<1>4. /\ before \in Seq(Addresses) /\ Len(before) = i - 1
      /\ \A k \in 1 .. i - 1 : before[k] = list[k]
  <2>1. i - 1 \in Int /\ \A k \in 1 .. i - 1 : list[k] \in Addresses
    BY <1>1, <1>2, ListFacts
  <2>2. /\ before \in Seq(Addresses)
        /\ Len(before) = IF 1 <= i - 1 THEN i - 1 - 1 + 1 ELSE 0
        /\ \A k \in 1 .. i - 1 - 1 + 1 : before[k] = list[1 + k - 1]
    BY <2>1, SubSeqProperties
  <2> HIDE DEF before
  <2>3. /\ i - 1 - 1 + 1 = i - 1 /\ (1 <= i - 1 \/ i - 1 = 0)
        /\ \A k \in 1 .. i - 1 : 1 + k - 1 = k
    BY <1>1
  <2>4. Len(before) = i - 1
    BY <2>2, <2>3
  <2>5. \A k \in 1 .. i - 1 : before[k] = list[k]
    BY <2>2, <2>3
  <2> QED BY <2>2, <2>4, <2>5
<1>5. /\ after \in Seq(Addresses) /\ Len(after) = Len(list) - i
      /\ \A k \in 1 .. Len(list) - i : after[k] = list[i + k]
  <2>1. i + 1 \in Int /\ Len(list) \in Int /\ \A k \in i + 1 .. Len(list) : list[k] \in Addresses
    BY <1>1, <1>2, ListFacts
  <2>2. /\ after \in Seq(Addresses)
        /\ Len(after) = IF i + 1 <= Len(list) THEN Len(list) - (i + 1) + 1 ELSE 0
        /\ \A k \in 1 .. Len(list) - (i + 1) + 1 : after[k] = list[i + 1 + k - 1]
    BY <2>1, SubSeqProperties
  <2> HIDE DEF after
  <2>3. /\ Len(list) - (i + 1) + 1 = Len(list) - i
        /\ i + 1 <= Len(list) \/ Len(list) - i = 0
        /\ \A k \in 1 .. Len(list) - i : i + 1 + k - 1 = i + k
    BY <1>1, <1>2
  <2>4. Len(after) = Len(list) - i
    BY <2>2, <2>3
  <2>5. \A k \in 1 .. Len(list) - i : after[k] = list[i + k]
    BY <2>2, <2>3
  <2> QED BY <2>2, <2>4, <2>5
<1> DEFINE rest == before \o after
<1>6. /\ rest \in Seq(Addresses) /\ Len(rest) = Len(list) - 1
      /\ \A k \in 1 .. Len(list) - 1 : rest[k] = IF k < i THEN list[k] ELSE list[k + 1]
  <2> HIDE DEF before, after
  <2>1. /\ before \o after \in Seq(Addresses)
        /\ Len(before \o after) = Len(before) + Len(after)
        /\ \A k \in 1 .. Len(before) + Len(after) : (before \o after)[k] =
             IF k <= Len(before) THEN before[k] ELSE after[k - Len(before)]
    BY <1>4, <1>5, ConcatProperties
  <2>2. Len(before) + Len(after) = Len(list) - 1
    BY <1>1, <1>2, <1>4, <1>5
  <2>3. ASSUME NEW k \in 1 .. Len(list) - 1
        PROVE  rest[k] = IF k < i THEN list[k] ELSE list[k + 1]
    <3>1. CASE k < i
      BY <1>1, <1>2, <1>4, <2>1, <2>2, <3>1
    <3>2. CASE ~(k < i)
      <4>1. k - (i - 1) \in 1 .. Len(list) - i /\ i + (k - (i - 1)) = k + 1
        BY <1>1, <1>2, <3>2
      <4>2. after[k - (i - 1)] = list[k + 1]
        BY <1>5, <4>1
      <4> QED BY <1>1, <1>2, <1>4, <2>1, <2>2, <3>2, <4>2
    <3> QED BY <3>1, <3>2
  <2> QED BY <2>1, <2>2, <2>3
<1> HIDE DEF rest, before, after
<1>7. DOMAIN rest = 1 .. Len(list) - 1
  BY <1>6, LenProperties
<1>8. rest \in Lists
  <2>1. ASSUME NEW j \in 1 .. Len(list) - 1, NEW k \in 1 .. Len(list) - 1, rest[j] = rest[k]
        PROVE  j = k
    <3> DEFINE at(n) == IF n < i THEN n ELSE n + 1
    <3>1. /\ at(j) \in 1 .. Len(list) /\ rest[j] = list[at(j)]
          /\ at(k) \in 1 .. Len(list) /\ rest[k] = list[at(k)]
      BY <1>1, <1>2, <1>6
    <3>2. at(j) = at(k)
      <4>1. \A a, b \in 1 .. Len(list) : list[a] = list[b] => a = b
        BY <1>2, ListFacts
      <4>2. list[at(j)] = list[at(k)]
        BY <2>1, <3>1
      <4> HIDE DEF at
      <4> QED BY <3>1, <4>1, <4>2
    <3> QED BY <1>1, <1>2, <3>2
  <2> QED BY <1>6, <1>7, <2>1 DEF Lists, IsInjective
<1>9. ToSet(rest) = ToSet(list) \ {w}
  <2>1. ASSUME NEW v PROVE v \in ToSet(rest) <=> \E k \in 1 .. Len(list) - 1 : rest[k] = v
    BY <1>7 DEF ToSet
  <2>2. ASSUME NEW k \in 1 .. Len(list) - 1 PROVE rest[k] \in ToSet(list) \ {w}
    <3>1. PICK n \in 1 .. Len(list) : n # i /\ rest[k] = list[n]
      <4>1. CASE k < i
        BY <1>1, <1>2, <1>6, <4>1
      <4>2. CASE ~(k < i)
        <5>1. k + 1 \in 1 .. Len(list) /\ k + 1 # i
          BY <1>1, <1>2, <4>2
        <5> QED BY <1>6, <4>2, <5>1
      <4> QED BY <4>1, <4>2
    <3> QED BY <1>1, <1>2, <3>1, ListFacts
  <2>3. ASSUME NEW n \in 1 .. Len(list), list[n] # w
        PROVE  \E k \in 1 .. Len(list) - 1 : rest[k] = list[n]
    <3>1. CASE n < i
      BY <1>1, <1>2, <1>6, <3>1
    <3>2. CASE i < n
      <4>1. n - 1 \in 1 .. Len(list) - 1 /\ ~(n - 1 < i) /\ n - 1 + 1 = n
        BY <1>1, <1>2, <3>2
      <4> QED BY <1>6, <4>1
    <3> QED BY <1>1, <1>2, <2>3, <3>1, <3>2
  <2>4. ASSUME NEW v PROVE v \in ToSet(rest) <=> v \in ToSet(list) \ {w}
    <3>1. v \in ToSet(list) <=> \E n \in 1 .. Len(list) : list[n] = v
      BY <1>2, ListFacts
    <3>2. v \in ToSet(rest) => v \in ToSet(list) \ {w}
      BY <2>1, <2>2
    <3>3. v \in ToSet(list) \ {w} => v \in ToSet(rest)
      BY <2>1, <2>3, <3>1
    <3> QED BY <3>2, <3>3
  <2> QED BY <2>4
<1> QED BY <1>1, <1>3, <1>6, <1>8, <1>9 DEF i, list, rest

LEMMA AppendLemma ==
  ASSUME NEW list \in Lists, NEW w \in Addresses, w \notin ToSet(list)
  PROVE  /\ Append(list, w) \in Lists /\ Append(list, w) # <<>>
         /\ ToSet(Append(list, w)) = ToSet(list) \cup {w}
<1> DEFINE longer == Append(list, w)
           n == Len(list)
<1>1. /\ n \in Nat /\ \A i \in 1 .. n : list[i] # w
      /\ \A i, j \in 1 .. n : list[i] = list[j] => i = j
      /\ \A v : v \in ToSet(list) <=> \E i \in 1 .. n : list[i] = v
  BY ListFacts
<1>2. /\ longer \in Seq(Addresses) /\ longer # <<>> /\ Len(longer) = n + 1
      /\ \A i \in 1 .. n : longer[i] = list[i]
      /\ longer[n + 1] = w
  BY AppendProperties DEF Lists
<1>3. DOMAIN longer = 1 .. n + 1
  BY <1>2, LenProperties
<1> HIDE DEF longer, n
<1>4. ASSUME NEW i \in 1 .. n + 1, NEW j \in 1 .. n + 1, longer[i] = longer[j]
      PROVE  i = j
  <2>1. \A k \in 1 .. n + 1 : k \in 1 .. n \/ k = n + 1
    BY <1>1
  <2> QED BY <1>1, <1>2, <1>4, <2>1
<1>5. ASSUME NEW v PROVE v \in ToSet(longer) <=> v \in ToSet(list) \cup {w}
  <2>1. v \in ToSet(longer) <=> \E i \in 1 .. n + 1 : longer[i] = v
    BY <1>3 DEF ToSet
  <2>2. \A k \in 1 .. n + 1 : k \in 1 .. n \/ k = n + 1
    BY <1>1
  <2>3. n + 1 \in 1 .. n + 1 /\ \A k \in 1 .. n : k \in 1 .. n + 1
    BY <1>1
  <2>4. v \in ToSet(longer) => v \in ToSet(list) \cup {w}
    BY <1>1, <1>2, <2>1, <2>2
  <2>5. v \in ToSet(list) => v \in ToSet(longer)
    BY <1>1, <1>2, <2>1, <2>3
  <2>6. v = w => v \in ToSet(longer)
    BY <1>2, <2>1, <2>3
  <2> QED BY <2>4, <2>5, <2>6
<1> QED BY <1>2, <1>3, <1>4, <1>5 DEF Lists, IsInjective, longer

-----------------------------------------------------------------------------

Disks == [list : Lists, selected : Wallet, legacy : Wallet]

PageTypes ==
  [open : BOOLEAN, list : Lists, selected : Wallet, wallet : Wallet, off : SUBSET Switches,
   making : Nat, filling : Nat, dialog : BOOLEAN, held : BOOLEAN, twice : BOOLEAN,
   timer : BOOLEAN, panel : Wallet, asked : SUBSET Addresses]

PageRecords ==
  {p \in PageTypes :
     /\ Selects(p.list, p.selected)
     /\ p.dialog \/ p.twice \/ p.making > 0 \/ p.filling > 0 => p.open}

(* What a click knows of its wallet it knows of some wallet.               *)
FlowRecords ==
  {f \in [at : {"idle", "status", "nonce", "hash", "dialog", "sending", "polling"},
          kind : Kinds, from : Wallet, nonce : Nat] :
     f.at \in {"nonce", "hash", "dialog", "sending"} => f.from # None}

(* The types of the pages, of the storage and of the clicks.               *)
PagesInv ==
  /\ disk \in Disks
  /\ page \in [Tabs -> PageRecords]
  /\ flow \in [Tabs -> [Slots -> FlowRecords]]
  /\ IsFiniteSet(pool) /\ \A tx \in pool : tx.from \in Addresses

Ever == added \cup removed \cup unsure

(* A wallet that is somewhere was added once: a new one is nowhere.        *)
KnownInv ==
  /\ ToSet(Read.list) \subseteq Ever /\ disk.legacy \in Ever \cup {None}
  /\ \A t \in Tabs : ToSet(page[t].list) \subseteq Ever

Transferring(t, s) == flow[t][s].kind = "transfer" /\ flow[t][s].at # "idle"

(* Without the enter key a page creates one wallet at a time, and during   *)
(* it no transfer can be begun.                                            *)
Alone(p) ==
  ~p.twice => /\ <<p.making, p.filling>> \in {<<0, 0>>, <<1, 0>>, <<0, 1>>}
              /\ p.making > 0 \/ p.filling > 0 => "transfer" \in p.off

(* The page bars what would start another transfer or enable its button.   *)
Bars(p) ==
  /\ {"transfer", "create"} \subseteq p.off
  /\ p.open /\ ~p.dialog /\ p.making = 0 /\ p.filling = 0

(* A transfer that is under way is alone, and keeps the buttons disabled   *)
(* that would start another or enable it.                                  *)
TransferInv ==
  \A t \in Tabs :
    /\ Alone(page[t])
    /\ ~page[t].twice =>
         /\ \A r, s \in Slots : Transferring(t, r) /\ Transferring(t, s) => r = s
         /\ \A s \in Slots : Transferring(t, s) => Bars(page[t])

(* The only page has what is stored, up to what is in doubt, and only such *)
(* a wallet is left in the legacy entry.                                   *)
KeysInv ==
  /\ KeysAreKept
  /\ disk.legacy \in added \cup unsure \cup {None}
  /\ \A t \in Tabs : page[t].open =>
       /\ added \subseteq ToSet(page[t].list)
       /\ ToSet(page[t].list) \subseteq added \cup unsure

LEMMA ReadLemma ==
  ASSUME NEW d \in Disks, disk = d
  PROVE  /\ Read.list \in Lists
         /\ Read.selected \in Wallet /\ Selects(Read.list, Read.selected)
         /\ d.list # <<>> => Read.list = d.list
         /\ d.list = <<>> /\ d.legacy = None => Read.list = <<>>
<1>1. <<>> \in Lists
  BY EmptySeq DEF Lists, IsInjective
<1>2. \A w \in Addresses : <<w>> \in Lists
  <2> SUFFICES ASSUME NEW w \in Addresses PROVE <<w>> \in Lists
    OBVIOUS
  <2>1. <<w>> \in Seq(Addresses) /\ DOMAIN <<w>> = {1}
    OBVIOUS
  <2> QED BY <2>1 DEF Lists, IsInjective
<1> DEFINE legacy == IF disk.legacy = None THEN <<>> ELSE <<disk.legacy>>
           list   == IF disk.list = <<>> THEN legacy ELSE disk.list
<1>3. list \in Lists
  BY <1>1, <1>2 DEF Disks, Wallet
<1>4. Read = [list |-> list,
              selected |-> IF disk.selected \in ToSet(list) THEN disk.selected ELSE FirstOf(list)]
  BY DEF Read
<1>5. d.list # <<>> => list = d.list
  OBVIOUS
<1>6. d.list = <<>> /\ d.legacy = None => list = <<>>
  OBVIOUS
<1> HIDE DEF list
<1>7. ToSet(list) \subseteq Addresses
  BY <1>3, ListFacts
<1>8. Selects(list, FirstOf(list))
  <2>1. CASE list = <<>>
    BY <2>1 DEF FirstOf, Selects
  <2>2. CASE list # <<>>
    <3>1. 1 \in 1 .. Len(list)
      BY <1>3, <2>2, ListFacts
    <3>2. list[1] \in ToSet(list)
      BY <1>3, <3>1, ListFacts
    <3> QED BY <2>2, <3>2 DEF FirstOf, Selects
  <2> QED BY <2>1, <2>2
<1>9. /\ Read.list = list
      /\ Selects(list, Read.selected)
  BY <1>4, <1>8 DEF Selects
<1>10. Read.selected \in Wallet
  BY <1>7, <1>9 DEF Selects, Wallet
<1> QED BY <1>3, <1>5, <1>6, <1>9, <1>10

LEMMA StoragesAreDisks == Storages \subseteq Disks
<1> SUFFICES ASSUME NEW d \in Storages PROVE d \in Disks
  OBVIOUS
<1> QED BY WalletAssumption DEF WalletAssumption, Disks, Lists, Wallet

LEMMA ClosedIsAPage ==
  /\ Closed \in PageRecords /\ Closed.list = <<>> /\ ToSet(Closed.list) = {}
  /\ ~Closed.open /\ Alone(Closed)
<1>1. <<>> \in Lists
  BY EmptySeq DEF Lists, IsInjective
<1>2. ToSet(<<>>) = {}
  BY <1>1, ListFacts
<1> QED BY <1>1, <1>2 DEF Closed, PageTypes, PageRecords, Selects, Wallet, Alone

LEMMA IdleIsAClick == Idle \in FlowRecords
BY WalletAssumption DEF Idle, FlowRecords, Wallet, WalletAssumption

LEMMA WalletBegins ==
  WalletInit => PagesInv /\ KnownInv /\ TransferInv /\ KeysInv
<1> SUFFICES ASSUME WalletInit PROVE PagesInv /\ KnownInv /\ TransferInv /\ KeysInv
  OBVIOUS
<1>1. /\ disk \in Storages /\ page = [t \in Tabs |-> Closed] /\ pool = {}
      /\ flow = [t \in Tabs |-> [s \in Slots |-> Idle]] /\ added = ToSet(Read.list)
      /\ unsure = {disk.legacy} \ (added \cup {None})
  BY DEF WalletInit
<1>2. Closed \in PageRecords /\ ToSet(Closed.list) = {} /\ ~Closed.open /\ Alone(Closed)
  BY ClosedIsAPage
<1>3. Idle \in FlowRecords /\ Idle.at = "idle"
  BY IdleIsAClick DEF Idle
<1>4. disk.legacy \in added \cup unsure \cup {None}
  BY <1>1
<1>5. PagesInv
  <2>1. IsFiniteSet(pool) /\ \A tx \in pool : tx.from \in Addresses
    BY <1>1, FS_EmptySet
  <2>2. disk \in Disks
    BY <1>1, StoragesAreDisks
  <2> QED BY <1>1, <1>2, <1>3, <2>1, <2>2 DEF PagesInv
<1>6. TransferInv
  BY <1>1, <1>2, <1>3 DEF TransferInv, Transferring
<1>7. KeysInv
  BY <1>1, <1>2, <1>4 DEF KeysInv, KeysAreKept
<1>8. KnownInv
  BY <1>1, <1>2, <1>4 DEF KnownInv, Ever
<1> QED BY <1>5, <1>6, <1>7, <1>8

-----------------------------------------------------------------------------
(* One page changes, and no other.                                         *)
LEMMA PageSet ==
  ASSUME PagesInv, NEW t \in Tabs, NEW p \in PageRecords, page' = [page EXCEPT ![t] = p]
  PROVE  /\ page' \in [Tabs -> PageRecords]
         /\ page'[t] = p
         /\ \A u \in Tabs \ {t} : page'[u] = page[u]
BY DEF PagesInv

(* What a step of a page may do to its transfers.                          *)
Keeps(t, p) ==
  /\ Alone(p)
  /\ ~p.twice => ~page[t].twice
  /\ \A s \in Slots : ~p.twice /\ Transferring(t, s)' => Transferring(t, s) /\ Bars(p)

LEMMA StepLemma ==
  ASSUME PagesInv, TransferInv, NEW t \in Tabs, NEW p \in PageRecords,
         page' = [page EXCEPT ![t] = p], disk' \in Disks,
         IsFiniteSet(pool'), \A tx \in pool' : tx.from \in Addresses,
         flow' \in [Tabs -> [Slots -> FlowRecords]],
         \A u \in Tabs \ {t}, s \in Slots : Transferring(u, s)' => Transferring(u, s),
         Keeps(t, p)
  PROVE  PagesInv' /\ TransferInv'
<1>1. /\ page' \in [Tabs -> PageRecords] /\ page'[t] = p
      /\ \A u \in Tabs \ {t} : page'[u] = page[u]
  BY PageSet
<1>2. PagesInv'
  BY <1>1 DEF PagesInv
<1>3. ASSUME NEW u \in Tabs, u # t
      PROVE  /\ Alone(page'[u])
             /\ ~page'[u].twice =>
                  /\ \A r, s \in Slots : Transferring(u, r)' /\ Transferring(u, s)' => r = s
                  /\ \A s \in Slots : Transferring(u, s)' => Bars(page'[u])
  BY <1>1, <1>3 DEF TransferInv
<1>4. /\ Alone(p)
      /\ ~p.twice =>
           /\ \A r, s \in Slots : Transferring(t, r)' /\ Transferring(t, s)' => r = s
           /\ \A s \in Slots : Transferring(t, s)' => Bars(p)
  BY DEF TransferInv, Keeps
<1>5. \A u \in Tabs :
        /\ Alone(page'[u])
        /\ ~page'[u].twice =>
             /\ \A r, s \in Slots : Transferring(u, r)' /\ Transferring(u, s)' => r = s
             /\ \A s \in Slots : Transferring(u, s)' => Bars(page'[u])
  BY <1>1, <1>3, <1>4
<1>6. TransferInv'
  BY <1>5 DEF TransferInv, Alone, Bars
<1> QED BY <1>2, <1>6

(* Steps that change neither the storage nor the list of an open page.     *)
LEMMA SameKeys ==
  ASSUME UNCHANGED <<disk, history>>,
         \A t \in Tabs : page'[t].open => page[t].open /\ page'[t].list = page[t].list,
         \A t \in Tabs : ~page'[t].open => page'[t].list \in {<<>>, page[t].list}
  PROVE  /\ KnownInv => KnownInv'
         /\ KeysInv => KeysInv'
<1>1. added' = added /\ removed' = removed /\ unsure' = unsure /\ disk' = disk
  BY DEF history
<1>2. Read.list' = Read.list
  BY <1>1 DEF Read
<1>3. ToSet(<<>>) = {}
  BY DEF ToSet
<1>4. ASSUME KnownInv PROVE KnownInv'
  BY <1>1, <1>2, <1>3, <1>4 DEF KnownInv, Ever
<1>5. ASSUME KeysInv PROVE KeysInv'
  BY <1>1, <1>2, <1>5 DEF KeysInv, KeysAreKept
<1> QED BY <1>4, <1>5

(* Steps of a page that leave the storage and its list alone.              *)
LEMMA QuietLemma ==
  ASSUME PagesInv, KnownInv, TransferInv, NEW t \in Tabs, NEW p \in PageRecords,
         page' = [page EXCEPT ![t] = p], p.open = page[t].open, p.list = page[t].list,
         UNCHANGED <<disk, history>>,
         IsFiniteSet(pool'), \A tx \in pool' : tx.from \in Addresses,
         flow' \in [Tabs -> [Slots -> FlowRecords]],
         \A u \in Tabs \ {t}, s \in Slots : Transferring(u, s)' => Transferring(u, s),
         Keeps(t, p)
  PROVE  /\ PagesInv' /\ KnownInv' /\ TransferInv'
         /\ KeysInv => KeysInv'
<1>1. /\ page' \in [Tabs -> PageRecords] /\ page'[t] = p
      /\ \A u \in Tabs \ {t} : page'[u] = page[u]
  BY PageSet
<1>2. disk' \in Disks
  BY DEF PagesInv
<1>3. PagesInv' /\ TransferInv'
  BY <1>2, StepLemma
<1>4. \A u \in Tabs : page'[u].open = page[u].open /\ page'[u].list = page[u].list
  BY <1>1
<1>5. KnownInv' /\ (KeysInv => KeysInv')
  BY <1>4, SameKeys
<1> QED BY <1>3, <1>5

-----------------------------------------------------------------------------
(* The page ends, and what it worked on with it.                           *)
LEMMA PageEndsLemma ==
  ASSUME PagesInv, TransferInv, NEW t \in Tabs, PageEnds(t), disk' \in Disks, UNCHANGED pool
  PROVE  /\ PagesInv' /\ TransferInv'
         /\ ~page'[t].open /\ ToSet(page'[t].list) = {}
         /\ page'[t].list = <<>>
         /\ \A u \in Tabs \ {t} : page'[u] = page[u]
<1> DEFINE idle == [s \in Slots |-> Idle]
<1>1. page' = [page EXCEPT ![t] = Closed] /\ flow' = [flow EXCEPT ![t] = idle]
  BY DEF PageEnds
<1>2. /\ Closed \in PageRecords /\ ~Closed.open /\ ToSet(Closed.list) = {} /\ Alone(Closed)
      /\ Closed.list = <<>>
  BY ClosedIsAPage
<1>3. idle \in [Slots -> FlowRecords] /\ \A s \in Slots : idle[s].at = "idle"
  BY IdleIsAClick DEF Idle
<1> HIDE DEF idle
<1>4. /\ flow' \in [Tabs -> [Slots -> FlowRecords]] /\ flow'[t] = idle
      /\ \A u \in Tabs \ {t} : flow'[u] = flow[u]
  BY <1>1, <1>3 DEF PagesInv
<1>5. \A s \in Slots : ~Transferring(t, s)'
  BY <1>3, <1>4 DEF Transferring
<1>6. \A u \in Tabs \ {t}, s \in Slots : Transferring(u, s)' => Transferring(u, s)
  BY <1>4 DEF Transferring
<1>7. /\ page' \in [Tabs -> PageRecords] /\ page'[t] = Closed
      /\ \A u \in Tabs \ {t} : page'[u] = page[u]
  BY <1>1, <1>2, PageSet
<1>8. PagesInv'
  BY <1>4, <1>7 DEF PagesInv
<1>9. TransferInv'
  <2>1. \A u \in Tabs :
        /\ Alone(page'[u])
        /\ ~page'[u].twice =>
             /\ \A r, s \in Slots : Transferring(u, r)' /\ Transferring(u, s)' => r = s
             /\ \A s \in Slots : Transferring(u, s)' => Bars(page'[u])
    BY <1>2, <1>5, <1>6, <1>7 DEF TransferInv
  <2> QED BY <2>1 DEF TransferInv, Alone, Bars
<1> QED BY <1>2, <1>7, <1>8, <1>9

(* The storage after n writes of a list.                                   *)
LEMMA StoredLemma ==
  ASSUME PagesInv, NEW list \in Lists, NEW selected \in Wallet, Selects(list, selected),
         NEW n \in 0 .. 3, disk' = Stored(list, selected, n)
  PROVE  /\ disk' \in Disks
         /\ n = 3 => Read.list' = list /\ disk'.legacy = selected
         /\ n # 3 => /\ disk'.legacy = disk.legacy
                     /\ \/ Read.list' = list \/ Read.list' = Read.list
                        \/ list = <<>> /\ ToSet(Read.list') \subseteq {disk.legacy} \ {None}
<1>1. disk \in Disks
  BY DEF PagesInv
<1>2. /\ disk'.list = (IF n < 1 THEN disk.list ELSE list)
      /\ disk'.legacy = (IF n < 3 THEN disk.legacy ELSE selected)
      /\ disk' \in Disks
  BY <1>1 DEF Stored, Disks
<1>3. list = <<>> => selected = None
  BY ListFacts DEF Selects
<1>4. Read.list' = IF disk'.list # <<>> THEN disk'.list
                   ELSE IF disk'.legacy = None THEN <<>> ELSE <<disk'.legacy>>
  BY DEF Read
<1>5. Read.list = IF disk.list # <<>> THEN disk.list
                  ELSE IF disk.legacy = None THEN <<>> ELSE <<disk.legacy>>
  BY DEF Read
<1>6. n = 3 => Read.list' = list /\ disk'.legacy = selected
  BY <1>2, <1>3, <1>4
<1>7. n = 0 => Read.list' = Read.list
  BY <1>2, <1>4, <1>5
<1>8. n # 0 /\ list # <<>> => Read.list' = list
  BY <1>2, <1>4
<1>9. n \in 1 .. 2 /\ list = <<>> => ToSet(Read.list') \subseteq {disk.legacy} \ {None}
  <2>1. ToSet(<<>>) = {} /\ ToSet(<<disk.legacy>>) = {disk.legacy}
    BY DEF ToSet
  <2> QED BY <1>2, <1>4, <2>1
<1> QED BY <1>2, <1>6, <1>7, <1>8, <1>9

(* What the page meant to store agrees with what the user has, but for the *)
(* wallet that is added or removed and those in doubt.                     *)
Fits(list, w) ==
  /\ added \ Touched(w) \subseteq ToSet(list)
  /\ ToSet(list) \subseteq added \cup unsure \cup Touched(w)

LEMMA PersistLemma ==
  ASSUME PagesInv, KnownInv, TransferInv, NEW t \in Tabs, NEW w,
         NEW done \in PageRecords, NEW failed \in PageRecords, done.open, failed.open,
         failed.list = done.list, ToSet(done.list) \subseteq Ever \cup Touched(w),
         Keeps(t, done) \/ flow' # flow, Keeps(t, failed) \/ flow' # flow,
         Persist(t, w, done, failed), UNCHANGED pool
  PROVE  /\ PagesInv' /\ KnownInv' /\ TransferInv'
         /\ KeysInv /\ Tabs = {t} /\ Fits(done.list, w) => KeysInv'
<1>1. PICK list \in Lists, selected \in Wallet :
        list = done.list /\ selected = done.selected /\ Selects(list, selected)
  BY DEF PageTypes, PageRecords
<1>2. /\ done.list = list /\ done.selected = selected /\ failed.list = list
      /\ ToSet(list) \subseteq Ever \cup Touched(w)
  BY <1>1
<1>3. PICK n \in 0 .. 3 :
        /\ disk' = Stored(list, selected, n)
        /\ n = 3 => Settles(list, w)
        /\ n # 3 => StaysUnsure(w)
        /\ \/ page' = [page EXCEPT ![t] = done] /\ flow' = flow
           \/ page' = [page EXCEPT ![t] = failed] /\ flow' = flow
           \/ PageEnds(t)
  BY <1>2 DEF Persist
<1>4. /\ disk' \in Disks
      /\ n = 3 => Read.list' = list /\ disk'.legacy = selected
      /\ n # 3 => /\ disk'.legacy = disk.legacy
                  /\ \/ Read.list' = list \/ Read.list' = Read.list
                     \/ list = <<>> /\ ToSet(Read.list') \subseteq {disk.legacy} \ {None}
  BY <1>1, <1>3, StoredLemma
<1>5. /\ PagesInv' /\ TransferInv'
      /\ \A u \in Tabs \ {t} : page'[u] = page[u]
      /\ page'[t].open => page'[t].list = list
      /\ ToSet(page'[t].list) \subseteq ToSet(list)
  <2>1. IsFiniteSet(pool') /\ \A tx \in pool' : tx.from \in Addresses
    BY DEF PagesInv
  <2>2. CASE PageEnds(t)
    BY <1>4, <2>2, PageEndsLemma
  <2>3. ASSUME NEW p \in PageRecords, page' = [page EXCEPT ![t] = p], flow' = flow,
               p.open, p.list = list, Keeps(t, p)
        PROVE  /\ PagesInv' /\ TransferInv'
               /\ \A u \in Tabs \ {t} : page'[u] = page[u]
               /\ page'[t].list = list
    <3>1. flow' \in [Tabs -> [Slots -> FlowRecords]]
      BY <2>3 DEF PagesInv
    <3>2. \A u \in Tabs \ {t}, s \in Slots : Transferring(u, s)' => Transferring(u, s)
      BY <2>3 DEF Transferring
    <3> QED BY <1>4, <2>1, <2>3, <3>1, <3>2, StepLemma, PageSet
  <2> QED BY <1>2, <1>3, <2>2, <2>3
<1>6. Ever \cup Touched(w) \subseteq Ever'
  BY <1>3 DEF Ever, Settles, StaysUnsure
<1>7. selected \in ToSet(list) \cup {None}
  BY <1>1 DEF Selects
<1>8. KnownInv'
  <2>1. \A u \in Tabs : ToSet(page'[u].list) \subseteq Ever'
    BY <1>2, <1>5, <1>6 DEF KnownInv
  <2>2. ToSet(Read.list') \subseteq Ever' /\ disk'.legacy \in Ever' \cup {None}
    BY <1>2, <1>4, <1>6, <1>7 DEF KnownInv
  <2> QED BY <2>1, <2>2 DEF KnownInv
<1>9. ASSUME KeysInv, Tabs = {t}, Fits(list, w) PROVE KeysInv'
  <2>1. /\ added \subseteq ToSet(Read.list) /\ ToSet(Read.list) \subseteq added \cup unsure
        /\ disk.legacy \in added \cup unsure \cup {None}
    BY <1>9 DEF KeysInv, KeysAreKept
  <2>2. added' \subseteq ToSet(list) /\ ToSet(list) \subseteq added' \cup unsure'
    BY <1>3, <1>9 DEF Fits, Settles, StaysUnsure
  <2>3. added' \subseteq ToSet(Read.list') /\ ToSet(Read.list') \subseteq added' \cup unsure'
    <3>1. CASE n = 3 \/ Read.list' = list
      BY <1>4, <2>2, <3>1
    <3>2. CASE n # 3 /\ Read.list' = Read.list
      BY <1>3, <2>1, <3>2 DEF StaysUnsure
    <3>3. CASE n # 3 /\ list = <<>> /\ ToSet(Read.list') \subseteq {disk.legacy} \ {None}
      <4>1. ToSet(list) = {}
        BY <3>3, ListFacts
      <4> QED BY <1>3, <2>1, <2>2, <3>3, <4>1 DEF StaysUnsure
    <3> QED BY <1>4, <3>1, <3>2, <3>3
  <2>4. disk'.legacy \in added' \cup unsure' \cup {None}
    <3>1. CASE n = 3
      BY <1>4, <1>7, <2>2, <3>1
    <3>2. CASE n # 3
      BY <1>3, <1>4, <2>1, <3>2 DEF StaysUnsure
    <3> QED BY <3>1, <3>2
  <2> QED BY <1>5, <1>9, <2>2, <2>3, <2>4 DEF KeysInv, KeysAreKept
<1> QED BY <1>2, <1>5, <1>8, <1>9

(* The list of the open page fits when no wallet is touched.               *)
LEMMA OpenFits ==
  ASSUME KeysInv, NEW t \in Tabs, page[t].open
  PROVE  /\ added \subseteq ToSet(page[t].list)
         /\ ToSet(page[t].list) \subseteq added \cup unsure
         /\ \A w : Fits(page[t].list, w)
BY DEF KeysInv, Fits

-----------------------------------------------------------------------------
(* Pages: reading, adding, selecting and removing wallets.                 *)

LEMMA OpenLemma ==
  ASSUME PagesInv, KnownInv, TransferInv, NEW t \in Tabs, Open(t)
  PROVE  /\ PagesInv' /\ KnownInv' /\ TransferInv'
         /\ KeysInv /\ Tabs = {t} => KeysInv'
<1> DEFINE list == Read.list
           selected == Read.selected
           f == [Closed EXCEPT !.open = TRUE, !.list = list, !.selected = selected]
           d == [f EXCEPT !.wallet = selected, !.timer = TRUE, !.asked = {selected} \ {None}]
<1>1. list \in Lists /\ selected \in Wallet /\ Selects(list, selected)
  BY ReadLemma DEF PagesInv
<1>2. Persist(t, None, d, f) /\ ~page[t].open /\ UNCHANGED pool
  BY DEF Open
<1>3. page[t] \in PageRecords /\ ~page[t].twice
  BY <1>2 DEF PagesInv, PageTypes, PageRecords
<1>4. \A s \in Slots : ~Transferring(t, s)
  BY <1>2, <1>3 DEF TransferInv, Bars
<1>5. /\ f \in PageRecords /\ f.open /\ f.list = list /\ Alone(f)
      /\ d \in PageRecords /\ d.open /\ d.list = list /\ Alone(d)
  <2>1. {selected} \ {None} \in SUBSET Addresses
    BY <1>1 DEF Wallet
  <2>2. Closed \in PageRecords /\ ~Closed.dialog /\ ~Closed.twice
        /\ Closed.making = 0 /\ Closed.filling = 0
    BY ClosedIsAPage DEF Closed
  <2> HIDE DEF list, selected
  <2>3. f \in PageTypes /\ f.open /\ f.list = list /\ f.selected = selected /\ ~f.dialog
        /\ ~f.twice /\ f.making = 0 /\ f.filling = 0
    BY <1>1, <2>2 DEF PageTypes, PageRecords
  <2>4. d \in PageTypes /\ d.open /\ d.list = list /\ d.selected = selected /\ ~d.dialog
        /\ ~d.twice /\ d.making = 0 /\ d.filling = 0
    <3> HIDE DEF f
    <3> QED BY <1>1, <2>1, <2>3 DEF PageTypes
  <2> HIDE DEF f, d
  <2> QED BY <1>1, <2>3, <2>4 DEF PageRecords, Alone
<1>6. ToSet(list) \subseteq Ever
  BY DEF KnownInv
<1>7. KeysInv => Fits(list, None)
  BY DEF KeysInv, KeysAreKept, Fits
<1> HIDE DEF f, d, list
<1>8. PICK done \in PageRecords, failed \in PageRecords : done = d /\ failed = f
  BY <1>5
<1>9. (Keeps(t, done) \/ flow' # flow) /\ (Keeps(t, failed) \/ flow' # flow)
  <2> SUFFICES ASSUME flow' = flow PROVE Keeps(t, done) /\ Keeps(t, failed)
    OBVIOUS
  <2>1. \A s \in Slots : ~Transferring(t, s)'
    BY <1>4 DEF Transferring
  <2> QED BY <1>3, <1>5, <1>8, <2>1 DEF Keeps
<1>10. /\ done.open /\ failed.open /\ failed.list = done.list /\ done.list = list
       /\ ToSet(done.list) \subseteq Ever \cup Touched(None)
       /\ Persist(t, None, done, failed)
  BY <1>2, <1>5, <1>6, <1>8
<1> QED BY <1>2, <1>7, <1>9, <1>10, PersistLemma

LEMMA CloseLemma ==
  ASSUME PagesInv, KnownInv, TransferInv, NEW t \in Tabs, Close(t)
  PROVE  /\ PagesInv' /\ KnownInv' /\ TransferInv'
         /\ KeysInv => KeysInv'
<1>1. PageEnds(t) /\ UNCHANGED <<disk, pool, history>>
  BY DEF Close
<1>2. disk' \in Disks
  BY <1>1 DEF PagesInv
<1>3. /\ PagesInv' /\ TransferInv' /\ ~page'[t].open /\ page'[t].list = <<>>
      /\ \A u \in Tabs \ {t} : page'[u] = page[u]
  BY <1>1, <1>2, PageEndsLemma
<1>4. KnownInv' /\ (KeysInv => KeysInv')
  <2>1. \A u \in Tabs : page'[u].open => page[u].open /\ page'[u].list = page[u].list
    BY <1>3
  <2>2. \A u \in Tabs : ~page'[u].open => page'[u].list \in {<<>>, page[u].list}
    BY <1>3
  <2> QED BY <1>1, <2>1, <2>2, SameKeys
<1> QED BY <1>3, <1>4

LEMMA ButtonsLemma ==
  ASSUME PagesInv, NEW t \in Tabs
  PROVE  /\ page[t] \in PageRecords /\ page[t].off \in SUBSET Switches
         /\ Enabled(t) \in SUBSET Switches /\ Disabled(t) \in SUBSET Switches
         /\ "transfer" \in Disabled(t) /\ "create" \in Disabled(t)
<1>1. page[t] \in PageRecords /\ page[t].off \in SUBSET Switches
  BY DEF PagesInv, PageTypes, PageRecords
<1>2. {"transfer", "create"} \subseteq Switches \ {"selector"}
  BY WalletAssumption DEF Switches, WalletAssumption
<1>3. Enabled(t) \in SUBSET Switches
  BY <1>1 DEF Enabled
<1>4. Disabled(t) \in SUBSET Switches
  BY <1>1 DEF Disabled
<1>5. "transfer" \in Disabled(t) /\ "create" \in Disabled(t)
  BY <1>2 DEF Disabled
<1> QED BY <1>1, <1>3, <1>4, <1>5

(* Creations begin, return or fail: with one at a time no transfer is      *)
(* under way.                                                              *)
LEMMA CreationLemma ==
  ASSUME PagesInv, KnownInv, TransferInv, NEW t \in Tabs,
         \/ BeginCreate(t) \/ ConfirmAgain(t) \/ CancelCreate(t)
         \/ CreateReturns(t) \/ CreateFails(t)
  PROVE  /\ PagesInv' /\ KnownInv' /\ TransferInv'
         /\ KeysInv => KeysInv'
<1>1. UNCHANGED <<disk, flow, pool, history>>
  BY DEF BeginCreate, ConfirmAgain, Begins, CancelCreate, CreateReturns, CreateFails
<1>2. /\ page[t] \in PageRecords /\ Enabled(t) \in SUBSET Switches
      /\ Disabled(t) \in SUBSET Switches /\ "transfer" \in Disabled(t)
  BY ButtonsLemma
<1>3. /\ page[t].making \in Nat /\ page[t].filling \in Nat /\ Alone(page[t])
      /\ page[t].dialog \in BOOLEAN /\ page[t].twice \in BOOLEAN
      /\ page[t].dialog \/ page[t].making > 0 \/ page[t].filling > 0 => page[t].open
  BY <1>2 DEF PageTypes, PageRecords, TransferInv
<1>4. \A s \in Slots : ~page[t].twice => ~Transferring(t, s)
  <2> SUFFICES ASSUME NEW s \in Slots, ~page[t].twice, Transferring(t, s) PROVE FALSE
    OBVIOUS
  <2>1. Bars(page[t])
    BY DEF TransferInv
  <2> QED BY <1>3, <2>1
       DEF BeginCreate, ConfirmAgain, CancelCreate, CreateReturns, CreateFails, Bars
<1>5. PICK p \in PageRecords :
        /\ page' = [page EXCEPT ![t] = p] /\ p.open = page[t].open /\ p.list = page[t].list
        /\ Alone(p) /\ (~p.twice => ~page[t].twice)
  <2>1. ASSUME Begins(t), page[t].open
        PROVE  \E p \in PageRecords :
                 /\ page' = [page EXCEPT ![t] = p]
                 /\ p.open = page[t].open /\ p.list = page[t].list
                 /\ Alone(p) /\ (~p.twice => ~page[t].twice)
    <3>1. PICK b \in BOOLEAN : b = (page[t].twice \/ Creating(t))
      OBVIOUS
    <3>2. PICK m \in Nat : m = page[t].making + 1
      BY <1>3
    <3>3. PICK off \in SUBSET Switches : off = Disabled(t)
      BY <1>2
    <3> DEFINE q == [page[t] EXCEPT !.making = m, !.off = off, !.dialog = TRUE,
                                    !.held = TRUE, !.twice = b]
    <3>4. /\ q \in PageTypes /\ q.open = page[t].open /\ q.list = page[t].list
          /\ q.selected = page[t].selected /\ q.making = m /\ q.filling = page[t].filling
          /\ q.off = off /\ q.twice = b
      BY <1>2 DEF PageTypes, PageRecords
    <3>5. page' = [page EXCEPT ![t] = q]
      BY <2>1, <3>1, <3>2, <3>3 DEF Begins
    <3> HIDE DEF q
    <3>6. q \in PageRecords
      BY <1>2, <2>1, <3>4 DEF PageRecords
    <3>7. ~b => m = 1 /\ q.filling = 0 /\ "transfer" \in off
      <4>1. PICK k \in Nat, l \in Nat : k = page[t].making /\ l = page[t].filling
        BY <1>3
      <4>2. Creating(t) <=> k + l > 0
        BY <4>1 DEF Creating
      <4>3. k + l > 0 \/ (k = 0 /\ l = 0)
        OBVIOUS
      <4>4. ~b => ~Creating(t)
        BY <3>1
      <4> QED BY <1>2, <3>2, <3>3, <3>4, <4>1, <4>2, <4>3, <4>4
    <3>8. Alone(q)
      BY <3>4, <3>7 DEF Alone
    <3> QED BY <3>1, <3>4, <3>5, <3>6, <3>8
  <2>2. CASE BeginCreate(t)
    BY <2>1, <2>2 DEF BeginCreate, Free
  <2>3. CASE ConfirmAgain(t)
    BY <1>3, <2>1, <2>3 DEF ConfirmAgain
  <2>4. CASE CancelCreate(t)
    <3> DEFINE q == [page[t] EXCEPT !.dialog = FALSE]
    <3>1. q \in PageRecords /\ q.open = page[t].open /\ q.list = page[t].list
          /\ q.twice = page[t].twice /\ Alone(q)
      BY <1>2, <1>3 DEF PageTypes, PageRecords, Alone
    <3>2. page' = [page EXCEPT ![t] = q]
      BY <2>4 DEF CancelCreate
    <3> QED BY <3>1, <3>2
  <2>5. CASE CreateReturns(t)
    <3>1. PICK stays \in BOOLEAN :
            page' = [page EXCEPT ![t].filling = @ - 1, ![t].off = Enabled(t),
                                 ![t].held = FALSE, ![t].dialog = @ /\ stays]
      BY <2>5 DEF CreateReturns
    <3>2. PICK n \in Nat : n = page[t].filling - 1 /\ page[t].filling > 0
      <4>1. PICK k \in Nat : k = page[t].filling
        BY <1>3
      <4>2. k > 0
        BY <2>5, <4>1 DEF CreateReturns
      <4>3. k - 1 \in Nat /\ k - 1 = page[t].filling - 1 /\ page[t].filling > 0
        BY <4>1, <4>2
      <4> QED BY <4>3
    <3>3. PICK off \in SUBSET Switches : off = Enabled(t)
      BY <1>2
    <3>4. PICK b \in BOOLEAN : b = (page[t].dialog /\ stays)
      OBVIOUS
    <3> DEFINE q == [page[t] EXCEPT !.filling = n, !.off = off, !.held = FALSE, !.dialog = b]
    <3>5. /\ q \in PageTypes /\ q.open = page[t].open /\ q.list = page[t].list
          /\ q.selected = page[t].selected /\ q.twice = page[t].twice
          /\ q.making = page[t].making /\ q.filling = n
      BY <1>2 DEF PageTypes, PageRecords
    <3>6. page' = [page EXCEPT ![t] = q]
      BY <3>1, <3>2, <3>3, <3>4
    <3> HIDE DEF q
    <3>7. q \in PageRecords
      BY <1>2, <1>3, <3>2, <3>5 DEF PageRecords
    <3>8. Alone(q)
      BY <1>3, <3>2, <3>5 DEF Alone
    <3> QED BY <3>5, <3>6, <3>7, <3>8
  <2>6. CASE CreateFails(t)
    <3>1. PICK m \in Nat : m = page[t].making - 1 /\ page[t].making > 0
      <4>1. PICK k \in Nat : k = page[t].making
        BY <1>3
      <4>2. k > 0
        BY <2>6, <4>1 DEF CreateFails
      <4>3. k - 1 \in Nat /\ k - 1 = page[t].making - 1 /\ page[t].making > 0
        BY <4>1, <4>2
      <4> QED BY <4>3
    <3>2. PICK off \in SUBSET Switches : off = Enabled(t)
      BY <1>2
    <3> DEFINE q == [page[t] EXCEPT !.making = m, !.off = off, !.held = FALSE]
    <3>3. /\ q \in PageTypes /\ q.open = page[t].open /\ q.list = page[t].list
          /\ q.selected = page[t].selected /\ q.twice = page[t].twice
          /\ q.making = m /\ q.filling = page[t].filling
      BY <1>2 DEF PageTypes, PageRecords
    <3>4. page' = [page EXCEPT ![t] = q]
      BY <2>6, <3>1, <3>2 DEF CreateFails
    <3> HIDE DEF q
    <3>5. q \in PageRecords
      BY <1>2, <1>3, <3>1, <3>3 DEF PageRecords
    <3>6. Alone(q)
      BY <1>3, <3>1, <3>3 DEF Alone
    <3> QED BY <3>3, <3>4, <3>5, <3>6
  <2> QED BY <2>2, <2>3, <2>4, <2>5, <2>6
<1>6. flow' \in [Tabs -> [Slots -> FlowRecords]] /\ IsFiniteSet(pool')
      /\ \A tx \in pool' : tx.from \in Addresses
  BY <1>1 DEF PagesInv
<1>7. \A u \in Tabs, s \in Slots : Transferring(u, s)' <=> Transferring(u, s)
  BY <1>1 DEF Transferring
<1>8. Keeps(t, p)
  BY <1>4, <1>5, <1>7 DEF Keeps
<1> QED BY <1>1, <1>5, <1>6, <1>7, <1>8, QuietLemma

(* A record of page t that takes no creation and no button away.           *)
Grows(t, p) ==
  /\ p \in PageRecords /\ p.open = page[t].open
  /\ p.off \in {page[t].off, page[t].off \ {"selector"}}
  /\ p.making = page[t].making /\ p.filling = page[t].filling
  /\ p.dialog = page[t].dialog /\ p.twice = page[t].twice

LEMMA GrowsKeeps ==
  ASSUME PagesInv, TransferInv, NEW t \in Tabs, NEW p, Grows(t, p)
  PROVE  Keeps(t, p) \/ flow' # flow
<1> SUFFICES ASSUME flow' = flow PROVE Keeps(t, p)
  OBVIOUS
<1>1. \A s \in Slots : Transferring(t, s)' <=> Transferring(t, s)
  BY DEF Transferring
<1>2. Alone(p)
  BY DEF Grows, Alone, TransferInv
<1>3. Bars(page[t]) => Bars(p)
  BY DEF Grows, Bars
<1> QED BY <1>1, <1>2, <1>3 DEF Keeps, Grows, TransferInv

(* Steps that store a list and keep creations and buttons.                 *)
LEMMA StoringLemma ==
  ASSUME PagesInv, KnownInv, TransferInv, NEW t \in Tabs, page[t].open, NEW w,
         NEW done, NEW failed, Grows(t, done), Grows(t, failed),
         failed.list = done.list, ToSet(done.list) \subseteq Ever \cup Touched(w),
         Persist(t, w, done, failed), UNCHANGED pool
  PROVE  /\ PagesInv' /\ KnownInv' /\ TransferInv'
         /\ KeysInv /\ Tabs = {t} /\ Fits(done.list, w) => KeysInv'
<1>1. (Keeps(t, done) \/ flow' # flow) /\ (Keeps(t, failed) \/ flow' # flow)
  BY GrowsKeeps
<1>2. PICK d \in PageRecords, f \in PageRecords : d = done /\ f = failed
  BY DEF Grows
<1>3. d.open /\ f.open /\ f.list = d.list
  BY <1>2 DEF Grows
<1> QED BY <1>1, <1>2, <1>3, PersistLemma

LEMMA AheadLemma ==
  ASSUME PagesInv, NEW t \in Tabs, NEW list \in Lists, NEW selected \in Wallet,
         Selects(list, selected)
  PROVE  /\ Grows(t, Ahead(t, list, selected)) /\ Ahead(t, list, selected).list = list
         /\ Ahead(t, list, selected).off = page[t].off
BY DEF PagesInv, Ahead, PageTypes, PageRecords, Grows

LEMMA ShownLemma ==
  ASSUME PagesInv, NEW t \in Tabs, NEW list \in Lists, NEW selected \in Wallet,
         Selects(list, selected), NEW w \in Wallet
  PROVE  /\ Grows(t, Shown(t, list, selected, w))
         /\ Shown(t, list, selected, w).list = list
         /\ Shown(t, list, selected, w).off = page[t].off \ {"selector"}
<1>1. page[t] \in PageRecords
  BY DEF PagesInv
<1>2. {w} \ {None} \subseteq Addresses /\ None \in Wallet
  BY DEF Wallet
<1> QED BY <1>1, <1>2 DEF Shown, Ahead, PageTypes, PageRecords, Grows

(* A page whose dialog button is released.                                 *)
LEMMA ReleasedLemma ==
  ASSUME PagesInv, NEW t \in Tabs, NEW p, Grows(t, p)
  PROVE  /\ Grows(t, [p EXCEPT !.held = FALSE])
         /\ [p EXCEPT !.held = FALSE].list = p.list
BY DEF PageTypes, PageRecords, Grows

(* A wallet is appended to the list of an open page.                       *)
LEMMA AppendedLemma ==
  ASSUME PagesInv, KnownInv, NEW t \in Tabs, NEW w \in Addresses,
         page[t].open, w \notin ToSet(page[t].list)
  PROVE  /\ Append(page[t].list, w) \in Lists
         /\ w \in Wallet /\ Selects(Append(page[t].list, w), w)
         /\ ToSet(Append(page[t].list, w)) \subseteq Ever \cup Touched(w)
         /\ KeysInv => Fits(Append(page[t].list, w), w)
<1>1. page[t].list \in Lists
  BY DEF PagesInv, PageTypes, PageRecords
<1>2. PICK list \in Lists : /\ list = Append(page[t].list, w)
                            /\ ToSet(list) = ToSet(page[t].list) \cup {w}
  BY <1>1, AppendLemma
<1>3. w \in Wallet /\ Touched(w) = {w}
  BY WalletAssumption DEF Wallet, Touched, WalletAssumption
<1>4. ToSet(list) \subseteq Ever \cup Touched(w)
  BY <1>2, <1>3 DEF KnownInv
<1>5. KeysInv => Fits(list, w)
  BY <1>2, <1>3, OpenFits DEF Fits
<1> QED BY <1>2, <1>3, <1>4, <1>5 DEF Selects

LEMMA ImportLemma ==
  ASSUME PagesInv, KnownInv, TransferInv, NEW t \in Tabs, NEW w \in Addresses, Import(t, w)
  PROVE  /\ PagesInv' /\ KnownInv' /\ TransferInv'
         /\ KeysInv /\ Tabs = {t} => KeysInv'
<1>1. /\ page[t].open /\ w \notin ToSet(page[t].list) /\ UNCHANGED pool
  BY DEF Import, Free
<1>2. PICK list \in Lists :
        /\ list = Append(page[t].list, w) /\ w \in Wallet /\ Selects(list, w)
        /\ ToSet(list) \subseteq Ever \cup Touched(w)
        /\ KeysInv => Fits(list, w)
  BY <1>1, AppendedLemma
<1> DEFINE shown == Shown(t, list, w, w)
           ahead == Ahead(t, list, w)
           done == [shown EXCEPT !.held = FALSE]
           failed == [ahead EXCEPT !.held = FALSE]
<1>3. Persist(t, w, done, failed)
  BY <1>2 DEF Import
<1>4. Grows(t, shown) /\ shown.list = list
  <2>1. PICK v \in Wallet : v = w
    BY <1>2
  <2>2. Selects(list, v)
    BY <1>2, <2>1
  <2> QED BY <2>1, <2>2, ShownLemma
<1>5. Grows(t, ahead) /\ ahead.list = list
  BY <1>2, AheadLemma
<1> HIDE DEF shown, ahead
<1>6. Grows(t, done) /\ done.list = list
  BY <1>4, ReleasedLemma
<1>7. Grows(t, failed) /\ failed.list = list
  BY <1>5, ReleasedLemma
<1> HIDE DEF done, failed
<1> QED BY <1>1, <1>2, <1>3, <1>6, <1>7, StoringLemma

(* A creation stores its wallet: it then waits for the refresh, or is over. *)
LEMMA EndCreateLemma ==
  ASSUME PagesInv, KnownInv, TransferInv, NEW t \in Tabs, NEW w \in Addresses,
         EndCreate(t, w)
  PROVE  /\ PagesInv' /\ KnownInv' /\ TransferInv'
         /\ KeysInv /\ Tabs = {t} => KeysInv'
<1>1. page[t].making > 0 /\ w \notin Ever /\ UNCHANGED pool
  BY DEF EndCreate, Ever
<1>2. /\ page[t] \in PageRecords /\ page[t].making \in Nat /\ page[t].filling \in Nat
      /\ page[t].open
  BY <1>1, ButtonsLemma DEF PageTypes, PageRecords
<1>3. w \notin ToSet(page[t].list)
  BY <1>1 DEF KnownInv
<1>4. PICK list \in Lists :
        /\ list = Append(page[t].list, w) /\ w \in Wallet /\ Selects(list, w)
        /\ ToSet(list) \subseteq Ever \cup Touched(w)
        /\ KeysInv => Fits(list, w)
  BY <1>2, <1>3, AppendedLemma
<1>5. PICK m \in Nat, n \in Nat : m = page[t].making - 1 /\ n = page[t].filling + 1
  BY <1>1, <1>2
<1>6. PICK off \in SUBSET Switches : off = Enabled(t)
  BY ButtonsLemma
<1> DEFINE d == Shown(t, list, w, w)
           f == Ahead(t, list, w)
           done == [d EXCEPT !.making = m, !.filling = n]
           failed == [f EXCEPT !.making = m, !.off = off, !.held = FALSE]
<1>7. Grows(t, d) /\ d.list = list /\ d.off = page[t].off \ {"selector"}
  <2>1. PICK v \in Wallet : v = w
    BY <1>4
  <2>2. Selects(list, v)
    BY <1>4, <2>1
  <2> QED BY <2>1, <2>2, ShownLemma
<1>8. Grows(t, f) /\ f.list = list
  BY <1>4, AheadLemma
<1> HIDE DEF d, f
<1>9. Persist(t, w, done, failed)
  <2>1. /\ d.making = page[t].making /\ d.filling = page[t].filling
        /\ f.making = page[t].making
    BY <1>7, <1>8 DEF Grows
  <2>2. Persist(t, w, [d EXCEPT !.making = @ - 1, !.filling = @ + 1],
                      [f EXCEPT !.making = @ - 1, !.off = Enabled(t), !.held = FALSE])
    BY <1>4 DEF EndCreate, d, f
  <2> QED BY <1>5, <1>6, <2>1, <2>2
<1>10. /\ done \in PageRecords /\ done.open /\ done.list = list /\ done.off = d.off
       /\ done.making = m /\ done.filling = n /\ done.twice = page[t].twice
  <2>1. /\ done \in PageTypes /\ done.open = d.open /\ done.list = list
        /\ done.selected = d.selected /\ done.off = d.off /\ done.making = m
        /\ done.filling = n /\ done.twice = page[t].twice
    BY <1>7 DEF Grows, PageTypes, PageRecords
  <2> QED BY <1>2, <1>7, <2>1 DEF Grows, PageRecords
<1>11. /\ failed \in PageRecords /\ failed.open /\ failed.list = list
       /\ failed.making = m /\ failed.filling = page[t].filling
       /\ failed.twice = page[t].twice
  <2>1. /\ failed \in PageTypes /\ failed.open = f.open /\ failed.list = list
        /\ failed.selected = f.selected /\ failed.making = m
        /\ failed.filling = page[t].filling /\ failed.twice = page[t].twice
    BY <1>8 DEF Grows, PageTypes, PageRecords
  <2> QED BY <1>2, <1>8, <2>1 DEF Grows, PageRecords
<1> HIDE DEF done, failed
<1>12. (Keeps(t, done) \/ flow' # flow) /\ (Keeps(t, failed) \/ flow' # flow)
  <2> SUFFICES ASSUME flow' = flow PROVE Keeps(t, done) /\ Keeps(t, failed)
    OBVIOUS
  <2>1. \A s \in Slots : ~page[t].twice => ~Transferring(t, s)'
    BY <1>1, <1>2 DEF TransferInv, Bars, Transferring
  <2>2. Alone(page[t])
    BY DEF TransferInv
  <2>3. ~page[t].twice => m = 0 /\ n = 1 /\ page[t].filling = 0 /\ "transfer" \in page[t].off
    BY <1>1, <1>2, <1>5, <2>2 DEF Alone
  <2>4. Alone(done)
    BY <1>7, <1>10, <2>3 DEF Alone
  <2>5. Alone(failed)
    BY <1>11, <2>3 DEF Alone
  <2> QED BY <1>10, <1>11, <2>1, <2>4, <2>5 DEF Keeps
<1> QED BY <1>1, <1>4, <1>9, <1>10, <1>11, <1>12, PersistLemma

LEMMA TouchedNone == Touched(None) = {}
BY DEF Touched

LEMMA SelectLemma ==
  ASSUME PagesInv, KnownInv, TransferInv, NEW t \in Tabs, NEW w \in Addresses, Select(t, w)
  PROVE  /\ PagesInv' /\ KnownInv' /\ TransferInv'
         /\ KeysInv /\ Tabs = {t} => KeysInv'
<1>1. PICK list \in Lists : list = page[t].list
  BY DEF PagesInv, PageTypes, PageRecords
<1> DEFINE done == Shown(t, list, w, w)
           failed == Ahead(t, list, w)
<1>2. /\ page[t].open /\ w \in ToSet(list)
      /\ Persist(t, None, done, failed) /\ UNCHANGED pool
  BY <1>1 DEF Select, Free
<1>3. w \in Wallet /\ Selects(list, w)
  BY <1>2 DEF Wallet, Selects
<1>4. Grows(t, done) /\ done.list = list
  BY <1>3, ShownLemma
<1>5. Grows(t, failed) /\ failed.list = list
  BY <1>3, AheadLemma
<1>6. ToSet(list) \subseteq Ever \cup Touched(None)
  BY <1>1 DEF KnownInv
<1>7. KeysInv => Fits(list, None)
  BY <1>1, <1>2, OpenFits
<1> HIDE DEF done, failed
<1> QED BY <1>2, <1>4, <1>5, <1>6, <1>7, StoringLemma

(* The list and the selected wallet of the page are stored as they are.    *)
LEMMA RenameLemma ==
  ASSUME PagesInv, KnownInv, TransferInv, NEW t \in Tabs, Rename(t)
  PROVE  /\ PagesInv' /\ KnownInv' /\ TransferInv'
         /\ KeysInv /\ Tabs = {t} => KeysInv'
<1> DEFINE done == [page[t] EXCEPT !.off = @ \ {"selector"}, !.held = FALSE]
           failed == [page[t] EXCEPT !.held = FALSE]
<1>1. page[t].open /\ Persist(t, None, done, failed) /\ UNCHANGED pool
  BY DEF Rename, Free
<1>2. page[t] \in PageRecords
  BY DEF PagesInv
<1>3. Grows(t, done) /\ done.list = page[t].list
  BY <1>2 DEF Grows, PageTypes, PageRecords
<1>4. Grows(t, failed) /\ failed.list = page[t].list
  BY <1>2 DEF Grows, PageTypes, PageRecords
<1>5. ToSet(page[t].list) \subseteq Ever \cup Touched(None)
  BY DEF KnownInv
<1>6. KeysInv => Fits(page[t].list, None)
  BY <1>1, OpenFits
<1> HIDE DEF done, failed
<1> QED BY <1>1, <1>3, <1>4, <1>5, <1>6, StoringLemma

(* The wallet selected after a removal is one of the rest.                 *)
LEMMA SelectedAfterLemma ==
  ASSUME NEW p \in PageRecords, NEW w \in ToSet(p.list)
  PROVE  /\ Selects(Without(p, w), SelectedAfter(p, w))
         /\ SelectedAfter(p, w) \in Wallet
<1> DEFINE rest == Without(p, w)
           i == IndexOf(p, w)
<1>1. p.list \in Lists /\ Selects(p.list, p.selected) /\ p.selected \in Wallet
  BY DEF PageTypes, PageRecords
<1>2. /\ rest \in Lists /\ ToSet(rest) = ToSet(p.list) \ {w}
      /\ i \in 1 .. Len(p.list) /\ Len(p.list) \in Nat
  BY <1>1, WithoutLemma, ListFacts
<1>3. SelectedAfter(p, w) = IF p.selected # w THEN p.selected
                            ELSE IF rest = <<>> THEN None
                            ELSE rest[IF i <= Len(rest) THEN i ELSE Len(rest)]
  BY DEF SelectedAfter
<1> HIDE DEF rest, i
<1>4. Selects(rest, SelectedAfter(p, w))
  <2>1. CASE p.selected # w
    BY <1>1, <1>2, <1>3, <2>1 DEF Selects
  <2>2. CASE p.selected = w /\ rest = <<>>
    BY <1>3, <2>2 DEF Selects
  <2>3. CASE p.selected = w /\ rest # <<>>
    <3>1. PICK n \in 1 .. Len(rest) : SelectedAfter(p, w) = rest[n]
      <4>1. Len(rest) \in Nat /\ Len(rest) > 0
        BY <1>2, <2>3, ListFacts
      <4> QED BY <1>2, <1>3, <2>3, <4>1
    <3>2. rest[n] \in ToSet(rest)
      BY <1>2, ListFacts
    <3> QED BY <3>1, <3>2 DEF Selects
  <2> QED BY <2>1, <2>2, <2>3
<1>5. ToSet(rest) \subseteq Addresses
  BY <1>2, ListFacts
<1> QED BY <1>4, <1>5 DEF Selects, Wallet, rest

(* The wallet on the page is removed from its list.                        *)
LEMMA RemovedLemma ==
  ASSUME PagesInv, KnownInv, TransferInv, NEW t \in Tabs, Delete(t) \/ Clear(t)
  PROVE  /\ PagesInv' /\ KnownInv' /\ TransferInv'
         /\ KeysInv /\ Tabs = {t} => KeysInv'
<1> DEFINE p == page[t]
           gone == p.wallet
<1>1. p \in PageRecords /\ p.list \in Lists
  BY DEF PagesInv, PageTypes, PageRecords
<1>2. p.open /\ gone \in ToSet(p.list) /\ UNCHANGED pool
  BY DEF Delete, Clear, Free, Found
<1>3. PICK list \in Lists : list = Without(p, gone) /\ ToSet(list) = ToSet(p.list) \ {gone}
  BY <1>1, <1>2, WithoutLemma
<1>4. PICK selected \in Wallet : selected = SelectedAfter(p, gone)
  BY <1>1, <1>2, SelectedAfterLemma
<1>5. Selects(list, selected)
  BY <1>1, <1>2, <1>3, <1>4, SelectedAfterLemma
<1> DEFINE failed == Ahead(t, list, selected)
<1>6. PICK w \in Wallet : Persist(t, gone, Shown(t, list, selected, w), failed)
  <2>1. None \in Wallet
    BY DEF Wallet
  <2> QED BY <1>3, <1>4, <2>1 DEF Delete, Clear, Removed
<1> DEFINE done == Shown(t, list, selected, w)
<1>7. Grows(t, done) /\ done.list = list
  BY <1>5, ShownLemma
<1>8. Grows(t, failed) /\ failed.list = list
  BY <1>5, AheadLemma
<1>9. Touched(gone) = {gone}
  <2>1. gone \in Addresses
    BY <1>1, <1>2, ListFacts
  <2> QED BY <2>1, WalletAssumption DEF Touched, WalletAssumption
<1>10. ToSet(list) \subseteq Ever \cup Touched(gone)
  BY <1>3 DEF KnownInv
<1>11. KeysInv => Fits(list, gone)
  <2> SUFFICES ASSUME KeysInv PROVE Fits(list, gone)
    OBVIOUS
  <2>1. added \subseteq ToSet(p.list) /\ ToSet(p.list) \subseteq added \cup unsure
    BY <1>2, OpenFits
  <2> QED BY <1>3, <1>9, <2>1 DEF Fits
<1> HIDE DEF done, failed
<1> QED BY <1>2, <1>6, <1>7, <1>8, <1>10, <1>11, StoringLemma DEF done

-----------------------------------------------------------------------------
(* The balance on the screen.                                              *)
LEMMA BalanceLemma ==
  ASSUME PagesInv, KnownInv, TransferInv, NEW t \in Tabs, Balance(t)
  PROVE  /\ PagesInv' /\ KnownInv' /\ TransferInv'
         /\ KeysInv => KeysInv'
<1>1. page[t] \in PageRecords
  BY DEF PagesInv
<1>2. PICK panel \in Wallet, asked \in SUBSET Addresses :
        page' = [page EXCEPT ![t] = [page[t] EXCEPT !.panel = panel, !.asked = asked]]
  <2>1. page[t].panel \in Wallet /\ page[t].asked \in SUBSET Addresses
        /\ page[t].wallet \in Wallet
    BY <1>1 DEF PageTypes, PageRecords
  <2>2. \A asked : [page[t] EXCEPT !.asked = asked]
                     = [page[t] EXCEPT !.panel = page[t].panel, !.asked = asked]
    BY <1>1 DEF PageTypes, PageRecords
  <2>3. CASE AskBalance(t)
    <3>1. page' = [page EXCEPT ![t] = [page[t] EXCEPT !.asked = @ \cup {page[t].wallet}]]
      BY <2>3 DEF AskBalance
    <3>2. page[t].asked \cup {page[t].wallet} \in SUBSET Addresses
      BY <2>1, <2>3 DEF AskBalance, Wallet
    <3> QED BY <2>1, <2>2, <3>1, <3>2
  <2>4. ASSUME NEW w \in Addresses, BalanceFailed(t, w)
        PROVE  \E panel \in Wallet, asked \in SUBSET Addresses :
          page' = [page EXCEPT ![t] = [page[t] EXCEPT !.panel = panel, !.asked = asked]]
    <3>1. page' = [page EXCEPT ![t] = [page[t] EXCEPT !.asked = @ \ {w}]]
      BY <2>4 DEF BalanceFailed
    <3>2. page[t].asked \ {w} \in SUBSET Addresses
      BY <2>1
    <3> QED BY <2>1, <2>2, <3>1, <3>2
  <2>5. ASSUME NEW w \in Addresses, BalanceAnswered(t, w)
        PROVE  \E panel \in Wallet, asked \in SUBSET Addresses :
          page' = [page EXCEPT ![t] = [page[t] EXCEPT !.panel = panel, !.asked = asked]]
    <3>1. PICK panel \in {w, page[t].panel} :
            page' = [page EXCEPT ![t].asked = @ \ {w}, ![t].panel = panel]
      BY <2>5 DEF BalanceAnswered
    <3>2. page[t].asked \ {w} \in SUBSET Addresses /\ panel \in Wallet
      BY <2>1 DEF Wallet
    <3>3. page' = [page EXCEPT ![t] = [page[t] EXCEPT !.panel = panel,
                                                      !.asked = page[t].asked \ {w}]]
      BY <1>1, <3>1 DEF PageTypes, PageRecords
    <3> QED BY <3>2, <3>3
  <2> QED BY <2>3, <2>4, <2>5 DEF Balance
<1> DEFINE p == [page[t] EXCEPT !.panel = panel, !.asked = asked]
<1>3. /\ p \in PageRecords /\ p.open = page[t].open /\ p.list = page[t].list
      /\ Grows(t, p)
  BY <1>1 DEF PageTypes, PageRecords, Grows
<1>4. UNCHANGED <<disk, flow, pool, history>>
  BY DEF Balance, AskBalance, BalanceAnswered, BalanceFailed
<1>5. flow' \in [Tabs -> [Slots -> FlowRecords]] /\ IsFiniteSet(pool')
      /\ \A tx \in pool' : tx.from \in Addresses
  BY <1>4 DEF PagesInv
<1>6. \A u \in Tabs \ {t}, s \in Slots : Transferring(u, s)' => Transferring(u, s)
  BY <1>4 DEF Transferring
<1>7. page' = [page EXCEPT ![t] = p]
  BY <1>2
<1> HIDE DEF p
<1>8. Keeps(t, p)
  BY <1>3, <1>4, GrowsKeeps
<1> QED BY <1>3, <1>4, <1>5, <1>6, <1>7, <1>8, QuietLemma

-----------------------------------------------------------------------------
(* From a button to the network.                                           *)

(* A click that is under way goes on.                                      *)
LEMMA GoesOnLemma ==
  ASSUME PagesInv, KnownInv, TransferInv, NEW t \in Tabs, NEW s \in Slots,
         NEW f \in FlowRecords, f.kind = flow[t][s].kind, flow[t][s].at # "idle",
         flow' = [flow EXCEPT ![t][s] = f], UNCHANGED <<disk, page, history>>,
         IsFiniteSet(pool'), \A tx \in pool' : tx.from \in Addresses
  PROVE  /\ PagesInv' /\ KnownInv' /\ TransferInv'
         /\ KeysInv => KeysInv'
<1>1. /\ flow' \in [Tabs -> [Slots -> FlowRecords]] /\ flow'[t][s] = f
      /\ \A u \in Tabs, r \in Slots : u # t \/ r # s => flow'[u][r] = flow[u][r]
  BY DEF PagesInv
<1>2. \A u \in Tabs, r \in Slots : Transferring(u, r)' => Transferring(u, r)
  BY <1>1 DEF Transferring
<1>3. PICK p \in PageRecords : p = page[t]
  BY DEF PagesInv
<1>4. page' = [page EXCEPT ![t] = p]
  BY <1>3 DEF PagesInv
<1>5. Keeps(t, p)
  BY <1>2, <1>3 DEF Keeps, TransferInv
<1>6. \A u \in Tabs \ {t}, r \in Slots : Transferring(u, r)' => Transferring(u, r)
  BY <1>2
<1>7. flow' \in [Tabs -> [Slots -> FlowRecords]]
  BY <1>1
<1> QED BY <1>3, <1>4, <1>5, <1>6, <1>7, QuietLemma

(* A click moves on or ends.                                               *)
LEMMA MoveLemma ==
  ASSUME PagesInv, NEW t \in Tabs, NEW s \in Slots,
         NEW to \in {"idle", "status", "nonce", "hash", "dialog", "sending", "polling"},
         to \in {"nonce", "hash", "dialog", "sending"} => flow[t][s].from # None,
         Moves(t, s, to)
  PROVE  /\ flow' \in [Tabs -> [Slots -> FlowRecords]]
         /\ flow'[t][s].at = to /\ flow'[t][s].kind = flow[t][s].kind
         /\ \A u \in Tabs, r \in Slots : u # t \/ r # s => flow'[u][r] = flow[u][r]
<1> DEFINE f == [flow[t][s] EXCEPT !.at = to]
<1>1. flow[t][s] \in FlowRecords
  BY DEF PagesInv
<1>2. f \in FlowRecords /\ f.at = to /\ f.kind = flow[t][s].kind
  BY <1>1 DEF FlowRecords
<1>3. flow' = [flow EXCEPT ![t][s] = f]
  BY DEF Moves
<1> HIDE DEF f
<1>4. /\ flow' \in [Tabs -> [Slots -> FlowRecords]] /\ flow'[t][s] = f
      /\ \A u \in Tabs, r \in Slots : u # t \/ r # s => flow'[u][r] = flow[u][r]
  <2>1. f \in FlowRecords
    BY <1>2
  <2> QED BY <2>1, <1>3 DEF PagesInv
<1> QED BY <1>2, <1>4

(* A click ends, and enables what its end enables.                         *)
LEMMA EndsLemma ==
  ASSUME PagesInv, KnownInv, TransferInv, NEW t \in Tabs, NEW s \in Slots,
         flow[t][s].at # "idle", Ends(t, s), UNCHANGED <<disk, pool, history>>
  PROVE  /\ PagesInv' /\ KnownInv' /\ TransferInv'
         /\ KeysInv => KeysInv'
<1> DEFINE kind == flow[t][s].kind
<1>1. /\ page[t] \in PageRecords /\ kind \in Kinds /\ page[t].off \in SUBSET Switches
      /\ Enabled(t) \in SUBSET Switches
  BY ButtonsLemma DEF PagesInv, FlowRecords
<1>2. /\ flow' \in [Tabs -> [Slots -> FlowRecords]] /\ flow'[t][s].at = "idle"
      /\ \A u \in Tabs, r \in Slots : u # t \/ r # s => flow'[u][r] = flow[u][r]
  BY MoveLemma DEF Ends
<1>3. PICK off \in SUBSET Switches :
        off = IF kind = "transfer" THEN Enabled(t) ELSE page[t].off \ {kind}
  BY <1>1
<1> DEFINE p == [page[t] EXCEPT !.off = off]
<1>4. /\ p \in PageRecords /\ p.off = off /\ p.open = page[t].open
      /\ p.list = page[t].list /\ p.making = page[t].making
      /\ p.filling = page[t].filling /\ p.dialog = page[t].dialog
      /\ p.twice = page[t].twice
  BY <1>1 DEF PageTypes, PageRecords
<1>5. page' = [page EXCEPT ![t] = p]
  BY <1>1, <1>3 DEF Ends, PageTypes, PageRecords
<1> HIDE DEF p
<1>6. \A u \in Tabs, r \in Slots : Transferring(u, r)' => Transferring(u, r)
  BY <1>2 DEF Transferring
<1>7. Alone(page[t])
  BY DEF TransferInv
<1>8. Alone(p)
  <2>1. CASE kind = "transfer"
    <3>1. ~page[t].twice => Bars(page[t])
      BY <2>1 DEF TransferInv, Transferring
    <3> QED BY <1>4, <3>1 DEF Alone, Bars
  <2>2. CASE kind # "transfer"
    BY <1>3, <1>4, <1>7, <2>2 DEF Alone
  <2> QED BY <2>1, <2>2
<1>9. ASSUME NEW r \in Slots, ~p.twice, Transferring(t, r)'
      PROVE  Transferring(t, r) /\ Bars(p)
  <2>1. r # s
    BY <1>2, <1>9 DEF Transferring
  <2>2. Transferring(t, r)
    BY <1>6, <1>9
  <2>3. ~page[t].twice /\ Bars(page[t])
    BY <1>4, <1>9, <2>2 DEF TransferInv
  <2>4. ~Transferring(t, s)
    BY <2>1, <2>2, <2>3 DEF TransferInv
  <2>5. kind # "transfer" /\ kind # "create"
    BY <1>1, <2>4, WalletAssumption DEF Transferring, WalletAssumption
  <2> QED BY <1>3, <1>4, <2>2, <2>3, <2>5 DEF Bars
<1>10. Keeps(t, p)
  BY <1>4, <1>8, <1>9 DEF Keeps
<1>11. IsFiniteSet(pool') /\ \A tx \in pool' : tx.from \in Addresses
  BY DEF PagesInv
<1>12. \A u \in Tabs \ {t}, r \in Slots : Transferring(u, r)' => Transferring(u, r)
  BY <1>6
<1>13. flow' \in [Tabs -> [Slots -> FlowRecords]]
  BY <1>2
<1> HIDE DEF kind
<1> QED BY <1>4, <1>5, <1>10, <1>11, <1>12, <1>13, QuietLemma

(* A transfer that begins is the only one, and disables the buttons.       *)
LEMMA ClickLemma ==
  ASSUME PagesInv, KnownInv, TransferInv, NEW t \in Tabs, NEW s \in Slots,
         NEW k \in Kinds, Click(t, s, k)
  PROVE  /\ PagesInv' /\ KnownInv' /\ TransferInv'
         /\ KeysInv => KeysInv'
<1>1. /\ page[t] \in PageRecords /\ page[t].off \in SUBSET Switches
      /\ Disabled(t) \in SUBSET Switches
      /\ "transfer" \in Disabled(t) /\ "create" \in Disabled(t)
  BY ButtonsLemma
<1>2. PICK f \in FlowRecords : f = [Idle EXCEPT !.at = "status", !.kind = k] /\ f.kind = k
  <2> DEFINE g == [Idle EXCEPT !.at = "status", !.kind = k]
  <2>1. g \in FlowRecords /\ g.kind = k
    BY DEF FlowRecords, Idle, Wallet
  <2> QED BY <2>1
<1>3. PICK off \in SUBSET Switches :
        off = IF k = "transfer" THEN Disabled(t) ELSE page[t].off \cup {k}
  BY <1>1 DEF Switches
<1> DEFINE p == [page[t] EXCEPT !.off = off]
<1>4. /\ p \in PageRecords /\ p.off = off /\ p.open = page[t].open
      /\ p.list = page[t].list /\ p.making = page[t].making
      /\ p.filling = page[t].filling /\ p.dialog = page[t].dialog
      /\ p.twice = page[t].twice
  BY <1>1 DEF PageTypes, PageRecords
<1>5. /\ page[t].open /\ ~page[t].dialog /\ k \notin page[t].off
      /\ flow' = [flow EXCEPT ![t][s] = f] /\ UNCHANGED <<disk, pool, history>>
      /\ page' = [page EXCEPT ![t] = p]
  BY <1>1, <1>2, <1>3 DEF Click, Free, PageTypes, PageRecords
<1> HIDE DEF p
<1>6. /\ flow' \in [Tabs -> [Slots -> FlowRecords]] /\ flow'[t][s] = f
      /\ \A u \in Tabs, r \in Slots : u # t \/ r # s => flow'[u][r] = flow[u][r]
  BY <1>5 DEF PagesInv
<1>7. /\ page' \in [Tabs -> PageRecords] /\ page'[t] = p
      /\ \A u \in Tabs \ {t} : page'[u] = page[u]
  BY <1>4, <1>5, PageSet
<1>8. PagesInv'
  BY <1>5, <1>6, <1>7 DEF PagesInv
<1>9. KnownInv' /\ (KeysInv => KeysInv')
  <2>1. \A u \in Tabs : page'[u].open = page[u].open /\ page'[u].list = page[u].list
    BY <1>4, <1>7
  <2> QED BY <1>5, <2>1, SameKeys
<1>10. \A u \in Tabs, r \in Slots : u # t \/ r # s => (Transferring(u, r)' <=> Transferring(u, r))
  BY <1>6 DEF Transferring
<1>11. k # "transfer" => ~Transferring(t, s)'
  BY <1>2, <1>6 DEF Transferring
<1>12. "transfer" \in p.off \/ page[t].off \subseteq p.off
  BY <1>1, <1>3, <1>4
<1>13. page[t].off \subseteq p.off \/ k = "transfer"
  BY <1>3, <1>4
<1>14. Alone(page[t])
  BY DEF TransferInv
<1>15. Alone(p)
  BY <1>4, <1>12, <1>14 DEF Alone
<1>16. ASSUME ~p.twice
       PROVE  /\ \A r, q \in Slots : Transferring(t, r)' /\ Transferring(t, q)' => r = q
              /\ \A r \in Slots : Transferring(t, r)' => Bars(p)
  <2>1. ~page[t].twice
    BY <1>4, <1>16
  <2>2. /\ \A r, q \in Slots : Transferring(t, r) /\ Transferring(t, q) => r = q
        /\ \A r \in Slots : Transferring(t, r) => Bars(page[t])
    BY <2>1 DEF TransferInv
  <2>3. CASE k = "transfer"
    <3>1. \A r \in Slots : ~Transferring(t, r)
      BY <1>5, <2>2, <2>3 DEF Bars
    <3>2. page[t].making \in Nat /\ page[t].filling \in Nat
      BY <1>1 DEF PageTypes, PageRecords
    <3>3. page[t].making = 0 /\ page[t].filling = 0
      BY <1>5, <1>14, <2>1, <2>3 DEF Alone
    <3>4. Bars(p)
      BY <1>1, <1>3, <1>4, <1>5, <2>3, <3>3 DEF Bars
    <3> QED BY <1>10, <3>1, <3>4
  <2>4. CASE k # "transfer"
    <3>1. \A r \in Slots : Transferring(t, r)' => Transferring(t, r)
      BY <1>10, <1>11, <2>4
    <3>2. Bars(page[t]) => Bars(p)
      BY <1>4, <1>13, <2>4 DEF Bars
    <3> QED BY <2>2, <3>1, <3>2
  <2> QED BY <2>3, <2>4
<1>17. ASSUME NEW u \in Tabs, u # t
       PROVE  /\ Alone(page'[u])
              /\ ~page'[u].twice =>
                   /\ \A r, q \in Slots : Transferring(u, r)' /\ Transferring(u, q)' => r = q
                   /\ \A r \in Slots : Transferring(u, r)' => Bars(page'[u])
  BY <1>7, <1>10, <1>17 DEF TransferInv
<1>18. \A u \in Tabs :
         /\ Alone(page'[u])
         /\ ~page'[u].twice =>
              /\ \A r, q \in Slots : Transferring(u, r)' /\ Transferring(u, q)' => r = q
              /\ \A r \in Slots : Transferring(u, r)' => Bars(page'[u])
  BY <1>7, <1>15, <1>16, <1>17
<1>19. TransferInv'
  BY <1>18 DEF TransferInv, Alone, Bars
<1> QED BY <1>8, <1>9, <1>19

(* An answer gives the click its wallet and its nonce.                     *)
LEMMA AnswersLemma ==
  ASSUME PagesInv, KnownInv, TransferInv, NEW t \in Tabs, NEW s \in Slots,
         StatusAnswered(t, s) \/ NonceAnswered(t, s)
  PROVE  /\ PagesInv' /\ KnownInv' /\ TransferInv'
         /\ KeysInv => KeysInv'
<1>1. flow[t][s] \in FlowRecords /\ page[t] \in PageRecords
  BY DEF PagesInv
<1>2. page[t].wallet \in Wallet \ {None}
  BY <1>1 DEF StatusAnswered, NonceAnswered, PageTypes, PageRecords
<1>3. NonceOf(flow[t][s].from) \in Nat
  <2>1. IsFiniteSet({tx \in pool : tx.from = flow[t][s].from})
    BY FS_Subset DEF PagesInv
  <2> QED BY <2>1, FS_CardinalityType DEF NonceOf
<1>4. UNCHANGED <<disk, page, pool, history>> /\ flow[t][s].at # "idle"
  BY DEF StatusAnswered, NonceAnswered, At
<1>5. PICK f \in FlowRecords : /\ f.kind = flow[t][s].kind
                               /\ flow' = [flow EXCEPT ![t][s] = f]
  <2>1. CASE StatusAnswered(t, s)
    <3> DEFINE g == [flow[t][s] EXCEPT !.at = "nonce", !.from = page[t].wallet]
    <3>1. g \in FlowRecords /\ g.kind = flow[t][s].kind
      BY <1>1, <1>2 DEF FlowRecords
    <3>2. flow' = [flow EXCEPT ![t][s] = g]
      BY <2>1 DEF StatusAnswered
    <3> QED BY <3>1, <3>2
  <2>2. CASE NonceAnswered(t, s)
    <3> DEFINE n == NonceOf(flow[t][s].from)
               g == [flow[t][s] EXCEPT !.at = "hash", !.nonce = n, !.from = page[t].wallet]
    <3>1. flow' = [flow EXCEPT ![t][s] = g]
      BY <2>2 DEF NonceAnswered
    <3>2. n \in Nat
      BY <1>3
    <3> HIDE DEF n
    <3>3. g \in FlowRecords /\ g.kind = flow[t][s].kind
      BY <1>1, <1>2, <3>2 DEF FlowRecords
    <3> QED BY <3>1, <3>3
  <2> QED BY <2>1, <2>2
<1>6. IsFiniteSet(pool') /\ \A tx \in pool' : tx.from \in Addresses
  BY <1>4 DEF PagesInv
<1> QED BY <1>4, <1>5, <1>6, GoesOnLemma

(* The dialog opens or the transaction is sent, accepted or refused.       *)
LEMMA SendingLemma ==
  ASSUME PagesInv, KnownInv, TransferInv, NEW t \in Tabs, NEW s \in Slots,
         NEW to \in {"dialog", "sending", "polling"}, Moves(t, s, to),
         flow[t][s].at \in {"hash", "dialog", "sending"},
         UNCHANGED <<disk, page, history>>, pool' = pool \/ pool' = pool \cup {Tx(t, s)}
  PROVE  /\ PagesInv' /\ KnownInv' /\ TransferInv'
         /\ KeysInv => KeysInv'
<1>1. flow[t][s] \in FlowRecords
  BY DEF PagesInv
<1>2. flow[t][s].from \in Addresses
  BY <1>1 DEF FlowRecords, Wallet
<1>3. PICK f \in FlowRecords : /\ f.kind = flow[t][s].kind
                               /\ flow' = [flow EXCEPT ![t][s] = f]
  <2> DEFINE g == [flow[t][s] EXCEPT !.at = to]
  <2>1. g \in FlowRecords /\ g.kind = flow[t][s].kind
    BY <1>1, <1>2, WalletAssumption DEF FlowRecords, WalletAssumption
  <2>2. flow' = [flow EXCEPT ![t][s] = g]
    BY DEF Moves
  <2> QED BY <2>1, <2>2
<1>4. IsFiniteSet(pool') /\ \A tx \in pool' : tx.from \in Addresses
  <2>1. IsFiniteSet(pool) /\ \A tx \in pool : tx.from \in Addresses
    BY DEF PagesInv
  <2>2. Tx(t, s).from \in Addresses
    BY <1>2 DEF Tx
  <2>3. IsFiniteSet(pool \cup {Tx(t, s)})
    BY <2>1, FS_AddElement
  <2> QED BY <2>1, <2>2, <2>3
<1> QED BY <1>3, <1>4, GoesOnLemma

LEMMA SigningLemma ==
  ASSUME PagesInv, KnownInv, TransferInv, NEW t \in Tabs, NEW s \in Slots, Signing(t, s)
  PROVE  /\ PagesInv' /\ KnownInv' /\ TransferInv'
         /\ KeysInv => KeysInv'
<1>1. CASE \E k \in Kinds : Click(t, s, k)
  BY <1>1, ClickLemma
<1>2. CASE StatusAnswered(t, s) \/ NonceAnswered(t, s)
  BY <1>2, AnswersLemma
<1>3. CASE \/ Fails(t, s) \/ Reject(t, s) \/ EndPoll(t, s)
           \/ AskSignature(t, s) /\ Asking(t)
  <2>1. flow[t][s].at # "idle" /\ Ends(t, s) /\ UNCHANGED <<disk, pool, history>>
    BY <1>3 DEF Fails, Reject, EndPoll, AskSignature, At
  <2> QED BY <2>1, EndsLemma
<1>4. CASE \/ AskSignature(t, s) /\ ~Asking(t)
           \/ Confirm(t, s) \/ Accepted(t, s) \/ Refused(t, s) \/ SendFails(t, s)
  <2>1. \E to \in {"dialog", "sending", "polling"} : Moves(t, s, to)
    BY <1>4 DEF AskSignature, Confirm, Accepted, Refused, SendFails
  <2>2. /\ flow[t][s].at \in {"hash", "dialog", "sending"}
        /\ UNCHANGED <<disk, page, history>>
        /\ pool' = pool \/ pool' = pool \cup {Tx(t, s)}
    BY <1>4 DEF AskSignature, Confirm, Accepted, Refused, SendFails, At
  <2> QED BY <2>1, <2>2, SendingLemma
<1> QED BY <1>1, <1>2, <1>3, <1>4 DEF Signing

LEMMA WalletGoesOn ==
  ASSUME PagesInv, KnownInv, TransferInv, [WalletNext]_walletVars
  PROVE  /\ PagesInv' /\ KnownInv' /\ TransferInv'
         /\ \A t : KeysInv /\ Tabs = {t} => KeysInv'
<1>1. CASE UNCHANGED walletVars
  BY <1>1 DEF walletVars, PagesInv, KnownInv, TransferInv, Transferring, KeysInv,
              KeysAreKept, Read, FirstOf, Ever
<1>2. ASSUME NEW u \in Tabs, Registry(u)
      PROVE  /\ PagesInv' /\ KnownInv' /\ TransferInv'
             /\ KeysInv /\ Tabs = {u} => KeysInv'
  BY <1>2, OpenLemma, CloseLemma, CreationLemma, RenameLemma, RemovedLemma, EndCreateLemma,
     ImportLemma, SelectLemma DEF Registry
<1>3. ASSUME NEW u \in Tabs, NEW s \in Slots, Balance(u) \/ Signing(u, s)
      PROVE  /\ PagesInv' /\ KnownInv' /\ TransferInv'
             /\ KeysInv => KeysInv'
  BY <1>3, BalanceLemma, SigningLemma
<1>4. ASSUME NEW u \in Tabs, Balance(u)
      PROVE  /\ PagesInv' /\ KnownInv' /\ TransferInv'
             /\ KeysInv => KeysInv'
  BY <1>4, BalanceLemma
<1>5. \A t : \A u \in Tabs : Tabs = {t} => Tabs = {u}
  OBVIOUS
<1> QED BY <1>1, <1>2, <1>3, <1>4, <1>5 DEF WalletNext

(* Whatever the user does in any number of pages, and whatever answers are *)
(* late or lost: a page keeps its types, its selected wallet is one of its *)
(* list, and it works on one transfer at a time (app.js).                  *)
THEOREM WalletSound == WalletSpec => []WalletIsSound
<1>1. PagesInv /\ TransferInv => WalletIsSound
  <2> SUFFICES ASSUME PagesInv, TransferInv PROVE WalletIsSound
    OBVIOUS
  <2>1. disk \in [list : Seq(Addresses), selected : Addresses \cup {None},
                  legacy : Addresses \cup {None}]
    BY DEF PagesInv, Disks, Lists, Wallet
  <2>2. ASSUME NEW t \in Tabs
        PROVE  /\ page[t].list \in Seq(Addresses) /\ IsInjective(page[t].list)
               /\ page[t].selected \in ToSet(page[t].list) \cup {None}
               /\ {page[t].wallet, page[t].panel} \subseteq Addresses \cup {None}
               /\ page[t].off \subseteq Switches /\ page[t].asked \subseteq Addresses
               /\ {page[t].making, page[t].filling} \subseteq Nat
    <3>1. page[t] \in PageRecords
      BY DEF PagesInv
    <3> QED BY <3>1 DEF PageTypes, PageRecords, Lists, Selects, Wallet
  <2>3. ASSUME NEW t \in Tabs, NEW s \in Slots
        PROVE  /\ flow[t][s].at \in {"idle", "status", "nonce", "hash", "dialog", "sending",
                                    "polling"}
               /\ flow[t][s].from \in Addresses \cup {None} /\ flow[t][s].nonce \in Nat
    <3>1. flow[t][s] \in FlowRecords
      BY DEF PagesInv
    <3> QED BY <3>1 DEF FlowRecords, Wallet
  <2>4. WalletTypeOK
    BY <2>1, <2>2, <2>3 DEF WalletTypeOK, PagesInv
  <2>5. OneTransferAtATime
    BY DEF TransferInv, Transferring, OneTransferAtATime, At
  <2> QED BY <2>4, <2>5 DEF WalletIsSound
<1>2. PagesInv /\ KnownInv /\ TransferInv /\ [WalletNext]_walletVars
        => PagesInv' /\ KnownInv' /\ TransferInv'
  BY WalletGoesOn
<1> QED BY WalletBegins, <1>1, <1>2, PTL DEF WalletSpec

(* With one page at a time the storage gives to the next page what the     *)
(* user has: no key is lost, and none comes back (wallet-store.js).        *)
THEOREM KeysKept ==
  ASSUME NEW t, Tabs = {t}
  PROVE  WalletSpec => []KeysAreKept
<1>1. KeysInv => KeysAreKept
  BY DEF KeysInv
<1>2. PagesInv /\ KnownInv /\ TransferInv /\ KeysInv /\ [WalletNext]_walletVars
        => PagesInv' /\ KnownInv' /\ TransferInv' /\ KeysInv'
  BY WalletGoesOn
<1> QED BY WalletBegins, <1>1, <1>2, PTL DEF WalletSpec

=============================================================================
