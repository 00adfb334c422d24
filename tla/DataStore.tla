------------------------------ MODULE DataStore ------------------------------
(***************************************************************************)
(* How the inventory application keeps its document (src/store.ts): one    *)
(* copy in memory, changed by each request in one step and written whole,  *)
(* one write after the other, before the request is answered.              *)
(*                                                                         *)
(* The document is the set of the requests whose changes it holds.  A      *)
(* write takes what is in memory when it begins, which may be more than    *)
(* the request asked for, and truncates the file before it fills it.       *)
(***************************************************************************)
EXTENDS Naturals, Sequences, FiniteSets, SequencesExt

CONSTANTS
  Requests,     \* the requests that change the document
  MaxCrashes,   \* bound: crashes of the process
  MaxFailures   \* bound: writes that fail, the disk being full or read-only

ASSUME DataStoreAssumption ==
  /\ IsFiniteSet(Requests)
  /\ MaxCrashes \in Nat /\ MaxFailures \in Nat

VARIABLES
  process,    \* "down", "starting", or "up", serving requests
  memory,     \* cachedData
  queue,      \* the requests whose write is awaited, in the order of writeQueue
  writing,    \* what the write at the head of the queue has serialized
  rejected,   \* writeQueue is a rejected promise
  file,       \* db.json: the document, or what a cut write left
  request,    \* request -> "new", "waiting", "acked", "failed" or "lost"
  cut,        \* history: some write was cut after it had truncated the file
  crashes, failures

storeVars == <<process, memory, queue, writing, rejected, file, request, cut, crashes, failures>>

Absent == [kind |-> "absent", doc |-> {}]   \* no file, or one without a byte
Torn   == [kind |-> "torn", doc |-> {}]     \* a file cut within the text
Holding(doc) == [kind |-> "whole", doc |-> doc]

Idle == queue = <<>>

-----------------------------------------------------------------------------

StoreInit ==
  /\ process = "down"
  /\ memory = {} /\ queue = <<>> /\ writing = {}
  /\ rejected = FALSE
  /\ file = Absent
  /\ request = [r \in Requests |-> "new"]
  /\ cut = FALSE /\ crashes = 0 /\ failures = 0

(* loadDataFile and ensureAdminUser, before the server listens: a file     *)
(* that is missing or empty is replaced by an empty document, a torn one   *)
(* stops the start; the document is written in any case.                   *)
Load ==
  /\ process = "down" /\ file.kind # "torn"
  /\ process' = "starting"
  /\ memory' = file.doc
  /\ writing' = file.doc
  /\ UNCHANGED <<queue, rejected, file, request, cut, crashes, failures>>

Listen ==
  /\ process = "starting"
  /\ process' = "up"
  /\ file' = Holding(writing)
  /\ writing' = {}
  /\ UNCHANGED <<memory, queue, rejected, request, cut, crashes, failures>>

(* updateData: the handler changes the copy in memory and returns, and the *)
(* write is queued; it begins at once when the queue is idle.  When the    *)
(* queue is rejected the write never begins and the request fails.         *)
Update(r) ==
  /\ process = "up" /\ request[r] = "new"
  /\ memory' = memory \cup {r}
  /\ IF rejected
       THEN /\ request' = [request EXCEPT ![r] = "failed"]
            /\ UNCHANGED <<queue, writing>>
       ELSE /\ request' = [request EXCEPT ![r] = "waiting"]
            /\ queue' = Append(queue, r)
            /\ writing' = IF Idle THEN memory' ELSE writing
  /\ UNCHANGED <<process, rejected, file, cut, crashes, failures>>

(* updateData, when the handler throws after it changed something: nothing *)
(* is queued and nothing taken back.                                       *)
Throw(r) ==
  /\ process = "up" /\ request[r] = "new"
  /\ memory' = memory \cup {r}
  /\ request' = [request EXCEPT ![r] = "failed"]
  /\ UNCHANGED <<process, queue, writing, rejected, file, cut, crashes, failures>>

(* The write ends: its request is answered and the next write begins.      *)
EndWrite ==
  /\ ~Idle
  /\ file' = Holding(writing)
  /\ request' = [request EXCEPT ![Head(queue)] = "acked"]
  /\ queue' = Tail(queue)
  /\ writing' = IF Len(queue) > 1 THEN memory ELSE {}
  /\ UNCHANGED <<process, memory, rejected, cut, crashes, failures>>

(* What a write that does not end leaves in the file.                      *)
Cut == {file, Absent, Torn}

\* Mutant of FailWrite: the requests behind the failed write are answered.
FailWriteAlone ==
  /\ ~Idle /\ failures < MaxFailures
  /\ failures' = failures + 1
  /\ file' \in Cut
  /\ cut' = (cut \/ file' # file)
  /\ request' = [r \in Requests |-> IF r = Head(queue) THEN "failed"
                                    ELSE IF r \in ToSet(queue) THEN "acked" ELSE request[r]]
  /\ queue' = <<>> /\ writing' = {} /\ rejected' = TRUE
  /\ UNCHANGED <<process, memory, crashes>>

(* The write fails: it and all that are queued behind it are rejected, now *)
(* and until the process is started again.                                 *)
FailWrite ==
  /\ ~Idle /\ failures < MaxFailures
  /\ failures' = failures + 1
  /\ file' \in Cut
  /\ cut' = (cut \/ file' # file)
  /\ request' = [r \in Requests |-> IF r \in ToSet(queue) THEN "failed" ELSE request[r]]
  /\ queue' = <<>> /\ writing' = {} /\ rejected' = TRUE
  /\ UNCHANGED <<process, memory, crashes>>

(* The process ends, by itself or because a handler's error is caught by   *)
(* nobody; a write may be in the middle.                                   *)
ProcessEnds ==
  /\ process # "down" /\ crashes < MaxCrashes
  /\ crashes' = crashes + 1
  /\ process' = "down"
  /\ file' \in IF Idle /\ process = "up" THEN {file} ELSE Cut \cup {Holding(writing)}
  /\ cut' = (cut \/ file' \notin {file, Holding(writing)})
  /\ request' = [r \in Requests |-> IF r \in ToSet(queue) THEN "lost" ELSE request[r]]
  /\ memory' = {} /\ queue' = <<>> /\ writing' = {} /\ rejected' = FALSE
  /\ UNCHANGED failures

StoreNext ==
  \/ Load
  \/ Listen
  \/ \E r \in Requests : Update(r) \/ Throw(r)
  \/ EndWrite
  \/ FailWrite
  \/ ProcessEnds

StoreSpec == StoreInit /\ [][StoreNext]_storeVars

-----------------------------------------------------------------------------

Acked == {r \in Requests : request[r] = "acked"}

(* The types of the variables; the queue holds the waiting requests, whose *)
(* changes are all in memory.                                              *)
StoreTypeOK ==
  /\ process \in {"down", "starting", "up"} /\ rejected \in BOOLEAN /\ cut \in BOOLEAN
  /\ memory \subseteq Requests /\ writing \subseteq memory
  /\ file.kind \in {"absent", "torn", "whole"} /\ file.doc \subseteq Requests
  /\ request \in [Requests -> {"new", "waiting", "acked", "failed", "lost"}]
  /\ ToSet(queue) = {r \in Requests : request[r] = "waiting"}
  /\ ToSet(queue) \subseteq memory

(* What was answered with success is in the file, through failed writes,   *)
(* requests that fail half way, crashes and restarts, as long as no write  *)
(* was cut: after a failed write no request is answered with success       *)
(* although its changes are in memory and shown (store.ts, updateData).    *)
AckedIsSaved == ~cut => Acked \subseteq file.doc

(* The store keeps its types and loses nothing it has answered for         *)
(* (store.ts, updateData).                                                 *)
StoreIsSound ==
  /\ StoreTypeOK
  /\ AckedIsSaved

=============================================================================
