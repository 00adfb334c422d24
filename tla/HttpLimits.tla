------------------------------ MODULE HttpLimits ------------------------------
(***************************************************************************)
(* The limits every request to the producer passes before its handler      *)
(* (server/index.js with server/lib/httpSecurity.js): the rate limiters,   *)
(* one map of buckets each, and the limit on the transactions of a client  *)
(* that are worked on at a time.                                           *)
(*                                                                         *)
(* A bucket counts the requests of a key from its first one until its      *)
(* window is over.  Buckets of windows that are over stay in the map until *)
(* a request of any key finds that the last sweep is more than a window    *)
(* ago.  Times are kept as the ticks that are left or have gone by, and a  *)
(* bucket counts no further than the first request it refuses.             *)
(***************************************************************************)
EXTENDS Naturals, FiniteSets, Functions

CONSTANTS
  Limiters,       \* the groups of limiters that are modelled
  Window,         \* the ticks of the window of each
  Limit,          \* the requests of a key it lets through in a window
  Readers,        \* the limiters of GET requests
  Addresses,      \* the addresses requests come from
  MaxConcurrent,  \* maxConcurrentPerIp
  Bodies,         \* the bodies of POST requests, as the server sees them
  Requests,       \* bound: the POST requests to /api/tx under way at a time
  MaxCalls,       \* bound: GET requests and POST requests to /api/tx
  None            \* no request

ASSUME LimitsAssumption ==
  /\ {"global", "transaction"} \cup Readers \subseteq Limiters
  /\ Window \in [Limiters -> Nat \ {0}]
  /\ Limit \in [Limiters -> Nat \ {0}]
  /\ MaxConcurrent \in Nat \ {0} /\ IsFiniteSet(Requests)
  /\ None \notin [from : Addresses, reads : BOOLEAN, released : BOOLEAN]
  /\ Bodies \subseteq {"fits", "longHead", "notJson", "long", "broken"}
  /\ MaxCalls \in Nat

VARIABLES
  buckets,  \* per limiter: the count and the ticks left of the keys in its map
  swept,    \* per limiter: the ticks since its last sweep, one more than its
            \* window for all that are longer ago
  slots,    \* inFlight: the transactions worked on, of the addresses in the map
  request,  \* the POST requests to /api/tx: address, whether the body is read
            \* or there is an answer, slot released or not
  passed,   \* history: the requests let through in the last window's time,
            \* per limiter and key, each with its age and its number of that age
  calls     \* counter of the bound

limitVars == <<buckets, swept, slots, request, passed, calls>>

-----------------------------------------------------------------------------
(* createRateLimiter.                                                      *)

\* Mutant of Kept: the sweep deletes the buckets whose window goes on.
KeptIfOver(g) ==
  IF swept[g] <= Window[g] THEN buckets[g]
  ELSE Restrict(buckets[g], {k \in DOMAIN buckets[g] : buckets[g][k].left = 0})

(* The map after the sweep that a request makes when one is due.           *)
Kept(g) ==
  IF swept[g] <= Window[g] THEN buckets[g]
  ELSE Restrict(buckets[g], {k \in DOMAIN buckets[g] : buckets[g][k].left > 0})

(* The record of k when its request comes, if its window goes on.          *)
Live(g, k) == k \in DOMAIN Kept(g) /\ Kept(g)[k].left > 0

Passes(g, k) == Live(g, k) => Kept(g)[k].count < Limit[g]

(* The map after a request of k: it opens a bucket or counts in its own.   *)
Counted(g, k) ==
  LET first == [count |-> 1, left |-> Window[g]]
      more  == [Kept(g)[k] EXCEPT !.count = IF @ > Limit[g] THEN @ ELSE @ + 1]
  IN [j \in DOMAIN Kept(g) \cup {k} |->
        IF j # k THEN Kept(g)[j] ELSE IF Live(g, k) THEN more ELSE first]

(* The limiters of a chain that a request with these keys comes to: the    *)
(* first that refuses it ends the request.                                 *)
Reached(chain, keys) ==
  {i \in DOMAIN chain : \A j \in 1 .. i - 1 : Passes(chain[j], keys[j])}

AllPass(chain, keys) == \A i \in DOMAIN chain : Passes(chain[i], keys[i])

(* A request with these keys goes through the chain as far as it comes.    *)
Through(chain, keys) ==
  LET reached  == Reached(chain, keys)
      at(g)    == CHOOSE i \in reached : chain[i] = g
      groups   == {chain[i] : i \in reached}
  IN /\ buckets' = [g \in Limiters |->
                      IF g \in groups THEN Counted(g, keys[at(g)]) ELSE buckets[g]]
     /\ swept' = [g \in Limiters |->
                    IF g \in groups /\ swept[g] > Window[g] THEN 0 ELSE swept[g]]
     /\ passed' = [g \in Limiters |->
                     IF g \in groups /\ Passes(g, keys[at(g)])
                       THEN [passed[g] EXCEPT ![keys[at(g)]] =
                               @ \cup {<<0, Cardinality({p \in @ : p[1] = 0})>>}]
                       ELSE passed[g]]

-----------------------------------------------------------------------------

Call ==
  /\ calls < MaxCalls
  /\ calls' = calls + 1

(* A GET request, answered at once.                                        *)
Get(a, g) ==
  /\ Call
  /\ Through(<<"global", g>>, <<a, a>>)
  /\ UNCHANGED <<slots, request>>

InFlight(a) == IF a \in DOMAIN slots THEN slots[a] ELSE 0

TxChain == <<"global", "transaction">>

(* createContentLengthPrecheck and requireJsonContentType refuse a body by *)
(* its headers: a length that is none or is over the limit, another type.  *)
HeadRefused(body) == body \in {"longHead", "notJson"}

(* POST /api/tx: the limiters, then createConcurrencyLimiter, which takes  *)
(* a slot before anything looks at the body.                               *)
Post(a, r, body) ==
  /\ request[r] = None
  /\ Call
  /\ Through(TxChain, <<a, a>>)
  /\ IF AllPass(TxChain, <<a, a>>) /\ InFlight(a) < MaxConcurrent
       THEN /\ slots' = [b \in DOMAIN slots \cup {a} |->
                           IF b = a THEN InFlight(a) + 1 ELSE slots[b]]
            /\ request' = [request EXCEPT ![r] =
                 [from |-> a, reads |-> ~HeadRefused(body), released |-> FALSE]]
       ELSE UNCHANGED <<slots, request>>

(* The body has come as far as the parser reads it: one that is longer     *)
(* than the limit or no JSON is refused, any other goes to the handler;    *)
(* both answer at once.                                                    *)
ReadBody(r) ==
  /\ request[r] # None /\ request[r].reads
  /\ request' = [request EXCEPT ![r].reads = FALSE]
  /\ UNCHANGED <<buckets, swept, slots, passed, calls>>

\* Mutant of Release: the flag released is not looked at.
ReleaseTwice(r) ==
  LET a == request[r].from
  IN slots' = IF InFlight(a) <= 1
                THEN Restrict(slots, DOMAIN slots \ {a})
                ELSE [slots EXCEPT ![a] = @ - 1]

(* release: at the end of the answer or the close of the connection,       *)
(* whichever comes first; the last one takes the address out of the map.   *)
Release(r) ==
  LET a == request[r].from
  IN slots' = CASE request[r].released -> slots
                [] ~request[r].released /\ InFlight(a) <= 1 ->
                     Restrict(slots, DOMAIN slots \ {a})
                [] OTHER -> [slots EXCEPT ![a] = @ - 1]

(* The answer is written, whether the body was refused, the transaction    *)
(* rejected or admitted.                                                   *)
Finish(r) ==
  /\ request[r] # None /\ ~request[r].reads /\ ~request[r].released
  /\ Release(r)
  /\ request' = [request EXCEPT ![r].released = TRUE]
  /\ UNCHANGED <<buckets, swept, passed, calls>>

(* The connection is closed, after the answer or without one: a body that  *)
(* never comes holds its slot till then.                                   *)
Close(r) ==
  /\ request[r] # None
  /\ Release(r)
  /\ request' = [request EXCEPT ![r] = None]
  /\ UNCHANGED <<buckets, swept, passed, calls>>

(* A tick goes by.                                                         *)
LimitsTick ==
  /\ buckets' = [g \in Limiters |-> [k \in DOMAIN buckets[g] |->
                   [buckets[g][k] EXCEPT !.left = IF @ = 0 THEN 0 ELSE @ - 1]]]
  /\ swept' = [g \in Limiters |-> IF swept[g] > Window[g] THEN swept[g] ELSE swept[g] + 1]
  /\ passed' = [g \in Limiters |-> [k \in DOMAIN passed[g] |->
                  {<<p[1] + 1, p[2]>> : p \in {q \in passed[g][k] : q[1] + 1 < Window[g]}}]]
  /\ UNCHANGED <<slots, request, calls>>

(* The limiters of a process that starts; their last sweep is at time zero. *)
NoBuckets == [g \in Limiters |-> <<>>]
NeverSwept == [g \in Limiters |-> Window[g] + 1]
NonePassed(keys) == [g \in Limiters |-> [k \in keys |-> {}]]
NoRequests == [r \in Requests |-> None]

LimitsInit(keys) ==
  /\ buckets = NoBuckets /\ swept = NeverSwept
  /\ slots = <<>> /\ request = NoRequests
  /\ passed = NonePassed(keys)

(* The process starts again: what was worked on is gone with it.           *)
LimitsRestart(keys) ==
  /\ buckets' = NoBuckets /\ swept' = NeverSwept
  /\ slots' = <<>> /\ request' = NoRequests
  /\ passed' = NonePassed(keys)
  /\ UNCHANGED calls

LimitsNext ==
  \/ \E a \in Addresses : (\E g \in Readers : Get(a, g)) \/ (\E r \in Requests, body \in Bodies : Post(a, r, body))
  \/ \E r \in Requests : ReadBody(r) \/ Finish(r) \/ Close(r)

-----------------------------------------------------------------------------
(* In the time of one window a limiter lets through, of a key, fewer       *)
(* requests than twice the limit, wherever that time begins and whatever   *)
(* the sweeps deleted: it holds the last of a bucket without its first     *)
(* one, and a whole other (httpSecurity.js, createRateLimiter).            *)
RateIsBounded ==
  \A g \in Limiters : \A k \in DOMAIN passed[g] :
    Cardinality(passed[g][k]) < 2 * Limit[g]

(* The slots an address holds are its requests that are still worked on:   *)
(* one that ends, however it ends, gives back its slot once, and none is   *)
(* lost to a refused or broken request (createConcurrencyLimiter).         *)
SlotsAreExact ==
  \A a \in Addresses :
    InFlight(a) = Cardinality({r \in Requests : /\ request[r] # None
                                                /\ request[r].from = a
                                                /\ ~request[r].released})

=============================================================================
