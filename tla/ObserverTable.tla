----------------------------- MODULE ObserverTable -----------------------------
(***************************************************************************)
(* The observers the producer knows: the heartbeats of the observers       *)
(* (server/lib/observerHeartbeatClient.js), the way of each through the    *)
(* limits to its row (server/routes/network.js, observerRegistry.js and    *)
(* the storages), and what the public list and the network status say of   *)
(* it (networkStatus.js).                                                  *)
(*                                                                         *)
(* What an observer shows of itself is one value: the alias and country    *)
(* its owner chose to be listed with, or Hidden.  Heights and hashes are   *)
(* the subject of module ObserverSync and are left out.                    *)
(***************************************************************************)
EXTENDS HttpLimits

CONSTANTS
  Nodes,         \* the observers, by their nodeId
  AddressOf,     \* the address the heartbeats of each come from
  Faces,         \* what an owner may choose to be listed with
  Hidden,        \* publicListingEnabled is false
  OfflineAfter,  \* observerOfflineAfterSeconds, in ticks
  Retention,     \* observerRetentionDays, in ticks
  Persistent,    \* the storage of the producer: TRUE sqlite, FALSE json
  MaxEvents      \* bound: changed settings, lost and cut heartbeats, starts and stops

ASSUME ObserversAssumption ==
  /\ {"heartbeatIp", "heartbeatNodeId"} \subseteq Limiters
  /\ AddressOf \in [Nodes -> Addresses]
  /\ Hidden \notin Faces
  /\ OfflineAfter \in Nat /\ Retention \in Nat /\ OfflineAfter < Retention
  /\ Persistent \in BOOLEAN /\ MaxEvents \in Nat

VARIABLES
  settings,  \* observer-privacy.json of each observer
  running,   \* the observers that run
  due,       \* the observers whose heartbeat timer has fired
  sent,      \* the heartbeats on the way; live while the observer waits for one
  stuck,     \* the observers that wait for the rest of an answer cut within its body
  rows,      \* observer_nodes: what each row shows and how long ago it was seen
  events     \* counter of the bound

observerVars == <<settings, running, due, sent, stuck, rows, events>>

Keys == Addresses \cup Nodes

Event ==
  /\ events < MaxEvents
  /\ events' = events + 1

-----------------------------------------------------------------------------
(* The observer.                                                           *)

(* POST /api/observer/settings: the file is replaced as a whole.           *)
SaveSettings(n, face) ==
  /\ n \in running /\ face # settings[n]
  /\ Event
  /\ settings' = [settings EXCEPT ![n] = face]
  /\ UNCHANGED <<running, due, sent, stuck, rows, limitVars>>

(* An answer the client waits for that may still come or time out.         *)
Expects(n) == \E m \in sent : m.node = n /\ m.live

(* The flag inFlight of the client.                                        *)
Waits(n) == Expects(n) \/ n \in stuck

(* The heartbeats on the way when observer n waits no more.                *)
Abandoned(n) == {IF m.node = n THEN [m EXCEPT !.live = FALSE] ELSE m : m \in sent}

(* send: it reads the settings, unless the last one is still waited for.   *)
Send(n) ==
  /\ n \in due
  /\ due' = due \ {n}
  /\ sent' = IF Waits(n) THEN sent
             ELSE sent \cup {[node |-> n, shows |-> settings[n], live |-> TRUE]}
  /\ UNCHANGED <<settings, running, stuck, rows, events, limitVars>>

(* The timeout: the observer waits no more, the heartbeat may yet arrive.  *)
TimeOut(n) ==
  /\ Expects(n) /\ Event
  /\ sent' = Abandoned(n)
  /\ UNCHANGED <<settings, running, due, stuck, rows, limitVars>>

StopObserver(n) ==
  /\ n \in running /\ Event
  /\ running' = running \ {n}
  /\ due' = due \ {n}
  /\ sent' = Abandoned(n)
  /\ stuck' = stuck \ {n}
  /\ UNCHANGED <<settings, rows, limitVars>>

(* start: the first heartbeat is sent at once.                             *)
StartObserver(n) ==
  /\ n \notin running /\ Event
  /\ running' = running \cup {n}
  /\ due' = due \cup {n}
  /\ UNCHANGED <<settings, sent, stuck, rows, limitVars>>

-----------------------------------------------------------------------------
(* The producer.                                                           *)

HeartbeatChain == <<"global", "heartbeatIp", "heartbeatNodeId">>

KeysOf(m) == <<AddressOf[m.node], AddressOf[m.node], m.node>>

\* Mutant of Upserted: a row that is there keeps what it shows.
UpsertedFirst(m) ==
  [n \in DOMAIN rows \cup {m.node} |->
     IF n # m.node THEN rows[n]
     ELSE [shows |-> IF n \in DOMAIN rows THEN rows[n].shows ELSE m.shows, age |-> 0]]

(* registerHeartbeat: the row is what the heartbeat says, seen now.        *)
Upserted(m) ==
  [n \in DOMAIN rows \cup {m.node} |->
     IF n # m.node THEN rows[n] ELSE [shows |-> m.shows, age |-> 0]]

(* cleanup: the rows seen before the retention began are deleted.          *)
Retained(table) == Restrict(table, {n \in DOMAIN table : table[n].age <= Retention})

(* POST /api/network/heartbeat arrives.                                    *)
Arrives(m) ==
  /\ m \in sent
  /\ sent' = sent \ {m}
  /\ Through(HeartbeatChain, KeysOf(m))
  /\ rows' = IF AllPass(HeartbeatChain, KeysOf(m)) THEN Retained(Upserted(m)) ELSE rows
  /\ UNCHANGED <<settings, running, due, slots, request, calls>>

(* The observer gets the whole answer, or does not wait for it any more.   *)
Deliver(m) ==
  /\ Arrives(m)
  /\ UNCHANGED <<stuck, events>>

(* The answer ends within its body: postJson listens to the end of the     *)
(* answer and to errors of the request, and neither comes.                 *)
CutAnswer(m) ==
  /\ m.live /\ Event
  /\ Arrives(m)
  /\ stuck' = stuck \cup {m.node}

(* A heartbeat does not arrive.                                            *)
LoseHeartbeat(m) ==
  /\ m \in sent /\ Event
  /\ sent' = sent \ {m}
  /\ UNCHANGED <<settings, running, due, stuck, rows, limitVars>>

(* The producer stops and starts: the json storage keeps the rows in its   *)
(* memory only.                                                            *)
TableLost ==
  /\ LimitsRestart(Keys)
  /\ rows' = IF Persistent THEN rows ELSE <<>>
  /\ sent' = {}
  /\ UNCHANGED <<settings, running, due, stuck>>

(* observerStatus, as far as the age of the row decides it.                *)
Offline(n) == rows[n].age > OfflineAfter

(* buildObserverList: the rows with a face, those of absent observers too. *)
PublicList ==
  {[node |-> n, shows |-> rows[n].shows, offline |-> Offline(n)] :
     n \in {o \in DOMAIN rows : rows[o].shows # Hidden}}

(* buildNetworkStatus, as far as the age of the rows decides it.           *)
NetworkStatus ==
  LET active == {n \in DOMAIN rows : ~Offline(n)}
  IN [known        |-> Cardinality(DOMAIN rows),
      active       |-> Cardinality(active),
      publicActive |-> Cardinality({n \in active : rows[n].shows # Hidden}),
      offline      |-> Cardinality(DOMAIN rows \ active)]

-----------------------------------------------------------------------------

(* A tick is an interval of the heartbeat timers.  Timers and requests are *)
(* faster than that, unless a request has timed out.                       *)
Tick ==
  /\ due = {} /\ \A m \in sent : ~m.live
  /\ LimitsTick
  /\ due' = running
  /\ rows' = [n \in DOMAIN rows |->
                [rows[n] EXCEPT !.age = IF @ > Retention THEN @ ELSE @ + 1]]
  /\ UNCHANGED <<settings, running, sent, stuck, events>>

(* Some observers may have begun.                                          *)
ObserverInit(begun) ==
  /\ settings = [n \in Nodes |-> Hidden]
  /\ running = begun /\ due = begun
  /\ sent = {} /\ stuck = {}
  /\ rows = <<>>

ObserverNext ==
  \/ \E n \in Nodes :
       \/ \E face \in Faces \cup {Hidden} : SaveSettings(n, face)
       \/ Send(n) \/ TimeOut(n) \/ StopObserver(n) \/ StartObserver(n)
  \/ \E m \in sent : Deliver(m) \/ CutAnswer(m) \/ LoseHeartbeat(m)
  \/ Tick

-----------------------------------------------------------------------------
(* The observers that go on sending, and those among them whose address    *)
(* sends no more in a window than it may.                                  *)
Sending == running \ stuck

Served ==
  {n \in Sending :
     Cardinality({o \in Sending : AddressOf[o] = AddressOf[n]}) * Window["heartbeatIp"]
       <= Limit["heartbeatIp"]}

(* The table comes to be what the observers are: one that goes on sending  *)
(* from an address that is not crowded is listed with the face its owner   *)
(* chose last, or not listed; the status counts as active only those that  *)
(* send, all of them where no address is crowded, and the rest as offline; *)
(* whatever heartbeats were refused, lost, cut or late and whatever        *)
(* restarts there were (networkStatus.js, observerRegistry.js,             *)
(* observerHeartbeatClient.js).                                            *)
ListSettles ==
  <>[](/\ \A n \in Served :
            /\ n \in DOMAIN rows /\ ~Offline(n)
            /\ {entry.shows : entry \in {e \in PublicList : e.node = n}}
               = {settings[n]} \ {Hidden}
       /\ \A n \in DOMAIN rows \ Sending : Offline(n)
       /\ Served = Sending =>
            NetworkStatus =
              [known        |-> Cardinality(DOMAIN rows),
               active       |-> Cardinality(Sending),
               publicActive |-> Cardinality({n \in Sending : settings[n] # Hidden}),
               offline      |-> Cardinality(DOMAIN rows \ Sending)])

=============================================================================
