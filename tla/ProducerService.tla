---------------------------- MODULE ProducerService ----------------------------
(***************************************************************************)
(* What the producer serves besides the chain: the table of the observers  *)
(* behind the request limits, and the sessions of the community pages.     *)
(* They share the process: a restart empties the maps of both.             *)
(***************************************************************************)
EXTENDS ObserverTable, CommunityPage

CONSTANT Beginnings   \* the bounds spent, the observers that run and the pages open
                      \* before the run

vars == <<limitVars, observerVars, pageVars>>

Init ==
  /\ LimitsInit(Keys)
  /\ \E b \in Beginnings :
       /\ ObserverInit(b.running)
       /\ calls = b.calls /\ events = b.events
       /\ clicks = b.clicks /\ mishaps = b.mishaps
       /\ PageInit(b.user, b.linked, b.wallet)

Restart ==
  /\ TableLost /\ SessionsLost
  /\ \/ Event /\ UNCHANGED mishaps
     \/ Mishap /\ UNCHANGED events

Next ==
  \/ (ObserverNext \/ (LimitsNext /\ UNCHANGED observerVars)) /\ UNCHANGED pageVars
  \/ PageNext /\ UNCHANGED <<limitVars, observerVars>>
  \/ Restart

(* Timers fire, what they send arrives unless it is lost, and so the clock *)
(* goes on.  Users promise nothing.                                        *)
Fairness ==
  WF_vars((Tick \/ (\E n \in Nodes : Send(n)) \/ (\E m \in sent : Deliver(m)))
          /\ UNCHANGED pageVars)

Spec == Init /\ [][Next]_vars /\ Fairness

=============================================================================
