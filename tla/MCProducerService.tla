-------------------------- MODULE MCProducerService --------------------------
(***************************************************************************)
(* One address, from which three observers and other clients come.  The    *)
(* window is the interval of the heartbeats, as it is by default, and what *)
(* two of the observers send is the limit of the address: with three, the  *)
(* same one may be refused in every window.  A behaviour spends the bounds *)
(* on requests, on observers, on both, or on the pages, which are new or   *)
(* signed in.                                                              *)
(***************************************************************************)
EXTENDS ProducerService

CONSTANTS n1, u1, w1

MCLimiters == {"global", "publicRead", "transaction", "heartbeatIp", "heartbeatNodeId"}

MCWindow ==
  [g \in MCLimiters |-> IF g \in {"heartbeatIp", "heartbeatNodeId"} THEN 1 ELSE 2]

MCLimit ==
  [g \in MCLimiters |-> CASE g = "global" -> 6
                          [] g = "heartbeatNodeId" -> 1
                          [] g = "heartbeatIp" -> 2
                          [] g = "publicRead" -> 1
                          [] OTHER -> 2]

MCAddressOf == [n \in Nodes |-> CHOOSE a \in Addresses : TRUE]

Serving(requests, happenings, begun) ==
  [running |-> begun, calls |-> MaxCalls - requests, events |-> MaxEvents - happenings,
   clicks |-> MaxClicks, mishaps |-> MaxMishaps, user |-> Null, linked |-> Null,
   wallet |-> Null]

Pages(user, linked, wallet, clicked) ==
  [running |-> {}, calls |-> MaxCalls, events |-> MaxEvents, clicks |-> clicked, mishaps |-> 0,
   user |-> user, linked |-> linked, wallet |-> wallet]

MCBeginnings ==
  {Serving(4, 0, {}), Serving(0, 3, {}), Serving(0, 3, {n1}), Serving(0, 1, Nodes),
   Serving(2, 1, {}),
   Pages(Null, Null, Null, 0), Pages(u1, Null, w1, 0), Pages(u1, w1, w1, 1)}

=============================================================================
