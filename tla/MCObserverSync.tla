--------------------------- MODULE MCObserverSync ---------------------------
(***************************************************************************)
(* Faults and restores are looked at one kind at a time, each with late    *)
(* and lost heartbeats: the bounds of the other kind are spent.            *)
(***************************************************************************)
EXTENDS ObserverSync

MCInit == Init /\ (faults = MaxFaults <=> restores = 0)

MCSpec == MCInit /\ [][Next]_vars /\ Fairness
=============================================================================
