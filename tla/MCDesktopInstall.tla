--------------------------- MODULE MCDesktopInstall ---------------------------
(* An instance of Desktop with two restarts and one update.                   *)
EXTENDS Desktop

MCSituations == {[foreign |-> [port \in Ports |-> "free"], config |-> DefaultPort,
                  budget |-> [user |-> 2, quit |-> 0, fail |-> 0, check |-> 1]]}
=============================================================================
