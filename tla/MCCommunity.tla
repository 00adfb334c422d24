----------------------------- MODULE MCCommunity -----------------------------
(***************************************************************************)
(* Two users and one wallet they contend for.  A behaviour spends the      *)
(* bounds on the links of both users, or has two challenges of one user    *)
(* and spends them on what fails and changes under its roles.              *)
(***************************************************************************)
EXTENDS CommunityIdentity

CONSTANT w1

Unspent == [c \in Challenges |-> Null]

OfOne == [c \in Challenges |-> [user |-> 1, wallet |-> w1, used |-> FALSE]]

MCInit ==
  /\ rows = [u \in Users |-> [status |-> "none", wallet |-> Null, public |-> FALSE]]
  /\ saved = [u \in Users |-> {}]
  /\ member = [u \in Users |-> {}]
  /\ running = {}
  /\ job = [p \in Procs |-> Null]
  /\ mixed = {}
  /\ \/ /\ challenge = OfOne /\ onChain \in [Wallets -> Eligibilities]
        /\ changes = 0 /\ failures = 0 /\ restarts = 0
     \/ /\ challenge = Unspent /\ onChain = [w \in Wallets |-> {}]
        /\ changes = MaxChanges /\ failures = MaxFailures /\ restarts = MaxRestarts

MCSpec == MCInit /\ [][Next]_vars /\ Fairness
=============================================================================
