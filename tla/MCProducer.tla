----------------------------- MODULE MCProducer -----------------------------
(* Small instances of Producer: two clients a and b and the treasury t.     *)
EXTENDS Producer

CONSTANTS a, b, t

MCAccounts == {a, b, t}

Balances(x, y, z) == [k \in MCAccounts |-> IF k = a THEN x ELSE IF k = b THEN y ELSE z]

(* b is a participant that a sponsors, with a bond of one unit.             *)
SponsoredLedger ==
  [balances |-> Balances(3, 2, 0),
   nonces |-> [k \in MCAccounts |-> 0],
   participants |-> [k \in MCAccounts |->
      IF k = b THEN [sponsor |-> a, bond |-> 1, registeredHeight |-> 0, lastSeenHeight |-> 0]
      ELSE Null]]
=============================================================================
