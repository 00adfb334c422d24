------------------------------ MODULE MCMempool ------------------------------
(***************************************************************************)
(* Transactions of two senders, one of them large and one larger than the  *)
(* pool.                                                                   *)
(***************************************************************************)
EXTENDS Mempool

MCIds == {"a1", "a2", "a3", "b1", "b2", "b3"}
MCSigner == [id \in MCIds |-> IF id \in {"b1", "b2", "b3"} THEN "b" ELSE "a"]
MCBytes == [id \in MCIds |-> CASE id = "b1" -> 3 [] id = "b3" -> 5 [] OTHER -> 1]

=============================================================================
