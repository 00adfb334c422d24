--------------------------- MODULE MCBlockReplay ---------------------------
(* The instances of MCProducer with an observer next to the producer.       *)
EXTENDS MCProducer, BlockReplay
=============================================================================
