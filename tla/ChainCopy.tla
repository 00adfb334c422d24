----------------------------- MODULE ChainCopy -----------------------------
(***************************************************************************)
(* What observer synchronization promises: whatever is lost, cut, failed,  *)
(* restarted or restored, the observer's chain is a path through the tree  *)
(* of the blocks the producer has ever sealed, and it only ever grows, by  *)
(* one whole block at a time.                                              *)
(***************************************************************************)
EXTENDS Integers, Sequences

CONSTANT Ids   \* the block hashes

Genesis == 0   \* the hash of the block everybody starts from

VARIABLES
  sealed,   \* every block ever sealed: block id follows block prev
  copy      \* the observer's chain, a sequence of block ids

Tip(ids) == IF ids = <<>> THEN Genesis ELSE ids[Len(ids)]

CopyInit == sealed = {} /\ copy = <<>>

(* A block is sealed on top of genesis or of another block.                *)
Seal(id, prev) ==
  /\ \A b \in sealed : b.id # id
  /\ prev = Genesis \/ \E b \in sealed : b.id = prev
  /\ sealed' = sealed \cup {[id |-> id, prev |-> prev]}
  /\ UNCHANGED copy

(* The observer adopts a sealed block that follows the last one it has.    *)
Adopt(b) ==
  /\ b.prev = Tip(copy)
  /\ copy' = Append(copy, b.id)
  /\ UNCHANGED sealed

CopyNext ==
  \/ \E id \in Ids, prev \in Ids \cup {Genesis} : Seal(id, prev)
  \/ \E b \in sealed : Adopt(b)

CopySpec == CopyInit /\ [][CopyNext]_<<sealed, copy>>
=============================================================================
