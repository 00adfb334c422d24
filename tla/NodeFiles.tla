------------------------------ MODULE NodeFiles ------------------------------
(***************************************************************************)
(* A node with its data directory (ChainStorage) and its log (LogFiles):   *)
(* the launcher opens the log when the node starts, and only a node that   *)
(* runs writes to it.  What ends the process in the middle of a rotation   *)
(* is a call of the rotation that fails, followed by the end.              *)
(***************************************************************************)
EXTENDS ChainStorage, LogFiles

allVars == <<vars, logVars>>

NodeInit == Init /\ LogInit

\* The launcher loads the node after it has opened its log.
StartNode == Open /\ (StartFresh \/ Start)

Logs == node.up /\ Write /\ UNCHANGED vars

Others ==
  \/ Crash \/ Mine \/ Apply \/ Refuse \/ PutThrows \/ PutMeta \/ PutLedger
  \/ Damage \/ BackupSnapshot \/ BackupWrite
  \/ RestoreStage \/ RestoreVerify \/ RestoreRemove \/ RestoreRename
  \/ RestoreThrows \/ RestoreCrash
  \/ \E kind \in {"full", "tip", "repair"} : Pin(kind)
  \/ ReplayFull \/ ReplayTip \/ Repair

NodeNext == StartNode \/ Logs \/ (Others /\ UNCHANGED logVars)

NodeSpec == NodeInit /\ [][NodeNext]_allVars
=============================================================================
