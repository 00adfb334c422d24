--------------------------- MODULE MCBrowserWallet ---------------------------
(***************************************************************************)
(* Four storages to start from: an empty one, that of an earlier version,  *)
(* two wallets of which the second is selected, and one whose last write   *)
(* was cut before the legacy wallet.                                       *)
(***************************************************************************)
EXTENDS BrowserWallet

CONSTANTS a, b, c

MCAddresses == {a, b, c}

MCStorages ==
  {[list |-> <<>>, selected |-> None, legacy |-> None],
   [list |-> <<>>, selected |-> None, legacy |-> a],
   [list |-> <<a, b>>, selected |-> b, legacy |-> b],
   [list |-> <<b>>, selected |-> b, legacy |-> a]}

=============================================================================
