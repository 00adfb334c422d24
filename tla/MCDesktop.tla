----------------------------- MODULE MCDesktop -----------------------------
(* Instances of Desktop: the other programs on the ports of this machine, and *)
(* the budgets of user actions, failures and update checks.                   *)
EXTENDS Desktop

On(holder) == [port \in Ports |-> IF port = DefaultPort THEN holder ELSE "free"]
S(holder, port, u, q, f, c) ==
  [foreign |-> On(holder), config |-> port,
   budget |-> [user |-> u, quit |-> q, fail |-> f, check |-> c]]

MCSituations == {S("free", 1, 2, 0, 0, 0)} \union
  UNION {{S("free", port, 1, 1, 0, 0), S("free", port, 1, 0, 1, 0),
          S("free", port, 0, 0, 2, 0), S("other", port, 1, 0, 0, 0),
          S("other", port, 0, 0, 1, 0), S("observer", port, 0, 0, 0, 0),
          S("free", port, 0, 0, 1, 2)} : port \in {Nothing, DefaultPort}}
=============================================================================
