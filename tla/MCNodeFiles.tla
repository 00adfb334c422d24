---------------------------- MODULE MCNodeFiles ----------------------------
(***************************************************************************)
(* Instances of NodeFiles: back ends, modes and budgets of events for the  *)
(* data directory; sinks, numbers of files and budgets of lines and faults *)
(* for the log, with a node that only mines and restarts.                  *)
(***************************************************************************)
EXTENDS NodeFiles

S(kind, role, c, d, b, r, t) ==
  [backend |-> kind, mode |-> role,
   budget |-> [crash |-> c, damage |-> d, backup |-> b, restore |-> r,
               tool |-> t]]

JustRuns == S("sqlite", "producer", 1, 0, 0, 0, 0)

MCSituations == {JustRuns,
                 S("json", "producer", 3, 0, 0, 0, 0),
                 S("json", "observer", 3, 0, 0, 0, 0),
                 S("sqlite", "observer", 2, 1, 0, 0, 0),
                 S("sqlite", "producer", 3, 1, 1, 1, 0),
                 S("sqlite", "producer", 2, 1, 0, 0, 2),
                 S("sqlite", "producer", 2, 0, 2, 1, 1),
                 S("sqlite", "producer", 3, 1, 1, 2, 0)}

G(kind, max, lines, faults, back) ==
  [sink |-> kind, files |-> max, lines |-> lines, faults |-> faults, back |-> back]

NoLog == G("numbered", 1, 0, 0, 0)

MCLogSituations == {NoLog, G("numbered", 1, 8, 2, 0), G("numbered", 2, 8, 2, 0),
                    G("numbered", 3, 10, 2, 0), G("stamped", 1, 6, 1, 0),
                    G("stamped", 3, 9, 1, 0), G("stamped", 3, 9, 1, 1)}

\* Either the events of the data directory or those of the log are looked at.
MCInit == NodeInit /\ (budget = JustRuns.budget <=> left.lines > 0)

MCSpec == MCInit /\ [][NodeNext]_allVars
=============================================================================
