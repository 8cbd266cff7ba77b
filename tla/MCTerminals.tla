---------------------------- MODULE MCTerminals ----------------------------
(* Terminals, with three terminals and two panes.  Each family lets a few  *)
(* things happen, in any order and with any interleaving of the backend.   *)
EXTENDS Terminals, TLC

CONSTANTS t1, t2, t3, p1, p2

Symmetry == Permutations({t1, t2, t3})

Family(remote, allows, n, running, restored) ==
  [remote |-> remote, allows |-> allows, moves |-> n, running |-> running,
   restored |-> restored]

Families ==
  UNION {{ Family(remote, {"add", "close", "restart", "fails"}, 4, 0, 0),
           Family(remote, {"exit", "close", "restart", "dies", "fails"}, 3, 2, 0),
           Family(remote, {"exit", "restart", "task", "dies", "fails"}, 5, 1, 0),
           Family(remote, {"add", "trust", "bulk", "fails"}, 4, 1, 0),
           Family(remote, {"add", "bulk", "panes", "dies"}, 4, 1, 0) } : remote \in BOOLEAN}
  \cup { Family(TRUE, {"exit", "close", "restart", "restore"}, 4, 0, 2),
         Family(FALSE, {"close", "bulk", "restore"}, 3, 0, 2),
         Family(TRUE, {"exit", "add", "close", "bulk"}, 4, 1, 0),
         Family(FALSE, {"exit", "add", "trust", "busy"}, 4, 1, 0),
         Family(TRUE, {"add", "restart", "task", "fails"}, 4, 0, 0) }
=============================================================================
