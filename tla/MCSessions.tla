----------------------------- MODULE MCSessions -----------------------------
EXTENDS WorkspaceSessions

CONSTANTS p1, p2, draft, a, b, s

MCHome == [path \in Paths |->
              IF path = a THEN p1 ELSE IF path = b THEN p2 ELSE NoProject]

Scope(families, bound) == [allows |-> families, moves |-> bound, texts |-> 1]
Retyped(families, bound) == [Scope(families, bound) EXCEPT !.texts = 2]

MCScopes == {Scope({"close"}, 4), Scope({"manage"}, 3), Scope({"order"}, 4), Scope({"diff"}, 3),
             Scope({"saveAs"}, 4), Scope({"scratch", "manage"}, 3), Scope({"named"}, 4),
             Scope({"restart", "boot"}, 2), Scope({"restart", "manage"}, 2),
             Scope({"restart", "saveAs"}, 2), Scope({"restart", "named"}, 3),
             Scope({"restart", "left"}, 2), Retyped({"restart", "order"}, 3)}
=============================================================================
