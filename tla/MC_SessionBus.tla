--------------------------- MODULE MC_SessionBus ---------------------------
(* A small instance of SessionBus. *)
EXTENDS SessionBus, TLC

CONSTANTS a1, a2

\* The last two are made in one millisecond, and all ids are in the opposite order.
CreatedAt_v == [m \in Messages |-> IF m = 1 THEN 1 ELSE 2]
Id_v        == [m \in Messages |-> 4 - m]

\* Two messages for a session of two applications, and after them one for a session
\* whose key begins with the key of the first and a colon.
To_v     == [m \in Messages |-> IF m = 3 THEN "k:x" ELSE "k"]
Key_v    == [a \in Apps |-> "k"]
Within_v == {<<"k", "k:x">>}

Symmetry == Permutations({a1, a2})
=============================================================================
