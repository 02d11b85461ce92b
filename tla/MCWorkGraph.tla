---------------------------- MODULE MCWorkGraph ----------------------------
(* A standalone instance of the Work Graph of a Goal. *)
EXTENDS WorkGraph

\* Two readers and the writer that needs the first: the writer and the second
\* reader may be ready at the same time.
MCShapes ==
  {[mode |-> [n \in Nodes |-> IF n = 3 THEN "writer" ELSE "read_only"],
    deps |-> [n \in Nodes |-> IF n = 3 THEN {1} ELSE {}]],
   [mode |-> [n \in Nodes |-> IF n = 1 THEN "writer" ELSE "read_only"],
    deps |-> [n \in Nodes |-> IF n = 1 THEN {} ELSE {1}]],
   [mode |-> [n \in Nodes |-> "writer"], deps |-> [n \in Nodes |-> {}]]}
MCSpec == GraphSpec /\ GraphFairness
=============================================================================
