--------------------------- MODULE MCSemanticMemory ---------------------------
(* Two processes, two contents about the same and one about nothing: a     *)
(* conflict, a replacement by a content that is there, and a record that   *)
(* comes back need no more.                                                *)
EXTENDS SemanticMemory

CONSTANTS a1, a2, p1, p2

Symmetry == Permutations({p1, p2}) \cup Permutations({a1, a2})
===============================================================================
