--------------------------- MODULE MCCanonicalRefs ---------------------------
(* Two Source Spaces.  The first Landing changes the first of them, the      *)
(* second Landing takes it back to its first commit and changes the other.   *)
EXTENDS CanonicalRefs

CONSTANTS x, y, z

MCSnapshot == [v \in 0..MaxRevision |->
                 CASE v = 0 -> <<x, x>> [] v = 1 -> <<y, x>> [] OTHER -> <<x, y>>]
=============================================================================
