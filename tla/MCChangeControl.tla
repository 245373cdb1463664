--------------------------- MODULE MCChangeControl ---------------------------
(* Small instances of ChangeControl for TLC. *)
EXTENDS ChangeControl, TLC

CONSTANTS s0, s1, sp1, sp2

TwoSpaces == {sp1, sp2}
TwoSnapshots == {s0, s1}
InitialTwo == [s \in TwoSpaces |-> s0]
BothOrOne == {{sp1, sp2}, {sp1}}

OneSpace == {sp1}
InitialOne == [s \in OneSpace |-> s0]
WholeProject == {{sp1}}

\* Callers and target directories are interchangeable.
Symmetry == Permutations(Requests) \cup Permutations(Directories)
=============================================================================
