------------------------------- MODULE MCTeam -------------------------------
(* The team model on small instances. *)
EXTENDS Team, TLC

CONSTANTS ann, ben, a1, a2

AllKinds == {"change", "invite", "tracks", "assign", "score"}
ChangeOnly == {"change"}
BensRows == [a \in Rows |-> ben]
RequestSymmetry == Permutations(Requests)
============================================================================
