--------------------------- MODULE MCReviewRounds ---------------------------
(* The review round on small instances. *)
EXTENDS ReviewRounds

DeleteAndScore == {"delete", "score"}
============================================================================
