----------------------------- MODULE MCDecision -----------------------------
(* Instances of module Decision for TLC *)
EXTENDS Decision, TLC

NoEdits == {}
AcceptOrDeny == {"approved", "denied"}

\* Requests, speakers and tasks are interchangeable; so are the proposals
RequestSymmetry == Permutations(Requests) \cup Permutations(Speakers)
                   \cup Permutations(Submissions)
============================================================================
