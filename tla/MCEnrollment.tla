---------------------------- MODULE MCEnrollment ----------------------------
(* Finite instances of Enrollment. *)
EXTENDS Enrollment, TLC

MCSymmetry == Permutations(Calls) \cup Permutations(Ids) \cup Permutations(Requests)
                \cup Permutations(Policies) \cup Permutations(SessionTokens)
=============================================================================
