----------------------------- MODULE SubmissionMC -----------------------------
(* A small instance of Submission for TLC.                                  *)
EXTENDS Submission, TLC

OneMover == 1..1
OneDay == {0}
Symmetry == Permutations(Handlers)
=============================================================================
