--------------------------- MODULE MCSubmissions ---------------------------
(* Instances of Submissions for TLC. *)
EXTENDS Submissions

CONSTANT a1
=============================================================================
