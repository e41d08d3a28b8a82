---------------------------- MODULE MCLibrarian ----------------------------
(* One watched agent with two runs is enough for a run that starts and ends *)
(* between two steps of a sweep over the other.                             *)
EXTENDS Librarian
=============================================================================
