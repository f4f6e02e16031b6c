-------------------------- MODULE MCEnrolledUsers ---------------------------
(* Instances of SdfEnrolledUsers for TLC. *)
EXTENDS SdfEnrolledUsers, TLC

Sym == Permutations(Users)
=============================================================================
