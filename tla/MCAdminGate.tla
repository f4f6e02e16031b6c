---------------------------- MODULE MCAdminGate ----------------------------
(* Instances of SdfAdminGate for TLC. *)
EXTENDS SdfAdminGate, TLC

Sym == Permutations(Requests) \cup Permutations(Users)
=============================================================================
