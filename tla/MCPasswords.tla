---------------------------- MODULE MCPasswords -----------------------------
(* Instances of Passwords for TLC. *)
EXTENDS Passwords, TLC

Symmetry == Permutations(Handler) \cup Permutations(Password)
=============================================================================
