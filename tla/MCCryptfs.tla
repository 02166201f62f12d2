----------------------------- MODULE MCCryptfs -----------------------------
(* Cryptfs on small instances.                                              *)
EXTENDS Cryptfs, TLC

\* Passwords differ only in their names.
Symmetry == Permutations(Passwords)
=============================================================================
