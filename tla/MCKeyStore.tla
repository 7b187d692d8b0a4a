------------------------------ MODULE MCKeyStore ------------------------------
(***************************************************************************)
(* TLC instance of KeyStore.                                               *)
(***************************************************************************)
EXTENDS KeyStore, TLC

Symmetry == Permutations(Names) \cup Permutations(Keys) \cup Permutations(Passwords)
================================================================================
