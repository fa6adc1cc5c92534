---------------------------- MODULE MCServerMenu ----------------------------
(* ServerMenu for TLC: users and servers are interchangeable.              *)
EXTENDS ServerMenu, TLC

Symmetry == Permutations(Users) \cup Permutations(Servers)
=============================================================================
