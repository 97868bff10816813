---------------------------- MODULE MCFragments ----------------------------
(* Values for the constants of Fragments that a cfg cannot write.          *)
(* Clients and servers are interchangeable, and every property quantifies  *)
(* over them.                                                              *)
EXTENDS Fragments

Interchangeable == Permutations(Client) \cup Permutations(Server)

=============================================================================
