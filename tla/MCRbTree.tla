------------------------------ MODULE MCRbTree ------------------------------
(* Values for the constants of RbTree that a cfg cannot write.             *)
EXTENDS RbTree

Six == 1..6
Ties == <<{1}, {1}, {2}, {2}, {3}, {3}>>

=============================================================================
