------------------------------ MODULE MCStream ------------------------------
(* Values for the constants of Stream that a cfg cannot write.             *)
EXTENDS Stream

LongAndShort == <<5, 1, 2, 4, 3>>

=============================================================================
