------------------------------- MODULE MCConf -------------------------------
(* Values for the constants of Conf that a cfg cannot write.               *)
EXTENDS Conf

Spares == <<2, 1>>

=============================================================================
