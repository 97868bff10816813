---------------------------- MODULE MCLifecycle ----------------------------
(* Values for the constants of Lifecycle that a cfg cannot write: a pool   *)
(* of two servers that preconnects, and one of a server that does not.     *)
EXTENDS Lifecycle

Servers == <<2, 1>>
First == <<TRUE, FALSE>>
Connections == <<1, 1>>

=============================================================================
