------------------------------ MODULE MCProxy ------------------------------
(* Values for the constants of Proxy that a cfg cannot write.              *)
EXTENDS Proxy

Asynchronous == {"inprogress"}
AnyConnect == {"inprogress", "connected", "refused", "nosocket"}
Gets == {"get"}
GetsAndLeaves == {"get", "reset"}
AllItems == {"get", "set", "quit", "eof", "reset"}
NoServerFaults == {}
EarlyReplies == {"early"}
ServersStop == {"eof"}
AllServerFaults == {"early", "fail", "eof", "reset", "unreachable"}

=============================================================================
