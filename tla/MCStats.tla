------------------------------ MODULE MCStats ------------------------------
(* One metric of each type: requests, in_queue_bytes, server_ejected_at.   *)
EXTENDS Stats

Types == <<"counter", "gauge", "timestamp">>
OneTwo == {1, 2}

=============================================================================
