------------------------------- MODULE Timers -------------------------------
(***************************************************************************)
(* What the timeout tree of gf_message.c promises to the event loop: a     *)
(* queue of requests in the order of their expiry, and among those that    *)
(* expire in the same millisecond in the order they were inserted.         *)
(***************************************************************************)
EXTENDS Integers, Sequences

CONSTANTS Node,    \* tmo_rbe of the requests
          Expiry   \* when each may expire

VARIABLE queue     \* [node, key] records, the first to expire first

Armed(m) == SelectSeq(queue, LAMBDA t : t.node = m) # <<>>

Init == queue = <<>>

(* A request goes behind every request that does not expire later.         *)
Insert(m, k) ==
    /\ ~Armed(m)
    /\ queue' = SelectSeq(queue, LAMBDA t : t.key <= k)
                    \o <<[node |-> m, key |-> k]>>
                    \o SelectSeq(queue, LAMBDA t : t.key > k)

Delete(m) ==
    /\ Armed(m)
    /\ queue' = SelectSeq(queue, LAMBDA t : t.node # m)

Next == \/ \E m \in Node : \E k \in Expiry[m] : Insert(m, k)
        \/ \E m \in Node : Delete(m)

Spec == Init /\ [][Next]_queue

=============================================================================
