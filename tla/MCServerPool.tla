---------------------------- MODULE MCServerPool ----------------------------
(* Values for the constants of ServerPool that a cfg cannot write: three   *)
(* servers.  With equal weights they get 5 points each while one or two    *)
(* are live, and 4 when all three are, as 25 servers get 156 points each   *)
(* and 24 get 160.                                                         *)
EXTENDS ServerPool

\* Distinct points, the servers interleaved around the ring.
Spread == [p \in (1..3) \X (1..MaxPoints) |-> (5 * (3 * p[2] + p[1])) % (3 * MaxPoints)]

\* Points that collide.
Colliding == [p \in (1..3) \X (1..MaxPoints) |-> (p[1] + p[2]) % 2]

\* Even and uneven rings, and every distribution with unequal weights.
Pool(d, w, v) == [dist_type |-> d, weight |-> w, value |-> v]
Settings ==
    <<Pool("ketama", <<1, 1, 1>>, Spread), Pool("ketama", <<3, 1, 2>>, Spread),
      Pool("ketama", <<3, 1, 2>>, Colliding), Pool("modula", <<3, 1, 2>>, Colliding),
      Pool("random", <<3, 1, 2>>, Colliding)>>

\* Weights that add up to 2, for they wrap round.
Wrapping == <<Pool("modula", <<11, 11, 12>>, Colliding)>>

\* What every ring is; checking this, TLC computes each once, and not in
\* every step.
ASSUME RingsAssumption == Continuum \in [DOMAIN SETTINGS -> [SUBSET Server -> Seq(Point)]]

=============================================================================
