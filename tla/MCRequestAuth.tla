--------------------------- MODULE MCRequestAuth ---------------------------
(* Four deliveries: two of one message; one that is the same message too, a  *)
(* damaged copy of it, or another message signed later with the same nonce;  *)
(* and one of a message with another nonce, whose handling evicts old ones.  *)
EXTENDS RequestAuth, TLC

CONSTANTS d1, d2, d3, d4, n1, n2

Signed(n, t) == [nonce |-> n, stamp |-> t, genuine |-> TRUE]
Damaged(n, t) == [nonce |-> n, stamp |-> t, genuine |-> FALSE]

MCMailing ==
    {(d1 :> a) @@ (d2 :> Signed(n1, 1)) @@ (d3 :> Signed(n1, 1)) @@ (d4 :> Signed(n2, u)) :
        a \in {Signed(n1, 1), Damaged(n1, 1), Signed(n1, 3)}, u \in 0 .. MaxTime}
=============================================================================
