---------------------------- MODULE MCAuditChain ----------------------------
(* Instances of AuditChain for TLC. *)
EXTENDS AuditChain, TLC

CONSTANTS p1, p2, e1, e2, k1, k2, b1, b2, x1, x2

Req(e, k, b, x) == [eng |-> e, key |-> k, body |-> b, bind |-> x]

\* Two appends to one stream.
TwoRequests == {Req(e1, k1, b1, x1), Req(e1, k2, b1, x1)}

\* Both, and the reuse of a key with another payload, with other bindings and
\* for another engagement.
ReuseRequests ==
    TwoRequests \cup {Req(e1, k1, b2, x1), Req(e1, k1, b1, x2), Req(e2, k1, b1, x1)}
=============================================================================
