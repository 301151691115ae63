----------------------------- MODULE MCGateway -----------------------------
(* Three requests: two deliveries that race and a third that finds what they *)
(* left; l1 is announced by two events, l2 by one.                           *)
EXTENDS Gateway

CONSTANTS q1, q2, q3, l1, l2, k1, k2, k3

ThreeRequests == {q1, q2, q3}
TwoRequests == {q1, q2}
TwoLeads == {l1, l2}
ThreeKeys == {k1, k2, k3}
Announces == [k \in ThreeKeys |-> IF k = k3 THEN l2 ELSE l1]
=============================================================================
