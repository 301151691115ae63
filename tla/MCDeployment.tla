---------------------------- MODULE MCDeployment ----------------------------
(* A lead whose chain has one touchpoint, and one sender that takes a row at *)
(* a time: rows come into the table while it is between any two statements.  *)
EXTENDS Deployment

CONSTANT s1

One == {1}
Allow == {"ALLOW"}
Single == {s1}
AtOnce == <<0>>
=============================================================================
