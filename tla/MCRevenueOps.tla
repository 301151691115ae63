---------------------------- MODULE MCRevenueOps ----------------------------
(* The shortest chain there is: what a longer one does by itself is checked  *)
(* in MCFollowupChain, and adds nothing to how the three parts meet.         *)
EXTENDS RevenueOps

One == {1}
Allow == {"ALLOW"}
=============================================================================
