-------------------------- MODULE MCFollowupChain --------------------------
(* A tenant that allows two follow-ups at one time and none at another, room *)
(* for a third that must not happen, and calls that outlive their timeout.   *)
EXTENDS FollowupChain

NoneOrTwo == {0, 2}
=============================================================================
