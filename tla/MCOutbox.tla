------------------------------ MODULE MCOutbox ------------------------------
(* Model values for Outbox. The schedule grows and ends, as 1m < 5m < 30m <  *)
(* 1h do. With three rows a batch of two leaves one behind its LIMIT.        *)
EXTENDS Outbox

CONSTANTS r1, r2, r3, s1, s2

OneRow == {r1}
ThreeRows == {r1, r2, r3}
OneEmail == [r \in OneRow |-> "SEND_EMAIL"]
OneCrm == [r \in OneRow |-> "CRM_UPSERT"]
EmailAndUnknown == [r \in ThreeRows |-> IF r = r1 THEN "SEND_EMAIL" ELSE "SLACK"]
Single == {s1}
Pair == {s1, s2}
Schedule == <<0, 1>>
=============================================================================
