------------------------------- MODULE Intake -------------------------------
(***************************************************************************)
(* What the API promises its clients about the leads they ask about, with  *)
(* nothing of the tables, the locks and the calls that keep the promise: a *)
(* lead is recorded before it is worked on and is worked on once, and an   *)
(* answer is true when it is given, unless something failed or a lead is   *)
(* refused because it is known. What was asked for may have happened       *)
(* though a failure was answered. Gateway implements this specification    *)
(* (see Promise there).                                                    *)
(***************************************************************************)
EXTENDS Naturals

CONSTANTS Requests, Leads, NoLead

VARIABLES
  stage,    \* how far each lead has come
  lead,     \* what each request is about
  answer,   \* what its client was told
  failures  \* calls, statements and processes that failed

vars == <<stage, lead, answer, failures>>

Init == /\ stage = [l \in Leads |-> "unknown"]
        /\ lead = [q \in Requests |-> NoLead]
        /\ answer = [q \in Requests |-> "none"]
        /\ failures = 0

Advance(l, from, to) == stage[l] = from /\ stage' = [stage EXCEPT ![l] = to]

Ask(q, l) == /\ lead[q] = NoLead
             /\ lead' = [lead EXCEPT ![q] = l]
             /\ UNCHANGED <<stage, answer, failures>>

Record(l) == Advance(l, "unknown", "recorded") /\ UNCHANGED <<lead, answer, failures>>

Finish(l) == Advance(l, "running", "closed") /\ UNCHANGED <<lead, answer, failures>>

Tell(q, a) == /\ lead[q] \in Leads /\ answer[q] = "none"
              /\ answer' = [answer EXCEPT ![q] = a]
              /\ UNCHANGED lead

\* The one request that is told so is the one that started the workflow.
Accept(q) ==
  Tell(q, "accepted") /\ Advance(lead[q], "recorded", "running") /\ UNCHANGED failures

Duplicate(q) ==
  Tell(q, "duplicate") /\ stage[lead[q]] # "unknown" /\ UNCHANGED <<stage, failures>>

SignalSent(q) ==
  Tell(q, "signal_sent") /\ stage[lead[q]] = "running" /\ UNCHANGED <<stage, failures>>

NotFound(q) ==
  Tell(q, "not_found") /\ stage[lead[q]] # "running" /\ UNCHANGED <<stage, failures>>

\* A further event of a lead that is known already is answered 500 though
\* nothing failed (webhooks.py:76, where only the event's own index is caught).
Refuse(q) == Tell(q, "error") /\ stage[lead[q]] # "unknown" /\ UNCHANGED <<stage, failures>>

\* The 404 of a signal hides its failure (leads.py:15-18).
Fail(q) ==
  /\ failures' = failures + 1
  /\ \/ Tell(q, "error") /\ Advance(lead[q], "unknown", "recorded")
     \/ Tell(q, "error") /\ Advance(lead[q], "recorded", "running")
     \/ Tell(q, "error") /\ UNCHANGED stage
     \/ Tell(q, "not_found") /\ UNCHANGED stage

Next ==
  \/ \E l \in Leads : Record(l) \/ Finish(l)
  \/ \E q \in Requests :
       \/ \E l \in Leads : Ask(q, l)
       \/ Accept(q) \/ Duplicate(q) \/ SignalSent(q) \/ NotFound(q)
       \/ Refuse(q) \/ Fail(q)

Spec == Init /\ [][Next]_vars
=============================================================================
