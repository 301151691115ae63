----------------------------- MODULE RevenueOps -----------------------------
(***************************************************************************)
(* One lead from its workflow to the providers: module LeadWorkflow, the   *)
(* chain of follow-ups it starts, and the outbox both write to. The outbox *)
(* is the delivery service of module Delivery, which Outbox implements.    *)
(*                                                                         *)
(* The parts share two things: the activity schedule_followup of the lead  *)
(* workflow starts touchpoint 1, and an intent that an activity writes is  *)
(* submitted for delivery in the same transaction.                         *)
(***************************************************************************)
EXTENDS FollowupChain

CONSTANTS
  Policies, MaxZombies,   \* of LeadWorkflow
  Revisable,              \* of Delivery
  MaxApplied              \* bound: how often a provider accepts one intent; 0 is none

ASSUME SystemAssumption ==
  /\ Policies \subseteq {"ALLOW", "BLOCK", "REQUIRE_REVIEW"} /\ Policies # {}
  /\ MaxZombies \in Nat /\ MaxApplied \in Nat
  /\ Revisable \in BOOLEAN

VARIABLES
  input, leadState, gate, verdict, approved, leadCancelled, qualification,
  leadAttempt, exec, row, outbox, followup, runs, zombies, leadCancelledIn,
  phase, applied          \* of Delivery

Lead == INSTANCE LeadWorkflow
          WITH state <- leadState, attempt <- leadAttempt, cancelled <- leadCancelled,
               cancelledIn <- leadCancelledIn

leadVars == <<input, leadState, gate, verdict, approved, leadCancelled, qualification,
              leadAttempt, exec, row, outbox, followup, runs, zombies, leadCancelledIn>>

\* An intent, by the type and the touchpoint of its idempotency key.
Email(t) == <<"SEND_EMAIL", t>>
Crm == <<"CRM_UPSERT", 0>>
Emails == {Email(t) : t \in 0..MaxTouchpoint}

Service == INSTANCE Delivery WITH Intents <- Emails \cup {Crm}

serviceVars == <<phase, applied>>
systemVars == <<leadVars, chainVars, serviceVars>>

SystemTypeOK == Lead!TypeOK /\ ChainTypeOK /\ Service!TypeOK

SystemInit == Lead!Init /\ ChainInit /\ Service!Init

-----------------------------------------------------------------------------

\* The rows of the outbox: touchpoint 0 is the lead workflow's own email.
Written ==
  {i \in Emails \cup {Crm} :
     \/ i = Email(0) /\ "email" \in outbox
     \/ i = Crm /\ "crm" \in outbox
     \/ \E t \in emails : i = Email(t)}

\* What a transaction adds to the outbox is submitted; a key that is taken is not.
Submitted ==
  IF Written' = Written
    THEN UNCHANGED serviceVars
    ELSE \E i \in Written' : i \notin Written /\ Service!Submit(i)

LeadMoves == Lead!Next /\ IF followup' = followup THEN UNCHANGED chainVars ELSE StartChain

ChainMoves == ChainStep /\ UNCHANGED leadVars

\* A sender hands an intent over, reports what became of it, or takes that back.
ServiceSide ==
  /\ \E i \in Emails \cup {Crm} :
       \/ (MaxApplied = 0 \/ applied[i] < MaxApplied) /\ Service!HandOver(i)
       \/ Service!Settle(i) \/ Service!Reopen(i)
  /\ UNCHANGED <<leadVars, chainVars>>

SystemNext == ((LeadMoves \/ ChainMoves) /\ Submitted) \/ ServiceSide

SystemSpec == SystemInit /\ [][SystemNext]_systemVars

\* Each part is scheduled as it is on its own.
SystemFairSpec == SystemSpec /\ Lead!Fairness /\ ChainFairness /\ Service!Fairness

-----------------------------------------------------------------------------
(* Properties of the whole.                                                 *)

\* No provider is asked to contact a lead, by the first email or a follow-up,
\* without the approval the caller or the LLM asked for: follow-ups pass no gate
\* of their own (lead_workflow.py:45-94, followup_workflow.py:58).
ContactNeedsApproval ==
  /\ \E t \in 0..MaxTouchpoint : applied[Email(t)] > 0
  /\ input.approval_required \/ qualification.routing = "REQUIRE_REVIEW"
  => approved

\* Nothing of a lead whose workflow ended CANCELLED ever reaches a provider, by
\* its own activities or by the chain of follow-ups.
CancelledNeverContacted ==
  verdict = "CANCELLED" =>
    /\ \A i \in Emails \cup {Crm} : phase[i] = "none" /\ applied[i] = 0
    /\ \A t \in Touchpoints : state[t] = "none"

\* Every lead comes to rest: its workflow closed, its chain at an end, and each
\* intent sent or given up.
AtRest ==
  /\ verdict # "running"
  /\ \A t \in Touchpoints : state[t] \notin Active
  /\ \A i \in Emails \cup {Crm} : phase[i] # "queued"

EventuallyAtRest == <>[]AtRest
=============================================================================
