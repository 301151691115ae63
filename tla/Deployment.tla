----------------------------- MODULE Deployment -----------------------------
(***************************************************************************)
(* One lead from its workflow to the providers, with the outbox table and  *)
(* its senders in the place of the delivery service of module RevenueOps:  *)
(* the activities insert rows while senders recover, poll, dispatch, crash *)
(* and overwrite each other. A deployment is a system of RevenueOps, what  *)
(* is delivered being the verdicts of the table.                           *)
(***************************************************************************)
EXTENDS RevenueOps

CONSTANTS
  Senders, BATCH_SIZE, BACKOFF_SCHEDULE, PROCESSING_TIMEOUT, MaxAttempts,
  PayloadDecoded, AckCanBeLost, PromptSenders, MaxOverdue, MaxFaults, MaxStops   \* of Outbox

VARIABLES
  status, attempts, wait, age, pc, batch, stopping, dispatches, faults, stops   \* of Outbox

Box == INSTANCE Outbox
         WITH Rows <- Emails \cup {Crm}, RowType <- [i \in Emails \cup {Crm} |-> i[1]]

\* The service is the real one: its bounds are those of Outbox.
ASSUME DeploymentAssumption ==
  /\ Box!OutboxAssumption
  /\ Revisable = Box!Overlapping
  /\ MaxApplied = 0

boxVars == <<status, attempts, wait, age, pc, batch, stopping, applied, dispatches, faults, stops>>
deploymentVars == <<leadVars, chainVars, phase, boxVars>>

DeploymentInit == Lead!Init /\ ChainInit /\ Box!Init /\ phase = Box!Verdict

\* What a transaction of an activity adds to the outbox is a row of the table; an
\* insert that meets its key does nothing.
Inserted ==
  IF Written' = Written
    THEN UNCHANGED boxVars
    ELSE \E i \in Written' : i \notin Written /\ Box!insert_outbox(i)

\* phase is not a state of its own, but the table as its writers can read it.
DeploymentNext ==
  /\ \/ (LeadMoves \/ ChainMoves) /\ Inserted
     \/ Box!SendersNext /\ UNCHANGED <<leadVars, chainVars>>
  /\ phase' = Box!Verdict'

DeploymentSpec == DeploymentInit /\ [][DeploymentNext]_deploymentVars

-----------------------------------------------------------------------------
(* Properties of a deployment.                                              *)

\* The outbox and its senders are the delivery service RevenueOps relies on, in
\* the company of the workflows that write to it (write_outbox_email and
\* write_outbox_crm in outbox.py, run_sender in sender.py).
DeliversAsPromised == SystemSpec

\* No sender so much as asks a provider to contact a lead, first email or
\* follow-up, without the approval that was asked for, whatever is polled,
\* retried or recovered (lead_workflow.py:45-94, sender.py:89-99).
AskedOnlyIfApproved ==
  /\ \E t \in 0..MaxTouchpoint : dispatches[Email(t)] > 0
  /\ input.approval_required \/ qualification.routing = "REQUIRE_REVIEW"
  => approved

\* Of a lead whose workflow ended CANCELLED there is no row and no follow-up, no
\* sender has a record, and no provider is ever asked (lead_workflow.py:53-60, 79-86).
CancelledLeavesNoRow ==
  verdict = "CANCELLED" =>
    /\ \A i \in Emails \cup {Crm} : status[i] = "ABSENT" /\ dispatches[i] = 0
    /\ \A t \in Touchpoints : state[t] = "none"
    /\ \A s \in Senders : batch[s] = <<>>
=============================================================================
