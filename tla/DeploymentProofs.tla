--------------------------- MODULE DeploymentProofs ---------------------------
(***************************************************************************)
(* Theorems about module Deployment: it is a system of RevenueOps, so that *)
(* what is proved there holds with the real outbox and any number of real  *)
(* senders (BP has the theorems about Outbox). What is left is that the    *)
(* table and the workflows agree on what was written (Agree).              *)
(***************************************************************************)
EXTENDS Deployment, RevenueProofs, SequenceTheorems

BP == INSTANCE OutboxProofs
        WITH Rows <- Emails \cup {Crm}, RowType <- [i \in Emails \cup {Crm} |-> i[1]]

-----------------------------------------------------------------------------
(* BP reads Outbox under names of its own.                                  *)

LEMMA SameSenders == Box!SendersNext => BP!SendersNext
BY Zenon
   DEF Box!calculate_backoff, BP!calculate_backoff, Box!Write, BP!Write,
       Box!mark_outbox_processing, BP!mark_outbox_processing, Box!mark_outbox_sent,
       BP!mark_outbox_sent, Box!mark_outbox_failed, BP!mark_outbox_failed,
       Box!mark_outbox_permanently_failed, BP!mark_outbox_permanently_failed,
       Box!Stuck, BP!Stuck, Box!recover_stuck_entries, BP!recover_stuck_entries,
       Box!Goto, BP!Goto, Box!Fault, BP!Fault, Box!Execute, BP!Execute, Box!Record,
       BP!Record, Box!NextRecord, BP!NextRecord, Box!LoopError, BP!LoopError, Box!Stay,
       BP!Stay, Box!Start, BP!Start, Box!LoopHead, BP!LoopHead, Box!Recover,
       BP!Recover, Box!Due, BP!Due, Box!Selected, BP!Selected, Box!poll_outbox,
       BP!poll_outbox, Box!MarkProcessing, BP!MarkProcessing, Box!Answered,
       BP!Answered, Box!Unheard, BP!Unheard, Box!Refused, BP!Refused, Box!Raised,
       BP!Raised, Box!send_email, BP!send_email, Box!send_crm_upsert,
       BP!send_crm_upsert, Box!Outcomes, BP!Outcomes, Box!dispatch, BP!dispatch,
       Box!MarkSent, BP!MarkSent, Box!NewAttempt, BP!NewAttempt, Box!RecordFailure,
       BP!RecordFailure, Box!MarkFailure, BP!MarkFailure, Box!ExceptHandler,
       BP!ExceptHandler, Box!Sleep, BP!Sleep, Box!Running, BP!Running,
       Box!ShutdownSignal, BP!ShutdownSignal, Box!Crash, BP!Crash, Box!AtWork,
       BP!AtWork, Box!Tick, BP!Tick, Box!SenderStep, BP!SenderStep, Box!SendersNext,
       BP!SendersNext, Box!table, BP!table, Box!senderVars, BP!senderVars, Box!history,
       BP!history

LEMMA SameInsert == ASSUME NEW i, Box!insert_outbox(i) PROVE BP!insert_outbox(i)
BY Zenon DEF Box!insert_outbox, BP!insert_outbox, Box!Write, BP!Write, Box!table, BP!table,
   Box!senderVars, BP!senderVars, Box!history, BP!history

LEMMA SameBoxInit == Box!Init => BP!Init
BY Zenon DEF Box!Init, BP!Init

LEMMA SameVerdict == Box!Verdict = BP!Verdict /\ Box!Verdict' = BP!Verdict'
BY DEF Box!Verdict, BP!Verdict

LEMMA BoxAssumed == BP!OutboxAssumption
BY DeploymentAssumption DEF Box!OutboxAssumption, BP!OutboxAssumption

-----------------------------------------------------------------------------
(* The parts.                                                               *)

LEMMA WrittenIntents == Written \subseteq Intents /\ Written' \subseteq Intents
BY DEF Written, Intents, Emails, Email, Crm

LEMMA InsertedIsInsert ==
  ASSUME Inserted
  PROVE  (\E i \in Intents : Box!insert_outbox(i)) \/ UNCHANGED boxVars
BY WrittenIntents DEF Inserted

\* The lead workflow, the chain and the outbox behave in a deployment as their
\* own modules say, so that every theorem about them holds of it.
THEOREM DeploymentParts == DeploymentSpec => Lead!Spec /\ ChainSpec /\ Box!Spec
<1>1. DeploymentInit => Lead!Init /\ ChainInit /\ Box!Init
  BY DEF DeploymentInit
<1>2. [DeploymentNext]_deploymentVars => [Lead!Next]_(Lead!vars)
  BY SameVars DEF DeploymentNext, deploymentVars, LeadMoves, ChainMoves
<1>3. [DeploymentNext]_deploymentVars => [ChainNext]_chainVars
  BY DEF DeploymentNext, deploymentVars, LeadMoves, ChainMoves, ChainNext
<1>4. UNCHANGED boxVars => UNCHANGED Box!vars
  BY DEF boxVars, Box!vars, Box!table, Box!senderVars, Box!history
<1>5. [DeploymentNext]_deploymentVars => [Box!Next]_(Box!vars)
  BY <1>4, InsertedIsInsert DEF DeploymentNext, deploymentVars, Box!Next, Intents
<1> QED
  BY <1>1, <1>2, <1>3, <1>5, PTL DEF DeploymentSpec, Lead!Spec, ChainSpec, Box!Spec

\* The same, under the names the theorems have.
LEMMA PartsProved == DeploymentSpec => LP!Spec /\ BP!Spec
<1>1. DeploymentInit => LP!Init /\ BP!Init
  BY SameInit, SameBoxInit DEF DeploymentInit
<1>2. [DeploymentNext]_deploymentVars => [LP!Next]_(LP!vars)
  BY SameNext, SameVars DEF DeploymentNext, deploymentVars, LeadMoves, ChainMoves
<1>3. UNCHANGED boxVars => UNCHANGED BP!vars
  BY DEF boxVars, BP!vars, BP!table, BP!senderVars, BP!history
<1>4. [DeploymentNext]_deploymentVars => [BP!Next]_(BP!vars)
  BY <1>3, InsertedIsInsert, SameInsert, SameSenders
     DEF DeploymentNext, deploymentVars, BP!Next, Intents
<1> QED
  BY <1>1, <1>2, <1>4, PTL DEF DeploymentSpec, LP!Spec, BP!Spec

LEMMA PartInvariants == DeploymentSpec => [](LP!Inv /\ ChainInv /\ BP!FullInv)
<1>1. DeploymentSpec => []LP!Inv
  BY PartsProved, LP!InvAlways, LeadAssumed, PTL
<1>2. DeploymentSpec => []ChainInv
  BY DeploymentParts, ChainInvariant, PTL
<1>3. DeploymentSpec => []BP!FullInv
  BY PartsProved, BP!FullInvAlways, BoxAssumed, PTL
<1> QED
  BY <1>1, <1>2, <1>3, PTL

-----------------------------------------------------------------------------
(* The table and the workflows agree.                                       *)

Agree ==
  /\ phase = BP!Verdict
  /\ \A i \in Intents : phase[i] # "none" <=> i \in Written

\* A transaction adds one intent at most, and none is withdrawn.
LEMMA WrittenGrows ==
  ASSUME LeadMoves \/ ChainMoves
  PROVE  /\ Written \subseteq Written'
         /\ \A i, j \in Written' : i \notin Written /\ j \notin Written => i = j
<1> USE DEF Written, Emails, Email, Crm
<1>1. CASE LeadMoves
  <2>1. emails' = emails
    BY <1>1 DEF LeadMoves, StartChain, chainVars
  <2>2. outbox' = outbox \/ \E x : outbox' = outbox \cup {x}
    BY <1>1, SameNext, LP!EffectsStay, LeadAssumed DEF LeadMoves
  <2> QED
    BY <2>1, <2>2
<1>2. CASE ChainMoves
  <2>1. outbox' = outbox
    BY <1>2 DEF ChainMoves, leadVars
  <2>2. emails' = emails \/ \E t : emails' = emails \cup {t}
    BY <1>2, EmailsStay DEF ChainMoves
  <2> QED
    BY <2>1, <2>2
<1> QED
  BY <1>1, <1>2

\* The row of a new intent is one the service did not know.
LEMMA InsertedIsSubmitted ==
  ASSUME BP!FullInv, Agree, LeadMoves \/ ChainMoves, Inserted, phase' = Box!Verdict'
  PROVE  /\ Submitted
         /\ \A i \in Intents : phase'[i] # "none" <=> i \in Written'
<1>1. phase' = BP!Verdict'
  BY SameVerdict
<1>2. CASE Written' = Written
  <2>1. UNCHANGED boxVars
    BY <1>2 DEF Inserted
  <2>2. UNCHANGED serviceVars
    BY <1>1, <2>1 DEF boxVars, BP!Verdict, Agree, serviceVars
  <2> QED
    BY <1>2, <2>2 DEF Submitted, serviceVars, Agree
<1>3. CASE Written' # Written
  <2>1. PICK i \in Written' : i \notin Written /\ Box!insert_outbox(i)
    BY <1>3 DEF Inserted
  <2>2. i \in Intents
    BY <2>1, WrittenIntents
  <2>3. BP!insert_outbox(i)
    BY <2>1, SameInsert
  <2>4. phase[i] = "none"
    BY <2>1, <2>2 DEF Agree
  <2>5. UNCHANGED applied /\ BP!Verdict' = [BP!Verdict EXCEPT ![i] = "queued"]
    BY <2>2, <2>3, <2>4, BP!InsertSubmits, BoxAssumed DEF BP!FullInv, Agree, Intents
  <2>6. phase' = [phase EXCEPT ![i] = "queued"]
    BY <1>1, <2>5 DEF Agree
  <2>7. Service!Submit(i)
    BY <2>4, <2>5, <2>6 DEF Service!Submit
  <2>8. phase \in [Intents -> {"none", "queued", "sent", "failed"}]
    BY DEF Agree, BP!Verdict, Intents
  <2>9. \A j \in Intents : phase'[j] # "none" <=> j = i \/ phase[j] # "none"
    BY <2>2, <2>6, <2>8
  <2>10. \A j \in Intents : j \in Written' <=> j = i \/ j \in Written
    BY <2>1, WrittenGrows
  <2> QED
    BY <1>3, <2>1, <2>7, <2>9, <2>10 DEF Submitted, Agree
<1> QED
  BY <1>2, <1>3

\* What a sender does to the table, the service does to its verdicts.
LEMMA SendersServe ==
  ASSUME BP!FullInv, Agree, Box!SendersNext, phase' = Box!Verdict',
         UNCHANGED <<leadVars, chainVars>>
  PROVE  ServiceSide \/ UNCHANGED systemVars
<1>1. phase' = BP!Verdict' /\ phase = BP!Verdict
  BY SameVerdict DEF Agree
<1>2. BP!Delivered
  BY SameSenders, BP!SendersDeliver, BoxAssumed
<1>3. CASE UNCHANGED <<BP!Verdict, applied>>
  BY <1>1, <1>3 DEF systemVars, serviceVars
<1>4. Revisable = BP!Overlapping
  BY DeploymentAssumption DEF Box!Overlapping, BP!Overlapping
<1>5. ASSUME NEW r \in Intents, BP!Contract!HandOver(r) PROVE Service!HandOver(r)
  BY <1>1, <1>4, <1>5 DEF BP!Contract!HandOver, BP!Contract!Open, Service!HandOver, Service!Open
<1>6. ASSUME NEW r \in Intents, BP!Contract!Settle(r) PROVE Service!Settle(r)
  BY <1>1, <1>4, <1>6 DEF BP!Contract!Settle, BP!Contract!Confirm, BP!Contract!GiveUp,
     BP!Contract!Open, Service!Settle, Service!Confirm, Service!GiveUp, Service!Open
<1>7. ASSUME NEW r \in Intents, BP!Contract!Reopen(r) PROVE Service!Reopen(r)
  BY <1>1, <1>4, <1>7 DEF BP!Contract!Reopen, Service!Reopen
<1> QED
  BY <1>2, <1>3, <1>5, <1>6, <1>7, DeploymentAssumption DEF BP!Delivered, ServiceSide, Intents

LEMMA AgreeInit == DeploymentInit => Agree /\ SystemInit
<1> SUFFICES ASSUME DeploymentInit PROVE Agree /\ SystemInit
  OBVIOUS
<1>1. phase = BP!Verdict
  BY SameVerdict DEF DeploymentInit
<1>2. phase = [i \in Intents |-> "none"] /\ applied = [i \in Intents |-> 0]
  BY DEF DeploymentInit, Box!Init, Box!Verdict, Intents
<1>3. Written = {}
  BY DEF DeploymentInit, Lead!Init, ChainInit, Written
<1> QED
  BY <1>1, <1>2, <1>3 DEF Agree, SystemInit, Service!Init, DeploymentInit, Intents

\* Every step of a deployment is one of the system, and keeps the agreement.
LEMMA DeploymentStep ==
  BP!FullInv /\ Agree /\ [DeploymentNext]_deploymentVars
    => Agree' /\ [SystemNext]_systemVars
<1> SUFFICES ASSUME BP!FullInv, Agree, [DeploymentNext]_deploymentVars
             PROVE  Agree' /\ [SystemNext]_systemVars
  OBVIOUS
<1>1. CASE UNCHANGED deploymentVars
  <2>1. UNCHANGED <<phase, applied, status, outbox, emails, leadVars, chainVars>>
    BY <1>1 DEF deploymentVars, leadVars, chainVars, boxVars
  <2> QED
    BY <2>1 DEF Agree, BP!Verdict, Written, systemVars, serviceVars
<1>2. CASE (LeadMoves \/ ChainMoves) /\ Inserted /\ phase' = Box!Verdict'
  BY <1>2, InsertedIsSubmitted, SameVerdict DEF Agree, SystemNext
<1>3. CASE Box!SendersNext /\ UNCHANGED <<leadVars, chainVars>> /\ phase' = Box!Verdict'
  <2>1. ServiceSide \/ UNCHANGED systemVars
    BY <1>3, SendersServe
  <2>2. Written' = Written
    BY <1>3 DEF leadVars, chainVars, Written
  <2>3. \A i \in Intents : phase'[i] # "none" <=> phase[i] # "none"
    <3>1. phase \in [Intents -> {"none", "queued", "sent", "failed"}]
      BY DEF Agree, BP!Verdict, Intents
    <3> QED
      BY <2>1, <3>1 DEF ServiceSide, systemVars, serviceVars, Service!HandOver, Service!Settle,
         Service!Confirm, Service!GiveUp, Service!Reopen, Service!Open, Intents
  <2> QED
    BY <1>3, <2>1, <2>2, <2>3, SameVerdict DEF Agree, SystemNext
<1> QED
  BY <1>1, <1>2, <1>3 DEF DeploymentNext

\* A deployment, with as many senders as it may have, is a system of RevenueOps:
\* the outbox is as good as the delivery service the workflows count on
\* (outbox.py:14-71, run_sender, process_record).
THEOREM DeploymentDelivers == DeploymentSpec => DeliversAsPromised
BY AgreeInit, DeploymentStep, PartInvariants, PTL
   DEF DeploymentSpec, DeliversAsPromised, SystemSpec

LEMMA AgreeAlways == DeploymentSpec => []Agree
BY AgreeInit, DeploymentStep, PartInvariants, PTL DEF DeploymentSpec

LEMMA AskedIsSubmitted ==
  ASSUME BP!FullInv, Agree, NEW i \in Intents, dispatches[i] # 0
  PROVE  i \in Written
<1>1. BP!Verdict[i] # "none"
  BY BP!VerdictOfStatus, BoxAssumed DEF BP!FullInv, BP!AskedIsWritten, Intents
<1> QED
  BY <1>1 DEF Agree

-----------------------------------------------------------------------------
(* The properties of a deployment.                                          *)

\* The properties of the system, of the providers the senders call
\* (lead_workflow.py:45-94, followup_workflow.py:58, sender.py:89-99).
THEOREM SystemInDeployment == DeploymentSpec => [](ContactNeedsApproval /\ CancelledNeverContacted)
BY DeploymentDelivers, ContactIsApproved, CancelledIsLeftAlone, PTL DEF DeliversAsPromised

\* What the parts and the whole keep, together.
LEMMA TogetherAlways == DeploymentSpec => [](Link /\ Agree /\ LP!Inv /\ ChainInv /\ BP!FullInv)
BY DeploymentDelivers, LinkAlways, AgreeAlways, PartInvariants, PTL DEF DeliversAsPromised

\* No sender asks a provider to contact a lead without the approval that was
\* asked for (lead_workflow.py:45-94, sender.py:89-99).
THEOREM AskedIsApproved == DeploymentSpec => []AskedOnlyIfApproved
<1>1. /\ Link /\ Agree /\ LP!Inv /\ ChainInv /\ BP!FullInv
      /\ LP!EffectsInOrder /\ LP!EmailNeedsApproval
      => AskedOnlyIfApproved
  <2> SUFFICES ASSUME Link, Agree, ChainInv, BP!FullInv, LP!EffectsInOrder, LP!EmailNeedsApproval,
                      NEW t \in 0..MaxTouchpoint, dispatches[Email(t)] > 0,
                      input.approval_required \/ qualification.routing = "REQUIRE_REVIEW"
               PROVE  approved
    BY DEF AskedOnlyIfApproved
  <2>1. Email(t) \in Intents /\ dispatches[Email(t)] # 0
    BY DEF Intents, Emails
  <2>2. "email" \in outbox
    BY <2>1, AskedIsSubmitted, EmailCameFirst
  <2> QED
    BY <2>2 DEF LP!EmailNeedsApproval
<1>2. DeploymentSpec => []LP!EffectsInOrder /\ []LP!EmailNeedsApproval
  BY PartsProved, LP!OrderIsKept, LP!EmailIsApproved, LeadAssumed, PTL
<1> QED
  BY <1>1, <1>2, TogetherAlways, PTL

\* A lead whose workflow ended CANCELLED has no row and no follow-up, no record of
\* it is polled and no provider is asked for it (lead_workflow.py:53-60, 79-86).
THEOREM CancelledHasNoRow == DeploymentSpec => []CancelledLeavesNoRow
<1>1. /\ Link /\ Agree /\ LP!Inv /\ ChainInv /\ BP!FullInv /\ LP!CancelledLeavesNothing
      => CancelledLeavesNoRow
  <2> SUFFICES ASSUME Link, Agree, ChainInv, BP!FullInv, LP!CancelledLeavesNothing,
                      verdict = "CANCELLED"
               PROVE  /\ \A i \in Intents : status[i] = "ABSENT" /\ dispatches[i] = 0
                      /\ \A t \in Touchpoints : state[t] = "none"
                      /\ \A s \in Senders : batch[s] = <<>>
    BY DEF CancelledLeavesNoRow, Intents
  <2>0. \A t \in Touchpoints : state[t] = "none"
    BY DEF LP!CancelledLeavesNothing, Link
  <2>1. Written = {}
    <3>1. outbox = {} /\ ~followup
      BY DEF LP!CancelledLeavesNothing
    <3>2. emails = {}
      BY <3>1 DEF Link, ChainInv, ChainTypeOK, RunOk, EmailFits, Writing
    <3> QED
      BY <3>1, <3>2 DEF Written
  <2>2. \A i \in Intents : dispatches[i] = 0
    BY <2>1, AskedIsSubmitted
  <2>3. ASSUME NEW i \in Intents PROVE status[i] = "ABSENT"
    <3>1. BP!Verdict[i] = "none"
      BY <2>1 DEF Agree
    <3> QED
      BY <3>1, BP!VerdictOfStatus, BoxAssumed DEF Intents
  <2>4. ASSUME NEW s \in Senders PROVE batch[s] = <<>>
    <3>1. batch[s] \in Seq(BP!Snapshots)
      BY DEF BP!FullInv, BP!Inv, BP!TypeOK
    <3>2. \A i \in 1..Len(batch[s]) : batch[s][i].row \in Intents
      <4>1. \A i \in 1..Len(batch[s]) : batch[s][i] \in BP!Snapshots
        BY <3>1, ElementOfSeq
      <4> QED
        BY <4>1 DEF BP!Snapshots, Intents
    <3>3. \A i \in 1..Len(batch[s]) : FALSE
      BY <2>3, <3>2 DEF BP!FullInv, BP!BatchWritten
    <3>4. Len(batch[s]) \in Nat /\ (batch[s] # <<>> => Len(batch[s]) # 0)
      BY <3>1, EmptySeq, LenProperties
    <3>5. Len(batch[s]) # 0 => 1 \in 1..Len(batch[s])
      BY <3>4
    <3> QED
      BY <3>3, <3>4, <3>5
  <2> QED
    BY <2>0, <2>2, <2>3, <2>4
<1>2. DeploymentSpec => []LP!CancelledLeavesNothing
  BY PartsProved, LP!CancelledIsClean, LeadAssumed, PTL
<1> QED
  BY <1>1, <1>2, TogetherAlways, PTL
=============================================================================
