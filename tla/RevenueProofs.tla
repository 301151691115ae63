---------------------------- MODULE RevenueProofs ----------------------------
(***************************************************************************)
(* Theorems about module RevenueOps. Each part behaves in the whole as its *)
(* own module says, so that what is proved of the parts holds in the whole *)
(* (LP has the theorems about LeadWorkflow). What is left is the agreement *)
(* of the parts (Link): nothing is handed to a provider that is not in the *)
(* outbox, and there are no follow-ups before the lead workflow's own work *)
(* is done.                                                                *)
(***************************************************************************)
EXTENDS RevenueOps, FollowupProofs

LP == INSTANCE LeadProofs
        WITH state <- leadState, attempt <- leadAttempt, cancelled <- leadCancelled,
             cancelledIn <- leadCancelledIn

Intents == Emails \cup {Crm}

Link ==
  /\ Service!TypeOK
  /\ \A i \in Intents : phase[i] # "none" \/ applied[i] # 0 => i \in Written
  /\ \A i \in Intents : applied[i] # 0 => phase[i] # "none"
  /\ \A t \in Touchpoints : state[t] # "none" => followup

-----------------------------------------------------------------------------
(* The parts.                                                               *)

\* LP reads LeadWorkflow under names of its own.
LEMMA SameInit == Lead!Init => LP!Init
BY Zenon
   DEF Lead!Init, LP!Init, Lead!Activities, LP!Activities, Lead!LlmActivities, LP!LlmActivities,
         Lead!Attempts, LP!Attempts, Lead!FALLBACK_QUALIFICATION,
         LP!FALLBACK_QUALIFICATION, Lead!Answers, LP!Answers, Lead!NoAnswer,
         LP!NoAnswer, Lead!At, LP!At, Lead!Running, LP!Running, Lead!Awaited,
         LP!Awaited, Lead!Await, LP!Await, Lead!WaitAt, LP!WaitAt, Lead!Return,
         LP!Return, Lead!LeaveGate, LP!LeaveGate, Lead!BeginRun, LP!BeginRun,
         Lead!ReviewGate, LP!ReviewGate, Lead!ApprovalGate, LP!ApprovalGate,
         Lead!Resume, LP!Resume, Lead!Signals, LP!Signals, Lead!GateTimeout,
         LP!GateTimeout, Lead!Current, LP!Current, Lead!Ended, LP!Ended,
         Lead!RetryOrFail, LP!RetryOrFail, Lead!Raise, LP!Raise,
         Lead!SettingsRefused, LP!SettingsRefused, Lead!Alive,
         LP!Alive, Lead!StartToCloseTimeout, LP!StartToCloseTimeout,
         Lead!WorkerCrash, LP!WorkerCrash, Lead!Step, LP!Step, Lead!Transaction,
         LP!Transaction, Lead!PickUp, LP!PickUp, Lead!Begin, LP!Begin,
         Lead!CallLlm, LP!CallLlm, Lead!RecordResult, LP!RecordResult,
         Lead!Commit, LP!Commit, Lead!Report, LP!Report, Lead!AttemptStep,
         LP!AttemptStep, Lead!Next, LP!Next, Lead!update_lead_state,
         LP!update_lead_state, Lead!insert_outbox, LP!insert_outbox,
         Lead!schedule_followup, LP!schedule_followup, Lead!workflow,
         LP!workflow, Lead!effects, LP!effects, Lead!vars, LP!vars

LEMMA SameNext == Lead!Next => LP!Next
BY Zenon
   DEF Lead!Activities, LP!Activities, Lead!LlmActivities, LP!LlmActivities,
         Lead!Attempts, LP!Attempts, Lead!FALLBACK_QUALIFICATION,
         LP!FALLBACK_QUALIFICATION, Lead!Answers, LP!Answers, Lead!NoAnswer,
         LP!NoAnswer, Lead!At, LP!At, Lead!Running, LP!Running, Lead!Awaited,
         LP!Awaited, Lead!Await, LP!Await, Lead!WaitAt, LP!WaitAt, Lead!Return,
         LP!Return, Lead!LeaveGate, LP!LeaveGate, Lead!BeginRun, LP!BeginRun,
         Lead!ReviewGate, LP!ReviewGate, Lead!ApprovalGate, LP!ApprovalGate,
         Lead!Resume, LP!Resume, Lead!Signals, LP!Signals, Lead!GateTimeout,
         LP!GateTimeout, Lead!Current, LP!Current, Lead!Ended, LP!Ended,
         Lead!RetryOrFail, LP!RetryOrFail, Lead!Raise, LP!Raise,
         Lead!SettingsRefused, LP!SettingsRefused, Lead!Alive,
         LP!Alive, Lead!StartToCloseTimeout, LP!StartToCloseTimeout,
         Lead!WorkerCrash, LP!WorkerCrash, Lead!Step, LP!Step, Lead!Transaction,
         LP!Transaction, Lead!PickUp, LP!PickUp, Lead!Begin, LP!Begin,
         Lead!CallLlm, LP!CallLlm, Lead!RecordResult, LP!RecordResult,
         Lead!Commit, LP!Commit, Lead!Report, LP!Report, Lead!AttemptStep,
         LP!AttemptStep, Lead!Next, LP!Next, Lead!update_lead_state,
         LP!update_lead_state, Lead!insert_outbox, LP!insert_outbox,
         Lead!schedule_followup, LP!schedule_followup, Lead!workflow,
         LP!workflow, Lead!effects, LP!effects, Lead!vars, LP!vars

LEMMA SameVars == UNCHANGED leadVars => UNCHANGED Lead!vars /\ UNCHANGED LP!vars
BY DEF leadVars, Lead!vars, Lead!workflow, Lead!effects, LP!vars, LP!workflow, LP!effects

LEMMA LeadPart == SystemSpec => Lead!Spec /\ LP!Spec
<1>1. SystemInit => Lead!Init /\ LP!Init
  BY SameInit DEF SystemInit
<1>2. [SystemNext]_systemVars => [Lead!Next]_(Lead!vars) /\ [LP!Next]_(LP!vars)
  BY SameNext, SameVars
     DEF SystemNext, LeadMoves, ChainMoves, ServiceSide, systemVars
<1> QED
  BY <1>1, <1>2, PTL DEF SystemSpec, Lead!Spec, LP!Spec

LEMMA ChainPart == SystemSpec => ChainSpec
<1>1. SystemInit => ChainInit
  BY DEF SystemInit
<1>2. [SystemNext]_systemVars => [ChainNext]_chainVars
  BY DEF SystemNext, LeadMoves, ChainMoves, ServiceSide, systemVars, ChainNext
<1> QED
  BY <1>1, <1>2, PTL DEF SystemSpec, ChainSpec

LEMMA ServicePart == SystemSpec => Service!Spec
<1>1. SystemInit => Service!Init
  BY DEF SystemInit
<1>2. Written' \subseteq Emails \cup {Crm}
  BY DEF Written, Emails, Email, Crm
<1>3. Submitted => [Service!Next]_(Service!vars)
  BY <1>2 DEF Submitted, serviceVars, Service!Next, Service!vars
<1>4. [SystemNext]_systemVars => [Service!Next]_(Service!vars)
  BY <1>3 DEF SystemNext, LeadMoves, ChainMoves, ServiceSide, systemVars, serviceVars,
     Service!Next, Service!vars
<1> QED
  BY <1>1, <1>4, PTL DEF SystemSpec, Service!Spec

\* In the whole, the lead workflow, the chain and the outbox behave as the modules
\* LeadWorkflow, FollowupChain and Delivery say: the composition adds no step.
THEOREM PartsBehave == SystemSpec => Lead!Spec /\ ChainSpec /\ Service!Spec
BY LeadPart, ChainPart, ServicePart, PTL

-----------------------------------------------------------------------------
(* What is proved of the parts, in the whole.                               *)

LEMMA LeadAssumed == LP!LeadAssumption
BY SystemAssumption, ChainAssumption DEF LP!LeadAssumption

LEMMA LeadInvariant == SystemSpec => []LP!Inv
BY LeadPart, LP!InvAlways, LeadAssumed, PTL

-----------------------------------------------------------------------------
(* The agreement of the parts.                                              *)

LEMMA LinkInit == SystemInit => Link
BY DEF SystemInit, Service!Init, Service!TypeOK, Service!Phases, ChainInit, Link, Intents

LEMMA ServiceTyped ==
  ASSUME Service!TypeOK, [Service!Next]_(Service!vars)
  PROVE  Service!TypeOK'
BY DEF Service!TypeOK, Service!Phases, Service!Next, Service!vars, Service!Submit,
   Service!HandOver, Service!Settle, Service!Confirm, Service!GiveUp, Service!Reopen

\* What is submitted is in the outbox, and what is there stays there.
LEMMA SubmittedKeeps ==
  ASSUME Link, Submitted, Written \subseteq Written'
  PROVE  /\ Service!TypeOK'
         /\ \A i \in Intents : phase'[i] # "none" \/ applied'[i] # 0 => i \in Written'
         /\ \A i \in Intents : applied'[i] # 0 => phase'[i] # "none"
<1>1. CASE UNCHANGED serviceVars
  <2>1. Service!TypeOK'
    BY <1>1, ServiceTyped DEF Link, serviceVars, Service!vars
  <2> QED
    BY <1>1, <2>1 DEF Link, serviceVars
<1>2. CASE \E i \in Written' : i \notin Written /\ Service!Submit(i)
  <2>1. PICK j \in Written' : Service!Submit(j)
    BY <1>2
  <2>2. j \in Intents
    BY <2>1 DEF Written, Intents, Emails, Email, Crm
  <2>3. Service!TypeOK'
    BY <2>1, <2>2, ServiceTyped DEF Link, Service!Next, Intents
  <2>4. phase' = [phase EXCEPT ![j] = "queued"] /\ UNCHANGED applied
    BY <2>1 DEF Service!Submit
  <2>5. phase \in [Intents -> Service!Phases]
    BY DEF Link, Service!TypeOK, Intents
  <2> QED
    BY <2>1, <2>3, <2>4, <2>5 DEF Link
<1> QED
  BY <1>1, <1>2 DEF Submitted

LEMMA LeadSideLink ==
  ASSUME Link, LP!Inv, LP!Inv', LeadMoves, Submitted
  PROVE  Link'
<1>1. /\ outbox' = outbox \/ \E i : outbox' = outbox \cup {i}
      /\ followup => followup'
  BY SameNext, LP!EffectsStay, LeadAssumed DEF LeadMoves
<1>2. emails' = emails
  BY DEF LeadMoves, StartChain, chainVars
<1>3. Written \subseteq Written'
  BY <1>1, <1>2 DEF Written
<1>4. \A t \in Touchpoints : state'[t] # "none" => followup'
  <2>1. CASE followup' = followup
    BY <1>1, <2>1 DEF LeadMoves, chainVars, runVars, Link
  <2>2. CASE followup' # followup
    <3>1. followup \in BOOLEAN /\ followup' \in BOOLEAN
      BY DEF LP!Inv, LP!TypeOK
    <3> QED
      BY <1>1, <2>2, <3>1
  <2> QED
    BY <2>1, <2>2
<1> QED
  BY <1>3, <1>4, SubmittedKeeps DEF Link, Intents

LEMMA ChainSideLink ==
  ASSUME Link, ChainInv, ChainMoves, Submitted
  PROVE  Link'
<1>1. UNCHANGED <<outbox, followup>>
  BY DEF ChainMoves, leadVars
<1>2. Written \subseteq Written'
  BY <1>1, EmailsStay DEF Written, ChainMoves
<1>3. \A t \in Touchpoints : state'[t] # "none" => followup'
  <2>1. CASE followup
    BY <1>1, <2>1
  <2>2. CASE ~followup
    <3>1. \A t \in Touchpoints : state[t] = "none"
      BY <2>2 DEF Link
    <3> QED
      BY <3>1, NothingBegins DEF ChainMoves
  <2> QED
    BY <2>1, <2>2
<1> QED
  BY <1>2, <1>3, SubmittedKeeps DEF Link, Intents

LEMMA ServiceSideLink ==
  ASSUME Link, ServiceSide
  PROVE  Link'
<1>1. Written' = Written /\ UNCHANGED <<state, followup>>
  BY DEF ServiceSide, leadVars, chainVars, runVars, Written
<1>2. PICK j \in Intents : Service!HandOver(j) \/ Service!Settle(j) \/ Service!Reopen(j)
  BY DEF ServiceSide, Intents
<1>3. Service!TypeOK'
  BY <1>2, ServiceTyped DEF Link, Service!Next, Intents
<1>4. phase[j] # "none" /\ j \in Written
  BY <1>2 DEF Service!HandOver, Service!Settle, Service!Confirm, Service!GiveUp,
     Service!Reopen, Service!Open, Link
<1>5. \A i \in Intents : i # j => phase'[i] = phase[i] /\ applied'[i] = applied[i]
  BY <1>2 DEF Service!HandOver, Service!Settle, Service!Confirm, Service!GiveUp,
     Service!Reopen, Link, Service!TypeOK, Intents
<1>6. phase'[j] # "none"
  BY <1>2, <1>4 DEF Service!HandOver, Service!Settle, Service!Confirm, Service!GiveUp,
     Service!Reopen, Link, Service!TypeOK, Intents
<1> QED
  BY <1>1, <1>3, <1>4, <1>5, <1>6 DEF Link

LEMMA LinkNext == Link /\ LP!Inv /\ LP!Inv' /\ ChainInv /\ [SystemNext]_systemVars => Link'
<1>1. ASSUME Link, UNCHANGED systemVars
      PROVE  Link'
  <2>1. UNCHANGED <<phase, applied, state, followup>> /\ Written' = Written
    BY <1>1 DEF systemVars, leadVars, chainVars, runVars, serviceVars, Written
  <2>2. Service!TypeOK'
    BY <1>1, <2>1, ServiceTyped DEF Link, Service!vars
  <2> QED
    BY <1>1, <2>1, <2>2 DEF Link
<1> QED
  BY <1>1, LeadSideLink, ChainSideLink, ServiceSideLink DEF SystemNext

LEMMA LinkAlways == SystemSpec => []Link
<1>1. SystemSpec => []ChainInv
  BY ChainPart, ChainInvariant, PTL
<1> QED
  BY <1>1, LeadInvariant, LinkInit, LinkNext, PTL DEF SystemSpec

-----------------------------------------------------------------------------
(* The properties of the whole.                                             *)

\* A follow-up is written only after the lead workflow's own email.
LEMMA EmailCameFirst ==
  ASSUME Link, ChainInv, LP!EffectsInOrder,
         NEW t \in 0..MaxTouchpoint, Email(t) \in Written
  PROVE  "email" \in outbox
<1>1. CASE t = 0
  BY <1>1 DEF Written, Email, Crm, Touchpoints, ChainInv, ChainTypeOK
<1>2. CASE t # 0
  <2>1. t \in Touchpoints /\ t \in emails
    BY <1>2, ChainAssumption DEF Written, Email, Crm, Touchpoints
  <2>2. state[t] # "none"
    BY <2>1 DEF ChainInv, RunOk, EmailFits, Writing
  <2> QED
    BY <2>1, <2>2 DEF Link, LP!EffectsInOrder
<1> QED
  BY <1>1, <1>2

\* Every variable of the system keeps its type.
THEOREM SystemTypeCorrect == SystemSpec => []SystemTypeOK
<1>1. LP!Inv => LP!TypeOK
  BY DEF LP!Inv
<1>2. LP!TypeOK => Lead!TypeOK
  BY Zenon DEF LP!TypeOK, Lead!TypeOK, LP!States, Lead!States, LP!Answers, Lead!Answers,
     LP!NoAnswer, Lead!NoAnswer, LP!Activities, Lead!Activities, LP!Attempts, Lead!Attempts,
     LP!Steps, Lead!Steps, LP!LlmActivities, Lead!LlmActivities,
     LP!FALLBACK_QUALIFICATION, Lead!FALLBACK_QUALIFICATION
<1>3. LP!Inv /\ ChainInv /\ Link => SystemTypeOK
  BY <1>1, <1>2 DEF ChainInv, Link, SystemTypeOK
<1>4. SystemSpec => []ChainInv
  BY ChainPart, ChainInvariant, PTL
<1> QED
  BY <1>3, <1>4, LeadInvariant, LinkAlways, PTL

\* No provider is asked to send a first email or a follow-up without the approval
\* that was asked for (lead_workflow.py:45-94, followup_workflow.py:58).
THEOREM ContactIsApproved == SystemSpec => []ContactNeedsApproval
<1>1. Link /\ ChainInv /\ LP!EffectsInOrder /\ LP!EmailNeedsApproval => ContactNeedsApproval
  <2> SUFFICES ASSUME Link, ChainInv, LP!EffectsInOrder, LP!EmailNeedsApproval,
                      NEW t \in 0..MaxTouchpoint, applied[Email(t)] > 0,
                      input.approval_required \/ qualification.routing = "REQUIRE_REVIEW"
               PROVE  approved
    BY DEF ContactNeedsApproval
  <2>1. Email(t) \in Written
    BY DEF Link, Intents, Emails
  <2>2. "email" \in outbox
    BY <2>1, EmailCameFirst
  <2> QED
    BY <2>2 DEF LP!EmailNeedsApproval
<1>2. SystemSpec => []ChainInv
  BY ChainPart, ChainInvariant, PTL
<1>3. SystemSpec => []LP!EffectsInOrder /\ []LP!EmailNeedsApproval
  BY LeadPart, LP!OrderIsKept, LP!EmailIsApproved, LeadAssumed, PTL
<1> QED
  BY <1>1, <1>2, <1>3, LinkAlways, PTL

\* Nothing of a cancelled lead is ever handed over or waits to be, and no
\* follow-up of it is started (lead_workflow.py:53-60, 79-86).
THEOREM CancelledIsLeftAlone == SystemSpec => []CancelledNeverContacted
<1>1. Link /\ ChainInv /\ LP!CancelledLeavesNothing => CancelledNeverContacted
  <2> SUFFICES ASSUME Link, ChainInv, LP!CancelledLeavesNothing, verdict = "CANCELLED"
               PROVE  /\ \A i \in Intents : phase[i] = "none" /\ applied[i] = 0
                      /\ \A t \in Touchpoints : state[t] = "none"
    BY DEF CancelledNeverContacted, Intents
  <2>1. outbox = {} /\ ~followup
    BY DEF LP!CancelledLeavesNothing
  <2>2. \A t \in Touchpoints : state[t] = "none"
    BY <2>1 DEF Link
  <2>3. emails = {}
    BY <2>2 DEF ChainInv, ChainTypeOK, RunOk, EmailFits, Writing
  <2>4. Written = {}
    BY <2>1, <2>3 DEF Written
  <2> QED
    BY <2>2, <2>4 DEF Link
<1>2. SystemSpec => []ChainInv
  BY ChainPart, ChainInvariant, PTL
<1>3. SystemSpec => []LP!CancelledLeavesNothing
  BY LeadPart, LP!CancelledIsClean, LeadAssumed, PTL
<1> QED
  BY <1>1, <1>2, <1>3, LinkAlways, PTL
=============================================================================
