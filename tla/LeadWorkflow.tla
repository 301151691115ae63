---------------------------- MODULE LeadWorkflow ----------------------------
(***************************************************************************)
(* One lead: its Temporal workflow, the activity attempts Temporal makes   *)
(* for it, and what they leave in the database.                            *)
(*   src/workflows/lead_workflow.py   the run, its gates, its signals      *)
(*   src/activities/qualify.py, draft.py, outbox.py, followup.py           *)
(*                                                                         *)
(* A workflow activation is one step: everything the run does from the     *)
(* event that wakes it to its next await. An activity attempt is a process *)
(* of its own that stops at each transaction and each call; the server may *)
(* give it up (timeout) and queue the next attempt while it still runs.    *)
(***************************************************************************)
EXTENDS Naturals

CONSTANTS
  MaximumAttempts,   \* DEFAULT_RETRY.maximum_attempts
  Policies,          \* the policy_decisions an LLM gives
  MaxZombies         \* bound: attempts that outlive their start_to_close_timeout

ASSUME LeadAssumption ==
  /\ MaximumAttempts \in Nat \ {0}
  /\ Policies \subseteq {"ALLOW", "BLOCK", "REQUIRE_REVIEW"} /\ Policies # {}
  /\ MaxZombies \in Nat

VARIABLES
  input,                  \* the part of LeadWorkflowInput the run reads
  state, gate,            \* _state, and the gate wait_condition waits at
  verdict,                \* how the run ended: its result's status, or FAILED
  approved, cancelled,    \* _approved, _cancelled
  qualification,          \* what qualify_lead returned to the run
  attempt,                \* Temporal's attempt number of the pending activity
  exec,                   \* each attempt: where it is, what the LLM told it
  row,                    \* lead_state: state and qualification columns
  outbox, followup,       \* intents written; is follow-up 1 started?
  runs,                   \* the LLM steps the run ledger has a row of
  zombies,                \* how much of the bound is used
  cancelledIn             \* history: the state the first cancel met

workflow == <<input, state, gate, verdict, approved, cancelled, qualification, attempt>>
effects == <<row, outbox, followup, runs>>
vars == <<workflow, exec, effects, zombies, cancelledIn>>

Activities == {"qualify_lead", "draft_email", "write_outbox_email",
               "write_outbox_crm", "schedule_followup"}
LlmActivities == {"qualify_lead", "draft_email"}
Attempts == 1..MaximumAttempts
Steps == {"none", "queued", "begin", "llm", "commit", "report", "over"}

\* The fields of a QualificationResult the code acts on, and those it should.
FALLBACK_QUALIFICATION ==
  [routing |-> "REQUIRE_REVIEW", policy |-> "REQUIRE_REVIEW", fallback |-> TRUE]

Answers == [routing : {"AUTO", "REQUIRE_REVIEW"}, policy : Policies, fallback : {FALSE}]
             \cup {FALLBACK_QUALIFICATION}

NoAnswer == [routing |-> "none"]

At(step) == [at |-> step, answer |-> NoAnswer]

States == {"PENDING", "QUALIFYING", "AWAITING_APPROVAL", "DRAFTING", "SENDING",
           "CRM_UPSERTING", "SCHEDULING_FOLLOWUP", "COMPLETED", "CANCELLED"}

TypeOK ==
  /\ input \in [approval_required : BOOLEAN, followups_enabled : BOOLEAN]
  /\ state \in States
  /\ gate \in {"none", "review", "approval"}
  /\ verdict \in {"running", "COMPLETED", "CANCELLED", "FAILED"}
  /\ approved \in BOOLEAN /\ cancelled \in BOOLEAN
  /\ qualification \in Answers \cup {NoAnswer}
  /\ attempt \in 0..MaximumAttempts
  /\ exec \in [Activities -> [Attempts -> [at : Steps, answer : Answers \cup {NoAnswer}]]]
  /\ row \in [state : {"PENDING", "QUALIFYING", "QUALIFIED", "DRAFTING", "DRAFTED"},
              qualification : Answers \cup {NoAnswer}]
  /\ outbox \in SUBSET {"email", "crm"}
  /\ followup \in BOOLEAN
  /\ runs \in SUBSET LlmActivities
  /\ zombies \in Nat
  /\ cancelledIn \in States \cup {"never"}

Init ==
  /\ input \in [approval_required : BOOLEAN, followups_enabled : BOOLEAN]
  /\ state = "PENDING" /\ gate = "none" /\ verdict = "running"
  /\ approved = FALSE /\ cancelled = FALSE
  /\ qualification = NoAnswer
  /\ attempt = 0
  /\ exec = [k \in Activities |-> [n \in Attempts |-> At("none")]]
  /\ row = [state |-> "PENDING", qualification |-> NoAnswer]
  /\ outbox = {} /\ followup = FALSE
  /\ runs = {} /\ zombies = 0
  /\ cancelledIn = "never"

Running == verdict = "running"

-----------------------------------------------------------------------------
(* The run, from one await to the next.                                     *)

Awaited == [QUALIFYING |-> "qualify_lead", DRAFTING |-> "draft_email",
            SENDING |-> "write_outbox_email", CRM_UPSERTING |-> "write_outbox_crm",
            SCHEDULING_FOLLOWUP |-> "schedule_followup"]

\* execute_activity: the run waits in state st for the first attempt.
Await(st, ended) ==
  /\ state' = st /\ gate' = "none" /\ attempt' = 1
  /\ exec' = [ended EXCEPT ![Awaited[st]][1] = At("queued")]
  /\ UNCHANGED verdict

WaitAt(g, ended) ==
  /\ state' = "AWAITING_APPROVAL" /\ gate' = g /\ exec' = ended
  /\ UNCHANGED <<verdict, attempt>>

Return(status, ended) ==
  /\ state' = status /\ verdict' = status /\ gate' = "none" /\ exec' = ended
  /\ UNCHANGED attempt

\* After wait_condition came true: cancel is looked at first.
LeaveGate(isCancelled, onward, ended) ==
  IF isCancelled THEN Return("CANCELLED", ended) ELSE Await(onward, ended)

BeginRun ==
  /\ Running /\ state = "PENDING"
  /\ Await("QUALIFYING", exec)
  /\ UNCHANGED <<input, approved, cancelled, qualification, effects, zombies, cancelledIn>>

\* Mutant: an approval given early spares the look at the cancellation.
ReviewGate_approved_first(q, ended) ==
  IF q.routing = "REQUIRE_REVIEW" /\ ~approved
    THEN IF cancelled THEN Return("CANCELLED", ended) ELSE WaitAt("review", ended)
    ELSE Await("DRAFTING", ended)

\* The run resumes with the result of its activity; ended is exec without the
\* attempt that reported it.
ReviewGate(q, ended) ==
  IF q.routing = "REQUIRE_REVIEW"
    THEN IF approved \/ cancelled
           THEN LeaveGate(cancelled, "DRAFTING", ended)
           ELSE WaitAt("review", ended)
    ELSE Await("DRAFTING", ended)

\* Mutant: the CRM first, and the email forgotten.
ApprovalGate_crm_first(ended) ==
  IF input.approval_required /\ ~approved
    THEN IF cancelled THEN Return("CANCELLED", ended) ELSE WaitAt("approval", ended)
    ELSE Await("CRM_UPSERTING", ended)

ApprovalGate(ended) ==
  IF input.approval_required /\ ~approved
    THEN IF cancelled THEN Return("CANCELLED", ended) ELSE WaitAt("approval", ended)
    ELSE Await("SENDING", ended)

Resume(k, n, ended) ==
  /\ CASE k = "qualify_lead" -> ReviewGate(exec[k][n].answer, ended)
       [] k = "draft_email" -> ApprovalGate(ended)
       [] k = "write_outbox_email" -> Await("CRM_UPSERTING", ended)
       [] k = "write_outbox_crm" ->
            IF input.followups_enabled
              THEN Await("SCHEDULING_FOLLOWUP", ended) ELSE Return("COMPLETED", ended)
       [] k = "schedule_followup" -> Return("COMPLETED", ended)
  /\ qualification' = IF k = "qualify_lead" THEN exec[k][n].answer ELSE qualification
  /\ UNCHANGED <<input, approved, cancelled>>

\* Mutant: cancel ends the run wherever it is.
Signals_anytime(sent) ==
  /\ Running /\ state # "PENDING"
  /\ approved' = (approved \/ "approve" \in sent)
  /\ cancelled' = (cancelled \/ "cancel" \in sent)
  /\ cancelledIn' = IF "cancel" \in sent /\ ~cancelled THEN state ELSE cancelledIn
  /\ IF "cancel" \in sent \/ gate # "none"
       THEN LeaveGate("cancel" \in sent, IF gate = "review" THEN "DRAFTING" ELSE "SENDING", exec)
       ELSE UNCHANGED <<state, gate, verdict, attempt, exec>>
  /\ UNCHANGED <<input, qualification, effects, zombies>>

\* Signals a closed workflow no longer takes. Those of one activation are all
\* applied before a waiting run looks at its condition.
Signals(sent) ==
  /\ Running
  /\ approved' = (approved \/ "approve" \in sent)
  /\ cancelled' = (cancelled \/ "cancel" \in sent)
  /\ cancelledIn' = IF "cancel" \in sent /\ ~cancelled THEN state ELSE cancelledIn
  /\ CASE gate = "review" -> LeaveGate("cancel" \in sent, "DRAFTING", exec)
       [] gate = "approval" -> LeaveGate("cancel" \in sent, "SENDING", exec)
       [] gate = "none" -> UNCHANGED <<state, gate, verdict, attempt, exec>>
  /\ UNCHANGED <<input, qualification, effects, zombies>>

\* Mutants: the timeout is caught and the run goes on; there is no timeout.
GateTimeout_onward ==
  /\ Running /\ gate # "none"
  /\ Await(IF gate = "review" THEN "DRAFTING" ELSE "SENDING", exec)
  /\ UNCHANGED <<input, approved, cancelled, qualification, effects, zombies, cancelledIn>>

GateTimeout_never == FALSE

\* wait_condition's 24 hours pass.
GateTimeout ==
  /\ Running /\ gate # "none"
  /\ Return("CANCELLED", exec)
  /\ UNCHANGED <<input, approved, cancelled, qualification, effects, zombies, cancelledIn>>

-----------------------------------------------------------------------------
(* Temporal's side of an activity.                                          *)

Current(k, n) ==
  Running /\ gate = "none" /\ state \in DOMAIN Awaited /\ Awaited[state] = k /\ attempt = n

Ended(k, n) == [exec EXCEPT ![k][n] = At("over")]

\* Mutant: one attempt more than the policy has.
RetryOrFail_extra(n, k, ended) ==
  IF n <= MaximumAttempts
    THEN /\ attempt' = n + 1
         /\ exec' = [ended EXCEPT ![k][n + 1] = At("queued")]
         /\ UNCHANGED verdict
    ELSE /\ verdict' = "FAILED" /\ exec' = ended
         /\ UNCHANGED attempt

\* The pending attempt n of k came to nothing: retry, or fail the workflow.
RetryOrFail(n, k, ended) ==
  IF n < MaximumAttempts
    THEN /\ attempt' = n + 1
         /\ exec' = [ended EXCEPT ![k][n + 1] = At("queued")]
         /\ UNCHANGED verdict
    ELSE /\ verdict' = "FAILED" /\ exec' = ended
         /\ UNCHANGED attempt

\* An exception leaves attempt n; the server no longer listens to old attempts.
Raise(k, n) ==
  /\ IF Current(k, n)
       THEN RetryOrFail(n, k, Ended(k, n))
       ELSE exec' = Ended(k, n) /\ UNCHANGED <<verdict, attempt>>
  /\ UNCHANGED <<input, state, gate, approved, cancelled, qualification>>

Alive(k, n) == exec[k][n].at \in {"begin", "llm", "commit", "report"}

\* The worker may not hear of the timeout, or not stop for it.
StartToCloseTimeout(k, n) ==
  /\ Current(k, n) /\ exec[k][n].at \notin {"none", "queued"}
  /\ \/ RetryOrFail(n, k, Ended(k, n)) /\ UNCHANGED zombies
     \/ /\ Alive(k, n) /\ zombies < MaxZombies
        /\ zombies' = zombies + 1
        /\ RetryOrFail(n, k, exec)
  /\ UNCHANGED <<input, state, gate, approved, cancelled, qualification,
                 effects, cancelledIn>>

\* The worker process dies with all it was executing.
WorkerCrash ==
  /\ exec' = [k \in Activities |-> [n \in Attempts |->
                IF Alive(k, n) THEN At("over") ELSE exec[k][n]]]
  /\ UNCHANGED <<workflow, effects, zombies, cancelledIn>>

-----------------------------------------------------------------------------
(* An attempt on the worker.                                                *)

Step(k, n, next) ==
  /\ exec' = [exec EXCEPT ![k][n].at = next]
  /\ UNCHANGED workflow

PickUp(k, n) ==
  /\ exec[k][n].at = "queued"
  /\ Step(k, n, "begin")
  /\ UNCHANGED <<effects, zombies, cancelledIn>>

\* Mutant: the exception of the transaction is swallowed.
Transaction_swallowed(k, n, effect, next) ==
  (effect \/ UNCHANGED effects) /\ Step(k, n, next)

\* A transaction of the attempt: it goes on after it, or the attempt raises,
\* with or without the effect (the commit's acknowledgement may be lost).
Transaction(k, n, effect, next) ==
  \/ effect /\ Step(k, n, next)
  \/ (effect \/ UNCHANGED effects) /\ Raise(k, n)

insert_outbox(intent) == outbox' = outbox \cup {intent} /\ UNCHANGED <<row, followup, runs>>

update_lead_state(st) == row' = [row EXCEPT !.state = st] /\ UNCHANGED <<outbox, followup, runs>>

\* REJECT_DUPLICATE: the id of touchpoint 1 is taken for good once started, and
\* WorkflowAlreadyStartedError leaves the activity.
schedule_followup(n) ==
  IF followup
    THEN Raise("schedule_followup", n) /\ UNCHANGED effects
    ELSE Transaction("schedule_followup", n,
                     followup' = TRUE /\ UNCHANGED <<row, outbox, runs>>, "report")

Begin(k, n) ==
  /\ exec[k][n].at = "begin"
  /\ CASE k = "qualify_lead" -> Transaction(k, n, update_lead_state("QUALIFYING"), "llm")
       [] k = "draft_email" -> Transaction(k, n, update_lead_state("DRAFTING"), "llm")
       [] k = "write_outbox_email" -> Transaction(k, n, insert_outbox("email"), "report")
       [] k = "write_outbox_crm" -> Transaction(k, n, insert_outbox("crm"), "report")
       [] k = "schedule_followup" -> schedule_followup(n)
  /\ UNCHANGED <<zombies, cancelledIn>>

\* The completion parses, or a second call repairs it, or the fallback stands in
\* for it; an exception of the first call is not caught.
CallLlm(k, n) ==
  /\ exec[k][n].at = "llm"
  /\ \/ \E a \in IF k = "qualify_lead" THEN Answers ELSE {NoAnswer} :
          /\ exec' = [exec EXCEPT ![k][n] = [at |-> "commit", answer |-> a]]
          /\ UNCHANGED workflow
     \/ Raise(k, n)
  /\ UNCHANGED <<effects, zombies, cancelledIn>>

\* Mutant: a qualification once written is kept.
RecordResult_keep(k, n) ==
  /\ runs' = runs \cup {k}
  /\ row' = IF k = "qualify_lead" /\ row.qualification = NoAnswer
              THEN [state |-> "QUALIFIED", qualification |-> exec[k][n].answer]
              ELSE [row EXCEPT !.state = "DRAFTED"]
  /\ UNCHANGED <<outbox, followup>>

\* insert_run and update_lead_state in one transaction.
RecordResult(k, n) ==
  /\ runs' = runs \cup {k}
  /\ row' = IF k = "qualify_lead"
              THEN [state |-> "QUALIFIED", qualification |-> exec[k][n].answer]
              ELSE [row EXCEPT !.state = "DRAFTED"]
  /\ UNCHANGED <<outbox, followup>>

Commit(k, n) ==
  /\ exec[k][n].at = "commit"
  /\ Transaction(k, n, RecordResult(k, n), "report")
  /\ UNCHANGED <<zombies, cancelledIn>>

\* The attempt returns: the run resumes, unless the server gave the attempt up.
Report(k, n) ==
  /\ exec[k][n].at = "report"
  /\ IF Current(k, n) THEN Resume(k, n, Ended(k, n)) ELSE Step(k, n, "over")
  /\ UNCHANGED <<effects, zombies, cancelledIn>>

\* Settings() reads the environment file again at each attempt. Its
\* ValidationError is one of the non_retryable_error_types: no attempt follows.
SettingsRefused(k, n) ==
  /\ exec[k][n].at = "begin" /\ k \in LlmActivities \cup {"schedule_followup"}
  /\ exec' = Ended(k, n)
  /\ verdict' = IF Current(k, n) THEN "FAILED" ELSE verdict
  /\ UNCHANGED <<input, state, gate, approved, cancelled, qualification, attempt,
                 effects, zombies, cancelledIn>>

AttemptStep(k, n) ==
  \/ PickUp(k, n) \/ Begin(k, n) \/ SettingsRefused(k, n) \/ Report(k, n)
  \/ k \in LlmActivities /\ (CallLlm(k, n) \/ Commit(k, n))

Next ==
  \/ BeginRun
  \/ \E sent \in SUBSET {"approve", "cancel"} : sent # {} /\ Signals(sent)
  \/ GateTimeout
  \/ WorkerCrash
  \/ \E k \in Activities, n \in Attempts : AttemptStep(k, n) \/ StartToCloseTimeout(k, n)

Spec == Init /\ [][Next]_vars

\* Temporal drives the run, its timers and its timeouts, and a worker polls.
Fairness ==
  /\ WF_vars(BeginRun) /\ WF_vars(GateTimeout)
  /\ \A k \in Activities, n \in Attempts :
       WF_vars(AttemptStep(k, n)) /\ WF_vars(StartToCloseTimeout(k, n))

FairSpec == Spec /\ Fairness

-----------------------------------------------------------------------------
(* Properties.                                                              *)

\* No email intent exists without an approval when the caller or the LLM asked
\* for one, whatever was retried, timed out or signalled early
\* (lead_workflow.py:45-94); a fallback qualification always asks.
EmailNeedsApproval ==
  /\ "email" \in outbox
  /\ input.approval_required \/ qualification.routing = "REQUIRE_REVIEW"
  => approved

\* A lead whose run ended CANCELLED got nothing: no attempt of an activity left
\* an intent or a follow-up behind (lead_workflow.py:53-60, 79-86).
CancelledLeavesNothing == verdict = "CANCELLED" => outbox = {} /\ ~followup

\* COMPLETED means done: both intents are in the outbox, the follow-up is
\* started if it was wanted, and each LLM step has its ledger row
\* (lead_workflow.py:88-114).
CompletedDidAll ==
  verdict = "COMPLETED" => /\ outbox = {"email", "crm"}
                           /\ followup = input.followups_enabled
                           /\ runs = LlmActivities

\* A cancel that is there before the review of a lead wins over any approval,
\* earlier or later (lead_workflow.py:45-60).
CancelBeatsReview ==
  /\ cancelledIn \in {"PENDING", "QUALIFYING"}
  /\ qualification.routing = "REQUIRE_REVIEW"
  => outbox = {} /\ state \notin {"DRAFTING", "SENDING"}

\* The follow-up chain and the CRM never run ahead of the first email, not even
\* when attempts the server gave up go on (lead_workflow.py:88-111).
EffectsInOrder == /\ followup => "crm" \in outbox
                  /\ "crm" \in outbox => "email" \in outbox

\* Unless an attempt outlived its timeout, the lead's row agrees with the result
\* the run acted on, in spite of retries and lost acknowledgements
\* (qualify.py:126-154, draft.py:126-143).
RowMatchesResult ==
  verdict = "COMPLETED" /\ zombies = 0
    => row = [state |-> "DRAFTED", qualification |-> qualification]

\* An attempt that outlives a closed run adds nothing but what the run itself was
\* waiting for when it failed: no intent, no follow-up and no step to the ledger that
\* is an earlier or a later activity's, and none at all once it completed or was
\* cancelled. What it may do is overwrite the row's columns, and leave one more
\* ledger row of a step that has one (qualify.py:126-154, outbox.py).
LateEffectsAreItsOwn ==
  [][verdict # "running" =>
       /\ outbox' # outbox =>
            /\ verdict = "FAILED"
            /\ \/ outbox' = outbox \cup {"email"} /\ state = "SENDING"
               \/ outbox' = outbox \cup {"crm"} /\ state = "CRM_UPSERTING"
       /\ followup' # followup => verdict = "FAILED" /\ state = "SCHEDULING_FOLLOWUP"
       /\ runs' # runs => verdict = "FAILED" /\ state \in {"QUALIFYING", "DRAFTING"}]_vars

\* Every run ends: each wait of it has a timeout, each activity a last attempt
\* (lead_workflow.py:15-21, 48-51, 72-77).
EventuallyClosed == <>(verdict # "running")

-----------------------------------------------------------------------------
(* What the documentation says, and the code does not do.                   *)

\* README.md:187: the policy decision is the "Safety/compliance gate", and
\* prompts/qualify.py: "BLOCK" is to reject the lead outright.
BlockIsEnforced == "email" \in outbox => qualification.policy # "BLOCK"
=============================================================================
