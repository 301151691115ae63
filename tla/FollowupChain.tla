---------------------------- MODULE FollowupChain ----------------------------
(***************************************************************************)
(* The follow-ups of one lead: a chain of workflow runs, one a touchpoint, *)
(* each of which drafts and writes an email and starts the next one.       *)
(*   src/workflows/followup_workflow.py   the run of one touchpoint        *)
(*   src/activities/followup.py           schedule_followup                *)
(*   src/activities/outbox.py             write_outbox_email               *)
(*                                                                         *)
(* The attempts of an activity that has an effect outside its run are      *)
(* calls of their own: the server may give a call up and queue another     *)
(* while the first goes on. A draft changes nothing the chain reads, so    *)
(* all the attempts of draft_email are one step.                           *)
(***************************************************************************)
EXTENDS Naturals

CONSTANTS
  MaximumAttempts,   \* DEFAULT_RETRY.maximum_attempts
  Configs,           \* what tenant_config.max_touchpoints is at one time or another
  MaxTouchpoint,     \* the touchpoints the model has room for
  MaxLate            \* bound: calls that outlive their start_to_close_timeout

ASSUME ChainAssumption ==
  /\ MaximumAttempts \in Nat \ {0}
  /\ MaxTouchpoint \in Nat \ {0}
  /\ Configs \subseteq 0..MaxTouchpoint /\ Configs # {}
  /\ MaxLate \in Nat

VARIABLES
  state,             \* each run: _state, or how it ended; none before it is started
  cancelled,         \* _cancelled of each run
  max_touchpoints,   \* of the input of each run
  attempt, picked,   \* of the pending activity: Temporal's attempt, the last one begun
  calls,             \* attempts of activities on the worker
  emails,            \* touchpoints with an email intent in the outbox
  late,              \* how much of the bound is used
  cancelledIn        \* history: the state the first cancel met

runVars == <<state, cancelled, max_touchpoints, attempt, picked, cancelledIn>>
chainVars == <<runVars, calls, emails, late>>

Touchpoints == 1..MaxTouchpoint
Attempts == 1..MaximumAttempts

\* The activities awaited in a state that has the name of its activity here.
Calling == {"SENDING", "SCHEDULING_NEXT"}
Closed == {"COMPLETED", "CANCELLED", "FAILED"}
Active == {"PENDING", "DRAFTING"} \cup Calling
RunStates == {"none"} \cup Active \cup Closed

Calls == [touchpoint : Touchpoints, activity : Calling, attempt : Attempts,
          read : 0..MaxTouchpoint, at : {"begin", "report"}]

ChainTypeOK ==
  /\ state \in [Touchpoints -> RunStates]
  /\ cancelled \in [Touchpoints -> BOOLEAN]
  /\ max_touchpoints \in [Touchpoints -> 0..MaxTouchpoint]
  /\ attempt \in [Touchpoints -> 0..MaximumAttempts]
  /\ picked \in [Touchpoints -> 0..MaximumAttempts]
  /\ calls \in SUBSET Calls
  /\ emails \in SUBSET Touchpoints
  /\ late \in Nat
  /\ cancelledIn \in [Touchpoints -> RunStates]

ChainInit ==
  /\ state = [t \in Touchpoints |-> "none"]
  /\ cancelled = [t \in Touchpoints |-> FALSE]
  /\ max_touchpoints = [t \in Touchpoints |-> 0]
  /\ attempt = [t \in Touchpoints |-> 0]
  /\ picked = [t \in Touchpoints |-> 0]
  /\ calls = {} /\ emails = {} /\ late = 0
  /\ cancelledIn = [t \in Touchpoints |-> "none"]

-----------------------------------------------------------------------------
(* The run of touchpoint t, from one await to the next.                     *)

Goto(t, st) == state' = [state EXCEPT ![t] = st]

\* execute_activity of an activity that calls out.
Await(t, st) ==
  /\ Goto(t, st)
  /\ attempt' = [attempt EXCEPT ![t] = 1]
  /\ picked' = [picked EXCEPT ![t] = 0]

\* The run goes on or ends without an activity in view.
Become(t, st) == Goto(t, st) /\ UNCHANGED <<attempt, picked>>

Resumes == UNCHANGED <<cancelled, max_touchpoints, cancelledIn, emails, late>>

\* After start_delay, or sooner: how long it is, is the tenant's choice.
BeginFollowup(t) ==
  /\ state[t] = "PENDING"
  /\ Become(t, IF cancelled[t] THEN "CANCELLED" ELSE "DRAFTING")
  /\ Resumes /\ UNCHANGED calls

\* Mutant: the second look at the cancellation is left out.
DraftReturns_blind(t) ==
  /\ state[t] = "DRAFTING"
  /\ \/ Await(t, "SENDING")
     \/ Become(t, "FAILED")
  /\ Resumes /\ UNCHANGED calls

\* The draft, or the failure of its last attempt.
DraftReturns(t) ==
  /\ state[t] = "DRAFTING"
  /\ \/ IF cancelled[t] THEN Become(t, "CANCELLED") ELSE Await(t, "SENDING")
     \/ Become(t, "FAILED")
  /\ Resumes /\ UNCHANGED calls

\* Mutant: off by one at the last touchpoint.
AfterEmail_inclusive(t) ==
  IF t <= max_touchpoints[t] /\ t < MaxTouchpoint
    THEN Await(t, "SCHEDULING_NEXT") ELSE Become(t, "COMPLETED")

\* max_touchpoints is that of the time the run was started.
AfterEmail(t) ==
  IF t < max_touchpoints[t] THEN Await(t, "SCHEDULING_NEXT") ELSE Become(t, "COMPLETED")

\* The signal; a run that is closed, or that never was, does not take it.
CancelFollowup(t) ==
  /\ state[t] \in Active
  /\ cancelled' = [cancelled EXCEPT ![t] = TRUE]
  /\ cancelledIn' = [cancelledIn EXCEPT ![t] = IF cancelled[t] THEN @ ELSE state[t]]
  /\ UNCHANGED <<state, max_touchpoints, attempt, picked, calls, emails, late>>

-----------------------------------------------------------------------------
(* Temporal's side of an activity, and its attempts.                        *)

Pending(t, activity, n) == state[t] = activity /\ attempt[t] = n

Current(c) == Pending(c.touchpoint, c.activity, c.attempt)

\* Mutant: the last attempt is repeated for ever.
RetryOrFail_forever(t, started) ==
  /\ state' = started
  /\ attempt' = [attempt EXCEPT ![t] = IF @ < MaximumAttempts THEN @ + 1 ELSE @]
  /\ picked' = [picked EXCEPT ![t] = attempt[t] - 1]

\* Mutant: one attempt more than the policy has.
RetryOrFail_extra(t, started) ==
  /\ IF attempt[t] <= MaximumAttempts
       THEN /\ attempt' = [attempt EXCEPT ![t] = @ + 1]
            /\ state' = started
       ELSE /\ state' = [started EXCEPT ![t] = "FAILED"]
            /\ UNCHANGED attempt
  /\ UNCHANGED picked

\* The pending attempt of touchpoint t came to nothing; started is state, with
\* what that attempt may have started all the same.
RetryOrFail(t, started) ==
  /\ IF attempt[t] < MaximumAttempts
       THEN /\ attempt' = [attempt EXCEPT ![t] = @ + 1]
            /\ state' = started
       ELSE /\ state' = [started EXCEPT ![t] = "FAILED"]
            /\ UNCHANGED attempt
  /\ UNCHANGED picked

\* Mutant: the email and the next touchpoint are gathered.
TakeUp_gathered(t) ==
  /\ state[t] \in Calling /\ picked[t] < attempt[t]
  /\ \E m \in Configs :
       calls' = calls \cup {[touchpoint |-> t, activity |-> a, attempt |-> attempt[t],
                             read |-> m, at |-> "begin"] :
                            a \in {b \in Calling : b = state[t] \/ t < max_touchpoints[t]}}
  /\ picked' = [picked EXCEPT ![t] = attempt[t]]
  /\ UNCHANGED <<state, attempt>> /\ Resumes

\* A worker takes the queued attempt. schedule_followup reads the configuration
\* of the tenant (three touchpoints if there is none) before it does anything.
TakeUp(t) ==
  /\ state[t] \in Calling /\ picked[t] < attempt[t]
  /\ \E m \in IF state[t] = "SCHEDULING_NEXT" THEN Configs ELSE {0} :
       calls' = calls \cup {[touchpoint |-> t, activity |-> state[t],
                             attempt |-> attempt[t], read |-> m, at |-> "begin"]}
  /\ picked' = [picked EXCEPT ![t] = attempt[t]]
  /\ UNCHANGED <<state, attempt>> /\ Resumes

\* An exception leaves the call; the server listens to the current one only.
Raise(c, started) ==
  /\ calls' = calls \ {c}
  /\ IF Current(c)
       THEN RetryOrFail(c.touchpoint, started)
       ELSE state' = started /\ UNCHANGED <<attempt, picked>>

Return(c, started) ==
  /\ calls' = (calls \ {c}) \cup {[c EXCEPT !.at = "report"]}
  /\ state' = started
  /\ UNCHANGED <<attempt, picked>>

\* The intent is there once the transaction is made, whether or not it is heard
\* of; an intent that is there already is left as it is.
WriteEmail(c) ==
  /\ c.activity = "SENDING" /\ c.at = "begin"
  /\ \/ Return(c, state) /\ emails' = emails \cup {c.touchpoint}
     \/ Raise(c, state) /\ emails' \in {emails, emails \cup {c.touchpoint}}
  /\ UNCHANGED <<cancelled, max_touchpoints, cancelledIn, late>>

\* Started(t) is state after start_workflow for touchpoint t with input m.
\* REJECT_DUPLICATE: an id that was ever used is never started again.
Started(t) == [state EXCEPT ![t] = "PENDING"]

StartFollowup(t, m) ==
  /\ state[t] = "none"
  /\ max_touchpoints' = [max_touchpoints EXCEPT ![t] = m]

\* Mutant: the exception of start_workflow is swallowed.
ScheduleNext_swallowed(c) ==
  LET next == c.touchpoint + 1 IN
  /\ c.activity = "SCHEDULING_NEXT" /\ c.at = "begin"
  /\ \/ StartFollowup(next, c.read) /\ Return(c, Started(next))
     \/ Return(c, state) /\ UNCHANGED max_touchpoints
  /\ UNCHANGED <<cancelled, cancelledIn, emails, late>>

\* A duplicate raises WorkflowAlreadyStartedError, also when it was an earlier
\* attempt of the same activity that used the id.
ScheduleNext(c) ==
  LET next == c.touchpoint + 1 IN
  /\ c.activity = "SCHEDULING_NEXT" /\ c.at = "begin"
  /\ \/ StartFollowup(next, c.read) /\ (Return(c, Started(next)) \/ Raise(c, Started(next)))
     \/ Raise(c, state) /\ UNCHANGED max_touchpoints
  /\ UNCHANGED <<cancelled, cancelledIn, emails, late>>

\* Settings() before start_workflow reads the environment file again. Its
\* ValidationError is one of the non_retryable_error_types: no attempt follows.
SettingsRefused(c) ==
  /\ c.activity = "SCHEDULING_NEXT" /\ c.at = "begin"
  /\ calls' = calls \ {c}
  /\ IF Current(c)
       THEN Become(c.touchpoint, "FAILED") ELSE UNCHANGED <<state, attempt, picked>>
  /\ Resumes

\* The call returns: the run resumes, unless the server gave the call up.
Report(c) ==
  /\ c.at = "report"
  /\ calls' = calls \ {c}
  /\ IF ~Current(c) THEN UNCHANGED <<state, attempt, picked>>
     ELSE IF c.activity = "SENDING" THEN AfterEmail(c.touchpoint)
     ELSE Become(c.touchpoint, "COMPLETED")
  /\ Resumes

\* start_to_close_timeout, 10 s or 30 s: the call may go on unheard.
CallTimeout(t) ==
  /\ state[t] \in Calling /\ picked[t] = attempt[t]
  /\ RetryOrFail(t, state)
  /\ \/ calls' = {c \in calls : ~(c.touchpoint = t /\ Current(c))} /\ UNCHANGED late
     \/ /\ \E c \in calls : c.touchpoint = t /\ Current(c)
        /\ late < MaxLate /\ late' = late + 1
        /\ UNCHANGED calls
  /\ UNCHANGED <<cancelled, max_touchpoints, cancelledIn, emails>>

\* The worker process dies with the calls it was making.
ChainCrash ==
  /\ calls' = {}
  /\ UNCHANGED <<runVars, emails, late>>

CallStep(c) == WriteEmail(c) \/ ScheduleNext(c) \/ SettingsRefused(c) \/ Report(c)

\* Everything but the start of touchpoint 1, which is the lead workflow's.
ChainStep ==
  \/ \E t \in Touchpoints : \/ BeginFollowup(t) \/ DraftReturns(t) \/ CancelFollowup(t)
                            \/ TakeUp(t) \/ CallTimeout(t)
  \/ \E c \in calls : CallStep(c)
  \/ ChainCrash

\* schedule_followup(lead_id, 1, qualification).
StartChain ==
  /\ \E m \in Configs : StartFollowup(1, m) /\ state' = Started(1)
  /\ UNCHANGED <<cancelled, attempt, picked, cancelledIn, calls, emails, late>>

ChainNext == StartChain \/ ChainStep

ChainSpec == ChainInit /\ [][ChainNext]_chainVars

\* Temporal starts what is due, delivers what was reported and times out what
\* was not; a worker polls.
ChainFairness ==
  \A t \in Touchpoints :
    WF_chainVars(BeginFollowup(t)) /\ WF_chainVars(DraftReturns(t))
    /\ WF_chainVars(TakeUp(t)) /\ WF_chainVars(CallTimeout(t))

ChainFairSpec == ChainSpec /\ ChainFairness

-----------------------------------------------------------------------------
(* Properties.                                                              *)

\* A touchpoint is reached only over the one before it: there is no follow-up
\* n + 1, and so no email of it, before the email of n is in the outbox, even
\* when calls the server gave up go on (followup_workflow.py:58-71).
EmailsInOrder ==
  \A t \in Touchpoints :
    /\ t \in emails => state[t] # "none"
    /\ t > 1 /\ state[t] # "none" => t - 1 \in emails

\* The chain goes no further than a configuration that was in force said; the
\* first follow-up is sent whatever it says (followup_workflow.py:65).
WithinConfigured ==
  \A t \in Touchpoints :
    state[t] # "none" => t = 1 \/ \E m \in Configs : t <= m

\* A run cancelled before its draft is there writes no email and has no
\* successor, and no late call of it does (followup_workflow.py:37-56).
CancelStopsChain ==
  \A t \in Touchpoints :
    cancelledIn[t] \in {"PENDING", "DRAFTING"}
      => t \notin emails /\ (t < MaxTouchpoint => state[t + 1] = "none")

\* A completed run wrote its email and passed the chain on, unless it was the
\* last by the configuration it was started with (followup_workflow.py:58-75).
CompletedPassedOn ==
  \A t \in Touchpoints :
    state[t] = "COMPLETED"
      => t \in emails /\ (t < max_touchpoints[t] => state[t + 1] # "none")

\* A run that was started is closed at last, although its worker may die again and
\* again and its calls may never be heard of (followup_workflow.py:15-21, 43-72).
ChainEnds == \A t \in Touchpoints : state[t] \in Active ~> state[t] \in Closed
=============================================================================
