---------------------------- MODULE FollowupProofs ----------------------------
(***************************************************************************)
(* Theorems about module FollowupChain, for any number of touchpoints and  *)
(* attempts, any configurations, and any number of late calls.             *)
(*                                                                         *)
(* The argument: a call outlives the state of the run that made it, but    *)
(* not what that state was reached by. So each call vouches for its run    *)
(* (CallOk), and what a run has behind it is never undone (RunOk): written *)
(* emails stay, started touchpoints stay started, closed runs stay closed. *)
(***************************************************************************)
EXTENDS FollowupChain, TLAPS

\* Where a run can be that was told to write its email, and after.
Writing == {"SENDING", "SCHEDULING_NEXT", "COMPLETED", "FAILED"}
Passing == {"SCHEDULING_NEXT", "COMPLETED", "FAILED"}
Undone == {"PENDING", "DRAFTING", "CANCELLED", "FAILED"}

Configured(t) == state[t] # "none" => max_touchpoints[t] \in Configs

EmailFits(t) == t \in emails => state[t] \in Writing

EmailBehind(t) ==
  /\ state[t] = "SCHEDULING_NEXT" => t \in emails /\ t < max_touchpoints[t]
  /\ state[t] = "COMPLETED"
       => t \in emails /\ (t < max_touchpoints[t] => state[t + 1] # "none")

Reached(t) ==
  t > 1 /\ state[t] # "none" => t - 1 \in emails /\ \E m \in Configs : t <= m

CancelHeld(t) ==
  cancelledIn[t] \in {"PENDING", "DRAFTING"}
    => cancelled[t] /\ t \notin emails /\ state[t] \in Undone

RunOk(t) == Configured(t) /\ EmailFits(t) /\ EmailBehind(t) /\ Reached(t) /\ CancelHeld(t)

\* What a call, late or not, says of the run that made it.
CallOk(c) ==
  LET t == c.touchpoint IN
  /\ cancelledIn[t] \notin {"PENDING", "DRAFTING"}
  /\ state[t] \in Writing
  /\ c.activity = "SENDING" /\ c.at = "report" => t \in emails
  /\ c.activity = "SCHEDULING_NEXT"
       => /\ state[t] \in Passing
          /\ t \in emails /\ t < max_touchpoints[t]
          /\ c.read \in Configs
          /\ c.at = "report" => state[t + 1] # "none"

ChainInv ==
  /\ ChainTypeOK
  /\ \A t \in Touchpoints : RunOk(t)
  /\ \A c \in calls : CallOk(c)

LEMMA InitInv == ChainInit => ChainInv
BY ChainAssumption DEF ChainInit, ChainInv, ChainTypeOK, RunOk, CallOk, Touchpoints, RunStates,
   Configured, EmailFits, EmailBehind, Reached, CancelHeld

-----------------------------------------------------------------------------
(* What the run and the server do to it.                                    *)

LEMMA Successor ==
  ASSUME ChainTypeOK, NEW t \in Touchpoints, t < max_touchpoints[t]
  PROVE  t + 1 \in Touchpoints
BY ChainAssumption DEF ChainTypeOK, Touchpoints

\* A call that is retried stays what it is; the last attempt ends the run.
LEMMA RetryEffect ==
  ASSUME ChainTypeOK, NEW t \in Touchpoints, state[t] \in Calling,
         NEW started \in [Touchpoints -> RunStates], RetryOrFail(t, started)
  PROVE  /\ state' \in [Touchpoints -> RunStates]
         /\ attempt' \in [Touchpoints -> 0..MaximumAttempts]
         /\ picked' \in [Touchpoints -> 0..MaximumAttempts]
         /\ state' = started \/ state' = [started EXCEPT ![t] = "FAILED"]
<1>1. CASE attempt[t] < MaximumAttempts
  <2>1. attempt' = [attempt EXCEPT ![t] = attempt[t] + 1] /\ state' = started /\ picked' = picked
    BY <1>1 DEF RetryOrFail
  <2>2. attempt[t] + 1 \in 0..MaximumAttempts
    BY <1>1, ChainAssumption DEF ChainTypeOK
  <2> QED
    BY <2>1, <2>2 DEF ChainTypeOK
<1>2. CASE ~(attempt[t] < MaximumAttempts)
  BY <1>2 DEF RetryOrFail, ChainTypeOK, RunStates, Closed
<1> QED
  BY <1>1, <1>2

LEMMA BeginFollowupInv ==
  ASSUME ChainInv, NEW t \in Touchpoints, BeginFollowup(t)
  PROVE  ChainInv'
<1>1. /\ state[t] = "PENDING"
      /\ state' = [state EXCEPT ![t] = IF cancelled[t] THEN "CANCELLED" ELSE "DRAFTING"]
      /\ UNCHANGED <<cancelled, max_touchpoints, cancelledIn, emails, late, calls, attempt, picked>>
  BY DEF BeginFollowup, Become, Goto, Resumes
<1>2. ChainTypeOK'
  BY <1>1 DEF ChainInv, ChainTypeOK, RunStates, Active, Closed
<1>3. \A u \in Touchpoints : RunOk(u)'
  BY <1>1, <1>2 DEF ChainInv, ChainTypeOK, RunOk, Configured, EmailFits, EmailBehind, Reached,
     CancelHeld, Writing, Undone, Touchpoints
<1>4. \A c \in calls' : CallOk(c)'
  BY <1>1, <1>2 DEF ChainInv, ChainTypeOK, CallOk, Writing, Passing, Calls, Touchpoints
<1> QED
  BY <1>2, <1>3, <1>4 DEF ChainInv

LEMMA DraftReturnsInv ==
  ASSUME ChainInv, NEW t \in Touchpoints, DraftReturns(t)
  PROVE  ChainInv'
<1>1. /\ state[t] = "DRAFTING"
      /\ UNCHANGED <<cancelled, max_touchpoints, cancelledIn, emails, late, calls>>
  BY DEF DraftReturns, Resumes
<1>2. \/ ~cancelled[t] /\ Await(t, "SENDING")
      \/ cancelled[t] /\ Become(t, "CANCELLED")
      \/ Become(t, "FAILED")
  BY DEF DraftReturns
<1>3. \E st \in {"SENDING", "CANCELLED", "FAILED"} :
        state' = [state EXCEPT ![t] = st] /\ (st = "SENDING" => ~cancelled[t])
  BY <1>2 DEF Await, Become, Goto
<1>4. ChainTypeOK'
  <2>1. /\ attempt' \in [Touchpoints -> 0..MaximumAttempts]
        /\ picked' \in [Touchpoints -> 0..MaximumAttempts]
    BY <1>2, ChainAssumption DEF Await, Become, ChainInv, ChainTypeOK
  <2> QED
    BY <1>1, <1>3, <2>1 DEF ChainInv, ChainTypeOK, RunStates, Active, Calling, Closed
<1>5. \A u \in Touchpoints : RunOk(u)'
  BY <1>1, <1>3, <1>4 DEF ChainInv, ChainTypeOK, RunOk, Configured, EmailFits, EmailBehind,
     Reached, CancelHeld, Writing, Undone, Touchpoints
<1>6. \A c \in calls' : CallOk(c)'
  BY <1>1, <1>3, <1>4 DEF ChainInv, ChainTypeOK, CallOk, Writing, Passing, Calls, Touchpoints
<1> QED
  BY <1>4, <1>5, <1>6 DEF ChainInv

LEMMA CancelFollowupInv ==
  ASSUME ChainInv, NEW t \in Touchpoints, CancelFollowup(t)
  PROVE  ChainInv'
<1>1. /\ state[t] \in Active
      /\ cancelled' = [cancelled EXCEPT ![t] = TRUE]
      /\ cancelledIn' = [cancelledIn EXCEPT
                           ![t] = IF cancelled[t] THEN cancelledIn[t] ELSE state[t]]
      /\ UNCHANGED <<state, max_touchpoints, attempt, picked, calls, emails, late>>
  BY DEF CancelFollowup
<1>2. ChainTypeOK'
  BY <1>1 DEF ChainInv, ChainTypeOK
<1>3. \A u \in Touchpoints : RunOk(u)'
  <2>1. \A u \in Touchpoints : CancelHeld(u)'
    BY <1>1, <1>2 DEF ChainInv, ChainTypeOK, RunOk, EmailFits, CancelHeld, Writing, Undone
  <2> QED
    BY <1>1, <2>1 DEF ChainInv, RunOk, Configured, EmailFits, EmailBehind, Reached
<1>4. \A c \in calls' : CallOk(c)'
  BY <1>1, <1>2 DEF ChainInv, ChainTypeOK, CallOk, Writing, Calls
<1> QED
  BY <1>2, <1>3, <1>4 DEF ChainInv

LEMMA TakeUpInv ==
  ASSUME ChainInv, NEW t \in Touchpoints, TakeUp(t)
  PROVE  ChainInv'
<1>1. PICK m \in IF state[t] = "SCHEDULING_NEXT" THEN Configs ELSE {0} :
        /\ state[t] \in Calling /\ picked[t] < attempt[t]
        /\ calls' = calls \cup {[touchpoint |-> t, activity |-> state[t],
                                 attempt |-> attempt[t], read |-> m, at |-> "begin"]}
        /\ picked' = [picked EXCEPT ![t] = attempt[t]]
        /\ UNCHANGED <<state, attempt, cancelled, max_touchpoints, cancelledIn, emails, late>>
  BY DEF TakeUp, Resumes
<1> DEFINE new == [touchpoint |-> t, activity |-> state[t],
                   attempt |-> attempt[t], read |-> m, at |-> "begin"]
<1>2. new \in Calls
  BY <1>1, ChainAssumption DEF ChainInv, ChainTypeOK, Calls, Attempts
<1>3. ChainTypeOK'
  BY <1>1, <1>2 DEF ChainInv, ChainTypeOK
<1>4. \A u \in Touchpoints : RunOk(u)'
  BY <1>1 DEF ChainInv, RunOk, Configured, EmailFits, EmailBehind, Reached, CancelHeld
<1>5. \A c \in calls : CallOk(c)'
  BY <1>1 DEF ChainInv, CallOk
<1>6. CallOk(new)'
  BY <1>1 DEF ChainInv, RunOk, EmailBehind, CancelHeld, CallOk, Calling, Writing, Passing, Undone
<1> QED
  BY <1>1, <1>3, <1>4, <1>5, <1>6 DEF ChainInv

\* What calls and the server do to the runs: run u fails, or is started over an
\* email that came before it; emails are added by calls.
Fails(u) == state[u] \in Calling /\ state'[u] = "FAILED"

IsStarted(u) ==
  /\ state[u] = "none" /\ state'[u] = "PENDING" /\ max_touchpoints'[u] \in Configs
  /\ u > 1 => u - 1 \in emails /\ \E m \in Configs : u <= m

LEMMA StepKeeps ==
  ASSUME ChainInv, ChainTypeOK',
         \A u \in Touchpoints : state'[u] = state[u] \/ Fails(u) \/ IsStarted(u),
         \A u \in Touchpoints : state[u] = "none" \/ max_touchpoints'[u] = max_touchpoints[u],
         emails \subseteq emails',
         \A u \in emails' \ emails : \E c \in calls : c.touchpoint = u,
         UNCHANGED <<cancelled, cancelledIn>>
  PROVE  /\ \A u \in Touchpoints : RunOk(u)'
         /\ \A c \in calls : CallOk(c)'
<1>1. \A u \in Touchpoints :
        state[u] # "none" => state'[u] # "none" /\ max_touchpoints'[u] = max_touchpoints[u]
  BY DEF Fails, IsStarted
<1>2. \A u \in Touchpoints :
        u \in emails' => /\ state'[u] \in Writing
                         /\ u \in emails \/ cancelledIn[u] \notin {"PENDING", "DRAFTING"}
  <2> SUFFICES ASSUME NEW u \in Touchpoints, u \in emails'
               PROVE  /\ state'[u] \in Writing
                      /\ u \in emails \/ cancelledIn[u] \notin {"PENDING", "DRAFTING"}
    OBVIOUS
  <2>1. CASE u \in emails
    <3>1. state[u] \in Writing
      BY <2>1 DEF ChainInv, RunOk, EmailFits
    <3> QED
      BY <2>1, <3>1 DEF Fails, IsStarted, Writing
  <2>2. CASE u \notin emails
    <3>1. state[u] \in Writing /\ cancelledIn[u] \notin {"PENDING", "DRAFTING"}
      BY <2>2 DEF ChainInv, CallOk
    <3> QED
      BY <3>1 DEF Fails, IsStarted, Writing
  <2> QED
    BY <2>1, <2>2
<1>3. \A u \in Touchpoints : RunOk(u)'
  <2> SUFFICES ASSUME NEW u \in Touchpoints
               PROVE  RunOk(u)'
    OBVIOUS
  <2>1. RunOk(u) /\ (state'[u] = state[u] \/ Fails(u) \/ IsStarted(u))
    BY DEF ChainInv
  <2>2. Configured(u)' /\ Reached(u)'
    BY <1>1, <2>1 DEF RunOk, Configured, Reached, Fails, IsStarted, Calling
  <2>3. EmailFits(u)'
    BY <1>2 DEF EmailFits
  <2>4. CancelHeld(u)'
    BY <1>2, <2>1 DEF RunOk, CancelHeld, Fails, IsStarted, Undone
  <2>5. u < max_touchpoints[u] => u + 1 \in Touchpoints
    BY Successor DEF ChainInv
  <2>6. EmailBehind(u)'
    BY <1>1, <2>1, <2>5 DEF RunOk, EmailBehind, Fails, IsStarted
  <2> QED
    BY <2>2, <2>3, <2>4, <2>6 DEF RunOk
<1>4. \A c \in calls : CallOk(c)'
  <2> SUFFICES ASSUME NEW c \in calls
               PROVE  CallOk(c)'
    OBVIOUS
  <2> DEFINE u == c.touchpoint
  <2>1. CallOk(c) /\ u \in Touchpoints
    BY DEF ChainInv, ChainTypeOK, Calls
  <2>2. u < max_touchpoints[u] => u + 1 \in Touchpoints
    BY <2>1, Successor DEF ChainInv
  <2>3. /\ state'[u] = state[u] \/ state'[u] = "FAILED"
        /\ max_touchpoints'[u] = max_touchpoints[u]
        /\ u + 1 \in Touchpoints /\ state[u + 1] # "none" => state'[u + 1] # "none"
    BY <1>1, <2>1 DEF CallOk, Writing, Fails, IsStarted
  <2> QED
    BY <2>1, <2>2, <2>3 DEF CallOk, Writing, Passing
<1> QED
  BY <1>3, <1>4

LEMMA CallTimeoutInv ==
  ASSUME ChainInv, NEW t \in Touchpoints, CallTimeout(t)
  PROVE  ChainInv'
<1>1. /\ state[t] \in Calling
      /\ RetryOrFail(t, state)
      /\ calls' \subseteq calls
      /\ late' = late \/ late' = late + 1
      /\ UNCHANGED <<cancelled, max_touchpoints, cancelledIn, emails>>
  BY DEF CallTimeout
<1>2. state \in [Touchpoints -> RunStates]
  BY DEF ChainInv, ChainTypeOK
<1>3. /\ state' \in [Touchpoints -> RunStates]
      /\ attempt' \in [Touchpoints -> 0..MaximumAttempts]
      /\ picked' \in [Touchpoints -> 0..MaximumAttempts]
      /\ state' = state \/ state' = [state EXCEPT ![t] = "FAILED"]
  BY <1>1, <1>2, RetryEffect DEF ChainInv
<1>4. ChainTypeOK'
  BY <1>1, <1>3 DEF ChainInv, ChainTypeOK
<1> QED
  <2>1. \A u \in Touchpoints : state'[u] = state[u] \/ Fails(u)
    BY <1>1, <1>2, <1>3 DEF Fails
  <2>2. /\ \A u \in Touchpoints : RunOk(u)'
        /\ \A c \in calls : CallOk(c)'
    BY <1>1, <1>4, <2>1, StepKeeps
  <2> QED
    BY <1>1, <1>4, <2>2 DEF ChainInv

LEMMA ChainCrashInv ==
  ASSUME ChainInv, ChainCrash
  PROVE  ChainInv'
BY DEF ChainCrash, runVars, ChainInv, ChainTypeOK, RunOk, Configured, EmailFits, EmailBehind,
   Reached, CancelHeld

-----------------------------------------------------------------------------
(* The calls.                                                               *)

\* What an exception does to the run and to the calls.
LEMMA RaiseEffect ==
  ASSUME ChainTypeOK, NEW c \in calls, NEW started \in [Touchpoints -> RunStates],
         Raise(c, started)
  PROVE  /\ state' \in [Touchpoints -> RunStates]
         /\ attempt' \in [Touchpoints -> 0..MaximumAttempts]
         /\ picked' \in [Touchpoints -> 0..MaximumAttempts]
         /\ calls' = calls \ {c}
         /\ \/ state' = started
            \/ /\ state[c.touchpoint] \in Calling
               /\ state' = [started EXCEPT ![c.touchpoint] = "FAILED"]
<1>1. c.touchpoint \in Touchpoints /\ c.activity \in Calling
  BY DEF ChainTypeOK, Calls
<1>2. calls' = calls \ {c}
  BY DEF Raise
<1>3. CASE Current(c)
  <2>1. state[c.touchpoint] \in Calling /\ RetryOrFail(c.touchpoint, started)
    BY <1>1, <1>3 DEF Raise, Current, Pending
  <2> QED
    BY <1>1, <1>2, <2>1, RetryEffect
<1>4. CASE ~Current(c)
  BY <1>2, <1>4 DEF Raise, ChainTypeOK
<1> QED
  BY <1>3, <1>4

LEMMA WriteEmailInv ==
  ASSUME ChainInv, NEW c \in calls, WriteEmail(c)
  PROVE  ChainInv'
<1> DEFINE t == c.touchpoint
           answer == [c EXCEPT !.at = "report"]
<1>1. /\ c \in Calls /\ t \in Touchpoints /\ state \in [Touchpoints -> RunStates]
      /\ emails \subseteq Touchpoints
  BY DEF ChainInv, ChainTypeOK, Calls
<1>2. UNCHANGED <<cancelled, max_touchpoints, cancelledIn, late>>
  BY DEF WriteEmail
<1>3. CASE Return(c, state) /\ emails' = emails \cup {t}
  <2>1. /\ calls' = (calls \ {c}) \cup {answer} /\ UNCHANGED <<state, attempt, picked>>
        /\ answer \in Calls
    BY <1>1, <1>3 DEF Return, Calls
  <2>2. ChainTypeOK'
    BY <1>1, <1>2, <1>3, <2>1 DEF ChainInv, ChainTypeOK
  <2>3. /\ \A u \in Touchpoints : RunOk(u)'
        /\ \A d \in calls : CallOk(d)'
    BY <1>2, <1>3, <2>1, <2>2, StepKeeps
  <2>4. c.activity = "SENDING" /\ CallOk(c)'
    BY <2>3 DEF WriteEmail
  <2>5. CallOk(answer)'
    BY <1>1, <1>3, <2>4 DEF CallOk, Calls
  <2> QED
    BY <2>1, <2>2, <2>3, <2>5 DEF ChainInv
<1>4. CASE Raise(c, state) /\ emails' \in {emails, emails \cup {t}}
  <2>1. /\ state' \in [Touchpoints -> RunStates]
        /\ attempt' \in [Touchpoints -> 0..MaximumAttempts]
        /\ picked' \in [Touchpoints -> 0..MaximumAttempts]
        /\ calls' = calls \ {c}
        /\ \/ state' = state
           \/ state[t] \in Calling /\ state' = [state EXCEPT ![t] = "FAILED"]
    BY <1>1, <1>4, RaiseEffect DEF ChainInv
  <2>2. ChainTypeOK'
    BY <1>1, <1>2, <1>4, <2>1 DEF ChainInv, ChainTypeOK
  <2>3. \A u \in Touchpoints : state'[u] = state[u] \/ Fails(u)
    BY <1>1, <2>1 DEF Fails
  <2>4. /\ \A u \in Touchpoints : RunOk(u)'
        /\ \A d \in calls : CallOk(d)'
    BY <1>2, <1>4, <2>2, <2>3, StepKeeps
  <2> QED
    BY <2>1, <2>2, <2>4 DEF ChainInv
<1> QED
  BY <1>3, <1>4 DEF WriteEmail

\* schedule_followup starts the touchpoint after one whose email is written.
LEMMA StartIsBehind ==
  ASSUME ChainInv, NEW c \in calls, c.activity = "SCHEDULING_NEXT"
  PROVE  LET next == c.touchpoint + 1 IN
         /\ next \in Touchpoints /\ next # c.touchpoint /\ next - 1 \in emails
         /\ c.read \in Configs
         /\ \E m \in Configs : next <= m
<1> DEFINE t == c.touchpoint
<1>1. CallOk(c) /\ t \in Touchpoints /\ ChainTypeOK /\ RunOk(t)
  BY DEF ChainInv, ChainTypeOK, Calls
<1>2. t \in emails /\ t < max_touchpoints[t] /\ c.read \in Configs /\ state[t] # "none"
  BY <1>1 DEF CallOk, Passing
<1>3. max_touchpoints[t] \in Configs
  BY <1>1, <1>2 DEF RunOk, Configured
<1>4. t + 1 \in Touchpoints
  BY <1>1, <1>2, Successor
<1>5. max_touchpoints[t] \in Nat /\ t \in Nat
  BY <1>1, ChainAssumption DEF ChainTypeOK, Touchpoints
<1> QED
  BY <1>2, <1>3, <1>4, <1>5

LEMMA ScheduleNextInv ==
  ASSUME ChainInv, NEW c \in calls, ScheduleNext(c)
  PROVE  ChainInv'
<1> DEFINE t == c.touchpoint
           next == t + 1
           answer == [c EXCEPT !.at = "report"]
<1>1. /\ c \in Calls /\ t \in Touchpoints /\ state \in [Touchpoints -> RunStates]
      /\ max_touchpoints \in [Touchpoints -> 0..MaxTouchpoint]
  BY DEF ChainInv, ChainTypeOK, Calls
<1>2. /\ c.activity = "SCHEDULING_NEXT"
      /\ UNCHANGED <<cancelled, cancelledIn, emails, late>>
  BY DEF ScheduleNext
<1>3. /\ next \in Touchpoints /\ next # t /\ next - 1 \in emails
      /\ c.read \in Configs
      /\ \E m \in Configs : next <= m
  BY <1>2, StartIsBehind
<1>4. CASE /\ StartFollowup(next, c.read)
           /\ Return(c, Started(next)) \/ Raise(c, Started(next))
  <2>1. /\ state[next] = "none"
        /\ max_touchpoints' = [max_touchpoints EXCEPT ![next] = c.read]
    BY <1>4 DEF StartFollowup
  <2>2. /\ Started(next) = [state EXCEPT ![next] = "PENDING"]
        /\ Started(next) \in [Touchpoints -> RunStates]
    BY <1>1 DEF Started, RunStates, Active
  <2>3. max_touchpoints' \in [Touchpoints -> 0..MaxTouchpoint]
    BY <1>1, <1>3, <2>1, ChainAssumption
  <2>4. \A u \in Touchpoints : state[u] = "none" \/ max_touchpoints'[u] = max_touchpoints[u]
    BY <1>1, <2>1
  <2>5. max_touchpoints'[next] \in Configs
    BY <1>1, <1>3, <2>1
  <2>6. CASE Return(c, Started(next))
    <3>1. /\ calls' = (calls \ {c}) \cup {answer} /\ UNCHANGED <<attempt, picked>>
          /\ state' = [state EXCEPT ![next] = "PENDING"]
          /\ answer \in Calls
      BY <1>1, <2>2, <2>6 DEF Return, Calls
    <3>2. ChainTypeOK'
      BY <1>2, <2>2, <2>3, <3>1 DEF ChainInv, ChainTypeOK
    <3>3. \A u \in Touchpoints : state'[u] = state[u] \/ IsStarted(u)
      BY <1>1, <1>3, <2>1, <2>5, <3>1 DEF IsStarted
    <3>4. /\ \A u \in Touchpoints : RunOk(u)'
          /\ \A d \in calls : CallOk(d)'
      BY <1>2, <2>4, <3>2, <3>3, StepKeeps
    <3>5. state'[next] # "none"
      BY <1>1, <1>3, <3>1
    <3>6. CallOk(answer)'
      <4>1. CallOk(c)'
        BY <3>4
      <4> QED
        BY <1>1, <1>2, <3>5, <4>1 DEF CallOk, Calls
    <3> QED
      BY <3>1, <3>2, <3>4, <3>6 DEF ChainInv
  <2>7. CASE Raise(c, Started(next))
    <3>1. /\ state' \in [Touchpoints -> RunStates]
          /\ attempt' \in [Touchpoints -> 0..MaximumAttempts]
          /\ picked' \in [Touchpoints -> 0..MaximumAttempts]
          /\ calls' = calls \ {c}
          /\ \/ state' = Started(next)
             \/ state[t] \in Calling /\ state' = [Started(next) EXCEPT ![t] = "FAILED"]
      BY <2>2, <2>7, RaiseEffect DEF ChainInv
    <3>2. ChainTypeOK'
      BY <1>2, <2>3, <3>1 DEF ChainInv, ChainTypeOK
    <3>3. \A u \in Touchpoints : state'[u] = state[u] \/ Fails(u) \/ IsStarted(u)
      BY <1>1, <1>3, <2>1, <2>2, <2>5, <3>1 DEF IsStarted, Fails
    <3>4. /\ \A u \in Touchpoints : RunOk(u)'
          /\ \A d \in calls : CallOk(d)'
      BY <1>2, <2>4, <3>2, <3>3, StepKeeps
    <3> QED
      BY <3>1, <3>2, <3>4 DEF ChainInv
  <2> QED
    BY <1>4, <2>6, <2>7
<1>5. CASE Raise(c, state) /\ UNCHANGED max_touchpoints
  <2>1. /\ state' \in [Touchpoints -> RunStates]
        /\ attempt' \in [Touchpoints -> 0..MaximumAttempts]
        /\ picked' \in [Touchpoints -> 0..MaximumAttempts]
        /\ calls' = calls \ {c}
        /\ \/ state' = state
           \/ state[t] \in Calling /\ state' = [state EXCEPT ![t] = "FAILED"]
    BY <1>1, <1>5, RaiseEffect DEF ChainInv
  <2>2. ChainTypeOK'
    BY <1>2, <1>5, <2>1 DEF ChainInv, ChainTypeOK
  <2>3. \A u \in Touchpoints : state'[u] = state[u] \/ Fails(u)
    BY <1>1, <2>1 DEF Fails
  <2>4. /\ \A u \in Touchpoints : RunOk(u)'
        /\ \A d \in calls : CallOk(d)'
    BY <1>2, <1>5, <2>2, <2>3, StepKeeps
  <2> QED
    BY <2>1, <2>2, <2>4 DEF ChainInv
<1> QED
  BY <1>4, <1>5 DEF ScheduleNext

LEMMA SettingsRefusedInv ==
  ASSUME ChainInv, NEW c \in calls, SettingsRefused(c)
  PROVE  ChainInv'
<1> DEFINE t == c.touchpoint
<1>1. /\ t \in Touchpoints /\ state \in [Touchpoints -> RunStates]
      /\ calls' = calls \ {c}
      /\ UNCHANGED <<cancelled, max_touchpoints, cancelledIn, emails, late>>
  BY DEF ChainInv, ChainTypeOK, Calls, SettingsRefused, Resumes
<1>2. /\ UNCHANGED <<attempt, picked>>
      /\ \/ UNCHANGED state
         \/ state[t] \in Calling /\ state' = [state EXCEPT ![t] = "FAILED"]
  BY DEF SettingsRefused, Current, Pending, Become, Goto, Calling
<1>3. ChainTypeOK'
  BY <1>1, <1>2 DEF ChainInv, ChainTypeOK, RunStates, Closed
<1>4. \A u \in Touchpoints : state'[u] = state[u] \/ Fails(u)
  BY <1>1, <1>2 DEF Fails
<1>5. /\ \A u \in Touchpoints : RunOk(u)'
      /\ \A d \in calls : CallOk(d)'
  BY <1>1, <1>3, <1>4, StepKeeps
<1> QED
  BY <1>1, <1>3, <1>5 DEF ChainInv

\* The answer of the email takes the run on to the next touchpoint or its end,
\* that of schedule_followup to its end.
LEMMA ReportInv ==
  ASSUME ChainInv, NEW c \in calls, Report(c)
  PROVE  ChainInv'
<1> DEFINE t == c.touchpoint
<1>1. /\ c \in Calls /\ t \in Touchpoints /\ state \in [Touchpoints -> RunStates]
      /\ CallOk(c) /\ c.at = "report" /\ calls' = calls \ {c}
      /\ UNCHANGED <<cancelled, max_touchpoints, cancelledIn, emails, late>>
  BY DEF ChainInv, ChainTypeOK, Calls, Report, Resumes
<1>2. CASE ~Current(c)
  BY <1>1, <1>2 DEF Report, ChainInv, ChainTypeOK, RunOk, CallOk, Configured, EmailFits,
     EmailBehind, Reached, CancelHeld
<1>3. CASE Current(c)
  <2>1. t \in emails /\ cancelledIn[t] \notin {"PENDING", "DRAFTING"} /\ state[t] \in Calling
    BY <1>1, <1>3 DEF CallOk, Current, Pending, Calls, Calling
  <2>2. /\ attempt' \in [Touchpoints -> 0..MaximumAttempts]
        /\ picked' \in [Touchpoints -> 0..MaximumAttempts]
        /\ \/ /\ state' = [state EXCEPT ![t] = "SCHEDULING_NEXT"]
              /\ t < max_touchpoints[t]
              /\ c.activity = "SENDING" /\ state[t] = "SENDING"
           \/ /\ state' = [state EXCEPT ![t] = "COMPLETED"]
              /\ t < max_touchpoints[t] => state[t + 1] # "none"
    <3>1. CASE c.activity = "SENDING"
      <4>1. AfterEmail(t) /\ state[t] = "SENDING"
        BY <1>3, <3>1 DEF Report, Current, Pending
      <4>2. CASE t < max_touchpoints[t]
        BY <1>1, <3>1, <4>1, <4>2, ChainAssumption
           DEF AfterEmail, Await, Goto, ChainInv, ChainTypeOK
      <4>3. CASE ~(t < max_touchpoints[t])
        BY <1>1, <4>1, <4>3 DEF AfterEmail, Become, Goto, ChainInv, ChainTypeOK
      <4> QED
        BY <4>2, <4>3
    <3>2. CASE c.activity # "SENDING"
      <4>1. Become(t, "COMPLETED") /\ c.activity = "SCHEDULING_NEXT"
        BY <1>1, <1>3, <3>2 DEF Report, Calls, Calling
      <4> QED
        BY <1>1, <4>1 DEF Become, Goto, CallOk, ChainInv, ChainTypeOK
    <3> QED
      BY <3>1, <3>2
  <2>3. ChainTypeOK'
    BY <1>1, <2>2 DEF ChainInv, ChainTypeOK, RunStates, Active, Calling, Closed
  <2>4. /\ \A u \in Touchpoints : u # t => state'[u] = state[u]
        /\ \A u \in Touchpoints : state[u] # "none" => state'[u] # "none"
        /\ state'[t] \in {"SCHEDULING_NEXT", "COMPLETED"}
    BY <1>1, <2>2
  <2>5. \A u \in Touchpoints : RunOk(u)'
    <3> SUFFICES ASSUME NEW u \in Touchpoints
                 PROVE  RunOk(u)'
      OBVIOUS
    <3>1. RunOk(u)
      BY DEF ChainInv
    <3>2. u < max_touchpoints[u] => u + 1 \in Touchpoints
      BY Successor DEF ChainInv
    <3>3. CASE u # t
      BY <1>1, <2>4, <3>1, <3>2, <3>3
         DEF RunOk, Configured, EmailFits, EmailBehind, Reached, CancelHeld
    <3>4. CASE u = t
      <4>1. EmailBehind(t)'
        BY <1>1, <2>1, <2>2, <2>4, <3>2, <3>4 DEF EmailBehind
      <4>2. Configured(t)' /\ EmailFits(t)' /\ Reached(t)' /\ CancelHeld(t)'
        BY <1>1, <2>1, <2>4, <3>1, <3>4
           DEF RunOk, Configured, EmailFits, Reached, CancelHeld, Calling, Writing
      <4> QED
        BY <3>4, <4>1, <4>2 DEF RunOk
    <3> QED
      BY <3>3, <3>4
  <2>6. \A d \in calls' : CallOk(d)'
    <3> SUFFICES ASSUME NEW d \in calls
                 PROVE  CallOk(d)'
      BY <1>1
    <3> DEFINE u == d.touchpoint
    <3>1. CallOk(d) /\ u \in Touchpoints
      BY DEF ChainInv, ChainTypeOK, Calls
    <3>2. u < max_touchpoints[u] => u + 1 \in Touchpoints
      BY <3>1, Successor DEF ChainInv
    <3>3. state'[u] \in Writing /\ (state[u] \in Passing => state'[u] \in Passing)
      BY <2>4, <3>1 DEF CallOk, Writing, Passing
    <3> QED
      BY <1>1, <2>4, <3>1, <3>2, <3>3 DEF CallOk
  <2> QED
    BY <2>3, <2>5, <2>6 DEF ChainInv
<1> QED
  BY <1>2, <1>3

LEMMA StartChainInv ==
  ASSUME ChainInv, StartChain
  PROVE  ChainInv'
<1>1. PICK m \in Configs :
        /\ state[1] = "none"
        /\ max_touchpoints' = [max_touchpoints EXCEPT ![1] = m]
        /\ state' = [state EXCEPT ![1] = "PENDING"]
  BY DEF StartChain, StartFollowup, Started
<1>2. UNCHANGED <<cancelled, attempt, picked, cancelledIn, calls, emails, late>>
  BY DEF StartChain
<1>3. 1 \in Touchpoints
  BY ChainAssumption DEF Touchpoints
<1>4. ChainTypeOK'
  BY <1>1, <1>2, <1>3, ChainAssumption DEF ChainInv, ChainTypeOK, RunStates, Active
<1>5. /\ \A u \in Touchpoints : state'[u] = state[u] \/ IsStarted(u)
      /\ \A u \in Touchpoints : state[u] = "none" \/ max_touchpoints'[u] = max_touchpoints[u]
  BY <1>1, <1>3 DEF ChainInv, ChainTypeOK, IsStarted
<1>6. /\ \A u \in Touchpoints : RunOk(u)'
      /\ \A d \in calls : CallOk(d)'
  BY <1>2, <1>4, <1>5, StepKeeps
<1> QED
  BY <1>2, <1>4, <1>6 DEF ChainInv

-----------------------------------------------------------------------------

LEMMA ChainStepInv ==
  ASSUME ChainInv, ChainStep
  PROVE  ChainInv'
<1>1. CASE \E t \in Touchpoints : \/ BeginFollowup(t) \/ DraftReturns(t) \/ CancelFollowup(t)
                                  \/ TakeUp(t) \/ CallTimeout(t)
  BY <1>1, BeginFollowupInv, DraftReturnsInv, CancelFollowupInv, TakeUpInv, CallTimeoutInv
<1>2. CASE \E c \in calls : CallStep(c)
  BY <1>2, WriteEmailInv, ScheduleNextInv, SettingsRefusedInv, ReportInv DEF CallStep
<1>3. CASE ChainCrash
  BY <1>3, ChainCrashInv
<1> QED
  BY <1>1, <1>2, <1>3 DEF ChainStep

LEMMA StutterInv ==
  ASSUME ChainInv, UNCHANGED chainVars
  PROVE  ChainInv'
BY DEF chainVars, runVars, ChainInv, ChainTypeOK, RunOk, CallOk, Configured, EmailFits,
   EmailBehind, Reached, CancelHeld

LEMMA ChainInvariant == ChainSpec => []ChainInv
<1>1. ChainInv /\ [ChainNext]_chainVars => ChainInv'
  BY ChainStepInv, StartChainInv, StutterInv DEF ChainNext
<1> QED
  BY <1>1, InitInv, PTL DEF ChainSpec

\* Every variable of the chain keeps its type.
THEOREM TypeCorrect == ChainSpec => []ChainTypeOK
<1>1. ChainInv => ChainTypeOK
  BY DEF ChainInv
<1> QED
  BY <1>1, ChainInvariant, PTL

LEMMA InvEmailsInOrder == ChainInv => EmailsInOrder
BY DEF ChainInv, RunOk, EmailFits, Reached, EmailsInOrder, Writing

\* No follow-up without the email of the one before it (followup_workflow.py:58-71).
THEOREM OrderIsKept == ChainSpec => []EmailsInOrder
BY InvEmailsInOrder, ChainInvariant, PTL

LEMMA InvWithinConfigured == ChainInv => WithinConfigured
<1>1. \A t \in Touchpoints : t = 1 \/ t > 1
  BY DEF Touchpoints
<1> QED
  BY <1>1 DEF ChainInv, RunOk, Reached, WithinConfigured

\* No follow-up but the first beyond what some configuration allowed
\* (followup_workflow.py:65).
THEOREM LimitIsKept == ChainSpec => []WithinConfigured
BY InvWithinConfigured, ChainInvariant, PTL

LEMMA InvCancelStopsChain == ChainInv => CancelStopsChain
<1> SUFFICES ASSUME ChainInv, NEW t \in Touchpoints,
                    cancelledIn[t] \in {"PENDING", "DRAFTING"}
             PROVE  t \notin emails /\ (t < MaxTouchpoint => state[t + 1] = "none")
  BY DEF CancelStopsChain
<1>1. t \notin emails
  BY DEF ChainInv, RunOk, CancelHeld
<1>2. ASSUME t < MaxTouchpoint
      PROVE  state[t + 1] = "none"
  <2>1. t + 1 \in Touchpoints /\ t + 1 > 1 /\ (t + 1) - 1 = t
    BY <1>2, ChainAssumption DEF Touchpoints
  <2> QED
    BY <1>1, <2>1 DEF ChainInv, RunOk, Reached
<1> QED
  BY <1>1, <1>2

\* A run cancelled before its draft sends nothing and passes nothing on
\* (followup_workflow.py:37-56).
THEOREM CancelIsObeyed == ChainSpec => []CancelStopsChain
BY InvCancelStopsChain, ChainInvariant, PTL

LEMMA InvCompletedPassedOn == ChainInv => CompletedPassedOn
BY DEF ChainInv, RunOk, EmailBehind, CompletedPassedOn

\* A completed run wrote its email and started its successor, if it was to have
\* one (followup_workflow.py:58-75).
THEOREM CompletedIsDone == ChainSpec => []CompletedPassedOn
BY InvCompletedPassedOn, ChainInvariant, PTL

-----------------------------------------------------------------------------
(* For the modules that build on the chain.                                 *)

\* An email that is written stays written, and a step writes one at most.
LEMMA EmailsStay == ChainStep => emails' = emails \/ \E t : emails' = emails \cup {t}
<1> SUFFICES ASSUME ChainStep PROVE emails' = emails \/ \E t : emails' = emails \cup {t}
  OBVIOUS
<1>1. CASE \E t \in Touchpoints : \/ BeginFollowup(t) \/ DraftReturns(t) \/ CancelFollowup(t)
                                  \/ TakeUp(t) \/ CallTimeout(t)
  BY <1>1 DEF BeginFollowup, DraftReturns, CancelFollowup, TakeUp, CallTimeout, Resumes
<1>2. CASE \E c \in calls : CallStep(c)
  BY <1>2 DEF CallStep, WriteEmail, ScheduleNext, SettingsRefused, Report, Resumes
<1>3. CASE ChainCrash
  BY <1>3 DEF ChainCrash
<1> QED
  BY <1>1, <1>2, <1>3 DEF ChainStep

\* The chain does not start itself.
LEMMA NothingBegins ==
  ASSUME ChainInv, ChainStep, \A t \in Touchpoints : state[t] = "none"
  PROVE  UNCHANGED state
<1>1. calls = {}
  BY DEF ChainInv, ChainTypeOK, CallOk, Calls, Writing
<1>2. CASE \E t \in Touchpoints : \/ BeginFollowup(t) \/ DraftReturns(t) \/ CancelFollowup(t)
                                  \/ TakeUp(t) \/ CallTimeout(t)
  BY <1>2 DEF BeginFollowup, DraftReturns, CancelFollowup, TakeUp, CallTimeout, Calling, Active
<1>3. CASE ChainCrash
  BY <1>3 DEF ChainCrash, runVars
<1> QED
  BY <1>1, <1>2, <1>3 DEF ChainStep
=============================================================================
