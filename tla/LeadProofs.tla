----------------------------- MODULE LeadProofs -----------------------------
(***************************************************************************)
(* Theorems about module LeadWorkflow, for any retry policy, any set of    *)
(* policy decisions and any number of attempts that outlive their timeout. *)
(*                                                                         *)
(* The argument: the run only moves forward. An attempt of an activity     *)
(* exists only once the run has reached its state, an attempt that reports *)
(* has left its effect (ExecInv), an effect exists only once its state was *)
(* reached (EffectInv), and each state remembers what it took to get there *)
(* (RunInv). A late attempt can repeat an effect, never bring one forward. *)
(***************************************************************************)
EXTENDS LeadWorkflow, TLAPS

Sending == {"SENDING", "CRM_UPSERTING", "SCHEDULING_FOLLOWUP", "COMPLETED"}
Upserting == {"CRM_UPSERTING", "SCHEDULING_FOLLOWUP", "COMPLETED"}
FollowingUp == {"SCHEDULING_FOLLOWUP", "COMPLETED"}

\* How far the run is when an attempt of k exists.
Reached(k) ==
  /\ k = "draft_email" => state = "DRAFTING" \/ "draft_email" \in runs
  /\ k = "write_outbox_email" => state \in Sending
  /\ k = "write_outbox_crm" => state \in Upserting
  /\ k = "schedule_followup" => state \in FollowingUp /\ input.followups_enabled

\* What an attempt of k leaves behind.
Done(k) ==
  /\ k \in LlmActivities => k \in runs
  /\ k = "write_outbox_email" => "email" \in outbox
  /\ k = "write_outbox_crm" => "crm" \in outbox
  /\ k = "schedule_followup" => followup

ExecInv ==
  \A k \in Activities, n \in Attempts :
    /\ exec[k][n].at # "none" => Reached(k)
    /\ exec[k][n].at = "report" => Done(k)

EffectInv ==
  /\ "email" \in outbox => Reached("write_outbox_email")
  /\ "crm" \in outbox => Reached("write_outbox_crm")
  /\ followup => Reached("schedule_followup")

NeedsReview == qualification.routing = "REQUIRE_REVIEW"
Early == {"PENDING", "QUALIFYING"}

\* What the run has been through when it is in its state.
RunInv ==
  /\ gate # "none" => state = "AWAITING_APPROVAL"
  /\ verdict \in {"COMPLETED", "CANCELLED"} => state = verdict
  /\ state \in {"COMPLETED", "CANCELLED"} => verdict = state
  /\ verdict = "FAILED" => state \in DOMAIN Awaited
  /\ state \in Early => qualification = NoAnswer
  /\ state \notin Early => "qualify_lead" \in runs
  /\ state \in {"DRAFTING"} \cup Sending \/ gate = "approval" => (NeedsReview => approved)
  /\ state \in Sending \/ gate = "approval" => "draft_email" \in runs
  /\ state \in Sending => (input.approval_required => approved)
  /\ state \in Upserting => "email" \in outbox
  /\ state \in FollowingUp => "crm" \in outbox
  /\ state = "SCHEDULING_FOLLOWUP" => input.followups_enabled
  /\ state = "COMPLETED" => (input.followups_enabled => followup)

\* A cancel the run had before its review is still in force after it.
CancelInv ==
  /\ cancelledIn # "never" => cancelled
  /\ NeedsReview /\ cancelledIn \in Early => state = "CANCELLED"

Inv == TypeOK /\ ExecInv /\ EffectInv /\ RunInv /\ CancelInv

-----------------------------------------------------------------------------
(* The attempts, as a table of cells.                                       *)

Cell == [at : Steps, answer : Answers \cup {NoAnswer}]
ExecType == [Activities -> [Attempts -> Cell]]

LEMMA CellUpdate ==
  ASSUME NEW e \in ExecType, NEW k \in Activities, NEW n \in Attempts, NEW c \in Cell
  PROVE  /\ [e EXCEPT ![k][n] = c] \in ExecType
         /\ \A j \in Activities, m \in Attempts :
              [e EXCEPT ![k][n] = c][j][m] = IF j = k /\ m = n THEN c ELSE e[j][m]
BY DEF ExecType

LEMMA AtCell == \A st \in Steps : At(st) \in Cell /\ At(st).at = st
BY DEF At, Cell

LEMMA ExecIsTyped == TypeOK => exec \in ExecType
BY DEF TypeOK, ExecType, Cell

LEMMA Numbers == MaximumAttempts \in Nat /\ 1 \in Attempts
BY LeadAssumption DEF Attempts

LEMMA AwaitedFacts ==
  /\ DOMAIN Awaited = {"QUALIFYING", "DRAFTING", "SENDING", "CRM_UPSERTING",
                       "SCHEDULING_FOLLOWUP"}
  /\ Awaited["QUALIFYING"] = "qualify_lead"
  /\ Awaited["DRAFTING"] = "draft_email"
  /\ Awaited["SENDING"] = "write_outbox_email"
  /\ Awaited["CRM_UPSERTING"] = "write_outbox_crm"
  /\ Awaited["SCHEDULING_FOLLOWUP"] = "schedule_followup"
  /\ \A st \in DOMAIN Awaited : Awaited[st] \in Activities
BY DEF Awaited, Activities

\* e is exec after attempts ended, and nothing else.
Quieter(e) ==
  /\ e \in ExecType
  /\ \A j \in Activities, m \in Attempts :
       \/ e[j][m].at = exec[j][m].at
       \/ e[j][m].at = "over" /\ exec[j][m].at # "none"

LEMMA EndedIsQuieter ==
  ASSUME TypeOK, NEW k \in Activities, NEW n \in Attempts, exec[k][n].at # "none"
  PROVE  Quieter(Ended(k, n))
BY CellUpdate, AtCell, ExecIsTyped DEF Quieter, Ended, Steps

LEMMA ExecIsQuieter == TypeOK => Quieter(exec)
BY ExecIsTyped DEF Quieter

\* Step(k, n, next) moves one attempt.
LEMMA StepMoves ==
  ASSUME TypeOK, NEW k \in Activities, NEW n \in Attempts, NEW next \in Steps,
         Step(k, n, next)
  PROVE  /\ exec' \in ExecType
         /\ \A j \in Activities, m \in Attempts :
              exec'[j][m].at = IF j = k /\ m = n THEN next ELSE exec[j][m].at
<1> DEFINE c == [exec[k][n] EXCEPT !.at = next]
<1>1. exec \in ExecType /\ exec[k][n] \in Cell
  BY ExecIsTyped DEF ExecType
<1>2. c \in Cell /\ c.at = next
  BY <1>1 DEF Cell
<1>3. exec' = [exec EXCEPT ![k][n] = c]
  BY DEF Step
<1> HIDE DEF c
<1>4. \A j \in Activities, m \in Attempts :
        exec'[j][m] = IF j = k /\ m = n THEN c ELSE exec[j][m]
  BY <1>1, <1>2, <1>3, CellUpdate
<1>5. exec' \in ExecType
  BY <1>1, <1>2, <1>3, CellUpdate
<1>6. QED
  BY <1>2, <1>4, <1>5

-----------------------------------------------------------------------------
(* What the ways to change the attempts have in common: an attempt is new   *)
(* only if the run has reached its activity, and reports only what is done. *)

ExecMoves ==
  /\ exec' \in ExecType
  /\ \A j \in Activities, m \in Attempts :
       /\ exec'[j][m].at # "none" => exec[j][m].at # "none" \/ Reached(j)'
       /\ exec'[j][m].at = "report" => exec[j][m].at = "report" \/ Done(j)'

\* The run only moves forward, and nothing that was written is taken back.
Forward ==
  /\ UNCHANGED input
  /\ state = "DRAFTING" => state' = "DRAFTING" \/ "draft_email" \in runs'
  /\ state \in Sending => state' \in Sending
  /\ state \in Upserting => state' \in Upserting
  /\ state \in FollowingUp => state' \in FollowingUp
  /\ outbox \subseteq outbox' /\ runs \subseteq runs' /\ (followup => followup')

LEMMA ExecInvKept ==
  ASSUME Inv, ExecMoves, Forward
  PROVE  ExecInv'
<1> SUFFICES ASSUME NEW k \in Activities, NEW n \in Attempts
             PROVE  (/\ exec[k][n].at # "none" => Reached(k)
                     /\ exec[k][n].at = "report" => Done(k))'
  BY DEF ExecInv
<1>1. Reached(k) => Reached(k)'
  BY DEF Reached, Forward
<1>2. Done(k) => Done(k)'
  BY DEF Done, Forward
<1>3. QED
  BY <1>1, <1>2 DEF ExecMoves, Inv, ExecInv

LEMMA QuieterMoves ==
  ASSUME Quieter(exec') PROVE ExecMoves
BY DEF Quieter, ExecMoves

\* The run awaits an activity it has reached.
LEMMA AwaitMoves ==
  ASSUME NEW ended, Quieter(ended), NEW st \in DOMAIN Awaited, Await(st, ended),
         st = "SCHEDULING_FOLLOWUP" => input'.followups_enabled
  PROVE  ExecMoves
<1>1. Awaited[st] \in Activities /\ 1 \in Attempts /\ ended \in ExecType
  BY AwaitedFacts, Numbers DEF Quieter
<1>2. At("queued") \in Cell /\ At("queued").at = "queued"
  BY AtCell DEF Steps
<1>3. /\ exec' \in ExecType
      /\ \A j \in Activities, m \in Attempts :
           exec'[j][m] = IF j = Awaited[st] /\ m = 1 THEN At("queued") ELSE ended[j][m]
  <2>1. exec' = [ended EXCEPT ![Awaited[st]][1] = At("queued")]
    BY DEF Await
  <2> DEFINE c == At("queued")
             a == Awaited[st]
  <2> HIDE DEF c, a
  <2>2. a \in Activities /\ c \in Cell /\ exec' = [ended EXCEPT ![a][1] = c]
    BY <1>1, <1>2, <2>1 DEF a, c
  <2>3. exec' \in ExecType
    BY <1>1, <2>2, CellUpdate
  <2>4. \A j \in Activities, m \in Attempts :
          exec'[j][m] = IF j = a /\ m = 1 THEN c ELSE ended[j][m]
    BY <1>1, <2>2, CellUpdate
  <2>5. QED
    BY <2>3, <2>4 DEF a, c
<1>4. Reached(Awaited[st])'
  <2>1. state' = st
    BY DEF Await
  <2>2. QED
    BY <2>1, AwaitedFacts DEF Reached, Sending, Upserting, FollowingUp
<1>5. QED
  <2> SUFFICES ASSUME NEW j \in Activities, NEW m \in Attempts
               PROVE  /\ exec'[j][m].at # "none" => exec[j][m].at # "none" \/ Reached(j)'
                      /\ exec'[j][m].at = "report" => exec[j][m].at = "report" \/ Done(j)'
    BY <1>3 DEF ExecMoves
  <2>1. CASE j = Awaited[st] /\ m = 1
    BY <1>2, <1>3, <1>4, <2>1
  <2>2. CASE ~(j = Awaited[st] /\ m = 1)
    BY <1>3, <2>2 DEF Quieter
  <2>3. QED
    BY <2>1, <2>2

\* A retry is of an activity that has an attempt already.
LEMMA RetryMoves ==
  ASSUME TypeOK, NEW ended, Quieter(ended), NEW k \in Activities, NEW n \in Attempts,
         exec[k][n].at # "none", ExecInv, UNCHANGED <<input, state>>, runs \subseteq runs',
         RetryOrFail(n, k, ended)
  PROVE  ExecMoves
<1>1. Reached(k)'
  BY DEF ExecInv, Reached
<1>2. CASE n < MaximumAttempts
  <2>1. n + 1 \in Attempts
    BY <1>2, Numbers DEF Attempts
  <2>2. At("queued") \in Cell /\ At("queued").at = "queued"
    BY AtCell DEF Steps
  <2>3. /\ exec' \in ExecType
        /\ \A j \in Activities, m \in Attempts :
             exec'[j][m] = IF j = k /\ m = n + 1 THEN At("queued") ELSE ended[j][m]
    <3> DEFINE c == At("queued")
               i == n + 1
    <3>1. exec' = [ended EXCEPT ![k][i] = c] /\ ended \in ExecType
      BY <1>2 DEF RetryOrFail, Quieter
    <3>2. i \in Attempts /\ c \in Cell
      BY <2>1, <2>2
    <3> HIDE DEF c, i
    <3>3. exec' \in ExecType
      BY <3>1, <3>2, CellUpdate
    <3>4. \A j \in Activities, m \in Attempts :
            exec'[j][m] = IF j = k /\ m = i THEN c ELSE ended[j][m]
      BY <3>1, <3>2, CellUpdate
    <3>5. QED
      BY <3>3, <3>4 DEF c, i
  <2> SUFFICES ASSUME NEW j \in Activities, NEW m \in Attempts
               PROVE  /\ exec'[j][m].at # "none" => exec[j][m].at # "none" \/ Reached(j)'
                      /\ exec'[j][m].at = "report" => exec[j][m].at = "report" \/ Done(j)'
    BY <2>3 DEF ExecMoves
  <2>4. CASE j = k /\ m = n + 1
    BY <1>1, <2>2, <2>3, <2>4
  <2>5. CASE ~(j = k /\ m = n + 1)
    BY <2>3, <2>5 DEF Quieter
  <2>6. QED
    BY <2>4, <2>5
<1>3. CASE ~(n < MaximumAttempts)
  BY <1>3, QuieterMoves DEF RetryOrFail
<1>4. QED
  BY <1>2, <1>3

\* What is left of a run that an attempt's exception may have failed.
SameRun == /\ UNCHANGED <<input, state, gate, approved, cancelled, qualification>>
           /\ attempt' \in 0..MaximumAttempts
           /\ verdict' = verdict \/ (Running /\ state \in DOMAIN Awaited /\ verdict' = "FAILED")

LEMMA RetryKeepsRun ==
  ASSUME TypeOK, NEW ended, NEW k \in Activities, NEW n \in Attempts, Current(k, n),
         RetryOrFail(n, k, ended),
         UNCHANGED <<input, state, gate, approved, cancelled, qualification>>
  PROVE  SameRun
BY LeadAssumption DEF RetryOrFail, SameRun, Current, TypeOK, Attempts

LEMMA RaiseMoves ==
  ASSUME TypeOK, ExecInv, NEW k \in Activities, NEW n \in Attempts,
         exec[k][n].at # "none", Raise(k, n), runs \subseteq runs'
  PROVE  ExecMoves /\ SameRun
<1>1. Quieter(Ended(k, n))
  BY EndedIsQuieter
<1>2. CASE Current(k, n)
  BY <1>1, <1>2, RetryMoves, RetryKeepsRun DEF Raise
<1>3. CASE ~Current(k, n)
  BY <1>1, <1>3, QuieterMoves DEF Raise, SameRun, TypeOK
<1>4. QED
  BY <1>2, <1>3

-----------------------------------------------------------------------------
(* The steps of attempts.                                                   *)

\* An attempt of k may write the effect of k, and takes nothing back.
EffectStep(k) ==
  /\ row' \in [state : {"PENDING", "QUALIFYING", "QUALIFIED", "DRAFTING", "DRAFTED"},
               qualification : Answers \cup {NoAnswer}]
  /\ outbox' \in SUBSET {"email", "crm"} /\ followup' \in BOOLEAN
  /\ runs' \in SUBSET LlmActivities
  /\ outbox \subseteq outbox' /\ runs \subseteq runs' /\ (followup => followup')
  /\ "email" \in outbox' => "email" \in outbox \/ k = "write_outbox_email"
  /\ "crm" \in outbox' => "crm" \in outbox \/ k = "write_outbox_crm"
  /\ followup' => followup \/ k = "schedule_followup"

\* Nothing an attempt does, early or late, breaks the invariant.
LEMMA AttemptKeeps ==
  ASSUME Inv, NEW k \in Activities, NEW n \in Attempts, exec[k][n].at # "none",
         SameRun, ExecMoves, EffectStep(k), UNCHANGED cancelledIn, zombies' \in Nat
  PROVE  Inv'
<1>1. Forward
  BY DEF SameRun, EffectStep, Forward
<1>2. ExecInv'
  BY <1>1, ExecInvKept
<1>3. Reached(k)
  BY DEF Inv, ExecInv
<1>4. EffectInv'
  BY <1>3 DEF Inv, EffectInv, EffectStep, SameRun, Reached
<1>5. RunInv'
  BY AwaitedFacts DEF Inv, RunInv, EffectStep, SameRun, NeedsReview, Early, Sending,
     Upserting, FollowingUp, Running
<1>6. CancelInv'
  BY DEF Inv, CancelInv, SameRun, NeedsReview, Early
<1>7. TypeOK'
  BY DEF Inv, TypeOK, SameRun, EffectStep, ExecMoves, ExecType, Cell
<1>8. QED
  BY <1>2, <1>4, <1>5, <1>6, <1>7 DEF Inv

LEMMA NoEffect ==
  ASSUME TypeOK, UNCHANGED effects, NEW k \in Activities
  PROVE  EffectStep(k) /\ runs \subseteq runs'
BY DEF TypeOK, effects, EffectStep

LEMMA SameWorkflow == TypeOK /\ UNCHANGED workflow => SameRun
BY DEF TypeOK, workflow, SameRun

\* A step of one attempt, to a report only of what is done.
LEMMA StepExecMoves ==
  ASSUME TypeOK, NEW k \in Activities, NEW n \in Attempts, exec[k][n].at # "none",
         NEW next \in Steps \ {"none"}, Step(k, n, next), ExecInv,
         next = "report" => Done(k)'
  PROVE  ExecMoves /\ SameRun
<1>1. /\ exec' \in ExecType
      /\ \A j \in Activities, m \in Attempts :
           exec'[j][m].at = IF j = k /\ m = n THEN next ELSE exec[j][m].at
  BY StepMoves
<1>2. ExecMoves
  BY <1>1 DEF ExecMoves
<1>3. SameRun
  BY SameWorkflow DEF Step
<1>4. QED
  BY <1>2, <1>3

\* A transaction with effect e, after which the attempt goes on to next.
LEMMA BeginKeeps ==
  ASSUME Inv, NEW k \in Activities, NEW n \in Attempts, Begin(k, n)
  PROVE  Inv'
<1>1. /\ exec[k][n].at # "none" /\ UNCHANGED <<cancelledIn, zombies>>
      /\ TypeOK /\ ExecInv /\ zombies \in Nat
  BY DEF Begin, Inv, TypeOK
<1>2. CASE Raise(k, n) /\ UNCHANGED effects
  BY <1>1, <1>2, RaiseMoves, NoEffect, AttemptKeeps
<1>3. ASSUME k \in LlmActivities, NEW st \in {"QUALIFYING", "DRAFTING"}, update_lead_state(st),
             Step(k, n, "llm") \/ Raise(k, n)
      PROVE  Inv'
  <2>1. EffectStep(k)
    BY <1>1, <1>3 DEF update_lead_state, TypeOK, EffectStep
  <2>2. ExecMoves /\ SameRun
    BY <1>1, <1>3, <2>1, StepExecMoves, RaiseMoves DEF Steps, EffectStep
  <2>3. QED
    BY <1>1, <2>1, <2>2, AttemptKeeps
<1>4. ASSUME k \notin LlmActivities, EffectStep(k), Done(k)',
             Step(k, n, "report") \/ Raise(k, n)
      PROVE  Inv'
  <2>1. ExecMoves /\ SameRun
    BY <1>1, <1>4, StepExecMoves, RaiseMoves DEF Steps, EffectStep
  <2>2. QED
    BY <1>1, <1>4, <2>1, AttemptKeeps
<1>5. CASE k = "qualify_lead"
  BY <1>2, <1>3, <1>5 DEF Begin, Transaction, LlmActivities
<1>6. CASE k = "draft_email"
  BY <1>2, <1>3, <1>6 DEF Begin, Transaction, LlmActivities
<1>7. CASE k = "write_outbox_email"
  <2>1. insert_outbox("email") => EffectStep(k) /\ Done(k)'
    BY <1>1, <1>7 DEF insert_outbox, TypeOK, EffectStep, Done, LlmActivities
  <2>2. QED
    BY <1>2, <1>4, <1>7, <2>1 DEF Begin, Transaction, LlmActivities
<1>8. CASE k = "write_outbox_crm"
  <2>1. insert_outbox("crm") => EffectStep(k) /\ Done(k)'
    BY <1>1, <1>8 DEF insert_outbox, TypeOK, EffectStep, Done, LlmActivities
  <2>2. QED
    BY <1>2, <1>4, <1>8, <2>1 DEF Begin, Transaction, LlmActivities
<1>9. CASE k = "schedule_followup"
  <2>1. followup' = TRUE /\ UNCHANGED <<row, outbox, runs>> => EffectStep(k) /\ Done(k)'
    BY <1>1, <1>9 DEF TypeOK, EffectStep, Done, LlmActivities
  <2>2. QED
    BY <1>2, <1>4, <1>9, <2>1 DEF Begin, schedule_followup, Transaction, LlmActivities
<1>10. QED
  BY <1>5, <1>6, <1>7, <1>8, <1>9 DEF Activities

LEMMA CallLlmKeeps ==
  ASSUME Inv, NEW k \in LlmActivities, NEW n \in Attempts, CallLlm(k, n)
  PROVE  Inv'
<1>1. /\ exec[k][n].at # "none" /\ UNCHANGED <<cancelledIn, zombies, effects>>
      /\ TypeOK /\ ExecInv /\ zombies \in Nat /\ k \in Activities
  BY DEF CallLlm, Inv, TypeOK, LlmActivities, Activities
<1>2. CASE Raise(k, n)
  BY <1>1, <1>2, RaiseMoves, NoEffect, AttemptKeeps
<1>3. ASSUME NEW x \in Answers \cup {NoAnswer}, UNCHANGED workflow,
             exec' = [exec EXCEPT ![k][n] = [at |-> "commit", answer |-> x]]
      PROVE  Inv'
  <2> DEFINE c == [at |-> "commit", answer |-> x]
  <2>1. c \in Cell /\ c.at = "commit" /\ exec \in ExecType
    BY <1>1, ExecIsTyped DEF Cell, Steps
  <2> HIDE DEF c
  <2>2. exec' = [exec EXCEPT ![k][n] = c]
    BY <1>3 DEF c
  <2>3. exec' \in ExecType
    BY <1>1, <2>1, <2>2, CellUpdate
  <2>4. \A j \in Activities, m \in Attempts :
          exec'[j][m] = IF j = k /\ m = n THEN c ELSE exec[j][m]
    BY <1>1, <2>1, <2>2, CellUpdate
  <2>5. ExecMoves
    BY <1>1, <2>1, <2>3, <2>4 DEF ExecMoves
  <2>6. QED
    BY <1>1, <1>3, <2>5, SameWorkflow, NoEffect, AttemptKeeps
<1>4. QED
  BY <1>2, <1>3 DEF CallLlm

LEMMA CommitKeeps ==
  ASSUME Inv, NEW k \in LlmActivities, NEW n \in Attempts, Commit(k, n)
  PROVE  Inv'
<1>1. /\ exec[k][n].at # "none" /\ UNCHANGED <<cancelledIn, zombies>>
      /\ TypeOK /\ ExecInv /\ zombies \in Nat /\ k \in Activities
      /\ exec[k][n].answer \in Answers \cup {NoAnswer}
  BY DEF Commit, Inv, TypeOK, LlmActivities, Activities
<1>2. CASE Raise(k, n) /\ UNCHANGED effects
  BY <1>1, <1>2, RaiseMoves, NoEffect, AttemptKeeps
<1>3. CASE RecordResult(k, n) /\ (Step(k, n, "report") \/ Raise(k, n))
  <2>1. EffectStep(k) /\ Done(k)'
    BY <1>1, <1>3 DEF RecordResult, TypeOK, EffectStep, Done, LlmActivities
  <2>2. ExecMoves /\ SameRun
    BY <1>1, <1>3, <2>1, StepExecMoves, RaiseMoves DEF Steps, EffectStep
  <2>3. QED
    BY <1>1, <2>1, <2>2, AttemptKeeps
<1>4. QED
  BY <1>2, <1>3 DEF Commit, Transaction

LEMMA PickUpKeeps ==
  ASSUME Inv, NEW k \in Activities, NEW n \in Attempts, PickUp(k, n)
  PROVE  Inv'
<1>1. /\ exec[k][n].at # "none" /\ UNCHANGED <<cancelledIn, zombies, effects>>
      /\ TypeOK /\ ExecInv /\ zombies \in Nat
  BY DEF PickUp, Inv, TypeOK
<1>2. ExecMoves /\ SameRun
  BY <1>1, StepExecMoves DEF PickUp, Steps
<1>3. QED
  BY <1>1, <1>2, NoEffect, AttemptKeeps

LEMMA RefusalKeeps ==
  ASSUME Inv, NEW k \in Activities, NEW n \in Attempts, SettingsRefused(k, n)
  PROVE  Inv'
<1>1. /\ exec[k][n].at # "none" /\ UNCHANGED <<cancelledIn, zombies, effects>>
      /\ TypeOK /\ zombies \in Nat
  BY DEF SettingsRefused, Inv, TypeOK
<1>2. ExecMoves
  BY <1>1, EndedIsQuieter, QuieterMoves DEF SettingsRefused
<1>3. SameRun
  BY <1>1 DEF SettingsRefused, SameRun, Current, TypeOK
<1>4. QED
  BY <1>1, <1>2, <1>3, NoEffect, AttemptKeeps

LEMMA TimeoutKeeps ==
  ASSUME Inv, NEW k \in Activities, NEW n \in Attempts, StartToCloseTimeout(k, n)
  PROVE  Inv'
<1>1. /\ exec[k][n].at # "none" /\ UNCHANGED <<cancelledIn, effects>>
      /\ TypeOK /\ ExecInv /\ zombies' \in Nat /\ Current(k, n)
  BY DEF StartToCloseTimeout, Inv, TypeOK
<1>2. Quieter(Ended(k, n)) /\ Quieter(exec)
  BY <1>1, EndedIsQuieter, ExecIsQuieter
<1>3. ExecMoves /\ SameRun
  BY <1>1, <1>2, RetryMoves, RetryKeepsRun DEF StartToCloseTimeout, effects
<1>4. QED
  BY <1>1, <1>3, NoEffect, AttemptKeeps

LEMMA CrashKeeps == ASSUME Inv, WorkerCrash PROVE Inv'
<1>1. /\ UNCHANGED <<cancelledIn, zombies, effects, workflow>> /\ TypeOK
  BY DEF WorkerCrash, Inv
<1>2. Quieter(exec')
  <2>1. exec \in ExecType
    BY <1>1, ExecIsTyped
  <2>2. At("over") \in Cell /\ At("over").at = "over"
    BY AtCell DEF Steps
  <2>3. exec' \in ExecType
    BY <2>1, <2>2 DEF WorkerCrash, ExecType
  <2>4. \A j \in Activities, m \in Attempts :
          exec'[j][m] = IF Alive(j, m) THEN At("over") ELSE exec[j][m]
    BY DEF WorkerCrash
  <2>5. QED
    BY <2>2, <2>3, <2>4 DEF Quieter, Alive
<1>3. ExecMoves /\ Forward
  BY <1>1, <1>2, QuieterMoves DEF Forward, workflow, effects
<1>4. ExecInv'
  BY <1>3, ExecInvKept
<1>5. TypeOK'
  BY <1>1, <1>3 DEF TypeOK, workflow, effects, ExecMoves, ExecType, Cell
<1>6. QED
  BY <1>1, <1>4, <1>5 DEF Inv, EffectInv, RunInv, CancelInv, Reached, NeedsReview, workflow,
     effects

-----------------------------------------------------------------------------
(* The steps of the run: it goes on, waits, or ends.                        *)

\* What a step of the run leaves alone.
RunStep == UNCHANGED <<input, effects, zombies>>

LEMMA RunKeeps ==
  ASSUME Inv, RunStep, ExecMoves, Forward, RunInv', CancelInv',
         state' \in States, gate' \in {"none", "review", "approval"},
         verdict' \in {"running", "COMPLETED", "CANCELLED", "FAILED"},
         approved' \in BOOLEAN, cancelled' \in BOOLEAN,
         qualification' \in Answers \cup {NoAnswer}, attempt' \in 0..MaximumAttempts,
         cancelledIn' \in States \cup {"never"}
  PROVE  Inv'
<1>1. ExecInv'
  BY ExecInvKept
<1>2. EffectInv'
  BY DEF Inv, EffectInv, RunStep, effects, Reached, Forward
<1>3. TypeOK'
  BY DEF Inv, TypeOK, RunStep, effects, ExecMoves, ExecType, Cell
<1>4. QED
  BY <1>1, <1>2, <1>3 DEF Inv

\* The three ways a step of the run can end.
LEMMA RunMoves ==
  ASSUME TypeOK, NEW ended, Quieter(ended), UNCHANGED input
  PROVE  /\ \A st \in DOMAIN Awaited :
              Await(st, ended) /\ (st = "SCHEDULING_FOLLOWUP" => input.followups_enabled)
                => /\ ExecMoves /\ attempt' \in 0..MaximumAttempts
                   /\ state' = st /\ gate' = "none" /\ verdict' = verdict
         /\ \A g : WaitAt(g, ended)
              => /\ ExecMoves /\ attempt' \in 0..MaximumAttempts
                 /\ state' = "AWAITING_APPROVAL" /\ gate' = g /\ verdict' = verdict
         /\ \A status : Return(status, ended)
              => /\ ExecMoves /\ attempt' \in 0..MaximumAttempts
                 /\ state' = status /\ gate' = "none" /\ verdict' = status
<1>1. 1 \in 0..MaximumAttempts /\ attempt \in 0..MaximumAttempts
  BY LeadAssumption DEF TypeOK
<1>2. ASSUME NEW st \in DOMAIN Awaited, Await(st, ended),
             st = "SCHEDULING_FOLLOWUP" => input.followups_enabled
      PROVE  ExecMoves
  BY <1>2, AwaitMoves
<1>3. exec' = ended => ExecMoves
  BY QuieterMoves
<1>4. QED
  BY <1>1, <1>2, <1>3 DEF Await, WaitAt, Return

LEMMA BeginRunKeeps == ASSUME Inv, BeginRun PROVE Inv'
<1>1. /\ Await("QUALIFYING", exec) /\ state = "PENDING" /\ Running /\ RunStep
      /\ UNCHANGED <<input, approved, cancelled, qualification, effects, cancelledIn>>
  BY DEF BeginRun, RunStep
<1>2. /\ ExecMoves /\ attempt' \in 0..MaximumAttempts
      /\ state' = "QUALIFYING" /\ gate' = "none" /\ verdict' = verdict
  BY <1>1, RunMoves, ExecIsQuieter, AwaitedFacts DEF Inv
<1>3. Forward
  BY <1>1, <1>2 DEF Forward, effects, Sending, Upserting, FollowingUp
<1>4. RunInv'
  BY <1>1, <1>2 DEF Inv, RunInv, NeedsReview, Early, Sending, Upserting, FollowingUp,
     effects, Running, NoAnswer
<1>5. CancelInv'
  BY <1>1, <1>2 DEF Inv, CancelInv, RunInv, NeedsReview, Early, NoAnswer
<1>6. QED
  BY <1>1, <1>2, <1>3, <1>4, <1>5, RunKeeps DEF Inv, TypeOK, States, Running

LEMMA GateTimeoutKeeps == ASSUME Inv, GateTimeout PROVE Inv'
<1>1. /\ Return("CANCELLED", exec) /\ gate # "none" /\ Running /\ RunStep
      /\ UNCHANGED <<input, approved, cancelled, qualification, effects, cancelledIn>>
  BY DEF GateTimeout, RunStep
<1>2. /\ ExecMoves /\ attempt' \in 0..MaximumAttempts
      /\ state' = "CANCELLED" /\ gate' = "none" /\ verdict' = "CANCELLED"
  BY <1>1, RunMoves, ExecIsQuieter DEF Inv
<1>3. state = "AWAITING_APPROVAL"
  BY <1>1 DEF Inv, RunInv
<1>4. Forward
  BY <1>1, <1>2, <1>3 DEF Forward, effects, Sending, Upserting, FollowingUp
<1>5. RunInv'
  BY <1>1, <1>2, <1>3 DEF Inv, RunInv, NeedsReview, Early, Sending, Upserting, FollowingUp,
     effects
<1>6. CancelInv'
  BY <1>1, <1>2 DEF Inv, CancelInv, NeedsReview, Early
<1>7. QED
  BY <1>1, <1>2, <1>4, <1>5, <1>6, RunKeeps DEF Inv, TypeOK, States

\* An approval or a cancellation, early or at a gate.
LEMMA SignalsKeep ==
  ASSUME Inv, NEW sent \in SUBSET {"approve", "cancel"}, sent # {}, Signals(sent)
  PROVE  Inv'
<1>1. /\ Running /\ RunStep /\ UNCHANGED <<input, qualification, effects>>
      /\ approved' = (approved \/ "approve" \in sent)
      /\ cancelled' = (cancelled \/ "cancel" \in sent)
      /\ cancelledIn' = IF "cancel" \in sent /\ ~cancelled THEN state ELSE cancelledIn
      /\ approved' \in BOOLEAN /\ cancelled' \in BOOLEAN
      /\ cancelledIn' \in States \cup {"never"}
  BY DEF Signals, RunStep, Inv, TypeOK
<1>2. "approve" \in sent \/ "cancel" \in sent
  OBVIOUS
<1>3. \/ /\ gate = "none" /\ UNCHANGED <<state, gate, verdict, attempt, exec>>
      \/ /\ gate # "none" /\ "cancel" \in sent
         /\ ExecMoves /\ attempt' \in 0..MaximumAttempts
         /\ state' = "CANCELLED" /\ gate' = "none" /\ verdict' = "CANCELLED"
      \/ /\ gate # "none" /\ "approve" \in sent /\ "cancel" \notin sent
         /\ ExecMoves /\ attempt' \in 0..MaximumAttempts
         /\ state' = IF gate = "review" THEN "DRAFTING" ELSE "SENDING"
         /\ gate' = "none" /\ verdict' = verdict
  <2>1. gate \in {"none", "review", "approval"}
    BY DEF Inv, TypeOK
  <2>2. CASE gate = "none"
    BY <2>2 DEF Signals
  <2>3. CASE gate # "none" /\ "cancel" \in sent
    <3>1. Return("CANCELLED", exec)
      BY <2>1, <2>3 DEF Signals, LeaveGate
    <3>2. QED
      BY <1>1, <2>3, <3>1, RunMoves, ExecIsQuieter DEF Inv
  <2>4. CASE gate # "none" /\ "cancel" \notin sent
    <3>1. Await(IF gate = "review" THEN "DRAFTING" ELSE "SENDING", exec)
      BY <2>1, <2>4 DEF Signals, LeaveGate
    <3>2. CASE gate = "review"
      BY <1>1, <1>2, <2>4, <3>1, <3>2, RunMoves, ExecIsQuieter, AwaitedFacts DEF Inv
    <3>3. CASE gate # "review"
      BY <1>1, <1>2, <2>4, <3>1, <3>3, RunMoves, ExecIsQuieter, AwaitedFacts DEF Inv
    <3>4. QED
      BY <3>2, <3>3
  <2>5. QED
    BY <2>2, <2>3, <2>4
<1>4. ExecMoves /\ attempt' \in 0..MaximumAttempts
  <2>1. UNCHANGED exec => ExecMoves
    BY ExecIsTyped DEF ExecMoves, Inv
  <2>2. QED
    BY <1>3, <2>1 DEF Inv, TypeOK
<1>5. gate # "none" => state = "AWAITING_APPROVAL"
  BY DEF Inv, RunInv
<1>6. Forward
  BY <1>1, <1>3, <1>5 DEF Forward, effects, Sending, Upserting, FollowingUp
<1>7. RunInv'
  BY <1>1, <1>3, <1>5 DEF Inv, RunInv, NeedsReview, Early, Sending, Upserting, FollowingUp,
     effects, Running, TypeOK
<1>8. CancelInv'
  <2>1. state # "CANCELLED" /\ cancelled \in BOOLEAN
    BY <1>1 DEF Inv, RunInv, TypeOK, Running
  <2>2. state \in Early => ~NeedsReview
    BY DEF Inv, RunInv, NeedsReview, NoAnswer
  <2>3. NeedsReview' = NeedsReview
    BY <1>1 DEF NeedsReview
  <2>4. CASE "cancel" \in sent
    BY <1>1, <2>1, <2>2, <2>3, <2>4 DEF Inv, CancelInv
  <2>5. CASE "cancel" \notin sent
    BY <1>1, <2>1, <2>3, <2>5 DEF Inv, CancelInv
  <2>6. QED
    BY <2>4, <2>5
<1>9. QED
  BY <1>1, <1>3, <1>4, <1>6, <1>7, <1>8, RunKeeps DEF Inv, TypeOK, States

\* The result of an activity: the run passes a gate, waits at it, or goes on.
LEMMA ReportKeeps ==
  ASSUME Inv, NEW k \in Activities, NEW n \in Attempts, Report(k, n)
  PROVE  Inv'
<1> DEFINE ended == Ended(k, n)
           q == exec[k][n].answer
<1>1. /\ exec[k][n].at = "report" /\ UNCHANGED <<cancelledIn, zombies, effects>>
      /\ TypeOK /\ ExecInv /\ zombies \in Nat /\ q \in Answers \cup {NoAnswer}
  BY DEF Report, Inv, TypeOK
<1>2. CASE ~Current(k, n)
  <2>1. ExecMoves /\ SameRun
    BY <1>1, <1>2, StepExecMoves DEF Report, Steps
  <2>2. QED
    BY <1>1, <2>1, NoEffect, AttemptKeeps
<1>3. CASE Current(k, n)
  <2>1. Resume(k, n, ended)
    BY <1>3 DEF Report
  <2>2. /\ UNCHANGED <<input, approved, cancelled>> /\ RunStep
        /\ Quieter(ended) /\ Running /\ gate = "none"
        /\ qualification' = IF k = "qualify_lead" THEN q ELSE qualification
        /\ Done(k)
    BY <1>1, <1>3, <2>1, EndedIsQuieter DEF Resume, RunStep, Current, ExecInv
  <2>3. /\ k = "qualify_lead" => state = "QUALIFYING"
        /\ k = "draft_email" => state = "DRAFTING"
        /\ k = "write_outbox_email" => state = "SENDING"
        /\ k = "write_outbox_crm" => state = "CRM_UPSERTING"
        /\ k = "schedule_followup" => state = "SCHEDULING_FOLLOWUP"
    BY <1>3, AwaitedFacts DEF Current
  <2> HIDE DEF ended, q
  <2> DEFINE Ends(st) == /\ state' = st /\ gate' = "none"
                         /\ verdict' = IF st \in {"COMPLETED", "CANCELLED"} THEN st ELSE verdict
             Waits(g) == /\ state' = "AWAITING_APPROVAL" /\ gate' = g /\ verdict' = verdict
             Moves == ExecMoves /\ attempt' \in 0..MaximumAttempts
  <2>4. CASE k = "qualify_lead"
    <3>1. /\ Moves
          /\ \/ q.routing # "REQUIRE_REVIEW" /\ Ends("DRAFTING")
             \/ q.routing = "REQUIRE_REVIEW" /\ cancelled /\ Ends("CANCELLED")
             \/ q.routing = "REQUIRE_REVIEW" /\ ~cancelled /\ approved /\ Ends("DRAFTING")
             \/ q.routing = "REQUIRE_REVIEW" /\ ~cancelled /\ Waits("review")
      BY <1>1, <2>1, <2>2, <2>4, RunMoves, AwaitedFacts DEF Resume, ReviewGate, LeaveGate, q
    <3>2. "qualify_lead" \in runs
      BY <2>2, <2>4 DEF Done, LlmActivities
    <3>3. Forward
      BY <2>2, <2>3, <2>4, <3>1 DEF Forward, RunStep, effects, Sending, Upserting, FollowingUp
    <3>4. RunInv'
      BY <2>2, <2>3, <2>4, <3>1, <3>2 DEF Inv, RunInv, NeedsReview, Early, Sending, Upserting,
         FollowingUp, RunStep, effects, Running
    <3>5. CancelInv'
      BY <1>1, <2>2, <2>4, <3>1 DEF Inv, CancelInv, NeedsReview, Early
    <3>6. QED
      BY <1>1, <2>2, <2>4, <3>1, <3>3, <3>4, <3>5, RunKeeps DEF Inv, TypeOK, States
  <2>5. CASE k = "draft_email"
    <3>1. /\ Moves
          /\ \/ (input.approval_required => approved) /\ Ends("SENDING")
             \/ Ends("CANCELLED")
             \/ Waits("approval")
      BY <1>1, <2>1, <2>2, <2>5, RunMoves, AwaitedFacts DEF Resume, ApprovalGate
    <3>2. "draft_email" \in runs
      BY <2>2, <2>5 DEF Done, LlmActivities
    <3>3. Forward
      BY <2>2, <2>3, <2>5, <3>1, <3>2 DEF Forward, RunStep, effects, Sending, Upserting, FollowingUp
    <3>4. RunInv'
      BY <2>2, <2>3, <2>5, <3>1, <3>2 DEF Inv, RunInv, NeedsReview, Early, Sending, Upserting,
         FollowingUp, RunStep, effects, Running
    <3>5. CancelInv'
      BY <1>1, <2>2, <2>3, <2>5, <3>1 DEF Inv, CancelInv, NeedsReview, Early
    <3>6. QED
      BY <1>1, <2>2, <2>5, <3>1, <3>3, <3>4, <3>5, RunKeeps DEF Inv, TypeOK, States
  <2>6. CASE k \in {"write_outbox_email", "write_outbox_crm", "schedule_followup"}
    <3>1. /\ Moves
          /\ \/ k = "write_outbox_email" /\ Ends("CRM_UPSERTING")
             \/ /\ k = "write_outbox_crm" /\ input.followups_enabled
                /\ Ends("SCHEDULING_FOLLOWUP")
             \/ k = "write_outbox_crm" /\ ~input.followups_enabled /\ Ends("COMPLETED")
             \/ k = "schedule_followup" /\ Ends("COMPLETED")
      BY <1>1, <2>1, <2>2, <2>6, RunMoves, AwaitedFacts DEF Resume
    <3>2. /\ k = "write_outbox_email" => "email" \in outbox
          /\ k = "write_outbox_crm" => "crm" \in outbox
          /\ k = "schedule_followup" => followup
      BY <2>2 DEF Done
    <3>3. Forward
      BY <2>2, <2>3, <2>6, <3>1 DEF Forward, RunStep, effects, Sending, Upserting, FollowingUp
    <3>4. RunInv'
      BY <2>2, <2>3, <2>6, <3>1, <3>2 DEF Inv, RunInv, NeedsReview, Early, Sending, Upserting,
         FollowingUp, RunStep, effects, Running
    <3>5. CancelInv'
      BY <1>1, <2>2, <2>3, <2>6, <3>1 DEF Inv, CancelInv, NeedsReview, Early
    <3>6. QED
      BY <1>1, <2>2, <2>6, <3>1, <3>3, <3>4, <3>5, RunKeeps DEF Inv, TypeOK, States
  <2>7. QED
    BY <2>4, <2>5, <2>6 DEF Activities
<1>4. QED
  BY <1>2, <1>3

-----------------------------------------------------------------------------
(* The invariant holds, and the properties with it.                         *)

LEMMA InvInit == Init => Inv
<1> SUFFICES ASSUME Init PROVE Inv
  OBVIOUS
<1>1. At("none") \in Cell /\ At("none").at = "none"
  BY AtCell DEF Steps
<1>2. exec \in ExecType /\ \A k \in Activities, n \in Attempts : exec[k][n].at = "none"
  BY <1>1 DEF Init, ExecType
<1>3. TypeOK
  <2>1. exec \in [Activities -> [Attempts -> [at : Steps, answer : Answers \cup {NoAnswer}]]]
    BY <1>2 DEF ExecType, Cell
  <2>2. row \in [state : {"PENDING", "QUALIFYING", "QUALIFIED", "DRAFTING", "DRAFTED"},
                qualification : Answers \cup {NoAnswer}]
    BY DEF Init
  <2>3. 0 \in 0..MaximumAttempts
    BY LeadAssumption
  <2>4. QED
    BY <2>1, <2>2, <2>3 DEF Init, TypeOK, States
<1>4. QED
  BY <1>2, <1>3 DEF Init, Inv, ExecInv, EffectInv, RunInv, CancelInv, Early, Sending,
     Upserting, FollowingUp

LEMMA InvNext == Inv /\ [Next]_vars => Inv'
<1> SUFFICES ASSUME Inv, [Next]_vars PROVE Inv'
  OBVIOUS
<1>1. CASE UNCHANGED vars
  BY <1>1 DEF vars, workflow, effects, Inv, TypeOK, ExecInv, EffectInv, RunInv, CancelInv,
     Reached, Done, NeedsReview
<1>2. ASSUME NEW k \in Activities, NEW n \in Attempts, AttemptStep(k, n) PROVE Inv'
  BY <1>2, PickUpKeeps, BeginKeeps, RefusalKeeps, ReportKeeps, CallLlmKeeps, CommitKeeps
     DEF AttemptStep
<1>3. QED
  BY <1>1, <1>2, BeginRunKeeps, SignalsKeep, GateTimeoutKeeps, CrashKeeps, TimeoutKeeps
     DEF Next

\* The run only moves forward, and attempts stay behind it.
THEOREM InvAlways == Spec => []Inv
BY InvInit, InvNext, PTL DEF Spec

\* Every variable keeps its type.
THEOREM TypeCorrect == Spec => []TypeOK
<1>1. Inv => TypeOK
  BY DEF Inv
<1>2. QED
  BY <1>1, InvAlways, PTL

\* No email intent without the approval that was asked for, whatever the retry
\* policy and however many attempts outlive their timeout
\* (lead_workflow.py:45-94).
THEOREM EmailIsApproved == Spec => []EmailNeedsApproval
<1>1. Inv => EmailNeedsApproval
  BY DEF Inv, EffectInv, RunInv, Reached, NeedsReview, EmailNeedsApproval
<1>2. QED
  BY <1>1, InvAlways, PTL

\* A cancelled run left no intent and no follow-up (lead_workflow.py:53-60, 79-86).
THEOREM CancelledIsClean == Spec => []CancelledLeavesNothing
<1>1. Inv => CancelledLeavesNothing
  BY DEF Inv, TypeOK, EffectInv, RunInv, Reached, Sending, Upserting, FollowingUp,
     CancelledLeavesNothing
<1>2. QED
  BY <1>1, InvAlways, PTL

\* A completed run did everything it was asked for (lead_workflow.py:88-114).
THEOREM CompletedIsDone == Spec => []CompletedDidAll
<1>1. Inv => CompletedDidAll
  BY DEF Inv, TypeOK, EffectInv, RunInv, Reached, Sending, Upserting, FollowingUp, Early,
     LlmActivities, CompletedDidAll
<1>2. QED
  BY <1>1, InvAlways, PTL

\* A cancel that came before the review beats every approval
\* (lead_workflow.py:45-60).
THEOREM CancelIsFinal == Spec => []CancelBeatsReview
<1>1. Inv => CancelBeatsReview
  BY DEF Inv, TypeOK, EffectInv, RunInv, CancelInv, Reached, NeedsReview, Early, Sending,
     Upserting, CancelBeatsReview
<1>2. QED
  BY <1>1, InvAlways, PTL

\* Email before CRM before follow-up, even from attempts the server gave up
\* (lead_workflow.py:88-111).
THEOREM OrderIsKept == Spec => []EffectsInOrder
<1>1. Inv => EffectsInOrder
  BY DEF Inv, EffectInv, RunInv, Reached, EffectsInOrder
<1>2. QED
  BY <1>1, InvAlways, PTL

-----------------------------------------------------------------------------
(* Who writes what, and when.                                               *)

\* Only attempts write, each the effect of its own activity.
LEMMA AttemptWrites ==
  ASSUME NEW k \in Activities, NEW n \in Attempts, AttemptStep(k, n)
  PROVE  /\ outbox' # outbox
              => \/ k = "write_outbox_email" /\ outbox' = outbox \cup {"email"}
                 \/ k = "write_outbox_crm" /\ outbox' = outbox \cup {"crm"}
         /\ followup' # followup => k = "schedule_followup" /\ ~followup /\ followup'
         /\ runs' # runs => k \in LlmActivities /\ runs' = runs \cup {k}
         /\ UNCHANGED effects \/ exec[k][n].at # "none"
<1>1. CASE PickUp(k, n) \/ SettingsRefused(k, n) \/ Report(k, n) \/ CallLlm(k, n)
  BY <1>1 DEF PickUp, SettingsRefused, Report, CallLlm, effects
<1>2. CASE k \in LlmActivities /\ Commit(k, n)
  BY <1>2 DEF Commit, Transaction, RecordResult, effects
<1>3. CASE Begin(k, n)
  <2>1. CASE UNCHANGED effects
    BY <2>1 DEF effects
  <2>2. CASE k \in LlmActivities /\ ~UNCHANGED effects
    <3>1. \E st : update_lead_state(st)
      BY <1>3, <2>2 DEF Begin, Transaction, LlmActivities
    <3>2. UNCHANGED <<outbox, followup, runs>> /\ exec[k][n].at # "none"
      BY <1>3, <3>1 DEF Begin, update_lead_state
    <3> QED
      BY <3>2
  <2>3. CASE k = "write_outbox_email" /\ ~UNCHANGED effects
    BY <1>3, <2>3 DEF Begin, Transaction, insert_outbox
  <2>4. CASE k = "write_outbox_crm" /\ ~UNCHANGED effects
    BY <1>3, <2>4 DEF Begin, Transaction, insert_outbox
  <2>5. CASE k = "schedule_followup" /\ ~UNCHANGED effects
    BY <1>3, <2>5 DEF Begin, Transaction, schedule_followup
  <2> QED
    BY <2>1, <2>2, <2>3, <2>4, <2>5 DEF Activities, LlmActivities
<1> QED
  BY <1>1, <1>2, <1>3 DEF AttemptStep

LEMMA OnlyAttemptsWrite ==
  ASSUME [Next]_vars, ~UNCHANGED effects
  PROVE  \E k \in Activities, n \in Attempts : AttemptStep(k, n)
BY DEF Next, BeginRun, GateTimeout, WorkerCrash, Signals, StartToCloseTimeout, vars

\* However many attempts outlive their timeout, a closed run gets no intent, no
\* follow-up and no new step in the ledger but what it was waiting for when it
\* failed (qualify.py:126-154, outbox.py).
THEOREM LateIsItsOwn == Spec => LateEffectsAreItsOwn
<1> DEFINE ItsOwn ==
       /\ outbox' # outbox =>
            /\ verdict = "FAILED"
            /\ \/ outbox' = outbox \cup {"email"} /\ state = "SENDING"
               \/ outbox' = outbox \cup {"crm"} /\ state = "CRM_UPSERTING"
       /\ followup' # followup => verdict = "FAILED" /\ state = "SCHEDULING_FOLLOWUP"
       /\ runs' # runs => verdict = "FAILED" /\ state \in {"QUALIFYING", "DRAFTING"}
<1>1. Inv /\ [Next]_vars => [verdict # "running" => ItsOwn]_vars
  <2> SUFFICES ASSUME Inv, [Next]_vars, verdict # "running", ~UNCHANGED effects
               PROVE  ItsOwn
    BY DEF effects
  <2>1. PICK k \in Activities, n \in Attempts : AttemptStep(k, n)
    BY OnlyAttemptsWrite
  <2>2. exec[k][n].at # "none" /\ Reached(k)
    BY <2>1, AttemptWrites DEF Inv, ExecInv
  <2>3. /\ verdict \in {"COMPLETED", "CANCELLED", "FAILED"}
        /\ state \in {"PENDING", "AWAITING_APPROVAL"} => verdict # "FAILED"
        /\ verdict # "FAILED" => state \in {"COMPLETED", "CANCELLED"}
        /\ state \in {"COMPLETED", "CANCELLED"} => verdict # "FAILED"
    BY AwaitedFacts DEF Inv, TypeOK, RunInv
  <2>4. ASSUME outbox' # outbox
        PROVE  /\ verdict = "FAILED"
               /\ \/ outbox' = outbox \cup {"email"} /\ state = "SENDING"
                  \/ outbox' = outbox \cup {"crm"} /\ state = "CRM_UPSERTING"
    <3>1. \/ k = "write_outbox_email" /\ outbox' = outbox \cup {"email"} /\ "email" \notin outbox
          \/ k = "write_outbox_crm" /\ outbox' = outbox \cup {"crm"} /\ "crm" \notin outbox
      BY <2>1, <2>4, AttemptWrites
    <3> QED
      BY <2>2, <2>3, <3>1 DEF Reached, Inv, RunInv, Sending, Upserting, FollowingUp
  <2>5. ASSUME followup' # followup
        PROVE  verdict = "FAILED" /\ state = "SCHEDULING_FOLLOWUP"
    <3>1. k = "schedule_followup" /\ ~followup
      BY <2>1, <2>5, AttemptWrites
    <3> QED
      BY <2>2, <2>3, <3>1 DEF Reached, Inv, RunInv, FollowingUp
  <2>6. ASSUME runs' # runs
        PROVE  verdict = "FAILED" /\ state \in {"QUALIFYING", "DRAFTING"}
    <3>1. k \in {"qualify_lead", "draft_email"} /\ k \notin runs
      BY <2>1, <2>6, AttemptWrites DEF LlmActivities
    <3> QED
      BY <2>2, <2>3, <3>1 DEF Reached, Inv, RunInv, Early
  <2> QED
    BY <2>4, <2>5, <2>6
<1> QED
  BY <1>1, InvAlways, PTL DEF Spec, LateEffectsAreItsOwn

-----------------------------------------------------------------------------
(* For the modules that build on the lead workflow.                         *)

\* What is written stays written, and a transaction writes one intent at most.
LEMMA EffectsStay ==
  Next => /\ outbox' = outbox \/ \E i : outbox' = outbox \cup {i}
          /\ followup => followup'
<1> SUFFICES ASSUME Next
             PROVE  /\ outbox' = outbox \/ \E i : outbox' = outbox \cup {i}
                    /\ followup => followup'
  OBVIOUS
<1>1. CASE UNCHANGED effects
  BY <1>1 DEF effects
<1>2. CASE ~UNCHANGED effects
  <2>1. PICK k \in Activities, n \in Attempts : AttemptStep(k, n)
    BY <1>2, OnlyAttemptsWrite
  <2>2. outbox' = outbox \/ \E i : outbox' = outbox \cup {i}
    BY <2>1, AttemptWrites
  <2>3. followup => followup'
    BY <2>1, AttemptWrites
  <2> QED
    BY <2>2, <2>3
<1> QED
  BY <1>1, <1>2
=============================================================================
