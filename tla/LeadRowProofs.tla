--------------------------- MODULE LeadRowProofs ---------------------------
(***************************************************************************)
(* What module LeadWorkflow promises as long as no attempt outlives its    *)
(* start_to_close_timeout (zombies = 0), for any retry policy.             *)
(*                                                                         *)
(* The argument: then the only attempt there is, is the one the run waits  *)
(* for (SoloInv). So nobody overwrites lead_state between an attempt's     *)
(* transaction and its report (RowInv).                                    *)
(***************************************************************************)
EXTENDS LeadProofs

Busy(k, n) == exec[k][n].at \notin {"none", "over"}

SoloInv ==
  zombies = 0 => \A k \in Activities, n \in Attempts : Busy(k, n) => Current(k, n)

Drafted == state \in Sending \/ gate = "approval"

RowInv ==
  zombies = 0 =>
    /\ \A n \in Attempts :
         /\ exec["qualify_lead"][n].at = "report"
              => row.qualification = exec["qualify_lead"][n].answer
         /\ exec["draft_email"][n].at = "report" => row.state = "DRAFTED"
    /\ state \notin Early => row.qualification = qualification
    /\ Drafted => row.state = "DRAFTED"

SoloRow == Inv /\ SoloInv /\ RowInv

-----------------------------------------------------------------------------
(* How the table of attempts changes.                                       *)

\* No attempt left in e.
Idle(e) == \A j \in Activities, m \in Attempts : e[j][m].at \in {"none", "over"}

LEMMA EndedCells ==
  ASSUME TypeOK, NEW k \in Activities, NEW n \in Attempts
  PROVE  \A j \in Activities, m \in Attempts :
           Ended(k, n)[j][m] = IF j = k /\ m = n THEN At("over") ELSE exec[j][m]
<1> DEFINE c == At("over")
<1>1. c \in Cell /\ exec \in ExecType
  BY AtCell, ExecIsTyped DEF Steps
<1>2. Ended(k, n) = [exec EXCEPT ![k][n] = c]
  BY DEF Ended
<1> HIDE DEF c
<1>3. QED
  BY <1>1, <1>2, CellUpdate DEF c

\* The one attempt the run waits for ends, and with it all of them.
LEMMA EndedIsIdle ==
  ASSUME TypeOK, SoloInv, zombies = 0, NEW k \in Activities, NEW n \in Attempts, Current(k, n)
  PROVE  Idle(Ended(k, n))
<1> SUFFICES ASSUME NEW j \in Activities, NEW m \in Attempts
             PROVE  Ended(k, n)[j][m].at \in {"none", "over"}
  BY DEF Idle
<1>1. At("over").at = "over"
  BY AtCell DEF Steps
<1>2. CASE j = k /\ m = n
  BY <1>1, <1>2, EndedCells
<1>3. CASE ~(j = k /\ m = n)
  <2>1. ~Current(j, m)
    BY <1>3 DEF Current
  <2>2. QED
    BY <1>3, <2>1, EndedCells DEF SoloInv, Busy
<1>4. QED
  BY <1>2, <1>3

\* A cell of a table of attempts is queued, and the run waits for it.
LEMMA QueuedIsSolo ==
  ASSUME NEW e \in ExecType, Idle(e), NEW k \in Activities, NEW n \in Attempts,
         exec' = [e EXCEPT ![k][n] = At("queued")], Current(k, n)'
  PROVE  /\ SoloInv'
         /\ \A j \in Activities, m \in Attempts : exec'[j][m].at # "report"
<1> DEFINE c == At("queued")
<1>1. c \in Cell /\ c.at = "queued" /\ exec' = [e EXCEPT ![k][n] = c]
  BY AtCell DEF Steps
<1> HIDE DEF c
<1>2. \A j \in Activities, m \in Attempts :
        exec'[j][m] = IF j = k /\ m = n THEN c ELSE e[j][m]
  BY <1>1, CellUpdate
<1>3. QED
  BY <1>1, <1>2 DEF SoloInv, Busy, Idle

LEMMA IdleIsSolo ==
  ASSUME NEW e, Idle(e), exec' = e
  PROVE  /\ SoloInv'
         /\ \A j \in Activities, m \in Attempts : exec'[j][m].at # "report"
BY DEF SoloInv, Busy, Idle

LEMMA AwaitIsSolo ==
  ASSUME NEW e \in ExecType, Idle(e), NEW st \in DOMAIN Awaited, Await(st, e), Running
  PROVE  /\ SoloInv'
         /\ \A j \in Activities, m \in Attempts : exec'[j][m].at # "report"
<1>1. Awaited[st] \in Activities /\ 1 \in Attempts
  BY AwaitedFacts, Numbers
<1>2. /\ exec' = [e EXCEPT ![Awaited[st]][1] = At("queued")]
      /\ state' = st /\ gate' = "none" /\ attempt' = 1 /\ verdict' = "running"
  BY DEF Await, Running
<1>3. Current(Awaited[st], 1)'
  BY <1>2 DEF Current, Running
<1>4. QED
  BY <1>1, <1>2, <1>3, QueuedIsSolo

\* A retry is the only attempt, and no attempt is left of a run that fails.
LEMMA RetryIsSolo ==
  ASSUME TypeOK, SoloInv, zombies = 0, NEW k \in Activities, NEW n \in Attempts,
         Current(k, n), RetryOrFail(n, k, Ended(k, n)), UNCHANGED <<state, gate>>
  PROVE  /\ SoloInv'
         /\ \A j \in Activities, m \in Attempts : exec'[j][m].at # "report"
<1>1. Idle(Ended(k, n))
  BY EndedIsIdle
<1>2. Ended(k, n) \in ExecType
  <2> DEFINE c == At("over")
  <2>1. c \in Cell /\ exec \in ExecType /\ Ended(k, n) = [exec EXCEPT ![k][n] = c]
    BY AtCell, ExecIsTyped DEF Steps, Ended
  <2> HIDE DEF c
  <2>2. [exec EXCEPT ![k][n] = c] \in ExecType
    BY <2>1, CellUpdate
  <2>3. QED
    BY <2>1, <2>2
<1>3. CASE n < MaximumAttempts
  <2>1. n + 1 \in Attempts /\ attempt' = n + 1 /\ verdict' = verdict
    BY <1>3, Numbers DEF Attempts, RetryOrFail
  <2>2. Current(k, n + 1)'
    BY <2>1 DEF Current, Running
  <2>3. exec' = [Ended(k, n) EXCEPT ![k][n + 1] = At("queued")]
    BY <1>3 DEF RetryOrFail
  <2>4. QED
    BY <1>1, <1>2, <2>1, <2>2, <2>3, QueuedIsSolo
<1>4. CASE ~(n < MaximumAttempts)
  BY <1>1, <1>4, IdleIsSolo DEF RetryOrFail
<1>5. QED
  BY <1>3, <1>4

LEMMA RaiseIsSolo ==
  ASSUME TypeOK, SoloInv, zombies = 0, NEW k \in Activities, NEW n \in Attempts,
         Busy(k, n), Raise(k, n)
  PROVE  /\ SoloInv' /\ UNCHANGED <<state, gate, qualification>>
         /\ \A j \in Activities, m \in Attempts : exec'[j][m].at # "report"
<1>1. Current(k, n)
  BY DEF SoloInv
<1>2. QED
  BY <1>1, RetryIsSolo DEF Raise

\* One attempt moves on.
LEMMA StepIsSolo ==
  ASSUME TypeOK, SoloInv, zombies = 0, zombies' = 0, NEW k \in Activities, NEW n \in Attempts,
         Busy(k, n), NEW c \in Cell, exec' = [exec EXCEPT ![k][n] = c], UNCHANGED workflow
  PROVE  /\ SoloInv' /\ UNCHANGED <<state, gate, qualification>>
         /\ Current(k, n)
         /\ exec'[k][n] = c
         /\ \A j \in Activities, m \in Attempts :
              exec'[j][m].at = "report" => j = k /\ m = n
<1>1. \A j \in Activities, m \in Attempts :
        exec'[j][m] = IF j = k /\ m = n THEN c ELSE exec[j][m]
  BY ExecIsTyped, CellUpdate
<1>2. \A j \in Activities, m \in Attempts : Current(j, m)' = Current(j, m)
  BY DEF workflow, Current, Running
<1>3. Current(k, n)
  BY DEF SoloInv
<1>4. SoloInv'
  BY <1>1, <1>2, <1>3 DEF SoloInv, Busy
<1>5. \A j \in Activities, m \in Attempts : ~(j = k /\ m = n) => exec[j][m].at # "report"
  BY <1>3 DEF SoloInv, Busy, Current
<1>6. QED
  BY <1>1, <1>3, <1>4, <1>5 DEF workflow

\* Step sets the place of an attempt and keeps its answer.
LEMMA StepCell ==
  ASSUME TypeOK, NEW k \in Activities, NEW n \in Attempts, NEW next \in Steps, Step(k, n, next)
  PROVE  \E c \in Cell : /\ exec' = [exec EXCEPT ![k][n] = c]
                         /\ c.at = next /\ c.answer = exec[k][n].answer
<1> DEFINE c == [exec[k][n] EXCEPT !.at = next]
<1>1. exec[k][n] \in Cell
  BY ExecIsTyped DEF ExecType
<1>2. c \in Cell /\ c.at = next /\ c.answer = exec[k][n].answer
  BY <1>1 DEF Cell
<1>3. exec' = [exec EXCEPT ![k][n] = c]
  BY DEF Step
<1>4. QED
  BY <1>2, <1>3
-----------------------------------------------------------------------------
(* Each step keeps the row in agreement with the run.                       *)

\* What a step of an attempt may do to the row before the run hears of it: an
\* attempt of qualify_lead has the run in QUALIFYING, one of draft_email in
\* DRAFTING, where the row's state, or all of it, is still open.
LEMMA RowKept ==
  ASSUME Inv, RowInv, zombies = 0,
         UNCHANGED <<state, gate, qualification>>,
         \A n \in Attempts :
           /\ exec'["qualify_lead"][n].at = "report"
                => row'.qualification = exec'["qualify_lead"][n].answer
           /\ exec'["draft_email"][n].at = "report" => row'.state = "DRAFTED",
         state \notin Early => row'.qualification = row.qualification,
         Drafted => row'.state = row.state
  PROVE  RowInv'
BY DEF RowInv, Drafted

\* A step that leaves the row alone and brings no new report of an LLM step.
LEMMA RowUntouched ==
  ASSUME Inv, RowInv, zombies = 0, UNCHANGED <<state, gate, qualification, row>>,
         \A j \in LlmActivities, m \in Attempts :
           exec'[j][m].at = "report" => exec'[j][m] = exec[j][m]
  PROVE  RowInv'
<1>1. \A n \in Attempts :
           /\ exec'["qualify_lead"][n].at = "report"
                => row'.qualification = exec'["qualify_lead"][n].answer
           /\ exec'["draft_email"][n].at = "report" => row'.state = "DRAFTED"
  BY DEF RowInv, LlmActivities
<1>2. QED
  BY <1>1, RowKept

\* The attempt of an LLM step that runs tells where the run is.
LEMMA WhereItIs ==
  ASSUME NEW k \in LlmActivities, NEW n \in Attempts, Current(k, n)
  PROVE  /\ ~Drafted
         /\ k = "qualify_lead" => state \in Early
BY AwaitedFacts DEF Current, Drafted, Sending, Early, LlmActivities

\* An attempt raised, with or without the effect of its transaction.
LEMMA RaisedKeeps ==
  ASSUME SoloRow, zombies = 0, NEW k \in Activities, NEW n \in Attempts, Busy(k, n),
         Raise(k, n),
         UNCHANGED row \/ /\ k \in LlmActivities
                          /\ k = "draft_email" => row'.qualification = row.qualification
  PROVE  SoloInv' /\ RowInv'
<1>1. /\ SoloInv' /\ UNCHANGED <<state, gate, qualification>>
      /\ \A j \in Activities, m \in Attempts : exec'[j][m].at # "report"
  BY RaiseIsSolo DEF SoloRow, Inv
<1>2. "qualify_lead" \in Activities /\ "draft_email" \in Activities
  BY DEF Activities
<1>3. Current(k, n)
  BY DEF SoloRow, SoloInv
<1>4. /\ state \notin Early => row'.qualification = row.qualification
      /\ Drafted => row'.state = row.state
  BY <1>3, WhereItIs DEF LlmActivities
<1>5. QED
  BY <1>1, <1>2, <1>4, RowKept DEF SoloRow

LEMMA BusyAt ==
  \A k \in Activities, n \in Attempts :
    exec[k][n].at \in {"queued", "begin", "llm", "commit", "report"} => Busy(k, n)
BY DEF Busy

\* An attempt moved on to next, which is no report.
LEMMA MovedKeeps ==
  ASSUME SoloRow, zombies = 0, zombies' = 0, NEW k \in Activities, NEW n \in Attempts,
         Busy(k, n), NEW next \in {"begin", "llm", "over"}, Step(k, n, next),
         UNCHANGED row \/ /\ k \in LlmActivities
                          /\ row'.qualification = row.qualification
  PROVE  SoloInv' /\ RowInv'
<1>1. PICK c \in Cell : /\ exec' = [exec EXCEPT ![k][n] = c]
                        /\ c.at = next /\ c.answer = exec[k][n].answer
  BY StepCell DEF SoloRow, Inv, Steps
<1> TypeOK /\ SoloInv /\ UNCHANGED workflow
  BY DEF SoloRow, Inv, Step
<1>2. /\ SoloInv' /\ UNCHANGED <<state, gate, qualification>>
      /\ Current(k, n) /\ exec'[k][n] = c
      /\ \A j \in Activities, m \in Attempts : exec'[j][m].at = "report" => j = k /\ m = n
  BY <1>1, StepIsSolo
<1>3. \A j \in Activities, m \in Attempts : exec'[j][m].at # "report"
  BY <1>1, <1>2
<1>4. "qualify_lead" \in Activities /\ "draft_email" \in Activities
  BY DEF Activities
<1>5. /\ state \notin Early => row'.qualification = row.qualification
      /\ Drafted => row'.state = row.state
  BY <1>2, WhereItIs
<1>6. QED
  BY <1>2, <1>3, <1>4, <1>5, RowKept DEF SoloRow

\* An attempt that writes an intent or starts the follow-up goes on to report it.
LEMMA WroteKeeps ==
  ASSUME SoloRow, zombies = 0, zombies' = 0, NEW k \in Activities \ LlmActivities,
         NEW n \in Attempts, Busy(k, n), Step(k, n, "report"), UNCHANGED row
  PROVE  SoloInv' /\ RowInv'
<1>1. PICK c \in Cell : exec' = [exec EXCEPT ![k][n] = c]
  BY StepCell DEF SoloRow, Inv, Steps
<1> TypeOK /\ SoloInv /\ UNCHANGED workflow
  BY DEF SoloRow, Inv, Step
<1>2. /\ SoloInv' /\ UNCHANGED <<state, gate, qualification>>
      /\ \A j \in Activities, m \in Attempts : exec'[j][m].at = "report" => j = k /\ m = n
  BY <1>1, StepIsSolo
<1>3. \A j \in LlmActivities, m \in Attempts : exec'[j][m].at # "report"
  BY <1>2 DEF LlmActivities, Activities
<1>4. QED
  BY <1>2, <1>3, RowUntouched DEF SoloRow

LEMMA BeginKeepsRow ==
  ASSUME SoloRow, zombies = 0, NEW k \in Activities, NEW n \in Attempts, Begin(k, n)
  PROVE  SoloInv' /\ RowInv'
<1>1. Busy(k, n) /\ zombies' = 0
  BY BusyAt DEF Begin
<1>2. CASE Raise(k, n) /\ UNCHANGED effects
  BY <1>1, <1>2, RaisedKeeps DEF effects
<1>3. CASE k \in LlmActivities
  <2>1. row \in [state : {"PENDING", "QUALIFYING", "QUALIFIED", "DRAFTING", "DRAFTED"},
                 qualification : Answers \cup {NoAnswer}]
    BY DEF SoloRow, Inv, TypeOK
  <2>2. \A st : update_lead_state(st) => row'.qualification = row.qualification
    BY <2>1 DEF update_lead_state
  <2>3. QED
    BY <1>1, <1>2, <1>3, <2>2, RaisedKeeps, MovedKeeps DEF Begin, Transaction, LlmActivities
<1>4. CASE k \notin LlmActivities
  <2>1. UNCHANGED row /\ (Step(k, n, "report") \/ Raise(k, n))
    BY <1>4 DEF Begin, Transaction, schedule_followup, insert_outbox, effects, Activities,
       LlmActivities
  <2>2. QED
    BY <1>1, <1>4, <2>1, RaisedKeeps, WroteKeeps
<1>5. QED
  BY <1>3, <1>4

LEMMA RefusalKeepsRow ==
  ASSUME SoloRow, zombies = 0, NEW k \in Activities, NEW n \in Attempts, SettingsRefused(k, n)
  PROVE  SoloInv' /\ RowInv'
<1>1. /\ Busy(k, n) /\ UNCHANGED <<state, gate, qualification, row>>
      /\ TypeOK /\ SoloInv /\ exec' = Ended(k, n)
  BY BusyAt DEF SettingsRefused, effects, SoloRow, Inv
<1>2. Idle(Ended(k, n))
  BY <1>1, EndedIsIdle DEF SoloInv
<1>3. QED
  BY <1>1, <1>2, IdleIsSolo, RowUntouched DEF SoloRow, LlmActivities, Activities

LEMMA PickUpKeepsRow ==
  ASSUME SoloRow, zombies = 0, NEW k \in Activities, NEW n \in Attempts, PickUp(k, n)
  PROVE  SoloInv' /\ RowInv'
<1>1. Busy(k, n) /\ zombies' = 0 /\ UNCHANGED row
  BY BusyAt DEF PickUp, effects
<1>2. QED
  BY <1>1, MovedKeeps DEF PickUp

LEMMA CallLlmKeepsRow ==
  ASSUME SoloRow, zombies = 0, NEW k \in LlmActivities, NEW n \in Attempts, CallLlm(k, n)
  PROVE  SoloInv' /\ RowInv'
<1>1. Busy(k, n) /\ zombies' = 0 /\ UNCHANGED row /\ k \in Activities
  BY BusyAt DEF CallLlm, effects, LlmActivities, Activities
<1>2. CASE Raise(k, n)
  BY <1>1, <1>2, RaisedKeeps
<1>3. ASSUME NEW x \in Answers \cup {NoAnswer}, UNCHANGED workflow,
             exec' = [exec EXCEPT ![k][n] = [at |-> "commit", answer |-> x]]
      PROVE  SoloInv' /\ RowInv'
  <2> DEFINE c == [at |-> "commit", answer |-> x]
  <2>1. c \in Cell /\ c.at = "commit" /\ exec' = [exec EXCEPT ![k][n] = c]
    BY <1>3 DEF Cell, Steps
  <2> HIDE DEF c
  <2>2. TypeOK /\ SoloInv /\ UNCHANGED workflow
    BY <1>3 DEF SoloRow, Inv
  <2>3. /\ SoloInv' /\ UNCHANGED <<state, gate, qualification>>
        /\ exec'[k][n] = c
        /\ \A j \in Activities, m \in Attempts : exec'[j][m].at = "report" => j = k /\ m = n
    BY <1>1, <2>1, <2>2, StepIsSolo
  <2>4. \A j \in LlmActivities, m \in Attempts : exec'[j][m].at # "report"
    BY <2>1, <2>3 DEF LlmActivities, Activities
  <2>5. QED
    BY <1>1, <2>3, <2>4, RowUntouched DEF SoloRow
<1>4. QED
  BY <1>2, <1>3 DEF CallLlm

\* The transaction that the report of an LLM step follows.
LEMMA CommitKeepsRow ==
  ASSUME SoloRow, zombies = 0, NEW k \in LlmActivities, NEW n \in Attempts, Commit(k, n)
  PROVE  SoloInv' /\ RowInv'
<1>1. Busy(k, n) /\ zombies' = 0 /\ k \in Activities
  BY BusyAt DEF Commit, LlmActivities, Activities
<1>2. CASE Raise(k, n) /\ UNCHANGED effects
  BY <1>1, <1>2, RaisedKeeps DEF effects
<1>3. /\ TypeOK /\ SoloInv /\ RowInv
      /\ row \in [state : {"PENDING", "QUALIFYING", "QUALIFIED", "DRAFTING", "DRAFTED"},
                  qualification : Answers \cup {NoAnswer}]
  BY DEF SoloRow, Inv, TypeOK
<1>4. RecordResult(k, n)
        => /\ k = "draft_email" => /\ row'.qualification = row.qualification
                                   /\ row'.state = "DRAFTED"
           /\ k = "qualify_lead" => row'.qualification = exec[k][n].answer
  BY <1>3 DEF RecordResult
<1>5. CASE RecordResult(k, n) /\ Raise(k, n)
  BY <1>1, <1>4, <1>5, RaisedKeeps
<1>6. CASE RecordResult(k, n) /\ Step(k, n, "report")
  <2>1. PICK c \in Cell : /\ exec' = [exec EXCEPT ![k][n] = c]
                          /\ c.at = "report" /\ c.answer = exec[k][n].answer
    BY <1>1, <1>3, <1>6, StepCell DEF Steps
  <2>2. UNCHANGED workflow
    BY <1>6 DEF Step
  <2>3. /\ SoloInv' /\ UNCHANGED <<state, gate, qualification>>
        /\ Current(k, n) /\ exec'[k][n] = c
        /\ \A j \in Activities, m \in Attempts : exec'[j][m].at = "report" => j = k /\ m = n
    BY <1>1, <1>3, <2>1, <2>2, StepIsSolo
  <2>4. \A m \in Attempts :
           /\ exec'["qualify_lead"][m].at = "report"
                => row'.qualification = exec'["qualify_lead"][m].answer
           /\ exec'["draft_email"][m].at = "report" => row'.state = "DRAFTED"
    BY <1>4, <1>6, <2>1, <2>3 DEF Activities, LlmActivities
  <2>5. /\ state \notin Early => row'.qualification = row.qualification
        /\ Drafted => row'.state = row.state
    BY <1>4, <1>6, <2>3, WhereItIs DEF LlmActivities
  <2>6. QED
    BY <2>3, <2>4, <2>5, RowKept DEF SoloRow
<1>7. QED
  BY <1>2, <1>5, <1>6 DEF Commit, Transaction

LEMMA TimeoutKeepsRow ==
  ASSUME SoloRow, zombies = 0, NEW k \in Activities, NEW n \in Attempts,
         StartToCloseTimeout(k, n)
  PROVE  SoloInv' /\ RowInv'
<1>1. Current(k, n) /\ UNCHANGED <<state, gate, qualification, row>>
  BY DEF StartToCloseTimeout, effects
<1>2. CASE RetryOrFail(n, k, Ended(k, n)) /\ UNCHANGED zombies
  <2>1. /\ SoloInv'
        /\ \A j \in Activities, m \in Attempts : exec'[j][m].at # "report"
    BY <1>1, <1>2, RetryIsSolo DEF SoloRow, Inv
  <2>2. QED
    BY <1>1, <2>1, RowUntouched DEF SoloRow, LlmActivities, Activities
<1>3. CASE zombies' = zombies + 1
  BY <1>3 DEF SoloInv, RowInv
<1>4. QED
  BY <1>2, <1>3 DEF StartToCloseTimeout

LEMMA CrashKeepsRow ==
  ASSUME SoloRow, zombies = 0, WorkerCrash PROVE SoloInv' /\ RowInv'
<1>1. UNCHANGED <<workflow, effects, zombies>>
  BY DEF WorkerCrash
<1>2. \A j \in Activities, m \in Attempts :
        exec'[j][m] = IF Alive(j, m) THEN At("over") ELSE exec[j][m]
  BY DEF WorkerCrash
<1>3. At("over").at = "over"
  BY AtCell DEF Steps
<1>4. SoloInv'
  BY <1>1, <1>2, <1>3 DEF SoloRow, SoloInv, Busy, Current, Running, workflow
<1>5. \A j \in LlmActivities, m \in Attempts :
        exec'[j][m].at = "report" => exec'[j][m] = exec[j][m]
  BY <1>2, <1>3 DEF LlmActivities, Activities
<1>6. QED
  BY <1>1, <1>4, <1>5, RowUntouched DEF SoloRow, workflow, effects

-----------------------------------------------------------------------------
(* The steps of the run find no attempt alive, and leave at most one.       *)

LEMMA NobodyRuns ==
  ASSUME SoloInv, zombies = 0, gate # "none" \/ state \notin DOMAIN Awaited \/ ~Running
  PROVE  Idle(exec)
BY DEF SoloInv, Idle, Busy, Current

\* The run goes on from an idle table of attempts.
LEMMA RunIsSolo ==
  ASSUME Running, NEW e \in ExecType, Idle(e),
         \/ \E st \in DOMAIN Awaited : Await(st, e)
         \/ \E g : WaitAt(g, e)
         \/ \E status : Return(status, e)
  PROVE  SoloInv' /\ \A j \in Activities, m \in Attempts : exec'[j][m].at # "report"
BY AwaitIsSolo, IdleIsSolo DEF WaitAt, Return

LEMMA BeginRunKeepsRow ==
  ASSUME SoloRow, zombies = 0, BeginRun PROVE SoloInv' /\ RowInv'
<1>1. Await("QUALIFYING", exec) /\ state = "PENDING" /\ Running /\ UNCHANGED row
  BY DEF BeginRun, effects
<1>2. Idle(exec) /\ exec \in ExecType /\ "QUALIFYING" \in DOMAIN Awaited
  BY <1>1, NobodyRuns, AwaitedFacts, ExecIsTyped DEF SoloRow, Inv
<1>3. SoloInv' /\ \A j \in Activities, m \in Attempts : exec'[j][m].at # "report"
  BY <1>1, <1>2, RunIsSolo
<1>4. state' \in Early /\ ~Drafted'
  BY <1>1 DEF Await, Drafted, Early, Sending
<1>5. QED
  BY <1>3, <1>4 DEF RowInv, Activities

\* A gate opens, by a signal or by its timeout.
LEMMA GateKeepsRow ==
  ASSUME SoloRow, zombies = 0, Running, gate # "none", UNCHANGED <<row, qualification>>,
         \/ Return("CANCELLED", exec)
         \/ Await(IF gate = "review" THEN "DRAFTING" ELSE "SENDING", exec)
  PROVE  SoloInv' /\ RowInv'
<1>1. /\ Idle(exec) /\ exec \in ExecType /\ gate \in {"review", "approval"}
      /\ state = "AWAITING_APPROVAL"
  BY NobodyRuns, ExecIsTyped DEF SoloRow, Inv, TypeOK, RunInv
<1>2. SoloInv' /\ \A j \in Activities, m \in Attempts : exec'[j][m].at # "report"
  BY <1>1, RunIsSolo, AwaitedFacts
<1>3. row.qualification = qualification /\ (gate = "approval" => row.state = "DRAFTED")
  BY <1>1 DEF SoloRow, RowInv, Early, Drafted
<1>4. Drafted' => gate = "approval"
  BY <1>1 DEF Drafted, Return, Await, Sending
<1>5. QED
  BY <1>2, <1>3, <1>4 DEF RowInv, Activities

LEMMA SignalsKeepRow ==
  ASSUME SoloRow, zombies = 0, NEW sent \in SUBSET {"approve", "cancel"}, Signals(sent)
  PROVE  SoloInv' /\ RowInv'
<1>1. Running /\ UNCHANGED <<row, qualification>> /\ gate \in {"none", "review", "approval"}
  BY DEF Signals, effects, SoloRow, Inv, TypeOK
<1>2. CASE gate = "none"
  <2>1. UNCHANGED <<state, gate, verdict, attempt, exec, zombies>>
    BY <1>2 DEF Signals
  <2>2. QED
    BY <1>1, <2>1 DEF SoloRow, SoloInv, RowInv, Busy, Current, Running, Drafted
<1>3. CASE gate # "none"
  <2>1. \/ Return("CANCELLED", exec)
        \/ Await(IF gate = "review" THEN "DRAFTING" ELSE "SENDING", exec)
    BY <1>1, <1>3 DEF Signals, LeaveGate
  <2>2. QED
    BY <1>1, <1>3, <2>1, GateKeepsRow
<1>4. QED
  BY <1>2, <1>3

\* The run resumes with a result, and the row has it already.
LEMMA ReportKeepsRow ==
  ASSUME SoloRow, zombies = 0, NEW k \in Activities, NEW n \in Attempts, Report(k, n)
  PROVE  SoloInv' /\ RowInv'
<1>1. /\ Busy(k, n) /\ exec[k][n].at = "report" /\ UNCHANGED <<row, zombies>>
      /\ TypeOK /\ SoloInv /\ RowInv
  BY BusyAt DEF Report, effects, SoloRow, Inv
<1>2. Current(k, n) /\ Running /\ gate = "none" /\ state = state
  BY <1>1 DEF SoloInv, Current
<1>3. Idle(Ended(k, n)) /\ Quieter(Ended(k, n))
  BY <1>1, <1>2, EndedIsIdle, EndedIsQuieter
<1>4. Resume(k, n, Ended(k, n))
  BY <1>2 DEF Report
<1>5. /\ qualification' = IF k = "qualify_lead" THEN exec[k][n].answer ELSE qualification
      /\ k = "qualify_lead" => row.qualification = exec[k][n].answer
      /\ k = "draft_email" => row.state = "DRAFTED" /\ state = "DRAFTING"
      /\ k \notin LlmActivities => state \in Sending
  BY <1>1, <1>2, <1>4, AwaitedFacts DEF Resume, RowInv, Current, Activities, LlmActivities, Sending
<1>6. /\ k = "qualify_lead"
           => \/ \E st \in {"DRAFTING"} : Await(st, Ended(k, n))
              \/ WaitAt("review", Ended(k, n))
              \/ Return("CANCELLED", Ended(k, n))
      /\ k # "qualify_lead"
           => \/ \E st \in Sending \cap DOMAIN Awaited : Await(st, Ended(k, n))
              \/ WaitAt("approval", Ended(k, n))
              \/ \E st \in {"COMPLETED", "CANCELLED"} : Return(st, Ended(k, n))
  BY <1>4, AwaitedFacts DEF Resume, ReviewGate, ApprovalGate, LeaveGate, Sending, Activities
<1>7. SoloInv' /\ \A j \in Activities, m \in Attempts : exec'[j][m].at # "report"
  BY <1>2, <1>3, <1>6, RunIsSolo, AwaitedFacts DEF Quieter
<1>8. row.qualification = qualification'
  <2>1. k # "qualify_lead" => state \notin Early
    BY <1>5 DEF Activities, LlmActivities, Early, Sending
  <2>2. QED
    BY <1>1, <1>5, <2>1 DEF RowInv
<1>9. Drafted' => row.state = "DRAFTED"
  <2>1. CASE k = "qualify_lead"
    <3>1. ~Drafted'
      BY <1>6, <2>1 DEF Await, WaitAt, Return, Drafted, Sending
    <3>2. QED
      BY <3>1
  <2>2. CASE k # "qualify_lead"
    BY <1>1, <1>5, <2>2 DEF RowInv, Drafted, Activities, LlmActivities
  <2>3. QED
    BY <2>1, <2>2
<1>10. QED
  BY <1>1, <1>7, <1>8, <1>9 DEF RowInv, Activities

-----------------------------------------------------------------------------
(* The invariant, and what it is for.                                       *)

\* The bound on late attempts is only ever used up.
LEMMA ZombiesStay == Inv /\ [Next]_vars /\ zombies' = 0 => zombies = 0
<1> SUFFICES ASSUME Inv, [Next]_vars, zombies' = 0 PROVE zombies = 0
  OBVIOUS
<1>1. zombies' = zombies \/ zombies' = zombies + 1
  BY DEF Next, BeginRun, Signals, GateTimeout, WorkerCrash, AttemptStep, PickUp, Begin,
     SettingsRefused, Report, CallLlm, Commit, StartToCloseTimeout, vars
<1>2. QED
  BY <1>1 DEF Inv, TypeOK

LEMMA SoloRowNext == SoloRow /\ [Next]_vars => SoloRow'
<1> SUFFICES ASSUME SoloRow, [Next]_vars, zombies' = 0 PROVE SoloInv' /\ RowInv'
  BY InvNext DEF SoloRow, SoloInv, RowInv
<1>1. zombies = 0
  BY ZombiesStay DEF SoloRow
<1>2. CASE UNCHANGED vars
  BY <1>2 DEF vars, workflow, effects, SoloRow, SoloInv, RowInv, Busy, Current, Running, Drafted
<1>3. ASSUME NEW k \in Activities, NEW n \in Attempts, AttemptStep(k, n)
      PROVE  SoloInv' /\ RowInv'
  BY <1>1, <1>3, PickUpKeepsRow, BeginKeepsRow, RefusalKeepsRow, ReportKeepsRow, CallLlmKeepsRow, CommitKeepsRow
     DEF AttemptStep
<1>4. CASE GateTimeout
  BY <1>1, <1>4, GateKeepsRow DEF GateTimeout, effects
<1>5. QED
  BY <1>1, <1>2, <1>3, <1>4, BeginRunKeepsRow, SignalsKeepRow, CrashKeepsRow, TimeoutKeepsRow
     DEF Next

LEMMA SoloRowAlways == Spec => []SoloRow
<1>1. Init => SoloRow
  <2> SUFFICES ASSUME Init PROVE SoloRow
    OBVIOUS
  <2>1. \A k \in Activities, n \in Attempts : exec[k][n].at = "none"
    BY AtCell DEF Init, Steps
  <2>2. QED
    BY <2>1, InvInit DEF Init, SoloRow, SoloInv, RowInv, Busy, Drafted, Early, Sending, Activities
<1>2. QED
  BY <1>1, SoloRowNext, PTL DEF Spec

\* Unless an attempt outlived its timeout, the row of a completed lead says what
\* the run acted on, whatever was retried and whichever acknowledgement was lost
\* (qualify.py:126-154, draft.py:126-143).
THEOREM RowIsRight == Spec => []RowMatchesResult
<1>1. SoloRow => RowMatchesResult
  <2> SUFFICES ASSUME SoloRow, verdict = "COMPLETED", zombies = 0
               PROVE  row = [state |-> "DRAFTED", qualification |-> qualification]
    BY DEF RowMatchesResult
  <2>1. state = "COMPLETED"
    BY DEF SoloRow, Inv, RunInv
  <2>2. row.state = "DRAFTED" /\ row.qualification = qualification
    BY <2>1 DEF SoloRow, RowInv, Drafted, Sending, Early
  <2>3. row \in [state : {"PENDING", "QUALIFYING", "QUALIFIED", "DRAFTING", "DRAFTED"},
                 qualification : Answers \cup {NoAnswer}]
    BY DEF SoloRow, Inv, TypeOK
  <2>4. QED
    BY <2>2, <2>3
<1>2. QED
  BY <1>1, SoloRowAlways, PTL
=============================================================================
