------------------------------- MODULE Outbox -------------------------------
(***************************************************************************)
(* The outbox table and the sender workers that drain it:                  *)
(*   src/workers/sender.py       the loop: recover, poll, process, sleep   *)
(*   src/db/outbox_queries.py    the UPDATEs a sender makes                *)
(*   src/db/queries.py           insert_outbox                             *)
(*   src/workers/senders/*.py    what one dispatch may do and answer       *)
(*                                                                         *)
(* Every await that ends a transaction, and every call of a provider, is a *)
(* step, so that senders interleave and crash between any two of them.     *)
(* Time is relative: a row carries the ticks left until next_attempt_at    *)
(* and the ticks since updated_at, and Tick moves both.                    *)
(***************************************************************************)
EXTENDS Integers, Sequences

CONSTANTS
  Rows,                \* outbox rows, one per (tenant_id, type, idempotency_key)
  RowType,             \* outbox.type of each row
  Senders,             \* sender processes
  BATCH_SIZE,
  BACKOFF_SCHEDULE,    \* in ticks
  PROCESSING_TIMEOUT,  \* in ticks
  MaxAttempts,         \* outbox.max_attempts
  PayloadDecoded,      \* does the pool give jsonb as a dict?
  AckCanBeLost,        \* may a commit take effect although the caller sees an error?
  PromptSenders,       \* is a claimed record done with before PROCESSING_TIMEOUT?
  MaxOverdue,          \* bound: how far in the past next_attempt_at is told apart
  MaxFaults,           \* bound: crashes and database errors together
  MaxStops             \* bound: SIGINT/SIGTERM received

ASSUME OutboxAssumption ==
  /\ RowType \in [Rows -> STRING]
  /\ BATCH_SIZE \in Nat \ {0}
  /\ BACKOFF_SCHEDULE \in Seq(Nat) /\ BACKOFF_SCHEDULE # <<>>
  /\ PROCESSING_TIMEOUT \in Nat
  /\ MaxAttempts \in Nat \ {0}
  /\ PayloadDecoded \in BOOLEAN
  /\ AckCanBeLost \in BOOLEAN
  /\ PromptSenders \in BOOLEAN
  /\ MaxOverdue \in Nat /\ MaxFaults \in Nat /\ MaxStops \in Nat

VARIABLES
  status, attempts, wait, age,   \* the table: column by column, per row
  pc, batch, stopping,           \* each sender: where it is, what it polled
  applied, dispatches,           \* history: accepted by the provider, asked of it
  faults, stops                  \* how much of the bounds is used

table == <<status, attempts, wait, age>>
senderVars == <<pc, batch, stopping>>
history == <<applied, dispatches>>
vars == <<table, senderVars, history, faults, stops>>

Statuses == {"ABSENT", "PENDING", "PROCESSING", "SENT", "FAILED"}
Locations == {"stopped", "crashed", "head", "recover", "poll", "sleep",
              "mark_processing", "dispatch", "mark_sent", "mark_failure", "handler"}

\* The OutboxRecord of a poll; attempts is what the row said at that time.
Snapshots == [row : Rows, attempts : Nat]

TypeOK ==
  /\ status \in [Rows -> Statuses]
  /\ attempts \in [Rows -> Nat]
  /\ wait \in [Rows -> Int]
  /\ age \in [Rows -> Nat]
  /\ pc \in [Senders -> Locations]
  /\ batch \in [Senders -> Seq(Snapshots)]
  /\ stopping \in [Senders -> BOOLEAN]
  /\ applied \in [Rows -> Nat]
  /\ dispatches \in [Rows -> Nat]
  /\ faults \in Nat /\ stops \in Nat

Init ==
  /\ status = [r \in Rows |-> "ABSENT"]
  /\ attempts = [r \in Rows |-> 0]
  /\ wait = [r \in Rows |-> 0]
  /\ age = [r \in Rows |-> 0]
  /\ pc = [s \in Senders |-> "stopped"]
  /\ batch = [s \in Senders |-> <<>>]
  /\ stopping = [s \in Senders |-> FALSE]
  /\ applied = [r \in Rows |-> 0]
  /\ dispatches = [r \in Rows |-> 0]
  /\ faults = 0
  /\ stops = 0

-----------------------------------------------------------------------------
(* The statements of outbox_queries.py, each one transaction on the table.  *)

calculate_backoff(attempt) ==
  LET last == Len(BACKOFF_SCHEDULE) - 1
  IN  BACKOFF_SCHEDULE[(IF attempt < last THEN attempt ELSE last) + 1]

Write(r, newStatus, newAttempts, newWait) ==
  /\ status' = [status EXCEPT ![r] = newStatus]
  /\ attempts' = [attempts EXCEPT ![r] = newAttempts]
  /\ wait' = [wait EXCEPT ![r] = newWait]
  /\ age' = [age EXCEPT ![r] = 0]

mark_outbox_processing(r) == Write(r, "PROCESSING", attempts[r], wait[r])

mark_outbox_sent(r) == Write(r, "SENT", attempts[r], wait[r])

\* Mutant: a status of its own for retries, unknown to everything else.
mark_outbox_failed_renamed(r, attempt) ==
  Write(r, "RETRY", attempt, calculate_backoff(attempt))

mark_outbox_failed(r, attempt) ==
  Write(r, "PENDING", attempt, calculate_backoff(attempt))

mark_outbox_permanently_failed(r, attempt) == Write(r, "FAILED", attempt, wait[r])

Stuck(r) == status[r] = "PROCESSING" /\ age[r] > PROCESSING_TIMEOUT

\* Mutants: the recovery starts the row afresh; the recovery matches nothing.
recover_stuck_entries_reset ==
  /\ status' = [r \in Rows |-> IF Stuck(r) THEN "PENDING" ELSE status[r]]
  /\ attempts' = [r \in Rows |-> IF Stuck(r) THEN 0 ELSE attempts[r]]
  /\ age' = [r \in Rows |-> IF Stuck(r) THEN 0 ELSE age[r]]
  /\ UNCHANGED wait

recover_stuck_entries_none == UNCHANGED table

recover_stuck_entries ==
  /\ status' = [r \in Rows |-> IF Stuck(r) THEN "PENDING" ELSE status[r]]
  /\ age' = [r \in Rows |-> IF Stuck(r) THEN 0 ELSE age[r]]
  /\ UNCHANGED <<attempts, wait>>

\* ON CONFLICT (tenant_id, type, idempotency_key) DO NOTHING.
insert_outbox(r) ==
  /\ IF status[r] = "ABSENT"
       THEN Write(r, "PENDING", 0, 0)
       ELSE UNCHANGED table
  /\ UNCHANGED <<senderVars, history, faults, stops>>

-----------------------------------------------------------------------------
(* A sender process.                                                        *)

Goto(s, loc) == pc' = [pc EXCEPT ![s] = loc]

Fault == faults < MaxFaults /\ faults' = faults + 1

\* One statement of sender s: it commits and s goes on, or the caller sees an
\* exception and s goes where its except clause is; the commit may have been
\* made all the same when only its acknowledgement was lost.
Execute(statement, goOn, raise) ==
  \/ statement /\ goOn /\ UNCHANGED faults
  \/ /\ Fault
     /\ raise
     /\ (AckCanBeLost /\ statement) \/ UNCHANGED table

Record(s) == Head(batch[s])

\* The record is done with: the next of the batch, or the end of the pass.
NextRecord(s) ==
  /\ batch' = [batch EXCEPT ![s] = Tail(@)]
  /\ Goto(s, IF Len(batch[s]) > 1 THEN "mark_processing" ELSE "sleep")

\* The exception leaves process_record: run_sender logs it and drops the batch.
LoopError(s) == batch' = [batch EXCEPT ![s] = <<>>] /\ Goto(s, "sleep")

Stay(s, loc) == Goto(s, loc) /\ UNCHANGED batch

Start(s) ==
  /\ pc[s] \in {"stopped", "crashed"}
  /\ Goto(s, "head")
  /\ stopping' = [stopping EXCEPT ![s] = FALSE]
  /\ UNCHANGED <<table, batch, history, faults, stops>>

\* The loop looks at shutdown_event here and nowhere else.
LoopHead(s) ==
  /\ pc[s] = "head"
  /\ Goto(s, IF stopping[s] THEN "stopped" ELSE "recover")
  /\ UNCHANGED <<table, batch, stopping, history, faults, stops>>

Recover(s) ==
  /\ pc[s] = "recover"
  /\ Execute(recover_stuck_entries, Stay(s, "poll"), LoopError(s))
  /\ UNCHANGED <<stopping, history, stops>>

\* Mutants: the poll does not look at next_attempt_at; it retries what was given up.
Due_at_once == {r \in Rows : status[r] = "PENDING"}

Due_failed_too == {r \in Rows : status[r] \in {"PENDING", "FAILED"} /\ wait[r] <= 0}

Due == {r \in Rows : status[r] = "PENDING" /\ wait[r] <= 0}

\* ORDER BY next_attempt_at LIMIT BATCH_SIZE, ties in any order.
Selected(n, f) ==
  /\ \A i, j \in 1..n : i < j => f[i] # f[j] /\ wait[f[i]] <= wait[f[j]]
  /\ \A r \in Due : \/ \E i \in 1..n : f[i] = r
                    \/ n = BATCH_SIZE /\ \A i \in 1..n : wait[f[i]] <= wait[r]

\* OutboxRecord.model_validate refuses a row whose payload is not a dict, and
\* with it the whole poll.
poll_outbox(s) ==
  /\ pc[s] = "poll"
  /\ \/ /\ \E n \in 0..BATCH_SIZE : \E f \in [1..n -> Due] :
             /\ Selected(n, f)
             /\ IF n > 0 /\ PayloadDecoded
                  THEN /\ batch' = [batch EXCEPT ![s] =
                            [i \in 1..n |-> [row |-> f[i], attempts |-> attempts[f[i]]]]]
                       /\ Goto(s, "mark_processing")
                  ELSE LoopError(s)
        /\ UNCHANGED faults
     \/ Fault /\ LoopError(s)
  /\ UNCHANGED <<table, stopping, history, stops>>

MarkProcessing(s) ==
  /\ pc[s] = "mark_processing"
  /\ Execute(mark_outbox_processing(Record(s).row), Stay(s, "dispatch"), Stay(s, "handler"))
  /\ UNCHANGED <<stopping, history, stops>>

\* What one call of a provider may come to: it accepted the request and the
\* answer arrived, it accepted and the answer was lost or not understood, it
\* never accepted, or an exception was raised before the request was made.
Answered == [accepted |-> TRUE, goto |-> "mark_sent"]
Unheard == [accepted |-> TRUE, goto |-> "mark_failure"]
Refused == [accepted |-> FALSE, goto |-> "mark_failure"]
Raised == [accepted |-> FALSE, goto |-> "handler"]

\* Mutant: a timeout of the client is taken for success.
send_email_optimistic == {Raised, [accepted |-> FALSE, goto |-> "mark_sent"]}

\* 2xx is True; any other status, and any httpx error, is False.
send_email == {Answered, Unheard, Refused, Raised}

\* Mutant: a contact that is there already is taken for success.
send_crm_upsert_optimistic == {Raised, [accepted |-> FALSE, goto |-> "mark_sent"]}

\* POST, and PATCH of the contact a 409 names. A record without an email, a 409
\* that names no contact and an error of either call are False.
send_crm_upsert == {Answered, Unheard, Refused, Raised}

Outcomes(r) == CASE RowType[r] = "SEND_EMAIL" -> send_email
                 [] RowType[r] = "CRM_UPSERT" -> send_crm_upsert
                 [] OTHER -> {Refused}

dispatch(s) ==
  /\ pc[s] = "dispatch"
  /\ LET r == Record(s).row IN
       /\ dispatches' = [dispatches EXCEPT ![r] = @ + 1]
       /\ \E o \in Outcomes(r) :
            /\ applied' = [applied EXCEPT ![r] = IF o.accepted THEN @ + 1 ELSE @]
            /\ Stay(s, o.goto)
  /\ UNCHANGED <<table, stopping, faults, stops>>

MarkSent(s) ==
  /\ pc[s] = "mark_sent"
  /\ Execute(mark_outbox_sent(Record(s).row), NextRecord(s), Stay(s, "handler"))
  /\ UNCHANGED <<stopping, history, stops>>

\* new_attempt comes from the record of the poll, not from the row.
NewAttempt(s) == Record(s).attempts + 1

\* Mutants: one attempt too many, one too few.
RecordFailure_late(s) ==
  IF NewAttempt(s) > MaxAttempts
    THEN mark_outbox_permanently_failed(Record(s).row, NewAttempt(s))
    ELSE mark_outbox_failed(Record(s).row, NewAttempt(s))

RecordFailure_early(s) ==
  IF NewAttempt(s) + 1 >= MaxAttempts
    THEN mark_outbox_permanently_failed(Record(s).row, NewAttempt(s))
    ELSE mark_outbox_failed(Record(s).row, NewAttempt(s))

RecordFailure(s) ==
  IF NewAttempt(s) >= MaxAttempts
    THEN mark_outbox_permanently_failed(Record(s).row, NewAttempt(s))
    ELSE mark_outbox_failed(Record(s).row, NewAttempt(s))

MarkFailure(s) ==
  /\ pc[s] = "mark_failure"
  /\ Execute(RecordFailure(s), NextRecord(s), Stay(s, "handler"))
  /\ UNCHANGED <<stopping, history, stops>>

\* Mutant: the except clause only logs.
ExceptHandler_logging(s) ==
  /\ pc[s] = "handler"
  /\ LoopError(s)
  /\ UNCHANGED <<table, stopping, history, faults, stops>>

\* The except clause of process_record, itself outside any try of that function.
ExceptHandler(s) ==
  /\ pc[s] = "handler"
  /\ Execute(RecordFailure(s), NextRecord(s), LoopError(s))
  /\ UNCHANGED <<stopping, history, stops>>

Sleep(s) ==
  /\ pc[s] = "sleep"
  /\ Stay(s, "head")
  /\ UNCHANGED <<table, stopping, history, faults, stops>>

-----------------------------------------------------------------------------
(* The environment: signals, crashes, time.                                 *)

Running(s) == pc[s] \notin {"stopped", "crashed"}

ShutdownSignal(s) ==
  /\ Running(s) /\ ~stopping[s] /\ stops < MaxStops
  /\ stopping' = [stopping EXCEPT ![s] = TRUE]
  /\ stops' = stops + 1
  /\ UNCHANGED <<table, pc, batch, history, faults>>

Crash(s) ==
  /\ Running(s) /\ Fault
  /\ Goto(s, "crashed")
  /\ batch' = [batch EXCEPT ![s] = <<>>]
  /\ UNCHANGED <<table, stopping, history, stops>>

\* The HTTP clients time out after 30 s a phase, the recovery after 5 min: with
\* PromptSenders no row grows stuck while a live sender works on it. A record
\* that was polled and waits for its turn in the batch may be as old as it likes.
AtWork(s) == pc[s] \in {"dispatch", "mark_sent", "mark_failure", "handler"}

\* The age of a row is read only while it is PROCESSING.
Tick ==
  /\ PromptSenders => \A s \in Senders : AtWork(s) => age[Record(s).row] < PROCESSING_TIMEOUT
  /\ wait' = [r \in Rows |-> IF wait[r] > -MaxOverdue THEN wait[r] - 1 ELSE wait[r]]
  /\ age' = [r \in Rows |-> IF status[r] = "PROCESSING" /\ ~Stuck(r) THEN age[r] + 1 ELSE age[r]]
  /\ UNCHANGED <<status, attempts, senderVars, history, faults, stops>>

SenderStep(s) ==
  \/ Start(s) \/ LoopHead(s) \/ Recover(s) \/ poll_outbox(s)
  \/ MarkProcessing(s) \/ dispatch(s) \/ MarkSent(s) \/ MarkFailure(s)
  \/ ExceptHandler(s) \/ Sleep(s)

SendersNext ==
  \/ \E s \in Senders : SenderStep(s) \/ ShutdownSignal(s) \/ Crash(s)
  \/ Tick

Next == (\E r \in Rows : insert_outbox(r)) \/ SendersNext

Spec == Init /\ [][Next]_vars

\* A sender that runs goes on, one that stopped or crashed is started again by
\* its operator, and the clock advances.
FairSpec == Spec /\ WF_vars(Tick) /\ \A s \in Senders : WF_vars(SenderStep(s))

-----------------------------------------------------------------------------
(* Properties that hold whatever the number of senders.                     *)

Terminal == {"SENT", "FAILED"}

\* Nothing is given up untried: a row is FAILED only after max_attempts attempts,
\* each of which asked the provider or was cut short by a fault. The counts that
\* senders write over each other come from stale records and may go down again;
\* none of them ever claims more than was tried (sender.py:105-128).
GivenUpWasTried ==
  \A r \in Rows : status[r] = "FAILED" =>
    attempts[r] >= MaxAttempts /\ dispatches[r] + faults >= MaxAttempts

\* Every intent ends SENT or FAILED and stays there, through crashes, database
\* errors and senders that overwrite each other, as long as these are finite
\* in number (run_sender and recover_stuck_entries).
EventuallySettled ==
  \A r \in Rows : (status[r] # "ABSENT") ~> [](status[r] \in Terminal)

\* A row written to the outbox is handed to its sender sooner or later
\* (README.md:30: the sender worker polls and dispatches).
EventuallyDispatched == \A r \in Rows : (status[r] = "PENDING") ~> (dispatches[r] > 0)

-----------------------------------------------------------------------------
(* Properties of a deployment with one sender, but for DeliveryContract.    *)

\* The provider is not asked more often than max_attempts, plus once for every
\* crash or database error: only an attempt whose result could not be written
\* escapes the count (process_record, sender.py:97-128).
AttemptBudget == \A r \in Rows : dispatches[r] <= MaxAttempts + faults

\* No write loses the attempts an earlier write counted, although every write
\* takes them from the polled record (sender.py:105, 124).
AttemptsNeverRegress == [][\A r \in Rows : attempts'[r] >= attempts[r]]_vars

\* No provider is asked again before the backoff of the row has passed, however
\* long its record waited in a batch (outbox_queries.py:60, sender.py:48-56).
NeverBeforeDue ==
  [][\A r \in Rows : dispatches'[r] # dispatches[r] => wait[r] <= 0]_vars

\* A shutdown signal lets the batch finish: without a fault, a stopped sender
\* leaves no row PROCESSING for the five minute recovery (run_sender:168-188).
StopIsClean ==
  \A s \in Senders : pc[s] = "stopped" /\ faults = 0
                      => \A r \in Rows : status[r] # "PROCESSING"

\* What the writer of a row can tell of its status.
Verdict == [r \in Rows |-> CASE status[r] = "SENT" -> "sent"
                             [] status[r] = "FAILED" -> "failed"
                             [] status[r] = "ABSENT" -> "none"
                             [] OTHER -> "queued"]

\* A statement may overwrite what it has not seen: another sender's, or its own
\* sender's when the acknowledgement of that one was lost.
Overlapping == AckCanBeLost \/ \E s, t \in Senders : s # t

Contract == INSTANCE Delivery
              WITH Intents <- Rows, phase <- Verdict, Revisable <- Overlapping

\* The outbox is the delivery service of module Delivery: however senders crash,
\* overlap and overwrite each other, SENT comes after the provider accepted and no
\* row is withdrawn; where nothing overlaps, verdicts are final (process_record).
DeliveryContract == Contract!Spec

\* ... and every intent gets a verdict.
DeliveryContractLive == Contract!FairSpec

-----------------------------------------------------------------------------
(* What the documentation says, and the code does not do.                   *)

\* README.md:364: "Idempotency keys: Prevent duplicate sends".
NoDuplicateSend == \A r \in Rows : RowType[r] = "SEND_EMAIL" => applied[r] <= 1
=============================================================================
