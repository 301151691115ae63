---------------------------- MODULE OutboxProofs ----------------------------
(***************************************************************************)
(* Theorems about module Outbox: for any rows and any number of senders,   *)
(* then for a deployment with one sender, and that Outbox implements       *)
(* module Delivery.                                                        *)
(*                                                                         *)
(* The argument: a sender at work holds a record (Holding), and one that   *)
(* is about to write SENT has seen the provider accept (Confirmed). No     *)
(* other sender can take either away, so that every statement leaves a     *)
(* table whose verdicts are true (TrueVerdicts). What a sender polled was  *)
(* inserted before (BatchWritten), so that it can revise a verdict and     *)
(* never bring a row about: that is the revisable contract.                *)
(*                                                                         *)
(* Counts of attempts go up and down where senders overlap. None claims    *)
(* more than was tried, in a row or in a record (Counts), so that what is  *)
(* given up was tried max_attempts times.                                  *)
(*                                                                         *)
(* With one sender the snapshot of a record and its row stay in step as    *)
(* well. Rows that wait in the batch are as they were polled (Waiting),    *)
(* the row of the record at hand is at most one statement ahead of it      *)
(* (AtHand, InHandler). An asked provider is either counted in attempts,   *)
(* or owed by the record at hand, or paid for by a fault (Budget).         *)
(***************************************************************************)
EXTENDS Outbox, SequenceTheorems, TLAPS

Busy == {"mark_processing", "dispatch", "mark_sent", "mark_failure", "handler"}

Holding == \A s \in Senders : pc[s] \in Busy => batch[s] # <<>>

Confirmed == \A s \in Senders : pc[s] = "mark_sent" => applied[Record(s).row] > 0

SentWasAccepted == \A r \in Rows : status[r] = "SENT" => applied[r] > 0

FailedCounted == \A r \in Rows : status[r] = "FAILED" => attempts[r] >= MaxAttempts

Inv == TypeOK /\ Holding /\ Confirmed /\ SentWasAccepted /\ FailedCounted

-----------------------------------------------------------------------------
(* Facts about the operators of the model.                                  *)

\* The index never leaves the schedule, whatever the attempt (calculate_backoff).
LEMMA BackoffType == \A n \in Nat : calculate_backoff(n) \in Nat
<1> SUFFICES ASSUME NEW n \in Nat PROVE calculate_backoff(n) \in Nat
  OBVIOUS
<1> DEFINE last == Len(BACKOFF_SCHEDULE) - 1
           i == (IF n < last THEN n ELSE last) + 1
<1>1. Len(BACKOFF_SCHEDULE) \in Nat \ {0}
  BY OutboxAssumption, EmptySeq
<1>2. i \in 1..Len(BACKOFF_SCHEDULE)
  BY <1>1
<1> HIDE DEF i
<1>3. BACKOFF_SCHEDULE[i] \in Nat
  BY <1>2, OutboxAssumption, ElementOfSeq
<1>4. QED
  BY <1>3 DEF calculate_backoff, i

\* What a sender at work holds (process_record).
LEMMA RecordType ==
  ASSUME TypeOK, Holding, NEW s \in Senders, pc[s] \in Busy
  PROVE  /\ Record(s) \in Snapshots
         /\ Record(s).row \in Rows
         /\ NewAttempt(s) \in Nat
         /\ Tail(batch[s]) \in Seq(Snapshots)
         /\ Len(batch[s]) > 1 => Tail(batch[s]) # <<>>
<1>1. batch[s] \in Seq(Snapshots) /\ batch[s] # <<>>
  BY DEF TypeOK, Holding
<1>2. /\ Head(batch[s]) \in Snapshots
      /\ Tail(batch[s]) \in Seq(Snapshots)
      /\ Len(Tail(batch[s])) = Len(batch[s]) - 1
  BY <1>1, HeadTailProperties
<1>3. Len(batch[s]) > 1 => Tail(batch[s]) # <<>>
  <2> DEFINE n == Len(batch[s])
             m == Len(Tail(batch[s]))
  <2>1. n \in Nat /\ m = n - 1
    BY <1>1, <1>2, LenProperties
  <2>2. Len(<<>>) = 0
    BY EmptySeq
  <2> HIDE DEF n, m
  <2>3. n > 1 => m # 0
    BY <2>1
  <2>4. QED
    BY <2>2, <2>3, Zenon DEF n, m
<1>4. QED
  BY <1>2, <1>3 DEF Record, NewAttempt, Snapshots

\* The table is well typed after the step and no verdict in it is false.
TrueVerdicts ==
  /\ status' \in [Rows -> Statuses]
  /\ attempts' \in [Rows -> Nat]
  /\ wait' \in [Rows -> Int]
  /\ age' \in [Rows -> Nat]
  /\ \A r \in Rows : status'[r] = "SENT" => applied[r] > 0
  /\ \A r \in Rows : status'[r] = "FAILED" => attempts'[r] >= MaxAttempts

\* Each statement keeps the verdicts true, whoever executes it and whatever
\* the row has become since it was polled (outbox_queries.py).
LEMMA StatementsKeepVerdicts ==
  ASSUME Inv
  PROVE  /\ UNCHANGED table => TrueVerdicts
         /\ recover_stuck_entries => TrueVerdicts
         /\ \A r \in Rows : insert_outbox(r) => TrueVerdicts
         /\ \A r \in Rows : mark_outbox_processing(r) => TrueVerdicts
         /\ \A r \in Rows : applied[r] > 0 /\ mark_outbox_sent(r) => TrueVerdicts
         /\ \A s \in Senders : pc[s] \in Busy /\ RecordFailure(s) => TrueVerdicts
<1> USE DEF Inv, TypeOK, SentWasAccepted, FailedCounted, TrueVerdicts, Statuses
<1>1. UNCHANGED table => TrueVerdicts
  BY DEF table
<1>2. recover_stuck_entries => TrueVerdicts
  BY DEF recover_stuck_entries
<1>3. \A r \in Rows : insert_outbox(r) => TrueVerdicts
  <2>1. ASSUME NEW r \in Rows, Write(r, "PENDING", 0, 0) PROVE TrueVerdicts
    BY <2>1 DEF Write
  <2> QED
    BY <1>1, <2>1 DEF insert_outbox
<1>4. \A r \in Rows : mark_outbox_processing(r) => TrueVerdicts
  BY DEF mark_outbox_processing, Write
<1>5. \A r \in Rows : applied[r] > 0 /\ mark_outbox_sent(r) => TrueVerdicts
  BY DEF mark_outbox_sent, Write
<1>6. ASSUME NEW s \in Senders, pc[s] \in Busy, RecordFailure(s) PROVE TrueVerdicts
  <2>1. Record(s).row \in Rows /\ NewAttempt(s) \in Nat
    BY <1>6, RecordType
  <2>2. calculate_backoff(NewAttempt(s)) \in Nat
    BY <2>1, BackoffType
  <2>3. CASE NewAttempt(s) >= MaxAttempts
    <3>1. Write(Record(s).row, "FAILED", NewAttempt(s), wait[Record(s).row])
      BY <1>6, <2>3 DEF RecordFailure, mark_outbox_permanently_failed
    <3>2. ASSUME NEW r \in Rows, NEW n \in Nat, n >= MaxAttempts, Write(r, "FAILED", n, wait[r])
          PROVE  TrueVerdicts
      BY <3>2 DEF Write
    <3>3. QED
      BY <2>1, <2>3, <3>1, <3>2
  <2>4. CASE ~(NewAttempt(s) >= MaxAttempts)
    <3>1. Write(Record(s).row, "PENDING", NewAttempt(s), calculate_backoff(NewAttempt(s)))
      BY <1>6, <2>4 DEF RecordFailure, mark_outbox_failed
    <3>2. ASSUME NEW r \in Rows, NEW n \in Nat, NEW w \in Nat, Write(r, "PENDING", n, w)
          PROVE  TrueVerdicts
      BY <3>2 DEF Write
    <3>3. QED
      BY <2>1, <2>2, <3>1, <3>2
  <2>5. QED
    BY <2>3, <2>4
<1>7. QED
  BY <1>1, <1>2, <1>3, <1>4, <1>5, <1>6

-----------------------------------------------------------------------------
(* The invariant.                                                           *)

LEMMA InvInit == Init => Inv
BY EmptySeq DEF Init, Inv, TypeOK, Statuses, Locations, Holding, Confirmed, Busy,
   SentWasAccepted, FailedCounted

\* What remains of the invariant when the verdicts are true after the step.
SenderPart ==
  /\ pc' \in [Senders -> Locations]
  /\ batch' \in [Senders -> Seq(Snapshots)]
  /\ stopping' \in [Senders -> BOOLEAN]
  /\ faults' \in Nat /\ stops' \in Nat
  /\ Holding'
  /\ Confirmed'

LEMMA PartsMakeInv ==
  ASSUME Inv, TrueVerdicts, SenderPart, UNCHANGED history
  PROVE  Inv'
BY DEF Inv, TypeOK, TrueVerdicts, SenderPart, SentWasAccepted, FailedCounted, history

\* Where the control of a sender may go without touching what others hold.
LEMMA StayKeeps ==
  ASSUME Inv, NEW s \in Senders, NEW loc \in Locations \ {"mark_sent"},
         loc \in Busy => batch[s] # <<>>,
         Stay(s, loc), UNCHANGED <<stopping, stops>>, faults' \in Nat, UNCHANGED history
  PROVE  SenderPart
BY DEF Inv, TypeOK, Holding, Confirmed, SenderPart, Stay, Goto, Record, Busy, history

LEMMA LoopErrorKeeps ==
  ASSUME Inv, NEW s \in Senders, LoopError(s),
         UNCHANGED <<stopping, stops>>, faults' \in Nat, UNCHANGED history
  PROVE  SenderPart
BY EmptySeq DEF Inv, TypeOK, Holding, Confirmed, SenderPart, LoopError, Goto, Record, Busy,
   Locations, history

LEMMA NextRecordKeeps ==
  ASSUME Inv, NEW s \in Senders, pc[s] \in Busy, NextRecord(s),
         UNCHANGED <<stopping, stops>>, faults' \in Nat, UNCHANGED history
  PROVE  SenderPart
<1>1. /\ Tail(batch[s]) \in Seq(Snapshots)
      /\ Len(batch[s]) > 1 => Tail(batch[s]) # <<>>
  BY RecordType DEF Inv
<1>2. QED
  BY <1>1 DEF Inv, TypeOK, Holding, Confirmed, SenderPart, NextRecord, Goto, Record, Busy,
     Locations, history

-----------------------------------------------------------------------------
(* One step per action of Next.                                             *)

LEMMA InvNext == Inv /\ [Next]_vars => Inv'
<1> SUFFICES ASSUME Inv, [Next]_vars PROVE Inv'
  OBVIOUS
<1>0. /\ faults \in Nat /\ stops \in Nat
      /\ Fault => faults' \in Nat
  BY DEF Inv, TypeOK, Fault
<1>1. ASSUME NEW r \in Rows, insert_outbox(r) PROVE Inv'
  <2>1. TrueVerdicts
    BY <1>1, StatementsKeepVerdicts
  <2>2. SenderPart /\ UNCHANGED history
    BY <1>1 DEF insert_outbox, senderVars, Inv, TypeOK, SenderPart, Holding, Confirmed,
       Record, history
  <2>3. QED
    BY <2>1, <2>2, PartsMakeInv
<1>2. ASSUME NEW s \in Senders, Start(s) PROVE Inv'
  <2>1. TrueVerdicts
    BY <1>2, StatementsKeepVerdicts DEF Start
  <2>2. SenderPart /\ UNCHANGED history
    BY <1>2 DEF Start, Goto, Inv, TypeOK, SenderPart, Holding, Confirmed, Busy, Locations,
       Record, history
  <2>3. QED
    BY <2>1, <2>2, PartsMakeInv
<1>3. ASSUME NEW s \in Senders, LoopHead(s) PROVE Inv'
  <2>1. TrueVerdicts
    BY <1>3, StatementsKeepVerdicts DEF LoopHead
  <2>2. SenderPart /\ UNCHANGED history
    BY <1>3 DEF LoopHead, Goto, Inv, TypeOK, SenderPart, Holding, Confirmed, Busy, Locations,
       Record, history
  <2>3. QED
    BY <2>1, <2>2, PartsMakeInv
<1>4. ASSUME NEW s \in Senders, Recover(s) PROVE Inv'
  <2>1. TrueVerdicts
    BY <1>4, StatementsKeepVerdicts DEF Recover, Execute
  <2>2. UNCHANGED <<stopping, stops>> /\ UNCHANGED history /\ faults' \in Nat
    BY <1>0, <1>4 DEF Recover, Execute
  <2>3. CASE Stay(s, "poll")
    BY <2>2, <2>3, StayKeeps, <2>1, PartsMakeInv DEF Locations, Busy
  <2>4. CASE LoopError(s)
    BY <2>2, <2>4, LoopErrorKeeps, <2>1, PartsMakeInv
  <2>5. QED
    BY <1>4, <2>3, <2>4 DEF Recover, Execute
<1>5. ASSUME NEW s \in Senders, poll_outbox(s) PROVE Inv'
  <2>1. TrueVerdicts
    BY <1>5, StatementsKeepVerdicts DEF poll_outbox
  <2>2. UNCHANGED <<stopping, stops>> /\ UNCHANGED history /\ faults' \in Nat
    BY <1>0, <1>5 DEF poll_outbox
  <2>3. CASE LoopError(s)
    BY <2>2, <2>3, LoopErrorKeeps, <2>1, PartsMakeInv
  <2>4. ASSUME NEW n \in 0..BATCH_SIZE, NEW f \in [1..n -> Due], n > 0,
               batch' = [batch EXCEPT ![s] =
                           [i \in 1..n |-> [row |-> f[i], attempts |-> attempts[f[i]]]]],
               Goto(s, "mark_processing")
        PROVE  Inv'
    <3> DEFINE b == [i \in 1..n |-> [row |-> f[i], attempts |-> attempts[f[i]]]]
    <3>1. n \in Nat
      BY OutboxAssumption
    <3>2. \A i \in 1..n : [row |-> f[i], attempts |-> attempts[f[i]]] \in Snapshots
      BY DEF Due, Snapshots, Inv, TypeOK
    <3>3. b \in Seq(Snapshots)
      BY <3>1, <3>2, SeqDef
    <3>4. b # <<>>
      BY <2>4, <3>1, <3>3, EmptySeq
    <3> HIDE DEF b
    <3>5. SenderPart
      BY <2>2, <2>4, <3>3, <3>4 DEF b, Goto, Inv, TypeOK, SenderPart, Holding, Confirmed,
         Busy, Locations, Record, history
    <3>6. QED
      BY <2>1, <2>2, <3>5, PartsMakeInv
  <2>5. QED
    BY <1>5, <2>3, <2>4 DEF poll_outbox
<1>6. ASSUME NEW s \in Senders, MarkProcessing(s) PROVE Inv'
  <2>1. pc[s] \in Busy /\ Record(s).row \in Rows /\ batch[s] # <<>>
    BY <1>6, RecordType DEF MarkProcessing, Busy, Inv, Holding
  <2>2. TrueVerdicts
    BY <1>6, <2>1, StatementsKeepVerdicts DEF MarkProcessing, Execute
  <2>3. UNCHANGED <<stopping, stops>> /\ UNCHANGED history /\ faults' \in Nat
    BY <1>0, <1>6 DEF MarkProcessing, Execute
  <2>4. Stay(s, "dispatch") \/ Stay(s, "handler")
    BY <1>6 DEF MarkProcessing, Execute
  <2>5. QED
    BY <2>1, <2>2, <2>3, <2>4, StayKeeps, PartsMakeInv DEF Locations
<1>7. ASSUME NEW s \in Senders, dispatch(s) PROVE Inv'
  <2> DEFINE r == Record(s).row
  <2>1. r \in Rows /\ batch[s] # <<>>
    BY <1>7, RecordType DEF dispatch, Busy, Inv, Holding
  <2>2. PICK o \in Outcomes(r) :
          /\ applied' = [applied EXCEPT ![r] = IF o.accepted THEN @ + 1 ELSE @]
          /\ Stay(s, o.goto)
    BY <1>7 DEF dispatch
  <2>3. o \in {Answered, Unheard, Refused, Raised}
    <3>1. Outcomes(r) = send_email \/ Outcomes(r) = send_crm_upsert \/ Outcomes(r) = {Refused}
      BY DEF Outcomes
    <3>2. QED
      BY <3>1 DEF send_email, send_crm_upsert
  <2>4. /\ o.goto \in {"mark_sent", "mark_failure", "handler"}
        /\ o.goto = "mark_sent" => o.accepted
    BY <2>3 DEF Answered, Unheard, Refused, Raised
  <2>5. \A q \in Rows : applied'[q] \in Nat /\ applied'[q] >= applied[q]
    BY <2>1, <2>2 DEF Inv, TypeOK
  <2>6. o.goto = "mark_sent" => applied'[r] > 0
    BY <2>1, <2>2, <2>4 DEF Inv, TypeOK
  <2>7. dispatches' \in [Rows -> Nat] /\ applied' \in [Rows -> Nat]
    BY <1>7, <2>1, <2>2 DEF dispatch, Inv, TypeOK
  <2>8. ASSUME NEW t \in Senders, pc'[t] = "mark_sent"
        PROVE  applied'[Record(t).row] > 0 /\ Record(t)' = Record(t)
    <3>1. Record(t)' = Record(t)
      BY <2>2 DEF Stay, Record
    <3>2. CASE t = s
      BY <2>2, <2>6, <2>8, <3>1, <3>2 DEF Stay, Goto, Inv, TypeOK
    <3>3. CASE t # s
      <4>1. pc[t] = "mark_sent"
        BY <2>2, <2>8, <3>3 DEF Stay, Goto, Inv, TypeOK
      <4>2. applied[Record(t).row] > 0 /\ Record(t).row \in Rows
        BY <4>1, RecordType DEF Inv, Confirmed, Busy
      <4>3. QED
        BY <2>5, <3>1, <4>2 DEF Inv, TypeOK
    <3>4. QED
      BY <3>2, <3>3
  <2>9. Confirmed'
    BY <2>8 DEF Confirmed
  <2>10. Holding' /\ pc' \in [Senders -> Locations]
    BY <2>1, <2>2, <2>4 DEF Inv, TypeOK, Holding, Stay, Goto, Locations
  <2>11. SentWasAccepted' /\ FailedCounted'
    BY <1>7, <2>5 DEF dispatch, table, Inv, TypeOK, SentWasAccepted, FailedCounted
  <2>12. QED
    BY <1>7, <2>2, <2>7, <2>9, <2>10, <2>11 DEF dispatch, table, Stay, Inv, TypeOK
<1>8. ASSUME NEW s \in Senders, MarkSent(s) PROVE Inv'
  <2>1. pc[s] \in Busy /\ Record(s).row \in Rows /\ batch[s] # <<>>
        /\ applied[Record(s).row] > 0
    BY <1>8, RecordType DEF MarkSent, Busy, Inv, Holding, Confirmed
  <2>2. TrueVerdicts
    BY <1>8, <2>1, StatementsKeepVerdicts DEF MarkSent, Execute
  <2>3. UNCHANGED <<stopping, stops>> /\ UNCHANGED history /\ faults' \in Nat
    BY <1>0, <1>8 DEF MarkSent, Execute
  <2>4. NextRecord(s) \/ Stay(s, "handler")
    BY <1>8 DEF MarkSent, Execute
  <2>5. QED
    BY <2>1, <2>2, <2>3, <2>4, StayKeeps, NextRecordKeeps, PartsMakeInv DEF Locations
<1>9. ASSUME NEW s \in Senders, MarkFailure(s) PROVE Inv'
  <2>1. pc[s] \in Busy /\ batch[s] # <<>>
    BY <1>9 DEF MarkFailure, Busy, Inv, Holding
  <2>2. TrueVerdicts
    BY <1>9, <2>1, StatementsKeepVerdicts DEF MarkFailure, Execute
  <2>3. UNCHANGED <<stopping, stops>> /\ UNCHANGED history /\ faults' \in Nat
    BY <1>0, <1>9 DEF MarkFailure, Execute
  <2>4. NextRecord(s) \/ Stay(s, "handler")
    BY <1>9 DEF MarkFailure, Execute
  <2>5. QED
    BY <2>1, <2>2, <2>3, <2>4, StayKeeps, NextRecordKeeps, PartsMakeInv DEF Locations
<1>10. ASSUME NEW s \in Senders, ExceptHandler(s) PROVE Inv'
  <2>1. pc[s] \in Busy
    BY <1>10 DEF ExceptHandler, Busy
  <2>2. TrueVerdicts
    BY <1>10, <2>1, StatementsKeepVerdicts DEF ExceptHandler, Execute
  <2>3. UNCHANGED <<stopping, stops>> /\ UNCHANGED history /\ faults' \in Nat
    BY <1>0, <1>10 DEF ExceptHandler, Execute
  <2>4. NextRecord(s) \/ LoopError(s)
    BY <1>10 DEF ExceptHandler, Execute
  <2>5. QED
    BY <2>1, <2>2, <2>3, <2>4, LoopErrorKeeps, NextRecordKeeps, PartsMakeInv
<1>11. ASSUME NEW s \in Senders, Sleep(s) PROVE Inv'
  <2>1. TrueVerdicts
    BY <1>11, StatementsKeepVerdicts DEF Sleep
  <2>2. SenderPart /\ UNCHANGED history
    BY <1>0, <1>11, StayKeeps DEF Sleep, Locations, Busy
  <2>3. QED
    BY <2>1, <2>2, PartsMakeInv
<1>12. ASSUME NEW s \in Senders, ShutdownSignal(s) PROVE Inv'
  <2>1. TrueVerdicts
    BY <1>12, StatementsKeepVerdicts DEF ShutdownSignal
  <2>2. SenderPart /\ UNCHANGED history
    BY <1>12 DEF ShutdownSignal, Inv, TypeOK, SenderPart, Holding, Confirmed, Record, history
  <2>3. QED
    BY <2>1, <2>2, PartsMakeInv
<1>13. ASSUME NEW s \in Senders, Crash(s) PROVE Inv'
  <2>1. TrueVerdicts
    BY <1>13, StatementsKeepVerdicts DEF Crash
  <2>2. SenderPart /\ UNCHANGED history
    BY <1>0, <1>13, EmptySeq DEF Crash, Goto, Inv, TypeOK, SenderPart, Holding, Confirmed,
       Busy, Locations, Record, history
  <2>3. QED
    BY <2>1, <2>2, PartsMakeInv
<1>14. CASE Tick
  <2>1. TrueVerdicts
    BY <1>14, OutboxAssumption DEF Tick, TrueVerdicts, Inv, TypeOK, SentWasAccepted,
       FailedCounted
  <2>2. SenderPart /\ UNCHANGED history
    BY <1>14 DEF Tick, senderVars, Inv, TypeOK, SenderPart, Holding, Confirmed, Record, history
  <2>3. QED
    BY <2>1, <2>2, PartsMakeInv
<1>15. CASE UNCHANGED vars
  BY <1>15 DEF vars, table, senderVars, history, Inv, TypeOK, Holding, Confirmed, Record,
     SentWasAccepted, FailedCounted
<1>16. QED
  BY <1>1, <1>2, <1>3, <1>4, <1>5, <1>6, <1>7, <1>8, <1>9, <1>10, <1>11, <1>12, <1>13,
     <1>14, <1>15 DEF Next, SendersNext, SenderStep

\* The invariant holds always, of every sender at every await.
THEOREM InvAlways == Spec => []Inv
BY InvInit, InvNext, PTL DEF Spec

-----------------------------------------------------------------------------

\* Every variable keeps its type.
THEOREM TypeCorrect == Spec => []TypeOK
<1>1. Inv => TypeOK
  BY DEF Inv
<1>2. QED
  BY <1>1, InvAlways, PTL

\* A row is SENT only if the provider accepted it, for any number of senders
\* that crash, lose acknowledgements and overwrite each other (process_record).
THEOREM SentImpliesAccepted == Spec => []SentWasAccepted
<1>1. Inv => SentWasAccepted
  BY DEF Inv
<1>2. QED
  BY <1>1, InvAlways, PTL

-----------------------------------------------------------------------------
(* The contract of senders that overlap.                                    *)

BatchWritten ==
  \A s \in Senders : \A i \in 1..Len(batch[s]) : status[batch[s][i].row] # "ABSENT"

\* The columns the verdicts are about, after a statement on one row.
Put(r, newStatus, newAttempts) ==
  /\ status' = [status EXCEPT ![r] = newStatus]
  /\ attempts' = [attempts EXCEPT ![r] = newAttempts]

LEMMA VerdictOfPut ==
  ASSUME Inv, NEW r \in Rows, NEW st \in Statuses, NEW n, Put(r, st, n)
  PROVE  Verdict' = [Verdict EXCEPT ![r] = CASE st = "SENT" -> "sent"
                                              [] st = "FAILED" -> "failed"
                                              [] st = "ABSENT" -> "none"
                                              [] OTHER -> "queued"]
BY DEF Verdict, Put, Inv, TypeOK

LEMMA VerdictOfStatus ==
  ASSUME NEW r \in Rows
  PROVE  /\ status[r] = "ABSENT" <=> Verdict[r] = "none"
         /\ status[r] \in {"PENDING", "PROCESSING"} => Verdict[r] = "queued"
BY DEF Verdict

\* Where the records of a sender at work are found once its first one is taken off
\* (process_record).
LEMMA TailRecords ==
  ASSUME Inv, NEW s \in Senders, pc[s] \in Busy
  PROVE  /\ 1 \in 1..Len(batch[s]) /\ Record(s) = batch[s][1]
         /\ \A i \in 1..Len(Tail(batch[s])) :
              i + 1 \in 1..Len(batch[s]) /\ Tail(batch[s])[i] = batch[s][i + 1]
<1>1. batch[s] \in Seq(Snapshots) /\ batch[s] # <<>>
  BY DEF Inv, TypeOK, Holding
<1>2. Len(batch[s]) \in Nat \ {0}
  BY <1>1, EmptySeq
<1>3. /\ Len(Tail(batch[s])) = Len(batch[s]) - 1
      /\ \A i \in 1..Len(Tail(batch[s])) : Tail(batch[s])[i] = batch[s][i + 1]
  BY <1>1, HeadTailProperties
<1>4. \A i \in 1..Len(Tail(batch[s])) : i + 1 \in 1..Len(batch[s])
  <2> DEFINE n == Len(batch[s])
             m == Len(Tail(batch[s]))
  <2>1. n \in Nat /\ m = n - 1
    BY <1>2, <1>3
  <2> HIDE DEF n, m
  <2>2. \A i \in 1..m : i + 1 \in 1..n
    BY <2>1
  <2>3. QED
    BY <2>2 DEF n, m
<1>5. 1 \in 1..Len(batch[s]) /\ Record(s) = batch[s][1]
  BY <1>1, <1>2 DEF Record
<1>6. QED
  BY <1>3, <1>4, <1>5

\* The row at hand was inserted, and the rest of the batch as well (poll_outbox).
LEMMA HeadWritten ==
  ASSUME Inv, BatchWritten, NEW s \in Senders, pc[s] \in Busy
  PROVE  /\ status[Record(s).row] # "ABSENT"
         /\ \A i \in 1..Len(Tail(batch[s])) : status[Tail(batch[s])[i].row] # "ABSENT"
BY TailRecords DEF BatchWritten

\* A record of a poll is a due row with the attempts it has at that time
\* (poll_outbox).
LEMMA PolledRecord ==
  ASSUME Inv, NEW n \in 0..BATCH_SIZE, NEW f \in [1..n -> Due], NEW b,
         b = [j \in 1..n |-> [row |-> f[j], attempts |-> attempts[f[j]]]],
         NEW i \in 1..Len(b)
  PROVE  f[i] \in Due /\ f[i] \in Rows /\ b[i].row = f[i] /\ b[i].attempts = attempts[f[i]]
<1>1. n \in Nat
  BY OutboxAssumption
<1>2. \A j \in 1..n : [row |-> f[j], attempts |-> attempts[f[j]]] \in Snapshots
  BY DEF Due, Snapshots, Inv, TypeOK
<1>3. b \in Seq(Snapshots)
  BY <1>1, <1>2, SeqDef
<1>4. DOMAIN b = 1..Len(b) /\ DOMAIN b = 1..n
  BY <1>3, LenProperties
<1>5. QED
  BY <1>4 DEF Due

\* What senders may do to the verdict of a row: revise it, if it has one.
Revised(r) ==
  /\ Verdict[r] # "none" /\ UNCHANGED applied
  /\ \E v \in {"queued", "sent", "failed"} :
       Verdict' = [Verdict EXCEPT ![r] = v] /\ (v = "sent" => applied[r] > 0)

Accepted(r) ==
  /\ Verdict[r] # "none" /\ UNCHANGED Verdict
  /\ applied' = [applied EXCEPT ![r] = @ + 1]

\* One row at a time: the recovery frees many, and changes no verdict
\* (process_record, recover_stuck_entries).
LEMMA SendersRevise ==
  ASSUME Inv, BatchWritten, SendersNext
  PROVE  (\E r \in Rows : Revised(r) \/ Accepted(r)) \/ UNCHANGED <<Verdict, applied>>
<1> DEFINE Goal == (\E r \in Rows : Revised(r) \/ Accepted(r)) \/ UNCHANGED <<Verdict, applied>>
<1>1. UNCHANGED status => UNCHANGED Verdict
  BY DEF Verdict
<1>2. ASSUME NEW s \in Senders,
             Start(s) \/ LoopHead(s) \/ poll_outbox(s) \/ Sleep(s) \/ ShutdownSignal(s) \/ Crash(s)
      PROVE  Goal
  <2>1. UNCHANGED <<status, applied>>
    BY <1>2 DEF Start, LoopHead, poll_outbox, Sleep, ShutdownSignal, Crash, table, history
  <2> QED
    BY <1>1, <2>1
<1>3. CASE Tick
  BY <1>1, <1>3 DEF Tick, history
<1>4. ASSUME NEW s \in Senders, Recover(s) PROVE Goal
  <2>1. UNCHANGED applied
    BY <1>4 DEF Recover, history
  <2>2. CASE UNCHANGED table
    BY <1>1, <2>1, <2>2 DEF table
  <2>3. CASE recover_stuck_entries
    <3>1. \A r \in Rows : \/ status'[r] = status[r]
                          \/ status[r] = "PROCESSING" /\ status'[r] = "PENDING"
      BY <2>3 DEF recover_stuck_entries, Stuck, Inv, TypeOK
    <3>2. UNCHANGED Verdict
      BY <3>1 DEF Verdict
    <3> QED
      BY <2>1, <3>2
  <2> QED
    BY <1>4, <2>2, <2>3 DEF Recover, Execute
<1>5. ASSUME NEW r \in Rows, status[r] # "ABSENT", UNCHANGED applied,
             NEW st \in Statuses \ {"ABSENT"}, NEW n, Put(r, st, n),
             st = "SENT" => applied[r] > 0
      PROVE  Revised(r)
  BY <1>5, VerdictOfPut, VerdictOfStatus DEF Revised, Statuses
<1>6. ASSUME NEW s \in Senders, MarkProcessing(s) PROVE Goal
  <2>1. pc[s] \in Busy /\ UNCHANGED applied
    BY <1>6 DEF MarkProcessing, Busy, history
  <2>2. Record(s).row \in Rows /\ status[Record(s).row] # "ABSENT"
    BY <2>1, RecordType, HeadWritten DEF Inv
  <2>3. CASE UNCHANGED table
    BY <1>1, <2>1, <2>3 DEF table
  <2>4. CASE mark_outbox_processing(Record(s).row)
    <3>1. Put(Record(s).row, "PROCESSING", attempts[Record(s).row])
      BY <2>4 DEF mark_outbox_processing, Write, Put
    <3> QED
      BY <1>5, <2>1, <2>2, <3>1 DEF Statuses
  <2> QED
    BY <1>6, <2>3, <2>4 DEF MarkProcessing, Execute
<1>7. ASSUME NEW s \in Senders, MarkSent(s) PROVE Goal
  <2>1. pc[s] = "mark_sent" /\ pc[s] \in Busy /\ UNCHANGED applied
    BY <1>7 DEF MarkSent, Busy, history
  <2>2. /\ Record(s).row \in Rows /\ status[Record(s).row] # "ABSENT"
        /\ applied[Record(s).row] > 0
    BY <2>1, RecordType, HeadWritten DEF Inv, Confirmed
  <2>3. CASE UNCHANGED table
    BY <1>1, <2>1, <2>3 DEF table
  <2>4. CASE mark_outbox_sent(Record(s).row)
    <3>1. Put(Record(s).row, "SENT", attempts[Record(s).row])
      BY <2>4 DEF mark_outbox_sent, Write, Put
    <3> QED
      BY <1>5, <2>1, <2>2, <3>1 DEF Statuses
  <2> QED
    BY <1>7, <2>3, <2>4 DEF MarkSent, Execute
<1>8. ASSUME NEW s \in Senders, MarkFailure(s) \/ ExceptHandler(s) PROVE Goal
  <2>1. pc[s] \in Busy /\ UNCHANGED applied
    BY <1>8 DEF MarkFailure, ExceptHandler, Busy, history
  <2>2. Record(s).row \in Rows /\ status[Record(s).row] # "ABSENT"
    BY <2>1, RecordType, HeadWritten DEF Inv
  <2>3. CASE UNCHANGED table
    BY <1>1, <2>1, <2>3 DEF table
  <2>4. CASE RecordFailure(s)
    <3>1. \E st \in {"PENDING", "FAILED"} : Put(Record(s).row, st, NewAttempt(s))
      BY <2>4 DEF RecordFailure, mark_outbox_failed, mark_outbox_permanently_failed, Write, Put
    <3> QED
      BY <1>5, <2>1, <2>2, <3>1 DEF Statuses
  <2> QED
    BY <1>8, <2>3, <2>4 DEF MarkFailure, ExceptHandler, Execute
<1>9. ASSUME NEW s \in Senders, dispatch(s) PROVE Goal
  <2>1. pc[s] \in Busy /\ UNCHANGED table
    BY <1>9 DEF dispatch, Busy
  <2>2. PICK r \in Rows : r = Record(s).row /\ Verdict[r] # "none"
    BY <2>1, RecordType, HeadWritten, VerdictOfStatus DEF Inv
  <2>3. UNCHANGED Verdict
    BY <1>1, <2>1 DEF table
  <2>4. applied' = [applied EXCEPT ![r] = @ + 1] \/ applied' = [applied EXCEPT ![r] = @]
    BY <1>9, <2>2 DEF dispatch
  <2>5. applied' = [applied EXCEPT ![r] = @] => UNCHANGED applied
    BY DEF Inv, TypeOK
  <2> QED
    BY <2>2, <2>3, <2>4, <2>5 DEF Accepted
<1> QED
  BY <1>2, <1>3, <1>4, <1>6, <1>7, <1>8, <1>9 DEF SendersNext, SenderStep

\* An insert submits, or meets its key and does nothing (insert_outbox).
LEMMA InsertSubmits ==
  ASSUME Inv, NEW r \in Rows, insert_outbox(r)
  PROVE  /\ UNCHANGED applied
         /\ \/ Verdict[r] = "none" /\ Verdict' = [Verdict EXCEPT ![r] = "queued"]
            \/ Verdict[r] # "none" /\ UNCHANGED Verdict
<1>1. UNCHANGED applied
  BY DEF insert_outbox, history
<1>2. CASE status[r] = "ABSENT"
  <2>1. Put(r, "PENDING", 0)
    BY <1>2 DEF insert_outbox, Write, Put
  <2> QED
    BY <1>1, <1>2, <2>1, VerdictOfPut, VerdictOfStatus DEF Statuses
<1>3. CASE status[r] # "ABSENT"
  <2>1. UNCHANGED status
    BY <1>3 DEF insert_outbox, table
  <2> QED
    BY <1>1, <1>3, <2>1, VerdictOfStatus DEF Verdict
<1> QED
  BY <1>2, <1>3

\* No row is ever withdrawn.
LEMMA WrittenStays ==
  ASSUME Inv, BatchWritten, Next, NEW r \in Rows, status[r] # "ABSENT"
  PROVE  status'[r] # "ABSENT"
<1>1. Verdict[r] # "none" /\ Verdict \in [Rows -> {"none", "queued", "sent", "failed"}]
  BY VerdictOfStatus DEF Verdict
<1>2. Verdict'[r] # "none"
  <2>1. CASE SendersNext
    BY <1>1, <2>1, SendersRevise DEF Revised, Accepted
  <2>2. CASE \E q \in Rows : insert_outbox(q)
    BY <1>1, <2>2, InsertSubmits
  <2> QED
    BY <2>1, <2>2 DEF Next
<1> QED
  BY <1>2 DEF Verdict

\* What a step may do to the batch of a sender: nothing, drop it, take its first
\* record off, or poll another (run_sender).
LEMMA BatchMoves ==
  ASSUME Inv, Next, NEW s \in Senders
  PROVE  \/ batch'[s] = batch[s] \/ batch'[s] = <<>>
         \/ NextRecord(s) /\ pc[s] \in Busy
         \/ \E n \in 0..BATCH_SIZE : \E f \in [1..n -> Due] :
              batch'[s] = [j \in 1..n |-> [row |-> f[j], attempts |-> attempts[f[j]]]]
<1> USE DEF Inv, TypeOK
<1>1. CASE \E r \in Rows : insert_outbox(r)
  BY <1>1 DEF insert_outbox, senderVars
<1>2. CASE Tick
  BY <1>2 DEF Tick, senderVars
<1>3. ASSUME NEW t \in Senders,
             \/ Start(t) \/ LoopHead(t) \/ Recover(t) \/ MarkProcessing(t) \/ dispatch(t)
             \/ Sleep(t) \/ ShutdownSignal(t) \/ Crash(t)
      PROVE  batch'[s] = batch[s] \/ batch'[s] = <<>>
  BY <1>3 DEF Start, LoopHead, Recover, Execute, MarkProcessing, dispatch, Sleep,
     ShutdownSignal, Crash, Stay, LoopError
<1>4. ASSUME NEW t \in Senders, MarkSent(t) \/ MarkFailure(t) \/ ExceptHandler(t)
      PROVE  \/ batch'[s] = batch[s] \/ batch'[s] = <<>>
             \/ NextRecord(s) /\ pc[s] \in Busy
  <2>1. pc[t] \in Busy /\ (NextRecord(t) \/ UNCHANGED batch \/ LoopError(t))
    BY <1>4 DEF MarkSent, MarkFailure, ExceptHandler, Execute, Stay, Busy
  <2> QED
    BY <2>1 DEF NextRecord, LoopError
<1>5. ASSUME NEW t \in Senders, poll_outbox(t)
      PROVE  \/ batch'[s] = batch[s] \/ batch'[s] = <<>>
             \/ \E n \in 0..BATCH_SIZE : \E f \in [1..n -> Due] :
                  batch'[s] = [j \in 1..n |-> [row |-> f[j], attempts |-> attempts[f[j]]]]
  BY <1>5 DEF poll_outbox, LoopError
<1> QED
  BY <1>1, <1>2, <1>3, <1>4, <1>5 DEF Next, SendersNext, SenderStep

LEMMA BatchWrittenNext == Inv /\ BatchWritten /\ [Next]_vars => BatchWritten'
<1> SUFFICES ASSUME Inv, BatchWritten, [Next]_vars, NEW s \in Senders,
                    NEW i \in 1..Len(batch'[s])
             PROVE  status'[batch'[s][i].row] # "ABSENT"
  BY DEF BatchWritten
<1>1. CASE UNCHANGED vars
  BY <1>1 DEF vars, table, senderVars, BatchWritten
<1>2. CASE Next
  <2>1. ASSUME NEW r \in Rows, status[r] # "ABSENT" PROVE status'[r] # "ABSENT"
    BY <1>2, <2>1, WrittenStays
  <2>2. CASE batch'[s] = batch[s]
    <3>1. batch[s][i] \in Snapshots
      BY <2>2, ElementOfSeq DEF Inv, TypeOK
    <3> QED
      BY <2>1, <2>2, <3>1 DEF BatchWritten, Snapshots
  <2>3. CASE batch'[s] = <<>>
    BY <2>3, EmptySeq
  <2>4. CASE NextRecord(s) /\ pc[s] \in Busy
    <3>1. batch'[s] = Tail(batch[s]) /\ Tail(batch[s]) \in Seq(Snapshots)
      BY <2>4, RecordType DEF NextRecord, Inv, TypeOK
    <3>2. Tail(batch[s])[i] \in Snapshots
      BY <3>1, ElementOfSeq
    <3> QED
      BY <2>1, <2>4, <3>1, <3>2, HeadWritten DEF Snapshots
  <2>5. ASSUME NEW n \in 0..BATCH_SIZE, NEW f \in [1..n -> Due],
               batch'[s] = [j \in 1..n |-> [row |-> f[j], attempts |-> attempts[f[j]]]]
        PROVE  status'[batch'[s][i].row] # "ABSENT"
    BY <2>1, <2>5, PolledRecord DEF Due
  <2> QED
    BY <1>2, <2>2, <2>3, <2>4, <2>5, BatchMoves
<1> QED
  BY <1>1, <1>2

LEMMA BatchWrittenInit == Init => BatchWritten
BY EmptySeq DEF Init, BatchWritten

\* Every record a sender has in hand is of a row that was inserted (poll_outbox).
THEOREM BatchIsWritten == Spec => [](Inv /\ BatchWritten)
BY InvInit, InvNext, BatchWrittenInit, BatchWrittenNext, PTL DEF Spec

-----------------------------------------------------------------------------
(* What a count of attempts is worth, however many senders write it.        *)

\* How often an attempt at r was made for all anyone can tell: the provider was
\* asked, or a fault kept it from being asked or being heard.
Tried == [r \in Rows |-> dispatches[r] + faults]

Settled == {"mark_sent", "mark_failure", "handler"}

\* No row and no record counts more than was tried, and where a record is about
\* to be counted as failed its own attempt has been made.
RowsTried == \A r \in Rows : attempts[r] <= Tried[r]

RecordsTried ==
  \A s \in Senders : \A i \in 1..Len(batch[s]) : batch[s][i].attempts <= Tried[batch[s][i].row]

HeadTried == \A s \in Senders : pc[s] \in Settled => NewAttempt(s) <= Tried[Record(s).row]

Counts == RowsTried /\ RecordsTried /\ HeadTried

\* What was tried stays tried, once more for every dispatch and every fault.
LEMMA TriedGrows ==
  ASSUME Inv, Next
  PROVE  /\ \A r \in Rows : Tried[r] \in Nat /\ Tried'[r] \in Nat /\ Tried[r] <= Tried'[r]
         /\ \A s \in Senders : dispatch(s) => Tried[Record(s).row] + 1 <= Tried'[Record(s).row]
         /\ Fault => \A r \in Rows : Tried[r] + 1 <= Tried'[r]
<1>1. faults \in Nat /\ dispatches \in [Rows -> Nat]
  BY DEF Inv, TypeOK
<1>2. ASSUME NEW s \in Senders, dispatch(s)
      PROVE  /\ dispatches' = [dispatches EXCEPT ![Record(s).row] = @ + 1]
             /\ faults' = faults /\ Record(s).row \in Rows
  BY <1>2, RecordType DEF dispatch, Busy, Inv
<1>3. (\E s \in Senders : dispatch(s)) \/ UNCHANGED dispatches
  BY DEF Next, SendersNext, SenderStep, insert_outbox, Start, LoopHead, Recover,
     poll_outbox, MarkProcessing, MarkSent, MarkFailure, ExceptHandler, Sleep,
     ShutdownSignal, Crash, Tick, history
<1>4. faults' = faults \/ Fault
  BY DEF Next, SendersNext, SenderStep, insert_outbox, Start, LoopHead, Recover, Execute,
     poll_outbox, MarkProcessing, dispatch, MarkSent, MarkFailure, ExceptHandler, Sleep,
     ShutdownSignal, Crash, Tick
<1>5. Fault => faults' = faults + 1
  BY DEF Fault
<1>6. ASSUME NEW r \in Rows PROVE dispatches'[r] \in Nat /\ dispatches[r] <= dispatches'[r]
  BY <1>1, <1>2, <1>3, <1>6
<1>7. \A r \in Rows : Tried[r] = dispatches[r] + faults /\ Tried'[r] = dispatches'[r] + faults'
  BY DEF Tried
<1>8. faults' \in Nat /\ faults <= faults'
  BY <1>1, <1>4, <1>5
<1>9. ASSUME NEW s \in Senders, dispatch(s)
      PROVE  Tried[Record(s).row] + 1 <= Tried'[Record(s).row]
  BY <1>1, <1>2, <1>7, <1>9
<1>10. ASSUME Fault, NEW r \in Rows PROVE Tried[r] + 1 <= Tried'[r]
  BY <1>1, <1>5, <1>6, <1>7, <1>10
<1>11. ASSUME NEW r \in Rows
       PROVE  Tried[r] \in Nat /\ Tried'[r] \in Nat /\ Tried[r] <= Tried'[r]
  BY <1>1, <1>6, <1>7, <1>8
<1>12. QED
  BY <1>9, <1>10, <1>11

\* The attempts of a row are what they were, none, or those of a record whose
\* attempt has just failed (outbox_queries.py, insert_outbox).
LEMMA AttemptsWritten ==
  ASSUME Inv, Next, NEW r \in Rows
  PROVE  \/ attempts'[r] = attempts[r] \/ attempts'[r] = 0
         \/ \E s \in Senders : /\ pc[s] \in {"mark_failure", "handler"}
                              /\ r = Record(s).row /\ attempts'[r] = NewAttempt(s)
<1> DEFINE Goal == \/ attempts'[r] = attempts[r] \/ attempts'[r] = 0
                   \/ \E s \in Senders : /\ pc[s] \in {"mark_failure", "handler"}
                                        /\ r = Record(s).row /\ attempts'[r] = NewAttempt(s)
<1>1. attempts \in [Rows -> Nat]
  BY DEF Inv, TypeOK
<1>2. UNCHANGED table => UNCHANGED attempts
  BY DEF table
<1>3. ASSUME NEW q \in Rows, insert_outbox(q) PROVE Goal
  BY <1>1, <1>2, <1>3 DEF insert_outbox, Write
<1>4. CASE Tick
  BY <1>4 DEF Tick
<1>5. ASSUME NEW s \in Senders, MarkFailure(s) \/ ExceptHandler(s) PROVE Goal
  <2>1. pc[s] \in {"mark_failure", "handler"} /\ (RecordFailure(s) \/ UNCHANGED table)
    BY <1>5 DEF MarkFailure, ExceptHandler, Execute
  <2>2. RecordFailure(s) => attempts' = [attempts EXCEPT ![Record(s).row] = NewAttempt(s)]
    BY DEF RecordFailure, mark_outbox_failed, mark_outbox_permanently_failed, Write
  <2> QED
    BY <1>1, <1>2, <2>1, <2>2
<1>6. ASSUME NEW s \in Senders, MarkProcessing(s) \/ MarkSent(s) PROVE Goal
  <2>1. \/ mark_outbox_processing(Record(s).row) \/ mark_outbox_sent(Record(s).row)
        \/ UNCHANGED table
    BY <1>6 DEF MarkProcessing, MarkSent, Execute
  <2>2. mark_outbox_processing(Record(s).row) \/ mark_outbox_sent(Record(s).row)
        => attempts' = [attempts EXCEPT ![Record(s).row] = attempts[Record(s).row]]
    BY DEF mark_outbox_processing, mark_outbox_sent, Write
  <2> QED
    BY <1>1, <1>2, <2>1, <2>2
<1>7. ASSUME NEW s \in Senders,
             \/ Start(s) \/ LoopHead(s) \/ Recover(s) \/ poll_outbox(s) \/ dispatch(s)
             \/ Sleep(s) \/ ShutdownSignal(s) \/ Crash(s)
      PROVE  Goal
  BY <1>2, <1>7 DEF Start, LoopHead, Recover, Execute, recover_stuck_entries, poll_outbox,
     dispatch, Sleep, ShutdownSignal, Crash
<1>8. QED
  BY <1>3, <1>4, <1>5, <1>6, <1>7 DEF Next, SendersNext, SenderStep

\* How a sender gets where an attempt is settled: it was there already, it has
\* asked the provider, or its claim of the row failed (process_record).
LEMMA SettledFrom ==
  ASSUME Inv, Next, NEW s \in Senders, pc'[s] \in Settled
  PROVE  /\ batch'[s] = batch[s] /\ pc[s] \in Busy
         /\ pc[s] \in Settled \/ dispatch(s) \/ Fault
<1> DEFINE Stays == pc'[s] = pc[s] /\ batch'[s] = batch[s]
<1> USE DEF Inv, TypeOK, Settled
<1>1. ASSUME NEW r \in Rows, insert_outbox(r) PROVE Stays
  BY <1>1 DEF insert_outbox, senderVars
<1>2. Tick => Stays
  BY DEF Tick, senderVars
<1>3. ASSUME NEW t \in Senders, NEW loc, Goto(t, loc), loc \notin Settled
      PROVE  s # t /\ pc'[s] = pc[s]
  BY <1>3 DEF Goto
<1>4. ASSUME NEW t \in Senders, NextRecord(t) \/ LoopError(t)
      PROVE  Stays
  BY <1>3, <1>4 DEF NextRecord, LoopError
<1>5. ASSUME NEW t \in Senders,
             \/ Start(t) \/ LoopHead(t) \/ Recover(t) \/ poll_outbox(t) \/ Sleep(t)
             \/ ShutdownSignal(t) \/ Crash(t)
      PROVE  Stays
  BY <1>3, <1>4, <1>5 DEF Start, LoopHead, Recover, Execute, poll_outbox, Sleep, Stay,
     ShutdownSignal, Crash
<1>6. ASSUME NEW t \in Senders, MarkProcessing(t)
      PROVE  /\ batch'[s] = batch[s] /\ pc[s] \in Busy
             /\ pc[s] \in Settled \/ Fault
  <2>1. batch' = batch /\ pc[t] = "mark_processing"
    BY <1>6 DEF MarkProcessing, Execute, Stay
  <2>2. CASE Goto(t, "dispatch")
    BY <1>3, <2>1, <2>2 DEF Busy
  <2>3. CASE Goto(t, "handler") /\ Fault
    BY <2>1, <2>3 DEF Goto, Busy
  <2> QED
    BY <1>6, <2>2, <2>3 DEF MarkProcessing, Execute, Stay
<1>7. ASSUME NEW t \in Senders, dispatch(t)
      PROVE  /\ batch'[s] = batch[s] /\ pc[s] \in Busy
             /\ pc[s] \in Settled \/ dispatch(s)
  BY <1>7 DEF dispatch, Stay, Goto, Busy
<1>8. ASSUME NEW t \in Senders, MarkSent(t) \/ MarkFailure(t) \/ ExceptHandler(t)
      PROVE  batch'[s] = batch[s] /\ pc[s] \in Settled
  <2>1. pc[t] \in Settled
    BY <1>8 DEF MarkSent, MarkFailure, ExceptHandler
  <2>2. CASE NextRecord(t) \/ LoopError(t)
    BY <1>4, <2>2
  <2>3. CASE Stay(t, "handler")
    BY <2>1, <2>3 DEF Stay, Goto
  <2> QED
    BY <1>8, <2>2, <2>3 DEF MarkSent, MarkFailure, ExceptHandler, Execute
<1> DEFINE Goal == /\ batch'[s] = batch[s] /\ pc[s] \in Busy
                   /\ pc[s] \in Settled \/ dispatch(s) \/ Fault
<1>9. Stays \/ (batch'[s] = batch[s] /\ pc[s] \in Settled) => Goal
  BY DEF Busy
<1>10. ASSUME NEW t \in Senders, SenderStep(t) \/ ShutdownSignal(t) \/ Crash(t) PROVE Goal
  <2> HIDE DEF Stays, Settled
  <2> QED
    BY <1>5, <1>6, <1>7, <1>8, <1>9, <1>10 DEF SenderStep
<1>11. ASSUME NEW r \in Rows, insert_outbox(r) PROVE Goal
  BY <1>1, <1>9, <1>11
<1>12. CASE Tick
  BY <1>2, <1>9, <1>12
<1> QED
  BY <1>10, <1>11, <1>12 DEF Next, SendersNext

LEMMA CountsNext == Inv /\ Counts /\ [Next]_vars => Counts'
<1> SUFFICES ASSUME Inv, Counts, [Next]_vars PROVE Counts'
  OBVIOUS
<1>1. CASE UNCHANGED vars
  BY <1>1 DEF vars, table, senderVars, history, Counts, RowsTried, RecordsTried, HeadTried,
     Tried, NewAttempt, Record
<1>2. CASE Next
  <2>0. \A r \in Rows : Tried[r] \in Nat /\ Tried'[r] \in Nat /\ Tried[r] <= Tried'[r]
    BY <1>2, TriedGrows
  <2>1. RowsTried'
    <3> SUFFICES ASSUME NEW r \in Rows PROVE attempts'[r] <= Tried'[r]
      BY DEF RowsTried
    <3>1. attempts[r] \in Nat /\ attempts[r] <= Tried[r]
      BY DEF Counts, RowsTried, Inv, TypeOK
    <3>2. ASSUME NEW s \in Senders, pc[s] \in {"mark_failure", "handler"}, r = Record(s).row,
                 attempts'[r] = NewAttempt(s)
          PROVE  attempts'[r] \in Nat /\ attempts'[r] <= Tried[r]
      BY <3>2, RecordType DEF Counts, HeadTried, Settled, Busy, Inv
    <3> QED
      BY <1>2, <2>0, <3>1, <3>2, AttemptsWritten
  <2>2. RecordsTried'
    <3> SUFFICES ASSUME NEW s \in Senders, NEW i \in 1..Len(batch'[s])
                 PROVE  batch'[s][i].attempts <= Tried'[batch'[s][i].row]
      BY DEF RecordsTried
    <3>1. ASSUME NEW c \in Snapshots, c.attempts <= Tried[c.row]
          PROVE  c.attempts <= Tried'[c.row]
      BY <2>0, <3>1 DEF Snapshots
    <3>2. \A j \in 1..Len(batch[s]) : batch[s][j] \in Snapshots
      BY ElementOfSeq DEF Inv, TypeOK
    <3>3. \A j \in 1..Len(batch[s]) : batch[s][j].attempts <= Tried'[batch[s][j].row]
      <4> SUFFICES ASSUME NEW j \in 1..Len(batch[s])
                   PROVE  batch[s][j].attempts <= Tried'[batch[s][j].row]
        OBVIOUS
      <4>1. batch[s][j].attempts <= Tried[batch[s][j].row]
        BY DEF Counts, RecordsTried
      <4> QED
        BY <3>1, <3>2, <4>1
    <3>4. CASE batch'[s] = batch[s]
      BY <3>3, <3>4
    <3>5. CASE batch'[s] = <<>>
      BY <3>5, EmptySeq
    <3>6. CASE NextRecord(s) /\ pc[s] \in Busy
      <4>1. batch'[s] = Tail(batch[s])
        BY <3>6 DEF NextRecord, Inv, TypeOK
      <4>2. i \in 1..Len(Tail(batch[s]))
        BY <4>1
      <4>3. i + 1 \in 1..Len(batch[s]) /\ Tail(batch[s])[i] = batch[s][i + 1]
        BY <3>6, <4>2, TailRecords
      <4>4. batch[s][i + 1].attempts <= Tried'[batch[s][i + 1].row]
        BY <3>3, <4>3
      <4>5. batch'[s][i] = batch[s][i + 1]
        BY <4>1, <4>3
      <4> QED
        BY <4>4, <4>5
    <3>7. ASSUME NEW n \in 0..BATCH_SIZE, NEW f \in [1..n -> Due],
                 batch'[s] = [j \in 1..n |-> [row |-> f[j], attempts |-> attempts[f[j]]]]
          PROVE  batch'[s][i].attempts <= Tried'[batch'[s][i].row]
      <4> DEFINE b == batch'[s]
      <4>1. b = [j \in 1..n |-> [row |-> f[j], attempts |-> attempts[f[j]]]] /\ i \in 1..Len(b)
        BY <3>7
      <4> HIDE DEF b
      <4>2. f[i] \in Rows /\ b[i].row = f[i] /\ b[i].attempts = attempts[f[i]]
        BY <4>1, PolledRecord
      <4>3. attempts[f[i]] \in Nat /\ attempts[f[i]] <= Tried[f[i]]
        BY <4>2 DEF Counts, RowsTried, Inv, TypeOK
      <4> QED
        BY <2>0, <4>2, <4>3 DEF b
    <3> QED
      BY <1>2, <3>4, <3>5, <3>6, <3>7, BatchMoves
  <2>3. HeadTried'
    <3> SUFFICES ASSUME NEW s \in Senders, pc'[s] \in Settled
                 PROVE  NewAttempt(s)' <= Tried'[Record(s)'.row]
      BY DEF HeadTried, NewAttempt, Record
    <3>1. /\ batch'[s] = batch[s] /\ pc[s] \in Busy
          /\ pc[s] \in Settled \/ dispatch(s) \/ Fault
      BY <1>2, SettledFrom
    <3>2. Record(s)' = Record(s) /\ NewAttempt(s)' = NewAttempt(s)
      BY <3>1 DEF Record, NewAttempt
    <3>3. Record(s).row \in Rows /\ NewAttempt(s) \in Nat /\ Record(s).attempts \in Nat
      BY <3>1, RecordType DEF Snapshots, Inv
    <3>4. Record(s).attempts <= Tried[Record(s).row]
      BY <3>1, TailRecords DEF Counts, RecordsTried
    <3>5. CASE pc[s] \in Settled
      BY <2>0, <3>2, <3>3, <3>5 DEF Counts, HeadTried
    <3>6. CASE dispatch(s) \/ Fault
      <4>1. Tried[Record(s).row] + 1 <= Tried'[Record(s).row]
        BY <1>2, <3>3, <3>6, TriedGrows
      <4> QED
        BY <2>0, <3>2, <3>3, <3>4, <4>1 DEF NewAttempt
    <3> QED
      BY <3>1, <3>5, <3>6
  <2> QED
    BY <2>1, <2>2, <2>3 DEF Counts
<1> QED
  BY <1>1, <1>2

\* However many senders there are and whatever counts they write over each
\* other, a row that is given up was tried max_attempts times (process_record,
\* sender.py:105-128).
THEOREM GivenUpTried == Spec => []GivenUpWasTried
<1>1. Init => Counts
  BY EmptySeq DEF Init, Counts, RowsTried, RecordsTried, HeadTried, Tried, Settled
<1>2. Inv /\ Counts => GivenUpWasTried
  <2> SUFFICES ASSUME Inv, Counts, NEW r \in Rows, status[r] = "FAILED"
               PROVE  attempts[r] >= MaxAttempts /\ Tried[r] >= MaxAttempts
    BY DEF GivenUpWasTried, Tried
  <2>1. attempts[r] >= MaxAttempts /\ attempts[r] <= Tried[r]
    BY DEF Inv, FailedCounted, Counts, RowsTried
  <2>2. attempts[r] \in Nat /\ Tried[r] \in Nat /\ MaxAttempts \in Nat
    BY OutboxAssumption DEF Inv, TypeOK, Tried
  <2> QED
    BY <2>1, <2>2
<1> QED
  BY <1>1, <1>2, CountsNext, InvInit, InvNext, PTL DEF Spec

-----------------------------------------------------------------------------
(* One sender.                                                              *)

Row(s) == Record(s).row
Snapshot(s) == Record(s).attempts
Positions(s) == 1..Len(batch[s])

Idle(s) == pc[s] \notin Busy => batch[s] = <<>>

Disjoint(s) == \A i, j \in Positions(s) : i # j => batch[s][i].row # batch[s][j].row

Waiting(s) ==
  \A i \in Positions(s) :
    i > 1 \/ pc[s] = "mark_processing"
      => /\ status[batch[s][i].row] = "PENDING"
         /\ attempts[batch[s][i].row] = batch[s][i].attempts

Retriable(s) == \A i \in Positions(s) : batch[s][i].attempts < MaxAttempts

AtHand(s) ==
  pc[s] \in {"dispatch", "mark_sent", "mark_failure"}
    => status[Row(s)] = "PROCESSING" /\ attempts[Row(s)] = Snapshot(s)

\* The except clause may run after any of the statements, done or not.
InHandler(s) ==
  pc[s] = "handler"
    => /\ status[Row(s)] # "ABSENT"
       /\ attempts[Row(s)] \in {Snapshot(s), Snapshot(s) + 1}
       /\ status[Row(s)] = "SENT" => attempts[Row(s)] = Snapshot(s)
       /\ ~AckCanBeLost => status[Row(s)] \in {"PENDING", "PROCESSING"}

BatchPart(s) == Idle(s) /\ Disjoint(s) /\ Waiting(s) /\ Retriable(s)
                  /\ AtHand(s) /\ InHandler(s)

Counted ==
  \A r \in Rows :
    /\ status[r] = "ABSENT" => attempts[r] = 0
    /\ status[r] # "FAILED" => attempts[r] < MaxAttempts
    /\ attempts[r] <= MaxAttempts

\* One dispatch is not in attempts: that of a row reported sent, and that of
\* the record at hand until its failure is written.
Owes(s, r) == \/ status[r] = "SENT"
              \/ /\ pc[s] \in {"mark_sent", "mark_failure", "handler"}
                 /\ r = Row(s) /\ attempts[r] = Snapshot(s)

Budget(s) ==
  \A r \in Rows : /\ dispatches[r] <= attempts[r] + faults + 1
                  /\ ~Owes(s, r) => dispatches[r] <= attempts[r] + faults

InProcess(s) ==
  faults = 0 =>
    \A r \in Rows : status[r] = "PROCESSING"
      => pc[s] \in {"dispatch", "mark_sent", "mark_failure", "handler"} /\ r = Row(s)

RowPart(s) == Counted /\ Budget(s) /\ InProcess(s)

SoleInv(s) == BatchPart(s) /\ RowPart(s)

-----------------------------------------------------------------------------
(* Facts about a sender at work.                                            *)

LEMMA AtWorkFacts ==
  ASSUME Inv, NEW s \in Senders, SoleInv(s), pc[s] \in Busy
  PROVE  /\ Row(s) \in Rows /\ Snapshot(s) \in Nat
         /\ Record(s) = batch[s][1] /\ 1 \in Positions(s)
         /\ Snapshot(s) < MaxAttempts
         /\ NewAttempt(s) = Snapshot(s) + 1
         /\ Len(batch[s]) \in Nat \ {0}
         /\ Len(Tail(batch[s])) = Len(batch[s]) - 1
         /\ \A i \in 1..Len(Tail(batch[s])) :
              i + 1 \in Positions(s) /\ Tail(batch[s])[i] = batch[s][i + 1]
         /\ \A i \in Positions(s) : batch[s][i].row \in Rows
<1>1. batch[s] \in Seq(Snapshots) /\ batch[s] # <<>>
  BY DEF Inv, TypeOK, Holding
<1>2. Len(batch[s]) \in Nat \ {0}
  BY <1>1, EmptySeq
<1>3. /\ Len(Tail(batch[s])) = Len(batch[s]) - 1
      /\ \A i \in 1..Len(Tail(batch[s])) : Tail(batch[s])[i] = batch[s][i + 1]
  BY <1>1, HeadTailProperties
<1>4. \A i \in 1..Len(Tail(batch[s])) : i + 1 \in Positions(s)
  <2> DEFINE n == Len(batch[s])
             m == Len(Tail(batch[s]))
  <2>1. n \in Nat /\ m = n - 1
    BY <1>2, <1>3
  <2> HIDE DEF n, m
  <2>2. \A i \in 1..m : i + 1 \in 1..n
    BY <2>1
  <2>3. QED
    BY <2>2 DEF n, m, Positions
<1>5. 1 \in Positions(s)
  BY <1>2 DEF Positions
<1>6. \A i \in Positions(s) : batch[s][i] \in Snapshots
  BY <1>1, ElementOfSeq DEF Positions
<1>7. Record(s) = batch[s][1]
  BY <1>1 DEF Record
<1>8. Snapshot(s) < MaxAttempts
  BY <1>5, <1>7 DEF SoleInv, BatchPart, Retriable, Snapshot
<1>9. QED
  BY <1>2, <1>3, <1>4, <1>5, <1>6, <1>7, <1>8, RecordType
     DEF Snapshots, Row, Snapshot, NewAttempt, Inv

\* The next record of the batch is found as it was polled.
LEMMA NextRecordBatch ==
  ASSUME Inv, NEW s \in Senders, SoleInv(s), pc[s] \in Busy,
         NEW st, NEW n, Put(Row(s), st, n), NextRecord(s)
  PROVE  BatchPart(s)'
<1> DEFINE b == batch[s]
           t == Tail(batch[s])
<1>1. /\ Row(s) \in Rows /\ Row(s) = b[1].row /\ 1 \in 1..Len(b)
      /\ Len(t) = Len(b) - 1 /\ Len(b) \in Nat \ {0}
      /\ \A i \in 1..Len(t) : i + 1 \in 1..Len(b) /\ t[i] = b[i + 1]
      /\ \A i \in 1..Len(b) : b[i].row \in Rows
  BY AtWorkFacts DEF Positions, Row
<1>2. /\ \A i, j \in 1..Len(b) : i # j => b[i].row # b[j].row
      /\ \A i \in 1..Len(b) : b[i].attempts < MaxAttempts
      /\ \A i \in 1..Len(b) : i > 1 => /\ status[b[i].row] = "PENDING"
                                       /\ attempts[b[i].row] = b[i].attempts
  BY DEF SoleInv, BatchPart, Disjoint, Retriable, Waiting, Positions
<1>3. batch'[s] = t /\ pc'[s] = IF Len(b) > 1 THEN "mark_processing" ELSE "sleep"
  BY DEF NextRecord, Goto, Inv, TypeOK
<1>4. Len(b) = 1 => t = <<>>
  <2>1. b \in Seq(Snapshots) /\ b # <<>>
    BY DEF Inv, TypeOK, Holding
  <2>2. t \in Seq(Snapshots)
    BY <2>1, HeadTailProperties
  <2> HIDE DEF b, t
  <2>3. Len(b) = 1 => Len(t) = 0
    BY <1>1
  <2>4. QED
    BY <2>2, <2>3, EmptySeq
<1> HIDE DEF b, t
<1>5. \A i \in 1..Len(t) : i + 1 > 1 /\ i + 1 # 1 /\ i \in Int
  BY <1>1
<1>6. \A i \in 1..Len(t) : /\ status'[t[i].row] = "PENDING"
                           /\ attempts'[t[i].row] = t[i].attempts
                           /\ t[i].attempts < MaxAttempts
  <2> SUFFICES ASSUME NEW i \in 1..Len(t)
               PROVE  /\ status'[t[i].row] = "PENDING"
                      /\ attempts'[t[i].row] = t[i].attempts
                      /\ t[i].attempts < MaxAttempts
    OBVIOUS
  <2>1. t[i] = b[i + 1] /\ b[i + 1].row \in Rows /\ b[i + 1].row # Row(s)
    BY <1>1, <1>2, <1>5
  <2>2. /\ status[b[i + 1].row] = "PENDING"
        /\ attempts[b[i + 1].row] = b[i + 1].attempts
        /\ b[i + 1].attempts < MaxAttempts
    BY <1>1, <1>2, <1>5
  <2>3. QED
    BY <2>1, <2>2 DEF Put, Inv, TypeOK
<1>7. \A i, j \in 1..Len(t) : i # j => t[i].row # t[j].row
  <2> SUFFICES ASSUME NEW i \in 1..Len(t), NEW j \in 1..Len(t), i # j
               PROVE  t[i].row # t[j].row
    OBVIOUS
  <2>1. i + 1 \in 1..Len(b) /\ j + 1 \in 1..Len(b) /\ i + 1 # j + 1
    BY <1>1, <1>5
  <2>2. b[i + 1].row # b[j + 1].row
    BY <1>2, <2>1
  <2>3. QED
    BY <1>1, <2>2
<1>8. pc'[s] \notin Busy => t = <<>>
  BY <1>1, <1>3, <1>4 DEF Busy
<1>9. QED
  BY <1>3, <1>6, <1>7, <1>8 DEF BatchPart, Idle, Disjoint, Waiting, Retriable, AtHand,
     InHandler, Positions

\* A statement on the record at hand leaves those that wait as they are.
LEMMA StayBatch ==
  ASSUME Inv, NEW s \in Senders, SoleInv(s), pc[s] \in Busy,
         NEW st, NEW n, Put(Row(s), st, n),
         NEW loc \in {"dispatch", "mark_sent", "mark_failure", "handler"}, Stay(s, loc),
         loc # "handler" => st = "PROCESSING" /\ n = Snapshot(s),
         loc = "handler" => /\ st # "ABSENT"
                            /\ n \in {Snapshot(s), Snapshot(s) + 1}
                            /\ st = "SENT" => n = Snapshot(s)
                            /\ ~AckCanBeLost => st \in {"PENDING", "PROCESSING"}
  PROVE  BatchPart(s)'
<1> DEFINE b == batch[s]
<1>1. /\ Row(s) \in Rows /\ Row(s) = b[1].row /\ 1 \in 1..Len(b)
      /\ Len(b) \in Nat
      /\ \A i \in 1..Len(b) : b[i].row \in Rows
  BY AtWorkFacts DEF Positions, Row
<1>2. /\ \A i, j \in 1..Len(b) : i # j => b[i].row # b[j].row
      /\ \A i \in 1..Len(b) : b[i].attempts < MaxAttempts
      /\ \A i \in 1..Len(b) : i > 1 => /\ status[b[i].row] = "PENDING"
                                       /\ attempts[b[i].row] = b[i].attempts
  BY DEF SoleInv, BatchPart, Disjoint, Retriable, Waiting, Positions
<1>3. /\ batch'[s] = b /\ pc'[s] = loc
      /\ Row(s)' = Row(s) /\ Snapshot(s)' = Snapshot(s)
  BY DEF Stay, Goto, Inv, TypeOK, Row, Snapshot, Record
<1> HIDE DEF b
<1>4. \A i \in 1..Len(b) : i > 1 => /\ status'[b[i].row] = "PENDING"
                                    /\ attempts'[b[i].row] = b[i].attempts
  BY <1>1, <1>2 DEF Put, Inv, TypeOK
<1>5. status'[Row(s)] = st /\ attempts'[Row(s)] = n
  BY <1>1 DEF Put, Inv, TypeOK
<1>6. AtHand(s)' /\ InHandler(s)'
  BY <1>3, <1>5 DEF AtHand, InHandler
<1>7. loc \in Busy /\ loc # "mark_processing"
  BY DEF Busy
<1>8. QED
  BY <1>2, <1>3, <1>4, <1>6, <1>7
     DEF BatchPart, Idle, Disjoint, Waiting, Retriable, Positions

\* Without a batch there is nothing to keep in step.
LEMMA EmptyBatch ==
  ASSUME NEW s \in Senders, batch'[s] = <<>>, pc'[s] \notin Busy
  PROVE  BatchPart(s)'
<1>1. Positions(s)' = {}
  BY EmptySeq DEF Positions
<1>2. QED
  BY <1>1 DEF BatchPart, Idle, Disjoint, Waiting, Retriable, AtHand, InHandler, Busy

-----------------------------------------------------------------------------
(* The rows.                                                                *)

\* The account after a statement on the record at hand: what the row owes is
\* counted in attempts now, is still owed, or was paid for by a fault.
LEMMA PutRows ==
  ASSUME Inv, NEW s \in Senders, SoleInv(s), pc[s] \in Busy,
         NEW r \in Rows, r = Row(s),
         NEW st, NEW n \in Nat, Put(r, st, n), UNCHANGED dispatches,
         st # "ABSENT", n <= MaxAttempts, st # "FAILED" => n < MaxAttempts,
         n >= attempts[r],
         faults' \in {faults, faults + 1},
         Owes(s, r) /\ ~Owes(s, r)' => faults' = faults + 1 \/ n > attempts[r],
         faults' = 0 => st # "PROCESSING"
                        \/ /\ pc'[s] \in {"dispatch", "mark_sent", "mark_failure", "handler"}
                           /\ Row(s)' = r
  PROVE  RowPart(s)'
<1>1. faults \in Nat /\ attempts[r] \in Nat
  BY DEF Inv, TypeOK
<1>2. status'[r] = st /\ attempts'[r] = n
  BY <1>1 DEF Put, Inv, TypeOK
<1>3. \A q \in Rows : q # r => status'[q] = status[q] /\ attempts'[q] = attempts[q]
  BY DEF Put, Inv, TypeOK
<1>4. Counted'
  BY <1>2, <1>3 DEF Counted, SoleInv, RowPart
<1>5. ASSUME NEW q \in Rows, q # r
      PROVE  /\ dispatches'[q] <= attempts'[q] + faults' + 1
             /\ ~Owes(s, q)' => dispatches'[q] <= attempts'[q] + faults'
  <2>1. dispatches[q] \in Nat /\ attempts[q] \in Nat
    BY DEF Inv, TypeOK
  <2>2. Owes(s, q) <=> status[q] = "SENT"
    BY <1>5 DEF Owes
  <2>3. ~Owes(s, q)' => ~Owes(s, q)
    BY <1>3, <1>5, <2>2 DEF Owes
  <2>4. QED
    BY <1>1, <1>3, <1>5, <2>1, <2>3 DEF SoleInv, RowPart, Budget
<1>6. /\ dispatches'[r] <= attempts'[r] + faults' + 1
      /\ ~Owes(s, r)' => dispatches'[r] <= attempts'[r] + faults'
  <2>1. dispatches[r] \in Nat
    BY <1>1 DEF Inv, TypeOK
  <2>2. /\ dispatches[r] <= attempts[r] + faults + 1
        /\ ~Owes(s, r) => dispatches[r] <= attempts[r] + faults
    BY <1>1 DEF SoleInv, RowPart, Budget
  <2>3. CASE Owes(s, r) /\ ~Owes(s, r)'
    BY <1>1, <1>2, <2>1, <2>2, <2>3
  <2>4. CASE ~(Owes(s, r) /\ ~Owes(s, r)')
    BY <1>1, <1>2, <2>1, <2>2, <2>4
  <2>5. QED
    BY <2>3, <2>4
<1>7. Budget(s)'
  <2> SUFFICES ASSUME NEW q \in Rows
               PROVE  (/\ dispatches[q] <= attempts[q] + faults + 1
                       /\ ~Owes(s, q) => dispatches[q] <= attempts[q] + faults)'
    BY DEF Budget
  <2>1. CASE q = r
    BY <1>6, <2>1
  <2>2. CASE q # r
    BY <1>5, <2>2
  <2>3. QED
    BY <2>1, <2>2
<1>8. InProcess(s)'
  <2> SUFFICES ASSUME faults' = 0, NEW q \in Rows, status'[q] = "PROCESSING"
               PROVE  /\ pc'[s] \in {"dispatch", "mark_sent", "mark_failure", "handler"}
                      /\ q = Row(s)'
    BY DEF InProcess
  <2>1. faults = 0
    BY <1>1
  <2>2. q # r => status[q] = "PROCESSING"
    BY <1>3
  <2>3. q = r
    BY <2>1, <2>2 DEF SoleInv, RowPart, InProcess
  <2>4. QED
    BY <1>2, <2>3
<1>9. QED
  BY <1>4, <1>7, <1>8 DEF RowPart

Settling == {"dispatch", "mark_sent", "mark_failure", "handler"}

\* Away from the provider, no dispatch is owed but those of rows reported sent,
\* so that a step may go anywhere, and a fault may pay for anything.
LEMMA SameRows ==
  ASSUME Inv, NEW s \in Senders, SoleInv(s),
         UNCHANGED <<status, attempts, dispatches>>,
         \/ pc[s] \notin Settling /\ faults' \in {faults, faults + 1}
         \/ faults' = faults + 1
  PROVE  RowPart(s)'
<1>1. faults \in Nat
  BY DEF Inv, TypeOK
<1>2. Counted'
  BY DEF Counted, SoleInv, RowPart
<1>3. Budget(s)'
  <2> SUFFICES ASSUME NEW q \in Rows
               PROVE  (/\ dispatches[q] <= attempts[q] + faults + 1
                       /\ ~Owes(s, q) => dispatches[q] <= attempts[q] + faults)'
    BY DEF Budget
  <2>1. dispatches[q] \in Nat /\ attempts[q] \in Nat
    BY DEF Inv, TypeOK
  <2>2. /\ dispatches[q] <= attempts[q] + faults + 1
        /\ ~Owes(s, q) => dispatches[q] <= attempts[q] + faults
    BY DEF SoleInv, RowPart, Budget
  <2>3. pc[s] \notin Settling /\ Owes(s, q) => Owes(s, q)'
    BY DEF Owes, Settling
  <2>4. QED
    BY <1>1, <2>1, <2>2, <2>3
<1>4. InProcess(s)'
  BY <1>1 DEF InProcess, SoleInv, RowPart, Settling
<1>5. QED
  BY <1>2, <1>3, <1>4 DEF RowPart

\* What the statements of process_record do to the row at hand.
LEMMA StatementsPut ==
  ASSUME Inv, NEW s \in Senders, SoleInv(s), pc[s] \in Busy
  PROVE  /\ UNCHANGED table => Put(Row(s), status[Row(s)], attempts[Row(s)])
         /\ mark_outbox_processing(Row(s)) => Put(Row(s), "PROCESSING", attempts[Row(s)])
         /\ mark_outbox_sent(Row(s)) => Put(Row(s), "SENT", attempts[Row(s)])
         /\ RecordFailure(s) =>
              \E st \in {"PENDING", "FAILED"} :
                /\ Put(Row(s), st, Snapshot(s) + 1)
                /\ st = "PENDING" => Snapshot(s) + 1 < MaxAttempts
<1>1. Row(s) \in Rows /\ NewAttempt(s) = Snapshot(s) + 1 /\ Snapshot(s) \in Nat
      /\ MaxAttempts \in Nat
  BY AtWorkFacts, OutboxAssumption
<1>2. UNCHANGED table => Put(Row(s), status[Row(s)], attempts[Row(s)])
  BY <1>1 DEF table, Put, Inv, TypeOK
<1>3. mark_outbox_processing(Row(s)) => Put(Row(s), "PROCESSING", attempts[Row(s)])
  BY DEF mark_outbox_processing, Write, Put
<1>4. mark_outbox_sent(Row(s)) => Put(Row(s), "SENT", attempts[Row(s)])
  BY DEF mark_outbox_sent, Write, Put
<1>5. ASSUME RecordFailure(s), NewAttempt(s) >= MaxAttempts
      PROVE  Put(Row(s), "FAILED", Snapshot(s) + 1)
  BY <1>1, <1>5 DEF RecordFailure, mark_outbox_permanently_failed, Write, Put, Row
<1>6. ASSUME RecordFailure(s), ~(NewAttempt(s) >= MaxAttempts)
      PROVE  Put(Row(s), "PENDING", Snapshot(s) + 1) /\ Snapshot(s) + 1 < MaxAttempts
  BY <1>1, <1>6 DEF RecordFailure, mark_outbox_failed, Write, Put, Row
<1>7. QED
  BY <1>2, <1>3, <1>4, <1>5, <1>6

-----------------------------------------------------------------------------
(* One lemma per statement of process_record.                               *)

LEMMA MarkProcessingKeeps ==
  ASSUME Inv, NEW s \in Senders, SoleInv(s), MarkProcessing(s)
  PROVE  SoleInv(s)'
<1>1. pc[s] = "mark_processing" /\ pc[s] \in Busy /\ UNCHANGED dispatches
  BY DEF MarkProcessing, Busy, history
<1>2. PICK r \in Rows : r = Row(s)
  BY <1>1, AtWorkFacts
<1>3. status[r] = "PENDING" /\ attempts[r] = Snapshot(s)
  BY <1>1, <1>2, AtWorkFacts DEF SoleInv, BatchPart, Waiting, Row, Snapshot
<1>4. attempts[r] \in Nat /\ attempts[r] < MaxAttempts /\ MaxAttempts \in Nat /\ faults \in Nat
  BY <1>3, OutboxAssumption DEF Inv, TypeOK, SoleInv, RowPart, Counted
<1>5. ~Owes(s, r)
  BY <1>1, <1>3 DEF Owes
<1>6. PICK st \in {"PENDING", "PROCESSING"} :
        /\ Put(r, st, Snapshot(s))
        /\ \/ st = "PROCESSING" /\ Stay(s, "dispatch") /\ faults' = faults
           \/ Stay(s, "handler") /\ faults' = faults + 1
  BY <1>1, <1>2, <1>3, StatementsPut DEF MarkProcessing, Execute, Fault, Row
<1>7. BatchPart(s)'
  BY <1>1, <1>2, <1>6, StayBatch
<1>8. Row(s)' = r /\ pc'[s] \in {"dispatch", "handler"}
  BY <1>2, <1>6 DEF Stay, Goto, Row, Record, Inv, TypeOK
<1>9. RowPart(s)'
  BY <1>1, <1>2, <1>3, <1>4, <1>5, <1>6, <1>8, PutRows
<1>10. QED
  BY <1>7, <1>9 DEF SoleInv

LEMMA MarkSentKeeps ==
  ASSUME Inv, NEW s \in Senders, SoleInv(s), MarkSent(s)
  PROVE  SoleInv(s)'
<1>1. pc[s] = "mark_sent" /\ pc[s] \in Busy /\ UNCHANGED dispatches
  BY DEF MarkSent, Busy, history
<1>2. PICK r \in Rows : r = Row(s)
  BY <1>1, AtWorkFacts
<1>3. status[r] = "PROCESSING" /\ attempts[r] = Snapshot(s)
  BY <1>1, <1>2 DEF SoleInv, BatchPart, AtHand
<1>4. attempts[r] \in Nat /\ attempts[r] < MaxAttempts /\ MaxAttempts \in Nat /\ faults \in Nat
  BY <1>3, OutboxAssumption DEF Inv, TypeOK, SoleInv, RowPart, Counted
<1>5. PICK st \in {"SENT", "PROCESSING"} :
        /\ Put(r, st, Snapshot(s))
        /\ \/ st = "SENT" /\ NextRecord(s) /\ faults' = faults
           \/ Stay(s, "handler") /\ faults' = faults + 1 /\ (st = "SENT" => AckCanBeLost)
  BY <1>1, <1>2, <1>3, StatementsPut DEF MarkSent, Execute, Fault, Row
<1>6. BatchPart(s)'
  BY <1>1, <1>2, <1>5, StayBatch, NextRecordBatch
<1>7. status'[r] = st
  BY <1>5 DEF Put, Inv, TypeOK
<1>8. st = "SENT" => Owes(s, r)'
  BY <1>7 DEF Owes
<1>9. RowPart(s)'
  BY <1>1, <1>2, <1>3, <1>4, <1>5, <1>8, PutRows
<1>10. QED
  BY <1>6, <1>9 DEF SoleInv

LEMMA MarkFailureKeeps ==
  ASSUME Inv, NEW s \in Senders, SoleInv(s), MarkFailure(s)
  PROVE  SoleInv(s)'
<1>1. pc[s] = "mark_failure" /\ pc[s] \in Busy /\ UNCHANGED dispatches
  BY DEF MarkFailure, Busy, history
<1>2. PICK r \in Rows : r = Row(s)
  BY <1>1, AtWorkFacts
<1>3. status[r] = "PROCESSING" /\ attempts[r] = Snapshot(s)
  BY <1>1, <1>2 DEF SoleInv, BatchPart, AtHand
<1>4. attempts[r] \in Nat /\ attempts[r] < MaxAttempts /\ MaxAttempts \in Nat /\ faults \in Nat
  BY <1>3, OutboxAssumption DEF Inv, TypeOK, SoleInv, RowPart, Counted
<1>5. CASE UNCHANGED table /\ Stay(s, "handler") /\ faults' = faults + 1
  <2>1. Put(r, "PROCESSING", Snapshot(s))
    BY <1>1, <1>2, <1>3, <1>5, StatementsPut
  <2>2. BatchPart(s)'
    BY <1>1, <1>2, <1>5, <2>1, StayBatch
  <2>3. RowPart(s)'
    BY <1>1, <1>2, <1>3, <1>4, <1>5, <2>1, PutRows
  <2>4. QED
    BY <2>2, <2>3 DEF SoleInv
<1>6. CASE /\ RecordFailure(s)
           /\ \/ NextRecord(s) /\ faults' = faults
              \/ Stay(s, "handler") /\ faults' = faults + 1 /\ AckCanBeLost
  <2>1. PICK st \in {"PENDING", "FAILED"} :
          /\ Put(r, st, Snapshot(s) + 1)
          /\ st = "PENDING" => Snapshot(s) + 1 < MaxAttempts
    BY <1>1, <1>2, <1>6, StatementsPut
  <2>2. BatchPart(s)'
    BY <1>1, <1>2, <1>6, <2>1, StayBatch, NextRecordBatch
  <2>3. RowPart(s)'
    BY <1>1, <1>2, <1>3, <1>4, <1>6, <2>1, PutRows
  <2>4. QED
    BY <2>2, <2>3 DEF SoleInv
<1>7. QED
  BY <1>5, <1>6 DEF MarkFailure, Execute, Fault

LEMMA ExceptHandlerKeeps ==
  ASSUME Inv, NEW s \in Senders, SoleInv(s), ExceptHandler(s)
  PROVE  SoleInv(s)'
<1>1. pc[s] = "handler" /\ pc[s] \in Busy /\ UNCHANGED dispatches
  BY DEF ExceptHandler, Busy, history
<1>2. PICK r \in Rows : r = Row(s)
  BY <1>1, AtWorkFacts
<1>3. /\ attempts[r] \in {Snapshot(s), Snapshot(s) + 1}
      /\ status[r] = "SENT" => attempts[r] = Snapshot(s)
  BY <1>1, <1>2 DEF SoleInv, BatchPart, InHandler
<1>4. Snapshot(s) \in Nat /\ Snapshot(s) < MaxAttempts /\ MaxAttempts \in Nat /\ faults \in Nat
  BY <1>1, AtWorkFacts, OutboxAssumption DEF Inv, TypeOK
<1>5. LoopError(s) => BatchPart(s)'
  <2>1. LoopError(s) => batch'[s] = <<>> /\ pc'[s] \notin Busy
    BY DEF LoopError, Goto, Inv, TypeOK, Busy
  <2>2. QED
    BY <2>1, EmptyBatch
<1>6. CASE UNCHANGED table /\ LoopError(s) /\ faults' = faults + 1
  BY <1>1, <1>5, <1>6, SameRows DEF SoleInv, table
<1>7. CASE /\ RecordFailure(s)
           /\ \/ NextRecord(s) /\ faults' = faults
              \/ LoopError(s) /\ faults' = faults + 1
  <2>1. PICK st \in {"PENDING", "FAILED"} :
          /\ Put(r, st, Snapshot(s) + 1)
          /\ st = "PENDING" => Snapshot(s) + 1 < MaxAttempts
    BY <1>1, <1>2, <1>7, StatementsPut
  <2>2. BatchPart(s)'
    BY <1>1, <1>2, <1>5, <1>7, <2>1, NextRecordBatch
  <2>3. Owes(s, r) => Snapshot(s) + 1 > attempts[r]
    BY <1>3, <1>4 DEF Owes
  <2>4. RowPart(s)'
    BY <1>1, <1>2, <1>3, <1>4, <1>7, <2>1, <2>3, PutRows
  <2>5. QED
    BY <2>2, <2>4 DEF SoleInv
<1>8. QED
  BY <1>6, <1>7 DEF ExceptHandler, Execute, Fault

LEMMA DispatchKeeps ==
  ASSUME Inv, NEW s \in Senders, SoleInv(s), dispatch(s)
  PROVE  SoleInv(s)'
<1>1. pc[s] = "dispatch" /\ pc[s] \in Busy /\ UNCHANGED table /\ faults' = faults
  BY DEF dispatch, Busy
<1>2. PICK r \in Rows : r = Row(s)
  BY <1>1, AtWorkFacts
<1>3. status[r] = "PROCESSING" /\ attempts[r] = Snapshot(s)
  BY <1>1, <1>2 DEF SoleInv, BatchPart, AtHand
<1>4. PICK loc \in {"mark_sent", "mark_failure", "handler"} : Stay(s, loc)
  <2>1. Outcomes(r) = send_email \/ Outcomes(r) = send_crm_upsert \/ Outcomes(r) = {Refused}
    BY DEF Outcomes
  <2>2. PICK o \in Outcomes(r) : Stay(s, o.goto)
    BY <1>2 DEF dispatch, Row
  <2>3. o.goto \in {"mark_sent", "mark_failure", "handler"}
    BY <2>1 DEF send_email, send_crm_upsert, Answered, Unheard, Refused, Raised
  <2>4. QED
    BY <2>2, <2>3
<1>5. BatchPart(s)'
  <2>1. Put(r, "PROCESSING", Snapshot(s))
    BY <1>1, <1>2, <1>3, StatementsPut
  <2>2. QED
    BY <1>1, <1>2, <1>4, <2>1, StayBatch
<1>6. dispatches' = [dispatches EXCEPT ![r] = @ + 1] /\ UNCHANGED <<status, attempts>>
  BY <1>1, <1>2 DEF dispatch, Row, table
<1>7. /\ pc'[s] \in {"mark_sent", "mark_failure", "handler"}
      /\ Row(s)' = r /\ Snapshot(s)' = Snapshot(s)
  BY <1>2, <1>4 DEF Stay, Goto, Row, Snapshot, Record, Inv, TypeOK
<1>8. Budget(s)'
  <2> SUFFICES ASSUME NEW q \in Rows
               PROVE  (/\ dispatches[q] <= attempts[q] + faults + 1
                       /\ ~Owes(s, q) => dispatches[q] <= attempts[q] + faults)'
    BY DEF Budget
  <2>1. dispatches[q] \in Nat /\ attempts[q] \in Nat /\ faults \in Nat
    BY DEF Inv, TypeOK
  <2>2. /\ dispatches[q] <= attempts[q] + faults + 1
        /\ ~Owes(s, q) => dispatches[q] <= attempts[q] + faults
    BY DEF SoleInv, RowPart, Budget
  <2>3. CASE q = r
    <3>1. ~Owes(s, q) /\ Owes(s, q)'
      BY <1>1, <1>2, <1>3, <1>6, <1>7, <2>3 DEF Owes
    <3>2. dispatches'[q] = dispatches[q] + 1
      BY <1>6, <2>3 DEF Inv, TypeOK
    <3>3. QED
      BY <1>1, <1>6, <2>1, <2>2, <3>1, <3>2
  <2>4. CASE q # r
    <3>1. Owes(s, q)' <=> Owes(s, q)
      BY <1>2, <1>6, <1>7, <2>4 DEF Owes
    <3>2. dispatches'[q] = dispatches[q]
      BY <1>6, <2>4 DEF Inv, TypeOK
    <3>3. QED
      BY <1>1, <1>6, <2>2, <3>1, <3>2
  <2>5. QED
    BY <2>3, <2>4
<1>9. Counted' /\ InProcess(s)'
  BY <1>1, <1>2, <1>6, <1>7 DEF SoleInv, RowPart, Counted, InProcess
<1>10. QED
  BY <1>5, <1>8, <1>9 DEF SoleInv, RowPart

-----------------------------------------------------------------------------
(* The steps that are not about a record.                                   *)

\* What is polled is distinct, due and below max_attempts.
LEMMA PollKeeps ==
  ASSUME Inv, NEW s \in Senders, SoleInv(s), poll_outbox(s)
  PROVE  SoleInv(s)'
<1>1. /\ pc[s] = "poll" /\ pc[s] \notin Settling
      /\ UNCHANGED <<status, attempts, dispatches>> /\ faults' \in {faults, faults + 1}
  BY DEF poll_outbox, Settling, table, history, Fault
<1>2. RowPart(s)'
  BY <1>1, SameRows
<1>3. CASE LoopError(s)
  <2>1. batch'[s] = <<>> /\ pc'[s] \notin Busy
    BY <1>3 DEF LoopError, Goto, Inv, TypeOK, Busy
  <2>2. QED
    BY <1>2, <2>1, EmptyBatch DEF SoleInv
<1>4. ASSUME NEW n \in 0..BATCH_SIZE, NEW f \in [1..n -> Due], Selected(n, f), n > 0,
             batch' = [batch EXCEPT ![s] =
                         [i \in 1..n |-> [row |-> f[i], attempts |-> attempts[f[i]]]]],
             Goto(s, "mark_processing")
      PROVE  SoleInv(s)'
  <2> DEFINE b == [i \in 1..n |-> [row |-> f[i], attempts |-> attempts[f[i]]]]
  <2>1. n \in Nat
    BY OutboxAssumption
  <2>2. batch'[s] = b /\ pc'[s] = "mark_processing"
    BY <1>4 DEF Goto, Inv, TypeOK
  <2>3. Len(b) = n
    <3>1. b \in Seq(Snapshots)
      <4>1. \A i \in 1..n : [row |-> f[i], attempts |-> attempts[f[i]]] \in Snapshots
        BY DEF Due, Snapshots, Inv, TypeOK
      <4>2. QED
        BY <2>1, <4>1, SeqDef
    <3>2. Len(b) \in Nat /\ DOMAIN b = 1..Len(b) /\ DOMAIN b = 1..n
      BY <3>1, LenProperties
    <3> HIDE DEF b
    <3>3. \A m \in Nat : 1..m = 1..n => m = n
      <4> SUFFICES ASSUME NEW m \in Nat, 1..m = 1..n PROVE m = n
        OBVIOUS
      <4>1. n \in 1..n /\ (m > 0 => m \in 1..m)
        BY <1>4, <2>1
      <4>2. n \in 1..m /\ (m > 0 => m \in 1..n)
        BY <4>1
      <4>3. QED
        BY <2>1, <4>2
    <3>4. QED
      BY <3>2, <3>3
  <2>4. \A i \in 1..n : /\ f[i] \in Rows /\ status[f[i]] = "PENDING"
                        /\ attempts[f[i]] < MaxAttempts
    BY DEF Due, SoleInv, RowPart, Counted
  <2>5. \A i, j \in 1..n : i # j => f[i] # f[j]
    BY <1>4, <2>1 DEF Selected
  <2>6. \A i \in 1..n : b[i].row = f[i] /\ b[i].attempts = attempts[f[i]]
    OBVIOUS
  <2>7. Positions(s)' = 1..n
    BY <2>2, <2>3 DEF Positions
  <2> HIDE DEF b
  <2>8. BatchPart(s)'
    BY <1>1, <2>2, <2>4, <2>5, <2>6, <2>7
       DEF BatchPart, Idle, Disjoint, Waiting, Retriable, AtHand, InHandler, Busy
  <2>9. QED
    BY <1>2, <2>8 DEF SoleInv
<1>5. QED
  BY <1>3, <1>4 DEF poll_outbox

LEMMA RecoverKeeps ==
  ASSUME Inv, NEW s \in Senders, SoleInv(s), Recover(s)
  PROVE  SoleInv(s)'
<1>1. /\ pc[s] = "recover" /\ pc[s] \notin Settling /\ pc[s] \notin Busy
      /\ UNCHANGED dispatches /\ faults' \in {faults, faults + 1}
  BY DEF Recover, Execute, Fault, Settling, Busy, history
<1>2. BatchPart(s)'
  <2>1. batch[s] = <<>>
    BY <1>1 DEF SoleInv, BatchPart, Idle
  <2>2. batch'[s] = <<>> /\ pc'[s] \notin Busy
    BY <2>1 DEF Recover, Execute, Stay, LoopError, Goto, Inv, TypeOK, Busy
  <2>3. QED
    BY <2>2, EmptyBatch
<1>3. CASE UNCHANGED table
  BY <1>1, <1>2, <1>3, SameRows DEF SoleInv, table
<1>4. CASE recover_stuck_entries
  <2>1. UNCHANGED attempts
    BY <1>4 DEF recover_stuck_entries
  <2>2. \A r \in Rows : \/ status'[r] = status[r]
                        \/ status[r] = "PROCESSING" /\ status'[r] = "PENDING"
    BY <1>4 DEF recover_stuck_entries, Stuck, Inv, TypeOK
  <2>3. Counted'
    BY <2>1, <2>2 DEF SoleInv, RowPart, Counted
  <2>4. InProcess(s)'
    BY <1>1, <2>2 DEF SoleInv, RowPart, InProcess, Settling, Inv, TypeOK
  <2>5. Budget(s)'
    <3> SUFFICES ASSUME NEW q \in Rows
                 PROVE  (/\ dispatches[q] <= attempts[q] + faults + 1
                         /\ ~Owes(s, q) => dispatches[q] <= attempts[q] + faults)'
      BY DEF Budget
    <3>1. dispatches[q] \in Nat /\ attempts[q] \in Nat /\ faults \in Nat
      BY DEF Inv, TypeOK
    <3>2. /\ dispatches[q] <= attempts[q] + faults + 1
          /\ ~Owes(s, q) => dispatches[q] <= attempts[q] + faults
      BY DEF SoleInv, RowPart, Budget
    <3>3. Owes(s, q) => Owes(s, q)'
      BY <1>1, <2>2 DEF Owes, Settling
    <3>4. QED
      BY <1>1, <2>1, <3>1, <3>2, <3>3
  <2>6. QED
    BY <1>2, <2>3, <2>4, <2>5 DEF SoleInv, RowPart
<1>5. QED
  BY <1>3, <1>4 DEF Recover, Execute

\* A sender without a batch may start, stop, loop, sleep and crash freely, and
\* one with a batch may crash.
LEMMA IdleKeeps ==
  ASSUME Inv, NEW s \in Senders, SoleInv(s),
         Start(s) \/ LoopHead(s) \/ Sleep(s) \/ Crash(s)
  PROVE  SoleInv(s)'
<1>1. /\ UNCHANGED <<status, attempts, dispatches>>
      /\ \/ pc[s] \notin Settling /\ faults' \in {faults, faults + 1}
         \/ faults' = faults + 1
  BY DEF Start, LoopHead, Sleep, Crash, Fault, table, history, Settling
<1>2. batch'[s] = <<>> /\ pc'[s] \notin Busy
  BY DEF Start, LoopHead, Sleep, Crash, Stay, Goto, Inv, TypeOK, Busy, SoleInv, BatchPart, Idle
<1>3. QED
  BY <1>1, <1>2, SameRows, EmptyBatch DEF SoleInv

\* A row of the batch was inserted before, so that a duplicate changes nothing.
LEMMA InsertKeeps ==
  ASSUME Inv, NEW s \in Senders, SoleInv(s), NEW r \in Rows, insert_outbox(r)
  PROVE  SoleInv(s)'
<1>1. UNCHANGED <<pc, batch, dispatches, faults>>
  BY DEF insert_outbox, senderVars, history
<1>2. CASE UNCHANGED table
  BY <1>1, <1>2 DEF table, SoleInv, BatchPart, RowPart, Idle, Disjoint, Waiting, Retriable,
     AtHand, InHandler, Counted, Budget, Owes, InProcess, Positions, Row, Snapshot, Record
<1>3. CASE status[r] = "ABSENT" /\ Write(r, "PENDING", 0, 0)
  <2>1. attempts[r] = 0 /\ MaxAttempts \in Nat \ {0}
    BY <1>3, OutboxAssumption DEF SoleInv, RowPart, Counted
  <2>2. /\ UNCHANGED attempts
        /\ status'[r] = "PENDING"
        /\ \A q \in Rows : q # r => status'[q] = status[q]
    BY <1>3, <2>1 DEF Write, Inv, TypeOK
  <2>3. pc[s] \in Busy => Row(s) \in Rows /\ \A i \in Positions(s) : batch[s][i].row \in Rows
    BY AtWorkFacts
  <2>4. pc[s] \notin Busy => Positions(s) = {}
    BY EmptySeq DEF SoleInv, BatchPart, Idle, Positions
  <2>5. Waiting(s)'
    BY <1>1, <1>3, <2>2, <2>3, <2>4 DEF SoleInv, BatchPart, Waiting, Positions
  <2>6. AtHand(s)' /\ InHandler(s)'
    BY <1>1, <1>3, <2>2, <2>3 DEF SoleInv, BatchPart, AtHand, InHandler, Row, Snapshot,
       Record, Busy
  <2>7. Idle(s)' /\ Disjoint(s)' /\ Retriable(s)'
    BY <1>1 DEF SoleInv, BatchPart, Idle, Disjoint, Retriable, Positions
  <2>8. Counted'
    BY <2>1, <2>2 DEF SoleInv, RowPart, Counted
  <2>9. InProcess(s)'
    BY <1>1, <2>2 DEF SoleInv, RowPart, InProcess, Row, Record
  <2>10. Budget(s)'
    <3> SUFFICES ASSUME NEW q \in Rows
                 PROVE  (/\ dispatches[q] <= attempts[q] + faults + 1
                         /\ ~Owes(s, q) => dispatches[q] <= attempts[q] + faults)'
      BY DEF Budget
    <3>1. Owes(s, q) => Owes(s, q)'
      BY <1>1, <1>3, <2>2 DEF Owes, Row, Snapshot, Record
    <3>2. /\ dispatches[q] <= attempts[q] + faults + 1
          /\ ~Owes(s, q) => dispatches[q] <= attempts[q] + faults
      BY DEF SoleInv, RowPart, Budget
    <3>3. UNCHANGED <<dispatches, attempts, faults>>
      BY <1>1, <2>2
    <3>4. QED
      BY <3>1, <3>2, <3>3
  <2>11. QED
    BY <2>5, <2>6, <2>7, <2>8, <2>9, <2>10 DEF SoleInv, BatchPart, RowPart
<1>4. QED
  BY <1>2, <1>3 DEF insert_outbox

LEMMA SoleInit == ASSUME NEW s \in Senders PROVE Init => SoleInv(s)
<1> SUFFICES ASSUME Init PROVE SoleInv(s)
  OBVIOUS
<1>1. Positions(s) = {}
  BY EmptySeq DEF Init, Positions
<1>2. QED
  BY <1>1, OutboxAssumption DEF Init, SoleInv, BatchPart, RowPart, Idle, Disjoint, Waiting,
     Retriable, AtHand, InHandler, Counted, Budget, Owes, InProcess, Busy

LEMMA SoleNext ==
  ASSUME NEW s, Senders = {s}
  PROVE  Inv /\ SoleInv(s) /\ [Next]_vars => SoleInv(s)'
<1> SUFFICES ASSUME Inv, SoleInv(s), [Next]_vars PROVE SoleInv(s)'
  OBVIOUS
<1>0. s \in Senders
  OBVIOUS
<1>1. CASE \/ Tick \/ ShutdownSignal(s) \/ UNCHANGED vars
  <2>1. UNCHANGED <<status, attempts, pc, batch, dispatches, faults>>
    BY <1>1 DEF Tick, ShutdownSignal, vars, table, senderVars, history
  <2>2. QED
    BY <2>1 DEF SoleInv, BatchPart, RowPart, Idle, Disjoint, Waiting, Retriable,
       AtHand, InHandler, Counted, Budget, Owes, InProcess, Positions, Row, Snapshot, Record
<1>2. CASE SenderStep(s)
  BY <1>0, <1>2, IdleKeeps, RecoverKeeps, PollKeeps, MarkProcessingKeeps, DispatchKeeps,
     MarkSentKeeps, MarkFailureKeeps, ExceptHandlerKeeps DEF SenderStep
<1>3. CASE Crash(s)
  BY <1>0, <1>3, IdleKeeps
<1>4. CASE \E r \in Rows : insert_outbox(r)
  BY <1>0, <1>4, InsertKeeps
<1>5. QED
  BY <1>1, <1>2, <1>3, <1>4 DEF Next, SendersNext

\* With one sender, snapshot and row stay in step (process_record).
THEOREM SoleAlways == ASSUME NEW s, Senders = {s} PROVE Spec => [](Inv /\ SoleInv(s))
<1>1. Init => SoleInv(s)
  BY SoleInit
<1>2. QED
  BY <1>1, SoleNext, InvInit, InvNext, PTL DEF Spec

-----------------------------------------------------------------------------

\* One sender asks the provider at most max_attempts times, plus once per crash
\* or database error (process_record, sender.py:97-128).
THEOREM BudgetIsKept == ASSUME NEW s, Senders = {s} PROVE Spec => []AttemptBudget
<1>1. Inv /\ SoleInv(s) => AttemptBudget
  <2> SUFFICES ASSUME Inv, SoleInv(s), NEW r \in Rows
               PROVE  dispatches[r] <= MaxAttempts + faults
    BY DEF AttemptBudget
  <2>1. /\ dispatches[r] \in Nat /\ attempts[r] \in Nat /\ faults \in Nat /\ MaxAttempts \in Nat
    BY OutboxAssumption DEF Inv, TypeOK
  <2>2. /\ dispatches[r] <= attempts[r] + faults + 1
        /\ ~Owes(s, r) => dispatches[r] <= attempts[r] + faults
        /\ attempts[r] <= MaxAttempts
    BY DEF SoleInv, RowPart, Budget, Counted
  <2>3. Owes(s, r) => attempts[r] < MaxAttempts
    <3>1. s \in Senders
      OBVIOUS
    <3>2. CASE status[r] = "SENT"
      BY <3>2 DEF SoleInv, RowPart, Counted
    <3>3. CASE pc[s] \in Busy /\ r = Row(s) /\ attempts[r] = Snapshot(s)
      BY <3>1, <3>3, AtWorkFacts
    <3>4. QED
      BY <3>2, <3>3 DEF Owes, Busy
  <2>4. QED
    BY <2>1, <2>2, <2>3
<1>2. QED
  BY <1>1, SoleAlways, PTL

\* Without a fault, a sender that was told to stop leaves no row PROCESSING
\* (run_sender, sender.py:168-188).
THEOREM CleanStop == ASSUME NEW s, Senders = {s} PROVE Spec => []StopIsClean
<1>1. SoleInv(s) => StopIsClean
  BY DEF SoleInv, RowPart, InProcess, StopIsClean
<1>2. QED
  BY <1>1, SoleAlways, PTL

\* No write loses attempts an earlier one counted (sender.py:105, 124).
THEOREM AttemptsAreKept == ASSUME NEW s, Senders = {s} PROVE Spec => AttemptsNeverRegress
<1>1. Inv /\ SoleInv(s) /\ [Next]_vars => [\A r \in Rows : attempts'[r] >= attempts[r]]_vars
  <2> SUFFICES ASSUME Inv, SoleInv(s), Next, NEW r \in Rows
               PROVE  attempts'[r] >= attempts[r]
    OBVIOUS
  <2>1. s \in Senders /\ attempts[r] \in Nat
    BY DEF Inv, TypeOK
  <2>2. CASE UNCHANGED attempts
    BY <2>1, <2>2
  <2>3. ASSUME pc[s] \in Busy, NEW st, Put(Row(s), st, Snapshot(s) + 1)
        PROVE  attempts'[r] >= attempts[r]
    <3>1. Row(s) \in Rows /\ Snapshot(s) \in Nat
      BY <2>1, <2>3, AtWorkFacts
    <3>2. attempts[Row(s)] <= Snapshot(s) + 1
      BY <2>1, <2>3, <3>1, AtWorkFacts
         DEF Busy, SoleInv, BatchPart, Waiting, AtHand, InHandler, Row, Snapshot
    <3>3. QED
      BY <2>1, <2>3, <3>1, <3>2 DEF Put, Inv, TypeOK
  <2>4. CASE MarkProcessing(s) \/ MarkSent(s)
    <3>1. pc[s] \in Busy
      BY <2>4 DEF MarkProcessing, MarkSent, Busy
    <3>2. \E st : Put(Row(s), st, attempts[Row(s)])
      BY <2>1, <2>4, <3>1, StatementsPut DEF MarkProcessing, MarkSent, Execute, Row
    <3>3. QED
      BY <2>1, <3>2 DEF Put, Inv, TypeOK
  <2>5. CASE MarkFailure(s) \/ ExceptHandler(s)
    <3>1. pc[s] \in Busy
      BY <2>5 DEF MarkFailure, ExceptHandler, Busy
    <3>2. CASE UNCHANGED table
      BY <2>2, <3>2 DEF table
    <3>3. CASE RecordFailure(s)
      BY <2>1, <2>3, <3>1, <3>3, StatementsPut
    <3>4. QED
      BY <2>5, <3>2, <3>3 DEF MarkFailure, ExceptHandler, Execute
  <2>6. ASSUME NEW q \in Rows, insert_outbox(q) PROVE attempts'[r] >= attempts[r]
    BY <2>1, <2>2, <2>6 DEF insert_outbox, Write, table, SoleInv, RowPart, Counted, Inv, TypeOK
  <2>7. CASE Start(s) \/ LoopHead(s) \/ Recover(s) \/ poll_outbox(s) \/ dispatch(s) \/ Sleep(s)
             \/ ShutdownSignal(s) \/ Crash(s) \/ Tick
    BY <2>2, <2>7 DEF Start, LoopHead, Recover, Execute, recover_stuck_entries, poll_outbox,
       dispatch, Sleep, ShutdownSignal, Crash, Tick, table
  <2>8. QED
    BY <2>4, <2>5, <2>6, <2>7 DEF Next, SendersNext, SenderStep
<1>2. QED
  BY <1>1, SoleAlways, PTL DEF Spec, AttemptsNeverRegress

\* A record that waits for its turn is due: only its own sender sets a new time
\* for its row, and is then done with it.
InHand(s) == {i \in Positions(s) : i > 1 \/ pc[s] \in {"mark_processing", "dispatch"}}

DueInHand(s) == \A i \in InHand(s) : wait[batch[s][i].row] <= 0

LEMMA DueStays ==
  ASSUME Inv, NEW s \in Senders, SoleInv(s), DueInHand(s), UNCHANGED batch, pc[s] \in Busy,
         \A q \in Rows : q # Row(s) /\ wait[q] <= 0 => wait'[q] <= 0,
         \/ pc'[s] \notin {"mark_processing", "dispatch"}
         \/ /\ pc[s] \in {"mark_processing", "dispatch"}
            /\ wait[Row(s)] <= 0 => wait'[Row(s)] <= 0
  PROVE  DueInHand(s)'
<1> SUFFICES ASSUME NEW i \in Positions(s),
                    i > 1 \/ pc'[s] \in {"mark_processing", "dispatch"}
             PROVE  wait'[batch[s][i].row] <= 0
  BY DEF DueInHand, InHand, Positions
<1>1. wait[batch[s][i].row] <= 0
  BY DEF InHand, DueInHand
<1>2. batch[s][i].row \in Rows /\ 1 \in Positions(s) /\ Row(s) = batch[s][1].row
  BY AtWorkFacts DEF Row
<1>3. CASE i = 1
  BY <1>1, <1>2, <1>3
<1>4. CASE i # 1
  <2>1. batch[s][i].row # Row(s)
    BY <1>2, <1>4 DEF SoleInv, BatchPart, Disjoint
  <2> QED
    BY <1>1, <1>2, <2>1
<1> QED
  BY <1>3, <1>4

LEMMA DueShifts ==
  ASSUME Inv, NEW s \in Senders, SoleInv(s), DueInHand(s), NextRecord(s), pc[s] \in Busy,
         \A q \in Rows : q # Row(s) /\ wait[q] <= 0 => wait'[q] <= 0
  PROVE  DueInHand(s)'
<1>1. batch'[s] = Tail(batch[s])
  BY DEF NextRecord, Inv, TypeOK
<1> SUFFICES ASSUME NEW i \in 1..Len(Tail(batch[s]))
             PROVE  wait'[Tail(batch[s])[i].row] <= 0
  BY <1>1 DEF DueInHand, InHand, Positions
<1>2. /\ i + 1 \in Positions(s) /\ Tail(batch[s])[i] = batch[s][i + 1]
      /\ batch[s][i + 1].row \in Rows /\ 1 \in Positions(s) /\ Row(s) = batch[s][1].row
  BY AtWorkFacts DEF Row
<1>3. Len(Tail(batch[s])) \in Nat
  BY AtWorkFacts
<1>4. i + 1 > 1 /\ i + 1 # 1
  BY <1>3
<1>5. batch[s][i + 1].row # Row(s)
  BY <1>2, <1>4 DEF SoleInv, BatchPart, Disjoint
<1>6. wait[batch[s][i + 1].row] <= 0
  BY <1>2, <1>4 DEF DueInHand, InHand
<1> QED
  BY <1>2, <1>5, <1>6

LEMMA DuePolled ==
  ASSUME Inv, NEW s \in Senders, poll_outbox(s)
  PROVE  DueInHand(s)'
<1>1. UNCHANGED wait
  BY DEF poll_outbox, table
<1>2. CASE batch'[s] = <<>>
  BY <1>2, EmptySeq DEF DueInHand, InHand, Positions
<1>3. ASSUME NEW n \in 0..BATCH_SIZE, NEW f \in [1..n -> Due],
             batch'[s] = [i \in 1..n |-> [row |-> f[i], attempts |-> attempts[f[i]]]]
      PROVE  DueInHand(s)'
  <2> DEFINE b == [i \in 1..n |-> [row |-> f[i], attempts |-> attempts[f[i]]]]
  <2>1. n \in Nat
    BY OutboxAssumption
  <2>2. b \in Seq(Snapshots)
    <3>1. \A i \in 1..n : [row |-> f[i], attempts |-> attempts[f[i]]] \in Snapshots
      BY DEF Due, Snapshots, Inv, TypeOK
    <3> QED
      BY <2>1, <3>1, SeqDef
  <2>3. 1..Len(b) = 1..n
    <3>1. DOMAIN b = 1..Len(b) /\ DOMAIN b = 1..n
      BY <2>2, LenProperties
    <3> QED
      BY <3>1
  <2>4. \A i \in 1..n : wait'[b[i].row] <= 0
    BY <1>1 DEF Due
  <2> HIDE DEF b
  <2> QED
    BY <1>3, <2>3, <2>4 DEF b, DueInHand, InHand, Positions
<1> QED
  BY <1>2, <1>3 DEF poll_outbox, LoopError, Inv, TypeOK

LEMMA DueNext ==
  ASSUME NEW s, Senders = {s}
  PROVE  Inv /\ SoleInv(s) /\ DueInHand(s) /\ [Next]_vars => DueInHand(s)'
<1> SUFFICES ASSUME Inv, SoleInv(s), DueInHand(s), [Next]_vars PROVE DueInHand(s)'
  OBVIOUS
<1>0. s \in Senders
  OBVIOUS
<1>1. CASE batch'[s] = <<>>
  BY <1>1, EmptySeq DEF DueInHand, InHand, Positions
<1>2. CASE pc[s] \notin Busy /\ UNCHANGED batch
  BY <1>1, <1>2 DEF SoleInv, BatchPart, Idle
<1>3. CASE LoopError(s) \/ Crash(s)
  BY <1>0, <1>1, <1>3 DEF LoopError, Crash, Inv, TypeOK
<1>4. CASE Start(s) \/ LoopHead(s) \/ Recover(s) \/ Sleep(s)
  BY <1>2, <1>3, <1>4 DEF Start, LoopHead, Recover, Execute, Sleep, Stay, Busy
<1>5. CASE poll_outbox(s)
  BY <1>0, <1>5, DuePolled
<1>6. CASE MarkProcessing(s) \/ dispatch(s) \/ MarkSent(s)
  <2>1. pc[s] \in Busy /\ UNCHANGED wait
    <3>1. \A r \in Rows : UNCHANGED table \/ mark_outbox_processing(r) \/ mark_outbox_sent(r)
                            => UNCHANGED wait
      BY DEF table, mark_outbox_processing, mark_outbox_sent, Write, Inv, TypeOK
    <3>2. pc[s] \in Busy
      BY <1>6 DEF MarkProcessing, dispatch, MarkSent, Busy
    <3>3. Record(s).row \in Rows
      BY <1>0, <3>2, AtWorkFacts DEF Row
    <3> QED
      BY <1>6, <3>1, <3>2, <3>3 DEF MarkProcessing, dispatch, MarkSent, Execute
  <2>2. CASE NextRecord(s)
    BY <1>0, <2>1, <2>2, DueShifts
  <2>3. ASSUME NEW loc \in {"dispatch", "mark_sent", "mark_failure", "handler"}, Stay(s, loc),
               loc = "dispatch" => pc[s] = "mark_processing"
        PROVE  DueInHand(s)'
    <3>1. pc'[s] = loc /\ UNCHANGED batch
      BY <1>0, <2>3 DEF Stay, Goto, Inv, TypeOK
    <3> QED
      BY <1>0, <2>1, <2>3, <3>1, DueStays
  <2>4. dispatch(s) => \E loc \in {"mark_sent", "mark_failure", "handler"} : Stay(s, loc)
    BY DEF dispatch, Outcomes, send_email, send_crm_upsert, Answered, Unheard, Refused, Raised
  <2> QED
    BY <1>6, <2>2, <2>3, <2>4 DEF MarkProcessing, MarkSent, Execute
<1>7. CASE MarkFailure(s) \/ ExceptHandler(s)
  <2>1. pc[s] \in Busy /\ Row(s) \in Rows
    <3>1. pc[s] \in Busy
      BY <1>7 DEF MarkFailure, ExceptHandler, Busy
    <3> QED
      BY <1>0, <3>1, AtWorkFacts
  <2>2. \A q \in Rows : q # Row(s) /\ wait[q] <= 0 => wait'[q] <= 0
    <3>1. UNCHANGED table => UNCHANGED wait
      BY DEF table
    <3>2. RecordFailure(s) => \A q \in Rows : q # Row(s) => wait'[q] = wait[q]
      BY <2>1 DEF RecordFailure, mark_outbox_failed, mark_outbox_permanently_failed, Write,
         Row, Inv, TypeOK
    <3> QED
      BY <1>7, <3>1, <3>2 DEF MarkFailure, ExceptHandler, Execute
  <2>3. CASE NextRecord(s)
    BY <1>0, <2>1, <2>2, <2>3, DueShifts
  <2>4. CASE Stay(s, "handler")
    <3>1. pc'[s] = "handler" /\ UNCHANGED batch
      BY <1>0, <2>4 DEF Stay, Goto, Inv, TypeOK
    <3> QED
      BY <1>0, <2>1, <2>2, <3>1, DueStays
  <2> QED
    BY <1>3, <1>7, <2>3, <2>4 DEF MarkFailure, ExceptHandler, Execute
<1>8. ASSUME UNCHANGED <<pc, batch>>,
             \A q \in Rows : wait[q] <= 0 => wait'[q] <= 0
      PROVE  DueInHand(s)'
  <2>1. CASE pc[s] \notin Busy
    BY <1>2, <1>8, <2>1
  <2>2. CASE pc[s] \in Busy
    <3>1. Row(s) \in Rows
      BY <1>0, <2>2, AtWorkFacts
    <3> QED
      BY <1>0, <1>8, <2>2, <3>1, DueStays
  <2> QED
    BY <2>1, <2>2
<1>9. CASE \/ \E r \in Rows : insert_outbox(r)
           \/ ShutdownSignal(s) \/ Tick \/ UNCHANGED vars
  <2>1. UNCHANGED <<pc, batch>>
    BY <1>9 DEF insert_outbox, ShutdownSignal, Tick, vars, senderVars
  <2>2. \A q \in Rows : wait[q] <= 0 => wait'[q] <= 0
    <3>1. ASSUME NEW r \in Rows, insert_outbox(r)
          PROVE  \A q \in Rows : wait[q] <= 0 => wait'[q] <= 0
      <4>1. wait' = [wait EXCEPT ![r] = 0] \/ wait' = wait
        BY <3>1 DEF insert_outbox, Write, table
      <4> QED
        <5>1. wait \in [Rows -> Int]
          BY DEF Inv, TypeOK
        <5> QED
          BY <4>1, <5>1
    <3>2. ASSUME Tick PROVE \A q \in Rows : wait[q] <= 0 => wait'[q] <= 0
      BY <3>2 DEF Tick, Inv, TypeOK
    <3> QED
      BY <1>9, <3>1, <3>2 DEF ShutdownSignal, vars, table
  <2> QED
    BY <1>8, <2>1, <2>2
<1> QED
  BY <1>3, <1>4, <1>5, <1>6, <1>7, <1>9 DEF Next, SendersNext, SenderStep

\* With one sender, no provider is asked again before the backoff has passed
\* (calculate_backoff_seconds, poll_outbox).
THEOREM BackoffIsKept == ASSUME NEW s, Senders = {s} PROVE Spec => NeverBeforeDue
<1>1. Init => DueInHand(s)
  BY EmptySeq DEF Init, DueInHand, InHand, Positions
<1>2. /\ Inv /\ SoleInv(s) /\ DueInHand(s) /\ [Next]_vars
      => [\A r \in Rows : dispatches'[r] # dispatches[r] => wait[r] <= 0]_vars
  <2> SUFFICES ASSUME Inv, SoleInv(s), DueInHand(s), Next,
                      NEW r \in Rows, dispatches'[r] # dispatches[r]
               PROVE  wait[r] <= 0
    OBVIOUS
  <2>1. s \in Senders
    OBVIOUS
  <2>2. dispatch(s)
    BY DEF Next, SendersNext, SenderStep, insert_outbox, Start, LoopHead, Recover, poll_outbox,
       MarkProcessing, MarkSent, MarkFailure, ExceptHandler, Sleep, ShutdownSignal, Crash, Tick,
       history
  <2>3. r = Row(s) /\ pc[s] = "dispatch" /\ pc[s] \in Busy
    BY <2>2 DEF dispatch, Row, Busy, Inv, TypeOK
  <2> QED
    BY <2>1, <2>3, AtWorkFacts DEF DueInHand, InHand, Row
<1> QED
  BY <1>1, <1>2, DueNext, SoleAlways, PTL DEF Spec, NeverBeforeDue

-----------------------------------------------------------------------------
(* The outbox implements Delivery.                                          *)

\* A record put back among those to be retried has the verdict it had.
LEMMA RequeueStutters ==
  ASSUME Inv, NEW r \in Rows, status[r] \in {"PENDING", "PROCESSING"},
         NEW st \in {"PENDING", "PROCESSING"}, NEW n, Put(r, st, n)
  PROVE  UNCHANGED Verdict
<1>1. Verdict' = [Verdict EXCEPT ![r] = "queued"]
  BY VerdictOfPut DEF Statuses
<1>2. Verdict = [Verdict EXCEPT ![r] = "queued"]
  BY VerdictOfStatus DEF Verdict
<1>3. QED
  BY <1>1, <1>2

\* What senders do to the verdicts, in the words of the contract.
Delivered ==
  \/ \E r \in Rows : Contract!HandOver(r) \/ Contract!Settle(r) \/ Contract!Reopen(r)
  \/ UNCHANGED <<Verdict, applied>>

\* A sender alone, that hears of all it commits, revises no verdict.
LEMMA SoleDelivers ==
  ASSUME NEW s, Senders = {s}, ~AckCanBeLost, Inv, SoleInv(s), SendersNext
  PROVE  Delivered
<1> USE DEF Delivered
<1>0. s \in Senders
  OBVIOUS
<1>1. UNCHANGED status => UNCHANGED Verdict
  BY DEF Verdict
<1>2. CASE Start(s) \/ LoopHead(s) \/ poll_outbox(s) \/ Sleep(s)
           \/ ShutdownSignal(s) \/ Crash(s) \/ Tick
  <2>1. UNCHANGED <<status, applied>>
    BY <1>2 DEF Start, LoopHead, poll_outbox, Sleep, ShutdownSignal, Crash, Tick, table, history
  <2>2. QED
    BY <1>1, <2>1
<1>3. CASE Recover(s)
  <2>1. UNCHANGED applied
    BY <1>3 DEF Recover, history
  <2>2. CASE UNCHANGED table
    BY <1>1, <2>1, <2>2 DEF table
  <2>3. CASE recover_stuck_entries
    <3>1. \A r \in Rows : \/ status'[r] = status[r]
                          \/ status[r] = "PROCESSING" /\ status'[r] = "PENDING"
      BY <2>3 DEF recover_stuck_entries, Stuck, Inv, TypeOK
    <3>2. UNCHANGED Verdict
      BY <3>1 DEF Verdict
    <3>3. QED
      BY <2>1, <3>2
  <2>4. QED
    BY <1>3, <2>2, <2>3 DEF Recover, Execute
<1>4. CASE MarkProcessing(s)
  <2>1. pc[s] = "mark_processing" /\ pc[s] \in Busy /\ UNCHANGED applied
    BY <1>4 DEF MarkProcessing, Busy, history
  <2>2. Row(s) \in Rows /\ status[Row(s)] = "PENDING"
    BY <1>0, <2>1, AtWorkFacts DEF SoleInv, BatchPart, Waiting, Row
  <2>3. CASE UNCHANGED table
    BY <1>1, <2>1, <2>3 DEF table
  <2>4. CASE mark_outbox_processing(Row(s))
    <3>1. Put(Row(s), "PROCESSING", attempts[Row(s)])
      BY <1>0, <2>1, <2>4, StatementsPut
    <3>2. UNCHANGED Verdict
      BY <2>2, <3>1, RequeueStutters
    <3>3. QED
      BY <2>1, <3>2
  <2>5. QED
    BY <1>4, <2>3, <2>4 DEF MarkProcessing, Execute, Row
<1>5. CASE dispatch(s)
  <2>1. pc[s] = "dispatch" /\ pc[s] \in Busy /\ UNCHANGED table
    BY <1>5 DEF dispatch, Busy
  <2>2. PICK r \in Rows : r = Row(s)
    BY <1>0, <2>1, AtWorkFacts
  <2>3. Verdict[r] = "queued" /\ UNCHANGED Verdict
    BY <1>1, <2>1, <2>2, VerdictOfStatus DEF SoleInv, BatchPart, AtHand, table
  <2>4. applied' = [applied EXCEPT ![r] = @ + 1] \/ applied' = [applied EXCEPT ![r] = @]
    BY <1>5, <2>2 DEF dispatch, Row
  <2>5. CASE applied' = [applied EXCEPT ![r] = @ + 1]
    BY <2>3, <2>5 DEF Contract!HandOver, Contract!Open
  <2>6. CASE applied' = [applied EXCEPT ![r] = @]
    <3>1. UNCHANGED applied
      BY <2>6 DEF Inv, TypeOK
    <3>2. QED
      BY <2>3, <3>1
  <2>7. QED
    BY <2>4, <2>5, <2>6
<1>6. CASE MarkSent(s)
  <2>1. pc[s] = "mark_sent" /\ pc[s] \in Busy /\ UNCHANGED applied
    BY <1>6 DEF MarkSent, Busy, history
  <2>2. PICK r \in Rows : r = Row(s)
    BY <1>0, <2>1, AtWorkFacts
  <2>3. Verdict[r] = "queued" /\ applied[r] > 0
    BY <1>0, <2>1, <2>2, VerdictOfStatus DEF SoleInv, BatchPart, AtHand, Inv, Confirmed, Row
  <2>4. CASE UNCHANGED table
    BY <1>1, <2>1, <2>4 DEF table
  <2>5. CASE mark_outbox_sent(Row(s))
    <3>1. Put(r, "SENT", attempts[r])
      BY <1>0, <2>1, <2>2, <2>5, StatementsPut
    <3>2. Verdict' = [Verdict EXCEPT ![r] = "sent"]
      BY <3>1, VerdictOfPut DEF Statuses
    <3>3. QED
      BY <2>1, <2>3, <3>2 DEF Contract!Settle, Contract!Confirm, Contract!Open
  <2>6. QED
    BY <1>6, <2>4, <2>5 DEF MarkSent, Execute, Row
<1>7. CASE MarkFailure(s) \/ ExceptHandler(s)
  <2>1. pc[s] \in {"mark_failure", "handler"} /\ pc[s] \in Busy /\ UNCHANGED applied
    BY <1>7 DEF MarkFailure, ExceptHandler, Busy, history
  <2>2. PICK r \in Rows : r = Row(s)
    BY <1>0, <2>1, AtWorkFacts
  <2>3. status[r] \in {"PENDING", "PROCESSING"}
    BY <2>1, <2>2 DEF SoleInv, BatchPart, AtHand, InHandler
  <2>4. Verdict[r] = "queued"
    BY <2>3, VerdictOfStatus
  <2>5. CASE UNCHANGED table
    BY <1>1, <2>1, <2>5 DEF table
  <2>6. CASE RecordFailure(s)
    <3>1. PICK st \in {"PENDING", "FAILED"} : Put(r, st, Snapshot(s) + 1)
      BY <1>0, <2>1, <2>2, <2>6, StatementsPut
    <3>2. CASE st = "PENDING"
      <4>1. UNCHANGED Verdict
        BY <2>3, <3>1, <3>2, RequeueStutters
      <4>2. QED
        BY <2>1, <4>1
    <3>3. CASE st = "FAILED"
      <4>1. Verdict' = [Verdict EXCEPT ![r] = "failed"]
        BY <3>1, <3>3, VerdictOfPut DEF Statuses
      <4>2. QED
        BY <2>1, <2>4, <4>1 DEF Contract!Settle, Contract!GiveUp, Contract!Open
    <3>4. QED
      BY <3>2, <3>3
  <2>7. QED
    BY <1>7, <2>5, <2>6 DEF MarkFailure, ExceptHandler, Execute
<1>8. QED
  BY <1>2, <1>3, <1>4, <1>5, <1>6, <1>7 DEF SendersNext, SenderStep

\* Senders that overlap revise verdicts, and report SENT only what was accepted.
LEMMA OverlappingDeliver ==
  ASSUME Overlapping, Inv, BatchWritten, SendersNext
  PROVE  Delivered
<1>1. Verdict \in [Rows -> {"none", "queued", "sent", "failed"}]
  BY DEF Verdict
<1>2. ASSUME NEW r \in Rows, Revised(r)
      PROVE  Contract!Settle(r) \/ Contract!Reopen(r) \/ UNCHANGED <<Verdict, applied>>
  <2>1. Contract!Open(r)
    BY <1>2 DEF Revised, Contract!Open
  <2>2. PICK v \in {"queued", "sent", "failed"} :
          Verdict' = [Verdict EXCEPT ![r] = v] /\ (v = "sent" => applied[r] > 0)
    BY <1>2 DEF Revised
  <2>3. CASE v = "queued"
    BY <1>1, <1>2, <2>2, <2>3 DEF Revised, Contract!Reopen
  <2>4. CASE v # "queued"
    BY <1>2, <2>1, <2>2, <2>4 DEF Revised, Contract!Settle, Contract!Confirm, Contract!GiveUp
  <2> QED
    BY <2>3, <2>4
<1>3. ASSUME NEW r \in Rows, Accepted(r) PROVE Contract!HandOver(r)
  BY <1>3 DEF Accepted, Contract!HandOver, Contract!Open
<1> QED
  BY <1>2, <1>3, SendersRevise DEF Delivered

AskedIsWritten == \A r \in Rows : dispatches[r] # 0 => status[r] # "ABSENT"

\* A provider is asked for a record at hand, whose row was inserted.
LEMMA AskedNext == Inv /\ BatchWritten /\ AskedIsWritten /\ [Next]_vars => AskedIsWritten'
<1> SUFFICES ASSUME Inv, BatchWritten, AskedIsWritten, [Next]_vars,
                    NEW r \in Rows, dispatches'[r] # 0
             PROVE  status'[r] # "ABSENT"
  BY DEF AskedIsWritten
<1>1. CASE UNCHANGED vars
  BY <1>1 DEF vars, table, history, AskedIsWritten
<1>2. CASE Next
  <2>1. CASE status[r] # "ABSENT"
    BY <1>2, <2>1, WrittenStays
  <2>2. CASE dispatches'[r] = dispatches[r]
    BY <1>2, <2>2, WrittenStays DEF AskedIsWritten
  <2>3. ASSUME NEW s \in Senders, dispatch(s), r # Record(s).row
        PROVE  dispatches'[r] = dispatches[r]
    BY <2>3 DEF dispatch, Inv, TypeOK
  <2>4. ASSUME NEW s \in Senders, dispatch(s) PROVE status[Record(s).row] # "ABSENT"
    BY <2>4, HeadWritten DEF dispatch, Busy
  <2>5. UNCHANGED dispatches \/ \E s \in Senders : dispatch(s)
    BY <1>2 DEF Next, SendersNext, SenderStep, insert_outbox, Start, LoopHead, Recover,
       poll_outbox, MarkProcessing, MarkSent, MarkFailure, ExceptHandler, Sleep,
       ShutdownSignal, Crash, Tick, history
  <2> QED
    BY <2>1, <2>2, <2>3, <2>4, <2>5
<1> QED
  BY <1>1, <1>2

\* The invariant of any deployment, that of a sole sender included.
FullInv ==
  /\ Inv /\ BatchWritten /\ AskedIsWritten
  /\ \A s \in Senders : Senders = {s} => SoleInv(s)

LEMMA SendersDeliver == FullInv /\ SendersNext => Delivered
<1> SUFFICES ASSUME FullInv, SendersNext PROVE Delivered
  OBVIOUS
<1>1. CASE Overlapping
  BY <1>1, OverlappingDeliver DEF FullInv
<1>2. CASE Senders = {}
  BY <1>2 DEF SendersNext, Tick, history, Verdict, Delivered
<1>3. CASE ~Overlapping /\ Senders # {}
  <2>1. PICK s \in Senders : TRUE
    BY <1>3
  <2>2. Senders = {s} /\ ~AckCanBeLost
    BY <1>3 DEF Overlapping
  <2> QED
    BY <2>2, SoleDelivers DEF FullInv
<1> QED
  BY <1>1, <1>2, <1>3

LEMMA FullInvAlways == Spec => []FullInv
<1>1. Init => FullInv
  BY InvInit, BatchWrittenInit, SoleInit DEF FullInv, AskedIsWritten, Init
<1>2. FullInv /\ [Next]_vars => FullInv'
  BY InvNext, BatchWrittenNext, AskedNext, SoleNext DEF FullInv
<1> QED
  BY <1>1, <1>2, PTL DEF Spec

\* However many senders there are, and whatever they crash over, lose and
\* overwrite, the outbox implements the delivery service: SENT is earned, a
\* hand-over is of an intent that was inserted, and where nothing overlaps
\* verdicts are final (process_record and insert_outbox).
THEOREM ContractKept == Spec => DeliveryContract
<1>1. Init => Contract!Init
  BY DEF Init, Contract!Init, Verdict
<1>2. FullInv /\ [Next]_vars => [Contract!Next]_(Contract!vars)
  <2>1. ASSUME FullInv, NEW r \in Rows, insert_outbox(r)
        PROVE  Contract!Submit(r) \/ UNCHANGED <<Verdict, applied>>
    BY <2>1, InsertSubmits DEF FullInv, Contract!Submit
  <2>2. UNCHANGED vars => UNCHANGED <<Verdict, applied>>
    BY DEF vars, table, history, Verdict
  <2> QED
    BY <2>1, <2>2, SendersDeliver DEF Next, Delivered, Contract!Next, Contract!vars
<1> QED
  BY <1>1, <1>2, FullInvAlways, PTL DEF Spec, DeliveryContract, Contract!Spec
=============================================================================
