---------------------------- MODULE GatewayProofs ----------------------------
(***************************************************************************)
(* Theorems about module Gateway, for any requests, leads and keys.        *)
(*                                                                         *)
(* The argument: the unique index makes the requests that inserted a lead  *)
(* and have not started its workflow exclusive per lead (Exclusive); such  *)
(* a request found no row, hence no workflow (Inserting, Starting).        *)
(***************************************************************************)
EXTENDS Gateway, TLAPS

\* What a request is about, from its first statement on: the lead of its event.
Identified ==
  \A q \in Requests :
    /\ pc[q] \in Transaction \cup {"start"}
         => key[q] \in Keys /\ lead[q] = LeadOf[key[q]]
    /\ pc[q] \in {"lookup", "signal"} => lead[q] \in Leads
    /\ pc[q] # "answered" => answer[q] = "none"
    /\ pc[q] = "idle" => lead[q] = NoLead

\* A request that has inserted a lead and not committed it was the first to.
Inserting == \A q \in Requests : pc[q] = "commit" => lead[q] \notin leads

\* A request about to start a workflow has committed the row.
Starting ==
  \A q \in Requests : pc[q] = "start" => lead[q] \in leads /\ wf[lead[q]] = "none"

Exclusive ==
  \A p, q \in Requests :
    p # q /\ pc[p] \in {"commit", "start"} /\ pc[q] \in {"commit", "start"}
      => lead[p] # lead[q]

Inv == TypeOK /\ Identified /\ Inserting /\ Starting /\ Exclusive
         /\ WorkflowHasRow /\ EventHasLead

-----------------------------------------------------------------------------

LEMMA InvInit == Init => Inv
BY GatewayAssumption DEF Init, Inv, TypeOK, Identified, Inserting, Starting,
   Exclusive, WorkflowHasRow, EventHasLead, Transaction, Locations, AnswerKinds

\* Each part of the invariant is preserved by each action of a request.
LEMMA InvNext == Inv /\ [Next]_vars => Inv'
<1> SUFFICES ASSUME Inv, [Next]_vars PROVE Inv'
  OBVIOUS
<1> USE GatewayAssumption
        DEF Inv, TypeOK, Locations, AnswerKinds, Transaction, tables
<1>1. ASSUME NEW q \in Requests, NEW k \in Keys, ingest_lead_webhook(q, k)
      PROVE  Inv'
  BY <1>1 DEF ingest_lead_webhook, Goto, Identified, Inserting, Starting, Exclusive,
     WorkflowHasRow, EventHasLead
<1>2. ASSUME NEW q \in Requests, NEW l \in Leads, signal_lead_workflow(q, l)
      PROVE  Inv'
  BY <1>2 DEF signal_lead_workflow, Goto, Identified, Inserting, Starting, Exclusive,
     WorkflowHasRow, EventHasLead
<1>3. ASSUME NEW q \in Requests, insert_event(q) PROVE Inv'
  BY <1>3 DEF insert_event, Goto, Answer, Identified, Inserting, Starting, Exclusive,
     WorkflowHasRow, EventHasLead
<1>4. ASSUME NEW q \in Requests, insert_lead(q) PROVE Inv'
  BY <1>4 DEF insert_lead, LeadLocked, Goto, Answer, Identified, Inserting, Starting,
     Exclusive, WorkflowHasRow, EventHasLead
<1>5. ASSUME NEW q \in Requests, Commit(q) PROVE Inv'
  BY <1>5 DEF Commit, CommitRows, Goto, Identified, Inserting, Starting,
     Exclusive, WorkflowHasRow, EventHasLead
<1>6. ASSUME NEW q \in Requests, start_workflow(q) PROVE Inv'
  BY <1>6 DEF start_workflow, StartRun, Goto, Answer, Identified, Inserting, Starting,
     Exclusive, WorkflowHasRow, EventHasLead
<1>7. ASSUME NEW q \in Requests, get_lead_by_id(q) PROVE Inv'
  BY <1>7 DEF get_lead_by_id, Goto, Answer, Identified, Inserting, Starting,
     Exclusive, WorkflowHasRow, EventHasLead
<1>8. ASSUME NEW q \in Requests, Signal(q) PROVE Inv'
  BY <1>8 DEF Signal, Answer, Identified, Inserting, Starting,
     Exclusive, WorkflowHasRow, EventHasLead
<1>9. ASSUME NEW q \in Requests, Fail(q) PROVE Inv'
  BY <1>9 DEF Fail, FailureAnswers, SignalFailure, CommitRows, StartRun, Answer, Identified,
     Inserting, Starting, Exclusive, WorkflowHasRow, EventHasLead
<1>10. ASSUME NEW l \in Leads, CloseWorkflow(l) PROVE Inv'
  BY <1>10 DEF CloseWorkflow, Identified, Inserting, Starting,
     Exclusive, WorkflowHasRow, EventHasLead
<1>11. CASE UNCHANGED vars
  BY <1>11 DEF vars, Identified, Inserting, Starting, Exclusive, WorkflowHasRow, EventHasLead
<1>12. QED
  BY <1>1, <1>2, <1>3, <1>4, <1>5, <1>6, <1>7, <1>8, <1>9, <1>10, <1>11 DEF Next, Handle

\* The invariant holds always: what a request at "commit" or "start" may rely on
\* (ingest_lead_webhook, between its statements).
THEOREM InvAlways == Spec => []Inv
BY InvInit, InvNext, PTL DEF Spec

-----------------------------------------------------------------------------

\* Every variable keeps its type.
THEOREM TypeCorrect == Spec => []TypeOK
<1>1. Inv => TypeOK
  BY DEF Inv
<1>2. QED
  BY <1>1, InvAlways, PTL

\* A workflow never runs for a lead that is not committed (ingest_lead_webhook).
THEOREM WorkflowAfterRow == Spec => []WorkflowHasRow
<1>1. Inv => WorkflowHasRow
  BY DEF Inv
<1>2. QED
  BY <1>1, InvAlways, PTL

\* An event and its lead are committed together (the transaction of
\* ingest_lead_webhook).
THEOREM EventWithLead == Spec => []EventHasLead
<1>1. Inv => EventHasLead
  BY DEF Inv
<1>2. QED
  BY <1>1, InvAlways, PTL

\* The request that inserted a lead finds its workflow id free: REJECT_DUPLICATE
\* never fires for the first start (start_lead_workflow after the commit).
THEOREM LayersAgree == Spec => []FirstLayerSuffices
<1>1. Inv => FirstLayerSuffices
  BY DEF Inv, Starting, FirstLayerSuffices
<1>2. QED
  BY <1>1, InvAlways, PTL

-----------------------------------------------------------------------------

\* A committed lead has a workflow, or the request that committed it will start
\* one, or that request was answered 500.
Accounted(l) ==
  \/ wf[l] # "none"
  \/ \E p \in Requests : /\ lead[p] = l /\ key[p] \in events
                         /\ pc[p] = "start" \/ answer[p] = "error"

AllAccounted ==
  /\ \A l \in leads : Accounted(l)
  /\ \A q \in Requests : answer[q] = "duplicate" => lead[q] \in leads
  /\ \A q \in Requests : pc[q] = "start" => key[q] \in events

\* A lead that is committed stays accounted for by the request that accounts for
\* it, unless that request moves on.
LEMMA StaysAccounted ==
  ASSUME Inv, AllAccounted, NEW l \in leads, NEW q \in Requests,
         UNCHANGED <<lead, key>>, events \subseteq events',
         \A m \in Leads : wf[m] # "none" => wf'[m] # "none",
         \A p \in Requests \ {q} : pc'[p] = pc[p] /\ answer'[p] = answer[p],
         pc[q] # "start", answer'[q] = answer[q] \/ answer[q] = "none"
  PROVE  Accounted(l)'
<1>1. l \in Leads /\ Accounted(l)
  BY DEF AllAccounted, Inv, TypeOK
<1>2. CASE wf[l] # "none"
  BY <1>1, <1>2 DEF Accounted
<1>3. ASSUME NEW p \in Requests, lead[p] = l, key[p] \in events,
             pc[p] = "start" \/ answer[p] = "error"
      PROVE  Accounted(l)'
  <2>1. p # q \/ answer'[p] = answer[p]
    BY <1>3
  <2>2. lead'[p] = l /\ key'[p] \in events' /\ (pc'[p] = "start" \/ answer'[p] = "error")
    BY <1>3, <2>1
  <2> QED
    BY <2>2 DEF Accounted
<1> QED
  BY <1>1, <1>2, <1>3 DEF Accounted

\* The step of one request keeps all leads accounted for.
LEMMA AllAccountedNext == Inv /\ AllAccounted /\ [Next]_vars => AllAccounted'
<1> SUFFICES ASSUME Inv, AllAccounted, [Next]_vars PROVE AllAccounted'
  OBVIOUS
<1> USE DEF tables
<1>1. CASE UNCHANGED vars
  BY <1>1 DEF vars, AllAccounted, Accounted
<1>2. ASSUME NEW q \in Requests, NEW k \in Keys, ingest_lead_webhook(q, k)
      PROVE  AllAccounted'
  BY <1>2 DEF ingest_lead_webhook, Goto, Inv, TypeOK, Identified, AllAccounted, Accounted
<1>3. ASSUME NEW q \in Requests, NEW l \in Leads, signal_lead_workflow(q, l)
      PROVE  AllAccounted'
  BY <1>3 DEF signal_lead_workflow, Goto, Inv, TypeOK, Identified, AllAccounted, Accounted
<1>4. ASSUME NEW q \in Requests, insert_event(q) PROVE AllAccounted'
  <2>1. \A l \in leads : Accounted(l)'
    BY <1>4, StaysAccounted DEF insert_event, Goto, Answer, Inv, TypeOK, Identified
  <2> QED
    BY <1>4, <2>1 DEF insert_event, Goto, Answer, Inv, TypeOK, Identified, Transaction,
       EventHasLead, AllAccounted
<1>5. ASSUME NEW q \in Requests, insert_lead(q) \/ get_lead_by_id(q) \/ Signal(q)
      PROVE  AllAccounted'
  <2>1. \A l \in leads : Accounted(l)'
    BY <1>5, StaysAccounted
       DEF insert_lead, get_lead_by_id, Signal, Goto, Answer, Inv, TypeOK, Identified
  <2> QED
    BY <1>5, <2>1
       DEF insert_lead, get_lead_by_id, Signal, Goto, Answer, Inv, TypeOK, AllAccounted
<1>6. ASSUME NEW q \in Requests, Commit(q) PROVE AllAccounted'
  <2>1. \A l \in leads : Accounted(l)'
    BY <1>6, StaysAccounted DEF Commit, CommitRows, Goto, Inv, TypeOK
  <2>2. Accounted(lead[q])'
    BY <1>6 DEF Commit, CommitRows, Goto, Inv, TypeOK, Accounted
  <2> QED
    BY <1>6, <2>1, <2>2 DEF Commit, CommitRows, Goto, Inv, TypeOK, AllAccounted
<1>7. ASSUME NEW q \in Requests, start_workflow(q) PROVE AllAccounted'
  <2>1. wf[lead[q]] = "none" /\ StartRun(lead[q]) /\ Answer(q, "accepted")
    BY <1>7 DEF start_workflow, Inv, Starting
  <2>2. \A l \in leads : Accounted(l)'
    BY <1>7, <2>1
       DEF start_workflow, StartRun, Answer, Inv, TypeOK, AllAccounted, Accounted
  <2> QED
    BY <1>7, <2>1, <2>2 DEF start_workflow, Answer, Inv, TypeOK, AllAccounted
<1>8. ASSUME NEW q \in Requests, Fail(q) PROVE AllAccounted'
  <2>1. PICK a : /\ Answer(q, a) /\ a \in {"error", "not_found"}
                 /\ pc[q] # "signal" => a = "error"
    BY <1>8 DEF Fail, FailureAnswers, SignalFailure
  <2>2. /\ pc'[q] = "answered" /\ answer'[q] = a /\ answer[q] = "none"
        /\ \A p \in Requests \ {q} : pc'[p] = pc[p] /\ answer'[p] = answer[p]
        /\ UNCHANGED <<lead, key>> /\ events \subseteq events' /\ leads \subseteq leads'
        /\ \A m \in Leads : wf[m] # "none" => wf'[m] # "none"
    BY <1>8, <2>1 DEF Fail, Answer, CommitRows, StartRun, Inv, TypeOK, Identified
  <2>3. \A l \in leads : Accounted(l)'
    <3>1. CASE pc[q] # "start"
      BY <2>2, <3>1, StaysAccounted
    <3>2. CASE pc[q] = "start"
      BY <2>1, <2>2, <3>2 DEF Inv, TypeOK, AllAccounted, Accounted
    <3> QED
      BY <3>1, <3>2
  <2>4. \A l \in leads' \ leads : Accounted(l)'
    <3> SUFFICES ASSUME NEW l \in leads', l \notin leads PROVE Accounted(l)'
      OBVIOUS
    <3>1. pc[q] = "commit" /\ l = lead[q] /\ key[q] \in events'
      BY <1>8 DEF Fail, CommitRows
    <3> QED
      BY <2>1, <2>2, <3>1 DEF Accounted
  <2> QED
    BY <2>1, <2>2, <2>3, <2>4 DEF AllAccounted
<1>9. ASSUME NEW l \in Leads, CloseWorkflow(l) PROVE AllAccounted'
  BY <1>9 DEF CloseWorkflow, Inv, TypeOK, AllAccounted, Accounted
<1> QED
  BY <1>1, <1>2, <1>3, <1>4, <1>5, <1>6, <1>7, <1>8, <1>9 DEF Next, Handle

\* However requests race and fail: who reads "duplicate" can rely on a workflow,
\* or on a request that will start it, or a request that committed an event of
\* the lead was answered 500 (ingest_lead_webhook and its outer except).
THEOREM LossAlwaysReported == Spec => []LossIsReported
<1>1. Init => AllAccounted
  BY DEF Init, AllAccounted
<1>2. AllAccounted => LossIsReported
  BY DEF AllAccounted, Accounted, LossIsReported
<1> QED
  BY <1>1, <1>2, AllAccountedNext, InvAlways, PTL DEF Spec

\* A committed lead has a workflow, or the request that will start it.
Attended(l) == \/ wf[l] # "none"
               \/ \E p \in Requests : pc[p] = "start" /\ lead[p] = l

NoneForgotten ==
  /\ \A l \in leads : Attended(l)
  /\ \A q \in Requests : answer[q] = "duplicate" => lead[q] \in leads

\* Where nothing fails nothing is lost: whoever reads "duplicate" can rely on a
\* workflow, or on a request that will start it (ingest_lead_webhook).
THEOREM NoFaultNoLoss == MaxFaults = 0 => (Spec => []DuplicateIsQualified)
<1> SUFFICES ASSUME MaxFaults = 0 PROVE Spec => []DuplicateIsQualified
  OBVIOUS
<1>1. Init => faults = 0 /\ NoneForgotten
  BY DEF Init, NoneForgotten
<1>2. Inv /\ faults = 0 /\ NoneForgotten /\ [Next]_vars => (faults = 0 /\ NoneForgotten)'
  <2> SUFFICES ASSUME Inv, faults = 0, NoneForgotten, [Next]_vars
               PROVE  (faults = 0 /\ NoneForgotten)'
    OBVIOUS
  <2> USE DEF Inv, TypeOK, NoneForgotten, Attended, tables
  <2>1. CASE UNCHANGED vars
    BY <2>1 DEF vars
  <2>2. ASSUME NEW q \in Requests, NEW k \in Keys, ingest_lead_webhook(q, k)
        PROVE  (faults = 0 /\ NoneForgotten)'
    BY <2>2 DEF ingest_lead_webhook, Goto, Identified
  <2>3. ASSUME NEW q \in Requests, NEW l \in Leads, signal_lead_workflow(q, l)
        PROVE  (faults = 0 /\ NoneForgotten)'
    BY <2>3 DEF signal_lead_workflow, Goto, Identified
  <2>4. ASSUME NEW q \in Requests, insert_event(q)
        PROVE  (faults = 0 /\ NoneForgotten)'
    BY <2>4 DEF insert_event, Goto, Answer, Identified, Transaction, EventHasLead
  <2>5. ASSUME NEW q \in Requests, insert_lead(q) \/ get_lead_by_id(q) \/ Signal(q)
        PROVE  (faults = 0 /\ NoneForgotten)'
    BY <2>5 DEF insert_lead, get_lead_by_id, Signal, Goto, Answer
  <2>6. ASSUME NEW q \in Requests, Commit(q)
        PROVE  (faults = 0 /\ NoneForgotten)'
    BY <2>6 DEF Commit, CommitRows, Goto
  <2>7. ASSUME NEW q \in Requests, start_workflow(q)
        PROVE  (faults = 0 /\ NoneForgotten)'
    BY <2>7 DEF start_workflow, StartRun, Answer, Starting
  <2>8. ASSUME NEW l \in Leads, CloseWorkflow(l)
        PROVE  (faults = 0 /\ NoneForgotten)'
    BY <2>8 DEF CloseWorkflow
  <2>9. \A q \in Requests : ~Fail(q)
    BY DEF Fail
  <2>10. QED
    BY <2>1, <2>2, <2>3, <2>4, <2>5, <2>6, <2>7, <2>8, <2>9 DEF Next, Handle
<1>3. NoneForgotten => DuplicateIsQualified
  BY DEF NoneForgotten, Attended, DuplicateIsQualified
<1>4. QED
  BY <1>1, <1>2, <1>3, InvAlways, PTL DEF Spec

-----------------------------------------------------------------------------
(* The API implements Intake.                                               *)

LEMMA StageUnchanged == UNCHANGED <<wf, leads>> => UNCHANGED Stage
BY DEF Stage

\* Committing the row of a new lead is the step from "unknown" to "recorded".
LEMMA StageOfCommit ==
  ASSUME Inv, NEW q \in Requests, pc[q] = "commit", CommitRows(q), UNCHANGED wf
  PROVE  Promise!Advance(lead[q], "unknown", "recorded")
<1>1. lead[q] \in Leads /\ lead[q] \notin leads /\ wf[lead[q]] = "none"
  BY GatewayAssumption DEF Inv, TypeOK, Identified, Transaction, Inserting, WorkflowHasRow
<1>2. leads' = leads \cup {lead[q]}
  BY DEF CommitRows
<1> QED
  BY <1>1, <1>2 DEF Stage, Promise!Advance

\* Starting its workflow is the step from "recorded" to "running".
LEMMA StageOfStart ==
  ASSUME Inv, NEW q \in Requests, pc[q] = "start", StartRun(lead[q]), UNCHANGED leads
  PROVE  Promise!Advance(lead[q], "recorded", "running")
<1>1. lead[q] \in Leads /\ lead[q] \in leads /\ wf[lead[q]] = "none"
  BY GatewayAssumption DEF Inv, TypeOK, Identified, Starting
<1>2. wf' = [wf EXCEPT ![lead[q]] = "running"] /\ wf \in [Leads -> {"none", "running", "closed"}]
  BY DEF StartRun, Inv, TypeOK
<1> QED
  BY <1>1, <1>2 DEF Stage, Promise!Advance

\* A request that is answered was not answered before, and is about a lead.
LEMMA AnswerTells ==
  ASSUME Inv, NEW q \in Requests, pc[q] \notin {"idle", "answered"},
         NEW a, Answer(q, a), UNCHANGED lead
  PROVE  Promise!Tell(q, a)
<1>1. lead[q] \in Leads /\ answer[q] = "none"
  BY GatewayAssumption DEF Inv, TypeOK, Identified, Locations, Transaction
<1> QED
  BY <1>1 DEF Answer, Promise!Tell

\* Every step of a request is one of Intake, or none.
LEMMA HandleKeepsPromise ==
  ASSUME Inv, NEW q \in Requests, Handle(q) \/ Fail(q)
  PROVE  Promise!Next \/ UNCHANGED Promise!vars
<1> USE DEF Promise!vars
<1>1. lead[q] \in Leads \/ pc[q] \in {"idle", "answered"}
  BY GatewayAssumption DEF Inv, TypeOK, Identified, Locations, Transaction
<1>2. CASE insert_event(q)
  <2>1. pc[q] = "insert_event" /\ UNCHANGED <<wf, leads, lead, faults>>
    BY <1>2 DEF insert_event, tables
  <2>2. CASE key[q] \in events /\ Answer(q, "duplicate")
    <3>1. lead[q] \in leads /\ lead[q] \in Leads
      BY <1>1, <2>1, <2>2 DEF Inv, Identified, Transaction, EventHasLead
    <3>2. Stage[lead[q]] # "unknown"
      BY <3>1 DEF Stage, Inv, TypeOK
    <3> QED
      BY <2>1, <2>2, <3>2, StageUnchanged, AnswerTells DEF Promise!Next, Promise!Duplicate
  <2> QED
    BY <1>2, <2>1, <2>2, StageUnchanged DEF insert_event, Goto
<1>3. CASE insert_lead(q)
  <2>1. pc[q] = "insert_lead" /\ UNCHANGED <<wf, leads, lead, faults>>
    BY <1>3 DEF insert_lead, tables
  <2>2. CASE lead[q] \in leads /\ Answer(q, "error")
    <3>1. Stage[lead[q]] # "unknown"
      BY <1>1, <2>1, <2>2 DEF Stage, Inv, TypeOK
    <3> QED
      BY <2>1, <2>2, <3>1, StageUnchanged, AnswerTells DEF Promise!Next, Promise!Refuse
  <2> QED
    BY <1>3, <2>1, <2>2, StageUnchanged DEF insert_lead, Goto
<1>4. CASE Commit(q)
  BY <1>1, <1>4, StageOfCommit DEF Commit, Goto, Promise!Next, Promise!Record
<1>5. CASE start_workflow(q)
  <2>1. pc[q] = "start" /\ UNCHANGED <<leads, lead, faults>> /\ wf[lead[q]] = "none"
    BY <1>5 DEF start_workflow, tables, Inv, Starting
  <2>2. StartRun(lead[q]) /\ Answer(q, "accepted")
    BY <1>5, <2>1 DEF start_workflow
  <2> QED
    BY <2>1, <2>2, StageOfStart, AnswerTells DEF Promise!Next, Promise!Accept
<1>6. CASE get_lead_by_id(q)
  <2>1. pc[q] = "lookup" /\ UNCHANGED <<wf, leads, lead, faults>>
    BY <1>6 DEF get_lead_by_id, tables
  <2>2. CASE lead[q] \notin leads /\ Answer(q, "not_found")
    <3>1. Stage[lead[q]] # "running"
      BY <1>1, <2>1, <2>2 DEF Stage, Inv, WorkflowHasRow
    <3> QED
      BY <2>1, <2>2, <3>1, StageUnchanged, AnswerTells DEF Promise!Next, Promise!NotFound
  <2> QED
    BY <1>6, <2>1, <2>2, StageUnchanged DEF get_lead_by_id, Goto
<1>7. CASE Signal(q)
  <2>1. pc[q] = "signal" /\ UNCHANGED <<wf, leads, lead, faults>>
    BY <1>7 DEF Signal, tables
  <2>2. Stage[lead[q]] = "running" <=> wf[lead[q]] = "running"
    BY <1>1, <2>1 DEF Stage
  <2>3. CASE wf[lead[q]] = "running" /\ Answer(q, "signal_sent")
    BY <2>1, <2>2, <2>3, StageUnchanged, AnswerTells DEF Promise!Next, Promise!SignalSent
  <2>4. CASE wf[lead[q]] # "running" /\ Answer(q, "not_found")
    BY <2>1, <2>2, <2>4, StageUnchanged, AnswerTells DEF Promise!Next, Promise!NotFound
  <2> QED
    BY <1>7, <2>3, <2>4 DEF Signal
<1>8. CASE Fail(q)
  <2>1. PICK a : /\ Answer(q, a) /\ a \in {"error", "not_found"}
                 /\ pc[q] # "signal" => a = "error"
    BY <1>8 DEF Fail, FailureAnswers, SignalFailure
  <2>2. /\ pc[q] \notin {"idle", "answered"} /\ UNCHANGED lead
        /\ faults' = faults + 1
    BY <1>8 DEF Fail
  <2>3. Promise!Tell(q, a)
    BY <2>1, <2>2, AnswerTells
  <2>4. \/ pc[q] = "commit" /\ Promise!Advance(lead[q], "unknown", "recorded")
        \/ pc[q] = "start" /\ Promise!Advance(lead[q], "recorded", "running")
        \/ UNCHANGED Stage
    BY <1>8, StageOfCommit, StageOfStart, StageUnchanged DEF Fail, tables
  <2> QED
    BY <2>1, <2>2, <2>3, <2>4 DEF Promise!Next, Promise!Fail
<1> QED
  BY <1>2, <1>3, <1>4, <1>5, <1>6, <1>7, <1>8 DEF Handle

LEMMA StepKeepsPromise ==
  ASSUME Inv, [Next]_vars
  PROVE  [Promise!Next]_(Promise!vars)
<1>1. ASSUME NEW q \in Requests, NEW l \in Leads,
             \/ signal_lead_workflow(q, l)
             \/ \E k \in Keys : l = LeadOf[k] /\ ingest_lead_webhook(q, k)
      PROVE  Promise!Next
  <2>1. lead[q] = NoLead /\ lead' = [lead EXCEPT ![q] = l] /\ UNCHANGED <<answer, wf, leads, faults>>
    BY <1>1 DEF signal_lead_workflow, ingest_lead_webhook, Goto, tables, Inv, Identified
  <2> QED
    BY <2>1, StageUnchanged DEF Promise!Next, Promise!Ask
<1>2. ASSUME NEW q \in Requests, NEW k \in Keys, ingest_lead_webhook(q, k)
      PROVE  Promise!Next
  BY <1>1, <1>2, GatewayAssumption
<1>3. ASSUME NEW l \in Leads, CloseWorkflow(l) PROVE Promise!Next
  <2>1. wf[l] = "running" /\ wf' = [wf EXCEPT ![l] = "closed"] /\ UNCHANGED <<leads, lead, answer, faults>>
    BY <1>3 DEF CloseWorkflow, tables
  <2>2. Promise!Advance(l, "running", "closed")
    BY <2>1 DEF Stage, Promise!Advance, Inv, TypeOK
  <2> QED
    BY <2>1, <2>2 DEF Promise!Next, Promise!Finish
<1>4. CASE UNCHANGED vars
  BY <1>4, StageUnchanged DEF vars, tables, Promise!vars
<1> QED
  BY <1>1, <1>2, <1>3, <1>4, HandleKeepsPromise DEF Next

\* The API keeps the promise of Intake, for any number of requests that race,
\* fail and are retried: a lead is recorded before it is worked on, one request
\* starts its workflow and is told so, and an answer that is not true costs a
\* failure or refuses a known lead (ingest_lead_webhook, signal_lead_workflow).
THEOREM PromiseIsKept == Spec => IngestsAsPromised
<1>1. Init => Promise!Init
  BY DEF Init, Promise!Init, Stage
<1> QED
  BY <1>1, StepKeepsPromise, InvAlways, PTL DEF Spec, IngestsAsPromised, Promise!Spec
=============================================================================
