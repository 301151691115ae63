------------------------------- MODULE Gateway -------------------------------
(***************************************************************************)
(* The HTTP API: concurrent requests of one tenant, the two tables they    *)
(* insert into, and the Temporal server that starts a workflow per lead.   *)
(*   src/api/webhooks.py   ingest_lead_webhook                             *)
(*   src/api/leads.py      signal_lead_workflow                            *)
(*   src/db/queries.py     insert_event, insert_lead, get_lead_by_id       *)
(* Both tables are unique per tenant, so that tenants do not interact.     *)
(* PostgreSQL makes an insert of a key wait for the open transaction that  *)
(* already inserted it.                                                    *)
(***************************************************************************)
EXTENDS Naturals

CONSTANTS
  Requests,         \* HTTP requests; a client's retry is one more of them
  Leads,            \* external_lead_ids
  Keys, LeadOf,     \* dedupe_keys, and the lead each one announces
  NoKey, NoLead,    \* of a request that has none yet
  SdkNamesNotFound, \* does temporalio.client have a WorkflowNotFoundError?
  MaxFaults         \* bound: statements and calls that fail

ASSUME GatewayAssumption ==
  /\ LeadOf \in [Keys -> Leads]
  /\ NoKey \notin Keys /\ NoLead \notin Leads
  /\ SdkNamesNotFound \in BOOLEAN
  /\ MaxFaults \in Nat

VARIABLES
  events, leads,    \* committed rows of the two tables, by their unique key
  wf,               \* the workflow lead:{tenant}:{external_lead_id}
  pc, answer,       \* each request: where it is, what the client got
  key, lead,        \* each request: what it is about
  faults

tables == <<events, leads>>
vars == <<tables, wf, pc, answer, key, lead, faults>>

Transaction == {"insert_event", "insert_lead", "commit"}
Locations == Transaction \cup {"idle", "start", "lookup", "signal", "answered"}
AnswerKinds == {"none", "accepted", "duplicate", "signal_sent", "not_found", "error"}

TypeOK ==
  /\ events \in SUBSET Keys /\ leads \in SUBSET Leads
  /\ wf \in [Leads -> {"none", "running", "closed"}]
  /\ pc \in [Requests -> Locations]
  /\ answer \in [Requests -> AnswerKinds]
  /\ key \in [Requests -> Keys \cup {NoKey}]
  /\ lead \in [Requests -> Leads \cup {NoLead}]
  /\ faults \in Nat

Init ==
  /\ events = {} /\ leads = {}
  /\ wf = [l \in Leads |-> "none"]
  /\ pc = [q \in Requests |-> "idle"]
  /\ answer = [q \in Requests |-> "none"]
  /\ key = [q \in Requests |-> NoKey]
  /\ lead = [q \in Requests |-> NoLead]
  /\ faults = 0

Goto(q, loc) == pc' = [pc EXCEPT ![q] = loc] /\ UNCHANGED answer

Answer(q, a) == /\ pc' = [pc EXCEPT ![q] = "answered"]
                /\ answer' = [answer EXCEPT ![q] = a]

-----------------------------------------------------------------------------
(* POST /webhooks/lead                                                      *)

ingest_lead_webhook(q, k) ==
  /\ pc[q] = "idle"
  /\ Goto(q, "insert_event")
  /\ key' = [key EXCEPT ![q] = k]
  /\ lead' = [lead EXCEPT ![q] = LeadOf[k]]
  /\ UNCHANGED <<tables, wf, faults>>

\* Uncommitted rows of other requests that an insert waits for.
\* Mutant: requests wait for each other's intention to insert.
EventLocked_mutual(q) ==
  \E p \in Requests \ {q} : pc[p] \in Transaction /\ key[p] = key[q]

EventLocked(q) ==
  \E p \in Requests \ {q} : pc[p] \in {"insert_lead", "commit"} /\ key[p] = key[q]

\* Mutant: no unique index on the lead.
LeadLocked_never(q) == FALSE

LeadLocked(q) == \E p \in Requests \ {q} : pc[p] = "commit" /\ lead[p] = lead[q]

\* Mutant: the event is committed on its own.
insert_event_autocommit(q) ==
  /\ pc[q] = "insert_event" /\ ~EventLocked(q)
  /\ IF key[q] \in events THEN Answer(q, "duplicate") ELSE Goto(q, "insert_lead")
  /\ events' = events \cup {key[q]}
  /\ UNCHANGED <<leads, wf, key, lead, faults>>

insert_event(q) ==
  /\ pc[q] = "insert_event" /\ ~EventLocked(q)
  /\ IF key[q] \in events THEN Answer(q, "duplicate") ELSE Goto(q, "insert_lead")
  /\ UNCHANGED <<tables, wf, key, lead, faults>>

\* Mutant: the workflow is started before the commit.
insert_lead_early(q) ==
  /\ pc[q] = "insert_lead" /\ ~LeadLocked(q)
  /\ IF lead[q] \in leads THEN Answer(q, "error") ELSE Goto(q, "start")
  /\ UNCHANGED <<tables, wf, key, lead, faults>>

\* A second event of a known lead: the UniqueViolationError of this insert is
\* only caught by the outer except, and the event is rolled back with it.
insert_lead(q) ==
  /\ pc[q] = "insert_lead" /\ ~LeadLocked(q)
  /\ IF lead[q] \in leads THEN Answer(q, "error") ELSE Goto(q, "commit")
  /\ UNCHANGED <<tables, wf, key, lead, faults>>

CommitRows(q) == events' = events \cup {key[q]} /\ leads' = leads \cup {lead[q]}

Commit(q) ==
  /\ pc[q] = "commit"
  /\ CommitRows(q)
  /\ Goto(q, "start")
  /\ UNCHANGED <<wf, key, lead, faults>>

\* Mutant: a status nobody else knows.
StartRun_open(l) == wf' = [wf EXCEPT ![l] = "open"]

StartRun(l) == wf' = [wf EXCEPT ![l] = "running"]

\* REJECT_DUPLICATE: the id is taken by a closed workflow as well.
start_workflow(q) ==
  /\ pc[q] = "start"
  /\ IF wf[lead[q]] = "none"
       THEN StartRun(lead[q]) /\ Answer(q, "accepted")
       ELSE Answer(q, "duplicate") /\ UNCHANGED wf
  /\ UNCHANGED <<tables, key, lead, faults>>

-----------------------------------------------------------------------------
(* POST /leads/{lead_id}/signal                                             *)

signal_lead_workflow(q, l) ==
  /\ pc[q] = "idle"
  /\ Goto(q, "lookup")
  /\ lead' = [lead EXCEPT ![q] = l]
  /\ UNCHANGED <<tables, wf, key, faults>>

get_lead_by_id(q) ==
  /\ pc[q] = "lookup"
  /\ IF lead[q] \in leads THEN Goto(q, "signal") ELSE Answer(q, "not_found")
  /\ UNCHANGED <<tables, wf, key, lead, faults>>

\* What the signal itself does is an action of LeadWorkflow.
Signal(q) ==
  /\ pc[q] = "signal"
  /\ Answer(q, IF wf[lead[q]] = "running" THEN "signal_sent" ELSE "not_found")
  /\ UNCHANGED <<tables, wf, key, lead, faults>>

-----------------------------------------------------------------------------
(* What fails: a statement, a call, or the process with a request in it. An  *)
(* open transaction is rolled back; a commit or a start may have been done.  *)

\* Mutant: the failed call of the signal is answered as if it had been done.
SignalFailure_sent == {"error", "signal_sent"}

\* The call of handle.signal is the only statement in the inner try, and the
\* class caught there first is Exception itself when the SDK does not name
\* WorkflowNotFoundError; get_temporal_client before it is outside.
SignalFailure == {"error"} \cup IF SdkNamesNotFound THEN {} ELSE {"not_found"}

\* Mutant: any failure of the start is taken for a workflow that exists already.
FailureAnswers_duplicate(q) ==
  CASE pc[q] = "signal" -> SignalFailure
    [] pc[q] = "start" -> {"duplicate"}
    [] OTHER -> {"error"}

FailureAnswers(q) == IF pc[q] = "signal" THEN SignalFailure ELSE {"error"}

Fail(q) ==
  /\ pc[q] \notin {"idle", "answered"}
  /\ faults < MaxFaults /\ faults' = faults + 1
  /\ \E a \in FailureAnswers(q) : Answer(q, a)
  /\ \/ pc[q] = "commit" /\ CommitRows(q) /\ UNCHANGED wf
     \/ pc[q] = "start" /\ wf[lead[q]] = "none" /\ StartRun(lead[q]) /\ UNCHANGED tables
     \/ UNCHANGED <<tables, wf>>
  /\ UNCHANGED <<key, lead>>

\* The workflow ends on its own (LeadWorkflow).
CloseWorkflow(l) ==
  /\ wf[l] = "running"
  /\ wf' = [wf EXCEPT ![l] = "closed"]
  /\ UNCHANGED <<tables, pc, answer, key, lead, faults>>

Handle(q) ==
  \/ insert_event(q) \/ insert_lead(q) \/ Commit(q) \/ start_workflow(q)
  \/ get_lead_by_id(q) \/ Signal(q)

Next ==
  \/ \E q \in Requests :
       \/ \E k \in Keys : ingest_lead_webhook(q, k)
       \/ \E l \in Leads : signal_lead_workflow(q, l)
       \/ Handle(q) \/ Fail(q)
  \/ \E l \in Leads : CloseWorkflow(l)

Spec == Init /\ [][Next]_vars

\* The event loop runs every request that is not waiting for a lock.
FairSpec == Spec /\ \A q \in Requests : WF_vars(Handle(q))

-----------------------------------------------------------------------------
(* Properties.                                                              *)

\* A workflow never runs for a lead that is not in the database yet, or whose
\* insertion was rolled back: its first activity would not find the row
\* (webhooks.py:55-103, qualify.py:48-50).
WorkflowHasRow == \A l \in Leads : wf[l] # "none" => l \in leads

\* An event and its lead are committed together (webhooks.py:56-85).
EventHasLead == \A k \in events : LeadOf[k] \in leads

\* The transaction and REJECT_DUPLICATE never disagree: who inserted the lead
\* is the first to start its workflow, so that the second layer of the dedupe
\* (webhooks.py:104-113) has nothing left to do.
FirstLayerSuffices == \A q \in Requests : pc[q] = "start" => wf[lead[q]] = "none"

\* No request waits for ever for the rows another one inserts.
EventuallyAnswered == \A q \in Requests : (pc[q] # "idle") ~> (pc[q] = "answered")

\* Who reads "duplicate" can rely on a workflow, or on a request that will start
\* it, or the loss has been reported: a request that committed an event of the
\* lead was answered 500 (webhooks.py:86-133).
LossIsReported ==
  \A q \in Requests : answer[q] = "duplicate"
    => \/ wf[lead[q]] # "none"
       \/ \E p \in Requests : /\ lead[p] = lead[q] /\ key[p] \in events
                              /\ pc[p] = "start" \/ answer[p] = "error"

\* How far a lead has come, for who reads both the database and Temporal.
Stage == [l \in Leads |-> IF wf[l] # "none" THEN wf[l]
                         ELSE IF l \in leads THEN "recorded" ELSE "unknown"]

Promise == INSTANCE Intake WITH stage <- Stage, failures <- faults

\* The API keeps the promise of module Intake: however requests race and fail, a
\* lead is recorded, then started by exactly one of them, and an answer that is
\* not true costs a failure or is the refusal of a lead that is known already
\* (ingest_lead_webhook, signal_lead_workflow).
IngestsAsPromised == Promise!Spec

-----------------------------------------------------------------------------
(* What the documentation says, and the code does not do.                   *)

\* README.md:3: "The system ingests leads via webhook, qualifies them": who is
\* told that a lead is a duplicate can rely on somebody having it qualified.
DuplicateIsQualified ==
  \A q \in Requests : answer[q] = "duplicate"
    => \/ wf[lead[q]] # "none"
       \/ \E p \in Requests : pc[p] = "start" /\ lead[p] = lead[q]
=============================================================================
