# Revenue Ops Copilot: a TLA+ model of the lead pipeline

The program takes sales leads through a webhook, runs one Temporal workflow per
lead (qualify with an LLM, wait for a human, draft, wait again), writes what has
to be sent to an `outbox` table, and lets a separate sender process deliver it
to SendGrid and HubSpot. This directory models the parts of it where order,
failure and concurrency decide whether a lead is lost, emailed twice or emailed
without approval.

Paths below are those of the repository's tree (`src/...` is the Python package,
so `PROJECT.json`, which counts from the parent directory, writes `src/src/...`).
Tools: TLC for everything in *Runs*, TLAPS (tlapm) for everything in *Proofs*.

    tlc -workers 2 -config Outbox.cfg MCOutbox.tla
    tlapm OutboxProofs.tla

## 1. The system

| Component | State it keeps | Operations | Talks to |
|---|---|---|---|
| Webhook (`src/api/webhooks.py`) | rows of `events`, `lead_state` | `POST /webhooks/lead` | PostgreSQL, then Temporal `start_workflow` |
| Signal and status API (`src/api/leads.py`) | none | `POST /leads/{id}/signal`, `GET /leads/{id}` | PostgreSQL, Temporal `signal` |
| Lead workflow (`src/workflows/lead_workflow.py`) | `_state`, `_approved`, `_cancelled`, kept by Temporal | `run`, signals `approve`, `cancel`, query `get_state` | activities |
| Activities (`src/activities/*.py`) | `lead_state`, `runs`, `outbox` | `qualify_lead`, `draft_email`, `write_outbox_email`, `write_outbox_crm`, `schedule_followup` | PostgreSQL, OpenAI, Temporal |
| Follow-up workflow (`src/workflows/followup_workflow.py`) | `_state`, `_cancelled` | `run`, signal `cancel` | activities, next touchpoint |
| Outbox (`outbox` table, `src/db/outbox_queries.py`) | `status`, `attempts`, `next_attempt_at`, `updated_at` | insert, poll, mark processing / sent / failed / permanently failed, recover | |
| Sender worker (`src/workers/sender.py`, `senders/*.py`) | the polled batch, the shutdown event | recover, poll, process each record, sleep | outbox, SendGrid, HubSpot |
| LLM contract (`src/llm/*`, `src/templates/fallback.py`) | none | complete, parse, repair, price | OpenAI |
| Temporal client and worker | one client singleton, one worker | connect, run | Temporal |
| Pool (`src/db/connection.py`) | asyncpg pool | connect, acquire | PostgreSQL |
| Evaluation and CI gate (`eval/*`) | `baseline.json` | score, compare | |
| Shell: `main.py`, `middleware.py`, `config.py`, logging, encryption | none that lasts | | |

How they interact: the webhook and the workflow share only the id
`lead:{tenant}:{external_lead_id}`; the workflow and the sender share only the
outbox table; the lead workflow starts the first follow-up, and each follow-up
the next; all of them share `lead_state`. No component waits for another one
across these borders. So they are modelled one by one, and then put together
(`RevenueOps`, and `Deployment` with the real outbox in it).

### What is hard in it

* **Outbox.** Every statement of a sender commits on its own. Between any two of
  them the process may die, another sender may run, or five minutes may pass and
  `recover_stuck_entries` may free the row. No UPDATE looks at the status it
  overwrites, and the attempt count it writes comes from the record that was
  polled. The provider may accept a request whose answer never arrives.
* **Lead workflow.** Two gates share the flag `_approved`; `cancel` is looked at
  only when the run leaves a gate. Activities are retried three times and may go
  on after the server gave them up; their effects are in tables the run does not
  see.
* **Webhook.** Two layers of dedupe: a transaction with two unique indexes, then
  a workflow id that is never reused. Between the two the process may die.
* **Follow-up chain.** Each touchpoint is a run of its own, started by an activity
  of the one before it, with a configuration that is read anew each time. A cancel
  is looked at twice, and a call the server gave up may start the next touchpoint
  long after.
* **LLM steps.** Two nested `try` statements, three flags and five ways out; the
  row of the ledger and the answer go different ways; a connection of the pool is
  held all the while, also by attempts nobody waits for any more.
* **Signal endpoint.** The row and the workflow are looked up at two moments, and
  exceptions are told apart by class.

`PROJECT.json` lists each of these at its line under `hazards`, with the
properties that would catch it.

## 2. The modules

| Module | What it is |
|---|---|
| `Delivery` | what an outbox promises, with nothing of how: the abstract specification |
| `Outbox` | the table and any number of senders; `Contract` maps it to `Delivery` |
| `Intake` | what the API promises about a lead, with nothing of how: the abstract specification |
| `LeadWorkflow` | one lead: the run, the activity attempts, their effects |
| `Gateway` | concurrent HTTP requests of one tenant, the two tables, the workflow ids; `Promise` maps it to `Intake` |
| `FollowupChain` | the runs of all touchpoints of a lead, and the attempts of their calls |
| `RevenueOps` | `LeadWorkflow`, `FollowupChain` and `Delivery` composed, for one lead |
| `Deployment` | the same with `Outbox` and its senders in the place of `Delivery` |
| `LlmChain` | what is made of the completions of one LLM step: parse, repair, fallback |
| `LlmStep` | the LLM steps of many leads on one worker: attempts, ledger, pool |
| `EvalMetrics` | the evaluation: the chain once more, the metrics, the gate |
| `MCOutbox`, `MCLeadWorkflow`, `MCGateway`, `MCFollowupChain`, `MCRevenueOps`, `MCDeployment`, `MCLlmStep` | finite instances for TLC |
| `OutboxProofs` | theorems about `Outbox`, with any number of senders and with one |
| `LeadProofs`, `LeadRowProofs` | theorems about `LeadWorkflow`: the order of things, and the lead's row |
| `GatewayProofs`, `FollowupProofs` | theorems about the modules of these names |
| `LlmProofs` | theorems about `LlmStep` and `EvalMetrics` |
| `RevenueProofs` | theorems about the composition, from those about its parts |
| `DeploymentProofs` | theorems about `Deployment`, from those about `RevenueOps` and `Outbox` |

How they hang together: `Outbox` implements `Delivery` (`Contract`), and
`RevenueOps` uses `Delivery` in its place; `Deployment` puts `Outbox` back, and
implements `RevenueOps`. `Gateway` implements `Intake` (`Promise`). `LlmStep` is `LeadWorkflow`'s `CallLlm` and
`Commit` in detail. `EvalMetrics` extends `LlmChain`, because the evaluation
repeats that chain.

An operator whose comment begins with *Mutant* is a variant of the definition
below it with a plausible bug; `PROJECT.json` says which property refutes it.
They show that a property can fail, and take no part in any specification.

### Outbox

State: `status`, `attempts` are the columns; `wait` is the time left until
`next_attempt_at` and `age` the time since `updated_at`, both in ticks, so that
time needs no absolute clock. `pc` and `batch` are the program counter and the
polled records of each sender, `stopping` its shutdown event. `applied` counts
how often the provider accepted a row, `dispatches` how often it was asked.

| Action | Code |
|---|---|
| `insert_outbox` | `queries.py` `insert_outbox`, `ON CONFLICT DO NOTHING` |
| `Start`, `LoopHead`, `Sleep`, `ShutdownSignal` | `run_sender` |
| `Recover` | `recover_stuck_entries`, one UPDATE over all rows |
| `poll_outbox` | `sender.py` `poll_outbox`: due rows, oldest first, `LIMIT`; the validation of the rows |
| `MarkProcessing`, `dispatch`, `MarkSent`, `MarkFailure`, `ExceptHandler` | `process_record`, from await to await |
| `Crash`, `Tick` | the environment |

`Execute` is one statement: it commits and the sender goes on; or the sender sees
an exception, and then the statement was rolled back or, with `AckCanBeLost`,
committed all the same. `send_email` and `send_crm_upsert` are what one call may
come to: accepted and heard, accepted and not heard, refused, or an exception
before the request was made. A row whose type `dispatch` does not know is refused.

`Delivery` says: an intent is handed over only once it was submitted; it is reported
sent only after it was accepted; it is never withdrawn. It may be given up at any time:
what that takes, `GivenUpWasTried` says of `Outbox` itself. Where it is not `Revisable`, a
verdict is final and no hand-over follows it; where it is, a verdict may be taken back,
and only *sent* has a condition to meet again. `Contract` takes `Overlapping` for that
constant: a second sender, or a statement whose acknowledgement can be lost, may
overwrite a verdict it never saw.

Left out: `last_error` and `sent_at` (nothing reads them), the payload (except
whether the pool decodes it, `PayloadDecoded`), and `run_sender`'s disconnect.
`PROCESSING_TIMEOUT` and the schedule are in ticks; the code's are 5 minutes and
`[60, 300, 1800, 3600]` seconds.

### LeadWorkflow

State: `input`, `state`, `gate`, `verdict`, `approved`, `cancelled`,
`qualification` are the run's; `attempt` is the number Temporal gives the pending
attempt; `exec` is every attempt with the step it is at; `row`, `outbox`,
`followup`, `runs` are what the activities left in the database and in Temporal.

| Action | Code |
|---|---|
| `BeginRun`, `Resume` (inside `Report`), `ReviewGate`, `ApprovalGate` | `LeadWorkflow.run`, from await to await |
| `Signals` | signal handlers; all signals of one activation precede the waiting run |
| `GateTimeout` | `wait_condition(timeout=24h)` |
| `PickUp`, `Begin`, `CallLlm`, `Commit`, `Report` | one activity attempt: first transaction, LLM call, last transaction, return |
| `SettingsRefused` | `Settings()` of an attempt, which raises what is not retried |
| `StartToCloseTimeout`, `RetryOrFail`, `WorkerCrash` | the timeouts and the retry policy the run passes to Temporal |

One activation is one step, because Temporal runs it without interleaving. An
attempt is several steps. `Transaction` may commit, fail, or commit and lose the
acknowledgement. A timed-out attempt ends with its timeout or becomes one of at
most `MaxZombies` that go on; what it reports is no longer heard.

`QUALIFIED` and `DRAFTED` of `_state` are overwritten before the run's next await
and cannot be seen by anyone, so `state` does not take them; the column of
`lead_state` does. The parse, repair, fallback chain of an LLM step is its result
here: an answer, the fallback (which always asks for a review), or an exception;
`LlmStep` has the rest.
`SettingsRefused` is `Settings()` at the top of three of the activities: it reads the
environment file again at each attempt, and its `ValidationError` is one of the
`non_retryable_error_types`, so that no attempt follows. (A completion that fails its
validation raises the same class, but where it is parsed it is caught; nothing raises
`PolicyBlockError`.)
`insert_outbox` here is an element of a set, since the unique index makes it so;
what becomes of it is module `Outbox`.

### Gateway

State: committed `events` and `leads`; `wf`, the workflow of each lead; and for
each request where it is, what it is about and what the client got. Uncommitted
rows are not a variable of their own: they follow from where a request is, and
`EventLocked` and `LeadLocked` are PostgreSQL's rule that an insert of a key waits
for the open transaction that inserted it. `Fail` is a statement or call that
raises, or the process dying with the request in it: the transaction is rolled
back, but a commit or a start may have happened. A client's retry is one more
request. Tenants share no row and no workflow id, so one is enough.

`Intake` is the view of a client that can also look into the database and Temporal: a
lead is unknown, recorded, running or closed (`Stage`), and moves by one step at a time;
`accepted` is told to the one request that starts its workflow, `duplicate` is true in
that the lead is recorded, `signal_sent` and `not_found` in that the workflow runs or
does not. An `error`, or a `not_found` that is not true, costs one of the `failures`
(`Fail`), and then the thing may have happened; the one `error` without a failure is the
500 of a further event of a lead that is known (`Refuse`).

The class `leads.py:15` looks up does not exist in `temporalio.client`, so the first
`except` clause after `handle.signal` catches everything and answers `not_found`; the
failure of `get_temporal_client` before it is outside and answers 500. `SignalFailure`
has both. `SdkNamesNotFound` says whether the class is there (see *assumed*, below).
`LossIsReported` is what the window between commit and start leaves of a promise: who is
told *duplicate* of a lead nobody works on comes after somebody who was told 500.

### FollowupChain

State: for each touchpoint `state` (`none` until it is started), `cancelled`,
`max_touchpoints` of its input, and `attempt` and `picked` of its pending activity.
`calls` are the attempts on the worker, `emails` the touchpoints with an intent in
the outbox.

| Action | Code |
|---|---|
| `BeginFollowup`, `DraftReturns`, `AfterEmail` (inside `Report`) | `FollowupWorkflow.run`, from await to await |
| `CancelFollowup` | the signal `cancel`, also before `start_delay` is over |
| `TakeUp`, `WriteEmail`, `ScheduleNext`, `Report` | an attempt of `write_outbox_email` or `schedule_followup`: what it reads, what it does, what it reports |
| `StartChain` | the lead workflow's `schedule_followup` for touchpoint 1 |
| `SettingsRefused` | `Settings()` in `schedule_followup`, whose `ValidationError` is not retried |
| `CallTimeout`, `RetryOrFail`, `ChainCrash` | the timeouts, the retry policy, the end of the worker process |

`schedule_followup` reads `tenant_config` when its attempt begins (`TakeUp`) and uses
it when it starts the next run (`ScheduleNext`), so that a late attempt starts it
with what was true long ago. An id that was ever used is never started again. At
most `MaxLate` calls outlive their timeout. `draft_email` is one step with its
attempts, as it changes nothing the chain reads; `start_delay` is a time nothing
depends on, so a pending run may begin at any time.

### RevenueOps

One lead with everything that is done for it. Two steps are shared: the transaction
of the lead workflow's `schedule_followup` is `StartChain`, and a transaction that
adds an intent to the outbox is `Submit` of `Delivery` (`Submitted`). Everything else
interleaves.

### Deployment

`RevenueOps` with the variables of `Outbox` added. A transaction that adds an intent is
`insert_outbox` of its row (`Inserted`), and every other action of `Outbox` interleaves
with the workflows (`SendersNext`). `phase`, the variable of `Delivery`, is no state of
its own here: it is `Verdict`, what the table says. So `DeliversAsPromised`, which is
`SystemSpec` of `RevenueOps`, is checked of a system in which the table, polled batches,
crashes and retries are all there.

### LlmChain and LlmStep

A completion is what the parser can tell of it: `conforms`, `deviates` (an object the
schema refuses), `not_object`, `not_json`; the repair may besides raise or come
without text. `Parsed` and `Repaired` are the ends of the `try` statements of
`qualify.py` and `draft.py`, which are the same, with their flags; `Row` is what
`insert_run` is given.

`at` is the await each attempt stands at, `said` the completions it got, `made` its
local variables, `runs` its row of the ledger, `connected` who holds a connection of
the pool. `SettingsRefused` ends an attempt, and the step, before it asks for one.
`Acquire` has no timeout, as in the code. `StartToCloseTimeout` may leave
the attempt to itself, with its connection; `WorkerCrash` ends them all.

### EvalMetrics

Pure operators. A metric is in units of 1/10000, the fourth digit `run_eval` rounds
to, so that the thresholds are exact: 300, 200, 1000. `compare` gives the set of
answers that are possible: where a metric fell by exactly its threshold, binary
floats decide (`MayFail`, `MustFail`). The order of the branches of
`calculate_compliance_score` is that of the code: what has to do with BLOCK first.

## 3. Runs

Passing (all with zero errors):

| Run | Instance | Shows |
|---|---|---|
| `outbox` | 1 sender, 3 rows (two of unknown type, refused whenever tried), batch 2, 2 attempts, 2 faults, 1 signal | `AttemptBudget`, `StopIsClean`, `AttemptsNeverRegress`, `NeverBeforeDue`; `DeliveryContractLive`: every behaviour is one of `Delivery`, verdicts are final, and with fairness every intent gets one, also the row that the batch leaves behind |
| `outbox_pair` | 2 senders on 1 row, 3 attempts, 1 fault, acknowledgements may be lost | what survives the overlap: `GivenUpWasTried`, `DeliveryContract` with verdicts that may be revised, and `EventuallySettled` |
| `lead_workflow` | 2 attempts, one of which outlives its timeout | `EmailNeedsApproval`, `CancelledLeavesNothing`, `CompletedDidAll`, `CancelBeatsReview`, `EffectsInOrder`, `RowMatchesResult`, `LateEffectsAreItsOwn`, `EventuallyClosed` |
| `gateway` | 3 requests, 2 leads, 3 events (two for one lead), 2 faults, the SDK the program has | `WorkflowHasRow`, `EventHasLead`, `FirstLayerSuffices`, `EventuallyAnswered`, `LossIsReported`; `IngestsAsPromised`: every behaviour is one of `Intake` |
| `followup` | 3 touchpoints, 3 attempts, 2 late calls, a configuration of none that becomes two or the reverse | `EmailsInOrder`, `WithinConfigured`, `CancelStopsChain`, `CompletedPassedOn`, `ChainEnds` |
| `revenue_ops` | the lead workflow, 1 follow-up, the delivery service; 1 attempt each | `EventuallyAtRest` |
| `deployment` | the lead workflow, 1 follow-up, 1 sender that takes a row at a time; 1 attempt each, no fault | `AskedOnlyIfApproved`, `CancelledLeavesNoRow`; `DeliversAsPromised`: every behaviour is one of `RevenueOps` |
| `llm` | 1 step with 3 attempts, 2 connections; all completions | `LedgerHonest`, `ResultRecorded`, `OnlyConforming`, `EveryAttemptEnds`; and the assumptions of `MCLlmStep` about `EvalMetrics` |

All but `outbox_pair`, `revenue_ops` and `deployment` also check the type invariant of
their module. Three properties are proved and not run, because a run checks more:
`SentWasAccepted` follows from `DeliveryContract`, and `ContactNeedsApproval` and
`CancelledNeverContacted` from the two invariants of `deployment`.
The statement of each property, and the lines it is about, precede its definition. The assumptions of `MCLlmStep` compare the score with one counted by
kind of mistake, over all lists of up to three results; say that correcting a
decision never lowers it and that the mock passes the gate; and place the committed
baseline at the thresholds.

Violated, on purpose; each one is a disagreement between a text and the code:

| Run | Property | Says |
|---|---|---|
| `outbox_duplicate` | `NoDuplicateSend` | README.md:364 |
| `outbox_payload` | `EventuallyDispatched` | README.md:30 |
| `lead_block` | `BlockIsEnforced` | README.md:187 |
| `gateway_lost` | `DuplicateIsQualified` | README.md:3 |

### Bounds, and why they are enough

* **`MaxAttempts`, 2 or 3 (5 in the code).** Two attempts tell the first failure,
  the last one and the one in between apart; three make the schedule clamp at its
  last entry (`Schedule` has two). The theorems hold for every value.
* **`MaximumAttempts`.** The lead workflow has 2 (3 in the code): the first, and a
  last one with a predecessor that may still run. The chain and the LLM step have the
  3 of the code; the whole has 1, because each part is checked with retries on its
  own, and the theorems about the whole hold for every value.
* **`MaxZombies` 1, `MaxLate` 2.** The attempts that outlive their timeout. Two late
  calls are an email and a start of the next touchpoint, or two starts.
* **`MaxTouchpoint` 3, `Configs` {0, 2}.** A first touchpoint that is sent whatever
  the configuration, one that was configured, and one that must not be reached.
* **`PoolSize` 2 with 3 attempts.** Two late attempts exhaust the pool and the third
  waits. `Seconds` has one completion of each kind `repair_json` tells apart.
* **`MaxApplied` 1**, how often a provider accepts one intent in `revenue_ops`: that
  it comes to rest does not depend on it. In `deployment` it is 0, no bound: there it is
  the bounds of `Outbox` that count.
* **`Revisable`** is FALSE in `revenue_ops`, as one sender delivers; what is proved of
  the whole holds for both values.
* **`deployment`** has a sender that takes one row at a time, gives up after one attempt
  and meets no fault: about a million states in three minutes. What it shows that no other
  run does is the sender at any of its statements when a row appears. Retries, batches,
  crashes and overlapping senders are in `outbox` and `outbox_pair`, and in the theorems
  of `DeploymentProofs`, which have none of these bounds.
* **Rows, 1 to 3; batch, 1 or 2.** Rows meet only in a batch and in the poll: two
  make a batch in which one waits for the other, and a third, in `outbox`, is left
  behind its `LIMIT` by two that fail whenever they are tried. With two senders there
  is one row, so that batches of two senders that overlap in part are not checked.
* **Senders, 2.** All hazards are about a sender and one that overtakes it.
* **`MaxFaults`, 1 or 2; `MaxStops`, 1.** Two faults are the statement that fails
  and its except clause that fails as well; in `gateway`, a start and a signal.
* **`MaxOverdue`, 0 or 1.** How far in the past a due row is told apart from another.
  With 0, in `outbox`, due rows are polled in any order: what holds there does not
  depend on `ORDER BY`.
* **`PROCESSING_TIMEOUT`, 0 or 1 tick.** With 0, in `outbox`, one tick already makes a
  row stuck: the recovery is only ever early, and a sole sender recovers while it works
  on nothing.
* **`age` stops growing once a row is stuck** and is not counted outside
  `PROCESSING`, where no statement reads it.
* **Requests, 3.** Two that race and a third that finds what they left.

`CHECK_DEADLOCK FALSE` is in the configurations of `LeadWorkflow` (a closed run is
the end), `Gateway` (all requests answered is the end), `FollowupChain`, `RevenueOps`
and `LlmStep` (all runs closed). Senders and the clock
never stop, so the outbox runs check deadlock.

### Fairness

* `Outbox!FairSpec`: the clock advances, and each sender takes its next step. The
  first is time; the second is the asyncio loop, plus an operator who starts a
  process again that stopped. Neither promises that a call succeeds: it is finitely
  many faults that makes senders succeed at last, and a provider that always
  refuses ends in FAILED.
* `PromptSenders` (only in `outbox_pair`): no live sender works on a claimed
  record for as long as the recovery takes. `httpx` is given 30 s per phase, the
  recovery waits 5 minutes. Without it `EventuallySettled` is false: two slow
  senders can each have their row freed under them and hand it back and forth.
* `LeadWorkflow!FairSpec`: Temporal starts the run and fires timers and
  start-to-close timeouts, and the attempts on a worker go on. Nobody is assumed
  to send a signal.
* `Gateway!FairSpec`: the loop runs each request that waits for no lock. `Handle`
  is weakly fair, so a request that is blocked needs the others to finish, which is
  what `EventuallyAnswered` is about.

* `FollowupChain!ChainFairSpec`: Temporal starts what is due, hands over what was
  reported and times out what was not, and a worker takes up what is queued. The
  calls themselves are promised nothing: each may hang or die, and `ChainEnds` holds
  by the timeouts.
* `LlmStep!FairSpec`: each call returns or raises at last; the client of OpenAI has
  600 s. `Acquire` is strongly fair, because asyncpg's pool serves those that wait in
  their order: a connection that comes and goes reaches everybody.
* `RevenueOps!SystemFairSpec`: the fairness of the three parts, each as on its own.

### What is assumed of the outside

* A provider accepts a request during the call or not at all; it does not act on
  a request after the sender has given up waiting and moved on.
* asyncpg returns `jsonb` as text when no codec is set, which is what the pool of
  `connection.py` has: `PayloadDecoded` is FALSE in the program as it is. The other
  outbox runs use TRUE and say what holds once a codec is set.
* `temporalio.client` has no `WorkflowNotFoundError`: `SdkNamesNotFound` is FALSE in
  the program as it is and in both runs of `Gateway`. The theorems hold for both values.
* Temporal delivers a signal it acknowledged, and runs a workflow's code once per
  activation as far as the outside can see.

## 4. What the models found

With a run each (`findings` in `PROJECT.json` quotes the texts):

1. `outbox_duplicate`: the provider accepts an email, the answer is lost, the
   retry sends it again. The idempotency key protects the table, not the provider.
2. `outbox_payload`: with the pool as configured no row passes
   `OutboxRecord.model_validate`, so every poll raises and nothing is ever sent.
3. `lead_block`: the run never reads `policy_decision`; a BLOCKed lead is emailed.
4. `gateway_lost`: the commit is done and the start fails; the client's retry is
   told *duplicate* and nobody qualifies the lead. `NoFaultNoLoss` proves that this takes
   a failure, and `LossAlwaysReported` that a request with an event of the lead was
   answered 500.

Without a run of their own:

* A second event of a known lead is answered 500, where README.md:162 says *no error*
  and tests/test_webhooks.py:143 expects *duplicate*: the unique violation of
  `insert_lead` leaves the transaction (`insert_lead` of `Gateway`), and the branch for an
  already started workflow is never reached (`FirstLayerSuffices`).
* `calculate_backoff` is given the new attempt number, at least 1, so the first entry
  of the schedule (60 s) is never used: the first retry waits 5 minutes, where
  README.md:357 draws 1m. That no retry comes early is `NeverBeforeDue`.
* With two senders SENT is not final. Both poll the row; the first sends it and
  marks it SENT; the second marks it PROCESSING again and sends it. What is left of the
  contract is that SENT was accepted (`Revisable`) and FAILED was tried
  (`GivenUpWasTried`). The count of a row may go down as well, and `NeverBeforeDue` fails:
  one sends what the other has just put off.
* With one sender but lost acknowledgements, SENT may be written, seen as an error,
  and overwritten by the except clause: the same holds (`Overlapping`).
* `lead_state.state` ends as DRAFTED: no activity writes COMPLETED or CANCELLED
  into what README.md:341 calls the canonical state machine (`RowMatchesResult`).
* An attempt of `qualify_lead` or `draft_email` that timed out may still write when the
  run has gone on, or is closed: `lead_state` goes back to what that attempt computed,
  and the ledger gets one more row of that step. `RowMatchesResult` leaves these
  behaviours out, and `runs` holds steps, not rows; what else such an attempt can write
  is bounded by `LateEffectsAreItsOwn`.
* `schedule_followup` that started the workflow and lost its report raises
  `WorkflowAlreadyStartedError` on every retry: the run ends FAILED with all done.
* An LLM that is down, rather than wrong, is not covered by the fallback: the
  exception leaves the activity, and after three attempts the run is FAILED.
* The ledger has one row for each attempt that came to its end. A repair call leaves
  none, its tokens are not in the cost of the step, and a call that failed is nowhere,
  where README.md:43 says *every LLM call* (`insert_run` is only in `Record`).
* A completion that is JSON but no object makes the parser raise TypeError, which the
  `except` clause does not name: it is neither repaired nor replaced, and README.md:31
  has no such branch (`parse_response`, `Complete`). Three of them fail the lead.
* Every failure of a signal call is answered 404, *no running workflow*, also when
  Temporal cannot be reached (leads.py:15-18, 53-61).
* Nothing signals `FollowupWorkflow.cancel`: the API signals the lead workflow only,
  which is closed once its follow-ups are started. The model lets anybody send it.
* The draft of a follow-up puts `lead_state.state` of a finished lead back to DRAFTING,
  then DRAFTED.
* A tenant with `max_touchpoints = 0` still gets follow-up 1 (`WithinConfigured` says
  *but the first*).
* The default of `lead.get("name", "there")` in the fallback template never applies: the
  key is always there, so a lead without a name is greeted *Hi None*. And the template
  is that of the first outreach for follow-ups as well.
* The gate with 50 samples: one repaired sample lowers the rate from 1.0 to 0.98, by
  exactly the 2% that README.md:263 allows, and the floats refuse it
  (1.0 - 0.98 > 0.02); so they do 0.74 - 0.71 against 3% (`MayFail`).
* The docstring of `calculate_compliance_score` gives ALLOW for BLOCK both -0.5 and
  -1.0, and README.md:225 gives -0.5; the code gives -1.0 (`Weight`). An exception of one sample ends `run_eval`
  without a report.

## 5. Proofs

Each theorem holds for every value of the constants that satisfies the named
assumption of its module (`OutboxAssumption`, `LeadAssumption`, `GatewayAssumption`,
`ChainAssumption`, `LlmAssumption`, `SystemAssumption`, `DeploymentAssumption`), so for any number of rows,
senders, attempts, requests, touchpoints and faults. Nothing else is assumed except
where a statement says so.

**`OutboxProofs`, any number of senders.** `TypeCorrect`, `SentImpliesAccepted`,
`GivenUpTried`. That SENT was accepted is not inductive: `MarkSent` writes SENT
because of what an earlier step of the same sender saw. `Inv` adds `Holding` (a sender
at work has a record) and `Confirmed` (a sender about to write SENT had its record
accepted), which other senders cannot disturb because `applied` only grows. The
table's half of a step (`StatementsKeepVerdicts`) and the sender's half
(`StayKeeps`, `NextRecordKeeps`, `LoopErrorKeeps`) are separate lemmas, joined by
`PartsMakeInv`. That FAILED was tried is not inductive either, as the count written is
that of a record polled long before, and may be lower than the row's. `Counts` bounds
every count there is by what was tried (`Tried`: dispatches and faults), in the rows, in
the records of every batch, and, one higher, in the record a sender is about to count as
failed, however it got there (`SettledFrom`).

**The same module, `Senders = {s}`.** `BudgetIsKept`, `CleanStop`,
`AttemptsAreKept`, `BackoffIsKept`. The
invariant `SoleInv` says that the polled snapshot and the row stay in step: rows
that wait in the batch are as they were polled (`Waiting`, `Disjoint`), the row at
hand is at most one statement ahead (`AtHand`, `InHandler`). Then a dispatch is
counted in `attempts`, or owed by the record at hand, or paid for by a fault
(`Owes`, `Budget`). For the backoff, `DueInHand` says that every record still to be
dispatched is due: it was when it was polled, only the sender itself sets a new time for
its row, and when it does it is done with the record (`DueShifts`, `DueStays`,
`DuePolled`).

**The contract.** `ContractKept`: `Outbox` implements `Delivery`, for any number of
senders. `status` is mapped to the phases of `Delivery` (`Verdict`). A lone sender that
hears of what it commits moves verdicts forward only, by `SoleInv` (`SoleDelivers`); in
any other case each statement still is a `Settle` or a `Reopen`, because a sender has in
hand only rows that were inserted (`BatchIsWritten`) and writes SENT only over one that
was accepted, by `Confirmed` (`SendersRevise`, `OverlappingDeliver`). `FullInv` is both
invariants together, with `AskedIsWritten`.

**`LeadProofs`.** `TypeCorrect`, `EmailIsApproved`, `CancelledIsClean`,
`CompletedIsDone`, `CancelIsFinal`, `OrderIsKept`, `LateIsItsOwn`, for any number of
attempts and any number that outlive their timeout. The idea is that an attempt
exists only once the run has reached its activity (`ExecInv`), effects come only from
attempts (`EffectInv`), and a state of the run implies which gates were passed and
which activities reported (`RunInv`): a late attempt can repeat an effect but never
bring one forward. `CancelInv` keeps an early cancel in force. `LateIsItsOwn` is about steps:
each effect that appears is that of an attempt that was at its commit
(`OnlyAttemptsWrite`), and the run had asked for it. Steps on the worker
are handled by `AttemptKeeps`, steps of the run by `RunKeeps`.

**`GatewayProofs`.** `TypeCorrect`, `WorkflowAfterRow`, `EventWithLead`,
`LayersAgree`, `LossAlwaysReported`, and `NoFaultNoLoss` (with `MaxFaults = 0`: only
that the window is never hit without a failure). The invariant says who holds the index entry of a lead:
`Inserting` (who is about to commit it is first), `Starting` (who is about to start
its workflow committed it and found the id free), `Exclusive` (never two at once).
For `LossAlwaysReported`, `AllAccounted` adds that every committed lead has a workflow,
or a request about to start it, or one with an event of the lead that was answered 500.
`PromiseIsKept` is the refinement of `Intake`, whether or not the SDK has the class:
`Commit` is `Record`, the winning `start_workflow` is `Accept`, an insert that finds the
lead is `Refuse`, whatever fails is `Fail`, which may have recorded or started the lead
on its way, and requests that only go from one statement to the next stutter. It
needs `Exclusive` and `Starting` to see that no stage is skipped or taken twice.

**`LeadRowProofs`.** `RowIsRight`, which is about behaviours
without a late attempt (`zombies = 0`). The invariant `SoloRow` then says that of all
cells of `exec` at most the pending attempt's is busy (`SoloInv`), and that row, answer
and qualification agree at each step of that attempt (`RowInv`).

**`FollowupProofs`.** `TypeCorrect`, `OrderIsKept`, `LimitIsKept`, `CancelIsObeyed`,
`CompletedIsDone`, for any number of touchpoints and late calls. None is inductive:
a late call may write or start long after its run went on. `ChainInv` therefore
lets each call vouch for its run (`CallOk`: its run was told to write, was not
cancelled before, and a report has left its effect) and each run for what came before
it (`RunOk`). `StepKeeps` is the one argument for all that calls do: emails are only
added, runs only fail or are started, and only over an email.

**`LlmProofs`.** `TypeCorrect` (with the bound of the pool), `LedgerIsHonest`,
`ResultIsRecorded`, `OnlyWhatConforms`. `AttemptInv` says what an attempt can have said,
made and written at each await; nothing of it changes once the chain is through;
`OutcomeInv` ties what the run got to the attempt that was current. `EvalAgrees` says
that `run_eval` tells its samples apart as the chain does.

**`RevenueProofs`.** `PartsBehave`: the composition refines `LeadWorkflow`,
`FollowupChain` and `Delivery`, so that the theorems about the first two, and
what `Delivery` promises, hold in it (`LP` is the instance of `LeadProofs`; `SameInit`,
`SameNext` show that it reads the lead's module as `RevenueOps` does). What is left to
show is `Link`: what a provider was handed is in the outbox, and there is no follow-up
before the lead workflow started one. From it and the parts follow
`ContactIsApproved` and `CancelledIsLeftAlone`.

**`DeploymentProofs`.** The argument from the approval to the provider, through three
processes, for any number of senders. `DeploymentParts`: with the real outbox each part
still behaves as its own module says. `DeploymentDelivers`: the deployment refines
`RevenueOps`. The invariant is `Agree`: `phase` is the verdict of the table, and an
intent has a row exactly if its workflow wrote it. A transaction adds at most one intent
and takes none away (`WrittenGrows`, from `EffectsStay` and `EmailsStay` of the parts),
so that an insert is the `Submit` of that intent (`InsertedIsSubmitted`); what senders do
is `ServiceSide` (`SendersServe`, from `SendersDeliver` of `OutboxProofs`). Hence
`SystemInDeployment`: contact needs approval and a cancelled lead is left alone, with the
real table. `AskedIsApproved` and `CancelledHasNoRow` are stronger, about what a provider
is asked and what is in the table at all. `BP` is the instance of `OutboxProofs`; the
lemmas `Same...` show that it reads `Outbox` as `Deployment` does.

Only model-checked: everything under fairness (`EventuallySettled`,
`DeliveryContractLive`, `EventuallyClosed`, `EventuallyAnswered`, `ChainEnds`,
`EventuallyAtRest`, `EveryAttemptEnds`), which is out of the prover's reach, and what the
metrics compute over lists, which takes induction over data.

## 6. Not modelled, and why

* Prompt texts, templates, token counts, prices, logging, configuration, encryption,
  validation of payloads: data that no property here depends on.
* The status endpoint: it reads one row. `get_active_prompt` and
  `get_fallback_template`: nothing calls them.
* The Temporal client singleton and the worker's start and stop: one assignment
  under a lock, and calls of the SDK; the SDK's side of an activity is in
  `LeadWorkflow`, `FollowupChain` and `LlmStep`.
* Migrations: run by hand. Their unique constraints and defaults are in the tables.
* Files and the command line of the evaluation.
* The webhook in the composition: `RevenueOps` begins with a workflow that is started,
  and `Gateway` says when that is. `WorkflowHasRow` is what the first needs of the second.

## 7. What could follow

* `Gateway` composed in front of `RevenueOps`, for a lead from its request to its last
  email. It would add little: they share one step, the start of the workflow.
* `LlmStep` as a refinement of the attempts of `LeadWorkflow`, with the completions
  mapped to answers; now their agreement is by comparison of the two modules.
* The steps of liveness that the prover can reach: a measure that every step of a sender
  lowers or leaves, so that what is left to TLC is fairness alone.
* `deployment` with a fault, and its liveness: now it has safety only, because the parts
  and `revenue_ops` have the rest and the state space is at its limit.
