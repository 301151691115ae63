-------------------------------- MODULE LlmStep --------------------------------
(***************************************************************************)
(* The LLM steps of many leads on one worker: attempts of qualify_lead and *)
(* draft_email that share the database pool and hold a connection of it    *)
(* from before the first query until after the last, LLM calls included.   *)
(*   src/activities/qualify.py, draft.py                                   *)
(*   src/db/connection.py                  the pool                        *)
(*   src/db/queries.py                     insert_run                      *)
(*                                                                         *)
(* LeadWorkflow has the part of such a step that the lead's run and row    *)
(* see; here it is the completions, the ledger and the pool.               *)
(***************************************************************************)
EXTENDS LlmChain, Naturals, FiniteSets

CONSTANTS
  Steps,             \* the activities that are due, each of some lead
  MaximumAttempts,   \* DEFAULT_RETRY.maximum_attempts
  PoolSize,          \* connections of the pool, 10 unless it is told otherwise
  Firsts, Seconds    \* what the LLM calls come to

ASSUME LlmAssumption ==
  /\ IsFiniteSet(Steps)
  /\ MaximumAttempts \in Nat \ {0}
  /\ PoolSize \in Nat \ {0}
  /\ Firsts \subseteq Completions /\ Seconds \subseteq Repairs

VARIABLES
  attempt,      \* of each step: Temporal's attempt number
  outcome,      \* what the run got of each step, or that it failed
  at,           \* each attempt: the await it is at
  said,         \* each attempt: the completions it got
  made,         \* each attempt: its local variables, once the chain is through
  connected,    \* the attempts that hold a connection of Database.pool
  runs          \* the rows of the ledger, by the attempt that wrote them

vars == <<attempt, outcome, at, said, made, connected, runs>>

Attempts == Steps \X (1..MaximumAttempts)
Places == {"none", "acquire", "begin", "complete", "repair", "record", "report", "over"}
Nothing == [chosen |-> "nothing"]
Failed == [chosen |-> "failed"]
NoRow == [status |-> "none"]
Silence == [first |-> "none", second |-> "none"]

TypeOK ==
  /\ attempt \in [Steps -> 1..MaximumAttempts]
  /\ outcome \in [Steps -> Outcomes \cup {Nothing, Failed}]
  /\ at \in [Attempts -> Places]
  /\ said \in [Attempts -> [first : Firsts \cup {"none"}, second : Seconds \cup {"none"}]]
  /\ made \in [Attempts -> Outcomes \cup {Nothing}]
  /\ connected \in SUBSET Attempts
  /\ Cardinality(connected) <= PoolSize
  /\ runs \in [Attempts -> {Row(out) : out \in Outcomes} \cup {NoRow}]

Init ==
  /\ attempt = [s \in Steps |-> 1]
  /\ outcome = [s \in Steps |-> Nothing]
  /\ at = [c \in Attempts |-> "none"]
  /\ said = [c \in Attempts |-> Silence]
  /\ made = [c \in Attempts |-> Nothing]
  /\ connected = {}
  /\ runs = [c \in Attempts |-> NoRow]

-----------------------------------------------------------------------------
(* Temporal's side.                                                         *)

Pending(s) == outcome[s] = Nothing

Current(c) == Pending(c[1]) /\ attempt[c[1]] = c[2]

\* Mutant: one attempt more than the policy has.
RetryOrFail_extra(s) ==
  IF attempt[s] <= MaximumAttempts
    THEN attempt' = [attempt EXCEPT ![s] = @ + 1] /\ UNCHANGED outcome
    ELSE outcome' = [outcome EXCEPT ![s] = Failed] /\ UNCHANGED attempt

RetryOrFail(s) ==
  IF attempt[s] < MaximumAttempts
    THEN attempt' = [attempt EXCEPT ![s] = @ + 1] /\ UNCHANGED outcome
    ELSE outcome' = [outcome EXCEPT ![s] = Failed] /\ UNCHANGED attempt

\* Attempt c is over and its connection is back, however it left the block.
Leave(c) ==
  /\ at' = [at EXCEPT ![c] = "over"]
  /\ connected' = connected \ {c}

\* An exception leaves attempt c.
Raise(c) ==
  /\ Leave(c)
  /\ IF Current(c) THEN RetryOrFail(c[1]) ELSE UNCHANGED <<attempt, outcome>>

\* A worker takes the queued attempt.
TakeUp(c) ==
  /\ Current(c) /\ at[c] = "none"
  /\ at' = [at EXCEPT ![c] = "acquire"]
  /\ UNCHANGED <<attempt, outcome, said, made, connected, runs>>

\* Settings() reads the environment file again before the attempt does anything.
\* Its ValidationError is one of the non_retryable_error_types.
SettingsRefused(c) ==
  /\ Current(c) /\ at[c] = "none"
  /\ at' = [at EXCEPT ![c] = "over"]
  /\ outcome' = [outcome EXCEPT ![c[1]] = Failed]
  /\ UNCHANGED <<attempt, said, made, connected, runs>>

\* start_to_close_timeout, 60 s: the attempt may be stopped, or go on unheard.
\* A connection it waits for, or holds, it then waits for, or holds, all the same.
StartToCloseTimeout(c) ==
  /\ Current(c) /\ at[c] # "none"
  /\ RetryOrFail(c[1])
  /\ Leave(c) \/ UNCHANGED <<at, connected>>
  /\ UNCHANGED <<said, made, runs>>

\* The worker process dies, and its pool with it.
WorkerCrash ==
  /\ at' = [c \in Attempts |-> IF at[c] = "none" THEN "none" ELSE "over"]
  /\ connected' = {}
  /\ UNCHANGED <<attempt, outcome, said, made, runs>>

-----------------------------------------------------------------------------
(* An attempt on the worker, from one await to the next.                    *)

Goto(c, place) == at' = [at EXCEPT ![c] = place]

\* pool.acquire(): no timeout, first come first served.
Acquire(c) ==
  /\ at[c] = "acquire" /\ Cardinality(connected) < PoolSize
  /\ connected' = connected \cup {c}
  /\ Goto(c, "begin")
  /\ UNCHANGED <<attempt, outcome, said, made, runs>>

\* The lead is read and marked QUALIFYING or DRAFTING.
Begin(c) ==
  /\ at[c] = "begin"
  /\ \/ Goto(c, "complete") /\ UNCHANGED <<attempt, outcome, connected>>
     \/ Raise(c)
  /\ UNCHANGED <<said, made, runs>>

\* chat_completion, whose exceptions nothing catches, and the parser.
Complete(c) ==
  /\ at[c] = "complete"
  /\ \/ Raise(c) /\ UNCHANGED <<said, made>>
     \/ \E first \in Firsts :
          /\ said' = [said EXCEPT ![c].first = first]
          /\ \/ /\ parse_response(first) = "parsed"
                /\ Goto(c, "record") /\ made' = [made EXCEPT ![c] = Parsed]
                /\ UNCHANGED <<attempt, outcome, connected>>
             \/ /\ parse_response(first) \in Caught
                /\ Goto(c, "repair")
                /\ UNCHANGED <<attempt, outcome, made, connected>>
             \/ /\ parse_response(first) \notin Caught \cup {"parsed"}
                /\ Raise(c) /\ UNCHANGED made
  /\ UNCHANGED runs

\* Mutant: the repair takes a connection of its own.
Repair_nested(c) ==
  /\ at[c] = "repair" /\ Cardinality(connected) < PoolSize
  /\ \E second \in Seconds :
       /\ said' = [said EXCEPT ![c].second = second]
       /\ made' = [made EXCEPT ![c] = Repaired(second)]
  /\ Goto(c, "record")
  /\ UNCHANGED <<attempt, outcome, connected, runs>>

Repair(c) ==
  /\ at[c] = "repair"
  /\ \E second \in Seconds :
       /\ said' = [said EXCEPT ![c].second = second]
       /\ made' = [made EXCEPT ![c] = Repaired(second)]
  /\ Goto(c, "record")
  /\ UNCHANGED <<attempt, outcome, connected, runs>>

insert_run(c) == runs' = [runs EXCEPT ![c] = Row(made[c])]

\* Mutant: a failure to write the ledger is logged and forgotten.
Record_swallowed(c) ==
  /\ at[c] = "record"
  /\ insert_run(c) \/ UNCHANGED runs
  /\ Goto(c, "report") /\ connected' = connected \ {c}
  /\ UNCHANGED <<attempt, outcome, said, made>>

\* The ledger and the lead's row in one transaction, and the connection is back;
\* the transaction may fail, or be made and not heard of.
Record(c) ==
  /\ at[c] = "record"
  /\ \/ /\ insert_run(c)
        /\ Goto(c, "report") /\ connected' = connected \ {c}
        /\ UNCHANGED <<attempt, outcome>>
     \/ (insert_run(c) \/ UNCHANGED runs) /\ Raise(c)
  /\ UNCHANGED <<said, made>>

Return(c) ==
  /\ at[c] = "report"
  /\ Goto(c, "over")
  /\ outcome' = IF Current(c) THEN [outcome EXCEPT ![c[1]] = made[c]] ELSE outcome
  /\ UNCHANGED <<attempt, said, made, connected, runs>>

Work(c) == Begin(c) \/ Complete(c) \/ Repair(c) \/ Record(c) \/ Return(c)

Next ==
  \/ \E c \in Attempts : \/ TakeUp(c) \/ SettingsRefused(c) \/ Acquire(c) \/ Work(c)
                          \/ StartToCloseTimeout(c)
  \/ WorkerCrash

Spec == Init /\ [][Next]_vars

\* Each call returns or raises at last: PostgreSQL's, and OpenAI's after the 600 s
\* of its client. The pool serves those that wait in their order, so none is
\* passed over for ever.
Fairness == \A c \in Attempts : WF_vars(Work(c)) /\ SF_vars(Acquire(c))

FairSpec == Spec /\ Fairness

-----------------------------------------------------------------------------
(* Properties.                                                              *)

\* What a row of the ledger says of the chain is what happened in it: repair was
\* attempted iff the first completion did not conform, the schema was met iff
\* one of the two did, and FALLBACK stands for neither, on every path through
\* the try statement (qualify.py:78-142, draft.py:72-141).
LedgerHonest ==
  \A c \in Attempts :
    LET conformed == said[c].first = "conforms" \/ said[c].second = "conforms" IN
    runs[c] # NoRow =>
      /\ runs[c].repair_attempted <=> said[c].first # "conforms"
      /\ runs[c].schema_valid <=> conformed
      /\ runs[c].fallback_used <=> ~conformed
      /\ runs[c].status = "FALLBACK" <=> ~conformed

\* What the run of a lead acts on is in the ledger, with the same flags, although
\* the answer and the row take different ways (qualify.py:126-180).
ResultRecorded ==
  \A s \in Steps :
    outcome[s] \in Outcomes => \E n \in 1..attempt[s] : runs[<<s, n>>] = Row(outcome[s])

\* No run ever acts on a completion the schema refuses: what it gets conformed
\* when it came, the first time or repaired, or is the fallback (qualify.py:82-110).
OnlyConforming ==
  \A s \in Steps :
    LET c == <<s, attempt[s]>> IN
    outcome[s] \in Outcomes =>
      /\ outcome[s].chosen = "first" => said[c].first = "conforms"
      /\ outcome[s].chosen = "second" => said[c].second = "conforms"
      /\ outcome[s].chosen = "none" => outcome[s].fallback_used

\* However small the pool, attempts that wait for a connection get one and come
\* to an end, late ones included: none waits for a second while it holds its
\* first (qualify.py:47, draft.py:42).
EveryAttemptEnds == \A c \in Attempts : at[c] = "acquire" ~> at[c] = "over"
=============================================================================
