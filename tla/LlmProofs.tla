------------------------------ MODULE LlmProofs ------------------------------
(***************************************************************************)
(* Theorems about modules LlmStep and EvalMetrics, for any number of steps *)
(* and attempts, any size of the pool, and whatever the LLM says.          *)
(*                                                                         *)
(* The argument: an attempt has no row before its chain is through, and    *)
(* nothing of what it was told or made changes after (AttemptInv); so the  *)
(* row, the local variables and the completions stay in agreement, and the *)
(* run is given what the row was written from (OutcomeInv).                *)
(***************************************************************************)
EXTENDS LlmStep, EvalMetrics, FiniteSetTheorems, TLAPS

\* The outcome out is a true account of the completions w.
Truth(w, out) ==
  /\ out.repair_attempted <=> w.first # "conforms"
  /\ out.schema_valid <=> w.first = "conforms" \/ w.second = "conforms"
  /\ out.fallback_used <=> ~out.schema_valid
  /\ out.chosen = "first" => w.first = "conforms"
  /\ out.chosen = "second" => w.second = "conforms"
  /\ out.chosen = "none" => out.fallback_used

Early == {"none", "acquire", "begin", "complete"}

AttemptInv ==
  \A c \in Attempts :
    /\ at[c] \in Early \cup {"repair"} => runs[c] = NoRow
    /\ at[c] \in Early => said[c] = Silence
    /\ at[c] = "repair" => said[c].first # "conforms"
    /\ at[c] \in {"record", "report"} => made[c] \in Outcomes /\ Truth(said[c], made[c])
    /\ at[c] = "report" => runs[c] = Row(made[c])
    /\ runs[c] # NoRow =>
         made[c] \in Outcomes /\ Truth(said[c], made[c]) /\ runs[c] = Row(made[c])

OutcomeInv ==
  \A s \in Steps :
    LET c == <<s, attempt[s]>> IN
    outcome[s] \in Outcomes =>
      at[c] = "over" /\ made[c] = outcome[s] /\ runs[c] = Row(outcome[s])

Inv == TypeOK /\ AttemptInv /\ OutcomeInv

-----------------------------------------------------------------------------
(* What the chain makes is typed, and true to what the LLM said.            *)

LEMMA ParsedIsTrue ==
  ASSUME NEW w, w.first = "conforms"
  PROVE  Parsed \in Outcomes /\ Truth(w, Parsed)
BY DEF Parsed, Outcome, Outcomes, Truth

LEMMA RepairedIsTrue ==
  ASSUME NEW second \in Repairs, NEW w, w.first # "conforms", w.second = second
  PROVE  Repaired(second) \in Outcomes /\ Truth(w, Repaired(second))
<1>1. CASE second = "conforms"
  BY <1>1 DEF Repaired, repair_json, Outcome, Outcomes, Truth
<1>2. CASE second # "conforms"
  <2>1. repair_json(second) # "conforms"
    BY <1>2 DEF repair_json
  <2>2. Repaired(second) = Outcome("none", FALSE, TRUE, TRUE)
    BY <2>1 DEF Repaired
  <2> QED
    BY <1>2, <2>2 DEF Outcome, Outcomes, Truth
<1> QED
  BY <1>1, <1>2

LEMMA ParsedConforms ==
  ASSUME NEW first \in Completions
  PROVE  /\ parse_response(first) = "parsed" => first = "conforms"
         /\ parse_response(first) \in Caught => first # "conforms"
BY DEF Completions, parse_response, Caught

LEMMA Distinct ==
  /\ Nothing \notin Outcomes /\ Failed \notin Outcomes /\ Nothing # Failed
  /\ \A out \in Outcomes : Row(out) # NoRow
<1>1. \A out \in Outcomes : out.chosen \in {"first", "second", "none"}
  BY DEF Outcomes
<1>2. Nothing.chosen = "nothing" /\ Failed.chosen = "failed"
  BY DEF Nothing, Failed
<1>3. \A out \in Outcomes : Row(out).status \in {"OK", "FALLBACK"}
  BY DEF Row
<1>4. NoRow.status = "none"
  BY DEF NoRow
<1> QED
  BY <1>1, <1>2, <1>3, <1>4

LEMMA Numbers ==
  /\ MaximumAttempts \in Nat \ {0} /\ PoolSize \in Nat \ {0} /\ IsFiniteSet(Attempts)
<1>1. IsFiniteSet(1..MaximumAttempts)
  BY FS_Interval, LlmAssumption
<1> QED
  BY <1>1, FS_Product, LlmAssumption DEF Attempts

-----------------------------------------------------------------------------
(* Type correctness, a part of the state at a time.                         *)

LEMMA RetryTyped ==
  ASSUME TypeOK, NEW s \in Steps, RetryOrFail(s)
  PROVE  /\ attempt' \in [Steps -> 1..MaximumAttempts]
         /\ outcome' \in [Steps -> Outcomes \cup {Nothing, Failed}]
BY Numbers DEF TypeOK, RetryOrFail

LEMMA LeaveTyped ==
  ASSUME TypeOK, NEW c \in Attempts, Leave(c)
  PROVE  /\ at' \in [Attempts -> Places]
         /\ connected' \in SUBSET Attempts
         /\ Cardinality(connected') <= PoolSize
<1>1. IsFiniteSet(connected)
  BY Numbers, FS_Subset DEF TypeOK
<1>2. Cardinality(connected \ {c}) <= Cardinality(connected)
  BY <1>1, FS_Subset
<1>3. Cardinality(connected \ {c}) \in Nat /\ Cardinality(connected) \in Nat
  BY <1>1, FS_Subset, FS_CardinalityType
<1> QED
  BY <1>2, <1>3, Numbers DEF TypeOK, Leave, Places

LEMMA RaiseTyped ==
  ASSUME TypeOK, NEW c \in Attempts, Raise(c)
  PROVE  /\ attempt' \in [Steps -> 1..MaximumAttempts]
         /\ outcome' \in [Steps -> Outcomes \cup {Nothing, Failed}]
         /\ at' \in [Attempts -> Places]
         /\ connected' \in SUBSET Attempts
         /\ Cardinality(connected') <= PoolSize
<1>1. c[1] \in Steps
  BY DEF Attempts
<1> QED
  BY <1>1, RetryTyped, LeaveTyped DEF Raise, TypeOK

-----------------------------------------------------------------------------
(* The invariant, action by action.                                         *)

\* A step of attempt c alone: the other attempts are as they were.
Alone(c) ==
  \A d \in Attempts \ {c} :
    at'[d] = at[d] /\ said'[d] = said[d] /\ made'[d] = made[d] /\ runs'[d] = runs[d]

\* What AttemptInv says of attempt c.
AttemptOk(c) ==
  /\ at[c] \in Early \cup {"repair"} => runs[c] = NoRow
  /\ at[c] \in Early => said[c] = Silence
  /\ at[c] = "repair" => said[c].first # "conforms"
  /\ at[c] \in {"record", "report"} => made[c] \in Outcomes /\ Truth(said[c], made[c])
  /\ at[c] = "report" => runs[c] = Row(made[c])
  /\ runs[c] # NoRow =>
       made[c] \in Outcomes /\ Truth(said[c], made[c]) /\ runs[c] = Row(made[c])

LEMMA AloneKeeps ==
  ASSUME AttemptInv, NEW c \in Attempts, Alone(c), AttemptOk(c)'
  PROVE  AttemptInv'
<1> SUFFICES ASSUME NEW d \in Attempts PROVE AttemptOk(d)'
  BY DEF AttemptInv, AttemptOk
<1>1. CASE d = c
  BY <1>1
<1>2. CASE d # c
  <2>1. AttemptOk(d)
    BY DEF AttemptInv, AttemptOk
  <2> QED
    BY <1>2, <2>1 DEF Alone, AttemptOk
<1> QED
  BY <1>1, <1>2

\* The attempts and the outcomes as the server leaves them when it gives up, or
\* has given up, attempt c, or does nothing.
Given(c) ==
  \/ UNCHANGED <<attempt, outcome>>
  \/ Current(c) /\ RetryOrFail(c[1])
  \/ Current(c) /\ outcome' = [outcome EXCEPT ![c[1]] = Failed] /\ UNCHANGED attempt

\* An outcome stays that of an attempt that is over, which no step moves.
LEMMA OutcomeKept ==
  ASSUME TypeOK, OutcomeInv, NEW c \in Attempts, Alone(c), Given(c),
         at[c] # "over" \/ (at'[c] = at[c] /\ made'[c] = made[c] /\ runs'[c] = runs[c])
  PROVE  OutcomeInv'
<1> SUFFICES ASSUME NEW s \in Steps, outcome'[s] \in Outcomes
             PROVE  LET d == <<s, attempt'[s]>> IN
                    at'[d] = "over" /\ made'[d] = outcome'[s] /\ runs'[d] = Row(outcome'[s])
  BY DEF OutcomeInv
<1>0. c[1] \in Steps
  BY DEF Attempts
<1>1. outcome[s] \in Outcomes /\ outcome'[s] = outcome[s] /\ attempt'[s] = attempt[s]
  <2>1. CASE UNCHANGED <<attempt, outcome>>
    BY <2>1
  <2>2. CASE /\ Current(c)
             /\ \/ RetryOrFail(c[1])
                \/ outcome' = [outcome EXCEPT ![c[1]] = Failed] /\ UNCHANGED attempt
    <3>1. outcome[c[1]] = Nothing
      BY <2>2 DEF Current, Pending
    <3>2. outcome'[c[1]] \in {Nothing, Failed}
      BY <1>0, <2>2, <3>1 DEF RetryOrFail, TypeOK
    <3>3. s # c[1]
      BY <3>2, Distinct
    <3> QED
      BY <1>0, <2>2, <3>3 DEF RetryOrFail, TypeOK
  <2> QED
    BY <2>1, <2>2 DEF Given
<1>2. <<s, attempt[s]>> \in Attempts
  BY DEF TypeOK, Attempts
<1>3. at[<<s, attempt[s]>>] = "over" /\ made[<<s, attempt[s]>>] = outcome[s]
      /\ runs[<<s, attempt[s]>>] = Row(outcome[s])
  BY <1>1 DEF OutcomeInv
<1> QED
  BY <1>1, <1>2, <1>3 DEF Alone

LEMMA RaiseFacts ==
  ASSUME TypeOK, NEW c \in Attempts, Raise(c)
  PROVE  /\ Given(c)
         /\ at'[c] = "over"
         /\ \A d \in Attempts \ {c} : at'[d] = at[d]
BY DEF Raise, Given, Leave, TypeOK

LEMMA TakeUpKeeps == ASSUME Inv, NEW c \in Attempts, TakeUp(c) PROVE Inv'
<1>1. TypeOK'
  BY DEF Inv, TypeOK, TakeUp, Places
<1>2. Alone(c) /\ Given(c) /\ at[c] = "none" /\ at'[c] = "acquire"
  BY DEF Inv, TypeOK, TakeUp, Alone, Given
<1>3. AttemptOk(c)'
  BY <1>2 DEF Inv, AttemptInv, AttemptOk, TakeUp, Early
<1> QED
  BY <1>1, <1>2, <1>3, AloneKeeps, OutcomeKept DEF Inv

LEMMA RefusalKeeps == ASSUME Inv, NEW c \in Attempts, SettingsRefused(c) PROVE Inv'
<1>1. TypeOK'
  BY DEF Inv, TypeOK, SettingsRefused, Places
<1>2. Alone(c) /\ Given(c) /\ at[c] = "none" /\ at'[c] = "over"
  BY DEF Inv, TypeOK, SettingsRefused, Alone, Given
<1>3. AttemptOk(c)'
  BY <1>2 DEF Inv, AttemptInv, AttemptOk, SettingsRefused, Early
<1> QED
  BY <1>1, <1>2, <1>3, AloneKeeps, OutcomeKept DEF Inv

LEMMA AcquireKeeps == ASSUME Inv, NEW c \in Attempts, Acquire(c) PROVE Inv'
<1>0. IsFiniteSet(connected)
  BY Numbers, FS_Subset DEF Inv, TypeOK
<1>1. Cardinality(connected') <= PoolSize
  <2>1. Cardinality(connected) \in Nat
    BY <1>0, FS_CardinalityType
  <2>2. Cardinality(connected \cup {c})
          \in {Cardinality(connected), Cardinality(connected) + 1}
    BY <1>0, FS_AddElement
  <2> QED
    BY <2>1, <2>2, Numbers DEF Acquire
<1>2. TypeOK'
  BY <1>1 DEF Inv, TypeOK, Acquire, Goto, Places
<1>3. Alone(c) /\ Given(c) /\ at[c] = "acquire" /\ at'[c] = "begin"
  BY DEF Inv, TypeOK, Acquire, Goto, Alone, Given
<1>4. AttemptOk(c)'
  BY <1>3 DEF Inv, AttemptInv, AttemptOk, Acquire, Early
<1> QED
  BY <1>2, <1>3, <1>4, AloneKeeps, OutcomeKept DEF Inv

LEMMA BeginKeeps == ASSUME Inv, NEW c \in Attempts, Begin(c) PROVE Inv'
<1>1. TypeOK'
  BY RaiseTyped DEF Inv, TypeOK, Begin, Goto, Places
<1>2. Alone(c) /\ Given(c) /\ at[c] = "begin" /\ at'[c] \in {"complete", "over"}
  <2>1. CASE Raise(c)
    BY <2>1, RaiseFacts DEF Inv, Begin, Alone
  <2>2. CASE Goto(c, "complete") /\ UNCHANGED <<attempt, outcome, connected>>
    BY <2>2 DEF Inv, TypeOK, Begin, Goto, Alone, Given
  <2> QED
    BY <2>1, <2>2 DEF Begin
<1>3. AttemptOk(c)'
  BY <1>2 DEF Inv, AttemptInv, AttemptOk, Begin, Early
<1> QED
  BY <1>1, <1>2, <1>3, AloneKeeps, OutcomeKept DEF Inv

LEMMA CompleteKeeps == ASSUME Inv, NEW c \in Attempts, Complete(c) PROVE Inv'
<1>0. at[c] = "complete" /\ said[c] = Silence /\ runs[c] = NoRow
  BY DEF Inv, AttemptInv, Complete, Early
<1>1. CASE Raise(c) /\ UNCHANGED <<said, made, runs>>
  <2>1. TypeOK'
    BY <1>1, RaiseTyped DEF Inv, TypeOK
  <2>2. Alone(c) /\ Given(c) /\ at'[c] = "over"
    BY <1>1, RaiseFacts DEF Inv, Alone
  <2>3. AttemptOk(c)'
    BY <1>0, <1>1, <2>2 DEF AttemptOk, Early
  <2> QED
    BY <1>0, <2>1, <2>2, <2>3, AloneKeeps, OutcomeKept DEF Inv
<1>2. ASSUME NEW first \in Firsts, said' = [said EXCEPT ![c].first = first],
             UNCHANGED runs,
             \/ /\ parse_response(first) = "parsed"
                /\ Goto(c, "record") /\ made' = [made EXCEPT ![c] = Parsed]
                /\ UNCHANGED <<attempt, outcome, connected>>
             \/ /\ parse_response(first) \in Caught
                /\ Goto(c, "repair")
                /\ UNCHANGED <<attempt, outcome, made, connected>>
             \/ /\ parse_response(first) \notin Caught \cup {"parsed"}
                /\ Raise(c) /\ UNCHANGED made
      PROVE  Inv'
  <2>0. first \in Completions
    BY LlmAssumption
  <2>1. /\ said'[c].first = first /\ \A d \in Attempts \ {c} : said'[d] = said[d]
        /\ said' \in [Attempts -> [first : Firsts \cup {"none"}, second : Seconds \cup {"none"}]]
    BY <1>2 DEF Inv, TypeOK
  <2>2. CASE /\ parse_response(first) = "parsed"
             /\ Goto(c, "record") /\ made' = [made EXCEPT ![c] = Parsed]
             /\ UNCHANGED <<attempt, outcome, connected>>
    <3>1. Parsed \in Outcomes /\ Truth(said'[c], Parsed)
      BY <2>0, <2>1, <2>2, ParsedConforms, ParsedIsTrue
    <3>2. TypeOK'
      BY <1>2, <2>1, <2>2, <3>1 DEF Inv, TypeOK, Goto, Places
    <3>3. Alone(c) /\ Given(c) /\ at'[c] = "record" /\ made'[c] = Parsed
      BY <1>2, <2>1, <2>2 DEF Inv, TypeOK, Goto, Alone, Given
    <3>4. AttemptOk(c)'
      BY <1>0, <1>2, <3>1, <3>3 DEF AttemptOk, Early
    <3> QED
      BY <1>0, <3>2, <3>3, <3>4, AloneKeeps, OutcomeKept DEF Inv
  <2>3. CASE /\ parse_response(first) \in Caught
             /\ Goto(c, "repair")
             /\ UNCHANGED <<attempt, outcome, made, connected>>
    <3>1. first # "conforms"
      BY <2>0, <2>3, ParsedConforms
    <3>2. TypeOK'
      BY <1>2, <2>1, <2>3 DEF Inv, TypeOK, Goto, Places
    <3>3. Alone(c) /\ Given(c) /\ at'[c] = "repair"
      BY <1>2, <2>1, <2>3 DEF Inv, TypeOK, Goto, Alone, Given
    <3>4. AttemptOk(c)'
      BY <1>0, <1>2, <2>1, <3>1, <3>3 DEF AttemptOk, Early
    <3> QED
      BY <1>0, <3>2, <3>3, <3>4, AloneKeeps, OutcomeKept DEF Inv
  <2>4. CASE Raise(c) /\ UNCHANGED made
    <3>1. TypeOK'
      BY <1>2, <2>1, <2>4, RaiseTyped DEF Inv, TypeOK
    <3>2. Alone(c) /\ Given(c) /\ at'[c] = "over"
      BY <1>2, <2>1, <2>4, RaiseFacts DEF Inv, Alone
    <3>3. AttemptOk(c)'
      BY <1>0, <1>2, <3>2 DEF AttemptOk, Early
    <3> QED
      BY <1>0, <3>1, <3>2, <3>3, AloneKeeps, OutcomeKept DEF Inv
  <2> QED
    BY <1>2, <2>2, <2>3, <2>4
<1> QED
  BY <1>1, <1>2 DEF Complete

LEMMA RepairKeeps == ASSUME Inv, NEW c \in Attempts, Repair(c) PROVE Inv'
<1>0. at[c] = "repair" /\ said[c].first # "conforms" /\ runs[c] = NoRow
  BY DEF Inv, AttemptInv, Repair
<1>1. PICK second \in Seconds : /\ said' = [said EXCEPT ![c].second = second]
                                /\ made' = [made EXCEPT ![c] = Repaired(second)]
  BY DEF Repair
<1>2. /\ said'[c].second = second /\ said'[c].first = said[c].first
      /\ \A d \in Attempts \ {c} : said'[d] = said[d]
      /\ said' \in [Attempts -> [first : Firsts \cup {"none"}, second : Seconds \cup {"none"}]]
  BY <1>1 DEF Inv, TypeOK
<1>3. Repaired(second) \in Outcomes /\ Truth(said'[c], Repaired(second))
  BY <1>0, <1>2, LlmAssumption, RepairedIsTrue
<1>4. TypeOK'
  BY <1>1, <1>2, <1>3 DEF Inv, TypeOK, Repair, Goto, Places
<1>5. Alone(c) /\ Given(c) /\ at'[c] = "record" /\ made'[c] = Repaired(second)
  BY <1>1, <1>2 DEF Inv, TypeOK, Repair, Goto, Alone, Given
<1>6. AttemptOk(c)'
  BY <1>0, <1>3, <1>5 DEF AttemptOk, Repair, Early
<1> QED
  BY <1>0, <1>4, <1>5, <1>6, AloneKeeps, OutcomeKept DEF Inv

LEMMA RecordKeeps == ASSUME Inv, NEW c \in Attempts, Record(c) PROVE Inv'
<1>0. at[c] = "record" /\ made[c] \in Outcomes /\ Truth(said[c], made[c])
  BY DEF Inv, AttemptInv, Record
<1>1. /\ runs' \in [Attempts -> {Row(out) : out \in Outcomes} \cup {NoRow}]
      /\ \A d \in Attempts \ {c} : runs'[d] = runs[d]
      /\ runs'[c] = runs[c] \/ runs'[c] = Row(made[c])
  BY <1>0 DEF Inv, TypeOK, Record, insert_run
<1>2. CASE /\ insert_run(c)
           /\ Goto(c, "report") /\ connected' = connected \ {c}
           /\ UNCHANGED <<attempt, outcome>>
  <2>0. Cardinality(connected') <= PoolSize /\ connected' \in SUBSET Attempts
    <3>1. IsFiniteSet(connected)
      BY Numbers, FS_Subset DEF Inv, TypeOK
    <3>2. Cardinality(connected \ {c}) <= Cardinality(connected)
      BY <3>1, FS_Subset
    <3>3. Cardinality(connected \ {c}) \in Nat /\ Cardinality(connected) \in Nat
      BY <3>1, FS_Subset, FS_CardinalityType
    <3> QED
      BY <1>2, <3>2, <3>3, Numbers DEF Inv, TypeOK
  <2>1. TypeOK'
    BY <1>1, <1>2, <2>0 DEF Inv, TypeOK, Record, Goto, Places
  <2>2. Alone(c) /\ Given(c) /\ at'[c] = "report" /\ runs'[c] = Row(made[c])
    BY <1>1, <1>2 DEF Inv, TypeOK, Record, Goto, Alone, Given, insert_run
  <2>3. AttemptOk(c)'
    BY <1>0, <2>2 DEF AttemptOk, Record, Early
  <2> QED
    BY <1>0, <2>1, <2>2, <2>3, AloneKeeps, OutcomeKept DEF Inv
<1>3. CASE (insert_run(c) \/ UNCHANGED runs) /\ Raise(c)
  <2>1. TypeOK'
    BY <1>1, <1>3, RaiseTyped DEF Inv, TypeOK, Record
  <2>2. Alone(c) /\ Given(c) /\ at'[c] = "over"
    BY <1>1, <1>3, RaiseFacts DEF Inv, Record, Alone
  <2>3. runs[c] # NoRow => runs[c] = Row(made[c])
    BY DEF Inv, AttemptInv
  <2>4. AttemptOk(c)'
    BY <1>0, <1>1, <2>2, <2>3 DEF AttemptOk, Record, Early
  <2> QED
    BY <1>0, <2>1, <2>2, <2>4, AloneKeeps, OutcomeKept DEF Inv
<1> QED
  BY <1>2, <1>3 DEF Record

LEMMA ReturnKeeps == ASSUME Inv, NEW c \in Attempts, Return(c) PROVE Inv'
<1>0. /\ at[c] = "report" /\ made[c] \in Outcomes /\ Truth(said[c], made[c])
      /\ runs[c] = Row(made[c])
  BY DEF Inv, AttemptInv, Return
<1>1. c[1] \in Steps /\ c = <<c[1], c[2]>>
  BY DEF Attempts
<1>2. TypeOK'
  BY <1>0, <1>1 DEF Inv, TypeOK, Return, Goto, Places
<1>3. Alone(c) /\ at'[c] = "over"
  BY DEF Inv, TypeOK, Return, Goto, Alone
<1>4. AttemptOk(c)'
  BY <1>0, <1>3 DEF AttemptOk, Return, Early
<1>5. OutcomeInv'
  <2>1. CASE Current(c)
    <3> SUFFICES ASSUME NEW s \in Steps, outcome'[s] \in Outcomes
                 PROVE  LET d == <<s, attempt[s]>> IN
                        at'[d] = "over" /\ made[d] = outcome'[s] /\ runs[d] = Row(outcome'[s])
      BY DEF OutcomeInv, Return
    <3>1. CASE s = c[1]
      <4>1. <<s, attempt[s]>> = c
        BY <1>1, <2>1, <3>1 DEF Current
      <4>2. outcome'[s] = made[c]
        BY <1>1, <2>1, <3>1 DEF Return, Inv, TypeOK
      <4> QED
        BY <1>0, <1>3, <4>1, <4>2
    <3>2. CASE s # c[1]
      <4>1. outcome'[s] = outcome[s]
        BY <1>1, <2>1, <3>2 DEF Return, Inv, TypeOK
      <4>2. <<s, attempt[s]>> \in Attempts \ {c}
        BY <3>2 DEF Inv, TypeOK, Attempts
      <4> QED
        BY <1>3, <4>1, <4>2 DEF Inv, OutcomeInv, Alone
    <3> QED
      BY <3>1, <3>2
  <2>2. CASE ~Current(c)
    <3>1. Given(c)
      BY <2>2 DEF Given, Return
    <3> QED
      BY <1>0, <1>3, <3>1, OutcomeKept DEF Inv
  <2> QED
    BY <2>1, <2>2
<1> QED
  BY <1>2, <1>3, <1>4, <1>5, AloneKeeps DEF Inv

LEMMA TimeoutKeeps == ASSUME Inv, NEW c \in Attempts, StartToCloseTimeout(c) PROVE Inv'
<1>0. c[1] \in Steps
  BY DEF Attempts
<1>1. TypeOK'
  BY <1>0, RetryTyped, LeaveTyped DEF Inv, TypeOK, StartToCloseTimeout
<1>2. Alone(c) /\ Given(c) /\ at[c] # "none" /\ at'[c] \in {at[c], "over"}
      /\ UNCHANGED <<said, made, runs>>
  BY DEF Inv, TypeOK, StartToCloseTimeout, Leave, Alone, Given
<1>3. AttemptOk(c)'
  BY <1>2 DEF Inv, AttemptInv, AttemptOk, Early
<1>4. at[c] # "over" \/ (at'[c] = at[c] /\ made'[c] = made[c] /\ runs'[c] = runs[c])
  BY <1>2
<1> QED
  BY <1>1, <1>2, <1>3, <1>4, AloneKeeps, OutcomeKept DEF Inv

LEMMA CrashKeeps == ASSUME Inv, WorkerCrash PROVE Inv'
<1>1. TypeOK'
  <2>1. Cardinality({}) = 0
    BY FS_EmptySet
  <2> QED
    BY <2>1, Numbers DEF Inv, TypeOK, WorkerCrash, Places
<1>2. \A c \in Attempts : at'[c] = at[c] \/ at'[c] = "over"
  BY DEF WorkerCrash
<1>3. AttemptInv'
  BY <1>2 DEF Inv, AttemptInv, WorkerCrash, Early
<1>4. OutcomeInv'
  <2>1. \A s \in Steps : <<s, attempt[s]>> \in Attempts
    BY DEF Inv, TypeOK, Attempts
  <2> QED
    BY <1>2, <2>1 DEF Inv, OutcomeInv, WorkerCrash
<1> QED
  BY <1>1, <1>3, <1>4 DEF Inv

LEMMA InvInit == Init => Inv
<1> SUFFICES ASSUME Init PROVE Inv
  OBVIOUS
<1>1. TypeOK
  <2>1. Cardinality({}) = 0
    BY FS_EmptySet
  <2> QED
    BY <2>1, Numbers DEF Init, TypeOK, Places, Silence
<1>2. AttemptInv
  BY DEF Init, AttemptInv, Early
<1>3. OutcomeInv
  BY Distinct DEF Init, OutcomeInv
<1> QED
  BY <1>1, <1>2, <1>3 DEF Inv

LEMMA InvNext == Inv /\ [Next]_vars => Inv'
<1> SUFFICES ASSUME Inv, [Next]_vars PROVE Inv'
  OBVIOUS
<1>1. CASE UNCHANGED vars
  BY <1>1 DEF vars, Inv, TypeOK, AttemptInv, OutcomeInv
<1>2. CASE WorkerCrash
  BY <1>2, CrashKeeps
<1>3. ASSUME NEW c \in Attempts,
             \/ TakeUp(c) \/ SettingsRefused(c) \/ Acquire(c) \/ Work(c)
             \/ StartToCloseTimeout(c)
      PROVE  Inv'
  BY <1>3, TakeUpKeeps, RefusalKeeps, AcquireKeeps, BeginKeeps, CompleteKeeps, RepairKeeps, RecordKeeps,
     ReturnKeeps, TimeoutKeeps DEF Work
<1> QED
  BY <1>1, <1>2, <1>3 DEF Next

LEMMA InvAlways == Spec => []Inv
BY InvInit, InvNext, PTL DEF Spec

-----------------------------------------------------------------------------
(* Theorems.                                                                *)

\* Every variable keeps its type; no more connections are held than the pool has
\* (connection.py:19).
THEOREM TypeCorrect == Spec => []TypeOK
<1>1. Inv => TypeOK
  BY DEF Inv
<1> QED
  BY <1>1, InvAlways, PTL

\* A row of the ledger tells what happened in the chain, on every path, for
\* whatever the two calls answer (qualify.py:78-142, draft.py:72-141).
THEOREM LedgerIsHonest == Spec => []LedgerHonest
<1>1. Inv => LedgerHonest
  <2> SUFFICES ASSUME Inv, NEW c \in Attempts, runs[c] # NoRow
               PROVE  LET conformed == said[c].first = "conforms" \/ said[c].second = "conforms" IN
                      /\ runs[c].repair_attempted <=> said[c].first # "conforms"
                      /\ runs[c].schema_valid <=> conformed
                      /\ runs[c].fallback_used <=> ~conformed
                      /\ runs[c].status = "FALLBACK" <=> ~conformed
    BY DEF LedgerHonest
  <2>1. Truth(said[c], made[c]) /\ runs[c] = Row(made[c])
    BY DEF Inv, AttemptInv
  <2>2. /\ runs[c].repair_attempted = made[c].repair_attempted
        /\ runs[c].schema_valid = made[c].schema_valid
        /\ runs[c].fallback_used = made[c].fallback_used
        /\ runs[c].status = "FALLBACK" <=> made[c].fallback_used
    BY <2>1 DEF Row
  <2> QED
    BY <2>1, <2>2 DEF Truth
<1> QED
  BY <1>1, InvAlways, PTL

\* What a run acts on is in the ledger, whichever attempt it came from and
\* whatever was lost on the way (qualify.py:126-180).
THEOREM ResultIsRecorded == Spec => []ResultRecorded
<1>1. Inv => ResultRecorded
  <2> SUFFICES ASSUME Inv, NEW s \in Steps, outcome[s] \in Outcomes
               PROVE  \E n \in 1..attempt[s] : runs[<<s, n>>] = Row(outcome[s])
    BY DEF ResultRecorded
  <2>1. attempt[s] \in 1..attempt[s]
    BY DEF Inv, TypeOK
  <2>2. runs[<<s, attempt[s]>>] = Row(outcome[s])
    BY DEF Inv, OutcomeInv
  <2> QED
    BY <2>1, <2>2
<1> QED
  BY <1>1, InvAlways, PTL

\* No run acts on a completion that the schema refuses (qualify.py:82-110).
THEOREM OnlyWhatConforms == Spec => []OnlyConforming
<1>1. Inv => OnlyConforming
  <2> SUFFICES ASSUME Inv, NEW s \in Steps, outcome[s] \in Outcomes
               PROVE  LET c == <<s, attempt[s]>> IN
                      /\ outcome[s].chosen = "first" => said[c].first = "conforms"
                      /\ outcome[s].chosen = "second" => said[c].second = "conforms"
                      /\ outcome[s].chosen = "none" => outcome[s].fallback_used
    BY DEF OnlyConforming
  <2> DEFINE c == <<s, attempt[s]>>
  <2>1. c \in Attempts
    BY DEF Inv, TypeOK, Attempts
  <2>2. made[c] = outcome[s] /\ runs[c] = Row(outcome[s])
    BY DEF Inv, OutcomeInv
  <2>3. runs[c] # NoRow
    BY <2>2, Distinct
  <2>4. Truth(said[c], made[c])
    BY <2>1, <2>3 DEF Inv, AttemptInv
  <2> QED
    BY <2>2, <2>4 DEF Truth
<1> QED
  BY <1>1, InvAlways, PTL

-----------------------------------------------------------------------------
(* The evaluation.                                                          *)

\* The evaluation tells of a completion what the ledger tells of it, so a rate
\* measured there is one the ledger shows (run_eval.py:88-110, qualify.py:78-110).
THEOREM EvalAgrees ==
  ASSUME NEW first \in Completions, NEW second \in Repairs
  PROVE  LET got == real_qualify(first, second)
             out == IF parse_response(first) = "parsed" THEN Parsed ELSE Repaired(second)
         IN  parse_response(first) \in Caught \cup {"parsed"} =>
               /\ got.chosen = out.chosen
               /\ got.schema_valid = out.schema_valid
               /\ got.repair_attempted = out.repair_attempted
BY DEF Caught, real_qualify, Parsed, Repaired, Outcome
=============================================================================
