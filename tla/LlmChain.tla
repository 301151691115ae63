------------------------------- MODULE LlmChain -------------------------------
(***************************************************************************)
(* Parse, repair, fallback: what the program makes of the completions of   *)
(* one LLM step.                                                           *)
(*   src/llm/prompts/qualify.py, draft.py   parsing, the schemas           *)
(*   src/llm/repair.py                      repair_json                    *)
(*   src/activities/qualify.py, draft.py    the try statement around them  *)
(*   eval/run_eval.py                       the same once more             *)
(*                                                                         *)
(* A completion is what can be told of its text: no JSON at all, JSON that *)
(* is no object, an object the schema refuses, an object it takes.         *)
(***************************************************************************)

Completions == {"conforms", "deviates", "not_object", "not_json"}

\* What the second call may come to: "raised" is any exception of the client,
\* "no_text" a message without content (str() makes text of it in the first).
Repairs == Completions \cup {"raised", "no_text"}

\* What the activity is left with: the completion its answer is made from, if
\* any, and the flags it writes to the ledger. chosen "none": the defaults or
\* the template stand in.
Outcome(chosen, schema_valid, repair_attempted, fallback_used) ==
  [chosen |-> chosen, schema_valid |-> schema_valid,
   repair_attempted |-> repair_attempted, fallback_used |-> fallback_used]

Outcomes == [chosen : {"first", "second", "none"}, schema_valid : BOOLEAN,
             repair_attempted : BOOLEAN, fallback_used : BOOLEAN]

\* parse_qualify_response, parse_draft_response: json.loads, then the schema.
\* The names are those of the exceptions; a list cannot be unpacked with **.
parse_response(first) ==
  CASE first = "conforms" -> "parsed"
    [] first = "deviates" -> "ValidationError"
    [] first = "not_json" -> "JSONDecodeError"
    [] first = "not_object" -> "TypeError"

\* Only an object comes back; everything else is None.
repair_json(second) == IF second \in {"conforms", "deviates"} THEN second ELSE "None"

\* The exceptions the chain catches; any other leaves the activity.
Caught == {"ValidationError", "JSONDecodeError"}

Parsed == Outcome("first", TRUE, FALSE, FALSE)

\* Mutants: the repaired object is used as it comes; schema_valid stays FALSE.
Repaired_unchecked(second) ==
  IF repair_json(second) # "None"
    THEN Outcome("second", TRUE, TRUE, FALSE)
    ELSE Outcome("none", FALSE, TRUE, TRUE)

Repaired_still_invalid(second) ==
  IF repair_json(second) = "conforms"
    THEN Outcome("second", FALSE, TRUE, FALSE)
    ELSE Outcome("none", FALSE, TRUE, TRUE)

\* The except clause, with the second completion.
Repaired(second) ==
  IF repair_json(second) = "conforms"
    THEN Outcome("second", TRUE, TRUE, FALSE)
    ELSE Outcome("none", FALSE, TRUE, TRUE)

\* run_status and the columns of the ledger that tell of the chain.
Row(out) == [status |-> IF out.fallback_used THEN "FALLBACK" ELSE "OK",
             schema_valid |-> out.schema_valid,
             repair_attempted |-> out.repair_attempted,
             fallback_used |-> out.fallback_used]
=============================================================================
