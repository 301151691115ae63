------------------------------ MODULE Delivery ------------------------------
(***************************************************************************)
(* What the outbox promises the workflows that write to it, with nothing   *)
(* of how the sender keeps the promise: nothing is handed over that was    *)
(* not submitted, and an intent is reported sent only after its provider   *)
(* accepted it at least once. An intent may be given up at any time: what  *)
(* that takes is not visible here (see GivenUpWasTried of Outbox).         *)
(* Unless verdicts are Revisable, both are final, and no hand-over follows *)
(* one. Outbox implements this specification (see Contract there).         *)
(***************************************************************************)
EXTENDS Naturals

CONSTANTS
  Intents,
  Revisable   \* may a verdict be taken back?

VARIABLES
  phase,    \* the verdict on each intent, as its writer could see it
  applied   \* how many times the provider accepted each intent

vars == <<phase, applied>>

Phases == {"none", "queued", "sent", "failed"}

TypeOK == /\ phase \in [Intents -> Phases]
          /\ applied \in [Intents -> Nat]

Init == /\ phase = [i \in Intents |-> "none"]
        /\ applied = [i \in Intents |-> 0]

Submit(i) == /\ phase[i] = "none"
             /\ phase' = [phase EXCEPT ![i] = "queued"]
             /\ UNCHANGED applied

Open(i) == \/ phase[i] = "queued"
           \/ Revisable /\ phase[i] # "none"

\* The provider may be asked again when the first answer was not understood.
HandOver(i) == /\ Open(i)
               /\ applied' = [applied EXCEPT ![i] = @ + 1]
               /\ UNCHANGED phase

Confirm(i) == /\ Open(i)
              /\ applied[i] > 0
              /\ phase' = [phase EXCEPT ![i] = "sent"]
              /\ UNCHANGED applied

GiveUp(i) == /\ Open(i)
             /\ phase' = [phase EXCEPT ![i] = "failed"]
             /\ UNCHANGED applied

Settle(i) == Confirm(i) \/ GiveUp(i)

Reopen(i) == /\ Revisable /\ phase[i] \in {"sent", "failed"}
             /\ phase' = [phase EXCEPT ![i] = "queued"]
             /\ UNCHANGED applied

Next == \E i \in Intents : Submit(i) \/ HandOver(i) \/ Settle(i) \/ Reopen(i)

Spec == Init /\ [][Next]_vars

\* The promise with its deadline-free ending: no intent stays queued for ever.
Fairness == \A i \in Intents : WF_vars(Settle(i))

FairSpec == Spec /\ Fairness
=============================================================================
