---------------------------- MODULE OrderedCalls ----------------------------
(***************************************************************************)
(* What a batch of tool calls promises to the model that asked for it and  *)
(* to the user whose files it touches: the calls are taken in their order, *)
(* a call runs at most once, it is answered at most once, it is never run  *)
(* after it was answered, and a call that is answered as having not run    *)
(* has not.                                                                *)
(***************************************************************************)
EXTENDS Naturals, Sequences

CONSTANT N                      \* number of calls in the batch

Calls == 1..N

Verdicts == {"refused", "stuck", "settled", "doubtful"}

VARIABLES runs,                 \* the calls that were run, in order
          verdict               \* what each call was answered, "open" if not

avars == <<runs, verdict>>

HasRun(c) == \E i \in DOMAIN runs : runs[i] = c

\* Once one of its calls is stuck or in doubt, a batch runs no later call.
MayRun(c) == /\ verdict[c] = "open"
             /\ ~HasRun(c)
             /\ \A d \in Calls : d < c => verdict[d] \in {"refused", "settled"}

AInit == /\ runs = << >>
         /\ verdict = [c \in Calls |-> "open"]

Run(c) == /\ MayRun(c)
          /\ runs' = Append(runs, c)
          /\ UNCHANGED verdict

Answer(c, v) == /\ verdict[c] = "open"
                /\ v \in {"refused", "stuck"} => ~HasRun(c)
                /\ v = "settled" => HasRun(c)
                /\ verdict' = [verdict EXCEPT ![c] = v]
                /\ UNCHANGED runs

\* The calls that the registry rejects are answered with the batch itself.
Reject == \E R \in SUBSET Calls :
            /\ runs = << >>
            /\ verdict = [c \in Calls |-> "open"]
            /\ verdict' = [c \in Calls |-> IF c \in R THEN "refused" ELSE "open"]
            /\ UNCHANGED runs

ANext == \/ \E c \in Calls : Run(c) \/ \E v \in Verdicts : Answer(c, v)
         \/ Reject

OrderedSpec == AInit /\ [][ANext]_avars
=============================================================================
