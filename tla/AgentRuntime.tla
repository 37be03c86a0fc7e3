---------------------------- MODULE AgentRuntime ----------------------------
(***************************************************************************)
(* The native agent runtime, as the completion controller meets it: one    *)
(* operator per handler (AgentRuntimeCoordinator.mm, the provider round,   *)
(* tool batch and tool execution services, and the Rust that decides for   *)
(* them).  No state: from the evidence "x" kept of an attempt and the call *)
(* "w" an operator returns what may be left of it, and answered.           *)
(*                                                                         *)
(* x.st is the prepared attempt and its latest round, x.calls that round's *)
(* batch with the ledger row of each call in "rec", x.own the run whose    *)
(* call carries the work in progress, x.over whether the attempt was       *)
(* finalized.  "d" is the attempt in the saved document, which native      *)
(* compares with what the caller says of it.  Operation records, revisions *)
(* and transcripts are in AgentWAL, ProviderRound and ExecutionLedger.     *)
(***************************************************************************)
EXTENDS AgentTurn, FiniteSets

CONSTANT Batches   \* the batches of calls the provider may answer with

ASSUME BatchesAssumption == \A b \in Batches : b # << >> /\ b \in Seq({"auto", "ask", "bad"})

Untouched == [st |-> "none", rnd |-> 0, calls |-> << >>, own |-> 0, over |-> FALSE]
Missing(x) == x.st \in {"none", "gone"}                   \* no authority row

Receipts == {"ok", "failed", "denied"}                    \* a settled row
Working  == {"running", "stopping"}                       \* has a live writer
InDoubt  == {"unknown", "ambiguous"}

Answer(ans) == [ans |-> ans, calls |-> << >>, jr |-> NoJournal, next |-> "none"]
Did(x, ans) == [x |-> x, r |-> Answer(ans)]
Refusal(x)  == {Did(x, "conflict")}
----------------------------------------------------------------------------
(* Preparing, rounds and batches.                                           *)

\* prepare: the attempt has to be in the saved document; the same request
\* again finds it prepared.
PrepareAttempt(x, saved, kind) ==
  IF ~saved THEN Refusal(x)
  ELSE IF kind = "rootless" THEN {Did(x, "not_agent")}
  ELSE IF x.st \in {"none", "ready"} THEN {Did([x EXCEPT !.st = "ready"], "ok")}
  ELSE Refusal(x)

\* A round of this index may be asked for.
MayAsk(x, r) == /\ ~x.over
                /\ \/ x.st = "ready" /\ r = 1
                   \/ x.st = "frozen" /\ r = x.rnd + 1 /\ \A k \in DOMAIN x.calls : x.calls[k].rec \in Receipts
                   \/ x.st = "refused" /\ r = x.rnd

\* completeAgentRoundV2, after the row was inserted: what the provider said,
\* or what is left of a round that was cancelled meanwhile.
CompleteRound(x, w) ==
  LET r == w.was.jr.rnd
      mine == x.rnd = r /\ x.own = w.c.ep
      Row(s) == [x EXCEPT !.st = s]
  IN CASE mine /\ x.st = "running" ->
            {Did(Row(s), s) : s \in {"final", "blocked"}}
            \cup {Did([Row("batch") EXCEPT !.calls = [k \in DOMAIN b |-> NewCall(b[k])]], "batch")
                    : b \in IF r < MaxRound THEN Batches ELSE {}}
       [] mine /\ x.st = "stopping"  -> {Did(Row(s), s) : s \in {"cancelled", "ambiguous"}}
       [] mine /\ x.st = "cancelled" -> {Did(x, "cancelled")}
       [] OTHER -> IF MayAsk(x, r) THEN {} ELSE Refusal(x)

\* prepareAgentToolBatch.
FreezeBatch(x, w, d) ==
  IF x.st = "batch" /\ d = w.was
  THEN {[x |-> [x EXCEPT !.st = "frozen"], r |-> [Answer("ok") EXCEPT !.calls = x.calls]]}
  ELSE Refusal(x)

\* bindAgentBatchApproval: a denial settles the call, once.
BindApproval(x, w, d) ==
  LET i == w.arg.i
      rec == IF w.arg.d = "denied" THEN "denied" ELSE "none"
  IN IF x.st = "frozen" /\ d = w.was /\ i \in DOMAIN x.calls /\ Open(x.calls[i])
        /\ x.calls[i].dec \in {"pending", w.arg.d}
     THEN {Did([x EXCEPT !.calls[i].dec = w.arg.d, !.calls[i].rec = rec], "ok")}
     ELSE Refusal(x)
----------------------------------------------------------------------------
(* Tools.                                                                   *)

MayRun(x, w, d) == LET i == w.arg.i
                   IN x.st = "frozen" /\ d = w.was /\ i \in DOMAIN x.calls /\ Runnable(x.calls[i])

\* executeAgentTool, after the row was claimed, or found as it is.  A call
\* asked to stop meanwhile keeps its row unless its tool can stop.
ExecuteTool(x, w, d) ==
  LET i == w.arg.i
      rec == IF x.st = "frozen" /\ i \in DOMAIN x.calls THEN x.calls[i].rec ELSE "absent"
      Settled(s) == {Did([x EXCEPT !.calls[i].rec = s], s)}
  IN CASE rec = "running" /\ x.own # w.c.ep        -> {Did(x, "running")}
       [] rec \in {"running", "ok"}                -> Settled("ok")
       [] rec = "stopping"  -> Settled("cancelled") \cup {Did(x, s) : s \in InDoubt}
       [] rec = "cancelled" -> Settled("cancelled")
       [] OTHER -> IF MayRun(x, w, d) THEN {} ELSE Refusal(x)

\* The row a round or a tool call works under, written before it starts.
Launched(x, w, d) ==
  CASE w.on = "round" /\ MayAsk(x, w.was.jr.rnd) ->
         {[x EXCEPT !.st = "running", !.rnd = w.was.jr.rnd, !.calls = << >>, !.own = w.c.ep]}
    [] w.on = "execute" /\ MayRun(x, w, d) ->
         {[x EXCEPT !.calls[w.arg.i].rec = "running", !.own = w.c.ep]}
    [] OTHER -> {}

\* What a round comes to that native cannot complete: it was not sent, its
\* answer never came, the provider refused it, or it goes on by itself.
RoundLost(x, w) ==
  IF x.rnd = w.was.jr.rnd /\ x.own = w.c.ep /\ x.st = "running"
  THEN {Did([x EXCEPT !.st = s], s) : s \in InDoubt \cup {"refused"}} \cup {Did(x, "in_flight")}
  ELSE {}

\* The same for a tool call: nobody can say whether it had its effect.
ToolLost(x, w) ==
  LET i == w.arg.i
  IN IF i \in DOMAIN x.calls /\ x.calls[i].rec = "running" /\ x.own = w.c.ep
     THEN {Did([x EXCEPT !.calls[i].rec = s], s) : s \in InDoubt}
     ELSE {}

\* Their owners die with the process, and the next launch gives them up; the
\* round becomes "s", unsent or in doubt.
OwnerLost(x, s) ==
  [x EXCEPT !.st = IF @ \in Working THEN s ELSE @,
            !.calls = [k \in DOMAIN @ |-> IF @[k].rec \in Working THEN [@[k] EXCEPT !.rec = "unknown"] ELSE @[k]]]
----------------------------------------------------------------------------
(* The end of an attempt.                                                   *)

\* finalizeAgentAttempt: the saved journal says so.
FinalizeAttempt(x, w, d) ==
  IF ~Missing(x) /\ d = w.was /\ d.jr.ph \in Terminal
  THEN {Did([x EXCEPT !.over = TRUE], "ok")} ELSE Refusal(x)

\* residue_discard: nothing is thrown away that works or is in doubt.
Doubtful(x, recs) == \E k \in DOMAIN x.calls : x.calls[k].rec \in recs
DiscardAttempt(x) ==
  IF x.st = "gone" THEN {Did(x, "ok")}
  ELSE IF x.over /\ x.st \notin Working \cup InDoubt /\ ~Doubtful(x, Working \cup InDoubt \cup {"none"})
  THEN {Did([x EXCEPT !.st = "gone"], "ok")}
  ELSE {Did(x, "throw")}

\* interruptAgentAttempt, on the word of the saved outbox: a round in doubt
\* and a call that was never dispatched are thrown away too.
InterruptAttempt(x, d) ==
  IF d.residue /\ ~Unfinished(d) /\ x.st \notin Working \cup {"none"} /\ ~Doubtful(x, Working \cup InDoubt)
  THEN {Did([x EXCEPT !.st = "gone"], "ok")}
  ELSE {Did(x, "throw")}
----------------------------------------------------------------------------
(* Questions.                                                               *)

\* query_attempt_projection, as a journal.
Projected(x) ==
  LET cs == [k \in DOMAIN x.calls |-> IF x.calls[k].rec \in Receipts THEN x.calls[k]
                                     ELSE [x.calls[k] EXCEPT !.rec = "none"]]
      base == [NoJournal EXCEPT !.rnd = IF x.rnd = 0 THEN 1 ELSE x.rnd, !.rev = x.rnd # 0]
  IN CASE x.st = "running"  -> [base EXCEPT !.ph = "round_in_flight", !.lin = "active"]
       [] x.st = "stopping" -> [base EXCEPT !.ph = "round_in_flight", !.lin = "cancel_requested"]
       [] x.st \in InDoubt \cup {"cancelled"} -> [base EXCEPT !.ph = x.st, !.lin = x.st]
       [] x.st = "frozen"   -> [Frozen(base, cs) EXCEPT !.rnd = x.rnd]
       [] x.st = "ready"    -> [base EXCEPT !.ph = "ready_for_round"]
       [] OTHER -> [base EXCEPT !.ph = "ready_for_round",
                                !.lin = IF x.st = "refused" THEN "failed_retryable" ELSE "completed"]

QueryAttempt(x, w, d) == {Did(x, IF Missing(x) \/ d # w.was THEN "conflict" ELSE "ok")}

\* agentRecoveryTarget.
RecoveryTarget(j) ==
  CASE ~j.rev \/ j.lin = "none" -> "attempt"
    [] j.rev /\ j.cur # 0 /\ j.ph \in {"execution_intent", "tool_result_pending", "unknown", "ambiguous"}
         -> "tool"
    [] OTHER -> IF j.lin = "completed" THEN "attempt" ELSE "round"

\* recoverAgentAttempt: what it settles, reports, and says comes next.
RecoverAttempt(x, w, d) ==
  LET j == w.was.jr
      Says(y, ans, next) == [x |-> y, r |-> [Answer(ans) EXCEPT !.next = next, !.jr = Projected(y)]]
      t == RecoveryTarget(j)
      rec == IF j.cur \in DOMAIN x.calls THEN x.calls[j.cur].rec ELSE "absent"
      Manual == Says(x, "manual", "none")
  IN IF Missing(x) \/ d # w.was THEN Refusal(x)
     ELSE CASE t = "round" /\ x.rnd = j.rnd ->
                 {CASE x.st = "final"             -> Says(x, "ok", "persist_final")
                    [] x.st \in {"batch", "frozen"} -> Says(x, "ok", "persist_batch")
                    [] x.st = "blocked"           -> Says(x, "ok", "persist_round")
                    [] x.st \in InDoubt           -> Manual
                    [] x.st = "refused"           -> Says(x, "retryable", "none")
                    [] OTHER                      -> Says(x, "ok", "none")}
            [] t = "tool" ->
                 (CASE rec = "absent"             -> {Did(x, "throw")}
                    [] rec = "none"               -> {Says(x, "ok", "persist_approval")}
                    [] rec = "unknown"            -> {Manual, Says([x EXCEPT !.calls[j.cur].rec = "ok"],
                                                                  "ok", "persist_tool_result")}
                    [] rec \in Working            -> {Manual}
                    [] OTHER                      -> {Says(x, "ok", "persist_tool_result")})
            [] OTHER -> {Says(x, "ok", "none")}
----------------------------------------------------------------------------
(* Cancelling.                                                              *)

\* A round that works is asked to stop, and one that was not sent is stopped
\* when it is asked again.  Of any other the state is reported.
CancelRound(x) ==
  CASE x.st = "running"   -> {Did([x EXCEPT !.st = "stopping"], "cancel_requested")}
    [] x.st = "stopping"  -> {Did(x, "cancel_requested"), Did([x EXCEPT !.st = "cancelled"], "cancelled")}
    [] x.st = "cancelled" -> {Did(x, "cancelled")}
    [] OTHER              -> {Did(x, "cancel_requested")}

\* A call that waits is cancelled, one that works is asked to stop.
CancelTool(x, i) ==
  LET Row(s) == [x EXCEPT !.calls[i].rec = s]
      rec == IF x.st = "frozen" /\ i \in DOMAIN x.calls THEN x.calls[i].rec ELSE "absent"
  IN CASE rec = "absent"   -> {Did(x, "unknown")}
       [] rec = "none"     -> {Did(Row("cancelled"), "cancelled")}
       [] rec = "running"  -> {Did(Row("stopping"), "cancel_requested")}
       [] rec = "stopping" -> {Did(Row("cancelled"), "cancelled"), Did(x, "throw")}
       [] OTHER            -> Refusal(x)

\* cancelAgentAttempt, with cancel_plan.  A journal that has moved past the
\* round does not match its row any more.
CancelAttempt(x, w, d) ==
  LET j == w.was.jr
      t == CancelTarget(j)
  IN CASE Missing(x) \/ d # w.was                  -> Refusal(x)
       [] OTHER ->
            CASE t = "tool"                        -> CancelTool(x, j.cur)
              [] t = "round"                       -> IF x.rnd = j.rnd THEN CancelRound(x) ELSE {Did(x, "unknown")}
              [] t = "attempt" /\ x.rnd # 0        -> IF x.st \in {"final", "blocked", "batch", "frozen"}
                                                      THEN Refusal(x) ELSE CancelRound(x)
              [] t = "attempt" /\ x.rnd = 0        -> {Did(x, IF j.ph = "ready_for_round" THEN "cancelled"
                                                              ELSE "unknown")}
=============================================================================
