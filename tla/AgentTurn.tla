----------------------------- MODULE AgentTurn -----------------------------
(***************************************************************************)
(* One turn of the agent, as the completion controller runs it             *)
(* (completion/CompletionController.ts): prepare the attempt, ask the      *)
(* provider for a round, freeze its batch of tool calls, ask the user,     *)
(* execute, and finish.  Before each native call that has an effect the    *)
(* controller changes the attempt's journal and waits for it to be saved;  *)
(* after the answer it changes the journal again.                          *)
(***************************************************************************)
EXTENDS DirectTurn

\* failAgentWithoutNative: it does not ask whether this run is still the
\* current one.
Fail(a, c) ==
  IF IsAgent(a.mem[c.n]) THEN Done(Publish([a EXCEPT !.run = 0], "resume_available", c.n), c)
  ELSE IF ~Unfinished(a.mem[c.n]) THEN Done(Publish(a, "blocked", c.n), c)
  ELSE Saving([a EXCEPT !.mem[c.n] = [@ EXCEPT !.st = "failed", !.code = "other"]], c, "fail", NoPending)

\* A journal the reducer accepts is saved; any other step fails.
Journal(a, c, kind, j, then) ==
  IF IsAgent(a.mem[c.n]) /\ j.ph \in Legal(a.mem[c.n].jr.ph) /\ ~Interrupted(a.mem[c.n])
  THEN Save(a, c, kind, With(a.mem[c.n], j), then)
  ELSE Fail(a, c)
----------------------------------------------------------------------------
(* Rounds.                                                                  *)

\* runAgentPreparedImpl, up to the native call.
RunPrepared(a, c) ==
  LET d == [c EXCEPT !.who = @ \cup {"prepared"}]
  IN Call(Publish([a EXCEPT !.run = c.ep, !.runOf = c.n, !.auth = 0], "starting", c.n), d, "prepare", NoThen)

\* runPrepared: a conversation without a workspace or a project asks directly.
Run(a, c) == IF a.kind = "plain" THEN RunDirect(a, c) ELSE RunPrepared(a, c)

\* Its rest.  A call that threw is published before the epoch is looked at; a
\* project without a root asks directly, whatever was asked for meanwhile.
PrepareAnswered(a, w, r) ==
  IF r.ans = "throw" THEN Done(Publish(a, "retryable", w.c.n), w.c)
  ELSE IF a.epoch # w.c.ep THEN Done(a, w.c)
  ELSE IF r.ans = "not_agent" THEN RunDirect([a EXCEPT !.run = 0], w.c)
  ELSE IF r.ans = "conflict" \/ a.mem[w.c.n] # w.was THEN Fail(a, w.c)
  ELSE Save(a, w.c, "checkpoint", With(w.was, Ready), Then("started"))

\* runAgentRoundImpl.
RunRound(a, c) ==
  LET j == a.mem[c.n].jr
  IN IF a.epoch # c.ep THEN Done(a, c)
     ELSE IF ~IsAgent(a.mem[c.n]) THEN Fail(a, c)
     ELSE IF j.ph \notin {"ready_for_round", "tool_result_pending", "failed"} THEN Done(a, c)
     ELSE IF ~CanBegin(j) \/ Interrupted(a.mem[c.n]) THEN Fail(a, c)
     ELSE Save(Publish(a, "starting", c.n), c, "checkpoint", With(a.mem[c.n], Began(j)), Then("launched"))

\* runRoundAfterBegin, up to the native call.
RoundLaunched(a, c) == Call(Publish(a, "sending", c.n), c, "round", NoThen)

\* Its rest, with finishAgentNonTerminal and finishAgentTerminal.  Their store
\* transaction takes the answer only for the journal it was asked from
\* (agentEvidenceMatchesControllerCAS, store.ts:1025).
RoundAnswered(a, w, r) ==
  LET c == w.c
      j == a.mem[c.n].jr
  IN IF a.epoch # c.ep \/ a.flight = c.ep THEN Done(a, c)
     ELSE IF r.ans \in {"throw", "conflict"} \/ a.mem[c.n] # w.was THEN Fail(a, c)
     ELSE CASE r.ans = "in_flight" -> Journal(a, c, "checkpoint", RoundOver(j, r.ans), Then("held"))
            [] r.ans \in {"unknown", "ambiguous"} ->
                 Journal(a, c, "cancel", RoundOver(j, r.ans), Then("lost"))
            [] r.ans \in {"cancelled", "refused"} ->
                 Journal(Publish(a, "finalizing", c.n), c, "cancel", RoundOver(j, r.ans), Then("over"))
            [] r.ans \in {"final", "blocked"} ->
                 Journal(Publish(a, "finalizing", c.n), c, "final",
                         Concluded(j, IF r.ans = "final" THEN "final_response" ELSE "failed"), Then("over"))
            [] r.ans = "batch" -> Journal(a, c, "checkpoint", Answered(j), Then("answered"))

\* prepareAgentBatch: the native batch, and with it the first call that may
\* run at once.
FreezeAnswered(a, w, r) ==
  LET c == w.c
      b == [a EXCEPT !.auth = IF a.run = 0 THEN @ ELSE w.was.jr.rnd]
      j == Frozen(w.was.jr, r.calls)
      i == FirstRunnable(r.calls)
  IN IF r.ans = "throw" THEN Fail(a, c)
     ELSE IF a.epoch # c.ep THEN Done(a, c)
     ELSE IF r.ans = "conflict" THEN Fail(a, c)
     ELSE IF a.mem[c.n] # w.was THEN Fail(b, c)
     ELSE IF j.ph # "approval_pending" /\ i # 0 /\ a.run # 0
     THEN Journal(Publish(b, "executing", c.n), c, "checkpoint", Intended(j, i),
                  [Then("intended") EXCEPT !.i = i])
     ELSE Journal(Publish(b, IF j.ph = "approval_pending" THEN j.ph ELSE "executing", c.n),
                  c, "checkpoint", j, Then("frozen"))
----------------------------------------------------------------------------
(* Tool calls.                                                              *)

\* The run holds the native batch, and the tokens, of the journal's round.
HoldsBatch(a, c) == a.run # 0 /\ a.auth = a.mem[c.n].jr.rnd

\* executeAgentCall.
Execute(a, c, i) ==
  IF HoldsBatch(a, c) /\ CanExecute(a.mem[c.n].jr, i)
  THEN Journal(Publish(a, "executing", c.n), c, "checkpoint", Intended(a.mem[c.n].jr, i),
               [Then("intended") EXCEPT !.i = i])
  ELSE Fail(a, c)

\* runAgentBatchImpl: ask for what is pending, run what may run, or go on.
RunBatch(a, c) ==
  LET j == a.mem[c.n].jr
      i == FirstRunnable(j.calls)
  IN IF a.epoch # c.ep THEN Done(a, c)
     ELSE IF ~IsAgent(a.mem[c.n]) THEN Fail(a, c)
     ELSE IF \E k \in DOMAIN j.calls : Open(j.calls[k]) /\ Pending(j.calls[k])
     THEN IF HoldsBatch(a, c) THEN Call(Publish(a, "approval_pending", c.n), c, "approve", NoThen)
          ELSE Fail(a, c)
     ELSE IF i # 0 THEN Execute(a, c, i)
     ELSE IF \/ j.ph = "tool_result_pending" /\ AllSettled(j.calls)
             \/ j.ph = "batch_frozen" /\ ~Some(j.calls, LAMBDA x : ~Disposed(x))
     THEN RunRound(a, c)
     ELSE Done(a, c)

\* Mutant: native is told of the decision before it is saved.
DecideUnsaved(a, c, more) ==
  LET j == a.mem[c.n].jr
      i == Head(more).i
  IN IF HoldsBatch(a, c) /\ i \in DOMAIN j.calls /\ CanDecide(j, i)
     THEN Call([a EXCEPT !.mem[c.n] = With(@, Decided(j, i, Head(more).d))], c, "bind",
               [Then("decided") EXCEPT !.i = i, !.d = Head(more).d, !.more = Tail(more)])
     ELSE Fail(a, c)

\* commitAgentApprovalDecision: the first of the decisions still to commit.
Decide(a, c, more) ==
  LET j == a.mem[c.n].jr
      i == Head(more).i
  IN IF HoldsBatch(a, c) /\ i \in DOMAIN j.calls /\ CanDecide(j, i)
     THEN Journal(a, c, "checkpoint", Decided(j, i, Head(more).d),
                  [Then("decided") EXCEPT !.i = i, !.d = Head(more).d, !.more = Tail(more)])
     ELSE Fail(a, c)

\* Mutant: the list is answered as a whole.
ApprovedAsOne(a, w, more) ==
  IF a.epoch # w.c.ep THEN Done(a, w.c)
  ELSE Decide(a, w.c, [k \in DOMAIN more |-> [more[k] EXCEPT !.d = Head(more).d]])

\* bindAgentBatchApprovals, when the user has answered.
ApproveAnswered(a, w, more) == IF a.epoch # w.c.ep THEN Done(a, w.c) ELSE Decide(a, w.c, more)

\* After a decision: the next one, or the batch.  A decision whose save was
\* repeated has no loop to return to.
DecisionCommitted(a, c, then) ==
  IF then.more = << >> THEN RunBatch(a, c)
  ELSE IF then.live THEN Decide(a, c, then.more)
  ELSE Done(a, c)

\* The rest of commitAgentApprovalDecision: no epoch is looked at.
BindAnswered(a, w, r) ==
  LET att == a.mem[w.c.n]
      i   == w.arg.i
      then == [w.arg EXCEPT !.at = "bound"]
  IN IF r.ans \in {"throw", "conflict"} \/ att # w.was \/ i \notin DOMAIN att.jr.calls THEN Fail(a, w.c)
     ELSE Journal(a, w.c, "checkpoint", IF w.arg.d = "denied" THEN DenialSettled(att.jr, i)
                                        ELSE ApprovalBound(att.jr), then)

\* runExecutionAfterIntent, when native answered, with
\* combinedResultAndNextIntent.
ExecuteAnswered(a, w, r) ==
  LET c == w.c
      i == w.arg.i
      j == Resulted(w.was.jr, i, r.ans)
      opens == {k \in DOMAIN j.calls : k > i /\ Open(j.calls[k])}
      next  == IF opens = {} THEN 0 ELSE CHOOSE k \in opens : \A m \in opens : k <= m
  IN IF a.epoch # c.ep \/ a.flight = c.ep THEN Done(a, c)
     ELSE IF r.ans \in {"throw", "conflict"} \/ a.mem[c.n] # w.was THEN Fail(a, c)
     ELSE IF r.ans = "cancelled"
     THEN Journal(Publish(a, "finalizing", c.n), c, "final", j, Then("over"))
     ELSE IF r.ans = "ok" /\ next # 0 /\ a.auth # 0 /\ a.run # 0
             /\ Runnable(j.calls[next]) /\ CanAdvance(j, next)
     THEN Journal(Publish(a, "executing", c.n), c, "checkpoint",
                  Intended(Advanced(j, next), next), [Then("intended") EXCEPT !.i = next])
     ELSE Journal(a, c, "checkpoint", j, Then("recorded"))

\* Its continuation after the result alone was saved.
ResultRecorded(a, c) ==
  LET j == a.mem[c.n].jr
      i == FirstRunnable(j.calls)
  IN IF j.ph \in {"unknown", "ambiguous"} THEN Done(Publish(a, "retryable", c.n), c)
     ELSE IF i = 0 THEN RunBatch(a, c)
     ELSE IF CanAdvance(j, i) THEN Journal(a, c, "checkpoint", Advanced(j, i), Then("frozen"))
     ELSE Fail(a, c)
----------------------------------------------------------------------------
(* The end of a turn.                                                       *)

\* finalizeAgent.
Finalize(a, c) == IF a.epoch # c.ep THEN Done(a, c) ELSE Call(a, c, "finalize", NoThen)

FinalizeAnswered(a, w, r) ==
  IF r.ans \in {"throw", "conflict"} THEN Fail(a, w.c) ELSE Call(a, w.c, "discard", NoThen)

\* acknowledgeAgentCleanup: the attempt's entry leaves the outbox.
Acknowledge(a, c) ==
  LET att == [a.mem[c.n] EXCEPT !.residue = FALSE]
      p   == [NoPending EXCEPT !.ep = c.ep, !.n = c.n, !.kind = "ack",
                               !.tx = [before |-> a.mem[c.n], state |-> "open",
                                       next |-> [a.mem EXCEPT ![c.n] = att]]]
  IN IF ~a.mem[c.n].residue THEN Done(Publish(a, "blocked", c.n), c)
     ELSE Saving([a EXCEPT !.mem[c.n] = att, !.ack = p], c, "ack", p)

\* Mutant: a refusal to discard is taken for a discard.
DiscardBelieved(a, w, r) == IF r.ans = "throw" THEN Fail(a, w.c) ELSE Acknowledge(a, w.c)

\* The rest of finalizeAgent: no epoch is looked at.
DiscardAnswered(a, w, r) ==
  CASE r.ans = "throw"    -> Fail(a, w.c)
    [] r.ans = "conflict" -> Done(Publish(a, "persistence_pending", w.c.n), w.c)
    [] OTHER              -> Acknowledge(a, w.c)

\* settleAbandonedAgentResidue: a refusal leaves the entry to the next launch.
InterruptAnswered(a, w, r) ==
  IF r.ans # "ok" \/ a.epoch # w.c.ep THEN Done(a, w.c) ELSE Acknowledge(a, w.c)
=============================================================================
