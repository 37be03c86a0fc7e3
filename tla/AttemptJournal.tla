--------------------------- MODULE AttemptJournal ---------------------------
(***************************************************************************)
(* The durable journal of an agent attempt: what the completion controller *)
(* writes into it (completion/CompletionController.ts) and what the chat   *)
(* reducer accepts (state/reducer.ts).  No state: each operator takes a    *)
(* journal and returns the next one, or says whether a step is allowed.    *)
(*                                                                         *)
(* A round is provider traffic and ends in an answer or in a batch of tool *)
(* calls.  A call is "auto", must be asked for ("ask"), or was refused by  *)
(* native while it prepared the batch ("bad").  Rounds and calls count     *)
(* from 1 here, and 0 stands for null.  "gen" is controller_generation,    *)
(* one more with every journal that is written: an answer is taken only    *)
(* for the journal its request was made from.  Digests, policies,          *)
(* transcripts and the generation of the session are left out.             *)
(***************************************************************************)
EXTENDS Naturals, Sequences, SequencesExt

CONSTANT MaxRound   \* MAX_AGENT_ROUNDS

ASSUME RoundAssumption == MaxRound \in Nat \ {0}

Phase  == {"none", "ready_for_round", "round_in_flight", "batch_frozen",
           "approval_pending", "execution_intent", "tool_result_pending",
           "final_response", "cancelled", "failed", "unknown", "ambiguous"}
Status == {"prepared", "sending", "completed", "failed", "cancelled"}

\* The phases a finished attempt rests in, with its cleanup in the outbox.
Terminal == {"final_response", "cancelled", "failed"}
----------------------------------------------------------------------------
(* Calls.                                                                   *)

NewCall(kind) == [kind |-> kind,
                  dec  |-> IF kind = "ask" THEN "pending" ELSE "none",
                  rec  |-> IF kind = "bad" THEN "failed" ELSE "none"]

Open(c)    == c.rec = "none"                                   \* receipt === null
Pending(c) == c.kind = "ask" /\ c.dec = "pending"
Cleared(c) == c.kind = "auto" \/ c.dec = "allowed"             \* may run unasked
Disposed(c) == ~Open(c) \/ c.dec \in {"denied", "cancelled"}

Some(cs, P(_))  == \E i \in DOMAIN cs : P(cs[i])
AllSettled(cs)  == cs # << >> /\ ~Some(cs, Open)
Runnable(c)     == Open(c) /\ Cleared(c)

\* The first of them, 0 for none.
FirstOpen(cs)     == SelectInSeq(cs, Open)
FirstRunnable(cs) == SelectInSeq(cs, Runnable)

\* Where the cursor of a frozen batch rests.
Cursor(cs) == IF AllSettled(cs) THEN Len(cs) ELSE FirstOpen(cs)
----------------------------------------------------------------------------
(* Journals the controller makes.                                           *)

NoJournal == [ph |-> "none", rnd |-> 0, lin |-> "none", rev |-> FALSE,
              calls |-> << >>, cur |-> 0, gen |-> 0]

\* The prepared attempt: no round has been launched.
Ready == [NoJournal EXCEPT !.ph = "ready_for_round", !.rnd = 1]

\* Mutant: the cursor of the last batch is kept.
BeganAtCursor(j) == [j EXCEPT !.ph = "round_in_flight", !.lin = "active", !.rev = FALSE, !.calls = << >>,
                              !.rnd = IF j.ph = "tool_result_pending" THEN j.rnd + 1 ELSE j.rnd]

\* journalForBeginRound: the durable mark that a round is about to be asked.
Began(j) == [ph |-> "round_in_flight", rnd |-> IF j.ph = "tool_result_pending" THEN j.rnd + 1 ELSE j.rnd,
             lin |-> "active", rev |-> FALSE, calls |-> << >>, cur |-> 0, gen |-> j.gen]

\* A round that did not complete: in_flight keeps the journal where it is.
RoundOver(j, ans) ==
  [j EXCEPT !.ph = CASE ans = "in_flight" -> "round_in_flight" [] ans = "refused" -> "failed"
                     [] OTHER -> ans,
            !.lin = CASE ans = "in_flight" -> "active" [] ans = "refused" -> "failed_retryable"
                      [] OTHER -> ans,
            !.rev = TRUE]

\* The completed round before its batch is prepared.
Answered(j) == [j EXCEPT !.ph = "batch_frozen", !.lin = "completed", !.rev = TRUE,
                         !.calls = << >>, !.cur = 0]

\* The journal a finished turn leaves.
Concluded(j, ph) == [Answered(j) EXCEPT !.ph = ph]

\* journalForBatchReceipt.
Frozen(j, cs) ==
  [j EXCEPT !.ph = IF \E i \in DOMAIN cs : Open(cs[i]) /\ Pending(cs[i]) THEN "approval_pending"
                   ELSE IF AllSettled(cs) THEN "tool_result_pending" ELSE "batch_frozen",
            !.lin = "completed", !.rev = TRUE, !.calls = cs, !.cur = Cursor(cs)]

\* journalForApproval.
Decided(j, i, d) ==
  LET cs == [j.calls EXCEPT ![i].dec = d]
  IN [j EXCEPT !.ph = IF d = "denied" /\ Some(cs, Pending) THEN "approval_pending" ELSE "batch_frozen",
               !.calls = cs, !.cur = FirstOpen(cs)]

\* journalForDeniedSettlement: native's receipt for a denial.
DenialSettled(j, i) ==
  LET cs == [j.calls EXCEPT ![i].dec = "denied", ![i].rec = "denied"]
  IN [j EXCEPT !.ph = IF Some(cs, Pending) THEN "approval_pending"
                      ELSE IF AllSettled(cs) THEN "tool_result_pending" ELSE "batch_frozen",
               !.calls = cs, !.cur = IF AllSettled(cs) THEN i ELSE FirstOpen(cs)]

\* The journal after native bound an allowed call.
ApprovalBound(j) == [j EXCEPT !.ph = "batch_frozen", !.cur = FirstOpen(j.calls)]

\* journalForExecutionIntent.
Intended(j, i) == [j EXCEPT !.ph = "execution_intent", !.cur = i]

\* journalForToolResult.
Resulted(j, i, ans) ==
  [j EXCEPT !.ph = CASE ans = "running" -> "execution_intent"
                     [] ans \in {"cancelled", "unknown", "ambiguous"} -> ans
                     [] OTHER -> "tool_result_pending",
            !.calls[i].rec = IF ans \in {"ok", "cancelled"} THEN ans ELSE @, !.cur = i]

\* The cursor moves on to call i.
Advanced(j, i) == [j EXCEPT !.ph = IF Pending(j.calls[i]) THEN "approval_pending" ELSE "batch_frozen",
                            !.cur = i]

\* What a cancellation is aimed at.
CancelTarget(j) == CASE j.ph = "round_in_flight" /\ j.lin # "none" -> "round"
                     [] j.ph = "execution_intent" /\ j.cur # 0     -> "tool"
                     [] OTHER -> "attempt"

\* The durable mark that a cancellation is about to be asked for.
Asked(j) == [j EXCEPT !.lin = IF CancelTarget(j) = "attempt" THEN @ ELSE "cancel_requested"]

\* The journal after native answered a cancellation.
Stopped(j, ans) ==
  [j EXCEPT !.ph = IF ans \in {"cancelled", "unknown"} THEN ans ELSE @,
            !.lin = IF @ = "none" THEN @ ELSE IF ans \in {"cancelled", "unknown"} THEN ans
                    ELSE "cancel_requested",
            !.rev = @ \/ CancelTarget(j) = "round",
            !.calls = [i \in DOMAIN @ |->
                         IF ans # "cancelled" THEN @[i]
                         ELSE IF CancelTarget(j) = "tool" /\ i = j.cur THEN [@[i] EXCEPT !.rec = "cancelled"]
                         ELSE IF Disposed(@[i]) THEN @[i] ELSE [@[i] EXCEPT !.dec = "cancelled"]]]
----------------------------------------------------------------------------
(* What the reducer accepts.                                                *)

\* agentPhaseTransitionIsLegalAny.
Legal(ph) ==
  LET open == {"cancelled", "failed", "unknown", "ambiguous"}
  IN CASE ph = "ready_for_round"     -> {"ready_for_round", "round_in_flight", "cancelled"}
       [] ph = "round_in_flight"     -> open \cup {"round_in_flight", "ready_for_round", "batch_frozen",
                                                   "approval_pending", "final_response"}
       [] ph = "batch_frozen"        -> open \cup {"batch_frozen", "approval_pending", "execution_intent",
                                                   "tool_result_pending"}
       [] ph = "approval_pending"    -> open \cup {"approval_pending", "batch_frozen", "tool_result_pending"}
       [] ph = "execution_intent"    -> (open \ {"failed"}) \cup {"execution_intent", "tool_result_pending"}
       [] ph = "tool_result_pending" -> open \cup {"tool_result_pending", "batch_frozen", "approval_pending",
                                                   "ready_for_round"}
       [] ph = "failed"              -> {"failed", "round_in_flight"}
       [] OTHER                      -> {ph}

\* begin_round: the first round, or the one after a batch settled in full.
CanBegin(j) ==
  \/ j.ph = "ready_for_round" /\ j.lin = "none" /\ j.rnd = 1 /\ j.calls = << >>
  \/ j.ph = "tool_result_pending" /\ AllSettled(j.calls) /\ j.cur # 0 /\ j.rnd < MaxRound
  \/ j.ph = "failed" /\ j.lin = "failed_retryable" /\ j.calls = << >>

\* decide_approval.
CanDecide(j, i) == j.ph \in {"approval_pending", "batch_frozen"} /\ Pending(j.calls[i])

\* begin_execution.
CanExecute(j, i) == j.ph = "batch_frozen" /\ j.cur = i /\ Runnable(j.calls[i])

\* attempt/agent-advance-call: the next call after the cursor, and no other.
CanAdvance(j, i) ==
  /\ j.ph = "tool_result_pending" /\ j.cur # 0 /\ ~Open(j.calls[j.cur])
  /\ i > j.cur /\ ~Disposed(j.calls[i])
  /\ \A k \in j.cur + 1 .. i - 1 : Disposed(j.calls[k])

\* request_cancel names the phase it was asked in.
CanAsk(j) == j.ph \in {"ready_for_round", "round_in_flight", "batch_frozen", "approval_pending",
                       "execution_intent", "tool_result_pending"}

\* recover_agent_attempt: r is native's answer, k the journal it projects.
CanRecover(j, k, r) ==
  /\ k.ph \in Legal(j.ph) \ Terminal
  /\ CASE r = "manual"               -> k.ph \in {"unknown", "ambiguous"}
       [] r = "none"                 -> IF j.ph = "round_in_flight" /\ ~j.rev
                                        THEN k = Ready ELSE k.ph = j.ph
       [] r \in {"persist_batch", "persist_approval"} -> k.ph \in {"batch_frozen", "approval_pending"}
       [] r = "persist_tool_result"  -> k.ph = "tool_result_pending"
       [] OTHER                      -> FALSE
----------------------------------------------------------------------------
(* Attempts.                                                                *)

\* agentOuterAttemptCheckpoint: what the journal says about the whole attempt.
OuterStatus(ph) == CASE ph = "round_in_flight" -> "sending"
                     [] ph = "final_response"  -> "completed"
                     [] ph = "cancelled"       -> "cancelled"
                     [] ph \in {"failed", "unknown", "ambiguous"} -> "failed"
                     [] OTHER -> "prepared"

\* "residue" is the attempt's entry in agentTranscriptCleanupOutbox.
NewAttempt == [st |-> "prepared", code |-> "none", jr |-> NoJournal, residue |-> FALSE]

\* Mutant: a new journal is taken for the one before.
WithSameGeneration(att, j) ==
  [att EXCEPT !.jr = [j EXCEPT !.gen = att.jr.gen], !.st = OuterStatus(j.ph),
              !.code = IF j.ph = "failed" /\ j.lin = "failed_retryable" THEN "refused"
                       ELSE IF OuterStatus(j.ph) = "failed" THEN "other" ELSE "none",
              !.residue = @ \/ j.ph \in Terminal]

\* The attempt with its next journal.  Every transition adds one to the
\* controller_generation (reducer.ts:2553, 3353, 3403, 3435, 4216).
With(att, j) == [att EXCEPT !.jr = [j EXCEPT !.gen = att.jr.gen + 1], !.st = OuterStatus(j.ph),
                            !.code = IF j.ph = "failed" /\ j.lin = "failed_retryable" THEN "refused"
                                     ELSE IF OuterStatus(j.ph) = "failed" THEN "other" ELSE "none",
                            !.residue = @ \/ j.ph \in Terminal]

IsAgent(att)     == att.jr # NoJournal
Interrupted(att) == att.code = "interrupted"
Unfinished(att)  == att.st \in {"prepared", "sending"}

\* refusedAttemptRetryable: the provider refused the first round, nothing ran,
\* and the cleanup has left the outbox.
Refused(att) == att.st = "failed" /\ att.code = "refused" /\ att.jr.rnd = 1 /\ ~att.residue

\* attempt/retry and turn/prepare.
CanRetry(atts, n) == /\ atts[n].st \in {"failed", "cancelled"}
                     /\ ~IsAgent(atts[n]) \/ Interrupted(atts[n]) \/ Refused(atts[n])
                     /\ \A m \in DOMAIN atts : ~Unfinished(atts[m])
CanSend(atts) == \A m \in DOMAIN atts : ~Unfinished(atts[m])

\* attempt/abandon-unresolved.
Abandoned(att) == [att EXCEPT !.st = "failed", !.code = "interrupted", !.residue = TRUE]

\* hydrateChatState over a document another launch wrote.
Hydrated(att) == IF ~Unfinished(att) THEN att
                 ELSE [att EXCEPT !.st = "failed", !.code = "interrupted", !.residue = @ \/ IsAgent(att)]
=============================================================================
