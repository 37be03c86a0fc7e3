---------------------------- MODULE ProviderRound ----------------------------
(***************************************************************************)
(* One attempt's provider rounds: AgentProviderRoundService.mm over the    *)
(* round journal (round_journal.rs), the operation log (wal_operations.rs) *)
(* and the owner-loss reconciliation of AgentNativeWAL.mm.                 *)
(*                                                                         *)
(* A handler is a series of WAL transactions run on one serial queue; the  *)
(* only part outside the queue is the wait for the provider.  A process    *)
(* may die between any two transactions, a transaction may fail, and the   *)
(* provider bills every request it accepts, whatever becomes of the reply. *)
(*                                                                         *)
(* Abstracted away: message bodies, digests, receipts, failure codes and   *)
(* tool calls.  A transcript is the list of its messages' authors.         *)
(***************************************************************************)
EXTENDS Integers, Sequences, FiniteSets

CONSTANTS Op,          \* operation ids; each names one request
          NoOp,        \* no operation: no owner, free queue
          NRounds,     \* rounds the controller asks for in this attempt
          MaxLaunch,   \* launches of one round (8 in the code)
          MaxFaults,   \* bound: failing WAL transactions
          MaxCrashes   \* bound: deaths of the process

ASSUME RoundAssumption ==
  /\ NoOp \notin Op
  /\ NRounds \in Nat /\ MaxLaunch \in Nat
  /\ MaxFaults \in Nat /\ MaxCrashes \in Nat

Round == 1..NRounds

VARIABLES row,         \* the journal's row of each round
          marker,      \* the dispatch marker beside each row
          transcript,  \* the attempt's protected transcript
          authority,   \* transcript generation the authority is bound to
          ops,         \* the operation log
          req,         \* the request each operation id stands for
          up,          \* the process runs and has reconciled lost owners
          queue,       \* operation whose handler holds the serial queue
          live,        \* native tasks registered in this process
          call,        \* each call's progress
          ctx,         \* each waiting call's context
          heard,       \* refusal status the transport keeps for a request
          net,         \* what the provider did with each request
          faults, crashes

wal  == <<row, marker, transcript, authority, ops>>
proc == <<up, queue, live, call, ctx, heard>>
vars == <<row, marker, transcript, authority, ops, req, up, queue, live,
          call, ctx, heard, net, faults, crashes>>

-----------------------------------------------------------------------------
(***************************************************************************)
(* Records                                                                 *)
(***************************************************************************)
RoundStates == {"absent", "in_flight", "cancel_requested", "completed",
                "failed_retryable", "cancelled", "ambiguous"}
OpStates    == {"none", "started", "committed", "ambiguous", "conflict", "unknown"}
Answers     == {"pending", "completed", "failed_retryable", "cancelled",
                "ambiguous", "conflict", "unknown"}
PCs         == {"idle", "opened", "claimed", "ready", "waiting", "closing"}
Codes       == {"none", "ok", "failed", "cancelled", "timeout"}

Row     == [st : RoundStates, own : Op \cup {NoOp}, rev : Nat, launch : Nat, before : Nat]
CAS     == [st : RoundStates, own : Op \cup {NoOp}, rev : Nat]
Call    == [pc : PCs, cas : CAS, end : OpStates, answer : Answers]
Context == [finished : BOOLEAN, code : Codes]
OpRow   == [state : OpStates, answer : Answers]
Request == [kind : {"none", "run", "retry"}, round : 0..NRounds, rev : Nat, gen : Nat]
Author  == {"assistant", "tools"} \X Round

AbsentRow == [st |-> "absent", own |-> NoOp, rev |-> 0, launch |-> 0, before |-> 0]
NoCAS     == [st |-> "absent", own |-> NoOp, rev |-> 0]
NoCall    == [pc |-> "idle", cas |-> NoCAS, end |-> "none", answer |-> "pending"]
NoContext == [finished |-> FALSE, code |-> "none"]
NoRequest == [kind |-> "none", round |-> 0, rev |-> 0, gen |-> 0]

Init ==
  /\ row = [r \in Round |-> AbsentRow]
  /\ marker = [r \in Round |-> "none"]
  /\ transcript = <<>> /\ authority = 0
  /\ ops = [o \in Op |-> [state |-> "none", answer |-> "pending"]]
  /\ req = [o \in Op |-> NoRequest]
  /\ up = TRUE /\ queue = NoOp /\ live = {}
  /\ call = [o \in Op |-> NoCall]
  /\ ctx = [o \in Op |-> NoContext]
  /\ heard = [o \in Op |-> "none"]
  /\ net = [o \in Op |-> "none"]
  /\ faults = 0 /\ crashes = 0

-----------------------------------------------------------------------------
(***************************************************************************)
(* The journal's reducers (round_journal.rs)                               *)
(***************************************************************************)
\* Every move of a row gives it a state, an owner and the next revision.
Moved(w, st, own) == [st |-> st, own |-> own, rev |-> w.rev + 1,
                      launch |-> w.launch, before |-> w.before]

CASOf(w) == [st |-> w.st, own |-> w.own, rev |-> w.rev]
Running(w) == w.st \in {"in_flight", "cancel_requested"}

\* create: a fresh row, its owner the caller's native task.
Created(o) == [st |-> "in_flight", own |-> o, rev |-> 1, launch |-> 1,
               before |-> req[o].gen]

\* claim: only a retryable, ownerless round that never left the device.
CanClaim(o, r) ==
  /\ row[r].st = "failed_retryable" /\ row[r].rev = req[o].rev
  /\ row[r].own = NoOp
  /\ marker[r] = "not_dispatched"
  /\ row[r].launch < MaxLaunch

Claimed(o, r) == [Moved(row[r], "in_flight", o) EXCEPT !.launch = @ + 1]

CanMark(o, r) ==
  /\ CASOf(row[r]) = call[o].cas
  /\ Running(row[r]) /\ row[r].own \in live
  /\ marker[r] = "not_dispatched"

Marked(r) == Moved(row[r], row[r].st, row[r].own)

\* complete: exactly the row that was dispatched, over the transcript it began.
CanComplete(o, r) ==
  /\ CASOf(row[r]) = call[o].cas
  /\ Running(row[r]) /\ marker[r] = "dispatched"
  /\ Len(transcript) = row[r].before

Completed(r) == Moved(row[r], "completed", NoOp)

\* cancel: a first request is noted; a second one settles a round that has
\* not been dispatched.
CanCancel(r) == \/ row[r].st = "in_flight"
                \/ row[r].st = "cancel_requested" /\ marker[r] = "not_dispatched"

CancelledRow(r) ==
  IF row[r].st = "in_flight"
  THEN Moved(row[r], "cancel_requested", row[r].own)
  ELSE Moved(row[r], "cancelled", NoOp)

\* Mutant: any status line the provider sent counts as a refusal.
RefusalProvedByStatus(o, r) == heard[o] # "none" /\ marker[r] = "dispatched"

\* refusal_cause: evidence of a 4xx other than 408 and 499, for a round that
\* is still in flight under the owner it was dispatched with.
RefusalProved(o, r) ==
  /\ heard[o] = "refused"
  /\ marker[r] = "dispatched" /\ row[r].st = "in_flight" /\ row[r].own = o

\* reconcile: what a round without its owner became.
LostState(r, refused) ==
  IF marker[r] = "not_dispatched"
  THEN IF row[r].st = "cancel_requested" THEN "cancelled" ELSE "failed_retryable"
  ELSE IF refused THEN "failed_retryable" ELSE "ambiguous"

\* Mutant: nobody looks at the state of the round.
CanReconcileAny(r) == row[r].st # "absent" /\ row[r].own \notin live

CanReconcile(r) == Running(row[r]) /\ row[r].own \notin live

LostRow(r, st) == Moved(row[r], st, NoOp)

-----------------------------------------------------------------------------
(***************************************************************************)
(* A WAL transaction, as its caller sees it: done, provably not done, or   *)
(* an error over an effect that is there (AgentWAL).                       *)
(***************************************************************************)
Outcomes == {"ok", "lost", "unsure"}

Outcome(f) == /\ f # "ok" => faults < MaxFaults
              /\ faults' = IF f = "ok" THEN faults ELSE faults + 1

Applied(f) == f # "lost"

WriteRow(f, r, w) == row' = IF Applied(f) THEN [row EXCEPT ![r] = w] ELSE row

WriteMarker(f, r, m) == marker' = IF Applied(f) THEN [marker EXCEPT ![r] = m] ELSE marker

\* The handler goes on in the same call, with this CAS in hand.
Continue(o, pc, cas) ==
  call' = [call EXCEPT ![o] = [pc |-> pc, cas |-> cas, end |-> "none", answer |-> "pending"]]

\* What is left of the handler is to commit its operation and return.
Closing(o, end, answer) ==
  call' = [call EXCEPT ![o] = [pc |-> "closing", cas |-> NoCAS, end |-> end,
                               answer |-> answer]]

Serving(o, pc) == up /\ queue = o /\ call[o].pc = pc

OpAt(o) == req[o].round

-----------------------------------------------------------------------------
(***************************************************************************)
(* completeAgentRoundV2, up to the dispatch                                *)
(***************************************************************************)

\* The controller (external): the next round is asked for once the one before
\* it is completed and its tool batch settled; a repeat of a round it already
\* asked for comes under a new operation id.
MayAsk(r) == \A q \in Round : q < r => row[q].st = "completed" /\ Len(transcript) >= 2 * q

AskRun(o, r) ==
  /\ up /\ req[o] = NoRequest /\ MayAsk(r)
  /\ req' = [req EXCEPT ![o] = [kind |-> "run", round |-> r, rev |-> 0, gen |-> authority]]
  /\ UNCHANGED <<wal, proc, net, faults, crashes>>

\* recoverAgentAttempt, retry_failed_round: the row is found retryable and the
\* child operation is fixed on its revision.  The retry itself runs later.
AskRetry(o, r) ==
  /\ up /\ queue = NoOp /\ req[o] = NoRequest
  /\ row[r].st = "failed_retryable" /\ row[r].launch < MaxLaunch
  /\ req' = [req EXCEPT ![o] = [kind |-> "retry", round |-> r, rev |-> row[r].rev,
                                gen |-> authority]]
  /\ UNCHANGED <<wal, proc, net, faults, crashes>>

\* The operation is recorded before anything else is touched.  A request whose
\* transcript is not the authority's is answered as a conflict, unrecorded.
Open(o) ==
  /\ up /\ queue = NoOp /\ call[o].pc = "idle"
  /\ req[o] # NoRequest /\ req[o].gen = authority /\ ops[o].state = "none"
  /\ \E f \in Outcomes :
       /\ Outcome(f)
       /\ ops' = IF Applied(f) THEN [ops EXCEPT ![o].state = "started"] ELSE ops
       /\ IF f = "ok" THEN queue' = o /\ Continue(o, "opened", NoCAS)
                      ELSE UNCHANGED <<queue, call>>
  /\ UNCHANGED <<row, marker, transcript, authority, req, up, live, ctx, heard, net, crashes>>

\* History, transcript or body cannot be built, or the retry no longer fits its
\* row: the operation is closed and no row is touched.
Refuse(o) ==
  /\ Serving(o, "opened")
  /\ \E end \in {"ambiguous", "conflict"} : Closing(o, end, end)
  /\ UNCHANGED <<wal, req, up, queue, live, ctx, heard, net, faults, crashes>>

\* createAgentRoundV3, the native task registered first.
Create(o) ==
  /\ Serving(o, "opened") /\ req[o].kind = "run"
  /\ live' = live \cup {o}
  /\ LET r == OpAt(o) IN
     IF row[r].st = "absent"
     THEN \E f \in Outcomes :
            /\ Outcome(f)
            /\ WriteRow(f, r, Created(o))
            /\ WriteMarker(f, r, "not_dispatched")
            /\ IF f = "ok" THEN Continue(o, "claimed", CASOf(Created(o)))
                           ELSE Closing(o, "ambiguous", "ambiguous")
     ELSE Closing(o, "ambiguous", "ambiguous") /\ UNCHANGED <<row, marker, faults>>
  /\ UNCHANGED <<transcript, authority, ops, req, up, queue, ctx, heard, net, crashes>>

\* claimAgentRoundV3: the retry takes the row over for its own native task.
Claim(o) ==
  /\ Serving(o, "opened") /\ req[o].kind = "retry"
  /\ live' = live \cup {o}
  /\ LET r == OpAt(o) IN
     IF CanClaim(o, r)
     THEN \E f \in Outcomes :
            /\ Outcome(f)
            /\ WriteRow(f, r, Claimed(o, r))
            /\ IF f = "ok" THEN Continue(o, "claimed", CASOf(Claimed(o, r)))
                           ELSE Closing(o, "ambiguous", "ambiguous")
     ELSE Closing(o, "conflict", "conflict") /\ UNCHANGED <<row, faults>>
  /\ UNCHANGED <<marker, transcript, authority, ops, req, up, queue, ctx, heard, net, crashes>>

\* No credential or transport: one cancellation of the round just claimed.
NotReady(o) ==
  /\ Serving(o, "claimed")
  /\ LET r == OpAt(o) IN
     IF CASOf(row[r]) = call[o].cas /\ CanCancel(r)
     THEN \E f \in Outcomes : Outcome(f) /\ WriteRow(f, r, CancelledRow(r))
     ELSE UNCHANGED <<row, faults>>
  /\ Closing(o, "ambiguous", "ambiguous")
  /\ UNCHANGED <<marker, transcript, authority, ops, req, up, queue, live, ctx, heard, net, crashes>>

\* No provider request id: the row is left as it is, in flight.
NoRequestId(o) ==
  /\ Serving(o, "claimed")
  /\ Closing(o, "ambiguous", "ambiguous")
  /\ UNCHANGED <<wal, req, up, queue, live, ctx, heard, net, faults, crashes>>

\* Mutant: the call goes on to the provider though the mark was not written.
MarkUnchecked(o) ==
  /\ Serving(o, "claimed") /\ CanMark(o, OpAt(o))
  /\ \E f \in Outcomes :
       /\ Outcome(f)
       /\ WriteRow(f, OpAt(o), Marked(OpAt(o)))
       /\ WriteMarker(f, OpAt(o), "dispatched")
  /\ Continue(o, "ready", CASOf(Marked(OpAt(o)))) /\ queue' = NoOp
  /\ UNCHANGED <<transcript, authority, ops, req, up, live, ctx, heard, net, crashes>>

\* markAgentRoundV3Dispatched, and the context a cancellation can reach.  The
\* queue is given up for the wait.
Mark(o) ==
  /\ Serving(o, "claimed")
  /\ LET r == OpAt(o) IN
     IF CanMark(o, r)
     THEN \E f \in Outcomes :
            /\ Outcome(f)
            /\ WriteRow(f, r, Marked(r))
            /\ WriteMarker(f, r, "dispatched")
            /\ IF f = "ok"
               THEN Continue(o, "ready", CASOf(Marked(r))) /\ queue' = NoOp
               ELSE Closing(o, "ambiguous", "ambiguous") /\ UNCHANGED queue
     ELSE Closing(o, "ambiguous", "ambiguous") /\ UNCHANGED <<row, marker, faults, queue>>
  /\ UNCHANGED <<transcript, authority, ops, req, up, live, ctx, heard, net, crashes>>

\* commitStartedOperation, the native task unregistered, the call answered.
Close(o) ==
  /\ Serving(o, "closing")
  /\ \E f \in Outcomes :
       /\ Outcome(f)
       /\ ops' = IF Applied(f) /\ ops[o].state = "started"
                 THEN [ops EXCEPT ![o] = [state |-> call[o].end, answer |-> call[o].answer]]
                 ELSE ops
  /\ live' = live \ {o} /\ queue' = NoOp
  /\ call' = [call EXCEPT ![o] = NoCall]
  /\ UNCHANGED <<row, marker, transcript, authority, req, up, ctx, heard, net, crashes>>

-----------------------------------------------------------------------------
(***************************************************************************)
(* The wait for the provider, off the queue                                *)
(***************************************************************************)

\* bindExecution: a context already finished (cancelled meanwhile) is never
\* given a task, so nothing is sent.
Send(o) ==
  /\ up /\ call[o].pc = "ready"
  /\ call' = [call EXCEPT ![o].pc = "waiting"]
  /\ net' = IF ctx[o].finished THEN net ELSE [net EXCEPT ![o] = "sent"]
  /\ UNCHANGED <<wal, req, up, queue, live, ctx, heard, faults, crashes>>

\* The provider (external) accepts a request, and bills it, or turns it away.
Accept(o) ==
  /\ net[o] = "sent"
  /\ net' = [net EXCEPT ![o] = "executed"]
  /\ UNCHANGED <<wal, req, proc, faults, crashes>>

TurnAway(o) ==
  /\ net[o] = "sent"
  /\ net' = [net EXCEPT ![o] = "refused"]
  /\ UNCHANGED <<wal, req, proc, faults, crashes>>

\* claimRound: whether the round a reply is for is still the one dispatched.
ClaimRound(o) ==
  /\ row[OpAt(o)].own = o /\ o \in live
  /\ Running(row[OpAt(o)]) /\ row[OpAt(o)].rev = call[o].cas.rev

\* DSHProviderFinishContext: the first to finish a context decides its code.
Finish(o, code) ==
  ctx' = IF ctx[o].finished THEN ctx ELSE [ctx EXCEPT ![o] = [finished |-> TRUE, code |-> code]]

\* settleContext.  A complete answer comes only from a request accepted.
ReplyOk(o) ==
  /\ up /\ call[o].pc = "waiting" /\ ~ctx[o].finished
  /\ ClaimRound(o) /\ net[o] = "executed"
  /\ Finish(o, "ok")
  /\ UNCHANGED <<wal, req, up, queue, live, call, heard, net, faults, crashes>>

\* Every other status line: one that proves the request was turned away, or one
\* (5xx, 408, 499) that says nothing of what the provider did.  The status is
\* kept even when the wait has just timed out.
ReplyStatus(o) ==
  /\ up /\ call[o].pc = "waiting" /\ ctx[o].code \in {"none", "timeout"}
  /\ ClaimRound(o) /\ heard[o] = "none"
  /\ \/ net[o] = "refused" /\ heard' = [heard EXCEPT ![o] = "refused"]
     \/ net[o] \in {"sent", "executed"} /\ heard' = [heard EXCEPT ![o] = "unsure"]
  /\ Finish(o, "failed")
  /\ UNCHANGED <<wal, req, up, queue, live, call, net, faults, crashes>>

\* A broken connection, an unreadable answer, a changed credential.
ReplyBroken(o) ==
  /\ up /\ call[o].pc = "waiting" /\ ~ctx[o].finished
  /\ ClaimRound(o)
  /\ Finish(o, "failed")
  /\ UNCHANGED <<wal, req, up, queue, live, call, heard, net, faults, crashes>>

\* Mutant: the wait has no bound.
TimeOutNever(o) == FALSE

\* The bounded wait (at most 900 s) ends by itself.
TimeOut(o) ==
  /\ up /\ call[o].pc = "waiting" /\ ~ctx[o].finished
  /\ Finish(o, "timeout")
  /\ UNCHANGED <<wal, req, up, queue, live, call, heard, net, faults, crashes>>

-----------------------------------------------------------------------------
(***************************************************************************)
(* Back on the queue: the call settles its round                           *)
(***************************************************************************)

\* dispatchStillCurrent: the row is still the one this call dispatched.
DispatchCurrent(o) ==
  row[OpAt(o)].st = "in_flight" /\ CASOf(row[OpAt(o)]) = call[o].cas

\* The state reconcileAgentRoundV3OwnerLoss gives this call's own round.
SettledState(o) == LostState(OpAt(o), DispatchCurrent(o) /\ RefusalProved(o, OpAt(o)))

BackFromWait(o) ==
  /\ up /\ queue = NoOp /\ call[o].pc = "waiting" /\ ctx[o].finished
  /\ queue' = o /\ live' = live \ {o}
  /\ ctx' = [ctx EXCEPT ![o] = NoContext]
  /\ heard' = [heard EXCEPT ![o] = "none"]

\* Mutant: the transcript is written before the row, not with it.
WriteAnswerFirst(f, r) == transcript' = Append(transcript, <<"assistant", r>>)

WriteAnswer(f, r) ==
  transcript' = IF Applied(f) THEN Append(transcript, <<"assistant", r>>) ELSE transcript

\* A valid answer for the current dispatch is written with its row.
SettleAnswer(o) ==
  /\ BackFromWait(o)
  /\ ctx[o].code = "ok" /\ DispatchCurrent(o)
  /\ LET r == OpAt(o) IN
     IF CanComplete(o, r)
     THEN \E f \in Outcomes :
            /\ Outcome(f)
            /\ WriteRow(f, r, Completed(r))
            /\ WriteAnswer(f, r)
            /\ IF f = "ok" THEN Closing(o, "committed", "completed")
                           ELSE Closing(o, "ambiguous", "ambiguous")
     ELSE Closing(o, "ambiguous", "ambiguous") /\ UNCHANGED <<row, transcript, faults>>
  /\ UNCHANGED <<marker, authority, ops, req, up, net, crashes>>

\* Anything else (no answer, a stale dispatch, a changed authority or
\* credential) is reconciled as an owner loss, with the refusal as evidence.
SettleLoss(o) ==
  /\ BackFromWait(o)
  /\ LET r == OpAt(o)
         st == SettledState(o) IN
     IF Running(row[r]) /\ row[r].own \notin live \ {o}
     THEN \E f \in Outcomes :
            /\ Outcome(f)
            /\ WriteRow(f, r, LostRow(r, st))
            /\ IF st = "failed_retryable" THEN WriteMarker(f, r, "not_dispatched")
                                          ELSE UNCHANGED marker
            /\ IF f = "ok" /\ st # "ambiguous" THEN Closing(o, "committed", st)
                                               ELSE Closing(o, "ambiguous", "ambiguous")
     ELSE Closing(o, "ambiguous", "ambiguous") /\ UNCHANGED <<row, marker, faults>>
  /\ UNCHANGED <<transcript, authority, ops, req, up, net, crashes>>

\* Mutant: a round of unknown fate is answered as one that can be retried.
ReplayEndOptimistic(r) ==
  CASE row[r].st = "completed"                       -> <<"committed", "completed">>
    [] row[r].st \in {"failed_retryable", "ambiguous"} -> <<"committed", "failed_retryable">>
    [] OTHER                                         -> <<"started", "pending">>

\* Mutant: the row's state is passed on as the operation's answer.
ReplayEndVerbatim(r) == <<"unknown", row[r].st>>

\* A repeated call whose operation was left open: the row is the answer, if it
\* has one; nothing is dispatched.  (A closed operation is simply replayed.)
ReplayEnd(r) ==
  CASE row[r].st = "completed"        -> <<"committed", "completed">>
    [] row[r].st = "failed_retryable" -> <<"committed", "failed_retryable">>
    [] row[r].st = "ambiguous"        -> <<"ambiguous", "ambiguous">>
    [] row[r].st = "cancelled"        -> <<"unknown", "unknown">>
    [] OTHER                          -> <<"started", "pending">>

Replay(o) ==
  /\ up /\ queue = NoOp /\ ops[o].state = "started"
  /\ LET end == ReplayEnd(OpAt(o)) IN
     /\ end[1] # "started"
     /\ ops' = [ops EXCEPT ![o] = [state |-> end[1], answer |-> end[2]]]
  /\ UNCHANGED <<row, marker, transcript, authority, req, proc, net, faults, crashes>>

-----------------------------------------------------------------------------
(***************************************************************************)
(* Other commands, each one turn of the queue                              *)
(***************************************************************************)
WaitingOn(r) == {o \in Op : call[o].pc \in {"ready", "waiting"} /\ OpAt(o) = r}

\* cancelAgentRound, at the revision the WAL holds: the waiting call is told,
\* then the row is moved.
Cancel(r) ==
  /\ up /\ queue = NoOp /\ CanCancel(r)
  /\ ctx' = [o \in Op |-> IF o \in WaitingOn(r) /\ ~ctx[o].finished
                          THEN [finished |-> TRUE, code |-> "cancelled"] ELSE ctx[o]]
  /\ \E f \in Outcomes : Outcome(f) /\ WriteRow(f, r, CancelledRow(r))
  /\ UNCHANGED <<marker, transcript, authority, ops, req, up, queue, live, call, heard,
                 net, crashes>>

\* recoverAgentRound: a round whose owner is gone is reconciled, without any
\* evidence.
Recover(r) ==
  /\ up /\ queue = NoOp /\ CanReconcile(r)
  /\ \E f \in Outcomes : Outcome(f) /\ WriteRow(f, r, LostRow(r, LostState(r, FALSE)))
  /\ UNCHANGED <<marker, transcript, authority, ops, req, proc, net, crashes>>

\* Mutant: a round of unknown fate is handed back for another launch.
BootStateOptimistic(r) == "failed_retryable"

\* The state reconcileOwnerLossWithError gives a round without its owner.
BootState(r) == IF marker[r] = "not_dispatched" THEN "failed_retryable" ELSE "ambiguous"

\* What it insists on before it touches anything.
Bound(r) == Running(row[r]) => Len(transcript) = row[r].before

OwnerLost == [r \in Round |-> IF CanReconcile(r) THEN LostRow(r, BootState(r)) ELSE row[r]]

\* The store's own reconciliation, asked for by the execution ledger.
OwnerLoss ==
  /\ up /\ queue = NoOp
  /\ \E r \in Round : CanReconcile(r)
  /\ \A r \in Round : CanReconcile(r) => Bound(r)
  /\ row' = OwnerLost
  /\ UNCHANGED <<marker, transcript, authority, ops, req, proc, net, faults, crashes>>

\* The process dies: everything in memory is gone, requests sent stay sent.
Crash ==
  /\ up /\ crashes < MaxCrashes
  /\ crashes' = crashes + 1
  /\ up' = FALSE /\ queue' = NoOp /\ live' = {}
  /\ call' = [o \in Op |-> NoCall]
  /\ ctx' = [o \in Op |-> NoContext]
  /\ heard' = [o \in Op |-> "none"]
  /\ UNCHANGED <<wal, req, net, faults>>

\* A new process: its first use of the store reconciles lost owners, and a row
\* whose transcript moved stops it.
Boot ==
  /\ ~up
  /\ \A r \in Round : CanReconcile(r) => Bound(r)
  /\ up' = TRUE /\ row' = OwnerLost
  /\ UNCHANGED <<marker, transcript, authority, ops, req, queue, live, call, ctx, heard,
                 net, faults, crashes>>

\* The tool batch of the last completed round is settled (external: the
\* execution ledger): its feedback is appended and the authority moves on.
SettleBatch(r) ==
  /\ up /\ queue = NoOp
  /\ row[r].st = "completed" /\ r < NRounds /\ Len(transcript) = 2 * r - 1
  /\ transcript' = Append(transcript, <<"tools", r>>)
  /\ authority' = 2 * r
  /\ UNCHANGED <<row, marker, ops, req, proc, net, faults, crashes>>

-----------------------------------------------------------------------------
Handler(o) == \/ Open(o) \/ Refuse(o) \/ Create(o) \/ Claim(o) \/ NotReady(o)
              \/ NoRequestId(o) \/ Mark(o) \/ Close(o)

Wait(o) == Send(o) \/ ReplyOk(o) \/ ReplyStatus(o) \/ ReplyBroken(o) \/ TimeOut(o)

Settle(o) == SettleAnswer(o) \/ SettleLoss(o)

Next ==
  \/ \E o \in Op : Handler(o) \/ Wait(o) \/ Settle(o) \/ Replay(o)
  \/ \E o \in Op : Accept(o) \/ TurnAway(o)
  \/ \E o \in Op, r \in Round : AskRun(o, r) \/ AskRetry(o, r)
  \/ \E r \in Round : Cancel(r) \/ Recover(r) \/ SettleBatch(r)
  \/ OwnerLoss \/ Crash \/ Boot

Spec == Init /\ [][Next]_vars

\* A handler on the queue runs on; the queue is first in, first out, so a call
\* back from its wait gets its turn; the wait is bounded.
Fairness ==
  \A o \in Op :
    /\ WF_vars(queue = o /\ Handler(o))
    /\ WF_vars(Send(o)) /\ WF_vars(TimeOut(o))
    /\ SF_vars(Settle(o))

FairSpec == Spec /\ Fairness

-----------------------------------------------------------------------------
(***************************************************************************)
(* Properties                                                              *)
(***************************************************************************)

\* Every variable has its type.
TypeOK ==
  /\ row \in [Round -> Row]
  /\ marker \in [Round -> {"none", "not_dispatched", "dispatched"}]
  /\ transcript \in Seq(Author) /\ authority \in Nat
  /\ ops \in [Op -> OpRow] /\ req \in [Op -> Request]
  /\ up \in BOOLEAN /\ queue \in Op \cup {NoOp} /\ live \subseteq Op
  /\ call \in [Op -> Call] /\ ctx \in [Op -> Context]
  /\ heard \in [Op -> {"none", "refused", "unsure"}]
  /\ net \in [Op -> {"none", "sent", "executed", "refused"}]
  /\ faults \in Nat /\ crashes \in Nat

Executed(r) == {o \in Op : net[o] = "executed" /\ OpAt(o) = r}

\* A round is billed at most once, however often it is launched, retried,
\* cancelled, timed out or cut short by a crash.
BilledOnce == \A r \in Round, o, p \in Op : o \in Executed(r) /\ p \in Executed(r) => o = p

\* A request of round r that the provider accepted, or may still accept.
InPlay(r) == {o \in Op : OpAt(o) = r /\ (net[o] \in {"sent", "executed"} \/ call[o].pc = "ready")}

\* A row that offers a retry, or that says the round was cancelled, tells the
\* truth: no request of this round ran or can still run.
StoppedNeverRan ==
  \A r \in Round : row[r].st \in {"failed_retryable", "cancelled"} => InPlay(r) = {}

\* The relation wal_state.rs demands between rows and markers; a reducer that
\* broke it would have its commit refused and the store would call it corrupt.
DispatchRelation ==
  \A r \in Round :
    /\ row[r].st \in {"failed_retryable", "cancelled"} => marker[r] = "not_dispatched"
    /\ row[r].st = "completed" => marker[r] = "dispatched"
    /\ row[r].st = "absent" <=> marker[r] = "none"

Written(r) == Cardinality({i \in 1..Len(transcript) : transcript[i] = <<"assistant", r>>})

\* A round's answer is in the transcript exactly once when its row is completed
\* and never otherwise, rounds in order, each paid for by one execution.
AnsweredOnce ==
  /\ \A r \in Round : Written(r) = IF row[r].st = "completed" THEN 1 ELSE 0
  /\ \A r \in Round : row[r].st = "completed" => Executed(r) # {}
  /\ \A i, j \in 1..Len(transcript) : i < j => transcript[i][2] <= transcript[j][2]

\* What was committed as an operation's answer is still true of its round.
AnswersHold ==
  \A o \in Op :
    /\ ops[o].answer = "completed" => row[OpAt(o)].st = "completed"
    /\ ops[o].answer \in {"failed_retryable", "cancelled"} => net[o] \notin {"sent", "executed"}

\* Whenever the process dies, the next one can reconcile: no running row has
\* seen its transcript move.
BootSucceeds == \A r \in Round : Bound(r)

\* A round that may have run is never launched again, and a settled one never
\* leaves its state.
TerminalStays ==
  [][\A r \in Round : row[r].st \in {"completed", "cancelled", "ambiguous"}
                        => row'[r] = row[r]]_vars

\* Every call comes back to its caller, whatever the provider does.
CallReturns == \A o \in Op : call[o].pc # "idle" ~> call[o].pc = "idle"

=============================================================================
