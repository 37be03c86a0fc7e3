----------------------------- MODULE Completion -----------------------------
(***************************************************************************)
(* The completion controller of one conversation                           *)
(* (completion/CompletionController.ts): the commands of the user, the     *)
(* awaits of every run they start (AgentTurn), the document on disk, and   *)
(* the native agent runtime as the controller sees it.                     *)
(*                                                                         *)
(* Commands are taken as the screen offers them (screens/HomeScreen.tsx).  *)
(* Saves are answered in order, native calls in any order, and any of them *)
(* may fail or lose its answer, with or without its effect.  Nothing but   *)
(* the document and the native evidence survives the process.  Previews,   *)
(* and the capacity of the event log are left out.                         *)
(***************************************************************************)
EXTENDS AgentRuntime

CONSTANTS
  MaxAsks,     \* bound: commands of the user
  MaxFaults    \* bound: calls that fail and processes that die

ASSUME BoundsAssumption == {MaxAsks, MaxFaults} \subseteq Nat

VARIABLES
  app,     \* the controller and the chat store, gone with the process
  disk,    \* the saved document
  nat,     \* native evidence of each attempt
  said,    \* history: calls the user allowed
  wished,  \* history: epochs of the runs the user asked to cancel
  asks, faults

vars == <<app, disk, nat, said, wished, asks, faults>>

Attempts == 1 .. MaxAsks
NoPrep == [ep |-> 0, n |-> 0, dur |-> "none", mem |-> << >>]

\* A controller over a document.  run, runOf: agentRun; auth: the round whose
\* batch and tokens it holds; req: requestedAgentCancellationEpoch; flight:
\* agentCancellationInFlight; ok: lastCancellationCommitted; read:
\* pendingAgentRecoveryRead; epochs count from 1, and 0 stands for null.  kind:
\* the conversation has a workspace, a project without a root, or neither.
Fresh(kind, doc, ph, n) ==
  [kind |-> kind, phase |-> ph, at |-> n, epoch |-> 0, mem |-> doc, waits |-> << >>,
   run |-> 0, runOf |-> 0, auth |-> 0, slot |-> NoPending, ack |-> NoPending,
   prep |-> NoPrep, term |-> NoTerm, act |-> 0, commit |-> 0, recommit |-> FALSE,
   req |-> 0, flight |-> 0, ok |-> TRUE, retrying |-> FALSE, read |-> 0]

Taken(a, k)  == [a EXCEPT !.waits = SubSeq(@, 1, k - 1) \o SubSeq(@, k + 1, Len(@))]
NothingPending(a) == /\ a.slot = NoPending /\ a.ack = NoPending
                     /\ a.prep = NoPrep /\ a.term = NoTerm
----------------------------------------------------------------------------
(* Cancelling.                                                              *)

\* cancelAgentRun, up to its first save.
CancelRun(a, c) ==
  LET att == a.mem[c.n]
  IN IF ~IsAgent(att) THEN Done(a, c)
     ELSE IF ~CanAsk(att.jr) \/ Interrupted(att)
     THEN Done(Publish([a EXCEPT !.ok = FALSE], "blocked", c.n), c)
     ELSE Save(Publish(a, "cancelling", c.n), c, "cancel", With(att, Asked(att.jr)), Then("asked"))

\* Mutant: nothing is cleaned up when the cancellation ends.
SettleBare(a, c) ==
  IF a.run = 0 \/ a.flight = a.run THEN Done(a, c)
  ELSE CancelRun([a EXCEPT !.req = 0, !.flight = a.run, !.ok = FALSE], Context(a.runOf, a.run, c.who))

\* settleAgentCancellation; "c" is its caller, who goes on when it has ended.
Settle(a, c) ==
  IF a.run = 0 \/ a.flight = a.run THEN Done(a, c)
  ELSE CancelRun([a EXCEPT !.req = 0, !.flight = a.run, !.ok = FALSE],
                 Context(a.runOf, a.run, {"settle"} \cup c.who))

\* The rest of cancelAgentRun, when native answered.
StopAnswered(a, w, r) ==
  LET c == w.c
      j == Stopped(w.was.jr, r.ans)
  IN IF r.ans \in {"throw", "conflict"} THEN Done([a EXCEPT !.ok = FALSE], c)
     ELSE IF a.mem[c.n] # w.was THEN Fail(a, c)
     ELSE Journal(a, c, "cancel", j, Then(IF r.ans = "cancelled" THEN "stopped" ELSE "unsettled"))
----------------------------------------------------------------------------
(* Recovery.                                                                *)

\* recoverAgentRunImpl, up to the query.
Recover(a, n) ==
  LET c == Context(n, a.epoch + 1, {"recover"})
      b == [a EXCEPT !.epoch = c.ep, !.run = c.ep, !.runOf = n, !.auth = 0, !.read = c.ep]
  IN Call(Publish(b, "recovering", n), c, "query", NoThen)

QueryAnswered(a, w, r) ==
  LET b == [a EXCEPT !.read = IF @ = w.c.ep THEN 0 ELSE @]
  IN IF a.epoch # w.c.ep THEN Done(b, w.c)
     ELSE IF r.ans # "ok" THEN Done(Publish(b, "resume_available", w.c.n), w.c)
     ELSE Call(b, w.c, "recover", NoThen)

\* finishRecoveredFinal: the answer native had kept ends the turn.
FinishRecovered(a, w) ==
  IF a.mem[w.c.n] # w.was THEN Fail(a, w.c)
  ELSE Journal(Publish(a, "finalizing", w.c.n), w.c, "final", Concluded(w.was.jr, "final_response"), Then("over"))

\* What native made of it.  A final answer finishes the turn,
\* anything else becomes the journal if the reducer
\* takes it.
RecoverAnswered(a, w, r) ==
  LET c == w.c
      step == IF r.ans = "manual" THEN r.ans ELSE r.next
  IN CASE r.ans \in {"throw", "conflict"} -> Done(Publish(a, "resume_available", c.n), c)
       [] r.ans = "retryable"             -> Done(Publish(a, "retryable", c.n), c)
       [] r.ans \in {"ok", "manual"} /\ step = "persist_final" ->
            FinishRecovered(a, w)
       [] r.ans \in {"ok", "manual"} /\ step # "persist_final" ->
            IF a.mem[c.n] = w.was /\ CanRecover(w.was.jr, r.jr, step)
            THEN Save(a, c, "checkpoint", With(w.was, r.jr), [Then("recovered") EXCEPT !.d = r.ans])
            ELSE Done(Publish(a, "resume_available", c.n), c)

\* Its continuation after the recovered journal was saved.
Recovered(a, c, then) ==
  LET j == a.mem[c.n].jr
      b == [a EXCEPT !.auth = IF a.run # 0 /\ j.calls # << >> THEN j.rnd ELSE @]
  IN CASE j.ph \in {"ready_for_round", "tool_result_pending"} -> RunRound(b, c)
       [] j.ph \in {"batch_frozen", "approval_pending"}       -> RunBatch(b, c)
       [] OTHER -> Done(Publish(b, IF then.d = "manual" THEN "resume_available" ELSE "retryable", c.n), c)
----------------------------------------------------------------------------
(* Saves.                                                                   *)

\* What a checkpoint was saved for.
Continue(a, c, then) ==
  CASE then.at = "started"   -> RunRound(a, c)
    [] then.at = "launched"  -> RoundLaunched(a, c)
    [] then.at = "held"      -> Done(Publish(a, "resume_available", c.n), c)
    [] then.at = "lost"      -> Done(Publish(a, "retryable", c.n), c)
    [] then.at = "answered"  -> Call(a, c, "freeze", NoThen)
    [] then.at = "frozen"    -> RunBatch(a, c)
    [] then.at = "decided"   -> Call(a, c, "bind", then)
    [] then.at = "bound"     -> DecisionCommitted(a, c, then)
    [] then.at = "intended"  -> Call(a, c, "execute", then)
    [] then.at = "recorded"  -> ResultRecorded(a, c)
    [] then.at = "recovered" -> Recovered(a, c, then)
    [] then.at = "over"      -> Finalize(a, c)
    [] then.at = "asked"     -> Call(a, c, "stop", NoThen)
    [] then.at = "stopped"   -> Finalize([a EXCEPT !.ok = TRUE], c)
    [] then.at = "unsettled" -> Done(Publish([a EXCEPT !.ok = FALSE], "retryable", c.n), c)
    [] then.at = "abandoned" -> IF then.live THEN Call(a, [c EXCEPT !.who = @ \cup {"abandon"}], "interrupt", NoThen)
                                ELSE Done(a, c)

\* safeAgentPersist, when its save is answered.  "same": the slot is still
\* this save's.
SlotAnswered(a, w, s) ==
  LET c == w.c
      same == a.slot = w.p
      b == IF s \in {"committed", "refused"} THEN Installed(a) ELSE a
      free == TxSettled(IF same THEN [b EXCEPT !.slot = NoPending] ELSE b, w.p)
  IN IF a.epoch # c.ep THEN Done(b, c)
     ELSE IF s = "unknown" THEN Done(Publish(b, "persistence_pending", c.n), c)
     ELSE IF s # "committed" \/ ~Accepted(a, w)
     THEN Done(Publish(RolledBack(free, w.p), "blocked", c.n), c)
     ELSE IF w.p.kind = "checkpoint" /\ a.req = c.ep THEN Settle(free, c)
     ELSE Continue(free, c, w.p.then)

\* acknowledgeAgentCleanup, when its save is answered, and the same in
\* retryPersistence, which asks for no epoch and stays silent.
AckAnswered(a, w, s) ==
  LET c == w.c
      again == w.on = "ackAgain"
      b == IF s \in {"committed", "refused"} THEN Installed(a) ELSE a
      free == TxSettled(IF a.ack = w.p THEN [b EXCEPT !.ack = NoPending] ELSE b, w.p)
  IN IF a.epoch # c.ep /\ ~again THEN Done(b, c)
     ELSE IF s \in {"unknown", "not_committed"}
     THEN Done(IF again THEN b ELSE Publish(b, "persistence_pending", c.n), c)
     ELSE IF s = "refused" \/ ~Accepted(a, w)
     THEN Done(Publish(RolledBack(free, w.p), "blocked", c.n), c)
     ELSE Done(Publish([free EXCEPT !.run = 0], "idle", 0), c)

\* The preparation's own rollback, of a memory that nobody changed: the attempt
\* was never there.
Unprepared(a, prep) == IF a.mem = prep.mem THEN [a EXCEPT !.mem = SubSeq(@, 1, prep.n - 1)] ELSE a

\* continuePreparation.
PrepAnswered(a, w, s) ==
  LET c == w.c
      b == IF s = "committed" THEN Installed(a) ELSE a
      free == [b EXCEPT !.prep = NoPrep]
  IN IF a.epoch # c.ep
     THEN IF s = "not_committed" THEN Done(Publish([Unprepared(free, a.prep) EXCEPT !.ok = TRUE], "idle", 0), c)
          ELSE IF Unfinished(a.mem[c.n]) THEN PersistTerminal(free, c, "cancelled")
          ELSE Done(Publish([free EXCEPT !.ok = FALSE], "blocked", c.n), c)
     ELSE CASE s = "not_committed" -> Done(Publish(Unprepared(free, a.prep), "blocked", 0), c)
            [] s = "unknown" -> Done(Publish([b EXCEPT !.prep.dur = "unknown"], "persistence_pending", c.n), c)
            [] s = "committed" -> Run(free, c)

\* failAgentWithoutNative, when its save is answered.
FailAnswered(a, w, s) ==
  Done(Publish(IF s = "committed" THEN Installed(a) ELSE a,
               IF s = "committed" THEN "retryable" ELSE "persistence_pending", w.c.n), w.c)

\* drainInterruptedAgentCleanup: the outbox of the last launch, one entry
\* after the other.  An entry that native refuses waits for the next launch.
\* The acknowledgement is saved over the document the entry was read from.
Left(mem, from) == {n \in from .. Len(mem) : mem[n].residue /\ ~Unfinished(mem[n])}
Sweep(a, c) ==
  [a EXCEPT !.waits = Append(@, [on |-> "sweep", c |-> c, p |-> [NoPending EXCEPT !.tx.state = "open"],
                                 doc |-> << >>, was |-> a.mem[c.n], arg |-> NoThen])]
Drain(a, from) == IF Left(a.mem, from) = {} THEN a
                  ELSE Sweep(a, Context(Min(Left(a.mem, from)), a.epoch, {}))

SweepAnswered(a, w, r) ==
  LET n == w.c.n
      tx == [w.p.tx EXCEPT !.before = a.mem[n], !.next = [a.mem EXCEPT ![n].residue = FALSE]]
      p == [w.p EXCEPT !.n = n, !.kind = "ack", !.tx = tx]
  IN IF r.ans # "ok" \/ ~a.mem[n].residue THEN Drain(a, n + 1)
     ELSE Saving([a EXCEPT !.mem = tx.next], w.c, "swept", p)

SweptAnswered(a, w, s) ==
  LET b == IF s \in {"committed", "refused"} THEN Installed(a) ELSE a
  IN CASE s = "committed" /\ Accepted(a, w)             -> Drain(b, w.c.n + 1)
       [] s \in {"unknown", "not_committed"}            -> RolledBack(b, w.p)
       [] OTHER                                         -> b

SaveAnswer(a, w, s) ==
  LET plain == IF s = "refused" THEN "committed" ELSE s
  IN CASE w.on = "slot"                -> SlotAnswered(a, w, s)
       [] w.on \in {"ack", "ackAgain"} -> AckAnswered(a, w, s)
       [] w.on = "prep"                -> PrepAnswered(a, w, plain)
       [] w.on = "term"                -> TermAnswered(a, w, plain)
       [] w.on = "fail"                -> FailAnswered(a, w, plain)
       [] w.on = "mark"                -> MarkAnswered(a, w, plain)
       [] w.on = "commit"              -> CommitAnswered(a, w, plain)
       [] w.on = "recommit"            -> RecommitAnswered(a, w, plain)
       [] w.on = "swept"               -> SweptAnswered(a, w, s)
----------------------------------------------------------------------------
(* Native calls.                                                            *)

\* What a call does when nothing goes wrong, and what it answers; nothing yet
\* where it has still to be launched.
Effects(x, w) ==
  LET d == IF w.c.n \in DOMAIN disk THEN disk[w.c.n] ELSE NewAttempt
  IN CASE w.on = "prepare"   -> PrepareAttempt(x, w.c.n \in DOMAIN disk, app.kind)
       [] w.on = "round"     -> CompleteRound(x, w)
       [] w.on = "freeze"    -> FreezeBatch(x, w, d)
       [] w.on = "bind"      -> BindApproval(x, w, d)
       [] w.on = "execute"   -> ExecuteTool(x, w, d)
       [] w.on = "finalize"  -> FinalizeAttempt(x, w, d)
       [] w.on = "discard"   -> DiscardAttempt(x)
       [] w.on \in {"interrupt", "sweep"} -> InterruptAttempt(x, d)
       [] w.on = "query"     -> QueryAttempt(x, w, d)
       [] w.on = "recover"   -> RecoverAttempt(x, w, d)
       [] w.on = "stop"      -> CancelAttempt(x, w, d)
       [] w.on = "complete"  -> {Did(x, s) : s \in {"text", "bad"}}
       [] w.on = "withdraw"  -> {Did(x, "ok")}

Launches(x, w) == Launched(x, w, disk[w.c.n])

\* What it does when something does: the answer is lost, before or after the
\* effect, or native cannot tell, or refuses.
Mishaps(x, w) ==
  {Did(x, "throw"), Did(x, "conflict")}
  \cup {Did(e.x, "throw") : e \in Effects(x, w)}
  \cup (IF w.on = "round" THEN RoundLost(x, w) ELSE {})
  \cup (IF w.on = "execute" THEN ToolLost(x, w) ELSE {})

Native == {"prepare", "round", "freeze", "bind", "execute", "finalize", "discard", "interrupt",
           "sweep", "query", "recover", "stop", "complete", "withdraw"}

NativeAnswer(a, w, r) ==
  CASE w.on = "prepare"   -> PrepareAnswered(a, w, r)
    [] w.on = "round"     -> RoundAnswered(a, w, r)
    [] w.on = "freeze"    -> FreezeAnswered(a, w, r)
    [] w.on = "bind"      -> BindAnswered(a, w, r)
    [] w.on = "execute"   -> ExecuteAnswered(a, w, r)
    [] w.on = "finalize"  -> FinalizeAnswered(a, w, r)
    [] w.on = "discard"   -> DiscardAnswered(a, w, r)
    [] w.on = "interrupt" -> InterruptAnswered(a, w, r)
    [] w.on = "sweep"     -> SweepAnswered(a, w, r)
    [] w.on = "query"     -> QueryAnswered(a, w, r)
    [] w.on = "recover"   -> RecoverAnswered(a, w, r)
    [] w.on = "stop"      -> StopAnswered(a, w, r)
    [] w.on = "complete"  -> CompleteAnswered(a, w, r)
    [] w.on = "withdraw"  -> WithdrawAnswered(a, w)
----------------------------------------------------------------------------
(* Steps.                                                                   *)

Init == /\ \E kind \in {"workspace", "rootless", "plain"} : app = Fresh(kind, << >>, "idle", 0)
        /\ disk = << >>
        /\ nat = [n \in Attempts |-> Untouched]
        /\ said = {} /\ wished = {}
        /\ asks = 0 /\ faults = 0

Fault == faults < MaxFaults /\ faults' = faults + 1

\* The first save that is waiting is performed and answered.  A cancellation
\* whose mark is taken back, and shown as "blocked", is undone.
FirstSave(a) == SelectInSeq(a.waits, LAMBDA w : w.doc # << >>)

SaveAnswered ==
  LET k == FirstSave(app)
      w == app.waits[k]
      stale == w.on = "swept" /\ w.p.tx.state # "open"
      undone == w.on = "slot" /\ w.p.kind = "cancel" /\ app'.phase = "blocked"
      Told(s) == app' = SaveAnswer(Taken(app, k), w, s)
  IN /\ k # 0
     /\ \/ ~stale /\ disk' = w.doc /\ UNCHANGED faults /\ Told("committed")
        \/ ~stale /\ disk' = w.doc /\ Fault /\ Told("refused")
        \/ ~stale /\ disk' \in {disk, w.doc} /\ Fault /\ Told("unknown")
        \/ ~stale /\ disk # w.doc /\ UNCHANGED disk /\ Fault /\ Told("not_committed")
        \/ stale /\ UNCHANGED <<disk, faults>> /\ Told("not_committed")
     /\ wished' = IF undone THEN wished \ {w.c.ep} ELSE wished
     /\ UNCHANGED <<nat, said, asks>>

\* A round or a tool call starts to work.
NativeLaunched ==
  \E w \in Range(app.waits) :
    /\ w.on \in {"round", "execute"}
    /\ \E y \in Launches(nat[w.c.n], w) : nat' = [nat EXCEPT ![w.c.n] = y]
    /\ UNCHANGED <<app, disk, said, wished, asks, faults>>

\* A native call takes effect and is answered.
NativeAnswered ==
  \E k \in DOMAIN app.waits :
    LET w == app.waits[k]
        x == nat[w.c.n]
    IN /\ w.on \in Native
       /\ \/ \E e \in Effects(x, w) : /\ nat' = [nat EXCEPT ![w.c.n] = e.x]
                                     /\ app' = NativeAnswer(Taken(app, k), w, e.r)
                                     /\ UNCHANGED faults
          \/ \E e \in Mishaps(x, w) : /\ nat' = [nat EXCEPT ![w.c.n] = e.x]
                                     /\ app' = NativeAnswer(Taken(app, k), w, e.r)
                                     /\ Fault
       /\ UNCHANGED <<disk, said, wished, asks>>

\* The members of a set of numbers in order, as the one element of a set.
Listed(S) == {s \in [1 .. Cardinality(S) -> S] : \A i, j \in DOMAIN s : i < j => s[i] < s[j]}

\* The user answers an approval list, each call for itself; a list that was
\* left open by a cancellation is answered all the same, and goes on.
UserDecides ==
  \E k \in DOMAIN app.waits :
    LET w == app.waits[k]
        cs == w.was.jr.calls
    IN /\ w.on = "approve"
       /\ \E open \in Listed({i \in DOMAIN cs : Open(cs[i]) /\ Pending(cs[i])}) :
          \E d \in [DOMAIN open -> {"allowed", "denied"}] :
            /\ app' = ApproveAnswered(Taken(app, k), w, [m \in DOMAIN open |-> [i |-> open[m], d |-> d[m]]])
            /\ said' = said \cup {<<w.c.n, w.was.jr.rnd, open[m]>> : m \in {m \in DOMAIN open : d[m] = "allowed"}}
       /\ wished' = wished \ {w.c.ep}
       /\ UNCHANGED <<disk, nat, asks, faults>>
----------------------------------------------------------------------------
(* Commands, where the screen offers them and the controller is not busy.    *)

Command == asks < MaxAsks /\ asks' = asks + 1 /\ UNCHANGED <<disk, nat, said, faults>>
Asking  == Command /\ UNCHANGED wished
Wishing == Command /\ wished' = wished \cup {IF app.run = 0 THEN app.epoch ELSE app.run}
Idle   == /\ app.run = 0 /\ app.act = 0 /\ NothingPending(app) /\ ~app.retrying
          /\ app.commit = 0 /\ app.phase # "cancelling"

Send == /\ Asking /\ Idle /\ app.phase \in {"idle", "blocked", "retryable"}
        /\ LET a == [app EXCEPT !.epoch = @ + 1]
           IN app' = IF CanSend(a.mem) THEN Begin(a, Context(0, a.epoch, {}))
                     ELSE Publish(a, "blocked", 0)

\* retry: the journal is recovered, or the turn is asked again.
Retry == /\ Asking /\ Idle
         /\ \E n \in DOMAIN app.mem :
              /\ \/ app.phase = "retryable" /\ app.at = n
                 \/ app.phase = "idle" /\ n = Len(app.mem) /\ Refused(app.mem[n])
              /\ LET a == [app EXCEPT !.epoch = @ + 1]
                 IN app' = IF IsAgent(app.mem[n]) /\ ~Interrupted(app.mem[n]) /\ ~Refused(app.mem[n])
                           THEN Recover(app, n)
                           ELSE IF CanRetry(a.mem, n) THEN Begin(a, Context(n, a.epoch, {}))
                           ELSE Publish(a, "blocked", n)

Resume == /\ Asking /\ Idle /\ app.phase = "resume_available"
          /\ LET n == app.at
                 a == [app EXCEPT !.epoch = @ + 1]
             IN app' = IF IsAgent(app.mem[n]) /\ ~Interrupted(app.mem[n]) THEN Recover(app, n)
                       ELSE IF app.mem[n].st = "prepared" THEN Run(a, Context(n, a.epoch, {}))
                       ELSE Publish(app, "blocked", n)

\* abandonAndRetry: the attempt is given up on, on disk, before its evidence
\* is interrupted and the turn is asked again.
AbandonAndRetry ==
  /\ Asking /\ Idle /\ app.phase \in {"retryable", "resume_available"}
  /\ LET n == app.at
         c == Context(n, app.epoch + 1, {})
     IN /\ app.mem[n].jr.ph \in {"unknown", "ambiguous"}
        /\ app' = IF Interrupted(app.mem[n]) THEN Publish([app EXCEPT !.epoch = @ + 1], "blocked", n)
                  ELSE Save([app EXCEPT !.epoch = @ + 1], c, "checkpoint", Abandoned(app.mem[n]),
                            Then("abandoned"))

\* retryPersistence: the same save again, in the order slot, cleanup,
\* terminal, preparation.  What the first save was to go on with inside a
\* function that is gone is not there any more ("live").  Bound: a preparation
\* whose first save is still on its way is not saved again.
OnItsWay(a) == a.slot = NoPending /\ a.ack = NoPending /\ a.term = NoTerm /\ a.prep # NoPrep
               /\ a.prep.dur = "none"
Silent(p) == [p EXCEPT !.then.live = FALSE]
RetryPersistence ==
  /\ Asking /\ app.phase = "persistence_pending" /\ ~app.retrying /\ ~OnItsWay(app)
  /\ LET a == [app EXCEPT !.retrying = TRUE, !.slot = IF @ = NoPending THEN @ ELSE Silent(@)]
         who == {"retry"}
     IN app' = CASE a.slot # NoPending -> Saving(a, Context(a.slot.n, a.slot.ep, who), "slot", a.slot)
                 [] a.slot = NoPending /\ a.ack # NoPending ->
                      Saving(a, Context(a.ack.n, a.ack.ep, who), "ackAgain", a.ack)
                 [] a.slot = NoPending /\ a.ack = NoPending /\ a.term # NoTerm ->
                      Saving(a, Context(a.term.n, a.epoch, who), "term", NoPending)
                 [] a.slot = NoPending /\ a.ack = NoPending /\ a.term = NoTerm /\ a.prep # NoPrep ->
                      Saving(a, Context(a.prep.n, a.prep.ep, who), "prep", NoPending)
                 [] OTHER -> app

\* retryCommit.
RetryCommit == /\ Asking /\ app.phase = "commit_pending" /\ app.commit # 0 /\ ~app.recommit
               /\ app' = Saving([app EXCEPT !.recommit = TRUE], Context(app.commit, app.epoch, {"recommit"}),
                                "recommit", NoPending)

\* cancel; a recovery that is still at its query is just let go of.
QueryOf(a) == SelectInSeq(a.waits, LAMBDA w : w.on = "query" /\ w.c.ep = a.read)
Cancelled(a) ==
  LET n == a.prep.n
      a1 == [a EXCEPT !.epoch = @ + 1]
  IN CASE a.read # 0 /\ a.run = a.read ->
            [Publish(Taken(a1, QueryOf(a)), "resume_available", a.runOf) EXCEPT !.run = 0, !.read = 0, !.ok = FALSE]
       [] a.run # 0 /\ a.run # a.read ->
            LET b == [a EXCEPT !.req = a.run, !.ok = FALSE]
            IN IF a.slot # NoPending \/ ~IsAgent(a.mem[a.runOf]) THEN Publish(b, "cancelling", a.runOf)
               ELSE Settle(b, Context(a.runOf, a.run, {}))
       [] a.run = 0 /\ a.act # 0 ->
            Call(Publish([a1 EXCEPT !.act = 0], "cancelling", a.act), Context(a.act, a1.epoch, {}),
                 "withdraw", NoThen)
       [] a.run = 0 /\ a.act = 0 /\ a.prep = NoPrep -> Publish([a1 EXCEPT !.ok = TRUE], "idle", 0)
       [] a.run = 0 /\ a.act = 0 /\ a.prep # NoPrep ->
            IF a.prep.dur = "none" \/ a.retrying THEN Publish(a1, "cancelling", n)
            ELSE IF Unfinished(a.mem[n])
            THEN PersistTerminal([a1 EXCEPT !.prep = NoPrep], Context(n, a1.epoch, {}), "cancelled")
            ELSE Publish([a1 EXCEPT !.prep = NoPrep, !.ok = FALSE], "blocked", n)

Cancel == /\ Wishing /\ app.term = NoTerm /\ app.ack = NoPending /\ app.commit = 0
          /\ app.phase \in {"preparing", "starting", "sending", "approval_pending", "executing", "recovering"}
          /\ app' = Cancelled(app)

\* beforeConversationChange: a run that holds nothing pending is cancelled.
Leave == /\ Wishing /\ NothingPending(app) /\ app.commit = 0 /\ app.phase # "cancelling"
         /\ app.run # 0 \/ app.act # 0
         /\ app' = Cancelled(app)

\* reconcileHydrated: what the last attempt looks like to somebody who has
\* just opened the conversation.
Shown(doc) ==
  LET n == Len(doc)
      att == doc[n]
  IN IF n = 0 THEN "idle"
     ELSE IF \/ att.st = "completed"
             \/ att.st = "cancelled" /\ att.jr.ph = "cancelled"
             \/ att.st = "failed" /\ att.jr.ph = "failed" THEN "idle"
     ELSE IF IsAgent(att) /\ ~Interrupted(att) THEN "resume_available"
     ELSE IF att.st = "prepared" THEN "resume_available"
     ELSE IF att.st \in {"failed", "cancelled"} THEN "retryable" ELSE "idle"

Reopen == /\ Asking /\ app.run = 0 /\ app.act = 0 /\ NothingPending(app) /\ app.commit = 0
          /\ app.phase # "cancelling"
          /\ app' = Publish(app, Shown(app.mem), IF Shown(app.mem) = "idle" THEN 0 ELSE Len(app.mem))

\* The process ends: calls under way leave what they had done, or nothing,
\* and the next launch reads the document.
Leavings(w) == LET x == nat[w.c.n]
               IN {[nat EXCEPT ![w.c.n] = e.x] : e \in Effects(x, w) \cup Mishaps(x, w)}
                  \cup {[nat EXCEPT ![w.c.n] = y] : y \in IF w.on \in {"round", "execute"} THEN Launches(x, w) ELSE {}}
Relaunch ==
  LET k == FirstSave(app)
      left == {nat} \cup UNION {Leavings(w) : w \in {w \in Range(app.waits) : w.on \in Native}}
  IN /\ Fault
     /\ \E d \in {disk} \cup (IF k = 0 THEN {} ELSE {app.waits[k].doc}) :
          LET doc == [n \in DOMAIN d |-> Hydrated(d[n])]
          IN /\ disk' = doc
             /\ app' = Drain(Fresh(app.kind, doc, Shown(doc), IF Shown(doc) = "idle" THEN 0 ELSE Len(doc)), 1)
     /\ \E v \in left, s \in InDoubt : nat' = [n \in Attempts |-> OwnerLost(v[n], s)]
     /\ wished' = {}
     /\ UNCHANGED <<said, asks>>

Next == \/ SaveAnswered \/ NativeLaunched \/ NativeAnswered \/ UserDecides
        \/ Send \/ Retry \/ Resume \/ AbandonAndRetry \/ RetryPersistence \/ RetryCommit
        \/ Cancel \/ Leave \/ Reopen \/ Relaunch

Spec == Init /\ [][Next]_vars
----------------------------------------------------------------------------
(* Properties.                                                              *)

Calls == Seq([kind : {"auto", "ask", "bad"},
              dec  : {"none", "pending", "allowed", "denied", "cancelled"},
              rec  : {"none", "ok", "failed", "denied", "cancelled"}])
Journals == [ph : Phase, rnd : 0 .. MaxRound, rev : BOOLEAN, cur : Nat, calls : Calls,
             lin : {"none", "active", "completed", "cancelled", "failed_retryable",
                    "cancel_requested", "unknown", "ambiguous"},
             gen : Nat]
Documents == Seq([st : Status, code : {"none", "refused", "other", "interrupted"},
                  jr : Journals, residue : BOOLEAN])

\* What the controller, the chat store and the document hold: the cursor stays
\* in its batch, and a run is never ahead of the epoch it was started in.
TypeOK == /\ app.mem \in Documents /\ disk \in Documents
          /\ \A n \in DOMAIN app.mem : app.mem[n].jr.cur <= Len(app.mem[n].jr.calls)
          /\ app.phase \in {"idle", "preparing", "starting", "sending", "approval_pending", "executing",
                            "finalizing", "recovering", "cancelling", "persistence_pending",
                            "commit_pending"} \cup Resting
          /\ app.at \in 0 .. Len(app.mem)
          /\ app.run # 0 => app.run <= app.epoch /\ app.runOf \in DOMAIN app.mem
          /\ {app.act, app.commit} \subseteq 0 .. Len(app.mem)
          /\ app.commit # 0 => app.mem[app.commit].st = "completed"

\* The calls native has started.
Ran(x) == {k \in DOMAIN x.calls : x.calls[k].rec \in {"ok"} \cup Working \cup InDoubt}

\* Asked natively since the last step.
New(on) == {k \in DOMAIN app'.waits : /\ app'.waits[k].on \in on
                                      /\ app'.waits[k] \notin Range(app.waits)}

\* A native call with an effect is asked for only when the journal that
\* announces it is on disk.  Before there is a journal the attempt itself has
\* to be: one that could not be taken back from memory may be resumed, and
\* native prepares it only if it finds it saved.  The drain of the outbox asks
\* on the word of memory, and native of the document.
DispatchIsDurable ==
  [][/\ \A k \in New(Native \ {"prepare", "query", "recover", "discard", "sweep", "withdraw"}) :
          LET w == app'.waits[k]
          IN w.c.n \in DOMAIN disk' /\ disk'[w.c.n] = w.was
     /\ \A n \in Attempts : nat'[n] # Untouched => n \in DOMAIN disk']_vars

\* A call the user has to be asked for runs only if he allowed that very call
\* of that round: through the journal's decision, the bind, and recovery.
Consent ==
  \A n \in Attempts : \A i \in DOMAIN nat[n].calls :
    nat[n].calls[i].kind = "ask" /\ i \in Ran(nat[n]) => <<n, nat[n].rnd, i>> \in said

\* An attempt whose end is on disk leaves the outbox only after native threw
\* its evidence away: a lost answer, a refusal or a dead process leaves the
\* entry, or leaves nothing to release.
NativeReleased ==
  \A n \in DOMAIN disk :
    disk[n].jr.ph \in Terminal /\ ~disk[n].residue => nat[n].st \in {"none", "gone"}

\* Nobody waits for nothing: while the controller shows that something is
\* under way, a call or a save is.  Two exceptions, both consequences of what
\* PendingIsRetried is about: a cancellation that ended and left the last word
\* to a continuation that has none, and a save left in the slot by a run that
\* was cancelled while it asked for it (a recovery answered after the cancel).
Driven ==
  \/ app.phase \in Resting \cup {"idle", "persistence_pending"}
  \/ app.phase = "commit_pending" /\ app.commit # 0
  \/ \E w \in Range(app.waits) : w.on \notin {"sweep", "swept"}
  \/ app.phase = "cancelling" /\ app.run # 0 /\ app.flight = 0
  \/ app.slot # NoPending /\ app.slot.ep # app.epoch

\* A finished attempt stays finished, the way it was, and native does no more
\* of its work: no call of it runs, and no round of it is asked for, by a late
\* answer, a recovery or another launch.  Only a round that is on its way when
\* its turn is abandoned may still be sent.  While a save is to be repeated, what
\* is on disk may yet be taken back in memory.
Over(att) == \/ att.code = "interrupted"
             \/ att.jr.ph \in {"final_response", "cancelled"}
             \/ ~IsAgent(att) /\ ~Unfinished(att)
OverIsQuiet ==
  [][\A n \in DOMAIN disk \cap DOMAIN disk' :
       Over(disk[n]) /\ Over(app.mem[n]) /\ app.slot = NoPending =>
         /\ Over(disk'[n]) /\ disk'[n].st = disk[n].st /\ Over(app'.mem[n])
         /\ Interrupted(disk[n]) \/ nat'[n].rnd = nat[n].rnd
         /\ Ran(nat'[n]) \subseteq Ran(nat[n])]_vars

\* Work that a step asks for, of a run the user had asked to cancel.
Unheeded == {k \in New({"round", "execute", "complete"}) : app'.waits[k].c.ep \in wished}

\* Once the user has asked to cancel a run, it asks for no round and no
\* execution, whatever it was waiting for when he did (a save, a native call or
\* a recovery), and whether the cancellation goes through, fails, or is left
\* unconfirmed: an answer that comes late was made from the journal before the
\* cancellation's mark, and the store refuses it by its generation.  Two things
\* end the wish: the user answers the approval list the run had left open, or
\* the save of the mark is repeated, fails, and takes the mark back.
CancelIsHeard == [][app.kind # "rootless" => Unheeded = {}]_vars

\* The same in a conversation with a project and no root, whose message is
\* asked for directly once the runtime has said so.  It does not hold: the
\* answer "not_agent" starts the direct turn, and the wish to cancel that came
\* while it was awaited is dropped.
ProjectCancelIsHeard == [][app.kind = "rootless" => Unheeded = {}]_vars

\* What waits for a save can be saved again: retryPersistence has something
\* to repeat.  Not so when failAgentWithoutNative or finalizeAgent show
\* "persistence_pending" and hold nothing, or when the save of one decision of
\* a list was repeated and the loop over the others is gone.
PendingIsRetried ==
  app.phase = "persistence_pending" /\ app.waits = << >> => ~NothingPending(app)
=============================================================================
