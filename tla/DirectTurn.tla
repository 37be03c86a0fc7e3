---------------------------- MODULE DirectTurn ----------------------------
(***************************************************************************)
(* One turn of a conversation without a workspace, as the completion       *)
(* controller runs it (runLegacyPrepared and persistFailure of             *)
(* completion/CompletionController.ts): no journal and no tools.  The      *)
(* attempt is marked as sending and saved, the provider is asked once, and *)
(* the answer, the failure or the cancellation is saved in its turn.       *)
(*                                                                         *)
(* a.act is the active round (its attempt, 0 for null), a.commit the       *)
(* answer that waits to be saved, a.term the failure or cancellation that  *)
(* does.                                                                   *)
(***************************************************************************)
EXTENDS Awaits

NoTerm == [n |-> 0, succ |-> "none"]

\* persistTerminal: how an attempt ended, in memory first.
PersistTerminal(a, c, st) ==
  LET succ == IF st = "cancelled" THEN "cancelled" ELSE "retryable"
  IN Saving(Publish([a EXCEPT !.term = [n |-> c.n, succ |-> succ],
                              !.mem[c.n] = [@ EXCEPT !.st = st, !.code = IF st = "failed" THEN "other" ELSE "none"]],
                    "finalizing", c.n), c, "term", NoPending)

\* settleTerminalPersistence.
TermAnswered(a, w, s) ==
  LET stopped == a.term.succ = "cancelled"
      told == [a EXCEPT !.ok = IF stopped THEN s = "committed" ELSE @]
  IN Done(IF s = "committed" THEN Publish([Installed(told) EXCEPT !.term = NoTerm], "retryable", w.c.n)
          ELSE Publish(told, "persistence_pending", w.c.n), w.c)

\* persistFailure.
Failed(a, c) == IF IsAgent(a.mem[c.n]) \/ ~Unfinished(a.mem[c.n]) THEN Done(Publish(a, "blocked", c.n), c)
                ELSE PersistTerminal(a, c, "failed")

\* runLegacyPrepared: the round is marked, in memory and on disk.
RunDirect(a, c) ==
  LET b == Publish(a, "starting", c.n)
  IN IF a.mem[c.n].st # "prepared" \/ IsAgent(a.mem[c.n]) THEN Failed(b, c)
     ELSE Saving([b EXCEPT !.mem[c.n].st = "sending", !.act = c.n], c, "mark", NoPending)

\* The provider is asked, once the mark is on disk.
MarkAnswered(a, w, s) ==
  LET c == w.c
      b == IF s = "committed" THEN Installed(a) ELSE a
  IN IF a.epoch # c.ep THEN Done(b, c)
     ELSE IF s # "committed" \/ a.mem[c.n].st # "sending" THEN Failed([b EXCEPT !.act = 0], c)
     ELSE Call(Publish(b, "sending", c.n), c, "complete", NoThen)

\* Mutant: an answer is taken whoever still waits for it.
CompleteTrusted(a, w, r) ==
  LET b == [a EXCEPT !.act = 0]
  IN IF r.ans # "text" THEN Failed(b, w.c)
     ELSE Saving(Publish([b EXCEPT !.mem[w.c.n].st = "completed", !.commit = w.c.n],
                         "finalizing", w.c.n), w.c, "commit", NoPending)

\* It answered with a text, with something a direct turn has no use for, or
\* not at all; an answer that comes after a cancellation is dropped.
CompleteAnswered(a, w, r) ==
  LET c == w.c
      b == [a EXCEPT !.act = 0]
  IN IF a.epoch # c.ep THEN Done(a, c)
     ELSE IF r.ans # "text" \/ a.mem[c.n].st # "sending" THEN Failed(b, c)
     ELSE Saving(Publish([b EXCEPT !.mem[c.n].st = "completed", !.commit = c.n],
                         "finalizing", c.n), c, "commit", NoPending)

\* The answer was saved, or waits in pendingCommit.
CommitAnswered(a, w, s) ==
  LET c == w.c
      b == IF s = "committed" THEN Installed(a) ELSE a
  IN IF a.epoch # c.ep THEN Done(b, c)
     ELSE Done(IF s = "committed" THEN Publish([b EXCEPT !.commit = 0], "idle", 0)
               ELSE Publish(b, "commit_pending", c.n), c)

\* retryCommit, when its save is answered.
RecommitAnswered(a, w, s) ==
  Done(IF s = "committed" THEN Publish([Installed(a) EXCEPT !.commit = 0], "idle", 0) ELSE a, w.c)

\* The rest of cancel, whatever native made of it.
WithdrawAnswered(a, w) ==
  IF Unfinished(a.mem[w.c.n]) THEN PersistTerminal(a, w.c, "cancelled")
  ELSE Done(Publish([a EXCEPT !.ok = FALSE], "blocked", w.c.n), w.c)
=============================================================================
