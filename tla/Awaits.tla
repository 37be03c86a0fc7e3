------------------------------ MODULE Awaits ------------------------------
(***************************************************************************)
(* What the runs of the completion controller are made of                  *)
(* (completion/CompletionController.ts): awaits, transactions on the chat  *)
(* store with one pending slot, and what is left to do when a run ends.    *)
(*                                                                         *)
(* No state of its own.  "a" is the controller with the memory it works    *)
(* on, and an operator returns the next one: everything the code does      *)
(* between two awaits.  An await is an entry of a.waits, with the context  *)
(* "c" its continuation runs in: the attempt, the epoch (runEpoch) and the *)
(* functions that still have a "finally" to run.                           *)
(***************************************************************************)
EXTENDS AttemptJournal

\* "open": it may still be committed; "late": another save was installed since;
\* "settled": it was committed or rolled back.
NoTx      == [before |-> NewAttempt, next |-> << >>, state |-> "settled"]
NoThen    == [at |-> "none", i |-> 0, d |-> "none", more |-> << >>, live |-> TRUE]
NoPending == [ep |-> 0, n |-> 0, tx |-> NoTx, kind |-> "none", then |-> NoThen]
Then(at)  == [NoThen EXCEPT !.at = at]
Context(n, ep, who) == [n |-> n, ep |-> ep, who |-> who]

\* The phases after which a run that left nothing pending lets go of its owner.
Resting == {"blocked", "retryable", "resume_available"}
----------------------------------------------------------------------------
(* Awaits and what the user sees.                                           *)

Publish(a, ph, n) == [a EXCEPT !.phase = ph, !.at = n]

\* A native call, or a question to the user.
Call(a, c, on, arg) ==
  [a EXCEPT !.waits = Append(@, [on |-> on, c |-> c, p |-> NoPending, doc |-> << >>,
                                 was |-> a.mem[c.n], arg |-> arg])]

\* safePersist: the whole document, as it is now.
Saving(a, c, on, p) ==
  [a EXCEPT !.waits = Append(@, [on |-> on, c |-> c, p |-> p, doc |-> a.mem,
                                 was |-> NewAttempt, arg |-> NoThen])]

\* safeAgentPersist takes the one pending slot and saves.
Save(a, c, kind, att, then) ==
  LET next == [a.mem EXCEPT ![c.n] = att]
      p    == [ep |-> c.ep, n |-> c.n, kind |-> kind, then |-> then,
               tx |-> [before |-> a.mem[c.n], next |-> next, state |-> "open"]]
  IN Saving([a EXCEPT !.mem = next, !.slot = p], c, "slot", p)

\* What a transaction may still own: the attempt, or the whole outbox.
Outbox(mem) == {n \in DOMAIN mem : mem[n].residue}
Owns(a, p)  == IF p.kind = "ack" THEN Outbox(a.mem) = Outbox(p.tx.next)
               ELSE a.mem[p.n] = p.tx.next[p.n]

\* transaction.commit: the document saved is the transaction's, it is the one
\* after the document the transaction was made from, and memory still has it.
Accepted(a, w) == w.p.tx.state = "open" /\ w.doc = w.p.tx.next /\ Owns(a, w.p)

\* transaction.rollback: what the transaction owns, and no more, once.
RolledBack(a, p) ==
  IF p.tx.state = "settled" \/ ~Owns(a, p) THEN a
  ELSE IF p.kind = "ack" THEN [a EXCEPT !.mem[p.n].residue = TRUE]
  ELSE [a EXCEPT !.mem[p.n] = p.tx.before]

\* Another save became the latest one: older transactions can no longer
\* prove that theirs was the next.
Outdated(p) == [p EXCEPT !.tx.state = IF @ = "open" THEN "late" ELSE @]
Installed(a) == [a EXCEPT !.slot = Outdated(@), !.ack = Outdated(@),
                          !.waits = [k \in DOMAIN a.waits |-> [a.waits[k] EXCEPT !.p = Outdated(@)]]]

\* A transaction is settled for everyone who holds it: the slot, and a save
\* that repeats another one which is still on its way.
SameTx(p, q)  == /\ p.ep = q.ep /\ p.n = q.n /\ p.kind = q.kind
                 /\ p.tx.before = q.tx.before /\ p.tx.next = q.tx.next
Closed(q, p)  == IF SameTx(q, p) THEN [q EXCEPT !.tx.state = "settled"] ELSE q
TxSettled(a, p) == [a EXCEPT !.slot = Closed(@, p), !.ack = Closed(@, p),
                           !.waits = [k \in DOMAIN a.waits |-> [a.waits[k] EXCEPT !.p = Closed(@, p)]]]

\* retryAttempt or prepareTurnAttempt, then beginTransaction.
Begin(a, c) ==
  LET m == Append(a.mem, NewAttempt)
      d == Context(Len(m), c.ep, {})
  IN Saving(Publish([a EXCEPT !.mem = m, !.prep = [ep |-> c.ep, n |-> d.n, dur |-> "none", mem |-> m]],
                    "preparing", d.n), d, "prep", NoPending)

\* What runs when the function a context names returns or throws.
Finally(a, c, f) ==
  LET none == a.slot = NoPending /\ a.ack = NoPending
  IN CASE f = "prepared" -> IF a.run = c.ep /\ none /\ a.phase \in Resting
                            THEN [a EXCEPT !.run = 0, !.req = IF @ = c.ep THEN 0 ELSE @] ELSE a
       [] f = "recover"  -> IF a.run = c.ep /\ none /\ a.phase \in Resting
                            THEN [a EXCEPT !.run = 0] ELSE a
       [] f = "retry"    -> [a EXCEPT !.retrying = FALSE]
       [] f = "recommit" -> [a EXCEPT !.recommit = FALSE]
       [] f = "settle"   -> LET b == [a EXCEPT !.flight = 0]
                                d == [b EXCEPT !.run = IF @ = c.ep THEN 0 ELSE @,
                                               !.epoch = IF @ = c.ep THEN @ + 1 ELSE @]
                            IN IF ~none THEN b
                               ELSE IF d.ok THEN d ELSE Publish(d, "resume_available", c.n)
       [] f = "abandon"  -> IF a.epoch # c.ep THEN a
                            ELSE IF CanRetry(a.mem, c.n) THEN Begin(a, c)
                            ELSE Publish(a, "blocked", c.n)

\* They nest in one order only, innermost first.
Nesting == <<"settle", "prepared", "recover", "retry", "recommit", "abandon">>
End(a, c, f) == IF f \in c.who THEN Finally(a, c, f) ELSE a
Done(a, c) == LET after[k \in 0 .. 6] == IF k = 0 THEN a ELSE End(after[k - 1], c, Nesting[k]) IN after[6]
=============================================================================
