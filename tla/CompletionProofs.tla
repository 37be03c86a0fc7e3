-------------------------- MODULE CompletionProofs --------------------------
(***************************************************************************)
(* Theorems about the completion controller, for every number of commands, *)
(* of faults and of rounds and every set of batches.                       *)
(*                                                                         *)
(* The invariant IInv has three parts.  Sound(app) says of the controller  *)
(* that everything it still holds is consistent: each await is for an      *)
(* attempt that is in the document and has the shape its handler relies    *)
(* on, each pointer points at an attempt that is there to stay, and of     *)
(* each kind of command that must not run twice there is at most one.      *)
(* Doc says of the document on disk, in memory and in every pending save   *)
(* that an attempt whose end has left the outbox has no evidence left.     *)
(* Evidence types what native keeps.  Doc is what makes NativeReleased     *)
(* inductive: a save that is pending now may be the document tomorrow.     *)
(*                                                                         *)
(* Every operator of the controller has a lemma (Sound before, Sound       *)
(* after); every native handler has one that its answer is Honest (it does *)
(* not say an attempt is gone that is not); every action has a Step.       *)
(***************************************************************************)
EXTENDS Completion, FiniteSetTheorems, SequenceTheorems, WellFoundedInduction, TLAPS

Kinds  == {"workspace", "rootless", "plain"}
Phases == {"idle", "preparing", "starting", "sending", "approval_pending", "executing",
           "finalizing", "recovering", "cancelling", "persistence_pending",
           "commit_pending"} \cup Resting
Codes  == {"none", "refused", "other", "interrupted"}
Verdicts == {"allowed", "denied"}
Tx     == {"slot", "ack", "ackAgain", "swept"}
Saves  == Tx \cup {"prep", "term", "fail", "mark", "commit", "recommit"}
Places == {"none", "started", "launched", "held", "lost", "answered", "frozen", "decided", "bound",
           "intended", "recorded", "recovered", "over", "asked", "stopped", "unsettled", "abandoned"}
Endings == {"settle", "prepared", "recover", "retry", "recommit", "abandon"}

\* A journal: the cursor stays in its batch, and only the empty one has no phase.
Jr    == {j \in Journals : j.cur <= Len(j.calls) /\ (j.ph = "none" => j = NoJournal)}
Att   == [st : Status, code : Codes, jr : Jr, residue : BOOLEAN]
Decision == [i : Nat, d : Verdicts]
Thens == [at : Places, i : Nat, d : Verdicts \cup {"none", "ok", "manual"}, more : Seq(Decision),
          live : BOOLEAN]
Txs   == [before : Att, next : Seq(Att), state : {"open", "late", "settled"}]
Pends == [ep : Nat, n : Nat, tx : Txs, kind : {"none", "checkpoint", "cancel", "final", "ack"},
          then : Thens]
Preps == [ep : Nat, n : Nat, dur : {"none", "unknown"}, mem : Seq(Att)]
Terms == [n : Nat, succ : {"none", "cancelled", "retryable"}]
Threads == [n : Nat, ep : Nat, who : SUBSET Endings]
Waits == [on : Saves \cup Native \cup {"approve"}, c : Threads, p : Pends, doc : Seq(Att), was : Att,
          arg : Thens]

Apps == [kind : Kinds, phase : Phases, at : Nat, epoch : Nat, mem : Seq(Att), waits : Seq(Waits),
         run : Nat, runOf : Nat, auth : Nat, slot : Pends, ack : Pends, prep : Preps,
         term : Terms, act : Nat, commit : Nat, recommit : BOOLEAN,
         req : Nat, flight : Nat, ok : BOOLEAN, retrying : BOOLEAN, read : Nat]

\* A document of at most N attempts: one whose end left the outbox is among
\* those whose evidence native has thrown away, G.
Let_go(att, n, G) == att.jr.ph \in Terminal /\ ~att.residue => n \in G
Doc(doc, N, G) == /\ doc \in Seq(Att) /\ Len(doc) <= N
                  /\ \A n \in DOMAIN doc : Let_go(doc[n], n, G)

\* An attempt that is there to stay, and not the one being prepared.
Live(a, n) == n \in DOMAIN a.mem /\ (a.prep # NoPrep => n # a.prep.n)

Direct(att) == ~IsAgent(att) /\ att.st # "prepared"

\* What a transaction on an attempt's journal holds.
OnJournal(p) == /\ p.kind # "ack" /\ IsAgent(p.tx.next[p.n]) /\ p.then.at # "none"
                /\ p.then.at = "intended" => p.then.i \in DOMAIN p.tx.next[p.n].jr.calls
                /\ p.then.at = "decided" => p.then.d \in Verdicts

\* What the controller points at.
Refs(a, G) ==
  /\ a.at <= Len(a.mem) /\ (a.phase \in {"retryable", "resume_available"} => a.at # 0)
  /\ a.slot # NoPending => /\ Live(a, a.slot.n) /\ a.slot.ep <= a.epoch /\ OnJournal(a.slot)
                           /\ Let_go(a.slot.tx.before, a.slot.n, G)
  /\ a.ack # NoPending => Live(a, a.ack.n) /\ a.ack.ep <= a.epoch /\ a.ack.kind = "ack"
  /\ a.term # NoTerm => Live(a, a.term.n)
  /\ a.act # 0 => Live(a, a.act)
  /\ a.commit # 0 => /\ Live(a, a.commit) /\ a.mem[a.commit].st = "completed"
                     /\ ~IsAgent(a.mem[a.commit])
  /\ a.run # 0 => a.run <= a.epoch /\ Live(a, a.runOf)
  /\ a.prep # NoPrep => /\ a.prep.n = Len(a.mem) /\ a.prep.n # 0 /\ a.prep.ep <= a.epoch
                        /\ a.mem[a.prep.n] = NewAttempt

\* An await: what it holds, and for whom.
WaitOK(a, w, N, G) ==
  /\ w.c.ep <= a.epoch
  /\ IF w.on = "prep"
     THEN /\ a.prep # NoPrep /\ w.c.n = a.prep.n /\ w.c.ep = a.prep.ep /\ w.c.who \subseteq {"retry"}
          /\ a.prep.dur # "none" => "retry" \in w.c.who
     ELSE Live(a, w.c.n)
  /\ IF w.on \in Saves THEN Doc(w.doc, N, G) ELSE w.doc = << >>
  /\ w.on \in Tx => w.p.n = w.c.n
  /\ w.on = "slot" => OnJournal(w.p) /\ Let_go(w.p.tx.before, w.p.n, G)
  /\ w.on \in Tx \ {"slot"} => w.p.kind = "ack"
  /\ w.on = "execute" => w.arg.i \in DOMAIN w.was.jr.calls
  /\ w.on = "bind" => w.arg.d \in Verdicts
  /\ w.on = "prepare" => w.was.st = "prepared"
  /\ w.on = "approve" => \E i \in DOMAIN w.was.jr.calls : Open(w.was.jr.calls[i]) /\ Pending(w.was.jr.calls[i])
  /\ w.on \in {"mark", "complete"} => Direct(a.mem[w.c.n])
  /\ "abandon" \in w.c.who => w.on \in {"interrupt", "ack"}

\* Awaits of an abandonment that will ask the turn again.
Marked(a, w) == /\ w.c.ep = a.epoch
                /\ \/ "abandon" \in w.c.who
                   \/ w.on = "slot" /\ w.p.then.at = "abandoned" /\ w.p.then.live
Free(a, N) == /\ a.prep = NoPrep /\ Len(a.mem) < N
              /\ \A k \in DOMAIN a.waits : ~Marked(a, a.waits[k])

Pairs(a, N) ==
  /\ \A j, k \in DOMAIN a.waits : j # k =>
       /\ ~(a.waits[j].on = "prep" /\ a.waits[k].on = "prep")
       /\ ~("retry" \in a.waits[j].c.who /\ "retry" \in a.waits[k].c.who)
       /\ ~(Marked(a, a.waits[j]) /\ Marked(a, a.waits[k]))
  /\ \A k \in DOMAIN a.waits :
       /\ "retry" \in a.waits[k].c.who => a.retrying
       /\ Marked(a, a.waits[k]) => a.prep = NoPrep /\ Len(a.mem) < N

Sound(a, N, G) == /\ a \in Apps /\ Doc(a.mem, N, G) /\ Refs(a, G)
                  /\ \A k \in DOMAIN a.waits : WaitOK(a, a.waits[k], N, G)
                  /\ Pairs(a, N)

NatCalls == Seq([kind : {"auto", "ask", "bad"},
                 dec  : {"none", "pending", "allowed", "denied", "cancelled"},
                 rec  : Receipts \cup Working \cup InDoubt \cup {"none", "cancelled"}])
Stages == {"none", "ready", "running", "stopping", "cancelled", "unknown", "ambiguous", "refused",
           "final", "blocked", "batch", "frozen", "gone"}
Evidence == {x \in [st : Stages, rnd : 0 .. MaxRound, calls : NatCalls, own : Nat, over : BOOLEAN] :
               /\ x.st = "batch" => x.calls \in Calls}

Gone == {n \in Attempts : nat[n].st = "gone"}

IInv == /\ asks \in 0 .. MaxAsks
        /\ nat \in [Attempts -> Evidence]
        /\ Doc(disk, asks, Gone)
        /\ Sound(app, asks, Gone)
----------------------------------------------------------------------------
(***************************************************************************)
(* Journals.                                                                *)
(***************************************************************************)

CallRec == [kind : {"auto", "ask", "bad"},
            dec  : {"none", "pending", "allowed", "denied", "cancelled"},
            rec  : {"none", "ok", "failed", "denied", "cancelled"}]

\* The least of a set of numbers that is not empty.
LEMMA LeastIn == ASSUME NEW S \in SUBSET Nat, S # {}
                 PROVE  Min(S) \in S /\ \A y \in S : Min(S) <= y
<1> DEFINE R == {ss \in Nat \X Nat : ss[1] < ss[2]}
<1>1. IsWellFoundedOn(R, Nat) BY NatLessThanWellFounded DEF OpToRel
<1>2. \A x, y \in Nat : y < x => <<y, x>> \in R OBVIOUS
<1> HIDE DEF R
<1>3. PICK x \in S : \A y \in S : ~ (<<y, x>> \in R) BY <1>1, WFMin
<1>4. \A y \in S : ~(y < x) BY <1>2, <1>3
<1>5. \A y \in S : x <= y BY <1>4
<1> QED BY <1>5 DEF Min

\* The null records, and what an attempt starts as, have their types.
LEMMA NoneTyped == /\ NoJournal \in Jr /\ Ready \in Jr /\ NewAttempt \in Att
                   /\ NoThen \in Thens /\ NoTx \in Txs /\ NoPending \in Pends
                   /\ NoPrep \in Preps /\ NoTerm \in Terms
<1>1. << >> \in Calls /\ 0 \in 0 .. MaxRound /\ 1 \in 0 .. MaxRound
      /\ "none" \in Phase /\ "ready_for_round" \in Phase
  BY RoundAssumption DEF Calls, Phase
<1>2. NoJournal \in Journals BY <1>1 DEF NoJournal, Journals
<1>3. Ready \in Journals BY <1>1, <1>2 DEF Ready, Journals, NoJournal
<1>4. NoJournal \in Jr BY <1>2 DEF Jr, NoJournal
<1>5. Ready.calls = << >> /\ Ready.cur = 0 /\ Ready.ph # "none" BY DEF Ready, NoJournal
<1>6. Ready \in Jr BY <1>3, <1>5 DEF Jr
<1>7. NewAttempt \in Att BY <1>4 DEF NewAttempt, Att, Status, Codes
<1>8. << >> \in Seq(Decision) /\ << >> \in Seq(Att) OBVIOUS
<1>9. NoThen \in Thens BY <1>8 DEF NoThen, Thens, Places
<1>10. NoTx \in Txs BY <1>7, <1>8 DEF NoTx, Txs
<1>11. NoPending \in Pends BY <1>9, <1>10 DEF NoPending, Pends
<1>12. NoPrep \in Preps BY <1>8 DEF NoPrep, Preps
<1>13. NoTerm \in Terms BY DEF NoTerm, Terms
<1> QED BY <1>4, <1>6, <1>7, <1>9, <1>10, <1>11, <1>12, <1>13

\* A batch of calls is a sequence of call records.
LEMMA CallsAre == Calls = Seq(CallRec)
BY DEF Calls, CallRec

\* A phase other than "none" makes a well-typed journal one.
LEMMA JournalIs == ASSUME NEW j \in Journals, j.cur <= Len(j.calls), j.ph # "none" PROVE j \in Jr
BY DEF Jr

\* The fields of a well-typed journal.
LEMMA JournalHas == ASSUME NEW j \in Jr
                    PROVE  /\ j \in Journals /\ j.ph \in Phase /\ j.rnd \in 0 .. MaxRound /\ j.rev \in BOOLEAN
                           /\ j.cur \in Nat /\ j.cur <= Len(j.calls) /\ j.calls \in Seq(CallRec)
                           /\ j.gen \in Nat
                           /\ (j.ph = "none" => j = NoJournal)
BY CallsAre DEF Jr, Journals

\* What "first" finds, among the open calls and among those that may run.
LEMMA FirstOpenIn == ASSUME NEW cs \in Seq(CallRec)
                     PROVE  /\ FirstOpen(cs) \in 0 .. Len(cs)
                            /\ FirstOpen(cs) # 0 => Open(cs[FirstOpen(cs)])
<1> DEFINE I == {i \in 1 .. Len(cs) : Open(cs[i])}
<1>1. FirstOpen(cs) = IF I # {} THEN Min(I) ELSE 0 BY DEF FirstOpen, SelectInSeq
<1>2. I \in SUBSET Nat OBVIOUS
<1>3. I # {} => Min(I) \in I
  <2> HIDE DEF I
  <2> QED BY <1>2, LeastIn
<1> QED BY <1>1, <1>3

\* The first call that may run is one of the batch.
LEMMA FirstRunnableIn == ASSUME NEW cs \in Seq(CallRec)
                         PROVE  /\ FirstRunnable(cs) \in 0 .. Len(cs)
                                /\ FirstRunnable(cs) # 0 => Runnable(cs[FirstRunnable(cs)])
<1> DEFINE I == {i \in 1 .. Len(cs) : Runnable(cs[i])}
<1>1. FirstRunnable(cs) = IF I # {} THEN Min(I) ELSE 0 BY DEF FirstRunnable, SelectInSeq
<1>2. I \in SUBSET Nat OBVIOUS
<1>3. I # {} => Min(I) \in I
  <2> HIDE DEF I
  <2> QED BY <1>2, LeastIn
<1> QED BY <1>1, <1>3

\* The cursor that is recomputed from the calls is in the batch.
LEMMA CursorIn == ASSUME NEW cs \in Seq(CallRec) PROVE Cursor(cs) \in 0 .. Len(cs)
<1>1. Len(cs) \in Nat OBVIOUS
<1> QED BY <1>1, FirstOpenIn DEF Cursor

\* The phases the operators write.
LEMMA PhasesAre == /\ {"none", "ready_for_round", "round_in_flight", "batch_frozen", "approval_pending",
                       "execution_intent", "tool_result_pending", "final_response", "cancelled",
                       "failed", "unknown", "ambiguous"} \subseteq Phase
BY DEF Phase

\* What the controller makes of a journal is a journal, and has a phase.
Made(j) == j \in Jr /\ j.ph # "none"

\* What it takes to be such a journal.
LEMMA MadeIs == ASSUME NEW j \in Journals, j.cur <= Len(j.calls), j.ph # "none" PROVE Made(j)
BY JournalIs DEF Made

\* A round that begins empties the batch.
LEMMA BeganMade == ASSUME NEW j \in Jr, CanBegin(j) PROVE Made(Began(j))
<1> DEFINE n == IF j.ph = "tool_result_pending" THEN j.rnd + 1 ELSE j.rnd
<1>1. n \in 0 .. MaxRound BY JournalHas, RoundAssumption DEF CanBegin
<1>2. Began(j) = [ph |-> "round_in_flight", rnd |-> n, lin |-> "active", rev |-> FALSE, calls |-> << >>,
                       cur |-> 0, gen |-> j.gen]
  BY DEF Began
<1>3. << >> \in Calls /\ "round_in_flight" \in Phase BY PhasesAre DEF Calls
<1>4. Began(j) \in Journals
  <2> HIDE DEF n
  <2> QED BY <1>1, <1>2, <1>3, JournalHas DEF Journals
<1> QED BY <1>2, <1>4, MadeIs

\* A round that ends without a batch, however native says it ended.
LEMMA RoundOverMade == ASSUME NEW j \in Jr, NEW ans \in {"in_flight", "refused", "unknown", "ambiguous", "cancelled"}
                       PROVE  Made(RoundOver(j, ans))
<1> DEFINE ph == CASE ans = "in_flight" -> "round_in_flight" [] ans = "refused" -> "failed" [] OTHER -> ans
           lin == CASE ans = "in_flight" -> "active" [] ans = "refused" -> "failed_retryable" [] OTHER -> ans
<1>1. ph \in Phase /\ ph # "none" BY DEF Phase
<1>2. lin \in {"active", "failed_retryable", "unknown", "ambiguous", "cancelled"} OBVIOUS
<1>3. RoundOver(j, ans) = [j EXCEPT !.ph = ph, !.lin = lin, !.rev = TRUE] BY DEF RoundOver
<1> HIDE DEF ph, lin
<1>4. RoundOver(j, ans) \in Journals BY <1>1, <1>2, <1>3, JournalHas DEF Journals
<1>5. RoundOver(j, ans).cur = j.cur /\ RoundOver(j, ans).calls = j.calls /\ RoundOver(j, ans).ph = ph
  BY <1>3, JournalHas DEF Journals
<1> QED BY <1>1, <1>4, <1>5, JournalHas, MadeIs

\* A round that has answered.
LEMMA AnsweredMade == ASSUME NEW j \in Jr PROVE Made(Answered(j))
<1>1. << >> \in Calls /\ "batch_frozen" \in Phase BY PhasesAre DEF Calls
<1>2. Answered(j) \in Journals BY <1>1, JournalHas DEF Answered, Journals
<1>3. Answered(j).cur = 0 /\ Answered(j).calls = << >> /\ Answered(j).ph = "batch_frozen"
  BY JournalHas DEF Answered, Journals
<1> QED BY <1>2, <1>3, MadeIs

\* A turn that is over.
LEMMA ConcludedMade == ASSUME NEW j \in Jr, NEW ph \in {"final_response", "failed"} PROVE Made(Concluded(j, ph))
<1>1. Answered(j) \in Jr BY AnsweredMade DEF Made
<1>2. ph \in Phase /\ ph # "none" BY PhasesAre
<1>3. Concluded(j, ph) \in Journals BY <1>1, <1>2, JournalHas DEF Concluded, Journals
<1>4. Concluded(j, ph).cur = Answered(j).cur /\ Concluded(j, ph).calls = Answered(j).calls /\ Concluded(j, ph).ph = ph
  BY <1>1, JournalHas DEF Concluded, Journals
<1> QED BY <1>1, <1>2, <1>3, <1>4, JournalHas, MadeIs

\* A batch that native has frozen, installed with its cursor.
LEMMA FrozenMade == ASSUME NEW j \in Jr, NEW cs \in Seq(CallRec) PROVE Made(Frozen(j, cs)) /\ Frozen(j, cs).calls = cs
<1> DEFINE ph == IF \E i \in DOMAIN cs : Open(cs[i]) /\ Pending(cs[i]) THEN "approval_pending"
                 ELSE IF AllSettled(cs) THEN "tool_result_pending" ELSE "batch_frozen"
<1>1. ph \in Phase /\ ph # "none" BY DEF Phase
<1>2. Cursor(cs) \in Nat /\ Cursor(cs) <= Len(cs)
  <2>1. Len(cs) \in Nat OBVIOUS
  <2> QED BY <2>1, CursorIn
<1>3. Frozen(j, cs) = [j EXCEPT !.ph = ph, !.lin = "completed", !.rev = TRUE, !.calls = cs, !.cur = Cursor(cs)]
  BY DEF Frozen
<1> HIDE DEF ph
<1>4. Frozen(j, cs) \in Journals BY <1>1, <1>2, <1>3, CallsAre, JournalHas DEF Journals
<1>5. Frozen(j, cs).cur = Cursor(cs) /\ Frozen(j, cs).calls = cs /\ Frozen(j, cs).ph = ph
  BY <1>3, JournalHas DEF Journals
<1> QED BY <1>1, <1>2, <1>4, <1>5, MadeIs

Decs == {"none", "pending", "allowed", "denied", "cancelled"}
Recs == {"none", "ok", "failed", "denied", "cancelled"}
\* A batch with the decision, the receipt or both of one call changed.
WithDec(cs, i, d)       == [cs EXCEPT ![i].dec = d]
WithRec(cs, i, r)       == [cs EXCEPT ![i].rec = r]
WithBoth(cs, i, d, r)   == [cs EXCEPT ![i].dec = d, ![i].rec = r]

\* Setting the decision or the receipt of a call leaves a batch of the same
\* length.
LEMMA CallsChanged == /\ \A cs \in Seq(CallRec), d \in Decs : \A i :
                           WithDec(cs, i, d) \in Seq(CallRec) /\ Len(WithDec(cs, i, d)) = Len(cs)
                      /\ \A cs \in Seq(CallRec), r \in Recs : \A i :
                           WithRec(cs, i, r) \in Seq(CallRec) /\ Len(WithRec(cs, i, r)) = Len(cs)
                      /\ \A cs \in Seq(CallRec), d \in Decs, r \in Recs : \A i :
                           WithBoth(cs, i, d, r) \in Seq(CallRec) /\ Len(WithBoth(cs, i, d, r)) = Len(cs)
<1>1. ASSUME NEW cs \in Seq(CallRec), NEW d \in Decs, NEW i
      PROVE  WithDec(cs, i, d) \in Seq(CallRec) /\ Len(WithDec(cs, i, d)) = Len(cs)
  <2>1. CASE i \in DOMAIN cs
    <3>1. cs[i] \in CallRec BY <2>1
    <3>2. [cs[i] EXCEPT !.dec = d] \in CallRec BY <3>1 DEF CallRec, Decs
    <3> QED BY <2>1, <3>2 DEF WithDec
  <2>2. CASE i \notin DOMAIN cs
    <3>1. WithDec(cs, i, d) = cs BY <2>2 DEF WithDec
    <3> QED BY <3>1
  <2> QED BY <2>1, <2>2
<1>2. ASSUME NEW cs \in Seq(CallRec), NEW r \in Recs, NEW i
      PROVE  WithRec(cs, i, r) \in Seq(CallRec) /\ Len(WithRec(cs, i, r)) = Len(cs)
  <2>1. CASE i \in DOMAIN cs
    <3>1. cs[i] \in CallRec BY <2>1
    <3>2. [cs[i] EXCEPT !.rec = r] \in CallRec BY <3>1 DEF CallRec, Recs
    <3> QED BY <2>1, <3>2 DEF WithRec
  <2>2. CASE i \notin DOMAIN cs
    <3>1. WithRec(cs, i, r) = cs BY <2>2 DEF WithRec
    <3> QED BY <3>1
  <2> QED BY <2>1, <2>2
<1>3. ASSUME NEW cs \in Seq(CallRec), NEW d \in Decs, NEW r \in Recs, NEW i
      PROVE  WithBoth(cs, i, d, r) \in Seq(CallRec) /\ Len(WithBoth(cs, i, d, r)) = Len(cs)
  <2>1. WithBoth(cs, i, d, r) = WithRec(WithDec(cs, i, d), i, r) BY DEF WithBoth, WithDec, WithRec
  <2> QED BY <1>1, <1>2, <2>1
<1> QED BY <1>1, <1>2, <1>3

\* A journal with new calls, as many as before, and a cursor among them.
Remade(j, ph, cs, cur) == [j EXCEPT !.ph = ph, !.calls = cs, !.cur = cur]
\* A journal whose calls are replaced, with a cursor that is in them.
LEMMA RemadeMade == ASSUME NEW j \in Jr, NEW cs \in Seq(CallRec), NEW cur \in 0 .. Len(cs),
                           NEW ph \in Phase \ {"none"}
                    PROVE  Made(Remade(j, ph, cs, cur)) /\ Remade(j, ph, cs, cur).calls = cs
<1> DEFINE k == Remade(j, ph, cs, cur)
<1>1. cur \in Nat /\ cur <= Len(cs) OBVIOUS
<1>2. k \in Journals BY <1>1, CallsAre, JournalHas DEF Journals, Remade
<1>3. k.cur = cur /\ k.calls = cs /\ k.ph = ph BY JournalHas DEF Journals, Remade
<1> HIDE DEF k
<1>4. Made(k) BY <1>1, <1>2, <1>3, MadeIs
<1> QED BY <1>3, <1>4 DEF k

\* The decision of the user on a call.
LEMMA DecidedMade == ASSUME NEW j \in Jr, NEW i, NEW d \in Verdicts PROVE Made(Decided(j, i, d))
<1> DEFINE cs == WithDec(j.calls, i, d)
           ph == IF d = "denied" /\ Some(cs, Pending) THEN "approval_pending" ELSE "batch_frozen"
<1>1. cs \in Seq(CallRec) BY JournalHas, CallsChanged DEF Verdicts, Decs
<1>2. ph \in Phase \ {"none"} BY DEF Phase
<1>3. Decided(j, i, d) = Remade(j, ph, cs, FirstOpen(cs)) BY DEF Decided, Remade, WithDec
<1> HIDE DEF ph, cs
<1> QED BY <1>1, <1>2, <1>3, FirstOpenIn, RemadeMade

\* The receipt of a call that was denied.
LEMMA DenialSettledMade == ASSUME NEW j \in Jr, NEW i \in DOMAIN j.calls PROVE Made(DenialSettled(j, i))
<1> DEFINE cs == WithBoth(j.calls, i, "denied", "denied")
           ph == IF Some(cs, Pending) THEN "approval_pending"
                 ELSE IF AllSettled(cs) THEN "tool_result_pending" ELSE "batch_frozen"
           cur == IF AllSettled(cs) THEN i ELSE FirstOpen(cs)
<1>1. cs \in Seq(CallRec) /\ Len(cs) = Len(j.calls) BY JournalHas, CallsChanged DEF Decs, Recs
<1>2. ph \in Phase \ {"none"} BY DEF Phase
<1>3. FirstOpen(cs) \in 0 .. Len(cs)
  <2> HIDE DEF cs
  <2> QED BY <1>1, FirstOpenIn
<1>4. i \in 0 .. Len(cs) BY <1>1, JournalHas
<1>5. cur \in 0 .. Len(cs)
  <2> HIDE DEF cs
  <2> QED BY <1>3, <1>4
<1>6. DenialSettled(j, i) = Remade(j, ph, cs, cur) BY DEF DenialSettled, Remade, WithBoth
<1> HIDE DEF ph, cs, cur
<1> QED BY <1>1, <1>2, <1>5, <1>6, RemadeMade

\* A decision that native has bound.
LEMMA ApprovalBoundMade == ASSUME NEW j \in Jr PROVE Made(ApprovalBound(j))
<1>1. FirstOpen(j.calls) \in 0 .. Len(j.calls) BY FirstOpenIn, JournalHas
<1>2. ApprovalBound(j) = Remade(j, "batch_frozen", j.calls, FirstOpen(j.calls)) BY JournalHas DEF ApprovalBound, Remade, Journals
<1>3. "batch_frozen" \in Phase \ {"none"} BY PhasesAre
<1> QED BY <1>1, <1>2, <1>3, RemadeMade, JournalHas

\* The intent to execute a call.
LEMMA IntendedMade == ASSUME NEW j \in Jr, NEW i \in DOMAIN j.calls
                      PROVE  Made(Intended(j, i)) /\ Intended(j, i).calls = j.calls
<1>1. i \in 0 .. Len(j.calls) BY JournalHas
<1>2. Intended(j, i).calls = j.calls BY JournalHas DEF Intended, Journals
<1>3. Intended(j, i) = Remade(j, "execution_intent", j.calls, i) BY JournalHas DEF Intended, Remade, Journals
<1>4. "execution_intent" \in Phase \ {"none"} BY PhasesAre
<1> QED BY <1>1, <1>2, <1>3, <1>4, RemadeMade, JournalHas

\* The call that is next after one that is settled.
LEMMA AdvancedMade == ASSUME NEW j \in Jr, NEW i \in DOMAIN j.calls
                      PROVE  Made(Advanced(j, i)) /\ Advanced(j, i).calls = j.calls
<1>1. i \in 0 .. Len(j.calls) BY JournalHas
<1>2. Advanced(j, i).calls = j.calls BY JournalHas DEF Advanced, Journals
<1>3. (IF Pending(j.calls[i]) THEN "approval_pending" ELSE "batch_frozen") \in Phase \ {"none"} BY DEF Phase
<1>4. Advanced(j, i) = Remade(j, IF Pending(j.calls[i]) THEN "approval_pending" ELSE "batch_frozen", j.calls, i)
  BY JournalHas DEF Advanced, Remade, Journals
<1> QED BY <1>1, <1>2, <1>3, <1>4, RemadeMade, JournalHas

\* The result of a call, whatever native answered; the batch keeps its calls.
LEMMA ResultedMade == ASSUME NEW j \in Jr, NEW i \in DOMAIN j.calls, NEW ans
                      PROVE  Made(Resulted(j, i, ans)) /\ DOMAIN Resulted(j, i, ans).calls = DOMAIN j.calls
<1> DEFINE ph == CASE ans = "running" -> "execution_intent"
                     [] ans \in {"cancelled", "unknown", "ambiguous"} -> ans
                     [] OTHER -> "tool_result_pending"
           rec == IF ans \in {"ok", "cancelled"} THEN ans ELSE j.calls[i].rec
           cs == WithRec(j.calls, i, rec)
<1>1. ph \in Phase \ {"none"} BY DEF Phase
<1>2. rec \in {"none", "ok", "failed", "denied", "cancelled"}
  <2>1. j.calls[i] \in CallRec BY JournalHas
  <2> QED BY <2>1 DEF CallRec
<1>3. Resulted(j, i, ans) = Remade(j, ph, cs, i)
  BY JournalHas DEF Resulted, Journals, Remade, WithRec
<1> HIDE DEF ph, rec
<1>4. cs \in Seq(CallRec) /\ Len(cs) = Len(j.calls) BY <1>2, JournalHas, CallsChanged DEF Recs
<1>5. i \in 0 .. Len(cs) /\ DOMAIN cs = DOMAIN j.calls BY <1>4, JournalHas
<1> HIDE DEF cs
<1>6. Resulted(j, i, ans).calls = cs BY <1>1, <1>3, <1>4, <1>5, RemadeMade
<1> QED BY <1>1, <1>3, <1>4, <1>5, <1>6, RemadeMade

\* A journal in which the cancellation is asked for.
LEMMA AskedMade == ASSUME NEW j \in Jr, j.ph # "none" PROVE Made(Asked(j))
<1> DEFINE lin == IF CancelTarget(j) = "attempt" THEN j.lin ELSE "cancel_requested"
<1>1. Asked(j) = [j EXCEPT !.lin = lin] BY JournalHas DEF Asked, Journals
<1>2. lin \in {"none", "active", "completed", "cancelled", "failed_retryable", "cancel_requested", "unknown", "ambiguous"}
  BY JournalHas DEF Journals
<1> HIDE DEF lin
<1>3. Asked(j) \in Journals BY <1>1, <1>2, JournalHas DEF Journals
<1>4. Asked(j).cur = j.cur /\ Asked(j).calls = j.calls /\ Asked(j).ph = j.ph BY <1>1, JournalHas DEF Journals
<1> QED BY <1>3, <1>4, JournalHas, MadeIs

\* A journal in which the cancellation is answered, whatever the answer.
LEMMA StoppedMade == ASSUME NEW j \in Jr, NEW ans, j.ph # "none" PROVE Made(Stopped(j, ans))
<1> DEFINE ph == IF ans \in {"cancelled", "unknown"} THEN ans ELSE j.ph
           lin == IF j.lin = "none" THEN j.lin ELSE IF ans \in {"cancelled", "unknown"} THEN ans
                  ELSE "cancel_requested"
           rev == j.rev \/ CancelTarget(j) = "round"
           cs == [i \in DOMAIN j.calls |->
                    IF ans # "cancelled" THEN j.calls[i]
                    ELSE IF CancelTarget(j) = "tool" /\ i = j.cur THEN [j.calls[i] EXCEPT !.rec = "cancelled"]
                    ELSE IF Disposed(j.calls[i]) THEN j.calls[i] ELSE [j.calls[i] EXCEPT !.dec = "cancelled"]]
<1>1. ph \in Phase /\ ph # "none" BY JournalHas, PhasesAre
<1>2. lin \in {"none", "active", "completed", "cancelled", "failed_retryable", "cancel_requested", "unknown", "ambiguous"}
  BY JournalHas DEF Journals
<1>3. rev \in BOOLEAN BY JournalHas
<1>4. cs \in Seq(CallRec) /\ Len(cs) = Len(j.calls)
  <2>1. \A i \in DOMAIN j.calls : cs[i] \in CallRec
    <3>1. SUFFICES ASSUME NEW i \in DOMAIN j.calls PROVE cs[i] \in CallRec OBVIOUS
    <3>2. j.calls[i] \in CallRec BY JournalHas
    <3>3. [j.calls[i] EXCEPT !.rec = "cancelled"] \in CallRec /\ [j.calls[i] EXCEPT !.dec = "cancelled"] \in CallRec
      BY <3>2 DEF CallRec
    <3> QED BY <3>2, <3>3
  <2>2. DOMAIN j.calls = 1 .. Len(j.calls) /\ Len(j.calls) \in Nat BY JournalHas
  <2>3. cs \in [1 .. Len(j.calls) -> CallRec] BY <2>1, <2>2
  <2> HIDE DEF cs
  <2> QED BY <2>2, <2>3
<1>5. Stopped(j, ans) = [j EXCEPT !.ph = ph, !.lin = lin, !.rev = rev, !.calls = cs]
  BY JournalHas DEF Stopped, Journals
<1> HIDE DEF ph, lin, rev, cs
<1>6. Stopped(j, ans) \in Journals BY <1>1, <1>2, <1>3, <1>4, <1>5, CallsAre, JournalHas DEF Journals
<1>7. Stopped(j, ans).cur = j.cur /\ Stopped(j, ans).calls = cs /\ Stopped(j, ans).ph = ph
  BY <1>5, JournalHas DEF Journals
<1> QED BY <1>1, <1>4, <1>6, <1>7, JournalHas, MadeIs

----------------------------------------------------------------------------
(***************************************************************************)
(* Attempts.                                                                *)
(***************************************************************************)

LEMMA AttHas == ASSUME NEW att \in Att
                PROVE  att.st \in Status /\ att.code \in Codes /\ att.jr \in Jr /\ att.residue \in BOOLEAN
BY DEF Att

\* An attempt given another journal.
LEMMA WithTyped == ASSUME NEW att \in Att, NEW j, Made(j), NEW n, NEW G
                   PROVE  /\ With(att, j) \in Att /\ IsAgent(With(att, j)) /\ With(att, j).jr.calls = j.calls
                          /\ Let_go(With(att, j), n, G)
<1> DEFINE st == OuterStatus(j.ph)
           code == IF j.ph = "failed" /\ j.lin = "failed_retryable" THEN "refused"
                   ELSE IF OuterStatus(j.ph) = "failed" THEN "other" ELSE "none"
           res == att.residue \/ j.ph \in Terminal
           k == [j EXCEPT !.gen = att.jr.gen + 1]
<1>1. st \in Status BY DEF OuterStatus, Status
<1>2. code \in Codes BY DEF Codes
<1>3. res \in BOOLEAN OBVIOUS
<1>4. With(att, j) = [att EXCEPT !.jr = k, !.st = st, !.code = code, !.residue = res] BY DEF With
<1>5. /\ k \in Journals /\ k.calls = j.calls /\ k.ph = j.ph /\ k.cur = j.cur
  <2>1. j \in Journals BY JournalHas DEF Made
  <2>2. att.jr.gen + 1 \in Nat BY AttHas, JournalHas
  <2> QED BY <2>1, <2>2 DEF Journals
<1>6. k \in Jr
  <2>1. j.cur <= Len(j.calls) /\ j.ph # "none" BY JournalHas DEF Made
  <2> QED BY <1>5, <2>1, JournalIs
<1>7. k # NoJournal BY <1>5 DEF Made, NoJournal
<1>8. j.ph \in Terminal => res BY DEF res
<1> HIDE DEF st, code, res, k
<1>9. With(att, j) \in Att BY <1>1, <1>2, <1>3, <1>4, <1>6 DEF Att
<1>10. With(att, j).jr = k /\ With(att, j).residue = res BY <1>1, <1>2, <1>3, <1>4 DEF Att
<1> QED BY <1>5, <1>7, <1>8, <1>9, <1>10 DEF IsAgent, Let_go

\* The attempt of a document changed in one place.
Put(m, n, att) == [m EXCEPT ![n] = att]

\* A document in which one attempt is replaced.
LEMMA PutTyped == ASSUME NEW N \in Nat, NEW G, NEW m, Doc(m, N, G), NEW n \in DOMAIN m,
                         NEW att \in Att, Let_go(att, n, G)
                  PROVE  /\ Doc(Put(m, n, att), N, G) /\ DOMAIN Put(m, n, att) = DOMAIN m
                         /\ Put(m, n, att) \in Seq(Att) /\ Len(Put(m, n, att)) = Len(m)
                         /\ Put(m, n, att)[n] = att
                         /\ \A k \in DOMAIN m : k # n => Put(m, n, att)[k] = m[k]
<1>1. m \in Seq(Att) /\ Len(m) <= N /\ \A k \in DOMAIN m : Let_go(m[k], k, G) BY DEF Doc
<1>2. /\ Put(m, n, att) \in Seq(Att) /\ Len(Put(m, n, att)) = Len(m) /\ DOMAIN Put(m, n, att) = DOMAIN m
      /\ Put(m, n, att)[n] = att /\ \A k \in DOMAIN m : k # n => Put(m, n, att)[k] = m[k]
  BY <1>1 DEF Put
<1>3. \A k \in DOMAIN m : Let_go(Put(m, n, att)[k], k, G) BY <1>1, <1>2
<1> QED BY <1>1, <1>2, <1>3 DEF Doc
----------------------------------------------------------------------------
(***************************************************************************)
(* What a step leaves as it was.                                            *)
(***************************************************************************)

\* The context of a continuation that runs now: nobody else repeats the save,
\* and a turn that is to be asked again may be.
ThreadOK(a, c, N) ==
  /\ c \in Threads /\ c.ep <= a.epoch /\ Live(a, c.n)
  /\ "retry" \in c.who => a.retrying /\ \A k \in DOMAIN a.waits : "retry" \notin a.waits[k].c.who
  /\ "abandon" \in c.who /\ c.ep = a.epoch => Free(a, N)

\* A continuation of a sound controller, and one without an abandonment.
Turn(a, c, N, G)  == Sound(a, N, G) /\ ThreadOK(a, c, N)
Plain(a, c, N, G) == Turn(a, c, N, G) /\ "abandon" \notin c.who

Kept(a, b) == /\ b.waits = a.waits /\ b.epoch = a.epoch /\ b.prep = a.prep
              /\ a.retrying => b.retrying
              /\ Len(b.mem) = Len(a.mem) /\ DOMAIN b.mem = DOMAIN a.mem
              /\ \A n \in DOMAIN a.mem : Direct(a.mem[n]) => Direct(b.mem[n])

\* A controller that changed what it points at, but none of its awaits, its
\* epoch or its preparation.
LEMMA Moved == ASSUME NEW N \in Nat, NEW G, NEW a, Sound(a, N, G), NEW b \in Apps, Kept(a, b),
                      Doc(b.mem, N, G), Refs(b, G)
               PROVE  /\ Sound(b, N, G)
                      /\ \A c : ThreadOK(a, c, N) => ThreadOK(b, c, N)
<1>1. \A n : Live(a, n) => Live(b, n) BY DEF Live, Kept
<1>2. \A w : Marked(b, w) <=> Marked(a, w) BY DEF Marked, Kept
<1>3. \A k \in DOMAIN b.waits : WaitOK(b, b.waits[k], N, G)
  <2>1. SUFFICES ASSUME NEW k \in DOMAIN b.waits PROVE WaitOK(b, b.waits[k], N, G) OBVIOUS
  <2>2. b.waits[k] = a.waits[k] /\ k \in DOMAIN a.waits BY DEF Kept
  <2> DEFINE w == a.waits[k]
  <2>3. WaitOK(a, w, N, G) BY <2>2 DEF Sound
  <2>4. b.epoch = a.epoch /\ b.prep = a.prep BY DEF Kept
  <2>5. w.on \in {"mark", "complete"} => Direct(b.mem[w.c.n])
    <3>1. SUFFICES ASSUME w.on \in {"mark", "complete"} PROVE Direct(b.mem[w.c.n]) OBVIOUS
    <3>2. Live(a, w.c.n) /\ Direct(a.mem[w.c.n]) BY <2>3, <3>1 DEF WaitOK
    <3> QED BY <3>2 DEF Kept, Live
  <2> HIDE DEF w
  <2>6. WaitOK(b, w, N, G) BY <1>1, <2>3, <2>4, <2>5 DEF WaitOK
  <2> QED BY <2>2, <2>6 DEF w
<1>4. Pairs(b, N)
  <2>1. Pairs(a, N) BY DEF Sound
  <2>2. b.waits = a.waits /\ b.prep = a.prep /\ Len(b.mem) = Len(a.mem) /\ (a.retrying => b.retrying) BY DEF Kept
  <2> QED BY <1>2, <2>1, <2>2 DEF Pairs
<1>5. Sound(b, N, G) BY <1>3, <1>4 DEF Sound
<1>6. Free(a, N) => Free(b, N) BY <1>2 DEF Free, Kept
<1>7. ASSUME NEW c, ThreadOK(a, c, N) PROVE ThreadOK(b, c, N)
  <2>1. b.waits = a.waits /\ b.epoch = a.epoch /\ (a.retrying => b.retrying) BY DEF Kept
  <2> QED BY <1>1, <1>6, <1>7, <2>1 DEF ThreadOK
<1> QED BY <1>5, <1>7


\* A controller that points at less, or at another attempt that is there to
\* stay, but keeps its document and its awaits.
Tuned(a, b) ==
  /\ b.mem = a.mem /\ b.waits = a.waits /\ b.epoch = a.epoch /\ b.prep = a.prep
  /\ a.retrying => b.retrying
  /\ b.at = a.at /\ b.phase = a.phase
  /\ b.slot \in {a.slot, NoPending}
  /\ b.ack \in {a.ack, NoPending} \/ (Live(a, b.ack.n) /\ b.ack.ep <= a.epoch /\ b.ack.kind = "ack")
  /\ b.term \in {a.term, NoTerm} \/ Live(a, b.term.n)
  /\ b.act \in {a.act, 0} \/ Live(a, b.act)
  /\ \/ b.commit \in {a.commit, 0}
     \/ Live(a, b.commit) /\ a.mem[b.commit].st = "completed" /\ ~IsAgent(a.mem[b.commit])
  /\ \/ b.run = 0
     \/ b.run = a.run /\ b.runOf = a.runOf
     \/ b.run <= a.epoch /\ Live(a, b.runOf)

\* A controller that changed no more than what it shows and which of its
\* pointers are cleared.
LEMMA TunedSound == ASSUME NEW N \in Nat, NEW G, NEW a, Sound(a, N, G), NEW b \in Apps, Tuned(a, b)
                    PROVE  /\ Sound(b, N, G)
                           /\ \A c : ThreadOK(a, c, N) => ThreadOK(b, c, N)
<1>1. Refs(a, G) /\ Doc(a.mem, N, G) BY DEF Sound
<1>2. Kept(a, b) BY DEF Kept, Tuned
<1>3. Doc(b.mem, N, G) BY <1>1 DEF Tuned
<1>4. \A n : Live(a, n) => Live(b, n) BY DEF Live, Tuned
<1>5. Refs(b, G)
  <2>1. /\ b.at <= Len(b.mem) /\ (b.phase \in {"retryable", "resume_available"} => b.at # 0)
    BY <1>1 DEF Refs, Tuned
  <2>2. b.slot # NoPending => /\ Live(b, b.slot.n) /\ b.slot.ep <= b.epoch /\ OnJournal(b.slot)
                              /\ Let_go(b.slot.tx.before, b.slot.n, G)
    BY <1>1, <1>4 DEF Refs, Tuned
  <2>3. b.ack # NoPending => Live(b, b.ack.n) /\ b.ack.ep <= b.epoch /\ b.ack.kind = "ack"
    BY <1>1, <1>4 DEF Refs, Tuned
  <2>4. (b.term # NoTerm => Live(b, b.term.n)) /\ (b.act # 0 => Live(b, b.act))
    BY <1>1, <1>4 DEF Refs, Tuned
  <2>5. b.commit # 0 => Live(b, b.commit) /\ b.mem[b.commit].st = "completed" /\ ~IsAgent(b.mem[b.commit])
    BY <1>1, <1>4 DEF Refs, Tuned
  <2>6. b.run # 0 => b.run <= b.epoch /\ Live(b, b.runOf)
    BY <1>1, <1>4 DEF Refs, Tuned
  <2>7. b.prep # NoPrep => /\ b.prep.n = Len(b.mem) /\ b.prep.n # 0 /\ b.prep.ep <= b.epoch
                           /\ b.mem[b.prep.n] = NewAttempt
    BY <1>1 DEF Refs, Tuned
  <2> QED BY <2>1, <2>2, <2>3, <2>4, <2>5, <2>6, <2>7 DEF Refs
<1> QED BY <1>2, <1>3, <1>5, Moved

\* What publishing a phase changes.
LEMMA PublishIs == ASSUME NEW a \in Apps, NEW ph \in Phases, NEW n \in Nat
                   PROVE  LET b == Publish(a, ph, n)
                          IN /\ b \in Apps /\ b.phase = ph /\ b.at = n /\ b.kind = a.kind
                             /\ b.mem = a.mem /\ b.waits = a.waits /\ b.epoch = a.epoch /\ b.prep = a.prep
                             /\ b.run = a.run /\ b.runOf = a.runOf /\ b.auth = a.auth /\ b.slot = a.slot
                             /\ b.ack = a.ack /\ b.term = a.term /\ b.act = a.act /\ b.commit = a.commit
                             /\ b.req = a.req /\ b.flight = a.flight /\ b.ok = a.ok
                             /\ b.retrying = a.retrying /\ b.read = a.read /\ b.recommit = a.recommit
BY DEF Apps, Publish

\* Publishing a phase keeps the controller sound.
LEMMA Published == ASSUME NEW N \in Nat, NEW G, NEW a, Sound(a, N, G), NEW ph \in Phases,
                          NEW n \in Nat, n <= Len(a.mem), ph \in {"retryable", "resume_available"} => n # 0
                   PROVE  /\ Sound(Publish(a, ph, n), N, G)
                          /\ \A c : ThreadOK(a, c, N) => ThreadOK(Publish(a, ph, n), c, N)
<1> DEFINE b == Publish(a, ph, n)
<1>1. a \in Apps /\ Refs(a, G) /\ Doc(a.mem, N, G) BY DEF Sound
<1>2. /\ b \in Apps /\ b.phase = ph /\ b.at = n
      /\ b.mem = a.mem /\ b.waits = a.waits /\ b.epoch = a.epoch /\ b.prep = a.prep
      /\ b.run = a.run /\ b.runOf = a.runOf /\ b.slot = a.slot
      /\ b.ack = a.ack /\ b.term = a.term /\ b.act = a.act /\ b.commit = a.commit /\ b.retrying = a.retrying
  BY <1>1, PublishIs
<1> HIDE DEF b
<1>3. Kept(a, b) BY <1>2 DEF Kept
<1>4. \A k : Live(a, k) => Live(b, k) BY <1>2 DEF Live
<1>5. Refs(b, G) BY <1>1, <1>2, <1>4 DEF Refs
<1> QED BY <1>1, <1>2, <1>3, <1>5, Moved DEF b

\* A phase shown for the attempt of the context.
LEMMA Shows == ASSUME NEW N \in Nat, NEW G, NEW a, NEW c, Turn(a, c, N, G), NEW ph \in Phases
               PROVE  Turn(Publish(a, ph, c.n), c, N, G)
<1>1. c.n \in Nat /\ c.n <= Len(a.mem) /\ c.n # 0
  <2>1. c.n \in DOMAIN a.mem BY DEF Turn, ThreadOK, Live
  <2>2. a.mem \in Seq(Att) BY DEF Turn, Sound, Doc
  <2> QED BY <2>1, <2>2
<1> QED BY <1>1, Published DEF Turn

\* Publishing a phase of the attempt that is running.
LEMMA ShowsPlain == ASSUME NEW N \in Nat, NEW G, NEW a, NEW c, Plain(a, c, N, G), NEW ph \in Phases
                    PROVE  Plain(Publish(a, ph, c.n), c, N, G)
BY Shows DEF Plain

----------------------------------------------------------------------------
(***************************************************************************)
(* Awaits.                                                                  *)
(***************************************************************************)

Pushed(a, w) == [a EXCEPT !.waits = Append(@, w)]

\* What a new await changes.
LEMMA PushedIs == ASSUME NEW a \in Apps, NEW w \in Waits
                  PROVE  LET b == Pushed(a, w)
                         IN /\ b \in Apps /\ b.waits = Append(a.waits, w)
                            /\ b.phase = a.phase /\ b.at = a.at /\ b.kind = a.kind
                            /\ b.mem = a.mem /\ b.epoch = a.epoch /\ b.prep = a.prep
                            /\ b.run = a.run /\ b.runOf = a.runOf /\ b.auth = a.auth /\ b.slot = a.slot
                            /\ b.ack = a.ack /\ b.term = a.term /\ b.act = a.act /\ b.commit = a.commit
                            /\ b.req = a.req /\ b.flight = a.flight /\ b.ok = a.ok
                            /\ b.retrying = a.retrying /\ b.read = a.read /\ b.recommit = a.recommit
<1>1. Append(a.waits, w) \in Seq(Waits)
  <2>1. a.waits \in Seq(Waits) BY DEF Apps
  <2> QED BY <2>1
<1> QED BY <1>1 DEF Apps, Pushed

\* An await that may join those there are.
MayPush(a, w, N, G) ==
  /\ w \in Waits /\ WaitOK(a, w, N, G)
  /\ w.on = "prep" => \A k \in DOMAIN a.waits : a.waits[k].on # "prep"
  /\ "retry" \in w.c.who => a.retrying /\ \A k \in DOMAIN a.waits : "retry" \notin a.waits[k].c.who
  /\ Marked(a, w) => Free(a, N)

\* A new await that may be pushed.
LEMMA PushedSound == ASSUME NEW N \in Nat, NEW G, NEW a, Sound(a, N, G), NEW w, MayPush(a, w, N, G)
                     PROVE  Sound(Pushed(a, w), N, G)
<1> DEFINE b == Pushed(a, w)
           l == Len(a.waits) + 1
<1>1. a \in Apps /\ Refs(a, G) /\ Doc(a.mem, N, G) /\ Pairs(a, N)
      /\ (\A k \in DOMAIN a.waits : WaitOK(a, a.waits[k], N, G))
  BY DEF Sound
<1>2. w \in Waits BY DEF MayPush
<1>3. /\ b \in Apps /\ b.waits = Append(a.waits, w)
      /\ b.phase = a.phase /\ b.at = a.at
      /\ b.mem = a.mem /\ b.epoch = a.epoch /\ b.prep = a.prep
      /\ b.run = a.run /\ b.runOf = a.runOf /\ b.slot = a.slot
      /\ b.ack = a.ack /\ b.term = a.term /\ b.act = a.act /\ b.commit = a.commit
      /\ b.retrying = a.retrying
  BY <1>1, <1>2, PushedIs
<1>4. a.waits \in Seq(Waits) BY <1>1 DEF Apps
<1>5. /\ DOMAIN b.waits = DOMAIN a.waits \cup {l} /\ b.waits[l] = w /\ l \notin DOMAIN a.waits
      /\ \A k \in DOMAIN a.waits : b.waits[k] = a.waits[k]
  BY <1>2, <1>3, <1>4
<1> HIDE DEF b, l
<1>6. \A n : Live(b, n) <=> Live(a, n) BY <1>3 DEF Live
<1>7. Refs(b, G) BY <1>1, <1>3, <1>6 DEF Refs
<1>8. \A x : WaitOK(a, x, N, G) => WaitOK(b, x, N, G) BY <1>3, <1>6 DEF WaitOK
<1>9. \A x : Marked(b, x) <=> Marked(a, x) BY <1>3 DEF Marked
<1>10. \A k \in DOMAIN b.waits : WaitOK(b, b.waits[k], N, G) BY <1>1, <1>5, <1>8 DEF MayPush
<1>11. Pairs(b, N)
  <2>1. ASSUME NEW k \in DOMAIN a.waits
        PROVE  /\ ~(a.waits[k].on = "prep" /\ w.on = "prep")
               /\ ~("retry" \in a.waits[k].c.who /\ "retry" \in w.c.who)
               /\ ~(Marked(a, a.waits[k]) /\ Marked(a, w))
    BY DEF MayPush, Free
  <2>2. ASSUME NEW j \in DOMAIN b.waits, NEW k \in DOMAIN b.waits, j # k
        PROVE  /\ ~(b.waits[j].on = "prep" /\ b.waits[k].on = "prep")
               /\ ~("retry" \in b.waits[j].c.who /\ "retry" \in b.waits[k].c.who)
               /\ ~(Marked(b, b.waits[j]) /\ Marked(b, b.waits[k]))
    <3>1. CASE j \in DOMAIN a.waits /\ k \in DOMAIN a.waits BY <1>1, <1>5, <1>9, <2>2, <3>1 DEF Pairs
    <3>2. CASE j = l /\ k \in DOMAIN a.waits BY <1>5, <1>9, <2>1, <3>2
    <3>3. CASE k = l /\ j \in DOMAIN a.waits BY <1>5, <1>9, <2>1, <3>3
    <3> QED BY <1>5, <2>2, <3>1, <3>2, <3>3
  <2>3. ASSUME NEW k \in DOMAIN b.waits
        PROVE  /\ "retry" \in b.waits[k].c.who => b.retrying
               /\ Marked(b, b.waits[k]) => b.prep = NoPrep /\ Len(b.mem) < N
    <3>1. CASE k \in DOMAIN a.waits BY <1>1, <1>3, <1>5, <1>9, <3>1 DEF Pairs
    <3>2. CASE k = l BY <1>3, <1>5, <1>9, <3>2 DEF MayPush, Free
    <3> QED BY <1>5, <3>1, <3>2
  <2> QED BY <2>2, <2>3 DEF Pairs
<1> QED BY <1>1, <1>3, <1>7, <1>10, <1>11 DEF Sound, b

\* What a native call, or a question to the user, has to be sure of.
AsksWell(a, c, on, arg) ==
  /\ on \in Native \cup {"approve"} /\ arg \in Thens
  /\ "abandon" \in c.who => on = "interrupt"
  /\ on = "execute" => arg.i \in DOMAIN a.mem[c.n].jr.calls
  /\ on = "bind" => arg.d \in Verdicts
  /\ on = "prepare" => a.mem[c.n].st = "prepared"
  /\ on = "approve" => \E i \in DOMAIN a.mem[c.n].jr.calls :
                         Open(a.mem[c.n].jr.calls[i]) /\ Pending(a.mem[c.n].jr.calls[i])
  /\ on = "complete" => Direct(a.mem[c.n])

\* A native call of a continuation whose context is the one it was made with.
LEMMA Called == ASSUME NEW N \in Nat, NEW G, NEW a, NEW c, Turn(a, c, N, G),
                       NEW on, NEW arg, AsksWell(a, c, on, arg)
                PROVE  Sound(Call(a, c, on, arg), N, G)
<1> DEFINE w == [on |-> on, c |-> c, p |-> NoPending, doc |-> << >>, was |-> a.mem[c.n], arg |-> arg]
<1>1. a \in Apps /\ Sound(a, N, G) /\ c \in Threads /\ c.n \in DOMAIN a.mem /\ a.mem[c.n] \in Att
  <2>1. a.mem \in Seq(Att) BY DEF Turn, Sound, Doc
  <2>2. c.n \in DOMAIN a.mem /\ c \in Threads BY DEF Turn, ThreadOK, Live
  <2> QED BY <2>1, <2>2 DEF Turn, Sound
<1>2. w \in Waits
  <2>1. << >> \in Seq(Att) /\ on \in Saves \cup Native \cup {"approve"} /\ arg \in Thens BY DEF AsksWell
  <2> QED BY <1>1, <2>1, NoneTyped DEF Waits
<1>3. on # "prep" /\ on \notin Saves /\ on \notin Tx BY DEF AsksWell, Saves, Tx, Native
<1>4. w.on = on /\ w.c = c /\ w.was = a.mem[c.n] /\ w.arg = arg /\ w.doc = << >> OBVIOUS
<1> HIDE DEF w
<1>5. WaitOK(a, w, N, G)
  <2>1. w.c.ep <= a.epoch /\ Live(a, w.c.n) BY <1>4 DEF Turn, ThreadOK
  <2>2. on # "mark" BY DEF AsksWell, Native
  <2>3. /\ "abandon" \in w.c.who => w.on \in {"interrupt", "ack"}
        /\ w.on \in {"mark", "complete"} => Direct(a.mem[w.c.n])
    BY <1>4, <2>2 DEF AsksWell
  <2>4. /\ w.on = "execute" => w.arg.i \in DOMAIN w.was.jr.calls
        /\ w.on = "bind" => w.arg.d \in Verdicts
        /\ w.on = "prepare" => w.was.st = "prepared"
        /\ w.on = "approve" => \E i \in DOMAIN w.was.jr.calls : Open(w.was.jr.calls[i]) /\ Pending(w.was.jr.calls[i])
    BY <1>4 DEF AsksWell
  <2>5. w.on # "prep" /\ w.on \notin Saves /\ w.on \notin Tx /\ w.on # "slot" BY <1>3, <1>4 DEF Tx
  <2> QED BY <1>4, <2>1, <2>3, <2>4, <2>5 DEF WaitOK
<1>6. Marked(a, w) => Free(a, N)
  <2>1. on # "slot" BY <1>3 DEF Tx
  <2> QED BY <1>4, <2>1 DEF Marked, Turn, ThreadOK
<1>7. "retry" \in w.c.who => a.retrying /\ \A k \in DOMAIN a.waits : "retry" \notin a.waits[k].c.who
  BY <1>4 DEF Turn, ThreadOK
<1>8. MayPush(a, w, N, G) BY <1>2, <1>3, <1>4, <1>5, <1>6, <1>7 DEF MayPush
<1>9. Call(a, c, on, arg) = Pushed(a, w) BY DEF Call, Pushed, w
<1> QED BY <1>1, <1>8, <1>9, PushedSound

\* What a save has to be sure of.
SavesWell(a, c, on, p, N, G) ==
  /\ on \in Saves \ {"prep"} /\ p \in Pends
  /\ "abandon" \in c.who => on = "ack"
  /\ on \in Tx => p.n = c.n
  /\ on = "slot" => OnJournal(p) /\ Let_go(p.tx.before, p.n, G) /\ (p.then.at = "abandoned" /\ p.then.live /\ c.ep = a.epoch => Free(a, N))
  /\ on \in Tx \ {"slot"} => p.kind = "ack"
  /\ on = "mark" => Direct(a.mem[c.n])

\* A save of the document as it is in memory.
LEMMA Saved == ASSUME NEW N \in Nat, NEW G, NEW a, NEW c, Turn(a, c, N, G),
                      NEW on, NEW p, SavesWell(a, c, on, p, N, G)
               PROVE  Sound(Saving(a, c, on, p), N, G)
<1> DEFINE w == [on |-> on, c |-> c, p |-> p, doc |-> a.mem, was |-> NewAttempt, arg |-> NoThen]
<1>1. a \in Apps /\ Sound(a, N, G) /\ c \in Threads /\ Doc(a.mem, N, G) /\ a.mem \in Seq(Att)
  BY DEF Turn, Sound, ThreadOK, Doc
<1>2. w \in Waits
  <2>1. on \in Saves \cup Native \cup {"approve"} /\ p \in Pends BY DEF SavesWell
  <2> QED BY <1>1, <2>1, NoneTyped DEF Waits
<1>3. on # "prep" /\ on \notin {"execute", "bind", "prepare", "approve", "complete"}
  BY DEF SavesWell, Saves, Tx
<1>4. w.on = on /\ w.c = c /\ w.p = p /\ w.doc = a.mem OBVIOUS
<1> HIDE DEF w
<1>5. WaitOK(a, w, N, G)
  <2>1. w.c.ep <= a.epoch /\ Live(a, w.c.n) BY <1>4 DEF Turn, ThreadOK
  <2> QED BY <1>1, <1>3, <1>4, <2>1 DEF WaitOK, SavesWell
<1>6. Marked(a, w) => Free(a, N) BY <1>4 DEF Marked, Turn, ThreadOK, SavesWell
<1>7. "retry" \in w.c.who => a.retrying /\ \A k \in DOMAIN a.waits : "retry" \notin a.waits[k].c.who
  BY <1>4 DEF Turn, ThreadOK
<1>8. MayPush(a, w, N, G) BY <1>2, <1>3, <1>4, <1>5, <1>6, <1>7 DEF MayPush
<1>9. Saving(a, c, on, p) = Pushed(a, w) BY DEF Saving, Pushed, w
<1> QED BY <1>1, <1>8, <1>9, PushedSound

----------------------------------------------------------------------------
(***************************************************************************)
(* Saving a journal, and starting an attempt.                               *)
(***************************************************************************)

\* What the continuation of a saved journal has to be sure of.
ThenOK(a, c, att, then, N) ==
  /\ then \in Thens /\ then.at # "none"
  /\ then.at = "intended" => then.i \in DOMAIN att.jr.calls
  /\ then.at = "decided" => then.d \in Verdicts
  /\ then.at = "abandoned" /\ then.live /\ c.ep = a.epoch => Free(a, N)

\* A transaction on a journal: the document changes in memory, the slot holds
\* it, and the save starts.
LEMMA SaveSound == ASSUME NEW N \in Nat, NEW G, NEW a, NEW c, Plain(a, c, N, G),
                          NEW kind \in {"checkpoint", "cancel", "final"},
                          NEW att \in Att, IsAgent(att), Let_go(att, c.n, G), ~Direct(a.mem[c.n]),
                          NEW then, ThenOK(a, c, att, then, N)
                   PROVE  Sound(Save(a, c, kind, att, then), N, G)
<1> DEFINE next == Put(a.mem, c.n, att)
           p == [ep |-> c.ep, n |-> c.n, kind |-> kind, then |-> then,
                 tx |-> [before |-> a.mem[c.n], next |-> next, state |-> "open"]]
           b == [a EXCEPT !.mem = next, !.slot = p]
<1>1. /\ a \in Apps /\ Sound(a, N, G) /\ c \in Threads /\ Doc(a.mem, N, G) /\ Refs(a, G) /\ Live(a, c.n)
      /\ c.n \in DOMAIN a.mem /\ c.ep <= a.epoch /\ a.mem \in Seq(Att)
  BY DEF Plain, Turn, Sound, ThreadOK, Doc, Live
<1>2. a.mem[c.n] \in Att /\ Let_go(a.mem[c.n], c.n, G) BY <1>1 DEF Doc
<1>3. /\ Doc(next, N, G) /\ DOMAIN next = DOMAIN a.mem /\ next \in Seq(Att) /\ Len(next) = Len(a.mem)
      /\ next[c.n] = att /\ \A k \in DOMAIN a.mem : k # c.n => next[k] = a.mem[k]
  BY <1>1, PutTyped
<1> HIDE DEF next
<1>4. p \in Pends
  <2>1. [before |-> a.mem[c.n], next |-> next, state |-> "open"] \in Txs BY <1>2, <1>3 DEF Txs
  <2>2. c.ep \in Nat /\ c.n \in Nat /\ then \in Thens BY <1>1 DEF Threads, ThenOK
  <2> QED BY <2>1, <2>2 DEF Pends
<1>5. /\ p.ep = c.ep /\ p.n = c.n /\ p.kind = kind /\ p.then = then
      /\ p.tx.before = a.mem[c.n] /\ p.tx.next = next
  OBVIOUS
<1> HIDE DEF p
<1>6. OnJournal(p) BY <1>3, <1>5 DEF OnJournal, ThenOK
<1>7. /\ b \in Apps /\ b.mem = next /\ b.slot = p
      /\ b.phase = a.phase /\ b.at = a.at /\ b.waits = a.waits
      /\ b.epoch = a.epoch /\ b.prep = a.prep
      /\ b.run = a.run /\ b.runOf = a.runOf
      /\ b.ack = a.ack /\ b.term = a.term /\ b.act = a.act /\ b.commit = a.commit
      /\ b.retrying = a.retrying
  BY <1>1, <1>3, <1>4 DEF Apps
<1> HIDE DEF b
<1>8. Kept(a, b) BY <1>3, <1>7 DEF Kept
<1>9. \A n : Live(a, n) => Live(b, n) BY <1>3, <1>7 DEF Live
<1>10. Refs(b, G)
  <2>1. /\ b.at <= Len(b.mem) /\ (b.phase \in {"retryable", "resume_available"} => b.at # 0)
    BY <1>1, <1>3, <1>7 DEF Refs
  <2>2. b.slot # NoPending => /\ Live(b, b.slot.n) /\ b.slot.ep <= b.epoch /\ OnJournal(b.slot)
                              /\ Let_go(b.slot.tx.before, b.slot.n, G)
    BY <1>1, <1>2, <1>5, <1>6, <1>7, <1>9
  <2>3. b.ack # NoPending => Live(b, b.ack.n) /\ b.ack.ep <= b.epoch /\ b.ack.kind = "ack"
    BY <1>1, <1>7, <1>9 DEF Refs
  <2>4. (b.term # NoTerm => Live(b, b.term.n)) /\ (b.act # 0 => Live(b, b.act))
    BY <1>1, <1>7, <1>9 DEF Refs
  <2>5. b.commit # 0 => Live(b, b.commit) /\ b.mem[b.commit].st = "completed" /\ ~IsAgent(b.mem[b.commit])
    <3>1. SUFFICES ASSUME b.commit # 0
                   PROVE Live(b, b.commit) /\ b.mem[b.commit].st = "completed" /\ ~IsAgent(b.mem[b.commit])
      OBVIOUS
    <3>2. Live(a, a.commit) /\ a.mem[a.commit].st = "completed" /\ ~IsAgent(a.mem[a.commit])
      BY <1>1, <1>7, <3>1 DEF Refs
    <3>3. a.commit # c.n BY <3>2 DEF Direct
    <3> QED BY <1>3, <1>7, <1>9, <3>2, <3>3 DEF Live
  <2>6. b.run # 0 => b.run <= b.epoch /\ Live(b, b.runOf)
    BY <1>1, <1>7, <1>9 DEF Refs
  <2>7. b.prep # NoPrep => /\ b.prep.n = Len(b.mem) /\ b.prep.n # 0 /\ b.prep.ep <= b.epoch
                           /\ b.mem[b.prep.n] = NewAttempt
    <3>1. SUFFICES ASSUME a.prep # NoPrep
                   PROVE /\ a.prep.n = Len(next) /\ a.prep.n # 0 /\ a.prep.ep <= a.epoch
                         /\ next[a.prep.n] = NewAttempt
      BY <1>7
    <3>2. a.prep.n # c.n BY <1>1, <3>1 DEF Live
    <3>3. /\ a.prep.n = Len(a.mem) /\ a.prep.n # 0 /\ a.prep.ep <= a.epoch /\ a.mem[a.prep.n] = NewAttempt
      BY <1>1, <3>1 DEF Refs
    <3>4. a.prep.n \in DOMAIN a.mem BY <1>1, <3>3
    <3> QED BY <1>3, <3>2, <3>3, <3>4
  <2> QED BY <2>1, <2>2, <2>3, <2>4, <2>5, <2>6, <2>7 DEF Refs
<1>11. Sound(b, N, G) /\ ThreadOK(b, c, N) BY <1>1, <1>3, <1>7, <1>8, <1>10, Moved DEF Plain, Turn
<1>12. Free(a, N) => Free(b, N) BY <1>3, <1>7 DEF Free, Marked
<1>13. SavesWell(b, c, "slot", p, N, G)
  <2>1. "slot" \in Saves \ {"prep"} /\ "slot" \in Tx BY DEF Saves, Tx
  <2>2. p.then.at = "abandoned" /\ p.then.live /\ c.ep = b.epoch => Free(b, N) BY <1>5, <1>7, <1>12 DEF ThenOK
  <2> QED BY <1>2, <1>4, <1>5, <1>6, <2>1, <2>2 DEF SavesWell, Plain
<1>14. Save(a, c, kind, att, then) = Saving(b, c, "slot", p) BY DEF Save, b, p, next, Put
<1> QED BY <1>11, <1>13, <1>14, Saved DEF Turn

Raise(a) == [a EXCEPT !.epoch = @ + 1]

\* Raising the epoch outdates every continuation, so none of them asks the
\* turn again.
LEMMA RaiseSound == ASSUME NEW N \in Nat, NEW G, NEW a, Sound(a, N, G)
                    PROVE  LET b == Raise(a)
                           IN /\ Sound(b, N, G) /\ b \in Apps
                              /\ \A c : ThreadOK(a, c, N) => ThreadOK(b, c, N)
                              /\ b.prep = NoPrep /\ Len(b.mem) < N => Free(b, N)
                              /\ b.epoch = a.epoch + 1 /\ b.mem = a.mem /\ b.waits = a.waits /\ b.prep = a.prep
                              /\ b.kind = a.kind /\ b.phase = a.phase /\ b.at = a.at /\ b.retrying = a.retrying
                              /\ b.run = a.run /\ b.runOf = a.runOf /\ b.act = a.act /\ b.slot = a.slot
                              /\ b.ack = a.ack /\ b.term = a.term /\ b.commit = a.commit
<1> DEFINE b == Raise(a)
<1>1. a \in Apps /\ Refs(a, G) /\ Doc(a.mem, N, G) /\ Pairs(a, N)
      /\ (\A k \in DOMAIN a.waits : WaitOK(a, a.waits[k], N, G))
  BY DEF Sound
<1>2. /\ b \in Apps /\ b.epoch = a.epoch + 1 /\ b.mem = a.mem /\ b.waits = a.waits /\ b.prep = a.prep
      /\ b.kind = a.kind /\ b.phase = a.phase /\ b.at = a.at /\ b.retrying = a.retrying
      /\ b.run = a.run /\ b.runOf = a.runOf /\ b.act = a.act /\ b.slot = a.slot
      /\ b.ack = a.ack /\ b.term = a.term /\ b.commit = a.commit
  <2>1. a.epoch + 1 \in Nat BY <1>1 DEF Apps
  <2> DEFINE e == a.epoch + 1
  <2>2. Raise(a) = [a EXCEPT !.epoch = e] BY <1>1 DEF Apps, Raise
  <2> HIDE DEF e
  <2>3. e \in Nat BY <2>1 DEF e
  <2>4. /\ b \in Apps /\ b.epoch = e /\ b.mem = a.mem /\ b.waits = a.waits /\ b.prep = a.prep
        /\ b.kind = a.kind /\ b.phase = a.phase /\ b.at = a.at /\ b.retrying = a.retrying
        /\ b.run = a.run /\ b.runOf = a.runOf /\ b.act = a.act /\ b.slot = a.slot
        /\ b.ack = a.ack /\ b.term = a.term /\ b.commit = a.commit
    BY <1>1, <2>2, <2>3 DEF Apps
  <2> QED BY <2>4 DEF e
<1>3. a.epoch \in Nat /\ a.waits \in Seq(Waits) /\ a.slot \in Pends /\ a.ack \in Pends /\ a.prep \in Preps /\ a.run \in Nat
  BY <1>1 DEF Apps
<1> HIDE DEF b
<1>4. \A n : Live(b, n) <=> Live(a, n) BY <1>2 DEF Live
<1>5. Refs(b, G)
  <2>1. a.slot.ep \in Nat /\ a.ack.ep \in Nat /\ a.prep.ep \in Nat BY <1>3 DEF Pends, Preps
  <2>2. b.slot # NoPending => /\ Live(b, b.slot.n) /\ b.slot.ep <= b.epoch /\ OnJournal(b.slot)
                              /\ Let_go(b.slot.tx.before, b.slot.n, G)
    BY <1>1, <1>2, <1>3, <1>4, <2>1 DEF Refs
  <2>3. b.ack # NoPending => Live(b, b.ack.n) /\ b.ack.ep <= b.epoch /\ b.ack.kind = "ack"
    BY <1>1, <1>2, <1>3, <1>4, <2>1 DEF Refs
  <2>4. b.run # 0 => b.run <= b.epoch /\ Live(b, b.runOf)
    BY <1>1, <1>2, <1>3, <1>4 DEF Refs
  <2>5. b.prep # NoPrep => /\ b.prep.n = Len(b.mem) /\ b.prep.n # 0 /\ b.prep.ep <= b.epoch
                           /\ b.mem[b.prep.n] = NewAttempt
    BY <1>1, <1>2, <1>3, <2>1 DEF Refs
  <2> QED BY <1>1, <1>2, <1>4, <2>2, <2>3, <2>4, <2>5 DEF Refs
<1>6. \A k \in DOMAIN b.waits : WaitOK(b, b.waits[k], N, G) /\ ~Marked(b, b.waits[k])
  <2>1. SUFFICES ASSUME NEW k \in DOMAIN a.waits PROVE WaitOK(b, a.waits[k], N, G) /\ ~Marked(b, a.waits[k])
    BY <1>2
  <2> DEFINE w == a.waits[k]
  <2>2. WaitOK(a, w, N, G) /\ w \in Waits BY <1>1, <1>3
  <2>3. w.c.ep \in Nat BY <2>2 DEF Waits, Threads
  <2> HIDE DEF w
  <2>4. w.c.ep <= a.epoch BY <2>2 DEF WaitOK
  <2>5. WaitOK(b, w, N, G) BY <1>2, <1>3, <1>4, <2>2, <2>3 DEF WaitOK
  <2>6. ~Marked(b, w) BY <1>2, <1>3, <2>3, <2>4 DEF Marked
  <2> QED BY <2>5, <2>6 DEF w
<1>7. Pairs(b, N) BY <1>1, <1>2, <1>6 DEF Pairs
<1>8. b.prep = NoPrep /\ Len(b.mem) < N => Free(b, N) BY <1>6 DEF Free
<1>9. ASSUME NEW c, ThreadOK(a, c, N) PROVE ThreadOK(b, c, N)
  <2>1. c.ep \in Nat /\ c.ep <= a.epoch BY <1>9 DEF ThreadOK, Threads
  <2> QED BY <1>2, <1>3, <1>4, <1>9, <2>1 DEF ThreadOK
<1>10. Sound(b, N, G) BY <1>1, <1>2, <1>5, <1>6, <1>7 DEF Sound
<1> QED BY <1>2, <1>8, <1>9, <1>10 DEF b


Grown(a, m, prep) == [a EXCEPT !.mem = m, !.prep = prep]

\* What an attempt more in the document changes.
LEMMA GrownIs ==
  ASSUME NEW a \in Apps, NEW m \in Seq(Att), NEW prep \in Preps
  PROVE  LET x == Grown(a, m, prep)
         IN /\ x \in Apps /\ x.mem = m /\ x.prep = prep /\ x.waits = a.waits
            /\ x.epoch = a.epoch /\ x.slot = a.slot /\ x.ack = a.ack /\ x.term = a.term /\ x.act = a.act
            /\ x.commit = a.commit /\ x.run = a.run /\ x.runOf = a.runOf /\ x.retrying = a.retrying
<1> DEFINE x == Grown(a, m, prep)
<1>1. x \in Apps
  <2> DEFINE y == [a EXCEPT !.mem = m]
  <2>1. y \in Apps BY Zenon DEF Apps
  <2>2. x = [y EXCEPT !.prep = prep] BY SMT DEF Apps, Grown
  <2> HIDE DEF y
  <2> QED BY <2>1, <2>2, Zenon DEF Apps
<1>2. x.mem = m /\ x.prep = prep BY SMT DEF Apps, Grown
<1>3. x.waits = a.waits /\ x.epoch = a.epoch /\ x.slot = a.slot /\ x.ack = a.ack /\ x.term = a.term BY SMT DEF Apps, Grown
<1>4. x.act = a.act /\ x.commit = a.commit /\ x.run = a.run /\ x.runOf = a.runOf /\ x.retrying = a.retrying BY SMT DEF Apps, Grown
<1> QED BY <1>1, <1>2, <1>3, <1>4

\* A new attempt, where nothing else is being prepared.
LEMMA BeginSound == ASSUME NEW N \in Nat, NEW G, NEW a, Sound(a, N, G), Free(a, N),
                           NEW c, c.ep \in Nat, c.ep <= a.epoch
                    PROVE  Sound(Begin(a, c), N, G)
<1> DEFINE m == Append(a.mem, NewAttempt)
           l == Len(m)
           prep == [ep |-> c.ep, n |-> l, dur |-> "none", mem |-> m]
           d == [n |-> l, ep |-> c.ep, who |-> {}]
           b == [a EXCEPT !.mem = m, !.prep = prep, !.phase = "preparing", !.at = l]
           w == [on |-> "prep", c |-> d, p |-> NoPending, doc |-> m, was |-> NewAttempt, arg |-> NoThen]
<1>1. /\ a \in Apps /\ Refs(a, G) /\ Doc(a.mem, N, G) /\ Pairs(a, N) /\ a.mem \in Seq(Att) /\ Len(a.mem) \in Nat
      /\ (\A k \in DOMAIN a.waits : WaitOK(a, a.waits[k], N, G))
  BY DEF Sound, Doc
<1>2. a.prep = NoPrep /\ Len(a.mem) < N /\ \A k \in DOMAIN a.waits : ~Marked(a, a.waits[k]) BY DEF Free
<1>3. NewAttempt \in Att /\ ~(NewAttempt.jr.ph \in Terminal) BY NoneTyped DEF NewAttempt, NoJournal, Terminal
<1>4. /\ m \in Seq(Att) /\ l = Len(a.mem) + 1 /\ DOMAIN m = DOMAIN a.mem \cup {l} /\ l \notin DOMAIN a.mem
      /\ m[l] = NewAttempt /\ \A k \in DOMAIN a.mem : m[k] = a.mem[k]
  BY <1>1, <1>3, SMTT(30)
<1> HIDE DEF m, l
<1>5. Doc(m, N, G)
  <2>1. Len(m) <= N BY <1>1, <1>2, <1>4 DEF l
  <2>2. \A k \in DOMAIN a.mem : Let_go(a.mem[k], k, G) BY <1>1 DEF Doc
  <2>3. Let_go(NewAttempt, l, G) BY <1>3 DEF Let_go
  <2> QED BY <1>4, <2>1, <2>2, <2>3 DEF Doc
<1>6. l \in Nat /\ l # 0 BY <1>1, <1>4
<1>7. prep \in Preps /\ prep # NoPrep BY <1>4, <1>6 DEF Preps, NoPrep
<1>8. prep.ep = c.ep /\ prep.n = l /\ prep.dur = "none" OBVIOUS
<1>9. d \in Threads BY <1>6 DEF Threads
<1>10. w \in Waits
  <2>1. "prep" \in Saves \cup Native \cup {"approve"} BY DEF Saves
  <2> QED BY <1>3, <1>4, <1>9, <2>1, NoneTyped DEF Waits
<1>11. w.on = "prep" /\ w.c = d /\ w.doc = m /\ d.n = l /\ d.ep = c.ep /\ d.who = {} OBVIOUS
<1> HIDE DEF prep
<1>12. /\ b \in Apps /\ b.mem = m /\ b.prep = prep /\ b.phase = "preparing" /\ b.at = l /\ b.waits = a.waits
       /\ b.epoch = a.epoch /\ b.slot = a.slot /\ b.ack = a.ack /\ b.term = a.term /\ b.act = a.act
       /\ b.commit = a.commit /\ b.run = a.run /\ b.runOf = a.runOf /\ b.retrying = a.retrying
  <2> DEFINE x == Grown(a, m, prep)
  <2>1. /\ x \in Apps /\ x.mem = m /\ x.prep = prep /\ x.waits = a.waits
        /\ x.epoch = a.epoch /\ x.slot = a.slot /\ x.ack = a.ack /\ x.term = a.term /\ x.act = a.act
        /\ x.commit = a.commit /\ x.run = a.run /\ x.runOf = a.runOf /\ x.retrying = a.retrying
    BY <1>1, <1>4, <1>7, GrownIs
  <2>2. b = Publish(x, "preparing", l) BY DEF b, x, Grown, Publish
  <2>3. "preparing" \in Phases BY DEF Phases
  <2> HIDE DEF x, b
  <2> QED BY <1>6, <2>1, <2>2, <2>3, PublishIs
<1>13. Begin(a, c) = Pushed(b, w)
  BY DEF Begin, Saving, Publish, Pushed, Context, b, w, d, prep, l, m
<1> HIDE DEF b, w, d
<1>14. \A n : Live(a, n) => Live(b, n) /\ b.mem[n] = a.mem[n] BY <1>4, <1>8, <1>12 DEF Live
<1>15. Refs(b, G)
  <2>1. /\ b.at <= Len(b.mem) /\ (b.phase \in {"retryable", "resume_available"} => b.at # 0)
    BY <1>6, <1>12 DEF l
  <2>2. b.slot # NoPending => /\ Live(b, b.slot.n) /\ b.slot.ep <= b.epoch /\ OnJournal(b.slot)
                              /\ Let_go(b.slot.tx.before, b.slot.n, G)
    BY <1>1, <1>12, <1>14 DEF Refs
  <2>3. b.ack # NoPending => Live(b, b.ack.n) /\ b.ack.ep <= b.epoch /\ b.ack.kind = "ack"
    BY <1>1, <1>12, <1>14 DEF Refs
  <2>4. (b.term # NoTerm => Live(b, b.term.n)) /\ (b.act # 0 => Live(b, b.act))
    BY <1>1, <1>12, <1>14 DEF Refs
  <2>5. b.commit # 0 => Live(b, b.commit) /\ b.mem[b.commit].st = "completed" /\ ~IsAgent(b.mem[b.commit])
    BY <1>1, <1>12, <1>14 DEF Refs
  <2>6. b.run # 0 => b.run <= b.epoch /\ Live(b, b.runOf)
    BY <1>1, <1>12, <1>14 DEF Refs
  <2>7. /\ b.prep.n = Len(b.mem) /\ b.prep.n # 0 /\ b.prep.ep <= b.epoch /\ b.mem[b.prep.n] = NewAttempt
    BY <1>4, <1>6, <1>8, <1>12 DEF l
  <2> QED BY <2>1, <2>2, <2>3, <2>4, <2>5, <2>6, <2>7 DEF Refs
<1>16. \A k \in DOMAIN a.waits : a.waits[k].on # "prep" BY <1>1, <1>2 DEF WaitOK
<1>17. \A k \in DOMAIN b.waits : WaitOK(b, b.waits[k], N, G)
  <2>1. SUFFICES ASSUME NEW k \in DOMAIN a.waits PROVE WaitOK(b, a.waits[k], N, G) BY <1>12
  <2> DEFINE x == a.waits[k]
  <2>2. WaitOK(a, x, N, G) /\ x.on # "prep" BY <1>1, <1>16
  <2> HIDE DEF x
  <2>3. Live(a, x.c.n) BY <2>2 DEF WaitOK
  <2>4. WaitOK(b, x, N, G) BY <1>12, <1>14, <2>2, <2>3 DEF WaitOK
  <2> QED BY <2>4 DEF x
<1>18. \A k \in DOMAIN b.waits : ~Marked(b, b.waits[k]) BY <1>2, <1>12 DEF Marked
<1>19. Pairs(b, N) BY <1>1, <1>12, <1>18 DEF Pairs
<1>20. Sound(b, N, G) BY <1>5, <1>12, <1>15, <1>17, <1>19 DEF Sound
<1>21. WaitOK(b, w, N, G)
  <2>1. "prep" \in Saves /\ "prep" \notin Tx BY DEF Saves, Tx
  <2> QED BY <1>5, <1>7, <1>8, <1>11, <1>12, <2>1 DEF WaitOK
<1>22. ~Marked(b, w) BY <1>11 DEF Marked
<1>23. MayPush(b, w, N, G) BY <1>10, <1>11, <1>12, <1>16, <1>21, <1>22 DEF MayPush
<1> QED BY <1>13, <1>20, <1>23, PushedSound
----------------------------------------------------------------------------
(***************************************************************************)
(* The end of a function.                                                   *)
(***************************************************************************)

\* A continuation of which only an abandonment may be left to finish.
Unwound(a, c, N, G) == /\ Sound(a, N, G) /\ c \in Threads /\ c.ep <= a.epoch /\ Live(a, c.n)
                       /\ "abandon" \in c.who /\ c.ep = a.epoch => Free(a, N)

\* A finally clause runs in the functions that have one.
LEMMA EndIs == ASSUME NEW a, NEW c, NEW f
               PROVE  End(a, c, f) = IF f \in c.who THEN Finally(a, c, f) ELSE a
BY DEF End

\* The flags that the finally clauses of two commands clear.
LEMMA FinallyClears == ASSUME NEW a, NEW c
                       PROVE  /\ Finally(a, c, "retry") = [a EXCEPT !.retrying = FALSE]
                              /\ Finally(a, c, "recommit") = [a EXCEPT !.recommit = FALSE]
BY DEF Finally

\* An abandonment ends by asking the turn again, unless something else was
\* started in between.
LEMMA FinallyGivesUp == ASSUME NEW a, NEW c
                        PROVE  /\ a.epoch # c.ep => Finally(a, c, "abandon") = a
                               /\ a.epoch = c.ep => Finally(a, c, "abandon") \in {Begin(a, c), Publish(a, "blocked", c.n)}
BY DEF Finally

\* The finally clause of a preparation.
LEMMA EndPrepared == ASSUME NEW N \in Nat, NEW G, NEW a, NEW c, Turn(a, c, N, G)
                     PROVE  Turn(End(a, c, "prepared"), c, N, G)
<1> DEFINE req == IF a.req = c.ep THEN 0 ELSE a.req
           e == [a EXCEPT !.run = 0, !.req = req]
<1>1. a \in Apps /\ Sound(a, N, G) /\ ThreadOK(a, c, N) BY DEF Turn, Sound
<1>0. a.req \in Nat BY <1>1 DEF Apps
<1>2. req \in Nat BY <1>0
<1>4. Finally(a, c, "prepared") \in {a, e} BY Zenon DEF Finally
<1>5. End(a, c, "prepared") \in {a, e} BY <1>4, EndIs
<1> HIDE DEF req
<1>3. e \in Apps /\ Tuned(a, e) BY <1>1, <1>2 DEF Apps, Tuned
<1> HIDE DEF e
<1> QED BY <1>1, <1>3, <1>5, TunedSound DEF Turn

\* The finally clause of a recovery.
LEMMA EndRecover == ASSUME NEW N \in Nat, NEW G, NEW a, NEW c, Turn(a, c, N, G)
                    PROVE  Turn(End(a, c, "recover"), c, N, G)
<1> DEFINE e == [a EXCEPT !.run = 0]
<1>1. a \in Apps /\ Sound(a, N, G) /\ ThreadOK(a, c, N) BY DEF Turn, Sound
<1>2. e \in Apps /\ Tuned(a, e) BY <1>1 DEF Apps, Tuned
<1>3. Finally(a, c, "recover") \in {a, e} BY DEF Finally
<1>4. End(a, c, "recover") \in {a, e} BY <1>3, EndIs
<1> HIDE DEF e
<1> QED BY <1>1, <1>2, <1>4, TunedSound DEF Turn

\* The finally clause of a settlement.
LEMMA EndSettle == ASSUME NEW N \in Nat, NEW G, NEW a, NEW c, Turn(a, c, N, G)
                   PROVE  Turn(End(a, c, "settle"), c, N, G)
<1> DEFINE b == [a EXCEPT !.flight = 0]
           run == IF a.run = c.ep THEN 0 ELSE a.run
           e == [b EXCEPT !.run = run]
           d == IF e.epoch = c.ep THEN Raise(e) ELSE e
<1>1. a \in Apps /\ Sound(a, N, G) /\ ThreadOK(a, c, N) BY DEF Turn, Sound
<1>2. run \in {a.run, 0} OBVIOUS
<1>3. b \in Apps /\ Tuned(a, b) BY <1>1 DEF Apps, Tuned
<1>4. Turn(b, c, N, G) BY <1>1, <1>3, TunedSound DEF Turn
<1>5. e \in Apps /\ Tuned(a, e) BY <1>1, <1>2 DEF Apps, Tuned
<1>6. Turn(e, c, N, G) BY <1>1, <1>5, TunedSound DEF Turn
<1>7. Turn(d, c, N, G) BY <1>6, RaiseSound DEF Turn
<1>8. "resume_available" \in Phases BY DEF Phases, Resting
<1>9. Turn(Publish(d, "resume_available", c.n), c, N, G) BY <1>7, <1>8, Shows
<1>10. d = [b EXCEPT !.run = IF @ = c.ep THEN 0 ELSE @, !.epoch = IF @ = c.ep THEN @ + 1 ELSE @]
  BY <1>1 DEF Raise, Apps
<1>11. End(a, c, "settle") \in {a, b, d, Publish(d, "resume_available", c.n)}
  <2> DEFINE dd == [b EXCEPT !.run = IF @ = c.ep THEN 0 ELSE @, !.epoch = IF @ = c.ep THEN @ + 1 ELSE @]
  <2>0. Finally(a, c, "settle") \in {b, dd, Publish(dd, "resume_available", c.n)} BY DEF Finally
  <2>1. End(a, c, "settle") \in {a, b, dd, Publish(dd, "resume_available", c.n)} BY <2>0, EndIs
  <2> HIDE DEF dd, d
  <2> QED BY <1>10, <2>1 DEF dd
<1> HIDE DEF b, d
<1> QED BY <1>4, <1>7, <1>9, <1>11

\* The finally clause of a repeated save, when no other continuation is under
\* it.
LEMMA UnretriedSound == ASSUME NEW N \in Nat, NEW G, NEW a, Sound(a, N, G),
                               \A k \in DOMAIN a.waits : "retry" \notin a.waits[k].c.who
                        PROVE  /\ Sound([a EXCEPT !.retrying = FALSE], N, G)
                               /\ \A c : Unwound(a, c, N, G) => Unwound([a EXCEPT !.retrying = FALSE], c, N, G)
<1> DEFINE b == [a EXCEPT !.retrying = FALSE]
<1>1. a \in Apps /\ Refs(a, G) /\ Doc(a.mem, N, G) /\ Pairs(a, N)
      /\ (\A k \in DOMAIN a.waits : WaitOK(a, a.waits[k], N, G))
  BY DEF Sound
<1>2. /\ b \in Apps /\ b.mem = a.mem /\ b.prep = a.prep /\ b.phase = a.phase /\ b.at = a.at /\ b.waits = a.waits
      /\ b.epoch = a.epoch /\ b.slot = a.slot /\ b.ack = a.ack /\ b.term = a.term /\ b.act = a.act
      /\ b.commit = a.commit /\ b.run = a.run /\ b.runOf = a.runOf
  BY <1>1 DEF Apps
<1> HIDE DEF b
<1>3. \A n : Live(b, n) <=> Live(a, n) BY <1>2 DEF Live
<1>4. \A x : Marked(b, x) <=> Marked(a, x) BY <1>2 DEF Marked
<1>5. \A x : WaitOK(a, x, N, G) => WaitOK(b, x, N, G) BY <1>2, <1>3 DEF WaitOK
<1>6. Refs(b, G) BY <1>1, <1>2, <1>3 DEF Refs
<1>7. Pairs(b, N) BY <1>1, <1>2, <1>4 DEF Pairs
<1>8. Free(a, N) => Free(b, N) BY <1>2, <1>4 DEF Free
<1>9. Sound(b, N, G) BY <1>1, <1>2, <1>5, <1>6, <1>7 DEF Sound
<1>10. \A c : Unwound(a, c, N, G) => Unwound(b, c, N, G) BY <1>2, <1>3, <1>8, <1>9 DEF Unwound
<1> QED BY <1>9, <1>10 DEF b

\* The finally clause of a repeated commit.
LEMMA EndRecommit == ASSUME NEW N \in Nat, NEW G, NEW a, Sound(a, N, G)
                     PROVE  LET b == [a EXCEPT !.recommit = FALSE]
                            IN Sound(b, N, G) /\ \A c : Unwound(a, c, N, G) => Unwound(b, c, N, G)
<1> DEFINE b == [a EXCEPT !.recommit = FALSE]
<1>1. a \in Apps BY DEF Sound
<1>2. b \in Apps /\ Tuned(a, b) BY <1>1 DEF Apps, Tuned
<1>3. b.mem = a.mem /\ b.waits = a.waits /\ b.epoch = a.epoch /\ b.prep = a.prep BY <1>2 DEF Tuned
<1> HIDE DEF b
<1>4. Sound(b, N, G) BY <1>2, TunedSound
<1>5. \A x : Marked(b, x) <=> Marked(a, x) BY <1>3 DEF Marked
<1>6. Free(a, N) => Free(b, N) BY <1>3, <1>5 DEF Free
<1>7. \A n : Live(b, n) <=> Live(a, n) BY <1>3 DEF Live
<1>8. \A c : Unwound(a, c, N, G) => Unwound(b, c, N, G) BY <1>3, <1>4, <1>6, <1>7 DEF Unwound
<1> QED BY <1>4, <1>8 DEF b

\* The finally clause of an abandonment.
LEMMA EndAbandon == ASSUME NEW N \in Nat, NEW G, NEW a, NEW c, Unwound(a, c, N, G)
                    PROVE  Sound(End(a, c, "abandon"), N, G)
<1>1. CASE "abandon" \notin c.who \/ a.epoch # c.ep BY <1>1, EndIs, FinallyGivesUp DEF Unwound
<1>2. CASE "abandon" \in c.who /\ a.epoch = c.ep
  <2>1. c.ep \in Nat /\ c.ep <= a.epoch /\ Free(a, N) /\ Sound(a, N, G) BY <1>2 DEF Unwound, Threads
  <2>2. Sound(Begin(a, c), N, G) BY <2>1, BeginSound
  <2>3. c.n \in Nat /\ c.n <= Len(a.mem)
    <3>1. c.n \in DOMAIN a.mem /\ a.mem \in Seq(Att) BY DEF Unwound, Live, Sound, Doc
    <3> QED BY <3>1
  <2>4. "blocked" \in Phases BY DEF Phases, Resting
  <2>5. Sound(Publish(a, "blocked", c.n), N, G) BY <2>1, <2>3, <2>4, Published
  <2>6. End(a, c, "abandon") \in {Begin(a, c), Publish(a, "blocked", c.n)} BY <1>2, EndIs, FinallyGivesUp
  <2> QED BY <2>2, <2>5, <2>6
<1> QED BY <1>1, <1>2

\* The finally clauses of a continuation, one in the other.
LEMMA DoneIs == ASSUME NEW a, NEW c
                PROVE  Done(a, c) = End(End(End(End(End(End(a, c, "settle"), c, "prepared"), c, "recover"),
                                            c, "retry"), c, "recommit"), c, "abandon")
<1> DEFINE e1 == End(a, c, "settle")
           e2 == End(e1, c, "prepared")
           e3 == End(e2, c, "recover")
           e4 == End(e3, c, "retry")
           e5 == End(e4, c, "recommit")
           e6 == End(e5, c, "abandon")
           Step(f, k) == IF k = 0 THEN a ELSE End(f[k - 1], c, Nesting[k])
           After(f) == f = [k \in 0 .. 6 |-> Step(f, k)]
           g == [k \in 0 .. 6 |-> IF k = 0 THEN a ELSE IF k = 1 THEN e1 ELSE IF k = 2 THEN e2 ELSE IF k = 3 THEN e3
                                  ELSE IF k = 4 THEN e4 ELSE IF k = 5 THEN e5 ELSE e6]
           f == CHOOSE h : After(h)
<1>1. /\ Nesting[1] = "settle" /\ Nesting[2] = "prepared" /\ Nesting[3] = "recover"
      /\ Nesting[4] = "retry" /\ Nesting[5] = "recommit" /\ Nesting[6] = "abandon"
  BY DEF Nesting
<1>2. Done(a, c) = f[6] BY Zenon DEF Done
<1> HIDE DEF e1, e2, e3, e4, e5, e6
<1>3. \A k \in 0 .. 6 : g[k] = Step(g, k)
  <2>1. /\ g[0] = a /\ g[1] = e1 /\ g[2] = e2 /\ g[3] = e3 /\ g[4] = e4 /\ g[5] = e5 /\ g[6] = e6 OBVIOUS
  <2> HIDE DEF g
  <2>2. /\ e1 = End(a, c, "settle") /\ e2 = End(e1, c, "prepared") /\ e3 = End(e2, c, "recover")
        /\ e4 = End(e3, c, "retry") /\ e5 = End(e4, c, "recommit") /\ e6 = End(e5, c, "abandon")
    BY DEF e1, e2, e3, e4, e5, e6
  <2>3. ASSUME NEW k \in 0 .. 6 PROVE g[k] = Step(g, k)
    <3>1. k \in {0, 1, 2, 3, 4, 5, 6} OBVIOUS
    <3> QED BY <1>1, <2>1, <2>2, <3>1
  <2> QED BY <2>3
<1>4. After(g)
  <2>1. g = [k \in 0 .. 6 |-> g[k]] OBVIOUS
  <2> HIDE DEF g, Step
  <2> QED BY <1>3, <2>1
<1> HIDE DEF g
<1>5. After(f)
  <2> HIDE DEF After
  <2> QED BY <1>4
<1> HIDE DEF f
<1>6. \A k \in 0 .. 6 : f[k] = Step(f, k)
  <2> HIDE DEF Step
  <2> QED BY <1>5
<1>7. f[0] = a /\ f[1] = End(f[0], c, "settle") /\ f[2] = End(f[1], c, "prepared")
      /\ f[3] = End(f[2], c, "recover") /\ f[4] = End(f[3], c, "retry") /\ f[5] = End(f[4], c, "recommit")
      /\ f[6] = End(f[5], c, "abandon")
  BY <1>1, <1>6
<1> QED BY <1>2, <1>7 DEF e1, e2, e3, e4, e5, e6

\* A continuation that returns runs the finally clauses it is under,
\* innermost first.
LEMMA DoneSound == ASSUME NEW N \in Nat, NEW G, NEW a, NEW c, Turn(a, c, N, G)
                   PROVE  Sound(Done(a, c), N, G)
<1> DEFINE b == End(End(End(a, c, "settle"), c, "prepared"), c, "recover")
           d == End(b, c, "retry")
           e == End(d, c, "recommit")
<1>1. Turn(b, c, N, G) BY EndSettle, EndPrepared, EndRecover
<1>2. Done(a, c) = End(e, c, "abandon") BY DoneIs
<1> HIDE DEF b
<1>3. Unwound(b, c, N, G) BY <1>1 DEF Turn, ThreadOK, Unwound
<1>4. Unwound(d, c, N, G)
  <2>1. CASE "retry" \in c.who
    <3>1. \A k \in DOMAIN b.waits : "retry" \notin b.waits[k].c.who BY <1>1, <2>1 DEF Turn, ThreadOK
    <3>2. Unwound([b EXCEPT !.retrying = FALSE], c, N, G) BY <1>1, <1>3, <3>1, UnretriedSound DEF Turn
    <3>3. d = [b EXCEPT !.retrying = FALSE] BY <2>1, EndIs, FinallyClears
    <3> QED BY <3>2, <3>3
  <2>2. CASE "retry" \notin c.who BY <1>3, <2>2, EndIs
  <2> QED BY <2>1, <2>2
<1> HIDE DEF d
<1>5. Unwound(e, c, N, G)
  <2>1. Unwound([d EXCEPT !.recommit = FALSE], c, N, G) BY <1>4, EndRecommit DEF Unwound
  <2>2. e \in {d, [d EXCEPT !.recommit = FALSE]} BY EndIs, FinallyClears
  <2> QED BY <1>4, <2>1, <2>2
<1> QED BY <1>2, <1>5, EndAbandon

\* The attempt of the context need not be there when only a repeated save ends.
LEMMA DoneRetry == ASSUME NEW N \in Nat, NEW G, NEW a, Sound(a, N, G), NEW c, c.who \subseteq {"retry"},
                          \A k \in DOMAIN a.waits : c.who # {} => "retry" \notin a.waits[k].c.who
                   PROVE  Sound(Done(a, c), N, G)
<1>1. Done(a, c) = End(a, c, "retry") BY EndIs, DoneIs
<1>2. CASE "retry" \in c.who
  <2>1. Sound([a EXCEPT !.retrying = FALSE], N, G) BY <1>2, UnretriedSound
  <2> QED BY <1>1, <1>2, <2>1, EndIs, FinallyClears
<1>3. CASE "retry" \notin c.who BY <1>1, <1>3, EndIs
<1> QED BY <1>2, <1>3

----------------------------------------------------------------------------
(***************************************************************************)
(* Answered awaits and settled transactions.                                *)
(***************************************************************************)

\* A sequence without its k-th element.
LEMMA RemovedAt == ASSUME NEW S, NEW s \in Seq(S), NEW k \in DOMAIN s
                   PROVE  LET t == SubSeq(s, 1, k - 1) \o SubSeq(s, k + 1, Len(s))
                          IN /\ t \in Seq(S) /\ Len(t) = Len(s) - 1
                             /\ \A i \in DOMAIN t : /\ t[i] = s[IF i < k THEN i ELSE i + 1]
                                                    /\ (IF i < k THEN i ELSE i + 1) \in DOMAIN s \ {k}
<1> DEFINE u == SubSeq(s, 1, k - 1)
           v == SubSeq(s, k + 1, Len(s))
           t == u \o v
<1>1. k \in Nat /\ 1 <= k /\ k <= Len(s) /\ Len(s) \in Nat OBVIOUS
<1>2. u \in Seq(S) /\ Len(u) = k - 1 /\ \A i \in 1 .. k - 1 : u[i] = s[i]
  BY <1>1
<1>3. v \in Seq(S) /\ Len(v) = Len(s) - k /\ \A i \in 1 .. Len(s) - k : v[i] = s[k + i]
  BY <1>1
<1> HIDE DEF u, v
<1>4. t \in Seq(S) /\ Len(t) = Len(u) + Len(v) /\ DOMAIN t = 1 .. Len(u) + Len(v)
      /\ \A i \in 1 .. Len(u) + Len(v) : t[i] = IF i <= Len(u) THEN u[i] ELSE v[i - Len(u)]
  <2>1. u \in Seq(S) /\ v \in Seq(S) BY <1>2, <1>3
  <2>2. t \in Seq(S) /\ Len(t) = Len(u) + Len(v)
        /\ \A i \in 1 .. Len(u) + Len(v) : t[i] = IF i <= Len(u) THEN u[i] ELSE v[i - Len(u)]
    BY <2>1, ConcatProperties
  <2> HIDE DEF t
  <2>3. DOMAIN t = 1 .. Len(t) BY <2>2
  <2> QED BY <2>2, <2>3
<1> HIDE DEF t
<1>5. Len(t) = Len(s) - 1 BY <1>1, <1>2, <1>3, <1>4
<1>6. ASSUME NEW i \in DOMAIN t
      PROVE  /\ t[i] = s[IF i < k THEN i ELSE i + 1]
             /\ (IF i < k THEN i ELSE i + 1) \in DOMAIN s \ {k}
  <2>1. i \in 1 .. Len(s) - 1 BY <1>1, <1>2, <1>3, <1>4
  <2>2. CASE i < k
    <3>1. i \in 1 .. k - 1 /\ i <= Len(u) BY <1>1, <1>2, <2>1, <2>2
    <3>2. t[i] = s[i] BY <1>2, <1>4, <3>1
    <3> QED BY <1>1, <2>1, <2>2, <3>2
  <2>3. CASE ~(i < k)
    <3> DEFINE x == i - (k - 1)
    <3>1. i \in Nat /\ 1 <= i /\ i <= Len(s) - 1 /\ k <= i BY <1>1, <2>1, <2>3
    <3>2. x \in 1 .. Len(s) - k /\ ~(i <= k - 1) /\ k + x = i + 1 BY <1>1, <3>1
    <3>3. t[i] = v[i - Len(u)] BY <1>2, <1>4, <3>2
    <3>4. i - Len(u) = x BY <1>2
    <3> HIDE DEF x
    <3>5. v[x] = s[k + x] BY <1>3, <3>2
    <3>6. t[i] = s[i + 1] BY <3>2, <3>3, <3>4, <3>5
    <3>7. i + 1 \in DOMAIN s \ {k} BY <1>1, <3>1
    <3> QED BY <2>3, <3>6, <3>7
  <2> QED BY <2>2, <2>3
<1> QED BY <1>4, <1>5, <1>6 DEF t, u, v

\* What taking an await off the list leaves.
LEMMA TakenIs == ASSUME NEW a \in Apps, NEW k \in DOMAIN a.waits
                 PROVE  LET b == Taken(a, k)
                        IN /\ b \in Apps
                           /\ b.phase = a.phase /\ b.at = a.at /\ b.kind = a.kind
                           /\ b.mem = a.mem /\ b.epoch = a.epoch /\ b.prep = a.prep
                           /\ b.run = a.run /\ b.runOf = a.runOf /\ b.auth = a.auth /\ b.slot = a.slot
                           /\ b.ack = a.ack /\ b.term = a.term /\ b.act = a.act /\ b.commit = a.commit
                           /\ b.req = a.req /\ b.flight = a.flight /\ b.ok = a.ok
                           /\ b.retrying = a.retrying /\ b.read = a.read /\ b.recommit = a.recommit
                           /\ \A i \in DOMAIN b.waits : /\ b.waits[i] = a.waits[IF i < k THEN i ELSE i + 1]
                                                        /\ (IF i < k THEN i ELSE i + 1) \in DOMAIN a.waits \ {k}
                                                        /\ i \in Nat
<1> DEFINE t == SubSeq(a.waits, 1, k - 1) \o SubSeq(a.waits, k + 1, Len(a.waits))
<1>1. a.waits \in Seq(Waits) BY DEF Apps
<1>2. t \in Seq(Waits)
      /\ \A i \in DOMAIN t : /\ t[i] = a.waits[IF i < k THEN i ELSE i + 1]
                             /\ (IF i < k THEN i ELSE i + 1) \in DOMAIN a.waits \ {k}
  BY <1>1, RemovedAt
<1>3. Taken(a, k) = [a EXCEPT !.waits = t] BY DEF Taken
<1> HIDE DEF t
<1>4. \A i \in DOMAIN t : i \in Nat BY <1>2
<1> QED BY <1>2, <1>3, <1>4 DEF Apps

\* What the continuation of an answered await may rely on.
LEMMA TakenSound == ASSUME NEW N \in Nat, NEW G, NEW a, Sound(a, N, G), NEW k \in DOMAIN a.waits
                    PROVE  LET b == Taken(a, k)
                               w == a.waits[k]
                           IN /\ Sound(b, N, G) /\ w \in Waits /\ WaitOK(b, w, N, G)
                              /\ w.on # "prep" => ThreadOK(b, w.c, N)
                              /\ w.on = "prep" => \A i \in DOMAIN b.waits : b.waits[i].on # "prep"
                              /\ Marked(b, w) => Free(b, N)
                              /\ "retry" \in w.c.who =>
                                   b.retrying /\ \A i \in DOMAIN b.waits : "retry" \notin b.waits[i].c.who
<1> DEFINE b == Taken(a, k)
           w == a.waits[k]
<1>1. /\ a \in Apps /\ Refs(a, G) /\ Doc(a.mem, N, G) /\ Pairs(a, N)
      /\ (\A j \in DOMAIN a.waits : WaitOK(a, a.waits[j], N, G))
  BY DEF Sound
<1>2. /\ b \in Apps /\ b.phase = a.phase /\ b.at = a.at
      /\ b.mem = a.mem /\ b.epoch = a.epoch /\ b.prep = a.prep
      /\ b.run = a.run /\ b.runOf = a.runOf /\ b.slot = a.slot
      /\ b.ack = a.ack /\ b.term = a.term /\ b.act = a.act /\ b.commit = a.commit
      /\ b.retrying = a.retrying
  BY <1>1, TakenIs
<1>3. \A i \in DOMAIN b.waits : /\ b.waits[i] = a.waits[IF i < k THEN i ELSE i + 1]
                                /\ (IF i < k THEN i ELSE i + 1) \in DOMAIN a.waits \ {k}
                                /\ i \in Nat
  BY <1>1, TakenIs
<1>4. w \in Waits /\ k \in Nat
  <2>1. a.waits \in Seq(Waits) BY <1>1 DEF Apps
  <2> QED BY <2>1
<1>5. WaitOK(a, w, N, G) BY <1>1
<1> HIDE DEF b, w
<1>6. \A n : Live(b, n) <=> Live(a, n) BY <1>2 DEF Live
<1>7. \A x : Marked(b, x) <=> Marked(a, x) BY <1>2 DEF Marked
<1>8. \A x : WaitOK(a, x, N, G) => WaitOK(b, x, N, G) BY <1>2, <1>6 DEF WaitOK
<1>9. Refs(b, G) BY <1>1, <1>2, <1>6 DEF Refs
<1>10. \A i \in DOMAIN b.waits : WaitOK(b, b.waits[i], N, G) BY <1>1, <1>3, <1>8
<1>11. Pairs(b, N)
  <2>1. ASSUME NEW i \in DOMAIN b.waits, NEW j \in DOMAIN b.waits, i # j
        PROVE  /\ ~(b.waits[i].on = "prep" /\ b.waits[j].on = "prep")
               /\ ~("retry" \in b.waits[i].c.who /\ "retry" \in b.waits[j].c.who)
               /\ ~(Marked(b, b.waits[i]) /\ Marked(b, b.waits[j]))
    <3> DEFINE ii == IF i < k THEN i ELSE i + 1
               jj == IF j < k THEN j ELSE j + 1
    <3>1. ii # jj BY <1>3, <1>4, <2>1
    <3>2. ii \in DOMAIN a.waits /\ jj \in DOMAIN a.waits /\ b.waits[i] = a.waits[ii] /\ b.waits[j] = a.waits[jj] BY <1>3
    <3> HIDE DEF ii, jj
    <3> QED BY <1>1, <1>7, <3>1, <3>2 DEF Pairs
  <2>2. ASSUME NEW i \in DOMAIN b.waits
        PROVE  /\ "retry" \in b.waits[i].c.who => b.retrying
               /\ Marked(b, b.waits[i]) => b.prep = NoPrep /\ Len(b.mem) < N
    <3> DEFINE ii == IF i < k THEN i ELSE i + 1
    <3>1. ii \in DOMAIN a.waits /\ b.waits[i] = a.waits[ii] BY <1>3
    <3> HIDE DEF ii
    <3> QED BY <1>1, <1>2, <1>7, <3>1 DEF Pairs
  <2> QED BY <2>1, <2>2 DEF Pairs
<1>12. Sound(b, N, G) BY <1>1, <1>2, <1>9, <1>10, <1>11 DEF Sound
<1>13. ASSUME NEW i \in DOMAIN b.waits
       PROVE  /\ ~(b.waits[i].on = "prep" /\ w.on = "prep")
              /\ ~("retry" \in b.waits[i].c.who /\ "retry" \in w.c.who)
              /\ ~(Marked(a, b.waits[i]) /\ Marked(a, w))
  <2> DEFINE ii == IF i < k THEN i ELSE i + 1
  <2>1. ii \in DOMAIN a.waits /\ ii # k /\ b.waits[i] = a.waits[ii] BY <1>3
  <2> HIDE DEF ii
  <2> QED BY <1>1, <2>1 DEF Pairs, w
<1>14. "retry" \in w.c.who => a.retrying BY <1>1 DEF Pairs, w
<1>15. Marked(a, w) => a.prep = NoPrep /\ Len(a.mem) < N BY <1>1 DEF Pairs, w
<1>16. Marked(b, w) => Free(b, N) BY <1>2, <1>7, <1>13, <1>15 DEF Free
<1>17. "retry" \in w.c.who => b.retrying /\ \A i \in DOMAIN b.waits : "retry" \notin b.waits[i].c.who
  BY <1>2, <1>13, <1>14
<1>18. w.on # "prep" => ThreadOK(b, w.c, N)
  <2>1. SUFFICES ASSUME w.on # "prep" PROVE ThreadOK(b, w.c, N) OBVIOUS
  <2>2. w.c \in Threads BY <1>4 DEF Waits
  <2>3. w.c.ep <= b.epoch /\ Live(b, w.c.n) BY <1>2, <1>5, <1>6, <2>1 DEF WaitOK
  <2>4. "abandon" \in w.c.who /\ w.c.ep = b.epoch => Free(b, N) BY <1>16 DEF Marked
  <2> QED BY <1>17, <2>2, <2>3, <2>4 DEF ThreadOK
<1> QED BY <1>4, <1>5, <1>8, <1>12, <1>13, <1>16, <1>17, <1>18 DEF b, w


\* A pending save, or its copy with another state of its transaction.
Alike(p, q) == /\ q \in Pends /\ q.ep = p.ep /\ q.n = p.n /\ q.kind = p.kind /\ q.then = p.then
               /\ q.tx.before = p.tx.before /\ q.tx.next = p.tx.next
               /\ p = NoPending => q = NoPending

\* The fields of a well-typed transaction.
LEMMA PendHas == ASSUME NEW p \in Pends
                 PROVE  /\ p.ep \in Nat /\ p.n \in Nat /\ p.then \in Thens
                        /\ p.kind \in {"none", "checkpoint", "cancel", "final", "ack"}
                        /\ p.tx.before \in Att /\ p.tx.next \in Seq(Att) /\ p.tx.state \in {"open", "late", "settled"}
BY DEF Pends, Txs

\* A transaction whose state changes keeps everything else.
LEMMA RestatedAlike == ASSUME NEW p \in Pends, NEW s \in {"open", "late", "settled"}, p = NoPending => s = "settled"
                       PROVE  Alike(p, [p EXCEPT !.tx.state = s])
<1> DEFINE q == [p EXCEPT !.tx.state = s]
<1>1. [p.tx EXCEPT !.state = s] \in Txs BY DEF Pends, Txs
<1>2. q = [p EXCEPT !.tx = [p.tx EXCEPT !.state = s]] OBVIOUS
<1>3. q \in Pends /\ q.ep = p.ep /\ q.n = p.n /\ q.kind = p.kind /\ q.then = p.then /\ q.tx = [p.tx EXCEPT !.state = s]
  <2> DEFINE t == [p.tx EXCEPT !.state = s]
  <2>1. t \in Txs /\ q = [p EXCEPT !.tx = t] BY <1>1, <1>2
  <2> HIDE DEF t, q
  <2>2. q \in Pends /\ q.ep = p.ep /\ q.n = p.n /\ q.kind = p.kind /\ q.then = p.then /\ q.tx = t BY <2>1 DEF Pends
  <2> QED BY <2>2 DEF t
<1>4. q.tx.before = p.tx.before /\ q.tx.next = p.tx.next BY <1>3 DEF Pends, Txs
<1>5. p = NoPending => q = NoPending BY DEF NoPending, NoTx
<1> HIDE DEF q
<1> QED BY <1>3, <1>4, <1>5 DEF Alike, q

\* A transaction that another save has overtaken.
LEMMA OutdatedAlike == ASSUME NEW p \in Pends PROVE Alike(p, Outdated(p))
<1> DEFINE s == IF p.tx.state = "open" THEN "late" ELSE p.tx.state
<1>1. s \in {"open", "late", "settled"} BY PendHas
<1>2. p = NoPending => s = "settled" BY DEF NoPending, NoTx
<1>3. Outdated(p) = [p EXCEPT !.tx.state = s] BY DEF Outdated, Pends, Txs
<1> HIDE DEF s
<1> QED BY <1>1, <1>2, <1>3, RestatedAlike

\* A transaction that the store has closed.
LEMMA ClosedAlike == ASSUME NEW p \in Pends, NEW r PROVE Alike(p, Closed(p, r))
<1>1. Alike(p, [p EXCEPT !.tx.state = "settled"]) BY RestatedAlike
<1>2. Alike(p, p) BY DEF Alike
<1> QED BY <1>1, <1>2 DEF Closed

\* The same controller but for the state of its transactions.
Retold(a, b) ==
  /\ b.mem = a.mem /\ b.prep = a.prep /\ b.epoch = a.epoch /\ b.phase = a.phase /\ b.at = a.at
  /\ b.run = a.run /\ b.runOf = a.runOf /\ b.term = a.term /\ b.act = a.act /\ b.commit = a.commit
  /\ b.kind = a.kind /\ b.auth = a.auth /\ b.req = a.req /\ b.flight = a.flight /\ b.ok = a.ok /\ b.read = a.read
  /\ b.retrying = a.retrying /\ Alike(a.slot, b.slot) /\ Alike(a.ack, b.ack)
  /\ DOMAIN b.waits = DOMAIN a.waits
  /\ \A k \in DOMAIN a.waits :
       /\ b.waits[k].on = a.waits[k].on /\ b.waits[k].c = a.waits[k].c /\ Alike(a.waits[k].p, b.waits[k].p)
       /\ b.waits[k].doc = a.waits[k].doc /\ b.waits[k].was = a.waits[k].was /\ b.waits[k].arg = a.waits[k].arg

\* A controller in which only the states of transactions changed.
LEMMA RetoldSound == ASSUME NEW N \in Nat, NEW G, NEW a, Sound(a, N, G), NEW b \in Apps, Retold(a, b)
                     PROVE  /\ Sound(b, N, G)
                            /\ \A c : ThreadOK(a, c, N) => ThreadOK(b, c, N)
                            /\ Free(a, N) => Free(b, N)
<1>1. /\ a \in Apps /\ Refs(a, G) /\ Doc(a.mem, N, G) /\ Pairs(a, N)
      /\ (\A k \in DOMAIN a.waits : WaitOK(a, a.waits[k], N, G))
  BY DEF Sound
<1>2. /\ b.mem = a.mem /\ b.prep = a.prep /\ b.epoch = a.epoch /\ b.phase = a.phase /\ b.at = a.at
      /\ b.run = a.run /\ b.runOf = a.runOf /\ b.term = a.term /\ b.act = a.act /\ b.commit = a.commit
      /\ b.retrying = a.retrying /\ DOMAIN b.waits = DOMAIN a.waits
  BY DEF Retold
<1>3. \A n : Live(b, n) <=> Live(a, n) BY <1>2 DEF Live
<1>4. \A p, q : Alike(p, q) /\ OnJournal(p) => OnJournal(q) BY DEF Alike, OnJournal
<1>5. Refs(b, G)
  <2>1. b.slot # NoPending => /\ Live(b, b.slot.n) /\ b.slot.ep <= b.epoch /\ OnJournal(b.slot)
                              /\ Let_go(b.slot.tx.before, b.slot.n, G)
    <3>1. Alike(a.slot, b.slot) BY DEF Retold
    <3> QED BY <1>1, <1>2, <1>3, <1>4, <3>1 DEF Refs, Alike
  <2>2. b.ack # NoPending => Live(b, b.ack.n) /\ b.ack.ep <= b.epoch /\ b.ack.kind = "ack"
    <3>1. Alike(a.ack, b.ack) BY DEF Retold
    <3> QED BY <1>1, <1>2, <1>3, <3>1 DEF Refs, Alike
  <2> QED BY <1>1, <1>2, <1>3, <2>1, <2>2 DEF Refs
<1>6. ASSUME NEW k \in DOMAIN a.waits
      PROVE  WaitOK(b, b.waits[k], N, G) /\ (Marked(b, b.waits[k]) <=> Marked(a, a.waits[k]))
  <2> DEFINE w == a.waits[k]
             v == b.waits[k]
  <2>1. WaitOK(a, w, N, G) BY <1>1
  <2>2. /\ v.on = w.on /\ v.c = w.c /\ Alike(w.p, v.p) /\ v.doc = w.doc /\ v.was = w.was /\ v.arg = w.arg
    BY DEF Retold
  <2> HIDE DEF w, v
  <2>3. OnJournal(w.p) => OnJournal(v.p) BY <1>4, <2>2
  <2>4. v.p.n = w.p.n /\ v.p.tx.before = w.p.tx.before /\ v.p.kind = w.p.kind /\ v.p.then = w.p.then
    BY <2>2 DEF Alike
  <2>5. WaitOK(b, v, N, G) BY <1>2, <1>3, <2>1, <2>2, <2>3, <2>4 DEF WaitOK
  <2>6. Marked(b, v) <=> Marked(a, w) BY <1>2, <2>2, <2>4 DEF Marked
  <2> QED BY <2>5, <2>6 DEF w, v
<1>7. \A k \in DOMAIN a.waits : b.waits[k].on = a.waits[k].on /\ b.waits[k].c = a.waits[k].c BY DEF Retold
<1>8. Pairs(b, N)
  <2>1. ASSUME NEW i \in DOMAIN a.waits, NEW j \in DOMAIN a.waits, i # j
        PROVE  /\ ~(b.waits[i].on = "prep" /\ b.waits[j].on = "prep")
               /\ ~("retry" \in b.waits[i].c.who /\ "retry" \in b.waits[j].c.who)
               /\ ~(Marked(b, b.waits[i]) /\ Marked(b, b.waits[j]))
    BY <1>1, <1>6, <1>7, <2>1 DEF Pairs
  <2>2. ASSUME NEW i \in DOMAIN a.waits
        PROVE  /\ "retry" \in b.waits[i].c.who => b.retrying
               /\ Marked(b, b.waits[i]) => b.prep = NoPrep /\ Len(b.mem) < N
    BY <1>1, <1>2, <1>6, <1>7 DEF Pairs
  <2> QED BY <1>2, <2>1, <2>2 DEF Pairs
<1>9. Sound(b, N, G) BY <1>1, <1>2, <1>5, <1>6, <1>8 DEF Sound
<1>10. Free(a, N) => Free(b, N) BY <1>2, <1>6 DEF Free
<1>11. \A c : ThreadOK(a, c, N) => ThreadOK(b, c, N) BY <1>2, <1>3, <1>7, <1>10 DEF ThreadOK
<1> QED BY <1>9, <1>10, <1>11

\* Installing a document changes only the states of transactions.
LEMMA InstalledRetold == ASSUME NEW a \in Apps PROVE Installed(a) \in Apps /\ Retold(a, Installed(a))
<1> DEFINE ws == [k \in DOMAIN a.waits |-> [a.waits[k] EXCEPT !.p = Outdated(a.waits[k].p)]]
           b == [a EXCEPT !.slot = Outdated(a.slot), !.ack = Outdated(a.ack), !.waits = ws]
<1>1. a.waits \in Seq(Waits) /\ a.slot \in Pends /\ a.ack \in Pends BY DEF Apps
<1>2. \A k \in DOMAIN a.waits : a.waits[k] \in Waits /\ a.waits[k].p \in Pends
  <2>1. \A k \in DOMAIN a.waits : a.waits[k] \in Waits BY <1>1
  <2> QED BY <2>1 DEF Waits
<1>3. Alike(a.slot, Outdated(a.slot)) /\ Alike(a.ack, Outdated(a.ack))
      /\ \A k \in DOMAIN a.waits : Alike(a.waits[k].p, Outdated(a.waits[k].p))
  BY <1>1, <1>2, OutdatedAlike
<1>4. \A k \in DOMAIN a.waits :
        /\ ws[k] \in Waits /\ ws[k].p = Outdated(a.waits[k].p)
        /\ ws[k].on = a.waits[k].on /\ ws[k].c = a.waits[k].c
        /\ ws[k].doc = a.waits[k].doc /\ ws[k].was = a.waits[k].was /\ ws[k].arg = a.waits[k].arg
  <2>1. \A k \in DOMAIN a.waits : Outdated(a.waits[k].p) \in Pends BY <1>3 DEF Alike
  <2> QED BY <1>2, <2>1 DEF Waits
<1>5. ws \in Seq(Waits) /\ DOMAIN ws = DOMAIN a.waits
  <2>1. DOMAIN a.waits = 1 .. Len(a.waits) /\ Len(a.waits) \in Nat BY <1>1
  <2>2. ws \in [1 .. Len(a.waits) -> Waits] BY <1>4, <2>1
  <2> HIDE DEF ws
  <2> QED BY <2>1, <2>2
<1>6. Installed(a) = b BY DEF Installed
<1>7. Outdated(a.slot) \in Pends /\ Outdated(a.ack) \in Pends BY <1>3 DEF Alike
<1> HIDE DEF ws
<1>8. /\ b \in Apps /\ b.waits = ws /\ b.slot = Outdated(a.slot) /\ b.ack = Outdated(a.ack)
      /\ b.mem = a.mem /\ b.prep = a.prep /\ b.epoch = a.epoch /\ b.phase = a.phase /\ b.at = a.at
      /\ b.run = a.run /\ b.runOf = a.runOf /\ b.term = a.term /\ b.act = a.act /\ b.commit = a.commit
      /\ b.kind = a.kind /\ b.auth = a.auth /\ b.req = a.req /\ b.flight = a.flight /\ b.ok = a.ok /\ b.read = a.read
      /\ b.retrying = a.retrying
  BY <1>5, <1>7 DEF Apps
<1> HIDE DEF b
<1>9. Retold(a, b) BY <1>3, <1>4, <1>5, <1>8 DEF Retold
<1> QED BY <1>6, <1>8, <1>9

\* Settling a transaction changes only the states of transactions.
LEMMA TxSettledRetold == ASSUME NEW a \in Apps, NEW r PROVE TxSettled(a, r) \in Apps /\ Retold(a, TxSettled(a, r))
<1> DEFINE ws == [k \in DOMAIN a.waits |-> [a.waits[k] EXCEPT !.p = Closed(a.waits[k].p, r)]]
           b == [a EXCEPT !.slot = Closed(a.slot, r), !.ack = Closed(a.ack, r), !.waits = ws]
<1>1. a.waits \in Seq(Waits) /\ a.slot \in Pends /\ a.ack \in Pends BY DEF Apps
<1>2. \A k \in DOMAIN a.waits : a.waits[k] \in Waits /\ a.waits[k].p \in Pends
  <2>1. \A k \in DOMAIN a.waits : a.waits[k] \in Waits BY <1>1
  <2> QED BY <2>1 DEF Waits
<1>3. Alike(a.slot, Closed(a.slot, r)) /\ Alike(a.ack, Closed(a.ack, r))
      /\ \A k \in DOMAIN a.waits : Alike(a.waits[k].p, Closed(a.waits[k].p, r))
  BY <1>1, <1>2, ClosedAlike
<1>4. \A k \in DOMAIN a.waits :
        /\ ws[k] \in Waits /\ ws[k].p = Closed(a.waits[k].p, r)
        /\ ws[k].on = a.waits[k].on /\ ws[k].c = a.waits[k].c
        /\ ws[k].doc = a.waits[k].doc /\ ws[k].was = a.waits[k].was /\ ws[k].arg = a.waits[k].arg
  <2>1. \A k \in DOMAIN a.waits : Closed(a.waits[k].p, r) \in Pends BY <1>3 DEF Alike
  <2> QED BY <1>2, <2>1 DEF Waits
<1>5. ws \in Seq(Waits) /\ DOMAIN ws = DOMAIN a.waits
  <2>1. DOMAIN a.waits = 1 .. Len(a.waits) /\ Len(a.waits) \in Nat BY <1>1
  <2>2. ws \in [1 .. Len(a.waits) -> Waits] BY <1>4, <2>1
  <2> HIDE DEF ws
  <2> QED BY <2>1, <2>2
<1>6. TxSettled(a, r) = b BY DEF TxSettled
<1>7. Closed(a.slot, r) \in Pends /\ Closed(a.ack, r) \in Pends BY <1>3 DEF Alike
<1> HIDE DEF ws
<1>8. /\ b \in Apps /\ b.waits = ws /\ b.slot = Closed(a.slot, r) /\ b.ack = Closed(a.ack, r)
      /\ b.mem = a.mem /\ b.prep = a.prep /\ b.epoch = a.epoch /\ b.phase = a.phase /\ b.at = a.at
      /\ b.run = a.run /\ b.runOf = a.runOf /\ b.term = a.term /\ b.act = a.act /\ b.commit = a.commit
      /\ b.kind = a.kind /\ b.auth = a.auth /\ b.req = a.req /\ b.flight = a.flight /\ b.ok = a.ok /\ b.read = a.read
      /\ b.retrying = a.retrying
  BY <1>5, <1>7 DEF Apps
<1> HIDE DEF b
<1>9. Retold(a, b) BY <1>3, <1>4, <1>5, <1>8 DEF Retold
<1> QED BY <1>6, <1>8, <1>9


\* One attempt is written anew.
Rewrite(a, n, att) == [a EXCEPT !.mem = Put(@, n, att)]

\* Replacing an attempt that is there to stay.
LEMMA RewriteSound == ASSUME NEW N \in Nat, NEW G, NEW a, Sound(a, N, G), NEW n, Live(a, n),
                             NEW att \in Att, Let_go(att, n, G), Direct(a.mem[n]) => Direct(att),
                             a.mem[n].st = "completed" /\ ~IsAgent(a.mem[n]) => att.st = "completed" /\ ~IsAgent(att)
                      PROVE  LET b == Rewrite(a, n, att)
                             IN /\ Sound(b, N, G) /\ b \in Apps
                                /\ \A c : ThreadOK(a, c, N) => ThreadOK(b, c, N)
                                /\ b.mem = Put(a.mem, n, att) /\ b.mem[n] = att /\ Len(b.mem) = Len(a.mem)
                                /\ \A k : Live(a, k) => Live(b, k)
                                /\ b.waits = a.waits /\ b.epoch = a.epoch /\ b.prep = a.prep /\ b.kind = a.kind
                                /\ b.retrying = a.retrying /\ b.run = a.run /\ b.slot = a.slot /\ b.ack = a.ack
<1> DEFINE next == Put(a.mem, n, att)
           b == Rewrite(a, n, att)
<1>1. /\ a \in Apps /\ Doc(a.mem, N, G) /\ Refs(a, G) /\ n \in DOMAIN a.mem /\ a.mem \in Seq(Att)
  BY DEF Sound, Doc, Live
<1>3. /\ Doc(next, N, G) /\ DOMAIN next = DOMAIN a.mem /\ next \in Seq(Att) /\ Len(next) = Len(a.mem)
      /\ next[n] = att /\ \A k \in DOMAIN a.mem : k # n => next[k] = a.mem[k]
  BY <1>1, PutTyped
<1> HIDE DEF next
<1>6. b = [a EXCEPT !.mem = next] BY DEF Rewrite, next
<1>7. /\ b \in Apps /\ b.mem = next /\ b.slot = a.slot
      /\ b.phase = a.phase /\ b.at = a.at /\ b.waits = a.waits
      /\ b.epoch = a.epoch /\ b.prep = a.prep /\ b.kind = a.kind
      /\ b.run = a.run /\ b.runOf = a.runOf
      /\ b.ack = a.ack /\ b.term = a.term /\ b.act = a.act /\ b.commit = a.commit
      /\ b.retrying = a.retrying
  BY <1>1, <1>3, <1>6 DEF Apps
<1> HIDE DEF b
<1>8. Kept(a, b)
  <2>1. \A k \in DOMAIN a.mem : Direct(a.mem[k]) => Direct(b.mem[k])
    <3>1. SUFFICES ASSUME NEW k \in DOMAIN a.mem, Direct(a.mem[k]) PROVE Direct(b.mem[k]) OBVIOUS
    <3> QED BY <1>3, <1>7, <3>1
  <2> QED BY <1>3, <1>7, <2>1 DEF Kept
<1>9. \A k : Live(a, k) => Live(b, k) BY <1>3, <1>7 DEF Live
<1>10. Refs(b, G)
  <2>1. /\ b.at <= Len(b.mem) /\ (b.phase \in {"retryable", "resume_available"} => b.at # 0)
    BY <1>1, <1>3, <1>7 DEF Refs
  <2>2. b.slot # NoPending => /\ Live(b, b.slot.n) /\ b.slot.ep <= b.epoch /\ OnJournal(b.slot)
                              /\ Let_go(b.slot.tx.before, b.slot.n, G)
    BY <1>1, <1>7, <1>9 DEF Refs
  <2>3. b.ack # NoPending => Live(b, b.ack.n) /\ b.ack.ep <= b.epoch /\ b.ack.kind = "ack"
    BY <1>1, <1>7, <1>9 DEF Refs
  <2>4. (b.term # NoTerm => Live(b, b.term.n)) /\ (b.act # 0 => Live(b, b.act))
    BY <1>1, <1>7, <1>9 DEF Refs
  <2>5. b.commit # 0 => Live(b, b.commit) /\ b.mem[b.commit].st = "completed" /\ ~IsAgent(b.mem[b.commit])
    <3>1. SUFFICES ASSUME b.commit # 0
                   PROVE Live(b, b.commit) /\ b.mem[b.commit].st = "completed" /\ ~IsAgent(b.mem[b.commit])
      OBVIOUS
    <3>2. Live(a, a.commit) /\ a.mem[a.commit].st = "completed" /\ ~IsAgent(a.mem[a.commit])
      BY <1>1, <1>7, <3>1 DEF Refs
    <3>3. a.commit # n => b.mem[b.commit] = a.mem[a.commit] BY <1>3, <1>7, <3>2 DEF Live
    <3>4. a.commit = n => b.mem[b.commit] = att BY <1>3, <1>7
    <3> QED BY <1>7, <1>9, <3>2, <3>3, <3>4
  <2>6. b.run # 0 => b.run <= b.epoch /\ Live(b, b.runOf)
    BY <1>1, <1>7, <1>9 DEF Refs
  <2>7. b.prep # NoPrep => /\ b.prep.n = Len(b.mem) /\ b.prep.n # 0 /\ b.prep.ep <= b.epoch
                           /\ b.mem[b.prep.n] = NewAttempt
    <3>1. SUFFICES ASSUME a.prep # NoPrep
                   PROVE /\ a.prep.n = Len(next) /\ a.prep.n # 0 /\ a.prep.ep <= a.epoch
                         /\ next[a.prep.n] = NewAttempt
      BY <1>7
    <3>2. a.prep.n # n BY <3>1 DEF Live
    <3>3. /\ a.prep.n = Len(a.mem) /\ a.prep.n # 0 /\ a.prep.ep <= a.epoch /\ a.mem[a.prep.n] = NewAttempt
      BY <1>1, <3>1 DEF Refs
    <3>4. a.prep.n \in DOMAIN a.mem BY <1>1, <3>3
    <3> QED BY <1>3, <3>2, <3>3, <3>4
  <2> QED BY <2>1, <2>2, <2>3, <2>4, <2>5, <2>6, <2>7 DEF Refs
<1>11. Sound(b, N, G) /\ \A c : ThreadOK(a, c, N) => ThreadOK(b, c, N) BY <1>1, <1>3, <1>7, <1>8, <1>10, Moved
<1> QED BY <1>3, <1>7, <1>9, <1>11 DEF b, next

\* What is known of an attempt that is there to stay.
LEMMA AttAt == ASSUME NEW N \in Nat, NEW G, NEW a, Sound(a, N, G), NEW n, Live(a, n)
               PROVE  /\ a.mem[n] \in Att /\ n \in DOMAIN a.mem /\ n \in Nat /\ n # 0 /\ n <= Len(a.mem)
                      /\ Let_go(a.mem[n], n, G) /\ a.mem \in Seq(Att) /\ a \in Apps
<1>1. a.mem \in Seq(Att) /\ n \in DOMAIN a.mem /\ (\A k \in DOMAIN a.mem : Let_go(a.mem[k], k, G)) /\ a \in Apps
  BY DEF Sound, Doc, Live
<1> QED BY <1>1

\* An entry of the outbox changes nothing else.
LEMMA ResidueSound == ASSUME NEW N \in Nat, NEW G, NEW a, Sound(a, N, G), NEW n, Live(a, n),
                             NEW r \in BOOLEAN, ~r => n \in G
                      PROVE  LET att == [a.mem[n] EXCEPT !.residue = r]
                                 b == Rewrite(a, n, att)
                             IN /\ Sound(b, N, G) /\ b \in Apps /\ att \in Att /\ Let_go(att, n, G)
                                /\ \A c : ThreadOK(a, c, N) => ThreadOK(b, c, N)
                                /\ b.mem = Put(a.mem, n, att) /\ b.mem[n] = att /\ Len(b.mem) = Len(a.mem)
                                /\ \A k : Live(a, k) => Live(b, k)
                                /\ b.waits = a.waits /\ b.epoch = a.epoch /\ b.prep = a.prep
<1> DEFINE att == [a.mem[n] EXCEPT !.residue = r]
<1>1. a.mem[n] \in Att BY AttAt
<1>2. att \in Att /\ att.st = a.mem[n].st /\ att.jr = a.mem[n].jr /\ att.residue = r BY <1>1 DEF Att
<1> HIDE DEF att
<1>3. Let_go(att, n, G) BY <1>2 DEF Let_go
<1>4. (IsAgent(att) <=> IsAgent(a.mem[n])) /\ (Direct(a.mem[n]) => Direct(att)) BY <1>2 DEF IsAgent, Direct
<1>5. a.mem[n].st = "completed" /\ ~IsAgent(a.mem[n]) => att.st = "completed" /\ ~IsAgent(att) BY <1>2, <1>4
<1> DEFINE b == Rewrite(a, n, att)
<1>6. /\ Sound(b, N, G) /\ b \in Apps
      /\ \A c : ThreadOK(a, c, N) => ThreadOK(b, c, N)
      /\ b.mem = Put(a.mem, n, att) /\ b.mem[n] = att /\ Len(b.mem) = Len(a.mem)
      /\ \A k : Live(a, k) => Live(b, k)
      /\ b.waits = a.waits /\ b.epoch = a.epoch /\ b.prep = a.prep
  BY <1>2, <1>3, <1>4, <1>5, RewriteSound
<1> HIDE DEF b
<1> QED BY <1>2, <1>3, <1>6 DEF att, b

\* The rollback of a transaction, on its own attempt.
LEMMA RolledBackSound ==
  ASSUME NEW N \in Nat, NEW G, NEW a, NEW c, Turn(a, c, N, G),
         NEW p \in Pends, p.n = c.n, p.kind # "ack" => OnJournal(p) /\ Let_go(p.tx.before, p.n, G)
  PROVE  Turn(RolledBack(a, p), c, N, G)
<1>1. Sound(a, N, G) /\ ThreadOK(a, c, N) /\ Live(a, p.n) BY DEF Turn, ThreadOK
<1>2. CASE p.tx.state = "settled" \/ ~Owns(a, p) BY <1>2 DEF RolledBack
<1>3. CASE p.tx.state # "settled" /\ Owns(a, p) /\ p.kind = "ack"
  <2> DEFINE att == [a.mem[p.n] EXCEPT !.residue = TRUE]
  <2>1. Turn(Rewrite(a, p.n, att), c, N, G) BY <1>1, ResidueSound DEF Turn
  <2>2. RolledBack(a, p) = Rewrite(a, p.n, att) BY <1>3 DEF RolledBack, Rewrite, Put
  <2> QED BY <2>1, <2>2
<1>4. CASE p.tx.state # "settled" /\ Owns(a, p) /\ p.kind # "ack"
  <2>1. IsAgent(a.mem[p.n]) BY <1>4 DEF Owns, OnJournal
  <2>2. ~Direct(a.mem[p.n]) BY <2>1 DEF Direct
  <2>3. p.tx.before \in Att /\ Let_go(p.tx.before, p.n, G) BY <1>4, PendHas
  <2>4. Turn(Rewrite(a, p.n, p.tx.before), c, N, G) BY <1>1, <2>1, <2>2, <2>3, RewriteSound DEF Turn
  <2>5. RolledBack(a, p) = Rewrite(a, p.n, p.tx.before) BY <1>4 DEF RolledBack, Rewrite, Put
  <2> QED BY <2>4, <2>5
<1> QED BY <1>2, <1>3, <1>4

----------------------------------------------------------------------------
(***************************************************************************)
(* Direct turns, failures and journals.                                     *)
(***************************************************************************)

\* An unfinished attempt that ends, or goes on, without a journal.
Ended(att, st, code) == [att EXCEPT !.st = st, !.code = code]

\* Giving an attempt that is not finished its outcome.
LEMMA EndedSound == ASSUME NEW N \in Nat, NEW G, NEW a, Sound(a, N, G), NEW n, Live(a, n), Unfinished(a.mem[n]),
                           NEW st \in Status \ {"prepared"}, NEW code \in Codes
                    PROVE  LET att == Ended(a.mem[n], st, code)
                               b == Rewrite(a, n, att)
                           IN /\ Sound(b, N, G) /\ b \in Apps
                              /\ \A c : ThreadOK(a, c, N) => ThreadOK(b, c, N)
                              /\ att \in Att /\ att.st = st /\ (IsAgent(att) <=> IsAgent(a.mem[n]))
                              /\ b.mem = Put(a.mem, n, att) /\ b.mem[n] = att /\ Len(b.mem) = Len(a.mem)
                              /\ \A k : Live(a, k) => Live(b, k)
                              /\ b.waits = a.waits /\ b.epoch = a.epoch /\ b.prep = a.prep
<1> DEFINE att == Ended(a.mem[n], st, code)
<1>1. a.mem[n] \in Att /\ Let_go(a.mem[n], n, G) BY AttAt
<1>2. att \in Att /\ att.st = st /\ att.jr = a.mem[n].jr /\ att.residue = a.mem[n].residue BY <1>1 DEF Att, Ended
<1> HIDE DEF att
<1>3. Let_go(att, n, G) BY <1>1, <1>2 DEF Let_go
<1>4. (IsAgent(att) <=> IsAgent(a.mem[n])) /\ (Direct(a.mem[n]) => Direct(att)) BY <1>2 DEF IsAgent, Direct
<1>5. a.mem[n].st # "completed" BY DEF Unfinished
<1> DEFINE b == Rewrite(a, n, att)
<1>6. /\ Sound(b, N, G) /\ b \in Apps
      /\ \A c : ThreadOK(a, c, N) => ThreadOK(b, c, N)
      /\ b.mem = Put(a.mem, n, att) /\ b.mem[n] = att /\ Len(b.mem) = Len(a.mem)
      /\ \A k : Live(a, k) => Live(b, k)
      /\ b.waits = a.waits /\ b.epoch = a.epoch /\ b.prep = a.prep
  BY <1>2, <1>3, <1>4, <1>5, RewriteSound
<1> HIDE DEF b
<1> QED BY <1>2, <1>3, <1>4, <1>6 DEF att, b

\* A save that carries no transaction.
LEMMA SimpleSave == ASSUME NEW N \in Nat, NEW G, NEW a, NEW c, Plain(a, c, N, G),
                           NEW on \in {"term", "fail", "commit", "recommit"}
                    PROVE  Sound(Saving(a, c, on, NoPending), N, G)
<1>1. on \in Saves \ {"prep"} /\ on \notin Tx /\ on # "slot" /\ on # "mark" BY DEF Saves, Tx
<1>2. SavesWell(a, c, on, NoPending, N, G) BY <1>1, NoneTyped DEF SavesWell, Plain
<1> QED BY <1>2, Saved DEF Plain

\* Saving the outcome of an attempt without a journal.
LEMMA PersistTerminalSound == ASSUME NEW N \in Nat, NEW G, NEW a, NEW c, Plain(a, c, N, G),
                                     Unfinished(a.mem[c.n]), NEW st \in {"cancelled", "failed"}
                              PROVE  Sound(PersistTerminal(a, c, st), N, G)
<1> DEFINE term == [n |-> c.n, succ |-> IF st = "cancelled" THEN "cancelled" ELSE "retryable"]
           code == IF st = "failed" THEN "other" ELSE "none"
           att == Ended(a.mem[c.n], st, code)
           b == Rewrite(a, c.n, att)
           d == [b EXCEPT !.term = term]
<1>1. a \in Apps /\ Sound(a, N, G) /\ ThreadOK(a, c, N) /\ Live(a, c.n) /\ "abandon" \notin c.who
  BY DEF Plain, Turn, ThreadOK, Sound
<1>2. code \in Codes /\ st \in Status \ {"prepared"} BY DEF Codes, Status
<1>3. c.n \in Nat BY <1>1, AttAt
<1>4. term \in Terms /\ term.n = c.n BY <1>3 DEF Terms
<1> HIDE DEF code
<1>5. /\ Sound(b, N, G) /\ b \in Apps /\ ThreadOK(b, c, N) /\ Live(b, c.n)
  BY <1>1, <1>2, EndedSound
<1> HIDE DEF b, term
<1>6. d \in Apps /\ Tuned(b, d) BY <1>4, <1>5 DEF Apps, Tuned
<1>7. Plain(d, c, N, G) BY <1>1, <1>5, <1>6, TunedSound DEF Plain, Turn
<1> HIDE DEF d
<1>8. "finalizing" \in Phases BY DEF Phases
<1>9. Plain(Publish(d, "finalizing", c.n), c, N, G) BY <1>7, <1>8, ShowsPlain
<1>10. [a EXCEPT !.term = term, !.mem[c.n] = [@ EXCEPT !.st = st, !.code = code]] = d
  BY <1>1 DEF d, b, att, Rewrite, Put, Ended, Apps
<1>11. PersistTerminal(a, c, st) = Saving(Publish(d, "finalizing", c.n), c, "term", NoPending)
  BY <1>10 DEF PersistTerminal, term, code
<1> QED BY <1>9, <1>11, SimpleSave

\* A failure that is shown after it was saved.
LEMMA FailedSound == ASSUME NEW N \in Nat, NEW G, NEW a, NEW c, Plain(a, c, N, G)
                     PROVE  Sound(Failed(a, c), N, G)
<1>1. "blocked" \in Phases BY DEF Phases, Resting
<1>2. Sound(Done(Publish(a, "blocked", c.n), c), N, G) BY <1>1, Shows, DoneSound DEF Plain
<1>3. Unfinished(a.mem[c.n]) => Sound(PersistTerminal(a, c, "failed"), N, G) BY PersistTerminalSound
<1> QED BY <1>2, <1>3 DEF Failed

\* Starting a direct turn.
LEMMA RunDirectSound == ASSUME NEW N \in Nat, NEW G, NEW a, NEW c, Plain(a, c, N, G)
                        PROVE  Sound(RunDirect(a, c), N, G)
<1> DEFINE b == Publish(a, "starting", c.n)
<1>1. "starting" \in Phases BY DEF Phases
<1>2. Plain(b, c, N, G) BY <1>1, ShowsPlain
<1>3. b.mem = a.mem BY DEF Publish
<1>4. CASE a.mem[c.n].st # "prepared" \/ IsAgent(a.mem[c.n])
  BY <1>2, <1>4, FailedSound DEF RunDirect
<1>5. CASE a.mem[c.n].st = "prepared" /\ ~IsAgent(a.mem[c.n])
  <2> HIDE DEF b
  <2> DEFINE att == Ended(b.mem[c.n], "sending", b.mem[c.n].code)
             e == Rewrite(b, c.n, att)
             d == [e EXCEPT !.act = c.n]
  <2>1. /\ b \in Apps /\ Sound(b, N, G) /\ ThreadOK(b, c, N) /\ Live(b, c.n) /\ "abandon" \notin c.who
    BY <1>2 DEF Plain, Turn, ThreadOK, Sound
  <2>2. b.mem[c.n] \in Att /\ c.n \in Nat BY <2>1, AttAt
  <2>3. b.mem[c.n].code \in Codes /\ "sending" \in Status \ {"prepared"} BY <2>2 DEF Att, Status
  <2>4. Unfinished(b.mem[c.n]) /\ ~IsAgent(b.mem[c.n]) BY <1>3, <1>5 DEF Unfinished
  <2>5. /\ Sound(e, N, G) /\ e \in Apps /\ ThreadOK(e, c, N) /\ Live(e, c.n)
        /\ e.mem[c.n] = att /\ att.st = "sending" /\ ~IsAgent(att)
    BY <2>1, <2>3, <2>4, EndedSound
  <2> HIDE DEF e, att
  <2>6. d \in Apps /\ Tuned(e, d) /\ d.mem = e.mem BY <2>2, <2>5 DEF Apps, Tuned
  <2>7. Plain(d, c, N, G) BY <2>1, <2>5, <2>6, TunedSound DEF Plain, Turn
  <2>8. Direct(d.mem[c.n]) BY <2>5, <2>6 DEF Direct
  <2> HIDE DEF d
  <2>9. SavesWell(d, c, "mark", NoPending, N, G)
    <3>1. "mark" \in Saves \ {"prep"} /\ "mark" \notin Tx BY DEF Saves, Tx
    <3> QED BY <2>1, <2>8, <3>1, NoneTyped DEF SavesWell
  <2>10. Sound(Saving(d, c, "mark", NoPending), N, G) BY <2>7, <2>9, Saved DEF Plain
  <2>11. [b EXCEPT !.mem[c.n].st = "sending", !.act = c.n] = d
    <3>1. att = [b.mem[c.n] EXCEPT !.st = "sending"] BY <2>2 DEF att, Ended, Att
    <3> QED BY <2>1, <3>1 DEF d, e, Rewrite, Put, Apps
  <2> QED BY <1>5, <2>10, <2>11 DEF RunDirect, b
<1> QED BY <1>4, <1>5

\* A document that may have been installed before its answer is heard.
LEMMA InstalledPlain == ASSUME NEW N \in Nat, NEW G, NEW a, NEW c, Plain(a, c, N, G), NEW s \in BOOLEAN
                        PROVE  LET b == IF s THEN Installed(a) ELSE a
                               IN Plain(b, c, N, G) /\ b.mem = a.mem /\ b.epoch = a.epoch /\ b.kind = a.kind
<1>1. a \in Apps BY DEF Plain, Turn, Sound
<1>2. Installed(a) \in Apps /\ Retold(a, Installed(a)) BY <1>1, InstalledRetold
<1>3. Plain(Installed(a), c, N, G) BY <1>2, RetoldSound DEF Plain, Turn
<1> QED BY <1>2, <1>3 DEF Retold

\* The direct request after its attempt was marked as sent.
LEMMA MarkAnsweredSound == ASSUME NEW N \in Nat, NEW G, NEW a, NEW w, Plain(a, w.c, N, G), Direct(a.mem[w.c.n]), NEW s
                           PROVE  Sound(MarkAnswered(a, w, s), N, G)
<1> DEFINE c == w.c
           b == IF s = "committed" THEN Installed(a) ELSE a
           d == [b EXCEPT !.act = 0]
           e == Publish(b, "sending", c.n)
<1>1. Plain(b, c, N, G) /\ b.mem = a.mem BY InstalledPlain
<1>2. MarkAnswered(a, w, s) = IF a.epoch # c.ep THEN Done(b, c)
                              ELSE IF s # "committed" \/ a.mem[c.n].st # "sending" THEN Failed(d, c)
                              ELSE Call(e, c, "complete", NoThen)
  BY DEF MarkAnswered
<1> HIDE DEF b
<1>3. Sound(Done(b, c), N, G) BY <1>1, DoneSound DEF Plain
<1>4. b \in Apps BY <1>1 DEF Plain, Turn, Sound
<1>5. d \in Apps /\ Tuned(b, d) BY <1>4 DEF Apps, Tuned
<1>6. Plain(d, c, N, G) BY <1>1, <1>5, TunedSound DEF Plain, Turn
<1> HIDE DEF d
<1>7. Sound(Failed(d, c), N, G) BY <1>6, FailedSound
<1>8. "sending" \in Phases BY DEF Phases
<1>9. Plain(e, c, N, G) BY <1>1, <1>8, ShowsPlain
<1>10. e.mem = a.mem BY <1>1 DEF Publish
<1> HIDE DEF e
<1>11. AsksWell(e, c, "complete", NoThen)
  BY <1>1, <1>10, NoneTyped DEF AsksWell, Native, Plain
<1>12. Sound(Call(e, c, "complete", NoThen), N, G) BY <1>9, <1>11, Called DEF Plain
<1> QED BY <1>2, <1>3, <1>7, <1>12

\* The answer of the provider to a direct request.
LEMMA CompleteAnsweredSound ==
  ASSUME NEW N \in Nat, NEW G, NEW a, NEW w, Plain(a, w.c, N, G), Direct(a.mem[w.c.n]), NEW r
  PROVE  Sound(CompleteAnswered(a, w, r), N, G)
<1> DEFINE c == w.c
           b == [a EXCEPT !.act = 0]
           x == [b EXCEPT !.mem[c.n].st = "completed", !.commit = c.n]
<1>1. /\ a \in Apps /\ Sound(a, N, G) /\ ThreadOK(a, c, N) /\ Live(a, c.n) /\ "abandon" \notin c.who
  BY DEF Plain, Turn, ThreadOK, Sound
<1>2. b \in Apps /\ Tuned(a, b) /\ b.mem = a.mem BY <1>1 DEF Apps, Tuned
<1>3. Plain(b, c, N, G) BY <1>1, <1>2, TunedSound DEF Plain, Turn
<1>4. CompleteAnswered(a, w, r) =
        IF a.epoch # c.ep THEN Done(a, c)
        ELSE IF r.ans # "text" \/ a.mem[c.n].st # "sending" THEN Failed(b, c)
        ELSE Saving(Publish(x, "finalizing", c.n), c, "commit", NoPending)
  BY DEF CompleteAnswered
<1> HIDE DEF b
<1>5. CASE a.epoch # c.ep BY <1>4, <1>5, DoneSound DEF Plain
<1>6. CASE ~(a.epoch # c.ep) /\ (r.ans # "text" \/ a.mem[c.n].st # "sending") BY <1>3, <1>4, <1>6, FailedSound
<1>7. CASE ~(a.epoch # c.ep) /\ ~(r.ans # "text" \/ a.mem[c.n].st # "sending")
  <2> DEFINE att == Ended(b.mem[c.n], "completed", b.mem[c.n].code)
             e == Rewrite(b, c.n, att)
             d == [e EXCEPT !.commit = c.n]
  <2>1. Sound(b, N, G) /\ ThreadOK(b, c, N) /\ Live(b, c.n) BY <1>3 DEF Plain, Turn, ThreadOK
  <2>2. b.mem[c.n] \in Att /\ c.n \in Nat BY <2>1, AttAt
  <2>3. b.mem[c.n].code \in Codes /\ "completed" \in Status \ {"prepared"} BY <2>2 DEF Att, Status
  <2>4. Unfinished(b.mem[c.n]) /\ ~IsAgent(b.mem[c.n]) BY <1>2, <1>7 DEF Unfinished, Direct
  <2>5. /\ Sound(e, N, G) /\ e \in Apps /\ ThreadOK(e, c, N) /\ Live(e, c.n)
        /\ e.mem[c.n] = att /\ att.st = "completed" /\ ~IsAgent(att)
    BY <2>1, <2>3, <2>4, EndedSound
  <2> HIDE DEF e, att
  <2>6. d \in Apps /\ Tuned(e, d) BY <2>2, <2>5 DEF Apps, Tuned
  <2>7. Plain(d, c, N, G) BY <1>1, <2>5, <2>6, TunedSound DEF Plain, Turn
  <2> HIDE DEF d
  <2>8. "finalizing" \in Phases BY DEF Phases
  <2>9. Plain(Publish(d, "finalizing", c.n), c, N, G) BY <2>7, <2>8, ShowsPlain
  <2>10. x = d
    <3>1. att = [b.mem[c.n] EXCEPT !.st = "completed"] BY <2>2 DEF att, Ended, Att
    <3> QED BY <1>2, <3>1 DEF d, e, Rewrite, Put, Apps
  <2> HIDE DEF x
  <2> QED BY <1>4, <1>7, <2>9, <2>10, SimpleSave
<1> QED BY <1>5, <1>6, <1>7


\* A controller that points at less.
Less(a, b) == b \in Apps /\ Tuned(a, b)

\* A controller that lost no more than pointers keeps its continuations.
LEMMA LessPlain == ASSUME NEW N \in Nat, NEW G, NEW a, NEW c, NEW b, Less(a, b)
                   PROVE  (Turn(a, c, N, G) => Turn(b, c, N, G)) /\ (Plain(a, c, N, G) => Plain(b, c, N, G))
BY TunedSound DEF Less, Turn, Plain

\* The answer to the save of an outcome.
LEMMA TermAnsweredSound == ASSUME NEW N \in Nat, NEW G, NEW a, NEW w, Plain(a, w.c, N, G), NEW s
                           PROVE  Sound(TermAnswered(a, w, s), N, G)
<1> DEFINE ok == IF a.term.succ = "cancelled" THEN s = "committed" ELSE a.ok
           told == [a EXCEPT !.ok = ok]
           b == Installed(told)
           d == [b EXCEPT !.term = NoTerm]
<1>1. a \in Apps BY DEF Plain, Turn, Sound
<1>2. ok \in BOOLEAN BY <1>1 DEF Apps
<1>3. Less(a, told) BY <1>1, <1>2 DEF Apps, Tuned, Less
<1>4. TermAnswered(a, w, s) = Done(IF s = "committed" THEN Publish(d, "retryable", w.c.n)
                                   ELSE Publish(told, "persistence_pending", w.c.n), w.c)
  BY DEF TermAnswered
<1> HIDE DEF told
<1>5. Plain(told, w.c, N, G) BY <1>3, LessPlain
<1>6. Plain(b, w.c, N, G) BY <1>5, InstalledPlain
<1> HIDE DEF b
<1>7. b \in Apps BY <1>6 DEF Plain, Turn, Sound
<1>8. Less(b, d) BY <1>7, NoneTyped DEF Apps, Tuned, Less
<1> HIDE DEF d
<1>9. Plain(d, w.c, N, G) BY <1>6, <1>8, LessPlain
<1>10. "retryable" \in Phases /\ "persistence_pending" \in Phases BY DEF Phases, Resting
<1>11. Turn(Publish(d, "retryable", w.c.n), w.c, N, G) /\ Turn(Publish(told, "persistence_pending", w.c.n), w.c, N, G)
  BY <1>5, <1>9, <1>10, Shows DEF Plain
<1> QED BY <1>4, <1>11, DoneSound

\* "idle" is shown for nobody.
LEMMA ShowsIdle == ASSUME NEW N \in Nat, NEW G, NEW a, NEW c, Turn(a, c, N, G), NEW ph \in {"idle", "blocked"}
                   PROVE  Turn(Publish(a, ph, 0), c, N, G)
<1>1. ph \in Phases /\ ph \notin {"retryable", "resume_available"} BY DEF Phases, Resting
<1>2. 0 <= Len(a.mem)
  <2>1. a.mem \in Seq(Att) BY DEF Turn, Sound, Doc
  <2> QED BY <2>1
<1> QED BY <1>1, <1>2, Published DEF Turn

\* A commit that is no longer pending.
LEMMA Uncommitted == ASSUME NEW N \in Nat, NEW G, NEW a, NEW c, Plain(a, c, N, G)
                     PROVE  Turn(Publish([a EXCEPT !.commit = 0], "idle", 0), c, N, G)
<1> DEFINE d == [a EXCEPT !.commit = 0]
<1>1. a \in Apps BY DEF Plain, Turn, Sound
<1>2. Less(a, d) BY <1>1 DEF Apps, Tuned, Less
<1> HIDE DEF d
<1>3. Plain(d, c, N, G) BY <1>2, LessPlain
<1>4. Turn(Publish(d, "idle", 0), c, N, G) BY <1>3, ShowsIdle DEF Plain
<1> QED BY <1>4 DEF d

\* The answer to a commit.
LEMMA CommitAnsweredSound == ASSUME NEW N \in Nat, NEW G, NEW a, NEW w, Plain(a, w.c, N, G), NEW s
                             PROVE  Sound(CommitAnswered(a, w, s), N, G)
<1> DEFINE b == IF s = "committed" THEN Installed(a) ELSE a
<1>1. Plain(b, w.c, N, G) BY InstalledPlain
<1>2. CommitAnswered(a, w, s) \in {Done(b, w.c), Done(Publish([b EXCEPT !.commit = 0], "idle", 0), w.c),
                                  Done(Publish(b, "commit_pending", w.c.n), w.c)}
  BY DEF CommitAnswered
<1> HIDE DEF b
<1>3. "commit_pending" \in Phases BY DEF Phases
<1>4. Turn(Publish(b, "commit_pending", w.c.n), w.c, N, G) BY <1>1, <1>3, Shows DEF Plain
<1>5. Turn(Publish([b EXCEPT !.commit = 0], "idle", 0), w.c, N, G) BY <1>1, Uncommitted
<1> QED BY <1>1, <1>2, <1>4, <1>5, DoneSound DEF Plain

\* The answer to a repeated commit.
LEMMA RecommitAnsweredSound == ASSUME NEW N \in Nat, NEW G, NEW a, NEW w, Plain(a, w.c, N, G), NEW s
                               PROVE  Sound(RecommitAnswered(a, w, s), N, G)
<1> DEFINE b == Installed(a)
<1>1. Plain(b, w.c, N, G) BY InstalledPlain
<1>2. RecommitAnswered(a, w, s) \in {Done(Publish([b EXCEPT !.commit = 0], "idle", 0), w.c), Done(a, w.c)}
  BY DEF RecommitAnswered
<1> HIDE DEF b
<1>3. Turn(Publish([b EXCEPT !.commit = 0], "idle", 0), w.c, N, G) BY <1>1, Uncommitted
<1> QED BY <1>2, <1>3, DoneSound DEF Plain

\* The answer to a native call that is withdrawn.
LEMMA WithdrawAnsweredSound == ASSUME NEW N \in Nat, NEW G, NEW a, NEW w, Plain(a, w.c, N, G)
                               PROVE  Sound(WithdrawAnswered(a, w), N, G)
<1> DEFINE d == [a EXCEPT !.ok = FALSE]
<1>1. a \in Apps BY DEF Plain, Turn, Sound
<1>2. Less(a, d) BY <1>1 DEF Apps, Tuned, Less
<1>3. WithdrawAnswered(a, w) = IF Unfinished(a.mem[w.c.n]) THEN PersistTerminal(a, w.c, "cancelled")
                               ELSE Done(Publish(d, "blocked", w.c.n), w.c)
  BY DEF WithdrawAnswered
<1> HIDE DEF d
<1>4. Plain(d, w.c, N, G) BY <1>2, LessPlain
<1>5. "blocked" \in Phases BY DEF Phases, Resting
<1>6. Sound(Done(Publish(d, "blocked", w.c.n), w.c), N, G) BY <1>4, <1>5, Shows, DoneSound DEF Plain
<1> QED BY <1>3, <1>6, PersistTerminalSound

----------------------------------------------------------------------------
(***************************************************************************)
(* The turn of an agent.                                                    *)
(***************************************************************************)

\* What a continuation knows of its attempt.
LEMMA Mine == ASSUME NEW N \in Nat, NEW G, NEW a, NEW c, Turn(a, c, N, G)
              PROVE  /\ a \in Apps /\ Sound(a, N, G) /\ ThreadOK(a, c, N) /\ Live(a, c.n) /\ c \in Threads
                     /\ c.n \in DOMAIN a.mem /\ c.n \in Nat /\ c.ep \in Nat /\ c.ep <= a.epoch
                     /\ a.mem[c.n] \in Att /\ a.mem[c.n].jr \in Jr /\ Let_go(a.mem[c.n], c.n, G)
<1>1. Sound(a, N, G) /\ ThreadOK(a, c, N) /\ Live(a, c.n) /\ c \in Threads /\ c.ep <= a.epoch BY DEF Turn, ThreadOK
<1>2. c.ep \in Nat BY <1>1 DEF Threads
<1> QED BY <1>1, <1>2, AttAt, AttHas

\* Failing a turn, agent's or direct.
LEMMA FailSound == ASSUME NEW N \in Nat, NEW G, NEW a, NEW c, Plain(a, c, N, G)
                   PROVE  Sound(Fail(a, c), N, G)
<1> DEFINE d == [a EXCEPT !.run = 0]
           m == [a EXCEPT !.mem[c.n] = [@ EXCEPT !.st = "failed", !.code = "other"]]
<1>1. /\ a \in Apps /\ Sound(a, N, G) /\ ThreadOK(a, c, N) /\ Live(a, c.n) /\ Turn(a, c, N, G) /\ "abandon" \notin c.who
  BY Mine DEF Plain
<1>2. Fail(a, c) = IF IsAgent(a.mem[c.n]) THEN Done(Publish(d, "resume_available", c.n), c)
                   ELSE IF ~Unfinished(a.mem[c.n]) THEN Done(Publish(a, "blocked", c.n), c)
                   ELSE Saving(m, c, "fail", NoPending)
  BY DEF Fail
<1>3. Less(a, d) BY <1>1 DEF Apps, Tuned, Less
<1> HIDE DEF d
<1>4. "resume_available" \in Phases /\ "blocked" \in Phases BY DEF Phases, Resting
<1>5. Sound(Done(Publish(d, "resume_available", c.n), c), N, G) BY <1>1, <1>3, <1>4, LessPlain, Shows, DoneSound
<1>6. Sound(Done(Publish(a, "blocked", c.n), c), N, G) BY <1>1, <1>4, Shows, DoneSound
<1>7. Unfinished(a.mem[c.n]) => Sound(Saving(m, c, "fail", NoPending), N, G)
  <2> SUFFICES ASSUME Unfinished(a.mem[c.n]) PROVE Sound(Saving(m, c, "fail", NoPending), N, G) OBVIOUS
  <2> DEFINE att == Ended(a.mem[c.n], "failed", "other")
             e == Rewrite(a, c.n, att)
  <2>1. "failed" \in Status \ {"prepared"} /\ "other" \in Codes BY DEF Status, Codes
  <2>2. Sound(e, N, G) /\ ThreadOK(e, c, N) BY <1>1, <2>1, EndedSound
  <2>3. m = e BY <1>1 DEF Rewrite, Put, Ended, Apps
  <2>4. Plain(e, c, N, G) BY <1>1, <2>2 DEF Plain, Turn
  <2> HIDE DEF m, e
  <2> QED BY <2>3, <2>4, SimpleSave
<1> QED BY <1>2, <1>5, <1>6, <1>7

\* What the continuation of a saved journal has to be sure of.
GoesOn(j, then) == /\ then \in Thens /\ then.at \notin {"none", "abandoned"}
                   /\ then.at = "intended" => then.i \in DOMAIN j.calls
                   /\ then.at = "decided" => then.d \in Verdicts

\* Writing a journal of the attempt that is running.
LEMMA JournalSound == ASSUME NEW N \in Nat, NEW G, NEW a, NEW c, Plain(a, c, N, G),
                             NEW kind \in {"checkpoint", "cancel", "final"},
                             NEW j, IsAgent(a.mem[c.n]) => Made(j), NEW then, GoesOn(j, then)
                      PROVE  Sound(Journal(a, c, kind, j, then), N, G)
<1>1. CASE IsAgent(a.mem[c.n]) /\ j.ph \in Legal(a.mem[c.n].jr.ph) /\ ~Interrupted(a.mem[c.n])
  <2> DEFINE att == With(a.mem[c.n], j)
  <2>1. a.mem[c.n] \in Att BY Mine DEF Plain
  <2>2. att \in Att /\ IsAgent(att) /\ att.jr.calls = j.calls /\ Let_go(att, c.n, G) BY <1>1, <2>1, WithTyped
  <2> HIDE DEF att
  <2>3. ThenOK(a, c, att, then, N) BY <2>2 DEF ThenOK, GoesOn
  <2>4. ~Direct(a.mem[c.n]) BY <1>1 DEF Direct
  <2>5. Sound(Save(a, c, kind, att, then), N, G) BY <2>2, <2>3, <2>4, SaveSound
  <2> QED BY <1>1, <2>5 DEF Journal, att
<1>2. CASE ~(IsAgent(a.mem[c.n]) /\ j.ph \in Legal(a.mem[c.n].jr.ph) /\ ~Interrupted(a.mem[c.n]))
  BY <1>2, FailSound DEF Journal
<1> QED BY <1>1, <1>2

\* A place at which a continuation goes on.
LEMMA ThenTyped == ASSUME NEW at \in Places PROVE Then(at) \in Thens /\ Then(at).at = at
BY NoneTyped DEF Then, Thens

\* A place with a call.
LEMMA ThenAt == ASSUME NEW t \in Thens, NEW i \in Nat
                PROVE  [t EXCEPT !.i = i] \in Thens /\ [t EXCEPT !.i = i].at = t.at /\ [t EXCEPT !.i = i].i = i
BY DEF Thens

\* A place with a decision or an answer.
LEMMA ThenSays == ASSUME NEW t \in Thens, NEW d \in Verdicts \cup {"ok", "manual"}
                  PROVE  [t EXCEPT !.d = d] \in Thens /\ [t EXCEPT !.d = d].at = t.at /\ [t EXCEPT !.d = d].d = d
BY DEF Thens

\* A continuation sent to another place.
LEMMA ThenGoes == ASSUME NEW t \in Thens, NEW at \in Places
                  PROVE  [t EXCEPT !.at = at] \in Thens /\ [t EXCEPT !.at = at].at = at
BY DEF Thens

\* The place at which a decision is bound.
LEMMA ThenDecided == ASSUME NEW i \in Nat, NEW d \in Verdicts, NEW more \in Seq(Decision)
                     PROVE  LET t == [Then("decided") EXCEPT !.i = i, !.d = d, !.more = more]
                            IN t \in Thens /\ t.at = "decided" /\ t.d = d
<1> DEFINE t0 == Then("decided")
           t == [t0 EXCEPT !.i = i, !.d = d, !.more = more]
<1>1. t0 \in Thens /\ t0.at = "decided" BY ThenTyped DEF Places
<1> HIDE DEF t0
<1>2. t \in Thens /\ t.at = "decided" /\ t.d = d BY <1>1 DEF Thens
<1> HIDE DEF t
<1> QED BY <1>2 DEF t, t0

\* Where a saved journal goes on to nothing but a place.
LEMMA ThenSimple == ASSUME NEW at \in Places \ {"none", "abandoned", "intended", "decided"}, NEW j
                    PROVE  GoesOn(j, Then(at))
<1>1. Then(at) \in Thens /\ Then(at).at = at BY ThenTyped
<1> QED BY <1>1 DEF GoesOn

\* The place at which a call is executed.
LEMMA ThenIntended == ASSUME NEW j \in Jr, NEW i \in DOMAIN j.calls
                      PROVE  GoesOn(j, [Then("intended") EXCEPT !.i = i])
<1>1. i \in Nat BY JournalHas
<1> DEFINE t0 == Then("intended")
<1>2. t0 \in Thens /\ t0.at = "intended" BY ThenTyped DEF Places
<1> HIDE DEF t0
<1> DEFINE t == [t0 EXCEPT !.i = i]
<1>3. t \in Thens /\ t.at = "intended" /\ t.i = i BY <1>1, <1>2, ThenAt
<1> HIDE DEF t
<1>4. GoesOn(j, t) BY <1>3 DEF GoesOn
<1> QED BY <1>4 DEF t, t0

\* A journal that is not empty.
LEMMA MadeJournal == ASSUME NEW j, Made(j) PROVE j \in Jr /\ j # NoJournal
BY DEF Made, NoJournal

\* The journal of an agent has a phase.
LEMMA AgentPhase == ASSUME NEW att \in Att, IsAgent(att) PROVE att.jr \in Jr /\ att.jr.ph # "none"
BY AttHas, JournalHas DEF IsAgent


\* A native call that asks nothing of the journal.
LEMMA CalledPlainly == ASSUME NEW N \in Nat, NEW G, NEW a, NEW c, Plain(a, c, N, G),
                              NEW on \in {"round", "freeze", "finalize", "discard", "query", "recover", "stop", "sweep",
                                          "withdraw"}
                       PROVE  Sound(Call(a, c, on, NoThen), N, G)
<1>1. AsksWell(a, c, on, NoThen) BY NoneTyped DEF AsksWell, Native, Plain
<1> QED BY <1>1, Called DEF Plain

\* Preparing the native attempt of a turn.
LEMMA RunPreparedSound == ASSUME NEW N \in Nat, NEW G, NEW a, NEW c, Plain(a, c, N, G),
                                 a.mem[c.n].st = "prepared"
                          PROVE  Sound(RunPrepared(a, c), N, G)
<1> DEFINE d == [c EXCEPT !.who = @ \cup {"prepared"}]
           b == [a EXCEPT !.run = c.ep, !.runOf = c.n, !.auth = 0]
           e == Publish(b, "starting", c.n)
<1>1. /\ a \in Apps /\ c \in Threads /\ c.n \in Nat /\ c.ep \in Nat /\ c.ep <= a.epoch /\ Live(a, c.n)
      /\ ThreadOK(a, c, N) /\ "abandon" \notin c.who
  BY Mine DEF Plain
<1>2. Less(a, b) /\ b.mem = a.mem BY <1>1 DEF Apps, Tuned, Less
<1> HIDE DEF b
<1>3. Plain(b, c, N, G) BY <1>2, LessPlain
<1>4. "starting" \in Phases BY DEF Phases
<1>5. Plain(e, c, N, G) /\ e.mem = a.mem
  <2>1. e.mem = b.mem BY DEF Publish
  <2> QED BY <1>2, <1>3, <1>4, <2>1, ShowsPlain
<1> HIDE DEF e
<1>6. d \in Threads /\ d.n = c.n /\ d.ep = c.ep /\ d.who = c.who \cup {"prepared"}
  BY <1>1 DEF Threads, Endings
<1> HIDE DEF d
<1>7. Plain(e, d, N, G)
  <2>1. ThreadOK(e, c, N) BY <1>5 DEF Plain, Turn
  <2>2. ThreadOK(e, d, N) BY <1>1, <1>6, <2>1 DEF ThreadOK
  <2> QED BY <1>1, <1>5, <1>6, <2>2 DEF Plain, Turn
<1>8. AsksWell(e, d, "prepare", NoThen) BY <1>5, <1>6, <1>7, NoneTyped DEF AsksWell, Native, Plain
<1>9. Sound(Call(e, d, "prepare", NoThen), N, G) BY <1>7, <1>8, Called DEF Plain
<1> QED BY <1>9 DEF RunPrepared, e, b, d

\* Running a prepared attempt.
LEMMA RunSound == ASSUME NEW N \in Nat, NEW G, NEW a, NEW c, Plain(a, c, N, G), a.mem[c.n].st = "prepared"
                  PROVE  Sound(Run(a, c), N, G)
BY RunDirectSound, RunPreparedSound DEF Run

\* The answer of native to a preparation.
LEMMA PrepareAnsweredSound ==
  ASSUME NEW N \in Nat, NEW G, NEW a, NEW w, Plain(a, w.c, N, G), NEW r, w.was.st = "prepared"
  PROVE  Sound(PrepareAnswered(a, w, r), N, G)
<1> DEFINE c == w.c
           b == [a EXCEPT !.run = 0]
<1>1. a \in Apps BY Mine DEF Plain
<1>2. Less(a, b) BY <1>1 DEF Apps, Tuned, Less
<1>3. "retryable" \in Phases BY DEF Phases, Resting
<1>4. CASE r.ans = "throw"
  <2>1. Sound(Done(Publish(a, "retryable", c.n), c), N, G) BY <1>3, Shows, DoneSound DEF Plain
  <2> QED BY <1>4, <2>1 DEF PrepareAnswered
<1>5. CASE r.ans # "throw" /\ a.epoch # c.ep
  BY <1>5, DoneSound DEF PrepareAnswered, Plain
<1>6. CASE ~(r.ans = "throw") /\ ~(a.epoch # c.ep) /\ r.ans = "not_agent"
  <2>1. PrepareAnswered(a, w, r) = RunDirect(b, c) BY <1>6 DEF PrepareAnswered
  <2> HIDE DEF b
  <2> QED BY <1>2, <2>1, LessPlain, RunDirectSound
<1>7. CASE ~(r.ans = "throw") /\ ~(a.epoch # c.ep) /\ ~(r.ans = "not_agent") /\ (r.ans = "conflict" \/ a.mem[c.n] # w.was)
  BY <1>7, FailSound DEF PrepareAnswered
<1>8. CASE ~(r.ans = "throw") /\ ~(a.epoch # c.ep) /\ ~(r.ans = "not_agent") /\ ~(r.ans = "conflict" \/ a.mem[c.n] # w.was)
  <2> DEFINE att == With(w.was, Ready)
  <2>1. a.mem[c.n] = w.was /\ w.was \in Att BY <1>8, Mine DEF Plain
  <2>2. Made(Ready) BY NoneTyped DEF Made, Ready, NoJournal
  <2>3. att \in Att /\ IsAgent(att) /\ Let_go(att, c.n, G) BY <2>1, <2>2, WithTyped
  <2> HIDE DEF att
  <2>4. ~Direct(a.mem[c.n]) BY <2>1 DEF Direct
  <2>5. Then("started") \in Thens /\ Then("started").at = "started" BY ThenTyped DEF Places
  <2>6. ThenOK(a, c, att, Then("started"), N) BY <2>5 DEF ThenOK
  <2>7. Sound(Save(a, c, "checkpoint", att, Then("started")), N, G) BY <2>3, <2>4, <2>6, SaveSound
  <2> QED BY <1>8, <2>7 DEF PrepareAnswered, att
<1> QED BY <1>4, <1>5, <1>6, <1>7, <1>8

\* Beginning a round.
LEMMA RunRoundSound == ASSUME NEW N \in Nat, NEW G, NEW a, NEW c, Plain(a, c, N, G)
                       PROVE  Sound(RunRound(a, c), N, G)
<1> DEFINE j == a.mem[c.n].jr
           b == Publish(a, "starting", c.n)
           att == With(a.mem[c.n], Began(j))
<1>1. RunRound(a, c) \in {Done(a, c), Fail(a, c)} \/ /\ IsAgent(a.mem[c.n]) /\ CanBegin(j)
                                                     /\ RunRound(a, c) = Save(b, c, "checkpoint", att, Then("launched"))
  BY DEF RunRound
<1>2. ASSUME IsAgent(a.mem[c.n]), CanBegin(j) PROVE Sound(Save(b, c, "checkpoint", att, Then("launched")), N, G)
  <2>1. a.mem[c.n] \in Att /\ j \in Jr BY Mine DEF Plain
  <2>2. Made(Began(j)) BY <1>2, <2>1, BeganMade
  <2>3. att \in Att /\ IsAgent(att) /\ Let_go(att, c.n, G) BY <2>1, <2>2, WithTyped
  <2> HIDE DEF att
  <2>4. "starting" \in Phases BY DEF Phases
  <2>5. Plain(b, c, N, G) /\ b.mem = a.mem
    <3>1. b.mem = a.mem BY DEF Publish
    <3> QED BY <2>4, <3>1, ShowsPlain
  <2> HIDE DEF b
  <2>6. ~Direct(b.mem[c.n]) BY <1>2, <2>5 DEF Direct
  <2>7. Then("launched") \in Thens /\ Then("launched").at = "launched" BY ThenTyped DEF Places
  <2>8. ThenOK(b, c, att, Then("launched"), N) BY <2>7 DEF ThenOK
  <2> QED BY <2>3, <2>5, <2>6, <2>8, SaveSound
<1> HIDE DEF j, b, att
<1> QED BY <1>1, <1>2, FailSound, DoneSound DEF Plain

\* The call of a round whose beginning is saved.
LEMMA RoundLaunchedSound == ASSUME NEW N \in Nat, NEW G, NEW a, NEW c, Plain(a, c, N, G)
                            PROVE  Sound(RoundLaunched(a, c), N, G)
<1>1. "sending" \in Phases BY DEF Phases
<1>2. Plain(Publish(a, "sending", c.n), c, N, G) BY <1>1, ShowsPlain
<1> QED BY <1>2, CalledPlainly DEF RoundLaunched


\* A journal saved under another phase on the screen.
LEMMA ShownJournal == ASSUME NEW N \in Nat, NEW G, NEW a, NEW c, Plain(a, c, N, G), NEW ph \in Phases,
                             NEW kind \in {"checkpoint", "cancel", "final"},
                             NEW j, IsAgent(a.mem[c.n]) => Made(j), NEW then, GoesOn(j, then)
                      PROVE  Sound(Journal(Publish(a, ph, c.n), c, kind, j, then), N, G)
<1> DEFINE b == Publish(a, ph, c.n)
<1>1. Plain(b, c, N, G) BY ShowsPlain
<1>2. b.mem = a.mem BY DEF Publish
<1> HIDE DEF b
<1>3. Sound(Journal(b, c, kind, j, then), N, G) BY <1>1, <1>2, JournalSound
<1> QED BY <1>3 DEF b

RoundAnswers == {"throw", "conflict", "in_flight", "unknown", "ambiguous", "cancelled", "refused", "final",
                 "blocked", "batch"}

\* The answer of native to a round.
LEMMA RoundAnsweredSound ==
  ASSUME NEW N \in Nat, NEW G, NEW a, NEW w, Plain(a, w.c, N, G), NEW r, r.ans \in RoundAnswers
  PROVE  Sound(RoundAnswered(a, w, r), N, G)
<1> DEFINE c == w.c
           j == a.mem[c.n].jr
           end == IF r.ans = "final" THEN "final_response" ELSE "failed"
<1>1. j \in Jr BY Mine DEF Plain
<1>2. "finalizing" \in Phases BY DEF Phases
<1>3. CASE a.epoch # c.ep \/ a.flight = c.ep
  BY <1>3, DoneSound DEF RoundAnswered, Plain
<1>4. CASE ~(a.epoch # c.ep \/ a.flight = c.ep) /\ (r.ans \in {"throw", "conflict"} \/ a.mem[c.n] # w.was)
  BY <1>4, FailSound DEF RoundAnswered
<1> DEFINE Rest == ~(a.epoch # c.ep \/ a.flight = c.ep) /\ ~(r.ans \in {"throw", "conflict"} \/ a.mem[c.n] # w.was)
<1>5. CASE Rest /\ r.ans = "in_flight"
  <2>1. Made(RoundOver(j, r.ans)) BY <1>1, <1>5, RoundOverMade
  <2>2. GoesOn(RoundOver(j, r.ans), Then("held")) BY ThenSimple DEF Places
  <2>3. RoundAnswered(a, w, r) = Journal(a, c, "checkpoint", RoundOver(j, r.ans), Then("held"))
    BY <1>5 DEF RoundAnswered
  <2> QED BY <2>1, <2>2, <2>3, JournalSound
<1>6. CASE Rest /\ r.ans \in {"unknown", "ambiguous"}
  <2>1. Made(RoundOver(j, r.ans)) BY <1>1, <1>6, RoundOverMade
  <2>2. GoesOn(RoundOver(j, r.ans), Then("lost")) BY ThenSimple DEF Places
  <2>3. RoundAnswered(a, w, r) = Journal(a, c, "cancel", RoundOver(j, r.ans), Then("lost"))
    BY <1>6 DEF RoundAnswered
  <2> QED BY <2>1, <2>2, <2>3, JournalSound
<1>7. CASE Rest /\ r.ans \in {"cancelled", "refused"}
  <2>1. Made(RoundOver(j, r.ans)) BY <1>1, <1>7, RoundOverMade
  <2>2. GoesOn(RoundOver(j, r.ans), Then("over")) BY ThenSimple DEF Places
  <2>3. RoundAnswered(a, w, r) = Journal(Publish(a, "finalizing", c.n), c, "cancel", RoundOver(j, r.ans), Then("over"))
    BY <1>7 DEF RoundAnswered
  <2> QED BY <1>2, <2>1, <2>2, <2>3, ShownJournal
<1>8. CASE Rest /\ r.ans \in {"final", "blocked"}
  <2>1. Made(Concluded(j, end)) BY <1>1, ConcludedMade
  <2>2. GoesOn(Concluded(j, end), Then("over")) BY ThenSimple DEF Places
  <2>3. RoundAnswered(a, w, r) = Journal(Publish(a, "finalizing", c.n), c, "final", Concluded(j, end), Then("over"))
    BY <1>8 DEF RoundAnswered
  <2> QED BY <1>2, <2>1, <2>2, <2>3, ShownJournal
<1>9. CASE Rest /\ r.ans = "batch"
  <2>1. Made(Answered(j)) BY <1>1, AnsweredMade
  <2>2. GoesOn(Answered(j), Then("answered")) BY ThenSimple DEF Places
  <2>3. RoundAnswered(a, w, r) = Journal(a, c, "checkpoint", Answered(j), Then("answered"))
    BY <1>9 DEF RoundAnswered
  <2> QED BY <2>1, <2>2, <2>3, JournalSound
<1> QED BY <1>3, <1>4, <1>5, <1>6, <1>7, <1>8, <1>9 DEF RoundAnswers

\* The answer of native to a freeze: the batch it returns is installed.
LEMMA FreezeAnsweredSound ==
  ASSUME NEW N \in Nat, NEW G, NEW a, NEW w, Plain(a, w.c, N, G), NEW r, r.calls \in Seq(CallRec), w.was \in Att
  PROVE  Sound(FreezeAnswered(a, w, r), N, G)
<1> DEFINE c == w.c
           auth == IF a.run = 0 THEN a.auth ELSE w.was.jr.rnd
           b == [a EXCEPT !.auth = auth]
           j == Frozen(w.was.jr, r.calls)
           i == FirstRunnable(r.calls)
           t == [Then("intended") EXCEPT !.i = i]
           ph == IF j.ph = "approval_pending" THEN j.ph ELSE "executing"
<1>1. a \in Apps BY Mine DEF Plain
<1>2. auth \in Nat
  <2>1. w.was.jr.rnd \in 0 .. MaxRound BY AttHas, JournalHas
  <2> QED BY <1>1, <2>1, RoundAssumption DEF Apps
<1>3. FreezeAnswered(a, w, r) \in {Fail(a, c), Done(a, c), Fail(b, c),
                                  Journal(Publish(b, ph, c.n), c, "checkpoint", j, Then("frozen"))}
      \/ /\ i # 0
         /\ FreezeAnswered(a, w, r) = Journal(Publish(b, "executing", c.n), c, "checkpoint", Intended(j, i), t)
  BY DEF FreezeAnswered
<1>4. j \in Jr /\ Made(j) /\ j.calls = r.calls BY FrozenMade, AttHas DEF Made
<1>5. ph \in Phases /\ "executing" \in Phases BY DEF Phases
<1> HIDE DEF auth
<1>6. Less(a, b) BY <1>1, <1>2 DEF Apps, Tuned, Less
<1> HIDE DEF b, j, ph
<1>7. Plain(b, c, N, G) BY <1>6, LessPlain
<1>8. i # 0 => i \in DOMAIN j.calls BY <1>4, FirstRunnableIn
<1> HIDE DEF i
<1>9. ASSUME i # 0 PROVE Sound(Journal(Publish(b, "executing", c.n), c, "checkpoint", Intended(j, i), t), N, G)
  <2>1. Made(Intended(j, i)) /\ Intended(j, i).calls = j.calls BY <1>4, <1>8, <1>9, IntendedMade
  <2>2. GoesOn(j, t) BY <1>4, <1>8, <1>9, ThenIntended
  <2>3. GoesOn(Intended(j, i), t) BY <2>1, <2>2 DEF GoesOn
  <2> HIDE DEF t
  <2> QED BY <1>5, <1>7, <2>1, <2>3, ShownJournal
<1>10. GoesOn(j, Then("frozen")) BY ThenSimple DEF Places
<1>11. Sound(Journal(Publish(b, ph, c.n), c, "checkpoint", j, Then("frozen")), N, G)
  BY <1>4, <1>5, <1>7, <1>10, ShownJournal
<1> HIDE DEF t
<1> QED BY <1>3, <1>7, <1>9, <1>11, FailSound, DoneSound DEF Plain

\* Saving the intent to execute a call.
LEMMA ExecuteSound == ASSUME NEW N \in Nat, NEW G, NEW a, NEW c, Plain(a, c, N, G),
                             NEW i, i \in DOMAIN a.mem[c.n].jr.calls
                      PROVE  Sound(Execute(a, c, i), N, G)
<1> DEFINE j == a.mem[c.n].jr
           t == [Then("intended") EXCEPT !.i = i]
<1>1. j \in Jr BY Mine DEF Plain
<1>2. Made(Intended(j, i)) /\ Intended(j, i).calls = j.calls BY <1>1, IntendedMade
<1>3. GoesOn(j, t) BY <1>1, ThenIntended
<1>4. GoesOn(Intended(j, i), t) BY <1>2, <1>3 DEF GoesOn
<1>5. "executing" \in Phases BY DEF Phases
<1>6. Sound(Journal(Publish(a, "executing", c.n), c, "checkpoint", Intended(j, i), t), N, G)
  BY <1>2, <1>4, <1>5, ShownJournal
<1> QED BY <1>6, FailSound DEF Execute

\* The next step of a batch: ask the user, execute, or begin another round.
LEMMA RunBatchSound == ASSUME NEW N \in Nat, NEW G, NEW a, NEW c, Plain(a, c, N, G)
                       PROVE  Sound(RunBatch(a, c), N, G)
<1> DEFINE j == a.mem[c.n].jr
           i == FirstRunnable(j.calls)
           b == Publish(a, "approval_pending", c.n)
           Asks == \E k \in DOMAIN j.calls : Open(j.calls[k]) /\ Pending(j.calls[k])
<1>1. \/ RunBatch(a, c) \in {Done(a, c), Fail(a, c), RunRound(a, c)}
      \/ Asks /\ RunBatch(a, c) = Call(b, c, "approve", NoThen)
      \/ i # 0 /\ RunBatch(a, c) = Execute(a, c, i)
  BY DEF RunBatch, Some
<1>2. j \in Jr BY Mine DEF Plain
<1>3. i # 0 => Sound(Execute(a, c, i), N, G)
  <2>1. i # 0 => i \in DOMAIN j.calls BY <1>2, JournalHas, FirstRunnableIn
  <2> QED BY <2>1, ExecuteSound
<1>4. Asks => Sound(Call(b, c, "approve", NoThen), N, G)
  <2>1. "approval_pending" \in Phases BY DEF Phases
  <2>2. Plain(b, c, N, G) BY <2>1, ShowsPlain
  <2>3. b.mem = a.mem BY DEF Publish
  <2> HIDE DEF b
  <2>4. Asks => AsksWell(b, c, "approve", NoThen) BY <2>2, <2>3, NoneTyped DEF AsksWell, Plain
  <2> QED BY <2>2, <2>4, Called DEF Plain
<1> HIDE DEF j, i, b, Asks
<1> QED BY <1>1, <1>3, <1>4, FailSound, DoneSound, RunRoundSound DEF Plain

\* Saving a decision of the user.
LEMMA DecideSound == ASSUME NEW N \in Nat, NEW G, NEW a, NEW c, Plain(a, c, N, G),
                            NEW more \in Seq(Decision), more # << >>
                     PROVE  Sound(Decide(a, c, more), N, G)
<1> DEFINE j == a.mem[c.n].jr
           x == Head(more)
           tl == Tail(more)
           t0 == Then("decided")
           t == [t0 EXCEPT !.i = x.i, !.d = x.d, !.more = tl]
<1>1. j \in Jr BY Mine DEF Plain
<1>2. x \in Decision OBVIOUS
<1>3. x.i \in Nat /\ x.d \in Verdicts BY <1>2 DEF Decision
<1>4. tl \in Seq(Decision) OBVIOUS
<1> HIDE DEF x, tl
<1>10. t0 \in Thens /\ t0.at = "decided" BY ThenTyped DEF Places
<1> HIDE DEF t0
<1>5. t \in Thens /\ t.at = "decided" /\ t.d = x.d BY <1>3, <1>4, <1>10 DEF Thens
<1> HIDE DEF t
<1>6. Made(Decided(j, x.i, x.d)) BY <1>1, <1>3, DecidedMade
<1>7. GoesOn(Decided(j, x.i, x.d), t) BY <1>3, <1>5 DEF GoesOn
<1>8. Sound(Journal(a, c, "checkpoint", Decided(j, x.i, x.d), t), N, G) BY <1>6, <1>7, JournalSound
<1>9. Decide(a, c, more) \in {Journal(a, c, "checkpoint", Decided(j, x.i, x.d), t), Fail(a, c)}
  BY DEF Decide, x, tl, t, t0
<1> QED BY <1>8, <1>9, FailSound


\* The decision of the user, heard.
LEMMA ApproveAnsweredSound ==
  ASSUME NEW N \in Nat, NEW G, NEW a, NEW w, Plain(a, w.c, N, G), NEW more \in Seq(Decision), more # << >>
  PROVE  Sound(ApproveAnswered(a, w, more), N, G)
BY DecideSound, DoneSound DEF ApproveAnswered, Plain

\* A decision that is saved is bound by native.
LEMMA DecisionCommittedSound ==
  ASSUME NEW N \in Nat, NEW G, NEW a, NEW c, Plain(a, c, N, G), NEW then \in Thens
  PROVE  Sound(DecisionCommitted(a, c, then), N, G)
<1>1. then.more \in Seq(Decision) BY DEF Thens
<1> QED BY <1>1, RunBatchSound, DecideSound, DoneSound DEF DecisionCommitted, Plain

\* The answer of native to a bind.
LEMMA BindAnsweredSound ==
  ASSUME NEW N \in Nat, NEW G, NEW a, NEW w, Plain(a, w.c, N, G), NEW r, w.arg \in Thens
  PROVE  Sound(BindAnswered(a, w, r), N, G)
<1> DEFINE c == w.c
           j == a.mem[c.n].jr
           i == w.arg.i
           then == [w.arg EXCEPT !.at = "bound"]
<1>1. j \in Jr BY Mine DEF Plain
<1>2. then \in Thens /\ then.at = "bound" BY ThenGoes DEF Places
<1> HIDE DEF then
<1>3. \A k : GoesOn(k, then) BY <1>2 DEF GoesOn
<1>4. \/ BindAnswered(a, w, r) = Fail(a, c)
      \/ i \in DOMAIN j.calls /\ BindAnswered(a, w, r) = Journal(a, c, "checkpoint", DenialSettled(j, i), then)
      \/ BindAnswered(a, w, r) = Journal(a, c, "checkpoint", ApprovalBound(j), then)
  BY DEF BindAnswered, then
<1>5. i \in DOMAIN j.calls => Sound(Journal(a, c, "checkpoint", DenialSettled(j, i), then), N, G)
  <2>1. i \in DOMAIN j.calls => Made(DenialSettled(j, i)) BY <1>1, DenialSettledMade
  <2> QED BY <1>3, <2>1, JournalSound
<1>6. Sound(Journal(a, c, "checkpoint", ApprovalBound(j), then), N, G)
  <2>1. Made(ApprovalBound(j)) BY <1>1, ApprovalBoundMade
  <2> QED BY <1>3, <2>1, JournalSound
<1> HIDE DEF i, j
<1> QED BY <1>4, <1>5, <1>6, FailSound

\* The answer of native to a tool call.
LEMMA ExecuteAnsweredSound ==
  ASSUME NEW N \in Nat, NEW G, NEW a, NEW w, Plain(a, w.c, N, G), NEW r, w.was \in Att, w.arg.i \in DOMAIN w.was.jr.calls
  PROVE  Sound(ExecuteAnswered(a, w, r), N, G)
<1> DEFINE c == w.c
           i == w.arg.i
           j == Resulted(w.was.jr, i, r.ans)
           opens == {k \in DOMAIN j.calls : k > i /\ Open(j.calls[k])}
           next == IF opens = {} THEN 0 ELSE CHOOSE k \in opens : \A m \in opens : k <= m
           t == [Then("intended") EXCEPT !.i = next]
           k2 == Intended(Advanced(j, next), next)
<1>1. Made(j) /\ j \in Jr BY ResultedMade, AttHas DEF Made
<1>2. j.calls \in Seq(CallRec) BY <1>1, JournalHas
<1> HIDE DEF j, i
<1>3. next # 0 => next \in DOMAIN j.calls
  <2>1. ASSUME opens # {} PROVE next \in DOMAIN j.calls
    <3>1. opens \in SUBSET Nat BY <1>2
    <3> DEFINE x == Min(opens)
    <3>2. x \in opens /\ \A m \in opens : x <= m
      <4> HIDE DEF opens
      <4> QED BY <2>1, <3>1, LeastIn
    <3>3. next = x BY <2>1 DEF Min
    <3> QED BY <3>2, <3>3
  <2> QED BY <2>1
<1> HIDE DEF next
<1>9. ExecuteAnswered(a, w, r) =
        IF a.epoch # c.ep \/ a.flight = c.ep THEN Done(a, c)
        ELSE IF r.ans \in {"throw", "conflict"} \/ a.mem[c.n] # w.was THEN Fail(a, c)
        ELSE IF r.ans = "cancelled" THEN Journal(Publish(a, "finalizing", c.n), c, "final", j, Then("over"))
        ELSE IF r.ans = "ok" /\ next # 0 /\ a.auth # 0 /\ a.run # 0
                /\ Runnable(j.calls[next]) /\ CanAdvance(j, next)
        THEN Journal(Publish(a, "executing", c.n), c, "checkpoint", k2, t)
        ELSE Journal(a, c, "checkpoint", j, Then("recorded"))
  BY DEF ExecuteAnswered, next, j, i
<1>4. \/ ExecuteAnswered(a, w, r) \in {Done(a, c), Fail(a, c)}
      \/ ExecuteAnswered(a, w, r) = Journal(Publish(a, "finalizing", c.n), c, "final", j, Then("over"))
      \/ next # 0 /\ ExecuteAnswered(a, w, r) = Journal(Publish(a, "executing", c.n), c, "checkpoint", k2, t)
      \/ ExecuteAnswered(a, w, r) = Journal(a, c, "checkpoint", j, Then("recorded"))
  BY <1>9
<1>5. "finalizing" \in Phases /\ "executing" \in Phases BY DEF Phases
<1>6. Sound(Journal(Publish(a, "finalizing", c.n), c, "final", j, Then("over")), N, G)
  <2>1. GoesOn(j, Then("over")) BY ThenSimple DEF Places
  <2> QED BY <1>1, <1>5, <2>1, ShownJournal
<1>7. Sound(Journal(a, c, "checkpoint", j, Then("recorded")), N, G)
  <2>1. GoesOn(j, Then("recorded")) BY ThenSimple DEF Places
  <2> QED BY <1>1, <2>1, JournalSound
<1>8. ASSUME next # 0 PROVE Sound(Journal(Publish(a, "executing", c.n), c, "checkpoint", k2, t), N, G)
  <2>1. next \in DOMAIN j.calls BY <1>3, <1>8
  <2>2. Advanced(j, next) \in Jr /\ Advanced(j, next).calls = j.calls BY <1>1, <2>1, AdvancedMade DEF Made
  <2>3. Made(k2) /\ k2.calls = j.calls BY <2>1, <2>2, IntendedMade
  <2>4. GoesOn(j, t) BY <1>1, <2>1, ThenIntended
  <2>5. GoesOn(k2, t) BY <2>3, <2>4 DEF GoesOn
  <2> HIDE DEF k2, t
  <2> QED BY <1>5, <2>3, <2>5, ShownJournal
<1> HIDE DEF k2, t
<1> QED BY <1>4, <1>6, <1>7, <1>8, FailSound, DoneSound DEF Plain

\* The step after a result is saved.
LEMMA ResultRecordedSound == ASSUME NEW N \in Nat, NEW G, NEW a, NEW c, Plain(a, c, N, G)
                             PROVE  Sound(ResultRecorded(a, c), N, G)
<1> DEFINE j == a.mem[c.n].jr
           i == FirstRunnable(j.calls)
<1>1. j \in Jr BY Mine DEF Plain
<1>2. i # 0 => i \in DOMAIN j.calls BY <1>1, JournalHas, FirstRunnableIn
<1>3. \/ ResultRecorded(a, c) \in {Done(Publish(a, "retryable", c.n), c), RunBatch(a, c), Fail(a, c)}
      \/ i # 0 /\ ResultRecorded(a, c) = Journal(a, c, "checkpoint", Advanced(j, i), Then("frozen"))
  BY DEF ResultRecorded
<1>4. i # 0 => Sound(Journal(a, c, "checkpoint", Advanced(j, i), Then("frozen")), N, G)
  <2>1. i # 0 => Made(Advanced(j, i)) BY <1>1, <1>2, AdvancedMade
  <2>2. GoesOn(Advanced(j, i), Then("frozen")) BY ThenSimple DEF Places
  <2> HIDE DEF i
  <2> QED BY <2>1, <2>2, JournalSound
<1>5. "retryable" \in Phases BY DEF Phases, Resting
<1>6. Sound(Done(Publish(a, "retryable", c.n), c), N, G) BY <1>5, Shows, DoneSound DEF Plain
<1> HIDE DEF i, j
<1> QED BY <1>3, <1>4, <1>6, FailSound, RunBatchSound

\* Finalizing a turn natively.
LEMMA FinalizeSound == ASSUME NEW N \in Nat, NEW G, NEW a, NEW c, Plain(a, c, N, G)
                       PROVE  Sound(Finalize(a, c), N, G)
BY DoneSound, CalledPlainly DEF Finalize, Plain

\* The answer of native to a finalize.
LEMMA FinalizeAnsweredSound == ASSUME NEW N \in Nat, NEW G, NEW a, NEW w, Plain(a, w.c, N, G), NEW r
                               PROVE  Sound(FinalizeAnswered(a, w, r), N, G)
BY FailSound, CalledPlainly DEF FinalizeAnswered

\* The entry of an attempt leaves the outbox when native has let go of it.
LEMMA AcknowledgeSound == ASSUME NEW N \in Nat, NEW G, NEW a, NEW c, Turn(a, c, N, G), c.n \in G
                          PROVE  Sound(Acknowledge(a, c), N, G)
<1> DEFINE r == FALSE
<1>0. r \in BOOLEAN /\ ~r OBVIOUS
<1> HIDE DEF r
<1> DEFINE att == [a.mem[c.n] EXCEPT !.residue = r]
           tx == [before |-> a.mem[c.n], state |-> "open", next |-> Put(a.mem, c.n, att)]
           p == [NoPending EXCEPT !.ep = c.ep, !.n = c.n, !.kind = "ack", !.tx = tx]
           b == Rewrite(a, c.n, att)
           d == [b EXCEPT !.ack = p]
<1>1. /\ a \in Apps /\ Sound(a, N, G) /\ ThreadOK(a, c, N) /\ Live(a, c.n) /\ c.n \in Nat /\ c.ep \in Nat
      /\ c.ep <= a.epoch /\ a.mem[c.n] \in Att /\ Let_go(a.mem[c.n], c.n, G)
  BY Mine
<1>2. /\ Sound(b, N, G) /\ b \in Apps /\ att \in Att /\ ThreadOK(b, c, N) /\ Live(b, c.n) /\ b.epoch = a.epoch
      /\ b.mem = Put(a.mem, c.n, att)
  <2>1. Sound(b, N, G) /\ b \in Apps /\ att \in Att BY <1>0, <1>1, ResidueSound
  <2>2. ThreadOK(b, c, N) BY <1>0, <1>1, ResidueSound
  <2>3. Live(b, c.n) BY <1>0, <1>1, ResidueSound
  <2>4. b.epoch = a.epoch /\ b.mem = Put(a.mem, c.n, att) BY <1>0, <1>1, ResidueSound
  <2> QED BY <2>1, <2>2, <2>3, <2>4
<1>3. tx \in Txs
  <2>1. b.mem \in Seq(Att) BY <1>2 DEF Sound, Doc
  <2> QED BY <1>1, <1>2, <2>1 DEF Txs
<1>4. tx.before = a.mem[c.n] OBVIOUS
<1> HIDE DEF tx
<1>5. p \in Pends /\ p.ep = c.ep /\ p.n = c.n /\ p.kind = "ack" /\ p.tx = tx
  BY <1>1, <1>3, NoneTyped DEF Pends
<1> HIDE DEF p, b
<1>6. d \in Apps /\ Tuned(b, d) BY <1>1, <1>2, <1>5 DEF Apps, Tuned
<1>7. Turn(d, c, N, G) BY <1>2, <1>6, TunedSound DEF Turn
<1>8. [a EXCEPT !.mem[c.n] = att, !.ack = p] = d BY <1>1 DEF d, b, Rewrite, Put, Apps
<1> HIDE DEF d
<1>9. SavesWell(d, c, "ack", p, N, G) BY <1>1, <1>4, <1>5 DEF SavesWell, Saves, Tx
<1>10. Sound(Saving(d, c, "ack", p), N, G) BY <1>7, <1>9, Saved
<1>11. "blocked" \in Phases BY DEF Phases, Resting
<1>12. Sound(Done(Publish(a, "blocked", c.n), c), N, G) BY <1>11, Shows, DoneSound
<1>13. Acknowledge(a, c) \in {Saving(d, c, "ack", p), Done(Publish(a, "blocked", c.n), c)}
  BY <1>8 DEF Acknowledge, p, tx, Put, r
<1> QED BY <1>10, <1>12, <1>13

\* The answer of native to a discard: evidence that is gone leaves the
\* outbox.
LEMMA DiscardAnsweredSound ==
  ASSUME NEW N \in Nat, NEW G, NEW a, NEW w, Plain(a, w.c, N, G), NEW r,
         r.ans \notin {"throw", "conflict"} => w.c.n \in G
  PROVE  Sound(DiscardAnswered(a, w, r), N, G)
<1>1. "persistence_pending" \in Phases BY DEF Phases
<1>2. Sound(Done(Publish(a, "persistence_pending", w.c.n), w.c), N, G) BY <1>1, Shows, DoneSound DEF Plain
<1> QED BY <1>2, FailSound, AcknowledgeSound DEF DiscardAnswered, Plain

\* The answer of native to an interrupt: evidence that is gone leaves the
\* outbox.
LEMMA InterruptAnsweredSound ==
  ASSUME NEW N \in Nat, NEW G, NEW a, NEW w, Turn(a, w.c, N, G), NEW r, r.ans = "ok" => w.c.n \in G
  PROVE  Sound(InterruptAnswered(a, w, r), N, G)
BY DoneSound, AcknowledgeSound DEF InterruptAnswered

----------------------------------------------------------------------------
(***************************************************************************)
(* Cancelling and recovery.                                                 *)
(***************************************************************************)

\* Asking for the cancellation of a turn.
LEMMA CancelRunSound == ASSUME NEW N \in Nat, NEW G, NEW a, NEW c, Plain(a, c, N, G)
                        PROVE  Sound(CancelRun(a, c), N, G)
<1> DEFINE att == With(a.mem[c.n], Asked(a.mem[c.n].jr))
           ok == FALSE
           b == [a EXCEPT !.ok = ok]
           d == Publish(a, "cancelling", c.n)
<1>1. \/ CancelRun(a, c) \in {Done(a, c), Done(Publish(b, "blocked", c.n), c)}
      \/ IsAgent(a.mem[c.n]) /\ CancelRun(a, c) = Save(d, c, "cancel", att, Then("asked"))
  BY DEF CancelRun
<1>2. a \in Apps /\ a.mem[c.n] \in Att BY Mine DEF Plain
<1>3. ok \in BOOLEAN OBVIOUS
<1> HIDE DEF ok
<1>4. Less(a, b) BY <1>2, <1>3 DEF Apps, Tuned, Less
<1> HIDE DEF b
<1>5. "blocked" \in Phases /\ "cancelling" \in Phases BY DEF Phases, Resting
<1>6. Sound(Done(a, c), N, G) BY DoneSound DEF Plain
<1>7. Sound(Done(Publish(b, "blocked", c.n), c), N, G)
  BY <1>4, <1>5, LessPlain, Shows, DoneSound DEF Plain
<1>8. ASSUME IsAgent(a.mem[c.n]) PROVE Sound(Save(d, c, "cancel", att, Then("asked")), N, G)
  <2>1. Made(Asked(a.mem[c.n].jr)) BY <1>2, <1>8, AgentPhase, AskedMade
  <2>2. att \in Att /\ IsAgent(att) /\ Let_go(att, c.n, G) BY <1>2, <2>1, WithTyped
  <2> HIDE DEF att
  <2>3. Plain(d, c, N, G) BY <1>5, ShowsPlain
  <2>4. d.mem = a.mem BY DEF Publish
  <2> HIDE DEF d
  <2>5. ~Direct(d.mem[c.n]) BY <1>8, <2>4 DEF Direct
  <2>6. Then("asked") \in Thens /\ Then("asked").at = "asked" BY ThenTyped DEF Places
  <2>7. ThenOK(d, c, att, Then("asked"), N) BY <2>6 DEF ThenOK
  <2> QED BY <2>2, <2>3, <2>5, <2>7, SaveSound
<1> HIDE DEF d, att
<1> QED BY <1>1, <1>6, <1>7, <1>8

\* The run that is cancelled, and whatever its canceller has still to finish.
LEMMA SettleSound == ASSUME NEW N \in Nat, NEW G, NEW a, NEW c, Plain(a, c, N, G)
                     PROVE  Sound(Settle(a, c), N, G)
<1> DEFINE ok == FALSE
           b == [a EXCEPT !.req = 0, !.flight = a.run, !.ok = ok]
           d == Context(a.runOf, a.run, {"settle"} \cup c.who)
<1>1. \/ Settle(a, c) = Done(a, c)
      \/ a.run # 0 /\ Settle(a, c) = CancelRun(b, d)
  BY DEF Settle
<1>2. /\ a \in Apps /\ Sound(a, N, G) /\ ThreadOK(a, c, N) /\ c \in Threads /\ "abandon" \notin c.who
      /\ a.run \in Nat
  BY Mine DEF Plain, Apps
<1>3. ok \in BOOLEAN OBVIOUS
<1> HIDE DEF ok
<1>4. Less(a, b) BY <1>2, <1>3 DEF Apps, Tuned, Less
<1>5. b.epoch = a.epoch /\ b.mem = a.mem /\ b.prep = a.prep /\ b.waits = a.waits /\ b.retrying = a.retrying
  OBVIOUS
<1> HIDE DEF b
<1>6. ASSUME a.run # 0 PROVE Sound(CancelRun(b, d), N, G)
  <2>1. a.run <= a.epoch /\ Live(a, a.runOf) BY <1>2, <1>6 DEF Sound, Refs
  <2>2. a.runOf \in Nat BY <1>2 DEF Apps
  <2>3. d.n = a.runOf /\ d.ep = a.run /\ d.who = {"settle"} \cup c.who BY DEF Context
  <2>4. d \in Threads BY <1>2, <2>2 DEF Threads, Endings, Context
  <2> HIDE DEF d
  <2>5. ThreadOK(a, d, N) BY <1>2, <2>1, <2>3, <2>4 DEF ThreadOK
  <2>6. Plain(a, d, N, G) BY <1>2, <2>3, <2>5 DEF Plain, Turn
  <2> QED BY <1>4, <2>6, LessPlain, CancelRunSound
<1> HIDE DEF d
<1> QED BY <1>1, <1>6, DoneSound DEF Plain

\* The answer of native to a cancellation.
LEMMA StopAnsweredSound == ASSUME NEW N \in Nat, NEW G, NEW a, NEW w, Plain(a, w.c, N, G), NEW r
                           PROVE  Sound(StopAnswered(a, w, r), N, G)
<1> DEFINE c == w.c
           ok == FALSE
           b == [a EXCEPT !.ok = ok]
           j == Stopped(a.mem[c.n].jr, r.ans)
           at == IF r.ans = "cancelled" THEN "stopped" ELSE "unsettled"
<1>1. StopAnswered(a, w, r) \in {Done(b, c), Fail(a, c), Journal(a, c, "cancel", j, Then(at))}
  BY DEF StopAnswered
<1>2. a \in Apps /\ a.mem[c.n] \in Att BY Mine DEF Plain
<1>3. ok \in BOOLEAN OBVIOUS
<1> HIDE DEF ok
<1>4. Less(a, b) BY <1>2, <1>3 DEF Apps, Tuned, Less
<1> HIDE DEF b
<1>5. Sound(Done(b, c), N, G) BY <1>4, LessPlain, DoneSound DEF Plain
<1>6. IsAgent(a.mem[c.n]) => Made(j) BY <1>2, AgentPhase, StoppedMade
<1>7. GoesOn(j, Then(at)) BY ThenSimple DEF Places
<1> HIDE DEF j, at
<1>8. Sound(Journal(a, c, "cancel", j, Then(at)), N, G) BY <1>6, <1>7, JournalSound
<1> QED BY <1>1, <1>5, <1>8, FailSound

\* Starting a recovery.
LEMMA RecoverSound == ASSUME NEW N \in Nat, NEW G, NEW a, Sound(a, N, G), NEW n, Live(a, n)
                      PROVE  Sound(Recover(a, n), N, G)
<1> DEFINE c == Context(n, a.epoch + 1, {"recover"})
           b == Raise(a)
           d == [b EXCEPT !.run = c.ep, !.runOf = n, !.auth = 0, !.read = c.ep]
<1>1. a \in Apps /\ n \in Nat /\ n \in DOMAIN a.mem /\ a.epoch \in Nat BY AttAt DEF Apps
<1>2. /\ Sound(b, N, G) /\ b \in Apps /\ b.epoch = a.epoch + 1 /\ b.mem = a.mem /\ b.prep = a.prep
  BY RaiseSound
<1>3. c.n = n /\ c.ep = a.epoch + 1 /\ c.who = {"recover"} BY DEF Context
<1>4. c \in Threads BY <1>1 DEF Context, Threads, Endings
<1>5. Live(b, n) BY <1>2 DEF Live
<1>6. Recover(a, n) = Call(Publish(d, "recovering", n), c, "query", NoThen)
  <2>1. [a EXCEPT !.epoch = c.ep, !.run = c.ep, !.runOf = n, !.auth = 0, !.read = c.ep] = d
    BY <1>1, <1>3 DEF Raise, Apps
  <2> QED BY <2>1 DEF Recover
<1> HIDE DEF b, c
<1>7. Plain(b, c, N, G)
  <2>1. ThreadOK(b, c, N) BY <1>1, <1>2, <1>3, <1>4, <1>5 DEF ThreadOK
  <2> QED BY <1>2, <1>3, <2>1 DEF Plain, Turn
<1>8. Less(b, d)
  <2>1. c.ep \in Nat /\ c.ep <= b.epoch BY <1>1, <1>2, <1>3
  <2>2. d \in Apps BY <1>1, <1>2, <2>1 DEF Apps
  <2>3. Tuned(b, d) BY <1>2, <1>5, <2>1 DEF Tuned, Apps
  <2> QED BY <2>2, <2>3 DEF Less
<1> HIDE DEF d
<1>9. "recovering" \in Phases BY DEF Phases
<1>10. Plain(Publish(d, "recovering", c.n), c, N, G) BY <1>7, <1>8, <1>9, LessPlain, ShowsPlain
<1> QED BY <1>3, <1>6, <1>10, CalledPlainly

\* The answer of native to a query of the attempt.
LEMMA QueryAnsweredSound == ASSUME NEW N \in Nat, NEW G, NEW a, NEW w, Plain(a, w.c, N, G), NEW r
                            PROVE  Sound(QueryAnswered(a, w, r), N, G)
<1> DEFINE c == w.c
           read == IF a.read = c.ep THEN 0 ELSE a.read
           b == [a EXCEPT !.read = read]
<1>1. a \in Apps BY Mine DEF Plain
<1>2. read \in Nat BY <1>1 DEF Apps
<1>3. QueryAnswered(a, w, r) \in {Done(b, c), Done(Publish(b, "resume_available", c.n), c), Call(b, c, "recover", NoThen)}
  BY DEF QueryAnswered
<1> HIDE DEF read
<1>4. Less(a, b) BY <1>1, <1>2 DEF Less, Tuned, Apps
<1> HIDE DEF b
<1>5. Plain(b, c, N, G) BY <1>4, LessPlain
<1>6. "resume_available" \in Phases BY DEF Phases, Resting
<1>7. Sound(Done(b, c), N, G) BY <1>5, DoneSound DEF Plain
<1>8. Sound(Done(Publish(b, "resume_available", c.n), c), N, G) BY <1>5, <1>6, Shows, DoneSound DEF Plain
<1> QED BY <1>3, <1>5, <1>7, <1>8, CalledPlainly

\* The answer of native to a recovery: the journal it projects is installed.
LEMMA RecoverAnsweredSound ==
  ASSUME NEW N \in Nat, NEW G, NEW a, NEW w, Plain(a, w.c, N, G), NEW r, w.was \in Att, r.jr \in Jr,
         r.ans \in {"ok", "manual"} => r.jr.ph # "none",
         r.ans \in {"throw", "conflict", "retryable", "ok", "manual"}
  PROVE  Sound(RecoverAnswered(a, w, r), N, G)
<1> DEFINE c == w.c
           step == IF r.ans = "manual" THEN r.ans ELSE r.next
           k == Concluded(w.was.jr, "final_response")
           att == With(w.was, r.jr)
           then == [Then("recovered") EXCEPT !.d = r.ans]
           Rest(ph) == Done(Publish(a, ph, c.n), c)
<1>1. \/ RecoverAnswered(a, w, r) \in {Rest("resume_available"), Rest("retryable"), Fail(a, c)}
      \/ RecoverAnswered(a, w, r) = Journal(Publish(a, "finalizing", c.n), c, "final", k, Then("over"))
      \/ /\ r.ans \in {"ok", "manual"} /\ a.mem[c.n] = w.was /\ CanRecover(w.was.jr, r.jr, step)
         /\ RecoverAnswered(a, w, r) = Save(a, c, "checkpoint", att, then)
  BY DEF RecoverAnswered, FinishRecovered
<1>2. \A ph \in {"resume_available", "retryable"} : Sound(Rest(ph), N, G)
  <2>1. {"resume_available", "retryable"} \subseteq Phases BY DEF Phases, Resting
  <2> QED BY <2>1, Shows, DoneSound DEF Plain
<1>3. Sound(Journal(Publish(a, "finalizing", c.n), c, "final", k, Then("over")), N, G)
  <2>1. w.was.jr \in Jr BY AttHas
  <2>2. Made(k) BY <2>1, ConcludedMade
  <2>3. GoesOn(k, Then("over")) BY ThenSimple DEF Places
  <2>4. "finalizing" \in Phases BY DEF Phases
  <2> HIDE DEF k
  <2> QED BY <2>2, <2>3, <2>4, ShownJournal
<1>4. ASSUME r.ans \in {"ok", "manual"}, a.mem[c.n] = w.was, CanRecover(w.was.jr, r.jr, step)
      PROVE  Sound(Save(a, c, "checkpoint", att, then), N, G)
  <2>1. r.jr.ph \in Legal(w.was.jr.ph) /\ r.jr.ph # "none" /\ w.was.jr.ph # "none"
    <3>1. r.jr.ph \in Legal(w.was.jr.ph) BY <1>4 DEF CanRecover
    <3>2. r.jr.ph # "none" BY <1>4
    <3> QED BY <3>1, <3>2 DEF Legal
  <2>2. Made(r.jr) BY <2>1 DEF Made
  <2>3. att \in Att /\ IsAgent(att) /\ Let_go(att, c.n, G) BY <2>2, WithTyped
  <2>4. IsAgent(w.was) BY <2>1 DEF IsAgent, NoJournal
  <2>5. then \in Thens /\ then.at = "recovered"
    <3>1. Then("recovered") \in Thens /\ Then("recovered").at = "recovered" BY ThenTyped DEF Places
    <3> QED BY <1>4, <3>1, ThenSays
  <2> HIDE DEF att, then
  <2>6. ThenOK(a, c, att, then, N) BY <2>5 DEF ThenOK
  <2>7. ~Direct(a.mem[c.n]) BY <1>4, <2>4 DEF Direct
  <2> QED BY <2>3, <2>6, <2>7, SaveSound
<1>5. Sound(Fail(a, c), N, G) BY FailSound
<1> HIDE DEF Rest, att, then, k, step
<1> QED BY <1>1, <1>2, <1>3, <1>4, <1>5

\* The step after a recovered journal is saved.
LEMMA RecoveredSound == ASSUME NEW N \in Nat, NEW G, NEW a, NEW c, Plain(a, c, N, G), NEW then
                        PROVE  Sound(Recovered(a, c, then), N, G)
<1> DEFINE j == a.mem[c.n].jr
           auth == IF a.run # 0 /\ j.calls # << >> THEN j.rnd ELSE a.auth
           b == [a EXCEPT !.auth = auth]
<1>1. \/ Recovered(a, c, then) \in {RunRound(b, c), RunBatch(b, c)}
      \/ Recovered(a, c, then) \in {Done(Publish(b, ph, c.n), c) : ph \in {"resume_available", "retryable"}}
  BY DEF Recovered
<1>2. a \in Apps /\ j \in Jr BY Mine DEF Plain
<1>3. auth \in Nat BY <1>2, JournalHas DEF Apps
<1> HIDE DEF auth
<1>4. Less(a, b) BY <1>2, <1>3 DEF Less, Tuned, Apps
<1> HIDE DEF b, j
<1>5. Plain(b, c, N, G) BY <1>4, LessPlain
<1>6. \A ph \in {"resume_available", "retryable"} : Sound(Done(Publish(b, ph, c.n), c), N, G)
  <2>1. {"resume_available", "retryable"} \subseteq Phases BY DEF Phases, Resting
  <2> QED BY <1>5, <2>1, Shows, DoneSound DEF Plain
<1> QED BY <1>1, <1>5, <1>6, RunRoundSound, RunBatchSound

----------------------------------------------------------------------------
(***************************************************************************)
(* Saves of a run.                                                          *)
(***************************************************************************)

\* Nothing has changed that a continuation could look at.
Level(a, b, N, G) ==
  /\ Sound(b, N, G) /\ b \in Apps /\ b.mem = a.mem /\ b.epoch = a.epoch /\ b.prep = a.prep /\ b.kind = a.kind
  /\ b.waits = a.waits \/ DOMAIN b.waits = DOMAIN a.waits
  /\ \A c : ThreadOK(a, c, N) => ThreadOK(b, c, N)
  /\ Free(a, N) => Free(b, N)

\* Installing a document keeps the level of the controller.
LEMMA LevelInstalled == ASSUME NEW N \in Nat, NEW G, NEW a, Sound(a, N, G) PROVE Level(a, Installed(a), N, G)
<1>1. a \in Apps BY DEF Sound
<1>2. Installed(a) \in Apps /\ Retold(a, Installed(a)) BY <1>1, InstalledRetold
<1> QED BY <1>2, RetoldSound DEF Level, Retold

\* Settling a transaction keeps the level of the controller.
LEMMA LevelSettled == ASSUME NEW N \in Nat, NEW G, NEW a, Sound(a, N, G), NEW p PROVE Level(a, TxSettled(a, p), N, G)
<1>1. a \in Apps BY DEF Sound
<1>2. TxSettled(a, p) \in Apps /\ Retold(a, TxSettled(a, p)) BY <1>1, TxSettledRetold
<1> QED BY <1>2, RetoldSound DEF Level, Retold

\* Losing a pointer keeps the level of the controller.
LEMMA LevelLess == ASSUME NEW N \in Nat, NEW G, NEW a, Sound(a, N, G), NEW b, Less(a, b), b.kind = a.kind
                   PROVE  Level(a, b, N, G)
<1>1. Sound(b, N, G) /\ \A c : ThreadOK(a, c, N) => ThreadOK(b, c, N) BY TunedSound DEF Less
<1>2. Free(a, N) => Free(b, N) BY DEF Free, Less, Tuned, Marked
<1> QED BY <1>1, <1>2 DEF Level, Less, Tuned

\* A controller is level with itself.
LEMMA LevelSelf == ASSUME NEW N \in Nat, NEW G, NEW a, Sound(a, N, G) PROVE Level(a, a, N, G)
BY DEF Level, Sound

\* Being level is transitive.
LEMMA LevelTwice == ASSUME NEW N \in Nat, NEW G, NEW a, NEW b, NEW d, Level(a, b, N, G), Level(b, d, N, G)
                    PROVE  Level(a, d, N, G)
BY DEF Level

\* A continuation of a controller is one of a controller level with it.
LEMMA LevelTurn == ASSUME NEW N \in Nat, NEW G, NEW a, NEW b, Level(a, b, N, G), NEW c
                   PROVE  (Turn(a, c, N, G) => Turn(b, c, N, G)) /\ (Plain(a, c, N, G) => Plain(b, c, N, G))
BY DEF Level, Turn, Plain

\* The document installed, when the save did it, and the pending slots without
\* the transaction that was settled.
LEMMA LevelFreed ==
  ASSUME NEW N \in Nat, NEW G, NEW a, Sound(a, N, G), NEW installed \in BOOLEAN, NEW slot \in BOOLEAN,
         NEW ack \in BOOLEAN, NEW p
  PROVE  LET b == IF installed THEN Installed(a) ELSE a
             d == IF slot THEN [b EXCEPT !.slot = NoPending] ELSE b
             e == IF ack THEN [d EXCEPT !.ack = NoPending] ELSE d
         IN Level(a, b, N, G) /\ Level(a, TxSettled(e, p), N, G)
<1> DEFINE b == IF installed THEN Installed(a) ELSE a
           d == IF slot THEN [b EXCEPT !.slot = NoPending] ELSE b
           e == IF ack THEN [d EXCEPT !.ack = NoPending] ELSE d
<1>1. Level(a, b, N, G) BY LevelInstalled, LevelSelf
<1> HIDE DEF b
<1>2. Sound(b, N, G) /\ b \in Apps BY <1>1 DEF Level
<1>3. [b EXCEPT !.slot = NoPending] \in Apps /\ Tuned(b, [b EXCEPT !.slot = NoPending])
      /\ [b EXCEPT !.slot = NoPending].kind = b.kind
  BY <1>2, NoneTyped DEF Apps, Tuned
<1>4. Level(b, d, N, G) BY <1>2, <1>3, LevelLess, LevelSelf DEF Less
<1> HIDE DEF d
<1>5. Sound(d, N, G) /\ d \in Apps BY <1>4 DEF Level
<1>6. [d EXCEPT !.ack = NoPending] \in Apps /\ Tuned(d, [d EXCEPT !.ack = NoPending])
      /\ [d EXCEPT !.ack = NoPending].kind = d.kind
  BY <1>5, NoneTyped DEF Apps, Tuned
<1>7. Level(d, e, N, G) BY <1>5, <1>6, LevelLess, LevelSelf DEF Less
<1> HIDE DEF e
<1>8. Sound(e, N, G) BY <1>7 DEF Level
<1>9. Level(e, TxSettled(e, p), N, G) BY <1>8, LevelSettled
<1>10. Level(a, TxSettled(e, p), N, G) BY <1>1, <1>4, <1>7, <1>9, LevelTwice
<1> QED BY <1>1, <1>10 DEF b, d, e

\* What the memory of an accepted save says of what follows it.
Continues(a, c, then, N) ==
  /\ then \in Thens /\ then.at # "none"
  /\ then.at = "intended" => then.i \in DOMAIN a.mem[c.n].jr.calls
  /\ then.at = "decided" => then.d \in Verdicts
  /\ then.at = "abandoned" /\ then.live => Free(a, N)

\* A continuation that goes on at its place after its save was committed.
LEMMA ContinueSound ==
  ASSUME NEW N \in Nat, NEW G, NEW a, NEW c, Plain(a, c, N, G), NEW then, Continues(a, c, then, N)
  PROVE  Sound(Continue(a, c, then), N, G)
<1> DEFINE ok == TRUE
           not == FALSE
           b == [a EXCEPT !.ok = ok]
           d == [a EXCEPT !.ok = not]
           Rest(e, ph) == Done(Publish(e, ph, c.n), c)
           Asks(on) == Call(a, c, on, NoThen)
           e == [c EXCEPT !.who = @ \cup {"abandon"}]
           F == Finalize(b, c)
           D == Done(a, c)
           I == Call(a, e, "interrupt", NoThen)
           B == Call(a, c, "bind", then)
           X == Call(a, c, "execute", then)
           L == IF then.live THEN I ELSE D
           R1 == Rest(a, "resume_available")
           R2 == Rest(a, "retryable")
           R3 == Rest(d, "retryable")
           F1 == Asks("freeze")
           S1 == Asks("stop")
<1>0. Continue(a, c, then) =
        CASE then.at = "started" -> RunRound(a, c) [] then.at = "launched" -> RoundLaunched(a, c)
          [] then.at = "held" -> R1 [] then.at = "lost" -> R2
          [] then.at = "answered" -> F1 [] then.at = "frozen" -> RunBatch(a, c)
          [] then.at = "decided" -> B [] then.at = "bound" -> DecisionCommitted(a, c, then)
          [] then.at = "intended" -> X [] then.at = "recorded" -> ResultRecorded(a, c)
          [] then.at = "recovered" -> Recovered(a, c, then) [] then.at = "over" -> Finalize(a, c)
          [] then.at = "asked" -> S1 [] then.at = "stopped" -> F
          [] then.at = "unsettled" -> R3 [] then.at = "abandoned" -> L
  BY Zenon DEF Continue
<1>1. \/ Continue(a, c, then) \in {RunRound(a, c), RoundLaunched(a, c), RunBatch(a, c), DecisionCommitted(a, c, then),
                                  ResultRecorded(a, c), Recovered(a, c, then), Finalize(a, c), F, D}
      \/ Continue(a, c, then) \in {R1, R2, R3}
      \/ Continue(a, c, then) \in {F1, S1}
      \/ then.at = "decided" /\ Continue(a, c, then) = B
      \/ then.at = "intended" /\ Continue(a, c, then) = X
      \/ then.at = "abandoned" /\ then.live /\ Continue(a, c, then) = I
  <2> HIDE DEF F, D, I, B, X, R1, R2, R3, F1, S1
  <2>1. then.at \in Places \ {"none"} BY DEF Continues, Thens
  <2>3. ~then.live => L = D OBVIOUS
  <2>4. then.live => L = I OBVIOUS
  <2> HIDE DEF L
  <2>5. CASE then.at \in {"started", "launched", "frozen", "bound", "recorded", "recovered"}
    <3>1. Continue(a, c, then) \in {RunRound(a, c), RoundLaunched(a, c), RunBatch(a, c), DecisionCommitted(a, c, then),
                                    ResultRecorded(a, c), Recovered(a, c, then)}
      BY <1>0, <2>5
    <3> QED BY <3>1
  <2>6. CASE then.at \in {"over", "stopped", "held", "lost", "unsettled"}
    <3>1. Continue(a, c, then) \in {Finalize(a, c), F, R1, R2, R3} BY <1>0, <2>6
    <3> QED BY <3>1
  <2>7. CASE then.at \in {"answered", "asked"}
    <3>1. Continue(a, c, then) \in {F1, S1} BY <1>0, <2>7
    <3> QED BY <3>1
  <2>8. CASE then.at = "decided"
    <3>1. Continue(a, c, then) = B BY <1>0, <2>8
    <3> QED BY <2>8, <3>1
  <2>9. CASE then.at = "intended"
    <3>1. Continue(a, c, then) = X BY <1>0, <2>9
    <3> QED BY <2>9, <3>1
  <2>10. CASE then.at = "abandoned"
    <3>1. Continue(a, c, then) = L BY <1>0, <2>10
    <3> QED BY <2>3, <2>4, <2>10, <3>1
  <2> QED BY <2>1, <2>5, <2>6, <2>7, <2>8, <2>9, <2>10 DEF Places
<1> HIDE DEF L
<1>2. /\ a \in Apps /\ Sound(a, N, G) /\ ThreadOK(a, c, N) /\ c \in Threads /\ "abandon" \notin c.who /\ then \in Thens
  BY Mine DEF Plain, Continues
<1>3. ok \in BOOLEAN /\ not \in BOOLEAN OBVIOUS
<1> HIDE DEF ok, not
<1>4. Less(a, b) /\ Less(a, d) BY <1>2, <1>3 DEF Apps, Tuned, Less
<1> HIDE DEF b, d
<1>5. Plain(b, c, N, G) /\ Plain(d, c, N, G) BY <1>4, LessPlain
<1>6. {"resume_available", "retryable"} \subseteq Phases BY DEF Phases, Resting
<1>7. \A x \in {a, d}, ph \in {"resume_available", "retryable"} : Sound(Rest(x, ph), N, G)
  BY <1>5, <1>6, Shows, DoneSound DEF Plain
<1>8. \A on \in {"freeze", "stop"} : Sound(Asks(on), N, G) BY CalledPlainly
<1>9. ASSUME then.at = "decided" PROVE Sound(Call(a, c, "bind", then), N, G)
  <2>1. AsksWell(a, c, "bind", then) BY <1>2, <1>9 DEF AsksWell, Native, Continues
  <2> QED BY <2>1, Called DEF Plain
<1>10. ASSUME then.at = "intended" PROVE Sound(Call(a, c, "execute", then), N, G)
  <2>1. AsksWell(a, c, "execute", then) BY <1>2, <1>10 DEF AsksWell, Native, Continues
  <2> QED BY <2>1, Called DEF Plain
<1>11. ASSUME then.at = "abandoned", then.live PROVE Sound(Call(a, e, "interrupt", NoThen), N, G)
  <2>1. Free(a, N) BY <1>11 DEF Continues
  <2>2. e \in Threads /\ e.n = c.n /\ e.ep = c.ep /\ e.who = c.who \cup {"abandon"}
    BY <1>2 DEF Threads, Endings
  <2> HIDE DEF e
  <2>3. ThreadOK(a, e, N) BY <1>2, <2>1, <2>2 DEF ThreadOK
  <2>4. AsksWell(a, e, "interrupt", NoThen) BY NoneTyped DEF AsksWell, Native
  <2> QED BY <1>2, <2>3, <2>4, Called DEF Turn
<1>12. Sound(Done(a, c), N, G) BY DoneSound DEF Plain
<1> HIDE DEF e, Rest, Asks
<1>13. /\ Sound(RunRound(a, c), N, G) /\ Sound(RoundLaunched(a, c), N, G) /\ Sound(RunBatch(a, c), N, G)
       /\ Sound(ResultRecorded(a, c), N, G) /\ Sound(Finalize(a, c), N, G) /\ Sound(Finalize(b, c), N, G)
  BY <1>5, RunRoundSound, RoundLaunchedSound, RunBatchSound, ResultRecordedSound, FinalizeSound
<1>14. Sound(DecisionCommitted(a, c, then), N, G) /\ Sound(Recovered(a, c, then), N, G)
  BY <1>2, DecisionCommittedSound, RecoveredSound
<1> QED BY <1>1, <1>7, <1>8, <1>9, <1>10, <1>11, <1>12, <1>13, <1>14

\* The answer to a transaction in the slot.
LEMMA SlotAnsweredSound ==
  ASSUME NEW N \in Nat, NEW G, NEW a, NEW w, Plain(a, w.c, N, G), w \in Waits, w.on = "slot", w.p.n = w.c.n,
         Let_go(w.p.tx.before, w.p.n, G), OnJournal(w.p), Marked(a, w) => Free(a, N), NEW s
  PROVE  Sound(SlotAnswered(a, w, s), N, G)
<1> DEFINE c == w.c
           p == w.p
           b == IF s \in {"committed", "refused"} THEN Installed(a) ELSE a
           free == TxSettled(IF a.slot = p THEN [b EXCEPT !.slot = NoPending] ELSE b, p)
<1>1. \/ SlotAnswered(a, w, s) \in {Done(b, c), Done(Publish(b, "persistence_pending", c.n), c)}
      \/ SlotAnswered(a, w, s) \in {Done(Publish(RolledBack(free, p), "blocked", c.n), c), Settle(free, c)}
      \/ Accepted(a, w) /\ a.epoch = c.ep /\ SlotAnswered(a, w, s) = Continue(free, c, p.then)
  BY DEF SlotAnswered
<1>2. a \in Apps /\ Sound(a, N, G) /\ p \in Pends /\ p.then \in Thens BY Mine, PendHas DEF Plain, Waits
<1>3. Level(a, b, N, G) /\ Level(a, free, N, G)
  <2> DEFINE i == s \in {"committed", "refused"}
             same == a.slot = p
             not == FALSE
             d == IF same THEN [b EXCEPT !.slot = NoPending] ELSE b
             e == IF not THEN [d EXCEPT !.ack = NoPending] ELSE d
  <2>1. i \in BOOLEAN /\ same \in BOOLEAN /\ not \in BOOLEAN OBVIOUS
  <2>2. e = d OBVIOUS
  <2> HIDE DEF i, same, not
  <2>3. Level(a, IF i THEN Installed(a) ELSE a, N, G)
        /\ Level(a, TxSettled(IF not THEN [(IF same THEN [(IF i THEN Installed(a) ELSE a) EXCEPT !.slot = NoPending]
                                            ELSE (IF i THEN Installed(a) ELSE a)) EXCEPT !.ack = NoPending]
                              ELSE (IF same THEN [(IF i THEN Installed(a) ELSE a) EXCEPT !.slot = NoPending]
                                            ELSE (IF i THEN Installed(a) ELSE a)), p), N, G)
    BY <1>2, <2>1, LevelFreed
  <2> QED BY <2>2, <2>3 DEF i, same
<1> HIDE DEF b, free
<1>4. Plain(b, c, N, G) /\ Plain(free, c, N, G) /\ free.mem = a.mem /\ free.epoch = a.epoch
  BY <1>3, LevelTurn DEF Level
<1>5. "blocked" \in Phases /\ "persistence_pending" \in Phases BY DEF Phases, Resting
<1>6. Sound(Done(b, c), N, G) /\ Sound(Done(Publish(b, "persistence_pending", c.n), c), N, G)
  BY <1>4, <1>5, Shows, DoneSound DEF Plain
<1>7. Sound(Done(Publish(RolledBack(free, p), "blocked", c.n), c), N, G)
  <2>1. Turn(RolledBack(free, p), c, N, G) BY <1>2, <1>4, RolledBackSound DEF Plain
  <2> QED BY <1>5, <2>1, Shows, DoneSound
<1>8. ASSUME Accepted(a, w), a.epoch = c.ep PROVE Sound(Continue(free, c, p.then), N, G)
  <2>1. free.mem[c.n] = p.tx.next[c.n] BY <1>4, <1>8 DEF Accepted, Owns, OnJournal
  <2>2. p.then.at = "abandoned" /\ p.then.live => Free(free, N)
    BY <1>3, <1>8 DEF Marked, Level
  <2>3. Continues(free, c, p.then, N) BY <1>2, <2>1, <2>2 DEF Continues, OnJournal
  <2> QED BY <1>4, <2>3, ContinueSound
<1> HIDE DEF c, p
<1> QED BY <1>1, <1>4, <1>6, <1>7, <1>8, SettleSound

\* The answer to the save that releases the outbox.
LEMMA AckAnsweredSound ==
  ASSUME NEW N \in Nat, NEW G, NEW a, NEW w, Turn(a, w.c, N, G), w \in Waits, w.p.n = w.c.n, w.p.kind = "ack",
         NEW s
  PROVE  Sound(AckAnswered(a, w, s), N, G)
<1> DEFINE c == w.c
           p == w.p
           b == IF s \in {"committed", "refused"} THEN Installed(a) ELSE a
           free == TxSettled(IF a.ack = p THEN [b EXCEPT !.ack = NoPending] ELSE b, p)
           d == [free EXCEPT !.run = 0]
<1>1. AckAnswered(a, w, s) \in {Done(b, c), Done(Publish(b, "persistence_pending", c.n), c),
                                Done(Publish(RolledBack(free, p), "blocked", c.n), c),
                                Done(Publish(d, "idle", 0), c)}
  BY DEF AckAnswered
<1>2. a \in Apps /\ Sound(a, N, G) /\ p \in Pends BY Mine DEF Waits
<1>3. Level(a, b, N, G) /\ Level(a, free, N, G)
  <2> DEFINE i == s \in {"committed", "refused"}
             same == a.ack = p
             not == FALSE
  <2>1. i \in BOOLEAN /\ same \in BOOLEAN /\ not \in BOOLEAN OBVIOUS
  <2> HIDE DEF i, same, not
  <2>2. Level(a, IF i THEN Installed(a) ELSE a, N, G)
        /\ Level(a, TxSettled(IF same THEN [(IF not THEN [(IF i THEN Installed(a) ELSE a) EXCEPT !.slot = NoPending]
                                             ELSE (IF i THEN Installed(a) ELSE a)) EXCEPT !.ack = NoPending]
                              ELSE (IF not THEN [(IF i THEN Installed(a) ELSE a) EXCEPT !.slot = NoPending]
                                             ELSE (IF i THEN Installed(a) ELSE a)), p), N, G)
    BY <1>2, <2>1, LevelFreed
  <2>3. (IF not THEN [(IF i THEN Installed(a) ELSE a) EXCEPT !.slot = NoPending] ELSE (IF i THEN Installed(a) ELSE a))
        = IF i THEN Installed(a) ELSE a
    BY DEF not
  <2> QED BY <2>2, <2>3 DEF i, same
<1> HIDE DEF b, free
<1>4. Turn(b, c, N, G) /\ Turn(free, c, N, G) BY <1>3, LevelTurn
<1>5. "blocked" \in Phases /\ "persistence_pending" \in Phases BY DEF Phases, Resting
<1>6. Sound(Done(b, c), N, G) /\ Sound(Done(Publish(b, "persistence_pending", c.n), c), N, G)
  BY <1>4, <1>5, Shows, DoneSound
<1>7. Sound(Done(Publish(RolledBack(free, p), "blocked", c.n), c), N, G)
  <2>1. Turn(RolledBack(free, p), c, N, G) BY <1>2, <1>4, RolledBackSound
  <2> QED BY <1>5, <2>1, Shows, DoneSound
<1>8. Sound(Done(Publish(d, "idle", 0), c), N, G)
  <2>1. free \in Apps BY <1>3 DEF Level
  <2>2. Less(free, d) BY <2>1 DEF Less, Tuned, Apps
  <2> HIDE DEF d
  <2> QED BY <1>4, <2>2, LessPlain, ShowsIdle, DoneSound
<1> HIDE DEF c, p, d
<1> QED BY <1>1, <1>6, <1>7, <1>8

\* The answer to the save of a failure.
LEMMA FailAnsweredSound == ASSUME NEW N \in Nat, NEW G, NEW a, NEW w, Plain(a, w.c, N, G), NEW s
                           PROVE  Sound(FailAnswered(a, w, s), N, G)
<1>1. Plain(Installed(a), w.c, N, G)
  <2>1. Level(a, Installed(a), N, G) BY LevelInstalled DEF Plain, Turn
  <2> QED BY <2>1, LevelTurn
<1>2. "retryable" \in Phases /\ "persistence_pending" \in Phases BY DEF Phases, Resting
<1>3. FailAnswered(a, w, s) \in {Done(Publish(Installed(a), "retryable", w.c.n), w.c),
                                 Done(Publish(a, "persistence_pending", w.c.n), w.c)}
  BY DEF FailAnswered
<1>4. Sound(Done(Publish(Installed(a), "retryable", w.c.n), w.c), N, G)
      /\ Sound(Done(Publish(a, "persistence_pending", w.c.n), w.c), N, G)
  BY <1>1, <1>2, Shows, DoneSound DEF Plain
<1> QED BY <1>3, <1>4

----------------------------------------------------------------------------
(***************************************************************************)
(* A preparation that ends.                                                 *)
(***************************************************************************)

\* No save of the preparation is on its way.
Unawaited(a) == \A k \in DOMAIN a.waits : a.waits[k].on # "prep"

\* The awaits of a controller whose preparation ends.
LEMMA PrepMoved ==
  ASSUME NEW N \in Nat, NEW G, NEW a, Sound(a, N, G), Unawaited(a), NEW b \in Apps,
         b.waits = a.waits, b.epoch = a.epoch, b.retrying = a.retrying, Refs(b, G), Doc(b.mem, N, G),
         Len(b.mem) <= Len(a.mem), a.prep = NoPrep => b.prep = NoPrep,
         \A k : Live(a, k) => Live(b, k) /\ b.mem[k] = a.mem[k]
  PROVE  /\ Sound(b, N, G)
         /\ \A c : ThreadOK(a, c, N) => ThreadOK(b, c, N)
<1>1. Pairs(a, N) /\ (\A k \in DOMAIN a.waits : WaitOK(a, a.waits[k], N, G)) /\ Len(a.mem) \in Nat /\ Len(b.mem) \in Nat
  BY DEF Sound, Doc
<1>2. \A w : Marked(b, w) <=> Marked(a, w) BY DEF Marked
<1>3. \A k \in DOMAIN b.waits : WaitOK(b, b.waits[k], N, G)
  <2>1. SUFFICES ASSUME NEW k \in DOMAIN a.waits PROVE WaitOK(b, a.waits[k], N, G) OBVIOUS
  <2> DEFINE w == a.waits[k]
  <2>2. WaitOK(a, w, N, G) /\ w.on # "prep" BY <1>1 DEF Unawaited
  <2> HIDE DEF w
  <2>3. WaitOK(b, w, N, G) BY <2>2 DEF WaitOK
  <2> QED BY <2>3 DEF w
<1>4. Free(a, N) => Free(b, N) BY <1>1, <1>2 DEF Free
<1>5. Pairs(b, N) BY <1>1, <1>2 DEF Pairs
<1>6. \A c : ThreadOK(a, c, N) => ThreadOK(b, c, N) BY <1>4 DEF ThreadOK
<1> QED BY <1>3, <1>5, <1>6 DEF Sound

\* A preparation that is durable: its attempt is there to stay.
LEMMA ClearedSound ==
  ASSUME NEW N \in Nat, NEW G, NEW a, Sound(a, N, G), Unawaited(a)
  PROVE  LET b == [a EXCEPT !.prep = NoPrep]
         IN /\ Sound(b, N, G) /\ b \in Apps /\ b.mem = a.mem /\ b.waits = a.waits /\ b.epoch = a.epoch
            /\ b.prep = NoPrep /\ b.retrying = a.retrying /\ b.kind = a.kind /\ b.phase = a.phase /\ b.at = a.at
            /\ \A k \in DOMAIN a.mem : Live(b, k)
            /\ \A c : ThreadOK(a, c, N) => ThreadOK(b, c, N)
<1> DEFINE b == [a EXCEPT !.prep = NoPrep]
<1>1. a \in Apps /\ Refs(a, G) /\ Doc(a.mem, N, G) /\ Len(a.mem) \in Nat BY DEF Sound, Doc
<1>2. /\ b \in Apps /\ b.mem = a.mem /\ b.waits = a.waits /\ b.epoch = a.epoch /\ b.prep = NoPrep
      /\ b.retrying = a.retrying /\ b.kind = a.kind /\ b.phase = a.phase /\ b.at = a.at
      /\ b.run = a.run /\ b.runOf = a.runOf /\ b.slot = a.slot
      /\ b.ack = a.ack /\ b.term = a.term /\ b.act = a.act /\ b.commit = a.commit
  BY <1>1, NoneTyped DEF Apps
<1> HIDE DEF b
<1>3. \A k : Live(a, k) => Live(b, k) BY <1>2 DEF Live
<1>4. Refs(b, G) BY <1>1, <1>2, <1>3 DEF Refs
<1>5. Sound(b, N, G) /\ \A c : ThreadOK(a, c, N) => ThreadOK(b, c, N) BY <1>1, <1>2, <1>3, <1>4, PrepMoved
<1>6. \A k \in DOMAIN a.mem : Live(b, k) BY <1>2 DEF Live
<1> QED BY <1>2, <1>5, <1>6 DEF b

\* A preparation whose save has an unknown outcome.
LEMMA DoubtedSound ==
  ASSUME NEW N \in Nat, NEW G, NEW a, Sound(a, N, G), Unawaited(a), a.prep # NoPrep
  PROVE  Sound([a EXCEPT !.prep.dur = "unknown"], N, G)
<1> DEFINE p == [a.prep EXCEPT !.dur = "unknown"]
           b == [a EXCEPT !.prep = p]
<1>1. a \in Apps /\ Refs(a, G) /\ Doc(a.mem, N, G) /\ Len(a.mem) \in Nat /\ a.prep \in Preps BY DEF Sound, Doc, Apps
<1>2. p \in Preps /\ p.n = a.prep.n /\ p.ep = a.prep.ep /\ p.dur = "unknown" BY <1>1 DEF Preps
<1>3. p # NoPrep BY <1>2 DEF NoPrep
<1>4. [a EXCEPT !.prep.dur = "unknown"] = b BY <1>1 DEF Apps
<1> HIDE DEF p
<1>5. /\ b \in Apps /\ b.mem = a.mem /\ b.waits = a.waits /\ b.epoch = a.epoch /\ b.prep = p
      /\ b.retrying = a.retrying /\ b.phase = a.phase /\ b.at = a.at
      /\ b.run = a.run /\ b.runOf = a.runOf /\ b.slot = a.slot
      /\ b.ack = a.ack /\ b.term = a.term /\ b.act = a.act /\ b.commit = a.commit
  BY <1>1, <1>2 DEF Apps
<1> HIDE DEF b
<1>6. \A k : Live(a, k) => Live(b, k) BY <1>2, <1>5 DEF Live
<1>7. Refs(b, G) BY <1>1, <1>2, <1>3, <1>5, <1>6 DEF Refs
<1>8. Sound(b, N, G) BY <1>1, <1>5, <1>6, <1>7, PrepMoved
<1> QED BY <1>4, <1>8

\* The attempt was never there, and nothing points at it.
Withdrawn(a) == [a EXCEPT !.mem = SubSeq(@, 1, a.prep.n - 1), !.prep = NoPrep]

\* A preparation that was refused: its attempt leaves the document.
LEMMA WithdrawnSound ==
  ASSUME NEW N \in Nat, NEW G, NEW a, Sound(a, N, G), Unawaited(a), a.prep # NoPrep, a.at = 0,
         a.phase \notin {"retryable", "resume_available"}
  PROVE  Sound(Withdrawn(a), N, G)
<1> DEFINE m == SubSeq(a.mem, 1, a.prep.n - 1)
           b == [a EXCEPT !.mem = m, !.prep = NoPrep]
<1>1. a \in Apps /\ Refs(a, G) /\ Doc(a.mem, N, G) /\ Len(a.mem) \in Nat /\ a.mem \in Seq(Att) BY DEF Sound, Doc
<1>2. a.prep.n = Len(a.mem) /\ a.prep.n # 0 BY <1>1 DEF Refs
<1>3. m \in Seq(Att) /\ Len(m) = Len(a.mem) - 1 /\ \A k \in 1 .. Len(a.mem) - 1 : m[k] = a.mem[k] BY <1>1, <1>2
<1> HIDE DEF m
<1>4. /\ b \in Apps /\ b.mem = m /\ b.waits = a.waits /\ b.epoch = a.epoch /\ b.prep = NoPrep
      /\ b.retrying = a.retrying /\ b.phase = a.phase /\ b.at = 0
      /\ b.run = a.run /\ b.runOf = a.runOf /\ b.slot = a.slot
      /\ b.ack = a.ack /\ b.term = a.term /\ b.act = a.act /\ b.commit = a.commit
  BY <1>1, <1>3, NoneTyped DEF Apps
<1> HIDE DEF b
<1>5. DOMAIN a.mem = 1 .. Len(a.mem) /\ DOMAIN m = 1 .. Len(a.mem) - 1 BY <1>1, <1>3
<1>6. \A k : Live(a, k) => Live(b, k) /\ b.mem[k] = a.mem[k] BY <1>1, <1>2, <1>3, <1>4, <1>5 DEF Live
<1>7. Len(b.mem) <= N /\ Len(b.mem) <= Len(a.mem) /\ Len(b.mem) \in Nat BY <1>1, <1>2, <1>3, <1>4 DEF Doc
<1>8. Doc(b.mem, N, G)
  <2>1. \A k \in DOMAIN m : Let_go(m[k], k, G) BY <1>1, <1>3, <1>5 DEF Doc
  <2> QED BY <1>3, <1>4, <1>7, <2>1 DEF Doc
<1>9. Refs(b, G)
  <2>1. b.at <= Len(b.mem) /\ b.phase \notin {"retryable", "resume_available"} BY <1>4, <1>7
  <2>2. b.commit # 0 => Live(b, b.commit) /\ b.mem[b.commit].st = "completed" /\ ~IsAgent(b.mem[b.commit])
    BY <1>1, <1>4, <1>6 DEF Refs
  <2> QED BY <1>1, <1>4, <1>6, <2>1, <2>2 DEF Refs
<1>10. Sound(b, N, G) BY <1>1, <1>4, <1>6, <1>7, <1>8, <1>9, PrepMoved
<1> QED BY <1>10 DEF b, m, Withdrawn

\* A preparation withdrawn while nothing awaits its save.
LEMMA UnpreparedSound ==
  ASSUME NEW N \in Nat, NEW G, NEW b, Sound(b, N, G), Unawaited(b), b.prep # NoPrep,
         NEW ph \in {"idle", "blocked"}, NEW ok \in BOOLEAN
  PROVE  LET u == Unprepared([b EXCEPT !.prep = NoPrep], b.prep)
             x == Publish([u EXCEPT !.ok = ok], ph, 0)
         IN Sound(x, N, G) /\ x.waits = b.waits /\ (ok = b.ok => x = Publish(u, ph, 0))
<1> DEFINE u == Unprepared([b EXCEPT !.prep = NoPrep], b.prep)
           x == Publish([u EXCEPT !.ok = ok], ph, 0)
           d == [b EXCEPT !.ok = ok]
           e == Publish(d, ph, 0)
<1>1. b \in Apps BY DEF Sound
<1>2. Less(b, d) /\ d \in Apps /\ d.prep = b.prep /\ d.waits = b.waits /\ d.mem = b.mem BY <1>1 DEF Less, Tuned, Apps
<1>3. Sound(d, N, G) BY <1>2, TunedSound DEF Less
<1>4. ph \in Phases /\ ph \notin {"retryable", "resume_available"} BY DEF Phases, Resting
<1>5. 0 <= Len(d.mem) BY <1>3 DEF Sound, Doc
<1> HIDE DEF d
<1>6. Sound(e, N, G) /\ e.prep = b.prep /\ e.waits = b.waits /\ e.mem = b.mem /\ e.at = 0 /\ e.phase = ph /\ e \in Apps
  BY <1>2, <1>3, <1>4, <1>5, Published, PublishIs
<1> HIDE DEF e
<1>7. Unawaited(e) BY <1>6 DEF Unawaited
<1>8. CASE b.mem = b.prep.mem
  <2> DEFINE m == SubSeq(b.mem, 1, b.prep.n - 1)
             y == [e EXCEPT !.mem = m, !.prep = NoPrep]
  <2>1. Withdrawn(e) = y BY <1>6 DEF Apps, Withdrawn
  <2>2. Sound(Withdrawn(e), N, G)
    BY <1>4, <1>6, <1>7, WithdrawnSound
  <2>3. u = [b EXCEPT !.prep = NoPrep, !.mem = m] BY <1>1, <1>8 DEF Unprepared, Apps
  <2> HIDE DEF m, u
  <2>4. x = y BY <1>1, <2>3 DEF Apps, Publish, d, e
  <2>5. x.waits = b.waits BY <1>1, <2>3 DEF Apps, Publish
  <2>6. ok = b.ok => x = Publish(u, ph, 0) BY <1>1, <2>3 DEF Apps, Publish
  <2> HIDE DEF x, y
  <2>7. Sound(x, N, G) BY <2>1, <2>2, <2>4
  <2> QED BY <2>5, <2>6, <2>7 DEF x, u
<1>9. CASE b.mem # b.prep.mem
  <2>1. Sound([e EXCEPT !.prep = NoPrep], N, G) BY <1>6, <1>7, ClearedSound
  <2>2. u = [b EXCEPT !.prep = NoPrep] BY <1>1, <1>9 DEF Unprepared, Apps
  <2> HIDE DEF u
  <2>3. x = [e EXCEPT !.prep = NoPrep] BY <1>1, <2>2 DEF Apps, Publish, d, e
  <2>4. x.waits = b.waits BY <1>1, <2>2 DEF Apps, Publish
  <2>5. ok = b.ok => x = Publish(u, ph, 0) BY <1>1, <2>2 DEF Apps, Publish
  <2> HIDE DEF x
  <2>6. Sound(x, N, G) BY <2>1, <2>3
  <2> QED BY <2>4, <2>5, <2>6 DEF x, u
<1> QED BY <1>8, <1>9

\* An answered save of the preparation.
LEMMA PrepAnsweredSound ==
  ASSUME NEW N \in Nat, NEW G, NEW a, Sound(a, N, G), Unawaited(a), NEW w \in Waits, WaitOK(a, w, N, G), w.on = "prep",
         "retry" \in w.c.who => a.retrying /\ \A k \in DOMAIN a.waits : "retry" \notin a.waits[k].c.who,
         NEW s \in {"not_committed", "unknown", "committed"}
  PROVE  Sound(PrepAnswered(a, w, s), N, G)
<1> DEFINE c == w.c
           b == IF s = "committed" THEN Installed(a) ELSE a
           free == [b EXCEPT !.prep = NoPrep]
           u == Unprepared(free, a.prep)
           no == FALSE
           yes == TRUE
           x1 == Publish([u EXCEPT !.ok = yes], "idle", 0)
           x2 == Publish([free EXCEPT !.ok = no], "blocked", c.n)
           x3 == Publish(u, "blocked", 0)
           x4 == Publish([b EXCEPT !.prep.dur = "unknown"], "persistence_pending", c.n)
<1>1. \/ PrepAnswered(a, w, s) \in {Done(x1, c), Done(x2, c), Done(x3, c), Done(x4, c)}
      \/ Unfinished(a.mem[c.n]) /\ PrepAnswered(a, w, s) = PersistTerminal(free, c, "cancelled")
      \/ PrepAnswered(a, w, s) = Run(free, c)
  BY DEF PrepAnswered
<1>2. /\ c \in Threads /\ c.n \in Nat /\ c.ep \in Nat /\ c.ep <= a.epoch /\ a.prep # NoPrep /\ c.n = a.prep.n
      /\ c.who \subseteq {"retry"}
  BY DEF Waits, Threads, WaitOK
<1>4. Level(a, b, N, G) BY LevelInstalled, LevelSelf
<1>5. /\ Sound(b, N, G) /\ b \in Apps /\ b.mem = a.mem /\ b.epoch = a.epoch /\ b.prep = a.prep
  BY <1>4 DEF Level
<1>6. /\ Unawaited(b) /\ b.retrying = a.retrying
      /\ "retry" \in c.who => \A k \in DOMAIN b.waits : "retry" \notin b.waits[k].c.who
  <2>1. a \in Apps BY DEF Sound
  <2>2. Retold(a, Installed(a)) BY <2>1, InstalledRetold
  <2>3. CASE s = "committed" BY <2>2, <2>3 DEF Retold, Unawaited
  <2>4. CASE s # "committed" BY <2>4
  <2> QED BY <2>3, <2>4
<1> HIDE DEF b
<1>7. c.n \in DOMAIN b.mem /\ b.mem[c.n] = NewAttempt /\ c.n <= Len(b.mem) /\ c.n # 0
  <2>1. b.prep.n = Len(b.mem) /\ b.prep.n # 0 /\ b.mem[b.prep.n] = NewAttempt BY <1>2, <1>5 DEF Sound, Refs
  <2>2. b.mem \in Seq(Att) BY <1>5 DEF Sound, Doc
  <2> QED BY <1>2, <1>5, <2>1, <2>2
<1>8. no \in BOOLEAN /\ yes \in BOOLEAN OBVIOUS
<1> HIDE DEF no, yes
<1>9. /\ Sound(free, N, G) /\ free \in Apps /\ free.mem = b.mem /\ free.epoch = a.epoch /\ Live(free, c.n)
      /\ free.retrying = a.retrying /\ free.waits = b.waits
  BY <1>5, <1>6, <1>7, ClearedSound
<1> HIDE DEF free
<1>10. Plain(free, c, N, G)
  <2>1. ThreadOK(free, c, N) BY <1>2, <1>6, <1>9 DEF ThreadOK
  <2> QED BY <1>2, <1>9, <2>1 DEF Plain, Turn
<1>11. "blocked" \in Phases /\ "persistence_pending" \in Phases BY DEF Phases, Resting
<1>12. Sound(Done(x1, c), N, G) /\ Sound(Done(x3, c), N, G)
  <2>1. Sound(x1, N, G) /\ x1.waits = b.waits BY <1>2, <1>5, <1>6, <1>8, UnpreparedSound DEF free
  <2> DEFINE ok == b.ok
             y == Publish([u EXCEPT !.ok = ok], "blocked", 0)
  <2>2. ok \in BOOLEAN /\ ok = b.ok BY <1>5 DEF Apps
  <2> HIDE DEF ok
  <2>3. Sound(y, N, G) /\ y.waits = b.waits /\ y = x3 BY <1>2, <1>5, <1>6, <2>2, UnpreparedSound DEF free
  <2> HIDE DEF x1, x3, y
  <2> QED BY <1>2, <1>6, <2>1, <2>3, DoneRetry
<1>13. Sound(Done(x2, c), N, G)
  <2>1. Less(free, [free EXCEPT !.ok = no]) BY <1>8, <1>9 DEF Less, Tuned, Apps
  <2>2. Plain([free EXCEPT !.ok = no], c, N, G) BY <1>10, <2>1, LessPlain
  <2> QED BY <1>11, <2>2, Shows, DoneSound DEF Plain
<1>14. Sound(Done(x4, c), N, G)
  <2> DEFINE d == [b EXCEPT !.prep.dur = "unknown"]
  <2>1. Sound(d, N, G) BY <1>2, <1>5, <1>6, DoubtedSound
  <2>2. d.mem = b.mem /\ d.waits = b.waits BY <1>5 DEF Apps
  <2> HIDE DEF d
  <2>3. Sound(Publish(d, "persistence_pending", c.n), N, G) BY <1>2, <1>7, <1>11, <2>1, <2>2, Published
  <2>4. x4 = Publish(d, "persistence_pending", c.n) BY DEF d
  <2>5. Publish(d, "persistence_pending", c.n).waits = b.waits BY <2>2 DEF Publish
  <2> HIDE DEF x4
  <2> QED BY <1>2, <1>6, <2>3, <2>4, <2>5, DoneRetry
<1>15. ASSUME Unfinished(a.mem[c.n]) PROVE Sound(PersistTerminal(free, c, "cancelled"), N, G)
  BY <1>5, <1>9, <1>10, <1>15, PersistTerminalSound
<1>16. Sound(Run(free, c), N, G)
  <2>1. free.mem[c.n].st = "prepared" BY <1>7, <1>9 DEF NewAttempt
  <2> QED BY <1>10, <2>1, RunSound
<1> HIDE DEF x1, x2, x3, x4, c
<1> QED BY <1>1, <1>12, <1>13, <1>14, <1>15, <1>16

----------------------------------------------------------------------------
(***************************************************************************)
(* The outbox of the last launch.                                           *)
(***************************************************************************)

Swept == [NoPending EXCEPT !.tx.state = "open"]

\* The transaction of the sweep.
LEMMA SweptTyped == Swept \in Pends
<1> DEFINE tx == [NoTx EXCEPT !.state = "open"]
<1>1. tx \in Txs BY NoneTyped DEF Txs
<1>2. Swept = [NoPending EXCEPT !.tx = tx] BY DEF Swept, NoPending
<1> HIDE DEF tx
<1> QED BY <1>1, <1>2, NoneTyped DEF Pends

\* One attempt of the last launch, interrupted.
LEMMA SweepSound == ASSUME NEW N \in Nat, NEW G, NEW a, Sound(a, N, G), NEW c \in Threads,
                           c.who = {}, c.ep <= a.epoch, Live(a, c.n)
                    PROVE  Sound(Sweep(a, c), N, G)
<1> DEFINE w == [on |-> "sweep", c |-> c, p |-> Swept, doc |-> << >>, was |-> a.mem[c.n], arg |-> NoThen]
<1>1. a \in Apps /\ a.mem[c.n] \in Att BY AttAt
<1>2. << >> \in Seq(Att) OBVIOUS
<1>3. w \in Waits BY <1>1, <1>2, NoneTyped, SweptTyped DEF Waits, Native
<1>4. Sweep(a, c) = Pushed(a, w) BY DEF Sweep, Pushed, Swept
<1>5. w.on = "sweep" /\ w.c = c /\ w.doc = << >> OBVIOUS
<1> HIDE DEF w
<1>6. WaitOK(a, w, N, G) BY <1>5 DEF WaitOK, Saves, Tx
<1>7. MayPush(a, w, N, G) BY <1>3, <1>5, <1>6 DEF MayPush, Marked
<1> QED BY <1>4, <1>7, PushedSound

\* An attempt in the outbox is not the one being prepared.
LEMMA LeftLive == ASSUME NEW N \in Nat, NEW G, NEW a, Sound(a, N, G), NEW n \in DOMAIN a.mem, a.mem[n].residue
                  PROVE  Live(a, n)
BY DEF NewAttempt, Live, Sound, Refs

\* The next attempt of the outbox.
LEMMA DrainSound == ASSUME NEW N \in Nat, NEW G, NEW a, Sound(a, N, G), NEW from \in Nat \ {0}
                    PROVE  Sound(Drain(a, from), N, G)
<1> DEFINE left == Left(a.mem, from)
           m == Min(left)
           c == Context(m, a.epoch, {})
<1>1. a \in Apps /\ a.mem \in Seq(Att) /\ Len(a.mem) \in Nat /\ a.epoch \in Nat BY DEF Sound, Doc, Apps
<1>2. CASE left = {} BY <1>2 DEF Drain
<1>3. CASE left # {}
  <2>1. left \in SUBSET Nat BY <1>1 DEF Left
  <2>2. m \in left BY <1>3, <2>1, LeastIn
  <2>3. m \in from .. Len(a.mem) /\ a.mem[m].residue BY <2>2 DEF Left
  <2>4. Drain(a, from) = Sweep(a, c) BY <1>3, Zenon DEF Drain
  <2> HIDE DEF m, left
  <2>5. m \in DOMAIN a.mem /\ m \in Nat BY <1>1, <2>3
  <2>6. Live(a, m) BY <2>3, <2>5, LeftLive
  <2>7. c.n = m /\ c.ep = a.epoch /\ c.who = {} /\ c \in Threads BY <1>1, <2>5 DEF Context, Threads
  <2> HIDE DEF c
  <2> QED BY <1>1, <2>4, <2>6, <2>7, SweepSound
<1> QED BY <1>2, <1>3


\* The answer of native to the sweep: evidence that is gone leaves the
\* outbox.
LEMMA SweepAnsweredSound ==
  ASSUME NEW N \in Nat, NEW G, NEW a, NEW w, Plain(a, w.c, N, G), w \in Waits, NEW r, r.ans = "ok" => w.c.n \in G
  PROVE  Sound(SweepAnswered(a, w, r), N, G)
<1> DEFINE n == w.c.n
           no == FALSE
           att == [a.mem[n] EXCEPT !.residue = no]
           tx == [w.p.tx EXCEPT !.before = a.mem[n], !.next = Put(a.mem, n, att)]
           p == [w.p EXCEPT !.n = n, !.kind = "ack", !.tx = tx]
           b == Rewrite(a, n, att)
<1>1. /\ a \in Apps /\ Sound(a, N, G) /\ ThreadOK(a, w.c, N) /\ Live(a, n) /\ n \in Nat
      /\ a.mem[n] \in Att /\ Let_go(a.mem[n], n, G) /\ n \in DOMAIN a.mem
  BY Mine DEF Plain
<1>2. n + 1 \in Nat \ {0} BY <1>1
<1>3. Sound(Drain(a, n + 1), N, G) BY <1>1, <1>2, DrainSound
<1>4. no \in BOOLEAN /\ ~no OBVIOUS
<1>5. w.p \in Pends /\ w.p.tx \in Txs BY DEF Waits, Pends
<1>6. \/ SweepAnswered(a, w, r) = Drain(a, n + 1)
      \/ r.ans = "ok" /\ SweepAnswered(a, w, r) = Saving(b, w.c, "swept", p)
  <2> DEFINE m == [a.mem EXCEPT ![n].residue = FALSE]
             ty == [w.p.tx EXCEPT !.before = a.mem[n], !.next = m]
             q == [w.p EXCEPT !.n = n, !.kind = "ack", !.tx = ty]
  <2>1. \/ SweepAnswered(a, w, r) = Drain(a, n + 1)
        \/ r.ans = "ok" /\ SweepAnswered(a, w, r) = Saving([a EXCEPT !.mem = ty.next], w.c, "swept", q)
    BY Zenon DEF SweepAnswered
  <2>2. Put(a.mem, n, att) = m BY DEF Put, att, no
  <2> HIDE DEF m
  <2>3. ty = tx BY <2>2 DEF ty, tx
  <2>4. ty.next = m BY <1>5 DEF ty, Txs
  <2>5. [a EXCEPT !.mem = m] = b BY <1>1, <2>2 DEF b, Rewrite, Apps
  <2>6. q = p BY <2>3 DEF q, p
  <2> HIDE DEF q, p, ty, b
  <2> QED BY <2>1, <2>4, <2>5, <2>6
<1>7. ASSUME r.ans = "ok" PROVE Sound(Saving(b, w.c, "swept", p), N, G)
  <2> HIDE DEF no
  <2>1. n \in G BY <1>7
  <2>2. Sound(b, N, G) /\ att \in Att BY <1>1, <1>4, <2>1, ResidueSound
  <2>3. ThreadOK(b, w.c, N) BY <1>1, <1>4, <2>1, ResidueSound
  <2>4. b.mem = Put(a.mem, n, att) BY <1>1, <1>4, <2>1, ResidueSound
  <2>5. tx \in Txs
    <3>1. b.mem \in Seq(Att) BY <2>2 DEF Sound, Doc
    <3> QED BY <1>1, <1>5, <2>4, <3>1 DEF Txs
  <2>6. tx.before = a.mem[n] BY <1>5 DEF Txs
  <2> HIDE DEF tx, b
  <2>7. p \in Pends /\ p.n = n /\ p.kind = "ack" /\ p.tx = tx BY <1>1, <1>5, <2>5 DEF Pends
  <2> HIDE DEF p
  <2>8. Plain(b, w.c, N, G) BY <2>2, <2>3 DEF Plain, Turn
  <2>9. SavesWell(b, w.c, "swept", p, N, G) BY <1>1, <2>6, <2>7 DEF SavesWell, Saves, Tx, Plain
  <2> QED BY <2>8, <2>9, Saved DEF Plain
<1> HIDE DEF b, p
<1> QED BY <1>3, <1>6, <1>7

\* The answer to the save of the sweep.
LEMMA SweptAnsweredSound ==
  ASSUME NEW N \in Nat, NEW G, NEW a, NEW w, Plain(a, w.c, N, G), w \in Waits, w.p.n = w.c.n, w.p.kind = "ack",
         NEW s
  PROVE  Sound(SweptAnswered(a, w, s), N, G)
<1> DEFINE b == IF s \in {"committed", "refused"} THEN Installed(a) ELSE a
<1>1. a \in Apps /\ Sound(a, N, G) /\ w.p \in Pends /\ w.c.n \in Nat BY Mine DEF Waits, Plain
<1>2. Level(a, b, N, G) BY <1>1, LevelInstalled, LevelSelf
<1>3. SweptAnswered(a, w, s) \in {Drain(b, w.c.n + 1), RolledBack(b, w.p), b} BY Zenon DEF SweptAnswered
<1> HIDE DEF b
<1>4. Turn(b, w.c, N, G) /\ Sound(b, N, G) BY <1>2, LevelTurn DEF Plain, Turn
<1>5. Sound(Drain(b, w.c.n + 1), N, G)
  <2>1. w.c.n + 1 \in Nat \ {0} BY <1>1
  <2> QED BY <1>4, <2>1, DrainSound
<1>6. Sound(RolledBack(b, w.p), N, G) BY <1>1, <1>4, RolledBackSound DEF Turn
<1> QED BY <1>3, <1>4, <1>5, <1>6

----------------------------------------------------------------------------
(***************************************************************************)
(* An await that is answered.                                               *)
(***************************************************************************)

\* The controller "a" once the answer of "w" is about to be handled.
Answering(a, w, N, G) ==
  /\ Sound(a, N, G) /\ w \in Waits /\ WaitOK(a, w, N, G)
  /\ w.on # "prep" => ThreadOK(a, w.c, N)
  /\ w.on = "prep" => Unawaited(a)
  /\ Marked(a, w) => Free(a, N)
  /\ "retry" \in w.c.who => a.retrying /\ \A i \in DOMAIN a.waits : "retry" \notin a.waits[i].c.who

\* What is known of an await that is answered, after it is taken off the
\* list.
LEMMA TakenAnswering ==
  ASSUME NEW N \in Nat, NEW G, NEW a, Sound(a, N, G), NEW k \in DOMAIN a.waits
  PROVE  Answering(Taken(a, k), a.waits[k], N, G)
<1>1. Sound(Taken(a, k), N, G) BY TakenSound
<1>2. a.waits[k] \in Waits BY TakenSound
<1>3. WaitOK(Taken(a, k), a.waits[k], N, G) BY TakenSound
<1>4. a.waits[k].on # "prep" => ThreadOK(Taken(a, k), a.waits[k].c, N) BY TakenSound
<1>5. a.waits[k].on = "prep" => Unawaited(Taken(a, k)) BY TakenSound DEF Unawaited
<1>6. Marked(Taken(a, k), a.waits[k]) => Free(Taken(a, k), N) BY TakenSound
<1>7. "retry" \in a.waits[k].c.who =>
        Taken(a, k).retrying /\ \A i \in DOMAIN Taken(a, k).waits : "retry" \notin Taken(a, k).waits[i].c.who
  BY TakenSound
<1> QED BY <1>1, <1>2, <1>3, <1>4, <1>5, <1>6, <1>7 DEF Answering

\* Its continuation runs in its context.
LEMMA AnsweringTurn ==
  ASSUME NEW N \in Nat, NEW G, NEW a, NEW w, Answering(a, w, N, G), w.on # "prep"
  PROVE  /\ Turn(a, w.c, N, G)
         /\ w.on \notin {"interrupt", "ack"} => Plain(a, w.c, N, G)
BY DEF Answering, Turn, Plain, WaitOK

Outcomes == {"committed", "refused", "unknown", "not_committed"}

\* Every answer to a save keeps the controller sound.
LEMMA SaveAnswerSound ==
  ASSUME NEW N \in Nat, NEW G, NEW a, NEW w, Answering(a, w, N, G), w.on \in Saves, NEW s \in Outcomes
  PROVE  Sound(SaveAnswer(a, w, s), N, G)
<1> DEFINE plain == IF s = "refused" THEN "committed" ELSE s
<1>1. /\ Sound(a, N, G) /\ w \in Waits /\ WaitOK(a, w, N, G)
      /\ (Marked(a, w) => Free(a, N)) /\ (w.on = "prep" => Unawaited(a))
      /\ "retry" \in w.c.who => a.retrying /\ \A i \in DOMAIN a.waits : "retry" \notin a.waits[i].c.who
  BY DEF Answering
<1>2. plain \in {"not_committed", "unknown", "committed"} BY DEF Outcomes
<1> HIDE DEF plain
<1>3. SaveAnswer(a, w, s) =
        CASE w.on = "slot"                -> SlotAnswered(a, w, s)
          [] w.on \in {"ack", "ackAgain"} -> AckAnswered(a, w, s)
          [] w.on = "prep"                -> PrepAnswered(a, w, plain)
          [] w.on = "term"                -> TermAnswered(a, w, plain)
          [] w.on = "fail"                -> FailAnswered(a, w, plain)
          [] w.on = "mark"                -> MarkAnswered(a, w, plain)
          [] w.on = "commit"              -> CommitAnswered(a, w, plain)
          [] w.on = "recommit"            -> RecommitAnswered(a, w, plain)
          [] w.on = "swept"               -> SweptAnswered(a, w, s)
  BY Zenon DEF SaveAnswer, plain
<1>4. w.on # "prep" => Turn(a, w.c, N, G) /\ (w.on \notin {"interrupt", "ack"} => Plain(a, w.c, N, G))
  BY AnsweringTurn
<1>5. CASE w.on = "slot"
  <2>1. SaveAnswer(a, w, s) = SlotAnswered(a, w, s) BY <1>3, <1>5
  <2>2. w.p.n = w.c.n /\ Let_go(w.p.tx.before, w.p.n, G) /\ OnJournal(w.p) BY <1>1, <1>5 DEF WaitOK, Tx
  <2> QED BY <1>1, <1>4, <1>5, <2>1, <2>2, SlotAnsweredSound
<1>6. CASE w.on \in {"ack", "ackAgain"}
  <2>1. SaveAnswer(a, w, s) = AckAnswered(a, w, s) BY <1>3, <1>6
  <2>2. w.p.n = w.c.n /\ w.p.kind = "ack" BY <1>1, <1>6 DEF WaitOK, Tx
  <2> QED BY <1>1, <1>4, <1>6, <2>1, <2>2, AckAnsweredSound
<1>7. CASE w.on = "prep"
  <2>1. SaveAnswer(a, w, s) = PrepAnswered(a, w, plain) BY <1>3, <1>7
  <2> QED BY <1>1, <1>2, <1>7, <2>1, PrepAnsweredSound
<1>8. CASE w.on = "swept"
  <2>1. SaveAnswer(a, w, s) = SweptAnswered(a, w, s) BY <1>3, <1>8
  <2>2. w.p.n = w.c.n /\ w.p.kind = "ack" BY <1>1, <1>8 DEF WaitOK, Tx
  <2> QED BY <1>1, <1>4, <1>8, <2>1, <2>2, SweptAnsweredSound
<1>9. CASE w.on = "mark"
  <2>1. SaveAnswer(a, w, s) = MarkAnswered(a, w, plain) BY <1>3, <1>9
  <2>2. Direct(a.mem[w.c.n]) BY <1>1, <1>9 DEF WaitOK
  <2> QED BY <1>4, <1>9, <2>1, <2>2, MarkAnsweredSound
<1>10. CASE w.on = "term"
  <2>1. SaveAnswer(a, w, s) = TermAnswered(a, w, plain) BY <1>3, <1>10
  <2> QED BY <1>4, <1>10, <2>1, TermAnsweredSound
<1>11. CASE w.on = "fail"
  <2>1. SaveAnswer(a, w, s) = FailAnswered(a, w, plain) BY <1>3, <1>11
  <2> QED BY <1>4, <1>11, <2>1, FailAnsweredSound
<1>12. CASE w.on = "commit"
  <2>1. SaveAnswer(a, w, s) = CommitAnswered(a, w, plain) BY <1>3, <1>12
  <2> QED BY <1>4, <1>12, <2>1, CommitAnsweredSound
<1>13. CASE w.on = "recommit"
  <2>1. SaveAnswer(a, w, s) = RecommitAnswered(a, w, plain) BY <1>3, <1>13
  <2> QED BY <1>4, <1>13, <2>1, RecommitAnsweredSound
<1> QED BY <1>5, <1>6, <1>7, <1>8, <1>9, <1>10, <1>11, <1>12, <1>13 DEF Saves, Tx


\* What the answer of a native call may say, once the attempts of G are gone.
Truthful(w, r, G) ==
  /\ r.calls \in Seq(CallRec) /\ r.jr \in Jr
  /\ w.on = "round" => r.ans \in RoundAnswers
  /\ w.on = "discard" /\ r.ans \notin {"throw", "conflict"} => w.c.n \in G
  /\ w.on \in {"interrupt", "sweep"} /\ r.ans = "ok" => w.c.n \in G
  /\ w.on = "recover" => /\ r.ans \in {"throw", "conflict", "retryable", "ok", "manual"}
                         /\ r.ans \in {"ok", "manual"} => r.jr.ph # "none"

\* Every truthful answer of native keeps the controller sound.
LEMMA NativeAnswerSound ==
  ASSUME NEW N \in Nat, NEW G, NEW a, NEW w, Answering(a, w, N, G), w.on \in Native, NEW r, Truthful(w, r, G)
  PROVE  Sound(NativeAnswer(a, w, r), N, G)
<1>1. w \in Waits /\ WaitOK(a, w, N, G) /\ w.was \in Att /\ w.arg \in Thens BY DEF Answering, Waits
<1>2. w.on # "prep" /\ w.on # "ack" BY DEF Native
<1>3. Turn(a, w.c, N, G) /\ (w.on # "interrupt" => Plain(a, w.c, N, G)) BY <1>2, AnsweringTurn
<1>4. NativeAnswer(a, w, r) =
        CASE w.on = "prepare"   -> PrepareAnswered(a, w, r)
          [] w.on = "round"     -> RoundAnswered(a, w, r)
          [] w.on = "freeze"    -> FreezeAnswered(a, w, r)
          [] w.on = "bind"      -> BindAnswered(a, w, r)
          [] w.on = "execute"   -> ExecuteAnswered(a, w, r)
          [] w.on = "finalize"  -> FinalizeAnswered(a, w, r)
          [] w.on = "discard"   -> DiscardAnswered(a, w, r)
          [] w.on = "interrupt" -> InterruptAnswered(a, w, r)
          [] w.on = "sweep"     -> SweepAnswered(a, w, r)
          [] w.on = "query"     -> QueryAnswered(a, w, r)
          [] w.on = "recover"   -> RecoverAnswered(a, w, r)
          [] w.on = "stop"      -> StopAnswered(a, w, r)
          [] w.on = "complete"  -> CompleteAnswered(a, w, r)
          [] w.on = "withdraw"  -> WithdrawAnswered(a, w)
  BY Zenon DEF NativeAnswer
<1>5. CASE w.on = "prepare"
  <2>1. NativeAnswer(a, w, r) = PrepareAnswered(a, w, r) BY <1>4, <1>5
  <2>2. w.was.st = "prepared" BY <1>1, <1>5 DEF WaitOK
  <2> QED BY <1>3, <1>5, <2>1, <2>2, PrepareAnsweredSound
<1>6. CASE w.on = "round"
  <2>1. NativeAnswer(a, w, r) = RoundAnswered(a, w, r) BY <1>4, <1>6
  <2>2. r.ans \in RoundAnswers BY <1>6 DEF Truthful
  <2> QED BY <1>3, <1>6, <2>1, <2>2, RoundAnsweredSound
<1>7. CASE w.on = "freeze"
  <2>1. NativeAnswer(a, w, r) = FreezeAnswered(a, w, r) BY <1>4, <1>7
  <2>2. r.calls \in Seq(CallRec) BY DEF Truthful
  <2> QED BY <1>1, <1>3, <1>7, <2>1, <2>2, FreezeAnsweredSound
<1>8. CASE w.on = "bind"
  <2>1. NativeAnswer(a, w, r) = BindAnswered(a, w, r) BY <1>4, <1>8
  <2> QED BY <1>1, <1>3, <1>8, <2>1, BindAnsweredSound
<1>9. CASE w.on = "execute"
  <2>1. NativeAnswer(a, w, r) = ExecuteAnswered(a, w, r) BY <1>4, <1>9
  <2>2. w.arg.i \in DOMAIN w.was.jr.calls BY <1>1, <1>9 DEF WaitOK
  <2> QED BY <1>1, <1>3, <1>9, <2>1, <2>2, ExecuteAnsweredSound
<1>10. CASE w.on = "finalize"
  <2>1. NativeAnswer(a, w, r) = FinalizeAnswered(a, w, r) BY <1>4, <1>10
  <2> QED BY <1>3, <1>10, <2>1, FinalizeAnsweredSound
<1>11. CASE w.on = "discard"
  <2>1. NativeAnswer(a, w, r) = DiscardAnswered(a, w, r) BY <1>4, <1>11
  <2>2. r.ans \notin {"throw", "conflict"} => w.c.n \in G BY <1>11 DEF Truthful
  <2> QED BY <1>3, <1>11, <2>1, <2>2, DiscardAnsweredSound
<1>12. CASE w.on = "interrupt"
  <2>1. NativeAnswer(a, w, r) = InterruptAnswered(a, w, r) BY <1>4, <1>12
  <2>2. r.ans = "ok" => w.c.n \in G BY <1>12 DEF Truthful
  <2> QED BY <1>3, <2>1, <2>2, InterruptAnsweredSound
<1>13. CASE w.on = "sweep"
  <2>1. NativeAnswer(a, w, r) = SweepAnswered(a, w, r) BY <1>4, <1>13
  <2>2. r.ans = "ok" => w.c.n \in G BY <1>13 DEF Truthful
  <2> QED BY <1>1, <1>3, <1>13, <2>1, <2>2, SweepAnsweredSound
<1>14. CASE w.on = "query"
  <2>1. NativeAnswer(a, w, r) = QueryAnswered(a, w, r) BY <1>4, <1>14
  <2> QED BY <1>3, <1>14, <2>1, QueryAnsweredSound
<1>15. CASE w.on = "recover"
  <2>1. NativeAnswer(a, w, r) = RecoverAnswered(a, w, r) BY <1>4, <1>15
  <2>2. /\ r.jr \in Jr /\ r.ans \in {"throw", "conflict", "retryable", "ok", "manual"}
        /\ r.ans \in {"ok", "manual"} => r.jr.ph # "none"
    BY <1>15 DEF Truthful
  <2> QED BY <1>1, <1>3, <1>15, <2>1, <2>2, RecoverAnsweredSound
<1>16. CASE w.on = "stop"
  <2>1. NativeAnswer(a, w, r) = StopAnswered(a, w, r) BY <1>4, <1>16
  <2> QED BY <1>3, <1>16, <2>1, StopAnsweredSound
<1>17. CASE w.on = "complete"
  <2>1. NativeAnswer(a, w, r) = CompleteAnswered(a, w, r) BY <1>4, <1>17
  <2>2. Direct(a.mem[w.c.n]) BY <1>1, <1>17 DEF WaitOK
  <2> QED BY <1>3, <1>17, <2>1, <2>2, CompleteAnsweredSound
<1>18. CASE w.on = "withdraw"
  <2>1. NativeAnswer(a, w, r) = WithdrawAnswered(a, w) BY <1>4, <1>18
  <2> QED BY <1>3, <1>18, <2>1, WithdrawAnsweredSound
<1>19. w.on \in {"prepare", "round", "freeze", "bind", "execute", "finalize", "discard", "interrupt",
                 "sweep", "query", "recover", "stop", "complete", "withdraw"}
  BY DEF Native
<1> QED BY <1>5, <1>6, <1>7, <1>8, <1>9, <1>10, <1>11, <1>12, <1>13, <1>14, <1>15, <1>16, <1>17, <1>18, <1>19

----------------------------------------------------------------------------
(***************************************************************************)
(* More attempts, and more of them gone.                                    *)
(***************************************************************************)

LEMMA DocGrows == ASSUME NEW N \in Nat, NEW M \in Nat, N <= M, NEW G, NEW H, G \subseteq H, NEW doc, Doc(doc, N, G)
                  PROVE  Doc(doc, M, H)
<1>1. doc \in Seq(Att) /\ Len(doc) <= N BY DEF Doc
<1>2. Len(doc) \in Nat BY <1>1
<1>3. Len(doc) <= M BY <1>1, <1>2
<1> QED BY <1>1, <1>3 DEF Doc, Let_go

\* A sound controller stays so when more attempts are allowed and more
\* evidence is gone.
LEMMA SoundGrows ==
  ASSUME NEW N \in Nat, NEW M \in Nat, N <= M, NEW G, NEW H, G \subseteq H, NEW a, Sound(a, N, G)
  PROVE  Sound(a, M, H)
<1>1. /\ a \in Apps /\ Doc(a.mem, N, G) /\ Refs(a, G) /\ Pairs(a, N)
      /\ \A k \in DOMAIN a.waits : WaitOK(a, a.waits[k], N, G)
  BY DEF Sound
<1>2. Doc(a.mem, M, H) BY <1>1, DocGrows
<1>3. Refs(a, H) BY <1>1 DEF Refs, Let_go
<1>4. ASSUME NEW w, WaitOK(a, w, N, G) PROVE WaitOK(a, w, M, H)
  <2>1. w.on \in Saves => Doc(w.doc, M, H) BY <1>4, DocGrows DEF WaitOK
  <2>2. w.on = "slot" => OnJournal(w.p) /\ Let_go(w.p.tx.before, w.p.n, H) BY <1>4 DEF WaitOK, Let_go
  <2> QED BY <1>4, <2>1, <2>2 DEF WaitOK
<1>5. Pairs(a, M)
  <2>1. Len(a.mem) \in Nat BY <1>1 DEF Doc
  <2>2. Len(a.mem) < N => Len(a.mem) < M BY <2>1
  <2> QED BY <1>1, <2>2 DEF Pairs
<1> QED BY <1>1, <1>2, <1>3, <1>4, <1>5 DEF Sound
----------------------------------------------------------------------------
(***************************************************************************)
(* The answer of the user.                                                  *)
(***************************************************************************)

\* A function over an initial segment of the numbers is a sequence.
LEMMA FunIsSeq == ASSUME NEW S, NEW n \in Nat, NEW f \in [1 .. n -> S]
                  PROVE  f \in Seq(S) /\ Len(f) = n /\ DOMAIN f = 1 .. n
OBVIOUS

\* A list of the members of a finite set of numbers.
LEMMA ListedTyped == ASSUME NEW S \in SUBSET Nat, IsFiniteSet(S), NEW s \in Listed(S)
                     PROVE  s \in Seq(Nat) /\ DOMAIN s = 1 .. Cardinality(S) /\ Cardinality(S) \in Nat
                            /\ \A k \in DOMAIN s : s[k] \in S
<1>1. Cardinality(S) \in Nat BY FS_CardinalityType
<1>2. s \in [1 .. Cardinality(S) -> Nat] /\ \A k \in DOMAIN s : s[k] \in S BY DEF Listed
<1> DEFINE n == Cardinality(S)
<1>3. n \in Nat /\ s \in [1 .. n -> Nat] BY <1>1, <1>2
<1> HIDE DEF n
<1>4. s \in Seq(Nat) /\ DOMAIN s = 1 .. n BY <1>3, FunIsSeq
<1> QED BY <1>1, <1>2, <1>4 DEF n

\* Every decision of the user keeps the controller sound.
LEMMA UserAnswers ==
  ASSUME NEW N \in Nat, NEW G, NEW a, NEW w, Answering(a, w, N, G), w.on = "approve",
         NEW open \in Listed({i \in DOMAIN w.was.jr.calls : Open(w.was.jr.calls[i]) /\ Pending(w.was.jr.calls[i])}),
         NEW d \in [DOMAIN open -> Verdicts]
  PROVE  Sound(ApproveAnswered(a, w, [m \in DOMAIN open |-> [i |-> open[m], d |-> d[m]]]), N, G)
<1> DEFINE cs == w.was.jr.calls
           S == {i \in DOMAIN cs : Open(cs[i]) /\ Pending(cs[i])}
           more == [m \in DOMAIN open |-> [i |-> open[m], d |-> d[m]]]
<1>1. w \in Waits /\ WaitOK(a, w, N, G) /\ w.was \in Att BY DEF Answering, Waits
<1>2. cs \in Seq(CallRec) BY <1>1, AttHas, JournalHas
<1>3. Plain(a, w.c, N, G) BY AnsweringTurn
<1>4. S # {} BY <1>1 DEF WaitOK
<1> HIDE DEF cs
<1>5. S \in SUBSET (1 .. Len(cs)) /\ Len(cs) \in Nat BY <1>2
<1>6. IsFiniteSet(S)
  <2>1. IsFiniteSet(1 .. Len(cs)) BY <1>5, FS_Interval
  <2> QED BY <1>5, <2>1, FS_Subset
<1>7. S \in SUBSET Nat BY <1>5
<1> HIDE DEF S
<1>8. open \in Listed(S) BY DEF S, cs
<1>9. open \in Seq(Nat) /\ DOMAIN open = 1 .. Cardinality(S) /\ Cardinality(S) \in Nat BY <1>6, <1>7, <1>8, ListedTyped
<1>10. Cardinality(S) # 0 BY <1>4, <1>6, FS_EmptySet
<1>11. \A m \in DOMAIN open : [i |-> open[m], d |-> d[m]] \in Decision BY <1>9 DEF Decision
<1>12. more \in Seq(Decision) /\ Len(more) = Cardinality(S)
  <2> DEFINE card == Cardinality(S)
  <2>1. more \in [1 .. card -> Decision] /\ card \in Nat BY <1>9, <1>11
  <2> HIDE DEF more, card
  <2>2. more \in Seq(Decision) /\ Len(more) = card BY <2>1, FunIsSeq
  <2> QED BY <2>2 DEF card
<1>13. more # << >> BY <1>10, <1>12
<1> HIDE DEF more
<1>14. Sound(ApproveAnswered(a, w, more), N, G) BY <1>3, <1>12, <1>13, ApproveAnsweredSound
<1> QED BY <1>14 DEF more

----------------------------------------------------------------------------
(***************************************************************************)
(* Cancelling, as a command.                                                *)
(***************************************************************************)

LEMMA QueryOfIn == ASSUME NEW a \in Apps PROVE QueryOf(a) = 0 \/ QueryOf(a) \in DOMAIN a.waits
<1> DEFINE I == {i \in 1 .. Len(a.waits) : a.waits[i].on = "query" /\ a.waits[i].c.ep = a.read}
<1>1. QueryOf(a) = IF I # {} THEN Min(I) ELSE 0 BY DEF QueryOf, SelectInSeq
<1>2. a.waits \in Seq(Waits) BY DEF Apps
<1>3. I \in SUBSET Nat /\ I \subseteq DOMAIN a.waits BY <1>2
<1> HIDE DEF I
<1>4. I # {} => Min(I) \in I BY <1>3, LeastIn
<1> QED BY <1>1, <1>3, <1>4

\* Taking no await changes nothing.
LEMMA NoneTaken == ASSUME NEW a \in Apps PROVE Taken(a, 0) = a
<1>1. a.waits \in Seq(Waits) BY DEF Apps
<1>2. SubSeq(a.waits, 1, 0 - 1) \o SubSeq(a.waits, 0 + 1, Len(a.waits)) = a.waits BY <1>1
<1>3. Taken(a, 0) = [a EXCEPT !.waits = a.waits] BY <1>2 DEF Taken
<1> QED BY <1>3 DEF Apps

\* The query of a recovery is let go of.
LEMMA LetGoSound ==
  ASSUME NEW N \in Nat, NEW G, NEW a, Sound(a, N, G), a.run # 0, NEW k, k = 0 \/ k \in DOMAIN a.waits
  PROVE  Sound([Publish(Taken(Raise(a), k), "resume_available", a.runOf) EXCEPT !.run = 0, !.read = 0, !.ok = FALSE], N, G)
<1> DEFINE a1 == Raise(a)
           b == Taken(a1, k)
           d == Publish(b, "resume_available", a.runOf)
           ok == FALSE
           e == [d EXCEPT !.run = 0, !.read = 0, !.ok = ok]
<1>1. a \in Apps /\ a.run \in Nat /\ a.runOf \in Nat /\ Live(a, a.runOf) BY DEF Sound, Apps, Refs
<1>2. Sound(a1, N, G) /\ a1 \in Apps /\ a1.waits = a.waits /\ a1.mem = a.mem BY RaiseSound
<1> HIDE DEF a1
<1>3. Sound(b, N, G) /\ b \in Apps /\ b.mem = a.mem
  <2>1. CASE k = 0 BY <1>2, <2>1, NoneTaken
  <2>2. CASE k \in DOMAIN a.waits BY <1>2, <2>2, TakenSound, TakenIs
  <2> QED BY <2>1, <2>2
<1> HIDE DEF b
<1>4. a.runOf # 0 /\ a.runOf <= Len(b.mem) /\ "resume_available" \in Phases
  BY <1>1, <1>3, AttAt DEF Phases, Resting
<1>5. Sound(d, N, G) BY <1>1, <1>3, <1>4, Published
<1>6. d \in Apps BY <1>5 DEF Sound
<1> HIDE DEF d
<1>7. ok \in BOOLEAN OBVIOUS
<1> HIDE DEF ok
<1>8. e \in Apps /\ Tuned(d, e) BY <1>6, <1>7 DEF Apps, Tuned
<1> HIDE DEF e
<1>9. Sound(e, N, G) BY <1>5, <1>8, TunedSound
<1> QED BY <1>9 DEF e, d, b, a1, ok

\* A run that goes on is told.
LEMMA ToldSound ==
  ASSUME NEW N \in Nat, NEW G, NEW a, Sound(a, N, G), a.run # 0
  PROVE  LET b == [a EXCEPT !.req = a.run, !.ok = FALSE]
         IN /\ Sound(Publish(b, "cancelling", a.runOf), N, G)
            /\ Sound(Settle(b, Context(a.runOf, a.run, {})), N, G)
<1> DEFINE ok == FALSE
           b == [a EXCEPT !.req = a.run, !.ok = ok]
           c == Context(a.runOf, a.run, {})
<1>1. a \in Apps /\ a.run \in Nat /\ a.runOf \in Nat /\ Live(a, a.runOf) /\ a.run <= a.epoch BY DEF Sound, Apps, Refs
<1>2. ok \in BOOLEAN OBVIOUS
<1> HIDE DEF ok
<1>3. Less(a, b) BY <1>1, <1>2 DEF Less, Apps, Tuned
<1> HIDE DEF b
<1>4. Plain(a, c, N, G)
  <2>1. c.n = a.runOf /\ c.ep = a.run /\ c.who = {} BY DEF Context
  <2>2. c \in Threads BY <1>1 DEF Threads, Endings, Context
  <2> HIDE DEF c
  <2>3. ThreadOK(a, c, N) BY <1>1, <2>1, <2>2 DEF ThreadOK
  <2> QED BY <2>1, <2>3 DEF Plain, Turn
<1>5. Plain(b, c, N, G) BY <1>3, <1>4, LessPlain
<1>6. "cancelling" \in Phases /\ c.n = a.runOf BY DEF Phases, Context
<1> HIDE DEF c
<1>7. Sound(Publish(b, "cancelling", a.runOf), N, G) BY <1>5, <1>6, Shows DEF Plain, Turn
<1>8. Sound(Settle(b, c), N, G) BY <1>5, SettleSound
<1> QED BY <1>7, <1>8 DEF b, c, ok

\* A thread of a command: it starts on an attempt that is there to stay.
LEMMA StartsPlain ==
  ASSUME NEW N \in Nat, NEW G, NEW a, Sound(a, N, G), NEW n, Live(a, n)
  PROVE  LET c == Context(n, a.epoch, {}) IN Plain(a, c, N, G) /\ c.n = n /\ c.ep = a.epoch /\ c.who = {}
<1> DEFINE c == Context(n, a.epoch, {})
<1>1. n \in Nat /\ a \in Apps /\ a.epoch \in Nat BY AttAt DEF Apps
<1>2. c.n = n /\ c.ep = a.epoch /\ c.who = {} BY DEF Context
<1>3. c \in Threads BY <1>1 DEF Threads, Endings, Context
<1> HIDE DEF c
<1>4. ThreadOK(a, c, N) BY <1>1, <1>2, <1>3 DEF ThreadOK
<1>5. Plain(a, c, N, G) BY <1>2, <1>4 DEF Plain, Turn
<1> QED BY <1>2, <1>5 DEF c

\* The direct request is taken back.
LEMMA WithdrawSound ==
  ASSUME NEW N \in Nat, NEW G, NEW a, Sound(a, N, G), a.act # 0
  PROVE  Sound(Call(Publish([Raise(a) EXCEPT !.act = 0], "cancelling", a.act),
                    Context(a.act, Raise(a).epoch, {}), "withdraw", NoThen), N, G)
<1> DEFINE b == Raise(a)
           d == [b EXCEPT !.act = 0]
           c == Context(a.act, b.epoch, {})
<1>1. Live(a, a.act) /\ a \in Apps BY DEF Sound, Refs
<1>2. Sound(b, N, G) /\ b \in Apps /\ b.mem = a.mem /\ b.prep = a.prep BY RaiseSound
<1> HIDE DEF b
<1>3. Live(b, a.act) BY <1>1, <1>2 DEF Live
<1>4. Plain(b, c, N, G) /\ c.n = a.act BY <1>2, <1>3, StartsPlain
<1> HIDE DEF c
<1>5. Less(b, d) BY <1>2 DEF Less, Apps, Tuned
<1> HIDE DEF d
<1>6. Plain(d, c, N, G) BY <1>4, <1>5, LessPlain
<1>7. "cancelling" \in Phases BY DEF Phases
<1>8. Plain(Publish(d, "cancelling", c.n), c, N, G) BY <1>6, <1>7, ShowsPlain
<1>9. Sound(Call(Publish(d, "cancelling", c.n), c, "withdraw", NoThen), N, G) BY <1>8, CalledPlainly
<1> QED BY <1>4, <1>9 DEF b, c, d

\* A preparation is given up on, once nobody awaits it.
LEMMA PreparationLeft ==
  ASSUME NEW N \in Nat, NEW G, NEW a, Sound(a, N, G), a.prep # NoPrep, Unawaited(a)
  PROVE  LET n == a.prep.n
             b == [Raise(a) EXCEPT !.prep = NoPrep]
         IN /\ Unfinished(a.mem[n]) => Sound(PersistTerminal(b, Context(n, Raise(a).epoch, {}), "cancelled"), N, G)
            /\ Sound(Publish([b EXCEPT !.ok = FALSE], "blocked", n), N, G)
<1> DEFINE n == a.prep.n
           a1 == Raise(a)
           b == [a1 EXCEPT !.prep = NoPrep]
           c == Context(n, a1.epoch, {})
           ok == FALSE
           d == [b EXCEPT !.ok = ok]
<1>1. a \in Apps /\ n = Len(a.mem) /\ n # 0 /\ a.mem \in Seq(Att) BY DEF Sound, Refs, Doc
<1>2. n \in DOMAIN a.mem BY <1>1
<1>3. /\ Sound(a1, N, G) /\ a1.mem = a.mem /\ a1.waits = a.waits /\ a1 \in Apps BY RaiseSound
<1>4. Unawaited(a1) BY <1>3 DEF Unawaited
<1> HIDE DEF a1
<1>5. /\ Sound(b, N, G) /\ b \in Apps /\ b.mem = a1.mem /\ b.epoch = a1.epoch /\ \A k \in DOMAIN a1.mem : Live(b, k)
  BY <1>3, <1>4, ClearedSound
<1> HIDE DEF b
<1>6. Live(b, n) BY <1>2, <1>3, <1>5
<1> HIDE DEF n
<1>7. c = Context(n, b.epoch, {}) BY <1>5
<1> HIDE DEF c
<1>8. Plain(b, c, N, G) /\ c.n = n BY <1>5, <1>6, <1>7, StartsPlain
<1>9. ASSUME Unfinished(a.mem[n]) PROVE Sound(PersistTerminal(b, c, "cancelled"), N, G)
  BY <1>3, <1>5, <1>8, <1>9, PersistTerminalSound
<1>10. ok \in BOOLEAN OBVIOUS
<1> HIDE DEF ok
<1>11. Less(b, d) BY <1>5, <1>10 DEF Less, Apps, Tuned
<1> HIDE DEF d
<1>12. "blocked" \in Phases BY DEF Phases, Resting
<1>13. Sound(Publish(d, "blocked", n), N, G) BY <1>8, <1>11, <1>12, LessPlain, Shows DEF Plain, Turn
<1> QED BY <1>9, <1>13 DEF n, a1, b, c, d, ok

\* Cancelling, in each state of the turn, keeps the controller sound.
LEMMA CancelledSound ==
  ASSUME NEW N \in Nat, NEW G, NEW a, Sound(a, N, G)
  PROVE  Sound(Cancelled(a), N, G)
<1> DEFINE n == a.prep.n
           a1 == Raise(a)
           ok == TRUE
           d == [a1 EXCEPT !.ok = ok]
<1>1. a \in Apps /\ Sound(a1, N, G) /\ a1 \in Apps /\ a1.mem = a.mem
  <2>1. a \in Apps BY DEF Sound
  <2> QED BY <2>1, RaiseSound
<1>2. CASE a.read # 0 /\ a.run = a.read
  <2> DEFINE k == QueryOf(a)
             x == [Publish(Taken(a1, k), "resume_available", a.runOf) EXCEPT !.run = 0, !.read = 0, !.ok = FALSE]
  <2>1. Cancelled(a) = x BY <1>2 DEF Cancelled, Raise
  <2>2. a.run # 0 /\ (k = 0 \/ k \in DOMAIN a.waits) BY <1>1, <1>2, QueryOfIn
  <2> HIDE DEF k
  <2>3. Sound(x, N, G) BY <2>2, LetGoSound, Zenon
  <2> HIDE DEF x
  <2> QED BY <2>1, <2>3
<1>3. CASE a.run # 0 /\ a.run # a.read
  <2> DEFINE b == [a EXCEPT !.req = a.run, !.ok = FALSE]
             x == Publish(b, "cancelling", a.runOf)
             y == Settle(b, Context(a.runOf, a.run, {}))
  <2>1. Cancelled(a) \in {x, y} BY <1>3 DEF Cancelled
  <2>2. a.run # 0 BY <1>3
  <2>3. Sound(x, N, G) /\ Sound(y, N, G) BY <2>2, ToldSound, Zenon
  <2> HIDE DEF x, y
  <2> QED BY <2>1, <2>3
<1>4. CASE a.run = 0 /\ a.act # 0 /\ ~(a.read # 0 /\ a.run = a.read)
  <2>1. Cancelled(a) = Call(Publish([a1 EXCEPT !.act = 0], "cancelling", a.act), Context(a.act, a1.epoch, {}),
                            "withdraw", NoThen)
    BY <1>4 DEF Cancelled, Raise
  <2> QED BY <1>4, <2>1, WithdrawSound
<1>5. CASE a.run = 0 /\ a.act = 0 /\ a.prep = NoPrep /\ ~(a.read # 0 /\ a.run = a.read)
  <2>1. Cancelled(a) = Publish(d, "idle", 0) BY <1>5 DEF Cancelled, Raise
  <2>2. ok \in BOOLEAN OBVIOUS
  <2> HIDE DEF ok
  <2>3. d \in Apps /\ Tuned(a1, d) /\ d.mem = a1.mem BY <1>1, <2>2 DEF Apps, Tuned
  <2> HIDE DEF d, a1
  <2>4. Sound(d, N, G) BY <1>1, <2>3, TunedSound
  <2>5. "idle" \in Phases /\ 0 <= Len(d.mem)
    <3>1. d.mem \in Seq(Att) BY <2>4 DEF Sound, Doc
    <3> QED BY <3>1 DEF Phases
  <2> QED BY <2>1, <2>4, <2>5, Published
<1>6. CASE a.run = 0 /\ a.act = 0 /\ a.prep # NoPrep /\ ~(a.read # 0 /\ a.run = a.read)
  <2> DEFINE b == [a1 EXCEPT !.prep = NoPrep]
             x == PersistTerminal(b, Context(n, a1.epoch, {}), "cancelled")
             y == Publish([b EXCEPT !.ok = FALSE], "blocked", n)
  <2>1. Cancelled(a) = IF a.prep.dur = "none" \/ a.retrying THEN Publish(a1, "cancelling", n)
                       ELSE IF Unfinished(a.mem[n]) THEN x ELSE y
    BY <1>6 DEF Cancelled, Raise
  <2>2. n \in Nat /\ n <= Len(a1.mem) /\ "cancelling" \in Phases
    <3>1. n = Len(a.mem) /\ a.mem \in Seq(Att) BY <1>6 DEF Sound, Refs, Doc
    <3> QED BY <1>1, <3>1 DEF Phases
  <2>3. Sound(Publish(a1, "cancelling", n), N, G)
    <3> HIDE DEF a1, n
    <3> QED BY <1>1, <2>2, Published
  <2>4. ASSUME a.prep.dur # "none", ~a.retrying
        PROVE  Unawaited(a)
    <3> SUFFICES ASSUME NEW k \in DOMAIN a.waits, a.waits[k].on = "prep" PROVE FALSE BY DEF Unawaited
    <3>1. WaitOK(a, a.waits[k], N, G) /\ ("retry" \in a.waits[k].c.who => a.retrying) BY DEF Sound, Pairs
    <3> QED BY <2>4, <3>1 DEF WaitOK
  <2>5. ASSUME Unawaited(a) PROVE Sound(y, N, G) /\ (Unfinished(a.mem[n]) => Sound(x, N, G))
    BY <1>6, <2>5, PreparationLeft, Zenon
  <2> HIDE DEF x, y, a1, n
  <2> QED BY <2>1, <2>3, <2>4, <2>5
<1> QED BY <1>2, <1>3, <1>4, <1>5, <1>6

----------------------------------------------------------------------------
(***************************************************************************)
(* Commands.                                                                *)
(***************************************************************************)

LEMMA RoomForOne == ASSUME NEW N \in Nat, NEW G, NEW a, Sound(a, N, G)
                    PROVE  Sound(a, N + 1, G) /\ Len(a.mem) \in Nat /\ Len(a.mem) < N + 1
<1>1. a.mem \in Seq(Att) /\ Len(a.mem) <= N BY DEF Sound, Doc
<1>2. Len(a.mem) \in Nat BY <1>1
<1>3. N + 1 \in Nat /\ N <= N + 1 /\ G \subseteq G OBVIOUS
<1>4. Sound(a, N + 1, G) BY <1>3, SoundGrows
<1> QED BY <1>1, <1>2, <1>4

\* A turn is asked for, or cannot be.
LEMMA AnewSound ==
  ASSUME NEW N \in Nat, NEW G, NEW a, Sound(a, N, G), a.prep = NoPrep, Len(a.mem) < N, NEW n \in Nat, n <= Len(a.mem)
  PROVE  /\ Sound(Begin(Raise(a), Context(n, Raise(a).epoch, {})), N, G)
         /\ Sound(Publish(Raise(a), "blocked", n), N, G)
<1> DEFINE b == Raise(a)
           c == Context(n, b.epoch, {})
<1>1. Sound(b, N, G) /\ b \in Apps /\ b.mem = a.mem /\ b.prep = a.prep
  <2>1. Sound(b, N, G) BY RaiseSound
  <2>2. b \in Apps BY RaiseSound
  <2>3. a \in Apps BY DEF Sound
  <2>4. b.mem = a.mem /\ b.prep = a.prep BY <2>3 DEF Raise, Apps
  <2> QED BY <2>1, <2>2, <2>4
<1>2. Free(b, N) BY <1>1, RaiseSound
<1> HIDE DEF b
<1>3. c.ep \in Nat /\ c.ep <= b.epoch BY <1>1 DEF Context, Apps
<1> HIDE DEF c
<1>4. Sound(Begin(b, c), N, G) BY <1>1, <1>2, <1>3, BeginSound
<1>5. "blocked" \in Phases BY DEF Phases, Resting
<1>6. Sound(Publish(b, "blocked", n), N, G) BY <1>1, <1>5, Published
<1> QED BY <1>4, <1>6 DEF b, c

\* Sending a message.
LEMMA SendStep == ASSUME NEW N \in Nat, NEW G, Sound(app, N, G), Len(app.mem) < N, Send
                  PROVE  Sound(app', N, G)
<1> DEFINE x == Begin(Raise(app), Context(0, Raise(app).epoch, {}))
           y == Publish(Raise(app), "blocked", 0)
<1>1. app' \in {x, y} BY DEF Send, Raise
<1>2. app.prep = NoPrep BY DEF Send, Idle, NothingPending
<1>3. 0 \in Nat /\ 0 <= Len(app.mem)
  <2>1. app.mem \in Seq(Att) BY DEF Sound, Doc
  <2> QED BY <2>1
<1>4. Sound(x, N, G) /\ Sound(y, N, G) BY <1>2, <1>3, AnewSound
<1> HIDE DEF x, y
<1> QED BY <1>1, <1>4

\* Retrying a turn.
LEMMA RetryStep == ASSUME NEW N \in Nat, NEW G, Sound(app, N, G), Len(app.mem) < N, Retry
                   PROVE  Sound(app', N, G)
<1>1. PICK n \in DOMAIN app.mem :
        app' \in {Recover(app, n), Begin(Raise(app), Context(n, Raise(app).epoch, {})), Publish(Raise(app), "blocked", n)}
  BY DEF Retry, Raise
<1> DEFINE x == Begin(Raise(app), Context(n, Raise(app).epoch, {}))
           y == Publish(Raise(app), "blocked", n)
<1>2. app.prep = NoPrep BY DEF Retry, Idle, NothingPending
<1>3. n \in Nat /\ n <= Len(app.mem) /\ Live(app, n)
  <2>1. app.mem \in Seq(Att) BY DEF Sound, Doc
  <2> QED BY <1>2, <2>1 DEF Live
<1>4. Sound(x, N, G) /\ Sound(y, N, G) BY <1>2, <1>3, AnewSound
<1>5. Sound(Recover(app, n), N, G) BY <1>3, RecoverSound
<1>6. app' \in {Recover(app, n), x, y} BY <1>1
<1> HIDE DEF x, y
<1> QED BY <1>4, <1>5, <1>6

\* Resuming a turn.
LEMMA ResumeStep == ASSUME NEW N \in Nat, NEW G, Sound(app, N, G), Resume
                    PROVE  Sound(app', N, G)
<1> DEFINE n == app.at
           b == Raise(app)
           c == Context(n, b.epoch, {})
<1>1. \/ app' = Recover(app, n)
      \/ app.mem[n].st = "prepared" /\ app' = Run(b, c)
      \/ app' = Publish(app, "blocked", n)
  BY DEF Resume, Raise
<1>2. app.prep = NoPrep /\ app.phase = "resume_available" BY DEF Resume, Idle, NothingPending
<1>3. n \in Nat /\ n <= Len(app.mem) /\ n # 0 /\ Live(app, n)
  <2>1. app.mem \in Seq(Att) /\ app \in Apps /\ Refs(app, G) BY DEF Sound, Doc
  <2>2. n \in Nat /\ n <= Len(app.mem) /\ n # 0 BY <1>2, <2>1 DEF Apps, Refs
  <2>3. n \in DOMAIN app.mem BY <2>1, <2>2
  <2> QED BY <1>2, <2>2, <2>3 DEF Live
<1> HIDE DEF n
<1>4. Sound(Recover(app, n), N, G) BY <1>3, RecoverSound
<1>5. "blocked" \in Phases BY DEF Phases, Resting
<1>6. Sound(Publish(app, "blocked", n), N, G) BY <1>3, <1>5, Published
<1>7. ASSUME app.mem[n].st = "prepared" PROVE Sound(Run(b, c), N, G)
  <2>1. Sound(b, N, G) /\ b.mem = app.mem /\ b.prep = app.prep BY RaiseSound
  <2> HIDE DEF b
  <2>2. Live(b, n) BY <1>3, <2>1 DEF Live
  <2>3. Plain(b, c, N, G) /\ c.n = n BY <2>1, <2>2, StartsPlain
  <2> HIDE DEF c
  <2> QED BY <1>7, <2>1, <2>3, RunSound
<1> HIDE DEF b, c
<1> QED BY <1>1, <1>4, <1>6, <1>7

\* A transaction whose continuation is silenced.
LEMMA SilentIs == ASSUME NEW p \in Pends
                  PROVE  LET q == Silent(p)
                         IN /\ q \in Pends /\ q.ep = p.ep /\ q.n = p.n /\ q.kind = p.kind /\ q.tx = p.tx
                            /\ ~q.then.live /\ (OnJournal(p) => OnJournal(q))
<1> DEFINE l == FALSE
           t == [p.then EXCEPT !.live = l]
           q == [p EXCEPT !.then = t]
<1>1. l \in BOOLEAN /\ ~l OBVIOUS
<1>2. Silent(p) = q BY DEF Silent
<1> HIDE DEF l
<1>3. p.then \in Thens BY DEF Pends
<1>4. t \in Thens /\ t.live = l /\ t.at = p.then.at /\ t.i = p.then.i /\ t.d = p.then.d BY <1>1, <1>3 DEF Thens
<1> HIDE DEF t
<1>5. q \in Pends /\ q.ep = p.ep /\ q.n = p.n /\ q.kind = p.kind /\ q.tx = p.tx /\ q.then = t
  BY <1>4 DEF Pends
<1> HIDE DEF q
<1>6. OnJournal(p) => OnJournal(q) BY <1>4, <1>5 DEF OnJournal
<1> QED BY <1>1, <1>2, <1>4, <1>5, <1>6

\* The controller while a save is repeated.
Repeating(a, p) == [a EXCEPT !.retrying = TRUE, !.slot = p]

\* A save that is repeated, with the slot's continuation silenced.
LEMMA RepeatingSound ==
  ASSUME NEW N \in Nat, NEW G, NEW a, Sound(a, N, G), ~a.retrying,
         NEW p, p = (IF a.slot = NoPending THEN a.slot ELSE Silent(a.slot))
  PROVE  LET b == Repeating(a, p)
         IN /\ Sound(b, N, G) /\ b \in Apps /\ b.retrying /\ b.slot = p /\ b.mem = a.mem /\ b.waits = a.waits
            /\ b.epoch = a.epoch /\ b.prep = a.prep /\ b.ack = a.ack /\ b.term = a.term
            /\ p # NoPending => ~p.then.live
            /\ \A k \in DOMAIN b.waits : "retry" \notin b.waits[k].c.who
<1> DEFINE r == TRUE
           b == [a EXCEPT !.retrying = r, !.slot = p]
<1>1. a \in Apps /\ Refs(a, G) /\ Doc(a.mem, N, G) /\ Pairs(a, N) /\ a.slot \in Pends BY DEF Sound, Apps
<1>2. p \in Pends /\ (p # NoPending => /\ a.slot # NoPending /\ p.ep = a.slot.ep /\ p.n = a.slot.n /\ p.tx = a.slot.tx
                                       /\ (OnJournal(a.slot) => OnJournal(p)) /\ ~p.then.live)
  BY <1>1, SilentIs
<1>3. r \in BOOLEAN /\ r OBVIOUS
<1> HIDE DEF r
<1>4. b \in Apps /\ b.retrying = r /\ b.slot = p /\ b.mem = a.mem /\ b.waits = a.waits /\ b.epoch = a.epoch
      /\ b.prep = a.prep /\ b.ack = a.ack /\ b.term = a.term /\ b.phase = a.phase /\ b.at = a.at
      /\ b.run = a.run /\ b.runOf = a.runOf /\ b.act = a.act /\ b.commit = a.commit
  BY <1>1, <1>2, <1>3 DEF Apps
<1>5. Repeating(a, p) = b BY DEF Repeating, r
<1> HIDE DEF b
<1>6. \A n : Live(a, n) <=> Live(b, n) BY <1>4 DEF Live
<1>7. Refs(b, G)
  <2>1. b.slot # NoPending => /\ Live(b, b.slot.n) /\ b.slot.ep <= b.epoch /\ OnJournal(b.slot)
                              /\ Let_go(b.slot.tx.before, b.slot.n, G)
    BY <1>1, <1>2, <1>4, <1>6 DEF Refs
  <2> QED BY <1>1, <1>4, <1>6, <2>1 DEF Refs
<1>8. Kept(a, b) BY <1>3, <1>4 DEF Kept
<1>9. Sound(b, N, G) BY <1>1, <1>4, <1>7, <1>8, Moved
<1>10. \A k \in DOMAIN b.waits : "retry" \notin b.waits[k].c.who BY <1>1, <1>4 DEF Pairs
<1> QED BY <1>2, <1>3, <1>4, <1>5, <1>9, <1>10

\* Repeating a save whose outcome is unknown.
LEMMA RetryPersistenceStep ==
  ASSUME NEW N \in Nat, NEW G, Sound(app, N, G), RetryPersistence
  PROVE  Sound(app', N, G)
<1> DEFINE p == IF app.slot = NoPending THEN app.slot ELSE Silent(app.slot)
           a == Repeating(app, p)
           Again(n, ep) == Context(n, ep, {"retry"})
           R1 == Saving(a, Again(a.slot.n, a.slot.ep), "slot", a.slot)
           R2 == Saving(a, Again(a.ack.n, a.ack.ep), "ackAgain", a.ack)
           R3 == Saving(a, Again(a.term.n, a.epoch), "term", NoPending)
           R4 == Saving(a, Again(a.prep.n, a.prep.ep), "prep", NoPending)
<1>1. \/ a.slot # NoPending /\ app' = R1
      \/ a.ack # NoPending /\ app' = R2
      \/ a.term # NoTerm /\ app' = R3
      \/ a.slot = NoPending /\ a.ack = NoPending /\ a.term = NoTerm /\ a.prep # NoPrep /\ app' = R4
      \/ app' = app
  BY Zenon DEF RetryPersistence, Repeating
<1>2. ~app.retrying /\ ~OnItsWay(app) BY DEF RetryPersistence
<1> HIDE DEF p
<1>3. /\ Sound(a, N, G) /\ a \in Apps /\ a.retrying /\ a.slot = p /\ a.mem = app.mem /\ a.waits = app.waits
      /\ a.epoch = app.epoch /\ a.prep = app.prep /\ a.ack = app.ack /\ a.term = app.term
      /\ p # NoPending => ~p.then.live
      /\ \A k \in DOMAIN a.waits : "retry" \notin a.waits[k].c.who
  BY <1>2, RepeatingSound DEF p
<1>4. a.slot = NoPending => app.slot = NoPending \/ p = NoPending BY <1>3
<1> HIDE DEF a
<1>5. Refs(a, G) /\ a.epoch \in Nat /\ Doc(a.mem, N, G) /\ a.slot \in Pends /\ a.ack \in Pends /\ a.term \in Terms
      /\ a.prep \in Preps
  BY <1>3 DEF Sound, Apps
<1>6. ASSUME NEW n, Live(a, n), NEW ep \in Nat, ep <= a.epoch
      PROVE  Plain(a, Again(n, ep), N, G) /\ Again(n, ep).n = n /\ Again(n, ep).ep = ep
             /\ Again(n, ep).who = {"retry"}
  <2> DEFINE c == Again(n, ep)
  <2>1. n \in Nat BY <1>3, <1>6, AttAt
  <2>2. c.n = n /\ c.ep = ep /\ c.who = {"retry"} BY DEF Context
  <2>3. c \in Threads BY <1>6, <2>1 DEF Threads, Context, Endings
  <2> HIDE DEF c
  <2>4. ThreadOK(a, c, N) BY <1>3, <1>6, <2>2, <2>3 DEF ThreadOK
  <2>5. Plain(a, c, N, G) BY <1>3, <2>2, <2>4 DEF Plain, Turn
  <2> QED BY <2>2, <2>5 DEF c
<1>7. ASSUME a.slot # NoPending PROVE Sound(R1, N, G)
  <2> DEFINE c == Again(a.slot.n, a.slot.ep)
  <2>1. Live(a, a.slot.n) /\ a.slot.ep <= a.epoch /\ OnJournal(a.slot) /\ Let_go(a.slot.tx.before, a.slot.n, G)
        /\ a.slot.ep \in Nat
    BY <1>5, <1>7, PendHas DEF Refs
  <2>2. Plain(a, c, N, G) /\ c.n = a.slot.n /\ c.who = {"retry"} BY <1>6, <2>1
  <2> HIDE DEF c
  <2>3. ~a.slot.then.live BY <1>3, <1>7
  <2>4. SavesWell(a, c, "slot", a.slot, N, G) BY <1>5, <2>1, <2>2, <2>3 DEF SavesWell, Saves, Tx
  <2>5. Sound(Saving(a, c, "slot", a.slot), N, G) BY <2>2, <2>4, Saved DEF Plain
  <2> QED BY <2>5 DEF c
<1>8. ASSUME a.ack # NoPending PROVE Sound(R2, N, G)
  <2> DEFINE c == Again(a.ack.n, a.ack.ep)
  <2>1. Live(a, a.ack.n) /\ a.ack.ep <= a.epoch /\ a.ack.kind = "ack" /\ a.ack.ep \in Nat
    BY <1>5, <1>8, PendHas DEF Refs
  <2>2. Plain(a, c, N, G) /\ c.n = a.ack.n /\ c.who = {"retry"} BY <1>6, <2>1
  <2> HIDE DEF c
  <2>3. SavesWell(a, c, "ackAgain", a.ack, N, G) BY <1>5, <2>1, <2>2 DEF SavesWell, Saves, Tx
  <2>4. Sound(Saving(a, c, "ackAgain", a.ack), N, G) BY <2>2, <2>3, Saved DEF Plain
  <2> QED BY <2>4 DEF c
<1>9. ASSUME a.term # NoTerm PROVE Sound(R3, N, G)
  <2>1. Live(a, a.term.n) /\ a.epoch <= a.epoch BY <1>5, <1>9 DEF Refs
  <2>2. Plain(a, Again(a.term.n, a.epoch), N, G) BY <1>5, <1>6, <2>1
  <2> QED BY <2>2, SimpleSave
<1>10. ASSUME a.slot = NoPending, a.ack = NoPending, a.term = NoTerm, a.prep # NoPrep PROVE Sound(R4, N, G)
  <2> DEFINE c == Again(a.prep.n, a.prep.ep)
             w == [on |-> "prep", c |-> c, p |-> NoPending, doc |-> a.mem, was |-> NewAttempt, arg |-> NoThen]
  <2>1. a.prep.ep \in Nat /\ a.prep.n \in Nat /\ a.prep.ep <= a.epoch BY <1>5, <1>10 DEF Refs, Preps
  <2>2. c.n = a.prep.n /\ c.ep = a.prep.ep /\ c.who = {"retry"} BY DEF Context
  <2>3. c \in Threads BY <2>1 DEF Threads, Context, Endings
  <2> HIDE DEF c
  <2>4. a.mem \in Seq(Att) BY <1>5 DEF Doc
  <2>5. w \in Waits BY <2>3, <2>4, NoneTyped DEF Waits, Saves
  <2>6. w.on = "prep" /\ w.c = c /\ w.doc = a.mem /\ w.p = NoPending OBVIOUS
  <2> HIDE DEF w
  <2>7. WaitOK(a, w, N, G) BY <1>5, <1>10, <2>1, <2>2, <2>6 DEF WaitOK, Saves, Tx
  <2>8. ~Marked(a, w) BY <2>2, <2>6 DEF Marked
  <2>9. app.slot = NoPending => a.prep.dur # "none" BY <1>2, <1>3, <1>10 DEF OnItsWay
  <2>10. \A k \in DOMAIN a.waits : a.waits[k].on # "prep"
    <3> SUFFICES ASSUME NEW k \in DOMAIN a.waits, a.waits[k].on = "prep" PROVE FALSE OBVIOUS
    <3>1. WaitOK(a, a.waits[k], N, G) BY <1>3 DEF Sound
    <3>2. app.slot = NoPending
      <4> SUFFICES ASSUME app.slot # NoPending PROVE FALSE OBVIOUS
      <4>1. OnJournal(app.slot) /\ app.slot \in Pends BY DEF Sound, Refs, Apps
      <4>2. OnJournal(p) BY <4>1, SilentIs DEF p
      <4>3. p = NoPending BY <1>3, <1>10
      <4> QED BY <4>2, <4>3 DEF OnJournal, NoPending, NoThen
    <3> QED BY <1>3, <2>9, <3>1, <3>2 DEF WaitOK
  <2>11. MayPush(a, w, N, G) BY <1>3, <2>2, <2>5, <2>6, <2>7, <2>8, <2>10 DEF MayPush
  <2>12. Sound(Pushed(a, w), N, G) BY <1>3, <2>11, PushedSound
  <2> QED BY <2>12 DEF w, c, Saving, Pushed
<1> HIDE DEF R1, R2, R3, R4
<1> QED BY <1>1, <1>7, <1>8, <1>9, <1>10

\* Repeating a commit.
LEMMA RetryCommitStep ==
  ASSUME NEW N \in Nat, NEW G, Sound(app, N, G), RetryCommit
  PROVE  Sound(app', N, G)
<1> DEFINE r == TRUE
           a == [app EXCEPT !.recommit = r]
           c == Context(app.commit, app.epoch, {"recommit"})
<1>1. app' = Saving(a, c, "recommit", NoPending) /\ app.commit # 0 BY DEF RetryCommit
<1>2. app \in Apps /\ Live(app, app.commit) BY <1>1 DEF Sound, Refs
<1>3. app.commit \in Nat /\ app.epoch \in Nat BY <1>2 DEF Apps
<1>4. r \in BOOLEAN OBVIOUS
<1> HIDE DEF r
<1>5. Less(app, a) BY <1>2, <1>4 DEF Less, Apps, Tuned
<1> HIDE DEF a
<1>6. c.n = app.commit /\ c.ep = app.epoch /\ c.who = {"recommit"} BY DEF Context
<1>7. c \in Threads BY <1>3 DEF Context, Threads, Endings
<1> HIDE DEF c
<1>8. ThreadOK(app, c, N) BY <1>2, <1>3, <1>6, <1>7 DEF ThreadOK
<1>9. Plain(app, c, N, G) BY <1>6, <1>8 DEF Plain, Turn
<1>10. Plain(a, c, N, G) BY <1>5, <1>9, LessPlain
<1> QED BY <1>1, <1>10, SimpleSave

\* The user cancels, or leaves.
LEMMA CancelStep == ASSUME NEW N \in Nat, NEW G, Sound(app, N, G), Cancel \/ Leave
                    PROVE  Sound(app', N, G)
<1>1. app' = Cancelled(app) BY DEF Cancel, Leave
<1> QED BY <1>1, CancelledSound

\* What a document is shown as.
LEMMA ShownIs == ASSUME NEW doc PROVE Shown(doc) \in {"idle", "resume_available", "retryable"} /\ (Len(doc) = 0 => Shown(doc) = "idle")
BY DEF Shown

\* Reopening a session.
LEMMA ReopenStep == ASSUME NEW N \in Nat, NEW G, Sound(app, N, G), Reopen
                    PROVE  Sound(app', N, G)
<1> DEFINE ph == Shown(app.mem)
           n == IF ph = "idle" THEN 0 ELSE Len(app.mem)
<1>1. app' = Publish(app, ph, n) BY DEF Reopen
<1>2. ph \in {"idle", "resume_available", "retryable"} /\ (Len(app.mem) = 0 => ph = "idle") BY ShownIs
<1>3. ph \in Phases
  <2> HIDE DEF ph
  <2> QED BY <1>2 DEF Phases, Resting
<1>4. app.mem \in Seq(Att) BY DEF Sound, Doc
<1> HIDE DEF ph
<1>5. n \in Nat /\ n <= Len(app.mem) /\ (ph \in {"retryable", "resume_available"} => n # 0)
  <2>1. Len(app.mem) \in Nat BY <1>4
  <2> QED BY <1>2, <2>1
<1> HIDE DEF n
<1> QED BY <1>1, <1>3, <1>5, Published

\* Giving up on an attempt keeps what is promised of it.
LEMMA AbandonedIs == ASSUME NEW att \in Att, NEW n, NEW G
                     PROVE  /\ Abandoned(att) \in Att /\ Abandoned(att).jr = att.jr
                            /\ Let_go(Abandoned(att), n, G) /\ (IsAgent(Abandoned(att)) <=> IsAgent(att))
<1> DEFINE r == TRUE
           b == [att EXCEPT !.st = "failed", !.code = "interrupted", !.residue = r]
<1>1. Abandoned(att) = b BY DEF Abandoned
<1>2. r \in BOOLEAN /\ r OBVIOUS
<1> HIDE DEF r
<1>3. b \in Att /\ b.jr = att.jr /\ b.residue = r BY <1>2 DEF Att, Status, Codes
<1> HIDE DEF b
<1> QED BY <1>1, <1>2, <1>3 DEF Let_go, IsAgent

\* Abandoning a turn that native cannot recover.
LEMMA AbandonStep ==
  ASSUME NEW N \in Nat, NEW G, Sound(app, N, G), Len(app.mem) < N, AbandonAndRetry
  PROVE  Sound(app', N, G)
<1> DEFINE n == app.at
           a == Raise(app)
           c == Context(n, app.epoch + 1, {})
           att == Abandoned(app.mem[n])
           x == Publish(a, "blocked", n)
           y == Save(a, c, "checkpoint", att, Then("abandoned"))
<1>1. app' \in {x, y} /\ app.mem[n].jr.ph \in {"unknown", "ambiguous"} BY DEF AbandonAndRetry, Raise
<1>2. app.prep = NoPrep /\ app.phase \in {"retryable", "resume_available"}
  BY DEF AbandonAndRetry, Idle, NothingPending
<1>3. n \in Nat /\ n <= Len(app.mem) /\ n # 0 /\ Live(app, n) /\ app.mem[n] \in Att
  <2>1. app.mem \in Seq(Att) /\ app \in Apps /\ Refs(app, G) BY DEF Sound, Doc
  <2>2. n \in Nat /\ n <= Len(app.mem) /\ n # 0 BY <1>2, <2>1 DEF Apps, Refs
  <2>3. n \in DOMAIN app.mem BY <2>1, <2>2
  <2> QED BY <1>2, <2>1, <2>2, <2>3 DEF Live
<1>4. IsAgent(app.mem[n]) BY <1>1 DEF IsAgent, NoJournal
<1>5. Sound(x, N, G) BY <1>2, <1>3, AnewSound
<1>6. Sound(a, N, G) BY RaiseSound
<1>7. a \in Apps BY RaiseSound
<1>8. app \in Apps BY DEF Sound
<1>9. a.mem = app.mem /\ a.epoch = app.epoch + 1 BY <1>8 DEF Raise, Apps
<1>10. a.prep = app.prep BY <1>8 DEF Raise, Apps
<1>11. Free(a, N) BY <1>2, <1>9, <1>10, RaiseSound
<1>12. Live(a, n) BY <1>3, <1>9, <1>10 DEF Live
<1> HIDE DEF a, n
<1>13. c = Context(n, a.epoch, {}) BY <1>9
<1> HIDE DEF c
<1>14. Plain(a, c, N, G) /\ c.n = n /\ c.ep = a.epoch BY <1>6, <1>12, <1>13, StartsPlain
<1>15. att \in Att /\ att.jr = app.mem[n].jr /\ Let_go(att, c.n, G) /\ IsAgent(att) BY <1>3, <1>4, AbandonedIs
<1> HIDE DEF att
<1>16. ~Direct(a.mem[c.n]) BY <1>4, <1>9, <1>14 DEF Direct
<1> DEFINE t == Then("abandoned")
<1>17. t \in Thens /\ t.at = "abandoned" BY ThenTyped DEF Places
<1> HIDE DEF t
<1>18. ThenOK(a, c, att, t, N) BY <1>11, <1>17 DEF ThenOK
<1>19. Sound(Save(a, c, "checkpoint", att, t), N, G) BY <1>14, <1>15, <1>16, <1>18, SaveSound
<1>20. Sound(y, N, G) BY <1>19 DEF t
<1> HIDE DEF x, y
<1> QED BY <1>1, <1>5, <1>20

----------------------------------------------------------------------------
(***************************************************************************)
(* What native keeps, and what it says.                                     *)
(***************************************************************************)

NatRecs == {"none", "ok", "failed", "denied", "cancelled", "running", "stopping", "unknown", "ambiguous"}
NatCall == [kind : {"auto", "ask", "bad"}, dec : Decs, rec : NatRecs]

\* The calls that native keeps.
LEMMA NatCallsAre == NatCalls = Seq(NatCall)
<1>1. NatRecs = Receipts \cup Working \cup InDoubt \cup {"none", "cancelled"}
  BY DEF NatRecs, Receipts, Working, InDoubt
<1> QED BY <1>1 DEF NatCalls, NatCall, Decs

\* The fields of the evidence of an attempt.
LEMMA EvidenceHas == ASSUME NEW x \in Evidence
                     PROVE  /\ x.st \in Stages /\ x.rnd \in 0 .. MaxRound /\ x.calls \in Seq(NatCall) /\ x.own \in Nat
                            /\ x.over \in BOOLEAN /\ (x.st = "batch" => x.calls \in Seq(CallRec))
BY NatCallsAre, CallsAre DEF Evidence

\* The row of a round, and of a call.
RoundRow(x, s)   == [x EXCEPT !.st = s]
CallRow(x, i, s) == [x EXCEPT !.calls[i].rec = s]

\* Evidence whose round is in another stage.
LEMMA RoundRowIs == ASSUME NEW x \in Evidence, NEW s \in Stages \ {"batch"}
                    PROVE  /\ RoundRow(x, s) \in Evidence /\ RoundRow(x, s).st = s
                           /\ RoundRow(x, s).rnd = x.rnd /\ RoundRow(x, s).calls = x.calls
<1>1. RoundRow(x, s) = [x EXCEPT !.st = s] BY DEF RoundRow
<1>2. s # "batch" /\ s \in Stages OBVIOUS
<1> QED BY <1>1, <1>2 DEF Evidence

\* Evidence with other calls.
LEMMA CallsRewritten == ASSUME NEW x \in Evidence, x.st # "batch", NEW cs \in Seq(NatCall)
                        PROVE  LET y == [x EXCEPT !.calls = cs] IN y \in Evidence /\ y.st = x.st /\ y.rnd = x.rnd /\ y.calls = cs
BY NatCallsAre DEF Evidence

\* Evidence in which a call has another receipt.
LEMMA CallRowIs == ASSUME NEW x \in Evidence, x.st # "batch", NEW i, NEW s \in NatRecs
                   PROVE  /\ CallRow(x, i, s) \in Evidence /\ CallRow(x, i, s).st = x.st
                          /\ CallRow(x, i, s).rnd = x.rnd
<1> DEFINE cs == [x.calls EXCEPT ![i].rec = s]
<1>1. x.calls \in Seq(NatCall) BY EvidenceHas
<1>2. cs \in Seq(NatCall)
  <2>1. CASE i \in DOMAIN x.calls
    <3>1. x.calls[i] \in NatCall BY <1>1, <2>1
    <3>2. [x.calls[i] EXCEPT !.rec = s] \in NatCall BY <3>1 DEF NatCall
    <3> QED BY <1>1, <2>1, <3>2
  <2>2. CASE i \notin DOMAIN x.calls
    <3>1. cs = x.calls BY <1>1, <2>2
    <3> QED BY <1>1, <3>1
  <2> QED BY <2>1, <2>2
<1>3. CallRow(x, i, s) = [x EXCEPT !.calls = cs] BY DEF CallRow
<1> HIDE DEF cs
<1> QED BY <1>2, <1>3, CallsRewritten

\* An answer that can be relied on, with the evidence it leaves.
Honest(x, w, e) ==
  /\ e.x \in Evidence /\ (x.st = "gone" => e.x.st = "gone")
  /\ e.r.calls \in Seq(CallRec) /\ e.r.jr \in Jr
  /\ w.on = "round" => e.r.ans \in RoundAnswers
  /\ w.on = "discard" /\ e.r.ans \notin {"throw", "conflict"} => e.x.st = "gone"
  /\ w.on \in {"interrupt", "sweep"} /\ e.r.ans = "ok" => e.x.st = "gone"
  /\ w.on = "recover" => /\ e.r.ans \in {"throw", "conflict", "retryable", "ok", "manual"}
                         /\ e.r.ans \in {"ok", "manual"} => e.r.jr.ph # "none"

\* The plain answer "ans" is one that "w" may be given when native is left at "y".
MaySay(w, y, ans) ==
  /\ w.on = "round" => ans \in RoundAnswers
  /\ w.on = "discard" => ans \in {"throw", "conflict"} \/ y.st = "gone"
  /\ w.on \in {"interrupt", "sweep"} => ans # "ok" \/ y.st = "gone"
  /\ w.on = "recover" => ans \in {"throw", "conflict"}

\* An answer that native may give of what it did.
LEMMA DidHonest == ASSUME NEW x, NEW w, NEW y \in Evidence, x.st = "gone" => y.st = "gone", NEW ans, MaySay(w, y, ans)
                   PROVE  Honest(x, w, Did(y, ans))
<1>1. Did(y, ans).x = y /\ Did(y, ans).r.ans = ans /\ Did(y, ans).r.calls = << >> /\ Did(y, ans).r.jr = NoJournal
  BY DEF Did, Answer
<1>2. << >> \in Seq(CallRec) OBVIOUS
<1>3. RoundAnswers \subseteq RoundAnswers OBVIOUS
<1> QED BY <1>1, <1>2, NoneTyped DEF Honest, MaySay

\* A refusal changes nothing.
LEMMA RefusalHonest == ASSUME NEW x \in Evidence, NEW w, NEW e \in Refusal(x) PROVE Honest(x, w, e)
<1>1. e = Did(x, "conflict") BY DEF Refusal
<1>2. MaySay(w, x, "conflict") BY DEF MaySay, RoundAnswers
<1> QED BY <1>1, <1>2, DidHonest

\* A call that throws claims nothing.
LEMMA ThrownHonest == ASSUME NEW x \in Evidence, NEW y \in Evidence, x.st = "gone" => y.st = "gone", NEW w
                      PROVE  Honest(x, w, Did(y, "throw"))
<1>1. MaySay(w, y, "throw") BY DEF MaySay, RoundAnswers
<1> QED BY <1>1, DidHonest

\* What is not gone may become anything.
LEMMA StillThere == ASSUME NEW x \in Evidence, x.st # "gone", NEW w, NEW y \in Evidence, NEW ans, MaySay(w, y, ans)
                    PROVE  Honest(x, w, Did(y, ans))
BY DidHonest

\* Preparing an attempt.
LEMMA PrepareHonest == ASSUME NEW x \in Evidence, NEW w, w.on = "prepare", NEW saved, NEW kind, NEW e \in PrepareAttempt(x, saved, kind)
                       PROVE  Honest(x, w, e)
<1>1. \/ e = Did(x, "not_agent")
      \/ x.st # "gone" /\ e = Did(RoundRow(x, "ready"), "ok")
      \/ e \in Refusal(x)
  BY DEF PrepareAttempt, RoundRow
<1>2. \A y, ans : MaySay(w, y, ans) BY DEF MaySay
<1>3. RoundRow(x, "ready") \in Evidence BY RoundRowIs DEF Stages
<1>4. CASE e = Did(x, "not_agent") BY <1>2, <1>4, DidHonest
<1>5. CASE x.st # "gone" /\ e = Did(RoundRow(x, "ready"), "ok") BY <1>2, <1>3, <1>5, StillThere
<1> QED BY <1>1, <1>4, <1>5, RefusalHonest

\* A batch as the provider's answer makes it.
NewBatch(b) == [k \in DOMAIN b |-> NewCall(b[k])]

\* The calls of a round that answered with a batch.
LEMMA NewBatchTyped == ASSUME NEW b \in Batches PROVE NewBatch(b) \in Seq(CallRec)
<1>1. b \in Seq({"auto", "ask", "bad"}) BY BatchesAssumption
<1>2. \A k \in 1 .. Len(b) : NewCall(b[k]) \in CallRec
  <2> TAKE k \in 1 .. Len(b)
  <2>1. b[k] \in {"auto", "ask", "bad"} BY <1>1
  <2> QED BY <2>1 DEF NewCall, CallRec
<1>3. NewBatch(b) \in [1 .. Len(b) -> CallRec] /\ Len(b) \in Nat BY <1>1, <1>2 DEF NewBatch
<1> HIDE DEF NewBatch
<1> QED BY <1>3, FunIsSeq

BatchRow(x, cs) == [x EXCEPT !.st = "batch", !.calls = cs]

\* Evidence of a batch that is not frozen.
LEMMA BatchRowIs == ASSUME NEW x \in Evidence, NEW cs \in Seq(CallRec)
                    PROVE  BatchRow(x, cs) \in Evidence
<1>1. cs \in Seq(NatCall)
  <2>1. \A c \in CallRec : c \in NatCall BY DEF CallRec, NatCall, Decs, NatRecs
  <2>2. \A k \in 1 .. Len(cs) : cs[k] \in NatCall BY <2>1
  <2>3. cs \in [1 .. Len(cs) -> NatCall] /\ Len(cs) \in Nat BY <2>2
  <2> QED BY <2>3, FunIsSeq
<1>2. BatchRow(x, cs) = [x EXCEPT !.st = "batch", !.calls = cs] BY DEF BatchRow
<1>3. "batch" \in Stages BY DEF Stages
<1> QED BY <1>1, <1>2, <1>3, NatCallsAre, CallsAre DEF Evidence

\* Completing a round.
LEMMA RoundHonest == ASSUME NEW x \in Evidence, NEW w, w.on = "round", NEW e \in CompleteRound(x, w)
                     PROVE  Honest(x, w, e)
<1> DEFINE Good(ans) == ans \in {"final", "blocked", "cancelled", "ambiguous"}
<1>1. \/ x.st \in {"running", "stopping"} /\ \E s \in {"final", "blocked", "cancelled", "ambiguous"} : e = Did(RoundRow(x, s), s)
      \/ x.st = "running" /\ \E b \in Batches : e = Did(BatchRow(x, NewBatch(b)), "batch")
      \/ e = Did(x, "cancelled")
      \/ e \in Refusal(x)
  <2> DEFINE mine == x.rnd = w.was.jr.rnd /\ x.own = w.c.ep
             E1 == {Did(RoundRow(x, s), s) : s \in {"final", "blocked"}}
             E2 == {Did([RoundRow(x, "batch") EXCEPT !.calls = NewBatch(b)], "batch") : b \in IF w.was.jr.rnd < MaxRound THEN Batches ELSE {}}
             E3 == {Did(RoundRow(x, s), s) : s \in {"cancelled", "ambiguous"}}
  <2>1. \A b : [RoundRow(x, "batch") EXCEPT !.calls = NewBatch(b)] = BatchRow(x, NewBatch(b))
    BY DEF RoundRow, BatchRow
  <2>2. CompleteRound(x, w) =
          CASE mine /\ x.st = "running"   -> E1 \cup E2
            [] mine /\ x.st = "stopping"  -> E3
            [] mine /\ x.st = "cancelled" -> {Did(x, "cancelled")}
            [] OTHER -> IF MayAsk(x, w.was.jr.rnd) THEN {} ELSE Refusal(x)
    BY Zenon DEF CompleteRound, RoundRow, NewBatch
  <2> HIDE DEF mine
  <2>3. \/ x.st = "running" /\ e \in E1 \cup E2
        \/ x.st = "stopping" /\ e \in E3
        \/ e = Did(x, "cancelled")
        \/ e \in Refusal(x)
    <3> HIDE DEF E1, E2, E3
    <3> QED BY <2>2
  <2>4. e \in E2 => \E b \in Batches : e = Did(BatchRow(x, NewBatch(b)), "batch") BY <2>1
  <2>5. e \in E1 \cup E3 => \E s \in {"final", "blocked", "cancelled", "ambiguous"} : e = Did(RoundRow(x, s), s)
    OBVIOUS
  <2> HIDE DEF E1, E2, E3
  <2> QED BY <2>3, <2>4, <2>5
<1>2. ASSUME x.st \in {"running", "stopping"}, NEW s \in {"final", "blocked", "cancelled", "ambiguous"}, e = Did(RoundRow(x, s), s)
      PROVE  Honest(x, w, e)
  <2>1. s \in Stages \ {"batch"} BY DEF Stages
  <2>2. MaySay(w, RoundRow(x, s), s) BY DEF MaySay, RoundAnswers
  <2> QED BY <1>2, <2>1, <2>2, RoundRowIs, StillThere
<1>3. ASSUME x.st = "running", NEW b \in Batches, e = Did(BatchRow(x, NewBatch(b)), "batch")
      PROVE  Honest(x, w, e)
  <2>1. MaySay(w, BatchRow(x, NewBatch(b)), "batch") BY DEF MaySay, RoundAnswers
  <2> QED BY <1>3, <2>1, NewBatchTyped, BatchRowIs, StillThere
<1>4. ASSUME e = Did(x, "cancelled") PROVE Honest(x, w, e)
  <2>1. MaySay(w, x, "cancelled") BY DEF MaySay, RoundAnswers
  <2> QED BY <1>4, <2>1, DidHonest
<1> QED BY <1>1, <1>2, <1>3, <1>4, RefusalHonest


\* Freezing a batch.
LEMMA FreezeHonest == ASSUME NEW x \in Evidence, NEW w, w.on = "freeze", NEW d, NEW e \in FreezeBatch(x, w, d)
                      PROVE  Honest(x, w, e)
<1> DEFINE fr == [x |-> RoundRow(x, "frozen"), r |-> [Answer("ok") EXCEPT !.calls = x.calls]]
<1>1. \/ x.st = "batch" /\ e = fr
      \/ e \in Refusal(x)
  BY DEF FreezeBatch, RoundRow
<1>2. CASE x.st = "batch" /\ e = fr
  <2>1. RoundRow(x, "frozen") \in Evidence BY RoundRowIs DEF Stages
  <2>2. x.calls \in Seq(CallRec) BY <1>2, EvidenceHas
  <2>3. e.x = RoundRow(x, "frozen") /\ e.r.calls = x.calls /\ e.r.jr = NoJournal /\ e.r.ans = "ok" BY <1>2 DEF Answer
  <2> HIDE DEF fr
  <2> QED BY <1>2, <2>1, <2>2, <2>3, NoneTyped DEF Honest
<1> QED BY <1>1, <1>2, RefusalHonest

\* The row of a call with what the user decided.
DecisionRow(x, i, d, r) == [x EXCEPT !.calls[i].dec = d, !.calls[i].rec = r]

\* Evidence in which a call has another decision and receipt.
LEMMA DecisionRowIs == ASSUME NEW x \in Evidence, x.st # "batch", NEW i, NEW d \in Decs, NEW r \in NatRecs
                       PROVE  DecisionRow(x, i, d, r) \in Evidence /\ DecisionRow(x, i, d, r).st = x.st
<1> DEFINE cs == [x.calls EXCEPT ![i].dec = d, ![i].rec = r]
<1>1. x.calls \in Seq(NatCall) BY EvidenceHas
<1>2. cs \in Seq(NatCall)
  <2>1. CASE i \in DOMAIN x.calls
    <3>1. x.calls[i] \in NatCall BY <1>1, <2>1
    <3>2. [x.calls[i] EXCEPT !.dec = d, !.rec = r] \in NatCall BY <3>1 DEF NatCall
    <3>3. cs = [x.calls EXCEPT ![i] = [x.calls[i] EXCEPT !.dec = d, !.rec = r]] BY <1>1, <2>1
    <3> QED BY <1>1, <2>1, <3>2, <3>3
  <2>2. CASE i \notin DOMAIN x.calls
    <3>1. cs = x.calls BY <1>1, <2>2
    <3> QED BY <1>1, <3>1
  <2> QED BY <2>1, <2>2
<1>3. DecisionRow(x, i, d, r) = [x EXCEPT !.calls = cs] BY DEF DecisionRow
<1> HIDE DEF cs
<1> QED BY <1>2, <1>3, CallsRewritten

\* Binding a decision.
LEMMA BindHonest == ASSUME NEW x \in Evidence, NEW w, w.on = "bind", w.arg.d \in Verdicts, NEW d, NEW e \in BindApproval(x, w, d)
                    PROVE  Honest(x, w, e)
<1> DEFINE rec == IF w.arg.d = "denied" THEN "denied" ELSE "none"
<1>1. \/ x.st = "frozen" /\ e = Did(DecisionRow(x, w.arg.i, w.arg.d, rec), "ok")
      \/ e \in Refusal(x)
  BY DEF BindApproval, DecisionRow
<1>2. rec \in NatRecs /\ w.arg.d \in Decs BY DEF NatRecs, Decs, Verdicts
<1> HIDE DEF rec
<1>3. CASE x.st = "frozen" /\ e = Did(DecisionRow(x, w.arg.i, w.arg.d, rec), "ok")
  <2>1. DecisionRow(x, w.arg.i, w.arg.d, rec) \in Evidence BY <1>2, <1>3, DecisionRowIs
  <2>2. MaySay(w, DecisionRow(x, w.arg.i, w.arg.d, rec), "ok") BY DEF MaySay
  <2> QED BY <1>3, <2>1, <2>2, StillThere
<1> QED BY <1>1, <1>3, RefusalHonest

\* A call that was rewritten in a batch that is frozen, whatever is answered.
LEMMA RowHonest == ASSUME NEW x \in Evidence, x.st = "frozen", NEW w, NEW i, NEW s \in NatRecs, NEW ans,
                          \A y : MaySay(w, y, ans)
                   PROVE  Honest(x, w, Did(CallRow(x, i, s), ans))
BY CallRowIs, StillThere

\* Executing a tool.
LEMMA ExecuteHonest == ASSUME NEW x \in Evidence, NEW w, w.on = "execute", NEW d, NEW e \in ExecuteTool(x, w, d)
                       PROVE  Honest(x, w, e)
<1> DEFINE i == w.arg.i
           rec == IF x.st = "frozen" /\ i \in DOMAIN x.calls THEN x.calls[i].rec ELSE "absent"
           Row(s) == {Did(CallRow(x, i, s), s)}
<1>1. ExecuteTool(x, w, d) =
        CASE rec = "running" /\ x.own # w.c.ep        -> {Did(x, "running")}
          [] rec \in {"running", "ok"}                -> Row("ok")
          [] rec = "stopping"  -> Row("cancelled") \cup {Did(x, s) : s \in InDoubt}
          [] rec = "cancelled" -> Row("cancelled")
          [] OTHER -> IF MayRun(x, w, d) THEN {} ELSE Refusal(x)
  BY Zenon DEF ExecuteTool, CallRow
<1>2. rec # "absent" => x.st = "frozen" OBVIOUS
<1> HIDE DEF rec
<1>3. \/ x.st = "frozen" /\ \E s \in {"ok", "cancelled"} : e = Did(CallRow(x, i, s), s)
      \/ \E s \in {"running", "unknown", "ambiguous"} : e = Did(x, s)
      \/ e \in Refusal(x)
  BY <1>1, <1>2 DEF InDoubt
<1>4. \A y, ans : MaySay(w, y, ans) BY DEF MaySay
<1>5. ASSUME x.st = "frozen", NEW s \in {"ok", "cancelled"}, e = Did(CallRow(x, i, s), s) PROVE Honest(x, w, e)
  <2>1. s \in NatRecs BY DEF NatRecs
  <2> QED BY <1>4, <1>5, <2>1, RowHonest
<1>6. ASSUME NEW s, e = Did(x, s) PROVE Honest(x, w, e) BY <1>4, <1>6, DidHonest
<1> QED BY <1>3, <1>5, <1>6, RefusalHonest


\* A row that starts to work, of a round and of a call.
RoundStarts(x, r, ep)  == [x EXCEPT !.st = "running", !.rnd = r, !.calls = << >>, !.own = ep]
CallStarts(x, i, ep)   == [x EXCEPT !.calls[i].rec = "running", !.own = ep]

\* Work that native has launched and not answered yet.
LEMMA LaunchedTyped == ASSUME NEW x \in Evidence, NEW w \in Waits, NEW d, NEW y \in Launched(x, w, d)
                       PROVE  y \in Evidence /\ (x.st = "gone" => y.st = "gone")
<1> DEFINE r == w.was.jr.rnd
           ep == w.c.ep
           i == w.arg.i
<1>1. \/ MayAsk(x, r) /\ y = RoundStarts(x, r, ep)
      \/ MayRun(x, w, d) /\ y = CallStarts(x, i, ep)
  BY DEF Launched, RoundStarts, CallStarts
<1>2. r \in 0 .. MaxRound
  <2>1. w.was \in Att BY DEF Waits
  <2> QED BY <2>1, AttHas, JournalHas
<1>3. ep \in Nat BY DEF Waits, Threads
<1> HIDE DEF r, ep, i
<1>4. CASE MayAsk(x, r) /\ y = RoundStarts(x, r, ep)
  <2>1. x.st # "gone" BY <1>4 DEF MayAsk
  <2>2. "running" \in Stages /\ << >> \in NatCalls BY NatCallsAre DEF Stages
  <2>3. y = [x EXCEPT !.st = "running", !.rnd = r, !.calls = << >>, !.own = ep] BY <1>4 DEF RoundStarts
  <2>4. y \in Evidence BY <1>2, <1>3, <2>2, <2>3 DEF Evidence
  <2> QED BY <2>1, <2>4
<1>5. CASE MayRun(x, w, d) /\ y = CallStarts(x, i, ep)
  <2>1. x.st = "frozen" BY <1>5 DEF MayRun
  <2>2. CallRow(x, i, "running") \in Evidence /\ CallRow(x, i, "running").st = "frozen"
    BY <2>1, CallRowIs DEF NatRecs
  <2>3. y = [CallRow(x, i, "running") EXCEPT !.own = ep] BY <1>5 DEF CallStarts, CallRow, Evidence
  <2>4. y \in Evidence
    <3> DEFINE z == CallRow(x, i, "running")
    <3>1. z \in Evidence /\ y = [z EXCEPT !.own = ep] BY <2>2, <2>3
    <3> HIDE DEF z
    <3> QED BY <1>3, <3>1 DEF Evidence
  <2> QED BY <2>1, <2>4
<1> QED BY <1>1, <1>4, <1>5

\* A round whose owner is lost.
LEMMA RoundLostHonest == ASSUME NEW x \in Evidence, NEW w, w.on = "round", NEW e \in RoundLost(x, w)
                         PROVE  Honest(x, w, e)
<1>1. \/ x.st = "running" /\ \E s \in {"unknown", "ambiguous", "refused"} : e = Did(RoundRow(x, s), s)
      \/ e = Did(x, "in_flight")
  BY DEF RoundLost, InDoubt, RoundRow
<1>2. ASSUME x.st = "running", NEW s \in {"unknown", "ambiguous", "refused"}, e = Did(RoundRow(x, s), s)
      PROVE  Honest(x, w, e)
  <2>1. s \in Stages \ {"batch"} BY DEF Stages
  <2>2. MaySay(w, RoundRow(x, s), s) BY DEF MaySay, RoundAnswers
  <2> QED BY <1>2, <2>1, <2>2, RoundRowIs, StillThere
<1>3. MaySay(w, x, "in_flight") BY DEF MaySay, RoundAnswers
<1>4. CASE e = Did(x, "in_flight") BY <1>3, <1>4, DidHonest
<1> QED BY <1>1, <1>2, <1>4

\* A tool whose owner is lost.
LEMMA ToolLostHonest == ASSUME NEW x \in Evidence, NEW w, w.on = "execute", NEW e \in ToolLost(x, w)
                        PROVE  Honest(x, w, e)
<1> DEFINE i == w.arg.i
<1>1. i \in DOMAIN x.calls /\ x.calls[i].rec = "running" /\ \E s \in {"unknown", "ambiguous"} : e = Did(CallRow(x, i, s), s)
  BY DEF ToolLost, InDoubt, CallRow
<1>2. x.st # "batch"
  <2> SUFFICES ASSUME x.st = "batch" PROVE FALSE OBVIOUS
  <2>1. x.calls \in Seq(CallRec) BY EvidenceHas
  <2>2. x.calls[i] \in CallRec BY <1>1, <2>1
  <2> QED BY <1>1, <2>2 DEF CallRec
<1>3. PICK s \in {"unknown", "ambiguous"} : e = Did(CallRow(x, i, s), s) BY <1>1
<1>4. s \in NatRecs BY DEF NatRecs
<1>5. CallRow(x, i, s) \in Evidence /\ CallRow(x, i, s).st = x.st BY <1>2, <1>4, CallRowIs
<1>6. MaySay(w, CallRow(x, i, s), s) BY DEF MaySay
<1> QED BY <1>3, <1>5, <1>6, DidHonest

\* The end of an attempt: finalized, thrown away, given up.
Finalized(x) == [x EXCEPT !.over = TRUE]

\* Evidence of a turn that is over.
LEMMA FinalizedIs == ASSUME NEW x \in Evidence PROVE Finalized(x) \in Evidence /\ Finalized(x).st = x.st
<1> DEFINE yes == TRUE
<1>1. yes \in BOOLEAN OBVIOUS
<1>2. Finalized(x) = [x EXCEPT !.over = yes] BY DEF Finalized
<1> HIDE DEF yes
<1> QED BY <1>1, <1>2 DEF Evidence

\* Finalizing an attempt.
LEMMA FinalizeHonest == ASSUME NEW x \in Evidence, NEW w, w.on = "finalize", NEW d, NEW e \in FinalizeAttempt(x, w, d)
                        PROVE  Honest(x, w, e)
<1>1. \/ x.st # "gone" /\ e = Did(Finalized(x), "ok")
      \/ e \in Refusal(x)
  BY DEF FinalizeAttempt, Finalized, Missing
<1>2. CASE x.st # "gone" /\ e = Did(Finalized(x), "ok")
  <2>1. MaySay(w, Finalized(x), "ok") BY DEF MaySay
  <2> QED BY <1>2, <2>1, FinalizedIs, StillThere
<1> QED BY <1>1, <1>2, RefusalHonest

\* Of evidence that was thrown away it is true that it is gone.
LEMMA GoneHonest == ASSUME NEW x \in Evidence, NEW w, w.on \in {"discard", "interrupt", "sweep"}, NEW y \in Evidence, y.st = "gone"
                    PROVE  Honest(x, w, Did(y, "ok"))
<1>1. MaySay(w, y, "ok") BY DEF MaySay
<1> QED BY <1>1, DidHonest

\* Discarding an attempt: it is not said to be gone before it is.
LEMMA DiscardHonest == ASSUME NEW x \in Evidence, NEW w, w.on = "discard", NEW e \in DiscardAttempt(x)
                       PROVE  Honest(x, w, e)
<1>1. \/ x.st = "gone" /\ e = Did(x, "ok")
      \/ e = Did(RoundRow(x, "gone"), "ok")
      \/ e = Did(x, "throw")
  BY DEF DiscardAttempt, RoundRow
<1>2. RoundRow(x, "gone") \in Evidence /\ RoundRow(x, "gone").st = "gone" BY RoundRowIs DEF Stages
<1> QED BY <1>1, <1>2, GoneHonest, ThrownHonest

\* Interrupting an attempt: it is not said to be gone before it is.
LEMMA InterruptHonest == ASSUME NEW x \in Evidence, NEW w, w.on \in {"interrupt", "sweep"}, NEW d, NEW e \in InterruptAttempt(x, d)
                         PROVE  Honest(x, w, e)
<1>1. \/ e = Did(RoundRow(x, "gone"), "ok")
      \/ e = Did(x, "throw")
  BY DEF InterruptAttempt, RoundRow
<1>2. RoundRow(x, "gone") \in Evidence /\ RoundRow(x, "gone").st = "gone" BY RoundRowIs DEF Stages
<1> QED BY <1>1, <1>2, GoneHonest, ThrownHonest

\* Querying an attempt.
LEMMA QueryHonest == ASSUME NEW x \in Evidence, NEW w, w.on = "query", NEW d, NEW e \in QueryAttempt(x, w, d)
                     PROVE  Honest(x, w, e)
<1>1. \E s \in {"conflict", "ok"} : e = Did(x, s) BY DEF QueryAttempt
<1>2. \A s : MaySay(w, x, s) BY DEF MaySay
<1> QED BY <1>1, <1>2, DidHonest

----------------------------------------------------------------------------
(***************************************************************************)
(* What native projects, recovers and cancels.                              *)
(***************************************************************************)

Lins == {"none", "active", "completed", "cancelled", "failed_retryable", "cancel_requested", "unknown", "ambiguous"}

\* A journal whose round was renumbered.
Renumbered(j, rnd) == [j EXCEPT !.rnd = rnd]

\* A journal given another round number.
LEMMA RenumberedMade == ASSUME NEW j, Made(j), NEW rnd \in 0 .. MaxRound PROVE Made(Renumbered(j, rnd))
<1>1. j \in Jr /\ j.ph # "none" BY DEF Made
<1>2. j \in Journals /\ j.cur <= Len(j.calls) BY <1>1, JournalHas
<1>3. Renumbered(j, rnd) \in Journals BY <1>2 DEF Renumbered, Journals
<1>4. LET h == Renumbered(j, rnd) IN h.cur = j.cur /\ h.calls = j.calls /\ h.ph = j.ph
  BY <1>2 DEF Renumbered, Journals
<1> QED BY <1>1, <1>2, <1>3, <1>4, MadeIs

\* The receipts of a batch, as the projection shows them.
Receipted(cs) == [k \in DOMAIN cs |-> IF cs[k].rec \in Receipts THEN cs[k] ELSE [cs[k] EXCEPT !.rec = "none"]]

\* What a projection shows of the receipts of a batch.
LEMMA ReceiptedTyped == ASSUME NEW cs \in Seq(NatCall) PROVE Receipted(cs) \in Seq(CallRec)
<1> DEFINE Shows1(k) == IF cs[k].rec \in Receipts THEN cs[k] ELSE [cs[k] EXCEPT !.rec = "none"]
<1>1. ASSUME NEW k \in 1 .. Len(cs) PROVE Shows1(k) \in CallRec
  <2>1. cs[k] \in NatCall OBVIOUS
  <2>2. cs[k].rec \in Receipts => cs[k] \in CallRec BY <2>1 DEF NatCall, CallRec, Receipts, Decs
  <2>3. [cs[k] EXCEPT !.rec = "none"] \in CallRec BY <2>1 DEF NatCall, CallRec, Decs
  <2> QED BY <2>2, <2>3
<1>2. Receipted(cs) = [k \in 1 .. Len(cs) |-> Shows1(k)] BY DEF Receipted
<1>3. Len(cs) \in Nat OBVIOUS
<1> HIDE DEF Shows1
<1>4. Receipted(cs) \in [1 .. Len(cs) -> CallRec] BY <1>1, <1>2
<1> HIDE DEF Receipted
<1> QED BY <1>3, <1>4, FunIsSeq

\* What the projection starts from, and a journal whose phase it sets.
Base(rnd, rev)   == [NoJournal EXCEPT !.rnd = rnd, !.rev = rev]
On(b, ph, lin)   == [b EXCEPT !.ph = ph, !.lin = lin]
Phased(b, ph)    == [b EXCEPT !.ph = ph]

\* A journal with a round and a revision only.
LEMMA BaseIs == ASSUME NEW rnd \in 0 .. MaxRound, NEW rev \in BOOLEAN
                PROVE  Base(rnd, rev) \in Journals /\ Base(rnd, rev).calls = << >> /\ Base(rnd, rev).cur = 0
<1>1. NoJournal \in Journals BY NoneTyped DEF Jr
<1>2. NoJournal.calls = << >> /\ NoJournal.cur = 0 BY DEF NoJournal
<1> QED BY <1>1, <1>2 DEF Base, Journals

\* A journal without a batch is one as soon as it has a phase.
LEMMA OnMade == ASSUME NEW b \in Journals, b.calls = << >>, b.cur = 0, NEW ph \in Phase \ {"none"}, NEW lin \in Lins
                PROVE  Made(On(b, ph, lin)) /\ Made(Phased(b, ph))
<1>1. On(b, ph, lin) \in Journals /\ Phased(b, ph) \in Journals BY DEF On, Phased, Journals, Lins
<1>2. LET j == On(b, ph, lin) IN j.cur = 0 /\ j.calls = << >> /\ j.ph = ph BY DEF On, Journals
<1>3. LET j == Phased(b, ph) IN j.cur = 0 /\ j.calls = << >> /\ j.ph = ph BY DEF Phased, Journals
<1>4. Made(On(b, ph, lin)) BY <1>1, <1>2, MadeIs
<1>5. Made(Phased(b, ph)) BY <1>1, <1>3, MadeIs
<1> QED BY <1>4, <1>5

\* A batch frozen in any journal.
LEMMA FrozenFrom == ASSUME NEW j \in Journals, NEW cs \in Seq(CallRec) PROVE Made(Frozen(j, cs))
<1> DEFINE ph == IF \E i \in DOMAIN cs : Open(cs[i]) /\ Pending(cs[i]) THEN "approval_pending"
                 ELSE IF AllSettled(cs) THEN "tool_result_pending" ELSE "batch_frozen"
<1>1. ph \in Phase /\ ph # "none" BY DEF Phase
<1>2. Cursor(cs) \in Nat /\ Cursor(cs) <= Len(cs)
  <2>1. Len(cs) \in Nat OBVIOUS
  <2> QED BY <2>1, CursorIn
<1>3. Frozen(j, cs) = [j EXCEPT !.ph = ph, !.lin = "completed", !.rev = TRUE, !.calls = cs, !.cur = Cursor(cs)]
  BY DEF Frozen
<1> HIDE DEF ph
<1>4. Frozen(j, cs) \in Journals BY <1>1, <1>2, <1>3, CallsAre DEF Journals
<1>5. Frozen(j, cs).cur = Cursor(cs) /\ Frozen(j, cs).calls = cs /\ Frozen(j, cs).ph = ph
  BY <1>3 DEF Journals
<1> QED BY <1>1, <1>2, <1>4, <1>5, MadeIs

\* The journal that native projects from its evidence is a journal.
LEMMA ProjectedMade == ASSUME NEW x \in Evidence PROVE Made(Projected(x))
<1> DEFINE rnd == IF x.rnd = 0 THEN 1 ELSE x.rnd
           rev == x.rnd # 0
           base == Base(rnd, rev)
           fr == Renumbered(Frozen(base, Receipted(x.calls)), x.rnd)
           lin == IF x.st = "refused" THEN "failed_retryable" ELSE "completed"
<1>1. x.rnd \in 0 .. MaxRound /\ rnd \in 0 .. MaxRound BY EvidenceHas, RoundAssumption
<1>2. rev \in BOOLEAN OBVIOUS
<1>3. Projected(x) = CASE x.st = "running"  -> On(base, "round_in_flight", "active")
                       [] x.st = "stopping" -> On(base, "round_in_flight", "cancel_requested")
                       [] x.st \in InDoubt \cup {"cancelled"} -> On(base, x.st, x.st)
                       [] x.st = "frozen"   -> fr
                       [] x.st = "ready"    -> Phased(base, "ready_for_round")
                       [] OTHER -> On(base, "ready_for_round", lin)
  BY Zenon DEF Projected, Receipted, Base, On, Phased, Renumbered
<1> HIDE DEF rnd, rev
<1>4. base \in Journals /\ base.calls = << >> /\ base.cur = 0 BY <1>1, <1>2, BaseIs
<1> HIDE DEF base
<1>5. Made(fr)
  <2>1. x.calls \in Seq(NatCall) BY EvidenceHas
  <2>2. Made(Frozen(base, Receipted(x.calls))) BY <1>4, <2>1, ReceiptedTyped, FrozenFrom
  <2> QED BY <1>1, <2>2, RenumberedMade
<1> HIDE DEF fr
<1>6. ASSUME NEW ph \in {"round_in_flight", "unknown", "ambiguous", "cancelled", "ready_for_round"}
      PROVE  Made(Phased(base, ph)) /\ \A l \in Lins : Made(On(base, ph, l))
  <2>1. ph \in Phase \ {"none"} BY PhasesAre
  <2>2. "none" \in Lins BY DEF Lins
  <2> QED BY <1>4, <2>1, <2>2, OnMade
<1>7. lin \in Lins BY DEF Lins
<1> HIDE DEF lin
<1>8. {"active", "cancel_requested", "unknown", "ambiguous", "cancelled"} \subseteq Lins BY DEF Lins
<1>9. CASE x.st = "running"
  <2>1. Projected(x) = On(base, "round_in_flight", "active") BY <1>3, <1>9 DEF InDoubt
  <2> QED BY <1>6, <1>8, <2>1
<1>10. CASE x.st = "stopping"
  <2>1. Projected(x) = On(base, "round_in_flight", "cancel_requested") BY <1>3, <1>10 DEF InDoubt
  <2> QED BY <1>6, <1>8, <2>1
<1>11. CASE x.st \in {"unknown", "ambiguous", "cancelled"}
  <2>1. Projected(x) = On(base, x.st, x.st) BY <1>3, <1>11 DEF InDoubt
  <2> QED BY <1>6, <1>8, <1>11, <2>1
<1>12. CASE x.st = "frozen"
  <2>1. Projected(x) = fr BY <1>3, <1>12 DEF InDoubt
  <2> QED BY <1>5, <2>1
<1>13. CASE x.st = "ready"
  <2>1. Projected(x) = Phased(base, "ready_for_round") BY <1>3, <1>13 DEF InDoubt
  <2> QED BY <1>6, <2>1
<1>14. CASE x.st \notin {"running", "stopping", "unknown", "ambiguous", "cancelled", "frozen", "ready"}
  <2>1. Projected(x) = On(base, "ready_for_round", lin) BY <1>3, <1>14 DEF InDoubt
  <2> QED BY <1>6, <1>7, <2>1
<1> QED BY <1>9, <1>10, <1>11, <1>12, <1>13, <1>14


\* What a recovery reports.
Reported(y, ans, next) == [x |-> y, r |-> [Answer(ans) EXCEPT !.next = next, !.jr = Projected(y)]]

\* A recovery that reports what native projects.
LEMMA ReportedHonest == ASSUME NEW x \in Evidence, NEW w, w.on = "recover", NEW y \in Evidence, x.st = "gone" => y.st = "gone",
                               NEW ans \in {"ok", "manual", "retryable"}, NEW next
                        PROVE  Honest(x, w, Reported(y, ans, next))
<1> DEFINE e == Reported(y, ans, next)
           j == Projected(y)
<1>1. e.x = y BY DEF Reported
<1>2. e.r.ans = ans /\ e.r.calls = << >> /\ e.r.jr = j BY DEF Reported, Answer
<1>3. j \in Jr /\ j.ph # "none" BY ProjectedMade DEF Made
<1>4. << >> \in Seq(CallRec) OBVIOUS
<1> HIDE DEF e, j
<1>5. Honest(x, w, e) BY <1>1, <1>2, <1>3, <1>4 DEF Honest
<1> QED BY <1>5 DEF e

\* Recovering an attempt.
LEMMA RecoverHonest == ASSUME NEW x \in Evidence, NEW w, w.on = "recover", NEW d, NEW e \in RecoverAttempt(x, w, d)
                       PROVE  Honest(x, w, e)
<1> DEFINE j == w.was.jr
           t == RecoveryTarget(j)
           rec == IF j.cur \in DOMAIN x.calls THEN x.calls[j.cur].rec ELSE "absent"
           Manual == Reported(x, "manual", "none")
           Round == {CASE x.st = "final"             -> Reported(x, "ok", "persist_final")
                       [] x.st \in {"batch", "frozen"} -> Reported(x, "ok", "persist_batch")
                       [] x.st = "blocked"           -> Reported(x, "ok", "persist_round")
                       [] x.st \in InDoubt           -> Manual
                       [] x.st = "refused"           -> Reported(x, "retryable", "none")
                       [] OTHER                      -> Reported(x, "ok", "none")}
           Tool == CASE rec = "absent"             -> {Did(x, "throw")}
                     [] rec = "none"               -> {Reported(x, "ok", "persist_approval")}
                     [] rec = "unknown"            -> {Manual, Reported(CallRow(x, j.cur, "ok"), "ok", "persist_tool_result")}
                     [] rec \in Working            -> {Manual}
                     [] OTHER                      -> {Reported(x, "ok", "persist_tool_result")}
<1>1. RecoverAttempt(x, w, d) = IF Missing(x) \/ d # w.was THEN Refusal(x)
                                ELSE CASE t = "round" /\ x.rnd = j.rnd -> Round
                                       [] t = "tool" -> Tool
                                       [] OTHER -> {Reported(x, "ok", "none")}
  BY Zenon DEF RecoverAttempt, Reported, CallRow
<1>2. e \in Refusal(x) \/ e \in Round \/ e \in Tool \/ e = Reported(x, "ok", "none")
  <2> HIDE DEF Round, Tool, t
  <2> QED BY <1>1
<1>3. \A ans \in {"ok", "manual", "retryable"} : \A next : Honest(x, w, Reported(x, ans, next)) BY ReportedHonest
<1>4. CASE e \in Round
  <2>1. \E ans \in {"ok", "manual", "retryable"} : \E next : e = Reported(x, ans, next) BY <1>4
  <2> QED BY <1>3, <2>1
<1>5. CASE e \in Tool
  <2>1. \/ e = Did(x, "throw")
        \/ \E ans \in {"ok", "manual", "retryable"} : \E next : e = Reported(x, ans, next)
        \/ rec = "unknown" /\ e = Reported(CallRow(x, j.cur, "ok"), "ok", "persist_tool_result")
    <3> HIDE DEF rec
    <3> QED BY <1>5
  <2>2. CASE rec = "unknown" /\ e = Reported(CallRow(x, j.cur, "ok"), "ok", "persist_tool_result")
    <3>1. j.cur \in DOMAIN x.calls /\ x.calls[j.cur].rec = "unknown" BY <2>2
    <3>2. x.st # "batch"
      <4> SUFFICES ASSUME x.st = "batch" PROVE FALSE OBVIOUS
      <4>1. x.calls \in Seq(CallRec) BY EvidenceHas
      <4>2. x.calls[j.cur] \in CallRec BY <3>1, <4>1
      <4> QED BY <3>1, <4>2 DEF CallRec
    <3>3. CallRow(x, j.cur, "ok") \in Evidence /\ CallRow(x, j.cur, "ok").st = x.st BY <3>2, CallRowIs DEF NatRecs
    <3> QED BY <2>2, <3>3, ReportedHonest
  <2> QED BY <1>3, <2>1, <2>2, ThrownHonest
<1> QED BY <1>2, <1>3, <1>4, <1>5, RefusalHonest

\* Cancelling a round.
LEMMA CancelRoundHonest == ASSUME NEW x \in Evidence, NEW w, w.on = "stop", NEW e \in CancelRound(x)
                           PROVE  Honest(x, w, e)
<1>1. \/ \E s \in {"cancel_requested", "cancelled"} : e = Did(x, s)
      \/ x.st = "running" /\ e = Did(RoundRow(x, "stopping"), "cancel_requested")
      \/ x.st = "stopping" /\ e = Did(RoundRow(x, "cancelled"), "cancelled")
  BY DEF CancelRound, RoundRow
<1>2. \A y, ans : MaySay(w, y, ans) BY DEF MaySay
<1>3. RoundRow(x, "stopping") \in Evidence /\ RoundRow(x, "cancelled") \in Evidence BY RoundRowIs DEF Stages
<1>4. \A s : Honest(x, w, Did(x, s)) BY <1>2, DidHonest
<1> QED BY <1>1, <1>2, <1>3, <1>4, StillThere

\* Cancelling a tool.
LEMMA CancelToolHonest == ASSUME NEW x \in Evidence, NEW w, w.on = "stop", NEW i, NEW e \in CancelTool(x, i)
                          PROVE  Honest(x, w, e)
<1> DEFINE rec == IF x.st = "frozen" /\ i \in DOMAIN x.calls THEN x.calls[i].rec ELSE "absent"
<1>1. CancelTool(x, i) = CASE rec = "absent"   -> {Did(x, "unknown")}
                           [] rec = "none"     -> {Did(CallRow(x, i, "cancelled"), "cancelled")}
                           [] rec = "running"  -> {Did(CallRow(x, i, "stopping"), "cancel_requested")}
                           [] rec = "stopping" -> {Did(CallRow(x, i, "cancelled"), "cancelled"), Did(x, "throw")}
                           [] OTHER            -> Refusal(x)
  BY Zenon DEF CancelTool, CallRow
<1>2. rec # "absent" => x.st = "frozen" OBVIOUS
<1> HIDE DEF rec
<1>3. \/ \E s \in {"unknown", "throw"} : e = Did(x, s)
      \/ x.st = "frozen" /\ \E s \in {"cancelled", "stopping"} : \E ans : e = Did(CallRow(x, i, s), ans)
      \/ e \in Refusal(x)
  BY <1>1, <1>2
<1>4. \A y, ans : MaySay(w, y, ans) BY DEF MaySay
<1>5. {"cancelled", "stopping"} \subseteq NatRecs BY DEF NatRecs
<1>6. \A s : Honest(x, w, Did(x, s)) BY <1>4, DidHonest
<1>7. ASSUME x.st = "frozen", NEW s \in {"cancelled", "stopping"}, NEW ans, e = Did(CallRow(x, i, s), ans)
      PROVE  Honest(x, w, e)
  BY <1>4, <1>5, <1>7, RowHonest
<1> QED BY <1>3, <1>6, <1>7, RefusalHonest

\* Cancelling an attempt.
LEMMA StopHonest == ASSUME NEW x \in Evidence, NEW w, w.on = "stop", w.was \in Att, NEW d, NEW e \in CancelAttempt(x, w, d)
                    PROVE  Honest(x, w, e)
<1> DEFINE j == w.was.jr
<1>1. CancelTarget(j) \in {"tool", "round", "attempt"} BY DEF CancelTarget
<1>2. \/ e \in Refusal(x) \/ e \in CancelTool(x, j.cur) \/ e \in CancelRound(x)
      \/ \E s \in {"unknown", "cancelled"} : e = Did(x, s)
  <2> DEFINE t == CancelTarget(j)
             ans == IF j.ph = "ready_for_round" THEN "cancelled" ELSE "unknown"
  <2>1. CancelAttempt(x, w, d) =
          CASE Missing(x) \/ d # w.was -> Refusal(x)
            [] OTHER -> CASE t = "tool"                 -> CancelTool(x, j.cur)
                          [] t = "round"                -> IF x.rnd = j.rnd THEN CancelRound(x) ELSE {Did(x, "unknown")}
                          [] t = "attempt" /\ x.rnd # 0 -> IF x.st \in {"final", "blocked", "batch", "frozen"}
                                                           THEN Refusal(x) ELSE CancelRound(x)
                          [] t = "attempt" /\ x.rnd = 0 -> {Did(x, ans)}
    BY Zenon DEF CancelAttempt
  <2>2. ans \in {"unknown", "cancelled"} OBVIOUS
  <2>3. t \in {"tool", "round", "attempt"} BY <1>1
  <2> HIDE DEF t, ans, j
  <2> QED BY <2>1, <2>2, <2>3
<1>3. \A s : Honest(x, w, Did(x, s))
  <2>1. \A y, ans : MaySay(w, y, ans) BY DEF MaySay
  <2> QED BY <2>1, DidHonest
<1> QED BY <1>2, <1>3, CancelToolHonest, CancelRoundHonest, RefusalHonest


\* Whatever native does of a call that was made of it can be relied on.
LEMMA EffectsHonest ==
  ASSUME NEW x \in Evidence, NEW w \in Waits, w.on \in Native, w.on = "bind" => w.arg.d \in Verdicts, NEW e \in Effects(x, w)
  PROVE  Honest(x, w, e)
<1> DEFINE d == IF w.c.n \in DOMAIN disk THEN disk[w.c.n] ELSE NewAttempt
           Texts == {Did(x, s) : s \in {"text", "bad"}}
<1>1. Effects(x, w) =
        CASE w.on = "prepare" -> PrepareAttempt(x, w.c.n \in DOMAIN disk, app.kind)
          [] w.on = "round" -> CompleteRound(x, w)
          [] w.on = "freeze" -> FreezeBatch(x, w, d)
          [] w.on = "bind" -> BindApproval(x, w, d)
          [] w.on = "execute" -> ExecuteTool(x, w, d)
          [] w.on = "finalize" -> FinalizeAttempt(x, w, d)
          [] w.on = "discard" -> DiscardAttempt(x)
          [] w.on \in {"interrupt", "sweep"} -> InterruptAttempt(x, d)
          [] w.on = "query" -> QueryAttempt(x, w, d)
          [] w.on = "recover" -> RecoverAttempt(x, w, d)
          [] w.on = "stop" -> CancelAttempt(x, w, d)
          [] w.on = "complete" -> Texts
          [] w.on = "withdraw" -> {Did(x, "ok")}
  BY Zenon DEF Effects
<1> HIDE DEF d, Texts
<1>2. w.was \in Att BY DEF Waits
<1>3. CASE w.on = "prepare"
  <2>1. e \in PrepareAttempt(x, w.c.n \in DOMAIN disk, app.kind) BY <1>1, <1>3
  <2> QED BY <1>2, <1>3, <2>1, PrepareHonest
<1>4. CASE w.on = "round"
  <2>1. e \in CompleteRound(x, w) BY <1>1, <1>4
  <2> QED BY <1>2, <1>4, <2>1, RoundHonest
<1>5. CASE w.on = "freeze"
  <2>1. e \in FreezeBatch(x, w, d) BY <1>1, <1>5
  <2> QED BY <1>2, <1>5, <2>1, FreezeHonest
<1>6. CASE w.on = "bind"
  <2>1. e \in BindApproval(x, w, d) BY <1>1, <1>6
  <2> QED BY <1>2, <1>6, <2>1, BindHonest
<1>7. CASE w.on = "execute"
  <2>1. e \in ExecuteTool(x, w, d) BY <1>1, <1>7
  <2> QED BY <1>2, <1>7, <2>1, ExecuteHonest
<1>8. CASE w.on = "finalize"
  <2>1. e \in FinalizeAttempt(x, w, d) BY <1>1, <1>8
  <2> QED BY <1>2, <1>8, <2>1, FinalizeHonest
<1>9. CASE w.on = "discard"
  <2>1. e \in DiscardAttempt(x) BY <1>1, <1>9
  <2> QED BY <1>2, <1>9, <2>1, DiscardHonest
<1>10. CASE w.on \in {"interrupt", "sweep"}
  <2>1. e \in InterruptAttempt(x, d) BY <1>1, <1>10
  <2> QED BY <1>2, <1>10, <2>1, InterruptHonest
<1>11. CASE w.on = "query"
  <2>1. e \in QueryAttempt(x, w, d) BY <1>1, <1>11
  <2> QED BY <1>2, <1>11, <2>1, QueryHonest
<1>12. CASE w.on = "recover"
  <2>1. e \in RecoverAttempt(x, w, d) BY <1>1, <1>12
  <2> QED BY <1>2, <1>12, <2>1, RecoverHonest
<1>13. CASE w.on = "stop"
  <2>1. e \in CancelAttempt(x, w, d) BY <1>1, <1>13
  <2> QED BY <1>2, <1>13, <2>1, StopHonest
<1>14. CASE w.on = "complete"
  <2>1. \E s : e = Did(x, s) BY <1>1, <1>14 DEF Texts
  <2>2. \A s : MaySay(w, x, s) BY <1>14 DEF MaySay
  <2> QED BY <2>1, <2>2, DidHonest
<1>15. CASE w.on = "withdraw"
  <2>1. \E s : e = Did(x, s) BY <1>1, <1>15 DEF Texts
  <2>2. \A s : MaySay(w, x, s) BY <1>15 DEF MaySay
  <2> QED BY <2>1, <2>2, DidHonest
<1> QED BY <1>3, <1>4, <1>5, <1>6, <1>7, <1>8, <1>9, <1>10, <1>11, <1>12, <1>13, <1>14, <1>15 DEF Native

\* What goes wrong on the way to native and back claims nothing that is not
\* so.
LEMMA MishapsHonest ==
  ASSUME NEW x \in Evidence, NEW w \in Waits, w.on \in Native, w.on = "bind" => w.arg.d \in Verdicts, NEW e \in Mishaps(x, w)
  PROVE  Honest(x, w, e)
<1>1. \/ e = Did(x, "throw")
      \/ e = Did(x, "conflict")
      \/ \E f \in Effects(x, w) : e = Did(f.x, "throw")
      \/ w.on = "round" /\ e \in RoundLost(x, w)
      \/ w.on = "execute" /\ e \in ToolLost(x, w)
  BY DEF Mishaps
<1>2. CASE e = Did(x, "throw") BY <1>2, ThrownHonest
<1>3. CASE e = Did(x, "conflict") BY <1>3, RefusalHonest DEF Refusal
<1>4. ASSUME NEW f \in Effects(x, w), e = Did(f.x, "throw") PROVE Honest(x, w, e)
  <2>1. Honest(x, w, f) BY EffectsHonest
  <2>2. f.x \in Evidence /\ (x.st = "gone" => f.x.st = "gone") BY <2>1 DEF Honest
  <2> QED BY <1>4, <2>2, ThrownHonest
<1>5. CASE w.on = "round" /\ e \in RoundLost(x, w) BY <1>5, RoundLostHonest
<1>6. CASE w.on = "execute" /\ e \in ToolLost(x, w) BY <1>6, ToolLostHonest
<1> QED BY <1>1, <1>2, <1>3, <1>4, <1>5, <1>6

\* The same evidence for everybody else, and no attempt less gone.
LEMMA NativeMoves ==
  ASSUME nat \in [Attempts -> Evidence], NEW n \in Attempts, NEW y \in Evidence, nat[n].st = "gone" => y.st = "gone",
         nat' = [nat EXCEPT ![n] = y]
  PROVE  nat' \in [Attempts -> Evidence] /\ Gone \subseteq Gone' /\ (y.st = "gone" => n \in Gone')
<1>1. nat' \in [Attempts -> Evidence] OBVIOUS
<1>2. \A m \in Attempts : nat[m].st = "gone" => nat'[m].st = "gone" OBVIOUS
<1>3. nat'[n] = y OBVIOUS
<1> QED BY <1>1, <1>2, <1>3 DEF Gone

\* An honest answer is truthful once what it did is in the evidence.
LEMMA HonestTruthful == ASSUME NEW x, NEW w, NEW e, Honest(x, w, e), NEW G, e.x.st = "gone" => w.c.n \in G
                        PROVE  Truthful(w, e.r, G)
BY DEF Honest, Truthful

\* The numbers of the attempts that are awaited on.
LEMMA AwaitedIn == ASSUME NEW N \in 0 .. MaxAsks, NEW G, NEW a, Sound(a, N, G), NEW k \in DOMAIN a.waits
                   PROVE  a.waits[k].c.n \in Attempts /\ a.waits[k] \in Waits
<1>1. a.waits[k] \in Waits BY TakenSound
<1>2. WaitOK(a, a.waits[k], N, G) /\ Refs(a, G) /\ Doc(a.mem, N, G) BY DEF Sound
<1>3. a.waits[k].c.n \in DOMAIN a.mem
  <2>1. a.mem \in Seq(Att) BY <1>2 DEF Doc
  <2>2. a.prep # NoPrep => a.prep.n \in DOMAIN a.mem
    <3>1. a.prep # NoPrep => a.prep.n = Len(a.mem) /\ a.prep.n # 0 BY <1>2 DEF Refs
    <3> QED BY <2>1, <3>1
  <2> QED BY <1>2, <2>2 DEF WaitOK, Live
<1>4. a.mem \in Seq(Att) /\ Len(a.mem) <= N /\ MaxAsks \in Nat BY <1>2, BoundsAssumption DEF Doc
<1> QED BY <1>1, <1>3, <1>4 DEF Attempts

----------------------------------------------------------------------------
(***************************************************************************)
(* Every step of the system keeps the invariant.                            *)
(***************************************************************************)

LEMMA InvHas == ASSUME IInv
                PROVE  /\ asks \in 0 .. MaxAsks /\ asks \in Nat /\ MaxAsks \in Nat
                       /\ nat \in [Attempts -> Evidence] /\ Doc(disk, asks, Gone) /\ Sound(app, asks, Gone)
BY BoundsAssumption DEF IInv

\* The invariant with other evidence, less of which is there.
LEMMA InvMoves == ASSUME IInv, nat' \in [Attempts -> Evidence], Gone \subseteq Gone', UNCHANGED <<disk, asks>>,
                         Sound(app', asks, Gone')
                  PROVE  IInv'
<1>1. Doc(disk, asks, Gone') BY InvHas, DocGrows
<1>2. asks' = asks /\ disk' = disk OBVIOUS
<1>3. asks' \in 0 .. MaxAsks BY <1>2, InvHas
<1> QED BY <1>1, <1>2, <1>3 DEF IInv

\* An answer to one await changes the evidence of its attempt only.
LEMMA OneAnswer ==
  ASSUME IInv, NEW k \in DOMAIN app.waits, NEW w, w = app.waits[k], w.on \in Native, NEW e, Honest(nat[w.c.n], w, e),
         nat' = [nat EXCEPT ![w.c.n] = e.x], app' = NativeAnswer(Taken(app, k), w, e.r), UNCHANGED <<disk, asks>>
  PROVE  IInv'
<1>1. w.c.n \in Attempts BY InvHas, AwaitedIn
<1>2. e.x \in Evidence /\ (nat[w.c.n].st = "gone" => e.x.st = "gone") BY DEF Honest
<1>3. nat' \in [Attempts -> Evidence] /\ Gone \subseteq Gone' /\ (e.x.st = "gone" => w.c.n \in Gone')
  BY <1>1, <1>2, InvHas, NativeMoves
<1>4. Sound(app, asks, Gone') BY <1>3, InvHas, SoundGrows
<1>5. Answering(Taken(app, k), w, asks, Gone') BY <1>4, InvHas, TakenAnswering
<1>6. Truthful(w, e.r, Gone') BY <1>3, HonestTruthful
<1>7. Sound(app', asks, Gone') BY <1>5, <1>6, InvHas, NativeAnswerSound
<1> QED BY <1>3, <1>7, InvMoves

\* Native answers.
LEMMA NativeAnsweredStep == ASSUME IInv, NativeAnswered PROVE IInv'
<1>1. PICK k \in DOMAIN app.waits :
        /\ app.waits[k].on \in Native
        /\ \E e \in Effects(nat[app.waits[k].c.n], app.waits[k]) \cup Mishaps(nat[app.waits[k].c.n], app.waits[k]) :
             /\ nat' = [nat EXCEPT ![app.waits[k].c.n] = e.x]
             /\ app' = NativeAnswer(Taken(app, k), app.waits[k], e.r)
        /\ UNCHANGED <<disk, asks>>
  BY DEF NativeAnswered
<1> DEFINE w == app.waits[k]
           x == nat[w.c.n]
<1>2. PICK e \in Effects(x, w) \cup Mishaps(x, w) :
        nat' = [nat EXCEPT ![w.c.n] = e.x] /\ app' = NativeAnswer(Taken(app, k), w, e.r)
  BY <1>1
<1>3. w.c.n \in Attempts /\ w \in Waits BY InvHas, AwaitedIn
<1>4. x \in Evidence BY <1>3, InvHas
<1>5. w.on = "bind" => w.arg.d \in Verdicts BY InvHas DEF Sound, WaitOK
<1>6. w.on \in Native /\ UNCHANGED <<disk, asks>> BY <1>1
<1> HIDE DEF x, w
<1>7. Honest(x, w, e) BY <1>2, <1>3, <1>4, <1>5, <1>6, EffectsHonest, MishapsHonest
<1>8. w = app.waits[k] /\ x = nat[w.c.n] BY DEF w, x
<1>9. Honest(nat[w.c.n], w, e) BY <1>7, <1>8
<1> QED BY <1>2, <1>6, <1>8, <1>9, OneAnswer

\* Native launches work.
LEMMA NativeLaunchedStep == ASSUME IInv, NativeLaunched PROVE IInv'
<1>1. PICK w \in Range(app.waits) :
        /\ \E y \in Launches(nat[w.c.n], w) : nat' = [nat EXCEPT ![w.c.n] = y]
        /\ UNCHANGED <<app, disk, asks>>
  BY DEF NativeLaunched
<1>2. PICK k \in DOMAIN app.waits : w = app.waits[k] BY DEF Range
<1>3. w.c.n \in Attempts /\ w \in Waits BY <1>2, InvHas, AwaitedIn
<1>4. PICK y \in Launched(nat[w.c.n], w, disk[w.c.n]) : nat' = [nat EXCEPT ![w.c.n] = y] BY <1>1 DEF Launches
<1>5. y \in Evidence /\ (nat[w.c.n].st = "gone" => y.st = "gone") BY <1>3, <1>4, InvHas, LaunchedTyped
<1>6. nat' \in [Attempts -> Evidence] /\ Gone \subseteq Gone' BY <1>3, <1>4, <1>5, InvHas, NativeMoves
<1>7. Sound(app, asks, Gone') BY <1>6, InvHas, SoundGrows
<1>8. Sound(app', asks, Gone') BY <1>1, <1>7
<1> QED BY <1>1, <1>6, <1>8, InvMoves

\* The user decides on calls.
LEMMA UserDecidesStep == ASSUME IInv, UserDecides PROVE IInv'
<1>1. PICK k \in DOMAIN app.waits :
        /\ app.waits[k].on = "approve"
        /\ \E open \in Listed({i \in DOMAIN app.waits[k].was.jr.calls :
                                Open(app.waits[k].was.jr.calls[i]) /\ Pending(app.waits[k].was.jr.calls[i])}) :
             \E d \in [DOMAIN open -> {"allowed", "denied"}] :
               app' = ApproveAnswered(Taken(app, k), app.waits[k], [m \in DOMAIN open |-> [i |-> open[m], d |-> d[m]]])
        /\ UNCHANGED <<disk, nat, asks>>
  BY Zenon DEF UserDecides
<1> DEFINE w == app.waits[k]
           cs == w.was.jr.calls
           S == {i \in DOMAIN cs : Open(cs[i]) /\ Pending(cs[i])}
<1>2. PICK open \in Listed(S) :
        \E d \in [DOMAIN open -> Verdicts] :
          app' = ApproveAnswered(Taken(app, k), w, [m \in DOMAIN open |-> [i |-> open[m], d |-> d[m]]])
  BY <1>1, Zenon DEF Verdicts
<1>3. PICK d \in [DOMAIN open -> Verdicts] :
        app' = ApproveAnswered(Taken(app, k), w, [m \in DOMAIN open |-> [i |-> open[m], d |-> d[m]]])
  BY <1>2, Zenon
<1>4. Answering(Taken(app, k), w, asks, Gone) BY InvHas, TakenAnswering
<1>5. asks \in Nat BY InvHas
<1>6. Sound(app', asks, Gone)
  <2>1. Sound(ApproveAnswered(Taken(app, k), w, [m \in DOMAIN open |-> [i |-> open[m], d |-> d[m]]]), asks, Gone)
    BY <1>1, <1>4, <1>5, UserAnswers, Zenon
  <2> QED BY <1>3, <2>1, Zenon
<1>7. Gone' = Gone /\ nat' = nat BY <1>1 DEF Gone
<1>8. Sound(app', asks, Gone') /\ nat' \in [Attempts -> Evidence] /\ Gone \subseteq Gone'
  BY <1>6, <1>7, InvHas
<1>9. UNCHANGED <<disk, asks>> BY <1>1
<1> QED BY <1>8, <1>9, InvMoves


\* The save that is answered next is one of the awaits.
LEMMA FirstSaveIn == ASSUME NEW a \in Apps
                     PROVE  FirstSave(a) # 0 => FirstSave(a) \in DOMAIN a.waits /\ a.waits[FirstSave(a)].doc # << >>
<1> DEFINE I == {i \in 1 .. Len(a.waits) : a.waits[i].doc # << >>}
<1>1. FirstSave(a) = IF I # {} THEN Min(I) ELSE 0 BY DEF FirstSave, SelectInSeq
<1>2. a.waits \in Seq(Waits) BY DEF Apps
<1>3. I \in SUBSET Nat /\ I \subseteq DOMAIN a.waits /\ \A i \in I : a.waits[i].doc # << >> BY <1>2
<1> HIDE DEF I
<1>4. I # {} => Min(I) \in I BY <1>3, LeastIn
<1> QED BY <1>1, <1>3, <1>4

\* A document on its way is one that may be on disk.
LEMMA OnItsWayDoc == ASSUME NEW N \in Nat, NEW G, NEW a, Sound(a, N, G), FirstSave(a) # 0
                     PROVE  LET k == FirstSave(a) IN k \in DOMAIN a.waits /\ a.waits[k].on \in Saves /\ Doc(a.waits[k].doc, N, G)
<1> DEFINE k == FirstSave(a)
<1>1. a \in Apps BY DEF Sound
<1>2. k \in DOMAIN a.waits /\ a.waits[k].doc # << >> BY <1>1, FirstSaveIn
<1> HIDE DEF k
<1>3. WaitOK(a, a.waits[k], N, G) BY <1>2 DEF Sound
<1>4. a.waits[k].on \in Saves /\ Doc(a.waits[k].doc, N, G) BY <1>2, <1>3 DEF WaitOK
<1> QED BY <1>2, <1>4 DEF k

\* The store answers a save.
LEMMA SaveAnsweredStep == ASSUME IInv, SaveAnswered PROVE IInv'
<1> DEFINE k == FirstSave(app)
           w == app.waits[k]
<1>1. /\ k # 0 /\ disk' \in {disk, w.doc} /\ UNCHANGED <<nat, asks>>
      /\ \E s \in Outcomes : app' = SaveAnswer(Taken(app, k), w, s)
  BY DEF SaveAnswered, Outcomes
<1>2. PICK s \in Outcomes : app' = SaveAnswer(Taken(app, k), w, s) BY <1>1
<1>3. k \in DOMAIN app.waits /\ w.on \in Saves /\ Doc(w.doc, asks, Gone) BY <1>1, InvHas, OnItsWayDoc
<1> HIDE DEF k
<1>4. Answering(Taken(app, k), w, asks, Gone) BY <1>3, InvHas, TakenAnswering
<1> HIDE DEF w
<1>5. Sound(app', asks, Gone) BY <1>2, <1>3, <1>4, InvHas, SaveAnswerSound
<1>6. Gone' = Gone /\ asks' = asks /\ nat' = nat BY <1>1 DEF Gone
<1>7. Doc(disk', asks, Gone)
  <2>1. disk' = disk \/ disk' = w.doc BY <1>1
  <2>2. CASE disk' = disk BY <2>2, InvHas
  <2>3. CASE disk' = w.doc BY <1>3, <2>3
  <2> QED BY <2>1, <2>2, <2>3
<1> QED BY <1>5, <1>6, <1>7, InvHas DEF IInv

\* A command counts as one more attempt asked for.
LEMMA Asked1 == ASSUME IInv, Command
                PROVE  /\ asks' = asks + 1 /\ asks' \in 0 .. MaxAsks /\ asks' \in Nat /\ Gone' = Gone
                       /\ nat' = nat /\ disk' = disk
                       /\ Sound(app, asks', Gone) /\ Len(app.mem) < asks' /\ Doc(disk, asks', Gone)
<1>1. asks' = asks + 1 /\ asks < MaxAsks /\ nat' = nat /\ disk' = disk BY DEF Command
<1>2. asks' \in 0 .. MaxAsks /\ asks' \in Nat /\ asks <= asks' BY <1>1, InvHas
<1>3. Gone' = Gone BY <1>1 DEF Gone
<1>4. Sound(app, asks', Gone) /\ Len(app.mem) < asks' BY <1>1, InvHas, RoomForOne
<1>5. Doc(disk, asks', Gone) BY <1>2, InvHas, DocGrows
<1> QED BY <1>1, <1>2, <1>3, <1>4, <1>5

\* A command of the user.
LEMMA CommandStep ==
  ASSUME IInv, \/ Send \/ Retry \/ Resume \/ AbandonAndRetry \/ RetryPersistence \/ RetryCommit
               \/ Cancel \/ Leave \/ Reopen
  PROVE  IInv'
<1>1. Command
  BY DEF Send, Retry, Resume, AbandonAndRetry, RetryPersistence, RetryCommit, Cancel, Leave, Reopen, Asking, Wishing
<1>2. asks' \in Nat /\ Sound(app, asks', Gone) /\ Len(app.mem) < asks' BY <1>1, Asked1
<1>3. Sound(app', asks', Gone)
  <2>1. CASE Send BY <1>2, <2>1, SendStep
  <2>2. CASE Retry BY <1>2, <2>2, RetryStep
  <2>3. CASE Resume BY <1>2, <2>3, ResumeStep
  <2>4. CASE AbandonAndRetry BY <1>2, <2>4, AbandonStep
  <2>5. CASE RetryPersistence BY <1>2, <2>5, RetryPersistenceStep
  <2>6. CASE RetryCommit BY <1>2, <2>6, RetryCommitStep
  <2>7. CASE Cancel \/ Leave BY <1>2, <2>7, CancelStep
  <2>8. CASE Reopen BY <1>2, <2>8, ReopenStep
  <2> QED BY <2>1, <2>2, <2>3, <2>4, <2>5, <2>6, <2>7, <2>8
<1> QED BY <1>1, <1>3, Asked1, InvHas DEF IInv


\* Nothing is under way in a process that has just started.
LEMMA FreshSound ==
  ASSUME NEW N \in Nat, NEW G, NEW kind \in Kinds, NEW doc, Doc(doc, N, G), NEW ph \in Phases, NEW n \in 0 .. Len(doc),
         ph \in {"retryable", "resume_available"} => n # 0
  PROVE  Sound(Fresh(kind, doc, ph, n), N, G)
<1> DEFINE a == Fresh(kind, doc, ph, n)
<1>1. /\ a.kind = kind /\ a.phase = ph /\ a.at = n /\ a.epoch = 0 /\ a.mem = doc /\ a.waits = << >> /\ a.run = 0
      /\ a.slot = NoPending /\ a.ack = NoPending /\ a.prep = NoPrep /\ a.term = NoTerm /\ a.act = 0 /\ a.commit = 0
  BY DEF Fresh
<1>2. doc \in Seq(Att) BY DEF Doc
<1>3. << >> \in Seq(Waits) /\ n \in Nat /\ n <= Len(doc) /\ 0 \in Nat
  <2>1. Len(doc) \in Nat BY <1>2
  <2> QED BY <2>1
<1>4. a \in Apps
  <2> DEFINE yes == TRUE
             no == FALSE
  <2>1. yes \in BOOLEAN /\ no \in BOOLEAN OBVIOUS
  <2>2. a = [kind |-> kind, phase |-> ph, at |-> n, epoch |-> 0, mem |-> doc, waits |-> << >>,
             run |-> 0, runOf |-> 0, auth |-> 0, slot |-> NoPending, ack |-> NoPending,
             prep |-> NoPrep, term |-> NoTerm, act |-> 0, commit |-> 0, recommit |-> no,
             req |-> 0, flight |-> 0, ok |-> yes, retrying |-> no, read |-> 0]
    BY Zenon DEF Fresh
  <2> HIDE DEF a, yes, no
  <2> QED BY <1>2, <1>3, <2>1, <2>2, NoneTyped DEF Apps
<1> HIDE DEF a
<1>5. Refs(a, G) BY <1>1, <1>3 DEF Refs
<1>6. DOMAIN a.waits = {} BY <1>1
<1>7. Pairs(a, N) BY <1>6 DEF Pairs
<1>8. Doc(a.mem, N, G) BY <1>1
<1>9. Sound(a, N, G) BY <1>4, <1>5, <1>6, <1>7, <1>8 DEF Sound
<1> QED BY <1>9 DEF a

\* What the next launch makes of an attempt it finds open.
LEMMA HydratedTyped == ASSUME NEW att \in Att, NEW n, NEW G, Let_go(att, n, G)
                       PROVE  Hydrated(att) \in Att /\ Let_go(Hydrated(att), n, G)
<1>1. CASE ~Unfinished(att) BY <1>1 DEF Hydrated
<1>2. CASE Unfinished(att)
  <2> DEFINE r == att.residue \/ IsAgent(att)
             b == [att EXCEPT !.st = "failed", !.code = "interrupted", !.residue = r]
  <2>1. Hydrated(att) = b BY <1>2, Zenon DEF Hydrated
  <2>2. r \in BOOLEAN /\ (~r => ~att.residue) BY AttHas DEF IsAgent
  <2> HIDE DEF r
  <2>3. "failed" \in Status /\ "interrupted" \in Codes BY DEF Status, Codes
  <2>4. b \in Att /\ b.jr = att.jr /\ b.residue = r BY <2>2, <2>3 DEF Att
  <2> HIDE DEF b
  <2>5. Let_go(b, n, G) BY <2>2, <2>4 DEF Let_go
  <2> QED BY <2>1, <2>4, <2>5
<1> QED BY <1>1, <1>2

Reread(d) == [n \in DOMAIN d |-> Hydrated(d[n])]

\* A document read back after a launch.
LEMMA RereadDoc == ASSUME NEW N \in Nat, NEW G, NEW d, Doc(d, N, G) PROVE Doc(Reread(d), N, G)
<1>1. d \in Seq(Att) /\ Len(d) \in Nat /\ Len(d) <= N /\ DOMAIN d = 1 .. Len(d) BY DEF Doc
<1>2. ASSUME NEW n \in 1 .. Len(d) PROVE Hydrated(d[n]) \in Att /\ Let_go(Hydrated(d[n]), n, G)
  <2>1. d[n] \in Att BY <1>1
  <2>2. Let_go(d[n], n, G) BY <1>1 DEF Doc
  <2> QED BY <2>1, <2>2, HydratedTyped
<1> DEFINE m == Reread(d)
<1>3. m = [n \in 1 .. Len(d) |-> Hydrated(d[n])] BY <1>1 DEF Reread
<1> HIDE DEF m
<1>4. m \in [1 .. Len(d) -> Att] BY <1>2, <1>3
<1>5. m \in Seq(Att) /\ Len(m) = Len(d) /\ DOMAIN m = 1 .. Len(d) BY <1>1, <1>4, FunIsSeq
<1>6. \A n \in DOMAIN m : Let_go(m[n], n, G) BY <1>2, <1>3, <1>5
<1>7. Doc(m, N, G) BY <1>1, <1>5, <1>6 DEF Doc
<1> QED BY <1>7 DEF m

\* What the death of their owners leaves of a round and of a call.
Orphan(c) == IF c.rec \in Working THEN [c EXCEPT !.rec = "unknown"] ELSE c
Orphaned(cs) == [k \in DOMAIN cs |-> Orphan(cs[k])]

\* The calls of a process that is gone.
LEMMA OrphanedTyped == ASSUME NEW cs \in Seq(NatCall)
                       PROVE  /\ Orphaned(cs) \in Seq(NatCall)
                              /\ cs \in Seq(CallRec) => Orphaned(cs) \in Seq(CallRec)
<1>1. Len(cs) \in Nat /\ DOMAIN cs = 1 .. Len(cs) OBVIOUS
<1>2. ASSUME NEW k \in 1 .. Len(cs) PROVE Orphan(cs[k]) \in NatCall
  <2>1. cs[k] \in NatCall OBVIOUS
  <2> QED BY <2>1 DEF Orphan, NatCall, NatRecs
<1>3. ASSUME cs \in Seq(CallRec), NEW k \in 1 .. Len(cs) PROVE Orphan(cs[k]) \in CallRec
  <2>1. cs[k] \in CallRec BY <1>3
  <2>2. cs[k].rec \notin Working BY <2>1 DEF CallRec, Working
  <2> QED BY <2>1, <2>2 DEF Orphan
<1> DEFINE m == Orphaned(cs)
<1>4. m = [k \in 1 .. Len(cs) |-> Orphan(cs[k])] BY <1>1 DEF Orphaned
<1> HIDE DEF m
<1>5. m \in [1 .. Len(cs) -> NatCall] BY <1>2, <1>4
<1>6. m \in Seq(NatCall) BY <1>1, <1>5, FunIsSeq
<1>7. ASSUME cs \in Seq(CallRec) PROVE m \in Seq(CallRec)
  <2>1. m \in [1 .. Len(cs) -> CallRec] BY <1>3, <1>4, <1>7
  <2> QED BY <1>1, <2>1, FunIsSeq
<1> QED BY <1>6, <1>7 DEF m

\* Evidence of work whose owner is gone.
LEMMA OwnerLostTyped == ASSUME NEW x \in Evidence, NEW s \in InDoubt
                        PROVE  OwnerLost(x, s) \in Evidence /\ (x.st = "gone" => OwnerLost(x, s).st = "gone")
<1> DEFINE st == IF x.st \in Working THEN s ELSE x.st
           cs == Orphaned(x.calls)
<1>1. OwnerLost(x, s) = [x EXCEPT !.st = st, !.calls = cs]
  <2>1. OwnerLost(x, s) = [x EXCEPT !.st = IF @ \in Working THEN s ELSE @, !.calls = Orphaned(@)]
    BY Zenon DEF OwnerLost, Orphaned, Orphan
  <2> HIDE DEF cs
  <2>2. [x EXCEPT !.st = IF @ \in Working THEN s ELSE @, !.calls = Orphaned(@)] = [x EXCEPT !.st = st, !.calls = cs]
    BY DEF cs, Evidence
  <2> QED BY <2>1, <2>2
<1>2. x.calls \in Seq(NatCall) /\ (x.st = "batch" => x.calls \in Seq(CallRec)) /\ x.st \in Stages BY EvidenceHas
<1>3. cs \in Seq(NatCall) /\ (x.st = "batch" => cs \in Seq(CallRec)) BY <1>2, OrphanedTyped
<1>4. st \in Stages /\ (st = "batch" => x.st = "batch") /\ (x.st = "gone" => st = "gone")
  BY <1>2 DEF Stages, Working, InDoubt
<1> DEFINE y == [x EXCEPT !.st = st, !.calls = cs]
<1> HIDE DEF cs, st
<1>5. y \in [st : Stages, rnd : 0 .. MaxRound, calls : NatCalls, own : Nat, over : BOOLEAN] /\ y.st = st /\ y.calls = cs
  BY <1>3, <1>4, NatCallsAre DEF Evidence
<1> HIDE DEF y
<1>6. y \in Evidence BY <1>3, <1>4, <1>5, CallsAre DEF Evidence
<1> QED BY <1>1, <1>4, <1>5, <1>6 DEF y


\* The evidence a process that dies may leave.
LEMMA LeavingsTyped ==
  ASSUME IInv, NEW w \in Range(app.waits), w.on \in Native, NEW v \in Leavings(w)
  PROVE  v \in [Attempts -> Evidence] /\ \A n \in Attempts : nat[n].st = "gone" => v[n].st = "gone"
<1>1. PICK k \in DOMAIN app.waits : w = app.waits[k] BY DEF Range
<1>2. w.c.n \in Attempts /\ w \in Waits BY <1>1, InvHas, AwaitedIn
<1>3. w.on = "bind" => w.arg.d \in Verdicts BY <1>1, InvHas DEF Sound, WaitOK
<1> DEFINE x == nat[w.c.n]
<1>4. nat \in [Attempts -> Evidence] /\ x \in Evidence BY <1>2, InvHas
<1>5. \/ \E e \in Effects(x, w) \cup Mishaps(x, w) : v = [nat EXCEPT ![w.c.n] = e.x]
      \/ \E y \in Launches(x, w) : v = [nat EXCEPT ![w.c.n] = y]
  BY DEF Leavings
<1> SUFFICES ASSUME NEW y, y \in Evidence, x.st = "gone" => y.st = "gone", v = [nat EXCEPT ![w.c.n] = y]
             PROVE  v \in [Attempts -> Evidence] /\ \A n \in Attempts : nat[n].st = "gone" => v[n].st = "gone"
  <2> HIDE DEF x
  <2>1. ASSUME NEW e \in Effects(x, w) \cup Mishaps(x, w) PROVE e.x \in Evidence /\ (x.st = "gone" => e.x.st = "gone")
    <3>1. Honest(x, w, e) BY <1>2, <1>3, <1>4, EffectsHonest, MishapsHonest
    <3> QED BY <3>1 DEF Honest
  <2>2. ASSUME NEW y \in Launches(x, w) PROVE y \in Evidence /\ (x.st = "gone" => y.st = "gone")
    BY <1>2, <1>4, LaunchedTyped DEF Launches
  <2> QED BY <1>5, <2>1, <2>2
<1> QED BY <1>2, <1>4

\* The process ends at any point, and is launched again.
LEMMA RelaunchStep == ASSUME IInv, Relaunch PROVE IInv'
<1> DEFINE k == FirstSave(app)
           left == {nat} \cup UNION {Leavings(w) : w \in {w \in Range(app.waits) : w.on \in Native}}
           At(doc) == IF Shown(doc) = "idle" THEN 0 ELSE Len(doc)
           Boot(doc) == Fresh(app.kind, doc, Shown(doc), At(doc))
<1>1. /\ \E d \in {disk} \cup (IF k = 0 THEN {} ELSE {app.waits[k].doc}) :
           disk' = Reread(d) /\ app' = Drain(Boot(Reread(d)), 1)
      /\ \E v \in left, s \in InDoubt : nat' = [n \in Attempts |-> OwnerLost(v[n], s)]
      /\ asks' = asks
  BY Zenon DEF Relaunch, Reread
<1>2. PICK d \in {disk} \cup (IF k = 0 THEN {} ELSE {app.waits[k].doc}) :
        disk' = Reread(d) /\ app' = Drain(Boot(Reread(d)), 1)
  BY <1>1, Zenon
<1>3. PICK v \in left, s \in InDoubt : nat' = [n \in Attempts |-> OwnerLost(v[n], s)] BY <1>1, Zenon
<1>4. asks' = asks /\ asks \in Nat BY <1>1, InvHas
<1>5. Doc(d, asks, Gone)
  <2>1. k # 0 => Doc(app.waits[k].doc, asks, Gone) BY InvHas, OnItsWayDoc
  <2>2. d = disk \/ (k # 0 /\ d = app.waits[k].doc) BY <1>2
  <2> HIDE DEF k
  <2> QED BY <2>1, <2>2, InvHas
<1>6. v \in [Attempts -> Evidence] /\ \A n \in Attempts : nat[n].st = "gone" => v[n].st = "gone"
  <2>1. v = nat \/ \E w \in Range(app.waits) : w.on \in Native /\ v \in Leavings(w) BY <1>3
  <2>2. CASE v = nat BY <2>2, InvHas
  <2>3. ASSUME NEW w \in Range(app.waits), w.on \in Native, v \in Leavings(w)
        PROVE  v \in [Attempts -> Evidence] /\ \A n \in Attempts : nat[n].st = "gone" => v[n].st = "gone"
    BY <2>3, LeavingsTyped
  <2> QED BY <2>1, <2>2, <2>3
<1> HIDE DEF k, left
<1>7. nat' \in [Attempts -> Evidence] /\ \A n \in Attempts : nat[n].st = "gone" => nat'[n].st = "gone"
  <2>1. \A n \in Attempts : v[n] \in Evidence BY <1>6
  <2>2. \A n \in Attempts : OwnerLost(v[n], s) \in Evidence /\ (v[n].st = "gone" => OwnerLost(v[n], s).st = "gone")
    BY <2>1, OwnerLostTyped
  <2> QED BY <1>3, <1>6, <2>2
<1>8. Gone \subseteq Gone' BY <1>7 DEF Gone
<1>9. Doc(d, asks, Gone') BY <1>4, <1>5, <1>8, DocGrows
<1> DEFINE doc == Reread(d)
<1>10. Doc(doc, asks, Gone') BY <1>4, <1>9, RereadDoc
<1> HIDE DEF doc
<1>11. Sound(Boot(doc), asks, Gone')
  <2>1. app.kind \in Kinds BY InvHas DEF Sound, Apps
  <2>2. Shown(doc) \in {"idle", "resume_available", "retryable"} /\ (Len(doc) = 0 => Shown(doc) = "idle") BY ShownIs
  <2>3. Shown(doc) \in Phases BY <2>2 DEF Phases, Resting
  <2>4. Len(doc) \in Nat BY <1>10 DEF Doc
  <2>5. At(doc) \in 0 .. Len(doc) /\ (Shown(doc) \in {"retryable", "resume_available"} => At(doc) # 0) BY <2>2, <2>4
  <2> HIDE DEF At
  <2> QED BY <1>4, <1>10, <2>1, <2>3, <2>5, FreshSound
<1> HIDE DEF Boot
<1>12. disk' = doc /\ app' = Drain(Boot(doc), 1) BY <1>2 DEF doc
<1>13. Sound(app', asks, Gone') BY <1>4, <1>11, <1>12, DrainSound
<1>14. Doc(disk', asks, Gone') BY <1>10, <1>12
<1>15. asks' \in 0 .. MaxAsks BY <1>4, InvHas
<1> QED BY <1>4, <1>7, <1>13, <1>14, <1>15 DEF IInv
----------------------------------------------------------------------------
(***************************************************************************)
(* The theorems.                                                            *)
(***************************************************************************)

LEMMA Initially == ASSUME Init PROVE IInv
<1>1. PICK kind \in Kinds : app = Fresh(kind, << >>, "idle", 0) BY DEF Init, Kinds
<1>2. disk = << >> /\ asks = 0 /\ nat = [n \in Attempts |-> Untouched] BY DEF Init
<1>3. Doc(<< >>, 0, Gone) BY DEF Doc
<1>4. "idle" \in Phases /\ 0 \in 0 .. Len(<< >>) BY DEF Phases
<1>5. Sound(app, 0, Gone) BY <1>1, <1>3, <1>4, FreshSound
<1>6. Untouched \in Evidence
  <2> DEFINE no == FALSE
  <2>1. Untouched = [st |-> "none", rnd |-> 0, calls |-> << >>, own |-> 0, over |-> no] BY DEF Untouched
  <2>2. no \in BOOLEAN OBVIOUS
  <2> HIDE DEF no
  <2>3. << >> \in NatCalls /\ "none" \in Stages /\ 0 \in 0 .. MaxRound BY RoundAssumption, NatCallsAre DEF Stages
  <2> QED BY <2>1, <2>2, <2>3 DEF Evidence
<1>7. nat \in [Attempts -> Evidence] BY <1>2, <1>6
<1>8. asks \in 0 .. MaxAsks BY <1>2, BoundsAssumption
<1> QED BY <1>2, <1>3, <1>5, <1>7, <1>8 DEF IInv

\* Every step of the specification keeps the invariant.
LEMMA Inductive == ASSUME IInv, [Next]_vars PROVE IInv'
<1>1. CASE SaveAnswered BY <1>1, SaveAnsweredStep
<1>2. CASE NativeLaunched BY <1>2, NativeLaunchedStep
<1>3. CASE NativeAnswered BY <1>3, NativeAnsweredStep
<1>4. CASE UserDecides BY <1>4, UserDecidesStep
<1>5. CASE \/ Send \/ Retry \/ Resume \/ AbandonAndRetry \/ RetryPersistence \/ RetryCommit
           \/ Cancel \/ Leave \/ Reopen
  BY <1>5, CommandStep
<1>6. CASE Relaunch BY <1>6, RelaunchStep
<1>7. CASE UNCHANGED vars
  <2>1. app' = app /\ disk' = disk /\ nat' = nat /\ asks' = asks BY <1>7 DEF vars
  <2>2. Gone' = Gone BY <2>1 DEF Gone
  <2> QED BY <2>1, <2>2, InvHas DEF IInv
<1> QED BY <1>1, <1>2, <1>3, <1>4, <1>5, <1>6, <1>7 DEF Next

\* The controller's continuations, whichever answer they get and in whichever
\* order, never leave the journals of an attempt.
THEOREM Invariant == Spec => []IInv
<1>1. Init => IInv BY Initially
<1>2. IInv /\ [Next]_vars => IInv' BY Inductive
<1> QED BY <1>1, <1>2, PTL DEF Spec

\* A document in the invariant is one of the type invariant.
LEMMA DocsAre == ASSUME NEW N \in Nat, NEW G, NEW doc, Doc(doc, N, G)
                 PROVE  doc \in Documents /\ \A n \in DOMAIN doc : doc[n].jr.cur <= Len(doc[n].jr.calls)
<1>1. doc \in Seq(Att) BY DEF Doc
<1>2. \A att \in Att : att.jr \in Journals /\ att.jr.cur <= Len(att.jr.calls)
  <2> TAKE att \in Att
  <2> QED BY AttHas, JournalHas
<1> DEFINE R == [st : Status, code : {"none", "refused", "other", "interrupted"}, jr : Journals, residue : BOOLEAN]
<1>3. Att \subseteq R BY <1>2 DEF Att, Codes
<1> HIDE DEF R
<1>4. doc \in Seq(R) BY <1>1, <1>3
<1> QED BY <1>1, <1>2, <1>4 DEF R, Documents

\* What the controller, the chat store and the document hold is well formed:
\* the cursor of a journal stays in its batch, a run is never ahead of the epoch
\* it was started in, and what the controller points at is in the store.
THEOREM TypeCorrect == Spec => []TypeOK
<1>1. IInv => TypeOK
  <2> SUFFICES ASSUME IInv PROVE TypeOK OBVIOUS
  <2>1. Sound(app, asks, Gone) /\ Doc(disk, asks, Gone) /\ asks \in Nat BY InvHas
  <2>2. app \in Apps /\ Doc(app.mem, asks, Gone) /\ Refs(app, Gone) BY <2>1 DEF Sound
  <2>3. app.mem \in Seq(Att) /\ Len(app.mem) \in Nat /\ DOMAIN app.mem = 1 .. Len(app.mem) BY <2>2 DEF Doc
  <2>4. app.mem \in Documents /\ disk \in Documents /\ \A n \in DOMAIN app.mem : app.mem[n].jr.cur <= Len(app.mem[n].jr.calls)
    BY <2>1, <2>2, DocsAre
  <2>5. app.phase \in Phases /\ app.at \in Nat /\ app.act \in Nat /\ app.commit \in Nat BY <2>2 DEF Apps
  <2>6. app.at \in 0 .. Len(app.mem) BY <2>2, <2>3, <2>5 DEF Refs
  <2>7. app.run # 0 => app.run <= app.epoch /\ app.runOf \in DOMAIN app.mem BY <2>2 DEF Refs, Live
  <2>8. {app.act, app.commit} \subseteq 0 .. Len(app.mem)
    <3>1. app.act # 0 => app.act \in DOMAIN app.mem BY <2>2 DEF Refs, Live
    <3>2. app.commit # 0 => app.commit \in DOMAIN app.mem BY <2>2 DEF Refs, Live
    <3> QED BY <2>3, <2>5, <3>1, <3>2
  <2>9. app.commit # 0 => app.mem[app.commit].st = "completed" BY <2>2 DEF Refs
  <2> QED BY <2>4, <2>5, <2>6, <2>7, <2>8, <2>9 DEF TypeOK, Phases
<1> QED BY <1>1, Invariant, PTL

\* An attempt whose end is on disk leaves the outbox only after native threw
\* its evidence away, whatever is lost, refused, repeated or cut off by the
\* death of the process.
THEOREM LetGoOnlyWhenGone == Spec => []NativeReleased
<1>1. IInv => NativeReleased
  <2> SUFFICES ASSUME IInv, NEW n \in DOMAIN disk, disk[n].jr.ph \in Terminal, ~disk[n].residue
               PROVE  nat[n].st \in {"none", "gone"}
    BY DEF NativeReleased
  <2>1. n \in Gone BY InvHas DEF Doc, Let_go
  <2> QED BY <2>1 DEF Gone
<1> QED BY <1>1, Invariant, PTL
=============================================================================
