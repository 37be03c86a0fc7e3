----------------------- MODULE CompletionActionProofs -----------------------
(***************************************************************************)
(* The action properties of Completion, for every number of commands, of   *)
(* faults and of rounds and every set of batches: native is asked only     *)
(* for what is on disk, and only by the run of the current epoch.          *)
(*                                                                         *)
(* Both are about what a step asks for.  Calm(a, S) says of a controller   *)
(* that every call with an effect it waits for is one of S.work, and that  *)
(* whatever could ask for another one is a save: the one of the slot, or   *)
(* the mark of a direct turn.  Every operator of the controller keeps it,  *)
(* for the same S; the exceptions are Continue and MarkAnswered, which     *)
(* add one call when such a save was answered.  Calm also says that the    *)
(* attempts S.kept stay in memory and in every save, and which saves an    *)
(* attempt can be missing from: those asked for before it was prepared,    *)
(* and that the epoch stays among S.eps, which holds every later one.      *)
(***************************************************************************)
EXTENDS CompletionProofs
----------------------------------------------------------------------------
(***************************************************************************)
(* The invariant                                                           *)
(***************************************************************************)
Fields == {"kind", "phase", "at", "epoch", "mem", "waits", "run", "runOf", "auth", "slot", "ack", "prep",
           "term", "act", "commit", "recommit", "req", "flight", "ok", "retrying", "read"}
WaitFields == {"on", "c", "p", "doc", "was", "arg"}
AttFields == {"st", "code", "jr", "residue"}

\* The calls that are asked for once the journal announces them.
Work == {"round", "freeze", "bind", "execute", "finalize", "interrupt", "stop", "complete"}

\* What is asked for when the save of "p" is answered is asked for by a
\* checkpoint.
Allowed(then, kind) == then.at \in {"launched", "intended"} => kind = "checkpoint"
Looks(p) == {"ep", "n", "tx", "kind", "then"} \subseteq DOMAIN p /\ Allowed(p.then, p.kind)
Ends(p) == Looks(p) /\ p.then = NoThen

\* An attempt of a conversation without a workspace has no journal, and one
\* that has not ended is as it was made, or marked as sending.
Sending == [NewAttempt EXCEPT !.st = "sending"]
BareAtt(att) == /\ att = [f \in AttFields |-> att[f]]
                /\ att.jr = NoJournal /\ att.residue = FALSE
                /\ Unfinished(att) => att.code = "none"
BareDoc(m) == \A n \in DOMAIN m : BareAtt(m[n])
BareWait(w, kind) ==
  /\ w.on \in {"prep", "prepare", "mark", "complete", "commit", "recommit", "term", "fail", "withdraw"}
  /\ BareDoc(w.doc)
  /\ w.on = "prepare" => kind # "plain"
  /\ w.on = "mark" => (w.c.n \in DOMAIN w.doc => w.doc[w.c.n] = Sending)

\* An await, in a conversation of kind S.kind.
CalmWait(w, S) == /\ w = [f \in WaitFields |-> w[f]]
                  /\ Looks(w.p) /\ (w.on # "slot" => Ends(w.p))
                  /\ w.on \in Work => w \in S.work /\ w.p = NoPending
                  /\ w.doc # << >> => S.kept \subseteq DOMAIN w.doc
                  /\ IF S.kind = "workspace" THEN w.on \notin {"mark", "complete"} ELSE BareWait(w, S.kind)

CalmWaits(s, S) == /\ \E T : s \in Seq(T)
                   /\ \A k \in DOMAIN s : CalmWait(s[k], S)

\* An attempt in memory is in every save that waits, but in one that was asked
\* for before its own first one.
Coming(s, k, n) == \E j \in DOMAIN s : j > k /\ s[j].on = "prep" /\ s[j].c.n = n
Lines(m, s) == \A k \in DOMAIN s : s[k].doc # << >> =>
                 \A n \in DOMAIN m : n \in DOMAIN s[k].doc \/ Coming(s, k, n)

\* Epochs that may still come.
Rising(E) == \A e \in E : e + 1 \in E

Rows(m, S) == /\ \E T : m \in Seq(T)
              /\ S.kept \subseteq DOMAIN m
              /\ S.kind # "workspace" => BareDoc(m)

Calm(a, S) == /\ DOMAIN a = Fields /\ a.kind = S.kind
              /\ Rising(S.eps) /\ a.epoch \in S.eps
              /\ S.kind = "plain" => a.run = 0
              /\ Looks(a.slot) /\ Ends(a.ack)
              /\ S.kind # "workspace" => a.slot = NoPending /\ a.ack = NoPending
              /\ Rows(a.mem, S) /\ a.prep.n \notin S.kept
              /\ CalmWaits(a.waits, S) /\ Lines(a.mem, a.waits)
----------------------------------------------------------------------------
(***************************************************************************)
(* Fields and awaits.                                                      *)
(***************************************************************************)

LEMMA NoneLooks == Ends(NoPending)
<1> QED BY DEF NoPending, NoTx, NoThen, Ends, Looks, Allowed

\* A sequence with one more element.
LEMMA Appended == ASSUME NEW T, NEW s \in Seq(T), NEW w
                  PROVE  /\ Append(s, w) \in Seq(T \cup {w})
                         /\ \A k \in DOMAIN Append(s, w) : \/ k \in DOMAIN s /\ Append(s, w)[k] = s[k]
                                                           \/ Append(s, w)[k] = w
                         /\ \A k \in DOMAIN s : k \in DOMAIN Append(s, w) /\ Append(s, w)[k] = s[k]
                         /\ Len(s) + 1 \in DOMAIN Append(s, w) /\ Append(s, w)[Len(s) + 1] = w
                         /\ \A k \in DOMAIN s : Len(s) + 1 > k
<1>1. s \in Seq(T \cup {w}) /\ w \in T \cup {w} OBVIOUS
<1>2. Append(s, w) \in Seq(T \cup {w}) BY <1>1
<1>3. Len(Append(s, w)) = Len(s) + 1 BY <1>1
<1>4. ASSUME NEW k \in DOMAIN Append(s, w)
      PROVE  \/ k \in DOMAIN s /\ Append(s, w)[k] = s[k]
             \/ Append(s, w)[k] = w
  <2>1. k \in 1 .. Len(s) + 1 BY <1>2, <1>3, <1>4
  <2> QED BY <1>1, <2>1
<1>5. /\ \A k \in DOMAIN s : k \in DOMAIN Append(s, w) /\ Append(s, w)[k] = s[k]
      /\ Len(s) + 1 \in DOMAIN Append(s, w) /\ Append(s, w)[Len(s) + 1] = w
      /\ \A k \in DOMAIN s : Len(s) + 1 > k
  BY <1>1, <1>2, <1>3
<1> QED BY <1>2, <1>4, <1>5

LEMMA CalmAppend == ASSUME NEW S, NEW s, CalmWaits(s, S), NEW w, CalmWait(w, S)
                    PROVE  CalmWaits(Append(s, w), S)
<1>1. PICK T : s \in Seq(T) BY DEF CalmWaits
<1>2. \E U : Append(s, w) \in Seq(U) BY <1>1, Appended
<1>3. \A k \in DOMAIN Append(s, w) : \/ k \in DOMAIN s /\ Append(s, w)[k] = s[k]
                                     \/ Append(s, w)[k] = w
  BY <1>1, Appended
<1> QED BY <1>2, <1>3 DEF CalmWaits

\* One more await over the memory "u", in which only the attempt that it
\* prepares may be new.
LEMMA LinesAppend == ASSUME NEW m, NEW s, \E T : s \in Seq(T), Lines(m, s), NEW w, NEW u, w.doc \in {<< >>, u},
                            \A n \in DOMAIN u : n \in DOMAIN m \/ (w.on = "prep" /\ w.c.n = n)
                     PROVE  Lines(u, Append(s, w))
<1> DEFINE t == Append(s, w)
<1>1. PICK T : s \in Seq(T) OBVIOUS
<1>2. /\ \A k \in DOMAIN t : \/ k \in DOMAIN s /\ t[k] = s[k]
                             \/ t[k] = w
      /\ \A k \in DOMAIN s : k \in DOMAIN t /\ t[k] = s[k]
      /\ Len(s) + 1 \in DOMAIN t /\ t[Len(s) + 1] = w
      /\ \A k \in DOMAIN s : Len(s) + 1 > k
  BY <1>1, Appended
<1> HIDE DEF t
<1> SUFFICES ASSUME NEW k \in DOMAIN t, t[k].doc # << >>, NEW n \in DOMAIN u
             PROVE  n \in DOMAIN t[k].doc \/ Coming(t, k, n)
  BY DEF Lines, t
<1>3. CASE t[k] = w BY <1>3
<1>4. CASE k \in DOMAIN s /\ t[k] = s[k] /\ n \in DOMAIN m
  <2>1. n \in DOMAIN s[k].doc \/ Coming(s, k, n) BY <1>4 DEF Lines
  <2> QED BY <1>2, <1>4, <2>1 DEF Coming
<1>5. CASE k \in DOMAIN s /\ w.on = "prep" /\ w.c.n = n BY <1>2, <1>5 DEF Coming
<1> QED BY <1>2, <1>3, <1>4, <1>5

\* What an operator that leaves memory and the awaits alone has to keep.
Same(a, b) == /\ DOMAIN b = Fields /\ b.kind = a.kind /\ b.waits = a.waits
              /\ b.slot = a.slot /\ b.ack = a.ack /\ b.mem = a.mem
              /\ b.prep = a.prep \/ b.prep = NoPrep
              /\ b.epoch \in {a.epoch, a.epoch + 1} /\ b.run \in {a.run, 0}

LEMMA SameCalm == ASSUME NEW S, NEW a, Calm(a, S), NEW b, Same(a, b) PROVE Calm(b, S)
<1>1. b.prep.n \notin S.kept
  <2>1. PICK T : a.mem \in Seq(T) BY DEF Calm, Rows
  <2>2. 0 \notin S.kept BY <2>1 DEF Calm, Rows
  <2> QED BY <2>2 DEF Calm, Same, NoPrep
<1>2. b.epoch \in S.eps BY DEF Calm, Same, Rising
<1>3. S.kind = "plain" => b.run = 0 BY DEF Calm, Same
<1> QED BY <1>1, <1>2, <1>3 DEF Calm, Same

LEMMA PublishCalm == ASSUME NEW S, NEW a, Calm(a, S), NEW ph, NEW n PROVE Calm(Publish(a, ph, n), S)
<1>1. Same(a, Publish(a, ph, n)) BY DEF Publish, Same, Calm, Fields
<1> QED BY <1>1, SameCalm

\* One attempt in memory is another one.
Rewrites(a, b, n, x) == /\ DOMAIN b = Fields /\ b.kind = a.kind /\ b.waits = a.waits
                        /\ b.slot = a.slot /\ b.ack = a.ack /\ b.prep = a.prep
                        /\ b.mem = [a.mem EXCEPT ![n] = x]
                        /\ b.epoch = a.epoch /\ b.run = a.run

LEMMA RowsPut == ASSUME NEW S, NEW m, Rows(m, S), NEW n, NEW x, S.kind # "workspace" /\ n \in DOMAIN m => BareAtt(x)
                 PROVE  LET u == [m EXCEPT ![n] = x] IN Rows(u, S) /\ DOMAIN u = DOMAIN m
<1> DEFINE u == [m EXCEPT ![n] = x]
<1>1. PICK T : m \in Seq(T) BY DEF Rows
<1>2. u \in Seq(T \cup {x}) /\ DOMAIN u = DOMAIN m /\ \A k \in DOMAIN u : u[k] = m[k] \/ (n \in DOMAIN m /\ u[k] = x)
  <2>1. Len(m) \in Nat /\ DOMAIN m = 1 .. Len(m) /\ \A k \in DOMAIN m : m[k] \in T BY <1>1
  <2>2. DOMAIN u = DOMAIN m /\ \A k \in DOMAIN m : u[k] = IF k = n THEN x ELSE m[k] OBVIOUS
  <2>3. u = [k \in DOMAIN m |-> u[k]] OBVIOUS
  <2> HIDE DEF u
  <2>4. u \in [1 .. Len(m) -> T \cup {x}] BY <2>1, <2>2, <2>3
  <2>5. u \in Seq(T \cup {x}) BY <2>1, <2>4, FunIsSeq
  <2> QED BY <2>2, <2>5
<1> HIDE DEF u
<1>3. S.kind # "workspace" => BareDoc(u) BY <1>2 DEF Rows, BareDoc
<1>4. Rows(u, S) BY <1>2, <1>3 DEF Rows
<1> QED BY <1>2, <1>4 DEF u

LEMMA RewritesCalm == ASSUME NEW S, NEW a, Calm(a, S), NEW b, NEW n, NEW x, Rewrites(a, b, n, x),
                             S.kind # "workspace" /\ n \in DOMAIN a.mem => BareAtt(x)
                      PROVE  Calm(b, S)
<1>1. Rows(b.mem, S) /\ DOMAIN b.mem = DOMAIN a.mem BY RowsPut DEF Calm, Rewrites
<1>2. Lines(b.mem, b.waits) BY <1>1 DEF Calm, Rewrites, Lines
<1> QED BY <1>1, <1>2 DEF Calm, Rewrites

\* One more await.
LEMMA PushCalm == ASSUME NEW S, NEW a, Calm(a, S), NEW w, CalmWait(w, S), w.doc \in {<< >>, a.mem}
                  PROVE  Calm([a EXCEPT !.waits = Append(@, w)], S)
<1> DEFINE b == [a EXCEPT !.waits = Append(@, w)]
<1>1. /\ DOMAIN b = Fields /\ b.kind = a.kind /\ b.slot = a.slot /\ b.ack = a.ack
      /\ b.waits = Append(a.waits, w) /\ b.mem = a.mem /\ b.prep = a.prep /\ b.epoch = a.epoch /\ b.run = a.run
  BY DEF Calm, Fields
<1> HIDE DEF b
<1>2. CalmWaits(b.waits, S) BY <1>1, CalmAppend DEF Calm
<1>3. Lines(b.mem, b.waits)
  <2>1. Lines(a.mem, a.waits) /\ \E T : a.waits \in Seq(T) BY DEF Calm, CalmWaits
  <2>2. Lines(a.mem, Append(a.waits, w)) BY <2>1, LinesAppend
  <2> QED BY <1>1, <2>2
<1>4. Calm(b, S) BY <1>1, <1>2, <1>3 DEF Calm
<1> QED BY <1>4 DEF b

LEMMA NoBareDoc == BareDoc(<< >>)
<1> QED BY DEF BareDoc

LEMMA CallCalm == ASSUME NEW S, NEW a, Calm(a, S), NEW c, NEW on, NEW arg,
                         on \in {"prepare", "approve", "discard", "query", "recover", "withdraw"},
                         S.kind = "workspace" \/ on = "withdraw" \/ (on = "prepare" /\ S.kind # "plain")
                  PROVE  Calm(Call(a, c, on, arg), S)
<1> DEFINE w == [on |-> on, c |-> c, p |-> NoPending, doc |-> << >>, was |-> a.mem[c.n], arg |-> arg]
<1>1. w = [f \in WaitFields |-> w[f]] BY DEF WaitFields
<1>2. w.on = on /\ w.p = NoPending /\ w.doc = << >> OBVIOUS
<1>3. Call(a, c, on, arg) = [a EXCEPT !.waits = Append(@, w)] BY DEF Call
<1> HIDE DEF w
<1>4. S.kind # "workspace" => BareWait(w, S.kind) BY <1>2, NoBareDoc DEF BareWait
<1>5. w.on \notin Work \cup {"mark", "complete"} BY <1>2 DEF Work
<1>6. CalmWait(w, S) BY <1>1, <1>2, <1>4, <1>5, NoneLooks DEF CalmWait, Ends
<1> QED BY <1>2, <1>3, <1>6, PushCalm

\* A save, but not the mark of a direct turn.
LEMMA SavingCalm == ASSUME NEW S, NEW a, Calm(a, S), NEW c, NEW on, NEW p, Looks(p), on # "slot" => Ends(p),
                           on \in {"slot", "ack", "ackAgain", "swept", "prep", "term", "fail", "commit", "recommit"},
                           S.kind = "workspace" \/ on \in {"prep", "term", "fail", "commit", "recommit"}
                    PROVE  Calm(Saving(a, c, on, p), S)
<1> DEFINE w == [on |-> on, c |-> c, p |-> p, doc |-> a.mem, was |-> NewAttempt, arg |-> NoThen]
<1>1. w = [f \in WaitFields |-> w[f]] BY DEF WaitFields
<1>2. w.on = on /\ w.p = p /\ w.doc = a.mem OBVIOUS
<1>3. Saving(a, c, on, p) = [a EXCEPT !.waits = Append(@, w)] BY DEF Saving
<1> HIDE DEF w
<1>4. S.kept \subseteq DOMAIN w.doc /\ (S.kind # "workspace" => BareDoc(w.doc)) BY <1>2 DEF Calm, Rows
<1>5. S.kind # "workspace" => BareWait(w, S.kind) BY <1>2, <1>4 DEF BareWait
<1>6. w.on \notin Work \cup {"mark", "complete"} BY <1>2 DEF Work
<1>7. CalmWait(w, S) BY <1>1, <1>2, <1>4, <1>5, <1>6 DEF CalmWait
<1> QED BY <1>2, <1>3, <1>7, PushCalm

\* Any save that holds no transaction.
LEMMA PlainSavingCalm == ASSUME NEW S, NEW a, Calm(a, S), NEW c, NEW on,
                                on \in {"prep", "term", "fail", "commit", "recommit"}
                         PROVE  Calm(Saving(a, c, on, NoPending), S)
<1> QED BY SavingCalm, NoneLooks DEF Ends

\* The slot is taken.
LEMMA SaveCalm == ASSUME NEW S, S.kind = "workspace", NEW a, Calm(a, S), NEW c, NEW kind, NEW att, NEW then,
                         Allowed(then, kind)
                  PROVE  Calm(Save(a, c, kind, att, then), S)
<1> DEFINE next == [a.mem EXCEPT ![c.n] = att]
           p == [ep |-> c.ep, n |-> c.n, kind |-> kind, then |-> then,
                 tx |-> [before |-> a.mem[c.n], next |-> next, state |-> "open"]]
           d == [a EXCEPT !.mem = next]
           b == [a EXCEPT !.mem = next, !.slot = p]
<1>1. Save(a, c, kind, att, then) = Saving(b, c, "slot", p) BY DEF Save
<1>2. Looks(p)
  <2>1. p.then = then /\ p.kind = kind /\ DOMAIN p = {"ep", "n", "kind", "then", "tx"} OBVIOUS
  <2> HIDE DEF p
  <2> QED BY <2>1 DEF Looks
<1> HIDE DEF p
<1>3. Rewrites(a, d, c.n, att) BY DEF Calm, Fields, Rewrites
<1>4. b = [d EXCEPT !.slot = p] OBVIOUS
<1> HIDE DEF next, d
<1>5. Calm(d, S) BY <1>3, RewritesCalm
<1>6. /\ DOMAIN b = Fields /\ b.kind = d.kind /\ b.slot = p /\ b.ack = d.ack /\ b.waits = d.waits
      /\ b.mem = d.mem /\ b.prep = d.prep /\ b.epoch = d.epoch /\ b.run = d.run
  BY <1>4, <1>5 DEF Calm, Fields
<1> HIDE DEF b
<1>7. Calm(b, S) BY <1>2, <1>5, <1>6 DEF Calm
<1> QED BY <1>1, <1>2, <1>7, SavingCalm

\* A transaction that is only told what happened to it.
LEMMA RestatedLooks == ASSUME NEW p, Looks(p), NEW s
                       PROVE  LET q == [p EXCEPT !.tx.state = s]
                              IN /\ Looks(q) /\ q.then = p.then
                                 /\ p = NoPending /\ s = "settled" => q = p
<1> DEFINE q == [p EXCEPT !.tx.state = s]
<1>1. DOMAIN q = DOMAIN p /\ q.then = p.then /\ q.kind = p.kind BY DEF Looks
<1>2. p = NoPending /\ s = "settled" => q = p BY DEF NoPending, NoTx
<1> HIDE DEF q
<1>3. Looks(q) BY <1>1 DEF Looks
<1> QED BY <1>1, <1>2, <1>3 DEF q

LEMMA OutdatedLooks == ASSUME NEW p, Looks(p)
                       PROVE  Looks(Outdated(p)) /\ Outdated(p).then = p.then /\ (p = NoPending => Outdated(p) = p)
<1> DEFINE s == IF p.tx.state = "open" THEN "late" ELSE p.tx.state
<1>1. Outdated(p) = [p EXCEPT !.tx.state = s]
  BY DEF Outdated, Looks
<1>2. p = NoPending => s = "settled" BY DEF NoPending, NoTx
<1> HIDE DEF s
<1> QED BY <1>1, <1>2, RestatedLooks

LEMMA ClosedLooks == ASSUME NEW p, Looks(p), NEW r
                     PROVE  Looks(Closed(p, r)) /\ Closed(p, r).then = p.then /\ (p = NoPending => Closed(p, r) = p)
<1>1. Closed(p, r) = p \/ Closed(p, r) = [p EXCEPT !.tx.state = "settled"] BY DEF Closed
<1> QED BY <1>1, RestatedLooks

\* Awaits with another account of their transaction.
Rekeyed(w, p) == [w EXCEPT !.p = p]

LEMMA RekeyedCalm == ASSUME NEW S, NEW w, CalmWait(w, S), NEW p, Looks(p), p.then = w.p.then,
                            w.p = NoPending => p = NoPending
                     PROVE  CalmWait(Rekeyed(w, p), S)
<1> DEFINE v == Rekeyed(w, p)
<1>1. w = [f \in WaitFields |-> w[f]] BY DEF CalmWait
<1>2. DOMAIN w = WaitFields BY <1>1
<1>3. v.on = w.on /\ v.p = p /\ v.doc = w.doc /\ v.c = w.c /\ v = [f \in WaitFields |-> v[f]]
  BY <1>2 DEF Rekeyed, WaitFields
<1>4. p = w.p => v = w BY <1>1, <1>2 DEF Rekeyed, WaitFields
<1> HIDE DEF v
<1>5. S.kind # "workspace" => BareWait(v, S.kind) BY <1>3 DEF CalmWait, BareWait
<1>6. CalmWait(v, S) BY <1>3, <1>4, <1>5 DEF CalmWait, Ends
<1> QED BY <1>6 DEF v

LEMMA RekeyedSame == ASSUME NEW w, DOMAIN w = WaitFields, NEW p
                     PROVE  LET v == Rekeyed(w, p) IN v.on = w.on /\ v.c = w.c /\ v.doc = w.doc
<1> QED BY DEF Rekeyed, WaitFields

\* Which attempts the saves hold does not depend on their transactions.
LEMMA LinesRekeyed ==
  ASSUME NEW m, NEW s, Lines(m, s), NEW t, DOMAIN t = DOMAIN s,
         \A k \in DOMAIN s : t[k].on = s[k].on /\ t[k].c = s[k].c /\ t[k].doc = s[k].doc
  PROVE  Lines(m, t)
<1>1. \A k \in DOMAIN s : \A n : Coming(s, k, n) => Coming(t, k, n) BY DEF Coming
<1> QED BY <1>1 DEF Lines

LEMMA RekeyedAll ==
  ASSUME NEW S, NEW s, CalmWaits(s, S), NEW t, DOMAIN t = DOMAIN s, t = [k \in DOMAIN s |-> t[k]],
         \A k \in DOMAIN s : CalmWait(t[k], S)
  PROVE  CalmWaits(t, S)
<1>1. PICK T : s \in Seq(T) BY DEF CalmWaits
<1>2. Len(s) \in Nat /\ DOMAIN s = 1 .. Len(s) BY <1>1
<1> DEFINE U == {t[k] : k \in DOMAIN s}
<1>3. t \in [1 .. Len(s) -> U] BY <1>2
<1>4. t \in Seq(U) BY <1>2, <1>3, FunIsSeq
<1> QED BY <1>4 DEF CalmWaits

LEMMA InstalledCalm == ASSUME NEW S, NEW a, Calm(a, S) PROVE Calm(Installed(a), S)
<1> DEFINE b == Installed(a)
           t == [k \in DOMAIN a.waits |-> Rekeyed(a.waits[k], Outdated(a.waits[k].p))]
<1>1. \A k \in DOMAIN a.waits : [a.waits[k] EXCEPT !.p = Outdated(@)] = Rekeyed(a.waits[k], Outdated(a.waits[k].p))
  <2>1. ASSUME NEW k \in DOMAIN a.waits
        PROVE  [a.waits[k] EXCEPT !.p = Outdated(@)] = Rekeyed(a.waits[k], Outdated(a.waits[k].p))
    <3>1. CalmWait(a.waits[k], S) BY DEF Calm, CalmWaits
    <3>2. DOMAIN a.waits[k] = WaitFields BY <3>1 DEF CalmWait
    <3> QED BY <3>2 DEF Rekeyed, WaitFields
  <2> QED BY <2>1
<1>2. /\ DOMAIN b = Fields /\ b.kind = a.kind /\ b.slot = Outdated(a.slot) /\ b.ack = Outdated(a.ack)
      /\ b.mem = a.mem /\ b.prep = a.prep /\ b.epoch = a.epoch /\ b.run = a.run
      /\ b.waits = [k \in DOMAIN a.waits |-> [a.waits[k] EXCEPT !.p = Outdated(@)]]
  BY DEF Installed, Calm, Fields
<1>3. b.waits = t BY <1>1, <1>2
<1>4. \A k \in DOMAIN a.waits : CalmWait(Rekeyed(a.waits[k], Outdated(a.waits[k].p)), S)
  <2>1. ASSUME NEW k \in DOMAIN a.waits PROVE CalmWait(Rekeyed(a.waits[k], Outdated(a.waits[k].p)), S)
    <3>1. CalmWait(a.waits[k], S) BY DEF Calm, CalmWaits
    <3>2. Looks(a.waits[k].p) BY <3>1 DEF CalmWait
    <3> QED BY <3>1, <3>2, OutdatedLooks, RekeyedCalm
  <2> QED BY <2>1
<1>5. Lines(a.mem, t)
  <2>1. \A k \in DOMAIN a.waits : DOMAIN a.waits[k] = WaitFields BY DEF Calm, CalmWaits, CalmWait
  <2>2. \A k \in DOMAIN a.waits : t[k].on = a.waits[k].on /\ t[k].c = a.waits[k].c /\ t[k].doc = a.waits[k].doc
    BY <2>1, RekeyedSame
  <2>3. DOMAIN t = DOMAIN a.waits OBVIOUS
  <2>4. Lines(a.mem, a.waits) BY DEF Calm
  <2> HIDE DEF t
  <2> QED BY <2>2, <2>3, <2>4, LinesRekeyed
<1>6. CalmWaits(t, S) BY <1>4, RekeyedAll DEF Calm
<1>7. Looks(b.slot) /\ Ends(b.ack) /\ (S.kind # "workspace" => b.slot = NoPending /\ b.ack = NoPending)
  BY <1>2, OutdatedLooks DEF Calm, Ends
<1> HIDE DEF b, t
<1>8. Calm(b, S) BY <1>2, <1>3, <1>6, <1>7, <1>5 DEF Calm
<1> QED BY <1>8 DEF b

LEMMA TxSettledCalm == ASSUME NEW S, NEW a, Calm(a, S), NEW r PROVE Calm(TxSettled(a, r), S)
<1> DEFINE b == TxSettled(a, r)
           t == [k \in DOMAIN a.waits |-> Rekeyed(a.waits[k], Closed(a.waits[k].p, r))]
<1>1. \A k \in DOMAIN a.waits : [a.waits[k] EXCEPT !.p = Closed(@, r)] = Rekeyed(a.waits[k], Closed(a.waits[k].p, r))
  <2>1. ASSUME NEW k \in DOMAIN a.waits
        PROVE  [a.waits[k] EXCEPT !.p = Closed(@, r)] = Rekeyed(a.waits[k], Closed(a.waits[k].p, r))
    <3>1. CalmWait(a.waits[k], S) BY DEF Calm, CalmWaits
    <3>2. DOMAIN a.waits[k] = WaitFields BY <3>1 DEF CalmWait
    <3> QED BY <3>2 DEF Rekeyed, WaitFields
  <2> QED BY <2>1
<1>2. /\ DOMAIN b = Fields /\ b.kind = a.kind /\ b.slot = Closed(a.slot, r) /\ b.ack = Closed(a.ack, r)
      /\ b.mem = a.mem /\ b.prep = a.prep /\ b.epoch = a.epoch /\ b.run = a.run
      /\ b.waits = [k \in DOMAIN a.waits |-> [a.waits[k] EXCEPT !.p = Closed(@, r)]]
  BY DEF TxSettled, Calm, Fields
<1>3. b.waits = t BY <1>1, <1>2
<1>4. \A k \in DOMAIN a.waits : CalmWait(Rekeyed(a.waits[k], Closed(a.waits[k].p, r)), S)
  <2>1. ASSUME NEW k \in DOMAIN a.waits PROVE CalmWait(Rekeyed(a.waits[k], Closed(a.waits[k].p, r)), S)
    <3>1. CalmWait(a.waits[k], S) BY DEF Calm, CalmWaits
    <3>2. Looks(a.waits[k].p) BY <3>1 DEF CalmWait
    <3> QED BY <3>1, <3>2, ClosedLooks, RekeyedCalm
  <2> QED BY <2>1
<1>5. Lines(a.mem, t)
  <2>1. \A k \in DOMAIN a.waits : DOMAIN a.waits[k] = WaitFields BY DEF Calm, CalmWaits, CalmWait
  <2>2. \A k \in DOMAIN a.waits : t[k].on = a.waits[k].on /\ t[k].c = a.waits[k].c /\ t[k].doc = a.waits[k].doc
    BY <2>1, RekeyedSame
  <2>3. DOMAIN t = DOMAIN a.waits OBVIOUS
  <2>4. Lines(a.mem, a.waits) BY DEF Calm
  <2> HIDE DEF t
  <2> QED BY <2>2, <2>3, <2>4, LinesRekeyed
<1>6. CalmWaits(t, S) BY <1>4, RekeyedAll DEF Calm
<1>7. Looks(b.slot) /\ Ends(b.ack) /\ (S.kind # "workspace" => b.slot = NoPending /\ b.ack = NoPending)
  BY <1>2, ClosedLooks DEF Calm, Ends
<1> HIDE DEF b, t
<1>8. Calm(b, S) BY <1>2, <1>3, <1>6, <1>7, <1>5 DEF Calm
<1> QED BY <1>8 DEF b

\* The slot, or the cleanup, is free again.
LEMMA FreedCalm == ASSUME NEW S, NEW a, Calm(a, S)
                   PROVE  Calm([a EXCEPT !.slot = NoPending], S) /\ Calm([a EXCEPT !.ack = NoPending], S)
<1> DEFINE b == [a EXCEPT !.slot = NoPending]
           d == [a EXCEPT !.ack = NoPending]
<1>1. /\ DOMAIN b = Fields /\ b.kind = a.kind /\ b.slot = NoPending /\ b.ack = a.ack /\ b.waits = a.waits
      /\ b.mem = a.mem /\ b.prep = a.prep /\ d.mem = a.mem /\ d.prep = a.prep
      /\ b.epoch = a.epoch /\ b.run = a.run /\ d.epoch = a.epoch /\ d.run = a.run
      /\ DOMAIN d = Fields /\ d.kind = a.kind /\ d.ack = NoPending /\ d.slot = a.slot /\ d.waits = a.waits
  BY DEF Calm, Fields
<1> HIDE DEF b, d
<1>2. Calm(b, S) /\ Calm(d, S) BY <1>1, NoneLooks DEF Calm, Ends
<1> QED BY <1>2 DEF b, d

----------------------------------------------------------------------------
(***************************************************************************)
(* What the runs are made of.                                              *)
(***************************************************************************)

LEMMA RolledBackCalm == ASSUME NEW S, S.kind = "workspace", NEW a, Calm(a, S), NEW p PROVE Calm(RolledBack(a, p), S)
<1> DEFINE x == [a.mem[p.n] EXCEPT !.residue = TRUE]
           y == p.tx.before
           b == [a EXCEPT !.mem[p.n].residue = TRUE]
           d == [a EXCEPT !.mem[p.n] = y]
<1>1. RolledBack(a, p) \in {a, b, d} BY DEF RolledBack
<1>2. Rewrites(a, b, p.n, x) /\ Rewrites(a, d, p.n, y) BY DEF Rewrites, Calm, Fields
<1> HIDE DEF x, y, b, d
<1> QED BY <1>1, <1>2, RewritesCalm

\* The attempt that is being prepared comes with a save of its own.
LEMMA NewIsBare == BareAtt(NewAttempt) /\ BareAtt(Sending)
<1> QED BY DEF BareAtt, NewAttempt, Sending, NoJournal, AttFields, Unfinished

LEMMA BeginCalm == ASSUME NEW S, NEW a, Calm(a, S), NEW c PROVE Calm(Begin(a, c), S)
<1> DEFINE m == Append(a.mem, NewAttempt)
           d == Context(Len(m), c.ep, {})
           b == [a EXCEPT !.mem = m, !.prep = [ep |-> c.ep, n |-> d.n, dur |-> "none", mem |-> m]]
<1>1. Begin(a, c) = Saving(Publish(b, "preparing", d.n), d, "prep", NoPending) BY DEF Begin
<1>2. d.n = Len(m) BY DEF Context
<1> HIDE DEF d
<1> DEFINE e == Publish(b, "preparing", d.n)
           w == [on |-> "prep", c |-> d, p |-> NoPending, doc |-> m, was |-> NewAttempt, arg |-> NoThen]
           f == Saving(e, d, "prep", NoPending)
<1>3. PICK T : a.mem \in Seq(T) BY DEF Calm, Rows
<1>4. /\ m \in Seq(T \cup {NewAttempt}) /\ Len(m) = Len(a.mem) + 1 /\ Len(m) \notin DOMAIN a.mem
      /\ DOMAIN m = DOMAIN a.mem \cup {Len(m)}
      /\ \A n \in DOMAIN m : m[n] = NewAttempt \/ (n \in DOMAIN a.mem /\ m[n] = a.mem[n])
  <2>1. m \in Seq(T \cup {NewAttempt}) /\ Len(m) = Len(a.mem) + 1 BY <1>3
  <2>2. DOMAIN m = 1 .. Len(a.mem) + 1 /\ DOMAIN a.mem = 1 .. Len(a.mem) /\ Len(a.mem) \in Nat BY <1>3, <2>1
  <2> QED BY <1>3, <2>1, <2>2, Appended
<1> HIDE DEF m
<1>5. Rows(m, S)
  <2>1. S.kept \subseteq DOMAIN m BY <1>4 DEF Calm, Rows
  <2>2. S.kind # "workspace" => BareDoc(m) BY <1>4, NewIsBare DEF Calm, Rows, BareDoc
  <2> QED BY <1>4, <2>1, <2>2 DEF Rows
<1>6. /\ DOMAIN f = Fields /\ f.kind = a.kind /\ f.slot = a.slot /\ f.ack = a.ack /\ f.mem = m /\ f.prep.n = Len(m)
      /\ f.waits = Append(a.waits, w) /\ f.epoch = a.epoch /\ f.run = a.run
  BY <1>2 DEF Saving, Publish, Calm, Fields
<1>7. /\ w = [g \in WaitFields |-> w[g]] /\ w.on = "prep" /\ w.p = NoPending /\ w.doc = m /\ w.c = d
  BY DEF WaitFields
<1> HIDE DEF b, e, w, f
<1>8. CalmWait(w, S)
  <2>1. S.kind # "workspace" => BareWait(w, S.kind) BY <1>5, <1>7 DEF BareWait, Rows
  <2> QED BY <1>5, <1>7, <2>1, NoneLooks DEF CalmWait, Ends, Rows, Work
<1>9. CalmWaits(f.waits, S) BY <1>6, <1>8, CalmAppend DEF Calm
<1>10. Lines(m, f.waits)
  <2>1. Lines(a.mem, a.waits) /\ \E U : a.waits \in Seq(U) BY DEF Calm, CalmWaits
  <2>2. \A n \in DOMAIN m : n \in DOMAIN a.mem \/ (w.on = "prep" /\ w.c.n = n) BY <1>2, <1>4, <1>7
  <2>3. w.doc \in {<< >>, m} BY <1>7
  <2>4. Lines(m, Append(a.waits, w)) BY <2>1, <2>2, <2>3, LinesAppend
  <2> QED BY <1>6, <2>4
<1>11. f.prep.n \notin S.kept BY <1>4, <1>6 DEF Calm, Rows
<1>12. Calm(f, S) BY <1>5, <1>6, <1>9, <1>10, <1>11 DEF Calm
<1> QED BY <1>1, <1>12 DEF b, e, f

\* The finally clauses.
LEMMA EndCalm == ASSUME NEW S, NEW a, Calm(a, S), NEW c, NEW f, f \in Endings PROVE Calm(End(a, c, f), S)
<1>1. Calm(End(a, c, "prepared"), S)
  <2> DEFINE q == IF a.req = c.ep THEN 0 ELSE a.req
             b == [a EXCEPT !.run = 0, !.req = q]
  <2>1. Finally(a, c, "prepared") \in {a, b} BY Zenon DEF Finally
  <2>2. End(a, c, "prepared") \in {a, b} BY <2>1, EndIs
  <2> HIDE DEF q
  <2>3. Same(a, b) BY DEF Same, Calm, Fields
  <2> HIDE DEF b
  <2> QED BY <2>2, <2>3, SameCalm
<1>2. Calm(End(a, c, "recover"), S)
  <2>1. Finally(a, c, "recover") \in {a, [a EXCEPT !.run = 0]} BY DEF Finally
  <2>2. Same(a, [a EXCEPT !.run = 0]) BY DEF Same, Calm, Fields
  <2> QED BY <2>1, <2>2, EndIs, SameCalm
<1>3. Calm(End(a, c, "retry"), S) /\ Calm(End(a, c, "recommit"), S)
  <2>1. Same(a, [a EXCEPT !.retrying = FALSE]) /\ Same(a, [a EXCEPT !.recommit = FALSE]) BY DEF Same, Calm, Fields
  <2>2. Calm([a EXCEPT !.retrying = FALSE], S) /\ Calm([a EXCEPT !.recommit = FALSE], S) BY <2>1, SameCalm
  <2> QED BY <2>2, FinallyClears, EndIs
<1>4. Calm(End(a, c, "settle"), S)
  <2> DEFINE b == [a EXCEPT !.flight = 0]
             d == [b EXCEPT !.run = IF @ = c.ep THEN 0 ELSE @, !.epoch = IF @ = c.ep THEN @ + 1 ELSE @]
  <2>1. Finally(a, c, "settle") \in {b, d, Publish(d, "resume_available", c.n)} BY DEF Finally
  <2>2. End(a, c, "settle") \in {a, b, d, Publish(d, "resume_available", c.n)} BY <2>1, EndIs
  <2>3. Same(a, b) /\ Same(a, d) BY DEF Same, Calm, Fields
  <2> HIDE DEF b, d
  <2> QED BY <2>2, <2>3, SameCalm, PublishCalm
<1>5. Calm(End(a, c, "abandon"), S)
  <2>1. End(a, c, "abandon") \in {a, Begin(a, c), Publish(a, "blocked", c.n)} BY FinallyGivesUp, EndIs
  <2> QED BY <2>1, BeginCalm, PublishCalm
<1> QED BY <1>1, <1>2, <1>3, <1>4, <1>5 DEF Endings

LEMMA DoneCalm == ASSUME NEW S, NEW a, Calm(a, S), NEW c PROVE Calm(Done(a, c), S)
<1>1. \A b, f : Calm(b, S) /\ f \in Endings => Calm(End(b, c, f), S) BY EndCalm
<1>2. {"settle", "prepared", "recover", "retry", "recommit", "abandon"} \subseteq Endings BY DEF Endings
<1> DEFINE e1 == End(a, c, "settle")
           e2 == End(e1, c, "prepared")
           e3 == End(e2, c, "recover")
           e4 == End(e3, c, "retry")
           e5 == End(e4, c, "recommit")
<1>3. Done(a, c) = End(e5, c, "abandon") BY DoneIs
<1>4. Calm(e1, S) BY <1>1, <1>2
<1> HIDE DEF e1
<1>5. Calm(e2, S) BY <1>1, <1>2, <1>4
<1> HIDE DEF e2
<1>6. Calm(e3, S) BY <1>1, <1>2, <1>5
<1> HIDE DEF e3
<1>7. Calm(e4, S) BY <1>1, <1>2, <1>6
<1> HIDE DEF e4
<1>8. Calm(e5, S) BY <1>1, <1>2, <1>7
<1> HIDE DEF e5
<1> QED BY <1>1, <1>2, <1>3, <1>8

\* A run that stops, and shows why.
LEMMA ShowsCalm == ASSUME NEW S, NEW a, Calm(a, S), NEW ph, NEW n, NEW c PROVE Calm(Done(Publish(a, ph, n), c), S)
<1> QED BY PublishCalm, DoneCalm

\* How a turn without a journal may end, or be marked as sending.
LEMMA EndedBare == ASSUME NEW att, BareAtt(att), NEW st, NEW code,
                          st \notin {"prepared", "sending"} \/ code = "none"
                   PROVE  BareAtt(Ended(att, st, code))
<1> DEFINE x == Ended(att, st, code)
<1>1. DOMAIN att = AttFields BY DEF BareAtt
<1>2. x = [f \in AttFields |-> x[f]] /\ x.jr = att.jr /\ x.residue = att.residue /\ x.st = st /\ x.code = code
  BY <1>1 DEF AttFields, Ended
<1> HIDE DEF x
<1>3. BareAtt(x) BY <1>2 DEF BareAtt, Unfinished
<1> QED BY <1>3 DEF x

LEMMA PersistTerminalCalm == ASSUME NEW S, NEW a, Calm(a, S), NEW c, NEW st PROVE Calm(PersistTerminal(a, c, st), S)
<1> DEFINE succ == IF st = "cancelled" THEN "cancelled" ELSE "retryable"
           b == [a EXCEPT !.term = [n |-> c.n, succ |-> succ],
                          !.mem[c.n] = [@ EXCEPT !.st = st, !.code = IF st = "failed" THEN "other" ELSE "none"]]
<1>1. PersistTerminal(a, c, st) = Saving(Publish(b, "finalizing", c.n), c, "term", NoPending) BY DEF PersistTerminal
<1> DEFINE code == IF st = "failed" THEN "other" ELSE "none"
           x == Ended(a.mem[c.n], st, code)
           e == [a EXCEPT !.mem[c.n] = x]
<1> HIDE DEF succ
<1>2. Rewrites(a, e, c.n, x) /\ Same(e, b) BY DEF Rewrites, Same, Calm, Fields, Ended
<1>3. st \notin {"prepared", "sending"} \/ code = "none" OBVIOUS
<1> HIDE DEF code
<1>4. S.kind # "workspace" /\ c.n \in DOMAIN a.mem => BareAtt(x) BY <1>3, EndedBare DEF Calm, Rows, BareDoc
<1> HIDE DEF b, e, x
<1>5. Calm(b, S) BY <1>2, <1>4, RewritesCalm, SameCalm
<1> QED BY <1>1, <1>5, PublishCalm, PlainSavingCalm

LEMMA FailedCalm == ASSUME NEW S, NEW a, Calm(a, S), NEW c PROVE Calm(Failed(a, c), S)
<1> QED BY ShowsCalm, PersistTerminalCalm DEF Failed

LEMMA TermAnsweredCalm == ASSUME NEW S, NEW a, Calm(a, S), NEW w, NEW s PROVE Calm(TermAnswered(a, w, s), S)
<1> DEFINE ok == IF a.term.succ = "cancelled" THEN s = "committed" ELSE a.ok
           told == [a EXCEPT !.ok = ok]
           b == Installed(told)
           d == [b EXCEPT !.term = NoTerm]
<1>1. TermAnswered(a, w, s) \in {Done(Publish(d, "retryable", w.c.n), w.c), Done(Publish(told, "persistence_pending", w.c.n), w.c)}
  <2>1. told = [a EXCEPT !.ok = IF a.term.succ = "cancelled" THEN s = "committed" ELSE @] BY DEF Calm, Fields
  <2> HIDE DEF told
  <2> QED BY <2>1 DEF TermAnswered
<1> HIDE DEF ok
<1>2. Same(a, told) BY DEF Same, Calm, Fields
<1> HIDE DEF told
<1>3. Calm(b, S) BY <1>2, SameCalm, InstalledCalm
<1> HIDE DEF b
<1>4. Same(b, d) BY <1>3 DEF Same, Calm, Fields
<1> HIDE DEF d
<1> QED BY <1>1, <1>2, <1>3, <1>4, SameCalm, ShowsCalm

LEMMA InstalledIfCalm == ASSUME NEW S, NEW a, Calm(a, S), NEW s \in BOOLEAN PROVE Calm(IF s THEN Installed(a) ELSE a, S)
<1> QED BY InstalledCalm

LEMMA CommitAnsweredCalm == ASSUME NEW S, NEW a, Calm(a, S), NEW w, NEW s PROVE Calm(CommitAnswered(a, w, s), S)
<1> DEFINE b == IF s = "committed" THEN Installed(a) ELSE a
           d == [b EXCEPT !.commit = 0]
<1>1. CommitAnswered(a, w, s) \in {Done(b, w.c), Done(Publish(d, "idle", 0), w.c), Done(Publish(b, "commit_pending", w.c.n), w.c)}
  BY DEF CommitAnswered
<1>2. Calm(b, S) BY InstalledIfCalm
<1> HIDE DEF b
<1>3. Same(b, d) BY <1>2 DEF Same, Calm, Fields
<1> HIDE DEF d
<1> QED BY <1>1, <1>2, <1>3, SameCalm, ShowsCalm, DoneCalm

LEMMA RecommitAnsweredCalm == ASSUME NEW S, NEW a, Calm(a, S), NEW w, NEW s PROVE Calm(RecommitAnswered(a, w, s), S)
<1> DEFINE b == Installed(a)
           d == [b EXCEPT !.commit = 0]
<1>1. RecommitAnswered(a, w, s) \in {Done(a, w.c), Done(Publish(d, "idle", 0), w.c)} BY DEF RecommitAnswered
<1>2. Calm(b, S) BY InstalledCalm
<1> HIDE DEF b
<1>3. Same(b, d) BY <1>2 DEF Same, Calm, Fields
<1> HIDE DEF d
<1> QED BY <1>1, <1>2, <1>3, SameCalm, ShowsCalm, DoneCalm

LEMMA NotOkCalm == ASSUME NEW S, NEW a, Calm(a, S), NEW v PROVE Calm([a EXCEPT !.ok = v], S)
<1>1. Same(a, [a EXCEPT !.ok = v]) BY DEF Same, Calm, Fields
<1> QED BY <1>1, SameCalm

LEMMA WithdrawAnsweredCalm == ASSUME NEW S, NEW a, Calm(a, S), NEW w PROVE Calm(WithdrawAnswered(a, w), S)
<1> DEFINE b == [a EXCEPT !.ok = FALSE]
<1>1. WithdrawAnswered(a, w) \in {PersistTerminal(a, w.c, "cancelled"), Done(Publish(b, "blocked", w.c.n), w.c)}
  BY DEF WithdrawAnswered
<1>2. Calm(b, S) BY NotOkCalm
<1> HIDE DEF b
<1> QED BY <1>1, <1>2, PersistTerminalCalm, ShowsCalm

----------------------------------------------------------------------------
(***************************************************************************)
(* A turn of the agent.                                                    *)
(***************************************************************************)

LEMMA FailCalm == ASSUME NEW S, NEW a, Calm(a, S), NEW c PROVE Calm(Fail(a, c), S)
<1> DEFINE b == [a EXCEPT !.run = 0]
           d == [a EXCEPT !.mem[c.n] = [@ EXCEPT !.st = "failed", !.code = "other"]]
<1>1. Fail(a, c) \in {Done(Publish(b, "resume_available", c.n), c), Done(Publish(a, "blocked", c.n), c),
                      Saving(d, c, "fail", NoPending)}
  BY DEF Fail
<1> DEFINE x == Ended(a.mem[c.n], "failed", "other")
<1>2. Same(a, b) /\ Rewrites(a, d, c.n, x) BY DEF Same, Rewrites, Calm, Fields, Ended
<1>3. S.kind # "workspace" /\ c.n \in DOMAIN a.mem => BareAtt(x) BY EndedBare DEF Calm, Rows, BareDoc
<1> HIDE DEF b, d, x
<1>4. Calm(b, S) /\ Calm(d, S) BY <1>2, <1>3, SameCalm, RewritesCalm
<1> QED BY <1>1, <1>4, ShowsCalm, PlainSavingCalm

\* A journal is saved, and what is to follow it says what kind of save it is.
LEMMA JournalCalm == ASSUME NEW S, S.kind = "workspace", NEW a, Calm(a, S), NEW c, NEW kind, NEW j, NEW then, Allowed(then, kind)
                     PROVE  Calm(Journal(a, c, kind, j, then), S)
<1> QED BY SaveCalm, FailCalm DEF Journal

LEMMA AllowedThen == /\ \A then : Allowed(then, "checkpoint")
                     /\ \A at, kind : at \notin {"launched", "intended"} => Allowed(Then(at), kind)
<1>1. \A at : Then(at).at = at BY DEF Then, NoThen
<1> QED BY <1>1 DEF Allowed

\* A run that starts, of a conversation that has runs.
LEMMA RunningCalm == ASSUME NEW S, S.kind # "plain", NEW a, Calm(a, S), NEW ep, NEW n, NEW auth
                     PROVE  Calm([a EXCEPT !.run = ep, !.runOf = n, !.auth = auth], S)
<1> DEFINE b == [a EXCEPT !.run = ep, !.runOf = n, !.auth = auth]
<1>1. /\ DOMAIN b = Fields /\ b.kind = a.kind /\ b.slot = a.slot /\ b.ack = a.ack /\ b.waits = a.waits
      /\ b.mem = a.mem /\ b.prep = a.prep /\ b.epoch = a.epoch
  BY DEF Calm, Fields
<1> HIDE DEF b
<1>2. Calm(b, S) BY <1>1 DEF Calm
<1> QED BY <1>2 DEF b

LEMMA RunPreparedCalm == ASSUME NEW S, S.kind # "plain", NEW a, Calm(a, S), NEW c PROVE Calm(RunPrepared(a, c), S)
<1> DEFINE b == [a EXCEPT !.run = c.ep, !.runOf = c.n, !.auth = 0]
           d == [c EXCEPT !.who = @ \cup {"prepared"}]
<1>1. RunPrepared(a, c) = Call(Publish(b, "starting", c.n), d, "prepare", NoThen) BY DEF RunPrepared
<1>2. Calm(b, S) BY RunningCalm
<1> HIDE DEF b, d
<1> QED BY <1>1, <1>2, PublishCalm, CallCalm

\* A direct turn is marked: the save holds the attempt as it was made, but
\* for the mark.
LEMMA RunDirectCalm == ASSUME NEW S, S.kind # "workspace", NEW a, Calm(a, S), NEW c PROVE Calm(RunDirect(a, c), S)
<1> DEFINE b == Publish(a, "starting", c.n)
           x == [b.mem[c.n] EXCEPT !.st = "sending"]
           e == [b EXCEPT !.mem[c.n] = x]
           d == [b EXCEPT !.mem[c.n].st = "sending", !.act = c.n]
           w == [on |-> "mark", c |-> c, p |-> NoPending, doc |-> d.mem, was |-> NewAttempt, arg |-> NoThen]
<1>1. \/ RunDirect(a, c) = Failed(b, c)
      \/ a.mem[c.n].st = "prepared" /\ RunDirect(a, c) = Saving(d, c, "mark", NoPending)
  BY DEF RunDirect
<1>2. Calm(b, S) /\ b.mem = a.mem
  <2>1. b.mem = a.mem BY DEF Publish, Calm, Fields
  <2> QED BY <2>1, PublishCalm
<1>3. Calm(Failed(b, c), S)
  <2> HIDE DEF b
  <2> QED BY <1>2, FailedCalm
<1>4. ASSUME a.mem[c.n].st = "prepared" PROVE Calm(Saving(d, c, "mark", NoPending), S)
  <2> HIDE DEF b
  <2>1. Rewrites(b, e, c.n, x) /\ Same(e, d) BY <1>2 DEF Rewrites, Same, Calm, Fields
  <2>2. ASSUME c.n \in DOMAIN b.mem PROVE x = Sending
    <3>1. BareAtt(b.mem[c.n]) /\ b.mem[c.n].st = "prepared" BY <1>2, <1>4, <2>2 DEF Calm, Rows, BareDoc
    <3>2. b.mem[c.n] = NewAttempt BY <3>1 DEF BareAtt, AttFields, Unfinished, NewAttempt
    <3> QED BY <3>2 DEF Sending
  <2> HIDE DEF x
  <2>3. Calm(d, S) BY <1>2, <2>1, <2>2, NewIsBare, RewritesCalm, SameCalm
  <2>4. c.n \in DOMAIN d.mem => d.mem[c.n] = Sending
    <3>1. d.mem = [b.mem EXCEPT ![c.n] = x] BY <2>1 DEF Same, Rewrites
    <3> QED BY <2>2, <3>1
  <2> HIDE DEF e, d
  <2>5. Saving(d, c, "mark", NoPending) = [d EXCEPT !.waits = Append(@, w)] BY DEF Saving
  <2>6. w = [f \in WaitFields |-> w[f]] /\ w.on = "mark" /\ w.p = NoPending /\ w.doc = d.mem /\ w.c = c
    BY DEF WaitFields
  <2> HIDE DEF w
  <2>7. BareWait(w, S.kind) BY <2>3, <2>4, <2>6 DEF BareWait, Calm, Rows
  <2>8. CalmWait(w, S) BY <2>3, <2>6, <2>7, NoneLooks DEF CalmWait, Ends, Work, Calm, Rows
  <2> QED BY <2>3, <2>5, <2>6, <2>8, PushCalm
<1> QED BY <1>1, <1>3, <1>4

LEMMA RunCalm == ASSUME NEW S, NEW a, Calm(a, S), NEW c PROVE Calm(Run(a, c), S)
<1>1. a.kind = S.kind BY DEF Calm
<1>2. S.kind = "plain" => S.kind # "workspace" OBVIOUS
<1> QED BY <1>1, <1>2, RunPreparedCalm, RunDirectCalm DEF Run

LEMMA PrepareAnsweredCalm == ASSUME NEW S, NEW a, Calm(a, S), NEW w, NEW r,
                                    IF S.kind = "workspace" THEN r.ans # "not_agent"
                                    ELSE r.ans \in {"throw", "conflict", "not_agent"}
                             PROVE  Calm(PrepareAnswered(a, w, r), S)
<1> DEFINE b == [a EXCEPT !.run = 0]
           att == With(w.was, Ready)
           x == Save(a, w.c, "checkpoint", att, Then("started"))
<1>1. \/ PrepareAnswered(a, w, r) \in {Done(Publish(a, "retryable", w.c.n), w.c), Done(a, w.c), Fail(a, w.c)}
      \/ r.ans = "not_agent" /\ PrepareAnswered(a, w, r) = RunDirect(b, w.c)
      \/ r.ans \notin {"throw", "conflict", "not_agent"} /\ PrepareAnswered(a, w, r) = x
  BY DEF PrepareAnswered
<1>2. Same(a, b) BY DEF Same, Calm, Fields
<1> HIDE DEF b, att
<1>3. S.kind # "workspace" => Calm(RunDirect(b, w.c), S) BY <1>2, SameCalm, RunDirectCalm
<1>4. S.kind = "workspace" => Calm(x, S) BY AllowedThen, SaveCalm
<1> HIDE DEF x
<1> QED BY <1>1, <1>3, <1>4, ShowsCalm, DoneCalm, FailCalm

LEMMA RunRoundCalm == ASSUME NEW S, S.kind = "workspace", NEW a, Calm(a, S), NEW c PROVE Calm(RunRound(a, c), S)
<1> QED BY AllowedThen, PublishCalm, DoneCalm, FailCalm, SaveCalm DEF RunRound

LEMMA RoundAnsweredCalm == ASSUME NEW S, S.kind = "workspace", NEW a, Calm(a, S), NEW w, NEW r, r.ans \in RoundAnswers
                           PROVE  Calm(RoundAnswered(a, w, r), S)
<1> DEFINE c == w.c
           j == a.mem[c.n].jr
<1>1. Calm(Done(a, c), S) /\ Calm(Fail(a, c), S) BY DoneCalm, FailCalm
<1>2. \A k, kind, at : at \notin {"launched", "intended"} => Calm(Journal(a, c, kind, k, Then(at)), S)
  BY AllowedThen, JournalCalm
<1>3. \A k, kind, at : at \notin {"launched", "intended"} =>
        Calm(Journal(Publish(a, "finalizing", c.n), c, kind, k, Then(at)), S)
  BY AllowedThen, JournalCalm, PublishCalm
<1> QED BY <1>1, <1>2, <1>3 DEF RoundAnswered, RoundAnswers

LEMMA FreezeAnsweredCalm == ASSUME NEW S, S.kind = "workspace", NEW a, Calm(a, S), NEW w, NEW r PROVE Calm(FreezeAnswered(a, w, r), S)
<1> DEFINE b == [a EXCEPT !.auth = IF a.run = 0 THEN @ ELSE w.was.jr.rnd]
<1>1. Same(a, b) BY DEF Same, Calm, Fields
<1> HIDE DEF b
<1>2. Calm(b, S) BY <1>1, SameCalm
<1>3. \A ph, j, then : Calm(Journal(Publish(b, ph, w.c.n), w.c, "checkpoint", j, then), S)
  BY <1>2, AllowedThen, JournalCalm, PublishCalm
<1>4. Calm(Fail(a, w.c), S) /\ Calm(Fail(b, w.c), S) /\ Calm(Done(a, w.c), S) BY <1>2, FailCalm, DoneCalm
<1> QED BY <1>3, <1>4 DEF FreezeAnswered, b

LEMMA ExecuteCalm == ASSUME NEW S, S.kind = "workspace", NEW a, Calm(a, S), NEW c, NEW i PROVE Calm(Execute(a, c, i), S)
<1> QED BY AllowedThen, PublishCalm, JournalCalm, FailCalm DEF Execute

LEMMA RunBatchCalm == ASSUME NEW S, S.kind = "workspace", NEW a, Calm(a, S), NEW c PROVE Calm(RunBatch(a, c), S)
<1>1. Calm(Call(Publish(a, "approval_pending", c.n), c, "approve", NoThen), S) BY PublishCalm, CallCalm
<1> QED BY <1>1, DoneCalm, FailCalm, ExecuteCalm, RunRoundCalm DEF RunBatch

LEMMA DecideCalm == ASSUME NEW S, S.kind = "workspace", NEW a, Calm(a, S), NEW c, NEW more PROVE Calm(Decide(a, c, more), S)
<1> QED BY AllowedThen, JournalCalm, FailCalm DEF Decide

LEMMA ApproveAnsweredCalm == ASSUME NEW S, S.kind = "workspace", NEW a, Calm(a, S), NEW w, NEW more PROVE Calm(ApproveAnswered(a, w, more), S)
<1> QED BY DoneCalm, DecideCalm DEF ApproveAnswered

LEMMA DecisionCommittedCalm == ASSUME NEW S, S.kind = "workspace", NEW a, Calm(a, S), NEW c, NEW then PROVE Calm(DecisionCommitted(a, c, then), S)
<1> QED BY RunBatchCalm, DecideCalm, DoneCalm DEF DecisionCommitted

LEMMA BindAnsweredCalm == ASSUME NEW S, S.kind = "workspace", NEW a, Calm(a, S), NEW w, NEW r PROVE Calm(BindAnswered(a, w, r), S)
<1>1. \A j, then : Calm(Journal(a, w.c, "checkpoint", j, then), S) BY AllowedThen, JournalCalm
<1> QED BY <1>1, FailCalm DEF BindAnswered

LEMMA ExecuteAnsweredCalm == ASSUME NEW S, S.kind = "workspace", NEW a, Calm(a, S), NEW w, NEW r PROVE Calm(ExecuteAnswered(a, w, r), S)
<1>1. Calm(Done(a, w.c), S) /\ Calm(Fail(a, w.c), S) BY DoneCalm, FailCalm
<1>2. \A j, then : Calm(Journal(a, w.c, "checkpoint", j, then), S) BY AllowedThen, JournalCalm
<1>3. \A ph, j, then : Calm(Journal(Publish(a, ph, w.c.n), w.c, "checkpoint", j, then), S)
  BY AllowedThen, PublishCalm, JournalCalm
<1>4. \A ph, j : Calm(Journal(Publish(a, ph, w.c.n), w.c, "final", j, Then("over")), S)
  BY AllowedThen, PublishCalm, JournalCalm
<1> DEFINE j == Resulted(w.was.jr, w.arg.i, r.ans)
           opens == {k \in DOMAIN j.calls : k > w.arg.i /\ Open(j.calls[k])}
           next == IF opens = {} THEN 0 ELSE CHOOSE k \in opens : \A m \in opens : k <= m
           goes == r.ans = "ok" /\ next # 0 /\ a.auth # 0 /\ a.run # 0 /\ Runnable(j.calls[next]) /\ CanAdvance(j, next)
           then == [Then("intended") EXCEPT !.i = next]
           onward == Intended(Advanced(j, next), next)
<1>5. ExecuteAnswered(a, w, r) =
        IF a.epoch # w.c.ep \/ a.flight = w.c.ep THEN Done(a, w.c)
        ELSE IF r.ans \in {"throw", "conflict"} \/ a.mem[w.c.n] # w.was THEN Fail(a, w.c)
        ELSE IF r.ans = "cancelled" THEN Journal(Publish(a, "finalizing", w.c.n), w.c, "final", j, Then("over"))
        ELSE IF goes THEN Journal(Publish(a, "executing", w.c.n), w.c, "checkpoint", onward, then)
        ELSE Journal(a, w.c, "checkpoint", j, Then("recorded"))
  BY Zenon DEF ExecuteAnswered
<1> HIDE DEF j, opens, next, goes, then, onward
<1> QED BY <1>1, <1>2, <1>3, <1>4, <1>5

LEMMA ResultRecordedCalm == ASSUME NEW S, S.kind = "workspace", NEW a, Calm(a, S), NEW c PROVE Calm(ResultRecorded(a, c), S)
<1>1. \A j, then : Calm(Journal(a, c, "checkpoint", j, then), S) BY AllowedThen, JournalCalm
<1> QED BY <1>1, ShowsCalm, RunBatchCalm, FailCalm DEF ResultRecorded

LEMMA FinalizeAnsweredCalm == ASSUME NEW S, S.kind = "workspace", NEW a, Calm(a, S), NEW w, NEW r PROVE Calm(FinalizeAnswered(a, w, r), S)
<1> QED BY FailCalm, CallCalm DEF FinalizeAnswered

LEMMA AcknowledgeCalm == ASSUME NEW S, S.kind = "workspace", NEW a, Calm(a, S), NEW c PROVE Calm(Acknowledge(a, c), S)
<1> DEFINE att == [a.mem[c.n] EXCEPT !.residue = FALSE]
           tx == [before |-> a.mem[c.n], state |-> "open", next |-> [a.mem EXCEPT ![c.n] = att]]
           p == [NoPending EXCEPT !.ep = c.ep, !.n = c.n, !.kind = "ack", !.tx = tx]
           d == [a EXCEPT !.mem[c.n] = att]
           b == [a EXCEPT !.mem[c.n] = att, !.ack = p]
<1>1. Acknowledge(a, c) \in {Done(Publish(a, "blocked", c.n), c), Saving(b, c, "ack", p)} BY Zenon DEF Acknowledge
<1> HIDE DEF tx, att
<1>2. DOMAIN p = {"ep", "n", "tx", "kind", "then"} /\ p.then = NoThen BY DEF NoPending
<1>3. Ends(p) BY <1>2 DEF Ends, Looks, Allowed, NoThen
<1> HIDE DEF p
<1>4. Rewrites(a, d, c.n, att) BY DEF Rewrites, Calm, Fields
<1>5. b = [d EXCEPT !.ack = p] OBVIOUS
<1> HIDE DEF d
<1>6. Calm(d, S) BY <1>4, RewritesCalm
<1>7. /\ DOMAIN b = Fields /\ b.kind = d.kind /\ b.slot = d.slot /\ b.ack = p /\ b.waits = d.waits
      /\ b.mem = d.mem /\ b.prep = d.prep /\ b.epoch = d.epoch /\ b.run = d.run
  BY <1>5, <1>6 DEF Calm, Fields
<1> HIDE DEF b
<1>8. Calm(b, S) BY <1>3, <1>6, <1>7 DEF Calm
<1>9. Calm(Saving(b, c, "ack", p), S) BY <1>3, <1>8, SavingCalm DEF Ends
<1> QED BY <1>1, <1>9, ShowsCalm

LEMMA DiscardAnsweredCalm == ASSUME NEW S, S.kind = "workspace", NEW a, Calm(a, S), NEW w, NEW r PROVE Calm(DiscardAnswered(a, w, r), S)
<1> QED BY FailCalm, ShowsCalm, AcknowledgeCalm DEF DiscardAnswered

LEMMA InterruptAnsweredCalm == ASSUME NEW S, S.kind = "workspace", NEW a, Calm(a, S), NEW w, NEW r PROVE Calm(InterruptAnswered(a, w, r), S)
<1> QED BY DoneCalm, AcknowledgeCalm DEF InterruptAnswered

----------------------------------------------------------------------------
(***************************************************************************)
(* Cancelling and recovery.                                                *)
(***************************************************************************)

LEMMA CancelRunCalm == ASSUME NEW S, S.kind = "workspace", NEW a, Calm(a, S), NEW c PROVE Calm(CancelRun(a, c), S)
<1> DEFINE b == [a EXCEPT !.ok = FALSE]
<1>1. Calm(b, S) BY NotOkCalm
<1>2. Calm(Done(Publish(b, "blocked", c.n), c), S)
  <2> HIDE DEF b
  <2> QED BY <1>1, ShowsCalm
<1>3. \A att : Calm(Save(Publish(a, "cancelling", c.n), c, "cancel", att, Then("asked")), S)
  BY AllowedThen, PublishCalm, SaveCalm
<1> QED BY <1>2, <1>3, DoneCalm DEF CancelRun

LEMMA SettleCalm == ASSUME NEW S, S.kind = "workspace", NEW a, Calm(a, S), NEW c PROVE Calm(Settle(a, c), S)
<1> DEFINE b == [a EXCEPT !.req = 0, !.flight = a.run, !.ok = FALSE]
           d == Context(a.runOf, a.run, {"settle"} \cup c.who)
<1>1. Settle(a, c) \in {Done(a, c), CancelRun(b, d)} BY DEF Settle
<1>2. Same(a, b) BY DEF Same, Calm, Fields
<1> HIDE DEF b, d
<1> QED BY <1>1, <1>2, SameCalm, DoneCalm, CancelRunCalm

LEMMA StopAnsweredCalm == ASSUME NEW S, S.kind = "workspace", NEW a, Calm(a, S), NEW w, NEW r PROVE Calm(StopAnswered(a, w, r), S)
<1> DEFINE b == [a EXCEPT !.ok = FALSE]
           at == IF r.ans = "cancelled" THEN "stopped" ELSE "unsettled"
<1>1. Calm(b, S) BY NotOkCalm
<1>2. StopAnswered(a, w, r) \in {Done(b, w.c), Fail(a, w.c), Journal(a, w.c, "cancel", Stopped(w.was.jr, r.ans), Then(at))}
  BY DEF StopAnswered
<1>3. at \notin {"launched", "intended"} OBVIOUS
<1> HIDE DEF b, at
<1> QED BY <1>1, <1>2, <1>3, AllowedThen, DoneCalm, FailCalm, JournalCalm

LEMMA RecoverCalm == ASSUME NEW S, S.kind = "workspace", NEW a, Calm(a, S), NEW n PROVE Calm(Recover(a, n), S)
<1> DEFINE c == Context(n, a.epoch + 1, {"recover"})
           b == [a EXCEPT !.epoch = c.ep, !.run = c.ep, !.runOf = n, !.auth = 0, !.read = c.ep]
           d == [a EXCEPT !.epoch = c.ep, !.read = c.ep]
<1>1. Recover(a, n) = Call(Publish(b, "recovering", n), c, "query", NoThen) BY DEF Recover
<1>2. c.ep = a.epoch + 1 BY DEF Context
<1> HIDE DEF c
<1>3. Same(a, d) BY <1>2 DEF Same, Calm, Fields
<1>4. b = [d EXCEPT !.run = c.ep, !.runOf = n, !.auth = 0] OBVIOUS
<1> HIDE DEF d
<1>5. Calm(d, S) BY <1>3, SameCalm
<1> HIDE DEF b
<1>6. Calm(b, S)
  <2>1. S.kind # "plain" OBVIOUS
  <2>2. Calm([d EXCEPT !.run = c.ep, !.runOf = n, !.auth = 0], S) BY <1>5, <2>1, RunningCalm, Zenon
  <2> QED BY <1>4, <2>2, Zenon
<1>7. Calm(Publish(b, "recovering", n), S) BY <1>6, PublishCalm
<1> QED BY <1>1, <1>7, CallCalm

LEMMA QueryAnsweredCalm == ASSUME NEW S, S.kind = "workspace", NEW a, Calm(a, S), NEW w, NEW r PROVE Calm(QueryAnswered(a, w, r), S)
<1> DEFINE b == [a EXCEPT !.read = IF @ = w.c.ep THEN 0 ELSE @]
<1>1. QueryAnswered(a, w, r) \in {Done(b, w.c), Done(Publish(b, "resume_available", w.c.n), w.c),
                                  Call(b, w.c, "recover", NoThen)}
  BY DEF QueryAnswered
<1>2. Same(a, b) BY DEF Same, Calm, Fields
<1> HIDE DEF b
<1> QED BY <1>1, <1>2, SameCalm, DoneCalm, ShowsCalm, CallCalm

LEMMA RecoverAnsweredCalm ==
  ASSUME NEW S, S.kind = "workspace", NEW a, Calm(a, S), NEW w, NEW r,
         r.ans \in {"throw", "conflict", "retryable", "ok", "manual"}
  PROVE  Calm(RecoverAnswered(a, w, r), S)
<1> DEFINE c == w.c
           k == Concluded(w.was.jr, "final_response")
           att == With(w.was, r.jr)
           then == [Then("recovered") EXCEPT !.d = r.ans]
<1>1. \/ RecoverAnswered(a, w, r) \in {Done(Publish(a, "resume_available", c.n), c), Done(Publish(a, "retryable", c.n), c)}
      \/ RecoverAnswered(a, w, r) = Journal(Publish(a, "finalizing", c.n), c, "final", k, Then("over"))
      \/ RecoverAnswered(a, w, r) = Fail(a, c)
      \/ RecoverAnswered(a, w, r) = Save(a, c, "checkpoint", att, then)
  BY DEF RecoverAnswered, FinishRecovered
<1> HIDE DEF k, att, then
<1>2. Allowed(Then("over"), "final") /\ Allowed(then, "checkpoint") BY AllowedThen
<1> QED BY <1>1, <1>2, PublishCalm, ShowsCalm, FailCalm, JournalCalm, SaveCalm

LEMMA RecoveredCalm == ASSUME NEW S, S.kind = "workspace", NEW a, Calm(a, S), NEW c, NEW then PROVE Calm(Recovered(a, c, then), S)
<1> DEFINE j == a.mem[c.n].jr
           b == [a EXCEPT !.auth = IF a.run # 0 /\ j.calls # << >> THEN j.rnd ELSE @]
           ph == IF then.d = "manual" THEN "resume_available" ELSE "retryable"
<1>1. Recovered(a, c, then) \in {RunRound(b, c), RunBatch(b, c), Done(Publish(b, ph, c.n), c)} BY DEF Recovered
<1>2. Same(a, b) BY DEF Same, Calm, Fields
<1> HIDE DEF b, ph
<1> QED BY <1>1, <1>2, SameCalm, RunRoundCalm, RunBatchCalm, ShowsCalm

----------------------------------------------------------------------------
(***************************************************************************)
(* Saves that are answered.                                                *)
(***************************************************************************)

\* One more call that may be there.
More(S, v) == [kind |-> S.kind, kept |-> S.kept, eps |-> S.eps, work |-> S.work \cup {v}]

LEMMA CalmMore == ASSUME NEW S, NEW a, Calm(a, S), NEW v PROVE Calm(a, More(S, v))
<1>1. More(S, v).kind = S.kind /\ More(S, v).kept = S.kept /\ More(S, v).eps = S.eps /\ S.work \subseteq More(S, v).work BY DEF More
<1>2. \A w : CalmWait(w, S) => CalmWait(w, More(S, v)) BY <1>1 DEF CalmWait
<1>3. CalmWaits(a.waits, More(S, v)) BY <1>2 DEF Calm, CalmWaits
<1>4. Rows(a.mem, More(S, v)) BY <1>1 DEF Calm, Rows
<1> QED BY <1>1, <1>3, <1>4 DEF Calm

\* What a step may ask for: a call of the context "c", for the journal that is
\* in memory.
Asks(v, c, att) == v.c.n = c.n /\ v.c.ep = c.ep /\ v.was = att

\* It is one more call of the context it is asked in.
LEMMA WorkCalm == ASSUME NEW S, NEW a, Calm(a, S), NEW c, NEW on, NEW arg,
                         IF S.kind = "workspace" THEN on \in Work \ {"complete"} ELSE on = "complete"
                  PROVE  \E v : v.on = on /\ v.c = c /\ v.was = a.mem[c.n] /\ Calm(Call(a, c, on, arg), More(S, v))
<1> DEFINE w == [on |-> on, c |-> c, p |-> NoPending, doc |-> << >>, was |-> a.mem[c.n], arg |-> arg]
           R == More(S, w)
<1>1. w = [f \in WaitFields |-> w[f]] BY DEF WaitFields
<1>2. w.on = on /\ w.p = NoPending /\ w.c = c /\ w.doc = << >> /\ w.was = a.mem[c.n] OBVIOUS
<1>3. Call(a, c, on, arg) = [a EXCEPT !.waits = Append(@, w)] BY DEF Call
<1> HIDE DEF w
<1>4. R.kind = S.kind /\ R.kept = S.kept /\ w \in R.work BY DEF More
<1>5. Calm(a, R) BY CalmMore
<1> HIDE DEF R
<1>6. R.kind # "workspace" => BareWait(w, R.kind) BY <1>2, <1>4, NoBareDoc DEF BareWait
<1>7. on # "slot" /\ on # "mark" /\ (R.kind = "workspace" => on # "complete") BY <1>4 DEF Work
<1>8. CalmWait(w, R) BY <1>1, <1>2, <1>4, <1>6, <1>7, NoneLooks DEF CalmWait, Ends
<1>9. Calm([a EXCEPT !.waits = Append(@, w)], R) BY <1>2, <1>5, <1>8, PushCalm
<1> QED BY <1>2, <1>3, <1>9 DEF R

\* The work of a conversation with a workspace, of a context or of one that has
\* one more function to return to.
LEMMA AsksCalm == ASSUME NEW S, S.kind = "workspace", NEW a, Calm(a, S), NEW c, NEW d, d.n = c.n, d.ep = c.ep,
                         NEW on \in Work \ {"complete"}, NEW arg
                  PROVE  \E v : v.on = on /\ Asks(v, c, a.mem[c.n]) /\ Calm(Call(a, d, on, arg), More(S, v))
<1>1. PICK v : v.on = on /\ v.c = d /\ v.was = a.mem[d.n] /\ Calm(Call(a, d, on, arg), More(S, v)) BY WorkCalm
<1> QED BY <1>1 DEF Asks

LEMMA FinalizeCalm == ASSUME NEW S, S.kind = "workspace", NEW a, Calm(a, S), NEW c
                      PROVE  \/ Calm(Finalize(a, c), S)
                             \/ \E v : v.on = "finalize" /\ Asks(v, c, a.mem[c.n]) /\ Calm(Finalize(a, c), More(S, v))
<1>1. Calm(Done(a, c), S) BY DoneCalm
<1>2. "finalize" \in Work \ {"complete"} BY DEF Work
<1>3. \E v : v.on = "finalize" /\ Asks(v, c, a.mem[c.n]) /\ Calm(Call(a, c, "finalize", NoThen), More(S, v))
  BY <1>2, AsksCalm
<1> QED BY <1>1, <1>3 DEF Finalize

\* What goes on when a save was committed: only two places ask for a round or
\* for an execution.
LEMMA ContinueCalm ==
  ASSUME NEW S, S.kind = "workspace", NEW a, Calm(a, S), NEW c \in Threads, NEW then, then.at \in Places \ {"none"}
  PROVE  \/ Calm(Continue(a, c, then), S)
         \/ \E v : /\ v.on \in {"round", "execute"} => then.at \in {"launched", "intended"}
                   /\ v.on # "complete"
                   /\ Asks(v, c, a.mem[c.n]) /\ Calm(Continue(a, c, then), More(S, v))
<1> DEFINE b == [a EXCEPT !.ok = TRUE]
           d == [a EXCEPT !.ok = FALSE]
           x == Publish(a, "sending", c.n)
           Rest(e, ph) == Done(Publish(e, ph, c.n), c)
           e == [c EXCEPT !.who = @ \cup {"abandon"}]
           F == Finalize(b, c)
           I == Call(a, e, "interrupt", NoThen)
           L == IF then.live THEN I ELSE Done(a, c)
           B == Call(a, c, "bind", then)
           X == Call(a, c, "execute", then)
           G == Call(x, c, "round", NoThen)
           R1 == Rest(a, "resume_available")
           R2 == Rest(a, "retryable")
           R3 == Rest(d, "retryable")
           F1 == Call(a, c, "freeze", NoThen)
           S1 == Call(a, c, "stop", NoThen)
           y == Continue(a, c, then)
           Adds(z) == \/ Calm(z, S)
                        \/ \E v : /\ v.on \in {"round", "execute"} => then.at \in {"launched", "intended"}
                                  /\ v.on # "complete"
                                  /\ Asks(v, c, a.mem[c.n]) /\ Calm(z, More(S, v))
<1>0. y =
        CASE then.at = "started" -> RunRound(a, c) [] then.at = "launched" -> RoundLaunched(a, c)
          [] then.at = "held" -> R1 [] then.at = "lost" -> R2
          [] then.at = "answered" -> F1 [] then.at = "frozen" -> RunBatch(a, c)
          [] then.at = "decided" -> B [] then.at = "bound" -> DecisionCommitted(a, c, then)
          [] then.at = "intended" -> X [] then.at = "recorded" -> ResultRecorded(a, c)
          [] then.at = "recovered" -> Recovered(a, c, then) [] then.at = "over" -> Finalize(a, c)
          [] then.at = "asked" -> S1 [] then.at = "stopped" -> F
          [] then.at = "unsettled" -> R3 [] then.at = "abandoned" -> L
  BY Zenon DEF Continue
<1>1. RoundLaunched(a, c) = G BY DEF RoundLaunched
<1>2. /\ Calm(b, S) /\ Calm(d, S) /\ Calm(x, S) BY NotOkCalm, PublishCalm
<1>3. b.mem = a.mem /\ x.mem = a.mem BY DEF Calm, Fields, Publish
<1>4. e.n = c.n /\ e.ep = c.ep BY DEF Threads
<1> HIDE DEF b, d, e, x, y
<1>5. {"freeze", "bind", "execute", "round", "stop", "interrupt"} \subseteq Work \ {"complete"} BY DEF Work
<1>6. \E v : v.on = "round" /\ Asks(v, c, a.mem[c.n]) /\ Calm(G, More(S, v)) BY <1>2, <1>3, <1>5, AsksCalm
<1>7. \E v : v.on = "execute" /\ Asks(v, c, a.mem[c.n]) /\ Calm(X, More(S, v)) BY <1>5, AsksCalm
<1>8. \E v : v.on = "freeze" /\ Asks(v, c, a.mem[c.n]) /\ Calm(F1, More(S, v)) BY <1>5, AsksCalm
<1>9. \E v : v.on = "bind" /\ Asks(v, c, a.mem[c.n]) /\ Calm(B, More(S, v)) BY <1>5, AsksCalm
<1>10. \E v : v.on = "stop" /\ Asks(v, c, a.mem[c.n]) /\ Calm(S1, More(S, v)) BY <1>5, AsksCalm
<1>11. \E v : v.on = "interrupt" /\ Asks(v, c, a.mem[c.n]) /\ Calm(I, More(S, v)) BY <1>4, <1>5, AsksCalm
<1>12. /\ Calm(R1, S) /\ Calm(R2, S) /\ Calm(R3, S) BY <1>2, ShowsCalm
<1>13. /\ Calm(RunRound(a, c), S) /\ Calm(RunBatch(a, c), S) /\ Calm(DecisionCommitted(a, c, then), S)
       /\ Calm(ResultRecorded(a, c), S) /\ Calm(Recovered(a, c, then), S) /\ Calm(Done(a, c), S)
  BY RunRoundCalm, RunBatchCalm, DecisionCommittedCalm, ResultRecordedCalm, RecoveredCalm, DoneCalm
<1>14. Adds(Finalize(a, c)) BY FinalizeCalm
<1>15. Adds(F) BY <1>2, <1>3, FinalizeCalm
<1> HIDE DEF F, I, B, X, G, R1, R2, R3, F1, S1
<1>16. Adds(L) BY <1>11, <1>13
<1>17. Adds(F1) /\ Adds(B) /\ Adds(S1) BY <1>8, <1>9, <1>10
<1> HIDE DEF L
<1>18. CASE then.at = "launched" BY <1>0, <1>1, <1>6, <1>18 DEF y
<1>19. CASE then.at = "intended" BY <1>0, <1>7, <1>19 DEF y
<1>20. CASE then.at \notin {"launched", "intended"}
  <2> HIDE DEF Adds
  <2>0. \A z : Calm(z, S) => Adds(z) BY DEF Adds
  <2>1. ASSUME then.at \in {"started", "held", "lost", "answered", "frozen", "decided", "bound"}
        PROVE  Adds(y)
    BY <1>0, <1>12, <1>13, <1>17, <2>0, <2>1
  <2>2. ASSUME then.at \in {"recorded", "recovered", "over", "asked", "stopped", "unsettled", "abandoned"}
        PROVE  Adds(y)
    BY <1>0, <1>12, <1>13, <1>14, <1>15, <1>16, <1>17, <2>0, <2>2
  <2>3. Adds(y) BY <1>20, <2>1, <2>2 DEF Places
  <2> QED BY <2>3 DEF Adds, y
<1> QED BY <1>18, <1>19, <1>20


\* The save that holds the slot is answered: something is asked for when it
\* was committed, and no round and no execution for a run that is to be
\* cancelled.
LEMMA SlotAnsweredCalm ==
  ASSUME NEW S, S.kind = "workspace", NEW a, Calm(a, S), NEW w, Looks(w.p), w.c \in Threads,
         w.p.then.at \in Places \ {"none"}, NEW s
  PROVE  \/ Calm(SlotAnswered(a, w, s), S)
         \/ /\ s = "committed" /\ Accepted(a, w)
            /\ \E v : /\ v.on \in {"round", "execute"} => a.req # w.c.ep
                      /\ v.on # "complete" /\ a.epoch = w.c.ep
                      /\ Asks(v, w.c, a.mem[w.c.n]) /\ Calm(SlotAnswered(a, w, s), More(S, v))
<1> DEFINE c == w.c
           b == IF s \in {"committed", "refused"} THEN Installed(a) ELSE a
           d == IF a.slot = w.p THEN [b EXCEPT !.slot = NoPending] ELSE b
           free == TxSettled(d, w.p)
           x == SlotAnswered(a, w, s)
           y == Continue(free, c, w.p.then)
<1>1. \/ x \in {Done(b, c), Done(Publish(b, "persistence_pending", c.n), c),
                Done(Publish(RolledBack(free, w.p), "blocked", c.n), c), Settle(free, c)}
      \/ /\ ~(w.p.kind = "checkpoint" /\ a.req = c.ep) /\ x = Continue(free, c, w.p.then)
         /\ s = "committed" /\ Accepted(a, w)
         /\ a.epoch = c.ep
  BY DEF SlotAnswered
<1>2. Calm(b, S) BY InstalledCalm
<1>3. b.mem = a.mem BY DEF Installed, Calm, Fields
<1> HIDE DEF b
<1>4. Calm(d, S) BY <1>2, FreedCalm
<1>5. d.mem = a.mem BY <1>2, <1>3 DEF Calm, Fields
<1> HIDE DEF d
<1>6. Calm(free, S) BY <1>4, TxSettledCalm
<1>7. free.mem = a.mem BY <1>4, <1>5 DEF TxSettled, Calm, Fields
<1> HIDE DEF free, x
<1>8. CASE x \in {Done(b, c), Done(Publish(b, "persistence_pending", c.n), c),
                  Done(Publish(RolledBack(free, w.p), "blocked", c.n), c), Settle(free, c)}
  <2>1. Calm(RolledBack(free, w.p), S) BY <1>6, RolledBackCalm
  <2>2. Calm(x, S) BY <1>2, <1>6, <1>8, <2>1, DoneCalm, ShowsCalm, SettleCalm
  <2> QED BY <2>2 DEF x
<1>9. CASE /\ ~(w.p.kind = "checkpoint" /\ a.req = c.ep) /\ x = y
           /\ s = "committed" /\ Accepted(a, w) /\ a.epoch = c.ep
  <2>1. \/ Calm(y, S)
        \/ \E v : /\ v.on \in {"round", "execute"} => w.p.then.at \in {"launched", "intended"}
                  /\ v.on # "complete"
                  /\ Asks(v, c, free.mem[c.n]) /\ Calm(y, More(S, v))
    BY <1>6, ContinueCalm
  <2>2. w.p.then.at \in {"launched", "intended"} => a.req # c.ep BY <1>9 DEF Looks, Allowed
  <2> HIDE DEF y
  <2> QED BY <1>7, <1>9, <2>1, <2>2 DEF x
<1> HIDE DEF y
<1> QED BY <1>1, <1>8, <1>9 DEF y

LEMMA AckAnsweredCalm == ASSUME NEW S, S.kind = "workspace", NEW a, Calm(a, S), NEW w, NEW s PROVE Calm(AckAnswered(a, w, s), S)
<1> DEFINE c == w.c
           b == IF s \in {"committed", "refused"} THEN Installed(a) ELSE a
           d == IF a.ack = w.p THEN [b EXCEPT !.ack = NoPending] ELSE b
           free == TxSettled(d, w.p)
           e == [free EXCEPT !.run = 0]
<1>1. AckAnswered(a, w, s) \in {Done(b, c), Done(Publish(b, "persistence_pending", c.n), c),
                                Done(Publish(RolledBack(free, w.p), "blocked", c.n), c),
                                Done(Publish(e, "idle", 0), c)}
  BY DEF AckAnswered
<1>2. Calm(b, S) BY InstalledCalm
<1> HIDE DEF b
<1>3. Calm(d, S) BY <1>2, FreedCalm
<1> HIDE DEF d
<1>4. Calm(free, S) BY <1>3, TxSettledCalm
<1> HIDE DEF free
<1>5. Same(free, e) BY <1>4 DEF Same, Calm, Fields
<1> HIDE DEF e
<1>6. Calm(e, S) /\ Calm(RolledBack(free, w.p), S) BY <1>4, <1>5, SameCalm, RolledBackCalm
<1> QED BY <1>1, <1>2, <1>6, DoneCalm, ShowsCalm


\* The attempt that could not be saved is taken out of memory again: nothing was
\* done for it.
LEMMA UnpreparedCalm == ASSUME NEW S, NEW a, Calm(a, S), NEW prep, prep.n = Len(a.mem), prep.n \notin S.kept
                        PROVE  Calm(Unprepared(a, prep), S)
<1> DEFINE m == SubSeq(a.mem, 1, prep.n - 1)
           b == [a EXCEPT !.mem = m]
<1>1. Unprepared(a, prep) \in {a, b} BY DEF Unprepared
<1>2. PICK T : a.mem \in Seq(T) BY DEF Calm, Rows
<1>3. /\ m \in Seq(T) /\ DOMAIN m = DOMAIN a.mem \ {prep.n}
      /\ \A n \in DOMAIN m : n \in DOMAIN a.mem /\ m[n] = a.mem[n]
  <2>1. Len(a.mem) \in Nat /\ DOMAIN a.mem = 1 .. Len(a.mem) BY <1>2
  <2>2. CASE Len(a.mem) = 0
    <3>1. a.mem = << >> BY <1>2, <2>2
    <3>2. m = << >> BY <2>2, <3>1
    <3> QED BY <3>1, <3>2
  <2>3. CASE Len(a.mem) # 0
    <3>1. Len(a.mem) - 1 \in Nat /\ prep.n - 1 = Len(a.mem) - 1 BY <2>1, <2>3
    <3>2. m = [i \in 1 .. Len(a.mem) - 1 |-> a.mem[i]] BY <1>2, <2>1, <3>1
    <3> HIDE DEF m
    <3>3. m \in [1 .. Len(a.mem) - 1 -> T] BY <1>2, <2>1, <3>2
    <3>4. m \in Seq(T) BY <3>1, <3>3, FunIsSeq
    <3>5. DOMAIN m = 1 .. Len(a.mem) - 1 BY <3>2
    <3>6. DOMAIN m = DOMAIN a.mem \ {prep.n} BY <2>1, <2>3, <3>5
    <3> QED BY <3>2, <3>4, <3>5, <3>6
  <2> QED BY <2>2, <2>3
<1>4. Rows(m, S) BY <1>3 DEF Calm, Rows, BareDoc
<1>5. Lines(m, a.waits) BY <1>3 DEF Calm, Lines
<1>6. /\ DOMAIN b = Fields /\ b.kind = a.kind /\ b.waits = a.waits /\ b.slot = a.slot /\ b.ack = a.ack
      /\ b.mem = m /\ b.prep = a.prep /\ b.epoch = a.epoch /\ b.run = a.run
  BY DEF Calm, Fields
<1> HIDE DEF b, m
<1>7. Calm(b, S) BY <1>4, <1>5, <1>6 DEF Calm
<1> QED BY <1>1, <1>7

LEMMA PrepAnsweredCalm == ASSUME NEW S, NEW a, Calm(a, S), a.prep \in Preps, a.prep.n = Len(a.mem), NEW w,
                                 NEW s \in {"not_committed", "unknown", "committed"}
                          PROVE  Calm(PrepAnswered(a, w, s), S)
<1> DEFINE c == w.c
           b == IF s = "committed" THEN Installed(a) ELSE a
           free == [b EXCEPT !.prep = NoPrep]
           u == Unprepared(free, a.prep)
           v == [u EXCEPT !.ok = TRUE]
           x == [free EXCEPT !.ok = FALSE]
           y == [b EXCEPT !.prep.dur = "unknown"]
<1>1. PrepAnswered(a, w, s) \in {Done(Publish(v, "idle", 0), c), PersistTerminal(free, c, "cancelled"),
                                 Done(Publish(x, "blocked", c.n), c), Done(Publish(u, "blocked", 0), c),
                                 Done(Publish(y, "persistence_pending", c.n), c), Run(free, c)}
  BY DEF PrepAnswered
<1>2. Calm(b, S) BY InstalledCalm
<1>3. b.mem = a.mem /\ b.prep = a.prep BY DEF Installed, Calm, Fields
<1> HIDE DEF b
<1>4. Same(b, free) /\ free.mem = a.mem BY <1>2, <1>3 DEF Same, Calm, Fields
<1>5. /\ DOMAIN y = Fields /\ y.kind = b.kind /\ y.waits = b.waits /\ y.slot = b.slot /\ y.ack = b.ack
      /\ y.mem = b.mem /\ y.prep.n = b.prep.n /\ y.epoch = b.epoch /\ y.run = b.run
  <2> DEFINE z == [b.prep EXCEPT !.dur = "unknown"]
  <2>1. z.n = b.prep.n BY <1>3 DEF Preps
  <2>2. y = [b EXCEPT !.prep = z] OBVIOUS
  <2> HIDE DEF z, y
  <2> QED BY <1>2, <2>1, <2>2 DEF Calm, Fields
<1> HIDE DEF free, y
<1>6. Calm(free, S) BY <1>2, <1>4, SameCalm
<1>7. Calm(y, S) BY <1>2, <1>5 DEF Calm
<1>8. Calm(u, S)
  <2>1. a.prep.n = Len(free.mem) /\ a.prep.n \notin S.kept BY <1>4 DEF Calm
  <2> QED BY <1>6, <2>1, UnpreparedCalm
<1> HIDE DEF u
<1>9. Calm(v, S) /\ Calm(x, S) BY <1>6, <1>8, NotOkCalm
<1> HIDE DEF v, x
<1> QED BY <1>1, <1>6, <1>7, <1>8, <1>9, ShowsCalm, PersistTerminalCalm, RunCalm

LEMMA FailAnsweredCalm == ASSUME NEW S, NEW a, Calm(a, S), NEW w, NEW s PROVE Calm(FailAnswered(a, w, s), S)
<1> DEFINE b == IF s = "committed" THEN Installed(a) ELSE a
           ph == IF s = "committed" THEN "retryable" ELSE "persistence_pending"
<1>1. FailAnswered(a, w, s) = Done(Publish(b, ph, w.c.n), w.c) BY DEF FailAnswered
<1>2. Calm(b, S) BY InstalledCalm
<1> HIDE DEF b, ph
<1> QED BY <1>1, <1>2, ShowsCalm

\* The outbox of the last launch.
LEMMA DrainCalm == ASSUME NEW S, NEW a, Calm(a, S), NEW from \in Nat \ {0}
                   PROVE  Calm(Drain(a, from), S)
<1> DEFINE c == Context(Min(Left(a.mem, from)), a.epoch, {})
           w == [on |-> "sweep", c |-> c, p |-> Swept, doc |-> << >>, was |-> a.mem[c.n], arg |-> NoThen]
<1>1. Drain(a, from) \in {a, [a EXCEPT !.waits = Append(@, w)]} BY Zenon DEF Drain, Sweep, Swept
<1>2. CASE S.kind # "workspace"
  <2>1. \A n \in DOMAIN a.mem : a.mem[n].residue = FALSE BY <1>2 DEF Calm, Rows, BareDoc, BareAtt
  <2>2. PICK T : a.mem \in Seq(T) BY DEF Calm, Rows
  <2>3. ASSUME NEW n \in Left(a.mem, from), from \in Nat \ {0} PROVE FALSE
    <3>1. n \in DOMAIN a.mem /\ a.mem[n].residue BY <2>2, <2>3 DEF Left
    <3> QED BY <2>1, <3>1
  <2>4. Drain(a, from) = a BY <2>3 DEF Drain
  <2> QED BY <2>4
<1>3. w = [f \in WaitFields |-> w[f]] BY DEF WaitFields
<1>4. w.on = "sweep" /\ w.p = Swept /\ w.doc = << >> OBVIOUS
<1> HIDE DEF w
<1>5. Ends(Swept)
  <2>1. Looks(NoPending) /\ NoPending.then = NoThen BY NoneLooks DEF Ends
  <2>2. Looks(Swept) /\ Swept.then = NoThen BY <2>1, RestatedLooks DEF Swept
  <2> QED BY <2>2 DEF Ends
<1>6. S.kind = "workspace" => CalmWait(w, S) BY <1>3, <1>4, <1>5 DEF CalmWait, Ends, Work
<1> QED BY <1>2, <1>1, <1>4, <1>6, PushCalm

LEMMA SweepAnsweredCalm == ASSUME NEW S, S.kind = "workspace", NEW a, Calm(a, S), NEW w \in Waits, Ends(w.p), NEW r
                           PROVE  Calm(SweepAnswered(a, w, r), S)
<1> DEFINE n == w.c.n
           m == [a.mem EXCEPT ![n].residue = FALSE]
           tx == [w.p.tx EXCEPT !.before = a.mem[n], !.next = m]
           p == [w.p EXCEPT !.n = n, !.kind = "ack", !.tx = tx]
           x == [a.mem[n] EXCEPT !.residue = FALSE]
           b == [a EXCEPT !.mem = tx.next]
<1>1. SweepAnswered(a, w, r) \in {Drain(a, n + 1), Saving(b, w.c, "swept", p)} BY Zenon DEF SweepAnswered
<1>2. Rewrites(a, b, n, x)
  <2>1. tx.next = m BY DEF Waits, Pends, Txs
  <2>2. b.mem = [a.mem EXCEPT ![n] = x] BY <2>1 DEF Calm, Fields
  <2> HIDE DEF tx, x
  <2> QED BY <2>2 DEF Rewrites, Calm, Fields
<1> HIDE DEF tx, x, b
<1>3. DOMAIN p = DOMAIN w.p /\ p.then = w.p.then BY DEF Ends, Looks
<1> HIDE DEF p
<1>4. Ends(p)
  <2>1. p.then.at \notin {"launched", "intended"} BY <1>3 DEF Ends, NoThen
  <2> QED BY <1>3, <2>1 DEF Ends, Looks, Allowed
<1>5. Calm(Saving(b, w.c, "swept", p), S) BY <1>2, <1>4, RewritesCalm, SavingCalm DEF Ends
<1>6. n + 1 \in Nat \ {0} BY DEF Waits, Threads
<1> QED BY <1>1, <1>5, <1>6, DrainCalm

LEMMA SweptAnsweredCalm == ASSUME NEW S, S.kind = "workspace", NEW a, Calm(a, S), NEW w, w.c.n \in Nat, NEW s
                           PROVE  Calm(SweptAnswered(a, w, s), S)
<1> DEFINE b == IF s \in {"committed", "refused"} THEN Installed(a) ELSE a
<1>1. SweptAnswered(a, w, s) \in {Drain(b, w.c.n + 1), RolledBack(b, w.p), b} BY Zenon DEF SweptAnswered
<1>2. Calm(b, S) BY InstalledCalm
<1> HIDE DEF b
<1>3. w.c.n + 1 \in Nat \ {0} OBVIOUS
<1> QED BY <1>1, <1>2, <1>3, DrainCalm, RolledBackCalm


\* The mark of a direct turn is answered: the provider is asked when it is on
\* disk and still holds.
LEMMA MarkAnsweredCalm ==
  ASSUME NEW S, S.kind # "workspace", NEW a, Calm(a, S), NEW w, NEW s
  PROVE  \/ Calm(MarkAnswered(a, w, s), S)
         \/ /\ s = "committed" /\ a.mem[w.c.n].st = "sending" /\ a.epoch = w.c.ep
            /\ \E v : Asks(v, w.c, a.mem[w.c.n]) /\ Calm(MarkAnswered(a, w, s), More(S, v))
<1> DEFINE c == w.c
           b == IF s = "committed" THEN Installed(a) ELSE a
           d == [b EXCEPT !.act = 0]
           e == Publish(b, "sending", c.n)
           x == MarkAnswered(a, w, s)
<1>1. \/ x \in {Done(b, c), Failed(d, c)}
      \/ s = "committed" /\ a.mem[c.n].st = "sending" /\ a.epoch = c.ep /\ x = Call(e, c, "complete", NoThen)
  BY DEF MarkAnswered
<1>2. Calm(b, S) BY InstalledCalm
<1>3. b.mem = a.mem BY DEF Installed, Calm, Fields
<1> HIDE DEF b
<1>4. Same(b, d) BY <1>2 DEF Same, Calm, Fields
<1>5. Calm(e, S) BY <1>2, PublishCalm
<1>6. e.mem = a.mem BY <1>2, <1>3 DEF Publish, Calm, Fields
<1> HIDE DEF d, e, x
<1>7. Calm(Done(b, c), S) /\ Calm(Failed(d, c), S) BY <1>2, <1>4, SameCalm, DoneCalm, FailedCalm
<1>8. \E v : v.c = c /\ v.was = e.mem[c.n] /\ Calm(Call(e, c, "complete", NoThen), More(S, v)) BY <1>5, WorkCalm
<1>9. \E v : Asks(v, c, a.mem[c.n]) /\ Calm(Call(e, c, "complete", NoThen), More(S, v)) BY <1>6, <1>8 DEF Asks
<1> QED BY <1>1, <1>7, <1>9 DEF x

\* The answers to the other saves.
LEMMA BareAnswerCalm ==
  ASSUME NEW S, NEW a, Calm(a, S), NEW w, NEW s \in Outcomes, w.on \in {"prep", "term", "fail", "commit", "recommit"},
         w.on = "prep" => a.prep \in Preps /\ a.prep.n = Len(a.mem)
  PROVE  Calm(SaveAnswer(a, w, s), S)
<1> DEFINE plain == IF s = "refused" THEN "committed" ELSE s
<1>1. plain \in {"not_committed", "unknown", "committed"} BY DEF Outcomes
<1>2. SaveAnswer(a, w, s) =
        CASE w.on = "slot" -> SlotAnswered(a, w, s) [] w.on \in {"ack", "ackAgain"} -> AckAnswered(a, w, s)
          [] w.on = "prep" -> PrepAnswered(a, w, plain) [] w.on = "term" -> TermAnswered(a, w, plain)
          [] w.on = "fail" -> FailAnswered(a, w, plain) [] w.on = "mark" -> MarkAnswered(a, w, plain)
          [] w.on = "commit" -> CommitAnswered(a, w, plain)
          [] w.on = "recommit" -> RecommitAnswered(a, w, plain) [] w.on = "swept" -> SweptAnswered(a, w, s)
  BY Zenon DEF SaveAnswer
<1> HIDE DEF plain
<1>3. /\ w.on = "prep" => Calm(PrepAnswered(a, w, plain), S)
      /\ Calm(TermAnswered(a, w, plain), S) /\ Calm(FailAnswered(a, w, plain), S)
      /\ Calm(CommitAnswered(a, w, plain), S) /\ Calm(RecommitAnswered(a, w, plain), S)
  BY <1>1, PrepAnsweredCalm, TermAnsweredCalm, FailAnsweredCalm, CommitAnsweredCalm, RecommitAnsweredCalm
<1> QED BY <1>2, <1>3

\* Every answer to a save.  Only a save that was performed makes the controller
\* ask for something: the one of the slot that its transaction accepts, or the
\* mark of a direct turn.
Speaks(a, w, S) ==
  IF S.kind = "workspace" THEN w.on = "slot" /\ Accepted(a, w)
  ELSE w.on = "mark" /\ a.mem[w.c.n].st = "sending"

LEMMA SaveAnswerCalm ==
  ASSUME NEW S, NEW a, Calm(a, S), NEW w \in Waits, w.on \in Saves, CalmWait(w, S), NEW s \in Outcomes,
         w.on = "prep" => a.prep \in Preps /\ a.prep.n = Len(a.mem),
         w.on = "slot" => w.p.then.at \in Places \ {"none"}
  PROVE  \/ Calm(SaveAnswer(a, w, s), S)
         \/ /\ s \in {"committed", "refused"} /\ Speaks(a, w, S) /\ a.epoch = w.c.ep
            /\ \E v : /\ S.kind = "workspace" /\ v.on \in {"round", "execute", "complete"} => a.req # w.c.ep
                      /\ Asks(v, w.c, a.mem[w.c.n]) /\ Calm(SaveAnswer(a, w, s), More(S, v))
<1>1. CASE w.on \in {"prep", "term", "fail", "commit", "recommit"} BY <1>1, BareAnswerCalm
<1>2. CASE w.on = "slot"
  <2>1. S.kind = "workspace" BY <1>2 DEF CalmWait, BareWait
  <2>2. SaveAnswer(a, w, s) = SlotAnswered(a, w, s) BY <1>2 DEF SaveAnswer
  <2>3. Looks(w.p) /\ w.c \in Threads BY DEF CalmWait, Waits
  <2>4. \/ Calm(SlotAnswered(a, w, s), S)
        \/ /\ s = "committed" /\ Accepted(a, w)
           /\ \E v : /\ v.on \in {"round", "execute"} => a.req # w.c.ep
                     /\ v.on # "complete" /\ a.epoch = w.c.ep
                     /\ Asks(v, w.c, a.mem[w.c.n]) /\ Calm(SlotAnswered(a, w, s), More(S, v))
    BY <1>2, <2>1, <2>3, SlotAnsweredCalm
  <2> QED BY <1>2, <2>1, <2>2, <2>4 DEF Speaks
<1>3. CASE w.on = "mark"
  <2> DEFINE plain == IF s = "refused" THEN "committed" ELSE s
  <2>1. S.kind # "workspace" BY <1>3 DEF CalmWait
  <2>2. SaveAnswer(a, w, s) = MarkAnswered(a, w, plain) BY <1>3 DEF SaveAnswer
  <2>3. plain = "committed" => s \in {"committed", "refused"} OBVIOUS
  <2> HIDE DEF plain
  <2>4. \/ Calm(MarkAnswered(a, w, plain), S)
        \/ /\ plain = "committed" /\ a.mem[w.c.n].st = "sending" /\ a.epoch = w.c.ep
           /\ \E v : Asks(v, w.c, a.mem[w.c.n]) /\ Calm(MarkAnswered(a, w, plain), More(S, v))
    BY <2>1, MarkAnsweredCalm
  <2> QED BY <1>3, <2>1, <2>2, <2>3, <2>4 DEF Speaks
<1>4. CASE w.on \in {"ack", "ackAgain", "swept"}
  <2>1. S.kind = "workspace" BY <1>4 DEF CalmWait, BareWait
  <2>2. SaveAnswer(a, w, s) \in {AckAnswered(a, w, s), SweptAnswered(a, w, s)} BY <1>4 DEF SaveAnswer
  <2>3. w.c.n \in Nat BY DEF Waits, Threads
  <2> QED BY <2>1, <2>2, <2>3, AckAnsweredCalm, SweptAnsweredCalm
<1> QED BY <1>1, <1>2, <1>3, <1>4 DEF Saves, Tx


----------------------------------------------------------------------------
(***************************************************************************)
(* Native calls that are answered.                                         *)
(***************************************************************************)

\* One await less: the save of a preparation is answered after the saves that
\* were asked for before it.
InTurn(s, k) == s[k].on = "prep" => \A j \in DOMAIN s : j < k => s[j].doc = << >>

LEMMA LinesTaken ==
  ASSUME NEW T, NEW s \in Seq(T), NEW k \in DOMAIN s, InTurn(s, k), NEW m, Lines(m, s)
  PROVE  Lines(m, SubSeq(s, 1, k - 1) \o SubSeq(s, k + 1, Len(s)))
<1> DEFINE t == SubSeq(s, 1, k - 1) \o SubSeq(s, k + 1, Len(s))
           From(i) == IF i < k THEN i ELSE i + 1
           To(j) == IF j < k THEN j ELSE j - 1
<1>1. /\ t \in Seq(T) /\ Len(t) = Len(s) - 1
      /\ \A i \in DOMAIN t : t[i] = s[From(i)] /\ From(i) \in DOMAIN s \ {k}
  BY RemovedAt
<1> HIDE DEF t
<1>2. DOMAIN s = 1 .. Len(s) /\ DOMAIN t = 1 .. Len(s) - 1 /\ Len(s) \in Nat BY <1>1
<1>3. \A j \in DOMAIN s \ {k} : To(j) \in DOMAIN t /\ From(To(j)) = j BY <1>2
<1>4. \A i \in DOMAIN t : \A j \in DOMAIN s \ {k} : j > From(i) => To(j) > i BY <1>2
<1> HIDE DEF From, To
<1> SUFFICES ASSUME NEW i \in DOMAIN t, t[i].doc # << >>, NEW n \in DOMAIN m
             PROVE  n \in DOMAIN t[i].doc \/ Coming(t, i, n)
  BY DEF Lines, t
<1>5. From(i) \in DOMAIN s /\ s[From(i)].doc # << >> /\ s[From(i)] = t[i] BY <1>1
<1>6. CASE n \in DOMAIN s[From(i)].doc BY <1>5, <1>6
<1>7. CASE Coming(s, From(i), n)
  <2>1. PICK j \in DOMAIN s : j > From(i) /\ s[j].on = "prep" /\ s[j].c.n = n BY <1>7 DEF Coming
  <2>2. j # k
    <3>1. ASSUME j = k PROVE FALSE
      <4>1. From(i) < k BY <1>2, <1>5, <2>1, <3>1
      <4> QED BY <1>5, <2>1, <3>1, <4>1 DEF InTurn
    <3> QED BY <3>1
  <2>3. To(j) \in DOMAIN t /\ t[To(j)] = s[j] /\ To(j) > i BY <1>1, <1>3, <1>4, <2>1, <2>2
  <2> QED BY <2>1, <2>3 DEF Coming
<1> QED BY <1>5, <1>6, <1>7 DEF Lines

LEMMA TakenCalm == ASSUME NEW S, NEW a, Calm(a, S), NEW k \in DOMAIN a.waits, InTurn(a.waits, k)
                   PROVE  Calm(Taken(a, k), S)
<1> DEFINE t == SubSeq(a.waits, 1, k - 1) \o SubSeq(a.waits, k + 1, Len(a.waits))
           b == [a EXCEPT !.waits = t]
<1>1. PICK T : a.waits \in Seq(T) BY DEF Calm, CalmWaits
<1>2. /\ t \in Seq(T)
      /\ \A i \in DOMAIN t : /\ t[i] = a.waits[IF i < k THEN i ELSE i + 1]
                             /\ (IF i < k THEN i ELSE i + 1) \in DOMAIN a.waits \ {k}
  BY <1>1, RemovedAt
<1>3. Taken(a, k) = b BY DEF Taken
<1>4. Lines(a.mem, t)
  <2>1. Lines(a.mem, a.waits) BY DEF Calm
  <2> HIDE DEF b
  <2> QED BY <1>1, <2>1, LinesTaken
<1> HIDE DEF t
<1>5. CalmWaits(t, S)
  <2>1. ASSUME NEW i \in DOMAIN t PROVE CalmWait(t[i], S)
    <3> DEFINE ii == IF i < k THEN i ELSE i + 1
    <3>1. ii \in DOMAIN a.waits /\ t[i] = a.waits[ii] BY <1>2
    <3> HIDE DEF ii
    <3> QED BY <3>1 DEF Calm, CalmWaits
  <2> QED BY <1>2, <2>1 DEF CalmWaits
<1>6. /\ DOMAIN b = Fields /\ b.kind = a.kind /\ b.slot = a.slot /\ b.ack = a.ack /\ b.waits = t
      /\ b.mem = a.mem /\ b.prep = a.prep /\ b.epoch = a.epoch /\ b.run = a.run
  BY DEF Calm, Fields
<1> HIDE DEF b
<1>7. Calm(b, S) BY <1>4, <1>5, <1>6 DEF Calm
<1> QED BY <1>3, <1>7

\* The provider answers a direct turn.
LEMMA CompleteAnsweredCalm == ASSUME NEW S, S.kind # "workspace", NEW a, Calm(a, S), NEW w, NEW r
                              PROVE  Calm(CompleteAnswered(a, w, r), S)
<1> DEFINE c == w.c
           b == [a EXCEPT !.act = 0]
           x == [b.mem[c.n] EXCEPT !.st = "completed"]
           e == [b EXCEPT !.mem[c.n] = x]
           d == [b EXCEPT !.mem[c.n].st = "completed", !.commit = c.n]
<1>1. CompleteAnswered(a, w, r) \in {Done(a, c), Failed(b, c), Saving(Publish(d, "finalizing", c.n), c, "commit", NoPending)}
  BY DEF CompleteAnswered
<1>2. Same(a, b) BY DEF Same, Calm, Fields
<1> HIDE DEF b
<1>3. Calm(b, S) BY <1>2, SameCalm
<1>4. Rewrites(b, e, c.n, x) /\ Same(e, d) BY <1>3 DEF Rewrites, Same, Calm, Fields
<1>5. c.n \in DOMAIN b.mem => BareAtt(x)
  <2> DEFINE y == b.mem[c.n]
  <2>1. ASSUME c.n \in DOMAIN b.mem PROVE BareAtt(y) BY <1>3, <2>1 DEF Calm, Rows, BareDoc
  <2>2. x = [y EXCEPT !.st = "completed"] OBVIOUS
  <2> HIDE DEF x, y
  <2>3. ASSUME BareAtt(y) PROVE BareAtt(x)
    <3>1. DOMAIN y = AttFields BY <2>3 DEF BareAtt
    <3>2. x = [f \in AttFields |-> x[f]] /\ x.jr = y.jr /\ x.residue = y.residue /\ x.st = "completed"
      BY <2>2, <3>1 DEF AttFields
    <3> QED BY <2>3, <3>2 DEF BareAtt, Unfinished
  <2> QED BY <2>1, <2>3
<1> HIDE DEF x, e, d
<1>6. Calm(d, S) BY <1>3, <1>4, <1>5, RewritesCalm, SameCalm
<1> QED BY <1>1, <1>3, <1>6, DoneCalm, FailedCalm, PublishCalm, PlainSavingCalm

\* Every answer of native.
LEMMA NativeAnswerCalm ==
  ASSUME NEW S, NEW a, Calm(a, S), NEW w \in Waits, w.on \in Native, CalmWait(w, S), NEW r,
         w.on = "prepare" => IF S.kind = "workspace" THEN r.ans # "not_agent"
                             ELSE r.ans \in {"throw", "conflict", "not_agent"},
         w.on = "round" => r.ans \in RoundAnswers,
         w.on = "recover" => r.ans \in {"throw", "conflict", "retryable", "ok", "manual"}
  PROVE  Calm(NativeAnswer(a, w, r), S)
<1>1. NativeAnswer(a, w, r) =
        CASE w.on = "prepare"   -> PrepareAnswered(a, w, r)
          [] w.on = "round"     -> RoundAnswered(a, w, r)
          [] w.on = "freeze"    -> FreezeAnswered(a, w, r)
          [] w.on = "bind"      -> BindAnswered(a, w, r)
          [] w.on = "execute"   -> ExecuteAnswered(a, w, r)
          [] w.on = "finalize"  -> FinalizeAnswered(a, w, r)
          [] w.on = "discard"   -> DiscardAnswered(a, w, r)
          [] w.on = "interrupt" -> InterruptAnswered(a, w, r)
          [] w.on = "sweep"     -> SweepAnswered(a, w, r)
          [] w.on = "query"     -> QueryAnswered(a, w, r)
          [] w.on = "recover"   -> RecoverAnswered(a, w, r)
          [] w.on = "stop"      -> StopAnswered(a, w, r)
          [] w.on = "complete"  -> CompleteAnswered(a, w, r)
          [] w.on = "withdraw"  -> WithdrawAnswered(a, w)
  BY Zenon DEF NativeAnswer
<1>2. w.on = "prepare" => Calm(PrepareAnswered(a, w, r), S) BY PrepareAnsweredCalm
<1>3. Calm(WithdrawAnswered(a, w), S) BY WithdrawAnsweredCalm
<1>4. CASE S.kind # "workspace"
  <2>1. w.on \in {"prepare", "complete", "withdraw"} BY <1>4 DEF CalmWait, BareWait, Native
  <2>2. Calm(CompleteAnswered(a, w, r), S) BY <1>4, CompleteAnsweredCalm
  <2> QED BY <1>1, <1>2, <1>3, <2>1, <2>2
<1>5. CASE S.kind = "workspace"
  <2>1. w.on \in Native \ {"complete"} BY <1>5 DEF CalmWait
  <2>2. w.on = "sweep" => Ends(w.p) BY DEF CalmWait
  <2>3. /\ w.on = "round" => Calm(RoundAnswered(a, w, r), S)
        /\ w.on = "recover" => Calm(RecoverAnswered(a, w, r), S)
        /\ w.on = "sweep" => Calm(SweepAnswered(a, w, r), S)
    BY <1>5, <2>2, RoundAnsweredCalm, RecoverAnsweredCalm, SweepAnsweredCalm
  <2>4. /\ Calm(FreezeAnswered(a, w, r), S) /\ Calm(BindAnswered(a, w, r), S) /\ Calm(ExecuteAnswered(a, w, r), S)
        /\ Calm(FinalizeAnswered(a, w, r), S) /\ Calm(DiscardAnswered(a, w, r), S)
        /\ Calm(InterruptAnswered(a, w, r), S) /\ Calm(QueryAnswered(a, w, r), S) /\ Calm(StopAnswered(a, w, r), S)
    BY <1>5, FreezeAnsweredCalm, BindAnsweredCalm, ExecuteAnsweredCalm, FinalizeAnsweredCalm, DiscardAnsweredCalm,
       InterruptAnsweredCalm, QueryAnsweredCalm, StopAnsweredCalm
  <2>5. CASE w.on \in {"prepare", "round", "freeze", "bind", "execute", "finalize", "discard"}
    BY <1>1, <1>2, <2>3, <2>4, <2>5
  <2>6. CASE w.on \in {"interrupt", "sweep", "query", "recover", "stop", "withdraw"}
    BY <1>1, <1>3, <2>3, <2>4, <2>6
  <2> QED BY <2>1, <2>5, <2>6 DEF Native
<1> QED BY <1>4, <1>5

\* What the agent says of the kind of the conversation.
LEMMA KindIsTold ==
  ASSUME NEW x, NEW w, w.on = "prepare", app.kind \in {"workspace", "rootless"}, NEW e \in Effects(x, w) \cup Mishaps(x, w)
  PROVE  IF app.kind = "workspace" THEN e.r.ans # "not_agent" ELSE e.r.ans \in {"throw", "conflict", "not_agent"}
<1>1. Effects(x, w) = PrepareAttempt(x, w.c.n \in DOMAIN disk, app.kind) BY Zenon DEF Effects
<1>2. \A y, s : Did(y, s).r.ans = s BY DEF Did, Answer
<1>3. \A f \in Effects(x, w) : IF app.kind = "rootless" THEN f.r.ans \in {"conflict", "not_agent"} ELSE f.r.ans \in {"ok", "conflict"}
  BY <1>1, <1>2 DEF PrepareAttempt, Refusal
<1>4. CASE e \in Effects(x, w) BY <1>3, <1>4
<1>5. CASE e \in Mishaps(x, w)
  <2>1. \E y : e = Did(y, "throw") \/ e = Did(y, "conflict") BY <1>5 DEF Mishaps
  <2> QED BY <1>2, <2>1
<1> QED BY <1>4, <1>5


----------------------------------------------------------------------------
(***************************************************************************)
(* Commands.                                                               *)
(***************************************************************************)

\* The same, but for what epochs may come.
Scene(kind, kept, work, eps) == [kind |-> kind, kept |-> kept, work |-> work, eps |-> eps]
Onward(n) == {e \in Nat : e >= n}

LEMMA OnwardRises == ASSUME NEW n \in Nat PROVE Rising(Onward(n)) /\ n \in Onward(n) /\ Onward(n) \subseteq Nat
<1> QED BY DEF Rising, Onward

LEMMA NatRises == Rising(Nat)
<1> QED BY DEF Rising

LEMMA Rescaled == ASSUME NEW S, NEW a, Calm(a, S), NEW E, Rising(E), a.epoch \in E
                  PROVE  Calm(a, Scene(S.kind, S.kept, S.work, E))
<1> DEFINE R == Scene(S.kind, S.kept, S.work, E)
<1>1. R.kind = S.kind /\ R.kept = S.kept /\ R.work = S.work /\ R.eps = E BY DEF Scene
<1> HIDE DEF R
<1>2. \A w : CalmWait(w, S) => CalmWait(w, R) BY <1>1 DEF CalmWait
<1>3. CalmWaits(a.waits, R) BY <1>2 DEF Calm, CalmWaits
<1>4. Rows(a.mem, R) BY <1>1 DEF Calm, Rows
<1>5. Calm(a, R) BY <1>1, <1>3, <1>4 DEF Calm
<1> QED BY <1>5 DEF R

LEMMA RaiseCalm == ASSUME NEW S, NEW a, Calm(a, S) PROVE Calm(Raise(a), S)
<1>1. Same(a, Raise(a)) BY DEF Same, Calm, Fields, Raise
<1> QED BY <1>1, SameCalm

\* A conversation without a workspace has no agent.
LEMMA BareIsNoAgent == ASSUME NEW S, NEW a, Calm(a, S), S.kind # "workspace", NEW n \in DOMAIN a.mem
                       PROVE  ~IsAgent(a.mem[n]) /\ a.mem[n].jr = NoJournal
<1> QED BY DEF Calm, Rows, BareDoc, BareAtt, IsAgent

\* A save that is repeated looks as its first one did.
LEMMA SilentLooks == ASSUME NEW p \in Pends, Looks(p) PROVE Looks(Silent(p))
<1> DEFINE t == [p.then EXCEPT !.live = FALSE]
           q == [p EXCEPT !.then = t]
<1>1. Silent(p) = q BY DEF Silent
<1>2. t.at = p.then.at BY DEF Pends, Thens
<1> HIDE DEF t
<1>3. DOMAIN q = DOMAIN p /\ q.then = t /\ q.kind = p.kind BY DEF Looks
<1> HIDE DEF q
<1> QED BY <1>1, <1>2, <1>3 DEF Looks, Allowed

LEMMA RepeatedCalm ==
  ASSUME NEW S, Calm(app, S), app \in Apps, RetryPersistence
  PROVE  Calm(app', S)
<1> DEFINE p == IF app.slot = NoPending THEN app.slot ELSE Silent(app.slot)
           a == Repeating(app, p)
           Again(n, ep) == Context(n, ep, {"retry"})
           R1 == Saving(a, Again(a.slot.n, a.slot.ep), "slot", a.slot)
           R2 == Saving(a, Again(a.ack.n, a.ack.ep), "ackAgain", a.ack)
           R3 == Saving(a, Again(a.term.n, a.epoch), "term", NoPending)
           R4 == Saving(a, Again(a.prep.n, a.prep.ep), "prep", NoPending)
<1>1. \/ a.slot # NoPending /\ app' = R1
      \/ a.ack # NoPending /\ app' = R2
      \/ app' \in {R3, R4, app}
  BY Zenon DEF RetryPersistence, Repeating
<1>2. Looks(p) /\ (S.kind # "workspace" => p = NoPending)
  <2>1. Looks(app.slot) /\ app.slot \in Pends BY DEF Calm, Apps
  <2>2. S.kind # "workspace" => app.slot = NoPending BY DEF Calm
  <2> QED BY <2>1, <2>2, SilentLooks
<1> HIDE DEF p
<1>3. /\ DOMAIN a = Fields /\ a.kind = app.kind /\ a.waits = app.waits /\ a.slot = p /\ a.ack = app.ack
      /\ a.mem = app.mem /\ a.prep = app.prep /\ a.epoch = app.epoch /\ a.run = app.run
  BY DEF Repeating, Calm, Fields
<1> HIDE DEF a
<1>4. Calm(a, S) BY <1>2, <1>3 DEF Calm
<1>5. Looks(a.slot) /\ Ends(a.ack) BY <1>4 DEF Calm
<1>6. S.kind # "workspace" => a.slot = NoPending /\ a.ack = NoPending BY <1>4 DEF Calm
<1>7. S.kind = "workspace" => Calm(R1, S) /\ Calm(R2, S) BY <1>4, <1>5, SavingCalm DEF Ends
<1>8. Calm(R3, S) /\ Calm(R4, S) BY <1>4, PlainSavingCalm
<1> HIDE DEF R1, R2, R3, R4
<1> QED BY <1>1, <1>6, <1>7, <1>8

\* The query that a cancellation lets go of.
LEMMA QueryOfAsks == ASSUME NEW a \in Apps, QueryOf(a) # 0 PROVE a.waits[QueryOf(a)].on = "query"
<1> DEFINE I == {i \in 1 .. Len(a.waits) : a.waits[i].on = "query" /\ a.waits[i].c.ep = a.read}
<1>1. QueryOf(a) = IF I # {} THEN Min(I) ELSE 0 BY DEF QueryOf, SelectInSeq
<1>2. a.waits \in Seq(Waits) BY DEF Apps
<1>3. I \in SUBSET Nat /\ \A i \in I : a.waits[i].on = "query" BY <1>2
<1> HIDE DEF I
<1>4. I # {} => Min(I) \in I BY <1>3, LeastIn
<1> QED BY <1>1, <1>3, <1>4

\* A cancellation moves the epoch on, unless there is a run to be settled.
LEMMA CancelledCalm == ASSUME NEW S, NEW a \in Apps, Calm(Raise(a), S),
                              a.run # 0 => Calm(a, S) /\ a.runOf \in DOMAIN a.mem
                       PROVE  Calm(Cancelled(a), S)
<1> DEFINE a1 == Raise(a)
           k == QueryOf(a)
           u == Taken(a1, k)
           v == Publish(u, "resume_available", a.runOf)
           x == [v EXCEPT !.run = 0, !.read = 0, !.ok = FALSE]
           b == [a EXCEPT !.req = a.run, !.ok = FALSE]
           c == Context(a.runOf, a.run, {})
           d == [a1 EXCEPT !.act = 0]
           e == Context(a.act, a1.epoch, {})
           f == [a1 EXCEPT !.ok = TRUE]
           n == a.prep.n
           g == [a1 EXCEPT !.prep = NoPrep]
           h == [a1 EXCEPT !.prep = NoPrep, !.ok = FALSE]
           m == Context(n, a1.epoch, {})
           Z == IF a.slot # NoPending \/ ~IsAgent(a.mem[a.runOf]) THEN Publish(b, "cancelling", a.runOf) ELSE Settle(b, c)
<1>1. Cancelled(a) =
        CASE a.read # 0 /\ a.run = a.read -> x
          [] a.run # 0 /\ a.run # a.read -> Z
          [] a.run = 0 /\ a.act # 0 -> Call(Publish(d, "cancelling", a.act), e, "withdraw", NoThen)
          [] a.run = 0 /\ a.act = 0 /\ a.prep = NoPrep -> Publish(f, "idle", 0)
          [] a.run = 0 /\ a.act = 0 /\ a.prep # NoPrep ->
               IF a.prep.dur = "none" \/ a.retrying THEN Publish(a1, "cancelling", n)
               ELSE IF Unfinished(a.mem[n]) THEN PersistTerminal(g, m, "cancelled")
               ELSE Publish(h, "blocked", n)
  BY Zenon DEF Cancelled, Raise
<1>2. a1 \in Apps /\ a1.waits = a.waits
  <2> DEFINE ep == a.epoch + 1
  <2>1. ep \in Nat BY DEF Apps
  <2>2. a1 = [a EXCEPT !.epoch = ep] BY DEF Raise
  <2> HIDE DEF ep, a1
  <2> QED BY <2>1, <2>2 DEF Apps
<1>3. Calm(a1, S) OBVIOUS
<1>4. k = 0 \/ (k \in DOMAIN a1.waits /\ InTurn(a1.waits, k)) BY <1>2, QueryOfIn, QueryOfAsks DEF InTurn
<1> HIDE DEF a1, k
<1>5. Calm(u, S) BY <1>2, <1>3, <1>4, NoneTaken, TakenCalm
<1> HIDE DEF u
<1>6. Calm(v, S) BY <1>5, PublishCalm
<1> HIDE DEF v
<1>7. Same(v, x) BY <1>6 DEF Same, Calm, Fields
<1>8. a.run # 0 => Same(a, b) BY DEF Same, Calm, Fields
<1>9. Same(a1, d) /\ Same(a1, f) /\ Same(a1, g) /\ Same(a1, h) BY <1>3 DEF Same, Calm, Fields
<1> HIDE DEF x, b, d, f, g, h, c, e, m, n
<1>10. Calm(x, S) /\ (a.run # 0 => Calm(b, S)) /\ Calm(d, S) /\ Calm(f, S) /\ Calm(g, S) /\ Calm(h, S)
  BY <1>3, <1>6, <1>7, <1>8, <1>9, SameCalm
<1>11. a.run # 0 => Calm(Z, S)
  <2>1. a.run # 0 => Calm(Publish(b, "cancelling", a.runOf), S) BY <1>10, PublishCalm
  <2>2. a.run # 0 /\ S.kind = "workspace" => Calm(Settle(b, c), S) BY <1>10, SettleCalm
  <2>3. a.run # 0 /\ S.kind # "workspace" => ~IsAgent(a.mem[a.runOf]) BY BareIsNoAgent
  <2> QED BY <2>1, <2>2, <2>3
<1>12. Calm(Call(Publish(d, "cancelling", a.act), e, "withdraw", NoThen), S) /\ Calm(Publish(f, "idle", 0), S)
  BY <1>10, PublishCalm, CallCalm
<1>13. /\ Calm(Publish(a1, "cancelling", n), S) /\ Calm(PersistTerminal(g, m, "cancelled"), S)
       /\ Calm(Publish(h, "blocked", n), S)
  BY <1>3, <1>10, PublishCalm, PersistTerminalCalm
<1>14. \/ a.read # 0 /\ a.run = a.read
       \/ a.run # 0 /\ a.run # a.read
       \/ a.run = 0 /\ a.act # 0
       \/ a.run = 0 /\ a.act = 0 /\ a.prep = NoPrep
       \/ a.run = 0 /\ a.act = 0 /\ a.prep # NoPrep
  OBVIOUS
<1> HIDE DEF Z
<1> QED BY <1>1, <1>10, <1>11, <1>12, <1>13, <1>14

\* Nothing that the user commands asks for work at once.
LEMMA CommandCalm ==
  ASSUME NEW S, Calm(app, S), app \in Apps, app.run # 0 => app.runOf \in DOMAIN app.mem,
         app.phase \in {"retryable", "resume_available"} => app.at \in DOMAIN app.mem,
         \/ Send \/ Retry \/ Resume \/ AbandonAndRetry \/ RetryPersistence \/ RetryCommit
         \/ Cancel \/ Leave \/ Reopen
  PROVE  Calm(app', S)
<1>1. Calm(Raise(app), S) BY RaiseCalm
<1>2. ASSUME Send PROVE Calm(app', S)
  <2>1. app' \in {Begin(Raise(app), Context(0, Raise(app).epoch, {})), Publish(Raise(app), "blocked", 0)}
    BY <1>2 DEF Send, Raise
  <2> QED BY <1>1, <2>1, BeginCalm, PublishCalm
<1>3. ASSUME Retry PROVE Calm(app', S)
  <2>1. PICK n \in DOMAIN app.mem :
          \/ IsAgent(app.mem[n]) /\ app' = Recover(app, n)
          \/ app' \in {Begin(Raise(app), Context(n, Raise(app).epoch, {})), Publish(Raise(app), "blocked", n)}
    BY <1>3 DEF Retry, Raise
  <2>2. IsAgent(app.mem[n]) => S.kind = "workspace" BY BareIsNoAgent
  <2> QED BY <1>1, <2>1, <2>2, BeginCalm, PublishCalm, RecoverCalm
<1>4. ASSUME Resume PROVE Calm(app', S)
  <2>1. \/ IsAgent(app.mem[app.at]) /\ app' = Recover(app, app.at)
        \/ app' \in {Run(Raise(app), Context(app.at, Raise(app).epoch, {})), Publish(app, "blocked", app.at)}
    BY <1>4 DEF Resume, Raise
  <2>2. app.at \in DOMAIN app.mem BY <1>4 DEF Resume
  <2>3. IsAgent(app.mem[app.at]) => S.kind = "workspace" BY <2>2, BareIsNoAgent
  <2> QED BY <1>1, <2>1, <2>3, RunCalm, PublishCalm, RecoverCalm
<1>5. ASSUME AbandonAndRetry PROVE Calm(app', S)
  <2> DEFINE att == Abandoned(app.mem[app.at])
             c == Context(app.at, app.epoch + 1, {})
  <2>1. app' \in {Publish(Raise(app), "blocked", app.at), Save(Raise(app), c, "checkpoint", att, Then("abandoned"))}
    BY <1>5 DEF AbandonAndRetry, Raise
  <2>2. app.at \in DOMAIN app.mem /\ app.mem[app.at].jr.ph \in {"unknown", "ambiguous"} BY <1>5 DEF AbandonAndRetry
  <2>3. S.kind = "workspace" BY <2>2, BareIsNoAgent DEF NoJournal
  <2> HIDE DEF att, c
  <2> QED BY <1>1, <2>1, <2>3, AllowedThen, PublishCalm, SaveCalm
<1>6. ASSUME RetryCommit PROVE Calm(app', S)
  <2> DEFINE a == [app EXCEPT !.recommit = TRUE]
             c == Context(app.commit, app.epoch, {"recommit"})
  <2>1. app' = Saving(a, c, "recommit", NoPending) BY <1>6 DEF RetryCommit
  <2>2. Same(app, a) BY DEF Same, Calm, Fields
  <2> HIDE DEF a, c
  <2> QED BY <2>1, <2>2, SameCalm, PlainSavingCalm
<1>7. ASSUME Cancel \/ Leave PROVE Calm(app', S)
  <2>1. app' = Cancelled(app) BY <1>7 DEF Cancel, Leave
  <2> QED BY <1>1, <2>1, CancelledCalm
<1>8. ASSUME Reopen PROVE Calm(app', S)
  <2>1. \E ph, n : app' = Publish(app, ph, n) BY <1>8 DEF Reopen
  <2> QED BY <2>1, PublishCalm
<1> QED BY <1>2, <1>3, <1>4, <1>5, <1>6, <1>7, <1>8, RepeatedCalm


----------------------------------------------------------------------------
(***************************************************************************)
(* What each action does to the controller.                                *)
(***************************************************************************)

\* An answer to the first save that waits, the await "k".
SaveStep(k, w, s) ==
  /\ k \in DOMAIN app.waits /\ w = app.waits[k] /\ w \in Waits /\ w.on \in Saves
  /\ w.doc # << >> /\ \A j \in DOMAIN app.waits : j < k => app.waits[j].doc = << >>
  /\ w.on = "slot" => w.p.then.at \in Places \ {"none"} /\ w.p.n = w.c.n /\ w.p.kind # "ack"
  /\ w.on = "prep" => app.prep \in Preps /\ app.prep.n = Len(app.mem)
  /\ w.on # "prep" => Live(app, w.c.n)
  /\ s \in Outcomes /\ app' = SaveAnswer(Taken(app, k), w, s)
  /\ disk' \in {disk, w.doc} /\ (s \in {"committed", "refused"} => disk' = w.doc)

\* No save waits before the first one.
LEMMA FirstSaveIsFirst ==
  ASSUME NEW a \in Apps, FirstSave(a) # 0
  PROVE  \A j \in DOMAIN a.waits : j < FirstSave(a) => a.waits[j].doc = << >>
<1> DEFINE I == {i \in 1 .. Len(a.waits) : a.waits[i].doc # << >>}
           k == FirstSave(a)
<1>1. k = IF I # {} THEN Min(I) ELSE 0 BY DEF FirstSave, SelectInSeq
<1>2. a.waits \in Seq(Waits) BY DEF Apps
<1>3. I \in SUBSET Nat /\ \A i \in DOMAIN a.waits : a.waits[i].doc # << >> => i \in I BY <1>2
<1>4. DOMAIN a.waits \subseteq Nat BY <1>2
<1> HIDE DEF I, k
<1>5. k = Min(I) /\ I # {} BY <1>1 DEF k
<1>6. k \in I /\ \A i \in I : k <= i BY <1>3, <1>5, LeastIn
<1>7. ASSUME NEW j \in DOMAIN a.waits, j < k, a.waits[j].doc # << >> PROVE FALSE
  <2>1. k <= j /\ j \in Nat /\ k \in Nat BY <1>3, <1>6, <1>7
  <2> QED BY <1>7, <2>1
<1> QED BY <1>7 DEF k

LEMMA SaveSeen == ASSUME IInv, SaveAnswered PROVE \E k, w, s : SaveStep(k, w, s)
<1> DEFINE k == FirstSave(app)
           w == app.waits[k]
<1>1. k # 0 /\ \E s \in Outcomes : /\ app' = SaveAnswer(Taken(app, k), w, s)
                                   /\ disk' \in {disk, w.doc}
                                   /\ s \in {"committed", "refused"} => disk' = w.doc
  BY DEF SaveAnswered, Outcomes
<1>2. app \in Apps /\ Refs(app, Gone) BY InvHas DEF Sound
<1>3. k \in DOMAIN app.waits /\ w.on \in Saves BY <1>1, InvHas, OnItsWayDoc
<1>4. w.doc # << >> /\ \A j \in DOMAIN app.waits : j < k => app.waits[j].doc = << >>
  BY <1>1, <1>2, FirstSaveIn, FirstSaveIsFirst
<1>5. WaitOK(app, w, asks, Gone) /\ w \in Waits BY <1>3, InvHas, AwaitedIn DEF Sound
<1>6. app.prep \in Preps BY <1>2 DEF Apps
<1>7. w = app.waits[k] OBVIOUS
<1> HIDE DEF k, w
<1>8. w.on = "slot" => w.p.then.at \in Places \ {"none"} /\ w.p.n = w.c.n /\ w.p.kind # "ack"
  <2>1. w.p.then.at \in Places BY <1>5 DEF Waits, Pends, Thens
  <2> QED BY <1>5, <2>1 DEF WaitOK, OnJournal, Tx
<1>9. w.on = "prep" => app.prep.n = Len(app.mem) BY <1>2, <1>5 DEF WaitOK, Refs
<1>10. w.on # "prep" => Live(app, w.c.n) BY <1>5 DEF WaitOK
<1> QED BY <1>1, <1>3, <1>4, <1>5, <1>6, <1>7, <1>8, <1>9, <1>10 DEF SaveStep

\* A native answer to the await "w".
NativeStep(k, w, r) ==
  /\ k \in DOMAIN app.waits /\ w = app.waits[k] /\ w \in Waits /\ w.on \in Native
  /\ w.on = "prepare" /\ app.kind \in {"workspace", "rootless"} =>
       IF app.kind = "workspace" THEN r.ans # "not_agent" ELSE r.ans \in {"throw", "conflict", "not_agent"}
  /\ w.on = "round" => r.ans \in RoundAnswers
  /\ w.on = "recover" => r.ans \in {"throw", "conflict", "retryable", "ok", "manual"}
  /\ app' = NativeAnswer(Taken(app, k), w, r) /\ disk' = disk

LEMMA NativeSeen == ASSUME IInv, NativeAnswered PROVE \E k, w, r : NativeStep(k, w, r)
<1>1. PICK k \in DOMAIN app.waits :
        /\ app.waits[k].on \in Native /\ disk' = disk
        /\ \E e \in Effects(nat[app.waits[k].c.n], app.waits[k]) \cup Mishaps(nat[app.waits[k].c.n], app.waits[k]) :
             app' = NativeAnswer(Taken(app, k), app.waits[k], e.r)
  BY DEF NativeAnswered
<1> DEFINE w == app.waits[k]
           x == nat[w.c.n]
<1>2. PICK e \in Effects(x, w) \cup Mishaps(x, w) : app' = NativeAnswer(Taken(app, k), w, e.r)
  BY <1>1
<1>3. w.c.n \in Attempts /\ w \in Waits BY InvHas, AwaitedIn
<1>4. x \in Evidence BY <1>3, InvHas
<1>5. w.on = "bind" => w.arg.d \in Verdicts BY InvHas DEF Sound, WaitOK
<1>6. w.on \in Native /\ w = app.waits[k] BY <1>1
<1> HIDE DEF x, w
<1>7. Honest(x, w, e) BY <1>2, <1>3, <1>4, <1>5, <1>6, EffectsHonest, MishapsHonest
<1>8. w.on = "prepare" /\ app.kind \in {"workspace", "rootless"} =>
        IF app.kind = "workspace" THEN e.r.ans # "not_agent" ELSE e.r.ans \in {"throw", "conflict", "not_agent"}
  BY <1>2, KindIsTold
<1>9. NativeStep(k, w, e.r) BY <1>1, <1>2, <1>3, <1>6, <1>7, <1>8 DEF NativeStep, Honest
<1> QED BY <1>9

LEMMA DecisionSeen == ASSUME UserDecides
                      PROVE  /\ disk' = disk
                             /\ \E k \in DOMAIN app.waits : /\ app.waits[k].on = "approve"
                                                            /\ \E w, more : app' = ApproveAnswered(Taken(app, k), w, more)
<1> QED BY Zenon DEF UserDecides

\* Another launch, over what is on disk or on its way there.
LEMMA LaunchSeen == ASSUME Relaunch
                    PROVE  \E d, ph, n : /\ d = disk \/ (FirstSave(app) # 0 /\ d = app.waits[FirstSave(app)].doc)
                                         /\ disk' = [i \in DOMAIN d |-> Hydrated(d[i])]
                                         /\ app' = Drain(Fresh(app.kind, disk', ph, n), 1)
<1> DEFINE k == FirstSave(app)
           Hydrate(d) == [i \in DOMAIN d |-> Hydrated(d[i])]
<1>1. PICK d \in {disk} \cup (IF k = 0 THEN {} ELSE {app.waits[k].doc}) :
        /\ disk' = Hydrate(d)
        /\ app' = Drain(Fresh(app.kind, Hydrate(d), Shown(Hydrate(d)), IF Shown(Hydrate(d)) = "idle" THEN 0 ELSE Len(Hydrate(d))), 1)
  BY Zenon DEF Relaunch
<1>2. d = disk \/ (k # 0 /\ d = app.waits[k].doc) BY <1>1
<1> HIDE DEF Hydrate, k
<1>3. \E ph, n : app' = Drain(Fresh(app.kind, disk', ph, n), 1) BY <1>1, Zenon
<1> QED BY <1>1, <1>2, <1>3 DEF Hydrate, k


----------------------------------------------------------------------------
(***************************************************************************)
(* Steps.                                                                  *)
(***************************************************************************)

\* What is on disk knows the attempts that have to stay.
Grounded(S, d) == S.kept \subseteq DOMAIN d /\ (S.kind # "workspace" => BareDoc(d))

\* A save that waits holds every attempt but the one being prepared.
LEMMA Written == ASSUME IInv, NEW S, Calm(app, S), NEW k \in DOMAIN app.waits, app.waits[k].doc # << >>,
                        NEW n, Live(app, n)
                 PROVE  n \in DOMAIN app.waits[k].doc
<1>1. n \in DOMAIN app.mem /\ (app.prep # NoPrep => n # app.prep.n) BY DEF Live
<1>2. n \in DOMAIN app.waits[k].doc \/ Coming(app.waits, k, n) BY <1>1 DEF Calm, Lines
<1>3. ASSUME Coming(app.waits, k, n) PROVE FALSE
  <2>1. PICK j \in DOMAIN app.waits : app.waits[j].on = "prep" /\ app.waits[j].c.n = n BY <1>3 DEF Coming
  <2>2. WaitOK(app, app.waits[j], asks, Gone) BY InvHas DEF Sound
  <2>3. app.prep # NoPrep /\ app.waits[j].c.n = app.prep.n BY <2>1, <2>2 DEF WaitOK
  <2> QED BY <1>1, <2>1, <2>3
<1> QED BY <1>2, <1>3

\* A controller that has just read a document.
LEMMA Nobody == ASSUME NEW S, NEW doc, Rows(doc, S), Rising(S.eps), 0 \in S.eps, NEW ph, NEW n
                PROVE  Calm(Fresh(S.kind, doc, ph, n), S)
<1> DEFINE a == Fresh(S.kind, doc, ph, n)
<1>1. /\ DOMAIN a = Fields /\ a.kind = S.kind /\ a.slot = NoPending /\ a.ack = NoPending
      /\ a.waits = << >> /\ a.mem = doc /\ a.prep = NoPrep /\ a.epoch = 0 /\ a.run = 0
  BY DEF Fresh, Fields
<1>2. CalmWaits(<< >>, S) /\ Lines(doc, << >>)
  <2>1. << >> \in Seq({}) /\ DOMAIN << >> = {} OBVIOUS
  <2> QED BY <2>1 DEF CalmWaits, Lines
<1>3. NoPrep.n \notin S.kept
  <2>1. PICK T : doc \in Seq(T) BY DEF Rows
  <2>2. 0 \notin DOMAIN doc BY <2>1
  <2> QED BY <2>2 DEF Rows, NoPrep
<1> HIDE DEF a
<1>4. Calm(a, S) BY <1>1, <1>2, <1>3, NoneLooks DEF Calm, Ends
<1> QED BY <1>4 DEF a

\* The next launch reads the same attempts, and makes none an agent's.
LEMMA HydratedBare == ASSUME NEW att, BareAtt(att) PROVE BareAtt(Hydrated(att))
<1> DEFINE r == att.residue \/ IsAgent(att)
           b == [att EXCEPT !.st = "failed", !.code = "interrupted", !.residue = r]
<1>1. Hydrated(att) \in {att, b} BY Zenon DEF Hydrated
<1>2. r = FALSE BY DEF BareAtt, IsAgent
<1>3. att = [f \in AttFields |-> att[f]] /\ att.jr = NoJournal BY DEF BareAtt
<1> HIDE DEF r
<1>4. DOMAIN att = AttFields BY <1>3
<1>5. b = [f \in AttFields |-> b[f]] BY <1>4 DEF AttFields
<1>6. b.jr = NoJournal /\ b.residue = FALSE /\ b.st = "failed" BY <1>2, <1>3, <1>4 DEF AttFields
<1> HIDE DEF b
<1>7. BareAtt(b) BY <1>5, <1>6 DEF BareAtt, Unfinished
<1> QED BY <1>1, <1>7


\* After a step the controller asks for no other work than before, but for one
\* call at most: for an attempt that is on disk as it asks for it, in the current
\* epoch, and no round and no execution of a run that is to be cancelled.
Anew(S) == Scene(S.kind, S.kept, S.work, Nat)
After(S) ==
  \/ Calm(app', S)
  \/ Relaunch /\ Calm(app', Anew(S))
  \/ \E c, v : /\ c.n \in DOMAIN disk' /\ Asks(v, c, disk'[c.n]) /\ Calm(app', More(S, v)) /\ c.ep = app.epoch
               /\ S.kind = "workspace" /\ v.on \in {"round", "execute", "complete"} => app.req # c.ep

LEMMA SaveGrounded == ASSUME NEW S, Calm(app, S), Grounded(S, disk), NEW k, NEW w, NEW s, SaveStep(k, w, s)
                      PROVE  Grounded(S, disk')
<1>1. k \in DOMAIN app.waits /\ w = app.waits[k] /\ w.doc # << >> /\ disk' \in {disk, w.doc} BY DEF SaveStep
<1>2. CalmWait(w, S) BY <1>1 DEF Calm, CalmWaits
<1>3. S.kept \subseteq DOMAIN w.doc /\ (S.kind # "workspace" => BareDoc(w.doc)) BY <1>1, <1>2 DEF CalmWait, BareWait
<1> QED BY <1>1, <1>3 DEF Grounded

\* What a save that speaks was made of is what memory holds.
LEMMA SpokenFor == ASSUME IInv, NEW S, Calm(app, S), NEW k, NEW w, NEW s, SaveStep(k, w, s),
                          NEW a, a.mem = app.mem, Speaks(a, w, S)
                   PROVE  w.c.n \in DOMAIN w.doc /\ w.doc[w.c.n] = app.mem[w.c.n]
<1>1. k \in DOMAIN app.waits /\ w = app.waits[k] /\ w.doc # << >> /\ (w.on # "prep" => Live(app, w.c.n))
      /\ (w.on = "slot" => w.p.n = w.c.n /\ w.p.kind # "ack")
  BY DEF SaveStep
<1>2. w.on # "prep" BY DEF Speaks
<1>3. w.c.n \in DOMAIN w.doc BY <1>1, <1>2, Written
<1>4. CASE S.kind = "workspace"
  <2>1. w.on = "slot" /\ Accepted(a, w) BY <1>4 DEF Speaks
  <2>2. w.doc = w.p.tx.next /\ a.mem[w.p.n] = w.p.tx.next[w.p.n] BY <1>1, <2>1 DEF Accepted, Owns
  <2> QED BY <1>1, <1>3, <2>1, <2>2
<1>5. CASE S.kind # "workspace"
  <2> DEFINE x == app.mem[w.c.n]
  <2>1. w.on = "mark" /\ x.st = "sending" BY <1>5 DEF Speaks
  <2>2. CalmWait(w, S) BY <1>1 DEF Calm, CalmWaits
  <2>3. w.doc[w.c.n] = Sending BY <1>3, <1>5, <2>1, <2>2 DEF CalmWait, BareWait
  <2>4. w.c.n \in DOMAIN app.mem BY <1>1, <1>2 DEF Live
  <2>5. BareAtt(x) BY <1>5, <2>4 DEF Calm, Rows, BareDoc
  <2> HIDE DEF x
  <2>6. x = [f \in AttFields |-> x[f]] /\ x.code = "none" /\ x.jr = NoJournal /\ x.residue = FALSE /\ x.st = "sending"
    BY <2>1, <2>5 DEF BareAtt, Unfinished
  <2>7. /\ DOMAIN Sending = AttFields /\ Sending.st = "sending" /\ Sending.code = "none"
        /\ Sending.jr = NoJournal /\ Sending.residue = FALSE
    BY DEF Sending, NewAttempt, AttFields
  <2>8. Sending = [f \in AttFields |-> Sending[f]] BY <2>7 DEF Sending
  <2>9. \A f \in AttFields : x[f] = Sending[f] BY <2>6, <2>7 DEF AttFields
  <2>10. x = Sending BY <2>6, <2>8, <2>9
  <2> QED BY <1>3, <2>3, <2>10 DEF x
<1> QED BY <1>4, <1>5

LEMMA SaveCalmStep == ASSUME IInv, NEW S, Calm(app, S), NEW k, NEW w, NEW s, SaveStep(k, w, s)
                      PROVE  After(S)
<1> DEFINE a == Taken(app, k)
<1>1. /\ k \in DOMAIN app.waits /\ w = app.waits[k] /\ w \in Waits /\ w.on \in Saves /\ s \in Outcomes
      /\ w.on = "slot" => w.p.then.at \in Places \ {"none"}
      /\ w.on = "prep" => app.prep \in Preps /\ app.prep.n = Len(app.mem)
      /\ s \in {"committed", "refused"} => disk' = w.doc
  BY DEF SaveStep
<1>2. CalmWait(w, S) BY <1>1 DEF Calm, CalmWaits
<1>3. InTurn(app.waits, k) BY DEF SaveStep, InTurn
<1>4. Calm(a, S) BY <1>1, <1>3, TakenCalm
<1>5. a.mem = app.mem /\ a.prep = app.prep /\ a.req = app.req /\ a.epoch = app.epoch BY DEF Calm, Fields, Taken
<1>6. app' = SaveAnswer(a, w, s) BY DEF SaveStep
<1> HIDE DEF a
<1>7. \/ Calm(app', S)
      \/ /\ s \in {"committed", "refused"} /\ Speaks(a, w, S) /\ a.epoch = w.c.ep
         /\ \E v : /\ S.kind = "workspace" /\ v.on \in {"round", "execute", "complete"} => a.req # w.c.ep
                   /\ Asks(v, w.c, a.mem[w.c.n]) /\ Calm(app', More(S, v))
  BY <1>1, <1>2, <1>4, <1>5, <1>6, SaveAnswerCalm
<1>8. CASE Calm(app', S) BY <1>8 DEF After
<1>9. ASSUME s \in {"committed", "refused"}, Speaks(a, w, S), a.epoch = w.c.ep,
             NEW v, S.kind = "workspace" /\ v.on \in {"round", "execute", "complete"} => a.req # w.c.ep,
             Asks(v, w.c, a.mem[w.c.n]), Calm(app', More(S, v))
      PROVE  After(S)
  <2>1. w.c.n \in DOMAIN w.doc /\ w.doc[w.c.n] = app.mem[w.c.n] BY <1>5, <1>9, SpokenFor
  <2>2. w.c.n \in DOMAIN disk' /\ Asks(v, w.c, disk'[w.c.n]) BY <1>1, <1>5, <1>9, <2>1
  <2> QED BY <1>5, <1>9, <2>2 DEF After
<1> QED BY <1>7, <1>8, <1>9


LEMMA NativeCalmStep == ASSUME IInv, NEW S, Calm(app, S), NEW k, NEW w, NEW r, NativeStep(k, w, r)
                        PROVE  Calm(app', S)
<1> DEFINE a == Taken(app, k)
<1>1. /\ k \in DOMAIN app.waits /\ w = app.waits[k] /\ w \in Waits /\ w.on \in Native
      /\ w.on = "round" => r.ans \in RoundAnswers
      /\ w.on = "recover" => r.ans \in {"throw", "conflict", "retryable", "ok", "manual"}
  BY DEF NativeStep
<1>2. CalmWait(w, S) BY <1>1 DEF Calm, CalmWaits
<1>3. w.on # "prep" BY <1>1 DEF Native
<1>4. InTurn(app.waits, k) BY <1>1, <1>3 DEF InTurn
<1>5. Calm(a, S) BY <1>1, <1>4, TakenCalm
<1>6. app' = NativeAnswer(a, w, r) BY DEF NativeStep
<1>7. app.kind = S.kind /\ app.kind \in Kinds BY InvHas DEF Calm, Sound, Apps
<1>8. w.on = "prepare" => S.kind \in {"workspace", "rootless"} BY <1>2, <1>7 DEF CalmWait, BareWait, Kinds
<1>9. w.on = "prepare" => IF S.kind = "workspace" THEN r.ans # "not_agent" ELSE r.ans \in {"throw", "conflict", "not_agent"}
  BY <1>7, <1>8 DEF NativeStep
<1> HIDE DEF a
<1> QED BY <1>1, <1>2, <1>5, <1>6, <1>9, NativeAnswerCalm

LEMMA DecisionCalmStep == ASSUME NEW S, Calm(app, S), UserDecides PROVE Calm(app', S)
<1>1. PICK k \in DOMAIN app.waits : app.waits[k].on = "approve" /\ \E w, more : app' = ApproveAnswered(Taken(app, k), w, more)
  BY DecisionSeen
<1>2. CalmWait(app.waits[k], S) BY DEF Calm, CalmWaits
<1>3. S.kind = "workspace" BY <1>1, <1>2 DEF CalmWait, BareWait
<1>4. Calm(Taken(app, k), S) BY <1>1, TakenCalm DEF InTurn
<1> QED BY <1>1, <1>3, <1>4, ApproveAnsweredCalm

\* The document a launch reads.
LEMMA LaunchReads == ASSUME IInv, NEW S, Calm(app, S), Grounded(S, disk), 0 \in S.eps, Relaunch
                     PROVE  Rows(disk', S) /\ Grounded(S, disk') /\ Calm(app', S)
<1>1. PICK d, ph, n : /\ d = disk \/ (FirstSave(app) # 0 /\ d = app.waits[FirstSave(app)].doc)
                      /\ disk' = [i \in DOMAIN d |-> Hydrated(d[i])]
                      /\ app' = Drain(Fresh(app.kind, disk', ph, n), 1)
  BY LaunchSeen
<1>2. Grounded(S, d) /\ d \in Seq(Att)
  <2>1. CASE d = disk BY <2>1, InvHas DEF Doc
  <2>2. CASE FirstSave(app) # 0 /\ d = app.waits[FirstSave(app)].doc
    <3> DEFINE k == FirstSave(app)
    <3>1. app \in Apps BY InvHas DEF Sound
    <3>2. k \in DOMAIN app.waits /\ app.waits[k].doc # << >> BY <2>2, <3>1, FirstSaveIn
    <3>3. Doc(app.waits[k].doc, asks, Gone) BY <2>2, InvHas, OnItsWayDoc
    <3> HIDE DEF k
    <3>4. CalmWait(app.waits[k], S) BY <3>2 DEF Calm, CalmWaits
    <3>5. S.kept \subseteq DOMAIN app.waits[k].doc /\ (S.kind # "workspace" => BareDoc(app.waits[k].doc))
      BY <3>2, <3>4 DEF CalmWait, BareWait
    <3> QED BY <2>2, <3>3, <3>5 DEF Grounded, Doc, k
  <2> QED BY <1>1, <2>1, <2>2
<1>3. DOMAIN disk' = DOMAIN d /\ \A i \in DOMAIN d : disk'[i] = Hydrated(d[i]) BY <1>1
<1>4. disk' = [i \in DOMAIN d |-> Hydrated(d[i])] BY <1>1
<1>5. \E T : disk' \in Seq(T)
  <2> DEFINE T == {Hydrated(d[i]) : i \in DOMAIN d}
  <2>1. Len(d) \in Nat /\ DOMAIN d = 1 .. Len(d) BY <1>2
  <2>2. disk' \in [1 .. Len(d) -> T] BY <1>4, <2>1
  <2> HIDE DEF T
  <2>3. disk' \in Seq(T) BY <2>1, <2>2, FunIsSeq
  <2> QED BY <2>3
<1>6. S.kind # "workspace" => BareDoc(disk') BY <1>2, <1>3, HydratedBare DEF Grounded, BareDoc
<1>7. S.kept \subseteq DOMAIN disk' BY <1>2, <1>3 DEF Grounded
<1>8. Rows(disk', S) BY <1>5, <1>6, <1>7 DEF Rows
<1>9. app.kind = S.kind BY DEF Calm
<1>10. Calm(Fresh(app.kind, disk', ph, n), S)
  <2>1. Rising(S.eps) BY DEF Calm
  <2> QED BY <1>8, <1>9, <2>1, Nobody
<1>11. Calm(app', S) BY <1>1, <1>10, DrainCalm
<1> QED BY <1>6, <1>7, <1>8, <1>11 DEF Grounded

LEMMA CommandCalmStep == ASSUME IInv, NEW S, Calm(app, S),
                                \/ Send \/ Retry \/ Resume \/ AbandonAndRetry \/ RetryPersistence \/ RetryCommit
                                \/ Cancel \/ Leave \/ Reopen
                         PROVE  Calm(app', S) /\ disk' = disk
<1>1. app \in Apps /\ Refs(app, Gone) BY InvHas DEF Sound
<1>2. app.run # 0 => app.runOf \in DOMAIN app.mem BY <1>1 DEF Refs, Live
<1>3. app.phase \in {"retryable", "resume_available"} => app.at \in DOMAIN app.mem
  <2>1. app.at \in Nat /\ app.mem \in Seq(Att) BY <1>1 DEF Apps
  <2>2. app.at <= Len(app.mem) /\ (app.phase \in {"retryable", "resume_available"} => app.at # 0) BY <1>1 DEF Refs
  <2> QED BY <2>1, <2>2
<1>4. Command
  BY Zenon DEF Send, Retry, Resume, AbandonAndRetry, RetryPersistence, RetryCommit, Cancel, Leave, Reopen, Asking, Wishing
<1>5. disk' = disk BY <1>4 DEF Command
<1> QED BY <1>1, <1>2, <1>3, <1>5, CommandCalm

LEMMA CalmStep == ASSUME IInv, [Next]_vars, NEW S, Calm(app, S), Grounded(S, disk)
                  PROVE  After(S) /\ Grounded(S, disk')
<1>1. ASSUME SaveAnswered PROVE After(S) /\ Grounded(S, disk')
  <2>1. PICK k, w, s : SaveStep(k, w, s) BY <1>1, SaveSeen
  <2> QED BY <2>1, SaveCalmStep, SaveGrounded
<1>2. ASSUME NativeAnswered PROVE Calm(app', S) /\ disk' = disk
  <2>1. PICK k, w, r : NativeStep(k, w, r) BY <1>2, NativeSeen
  <2>2. disk' = disk BY <2>1 DEF NativeStep
  <2> QED BY <2>1, <2>2, NativeCalmStep
<1>3. ASSUME UserDecides PROVE Calm(app', S) /\ disk' = disk BY <1>3, DecisionCalmStep, DecisionSeen
<1>4. ASSUME Relaunch PROVE Calm(app', Anew(S)) /\ Grounded(S, disk')
  <2>1. app.epoch \in Nat BY InvHas DEF Sound, Apps
  <2>2. Calm(app, Anew(S)) BY <2>1, NatRises, Rescaled DEF Anew
  <2>3. Anew(S).kind = S.kind /\ Anew(S).kept = S.kept /\ Anew(S).eps = Nat BY DEF Anew, Scene
  <2>4. Grounded(Anew(S), disk) BY <2>3 DEF Grounded
  <2>5. 0 \in Anew(S).eps BY <2>3
  <2>6. Calm(app', Anew(S)) /\ Grounded(Anew(S), disk') BY <1>4, <2>2, <2>4, <2>5, LaunchReads
  <2> QED BY <2>3, <2>6 DEF Grounded
<1>5. ASSUME \/ Send \/ Retry \/ Resume \/ AbandonAndRetry \/ RetryPersistence \/ RetryCommit
             \/ Cancel \/ Leave \/ Reopen
      PROVE  Calm(app', S) /\ disk' = disk
  BY <1>5, CommandCalmStep
<1>6. ASSUME NativeLaunched \/ UNCHANGED vars PROVE Calm(app', S) /\ disk' = disk
  <2>1. app' = app /\ disk' = disk BY <1>6 DEF NativeLaunched, vars
  <2> QED BY <2>1
<1> QED BY <1>1, <1>2, <1>3, <1>4, <1>5, <1>6 DEF Next, After


----------------------------------------------------------------------------
(***************************************************************************)
(* Evidence: native starts it for an attempt on disk only.                 *)
(***************************************************************************)

\* What is refused, or only answered, makes no evidence.
LEMMA AnswersMakeNone == ASSUME NEW x, NEW s, NEW e, e \in Refusal(x) \/ e = Did(x, s) PROVE e.x = x
<1> QED BY DEF Refusal, Did

LEMMA UntouchedIs == /\ Untouched.st = "none" /\ Untouched.calls = << >> /\ Untouched.over = FALSE
                     /\ DOMAIN Untouched.calls = {}
                     /\ \A r : ~MayAsk(Untouched, r)
                     /\ \A w, d : ~MayRun(Untouched, w, d)
<1> QED BY DEF Untouched, MayAsk, MayRun

\* No call begins without its attempt being prepared.
LEMMA EffectsMakeNone ==
  ASSUME NEW x, x = Untouched, NEW w, w.on \in Native, NEW e \in Effects(x, w)
  PROVE  e.x = x \/ (w.on = "prepare" /\ w.c.n \in DOMAIN disk)
<1> DEFINE d == IF w.c.n \in DOMAIN disk THEN disk[w.c.n] ELSE NewAttempt
           Texts == {Did(x, s) : s \in {"text", "bad"}}
<1>1. Effects(x, w) =
        CASE w.on = "prepare" -> PrepareAttempt(x, w.c.n \in DOMAIN disk, app.kind)
          [] w.on = "round" -> CompleteRound(x, w)
          [] w.on = "freeze" -> FreezeBatch(x, w, d)
          [] w.on = "bind" -> BindApproval(x, w, d)
          [] w.on = "execute" -> ExecuteTool(x, w, d)
          [] w.on = "finalize" -> FinalizeAttempt(x, w, d)
          [] w.on = "discard" -> DiscardAttempt(x)
          [] w.on \in {"interrupt", "sweep"} -> InterruptAttempt(x, d)
          [] w.on = "query" -> QueryAttempt(x, w, d)
          [] w.on = "recover" -> RecoverAttempt(x, w, d)
          [] w.on = "stop" -> CancelAttempt(x, w, d)
          [] w.on = "complete" -> Texts
          [] w.on = "withdraw" -> {Did(x, "ok")}
  BY Zenon DEF Effects
<1> HIDE DEF d, Texts
<1>2. x.st = "none" /\ x.over = FALSE /\ DOMAIN x.calls = {} /\ Missing(x) BY UntouchedIs DEF Missing
<1>3. ~MayAsk(x, w.was.jr.rnd) /\ ~MayRun(x, w, d) BY UntouchedIs
<1>4. CASE w.on = "prepare" /\ w.c.n \notin DOMAIN disk
  <2>1. e \in Refusal(x) BY <1>1, <1>4 DEF PrepareAttempt
  <2> QED BY <2>1, AnswersMakeNone
<1>5. CASE w.on = "round"
  <2>1. CompleteRound(x, w) = Refusal(x) BY <1>2, <1>3 DEF CompleteRound
  <2>2. e \in Refusal(x) BY <1>1, <1>5, <2>1
  <2> QED BY <2>2, AnswersMakeNone
<1>6. CASE w.on = "execute"
  <2>1. ExecuteTool(x, w, d) = Refusal(x) BY <1>2, <1>3 DEF ExecuteTool, InDoubt
  <2>2. e \in Refusal(x) BY <1>1, <1>6, <2>1
  <2> QED BY <2>2, AnswersMakeNone
<1>7. CASE w.on \in {"freeze", "bind", "finalize"}
  <2>1. /\ FreezeBatch(x, w, d) = Refusal(x)
        /\ BindApproval(x, w, d) = Refusal(x)
        /\ FinalizeAttempt(x, w, d) = Refusal(x)
    BY <1>2 DEF FreezeBatch, BindApproval, FinalizeAttempt
  <2>2. e \in Refusal(x) BY <1>1, <1>7, <2>1
  <2> QED BY <2>2, AnswersMakeNone
<1>8. CASE w.on \in {"recover", "stop"}
  <2>1. RecoverAttempt(x, w, d) = Refusal(x) /\ CancelAttempt(x, w, d) = Refusal(x)
    BY <1>2, Zenon DEF RecoverAttempt, CancelAttempt
  <2>2. e \in Refusal(x) BY <1>1, <1>8, <2>1
  <2> QED BY <2>2, AnswersMakeNone
<1>9. CASE w.on \in {"discard", "interrupt", "sweep"}
  <2>1. DiscardAttempt(x) = {Did(x, "throw")} /\ InterruptAttempt(x, d) = {Did(x, "throw")}
    BY <1>2 DEF DiscardAttempt, InterruptAttempt
  <2>2. e = Did(x, "throw") BY <1>1, <1>9, <2>1
  <2> QED BY <2>2, AnswersMakeNone
<1>10. CASE w.on \in {"query", "complete", "withdraw"}
  <2>1. \E s : e = Did(x, s) BY <1>1, <1>10 DEF QueryAttempt, Texts
  <2> QED BY <2>1, AnswersMakeNone
<1> QED BY <1>4, <1>5, <1>6, <1>7, <1>8, <1>9, <1>10 DEF Native

LEMMA MishapsMakeNone ==
  ASSUME NEW x, x = Untouched, NEW w, w.on \in Native, NEW e \in Mishaps(x, w)
  PROVE  e.x = x \/ (w.on = "prepare" /\ w.c.n \in DOMAIN disk)
<1>1. RoundLost(x, w) = {} /\ ToolLost(x, w) = {} BY UntouchedIs DEF RoundLost, ToolLost
<1>2. \/ e = Did(x, "throw") \/ e = Did(x, "conflict")
      \/ \E f \in Effects(x, w) : e = Did(f.x, "throw")
  BY <1>1 DEF Mishaps
<1>3. ASSUME NEW f \in Effects(x, w), e = Did(f.x, "throw") PROVE e.x = x \/ (w.on = "prepare" /\ w.c.n \in DOMAIN disk)
  <2>1. e.x = f.x BY <1>3, AnswersMakeNone
  <2> QED BY <2>1, EffectsMakeNone
<1> QED BY <1>2, <1>3, AnswersMakeNone

LEMMA LaunchesMakeNone == ASSUME NEW x, x = Untouched, NEW w PROVE Launches(x, w) = {}
<1> QED BY UntouchedIs DEF Launches, Launched

LEMMA LossMakesNone == ASSUME NEW s PROVE OwnerLost(Untouched, s) = Untouched
<1> DEFINE x == Untouched
           st == IF x.st \in Working THEN s ELSE x.st
           cs == [k \in DOMAIN x.calls |-> IF x.calls[k].rec \in Working THEN [x.calls[k] EXCEPT !.rec = "unknown"]
                                           ELSE x.calls[k]]
<1>1. OwnerLost(x, s) = [x EXCEPT !.st = st, !.calls = cs] BY DEF OwnerLost, Untouched
<1>2. st = x.st BY UntouchedIs DEF Working
<1>3. cs = x.calls BY UntouchedIs
<1> HIDE DEF st, cs
<1>4. [x EXCEPT !.st = st, !.calls = cs] = x BY <1>2, <1>3 DEF Untouched
<1> QED BY <1>1, <1>4


\* A call that is waited for, and started evidence, is for an attempt on disk.
LEMMA MadeOnDisk ==
  ASSUME IInv, NEW k \in DOMAIN app.waits, NEW w, w = app.waits[k], w.on \in Native, NEW y,
         \/ \E e \in Effects(nat[w.c.n], w) \cup Mishaps(nat[w.c.n], w) : y = e.x
         \/ y \in Launches(nat[w.c.n], w),
         NEW n \in Attempts, NEW v, v = [nat EXCEPT ![w.c.n] = y], v[n] # Untouched, nat[n] = Untouched
  PROVE  n \in DOMAIN disk /\ Live(app, n)
<1>1. n = w.c.n /\ v[n] = y BY InvHas
<1>2. y # Untouched /\ nat[w.c.n] = Untouched BY <1>1
<1> DEFINE x == nat[w.c.n]
<1>3. \/ \E e \in Effects(x, w) \cup Mishaps(x, w) : y = e.x
      \/ y \in Launches(x, w)
  OBVIOUS
<1>4. x = Untouched BY <1>2
<1> HIDE DEF x
<1>5. w.on = "prepare" /\ w.c.n \in DOMAIN disk
  <2>1. CASE y \in Launches(x, w) BY <1>4, <2>1, LaunchesMakeNone
  <2>2. ASSUME NEW e \in Effects(x, w) \cup Mishaps(x, w), y = e.x PROVE w.on = "prepare" /\ w.c.n \in DOMAIN disk
    BY <1>2, <1>4, <2>2, EffectsMakeNone, MishapsMakeNone
  <2> QED BY <1>3, <2>1, <2>2
<1>6. WaitOK(app, w, asks, Gone) BY InvHas DEF Sound
<1>7. Live(app, w.c.n) BY <1>5, <1>6 DEF WaitOK
<1> QED BY <1>1, <1>5, <1>7

\* Evidence that a step starts is of an attempt that is on disk, and there to
\* stay.
Begun == {n \in Attempts : nat[n] # Untouched}

LEMMA MadeByStep == ASSUME IInv, [Next]_vars, NEW n \in Begun', n \notin Begun
                    PROVE  n \in DOMAIN disk /\ Live(app, n)
<1>1. n \in Attempts /\ nat'[n] # Untouched /\ nat[n] = Untouched BY DEF Begun, Attempts
<1>2. ASSUME NEW w \in Range(app.waits), w.on \in Native, NEW v \in Leavings(w), v[n] # Untouched
      PROVE  n \in DOMAIN disk /\ Live(app, n)
  <2>1. PICK k \in DOMAIN app.waits : w = app.waits[k] BY DEF Range
  <2>2. \E y : /\ v = [nat EXCEPT ![w.c.n] = y]
               /\ \/ \E e \in Effects(nat[w.c.n], w) \cup Mishaps(nat[w.c.n], w) : y = e.x
                  \/ y \in Launches(nat[w.c.n], w)
    BY DEF Leavings
  <2> QED BY <1>1, <1>2, <2>1, <2>2, MadeOnDisk
<1>3. CASE NativeLaunched
  <2>1. PICK w \in Range(app.waits) : w.on \in {"round", "execute"} /\ \E y \in Launches(nat[w.c.n], w) : nat' = [nat EXCEPT ![w.c.n] = y]
    BY <1>3 DEF NativeLaunched
  <2>2. nat' \in Leavings(w) BY <2>1 DEF Leavings
  <2> QED BY <1>1, <1>2, <2>1, <2>2 DEF Native
<1>4. CASE NativeAnswered
  <2>1. PICK k \in DOMAIN app.waits :
          /\ app.waits[k].on \in Native
          /\ \E e \in Effects(nat[app.waits[k].c.n], app.waits[k]) \cup Mishaps(nat[app.waits[k].c.n], app.waits[k]) :
               nat' = [nat EXCEPT ![app.waits[k].c.n] = e.x]
    BY <1>4 DEF NativeAnswered
  <2>2. nat' \in Leavings(app.waits[k]) /\ app.waits[k] \in Range(app.waits) BY <2>1 DEF Leavings, Range
  <2> QED BY <1>1, <1>2, <2>1, <2>2
<1>5. CASE Relaunch
  <2>1. PICK v \in {nat} \cup UNION {Leavings(w) : w \in {w \in Range(app.waits) : w.on \in Native}}, s \in InDoubt :
          nat' = [m \in Attempts |-> OwnerLost(v[m], s)]
    BY <1>5, Zenon DEF Relaunch
  <2>2. nat'[n] = OwnerLost(v[n], s) BY <1>1, <2>1
  <2>3. v[n] # Untouched BY <1>1, <2>2, LossMakesNone
  <2>4. v = nat \/ \E w \in Range(app.waits) : w.on \in Native /\ v \in Leavings(w) BY <2>1
  <2> QED BY <1>1, <1>2, <2>3, <2>4
<1>6. CASE SaveAnswered \/ UserDecides \/ UNCHANGED vars
  <2>1. nat' = nat BY <1>6, Zenon DEF SaveAnswered, UserDecides, vars
  <2> QED BY <1>1, <2>1
<1>7. CASE \/ Send \/ Retry \/ Resume \/ AbandonAndRetry \/ RetryPersistence \/ RetryCommit
           \/ Cancel \/ Leave \/ Reopen
  <2>1. Command
    BY <1>7, Zenon DEF Send, Retry, Resume, AbandonAndRetry, RetryPersistence, RetryCommit, Cancel, Leave, Reopen, Asking, Wishing
  <2>2. nat' = nat BY <2>1 DEF Command
  <2> QED BY <1>1, <2>2
<1> QED BY <1>3, <1>4, <1>5, <1>6, <1>7 DEF Next


----------------------------------------------------------------------------
(***************************************************************************)
(* The theorems.                                                           *)
(***************************************************************************)
\* The controller waits for what it waits for, and attempts with evidence are
\* there to stay, in memory, on disk and in every save.
Quiet == LET S == Scene(app.kind, Begun, Range(app.waits), Onward(app.epoch))
         IN Calm(app, S) /\ Grounded(S, disk)

\* More attempts stay, if they are in memory for good.
LEMMA MoreKept == ASSUME IInv, NEW S, Calm(app, S), NEW K, \A n \in K : n \in S.kept \/ Live(app, n)
                  PROVE  Calm(app, Scene(S.kind, K, S.work, S.eps))
<1> DEFINE R == Scene(S.kind, K, S.work, S.eps)
<1>1. R.kind = S.kind /\ R.kept = K /\ R.work = S.work /\ R.eps = S.eps BY DEF Scene
<1> HIDE DEF R
<1>2. \A n \in K : n \in DOMAIN app.mem /\ n # app.prep.n
  <2>1. ASSUME NEW n \in K, Live(app, n) PROVE n \in DOMAIN app.mem /\ n # app.prep.n
    <3>1. app.prep.n = 0 \/ app.prep # NoPrep BY DEF NoPrep
    <3>2. 0 \notin DOMAIN app.mem
      <4>1. app.mem \in Seq(Att) BY InvHas DEF Sound, Apps
      <4> QED BY <4>1
    <3> QED BY <2>1, <3>1, <3>2 DEF Live
  <2> QED BY <2>1 DEF Calm, Rows
<1>3. Rows(app.mem, R) BY <1>1, <1>2 DEF Calm, Rows
<1>4. ASSUME NEW k \in DOMAIN app.waits PROVE CalmWait(app.waits[k], R)
  <2> DEFINE w == app.waits[k]
  <2>1. CalmWait(w, S) BY DEF Calm, CalmWaits
  <2>2. w.doc # << >> => K \subseteq DOMAIN w.doc
    <3>1. ASSUME NEW n \in K, w.doc # << >> PROVE n \in DOMAIN w.doc
      <4>1. CASE n \in S.kept BY <2>1, <3>1, <4>1 DEF CalmWait
      <4>2. CASE Live(app, n) BY <3>1, <4>2, Written
      <4> QED BY <4>1, <4>2
    <3> QED BY <3>1
  <2> HIDE DEF w
  <2>3. CalmWait(w, R) BY <1>1, <2>1, <2>2 DEF CalmWait
  <2> QED BY <2>3 DEF w
<1>5. CalmWaits(app.waits, R) BY <1>4 DEF Calm, CalmWaits
<1>6. Calm(app, R) BY <1>1, <1>2, <1>3, <1>5 DEF Calm
<1> QED BY <1>6 DEF R

\* Fewer have to, what a controller waits for is what it waits for, and its
\* epoch is the first that may come.
LEMMA CalmHere == ASSUME NEW S, NEW a, Calm(a, S), a.epoch \in Nat, NEW K \in SUBSET S.kept
                  PROVE  Calm(a, Scene(a.kind, K, Range(a.waits), Onward(a.epoch)))
<1> DEFINE R == Scene(a.kind, K, Range(a.waits), Onward(a.epoch))
<1>1. R.kind = S.kind /\ R.kept = K /\ R.work = Range(a.waits) /\ R.eps = Onward(a.epoch) BY DEF Scene, Calm
<1> HIDE DEF R
<1>2. ASSUME NEW k \in DOMAIN a.waits PROVE CalmWait(a.waits[k], R)
  <2>1. a.waits[k] \in Range(a.waits) BY DEF Range
  <2>2. CalmWait(a.waits[k], S) BY DEF Calm, CalmWaits
  <2> QED BY <1>1, <2>1, <2>2 DEF CalmWait
<1>3. CalmWaits(a.waits, R) BY <1>2 DEF Calm, CalmWaits
<1>4. Rows(a.mem, R) BY <1>1 DEF Calm, Rows
<1>5. Calm(a, R) BY <1>1, <1>3, <1>4, OnwardRises DEF Calm
<1> QED BY <1>5 DEF R

LEMMA QuietAtFirst == ASSUME Init PROVE Quiet
<1>1. PICK kind : app = Fresh(kind, << >>, "idle", 0) BY DEF Init
<1>2. app.kind = kind /\ app.waits = << >> /\ disk = << >> /\ app.epoch = 0 BY <1>1 DEF Fresh, Init
<1>3. Begun = {} BY DEF Begun, Init
<1> DEFINE S == Scene(kind, Begun, Range(app.waits), Onward(app.epoch))
<1>4. S.kind = kind /\ S.kept = {} /\ S.eps = Onward(0) BY <1>2, <1>3 DEF Scene
<1> HIDE DEF S
<1>5. Rows(<< >>, S)
  <2>1. << >> \in Seq({}) OBVIOUS
  <2> QED BY <1>4, <2>1, NoBareDoc DEF Rows
<1>6. Calm(app, S) BY <1>1, <1>4, <1>5, OnwardRises, Nobody
<1>7. Grounded(S, disk) BY <1>2, <1>4, NoBareDoc DEF Grounded
<1> QED BY <1>2, <1>6, <1>7 DEF Quiet, S

\* A step seen from the attempts that have evidence before it or after it.
Seen == Scene(app.kind, Begun \cup Begun', Range(app.waits), Onward(app.epoch))

LEMMA SeenIs == /\ Seen.kind = app.kind /\ Seen.kept = Begun \cup Begun' /\ Seen.work = Range(app.waits)
                /\ Seen.eps = Onward(app.epoch)
                /\ Seen = Scene(Seen.kind, Seen.kept, Seen.work, Seen.eps)
<1> QED BY DEF Seen, Scene

LEMMA QuietStep == ASSUME IInv, Quiet, [Next]_vars PROVE After(Seen) /\ Grounded(Seen, disk')
<1> DEFINE R == Scene(app.kind, Begun, Range(app.waits), Onward(app.epoch))
<1>1. Calm(app, R) /\ Grounded(R, disk) BY DEF Quiet
<1>2. R.kind = app.kind /\ R.kept = Begun /\ R.work = Range(app.waits) /\ R.eps = Onward(app.epoch) BY DEF Scene
<1> HIDE DEF R
<1>3. \A n \in Begun \cup Begun' : n \in R.kept \/ (Live(app, n) /\ n \in DOMAIN disk) BY <1>2, MadeByStep
<1>4. Calm(app, Seen)
  <2>1. Calm(app, Scene(R.kind, Begun \cup Begun', R.work, R.eps)) BY <1>1, <1>3, MoreKept
  <2> QED BY <1>2, <2>1 DEF Seen
<1>5. Grounded(Seen, disk) BY <1>1, <1>2, <1>3, SeenIs DEF Grounded
<1> QED BY <1>4, <1>5, CalmStep

\* Whatever it asks for, it goes on calmly, and only another launch goes back
\* to an earlier epoch.
LEMMA StepCalm ==
  ASSUME IInv, Quiet, [Next]_vars
  PROVE  /\ \E W, E : E \in SUBSET Nat /\ Calm(app', Scene(app.kind, Begun \cup Begun', W, E))
         /\ ~Relaunch => app'.epoch \in Onward(app.epoch)
<1>1. After(Seen) BY QuietStep
<1>2. Onward(app.epoch) \in SUBSET Nat BY DEF Onward
<1>3. CASE Calm(app', Seen)
  <2>1. app'.epoch \in Onward(app.epoch) BY <1>3, SeenIs DEF Calm
  <2> QED BY <1>2, <1>3, <2>1 DEF Seen
<1>4. CASE Relaunch /\ Calm(app', Anew(Seen))
  <2>1. Calm(app', Scene(app.kind, Begun \cup Begun', Seen.work, Nat)) BY <1>4, SeenIs DEF Anew
  <2> QED BY <1>4, <2>1
<1>5. ASSUME NEW v, Calm(app', More(Seen, v))
      PROVE  /\ Calm(app', Scene(app.kind, Begun \cup Begun', Seen.work \cup {v}, Onward(app.epoch)))
             /\ app'.epoch \in Onward(app.epoch)
  <2>1. More(Seen, v) = Scene(app.kind, Begun \cup Begun', Seen.work \cup {v}, Onward(app.epoch))
    BY SeenIs DEF More, Scene
  <2>2. More(Seen, v).eps = Onward(app.epoch) BY SeenIs DEF More
  <2> QED BY <1>5, <2>1, <2>2 DEF Calm
<1> QED BY <1>1, <1>2, <1>3, <1>4, <1>5 DEF After

LEMMA QuietStays == ASSUME IInv, Quiet, [Next]_vars PROVE Quiet'
<1>1. PICK W, E : E \in SUBSET Nat /\ Calm(app', Scene(app.kind, Begun \cup Begun', W, E)) BY StepCalm
<1> DEFINE S == Scene(app.kind, Begun \cup Begun', W, E)
<1>2. S.kind = app.kind /\ S.kept = Begun \cup Begun' /\ S.eps = E BY DEF Scene
<1>3. Calm(app', S) BY <1>1
<1> HIDE DEF S
<1>4. app'.kind = app.kind /\ app'.epoch \in Nat BY <1>1, <1>2, <1>3 DEF Calm
<1> DEFINE R == Scene(app'.kind, Begun', Range(app'.waits), Onward(app'.epoch))
<1>5. Begun' \in SUBSET S.kept BY <1>2
<1>6. Calm(app', R) BY <1>3, <1>4, <1>5, CalmHere
<1>7. R.kind = app.kind /\ R.kept = Begun' BY <1>4 DEF Scene
<1>8. Grounded(Seen, disk') BY QuietStep
<1> HIDE DEF R
<1>9. Grounded(R, disk') BY <1>7, <1>8, SeenIs DEF Grounded
<1> QED BY <1>6, <1>9 DEF Quiet, R

\* The work that a step asks for.
LEMMA AskedByStep == ASSUME IInv, Quiet, [Next]_vars, NEW k \in DOMAIN app'.waits,
                            app'.waits[k].on \in Work, app'.waits[k] \notin Range(app.waits)
                     PROVE  \E c : /\ c.n \in DOMAIN disk' /\ Asks(app'.waits[k], c, disk'[c.n])
                                   /\ c.ep = app.epoch
                                   /\ app.kind = "workspace" /\ app'.waits[k].on \in {"round", "execute", "complete"} => app.req # c.ep
<1> DEFINE u == app'.waits[k]
<1>1. After(Seen) BY QuietStep
<1>2. Seen.kind = app.kind /\ Seen.work = Range(app.waits) BY SeenIs
<1>3. ASSUME NEW R, Calm(app', R) PROVE u \in R.work
  <2>1. CalmWait(u, R) BY <1>3 DEF Calm, CalmWaits
  <2> QED BY <2>1 DEF CalmWait
<1>4. ~Calm(app', Seen) BY <1>2, <1>3
<1>5. ~Calm(app', Anew(Seen))
  <2>1. Anew(Seen).work = Range(app.waits) BY <1>2 DEF Anew, Scene
  <2> QED BY <1>3, <2>1
<1>6. PICK c, v : /\ c.n \in DOMAIN disk' /\ Asks(v, c, disk'[c.n]) /\ Calm(app', More(Seen, v)) /\ c.ep = app.epoch
                  /\ Seen.kind = "workspace" /\ v.on \in {"round", "execute", "complete"} => app.req # c.ep
  BY <1>1, <1>4, <1>5 DEF After
<1>7. u \in More(Seen, v).work BY <1>3, <1>6
<1>8. u = v BY <1>2, <1>7 DEF More
<1> QED BY <1>2, <1>6, <1>8

\* Only the current epoch asks for a round or an execution, and no run whose
\* cancellation was noted while it waits.
Current == \A k \in New({"round", "execute", "complete"}) :
             /\ app'.waits[k].c.ep = app.epoch
             /\ app.kind = "workspace" => app.req # app.epoch

LEMMA QuietIsCurrent == ASSUME IInv, Quiet, [Next]_vars PROVE Current
<1> SUFFICES ASSUME NEW k \in New({"round", "execute", "complete"})
             PROVE  app'.waits[k].c.ep = app.epoch /\ (app.kind = "workspace" => app.req # app.epoch)
  BY DEF Current
<1>1. /\ k \in DOMAIN app'.waits /\ app'.waits[k].on \in {"round", "execute", "complete"}
      /\ app'.waits[k] \notin Range(app.waits)
  BY DEF New
<1>2. app'.waits[k].on \in Work BY <1>1 DEF Work
<1>3. PICK c : /\ Asks(app'.waits[k], c, disk'[c.n]) /\ c.ep = app.epoch
               /\ app.kind = "workspace" /\ app'.waits[k].on \in {"round", "execute", "complete"} => app.req # c.ep
  BY <1>1, <1>2, AskedByStep
<1> QED BY <1>1, <1>3 DEF Asks

\* A conversation without a project has no run to settle: a cancellation ends
\* the epoch the user asked to cancel.
Heard == app.kind = "plain" => \A e \in wished : e \in Nat /\ e < app.epoch

LEMMA CancelRaises == ASSUME IInv, Quiet, Cancel \/ Leave, app.kind = "plain"
                      PROVE  app.run = 0 /\ app'.epoch \in Nat /\ app'.epoch > app.epoch
<1> DEFINE S == Scene(app.kind, Begun, Range(app.waits), Onward(app.epoch))
           T == Scene(app.kind, Begun, Range(app.waits), Onward(app.epoch + 1))
<1>1. Calm(app, S) BY DEF Quiet
<1>2. app.epoch \in Nat /\ app \in Apps BY InvHas DEF Sound, Apps
<1>3. S.kind = app.kind /\ S.kept = Begun /\ S.work = Range(app.waits) /\ T.eps = Onward(app.epoch + 1) BY DEF Scene
<1>4. T = Scene(S.kind, S.kept, S.work, Onward(app.epoch + 1)) BY <1>3
<1> HIDE DEF S, T
<1>5. app.run = 0 BY <1>1, <1>3 DEF Calm
<1>6. Calm(Raise(app), S) BY <1>1, RaiseCalm
<1>7. Raise(app).epoch = app.epoch + 1 BY <1>1 DEF Raise, Calm, Fields
<1>8. Calm(Raise(app), T) BY <1>2, <1>4, <1>6, <1>7, OnwardRises, Rescaled
<1>9. app' = Cancelled(app) BY DEF Cancel, Leave
<1>10. Calm(app', T) BY <1>2, <1>5, <1>8, <1>9, CancelledCalm
<1>11. app'.epoch \in Onward(app.epoch + 1) BY <1>3, <1>10 DEF Calm
<1> QED BY <1>2, <1>5, <1>11 DEF Onward

\* What a step makes of the wishes.
LEMMA WishesGrow == ASSUME [Next]_vars
                    PROVE  \/ wished' \subseteq wished /\ (Relaunch => wished' = {})
                           \/ /\ Cancel \/ Leave
                              /\ wished' = wished \cup {IF app.run = 0 THEN app.epoch ELSE app.run}
<1>1. CASE Cancel \/ Leave BY <1>1 DEF Cancel, Leave, Wishing
<1>2. CASE Relaunch BY <1>2, Zenon DEF Relaunch
<1>3. CASE SaveAnswered \/ UserDecides
  <2>1. wished' \subseteq wished BY <1>3 DEF SaveAnswered, UserDecides
  <2>2. Relaunch => wished' = {} BY Zenon DEF Relaunch
  <2> QED BY <2>1, <2>2
<1>4. CASE NativeLaunched \/ NativeAnswered \/ UNCHANGED vars
  <2>1. wished' = wished BY <1>4, Zenon DEF NativeLaunched, NativeAnswered, vars
  <2>2. Relaunch => wished' = {} BY Zenon DEF Relaunch
  <2> QED BY <2>1, <2>2
<1>5. CASE Send \/ Retry \/ Resume \/ AbandonAndRetry \/ RetryPersistence \/ RetryCommit \/ Reopen
  <2>1. Asking BY <1>5, Zenon DEF Send, Retry, Resume, AbandonAndRetry, RetryPersistence, RetryCommit, Reopen
  <2>2. wished' = wished BY <2>1 DEF Asking
  <2>3. Relaunch => wished' = {} BY Zenon DEF Relaunch
  <2> QED BY <2>2, <2>3
<1> QED BY <1>1, <1>2, <1>3, <1>4, <1>5 DEF Next

LEMMA HeardStays == ASSUME IInv, Quiet, Heard, [Next]_vars PROVE Heard'
<1> SUFFICES ASSUME app'.kind = "plain", NEW e \in wished' PROVE e \in Nat /\ e < app'.epoch
  BY DEF Heard
<1>1. /\ \E W, E : E \in SUBSET Nat /\ Calm(app', Scene(app.kind, Begun \cup Begun', W, E))
      /\ ~Relaunch => app'.epoch \in Onward(app.epoch)
  BY StepCalm
<1>2. app.kind = "plain" BY <1>1 DEF Calm, Scene
<1>3. app.epoch \in Nat BY InvHas DEF Sound, Apps
<1>4. CASE wished' \subseteq wished /\ ~Relaunch
  <2>1. app'.epoch \in Nat /\ app'.epoch >= app.epoch BY <1>1, <1>4 DEF Onward
  <2>2. e \in Nat /\ e < app.epoch BY <1>2, <1>4 DEF Heard
  <2> QED BY <1>3, <2>1, <2>2
<1>5. CASE (Cancel \/ Leave) /\ wished' = wished \cup {IF app.run = 0 THEN app.epoch ELSE app.run}
  <2>1. app.run = 0 /\ app'.epoch \in Nat /\ app'.epoch > app.epoch BY <1>2, <1>5, CancelRaises
  <2>2. e = app.epoch \/ (e \in Nat /\ e < app.epoch) BY <1>2, <1>5, <2>1 DEF Heard
  <2> QED BY <1>3, <2>1, <2>2
<1> QED BY <1>4, <1>5, WishesGrow

LEMMA HeardIsHeeded == ASSUME IInv, Quiet, Heard, [Next]_vars, app.kind = "plain" PROVE Unheeded = {}
<1> SUFFICES ASSUME NEW k \in Unheeded PROVE FALSE
  OBVIOUS
<1>1. k \in New({"round", "execute", "complete"}) /\ app'.waits[k].c.ep \in wished BY DEF Unheeded
<1>2. app'.waits[k].c.ep = app.epoch BY <1>1, QuietIsCurrent DEF Current
<1>3. app.epoch \in Nat BY InvHas DEF Sound, Apps
<1> QED BY <1>1, <1>2, <1>3 DEF Heard

LEMMA QuietDurable ==
  ASSUME IInv, Quiet, [Next]_vars
  PROVE  /\ \A k \in New(Native \ {"prepare", "query", "recover", "discard", "sweep", "withdraw"}) :
              LET w == app'.waits[k]
              IN w.c.n \in DOMAIN disk' /\ disk'[w.c.n] = w.was
         /\ \A n \in Attempts : nat'[n] # Untouched => n \in DOMAIN disk'
<1>1. ASSUME NEW k \in New(Native \ {"prepare", "query", "recover", "discard", "sweep", "withdraw"})
      PROVE  app'.waits[k].c.n \in DOMAIN disk' /\ disk'[app'.waits[k].c.n] = app'.waits[k].was
  <2>1. /\ k \in DOMAIN app'.waits /\ app'.waits[k] \notin Range(app.waits)
        /\ app'.waits[k].on \in Native \ {"prepare", "query", "recover", "discard", "sweep", "withdraw"}
    BY DEF New
  <2>2. app'.waits[k].on \in Work BY <2>1 DEF Native, Work
  <2>3. PICK c : c.n \in DOMAIN disk' /\ Asks(app'.waits[k], c, disk'[c.n]) BY <2>1, <2>2, AskedByStep
  <2> QED BY <2>3 DEF Asks
<1>2. \A n \in Attempts : nat'[n] # Untouched => n \in DOMAIN disk'
  <2>1. Grounded(Seen, disk') BY QuietStep
  <2>2. Seen.kept = Begun \cup Begun' BY SeenIs
  <2>3. Begun' \subseteq DOMAIN disk' BY <2>1, <2>2 DEF Grounded
  <2> QED BY <2>3 DEF Begun, Attempts
<1> QED BY <1>1, <1>2

\* The inductive invariant about what is asked for.
THEOREM Quieted == Spec => []Quiet
<1>1. Init => Quiet BY QuietAtFirst
<1>2. IInv /\ Quiet /\ [Next]_vars => Quiet' BY QuietStays
<1> QED BY <1>1, <1>2, Invariant, PTL DEF Spec

\* An answer that comes late asks for nothing: a round or an execution is asked
\* for by the run of the current epoch only, never by one that another command
\* took over from, and never by one whose cancellation was noted.
THEOREM OnlyCurrentAsks == Spec => [][Current]_vars
<1>1. IInv /\ Quiet /\ [Next]_vars => [Current]_vars BY QuietIsCurrent
<1> QED BY <1>1, Quieted, Invariant, PTL DEF Spec

\* CancelIsHeard in a conversation without a project: once the user has asked to
\* cancel what is under way, nothing of it is asked for any more, however many
\* commands and faults there are.
THEOREM DirectCancelHeard == Spec => [][app.kind = "plain" => Unheeded = {}]_vars
<1>1. Init => Heard BY DEF Init, Heard
<1>2. IInv /\ Quiet /\ Heard /\ [Next]_vars => Heard' BY HeardStays
<1>3. IInv /\ Quiet /\ Heard /\ [Next]_vars => [app.kind = "plain" => Unheeded = {}]_vars BY HeardIsHeeded
<1> QED BY <1>1, <1>2, <1>3, Quieted, Invariant, PTL DEF Spec

\* What native is asked to do is on disk as it is asked, and what native keeps
\* is of an attempt that is on disk: a process that dies at any point leaves a
\* document that knows of everything native has begun.
THEOREM DispatchDurable == Spec => DispatchIsDurable
<1>1. IInv /\ Quiet /\ [Next]_vars =>
        [/\ \A k \in New(Native \ {"prepare", "query", "recover", "discard", "sweep", "withdraw"}) :
              LET w == app'.waits[k]
              IN w.c.n \in DOMAIN disk' /\ disk'[w.c.n] = w.was
         /\ \A n \in Attempts : nat'[n] # Untouched => n \in DOMAIN disk']_vars
  BY QuietDurable
<1> QED BY <1>1, Quieted, Invariant, PTL DEF Spec, DispatchIsDurable
=============================================================================
