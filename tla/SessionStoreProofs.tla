------------------------- MODULE SessionStoreProofs -------------------------
(***************************************************************************)
(* Theorems about the saved session, for every set of conversations and    *)
(* every bound on edits, faults, launches, pending candidates and retained *)
(* commits.                                                                *)
(***************************************************************************)
EXTENDS SessionStore, TLAPS, FiniteSetTheorems, SequenceTheorems

\* What a save is answered.
Status == {"committed", "not_committed", "unknown"}
----------------------------------------------------------------------------
(***************************************************************************)
(* Types                                                                   *)
(***************************************************************************)
LEMMA BlankType == Blank \in Doc /\ NoRef \in Reference /\ NoRef.doc = Blank
<1>1. Blank \in Doc
  BY DEF Blank, Doc
<1> QED BY <1>1 DEF NoRef, Ref, Reference

\* The document of a memory is a document.
LEMMA DocumentType == ASSUME NEW m \in Memory PROVE Document(m) \in Doc
<1>1. [c \in Chat |-> [att |-> m.row[c].att, body |-> m.row[c].body]] \in [Chat -> [att : Nat, body : Nat]]
  BY DEF Memory
<1>2. m.outbox.acked \in BOOLEAN /\ m.prefs \in {0, 1}
  BY DEF Memory
<1> QED BY <1>1, <1>2 DEF Document, Doc

\* Memory made from a document is a memory.
LEMMA HydratedType == ASSUME NEW d \in Doc, NEW s \in Nat PROVE Hydrated(d, s) \in Memory
<1>1. [c \in Chat |-> [obj |-> s, att |-> d.row[c].att, body |-> d.row[c].body]]
        \in [Chat -> [obj : Nat, att : Nat, body : Nat]]
  BY DEF Doc
<1>2. d.acked \in BOOLEAN /\ d.prefs \in {0, 1}
  BY DEF Doc
<1> QED BY <1>1, <1>2 DEF Hydrated, Memory

\* One field of a memory given a new stamp.
LEMMA FieldTypes ==
  ASSUME NEW m \in Memory, NEW c \in Chat, NEW s \in Nat
  PROVE  /\ [m EXCEPT !.row[c].obj = s] \in Memory
         /\ [m EXCEPT !.row[c].att = s] \in Memory
         /\ [m EXCEPT !.row[c].body = s] \in Memory
         /\ [m EXCEPT !.root = s] \in Memory
<1>1. m.row[c] \in [obj : Nat, att : Nat, body : Nat]
  BY DEF Memory
<1>2. [m EXCEPT !.row[c].obj = s] \in Memory
  BY <1>1 DEF Memory
<1>3. [m EXCEPT !.row[c].att = s] \in Memory
  BY <1>1 DEF Memory
<1>4. [m EXCEPT !.row[c].body = s] \in Memory
  BY <1>1 DEF Memory
<1>5. [m EXCEPT !.root = s] \in Memory
  BY DEF Memory
<1> QED BY <1>2, <1>3, <1>4, <1>5

\* Each kind of change makes a memory of a memory.
LEMMA ChangedType ==
  ASSUME NEW m \in Memory, NEW c \in Chat, NEW s \in Nat, NEW kind \in Kind
  PROVE  Changed(kind, c, m, s) \in Memory
<1>1. Prepared(m, c, s) \in Memory
  BY DEF Prepared, Memory
<1>2. Checkpointed(m, c, s) \in Memory
  BY FieldTypes DEF Checkpointed
<1>3. Bound(m, c, s) \in Memory
  BY FieldTypes DEF Bound
<1>4. Acknowledged(m, s) \in Memory
  BY DEF Acknowledged, Memory
<1> QED BY <1>1, <1>2, <1>3, <1>4 DEF Changed, Kind

\* Memory with the preferences copied in is a memory.
LEMMA SynchronizedType ==
  ASSUME NEW m \in Memory, NEW s \in Nat, choice \in {0, 1}
  PROVE  Synchronized(m, s) \in Memory
  BY DEF Synchronized, Memory

\* An owner without a transaction.
LEMMA NoTxType == NoTx \in Transaction /\ NoTx.st = "none" /\ NoTx.kind = "bind"
<1>1. Hydrated(Blank, 0) \in Memory
  BY HydratedType, BlankType
<1>2. (CHOOSE c \in Chat : TRUE) \in Chat
  BY ChatAssumption
<1> QED BY <1>1, <1>2, BlankType DEF NoTx, Transaction, Kind

\* What a transaction that is taken back makes of memory is a memory.
LEMMA WithdrawnType ==
  ASSUME TypeOK, NEW t \in Transaction, NEW status
  PROVE  RolledBack(t) \in Memory /\ Withdrawn(t, status) \in Memory
<1> USE DEF Transaction
<1>1. mem \in Memory /\ clock + 1 \in Nat /\ t.chat \in Chat
  BY DEF TypeOK
<1>2. BindingTakenBack(t) \in Memory
  BY <1>1 DEF BindingTakenBack, Memory
<1>3. CheckpointTakenBack(t) \in Memory
  <2>1. t.before.row[t.chat].att \in Nat
    BY <1>1 DEF Memory
  <2> QED BY <1>1, <2>1, FieldTypes DEF CheckpointTakenBack
<1>4. AcknowledgementTakenBack(t) \in Memory
  BY <1>1 DEF AcknowledgementTakenBack, Memory
<1>5. PreparationTakenBack(t) \in Memory
  BY <1>1 DEF PreparationTakenBack
<1>6. RolledBack(t) \in Memory
  BY <1>2, <1>3, <1>4, <1>5 DEF RolledBack, Kind
<1> QED BY <1>1, <1>6 DEF Withdrawn

----------------------------------------------------------------------------
(***************************************************************************)
(* The retained commits and the queue                                      *)
(***************************************************************************)
\* The last MaxRecent elements of a sequence.
LEMMA LastOfProperties ==
  ASSUME NEW S, NEW s \in Seq(S), s # <<>>
  PROVE  LET l == LastOf(s) IN
         /\ l \in Seq(S)
         /\ Len(l) = IF Len(s) <= MaxRecent THEN Len(s) ELSE MaxRecent
         /\ \A k \in 1 .. Len(l) : l[k] = s[Len(s) - Len(l) + k]
         /\ l # <<>> /\ Last(l) = s[Len(s)]
<1> DEFINE l == LastOf(s)
<1>1. MaxRecent \in Nat /\ MaxRecent > 0
  BY SizesAssumption
<1>2. Len(s) \in Nat /\ Len(s) > 0 /\ \A i \in 1 .. Len(s) : s[i] \in S
  OBVIOUS
<1>3. CASE Len(s) <= MaxRecent
  BY <1>2, <1>3 DEF LastOf, Last
<1>4. CASE Len(s) > MaxRecent
  <2> DEFINE m == Len(s) - MaxRecent + 1
             n == Len(s)
  <2>1. m \in Int /\ n \in Int /\ \A i \in m .. n : s[i] \in S
    BY <1>1, <1>2, <1>4
  <2>2. l = SubSeq(s, m, n)
    BY <1>1, <1>2, <1>4 DEF LastOf
  <2>3. m <= n /\ n - m + 1 = MaxRecent
    BY <1>1, <1>2
  <2> HIDE DEF m, n, l
  <2>4. /\ l \in Seq(S) /\ Len(l) = MaxRecent
        /\ \A i \in 1 .. MaxRecent : l[i] = s[m + i - 1]
    BY <2>1, <2>2, <2>3, SubSeqProperties
  <2>5. \A k \in 1 .. Len(l) : l[k] = s[Len(s) - Len(l) + k]
    BY <1>1, <1>2, <2>4 DEF m
  <2>6. l # <<>> /\ Last(l) = s[Len(s)]
    BY <1>1, <1>2, <2>4, <2>5 DEF Last
  <2> QED BY <1>1, <1>2, <1>4, <2>4, <2>5, <2>6 DEF l
<1> QED BY <1>1, <1>2, <1>3, <1>4

\* What a queue holds after its head has left.
LEMMA TailProperties ==
  ASSUME NEW S, NEW s \in Seq(S), s # <<>>
  PROVE  /\ Tail(s) \in Seq(S) /\ Len(Tail(s)) = Len(s) - 1 /\ s[1] \in S /\ Len(s) \in Nat \ {0}
         /\ \A i \in DOMAIN Tail(s) : i + 1 \in DOMAIN s /\ Tail(s)[i] = s[i + 1]
  OBVIOUS

\* What a queue holds after its head has moved on.
LEMMA HeadReplaced ==
  ASSUME NEW S, NEW s \in Seq(S), s # <<>>, NEW x \in S
  PROVE  LET r == [s EXCEPT ![1] = x] IN
         /\ r \in Seq(S) /\ r # <<>> /\ r[1] = x /\ Len(r) = Len(s) /\ DOMAIN r = DOMAIN s
         /\ \A i \in DOMAIN s : i # 1 => r[i] = s[i]
  OBVIOUS

\* What a sequence holds after an element has joined it.
LEMMA Appended ==
  ASSUME NEW S, NEW s \in Seq(S), NEW x \in S
  PROVE  LET r == Append(s, x) IN
         /\ r \in Seq(S) /\ r # <<>> /\ Len(r) = Len(s) + 1 /\ Len(s) \in Nat
         /\ DOMAIN r = 1 .. Len(s) + 1 /\ DOMAIN s = 1 .. Len(s)
         /\ r[Len(s) + 1] = x
         /\ \A i \in DOMAIN s : i \in DOMAIN r /\ r[i] = s[i]
         /\ \A i \in DOMAIN r : i \in DOMAIN s \/ i = Len(s) + 1
  OBVIOUS
----------------------------------------------------------------------------
(***************************************************************************)
(* The native side                                                         *)
(***************************************************************************)
NativeTypeOK ==
  /\ disk \in [gen : Nat, doc : Doc, recent : Seq(Written)] /\ Len(disk.recent) <= MaxRecent
  /\ tomb \in [gen : Nat, ids : SUBSET Nat]
  /\ log \in Seq(Written)

\* What a step may do to the native files: nothing, or write the tombstones for
\* the operation at the head, or its envelope as well.
Buried  == UNCHANGED <<disk, log>> /\ tomb' = TombsFor
Stored  == /\ tomb' = TombsFor
           /\ disk' = EnvelopeFor(First.op, First.cand)
           /\ log' = Append(log, Commit(First.op, First.cand))
\* The save at the head has been admitted by the native store's comparison.
Admitted == /\ queue # <<>> /\ First.step = "cas" /\ First.ref = Durable
            /\ ~HasCommit(First.op) /\ First.op \notin tomb.ids
\* All that a step can do to the files: nothing, new tombstones, or a commit.
NativeStep == UNCHANGED native \/ (Admitted /\ Buried) \/ (Admitted /\ Stored)

\* A retained commit has a reference.
LEMMA CommitOfType ==
  ASSUME NativeTypeOK, NEW op, HasCommit(op)
  PROVE  /\ CommitOf(op) \in Reference
         /\ \E k \in DOMAIN disk.recent : /\ disk.recent[k].op = op
                                          /\ CommitOf(op) = Ref(disk.recent[k].gen, disk.recent[k].doc)
<1> DEFINE i == CHOOSE j \in DOMAIN disk.recent : disk.recent[j].op = op
<1>1. i \in DOMAIN disk.recent /\ disk.recent[i].op = op
  BY DEF HasCommit
<1>2. disk.recent[i] \in Written
  BY <1>1 DEF NativeTypeOK
<1>3. CommitOf(op) = Ref(disk.recent[i].gen, disk.recent[i].doc)
  BY DEF CommitOf
<1> HIDE DEF i
<1> QED BY <1>1, <1>2, <1>3 DEF Written, Ref, Reference

\* The envelope of a candidate is one that the file can hold.
LEMMA EnvelopeType ==
  ASSUME NativeTypeOK, NEW op \in Nat, NEW d \in Doc
  PROVE  LET env == EnvelopeFor(op, d) IN
         /\ Commit(op, d) \in Written
         /\ env \in [gen : Nat, doc : Doc, recent : Seq(Written)] /\ Len(env.recent) <= MaxRecent
         /\ Last(env.recent) = Commit(op, d)
         /\ env # disk /\ env.gen = disk.gen + 1 /\ env.doc = d
         /\ env.recent = LastOf(Append(disk.recent, Commit(op, d)))
<1> DEFINE s == Append(disk.recent, Commit(op, d))
<1>1. Commit(op, d) \in Written
  BY DEF NativeTypeOK, Commit, Written
<1>2. s \in Seq(Written) /\ s # <<>> /\ s[Len(s)] = Commit(op, d) /\ Len(s) \in Nat
  BY SMTT(40), <1>1 DEF NativeTypeOK
<1> HIDE DEF s
<1>3. LastOf(s) \in Seq(Written) /\ Len(LastOf(s)) <= MaxRecent /\ Last(LastOf(s)) = Commit(op, d)
  BY <1>2, LastOfProperties, SizesAssumption
<1>4. disk.gen \in Nat
  BY DEF NativeTypeOK
<1> QED BY <1>1, <1>3, <1>4 DEF EnvelopeFor, s

\* The tombstones written before an envelope are a tombstone file.
LEMMA TombsType == ASSUME NativeTypeOK PROVE TombsFor \in [gen : Nat, ids : SUBSET Nat]
<1>1. disk.gen \in Nat /\ tomb.ids \in SUBSET Nat
  BY DEF NativeTypeOK
<1>2. ASSUME Len(disk.recent) = MaxRecent PROVE disk.recent[1].op \in Nat
  <2>1. disk.recent \in Seq(Written) /\ 1 \in DOMAIN disk.recent
    BY <1>2, SizesAssumption DEF NativeTypeOK
  <2>2. disk.recent[1] \in Written
    BY <2>1
  <2> QED BY <2>2 DEF Written
<1> QED BY <1>1, <1>2 DEF TombsFor

\* The files and the history keep their types.
LEMMA NativeStepType ==
  ASSUME NativeTypeOK, NativeStep, Admitted => First.op \in Nat /\ First.cand \in Doc
  PROVE  NativeTypeOK'
<1>1. CASE UNCHANGED native
  BY <1>1 DEF native, NativeTypeOK
<1>2. CASE Buried
  BY <1>2, TombsType DEF Buried, NativeTypeOK
<1>3. CASE Admitted /\ Stored
  BY <1>3, TombsType, EnvelopeType DEF Stored, NativeTypeOK
<1> QED BY <1>1, <1>2, <1>3 DEF NativeStep

----------------------------------------------------------------------------
(***************************************************************************)
(* The shape of the steps that save: the head moves on or is answered      *)
(***************************************************************************)
Saving == Start \/ Ask \/ Load \/ CasPersist \/ Query \/ Reconcile

\* A candidate nobody knows of gets a fresh operation.
Minted(j) ==
  /\ First.step = "start" /\ j.step = "load" /\ EntryOf(First.cand) = {}
  /\ j.op = clock + 1 /\ clock' = clock + 1
  /\ pending' = pending \cup {[cand |-> First.cand, op |-> clock + 1]}

\* Any other keeps the operation it has, or had when it was left pending.
Resumed(j) ==
  /\ UNCHANGED <<pending, clock>>
  /\ First.step = "start" => j.step = "ask" /\ [cand |-> First.cand, op |-> j.op] \in pending
  /\ First.step # "start" => j.op = First.op

\* The head goes to another step; nothing outside the queue notices.
MovesOn ==
  /\ Quiet
  /\ \E j \in Save : /\ j.owner = First.owner /\ j.cand = First.cand /\ j.must = First.must
                     /\ j.step # "start" /\ Advance(j)
                     /\ Minted(j) \/ Resumed(j)
                     /\ j.step = "cas" => j.ref = Durable /\ UNCHANGED native

\* A step that answers the save at the head.
Answers == \E status \in Status, ref \in Reference : Answer(status, ref)

\* The type invariant without the files.
AppTypeOK ==
  /\ mem \in Memory /\ choice \in {0, 1}
  /\ auth \in Reference
  /\ queue \in Seq(Save)
  /\ pending \subseteq [cand : Doc, op : Nat]
  /\ tx \in [Owner -> Transaction]
  /\ {clock, edits, faults, launch} \subseteq Nat
  /\ answer \in [status : {"none", "committed", "not_committed", "unknown"},
                 step : Step, op : Nat, cand : Doc, ref : Reference]
  /\ kept \in [Chat -> Nat] /\ renamed \in [Chat -> Nat]

\* The type invariant, by its two halves.
LEMMA Types == TypeOK <=> AppTypeOK /\ NativeTypeOK
  BY DEF TypeOK, AppTypeOK, NativeTypeOK

\* The save at the head is a save.
LEMMA HeadType == ASSUME TypeOK, queue # <<>> PROVE First \in Save /\ 1 \in DOMAIN queue
<1>1. queue \in Seq(Save)
  BY DEF TypeOK
<1> QED BY <1>1 DEF First

\* What is on disk has a reference.
LEMMA DurableType == ASSUME TypeOK PROVE Durable \in Reference
  BY DEF TypeOK, Durable, Ref, Reference

\* A save at the head with another step, operation or reference.
LEMMA SaveFields ==
  ASSUME TypeOK, queue # <<>>
  PROVE  /\ \A s \in Step : [First EXCEPT !.step = s] \in Save
         /\ \A s \in Step, n \in Nat : [First EXCEPT !.step = s, !.op = n] \in Save
         /\ \A s \in Step, r \in Reference : [First EXCEPT !.step = s, !.ref = r] \in Save
  BY HeadType DEF Save

\* What a query answers.
LEMMA QueryAnswerType ==
  ASSUME TypeOK, NEW op, NEW r \in QueryResult(op)
  PROVE  /\ r.status \in {"committed", "not_started", "unknown"} /\ r.ref \in Reference
         /\ r.status = "committed" => HasCommit(op) /\ r.ref = CommitOf(op)
         /\ r.status = "not_started" => r = QueryAnswer(op) /\ ~HasCommit(op)
<1>1. HasCommit(op) => CommitOf(op) \in Reference
  BY CommitOfType, Types
<1>2. CASE r = QueryAnswer(op)
  BY <1>1, <1>2, BlankType DEF QueryAnswer
<1>3. CASE r = [status |-> "unknown", ref |-> NoRef]
  BY <1>3, BlankType
<1> QED BY <1>2, <1>3 DEF QueryResult

\* A compare-and-swap by what it answers and does.
LEMMA CasEffect ==
  ASSUME TypeOK, queue # <<>>, First.step = "cas", NEW r, Cas(First, r)
  PROVE  /\ NativeStep
         /\ faults' \in {faults, faults + 1}
         /\ r.ref \in Reference
         /\ r.status \in {"committed", "conflict", "not_committed", "unknown"}
         /\ r.status = "committed" => \/ HasCommit(First.op) /\ r.ref = CommitOf(First.op) /\ UNCHANGED native
                                      \/ Admitted /\ Stored /\ r.ref = Ref(disk.gen + 1, First.cand)
         /\ r.status = "conflict" => First.ref # Durable
         /\ r.status = "not_committed" => ~HasCommit(First.op) /\ First.op \notin tomb.ids /\ UNCHANGED log
         /\ r.status = "unknown" => faults' = faults + 1 \/ First.op \in tomb.ids \/ tomb.gen < disk.gen
<1>1. First \in Save
  BY HeadType
<1>2. First.op \in Nat /\ First.cand \in Doc
  BY <1>1 DEF Save
<1>3. NativeTypeOK /\ faults \in Nat /\ disk.gen \in Nat
  BY Types DEF TypeOK
<1> DEFINE env == EnvelopeFor(First.op, First.cand)
<1>4. env # disk /\ Last(env.recent) = Commit(First.op, First.cand) /\ env.gen = disk.gen + 1
  BY <1>2, <1>3, EnvelopeType
<1>5. ASSUME Admitted, Wrote(TombsFor, env) PROVE Stored
  BY <1>4, <1>5 DEF Wrote, Stored
<1>6. ASSUME NEW t \in {tomb, TombsFor}, Wrote(t, disk) PROVE UNCHANGED native \/ Buried
  BY <1>6 DEF Wrote, Buried, native
<1>7. Ref(env.gen, First.cand) \in Reference
  BY <1>2, <1>3, <1>4 DEF Ref, Reference
<1> HIDE DEF env
<1>8. CASE /\ HasCommit(First.op)
           /\ r = [status |-> "committed", ref |-> CommitOf(First.op)]
           /\ UNCHANGED native /\ NoFault
  <2>1. NativeStep /\ faults' = faults
    BY <1>8 DEF NoFault, NativeStep
  <2>2. r.status = "committed" /\ r.ref = CommitOf(First.op) /\ r.ref \in Reference
    BY <1>3, <1>8, CommitOfType
  <2> QED BY <1>8, <2>1, <2>2
<1>9. CASE /\ ~HasCommit(First.op) /\ First.ref # Durable
           /\ r = [status |-> "conflict", ref |-> NoRef]
           /\ UNCHANGED native /\ NoFault
  <2>1. NativeStep /\ faults' = faults
    BY <1>9 DEF NoFault, NativeStep
  <2>2. r.status = "conflict" /\ r.ref \in Reference
    BY <1>9, BlankType
  <2> QED BY <1>9, <2>1, <2>2
<1>10. CASE /\ ~HasCommit(First.op) /\ First.ref = Durable
            /\ \/ disk.gen > Len(disk.recent) /\ tomb.gen < disk.gen
               \/ First.op \in tomb.ids
            /\ r = [status |-> "unknown", ref |-> NoRef]
            /\ UNCHANGED native /\ NoFault
  <2>1. NativeStep /\ faults' = faults
    BY <1>10 DEF NoFault, NativeStep
  <2>2. r.status = "unknown" /\ r.ref \in Reference
    BY <1>10, BlankType
  <2> QED BY <1>10, <2>1, <2>2
<1>11. CASE /\ ~HasCommit(First.op) /\ First.ref = Durable /\ First.op \notin tomb.ids
            /\ disk.gen <= Len(disk.recent) \/ tomb.gen >= disk.gen
            /\ \/ /\ r = [status |-> "committed", ref |-> Ref(env.gen, First.cand)]
                  /\ Wrote(TombsFor, env) /\ NoFault
               \/ /\ r = [status |-> "not_committed", ref |-> NoRef]
                  /\ \E t \in {tomb, TombsFor} : Wrote(t, disk)
                  /\ Fault
               \/ /\ r = [status |-> "unknown", ref |-> NoRef]
                  /\ \/ \E t \in {tomb, TombsFor} : Wrote(t, disk)
                     \/ Wrote(TombsFor, env)
                  /\ Fault
  <2>1. Admitted
    BY <1>11 DEF Admitted
  <2>2. CASE /\ r = [status |-> "committed", ref |-> Ref(env.gen, First.cand)]
             /\ Wrote(TombsFor, env) /\ NoFault
    BY <2>1, <2>2, <1>4, <1>5, <1>7 DEF NativeStep, NoFault
  <2>3. CASE /\ r = [status |-> "not_committed", ref |-> NoRef]
             /\ \E t \in {tomb, TombsFor} : Wrote(t, disk)
             /\ Fault
    <3>1. UNCHANGED log
      BY <2>3 DEF Wrote
    <3>2. NativeStep /\ faults' = faults + 1
      BY <2>1, <2>3, <1>6 DEF NativeStep, Fault, native
    <3>3. r.status = "not_committed" /\ r.ref \in Reference
      BY <2>3, BlankType
    <3> QED BY <3>1, <3>2, <3>3, <1>11
  <2>4. CASE /\ r = [status |-> "unknown", ref |-> NoRef]
             /\ \/ \E t \in {tomb, TombsFor} : Wrote(t, disk)
                \/ Wrote(TombsFor, env)
             /\ Fault
    <3>1. NativeStep /\ faults' = faults + 1
      BY <2>1, <2>4, <1>5, <1>6 DEF NativeStep, Fault, native
    <3>2. r.status = "unknown" /\ r.ref \in Reference
      BY <2>4, BlankType
    <3> QED BY <3>1, <3>2
  <2> QED BY <1>11, <2>2, <2>3, <2>4
<1> QED BY <1>8, <1>9, <1>10, <1>11 DEF Cas, env

\* A step that moves the head on to another step, by the job it leaves.
LEMMA MovesOnBy ==
  ASSUME Quiet, NEW j \in Save, Advance(j), j.step # "start",
         j.owner = First.owner, j.cand = First.cand, j.must = First.must,
         Minted(j) \/ Resumed(j), j.step = "cas" => j.ref = Durable /\ UNCHANGED native
  PROVE  MovesOn
  BY DEF MovesOn

\* The head with another step, and no more.
LEMMA StepsOn ==
  ASSUME TypeOK, queue # <<>>, NEW s \in Step \ {"start", "cas"}, First.step # "start",
         Advance([First EXCEPT !.step = s]), Quiet, UNCHANGED <<pending, clock>>
  PROVE  MovesOn
<1> DEFINE j == [First EXCEPT !.step = s]
<1>1. j \in Save /\ First \in Save
  BY SaveFields, HeadType
<1>2. /\ j.owner = First.owner /\ j.cand = First.cand /\ j.must = First.must
      /\ j.step = s /\ j.op = First.op
  BY <1>1 DEF Save
<1> HIDE DEF j
<1>3. Resumed(j)
  BY <1>2 DEF Resumed
<1> QED BY <1>1, <1>2, <1>3, MovesOnBy DEF j

\* A step that answers the head, by its answer.
LEMMA AnswersBy ==
  ASSUME NEW status \in Status, NEW ref \in Reference, Answer(status, ref)
  PROVE  Answers
  BY DEF Answers

\* All that a step of saving can do.
Effects == /\ queue # <<>> /\ NativeStep
           /\ MovesOn \/ Answers
           /\ faults' \in {faults, faults + 1}

\* Each step of saving has such an effect: the look-up of the candidate,
LEMMA StartEffects == ASSUME TypeOK, Start PROVE Effects
<1>1. First \in Save /\ clock \in Nat /\ clock + 1 \in Nat
  BY HeadType DEF TypeOK, Start
<1>2. queue # <<>> /\ NativeStep /\ faults' = faults /\ UNCHANGED native /\ First.step = "start"
  BY DEF Start, NativeStep, NoFault, Answer
<1>3. CASE Answer("unknown", NoRef)
  BY <1>2, <1>3, BlankType, AnswersBy DEF Status, Effects
<1>4. CASE /\ EntryOf(First.cand) = {}
           /\ Advance([First EXCEPT !.step = "load", !.op = clock + 1])
           /\ pending' = pending \cup {[cand |-> First.cand, op |-> clock + 1]}
           /\ clock' = clock + 1
           /\ Quiet
  <2> DEFINE j == [First EXCEPT !.step = "load", !.op = clock + 1]
  <2>1. j \in Save
    BY <1>1, <1>2, SaveFields DEF Step
  <2>2. /\ j.owner = First.owner /\ j.cand = First.cand /\ j.must = First.must
        /\ j.step = "load" /\ j.op = clock + 1
    BY <1>1 DEF Save
  <2> HIDE DEF j
  <2>3. Minted(j)
    BY <1>2, <1>4, <2>2 DEF Minted
  <2> QED BY <1>2, <1>4, <2>1, <2>2, <2>3, MovesOnBy DEF Effects, j
<1> DEFINE p == CHOOSE q \in EntryOf(First.cand) : TRUE
<1>5. CASE /\ EntryOf(First.cand) # {}
           /\ Advance([First EXCEPT !.step = "ask", !.op = p.op])
           /\ UNCHANGED <<pending, clock>> /\ Quiet
  <2>1. p \in pending /\ p.cand = First.cand
    BY <1>5 DEF EntryOf
  <2>2. p.op \in Nat /\ p = [cand |-> First.cand, op |-> p.op]
    BY <2>1 DEF TypeOK
  <2> HIDE DEF p
  <2> DEFINE j == [First EXCEPT !.step = "ask", !.op = p.op]
  <2>3. j \in Save
    BY <1>2, <2>2, SaveFields DEF Step
  <2>4. /\ j.owner = First.owner /\ j.cand = First.cand /\ j.must = First.must
        /\ j.step = "ask" /\ j.op = p.op
    BY <1>1 DEF Save
  <2> HIDE DEF j
  <2>5. Resumed(j)
    BY <1>2, <1>5, <2>1, <2>2, <2>4 DEF Resumed
  <2> QED BY <1>2, <1>5, <2>3, <2>4, <2>5, MovesOnBy DEF Effects, j
<1> QED BY <1>3, <1>4, <1>5 DEF Start

\* the question about its earlier operation,
LEMMA AskEffects == ASSUME TypeOK, Ask PROVE Effects
<1>1. queue # <<>> /\ NativeStep /\ First.step = "ask"
  BY DEF Ask, NativeStep
<1>2. PICK r \in QueryResult(First.op) :
        /\ Queried(First.op, r)
        /\ IF r.status = "committed" THEN Answer("committed", r.ref)
           ELSE /\ Advance([First EXCEPT !.step = "load"])
                /\ Quiet /\ UNCHANGED <<pending, clock>>
  BY DEF Ask
<1>3. faults' \in {faults, faults + 1}
  BY <1>2 DEF Queried, Fault, NoFault
<1>4. CASE r.status = "committed"
  <2>1. r.ref \in Reference
    BY QueryAnswerType
  <2>2. Answers
    BY <1>2, <1>4, <2>1, AnswersBy DEF Status
  <2> QED BY <1>1, <1>3, <2>2 DEF Effects
<1>5. CASE r.status # "committed"
  <2>1. MovesOn
    BY <1>1, <1>2, <1>5, StepsOn DEF Step
  <2> QED BY <1>1, <1>3, <2>1 DEF Effects
<1> QED BY <1>4, <1>5

\* the read of the authority,
LEMMA LoadEffects == ASSUME TypeOK, Load PROVE Effects
<1>1. queue # <<>> /\ NativeStep /\ UNCHANGED native /\ First.step = "load"
  BY DEF Load, NativeStep
<1>2. First \in Save /\ Durable \in Reference
  BY <1>1, HeadType, DurableType
<1>3. CASE Fault /\ Answer("unknown", NoRef)
  BY <1>1, <1>3, BlankType, AnswersBy DEF Status, Effects, Fault
<1>4. CASE NoFault /\ Answer("not_committed", NoRef)
  BY <1>1, <1>4, BlankType, AnswersBy DEF Status, Effects, NoFault
<1>5. CASE /\ NoFault
           /\ Advance([First EXCEPT !.step = "cas", !.ref = Durable])
           /\ Quiet /\ UNCHANGED <<pending, clock>>
  <2> DEFINE j == [First EXCEPT !.step = "cas", !.ref = Durable]
  <2>1. j \in Save
    BY <1>1, <1>2, SaveFields DEF Step
  <2>2. /\ j.owner = First.owner /\ j.cand = First.cand /\ j.must = First.must
        /\ j.step = "cas" /\ j.op = First.op /\ j.ref = Durable
    BY <1>2 DEF Save
  <2> HIDE DEF j
  <2>3. Resumed(j)
    BY <1>1, <1>5, <2>2 DEF Resumed
  <2> QED BY <1>1, <1>5, <2>1, <2>2, <2>3, MovesOnBy DEF Effects, j, NoFault
<1> QED BY <1>3, <1>4, <1>5 DEF Load

\* the compare-and-swap,
LEMMA CasEffects == ASSUME TypeOK, CasPersist PROVE Effects
<1>1. queue # <<>> /\ First.step = "cas"
  BY DEF CasPersist
<1>2. PICK r :
        /\ Cas(First, r)
        /\ CASE r.status = "committed" /\ r.ref = Ref(First.ref.gen + 1, First.cand) ->
                  Answer("committed", r.ref)
             [] r.status \in {"conflict", "not_committed"} -> Answer("not_committed", NoRef)
             [] OTHER -> /\ Advance([First EXCEPT !.step = "query"])
                         /\ Quiet /\ UNCHANGED <<pending, clock>>
  BY DEF CasPersist
<1>3. /\ NativeStep /\ faults' \in {faults, faults + 1} /\ r.ref \in Reference
      /\ r.status \in {"committed", "conflict", "not_committed", "unknown"}
  BY <1>1, <1>2, CasEffect
<1>4. CASE r.status = "committed" /\ r.ref = Ref(First.ref.gen + 1, First.cand)
  BY <1>1, <1>2, <1>3, <1>4, AnswersBy DEF Status, Effects
<1>5. CASE r.status \in {"conflict", "not_committed"}
  BY <1>1, <1>2, <1>3, <1>5, BlankType, AnswersBy DEF Status, Effects
<1>6. CASE /\ ~(r.status = "committed" /\ r.ref = Ref(First.ref.gen + 1, First.cand))
           /\ r.status \notin {"conflict", "not_committed"}
  <2>1. Advance([First EXCEPT !.step = "query"]) /\ Quiet /\ UNCHANGED <<pending, clock>>
    BY <1>2, <1>6
  <2>2. MovesOn
    BY <1>1, <2>1, StepsOn DEF Step
  <2> QED BY <1>1, <1>3, <2>2 DEF Effects
<1> QED BY <1>4, <1>5, <1>6

\* the query after an unknown outcome,
LEMMA QueryEffects == ASSUME TypeOK, Query PROVE Effects
<1>1. queue # <<>> /\ NativeStep /\ First.step = "query"
  BY DEF Query, NativeStep
<1>2. PICK r \in QueryResult(First.op) :
        /\ Queried(First.op, r)
        /\ CASE r.status = "committed"   -> Answer("committed", r.ref)
             [] r.status = "not_started" -> Answer("not_committed", NoRef)
             [] r.status = "unknown"     -> /\ Advance([First EXCEPT !.step = "reconcile"])
                                            /\ Quiet /\ UNCHANGED <<pending, clock>>
  BY DEF Query
<1>3. faults' \in {faults, faults + 1}
  BY <1>2 DEF Queried, Fault, NoFault
<1>4. r.status \in {"committed", "not_started", "unknown"} /\ r.ref \in Reference
  BY QueryAnswerType
<1>5. CASE r.status = "committed"
  BY <1>1, <1>2, <1>3, <1>4, <1>5, AnswersBy DEF Status, Effects
<1>6. CASE r.status = "not_started"
  BY <1>1, <1>2, <1>3, <1>6, BlankType, AnswersBy DEF Status, Effects
<1>7. CASE r.status = "unknown"
  <2>1. MovesOn
    BY <1>1, <1>2, <1>7, StepsOn DEF Step
  <2> QED BY <1>1, <1>3, <2>1 DEF Effects
<1> QED BY <1>4, <1>5, <1>6, <1>7

\* and the comparison with the durable snapshot.
LEMMA ReconcileEffects == ASSUME TypeOK, Reconcile PROVE Effects
<1>1. queue # <<>> /\ NativeStep /\ Durable \in Reference
  BY DurableType DEF Reconcile, NativeStep
<1>2. \/ Answer("unknown", NoRef)
      \/ Answer("committed", Durable)
  BY DEF Reconcile
<1>3. Answers
  BY <1>1, <1>2, BlankType, AnswersBy DEF Status
<1> QED BY <1>1, <1>3 DEF Effects, Reconcile, Fault, NoFault

\* Every step of the queue moves the head on or answers it, and touches the
\* native files at the compare-and-swap alone.
LEMMA SavingEffects == ASSUME TypeOK, Saving PROVE Effects
  BY StartEffects, AskEffects, LoadEffects, CasEffects, QueryEffects, ReconcileEffects DEF Saving

----------------------------------------------------------------------------
\* Everything about an answered save that is not native.
LEMMA AnswerType ==
  ASSUME TypeOK, queue # <<>>, NEW status \in Status, NEW ref \in Reference, Answer(status, ref),
         faults' \in Nat
  PROVE  /\ AppTypeOK'
         /\ clock' \in {clock, clock + 1}
         /\ pending' \subseteq pending
         /\ queue' = Tail(queue)
<1>1. First \in Save /\ clock \in Nat /\ queue \in Seq(Save)
  BY HeadType DEF TypeOK
<1>2. /\ mem' \in Memory /\ tx' \in [Owner -> Transaction] /\ clock' \in {clock, clock + 1}
      /\ kept' \in [Chat -> Nat]
  <2>1. CASE First.owner = "user"
    BY <2>1 DEF Answer, Settle, TypeOK
  <2>2. CASE First.owner # "user"
    <3> DEFINE o == First.owner
               t == tx[o]
    <3>1. o \in Owner /\ t \in Transaction
      BY <1>1, <2>2 DEF Save, TypeOK
    <3>2. CASE status = "committed" /\ Commits(t, ref)
      <4>1. /\ tx' = [tx EXCEPT ![o] = NoTx] /\ UNCHANGED <<mem, clock>>
            /\ kept' = IF t.kind = "checkpoint"
                       THEN [kept EXCEPT ![t.chat] = t.next.row[t.chat].att] ELSE kept
        BY <2>2, <3>2 DEF Answer, Settle
      <4>2. t.next.row[t.chat].att \in Nat
        BY <3>1 DEF Transaction, Memory
      <4> QED BY <4>1, <4>2, NoTxType DEF TypeOK
    <3>3. CASE /\ ~(status = "committed" /\ Commits(t, ref))
               /\ status = "unknown" /\ (o = "turn" \/ (o = "bind" /\ Owned(t)))
      <4>1. tx' = [tx EXCEPT ![o].st = "latched"] /\ UNCHANGED <<mem, clock, kept>>
        BY <2>2, <3>3 DEF Answer, Settle
      <4>2. [t EXCEPT !.st = "latched"] \in Transaction
        BY <3>1 DEF Transaction
      <4> QED BY <3>1, <4>1, <4>2 DEF TypeOK
    <3>4. CASE /\ ~(status = "committed" /\ Commits(t, ref))
               /\ ~(status = "unknown" /\ (o = "turn" \/ (o = "bind" /\ Owned(t))))
      <4>1. /\ tx' = [tx EXCEPT ![o] = NoTx] /\ mem' = Withdrawn(t, status)
            /\ clock' = clock + 1 /\ UNCHANGED kept
        BY <2>2, <3>4 DEF Answer, Settle
      <4> QED BY <3>1, <4>1, WithdrawnType, NoTxType DEF TypeOK
    <3> QED BY <3>2, <3>3, <3>4
  <2> QED BY <2>1, <2>2
<1>3. queue' = Tail(queue) /\ Tail(queue) \in Seq(Save)
  BY <1>1, TailProperties DEF Answer
<1>4. pending' \subseteq pending
  BY DEF Answer, StillPending
<1>5. auth' \in Reference
  BY DEF Answer, TypeOK
<1>6. answer' \in [status : {"none", "committed", "not_committed", "unknown"},
                   step : Step, op : Nat, cand : Doc, ref : Reference]
  BY <1>1 DEF Answer, Status, Save
<1>7. UNCHANGED <<choice, edits, launch, renamed>>
  BY DEF Answer
<1> QED BY SMTT(40), <1>1, <1>2, <1>3, <1>4, <1>5, <1>6, <1>7 DEF TypeOK, AppTypeOK

\* A new save is a save.
LEMMA JobType ==
  ASSUME NEW owner \in Owner \cup {"user"}, NEW m \in Memory, NEW must \in Reference
  PROVE  Job(owner, m, must) \in Save
  BY DocumentType, BlankType DEF Job, Save, Step

\* A save of what memory holds keeps the types.
LEMMA PersistCurrentType ==
  ASSUME TypeOK, NEW owner \in Owner \cup {"user"}, NEW m \in Memory, PersistCurrent(owner, m)
  PROVE  mem' \in Memory /\ queue' \in Seq(Save) /\ clock' \in Nat
<1>1. clock \in Nat /\ choice \in {0, 1} /\ queue \in Seq(Save)
  BY DEF TypeOK
<1>2. mem' \in Memory
  BY <1>1, SynchronizedType DEF PersistCurrent
<1> DEFINE n == Synchronized(m, clock + 2)
<1>3. n \in Memory
  BY <1>1, SynchronizedType
<1>4. mem' = n /\ queue' = Append(queue, Job(owner, n, NoRef)) /\ clock' = clock + 2
  BY DEF PersistCurrent
<1> HIDE DEF n
<1>5. Job(owner, n, NoRef) \in Save
  BY <1>3, JobType, BlankType
<1> QED BY <1>1, <1>3, <1>4, <1>5

\* A new transaction is a transaction.
LEMMA TransactionType ==
  ASSUME TypeOK, NEW kind \in Kind, NEW c \in Chat, NEW m \in Memory
  PROVE  [st |-> "saving", kind |-> kind, chat |-> c, before |-> mem, next |-> m, cap |-> auth]
           \in Transaction
  BY DEF Transaction, TypeOK

\* The steps of the owners keep the types: a change,
LEMMA BeginType ==
  ASSUME TypeOK, NEW owner \in Owner, NEW kind \in Kind, Begin(owner, kind)
  PROVE  AppTypeOK'
<1>1. clock \in Nat /\ clock + 1 \in Nat /\ clock + 2 \in Nat /\ mem \in Memory /\ edits \in Nat
  BY DEF TypeOK
<1>2. PICK c \in Chat :
        LET m == Changed(kind, c, mem, clock + 1)
            s == Synchronized(m, clock + 2)
        IN /\ tx' = [tx EXCEPT ![owner] = [st |-> "saving", kind |-> kind, chat |-> c,
                                           before |-> mem, next |-> m, cap |-> auth]]
           /\ mem' = s
           /\ queue' = Append(queue, Job(owner, s, NoRef))
  BY DEF Begin
<1> DEFINE m == Changed(kind, c, mem, clock + 1)
           s == Synchronized(m, clock + 2)
           t == [st |-> "saving", kind |-> kind, chat |-> c, before |-> mem, next |-> m, cap |-> auth]
<1>3. m \in Memory
  BY <1>1, ChangedType
<1> HIDE DEF m
<1>4. s \in Memory
  BY <1>1, <1>3, SynchronizedType DEF TypeOK
<1>5. t \in Transaction
  BY <1>3, TransactionType
<1> HIDE DEF s, t
<1>6. Job(owner, s, NoRef) \in Save
  BY <1>4, JobType, BlankType
<1>7. mem' \in Memory /\ tx' \in [Owner -> Transaction] /\ queue' \in Seq(Save)
  BY <1>2, <1>4, <1>5, <1>6 DEF m, s, t, TypeOK
<1>8. edits' \in Nat /\ clock' \in Nat
  BY <1>1 DEF Begin, MayEdit
<1> QED BY <1>7, <1>8 DEF Begin, AppTypeOK, TypeOK

\* the drain's change,
LEMMA DrainType == ASSUME TypeOK, DrainBegins PROVE AppTypeOK'
<1> DEFINE c == CHOOSE c \in Chat : TRUE
           m == Changed("ack", c, mem, clock + 1)
           t == [st |-> "saving", kind |-> "ack", chat |-> c, before |-> mem, next |-> m, cap |-> auth]
<1>1. clock \in Nat /\ clock + 1 \in Nat /\ mem \in Memory /\ edits \in Nat /\ auth \in Reference
  BY DEF TypeOK
<1>2. c \in Chat /\ "ack" \in Kind
  BY ChatAssumption DEF Kind
<1>3. /\ tx' = [tx EXCEPT !["drain"] = t] /\ mem' = m
      /\ queue' = Append(queue, Job("drain", m, auth))
  BY DEF DrainBegins
<1> HIDE DEF c
<1>4. m \in Memory
  BY <1>1, <1>2, ChangedType
<1> HIDE DEF m
<1>5. t \in Transaction
  BY <1>2, <1>4, TransactionType
<1> HIDE DEF t
<1>6. mem' \in Memory /\ tx' \in [Owner -> Transaction] /\ queue' \in Seq(Save)
  BY <1>1, <1>3, <1>4, <1>5, JobType DEF Owner, TypeOK
<1>7. edits' \in Nat /\ clock' \in Nat
  BY <1>1 DEF DrainBegins, MayEdit
<1> QED BY <1>6, <1>7 DEF DrainBegins, AppTypeOK, TypeOK

\* a retry,
LEMMA RetryType == ASSUME TypeOK, NEW owner \in {"turn", "bind"}, Retry(owner) PROVE AppTypeOK'
<1>1. owner \in Owner /\ tx[owner] \in Transaction /\ mem \in Memory /\ edits \in Nat
  BY DEF Owner, TypeOK
<1>2. [tx[owner] EXCEPT !.st = "saving"] \in Transaction
  BY <1>1 DEF Transaction
<1>3. tx' \in [Owner -> Transaction]
  BY <1>1, <1>2 DEF Retry, TypeOK
<1>4. mem' \in Memory /\ queue' \in Seq(Save) /\ clock' \in Nat
  BY <1>1, PersistCurrentType DEF Retry
<1> QED BY SMTT(40), <1>1, <1>3, <1>4 DEF Retry, MayEdit, AppTypeOK, TypeOK

\* The three fields an edit of the user writes.
Renamed(c) == [mem EXCEPT !.row[c].body = clock + 1, !.row[c].obj = clock + 1, !.root = clock + 1]

\* an edit of the user,
LEMMA RenameType == ASSUME TypeOK, Rename PROVE AppTypeOK'
<1>1. clock + 1 \in Nat /\ mem \in Memory /\ edits \in Nat
  BY DEF TypeOK
<1>2. PICK c \in Chat : PersistCurrent("user", Renamed(c)) /\ renamed' = [renamed EXCEPT ![c] = clock + 1]
  BY DEF Rename, Renamed
<1>3. Renamed(c) \in Memory
  BY <1>1, FieldTypes DEF Renamed
<1>4. mem' \in Memory /\ queue' \in Seq(Save) /\ clock' \in Nat
  BY <1>2, <1>3, PersistCurrentType
<1>5. renamed' \in [Chat -> Nat]
  BY <1>1, <1>2 DEF TypeOK
<1>6. edits' \in Nat /\ UNCHANGED <<choice, auth, pending, tx, faults, launch, answer, kept>>
  BY <1>1 DEF Rename, MayEdit
<1> QED BY <1>4, <1>5, <1>6 DEF AppTypeOK, TypeOK

\* a change of the settings,
LEMMA SettingsType == ASSUME TypeOK, SettingsSave PROVE AppTypeOK'
<1>1. clock + 1 \in Nat /\ mem \in Memory /\ edits \in Nat /\ 1 - choice \in {0, 1} /\ queue \in Seq(Save)
  BY DEF TypeOK
<1> DEFINE n == [mem EXCEPT !.prefs = 1 - choice, !.root = clock + 1]
<1>2. n \in Memory
  BY <1>1 DEF Memory
<1>3. mem' = n /\ queue' = Append(queue, Job("user", n, NoRef))
  BY DEF SettingsSave
<1> HIDE DEF n
<1>4. Job("user", n, NoRef) \in Save
  BY <1>2, JobType, BlankType
<1>5. mem' \in Memory /\ queue' \in Seq(Save)
  BY <1>1, <1>2, <1>3, <1>4
<1>6. /\ edits' \in Nat /\ choice' = 1 - choice /\ clock' = clock + 1
      /\ UNCHANGED <<auth, pending, tx, faults, launch, answer, kept, renamed>>
  BY <1>1 DEF SettingsSave, MayEdit
<1> QED BY <1>1, <1>5, <1>6 DEF AppTypeOK, TypeOK

\* a restored snapshot,
LEMMA RestoreType == ASSUME TypeOK, Restore PROVE AppTypeOK'
<1>1. clock + 1 \in Nat /\ mem \in Memory /\ edits \in Nat /\ disk.doc \in Doc
  BY DEF TypeOK
<1>2. mem' \in Memory
  BY <1>1, HydratedType DEF Restore
<1>3. renamed' \in [Chat -> Nat]
  BY <1>1 DEF Restore, Doc, TypeOK
<1> QED BY SMTT(40), <1>1, <1>2, <1>3, DurableType DEF Restore, MayEdit, AppTypeOK, TypeOK

\* and a launch.
LEMMA RelaunchType == ASSUME TypeOK, Relaunch PROVE AppTypeOK'
<1>1. clock + 1 \in Nat /\ disk.doc \in Doc /\ launch \in Nat
  BY DEF TypeOK
<1>2. mem' \in Memory /\ choice' \in {0, 1}
  BY <1>1, HydratedType DEF Relaunch, Doc
<1>3. renamed' \in [Chat -> Nat]
  BY <1>1 DEF Relaunch, Doc
<1>4. tx' \in [Owner -> Transaction] /\ queue' \in Seq(Save)
  BY NoTxType DEF Relaunch
<1> QED BY SMTT(40), <1>1, <1>2, <1>3, <1>4, DurableType DEF Relaunch, AppTypeOK, TypeOK

\* The steps of the owners, of the user and of a launch.
Owning == \/ TurnBegins \/ BindBegins \/ DrainBegins
          \/ (\E owner \in {"turn", "bind"} : Retry(owner))
          \/ Rename \/ Prefer \/ SettingsSave \/ Restore \/ Relaunch

\* A step is one of saving or one of the owners.
LEMMA NextSplits == Next <=> Saving \/ Owning
  BY DEF Next, Saving, Owning

\* The owners do not touch the files.
LEMMA OwningIsNotNative == Owning => UNCHANGED <<disk, tomb, log>>
  BY DEF Owning, TurnBegins, BindBegins, Begin, DrainBegins, Retry, Rename, Prefer,
         SettingsSave, Restore, Relaunch, native

\* Every step keeps the types.
LEMMA TypeStep == ASSUME TypeOK, [Next]_vars PROVE TypeOK'
<1>1. CASE Saving
  <2>1. Effects
    BY <1>1, SavingEffects
  <2>2. faults' \in Nat /\ First \in Save
    BY <2>1, HeadType DEF Effects, TypeOK
  <2>3. NativeTypeOK'
    BY <2>1, <2>2, NativeStepType, Types DEF Effects, Save
  <2>4. CASE MovesOn
    <3>1. PICK j \in Save : Advance(j) /\ (Minted(j) \/ Resumed(j))
      BY <2>4 DEF MovesOn
    <3>2. queue' \in Seq(Save)
      BY <2>1, <3>1, HeadReplaced DEF Advance, Effects, TypeOK
    <3>3. clock' \in Nat /\ pending' \subseteq [cand : Doc, op : Nat]
      BY <2>2, <3>1 DEF Minted, Resumed, Save, TypeOK
    <3>4. AppTypeOK'
      BY <2>2, <2>4, <3>2, <3>3 DEF MovesOn, Quiet, AppTypeOK, TypeOK
    <3> QED BY <2>3, <3>4, Types DEF TypeOK, AppTypeOK, NativeTypeOK
  <2>5. CASE Answers
    <3>1. AppTypeOK'
      BY <2>1, <2>2, <2>5, AnswerType DEF Effects, Answers
    <3> QED BY <2>3, <3>1 DEF TypeOK, AppTypeOK, NativeTypeOK
  <2> QED BY <2>1, <2>4, <2>5 DEF Effects
<1>2. CASE Owning
  <2>1. NativeTypeOK'
    BY <1>2, OwningIsNotNative DEF TypeOK, NativeTypeOK
  <2>2. TurnBegins => AppTypeOK'
    BY BeginType DEF TurnBegins, Owner, Kind
  <2>3. BindBegins => AppTypeOK'
    BY BeginType DEF BindBegins, Owner, Kind
  <2>4. Prefer => AppTypeOK'
    BY SMTT(40) DEF Prefer, MayEdit, saving, AppTypeOK, TypeOK
  <2>5. AppTypeOK'
    BY <1>2, <2>2, <2>3, <2>4, DrainType, RetryType, RenameType, SettingsType, RestoreType,
       RelaunchType DEF Owning
  <2> QED BY <2>1, <2>5 DEF TypeOK, AppTypeOK, NativeTypeOK
<1>3. CASE UNCHANGED vars
  BY <1>3 DEF vars, TypeOK
<1> QED BY <1>1, <1>2, <1>3, NextSplits

\* The initial state has its types.
LEMMA TypeInit == Init => TypeOK
<1> SUFFICES ASSUME Init PROVE TypeOK
  OBVIOUS
<1>1. mem \in Memory /\ auth \in Reference
  BY HydratedType, BlankType DEF Init, Ref, Reference
<1>2. [op |-> 0, gen |-> 1, doc |-> Blank] \in Written
  BY BlankType DEF Written
<1>3. disk.recent \in Seq(Written) /\ Len(disk.recent) = 1 /\ log \in Seq(Written)
  BY <1>2 DEF Init
<1>4. disk \in [gen : Nat, doc : Doc, recent : Seq(Written)] /\ Len(disk.recent) <= MaxRecent
  BY <1>2, <1>3, BlankType, SizesAssumption DEF Init
<1>5. tomb \in [gen : Nat, ids : SUBSET Nat] /\ choice \in {0, 1} /\ queue \in Seq(Save)
  BY DEF Init
<1>6. tx \in [Owner -> Transaction]
  BY NoTxType DEF Init
<1>7. answer \in [status : {"none", "committed", "not_committed", "unknown"},
                  step : Step, op : Nat, cand : Doc, ref : Reference]
  BY BlankType DEF Init, Step
<1> QED BY <1>1, <1>3, <1>4, <1>5, <1>6, <1>7 DEF Init, TypeOK

\* Memory, the files, the queue, the transactions and the histories keep their
\* types (the chat store, HomeScreen's queue, SessionSnapshotStore.mm).
THEOREM TypeCorrect == Spec => []TypeOK
<1>1. Init => TypeOK
  BY TypeInit
<1>2. TypeOK /\ [Next]_vars => TypeOK'
  BY TypeStep
<1> QED BY <1>1, <1>2, PTL DEF Spec
----------------------------------------------------------------------------
(***************************************************************************)
(* The two files tell the history                                          *)
(***************************************************************************)
Happened(op) == \E i \in DOMAIN log : log[i].op = op

\* How many commits have left the retained list.
Evicted == Len(log) - Len(disk.recent)

\* The envelope is the end of the history and the tombstones hold the rest.
LogInv ==
  /\ Len(log) >= 1 /\ disk.gen = Len(log) /\ disk.doc = log[Len(log)].doc
  /\ \A i \in DOMAIN log : log[i].gen = i /\ log[i].op <= clock
  /\ OncePerOperation
  /\ Len(disk.recent) = IF Len(log) <= MaxRecent THEN Len(log) ELSE MaxRecent
  /\ \A k \in DOMAIN disk.recent : disk.recent[k] = log[Evicted + k]
  /\ \A i \in 1 .. Evicted : log[i].op \in tomb.ids
  /\ \A op \in tomb.ids : Happened(op)
  /\ tomb.gen >= disk.gen

\* The history and the retained list, with their lengths as numbers.
LEMMA LogFacts ==
  ASSUME TypeOK, LogInv
  PROVE  /\ log \in Seq(Written) /\ disk.recent \in Seq(Written)
         /\ Len(log) \in Nat /\ Len(disk.recent) \in Nat /\ Evicted \in Nat
         /\ DOMAIN log = 1 .. Len(log) /\ DOMAIN disk.recent = 1 .. Len(disk.recent)
         /\ Len(log) = Evicted + Len(disk.recent) /\ Len(disk.recent) >= 1
         /\ MaxRecent \in Nat /\ MaxRecent >= 1
         /\ disk.gen = Len(log) /\ disk.gen \in Nat /\ tomb.gen \in Nat /\ clock \in Nat
         /\ \A i \in DOMAIN log : log[i] \in Written
<1>1. /\ log \in Seq(Written) /\ disk.recent \in Seq(Written)
      /\ disk.gen \in Nat /\ tomb.gen \in Nat /\ clock \in Nat
  BY DEF TypeOK
<1>2. MaxRecent \in Nat /\ MaxRecent >= 1
  BY SizesAssumption
<1>3. /\ Len(log) \in Nat /\ Len(disk.recent) \in Nat
      /\ DOMAIN log = 1 .. Len(log) /\ DOMAIN disk.recent = 1 .. Len(disk.recent)
      /\ \A i \in DOMAIN log : log[i] \in Written
  BY <1>1
<1>4. /\ Len(log) >= 1 /\ disk.gen = Len(log)
      /\ Len(disk.recent) = IF Len(log) <= MaxRecent THEN Len(log) ELSE MaxRecent
  BY DEF LogInv
<1>5. Evicted \in Nat /\ Len(log) = Evicted + Len(disk.recent) /\ Len(disk.recent) >= 1
  BY <1>2, <1>3, <1>4 DEF Evicted
<1> QED BY <1>1, <1>2, <1>3, <1>4, <1>5

\* What the two files say of an operation is true.
LEMMA FilesTell ==
  ASSUME TypeOK, LogInv, NEW op
  PROVE  /\ HasCommit(op) => \E i \in DOMAIN log : log[i].op = op /\ CommitOf(op) = Ref(log[i].gen, log[i].doc)
         /\ ~HasCommit(op) /\ op \notin tomb.ids => ~Happened(op)
         /\ QueryAnswer(op).status = "not_started" => ~Happened(op)
<1>1. /\ Len(log) \in Nat /\ Len(disk.recent) \in Nat
      /\ DOMAIN log = 1 .. Len(log) /\ DOMAIN disk.recent = 1 .. Len(disk.recent)
  BY LogFacts
<1>3. Evicted \in Nat /\ Len(log) = Evicted + Len(disk.recent)
  BY LogFacts
<1>4. \A k \in DOMAIN disk.recent : Evicted + k \in DOMAIN log /\ disk.recent[k] = log[Evicted + k]
  <2>1. \A k \in DOMAIN disk.recent : disk.recent[k] = log[Evicted + k]
    BY DEF LogInv
  <2> QED BY <1>1, <1>3, <2>1
<1>5. ASSUME HasCommit(op)
      PROVE  \E i \in DOMAIN log : log[i].op = op /\ CommitOf(op) = Ref(log[i].gen, log[i].doc)
  <2>1. PICK k \in DOMAIN disk.recent :
          disk.recent[k].op = op /\ CommitOf(op) = Ref(disk.recent[k].gen, disk.recent[k].doc)
    BY <1>5, CommitOfType, Types
  <2> QED BY <2>1, <1>4
<1>6. ASSUME ~HasCommit(op), op \notin tomb.ids PROVE ~Happened(op)
  <2> SUFFICES ASSUME NEW i \in DOMAIN log, log[i].op = op PROVE FALSE
    BY DEF Happened
  <2>1. CASE i <= Evicted
    BY <1>1, <1>3, <1>6, <2>1 DEF LogInv
  <2>2. CASE i > Evicted
    <3>1. i - Evicted \in DOMAIN disk.recent
      BY <1>1, <1>3, <2>2
    <3>2. disk.recent[i - Evicted] = log[i]
      BY <1>1, <1>3, <1>4, <3>1
    <3> QED BY <1>6, <3>1, <3>2 DEF HasCommit
  <2> QED BY <1>1, <1>3, <2>1, <2>2
<1>7. ASSUME QueryAnswer(op).status = "not_started" PROVE ~Happened(op)
  <2>1. ~HasCommit(op)
    BY <1>7 DEF QueryAnswer
  <2>2. CASE op \notin tomb.ids
    BY <1>6, <2>1, <2>2
  <2>3. CASE disk.gen <= Len(disk.recent)
    <3>1. Evicted = 0
      BY <1>1, <1>3, <2>3 DEF LogInv
    <3> SUFFICES ASSUME NEW i \in DOMAIN log, log[i].op = op PROVE FALSE
      BY DEF Happened
    <3>2. i \in DOMAIN disk.recent /\ disk.recent[i] = log[i]
      BY <1>1, <1>3, <1>4, <3>1
    <3> QED BY <2>1, <3>2 DEF HasCommit
  <2>4. disk.gen <= Len(disk.recent) \/ op \notin tomb.ids
    BY <1>7, <2>1 DEF QueryAnswer
  <2> QED BY <2>2, <2>3, <2>4
<1> QED BY <1>5, <1>6, <1>7

\* One step of the native side keeps the files telling the history.
LEMMA LogStep ==
  ASSUME TypeOK, LogInv, NativeStep, TypeOK', clock' >= clock,
         Admitted => First.op <= clock /\ First.op \in Nat /\ First.cand \in Doc
  PROVE  LogInv'
<1> DEFINE n == Len(log)
           L == Len(disk.recent)
<1>1. /\ log \in Seq(Written) /\ disk.recent \in Seq(Written)
      /\ \A i \in 1 .. n : log[i].op \in Nat
      /\ DOMAIN log = 1 .. n /\ DOMAIN disk.recent = 1 .. L
  BY LogFacts DEF Written
<1>2. /\ n \in Nat /\ L \in Nat /\ MaxRecent \in Nat /\ MaxRecent >= 1
      /\ L = IF n <= MaxRecent THEN n ELSE MaxRecent
      /\ Evicted = n - L /\ n >= 1
      /\ disk.gen = n
  BY LogFacts DEF LogInv, Evicted
<1>c. clock \in Nat /\ clock' \in Nat
  BY LogFacts DEF TypeOK
<1>3. /\ \A k \in 1 .. L : disk.recent[k] = log[n - L + k]
      /\ \A i \in 1 .. n - L : log[i].op \in tomb.ids
      /\ \A op \in tomb.ids : \E i \in 1 .. n : log[i].op = op
      /\ \A i \in 1 .. n : log[i].gen = i /\ log[i].op <= clock
      /\ \A i, j \in 1 .. n : log[i].op = log[j].op => i = j
      /\ tomb.gen >= n /\ disk.doc = log[n].doc
  BY <1>1, <1>2 DEF LogInv, OncePerOperation, Happened
<1> HIDE DEF n, L
<1>4. /\ \A i \in 1 .. n - L : log[i].op \in TombsFor.ids
      /\ L = MaxRecent => log[n - L + 1].op \in TombsFor.ids
      /\ \A op \in TombsFor.ids : \E i \in 1 .. n : log[i].op = op
      /\ TombsFor.gen = n + 1
  <2>1. ASSUME L = MaxRecent PROVE disk.recent[1].op = log[n - L + 1].op /\ n - L + 1 \in 1 .. n
    <3>1. 1 \in 1 .. L /\ n - L + 1 \in 1 .. n
      BY <1>2, <2>1
    <3> QED BY <1>3, <3>1
  <2>2. \A i \in 1 .. n - L : log[i].op \in TombsFor.ids
    <3> SUFFICES ASSUME NEW i \in 1 .. n - L PROVE log[i].op \in TombsFor.ids
      OBVIOUS
    <3>1. n > MaxRecent
      BY <1>2
    <3> QED BY <1>2, <1>3, <3>1 DEF TombsFor
  <2>3. L = MaxRecent => log[n - L + 1].op \in TombsFor.ids
    BY <2>1 DEF TombsFor, L
  <2>4. \A op \in TombsFor.ids : \E i \in 1 .. n : log[i].op = op
    BY <1>3, <2>1 DEF TombsFor, L
  <2> QED BY <1>2, <2>2, <2>3, <2>4 DEF TombsFor
<1>5. CASE UNCHANGED native
  <2>1. UNCHANGED <<disk, tomb, log>>
    BY <1>5 DEF native
  <2>2. \A i \in DOMAIN log : log[i].op <= clock'
    BY <1>1, <1>2, <1>3, <1>c
  <2> QED BY <2>1, <2>2 DEF LogInv, OncePerOperation, Evicted, Happened
<1>6. CASE Buried
  <2>1. disk' = disk /\ log' = log /\ tomb' = TombsFor
    BY <1>6 DEF Buried
  <2>2. \A i \in DOMAIN log : log[i].op <= clock'
    BY <1>1, <1>2, <1>3, <1>c
  <2>3. tomb'.gen >= disk.gen
    BY <1>2, <1>4, <2>1
  <2>4. \A i \in 1 .. Evicted : log[i].op \in tomb'.ids
    BY <1>2, <1>4, <2>1
  <2>5. \A op \in tomb'.ids : Happened(op)
    BY <1>1, <1>4, <2>1 DEF Happened
  <2> QED BY <2>1, <2>2, <2>3, <2>4, <2>5 DEF LogInv, OncePerOperation, Evicted, Happened
<1>7. CASE Admitted /\ Stored
  <2> DEFINE w == Commit(First.op, First.cand)
             r == Append(disk.recent, w)
             l == LastOf(r)
             M == Len(l)
  <2>1. w \in Written /\ w.op = First.op /\ w.gen = n + 1 /\ w.doc = First.cand
    BY <1>2, <1>7, EnvelopeType, Types DEF Commit
  <2>2. /\ log' = Append(log, w) /\ tomb' = TombsFor
        /\ disk'.gen = n + 1 /\ disk'.doc = First.cand /\ disk'.recent = l
    BY <1>2, <1>7 DEF Stored, EnvelopeFor
  <2> HIDE DEF w
  <2>3. /\ r \in Seq(Written) /\ r # <<>> /\ Len(r) = L + 1 /\ r[L + 1] = w
        /\ \A k \in 1 .. L : r[k] = disk.recent[k]
    BY <1>1, <2>1, Appended DEF L
  <2> HIDE DEF r
  <2>4. /\ l \in Seq(Written) /\ M = IF Len(r) <= MaxRecent THEN Len(r) ELSE MaxRecent
        /\ \A k \in 1 .. M : l[k] = r[Len(r) - M + k]
    BY <2>3, LastOfProperties
  <2> HIDE DEF l
  <2>5. /\ Len(log') = n + 1 /\ DOMAIN log' = 1 .. n + 1 /\ log'[n + 1] = w
        /\ \A i \in 1 .. n : log'[i] = log[i]
    BY <1>1, <2>1, <2>2, Appended DEF n
  <2>6. M \in Nat /\ DOMAIN disk'.recent = 1 .. M /\ Len(disk'.recent) = M
    BY <2>2, <2>4
  <2> HIDE DEF M
  <2>7. /\ M = IF n + 1 <= MaxRecent THEN n + 1 ELSE MaxRecent
        /\ \A k \in 1 .. M : l[k] = r[L + 1 - M + k]
    BY <1>2, <2>3, <2>4, <2>6
  <2>8. \A k \in 1 .. M : disk'.recent[k] = log'[n + 1 - M + k]
    <3> SUFFICES ASSUME NEW k \in 1 .. M PROVE l[k] = log'[n + 1 - M + k]
      BY <2>2
    <3>1. l[k] = r[L + 1 - M + k]
      BY <2>7
    <3>2. L + 1 - M + k \in 1 .. L \/ k = M
      BY <1>2, <2>6, <2>7
    <3>3. CASE L + 1 - M + k \in 1 .. L
      <4>1. r[L + 1 - M + k] = log[n - L + (L + 1 - M + k)]
        BY <1>3, <2>3, <3>3
      <4>2. n - L + (L + 1 - M + k) = n + 1 - M + k /\ n + 1 - M + k \in 1 .. n
        BY SMTT(40), <1>2, <2>6, <2>7, <3>3
      <4> QED BY <2>5, <3>1, <4>1, <4>2
    <3>4. CASE k = M
      <4>1. n + 1 - M + k = n + 1 /\ L + 1 - M + k = L + 1
        BY <1>2, <2>6, <3>4
      <4> QED BY <2>3, <2>5, <3>1, <4>1
    <3> QED BY <3>2, <3>3, <3>4
  <2>9. \A i \in 1 .. n + 1 - M : log'[i].op \in tomb'.ids
    <3> SUFFICES ASSUME NEW i \in 1 .. n + 1 - M PROVE log'[i].op \in tomb'.ids
      OBVIOUS
    <3>1. i \in 1 .. n - L \/ (L = MaxRecent /\ i = n - L + 1)
      BY <1>2, <2>6, <2>7
    <3>2. i \in 1 .. n
      BY <1>2, <3>1
    <3> QED BY <1>4, <2>2, <2>5, <3>1, <3>2
  <2>10. ~Happened(First.op)
    BY <1>7, FilesTell DEF Admitted
  <2>s. \A i \in 1 .. n + 1 : i \in 1 .. n \/ i = n + 1
    BY <1>2
  <2>11. \A i, j \in 1 .. n + 1 : log'[i].op = log'[j].op => i = j
    <3>1. \A i \in 1 .. n : log[i].op # First.op
      BY <1>1, <2>10 DEF Happened
    <3> QED BY <1>3, <2>1, <2>5, <2>s, <3>1
  <2>12. \A i \in 1 .. n + 1 : log'[i].gen = i /\ log'[i].op <= clock'
    <3>1. \A i \in 1 .. n : log[i].op <= clock'
      BY <1>1, <1>3, <1>c
    <3>2. First.op <= clock'
      BY <1>7, <1>c
    <3> QED BY <1>3, <2>1, <2>5, <2>s, <3>1, <3>2
  <2>13. \A op \in tomb'.ids : \E i \in 1 .. n + 1 : log'[i].op = op
    <3>1. \A i \in 1 .. n : i \in 1 .. n + 1
      BY <1>2
    <3> QED BY <1>4, <2>2, <2>5, <3>1
  <2>14. n + 1 >= 1 /\ tomb'.gen >= disk'.gen /\ disk'.doc = log'[n + 1].doc
    BY <1>2, <1>4, <2>1, <2>2, <2>5
  <2>15. Evicted' = n + 1 - M
    <3>1. Evicted' = Len(log') - Len(disk'.recent)
      BY DEF Evicted
    <3>2. Len(log') = n + 1
      BY <2>5
    <3>3. Len(disk'.recent) = M
      BY <2>6
    <3> QED BY <1>2, <2>6, <3>1, <3>2, <3>3
  <2>16. OncePerOperation'
    BY <2>5, <2>11 DEF OncePerOperation
  <2>17. \A op \in tomb'.ids : Happened(op)'
    BY <2>5, <2>13 DEF Happened
  <2> QED BY <2>2, <2>5, <2>6, <2>7, <2>8, <2>9, <2>12, <2>14, <2>15, <2>16, <2>17 DEF LogInv
<1> QED BY <1>5, <1>6, <1>7 DEF NativeStep
----------------------------------------------------------------------------
(***************************************************************************)
(* The queue and the pending candidates                                    *)
(***************************************************************************)
\* A step outside the queue saves what memory holds after it, for the user or
\* for an owner that was not saving, or saves nothing.
Appends ==
  \E owner \in Owner \cup {"user"}, m \in Memory, must \in Reference :
     /\ mem' = m /\ queue' = Append(queue, Job(owner, m, must))
     /\ owner # "user" => tx[owner].st # "saving" /\ tx'[owner].st = "saving"
     /\ \A o \in Owner \ {owner} : tx'[o] = tx[o]

\* All that a step of the owners can do.
OwningEffect ==
  /\ UNCHANGED <<disk, tomb, log, faults, answer, kept>>
  /\ clock' \in Nat /\ clock' >= clock
  /\ \/ queue' = <<>> /\ pending' = {}
     \/ UNCHANGED <<queue, pending, tx>>
     \/ UNCHANGED pending /\ Appends

\* A change has such an effect,
LEMMA BeginEffect ==
  ASSUME TypeOK, NEW owner \in Owner, NEW kind \in Kind, Begin(owner, kind)
  PROVE  OwningEffect
<1>1. clock \in Nat /\ clock' = clock + 2 /\ tx[owner].st = "none" /\ UNCHANGED <<native, faults, answer, pending, kept>>
  BY DEF Begin, TypeOK
<1>2. PICK c \in Chat :
        LET m == Changed(kind, c, mem, clock + 1)
            s == Synchronized(m, clock + 2)
        IN /\ tx' = [tx EXCEPT ![owner] = [st |-> "saving", kind |-> kind, chat |-> c,
                                           before |-> mem, next |-> m, cap |-> auth]]
           /\ mem' = s
           /\ queue' = Append(queue, Job(owner, s, NoRef))
  BY DEF Begin
<1> DEFINE s == Synchronized(Changed(kind, c, mem, clock + 1), clock + 2)
<1>3. s \in Memory
  BY <1>1, ChangedType, SynchronizedType DEF TypeOK
<1>4. mem' = s /\ queue' = Append(queue, Job(owner, s, NoRef))
  BY <1>2
<1>5. tx'[owner].st = "saving" /\ \A o \in Owner \ {owner} : tx'[o] = tx[o]
  BY <1>2 DEF TypeOK
<1> HIDE DEF s
<1>6. Appends
  BY <1>1, <1>3, <1>4, <1>5, BlankType DEF Appends
<1> QED BY <1>1, <1>6 DEF OwningEffect, native

\* so has a save of what memory holds,
LEMMA PersistEffect ==
  ASSUME TypeOK, TypeOK', NEW owner \in Owner \cup {"user"}, NEW n \in Memory, PersistCurrent(owner, n),
         owner # "user" => tx[owner].st # "saving" /\ tx'[owner].st = "saving",
         \A o \in Owner \ {owner} : tx'[o] = tx[o],
         UNCHANGED <<disk, tomb, log, faults, answer, pending, kept>>
  PROVE  OwningEffect
<1> DEFINE s == Synchronized(n, clock + 2)
<1>1. clock \in Nat /\ clock' = clock + 2 /\ mem' = s /\ queue' = Append(queue, Job(owner, s, NoRef))
  BY DEF PersistCurrent, TypeOK
<1>2. s \in Memory
  BY <1>1, SynchronizedType DEF TypeOK
<1> HIDE DEF s
<1>3. Appends
  BY <1>1, <1>2, BlankType DEF Appends
<1> QED BY <1>1, <1>3 DEF OwningEffect

\* and so has every step of the owners.
LEMMA OwningEffects == ASSUME TypeOK, TypeOK', Owning PROVE OwningEffect
<1> USE DEF native, saving
<1>b. clock \in Nat /\ mem' \in Memory /\ mem \in Memory
  BY DEF TypeOK
<1>a. clock \in Nat /\ clock + 1 \in Nat /\ mem' \in Memory /\ mem \in Memory
  BY <1>b
<1>1. CASE TurnBegins
  BY <1>1, BeginEffect DEF TurnBegins, Owner, Kind
<1>2. CASE BindBegins
  BY <1>2, BeginEffect DEF BindBegins, Owner, Kind
<1>3. CASE DrainBegins
  <2> DEFINE c == CHOOSE c \in Chat : TRUE
             m == Changed("ack", c, mem, clock + 1)
  <2>1. /\ mem' = m /\ queue' = Append(queue, Job("drain", m, auth))
        /\ clock' = clock + 1 /\ UNCHANGED <<disk, tomb, log, faults, answer, pending, kept>>
        /\ tx["drain"].st = "none"
    BY <1>3 DEF DrainBegins
  <2>2. tx'["drain"].st = "saving" /\ \A o \in Owner \ {"drain"} : tx'[o] = tx[o]
    BY <1>3 DEF DrainBegins, TypeOK, Owner
  <2> HIDE DEF m
  <2>3. m \in Memory /\ auth \in Reference /\ "drain" \in Owner
    BY <1>a, <2>1 DEF TypeOK, Owner
  <2>4. Appends
    BY <2>1, <2>2, <2>3 DEF Appends
  <2> QED BY <1>a, <2>1, <2>4 DEF OwningEffect
<1>4. ASSUME NEW owner \in {"turn", "bind"}, Retry(owner) PROVE OwningEffect
  <2>1. /\ owner \in Owner /\ tx'[owner].st = "saving" /\ tx[owner].st = "latched"
        /\ \A o \in Owner \ {owner} : tx'[o] = tx[o]
    BY <1>4 DEF Retry, TypeOK, Owner, Transaction
  <2>2. PersistCurrent(owner, mem) /\ UNCHANGED <<disk, tomb, log, faults, answer, pending, kept>>
    BY <1>4 DEF Retry
  <2> QED BY <1>a, <2>1, <2>2, PersistEffect
<1>5. CASE Rename
  <2>1. PICK c \in Chat : PersistCurrent("user", Renamed(c))
    BY <1>5 DEF Rename, Renamed
  <2>2. Renamed(c) \in Memory
    BY <1>a, FieldTypes DEF Renamed
  <2>3. UNCHANGED <<disk, tomb, log, faults, answer, pending, kept, tx>>
    BY <1>5 DEF Rename
  <2> QED BY <2>1, <2>2, <2>3, PersistEffect DEF Owner
<1>6. CASE Prefer
  BY <1>a, <1>6 DEF Prefer, OwningEffect
<1>7. CASE SettingsSave
  <2> DEFINE n == [mem EXCEPT !.prefs = 1 - choice, !.root = clock + 1]
  <2>1. /\ mem' = n /\ queue' = Append(queue, Job("user", n, NoRef)) /\ clock' = clock + 1
        /\ UNCHANGED <<disk, tomb, log, faults, answer, pending, kept, tx>>
    BY <1>7 DEF SettingsSave
  <2> HIDE DEF n
  <2>2. Appends
    BY <1>a, <2>1, BlankType DEF Appends
  <2> QED BY <1>a, <2>1, <2>2 DEF OwningEffect
<1>8. CASE Restore
  BY <1>a, <1>8 DEF Restore, OwningEffect
<1>9. CASE Relaunch
  BY <1>a, <1>9 DEF Relaunch, OwningEffect
<1> QED BY <1>1, <1>2, <1>3, <1>4, <1>5, <1>6, <1>7, <1>8, <1>9 DEF Owning

\* The queue and the map of pending candidates: only the head is being performed,
\* under an operation that the map holds, and each operation of the map has one
\* candidate, the one it was written with if it was written.
QueueInv ==
  /\ \A k \in DOMAIN queue : k > 1 => queue[k].step = "start"
  /\ queue # <<>> /\ First.step # "start" => [cand |-> First.cand, op |-> First.op] \in pending
  /\ queue # <<>> /\ First.step = "cas" => First.ref = Durable
  /\ \A p \in pending : p.op <= clock
  /\ \A p, q \in pending : p.op = q.op \/ p.cand = q.cand => p = q
  /\ \A p \in pending : \A i \in DOMAIN log : log[i].op = p.op => log[i].doc = p.cand

\* A committed operation is one in the history; nothing of a refused one is, or
\* can still be written under its id.
AnswerInv ==
  /\ answer.status = "committed" =>
       /\ answer.ref.doc = answer.cand
       /\ \E i \in DOMAIN log : Ref(log[i].gen, log[i].doc) = answer.ref
  /\ answer.status = "not_committed" =>
       /\ answer.op <= clock
       /\ \A p \in pending : p.op # answer.op
       /\ answer.step # "load" => ~Happened(answer.op)

\* The operation at the head, once it has one.
LEMMA HeadPending ==
  ASSUME TypeOK, QueueInv, queue # <<>>, First.step # "start"
  PROVE  /\ First \in Save /\ First.op \in Nat /\ First.cand \in Doc /\ First.op <= clock
         /\ [cand |-> First.cand, op |-> First.op] \in EntryOf(First.cand)
         /\ \A p \in pending : p \notin EntryOf(First.cand) => p.op # First.op
<1> DEFINE e == [cand |-> First.cand, op |-> First.op]
<1>1. First \in Save
  BY HeadType
<1>2. e \in pending /\ e.cand = First.cand /\ e.op = First.op
  BY DEF QueueInv
<1>3. \A p \in pending : p.op = First.op => p = e
  BY <1>2 DEF QueueInv
<1> QED BY <1>1, <1>2, <1>3 DEF QueueInv, EntryOf, Save

\* What the history gains, if anything, is the operation at the head.
LEMMA LogGrows ==
  ASSUME TypeOK, LogInv, NativeStep
  PROVE  /\ \A i \in DOMAIN log : i \in DOMAIN log' /\ log'[i] = log[i]
         /\ \A i \in DOMAIN log' : i \in DOMAIN log \/ (Admitted /\ Stored /\ log'[i] = Commit(First.op, First.cand))
<1>1. log \in Seq(Written)
  BY DEF TypeOK
<1>2. CASE UNCHANGED log
  BY <1>2
<1>3. CASE Admitted /\ Stored
  <2>1. log' = Append(log, Commit(First.op, First.cand))
    BY <1>3 DEF Stored
  <2>2. Commit(First.op, First.cand) \in Written
    BY <1>3, HeadType, EnvelopeType, Types DEF Admitted, Save
  <2> HIDE DEF Commit
  <2> QED BY <1>1, <1>3, <2>1, <2>2, Appended
<1> QED BY <1>2, <1>3 DEF NativeStep, Buried, native

\* The part of QueueInv about pending candidates and the history, when the
\* candidates only become fewer.
LEMMA PendingShrinks ==
  ASSUME TypeOK, LogInv, QueueInv, NativeStep, pending' \subseteq pending, clock' \in Nat, clock' >= clock
  PROVE  /\ \A p \in pending' : p.op <= clock'
         /\ \A p, q \in pending' : p.op = q.op \/ p.cand = q.cand => p = q
         /\ \A p \in pending' : \A i \in DOMAIN log' : log'[i].op = p.op => log'[i].doc = p.cand
<1>1. clock \in Nat /\ \A p \in pending : p.op \in Nat
  BY DEF TypeOK
<1>2. \A p \in pending' : p.op <= clock'
  BY <1>1 DEF QueueInv
<1>3. \A p, q \in pending' : p.op = q.op \/ p.cand = q.cand => p = q
  BY DEF QueueInv
<1>4. ASSUME NEW p \in pending', NEW i \in DOMAIN log', log'[i].op = p.op PROVE log'[i].doc = p.cand
  <2>1. CASE i \in DOMAIN log
    BY <1>4, <2>1, LogGrows DEF QueueInv
  <2>2. CASE Admitted /\ Stored /\ log'[i] = Commit(First.op, First.cand)
    <3>1. log'[i].op = First.op /\ log'[i].doc = First.cand
      BY <2>2 DEF Commit
    <3>2. [cand |-> First.cand, op |-> First.op] \in pending
      BY <2>2 DEF Admitted, QueueInv
    <3>3. p = [cand |-> First.cand, op |-> First.op]
      BY <1>4, <3>1, <3>2 DEF QueueInv
    <3> QED BY <3>1, <3>3
  <2> QED BY <1>4, <2>1, <2>2, LogGrows
<1> QED BY <1>2, <1>3, <1>4

\* Every step keeps the queue and the map in order, and no step turns the clock back.
LEMMA QueueStep ==
  ASSUME TypeOK, TypeOK', LogInv, QueueInv, [Next]_vars
  PROVE  QueueInv' /\ clock' >= clock
<1>a. clock \in Nat /\ clock' \in Nat /\ queue \in Seq(Save) /\ log \in Seq(Written)
  BY DEF TypeOK
<1>1. CASE Saving /\ MovesOn
  <2>1. queue # <<>> /\ NativeStep
    BY <1>1, SavingEffects DEF Effects
  <2>2. PICK j \in Save : /\ j.cand = First.cand /\ j.step # "start" /\ Advance(j)
                          /\ Minted(j) \/ Resumed(j)
                          /\ j.step = "cas" => j.ref = Durable /\ UNCHANGED native
    BY <1>1 DEF MovesOn
  <2>3. /\ queue' # <<>> /\ First' = j /\ DOMAIN queue' = DOMAIN queue
        /\ \A k \in DOMAIN queue : k # 1 => queue'[k] = queue[k]
    BY <1>a, <2>1, <2>2, HeadReplaced DEF Advance, First
  <2>4. \A k \in DOMAIN queue' : k > 1 => queue'[k].step = "start"
    BY <1>a, <2>3 DEF QueueInv
  <2>5. j.step = "cas" => j.ref = Durable'
    BY <2>2 DEF native, Durable
  <2>6. CASE Resumed(j)
    <3>1. UNCHANGED <<pending, clock>> /\ [cand |-> j.cand, op |-> j.op] \in pending
      BY <2>1, <2>2, <2>6 DEF Resumed, QueueInv
    <3> QED BY <1>a, <2>1, <2>3, <2>4, <2>5, <3>1, PendingShrinks DEF QueueInv
  <2>7. CASE Minted(j)
    <3> DEFINE e == [cand |-> First.cand, op |-> clock + 1]
    <3>1. /\ EntryOf(First.cand) = {} /\ j.op = clock + 1 /\ clock' = clock + 1
          /\ pending' = pending \cup {e} /\ First.step = "start"
      BY <2>7 DEF Minted
    <3>2. UNCHANGED log
      BY <2>1, <3>1 DEF NativeStep, native, Admitted
    <3>3. e \in pending' /\ e.cand = First.cand /\ e.op = clock + 1
      BY <3>1
    <3>4. \A p \in pending : p.op <= clock /\ p.op \in Nat /\ p.cand # First.cand
      BY <3>1 DEF QueueInv, TypeOK, EntryOf
    <3>5. \A p \in pending' : p \in pending \/ p = e
      BY <3>1
    <3> HIDE DEF e
    <3>6. \A p \in pending' : p.op <= clock'
      BY <1>a, <3>1, <3>3, <3>4, <3>5
    <3>7. \A p, q \in pending' : p.op = q.op \/ p.cand = q.cand => p = q
      <4>1. \A p \in pending : p.op # e.op /\ p.cand # e.cand
        BY <1>a, <3>3, <3>4
      <4> QED BY <3>5, <4>1 DEF QueueInv
    <3>8. \A p \in pending' : \A i \in DOMAIN log' : log'[i].op = p.op => log'[i].doc = p.cand
      <4>1. \A i \in DOMAIN log : log[i].op <= clock /\ log[i].op \in Nat
        BY LogFacts DEF LogInv, Written
      <4>2. \A i \in DOMAIN log : log[i].op # e.op
        BY <1>a, <3>3, <4>1
      <4> QED BY <3>2, <3>5, <4>2 DEF QueueInv
    <3>9. [cand |-> j.cand, op |-> j.op] \in pending'
      BY <2>2, <3>1, <3>3 DEF e
    <3> QED BY <1>a, <2>3, <2>4, <2>5, <3>1, <3>6, <3>7, <3>8, <3>9 DEF QueueInv
  <2> QED BY <2>2, <2>6, <2>7
<1>2. CASE Saving /\ Answers
  <2>1. queue # <<>> /\ NativeStep /\ faults' \in Nat
    BY <1>2, SavingEffects DEF Effects, TypeOK
  <2>2. clock' \in {clock, clock + 1} /\ pending' \subseteq pending /\ queue' = Tail(queue)
    BY <1>2, <2>1, AnswerType DEF Answers
  <2>3. /\ \A k \in DOMAIN queue' : queue'[k].step = "start"
    <3> SUFFICES ASSUME NEW k \in DOMAIN queue' PROVE queue'[k].step = "start"
      OBVIOUS
    <3>1. k \in Nat /\ k >= 1 /\ k + 1 \in DOMAIN queue /\ queue'[k] = queue[k + 1]
      BY <1>a, <2>1, <2>2, TailProperties
    <3> QED BY <3>1 DEF QueueInv
  <2>4. queue' # <<>> => First'.step = "start"
    <3>1. queue' \in Seq(Save)
      BY <1>a, <2>1, <2>2, TailProperties
    <3>2. queue' # <<>> => 1 \in DOMAIN queue'
      BY <3>1
    <3> QED BY <2>3, <3>2 DEF First
  <2>5. clock' >= clock
    BY <1>a, <2>2
  <2> QED BY <1>a, <2>1, <2>2, <2>3, <2>4, <2>5, PendingShrinks DEF QueueInv
<1>3. CASE Owning
  <2>1. OwningEffect
    BY <1>3, OwningEffects
  <2>2. clock' >= clock /\ NativeStep /\ UNCHANGED <<disk, log>> /\ pending' \subseteq pending
    BY <2>1 DEF OwningEffect, NativeStep, native
  <2>3. CASE queue' = <<>>
    BY <1>a, <2>2, <2>3, PendingShrinks DEF QueueInv
  <2>4. CASE UNCHANGED <<queue, pending>>
    BY <1>a, <2>2, <2>4, PendingShrinks DEF QueueInv, First, Durable
  <2>5. CASE UNCHANGED pending /\ Appends
    <3>1. PICK job \in Save : job.step = "start" /\ queue' = Append(queue, job)
      BY <2>5, JobType DEF Appends, Job
    <3>2. \A k \in DOMAIN queue' : k > 1 => queue'[k].step = "start"
      BY <1>a, <3>1, Appended DEF QueueInv
    <3>3. queue = <<>> => First'.step = "start"
      BY <1>a, <3>1 DEF First
    <3>4. queue # <<>> => First' = First
      BY <1>a, <3>1 DEF First
    <3>5. /\ First'.step # "start" => [cand |-> First'.cand, op |-> First'.op] \in pending'
          /\ First'.step = "cas" => First'.ref = Durable'
      <4>1. queue # <<>> /\ First.step # "start" => [cand |-> First.cand, op |-> First.op] \in pending
        BY DEF QueueInv
      <4>2. queue # <<>> /\ First.step = "cas" => First.ref = Durable
        BY DEF QueueInv
      <4>3. Durable' = Durable
        BY <2>2 DEF Durable
      <4> QED BY <2>5, <3>3, <3>4, <4>1, <4>2, <4>3
    <3> QED BY <1>a, <2>2, <3>2, <3>5, PendingShrinks DEF QueueInv
  <2> QED BY <2>1, <2>3, <2>4, <2>5 DEF OwningEffect
<1>4. CASE UNCHANGED vars
  BY <1>a, <1>4 DEF vars, QueueInv, First, Durable
<1>5. Saving => MovesOn \/ Answers
  BY SavingEffects DEF Effects
<1> QED BY <1>1, <1>2, <1>3, <1>4, <1>5, NextSplits
----------------------------------------------------------------------------
(***************************************************************************)
(* What a save is told                                                     *)
(***************************************************************************)
\* The history after the step knows nothing of the operation.
Unheard(op) == \A i \in DOMAIN log' : log'[i].op # op

\* An answer that is true, and that leaves a candidate behind only after a
\* failed call.
True(status, ref) ==
  /\ status = "committed" =>
       /\ ref.doc = First.cand
       /\ \E i \in DOMAIN log' : Ref(log'[i].gen, log'[i].doc) = ref
  /\ status = "not_committed" => /\ First.step # "start"
                                 /\ First.step # "load" => Unheard(First.op)
  /\ status # "unknown" => First.step # "start"
  /\ status = "unknown" => First.step \notin {"load", "cas"} \/ faults' = faults + 1

\* A candidate nothing was written for is still to be written, or a call failed.
Costs == First.step \in {"load", "cas"} /\ ~Happened(First.op) =>
           \/ faults' = faults + 1
           \/ UNCHANGED log /\ Advance([First EXCEPT !.step = "cas", !.ref = Durable])

\* The head is not answered.
Stays == Quiet /\ Costs /\ DOMAIN queue' = DOMAIN queue
\* A step of saving answers nothing or the truth.
Truthful == Stays \/ (\E status \in Status, ref \in Reference : Answer(status, ref) /\ True(status, ref))

\* What a query brings back, as long as the files tell the history.
LEMMA QueryTells ==
  ASSUME TypeOK, LogInv, QueueInv, queue # <<>>, First.step # "start", UNCHANGED native,
         NEW r \in QueryResult(First.op)
  PROVE  /\ r.status = "committed" =>
              /\ r.ref.doc = First.cand
              /\ \E i \in DOMAIN log' : Ref(log'[i].gen, log'[i].doc) = r.ref
         /\ r.status = "not_started" => Unheard(First.op)
<1>1. log' = log
  BY DEF native
<1>2. ASSUME r.status = "committed"
      PROVE  /\ r.ref.doc = First.cand
             /\ \E i \in DOMAIN log' : Ref(log'[i].gen, log'[i].doc) = r.ref
  <2>1. HasCommit(First.op) /\ r.ref = CommitOf(First.op)
    BY <1>2, QueryAnswerType
  <2>2. PICK i \in DOMAIN log : log[i].op = First.op /\ r.ref = Ref(log[i].gen, log[i].doc)
    BY <2>1, FilesTell
  <2>3. log[i].doc = First.cand
    BY <2>2 DEF QueueInv
  <2> QED BY <1>1, <2>2, <2>3 DEF Ref
<1>3. ASSUME r.status = "not_started" PROVE Unheard(First.op)
  <2>1. QueryAnswer(First.op).status = "not_started"
    BY <1>3, QueryAnswerType
  <2>2. ~Happened(First.op)
    BY <2>1, FilesTell
  <2> QED BY <1>1, <2>2 DEF Happened, Unheard
<1> QED BY <1>2, <1>3

\* Each step of saving is truthful: the look-up of the candidate,
LEMMA StartTruthful == ASSUME TypeOK, Start PROVE Truthful
<1>1. First.step = "start"
  BY DEF Start
<1>2. True("unknown", NoRef)
  BY <1>1 DEF True
<1>3. Costs
  BY <1>1 DEF Costs
<1> QED BY <1>2, <1>3, BlankType DEF Start, Truthful, Stays, Advance, Status

\* the question about its earlier operation,
LEMMA AskTruthful == ASSUME TypeOK, LogInv, QueueInv, Ask PROVE Truthful
<1>1. queue # <<>> /\ First.step = "ask" /\ UNCHANGED native
  BY DEF Ask
<1>2. PICK r \in QueryResult(First.op) :
        IF r.status = "committed" THEN Answer("committed", r.ref)
        ELSE Quiet /\ Advance([First EXCEPT !.step = "load"])
  BY DEF Ask
<1>3. CASE r.status = "committed"
  <2>1. True("committed", r.ref) /\ r.ref \in Reference
    BY <1>1, <1>3, QueryTells, QueryAnswerType DEF True
  <2> QED BY <1>2, <1>3, <2>1 DEF Truthful, Status
<1>4. CASE r.status # "committed"
  BY <1>1, <1>2, <1>4 DEF Truthful, Stays, Advance, Costs
<1> QED BY <1>3, <1>4

\* the read of the authority,
LEMMA LoadTruthful == ASSUME TypeOK, Load PROVE Truthful
<1>1. First.step = "load" /\ UNCHANGED log
  BY DEF Load, native
<1>2. CASE Fault /\ Answer("unknown", NoRef)
  <2>1. True("unknown", NoRef)
    BY <1>2 DEF True, Fault
  <2> QED BY <1>2, <2>1, BlankType DEF Truthful, Status
<1>3. CASE Answer("not_committed", NoRef)
  <2>1. True("not_committed", NoRef)
    BY <1>1 DEF True
  <2> QED BY <1>3, <2>1, BlankType DEF Truthful, Status
<1>4. CASE Advance([First EXCEPT !.step = "cas", !.ref = Durable]) /\ Quiet
  BY <1>1, <1>4 DEF Truthful, Stays, Advance, Costs
<1> QED BY <1>2, <1>3, <1>4 DEF Load

\* the compare-and-swap,
LEMMA CasTruthful == ASSUME TypeOK, LogInv, QueueInv, CasPersist PROVE Truthful
<1>1. queue # <<>> /\ First.step = "cas" /\ First.ref = Durable
  BY DEF CasPersist, QueueInv
<1>2. PICK r :
        /\ Cas(First, r)
        /\ CASE r.status = "committed" /\ r.ref = Ref(First.ref.gen + 1, First.cand) ->
                  Answer("committed", r.ref)
             [] r.status \in {"conflict", "not_committed"} -> Answer("not_committed", NoRef)
             [] OTHER -> /\ Advance([First EXCEPT !.step = "query"])
                         /\ Quiet /\ UNCHANGED <<pending, clock>>
  BY DEF CasPersist
<1>3. /\ r.ref \in Reference
      /\ r.status \in {"committed", "conflict", "not_committed", "unknown"}
      /\ r.status = "committed" => \/ HasCommit(First.op) /\ r.ref = CommitOf(First.op) /\ UNCHANGED native
                                   \/ Admitted /\ Stored /\ r.ref = Ref(disk.gen + 1, First.cand)
      /\ r.status # "conflict"
      /\ r.status = "not_committed" => ~HasCommit(First.op) /\ First.op \notin tomb.ids /\ UNCHANGED log
      /\ r.status = "unknown" => faults' = faults + 1 \/ First.op \in tomb.ids \/ tomb.gen < disk.gen
  BY <1>1, <1>2, CasEffect
<1>4. First.ref.gen = disk.gen /\ disk.gen \in Nat /\ tomb.gen \in Nat /\ tomb.gen >= disk.gen
  BY <1>1, LogFacts DEF Durable, Ref, LogInv
<1>5. HasCommit(First.op) \/ First.op \in tomb.ids => Happened(First.op)
  BY FilesTell DEF LogInv, Happened
<1>6. CASE r.status = "committed" /\ r.ref = Ref(First.ref.gen + 1, First.cand)
  <2>1. Admitted /\ Stored /\ r.ref = Ref(disk.gen + 1, First.cand)
    <3>1. ASSUME HasCommit(First.op), r.ref = CommitOf(First.op) PROVE FALSE
      <4>1. PICK i \in DOMAIN log : r.ref = Ref(log[i].gen, log[i].doc)
        BY <3>1, FilesTell
      <4>2. log[i].gen = i /\ i \in 1 .. Len(log) /\ disk.gen = Len(log)
        BY LogFacts DEF LogInv
      <4> QED BY <1>4, <1>6, <4>1, <4>2 DEF Ref
    <3> QED BY <1>3, <1>6, <3>1
  <2>2. log' = Append(log, Commit(First.op, First.cand)) /\ log \in Seq(Written) /\ Len(log) \in Nat
    BY <2>1 DEF Stored, TypeOK
  <2>3. Commit(First.op, First.cand) \in Written
    BY <1>1, HeadType, EnvelopeType, Types DEF Save
  <2>4. /\ Len(log) + 1 \in DOMAIN log' /\ log'[Len(log) + 1] = Commit(First.op, First.cand)
    BY <2>2, <2>3, Appended
  <2>5. True("committed", r.ref)
    BY <1>1, <2>1, <2>4 DEF True, Commit, Ref
  <2> QED BY <1>2, <1>3, <1>6, <2>5 DEF Truthful, Status
<1>7. CASE r.status = "not_committed"
  <2>1. Unheard(First.op)
    BY <1>3, <1>7, FilesTell DEF Happened, Unheard
  <2>2. True("not_committed", NoRef)
    BY <1>1, <2>1 DEF True
  <2>3. Answer("not_committed", NoRef)
    BY <1>2, <1>7
  <2> QED BY <2>2, <2>3, BlankType DEF Truthful, Status
<1>8. CASE /\ ~(r.status = "committed" /\ r.ref = Ref(First.ref.gen + 1, First.cand))
           /\ r.status # "not_committed"
  <2>1. Quiet /\ Advance([First EXCEPT !.step = "query"])
    BY <1>2, <1>3, <1>8
  <2>2. ~Happened(First.op) => r.status = "unknown" /\ faults' = faults + 1
    BY <1>3, <1>4, <1>5, <1>8
  <2> QED BY <2>1, <2>2 DEF Truthful, Stays, Advance, Costs
<1> QED BY <1>6, <1>7, <1>8

\* the query after an unknown outcome,
LEMMA QueryTruthful == ASSUME TypeOK, LogInv, QueueInv, Query PROVE Truthful
<1>1. queue # <<>> /\ First.step = "query" /\ UNCHANGED native
  BY DEF Query
<1>2. PICK r \in QueryResult(First.op) :
        /\ Queried(First.op, r)
        /\ CASE r.status = "committed"   -> Answer("committed", r.ref)
             [] r.status = "not_started" -> Answer("not_committed", NoRef)
             [] r.status = "unknown"     -> /\ Advance([First EXCEPT !.step = "reconcile"])
                                            /\ Quiet /\ UNCHANGED <<pending, clock>>
  BY DEF Query
<1>3. r.status \in {"committed", "not_started", "unknown"} /\ r.ref \in Reference
  BY QueryAnswerType
<1>4. CASE r.status = "committed"
  <2>1. True("committed", r.ref)
    BY <1>1, <1>4, QueryTells DEF True
  <2> QED BY <1>2, <1>3, <1>4, <2>1 DEF Truthful, Status
<1>5. CASE r.status = "not_started"
  <2>1. True("not_committed", NoRef)
    BY <1>1, <1>5, QueryTells DEF True
  <2> QED BY <1>2, <1>5, <2>1, BlankType DEF Truthful, Status
<1>6. CASE r.status = "unknown"
  BY <1>1, <1>2, <1>6 DEF Truthful, Stays, Advance, Costs
<1> QED BY <1>3, <1>4, <1>5, <1>6

\* the comparison with the durable snapshot,
LEMMA ReconcileTruthful == ASSUME TypeOK, LogInv, Reconcile PROVE Truthful
<1>1. First.step = "reconcile" /\ UNCHANGED <<disk, log>>
  BY DEF Reconcile, native
<1>2. True("unknown", NoRef)
  BY <1>1 DEF True
<1>3. ASSUME disk.doc = First.cand PROVE True("committed", Durable)
  <2>1. Len(log) \in DOMAIN log /\ log[Len(log)].gen = disk.gen /\ log[Len(log)].doc = disk.doc
    BY LogFacts DEF LogInv
  <2> QED BY <1>1, <1>3, <2>1 DEF True, Durable, Ref
<1> QED BY <1>2, <1>3, BlankType, DurableType DEF Reconcile, Truthful, Stays, Advance, Status

\* and so every one of them.
LEMMA SavingTruthful == ASSUME TypeOK, LogInv, QueueInv, Saving PROVE Truthful
  BY StartTruthful, AskTruthful, LoadTruthful, CasTruthful, QueryTruthful, ReconcileTruthful DEF Saving

\* Every step that answers nothing keeps the last answer true.
LEMMA AnswerStands ==
  ASSUME TypeOK, LogInv, QueueInv, AnswerInv, NativeStep, answer' = answer, clock' \in Nat, clock' >= clock,
         \A p \in pending' : p \in pending \/ p.op = clock + 1
  PROVE  AnswerInv'
<1>1. clock \in Nat /\ answer.op \in Nat /\ \A p \in pending : p.op \in Nat
  BY DEF TypeOK
<1>2. ASSUME answer.status = "committed"
      PROVE  \E i \in DOMAIN log' : Ref(log'[i].gen, log'[i].doc) = answer.ref
  BY <1>2, LogGrows DEF AnswerInv
<1>3. ASSUME answer.status = "not_committed"
      PROVE  /\ answer.op <= clock'
             /\ \A p \in pending' : p.op # answer.op
             /\ answer.step # "load" => \A i \in DOMAIN log' : log'[i].op # answer.op
  <2>1. answer.op <= clock /\ answer.op < clock + 1 /\ \A p \in pending : p.op # answer.op
    BY <1>1, <1>3 DEF AnswerInv
  <2>2. ASSUME Admitted, Stored PROVE First.op # answer.op
    <3>1. [cand |-> First.cand, op |-> First.op] \in pending
      BY <2>2 DEF Admitted, QueueInv
    <3> QED BY <2>1, <3>1
  <2>3. answer.step # "load" => \A i \in DOMAIN log : log[i].op # answer.op
    BY <1>3 DEF AnswerInv, Happened
  <2>4. answer.step # "load" => \A i \in DOMAIN log' : log'[i].op # answer.op
    BY <2>2, <2>3, LogGrows DEF Commit
  <2> QED BY <1>1, <2>1, <2>4
<1> QED BY <1>2, <1>3 DEF AnswerInv, Happened

\* Every step leaves the last answer true.
LEMMA AnswerStep ==
  ASSUME TypeOK, TypeOK', LogInv, QueueInv, AnswerInv, [Next]_vars
  PROVE  AnswerInv'
<1>a. clock' \in Nat /\ clock \in Nat /\ clock' >= clock
  BY QueueStep DEF TypeOK
<1>1. CASE Saving
  <2>1. Effects /\ Truthful
    BY <1>1, SavingEffects, SavingTruthful
  <2>2. \A p \in pending' : p \in pending \/ p.op = clock + 1
    <3>1. CASE MovesOn
      BY <3>1 DEF MovesOn, Minted, Resumed
    <3>2. CASE Answers
      BY <3>2 DEF Answers, Answer, StillPending
    <3> QED BY <2>1, <3>1, <3>2 DEF Effects
  <2>3. CASE Stays
    BY <1>a, <2>1, <2>2, <2>3, AnswerStands DEF Effects, Stays, Quiet
  <2>4. CASE \E status \in Status, ref \in Reference : Answer(status, ref) /\ True(status, ref)
    <3>1. PICK status \in Status, ref \in Reference : Answer(status, ref) /\ True(status, ref)
      BY <2>4
    <3>2. /\ answer' = [status |-> status, step |-> First.step, op |-> First.op, cand |-> First.cand, ref |-> ref]
          /\ pending' = StillPending(status)
      BY <3>1 DEF Answer
    <3>3. ASSUME status = "not_committed" PROVE First.op <= clock' /\ \A p \in pending' : p.op # First.op
      <4>1. queue # <<>> /\ First.step # "start"
        BY <2>1, <3>1, <3>3 DEF True, Effects
      <4>2. pending' = pending \ EntryOf(First.cand)
        BY <3>2, <3>3 DEF StillPending
      <4> QED BY <1>a, <4>1, <4>2, HeadPending
    <3> QED BY <3>1, <3>2, <3>3 DEF AnswerInv, True, Happened, Unheard
  <2> QED BY <2>1, <2>3, <2>4 DEF Truthful
<1>2. CASE Owning
  <2>1. NativeStep /\ answer' = answer /\ pending' \subseteq pending
    BY <1>2, OwningEffects DEF OwningEffect, NativeStep, native
  <2> QED BY <1>a, <2>1, AnswerStands
<1>3. CASE UNCHANGED vars
  BY <1>3 DEF vars, AnswerInv, Happened
<1> QED BY <1>1, <1>2, <1>3, NextSplits

\* A candidate is pending because a call failed, or because the head is still
\* on its way to write it.
PendingInv ==
  /\ IsFiniteSet(pending)
  /\ Cardinality(pending) <= faults + IF /\ queue # <<>>
                                         /\ First.step \in {"load", "cas"}
                                         /\ ~Happened(First.op)
                                      THEN 1 ELSE 0

\* Every step keeps the map within the failures.
LEMMA PendingStep ==
  ASSUME TypeOK, TypeOK', LogInv, QueueInv, QueueInv', PendingInv, [Next]_vars
  PROVE  PendingInv'
<1> DEFINE b == IF queue # <<>> /\ First.step \in {"load", "cas"} /\ ~Happened(First.op) THEN 1 ELSE 0
<1>a. /\ faults \in Nat /\ faults' \in Nat /\ clock \in Nat /\ queue \in Seq(Save) /\ queue' \in Seq(Save)
      /\ IsFiniteSet(pending) /\ Cardinality(pending) \in Nat
  BY FS_CardinalityType DEF TypeOK, PendingInv
<1>b. Cardinality(pending) <= faults + b /\ b \in {0, 1}
  BY DEF PendingInv
<1>c. ASSUME pending' \subseteq pending, IsFiniteSet(pending'), Cardinality(pending') <= faults'
      PROVE  PendingInv'
  <2>1. Cardinality(pending') \in Nat
    BY <1>c, FS_CardinalityType
  <2> QED BY <1>a, <1>c, <2>1 DEF PendingInv
<1>1. CASE Saving
  <2>1. Effects /\ Truthful /\ queue # <<>> /\ faults' \in {faults, faults + 1} /\ First \in Save
    BY <1>1, SavingEffects, SavingTruthful, HeadType DEF Effects
  <2>2. CASE \E status \in Status, ref \in Reference : Answer(status, ref) /\ True(status, ref)
    <3>1. PICK status \in Status, ref \in Reference : Answer(status, ref) /\ True(status, ref)
      BY <2>2
    <3>2. pending' = StillPending(status) /\ pending' \subseteq pending
      BY <3>1 DEF Answer, StillPending
    <3>3. IsFiniteSet(pending')
      BY <1>a, <3>2, FS_Subset
    <3>4. CASE status = "unknown"
      <4>1. pending' = pending
        BY <3>2, <3>4 DEF StillPending
      <4>2. faults' = faults + 1 \/ b = 0
        BY <3>1, <3>4 DEF True
      <4>3. Cardinality(pending') <= faults'
        BY <1>a, <1>b, <2>1, <4>1, <4>2
      <4> QED BY <1>c, <3>2, <3>3, <4>3
    <3>5. CASE status # "unknown"
      <4> DEFINE e == [cand |-> First.cand, op |-> First.op]
      <4>1. First.step # "start"
        BY <3>1, <3>5 DEF True
      <4>2. e \in pending /\ e \in EntryOf(First.cand)
        BY <2>1, <4>1, HeadPending DEF EntryOf
      <4>3. pending' \subseteq pending \ {e}
        BY <3>2, <3>5, <4>2 DEF StillPending
      <4> HIDE DEF e
      <4>4. IsFiniteSet(pending \ {e}) /\ Cardinality(pending \ {e}) = Cardinality(pending) - 1
        BY <1>a, <4>2, FS_RemoveElement
      <4>5. Cardinality(pending') <= Cardinality(pending) - 1
        BY <4>3, <4>4, FS_Subset
      <4>6. Cardinality(pending') \in Nat
        BY <3>3, FS_CardinalityType
      <4>7. Cardinality(pending') <= faults'
        BY <1>a, <1>b, <2>1, <4>5, <4>6
      <4> QED BY <1>c, <3>2, <3>3, <4>7
    <3> QED BY <3>4, <3>5
  <2>3. CASE Stays /\ MovesOn
    <3>1. PICK j \in Save : /\ j.cand = First.cand /\ j.step # "start" /\ Advance(j)
                            /\ Minted(j) \/ Resumed(j)
      BY <2>3 DEF MovesOn
    <3>2. queue' # <<>> /\ First' = j
      BY <1>a, <2>1, <3>1, HeadReplaced DEF Advance, First
    <3>3. CASE Minted(j)
      <4>1. /\ pending' = pending \cup {[cand |-> First.cand, op |-> clock + 1]}
            /\ j.step = "load" /\ j.op = clock + 1 /\ First.step = "start"
        BY <3>3 DEF Minted
      <4>2. IsFiniteSet(pending') /\ Cardinality(pending') <= Cardinality(pending) + 1
            /\ Cardinality(pending') \in Nat
        <5> DEFINE e == [cand |-> First.cand, op |-> clock + 1]
        <5>1. pending' = pending \cup {e}
          BY <4>1
        <5> HIDE DEF e
        <5>2. IsFiniteSet(pending') /\ Cardinality(pending') \in {Cardinality(pending), Cardinality(pending) + 1}
          BY <1>a, <5>1, FS_AddElement
        <5> QED BY <1>a, <5>2
      <4>3. UNCHANGED log
        BY <2>1, <4>1 DEF Effects, NativeStep, native, Admitted
      <4>4. \A i \in DOMAIN log : log[i].op \in Nat /\ log[i].op <= clock
        BY LogFacts DEF LogInv, Written
      <4>5. \A i \in DOMAIN log : log[i].op # clock + 1
        BY <1>a, <4>4
      <4>6. ~Happened(First.op)'
        BY <3>2, <4>1, <4>3, <4>5 DEF Happened
      <4>7. Cardinality(pending') <= faults' + 1
        BY <1>a, <1>b, <2>1, <4>1, <4>2
      <4> QED BY <3>2, <4>1, <4>2, <4>6, <4>7 DEF PendingInv
    <3>4. CASE Resumed(j)
      <4>1. pending' = pending
        BY <3>4 DEF Resumed
      <4>2. CASE faults' = faults + 1 \/ b = 0
        <5>1. Cardinality(pending') <= faults'
          BY <1>a, <1>b, <2>1, <4>1, <4>2
        <5> QED BY <1>a, <1>c, <4>1, <5>1
      <4>3. CASE b = 1 /\ faults' # faults + 1
        <5>1. /\ UNCHANGED log /\ Advance([First EXCEPT !.step = "cas", !.ref = Durable])
              /\ ~Happened(First.op)
          BY <2>3, <4>3 DEF Stays, Costs
        <5> DEFINE k == [First EXCEPT !.step = "cas", !.ref = Durable]
        <5>2. k \in Save
          BY <2>1, SaveFields, DurableType DEF Step
        <5>3. k.step = "cas" /\ k.op = First.op
          BY <2>1 DEF Save
        <5>4. queue' = [queue EXCEPT ![1] = k]
          BY <5>1 DEF Advance
        <5> HIDE DEF k
        <5>5. First' = k
          BY <1>a, <2>1, <5>2, <5>4, HeadReplaced DEF First
        <5>6. First'.step = "cas" /\ ~Happened(First.op)'
          BY <5>1, <5>3, <5>5 DEF Happened
        <5>7. faults' = faults
          BY <2>1, <4>3
        <5> QED BY <1>a, <1>b, <3>2, <4>1, <4>3, <5>6, <5>7 DEF PendingInv
      <4> QED BY <1>b, <4>2, <4>3
    <3> QED BY <3>1, <3>3, <3>4
  <2>4. Stays => MovesOn
    <3> SUFFICES ASSUME Stays, Answers PROVE FALSE
      BY <2>1 DEF Effects
    <3>1. queue' = Tail(queue) /\ DOMAIN queue' = DOMAIN queue
      BY DEF Stays, Answers, Answer
    <3>2. Len(queue') = Len(queue) - 1 /\ Len(queue) \in Nat
      BY <1>a, <2>1, <3>1, TailProperties
    <3>3. Len(queue') = Len(queue)
      BY <1>a, <3>1
    <3> QED BY <3>2, <3>3
  <2> QED BY <2>1, <2>2, <2>3, <2>4 DEF Truthful
<1>2. CASE Owning
  <2>1. OwningEffect
    BY <1>2, OwningEffects
  <2>2. CASE pending' = {}
    <3>1. IsFiniteSet({}) /\ Cardinality({}) = 0
      BY FS_EmptySet
    <3> QED BY <1>a, <1>c, <2>1, <2>2, <3>1
  <2>3. CASE UNCHANGED <<queue, pending, log, faults>>
    BY <2>3 DEF PendingInv, First, Happened
  <2>4. CASE UNCHANGED <<pending, log, faults>> /\ Appends
    <3>1. PICK job \in Save : job.step = "start" /\ queue' = Append(queue, job)
      BY <2>4, JobType DEF Appends, Job
    <3>2. CASE queue = <<>>
      BY <1>a, <1>b, <1>c, <2>4, <3>2
    <3>3. CASE queue # <<>>
      <4>1. First' = First /\ queue' # <<>>
        BY <1>a, <3>1, <3>3 DEF First
      <4> QED BY <2>4, <3>3, <4>1 DEF PendingInv, Happened
    <3> QED BY <3>2, <3>3
  <2> QED BY <2>1, <2>2, <2>3, <2>4 DEF OwningEffect
<1>3. CASE UNCHANGED vars
  BY <1>3 DEF vars, PendingInv, First, Happened
<1> QED BY <1>1, <1>2, <1>3, NextSplits

\* The inductive invariant behind OncePerOperation, AnswersTrue and NoLeak.
HistoryInv == LogInv /\ QueueInv /\ AnswerInv /\ PendingInv

\* The history starts with the first commit.
LEMMA LogInit == ASSUME Init PROVE LogInv
<1> DEFINE w == [op |-> 0, gen |-> 1, doc |-> Blank]
<1>1. /\ disk.gen = 1 /\ disk.doc = Blank /\ disk.recent = <<w>> /\ log = <<w>>
      /\ tomb.gen = 1 /\ tomb.ids = {} /\ clock = 0
  BY DEF Init
<1>2. w.op = 0 /\ w.gen = 1 /\ w.doc = Blank
  OBVIOUS
<1> HIDE DEF w
<1>3. /\ Len(log) = 1 /\ DOMAIN log = {1} /\ log[1] = w
      /\ Len(disk.recent) = 1 /\ DOMAIN disk.recent = {1} /\ disk.recent[1] = w
  BY <1>1
<1>4. Evicted = 0
  BY <1>3 DEF Evicted
<1>5. Len(disk.recent) = IF Len(log) <= MaxRecent THEN Len(log) ELSE MaxRecent
  BY <1>3, SizesAssumption
<1> QED BY <1>1, <1>2, <1>3, <1>4, <1>5 DEF LogInv, OncePerOperation

\* The initial state has the invariant.
LEMMA HistoryInit == ASSUME Init PROVE HistoryInv
<1>1. QueueInv /\ AnswerInv
  BY DEF Init, QueueInv, AnswerInv
<1>2. PendingInv
  BY FS_EmptySet DEF Init, PendingInv
<1> QED BY <1>1, <1>2, LogInit DEF HistoryInv

\* Every step keeps the invariant of the files, the queue, the answers and the map.
LEMMA HistoryStep ==
  ASSUME TypeOK, TypeOK', HistoryInv, [Next]_vars
  PROVE  HistoryInv'
<1> USE DEF HistoryInv
<1>1. QueueInv' /\ clock' >= clock
  BY QueueStep
<1>2. LogInv'
  <2>1. NativeStep
    <3>1. CASE Saving
      BY <3>1, SavingEffects DEF Effects
    <3>2. CASE Owning
      BY <3>2, OwningIsNotNative DEF NativeStep, native
    <3>3. CASE UNCHANGED vars
      BY <3>3 DEF vars, NativeStep, native
    <3> QED BY <3>1, <3>2, <3>3, NextSplits
  <2>2. Admitted => First.op <= clock /\ First.op \in Nat /\ First.cand \in Doc
    BY HeadPending DEF Admitted
  <2> QED BY <1>1, <2>1, <2>2, LogStep
<1>3. AnswerInv'
  BY AnswerStep
<1>4. PendingInv'
  BY <1>1, PendingStep
<1> QED BY <1>1, <1>2, <1>3, <1>4

\* The types and the history, always.
LEMMA HistoryCorrect == Spec => [](TypeOK /\ HistoryInv)
<1>1. Init => TypeOK /\ HistoryInv
  BY TypeInit, HistoryInit
<1>2. TypeOK /\ HistoryInv /\ [Next]_vars => (TypeOK /\ HistoryInv)'
  BY TypeStep, HistoryStep
<1> QED BY <1>1, <1>2, PTL DEF Spec

\* What a save is told is true, however its calls failed, its answers were lost
\* and its operation was used again: "committed" names a write of the candidate
\* that is in the history, and of what is "not_committed" nothing was written
\* or ever will be, unless the stale-read guard said so, which asks about no
\* operation (performSessionCandidate, cas_plan, query_commit).
THEOREM SavesAreToldTheTruth == Spec => []AnswersTrue
<1>1. HistoryInv => AnswersTrue
  BY DEF HistoryInv, AnswerInv, AnswersTrue, Happened
<1> QED BY <1>1, HistoryCorrect, PTL

\* An operation becomes durable at most once, though the list of commits is cut
\* and its id is used again after an unknown outcome (cas_plan's tombstones).
THEOREM NothingIsWrittenTwice == Spec => []OncePerOperation
<1>1. HistoryInv => OncePerOperation
  BY DEF HistoryInv, LogInv
<1> QED BY <1>1, HistoryCorrect, PTL

\* The map of pending candidates (pendingSessionWrites) never holds more of them
\* than calls have failed, and the one of the save under way: saves that are
\* answered, however many, never use up its sixteen places.  The entries of
\* failed saves stay, though their callers have returned.
THEOREM PendingIsBounded == Spec => []NoLeak
<1>1. TypeOK /\ HistoryInv => NoLeak
  <2> SUFFICES ASSUME TypeOK, PendingInv PROVE NoLeak
    BY DEF HistoryInv
  <2>1. Cardinality(pending) \in Nat /\ faults \in Nat
    BY FS_CardinalityType DEF PendingInv, TypeOK
  <2> QED BY <2>1 DEF PendingInv, NoLeak
<1> QED BY <1>1, HistoryCorrect, PTL
=============================================================================
