--------------------------- MODULE SessionStore ---------------------------
(***************************************************************************)
(* The app's saved session: one document, kept in memory by the chat store *)
(* (state/store.ts), written by a queue of compare-and-swap calls          *)
(* (screens/HomeScreen.tsx) to a native store that keeps a generation      *)
(* number, the last operations and the tombstones of older ones            *)
(* (SessionSnapshotStore.mm, session_schema/cas.rs).                       *)
(*                                                                         *)
(* Three owners change memory first and save afterwards: the agent's turn, *)
(* the workspace binding and the cleanup drain of a launch.  Each keeps a  *)
(* transaction with the state before and after its change, and commits it  *)
(* or takes it back when its save is answered.  Meanwhile the user edits,  *)
(* and every save carries whatever memory holds at that moment.            *)
(*                                                                         *)
(* Contents are stamps: a change gives the part it touches a new number.   *)
(* Two documents are equal exactly when their SHA-256 digests are, so a    *)
(* document stands for its digest.  A conversation is a row: "att" is the  *)
(* attempt with its journal, "body" everything else, and "obj" the         *)
(* identity of the JavaScript object, which is not saved.                  *)
(***************************************************************************)
EXTENDS Naturals, Sequences, FiniteSets, SequencesExt

CONSTANTS
  Chat,        \* conversations
  MaxEdits,    \* bound: changes that somebody asks for
  MaxFaults,   \* bound: native calls that fail
  MaxLaunch,   \* bound: launches of the app
  MaxPending,  \* MAX_PENDING_SESSION_WRITES (16)
  MaxRecent    \* MAX_RECENT_COMMITS (64)

ASSUME SizesAssumption == /\ {MaxEdits, MaxFaults, MaxLaunch} \subseteq Nat
                          /\ MaxPending \in Nat \ {0}
                          /\ MaxRecent \in Nat \ {0}
ASSUME ChatAssumption == Chat # {}

VARIABLES
  mem,      \* the chat store's state
  choice,   \* the preferences store, not yet copied into mem
  auth,     \* the chat store's sessionAuthority, a generation and a digest
  disk,     \* the native envelope
  tomb,     \* the native tombstone file
  queue,    \* saves in order; the head is the one being performed
  pending,  \* pendingSessionWrites: candidates whose outcome is not known
  tx,       \* the transaction of each owner
  clock,    \* last stamp and operation id given out
  edits, faults, launch,
  log,      \* history: every operation that became durable
  answer,   \* history: the last answer given to a save
  kept,     \* history: the last attempt of a chat that was accepted as saved
  renamed   \* history: the last user edit of a chat that memory must hold

native  == <<disk, tomb, log>>
saving  == <<auth, queue, pending, answer>>
vars    == <<mem, choice, auth, disk, tomb, queue, pending, tx, clock, edits,
             faults, launch, log, answer, kept, renamed>>

Owner == {"turn", "bind", "drain"}
Kind  == {"prepare", "checkpoint", "ack", "bind"}
----------------------------------------------------------------------------
(* Documents, references and transactions.                                 *)

\* serialize(): what memory looks like on disk, without object identities.
Document(m) == [row |-> [c \in Chat |-> [att |-> m.row[c].att, body |-> m.row[c].body]],
                acked |-> m.outbox.acked, prefs |-> m.prefs]

\* hydrate(): memory made from a document; every object is a new one.
Hydrated(d, s) == [row |-> [c \in Chat |-> [obj |-> s, att |-> d.row[c].att,
                                            body |-> d.row[c].body]],
                   outbox |-> [obj |-> s, acked |-> d.acked],
                   prefs |-> d.prefs, root |-> s]

\* setPreferences: the state is replaced only when the preferences differ.
Synchronized(m, s) == IF m.prefs = choice THEN m
                      ELSE [m EXCEPT !.prefs = choice, !.root = s]

Blank    == [row |-> [c \in Chat |-> [att |-> 0, body |-> 0]], acked |-> FALSE, prefs |-> 0]
Ref(g, d) == [gen |-> g, doc |-> d]
NoRef    == Ref(0, Blank)

Durable  == Ref(disk.gen, disk.doc)           \* loadSessionSnapshot

NoTx == [st |-> "none", kind |-> "bind", chat |-> CHOOSE c \in Chat : TRUE,
         before |-> Hydrated(Blank, 0), next |-> Hydrated(Blank, 0), cap |-> NoRef]

(* What each kind of change does to memory (chatReducer).                   *)

\* turn/prepare: a message, a turn and an attempt.
Prepared(m, c, s) == [m EXCEPT !.row[c] = [obj |-> s, att |-> s, body |-> s], !.root = s]

\* attempt/agent-checkpoint: the attempt's journal.
Checkpointed(m, c, s) == [m EXCEPT !.row[c].att = s, !.row[c].obj = s, !.root = s]

\* conversation/apply-workspace-binding: the workspace and the project of the row.
Bound(m, c, s) == [m EXCEPT !.row[c].body = s, !.row[c].obj = s, !.root = s]

\* agent/cleanup-ack: the entry leaves the cleanup outbox.
Acknowledged(m, s) == [m EXCEPT !.outbox = [obj |-> s, acked |-> TRUE], !.root = s]

Changed(kind, c, m, s) == CASE kind = "prepare"    -> Prepared(m, c, s)
                            [] kind = "checkpoint" -> Checkpointed(m, c, s)
                            [] kind = "bind"       -> Bound(m, c, s)
                            [] kind = "ack"        -> Acknowledged(m, s)
----------------------------------------------------------------------------
(* Settling a transaction: state/store.ts.                                 *)

\* Mutant: a binding that looks at the attempt alone.
OwnedByAttempt(t) == mem.row[t.chat].att = t.next.row[t.chat].att

\* nextStillOwned: nobody has replaced what this transaction wrote.
Owned(t) == CASE t.kind \in {"checkpoint", "bind"} -> mem.row[t.chat].obj = t.next.row[t.chat].obj
              [] t.kind = "ack"     -> mem.outbox.obj = t.next.outbox.obj
              [] t.kind = "prepare" -> mem.root = t.next.root

\* nativeSessionCommitProofMatchesCandidate: the answered reference must be
\* the very next generation after the one captured when the change was made,
\* and carry the digest of the state the change produced.
Proof(t, ref) == ref.gen = t.cap.gen + 1 /\ ref.doc = Document(t.next) /\ t.cap # NoRef

\* commit(proof): what it answers.
Commits(t, ref) == \/ t.kind \in {"prepare", "bind"}
                   \/ t.kind \in {"checkpoint", "ack"} /\ Owned(t) /\ Proof(t, ref)

\* preparedTransaction: the whole state, if it is still the one it produced.
PreparationTakenBack(t) == IF Owned(t) THEN t.before ELSE mem

\* Mutant: the state is put back without asking who owns it now.
TakenBackBlindly(t) == t.before

\* workspaceBindingTransaction: the old row, if the row is still its own.
BindingTakenBack(t) ==
  IF Owned(t) THEN [mem EXCEPT !.row[t.chat] = t.before.row[t.chat], !.root = clock + 1] ELSE mem

\* agentCheckpointTransaction: the attempt, whatever became of the rest of the row.
CheckpointTakenBack(t) ==
  IF mem.row[t.chat].att = t.next.row[t.chat].att
  THEN [mem EXCEPT !.row[t.chat].att = t.before.row[t.chat].att,
                   !.row[t.chat].obj = clock + 1, !.root = clock + 1]
  ELSE mem

\* cleanupAcknowledgementTransaction: the outbox.
AcknowledgementTakenBack(t) ==
  IF Owned(t) THEN [mem EXCEPT !.outbox = t.before.outbox, !.root = clock + 1] ELSE mem

\* rollback(): memory afterwards.
RolledBack(t) == CASE t.kind = "prepare"    -> PreparationTakenBack(t)
                   [] t.kind = "bind"       -> BindingTakenBack(t)
                   [] t.kind = "checkpoint" -> CheckpointTakenBack(t)
                   [] t.kind = "ack"        -> AcknowledgementTakenBack(t)

\* commit() of a checkpoint or an acknowledgement that finds its change
\* replaced settles the transaction, so that the rollback after it does nothing.
Withdrawn(t, status) == IF status = "committed" /\ ~Owned(t) THEN mem ELSE RolledBack(t)
----------------------------------------------------------------------------
(* The native store.                                                       *)

Commit(op, d) == [op |-> op, gen |-> disk.gen + 1, doc |-> d]

\* Mutant: the list of commits is never cut.
EveryOneOf(s) == s

LastOf(s) == IF Len(s) <= MaxRecent THEN s ELSE SubSeq(s, Len(s) - MaxRecent + 1, Len(s))

HasCommit(op) == \E i \in DOMAIN disk.recent : disk.recent[i].op = op
CommitOf(op)  == LET i == CHOOSE j \in DOMAIN disk.recent : disk.recent[j].op = op
                 IN Ref(disk.recent[i].gen, disk.recent[i].doc)

\* Mutant: the ids of evicted operations are not kept.
TombsForNobody == [gen |-> disk.gen + 1, ids |-> {}]

\* cas_plan: the tombstone file that has to be on disk before the envelope.
TombsFor == [gen |-> disk.gen + 1,
             ids |-> (IF disk.gen > MaxRecent THEN tomb.ids ELSE {})
                     \cup (IF Len(disk.recent) = MaxRecent THEN {disk.recent[1].op} ELSE {})]

EnvelopeFor(op, d) == [gen |-> disk.gen + 1, doc |-> d,
                       recent |-> LastOf(Append(disk.recent, Commit(op, d)))]

\* querySessionCommit, when the file can be read.
QueryAnswer(op) ==
  IF HasCommit(op) THEN [status |-> "committed", ref |-> CommitOf(op)]
  ELSE [status |-> IF \/ disk.gen <= Len(disk.recent)
                      \/ (disk.gen <= MaxRecent \/ tomb.gen >= disk.gen) /\ op \notin tomb.ids
                   THEN "not_started" ELSE "unknown",
        ref |-> NoRef]

Fault == faults < MaxFaults /\ faults' = faults + 1
NoFault == UNCHANGED faults

\* What one query brings back: the truth, or nothing.
Queried(op, r) == \/ r = QueryAnswer(op) /\ NoFault
                  \/ r = [status |-> "unknown", ref |-> NoRef] /\ Fault

QueryResult(op) == {QueryAnswer(op), [status |-> "unknown", ref |-> NoRef]}

(* casPersistSession: an answer with its effect on the two files.  A write  *)
(* that fails either did nothing or may have been done all the same.        *)
Wrote(t, d) == /\ tomb' = t /\ disk' = d
               /\ log' = IF d = disk THEN log ELSE Append(log, Last(d.recent))

Cas(j, r) ==
  \/ /\ HasCommit(j.op)                                  \* replayed
     /\ r = [status |-> "committed", ref |-> CommitOf(j.op)]
     /\ UNCHANGED native /\ NoFault
  \/ /\ ~HasCommit(j.op) /\ j.ref # Durable
     /\ r = [status |-> "conflict", ref |-> NoRef]
     /\ UNCHANGED native /\ NoFault
  \/ /\ ~HasCommit(j.op) /\ j.ref = Durable
     /\ \/ disk.gen > Len(disk.recent) /\ tomb.gen < disk.gen
        \/ j.op \in tomb.ids
     /\ r = [status |-> "unknown", ref |-> NoRef]
     /\ UNCHANGED native /\ NoFault
  \/ /\ ~HasCommit(j.op) /\ j.ref = Durable /\ j.op \notin tomb.ids
     /\ disk.gen <= Len(disk.recent) \/ tomb.gen >= disk.gen
     /\ LET env == EnvelopeFor(j.op, j.cand) IN
        \/ /\ r = [status |-> "committed", ref |-> Ref(env.gen, j.cand)]
           /\ Wrote(TombsFor, env) /\ NoFault
        \/ /\ r = [status |-> "not_committed", ref |-> NoRef]
           /\ \E t \in {tomb, TombsFor} : Wrote(t, disk)
           /\ Fault
        \/ /\ r = [status |-> "unknown", ref |-> NoRef]
           /\ \/ \E t \in {tomb, TombsFor} : Wrote(t, disk)
              \/ Wrote(TombsFor, env)
           /\ Fault
----------------------------------------------------------------------------
(* Saving: HomeScreen.performSessionCandidate, one native call per step.    *)

Job(owner, m, must) == [owner |-> owner, cand |-> Document(m), must |-> must,
                        step |-> "start", op |-> 0, ref |-> NoRef]

First == queue[1]
Advance(j) == queue' = [queue EXCEPT ![1] = j]
EntryOf(d) == {p \in pending : p.cand = d}

\* The owner of the answered save commits its transaction, takes it back, or
\* keeps it latched until somebody retries.  The drain does not keep it.
Settle(owner, status, ref) ==
  IF owner = "user" THEN UNCHANGED <<mem, tx, clock, kept>>
  ELSE LET t == tx[owner] IN
    CASE status = "committed" /\ Commits(t, ref) ->
           /\ tx' = [tx EXCEPT ![owner] = NoTx]
           /\ kept' = IF t.kind = "checkpoint"
                      THEN [kept EXCEPT ![t.chat] = t.next.row[t.chat].att] ELSE kept
           /\ UNCHANGED <<mem, clock>>
      [] status = "unknown" /\ (owner = "turn" \/ (owner = "bind" /\ Owned(t))) ->
           /\ tx' = [tx EXCEPT ![owner].st = "latched"]
           /\ UNCHANGED <<mem, clock, kept>>
      [] OTHER ->
           /\ tx' = [tx EXCEPT ![owner] = NoTx]
           /\ mem' = Withdrawn(t, status)
           /\ clock' = clock + 1
           /\ UNCHANGED kept

\* Mutant: only a committed candidate leaves the map.
StillPendingUntilSaved(status) == IF status = "committed" THEN pending \ EntryOf(First.cand) ELSE pending

\* The entry stays in the map exactly when the outcome is still unknown.
StillPending(status) == IF status = "unknown" THEN pending ELSE pending \ EntryOf(First.cand)

\* The save at the head is answered and leaves the queue.  A committed answer
\* installs its reference as the store's authority.
Answer(status, ref) ==
  /\ answer' = [status |-> status, step |-> First.step, op |-> First.op,
                cand |-> First.cand, ref |-> ref]
  /\ queue' = Tail(queue)
  /\ pending' = StillPending(status)
  /\ auth' = IF status = "committed" THEN ref ELSE auth
  /\ Settle(First.owner, status, ref)
  /\ UNCHANGED <<choice, edits, launch, renamed>>

Quiet == UNCHANGED <<mem, choice, auth, tx, edits, launch, answer, kept, renamed>>

\* The candidate is looked up by its digest.  One that is still pending is
\* asked about under its old operation before anything is written.
Start ==
  /\ queue # <<>> /\ First.step = "start"
  /\ UNCHANGED native
  /\ IF EntryOf(First.cand) = {}
     THEN IF Cardinality(pending) >= MaxPending
          THEN Answer("unknown", NoRef) /\ NoFault
          ELSE /\ Advance([First EXCEPT !.step = "load", !.op = clock + 1])
               /\ pending' = pending \cup {[cand |-> First.cand, op |-> clock + 1]}
               /\ clock' = clock + 1
               /\ Quiet /\ NoFault
     ELSE /\ Advance([First EXCEPT !.step = "ask", !.op = (CHOOSE p \in EntryOf(First.cand) : TRUE).op])
          /\ Quiet /\ NoFault /\ UNCHANGED <<pending, clock>>

Ask ==
  /\ queue # <<>> /\ First.step = "ask"
  /\ UNCHANGED native
  /\ \E r \in QueryResult(First.op) :
       /\ Queried(First.op, r)
       /\ IF r.status = "committed" THEN Answer("committed", r.ref)
          ELSE /\ Advance([First EXCEPT !.step = "load"])
               /\ Quiet /\ UNCHANGED <<pending, clock>>

\* loadAuthority, with the caller's expected authority as a stale-read guard.
Load ==
  /\ queue # <<>> /\ First.step = "load"
  /\ UNCHANGED native
  /\ \/ Fault /\ Answer("unknown", NoRef)
     \/ /\ NoFault
        /\ IF First.must \notin {NoRef, Durable}
           THEN Answer("not_committed", NoRef)
           ELSE /\ Advance([First EXCEPT !.step = "cas", !.ref = Durable])
                /\ Quiet /\ UNCHANGED <<pending, clock>>

\* The coordinator discards a committed answer of another generation.
CasPersist ==
  /\ queue # <<>> /\ First.step = "cas"
  /\ \E r \in [status : {"committed", "conflict", "not_committed", "unknown"},
               ref : {NoRef, Ref(disk.gen + 1, First.cand)}
                     \cup IF HasCommit(First.op) THEN {CommitOf(First.op)} ELSE {}] :
       /\ Cas(First, r)
       /\ CASE r.status = "committed" /\ r.ref = Ref(First.ref.gen + 1, First.cand) ->
                 Answer("committed", r.ref)
            [] r.status \in {"conflict", "not_committed"} -> Answer("not_committed", NoRef)
            [] OTHER -> /\ Advance([First EXCEPT !.step = "query"])
                        /\ Quiet /\ UNCHANGED <<pending, clock>>

\* Mutant: an operation nobody knows of counts as refused.
QueryHopeful ==
  /\ queue # <<>> /\ First.step = "query"
  /\ UNCHANGED native
  /\ \E r \in QueryResult(First.op) :
       /\ Queried(First.op, r)
       /\ IF r.status = "committed" THEN Answer("committed", r.ref) ELSE Answer("not_committed", NoRef)

\* Never mint a second operation for an indeterminate write: query it.
Query ==
  /\ queue # <<>> /\ First.step = "query"
  /\ UNCHANGED native
  /\ \E r \in QueryResult(First.op) :
       /\ Queried(First.op, r)
       /\ CASE r.status = "committed"   -> Answer("committed", r.ref)
            [] r.status = "not_started" -> Answer("not_committed", NoRef)
            [] r.status = "unknown"     -> /\ Advance([First EXCEPT !.step = "reconcile"])
                                           /\ Quiet /\ UNCHANGED <<pending, clock>>

\* A durable snapshot that carries the candidate's digest proves the write.
Reconcile ==
  /\ queue # <<>> /\ First.step = "reconcile"
  /\ UNCHANGED native
  /\ \/ Fault /\ Answer("unknown", NoRef)
     \/ /\ NoFault
        /\ IF disk.doc = First.cand THEN Answer("committed", Durable)
           ELSE Answer("unknown", NoRef)
----------------------------------------------------------------------------
(* The owners.                                                              *)

MayEdit == edits < MaxEdits /\ edits' = edits + 1

\* An owner changes memory, keeps the transaction and saves (the agent's turn
\* and the binding through persistCurrent, which copies the preferences in).
Begin(owner, kind) ==
  /\ tx[owner].st = "none"
  /\ kind \in {"checkpoint", "ack"} => auth # NoRef
  /\ kind = "ack" => ~mem.outbox.acked
  /\ MayEdit
  /\ \E c \in Chat :
       LET m == Changed(kind, c, mem, clock + 1)
           s == Synchronized(m, clock + 2)
       IN /\ tx' = [tx EXCEPT ![owner] = [st |-> "saving", kind |-> kind, chat |-> c,
                                          before |-> mem, next |-> m, cap |-> auth]]
          /\ mem' = s
          /\ queue' = Append(queue, Job(owner, s, NoRef))
  /\ clock' = clock + 2
  /\ UNCHANGED <<native, choice, auth, pending, faults, launch, answer, kept, renamed>>

TurnBegins == \E kind \in {"prepare", "checkpoint", "ack"} : Begin("turn", kind)
BindBegins == Begin("bind", "bind")

\* drainInterruptedAgentCleanup saves memory as it is, on the condition that
\* nothing has been saved since it read the authority.
DrainBegins ==
  /\ tx["drain"].st = "none" /\ auth # NoRef /\ ~mem.outbox.acked
  /\ MayEdit
  /\ LET m == Changed("ack", CHOOSE c \in Chat : TRUE, mem, clock + 1)
     IN /\ tx' = [tx EXCEPT !["drain"] = [st |-> "saving", kind |-> "ack",
                     chat |-> CHOOSE c \in Chat : TRUE, before |-> mem, next |-> m, cap |-> auth]]
        /\ mem' = m
        /\ queue' = Append(queue, Job("drain", m, auth))
  /\ clock' = clock + 1
  /\ UNCHANGED <<native, choice, auth, pending, faults, launch, answer, kept, renamed>>

\* persistCurrent, called again for a latched change or for the user.
PersistCurrent(owner, m) ==
  /\ mem' = Synchronized(m, clock + 2)
  /\ queue' = Append(queue, Job(owner, mem', NoRef))
  /\ clock' = clock + 2

Retry(owner) ==
  /\ tx[owner].st = "latched"
  /\ MayEdit
  /\ tx' = [tx EXCEPT ![owner].st = "saving"]
  /\ PersistCurrent(owner, mem)
  /\ UNCHANGED <<native, choice, auth, pending, faults, launch, answer, kept, renamed>>

\* renameConversation: the title changes and memory is saved, whoever is at work.
Rename ==
  /\ MayEdit
  /\ \E c \in Chat : /\ PersistCurrent("user", [mem EXCEPT !.row[c].body = clock + 1,
                                                !.row[c].obj = clock + 1, !.root = clock + 1])
                     /\ renamed' = [renamed EXCEPT ![c] = clock + 1]
  /\ UNCHANGED <<native, choice, auth, pending, tx, faults, launch, answer, kept>>

\* A rating or a pin changes the preferences without a save; the settings save.
Prefer ==
  /\ MayEdit
  /\ choice' = 1 - choice
  /\ UNCHANGED <<mem, native, saving, tx, clock, faults, launch, kept, renamed>>

SettingsSave ==
  /\ MayEdit
  /\ choice' = 1 - choice
  /\ mem' = [mem EXCEPT !.prefs = 1 - choice, !.root = clock + 1]
  /\ queue' = Append(queue, Job("user", mem', NoRef))
  /\ clock' = clock + 1
  /\ UNCHANGED <<native, auth, pending, tx, faults, launch, answer, kept, renamed>>

\* restoreCurrentSessionAuthority: before a retry or a resume the store is
\* made to agree with the durable snapshot; memory that differs is dropped.
Restore ==
  /\ tx["turn"].st = "none"
  /\ MayEdit
  /\ mem' = IF Document(mem) = disk.doc THEN mem ELSE Hydrated(disk.doc, clock + 1)
  /\ auth' = Durable
  /\ clock' = clock + 1
  /\ renamed' = IF Document(mem) = disk.doc THEN renamed
                ELSE [c \in Chat |-> disk.doc.row[c].body]
  /\ UNCHANGED <<native, choice, queue, pending, tx, faults, launch, answer, kept>>

\* The process dies and the app is launched again from the durable snapshot.
Relaunch ==
  /\ launch < MaxLaunch
  /\ launch' = launch + 1
  /\ mem' = Hydrated(disk.doc, clock + 1) /\ choice' = disk.doc.prefs
  /\ auth' = Durable
  /\ queue' = <<>> /\ pending' = {} /\ tx' = [o \in Owner |-> NoTx]
  /\ clock' = clock + 1
  /\ renamed' = [c \in Chat |-> disk.doc.row[c].body]
  /\ UNCHANGED <<native, edits, faults, answer, kept>>
----------------------------------------------------------------------------
Init ==
  /\ mem = Hydrated(Blank, 0) /\ choice = 0
  /\ disk = [gen |-> 1, doc |-> Blank, recent |-> <<[op |-> 0, gen |-> 1, doc |-> Blank]>>]
  /\ tomb = [gen |-> 1, ids |-> {}]
  /\ auth = Ref(1, Blank)
  /\ queue = <<>> /\ pending = {}
  /\ tx = [o \in Owner |-> NoTx]
  /\ clock = 0 /\ edits = 0 /\ faults = 0 /\ launch = 1
  /\ log = disk.recent
  /\ answer = [status |-> "none", step |-> "start", op |-> 0, cand |-> Blank, ref |-> NoRef]
  /\ kept = [c \in Chat |-> 0] /\ renamed = [c \in Chat |-> 0]

Next == \/ Start \/ Ask \/ Load \/ CasPersist \/ Query \/ Reconcile
        \/ TurnBegins \/ BindBegins \/ DrainBegins
        \/ (\E owner \in {"turn", "bind"} : Retry(owner))
        \/ Rename \/ Prefer \/ SettingsSave \/ Restore \/ Relaunch

Spec == Init /\ [][Next]_vars
----------------------------------------------------------------------------
Doc == [row : [Chat -> [att : Nat, body : Nat]], acked : BOOLEAN, prefs : {0, 1}]
Reference == [gen : Nat, doc : Doc]
Memory == [row : [Chat -> [obj : Nat, att : Nat, body : Nat]],
           outbox : [obj : Nat, acked : BOOLEAN], prefs : {0, 1}, root : Nat]
Written == [op : Nat, gen : Nat, doc : Doc]
Transaction == [st : {"none", "saving", "latched"}, kind : Kind, chat : Chat,
                before : Memory, next : Memory, cap : Reference]
Step == {"start", "ask", "load", "cas", "query", "reconcile"}
Save == [owner : Owner \cup {"user"}, cand : Doc, must : Reference, step : Step,
         op : Nat, ref : Reference]

TypeOK ==
  /\ mem \in Memory /\ choice \in {0, 1}
  /\ auth \in Reference
  /\ disk \in [gen : Nat, doc : Doc, recent : Seq(Written)]
  /\ Len(disk.recent) <= MaxRecent
  /\ tomb \in [gen : Nat, ids : SUBSET Nat]
  /\ queue \in Seq(Save)
  /\ pending \subseteq [cand : Doc, op : Nat]
  /\ tx \in [Owner -> Transaction]
  /\ {clock, edits, faults, launch} \subseteq Nat
  /\ log \in Seq(Written)
  /\ answer \in [status : {"none", "committed", "not_committed", "unknown"},
                 step : Step, op : Nat, cand : Doc, ref : Reference]
  /\ kept \in [Chat -> Nat] /\ renamed \in [Chat -> Nat]

\* What a save is told is true: "committed" names a write in the history that
\* has the candidate's contents, and what is "not_committed" never happened
\* (performSessionCandidate against cas_plan, query_commit and lost answers).
\* The stale-read guard alone, at the step "load", looks at no operation: it
\* refuses a candidate whose earlier write may be durable.
AnswersTrue ==
  /\ answer.status = "committed" =>
       /\ answer.ref.doc = answer.cand
       /\ \E i \in DOMAIN log : Ref(log[i].gen, log[i].doc) = answer.ref
  /\ answer.status = "not_committed" /\ answer.step # "load" =>
       \A i \in DOMAIN log : log[i].op # answer.op

\* An operation becomes durable at most once, though its id is used again
\* after an unknown outcome and its commit may have left the retained list.
OncePerOperation == \A i, j \in DOMAIN log : log[i].op = log[j].op => i = j

\* A checkpoint that was accepted as saved is on disk and in memory until
\* a later one replaces it, whatever else is saved, taken back or restored meanwhile.
CheckpointsStay == \A c \in Chat : /\ disk.doc.row[c].att >= kept[c]
                                   /\ mem.row[c].att >= kept[c]

\* No owner that takes its change back takes a user's edit with it.
EditsSurvive == \A c \in Chat : mem.row[c].body >= renamed[c]

\* The pending map holds no more candidates than calls have failed, and the one
\* of the save under way.  The candidate of a failed save stays there though its
\* caller has returned; that of a save that was answered does not.
NoLeak == Cardinality(pending) <= faults + (IF queue # <<>> THEN 1 ELSE 0)
=============================================================================
