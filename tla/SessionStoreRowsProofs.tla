---------------------- MODULE SessionStoreRowsProofs ----------------------
(***************************************************************************)
(* Theorems about the conversations of the saved session: what the user    *)
(* edited and what was accepted as saved survives the three owners, their  *)
(* rollbacks, the restored snapshots and the launches.                     *)
(*                                                                         *)
(* Every step has one of six shapes, by what it does to the rows of memory *)
(* and to the transactions; the invariants about rows go through the       *)
(* shapes and not through the actions.                                     *)
(***************************************************************************)
EXTENDS SessionStoreProofs

(***************************************************************************)
(* What the owners do to the rows of memory                                *)
(***************************************************************************)
Kinds(o) == CASE o = "turn" -> {"prepare", "checkpoint", "ack"}
              [] o = "bind" -> {"bind"}
              [] o = "drain" -> {"ack"}

\* The change of an owner, by its rows.
LEMMA ChangedRows ==
  ASSUME NEW m \in Memory, NEW c \in Chat, NEW s \in Nat, NEW kind \in Kind
  PROVE  LET n == Changed(kind, c, m, s) IN
         /\ n.root = s
         /\ \A d \in Chat : d # c \/ kind = "ack" => n.row[d] = m.row[d]
         /\ kind # "ack" => n.row[c].obj = s
         /\ n.row[c].att = IF kind \in {"prepare", "checkpoint"} THEN s ELSE m.row[c].att
         /\ n.row[c].body = IF kind \in {"prepare", "bind"} THEN s ELSE m.row[c].body
<1>1. \A d \in Chat : m.row[d] \in [obj : Nat, att : Nat, body : Nat]
  BY DEF Memory
<1>2. CASE kind = "prepare"
  BY <1>1, <1>2 DEF Changed, Prepared, Memory
<1>3. CASE kind = "checkpoint"
  BY <1>1, <1>3 DEF Changed, Checkpointed, Memory
<1>4. CASE kind = "bind"
  BY <1>1, <1>4 DEF Changed, Bound, Memory
<1>5. CASE kind = "ack"
  BY <1>1, <1>5 DEF Changed, Acknowledged, Memory
<1> QED BY <1>2, <1>3, <1>4, <1>5 DEF Kind

\* Copying the preferences in leaves the rows alone.
LEMMA SynchronizedRows ==
  ASSUME NEW m \in Memory, NEW s \in Nat
  PROVE  Synchronized(m, s).row = m.row /\ Synchronized(m, s).root \in {m.root, s}
  BY DEF Synchronized, Memory

\* The user's edit, by its rows.
LEMMA RenamedRows ==
  ASSUME mem \in Memory, clock \in Nat, NEW c \in Chat
  PROVE  /\ Renamed(c) \in Memory /\ Renamed(c).root = clock + 1
         /\ \A d \in Chat \ {c} : Renamed(c).row[d] = mem.row[d]
         /\ Renamed(c).row[c] = [obj |-> clock + 1, att |-> mem.row[c].att, body |-> clock + 1]
<1>1. mem.row[c] \in [obj : Nat, att : Nat, body : Nat] /\ clock + 1 \in Nat
  BY DEF Memory
<1>2. Renamed(c) \in Memory
  BY <1>1, FieldTypes DEF Renamed
<1> QED BY <1>1, <1>2 DEF Renamed, Memory

\* What taking a transaction back leaves, by kind: nothing, the whole memory of
\* before, the row of before, or the attempt of before in a new row.
TookBack(t, m) ==
  \/ m = mem
  \/ t.kind = "prepare" /\ Owned(t) /\ m = t.before
  \/ /\ t.kind = "bind" /\ Owned(t) /\ m.root = clock + 1
     /\ m.row[t.chat] = t.before.row[t.chat]
     /\ \A d \in Chat \ {t.chat} : m.row[d] = mem.row[d]
  \/ /\ t.kind = "checkpoint" /\ m.root = clock + 1
     /\ m.row[t.chat].att = t.before.row[t.chat].att
     /\ m.row[t.chat].obj = clock + 1
     /\ m.row[t.chat].body = mem.row[t.chat].body
     /\ \A d \in Chat \ {t.chat} : m.row[d] = mem.row[d]
  \/ t.kind = "ack" /\ m.root = clock + 1 /\ m.row = mem.row

\* Whatever a transaction's kind and the answer, it is taken back so.
LEMMA WithdrawnRows ==
  ASSUME TypeOK, NEW t \in Transaction, NEW status
  PROVE  TookBack(t, Withdrawn(t, status))
<1>1. /\ mem \in Memory /\ t.chat \in Chat /\ t.before \in Memory /\ t.kind \in Kind
      /\ mem.row[t.chat] \in [obj : Nat, att : Nat, body : Nat]
  BY DEF TypeOK, Transaction, Memory
<1>2. CASE Withdrawn(t, status) = mem
  BY <1>2 DEF TookBack
<1>3. CASE Withdrawn(t, status) = RolledBack(t) /\ RolledBack(t) # mem
  <2>1. CASE t.kind = "prepare"
    BY <1>3, <2>1 DEF RolledBack, PreparationTakenBack, TookBack
  <2>2. CASE t.kind = "bind"
    <3>1. /\ Owned(t)
          /\ RolledBack(t) = [mem EXCEPT !.row[t.chat] = t.before.row[t.chat], !.root = clock + 1]
      BY <1>3, <2>2 DEF RolledBack, BindingTakenBack
    <3> QED BY <1>1, <1>3, <2>2, <3>1 DEF TookBack, Memory
  <2>3. CASE t.kind = "checkpoint"
    <3> DEFINE c == t.chat
               a == t.before.row[t.chat].att
               m == [mem EXCEPT !.row[c].att = a, !.row[c].obj = clock + 1, !.root = clock + 1]
    <3>1. RolledBack(t) = m
      BY <1>3, <2>3 DEF RolledBack, CheckpointTakenBack
    <3> HIDE DEF a
    <3>2. /\ m.root = clock + 1 /\ m.row[c].att = a /\ m.row[c].obj = clock + 1
          /\ m.row[c].body = mem.row[c].body
          /\ \A d \in Chat \ {c} : m.row[d] = mem.row[d]
      BY <1>1 DEF Memory
    <3> HIDE DEF m
    <3> QED BY <1>3, <2>3, <3>1, <3>2 DEF TookBack, a
  <2>4. CASE t.kind = "ack"
    <3>1. RolledBack(t) = [mem EXCEPT !.outbox = t.before.outbox, !.root = clock + 1]
      BY <1>3, <2>4 DEF RolledBack, AcknowledgementTakenBack
    <3> QED BY <1>1, <1>3, <2>4, <3>1 DEF TookBack, Memory
  <2> QED BY <1>1, <2>1, <2>2, <2>3, <2>4 DEF Kind
<1> QED BY <1>2, <1>3 DEF Withdrawn

\* An owner has a save in the queue only while its transaction waits for it,
\* and never two.
JobInv ==
  /\ \A k \in DOMAIN queue : queue[k].owner # "user" => tx[queue[k].owner].st = "saving"
  /\ \A k, l \in DOMAIN queue : queue[k].owner = queue[l].owner /\ queue[k].owner # "user" => k = l

\* An owner's transaction is of a kind of its own.
KindInv == \A o \in Owner : tx[o].st # "none" => tx[o].kind \in Kinds(o)

\* The shapes of a step, as far as the rows and the transactions go.  Memory
\* keeps its rows, and the transactions but for where they stand.
Idles ==
  /\ UNCHANGED <<kept, renamed>>
  /\ mem'.row = mem.row
  /\ mem'.root = mem.root \/ (mem'.root > clock /\ mem'.root <= clock')
  /\ \A o \in Owner : /\ tx'[o].kind = tx[o].kind /\ tx'[o].chat = tx[o].chat
                      /\ tx'[o].before = tx[o].before /\ tx'[o].next = tx[o].next
                      /\ tx'[o].cap = tx[o].cap
                      /\ tx'[o].st = "none" <=> tx[o].st = "none"

\* An owner changes a conversation.
Opens(o) ==
  /\ UNCHANGED <<kept, renamed>> /\ tx[o].st = "none" /\ clock' > clock
  /\ \E kind \in Kinds(o), c \in Chat, n \in Memory :
       /\ n = Changed(kind, c, mem, clock + 1)
       /\ tx' = [tx EXCEPT ![o] = [st |-> "saving", kind |-> kind, chat |-> c,
                                   before |-> mem, next |-> n, cap |-> auth]]
       /\ mem'.row = n.row /\ mem'.root > clock /\ mem'.root <= clock'

\* An owner's save is accepted.
Closes(o) ==
  /\ UNCHANGED <<mem, renamed, clock>>
  /\ tx' = [tx EXCEPT ![o] = NoTx]
  /\ \/ kept' = kept
     \/ /\ tx[o].kind = "checkpoint" /\ answer'.status = "committed"
        /\ Owned(tx[o]) /\ Proof(tx[o], answer'.ref)
        /\ kept' = [kept EXCEPT ![tx[o].chat] = tx[o].next.row[tx[o].chat].att]

\* An owner takes its change back.
TakesBack(o) ==
  /\ UNCHANGED <<kept, renamed>> /\ clock' = clock + 1
  /\ tx' = [tx EXCEPT ![o] = NoTx]
  /\ \E m \in Memory : mem' = m /\ TookBack(tx[o], m)

\* The user edits a conversation.
Renames ==
  /\ UNCHANGED <<kept, tx>> /\ clock' > clock
  /\ \E c \in Chat :
       /\ mem'.row = [mem.row EXCEPT ![c] = [obj |-> clock + 1, att |-> mem.row[c].att, body |-> clock + 1]]
       /\ mem'.root > clock /\ mem'.root <= clock'
       /\ renamed' = [renamed EXCEPT ![c] = clock + 1]

\* Memory is read back from the files.
Hydrates ==
  /\ UNCHANGED <<kept, disk, log>> /\ clock' = clock + 1
  /\ mem' = Hydrated(disk.doc, clock + 1)
  /\ renamed' = [c \in Chat |-> disk.doc.row[c].body]
  /\ tx'["turn"].st = "none"
  /\ tx' = tx \/ tx' = [o \in Owner |-> NoTx]

\* Every step has one of these shapes.
Shaped == \/ Idles \/ Renames \/ Hydrates
          \/ (\E o \in Owner : tx[o].st # "none" /\ (Closes(o) \/ TakesBack(o)))
          \/ (\E o \in Owner : Opens(o))

\* Every step keeps the owners' saves apart.
LEMMA JobStep ==
  ASSUME TypeOK, TypeOK', JobInv, [Next]_vars
  PROVE  JobInv'
<1>a. queue \in Seq(Save) /\ queue' \in Seq(Save) /\ tx \in [Owner -> Transaction]
  BY DEF TypeOK
<1>b. \A k \in DOMAIN queue : queue[k].owner \in Owner \cup {"user"}
  <2>1. \A k \in DOMAIN queue : queue[k] \in Save
    BY <1>a
  <2> QED BY <2>1 DEF Save
<1>1. CASE Saving /\ MovesOn
  <2>1. queue # <<>>
    BY <1>1, SavingEffects DEF Effects
  <2>2. PICK j \in Save : j.owner = First.owner /\ Advance(j) /\ tx' = tx
    BY <1>1 DEF MovesOn, Quiet
  <2>3. /\ DOMAIN queue' = DOMAIN queue /\ queue'[1] = j
        /\ \A k \in DOMAIN queue : k # 1 => queue'[k] = queue[k]
    BY <1>a, <2>1, <2>2, HeadReplaced DEF Advance
  <2>4. \A k \in DOMAIN queue' : queue'[k].owner = queue[k].owner
    BY <2>2, <2>3 DEF First
  <2> QED BY <2>2, <2>3, <2>4 DEF JobInv
<1>2. CASE Saving /\ Answers
  <2>1. queue # <<>> /\ queue' = Tail(queue)
    BY <1>2, SavingEffects DEF Effects, Answers, Answer
  <2>2. \A k \in DOMAIN queue' : k \in Nat /\ k >= 1 /\ k + 1 \in DOMAIN queue /\ queue'[k] = queue[k + 1]
    BY <1>a, <2>1, TailProperties
  <2>3. \A o \in Owner : o # First.owner => tx'[o] = tx[o]
    BY <1>2, <1>a DEF Answers, Answer, Settle
  <2>4. 1 \in DOMAIN queue
    BY <1>a, <2>1
  <2>5. \A k \in DOMAIN queue' : queue'[k].owner # "user" =>
             queue'[k].owner # First.owner /\ tx[queue'[k].owner].st = "saving" /\ queue'[k].owner \in Owner
    <3> SUFFICES ASSUME NEW k \in DOMAIN queue', queue'[k].owner # "user"
                 PROVE  queue'[k].owner # First.owner /\ tx[queue'[k].owner].st = "saving" /\ queue'[k].owner \in Owner
      OBVIOUS
    <3>1. k + 1 \in DOMAIN queue /\ k + 1 # 1 /\ queue'[k] = queue[k + 1]
      BY <2>2
    <3> QED BY <1>b, <2>4, <3>1 DEF JobInv, First
  <2>6. \A k, l \in DOMAIN queue' : queue'[k].owner = queue'[l].owner /\ queue'[k].owner # "user" => k = l
    <3> SUFFICES ASSUME NEW k \in DOMAIN queue', NEW l \in DOMAIN queue',
                        queue'[k].owner = queue'[l].owner, queue'[k].owner # "user"
                 PROVE  k = l
      OBVIOUS
    <3>1. k + 1 = l + 1
      BY <2>2 DEF JobInv
    <3> QED BY <2>2, <3>1
  <2> QED BY <2>3, <2>5, <2>6 DEF JobInv
<1>3. CASE Owning
  <2>1. OwningEffect
    BY <1>3, OwningEffects
  <2>2. CASE queue' = <<>>
    BY <2>2 DEF JobInv
  <2>3. CASE UNCHANGED <<queue, tx>>
    BY <2>3 DEF JobInv
  <2>4. CASE Appends
    <3>1. PICK owner \in Owner \cup {"user"}, job \in Save :
            /\ job.owner = owner /\ queue' = Append(queue, job)
            /\ owner # "user" => tx[owner].st # "saving" /\ tx'[owner].st = "saving"
            /\ \A o \in Owner \ {owner} : tx'[o] = tx[o]
      BY <2>4, JobType DEF Appends, Job
    <3>2. /\ DOMAIN queue' = 1 .. Len(queue) + 1 /\ DOMAIN queue = 1 .. Len(queue) /\ Len(queue) \in Nat
          /\ queue'[Len(queue) + 1] = job
          /\ \A k \in DOMAIN queue : k \in DOMAIN queue' /\ queue'[k] = queue[k]
          /\ \A k \in DOMAIN queue' : k \in DOMAIN queue \/ k = Len(queue) + 1
      BY <1>a, <3>1, Appended
    <3>3. \A k \in DOMAIN queue : queue[k].owner # "user" => queue[k].owner # owner
      BY <1>b, <3>1 DEF JobInv
    <3>4. \A k \in DOMAIN queue' : queue'[k].owner # "user" => tx'[queue'[k].owner].st = "saving"
      BY <1>b, <3>1, <3>2, <3>3 DEF JobInv
    <3>5. \A k, l \in DOMAIN queue' : queue'[k].owner = queue'[l].owner /\ queue'[k].owner # "user" => k = l
      BY <3>1, <3>2, <3>3 DEF JobInv
    <3> QED BY <3>4, <3>5 DEF JobInv
  <2> QED BY <2>1, <2>2, <2>3, <2>4 DEF OwningEffect
<1>4. CASE UNCHANGED vars
  BY <1>4 DEF vars, JobInv
<1>5. Saving => MovesOn \/ Answers
  BY SavingEffects DEF Effects
<1> QED BY <1>1, <1>2, <1>3, <1>4, <1>5, NextSplits

\* An answered save commits its transaction, takes it back or leaves it.
LEMMA AnswerShaped ==
  ASSUME TypeOK, TypeOK', JobInv, queue # <<>>,
         NEW status \in Status, NEW ref \in Reference, Answer(status, ref)
  PROVE  Idles \/ (\E o \in Owner : tx[o].st # "none" /\ (Closes(o) \/ TakesBack(o)))
<1> DEFINE o == First.owner
           t == tx[o]
<1>1. /\ clock \in Nat /\ tx \in [Owner -> Transaction] /\ o \in Owner \cup {"user"}
      /\ renamed' = renamed /\ mem' \in Memory
  BY HeadType DEF TypeOK, Answer, Save
<1>2. CASE o = "user"
  BY <1>1, <1>2 DEF Answer, Settle, Idles
<1>3. CASE o # "user"
  <2>1. o \in Owner /\ t.st = "saving" /\ t \in Transaction
    BY <1>1, <1>3, HeadType DEF JobInv, First
  <2>2. CASE status = "committed" /\ Commits(t, ref)
    <3>1. /\ tx' = [tx EXCEPT ![o] = NoTx] /\ UNCHANGED <<mem, clock>>
          /\ kept' = IF t.kind = "checkpoint"
                     THEN [kept EXCEPT ![t.chat] = t.next.row[t.chat].att] ELSE kept
      BY <1>3, <2>2 DEF Answer, Settle
    <3>2. answer'.status = "committed" /\ answer'.ref = ref
      BY <2>2 DEF Answer
    <3>3. t.kind = "checkpoint" => Owned(t) /\ Proof(t, ref)
      BY <2>2 DEF Commits
    <3>4. Closes(o)
      BY <1>1, <3>1, <3>2, <3>3 DEF Closes
    <3> QED BY <2>1, <3>4
  <2>3. CASE /\ ~(status = "committed" /\ Commits(t, ref))
             /\ status = "unknown" /\ (o = "turn" \/ (o = "bind" /\ Owned(t)))
    <3>1. tx' = [tx EXCEPT ![o].st = "latched"] /\ UNCHANGED <<mem, clock, kept>>
      BY <1>3, <2>3 DEF Answer, Settle
    <3>2. \A p \in Owner : /\ tx'[p].kind = tx[p].kind /\ tx'[p].chat = tx[p].chat
                           /\ tx'[p].before = tx[p].before /\ tx'[p].next = tx[p].next
                           /\ tx'[p].cap = tx[p].cap
                           /\ tx'[p].st = "none" <=> tx[p].st = "none"
      BY <1>1, <2>1, <3>1 DEF Transaction
    <3> QED BY <1>1, <3>1, <3>2 DEF Idles
  <2>4. CASE /\ ~(status = "committed" /\ Commits(t, ref))
             /\ ~(status = "unknown" /\ (o = "turn" \/ (o = "bind" /\ Owned(t))))
    <3>1. /\ tx' = [tx EXCEPT ![o] = NoTx] /\ mem' = Withdrawn(t, status)
          /\ clock' = clock + 1 /\ UNCHANGED kept
      BY <1>3, <2>4 DEF Answer, Settle
    <3>2. TookBack(t, Withdrawn(t, status)) /\ Withdrawn(t, status) \in Memory
      BY <2>1, WithdrawnRows, WithdrawnType
    <3>3. TakesBack(o)
      BY <1>1, <3>1, <3>2 DEF TakesBack
    <3> QED BY <2>1, <3>3
  <2> QED BY <2>2, <2>3, <2>4
<1> QED BY <1>2, <1>3

\* A change opens a transaction.
LEMMA BeginShaped ==
  ASSUME TypeOK, NEW o \in Owner, NEW kind \in Kinds(o) \cap Kind, Begin(o, kind)
  PROVE  Opens(o)
<1>1. /\ clock \in Nat /\ clock + 1 \in Nat /\ clock + 2 \in Nat /\ mem \in Memory
      /\ clock' = clock + 2 /\ tx[o].st = "none" /\ UNCHANGED <<kept, renamed>>
  BY SMTT(40) DEF Begin, TypeOK
<1>2. PICK c \in Chat :
        LET m == Changed(kind, c, mem, clock + 1)
            s == Synchronized(m, clock + 2)
        IN /\ tx' = [tx EXCEPT ![o] = [st |-> "saving", kind |-> kind, chat |-> c,
                                       before |-> mem, next |-> m, cap |-> auth]]
           /\ mem' = s
  BY DEF Begin
<1> DEFINE n == Changed(kind, c, mem, clock + 1)
           t == [st |-> "saving", kind |-> kind, chat |-> c, before |-> mem, next |-> n, cap |-> auth]
<1>k. kind \in Kind /\ kind \in Kinds(o)
  OBVIOUS
<1>m. n \in Memory
  BY <1>1, <1>k, ChangedType
<1>r. n.root = clock + 1
  <2>1. mem \in Memory /\ clock + 1 \in Nat
    BY <1>1
  <2> QED BY <1>k, <2>1, ChangedRows
<1>3. n \in Memory /\ n.root = clock + 1
  BY <1>m, <1>r
<1>4. tx' = [tx EXCEPT ![o] = t] /\ mem' = Synchronized(n, clock + 2)
  BY <1>2
<1>5. Synchronized(n, clock + 2).row = n.row /\ Synchronized(n, clock + 2).root \in {clock + 1, clock + 2}
  BY <1>1, <1>3, SynchronizedRows
<1>6. mem'.row = n.row /\ mem'.root > clock /\ mem'.root <= clock'
  BY <1>1, <1>4, <1>5
<1>7. clock' > clock /\ n = Changed(kind, c, mem, clock + 1)
  BY <1>1
<1> HIDE DEF n
<1> QED BY <1>1, <1>k, <1>3, <1>4, <1>6, <1>7 DEF Opens

\* The steps of the owners have their shapes.
LEMMA OwningShaped ==
  ASSUME TypeOK, TypeOK', Owning
  PROVE  Shaped
<1>t. clock \in Nat /\ mem \in Memory /\ tx \in [Owner -> Transaction]
  BY DEF TypeOK
<1>a. clock \in Nat /\ clock + 1 \in Nat /\ clock + 2 \in Nat /\ mem \in Memory /\ tx \in [Owner -> Transaction]
  BY <1>t
<1>b. \A m \in Memory : /\ Synchronized(m, clock + 2).row = m.row
                        /\ Synchronized(m, clock + 2).root \in {m.root, clock + 2}
  BY <1>a, SynchronizedRows
<1>1. CASE TurnBegins
  BY <1>1, BeginShaped DEF TurnBegins, Owner, Kinds, Kind, Shaped
<1>2. CASE BindBegins
  BY <1>2, BeginShaped DEF BindBegins, Owner, Kinds, Kind, Shaped
<1>3. CASE DrainBegins
  <2> DEFINE c == CHOOSE c \in Chat : TRUE
             m == Changed("ack", c, mem, clock + 1)
             t == [st |-> "saving", kind |-> "ack", chat |-> c, before |-> mem, next |-> m, cap |-> auth]
  <2>1. /\ mem' = m /\ tx' = [tx EXCEPT !["drain"] = t] /\ clock' = clock + 1
        /\ tx["drain"].st = "none" /\ UNCHANGED <<kept, renamed>>
    BY <1>3 DEF DrainBegins
  <2>2. c \in Chat
    BY ChatAssumption
  <2> HIDE DEF c
  <2>k. "ack" \in Kind
    BY DEF Kind
  <2>m. m \in Memory
    BY <1>a, <2>2, <2>k, ChangedType
  <2>r. m.root = clock + 1
    BY <1>a, <2>2, <2>k, ChangedRows
  <2>3. m \in Memory /\ m.root = clock + 1 /\ m = Changed("ack", c, mem, clock + 1)
    BY <2>m, <2>r
  <2> HIDE DEF m
  <2>4. "ack" \in Kinds("drain") /\ "drain" \in Owner
    BY DEF Kinds, Owner
  <2>5. mem'.row = m.row /\ mem'.root > clock /\ mem'.root <= clock' /\ clock' > clock
    BY <1>a, <2>1, <2>3
  <2>6. Opens("drain")
    BY <2>1, <2>2, <2>3, <2>4, <2>5 DEF Opens
  <2> QED BY <2>4, <2>6 DEF Shaped
<1>4. ASSUME NEW owner \in {"turn", "bind"}, Retry(owner) PROVE Idles
  <2>1. /\ owner \in Owner /\ tx[owner].st = "latched" /\ tx' = [tx EXCEPT ![owner].st = "saving"]
        /\ UNCHANGED <<kept, renamed>> /\ mem' = Synchronized(mem, clock + 2) /\ clock' = clock + 2
    BY <1>4 DEF Retry, PersistCurrent, Owner
  <2>2. \A p \in Owner : /\ tx'[p].kind = tx[p].kind /\ tx'[p].chat = tx[p].chat
                         /\ tx'[p].before = tx[p].before /\ tx'[p].next = tx[p].next
                         /\ tx'[p].cap = tx[p].cap
                         /\ tx'[p].st = "none" <=> tx[p].st = "none"
    BY <1>a, <2>1 DEF Transaction
  <2>3. mem'.row = mem.row /\ (mem'.root = mem.root \/ (mem'.root > clock /\ mem'.root <= clock'))
    BY <1>a, <1>b, <2>1
  <2> QED BY <2>1, <2>2, <2>3 DEF Idles
<1>5. CASE Rename
  <2>1. PICK c \in Chat : /\ PersistCurrent("user", Renamed(c))
                          /\ renamed' = [renamed EXCEPT ![c] = clock + 1]
    BY <1>5 DEF Rename, Renamed
  <2>2. /\ Renamed(c) \in Memory /\ Renamed(c).root = clock + 1
        /\ \A d \in Chat \ {c} : Renamed(c).row[d] = mem.row[d]
        /\ Renamed(c).row[c] = [obj |-> clock + 1, att |-> mem.row[c].att, body |-> clock + 1]
    BY <1>a, RenamedRows
  <2>3. mem' = Synchronized(Renamed(c), clock + 2) /\ clock' = clock + 2
    BY <2>1 DEF PersistCurrent
  <2>4. mem'.row = Renamed(c).row /\ mem'.root > clock /\ mem'.root <= clock'
    BY <1>a, <1>b, <2>2, <2>3
  <2>5. Renamed(c).row = [mem.row EXCEPT ![c] = [obj |-> clock + 1, att |-> mem.row[c].att, body |-> clock + 1]]
    <3>1. Renamed(c).row \in [Chat -> [obj : Nat, att : Nat, body : Nat]]
      BY <2>2 DEF Memory
    <3>2. mem.row \in [Chat -> [obj : Nat, att : Nat, body : Nat]]
      BY <1>a DEF Memory
    <3> QED BY <2>2, <3>1, <3>2
  <2>6. UNCHANGED <<kept, tx>> /\ clock' > clock
    BY <1>a, <1>5, <2>3 DEF Rename
  <2>7. Renames
    BY <2>1, <2>4, <2>5, <2>6 DEF Renames
  <2> QED BY <2>7 DEF Shaped
<1>6. CASE Prefer
  BY <1>a, <1>6 DEF Prefer, Shaped, Idles
<1>7. CASE SettingsSave
  <2>1. /\ mem' = [mem EXCEPT !.prefs = 1 - choice, !.root = clock + 1] /\ clock' = clock + 1
        /\ UNCHANGED <<tx, kept, renamed>>
    BY <1>7 DEF SettingsSave
  <2>2. mem'.row = mem.row /\ mem'.root = clock + 1
    BY <1>a, <2>1 DEF Memory
  <2> QED BY <1>a, <2>1, <2>2 DEF Shaped, Idles
<1>8. CASE Restore
  <2>1. /\ UNCHANGED <<kept, tx, disk, log>> /\ clock' = clock + 1 /\ tx["turn"].st = "none"
        /\ mem' = IF Document(mem) = disk.doc THEN mem ELSE Hydrated(disk.doc, clock + 1)
        /\ renamed' = IF Document(mem) = disk.doc THEN renamed
                      ELSE [c \in Chat |-> disk.doc.row[c].body]
    BY <1>8 DEF Restore, native
  <2>2. CASE Document(mem) = disk.doc
    BY <2>1, <2>2 DEF Shaped, Idles
  <2>3. CASE Document(mem) # disk.doc
    BY <2>1, <2>3 DEF Shaped, Hydrates
  <2> QED BY <2>2, <2>3
<1>9. CASE Relaunch
  <2>1. Hydrates
    BY <1>9, NoTxType DEF Relaunch, Hydrates, native, Owner
  <2> QED BY <2>1 DEF Shaped
<1>10. Idles => Shaped
  BY DEF Shaped
<1> QED BY <1>1, <1>2, <1>3, <1>4, <1>5, <1>6, <1>7, <1>8, <1>9, <1>10 DEF Owning

\* Every step has a shape.
LEMMA Shapes == ASSUME TypeOK, TypeOK', JobInv, [Next]_vars PROVE Shaped
<1>1. CASE Saving
  <2>1. Effects
    BY <1>1, SavingEffects
  <2>2. CASE MovesOn
    BY <2>2 DEF MovesOn, Quiet, Shaped, Idles
  <2>3. CASE Answers
    BY <2>1, <2>3, AnswerShaped DEF Effects, Answers, Shaped
  <2> QED BY <2>1, <2>2, <2>3 DEF Effects
<1>2. CASE Owning
  BY <1>2, OwningShaped
<1>3. CASE UNCHANGED vars
  BY <1>3 DEF vars, Shaped, Idles
<1> QED BY <1>1, <1>2, <1>3, NextSplits

\* Every step keeps the kinds apart.
LEMMA KindStep == ASSUME TypeOK, TypeOK', KindInv, Shaped PROVE KindInv'
<1>a. tx \in [Owner -> Transaction]
  BY DEF TypeOK
<1>1. CASE Idles
  BY <1>1 DEF Idles, KindInv
<1>2. CASE Renames
  BY <1>2 DEF Renames, KindInv
<1>3. CASE Hydrates
  BY <1>3, NoTxType DEF Hydrates, KindInv
<1>4. ASSUME NEW o \in Owner, Closes(o) \/ TakesBack(o) PROVE KindInv'
  BY <1>4, <1>a, NoTxType DEF Closes, TakesBack, KindInv
<1>5. ASSUME NEW o \in Owner, Opens(o) PROVE KindInv'
  BY <1>5, <1>a DEF Opens, KindInv
<1> QED BY <1>1, <1>2, <1>3, <1>4, <1>5 DEF Shaped

----------------------------------------------------------------------------
(***************************************************************************)
(* Stamps: whatever a step makes new is new                                *)
(***************************************************************************)
\* The stamps of a memory are no newer than n.
StampsOf(m, n) ==
  m.root <= n /\ \A c \in Chat : m.row[c].obj <= n /\ m.row[c].att <= n /\ m.row[c].body <= n
\* The stamps of a document are no newer than n.
DocStamps(d, n) == \A c \in Chat : d.row[c].att <= n /\ d.row[c].body <= n

\* Nothing anywhere has a stamp that has not been given out.
StampInv ==
  /\ StampsOf(mem, clock)
  /\ \A o \in Owner : StampsOf(tx[o].before, clock) /\ StampsOf(tx[o].next, clock)
  /\ \A c \in Chat : renamed[c] <= clock
  /\ \A i \in DOMAIN log : DocStamps(log[i].doc, clock)
  /\ \A k \in DOMAIN queue : DocStamps(queue[k].cand, clock)

\* The parts of a row are numbers.
LEMMA RowTypes ==
  ASSUME NEW m \in Memory
  PROVE  /\ m.root \in Nat
         /\ \A c \in Chat : m.row[c].obj \in Nat /\ m.row[c].att \in Nat /\ m.row[c].body \in Nat
  BY DEF Memory

\* A memory's stamps stay old as the clock advances,
LEMMA StampsLast ==
  ASSUME NEW m \in Memory, NEW n \in Nat, NEW k \in Nat, n <= k, StampsOf(m, n)
  PROVE  StampsOf(m, k)
  BY RowTypes DEF StampsOf

\* and so do a document's.
LEMMA DocStampsLast ==
  ASSUME NEW d \in Doc, NEW n \in Nat, NEW k \in Nat, n <= k, DocStamps(d, n)
  PROVE  DocStamps(d, k)
<1>1. \A c \in Chat : d.row[c].att \in Nat /\ d.row[c].body \in Nat
  BY DEF Doc
<1> QED BY <1>1 DEF DocStamps

\* The rows of a document are those of the memory it was made from.
LEMMA DocumentRows ==
  ASSUME NEW m
  PROVE  \A c \in Chat : Document(m).row[c].att = m.row[c].att /\ Document(m).row[c].body = m.row[c].body
  BY DEF Document

\* The rows of memory made from a document, in objects of their own.
LEMMA HydratedRows ==
  ASSUME NEW d, NEW s
  PROVE  /\ Hydrated(d, s).root = s
         /\ \A c \in Chat : /\ Hydrated(d, s).row[c].obj = s
                            /\ Hydrated(d, s).row[c].att = d.row[c].att
                            /\ Hydrated(d, s).row[c].body = d.row[c].body
  BY DEF Hydrated

\* Where the candidates in the queue and the documents in the history come from.
\* The k-th save of the queue after a step is the k-th or the next one before
\* it, or a new one at the end with what memory holds after the step.
QueueMoves ==
  \/ /\ DOMAIN queue' = DOMAIN queue
     /\ \A k \in DOMAIN queue : queue'[k].cand = queue[k].cand
  \/ \A k \in DOMAIN queue' : k + 1 \in DOMAIN queue /\ queue'[k].cand = queue[k + 1].cand
  \/ /\ UNCHANGED log
     /\ \A k \in DOMAIN queue : queue'[k].cand = queue[k].cand
     /\ \A k \in DOMAIN queue' : k \in DOMAIN queue \/ (queue'[k].cand = Document(mem') /\ k = Len(queue) + 1)

\* The history keeps what it has; what it gains is the candidate at the head.
LogMoves ==
  /\ \A i \in DOMAIN log : i \in DOMAIN log' /\ log'[i] = log[i]
  /\ \A i \in DOMAIN log' : i \in DOMAIN log \/ (1 \in DOMAIN queue /\ log'[i].doc = queue[1].cand /\ i = Len(log) + 1)

\* Every step moves the queue and the history so.
LEMMA Moves ==
  ASSUME TypeOK, TypeOK', LogInv, [Next]_vars
  PROVE  QueueMoves /\ LogMoves
<1>a. queue \in Seq(Save) /\ queue' \in Seq(Save) /\ log \in Seq(Written)
  BY DEF TypeOK
<1>1. CASE Saving
  <2>1. Effects /\ queue # <<>> /\ 1 \in DOMAIN queue
    BY <1>1, SavingEffects, HeadType DEF Effects
  <2>2. LogMoves
    <3>1. \A i \in DOMAIN log' : i \in DOMAIN log \/ (log'[i].doc = queue[1].cand /\ i = Len(log) + 1)
      <4>1. CASE UNCHANGED log
        BY <4>1
      <4>2. CASE Admitted /\ Stored
        <5>1. log' = Append(log, Commit(First.op, First.cand))
          BY <4>2 DEF Stored
        <5>2. Commit(First.op, First.cand) \in Written
          BY <2>1, HeadType, EnvelopeType, Types DEF Save
        <5>3. Commit(First.op, First.cand).doc = queue[1].cand
          BY DEF Commit, First
        <5> HIDE DEF Commit
        <5> QED BY <1>a, <5>1, <5>2, <5>3, Appended
      <4> QED BY <2>1, <4>1, <4>2 DEF Effects, NativeStep, Buried, native
    <3> QED BY <2>1, <3>1, LogGrows DEF LogMoves, Effects
  <2>3. CASE MovesOn
    <3>1. PICK j \in Save : j.cand = First.cand /\ Advance(j)
      BY <2>3 DEF MovesOn
    <3>2. /\ DOMAIN queue' = DOMAIN queue /\ queue'[1] = j
          /\ \A k \in DOMAIN queue : k # 1 => queue'[k] = queue[k]
      BY <1>a, <2>1, <3>1, HeadReplaced DEF Advance
    <3> QED BY <2>2, <3>1, <3>2 DEF QueueMoves, First
  <2>4. CASE Answers
    <3>1. queue' = Tail(queue)
      BY <2>4 DEF Answers, Answer
    <3> QED BY <1>a, <2>1, <2>2, <3>1, TailProperties DEF QueueMoves
  <2> QED BY <2>1, <2>3, <2>4 DEF Effects
<1>2. CASE Owning
  <2>1. OwningEffect
    BY <1>2, OwningEffects
  <2>2. LogMoves /\ UNCHANGED log
    BY <2>1 DEF OwningEffect, LogMoves
  <2>3. CASE queue' = <<>>
    BY <2>2, <2>3 DEF QueueMoves
  <2>4. CASE UNCHANGED queue
    BY <2>2, <2>4 DEF QueueMoves
  <2>5. CASE Appends
    <3>1. PICK job \in Save : job.cand = Document(mem') /\ queue' = Append(queue, job)
      <4>1. PICK owner \in Owner \cup {"user"}, m \in Memory, must \in Reference :
              mem' = m /\ queue' = Append(queue, Job(owner, m, must))
        BY <2>5 DEF Appends
      <4>2. Job(owner, m, must) \in Save /\ Job(owner, m, must).cand = Document(m)
        BY JobType DEF Job
      <4> QED BY <4>1, <4>2
    <3> QED BY <1>a, <2>2, <3>1, Appended DEF QueueMoves
  <2> QED BY <2>1, <2>3, <2>4, <2>5 DEF OwningEffect
<1>3. CASE UNCHANGED vars
  BY <1>3 DEF vars, QueueMoves, LogMoves
<1> QED BY <1>1, <1>2, <1>3, NextSplits

\* An owner without a transaction holds no stamp.
LEMMA NoTxStamps ==
  ASSUME NEW n \in Nat
  PROVE  StampsOf(NoTx.before, n) /\ StampsOf(NoTx.next, n)
<1>1. NoTx.before = Hydrated(Blank, 0) /\ NoTx.next = Hydrated(Blank, 0)
  BY DEF NoTx
<1>2. \A c \in Chat : Blank.row[c].att = 0 /\ Blank.row[c].body = 0
  BY DEF Blank
<1>3. 0 <= n
  OBVIOUS
<1> QED BY <1>1, <1>2, <1>3, HydratedRows DEF StampsOf

\* The stamps of what a transaction that is taken back leaves.
LEMMA TookBackStamps ==
  ASSUME clock \in Nat, mem \in Memory, NEW t \in Transaction, NEW m \in Memory, TookBack(t, m),
         StampsOf(mem, clock), StampsOf(t.before, clock)
  PROVE  StampsOf(m, clock + 1)
<1>1. clock + 1 \in Nat /\ clock <= clock + 1 /\ t.before \in Memory /\ t.chat \in Chat
  BY DEF Transaction
<1>2. StampsOf(mem, clock + 1) /\ StampsOf(t.before, clock + 1)
  BY <1>1, StampsLast
<1> HIDE DEF TookBack
<1>3. CASE m = mem \/ m = t.before
  BY <1>2, <1>3
<1>4. CASE /\ m.root = clock + 1
           /\ m.row[t.chat] = t.before.row[t.chat]
           /\ \A d \in Chat \ {t.chat} : m.row[d] = mem.row[d]
  <2>1. m.root <= clock + 1
    BY <1>1, <1>4
  <2>2. \A c \in Chat : /\ m.row[c].obj <= clock + 1 /\ m.row[c].att <= clock + 1
                          /\ m.row[c].body <= clock + 1
    BY <1>2, <1>4 DEF StampsOf
  <2> QED BY <2>1, <2>2 DEF StampsOf
<1>5. CASE /\ m.root = clock + 1
           /\ m.row[t.chat].att = t.before.row[t.chat].att
           /\ m.row[t.chat].obj = clock + 1
           /\ m.row[t.chat].body = mem.row[t.chat].body
           /\ \A d \in Chat \ {t.chat} : m.row[d] = mem.row[d]
  <2>1. m.root <= clock + 1 /\ m.row[t.chat].obj <= clock + 1
    BY <1>1, <1>5
  <2>2. \A c \in Chat : /\ m.row[c].obj <= clock + 1 /\ m.row[c].att <= clock + 1
                          /\ m.row[c].body <= clock + 1
    BY <1>1, <1>2, <1>5, <2>1 DEF StampsOf
  <2> QED BY <2>1, <2>2 DEF StampsOf
<1>6. CASE m.root = clock + 1 /\ m.row = mem.row
  <2>1. m.root <= clock + 1
    BY <1>1, <1>6
  <2> QED BY <1>2, <1>6, <2>1 DEF StampsOf
<1> QED BY <1>3, <1>4, <1>5, <1>6 DEF TookBack

\* The stamps of a change.
LEMMA ChangedStamps ==
  ASSUME clock \in Nat, mem \in Memory, StampsOf(mem, clock), NEW k \in Nat, k > clock,
         NEW c \in Chat, NEW kind \in Kind, NEW m \in Memory, m = Changed(kind, c, mem, clock + 1)
  PROVE  StampsOf(m, k)
<1>1. clock + 1 \in Nat /\ clock <= k /\ clock + 1 <= k
  OBVIOUS
<1>2. StampsOf(mem, k)
  BY <1>1, StampsLast
<1>3. /\ m.root = clock + 1
      /\ \A d \in Chat : d # c \/ kind = "ack" => m.row[d] = mem.row[d]
      /\ kind # "ack" => m.row[c].obj = clock + 1
      /\ m.row[c].att = IF kind \in {"prepare", "checkpoint"} THEN clock + 1 ELSE mem.row[c].att
      /\ m.row[c].body = IF kind \in {"prepare", "bind"} THEN clock + 1 ELSE mem.row[c].body
  BY <1>1, ChangedRows
<1>4. \A d \in Chat : m.row[d].obj <= k /\ m.row[d].att <= k /\ m.row[d].body <= k
  BY <1>1, <1>2, <1>3 DEF StampsOf
<1>5. m.root <= k
  BY <1>1, <1>3
<1> QED BY <1>4, <1>5 DEF StampsOf

\* Memory, the transactions and the edits after a step have stamps given out by then.
LEMMA MemoryStamps ==
  ASSUME TypeOK, TypeOK', LogInv, KindInv, StampInv, Shaped, clock' >= clock
  PROVE  /\ StampsOf(mem', clock')
         /\ \A o \in Owner : StampsOf(tx'[o].before, clock') /\ StampsOf(tx'[o].next, clock')
         /\ \A c \in Chat : renamed'[c] <= clock'
<1>a. /\ clock \in Nat /\ clock' \in Nat /\ mem \in Memory /\ mem' \in Memory
      /\ tx \in [Owner -> Transaction] /\ tx' \in [Owner -> Transaction]
      /\ renamed \in [Chat -> Nat] /\ clock <= clock'
  BY DEF TypeOK
<1>b. \A o \in Owner : tx[o].before \in Memory /\ tx[o].next \in Memory
  BY <1>a DEF Transaction
<1>c. StampsOf(mem, clock')
  BY <1>a, StampsLast DEF StampInv
<1>d. \A o \in Owner : StampsOf(tx[o].before, clock') /\ StampsOf(tx[o].next, clock')
  BY <1>a, <1>b, StampsLast DEF StampInv
<1>e. \A c \in Chat : renamed[c] <= clock'
  <2>1. \A c \in Chat : renamed[c] \in Nat /\ renamed[c] <= clock
    BY <1>a DEF StampInv
  <2> QED BY <1>a, <2>1
<1>1. CASE Idles
  <2>1. mem'.root <= clock' /\ mem'.row = mem.row
    BY <1>1, <1>c DEF Idles, StampsOf
  <2>2. StampsOf(mem', clock')
    BY <1>c, <2>1 DEF StampsOf
  <2> QED BY <1>1, <1>d, <1>e, <2>2 DEF Idles
<1>2. CASE Renames
  <2>1. PICK c \in Chat :
          /\ mem'.row = [mem.row EXCEPT ![c] = [obj |-> clock + 1, att |-> mem.row[c].att, body |-> clock + 1]]
          /\ mem'.root <= clock' /\ renamed' = [renamed EXCEPT ![c] = clock + 1]
    BY <1>2 DEF Renames
  <2>2. clock + 1 <= clock' /\ tx' = tx
    BY <1>2, <1>a DEF Renames
  <2>3. mem.row \in [Chat -> [obj : Nat, att : Nat, body : Nat]]
    BY <1>a DEF Memory
  <2>4. \A d \in Chat : mem'.row[d].obj <= clock' /\ mem'.row[d].att <= clock' /\ mem'.row[d].body <= clock'
    BY <1>c, <2>1, <2>2, <2>3 DEF StampsOf
  <2>5. StampsOf(mem', clock')
    BY <2>1, <2>4 DEF StampsOf
  <2>6. \A d \in Chat : renamed'[d] <= clock'
    BY <1>a, <1>e, <2>1, <2>2
  <2> QED BY <1>d, <2>2, <2>5, <2>6
<1>3. CASE Hydrates
  <2>1. /\ mem' = Hydrated(disk.doc, clock + 1) /\ clock' = clock + 1
        /\ renamed' = [c \in Chat |-> disk.doc.row[c].body]
        /\ tx' = tx \/ tx' = [o \in Owner |-> NoTx]
    BY <1>3 DEF Hydrates
  <2>2. DocStamps(disk.doc, clock')
    <3>1. Len(log) \in DOMAIN log /\ disk.doc = log[Len(log)].doc
      <4>1. log \in Seq(Written) /\ Len(log) >= 1 /\ disk.doc = log[Len(log)].doc
        BY DEF LogInv, TypeOK
      <4> QED BY <4>1
    <3>2. DocStamps(disk.doc, clock) /\ disk.doc \in Doc
      BY <3>1 DEF StampInv, TypeOK
    <3> QED BY <1>a, <3>2, DocStampsLast
  <2>3. StampsOf(mem', clock')
    BY <1>a, <2>1, <2>2, HydratedRows DEF StampsOf, DocStamps
  <2>4. \A c \in Chat : renamed'[c] <= clock'
    BY <2>1, <2>2 DEF DocStamps
  <2>5. \A o \in Owner : StampsOf(tx'[o].before, clock') /\ StampsOf(tx'[o].next, clock')
    BY <1>a, <1>d, <2>1, NoTxStamps
  <2> QED BY <2>3, <2>4, <2>5
<1>n. StampsOf(NoTx.before, clock') /\ StampsOf(NoTx.next, clock')
  BY <1>a, NoTxStamps
<1>4. ASSUME NEW o \in Owner, Closes(o)
      PROVE  /\ StampsOf(mem', clock') /\ renamed' = renamed
             /\ \A p \in Owner : StampsOf(tx'[p].before, clock') /\ StampsOf(tx'[p].next, clock')
  BY <1>4, <1>a, <1>c, <1>d, <1>n DEF Closes
<1>5. ASSUME NEW o \in Owner, TakesBack(o)
      PROVE  /\ StampsOf(mem', clock') /\ renamed' = renamed
             /\ \A p \in Owner : StampsOf(tx'[p].before, clock') /\ StampsOf(tx'[p].next, clock')
  <2>1. PICK m \in Memory : mem' = m /\ TookBack(tx[o], m)
    BY <1>5 DEF TakesBack
  <2>2. clock' = clock + 1 /\ renamed' = renamed /\ tx' = [tx EXCEPT ![o] = NoTx]
    BY <1>5 DEF TakesBack
  <2>3. tx[o] \in Transaction /\ StampsOf(mem, clock) /\ StampsOf(tx[o].before, clock)
    BY <1>a DEF StampInv
  <2>4. StampsOf(m, clock + 1)
    BY <1>a, <2>1, <2>3, TookBackStamps
  <2> QED BY <1>a, <1>d, <1>n, <2>1, <2>2, <2>4
<1>6. ASSUME NEW o \in Owner, Opens(o)
      PROVE  /\ StampsOf(mem', clock') /\ renamed' = renamed
             /\ \A p \in Owner : StampsOf(tx'[p].before, clock') /\ StampsOf(tx'[p].next, clock')
  <2>1. clock' > clock /\ renamed' = renamed
    BY <1>6 DEF Opens
  <2>2. PICK kind \in Kinds(o), c \in Chat, n \in Memory :
          /\ n = Changed(kind, c, mem, clock + 1)
          /\ tx' = [tx EXCEPT ![o] = [st |-> "saving", kind |-> kind, chat |-> c,
                                      before |-> mem, next |-> n, cap |-> auth]]
          /\ mem'.row = n.row /\ mem'.root <= clock'
    BY <1>6 DEF Opens
  <2>3. kind \in Kind
    BY DEF Kinds, Kind, Owner
  <2>4. StampsOf(mem, clock)
    BY DEF StampInv
  <2>5. StampsOf(n, clock')
    BY <1>a, <2>1, <2>2, <2>3, <2>4, ChangedStamps
  <2>6. StampsOf(mem', clock')
    BY <2>2, <2>5 DEF StampsOf
  <2>7. \A p \in Owner : StampsOf(tx'[p].before, clock') /\ StampsOf(tx'[p].next, clock')
    BY <1>a, <1>c, <1>d, <2>2, <2>5
  <2> QED BY <2>1, <2>6, <2>7
<1> QED BY <1>1, <1>2, <1>3, <1>4, <1>5, <1>6, <1>e DEF Shaped

\* And so have the queue and the history.
LEMMA StampStep ==
  ASSUME TypeOK, TypeOK', LogInv, KindInv, StampInv, Shaped, QueueMoves, LogMoves, clock' >= clock
  PROVE  StampInv'
<1>a. /\ clock \in Nat /\ clock' \in Nat /\ clock <= clock' /\ mem' \in Memory
      /\ queue \in Seq(Save) /\ log \in Seq(Written)
  BY DEF TypeOK
<1>1. /\ StampsOf(mem', clock')
      /\ \A o \in Owner : StampsOf(tx'[o].before, clock') /\ StampsOf(tx'[o].next, clock')
      /\ \A c \in Chat : renamed'[c] <= clock'
  BY MemoryStamps
<1>2. \A i \in DOMAIN log : DocStamps(log[i].doc, clock')
  <2>1. \A i \in DOMAIN log : log[i].doc \in Doc
    <3>1. \A i \in DOMAIN log : log[i] \in Written
      BY <1>a
    <3> QED BY <3>1 DEF Written
  <2> QED BY <1>a, <2>1, DocStampsLast DEF StampInv
<1>3. \A k \in DOMAIN queue : DocStamps(queue[k].cand, clock')
  <2>1. \A k \in DOMAIN queue : queue[k].cand \in Doc
    <3>1. \A k \in DOMAIN queue : queue[k] \in Save
      BY <1>a
    <3> QED BY <3>1 DEF Save
  <2> QED BY <1>a, <2>1, DocStampsLast DEF StampInv
<1>4. DocStamps(Document(mem'), clock')
  BY <1>1, DocumentRows DEF StampsOf, DocStamps
<1>5. \A i \in DOMAIN log' : DocStamps(log'[i].doc, clock')
  BY <1>2, <1>3 DEF LogMoves
<1>6. \A k \in DOMAIN queue' : DocStamps(queue'[k].cand, clock')
  BY <1>3, <1>4 DEF QueueMoves
<1> QED BY <1>1, <1>5, <1>6 DEF StampInv

----------------------------------------------------------------------------
(***************************************************************************)
(* The user's edits                                                        *)
(***************************************************************************)
\* The binding's change is still in the row of its conversation in the memory m.
BindHolds(m) ==
  /\ tx["bind"].st # "none"
  /\ m.row[tx["bind"].chat].obj = tx["bind"].next.row[tx["bind"].chat].obj
\* The row that the binding would put back.
BindRow == tx["bind"].before.row[tx["bind"].chat]

\* The memory m has every edit, and so has the row the binding could put into it.
EditSafe(m) ==
  /\ \A c \in Chat : m.row[c].body >= renamed[c]
  /\ BindHolds(m) => BindRow.body >= renamed[tx["bind"].chat]

\* Memory is safe, and so is the memory a preparation could put back.
EditInv ==
  /\ EditSafe(mem)
  /\ tx["turn"].st # "none" /\ tx["turn"].kind = "prepare" /\ mem.root = tx["turn"].next.root =>
       EditSafe(tx["turn"].before)

\* Each owner's transaction has its type.
LEMMA OwnerTypes ==
  ASSUME TypeOK
  PROVE  \A o \in Owner : /\ tx[o] \in Transaction /\ tx[o].before \in Memory
                          /\ tx[o].next \in Memory /\ tx[o].chat \in Chat
BY DEF TypeOK, Transaction

\* Accepting a save leaves the edits safe,
LEMMA EditClose ==
  ASSUME TypeOK, EditInv, NEW o \in Owner, Closes(o)
  PROVE  EditInv'
<1>1. /\ mem' = mem /\ renamed' = renamed /\ tx' = [tx EXCEPT ![o] = NoTx] /\ tx \in [Owner -> Transaction]
  BY DEF Closes, TypeOK
<1>2. CASE o = "bind"
  <2>1. tx'["bind"].st = "none" /\ tx'["turn"] = tx["turn"]
    BY <1>1, <1>2, NoTxType DEF Owner
  <2>2. \A m : EditSafe(m) => EditSafe(m)'
    BY <1>1, <2>1 DEF EditSafe, BindHolds
  <2> QED BY <1>1, <2>1, <2>2 DEF EditInv, EditSafe, BindHolds
<1>3. CASE o # "bind"
  <2>1. tx'["bind"] = tx["bind"] /\ (tx'["turn"] = tx["turn"] \/ tx'["turn"].st = "none")
    BY <1>1, <1>3, NoTxType DEF Owner
  <2> QED BY <1>1, <2>1 DEF EditInv, EditSafe, BindHolds, BindRow
<1> QED BY <1>2, <1>3

\* taking a change back does,
LEMMA EditTakeBack ==
  ASSUME TypeOK, TypeOK', KindInv, StampInv, EditInv, NEW o \in Owner, tx[o].st # "none", TakesBack(o)
  PROVE  EditInv'
<1>a. /\ renamed' = renamed /\ clock' = clock + 1 /\ tx' = [tx EXCEPT ![o] = NoTx]
      /\ tx \in [Owner -> Transaction] /\ clock \in Nat /\ mem \in Memory /\ mem' \in Memory
      /\ TookBack(tx[o], mem')
  BY DEF TakesBack, TypeOK
<1>b. /\ tx["bind"].next.row[tx["bind"].chat].obj <= clock
      /\ tx["turn"].next.root <= clock
      /\ tx["bind"].next.row[tx["bind"].chat].obj \in Nat /\ tx["turn"].next.root \in Nat
      /\ tx["bind"].chat \in Chat
  BY OwnerTypes, RowTypes DEF StampInv, StampsOf, Owner
<1>1. CASE o = "bind"
  <2>1. tx'["bind"].st = "none" /\ tx'["turn"] = tx["turn"] /\ tx["bind"].kind = "bind"
    BY <1>a, <1>1, NoTxType DEF Owner, KindInv, Kinds
  <2>2. mem' = mem \/ (mem'.root = clock + 1 /\ \A c \in Chat : mem'.row[c].body >= renamed[c])
    <3>1. CASE mem' = mem
      BY <3>1
    <3>2. CASE /\ Owned(tx["bind"]) /\ mem'.root = clock + 1
               /\ mem'.row[tx["bind"].chat] = tx["bind"].before.row[tx["bind"].chat]
               /\ \A d \in Chat \ {tx["bind"].chat} : mem'.row[d] = mem.row[d]
      <4>1. BindHolds(mem)
        BY <1>1, <2>1, <3>2 DEF Owned, BindHolds
      <4> QED BY <3>2, <4>1 DEF EditInv, EditSafe, BindRow
    <3> QED BY <1>a, <1>1, <2>1, <3>1, <3>2 DEF TookBack
  <2>3. mem'.root = tx["turn"].next.root => mem' = mem
    BY <1>a, <1>b, <2>2
  <2> QED BY <1>a, <2>1, <2>2, <2>3 DEF EditInv, EditSafe, BindHolds, BindRow
<1>2. CASE o = "turn"
  <2>1. tx'["turn"].st = "none" /\ tx'["bind"] = tx["bind"] /\ tx["turn"].kind # "bind"
    BY <1>a, <1>2, NoTxType DEF Owner, KindInv, Kinds
  <2>2. EditSafe(mem')
    <3>1. CASE mem' = mem
      BY <3>1 DEF EditInv
    <3>2. CASE tx["turn"].kind = "prepare" /\ Owned(tx["turn"]) /\ mem' = tx["turn"].before
      BY <1>2, <3>2 DEF Owned, EditInv
    <3>3. CASE /\ mem'.row[tx["turn"].chat].obj = clock + 1
               /\ mem'.row[tx["turn"].chat].body = mem.row[tx["turn"].chat].body
               /\ \A d \in Chat \ {tx["turn"].chat} : mem'.row[d] = mem.row[d]
      <4>1. \A c \in Chat : mem'.row[c].body = mem.row[c].body
        BY <3>3
      <4>2. BindHolds(mem') => BindHolds(mem)
        BY <1>a, <1>b, <3>3 DEF BindHolds
      <4> QED BY <4>1, <4>2 DEF EditInv, EditSafe
    <3>4. CASE mem'.row = mem.row
      BY <3>4 DEF EditInv, EditSafe, BindHolds
    <3> QED BY <1>a, <1>2, <2>1, <3>1, <3>2, <3>3, <3>4 DEF TookBack
  <2> QED BY <1>a, <2>1, <2>2 DEF EditInv, EditSafe, BindHolds, BindRow
<1>3. CASE o = "drain"
  <2>1. tx'["turn"] = tx["turn"] /\ tx'["bind"] = tx["bind"] /\ tx["drain"].kind = "ack"
    BY <1>a, <1>3 DEF Owner, KindInv, Kinds
  <2>2. mem' = mem \/ (mem'.root = clock + 1 /\ mem'.row = mem.row)
    BY <1>a, <1>3, <2>1 DEF TookBack
  <2>3. mem'.root = tx["turn"].next.root => mem' = mem
    BY <1>a, <1>b, <2>2
  <2> QED BY <1>a, <2>1, <2>2, <2>3 DEF EditInv, EditSafe, BindHolds, BindRow
<1> QED BY <1>1, <1>2, <1>3 DEF Owner

\* The rows and the transactions after an owner's change.
LEMMA OpensRows ==
  ASSUME TypeOK, TypeOK', StampInv, NEW o \in Owner, Opens(o)
  PROVE  \E kind \in Kinds(o) \cap Kind, c \in Chat, n \in Memory :
           /\ tx' = [tx EXCEPT ![o] = [st |-> "saving", kind |-> kind, chat |-> c,
                                       before |-> mem, next |-> n, cap |-> auth]]
           /\ mem'.row = n.row /\ mem'.root > clock
           /\ \A d \in Chat : d # c \/ kind = "ack" => n.row[d] = mem.row[d]
           /\ kind # "ack" => n.row[c].obj = clock + 1
           /\ n.row[c].att = IF kind \in {"prepare", "checkpoint"} THEN clock + 1 ELSE mem.row[c].att
           /\ n.row[c].body = IF kind \in {"prepare", "bind"} THEN clock + 1 ELSE mem.row[c].body
<1>1. clock \in Nat /\ clock + 1 \in Nat /\ mem \in Memory
  <2>1. clock \in Nat /\ mem \in Memory
    BY DEF TypeOK
  <2> QED BY <2>1
<1>2. PICK kind \in Kinds(o), c \in Chat, n \in Memory :
        /\ n = Changed(kind, c, mem, clock + 1)
        /\ tx' = [tx EXCEPT ![o] = [st |-> "saving", kind |-> kind, chat |-> c,
                                    before |-> mem, next |-> n, cap |-> auth]]
        /\ mem'.row = n.row /\ mem'.root > clock
  BY DEF Opens
<1>3. kind \in Kind
  BY DEF Kinds, Kind, Owner
<1>4. /\ \A d \in Chat : d # c \/ kind = "ack" => n.row[d] = mem.row[d]
      /\ kind # "ack" => n.row[c].obj = clock + 1
      /\ n.row[c].att = IF kind \in {"prepare", "checkpoint"} THEN clock + 1 ELSE mem.row[c].att
      /\ n.row[c].body = IF kind \in {"prepare", "bind"} THEN clock + 1 ELSE mem.row[c].body
  BY <1>1, <1>2, <1>3, ChangedRows
<1> QED BY <1>2, <1>3, <1>4

\* The stamps that the invariants about rows compare.
LEMMA RowStamps ==
  ASSUME TypeOK, StampInv
  PROVE  /\ clock \in Nat /\ mem \in Memory /\ tx \in [Owner -> Transaction]
         /\ tx["bind"].chat \in Chat /\ tx["turn"].chat \in Chat
         /\ tx["turn"].before \in Memory
         /\ tx["bind"].next.row[tx["bind"].chat].obj \in 0 .. clock
         /\ tx["turn"].next.root \in 0 .. clock
         /\ \A c \in Chat : /\ mem.row[c].obj \in 0 .. clock /\ mem.row[c].att \in 0 .. clock
                            /\ mem.row[c].body \in 0 .. clock
                            /\ tx["turn"].before.row[c].obj \in 0 .. clock
                            /\ renamed[c] \in 0 .. clock
<1>1. clock \in Nat /\ mem \in Memory /\ tx \in [Owner -> Transaction] /\ renamed \in [Chat -> Nat]
  BY DEF TypeOK
<1>2. "turn" \in Owner /\ "bind" \in Owner
  BY DEF Owner
<1>3. \A o \in Owner : tx[o].before \in Memory /\ tx[o].next \in Memory /\ tx[o].chat \in Chat
  BY OwnerTypes
<1>4. \A m \in Memory : StampsOf(m, clock) =>
        /\ m.root \in 0 .. clock
        /\ \A c \in Chat : m.row[c].obj \in 0 .. clock /\ m.row[c].att \in 0 .. clock /\ m.row[c].body \in 0 .. clock
  BY <1>1, RowTypes DEF StampsOf
<1>5. \A c \in Chat : renamed[c] \in 0 .. clock
  BY <1>1 DEF StampInv
<1> QED BY <1>1, <1>2, <1>3, <1>4, <1>5 DEF StampInv

\* changing a conversation does,
LEMMA EditOpen ==
  ASSUME TypeOK, TypeOK', KindInv, StampInv, EditInv, NEW o \in Owner, tx[o].st = "none", Opens(o)
  PROVE  EditInv'
<1>a. renamed' = renamed
  BY DEF Opens
<1>b. PICK kind \in Kinds(o) \cap Kind, c \in Chat, n \in Memory :
        /\ tx' = [tx EXCEPT ![o] = [st |-> "saving", kind |-> kind, chat |-> c,
                                    before |-> mem, next |-> n, cap |-> auth]]
        /\ mem'.row = n.row /\ mem'.root > clock
        /\ \A d \in Chat : d # c \/ kind = "ack" => n.row[d] = mem.row[d]
        /\ kind # "ack" => n.row[c].obj = clock + 1
        /\ n.row[c].att = IF kind \in {"prepare", "checkpoint"} THEN clock + 1 ELSE mem.row[c].att
        /\ n.row[c].body = IF kind \in {"prepare", "bind"} THEN clock + 1 ELSE mem.row[c].body
  BY OpensRows
<1>c. /\ clock \in Nat /\ tx \in [Owner -> Transaction] /\ tx["bind"].chat \in Chat
      /\ tx["bind"].next.row[tx["bind"].chat].obj \in 0 .. clock
      /\ tx["turn"].next.root \in 0 .. clock
      /\ \A d \in Chat : mem.row[d].body \in 0 .. clock /\ renamed[d] \in 0 .. clock
  BY RowStamps
<1>1. \A d \in Chat : mem'.row[d].body >= renamed[d]
  BY <1>b, <1>c DEF EditInv, EditSafe
<1>2. CASE o = "bind"
  <2>1. /\ tx'["turn"] = tx["turn"]
        /\ tx'["bind"].chat = c /\ tx'["bind"].before = mem
    BY <1>b, <1>c, <1>2 DEF Owner
  <2>2. EditSafe(mem)'
    BY <1>a, <1>1, <2>1 DEF EditSafe, BindRow, EditInv
  <2>3. mem'.root # tx'["turn"].next.root
    BY <1>b, <1>c, <2>1
  <2> QED BY <1>a, <1>1, <2>1, <2>3 DEF EditInv, EditSafe, BindRow
<1>3. CASE o = "turn"
  <2>1. tx'["bind"] = tx["bind"] /\ tx'["turn"].before = mem
    BY <1>b, <1>c, <1>3 DEF Owner
  <2>2. BindHolds(mem)' => BindHolds(mem)
    BY <1>b, <1>c, <2>1 DEF BindHolds
  <2>3. EditSafe(mem)
    BY DEF EditInv
  <2>4. (\A d \in Chat : mem'.row[d].body >= renamed'[d]) /\ (BindHolds(mem)' => BindRow'.body >= renamed'[tx'["bind"].chat])
    BY <1>a, <1>1, <2>1, <2>2, <2>3 DEF EditSafe, BindRow
  <2>5. (\A d \in Chat : mem.row[d].body >= renamed'[d])
    BY <1>a, <2>3 DEF EditSafe
  <2> QED BY <1>a, <2>1, <2>3, <2>4, <2>5 DEF EditInv, EditSafe, BindRow, BindHolds
<1>4. CASE o = "drain"
  <2>1. /\ tx'["turn"] = tx["turn"] /\ tx'["bind"] = tx["bind"] /\ mem'.root # tx["turn"].next.root
        /\ \A d \in Chat : mem'.row[d] = mem.row[d]
    BY <1>b, <1>c, <1>4 DEF Owner, Kinds
  <2> QED BY <1>a, <1>c, <2>1 DEF EditInv, EditSafe, BindHolds, BindRow
<1> QED BY <1>2, <1>3, <1>4 DEF Owner

\* and so does every step.
LEMMA EditStep ==
  ASSUME TypeOK, TypeOK', KindInv, StampInv, EditInv, Shaped
  PROVE  EditInv'
<1>a. /\ clock \in Nat /\ tx["bind"].chat \in Chat /\ mem \in Memory
      /\ tx["bind"].next.row[tx["bind"].chat].obj \in 0 .. clock
      /\ tx["turn"].next.root \in 0 .. clock
      /\ \A d \in Chat : mem.row[d].body \in 0 .. clock /\ renamed[d] \in 0 .. clock
  BY RowStamps
<1>t. "turn" \in Owner /\ "bind" \in Owner
  BY DEF Owner
<1>1. CASE Idles
  <2>1. /\ renamed' = renamed /\ mem'.row = mem.row
        /\ \A o \in {"turn", "bind"} : /\ tx'[o].kind = tx[o].kind /\ tx'[o].chat = tx[o].chat
                                       /\ tx'[o].before = tx[o].before /\ tx'[o].next = tx[o].next
                                       /\ tx'[o].st = "none" <=> tx[o].st = "none"
    BY <1>1, <1>t DEF Idles
  <2>2. mem'.root = tx["turn"].next.root => mem.root = tx["turn"].next.root
    BY <1>1, <1>a DEF Idles
  <2> QED BY <2>1, <2>2 DEF EditInv, EditSafe, BindHolds, BindRow
<1>2. CASE Renames
  <2>1. PICK c \in Chat :
          /\ mem'.row = [mem.row EXCEPT ![c] = [obj |-> clock + 1, att |-> mem.row[c].att, body |-> clock + 1]]
          /\ mem'.root > clock /\ renamed' = [renamed EXCEPT ![c] = clock + 1]
    BY <1>2 DEF Renames
  <2>2. tx' = tx /\ renamed \in [Chat -> Nat]
    BY <1>2 DEF Renames, TypeOK
  <2>3. mem.row \in [Chat -> [obj : Nat, att : Nat, body : Nat]]
    BY <1>a DEF Memory
  <2>4. mem'.row[c].obj = clock + 1 /\ mem'.row[c].body = clock + 1 /\ renamed'[c] = clock + 1
    BY <2>1, <2>2, <2>3
  <2>5. \A d \in Chat \ {c} : mem'.row[d] = mem.row[d] /\ renamed'[d] = renamed[d]
    BY <2>1, <2>2, <2>3
  <2>6. \A d \in Chat : mem'.row[d].body >= renamed'[d]
    BY <1>a, <2>4, <2>5 DEF EditInv, EditSafe
  <2>7. mem'.root # tx["turn"].next.root
    BY <1>a, <2>1
  <2>8. BindHolds(mem') => tx["bind"].chat # c
    BY <1>a, <2>4 DEF BindHolds
  <2>9. BindHolds(mem') => BindRow.body >= renamed'[tx["bind"].chat]
    BY <1>a, <2>5, <2>8 DEF EditInv, EditSafe, BindHolds
  <2> QED BY <2>2, <2>6, <2>7, <2>9 DEF EditInv, EditSafe, BindHolds, BindRow
<1>3. CASE Hydrates
  <2>1. /\ mem' = Hydrated(disk.doc, clock + 1)
        /\ renamed' = [c \in Chat |-> disk.doc.row[c].body]
        /\ tx'["turn"].st = "none"
        /\ tx' = tx \/ tx' = [o \in Owner |-> NoTx]
    BY <1>3 DEF Hydrates
  <2>2. \A c \in Chat : mem'.row[c].obj = clock + 1 /\ mem'.row[c].body = disk.doc.row[c].body
    BY <2>1, HydratedRows
  <2>3. disk.doc \in Doc
    BY DEF TypeOK
  <2>4. \A c \in Chat : mem'.row[c].body >= renamed'[c]
    BY <2>1, <2>2, <2>3 DEF Doc
  <2>5. ~BindHolds(mem)'
    <3>1. CASE tx' = tx
      BY <1>a, <2>2, <3>1 DEF BindHolds
    <3>2. CASE tx' = [o \in Owner |-> NoTx]
      BY <1>t, <3>2, NoTxType DEF BindHolds
    <3> QED BY <2>1, <3>1, <3>2
  <2> QED BY <2>1, <2>4, <2>5 DEF EditInv, EditSafe, BindHolds
<1>4. Opens("turn") \/ Opens("bind") \/ Opens("drain") => EditInv'
  BY EditOpen DEF Opens, Owner
<1> QED BY <1>1, <1>2, <1>3, EditOpen, EditClose, EditTakeBack DEF Shaped, Opens

----------------------------------------------------------------------------
(***************************************************************************)
(* Checkpoints that were accepted as saved                                 *)
(***************************************************************************)
\* The attempt that the transaction t gave its conversation is in the document d.
Carries(t, d) == d.row[t.chat].att = t.next.row[t.chat].att

\* Once a document carries it, every document written or waiting after it does.
Carried(t, l, q) ==
  /\ \A i, j \in DOMAIN l : i <= j /\ Carries(t, l[i].doc) => Carries(t, l[j].doc)
  /\ \A i, j \in DOMAIN q : i <= j /\ Carries(t, q[i].cand) => Carries(t, q[j].cand)
  /\ \A i \in DOMAIN l, j \in DOMAIN q : Carries(t, l[i].doc) => Carries(t, q[j].cand)

\* The memory m has every accepted attempt, and so has the row the binding could
\* put into it.
AttSafe(m) ==
  /\ \A c \in Chat : m.row[c].att >= kept[c]
  /\ BindHolds(m) => BindRow.att >= kept[tx["bind"].chat]

\* The transaction of the agent's turn.
Turn == tx["turn"]

\* A checkpoint that waits for its save is in memory; what the binding could put
\* back has it too.
CheckpointWaits ==
  /\ Carries(Turn, mem) /\ Carried(Turn, log, queue)
  /\ BindHolds(mem) /\ tx["bind"].chat = Turn.chat => BindRow.att = Turn.next.row[Turn.chat].att

\* Memory, the file and every save in the queue have the accepted attempts, and so
\* has whatever the turn could put back.
KeptInv ==
  /\ AttSafe(mem)
  /\ \A c \in Chat : disk.doc.row[c].att >= kept[c]
  /\ \A k \in DOMAIN queue : \A c \in Chat : queue[k].cand.row[c].att >= kept[c]
  /\ Turn.st # "none" => \A c \in Chat : Turn.before.row[c].att >= kept[c]
  /\ Turn.st # "none" /\ Turn.kind = "prepare" => AttSafe(Turn.before)
  /\ Turn.st # "none" /\ Turn.kind = "checkpoint" => CheckpointWaits

\* A step that leaves the attempt in memory keeps it carried on.
LEMMA CarriedOn ==
  ASSUME TypeOK, TypeOK', QueueMoves, LogMoves, NEW t \in Transaction,
         Carries(t, mem'), Carried(t, log, queue)
  PROVE  Carried(t, log', queue')
<1> DEFINE N(i) == Carries(t, log[i].doc)
           Q(k) == Carries(t, queue[k].cand)
           N1(i) == Carries(t, log'[i].doc)
           Q1(k) == Carries(t, queue'[k].cand)
<1>a. /\ DOMAIN log = 1 .. Len(log) /\ DOMAIN queue = 1 .. Len(queue)
      /\ DOMAIN log' = 1 .. Len(log') /\ DOMAIN queue' = 1 .. Len(queue')
      /\ Len(log) \in Nat /\ Len(queue) \in Nat /\ Len(log') \in Nat /\ Len(queue') \in Nat
  <2>1. log \in Seq(Written) /\ queue \in Seq(Save) /\ log' \in Seq(Written) /\ queue' \in Seq(Save)
    BY DEF TypeOK
  <2> QED BY <2>1
<1>1. /\ \A i, j \in DOMAIN log : i <= j /\ N(i) => N(j)
      /\ \A i, j \in DOMAIN queue : i <= j /\ Q(i) => Q(j)
      /\ \A i \in DOMAIN log, j \in DOMAIN queue : N(i) => Q(j)
  BY DEF Carried
<1>2. /\ \A i \in DOMAIN log : i \in DOMAIN log' /\ (N1(i) <=> N(i))
      /\ \A i \in DOMAIN log' : i \in DOMAIN log \/ (1 \in DOMAIN queue /\ (N1(i) <=> Q(1)) /\ i = Len(log) + 1)
  BY DEF LogMoves
<1>3. Carries(t, Document(mem'))
  BY DocumentRows DEF Carries, Transaction
<1>4. \/ /\ DOMAIN queue' = DOMAIN queue
         /\ \A k \in DOMAIN queue : Q1(k) <=> Q(k)
      \/ \A k \in DOMAIN queue' : k + 1 \in DOMAIN queue /\ (Q1(k) <=> Q(k + 1))
      \/ /\ DOMAIN log' = DOMAIN log
         /\ \A k \in DOMAIN queue : Q1(k) <=> Q(k)
         /\ \A k \in DOMAIN queue' : k \in DOMAIN queue \/ (k = Len(queue) + 1 /\ Q1(k))
  BY <1>3 DEF QueueMoves
<1> HIDE DEF N, Q, N1, Q1
<1>5. \A i, j \in DOMAIN log' : i <= j /\ N1(i) => N1(j)
  BY <1>a, <1>1, <1>2
<1>6. \A i, j \in DOMAIN queue' : i <= j /\ Q1(i) => Q1(j)
  <2>1. CASE /\ DOMAIN queue' = DOMAIN queue
             /\ \A k \in DOMAIN queue : Q1(k) <=> Q(k)
    BY <1>1, <2>1
  <2>2. CASE \A k \in DOMAIN queue' : k + 1 \in DOMAIN queue /\ (Q1(k) <=> Q(k + 1))
    <3> SUFFICES ASSUME NEW i \in DOMAIN queue', NEW j \in DOMAIN queue', i <= j, Q1(i)
                 PROVE  Q1(j)
      OBVIOUS
    <3>1. i + 1 \in DOMAIN queue /\ j + 1 \in DOMAIN queue /\ i + 1 <= j + 1 /\ Q(i + 1)
      BY <1>a, <2>2
    <3>2. Q(j + 1)
      BY <1>1, <3>1
    <3> QED BY <2>2, <3>2
  <2>3. CASE /\ \A k \in DOMAIN queue : Q1(k) <=> Q(k)
             /\ \A k \in DOMAIN queue' : k \in DOMAIN queue \/ (k = Len(queue) + 1 /\ Q1(k))
    BY <1>a, <1>1, <2>3
  <2> QED BY <1>4, <2>1, <2>2, <2>3
<1>7. \A i \in DOMAIN log', j \in DOMAIN queue' : N1(i) => Q1(j)
  <2> SUFFICES ASSUME NEW i \in DOMAIN log', NEW j \in DOMAIN queue', N1(i)
               PROVE  Q1(j)
    OBVIOUS
  <2>1. \A k \in DOMAIN queue : Q(k)
    <3>1. CASE i \in DOMAIN log
      BY <1>1, <1>2, <3>1
    <3>2. CASE i \notin DOMAIN log
      <4>1. 1 \in DOMAIN queue /\ Q(1)
        BY <1>2, <3>2
      <4>2. \A k \in DOMAIN queue : 1 <= k
        BY <1>a
      <4> QED BY <1>1, <4>1, <4>2
    <3> QED BY <3>1, <3>2
  <2> QED BY <1>4, <2>1
<1> QED BY <1>5, <1>6, <1>7 DEF Carried, N1, Q1

\* A document of the history or of the queue before a step is there after it,
\* and memory too, when it is safe.
LEMMA KeptDocuments ==
  ASSUME TypeOK, TypeOK', LogInv, LogInv', QueueMoves, LogMoves, NEW f,
         \A c \in Chat : mem'.row[c].att >= f[c],
         \A c \in Chat : disk.doc.row[c].att >= f[c],
         \A k \in DOMAIN queue : \A c \in Chat : queue[k].cand.row[c].att >= f[c]
  PROVE  /\ \A c \in Chat : disk'.doc.row[c].att >= f[c]
         /\ \A k \in DOMAIN queue' : \A c \in Chat : queue'[k].cand.row[c].att >= f[c]
<1>1. /\ log \in Seq(Written) /\ Len(log) >= 1 /\ disk.doc = log[Len(log)].doc
      /\ log' \in Seq(Written) /\ Len(log') >= 1 /\ disk'.doc = log'[Len(log')].doc
  BY DEF LogInv, TypeOK
<1>2. /\ Len(log) \in DOMAIN log /\ Len(log') \in DOMAIN log'
      /\ DOMAIN log = 1 .. Len(log) /\ DOMAIN log' = 1 .. Len(log')
      /\ Len(log) \in Nat /\ Len(log') \in Nat
  BY <1>1
<1>3. disk'.doc = disk.doc \/ (1 \in DOMAIN queue /\ disk'.doc = queue[1].cand)
  <2>1. CASE Len(log') \in DOMAIN log
    <3>1. Len(log) = Len(log')
      <4>1. Len(log) \in DOMAIN log'
        BY <1>2 DEF LogMoves
      <4>2. Len(log) <= Len(log') /\ Len(log') <= Len(log)
        BY <1>2, <2>1, <4>1
      <4>3. Len(log) \in Nat /\ Len(log') \in Nat
        BY <1>2
      <4> HIDE DEF LogMoves
      <4> QED BY <4>2, <4>3
    <3> QED BY <1>1, <1>2, <3>1 DEF LogMoves
  <2>2. CASE Len(log') \notin DOMAIN log
    BY <1>1, <1>2, <2>2 DEF LogMoves
  <2> QED BY <2>1, <2>2
<1>4. \A c \in Chat : disk'.doc.row[c].att >= f[c]
  BY <1>3
<1>5. \A c \in Chat : Document(mem').row[c].att >= f[c]
  BY DocumentRows
<1>6. \A k \in DOMAIN queue' : \A c \in Chat : queue'[k].cand.row[c].att >= f[c]
  BY <1>5 DEF QueueMoves
<1> QED BY <1>4, <1>6

\* What KeptInv still asks for once the documents are safe.
LEMMA KeptFrom ==
  ASSUME TypeOK, TypeOK', LogInv, LogInv', QueueMoves, LogMoves, KeptInv, kept' = kept,
         \A c \in Chat : mem'.row[c].att >= kept[c],
         (BindHolds(mem) => BindRow.att >= kept[tx["bind"].chat])',
         (Turn.st # "none" => \A c \in Chat : Turn.before.row[c].att >= kept[c])',
         (Turn.st # "none" /\ Turn.kind = "prepare" => AttSafe(Turn.before))',
         (Turn.st # "none" /\ Turn.kind = "checkpoint" => CheckpointWaits)'
  PROVE  KeptInv'
<1>1. /\ \A c \in Chat : disk'.doc.row[c].att >= kept[c]
      /\ \A k \in DOMAIN queue' : \A c \in Chat : queue'[k].cand.row[c].att >= kept[c]
  BY KeptDocuments DEF KeptInv
<1> QED BY <1>1 DEF KeptInv, AttSafe

\* A step that leaves the turn alone and the waiting attempt in memory.
LEMMA WaitsOn ==
  ASSUME TypeOK, TypeOK', QueueMoves, LogMoves, KeptInv,
         Turn'.kind = Turn.kind, Turn'.chat = Turn.chat, Turn'.next = Turn.next,
         Turn'.st = "none" <=> Turn.st = "none",
         mem'.row[Turn.chat].att = mem.row[Turn.chat].att,
         (BindHolds(mem) /\ tx["bind"].chat = Turn.chat => BindRow.att = mem.row[Turn.chat].att)'
         \/ (BindHolds(mem)' /\ tx'["bind"].chat = Turn'.chat => BindHolds(mem) /\ tx["bind"].chat = Turn.chat /\ BindRow' = BindRow)
  PROVE  (Turn.st # "none" /\ Turn.kind = "checkpoint" => CheckpointWaits)'
<1> SUFFICES ASSUME Turn.st # "none", Turn.kind = "checkpoint"
             PROVE  CheckpointWaits'
  OBVIOUS
<1>1. CheckpointWaits /\ Turn \in Transaction
  BY OwnerTypes DEF KeptInv, Turn, Owner
<1>2. Carries(Turn, mem')
  BY <1>1 DEF CheckpointWaits, Carries
<1>3. Carried(Turn, log', queue')
  BY <1>1, <1>2, CarriedOn DEF CheckpointWaits
<1>4. Carries(Turn, mem)' /\ Carried(Turn, log, queue)'
  BY <1>2, <1>3 DEF Carries, Carried
<1>5. mem'.row[Turn.chat].att = Turn.next.row[Turn.chat].att
  BY <1>2 DEF Carries
<1>6. (BindHolds(mem) /\ tx["bind"].chat = Turn.chat => BindRow.att = Turn.next.row[Turn.chat].att)'
  BY <1>1, <1>5 DEF CheckpointWaits
<1> QED BY <1>4, <1>6 DEF CheckpointWaits

\* Accepting a save leaves the accepted attempts in place,
LEMMA KeptClose ==
  ASSUME TypeOK, TypeOK', LogInv, LogInv', AnswerInv', KindInv, QueueMoves, LogMoves, KeptInv,
         NEW o \in Owner, tx[o].st # "none", Closes(o)
  PROVE  KeptInv'
<1>1. /\ mem' = mem /\ tx' = [tx EXCEPT ![o] = NoTx] /\ tx \in [Owner -> Transaction]
      /\ "turn" \in Owner /\ "bind" \in Owner
  BY DEF Closes, TypeOK, Owner
<1>2. CASE o = "bind" /\ kept' = kept
  <2>1. tx'["bind"].st = "none" /\ Turn' = Turn
    BY <1>1, <1>2, NoTxType DEF Turn
  <2>2. ~BindHolds(mem)' /\ (AttSafe(Turn.before) => AttSafe(Turn.before)')
    BY <1>2, <2>1 DEF BindHolds, AttSafe
  <2>3. (Turn.st # "none" /\ Turn.kind = "checkpoint" => CheckpointWaits)'
    BY <1>1, <2>1, <2>2, WaitsOn
  <2> QED BY <1>1, <1>2, <2>1, <2>2, <2>3, KeptFrom DEF KeptInv, AttSafe
<1>3. CASE o = "drain" /\ kept' = kept
  <2>1. tx'["bind"] = tx["bind"] /\ Turn' = Turn
    BY <1>1, <1>3 DEF Turn
  <2>2. /\ BindHolds(mem)' <=> BindHolds(mem)
        /\ BindRow' = BindRow /\ (AttSafe(Turn.before) => AttSafe(Turn.before)')
    BY <1>1, <1>3, <2>1 DEF BindHolds, AttSafe, BindRow
  <2>3. (Turn.st # "none" /\ Turn.kind = "checkpoint" => CheckpointWaits)'
    BY <1>1, <2>1, <2>2, WaitsOn
  <2> QED BY <1>1, <1>3, <2>1, <2>2, <2>3, KeptFrom DEF KeptInv, AttSafe
<1>4. CASE o = "turn" /\ kept' = kept
  <2>1. tx'["bind"] = tx["bind"] /\ Turn'.st = "none"
    BY <1>1, <1>4, NoTxType DEF Turn
  <2> QED BY <1>1, <1>4, <2>1, KeptFrom DEF KeptInv, AttSafe, BindHolds, BindRow
<1>5. CASE /\ tx[o].kind = "checkpoint" /\ answer'.status = "committed"
           /\ Owned(tx[o]) /\ Proof(tx[o], answer'.ref)
           /\ kept' = [kept EXCEPT ![tx[o].chat] = tx[o].next.row[tx[o].chat].att]
  <2>1. o = "turn" /\ tx[o] = Turn
    BY <1>5 DEF KindInv, Kinds, Owner, Turn
  <2>2. tx'["bind"] = tx["bind"] /\ Turn'.st = "none" /\ Turn.chat \in Chat /\ Turn \in Transaction
        /\ kept \in [Chat -> Nat]
    BY <1>1, <2>1, NoTxType, OwnerTypes DEF Turn, TypeOK
  <2>3. CheckpointWaits
    BY <1>5, <2>1 DEF KeptInv
  <2>4. Carried(Turn, log', queue')
    BY <1>1, <2>2, <2>3, CarriedOn DEF CheckpointWaits
  <2> DEFINE c == Turn.chat
             a == Turn.next.row[c].att
  <2>5. kept'[c] = a /\ \A d \in Chat \ {c} : kept'[d] = kept[d]
    BY <1>5, <2>1, <2>2
  <2>6. \E i \in DOMAIN log' : Carries(Turn, log'[i].doc)
    <3>1. \E i \in DOMAIN log' : Ref(log'[i].gen, log'[i].doc) = answer'.ref
      BY <1>5 DEF AnswerInv
    <3>2. answer'.ref.doc = Document(Turn.next)
      BY <1>5, <2>1 DEF Proof
    <3>3. \A g, d : Ref(g, d).doc = d
      BY DEF Ref
    <3>4. \E i \in DOMAIN log' : log'[i].doc = Document(Turn.next)
      BY <3>1, <3>2, <3>3
    <3> QED BY <2>2, <3>4, DocumentRows DEF Carries
  <2>7. Carries(Turn, disk'.doc) /\ \A k \in DOMAIN queue' : Carries(Turn, queue'[k].cand)
    <3>1. /\ log' \in Seq(Written) /\ Len(log') >= 1 /\ disk'.doc = log'[Len(log')].doc
      BY DEF LogInv, TypeOK
    <3>2. Len(log') \in DOMAIN log' /\ \A i \in DOMAIN log' : i <= Len(log')
      BY <3>1
    <3> QED BY <2>4, <2>6, <3>1, <3>2 DEF Carried
  <2>8. /\ \A d \in Chat : disk'.doc.row[d].att >= kept[d]
        /\ \A k \in DOMAIN queue' : \A d \in Chat : queue'[k].cand.row[d].att >= kept[d]
    BY <1>1, KeptDocuments DEF KeptInv, AttSafe
  <2>9. a \in Nat
    BY <2>2, OwnerTypes, RowTypes DEF Turn, Owner
  <2>10. mem.row[c].att = a /\ (BindHolds(mem) /\ tx["bind"].chat = c => BindRow.att = a)
    BY <2>3 DEF CheckpointWaits, Carries
  <2>11. /\ \A d \in Chat : disk'.doc.row[d].att >= kept'[d]
         /\ \A k \in DOMAIN queue' : \A d \in Chat : queue'[k].cand.row[d].att >= kept'[d]
    BY <2>5, <2>7, <2>8, <2>9 DEF Carries
  <2>12. \A d \in Chat : mem.row[d].att >= kept'[d]
    BY <2>5, <2>9, <2>10 DEF KeptInv, AttSafe
  <2>13. BindHolds(mem) => BindRow.att >= kept'[tx["bind"].chat]
    <3>1. tx["bind"].chat \in Chat
      BY <1>1, OwnerTypes
    <3> QED BY <2>5, <2>9, <2>10, <3>1 DEF KeptInv, AttSafe
  <2> QED BY <1>1, <2>2, <2>11, <2>12, <2>13 DEF KeptInv, AttSafe, BindHolds, BindRow
<1> QED BY <1>2, <1>3, <1>4, <1>5 DEF Closes, Owner

\* The accepted attempts are no newer than the clock, and the stamps of rows.
LEMMA KeptStamps ==
  ASSUME TypeOK, StampInv, KeptInv
  PROVE  /\ clock \in Nat /\ mem \in Memory /\ tx \in [Owner -> Transaction]
         /\ tx["bind"].chat \in Chat /\ Turn.chat \in Chat
         /\ tx["bind"].next.row[tx["bind"].chat].obj \in 0 .. clock
         /\ \A c \in Chat : /\ kept[c] \in Nat /\ kept[c] <= clock
                            /\ mem.row[c].obj \in 0 .. clock /\ mem.row[c].att \in 0 .. clock
                            /\ Turn.before.row[c].obj \in 0 .. clock
         /\ "turn" \in Owner /\ "bind" \in Owner /\ "drain" \in Owner
<1>1. \A c \in Chat : kept[c] \in Nat /\ mem.row[c].att >= kept[c]
  BY DEF KeptInv, AttSafe, TypeOK
<1>2. clock \in Nat /\ \A c \in Chat : mem.row[c].att \in 0 .. clock
  BY RowStamps
<1>3. \A c \in Chat : kept[c] \in Nat /\ kept[c] <= clock
  BY <1>1, <1>2
<1> QED BY <1>3, RowStamps DEF Turn, Owner

\* taking a change back does,
LEMMA KeptTakeBack ==
  ASSUME TypeOK, TypeOK', LogInv, LogInv', KindInv, StampInv, QueueMoves, LogMoves, KeptInv,
         NEW o \in Owner, tx[o].st # "none", TakesBack(o)
  PROVE  KeptInv'
<1>a. /\ kept' = kept /\ tx' = [tx EXCEPT ![o] = NoTx] /\ TookBack(tx[o], mem')
  BY DEF TakesBack
<1>b. /\ clock \in Nat /\ mem \in Memory /\ tx \in [Owner -> Transaction]
      /\ tx["bind"].chat \in Chat /\ Turn.chat \in Chat
      /\ tx["bind"].next.row[tx["bind"].chat].obj \in 0 .. clock
      /\ "turn" \in Owner /\ "bind" \in Owner /\ "drain" \in Owner
  BY KeptStamps
<1>1. CASE o = "bind"
  <2>1. tx'["bind"].st = "none" /\ Turn' = Turn /\ tx["bind"].kind = "bind"
    BY <1>a, <1>b, <1>1, NoTxType DEF KindInv, Kinds, Turn
  <2>2. ~BindHolds(mem)' /\ (AttSafe(Turn.before) => AttSafe(Turn.before)')
    BY <1>a, <2>1 DEF BindHolds, AttSafe
  <2>3. \/ mem' = mem
        \/ /\ BindHolds(mem) /\ mem'.row[tx["bind"].chat] = BindRow
           /\ \A d \in Chat \ {tx["bind"].chat} : mem'.row[d] = mem.row[d]
    BY <1>a, <1>1, <2>1 DEF TookBack, Owned, BindHolds, BindRow
  <2>4. \A c \in Chat : mem'.row[c].att >= kept[c]
    BY <2>3 DEF KeptInv, AttSafe
  <2>5. (Turn.st # "none" /\ Turn.kind = "checkpoint" => CheckpointWaits)'
    <3>1. CASE ~(Turn.st # "none" /\ Turn.kind = "checkpoint")
      BY <2>1, <3>1
    <3>2. CASE Turn.st # "none" /\ Turn.kind = "checkpoint"
      <4>1. mem'.row[Turn.chat].att = mem.row[Turn.chat].att
        BY <1>b, <2>3, <3>2 DEF KeptInv, CheckpointWaits, Carries
      <4> QED BY <2>1, <2>2, <4>1, WaitsOn
    <3> QED BY <3>1, <3>2
  <2> QED BY <1>a, <2>1, <2>2, <2>4, <2>5, KeptFrom DEF KeptInv
<1>2. CASE o = "drain"
  <2>1. tx'["bind"] = tx["bind"] /\ Turn' = Turn /\ tx["drain"].kind = "ack"
    BY <1>a, <1>b, <1>2 DEF KindInv, Kinds, Turn
  <2>2. mem'.row = mem.row
    BY <1>a, <1>2, <2>1 DEF TookBack
  <2>3. /\ BindHolds(mem)' <=> BindHolds(mem)
        /\ BindRow' = BindRow /\ (AttSafe(Turn.before) => AttSafe(Turn.before)')
    BY <1>a, <2>1, <2>2 DEF BindHolds, AttSafe, BindRow
  <2>4. (Turn.st # "none" /\ Turn.kind = "checkpoint" => CheckpointWaits)'
    BY <2>1, <2>2, <2>3, WaitsOn
  <2> QED BY <1>a, <2>1, <2>2, <2>3, <2>4, KeptFrom DEF KeptInv, AttSafe
<1>3. CASE o = "turn"
  <2>1. tx'["bind"] = tx["bind"] /\ Turn'.st = "none" /\ Turn.kind # "bind" /\ tx[o] = Turn
    BY <1>a, <1>b, <1>3, NoTxType DEF KindInv, Kinds, Turn
  <2>2. (\A c \in Chat : mem'.row[c].att >= kept[c]) /\ (BindHolds(mem') => BindRow.att >= kept[tx["bind"].chat])
    <3>1. CASE mem'.row = mem.row
      BY <3>1 DEF KeptInv, AttSafe, BindHolds
    <3>2. CASE Turn.kind = "prepare" /\ mem' = Turn.before
      BY <1>3, <3>2 DEF KeptInv, AttSafe, Turn
    <3>3. CASE /\ mem'.row[Turn.chat].att = Turn.before.row[Turn.chat].att
               /\ mem'.row[Turn.chat].obj = clock + 1
               /\ \A d \in Chat \ {Turn.chat} : mem'.row[d] = mem.row[d]
      <4>1. \A c \in Chat : mem'.row[c].att >= kept[c]
        BY <1>3, <3>3 DEF KeptInv, AttSafe, Turn
      <4>2. BindHolds(mem') => BindHolds(mem)
        BY <1>b, <3>3 DEF BindHolds
      <4> QED BY <4>1, <4>2 DEF KeptInv, AttSafe
    <3> QED BY <1>a, <2>1, <3>1, <3>2, <3>3 DEF TookBack
  <2> QED BY <1>a, <2>1, <2>2, KeptFrom DEF BindHolds, BindRow
<1> QED BY <1>1, <1>2, <1>3 DEF Owner

\* changing a conversation does,
LEMMA KeptOpen ==
  ASSUME TypeOK, TypeOK', LogInv, LogInv', KindInv, StampInv, QueueMoves, LogMoves, KeptInv,
         NEW o \in Owner, tx[o].st = "none", Opens(o)
  PROVE  KeptInv'
<1>a. kept' = kept
  BY DEF Opens
<1>b. PICK kind \in Kinds(o) \cap Kind, c \in Chat, n \in Memory :
        /\ tx' = [tx EXCEPT ![o] = [st |-> "saving", kind |-> kind, chat |-> c,
                                    before |-> mem, next |-> n, cap |-> auth]]
        /\ mem'.row = n.row /\ mem'.root > clock
        /\ \A d \in Chat : d # c \/ kind = "ack" => n.row[d] = mem.row[d]
        /\ kind # "ack" => n.row[c].obj = clock + 1
        /\ n.row[c].att = IF kind \in {"prepare", "checkpoint"} THEN clock + 1 ELSE mem.row[c].att
        /\ n.row[c].body = IF kind \in {"prepare", "bind"} THEN clock + 1 ELSE mem.row[c].body
  BY OpensRows
<1>c. /\ clock \in Nat /\ mem \in Memory /\ tx \in [Owner -> Transaction]
      /\ tx["bind"].chat \in Chat /\ Turn.chat \in Chat
      /\ tx["bind"].next.row[tx["bind"].chat].obj \in 0 .. clock
      /\ \A d \in Chat : /\ kept[d] \in Nat /\ kept[d] <= clock
                         /\ mem.row[d].obj \in 0 .. clock /\ mem.row[d].att \in 0 .. clock
                         /\ Turn.before.row[d].obj \in 0 .. clock
      /\ "turn" \in Owner /\ "bind" \in Owner /\ "drain" \in Owner
  BY KeptStamps
<1>1. \A d \in Chat : mem'.row[d].att >= kept[d]
  BY <1>b, <1>c DEF KeptInv, AttSafe
<1>2. CASE o = "bind"
  <2>1. /\ Turn' = Turn /\ kind = "bind" /\ tx'["bind"].chat = c /\ tx'["bind"].before = mem
        /\ tx'["bind"].next = n
    BY <1>b, <1>c, <1>2 DEF Turn, Kinds
  <2>2. BindRow' = mem.row[c] /\ \A d \in Chat : mem'.row[d].att = mem.row[d].att
    BY <1>b, <2>1 DEF BindRow
  <2>3. (BindHolds(mem) => BindRow.att >= kept[tx["bind"].chat])'
    BY <1>a, <2>1, <2>2 DEF KeptInv, AttSafe
  <2>4. AttSafe(Turn.before) => AttSafe(Turn.before)'
    <3>1. ~BindHolds(Turn.before)'
      <4>1. tx'["bind"].next.row[c].obj = clock + 1 /\ Turn.before.row[c].obj <= clock
        BY <1>b, <1>c, <2>1
      <4> QED BY <1>c, <2>1, <4>1 DEF BindHolds
    <3> QED BY <1>a, <2>1, <3>1 DEF AttSafe
  <2>5. (BindHolds(mem) /\ tx["bind"].chat = Turn.chat => BindRow.att = mem.row[Turn.chat].att)'
    BY <1>c, <2>1, <2>2
  <2>6. (Turn.st # "none" /\ Turn.kind = "checkpoint" => CheckpointWaits)'
    BY <1>c, <2>1, <2>2, <2>5, WaitsOn
  <2> QED BY <1>a, <1>1, <2>1, <2>3, <2>4, <2>6, KeptFrom DEF KeptInv
<1>3. CASE o = "drain"
  <2>1. Turn' = Turn /\ tx'["bind"] = tx["bind"] /\ kind = "ack"
    BY <1>b, <1>c, <1>3 DEF Turn, Kinds
  <2>2. \A d \in Chat : mem'.row[d] = mem.row[d]
    BY <1>b, <2>1
  <2>3. /\ BindHolds(mem)' <=> BindHolds(mem)
        /\ BindRow' = BindRow /\ (AttSafe(Turn.before) => AttSafe(Turn.before)')
    BY <1>a, <1>c, <2>1, <2>2 DEF BindHolds, AttSafe, BindRow
  <2>4. (Turn.st # "none" /\ Turn.kind = "checkpoint" => CheckpointWaits)'
    BY <1>c, <2>1, <2>2, <2>3, WaitsOn
  <2> QED BY <1>a, <1>1, <2>1, <2>3, <2>4, KeptFrom DEF KeptInv, AttSafe
<1>4. CASE o = "turn"
  <2>1. /\ Turn'.before = mem /\ Turn'.kind = kind /\ Turn'.next = n /\ Turn'.chat = c
        /\ tx'["bind"] = tx["bind"]
    BY <1>b, <1>c, <1>4 DEF Turn
  <2>2. BindHolds(mem)' => BindHolds(mem) /\ (tx["bind"].chat # c \/ kind = "ack")
    BY <1>b, <1>c, <2>1 DEF BindHolds
  <2>3. (BindHolds(mem) => BindRow.att >= kept[tx["bind"].chat])'
    BY <1>a, <2>1, <2>2 DEF KeptInv, AttSafe, BindRow
  <2>4. (Turn.st # "none" => \A d \in Chat : Turn.before.row[d].att >= kept[d])'
    BY <1>a, <2>1 DEF KeptInv, AttSafe
  <2>5. AttSafe(Turn.before)'
    BY <1>a, <2>1 DEF KeptInv, AttSafe, BindHolds, BindRow
  <2>6. ASSUME kind = "checkpoint" PROVE CheckpointWaits'
    <3>1. n.row[c].att = clock + 1 /\ mem'.row[c].att = clock + 1 /\ Turn'.next.row[Turn'.chat].att = clock + 1
      BY <1>b, <2>1, <2>6
    <3>2. Carries(Turn', mem')
      BY <2>1, <3>1 DEF Carries
    <3>3. (\A i \in DOMAIN log : ~Carries(Turn', log[i].doc)) /\ (\A k \in DOMAIN queue : ~Carries(Turn', queue[k].cand))
      <4>1. \A i \in DOMAIN log : log[i].doc.row[c].att <= clock /\ log[i].doc.row[c].att \in Nat
        <5>1. \A i \in DOMAIN log : log[i] \in Written
          <6>1. log \in Seq(Written)
            BY DEF TypeOK
          <6> QED BY <6>1
        <5> QED BY <5>1 DEF StampInv, DocStamps, Written, Doc
      <4>2. \A k \in DOMAIN queue : queue[k].cand.row[c].att <= clock /\ queue[k].cand.row[c].att \in Nat
        <5>1. \A k \in DOMAIN queue : queue[k] \in Save
          <6>1. queue \in Seq(Save)
            BY DEF TypeOK
          <6> QED BY <6>1
        <5> QED BY <5>1 DEF StampInv, DocStamps, Save, Doc
      <4> QED BY <1>c, <2>1, <3>1, <4>1, <4>2 DEF Carries
    <3>4. Carried(Turn', log, queue) /\ Turn' \in Transaction
      BY <3>3, <1>c, TypeStep DEF Carried, Turn, TypeOK
    <3>5. Carried(Turn', log', queue')
      BY <3>2, <3>4, CarriedOn
    <3>6. Carries(Turn, mem)' /\ Carried(Turn, log, queue)'
      BY <3>2, <3>5 DEF Carries, Carried
    <3>7. ~(BindHolds(mem)' /\ tx'["bind"].chat = Turn'.chat)
      BY <2>1, <2>2, <2>6
    <3> QED BY <3>6, <3>7 DEF CheckpointWaits
  <2> QED BY <1>a, <1>1, <2>1, <2>3, <2>4, <2>5, <2>6, KeptFrom
<1> QED BY <1>2, <1>3, <1>4 DEF Owner

\* and so does every step.
LEMMA KeptStep ==
  ASSUME TypeOK, TypeOK', LogInv, LogInv', AnswerInv', KindInv, StampInv, QueueMoves, LogMoves,
         KeptInv, Shaped
  PROVE  KeptInv'
<1>a. /\ clock \in Nat /\ mem \in Memory /\ tx["bind"].chat \in Chat /\ Turn.chat \in Chat
      /\ tx["bind"].next.row[tx["bind"].chat].obj \in 0 .. clock
      /\ "turn" \in Owner /\ "bind" \in Owner
  BY KeptStamps
<1>1. CASE Idles
  <2>1. /\ kept' = kept /\ mem'.row = mem.row
        /\ tx'["bind"].st = "none" <=> tx["bind"].st = "none"
        /\ tx'["bind"].chat = tx["bind"].chat /\ tx'["bind"].before = tx["bind"].before
        /\ tx'["bind"].next = tx["bind"].next
    BY <1>1, <1>a DEF Idles
  <2>2. /\ Turn'.kind = Turn.kind /\ Turn'.chat = Turn.chat /\ Turn'.next = Turn.next
        /\ Turn'.before = Turn.before /\ (Turn'.st = "none" <=> Turn.st = "none")
    BY <1>1, <1>a DEF Idles, Turn
  <2>3. /\ BindHolds(mem)' <=> BindHolds(mem)
        /\ BindRow' = BindRow /\ (AttSafe(Turn.before) => AttSafe(Turn.before)')
    BY <2>1, <2>2 DEF BindHolds, AttSafe, BindRow
  <2>4. (Turn.st # "none" /\ Turn.kind = "checkpoint" => CheckpointWaits)'
    <3>1. mem'.row[Turn.chat].att = mem.row[Turn.chat].att
      BY <2>1
    <3>2. BindHolds(mem)' /\ tx'["bind"].chat = Turn'.chat =>
            BindHolds(mem) /\ tx["bind"].chat = Turn.chat /\ BindRow' = BindRow
      BY <2>1, <2>2, <2>3
    <3> QED BY <2>2, <3>1, <3>2, WaitsOn
  <2> QED BY <2>1, <2>2, <2>3, <2>4, KeptFrom DEF KeptInv, AttSafe
<1>2. CASE Renames
  <2>1. PICK c \in Chat :
          mem'.row = [mem.row EXCEPT ![c] = [obj |-> clock + 1, att |-> mem.row[c].att, body |-> clock + 1]]
    BY <1>2 DEF Renames
  <2>2. kept' = kept /\ tx' = tx /\ Turn' = Turn
    BY <1>2 DEF Renames, Turn
  <2>3. mem.row \in [Chat -> [obj : Nat, att : Nat, body : Nat]]
    BY <1>a DEF Memory
  <2>4. /\ mem'.row[c].obj = clock + 1 /\ mem'.row[c].att = mem.row[c].att
        /\ \A d \in Chat \ {c} : mem'.row[d] = mem.row[d]
    BY <2>1, <2>3
  <2>5. BindHolds(mem)' => BindHolds(mem)
    BY <1>a, <2>2, <2>4 DEF BindHolds
  <2>6. BindRow' = BindRow /\ (AttSafe(Turn.before) => AttSafe(Turn.before)')
    BY <2>2 DEF BindRow, AttSafe, BindHolds
  <2>7. (Turn.st # "none" /\ Turn.kind = "checkpoint" => CheckpointWaits)'
    <3>1. mem'.row[Turn.chat].att = mem.row[Turn.chat].att
      BY <1>a, <2>4
    <3> QED BY <2>2, <2>5, <2>6, <3>1, WaitsOn
  <2>8. \A d \in Chat : mem'.row[d].att >= kept[d]
    BY <2>4 DEF KeptInv, AttSafe
  <2> QED BY <2>2, <2>5, <2>6, <2>7, <2>8, KeptFrom DEF KeptInv, AttSafe
<1>3. CASE Hydrates
  <2>1. /\ kept' = kept /\ mem' = Hydrated(disk.doc, clock + 1) /\ Turn'.st = "none"
        /\ tx' = tx \/ tx' = [o \in Owner |-> NoTx]
    BY <1>3 DEF Hydrates, Turn
  <2>2. \A c \in Chat : mem'.row[c].obj = clock + 1 /\ mem'.row[c].att = disk.doc.row[c].att
    BY <2>1, HydratedRows
  <2>3. \A c \in Chat : mem'.row[c].att >= kept[c]
    BY <2>2 DEF KeptInv
  <2>4. ~BindHolds(mem)'
    <3>1. CASE tx' = tx
      BY <1>a, <2>2, <3>1 DEF BindHolds
    <3>2. CASE tx' = [o \in Owner |-> NoTx]
      BY <1>a, <3>2, NoTxType DEF BindHolds
    <3> QED BY <2>1, <3>1, <3>2
  <2> QED BY <2>1, <2>3, <2>4, KeptFrom
<1>4. ASSUME NEW o \in Owner, Opens(o) PROVE KeptInv'
  <2>1. tx[o].st = "none"
    BY <1>4 DEF Opens
  <2> QED BY <1>4, <2>1, KeptOpen
<1>5. ASSUME NEW o \in Owner, tx[o].st # "none", Closes(o) PROVE KeptInv'
  BY <1>5, KeptClose
<1>6. ASSUME NEW o \in Owner, tx[o].st # "none", TakesBack(o) PROVE KeptInv'
  BY <1>6, KeptTakeBack
<1> QED BY <1>1, <1>2, <1>3, <1>4, <1>5, <1>6 DEF Shaped

----------------------------------------------------------------------------
\* Everything about the rows and the owners.
RowsInv == JobInv /\ KindInv /\ StampInv /\ EditInv /\ KeptInv

\* The initial state has the invariant,
LEMMA RowsInit == ASSUME Init PROVE RowsInv
<1>1. /\ mem = Hydrated(Blank, 0) /\ disk.doc = Blank /\ queue = <<>> /\ clock = 0
      /\ tx = [o \in Owner |-> NoTx] /\ kept = [c \in Chat |-> 0] /\ renamed = [c \in Chat |-> 0]
      /\ log = <<[op |-> 0, gen |-> 1, doc |-> Blank]>>
  BY DEF Init
<1>2. \A c \in Chat : Blank.row[c].att = 0 /\ Blank.row[c].body = 0
  BY DEF Blank
<1>3. /\ mem.root = 0
      /\ \A c \in Chat : mem.row[c].obj = 0 /\ mem.row[c].att = 0 /\ mem.row[c].body = 0
  BY <1>1, <1>2, HydratedRows
<1>4. \A o \in Owner : tx[o] = NoTx /\ tx[o].st = "none"
  BY <1>1, NoTxType
<1>5. JobInv /\ KindInv
  BY <1>1, <1>4 DEF JobInv, KindInv
<1>6. StampInv
  <2>1. StampsOf(mem, 0)
    BY <1>3 DEF StampsOf
  <2>2. \A i \in DOMAIN log : log[i].doc = Blank
    BY <1>1
  <2>3. DocStamps(Blank, 0)
    BY <1>2 DEF DocStamps
  <2>4. 0 \in Nat /\ \A c \in Chat : renamed[c] <= 0
    BY <1>1
  <2> QED BY <1>1, <1>4, <2>1, <2>2, <2>3, <2>4, NoTxStamps DEF StampInv
<1>7. EditInv
  BY <1>1, <1>3, <1>4 DEF EditInv, EditSafe, BindHolds, Owner
<1>8. KeptInv
  BY <1>1, <1>2, <1>3, <1>4 DEF KeptInv, AttSafe, BindHolds, Turn, Owner
<1> QED BY <1>5, <1>6, <1>7, <1>8 DEF RowsInv

\* and every step keeps it.
LEMMA RowsStep ==
  ASSUME TypeOK, TypeOK', HistoryInv, HistoryInv', RowsInv, [Next]_vars
  PROVE  RowsInv'
<1>1. /\ JobInv /\ KindInv /\ StampInv /\ EditInv /\ KeptInv
      /\ LogInv /\ LogInv' /\ QueueInv /\ AnswerInv'
  BY DEF RowsInv, HistoryInv
<1>2. Shaped
  BY <1>1, Shapes
<1>3. QueueMoves /\ LogMoves
  BY <1>1, Moves
<1>4. clock' >= clock
  BY <1>1, QueueStep
<1>5. JobInv'
  BY <1>1, JobStep
<1>6. KindInv'
  BY <1>1, <1>2, KindStep
<1>7. StampInv'
  BY <1>1, <1>2, <1>3, <1>4, StampStep
<1>8. EditInv'
  BY <1>1, <1>2, EditStep
<1>9. KeptInv'
  BY <1>1, <1>2, <1>3, KeptStep
<1> QED BY <1>5, <1>6, <1>7, <1>8, <1>9 DEF RowsInv

\* The inductive invariant of the whole store.
LEMMA RowsCorrect == Spec => [](TypeOK /\ HistoryInv /\ RowsInv)
<1>1. Init => TypeOK /\ HistoryInv /\ RowsInv
  BY TypeInit, HistoryInit, RowsInit
<1>2. TypeOK /\ HistoryInv /\ RowsInv /\ [Next]_vars => (TypeOK /\ HistoryInv /\ RowsInv)'
  BY TypeStep, HistoryStep, RowsStep
<1> QED BY <1>1, <1>2, PTL DEF Spec

\* No owner that takes its change back, in whatever order the three of them work
\* and are answered, takes a user's edit with it (the identities that rollback
\* compares in state/store.ts).
THEOREM RollbacksSpareEdits == Spec => []EditsSurvive
<1>1. RowsInv => EditsSurvive
  BY DEF RowsInv, EditInv, EditSafe, EditsSurvive
<1> QED BY <1>1, RowsCorrect, PTL

\* A checkpoint that was accepted as saved stays on disk and in memory until a
\* later one replaces it: no save that was queued before, no rollback, no
\* restored snapshot and no launch brings back an older attempt of its chat
\* (agentCheckpointTransaction, performSessionCandidate, cas_plan).
THEOREM SavedCheckpointsStay == Spec => []CheckpointsStay
<1>1. RowsInv => CheckpointsStay
  BY DEF RowsInv, KeptInv, AttSafe, CheckpointsStay
<1> QED BY <1>1, RowsCorrect, PTL
=============================================================================
