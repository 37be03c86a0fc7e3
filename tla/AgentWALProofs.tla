--------------------------- MODULE AgentWALProofs ---------------------------
(***************************************************************************)
(* Theorems about the write-ahead log, for every set of threads and        *)
(* transactions and every bound on faults, crashes and replacements.       *)
(***************************************************************************)
EXTENDS AgentWAL, TLAPS

\* What a thread inside the lock has made of the disk so far: it built on the
\* file as it is, its staged file and then the file itself hold its candidate,
\* and after the fsync its transaction is on stable storage.
Phase(t) ==
  /\ th[t].pc \in {"stage", "staged", "renamed", "synced"} => lock = t
  /\ th[t].pc \in {"stage", "staged"} => file.val \subseteq th[t].base.val
  /\ th[t].pc = "staged" =>
       /\ temp.state.val = th[t].base.val \cup th[t].txn
       /\ temp.state.ino <= inodes
       /\ resident.here => temp.state.ino # resident.state.ino
  /\ th[t].pc \in {"renamed", "synced"} =>
       file.val = th[t].base.val \cup th[t].txn
  /\ th[t].pc = "synced" => th[t].txn \subseteq durable.val

\* The inductive invariant behind AckedDurable.  Stable storage never holds
\* more than the file shows, so writing the file back loses nothing; and the
\* resident handle carries an inode handed out before, so the next staged file
\* cannot be taken for the one it describes.
IInv ==
  /\ TypeOK
  /\ \A t \in Threads : Phase(t)
  /\ durable.val \subseteq file.val
  /\ resident.here => resident.state.ino <= inodes
  /\ ResidentMatches => resident.state.val = file.val
  /\ file.ino <= inodes /\ durable.ino <= inodes
  /\ AckedDurable

-----------------------------------------------------------------------------
USE DEF State, Missing, Absent, Present, Slot, PCs, Idle, Thread

LEMMA InitTypeOK == Init => TypeOK
  BY WALAssumption DEF Init, TypeOK

LEMMA NullTypes == Missing \in State /\ Absent \in Slot /\ Idle \in Thread
  OBVIOUS

\* Every action keeps every variable in its type.
LEMMA NextTypeOK == TypeOK /\ [Next]_vars => TypeOK'
<1> SUFFICES ASSUME TypeOK, [Next]_vars PROVE TypeOK'
  OBVIOUS
<1> USE WALAssumption DEF TypeOK, disk, bound, Release
<1>1. ASSUME NEW t \in Threads, NEW x \in Txn, EnsureStorage(t, x)
      PROVE  TypeOK'
  BY ZenonT(40), <1>1 DEF EnsureStorage
<1>2. ASSUME NEW t \in Threads, LoadCorrupt(t) PROVE TypeOK'
  BY <1>2 DEF LoadCorrupt
<1>3. ASSUME NEW t \in Threads, Load(t) PROVE TypeOK'
  <2>1. Base \in State
    BY DEF Base
  <2>2. resident' \in Slot
    BY <1>3 DEF Load
  <2>3. lock' \in Threads \cup {NoThread}
    BY <1>3 DEF Load
  <2>4. th' \in [Threads -> Thread]
    <3>1. CASE th[t].txn \subseteq Base.val
      BY <1>3, <3>1 DEF Load
    <3>2. CASE ~(th[t].txn \subseteq Base.val)
      BY SMTT(40), <1>3, <3>2, <2>1 DEF Load
    <3> QED BY <3>1, <3>2
  <2>5. UNCHANGED <<file, durable, temp, inodes, acked, faults, crashes, replaced>>
    BY <1>3 DEF Load
  <2> QED BY <2>2, <2>3, <2>4, <2>5
<1>4. ASSUME NEW t \in Threads, StageRefused(t) PROVE TypeOK'
  BY <1>4 DEF StageRefused
<1>5. ASSUME NEW t \in Threads, StageFails(t) PROVE TypeOK'
  BY <1>5 DEF StageFails
<1>6. ASSUME NEW t \in Threads, Stage(t) PROVE TypeOK'
  <2>1. Candidate(t, inodes + 1) \in State
    BY DEF Candidate
  <2>2. temp' \in Slot
    BY <1>6, <2>1 DEF Stage
  <2>3. th' \in [Threads -> Thread]
    BY <1>6 DEF Stage
  <2> QED BY <1>6, <2>2, <2>3 DEF Stage
<1>7. ASSUME NEW t \in Threads, RenameFails(t) PROVE TypeOK'
  BY <1>7 DEF RenameFails
<1>8. ASSUME NEW t \in Threads, Rename(t) PROVE TypeOK'
  BY ZenonT(60), <1>8 DEF Rename
<1>9. ASSUME NEW t \in Threads, SyncFails(t) PROVE TypeOK'
  BY <1>9 DEF SyncFails
<1>10. ASSUME NEW t \in Threads, Sync(t) PROVE TypeOK'
  BY ZenonT(60), <1>10 DEF Sync
<1>11. ASSUME NEW t \in Threads, Publish(t) PROVE TypeOK'
  <2>1. Candidate(t, file.ino) \in State
    BY DEF Candidate
  <2>2. resident' \in Slot
    BY <1>11, <2>1 DEF Publish
  <2> QED BY <1>11, <2>2 DEF Publish
<1>12. CASE WriteBack
  BY <1>12 DEF WriteBack
<1>13. CASE Replace
  BY <1>13 DEF Replace
<1>14. CASE ProcessDies
  BY <1>14 DEF ProcessDies
<1>15. CASE PowerLoss
  <2>1. temp' \in Slot
    <3> HIDE DEF Slot, Absent
    <3> QED BY <1>15, NullTypes DEF PowerLoss
  <2>2. resident' \in Slot /\ th' \in [Threads -> Thread]
    BY <1>15 DEF PowerLoss
  <2> QED BY <1>15, <2>1, <2>2 DEF PowerLoss
<1>16. CASE UNCHANGED vars
  BY <1>16 DEF vars
<1> QED
  BY <1>1, <1>2, <1>3, <1>4, <1>5, <1>6, <1>7, <1>8, <1>9, <1>10, <1>11,
     <1>12, <1>13, <1>14, <1>15, <1>16 DEF Next, Write, Environment

(* The log's state is always well formed: a generation, a set of effects and *)
(* a file identity in each of the file, the staged file, the resident handle *)
(* and every transaction in progress.                                        *)
THEOREM TypeCorrect == Spec => []TypeOK
  BY InitTypeOK, NextTypeOK, PTL DEF Spec
-----------------------------------------------------------------------------
LEMMA InitIInv == Init => IInv
  BY InitTypeOK DEF Init, IInv, Phase, ResidentMatches, AckedDurable

\* Without an outsider replacing the file, every action keeps the invariant.
LEMMA NextIInv == MaxReplace = 0 /\ IInv /\ [Next]_vars => IInv'
<1> SUFFICES ASSUME MaxReplace = 0, IInv, [Next]_vars PROVE IInv'
  OBVIOUS
<1>0. TypeOK /\ TypeOK'
  BY NextTypeOK DEF IInv
<1> USE <1>0, WALAssumption DEF IInv, disk, bound, Release, Phase,
        ResidentMatches, AckedDurable, TempPresent
<1>1. ASSUME NEW t \in Threads, NEW x \in Txn, EnsureStorage(t, x)
      PROVE  IInv'
  BY <1>1 DEF EnsureStorage, TypeOK
<1>2. ASSUME NEW t \in Threads, LoadCorrupt(t) PROVE IInv'
  BY <1>2 DEF LoadCorrupt, TypeOK
<1>3. ASSUME NEW t \in Threads, Load(t) PROVE IInv'
  <2>1. Base.val = file.val
    BY DEF Base
  <2>2. UNCHANGED <<file, durable, temp, inodes, acked>>
    BY <1>3 DEF Load
  <2>3. \A s \in Threads :
          th[s].pc \notin {"stage", "staged", "renamed", "synced"}
    BY <1>3 DEF Load
  <2>4. \A s \in Threads : Phase(s)'
    <3>1. CASE th[t].txn \subseteq Base.val
      BY <1>3, <2>2, <2>3, <3>1 DEF Load, TypeOK
    <3>2. CASE ~(th[t].txn \subseteq Base.val)
      BY <1>3, <2>1, <2>2, <2>3, <3>2 DEF Load, TypeOK
    <3> QED BY <3>1, <3>2
  <2>5. /\ resident'.here => resident'.state.ino <= inodes'
        /\ ResidentMatches' => resident'.state.val = file'.val
    BY <1>3, <2>2 DEF Load
  <2> QED BY <2>2, <2>4, <2>5
<1>4. ASSUME NEW t \in Threads, StageRefused(t) PROVE IInv'
  BY <1>4 DEF StageRefused, TypeOK
<1>5. ASSUME NEW t \in Threads, StageFails(t) PROVE IInv'
  BY <1>5 DEF StageFails, TypeOK
<1>6. ASSUME NEW t \in Threads, Stage(t) PROVE IInv'
  <2>1. \A s \in Threads : Phase(s)'
    <3> SUFFICES ASSUME NEW s \in Threads PROVE Phase(s)'
      OBVIOUS
    <3>1. CASE s = t
      BY <1>6, <3>1 DEF Stage, Candidate, TypeOK
    <3>2. CASE s # t
      BY <1>6, <3>2 DEF Stage, TypeOK
    <3> QED BY <3>1, <3>2
  <2> QED BY <1>6, <2>1 DEF Stage, TypeOK
<1>7. ASSUME NEW t \in Threads, RenameFails(t) PROVE IInv'
  BY <1>7 DEF RenameFails, TypeOK
<1>8. ASSUME NEW t \in Threads, Rename(t) PROVE IInv'
  BY <1>8 DEF Rename, TypeOK
<1>9. ASSUME NEW t \in Threads, SyncFails(t) PROVE IInv'
  BY <1>9 DEF SyncFails, TypeOK
<1>10. ASSUME NEW t \in Threads, Sync(t) PROVE IInv'
  BY <1>10 DEF Sync, TypeOK
<1>11. ASSUME NEW t \in Threads, Publish(t) PROVE IInv'
  BY <1>11 DEF Publish, Candidate, TypeOK
<1>12. CASE WriteBack
  BY <1>12 DEF WriteBack, TypeOK
<1>13. CASE Replace
  BY <1>13 DEF Replace, TypeOK
<1>14. CASE ProcessDies
  BY <1>14 DEF ProcessDies, TypeOK
<1>15. CASE PowerLoss
  BY <1>15 DEF PowerLoss, TypeOK
<1>16. CASE UNCHANGED vars
  BY <1>16 DEF vars, TypeOK
<1> QED
  BY <1>1, <1>2, <1>3, <1>4, <1>5, <1>6, <1>7, <1>8, <1>9, <1>10, <1>11,
     <1>12, <1>13, <1>14, <1>15, <1>16 DEF Next, Write, Environment

(* As long as nothing but the log writes the file, a transaction answered    *)
(* "committed" stays on stable storage through every later transaction,      *)
(* failure, process death and power loss.                                    *)
THEOREM CommittedIsDurable ==
  ASSUME MaxReplace = 0
  PROVE  Spec => []AckedDurable
<1>1. IInv /\ [Next]_vars => IInv'
  BY NextIInv
<1>2. IInv => AckedDurable
  BY DEF IInv
<1> QED
  BY InitIInv, <1>1, <1>2, PTL DEF Spec

-----------------------------------------------------------------------------
\* Every step of the log is a step of the abstract store, or changes nothing
\* the abstract store can see.
LEMMA StepRefines ==
  ASSUME MaxReplace = 0, IInv, [Next]_vars
  PROVE  [Store!Next]_(Store!vars)
<1> USE DEF disk, bound, Release, Store!vars
<1>0. TypeOK
  BY DEF IInv
<1>1. CASE \E t \in Threads : Rename(t)
  <2> PICK t \in Threads : Rename(t)
    BY <1>1
  <2>1. file'.val = file.val \cup temp.state.val
    BY DEF Rename, IInv, Phase
  <2>2. temp.state.val \in SUBSET Txn
    BY <1>0 DEF TypeOK
  <2>3. UNCHANGED <<durable, acked>>
    BY DEF Rename
  <2> QED BY <2>1, <2>2, <2>3 DEF Store!Next, Store!Apply
<1>2. CASE \E t \in Threads : SyncFails(t) \/ Sync(t)
  BY <1>2 DEF Sync, SyncFails, Store!Next, Store!Flush
<1>3. CASE \E t \in Threads : Publish(t)
  <2> PICK t \in Threads : Publish(t)
    BY <1>3
  <2>1. th[t].txn \in SUBSET durable.val
    BY DEF Publish, IInv, Phase
  <2>2. acked' = acked \cup th[t].txn /\ UNCHANGED <<file, durable>>
    BY DEF Publish
  <2> QED BY <2>1, <2>2 DEF Store!Next, Store!Promise
<1>4. CASE WriteBack
  BY <1>4 DEF WriteBack, Store!Next, Store!Flush
<1>5. CASE PowerLoss
  BY <1>5 DEF PowerLoss, Store!Next, Store!PowerLoss
<1>6. CASE Replace
  BY <1>0, <1>6, WALAssumption DEF Replace, TypeOK
<1>7. CASE \/ UNCHANGED vars \/ ProcessDies
           \/ \E t \in Threads :
                \/ \E x \in Txn : EnsureStorage(t, x)
                \/ LoadCorrupt(t) \/ Load(t) \/ StageRefused(t)
                \/ StageFails(t) \/ Stage(t) \/ RenameFails(t)
  BY <1>7 DEF vars, ProcessDies, EnsureStorage, LoadCorrupt, Load,
              StageRefused, StageFails, Stage, RenameFails
<1> QED
  BY <1>1, <1>2, <1>3, <1>4, <1>5, <1>6, <1>7 DEF Next, Write, Environment

(* The log implements the abstract durable store: whatever readers see, what *)
(* is on stable storage, and what was promised change only as DurableStore   *)
(* allows.                                                                   *)
THEOREM Implementation ==
  ASSUME MaxReplace = 0
  PROVE  Spec => ImplementsStore
<1>1. Init => Store!Init
  BY DEF Init, Store!Init
<1>2. IInv /\ [Next]_vars => IInv'
  BY NextIInv
<1>3. IInv /\ [Next]_vars => [Store!Next]_(Store!vars)
  BY StepRefines
<1> QED
  BY InitIInv, <1>1, <1>2, <1>3, PTL DEF Spec, ImplementsStore, Store!Spec
-----------------------------------------------------------------------------
\* What a thread inside the lock knows of the disk, wherever outsiders strike
\* but there: it built on the file itself, and then the staged file and the
\* file are its candidate, under an inode the resident handle has not.
Own(t) ==
  /\ th[t].pc \in {"stage", "staged", "renamed", "synced"} => lock = t
  /\ th[t].pc \in {"stage", "staged"} => th[t].base = file
  /\ th[t].pc = "staged" =>
       /\ temp.state = Candidate(t, temp.state.ino)
       /\ temp.state.ino <= inodes
       /\ resident.here => temp.state.ino # resident.state.ino
  /\ th[t].pc \in {"renamed", "synced"} =>
       /\ file = Candidate(t, file.ino)
       /\ ~temp.here

\* The inductive invariant behind ResidentCoherent: no file appears under an
\* inode that the resident handle may have been read from.
CInv ==
  /\ TypeOK
  /\ \A t \in Threads : Own(t)
  /\ ResidentMatches => resident.state = file
  /\ resident.here => resident.state.ino <= inodes
  /\ file.ino <= inodes /\ durable.ino <= inodes

LEMMA InitCInv == Init => CInv
  BY InitTypeOK DEF Init, CInv, Own, ResidentMatches

\* What the other threads know stays true when the disk, the lock and the
\* resident handle do, or when none of them is inside.
LEMMA OwnKept ==
  ASSUME CInv, TypeOK', NEW t \in Threads,
         \A s \in Threads : s # t => th'[s] = th[s],
         UNCHANGED <<file, temp, inodes>>,
         resident' = resident \/ resident' = Absent,
         lock' = lock,
         Own(t)'
  PROVE  \A s \in Threads : Own(s)'
<1> SUFFICES ASSUME NEW s \in Threads, s # t PROVE Own(s)'
  OBVIOUS
<1>1. Own(s) /\ th'[s] = th[s]
  BY DEF CInv
<1> QED BY <1>1 DEF Own, Candidate

\* A thread that gives the lock up leaves nobody inside.
LEMMA OwnLeft ==
  ASSUME CInv, TypeOK', NEW t \in Threads, lock = t, Release(t)
  PROVE  \A s \in Threads : Own(s)'
<1> SUFFICES ASSUME NEW s \in Threads PROVE th'[s].pc \notin {"stage", "staged", "renamed", "synced"}
  BY DEF Own
<1>1. CASE s = t
  BY <1>1 DEF Release, CInv, TypeOK
<1>2. CASE s # t
  BY <1>2 DEF Release, CInv, TypeOK, Own
<1> QED BY <1>1, <1>2

\* Every action keeps the invariant, as long as outsiders keep out of the lock.
LEMMA NextCInv ==
  ASSUME MaxReplace = 0 \/ ~ReplaceInWrite, CInv, [Next]_vars
  PROVE  CInv'
<1>0. TypeOK /\ TypeOK'
  BY NextTypeOK DEF CInv
<1> USE <1>0, WALAssumption DEF disk, bound, TempPresent
<1>1. ASSUME NEW t \in Threads, NEW x \in Txn, EnsureStorage(t, x)
      PROVE  CInv'
  <2>1. Own(t)'
    BY <1>1 DEF EnsureStorage, TypeOK, Own
  <2>2. \A s \in Threads : s # t => th'[s] = th[s]
    BY <1>1 DEF EnsureStorage, TypeOK
  <2>3. \A s \in Threads : Own(s)'
    BY <1>1, <2>1, <2>2, OwnKept DEF EnsureStorage
  <2> QED BY <1>1, <2>3 DEF EnsureStorage, CInv, ResidentMatches
<1>2. ASSUME NEW t \in Threads, LoadCorrupt(t) PROVE CInv'
  <2>1. Own(t)'
    BY <1>2 DEF LoadCorrupt, TypeOK, Own
  <2>2. \A s \in Threads : s # t => th'[s] = th[s]
    BY <1>2 DEF LoadCorrupt, TypeOK
  <2>3. \A s \in Threads : Own(s)'
    BY <1>2, <2>1, <2>2, OwnKept DEF LoadCorrupt
  <2> QED BY <1>2, <2>3 DEF LoadCorrupt, CInv, ResidentMatches
<1>3. ASSUME NEW t \in Threads, Load(t) PROVE CInv'
  <2>1. Base = file
    BY DEF Base, CInv
  <2>2. UNCHANGED <<file, durable, temp, inodes>>
    BY <1>3 DEF Load
  <2>3. \A s \in Threads : th[s].pc \notin {"stage", "staged", "renamed", "synced"}
    BY <1>3 DEF Load, CInv, Own
  <2>4. \A s \in Threads : Own(s)'
    <3>1. CASE th[t].txn \subseteq Base.val
      BY <1>3, <2>3, <3>1 DEF Load, Release, TypeOK, Own
    <3>2. CASE ~(th[t].txn \subseteq Base.val)
      BY <1>3, <2>1, <2>2, <2>3, <3>2 DEF Load, TypeOK, Own
    <3> QED BY <3>1, <3>2
  <2>5. resident' = resident \/ resident' = Present(file)
    BY <1>3 DEF Load
  <2> QED BY <2>2, <2>4, <2>5 DEF CInv, ResidentMatches
<1>4. ASSUME NEW t \in Threads, StageRefused(t) \/ StageFails(t) \/ RenameFails(t) PROVE CInv'
  <2>1. \A s \in Threads : Own(s)'
    BY <1>4, OwnLeft DEF StageRefused, StageFails, RenameFails
  <2> QED BY <1>4, <2>1 DEF StageRefused, StageFails, RenameFails, CInv, ResidentMatches
<1>5. ASSUME NEW t \in Threads, Stage(t) PROVE CInv'
  <2>1. Own(t)'
    <3>1. Own(t) /\ th[t] \in Thread
      BY DEF CInv, TypeOK
    <3>2. th'[t] = [th[t] EXCEPT !.pc = "staged"]
      BY <1>5 DEF Stage, TypeOK
    <3>3. lock' = t /\ th'[t].pc = "staged" /\ th'[t].base = file' /\ th'[t].txn = th[t].txn
      BY <1>5, <3>1, <3>2 DEF Stage, Own
    <3>4. temp'.state = Candidate(t, inodes + 1) /\ inodes' = inodes + 1
      BY <1>5 DEF Stage
    <3>5. temp'.state.ino = inodes'
      BY <3>4 DEF Candidate
    <3>6. inodes \in Nat /\ (resident'.here => resident'.state.ino \in Nat /\ resident'.state.ino <= inodes)
      BY <1>5 DEF Stage, TypeOK, CInv
    <3>7. (temp.state = Candidate(t, temp.state.ino))'
      BY <1>5, <3>1, <3>3, <3>4, <3>5 DEF Candidate, Own, Stage
    <3> QED BY <3>3, <3>4, <3>5, <3>6, <3>7 DEF Own
  <2>2. \A s \in Threads \ {t} : th[s].pc \notin {"stage", "staged", "renamed", "synced"} /\ th'[s] = th[s]
    BY <1>5 DEF Stage, TypeOK, CInv, Own
  <2>3. \A s \in Threads : Own(s)'
    BY <2>1, <2>2 DEF Own
  <2> QED BY <1>5, <2>3 DEF Stage, TypeOK, CInv, ResidentMatches
<1>6. ASSUME NEW t \in Threads, Rename(t) PROVE CInv'
  <2>1. Own(t)'
    BY <1>6 DEF Rename, Candidate, TypeOK, CInv, Own
  <2>2. \A s \in Threads \ {t} : th[s].pc \notin {"stage", "staged", "renamed", "synced"} /\ th'[s] = th[s]
    BY <1>6 DEF Rename, TypeOK, CInv, Own
  <2>3. \A s \in Threads : Own(s)'
    BY <2>1, <2>2 DEF Own
  <2>4. ~ResidentMatches' /\ file'.ino <= inodes'
    BY <1>6 DEF Rename, CInv, Own, ResidentMatches
  <2> QED BY <1>6, <2>3, <2>4 DEF Rename, CInv
<1>7. ASSUME NEW t \in Threads, SyncFails(t) PROVE CInv'
  <2>1. \A s \in Threads : Own(s)'
    BY <1>7, OwnLeft DEF SyncFails
  <2> QED BY <1>7, <2>1 DEF SyncFails, CInv, ResidentMatches
<1>8. ASSUME NEW t \in Threads, Sync(t) PROVE CInv'
  <2>1. Own(t)'
    BY <1>8 DEF Sync, Candidate, TypeOK, CInv, Own
  <2>2. \A s \in Threads : s # t => th'[s] = th[s]
    BY <1>8 DEF Sync, TypeOK
  <2>3. \A s \in Threads : Own(s)'
    BY <1>8, <2>1, <2>2, OwnKept DEF Sync
  <2> QED BY <1>8, <2>3 DEF Sync, CInv, ResidentMatches
<1>9. ASSUME NEW t \in Threads, Publish(t) PROVE CInv'
  <2>1. \A s \in Threads : Own(s)'
    BY <1>9, OwnLeft DEF Publish
  <2>2. file = Candidate(t, file.ino)
    BY <1>9 DEF Publish, CInv, Own
  <2> QED BY <1>9, <2>1, <2>2 DEF Publish, CInv, ResidentMatches
<1>10. CASE WriteBack
  <2>1. \A s \in Threads : Own(s)'
    BY <1>10 DEF WriteBack, CInv, Own, Candidate
  <2> QED BY <1>10, <2>1 DEF WriteBack, CInv, ResidentMatches
<1>11. CASE Replace
  <2>1. lock = NoThread
    BY <1>11 DEF Replace, TypeOK
  <2>2. \A s \in Threads : th[s].pc \notin {"stage", "staged", "renamed", "synced"}
    BY <2>1 DEF CInv, Own
  <2>3. \A s \in Threads : Own(s)'
    BY <1>11, <2>2 DEF Replace, Own
  <2>4. /\ inodes' = inodes + 1 /\ file'.ino = inodes + 1 /\ inodes \in Nat
        /\ UNCHANGED <<durable, resident>>
    BY <1>11 DEF Replace, TypeOK
  <2>5. resident.here => resident.state.ino \in Nat /\ resident.state.ino <= inodes
    BY DEF TypeOK, CInv
  <2>6. ~ResidentMatches'
    BY <2>4, <2>5 DEF ResidentMatches
  <2>7. durable.ino \in Nat /\ durable.ino <= inodes
    BY DEF TypeOK, CInv
  <2> QED BY <2>3, <2>4, <2>5, <2>6, <2>7 DEF CInv
<1>12. CASE ProcessDies \/ PowerLoss
  <2>1. \A s \in Threads : th'[s] = Idle
    BY <1>12 DEF ProcessDies, PowerLoss
  <2>2. \A s \in Threads : Own(s)'
    BY <2>1 DEF Own
  <2> QED BY <1>12, <2>2 DEF ProcessDies, PowerLoss, CInv, ResidentMatches
<1>13. CASE UNCHANGED vars
  BY <1>13 DEF vars, CInv, Own, Candidate, ResidentMatches
<1> QED
  BY <1>1, <1>2, <1>3, <1>4, <1>5, <1>6, <1>7, <1>8, <1>9, <1>10, <1>11,
     <1>12, <1>13 DEF Next, Write, Environment

(* As long as outsiders replace the file between transactions only, what the *)
(* log serves from memory under the identity check is what the file holds,   *)
(* and a transaction is built on exactly that.                               *)
THEOREM ResidentIsTheFile ==
  ASSUME ~ReplaceInWrite
  PROVE  Spec => []ResidentCoherent
<1>1. CInv /\ [Next]_vars => CInv'
  BY NextCInv
<1>2. CInv => ResidentCoherent
  BY DEF CInv, Own, ResidentCoherent
<1> QED
  BY InitCInv, <1>1, <1>2, PTL DEF Spec

\* The step NoLostUpdate is about.
Grows == crashes' = crashes /\ replaced' = replaced /\ file' # file
         => file.val \subseteq file'.val /\ file'.gen = file.gen + 1

(* Whatever the threads' order, a transaction writes the file it read with   *)
(* its own effect added: none is lost between a load and a rename.           *)
THEOREM NoUpdateIsLost ==
  ASSUME ~ReplaceInWrite
  PROVE  Spec => NoLostUpdate
<1>1. CInv /\ [Next]_vars => CInv'
  BY NextCInv
<1>2. CInv /\ [Next]_vars => [Grows]_vars
  <2> SUFFICES ASSUME CInv, [Next]_vars, crashes' = crashes, replaced' = replaced, file' # file
               PROVE  file.val \subseteq file'.val /\ file'.gen = file.gen + 1
    BY DEF Grows
  <2>1. crashes \in Nat /\ replaced \in Nat
    BY DEF CInv, TypeOK
  <2>2. PICK t \in Threads : Rename(t)
    <3> USE DEF disk, bound
    <3>1. ASSUME NEW t \in Threads, NEW x \in Txn PROVE ~EnsureStorage(t, x)
      BY DEF EnsureStorage
    <3>2. ASSUME NEW t \in Threads PROVE ~LoadCorrupt(t) /\ ~Load(t) /\ ~StageRefused(t) /\ ~StageFails(t)
      BY DEF LoadCorrupt, Load, StageRefused, StageFails
    <3>3. ASSUME NEW t \in Threads PROVE ~Stage(t) /\ ~RenameFails(t) /\ ~SyncFails(t) /\ ~Sync(t) /\ ~Publish(t)
      BY DEF Stage, RenameFails, SyncFails, Sync, Publish
    <3>4. ~WriteBack /\ ~Replace /\ ~ProcessDies /\ ~PowerLoss /\ ~UNCHANGED vars
      BY <2>1 DEF WriteBack, Replace, ProcessDies, PowerLoss, vars
    <3> QED BY <3>1, <3>2, <3>3, <3>4 DEF Next, Write, Environment
  <2>3. file' = temp.state /\ temp.state = Candidate(t, temp.state.ino) /\ th[t].base = file
    BY <2>2 DEF Rename, CInv, Own
  <2> QED BY <2>3 DEF Candidate
<1>3. [][Grows]_vars => NoLostUpdate
  BY PTL DEF Grows, NoLostUpdate
<1> QED
  BY InitCInv, <1>1, <1>2, <1>3, PTL DEF Spec

\* The step TornIsFrozen is about.
Frozen == Orphan /\ crashes' = crashes => UNCHANGED <<file, temp, acked>>

(* A staged file that no thread is writing is never adopted, written over or *)
(* confirmed: until the process dies the log stands still.                   *)
THEOREM TornStays ==
  ASSUME MaxReplace = 0
  PROVE  Spec => TornIsFrozen
<1>1. CInv /\ [Next]_vars => CInv'
  BY NextCInv
<1>2. CInv /\ [Next]_vars => [Frozen]_vars
  <2> SUFFICES ASSUME CInv, [Next]_vars, temp.here, \A t \in Threads : th[t].pc # "staged",
                      crashes' = crashes
               PROVE  UNCHANGED <<file, temp, acked>>
    BY DEF Frozen, Orphan
  <2>1. crashes \in Nat /\ replaced \in 0 .. MaxReplace
    BY DEF CInv, TypeOK
  <2>2. \A t \in Threads : th[t].pc \notin {"renamed", "synced"}
    BY DEF CInv, Own
  <2>3. ~Replace /\ ~ProcessDies /\ ~PowerLoss
    BY <2>1 DEF Replace, ProcessDies, PowerLoss
  <2>4. ASSUME NEW t \in Threads PROVE ~Stage(t) /\ ~Rename(t) /\ ~SyncFails(t) /\ ~Sync(t) /\ ~Publish(t)
    BY <2>2 DEF Stage, TempPresent, Rename, SyncFails, Sync, Publish
  <2> QED BY <2>3, <2>4 DEF Next, Write, Environment, EnsureStorage, LoadCorrupt, Load, StageRefused,
                            StageFails, RenameFails, WriteBack, vars, disk, bound
<1>3. [][Frozen]_vars => TornIsFrozen
  BY PTL DEF Frozen, TornIsFrozen
<1> QED
  BY InitCInv, <1>1, <1>2, <1>3, PTL DEF Spec
=============================================================================
