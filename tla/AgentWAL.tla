------------------------------ MODULE AgentWAL ------------------------------
(***************************************************************************)
(* The agent engine's write-ahead log (AgentNativeWAL.mm with the resident *)
(* state of wal_resident.rs): one file holding the whole engine state,     *)
(* replaced by write-temp, fsync, rename, fsync-directory under a          *)
(* process-wide lock per storage root, and cached in a resident handle     *)
(* that is believed only while the file it was read from is still there.   *)
(*                                                                         *)
(* A stored state is abstracted to the set of transactions whose effect it *)
(* contains; a mutation adds its transaction, or is the explicit no-op     *)
(* when the effect is already there.                                       *)
(***************************************************************************)
EXTENDS Naturals, FiniteSets

CONSTANTS Txn,            \* transactions the engine may ask for
          Threads,        \* native threads (any WAL instance on this root)
          NoThread,       \* the lock is free
          MaxFaults,      \* bound: failing writes, renames and fsyncs
          MaxCrashes,     \* bound: process deaths and power losses
          MaxReplace,     \* bound: replacements of the file from outside
          ReplaceInWrite  \* may the outsider strike while the lock is held?

ASSUME WALAssumption ==
  /\ NoThread \notin Threads
  /\ MaxFaults \in Nat /\ MaxCrashes \in Nat /\ MaxReplace \in Nat
  /\ ReplaceInWrite \in BOOLEAN

VARIABLES file,       \* what agent-native-wal-v1.json resolves to now
          durable,    \* what it resolves to after losing power
          temp,       \* the staged .tmp file
          inodes,     \* inode numbers handed out so far
          lock,       \* the per-root recursive lock
          resident,   \* the process-wide committed state and its identity
          th,         \* each thread's transaction in progress
          acked,      \* transactions answered with a committed write
          faults, crashes, replaced

vars == <<file, durable, temp, inodes, lock, resident, th, acked,
          faults, crashes, replaced>>

disk  == <<file, durable, temp, inodes>>
bound == <<faults, crashes, replaced>>

(***************************************************************************)
(* A state is its generation, the effects in it, and the inode of the file *)
(* that holds it.  Inode 0 is the missing file, read as the fresh state.   *)
(***************************************************************************)
State    == [gen : Nat, val : SUBSET Txn, ino : Nat]
Missing  == [gen |-> 0, val |-> {}, ino |-> 0]
Absent   == [here |-> FALSE, state |-> Missing]
Present(s) == [here |-> TRUE, state |-> s]
Slot     == [here : BOOLEAN, state : State]

PCs  == {"idle", "enter", "stage", "staged", "renamed", "synced"}
Idle == [pc |-> "idle", txn |-> {}, base |-> Missing]
Thread == [pc : PCs, txn : SUBSET Txn, base : State]

Init ==
  /\ file = Missing /\ durable = Missing /\ temp = Absent /\ inodes = 0
  /\ lock = NoThread /\ resident = Absent
  /\ th = [t \in Threads |-> Idle]
  /\ acked = {}
  /\ faults = 0 /\ crashes = 0 /\ replaced = 0

\* Mutant: nobody looks for a staged file.
TempIgnored == FALSE

TempPresent == temp.here

\* Mutant: the candidate records the request itself, not its effect.
CandidateNested(t, ino) == [gen |-> th[t].base.gen + 1,
                            val |-> th[t].base.val \cup {th[t].txn},
                            ino |-> ino]

\* The candidate a thread writes: one generation on, with its effect added.
Candidate(t, ino) == [gen |-> th[t].base.gen + 1,
                      val |-> th[t].base.val \cup th[t].txn,
                      ino |-> ino]

\* Mutant: the resident handle is believed without looking at the file.
ResidentTrusted == resident.here

\* The identity comparison in front of every use of the resident handle.
ResidentMatches == resident.here /\ resident.state.ino = file.ino

Release(t) == lock' = NoThread /\ th' = [th EXCEPT ![t] = Idle]

-----------------------------------------------------------------------------
(***************************************************************************)
(* performAtomicTransaction:                                               *)
(***************************************************************************)

\* ensureStorageWithError: takes and drops the lock around one load.  A staged
\* file left behind makes the load, and the transaction, fail as corrupt.
EnsureStorage(t, x) ==
  /\ th[t].pc = "idle" /\ lock = NoThread
  /\ ~TempPresent
  /\ th' = [th EXCEPT ![t] = [Idle EXCEPT !.pc = "enter", !.txn = {x}]]
  /\ UNCHANGED <<disk, lock, resident, acked, bound>>

\* Under the lock: committed state from the resident handle when it still
\* describes the file, else from the file (which is then adopted).
Base == IF ResidentMatches THEN resident.state ELSE file

\* The load of the file failed: a staged file is there.
LoadCorrupt(t) ==
  /\ th[t].pc = "enter" /\ lock = NoThread
  /\ ~ResidentMatches /\ TempPresent
  /\ th' = [th EXCEPT ![t] = Idle]
  /\ UNCHANGED <<disk, lock, resident, acked, bound>>

Load(t) ==
  /\ th[t].pc = "enter" /\ lock = NoThread
  /\ ResidentMatches \/ ~TempPresent
  /\ resident' = IF ResidentMatches THEN resident ELSE Present(file)
  /\ IF th[t].txn \subseteq Base.val
     THEN Release(t)                     \* no-op: answered YES, nothing written
     ELSE /\ lock' = t
          /\ th' = [th EXCEPT ![t].pc = "stage", ![t].base = Base]
  /\ UNCHANGED <<disk, acked, bound>>

\* writeStateLocked: refuses over a staged file, and any failure up to the
\* verification of the staged bytes unlinks them: provably not committed.
StageRefused(t) ==
  /\ th[t].pc = "stage" /\ lock = t
  /\ TempPresent
  /\ Release(t)
  /\ UNCHANGED <<disk, resident, acked, bound>>

StageFails(t) ==
  /\ th[t].pc = "stage" /\ lock = t
  /\ ~TempPresent /\ faults < MaxFaults
  /\ faults' = faults + 1
  /\ Release(t)
  /\ UNCHANGED <<disk, resident, acked, crashes, replaced>>

Stage(t) ==
  /\ th[t].pc = "stage" /\ lock = t
  /\ ~TempPresent
  /\ inodes' = inodes + 1
  /\ temp' = Present(Candidate(t, inodes + 1))
  /\ th' = [th EXCEPT ![t].pc = "staged"]
  /\ UNCHANGED <<file, durable, lock, resident, acked, bound>>

\* Mutant: a failed rename is published as if it had been committed.
RenameFailsPublished(t) ==
  /\ th[t].pc = "staged" /\ lock = t
  /\ faults < MaxFaults
  /\ faults' = faults + 1
  /\ resident' = Present(Candidate(t, file.ino))
  /\ Release(t)
  /\ UNCHANGED <<disk, acked, crashes, replaced>>

\* Mutant: the early return after a failed rename forgets the lock.
RenameFailsLocked(t) ==
  /\ th[t].pc = "staged" /\ lock = t
  /\ faults < MaxFaults
  /\ faults' = faults + 1
  /\ th' = [th EXCEPT ![t] = Idle]
  /\ UNCHANGED <<disk, lock, resident, acked, crashes, replaced>>

\* A failing rename (or the after_temp_write fault) returns without unlinking
\* the staged file.  Nothing was committed and the resident handle stays.
RenameFails(t) ==
  /\ th[t].pc = "staged" /\ lock = t
  /\ faults < MaxFaults
  /\ faults' = faults + 1
  /\ Release(t)
  /\ UNCHANGED <<disk, resident, acked, crashes, replaced>>

Rename(t) ==
  /\ th[t].pc = "staged" /\ lock = t
  /\ file' = temp.state /\ temp' = Absent
  /\ th' = [th EXCEPT ![t].pc = "renamed"]
  /\ UNCHANGED <<durable, inodes, lock, resident, acked, bound>>

\* The directory fsync.  When it fails the outcome is unknown: the bytes may or
\* may not be on stable storage, and the resident handle is dropped.
SyncFails(t) ==
  /\ th[t].pc = "renamed" /\ lock = t
  /\ faults < MaxFaults
  /\ faults' = faults + 1
  /\ durable' \in {durable, file}
  /\ resident' = Absent
  /\ Release(t)
  /\ UNCHANGED <<file, temp, inodes, acked, crashes, replaced>>

\* Mutant: committed is reported after the rename, without the fsync.
SyncSkipped(t) ==
  /\ th[t].pc = "renamed" /\ lock = t
  /\ th' = [th EXCEPT ![t].pc = "synced"]
  /\ UNCHANGED <<disk, lock, resident, acked, bound>>

Sync(t) ==
  /\ th[t].pc = "renamed" /\ lock = t
  /\ durable' = file
  /\ th' = [th EXCEPT ![t].pc = "synced"]
  /\ UNCHANGED <<file, temp, inodes, lock, resident, acked, bound>>

\* DSHAgentWALPublish with a committed confirmation: the candidate becomes the
\* resident state under the identity the file has now, and the caller is told.
Publish(t) ==
  /\ th[t].pc = "synced" /\ lock = t
  /\ resident' = IF resident.here THEN Present(Candidate(t, file.ino))
                 ELSE Absent
  /\ acked' = acked \cup th[t].txn
  /\ Release(t)
  /\ UNCHANGED <<disk, bound>>

-----------------------------------------------------------------------------
(***************************************************************************)
(* The environment.                                                        *)
(***************************************************************************)

\* The file system writes the directory back on its own.
WriteBack ==
  /\ durable # file /\ durable' = file
  /\ UNCHANGED <<file, temp, inodes, lock, resident, th, acked, bound>>

\* A fixture, a restore or a tool replaces the file behind the store's back.
Replace ==
  /\ replaced < MaxReplace
  /\ lock = NoThread \/ ReplaceInWrite
  /\ file' = [gen |-> 0, val |-> {}, ino |-> inodes + 1]
  /\ inodes' = inodes + 1
  /\ replaced' = replaced + 1
  /\ UNCHANGED <<durable, temp, lock, resident, th, acked, faults, crashes>>

\* The process dies.  Everything in memory is gone, the disk keeps its state.
ProcessDies ==
  /\ crashes < MaxCrashes /\ crashes' = crashes + 1
  /\ lock' = NoThread /\ resident' = Absent
  /\ th' = [t \in Threads |-> Idle]
  /\ UNCHANGED <<disk, acked, faults, replaced>>

\* The device loses power.  A staged file that was never synced as a directory
\* entry may or may not still be there.
PowerLoss ==
  /\ crashes < MaxCrashes /\ crashes' = crashes + 1
  /\ file' = durable
  /\ temp' \in {temp, Absent}
  /\ lock' = NoThread /\ resident' = Absent
  /\ th' = [t \in Threads |-> Idle]
  /\ UNCHANGED <<durable, inodes, acked, faults, replaced>>

-----------------------------------------------------------------------------
Write(t) == \/ LoadCorrupt(t) \/ Load(t)
            \/ StageRefused(t) \/ StageFails(t) \/ Stage(t)
            \/ RenameFails(t) \/ Rename(t)
            \/ SyncFails(t) \/ Sync(t) \/ Publish(t)

Environment == WriteBack \/ Replace \/ ProcessDies \/ PowerLoss

Next == \/ \E t \in Threads : Write(t) \/ \E x \in Txn : EnsureStorage(t, x)
        \/ Environment

Spec == Init /\ [][Next]_vars

\* A thread inside the lock is never paused forever by the host.
Fairness == \A t \in Threads : WF_vars(lock = t /\ Write(t))

FairSpec == Spec /\ Fairness

-----------------------------------------------------------------------------
(***************************************************************************)
(* Properties.                                                             *)
(***************************************************************************)

TypeOK ==
  /\ file \in State /\ durable \in State
  /\ temp \in Slot /\ inodes \in Nat
  /\ lock \in Threads \cup {NoThread}
  /\ resident \in Slot
  /\ th \in [Threads -> Thread]
  /\ acked \subseteq Txn
  /\ faults \in 0..MaxFaults /\ crashes \in 0..MaxCrashes
  /\ replaced \in 0..MaxReplace

\* A transaction answered "committed" is on stable storage: neither a process
\* death nor a power loss, at any later point, takes its effect away
\* (writeStateLocked reports Committed only after the directory fsync).
AckedDurable == acked \subseteq durable.val

\* The resident handle never speaks for a file it does not describe: while its
\* identity matches the file on disk, its content is that file's content, and
\* a thread inside the lock builds on exactly what is on disk
\* (DSHAgentWALCommittedState and DSHAgentWALPublish).
ResidentCoherent ==
  /\ ResidentMatches => resident.state = file
  /\ \A t \in Threads :
       th[t].pc \in {"stage", "staged"} => th[t].base = file

\* No transaction overwrites another one's effect: outside a replacement or a
\* power loss the file only ever grows, by one generation at a time.
NoLostUpdate ==
  [][crashes' = crashes /\ replaced' = replaced /\ file' # file
       => file.val \subseteq file'.val /\ file'.gen = file.gen + 1]_vars

\* A staged file no thread is writing wedges the store: from then on no
\* transaction changes or adopts anything (a torn transaction is rejected on
\* every load, never half-adopted and never written over).
Orphan == temp.here /\ \A t \in Threads : th[t].pc # "staged"
TornIsFrozen ==
  [][Orphan /\ crashes' = crashes => UNCHANGED <<file, temp, acked>>]_vars

\* Every path through the critical section drops the root's lock, the early
\* returns of writeStateLocked included.
LockReleased == \A t \in Threads : lock = t ~> lock # t

\* The log implements the abstract durable store.
Store == INSTANCE DurableStore
           WITH visible <- file.val, stable <- durable.val, promised <- acked
ImplementsStore == Store!Spec

=============================================================================
