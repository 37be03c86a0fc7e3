# Rish: a TLA+ development of the agent engine and its controllers

Rish is a mobile agent application: React Native screens and controllers
(`src/apps/mobile/src`), native iOS hosts in Objective-C++
(`src/modules/rish/ios/Sources`) and a Rust core that holds the rules the
platforms share (`src/modules/rish/core/crates/rish-agent-core/src`). The core
answers questions about states; the hosts do the I/O and decide when it
happens. This development models the parts where a mistake costs something that
cannot be undone: a provider request that is billed twice, a tool that runs
twice or without consent, an answer, an approval or an edit that is lost, a
wish to cancel that nobody hears.

## 1. Inventory

### The parts and how they interact

```
 CompletionController (JS)          one completion per conversation
        |  native bridge
 AgentRuntimeCoordinator            attempt: prepare, rounds, batches, finalize, recover
        |
        +-- AgentProviderRoundService --- DSHCompletionProviderTransport --- provider
        |        |  round journal
        +-- AgentToolBatchService / AgentToolExecutionService --- tool executors
        |        |  execution ledger
        +-- transcript store, prepared attempt store
                 |
        AgentNativeWAL  (one file, one lock and one resident state per storage root)

 SessionSnapshotStore (compare-and-swap)  <-- workspace clearance, workspace journal
```

Everything under the coordinator keeps its state in one document, the
write-ahead log's `state`, and every change of it is one *transaction*: load,
apply a reducer of the core, validate the whole result, write. What happens
between two transactions is memory and is lost with the process.

| Component | State it keeps | Operations | What is hard | What makes it correct |
|---|---|---|---|---|
| Agent write-ahead log (`AgentNativeWAL.mm`, `wal_resident.rs`) | the file, the staged file, the resident state, the root's lock | load, transact, read operation, reconcile owner loss | crash and power loss between any two system calls, a failure with an unknown outcome, a cache in front of a file | what was answered as committed stays; no lost update; the cache never speaks for another file |
| Provider rounds (`AgentProviderRoundService.mm`, `round_journal.rs`) | a row and a dispatch marker per round; tasks, contexts and refusal evidence in memory | complete, retry, cancel, recover, replay | the wait for the provider is off the queue; cancel, timeout and answer race; the process dies while a request is out | a request is billed once; a retry is offered only when nothing ran |
| WAL operation log (`wal_operations.rs`) | one entry per operation id | start, commit, replay | an operation left open by a crash is repeated | a repeated operation gets the answer it had, never a second effect |
| Provider transport (`DSHCompletionProviderTransport.mm`) | one context per request | bind, settle, cancel | three parties may finish one context | the first one decides; evidence of a refusal is kept only when it proves something |
| Execution ledger (`AgentExecutionLedger.mm`, `ledger_ops.rs`, `ledger_batch.rs`) | a row and a marker per tool call, the effect gate of the batch | prepare, open gate, claim, heartbeat, mark, settle, cancel, reconcile | several calls share one gate and one transcript; the process dies around an effect it cannot take back | a side effect runs at most once, in order, only after approval |
| Tool batch and execution services (`AgentToolBatchService.mm`, `AgentToolExecutionService.mm`) | owners and executors in memory | prepare, bind a decision, execute, recover, cancel | a runtime tool is off the queue while decisions, cancellation and recovery go on | what a row or receipt says is what happened |
| Transcript store, prepared attempt store, runtime coordinator | transcripts, attempts, authorities | prepare, finalize, settle, discard, recover | one attempt is ended through several stores | nothing is discarded that a row still refers to |
| Session snapshot store (`SessionSnapshotStore.mm`, `session_schema/cas.rs`) | the session, its revision, the operations seen | persist (CAS), query, load | an outcome unknown to the caller, a repeat of a persisted operation | a revision is written by one operation only |
| Workspace clearance, authority and journal | receipts, records, the phase of an operation | issue, consume; create, bootstrap, delete; recover | a crash in each phase | destruction only under a receipt for this very revision; recovery finishes or undoes |
| Project access, Git and workspace tools | files | single tool calls | file-system races | what a tool reports is what it did |
| Project context | grants and snapshots | preview, grant, swap, revoke | a swap cut short | what is sent was shown |
| Completion controller (`CompletionController.ts`) | the run, its epoch and pending saves; the attempts with their journals | send, retry, resume, cancel, abandon, repeat a save, leave and reopen | every `await`; a save or a call whose outcome is unknown; cancellation during either | the journal is on disk before native is asked; an abandoned or cancelled run asks for nothing; no work is shown that nobody does |
| Mobile store (`store.ts`, `reducer.ts`, `HomeScreen.tsx`, `SessionPersistence.ts`) | the document in memory, the queue of saves, the transaction of each owner | change, save, commit or take back, restore, hydrate | several owners change one document and save it in order, answers come late | no accepted checkpoint and no edit is lost, whatever another owner takes back |
| Workspace controllers (`WorkspaceBindingController.ts`) | the active call, the published one, the latch of an unknown save, the creation id | pick, open Files, chat in project, retry | eight awaits between capture and amendment; surfaces close, conversations change | only the owner of the call is bound, one workspace is created |
| Project context controllers (JS) | the preview and grant of a send | preview, grant, revoke | a late answer | what is sent was shown |
| Bridges, codec, accounts, guest, interface, build | - | conversions and I/O | - | - |

`PROJECT.json` lists the same parts with all their source files, and under
"hazards" the lines where they bite.

### The plan

1. `AgentWAL` over `DurableStore`: the commit protocol. *Done.*
2. `ProviderRound`: rounds over the journal, the transport and the owner-loss
   pass. *Done.*
3. `ExecutionLedger` over `OrderedCalls`: the rows of one tool batch, from the
   decisions of the user to the settlement, and their owner loss. *Done.*
   Left for a later module: heartbeats and the reservation of bytes.
4. `SessionStore`: the document in memory, its queue of saves, and the native
   compare-and-swap with operation replay. *Done.* Without workspace clearance,
   which nothing reaches (see section 9).
5. `AttemptJournal`, `Awaits`, `DirectTurn`, `AgentTurn`, `AgentRuntime` and
   `Completion`: the completion controller over the saved document and the native
   runtime. *Done.* Left: the event capacity of a journal, and the deletion of a
   conversation.
6. `WorkspaceBinding`: the binding controller and its screen. *Done.*
7. Proofs: the log, the rounds, the ledger, the saved session and the binding of
   a workspace. *Done:* every safety property their runs check is a theorem. The
   completion controller: *done* for `TypeOK`, `NativeReleased` and `DispatchIsDurable`,
   and for `CancelIsHeard` without a project. Left: the rest of it, `Consent`, `OverIsQuiet`
   and `Driven`.
8. `AgentAttempt`: `AgentRuntime` refined by the compositions of 2 and 3 with
   transcripts, so that its operators need not be trusted. *Open.*
9. `WorkspaceJournal`: phases of a destructive operation and their recovery;
   project context: the swap of a snapshot. *Open.*

Each module takes its bounds as CONSTANTS with a named assumption, has an `MC`
module with TLC's instances, states its invariants as conjunctions of named
parts and uses recursive functions or folds but no RECURSIVE operator, so that
the module can be proved about as it is checked.

## 2. The write-ahead log

`DurableStore` is what the engine relies on: a set of effects that readers see,
of which a part is on stable storage; an effect is promised only from that part
and power loss takes away only the rest.

`AgentWAL` is `performAtomicTransaction:` and `writeStateLocked:` with the
resident state of `wal_resident.rs`.

| In the model | In the code |
|---|---|
| `file`, `durable`, `temp` | what the path resolves to, what it resolves to after power loss, the staged `.tmp` |
| `lock` | the recursive lock of the storage root |
| `resident` | the process-wide resident state with the identity of its file (device, inode, size and mtime are one `ino`) |
| `th[t]` | a thread between `ensureStorageWithError` and the end of its transaction |
| `EnsureStorage`, `LoadCorrupt`, `Load` | load before the lock, load under it, the no-op answer |
| `StageRefused`, `StageFails`, `Stage` | the staged write and its verification |
| `RenameFails`, `Rename`, `SyncFails`, `Sync`, `Publish` | the commit point, the directory fsync and the three-state confirmation |
| `WriteBack`, `Replace`, `ProcessDies`, `PowerLoss` | the environment |

A stored state is the set of transactions whose effect it contains. That is all
the properties tell apart; what a reducer does to a state is the business of the
other modules.

| Run | Shows |
|---|---|
| `AgentWAL_safety` | with two threads, two transactions, two faults and two crashes: acknowledged effects stay on stable storage (`AckedDurable`), the log implements `DurableStore` (`ImplementsStore`), a staged file nobody is writing freezes the store rather than being adopted or written over (`TornIsFrozen`), and the lock always comes free (`LockReleased`) |
| `AgentWAL_replace` | the file replaced from outside, twice, between transactions: `ResidentCoherent`, `NoLostUpdate` |

Two threads and two transactions are enough for one to be overtaken at every
step by another with a different effect. Two crashes and two faults give a crash
during the recovery from a crash, a fault after a fault, and both in either
order. The properties compare a step with its predecessor, not with counts of
steps.

*Fairness.* Only a thread inside the lock is assumed to run on
(`WF_vars(lock = t /\ Write(t))`): the critical section makes no wait of its
own. That the host schedules threads waiting for the lock is not assumed.

*Proved* (`AgentWALProofs`). `AckedDurable` is not inductive: a power loss could
take the file back to a state that lacks an acknowledged effect, and a thread
could build on a resident state that lacks one. `IInv` adds, for each position
in the critical section, what the thread has already made of the disk (`Phase`);
that stable storage never holds more than the file (so write-back loses
nothing); and that the resident state carries an inode number handed out before,
so that the next staged file cannot be mistaken for it. `TypeCorrect` needs
`WALAssumption` only. `CommittedIsDurable` and `Implementation` assume
`MaxReplace = 0`: a file replaced from outside does lose what was acknowledged.
`Implementation` maps each action to `Apply`, `Flush`, `Promise`, `PowerLoss` or a
stutter of the store.

`ResidentIsTheFile` and `NoUpdateIsLost` allow replacements between transactions and
need another invariant, `CInv`: each thread inside the lock works on what the file
held when it read it (`Own`), and no file appears under an inode that the resident
state may have been read from. They assume `~ReplaceInWrite`: what a replacement
between the rename and the identity read does is the hazard at
`AgentNativeWAL.mm:1521`. `TornStays` (`TornIsFrozen`) is an action property and
assumes `MaxReplace = 0`, for a replacement is a change of the file like any other.

Only model-checked: the liveness property.

*Abstracted.* A replacement always has a new identity: an inode reused with the
same size and mtime is outside the model. The answer YES of a transaction that
finds its effect already there does not add to `acked`; after an unknown outcome
that effect may not be on stable storage yet (a hazard without a property).
Schema migration and the compaction of acknowledged evidence are not modelled.

## 3. Provider rounds

`ProviderRound` is one attempt: the rows and markers of its rounds, the
transcript, the operation log, and every call of
`completeAgentRoundV2`, its retry, `cancelAgentRound`, `recoverAgentRound` and
the owner-loss pass.

| In the model | In the code |
|---|---|
| `row`, `marker`, `transcript`, `authority`, `ops` | the WAL's round rows, dispatch markers, protected transcript, attempt authority and operation log |
| `queue` | the service's serial queue, held by one handler at a time |
| `live` | native task ids registered in this process |
| `call[o]` | the handler of operation `o`: its position, the CAS it holds, what is left to commit |
| `ctx`, `heard` | the transport's context of a request, and the refusal status it keeps |
| `net` | what the provider did with the request (external) |
| `Open`, `Refuse`, `Create`, `Claim`, `NotReady`, `NoRequestId`, `Mark`, `Close` | the handler on the queue, one WAL transaction at a time |
| `Send`, `Reply...`, `TimeOut` | the wait off the queue |
| `SettleAnswer`, `SettleLoss`, `Replay` | the handler back on the queue; a repeated call |
| `Cancel`, `Recover`, `OwnerLoss`, `Boot` | the other commands, and the start of a process |
| `AskRun`, `AskRetry`, `SettleBatch`, `Accept`, `TurnAway` | controller, ledger and provider (external) |

Each WAL transaction ends in one of the outcomes `AgentWAL` shows: done, provably
not done, or an error over an effect that is there (`Outcomes`).

| Run | Shows |
|---|---|
| `ProviderRound_safety` | three operations on two rounds, up to three launches, one failing transaction, two crashes: `BilledOnce`, `StoppedNeverRan`, `DispatchRelation`, `AnsweredOnce`, `AnswersHold`, `BootSucceeds`, `TerminalStays` |
| `ProviderRound_live` | two operations, one round: `CallReturns` |

Three operations on a round are a call, its retry and a repeat while either is
in progress; two rounds make the transcript and the authority move between them.
Three launches are the first one, a claim, and a claim after a claim; `MaxLaunch`
of the code is 8 and nothing else depends on the number. A third crash would
meet a state an earlier one has already produced: a crash leaves nothing but the
WAL, and every WAL state of the run is crashed into.

*Fairness.* A handler on the queue runs on; a context is bound; the bounded wait
(at most 900 s) fires. The strong fairness of `Settle(o)` is the order of the serial
queue: a call back from its wait is enqueued once, and every block in front of it
ends. Nothing is assumed of the provider, the controller or the user.

*Proved* (`ProviderRoundProofs`). The marker is a fence. `IInv` says: every
operation is asked for a round of this attempt (`Asked`); whoever has a request
with the provider, or is about to send one, stands behind a marker that says
`dispatched` (`MarkerFences`); no two operations of a round do (`OnePlaying`); the
refusal evidence is only kept for a call that waits, and is true (`HeardIsTrue`);
and rows fit markers (`DispatchRelation`). From it: `NeverBilledTwice` (because two
executions would both be behind the fence), `RetryIsSafe` (a row that offers a
retry stands before the fence, hence nobody is behind it) and `RowsFitMarkers`.
The marker goes back to `not_dispatched` only when the one request behind it was
refused, which is where `HeardIsTrue` and `OnePlaying` are needed. All need
`RoundAssumption` only.

`SettledIsFinal` (`TerminalStays`) goes over the shapes of a step as far as the rows
see it: rows shift, one is created, one is completed, or a batch settles one.
`AnswersStayTrue`, `OneAnswerPerRound` and `EveryBootSucceeds` need more than the
fence, because all three relate the rows to the transcript and the attempt's
authority. `AInv` adds to `IInv`: what a call holds fits the row it is about, and
operation log, requests and contexts fit the calls (`OpsFit`); the transcript is an
alternation of an assistant message and its tools, round by round, the authority
follows the last complete one, and an unfinished round stands at the end
(`Alternates`); and each answer given says what its row says, with a completed
round paid for (`AnswersInv`). That a round has at most one assistant message,
which is what `AnsweredOnce` counts, follows from the alternation without any
induction over the sequence: its positions determine the round.

Only model-checked: the liveness property.

## 4. The execution ledger

`OrderedCalls` is what a batch promises: its calls are taken in order, each runs
at most once and is answered at most once, never runs after its answer, and a
call answered as refused or stuck has not run. Once a call is stuck or in doubt,
no later call of the batch runs.

`ExecutionLedger` is the batch of one round: `prepare_agent_tool_batch`,
`bind_agent_approval`, `execute_agent_tool`, `recover_agent_tool`, the cancellation
of a call, the ledger query and the owner-loss pass.

| In the model | In the code |
|---|---|
| `kind` | what the registry makes of a call: `rejected`, a `read`, a `write` (files and Git), or a `runtime` tool (environments, programs and their services) |
| `state`, `receipt`, `dispatched` | the row, the outcome in its receipt, its dispatch marker |
| `gate`, `decision` | the batch's `effect_gate` and the approval bound to each call |
| `messages` | the tool messages added to the protected transcript since the round's answer |
| `queue` | the serial queue of `AgentRuntimeModule.mm`, kept by every tool but a runtime one while it runs |
| `alive`, `thread`, `result` | the registered native task, the execution's position, the effect the executor returned |
| `runs`, `applied` | the outside world: which tools were started, whose effect is there |
| `Prepare`, `Bind`, `BindAgain` | the batch, the first decision on a call, a decision on a decided call |
| `Execute`, `Claim`, `MarkDispatched`, `StoreFails` | `beginAgentToolWithRequest`: checks and effect gate, then a transaction each |
| `RunTool`, `Finish`, `FinishFails` | the executor, and `finishAgentToolContext` with its settlement |
| `Cancel`, `RequestCancel`, `Recover` | the cancellation of a row that was not dispatched, of a running one; settlement from proof |
| `OwnerLossPass`, `Query`, `Boot`, `Crash` | `reconcileOwnerLoss` as the query and the start run it; the host |

A transaction that does not commit leaves everything as it was (`StoreFails`,
`FinishFails`). One that commits without confirming it, which `AgentWAL` allows,
leaves the row written and its caller gone: `Claim` then `StoreFails`, the second
branch of `MarkDispatched`, `Finish`. Git and guest services are folded into `write` and `read`: they keep
the queue and their effects are judged alike.

| Run | Shows |
|---|---|
| `ExecutionLedger_safety` | three calls of every mixture of kinds: `Consent`, `NotRunIsTrue`, `OneAnswerEach`, `DoneIsDone`, `ReleasedNeverRuns`, and that the ledger implements `OrderedCalls` (`InOrderOnce`) |
| `ExecutionLedger_ownerloss` (violation) | the pass refuses a transcript that has moved, and the store does not open any more |

Three calls give each call of interest an earlier and a later one, and a batch
with two mutations and a call between them. Nothing else is bounded: the number
of crashes, decisions, queries and failing transactions is not, because none of
them is counted.

*Fairness.* None is assumed and no liveness is claimed. A call in doubt stops
its batch until the attempt is ended (section 6), and the app
never calls the exported ledger query.

*Proved* (`ExecutionLedgerProofs`), from `NAssumption` only. `IInv` is a conjunction
of types and six parts. `Fresh`: before the batch nothing exists. `Threads`: who
executes holds the queue or is a runtime tool behind its marker. `Positions`: at
each position of an execution the row and the marker are what the steps before
made them. `Fence`: a started call stands behind its marker, which no intent,
unknown or denied row has. `Order`: whoever was taken up has only resolved calls
before it. `Gate`: an open gate has all decisions, and only behind one is a
mutation executed or dispatched. `NothingWithoutConsent`,
`MarkerIsAFence` and `ReleaseIsFinal` follow from it. `ReceiptsAreTrue` adds that a
result "ok" in memory means an effect; `EachIsAnsweredOnce` adds nothing but the
counting of `messages` and holds by the step that ends a row. `Implementation`
maps `RunTool` to `Run`, every step that ends a row to `Answer`, `Prepare` to `Reject`,
and the rest to stutters; it needs `Order` (no later call runs) and `Fence` (no
refused call has run).

Only model-checked: the violation.

*Abstracted.* Only the calls themselves produce their effects: a file that has
the content of a write because somebody else wrote it would count as proof in
`recoverToolNamed`. The authority of the attempt stays prepared. A runtime tool's
effect counts as provable whenever it is there, although only an installation is
proved from what it left behind; the model thus recovers more than the code
does. The replay of a committed operation from the operation log is
`ProviderRound`'s subject and left out here.

## 5. The saved session

`SessionStore` is the chat store's document and everything it takes to save it.
Three owners change memory first and save afterwards: the agent's turn, a
workspace binding and the cleanup drain of a launch. Each keeps a transaction
with the state before and after its change, and commits it or takes it back
when the save is answered. The user edits meanwhile, and each save carries what
memory holds when it is asked for.

| In the model | In the code |
|---|---|
| `mem`, `choice`, `auth` | the chat store's state, the preferences store, `sessionAuthority` |
| `disk`, `tomb` | the native envelope with its generation and recent commits, the tombstone file |
| `queue` | `persistSessionCandidate`'s chain of saves; the head is between two awaits of `performSessionCandidate` |
| `pending` | `pendingSessionWrites`, the candidates whose outcome is unknown |
| `tx[o]`, `Owned`, `RolledBack`, `Proof` | the transactions of `store.ts`: who still owns its change, what taking it back restores, what proves a commit |
| `Start`, `Ask`, `Load`, `CasPersist`, `Query`, `Reconcile` | one step per await of a save |
| `TurnBegins`, `BindBegins`, `DrainBegins`, `PersistCurrent`, `Retry` | the owners |
| `Rename`, `Prefer`, `SettingsSave`, `Restore`, `Relaunch` | the user and the host |

Contents are stamps, so that a document stands for its digest. A row has three
parts, because the code tells three things apart: the attempt, the rest, and the
identity of the JavaScript object that `===` compares.

| Run | Shows |
|---|---|
| `SessionStore_safety` | one conversation, three changes, three failing calls, two launches: what a save is told is true (`AnswersTrue`), an operation becomes durable once although its id is used again (`OncePerOperation`), an accepted checkpoint stays (`CheckpointsStay`), no owner takes a user's edit back with its own change (`EditsSurvive`), and the map of pending writes holds no more candidates than calls have failed, and the one of the save under way (`NoLeak`): those of failed saves stay, though their callers have returned |

Three changes are one per owner, or two of an owner and an edit between them;
three failures are a lost write, a lost query of it and a failure of the repeat.
`MaxRecent = 1` makes a repeat meet a commit that has already left the retained
list, which the code's 64 makes rare, not impossible; `MaxPending = 2` fills the
map, which the code does with 16. One conversation is enough because the
transactions compare rows and roots, and other rows only ride along.

*Proved*, from `SizesAssumption` and `ChatAssumption` (there is a conversation, as an
owner's transaction is always about one). `SessionStoreProofs` has `TypeCorrect` and
what native is told and tells. A step does one of three things to the files
(`NativeStep`: nothing, tombstones, a commit) and one of three to the queue: the head
moves on, the head is answered, or a save is appended. `HistoryInv` is about these:

* `LogInv`: the envelope is the end of the history of all commits, and a commit that
  has left the retained list is in the tombstones. `NothingIsWrittenTwice` follows,
  for a repeat meets its operation in one or the other.
* `QueueInv`: only the head is being performed, its operation and candidate are in the
  pending map, an operation has one candidate there, and what was written under it is
  that candidate.
* `AnswerInv`: an answer "committed" names a commit of this candidate; after "not
  committed" the operation is neither pending nor in the history, hence is never written
  again. `SavesAreToldTheTruth` is its consequence.
* `PendingInv`: there are no more pending candidates than failures, but for the head that
  has not written yet (`PendingIsBounded`). It bounds their number and does not say that
  somebody still waits for each: an entry outlives the caller of a failed save
  (`HomeScreen.tsx:1424-1426`).

`SessionStoreRowsProofs` is about memory: `RollbacksSpareEdits` and
`SavedCheckpointsStay`. Neither property is inductive, because a transaction holds a
memory or a row of the past that it may put back. Each step is one of six (`Idles`,
`Opens`, `Closes`, `TakesBack`, `Renames`, `Hydrates`), an owner's save is in the queue only
while its transaction waits for it, and never twice (`JobInv`), and a stamp nobody has
given out is nowhere (`StampInv`), so that equal stamps mean the same write. `EditInv`
then says that memory has every edit, and so has whatever the binding or a preparation
could put back; `KeptInv` says the same of accepted checkpoints for memory, file and
every save in the queue, and that the checkpoint being saved is carried by whatever
is asked for after it.

What the proofs showed of the model: `Restore` takes the rows back to an older document
and with them the edits the user can expect to see (`renamed`), and an answer has to
say in which step it was given (`answer.step`), because the answer of the stale-read guard
is not always true (section 8).

*Abstracted.* Saves are performed one at a time in the order they were asked for.
The store has no digest file (an older layout), no migration, no bootstrap. No
fairness is assumed and no liveness claimed: a save whose outcome is unknown
waits for the user.

## 6. The completion controller

One conversation, from the tap on send to the discarded evidence. Six modules:

| Module | Models |
|---|---|
| `AttemptJournal` | the journal of an attempt: its phases, what each controller step makes of it, and which step `reducer.ts` accepts (`Legal`, `CanBegin`, `CanDecide`, `CanExecute`, `CanAdvance`, `CanRecover`, ...) |
| `Awaits` | what every continuation has in common: the run it belongs to, a call or a save it waits for, the transaction of the save, what taking it back restores |
| `DirectTurn` | `runLegacyPrepared`: a turn without tools, sent as one request |
| `AgentTurn` | the journalled turn: prepare, round, batch, decisions, executions, the end |
| `AgentRuntime` | the native runtime as the controller meets it |
| `Completion` | the state, the commands, cancellation, recovery, the launch drain, and the steps |

| In the model | In the code |
|---|---|
| `app.mem`, `disk` | the attempts of the conversation in memory and in the saved document |
| `app.phase`, `app.at`, `app.epoch` | the published state and its attempt, `runEpoch` |
| `app.run`, `app.runOf`, `app.auth` | `agentRun`, its epoch, its attempt and the round whose batch and tokens it holds |
| `app.slot`, `app.ack`, `app.prep`, `app.term` | the four pending saves `retryPersistence` looks at |
| `app.commit`, `app.recommit` | the answer of a direct turn that is not saved yet |
| `app.req`, `app.flight`, `app.ok` | `requestedAgentCancellationEpoch`, `agentCancellationInFlight`, `lastCancellationCommitted` |
| `mem[n].jr.gen` | `controller_generation` of the attempt's journal, by which the store tells whether an answer was made from the journal it is for |
| `said`, `wished` | history: the calls the user allowed, and the runs he asked to cancel |
| `app.waits` | every promise somebody awaits: the save or call, the context of its continuation and who is waiting behind it |
| `nat[n]` | what native keeps of an attempt: its round, the batch with a ledger row per call, the writer |
| `SaveAnswered`, `NativeLaunched`, `NativeAnswered`, `UserDecides` | a promise settles; a round or a tool starts to work |
| `Send` ... `Reopen` | the commands, offered as `HomeScreen.tsx` offers them |
| `Relaunch` | the process dies; `hydrateChatState`, `reconcileHydrated` and `drainInterruptedAgentCleanup` |

A continuation is one step from an await to the next, with everything it
publishes and changes on the way. Saves are answered in order, native calls in
any order, several may be out at once, and a round or a tool call takes two steps
natively, so that a cancellation, an abandonment or a relaunch comes between its
start and its end. A save is committed, refused after the fact, not committed, or
of unknown outcome with or without its effect; a native call may be lost before
or after its effect, be refused, or leave a row that nobody can vouch for.

`AgentRuntime` keeps no state: each operator takes the evidence of an attempt and
returns what may be left of it and answered. It is the coarse view of sections
2-4, kept apart from them, and has what they leave out: the comparison with the
saved document that freeze, bind, execute, query, recover, cancel and finalize
make; finalize, discard and interrupt; the projection that recovery reads.

| Run | Shows |
|---|---|
| `Completion_safety` | `DispatchIsDurable`: a call with an effect is asked for only when its journal is on disk, and native keeps evidence only of attempts that are on disk. `Consent`: a call the user must be asked for runs only if he allowed that call of that round, across lost binds, repeats and recovery. `NativeReleased`: an ended attempt leaves the outbox only when its evidence is gone. `OverIsQuiet`: what is over stays over, in memory and natively, whatever answer is late. `CancelIsHeard`: from the moment the user asks to cancel a run, that run asks for no round and no execution, also when the cancellation's own save stays unconfirmed and a late answer finds the run still there. `Driven`: work that is shown is done by somebody |
| `Completion_stuck` (violation) | "persistence pending" with nothing to repeat |
| `Completion_cancel` (violation) | in a project conversation a cancellation during the preparation is dropped |

*Bounds.* Two commands, two faults, `MaxRound = 2`: a round of tools and the answer.
The batches hold a call that is rejected beside one that runs, one to ask for
beside one that runs, and two to ask for. The conversation has a workspace, a
project without a root, or neither, which decides between the journalled and the
direct turn. Two commands are a turn and what the user does to it; two faults
are a failure and the failure of what repairs it, a process that dies among them.
Three commands without a fault and with one were explored as well (71 thousand and 6
million states) and show nothing new; they are not runs because of their length.
A preparation whose first save is still on its way is not saved again (`OnItsWay`):
the screen can ask for it, and both saves would then end the same preparation.

*Fairness.* None. The user decides about everything that is left, so the liveness
question here is `Driven` and `PendingIsRetried`: nobody waits for nobody.

`OverIsQuiet` allows one thing: a round already on its way when the user abandons
its turn may still be sent, because its launch compares nothing with the saved
document. `Driven` excepts two things, both related to what `Completion_stuck` shows: a
cancellation that ended behind a continuation without a last word, and a save left
in the slot by a run that was cancelled while it asked for it (section 8).

`CancelIsHeard` is about `wished`: a run enters it when the user asks to cancel it, whatever
`requestedAgentCancellationEpoch` and `agentCancellationInFlight` make of the request afterwards.
Three things keep such a run from going on, and TLC finds the property violated without any of them: the
save that was pending settles the run instead of continuing it (`SlotAnswered`, 1126); a
cancellation that ends raises the epoch, and with it every answer is late (5220-5223); and when
the save of the cancellation's mark stays unconfirmed, so that the run is kept, the answer of
the round, the bind, the tool or the recovery that was under way was made from the journal before the
mark, and the store refuses it by its `controller_generation`
(`agentEvidenceMatchesControllerCAS`, `store.ts:1025-1079`; the mutant of this property is a
journal that keeps its generation). The guard on `agentCancellationInFlight` in the round
(2263, 2270) and this comparison refuse the same answers; what the guard decides is
which state is shown. A wish ends in three ways: the process dies; the user answers the approval list
that the cancelled run had left open, which is taken as his later word; and the save of the mark
is repeated, fails, and takes the mark back (section 8). The last one takes three commands, so that
within the bounds of the run the property holds without that exception too.

*Abstracted.* Event capacity, previews, message texts and provider metadata. Every
unfinished attempt is interrupted at launch; the code stops when the outbox is full
and leaves the rest to a later launch. A second round call of an index whose first is still under way is refused.
Preferences and other conversations ride along in saves in `SessionStore`, not
here. `AgentLoop.ts`, `runAgentTurn.ts` and `AgentTurnService.ts` are an
older loop that only tests construct.

*Proved* (`CompletionProofs`). `TypeOK` and `NativeReleased`, for every number of
commands, faults and rounds and every set of batches. Neither is inductive: that
the document on disk has not let go of evidence says nothing of the document that
a pending save will put there, and that the controller points into the store says
nothing of the continuation that will run next. `IInv` adds what they need. TLC
checked it as an invariant of the instance of `Completion_safety` before it was proved.

* `Sound(app)`: a continuation is of an attempt that exists and is not the one being
  prepared, unless it awaits the preparation; its epoch is not ahead; a
  transaction on a journal holds a journal, and the call or decision it goes on with is
  one of its batch; the slot, the acknowledgement, the outcome, the commit and the run point at
  attempts that are there to stay. At most one await is for a preparation, one
  is under a repeated save, and one will ask an abandoned turn again, and while
  that one waits nothing is being prepared: only so does the document never exceed one attempt
  per command, which `nat` is indexed by.
* `Doc`: an attempt whose journal is over and which is not in the outbox has no
  evidence left. It is said of the document in memory, on disk, in every pending save and of
  what a transaction would restore, because each of them may become the saved one.
* `Evidence`: the types of what native keeps. The lemmas `...Honest` say of each
  native handler that it never answers that an attempt is gone when it is not, also when
  the answer is lost or its owner is.

One lemma per operator (sound before, sound after) covers the synchronous code
between two awaits; it is proved for any controller that is sound and any context
that fits it, so the same lemma serves each path on which the operator is reached.
`...Step` joins them per action. The proof found places where the model was looser than
the code, and they were corrected: a transaction whose rollback or commit has
run is settled for whoever else holds it (`TxSettled`, the `settled` flag of `store.ts`); a
repeated save drops what a function that has returned was to go on with (`Silent`); a
preparation is taken back only from the document it made; a commit is repeated only if one
is pending; and a direct request leaves no native evidence.

`CompletionActionProofs` proves `DispatchIsDurable` over `IInv`, and that only the current epoch asks
for a round or an execution, and none whose cancellation is noted (`OnlyCurrentAsks`). Both say
of one step what it may ask native for, and to prove them one has to know everything the
controller may be waiting for, in each of the three kinds of conversation. The inductive
invariant is `Quiet`: the controller is `Calm` with respect to what it waits for now and to the
attempts `Begun` that native has evidence of, and the disk is `Grounded` in them. TLC checked
its parts about documents and saves on an instance of two commands and two faults first.

* *Work.* The calls with an effect that are awaited are among a set of known ones, and each
  operator keeps them within the same set (the `...Calm` lemmas). The exceptions are `Continue`,
  after a save of the slot that its transaction accepts, and the answered mark of a direct turn
  (`Speaks`). Each adds one call, for its own attempt and as that attempt stands in memory; a
  round or an execution of a run with a workspace only if no cancellation of that run is noted,
  because `SlotAnswered` reads the wish when the save is answered. What could ask for more is
  therefore a save, and the cleanup and all other awaits end with nothing to go on with.
* *Epochs.* `Calm` also keeps the epoch in a set that holds every later one, so a step never
  goes back to an earlier epoch, but for another launch. What a save speaks for is of the current
  epoch, because its answer returns at `runEpoch !== epoch`. In a conversation without a project
  every cancellation raises the epoch, and `DirectCancelHeard` follows: `CancelIsHeard` for this kind
  of conversation. With a workspace the run may be kept, and the reason is then the generation of
  the journal, which `Quiet` does not know: the proof needs that no answer under way was made from
  the journal in memory once it carries the mark.
* *What speaks is on disk* (`SpokenFor`). The save that was answered wrote its document; an
  accepted transaction has in memory what it wrote for its attempt. A direct turn has no
  transaction, and there the reason is that an attempt which has not ended and is `sending`
  has only one form (`BareAtt`), the one its mark wrote.
* *No attempt is lost* (`Lines`, `Written`). Each pending save holds every attempt in memory but
  one whose own first save comes after it, the saves are answered in order, and an attempt
  with evidence is never the one being prepared. So whichever document the process dies with,
  `Begun` stays in it. Native starts evidence only for an attempt it finds saved
  (`EffectsMakeNone`, `MadeByStep`).
* *Kinds.* A conversation keeps its kind, and native does not tell one with a workspace that
  it is not an agent's (`KindIsTold`). That fact is what fails for the project conversation
  of `Completion_cancel`: there the wish to cancel is dropped on the path that falls back to the
  direct turn.

Only model-checked: `CancelIsHeard` of a conversation with a workspace; `Consent`, which
compares native's round with the round of the journal in memory, in every save and on disk,
and needs that relation as a further invariant; `OverIsQuiet`, which needs it for its native
half; and `Driven`, which needs to know which continuation is at work in each phase.

## 7. Binding a workspace

`WorkspaceBinding` is `WorkspaceBindingController.ts` with the surfaces that drive it.
Each await of `bindWorkspace`, `ensureAppOwnedWorkspace` and `retryPersistence` is a step:
`LookupAnswered`, `ContextGuard`, `CompletionGuard`, `SaveAnswer`, `EnsureStep`. The marks that the code
only compares (row identity, epoch, nonce, operation id) are the smallest ones nobody
holds, so they need no bound.

| Run | Shows |
|---|---|
| `WorkspaceBinding_safety` | two conversations, two calls at once, three calls and two other moves in all: `CreatedOnce` (one workspace, however often Files is opened and whatever is lost), `BindsTheOwner` (a binding appears on the selected row its call captured), `CommittedIsSaved` |
| `WorkspaceBinding_latch` (violation) | a save of unknown outcome stays latched, and its banner is hidden |

Two calls at once are the active one and one that is refused or superseded; a third
follows the end of either. Two moves are a change and its reversal (select
away and back, close and open), the pattern epochs and nonces exist for. No
fairness is assumed.

*Proved*, from `SlotsAssumption` only. `WorkspaceBindingProofs`: `TypeCorrect`;
`OneWorkspaceCreated`, whose invariant `EnsureInv` says that there is one operation `k` that
every created workspace, the remembered id and every call that asks or creates have in
common, and that only the active call can go on to create; `OwnersBind`
(`BindsTheOwner`), an action property, from the shapes of a step (`CallShape`,
`SaveShape`). The second part of the module: `WhatIsShownIsSaved` (`CommittedIsSaved`).
"committed" is shown when the save of the active call is answered, while rows, latch and
selection may have moved since it was asked for. `SavedInv` says why the document
saved has the root that is shown: a latched write is the last one and its retry the
only call that waits (`LatchInv`); the save of the active call is the youngest a call
waits for (`QueueInv`), so that nothing older is written after it; and
rows, what a refused write would bring back, and the document of each save have the
root of the call that waits for them (`CandidateInv`). Both invariants were checked
by TLC before they were proved.

*Abstracted.* A rebind of the project context is part of the context guard.
Projects are only present or absent, folder validation is a grant revision, and
the Git activation of a workspace is left out. `WorkspaceRemoval` is not modelled: its native half exists on no
platform (`LocalWorkspaces.ts:879-887`).

## 8. What disagrees with the documentation

With a run, and as a finding in `PROJECT.json`:

* A moved transcript does not leave an unknown row (`AgentNativeWAL.mm:2770`):
  `ExecutionLedger_ownerloss`. The check in front of it answers Corrupt.
* A cancellation of a project conversation's turn is not always heard
  (`CompletionController.test.ts:2335`): `Completion_cancel`.
* A pending save cannot always be repeated (`CompletionController.ts:5609`):
  `Completion_stuck`.
* A latch may be left with no actor (`WorkspaceBindingController.ts:964`):
  `WorkspaceBinding_latch`.

Met while modelling, without a run:

* A failed rename makes the store unusable until it is repaired by hand
  (`docs/development.md:678` says a write that is not committed leaves the handle usable), and a
  file replaced between the rename and the identity read is not seen
  (`docs/development.md:682`).
* A round stopped before its dispatch comes back retryable after owner loss, not
  cancelled (`AgentProviderRoundService.mm:1316`).
* A bound denial is answered as pending when it is repeated (`tool_batch.rs:1419`): its row is
  settled, and the binding wants an intent.
* A write recorded as failed may have happened (`AgentWorkspaceToolExecutor.mm:84`): the
  root is validated once more after it.
* A save may be answered "not committed" although an earlier write of the same
  candidate is on disk. `performSessionCandidate` deletes the pending entry and refuses when
  the document it reads is not the one the save must follow (`HomeScreen.tsx:1456-1462`),
  without looking whether the candidate itself is there; the comment above it (`HomeScreen.tsx:1420-1423`)
  says that a durable snapshot with the candidate's digest proves its write durable. It takes
  four failing calls: `AnswersTrue` without its `answer.step # "load"` is violated in
  `SessionStore` with `MaxFaults = 4`.
* The answer of a recovery that was cancelled meanwhile takes the pending slot and
  shows "finalizing" (`CompletionController.ts:4815-4870`, `terminalizeAgent` at 2344); the
  answer of its save returns at `runEpoch !== epoch` (1074) and leaves the slot
  taken. The controller stays busy, and `retryPersistence` does not answer to that
  phase. It takes about five commands; `Driven` without its last disjunct is violated.
* A cancellation can be taken back. The save of its mark stays unconfirmed, the run is kept
  (`CompletionController.ts:5224`) and the user repeats the save; the repetition fails, the
  transaction restores the journal without the mark and "blocked" is shown. The answer of the
  round that was under way then fits the journal again, and its batch is frozen and run. It takes
  three commands; `CancelIsHeard` without `undone` in `SaveAnswered` is violated with `MaxAsks = 3`.
* A cancellation leaves the approval list of its run open: `HomeScreen.tsx:7237` offers it as long
  as a request is pending, and `cancel` dismisses none. What the user answers while native is
  being asked to stop is saved and bound, and the call is asked for; the model takes the answer
  as his later word.
* A preparation whose save was refused, and which cannot be taken back because memory
  has moved on (`store.ts:1890`), stays in memory and may be resumed. Native refuses to
  prepare it, because it looks for it in the saved document
  (`AgentPreparedAttemptStore.mm:157-191`, `prepared_attempt.rs:382`).
* A checkpoint that is on disk is refused when a preference changed, or an
  earlier save was answered, between its capture and its commit (`store.ts:1229`, while
  `HomeScreen.tsx:1412-1418` saves what memory holds by then).

## 9. Limits

*Proved and checked.* Every safety property, action property and refinement that the passing runs of
`AgentWAL`, `ProviderRound`, `ExecutionLedger`, `SessionStore` and `WorkspaceBinding` check is a
theorem as well, for every number of threads, operations, rounds, calls, conversations and
slots and every bound on faults. Of the completion controller `TypeOK`, `NativeReleased`,
and `DispatchIsDurable` are theorems, and of `CancelIsHeard` the part about conversations without a
project; its part about those with a workspace, `Consent`, `OverIsQuiet` and `Driven` hold for the
instance of `Completion_safety` only (section 6 says what their proofs need). Liveness under fairness
(`LockReleased`, `CallReturns`) rests on TLC alone, for the prover has no ENABLED; so would what a
recursive definition computes for every input, for it has no induction over
data. No proof needs either. The theorems about the log assume no replacement of its file, or
none between a rename and its identity read (section 2); all others rest on the
named assumptions about the sizes of the constants.

*Data.* Request and reply bodies, digests, receipts, failure codes and the
validation of stored state are left out, except for the relations that the
properties name.

*Not modelled*, per component and with reasons in `PROJECT.json`: the transcript
store and the phases of the workspace journal (planned); project context, on both sides (planned);
workspace clearance (its only caller is the removal of a workspace, see section
7); Git, accounts, codec, bridges and guest I/O (conversion, or work of
external systems, whose failures the models take as faults); screens beyond the
functions named above, and the build (no state of their own that the properties
are about).

## Running it

    tlc -workers 2 -config AgentWAL_safety.cfg MCAgentWAL.tla
    tlc -workers 2 -config Completion_safety.cfg MCCompletion.tla
    tlapm ExecutionLedgerProofs.tla

and likewise for the other configurations: each names its module by its prefix
(`MCAgentWAL`, `MCProviderRound`, `MCExecutionLedger`, `MCSessionStore`,
`MCCompletion`, `MCWorkspaceBinding`). The longest run takes about a minute. The
proof modules are `AgentWALProofs`, `ProviderRoundProofs`, `ExecutionLedgerProofs`,
`SessionStoreProofs`, `SessionStoreRowsProofs`, `WorkspaceBindingProofs`,
`CompletionProofs`, which takes a quarter of an hour, and `CompletionActionProofs`,
which takes five minutes.
