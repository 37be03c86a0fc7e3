--------------------------- MODULE ExecutionLedger ---------------------------
(***************************************************************************)
(* The tool calls of one round: prepare_agent_tool_batch writes a batch    *)
(* and an intent row per call, the user's decisions are bound to it,       *)
(* execute_agent_tool opens the effect gate of the batch, claims the row,  *)
(* marks it dispatched, runs the tool and settles the row together with    *)
(* the tool message it adds to the transcript.  A call may be cancelled or *)
(* recovered, and the process may die between any two transactions.        *)
(*                                                                         *)
(* Every native operation runs on one serial queue; a language-runtime     *)
(* tool leaves it while it runs, every other tool keeps it.                *)
(***************************************************************************)
EXTENDS Naturals, Sequences

CONSTANT N                      \* number of calls in the round's batch

ASSUME NAssumption == N \in Nat

Calls == 1..N
NoCall == 0

Kinds     == {"rejected", "read", "write", "runtime"}
States    == {"none", "intent", "running", "cancel_requested", "settled",
              "cancelled", "unknown", "ambiguous"}
Outcomes  == {"ok", "failed", "denied", "cancelled", "ambiguous"}
Results   == Outcomes \cup {"none", "nothing"}
Gates     == {"absent", "not_applicable", "closed", "open", "released"}
Decisions == {"none", "allowed", "denied", "cancelled"}
Steps     == {"idle", "gated", "claimed", "dispatched", "finished"}
Replies   == {"none", "bound", "already_bound", "pending", "conflict"}

VARIABLES
  kind,        \* what each call asks for, as the tool registry classifies it
  state,       \* the state of each ledger row, "none" where there is no row
  receipt,     \* the outcome of each row's receipt, "none" where it is null
  dispatched,  \* the calls whose dispatch marker says dispatched
  gate,        \* the batch's effect gate, "absent" before the batch is prepared
  decision,    \* the decision bound to each call
  messages,    \* tool messages added to the transcript since the round's answer
  up,          \* the process runs and its native store is open
  queue,       \* the call whose execution holds the serial queue, or NoCall
  alive,       \* the calls whose native task is registered as alive
  thread,      \* how far the execution of each call has come
  result,      \* what the tool of a call returned, "none" before it did
  pass,        \* how the last owner-loss pass ended
  reply,       \* what the last bind_agent_approval was answered
  runs,        \* history: the calls whose tool was started, in order
  applied      \* history: the calls whose effect is visible outside the app

batch   == <<kind, gate, decision>>
rows    == <<state, receipt, dispatched, messages>>
process == <<up, queue, alive, thread, result, pass>>
world   == <<runs, applied>>
vars    == <<batch, rows, process, reply, world>>

Manifest  == {c \in Calls : kind[c] \in {"write", "runtime"}}
Active(c) == state[c] \in {"running", "cancel_requested"}

Quiet == reply' = "none"

TypeOK ==
  /\ kind \in [Calls -> Kinds]
  /\ state \in [Calls -> States]
  /\ receipt \in [Calls -> Outcomes \cup {"none"}]
  /\ dispatched \subseteq Calls
  /\ gate \in Gates
  /\ decision \in [Calls -> Decisions]
  /\ messages \in Seq(Calls)
  /\ up \in BOOLEAN
  /\ queue \in Calls \cup {NoCall}
  /\ alive \subseteq Calls
  /\ thread \in [Calls -> Steps]
  /\ result \in [Calls -> Results]
  /\ pass \in {"done", "corrupt"}
  /\ reply \in Replies
  /\ runs \in Seq(Calls)
  /\ applied \subseteq Calls

Init ==
  /\ kind = [c \in Calls |-> "read"]
  /\ state = [c \in Calls |-> "none"]
  /\ receipt = [c \in Calls |-> "none"]
  /\ dispatched = {}
  /\ gate = "absent"
  /\ decision = [c \in Calls |-> "none"]
  /\ messages = << >>
  /\ up = TRUE
  /\ queue = NoCall
  /\ alive = {}
  /\ thread = [c \in Calls |-> "idle"]
  /\ result = [c \in Calls |-> "none"]
  /\ pass = "done"
  /\ reply = "none"
  /\ runs = << >>
  /\ applied = {}

Ready == up /\ queue = NoCall

\* The tool message of a call and its row's last state, in one transaction.
Feedback(c, s, o) ==
  /\ messages' = Append(messages, c)
  /\ state' = [state EXCEPT ![c] = s]
  /\ receipt' = [receipt EXCEPT ![c] = o]

(***************************************************************************)
(* The batch and its approvals.                                            *)
(***************************************************************************)
\* The members of a set of calls, in the order of the calls.
InOrder(R) ==
  {s \in UNION {[1..m -> R] : m \in 0..N} :
     /\ \A i, j \in DOMAIN s : i < j => s[i] < s[j]
     /\ \A c \in R : \E i \in DOMAIN s : s[i] = c}

\* Every call has a row with the transcript as the round left it, but for
\* those the registry rejects, whose feedback is added at once.  A standing
\* grant of the conversation allows a call without asking.
Prepare ==
  /\ Ready /\ gate = "absent"
  /\ \E k \in [Calls -> Kinds] :
       \E granted \in SUBSET {c \in Calls : k[c] \in {"write", "runtime"}} :
         /\ kind' = k
         /\ state' = [c \in Calls |-> IF k[c] = "rejected" THEN "none" ELSE "intent"]
         /\ messages' \in InOrder({c \in Calls : k[c] = "rejected"})
         /\ gate' = IF \E c \in Calls : k[c] \in {"write", "runtime"} THEN "closed"
                                                                      ELSE "not_applicable"
         /\ decision' = [c \in Calls |-> IF c \in granted THEN "allowed" ELSE "none"]
  /\ Quiet
  /\ UNCHANGED <<receipt, dispatched, process, world>>

\* The first decision of the user on a call; a denial settles its row.
Bind(c) ==
  /\ Ready /\ c \in Manifest
  /\ state[c] = "intent" /\ decision[c] = "none"
  /\ reply' = "bound"
  /\ \E d \in Decisions \ {"none"} :
       /\ decision' = [decision EXCEPT ![c] = d]
       /\ IF d = "denied" THEN Feedback(c, "settled", "denied")
                          ELSE UNCHANGED <<messages, state, receipt>>
  /\ UNCHANGED <<kind, gate, dispatched, process, world>>

\* A decision on a call that has one, under another operation id: the row
\* must still be an intent before an earlier binding is looked for.
BindAgain(c) ==
  /\ Ready /\ c \in Manifest
  /\ decision[c] # "none"
  /\ \E d \in Decisions \ {"none"} :
       reply' = IF state[c] # "intent" THEN "pending"
                ELSE IF d # decision[c] THEN "conflict" ELSE "already_bound"
  /\ UNCHANGED <<batch, rows, process, world>>

(***************************************************************************)
(* Cancelling a call.                                                      *)
(***************************************************************************)
\* Mutant: the gate is released with any cancelled mutation.
CancelReleasing(c) ==
  /\ Ready
  /\ state[c] \in {"intent", "cancel_requested"} /\ c \notin dispatched
  /\ Feedback(c, "cancelled", "cancelled")
  /\ gate' = IF c \in Manifest THEN "released" ELSE gate
  /\ Quiet
  /\ UNCHANGED <<kind, decision, dispatched, process, world>>

\* A row that was not dispatched is cancelled with its feedback; a batch
\* none of whose mutations was dispatched closes its gate for good.
Cancel(c) ==
  /\ Ready
  /\ state[c] \in {"intent", "cancel_requested"} /\ c \notin dispatched
  /\ Feedback(c, "cancelled", "cancelled")
  /\ gate' = IF c \in Manifest /\ gate = "closed" /\ Manifest \cap dispatched = {}
             THEN "released" ELSE gate
  /\ Quiet
  /\ UNCHANGED <<kind, decision, dispatched, process, world>>

\* A running row is only asked to stop, and only while its owner lives.
RequestCancel(c) ==
  /\ Ready
  /\ state[c] = "running" /\ c \in alive
  /\ state' = [state EXCEPT ![c] = "cancel_requested"]
  /\ Quiet
  /\ UNCHANGED <<batch, receipt, dispatched, messages, process, world>>

(***************************************************************************)
(* Executing a call.                                                       *)
(***************************************************************************)
\* Mutant: a call whose row has ended in doubt no longer stands in the way.
ResolvedInDoubt(c) == ~Active(c) /\ state[c] # "intent"

Resolved(c) == state[c] \in {"none", "settled", "cancelled"}

\* Mutant: one decision is taken for all.
ApprovalsBegun == \E c \in Manifest : decision[c] \in {"allowed", "denied"}

ApprovalsBound == \A c \in Manifest : decision[c] \in {"allowed", "denied"}

Revalidated ==
  \A c \in Manifest :
    /\ c \notin dispatched
    /\ \/ state[c] = "intent"
       \/ state[c] = "settled" /\ receipt[c] = "denied"

GateMayOpen == gate = "closed" /\ ApprovalsBound /\ Revalidated

\* beginAgentToolWithRequest up to the effect gate.
Execute(c) ==
  /\ Ready
  /\ state[c] = "intent"
  /\ \A d \in Calls : d < c => Resolved(d)
  /\ c \in Manifest => decision[c] = "allowed"
  /\ c \in Manifest => gate = "open" \/ GateMayOpen
  /\ gate' = IF c \in Manifest THEN "open" ELSE gate
  /\ queue' = c
  /\ thread' = [thread EXCEPT ![c] = "gated"]
  /\ Quiet
  /\ UNCHANGED <<kind, decision, rows, up, alive, result, pass, world>>

\* The execution of a call ends: its native task is gone and the queue free.
Leave(c) ==
  /\ thread' = [thread EXCEPT ![c] = "idle"]
  /\ alive' = alive \ {c}
  /\ queue' = NoCall

Claim(c) ==
  /\ thread[c] = "gated"
  /\ thread' = [thread EXCEPT ![c] = "claimed"]
  /\ alive' = alive \cup {c}
  /\ state' = [state EXCEPT ![c] = "running"]
  /\ Quiet
  /\ UNCHANGED <<batch, receipt, dispatched, messages, up, queue, result, pass, world>>

\* The store refuses the claim or the marker: nothing of it is written.
StoreFails(c) ==
  /\ thread[c] \in {"gated", "claimed"}
  /\ Leave(c)
  /\ Quiet
  /\ UNCHANGED <<batch, rows, up, result, pass, world>>

EffectGateOpen(c) == c \in Manifest => gate = "open"

\* Mutant: the tool is started without the marker.
MarkSkipped(c) ==
  /\ thread[c] = "claimed"
  /\ Active(c) /\ c \in alive /\ EffectGateOpen(c)
  /\ thread' = [thread EXCEPT ![c] = "dispatched"]
  /\ queue' = IF kind[c] = "runtime" THEN NoCall ELSE queue
  /\ Quiet
  /\ UNCHANGED <<batch, rows, up, alive, result, pass, world>>

MarkDispatched(c) ==
  /\ thread[c] = "claimed"
  /\ Active(c) /\ c \in alive /\ EffectGateOpen(c)
  /\ dispatched' = dispatched \cup {c}
  /\ \/ /\ thread' = [thread EXCEPT ![c] = "dispatched"]
        /\ queue' = IF kind[c] = "runtime" THEN NoCall ELSE queue
        /\ UNCHANGED alive
     \/ Leave(c)   \* the executor has no room, or the store confirms nothing
  /\ Quiet
  /\ UNCHANGED <<batch, state, receipt, messages, up, result, pass, world>>

\* What a tool may do: a read changes nothing, a write that reports success
\* has taken effect and one that reports failure has not.  An executor that
\* finds its workspace gone after the effect returns nothing at all.
ToolResults(k) == IF k = "runtime" THEN {"ok", "failed", "cancelled", "ambiguous"}
                                   ELSE {"ok", "failed", "ambiguous", "nothing"}
MayApply(k, o) == IF k = "read" \/ (k = "write" /\ o = "failed") THEN {FALSE}
                  ELSE IF o = "ok" THEN {TRUE} ELSE BOOLEAN

RunTool(c) ==
  /\ thread[c] = "dispatched"
  /\ thread' = [thread EXCEPT ![c] = "finished"]
  /\ runs' = Append(runs, c)
  /\ \E o \in ToolResults(kind[c]) :
       /\ result' = [result EXCEPT ![c] = o]
       /\ \E a \in MayApply(kind[c], o) : applied' = IF a THEN applied \cup {c} ELSE applied
  /\ Quiet
  /\ UNCHANGED <<batch, rows, up, queue, alive, pass>>

\* Mutant: the row is left in the outcome of its receipt.
SettledVerbatim(o) == o

\* generic_failure: a call whose executor returned nothing has failed.
Recorded(o) == IF o = "nothing" THEN "failed" ELSE o

SettledState(o) == IF o \in {"ambiguous", "cancelled"} THEN o ELSE "settled"

Settle(c, o) == c \in dispatched /\ Feedback(c, SettledState(o), o)

\* Mutant: the row is not looked up again after the tool has run.
FinishBlindly(c) ==
  /\ thread[c] = "finished" /\ queue \in {c, NoCall}
  /\ Leave(c)
  /\ Settle(c, Recorded(result[c]))
  /\ result' = [result EXCEPT ![c] = "none"]
  /\ Quiet
  /\ UNCHANGED <<batch, dispatched, up, pass, world>>

\* finishAgentToolContext with its settlement.  A runtime tool is looked up
\* again: it was asked to stop, its session moved on, or another operation
\* settled its row and took its owner away.
Finish(c) ==
  /\ thread[c] = "finished" /\ queue \in {c, NoCall}
  /\ queue = NoCall => kind[c] = "runtime"
  /\ Leave(c)
  /\ \/ /\ Active(c)
        /\ \E o \in IF state[c] = "cancel_requested" THEN {"cancelled"}
                    ELSE IF kind[c] = "runtime" THEN {Recorded(result[c]), "ambiguous"}
                    ELSE {Recorded(result[c])} :
             Settle(c, o)
        /\ result' = [result EXCEPT ![c] = "none"]
     \/ /\ ~Active(c)
        /\ UNCHANGED <<state, receipt, messages, result>>
  /\ Quiet
  /\ UNCHANGED <<batch, dispatched, up, pass, world>>

\* The settlement is not written.  The runtime keeps the result of its call.
FinishFails(c) ==
  /\ thread[c] = "finished" /\ queue \in {c, NoCall}
  /\ queue = NoCall => kind[c] = "runtime"
  /\ Leave(c)
  /\ result' = IF kind[c] = "runtime" THEN result ELSE [result EXCEPT ![c] = "none"]
  /\ Quiet
  /\ UNCHANGED <<batch, rows, up, pass, world>>

(***************************************************************************)
(* Recovering a call, losing its owner, and dying.                         *)
(***************************************************************************)
\* Mutant: a write that reported success is taken for applied, whether or not
\* it is found.
ProofsUnread(c) == IF kind[c] = "write" THEN {"ok"} ELSE {result[c]} \ {"none"}

\* What the executors can prove of a call: the runtime from the result it
\* still holds, a write or an installation from what it left behind.
Proofs(c) == IF kind[c] = "read" THEN {}
             ELSE (IF kind[c] = "runtime" THEN {Recorded(result[c])} \ {"none"} ELSE {})
                  \cup (IF c \in applied THEN {"ok"} ELSE {})

Recover(c) ==
  /\ Ready /\ Active(c)
  /\ \E o \in Proofs(c) : Settle(c, o)
  /\ result' = [result EXCEPT ![c] = "none"]
  /\ Quiet
  /\ UNCHANGED <<batch, dispatched, up, queue, alive, thread, pass, world>>

Lost == {c \in Calls : Active(c) /\ c \notin alive}

\* The rows' transcript_before is the transcript of the prepared batch.
TranscriptUnmoved == messages = << >>

\* reconcileOwnerLoss, one transaction; at most one row of a batch is active.
OwnerLossPass ==
  \/ /\ Lost = {}
     /\ pass' = "done"
     /\ UNCHANGED rows
  \/ /\ Lost # {} /\ ~TranscriptUnmoved
     /\ pass' = "corrupt"
     /\ UNCHANGED rows
  \/ /\ TranscriptUnmoved
     /\ \E c \in Lost :
          IF c \in dispatched
          THEN Feedback(c, "ambiguous", "ambiguous")
          ELSE state' = [state EXCEPT ![c] = "unknown"] /\ UNCHANGED <<messages, receipt>>
     /\ pass' = "done"
     /\ UNCHANGED dispatched

\* query_agent_tool starts with the pass.
Query ==
  /\ Ready /\ gate # "absent"
  /\ OwnerLossPass
  /\ Quiet
  /\ UNCHANGED <<batch, up, queue, alive, thread, result, world>>

\* The app starts again; a store whose pass fails does not open.
Boot ==
  /\ ~up
  /\ OwnerLossPass
  /\ up' = (pass' = "done")
  /\ Quiet
  /\ UNCHANGED <<batch, queue, alive, thread, result, world>>

Crash ==
  /\ up
  /\ up' = FALSE
  /\ queue' = NoCall
  /\ alive' = {}
  /\ thread' = [c \in Calls |-> "idle"]
  /\ result' = [c \in Calls |-> "none"]
  /\ Quiet
  /\ UNCHANGED <<batch, rows, pass, world>>

Next ==
  \/ Prepare \/ Query \/ Boot \/ Crash
  \/ \E c \in Calls :
       \/ Bind(c) \/ BindAgain(c) \/ Cancel(c) \/ RequestCancel(c)
       \/ Execute(c) \/ Claim(c) \/ StoreFails(c) \/ MarkDispatched(c)
       \/ RunTool(c) \/ Finish(c) \/ FinishFails(c) \/ Recover(c)

Spec == Init /\ [][Next]_vars

(***************************************************************************)
(* Properties.                                                             *)
(***************************************************************************)
Started(c) == \E i \in DOMAIN runs : runs[i] = c

\* No mutation runs before the user has decided on every mutation of its
\* batch and allowed this one, whatever is cancelled or retried meanwhile
\* (open_effect_gate, write_batch_effect_gate_open).
Consent ==
  \A c, d \in Manifest :
    Started(c) => decision[c] = "allowed" /\ decision[d] \in {"allowed", "denied"}

\* A row that says its call did not run is right: an intent, an unknown row,
\* a denied or a rejected call, and a cancelled one that was not dispatched
\* (mark_dispatched before the effect, settle only of a dispatched row).
SaysNotRun(c) ==
  \/ state[c] \in {"none", "intent", "unknown"}
  \/ receipt[c] = "denied"
  \/ state[c] = "cancelled" /\ c \notin dispatched

NotRunIsTrue == \A c \in Calls : SaysNotRun(c) => ~Started(c)

\* The model is answered once for every call that has ended and for no other
\* (the tool message is written in the transaction that ends the row).
Answered(c) == kind[c] = "rejected" \/ state[c] \in {"settled", "cancelled", "ambiguous"}

OneAnswerEach ==
  /\ \A i, j \in DOMAIN messages : messages[i] = messages[j] => i = j
  /\ {messages[i] : i \in DOMAIN messages} = {c \in Calls : Answered(c)}

\* A mutation whose receipt says done is there, through retries and recovery
\* (settlement_plan, recover_plan).
DoneIsDone == \A c \in Manifest : receipt[c] = "ok" => c \in applied

\* A batch that was released because none of its mutations had been
\* dispatched never dispatches one (cancel of a ledger row).
ReleasedNeverRuns ==
  gate = "released" => \A c \in Manifest : c \notin dispatched /\ ~Started(c)

\* Without a matching transcript the owner-loss pass "retain[s] a
\* conservative unknown row"; it does not refuse (AgentNativeWAL.mm:2770).
OwnerLossIsRetained == pass # "corrupt"

\* The ledger keeps the promise of a batch: the calls run at most once and
\* in their order, and are answered once, truthfully and for good.
Refused(c) == \/ kind[c] = "rejected"
              \/ receipt[c] = "denied"
              \/ state[c] = "cancelled" /\ c \notin dispatched

VerdictOf(c) == IF Refused(c) THEN "refused"
                ELSE IF state[c] = "unknown" THEN "stuck"
                ELSE IF state[c] = "ambiguous" THEN "doubtful"
                ELSE IF state[c] \in {"settled", "cancelled"} THEN "settled"
                ELSE "open"

Verdict == [c \in Calls |-> VerdictOf(c)]

Promise == INSTANCE OrderedCalls WITH verdict <- Verdict

InOrderOnce == Promise!OrderedSpec
=============================================================================
