------------------------ MODULE ExecutionLedgerProofs ------------------------
(***************************************************************************)
(* Theorems about the execution ledger, for a batch of any length.         *)
(***************************************************************************)
EXTENDS ExecutionLedger, TLAPS

\* Before the batch is prepared nothing has happened, and afterwards only the
\* rejected calls have no row.
Fresh ==
  /\ gate = "absent" =>
       /\ \A c \in Calls : /\ kind[c] = "read" /\ state[c] = "none"
                           /\ receipt[c] = "none" /\ thread[c] = "idle"
       /\ dispatched = {} /\ runs = << >>
  /\ gate # "absent" => \A c \in Calls : state[c] = "none" <=> kind[c] = "rejected"

\* An execution holds the serial queue, but for a runtime tool at work, and
\* nothing is left of it when the process has died.
Threads ==
  /\ \A c \in Calls :
       /\ thread[c] # "idle" => up /\ (queue = c \/ kind[c] = "runtime")
       /\ thread[c] \in {"gated", "claimed"} => queue = c
       /\ c \in alive <=> thread[c] \in {"claimed", "dispatched", "finished"}
  /\ ~up => queue = NoCall

\* What each position of an execution may rely on.
Positions ==
  \A c \in Calls :
    /\ thread[c] = "gated" => state[c] = "intent"
    /\ thread[c] = "claimed" => state[c] = "running" /\ c \notin dispatched
    /\ thread[c] = "dispatched" => Active(c) /\ c \in dispatched /\ ~Started(c)
    /\ thread[c] = "finished" => Started(c)

\* The marker is written before the tool is started and what it says is never
\* taken back.
Fence ==
  \A c \in Calls :
    /\ Started(c) => c \in dispatched
    /\ c \in dispatched => /\ state[c] \notin {"none", "intent", "unknown"}
                           /\ receipt[c] # "denied"
    /\ receipt[c] = "denied" => state[c] = "settled"
    /\ state[c] = "settled" /\ receipt[c] # "denied" => Started(c)
    /\ state[c] = "cancelled" /\ c \in dispatched => Started(c)
    /\ result[c] # "none" \/ c \in applied => Started(c)
    /\ result[c] # "denied"

Busy(c) == thread[c] # "idle" \/ Active(c) \/ c \in dispatched

\* A call is only taken up once the earlier ones are out of the way.
Order == \A c, d \in Calls : Busy(c) /\ d < c => Resolved(d)

\* The gate opens once every decision is made, and behind it all stand.
Gate ==
  /\ gate = "open" => ApprovalsBound
  /\ \A c \in Manifest : thread[c] # "idle" \/ c \in dispatched =>
       gate = "open" /\ decision[c] = "allowed"

\* The inductive invariant behind Consent, NotRunIsTrue, ReleasedNeverRuns and
\* InOrderOnce.
IInv == TypeOK /\ Fresh /\ Threads /\ Positions /\ Fence /\ Order /\ Gate


-----------------------------------------------------------------------------
(***************************************************************************)
(* Types                                                                   *)
(***************************************************************************)
\* What an ending writes into a row is a state and an outcome.
LEMMA FeedbackTypes ==
  ASSUME TypeOK, NEW c \in Calls, NEW s \in States, NEW o \in Outcomes \cup {"none"},
         Feedback(c, s, o)
  PROVE  /\ messages' \in Seq(Calls)
         /\ state' \in [Calls -> States]
         /\ receipt' \in [Calls -> Outcomes \cup {"none"}]
BY DEF TypeOK, Feedback

\* What a settlement writes, for every outcome of a tool.
LEMMA SettleTypes ==
  ASSUME TypeOK, NEW c \in Calls, NEW o \in Outcomes \cup {"none"}, Settle(c, o)
  PROVE  /\ messages' \in Seq(Calls)
         /\ state' \in [Calls -> States]
         /\ receipt' \in [Calls -> Outcomes \cup {"none"}]
<1>1. SettledState(o) \in States
  BY DEF SettledState, States, Outcomes
<1> QED BY <1>1, FeedbackTypes DEF Settle

\* The owner-loss pass changes rows only, and ends one way or the other.
LEMMA PassTypes ==
  ASSUME TypeOK, OwnerLossPass
  PROVE  /\ messages' \in Seq(Calls) /\ state' \in [Calls -> States]
         /\ receipt' \in [Calls -> Outcomes \cup {"none"}]
         /\ dispatched' = dispatched /\ pass' \in {"done", "corrupt"}
<1>1. CASE rows' = rows
  <2>1. pass' \in {"done", "corrupt"} BY <1>1 DEF OwnerLossPass
  <2> QED BY <1>1, <2>1 DEF TypeOK, rows
<1>2. ASSUME NEW c \in Calls, Feedback(c, "ambiguous", "ambiguous"),
             UNCHANGED dispatched, pass' = "done"
      PROVE  /\ messages' \in Seq(Calls) /\ state' \in [Calls -> States]
             /\ receipt' \in [Calls -> Outcomes \cup {"none"}]
             /\ dispatched' = dispatched /\ pass' \in {"done", "corrupt"}
  BY <1>2, FeedbackTypes DEF States, Outcomes
<1>3. ASSUME NEW c \in Calls, state' = [state EXCEPT ![c] = "unknown"],
             UNCHANGED <<messages, receipt, dispatched>>, pass' = "done"
      PROVE  /\ messages' \in Seq(Calls) /\ state' \in [Calls -> States]
             /\ receipt' \in [Calls -> Outcomes \cup {"none"}]
             /\ dispatched' = dispatched /\ pass' \in {"done", "corrupt"}
  BY <1>3 DEF TypeOK, States
<1> QED BY <1>1, <1>2, <1>3 DEF OwnerLossPass, rows, Lost

\* Every step keeps the types.
LEMMA TypeStep == TypeOK /\ [Next]_vars => TypeOK'
<1> SUFFICES ASSUME TypeOK, [Next]_vars PROVE TypeOK'
  OBVIOUS
<1> USE DEF batch, rows, process, world
<1>1. CASE Prepare
  <2>1. PICK R \in SUBSET Calls, m \in 0..N : messages' \in [1..m -> R]
    BY <1>1 DEF Prepare, InOrder
  <2>5. messages' \in [1..m -> Calls] /\ m \in Nat
    BY <2>1, NAssumption
  <2>6. messages' \in Seq(Calls)
    BY <2>5
  <2>2. kind' \in [Calls -> Kinds] /\ state' \in [Calls -> States]
    BY <1>1 DEF Prepare, States, Kinds
  <2>3. decision' \in [Calls -> Decisions] /\ gate' \in Gates
    BY <1>1 DEF Prepare, Decisions, Gates
  <2> QED BY <1>1, <2>2, <2>3, <2>6 DEF Prepare, TypeOK, Quiet, Replies
<1>2. CASE Query
  BY <1>2, PassTypes DEF Query, TypeOK, Quiet, Replies
<1>3. CASE Boot
  BY <1>3, PassTypes DEF Boot, TypeOK, Quiet, Replies
<1>4. CASE Crash
  BY <1>4 DEF Crash, TypeOK, Quiet, Replies, Steps, Results
<1>5. ASSUME NEW c \in Calls, Bind(c) PROVE TypeOK'
  <2>1. decision' \in [Calls -> Decisions]
    BY <1>5 DEF Bind, TypeOK
  <2>2. /\ messages' \in Seq(Calls) /\ state' \in [Calls -> States]
        /\ receipt' \in [Calls -> Outcomes \cup {"none"}]
    BY <1>5, FeedbackTypes DEF Bind, TypeOK, States, Outcomes
  <2> QED BY <1>5, <2>1, <2>2 DEF Bind, TypeOK, Replies
<1>6. ASSUME NEW c \in Calls, BindAgain(c) PROVE TypeOK'
  BY <1>6 DEF BindAgain, TypeOK, Replies
<1>7. ASSUME NEW c \in Calls, Cancel(c) PROVE TypeOK'
  <2>1. /\ messages' \in Seq(Calls) /\ state' \in [Calls -> States]
        /\ receipt' \in [Calls -> Outcomes \cup {"none"}]
    BY <1>7, FeedbackTypes DEF Cancel, States, Outcomes
  <2> QED BY <1>7, <2>1 DEF Cancel, TypeOK, Quiet, Replies, Gates
<1>8. ASSUME NEW c \in Calls, RequestCancel(c) PROVE TypeOK'
  BY <1>8 DEF RequestCancel, TypeOK, Quiet, Replies, States
<1>9. ASSUME NEW c \in Calls, Execute(c) PROVE TypeOK'
  BY <1>9 DEF Execute, TypeOK, Quiet, Replies, Steps, Gates
<1>10. ASSUME NEW c \in Calls, Claim(c) PROVE TypeOK'
  BY <1>10 DEF Claim, TypeOK, Quiet, Replies, Steps, States
<1>11. ASSUME NEW c \in Calls, StoreFails(c) PROVE TypeOK'
  BY <1>11 DEF StoreFails, Leave, TypeOK, Quiet, Replies, Steps
<1>12. ASSUME NEW c \in Calls, MarkDispatched(c) PROVE TypeOK'
  BY <1>12 DEF MarkDispatched, Leave, TypeOK, Quiet, Replies, Steps
<1>13. ASSUME NEW c \in Calls, RunTool(c) PROVE TypeOK'
  <2>1. result' \in [Calls -> Results] /\ applied' \subseteq Calls
    BY <1>13 DEF RunTool, TypeOK, ToolResults, Results, Outcomes
  <2>2. runs' \in Seq(Calls)
    BY <1>13 DEF RunTool, TypeOK
  <2> QED BY <1>13, <2>1, <2>2 DEF RunTool, TypeOK, Quiet, Replies, Steps
<1>14. ASSUME NEW c \in Calls, Finish(c) PROVE TypeOK'
  <2>1. /\ messages' \in Seq(Calls) /\ state' \in [Calls -> States]
        /\ receipt' \in [Calls -> Outcomes \cup {"none"}]
        /\ result' \in [Calls -> Results]
    <3>1. CASE Active(c)
      <4>1. PICK o \in Outcomes \cup {"none"} : Settle(c, o)
        BY <1>14, <3>1 DEF Finish, Recorded, TypeOK, Results, Outcomes
      <4>2. result' = [result EXCEPT ![c] = "none"]
        BY <1>14, <3>1 DEF Finish
      <4>3. result' \in [Calls -> Results]
        BY <4>2 DEF TypeOK, Results
      <4> QED BY <4>1, <4>3, SettleTypes
    <3>2. CASE ~Active(c)
      BY <1>14, <3>2 DEF Finish, TypeOK
    <3> QED BY <3>1, <3>2
  <2> QED BY <1>14, <2>1 DEF Finish, Leave, TypeOK, Quiet, Replies, Steps
<1>15. ASSUME NEW c \in Calls, FinishFails(c) PROVE TypeOK'
  BY <1>15 DEF FinishFails, Leave, TypeOK, Quiet, Replies, Steps, Results
<1>16. ASSUME NEW c \in Calls, Recover(c) PROVE TypeOK'
  <2>1. PICK o \in Proofs(c) : Settle(c, o)
    BY <1>16 DEF Recover
  <2>2. o \in Outcomes \cup {"none"}
    BY DEF Proofs, Recorded, TypeOK, Results, Outcomes
  <2>3. /\ messages' \in Seq(Calls) /\ state' \in [Calls -> States]
        /\ receipt' \in [Calls -> Outcomes \cup {"none"}]
    BY <2>1, <2>2, SettleTypes
  <2> QED BY <1>16, <2>3 DEF Recover, TypeOK, Quiet, Replies, Results
<1>17. CASE UNCHANGED vars
  BY <1>17 DEF vars, TypeOK
<1> QED
  BY <1>1, <1>2, <1>3, <1>4, <1>5, <1>6, <1>7, <1>8, <1>9, <1>10, <1>11, <1>12, <1>13,
     <1>14, <1>15, <1>16, <1>17 DEF Next

\* The state of a batch before it is prepared is well typed.
LEMMA InitTypes == Init => TypeOK
BY DEF Init, TypeOK, Kinds, States, Outcomes, Results, Gates, Decisions, Steps, Replies,
   NoCall

\* In every reachable state the rows, the gate, the executions and the history
\* have their types (validated by the ledger on every read and write).
THEOREM TypeCorrect == Spec => []TypeOK
BY InitTypes, TypeStep, PTL DEF Spec


-----------------------------------------------------------------------------
(***************************************************************************)
(* The invariant                                                           *)
(***************************************************************************)
\* Running a tool adds its call to the history, and no other.
LEMMA HistoryStep ==
  ASSUME TypeOK, NEW c \in Calls, RunTool(c)
  PROVE  \A d \in Calls : Started(d)' <=> Started(d) \/ d = c
<1>1. runs \in Seq(Calls) /\ runs' = Append(runs, c)
  BY DEF TypeOK, RunTool
<1> QED BY <1>1 DEF Started

\* What the owner-loss pass does, call by call.
LEMMA PassRows ==
  ASSUME TypeOK, OwnerLossPass
  PROVE  /\ UNCHANGED dispatched
         /\ \A c \in Calls :
              \/ state'[c] = state[c] /\ receipt'[c] = receipt[c]
              \/ /\ c \in Lost /\ c \in dispatched
                 /\ state'[c] = "ambiguous" /\ receipt'[c] = "ambiguous"
              \/ /\ c \in Lost /\ c \notin dispatched
                 /\ state'[c] = "unknown" /\ receipt'[c] = receipt[c]
BY DEF TypeOK, OwnerLossPass, Feedback, rows, Lost

LEMMA FreshStep == IInv /\ [Next]_vars => Fresh'
<1> SUFFICES ASSUME IInv, [Next]_vars PROVE Fresh'
  OBVIOUS
<1> USE DEF IInv, batch, rows, process, world
<1>1. CASE Prepare
  BY <1>1 DEF Prepare, Fresh
<1>2. CASE Query
  BY <1>2, PassRows DEF Query, Fresh, Lost, Active
<1>3. CASE Boot
  <2>1. CASE gate = "absent"
    BY <1>3, <2>1, PassRows DEF Boot, Fresh, Lost, Active
  <2>2. CASE gate # "absent"
    BY <1>3, <2>2, PassRows DEF Boot, Fresh, Lost, Active
  <2> QED BY <2>1, <2>2
<1>4. CASE Crash
  BY <1>4 DEF Crash, Fresh
<1>5. ASSUME NEW c \in Calls, Bind(c) PROVE Fresh'
  BY <1>5 DEF Bind, Feedback, TypeOK, Fresh
<1>6. ASSUME NEW c \in Calls, BindAgain(c) PROVE Fresh'
  BY <1>6 DEF BindAgain, Fresh
<1>7. ASSUME NEW c \in Calls, Cancel(c) PROVE Fresh'
  BY <1>7 DEF Cancel, Feedback, Fresh
<1>8. ASSUME NEW c \in Calls, RequestCancel(c) PROVE Fresh'
  BY <1>8 DEF RequestCancel, Fresh
<1>9. ASSUME NEW c \in Calls, Execute(c) PROVE Fresh'
  BY <1>9 DEF Execute, GateMayOpen, Fresh
<1>10. ASSUME NEW c \in Calls, Claim(c) PROVE Fresh'
  BY <1>10 DEF Claim, Fresh, Positions
<1>11. ASSUME NEW c \in Calls, StoreFails(c) PROVE Fresh'
  BY <1>11 DEF StoreFails, Fresh
<1>12. ASSUME NEW c \in Calls, MarkDispatched(c) PROVE Fresh'
  BY <1>12 DEF MarkDispatched, EffectGateOpen, Fresh
<1>13. ASSUME NEW c \in Calls, RunTool(c) PROVE Fresh'
  BY <1>13, HistoryStep DEF RunTool, Fresh
<1>14. ASSUME NEW c \in Calls, Finish(c) PROVE Fresh'
  <2>1. gate # "absent" /\ UNCHANGED <<gate, kind>>
    BY <1>14 DEF Finish, Fresh
  <2>2. \A d \in Calls : state'[d] = "none" <=> state[d] = "none"
    BY <1>14 DEF Finish, Settle, Feedback, SettledState, Active, TypeOK
  <2> QED BY <2>1, <2>2 DEF Fresh
<1>15. ASSUME NEW c \in Calls, FinishFails(c) PROVE Fresh'
  BY <1>15 DEF FinishFails, Fresh
<1>16. ASSUME NEW c \in Calls, Recover(c) PROVE Fresh'
  <2>1. gate # "absent" /\ UNCHANGED <<gate, kind>>
    BY <1>16 DEF Recover, Fresh, Active
  <2>2. \A d \in Calls : state'[d] = "none" <=> state[d] = "none"
    BY <1>16 DEF Recover, Settle, Feedback, SettledState, Active
  <2> QED BY <2>1, <2>2 DEF Fresh
<1>17. CASE UNCHANGED vars
  BY <1>17 DEF vars, Fresh
<1> QED
  BY <1>1, <1>2, <1>3, <1>4, <1>5, <1>6, <1>7, <1>8, <1>9, <1>10, <1>11, <1>12, <1>13,
     <1>14, <1>15, <1>16, <1>17 DEF Next

LEMMA ThreadsStep == IInv /\ [Next]_vars => Threads'
<1> SUFFICES ASSUME IInv, [Next]_vars PROVE Threads'
  OBVIOUS
<1> USE DEF IInv, batch, rows, process, world
<1>1. CASE Prepare
  BY <1>1 DEF Prepare, Threads, Fresh
<1>2. CASE Query
  BY <1>2, PassRows DEF Query, Threads
<1>3. CASE Boot
  BY <1>3, PassRows DEF Boot, Threads
<1>4. CASE Crash
  BY <1>4 DEF Crash, Threads
<1>5. ASSUME NEW c \in Calls, Bind(c) PROVE Threads'
  BY <1>5 DEF Bind, Threads
<1>6. ASSUME NEW c \in Calls, BindAgain(c) PROVE Threads'
  BY <1>6 DEF BindAgain, Threads
<1>7. ASSUME NEW c \in Calls, Cancel(c) PROVE Threads'
  BY <1>7 DEF Cancel, Threads
<1>8. ASSUME NEW c \in Calls, RequestCancel(c) PROVE Threads'
  BY <1>8 DEF RequestCancel, Threads
<1>9. ASSUME NEW c \in Calls, Execute(c) PROVE Threads'
  <2>1. thread[c] = "idle"
    BY <1>9 DEF Execute, TypeOK, Steps, Positions, Fence, Threads, Ready, NoCall, Calls
  <2>2. \A d \in Calls : queue # d
    BY <1>9 DEF Execute, Ready, NoCall, Calls
  <2> QED BY <1>9, <2>1, <2>2 DEF Execute, Ready, Threads
<1>10. ASSUME NEW c \in Calls, Claim(c) PROVE Threads'
  BY <1>10 DEF Claim, TypeOK, Threads
<1>11. ASSUME NEW c \in Calls, StoreFails(c) PROVE Threads'
  BY <1>11 DEF StoreFails, Leave, TypeOK, Threads
<1>12. ASSUME NEW c \in Calls, MarkDispatched(c) PROVE Threads'
  <2>1. thread[c] = "claimed" /\ queue = c /\ up /\ UNCHANGED <<kind, up>>
    BY <1>12 DEF MarkDispatched, Threads
  <2>2. \A d \in Calls : d # c => thread'[d] = thread[d]
    BY <1>12 DEF MarkDispatched, Leave, TypeOK
  <2>3. \A d \in Calls : d # c /\ thread[d] # "idle" =>
          kind[d] = "runtime" /\ thread[d] \notin {"gated", "claimed"}
    BY <2>1 DEF Threads
  <2>4. CASE /\ thread'[c] = "dispatched"
             /\ queue' = IF kind[c] = "runtime" THEN NoCall ELSE queue
             /\ UNCHANGED alive
    BY <2>1, <2>2, <2>3, <2>4 DEF Threads
  <2>5. CASE Leave(c)
    BY <2>1, <2>2, <2>3, <2>5 DEF Leave, Threads, TypeOK
  <2> QED BY <1>12, <2>4, <2>5 DEF MarkDispatched, TypeOK
<1>13. ASSUME NEW c \in Calls, RunTool(c) PROVE Threads'
  BY <1>13, HistoryStep DEF RunTool, Threads
<1>14. ASSUME NEW c \in Calls, Finish(c) PROVE Threads'
  BY <1>14 DEF Finish, Leave, Settle, TypeOK, Threads
<1>15. ASSUME NEW c \in Calls, FinishFails(c) PROVE Threads'
  BY <1>15 DEF FinishFails, Leave, TypeOK, Threads
<1>16. ASSUME NEW c \in Calls, Recover(c) PROVE Threads'
  BY <1>16 DEF Recover, Settle, Proofs, Threads
<1>17. CASE UNCHANGED vars
  BY <1>17 DEF vars, Threads
<1> QED
  BY <1>1, <1>2, <1>3, <1>4, <1>5, <1>6, <1>7, <1>8, <1>9, <1>10, <1>11, <1>12, <1>13,
     <1>14, <1>15, <1>16, <1>17 DEF Next

LEMMA PositionsStep == IInv /\ [Next]_vars => Positions'
<1> SUFFICES ASSUME IInv, [Next]_vars PROVE Positions'
  OBVIOUS
<1> USE DEF IInv, batch, rows, process, world
<1>1. CASE Prepare
  BY <1>1 DEF Prepare, Positions, Fresh
<1>2. CASE Query
  <2>1. \A d \in Calls : thread[d] # "idle" => state'[d] = state[d]
    BY <1>2, PassRows DEF Query, Lost, Threads, Positions, TypeOK, Steps, Active
  <2> QED BY <1>2, <2>1, PassRows DEF Query, Positions, Active, Started
<1>3. CASE Boot
  BY <1>3, PassRows DEF Boot, Positions, Threads
<1>4. CASE Crash
  BY <1>4 DEF Crash, Positions
<1>5. ASSUME NEW c \in Calls, Bind(c) PROVE Positions'
  <2>1. thread[c] = "idle"
    BY <1>5 DEF Bind, TypeOK, Steps, Positions, Fence, Threads, Ready, NoCall, Calls
  <2>2. \A d \in Calls : d # c => state'[d] = state[d]
    BY <1>5 DEF Bind, Feedback, TypeOK
  <2> QED BY <1>5, <2>1, <2>2 DEF Bind, Positions, Active, Started
<1>6. ASSUME NEW c \in Calls, BindAgain(c) PROVE Positions'
  BY <1>6 DEF BindAgain, Started, Active, Positions
<1>7. ASSUME NEW c \in Calls, Cancel(c) PROVE Positions'
  <2>1. thread[c] = "idle" \/ thread[c] = "finished"
    BY <1>7 DEF Cancel, TypeOK, Steps, Positions, Threads, Ready, NoCall, Calls
  <2>2. \A d \in Calls : d # c => state'[d] = state[d]
    BY <1>7 DEF Cancel, Feedback
  <2> QED BY <1>7, <2>1, <2>2 DEF Cancel, Positions, Active, Started
<1>8. ASSUME NEW c \in Calls, RequestCancel(c) PROVE Positions'
  BY <1>8 DEF RequestCancel, Ready, Started, Active, TypeOK, NoCall, Positions, Threads
<1>9. ASSUME NEW c \in Calls, Execute(c) PROVE Positions'
  BY <1>9 DEF Execute, GateMayOpen, Started, Active, Positions
<1>10. ASSUME NEW c \in Calls, Claim(c) PROVE Positions'
  BY <1>10 DEF Claim, Started, Active, TypeOK, Fence, Positions
<1>11. ASSUME NEW c \in Calls, StoreFails(c) PROVE Positions'
  BY <1>11 DEF StoreFails, Leave, Started, Active, Positions
<1>12. ASSUME NEW c \in Calls, MarkDispatched(c) PROVE Positions'
  BY <1>12 DEF MarkDispatched, Leave, EffectGateOpen, Started, Active, TypeOK, Fence,
     Positions
<1>13. ASSUME NEW c \in Calls, RunTool(c) PROVE Positions'
  <2>1. \A d \in Calls : d # c => thread'[d] = thread[d]
    BY <1>13 DEF RunTool
  <2>2. thread'[c] = "finished" /\ Started(c)'
    BY <1>13, HistoryStep DEF RunTool, TypeOK
  <2> QED BY <1>13, <2>1, <2>2, HistoryStep DEF RunTool, Positions, Active
<1>14. ASSUME NEW c \in Calls, Finish(c) PROVE Positions'
  BY <1>14 DEF Finish, Leave, Settle, Feedback, Started, Active, TypeOK, Positions
<1>15. ASSUME NEW c \in Calls, FinishFails(c) PROVE Positions'
  BY <1>15 DEF FinishFails, Leave, Started, Active, Positions
<1>16. ASSUME NEW c \in Calls, Recover(c) PROVE Positions'
  <2>1. PICK o \in Proofs(c) : Settle(c, o)
    BY <1>16 DEF Recover
  <2>2. Started(c)
    BY DEF Proofs, Recorded, Fence
  <2>3. thread[c] = "idle" \/ thread[c] = "finished"
    BY <1>16, <2>2 DEF Recover, TypeOK, Steps, Positions, Threads, Ready, NoCall, Calls
  <2>4. \A d \in Calls : d # c => state'[d] = state[d]
    BY <2>1 DEF Settle, Feedback
  <2> QED BY <1>16, <2>2, <2>3, <2>4 DEF Recover, Positions, Active, Started
<1>17. CASE UNCHANGED vars
  BY <1>17 DEF vars, Positions, Started, Active
<1> QED
  BY <1>1, <1>2, <1>3, <1>4, <1>5, <1>6, <1>7, <1>8, <1>9, <1>10, <1>11, <1>12, <1>13,
     <1>14, <1>15, <1>16, <1>17 DEF Next

\* A settlement of a call that was started does not pass the fence.
LEMMA SettleFence ==
  ASSUME TypeOK, Fence, NEW c \in Calls, NEW o, Settle(c, o), Started(c), o # "denied",
         UNCHANGED <<dispatched, runs, applied>>,
         \A d \in Calls : result'[d] \in {result[d], "none"}
  PROVE  Fence'
<1>1. SettledState(o) \in {"settled", "cancelled", "ambiguous"}
  BY DEF SettledState
<1>2. state'[c] = SettledState(o) /\ receipt'[c] = o /\ c \in dispatched
  BY DEF Settle, Feedback, TypeOK
<1>3. \A d \in Calls : d # c => state'[d] = state[d] /\ receipt'[d] = receipt[d]
  BY DEF Settle, Feedback, TypeOK
<1>4. \A d \in Calls : Started(d)' <=> Started(d)
  BY DEF Started
<1> QED BY <1>1, <1>2, <1>3, <1>4 DEF Fence

LEMMA FenceStep == IInv /\ [Next]_vars => Fence'
<1> SUFFICES ASSUME IInv, [Next]_vars PROVE Fence'
  OBVIOUS
<1> USE DEF IInv, batch, rows, process, world
<1>1. CASE Prepare
  BY <1>1 DEF Prepare, Fence, Started, Fresh
<1>2. CASE Query
  BY <1>2, PassRows DEF Query, Fence, Started, Active, Positions, Lost
<1>3. CASE Boot
  BY <1>3, PassRows DEF Boot, Fence, Started, Active, Lost
<1>4. CASE Crash
  BY <1>4 DEF Crash, Fence, Started
<1>5. ASSUME NEW c \in Calls, Bind(c) PROVE Fence'
  BY <1>5 DEF Bind, Feedback, Started, TypeOK, Fence
<1>6. ASSUME NEW c \in Calls, BindAgain(c) PROVE Fence'
  BY <1>6 DEF BindAgain, Started, Fence
<1>7. ASSUME NEW c \in Calls, Cancel(c) PROVE Fence'
  BY <1>7 DEF Cancel, Feedback, Started, Fence
<1>8. ASSUME NEW c \in Calls, RequestCancel(c) PROVE Fence'
  BY <1>8 DEF RequestCancel, Started, Fence
<1>9. ASSUME NEW c \in Calls, Execute(c) PROVE Fence'
  BY <1>9 DEF Execute, GateMayOpen, Started, Fence
<1>10. ASSUME NEW c \in Calls, Claim(c) PROVE Fence'
  BY <1>10 DEF Claim, Started, Fence, Positions
<1>11. ASSUME NEW c \in Calls, StoreFails(c) PROVE Fence'
  BY <1>11 DEF StoreFails, Started, Fence
<1>12. ASSUME NEW c \in Calls, MarkDispatched(c) PROVE Fence'
  BY <1>12 DEF MarkDispatched, EffectGateOpen, Started, Active, Fence
<1>13. ASSUME NEW c \in Calls, RunTool(c) PROVE Fence'
  <2>1. c \in dispatched /\ Active(c)
    BY <1>13 DEF RunTool, Positions
  <2>2. \A d \in Calls : result'[d] # "denied"
    BY <1>13 DEF RunTool, ToolResults, Fence
  <2>3. \A d \in Calls : result'[d] # "none" \/ d \in applied' => Started(d)'
    BY <1>13, HistoryStep DEF RunTool, TypeOK, Fence
  <2> QED BY <1>13, <2>1, <2>2, <2>3, HistoryStep DEF RunTool, Fence
<1>14. ASSUME NEW c \in Calls, Finish(c) PROVE Fence'
  <2>1. Started(c) /\ result[c] # "denied"
    BY <1>14 DEF Finish, Positions, Fence
  <2>2. CASE Active(c)
    <3>1. PICK o \in {Recorded(result[c]), "cancelled", "ambiguous"} : Settle(c, o)
      BY <1>14, <2>2 DEF Finish
    <3>2. o # "denied"
      BY <2>1 DEF Recorded
    <3> QED BY <1>14, <2>1, <2>2, <3>1, <3>2, SettleFence DEF Finish, TypeOK
  <2>3. CASE ~Active(c)
    BY <1>14, <2>3 DEF Finish, Fence, Started
  <2> QED BY <2>2, <2>3
<1>15. ASSUME NEW c \in Calls, FinishFails(c) PROVE Fence'
  BY <1>15 DEF FinishFails, Started, Fence
<1>16. ASSUME NEW c \in Calls, Recover(c) PROVE Fence'
  <2>1. PICK o \in Proofs(c) : Settle(c, o)
    BY <1>16 DEF Recover
  <2>2. Started(c) /\ o # "denied"
    BY DEF Proofs, Recorded, Fence
  <2> QED BY <1>16, <2>1, <2>2, SettleFence DEF Recover
<1>17. CASE UNCHANGED vars
  BY <1>17 DEF vars, Fence, Started
<1> QED
  BY <1>1, <1>2, <1>3, <1>4, <1>5, <1>6, <1>7, <1>8, <1>9, <1>10, <1>11, <1>12, <1>13,
     <1>14, <1>15, <1>16, <1>17 DEF Next

LEMMA OrderStep == IInv /\ [Next]_vars => Order'
<1> SUFFICES ASSUME IInv, [Next]_vars PROVE Order'
  OBVIOUS
<1> USE DEF IInv, batch, rows, process, world
<1>1. CASE Prepare
  BY <1>1 DEF Prepare, Order, Busy, Active, Fresh
<1>2. CASE Query
  BY <1>2, PassRows DEF Query, Order, Busy, Active, Resolved, Lost
<1>3. CASE Boot
  BY <1>3, PassRows DEF Boot, Order, Busy, Active, Resolved, Lost
<1>4. CASE Crash
  BY <1>4 DEF Crash, Order, Busy, Active, Resolved
<1>5. ASSUME NEW c \in Calls, Bind(c) PROVE Order'
  <2>1. \A d \in Calls : d # c => state'[d] = state[d]
    BY <1>5 DEF Bind, Feedback, TypeOK
  <2>2. state'[c] \in {"intent", "settled"} /\ state[c] = "intent"
    BY <1>5 DEF Bind, Feedback, TypeOK
  <2> QED BY <1>5, <2>1, <2>2 DEF Bind, Order, Busy, Active, Resolved
<1>6. ASSUME NEW c \in Calls, BindAgain(c) PROVE Order'
  BY <1>6 DEF BindAgain, Busy, Active, Resolved, Order
<1>7. ASSUME NEW c \in Calls, Cancel(c) PROVE Order'
  BY <1>7 DEF Cancel, Feedback, Busy, Active, Resolved, Order
<1>8. ASSUME NEW c \in Calls, RequestCancel(c) PROVE Order'
  BY <1>8 DEF RequestCancel, Busy, Active, Resolved, Order
<1>9. ASSUME NEW c \in Calls, Execute(c) PROVE Order'
  BY <1>9 DEF Execute, GateMayOpen, Resolved, Busy, Active, Order
<1>10. ASSUME NEW c \in Calls, Claim(c) PROVE Order'
  BY <1>10 DEF Claim, Busy, Active, Resolved, Order, Positions
<1>11. ASSUME NEW c \in Calls, StoreFails(c) PROVE Order'
  BY <1>11 DEF StoreFails, Leave, Busy, Active, Resolved, Order
<1>12. ASSUME NEW c \in Calls, MarkDispatched(c) PROVE Order'
  BY <1>12 DEF MarkDispatched, Leave, EffectGateOpen, Busy, Active, Resolved, TypeOK,
     Order
<1>13. ASSUME NEW c \in Calls, RunTool(c) PROVE Order'
  BY <1>13, HistoryStep DEF RunTool, Busy, Active, Resolved, Order
<1>14. ASSUME NEW c \in Calls, Finish(c) PROVE Order'
  <2>1. \A d \in Calls : state'[d] = state[d] \/ d = c
    BY <1>14 DEF Finish, Settle, Feedback, TypeOK
  <2>2. ~Active(c)' /\ (Resolved(c) => Resolved(c)')
    BY <1>14 DEF Finish, Settle, Feedback, SettledState, TypeOK, Active, Resolved
  <2>3. \A d \in Calls : Busy(d)' => Busy(d)
    BY <1>14, <2>1, <2>2 DEF Finish, Leave, Busy, Active
  <2> QED BY <1>14, <2>1, <2>2, <2>3 DEF Order, Resolved
<1>15. ASSUME NEW c \in Calls, FinishFails(c) PROVE Order'
  BY <1>15 DEF FinishFails, Leave, Busy, Active, Resolved, Order
<1>16. ASSUME NEW c \in Calls, Recover(c) PROVE Order'
  BY <1>16 DEF Recover, Settle, Feedback, Proofs, Busy, Active, Resolved, Order
<1>17. CASE UNCHANGED vars
  BY <1>17 DEF vars, Order, Busy, Active, Resolved
<1> QED
  BY <1>1, <1>2, <1>3, <1>4, <1>5, <1>6, <1>7, <1>8, <1>9, <1>10, <1>11, <1>12, <1>13,
     <1>14, <1>15, <1>16, <1>17 DEF Next

LEMMA GateStep == IInv /\ [Next]_vars => Gate'
<1> SUFFICES ASSUME IInv, [Next]_vars PROVE Gate'
  OBVIOUS
<1> USE DEF IInv, batch, rows, process, world
<1>1. CASE Prepare
  BY <1>1 DEF Prepare, Gate, ApprovalsBound, Manifest, Fresh
<1>2. CASE Query
  BY <1>2, PassRows DEF Query, Gate, ApprovalsBound, Manifest
<1>3. CASE Boot
  BY <1>3, PassRows DEF Boot, Gate, ApprovalsBound, Manifest
<1>4. CASE Crash
  BY <1>4 DEF Crash, Gate, ApprovalsBound, Manifest
<1>5. ASSUME NEW c \in Calls, Bind(c) PROVE Gate'
  BY <1>5 DEF Bind, Manifest, ApprovalsBound, Gate
<1>6. ASSUME NEW c \in Calls, BindAgain(c) PROVE Gate'
  BY <1>6 DEF BindAgain, ApprovalsBound, Manifest, Gate
<1>7. ASSUME NEW c \in Calls, Cancel(c) PROVE Gate'
  BY <1>7 DEF Cancel, Manifest, ApprovalsBound, Gate
<1>8. ASSUME NEW c \in Calls, RequestCancel(c) PROVE Gate'
  BY <1>8 DEF RequestCancel, ApprovalsBound, Manifest, Gate
<1>9. ASSUME NEW c \in Calls, Execute(c) PROVE Gate'
  BY <1>9 DEF Execute, GateMayOpen, Manifest, ApprovalsBound, Gate
<1>10. ASSUME NEW c \in Calls, Claim(c) PROVE Gate'
  BY <1>10 DEF Claim, ApprovalsBound, Manifest, Gate
<1>11. ASSUME NEW c \in Calls, StoreFails(c) PROVE Gate'
  BY <1>11 DEF StoreFails, Leave, ApprovalsBound, Manifest, Gate
<1>12. ASSUME NEW c \in Calls, MarkDispatched(c) PROVE Gate'
  BY <1>12 DEF MarkDispatched, Leave, EffectGateOpen, ApprovalsBound, Manifest, TypeOK,
     Gate
<1>13. ASSUME NEW c \in Calls, RunTool(c) PROVE Gate'
  BY <1>13, HistoryStep DEF RunTool, ApprovalsBound, Manifest, Gate
<1>14. ASSUME NEW c \in Calls, Finish(c) PROVE Gate'
  BY <1>14 DEF Finish, Leave, Settle, ApprovalsBound, Manifest, Gate
<1>15. ASSUME NEW c \in Calls, FinishFails(c) PROVE Gate'
  BY <1>15 DEF FinishFails, Leave, ApprovalsBound, Manifest, Gate
<1>16. ASSUME NEW c \in Calls, Recover(c) PROVE Gate'
  BY <1>16 DEF Recover, Settle, Proofs, ApprovalsBound, Manifest, Gate
<1>17. CASE UNCHANGED vars
  BY <1>17 DEF vars, Gate, ApprovalsBound, Manifest
<1> QED
  BY <1>1, <1>2, <1>3, <1>4, <1>5, <1>6, <1>7, <1>8, <1>9, <1>10, <1>11, <1>12, <1>13,
     <1>14, <1>15, <1>16, <1>17 DEF Next


LEMMA InitInv == Init => IInv
BY InitTypes DEF Init, IInv, Fresh, Threads, Positions, Fence, Order, Gate, Busy, Active,
  Started, Manifest

\* The invariant is inductive.
THEOREM Inductive == Spec => []IInv
<1>1. IInv /\ [Next]_vars => IInv'
  BY TypeStep, FreshStep, ThreadsStep, PositionsStep, FenceStep, OrderStep, GateStep
     DEF IInv
<1> QED BY InitInv, <1>1, PTL DEF Spec

\* No mutation runs before the user has decided on every mutation of its batch
\* and allowed this one (open_effect_gate, write_batch_effect_gate_open).
THEOREM NothingWithoutConsent == Spec => []Consent
<1>1. IInv => Consent
  BY DEF IInv, Gate, Fence, Consent, ApprovalsBound, Manifest
<1> QED BY <1>1, Inductive, PTL

\* A row that says its call did not run is right: the marker is written before
\* the tool starts, and nothing takes it back (mark_dispatched, settle).
THEOREM MarkerIsAFence == Spec => []NotRunIsTrue
<1>1. IInv => NotRunIsTrue
  BY DEF IInv, Fence, NotRunIsTrue, SaysNotRun
<1> QED BY <1>1, Inductive, PTL

\* A batch released because none of its mutations was dispatched never
\* dispatches one (the release of the gate by a cancellation).
THEOREM ReleaseIsFinal == Spec => []ReleasedNeverRuns
<1>1. IInv => ReleasedNeverRuns
  BY DEF IInv, Gate, Fence, ReleasedNeverRuns, Manifest
<1> QED BY <1>1, Inductive, PTL

-----------------------------------------------------------------------------
(***************************************************************************)
(* Receipts and answers                                                    *)
(***************************************************************************)
\* What a mutation returned and what its receipt says are true of what it left
\* behind.
Truth == \A c \in Manifest : "ok" \in {result[c], receipt[c]} => c \in applied

\* A settlement with what the tool returned, or with a proof, is true.
LEMMA SettleTrue ==
  ASSUME TypeOK, Truth, NEW c \in Calls, NEW o, Settle(c, o),
         o = "ok" => result[c] = "ok" \/ c \in applied,
         UNCHANGED <<kind, applied>>,
         \A d \in Calls : result'[d] \in {result[d], "none"}
  PROVE  Truth'
<1>1. \A d \in Calls : d # c => receipt'[d] = receipt[d]
  BY DEF Settle, Feedback, TypeOK
<1>2. receipt'[c] = o
  BY DEF Settle, Feedback, TypeOK
<1> QED BY <1>1, <1>2 DEF Truth, Manifest

\* A step that reports nothing done, and takes nothing back, keeps it.
LEMMA TruthFrame ==
  ASSUME Truth, UNCHANGED kind, applied \subseteq applied',
         \A d \in Calls : /\ "ok" = result'[d] => result[d] = "ok"
                          /\ "ok" = receipt'[d] => receipt[d] = "ok"
  PROVE  Truth'
BY DEF Truth, Manifest

LEMMA TruthStep == IInv /\ Truth /\ [Next]_vars => Truth'
<1> SUFFICES ASSUME IInv, Truth, [Next]_vars PROVE Truth'
  OBVIOUS
<1> USE DEF IInv, batch, rows, process, world
<1>1. CASE Prepare
  <2>1. \A c \in Calls : receipt[c] = "none" /\ result[c] = "none"
    BY <1>1 DEF Prepare, Fresh, Fence, Started
  <2> QED BY <1>1, <2>1 DEF Prepare, Truth, Manifest
<1>2. ASSUME OwnerLossPass, UNCHANGED <<kind, result, applied>> PROVE Truth'
  BY <1>2, PassRows, TruthFrame
<1>3. ASSUME NEW c \in Calls, Bind(c) PROVE Truth'
  BY <1>3, TruthFrame DEF Bind, Feedback, TypeOK
<1>4. ASSUME NEW c \in Calls, Cancel(c) PROVE Truth'
  BY <1>4, TruthFrame DEF Cancel, Feedback, TypeOK
<1>5. ASSUME UNCHANGED <<kind, receipt, applied>>,
             \A d \in Calls : result'[d] \in {result[d], "none"}
      PROVE  Truth'
  BY <1>5, TruthFrame
<1>6. ASSUME NEW c \in Calls, \/ BindAgain(c) \/ RequestCancel(c) \/ Execute(c) \/ Claim(c)
                              \/ StoreFails(c) \/ MarkDispatched(c)
      PROVE  Truth'
  BY <1>5, <1>6 DEF BindAgain, RequestCancel, Execute, Claim, StoreFails, MarkDispatched
<1>7. CASE Crash
  BY <1>5, <1>7 DEF Crash
<1>8. ASSUME NEW c \in Calls, FinishFails(c) PROVE Truth'
  BY <1>5, <1>8 DEF FinishFails, TypeOK
<1>9. ASSUME NEW c \in Calls, RunTool(c) PROVE Truth'
  <2>1. \A d \in Calls : d # c => result'[d] = result[d]
    BY <1>9 DEF RunTool, TypeOK
  <2>2. c \in Manifest /\ result'[c] = "ok" => c \in applied'
    BY <1>9 DEF RunTool, TypeOK, MayApply, Manifest
  <2>3. applied \subseteq applied' /\ UNCHANGED <<kind, receipt>>
    BY <1>9 DEF RunTool
  <2> QED BY <2>1, <2>2, <2>3 DEF Truth, Manifest
<1>10. ASSUME NEW c \in Calls, Finish(c) PROVE Truth'
  <2>1. CASE Active(c)
    <3>1. PICK o \in {Recorded(result[c]), "cancelled", "ambiguous"} : Settle(c, o)
      BY <1>10, <2>1 DEF Finish
    <3>2. o = "ok" => result[c] = "ok"
      BY DEF Recorded
    <3> QED BY <1>10, <2>1, <3>1, <3>2, SettleTrue DEF Finish, TypeOK
  <2>2. CASE ~Active(c)
    BY <1>5, <1>10, <2>2 DEF Finish
  <2> QED BY <2>1, <2>2
<1>11. ASSUME NEW c \in Calls, Recover(c) PROVE Truth'
  <2>1. PICK o \in Proofs(c) : Settle(c, o)
    BY <1>11 DEF Recover
  <2>2. o = "ok" => result[c] = "ok" \/ c \in applied
    BY <2>1 DEF Proofs, Recorded
  <2> QED BY <1>11, <2>1, <2>2, SettleTrue DEF Recover, TypeOK
<1>12. CASE UNCHANGED vars
  BY <1>5, <1>12 DEF vars
<1> QED
  BY <1>1, <1>2, <1>3, <1>4, <1>6, <1>7, <1>8, <1>9, <1>10, <1>11, <1>12 DEF Next, Query,
     Boot

\* A mutation whose receipt says done is done, through retries and recovery
\* (settlement_plan, recover_plan).
THEOREM ReceiptsAreTrue == Spec => []DoneIsDone
<1>1. Init => Truth
  BY DEF Init, Truth, Manifest
<1>2. Truth => DoneIsDone
  BY DEF Truth, DoneIsDone
<1> QED BY <1>1, <1>2, TruthStep, Inductive, PTL DEF Spec

\* A tool message for a call that has none keeps messages and rows together.
LEMMA AnswerOnce ==
  ASSUME TypeOK, OneAnswerEach, NEW c \in Calls, NEW s \in {"settled", "cancelled", "ambiguous"},
         NEW o, Feedback(c, s, o), ~Answered(c), UNCHANGED kind
  PROVE  OneAnswerEach'
<1> DEFINE Said == {messages[i] : i \in DOMAIN messages}
<1>1. messages \in Seq(Calls) /\ messages' = Append(messages, c) /\ c \notin Said
  BY DEF TypeOK, Feedback, OneAnswerEach
<1>2. \A i, j \in DOMAIN messages' : messages'[i] = messages'[j] => i = j
  BY <1>1 DEF OneAnswerEach
<1>3. {messages'[i] : i \in DOMAIN messages'} = Said \cup {c}
  BY <1>1
<1>4. \A d \in Calls : Answered(d)' <=> Answered(d) \/ d = c
  BY DEF Answered, Feedback, TypeOK
<1> QED BY <1>2, <1>3, <1>4 DEF OneAnswerEach

\* A step that leaves the messages and what is answered leaves them together.
LEMMA AnswerFrame ==
  ASSUME OneAnswerEach, UNCHANGED messages, \A d \in Calls : Answered(d)' <=> Answered(d)
  PROVE  OneAnswerEach'
BY DEF OneAnswerEach

LEMMA AnswerStep == IInv /\ OneAnswerEach /\ [Next]_vars => OneAnswerEach'
<1> SUFFICES ASSUME IInv, OneAnswerEach, [Next]_vars PROVE OneAnswerEach'
  OBVIOUS
<1> USE DEF IInv, batch, rows, process, world
<1>1. CASE Prepare
  <2> DEFINE R == {c \in Calls : kind'[c] = "rejected"}
  <2>1. PICK m \in 0..N :
          /\ messages' \in [1..m -> R]
          /\ \A i, j \in DOMAIN messages' : i < j => messages'[i] < messages'[j]
          /\ \A c \in R : \E i \in DOMAIN messages' : messages'[i] = c
    BY <1>1 DEF Prepare, InOrder
  <2>2. \A i, j \in DOMAIN messages' : messages'[i] = messages'[j] => i = j
    BY <2>1, NAssumption DEF Calls
  <2>3. {messages'[i] : i \in DOMAIN messages'} = R
    BY <2>1
  <2>4. \A c \in Calls : Answered(c)' <=> c \in R
    BY <1>1 DEF Prepare, Answered
  <2> QED BY <2>2, <2>3, <2>4 DEF OneAnswerEach
<1>2. ASSUME OwnerLossPass, UNCHANGED kind PROVE OneAnswerEach'
  <2>1. CASE rows' = rows
    BY <1>2, <2>1, AnswerFrame DEF Answered
  <2>2. ASSUME NEW c \in Lost, Feedback(c, "ambiguous", "ambiguous") PROVE OneAnswerEach'
    <3>1. c \in Calls /\ ~Answered(c)
      BY DEF Lost, Active, Answered, Fresh
    <3> QED BY <1>2, <2>2, <3>1, AnswerOnce
  <2>3. ASSUME NEW c \in Lost, state' = [state EXCEPT ![c] = "unknown"], UNCHANGED messages
        PROVE  OneAnswerEach'
    BY <1>2, <2>3, AnswerFrame DEF Lost, Active, Answered, TypeOK
  <2> QED BY <1>2, <2>1, <2>2, <2>3 DEF OwnerLossPass
<1>3. CASE Query
  BY <1>2, <1>3 DEF Query
<1>4. CASE Boot
  BY <1>2, <1>4 DEF Boot
<1>5. CASE Crash
  BY <1>5, AnswerFrame DEF Crash, Answered
<1>6. ASSUME NEW c \in Calls, Bind(c) PROVE OneAnswerEach'
  <2>1. ~Answered(c) /\ UNCHANGED kind
    BY <1>6 DEF Bind, Answered, Fresh
  <2>2. CASE Feedback(c, "settled", "denied")
    BY <2>1, <2>2, AnswerOnce
  <2>3. CASE UNCHANGED <<messages, state, receipt>>
    BY <2>1, <2>3, AnswerFrame DEF Answered
  <2> QED BY <1>6, <2>2, <2>3 DEF Bind
<1>7. ASSUME NEW c \in Calls, Cancel(c) PROVE OneAnswerEach'
  <2>1. ~Answered(c) /\ UNCHANGED kind
    BY <1>7 DEF Cancel, Answered, Fresh
  <2> QED BY <1>7, <2>1, AnswerOnce DEF Cancel
<1>8. ASSUME NEW c \in Calls, RequestCancel(c) PROVE OneAnswerEach'
  BY <1>8, AnswerFrame DEF RequestCancel, Answered, TypeOK
<1>9. ASSUME NEW c \in Calls, Claim(c) PROVE OneAnswerEach'
  BY <1>9, AnswerFrame DEF Claim, Answered, Positions, TypeOK
<1>10. ASSUME UNCHANGED <<kind, state, messages>> PROVE OneAnswerEach'
  BY <1>10, AnswerFrame DEF Answered
<1>11. ASSUME NEW c \in Calls, \/ BindAgain(c) \/ Execute(c) \/ StoreFails(c)
                               \/ MarkDispatched(c) \/ RunTool(c) \/ FinishFails(c)
       PROVE  OneAnswerEach'
  BY <1>10, <1>11 DEF BindAgain, Execute, StoreFails, MarkDispatched, RunTool, FinishFails
<1>12. ASSUME NEW c \in Calls, NEW o, Active(c), Settle(c, o), UNCHANGED kind
       PROVE  OneAnswerEach'
  <2>1. ~Answered(c)
    BY <1>12 DEF Active, Answered, Fresh
  <2>2. SettledState(o) \in {"settled", "cancelled", "ambiguous"}
    BY DEF SettledState
  <2> QED BY <1>12, <2>1, <2>2, AnswerOnce DEF Settle
<1>13. ASSUME NEW c \in Calls, Finish(c) PROVE OneAnswerEach'
  BY <1>10, <1>12, <1>13 DEF Finish
<1>14. ASSUME NEW c \in Calls, Recover(c) PROVE OneAnswerEach'
  BY <1>12, <1>14 DEF Recover
<1>15. CASE UNCHANGED vars
  BY <1>10, <1>15 DEF vars
<1> QED
  BY <1>1, <1>3, <1>4, <1>5, <1>6, <1>7, <1>8, <1>9, <1>11, <1>13, <1>14, <1>15 DEF Next

\* The model gets one tool message for each call that has ended, and none for
\* another (settle, cancel and reconcile write row and message together).
THEOREM EachIsAnsweredOnce == Spec => []OneAnswerEach
<1>1. Init => OneAnswerEach
  BY DEF Init, OneAnswerEach, Answered
<1> QED BY <1>1, AnswerStep, Inductive, PTL DEF Spec

-----------------------------------------------------------------------------
(***************************************************************************)
(* The ledger implements OrderedCalls                                      *)
(***************************************************************************)
\* A step that leaves a call's row alone leaves its verdict.
LEMMA VerdictFrame ==
  ASSUME NEW c \in Calls, kind'[c] = kind[c], state'[c] = state[c], receipt'[c] = receipt[c],
         state[c] # "cancelled" \/ (c \in dispatched <=> c \in dispatched')
  PROVE  VerdictOf(c)' = VerdictOf(c)
BY DEF VerdictOf, Refused

\* An open verdict is that of a row that has not ended.
LEMMA VerdictOpen ==
  ASSUME IInv, gate # "absent", NEW c \in Calls, state[c] = "intent" \/ Active(c)
  PROVE  VerdictOf(c) = "open" /\ kind[c] # "rejected"
BY DEF IInv, Fresh, Fence, VerdictOf, Refused, Active

\* A step that adds no run and leaves all verdicts is a stutter.
LEMMA Stutter ==
  ASSUME runs' = runs, \A c \in Calls : VerdictOf(c)' = VerdictOf(c)
  PROVE  UNCHANGED Promise!avars
<1>1. Verdict' = Verdict
  BY DEF Verdict
<1> QED BY <1>1 DEF Promise!avars

\* A step that ends one open call and no other is an answer.
LEMMA Answering ==
  ASSUME runs' = runs, NEW c \in Calls, NEW v \in Promise!Verdicts,
         VerdictOf(c) = "open", VerdictOf(c)' = v,
         \A d \in Calls : d # c => VerdictOf(d)' = VerdictOf(d),
         v \in {"refused", "stuck"} => ~Started(c),
         v = "settled" => Started(c)
  PROVE  Promise!ANext
<1>1. Verdict[c] = "open" /\ Verdict' = [Verdict EXCEPT ![c] = v]
  BY DEF Verdict
<1>2. Promise!HasRun(c) <=> Started(c)
  BY DEF Promise!HasRun, Started
<1>3. Promise!Answer(c, v)
  BY <1>1, <1>2 DEF Promise!Answer
<1> QED BY <1>3 DEF Promise!ANext, Promise!Calls, Calls

\* The pass answers for the row it ends.
LEMMA PassAnswers ==
  ASSUME IInv, gate # "absent", OwnerLossPass, UNCHANGED <<kind, runs>>
  PROVE  Promise!ANext \/ UNCHANGED Promise!avars
<1> USE DEF IInv
<1>1. CASE rows' = rows
  BY <1>1, VerdictFrame, Stutter DEF rows
<1>2. ASSUME NEW c \in Lost, UNCHANGED dispatched,
             \/ c \in dispatched /\ Feedback(c, "ambiguous", "ambiguous")
             \/ /\ c \notin dispatched /\ state' = [state EXCEPT ![c] = "unknown"]
                /\ UNCHANGED receipt
      PROVE  Promise!ANext
  <2>1. c \in Calls /\ Active(c) /\ VerdictOf(c) = "open" /\ kind[c] # "rejected"
    BY <1>2, VerdictOpen DEF Lost
  <2>2. \A d \in Calls : d # c => VerdictOf(d)' = VerdictOf(d)
    BY <1>2, VerdictFrame DEF Feedback, TypeOK
  <2>3. CASE c \in dispatched
    <3>1. VerdictOf(c)' = "doubtful"
      BY <1>2, <2>1, <2>3 DEF VerdictOf, Refused, Feedback, TypeOK
    <3> QED BY <2>1, <2>2, <3>1, Answering DEF Promise!Verdicts
  <2>4. CASE c \notin dispatched
    <3>1. VerdictOf(c)' = "stuck"
      BY <1>2, <2>1, <2>4 DEF VerdictOf, Refused, Fence, Active, TypeOK
    <3>2. ~Started(c)
      BY <2>1, <2>4 DEF Fence
    <3> QED BY <2>1, <2>2, <3>1, <3>2, Answering DEF Promise!Verdicts
  <2> QED BY <2>3, <2>4
<1> QED BY <1>1, <1>2 DEF OwnerLossPass, rows

\* So does the settlement of a call that was started.
LEMMA SettleAnswers ==
  ASSUME IInv, gate # "absent", NEW c \in Calls, NEW o \in Outcomes \cup {"none"},
         Active(c), Started(c), o # "denied", Settle(c, o),
         UNCHANGED <<kind, dispatched, runs>>
  PROVE  Promise!ANext
<1> USE DEF IInv
<1>1. VerdictOf(c) = "open" /\ kind[c] # "rejected" /\ c \in dispatched
  BY VerdictOpen DEF Fence
<1>2. \A d \in Calls : d # c => VerdictOf(d)' = VerdictOf(d)
  BY VerdictFrame DEF Settle, Feedback, TypeOK
<1>3. state'[c] \in {"settled", "cancelled", "ambiguous"} /\ receipt'[c] # "denied"
  BY DEF Settle, Feedback, SettledState, TypeOK
<1>4. VerdictOf(c)' \in {"settled", "doubtful"}
  BY <1>1, <1>3 DEF VerdictOf, Refused
<1> QED BY <1>1, <1>2, <1>4, Answering DEF Promise!Verdicts

\* Every step of the ledger is one of the abstract batch, or none.
LEMMA Simulation ==
  ASSUME IInv, [Next]_vars
  PROVE  Promise!ANext \/ UNCHANGED Promise!avars
<1> USE DEF IInv, batch, rows, process, world
<1>1. CASE Prepare
  <2> DEFINE R == {c \in Calls : kind'[c] = "rejected"}
  <2>1. \A c \in Calls : VerdictOf(c) = "open"
    BY <1>1 DEF Prepare, Fresh, VerdictOf, Refused
  <2>2. \A c \in Calls : VerdictOf(c)' = IF c \in R THEN "refused" ELSE "open"
    BY <1>1 DEF Prepare, Fresh, VerdictOf, Refused
  <2>3. /\ Verdict = [c \in Calls |-> "open"]
        /\ Verdict' = [c \in Calls |-> IF c \in R THEN "refused" ELSE "open"]
    BY <2>1, <2>2 DEF Verdict
  <2>4. runs = << >> /\ runs' = runs
    BY <1>1 DEF Prepare, Fresh
  <2>5. Promise!Reject
    BY <2>3, <2>4 DEF Promise!Reject, Promise!Calls, Calls
  <2> QED BY <2>5 DEF Promise!ANext
<1>2. CASE Query
  BY <1>2, PassAnswers DEF Query
<1>3. CASE Boot
  <2>1. CASE gate = "absent"
    <3>1. \A c \in Calls : state'[c] = state[c] /\ receipt'[c] = receipt[c]
      BY <1>3, <2>1, PassRows DEF Boot, Fresh, Lost, Active
    <3> QED BY <1>3, <2>1, <3>1, PassRows, VerdictFrame, Stutter DEF Boot
  <2> QED BY <1>3, <2>1, PassAnswers DEF Boot
<1>4. CASE Crash
  BY <1>4, VerdictFrame, Stutter DEF Crash
<1>5. ASSUME NEW c \in Calls, Bind(c) PROVE Promise!ANext \/ UNCHANGED Promise!avars
  <2>1. state[c] = "intent" /\ gate # "absent" /\ ~Started(c)
    BY <1>5 DEF Bind, Fresh, Fence
  <2>2. CASE Feedback(c, "settled", "denied")
    <3>1. \A d \in Calls : d # c => VerdictOf(d)' = VerdictOf(d)
      BY <1>5, <2>2, VerdictFrame DEF Bind, Feedback, TypeOK
    <3>2. VerdictOf(c)' = "refused"
      BY <1>5, <2>2 DEF Bind, Feedback, TypeOK, VerdictOf, Refused
    <3> QED BY <1>5, <2>1, <3>1, <3>2, VerdictOpen, Answering DEF Bind, Promise!Verdicts
  <2>3. CASE UNCHANGED <<messages, state, receipt>>
    BY <1>5, <2>3, VerdictFrame, Stutter DEF Bind
  <2> QED BY <1>5, <2>2, <2>3 DEF Bind
<1>6. ASSUME NEW c \in Calls, BindAgain(c) PROVE Promise!ANext \/ UNCHANGED Promise!avars
  BY <1>6, VerdictFrame, Stutter DEF BindAgain
<1>7. ASSUME NEW c \in Calls, Cancel(c) PROVE Promise!ANext \/ UNCHANGED Promise!avars
  <2>1. gate # "absent" /\ ~Started(c) /\ (state[c] = "intent" \/ Active(c))
    BY <1>7 DEF Cancel, Fresh, Fence, Active
  <2>2. \A d \in Calls : d # c => VerdictOf(d)' = VerdictOf(d)
    BY <1>7, VerdictFrame DEF Cancel, Feedback, TypeOK
  <2>3. VerdictOf(c)' = "refused"
    BY <1>7 DEF Cancel, Feedback, TypeOK, VerdictOf, Refused
  <2> QED BY <1>7, <2>1, <2>2, <2>3, VerdictOpen, Answering DEF Cancel, Promise!Verdicts
<1>8. ASSUME NEW c \in Calls, RequestCancel(c) PROVE Promise!ANext \/ UNCHANGED Promise!avars
  <2>1. \A d \in Calls : VerdictOf(d)' = VerdictOf(d)
    BY <1>8 DEF RequestCancel, TypeOK, VerdictOf, Refused
  <2> QED BY <1>8, <2>1, Stutter DEF RequestCancel
<1>9. ASSUME NEW c \in Calls, Execute(c) PROVE Promise!ANext \/ UNCHANGED Promise!avars
  BY <1>9, VerdictFrame, Stutter DEF Execute
<1>10. ASSUME NEW c \in Calls, Claim(c) PROVE Promise!ANext \/ UNCHANGED Promise!avars
  <2>1. \A d \in Calls : VerdictOf(d)' = VerdictOf(d)
    BY <1>10 DEF Claim, Positions, TypeOK, VerdictOf, Refused
  <2> QED BY <1>10, <2>1, Stutter DEF Claim
<1>11. ASSUME NEW c \in Calls, StoreFails(c) PROVE Promise!ANext \/ UNCHANGED Promise!avars
  BY <1>11, VerdictFrame, Stutter DEF StoreFails
<1>12. ASSUME NEW c \in Calls, MarkDispatched(c) PROVE Promise!ANext \/ UNCHANGED Promise!avars
  <2>1. \A d \in Calls : state[d] # "cancelled" \/ (d \in dispatched <=> d \in dispatched')
    BY <1>12 DEF MarkDispatched, Active
  <2> QED BY <1>12, <2>1, VerdictFrame, Stutter DEF MarkDispatched
<1>13. ASSUME NEW c \in Calls, RunTool(c) PROVE Promise!ANext \/ UNCHANGED Promise!avars
  <2>1. gate # "absent" /\ Active(c) /\ ~Started(c)
    BY <1>13 DEF RunTool, Fresh, Positions
  <2>2. Verdict[c] = "open" /\ ~Promise!HasRun(c)
    BY <2>1, VerdictOpen DEF Verdict, Promise!HasRun, Started
  <2>3. \A d \in Calls : d < c => Verdict[d] \in {"refused", "settled"}
    BY <1>13, <2>1 DEF RunTool, Order, Busy, Resolved, Fresh, Verdict, VerdictOf, Refused
  <2>4. Verdict' = Verdict
    BY <1>13, VerdictFrame DEF RunTool, Verdict
  <2>5. Promise!Run(c)
    BY <1>13, <2>2, <2>3, <2>4 DEF RunTool, Promise!Run, Promise!MayRun, Promise!Calls,
       Calls
  <2> QED BY <2>5 DEF Promise!ANext, Promise!Calls, Calls
<1>14. ASSUME NEW c \in Calls, Finish(c) PROVE Promise!ANext \/ UNCHANGED Promise!avars
  <2>1. gate # "absent" /\ Started(c) /\ result[c] # "denied"
    BY <1>14 DEF Finish, Fresh, Positions, Fence
  <2>2. CASE Active(c)
    <3>1. PICK o \in Outcomes \cup {"none"} : o # "denied" /\ Settle(c, o)
      BY <1>14, <2>1, <2>2 DEF Finish, Recorded, TypeOK, Results, Outcomes
    <3> QED BY <1>14, <2>1, <2>2, <3>1, SettleAnswers DEF Finish
  <2>3. CASE ~Active(c)
    BY <1>14, <2>3, VerdictFrame, Stutter DEF Finish
  <2> QED BY <2>2, <2>3
<1>15. ASSUME NEW c \in Calls, FinishFails(c) PROVE Promise!ANext \/ UNCHANGED Promise!avars
  BY <1>15, VerdictFrame, Stutter DEF FinishFails
<1>16. ASSUME NEW c \in Calls, Recover(c) PROVE Promise!ANext \/ UNCHANGED Promise!avars
  <2>1. PICK o \in Proofs(c) : Settle(c, o)
    BY <1>16 DEF Recover
  <2>2. o \in Outcomes \cup {"none"} /\ o # "denied" /\ Started(c)
    BY DEF Proofs, Recorded, TypeOK, Results, Outcomes, Fence
  <2>3. gate # "absent"
    BY <1>16 DEF Recover, Fresh, Active
  <2> QED BY <1>16, <2>1, <2>2, <2>3, SettleAnswers DEF Recover
<1>17. CASE UNCHANGED vars
  BY <1>17, VerdictFrame, Stutter DEF vars
<1> QED
  BY <1>1, <1>2, <1>3, <1>4, <1>5, <1>6, <1>7, <1>8, <1>9, <1>10, <1>11, <1>12, <1>13,
     <1>14, <1>15, <1>16, <1>17 DEF Next

\* The ledger implements a batch whose calls run in order and at most once, and
\* are answered once, for good and truthfully.
THEOREM Implementation == Spec => InOrderOnce
<1>1. Init => Promise!AInit
  BY DEF Init, Promise!AInit, Promise!Calls, Calls, Verdict, VerdictOf, Refused
<1>2. IInv /\ [Next]_vars => [Promise!ANext]_(Promise!avars)
  BY Simulation
<1> QED BY <1>1, <1>2, Inductive, PTL DEF Spec, InOrderOnce, Promise!OrderedSpec

=============================================================================
