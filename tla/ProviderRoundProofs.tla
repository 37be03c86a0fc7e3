------------------------- MODULE ProviderRoundProofs -------------------------
(***************************************************************************)
(* Theorems about the provider rounds, for every set of operations, number *)
(* of rounds and launches, and bound on faults and crashes.                *)
(***************************************************************************)
EXTENDS ProviderRound, FiniteSetTheorems, TLAPS

\* Operation o has, or had, a request on its way that the provider may run.
Playing(o) == net[o] \in {"sent", "executed"} \/ call[o].pc \in {"ready", "waiting"}

\* An operation that stands for no request has done nothing; the others name a
\* round of this attempt.
Asked == \A o \in Op : IF req[o] = NoRequest
                       THEN call[o].pc = "idle" /\ net[o] = "none"
                       ELSE OpAt(o) \in Round

\* The marker is the fence: as long as it does not say "dispatched", nothing of
\* this round has left the device or is about to.
MarkerFences == \A o \in Op : Playing(o) => marker[OpAt(o)] = "dispatched"

\* At most one operation of a round has passed the fence since it was last put
\* back, and a refusal that puts it back is about that very operation.
OnePlaying == \A o, p \in Op : Playing(o) /\ Playing(p) /\ OpAt(o) = OpAt(p) => o = p

\* A refusal status is only kept for a call still waiting, and it is true.
HeardIsTrue == \A o \in Op : /\ heard[o] # "none" => call[o].pc = "waiting"
                             /\ heard[o] = "refused" => net[o] = "refused"

Fence == Asked /\ MarkerFences /\ OnePlaying /\ HeardIsTrue

\* The inductive invariant behind BilledOnce, StoppedNeverRan and
\* DispatchRelation.
IInv == TypeOK /\ Fence /\ DispatchRelation

-----------------------------------------------------------------------------
(***************************************************************************)
(* Types                                                                   *)
(***************************************************************************)
\* Every row a reducer builds is a row.
LEMMA ReducerTypes ==
  ASSUME TypeOK, NEW r \in Round
  PROVE  /\ Marked(r) \in Row /\ Completed(r) \in Row /\ CancelledRow(r) \in Row
         /\ \A st \in RoundStates : LostRow(r, st) \in Row
         /\ \A st \in RoundStates, own \in Op \cup {NoOp} : Moved(row[r], st, own) \in Row
<1>1. row[r] \in Row
  BY DEF TypeOK
<1>2. \A st \in RoundStates, own \in Op \cup {NoOp} : Moved(row[r], st, own) \in Row
  BY <1>1 DEF Moved, Row
<1>3. row[r].st \in RoundStates /\ row[r].own \in Op \cup {NoOp}
  BY <1>1 DEF Row
<1>4. Marked(r) \in Row /\ Completed(r) \in Row /\ CancelledRow(r) \in Row
  BY <1>2, <1>3 DEF Marked, Completed, CancelledRow, RoundStates
<1>5. \A st \in RoundStates : LostRow(r, st) \in Row
  BY <1>2 DEF LostRow
<1> QED BY <1>2, <1>4, <1>5

\* So are the two that name a new owner.
LEMMA OwnerTypes ==
  ASSUME TypeOK, NEW o \in Op, NEW r \in Round
  PROVE  Created(o) \in Row /\ Claimed(o, r) \in Row
<1>1. Created(o) \in Row
  <2>1. req[o] \in Request
    BY DEF TypeOK
  <2> QED BY <2>1 DEF Created, RoundStates, Request, Row
<1>2. Claimed(o, r) \in Row
  <2>1. Moved(row[r], "in_flight", o) \in Row
    BY ReducerTypes DEF RoundStates
  <2> QED BY <2>1 DEF Claimed, Row
<1> QED BY <1>1, <1>2

\* The state given to a round without its owner is one of three.
LEMMA LostStates ==
  ASSUME NEW r \in Round, NEW b \in BOOLEAN
  PROVE  /\ LostState(r, b) \in {"cancelled", "failed_retryable", "ambiguous"}
         /\ LostState(r, b) \in {"cancelled", "failed_retryable"} /\ marker[r] # "not_dispatched"
              => b /\ LostState(r, b) = "failed_retryable"
  BY DEF LostState

LEMMA CASTypes == ASSUME NEW w \in Row PROVE CASOf(w) \in CAS
  BY DEF Row, CAS, CASOf

LEMMA NullTypes == NoCall \in Call /\ NoCAS \in CAS /\ NoContext \in Context
                   /\ NoRequest \in Request /\ AbsentRow \in Row
  BY RoundAssumption DEF NoCall, Call, NoCAS, CAS, NoContext, Context, NoRequest, Request,
     AbsentRow, Row, PCs, OpStates, Answers, RoundStates, Codes

\* A transaction on one row leaves a function of rows, whatever became of it.
LEMMA WriteTypes ==
  ASSUME TypeOK, NEW f, NEW r
  PROVE  /\ \A w \in Row : WriteRow(f, r, w) => row' \in [Round -> Row]
         /\ \A m \in {"none", "not_dispatched", "dispatched"} :
              WriteMarker(f, r, m) => marker' \in [Round -> {"none", "not_dispatched", "dispatched"}]
         /\ Outcome(f) => faults' \in Nat
  BY DEF TypeOK, WriteRow, WriteMarker, Outcome

\* A handler's next position is a call record.
LEMMA CallTypes ==
  ASSUME TypeOK, NEW o \in Op
  PROVE  /\ \A pc \in PCs, cas \in CAS : Continue(o, pc, cas) => call' \in [Op -> Call]
         /\ \A end \in OpStates, answer \in Answers :
              Closing(o, end, answer) => call' \in [Op -> Call]
<1>0. call \in [Op -> Call]
  BY DEF TypeOK
<1>1. ASSUME NEW pc \in PCs, NEW cas \in CAS, Continue(o, pc, cas)
      PROVE  call' \in [Op -> Call]
  <2>1. [pc |-> pc, cas |-> cas, end |-> "none", answer |-> "pending"] \in Call
    BY DEF Call, OpStates, Answers
  <2> QED BY <1>0, <1>1, <2>1 DEF Continue
<1>2. ASSUME NEW end \in OpStates, NEW answer \in Answers, Closing(o, end, answer)
      PROVE  call' \in [Op -> Call]
  <2>1. [pc |-> "closing", cas |-> NoCAS, end |-> end, answer |-> answer] \in Call
    BY NullTypes DEF Call, PCs
  <2> QED BY <1>0, <1>2, <2>1 DEF Closing
<1> QED BY <1>1, <1>2

LEMMA InitTypeOK == Init => TypeOK
<1> SUFFICES ASSUME Init PROVE TypeOK
  OBVIOUS
<1>1. row \in [Round -> Row] /\ req \in [Op -> Request] /\ call \in [Op -> Call]
      /\ ctx \in [Op -> Context]
  BY NullTypes DEF Init
<1>2. ops \in [Op -> OpRow]
  BY DEF Init, OpRow, OpStates, Answers
<1>3. transcript \in Seq(Author)
  BY DEF Init
<1> QED BY <1>1, <1>2, <1>3 DEF Init, TypeOK

\* A call in progress is about a round of this attempt.
LEMMA OnRound ==
  ASSUME TypeOK, Asked, NEW o \in Op, call[o].pc # "idle"
  PROVE  OpAt(o) \in Round
  BY DEF Asked

LEMMA InitAsked == Init => Asked
  BY DEF Init, Asked, NoCall

\* The part of the state most actions leave alone keeps its type.
LEMMA TypeStep == TypeOK /\ Asked /\ [Next]_vars => TypeOK'
<1> SUFFICES ASSUME TypeOK, Asked, [Next]_vars PROVE TypeOK'
  OBVIOUS
<1> USE DEF wal, proc
<1>1. ASSUME NEW o \in Op, Open(o) PROVE TypeOK'
  <2>1. PICK f \in Outcomes :
          /\ Outcome(f)
          /\ ops' = IF Applied(f) THEN [ops EXCEPT ![o].state = "started"] ELSE ops
          /\ IF f = "ok" THEN queue' = o /\ Continue(o, "opened", NoCAS)
                         ELSE UNCHANGED <<queue, call>>
    BY <1>1 DEF Open
  <2>2. faults' \in Nat
    BY <2>1, WriteTypes
  <2>3. ops' \in [Op -> OpRow]
    BY <2>1 DEF TypeOK, OpRow, OpStates
  <2>4. call' \in [Op -> Call] /\ queue' \in Op \cup {NoOp}
    BY <2>1, CallTypes, NullTypes DEF TypeOK, PCs
  <2> QED BY <1>1, <2>2, <2>3, <2>4 DEF Open, TypeOK
<1>2. ASSUME NEW o \in Op, Refuse(o) PROVE TypeOK'
  <2>1. call' \in [Op -> Call]
    BY <1>2, CallTypes DEF Refuse, OpStates, Answers
  <2> QED BY <1>2, <2>1 DEF Refuse, TypeOK
<1>3. ASSUME NEW o \in Op, Create(o) PROVE TypeOK'
  <2>1. OpAt(o) \in Round
    BY <1>3, OnRound DEF Create, Serving
  <2>2. Created(o) \in Row /\ CASOf(Created(o)) \in CAS
    BY <2>1, OwnerTypes, CASTypes
  <2>3. row' \in [Round -> Row] /\ faults' \in Nat
        /\ marker' \in [Round -> {"none", "not_dispatched", "dispatched"}]
    BY <1>3, <2>2, WriteTypes DEF Create, TypeOK
  <2>4. call' \in [Op -> Call]
    BY <1>3, <2>2, CallTypes DEF Create, PCs, OpStates, Answers
  <2> QED BY <1>3, <2>3, <2>4 DEF Create, TypeOK
<1>4. ASSUME NEW o \in Op, Claim(o) PROVE TypeOK'
  <2>1. OpAt(o) \in Round
    BY <1>4, OnRound DEF Claim, Serving
  <2>2. Claimed(o, OpAt(o)) \in Row /\ CASOf(Claimed(o, OpAt(o))) \in CAS
    BY <2>1, OwnerTypes, CASTypes
  <2>3. row' \in [Round -> Row] /\ faults' \in Nat
    BY <1>4, <2>2, WriteTypes DEF Claim, TypeOK
  <2>4. call' \in [Op -> Call]
    BY <1>4, <2>2, CallTypes DEF Claim, PCs, OpStates, Answers
  <2> QED BY <1>4, <2>3, <2>4 DEF Claim, TypeOK
<1>5. ASSUME NEW o \in Op, NotReady(o) PROVE TypeOK'
  <2>1. CancelledRow(OpAt(o)) \in Row
    BY <1>5, OnRound, ReducerTypes DEF NotReady, Serving
  <2>2. row' \in [Round -> Row] /\ faults' \in Nat
    BY <1>5, <2>1, WriteTypes DEF NotReady, TypeOK
  <2>3. call' \in [Op -> Call]
    BY <1>5, CallTypes DEF NotReady, OpStates, Answers
  <2> QED BY <1>5, <2>2, <2>3 DEF NotReady, TypeOK
<1>6. ASSUME NEW o \in Op, NoRequestId(o) PROVE TypeOK'
  <2>1. call' \in [Op -> Call]
    BY <1>6, CallTypes DEF NoRequestId, OpStates, Answers
  <2> QED BY <1>6, <2>1 DEF NoRequestId, TypeOK
<1>7. ASSUME NEW o \in Op, Mark(o) PROVE TypeOK'
  <2>1. Marked(OpAt(o)) \in Row /\ CASOf(Marked(OpAt(o))) \in CAS
    BY <1>7, OnRound, ReducerTypes, CASTypes DEF Mark, Serving
  <2>2. row' \in [Round -> Row] /\ faults' \in Nat
        /\ marker' \in [Round -> {"none", "not_dispatched", "dispatched"}]
    BY <1>7, <2>1, WriteTypes DEF Mark, TypeOK
  <2>3. call' \in [Op -> Call]
    BY <1>7, <2>1, CallTypes DEF Mark, PCs, OpStates, Answers
  <2> QED BY <1>7, <2>2, <2>3 DEF Mark, TypeOK
<1>8. ASSUME NEW o \in Op, Close(o) PROVE TypeOK'
  <2>1. call[o].end \in OpStates /\ call[o].answer \in Answers
    BY DEF TypeOK, Call
  <2>2. ops' \in [Op -> OpRow]
    BY <1>8, <2>1 DEF Close, TypeOK, OpRow
  <2>3. faults' \in Nat /\ call' \in [Op -> Call]
    BY <1>8, WriteTypes, NullTypes DEF Close, TypeOK
  <2> QED BY <1>8, <2>2, <2>3 DEF Close, TypeOK
<1>9. ASSUME NEW o \in Op, Send(o) PROVE TypeOK'
  <2>1. call' \in [Op -> Call]
    BY SMTT(40), <1>9 DEF Send, TypeOK, Call, PCs
  <2> QED BY <1>9, <2>1 DEF Send, TypeOK
<1>10. ASSUME NEW o \in Op, ReplyOk(o) \/ ReplyStatus(o) \/ ReplyBroken(o) \/ TimeOut(o)
       PROVE  TypeOK'
  <2>1. \A code \in Codes : Finish(o, code) => ctx' \in [Op -> Context]
    BY DEF Finish, TypeOK, Context
  <2>2. ctx' \in [Op -> Context]
    BY <1>10, <2>1 DEF ReplyOk, ReplyStatus, ReplyBroken, TimeOut, Codes
  <2> QED BY <1>10, <2>2 DEF ReplyOk, ReplyStatus, ReplyBroken, TimeOut, TypeOK
<1>11. ASSUME NEW o \in Op, SettleAnswer(o) PROVE TypeOK'
  <2>1. OpAt(o) \in Round /\ Completed(OpAt(o)) \in Row
    BY <1>11, OnRound, ReducerTypes DEF SettleAnswer, BackFromWait
  <2>2. row' \in [Round -> Row] /\ faults' \in Nat
    BY <1>11, <2>1, WriteTypes DEF SettleAnswer, TypeOK
  <2>3. call' \in [Op -> Call]
    BY <1>11, CallTypes DEF SettleAnswer, OpStates, Answers
  <2>4. transcript' \in Seq(Author)
    <3>1. <<"assistant", OpAt(o)>> \in Author
      BY <2>1 DEF Author
    <3>2. \/ transcript' = transcript
          \/ transcript' = Append(transcript, <<"assistant", OpAt(o)>>)
      BY <1>11 DEF SettleAnswer, WriteAnswer
    <3>3. transcript \in Seq(Author)
      BY DEF TypeOK
    <3> QED BY SMTT(40), <3>1, <3>2, <3>3
  <2>5. ctx' \in [Op -> Context]
    BY <1>11, NullTypes DEF SettleAnswer, BackFromWait, TypeOK
  <2> QED BY <1>11, <2>2, <2>3, <2>4, <2>5 DEF SettleAnswer, BackFromWait, TypeOK
<1>12. ASSUME NEW o \in Op, SettleLoss(o) PROVE TypeOK'
  <2>1. /\ OpAt(o) \in Round
        /\ SettledState(o) \in {"cancelled", "failed_retryable", "ambiguous"}
    BY <1>12, OnRound, LostStates DEF SettleLoss, BackFromWait, SettledState, DispatchCurrent
  <2>2. LostRow(OpAt(o), SettledState(o)) \in Row
    BY <2>1, ReducerTypes DEF RoundStates
  <2>3. row' \in [Round -> Row] /\ faults' \in Nat
        /\ marker' \in [Round -> {"none", "not_dispatched", "dispatched"}]
    BY <1>12, <2>2, WriteTypes DEF SettleLoss, TypeOK
  <2>4. call' \in [Op -> Call]
    BY <1>12, <2>1, CallTypes DEF SettleLoss, OpStates, Answers
  <2>5. ctx' \in [Op -> Context]
    BY <1>12, NullTypes DEF SettleLoss, BackFromWait, TypeOK
  <2> QED BY <1>12, <2>3, <2>4, <2>5 DEF SettleLoss, BackFromWait, TypeOK
<1>13. ASSUME NEW o \in Op, Replay(o) PROVE TypeOK'
  <2>1. ReplayEnd(OpAt(o))[1] \in OpStates /\ ReplayEnd(OpAt(o))[2] \in Answers
    BY DEF ReplayEnd, OpStates, Answers
  <2>2. ops' \in [Op -> OpRow]
    BY <1>13, <2>1 DEF Replay, TypeOK, OpRow
  <2> QED BY <1>13, <2>2 DEF Replay, TypeOK
<1>14. ASSUME NEW o \in Op, Accept(o) \/ TurnAway(o) PROVE TypeOK'
  BY <1>14 DEF Accept, TurnAway, TypeOK
<1>15. ASSUME NEW o \in Op, NEW r \in Round, AskRun(o, r) \/ AskRetry(o, r) PROVE TypeOK'
  <2>1. row[r] \in Row /\ authority \in Nat /\ r \in 0..NRounds
    BY RoundAssumption DEF TypeOK, Round
  <2>2. row[r].rev \in Nat
    BY <2>1 DEF Row
  <2>3. /\ [kind |-> "run", round |-> r, rev |-> 0, gen |-> authority] \in Request
        /\ [kind |-> "retry", round |-> r, rev |-> row[r].rev, gen |-> authority] \in Request
    BY <2>1, <2>2 DEF Request
  <2>4. req' \in [Op -> Request]
    BY <1>15, <2>3 DEF AskRun, AskRetry, TypeOK
  <2> QED BY <1>15, <2>4 DEF AskRun, AskRetry, TypeOK
<1>16. ASSUME NEW r \in Round, Cancel(r) PROVE TypeOK'
  <2>1. row' \in [Round -> Row] /\ faults' \in Nat
    BY <1>16, ReducerTypes, WriteTypes DEF Cancel
  <2>2. ctx' \in [Op -> Context]
    BY <1>16 DEF Cancel, TypeOK, Context, Codes
  <2> QED BY <1>16, <2>1, <2>2 DEF Cancel, TypeOK
<1>17. ASSUME NEW r \in Round, Recover(r) PROVE TypeOK'
  <2>1. row' \in [Round -> Row] /\ faults' \in Nat
    BY <1>17, ReducerTypes, WriteTypes, LostStates DEF Recover, RoundStates
  <2> QED BY <1>17, <2>1 DEF Recover, TypeOK
<1>18. ASSUME NEW r \in Round, SettleBatch(r) PROVE TypeOK'
  <2>1. <<"tools", r>> \in Author /\ 2 * r \in Nat
    BY DEF Author, Round
  <2> QED BY <1>18, <2>1 DEF SettleBatch, TypeOK
<1>19. OwnerLost \in [Round -> Row]
  <2>1. \A r \in Round : LostRow(r, BootState(r)) \in Row
    BY ReducerTypes DEF BootState, RoundStates
  <2> QED BY <2>1 DEF OwnerLost, TypeOK
<1>20. ASSUME OwnerLoss \/ Boot PROVE TypeOK'
  BY <1>19, <1>20 DEF OwnerLoss, Boot, TypeOK
<1>21. ASSUME Crash PROVE TypeOK'
  <2>1. call' \in [Op -> Call] /\ ctx' \in [Op -> Context]
        /\ heard' \in [Op -> {"none", "refused", "unsure"}]
    BY <1>21, NullTypes DEF Crash
  <2>2. /\ up' = FALSE /\ queue' = NoOp /\ live' = {} /\ crashes' = crashes + 1
        /\ UNCHANGED <<row, marker, transcript, authority, ops, req, net, faults>>
    BY <1>21 DEF Crash
  <2>3. up' \in BOOLEAN /\ queue' \in Op \cup {NoOp} /\ live' \subseteq Op
    BY <2>2
  <2>4. crashes' \in Nat
    BY <2>2 DEF TypeOK
  <2> QED BY <2>1, <2>2, <2>3, <2>4 DEF TypeOK
<1>22. ASSUME UNCHANGED vars PROVE TypeOK'
  BY <1>22 DEF vars, TypeOK
<1> QED BY <1>1, <1>2, <1>3, <1>4, <1>5, <1>6, <1>7, <1>8, <1>9, <1>10, <1>11, <1>12,
           <1>13, <1>14, <1>15, <1>16, <1>17, <1>18, <1>20, <1>21, <1>22
        DEF Next, Handler, Wait, Settle

-----------------------------------------------------------------------------
(***************************************************************************)
(* The fence                                                               *)
(***************************************************************************)
\* What DispatchRelation asks of one row and its marker.
Fits(w, m) ==
  /\ w.st \in {"failed_retryable", "cancelled"} => m = "not_dispatched"
  /\ w.st = "completed" => m = "dispatched"
  /\ w.st = "absent" <=> m = "none"

LEMMA FitsAll == DispatchRelation <=> \A r \in Round : Fits(row[r], marker[r])
  BY DEF DispatchRelation, Fits

\* The rows written without their marker still fit it.
LEMMA ReducerFits ==
  ASSUME DispatchRelation, NEW r \in Round
  PROVE  /\ CanCancel(r) => Fits(CancelledRow(r), marker[r])
         /\ Running(row[r]) => Fits(LostRow(r, LostState(r, FALSE)), marker[r])
         /\ Running(row[r]) => Fits(LostRow(r, BootState(r)), marker[r])
<1> USE FitsAll DEF Fits, Moved
<1>1. CanCancel(r) => Fits(CancelledRow(r), marker[r])
  BY DEF CanCancel, CancelledRow
<1>2. Running(row[r]) => Fits(LostRow(r, LostState(r, FALSE)), marker[r])
  BY DEF Running, LostRow, LostState
<1>3. Running(row[r]) => Fits(LostRow(r, BootState(r)), marker[r])
  BY DEF Running, LostRow, BootState
<1> QED BY <1>1, <1>2, <1>3

\* A transaction that writes a fitting row keeps the relation, applied or not.
LEMMA WriteFits ==
  ASSUME TypeOK, DispatchRelation, NEW r \in Round, NEW f, NEW w, NEW m,
         WriteRow(f, r, w), WriteMarker(f, r, m), Fits(w, m)
  PROVE  DispatchRelation'
<1>1. row \in [Round -> Row] /\ marker \in [Round -> {"none", "not_dispatched", "dispatched"}]
  BY DEF TypeOK
<1>2. ASSUME NEW q \in Round PROVE Fits(row[q], marker[q])'
  BY <1>1, FitsAll DEF WriteRow, WriteMarker, Fits
<1> QED BY <1>2 DEF DispatchRelation, Fits

LEMMA WriteRowFits ==
  ASSUME TypeOK, DispatchRelation, NEW r \in Round, NEW f, NEW w,
         WriteRow(f, r, w), UNCHANGED marker, Fits(w, marker[r])
  PROVE  DispatchRelation'
<1>1. row \in [Round -> Row]
  BY DEF TypeOK
<1>2. ASSUME NEW q \in Round PROVE Fits(row[q], marker[q])'
  BY <1>1, FitsAll DEF WriteRow, Fits
<1> QED BY <1>2 DEF DispatchRelation, Fits

\* A call moves, and only this call does.
LEMMA CallMoves ==
  ASSUME TypeOK, NEW o \in Op
  PROVE  /\ \A pc, cas : Continue(o, pc, cas) =>
              call'[o].pc = pc /\ \A p \in Op \ {o} : call'[p] = call[p]
         /\ \A end, answer : Closing(o, end, answer) =>
              call'[o].pc = "closing" /\ \A p \in Op \ {o} : call'[p] = call[p]
  BY DEF TypeOK, Continue, Closing

\* Steps that touch no call, no request and no marker leave the fence standing.
LEMMA StillFence ==
  ASSUME Fence, UNCHANGED <<marker, req, call, heard, net>>
  PROVE  Fence'
<1>1. \A o \in Op : (Playing(o) <=> Playing(o)') /\ OpAt(o)' = OpAt(o)
  BY DEF Playing, OpAt
<1>2. Asked' /\ HeardIsTrue'
  BY DEF Fence, Asked, HeardIsTrue, OpAt
<1>3. MarkerFences' /\ OnePlaying'
  BY <1>1 DEF Fence, MarkerFences, OnePlaying
<1> QED BY <1>2, <1>3 DEF Fence

\* A handler's turn before or after its wait leaves the fence standing too, as
\* long as it leaves the marker of every dispatched round alone.
Off == {"idle", "opened", "claimed", "closing"}

LEMMA HandlerFence ==
  ASSUME TypeOK, Fence, NEW o \in Op, req[o] # NoRequest,
         call[o].pc \in Off, call'[o].pc \in Off,
         \A p \in Op \ {o} : call'[p] = call[p],
         \A r \in Round : marker[r] = "dispatched" => marker'[r] = "dispatched",
         UNCHANGED <<req, heard, net>>
  PROVE  Fence'
<1>1. \A p \in Op : /\ Playing(p)' => Playing(p)
                    /\ OpAt(p)' = OpAt(p)
  BY DEF Playing, OpAt, Off
<1>2. Asked'
  BY DEF Fence, Asked, OpAt
<1>3. HeardIsTrue'
  BY DEF Fence, HeardIsTrue, Off
<1>4. MarkerFences'
  <2>1. ASSUME NEW p \in Op, Playing(p)' PROVE marker'[OpAt(p)] = "dispatched"
    <3>1. Playing(p) /\ marker[OpAt(p)] = "dispatched"
      BY <1>1, <2>1 DEF Fence, MarkerFences
    <3>2. OpAt(p) \in Round
      BY <3>1, <2>1 DEF Fence, Asked, Playing
    <3> QED BY <3>1, <3>2
  <2> QED BY <2>1, <1>1 DEF MarkerFences
<1>5. OnePlaying'
  BY <1>1 DEF Fence, OnePlaying
<1> QED BY <1>2, <1>3, <1>4, <1>5 DEF Fence

\* Every step keeps the fence.
LEMMA FenceStep == IInv /\ [Next]_vars => Fence'
<1> SUFFICES ASSUME IInv, [Next]_vars PROVE Fence'
  OBVIOUS
<1> USE DEF wal, proc
<1>0. TypeOK /\ Fence /\ DispatchRelation
  BY DEF IInv
<1>1. \A o \in Op : call[o].pc # "idle" => req[o] # NoRequest /\ OpAt(o) \in Round
  BY <1>0 DEF Fence, Asked
<1>2. ASSUME NEW o \in Op,
             Open(o) \/ Refuse(o) \/ Claim(o) \/ NotReady(o) \/ NoRequestId(o) \/ Close(o)
      PROVE  Fence'
  <2>1. /\ call[o].pc \in Off /\ call'[o].pc \in Off /\ req[o] # NoRequest
        /\ \A p \in Op \ {o} : call'[p] = call[p]
    <3>1. CASE Open(o)
      BY <1>0, <3>1, CallMoves DEF Open, Off
    <3>2. CASE Refuse(o)
      BY <1>0, <1>1, <3>2, CallMoves DEF Refuse, Serving, Off
    <3>3. CASE Claim(o)
      BY <1>0, <1>1, <3>3, CallMoves DEF Claim, Serving, Off
    <3>4. CASE NotReady(o)
      BY <1>0, <1>1, <3>4, CallMoves DEF NotReady, Serving, Off
    <3>5. CASE NoRequestId(o)
      BY <1>0, <1>1, <3>5, CallMoves DEF NoRequestId, Serving, Off
    <3>6. CASE Close(o)
      BY <1>0, <1>1, <3>6 DEF Close, Serving, Off, NoCall, TypeOK
    <3> QED BY <1>2, <3>1, <3>2, <3>3, <3>4, <3>5, <3>6
  <2>2. UNCHANGED <<marker, req, heard, net>>
    BY <1>2 DEF Open, Refuse, Claim, NotReady, NoRequestId, Close
  <2> QED BY <1>0, <2>1, <2>2, HandlerFence
<1>3. ASSUME NEW o \in Op, Create(o) PROVE Fence'
  <2>1. /\ call[o].pc \in Off /\ call'[o].pc \in Off
        /\ \A p \in Op \ {o} : call'[p] = call[p]
    BY <1>0, <1>3, CallMoves DEF Create, Serving, Off
  <2>2. \A r \in Round : marker[r] = "dispatched" => marker'[r] = "dispatched"
    <3>1. row[OpAt(o)].st = "absent" => marker[OpAt(o)] = "none"
      BY <1>0, <1>1, <1>3 DEF DispatchRelation, Create, Serving
    <3> QED BY <1>3, <3>1, <1>0 DEF Create, WriteMarker, TypeOK
  <2> QED BY <1>0, <1>1, <1>3, <2>1, <2>2, HandlerFence DEF Create, Serving
<1>4. ASSUME NEW o \in Op, Mark(o) PROVE Fence'
  <2>0. call[o].pc = "claimed" /\ UNCHANGED <<req, heard, net>> /\ req[o] # NoRequest
        /\ OpAt(o) \in Round /\ \A p \in Op : OpAt(p)' = OpAt(p)
    BY <1>1, <1>4 DEF Mark, Serving, OpAt
  <2>1. /\ call'[o].pc \in {"ready", "closing"}
        /\ \A p \in Op \ {o} : call'[p] = call[p]
    BY <1>0, <1>4, CallMoves DEF Mark
  <2>2. \A r \in Round : marker[r] = "dispatched" => marker'[r] = "dispatched"
    BY <1>0, <1>4 DEF Mark, WriteMarker, TypeOK
  <2>3. CASE call'[o].pc = "closing"
    BY <1>0, <2>0, <2>1, <2>2, <2>3, HandlerFence DEF Off
  <2>4. CASE call'[o].pc = "ready"
    <3>1. marker[OpAt(o)] = "not_dispatched" /\ marker'[OpAt(o)] = "dispatched"
      BY <1>0, <1>4, <2>0, <2>4, CallMoves
         DEF Mark, CanMark, WriteMarker, Applied, Outcomes, TypeOK
    <3>2. \A p \in Op : Playing(p) => OpAt(p) # OpAt(o)
      BY <1>0, <3>1 DEF Fence, MarkerFences
    <3>3. \A p \in Op : Playing(p)' => p = o \/ Playing(p)
      BY <2>0, <2>1 DEF Playing
    <3>4. Asked' /\ HeardIsTrue'
      BY <1>0, <2>0, <2>1 DEF Fence, Asked, HeardIsTrue, OpAt
    <3>5. MarkerFences'
      <4>1. ASSUME NEW p \in Op, Playing(p)' PROVE marker'[OpAt(p)] = "dispatched"
        <5>1. CASE p = o
          BY <3>1, <5>1
        <5>2. CASE Playing(p)
          BY <1>0, <5>2, <2>2 DEF Fence, MarkerFences, Asked, Playing
        <5> QED BY <3>3, <4>1, <5>1, <5>2
      <4> QED BY <4>1, <2>0 DEF MarkerFences
    <3>6. OnePlaying'
      BY <1>0, <2>0, <3>2, <3>3 DEF Fence, OnePlaying
    <3> QED BY <3>4, <3>5, <3>6 DEF Fence
  <2> QED BY <2>1, <2>3, <2>4
<1>5. ASSUME NEW o \in Op, Send(o) PROVE Fence'
  <2>1. /\ call[o].pc = "ready" /\ call'[o].pc = "waiting" /\ UNCHANGED <<req, heard, marker>>
        /\ \A p \in Op \ {o} : call'[p] = call[p] /\ net'[p] = net[p]
    BY <1>0, <1>5 DEF Send, TypeOK
  <2>2. \A p \in Op : (Playing(p)' <=> Playing(p)) /\ OpAt(p)' = OpAt(p)
    BY <2>1 DEF Playing, OpAt
  <2>3. Asked' /\ HeardIsTrue'
    BY <1>0, <2>1 DEF Fence, Asked, HeardIsTrue, OpAt
  <2>4. MarkerFences' /\ OnePlaying'
    BY <1>0, <2>1, <2>2 DEF Fence, MarkerFences, OnePlaying
  <2> QED BY <2>3, <2>4 DEF Fence
<1>6. ASSUME NEW o \in Op, ReplyOk(o) \/ ReplyStatus(o) \/ ReplyBroken(o) \/ TimeOut(o)
      PROVE  Fence'
  <2>1. UNCHANGED <<marker, req, call, net>>
    BY <1>6 DEF ReplyOk, ReplyStatus, ReplyBroken, TimeOut
  <2>2. CASE UNCHANGED heard
    BY <1>0, <2>1, <2>2, StillFence
  <2>3. CASE ReplyStatus(o)
    <3>1. HeardIsTrue'
      BY <1>0, <2>1, <2>3 DEF ReplyStatus, Fence, HeardIsTrue, TypeOK
    <3>2. \A p \in Op : (Playing(p)' <=> Playing(p)) /\ OpAt(p)' = OpAt(p)
      BY <2>1 DEF Playing, OpAt
    <3>3. Asked' /\ MarkerFences' /\ OnePlaying'
      BY <1>0, <2>1, <3>2 DEF Fence, Asked, MarkerFences, OnePlaying, OpAt
    <3> QED BY <3>1, <3>3 DEF Fence
  <2> QED BY <1>6, <2>2, <2>3 DEF ReplyOk, ReplyBroken, TimeOut
<1>7. ASSUME NEW o \in Op, Accept(o) \/ TurnAway(o) PROVE Fence'
  <2>1. /\ net[o] = "sent" /\ net'[o] \in {"executed", "refused"}
        /\ \A p \in Op \ {o} : net'[p] = net[p]
        /\ UNCHANGED <<req, heard, marker, call>>
    BY <1>0, <1>7 DEF Accept, TurnAway, TypeOK
  <2>2. \A p \in Op : (Playing(p)' => Playing(p)) /\ OpAt(p)' = OpAt(p)
    BY <2>1 DEF Playing, OpAt
  <2>3. Asked' /\ HeardIsTrue'
    BY <1>0, <2>1 DEF Fence, Asked, HeardIsTrue, OpAt
  <2>4. MarkerFences' /\ OnePlaying'
    BY <1>0, <2>1, <2>2 DEF Fence, MarkerFences, OnePlaying
  <2> QED BY <2>3, <2>4 DEF Fence
<1>8. ASSUME NEW o \in Op, SettleAnswer(o) \/ SettleLoss(o) PROVE Fence'
  <2>1. /\ call[o].pc = "waiting" /\ call'[o].pc = "closing"
        /\ \A p \in Op \ {o} : call'[p] = call[p]
        /\ heard' = [heard EXCEPT ![o] = "none"] /\ UNCHANGED <<req, net>>
    BY <1>0, <1>8, CallMoves DEF SettleAnswer, SettleLoss, BackFromWait
  <2>2. \A p \in Op : (Playing(p)' => Playing(p)) /\ OpAt(p)' = OpAt(p)
    BY <2>1 DEF Playing, OpAt
  <2>3. Asked' /\ HeardIsTrue'
    BY <1>0, <1>1, <2>1 DEF Fence, Asked, HeardIsTrue, OpAt, TypeOK
  <2>4. OnePlaying'
    BY <1>0, <2>2 DEF Fence, OnePlaying
  <2>5. \A p \in Op : Playing(p)' => marker'[OpAt(p)] = marker[OpAt(p)]
    <3>1. Playing(o) /\ marker[OpAt(o)] = "dispatched" /\ OpAt(o) \in Round
      BY <1>0, <1>1, <2>1 DEF Playing, Fence, MarkerFences
    <3>2. CASE UNCHANGED marker
      BY <3>2
    <3>3. CASE SettledState(o) = "failed_retryable"
               /\ \E f \in Outcomes : WriteMarker(f, OpAt(o), "not_dispatched")
      <4>1. heard[o] = "refused"
        BY <3>1, <3>3, LostStates DEF SettledState, RefusalProved, DispatchCurrent
      <4>2. ~Playing(o)'
        BY <1>0, <2>1, <4>1 DEF Fence, HeardIsTrue, Playing
      <4>3. \A p \in Op : Playing(p)' => OpAt(p) # OpAt(o)
        BY <1>0, <2>2, <3>1, <4>2 DEF Fence, OnePlaying
      <4> QED BY <1>0, <3>1, <3>3, <4>3 DEF WriteMarker, TypeOK
    <3> QED BY <1>8, <3>2, <3>3 DEF SettleAnswer, SettleLoss
  <2>6. MarkerFences'
    BY <1>0, <2>2, <2>5 DEF Fence, MarkerFences
  <2> QED BY <2>3, <2>4, <2>6 DEF Fence
<1>9. ASSUME NEW o \in Op, NEW r \in Round, AskRun(o, r) \/ AskRetry(o, r) PROVE Fence'
  <2>1. /\ req[o] = NoRequest /\ req'[o].round = r /\ req'[o].kind \in {"run", "retry"}
        /\ \A p \in Op \ {o} : req'[p] = req[p]
        /\ UNCHANGED <<heard, marker, call, net>>
    BY <1>0, <1>9 DEF AskRun, AskRetry, TypeOK
  <2>2. ~Playing(o) /\ \A p \in Op : Playing(p)' <=> Playing(p)
    BY <1>0, <2>1 DEF Playing, Fence, Asked
  <2>3. \A p \in Op \ {o} : OpAt(p)' = OpAt(p)
    BY <2>1 DEF OpAt
  <2>4. Asked'
    BY <1>0, <2>1, <2>3 DEF Fence, Asked, OpAt, NoRequest
  <2>5. HeardIsTrue' /\ MarkerFences' /\ OnePlaying'
    BY <1>0, <2>1, <2>2, <2>3 DEF Fence, HeardIsTrue, MarkerFences, OnePlaying
  <2> QED BY <2>4, <2>5 DEF Fence
<1>10. ASSUME Crash PROVE Fence'
  <2>1. /\ UNCHANGED <<req, net, marker>>
        /\ \A p \in Op : call'[p].pc = "idle" /\ heard'[p] = "none"
    BY <1>10 DEF Crash, NoCall
  <2>2. \A p \in Op : (Playing(p)' => Playing(p)) /\ OpAt(p)' = OpAt(p)
    BY <2>1 DEF Playing, OpAt
  <2>3. Asked' /\ HeardIsTrue' /\ MarkerFences' /\ OnePlaying'
    BY <1>0, <2>1, <2>2 DEF Fence, Asked, HeardIsTrue, MarkerFences, OnePlaying, OpAt
  <2> QED BY <2>3 DEF Fence
<1>11. ASSUME \/ \E o \in Op : Replay(o)
              \/ \E r \in Round : Cancel(r) \/ Recover(r) \/ SettleBatch(r)
              \/ OwnerLoss \/ Boot \/ UNCHANGED vars
       PROVE  Fence'
  <2>1. UNCHANGED <<marker, req, call, heard, net>>
    BY <1>11 DEF Replay, Cancel, Recover, SettleBatch, OwnerLoss, Boot, vars
  <2> QED BY <1>0, <2>1, StillFence
<1> QED BY <1>2, <1>3, <1>4, <1>5, <1>6, <1>7, <1>8, <1>9, <1>10, <1>11
        DEF Next, Handler, Wait, Settle

-----------------------------------------------------------------------------
(***************************************************************************)
(* Rows and markers                                                        *)
(***************************************************************************)
LEMMA StillFits ==
  ASSUME DispatchRelation, UNCHANGED <<row, marker>>
  PROVE  DispatchRelation'
  BY DEF DispatchRelation

LEMMA RelationStep == IInv /\ [Next]_vars => DispatchRelation'
<1> SUFFICES ASSUME IInv, [Next]_vars PROVE DispatchRelation'
  OBVIOUS
<1> USE DEF wal, proc
<1>0. TypeOK /\ Fence /\ DispatchRelation
  BY DEF IInv
<1>1. \A o \in Op : call[o].pc # "idle" => OpAt(o) \in Round
  BY <1>0 DEF Fence, Asked
<1>2. ASSUME NEW o \in Op, Create(o) PROVE DispatchRelation'
  <2>1. CASE UNCHANGED <<row, marker>>
    BY <1>0, <2>1, StillFits
  <2>2. CASE \E f \in Outcomes : /\ WriteRow(f, OpAt(o), Created(o))
                                 /\ WriteMarker(f, OpAt(o), "not_dispatched")
    <3>1. Fits(Created(o), "not_dispatched")
      BY DEF Fits, Created
    <3> QED BY <1>0, <1>1, <1>2, <2>2, <3>1, WriteFits DEF Create, Serving
  <2> QED BY <1>2, <2>1, <2>2 DEF Create
<1>3. ASSUME NEW o \in Op, Claim(o) PROVE DispatchRelation'
  <2>1. CASE UNCHANGED row
    BY <1>0, <1>3, <2>1, StillFits DEF Claim
  <2>2. CASE CanClaim(o, OpAt(o)) /\ \E f \in Outcomes : WriteRow(f, OpAt(o), Claimed(o, OpAt(o)))
    <3>1. Fits(Claimed(o, OpAt(o)), marker[OpAt(o)])
      BY <2>2 DEF Fits, Claimed, CanClaim, Moved
    <3> QED BY <1>0, <1>1, <1>3, <2>2, <3>1, WriteRowFits DEF Claim, Serving
  <2> QED BY <1>3, <2>1, <2>2 DEF Claim
<1>4. ASSUME NEW o \in Op, NotReady(o) PROVE DispatchRelation'
  <2>1. CASE UNCHANGED row
    BY <1>0, <1>4, <2>1, StillFits DEF NotReady
  <2>2. CASE CanCancel(OpAt(o)) /\ \E f \in Outcomes : WriteRow(f, OpAt(o), CancelledRow(OpAt(o)))
    BY <1>0, <1>1, <1>4, <2>2, ReducerFits, WriteRowFits DEF NotReady, Serving
  <2> QED BY <1>4, <2>1, <2>2 DEF NotReady
<1>5. ASSUME NEW o \in Op, Mark(o) PROVE DispatchRelation'
  <2>1. CASE UNCHANGED <<row, marker>>
    BY <1>0, <2>1, StillFits
  <2>2. CASE /\ CanMark(o, OpAt(o))
             /\ \E f \in Outcomes : /\ WriteRow(f, OpAt(o), Marked(OpAt(o)))
                                    /\ WriteMarker(f, OpAt(o), "dispatched")
    <3>1. Fits(Marked(OpAt(o)), "dispatched")
      BY <2>2 DEF Fits, Marked, CanMark, Running, Moved
    <3> QED BY <1>0, <1>1, <1>5, <2>2, <3>1, WriteFits DEF Mark, Serving
  <2> QED BY <1>5, <2>1, <2>2 DEF Mark
<1>6. ASSUME NEW o \in Op, SettleAnswer(o) PROVE DispatchRelation'
  <2>1. CASE UNCHANGED row
    BY <1>0, <1>6, <2>1, StillFits DEF SettleAnswer
  <2>2. CASE /\ CanComplete(o, OpAt(o))
             /\ \E f \in Outcomes : WriteRow(f, OpAt(o), Completed(OpAt(o)))
    <3>1. Fits(Completed(OpAt(o)), marker[OpAt(o)])
      BY <2>2 DEF Fits, Completed, CanComplete, Moved
    <3> QED BY <1>0, <1>1, <1>6, <2>2, <3>1, WriteRowFits DEF SettleAnswer, BackFromWait
  <2> QED BY <1>6, <2>1, <2>2 DEF SettleAnswer
<1>7. ASSUME NEW o \in Op, SettleLoss(o) PROVE DispatchRelation'
  <2> DEFINE r  == OpAt(o)
             st == SettledState(o)
  <2>0. r \in Round /\ marker[r] = "dispatched"
    BY <1>0, <1>1, <1>7 DEF SettleLoss, BackFromWait, Fence, MarkerFences, Playing
  <2>1. CASE UNCHANGED <<row, marker>>
    BY <1>0, <2>1, StillFits
  <2>2. CASE st = "failed_retryable" /\ \E f \in Outcomes : /\ WriteRow(f, r, LostRow(r, st))
                                                            /\ WriteMarker(f, r, "not_dispatched")
    <3>1. Fits(LostRow(r, st), "not_dispatched")
      BY <2>2 DEF Fits, LostRow, Moved
    <3> QED BY <1>0, <2>0, <2>2, <3>1, WriteFits
  <2>3. CASE st # "failed_retryable" /\ UNCHANGED marker /\ \E f \in Outcomes : WriteRow(f, r, LostRow(r, st))
    <3>1. st = "ambiguous"
      BY <2>0, <2>3 DEF SettledState, LostState
    <3>2. Fits(LostRow(r, st), marker[r])
      BY <2>0, <3>1 DEF Fits, LostRow, Moved
    <3> QED BY <1>0, <2>0, <2>3, <3>2, WriteRowFits
  <2> QED BY <1>7, <2>1, <2>2, <2>3 DEF SettleLoss
<1>8. ASSUME NEW r \in Round, Cancel(r) PROVE DispatchRelation'
  BY <1>0, <1>8, ReducerFits, WriteRowFits DEF Cancel
<1>9. ASSUME NEW r \in Round, Recover(r) PROVE DispatchRelation'
  BY <1>0, <1>9, ReducerFits, WriteRowFits DEF Recover, CanReconcile
<1>10. ASSUME OwnerLoss \/ Boot PROVE DispatchRelation'
  <2>1. row' = OwnerLost /\ UNCHANGED marker
    BY <1>10 DEF OwnerLoss, Boot
  <2>2. ASSUME NEW r \in Round PROVE Fits(OwnerLost[r], marker[r])
    BY <1>0, ReducerFits, FitsAll DEF OwnerLost, CanReconcile
  <2> QED BY <2>1, <2>2 DEF DispatchRelation, Fits
<1>11. ASSUME \/ \E o \in Op : \/ Open(o) \/ Refuse(o) \/ NoRequestId(o) \/ Close(o) \/ Wait(o)
                               \/ Replay(o) \/ Accept(o) \/ TurnAway(o)
              \/ \E o \in Op, r \in Round : AskRun(o, r) \/ AskRetry(o, r)
              \/ \E r \in Round : SettleBatch(r)
              \/ Crash \/ UNCHANGED vars
       PROVE  DispatchRelation'
  <2>1. UNCHANGED <<row, marker>>
    BY <1>11 DEF Open, Refuse, NoRequestId, Close, Wait, Send, ReplyOk, ReplyStatus, ReplyBroken,
       TimeOut, Replay, Accept, TurnAway, AskRun, AskRetry, SettleBatch, Crash, vars
  <2> QED BY <1>0, <2>1, StillFits
<1> QED BY <1>2, <1>3, <1>4, <1>5, <1>6, <1>7, <1>8, <1>9, <1>10, <1>11
        DEF Next, Handler, Settle

-----------------------------------------------------------------------------
(***************************************************************************)
(* The theorems                                                            *)
(***************************************************************************)
LEMMA InitIInv == Init => IInv
<1> SUFFICES ASSUME Init PROVE IInv
  OBVIOUS
<1>1. TypeOK /\ Asked
  BY InitTypeOK, InitAsked
<1>2. \A o \in Op : ~Playing(o) /\ heard[o] = "none"
  BY DEF Init, Playing, NoCall
<1>3. DispatchRelation
  BY DEF Init, DispatchRelation, AbsentRow
<1> QED BY <1>1, <1>2, <1>3 DEF IInv, Fence, MarkerFences, OnePlaying, HeardIsTrue

\* The invariant is inductive: the marker is written before a request leaves and
\* taken back only over a refusal, and that is all the safety of a retry rests on.
THEOREM Inductive == Spec => []IInv
<1>1. IInv /\ [Next]_vars => IInv'
  BY TypeStep, FenceStep, RelationStep DEF IInv, Fence
<1> QED BY InitIInv, <1>1, PTL DEF Spec

\* Every variable keeps its type, whatever the handlers, the provider and the
\* failures do.
THEOREM TypeCorrect == Spec => []TypeOK
<1>1. IInv => TypeOK
  BY DEF IInv
<1> QED BY Inductive, <1>1, PTL

\* However often a round of completeAgentRoundV2 is launched, retried, cancelled,
\* timed out or cut short by a crash, at most one of its requests is billed.
THEOREM NeverBilledTwice == Spec => []BilledOnce
<1>1. IInv => BilledOnce
  BY DEF IInv, Fence, OnePlaying, Playing, BilledOnce, Executed
<1> QED BY Inductive, <1>1, PTL

\* A row that offers a retry, or says the round was cancelled, is right: none of
\* the round's requests ran or still can.
THEOREM RetryIsSafe == Spec => []StoppedNeverRan
<1>1. IInv => StoppedNeverRan
  BY DEF IInv, Fence, MarkerFences, Playing, DispatchRelation, StoppedNeverRan, InPlay
<1> QED BY Inductive, <1>1, PTL

\* The reducers of round_journal.rs and the owner-loss pass never leave a row
\* beside a marker that wal_state.rs would refuse.
THEOREM RowsFitMarkers == Spec => []DispatchRelation
<1>1. IInv => DispatchRelation
  BY DEF IInv
<1> QED BY Inductive, <1>1, PTL
-----------------------------------------------------------------------------
(***************************************************************************)
(* What is answered: three invariants on top of the fence, one about the   *)
(* operations, one about the transcript and one about the answers.         *)
(***************************************************************************)
\* Operation o's call, its entry in the operation log and its request fit each
\* other: a handler between two transactions holds the queue, an operation is
\* opened once and closed for good, nothing is sent before its call is ready,
\* and a call that has been handed an answer was handed the provider's.
OpFits(o) ==
  /\ call[o].pc \in {"opened", "claimed", "closing"} => queue = o
  /\ call[o].pc = "opened" => req[o].gen = authority
  /\ call[o].pc = "closing" => call[o].end \notin {"none", "started"}
  /\ call[o].pc \in {"opened", "claimed", "ready"} => net[o] = "none"
  /\ ops[o].answer # "pending" => ops[o].state \notin {"none", "started"}
  /\ ops[o].state = "none" => call[o].pc = "idle" /\ net[o] = "none"
  /\ req[o] = NoRequest => ops[o].state = "none"
  /\ ctx[o].code = "ok" => net[o] = "executed"

OpsFit == \A o \in Op : OpFits(o)

\* The transcript is two messages per round, the assistant's and then the
\* tools', and the authority follows the tools: a round is completed when its
\* answer is there, and one that is not over stands at the end of it.
Alternates ==
  /\ \E a \in Nat : authority = 2 * a /\ Len(transcript) \in {2 * a, 2 * a + 1}
  /\ \A i \in 1 .. Len(transcript) :
       2 * transcript[i][2] = IF transcript[i][1] = "assistant" THEN i + 1 ELSE i
  /\ \A r \in Round : row[r].st = "completed" <=> Len(transcript) >= 2 * r - 1
  /\ \A r \in Round : row[r].st \notin {"absent", "completed"} =>
       Len(transcript) = 2 * r - 2 /\ row[r].before = 2 * r - 2
  /\ \A o \in Op : req[o] # NoRequest => Len(transcript) >= 2 * req[o].round - 2

\* What a call is about to answer, or has answered, is true of its round, and a
\* completed round was paid for.
Truthful(o) ==
  /\ call[o].answer # "pending" => call[o].pc = "closing"
  /\ "completed" \in {call[o].answer, ops[o].answer} => row[OpAt(o)].st = "completed"
  /\ call[o].answer \in {"failed_retryable", "cancelled"} => net[o] \notin {"sent", "executed"}
  /\ ops[o].answer \in {"failed_retryable", "cancelled"} =>
       call[o].pc = "idle" /\ net[o] \notin {"sent", "executed"}

AnswersInv ==
  /\ \A o \in Op : Truthful(o)
  /\ \A r \in Round : row[r].st = "completed" => Executed(r) # {}

-----------------------------------------------------------------------------
(***************************************************************************)
(* How rows move                                                           *)
(***************************************************************************)
\* A row that is not over may change, but keeps where it began and does not
\* come to be completed.
Shift(w, v) ==
  /\ w.st \in {"in_flight", "cancel_requested", "failed_retryable"}
  /\ v.st \notin {"absent", "completed"} /\ v.before = w.before

\* Every reducer but create and complete shifts the row it accepts.
LEMMA ReducerShifts ==
  ASSUME NEW r \in Round
  PROVE  /\ CanCancel(r) => Shift(row[r], CancelledRow(r))
         /\ Running(row[r]) => Shift(row[r], Marked(r))
         /\ \A st \in {"cancelled", "failed_retryable", "ambiguous"} :
              Running(row[r]) => Shift(row[r], LostRow(r, st))
         /\ \A o : CanClaim(o, r) => Shift(row[r], Claimed(o, r))
<1>1. CanCancel(r) => Shift(row[r], CancelledRow(r))
  BY DEF CanCancel, CancelledRow, Shift, Moved
<1>2. Running(row[r]) => Shift(row[r], Marked(r))
  BY DEF Running, Marked, Shift, Moved
<1>3. \A st \in {"cancelled", "failed_retryable", "ambiguous"} :
        Running(row[r]) => Shift(row[r], LostRow(r, st))
  BY DEF Running, LostRow, Shift, Moved
<1>4. \A o : CanClaim(o, r) => Shift(row[r], Claimed(o, r))
  BY DEF CanClaim, Claimed, Shift, Moved
<1> QED BY <1>1, <1>2, <1>3, <1>4

\* The four ways in which a step treats rows and transcript.
Shifts == /\ \A r \in Round : row'[r] = row[r] \/ Shift(row[r], row'[r])
          /\ UNCHANGED <<transcript, authority>>

Creates(o) ==
  /\ call[o].pc = "opened" /\ OpAt(o) \in Round /\ row[OpAt(o)].st = "absent"
  /\ row' = [row EXCEPT ![OpAt(o)] = Created(o)]
  /\ UNCHANGED <<transcript, authority, req>>

Completes(o) ==
  LET r == OpAt(o)
  IN /\ r \in Round /\ call[o].pc = "waiting" /\ ctx[o].code = "ok" /\ CanComplete(o, r)
     /\ row' = [row EXCEPT ![r] = Completed(r)]
     /\ transcript' = Append(transcript, <<"assistant", r>>)
     /\ UNCHANGED <<authority, req, net>>

\* A transaction on a row that is not over shifts it, applied or not.
LEMMA WriteShifts ==
  ASSUME TypeOK, NEW r \in Round, NEW f, NEW w, WriteRow(f, r, w), Shift(row[r], w),
         UNCHANGED <<transcript, authority>>
  PROVE  Shifts
  BY DEF TypeOK, WriteRow, Shifts

\* Every step shifts rows, creates one, completes one or settles its batch.
LEMMA RowSteps ==
  ASSUME TypeOK, Asked, [Next]_vars
  PROVE  \/ Shifts
         \/ \E o \in Op : Creates(o) \/ Completes(o)
         \/ \E r \in Round : SettleBatch(r)
<1> USE DEF wal, proc
<1>1. \A o \in Op : call[o].pc # "idle" => OpAt(o) \in Round
  BY DEF Asked
<1>2. UNCHANGED <<row, transcript, authority>> => Shifts
  BY DEF Shifts
<1>3. ASSUME NEW o \in Op, Create(o) PROVE Shifts \/ Creates(o)
  <2>1. UNCHANGED <<transcript, authority, req>> /\ call[o].pc = "opened"
    BY <1>3 DEF Create, Serving
  <2>2. UNCHANGED row \/ (row[OpAt(o)].st = "absent" /\ row' = [row EXCEPT ![OpAt(o)] = Created(o)])
    BY <1>3 DEF Create, WriteRow
  <2> QED BY <1>1, <1>2, <2>1, <2>2 DEF Creates
<1>4. ASSUME NEW o \in Op, Claim(o) PROVE Shifts
  <2>1. UNCHANGED <<transcript, authority>> /\ OpAt(o) \in Round
    BY <1>1, <1>4 DEF Claim, Serving
  <2>2. UNCHANGED row \/ (CanClaim(o, OpAt(o)) /\ \E f \in Outcomes : WriteRow(f, OpAt(o), Claimed(o, OpAt(o))))
    BY <1>4 DEF Claim
  <2> QED BY <1>2, <2>1, <2>2, WriteShifts, ReducerShifts
<1>5. ASSUME NEW o \in Op, NotReady(o) PROVE Shifts
  <2>1. UNCHANGED <<transcript, authority>> /\ OpAt(o) \in Round
    BY <1>1, <1>5 DEF NotReady, Serving
  <2>2. UNCHANGED row \/ (CanCancel(OpAt(o)) /\ \E f \in Outcomes : WriteRow(f, OpAt(o), CancelledRow(OpAt(o))))
    BY <1>5 DEF NotReady
  <2> QED BY <1>2, <2>1, <2>2, WriteShifts, ReducerShifts
<1>6. ASSUME NEW o \in Op, Mark(o) PROVE Shifts
  <2>1. UNCHANGED <<transcript, authority>> /\ OpAt(o) \in Round
    BY <1>1, <1>6 DEF Mark, Serving
  <2>2. UNCHANGED row \/ (Running(row[OpAt(o)]) /\ \E f \in Outcomes : WriteRow(f, OpAt(o), Marked(OpAt(o))))
    BY <1>6 DEF Mark, CanMark
  <2> QED BY <1>2, <2>1, <2>2, WriteShifts, ReducerShifts
<1>7. ASSUME NEW o \in Op, SettleAnswer(o) PROVE Shifts \/ Completes(o)
  <2>1. /\ UNCHANGED <<authority, req, net>> /\ OpAt(o) \in Round
        /\ call[o].pc = "waiting" /\ ctx[o].code = "ok"
    BY <1>1, <1>7 DEF SettleAnswer, BackFromWait
  <2>2. \/ UNCHANGED <<row, transcript>>
        \/ /\ CanComplete(o, OpAt(o))
           /\ \E f \in Outcomes : WriteRow(f, OpAt(o), Completed(OpAt(o))) /\ WriteAnswer(f, OpAt(o))
    BY <1>7 DEF SettleAnswer
  <2> QED BY <1>2, <2>1, <2>2 DEF Completes, WriteRow, WriteAnswer
<1>8. ASSUME NEW o \in Op, SettleLoss(o) PROVE Shifts
  <2>1. UNCHANGED <<transcript, authority>> /\ OpAt(o) \in Round
    BY <1>1, <1>8 DEF SettleLoss, BackFromWait
  <2>2. UNCHANGED row \/ (/\ Running(row[OpAt(o)])
                          /\ \E f \in Outcomes : WriteRow(f, OpAt(o), LostRow(OpAt(o), SettledState(o))))
    BY <1>8 DEF SettleLoss
  <2>3. SettledState(o) \in {"cancelled", "failed_retryable", "ambiguous"}
    BY DEF SettledState, LostState
  <2> QED BY <1>2, <2>1, <2>2, <2>3, WriteShifts, ReducerShifts
<1>9. ASSUME NEW r \in Round, Cancel(r) PROVE Shifts
  <2>1. UNCHANGED <<transcript, authority>> /\ CanCancel(r) /\ \E f \in Outcomes : WriteRow(f, r, CancelledRow(r))
    BY <1>9 DEF Cancel
  <2> QED BY <2>1, WriteShifts, ReducerShifts
<1>10. ASSUME NEW r \in Round, Recover(r) PROVE Shifts
  <2>1. /\ UNCHANGED <<transcript, authority>> /\ Running(row[r])
        /\ \E f \in Outcomes : WriteRow(f, r, LostRow(r, LostState(r, FALSE)))
    BY <1>10 DEF Recover, CanReconcile
  <2>2. LostState(r, FALSE) \in {"cancelled", "failed_retryable", "ambiguous"}
    BY DEF LostState
  <2> QED BY <2>1, <2>2, WriteShifts, ReducerShifts
<1>11. ASSUME OwnerLoss \/ Boot PROVE Shifts
  <2>1. row' = OwnerLost /\ UNCHANGED <<transcript, authority>>
    BY <1>11 DEF OwnerLoss, Boot
  <2>2. \A r \in Round : row'[r] = row[r] \/ (Running(row[r]) /\ row'[r] = LostRow(r, BootState(r)))
    BY <2>1 DEF OwnerLost, CanReconcile
  <2>3. \A r \in Round : BootState(r) \in {"cancelled", "failed_retryable", "ambiguous"}
    BY DEF BootState
  <2> QED BY <2>1, <2>2, <2>3, ReducerShifts DEF Shifts
<1>12. ASSUME NEW o \in Op, \/ Open(o) \/ Refuse(o) \/ NoRequestId(o) \/ Close(o) \/ Wait(o)
                            \/ Replay(o) \/ Accept(o) \/ TurnAway(o)
       PROVE  Shifts
  BY <1>2, <1>12 DEF Open, Refuse, NoRequestId, Close, Wait, Send, ReplyOk, ReplyStatus, ReplyBroken,
     TimeOut, Replay, Accept, TurnAway
<1>13. ASSUME \/ \E o \in Op, r \in Round : AskRun(o, r) \/ AskRetry(o, r)
              \/ Crash \/ UNCHANGED vars
       PROVE  Shifts
  BY <1>2, <1>13 DEF AskRun, AskRetry, Crash, vars
<1> QED BY <1>3, <1>4, <1>5, <1>6, <1>7, <1>8, <1>9, <1>10, <1>11, <1>12, <1>13
        DEF Next, Handler, Settle

\* The step TerminalStays is about.
Settled == \A r \in Round : row[r].st \in {"completed", "cancelled", "ambiguous"} => row'[r] = row[r]

LEMMA SettledRowsStay == ASSUME TypeOK, Asked, [Next]_vars PROVE Settled
<1>1. CASE Shifts
  BY <1>1 DEF Shifts, Shift, Settled
<1>2. CASE \E o \in Op : Creates(o)
  BY <1>2 DEF Creates, Settled, TypeOK
<1>3. CASE \E o \in Op : Completes(o)
  BY <1>3 DEF Completes, CanComplete, Running, Settled, TypeOK
<1>4. CASE \E r \in Round : SettleBatch(r)
  BY <1>4 DEF SettleBatch, Settled
<1> QED BY <1>1, <1>2, <1>3, <1>4, RowSteps

\* A round that may have run is never launched again, and a settled one never
\* leaves its state: not by a late answer, a cancellation, a recovery, the
\* owner-loss pass or a new process.
THEOREM SettledIsFinal == Spec => TerminalStays
<1>1. IInv /\ [Next]_vars => [Settled]_vars
  BY SettledRowsStay DEF IInv, Fence
<1>2. [][Settled]_vars => TerminalStays
  BY PTL DEF Settled, TerminalStays
<1> QED BY Inductive, <1>1, <1>2, PTL DEF Spec

-----------------------------------------------------------------------------
(***************************************************************************)
(* Operations                                                              *)
(***************************************************************************)
LEMMA InitOpsFit == Init => OpsFit
  BY DEF Init, OpsFit, OpFits, NoCall, NoContext

\* A step of operation o that takes the queue, gives it up or leaves it alone
\* says nothing about another operation.
LEMMA OthersFit ==
  ASSUME OpsFit, NEW o \in Op,
         \A p \in Op \ {o} : /\ call'[p] = call[p] /\ ops'[p] = ops[p] /\ req'[p] = req[p]
                             /\ net'[p] = net[p] /\ ctx'[p] = ctx[p],
         UNCHANGED queue \/ queue \in {o, NoOp}, UNCHANGED authority,
         OpFits(o)'
  PROVE  OpsFit'
<1>1. ASSUME NEW p \in Op \ {o} PROVE OpFits(p)'
  <2>1. OpFits(p) /\ p # o /\ p # NoOp
    BY RoundAssumption DEF OpsFit
  <2> QED BY <2>1 DEF OpFits
<1> QED BY <1>1 DEF OpsFit

\* What a handler's continuation writes, and what its end does.
LEMMA ContinueWrites ==
  ASSUME TypeOK, NEW o \in Op, NEW pc, NEW cas, Continue(o, pc, cas)
  PROVE  /\ call'[o].pc = pc /\ call'[o].end = "none" /\ call'[o].answer = "pending"
         /\ \A p \in Op \ {o} : call'[p] = call[p]
  BY DEF TypeOK, Continue

LEMMA ClosingWrites ==
  ASSUME TypeOK, NEW o \in Op, NEW end, NEW answer, Closing(o, end, answer)
  PROVE  /\ call'[o].pc = "closing" /\ call'[o].end = end /\ call'[o].answer = answer
         /\ \A p \in Op \ {o} : call'[p] = call[p]
  BY DEF TypeOK, Closing

\* A turn of o's handler that ends in its next position.
LEMMA TurnFits ==
  ASSUME TypeOK, OpsFit, NEW o \in Op, ops[o].state # "none", req[o] # NoRequest,
         UNCHANGED <<req, ops, net, authority>>,
         ctx'[o].code = "ok" => net[o] = "executed",
         \A p \in Op \ {o} : ctx'[p] = ctx[p],
         \/ \E answer : \E end \in {"committed", "ambiguous", "conflict"} : Closing(o, end, answer) /\ queue' = o
         \/ call[o].pc = "opened" /\ \E cas : Continue(o, "claimed", cas) /\ queue' = o
         \/ call[o].pc = "claimed" /\ \E cas : Continue(o, "ready", cas) /\ queue' = NoOp,
         queue \in {o, NoOp}
  PROVE  OpsFit'
<1>1. \A p \in Op \ {o} : call'[p] = call[p]
  BY ContinueWrites, ClosingWrites
<1>2. OpFits(o)
  BY DEF OpsFit
<1>3. OpFits(o)'
  <2>1. CASE \E answer : \E end \in {"committed", "ambiguous", "conflict"} : Closing(o, end, answer) /\ queue' = o
    <3>1. call'[o].pc = "closing" /\ call'[o].end \in {"committed", "ambiguous", "conflict"} /\ queue' = o
      <4> PICK answer : \E end \in {"committed", "ambiguous", "conflict"} : Closing(o, end, answer) /\ queue' = o
        BY <2>1
      <4> PICK end \in {"committed", "ambiguous", "conflict"} : Closing(o, end, answer) /\ queue' = o
        OBVIOUS
      <4> QED BY ClosingWrites
    <3> QED BY <1>2, <3>1 DEF OpFits
  <2>2. CASE call[o].pc = "opened" /\ \E cas : Continue(o, "claimed", cas) /\ queue' = o
    <3>1. call'[o].pc = "claimed" /\ queue' = o
      BY <2>2, ContinueWrites
    <3> QED BY <1>2, <2>2, <3>1 DEF OpFits
  <2>3. CASE call[o].pc = "claimed" /\ \E cas : Continue(o, "ready", cas) /\ queue' = NoOp
    <3>1. call'[o].pc = "ready"
      BY <2>3, ContinueWrites
    <3> QED BY <1>2, <2>3, <3>1 DEF OpFits
  <2> QED BY <2>1, <2>2, <2>3
<1> QED BY <1>1, <1>3, OthersFit

\* Every step keeps the operations fitting.
LEMMA OpsStep == ASSUME TypeOK, Asked, OpsFit, [Next]_vars PROVE OpsFit'
<1> USE DEF wal, proc
<1>1. \A o \in Op : OpFits(o)
  BY DEF OpsFit
<1>2. ASSUME NEW o \in Op, call[o].pc # "idle" PROVE ops[o].state # "none" /\ req[o] # NoRequest
  BY <1>1, <1>2 DEF OpFits, Asked
<1>3. ASSUME NEW o \in Op, Open(o) PROVE OpsFit'
  <2>1. PICK f \in Outcomes :
          /\ ops' = IF Applied(f) THEN [ops EXCEPT ![o].state = "started"] ELSE ops
          /\ IF f = "ok" THEN queue' = o /\ Continue(o, "opened", NoCAS)
                         ELSE UNCHANGED <<queue, call>>
    BY <1>3 DEF Open
  <2>2. /\ queue = NoOp /\ call[o].pc = "idle" /\ req[o] # NoRequest /\ req[o].gen = authority
        /\ ops[o].state = "none" /\ UNCHANGED <<req, net, ctx, authority>>
    BY <1>3 DEF Open
  <2>3. net[o] = "none" /\ ops[o].answer = "pending"
    BY <1>1, <2>2 DEF OpFits
  <2>4. \A p \in Op \ {o} : ops'[p] = ops[p] /\ call'[p] = call[p]
    BY <2>1, ContinueWrites DEF TypeOK
  <2>5. CASE f = "ok"
    <3>1. ops'[o].state = "started" /\ ops'[o].answer = "pending"
      BY <2>1, <2>3, <2>5 DEF Applied, TypeOK, OpRow
    <3>2. call'[o].pc = "opened" /\ queue' = o
      BY <2>1, <2>5, ContinueWrites
    <3>3. OpFits(o)'
      BY <1>1, <2>2, <2>3, <3>1, <3>2 DEF OpFits
    <3> QED BY <2>2, <2>4, <3>3, OthersFit
  <2>6. CASE f # "ok"
    <3>1. ops'[o].answer = "pending" /\ UNCHANGED <<queue, call>>
      BY <2>1, <2>3, <2>6 DEF TypeOK, OpRow
    <3>2. OpFits(o)'
      BY <1>1, <2>2, <2>3, <3>1 DEF OpFits
    <3> QED BY <2>2, <2>4, <3>1, <3>2, OthersFit
  <2> QED BY <2>5, <2>6
<1>4. ASSUME NEW o \in Op, Refuse(o) \/ Create(o) \/ Claim(o) \/ NotReady(o) \/ NoRequestId(o) PROVE OpsFit'
  <2>1. call[o].pc \in {"opened", "claimed"} /\ queue = o /\ UNCHANGED <<req, ops, net, ctx, authority, queue>>
    BY <1>4 DEF Refuse, Create, Claim, NotReady, NoRequestId, Serving
  <2>2. \/ \E answer : \E end \in {"committed", "ambiguous", "conflict"} : Closing(o, end, answer)
        \/ call[o].pc = "opened" /\ \E cas : Continue(o, "claimed", cas)
    <3>1. CASE Refuse(o)
      BY <3>1 DEF Refuse
    <3>2. CASE Create(o)
      BY <3>2 DEF Create, Serving
    <3>3. CASE Claim(o)
      BY <3>3 DEF Claim, Serving
    <3>4. CASE NotReady(o) \/ NoRequestId(o)
      BY <3>4 DEF NotReady, NoRequestId
    <3> QED BY <1>4, <3>1, <3>2, <3>3, <3>4
  <2>3. ops[o].state # "none" /\ req[o] # NoRequest /\ (ctx'[o].code = "ok" => net[o] = "executed")
    BY <1>1, <1>2, <2>1 DEF OpFits
  <2> QED BY <2>1, <2>2, <2>3, TurnFits
<1>5. ASSUME NEW o \in Op, Mark(o) PROVE OpsFit'
  <2>1. call[o].pc = "claimed" /\ queue = o /\ UNCHANGED <<req, ops, net, ctx, authority>>
    BY <1>5 DEF Mark, Serving
  <2>2. \/ \E answer : \E end \in {"committed", "ambiguous", "conflict"} : Closing(o, end, answer) /\ queue' = o
        \/ \E cas : Continue(o, "ready", cas) /\ queue' = NoOp
    BY <1>5, <2>1 DEF Mark
  <2>3. ops[o].state # "none" /\ req[o] # NoRequest /\ (ctx'[o].code = "ok" => net[o] = "executed")
    BY <1>1, <1>2, <2>1 DEF OpFits
  <2> QED BY <2>1, <2>2, <2>3, TurnFits
<1>6. ASSUME NEW o \in Op, SettleAnswer(o) \/ SettleLoss(o) PROVE OpsFit'
  <2>1. /\ call[o].pc = "waiting" /\ queue = NoOp /\ queue' = o /\ ctx' = [ctx EXCEPT ![o] = NoContext]
        /\ UNCHANGED <<req, ops, net, authority>>
    BY <1>6 DEF SettleAnswer, SettleLoss, BackFromWait
  <2>2. \E answer : \E end \in {"committed", "ambiguous", "conflict"} : Closing(o, end, answer)
    BY <1>6 DEF SettleAnswer, SettleLoss
  <2>3. /\ ops[o].state # "none" /\ req[o] # NoRequest
        /\ ctx'[o].code # "ok" /\ \A p \in Op \ {o} : ctx'[p] = ctx[p]
    BY <1>2, <2>1 DEF TypeOK, NoContext
  <2> QED BY <2>1, <2>2, <2>3, TurnFits
<1>7. ASSUME NEW o \in Op, Close(o) PROVE OpsFit'
  <2>1. /\ call[o].pc = "closing" /\ queue = o /\ queue' = NoOp /\ call' = [call EXCEPT ![o] = NoCall]
        /\ UNCHANGED <<req, net, ctx, authority>>
        /\ \/ UNCHANGED ops
           \/ ops' = [ops EXCEPT ![o] = [state |-> call[o].end, answer |-> call[o].answer]]
    BY <1>7 DEF Close, Serving
  <2>2. \A p \in Op \ {o} : ops'[p] = ops[p] /\ call'[p] = call[p]
    BY <2>1 DEF TypeOK
  <2>3. call'[o].pc = "idle"
    BY <2>1 DEF TypeOK, NoCall
  <2>4. ops'[o] = ops[o] \/ ops'[o].state \notin {"none", "started"}
    BY <1>1, <2>1 DEF TypeOK, OpFits
  <2>5. req[o] # NoRequest
    BY <1>2, <2>1
  <2>6. OpFits(o)'
    BY <1>1, <2>1, <2>3, <2>4, <2>5 DEF OpFits
  <2> QED BY <2>1, <2>2, <2>6, OthersFit
<1>8. ASSUME NEW o \in Op, Send(o) PROVE OpsFit'
  <2>1. /\ call[o].pc = "ready" /\ UNCHANGED <<req, ops, ctx, queue, authority>>
        /\ call' = [call EXCEPT ![o].pc = "waiting"]
        /\ net' = IF ctx[o].finished THEN net ELSE [net EXCEPT ![o] = "sent"]
    BY <1>8 DEF Send
  <2>2. \A p \in Op \ {o} : net'[p] = net[p] /\ call'[p] = call[p]
    BY <2>1 DEF TypeOK
  <2>3. call'[o].pc = "waiting" /\ ops[o].state # "none" /\ ctx[o].code # "ok"
    BY <1>1, <1>2, <2>1 DEF TypeOK, Call, OpFits
  <2>4. OpFits(o)'
    BY <1>1, <2>1, <2>3 DEF OpFits
  <2> QED BY <2>1, <2>2, <2>4, OthersFit
<1>9. ASSUME NEW o \in Op, ReplyOk(o) \/ ReplyStatus(o) \/ ReplyBroken(o) \/ TimeOut(o) PROVE OpsFit'
  <2>1. UNCHANGED <<req, ops, call, net, queue, authority>>
    BY <1>9 DEF ReplyOk, ReplyStatus, ReplyBroken, TimeOut
  <2>2. /\ ctx'[o].code = "ok" => net[o] = "executed"
        /\ \A p \in Op \ {o} : ctx'[p] = ctx[p]
    BY <1>1, <1>9 DEF ReplyOk, ReplyStatus, ReplyBroken, TimeOut, Finish, TypeOK, OpFits
  <2>3. OpFits(o)'
    BY <1>1, <2>1, <2>2 DEF OpFits
  <2> QED BY <2>1, <2>2, <2>3, OthersFit
<1>10. ASSUME NEW o \in Op, Accept(o) \/ TurnAway(o) PROVE OpsFit'
  <2>1. /\ net[o] = "sent" /\ UNCHANGED <<req, ops, call, ctx, queue, authority>>
        /\ \A p \in Op \ {o} : net'[p] = net[p]
    BY <1>10 DEF Accept, TurnAway, TypeOK
  <2>2. OpFits(o)'
    BY <1>1, <2>1 DEF OpFits
  <2> QED BY <2>1, <2>2, OthersFit
<1>11. ASSUME NEW o \in Op, Replay(o) PROVE OpsFit'
  <2>1. /\ ops[o].state = "started" /\ UNCHANGED <<req, net, call, ctx, queue, authority>>
        /\ ReplayEnd(OpAt(o))[1] # "started"
        /\ ops' = [ops EXCEPT ![o] = [state |-> ReplayEnd(OpAt(o))[1], answer |-> ReplayEnd(OpAt(o))[2]]]
    BY <1>11 DEF Replay
  <2>2. ReplayEnd(OpAt(o))[1] # "none"
    BY DEF ReplayEnd
  <2>3. ops'[o].state \notin {"none", "started"} /\ \A p \in Op \ {o} : ops'[p] = ops[p]
    BY <2>1, <2>2 DEF TypeOK
  <2>4. req[o] # NoRequest
    BY <1>1, <2>1 DEF OpFits
  <2>5. OpFits(o)'
    BY <1>1, <2>1, <2>3, <2>4 DEF OpFits
  <2> QED BY <2>1, <2>3, <2>5, OthersFit
<1>12. ASSUME NEW o \in Op, NEW r \in Round, AskRun(o, r) \/ AskRetry(o, r) PROVE OpsFit'
  <2>1. /\ req[o] = NoRequest /\ UNCHANGED <<ops, call, net, ctx, queue, authority>>
        /\ \A p \in Op \ {o} : req'[p] = req[p]
    BY <1>12 DEF AskRun, AskRetry, TypeOK
  <2>2. ops[o].state = "none" /\ call[o].pc = "idle"
    BY <1>1, <2>1 DEF OpFits
  <2>3. OpFits(o)'
    BY <1>1, <2>1, <2>2 DEF OpFits
  <2> QED BY <2>1, <2>3, OthersFit
<1>13. ASSUME NEW r \in Round, Cancel(r) PROVE OpsFit'
  <2>1. /\ UNCHANGED <<req, ops, call, net, queue, authority>>
        /\ \A p \in Op : ctx'[p].code = "ok" => ctx[p].code = "ok"
    BY <1>13 DEF Cancel
  <2> QED BY <1>1, <2>1 DEF OpsFit, OpFits
<1>14. ASSUME Crash PROVE OpsFit'
  <2>1. /\ UNCHANGED <<req, ops, net, authority>>
        /\ \A p \in Op : call'[p].pc = "idle" /\ ctx'[p].code = "none"
    BY <1>14 DEF Crash, NoCall, NoContext
  <2> QED BY <1>1, <2>1 DEF OpsFit, OpFits
<1>15. ASSUME NEW r \in Round, SettleBatch(r) PROVE OpsFit'
  <2>1. queue = NoOp /\ UNCHANGED <<req, ops, net, call, ctx, queue>>
    BY <1>15 DEF SettleBatch
  <2>2. \A p \in Op : call[p].pc # "opened"
    BY <1>1, <2>1, RoundAssumption DEF OpFits
  <2> QED BY <1>1, <2>1, <2>2 DEF OpsFit, OpFits
<1>16. ASSUME (\E r \in Round : Recover(r)) \/ OwnerLoss \/ Boot \/ UNCHANGED vars PROVE OpsFit'
  <2>1. UNCHANGED <<req, ops, net, call, ctx, queue, authority>>
    BY <1>16 DEF Recover, OwnerLoss, Boot, vars
  <2> QED BY <1>1, <2>1 DEF OpsFit, OpFits
<1> QED BY <1>3, <1>4, <1>5, <1>6, <1>7, <1>8, <1>9, <1>10, <1>11, <1>12, <1>13, <1>14, <1>15, <1>16
        DEF Next, Handler, Wait, Settle

-----------------------------------------------------------------------------
(***************************************************************************)
(* The transcript                                                          *)
(***************************************************************************)
LEMMA InitAlternates == Init => Alternates
<1> SUFFICES ASSUME Init PROVE Alternates
  OBVIOUS
<1>1. authority = 2 * 0 /\ Len(transcript) = 0
  BY DEF Init
<1>2. \A r \in Round : row[r].st = "absent" /\ r \in Nat /\ r >= 1
  BY RoundAssumption DEF Init, AbsentRow, Round
<1>3. \A o \in Op : req[o] = NoRequest
  BY DEF Init
<1> QED BY <1>1, <1>2, <1>3 DEF Alternates

\* A request is made once, for a round whose turn has come.
LEMMA AskSteps ==
  ASSUME TypeOK, [Next]_vars
  PROVE  \/ UNCHANGED req
         \/ /\ UNCHANGED <<row, transcript, authority>>
            /\ \E o \in Op, r \in Round :
                 /\ req[o] = NoRequest /\ req'[o].round = r
                 /\ \A p \in Op \ {o} : req'[p] = req[p]
                 /\ MayAsk(r) \/ row[r].st = "failed_retryable"
<1> USE DEF wal, proc
<1>1. ASSUME NEW o \in Op, NEW r \in Round, AskRun(o, r) \/ AskRetry(o, r)
      PROVE  /\ UNCHANGED <<row, transcript, authority>>
             /\ req[o] = NoRequest /\ req'[o].round = r
             /\ \A p \in Op \ {o} : req'[p] = req[p]
             /\ MayAsk(r) \/ row[r].st = "failed_retryable"
  BY <1>1 DEF AskRun, AskRetry, TypeOK
<1>2. ASSUME NEW o \in Op, Handler(o) PROVE UNCHANGED req
  BY <1>2 DEF Handler, Open, Refuse, Create, Claim, NotReady, NoRequestId, Mark, Close
<1>3. ASSUME NEW o \in Op, Wait(o) \/ Settle(o) \/ Replay(o) \/ Accept(o) \/ TurnAway(o) PROVE UNCHANGED req
  BY <1>3 DEF Wait, Send, ReplyOk, ReplyStatus, ReplyBroken, TimeOut, Settle, SettleAnswer, SettleLoss,
              Replay, Accept, TurnAway
<1>4. ASSUME \/ \E r \in Round : Cancel(r) \/ Recover(r) \/ SettleBatch(r)
             \/ OwnerLoss \/ Crash \/ Boot \/ UNCHANGED vars
      PROVE  UNCHANGED req
  BY <1>4 DEF Cancel, Recover, SettleBatch, OwnerLoss, Crash, Boot, vars
<1> QED BY <1>1, <1>2, <1>3, <1>4 DEF Next

LEMMA LongEnough ==
  ASSUME TypeOK, Alternates, NEW r \in Round, MayAsk(r) \/ row[r].st = "failed_retryable"
  PROVE  Len(transcript) >= 2 * r - 2
<1>1. Len(transcript) \in Nat /\ r \in Nat /\ r >= 1
  BY DEF TypeOK, Round
<1>2. CASE row[r].st = "failed_retryable"
  BY <1>1, <1>2 DEF Alternates
<1>3. CASE MayAsk(r) /\ r = 1
  BY <1>1, <1>3
<1>4. CASE MayAsk(r) /\ r # 1
  <2>1. r - 1 \in Round /\ r - 1 < r
    BY <1>1, <1>4, RoundAssumption DEF Round
  <2>2. Len(transcript) >= 2 * (r - 1)
    BY <1>4, <2>1 DEF MayAsk
  <2> QED BY <1>1, <2>2
<1> QED BY <1>2, <1>3, <1>4

\* What was asked for stays in order while the transcript grows.
LEMMA AskedInOrder ==
  ASSUME TypeOK, Alternates, [Next]_vars, Len(transcript') \in Nat, Len(transcript') >= Len(transcript)
  PROVE  \A o \in Op : req'[o] # NoRequest => Len(transcript') >= 2 * req'[o].round - 2
<1>1. Len(transcript) \in Nat /\ \A o \in Op : req[o].round \in Nat
  BY RoundAssumption DEF TypeOK, Request
<1>2. \A o \in Op : req[o] # NoRequest => Len(transcript') >= 2 * req[o].round - 2
  BY <1>1 DEF Alternates
<1>3. CASE UNCHANGED req
  BY <1>2, <1>3
<1>4. ASSUME NEW o \in Op, NEW r \in Round, req'[o].round = r, \A p \in Op \ {o} : req'[p] = req[p],
             MayAsk(r) \/ row[r].st = "failed_retryable"
      PROVE  \A p \in Op : req'[p] # NoRequest => Len(transcript') >= 2 * req'[p].round - 2
  <2>1. Len(transcript) >= 2 * r - 2 /\ r \in Nat
    BY <1>4, LongEnough DEF Round
  <2>2. Len(transcript') >= 2 * r - 2
    BY <1>1, <2>1
  <2> QED BY <1>2, <1>4, <2>2
<1> QED BY <1>3, <1>4, AskSteps

\* Every step keeps the transcript alternating.
LEMMA AlternatesStep == ASSUME TypeOK, Asked, OpsFit, Alternates, [Next]_vars PROVE Alternates'
<1>1. transcript \in Seq(Author) /\ Len(transcript) \in Nat
  BY DEF TypeOK
<1>2. PICK a \in Nat : authority = 2 * a /\ Len(transcript) \in {2 * a, 2 * a + 1}
  BY DEF Alternates
<1>3. \A r \in Round : r \in Nat /\ r >= 1
  BY DEF Round
<1>4. row \in [Round -> Row] /\ \A r \in Round : row[r].before \in Nat
  BY DEF TypeOK, Row
<1>5. /\ \A r \in Round : row[r].st = "completed" <=> Len(transcript) >= 2 * r - 1
      /\ \A r \in Round : row[r].st \notin {"absent", "completed"} =>
           Len(transcript) = 2 * r - 2 /\ row[r].before = 2 * r - 2
  BY DEF Alternates
<1>6. CASE Shifts
  <2>1. UNCHANGED <<transcript, authority>>
    BY <1>6 DEF Shifts
  <2>2. \A o \in Op : req'[o] # NoRequest => Len(transcript') >= 2 * req'[o].round - 2
    BY <1>1, <2>1, AskedInOrder
  <2>3. \A r \in Round : row'[r].st = "completed" <=> Len(transcript) >= 2 * r - 1
    BY <1>5, <1>6 DEF Shifts, Shift
  <2>4. \A r \in Round : row'[r].st \notin {"absent", "completed"} =>
          Len(transcript) = 2 * r - 2 /\ row'[r].before = 2 * r - 2
    BY <1>5, <1>6 DEF Shifts, Shift
  <2> QED BY <2>1, <2>2, <2>3, <2>4 DEF Alternates
<1>7. ASSUME NEW o \in Op, Creates(o) PROVE Alternates'
  <2> DEFINE r == OpAt(o)
  <2>1. /\ call[o].pc = "opened" /\ r \in Round /\ row[r].st = "absent"
        /\ row' = [row EXCEPT ![r] = Created(o)] /\ UNCHANGED <<transcript, authority, req>>
    BY <1>7 DEF Creates
  <2>2. req[o] # NoRequest /\ req[o].gen = authority
    BY <2>1 DEF Asked, OpsFit, OpFits
  <2>3. Len(transcript) >= 2 * r - 2
    BY <2>2 DEF Alternates, OpAt
  <2> HIDE DEF r
  <2>4. ~(Len(transcript) >= 2 * r - 1)
    BY <1>5, <2>1
  <2>5. Len(transcript) = 2 * r - 2 /\ authority = 2 * r - 2
    BY <1>1, <1>2, <1>3, <2>1, <2>3, <2>4
  <2>6. row'[r].st = "in_flight" /\ row'[r].before = 2 * r - 2 /\ \A q \in Round \ {r} : row'[q] = row[q]
    BY <1>4, <2>1, <2>2, <2>5 DEF Created
  <2>7. \A q \in Round : row'[q].st = "completed" <=> Len(transcript) >= 2 * q - 1
    BY <1>5, <2>4, <2>6
  <2>8. \A q \in Round : row'[q].st \notin {"absent", "completed"} =>
          Len(transcript) = 2 * q - 2 /\ row'[q].before = 2 * q - 2
    BY <1>5, <2>5, <2>6
  <2> QED BY <2>1, <2>7, <2>8 DEF Alternates
<1>8. ASSUME NEW o \in Op, Completes(o) PROVE Alternates'
  <2> DEFINE r == OpAt(o)
             m == <<"assistant", r>>
  <2>1. /\ r \in Round /\ row[r].st \in {"in_flight", "cancel_requested"}
        /\ row' = [row EXCEPT ![r] = Completed(r)] /\ transcript' = Append(transcript, m)
        /\ UNCHANGED <<authority, req>>
    BY <1>8 DEF Completes, CanComplete, Running
  <2>2. m[1] = "assistant" /\ m[2] = r /\ m \in Author
    BY <2>1 DEF Author
  <2> HIDE DEF r, m
  <2>3. Len(transcript) = 2 * r - 2
    BY <1>5, <2>1
  <2>4. /\ Len(transcript') = 2 * r - 1 /\ transcript'[2 * r - 1] = m
        /\ \A i \in 1 .. Len(transcript) : transcript'[i] = transcript[i]
    <3>1. /\ Len(transcript') = Len(transcript) + 1 /\ transcript'[Len(transcript) + 1] = m
          /\ \A i \in 1 .. Len(transcript) : transcript'[i] = transcript[i]
      BY <1>1, <2>1, <2>2
    <3> QED BY <1>3, <2>1, <2>3, <3>1
  <2>5. authority = 2 * a /\ Len(transcript') \in {2 * a, 2 * a + 1}
    <3>1. r \in Nat
      BY <1>3, <2>1
    <3>2. 2 * r - 2 = 2 * a
      BY <1>2, <2>3, <3>1
    <3> QED BY <1>2, <2>4, <3>1, <3>2
  <2>6. row'[r].st = "completed" /\ \A q \in Round \ {r} : row'[q] = row[q]
    BY <1>4, <2>1 DEF Completed, Moved
  <2>7. \A q \in Round : row'[q].st = "completed" <=> Len(transcript') >= 2 * q - 1
    <3> SUFFICES ASSUME NEW q \in Round PROVE row'[q].st = "completed" <=> Len(transcript') >= 2 * q - 1
      OBVIOUS
    <3>1. CASE q = r
      BY <1>3, <2>4, <2>6, <3>1
    <3>2. CASE q # r
      BY <1>3, <1>5, <2>1, <2>3, <2>4, <2>6, <3>2
    <3> QED BY <3>1, <3>2
  <2>8. \A q \in Round : row'[q].st \in {"absent", "completed"}
    <3> SUFFICES ASSUME NEW q \in Round, q # r PROVE row[q].st \in {"absent", "completed"}
      BY <2>6
    <3> QED BY <1>3, <1>5, <2>1, <2>3
  <2>9. \A i \in 1 .. Len(transcript') :
          2 * transcript'[i][2] = IF transcript'[i][1] = "assistant" THEN i + 1 ELSE i
    <3> SUFFICES ASSUME NEW i \in 1 .. Len(transcript')
                 PROVE  2 * transcript'[i][2] = IF transcript'[i][1] = "assistant" THEN i + 1 ELSE i
      OBVIOUS
    <3>1. CASE i = 2 * r - 1
      BY <1>3, <2>1, <2>2, <2>4, <3>1
    <3>2. CASE i # 2 * r - 1
      <4>1. i \in 1 .. Len(transcript)
        BY <1>3, <2>1, <2>3, <2>4, <3>2
      <4> QED BY <2>4, <4>1 DEF Alternates
    <3> QED BY <3>1, <3>2
  <2>10. \A p \in Op : req'[p] # NoRequest => Len(transcript') >= 2 * req'[p].round - 2
    <3>1. Len(transcript') \in Nat /\ Len(transcript') >= Len(transcript)
      BY <1>3, <2>1, <2>3, <2>4
    <3> QED BY <3>1, AskedInOrder
  <2>11. authority' = 2 * a /\ Len(transcript') \in {2 * a, 2 * a + 1}
    BY <2>1, <2>5
  <2> QED BY <1>2, <2>7, <2>8, <2>9, <2>10, <2>11 DEF Alternates
<1>9. ASSUME NEW r \in Round, SettleBatch(r) PROVE Alternates'
  <2> DEFINE m == <<"tools", r>>
  <2>1. /\ Len(transcript) = 2 * r - 1 /\ transcript' = Append(transcript, m) /\ authority' = 2 * r
        /\ UNCHANGED row
    BY <1>9 DEF SettleBatch
  <2>2. m[1] = "tools" /\ m[2] = r /\ m \in Author
    BY DEF Author
  <2> HIDE DEF m
  <2>3. /\ Len(transcript') = 2 * r /\ transcript'[2 * r] = m
        /\ \A i \in 1 .. Len(transcript) : transcript'[i] = transcript[i]
    <3>1. /\ Len(transcript') = Len(transcript) + 1 /\ transcript'[Len(transcript) + 1] = m
          /\ \A i \in 1 .. Len(transcript) : transcript'[i] = transcript[i]
      BY <1>1, <2>1, <2>2
    <3> QED BY <1>3, <2>1, <3>1
  <2>4. \A q \in Round : row'[q].st = "completed" <=> Len(transcript') >= 2 * q - 1
    BY <1>3, <1>5, <2>1, <2>3
  <2>5. \A q \in Round : row'[q].st \in {"absent", "completed"}
    <3>1. \A q \in Round : 2 * q - 2 # 2 * r - 1
      BY <1>3
    <3> QED BY <1>5, <2>1, <3>1
  <2>6. \A i \in 1 .. Len(transcript') :
          2 * transcript'[i][2] = IF transcript'[i][1] = "assistant" THEN i + 1 ELSE i
    <3> SUFFICES ASSUME NEW i \in 1 .. Len(transcript')
                 PROVE  2 * transcript'[i][2] = IF transcript'[i][1] = "assistant" THEN i + 1 ELSE i
      OBVIOUS
    <3>1. CASE i = 2 * r
      BY <1>3, <2>2, <2>3, <3>1
    <3>2. CASE i # 2 * r
      <4>1. i \in 1 .. Len(transcript)
        BY <1>3, <2>1, <2>3, <3>2
      <4> QED BY <2>3, <4>1 DEF Alternates
    <3> QED BY <3>1, <3>2
  <2>7. \A p \in Op : req'[p] # NoRequest => Len(transcript') >= 2 * req'[p].round - 2
    <3>1. Len(transcript') \in Nat /\ Len(transcript') >= Len(transcript)
      BY <1>3, <2>1, <2>3
    <3> QED BY <3>1, AskedInOrder
  <2>8. r \in Nat /\ authority' = 2 * r /\ Len(transcript') \in {2 * r, 2 * r + 1}
    BY <1>3, <2>1, <2>3
  <2> QED BY <2>4, <2>5, <2>6, <2>7, <2>8 DEF Alternates
<1> QED BY <1>6, <1>7, <1>8, <1>9, RowSteps

-----------------------------------------------------------------------------
(***************************************************************************)
(* Answers                                                                 *)
(***************************************************************************)
LEMMA InitAnswers == Init => AnswersInv
  BY DEF Init, AnswersInv, Truthful, NoCall, AbsentRow

\* What the provider ran it has run, and it runs nothing that was not sent.
LEMMA NetSteps ==
  ASSUME TypeOK, OpsFit, [Next]_vars, NEW o \in Op
  PROVE  /\ net[o] = "executed" => net'[o] = "executed"
         /\ net'[o] \in {"sent", "executed"} => net[o] \in {"sent", "executed"} \/ call[o].pc = "ready"
<1> USE DEF wal, proc
<1>1. ASSUME NEW p \in Op, Send(p)
      PROVE  call[p].pc = "ready" /\ net[p] = "none" /\ \A q \in Op \ {p} : net'[q] = net[q]
  BY <1>1 DEF Send, TypeOK, OpsFit, OpFits
<1>2. ASSUME NEW p \in Op, Accept(p) \/ TurnAway(p)
      PROVE  net[p] = "sent" /\ \A q \in Op \ {p} : net'[q] = net[q]
  BY <1>2 DEF Accept, TurnAway, TypeOK
<1>3. ASSUME NEW p \in Op, Handler(p) PROVE UNCHANGED net
  BY <1>3 DEF Handler, Open, Refuse, Create, Claim, NotReady, NoRequestId, Mark, Close
<1>4. ASSUME NEW p \in Op, ReplyOk(p) \/ ReplyStatus(p) \/ ReplyBroken(p) \/ TimeOut(p) \/ Settle(p) \/ Replay(p)
      PROVE UNCHANGED net
  BY <1>4 DEF ReplyOk, ReplyStatus, ReplyBroken, TimeOut, Settle, SettleAnswer, SettleLoss, Replay
<1>5. ASSUME \/ \E p \in Op, r \in Round : AskRun(p, r) \/ AskRetry(p, r)
             \/ \E r \in Round : Cancel(r) \/ Recover(r) \/ SettleBatch(r)
             \/ OwnerLoss \/ Crash \/ Boot \/ UNCHANGED vars
      PROVE  UNCHANGED net
  BY <1>5 DEF AskRun, AskRetry, Cancel, Recover, SettleBatch, OwnerLoss, Crash, Boot, vars
<1> QED BY <1>1, <1>2, <1>3, <1>4, <1>5 DEF Next, Wait

\* A completed round was paid for, and stays so.
LEMMA PaidStep ==
  ASSUME TypeOK, Asked, OpsFit, AnswersInv, [Next]_vars, NEW r \in Round, row'[r].st = "completed"
  PROVE  Executed(r)' # {}
<1>1. ASSUME NEW o \in Op, o \in Executed(r) PROVE Executed(r)' # {}
  <2>1. net'[o] = "executed" /\ net[o] = "executed"
    BY <1>1, NetSteps DEF Executed
  <2>2. req[o] # NoRequest
    BY <2>1 DEF Asked
  <2>3. req'[o] = req[o]
    BY <2>2, AskSteps
  <2>4. OpAt(o)' = r
    BY <1>1, <2>3 DEF OpAt, Executed
  <2> QED BY <2>1, <2>4 DEF Executed
<1>2. CASE row[r].st = "completed"
  <2>1. PICK o : o \in Executed(r)
    BY <1>2 DEF AnswersInv
  <2> QED BY <1>1, <2>1 DEF Executed
<1>3. CASE row[r].st # "completed"
  <2>1. ~Shifts
    BY <1>3 DEF Shifts, Shift
  <2>2. ASSUME NEW o \in Op, Creates(o) PROVE FALSE
    BY <1>3, <2>2 DEF Creates, Created, TypeOK
  <2>3. ASSUME NEW q \in Round, SettleBatch(q) PROVE FALSE
    BY <1>3, <2>3 DEF SettleBatch
  <2>4. PICK o \in Op : Completes(o)
    BY <2>1, <2>2, <2>3, RowSteps
  <2>5. OpAt(o) = r
    BY <1>3, <2>4 DEF Completes, TypeOK
  <2>6. net[o] = "executed"
    BY <2>4 DEF Completes, OpsFit, OpFits
  <2> QED BY <1>1, <2>5, <2>6 DEF Executed
<1> QED BY <1>2, <1>3

\* How the answer of a call comes about: it is kept while nothing happens to the
\* call, it is one that says nothing of the round, or it is what the row says.
AnswerMade(o) ==
  \/ call'[o].answer = "pending"
  \/ call'[o].answer = call[o].answer /\ (call[o].pc = "closing" => call'[o].pc = "closing")
  \/ /\ call'[o].pc = "closing" /\ call[o].pc # "idle"
     /\ \/ call'[o].answer \in {"ambiguous", "conflict"}
        \/ call'[o].answer = "completed" /\ row'[OpAt(o)].st = "completed"
        \/ call'[o].answer = "failed_retryable" /\ net[o] = "refused" /\ UNCHANGED net

LEMMA AnswerSteps ==
  ASSUME TypeOK, Fence, OpsFit, [Next]_vars, NEW o \in Op
  PROVE  AnswerMade(o)
<1> USE DEF wal, proc
<1>1. UNCHANGED call => AnswerMade(o)
  BY DEF AnswerMade
<1>2. ASSUME NEW p \in Op, Open(p) \/ Refuse(p) \/ Create(p) \/ Claim(p) \/ NotReady(p) \/ NoRequestId(p) \/ Mark(p)
      PROVE  AnswerMade(o)
  <2>1. \/ UNCHANGED call
        \/ \E pc, cas : Continue(p, pc, cas)
        \/ call[p].pc # "idle" /\ \E end, answer \in {"ambiguous", "conflict"} : Closing(p, end, answer)
    <3>1. CASE Open(p) \/ Refuse(p) \/ Create(p)
      BY <3>1 DEF Open, Refuse, Create, Serving
    <3>2. CASE Claim(p) \/ NotReady(p) \/ NoRequestId(p) \/ Mark(p)
      BY <3>2 DEF Claim, NotReady, NoRequestId, Mark, Serving
    <3> QED BY <1>2, <3>1, <3>2
  <2>2. CASE \E pc, cas : Continue(p, pc, cas)
    BY <2>2, ContinueWrites DEF AnswerMade
  <2>3. CASE call[p].pc # "idle" /\ \E end, answer \in {"ambiguous", "conflict"} : Closing(p, end, answer)
    BY <2>3, ClosingWrites DEF AnswerMade
  <2> QED BY <1>1, <2>1, <2>2, <2>3
<1>3. ASSUME NEW p \in Op, Close(p) PROVE AnswerMade(o)
  BY <1>3 DEF Close, NoCall, TypeOK, AnswerMade
<1>4. ASSUME NEW p \in Op, Send(p) PROVE AnswerMade(o)
  BY <1>4 DEF Send, TypeOK, Call, AnswerMade
<1>5. ASSUME NEW p \in Op, SettleAnswer(p) PROVE AnswerMade(o)
  <2>1. OpAt(p) \in Round /\ call[p].pc # "idle"
    BY <1>5, OnRound DEF Fence, SettleAnswer, BackFromWait
  <2>2. \/ \E end : Closing(p, end, "ambiguous")
        \/ /\ row' = [row EXCEPT ![OpAt(p)] = Completed(OpAt(p))]
           /\ Closing(p, "committed", "completed")
    BY <1>5 DEF SettleAnswer, WriteRow, Applied
  <2>3. CASE \E end : Closing(p, end, "ambiguous")
    BY <2>1, <2>3, ClosingWrites DEF AnswerMade
  <2>4. CASE row' = [row EXCEPT ![OpAt(p)] = Completed(OpAt(p))] /\ Closing(p, "committed", "completed")
    <3>1. row'[OpAt(p)].st = "completed"
      BY <2>1, <2>4 DEF Completed, Moved, TypeOK
    <3> QED BY <2>1, <2>4, <3>1, ClosingWrites DEF AnswerMade
  <2> QED BY <2>2, <2>3, <2>4
<1>6. ASSUME NEW p \in Op, SettleLoss(p) PROVE AnswerMade(o)
  <2>1. OpAt(p) \in Round /\ marker[OpAt(p)] = "dispatched" /\ call[p].pc = "waiting" /\ UNCHANGED net
    BY <1>6, OnRound DEF Fence, MarkerFences, Playing, SettleLoss, BackFromWait
  <2>2. \/ \E end : Closing(p, end, "ambiguous")
        \/ SettledState(p) # "ambiguous" /\ Closing(p, "committed", SettledState(p))
    BY <1>6 DEF SettleLoss
  <2>3. CASE \E end : Closing(p, end, "ambiguous")
    BY <2>1, <2>3, ClosingWrites DEF AnswerMade
  <2>4. CASE SettledState(p) # "ambiguous" /\ Closing(p, "committed", SettledState(p))
    <3>1. SettledState(p) = "failed_retryable" /\ heard[p] = "refused"
      BY <2>1, <2>4 DEF SettledState, LostState, RefusalProved
    <3>2. net[p] = "refused"
      BY <3>1 DEF Fence, HeardIsTrue
    <3> QED BY <2>1, <2>4, <3>1, <3>2, ClosingWrites DEF AnswerMade
  <2> QED BY <2>2, <2>3, <2>4
<1>7. ASSUME Crash PROVE AnswerMade(o)
  BY <1>7 DEF Crash, NoCall, AnswerMade
<1>8. ASSUME NEW p \in Op, ReplyOk(p) \/ ReplyStatus(p) \/ ReplyBroken(p) \/ TimeOut(p) \/ Replay(p)
                           \/ Accept(p) \/ TurnAway(p)
      PROVE  AnswerMade(o)
  BY <1>1, <1>8 DEF ReplyOk, ReplyStatus, ReplyBroken, TimeOut, Replay, Accept, TurnAway
<1>9. ASSUME \/ \E p \in Op, r \in Round : AskRun(p, r) \/ AskRetry(p, r)
             \/ \E r \in Round : Cancel(r) \/ Recover(r) \/ SettleBatch(r)
             \/ OwnerLoss \/ Boot \/ UNCHANGED vars
      PROVE  AnswerMade(o)
  BY <1>1, <1>9 DEF AskRun, AskRetry, Cancel, Recover, SettleBatch, OwnerLoss, Boot, vars
<1> QED BY <1>2, <1>3, <1>4, <1>5, <1>6, <1>7, <1>8, <1>9 DEF Next, Handler, Wait, Settle

\* How the answer of an operation comes about: from its call, or from its row.
LEMMA LogSteps ==
  ASSUME TypeOK, [Next]_vars, NEW o \in Op
  PROVE  \/ ops'[o].answer = ops[o].answer
         \/ ops'[o].answer = call[o].answer /\ call[o].pc = "closing" /\ call'[o].pc = "idle" /\ UNCHANGED <<net, row>>
         \/ /\ ops'[o].answer = ReplayEnd(OpAt(o))[2] /\ ReplayEnd(OpAt(o))[1] # "started"
            /\ queue = NoOp /\ ops[o].state = "started" /\ UNCHANGED <<net, row, call>>
<1> USE DEF wal, proc
<1>1. ASSUME NEW p \in Op, Open(p) PROVE ops'[o].answer = ops[o].answer
  BY <1>1 DEF Open, TypeOK, OpRow
<1>2. ASSUME NEW p \in Op, Close(p)
      PROVE  \/ ops'[o] = ops[o]
             \/ /\ ops'[o].answer = call[o].answer /\ call[o].pc = "closing" /\ call'[o].pc = "idle"
                /\ UNCHANGED <<net, row>>
  BY <1>2 DEF Close, Serving, NoCall, TypeOK
<1>3. ASSUME NEW p \in Op, Replay(p)
      PROVE  \/ ops'[o] = ops[o]
             \/ /\ ops'[o].answer = ReplayEnd(OpAt(o))[2] /\ ReplayEnd(OpAt(o))[1] # "started"
                /\ queue = NoOp /\ ops[o].state = "started" /\ UNCHANGED <<net, row, call>>
  BY <1>3 DEF Replay, TypeOK
<1>4. ASSUME NEW p \in Op, Refuse(p) \/ Create(p) \/ Claim(p) \/ NotReady(p) \/ NoRequestId(p) \/ Mark(p)
      PROVE  UNCHANGED ops
  BY <1>4 DEF Refuse, Create, Claim, NotReady, NoRequestId, Mark
<1>5. ASSUME NEW p \in Op, Wait(p) \/ Settle(p) \/ Accept(p) \/ TurnAway(p) PROVE UNCHANGED ops
  BY <1>5 DEF Wait, Send, ReplyOk, ReplyStatus, ReplyBroken, TimeOut, Settle, SettleAnswer, SettleLoss,
              Accept, TurnAway
<1>6. ASSUME \/ \E p \in Op, r \in Round : AskRun(p, r) \/ AskRetry(p, r)
             \/ \E r \in Round : Cancel(r) \/ Recover(r) \/ SettleBatch(r)
             \/ OwnerLoss \/ Crash \/ Boot \/ UNCHANGED vars
      PROVE  UNCHANGED ops
  BY <1>6 DEF AskRun, AskRetry, Cancel, Recover, SettleBatch, OwnerLoss, Crash, Boot, vars
<1> QED BY <1>1, <1>2, <1>3, <1>4, <1>5, <1>6 DEF Next, Handler

\* A call at rest, or whose operation is closed, stays out of its wait.
LEMMA RestSteps ==
  ASSUME TypeOK, OpsFit, [Next]_vars, NEW o \in Op, call[o].pc = "idle", ops[o].state # "none"
  PROVE  call'[o].pc = "idle"
<1> USE DEF wal, proc
<1>1. ASSUME NEW p \in Op, Open(p) PROVE call'[o] = call[o]
  BY <1>1, ContinueWrites DEF Open
<1>2. ASSUME NEW p \in Op, Refuse(p) \/ Create(p) \/ Claim(p) \/ NotReady(p) \/ NoRequestId(p) \/ Mark(p)
                           \/ Settle(p)
      PROVE  call'[o] = call[o]
  <2>1. call[p].pc # "idle"
    BY <1>2 DEF Refuse, Create, Claim, NotReady, NoRequestId, Mark, Settle, SettleAnswer, SettleLoss,
                BackFromWait, Serving
  <2>2. (\E pc, cas : Continue(p, pc, cas)) \/ (\E end, answer : Closing(p, end, answer))
    <3>1. CASE Refuse(p) \/ Create(p) \/ Claim(p)
      BY <3>1 DEF Refuse, Create, Claim
    <3>2. CASE NotReady(p) \/ NoRequestId(p) \/ Mark(p)
      BY <3>2 DEF NotReady, NoRequestId, Mark
    <3>3. CASE Settle(p)
      BY <3>3 DEF Settle, SettleAnswer, SettleLoss
    <3> QED BY <1>2, <3>1, <3>2, <3>3
  <2>3. \A q \in Op \ {p} : call'[q] = call[q]
    BY <2>2, ContinueWrites, ClosingWrites
  <2> QED BY <2>1, <2>3
<1>3. ASSUME NEW p \in Op, Close(p) \/ Send(p) PROVE call'[o] = call[o]
  BY <1>3 DEF Close, Send, Serving, TypeOK
<1>4. ASSUME NEW p \in Op, ReplyOk(p) \/ ReplyStatus(p) \/ ReplyBroken(p) \/ TimeOut(p) \/ Replay(p)
                           \/ Accept(p) \/ TurnAway(p)
      PROVE  UNCHANGED call
  BY <1>4 DEF ReplyOk, ReplyStatus, ReplyBroken, TimeOut, Replay, Accept, TurnAway
<1>5. ASSUME \/ \E p \in Op, r \in Round : AskRun(p, r) \/ AskRetry(p, r)
             \/ \E r \in Round : Cancel(r) \/ Recover(r) \/ SettleBatch(r)
             \/ OwnerLoss \/ Boot \/ UNCHANGED vars
      PROVE  UNCHANGED call
  BY <1>5 DEF AskRun, AskRetry, Cancel, Recover, SettleBatch, OwnerLoss, Boot, vars
<1>6. ASSUME Crash PROVE call'[o].pc = "idle"
  BY <1>6 DEF Crash, NoCall
<1> QED BY <1>1, <1>2, <1>3, <1>4, <1>5, <1>6 DEF Next, Handler, Wait

\* Every step keeps the answers true.
LEMMA AnswersStep ==
  ASSUME IInv, OpsFit, AnswersInv, [Next]_vars
  PROVE  AnswersInv'
<1>1. TypeOK /\ Asked /\ Fence /\ DispatchRelation
  BY DEF IInv, Fence
<1>2. ASSUME NEW o \in Op, call[o].pc # "idle" \/ ops[o].state # "none"
      PROVE  OpAt(o)' = OpAt(o) /\ OpAt(o) \in Round
  <2>1. req[o] # NoRequest /\ OpAt(o) \in Round
    BY <1>1, <1>2 DEF Asked, OpsFit, OpFits
  <2>2. req'[o] = req[o]
    BY <1>1, <2>1, AskSteps
  <2> QED BY <2>1, <2>2 DEF OpAt
<1>3. \A r \in Round : row[r].st = "completed" => row'[r].st = "completed"
  BY <1>1, SettledRowsStay DEF Settled
<1>4. ASSUME NEW o \in Op PROVE Truthful(o)'
  <2>1. Truthful(o) /\ OpFits(o)
    BY DEF AnswersInv, OpsFit
  <2>2. AnswerMade(o)
    BY <1>1, AnswerSteps
  <2>3. call'[o].answer # "pending" => call'[o].pc = "closing"
    BY <2>1, <2>2 DEF AnswerMade, Truthful
  <2>4. ASSUME call'[o].answer = "completed" PROVE (row[OpAt(o)].st = "completed")'
    <3>1. call[o].pc # "idle" /\ row'[OpAt(o)].st = "completed"
      BY <1>2, <1>3, <2>1, <2>2, <2>4 DEF AnswerMade, Truthful
    <3> QED BY <1>2, <3>1
  <2>5. ASSUME ops'[o].answer = "completed" PROVE (row[OpAt(o)].st = "completed")'
    <3>1. CASE ops'[o].answer = ops[o].answer
      BY <1>2, <1>3, <2>1, <2>5, <3>1 DEF Truthful, OpFits
    <3>2. CASE ops'[o].answer = call[o].answer /\ call[o].pc = "closing" /\ UNCHANGED row
      BY <1>2, <1>3, <2>1, <2>5, <3>2 DEF Truthful
    <3>3. CASE ops'[o].answer = ReplayEnd(OpAt(o))[2] /\ ops[o].state = "started" /\ UNCHANGED row
      <4>1. row[OpAt(o)].st = "completed"
        BY <2>5, <3>3 DEF ReplayEnd
      <4> QED BY <1>2, <3>3, <4>1
    <3> QED BY <1>1, <3>1, <3>2, <3>3, LogSteps
  <2>6. ASSUME call'[o].answer \in {"failed_retryable", "cancelled"} PROVE net'[o] \notin {"sent", "executed"}
    <3>1. CASE call'[o].answer = call[o].answer
      BY <1>1, <2>1, <2>6, <3>1, NetSteps DEF Truthful
    <3>2. CASE net[o] = "refused" /\ UNCHANGED net
      BY <3>2
    <3> QED BY <2>2, <2>6, <3>1, <3>2 DEF AnswerMade
  <2>7. ASSUME ops'[o].answer \in {"failed_retryable", "cancelled"}
        PROVE  call'[o].pc = "idle" /\ net'[o] \notin {"sent", "executed"}
    <3>1. CASE ops'[o].answer = ops[o].answer
      <4>1. call[o].pc = "idle" /\ net[o] \notin {"sent", "executed"} /\ ops[o].state # "none"
        BY <2>1, <2>7, <3>1 DEF Truthful, OpFits
      <4> QED BY <1>1, <4>1, NetSteps, RestSteps
    <3>2. CASE ops'[o].answer = call[o].answer /\ call'[o].pc = "idle" /\ UNCHANGED net
      BY <2>1, <2>7, <3>2 DEF Truthful
    <3>3. CASE /\ ops'[o].answer = ReplayEnd(OpAt(o))[2] /\ ops[o].state = "started"
               /\ queue = NoOp /\ UNCHANGED <<net, row, call>>
      <4>1. row[OpAt(o)].st = "failed_retryable" /\ OpAt(o) \in Round
        BY <1>2, <2>7, <3>3 DEF ReplayEnd
      <4>2. ~Playing(o)
        BY <1>1, <4>1 DEF Fence, MarkerFences, DispatchRelation
      <4>3. call[o].pc \in {"idle", "opened", "claimed", "closing"} /\ net[o] \notin {"sent", "executed"}
        BY <1>1, <4>2 DEF Playing, TypeOK, Call, PCs
      <4> QED BY <2>1, <3>3, <4>3, RoundAssumption DEF OpFits
    <3> QED BY <1>1, <3>1, <3>2, <3>3, LogSteps
  <2> QED BY <2>3, <2>4, <2>5, <2>6, <2>7 DEF Truthful
<1>5. ASSUME NEW r \in Round, row'[r].st = "completed" PROVE Executed(r)' # {}
  BY <1>1, <1>5, PaidStep
<1> QED BY <1>4, <1>5 DEF AnswersInv

-----------------------------------------------------------------------------
(***************************************************************************)
(* The inductive invariant behind AnsweredOnce, AnswersHold and            *)
(* BootSucceeds                                                            *)
(***************************************************************************)
AInv == IInv /\ OpsFit /\ Alternates /\ AnswersInv

LEMMA AnswersInductive == Spec => []AInv
<1>1. Init => AInv
  BY InitIInv, InitOpsFit, InitAlternates, InitAnswers DEF AInv
<1>2. AInv /\ [Next]_vars => AInv'
  BY TypeStep, FenceStep, RelationStep, OpsStep, AlternatesStep, AnswersStep DEF AInv, IInv, Fence
<1> QED BY <1>1, <1>2, PTL DEF Spec

\* An operation that was answered "completed" has a completed round, and one
\* that was answered "failed, retry it" or "cancelled" never reached the
\* provider, though the log is closed in a transaction of its own and a repeat
\* is answered from the row.
THEOREM AnswersStayTrue == Spec => []AnswersHold
<1>1. AInv => AnswersHold
  BY DEF AInv, AnswersInv, Truthful, AnswersHold
<1> QED BY AnswersInductive, <1>1, PTL

\* No process that starts finds a running round whose transcript has moved:
\* reconcileOwnerLossWithError never refuses what a crash left behind.
THEOREM EveryBootSucceeds == Spec => []BootSucceeds
<1>1. AInv => BootSucceeds
  BY DEF AInv, Alternates, BootSucceeds, Bound, Running
<1> QED BY AnswersInductive, <1>1, PTL

\* A round's answer is in the transcript once when its row is completed and
\* never otherwise, in the order of the rounds, and the provider did run it.
THEOREM OneAnswerPerRound == Spec => []AnsweredOnce
<1>1. ASSUME AInv PROVE AnsweredOnce
  <2>1. transcript \in Seq(Author) /\ Len(transcript) \in Nat
    BY <1>1 DEF AInv, IInv, TypeOK
  <2>2. ASSUME NEW i \in 1 .. Len(transcript)
        PROVE  /\ transcript[i] \in Author /\ transcript[i] = <<transcript[i][1], transcript[i][2]>>
               /\ transcript[i][1] \in {"assistant", "tools"} /\ transcript[i][2] \in Nat
               /\ 2 * transcript[i][2] = IF transcript[i][1] = "assistant" THEN i + 1 ELSE i
    <3>1. transcript[i] \in Author
      BY <2>1
    <3> QED BY <1>1, <3>1 DEF Author, Round, AInv, Alternates
  <2>3. ASSUME NEW r \in Round PROVE Written(r) = IF row[r].st = "completed" THEN 1 ELSE 0
    <3> DEFINE A == {i \in 1 .. Len(transcript) : transcript[i] = <<"assistant", r>>}
    <3>1. r \in Nat /\ r >= 1
      BY DEF Round
    <3>2. \A i \in A : i = 2 * r - 1
      BY <2>2, <3>1
    <3>3. 2 * r - 1 \in 1 .. Len(transcript) => 2 * r - 1 \in A
      <4> SUFFICES ASSUME 2 * r - 1 \in 1 .. Len(transcript) PROVE transcript[2 * r - 1] = <<"assistant", r>>
        OBVIOUS
      <4>1. transcript[2 * r - 1][1] = "assistant" /\ transcript[2 * r - 1][2] = r
        BY <2>2, <3>1
      <4> QED BY <2>2, <4>1
    <3>4. row[r].st = "completed" <=> 2 * r - 1 \in 1 .. Len(transcript)
      BY <1>1, <2>1, <3>1 DEF AInv, Alternates
    <3>5. Cardinality(A) = IF 2 * r - 1 \in 1 .. Len(transcript) THEN 1 ELSE 0
      <4>1. CASE 2 * r - 1 \in 1 .. Len(transcript)
        <5>1. A = {2 * r - 1}
          BY <3>2, <3>3, <4>1
        <5> QED BY <4>1, <5>1, FS_Singleton
      <4>2. CASE 2 * r - 1 \notin 1 .. Len(transcript)
        <5>1. A = {}
          BY <3>2, <4>2
        <5> QED BY <4>2, <5>1, FS_EmptySet
      <4> QED BY <4>1, <4>2
    <3> QED BY <3>4, <3>5 DEF Written
  <2>4. \A r \in Round : row[r].st = "completed" => Executed(r) # {}
    BY <1>1 DEF AInv, AnswersInv
  <2>5. ASSUME NEW i \in 1 .. Len(transcript), NEW j \in 1 .. Len(transcript), i < j
        PROVE  transcript[i][2] <= transcript[j][2]
    <3>1. transcript[i][2] \in Nat /\ 2 * transcript[i][2] \in {i, i + 1}
      BY <2>2
    <3>2. transcript[j][2] \in Nat /\ 2 * transcript[j][2] \in {j, j + 1}
      BY <2>2
    <3> QED BY <2>5, <3>1, <3>2
  <2> QED BY <2>3, <2>4, <2>5 DEF AnsweredOnce
<1> QED BY AnswersInductive, <1>1, PTL
=============================================================================
