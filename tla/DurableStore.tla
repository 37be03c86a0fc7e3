---------------------------- MODULE DurableStore ----------------------------
(***************************************************************************)
(* What the agent's write-ahead log promises to the engine above it: a set *)
(* of effects that readers see, of which a part is on stable storage.  An  *)
(* effect is acknowledged only once it is on stable storage, and losing    *)
(* power takes away nothing but what was not there yet.  AgentWAL is shown *)
(* to implement this module.                                               *)
(***************************************************************************)
CONSTANT Txn            \* the effects a transaction can add

VARIABLES visible,      \* what a fresh read of the store returns
          stable,       \* what survives losing power
          promised      \* effects whose transaction was answered "committed"

vars == <<visible, stable, promised>>

Init == visible = {} /\ stable = {} /\ promised = {}

Apply == /\ \E X \in SUBSET Txn : visible' = visible \cup X
         /\ UNCHANGED <<stable, promised>>

Flush == stable' = visible /\ UNCHANGED <<visible, promised>>

Promise == /\ \E X \in SUBSET stable : promised' = promised \cup X
           /\ UNCHANGED <<visible, stable>>

PowerLoss == visible' = stable /\ UNCHANGED <<stable, promised>>

Next == Apply \/ Flush \/ Promise \/ PowerLoss

Spec == Init /\ [][Next]_vars

\* Nothing that was promised can be lost, whatever happens to the power.
Durable == promised \subseteq stable
=============================================================================
