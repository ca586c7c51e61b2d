--------------------------- MODULE NodeActivation ---------------------------
(***************************************************************************)
(* The node activation state machine of the delegation contract, as       *)
(* implemented in src/latest/src/node_activation.rs.                      *)
(*                                                                         *)
(* Every endpoint and every callback is one transaction: it runs to       *)
(* completion, and when it ends in an error (require!, sc_error!) all of  *)
(* its writes are reverted.  An action is therefore the net effect of a   *)
(* successful transaction; a failing one is a stuttering step.           *)
(*                                                                         *)
(* An endpoint that calls the auction contract registers an asynchronous  *)
(* call; its callback runs later, as a transaction of its own, in any     *)
(* order with respect to other calls' callbacks and new commands.  The    *)
(* outstanding calls live in `calls`, one per slot of Slots.              *)
(***************************************************************************)
EXTENDS Naturals, FiniteSets, SequencesExt

CONSTANTS
  NumNodes,   \* node_config().num_nodes(): node ids are 1..NumNodes
  Slots,      \* slots for outstanding asynchronous calls (model bound)
  MaxBlock,   \* last block nonce of a behaviour (model bound)
  MaxKeys     \* longest BLS key list passed to an endpoint (model bound)

ASSUME NumNodesAssumption == NumNodes \in Nat
ASSUME MaxBlockAssumption == MaxBlock \in Nat
ASSUME MaxKeysAssumption == MaxKeys \in Nat

VARIABLES
  nodeState,           \* node_config().get_node_state(id) for every node id
  blockNonce,          \* get_block_nonce()
  globalOpInProgress,  \* reset_checkpoints().is_global_op_in_progress()
  bootstrapMode,       \* settings().is_bootstrap_mode()
  calls                \* outstanding async calls to the auction contract

vars == <<nodeState, blockNonce, globalOpInProgress, bootstrapMode, calls>>

NodeIds == 1..NumNodes
\* get_node_id maps a BLS key to its node id, or to 0 for an unknown key;
\* a key is identified with the id it maps to.
Keys == 0..NumNodes
Blocks == 0..MaxBlock

(***************************************************************************)
(* NodeState.  The enum carries a block nonce in UnBondPeriod { started } *)
(* and PendingUnBond { unbond_started }; the other variants carry none,   *)
(* written here as started = 0.                                           *)
(***************************************************************************)
Inactive            == [kind |-> "Inactive",            started |-> 0]
PendingActivation   == [kind |-> "PendingActivation",   started |-> 0]
Active              == [kind |-> "Active",              started |-> 0]
PendingDeactivation == [kind |-> "PendingDeactivation", started |-> 0]
UnBondPeriod(b)     == [kind |-> "UnBondPeriod",        started |-> b]
PendingUnBond(b)    == [kind |-> "PendingUnBond",       started |-> b]

Kinds == {"Inactive", "PendingActivation", "Active", "PendingDeactivation",
          "UnBondPeriod", "PendingUnBond"}
NodeStates == [kind : Kinds, started : Blocks]

(***************************************************************************)
(* An async call: the auction endpoint called and the node ids passed to  *)
(* the callback as #[callback_arg] (for unJail, the ids of the keys sent). *)
(***************************************************************************)
Endpoints == {"stake", "unStake", "unStakeNodes", "unBondNodes", "claim", "unJail"}
NoCall == [endpoint |-> "none", nodes |-> {}]
Calls == [endpoint : Endpoints \cup {"none"}, nodes : SUBSET NodeIds]

\* Register an async call in a free slot.
Issue(call) ==
  \E s \in Slots : /\ calls[s] = NoCall
                   /\ calls' = [calls EXCEPT ![s] = call]

\* Mutant: the node_id != 0 check is dropped; an unknown key reads the
\* default storage of id 0, which decodes as Inactive.
AllKnownIn_unknown_allowed(keys, kind) ==
  /\ \A i \in DOMAIN keys :
       IF keys[i] = 0 THEN kind = "Inactive" ELSE nodeState[keys[i]].kind = kind
  /\ IsInjective(keys)

\* Every key is known and its node is in state `kind`.  The loops set each
\* node to a Pending state as they go, so a key given twice meets its own
\* Pending state on its second occurrence and the whole call fails.
AllKnownIn(keys, kind) ==
  /\ \A i \in DOMAIN keys : keys[i] # 0 /\ nodeState[keys[i]].kind = kind
  /\ IsInjective(keys)

-----------------------------------------------------------------------------
(* STAKE *)

stake_nodes(keys) ==
  /\ ~bootstrapMode
  /\ ~globalOpInProgress
  \* total_unprotected() >= amount_to_stake and validate_owner_stake_share()
  \* concern funds this module does not track: passing is one outcome.
  /\ AllKnownIn(keys, "Inactive")
  /\ nodeState' = [n \in NodeIds |->
                     IF n \in ToSet(keys) THEN PendingActivation ELSE nodeState[n]]
  /\ Issue([endpoint |-> "stake", nodes |-> ToSet(keys)])
  /\ UNCHANGED <<blockNonce, globalOpInProgress, bootstrapMode>>

\* Mutant: failed nodes are not reverted to Inactive.
auction_stake_callback_keeps_failed(s) ==
  LET ids == calls[s].nodes IN
  /\ calls[s].endpoint = "stake"
  /\ \E ok \in SUBSET ids :
       nodeState' = [n \in NodeIds |-> IF n \in ok THEN Active ELSE nodeState[n]]
  /\ calls' = [calls EXCEPT ![s] = NoCall]
  /\ UNCHANGED <<blockNonce, globalOpInProgress, bootstrapMode>>

\* split_node_ids_by_err partitions the ids into those the auction staked
\* (ok) and the rest; AsyncCallResult::Err fails them all, as ok = {} does.
auction_stake_callback(s) ==
  LET ids == calls[s].nodes IN
  /\ calls[s].endpoint = "stake"
  /\ \E ok \in SUBSET ids :
       nodeState' = [n \in NodeIds |->
                       CASE n \in ok       -> Active
                         [] n \in ids \ ok -> Inactive
                         [] OTHER          -> nodeState[n]]
  /\ calls' = [calls EXCEPT ![s] = NoCall]
  /\ UNCHANGED <<blockNonce, globalOpInProgress, bootstrapMode>>

-----------------------------------------------------------------------------
(* UNSTAKE *)

\* Mutant: the "node not active" check is dropped.
unstake_nodes_any_state(unstake_tokens, keys) ==
  /\ ~globalOpInProgress
  /\ \A i \in DOMAIN keys : keys[i] # 0
  /\ nodeState' = [n \in NodeIds |->
                     IF n \in ToSet(keys) THEN PendingDeactivation ELSE nodeState[n]]
  /\ Issue([endpoint |-> IF unstake_tokens THEN "unStake" ELSE "unStakeNodes",
            nodes |-> ToSet(keys)])
  /\ UNCHANGED <<blockNonce, globalOpInProgress, bootstrapMode>>

\* unstake_nodes followed by perform_unstake_nodes (both endpoints).
unstake_nodes(unstake_tokens, keys) ==
  /\ ~globalOpInProgress
  /\ AllKnownIn(keys, "Active")
  /\ nodeState' = [n \in NodeIds |->
                     IF n \in ToSet(keys) THEN PendingDeactivation ELSE nodeState[n]]
  /\ Issue([endpoint |-> IF unstake_tokens THEN "unStake" ELSE "unStakeNodes",
            nodes |-> ToSet(keys)])
  /\ UNCHANGED <<blockNonce, globalOpInProgress, bootstrapMode>>

\* Mutant: a failed unstake sets its nodes Inactive, as a failed stake does.
auction_unstake_callback_to_inactive(s) ==
  LET ids == calls[s].nodes IN
  /\ calls[s].endpoint \in {"unStake", "unStakeNodes"}
  /\ \E ok \in SUBSET ids :
       nodeState' = [n \in NodeIds |->
                       CASE n \in ok       -> UnBondPeriod(blockNonce)
                         [] n \in ids \ ok -> Inactive
                         [] OTHER          -> nodeState[n]]
  /\ calls' = [calls EXCEPT ![s] = NoCall]
  /\ UNCHANGED <<blockNonce, globalOpInProgress, bootstrapMode>>

auction_unstake_callback(s) ==
  LET ids == calls[s].nodes IN
  /\ calls[s].endpoint \in {"unStake", "unStakeNodes"}
  /\ \E ok \in SUBSET ids :
       nodeState' = [n \in NodeIds |->
                       CASE n \in ok       -> UnBondPeriod(blockNonce)
                         [] n \in ids \ ok -> Active
                         [] OTHER          -> nodeState[n]]
  /\ calls' = [calls EXCEPT ![s] = NoCall]
  /\ UNCHANGED <<blockNonce, globalOpInProgress, bootstrapMode>>

-----------------------------------------------------------------------------
(* UNBOND *)

\* prepare_node_for_unbond_if_possible, applied to the set S of nodes found
\* in UnBondPeriod: each keeps its start block inside PendingUnBond.
PrepareForUnbond(S) ==
  [n \in NodeIds |-> IF n \in S THEN PendingUnBond(nodeState[n].started)
                                ELSE nodeState[n]]

unbond_specific_nodes(keys) ==
  /\ ~globalOpInProgress
  /\ keys # <<>>
  /\ AllKnownIn(keys, "UnBondPeriod")
  /\ nodeState' = PrepareForUnbond(ToSet(keys))
  /\ Issue([endpoint |-> "unBondNodes", nodes |-> ToSet(keys)])
  /\ UNCHANGED <<blockNonce, globalOpInProgress, bootstrapMode>>

\* Scans every node id; with no node in UnBondPeriod it returns
\* OptionalResult::None and changes nothing (a stuttering step).
unbond_all_possible_nodes ==
  LET S == {n \in NodeIds : nodeState[n].kind = "UnBondPeriod"} IN
  /\ ~globalOpInProgress
  /\ S # {}
  /\ nodeState' = PrepareForUnbond(S)
  /\ Issue([endpoint |-> "unBondNodes", nodes |-> S])
  /\ UNCHANGED <<blockNonce, globalOpInProgress, bootstrapMode>>

\* Mutant: a failed unbond restarts the unbond period at the current block.
auction_unbond_callback_restart(s) ==
  LET ids == calls[s].nodes IN
  /\ calls[s].endpoint = "unBondNodes"
  /\ \E ok \in SUBSET ids :
       nodeState' = [n \in NodeIds |->
                       CASE n \in ok       -> Inactive
                         [] n \in ids \ ok -> UnBondPeriod(blockNonce)
                         [] OTHER          -> nodeState[n]]
  /\ calls' = [calls EXCEPT ![s] = NoCall]
  /\ UNCHANGED <<blockNonce, globalOpInProgress, bootstrapMode>>

\* auction_unbond_callback_fail restores UnBondPeriod { started } from
\* PendingUnBond { unbond_started }; meeting a node in any other state it
\* returns sc_error!, which reverts the whole callback, the ok part too.
auction_unbond_callback(s) ==
  LET ids == calls[s].nodes IN
  /\ calls[s].endpoint = "unBondNodes"
  /\ \E ok \in SUBSET ids :
       IF \A n \in ids \ ok : nodeState[n].kind = "PendingUnBond"
       THEN nodeState' = [n \in NodeIds |->
                            CASE n \in ok       -> Inactive
                              [] n \in ids \ ok -> UnBondPeriod(nodeState[n].started)
                              [] OTHER          -> nodeState[n]]
       ELSE UNCHANGED nodeState
  /\ calls' = [calls EXCEPT ![s] = NoCall]
  /\ UNCHANGED <<blockNonce, globalOpInProgress, bootstrapMode>>

-----------------------------------------------------------------------------
(* CLAIM AND UNJAIL: async calls without a callback *)

claim_unused_funds ==
  /\ ~globalOpInProgress
  /\ Issue([endpoint |-> "claim", nodes |-> {}])
  /\ UNCHANGED <<nodeState, blockNonce, globalOpInProgress, bootstrapMode>>

\* Validation only: keys may repeat, and the checkpoint-reset flag is not read.
unjail_nodes(keys) ==
  /\ \A i \in DOMAIN keys : keys[i] # 0 /\ nodeState[keys[i]] = Active
  /\ Issue([endpoint |-> "unJail", nodes |-> ToSet(keys)])
  /\ UNCHANGED <<nodeState, blockNonce, globalOpInProgress, bootstrapMode>>

-----------------------------------------------------------------------------
(* ENVIRONMENT *)

\* The auction contract executes a call that registered no callback.
AuctionExecutes(s) ==
  /\ calls[s].endpoint \in {"claim", "unJail"}
  /\ calls' = [calls EXCEPT ![s] = NoCall]
  /\ UNCHANGED <<nodeState, blockNonce, globalOpInProgress, bootstrapMode>>

NewBlock ==
  /\ blockNonce < MaxBlock
  /\ blockNonce' = blockNonce + 1
  /\ UNCHANGED <<nodeState, globalOpInProgress, bootstrapMode, calls>>

\* The checkpoint reset (reset_checkpoints module) starts or ends.
ToggleGlobalOp ==
  /\ globalOpInProgress' = ~globalOpInProgress
  /\ UNCHANGED <<nodeState, blockNonce, bootstrapMode, calls>>

EndBootstrap ==
  /\ bootstrapMode
  /\ bootstrapMode' = FALSE
  /\ UNCHANGED <<nodeState, blockNonce, globalOpInProgress, calls>>

-----------------------------------------------------------------------------

KeyLists == SeqOf(Keys, MaxKeys)

Init ==
  /\ nodeState = [n \in NodeIds |-> Inactive]
  /\ blockNonce = 0
  /\ globalOpInProgress = FALSE
  /\ bootstrapMode \in BOOLEAN
  /\ calls = [s \in Slots |-> NoCall]

Command ==
  \/ \E keys \in KeyLists : stake_nodes(keys)
  \/ \E t \in BOOLEAN, keys \in KeyLists : unstake_nodes(t, keys)
  \/ \E keys \in KeyLists : unbond_specific_nodes(keys)
  \/ unbond_all_possible_nodes
  \/ claim_unused_funds
  \/ \E keys \in KeyLists : unjail_nodes(keys)

Callback(s) ==
  \/ auction_stake_callback(s)
  \/ auction_unstake_callback(s)
  \/ auction_unbond_callback(s)
  \/ AuctionExecutes(s)

Next ==
  \/ Command
  \/ \E s \in Slots : Callback(s)
  \/ NewBlock
  \/ ToggleGlobalOp
  \/ EndBootstrap

\* The chain delivers the result of every async call to its callback.
Fairness == \A s \in Slots : WF_vars(Callback(s))

Spec == Init /\ [][Next]_vars /\ Fairness

-----------------------------------------------------------------------------
(* PROPERTIES *)

TypeOK ==
  /\ nodeState \in [NodeIds -> NodeStates]
  /\ blockNonce \in Blocks
  /\ globalOpInProgress \in BOOLEAN
  /\ bootstrapMode \in BOOLEAN
  /\ calls \in [Slots -> Calls]

\* The Pending state a node waits in while a call with this callback is out.
PendingKind(endpoint) ==
  CASE endpoint = "stake"                         -> "PendingActivation"
    [] endpoint \in {"unStake", "unStakeNodes"}  -> "PendingDeactivation"
    [] endpoint = "unBondNodes"                   -> "PendingUnBond"

CallbackSlots == {s \in Slots : calls[s].endpoint \in
                                  {"stake", "unStake", "unStakeNodes", "unBondNodes"}}

(***************************************************************************)
(* Exactly one pending flow per node.  A node is in a Pending state iff   *)
(* exactly one outstanding call will run a callback for it, and the       *)
(* Pending state is the one that call's callback expects.  The callbacks  *)
(* overwrite node states without looking at them (except the unbond      *)
(* failure path), so they are right only if no other command touched     *)
(* those nodes between the call and its callback.                         *)
(***************************************************************************)
CallNodesPending ==
  \A s \in CallbackSlots :
     \A n \in calls[s].nodes : nodeState[n].kind = PendingKind(calls[s].endpoint)
CallsDisjoint ==
  \A s, t \in CallbackSlots : s # t => calls[s].nodes \cap calls[t].nodes = {}
PendingHasCall ==
  \A n \in NodeIds :
     nodeState[n].kind \in {"PendingActivation", "PendingDeactivation", "PendingUnBond"}
       => \E s \in CallbackSlots : n \in calls[s].nodes
PendingMatchesCall == CallNodesPending /\ CallsDisjoint /\ PendingHasCall

(***************************************************************************)
(* The unbond clock is never restarted.  A node enters UnBondPeriod only  *)
(* from PendingDeactivation, with the current block as its start, or     *)
(* back from PendingUnBond with the start block it had before: a failed  *)
(* unbond must not make the owner wait the unbond period again.           *)
(***************************************************************************)
UnbondClockKept ==
  [][\A n \in NodeIds :
       nodeState'[n].kind = "UnBondPeriod" /\ nodeState'[n] # nodeState[n] =>
         \/ nodeState[n].kind = "PendingDeactivation" /\ nodeState'[n].started = blockNonce
         \/ nodeState[n] = PendingUnBond(nodeState'[n].started)]_vars

(***************************************************************************)
(* Every Pending state is transient: once the auction answers, the node   *)
(* leaves it.  No node is left waiting on a callback that will not come.  *)
(***************************************************************************)
PendingResolves ==
  \A n \in NodeIds :
    \A k \in {"PendingActivation", "PendingDeactivation", "PendingUnBond"} :
      nodeState[n].kind = k ~> nodeState[n].kind # k

(***************************************************************************)
(* Refinement: seen through the mapping that shows a Pending node in the  *)
(* state it had before its call (PendingUnBond keeping its start block),  *)
(* every step of the state machine is a step of NodeLifecycle or a        *)
(* stutter.  A confirming callback moves its batch along the lifecycle;  *)
(* a failing one returns each node to exactly the state it left.         *)
(***************************************************************************)
Before(st) ==
  CASE st.kind = "PendingActivation"   -> Inactive
    [] st.kind = "PendingDeactivation" -> Active
    [] st.kind = "PendingUnBond"       -> UnBondPeriod(st.started)
    [] OTHER                           -> st

Lifecycle == INSTANCE NodeLifecycle
               WITH lifecycle <- [n \in NodeIds |-> Before(nodeState[n])]

LifecycleRefined == Lifecycle!Spec

(***************************************************************************)
(* The checkpoint reset pauses node operations: while it is in progress   *)
(* no command sends a new call to the auction contract ("node operations *)
(* are temporarily paused as checkpoint is reset").  unjail_nodes does   *)
(* not read the flag.                                                     *)
(***************************************************************************)
NoCallDuringReset ==
  [][globalOpInProgress =>
       \A s \in Slots : calls[s] = NoCall => calls'[s] = NoCall]_vars

=============================================================================
