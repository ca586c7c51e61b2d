------------------------- MODULE NodeActivationV04 -------------------------
(***************************************************************************)
(* The node activation state machine of the earlier contract variant,     *)
(* src/v0_4/src/node_activation.rs, together with the pool's stake        *)
(* ledger that it drives in lockstep with the node states.                 *)
(*                                                                         *)
(* As in NodeActivation, an endpoint or a callback is one transaction,    *)
(* and one that ends in sc_error! is reverted: a stuttering step for an    *)
(* endpoint; for a callback, a step that only consumes the call.           *)
(*                                                                         *)
(* The ledger transformations the code calls (activate_start_transf,      *)
(* unstake_finish_ok_transf, ...) are not under src/: they are modelled   *)
(* from the spec (section 4.3) as split_convert_max_by_type over buckets   *)
(* of pool stake, tagged with a stake state and a creation block.          *)
(***************************************************************************)
EXTENDS Naturals, FiniteSets, SequencesExt, Functions

CONSTANTS
  NumNodes,             \* node_config().get_num_nodes()
  Slots,                \* slots for outstanding asynchronous calls (model bound)
  MaxBlock,             \* last block nonce of a behaviour (model bound)
  MaxKeys,              \* longest BLS key list passed to an endpoint (model bound)
  StakePerNode,         \* node_config().get_stake_per_node()
  MaxStake,             \* most stake the users deposit (model bound)
  NBlocksBeforeUnbond   \* settings().get_n_blocks_before_unbond()

ASSUME NumNodesAssumption == NumNodes \in Nat
ASSUME MaxBlockAssumption == MaxBlock \in Nat
ASSUME MaxKeysAssumption == MaxKeys \in Nat
ASSUME StakeAssumption == StakePerNode \in Nat \ {0} /\ MaxStake \in Nat
ASSUME DelayAssumption == NBlocksBeforeUnbond \in Nat
\* Only finitely many asynchronous calls are outstanding at a time.
ASSUME SlotsAssumption == IsFiniteSet(Slots)

VARIABLES
  nodeState,     \* get_node_state(id), for the node ids and for id 0
  unstakeNonce,  \* get_node_bl_nonce_of_unstake(id)
  blockNonce,    \* get_block_nonce()
  stake,         \* amount of pool stake in each fund bucket
  calls          \* outstanding async calls to the auction contract

vars == <<nodeState, unstakeNonce, blockNonce, stake, calls>>

NodeIds == 1..NumNodes
\* get_node_id maps an unknown BLS key to 0, and nothing stops the code
\* from reading and writing the state stored under id 0.
StoredIds == 0..NumNodes
Keys == StoredIds
Blocks == 0..MaxBlock
Amounts == 0..MaxStake

NodeStates == {"Inactive", "PendingActivation", "Active", "ActivationFailed",
               "PendingDeactivation", "UnBondPeriod", "PendingUnBond"}
Pending == {"PendingActivation", "PendingDeactivation", "PendingUnBond"}

\* A fund bucket: the stake state of its funds and the block it was created
\* in (0 for the states whose funds carry no block).
Buckets == NodeStates \X Blocks

Endpoints == {"stake", "unStake", "unBond", "claim"}
NoCall == [endpoint |-> "none", nodes |-> {}]
Calls == [endpoint : Endpoints \cup {"none"}, nodes : SUBSET StoredIds]

-----------------------------------------------------------------------------
(* LEDGER (spec section 4.3) *)

Held(k, E) == {b \in Buckets : b[1] = k /\ b[2] \in E}
Available(L, k, E) == SumFunctionOnSet(L, Held(k, E))
\* What split_convert_max_by_type leaves in its max_amount argument.
Shortfall(L, amount, k, E) ==
  IF amount > Available(L, k, E) THEN amount - Available(L, k, E) ELSE 0

\* split_convert_max_by_type: moves up to `amount` out of the eligible
\* buckets of state k (created in a block of E), each moved part into
\* bucket to[source bucket].  The
\* buckets are scanned in storage order, which the spec leaves open: any
\* choice of parts that moves the maximum is a possible outcome.
Convert(L, amount, k, E, to) ==
  LET Src == Held(k, E)
      moved == amount - Shortfall(L, amount, k, E)
      Parts == {m \in [Src -> Amounts] :
                  /\ \A c \in Src : m[c] <= L[c]
                  /\ SumFunction(m) = moved}
  IN {[b \in Buckets |-> L[b] - (IF b \in Src THEN m[b] ELSE 0)
                           + SumFunctionOnSet(m, {c \in Src : to[c] = b})]
        : m \in Parts}

To0(k) == [c \in Buckets |-> <<k, 0>>]
KeepBlock(k) == [c \in Buckets |-> <<k, c[2]>>]
activate_start_transf(L, a) ==
  Convert(L, a, "Inactive", Blocks, To0("PendingActivation"))
activate_finish_ok_transf(L, a) ==
  Convert(L, a, "PendingActivation", Blocks, To0("Active"))
activate_finish_fail_transf(L, a) ==
  Convert(L, a, "PendingActivation", Blocks, To0("ActivationFailed"))
unstake_start_transf(L, a) ==
  Convert(L, a, "Active", Blocks, To0("PendingDeactivation"))
unstake_finish_ok_transf(L, a) ==
  Convert(L, a, "PendingDeactivation", Blocks, [c \in Buckets |-> <<"UnBondPeriod", blockNonce>>])
unstake_finish_fail_transf(L, a) ==
  Convert(L, a, "PendingDeactivation", Blocks, To0("Active"))
\* Only UnBondPeriod funds older than the unbond delay are eligible.
DueForUnbond == {created \in Blocks : blockNonce > created + NBlocksBeforeUnbond}
unbond_start_transf(L, a) ==
  Convert(L, a, "UnBondPeriod", DueForUnbond, KeepBlock("PendingUnBond"))
unbond_finish_ok_transf(L, a) ==
  Convert(L, a, "PendingUnBond", Blocks, To0("Inactive"))
unbond_finish_fail_transf(L, a) ==
  Convert(L, a, "PendingUnBond", Blocks, KeepBlock("UnBondPeriod"))
claim_activation_failed_transf(L, a) ==
  Convert(L, a, "ActivationFailed", Blocks, To0("Inactive"))

-----------------------------------------------------------------------------
(* NODES AND CALLS *)

\* Register an async call in a free slot.
Issue(call) ==
  \E s \in Slots : /\ calls[s] = NoCall
                   /\ calls' = [calls EXCEPT ![s] = call]

SetStates(S, k) == [n \in StoredIds |-> IF n \in S THEN k ELSE nodeState[n]]

\* The validation loops: every node, id 0 included, is in state k; a key
\* given twice meets the state its first occurrence set, and fails.
InState(keys, k) ==
  /\ \A i \in DOMAIN keys : nodeState[keys[i]] = k
  /\ IsInjective(keys)

Amount(ids) == Cardinality(ids) * StakePerNode

-----------------------------------------------------------------------------
(* STAKE *)

\* Mutant: the stake is taken from the free bucket without the conversion's
\* bound on what the bucket holds.
perform_stake_nodes_overdraw(ids) ==
  /\ stake' = [stake EXCEPT ![<<"Inactive", 0>>] = @ - Amount(ids),
                             ![<<"PendingActivation", 0>>] = @ + Amount(ids)]
  /\ Issue([endpoint |-> "stake", nodes |-> ids])

\* validate_owner_stake_share() may pass; what activate_start_transf could
\* not convert is ignored.
perform_stake_nodes(ids) ==
  /\ stake' \in activate_start_transf(stake, Amount(ids))
  /\ Issue([endpoint |-> "stake", nodes |-> ids])

stake_nodes(keys) ==
  /\ InState(keys, "Inactive")
  /\ nodeState' = SetStates(ToSet(keys), "PendingActivation")
  /\ perform_stake_nodes(ToSet(keys))
  /\ UNCHANGED <<unstakeNonce, blockNonce>>

\* The loop takes Inactive nodes in increasing id order while the inactive
\* stake left covers one more node.
stake_all_available ==
  LET q == Available(stake, "Inactive", Blocks) \div StakePerNode
      S == {n \in NodeIds :
              /\ nodeState[n] = "Inactive"
              /\ Cardinality({m \in 1..(n - 1) : nodeState[m] = "Inactive"}) < q}
  IN /\ S # {}
     /\ nodeState' = SetStates(S, "PendingActivation")
     /\ perform_stake_nodes(S)
     /\ UNCHANGED <<unstakeNonce, blockNonce>>

\* Mutant: the failed nodes are left in PendingActivation.
auction_stake_callback_keeps_pending(s) ==
  LET ids == calls[s].nodes IN
  /\ calls[s].endpoint = "stake"
  /\ \E ok \in SUBSET ids :
       /\ nodeState' = SetStates(ok, "Active")
       /\ \E mid \in activate_finish_ok_transf(stake, Amount(ok)) :
            stake' \in activate_finish_fail_transf(mid, Amount(ids \ ok))
  /\ calls' = [calls EXCEPT ![s] = NoCall]
  /\ UNCHANGED <<unstakeNonce, blockNonce>>

auction_stake_callback(s) ==
  LET ids == calls[s].nodes IN
  /\ calls[s].endpoint = "stake"
  /\ \E ok \in SUBSET ids :
       /\ nodeState' = [n \in StoredIds |->
                          CASE n \in ok       -> "Active"
                            [] n \in ids \ ok -> "ActivationFailed"
                            [] OTHER          -> nodeState[n]]
       /\ \E mid \in activate_finish_ok_transf(stake, Amount(ok)) :
            stake' \in activate_finish_fail_transf(mid, Amount(ids \ ok))
  /\ calls' = [calls EXCEPT ![s] = NoCall]
  /\ UNCHANGED <<unstakeNonce, blockNonce>>

-----------------------------------------------------------------------------
(* UNSTAKE *)

\* unstake_nodes resolves every key (0 for an unknown one) and calls
\* perform_unstake_nodes, whose loop requires Active; what
\* unstake_start_transf could not convert is ignored.
unstake_nodes(keys) ==
  /\ InState(keys, "Active")
  /\ nodeState' = SetStates(ToSet(keys), "PendingDeactivation")
  /\ stake' \in unstake_start_transf(stake, Len(keys) * StakePerNode)
  /\ Issue([endpoint |-> "unStake", nodes |-> ToSet(keys)])
  /\ UNCHANGED <<unstakeNonce, blockNonce>>

auction_unstake_callback(s) ==
  LET ids == calls[s].nodes IN
  /\ calls[s].endpoint = "unStake"
  /\ \E ok \in SUBSET ids :
       /\ nodeState' = [n \in StoredIds |->
                          CASE n \in ok       -> "UnBondPeriod"
                            [] n \in ids \ ok -> "Active"
                            [] OTHER          -> nodeState[n]]
       /\ unstakeNonce' = [n \in StoredIds |->
                             IF n \in ok THEN blockNonce ELSE unstakeNonce[n]]
       /\ \E mid \in unstake_finish_ok_transf(stake, Amount(ok)) :
            stake' \in unstake_finish_fail_transf(mid, Amount(ids \ ok))
  /\ calls' = [calls EXCEPT ![s] = NoCall]
  /\ UNCHANGED blockNonce

-----------------------------------------------------------------------------
(* UNBOND *)

\* Mutant: the "not enough stake in unbond period" check is dropped.
perform_unbond_unchecked(ids) ==
  /\ stake' \in unbond_start_transf(stake, Amount(ids))
  /\ Issue([endpoint |-> "unBond", nodes |-> ids])

\* Fails ("not enough stake in unbond period") unless the due UnBondPeriod
\* funds cover every node.
perform_unbond(ids) ==
  /\ Shortfall(stake, Amount(ids), "UnBondPeriod", DueForUnbond) = 0
  /\ stake' \in unbond_start_transf(stake, Amount(ids))
  /\ Issue([endpoint |-> "unBond", nodes |-> ids])

\* "too soon to unbond node" unless bl_nonce > nonce of unstake + delay.
unbond_nodes(keys) ==
  /\ InState(keys, "UnBondPeriod")
  /\ \A i \in DOMAIN keys :
       blockNonce > unstakeNonce[keys[i]] + NBlocksBeforeUnbond
  /\ nodeState' = SetStates(ToSet(keys), "PendingUnBond")
  /\ perform_unbond(ToSet(keys))
  /\ UNCHANGED <<unstakeNonce, blockNonce>>

\* Scans ids NumNodes..1 and takes the nodes with
\* bl_nonce >= nonce of unstake + delay.
unbond_all_available ==
  LET S == {n \in NodeIds :
              /\ nodeState[n] = "UnBondPeriod"
              /\ blockNonce >= unstakeNonce[n] + NBlocksBeforeUnbond}
  IN /\ S # {}
     /\ nodeState' = SetStates(S, "PendingUnBond")
     /\ perform_unbond(S)
     /\ UNCHANGED <<unstakeNonce, blockNonce>>

\* The ok part sets its nodes Inactive and then fails with sc_error! ("not
\* enough stake pending unbond") if the PendingUnBond funds fall short; the
\* whole callback is then reverted and only the call is consumed.
auction_unbond_callback(s) ==
  LET ids == calls[s].nodes IN
  /\ calls[s].endpoint = "unBond"
  /\ \E ok \in SUBSET ids :
       IF Shortfall(stake, Amount(ok), "PendingUnBond", Blocks) = 0
       THEN /\ nodeState' = [n \in StoredIds |->
                               CASE n \in ok       -> "Inactive"
                                 [] n \in ids \ ok -> "UnBondPeriod"
                                 [] OTHER          -> nodeState[n]]
            /\ unstakeNonce' = [n \in StoredIds |->
                                  IF n \in ok THEN 0 ELSE unstakeNonce[n]]
            /\ \E mid \in unbond_finish_ok_transf(stake, Amount(ok)) :
                 stake' \in unbond_finish_fail_transf(mid, Amount(ids \ ok))
       ELSE UNCHANGED <<nodeState, unstakeNonce, stake>>
  /\ calls' = [calls EXCEPT ![s] = NoCall]
  /\ UNCHANGED blockNonce

-----------------------------------------------------------------------------
(* CLAIM FAILED STAKE *)

\* Collects the ActivationFailed nodes among ids NumNodes..1; the nodes
\* keep their state until the callback.
claim_failed_stake ==
  LET S == {n \in NodeIds : nodeState[n] = "ActivationFailed"} IN
  /\ S # {}
  /\ Issue([endpoint |-> "claim", nodes |-> S])
  /\ UNCHANGED <<nodeState, unstakeNonce, blockNonce, stake>>

\* Ok: the nodes are set Inactive and their stake freed; Err: nothing.
auction_claim_callback(s) ==
  LET ids == calls[s].nodes IN
  /\ calls[s].endpoint = "claim"
  /\ \/ /\ nodeState' = SetStates(ids, "Inactive")
        /\ stake' \in claim_activation_failed_transf(stake, Amount(ids))
     \/ UNCHANGED <<nodeState, stake>>
  /\ calls' = [calls EXCEPT ![s] = NoCall]
  /\ UNCHANGED <<unstakeNonce, blockNonce>>

-----------------------------------------------------------------------------
(* ENVIRONMENT *)

NewBlock ==
  /\ blockNonce < MaxBlock
  /\ blockNonce' = blockNonce + 1
  /\ UNCHANGED <<nodeState, unstakeNonce, stake, calls>>

Free == <<"Inactive", 0>>
\* A delegator adds inactive stake, or withdraws some (user stake module).
Deposit ==
  /\ SumFunction(stake) < MaxStake
  /\ stake' = [stake EXCEPT ![Free] = @ + 1]
  /\ UNCHANGED <<nodeState, unstakeNonce, blockNonce, calls>>

Withdraw ==
  /\ stake[Free] > 0
  /\ stake' = [stake EXCEPT ![Free] = @ - 1]
  /\ UNCHANGED <<nodeState, unstakeNonce, blockNonce, calls>>

-----------------------------------------------------------------------------

KeyLists == SeqOf(Keys, MaxKeys)

\* Empty storage decodes as the first NodeState variant, Inactive; this
\* holds for id 0 too.
Init ==
  /\ nodeState = [n \in StoredIds |-> "Inactive"]
  /\ unstakeNonce = [n \in StoredIds |-> 0]
  /\ blockNonce = 0
  /\ stake = [b \in Buckets |-> 0]
  /\ calls = [s \in Slots |-> NoCall]

Command ==
  \/ \E keys \in KeyLists : stake_nodes(keys)
  \/ stake_all_available
  \/ \E keys \in KeyLists : unstake_nodes(keys)
  \/ \E keys \in KeyLists : unbond_nodes(keys)
  \/ unbond_all_available
  \/ claim_failed_stake

Callback(s) ==
  \/ auction_stake_callback(s)
  \/ auction_unstake_callback(s)
  \/ auction_unbond_callback(s)
  \/ auction_claim_callback(s)

Next ==
  \/ Command
  \/ \E s \in Slots : Callback(s)
  \/ NewBlock
  \/ Deposit
  \/ Withdraw

\* The chain delivers the result of every async call to its callback.
Fairness == \A s \in Slots : WF_vars(Callback(s))

Spec == Init /\ [][Next]_vars /\ Fairness

-----------------------------------------------------------------------------
(* PROPERTIES *)

TypeOK ==
  /\ nodeState \in [StoredIds -> NodeStates]
  /\ unstakeNonce \in [StoredIds -> Blocks]
  /\ blockNonce \in Blocks
  /\ stake \in [Buckets -> Amounts]
  /\ calls \in [Slots -> Calls]

NodesIn(k) == {n \in StoredIds : nodeState[n] = k}

(***************************************************************************)
(* The ledger backs every node waiting for its unbond: the PendingUnBond  *)
(* funds cover stake_per_node for each node in PendingUnBond.  This is    *)
(* what keeps the ok part of auction_unbond_callback from failing with    *)
(* "not enough stake pending unbond", which would revert the callback and *)
(* leave its nodes in PendingUnBond for good.                              *)
(***************************************************************************)
UnbondBacked ==
  Available(stake, "PendingUnBond", Blocks) >= Amount(NodesIn("PendingUnBond"))

(***************************************************************************)
(* The same for activation: the PendingActivation funds cover the nodes   *)
(* being staked (spec 4.2: stake moves "the matching stake amount from     *)
(* Waiting"; an unfunded stake is a precondition error, spec 7(b)).       *)
(***************************************************************************)
StakeBacked ==
  Available(stake, "PendingActivation", Blocks) >= Amount(NodesIn("PendingActivation"))

(***************************************************************************)
(* Id 0 means "unknown key" (spec 3): no endpoint ever moves it.           *)
(***************************************************************************)
UnknownKeyUntouched == nodeState[0] = "Inactive"

(***************************************************************************)
(* Exactly one pending flow per node: a node is Pending iff exactly one   *)
(* outstanding call will resolve it, the call whose callback expects that *)
(* Pending state (spec 4.2: "every Pending* state exists only while an     *)
(* asynchronous call is outstanding for that node").                       *)
(***************************************************************************)
PendingKind(endpoint) ==
  CASE endpoint = "stake"   -> "PendingActivation"
    [] endpoint = "unStake" -> "PendingDeactivation"
    [] endpoint = "unBond"  -> "PendingUnBond"
    [] OTHER                -> "none"

PendingMatchesCall ==
  /\ \A s \in Slots : \A n \in calls[s].nodes :
       calls[s].endpoint \in {"stake", "unStake", "unBond"} =>
         nodeState[n] = PendingKind(calls[s].endpoint)
  /\ \A n \in StoredIds : nodeState[n] \in Pending =>
       \E s \in Slots : n \in calls[s].nodes
                        /\ PendingKind(calls[s].endpoint) = nodeState[n]

(***************************************************************************)
(* A node enters PendingUnBond only once the unbond delay has passed:     *)
(* more than NBlocksBeforeUnbond blocks since its unstake (spec 4.2:       *)
(* "elapsed blocks since started exceed the configured unbond delay").    *)
(***************************************************************************)
UnbondAfterDelay ==
  [][\A n \in StoredIds :
       nodeState[n] = "UnBondPeriod" /\ nodeState'[n] = "PendingUnBond" =>
         blockNonce > unstakeNonce[n] + NBlocksBeforeUnbond]_vars

(***************************************************************************)
(* Every Pending state is transient: a node in one eventually leaves it.   *)
(***************************************************************************)
PendingResolves ==
  \A n \in StoredIds : nodeState[n] \in Pending ~> nodeState[n] \notin Pending

=============================================================================
