------------------------ MODULE NodeActivationProofs ------------------------
(***************************************************************************)
(* Proofs about NodeActivation, for every number of nodes, every set of   *)
(* call slots and every bound on blocks and key lists.                    *)
(***************************************************************************)
EXTENDS NodeActivation, TLAPS

(***************************************************************************)
(* The nodes named by a key list that passed the validation loop of an    *)
(* endpoint are known node ids, all in the state the loop required.       *)
(***************************************************************************)
LEMMA KeysValidated ==
  ASSUME NEW keys \in KeyLists, NEW k, AllKnownIn(keys, k)
  PROVE  /\ ToSet(keys) \subseteq NodeIds
         /\ \A n \in ToSet(keys) : nodeState[n].kind = k
<1>1. PICK m \in 0..MaxKeys : keys \in [1..m -> Keys]
  BY DEF KeyLists, SeqOf
<1>2. \A i \in 1..m : keys[i] \in NodeIds /\ nodeState[keys[i]].kind = k
  BY <1>1 DEF AllKnownIn, Keys, NodeIds
<1>3. QED
  BY <1>1, <1>2 DEF ToSet

\* The node ids of an unjail_nodes call are known node ids.
LEMMA UnjailKeys ==
  ASSUME NEW keys \in KeyLists, \A i \in DOMAIN keys : keys[i] # 0
  PROVE  ToSet(keys) \subseteq NodeIds
<1>1. PICK m \in 0..MaxKeys : keys \in [1..m -> Keys]
  BY DEF KeyLists, SeqOf
<1>2. QED
  BY <1>1 DEF ToSet, Keys, NodeIds

\* Registering a call keeps `calls` well typed.
LEMMA IssueType ==
  ASSUME NEW call \in Calls, calls \in [Slots -> Calls], Issue(call)
  PROVE  calls' \in [Slots -> Calls]
BY DEF Issue

\* Every step keeps the state well typed.
LEMMA TypeStep == TypeOK /\ [Next]_vars => TypeOK'
<1>0. /\ Inactive \in NodeStates /\ PendingActivation \in NodeStates
      /\ Active \in NodeStates /\ PendingDeactivation \in NodeStates
      /\ \A b \in Blocks : UnBondPeriod(b) \in NodeStates /\ PendingUnBond(b) \in NodeStates
      /\ NoCall \in Calls
  <2>1. 0 \in Blocks
    BY MaxBlockAssumption DEF Blocks
  <2>2. QED
    BY <2>1 DEF Inactive, PendingActivation, Active, PendingDeactivation, UnBondPeriod,
               PendingUnBond, NodeStates, Kinds, NoCall, Calls
<1>2. TypeOK /\ [Next]_vars => TypeOK'
  <2> SUFFICES ASSUME TypeOK, [Next]_vars PROVE TypeOK'
    OBVIOUS
  <2> USE MaxBlockAssumption DEF TypeOK
  <2>0. /\ Inactive \in NodeStates /\ PendingActivation \in NodeStates
        /\ Active \in NodeStates /\ PendingDeactivation \in NodeStates
        /\ \A b \in Blocks : UnBondPeriod(b) \in NodeStates /\ PendingUnBond(b) \in NodeStates
        /\ NoCall \in Calls
    BY <1>0
  <2>1. ASSUME NEW keys \in KeyLists, stake_nodes(keys) PROVE TypeOK'
    BY <2>0, <2>1, KeysValidated, IssueType DEF stake_nodes, Calls, Endpoints
  <2>2. ASSUME NEW t \in BOOLEAN, NEW keys \in KeyLists, unstake_nodes(t, keys)
        PROVE TypeOK'
    BY <2>0, <2>2, KeysValidated, IssueType DEF unstake_nodes, Calls, Endpoints
  <2>3. ASSUME NEW keys \in KeyLists, unbond_specific_nodes(keys) PROVE TypeOK'
    BY <2>0, <2>3, KeysValidated, IssueType
    DEF unbond_specific_nodes, PrepareForUnbond, NodeStates, Calls, Endpoints
  <2>4. CASE unbond_all_possible_nodes
    BY <2>0, <2>4, IssueType
    DEF unbond_all_possible_nodes, PrepareForUnbond, NodeStates, Calls, Endpoints
  <2>5. CASE claim_unused_funds
    BY <2>0, <2>5, IssueType DEF claim_unused_funds, Calls, Endpoints
  <2>6. ASSUME NEW keys \in KeyLists, unjail_nodes(keys) PROVE TypeOK'
    BY <2>0, <2>6, UnjailKeys, IssueType DEF unjail_nodes, Calls, Endpoints
  <2>7. ASSUME NEW s \in Slots, Callback(s) PROVE TypeOK'
    <3>1. CASE auction_stake_callback(s)
      BY <2>0, <3>1 DEF auction_stake_callback, Calls
    <3>2. CASE auction_unstake_callback(s)
      BY <2>0, <3>2 DEF auction_unstake_callback, Calls
    <3>3. CASE auction_unbond_callback(s)
      <4>1. PICK ok \in SUBSET calls[s].nodes :
              IF \A n \in calls[s].nodes \ ok : nodeState[n].kind = "PendingUnBond"
              THEN nodeState' = [n \in NodeIds |->
                     CASE n \in ok -> Inactive
                       [] n \in calls[s].nodes \ ok -> UnBondPeriod(nodeState[n].started)
                       [] OTHER -> nodeState[n]]
              ELSE UNCHANGED nodeState
        BY <3>3 DEF auction_unbond_callback
      <4>2. \A n \in NodeIds : UnBondPeriod(nodeState[n].started) \in NodeStates
        BY <2>0 DEF NodeStates
      <4>3. nodeState' \in [NodeIds -> NodeStates]
        BY <2>0, <4>1, <4>2
      <4>4. QED
        BY <2>0, <3>3, <4>3 DEF auction_unbond_callback, Calls
    <3>4. CASE AuctionExecutes(s)
      BY <2>0, <3>4 DEF AuctionExecutes
    <3>5. QED
      BY <2>7, <3>1, <3>2, <3>3, <3>4 DEF Callback
  <2>8. CASE NewBlock
    BY <2>8 DEF NewBlock, Blocks
  <2>9. CASE ToggleGlobalOp
    BY <2>9 DEF ToggleGlobalOp
  <2>10. CASE EndBootstrap
    BY <2>10 DEF EndBootstrap
  <2>11. CASE UNCHANGED vars
    BY <2>11 DEF vars
  <2>12. QED
    BY <2>1, <2>2, <2>3, <2>4, <2>5, <2>6, <2>7, <2>8, <2>9, <2>10, <2>11
    DEF Next, Command
<1>3. QED
  BY <1>2

LEMMA InitStates ==
  /\ Inactive \in NodeStates
  /\ NoCall \in Calls
  /\ 0 \in Blocks
BY MaxBlockAssumption DEF Inactive, NodeStates, Kinds, NoCall, Calls, Blocks

(***************************************************************************)
(* Type correctness: every reachable state is well typed.                 *)
(***************************************************************************)
THEOREM TypeCorrect == Spec => []TypeOK
<1>1. Init => TypeOK
  BY InitStates DEF Init, TypeOK
<1>2. QED
  BY <1>1, TypeStep, PTL DEF Spec

-----------------------------------------------------------------------------
(***************************************************************************)
(* Exactly one pending flow per node.  PendingMatchesCall is inductive    *)
(* together with TypeOK.  The three lemmas below are the three ways a    *)
(* step can touch calls: register a call whose callback will resolve a   *)
(* batch of nodes, register a call with no callback, resolve a call.     *)
(***************************************************************************)
PendingKinds == {"PendingActivation", "PendingDeactivation", "PendingUnBond"}
CallbackEndpoints == {"stake", "unStake", "unStakeNodes", "unBondNodes"}

LEMMA PendingKindIsPending ==
  \A e \in CallbackEndpoints : PendingKind(e) \in PendingKinds
BY DEF PendingKind, CallbackEndpoints, PendingKinds

\* A command sets the nodes of S, none of them pending, to the Pending state
\* of endpoint e and registers the call.
LEMMA IssueCallbackCall ==
  ASSUME TypeOK, PendingMatchesCall,
         NEW S \in SUBSET NodeIds, NEW e \in CallbackEndpoints,
         \A n \in S : nodeState[n].kind \notin PendingKinds,
         \A n \in NodeIds \ S : nodeState'[n] = nodeState[n],
         \A n \in S : nodeState'[n].kind = PendingKind(e),
         Issue([endpoint |-> e, nodes |-> S])
  PROVE  PendingMatchesCall'
<1>1. PICK s0 \in Slots : /\ calls[s0] = NoCall
                          /\ calls' = [calls EXCEPT ![s0] = [endpoint |-> e, nodes |-> S]]
  BY DEF Issue
<1>2. CallbackSlots' = CallbackSlots \cup {s0}
  BY <1>1 DEF CallbackSlots, CallbackEndpoints, NoCall, TypeOK
<1>3. \A t \in CallbackSlots : t # s0 /\ calls'[t] = calls[t] /\ calls[t].nodes \cap S = {}
  BY <1>1, PendingKindIsPending
  DEF CallbackSlots, NoCall, PendingMatchesCall, CallNodesPending, CallbackEndpoints, TypeOK
<1>4. CallNodesPending'
  <2> SUFFICES ASSUME NEW t \in CallbackSlots', NEW n \in calls'[t].nodes
               PROVE  nodeState'[n].kind = PendingKind(calls'[t].endpoint)
    BY DEF CallNodesPending
  <2>1. CASE t = s0
    BY <1>1, <2>1 DEF TypeOK
  <2>2. CASE t # s0
    <3>1. t \in CallbackSlots /\ calls'[t] = calls[t] /\ n \notin S
      BY <1>2, <1>3, <2>2
    <3>2. n \in NodeIds
      BY <3>1 DEF TypeOK, Calls, CallbackSlots
    <3>3. QED
      BY <3>1, <3>2 DEF PendingMatchesCall, CallNodesPending
  <2>3. QED
    BY <2>1, <2>2
<1>5. CallsDisjoint'
  BY <1>1, <1>2, <1>3 DEF CallsDisjoint, PendingMatchesCall, TypeOK
<1>6. PendingHasCall'
  BY <1>1, <1>2, <1>3 DEF PendingHasCall, PendingMatchesCall, PendingKinds, TypeOK
<1>7. QED
  BY <1>4, <1>5, <1>6 DEF PendingMatchesCall

\* A command leaves node states alone and registers a call with no callback.
LEMMA IssuePlainCall ==
  ASSUME TypeOK, PendingMatchesCall, UNCHANGED nodeState,
         NEW call \in Calls, call.endpoint \in {"claim", "unJail"}, Issue(call)
  PROVE  PendingMatchesCall'
<1>1. PICK s0 \in Slots : /\ calls[s0] = NoCall
                          /\ calls' = [calls EXCEPT ![s0] = call]
  BY DEF Issue
<1>2. CallbackSlots' = CallbackSlots /\ \A t \in CallbackSlots : calls'[t] = calls[t]
  BY <1>1 DEF CallbackSlots, NoCall, TypeOK
<1>3. QED
  BY <1>2 DEF PendingMatchesCall, CallNodesPending, CallsDisjoint, PendingHasCall

\* A callback sets the nodes of its call to states that are not pending and
\* frees the call's slot.
LEMMA ResolveCall ==
  ASSUME TypeOK, PendingMatchesCall, NEW s \in CallbackSlots,
         \A n \in NodeIds \ calls[s].nodes : nodeState'[n] = nodeState[n],
         \A n \in calls[s].nodes : nodeState'[n].kind \notin PendingKinds,
         calls' = [calls EXCEPT ![s] = NoCall]
  PROVE  PendingMatchesCall'
<1>1. CallbackSlots' = CallbackSlots \ {s} /\ \A t \in CallbackSlots' : calls'[t] = calls[t]
  BY DEF CallbackSlots, NoCall, TypeOK
<1>2. \A t \in CallbackSlots \ {s} : calls[t].nodes \cap calls[s].nodes = {}
  BY DEF PendingMatchesCall, CallsDisjoint
<1>3. CallNodesPending'
  <2> SUFFICES ASSUME NEW t \in CallbackSlots', NEW n \in calls'[t].nodes
               PROVE  nodeState'[n].kind = PendingKind(calls'[t].endpoint)
    BY DEF CallNodesPending
  <2>1. t \in CallbackSlots \ {s} /\ calls'[t] = calls[t]
    BY <1>1
  <2>2. n \in NodeIds \ calls[s].nodes
    BY <1>2, <2>1 DEF TypeOK, Calls, CallbackSlots
  <2>3. QED
    BY <2>1, <2>2 DEF PendingMatchesCall, CallNodesPending
<1>4. CallsDisjoint'
  BY <1>1 DEF CallsDisjoint, PendingMatchesCall
<1>5. PendingHasCall'
  BY <1>1 DEF PendingHasCall, PendingMatchesCall, PendingKinds, TypeOK, Calls
<1>6. QED
  BY <1>3, <1>4, <1>5 DEF PendingMatchesCall

\* Inductive invariant behind PendingMatchesCall.
IInv == TypeOK /\ PendingMatchesCall

LEMMA PendingStep == IInv /\ [Next]_vars => PendingMatchesCall'
<1> SUFFICES ASSUME TypeOK, PendingMatchesCall, [Next]_vars
             PROVE  PendingMatchesCall'
  BY DEF IInv
<1>0. /\ "Inactive" \notin PendingKinds /\ "Active" \notin PendingKinds
      /\ "UnBondPeriod" \notin PendingKinds
  BY DEF PendingKinds
<1>1. ASSUME NEW keys \in KeyLists, stake_nodes(keys) PROVE PendingMatchesCall'
  <2>1. /\ ToSet(keys) \subseteq NodeIds
        /\ \A n \in ToSet(keys) : nodeState[n].kind = "Inactive"
    BY <1>1, KeysValidated DEF stake_nodes
  <2>2. QED
    BY <1>0, <1>1, <2>1, IssueCallbackCall
    DEF stake_nodes, CallbackEndpoints, PendingKind, PendingActivation
<1>2. ASSUME NEW t \in BOOLEAN, NEW keys \in KeyLists, unstake_nodes(t, keys)
      PROVE PendingMatchesCall'
  <2>1. /\ ToSet(keys) \subseteq NodeIds
        /\ \A n \in ToSet(keys) : nodeState[n].kind = "Active"
    BY <1>2, KeysValidated DEF unstake_nodes
  <2>2. CASE t
    BY <1>0, <1>2, <2>1, <2>2, IssueCallbackCall
    DEF unstake_nodes, CallbackEndpoints, PendingKind, PendingDeactivation
  <2>3. CASE ~t
    BY <1>0, <1>2, <2>1, <2>3, IssueCallbackCall
    DEF unstake_nodes, CallbackEndpoints, PendingKind, PendingDeactivation
  <2>4. QED
    BY <2>2, <2>3
<1>3. ASSUME NEW keys \in KeyLists, unbond_specific_nodes(keys) PROVE PendingMatchesCall'
  <2>1. /\ ToSet(keys) \subseteq NodeIds
        /\ \A n \in ToSet(keys) : nodeState[n].kind = "UnBondPeriod"
    BY <1>3, KeysValidated DEF unbond_specific_nodes
  <2>2. QED
    BY <1>0, <1>3, <2>1, IssueCallbackCall
    DEF unbond_specific_nodes, PrepareForUnbond, CallbackEndpoints, PendingKind, PendingUnBond
<1>4. CASE unbond_all_possible_nodes
  BY <1>0, <1>4, IssueCallbackCall
  DEF unbond_all_possible_nodes, PrepareForUnbond, CallbackEndpoints, PendingKind, PendingUnBond
<1>5. CASE claim_unused_funds
  BY <1>5, IssuePlainCall DEF claim_unused_funds, Calls, Endpoints
<1>6. ASSUME NEW keys \in KeyLists, unjail_nodes(keys) PROVE PendingMatchesCall'
  BY <1>6, UnjailKeys, IssuePlainCall DEF unjail_nodes, Calls, Endpoints
<1>7. ASSUME NEW s \in Slots, Callback(s) PROVE PendingMatchesCall'
  <2>1. CASE auction_stake_callback(s)
    <3>1. s \in CallbackSlots
      BY <2>1 DEF auction_stake_callback, CallbackSlots
    <3>2. PICK ok \in SUBSET calls[s].nodes :
                nodeState' = [n \in NodeIds |->
                                CASE n \in ok                  -> Active
                                  [] n \in calls[s].nodes \ ok -> Inactive
                                  [] OTHER                     -> nodeState[n]]
      BY <2>1 DEF auction_stake_callback
    <3>3. \A n \in calls[s].nodes : n \in NodeIds
      BY DEF TypeOK, Calls
    <3>4. QED
      BY <1>0, <2>1, <3>1, <3>2, <3>3, ResolveCall DEF auction_stake_callback, Active, Inactive
  <2>2. CASE auction_unstake_callback(s)
    <3>1. s \in CallbackSlots
      BY <2>2 DEF auction_unstake_callback, CallbackSlots
    <3>2. PICK ok \in SUBSET calls[s].nodes :
                nodeState' = [n \in NodeIds |->
                                CASE n \in ok                  -> UnBondPeriod(blockNonce)
                                  [] n \in calls[s].nodes \ ok -> Active
                                  [] OTHER                     -> nodeState[n]]
      BY <2>2 DEF auction_unstake_callback
    <3>3. \A n \in calls[s].nodes : n \in NodeIds
      BY DEF TypeOK, Calls
    <3>4. QED
      BY <1>0, <2>2, <3>1, <3>2, <3>3, ResolveCall DEF auction_unstake_callback, Active, UnBondPeriod
  <2>3. CASE auction_unbond_callback(s)
    <3>1. s \in CallbackSlots
      BY <2>3 DEF auction_unbond_callback, CallbackSlots
    \* The sc_error! branch is never taken: every node of the call is PendingUnBond.
    <3>2. \A n \in calls[s].nodes : nodeState[n].kind = "PendingUnBond"
      BY <2>3, <3>1 DEF auction_unbond_callback, PendingMatchesCall, CallNodesPending, PendingKind
    <3>3. PICK ok \in SUBSET calls[s].nodes :
                nodeState' = [n \in NodeIds |->
                                CASE n \in ok                  -> Inactive
                                  [] n \in calls[s].nodes \ ok -> UnBondPeriod(nodeState[n].started)
                                  [] OTHER                     -> nodeState[n]]
      BY <2>3, <3>2 DEF auction_unbond_callback
    <3>4. \A n \in calls[s].nodes : n \in NodeIds
      BY DEF TypeOK, Calls
    <3>5. calls' = [calls EXCEPT ![s] = NoCall]
      BY <2>3 DEF auction_unbond_callback
    <3>6. QED
      BY <1>0, <3>1, <3>3, <3>4, <3>5, ResolveCall DEF Inactive, UnBondPeriod
  <2>4. CASE AuctionExecutes(s)
    <3>1. CallbackSlots' = CallbackSlots /\ \A t \in CallbackSlots : calls'[t] = calls[t]
      BY <2>4 DEF AuctionExecutes, CallbackSlots, NoCall, TypeOK
    <3>2. QED
      BY <2>4, <3>1 DEF AuctionExecutes, PendingMatchesCall, CallNodesPending, CallsDisjoint,
                        PendingHasCall
  <2>5. QED
    BY <1>7, <2>1, <2>2, <2>3, <2>4 DEF Callback
<1>8. CASE NewBlock \/ ToggleGlobalOp \/ EndBootstrap \/ UNCHANGED vars
  <2>1. UNCHANGED <<nodeState, calls>>
    BY <1>8 DEF NewBlock, ToggleGlobalOp, EndBootstrap, vars
  <2>2. QED
    BY <2>1 DEF PendingMatchesCall, CallNodesPending, CallsDisjoint, PendingHasCall, CallbackSlots
<1>9. QED
  BY <1>1, <1>2, <1>3, <1>4, <1>5, <1>6, <1>7, <1>8 DEF Next, Command

(***************************************************************************)
(* Exactly one pending flow per node (PendingMatchesCall), in every       *)
(* behaviour and for every instance: a node is Pending iff exactly one    *)
(* outstanding call's callback will resolve it, into the Pending state   *)
(* that callback expects; so the callbacks' blind writes never clobber a *)
(* node another command has since moved, and the "node not pending       *)
(* unbond" error of auction_unbond_callback_fail can never fire.         *)
(***************************************************************************)
THEOREM PendingCorrespondence == Spec => []PendingMatchesCall
<1>1. Init => IInv
  <2>1. Init => TypeOK
    BY InitStates DEF Init, TypeOK
  <2>2. Init => PendingMatchesCall
    BY DEF Init, PendingMatchesCall, CallNodesPending, CallsDisjoint, PendingHasCall,
           CallbackSlots, NoCall, Inactive
  <2>3. QED
    BY <2>1, <2>2 DEF IInv
<1>2. IInv /\ [Next]_vars => IInv'
  BY TypeStep, PendingStep DEF IInv
<1>3. QED
  BY <1>1, <1>2, PTL DEF Spec, IInv

=============================================================================
