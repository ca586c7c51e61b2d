---------------------- MODULE NodeActivationRefinement ----------------------
(***************************************************************************)
(* Proofs that the node activation state machine implements its abstract *)
(* lifecycle (LifecycleRefined) and never restarts the unbond clock        *)
(* (UnbondClockKept), for every number of nodes, every set of call slots  *)
(* and every bound on blocks and key lists.  Both rest on the invariant   *)
(* PendingMatchesCall of NodeActivationProofs: a callback finds each node *)
(* of its call in the Pending state it expects.                           *)
(***************************************************************************)
EXTENDS NodeActivationProofs

(***************************************************************************)
(* The variants of NodeState that carry no block nonce are stored with    *)
(* started = 0: the model writes only Inactive, PendingActivation, Active *)
(* and PendingDeactivation for them.  The refinement needs it, because    *)
(* Before maps a node to the abstract record of its kind.                 *)
(***************************************************************************)
NoStartOutsideUnbond ==
  \A n \in NodeIds :
    nodeState[n].kind \notin {"UnBondPeriod", "PendingUnBond"} => nodeState[n].started = 0

\* The inductive invariant of the refinement proof.
RInv == IInv /\ NoStartOutsideUnbond

\* The refinement mapping: each node as the lifecycle sees it.
LC == [n \in NodeIds |-> Before(nodeState[n])]

\* What Before makes of each node state.
LEMMA BeforeValues ==
  /\ Before(Inactive) = Inactive
  /\ Before(Active) = Active
  /\ Before(PendingActivation) = Inactive
  /\ Before(PendingDeactivation) = Active
  /\ \A b : Before(UnBondPeriod(b)) = UnBondPeriod(b)
  /\ \A b : Before(PendingUnBond(b)) = UnBondPeriod(b)
BY DEF Before, Inactive, Active, PendingActivation, PendingDeactivation,
       UnBondPeriod, PendingUnBond

\* A well-typed node state is the record of its kind.
LEMMA StateShape ==
  ASSUME TypeOK, NoStartOutsideUnbond, NEW n \in NodeIds
  PROVE  /\ nodeState[n].kind = "Inactive" => nodeState[n] = Inactive
         /\ nodeState[n].kind = "Active" => nodeState[n] = Active
         /\ nodeState[n].kind = "PendingActivation" => nodeState[n] = PendingActivation
         /\ nodeState[n].kind = "PendingDeactivation" => nodeState[n] = PendingDeactivation
         /\ nodeState[n].kind = "UnBondPeriod" => nodeState[n] = UnBondPeriod(nodeState[n].started)
         /\ nodeState[n].kind = "PendingUnBond" => nodeState[n] = PendingUnBond(nodeState[n].started)
<1>1. nodeState[n] \in NodeStates
  BY DEF TypeOK
<1>2. nodeState[n] = [kind |-> nodeState[n].kind, started |-> nodeState[n].started]
  BY <1>1 DEF NodeStates
<1>3. QED
  BY <1>2 DEF NoStartOutsideUnbond, Inactive, Active, PendingActivation,
              PendingDeactivation, UnBondPeriod, PendingUnBond

\* Every step keeps the nonce-free variants at started = 0.
LEMMA NoStartStep ==
  ASSUME TypeOK, NoStartOutsideUnbond, [Next]_vars
  PROVE  NoStartOutsideUnbond'
<1> USE DEF NoStartOutsideUnbond
<1>0. /\ Inactive.started = 0 /\ Active.started = 0
      /\ PendingActivation.started = 0 /\ PendingDeactivation.started = 0
      /\ \A b : UnBondPeriod(b).kind = "UnBondPeriod" /\ PendingUnBond(b).kind = "PendingUnBond"
  BY DEF Inactive, Active, PendingActivation, PendingDeactivation, UnBondPeriod, PendingUnBond
<1>1. ASSUME NEW keys \in KeyLists, stake_nodes(keys) PROVE NoStartOutsideUnbond'
  BY <1>0, <1>1 DEF stake_nodes
<1>2. ASSUME NEW t \in BOOLEAN, NEW keys \in KeyLists, unstake_nodes(t, keys)
      PROVE NoStartOutsideUnbond'
  BY <1>0, <1>2 DEF unstake_nodes
<1>3. ASSUME NEW keys \in KeyLists, unbond_specific_nodes(keys) PROVE NoStartOutsideUnbond'
  BY <1>0, <1>3 DEF unbond_specific_nodes, PrepareForUnbond
<1>4. CASE unbond_all_possible_nodes
  BY <1>0, <1>4 DEF unbond_all_possible_nodes, PrepareForUnbond
<1>5. ASSUME NEW s \in Slots, Callback(s) PROVE NoStartOutsideUnbond'
  <2>1. CASE auction_stake_callback(s)
    BY <1>0, <2>1 DEF auction_stake_callback
  <2>2. CASE auction_unstake_callback(s)
    BY <1>0, <2>2 DEF auction_unstake_callback
  <2>3. CASE auction_unbond_callback(s)
    BY <1>0, <2>3 DEF auction_unbond_callback
  <2>4. CASE AuctionExecutes(s)
    BY <2>4 DEF AuctionExecutes
  <2>5. QED
    BY <1>5, <2>1, <2>2, <2>3, <2>4 DEF Callback
<1>6. CASE UNCHANGED nodeState
  BY <1>6
<1>7. QED
  BY <1>1, <1>2, <1>3, <1>4, <1>5, <1>6
  DEF Next, Command, claim_unused_funds, unjail_nodes, NewBlock, ToggleGlobalOp,
      EndBootstrap, vars

\* A step that changes no node as the lifecycle sees it is a stutter of it.
LEMMA LifecycleStutter ==
  ASSUME blockNonce' = blockNonce,
         \A n \in NodeIds : Before(nodeState'[n]) = Before(nodeState[n])
  PROVE  [Lifecycle!Next]_<<LC, blockNonce>>
BY DEF LC

\* A command moves its nodes into the Pending state that Before maps back
\* to the state they had: the lifecycle does not see it.
LEMMA CommandStep ==
  ASSUME TypeOK, NoStartOutsideUnbond, Command
  PROVE  [Lifecycle!Next]_<<LC, blockNonce>>
<1> USE BeforeValues
<1>1. ASSUME NEW keys \in KeyLists, stake_nodes(keys) PROVE [Lifecycle!Next]_<<LC, blockNonce>>
  <2>1. /\ ToSet(keys) \subseteq NodeIds
        /\ \A n \in ToSet(keys) : nodeState[n] = Inactive
    BY <1>1, KeysValidated, StateShape DEF stake_nodes
  <2>2. QED
    BY <1>1, <2>1, LifecycleStutter DEF stake_nodes
<1>2. ASSUME NEW t \in BOOLEAN, NEW keys \in KeyLists, unstake_nodes(t, keys)
      PROVE [Lifecycle!Next]_<<LC, blockNonce>>
  <2>1. /\ ToSet(keys) \subseteq NodeIds
        /\ \A n \in ToSet(keys) : nodeState[n] = Active
    BY <1>2, KeysValidated, StateShape DEF unstake_nodes
  <2>2. QED
    BY <1>2, <2>1, LifecycleStutter DEF unstake_nodes
<1>3. ASSUME NEW S \in SUBSET NodeIds, \A n \in S : nodeState[n].kind = "UnBondPeriod",
             nodeState' = PrepareForUnbond(S), blockNonce' = blockNonce
      PROVE [Lifecycle!Next]_<<LC, blockNonce>>
  <2>1. \A n \in S : nodeState[n] = UnBondPeriod(nodeState[n].started)
    BY <1>3, StateShape
  <2>2. QED
    BY <1>3, <2>1, LifecycleStutter DEF PrepareForUnbond
<1>4. ASSUME NEW keys \in KeyLists, unbond_specific_nodes(keys)
      PROVE [Lifecycle!Next]_<<LC, blockNonce>>
  <2>1. /\ ToSet(keys) \subseteq NodeIds
        /\ \A n \in ToSet(keys) : nodeState[n].kind = "UnBondPeriod"
    BY <1>4, KeysValidated DEF unbond_specific_nodes
  <2>2. QED
    BY <1>3, <1>4, <2>1 DEF unbond_specific_nodes
<1>5. CASE unbond_all_possible_nodes
  BY <1>3, <1>5 DEF unbond_all_possible_nodes
<1>6. CASE claim_unused_funds \/ \E keys \in KeyLists : unjail_nodes(keys)
  BY <1>6, LifecycleStutter DEF claim_unused_funds, unjail_nodes
<1>7. QED
  BY <1>1, <1>2, <1>4, <1>5, <1>6 DEF Command

\* The nodes of a callback's call are known ids in the Pending state and
\* with the record that the callback expects.
LEMMA CallNodes ==
  ASSUME TypeOK, PendingMatchesCall, NoStartOutsideUnbond, NEW s \in CallbackSlots
  PROVE  /\ calls[s].nodes \subseteq NodeIds
         /\ \A n \in calls[s].nodes : nodeState[n].kind = PendingKind(calls[s].endpoint)
BY DEF TypeOK, Calls, PendingMatchesCall, CallNodesPending, CallbackSlots

\* A callback moves the nodes the auction confirmed one step along the
\* lifecycle and returns the others to the state they left.
LEMMA CallbackStep ==
  ASSUME TypeOK, PendingMatchesCall, NoStartOutsideUnbond, NEW s \in Slots, Callback(s)
  PROVE  [Lifecycle!Next]_<<LC, blockNonce>>
<1> USE BeforeValues
<1> DEFINE ids == calls[s].nodes
<1>1. CASE auction_stake_callback(s)
  <2>0. blockNonce' = blockNonce
    BY <1>1 DEF auction_stake_callback
  <2>1. s \in CallbackSlots
    BY <1>1 DEF auction_stake_callback, CallbackSlots
  <2>2. ids \subseteq NodeIds /\ \A n \in ids : nodeState[n] = PendingActivation
    BY <1>1, <2>1, CallNodes, StateShape DEF auction_stake_callback, PendingKind
  <2>3. PICK ok \in SUBSET ids :
          nodeState' = [n \in NodeIds |-> CASE n \in ok       -> Active
                                            [] n \in ids \ ok -> Inactive
                                            [] OTHER          -> nodeState[n]]
    BY <1>1 DEF auction_stake_callback
  <2>4. Lifecycle!Activate(ok)
    <3>1. \A n \in ok : LC[n].kind = "Inactive"
      BY <2>2 DEF LC, Inactive
    <3>2. LC' = [n \in NodeIds |-> IF n \in ok THEN Active ELSE LC[n]]
      BY <2>2, <2>3 DEF LC
    <3>3. QED
      BY <2>0, <3>1, <3>2 DEF Lifecycle!Activate, Lifecycle!Move,
                              Lifecycle!Active, Active, LC, Lifecycle!NodeIds, NodeIds
  <2>5. QED
    BY <2>2, <2>4 DEF Lifecycle!Next, Lifecycle!NodeIds, NodeIds
<1>2. CASE auction_unstake_callback(s)
  <2>0. blockNonce' = blockNonce
    BY <1>2 DEF auction_unstake_callback
  <2>1. s \in CallbackSlots
    BY <1>2 DEF auction_unstake_callback, CallbackSlots
  <2>2. ids \subseteq NodeIds /\ \A n \in ids : nodeState[n] = PendingDeactivation
    BY <1>2, <2>1, CallNodes, StateShape DEF auction_unstake_callback, PendingKind
  <2>3. PICK ok \in SUBSET ids :
          nodeState' = [n \in NodeIds |-> CASE n \in ok       -> UnBondPeriod(blockNonce)
                                            [] n \in ids \ ok -> Active
                                            [] OTHER          -> nodeState[n]]
    BY <1>2 DEF auction_unstake_callback
  <2>4. Lifecycle!Deactivate(ok)
    <3>1. \A n \in ok : LC[n].kind = "Active"
      BY <2>2 DEF LC, Active
    <3>2. LC' = [n \in NodeIds |-> IF n \in ok THEN UnBondPeriod(blockNonce) ELSE LC[n]]
      BY <2>2, <2>3 DEF LC
    <3>3. QED
      BY <2>0, <3>1, <3>2 DEF Lifecycle!Deactivate, Lifecycle!Move,
                              Lifecycle!UnBondPeriod, UnBondPeriod, LC, Lifecycle!NodeIds, NodeIds
  <2>5. QED
    BY <2>2, <2>4 DEF Lifecycle!Next, Lifecycle!NodeIds, NodeIds
<1>3. CASE auction_unbond_callback(s)
  <2>0. blockNonce' = blockNonce
    BY <1>3 DEF auction_unbond_callback
  <2>1. s \in CallbackSlots
    BY <1>3 DEF auction_unbond_callback, CallbackSlots
  <2>2. /\ ids \subseteq NodeIds
        /\ \A n \in ids : nodeState[n].kind = "PendingUnBond"
        /\ \A n \in ids : nodeState[n] = PendingUnBond(nodeState[n].started)
    BY <1>3, <2>1, CallNodes, StateShape DEF auction_unbond_callback, PendingKind
  <2>3. PICK ok \in SUBSET ids :
          nodeState' = [n \in NodeIds |-> CASE n \in ok       -> Inactive
                                            [] n \in ids \ ok -> UnBondPeriod(nodeState[n].started)
                                            [] OTHER          -> nodeState[n]]
    BY <1>3, <2>2 DEF auction_unbond_callback
  <2>4. Lifecycle!Unbond(ok)
    <3>1. \A n \in ok : LC[n].kind = "UnBondPeriod"
      BY <2>2 DEF LC, UnBondPeriod
    <3>2. LC' = [n \in NodeIds |-> IF n \in ok THEN Inactive ELSE LC[n]]
      BY <2>2, <2>3 DEF LC
    <3>3. QED
      BY <2>0, <3>1, <3>2 DEF Lifecycle!Unbond, Lifecycle!Move,
                              Lifecycle!Inactive, Inactive, LC, Lifecycle!NodeIds, NodeIds
  <2>5. QED
    BY <2>2, <2>4 DEF Lifecycle!Next, Lifecycle!NodeIds, NodeIds
<1>4. CASE AuctionExecutes(s)
  BY <1>4, LifecycleStutter DEF AuctionExecutes
<1>5. QED
  BY <1>1, <1>2, <1>3, <1>4 DEF Callback

\* RInv holds in every reachable state.
LEMMA RInvariant == Spec => []RInv
<1>1. Init => RInv
  <2>1. Init => IInv
    <3>1. Init => TypeOK
      BY InitStates DEF Init, TypeOK
    <3>2. Init => PendingMatchesCall
      BY DEF Init, PendingMatchesCall, CallNodesPending, CallsDisjoint, PendingHasCall,
             CallbackSlots, NoCall, Inactive
    <3>3. QED
      BY <3>1, <3>2 DEF IInv
  <2>2. Init => NoStartOutsideUnbond
    BY DEF Init, NoStartOutsideUnbond, Inactive
  <2>3. QED
    BY <2>1, <2>2 DEF RInv
<1>2. RInv /\ [Next]_vars => RInv'
  BY TypeStep, PendingStep, NoStartStep DEF RInv, IInv
<1>3. QED
  BY <1>1, <1>2, PTL DEF Spec

(***************************************************************************)
(* Refinement (LifecycleRefined): under the mapping Before, which shows a *)
(* Pending node as the state it left, every behaviour of the contract's   *)
(* node machine is a behaviour of NodeLifecycle.  Commands and failed     *)
(* confirmations are invisible to the lifecycle; stake, unstake and       *)
(* unbond callbacks move exactly the confirmed nodes one lifecycle step,  *)
(* the unstaked ones into UnBondPeriod at the current block.             *)
(***************************************************************************)
THEOREM Refinement == Spec => LifecycleRefined
<1>1. Init => Lifecycle!Init
  BY BeforeValues DEF Init, Lifecycle!Init, Inactive, Lifecycle!Inactive, NodeIds,
                      Lifecycle!NodeIds
<1>2. RInv /\ [Next]_vars => [Lifecycle!Next]_<<LC, blockNonce>>
  <2> SUFFICES ASSUME RInv, [Next]_vars PROVE [Lifecycle!Next]_<<LC, blockNonce>>
    OBVIOUS
  <2>1. TypeOK /\ PendingMatchesCall /\ NoStartOutsideUnbond
    BY DEF RInv, IInv
  <2>2. CASE Command
    BY <2>1, <2>2, CommandStep
  <2>3. CASE \E s \in Slots : Callback(s)
    BY <2>1, <2>3, CallbackStep
  <2>4. CASE NewBlock
    BY <2>4 DEF NewBlock, Lifecycle!Next, Lifecycle!Tick, LC
  <2>5. CASE ToggleGlobalOp \/ EndBootstrap \/ UNCHANGED vars
    BY <2>5, LifecycleStutter DEF ToggleGlobalOp, EndBootstrap, vars
  <2>6. QED
    BY <2>2, <2>3, <2>4, <2>5 DEF Next
<1>3. QED
  BY <1>1, <1>2, RInvariant, PTL DEF LifecycleRefined, Lifecycle!Spec, Spec, LC

-----------------------------------------------------------------------------
\* The step that UnbondClockKept requires of every transition.
ClockStep ==
  \A n \in NodeIds :
    nodeState'[n].kind = "UnBondPeriod" /\ nodeState'[n] # nodeState[n] =>
      \/ nodeState[n].kind = "PendingDeactivation" /\ nodeState'[n].started = blockNonce
      \/ nodeState[n] = PendingUnBond(nodeState'[n].started)

\* A step that sets no node to UnBondPeriod keeps the clock.
LEMMA NoNewUnbondPeriod ==
  ASSUME \A n \in NodeIds : nodeState'[n] = nodeState[n] \/ nodeState'[n].kind # "UnBondPeriod"
  PROVE  ClockStep
BY DEF ClockStep

LEMMA ClockStepHolds ==
  ASSUME RInv, [Next]_vars
  PROVE  ClockStep
<1>0. TypeOK /\ PendingMatchesCall /\ NoStartOutsideUnbond
  BY DEF RInv, IInv
<1>k. /\ Inactive.kind # "UnBondPeriod" /\ Active.kind # "UnBondPeriod"
      /\ PendingActivation.kind # "UnBondPeriod" /\ PendingDeactivation.kind # "UnBondPeriod"
      /\ \A b : PendingUnBond(b).kind # "UnBondPeriod"
      /\ \A b : UnBondPeriod(b).kind = "UnBondPeriod" /\ UnBondPeriod(b).started = b
  BY DEF Inactive, Active, PendingActivation, PendingDeactivation, PendingUnBond, UnBondPeriod
<1>1. CASE Command
  <2>1. ASSUME NEW keys \in KeyLists, stake_nodes(keys) PROVE ClockStep
    BY <1>k, <2>1, NoNewUnbondPeriod DEF stake_nodes
  <2>2. ASSUME NEW t \in BOOLEAN, NEW keys \in KeyLists, unstake_nodes(t, keys)
        PROVE ClockStep
    BY <1>k, <2>2, NoNewUnbondPeriod DEF unstake_nodes
  <2>3. ASSUME NEW keys \in KeyLists, unbond_specific_nodes(keys) PROVE ClockStep
    BY <1>k, <2>3, NoNewUnbondPeriod DEF unbond_specific_nodes, PrepareForUnbond
  <2>4. CASE unbond_all_possible_nodes
    BY <1>k, <2>4, NoNewUnbondPeriod DEF unbond_all_possible_nodes, PrepareForUnbond
  <2>5. CASE claim_unused_funds \/ \E keys \in KeyLists : unjail_nodes(keys)
    BY <2>5, NoNewUnbondPeriod DEF claim_unused_funds, unjail_nodes
  <2>6. QED
    BY <1>1, <2>1, <2>2, <2>3, <2>4, <2>5 DEF Command
<1>2. ASSUME NEW s \in Slots, Callback(s) PROVE ClockStep
  <2> DEFINE ids == calls[s].nodes
  <2>1. CASE auction_stake_callback(s)
    BY <1>k, <2>1, NoNewUnbondPeriod DEF auction_stake_callback
  <2>2. CASE auction_unstake_callback(s)
    <3>1. s \in CallbackSlots
      BY <2>2 DEF auction_unstake_callback, CallbackSlots
    <3>2. \A n \in ids : nodeState[n].kind = "PendingDeactivation"
      BY <1>0, <2>2, <3>1, CallNodes DEF auction_unstake_callback, PendingKind
    <3>3. PICK ok \in SUBSET ids :
            nodeState' = [n \in NodeIds |-> CASE n \in ok       -> UnBondPeriod(blockNonce)
                                              [] n \in ids \ ok -> Active
                                              [] OTHER          -> nodeState[n]]
      BY <2>2 DEF auction_unstake_callback
    <3>4. QED
      BY <1>k, <3>2, <3>3 DEF ClockStep
  <2>3. CASE auction_unbond_callback(s)
    <3>1. s \in CallbackSlots
      BY <2>3 DEF auction_unbond_callback, CallbackSlots
    <3>2. /\ ids \subseteq NodeIds
          /\ \A n \in ids : nodeState[n].kind = "PendingUnBond"
          /\ \A n \in ids : nodeState[n] = PendingUnBond(nodeState[n].started)
      BY <1>0, <2>3, <3>1, CallNodes, StateShape DEF auction_unbond_callback, PendingKind
    <3>3. PICK ok \in SUBSET ids :
            nodeState' = [n \in NodeIds |-> CASE n \in ok       -> Inactive
                                              [] n \in ids \ ok -> UnBondPeriod(nodeState[n].started)
                                              [] OTHER          -> nodeState[n]]
      BY <2>3, <3>2 DEF auction_unbond_callback
    <3>4. QED
      BY <1>k, <3>2, <3>3 DEF ClockStep
  <2>4. CASE AuctionExecutes(s)
    BY <2>4, NoNewUnbondPeriod DEF AuctionExecutes
  <2>5. QED
    BY <1>2, <2>1, <2>2, <2>3, <2>4 DEF Callback
<1>3. CASE NewBlock \/ ToggleGlobalOp \/ EndBootstrap \/ UNCHANGED vars
  BY <1>3, NoNewUnbondPeriod DEF NewBlock, ToggleGlobalOp, EndBootstrap, vars
<1>4. QED
  BY <1>1, <1>2, <1>3 DEF Next

(***************************************************************************)
(* The unbond clock is never restarted (UnbondClockKept): a node enters   *)
(* UnBondPeriod only from PendingDeactivation, at the block of the        *)
(* unstake callback, or from PendingUnBond with the start block it had,   *)
(* so a failed unbond never makes the owner wait the unbond period again. *)
(***************************************************************************)
THEOREM UnbondClock == Spec => UnbondClockKept
<1>1. RInv /\ [Next]_vars => [ClockStep]_vars
  BY ClockStepHolds
<1>2. QED
  BY <1>1, RInvariant, PTL DEF UnbondClockKept, ClockStep, Spec

=============================================================================
