# Formal models of the delegation contract (sc-delegation-rs)

This directory holds TLA+ models of the delegation smart contract in `src/`.
It also holds the TLC configurations that model-check them and the TLAPS
proofs about them. Parse a module with `tlasany M.tla`, model-check it with
`tlc -workers 2 -config X.cfg M`, and check its proofs with `tlapm M.tla`.

## 1. The system

The contract pools EGLD from delegators, stakes it on validator nodes
through the auction (staking) system contract, and lets the owner move
nodes through their lifecycle. The repository has two variants.

* `src/latest/src/node_activation.rs`: the node activation state machine of
  the current contract. Each node has a `NodeState`: `Inactive`,
  `PendingActivation`, `Active`, `PendingDeactivation`,
  `UnBondPeriod{started}` or `PendingUnBond{unbond_started}`. The owner
  endpoints are `stakeNodes`, `unStakeNodes`, `unStakeNodesAndTokens`,
  `unBondNodes`, `unBondAllPossibleNodes`, `claimUnusedFunds` and
  `unJailNodes`. Each of the first five moves its nodes to a Pending state
  and sends an asynchronous call to the auction contract. The call's
  callback (`auction_stake_callback`, `auction_unstake_callback` or
  `auction_unbond_callback`) later moves each node forward or back,
  depending on the auction's answer for that node.
* `src/v0_4/src/node_activation.rs`: an earlier variant of the same
  machine. It adds an `ActivationFailed` state and `claim_failed_stake`, and
  it drives a fund ledger in lockstep with every node transition.
* `src/user-fund-storage/src/fund_transf_module.rs`: the fund
  transformations the v0_4 variant calls. Funds live in buckets by type
  (Waiting, Active, UnStaked, DeferredPayment, WithdrawOnly, ...) and the
  transformations convert a maximal amount from one type to another.

How the parts interact, and what makes them hard to test:

* Every endpoint and every callback is one atomic transaction. An error
  (`require!`, `sc_error!`) reverts all of that transaction's writes. An
  asynchronous call and its callback are two separate transactions, and
  any number of other commands and callbacks may run between them.
* The auction answers one call for several nodes at once. Its answer may
  succeed for some nodes and fail for others (`split_node_ids_by_err`).
* The callbacks write node states blindly. They are correct only if no
  other transaction touched those nodes in the meantime.
* Every node endpoint except `unJailNodes` is paused while a checkpoint
  reset (`is_global_op_in_progress`) runs.

## 2. Modules

| Module | Models | Status |
|---|---|---|
| `NodeActivation` | `src/latest/src/node_activation.rs`: every endpoint and callback | modelled |
| `NodeLifecycle` | the abstract lifecycle a node goes through (what the machine promises) | abstract spec |
| `MC_NodeActivation` | the TLC instance: 3 nodes, 2 call slots, blocks 0..2, key lists of length at most 2 | model |
| `NodeActivationProofs` | the TLAPS proofs of type correctness and of `PendingMatchesCall` | proofs |
| `NodeActivationRefinement` | the TLAPS proofs that `NodeActivation` refines `NodeLifecycle` and keeps `UnbondClockKept` | proofs |
| `NodeActivationV04` | `src/v0_4/src/node_activation.rs`: every endpoint and callback, with the pool ledger it moves in lockstep | modelled |
| `MC_NodeActivationV04` | the TLC instance: one node plus the unknown id 0, 2 call slots, blocks 0..2, stake up to 2 | model |
| `FundTransformations` | `src/user-fund-storage/src/fund_transf_module.rs` over a per-user bucket ledger | modelled |
| `MC_FundTransformations` | the TLC instance: 2 users, funds up to 2, blocks 0..3, nonces 3 bits wide | model |
| `FundTransformationsProofs` | the TLAPS proofs of `ClaimNotEarly` when the claim test cannot wrap, and of `FundsConserved` | proofs |
| `LedgerSums` | lemmas about the ledger fold `SumFunctionOnSet`, proved by induction over finite sets | proofs |
| `NodeActivationV04Proofs` | the TLAPS proof of `UnbondBacked` and of the v0_4 type invariant | proofs |

### NodeActivation

The state variables are:

* `nodeState`: `get_node_state` for every node id.
* `blockNonce`: `get_block_nonce()`.
* `globalOpInProgress`: the checkpoint-reset flag.
* `bootstrapMode`: `is_bootstrap_mode()`.
* `calls`: the outstanding asynchronous calls, one per slot. A call is a
  record made of the auction endpoint called and the node ids passed to
  the callback as `#[callback_arg]`. A free slot holds `NoCall`.

Each endpoint is one action, with parameters chosen by `\E` over key lists
of length at most `MaxKeys`. Key 0 stands for an unknown BLS key, which
`get_node_id` maps to 0. The action's guard is the conjunction of the
endpoint's `require!`s and its early returns. A failing call changes no
state, so it is a stutter. Each callback is an action `Callback(s)` on
slot `s`, and the auction may answer with any subset `ok` of the call's
nodes. An `AsyncCallResult::Err` answer is the case `ok = {}`.

The failure path of `auction_unbond_callback` has an `sc_error!`
("node not pending unbond"). The model reverts the whole callback in that
case, as the chain does. The theorem `PendingCorrespondence` shows that
this branch is never taken.

The following are abstracted away:

* The fund checks of `stake_nodes` (`total_unprotected`,
  `validate_owner_stake_share`). In this variant they guard funds that the
  node machine does not move, so they are modelled as "may pass".
* Events and BLS signatures.

The environment is modelled by four actions:

* `AuctionExecutes` consumes the calls that register no callback (claim
  and unJail).
* `NewBlock` advances the block nonce up to `MaxBlock`.
* `ToggleGlobalOp` starts or ends a checkpoint reset.
* `EndBootstrap` ends bootstrap mode.

### NodeLifecycle and the refinement

`NodeLifecycle` says what the machine promises for each node. A node moves
only along these steps:

* Inactive to Active;
* Active to UnBondPeriod(b), where b is the current block;
* UnBondPeriod back to Inactive.

Several nodes may take a step at once, and the block nonce ticks
separately. `NodeActivation` implements it under the mapping `Before`.
`Before` shows a Pending node as the state it left, so a node's step
becomes visible only when its callback confirms it:

* PendingActivation maps to Inactive;
* PendingDeactivation maps to Active;
* PendingUnBond(b) maps to UnBondPeriod(b).

The refinement rules out several faults:

* a callback that moves a node backwards or off the lifecycle, such as a
  failed unstake that sets its node Inactive;
* a callback that moves a node two steps at once;
* an unbond that restarts the clock.

It does not rule out a failed callback that moves its node one step
forward: a failed stake set Active, a failed unstake set `UnBondPeriod`
at the current block, a failed unbond set Inactive. Such a move is the
same lifecycle step a confirmed node takes. The state does not record
which nodes the auction confirmed, so no property of the state can tell
the two apart.

### NodeActivationV04

The v0_4 machine has the states of the latest one plus `ActivationFailed`,
and every node transition comes with a transformation of the contract's
pool ledger (`fund_transf_module` of that variant, not under `src/`,
modelled from spec §4.3 and marked `spec_modelled`). The variables are
`nodeState`, `unstakeNonce` (the stored per-node unstake block),
`blockNonce`, `stake` and `calls`. `stake` maps each pool bucket
`<<state, created block>>` to its amount; a transformation moves up to an
amount out of the buckets of one state whose block lies in a set `E`, in any
split over those buckets (`Convert`), and returns the remainder, which the
code ignores in some places. The endpoints `stakeNodes`,
`stakeAllAvailable`, `unStakeNodes`, `unBondNodes`, `unBondAllAvailable`
and `claimFailedStake` are commands; the stake, unstake, unbond and claim
callbacks are `Callback(s)`. Unlike the latest variant, node id 0 (an
unknown BLS key) is a stored id, because the code reads and writes its
state. `Deposit` and `Withdraw` stand for the delegators' side of the
ledger, which creates and removes Inactive (free) stake.

### FundTransformations

The ledger maps `<<user, type, created block>>` to an amount. The
primitives of `fund_module` (not under `src/`, spec §4.1 and §4.3) are
`Parts` (the ways a max-bounded operation can take an amount out of a set
of buckets), `ConvertParts` and `DestroyParts`; `Held` is
`query_sum_funds_by_user_type`. Each function of the engine is one action
with its arguments chosen by `\E`: `create_waiting`,
`liquidate_free_stake` (first from WithdrawOnly, then the rest from
Waiting), `unstake_transf` (reverted by `sc_error!` unless the user's
Active funds cover the amount), the three `swap_*` conversions across all
users, and `claim_all_eligible_deferred_payments`. `ClaimDue` is the test
`current_bl_nonce > created + n_blocks_before_claim`, computed modulo
`2^Width` as a release build does with u64. The ghost variable `paidIn`
counts, per user, the funds created minus the funds `liquidate_free_stake`
reports as taken (the amount asked minus the amount left in `amount`).

## 3. Runs

| Run | cfg | Checks | Result |
|---|---|---|---|
| node_activation_safety | `MC_NodeActivation.cfg` | `TypeOK`, `PendingMatchesCall`, `UnbondClockKept`, `LifecycleRefined` | pass (about 110k distinct states) |
| node_activation_liveness | `MC_NodeActivation_live.cfg` | `PendingResolves` | pass |
| unjail_during_reset | `MC_NodeActivation_reset.cfg` | `NoCallDuringReset` | violation (finding) |
| v04_safety | `MC_NodeActivationV04.cfg` | `TypeOK`, `UnbondBacked` | pass (about 152k distinct states) |
| v04_liveness | `MC_NodeActivationV04_live.cfg` | `PendingResolves` | pass |
| v04_unfunded_stake | `MC_NodeActivationV04_unfunded.cfg` | `StakeBacked` | violation (finding) |
| v04_unknown_key | `MC_NodeActivationV04_unknown.cfg` | `UnknownKeyUntouched` | violation (finding) |
| v04_claim_retry | `MC_NodeActivationV04_claim.cfg` | `PendingMatchesCall` | violation (finding) |
| v04_unbond_boundary | `MC_NodeActivationV04_boundary.cfg` | `UnbondAfterDelay` | violation (finding) |
| fund_safety | `MC_FundTransformations.cfg` | `TypeOK`, `FundsConserved` | pass |
| fund_claim_wrap | `MC_FundTransformations_wrap.cfg` | `ClaimNotEarly` | violation (finding) |

* **`PendingMatchesCall`** says there is exactly one pending flow per node.
  A node is Pending if and only if it belongs to exactly one outstanding
  call with a callback, and its Pending state is the one that call's
  callback expects. This is what makes the blind writes of the callbacks
  correct. Any of these would violate it:
  * a missing state check;
  * a duplicate key in one call;
  * a second command that takes a node while it is still pending.
* **`UnbondClockKept`** is an action property. A node's unbond start block
  never changes while it stays in an unbond state, so a failed unbond goes
  back to `UnBondPeriod` with its original start block.
* **`LifecycleRefined`** is the refinement of `NodeLifecycle` described
  above.
* **`PendingResolves`** says that every Pending node eventually leaves its
  Pending state.
* **`NoCallDuringReset`** says that no new auction call is sent while a
  checkpoint reset is in progress. The spec says the global guard blocks
  all node operations during the reset. `unjail_nodes` never checks the
  guard, and TLC finds the two-step trace `ToggleGlobalOp`, then
  `unjail_nodes` with an empty key list, which passes its validation loop
  without an iteration. This is recorded as a spec/code divergence.


The v0_4 and fund runs:

* **`UnbondBacked`** says the pool holds, in PendingUnBond funds, at least
  the stake of the nodes that are PendingUnBond. `perform_unbond` moves
  UnBondPeriod funds only once they are past the delay, and the unbond
  callback converts them back or on; any path that lets the two drift apart
  breaks it.
* **`PendingResolves`** (v0_4) says every Pending node eventually leaves
  Pending, under the same fairness as the latest variant.
* **`StakeBacked`** says the PendingActivation funds cover the
  PendingActivation nodes. `perform_stake_nodes` ignores the remainder of
  its conversion (`v0_4/node_activation.rs:117`), so a stake of nodes with
  no Inactive funds goes through unfunded. TLC finds it in one step
  from the initial state: a `stake_nodes` on an empty ledger. On the chain
  the transfer to the auction is paid from the contract's EGLD balance,
  which the model does not track; the trace assumes the contract holds
  EGLD outside the ledger (for instance rewards).
* **`UnknownKeyUntouched`** says the node state of id 0 stays Inactive.
  `stake_nodes` maps an unknown key to 0 and never rejects it (line 58),
  so id 0 becomes PendingActivation.
* **`PendingMatchesCall`** (v0_4) is the one-flow-per-node property.
  `claim_failed_stake` leaves the nodes ActivationFailed while the claim is
  outstanding, so a second claim can be issued; one node is then claimed,
  restaked, and the late callback of the other claim sets the
  PendingActivation node Inactive (line 511).
* **`UnbondAfterDelay`** says a node moves to PendingUnBond only when
  `blockNonce > unstakeNonce + n_blocks_before_unbond`, as `unbond_nodes`
  requires. `unbond_all_available` selects with `>=` (line 389), and its
  ledger move is then paid from older UnBondPeriod funds.
* **`FundsConserved`** says each user's funds over all types and blocks
  equal what the user paid in minus what `liquidate_free_stake` reported
  taken. Conversions only relabel funds, including the swaps that run over
  all users at once.
* **`ClaimNotEarly`** is an action property. A DeferredPayment fund
  leaves its bucket only when more than `n_blocks_before_claim` blocks
  have passed since its created block, counted without wrapping. With a
  delay of 6 at a nonce width of 3 bits, the wrapped sum makes a payment
  claimable at once (line 125): on the chain this is a delay near
  `u64::MAX`. When the sum cannot wrap, only the claim empties a
  DeferredPayment bucket and the property restates the claim's guard, so
  `fund_safety` does not check it; the theorem `ClaimNotEarlyWithoutWrap`
  covers that case for every delay that cannot wrap.

**Bounds.** The `NodeActivation` instance has 3 nodes, 2 outstanding-call slots, key lists
of length at most 2, and blocks 0..2. These bounds are enough for the
cases that matter:

* Two calls can be outstanding at once, each with one or two nodes.
* A third node can be taken by a command while both calls wait.
* A key can repeat within one call, and an unknown key can appear.
* An unbond can start at one block and fail at a later one.


The v0_4 instance has one node plus id 0, because two nodes exceed what
TLC explores in minutes once the ledger is part of the state. Two stored
ids are still enough for the findings, which all involve two ids or two
calls: two slots, key lists of length 2 (with repeats and the unknown
key), stake per node 1 and at most 2 units of deposits, an unbond delay
of 1 with blocks 0..2 (before, at and past the delay). Its liveness run
uses a smaller instance (key lists of length 1, blocks 0..1, stake 1 and
a delay of 0) so that the unbond flow is reachable and TLC's liveness
check finishes. The fund instance has two users (for the cross-user
swaps), funds up to 2 (so that one user can hold two buckets),
blocks 0..3 and a claim delay of 1, so that a payment unstaked at block 0
is not due at block 1 and is due at block 2. Raising the funds to 3 takes
TLC over five minutes.

Symmetry over the slots is not used, because it is unsound with the
liveness run.

**Fairness.** Both node specs assume weak fairness of `Callback(s)` for
every slot. On the chain, the result of every asynchronous call is delivered to
its callback exactly once. No fairness is assumed for the commands or for
the environment, because the owner may never act. `FundTransformations`
is checked for safety only and assumes no fairness.

Each property of a passing run has a mutant in the module of its run: a
plausible bug in the mapped code that TLC catches under the run's cfg.
For the type invariant of `NodeActivation` the mutant drops the
`node_id != 0` check of the validation loops. An unknown key then reads
the default state of id 0, Inactive, and `stake_nodes` sends a call that
carries id 0. The mutants are listed
in `PROJECT.json`.

## 4. Proofs

`NodeActivationProofs` proves two theorems for every value of the
constants, with `NumNodes`, `MaxBlock` and `MaxKeys` in `Nat` and any set
`Slots`:

* `TypeCorrect`: `Spec => []TypeOK`.
* `PendingCorrespondence`: `Spec => []PendingMatchesCall`.

`PendingMatchesCall` is not inductive on its own: the step proofs need the
types of `calls` and `nodeState`. The inductive invariant is
`IInv == TypeOK /\ PendingMatchesCall`. The proof has three parts:

* `Init => IInv`.
* `IInv /\ [Next]_vars => IInv'`, with one step per action.
  * A command that issues a call sets exactly the call's nodes Pending,
    and they were not Pending before (lemmas `IssueCallbackCall` and
    `IssuePlainCall`).
  * A callback frees its slot and takes exactly that slot's nodes out of
    Pending (lemma `ResolveCall`).
* `IInv => PendingMatchesCall`.

Along the way the proof shows that the `sc_error!` branch of
`auction_unbond_callback` is unreachable. Every node of an unbond call is
`PendingUnBond` when the callback runs.

`NodeActivationRefinement` proves two more theorems for the same
constants:

* `Refinement`: `Spec => LifecycleRefined`. The mapping `LC` sends each
  node to `Before(nodeState[n])`, the state the node had before its
  pending call. The inductive invariant is
  `RInv == IInv /\ NoStartOutsideUnbond`. The extra conjunct says that a
  node outside `UnBondPeriod` and `PendingUnBond` has `started = 0`. It is
  needed because a typed node state must equal the record of its kind
  (lemma `StateShape`) before `Before` can be computed. The step proof has
  three cases:
  * a command moves its nodes into Pending, which `Before` maps back to
    where they were: a lifecycle stutter (`CommandStep`);
  * a callback moves the confirmed nodes one lifecycle step (`Activate`,
    `Deactivate` or `Unbond`) and returns the others (`CallbackStep`);
  * every other action leaves `LC` unchanged (`LifecycleStutter`).
* `UnbondClock`: `Spec => UnbondClockKept`. Lemma `ClockStepHolds` checks
  each action: only the unstake callbacks and the failed-unbond branch set
  a node to `UnBondPeriod`, and they set it with the current block or
  with the start block the node already had.

`FundTransformationsProofs` proves `ClaimNotEarlyWithoutWrap`:
`NoWrap => (Spec => ClaimNotEarly)`, for every set of users and every
bound. `NoWrap == MaxBlock + NBlocksBeforeClaim < 2^Width` says that the
claim test's sum `created + n_blocks_before_claim` cannot wrap. On the
chain this means any delay below `u64::MAX` minus the chain's height.
The run `fund_claim_wrap` shows that the property fails without it.
`MC_FundTransformations` satisfies it: 3 + 1 < 8.

* The ledger operations are folds (`SumFunctionOnSet`). The proof needs
  them only over an empty set and over one bucket. Lemmas `SumEmpty`
  and `SumSingleton` derive those two cases from the fold's definition,
  by exhibiting the function the fold chooses.
* The inductive invariant is `DPInv`: `funds` covers every bucket, the
  nonce is a block, and every deferred payment bucket holds a natural
  amount. The step property is `ClaimStep`, the body of `ClaimNotEarly`.
  * `StepNotClaim` covers every action except the swap into deferred
    payments and the claim. None of them reads or writes a deferred
    payment bucket, because no source is one and no target is one.
  * `StepSwapDP`: the swap only adds to each deferred payment bucket,
    from the single unstaked bucket of the same user and block.
  * `StepClaim`: the claim empties exactly the due buckets of the user.
    Without wrap, `ClaimDue(c)` is `blockNonce > c + n_blocks_before_claim`
    on unbounded integers (lemma `ClaimDueExact`).

### The ledger fold (`LedgerSums`)

Both ledgers total sets of buckets with the fold `SumFunctionOnSet` of
the community module `Functions`. The library's induction theorems take
an operator parameter, which no installed prover can instantiate.
`LedgerSums` therefore proves the fold's facts by induction in first-order
form.

* `MinimalSubset` states the induction principle. A nonempty family of
  subsets of a finite set has a minimal member; this follows from the
  well-foundedness of strict inclusion on finite sets.
* Each inductive lemma takes a minimal counterexample and removes one
  element, which gives a contradiction.

The lemmas used below:

* `SumExcept`, `SumUnion` and `SumCongruence`: the sum after changing one
  bucket, over a disjoint union, and over equal functions.
* `SumBound`: one bucket's amount is at most the total.
* `SumMove`: the total of any set of buckets after a conversion. This is
  the step `Convert` takes when it moves a part `m[c]` out of each source
  bucket `c` into bucket `to[c]`.
* `UnionCard`: stake per node times the size of a union of node sets is
  at most the sum of the sets' stakes.

### `FundsConserved` (`FundTransformationsProofs`)

`FundsConservedInvariant`: `Spec => [](TypeOK /\ FundsConserved)`. It
holds for every finite set of users (`UsersAssumption`) and every bound.

* `FundsConserved` alone is not inductive. A bucket stays within
  `Amounts` only because the whole ledger stays within `MaxFunds`, which
  `create_waiting` checks. The inductive invariant therefore is
  `FInv == TypeOK /\ FundsConserved /\ total <= MaxFunds`.
* A conversion or swap keeps every user's total, by `SumMove`. This holds
  even when the conversion moves funds across users.
* `create_waiting` adds to `paidIn` what it adds to the ledger.
* `liquidate_free_stake` subtracts from the ledger what it reports as
  taken.

### `UnbondBacked` (`NodeActivationV04Proofs`)

`UnbondBackedInvariant`: `Spec => [](TypeOK /\ UnbondBacked)`. It holds
for every number of nodes, every block bound and stake bound, every stake
per node and unbond delay, and every finite set of call slots
(`SlotsAssumption`).

`UnbondBacked` is not inductive. The ledger has no per-node buckets, so
nothing in a state ties a `PendingUnBond` node to the funds that back it.
The tie is the outstanding `unBond` call. The inductive invariant is
`VInv == TypeOK /\ LedgerBounded /\ UnbondCalled /\ OwedBacked`:

* `LedgerBounded`: the ledger's total stays within `MaxStake`, which keeps
  every bucket within `Amounts`.
* `UnbondCalled`: every `PendingUnBond` node belongs to an outstanding
  `unBond` call.
* `OwedBacked`: the `PendingUnBond` funds cover the sum over slots of
  `Owed[s]`. `Owed[s]` is `stake_per_node` times the size of the node set
  of an outstanding `unBond` call in slot `s`, and 0 for any other slot.

TLC checked `VInv` as an invariant of the v0_4 instance, and again with
two units of stake per node, before it was proved.

The step proof has one lemma per action:

* Commands and callbacks other than unbond, `NewBlock`, `Deposit` and
  `Withdraw` leave the `PendingUnBond` funds and the total unchanged
  (`KeepsUnbond`). They never add a `PendingUnBond` node and never add
  debt (`QuietStep`).
* `UnbondIssue` covers `unBondNodes` and `unBondAllAvailable`.
  `perform_unbond`'s "not enough stake in unbond period" guard makes the
  whole of `Amount(S)` move into `PendingUnBond`, and the new call owes
  exactly that.
* `UnbondCallbackStep` covers the unbond callback. The call owes
  `Amount(ids)`, at least `Amount(ok)`, so its `sc_error!` branch cannot be
  taken. The ok part leaves `PendingUnBond` whole and the rest leaves at
  most in part, while the debt drops by all of `Amount(ids)`.

Finally `VInvUnbondBacked` derives `UnbondBacked`:

* the `PendingUnBond` nodes lie in the union of the calls' node sets;
* that union's stake is at most the debt (`UnionCard`);
* the debt is at most the `PendingUnBond` funds.

### What stays with TLC

* Liveness (`PendingResolves` in both variants). It needs fairness and
  ENABLED, which the prover cannot handle.
* What a recursive definition computes for every input. This needs
  induction over data with an operator parameter.
* `StakeBacked`, `UnknownKeyUntouched`, `UnbondAfterDelay` and the v0_4
  `PendingMatchesCall`. These are violated, and the runs show how.

## 5. Not modelled, and the plan

Not modelled:

* Rewards, events, user data and settings other than bootstrap mode. They
  do not change node or call state in the latest variant.
* The auction contract's internals. It is the environment that answers
  calls.
* The funds of the latest variant. They are not moved by the node
  machine.
* The owner and caller checks of v0_4; a refused caller is a stutter.
* The vectors of affected users the swaps return, and the order in which
  the ledger stores buckets (any split of a moved amount is allowed).

Modelled from the spec, because the code is not under `src/`: the ledger
primitives of `fund_module` and the pool transformations v0_4 calls
(marked `spec_modelled` in `PROJECT.json`).

The plan, in order:

1. `NodeActivation`, `NodeLifecycle` and `NodeActivationProofs`. Done.
2. `NodeActivationV04` and `FundTransformations`, with the ledger
   primitives. Done, with the findings above.
3. Proofs: the refinement step of `NodeActivation` and `UnbondClockKept`;
   `ClaimNotEarly` when the nonce sum cannot wrap; `FundsConserved` and
   `UnbondBacked` over the fold lemmas of `LedgerSums`. Done.
4. Composition: `NodeActivationV04` driving `FundTransformations` per user
   rather than the pool buckets, and the v0_4 refinement of a lifecycle
   with `ActivationFailed`.
