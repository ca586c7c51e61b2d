------------------------ MODULE FundTransformations ------------------------
(***************************************************************************)
(* The fund transformation engine, src/user-fund-storage/src/             *)
(* fund_transf_module.rs, over the fund ledger it is built on.            *)
(*                                                                         *)
(* The ledger holds, for every user, fund type and creation block, the    *)
(* amount of the user's funds of that description (FundDescription:       *)
(* Waiting, Active, UnStaked{created}, DeferredPayment{created},           *)
(* WithdrawOnly).  The ledger primitives of fund_module (create_fund,     *)
(* destroy_max_for_user, split_convert_max_by_user/by_type) are not under *)
(* src/ and are modelled from spec sections 4.1 and 4.3.                   *)
(*                                                                         *)
(* Each function of the engine is one action, taken by its caller with    *)
(* any arguments; one that returns sc_error! reverts, a stuttering step.  *)
(* Block nonces are u64 values, modelled at a width of Width bits.        *)
(***************************************************************************)
EXTENDS Integers, FiniteSets, Functions

CONSTANTS
  Users,               \* user ids
  MaxBlock,            \* last block nonce of a behaviour (model bound)
  Width,               \* bits of a block nonce (u64, scaled down)
  NBlocksBeforeClaim,  \* n_blocks_before_claim passed by the caller
  MaxFunds             \* most funds the users deposit at once (model bound)

ASSUME WidthAssumption == Width \in Nat /\ MaxBlock \in 0..(2^Width - 1)
ASSUME ClaimDelayAssumption == NBlocksBeforeClaim \in 0..(2^Width - 1)
ASSUME MaxFundsAssumption == MaxFunds \in Nat
\* User ids are u64 values: there are finitely many users.
ASSUME UsersAssumption == IsFiniteSet(Users)

VARIABLES
  funds,       \* amount held in each fund bucket
  blockNonce,  \* get_block_nonce()
  paidIn       \* per user: funds created minus funds reported destroyed

vars == <<funds, blockNonce, paidIn>>

FundTypes == {"Waiting", "Active", "UnStaked", "DeferredPayment", "WithdrawOnly"}
Blocks == 0..MaxBlock
Amounts == 0..MaxFunds
\* A bucket: owner, fund type and creation block (0 for the untagged types).
Buckets == Users \X FundTypes \X Blocks

OfUser(u, t) == {b \in Buckets : b[1] = u /\ b[2] = t}
OfType(t) == {b \in Buckets : b[2] = t}
Held(L, S) == SumFunctionOnSet(L, S)

-----------------------------------------------------------------------------
(* LEDGER PRIMITIVES (spec 4.1, 4.3) *)

\* The amount a max-bounded operation moves out of the buckets Src.
MaxMoved(L, amount, Src) == IF amount < Held(L, Src) THEN amount ELSE Held(L, Src)

\* The ways to take that amount out of the buckets of Src: they are
\* visited in storage order, which the spec leaves open.
Parts(L, amount, Src) ==
  {m \in [Src -> Amounts] : /\ \A c \in Src : m[c] <= L[c]
                            /\ SumFunction(m) = MaxMoved(L, amount, Src)}

\* split_convert: the parts m are moved, each into bucket to[source].
ConvertParts(L, m, to) ==
  [b \in Buckets |-> L[b] - (IF b \in DOMAIN m THEN m[b] ELSE 0)
                      + SumFunctionOnSet(m, {c \in DOMAIN m : to[c] = b})]

\* destroy_max_for_user: the parts m leave the ledger.
DestroyParts(L, m) ==
  [b \in Buckets |-> L[b] - (IF b \in DOMAIN m THEN m[b] ELSE 0)]

\* Conversion targets: same owner, new type, and creation block `created`
\* or the source bucket's own.
Into(t, created) == [c \in Buckets |-> <<c[1], t, created>>]
IntoKeep(t) == [c \in Buckets |-> <<c[1], t, c[3]>>]

-----------------------------------------------------------------------------
(* THE ENGINE *)

create_waiting(u, balance) ==
  /\ Held(funds, Buckets) + balance <= MaxFunds
  /\ funds' = [funds EXCEPT ![<<u, "Waiting", 0>>] = @ + balance]
  /\ paidIn' = [paidIn EXCEPT ![u] = @ + balance]
  /\ UNCHANGED blockNonce

\* Mutant: the amount is taken from Waiting without looking at what it holds.
liquidate_free_stake_unbounded(u, amount) ==
  /\ funds' = [funds EXCEPT ![<<u, "Waiting", 0>>] = @ - amount]
  /\ paidIn' = [paidIn EXCEPT ![u] = @ - amount]
  /\ UNCHANGED blockNonce

\* Mutant: the first destroy works on a copy of amount, so the caller's
\* amount is not reduced by it and the second destroy asks for all of it.
liquidate_free_stake_from_full(u, amount) ==
  \E m1 \in Parts(funds, amount, OfUser(u, "WithdrawOnly")) :
    LET L1 == DestroyParts(funds, m1) IN
    \E m2 \in Parts(L1, amount, OfUser(u, "Waiting")) :
      /\ funds' = DestroyParts(L1, m2)
      /\ paidIn' = [paidIn EXCEPT ![u] = @ - SumFunction(m2)]
      /\ UNCHANGED blockNonce

\* First from WithdrawOnly, then, if that is not enough, from Waiting; the
\* amount not found is left in `amount` for the caller.
liquidate_free_stake(u, amount) ==
  \E m1 \in Parts(funds, amount, OfUser(u, "WithdrawOnly")) :
    LET L1 == DestroyParts(funds, m1)
        rest == amount - SumFunction(m1)
    IN \E m2 \in Parts(L1, rest, OfUser(u, "Waiting")) :
         /\ funds' = DestroyParts(L1, m2)
         /\ paidIn' = [paidIn EXCEPT ![u] = @ - (amount - (rest - SumFunction(m2)))]
         /\ UNCHANGED blockNonce

\* sc_error! "cannot offer more than the user active stake" when the user's
\* Active funds do not cover the amount: the partial conversion is reverted.
unstake_transf(u, amount) ==
  /\ Held(funds, OfUser(u, "Active")) >= amount
  /\ \E m \in Parts(funds, amount, OfUser(u, "Active")) :
       funds' = ConvertParts(funds, m, Into("UnStaked", blockNonce))
  /\ UNCHANGED <<blockNonce, paidIn>>

\* The three swaps convert across all users and return what they could not
\* convert, without failing.
swap_waiting_to_active(amount) ==
  /\ \E m \in Parts(funds, amount, OfType("Waiting")) :
       funds' = ConvertParts(funds, m, Into("Active", 0))
  /\ UNCHANGED <<blockNonce, paidIn>>

swap_active_to_unstaked(amount) ==
  /\ \E m \in Parts(funds, amount, OfType("Active")) :
       funds' = ConvertParts(funds, m, Into("UnStaked", blockNonce))
  /\ UNCHANGED <<blockNonce, paidIn>>

swap_unstaked_to_deferred_payment(amount) ==
  /\ \E m \in Parts(funds, amount, OfType("UnStaked")) :
       funds' = ConvertParts(funds, m, IntoKeep("DeferredPayment"))
  /\ UNCHANGED <<blockNonce, paidIn>>

\* current_bl_nonce > created + n_blocks_before_claim, with the u64 sum
\* wrapping as it does in a release build.
ClaimDue(created) ==
  blockNonce > (created + NBlocksBeforeClaim) % (2^Width)

eligible_deferred_payment(u) ==
  Held(funds, {b \in OfUser(u, "DeferredPayment") : ClaimDue(b[3])})

\* split_convert_max_by_user with no bound: every due deferred payment of
\* the user becomes WithdrawOnly.
claim_all_eligible_deferred_payments(u) ==
  LET Due == {b \in OfUser(u, "DeferredPayment") : ClaimDue(b[3])} IN
  /\ funds' = ConvertParts(funds, [c \in Due |-> funds[c]], Into("WithdrawOnly", 0))
  /\ UNCHANGED <<blockNonce, paidIn>>

NewBlock ==
  /\ blockNonce < MaxBlock
  /\ blockNonce' = blockNonce + 1
  /\ UNCHANGED <<funds, paidIn>>

-----------------------------------------------------------------------------

Init ==
  /\ funds = [b \in Buckets |-> 0]
  /\ blockNonce = 0
  /\ paidIn = [u \in Users |-> 0]

Next ==
  \/ \E u \in Users, a \in 1..MaxFunds :
       \/ create_waiting(u, a)
       \/ liquidate_free_stake(u, a)
       \/ unstake_transf(u, a)
  \/ \E a \in 1..MaxFunds :
       \/ swap_waiting_to_active(a)
       \/ swap_active_to_unstaked(a)
       \/ swap_unstaked_to_deferred_payment(a)
  \/ \E u \in Users : claim_all_eligible_deferred_payments(u)
  \/ NewBlock

Spec == Init /\ [][Next]_vars

-----------------------------------------------------------------------------
(* PROPERTIES *)

TypeOK ==
  /\ funds \in [Buckets -> Amounts]
  /\ blockNonce \in Blocks
  /\ paidIn \in [Users -> Int]

(***************************************************************************)
(* Conservation (spec 3 and 7): the funds a user holds in the ledger, over *)
(* all types and blocks, are what the user paid in (create_waiting) minus  *)
(* what liquidate_free_stake reported as taken out.  Every conversion and *)
(* every swap across users only relabels funds.                           *)
(***************************************************************************)
FundsConserved ==
  \A u \in Users : Held(funds, {b \in Buckets : b[1] = u}) = paidIn[u]

(***************************************************************************)
(* A deferred payment leaves DeferredPayment only once it is due: more     *)
(* than n_blocks_before_claim blocks after the block it was unstaked in,   *)
(* counted without wrapping.                                               *)
(***************************************************************************)
ClaimNotEarly ==
  [][\A b \in OfType("DeferredPayment") :
       funds'[b] < funds[b] => blockNonce > b[3] + NBlocksBeforeClaim]_vars

=============================================================================
