----------------------- MODULE FundTransformationsProofs -----------------------
(***************************************************************************)
(* Proofs about the fund transformation engine, for every set of users,   *)
(* every bound on blocks and funds and every nonce width.  The ledger     *)
(* operations are sums over sets (SumFunctionOnSet, a fold), reasoned     *)
(* about with the lemmas of LedgerSums.                                   *)
(***************************************************************************)
EXTENDS FundTransformations, LedgerSums, TLAPS

-----------------------------------------------------------------------------
(* THE LEDGER OPERATIONS ON A BUCKET *)

\* A part of a max-bounded move is a function from the source buckets to
\* amounts.
LEMMA PartsType ==
  ASSUME NEW L, NEW a, NEW Src, NEW m \in Parts(L, a, Src)
  PROVE  m \in [Src -> Amounts] /\ DOMAIN m = Src
BY DEF Parts

\* A conversion leaves a bucket alone when the bucket is not a source and
\* no source is converted into it.
LEMMA ConvertUntouched ==
  ASSUME NEW L, NEW m, NEW to, NEW b \in Buckets, L[b] \in Int,
         b \notin DOMAIN m, {c \in DOMAIN m : to[c] = b} = {}
  PROVE  ConvertParts(L, m, to)[b] = L[b]
<1>1. SumFunctionOnSet(m, {c \in DOMAIN m : to[c] = b}) = 0
  BY SumEmpty, Zenon
<1>2. QED
  BY <1>1 DEF ConvertParts

\* A bucket that is not a source and that exactly one source c0 is
\* converted into gains that source's part.
LEMMA ConvertInto ==
  ASSUME NEW L, NEW m, NEW to, NEW b \in Buckets, L[b] \in Int,
         b \notin DOMAIN m, NEW c0, m[c0] \in Int, {c \in DOMAIN m : to[c] = b} = {c0}
  PROVE  ConvertParts(L, m, to)[b] = L[b] + m[c0]
<1>1. SumFunctionOnSet(m, {c \in DOMAIN m : to[c] = b}) = m[c0]
  BY SumSingleton, Zenon
<1>2. QED
  BY <1>1 DEF ConvertParts

\* Destroying funds in other buckets leaves a bucket alone.
LEMMA DestroyUntouched ==
  ASSUME NEW L, NEW m, NEW b \in Buckets, L[b] \in Int, b \notin DOMAIN m
  PROVE  DestroyParts(L, m)[b] = L[b]
BY DEF DestroyParts

-----------------------------------------------------------------------------
(* NO DEFERRED PAYMENT IS CLAIMED EARLY *)

(***************************************************************************)
(* The claim test's sum created + n_blocks_before_claim cannot wrap: every *)
(* block of a behaviour plus the delay fits in the nonce's width.  On the *)
(* chain this is any delay below u64::MAX minus the chain's height.       *)
(***************************************************************************)
NoWrap == MaxBlock + NBlocksBeforeClaim < 2^Width

\* The inductive invariant: the ledger covers every bucket and every
\* deferred payment bucket holds a natural amount.
DPInv ==
  /\ DOMAIN funds = Buckets
  /\ blockNonce \in Blocks
  /\ \A b \in OfType("DeferredPayment") : funds[b] \in Nat

\* The step that ClaimNotEarly requires of every transition.
ClaimStep ==
  \A b \in OfType("DeferredPayment") :
    funds'[b] < funds[b] => blockNonce > b[3] + NBlocksBeforeClaim

\* A step in which no deferred payment bucket shrinks.
LEMMA NoShrink ==
  ASSUME DPInv, DOMAIN funds' = Buckets, blockNonce' \in Blocks,
         \A b \in OfType("DeferredPayment") : funds'[b] \in Nat /\ funds'[b] >= funds[b]
  PROVE  DPInv' /\ ClaimStep
BY DEF DPInv, ClaimStep

\* Without wrapping, ClaimDue is the test on unbounded integers.
LEMMA ClaimDueExact ==
  ASSUME NoWrap, blockNonce \in Blocks, NEW c \in Blocks, ClaimDue(c)
  PROVE  blockNonce > c + NBlocksBeforeClaim
<1>1. c + NBlocksBeforeClaim \in 0..(2^Width - 1)
  BY ClaimDelayAssumption, WidthAssumption DEF NoWrap, Blocks
<1>2. (c + NBlocksBeforeClaim) % (2^Width) = c + NBlocksBeforeClaim
  BY <1>1, WidthAssumption
<1>3. QED
  BY <1>2 DEF ClaimDue

\* The buckets of a user or of a type are buckets.
LEMMA BucketSets ==
  /\ \A u, t : OfUser(u, t) \subseteq Buckets
  /\ \A t : OfType(t) \subseteq Buckets
BY DEF OfUser, OfType

\* A step that leaves every deferred payment bucket as it was.
LEMMA SameDP ==
  ASSUME DPInv, DOMAIN funds' = Buckets, blockNonce' \in Blocks,
         \A b \in OfType("DeferredPayment") : funds'[b] = funds[b]
  PROVE  DPInv' /\ ClaimStep
BY DEF DPInv, ClaimStep

\* The conversions and destructions that never read or write a deferred
\* payment bucket.
LEMMA StepNotClaim ==
  ASSUME DPInv, Next, ~\E u \in Users : claim_all_eligible_deferred_payments(u),
         ~\E a \in 1..MaxFunds : swap_unstaked_to_deferred_payment(a)
  PROVE  DPInv' /\ ClaimStep
<1> DEFINE DP == OfType("DeferredPayment")
<1>0. \A b \in DP : b \in Buckets /\ b[2] = "DeferredPayment" /\ funds[b] \in Nat
  BY DEF OfType, DPInv
<1>1. ASSUME NEW u \in Users, NEW a \in 1..MaxFunds, create_waiting(u, a)
      PROVE DPInv' /\ ClaimStep
  <2>1. DOMAIN funds' = Buckets /\ blockNonce' \in Blocks
    BY <1>1 DEF create_waiting, DPInv
  <2>2. \A b \in DP : funds'[b] = funds[b]
    BY <1>0, <1>1 DEF create_waiting, DPInv
  <2>3. QED
    BY <2>1, <2>2, SameDP
<1>2. ASSUME NEW u \in Users, NEW a \in 1..MaxFunds, liquidate_free_stake(u, a)
      PROVE DPInv' /\ ClaimStep
  <2>1. PICK m1 \in Parts(funds, a, OfUser(u, "WithdrawOnly")) :
          \E m2 \in Parts(DestroyParts(funds, m1), a - SumFunction(m1), OfUser(u, "Waiting")) :
            funds' = DestroyParts(DestroyParts(funds, m1), m2) /\ UNCHANGED blockNonce
    BY <1>2 DEF liquidate_free_stake
  <2>2. PICK m2 \in Parts(DestroyParts(funds, m1), a - SumFunction(m1), OfUser(u, "Waiting")) :
            funds' = DestroyParts(DestroyParts(funds, m1), m2) /\ UNCHANGED blockNonce
    BY <2>1
  <2>3. DOMAIN m1 = OfUser(u, "WithdrawOnly") /\ DOMAIN m2 = OfUser(u, "Waiting")
    BY PartsType
  <2>4. \A b \in DP : b \notin DOMAIN m1 /\ b \notin DOMAIN m2
    BY <1>0, <2>3 DEF OfUser
  <2>5. \A b \in DP : DestroyParts(funds, m1)[b] = funds[b]
    BY <1>0, <2>4 DEF DestroyParts
  <2>6. \A b \in DP : funds'[b] = funds[b]
    BY <1>0, <2>2, <2>4, <2>5 DEF DestroyParts
  <2>7. DOMAIN funds' = Buckets /\ blockNonce' \in Blocks
    BY <2>2 DEF DestroyParts, DPInv
  <2>8. QED
    BY <2>6, <2>7, SameDP
<1>3. ASSUME NEW m, NEW t, NEW created, t # "DeferredPayment",
             DOMAIN m \subseteq Buckets, \A c \in DOMAIN m : c[2] # "DeferredPayment",
             funds' = ConvertParts(funds, m, Into(t, created)), blockNonce' = blockNonce
      PROVE DPInv' /\ ClaimStep
  <2>1. ASSUME NEW b \in DP PROVE funds'[b] = funds[b]
    <3>1. b \notin DOMAIN m
      BY <1>0, <1>3
    <3>2. \A c \in DOMAIN m : Into(t, created)[c] # b
      BY <1>0, <1>3 DEF Into
    <3>3. {c \in DOMAIN m : Into(t, created)[c] = b} = {}
      BY <3>2
    <3>4. QED
      BY <1>0, <1>3, <3>1, <3>3, ConvertUntouched
  <2>2. DOMAIN funds' = Buckets /\ blockNonce' \in Blocks
    BY <1>3 DEF ConvertParts, DPInv
  <2>3. QED
    BY <2>1, <2>2, SameDP
<1>4. ASSUME NEW u \in Users, NEW a \in 1..MaxFunds, unstake_transf(u, a)
      PROVE DPInv' /\ ClaimStep
  <2>1. PICK m \in Parts(funds, a, OfUser(u, "Active")) :
          funds' = ConvertParts(funds, m, Into("UnStaked", blockNonce))
    BY <1>4 DEF unstake_transf
  <2>2. DOMAIN m \subseteq Buckets /\ \A c \in DOMAIN m : c[2] # "DeferredPayment"
    BY PartsType DEF OfUser
  <2>3. QED
    BY <1>3, <1>4, <2>1, <2>2 DEF unstake_transf
<1>5. ASSUME NEW a \in 1..MaxFunds, swap_waiting_to_active(a) PROVE DPInv' /\ ClaimStep
  <2>1. PICK m \in Parts(funds, a, OfType("Waiting")) :
          funds' = ConvertParts(funds, m, Into("Active", 0))
    BY <1>5 DEF swap_waiting_to_active
  <2>2. DOMAIN m \subseteq Buckets /\ \A c \in DOMAIN m : c[2] # "DeferredPayment"
    BY PartsType DEF OfType
  <2>3. QED
    BY <1>3, <1>5, <2>1, <2>2 DEF swap_waiting_to_active
<1>6. ASSUME NEW a \in 1..MaxFunds, swap_active_to_unstaked(a) PROVE DPInv' /\ ClaimStep
  <2>1. PICK m \in Parts(funds, a, OfType("Active")) :
          funds' = ConvertParts(funds, m, Into("UnStaked", blockNonce))
    BY <1>6 DEF swap_active_to_unstaked
  <2>2. DOMAIN m \subseteq Buckets /\ \A c \in DOMAIN m : c[2] # "DeferredPayment"
    BY PartsType DEF OfType
  <2>3. QED
    BY <1>3, <1>6, <2>1, <2>2 DEF swap_active_to_unstaked
<1>7. CASE NewBlock
  <2>1. funds' = funds /\ blockNonce < MaxBlock /\ blockNonce' = blockNonce + 1
    BY <1>7 DEF NewBlock
  <2>2. MaxBlock \in Int /\ blockNonce \in 0..MaxBlock
    BY WidthAssumption DEF DPInv, Blocks
  <2>4. blockNonce' \in Blocks
    BY <2>1, <2>2 DEF Blocks
  <2>3. QED
    BY <2>1, <2>4, SameDP DEF DPInv
<1>8. QED
  BY <1>1, <1>2, <1>4, <1>5, <1>6, <1>7 DEF Next

\* A swap of unstaked funds into deferred payments only adds to the
\* deferred payment bucket of the same user and creation block.
LEMMA StepSwapDP ==
  ASSUME DPInv, NEW a \in 1..MaxFunds, swap_unstaked_to_deferred_payment(a)
  PROVE  DPInv' /\ ClaimStep
<1> DEFINE US == OfType("UnStaked")
           to == IntoKeep("DeferredPayment")
<1>1. PICK m \in Parts(funds, a, US) : funds' = ConvertParts(funds, m, to)
  BY DEF swap_unstaked_to_deferred_payment
<1>2. m \in [US -> Amounts] /\ DOMAIN m = US
  BY PartsType
<1>3. ASSUME NEW b \in OfType("DeferredPayment")
      PROVE  funds'[b] \in Nat /\ funds'[b] >= funds[b]
  <2> DEFINE c0 == <<b[1], "UnStaked", b[3]>>
  <2>1. b \in Buckets /\ b[2] = "DeferredPayment" /\ funds[b] \in Nat
    BY DEF OfType, DPInv
  <2>2. b = <<b[1], b[2], b[3]>> /\ b[1] \in Users /\ b[3] \in Blocks
    BY <2>1 DEF Buckets
  <2>3. c0 \in US
    BY <2>2 DEF OfType, Buckets, FundTypes
  <2>4. b \notin DOMAIN m
    BY <1>2, <2>1 DEF OfType
  <2>5. \A c \in US : c = <<c[1], "UnStaked", c[3]>> /\ to[c] = <<c[1], "DeferredPayment", c[3]>>
    BY DEF OfType, Buckets, IntoKeep
  <2>6. {c \in DOMAIN m : to[c] = b} = {c0}
    <3>1. to[c0] = b
      <4>1. to[c0] = <<b[1], "DeferredPayment", b[3]>>
        BY <2>3, <2>5
      <4>2. QED
        BY <4>1, <2>1, <2>2
    <3>2. ASSUME NEW c \in US, to[c] = b PROVE c = c0
      <4>1. c[1] = b[1] /\ c[3] = b[3]
        BY <3>2, <2>5
      <4>2. QED
        BY <4>1, <2>5
    <3>3. QED
      BY <1>2, <2>3, <3>1, <3>2
  <2>7. m[c0] \in Nat
    BY <1>2, <2>3, MaxFundsAssumption DEF Amounts
  <2>8. funds'[b] = funds[b] + m[c0]
    BY <1>1, <2>1, <2>4, <2>6, <2>7, ConvertInto
  <2>9. QED
    BY <2>1, <2>7, <2>8
<1>4. DOMAIN funds' = Buckets /\ blockNonce' \in Blocks
  BY <1>1 DEF ConvertParts, swap_unstaked_to_deferred_payment, DPInv
<1>5. QED
  BY <1>3, <1>4, NoShrink

\* A claim empties exactly the user's deferred payments that are due, and,
\* as long as the claim test cannot wrap, only those created more than
\* n_blocks_before_claim blocks ago.
LEMMA StepClaim ==
  ASSUME NoWrap, DPInv, NEW u \in Users, claim_all_eligible_deferred_payments(u)
  PROVE  DPInv' /\ ClaimStep
<1> DEFINE Due == {b \in OfUser(u, "DeferredPayment") : ClaimDue(b[3])}
           m == [c \in Due |-> funds[c]]
           to == Into("WithdrawOnly", 0)
<1>1. funds' = ConvertParts(funds, m, to) /\ blockNonce' = blockNonce
  BY DEF claim_all_eligible_deferred_payments
<1>2. DOMAIN m = Due /\ Due \subseteq Buckets
  BY DEF OfUser
<1>3. ASSUME NEW b \in OfType("DeferredPayment")
      PROVE  /\ funds'[b] \in Nat
             /\ funds'[b] < funds[b] => blockNonce > b[3] + NBlocksBeforeClaim
  <2>1. b \in Buckets /\ b[2] = "DeferredPayment" /\ funds[b] \in Nat
    BY DEF OfType, DPInv
  <2>2. \A c \in Due : to[c][2] = "WithdrawOnly"
    BY <1>2 DEF Into
  <2>3. {c \in DOMAIN m : to[c] = b} = {}
    BY <1>2, <2>1, <2>2
  <2>4. SumFunctionOnSet(m, {c \in DOMAIN m : to[c] = b}) = 0
    BY <2>3, SumEmpty, Zenon
  <2>5. funds'[b] = funds[b] - (IF b \in Due THEN funds[b] ELSE 0)
    BY <1>1, <1>2, <2>1, <2>4 DEF ConvertParts
  <2>6. CASE b \in Due
    <3>1. b[3] \in Blocks /\ ClaimDue(b[3])
      BY <2>1, <2>6 DEF Buckets
    <3>2. blockNonce > b[3] + NBlocksBeforeClaim
      BY <3>1, ClaimDueExact DEF DPInv
    <3>3. QED
      BY <2>1, <2>5, <2>6, <3>2
  <2>7. CASE b \notin Due
    BY <2>1, <2>5, <2>7
  <2>8. QED
    BY <2>6, <2>7
<1>4. DOMAIN funds' = Buckets /\ blockNonce' \in Blocks
  BY <1>1 DEF ConvertParts, DPInv
<1>5. QED
  BY <1>3, <1>4 DEF DPInv, ClaimStep

\* DPInv holds initially and after every step, and every step keeps ClaimStep.
LEMMA DPInvariant ==
  ASSUME NoWrap
  PROVE  Spec => []DPInv /\ [][ClaimStep]_vars
<1>1. Init => DPInv
  <2>1. 0 \in Blocks
    BY WidthAssumption DEF Blocks
  <2>2. QED
    BY <2>1 DEF Init, DPInv, OfType
<1>2. DPInv /\ [Next]_vars => DPInv' /\ [ClaimStep]_vars
  <2> SUFFICES ASSUME DPInv, [Next]_vars PROVE DPInv' /\ [ClaimStep]_vars
    OBVIOUS
  <2>1. CASE \E u \in Users : claim_all_eligible_deferred_payments(u)
    BY <2>1, StepClaim
  <2>2. CASE \E a \in 1..MaxFunds : swap_unstaked_to_deferred_payment(a)
    BY <2>2, StepSwapDP
  <2>3. CASE /\ Next
             /\ ~(\E u \in Users : claim_all_eligible_deferred_payments(u))
             /\ ~(\E a \in 1..MaxFunds : swap_unstaked_to_deferred_payment(a))
    BY <2>3, StepNotClaim
  <2>4. CASE UNCHANGED vars
    BY <2>4 DEF vars, DPInv
  <2>5. QED
    BY <2>1, <2>2, <2>3, <2>4
<1>3. QED
  BY <1>1, <1>2, PTL DEF Spec

(***************************************************************************)
(* ClaimNotEarly for every set of users and every bound, whenever the     *)
(* claim test's sum cannot wrap: claim_all_eligible_deferred_payments      *)
(* never takes funds out of a deferred payment created at block c before  *)
(* block c + n_blocks_before_claim + 1, and no other function of the      *)
(* engine takes funds out of a deferred payment at all.  The run          *)
(* fund_claim_wrap shows that without NoWrap the property fails.          *)
(***************************************************************************)
THEOREM ClaimNotEarlyWithoutWrap ==
  ASSUME NoWrap
  PROVE  Spec => ClaimNotEarly
<1>1. Spec => [][ClaimStep]_vars
  BY DPInvariant, PTL
<1>2. QED
  BY <1>1 DEF ClaimNotEarly, ClaimStep

-----------------------------------------------------------------------------
(* CONSERVATION *)

\* The buckets of one user.
UserBuckets(u) == {b \in Buckets : b[1] = u}

\* The ledger has finitely many buckets: finitely many users, five fund
\* types and the blocks 0..MaxBlock.
LEMMA BucketsFinite == IsFiniteSet(Buckets)
<1>1. IsFiniteSet(FundTypes)
  <2>1. FundTypes = ((((({} \cup {"Waiting"}) \cup {"Active"}) \cup {"UnStaked"})
                      \cup {"DeferredPayment"}) \cup {"WithdrawOnly"})
    BY DEF FundTypes
  <2>2. QED
    BY <2>1, FS_EmptySet, FS_AddElement
<1>2. IsFiniteSet(Blocks)
  BY WidthAssumption, FS_Interval DEF Blocks
<1>3. IsFiniteSet((Users \X FundTypes) \X Blocks)
  BY <1>1, <1>2, UsersAssumption, FS_Product
<1> DEFINE f == [x \in (Users \X FundTypes) \X Blocks |-> <<x[1][1], x[1][2], x[2]>>]
<1>4. f \in Surjection((Users \X FundTypes) \X Blocks, Buckets)
  <2>1. f \in [(Users \X FundTypes) \X Blocks -> Buckets]
    BY DEF Buckets
  <2>2. ASSUME NEW b \in Buckets
        PROVE  \E x \in (Users \X FundTypes) \X Blocks : f[x] = b
    <3>1. <<<<b[1], b[2]>>, b[3]>> \in (Users \X FundTypes) \X Blocks
      BY DEF Buckets
    <3>2. f[<<<<b[1], b[2]>>, b[3]>>] = b
      BY DEF Buckets
    <3>3. QED
      BY <3>1, <3>2
  <2>3. QED
    BY <2>1, <2>2 DEF Surjection
<1>5. QED
  BY <1>3, <1>4, FS_Surjection

\* A conversion keeps the total of every set S of buckets that no source
\* leaves or enters: what the sources lose, their targets in S gain.
LEMMA ConvertSum ==
  ASSUME NEW L, \A b \in Buckets : L[b] \in Int,
         NEW m, DOMAIN m \subseteq Buckets, \A c \in DOMAIN m : m[c] \in Int,
         NEW to, NEW S \in SUBSET Buckets,
         \A c \in DOMAIN m : to[c] \in Buckets /\ (c \in S <=> to[c] \in S)
  PROVE  Held(ConvertParts(L, m, to), S) = Held(L, S)
<1> DEFINE Src == DOMAIN m
           k == ConvertParts(L, m, to)
<1>1. IsFiniteSet(Buckets) /\ Src \subseteq Buckets /\ \A c \in Src : m[c] \in Int
  BY BucketsFinite
<1>2. \A b \in Buckets : k[b] = L[b] - (IF b \in Src THEN m[b] ELSE 0)
                                 + SumFunctionOnSet(m, Fiber(Src, to, b))
  BY DEF ConvertParts, Fiber
<1>3. SumFunctionOnSet(k, S) =
        SumFunctionOnSet(L, S) - SumFunctionOnSet(m, Src \cap S)
          + SumFunctionOnSet(m, MovedInto(Src, to, S))
  <2> HIDE DEF Src, k
  <2>1. QED
    BY <1>1, <1>2, SumMove
<1>4. MovedInto(Src, to, S) = Src \cap S
  BY DEF MovedInto
<1>5. SumFunctionOnSet(m, MovedInto(Src, to, S)) = SumFunctionOnSet(m, Src \cap S)
  BY <1>4, Zenon
<1>6. SumFunctionOnSet(L, S) \in Int /\ SumFunctionOnSet(m, Src \cap S) \in Int
  <2>1. IsFiniteSet(S) /\ IsFiniteSet(Src \cap S)
    BY <1>1, FS_Subset
  <2>2. QED
    BY <1>1, <2>1, SumInt
<1> HIDE DEF Src
<1>7. QED
  BY <1>3, <1>5, <1>6 DEF Held

\* Destroying the parts m lowers the total of a set S of buckets by the
\* parts taken from S.
LEMMA DestroySum ==
  ASSUME NEW L, \A b \in Buckets : L[b] \in Int,
         NEW m, DOMAIN m \subseteq Buckets, \A c \in DOMAIN m : m[c] \in Int,
         NEW S \in SUBSET Buckets
  PROVE  Held(DestroyParts(L, m), S) = Held(L, S) - SumFunctionOnSet(m, DOMAIN m \cap S)
<1> DEFINE D == DOMAIN m
           g == [b \in Buckets |-> IF b \in D THEN m[b] ELSE 0]
           z == [b \in Buckets |-> 0]
           k == DestroyParts(L, m)
<1>1. IsFiniteSet(S) /\ IsFiniteSet(D \cap S)
  BY BucketsFinite, FS_Subset
<1>2. SumFunctionOnSet(k, S) =
        SumFunctionOnSet(L, S) - SumFunctionOnSet(g, S) + SumFunctionOnSet(z, S)
  <2>1. \A x \in S : L[x] \in Int /\ g[x] \in Int /\ z[x] \in Int
    OBVIOUS
  <2>2. \A x \in S : k[x] = L[x] - g[x] + z[x]
    BY DEF DestroyParts
  <2> HIDE DEF g, z, k
  <2>3. QED
    BY <1>1, <2>1, <2>2, SumLinear
<1>3. SumFunctionOnSet(z, S) = 0
  BY <1>1, SumZero
<1>4. SumFunctionOnSet(g, S) = SumFunctionOnSet(m, D \cap S)
  <2>1. SumFunctionOnSet(g, S) = SumFunctionOnSet(g, D \cap S)
    <3>1. (\A x \in S : g[x] \in Int) /\ \A x \in S \ (D \cap S) : g[x] = 0
      OBVIOUS
    <3> HIDE DEF g
    <3>2. QED
      BY <1>1, <3>1, SumZeroOutside
  <2>2. SumFunctionOnSet(g, D \cap S) = SumFunctionOnSet(m, D \cap S)
    <3>1. \A x \in D \cap S : g[x] = m[x]
      OBVIOUS
    <3> HIDE DEF g
    <3>2. QED
      BY <1>1, <3>1, SumCongruence
  <2>3. QED
    BY <2>1, <2>2
<1>5. SumFunctionOnSet(L, S) \in Int /\ SumFunctionOnSet(m, D \cap S) \in Int
  BY <1>1, SumInt
<1> HIDE DEF g, z
<1>6. QED
  BY <1>2, <1>3, <1>4, <1>5 DEF Held

(***************************************************************************)
(* The inductive invariant behind FundsConserved: besides the types and   *)
(* conservation, the ledger as a whole never holds more than MaxFunds,    *)
(* which create_waiting checks before it adds funds and which bounds      *)
(* every single bucket.                                                   *)
(***************************************************************************)
FInv ==
  /\ TypeOK
  /\ FundsConserved
  /\ Held(funds, Buckets) <= MaxFunds

\* A ledger of natural amounts whose total is at most MaxFunds holds
\* amounts in every bucket.
LEMMA BoundedLedger ==
  ASSUME NEW L, \A b \in Buckets : L[b] \in Nat, Held(L, Buckets) <= MaxFunds
  PROVE  \A b \in Buckets : L[b] \in Amounts
<1> SUFFICES ASSUME NEW b \in Buckets PROVE L[b] \in Amounts
  OBVIOUS
<1>1. L[b] <= Held(L, Buckets)
  BY BucketsFinite, SumBound DEF Held
<1>2. Held(L, Buckets) \in Nat
  BY BucketsFinite, SumNat DEF Held
<1>3. QED
  BY <1>1, <1>2, MaxFundsAssumption DEF Amounts

\* The empty ledger satisfies the invariant.
LEMMA InitFInv == Init => FInv
<1> SUFFICES ASSUME Init PROVE FInv
  OBVIOUS
<1>1. \A S \in SUBSET Buckets : Held(funds, S) = 0
  <2> SUFFICES ASSUME NEW S \in SUBSET Buckets PROVE Held(funds, S) = 0
    OBVIOUS
  <2>1. IsFiniteSet(S)
    BY BucketsFinite, FS_Subset
  <2>2. QED
    BY <2>1, SumZero DEF Init, Held
<1>2. TypeOK
  BY WidthAssumption, MaxFundsAssumption DEF Init, TypeOK, Amounts, Blocks
<1>3. FundsConserved
  BY <1>1 DEF Init, FundsConserved
<1>4. QED
  BY <1>1, <1>2, <1>3, MaxFundsAssumption DEF FInv


\* A conversion of parts bounded by their buckets, each into a bucket of
\* the same user, preserves the invariant: it moves funds within a user.
LEMMA ConvertStep ==
  ASSUME FInv, NEW m, DOMAIN m \subseteq Buckets,
         \A c \in DOMAIN m : m[c] \in Nat /\ m[c] <= funds[c],
         NEW to, \A c \in DOMAIN m : to[c] \in Buckets /\ to[c][1] = c[1],
         funds' = ConvertParts(funds, m, to), UNCHANGED <<blockNonce, paidIn>>
  PROVE  FInv'
<1>1. \A b \in Buckets : funds[b] \in Nat
  BY MaxFundsAssumption DEF FInv, TypeOK, Amounts
<1>2. \A c \in DOMAIN m : m[c] \in Int
  OBVIOUS
<1>3. ASSUME NEW v \in Users
      PROVE  Held(funds', UserBuckets(v)) = Held(funds, UserBuckets(v))
  <2>1. \A c \in DOMAIN m : to[c] \in Buckets /\ (c \in UserBuckets(v) <=> to[c] \in UserBuckets(v))
    BY DEF UserBuckets
  <2>2. UserBuckets(v) \in SUBSET Buckets
    BY DEF UserBuckets
  <2> HIDE DEF UserBuckets
  <2>3. QED
    BY <1>1, <1>2, <2>1, <2>2, ConvertSum
<1>4. Held(funds', Buckets) = Held(funds, Buckets)
  BY <1>1, <1>2, ConvertSum
<1>5. \A b \in Buckets : funds'[b] \in Nat
  <2> SUFFICES ASSUME NEW b \in Buckets PROVE funds'[b] \in Nat
    OBVIOUS
  <2>1. IsFiniteSet({c \in DOMAIN m : to[c] = b})
    BY BucketsFinite, FS_Subset
  <2>2. SumFunctionOnSet(m, {c \in DOMAIN m : to[c] = b}) \in Nat
    BY <2>1, SumNat
  <2>3. QED
    BY <1>1, <2>2 DEF ConvertParts
<1>6. \A b \in Buckets : funds'[b] \in Amounts
  BY <1>4, <1>5, BoundedLedger DEF FInv
<1>7. funds' \in [Buckets -> Amounts]
  <2>1. funds' = [b \in Buckets |-> funds'[b]]
    BY DEF ConvertParts
  <2>2. QED
    BY <1>6, <2>1
<1>8. QED
  BY <1>3, <1>4, <1>7 DEF FInv, TypeOK, FundsConserved, UserBuckets

\* Conversion targets are buckets of the source's owner.
LEMMA IntoBucket ==
  ASSUME NEW t \in FundTypes, NEW created \in Blocks, NEW c \in Buckets
  PROVE  /\ Into(t, created)[c] \in Buckets /\ Into(t, created)[c][1] = c[1]
         /\ IntoKeep(t)[c] \in Buckets /\ IntoKeep(t)[c][1] = c[1]
BY DEF Into, IntoKeep, Buckets

\* A max-bounded part of Src takes from each bucket of Src at most what it
\* holds.
LEMMA PartsBounded ==
  ASSUME NEW L, NEW a, NEW Src \in SUBSET Buckets, NEW m \in Parts(L, a, Src)
  PROVE  /\ DOMAIN m = Src /\ DOMAIN m \subseteq Buckets
         /\ \A c \in DOMAIN m : m[c] \in Nat /\ m[c] <= L[c]
BY MaxFundsAssumption DEF Parts, Amounts


\* create_waiting adds the balance to one bucket of the user and to what
\* the user paid in, under the ledger bound.
LEMMA CreateStep ==
  ASSUME FInv, NEW u \in Users, NEW a \in 1..MaxFunds, create_waiting(u, a)
  PROVE  FInv'
<1> DEFINE k == <<u, "Waiting", 0>>
<1>1. k \in Buckets /\ \A b \in Buckets : funds[b] \in Nat
  BY WidthAssumption, MaxFundsAssumption DEF FInv, TypeOK, Amounts, Buckets, Blocks, FundTypes
<1>2. funds'[k] = funds[k] + a /\ \A y \in Buckets \ {k} : funds'[y] = funds[y]
  BY <1>1 DEF create_waiting, FInv, TypeOK
<1>3. ASSUME NEW v \in Users
      PROVE  Held(funds', UserBuckets(v)) = paidIn'[v]
  <2>1. IsFiniteSet(UserBuckets(v)) /\ UserBuckets(v) \subseteq Buckets
    BY BucketsFinite, FS_Subset DEF UserBuckets
  <2>2. Held(funds, UserBuckets(v)) = paidIn[v]
    BY DEF FInv, FundsConserved, UserBuckets
  <2>3. CASE v = u
    <3>1. k \in UserBuckets(v)
      BY <1>1, <2>3 DEF UserBuckets
    <3>2. paidIn'[v] = paidIn[v] + a
      BY <2>3 DEF create_waiting, FInv, TypeOK
    <3> HIDE DEF k
    <3>3. Held(funds', UserBuckets(v)) = Held(funds, UserBuckets(v)) + a
      BY <1>1, <1>2, <2>1, <3>1, SumExcept DEF Held
    <3>4. QED
      BY <2>2, <3>2, <3>3
  <2>4. CASE v # u
    <3>1. \A y \in UserBuckets(v) : funds'[y] = funds[y]
      BY <1>2, <2>4 DEF UserBuckets
    <3>2. paidIn'[v] = paidIn[v]
      BY <2>4 DEF create_waiting, FInv, TypeOK
    <3>3. QED
      BY <2>1, <2>2, <3>1, <3>2, SumCongruence DEF Held
  <2>5. QED
    BY <2>3, <2>4
<1>4. Held(funds', Buckets) <= MaxFunds
  <2>1. Held(funds', Buckets) = Held(funds, Buckets) + a
    <3> HIDE DEF k
    <3>1. QED
      BY <1>1, <1>2, BucketsFinite, SumExcept DEF Held
  <2>2. QED
    BY <2>1 DEF create_waiting
<1>5. \A b \in Buckets : funds'[b] \in Amounts
  <2>1. \A b \in Buckets : funds'[b] \in Nat
    BY <1>1, <1>2
  <2>2. QED
    BY <1>4, <2>1, BoundedLedger
<1>6. TypeOK'
  <2>1. funds' \in [Buckets -> Amounts]
    <3>1. funds' = [b \in Buckets |-> funds'[b]]
      BY DEF create_waiting, FInv, TypeOK
    <3>2. QED
      BY <1>5, <3>1
  <2>2. paidIn' \in [Users -> Int]
    BY DEF create_waiting, FInv, TypeOK
  <2>3. blockNonce' \in Blocks
    BY DEF create_waiting, FInv, TypeOK
  <2>4. QED
    BY <2>1, <2>2, <2>3 DEF TypeOK
<1>7. QED
  BY <1>3, <1>4, <1>6 DEF FInv, FundsConserved, UserBuckets


\* Destroying parts bounded by their buckets leaves natural amounts, none
\* larger than before.
LEMMA DestroyNat ==
  ASSUME NEW L, \A b \in Buckets : L[b] \in Nat,
         NEW m, \A c \in DOMAIN m : m[c] \in Nat /\ m[c] <= L[c]
  PROVE  \A b \in Buckets : DestroyParts(L, m)[b] \in Nat /\ DestroyParts(L, m)[b] <= L[b]
BY DEF DestroyParts

\* liquidate_free_stake destroys funds of the user only, and lowers what
\* the user paid in by exactly what it destroyed.
LEMMA LiquidateStep ==
  ASSUME FInv, NEW u \in Users, NEW a \in 1..MaxFunds, liquidate_free_stake(u, a)
  PROVE  FInv'
<1>0. \A t \in FundTypes : OfUser(u, t) \subseteq UserBuckets(u)
  BY DEF OfUser, UserBuckets
<1>1. PICK m1 \in Parts(funds, a, OfUser(u, "WithdrawOnly")) :
        \E m2 \in Parts(DestroyParts(funds, m1), a - SumFunction(m1), OfUser(u, "Waiting")) :
          /\ funds' = DestroyParts(DestroyParts(funds, m1), m2)
          /\ paidIn' = [paidIn EXCEPT ![u] = @ - (a - ((a - SumFunction(m1)) - SumFunction(m2)))]
          /\ UNCHANGED blockNonce
  BY DEF liquidate_free_stake
<1> DEFINE L1 == DestroyParts(funds, m1)
<1>2. PICK m2 \in Parts(L1, a - SumFunction(m1), OfUser(u, "Waiting")) :
          /\ funds' = DestroyParts(L1, m2)
          /\ paidIn' = [paidIn EXCEPT ![u] = @ - (a - ((a - SumFunction(m1)) - SumFunction(m2)))]
          /\ UNCHANGED blockNonce
  BY <1>1
<1>3. /\ OfUser(u, "WithdrawOnly") \subseteq Buckets /\ OfUser(u, "Waiting") \subseteq Buckets
      /\ IsFiniteSet(OfUser(u, "WithdrawOnly")) /\ IsFiniteSet(OfUser(u, "Waiting"))
  BY BucketsFinite, FS_Subset DEF OfUser
<1>4. /\ DOMAIN m1 = OfUser(u, "WithdrawOnly") /\ \A c \in DOMAIN m1 : m1[c] \in Nat /\ m1[c] <= funds[c]
      /\ DOMAIN m2 = OfUser(u, "Waiting") /\ \A c \in DOMAIN m2 : m2[c] \in Nat /\ m2[c] <= L1[c]
  BY <1>3, PartsBounded
<1>5. \A b \in Buckets : funds[b] \in Nat
  BY MaxFundsAssumption DEF FInv, TypeOK, Amounts
<1>6. \A b \in Buckets : L1[b] \in Nat /\ funds'[b] \in Nat
  BY <1>2, <1>4, <1>5, DestroyNat
<1>7. SumFunction(m1) \in Nat /\ SumFunction(m2) \in Nat
  BY <1>3, <1>4, SumNat DEF SumFunction
<1>8. ASSUME NEW S \in SUBSET Buckets
      PROVE  Held(funds', S) = Held(funds, S) - SumFunctionOnSet(m1, DOMAIN m1 \cap S)
                                             - SumFunctionOnSet(m2, DOMAIN m2 \cap S)
  <2>1. Held(funds', S) = Held(L1, S) - SumFunctionOnSet(m2, DOMAIN m2 \cap S)
    BY <1>2, <1>3, <1>4, <1>6, DestroySum
  <2>2. Held(L1, S) = Held(funds, S) - SumFunctionOnSet(m1, DOMAIN m1 \cap S)
    BY <1>3, <1>4, <1>5, DestroySum
  <2>3. QED
    BY <2>1, <2>2
<1>9. ASSUME NEW v \in Users
      PROVE  Held(funds', UserBuckets(v)) = paidIn'[v]
  <2>1. UserBuckets(v) \in SUBSET Buckets /\ Held(funds, UserBuckets(v)) = paidIn[v]
    BY DEF UserBuckets, FInv, FundsConserved
  <2>2. Held(funds, UserBuckets(v)) \in Int
    BY <1>5, <2>1, BucketsFinite, FS_Subset, SumInt DEF Held
  <2>3. CASE v = u
    <3>1. DOMAIN m1 \cap UserBuckets(v) = DOMAIN m1 /\ DOMAIN m2 \cap UserBuckets(v) = DOMAIN m2
      BY <1>0, <1>4, <2>3 DEF FundTypes
    <3>2. Held(funds', UserBuckets(v)) =
            Held(funds, UserBuckets(v)) - SumFunction(m1) - SumFunction(m2)
      BY <1>8, <2>1, <3>1 DEF SumFunction
    <3>3. paidIn'[v] = paidIn[v] - (a - ((a - SumFunction(m1)) - SumFunction(m2)))
      BY <1>2, <2>3 DEF FInv, TypeOK
    <3>4. QED
      BY <1>7, <2>1, <2>2, <3>2, <3>3
  <2>4. CASE v # u
    <3>1. DOMAIN m1 \cap UserBuckets(v) = {} /\ DOMAIN m2 \cap UserBuckets(v) = {}
      BY <1>4, <2>4 DEF OfUser, UserBuckets
    <3>2. Held(funds', UserBuckets(v)) = Held(funds, UserBuckets(v)) - 0 - 0
      BY <1>8, <2>1, <3>1, SumEmpty
    <3>3. paidIn'[v] = paidIn[v]
      BY <1>2, <2>4 DEF FInv, TypeOK
    <3>4. QED
      BY <2>1, <2>2, <3>2, <3>3
  <2>5. QED
    BY <2>3, <2>4
<1>10. Held(funds', Buckets) <= MaxFunds
  <2>1. DOMAIN m1 \cap Buckets = DOMAIN m1 /\ DOMAIN m2 \cap Buckets = DOMAIN m2
    BY <1>3, <1>4
  <2>2. Held(funds', Buckets) = Held(funds, Buckets) - SumFunction(m1) - SumFunction(m2)
    BY <1>8, <2>1 DEF SumFunction
  <2>3. Held(funds, Buckets) \in Int
    BY <1>5, BucketsFinite, SumInt DEF Held
  <2>4. Held(funds, Buckets) <= MaxFunds
    BY DEF FInv
  <2>5. QED
    BY <1>7, <2>2, <2>3, <2>4, MaxFundsAssumption
<1>11. TypeOK'
  <2>1. funds' = [b \in Buckets |-> funds'[b]]
    BY <1>2 DEF DestroyParts
  <2>2. \A b \in Buckets : funds'[b] \in Amounts
    BY <1>6, <1>10, BoundedLedger
  <2>3. paidIn' \in [Users -> Int]
    BY <1>2, <1>7 DEF FInv, TypeOK
  <2>4. QED
    BY <1>2, <2>1, <2>2, <2>3 DEF FInv, TypeOK
<1>12. QED
  BY <1>9, <1>10, <1>11 DEF FInv, FundsConserved, UserBuckets


\* Every step of the engine preserves the invariant.
LEMMA NextFInv == FInv /\ [Next]_vars => FInv'
<1> SUFFICES ASSUME FInv, [Next]_vars PROVE FInv'
  OBVIOUS
<1>0. /\ blockNonce \in Blocks /\ 0 \in Blocks
      /\ \A u \in Users, t \in FundTypes : OfUser(u, t) \in SUBSET Buckets
      /\ \A t \in FundTypes : OfType(t) \in SUBSET Buckets
  BY WidthAssumption DEF FInv, TypeOK, Blocks, OfUser, OfType
\* A conversion of a max-bounded part of Src into buckets named by a
\* target map of the form Into or IntoKeep.
<1>1. ASSUME NEW Src \in SUBSET Buckets, NEW a, NEW m \in Parts(funds, a, Src),
             NEW to, \A c \in Buckets : to[c] \in Buckets /\ to[c][1] = c[1],
             funds' = ConvertParts(funds, m, to), UNCHANGED <<blockNonce, paidIn>>
      PROVE  FInv'
  BY <1>1, PartsBounded, ConvertStep
<1>2. ASSUME NEW u \in Users, NEW a \in 1..MaxFunds, unstake_transf(u, a) PROVE FInv'
  <2>1. \A c \in Buckets : Into("UnStaked", blockNonce)[c] \in Buckets
                           /\ Into("UnStaked", blockNonce)[c][1] = c[1]
    BY <1>0, IntoBucket DEF FundTypes
  <2>2. QED
    BY <1>0, <1>1, <1>2, <2>1 DEF unstake_transf, FundTypes
<1>3. ASSUME NEW a \in 1..MaxFunds, swap_waiting_to_active(a) PROVE FInv'
  <2>1. \A c \in Buckets : Into("Active", 0)[c] \in Buckets /\ Into("Active", 0)[c][1] = c[1]
    BY <1>0, IntoBucket DEF FundTypes
  <2>2. QED
    BY <1>0, <1>1, <1>3, <2>1 DEF swap_waiting_to_active, FundTypes
<1>4. ASSUME NEW a \in 1..MaxFunds, swap_active_to_unstaked(a) PROVE FInv'
  <2>1. \A c \in Buckets : Into("UnStaked", blockNonce)[c] \in Buckets
                           /\ Into("UnStaked", blockNonce)[c][1] = c[1]
    BY <1>0, IntoBucket DEF FundTypes
  <2>2. QED
    BY <1>0, <1>1, <1>4, <2>1 DEF swap_active_to_unstaked, FundTypes
<1>5. ASSUME NEW a \in 1..MaxFunds, swap_unstaked_to_deferred_payment(a) PROVE FInv'
  <2>1. \A c \in Buckets : IntoKeep("DeferredPayment")[c] \in Buckets
                           /\ IntoKeep("DeferredPayment")[c][1] = c[1]
    BY <1>0, IntoBucket DEF FundTypes
  <2>2. QED
    BY <1>0, <1>1, <1>5, <2>1 DEF swap_unstaked_to_deferred_payment, FundTypes
<1>6. ASSUME NEW u \in Users, claim_all_eligible_deferred_payments(u) PROVE FInv'
  <2> DEFINE Due == {b \in OfUser(u, "DeferredPayment") : ClaimDue(b[3])}
             m == [c \in Due |-> funds[c]]
  <2>1. DOMAIN m \subseteq Buckets /\ \A c \in DOMAIN m : m[c] \in Nat /\ m[c] <= funds[c]
    BY MaxFundsAssumption DEF OfUser, FInv, TypeOK, Amounts
  <2>2. \A c \in Buckets : Into("WithdrawOnly", 0)[c] \in Buckets
                           /\ Into("WithdrawOnly", 0)[c][1] = c[1]
    BY <1>0, IntoBucket DEF FundTypes
  <2>3. funds' = ConvertParts(funds, m, Into("WithdrawOnly", 0)) /\ UNCHANGED <<blockNonce, paidIn>>
    BY <1>6 DEF claim_all_eligible_deferred_payments
  <2> HIDE DEF Due, m
  <2>4. QED
    BY <2>1, <2>2, <2>3, ConvertStep
<1>7. CASE NewBlock
  <2>1. TypeOK'
    BY <1>7, WidthAssumption DEF NewBlock, FInv, TypeOK, Blocks
  <2>2. FundsConserved' /\ Held(funds', Buckets) <= MaxFunds
    BY <1>7 DEF NewBlock, FInv, FundsConserved
  <2>3. QED
    BY <2>1, <2>2 DEF FInv
<1>8. CASE UNCHANGED vars
  BY <1>8 DEF vars, FInv, TypeOK, FundsConserved
<1>9. QED
  BY <1>2, <1>3, <1>4, <1>5, <1>6, <1>7, <1>8, CreateStep, LiquidateStep DEF Next

(***************************************************************************)
(* FundsConserved and the type invariant for every finite set of users    *)
(* and every bound: whatever the engine's functions are called with, and  *)
(* whichever split of a moved amount over the source buckets the ledger   *)
(* takes, the funds each user holds over all fund types and blocks are    *)
(* what the user paid in through create_waiting minus what                *)
(* liquidate_free_stake reported as taken out, and every bucket holds     *)
(* between 0 and MaxFunds.                                                *)
(***************************************************************************)
THEOREM FundsConservedInvariant == Spec => [](TypeOK /\ FundsConserved)
<1>1. Spec => []FInv
  BY InitFInv, NextFInv, PTL DEF Spec
<1>2. QED
  BY <1>1, PTL DEF FInv

=============================================================================
