------------------------ MODULE NodeActivationV04Proofs ------------------------
(***************************************************************************)
(* Proofs about the v0_4 node activation machine and the stake ledger it  *)
(* drives, for every number of nodes, every finite set of call slots and  *)
(* every bound on blocks and stake.  Every ledger transformation is a     *)
(* split_convert_max_by_type (Convert), a move of parts between buckets;  *)
(* its effect on the total of a set of buckets is the LedgerSums lemma    *)
(* SumMove.                                                                *)
(***************************************************************************)
EXTENDS NodeActivationV04, LedgerSums, TLAPS

-----------------------------------------------------------------------------
(* THE LEDGER *)

\* The ledger has finitely many buckets: seven stake states and the blocks
\* 0..MaxBlock; and finitely many stored node ids.
LEMMA BucketsFinite == IsFiniteSet(Buckets) /\ IsFiniteSet(StoredIds)
<1>1. IsFiniteSet(NodeStates)
  <2>1. NodeStates = ((((((({} \cup {"Inactive"}) \cup {"PendingActivation"}) \cup {"Active"})
                       \cup {"ActivationFailed"}) \cup {"PendingDeactivation"})
                       \cup {"UnBondPeriod"}) \cup {"PendingUnBond"})
    BY DEF NodeStates
  <2>2. QED
    BY <2>1, FS_EmptySet, FS_AddElement
<1>2. IsFiniteSet(Blocks) /\ IsFiniteSet(StoredIds)
  BY MaxBlockAssumption, NumNodesAssumption, FS_Interval DEF Blocks, StoredIds
<1>3. QED
  BY <1>1, <1>2, FS_Product DEF Buckets

\* What a conversion moves: the amount asked for, less the shortfall.
Moved(L, a, k, E) == a - Shortfall(L, a, k, E)

\* A conversion moves between 0 and the amount asked for, and no more
\* than the eligible buckets hold.
LEMMA MovedBounds ==
  ASSUME NEW L, NEW a \in Nat, NEW k, NEW E, Available(L, k, E) \in Nat
  PROVE  /\ Moved(L, a, k, E) \in Nat
         /\ Moved(L, a, k, E) <= a
         /\ Moved(L, a, k, E) <= Available(L, k, E)
         /\ Shortfall(L, a, k, E) = 0 => Moved(L, a, k, E) = a
BY DEF Moved, Shortfall

(***************************************************************************)
(* A conversion takes parts m of the eligible buckets, each no larger     *)
(* than its bucket and together the amount moved, and moves each part to  *)
(* its target: the total of any set S of buckets loses the parts of the   *)
(* sources in S and gains the parts whose target is in S.                 *)
(***************************************************************************)
MovesParts(L, a, k, E, to, L2, m) ==
  /\ m \in [Held(k, E) -> Nat]
  /\ \A c \in Held(k, E) : m[c] <= L[c]
  /\ SumFunctionOnSet(m, Held(k, E)) = Moved(L, a, k, E)
  /\ L2 \in [Buckets -> Nat]
  /\ \A S \in SUBSET Buckets :
       SumFunctionOnSet(L2, S) =
         SumFunctionOnSet(L, S) - SumFunctionOnSet(m, Held(k, E) \cap S)
           + SumFunctionOnSet(m, MovedInto(Held(k, E), to, S))

LEMMA ConvertMoves ==
  ASSUME NEW L \in [Buckets -> Nat], NEW a, NEW k, NEW E, NEW to,
         NEW L2 \in Convert(L, a, k, E, to)
  PROVE  \E m : MovesParts(L, a, k, E, to, L2, m)
<1> DEFINE Src == Held(k, E)
<1>1. PICK m \in [Src -> Amounts] :
        /\ \A c \in Src : m[c] <= L[c]
        /\ SumFunction(m) = Moved(L, a, k, E)
        /\ L2 = [b \in Buckets |-> L[b] - (IF b \in Src THEN m[b] ELSE 0)
                                     + SumFunctionOnSet(m, Fiber(Src, to, b))]
  BY DEF Convert, Moved, Fiber
<1>2. m \in [Src -> Nat] /\ SumFunctionOnSet(m, Src) = Moved(L, a, k, E)
  BY <1>1, StakeAssumption DEF Amounts, SumFunction
<1>3. Src \subseteq Buckets /\ IsFiniteSet(Buckets) /\ IsFiniteSet(Src)
  BY BucketsFinite, FS_Subset DEF Held
<1>4. \A b \in Buckets : SumFunctionOnSet(m, Fiber(Src, to, b)) \in Nat
  <2> SUFFICES ASSUME NEW b \in Buckets PROVE SumFunctionOnSet(m, Fiber(Src, to, b)) \in Nat
    OBVIOUS
  <2>1. Fiber(Src, to, b) \subseteq Src
    BY DEF Fiber
  <2>2. QED
    BY <1>2, <1>3, <2>1, FS_Subset, SumNat
<1>5. L2 \in [Buckets -> Nat]
  BY <1>1, <1>2, <1>4
<1>6. ASSUME NEW S \in SUBSET Buckets
      PROVE  SumFunctionOnSet(L2, S) =
               SumFunctionOnSet(L, S) - SumFunctionOnSet(m, Src \cap S)
                 + SumFunctionOnSet(m, MovedInto(Src, to, S))
  <2>1. \A b \in Buckets : L2[b] = L[b] - (IF b \in Src THEN m[b] ELSE 0)
                                      + SumFunctionOnSet(m, Fiber(Src, to, b))
    BY <1>1
  <2> HIDE DEF Src
  <2>2. QED
    BY <1>2, <1>3, <2>1, SumMove
<1>7. QED
  BY <1>1, <1>2, <1>5, <1>6 DEF MovesParts

\* The stake of a set of buckets is a natural number.
LEMMA AvailableNat ==
  ASSUME NEW L \in [Buckets -> Nat], NEW S \in SUBSET Buckets
  PROVE  SumFunctionOnSet(L, S) \in Nat
BY BucketsFinite, FS_Subset, SumNat

\* A conversion into buckets keeps the ledger natural and its total.
LEMMA ConvertKeeps ==
  ASSUME NEW L \in [Buckets -> Nat], NEW a, NEW k, NEW E, NEW to,
         \A c \in Held(k, E) : to[c] \in Buckets,
         NEW L2 \in Convert(L, a, k, E, to)
  PROVE  L2 \in [Buckets -> Nat] /\ SumFunctionOnSet(L2, Buckets) = SumFunctionOnSet(L, Buckets)
<1>0. PICK m : MovesParts(L, a, k, E, to, L2, m)
  BY ConvertMoves
<1>1. /\ m \in [Held(k, E) -> Nat]
      /\ L2 \in [Buckets -> Nat]
      /\ SumFunctionOnSet(L2, Buckets) =
           SumFunctionOnSet(L, Buckets) - SumFunctionOnSet(m, Held(k, E) \cap Buckets)
             + SumFunctionOnSet(m, MovedInto(Held(k, E), to, Buckets))
  BY <1>0 DEF MovesParts
<1>2. Held(k, E) \cap Buckets = Held(k, E) /\ MovedInto(Held(k, E), to, Buckets) = Held(k, E)
  BY DEF Held, MovedInto
<1>3. /\ SumFunctionOnSet(m, Held(k, E) \cap Buckets) = SumFunctionOnSet(m, Held(k, E))
      /\ SumFunctionOnSet(m, MovedInto(Held(k, E), to, Buckets)) = SumFunctionOnSet(m, Held(k, E))
  BY <1>2, Zenon
<1>4. SumFunctionOnSet(m, Held(k, E)) \in Nat /\ SumFunctionOnSet(L, Buckets) \in Nat
  <2>1. IsFiniteSet(Held(k, E)) /\ Held(k, E) \subseteq Buckets
    BY BucketsFinite, FS_Subset DEF Held
  <2>2. QED
    BY <1>1, <2>1, BucketsFinite, SumNat
<1>5. QED
  BY <1>1, <1>3, <1>4

\* A conversion neither out of nor into state j leaves j's stake alone.
LEMMA ConvertApart ==
  ASSUME NEW L \in [Buckets -> Nat], NEW a, NEW k, NEW E, NEW to, NEW j, k # j,
         \A c \in Held(k, E) : to[c][1] # j,
         NEW L2 \in Convert(L, a, k, E, to)
  PROVE  Available(L2, j, Blocks) = Available(L, j, Blocks)
<1>0. PICK m : MovesParts(L, a, k, E, to, L2, m)
  BY ConvertMoves
<1>1. /\ m \in [Held(k, E) -> Nat]
      /\ SumFunctionOnSet(L2, Held(j, Blocks)) =
             SumFunctionOnSet(L, Held(j, Blocks)) - SumFunctionOnSet(m, Held(k, E) \cap Held(j, Blocks))
               + SumFunctionOnSet(m, MovedInto(Held(k, E), to, Held(j, Blocks)))
  <2>1. Held(j, Blocks) \in SUBSET Buckets
    BY DEF Held
  <2>2. QED
    BY <1>0, <2>1 DEF MovesParts
<1>2. Held(k, E) \cap Held(j, Blocks) = {} /\ MovedInto(Held(k, E), to, Held(j, Blocks)) = {}
  BY DEF Held, MovedInto
<1>3. /\ SumFunctionOnSet(m, Held(k, E) \cap Held(j, Blocks)) = 0
      /\ SumFunctionOnSet(m, MovedInto(Held(k, E), to, Held(j, Blocks))) = 0
  BY <1>2, SumEmpty, Zenon
<1>4. SumFunctionOnSet(L, Held(j, Blocks)) \in Nat
  BY AvailableNat DEF Held
<1>5. QED
  BY <1>1, <1>3, <1>4 DEF Available

\* A conversion into state j from another state adds what it moves to j.
LEMMA ConvertInto ==
  ASSUME NEW L \in [Buckets -> Nat], NEW a, NEW k, NEW E, NEW to, NEW j, k # j,
         \A c \in Held(k, E) : to[c] \in Held(j, Blocks),
         NEW L2 \in Convert(L, a, k, E, to)
  PROVE  Available(L2, j, Blocks) = Available(L, j, Blocks) + Moved(L, a, k, E)
<1>0. PICK m : MovesParts(L, a, k, E, to, L2, m)
  BY ConvertMoves
<1>1. /\ m \in [Held(k, E) -> Nat]
      /\ SumFunctionOnSet(m, Held(k, E)) = Moved(L, a, k, E)
           /\ SumFunctionOnSet(L2, Held(j, Blocks)) =
                SumFunctionOnSet(L, Held(j, Blocks)) - SumFunctionOnSet(m, Held(k, E) \cap Held(j, Blocks))
                  + SumFunctionOnSet(m, MovedInto(Held(k, E), to, Held(j, Blocks)))
  <2>1. Held(j, Blocks) \in SUBSET Buckets
    BY DEF Held
  <2>2. QED
    BY <1>0, <2>1 DEF MovesParts
<1>2. Held(k, E) \cap Held(j, Blocks) = {} /\ MovedInto(Held(k, E), to, Held(j, Blocks)) = Held(k, E)
  BY DEF Held, MovedInto
<1>3. /\ SumFunctionOnSet(m, Held(k, E) \cap Held(j, Blocks)) = 0
      /\ SumFunctionOnSet(m, MovedInto(Held(k, E), to, Held(j, Blocks))) = SumFunctionOnSet(m, Held(k, E))
  BY <1>2, SumEmpty, Zenon
<1>4. SumFunctionOnSet(L, Held(j, Blocks)) \in Nat /\ SumFunctionOnSet(m, Held(k, E)) \in Nat
  <2>1. IsFiniteSet(Held(k, E)) /\ Held(k, E) \subseteq Buckets /\ Held(j, Blocks) \subseteq Buckets
    BY BucketsFinite, FS_Subset DEF Held
  <2>2. QED
    BY <1>1, <2>1, AvailableNat, SumNat
<1>5. QED
  BY <1>1, <1>3, <1>4 DEF Available

\* A conversion out of all of state k into other states takes what it
\* moves out of k.
LEMMA ConvertOut ==
  ASSUME NEW L \in [Buckets -> Nat], NEW a, NEW k, NEW to,
         \A c \in Held(k, Blocks) : to[c][1] # k,
         NEW L2 \in Convert(L, a, k, Blocks, to)
  PROVE  Available(L2, k, Blocks) = Available(L, k, Blocks) - Moved(L, a, k, Blocks)
<1>0. PICK m : MovesParts(L, a, k, Blocks, to, L2, m)
  BY ConvertMoves
<1>1. /\ m \in [Held(k, Blocks) -> Nat]
      /\ SumFunctionOnSet(m, Held(k, Blocks)) = Moved(L, a, k, Blocks)
           /\ SumFunctionOnSet(L2, Held(k, Blocks)) =
                SumFunctionOnSet(L, Held(k, Blocks)) - SumFunctionOnSet(m, Held(k, Blocks) \cap Held(k, Blocks))
                  + SumFunctionOnSet(m, MovedInto(Held(k, Blocks), to, Held(k, Blocks)))
  <2>1. Held(k, Blocks) \in SUBSET Buckets
    BY DEF Held
  <2>2. QED
    BY <1>0, <2>1 DEF MovesParts
<1>2. Held(k, Blocks) \cap Held(k, Blocks) = Held(k, Blocks)
      /\ MovedInto(Held(k, Blocks), to, Held(k, Blocks)) = {}
  BY DEF Held, MovedInto
<1>3. /\ SumFunctionOnSet(m, Held(k, Blocks) \cap Held(k, Blocks)) = SumFunctionOnSet(m, Held(k, Blocks))
      /\ SumFunctionOnSet(m, MovedInto(Held(k, Blocks), to, Held(k, Blocks))) = 0
  BY <1>2, SumEmpty, Zenon
<1>4. SumFunctionOnSet(L, Held(k, Blocks)) \in Nat /\ SumFunctionOnSet(m, Held(k, Blocks)) \in Nat
  <2>1. IsFiniteSet(Held(k, Blocks)) /\ Held(k, Blocks) \subseteq Buckets
    BY BucketsFinite, FS_Subset DEF Held
  <2>2. QED
    BY <1>1, <2>1, AvailableNat, SumNat
<1>5. QED
  BY <1>1, <1>3, <1>4 DEF Available

-----------------------------------------------------------------------------
(* THE UNBOND LEDGER IS BACKED *)

\* The nodes an outstanding unBond call will resolve, and the stake the
\* unbond callback will take out of PendingUnBond for them.
UnbondNodes(s) == IF calls[s].endpoint = "unBond" THEN calls[s].nodes ELSE {}
Owed == [s \in Slots |-> Amount(UnbondNodes(s))]

\* The PendingUnBond buckets.
PUB == Held("PendingUnBond", Blocks)

\* Every node in PendingUnBond belongs to an outstanding unBond call.
UnbondCalled ==
  \A n \in StoredIds : nodeState[n] = "PendingUnBond" => \E s \in Slots : n \in UnbondNodes(s)

\* The PendingUnBond funds cover what the outstanding unBond calls owe.
OwedBacked == SumFunctionOnSet(Owed, Slots) <= Available(stake, "PendingUnBond", Blocks)

\* The ledger holds no more than the users deposited.
LedgerBounded == SumFunctionOnSet(stake, Buckets) <= MaxStake

(***************************************************************************)
(* The inductive invariant behind UnbondBacked.  A node in PendingUnBond  *)
(* is not backed by its own bucket: the ledger has no per-node buckets.   *)
(* It is backed by the call that put it there: the PendingUnBond funds    *)
(* cover what every outstanding unBond call owes, stake_per_node for each *)
(* of its nodes, and every PendingUnBond node belongs to such a call.     *)
(* The bound on the total keeps every bucket within Amounts.              *)
(***************************************************************************)
VInv == TypeOK /\ LedgerBounded /\ UnbondCalled /\ OwedBacked

\* A set of stored ids is finite and its stake is a natural number.
LEMMA AmountNat ==
  ASSUME NEW S \in SUBSET StoredIds
  PROVE  IsFiniteSet(S) /\ Amount(S) \in Nat
<1>1. IsFiniteSet(S) /\ Cardinality(S) \in Nat
  BY BucketsFinite, FS_Subset, FS_CardinalityType
<1>2. QED
  BY <1>1, StakeAssumption DEF Amount

\* The stake of fewer nodes is no larger, and the stake of a set splits
\* over a subset and the rest.
LEMMA AmountSplit ==
  ASSUME NEW S \in SUBSET StoredIds, NEW T \in SUBSET S
  PROVE  /\ Amount(T) <= Amount(S)
         /\ Amount(S) = Amount(T) + Amount(S \ T)
<1>1. IsFiniteSet(S) /\ Cardinality(S) \in Nat /\ Cardinality(T) \in Nat
      /\ Cardinality(T) <= Cardinality(S)
  BY BucketsFinite, FS_Subset, FS_CardinalityType
<1>2. Cardinality(S \ T) = Cardinality(S) - Cardinality(T)
  <2>1. S \cap T = T
    OBVIOUS
  <2>2. QED
    BY <1>1, <2>1, FS_Difference
<1>3. StakePerNode \in Nat
  BY StakeAssumption
<1>4. QED
  BY <1>1, <1>2, <1>3 DEF Amount

\* What the outstanding calls owe is a natural amount per slot.
LEMMA OwedNat ==
  ASSUME TypeOK
  PROVE  /\ \A s \in Slots : Owed[s] \in Nat
         /\ SumFunctionOnSet(Owed, Slots) \in Nat
<1>1. \A s \in Slots : UnbondNodes(s) \in SUBSET StoredIds
  BY DEF TypeOK, Calls, UnbondNodes
<1>2. \A s \in Slots : Owed[s] \in Nat
  BY <1>1, AmountNat DEF Owed
<1>3. QED
  BY <1>2, SlotsAssumption, SumNat

\* Putting a call into slot s changes what the calls owe by what the new
\* call owes less what the old one did.
LEMMA OwedUpdate ==
  ASSUME TypeOK, NEW s \in Slots, NEW call \in Calls,
         calls' = [calls EXCEPT ![s] = call]
  PROVE  SumFunctionOnSet(Owed', Slots) =
           SumFunctionOnSet(Owed, Slots) - Owed[s]
             + Amount(IF call.endpoint = "unBond" THEN call.nodes ELSE {})
<1> DEFINE new == Amount(IF call.endpoint = "unBond" THEN call.nodes ELSE {})
<1>1. new \in Nat
  BY AmountNat DEF Calls
<1>2. \A y \in Slots : Owed[y] \in Nat
  BY OwedNat
<1>3. Owed'[s] = Owed[s] + (new - Owed[s])
  BY <1>1, <1>2 DEF Owed, UnbondNodes, TypeOK
<1>4. \A y \in Slots \ {s} : Owed'[y] = Owed[y]
  BY DEF Owed, UnbondNodes, TypeOK
<1>5. new - Owed[s] \in Int
  BY <1>1, <1>2
<1> HIDE DEF new
<1>6. SumFunctionOnSet(Owed', Slots) = SumFunctionOnSet(Owed, Slots) + (new - Owed[s])
  BY <1>2, <1>3, <1>4, <1>5, SlotsAssumption, SumExcept
<1>7. SumFunctionOnSet(Owed, Slots) \in Nat
  BY OwedNat
<1>8. QED
  BY <1>1, <1>2, <1>6, <1>7 DEF new

LEMMA InitVInv == Init => VInv
<1> SUFFICES ASSUME Init PROVE VInv
  OBVIOUS
<1>1. TypeOK
  BY MaxBlockAssumption, StakeAssumption
     DEF Init, TypeOK, NodeStates, Blocks, Amounts, NoCall, Calls, Endpoints
<1>2. \A S \in SUBSET Buckets : SumFunctionOnSet(stake, S) = 0
  BY BucketsFinite, FS_Subset, SumZero DEF Init
<1>3. SumFunctionOnSet(Owed, Slots) = 0
  <2>1. \A s \in Slots : Owed[s] = 0
    BY StakeAssumption, FS_EmptySet DEF Init, Owed, UnbondNodes, NoCall, Amount
  <2>2. QED
    BY <2>1, SlotsAssumption, SumZero
<1>4. Held("PendingUnBond", Blocks) \in SUBSET Buckets
  BY DEF Held
<1>5. QED
  BY <1>1, <1>2, <1>3, <1>4, StakeAssumption
     DEF VInv, LedgerBounded, UnbondCalled, OwedBacked, Available, Init

-----------------------------------------------------------------------------
(* STEPS THAT LEAVE UNBONDING ALONE *)

\* A ledger step that keeps the ledger natural, its total and the
\* PendingUnBond stake.
KeepsUnbond(L, L2) ==
  /\ L2 \in [Buckets -> Nat]
  /\ SumFunctionOnSet(L2, Buckets) = SumFunctionOnSet(L, Buckets)
  /\ Available(L2, "PendingUnBond", Blocks) = Available(L, "PendingUnBond", Blocks)

\* A conversion out of a state other than PendingUnBond into buckets of
\* other states keeps the unbond ledger.
LEMMA ConvertKeepsUnbond ==
  ASSUME NEW L \in [Buckets -> Nat], NEW a, NEW k, NEW E, NEW to, k # "PendingUnBond",
         \A c \in Held(k, E) : to[c] \in Buckets /\ to[c][1] # "PendingUnBond",
         NEW L2 \in Convert(L, a, k, E, to)
  PROVE  KeepsUnbond(L, L2)
BY ConvertKeeps, ConvertApart DEF KeepsUnbond

\* Two such steps in a row are one.
LEMMA KeepsUnbondTrans ==
  ASSUME NEW L, NEW L1, NEW L2, KeepsUnbond(L, L1), KeepsUnbond(L1, L2)
  PROVE  KeepsUnbond(L, L2)
BY DEF KeepsUnbond

\* The targets of the conversions: a bucket of state t, at block 0 or at
\* the source's block.
LEMMA TargetsInBuckets ==
  ASSUME NEW t \in NodeStates, NEW c \in Buckets
  PROVE  /\ To0(t)[c] \in Buckets /\ To0(t)[c][1] = t
         /\ KeepBlock(t)[c] \in Buckets /\ KeepBlock(t)[c][1] = t
BY MaxBlockAssumption DEF To0, KeepBlock, Buckets, Blocks

\* Issuing a call into a free slot adds what the call owes and keeps
\* every outstanding unBond call.
LEMMA IssueFacts ==
  ASSUME TypeOK, NEW call \in Calls, Issue(call)
  PROVE  /\ calls' \in [Slots -> Calls]
         /\ SumFunctionOnSet(Owed', Slots) =
              SumFunctionOnSet(Owed, Slots)
                + Amount(IF call.endpoint = "unBond" THEN call.nodes ELSE {})
         /\ \A y \in Slots : UnbondNodes(y) \subseteq UnbondNodes(y)'
         /\ call.endpoint = "unBond" => \E y \in Slots : UnbondNodes(y)' = call.nodes
<1>1. PICK s \in Slots : calls[s] = NoCall /\ calls' = [calls EXCEPT ![s] = call]
  BY DEF Issue
<1>2. Owed[s] = 0
  BY <1>1, StakeAssumption, FS_EmptySet DEF Owed, UnbondNodes, NoCall, Amount
<1>3. SumFunctionOnSet(Owed', Slots) =
        SumFunctionOnSet(Owed, Slots) - Owed[s]
          + Amount(IF call.endpoint = "unBond" THEN call.nodes ELSE {})
  BY <1>1, OwedUpdate
<1>4. \A y \in Slots : UnbondNodes(y) \subseteq UnbondNodes(y)'
  <2> SUFFICES ASSUME NEW y \in Slots PROVE UnbondNodes(y) \subseteq UnbondNodes(y)'
    OBVIOUS
  <2>1. CASE y = s
    <3>1. UnbondNodes(y) = {}
      BY <1>1, <2>1 DEF UnbondNodes, NoCall
    <3>2. QED
      BY <3>1
  <2>2. CASE y # s
    <3>1. calls'[y] = calls[y]
      BY <1>1, <2>2 DEF TypeOK
    <3>2. QED
      BY <3>1 DEF UnbondNodes
  <2>3. QED
    BY <2>1, <2>2
<1>5. call.endpoint = "unBond" => UnbondNodes(s)' = call.nodes
  BY <1>1 DEF UnbondNodes, TypeOK
<1>6. calls' \in [Slots -> Calls]
  BY <1>1 DEF TypeOK
<1>7. SumFunctionOnSet(Owed, Slots) \in Nat
  BY OwedNat
<1>8. QED
  BY <1>2, <1>3, <1>4, <1>5, <1>6, <1>7

\* Consuming the call of slot s drops what it owes; every other unBond
\* call stays outstanding.
LEMMA ConsumeFacts ==
  ASSUME TypeOK, NEW s \in Slots, calls' = [calls EXCEPT ![s] = NoCall]
  PROVE  /\ calls' \in [Slots -> Calls]
         /\ SumFunctionOnSet(Owed', Slots) = SumFunctionOnSet(Owed, Slots) - Owed[s]
         /\ \A y \in Slots \ {s} : UnbondNodes(y)' = UnbondNodes(y)
         /\ UnbondNodes(s)' = {}
<1>1. NoCall \in Calls
  BY DEF NoCall, Calls
<1>2. SumFunctionOnSet(Owed', Slots) = SumFunctionOnSet(Owed, Slots) - Owed[s] + Amount({})
  BY <1>1, OwedUpdate DEF NoCall
<1>3. Amount({}) = 0
  BY StakeAssumption, FS_EmptySet DEF Amount
<1>4. calls' \in [Slots -> Calls]
  BY <1>1 DEF TypeOK
<1>5. \A y \in Slots \ {s} : UnbondNodes(y)' = UnbondNodes(y)
  <2> SUFFICES ASSUME NEW y \in Slots \ {s} PROVE UnbondNodes(y)' = UnbondNodes(y)
    OBVIOUS
  <2>1. calls'[y] = calls[y]
    BY DEF TypeOK
  <2>2. QED
    BY <2>1 DEF UnbondNodes
<1>6. UnbondNodes(s)' = {}
  BY DEF TypeOK, UnbondNodes, NoCall
<1>7. SumFunctionOnSet(Owed, Slots) \in Nat /\ Owed[s] \in Nat
  BY OwedNat
<1>8. QED
  BY <1>2, <1>3, <1>4, <1>5, <1>6, <1>7

\* The typed ledger is natural and so is every total of it.
LEMMA StakeNat ==
  ASSUME TypeOK
  PROVE  /\ stake \in [Buckets -> Nat]
         /\ \A k, E : Available(stake, k, E) \in Nat
<1>1. stake \in [Buckets -> Nat]
  BY StakeAssumption DEF TypeOK, Amounts
<1>2. QED
  BY <1>1, AvailableNat DEF Available, Held

\* A natural ledger within the total bound holds an amount in every bucket.
LEMMA LedgerAmounts ==
  ASSUME NEW L \in [Buckets -> Nat], SumFunctionOnSet(L, Buckets) <= MaxStake
  PROVE  L \in [Buckets -> Amounts]
<1>1. \A b \in Buckets : L[b] <= SumFunctionOnSet(L, Buckets)
  BY BucketsFinite, SumBound
<1>2. SumFunctionOnSet(L, Buckets) \in Nat
  BY AvailableNat
<1>3. QED
  BY <1>1, <1>2, StakeAssumption DEF Amounts

(***************************************************************************)
(* A step that moves no node into PendingUnBond, keeps the unbond ledger, *)
(* keeps every outstanding unBond call and owes no more preserves the     *)
(* invariant.                                                              *)
(***************************************************************************)
LEMMA QuietStep ==
  ASSUME VInv,
         nodeState' \in [StoredIds -> NodeStates],
         \A n \in StoredIds : nodeState'[n] = "PendingUnBond" => nodeState[n] = "PendingUnBond",
         unstakeNonce' \in [StoredIds -> Blocks], blockNonce' \in Blocks,
         KeepsUnbond(stake, stake'),
         calls' \in [Slots -> Calls],
         \A y \in Slots : UnbondNodes(y) \subseteq UnbondNodes(y)',
         SumFunctionOnSet(Owed', Slots) \in Nat,
         SumFunctionOnSet(Owed', Slots) <= SumFunctionOnSet(Owed, Slots)
  PROVE  VInv'
<1>1. stake' \in [Buckets -> Nat] /\ SumFunctionOnSet(stake', Buckets) <= MaxStake
  BY DEF KeepsUnbond, VInv, LedgerBounded
<1>2. TypeOK'
  BY <1>1, LedgerAmounts DEF TypeOK
<1>3. UnbondCalled'
  BY DEF VInv, UnbondCalled
<1>4. OwedBacked'
  <2>1. SumFunctionOnSet(Owed, Slots) \in Nat
    BY OwedNat DEF VInv
  <2>2. Available(stake', "PendingUnBond", Blocks) = Available(stake, "PendingUnBond", Blocks)
    BY DEF KeepsUnbond
  <2>3. Available(stake, "PendingUnBond", Blocks) \in Nat
    BY StakeNat DEF VInv
  <2>4. QED
    BY <2>1, <2>2, <2>3 DEF VInv, OwedBacked
<1>5. QED
  BY <1>1, <1>2, <1>3, <1>4 DEF VInv, LedgerBounded

\* A step that issues a call other than unBond and otherwise moves no node
\* into PendingUnBond and keeps the unbond ledger preserves the invariant.
LEMMA QuietIssue ==
  ASSUME VInv, NEW call \in Calls, call.endpoint # "unBond", Issue(call),
         nodeState' \in [StoredIds -> NodeStates],
         \A n \in StoredIds : nodeState'[n] = "PendingUnBond" => nodeState[n] = "PendingUnBond",
         unstakeNonce' \in [StoredIds -> Blocks], blockNonce' \in Blocks,
         KeepsUnbond(stake, stake')
  PROVE  VInv'
<1>1. /\ calls' \in [Slots -> Calls]
      /\ SumFunctionOnSet(Owed', Slots) = SumFunctionOnSet(Owed, Slots) + Amount({})
      /\ \A y \in Slots : UnbondNodes(y) \subseteq UnbondNodes(y)'
  BY IssueFacts DEF VInv
<1>2. Amount({}) = 0 /\ SumFunctionOnSet(Owed, Slots) \in Nat
  BY OwedNat, StakeAssumption, FS_EmptySet DEF Amount, VInv
<1>3. QED
  BY <1>1, <1>2, QuietStep

\* A callback of a call other than unBond that moves no node into
\* PendingUnBond and keeps the unbond ledger preserves the invariant.
LEMMA QuietConsume ==
  ASSUME VInv, NEW s \in Slots, calls[s].endpoint # "unBond",
         calls' = [calls EXCEPT ![s] = NoCall],
         nodeState' \in [StoredIds -> NodeStates],
         \A n \in StoredIds : nodeState'[n] = "PendingUnBond" => nodeState[n] = "PendingUnBond",
         unstakeNonce' \in [StoredIds -> Blocks], blockNonce' \in Blocks,
         KeepsUnbond(stake, stake')
  PROVE  VInv'
<1>1. /\ calls' \in [Slots -> Calls]
      /\ SumFunctionOnSet(Owed', Slots) = SumFunctionOnSet(Owed, Slots) - Owed[s]
      /\ \A y \in Slots \ {s} : UnbondNodes(y)' = UnbondNodes(y)
  BY ConsumeFacts DEF VInv
<1>2. UnbondNodes(s) = {}
  BY DEF UnbondNodes
<1>3. \A y \in Slots : UnbondNodes(y) \subseteq UnbondNodes(y)'
  BY <1>1, <1>2
<1>4. Owed[s] = 0 /\ SumFunctionOnSet(Owed, Slots) \in Nat
  <2>1. Owed[s] = Amount(UnbondNodes(s))
    BY DEF Owed
  <2>2. Amount({}) = 0
    BY StakeAssumption, FS_EmptySet DEF Amount
  <2>3. SumFunctionOnSet(Owed, Slots) \in Nat
    BY OwedNat DEF VInv
  <2> HIDE DEF UnbondNodes, Owed
  <2>4. QED
    BY <1>2, <2>1, <2>2, <2>3
<1>5. QED
  BY <1>1, <1>3, <1>4, QuietStep

\* Setting nodes to a state other than PendingUnBond.
LEMMA SetStatesFacts ==
  ASSUME TypeOK, NEW S, NEW j \in NodeStates, j # "PendingUnBond"
  PROVE  /\ SetStates(S, j) \in [StoredIds -> NodeStates]
         /\ \A n \in StoredIds : SetStates(S, j)[n] = "PendingUnBond" => nodeState[n] = "PendingUnBond"
BY DEF SetStates, TypeOK

\* The keys of a key list are stored ids.
LEMMA KeysIds ==
  ASSUME NEW keys \in KeyLists
  PROVE  ToSet(keys) \in SUBSET StoredIds
BY DEF KeyLists, SeqOf, ToSet, Keys

-----------------------------------------------------------------------------
(* THE STEPS *)

\* stake_nodes: Inactive stake moves to PendingActivation.
LEMMA StakeNodesStep ==
  ASSUME VInv, NEW keys \in KeyLists, stake_nodes(keys)
  PROVE  VInv'
<1> DEFINE S == ToSet(keys)
<1>1. S \in SUBSET StoredIds
  BY KeysIds
<1>2. /\ nodeState' = SetStates(S, "PendingActivation")
      /\ stake' \in Convert(stake, Amount(S), "Inactive", Blocks, To0("PendingActivation"))
      /\ Issue([endpoint |-> "stake", nodes |-> S])
      /\ UNCHANGED <<unstakeNonce, blockNonce>>
  BY DEF stake_nodes, perform_stake_nodes, activate_start_transf
<1>3. KeepsUnbond(stake, stake')
  <2>1. \A c \in Held("Inactive", Blocks) :
          To0("PendingActivation")[c] \in Buckets /\ To0("PendingActivation")[c][1] # "PendingUnBond"
    BY TargetsInBuckets DEF Held, NodeStates
  <2>2. QED
    BY <1>2, <2>1, StakeNat, ConvertKeepsUnbond DEF VInv
<1>4. [endpoint |-> "stake", nodes |-> S] \in Calls
  BY <1>1 DEF Calls, Endpoints
<1> HIDE DEF S
<1>5. QED
  BY <1>2, <1>3, <1>4, SetStatesFacts, QuietIssue DEF VInv, TypeOK, NodeStates

\* stake_all_available: the same for the nodes the inactive stake covers.
LEMMA StakeAllStep ==
  ASSUME VInv, stake_all_available
  PROVE  VInv'
<1> DEFINE q == Available(stake, "Inactive", Blocks) \div StakePerNode
           S == {n \in NodeIds :
                   /\ nodeState[n] = "Inactive"
                   /\ Cardinality({m \in 1..(n - 1) : nodeState[m] = "Inactive"}) < q}
<1>0. S \in SUBSET StoredIds
  BY DEF NodeIds, StoredIds
<1>1. /\ nodeState' = SetStates(S, "PendingActivation")
      /\ stake' \in Convert(stake, Amount(S), "Inactive", Blocks, To0("PendingActivation"))
      /\ Issue([endpoint |-> "stake", nodes |-> S])
      /\ UNCHANGED <<unstakeNonce, blockNonce>>
  BY DEF stake_all_available, perform_stake_nodes, activate_start_transf
<1>2. KeepsUnbond(stake, stake')
  <2>1. \A c \in Held("Inactive", Blocks) :
          To0("PendingActivation")[c] \in Buckets /\ To0("PendingActivation")[c][1] # "PendingUnBond"
    BY TargetsInBuckets DEF Held, NodeStates
  <2>2. QED
    BY <1>1, <2>1, StakeNat, ConvertKeepsUnbond DEF VInv
<1>3. [endpoint |-> "stake", nodes |-> S] \in Calls
  BY <1>0 DEF Calls, Endpoints
<1> HIDE DEF S, q
<1>4. QED
  BY <1>1, <1>2, <1>3, SetStatesFacts, QuietIssue DEF VInv, TypeOK, NodeStates

\* unstake_nodes: Active stake moves to PendingDeactivation.
LEMMA UnstakeNodesStep ==
  ASSUME VInv, NEW keys \in KeyLists, unstake_nodes(keys)
  PROVE  VInv'
<1> DEFINE S == ToSet(keys)
<1>1. S \in SUBSET StoredIds
  BY KeysIds
<1>2. /\ nodeState' = SetStates(S, "PendingDeactivation")
      /\ stake' \in Convert(stake, Len(keys) * StakePerNode, "Active", Blocks,
                            To0("PendingDeactivation"))
      /\ Issue([endpoint |-> "unStake", nodes |-> S])
      /\ UNCHANGED <<unstakeNonce, blockNonce>>
  BY DEF unstake_nodes, unstake_start_transf
<1>3. KeepsUnbond(stake, stake')
  <2>1. \A c \in Held("Active", Blocks) :
          To0("PendingDeactivation")[c] \in Buckets
          /\ To0("PendingDeactivation")[c][1] # "PendingUnBond"
    BY TargetsInBuckets DEF Held, NodeStates
  <2>2. QED
    BY <1>2, <2>1, StakeNat, ConvertKeepsUnbond DEF VInv
<1>4. [endpoint |-> "unStake", nodes |-> S] \in Calls
  BY <1>1 DEF Calls, Endpoints
<1> HIDE DEF S
<1>5. QED
  BY <1>2, <1>3, <1>4, SetStatesFacts, QuietIssue DEF VInv, TypeOK, NodeStates

\* claim_failed_stake only issues the claim call.
LEMMA ClaimFailedStep ==
  ASSUME VInv, claim_failed_stake
  PROVE  VInv'
<1>1. PICK S \in SUBSET StoredIds :
        /\ Issue([endpoint |-> "claim", nodes |-> S])
        /\ UNCHANGED <<nodeState, unstakeNonce, blockNonce, stake>>
  BY DEF claim_failed_stake, NodeIds, StoredIds
<1>2. KeepsUnbond(stake, stake')
  BY <1>1, StakeNat DEF KeepsUnbond, VInv
<1>3. [endpoint |-> "claim", nodes |-> S] \in Calls
  BY DEF Calls, Endpoints
<1>4. QED
  BY <1>1, <1>2, <1>3, QuietIssue DEF VInv, TypeOK

\* Two conversions in a row, each keeping the unbond ledger.
LEMMA TwoConvertsKeepUnbond ==
  ASSUME NEW L \in [Buckets -> Nat], NEW k, NEW E, k # "PendingUnBond",
         NEW a1, NEW to1, \A c \in Held(k, E) : to1[c] \in Buckets /\ to1[c][1] # "PendingUnBond",
         NEW a2, NEW to2, \A c \in Held(k, E) : to2[c] \in Buckets /\ to2[c][1] # "PendingUnBond",
         NEW mid \in Convert(L, a1, k, E, to1), NEW L2 \in Convert(mid, a2, k, E, to2)
  PROVE  KeepsUnbond(L, L2)
<1>1. KeepsUnbond(L, mid)
  BY ConvertKeepsUnbond
<1>2. mid \in [Buckets -> Nat]
  BY <1>1 DEF KeepsUnbond
<1>3. KeepsUnbond(mid, L2)
  BY <1>2, ConvertKeepsUnbond
<1>4. QED
  BY <1>1, <1>3, KeepsUnbondTrans

\* auction_stake_callback: PendingActivation stake moves to Active and to
\* ActivationFailed.
LEMMA StakeCallbackStep ==
  ASSUME VInv, NEW s \in Slots, auction_stake_callback(s)
  PROVE  VInv'
<1> DEFINE ids == calls[s].nodes
<1>1. PICK ok \in SUBSET ids :
        /\ nodeState' = [n \in StoredIds |->
                           CASE n \in ok       -> "Active"
                             [] n \in ids \ ok -> "ActivationFailed"
                             [] OTHER          -> nodeState[n]]
        /\ \E mid \in activate_finish_ok_transf(stake, Amount(ok)) :
             stake' \in activate_finish_fail_transf(mid, Amount(ids \ ok))
  BY DEF auction_stake_callback
<1>2. /\ calls[s].endpoint = "stake"
      /\ calls' = [calls EXCEPT ![s] = NoCall]
      /\ UNCHANGED <<unstakeNonce, blockNonce>>
  BY DEF auction_stake_callback
<1>3. KeepsUnbond(stake, stake')
  <2>1. PICK mid \in Convert(stake, Amount(ok), "PendingActivation", Blocks, To0("Active")) :
          stake' \in Convert(mid, Amount(ids \ ok), "PendingActivation", Blocks,
                             To0("ActivationFailed"))
    BY <1>1 DEF activate_finish_ok_transf, activate_finish_fail_transf
  <2>2. /\ \A c \in Held("PendingActivation", Blocks) :
             To0("Active")[c] \in Buckets /\ To0("Active")[c][1] # "PendingUnBond"
        /\ \A c \in Held("PendingActivation", Blocks) :
             To0("ActivationFailed")[c] \in Buckets
             /\ To0("ActivationFailed")[c][1] # "PendingUnBond"
    BY TargetsInBuckets DEF Held, NodeStates
  <2>3. QED
    BY <2>1, <2>2, StakeNat, TwoConvertsKeepUnbond DEF VInv
<1>4. /\ nodeState' \in [StoredIds -> NodeStates]
      /\ \A n \in StoredIds : nodeState'[n] = "PendingUnBond" => nodeState[n] = "PendingUnBond"
  BY <1>1 DEF VInv, TypeOK, NodeStates
<1>5. QED
  BY <1>2, <1>3, <1>4, QuietConsume DEF VInv, TypeOK

\* auction_unstake_callback: PendingDeactivation stake moves to UnBondPeriod
\* at the current block and back to Active.
LEMMA UnstakeCallbackStep ==
  ASSUME VInv, NEW s \in Slots, auction_unstake_callback(s)
  PROVE  VInv'
<1> DEFINE ids == calls[s].nodes
           AtNonce == [c \in Buckets |-> <<"UnBondPeriod", blockNonce>>]
<1>1. PICK ok \in SUBSET ids :
        /\ nodeState' = [n \in StoredIds |->
                           CASE n \in ok       -> "UnBondPeriod"
                             [] n \in ids \ ok -> "Active"
                             [] OTHER          -> nodeState[n]]
        /\ unstakeNonce' = [n \in StoredIds |->
                              IF n \in ok THEN blockNonce ELSE unstakeNonce[n]]
        /\ \E mid \in unstake_finish_ok_transf(stake, Amount(ok)) :
             stake' \in unstake_finish_fail_transf(mid, Amount(ids \ ok))
  BY DEF auction_unstake_callback
<1>2. /\ calls[s].endpoint = "unStake"
      /\ calls' = [calls EXCEPT ![s] = NoCall]
      /\ UNCHANGED blockNonce
  BY DEF auction_unstake_callback
<1>3. KeepsUnbond(stake, stake')
  <2>1. PICK mid \in Convert(stake, Amount(ok), "PendingDeactivation", Blocks, AtNonce) :
          stake' \in Convert(mid, Amount(ids \ ok), "PendingDeactivation", Blocks, To0("Active"))
    BY <1>1 DEF unstake_finish_ok_transf, unstake_finish_fail_transf
  <2>2. /\ \A c \in Held("PendingDeactivation", Blocks) :
             AtNonce[c] \in Buckets /\ AtNonce[c][1] # "PendingUnBond"
        /\ \A c \in Held("PendingDeactivation", Blocks) :
             To0("Active")[c] \in Buckets /\ To0("Active")[c][1] # "PendingUnBond"
    BY TargetsInBuckets DEF Held, NodeStates, Buckets, VInv, TypeOK
  <2> HIDE DEF AtNonce
  <2>3. QED
    BY <2>1, <2>2, StakeNat, TwoConvertsKeepUnbond DEF VInv
<1>4. /\ nodeState' \in [StoredIds -> NodeStates]
      /\ \A n \in StoredIds : nodeState'[n] = "PendingUnBond" => nodeState[n] = "PendingUnBond"
      /\ unstakeNonce' \in [StoredIds -> Blocks]
  BY <1>1 DEF VInv, TypeOK, NodeStates
<1>5. QED
  BY <1>2, <1>3, <1>4, QuietConsume DEF VInv, TypeOK

\* auction_claim_callback: on Ok, ActivationFailed stake moves to Inactive.
LEMMA ClaimCallbackStep ==
  ASSUME VInv, NEW s \in Slots, auction_claim_callback(s)
  PROVE  VInv'
<1> DEFINE ids == calls[s].nodes
<1>1. /\ calls[s].endpoint = "claim"
      /\ calls' = [calls EXCEPT ![s] = NoCall]
      /\ UNCHANGED <<unstakeNonce, blockNonce>>
  BY DEF auction_claim_callback
<1>2. CASE /\ nodeState' = SetStates(ids, "Inactive")
           /\ stake' \in claim_activation_failed_transf(stake, Amount(ids))
  <2>1. KeepsUnbond(stake, stake')
    <3>1. \A c \in Held("ActivationFailed", Blocks) :
            To0("Inactive")[c] \in Buckets /\ To0("Inactive")[c][1] # "PendingUnBond"
      BY TargetsInBuckets DEF Held, NodeStates
    <3>2. QED
      BY <1>2, <3>1, StakeNat, ConvertKeepsUnbond DEF claim_activation_failed_transf, VInv
  <2>2. QED
    BY <1>1, <1>2, <2>1, SetStatesFacts, QuietConsume DEF VInv, TypeOK, NodeStates
<1>3. CASE UNCHANGED <<nodeState, stake>>
  <2>1. KeepsUnbond(stake, stake')
    BY <1>3, StakeNat DEF KeepsUnbond, VInv
  <2>2. QED
    BY <1>1, <1>3, <2>1, QuietConsume DEF VInv, TypeOK
<1>4. QED
  BY <1>2, <1>3 DEF auction_claim_callback

\* A new block changes nothing the invariant is about.
LEMMA NewBlockStep ==
  ASSUME VInv, NewBlock
  PROVE  VInv'
<1>1. blockNonce' \in Blocks
  BY MaxBlockAssumption DEF NewBlock, VInv, TypeOK, Blocks
<1>2. KeepsUnbond(stake, stake')
  BY StakeNat DEF NewBlock, KeepsUnbond, VInv
<1>3. \A y \in Slots : UnbondNodes(y) \subseteq UnbondNodes(y)'
  BY DEF NewBlock, UnbondNodes
<1>4. Owed' = Owed /\ SumFunctionOnSet(Owed, Slots) \in Nat
  BY OwedNat DEF NewBlock, Owed, UnbondNodes, VInv
<1>5. QED
  BY <1>1, <1>2, <1>3, <1>4, QuietStep DEF NewBlock, VInv, TypeOK

\* A deposit or a withdrawal changes the free bucket by d, within the bound
\* on the total; it is not a PendingUnBond bucket.
LEMMA FreeStep ==
  ASSUME VInv, NEW d \in Int,
         stake' = [stake EXCEPT ![Free] = stake[Free] + d],
         stake[Free] + d >= 0, SumFunctionOnSet(stake, Buckets) + d <= MaxStake,
         UNCHANGED <<nodeState, unstakeNonce, blockNonce, calls>>
  PROVE  VInv'
<1>1. Free \in Buckets /\ Free \notin Held("PendingUnBond", Blocks)
  BY MaxBlockAssumption DEF Free, Buckets, Blocks, NodeStates, Held
<1>2. stake \in [Buckets -> Nat]
  BY StakeNat DEF VInv
<1>3. stake' \in [Buckets -> Nat]
  BY <1>1, <1>2
<1>4. SumFunctionOnSet(stake', Buckets) = SumFunctionOnSet(stake, Buckets) + d
  <2>1. stake'[Free] = stake[Free] + d /\ \A y \in Buckets \ {Free} : stake'[y] = stake[y]
    BY <1>1, <1>2
  <2>2. \A y \in Buckets : stake[y] \in Int
    BY <1>2
  <2>3. \A m2 : m2[Free] = stake[Free] + d /\ (\A y \in Buckets \ {Free} : m2[y] = stake[y])
                 => SumFunctionOnSet(m2, Buckets) = SumFunctionOnSet(stake, Buckets) + d
    BY <1>1, <2>2, BucketsFinite, SumExcept
  <2>4. QED
    BY <2>1, <2>3
<1>5. Available(stake', "PendingUnBond", Blocks) = Available(stake, "PendingUnBond", Blocks)
  <2>1. \A y \in Held("PendingUnBond", Blocks) : stake'[y] = stake[y]
    BY <1>1, <1>2 DEF Held
  <2>2. IsFiniteSet(Held("PendingUnBond", Blocks))
    BY BucketsFinite, FS_Subset DEF Held
  <2>3. QED
    BY <2>1, <2>2, SumCongruence DEF Available
<1>6. TypeOK'
  BY <1>3, <1>4, LedgerAmounts DEF VInv, TypeOK
<1>7. UnbondCalled' /\ Owed' = Owed
  BY DEF VInv, UnbondCalled, UnbondNodes, Owed
<1>8. QED
  BY <1>4, <1>5, <1>6, <1>7 DEF VInv, LedgerBounded, OwedBacked

\* A deposit or a withdrawal of d units, as FreeStep states it.
FreeChange(d) ==
  /\ stake' = [stake EXCEPT ![Free] = stake[Free] + d]
  /\ stake[Free] + d >= 0 /\ SumFunctionOnSet(stake, Buckets) + d <= MaxStake
  /\ UNCHANGED <<nodeState, unstakeNonce, blockNonce, calls>>

LEMMA FreeChangeStep ==
  ASSUME VInv, NEW d \in Int, FreeChange(d)
  PROVE  VInv'
BY FreeStep DEF FreeChange

\* Deposit: one more unit of free stake, under the deposit bound.
LEMMA DepositStep ==
  ASSUME VInv, Deposit
  PROVE  VInv'
<1>1. SumFunction(stake) = SumFunctionOnSet(stake, Buckets)
  BY DEF VInv, TypeOK, SumFunction
<1>2. stake[Free] \in Nat /\ SumFunctionOnSet(stake, Buckets) \in Nat
  BY StakeNat, AvailableNat, MaxBlockAssumption DEF VInv, Free, Buckets, Blocks, NodeStates
<1>3. FreeChange(1)
  BY <1>1, <1>2, StakeAssumption DEF Deposit, FreeChange
<1>4. QED
  BY <1>3, FreeChangeStep

\* Withdraw: one unit less of free stake, which the free bucket holds.
LEMMA WithdrawStep ==
  ASSUME VInv, Withdraw
  PROVE  VInv'
<1>1. SumFunctionOnSet(stake, Buckets) \in Nat /\ SumFunctionOnSet(stake, Buckets) <= MaxStake
  BY StakeNat, AvailableNat DEF VInv, LedgerBounded
<1>2. stake[Free] \in Nat
  BY StakeNat, MaxBlockAssumption DEF VInv, Free, Buckets, Blocks, NodeStates
<1>3. FreeChange(-1)
  <2>1. stake[Free] - 1 = stake[Free] + (-1)
    BY <1>2
  <2>2. stake' = [stake EXCEPT ![Free] = stake[Free] + (-1)]
    BY <2>1 DEF Withdraw
  <2>3. stake[Free] + (-1) >= 0 /\ SumFunctionOnSet(stake, Buckets) + (-1) <= MaxStake
    BY <1>1, <1>2, StakeAssumption DEF Withdraw
  <2>4. QED
    BY <2>2, <2>3 DEF Withdraw, FreeChange
<1>4. QED
  BY <1>3, FreeChangeStep


\* perform_unbond for a set S of nodes that the caller sets PendingUnBond:
\* the guard makes the due UnBondPeriod funds cover Amount(S), all of it
\* moves into PendingUnBond, and the new unBond call owes exactly that.
LEMMA UnbondIssue ==
  ASSUME VInv, NEW S \in SUBSET StoredIds,
         nodeState' = SetStates(S, "PendingUnBond"),
         perform_unbond(S),
         UNCHANGED <<unstakeNonce, blockNonce>>
  PROVE  VInv'
<1> DEFINE call == [endpoint |-> "unBond", nodes |-> S]
           a == Amount(S)
           to == KeepBlock("PendingUnBond")
<1>1. /\ Shortfall(stake, a, "UnBondPeriod", DueForUnbond) = 0
      /\ stake' \in Convert(stake, a, "UnBondPeriod", DueForUnbond, to)
      /\ Issue(call)
  BY DEF perform_unbond, unbond_start_transf
<1>2. call \in Calls /\ a \in Nat
  BY AmountNat DEF Calls, Endpoints
<1>3. stake \in [Buckets -> Nat] /\ TypeOK
  BY StakeNat DEF VInv
<1>4. Moved(stake, a, "UnBondPeriod", DueForUnbond) = a
  BY <1>1, <1>2, <1>3, StakeNat, MovedBounds
<1>5. \A c \in Held("UnBondPeriod", DueForUnbond) : to[c] \in Held("PendingUnBond", Blocks)
  BY DEF KeepBlock, Held, Buckets, NodeStates
<1>6. Available(stake', "PendingUnBond", Blocks) = Available(stake, "PendingUnBond", Blocks) + a
  BY <1>1, <1>3, <1>4, <1>5, ConvertInto
<1>7. stake' \in [Buckets -> Nat] /\ SumFunctionOnSet(stake', Buckets) = SumFunctionOnSet(stake, Buckets)
  <2>1. \A c \in Held("UnBondPeriod", DueForUnbond) : to[c] \in Buckets
    BY <1>5 DEF Held
  <2> HIDE DEF to
  <2>2. QED
    BY <1>1, <1>3, <2>1, ConvertKeeps
<1>8. /\ calls' \in [Slots -> Calls]
      /\ SumFunctionOnSet(Owed', Slots) = SumFunctionOnSet(Owed, Slots) + a
      /\ \A y \in Slots : UnbondNodes(y) \subseteq UnbondNodes(y)'
      /\ \E y \in Slots : UnbondNodes(y)' = S
  <2>1. (IF call.endpoint = "unBond" THEN call.nodes ELSE {}) = S /\ call.endpoint = "unBond"
    OBVIOUS
  <2> HIDE DEF call, a
  <2>2. QED
    BY <1>1, <1>2, <1>3, <2>1, IssueFacts DEF a
<1>9. TypeOK'
  <2>1. nodeState' \in [StoredIds -> NodeStates]
    BY <1>3 DEF SetStates, TypeOK, NodeStates
  <2>2. stake' \in [Buckets -> Amounts]
    BY <1>7, LedgerAmounts DEF VInv, LedgerBounded
  <2>3. QED
    BY <1>3, <1>8, <2>1, <2>2 DEF TypeOK
<1>10. UnbondCalled'
  <2> SUFFICES ASSUME NEW n \in StoredIds, nodeState'[n] = "PendingUnBond"
               PROVE  \E y \in Slots : n \in UnbondNodes(y)'
    BY DEF UnbondCalled
  <2>1. CASE n \in S
    BY <1>8, <2>1
  <2>2. CASE n \notin S
    <3>1. nodeState[n] = "PendingUnBond"
      BY <2>2 DEF SetStates
    <3>2. PICK y \in Slots : n \in UnbondNodes(y)
      BY <3>1 DEF VInv, UnbondCalled
    <3>3. QED
      BY <1>8, <3>2
  <2>3. QED
    BY <2>1, <2>2
<1>11. OwedBacked'
  <2>1. SumFunctionOnSet(Owed, Slots) \in Nat /\ Available(stake, "PendingUnBond", Blocks) \in Nat
    BY <1>3, OwedNat, StakeNat
  <2>2. QED
    BY <1>2, <1>6, <1>8, <2>1 DEF VInv, OwedBacked
<1>12. QED
  BY <1>7, <1>9, <1>10, <1>11 DEF VInv, LedgerBounded

\* unbond_nodes: the given UnBondPeriod nodes go to PendingUnBond.
LEMMA UnbondNodesStep ==
  ASSUME VInv, NEW keys \in KeyLists, unbond_nodes(keys)
  PROVE  VInv'
BY KeysIds, UnbondIssue DEF unbond_nodes

\* unbond_all_available: the same for every UnBondPeriod node past the delay.
LEMMA UnbondAllStep ==
  ASSUME VInv, unbond_all_available
  PROVE  VInv'
<1> DEFINE S == {n \in NodeIds :
                   /\ nodeState[n] = "UnBondPeriod"
                   /\ blockNonce >= unstakeNonce[n] + NBlocksBeforeUnbond}
<1>1. S \in SUBSET StoredIds
  BY DEF NodeIds, StoredIds
<1>2. /\ nodeState' = SetStates(S, "PendingUnBond")
      /\ perform_unbond(S)
      /\ UNCHANGED <<unstakeNonce, blockNonce>>
  BY DEF unbond_all_available
<1> HIDE DEF S
<1>3. QED
  BY <1>1, <1>2, UnbondIssue


(***************************************************************************)
(* auction_unbond_callback.  The sc_error! branch ("not enough stake      *)
(* pending unbond") cannot be taken: the call owes Amount(ids), at least  *)
(* Amount(ok), and OwedBacked makes the PendingUnBond funds cover it.  The *)
(* ok part leaves PendingUnBond whole, the rest at most in part, while    *)
(* the consumed call stops owing all of Amount(ids).                      *)
(***************************************************************************)
LEMMA UnbondCallbackStep ==
  ASSUME VInv, NEW s \in Slots, auction_unbond_callback(s)
  PROVE  VInv'
<1> DEFINE ids == calls[s].nodes
           P == "PendingUnBond"
           avail == Available(stake, P, Blocks)
<1>1. PICK ok \in SUBSET ids :
        IF Shortfall(stake, Amount(ok), P, Blocks) = 0
        THEN /\ nodeState' = [n \in StoredIds |->
                                CASE n \in ok       -> "Inactive"
                                  [] n \in ids \ ok -> "UnBondPeriod"
                                  [] OTHER          -> nodeState[n]]
             /\ unstakeNonce' = [n \in StoredIds |->
                                   IF n \in ok THEN 0 ELSE unstakeNonce[n]]
             /\ \E mid \in unbond_finish_ok_transf(stake, Amount(ok)) :
                  stake' \in unbond_finish_fail_transf(mid, Amount(ids \ ok))
        ELSE UNCHANGED <<nodeState, unstakeNonce, stake>>
  BY DEF auction_unbond_callback
<1>2. /\ calls[s].endpoint = "unBond"
      /\ calls' = [calls EXCEPT ![s] = NoCall]
      /\ UNCHANGED blockNonce
  BY DEF auction_unbond_callback
<1>3. /\ TypeOK /\ stake \in [Buckets -> Nat]
      /\ ids \in SUBSET StoredIds
      /\ UnbondNodes(s) = ids /\ Owed[s] = Amount(ids)
  BY <1>2, StakeNat DEF VInv, TypeOK, Calls, UnbondNodes, Owed
<1>4. /\ Amount(ok) \in Nat /\ Amount(ids \ ok) \in Nat /\ Amount(ids) \in Nat
      /\ Amount(ids) = Amount(ok) + Amount(ids \ ok)
  BY <1>3, AmountNat, AmountSplit
<1>5. /\ SumFunctionOnSet(Owed, Slots) \in Nat /\ avail \in Nat
      /\ Owed[s] <= SumFunctionOnSet(Owed, Slots)
      /\ SumFunctionOnSet(Owed, Slots) <= avail
  BY <1>3, OwedNat, StakeNat, SlotsAssumption, SumBound DEF VInv, OwedBacked
<1>6. Shortfall(stake, Amount(ok), P, Blocks) = 0
  BY <1>3, <1>4, <1>5 DEF Shortfall
<1>7. PICK mid \in Convert(stake, Amount(ok), P, Blocks, To0("Inactive")) :
        stake' \in Convert(mid, Amount(ids \ ok), P, Blocks, KeepBlock("UnBondPeriod"))
  BY <1>1, <1>6 DEF unbond_finish_ok_transf, unbond_finish_fail_transf
<1>8. /\ \A c \in Held(P, Blocks) : To0("Inactive")[c] \in Buckets /\ To0("Inactive")[c][1] # P
      /\ \A c \in Held(P, Blocks) : KeepBlock("UnBondPeriod")[c] \in Buckets
                                    /\ KeepBlock("UnBondPeriod")[c][1] # P
  BY TargetsInBuckets DEF Held, NodeStates
<1>9. /\ mid \in [Buckets -> Nat]
      /\ SumFunctionOnSet(mid, Buckets) = SumFunctionOnSet(stake, Buckets)
      /\ Available(mid, P, Blocks) = avail - Amount(ok)
  <2>1. mid \in [Buckets -> Nat] /\ SumFunctionOnSet(mid, Buckets) = SumFunctionOnSet(stake, Buckets)
    BY <1>3, <1>7, <1>8, ConvertKeeps
  <2>2. Moved(stake, Amount(ok), P, Blocks) = Amount(ok)
    BY <1>3, <1>4, <1>6, StakeNat, MovedBounds
  <2>3. QED
    BY <1>3, <1>7, <1>8, <2>1, <2>2, ConvertOut
<1>10. /\ stake' \in [Buckets -> Nat]
       /\ SumFunctionOnSet(stake', Buckets) = SumFunctionOnSet(stake, Buckets)
       /\ Available(stake', P, Blocks) >= Available(mid, P, Blocks) - Amount(ids \ ok)
  <2>1. stake' \in [Buckets -> Nat] /\ SumFunctionOnSet(stake', Buckets) = SumFunctionOnSet(mid, Buckets)
    BY <1>7, <1>8, <1>9, ConvertKeeps
  <2>2. Available(mid, P, Blocks) \in Nat
    BY <1>9, AvailableNat DEF Available, Held
  <2>3. Moved(mid, Amount(ids \ ok), P, Blocks) <= Amount(ids \ ok)
        /\ Moved(mid, Amount(ids \ ok), P, Blocks) \in Nat
    BY <1>4, <2>2, MovedBounds
  <2>4. Available(stake', P, Blocks) = Available(mid, P, Blocks) - Moved(mid, Amount(ids \ ok), P, Blocks)
    BY <1>7, <1>8, <1>9, ConvertOut
  <2>5. QED
    BY <1>4, <1>9, <2>1, <2>2, <2>3, <2>4
<1>11. /\ nodeState' = [n \in StoredIds |->
                          CASE n \in ok       -> "Inactive"
                            [] n \in ids \ ok -> "UnBondPeriod"
                            [] OTHER          -> nodeState[n]]
       /\ unstakeNonce' = [n \in StoredIds |-> IF n \in ok THEN 0 ELSE unstakeNonce[n]]
  BY <1>1, <1>6
<1>12. /\ calls' \in [Slots -> Calls]
       /\ SumFunctionOnSet(Owed', Slots) = SumFunctionOnSet(Owed, Slots) - Owed[s]
       /\ \A y \in Slots \ {s} : UnbondNodes(y)' = UnbondNodes(y)
  BY <1>2, <1>3, ConsumeFacts
<1>13. TypeOK'
  <2>1. nodeState' \in [StoredIds -> NodeStates] /\ unstakeNonce' \in [StoredIds -> Blocks]
    BY <1>3, <1>11, MaxBlockAssumption DEF TypeOK, NodeStates, Blocks
  <2>2. stake' \in [Buckets -> Amounts]
    BY <1>9, <1>10, LedgerAmounts DEF VInv, LedgerBounded
  <2>3. QED
    BY <1>2, <1>3, <1>12, <2>1, <2>2 DEF TypeOK
<1>14. UnbondCalled'
  <2> SUFFICES ASSUME NEW n \in StoredIds, nodeState'[n] = "PendingUnBond"
               PROVE  \E y \in Slots : n \in UnbondNodes(y)'
    BY DEF UnbondCalled
  <2>1. n \notin ids /\ nodeState[n] = "PendingUnBond"
    BY <1>11
  <2>2. PICK y \in Slots : n \in UnbondNodes(y)
    BY <2>1 DEF VInv, UnbondCalled
  <2>3. y # s
    BY <1>3, <2>1, <2>2
  <2>4. QED
    BY <1>12, <2>2, <2>3
<1>15. OwedBacked'
  <2>1. SumFunctionOnSet(Owed', Slots) <= Available(stake', P, Blocks)
    <3> DEFINE o == SumFunctionOnSet(Owed, Slots)
               o2 == SumFunctionOnSet(Owed', Slots)
               a1 == Amount(ok)
               a2 == Amount(ids \ ok)
               v1 == Available(mid, P, Blocks)
               v2 == Available(stake', P, Blocks)
    <3>1. o2 = o - (a1 + a2)
      BY <1>3, <1>4, <1>12
    <3>2. v1 = avail - a1 /\ v2 >= v1 - a2
      BY <1>9, <1>10
    <3>3. o \in Nat /\ avail \in Nat /\ o <= avail /\ a1 \in Nat /\ a2 \in Nat
      BY <1>4, <1>5
    <3>4. v2 \in Nat
      BY <1>10, AvailableNat DEF Available, Held
    <3> HIDE DEF o, o2, a1, a2, v1, v2, avail
    <3>5. o2 <= v2
      BY <3>1, <3>2, <3>3, <3>4
    <3>6. QED
      BY <3>5 DEF o2, v2
  <2>2. QED
    BY <2>1 DEF OwedBacked
<1>16. QED
  BY <1>9, <1>10, <1>13, <1>14, <1>15 DEF VInv, LedgerBounded


\* A step that changes nothing keeps VInv.
LEMMA StutterStep ==
  ASSUME VInv, UNCHANGED vars
  PROVE  VInv'
BY DEF VInv, vars, TypeOK, LedgerBounded, UnbondCalled, OwedBacked, Owed, UnbondNodes,
       Available, Held

\* Every step of the system keeps VInv.
LEMMA NextVInv ==
  ASSUME VInv, [Next]_vars
  PROVE  VInv'
<1>1. CASE Command
  BY <1>1, StakeNodesStep, StakeAllStep, UnstakeNodesStep, UnbondNodesStep, UnbondAllStep,
     ClaimFailedStep DEF Command
<1>2. CASE \E s \in Slots : Callback(s)
  BY <1>2, StakeCallbackStep, UnstakeCallbackStep, UnbondCallbackStep, ClaimCallbackStep
     DEF Callback
<1>3. CASE NewBlock
  BY <1>3, NewBlockStep
<1>4. CASE Deposit
  BY <1>4, DepositStep
<1>5. CASE Withdraw
  BY <1>5, WithdrawStep
<1>6. CASE UNCHANGED vars
  BY <1>6, StutterStep
<1>7. QED
  BY <1>1, <1>2, <1>3, <1>4, <1>5, <1>6 DEF Next

\* VInv implies UnbondBacked: the PendingUnBond nodes lie in the union of
\* the outstanding unBond calls' node sets, whose stake is at most what the
\* calls owe, which the PendingUnBond funds cover.
LEMMA VInvUnbondBacked ==
  ASSUME VInv
  PROVE  UnbondBacked
<1> DEFINE F == [s \in Slots |-> UnbondNodes(s)]
           U == UNION {F[s] : s \in Slots}
           N == NodesIn("PendingUnBond")
<1>1. /\ TypeOK
      /\ \A s \in Slots : UnbondNodes(s) \in SUBSET StoredIds
  BY DEF VInv, TypeOK, UnbondNodes, Calls
<1>2. \A s \in Slots : IsFiniteSet(F[s]) /\ Owed[s] = Cardinality(F[s]) * StakePerNode
  BY <1>1, AmountNat DEF Owed, Amount
<1>3. IsFiniteSet(U) /\ Cardinality(U) * StakePerNode <= SumFunctionOnSet(Owed, Slots)
  <2> HIDE DEF F
  <2>1. QED
    BY <1>2, SlotsAssumption, StakeAssumption, UnionCard
<1>4. N \subseteq U
  BY DEF VInv, UnbondCalled, NodesIn
<1>5. IsFiniteSet(N) /\ Cardinality(N) <= Cardinality(U) /\ Cardinality(U) \in Nat
  BY <1>3, <1>4, FS_Subset, FS_CardinalityType
<1>6. Cardinality(N) * StakePerNode <= Cardinality(U) * StakePerNode
  BY <1>5, FS_CardinalityType, StakeAssumption
<1>7. SumFunctionOnSet(Owed, Slots) <= Available(stake, "PendingUnBond", Blocks)
      /\ SumFunctionOnSet(Owed, Slots) \in Nat
      /\ Available(stake, "PendingUnBond", Blocks) \in Nat
  BY <1>1, OwedNat, StakeNat DEF VInv, OwedBacked
<1> HIDE DEF F, U, N
<1>8. QED
  BY <1>3, <1>5, <1>6, <1>7, FS_CardinalityType, StakeAssumption DEF UnbondBacked, Amount, N

(***************************************************************************)
(* The PendingUnBond funds always cover stake_per_node for every node in  *)
(* PendingUnBond, so the ok part of auction_unbond_callback never fails   *)
(* with "not enough stake pending unbond", for every number of nodes,     *)
(* slots, blocks, stake per node and unbond delay.                         *)
(***************************************************************************)
THEOREM UnbondBackedInvariant == Spec => [](TypeOK /\ UnbondBacked)
<1>1. Init => VInv
  BY InitVInv
<1>2. VInv /\ [Next]_vars => VInv'
  BY NextVInv
<1>3. VInv => TypeOK /\ UnbondBacked
  BY VInvUnbondBacked DEF VInv
<1>4. QED
  BY <1>1, <1>2, <1>3, PTL DEF Spec

=============================================================================
