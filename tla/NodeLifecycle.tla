--------------------------- MODULE NodeLifecycle ---------------------------
(***************************************************************************)
(* What the node activation state machine promises, without its async    *)
(* plumbing: every node follows the lifecycle                             *)
(*     Inactive -> Active -> UnBondPeriod { started } -> Inactive          *)
(* where `started` is the block at which the node left Active, and any    *)
(* set of nodes can take the same step at once (one callback confirms a  *)
(* whole batch).  The Pending states of the implementation, and the      *)
(* failed requests that return a node to where it was, are invisible     *)
(* here: they are stuttering steps.                                       *)
(***************************************************************************)
EXTENDS Naturals

CONSTANTS NumNodes, MaxBlock

VARIABLES lifecycle, blockNonce

NodeIds == 1..NumNodes

Inactive        == [kind |-> "Inactive",     started |-> 0]
Active          == [kind |-> "Active",       started |-> 0]
UnBondPeriod(b) == [kind |-> "UnBondPeriod", started |-> b]

\* The nodes of S, all in state `from`, move to state To(n).
Move(S, from, To(_)) ==
  /\ \A n \in S : lifecycle[n].kind = from
  /\ lifecycle' = [n \in NodeIds |-> IF n \in S THEN To(n) ELSE lifecycle[n]]
  /\ UNCHANGED blockNonce

Activate(S)   == Move(S, "Inactive", LAMBDA n : Active)
Deactivate(S) == Move(S, "Active", LAMBDA n : UnBondPeriod(blockNonce))
Unbond(S)     == Move(S, "UnBondPeriod", LAMBDA n : Inactive)

Tick ==
  /\ blockNonce < MaxBlock
  /\ blockNonce' = blockNonce + 1
  /\ UNCHANGED lifecycle

Init ==
  /\ lifecycle = [n \in NodeIds |-> Inactive]
  /\ blockNonce = 0

Next ==
  \/ \E S \in SUBSET NodeIds : Activate(S) \/ Deactivate(S) \/ Unbond(S)
  \/ Tick

Spec == Init /\ [][Next]_<<lifecycle, blockNonce>>
=============================================================================
