------------------------ MODULE MC_NodeActivationV04 ------------------------
(* Model-checking instance of NodeActivationV04: one node and the       *)
(* unknown-key id 0, which the code also stores; two call slots, so that *)
(* a claim can be retried while the first is outstanding; stake_per_node *)
(* of one unit and two units of deposits, enough to fund both stored ids *)
(* or to stake one without funds; an unbond delay of one block and blocks *)
(* 0..2, so that a node unstaked at block 0 is exactly at the delay at    *)
(* block 1 and past it at block 2.                                        *)
EXTENDS NodeActivationV04, TLC

CONSTANTS s1, s2

MCSlots == {s1, s2}
MCNumNodes == 1
MCMaxBlock == 2
MCMaxKeys == 2
MCStakePerNode == 1
MCMaxStake == 2
MCNBlocksBeforeUnbond == 1

\* The liveness run checks fair behaviours on a smaller instance: one-key
\* lists, blocks 0..1 and one unit of deposits and no unbond delay still reach every pending
\* state and an unfunded stake.
MCMaxKeysLive == 1
MCMaxBlockLive == 1
MCMaxStakeLive == 1
MCNBlocksBeforeUnbondLive == 0

=============================================================================
