------------------------- MODULE MC_NodeActivation -------------------------
(* Model-checking instance of NodeActivation: three nodes, so that two    *)
(* calls can be outstanding on disjoint node sets while a third node is   *)
(* targeted by a new command; two call slots; three blocks, so that an   *)
(* unbond period can start at one block and a failed unbond be answered  *)
(* at a later one.                                                        *)
EXTENDS NodeActivation, TLC

CONSTANTS s1, s2

MCSlots == {s1, s2}
MCNumNodes == 3
MCMaxBlock == 2
MCMaxKeys == 2

=============================================================================
