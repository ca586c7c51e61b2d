---------------------- MODULE MC_FundTransformations ----------------------
(* Model-checking instance of FundTransformations: two users, so that the *)
(* swaps across users and the per-user operations interleave; two units  *)
(* of funds, so that a conversion can be partial; blocks 0..3 at a width *)
(* of 3 bits, so that funds unstaked at one block are deferred and become *)
(* due at later ones.  With a claim delay of 1 no sum wraps; with a delay *)
(* of 6 a deferred payment created at block 2 or 3 wraps.                 *)
EXTENDS FundTransformations, TLC

CONSTANTS u1, u2

MCUsers == {u1, u2}
MCMaxBlock == 3
MCWidth == 3
MCMaxFunds == 2
MCClaimDelay == 1
MCClaimDelayWrapping == 6

=============================================================================
