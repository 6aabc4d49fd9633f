----------------------------- MODULE MCTierMove -----------------------------
(* TierMove on one hot and one cold branch, or two hot ones and the cold one. *)
EXTENDS TierMove, TLC

CONSTANTS hot1, hot2, cold, j1, j2

Rank2 == hot1 :> 1 @@ cold :> 2
Rank3 == hot1 :> 1 @@ hot2 :> 2 @@ cold :> 3

\* Nothing is claimed of a state after a race, and no step asks for raced: the
\* run stops there.
NotRaced == ~raced
=============================================================================
