----------------------------- MODULE MCMoverRun -----------------------------
(* MoverRun on two SSDs: a series on both, a film and a pinned film. *)
EXTENDS MoverRun, TLC

CONSTANTS series, film, pinned, s1, s2

MCFiles == series :> (s1 :> 1 @@ s2 :> 1)
        @@ film :> (s1 :> 1 @@ s2 :> 0) @@ pinned :> (s1 :> 0 @@ s2 :> 1)
MCPlayed == series :> 2 @@ film :> 1 @@ pinned :> 2
MCAdded == [t \in Unit |-> 2]
=============================================================================
