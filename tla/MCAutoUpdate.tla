---------------------------- MODULE MCAutoUpdate ----------------------------
(* A project of one image, and one of two, of which one makes a major jump and *)
(* the other drops its version label.                                          *)
EXTENDS AutoUpdate, TLC

CONSTANTS app, server, ml

MCRow == app :> 1 @@ server :> 2 @@ ml :> 2
MCMajor == [r \in Ref |-> [v \in Release |-> IF r = server THEN v ELSE IF r = ml /\ v = 1 THEN None ELSE 0]]
MCLast == app :> 2 @@ server :> 1 @@ ml :> 1
MCBad == {<<app, 1>>}
=============================================================================
