-------------------------- MODULE MCNightDownloads --------------------------
(* Two episodes, the first a torrent without peers, and a torrent of its own. *)
EXTENDS NightDownloads, TLC

CONSTANTS ep1, ep2, other

MCPlace == ep1 :> 1 @@ ep2 :> 2 @@ other :> 3
=============================================================================
