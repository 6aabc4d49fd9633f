--------------------------- MODULE MCPlaybackFix ---------------------------
(* PlaybackFix with the promoter's unit and the scope of one container. *)
EXTENDS PlaybackFix

CONSTANTS promoter, clamav
=============================================================================
