-------------------------- MODULE MCQueueWatchdog --------------------------
(* A download that Sonarr blocks by its ID, and one event of each kind. *)
EXTENDS QueueWatchdog
=============================================================================
