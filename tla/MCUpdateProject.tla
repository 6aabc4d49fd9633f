--------------------------- MODULE MCUpdateProject ---------------------------
(* Small instances of UpdateProject: a database and a service without data. *)
EXTENDS UpdateProject

CONSTANTS db, web

\* The properties say nothing of what follows.
NothingLost == ~hurt /\ ~crossed /\ ~(Stateful \subseteq astray)
=============================================================================
