--------------------------- MODULE MCIdleWatcher ---------------------------
(* IdleWatcher and KeepAwake on a handful of the units of the night window. *)
EXTENDS IdleWatcher

CONSTANTS window, update, translate, mover, apt, backup, anacron
=============================================================================
