----------------------------- MODULE MCPromoter -----------------------------
(* Small instances of Promoter: titles are model values, a tick is half     *)
(* of DEDUPE_SECONDS; an hour, of MAX_PER_HOUR, is longer or as long.       *)
EXTENDS Promoter

CONSTANTS t1, t2, t3
=============================================================================
