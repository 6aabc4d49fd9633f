-------------------------- MODULE MCPopularRequests --------------------------
(* PopularRequests for two users, two titles and two threads. *)
EXTENDS PopularRequests, TLC

CONSTANTS ann, bob, film, show, t1, t2, timer

\* Only safety is checked, and the threads do the same.
Workers == Permutations(Worker)
=============================================================================
