--------------------------- MODULE UpdateContract ---------------------------
(***************************************************************************)
(* What update-project.sh promises to whoever calls it, by its exit code   *)
(* (auto_update.py:239, update-project.sh:2-14): 0 the new images run, 1   *)
(* they did not verify and the old ones run again, 2 nothing was updated,  *)
(* 3 the rollback did not verify.  A run that is killed promises nothing.  *)
(* UpdateProject implements it, and AutoUpdate relies on it.               *)
(***************************************************************************)
EXTENDS Integers

CONSTANTS Service, Image, None, Killed

VARIABLES
  busy,      \* a run is on its way
  code,      \* how the last one ended
  image,     \* [Service -> Image], of the containers
  up,        \* services that run
  old,       \* [Service -> Image or None], of those the run has found
  disturbed  \* somebody else changed the project under a run

vars == <<busy, code, image, up, old, disturbed>>

\* The images after a run that ended with c.
Promise(c, before, after) == c \in {1, 2} => \A s \in Service : before[s] # None => after[s] = before[s]

Init == /\ ~busy /\ code = 0 /\ image \in [Service -> Image] /\ up = Service
        /\ old = [s \in Service |-> None] /\ ~disturbed

\* The containers that a run finds are those it answers for.
Start ==
  /\ ~busy /\ busy'
  /\ \A s \in Service : old'[s] \in {None, image[s]}
  /\ UNCHANGED <<image, up, disturbed>>

\* Containers are made, stop and start, by the run or by others.
Work == UNCHANGED <<busy, code, old>> /\ image' \in [Service -> Image] /\ (disturbed => disturbed')

Finish(c) ==
  /\ busy /\ ~busy' /\ code' = c
  /\ c \in {0, 1} => \A s \in Service : old[s] # None => s \in up'
  /\ disturbed \/ Promise(c, old, image')
  /\ UNCHANGED disturbed

Next == Start \/ Work \/ \E c \in 0 .. 3 \cup {Killed} : Finish(c)

Spec == Init /\ [][Next]_vars
=============================================================================
