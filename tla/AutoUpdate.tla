----------------------------- MODULE AutoUpdate -----------------------------
(***************************************************************************)
(* auto_update.py: every night the projects of auto-update.conf are gone   *)
(* through in order.  A new digest behind a tag is applied once it has     *)
(* been known for COOLDOWN_HOURS, by update-project.sh, which keeps the    *)
(* contract of module UpdateContract; what did not verify is not tried     *)
(* again.  What a run learns is in its state file at its end only.         *)
(*                                                                         *)
(* A digest is the number of a release, and the registry only moves a tag  *)
(* on.  Left out: images that the project builds, the page to the owner,   *)
(* the report for Prometheus; and the lock, as systemd runs one at a time. *)
(***************************************************************************)
EXTENDS Integers, FiniteSets

CONSTANTS
  Ref,      \* the image references of all projects
  rowOf,    \* [Ref -> 1 .. Rows], the row of auto-update.conf
  Rows,
  Applying, \* the rows of tier auto or edge-auto
  MaxApply, \* AUTO_UPDATE_MAX_APPLY
  None, Latest,
  Last,     \* [Ref -> 0 .. Latest], bound: the last release of each
  Major,    \* [Ref -> [0 .. Latest -> major version, None where the label is no number]]
  Bad,      \* <<ref, release>> that never verify
  MaxAct, MaxFault

Release == 0 .. Latest
Killed == 137

ASSUME AutoAssumption ==
  /\ {Rows, MaxApply, Latest, MaxAct, MaxFault} \subseteq Nat /\ MaxApply > 0
  /\ rowOf \in [Ref -> 1 .. Rows] /\ Applying \subseteq 1 .. Rows
  /\ Last \in [Ref -> Release] /\ Major \in [Ref -> [Release -> Nat \cup {None}]] /\ Bad \subseteq Ref \X Release
  /\ None \notin Int

VARIABLES
  remote,  \* [Ref -> Release], in the registry
  tag,     \* [Ref -> Release], on this host
  image,   \* [Ref -> Release], of the containers
  shelf,   \* refs whose remote release has been out for COOLDOWN_HOURS
  file,    \* [Ref -> Entry], state.json
  pc, row, mem,
  todo,    \* refs to apply; of those, the pending ones once they are pulled
  old,     \* the images before update-project.sh
  applied,
  moved,   \* history: refs whose tag was moved between its check and the update
  late,    \* history: refs with a release between their check and the pull
  tried,   \* history: <<ref, release>> whose update failed in a run that came to its end
  fresh,   \* history: those of this run
  acts, faults

world == <<remote, tag, image, shelf>>
vars == <<world, file, pc, row, mem, todo, old, applied, moved, late, tried, fresh, acts, faults>>

Entry == [digest : Release \cup {None}, aged : BOOLEAN, bad : BOOLEAN]
NoEntry == [digest |-> None, aged |-> FALSE, bad |-> FALSE]
In(n) == {r \in Ref : rowOf[r] = n}
NoOld == [r \in Ref |-> None]
Fault == faults < MaxFault /\ faults' = faults + 1

\* Of the contract, the promise; nobody else has a hand in the project.
Contract == INSTANCE UpdateContract WITH
  Service <- Ref, Image <- Release, busy <- pc = "update", code <- 0, up <- Ref, disturbed <- FALSE

Init ==
  /\ remote = [r \in Ref |-> 0] /\ tag = remote /\ image = remote /\ shelf = Ref
  /\ file = [r \in Ref |-> NoEntry] /\ mem = file
  /\ pc = "off" /\ row = 1 /\ todo = {} /\ old = NoOld /\ applied = 0
  /\ moved = {} /\ late = {} /\ tried = {} /\ fresh = {} /\ acts = 0 /\ faults = 0

-----------------------------------------------------------------------------
(* A run. *)

NextRow == pc' = "row" /\ row' = row + 1 /\ todo' = {} /\ old' = NoOld

Begin ==
  /\ pc = "off"
  /\ pc' = "row" /\ row' = 1 /\ mem' = file /\ applied' = 0 /\ moved' = {} /\ late' = {}
  /\ UNCHANGED <<world, file, todo, old, tried, fresh, acts, faults>>

\* decide: the entry of a ref for what the registry says now.
\* Mutant: the time a digest is known is not that of the digest.
Known_Any(r) == [mem[r] EXCEPT !.digest = remote[r]]
Known(r) == IF mem[r].digest = remote[r] THEN mem[r] ELSE [NoEntry EXCEPT !.digest = remote[r]]

\* Mutant: a digest that failed is tried again.
Apply_Again(r) == remote[r] # image[r] /\ Known(r).aged /\ row \in Applying
Apply(r) == remote[r] # image[r] /\ ~Known(r).bad /\ Known(r).aged /\ row \in Applying

\* No check starts past the deadline; the containers, or a registry, may not
\* answer.
Check ==
  /\ pc = "row" /\ row <= Rows
  /\ \/ Fault /\ NextRow /\ UNCHANGED mem
     \/ \E mute \in SUBSET In(row) :
          /\ IF mute = {} THEN UNCHANGED faults ELSE Fault
          /\ mem' = [r \in Ref |-> IF r \notin In(row) \ mute THEN mem[r]
                                   ELSE IF remote[r] = image[r] THEN NoEntry ELSE Known(r)]
          /\ LET go == {r \in In(row) \ mute : Apply(r)}
             IN IF go = {} THEN NextRow ELSE pc' = "gate" /\ todo' = go /\ UNCHANGED <<row, old>>
  /\ UNCHANGED <<world, file, applied, moved, late, tried, fresh, acts>>

\* Mutant: the rows of all runs are counted.
Counted_Checked == row - 1
Counted == applied

\* Past the deadline, or too many updates, or too little memory: deferred.
Gate ==
  /\ pc = "gate"
  /\ \/ Counted >= MaxApply /\ NextRow /\ UNCHANGED <<applied, faults>>
     \/ Fault /\ NextRow /\ UNCHANGED applied
     \/ /\ Counted < MaxApply
        /\ pc' = "pull" /\ applied' = applied + 1 /\ UNCHANGED <<row, todo, old, faults>>
  /\ UNCHANGED <<world, file, mem, moved, late, tried, fresh, acts>>

Pulled(S) == tag' = [r \in Ref |-> IF r \in S THEN remote[r] ELSE tag[r]]

\* docker compose pull: all services of the row, whatever was decided of them.
\* Where it fails, some of them may have been pulled.
Pull ==
  /\ pc = "pull"
  /\ \/ Fault /\ NextRow /\ \E S \in SUBSET In(row) : Pulled(S)
     \/ /\ Pulled(In(row))
        /\ pc' = "major" /\ UNCHANGED <<row, todo, old, faults>>
  /\ UNCHANGED <<remote, image, shelf, file, mem, applied, moved, late, tried, fresh, acts>>

\* _major, crosses_major: a version that is not known crosses nothing.
Crosses(old_v, new_v) == old_v # None /\ new_v # None /\ old_v # new_v

\* Of the refs that were decided for, a major jump is re-tagged and held back.
Jumps == {r \in todo : Crosses(Major[r][image[r]], Major[r][tag[r]])}
Pending == {r \in todo : tag[r] # image[r]} \ Jumps

HoldMajor ==
  /\ pc = "major"
  /\ tag' = [r \in Ref |-> IF r \in Jumps THEN image[r] ELSE tag[r]]
  /\ mem' = [r \in Ref |-> IF r \in Jumps THEN [mem[r] EXCEPT !.bad = TRUE] ELSE mem[r]]
  /\ IF Pending = {} THEN NextRow
     ELSE /\ pc' = "update" /\ todo' = Pending
          /\ old' = [r \in Ref |-> IF r \in In(row) THEN image[r] ELSE None]
          /\ UNCHANGED row
  /\ UNCHANGED <<remote, image, shelf, file, applied, moved, late, tried, fresh, acts, faults>>

\* update-project.sh recreate, by its contract: its containers run what the
\* tags name, or what they ran before, with the tags put back.
Outcome(c, new) ==
  /\ Contract!Promise(c, old, new)
  /\ c = 0 => new = [r \in Ref |-> IF r \in In(row) THEN tag[r] ELSE image[r]]
  /\ c = 0 => \A r \in In(row) : tag[r] = image[r] \/ <<r, tag[r]>> \notin Bad
  /\ \A r \in Ref : new[r] \in IF r \in In(row) THEN {image[r], tag[r]} ELSE {image[r]}

Failed(c) == c \in {1, 3}

Return(c) ==
  /\ pc = "update"
  /\ \/ c = 0 /\ UNCHANGED faults
     \/ c = 1 /\ UNCHANGED faults /\ \E r \in In(row) : tag[r] # image[r] /\ <<r, tag[r]>> \in Bad
     \/ c \in 1 .. 3 /\ Fault
  /\ \E new \in [Ref -> Release] : Outcome(c, new) /\ image' = new
  /\ tag' = IF c \in {1, 2} THEN [r \in Ref |-> IF r \in In(row) THEN old[r] ELSE tag[r]] ELSE tag
  /\ mem' = [r \in Ref |-> IF r \notin todo THEN mem[r]
                           ELSE IF c = 0 THEN NoEntry
                           ELSE IF Failed(c) THEN [mem[r] EXCEPT !.bad = TRUE] ELSE mem[r]]
  /\ fresh' = IF c \in {1, 3} THEN fresh \cup {<<r, tag[r]>> : r \in todo \ moved} ELSE fresh
  /\ NextRow
  /\ UNCHANGED <<remote, shelf, file, applied, moved, late, tried, acts>>

Write ==
  /\ pc = "row" /\ row > Rows
  /\ pc' = "off" /\ file' = mem /\ row' = 1 /\ tried' = tried \cup fresh /\ fresh' = {}
  /\ UNCHANGED <<world, mem, todo, old, applied, moved, late, acts, faults>>

\* TimeoutStartSec, or the power: what the run has learned is forgotten.
Kill ==
  /\ pc # "off" /\ Fault
  /\ pc' = "off" /\ row' = 1 /\ mem' = file /\ todo' = {} /\ old' = NoOld
  /\ \E S \in SUBSET (IF pc = "update" THEN In(row) ELSE {}) :
       image' = [r \in Ref |-> IF r \in S THEN tag[r] ELSE image[r]]
  /\ fresh' = {}
  /\ UNCHANGED <<remote, tag, shelf, file, applied, moved, late, tried, acts>>

Run == Check \/ Gate \/ Pull \/ HoldMajor \/ Write \/ \E c \in 0 .. 3 : Return(c)

-----------------------------------------------------------------------------
(* Registries, the owner, time. *)

self == <<pc, row, todo, old, applied, fresh>>
Moves(S) == moved' = IF pc \in {"gate", "pull", "major", "update"} THEN moved \cup S ELSE moved

Publish(r) ==
  /\ remote[r] < Last[r]
  /\ remote' = [remote EXCEPT ![r] = @ + 1] /\ shelf' = shelf \ {r} /\ Moves({r})
  /\ late' = IF pc \in {"gate", "pull"} /\ r \in todo THEN late \cup {r} ELSE late
  /\ UNCHANGED <<tag, image, file, mem, self, tried, acts, faults>>

Shelf(r) ==
  /\ r \notin shelf /\ shelf' = shelf \cup {r}
  /\ UNCHANGED <<remote, tag, image, file, mem, self, moved, late, tried, acts, faults>>

\* COOLDOWN_HOURS after the digest was first seen, which was after it was out.
Age(f, r) == IF f[r].digest = remote[r] /\ r \in shelf THEN [f EXCEPT ![r].aged = TRUE] ELSE f
Cool(r) ==
  /\ file' = Age(file, r) /\ mem' = Age(mem, r) /\ file' # file
  /\ UNCHANGED <<world, self, moved, late, tried, acts, faults>>

\* The owner pulls, or brings up, a service.
OwnerPull(r) ==
  /\ tag[r] # remote[r] /\ acts < MaxAct /\ acts' = acts + 1
  /\ tag' = [tag EXCEPT ![r] = remote[r]] /\ Moves({r})
  /\ UNCHANGED <<remote, image, shelf, file, mem, self, late, tried, faults>>
OwnerUp(r) ==
  /\ tag[r] # image[r] /\ pc # "update" /\ acts < MaxAct /\ acts' = acts + 1
  /\ image' = [image EXCEPT ![r] = tag[r]] /\ Moves({r})
  /\ tried' = {t \in tried : t[1] # r}
  /\ UNCHANGED <<remote, tag, shelf, file, mem, self, late, faults>>

Time == \E r \in Ref : Shelf(r) \/ Cool(r)
World == \E r \in Ref : Publish(r) \/ OwnerPull(r) \/ OwnerUp(r)

Next == Begin \/ Run \/ Kill \/ Time \/ World

Spec == Init /\ [][Next]_vars

\* The timer, the run, and time; few calls fail, and few runs are killed.
FairSpec == Spec /\ WF_vars(Begin) /\ WF_vars(Run /\ UNCHANGED faults) /\ WF_vars(Time)

-----------------------------------------------------------------------------
(* Properties. *)

TypeOK ==
  /\ remote \in [Ref -> Release] /\ tag \in [Ref -> Release] /\ image \in [Ref -> Release]
  /\ shelf \subseteq Ref /\ file \in [Ref -> Entry] /\ mem \in [Ref -> Entry]
  /\ pc \in {"off", "row", "gate", "pull", "major", "update"} /\ row \in 1 .. Rows + 1
  /\ todo \subseteq Ref /\ old \in [Ref -> Release \cup {None}] /\ applied \in 0 .. MaxApply
  /\ moved \subseteq Ref /\ late \subseteq Ref /\ tried \subseteq Ref \X Release /\ fresh \subseteq Ref \X Release
  /\ acts \in 0 .. MaxAct /\ faults \in 0 .. MaxFault

\* No update is tried again that has failed.
FailedIsHeld ==
  [][pc = "major" /\ pc' = "update" =>
       \A r \in todo' \ moved : <<r, tag[r]>> \notin tried]_vars

\* "applied after COOLDOWN_HOURS" (auto_update.py:5): what a run pulls for a ref
\* that it has decided for has been out for that long, however many digests came
\* before it and however many runs forgot what they knew.  The exception is a
\* digest that the registry got between the run's check of the row and its pull.
\* Of a ref's neighbours in the row, which are pulled with it, nothing is said.
CoolsDown == [][pc = "pull" /\ pc' = "major" => todo \subseteq shelf \cup late]_vars

\* Every digest that is left in the registry arrives in the end, behind other
\* projects that fail and over the limit of updates per run, or is held back.
UpdatesArrive ==
  \A r \in Ref : rowOf[r] \in Applying =>
    <>[](image[r] = remote[r] \/ (file[r].bad /\ file[r].digest = remote[r]))
=============================================================================
