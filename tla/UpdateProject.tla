---------------------------- MODULE UpdateProject ----------------------------
(***************************************************************************)
(* update-project.sh (Docker/_global/scripts): pull newer images of one    *)
(* compose project, copy its data cold, recreate the containers, verify    *)
(* them, and go back if they do not verify.  A newer image may migrate the *)
(* data it finds, and an older one cannot read what a newer has written.   *)
(*                                                                         *)
(* An image is the number of the release it holds, and so is the schema of *)
(* the data it leaves behind; releases only go up.  The compose file names *)
(* the image of a service by a tag that the registry moves, or, once the   *)
(* owner has edited it, by the newest release.  Every stateful service of  *)
(* the run has its backup path on the command line (auto_update.py:110).   *)
(***************************************************************************)
EXTENDS Integers, FiniteSets

CONSTANTS
  Service,   \* the services of the project, one container each
  Stateful,  \* those with data
  Unnamed,   \* the service label of a container that is gone
  None,      \* no old container, no snapshot, no copy
  Partial,   \* data that is half written, or a backup of such
  Latest,    \* bound: the newest release
  MaxFault   \* bound: failing backups, restores and compose commands

ASSUME NameAssumption == Stateful \subseteq Service /\ Unnamed \notin Service
ASSUME ReleaseAssumption == Latest \in Nat /\ Partial \notin Int /\ MaxFault \in Nat
ASSUME NoneAssumption ==
  /\ None \notin [Service -> {"tag", "edited"}]
  /\ None \notin Int \cup {Partial}
  /\ None \notin [img : Int, ref : {"tag", "edited", "rollback"}]

VARIABLES
  tag,      \* [Service -> Release], the image a tag points at on this host
  file,     \* [Service -> ref], what the compose file names
  pending,  \* the compose file saved by mode "snapshot", or None
  cont,     \* [Service -> Container]
  data,     \* [Service -> schema or Partial]
  pc,       \* where the script is
  scope,    \* SERVICES
  base,     \* oldid: image and ref of each container at the start, or None
  snap,     \* the compose file to put back
  took,     \* from_pending
  todo,     \* the paths still to back up, or to put back
  copy,     \* [Service -> what this run has copied, or None], the manifest
  failed,   \* bkfail, or fails of restore_data
  svcs,     \* what a rollback recreates
  exit,     \* the last exit status, or Killed
  faults,
  \* History: what the script cannot know of.
  crossed,  \* another command changed the project under a run
  hurt,     \* a rollback did not come to its end
  astray    \* services whose ref was put back to one they did not run

local == <<scope, base, snap, took, todo, copy, failed, svcs>>
project == <<tag, file, pending, cont, data>>
history == <<crossed, hurt, astray>>
vars == <<project, pc, local, exit, faults, history>>

Release == 0 .. Latest
Schema == Release \cup {Partial}
Ref == {"tag", "edited"}
OldImage == [img : Release, ref : Ref \cup {"rollback"}]
Container == [state : {"run", "dead", "stop", "none"},
              img : Release, ref : Ref \cup {"rollback"}]

\* The image that the compose file names, and the container made of it.
Named(s) == IF file[s] = "tag" THEN tag[s] ELSE Latest
Made(s) == [state |-> "run", img |-> Named(s), ref |-> file[s]]

Running(s) == cont[s].state = "run"
Exists(s) == cont[s].state # "none"
Known(s) == base[s] # None
Backups == Stateful \cap scope

Fault == faults < MaxFault /\ faults' = faults + 1

Init ==
  /\ tag = [s \in Service |-> 0] /\ file = [s \in Service |-> "tag"]
  /\ pending = None
  /\ cont = [s \in Service |-> [state |-> "run", img |-> 0, ref |-> "tag"]]
  /\ data = [s \in Service |-> 0]
  /\ pc = "off" /\ scope = {} /\ base = [s \in Service |-> None] /\ snap = None
  /\ took = FALSE /\ todo = {} /\ copy = [s \in Service |-> None] /\ failed = FALSE /\ svcs = {}
  /\ exit = 0 /\ faults = 0
  /\ crossed = FALSE /\ hurt = FALSE /\ astray = {}

-----------------------------------------------------------------------------
(* The run, up to the backups. *)

\* A signal ends the script.
Killed == 137

Goto(label) == pc' = label /\ UNCHANGED exit

\* A run ends; its variables go with it.
End(code) ==
  /\ pc' = "off" /\ exit' = code
  /\ scope' = {} /\ base' = [s \in Service |-> None] /\ snap' = None
  /\ took' = FALSE /\ todo' = {} /\ copy' = [s \in Service |-> None] /\ failed' = FALSE /\ svcs' = {}

\* mode "snapshot", before the owner edits.
TakeSnapshot ==
  /\ pc = "off"
  /\ pending' = file
  /\ UNCHANGED <<tag, file, cont, data, pc, local, exit, faults, history>>

\* The pending snapshot is used if it is fresh; docker compose ps lists the
\* containers that run, and those that docker is about to restart.
Begin ==
  /\ pc = "off"
  /\ pc' = "pull" /\ exit' = 0
  /\ scope' \in SUBSET Service \ {{}}
  /\ \/ pending # None /\ snap' = pending /\ took' = TRUE
     \/ snap' = file /\ took' = FALSE
  /\ pending' = None
  /\ base' = [s \in Service |-> IF cont[s].state \in {"run", "dead"}
                                  THEN [img |-> cont[s].img, ref |-> cont[s].ref]
                                  ELSE None]
  /\ UNCHANGED <<tag, file, cont, data, todo, copy, failed, svcs, faults, history>>

\* Mode recreate pulls nothing, a failed pull is not noticed.
Pull ==
  /\ pc = "pull"
  /\ tag' \in [Service -> Release]
  /\ \A s \in Service : \/ tag'[s] = tag[s]
                        \/ s \in scope /\ file[s] = "tag" /\ tag'[s] > tag[s]
  /\ Goto(IF Backups = {} THEN "up" ELSE "stop")
  /\ UNCHANGED <<file, pending, cont, data, local, faults, history>>

\* docker compose stop: docker does not restart what it has stopped.
Stopped == [s \in Service |-> IF s \in scope /\ Exists(s)
                                THEN [cont[s] EXCEPT !.state = "stop"] ELSE cont[s]]

Stop ==
  /\ pc = "stop"
  /\ Goto("backup")
  /\ cont' = Stopped
  /\ todo' = Backups
  /\ UNCHANGED <<tag, file, pending, data, scope, base, snap, took, copy, failed, svcs, faults, history>>

\* tar: a database that runs is copied in the middle of a write.
Backup(s) ==
  /\ pc = "backup" /\ s \in todo
  /\ todo' = todo \ {s}
  /\ \/ /\ copy' = [copy EXCEPT ![s] = IF Running(s) THEN Partial ELSE data[s]]
        /\ UNCHANGED <<failed, faults>>
     \/ /\ Fault
        /\ failed' = TRUE
        /\ UNCHANGED copy
  /\ UNCHANGED <<tag, file, pending, cont, data, pc, scope, base, snap, took, svcs, exit, history>>

BackupsEnd ==
  /\ pc = "backup" /\ todo = {}
  /\ Goto(IF failed THEN "abort" ELSE "up")
  /\ UNCHANGED <<project, local, faults, history>>

\* docker tag: the tags that the old containers were made from point at their images.
Retagged == [s \in Service |-> IF Known(s) /\ base[s].ref = "tag" THEN base[s].img ELSE tag[s]]

\* docker compose start: every container of the scope, if it works.
Started == [s \in Service |-> IF s \in scope /\ Exists(s)
                                THEN [cont[s] EXCEPT !.state = "run"] ELSE cont[s]]

Abort ==
  /\ pc = "abort"
  /\ tag' = Retagged
  /\ \/ cont' = Started /\ UNCHANGED faults
     \/ Fault /\ UNCHANGED cont
  /\ pending' = IF took /\ pending = None THEN snap ELSE pending
  /\ UNCHANGED <<file, data, history>>
  /\ End(2)

-----------------------------------------------------------------------------
(* Recreate and verify. *)

\* docker compose up: the containers of made, unless it fails for some.
ComposeUp(made) ==
  \E bad \in SUBSET DOMAIN made, left \in {"as it was", "stop", "none"} :
    /\ IF bad = {} THEN UNCHANGED faults ELSE Fault
    /\ cont' = [s \in Service |->
                  IF s \in bad THEN IF left = "as it was" THEN cont[s]
                                    ELSE [made[s] EXCEPT !.state = left]
                  ELSE IF s \in DOMAIN made THEN made[s]
                  ELSE cont[s]]

\* Without --force-recreate it may keep a container of the ref that the file
\* names, although the tag has moved.
Up ==
  /\ pc = "up"
  /\ Goto("stale")
  /\ \E kept \in SUBSET {s \in scope : Exists(s) /\ cont[s].ref = file[s]} :
       ComposeUp([s \in scope |-> IF s \in kept THEN [cont[s] EXCEPT !.state = "run"]
                                  ELSE Made(s)])
  /\ UNCHANGED <<tag, file, pending, data, local, history>>

\* The containers that are behind the tag they were made from.
StaleOnes == {s \in scope : Known(s) /\ Exists(s) /\ cont[s].ref = "tag" /\ cont[s].img # tag[s]}

Stale ==
  /\ pc = "stale"
  /\ Goto("verify")
  /\ ComposeUp([s \in StaleOnes |-> Made(s)])
  /\ UNCHANGED <<tag, file, pending, data, local, history>>

Updated(s) == Known(s) /\ (~Exists(s) \/ cont[s].img # base[s].img)
Down(s) == Known(s) /\ ~Running(s)

Manifest == {s \in Stateful : copy[s] # None}

\* Mutant: the data is left as the new image has it.
Verify_KeepData ==
  /\ pc = "verify"
  /\ UNCHANGED <<project, faults, history>>
  /\ \/ /\ \A s \in Service : ~Down(s)
        /\ End(0)
     \/ /\ Goto("files")
        /\ svcs' = {IF Exists(s) THEN s ELSE Unnamed : s \in {t \in Service : Updated(t) \/ Down(t)}}
        /\ UNCHANGED <<scope, base, snap, took, todo, copy, failed>>

\* Health, crash loops, CHECK and the customizations may fail at any time.
\* A container that is gone has no label to name its service.
Verify ==
  /\ pc = "verify"
  /\ UNCHANGED <<project, faults, history>>
  /\ \/ /\ \A s \in Service : ~Down(s)
        /\ End(0)
     \/ /\ Goto("files")
        /\ svcs' = {IF Exists(s) THEN s ELSE Unnamed : s \in {t \in Service : Updated(t) \/ Down(t)}}
        /\ todo' = IF \E s \in Service : Updated(s) THEN Manifest ELSE {}
        /\ UNCHANGED <<scope, base, snap, took, copy, failed>>

-----------------------------------------------------------------------------
(* Rollback. *)

\* The compose file as it was, unless it cannot be written.
RestoreSnapshot ==
  /\ pc = "files"
  /\ Goto("retag")
  /\ \/ file' = snap /\ UNCHANGED faults
     \/ Fault /\ UNCHANGED file
  /\ astray' = astray \cup {s \in Service : /\ file'[s] # file[s]
                                            /\ Known(s) => base[s].ref # file'[s]}
  /\ UNCHANGED <<tag, pending, cont, data, local, crossed, hurt>>

\* Mutant: only what is recreated is re-tagged.
Retag_OnlyRecreated ==
  /\ pc = "retag"
  /\ Goto(IF todo = {} THEN "back" ELSE "halt")
  /\ tag' = [s \in Service |-> IF s \in svcs THEN Retagged[s] ELSE tag[s]]
  /\ UNCHANGED <<file, pending, cont, data, local, faults, history>>

Retag ==
  /\ pc = "retag"
  /\ Goto(IF todo = {} THEN "back" ELSE "halt")
  /\ tag' = Retagged
  /\ UNCHANGED <<file, pending, cont, data, local, faults, history>>

\* restore_data stops the services first.
Halt ==
  /\ pc = "halt"
  /\ Goto("data")
  /\ cont' = Stopped
  /\ UNCHANGED <<tag, file, pending, data, local, faults, history>>

RestoreData(s) ==
  /\ pc = "data" /\ s \in todo
  /\ todo' = todo \ {s}
  /\ \/ data' = [data EXCEPT ![s] = copy[s]] /\ UNCHANGED <<failed, faults>>
     \/ /\ Fault
        /\ \E left \in {data[s], Partial} : data' = [data EXCEPT ![s] = left]
        /\ failed' = TRUE
  /\ UNCHANGED <<tag, file, pending, cont, pc, scope, base, snap, took, copy, svcs, exit, history>>

\* The services stay stopped if a restore has failed; else the whole scope is
\* recreated.
DataEnd ==
  /\ pc = "data" /\ todo = {}
  /\ \/ /\ failed
        /\ hurt' = TRUE
        /\ End(3)
     \/ /\ ~failed
        /\ Goto("back")
        /\ svcs' = {}
        /\ UNCHANGED <<scope, base, snap, took, todo, copy, failed, hurt>>
  /\ UNCHANGED <<project, faults, crossed, astray>>

\* An empty list is the scope; one of blanks only leaves compose without a
\* service to name, and it takes the whole project.
Again == IF svcs = {} THEN scope
         ELSE IF svcs = {Unnamed} THEN Service ELSE svcs \ {Unnamed}

\* compose still names another ref: the service is made of its rollback tag.
Pinned(s) == /\ Known(s) /\ file[s] # base[s].ref
             /\ svcs = {} \/ s \in svcs

Recreate ==
  /\ pc = "back"
  /\ Goto("check")
  /\ ComposeUp([s \in Again |-> IF Pinned(s)
                  THEN [state |-> "run", img |-> base[s].img, ref |-> "rollback"]
                  ELSE Made(s)])
  /\ UNCHANGED <<tag, file, pending, data, local, history>>

\* Mutant: what runs is not compared.
OnOldImage_Running(s) == Running(s)
OnOldImage(s) == Running(s) /\ cont[s].img = base[s].img

VerifyBack ==
  /\ pc = "check"
  /\ \/ (\A s \in Service : Known(s) => OnOldImage(s)) /\ End(1)
     \/ End(3)
  /\ hurt' = (hurt \/ exit' = 3)
  /\ UNCHANGED <<project, faults, crossed, astray>>

Script == \/ Pull \/ Stop \/ BackupsEnd \/ Abort \/ Up \/ Stale \/ Verify
          \/ RestoreSnapshot \/ Retag \/ Halt \/ DataEnd \/ Recreate \/ VerifyBack
          \/ \E s \in Service : Backup(s) \/ RestoreData(s)

-----------------------------------------------------------------------------
(* The containers, and whoever else uses docker. *)

frame == <<pc, local, exit, hurt, astray>>

\* An image brings older data to its own schema, at the start or later.
Migrate(s) ==
  /\ s \in Stateful /\ Running(s)
  /\ data[s] # Partial /\ data[s] < cont[s].img
  /\ data' = [data EXCEPT ![s] = cont[s].img]
  /\ UNCHANGED <<tag, file, pending, cont, frame, faults, crossed>>

SetState(s, from, to) ==
  /\ cont[s].state = from
  /\ cont' = [cont EXCEPT ![s].state = to]
  /\ UNCHANGED <<tag, file, pending, data, frame, crossed>>

\* A container ends by itself; docker starts it again, or its owner stops it.
Die(s) == SetState(s, "run", "dead") /\ Fault
Restart(s) == SetState(s, "dead", "run") /\ UNCHANGED faults
OwnerStops(s) == pc = "off" /\ SetState(s, "run", "stop") /\ UNCHANGED faults

\* Where the script relies on the project being its own.
Fragile == {"retag", "halt", "data", "back", "check"}

\* Another project's pull moves a tag they share; auto_update.py pulls ahead.
OtherPull(s) ==
  /\ tag[s] < Latest
  /\ tag' = [tag EXCEPT ![s] = tag[s] + 1]
  /\ crossed' = (crossed \/ pc \in Fragile)
  /\ UNCHANGED <<file, pending, cont, data, frame, faults>>

\* docker compose up -d by hand, or by a second run on the project.
OtherUp(s) ==
  /\ cont' = [cont EXCEPT ![s] = Made(s)]
  /\ crossed' = (crossed \/ pc # "off")
  /\ UNCHANGED <<tag, file, pending, data, frame, faults>>

\* The owner edits the ref of a service.
Edit(s) ==
  /\ pc = "off" /\ file[s] = "tag"
  /\ file' = [file EXCEPT ![s] = "edited"]
  /\ UNCHANGED <<tag, pending, cont, data, frame, faults, crossed>>

\* Ctrl-C, the time limit of the caller, a power cut.
Kill ==
  /\ pc # "off"
  /\ End(Killed)
  /\ hurt' = (hurt \/ pc \in Fragile)
  /\ UNCHANGED <<project, faults, crossed, astray>>

Next == \/ TakeSnapshot \/ Begin \/ Script \/ Kill
        \/ \E s \in Service : \/ Migrate(s) \/ Die(s) \/ Restart(s) \/ OwnerStops(s)
                              \/ OtherPull(s) \/ OtherUp(s) \/ Edit(s)

Spec == Init /\ [][Next]_vars

-----------------------------------------------------------------------------
(* Properties. *)

TypeOK ==
  /\ tag \in [Service -> Release] /\ file \in [Service -> Ref]
  /\ pending \in [Service -> Ref] \cup {None}
  /\ cont \in [Service -> Container]
  /\ data \in [Service -> Schema] /\ copy \in [Service -> Schema \cup {None}]
  /\ pc \in {"off", "pull", "stop", "backup", "abort", "up", "stale", "verify",
             "files", "retag", "halt", "data", "back", "check"}
  /\ scope \subseteq Service
  /\ base \in [Service -> OldImage \cup {None}] /\ snap \in [Service -> Ref] \cup {None}
  /\ took \in BOOLEAN /\ todo \subseteq Stateful
  /\ failed \in BOOLEAN /\ svcs \subseteq Service \cup {Unnamed}
  /\ exit \in {0, 1, 2, 3, Killed} /\ faults \in 0 .. MaxFault
  /\ crossed \in BOOLEAN /\ hurt \in BOOLEAN /\ astray \subseteq Service

\* update-project.sh:13, "the old image never starts on migrated data":
\* whatever fails, whenever a run is killed but while it puts the data back,
\* and whoever starts the services afterwards.
OldNeverOnMigrated ==
  \A s \in Stateful \ astray :
    Running(s) /\ ~hurt /\ ~crossed => data[s] # Partial /\ data[s] <= cont[s].img

\* "ABORTED: nothing updated" (update-project.sh:118): the containers are of
\* the images they were of, and the next up -d keeps to these images.
AbortUpdatesNothing ==
  [][pc = "abort" /\ exit' = 2 /\ pc' = "off" /\ ~crossed
       => \A s \in Service : Known(s) =>
            /\ cont'[s].img = base[s].img
            /\ base[s].ref = "tag" => tag'[s] = base[s].img]_vars

\* "ROLLED BACK" (update-project.sh:218) outlives the next up -d: where the
\* compose file names the ref that a container was made from, it names its old
\* image again.
RollbackSticks ==
  [][pc = "check" /\ exit' = 1 /\ pc' = "off" /\ ~crossed
       => \A s \in Service : Known(s) /\ base[s].ref = file'[s] =>
            Named(s)' = base[s].img]_vars

\* The script keeps its contract with its callers: what its exit code says of
\* the containers is so, whatever failed on the way (update-project.sh:118,
\* update-project.sh:218, auto_update.py:239).
Contract == INSTANCE UpdateContract WITH
  Image <- Release,
  busy <- pc # "off",
  code <- exit,
  image <- [s \in Service |-> cont[s].img],
  up <- {s \in Service : Running(s)},
  old <- [s \in Service |-> IF Known(s) THEN base[s].img ELSE None],
  disturbed <- crossed

KeepsContract == Contract!Spec

-----------------------------------------------------------------------------
(* The inductive invariant behind them. *)

\* Until up -d, every old container is there on its image; those that are not
\* in the scope are until they are recreated.
Before == {"pull", "stop", "backup", "abort", "up"}
Rolling == {"retag", "halt", "data", "back"}

\* What the compose file names once the tags are put back.
Back(s) == IF file[s] = "tag" THEN Retagged[s] ELSE Latest
Aim(s) == IF pc \in Fragile THEN Back(s) ELSE Named(s)

Live(s) == cont[s].state \in {"run", "dead"}

KnownInv ==
  \A s \in Service :
    /\ cont[s].ref = "edited" => cont[s].img = Latest
    /\ Known(s) /\ base[s].ref = "edited" => base[s].img = Latest
    /\ Known(s) /\ \/ pc \in Before
                   \/ s \notin scope /\ pc \in {"stale", "verify", "files"} \cup Rolling
         => cont[s].img = base[s].img
    /\ Known(s) /\ base[s].ref = "tag" /\ pc \in Fragile \ {"retag"}
         => tag[s] = base[s].img

\* Nothing of the scope runs while it is copied or put back.
ColdInv == pc \in {"backup", "data"} => \A s \in scope : ~Live(s)

\* A rollback has a compose file and copies to put back.
StoreInv ==
  /\ pc # "off" => snap # None
  /\ pc \in {"files", "retag", "halt", "data"} => todo \subseteq Manifest

\* Which paths are copied, and which are still to do.
TodoInv ==
  /\ pc = "off" => scope = {}
  /\ \A s \in Service : copy[s] # None => s \in Backups
  /\ pc = "backup" => todo \subseteq Backups /\ (~failed => Backups \ todo \subseteq Manifest)
  /\ pc \in {"up", "stale", "verify", "files", "retag", "halt"} => Backups \subseteq Manifest
  /\ pc \in {"files", "retag"} => \/ todo = Backups
                                  \/ todo = {} /\ \A s \in Service : ~Updated(s)
  /\ pc = "halt" => todo = Backups
  /\ pc = "data" /\ ~failed => Backups \subseteq Manifest
  /\ pc \in {"back", "check"} => todo = {}

\* Whatever is done next, no image meets data newer than itself.
Fits(s) ==
  /\ data[s] \in Release /\ data[s] <= cont[s].img /\ data[s] <= Aim(s)
  /\ Live(s) \/ ~Known(s) => cont[s].img <= Aim(s)

\* What a rollback puts back suits the old image.
CopyFits(s) ==
  copy[s] # None =>
    /\ copy[s] \in Release /\ copy[s] <= Aim(s)
    /\ Known(s) => copy[s] <= base[s].img
    /\ pc \notin {"data", "back", "check"} \/ s \in todo => copy[s] <= data[s]

\* A restore of this run has failed, and the services stay stopped.
GivenUp(s) == pc = "data" /\ failed /\ s \in scope

DataFits(s) ==
  /\ pc \notin Fragile => Fits(s) /\ cont[s].img <= Named(s)
  /\ pc \in Rolling /\ s \in todo => data[s] \in Release /\ data[s] <= cont[s].img
  /\ pc \in Rolling /\ s \notin todo => Fits(s) \/ GivenUp(s)
  /\ pc \in Rolling /\ s \notin todo /\ Known(s) /\ ~GivenUp(s) =>
       data[s] <= base[s].img /\ (Live(s) => cont[s].img <= base[s].img)
  /\ pc = "check" => Fits(s)
  /\ pc # "off" /\ Known(s) => base[s].img <= Aim(s)
  /\ pc # "off" /\ ~Known(s) => cont[s].img <= Aim(s)

FitInv == \A s \in Stateful \ astray : CopyFits(s) /\ DataFits(s)

UInv == /\ TypeOK /\ StoreInv
        /\ ~crossed => KnownInv
        /\ ~hurt /\ ~crossed => ColdInv /\ TodoInv /\ FitInv
=============================================================================
