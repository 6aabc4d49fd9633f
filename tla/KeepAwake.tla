----------------------------- MODULE KeepAwake -----------------------------
(***************************************************************************)
(* The keep-awake file /run/beefy-keep-awake and everyone who takes it:    *)
(* the systemd units that hold the host awake while they run (the          *)
(* maintenance window, auto-update, image-cleanup, subtitle-translate),    *)
(* the mover, the apt hook and the owner.  The rule of all of them: take   *)
(* the hold only when nobody has it, release only what this run took.      *)
(*                                                                         *)
(* The file carries no owner.  Each taker remembers by itself that the     *)
(* hold is his: a unit and apt in a file of their own (/run/<unit>-keep-   *)
(* awake, .apt), the mover in a local variable; mark[t] is that memory.    *)
(* /run is a tmpfs: a shutdown clears all of it.                           *)
(***************************************************************************)
EXTENDS Naturals

CONSTANTS
  Unit,       \* services with the ExecStartPre/ExecStopPost pair
  Window,     \* the one of them that is the maintenance window
  Mover,      \* runs of beefy-mover
  Apt,        \* apt, with its DPkg hooks
  Guest,      \* window jobs that take no hold of their own
  Listed,     \* UNITS: the jobs the window waits for
  Oneshot,    \* the jobs whose unit is Type=oneshot
  MaxStarts,  \* bound: how many jobs start
  MaxFault    \* bound: how many jobs are killed or stopped

Job == Unit \cup Mover \cup Apt \cup Guest

ASSUME JobAssumption ==
  /\ Window \in Unit
  /\ Unit \cap (Mover \cup Apt \cup Guest) = {}
  /\ Mover \cap (Apt \cup Guest) = {}
  /\ Apt \cap Guest = {}
  /\ \A a, b \in Apt : a = b      \* dpkg's own lock
  /\ Listed \subseteq Job \ {Window}
  /\ Oneshot \subseteq Job \ {Window}

ASSUME BoundAssumption == MaxStarts \in Nat /\ MaxFault \in Nat

VARIABLES
  flag,       \* /run/beefy-keep-awake exists
  mark,       \* [Job -> BOOLEAN], what a taker remembers
  pc,         \* the step each job is at
  asked,      \* the window's poll: the units it has still to ask for
  found,      \* the window's poll: one of them was active
  owner,      \* the owner's hold: "no", "first" (made the file) or "late"
  contested,  \* history: someone changed the file under another's claim
  stray,      \* history: a hold was left behind by a taker that died, or by
              \* apt's race with a release
  starts,     \* how many jobs have started
  faults      \* how many were killed or stopped

poll == <<asked, found>>
history == <<contested, stray>>
hvars == <<flag, mark, pc, poll, owner, history, starts, faults>>

PC == {"off", "pre", "take", "mark", "run", "drain", "post"}

\* t will remove the file when it ends.
Claim(t) == mark[t] \/ pc[t] = "mark"
Claimed == \E t \in Job : Claim(t)

HoldInit ==
  /\ flag = FALSE
  /\ mark = [t \in Job |-> FALSE]
  /\ pc = [t \in Job |-> "off"]
  /\ asked = {} /\ found = FALSE
  /\ owner = "no"
  /\ contested = FALSE /\ stray = FALSE
  /\ starts = 0 /\ faults = 0

Goto(t, step) == pc' = [pc EXCEPT ![t] = step]

Start(t) ==
  /\ pc[t] = "off"
  /\ starts < MaxStarts
  /\ starts' = starts + 1
  /\ Goto(t, IF t \in Guest THEN "run" ELSE "pre")
  /\ UNCHANGED <<flag, mark, poll, owner, history, faults>>

-----------------------------------------------------------------------------
(* Taking the hold. *)

\* [ -e /run/beefy-keep-awake ], path.exists(): the look at the file.  A unit
\* first removes the mark of an earlier run, apt does not; apt writes its mark
\* before it touches the file, and touches the file in either case.
LookUnit(t) ==
  /\ t \in Unit
  /\ mark' = [mark EXCEPT ![t] = FALSE]
  /\ Goto(t, IF flag THEN "run" ELSE "take")

LookMover(t) ==
  /\ t \in Mover
  /\ Goto(t, IF flag THEN "run" ELSE "take")
  /\ UNCHANGED mark

LookApt(t) ==
  /\ t \in Apt
  /\ mark' = [mark EXCEPT ![t] = @ \/ ~flag]
  /\ Goto(t, "take")

Look(t) ==
  /\ pc[t] = "pre"
  /\ LookUnit(t) \/ LookMover(t) \/ LookApt(t)
  /\ UNCHANGED <<flag, poll, owner, history, starts, faults>>

\* The file is touched.  Between the look and the touch another taker may have
\* made it; apt may find the file it only wanted to keep gone.
Take(t) ==
  /\ pc[t] = "take"
  /\ flag' = TRUE
  /\ mark' = [mark EXCEPT ![t] = @ \/ t \in Mover]
  /\ Goto(t, IF t \in Unit THEN "mark" ELSE "run")
  /\ contested' = (contested \/ ((t \in Apt => mark[t])
                                 /\ (flag \/ \E u \in Job \ {t} : Claim(u))))
  /\ stray' = (stray \/ (t \in Apt /\ ~mark[t] /\ ~flag))
  /\ UNCHANGED <<poll, owner, starts, faults>>

\* touch /run/<unit>-keep-awake
Remember(t) ==
  /\ pc[t] = "mark"
  /\ mark' = [mark EXCEPT ![t] = TRUE]
  /\ Goto(t, "run")
  /\ UNCHANGED <<flag, poll, owner, history, starts, faults>>

-----------------------------------------------------------------------------
(* The end of a run, and the release. *)

\* A unit's main process ends; the window's does so only after its drain.
Finish(t) ==
  /\ t \in Unit \ {Window}
  /\ pc[t] = "run"
  /\ Goto(t, "post")
  /\ UNCHANGED <<flag, mark, poll, owner, history, starts, faults>>

\* Mutants: the mark is not tested; the mark is removed before it is tested.
Release_Always(t) ==
  /\ flag' = FALSE
  /\ mark' = [mark EXCEPT ![t] = FALSE]
  /\ Goto(t, "off")
  /\ UNCHANGED <<poll, owner, history, starts, faults>>
Release_RemovesMarkFirst(t) ==
  /\ mark' = [mark EXCEPT ![t] = FALSE]
  /\ Goto(t, "off")
  /\ UNCHANGED <<flag, poll, owner, history, starts, faults>>

\* [ -e mark ] && beefy-keep-awake off; rm -f mark
Release(t) ==
  /\ flag' = (flag /\ ~mark[t])
  /\ mark' = [mark EXCEPT ![t] = FALSE]
  /\ Goto(t, "off")
  /\ UNCHANGED <<poll, owner, history, starts, faults>>

\* ExecStopPost runs however the unit ended.
StopPost(t) == t \in Unit /\ pc[t] = "post" /\ Release(t)

\* The finally of keep_awake, DPkg::Post-Invoke; a guest has nothing to release.
Leave(t) == t \notin Unit /\ pc[t] = "run" /\ Release(t)

-----------------------------------------------------------------------------
(* beefy-maintenance-window: hold, then poll until no listed job is active. *)

\* systemctl is-active (external): exit 0 for active, not for activating, the
\* state in which a Type=oneshot unit spends its whole run.
IsActive(t) == pc[t] = "run" /\ t \notin Oneshot

HoldOver ==
  /\ pc[Window] = "run"
  /\ Goto(Window, "drain")
  /\ asked' = Listed /\ found' = FALSE
  /\ UNCHANGED <<flag, mark, owner, history, starts, faults>>

Ask(t) ==
  /\ pc[Window] = "drain"
  /\ t \in asked
  /\ asked' = asked \ {t}
  /\ found' = (found \/ IsActive(t))
  /\ UNCHANGED <<flag, mark, pc, owner, history, starts, faults>>

\* Every unit was asked: nothing is active, or the drain cap is reached (exit
\* 0 both times), or another poll follows.
PollEnds ==
  /\ pc[Window] = "drain"
  /\ asked = {}
  /\ \/ Goto(Window, "post") /\ found' = FALSE /\ UNCHANGED asked
     \/ found /\ asked' = Listed /\ found' = FALSE /\ UNCHANGED pc
  /\ UNCHANGED <<flag, mark, owner, history, starts, faults>>

Drain == HoldOver \/ (\E t \in Listed : Ask(t)) \/ PollEnds

-----------------------------------------------------------------------------
(* Kills, the owner, the shutdown. *)

Strike == faults < MaxFault /\ faults' = faults + 1

\* systemctl stop, RuntimeMaxSec, TimeoutStartSec: the unit's ExecStopPost
\* still runs.  Between the touch of the file and the mark the hold is lost.
StopUnit(t) ==
  /\ t \in Unit
  /\ pc[t] \in {"pre", "take", "mark", "run", "drain"}
  /\ Strike
  /\ Goto(t, "post")
  /\ stray' = (stray \/ pc[t] = "mark")
  /\ asked' = IF t = Window THEN {} ELSE asked
  /\ found' = (found /\ t # Window)
  /\ UNCHANGED <<flag, mark, owner, contested, starts>>

\* The mover dies without its finally; apt without Post-Invoke, its mark stays.
Kill(t) ==
  /\ t \notin Unit
  /\ pc[t] # "off"
  /\ Strike
  /\ Goto(t, "off")
  /\ stray' = (stray \/ mark[t])
  /\ contested' = (contested \/ (mark[t] /\ ~flag))
  /\ mark' = [mark EXCEPT ![t] = @ /\ t \in Apt]
  /\ UNCHANGED <<flag, poll, owner, starts>>

\* sudo touch /run/beefy-keep-awake
OwnerHolds ==
  /\ owner = "no"
  /\ owner' = IF flag THEN "late" ELSE "first"
  /\ flag' = TRUE
  /\ contested' = (contested \/ (~flag /\ Claimed))
  /\ UNCHANGED <<mark, pc, poll, stray, starts, faults>>

\* sudo rm: his own hold, or one left behind.
OwnerReleases ==
  /\ flag \/ owner # "no"
  /\ owner' = "no"
  /\ flag' = FALSE
  /\ contested' = (contested \/ Claimed)
  /\ stray' = FALSE
  /\ UNCHANGED <<mark, pc, poll, starts, faults>>

\* Power off, reset or power cut: no process and nothing in /run is left.
Shutdown ==
  /\ flag' = FALSE
  /\ mark' = [t \in Job |-> FALSE]
  /\ pc' = [t \in Job |-> "off"]
  /\ asked' = {} /\ found' = FALSE
  /\ owner' = "no"
  /\ contested' = FALSE /\ stray' = FALSE
  /\ UNCHANGED <<starts, faults>>

-----------------------------------------------------------------------------

Step(t) == Look(t) \/ Take(t) \/ Remember(t) \/ Finish(t) \/ StopPost(t) \/ Leave(t)

Running == \/ \E t \in Job : Start(t) \/ Step(t) \/ StopUnit(t) \/ Kill(t)
           \/ Drain
           \/ OwnerHolds \/ OwnerReleases

HoldNext == Running \/ Shutdown

HoldSpec == HoldInit /\ [][HoldNext]_hvars

-----------------------------------------------------------------------------
(* Properties. *)

HoldTypeOK ==
  /\ flag \in BOOLEAN
  /\ mark \in [Job -> BOOLEAN]
  /\ pc \in [Job -> PC]
  /\ asked \subseteq Listed
  /\ found \in BOOLEAN
  /\ owner \in {"no", "first", "late"}
  /\ contested \in BOOLEAN
  /\ stray \in BOOLEAN
  /\ starts \in Nat
  /\ faults \in Nat

\* "Release only what this run took": unless two takers looked before either
\* touched the file, at most one of them will remove it.
OneReleaser ==
  ~contested => \A t, u \in Job : Claim(t) /\ Claim(u) => t = u

\* A run that took the hold has it until it releases it, however many others
\* come and go meanwhile.
HoldStands ==
  ~contested => \A t \in Job : Claim(t) => flag \/ (t \in Apt /\ pc[t] = "take")

\* The owner's hold, put while nobody had one, outlives every job
\* (auto-update.service:22, "an owner's hold stays").
OwnersHoldStands == ~contested /\ owner = "first" => flag /\ ~Claimed

\* Nothing keeps the host awake for good: behind every hold is the owner or a
\* run that will remove it.  The exceptions are history: a taker that died
\* before it could, and apt touching a file that was released meanwhile.
NoOrphanHold ==
  flag /\ ~stray => \/ owner # "no"
                    \/ \E t \in Job : Claim(t) /\ pc[t] # "off"

-----------------------------------------------------------------------------
(* The inductive invariant. *)

\* Which steps a job goes through, and at which it can have a mark.  Only
\* apt's outlives its process.
MarkInv ==
  \A t \in Job :
    /\ t \in Unit /\ mark[t] => pc[t] \in {"run", "drain", "post"}
    /\ t \in Mover => /\ pc[t] \in {"off", "pre", "take", "run"}
                      /\ mark[t] => pc[t] = "run"
    /\ t \in Apt => pc[t] \in {"off", "pre", "take", "run"}
    /\ t \in Guest => pc[t] \in {"off", "run"} /\ ~mark[t]

HoldInv == /\ HoldTypeOK /\ MarkInv
           /\ OneReleaser /\ HoldStands /\ OwnersHoldStands /\ NoOrphanHold
=============================================================================
