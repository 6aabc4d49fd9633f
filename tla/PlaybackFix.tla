---------------------------- MODULE PlaybackFix ----------------------------
(***************************************************************************)
(* playback-watch and its autofix.py: while somebody's film stutters the   *)
(* downloads and the background jobs are slowed down, and afterwards each  *)
(* gets back what its owner had set.  The only memory of that is a file,   *)
(* written before a setting is touched.  Each call to qBittorrent,         *)
(* SABnzbd and systemd is a step of its own, which may fail, or be done    *)
(* although its answer is lost; the daemon may be stopped or killed at     *)
(* any of them.                                                            *)
(*                                                                         *)
(* Time is counted in polls.  What the sessions say is a choice: whether   *)
(* somebody plays, and whether an incident is at most EPISODE_GAP old.     *)
(* The owner changes no setting while it is slowed down (the revert would  *)
(* undo it).                                                               *)
(***************************************************************************)
EXTENDS Integers, FiniteSets

CONSTANTS
  Unit,       \* systemd units of the background jobs
  Scope,      \* scopes of containers; a container made anew has another
  Oneshot,    \* units of Type=oneshot
  After,      \* REVERT_AFTER, in polls
  MaxFault    \* bound: calls and saves that fail, kills and reboots

Target == Unit \cup Scope

ASSUME FixAssumption ==
  Unit \cap Scope = {} /\ Oneshot \subseteq Unit /\ After \in Nat \ {0} /\ MaxFault \in Nat

VARIABLES
  play,      \* what goes on in Jellyfin, or that it does not answer
  qbit,      \* qBittorrent's alternative limits, whether they are on, the mode its owner chose
  sab,       \* SABnzbd's limit
  weight,    \* [Target -> CPUWeight and IOWeight]
  state,     \* [Target -> whether it runs]
  disk,      \* autofix.json
  applied, complete,             \* AutoFix: applied, _complete
  reverting, was, quiet, blind,  \* Watcher, Tracker: _playing; polls since _last_end, last_ok
  pc,
  stopping,  \* stop is set, or its revert, the last one, runs
  todo,      \* the targets a loop has before it
  behind,    \* history: the last save failed
  unasked,   \* history: targets lowered by a call without an answer
  forgot,    \* history: ended while behind
  faults

world == <<play, qbit, sab, weight, state>>
watcher == <<reverting, was, quiet, blind>>
vars == <<world, disk, applied, complete, watcher, pc, stopping, todo, behind, unasked, forgot, faults>>

Value == {"own", "slow"}
No == [is |-> "no", mode |-> 0, value |-> "own", pending |-> FALSE]
Entry == {No} \cup [is : {"entry"}, mode : {0, 1}, value : Value, pending : BOOLEAN]
File == [qbit : Entry, sab : Entry, units : [Target -> Value \cup {"no"}]]
Empty == [qbit |-> No, sab |-> No, units |-> [t \in Target |-> "no"]]

Known(file) == {t \in Target : file.units[t] # "no"}
active == applied # Empty

PC == {"off", "loop"}
      \cup {"ask qbit", "slow qbit", "turn on", "ask sab", "slow sab", "save", "look up", "read", "lower"}
      \cup {"free qbit", "turn off", "free sab", "restore"}

TypeOK ==
  /\ play \in {"none", "fine", "stutter", "down"}
  /\ qbit \in [alt : Value, mode : {0, 1}, own : {0, 1}] /\ sab \in Value
  /\ weight \in [Target -> Value] /\ state \in [Target -> {"off", "on", "gone"}]
  /\ disk \in File /\ applied \in File
  /\ complete \in BOOLEAN /\ reverting \in BOOLEAN /\ was \in BOOLEAN
  /\ stopping \in {"no", "asked", "last"} /\ behind \in BOOLEAN /\ forgot \in BOOLEAN
  /\ quiet \in 0 .. After /\ blind \in 0 .. After
  /\ pc \in PC /\ todo \subseteq Target /\ unasked \subseteq Target
  /\ faults \in 0 .. MaxFault

Init ==
  /\ play = "none"
  /\ \E m \in {0, 1} : qbit = [alt |-> "own", mode |-> m, own |-> m]
  /\ sab = "own" /\ weight = [t \in Target |-> "own"] /\ state = [t \in Target |-> "off"]
  /\ disk = Empty /\ applied = Empty /\ complete = FALSE
  /\ reverting = FALSE /\ was = FALSE /\ quiet = 0 /\ blind = 0
  /\ pc = "off" /\ stopping = "no" /\ todo = {}
  /\ behind = FALSE /\ unasked = {} /\ forgot = FALSE /\ faults = 0

-----------------------------------------------------------------------------
(* Calls. *)

Fault == faults < MaxFault /\ faults' = faults + 1
Done == UNCHANGED faults

\* A step of apply or revert: all it leaves alone.
Step(from) == pc = from /\ UNCHANGED <<play, state, watcher, stopping, unasked, forgot>>
NoSave == UNCHANGED <<disk, behind>>

\* self._save(): the whole file is replaced, or none of it.
Saves(file) == disk' = file /\ behind' = FALSE /\ Done
SaveFails == UNCHANGED disk /\ behind' = TRUE /\ Fault

\* Incomplete: _try, or a handler like it, has caught an exception.
Incomplete == complete' = FALSE
Forget(client) == [applied EXCEPT ![client] = No]

-----------------------------------------------------------------------------
(* apply: the downloads *)

\* Mutant: the record is left to the save at the end.
Ask_Later(client, entry, slow, next) ==
  /\ UNCHANGED <<qbit, sab, weight, todo>>
  /\ IF applied[client] # No
     THEN /\ pc' = (IF applied[client].pending THEN slow ELSE next)
          /\ UNCHANGED <<applied, complete>> /\ NoSave /\ Done
     ELSE \/ applied' = [applied EXCEPT ![client] = entry] /\ pc' = slow
             /\ UNCHANGED complete /\ NoSave /\ Done
          \/ UNCHANGED applied /\ pc' = next /\ Incomplete /\ NoSave /\ Fault

\* A client without a record is asked for its settings, which are saved before
\* anything is set; one that is recorded and not pending is left alone.
Ask(client, entry, slow, next) ==
  /\ UNCHANGED <<qbit, sab, weight, todo>>
  /\ IF applied[client] # No
     THEN /\ pc' = (IF applied[client].pending THEN slow ELSE next)
          /\ UNCHANGED <<applied, complete>> /\ NoSave /\ Done
     ELSE \/ /\ applied' = [applied EXCEPT ![client] = entry]
             /\ \/ pc' = slow /\ Saves(applied') /\ UNCHANGED complete
                \/ pc' = next /\ SaveFails /\ Incomplete
          \/ UNCHANGED applied /\ pc' = next /\ Incomplete /\ NoSave /\ Fault

New(mode, value) == [is |-> "entry", mode |-> mode, value |-> value, pending |-> TRUE]

AskQbit == Step("ask qbit") /\ Ask("qbit", New(qbit.mode, qbit.alt), "slow qbit", "ask sab")
AskSab == Step("ask sab") /\ Ask("sab", New(0, sab), "slow sab", "save")

Applied(client) == [applied EXCEPT ![client].pending = FALSE]

\* set_prefs; the limits count once the mode is on.
SlowQbit ==
  /\ Step("slow qbit") /\ UNCHANGED <<sab, weight, todo>> /\ NoSave
  /\ \/ /\ Done /\ qbit' = [qbit EXCEPT !.alt = "slow"]
        /\ IF applied.qbit.mode = 0
           THEN pc' = "turn on" /\ UNCHANGED <<applied, complete>>
           ELSE pc' = "ask sab" /\ applied' = Applied("qbit") /\ UNCHANGED complete
     \/ /\ Fault /\ qbit' \in {qbit, [qbit EXCEPT !.alt = "slow"]}
        /\ pc' = "ask sab" /\ Incomplete /\ UNCHANGED applied

\* speed_mode, toggle_speed_mode
TurnOn ==
  /\ Step("turn on") /\ UNCHANGED <<sab, weight, todo>> /\ NoSave
  /\ pc' = "ask sab"
  /\ \/ Done /\ qbit' = [qbit EXCEPT !.mode = 1] /\ applied' = Applied("qbit") /\ UNCHANGED complete
     \/ Fault /\ qbit' \in {qbit, [qbit EXCEPT !.mode = 1]} /\ Incomplete /\ UNCHANGED applied

SlowSab ==
  /\ Step("slow sab") /\ UNCHANGED <<qbit, weight, todo>> /\ NoSave
  /\ pc' = "save"
  /\ \/ Done /\ sab' = "slow" /\ applied' = Applied("sab") /\ UNCHANGED complete
     \/ Fault /\ sab' \in {sab, "slow"} /\ Incomplete /\ UNCHANGED applied

\* A save outside of a _try that fails ends apply.
SaveDownloads ==
  /\ Step("save") /\ UNCHANGED <<qbit, sab, weight, todo, applied, complete>>
  /\ \/ Saves(applied) /\ pc' = "look up"
     \/ SaveFails /\ pc' = "loop"

-----------------------------------------------------------------------------
(* apply: the background jobs *)

\* systemctl is-active says no of a oneshot unit while it runs.
IsActive(t) == state[t] = "on" /\ t \notin Oneshot

LookUp ==
  /\ Step("look up") /\ UNCHANGED <<qbit, sab, weight, applied>> /\ NoSave
  /\ \/ Done /\ todo' = {t \in Target : IsActive(t)} /\ pc' = "read" /\ UNCHANGED complete
     \/ Fault /\ pc' = "loop" /\ Incomplete /\ UNCHANGED todo

First == CHOOSE t \in todo : TRUE

With(t, value) == [applied EXCEPT !.units[t] = value]

\* Of a scope that is gone systemctl shows the default.
ReadWeights ==
  /\ Step("read") /\ todo # {} /\ UNCHANGED <<qbit, sab, weight>>
  /\ IF applied.units[First] # "no"
     THEN /\ todo' = todo \ {First} /\ UNCHANGED <<applied, complete, pc>> /\ NoSave /\ Done
     ELSE \/ /\ applied' = With(First, weight[First])
             /\ \/ Saves(applied') /\ pc' = "lower" /\ UNCHANGED <<complete, todo>>
                \/ SaveFails /\ pc' = "loop" /\ todo' = {} /\ UNCHANGED complete
          \/ todo' = todo \ {First} /\ Incomplete /\ Fault /\ UNCHANGED <<applied, pc>> /\ NoSave

\* A target that could not be lowered is struck off again.
Lower ==
  /\ pc = "lower" /\ pc' = "read" /\ todo' = todo \ {First}
  /\ UNCHANGED <<play, qbit, sab, state, watcher, stopping, forgot>> /\ NoSave
  /\ \/ /\ state[First] # "gone" /\ Done /\ weight' = [weight EXCEPT ![First] = "slow"]
        /\ UNCHANGED <<applied, complete, unasked>>
     \/ /\ Incomplete /\ applied' = With(First, "no")
        /\ \/ /\ IF state[First] = "gone" THEN Done ELSE Fault
              /\ UNCHANGED <<weight, unasked>>
           \/ /\ state[First] # "gone" /\ Fault
              /\ weight' = [weight EXCEPT ![First] = "slow"] /\ unasked' = unasked \cup {First}

EndApply ==
  /\ Step("read") /\ todo = {} /\ UNCHANGED <<qbit, sab, weight, todo, applied, complete>>
  /\ pc' = "loop" /\ (Saves(applied) \/ SaveFails)

Apply == AskQbit \/ SlowQbit \/ TurnOn \/ AskSab \/ SlowSab \/ SaveDownloads
         \/ LookUp \/ ReadWeights \/ Lower \/ EndApply

-----------------------------------------------------------------------------
(* revert *)

\* _revert_qbit: the limits it had, then the mode.
FreeQbit ==
  /\ Step("free qbit") /\ UNCHANGED <<sab, weight, complete, todo>> /\ NoSave
  /\ IF applied.qbit = No
     THEN pc' = "free sab" /\ UNCHANGED <<qbit, applied>> /\ Done
     ELSE LET free == [qbit EXCEPT !.alt = applied.qbit.value]
          IN \/ /\ Done /\ qbit' = free
                /\ IF applied.qbit.mode = 0
                   THEN pc' = "turn off" /\ UNCHANGED applied
                   ELSE pc' = "free sab" /\ applied' = Forget("qbit")
             \/ Fault /\ qbit' \in {qbit, free} /\ pc' = "free sab" /\ UNCHANGED applied

TurnOff ==
  /\ Step("turn off") /\ UNCHANGED <<sab, weight, complete, todo>> /\ NoSave
  /\ pc' = "free sab"
  /\ \/ Done /\ qbit' = [qbit EXCEPT !.mode = 0] /\ applied' = Forget("qbit")
     \/ Fault /\ qbit' \in {qbit, [qbit EXCEPT !.mode = 0]} /\ UNCHANGED applied

FreeSab ==
  /\ Step("free sab") /\ UNCHANGED <<qbit, weight, complete>> /\ NoSave
  /\ pc' = "restore" /\ todo' = Known(applied)
  /\ \/ applied.sab = No /\ Done /\ UNCHANGED <<sab, applied>>
     \/ applied.sab # No /\ Done /\ sab' = applied.sab.value /\ applied' = Forget("sab")
     \/ applied.sab # No /\ Fault /\ sab' \in {sab, applied.sab.value} /\ UNCHANGED applied

\* A weight that could not be restored is kept unless its unit is not loaded;
\* whether it is may be unknown too.
Restore ==
  /\ Step("restore") /\ todo # {} /\ UNCHANGED <<qbit, sab, complete, pc>> /\ NoSave
  /\ todo' = todo \ {First}
  /\ LET given == [weight EXCEPT ![First] = applied.units[First]]
     IN \/ state[First] # "gone" /\ Done /\ weight' = given /\ applied' = With(First, "no")
        \/ state[First] # "gone" /\ Fault /\ weight' \in {weight, given} /\ UNCHANGED applied
        \/ state[First] = "gone" /\ Done /\ applied' = With(First, "no") /\ UNCHANGED weight
        \/ state[First] = "gone" /\ Fault /\ UNCHANGED <<weight, applied>>

\* The process is gone, with all it knew.
End(unsaved) ==
  /\ pc' = "off" /\ stopping' = "no" /\ applied' = Empty /\ complete' = FALSE
  /\ reverting' = FALSE /\ was' = FALSE /\ quiet' = 0 /\ blind' = 0
  /\ behind' = FALSE /\ forgot' = (forgot \/ unsaved)

\* Back to where revert was called: run at the start, poll, run at the end.
EndRevert ==
  /\ pc = "restore" /\ todo = {} /\ UNCHANGED <<world, todo, unasked>>
  /\ IF stopping = "last"
     THEN \/ disk' = applied /\ End(FALSE) /\ Done
          \/ UNCHANGED disk /\ End(TRUE) /\ Fault
     ELSE /\ Saves(applied) \/ SaveFails
          /\ pc' = "loop" /\ reverting' = active
          /\ UNCHANGED <<applied, complete, was, quiet, blind, stopping, forgot>>

Revert == FreeQbit \/ TurnOff \/ FreeSab \/ Restore \/ EndRevert

\* apply, revert and restore_from_state begin.
Begin(what) == pc' = what /\ complete' = (what = "ask qbit")

-----------------------------------------------------------------------------
(* The daemon *)

Upto(n) == IF n < After THEN n + 1 ELSE After

Start ==
  /\ pc = "off"
  /\ applied' = disk
  /\ IF disk = Empty THEN pc' = "loop" /\ UNCHANGED complete ELSE Begin("free qbit")
  /\ UNCHANGED <<world, watcher, disk, stopping, todo, behind, unasked, forgot, faults>>

\* _revert; reverting is set anew when it is through.
Reverts ==
  IF active THEN Begin("free qbit") /\ UNCHANGED reverting
  ELSE reverting' = FALSE /\ UNCHANGED <<pc, complete>>

\* Tracker.update: whether somebody plays, and since when nobody does.
Update ==
  /\ was' = (play # "none")
  /\ quiet' = IF was /\ play = "none" THEN 0 ELSE Upto(quiet)

\* poll, after the sessions are there; a complete apply is repeated after
\* APPLY_EVERY.
Decide ==
  IF play = "stutter"
  THEN /\ reverting' = FALSE
       /\ \/ Begin("ask qbit")
          \/ complete /\ active /\ UNCHANGED <<pc, complete>>
  ELSE IF reverting \/ (play = "none" /\ quiet' >= After)
  THEN Reverts
  ELSE UNCHANGED <<pc, complete, reverting>>

\* An answer that update or _track_playbacks cannot read counts as one: last_ok
\* is set, and poll_once catches the exception before anything is decided.
Poll ==
  /\ pc = "loop" /\ stopping = "no" /\ play # "down" /\ blind' = 0
  /\ \/ Update /\ Decide /\ Done
     \/ /\ Fault /\ UNCHANGED <<pc, complete, reverting>>
        /\ Update \/ (quiet' = Upto(quiet) /\ UNCHANGED was)
  /\ UNCHANGED <<world, disk, applied, stopping, todo, behind, unasked, forgot>>

\* Mutant: without an answer from Jellyfin nothing is decided.
PollFails_Waits ==
  /\ pc = "loop" /\ stopping = "no" /\ play = "down"
  /\ blind' = Upto(blind) /\ quiet' = Upto(quiet)
  /\ UNCHANGED <<world, pc, complete, reverting, disk, applied, was, stopping,
                 todo, behind, unasked, forgot, faults>>

PollFails ==
  /\ pc = "loop" /\ stopping = "no" /\ play = "down"
  /\ blind' = Upto(blind) /\ quiet' = Upto(quiet)
  /\ IF blind' >= After THEN Reverts ELSE UNCHANGED <<pc, complete, reverting>>
  /\ UNCHANGED <<world, disk, applied, was, stopping, todo, behind, unasked, forgot, faults>>

\* The end of run.
Stopped ==
  /\ pc = "loop" /\ stopping = "asked"
  /\ IF active
     THEN Begin("free qbit") /\ stopping' = "last" /\ UNCHANGED <<applied, watcher, behind, forgot>>
     ELSE End(behind)
  /\ UNCHANGED <<world, disk, todo, unasked, faults>>

Daemon == Start \/ Apply \/ Revert \/ Poll \/ PollFails \/ Stopped

-----------------------------------------------------------------------------
(* What happens to it. *)

\* systemctl stop or restart
Sigterm ==
  /\ pc # "off" /\ stopping = "no" /\ stopping' = "asked"
  /\ UNCHANGED <<world, disk, applied, complete, watcher, pc, todo, behind, unasked, forgot, faults>>

\* A weight is set with --runtime and a scope ends with its container.
Kill ==
  /\ pc # "off" /\ Fault
  /\ End(behind) /\ todo' = {}
  /\ \/ UNCHANGED <<weight, state>>
     \/ /\ weight' = [t \in Target |-> "own"]
        /\ state' = [t \in Target |-> IF state[t] = "on" /\ t \in Scope THEN "gone" ELSE state[t]]
  /\ UNCHANGED <<play, qbit, sab, disk, unasked>>

\* The sessions matter when the daemon asks for them.
Viewers ==
  /\ pc = "loop" /\ play' \in {"none", "fine", "stutter", "down"} \ {play}
  /\ UNCHANGED <<qbit, sab, weight, state, disk, applied, complete, watcher, pc, stopping,
                 todo, behind, unasked, forgot, faults>>

Jobs ==
  /\ \E t \in Target :
       \/ state[t] = "off" /\ state' = [state EXCEPT ![t] = "on"] /\ UNCHANGED weight
       \/ t \in Unit /\ state[t] = "on" /\ state' = [state EXCEPT ![t] = "off"] /\ UNCHANGED weight
       \/ /\ t \in Scope /\ state[t] = "on" /\ state' = [state EXCEPT ![t] = "gone"]
          /\ weight' = [weight EXCEPT ![t] = "own"]
  /\ UNCHANGED <<play, qbit, sab, disk, applied, complete, watcher, pc, stopping,
                 todo, behind, unasked, forgot, faults>>

Next == Daemon \/ Sigterm \/ Kill \/ Viewers \/ Jobs

Spec == Init /\ [][Next]_vars

\* The daemon runs, its calls time out, and systemd starts it again.
FairSpec == Spec /\ WF_vars(Daemon)

-----------------------------------------------------------------------------
(* What must hold. *)

\* What a kill leaves is enough to put back what AutoFix.apply slowed down: the
\* file says so of the clients and of every lowered weight, and no record took a
\* slowed value for the owner's.  The code does not keep this after a save that
\* failed (`behind`, until one works; `forgot`, if the process ended before),
\* nor of a weight that a call without an answer lowered (`unasked`).
Recorded ==
  behind \/ forgot
  \/ /\ qbit.alt = "slow" \/ qbit.mode # qbit.own => disk.qbit # No
     /\ sab = "slow" => disk.sab # No
     /\ \A t \in Target \ unasked : weight[t] = "slow" => disk.units[t] # "no"

OwnersValues(file) ==
  /\ file.qbit # No => file.qbit.value = "own" /\ file.qbit.mode = qbit.own
  /\ file.sab # No => file.sab.value = "own"
  /\ \A t \in Target \ unasked : file.units[t] # "slow"

FixInv == TypeOK /\ Recorded /\ (forgot \/ (OwnersValues(disk) /\ OwnersValues(applied)))

\* Once nobody plays, Jellyfin being up or down, everything is its owner's
\* again and stays so, through failing calls, lost answers, restarts and reboots.
Restored ==
  /\ qbit.alt = "own" /\ qbit.mode = qbit.own /\ sab = "own"
  /\ \A t \in Target \ unasked : weight[t] = "own"
SettingsComeBack == <>[](play \in {"none", "down"} /\ ~forgot) => <>[]Restored
=============================================================================
