------------------------------ MODULE TierMove ------------------------------
(***************************************************************************)
(* Moving one video file between the branches of the mergerfs pool         *)
(* /srv/video: tier-move (the shell script the mover, the promoter and the *)
(* owner run) and tier_helper.py (the copy, verify, rename, delete of one  *)
(* file, and the recovery of staging leftovers), both under                *)
(* Server/3-Storage-Layout-and-Spindown.                                   *)
(*                                                                         *)
(* The module follows ONE path of the pool.  A job that moves other titles *)
(* is a job with no source for this path: it still recovers this path's    *)
(* leftovers.  What a branch holds at the path is a record; the versions   *)
(* the apps write there are numbered, so that a file's signature (inode,   *)
(* size, ctime) is its version number.                                     *)
(*                                                                         *)
(* Power cuts.  now[b] is what a running system reads on branch b, may[b]  *)
(* the set of states a power cut may leave there; an fsync removes states  *)
(* from may[b].  What the apps write is taken to be on disk at once.       *)
(***************************************************************************)
EXTENDS Integers

CONSTANTS
  Branch,      \* the branches of the pool
  Cold,        \* the HDD branch; the others are hot (SSD)
  Rank,        \* mergerfs branch order: a lookup takes the lowest rank
  Job,         \* runs of tier-move that may overlap: mover, promoter, manual
  NoJob,       \* the media lock is free
  None,        \* no file under a name
  Torn,        \* a file whose data is not a whole version
  Partial,     \* the temporary rsync writes to, .<name>.XXXXXX
  MaxVersion,  \* bound: how many versions the apps write
  MaxFault     \* bound: how many kills and power cuts happen

ASSUME BranchAssumption ==
  /\ Cold \in Branch
  /\ Rank \in [Branch -> Nat]
  /\ \A b, c \in Branch : Rank[b] = Rank[c] => b = c

ASSUME ValueAssumption ==
  /\ MaxVersion \in Nat \ {0}
  /\ MaxFault \in Nat
  /\ NoJob \notin Job
  /\ {None, Torn, Partial} \cap Nat = {}
  /\ None # Torn /\ None # Partial /\ Torn # Partial

Hot == Branch \ {Cold}
Version == 1 .. MaxVersion
Content == Version \cup {Torn}
Name == Content \cup {None}

\* What one branch holds at the path: under its real name and in .tier-staging.
\* A leftover put aside in .tier-recovered leaves the slot: nothing but the
\* owner reads it again.
Slot == [real : Name, stage : Name \cup {Partial}]
EmptySlot == [real |-> None, stage |-> None]

VARIABLES
  now,     \* [Branch -> Slot], the state a reader sees
  may,     \* [Branch -> SUBSET Slot], the states a power cut may leave
  lock,    \* /run/lock/beefy-media.lock: its holder
  pc,      \* the step each job is at
  src,     \* the source branch of the file being moved
  dst,     \* the destination branch of the job
  todo,    \* source branches of FILES that are still to be moved
  before,  \* the signature noted before the copy
  written, \* how many versions the apps have written
  truth,   \* the version the apps left at the path, None when removed
  raced,   \* history: an app acted inside a window the move cannot see
  faults   \* history: how many kills and power cuts there were

disk == <<now, may>>
jobs == <<pc, src, dst, todo, before>>
apps == <<written, truth, raced>>
vars == <<disk, jobs, lock, apps, faults>>

\* The steps at which a job holds the media lock, in the order of tier_helper.
Recovering == {"recover", "recoversync"}
Moving == {"copy", "copying", "check1", "verify", "check2", "rename",
           "syncout", "syncstage", "check3", "undo", "unlink", "syncsrc"}
Held == Recovering \cup {"next"} \cup Moving
PC == {"idle", "wait"} \cup Held

-----------------------------------------------------------------------------
(* The disks. *)

Has(b) == now[b].real # None
Earliest(b, S) == b \in S /\ \A c \in S : Rank[b] <= Rank[c]

\* The branch whose copy a reader of /srv/video gets: mergerfs searches them
\* in order.
Shown(b) == Earliest(b, {c \in Branch : Has(c)})

\* A change of the names on branch b that no fsync has made durable yet.
Change(b, slot, torn) ==
  /\ now' = [now EXCEPT ![b] = slot]
  /\ may' = [may EXCEPT ![b] = @ \cup {slot} \cup torn]

\* fsync of a directory: the states that differ in its names are gone.
SyncReal(b) ==
  /\ may' = [may EXCEPT ![b] = {s \in @ : s.real = now[b].real}]
  /\ UNCHANGED now

SyncStage(b) ==
  /\ may' = [may EXCEPT ![b] = {s \in @ : s.stage = now[b].stage}]
  /\ UNCHANGED now

Init ==
  /\ \E b \in Branch :
        now = [c \in Branch |-> IF c = b THEN [EmptySlot EXCEPT !.real = 1]
                                         ELSE EmptySlot]
  /\ may = [b \in Branch |-> {now[b]}]
  /\ lock = NoJob
  /\ pc = [j \in Job |-> "idle"]
  /\ src = [j \in Job |-> Cold]
  /\ dst = [j \in Job |-> Cold]
  /\ todo = [j \in Job |-> {}]
  /\ before = [j \in Job |-> None]
  /\ written = 1
  /\ truth = 1
  /\ raced = FALSE
  /\ faults = 0

-----------------------------------------------------------------------------
(* tier-move: selection before the lock, recovery and the loop under it. *)

Goto(j, step) ==
  /\ pc' = [pc EXCEPT ![j] = step]
  /\ UNCHANGED <<src, dst, todo, before>>

\* The run ends: its processes exit and the flock goes with them.
Leave(j) ==
  /\ pc' = [pc EXCEPT ![j] = "idle"]
  /\ src' = [src EXCEPT ![j] = Cold]
  /\ dst' = [dst EXCEPT ![j] = Cold]
  /\ todo' = [todo EXCEPT ![j] = {}]
  /\ before' = [before EXCEPT ![j] = None]
  /\ lock' = IF lock = j THEN NoJob ELSE lock

\* The sources hold the file now, before the lock; what they hold when the
\* lock is granted may differ.  S = {} is a run for another title.
Start(j, d, S) ==
  /\ pc[j] = "idle"
  /\ pc' = [pc EXCEPT ![j] = "wait"]
  /\ dst' = [dst EXCEPT ![j] = d]
  /\ todo' = [todo EXCEPT ![j] = S]
  /\ UNCHANGED <<src, before, lock, disk, apps>>

Demote(j) == \E S \in {{}, {b \in Hot : Has(b)}} : Start(j, Cold, S)
Promote(j) == \E d \in Hot, S \in {{}, {b \in {Cold} : Has(b)}} : Start(j, d, S)

Acquire(j) ==
  /\ pc[j] = "wait"
  /\ lock = NoJob
  /\ lock' = j
  /\ Goto(j, "recover")
  /\ UNCHANGED <<disk, apps>>

\* Mutant: flock without a bound on the wait.
GiveUp_Never(j) == pc[j] = "wait" /\ FALSE /\ UNCHANGED vars

\* flock -w TIER_LOCK_WAIT runs out while another job holds the lock: exit 3.
GiveUp(j) ==
  /\ pc[j] = "wait"
  /\ lock # NoJob
  /\ Leave(j)
  /\ UNCHANGED <<disk, apps>>

\* The next file of FILES: its signature is noted.
NextFile(j) ==
  /\ pc[j] = "next"
  /\ \E s \in todo[j] :
       /\ Earliest(s, todo[j]) /\ Has(s)
       /\ src' = [src EXCEPT ![j] = s]
       /\ todo' = [todo EXCEPT ![j] = @ \ {s}]
       /\ before' = [before EXCEPT ![j] = now[s].real]
  /\ pc' = [pc EXCEPT ![j] = "copy"]
  /\ UNCHANGED <<dst, lock, disk, apps>>

\* The loop is through, or sig(src) raises: the file went away since it was
\* selected.
LoopEnds(j) ==
  /\ pc[j] = "next"
  /\ \A s \in todo[j] : Earliest(s, todo[j]) => ~Has(s)
  /\ Leave(j)
  /\ UNCHANGED <<disk, apps>>

-----------------------------------------------------------------------------
(* tier_helper.recover: every leftover of the destination's staging area.  *)

Original(d) == \E b \in Branch \ {d} : Has(b)

Leftover(j) == pc[j] = "recover" /\ now[dst[j]].stage # None

RecoverDrop(j) == LET d == dst[j] IN
  /\ Leftover(j)
  /\ \/ Original(d)
     \/ ~Original(d) /\ now[d].stage = now[d].real /\ now[d].real # Torn
  /\ Change(d, [now[d] EXCEPT !.stage = None], {})
  /\ UNCHANGED <<jobs, lock, apps>>

RecoverPlace(j) == LET d == dst[j] IN
  /\ Leftover(j)
  /\ ~Original(d) /\ ~Has(d)
  /\ now[d].stage # Partial
  /\ Change(d, [real |-> now[d].stage, stage |-> None], {})
  /\ Goto(j, "recoversync")
  /\ UNCHANGED <<lock, apps>>

RecoverSync(j) ==
  /\ pc[j] = "recoversync"
  /\ SyncReal(dst[j])
  /\ Goto(j, "recover")
  /\ UNCHANGED <<lock, apps>>

RecoverKeep(j) == LET d == dst[j] IN
  /\ Leftover(j)
  /\ ~Original(d)
  /\ \/ now[d].stage = Partial
     \/ Has(d) /\ now[d].stage # now[d].real
     \/ Has(d) /\ now[d].real = Torn
  /\ Change(d, [now[d] EXCEPT !.stage = None], {})
  /\ UNCHANGED <<jobs, lock, apps>>

RecoverDone(j) ==
  /\ pc[j] = "recover"
  /\ now[dst[j]].stage = None
  /\ Goto(j, "next")
  /\ UNCHANGED <<disk, lock, apps>>

Recover(j) ==
  \/ RecoverDrop(j) \/ RecoverPlace(j) \/ RecoverSync(j)
  \/ RecoverKeep(j) \/ RecoverDone(j)

-----------------------------------------------------------------------------
(* tier_helper.move: copy, verify, rename, sync, delete the source.        *)

Unchanged(j) == now[src[j]].real = before[j]

RsyncStart(j) == LET d == dst[j] IN
  /\ pc[j] = "copy"
  /\ Change(d, [now[d] EXCEPT !.stage = Partial], {})
  /\ Goto(j, "copying")
  /\ UNCHANGED <<lock, apps>>

\* rsync renames its temporary to the staged name without an fsync: a power
\* cut may leave that name with torn data.  It copied the file it opened.
RsyncEnd(j) == LET d == dst[j] IN
  /\ pc[j] = "copying"
  /\ \E c \in {before[j], now[src[j]].real} \ {None} :
       Change(d, [now[d] EXCEPT !.stage = c], {[now[d] EXCEPT !.stage = Torn]})
  /\ Goto(j, "check1")
  /\ UNCHANGED <<lock, apps>>

\* A step that removes the staged copy and ends the run (exit 1 or 4).
Discard(j) == LET d == dst[j] IN
  /\ Change(d, [now[d] EXCEPT !.stage = None], {})
  /\ Leave(j)

RsyncFails(j) ==
  /\ pc[j] = "copying"
  /\ Discard(j)
  /\ UNCHANGED apps

\* Mutant: the signature of the source is not compared.
CheckSource_Trust(j, at, then) ==
  /\ pc[j] = at
  /\ Goto(j, then)
  /\ UNCHANGED <<disk, lock, apps>>

CheckSource(j, at, then) ==
  /\ pc[j] = at
  /\ \/ Unchanged(j) /\ Goto(j, then) /\ UNCHANGED <<disk, lock>>
     \/ ~Unchanged(j) /\ Discard(j)
  /\ UNCHANGED apps

Check1(j) == CheckSource(j, "check1", "verify")
\* Mutants: no second look at the source; the source is deleted before the rename.
Check2_Skip(j) ==
  /\ pc[j] = "check2"
  /\ Goto(j, "rename")
  /\ UNCHANGED <<disk, lock, apps>>
Check2_DeleteFirst(j) == LET s == src[j] IN
  /\ pc[j] = "check2"
  /\ Unchanged(j)
  /\ Change(s, [now[s] EXCEPT !.real = None], {})
  /\ Goto(j, "rename")
  /\ UNCHANGED <<lock, apps>>

Check2(j) == CheckSource(j, "check2", "rename")

\* drop_cache fsyncs the copy, so its data is whole in every state left.
Verified(b) ==
  may' = [may EXCEPT ![b] = {s \in @ : s.stage # Torn} \cup {now[b]}]

Verify(j) == LET s == src[j]  d == dst[j] IN
  /\ pc[j] = "verify"
  /\ now[s].real = now[d].stage
  /\ Verified(d)
  /\ Goto(j, "check2")
  /\ UNCHANGED <<now, lock, apps>>

\* A read error, or different contents: the copy is discarded (exit 1).
VerifyFails(j) ==
  /\ pc[j] = "verify"
  /\ Has(src[j])
  /\ Discard(j)
  /\ UNCHANGED apps

\* The source or its directory is gone where the code does not expect it:
\* the exception ends the run and leaves what is staged.
Raise(j) ==
  /\ pc[j] \in {"verify", "rename", "unlink", "syncsrc"}
  /\ ~Has(src[j])
  /\ Leave(j)
  /\ UNCHANGED <<disk, apps>>

Rename(j) == LET d == dst[j] IN
  /\ pc[j] = "rename"
  /\ Change(d, [real |-> now[d].stage, stage |-> None], {})
  /\ Goto(j, "syncout")
  /\ UNCHANGED <<lock, apps>>

\* Mutant: the rename is not made durable.
FsyncUp_Skip(j) ==
  /\ pc[j] = "syncout"
  /\ Goto(j, "syncstage")
  /\ UNCHANGED <<disk, lock, apps>>

FsyncUp(j) ==
  /\ pc[j] = "syncout"
  /\ SyncReal(dst[j])
  /\ Goto(j, "syncstage")
  /\ UNCHANGED <<lock, apps>>

FsyncStage(j) ==
  /\ pc[j] = "syncstage"
  /\ SyncStage(dst[j])
  /\ Goto(j, "check3")
  /\ UNCHANGED <<lock, apps>>

Check3(j) ==
  /\ pc[j] = "check3"
  /\ Goto(j, IF Unchanged(j) THEN "unlink" ELSE "undo")
  /\ UNCHANGED <<disk, lock, apps>>

\* out.unlink(missing_ok=True), whatever the name holds by now: exit 4.
Undo(j) == LET d == dst[j] IN
  /\ pc[j] = "undo"
  /\ Change(d, [now[d] EXCEPT !.real = None], {})
  /\ Leave(j)
  /\ UNCHANGED apps

Unlink(j) == LET s == src[j] IN
  /\ pc[j] = "unlink"
  /\ Has(s)
  /\ Change(s, [now[s] EXCEPT !.real = None], {})
  /\ Goto(j, "syncsrc")
  /\ UNCHANGED <<lock, apps>>

FsyncSource(j) ==
  /\ pc[j] = "syncsrc"
  /\ SyncReal(src[j])
  /\ Goto(j, "next")
  /\ UNCHANGED <<lock, apps>>

Move(j) ==
  \/ RsyncStart(j) \/ RsyncEnd(j) \/ RsyncFails(j)
  \/ Check1(j) \/ Verify(j) \/ VerifyFails(j) \/ Check2(j)
  \/ Rename(j) \/ FsyncUp(j) \/ FsyncStage(j) \/ Check3(j)
  \/ Undo(j) \/ Unlink(j) \/ FsyncSource(j) \/ Raise(j)

-----------------------------------------------------------------------------
(* Kills and power cuts. *)

\* systemd stops the unit, or the out-of-memory killer takes the run.
Kill(j) ==
  /\ pc[j] # "idle"
  /\ faults < MaxFault
  /\ faults' = faults + 1
  /\ Leave(j)
  /\ UNCHANGED <<disk, apps>>

\* The promoter's timeout kills tier-move alone: tier-helper, which inherited
\* the lock's descriptor, finishes its file and nothing follows it.
KillShell(j) ==
  /\ pc[j] \in Held
  /\ todo[j] # {}
  /\ todo' = [todo EXCEPT ![j] = {}]
  /\ UNCHANGED <<pc, src, dst, before, lock, disk, apps>>

PowerCut ==
  /\ faults < MaxFault
  /\ faults' = faults + 1
  /\ now' \in [Branch -> UNION {may[b] : b \in Branch}]
  /\ \A b \in Branch : now'[b] \in may[b]
  /\ may' = [b \in Branch |-> {now'[b]}]
  /\ lock' = NoJob
  /\ pc' = [j \in Job |-> "idle"]
  /\ src' = [j \in Job |-> Cold]
  /\ dst' = [j \in Job |-> Cold]
  /\ todo' = [j \in Job |-> {}]
  /\ before' = [j \in Job |-> None]
  /\ UNCHANGED apps

-----------------------------------------------------------------------------
(* The apps that own the library: Radarr and Sonarr (external), which do   *)
(* not take the media lock, and original-audio, which does.                *)

\* The real name on every branch, in every state a power cut may leave.
SetReal(f) ==
  /\ now' = [b \in Branch |-> [now[b] EXCEPT !.real = f[b]]]
  /\ may' = [b \in Branch |-> {[s EXCEPT !.real = f[b]] : s \in may[b]}]

\* After the last check before the rename a move no longer sees a new file
\* at the destination, after the last check of all not even at the source.
Blind == {"rename", "syncout", "syncstage", "check3", "undo"}
Racing(b) == \E j \in Job : \/ pc[j] \in Blind
                            \/ pc[j] = "unlink" /\ src[j] = b

\* An import or an upgrade: the new file is on one branch, and mergerfs
\* removes the path from the others.
AppWrite(b) ==
  /\ written < MaxVersion
  /\ written' = written + 1
  /\ truth' = written + 1
  /\ raced' = (raced \/ Racing(b))
  /\ SetReal([c \in Branch |-> IF c = b THEN written + 1 ELSE None])
  /\ UNCHANGED <<jobs, lock>>

AppDelete ==
  /\ truth # None
  /\ truth' = None
  /\ SetReal([c \in Branch |-> None])
  /\ UNCHANGED <<written, raced, jobs, lock>>

\* Another branch holds the path, or may hold it after a power cut.
Doubled(b) == \E c \in Branch \ {b} : \E s \in may[c] : s.real # None

\* original-audio: mkvpropedit rewrites the header in place, on the branch
\* the pool shows, under the media lock.
EditInPlace ==
  /\ lock = NoJob
  /\ truth # None
  /\ written < MaxVersion
  /\ \E b \in Branch :
       /\ Shown(b)
       /\ written' = written + 1
       /\ truth' = written + 1
       /\ raced' = (raced \/ Doubled(b))
       /\ now' = [now EXCEPT ![b].real = written + 1]
       /\ may' = [may EXCEPT ![b] = {[s EXCEPT !.real = written + 1] : s \in @}]
  /\ UNCHANGED <<jobs, lock>>

-----------------------------------------------------------------------------

Step(j) == Acquire(j) \/ GiveUp(j) \/ Recover(j) \/ NextFile(j) \/ LoopEnds(j)
           \/ Move(j)

Next ==
  \/ /\ \/ \E j \in Job : Demote(j) \/ Promote(j) \/ Step(j) \/ KillShell(j)
        \/ \E b \in Branch : AppWrite(b)
        \/ AppDelete
        \/ EditInPlace
     /\ UNCHANGED faults
  \/ \E j \in Job : Kill(j)
  \/ PowerCut

Spec == Init /\ [][Next]_vars

\* A process that can run does: no step of a run in progress waits for ever,
\* and flock either grants the lock or times out.
Fairness == \A j \in Job : WF_vars(Step(j) /\ UNCHANGED faults)

FairSpec == Spec /\ Fairness

-----------------------------------------------------------------------------
(* Properties. *)

TypeOK ==
  /\ now \in [Branch -> Slot]
  /\ may \in [Branch -> SUBSET Slot]
  /\ \A b \in Branch : now[b] \in may[b]
  /\ lock \in Job \cup {NoJob}
  /\ pc \in [Job -> PC]
  /\ src \in [Job -> Branch]
  /\ dst \in [Job -> Branch]
  /\ todo \in [Job -> SUBSET Branch]
  /\ before \in [Job -> Name]
  /\ written \in Version
  /\ truth \in Version \cup {None}
  /\ raced \in BOOLEAN
  /\ faults \in Nat

\* Some branch holds the file under its real name in every state a power cut
\* may leave there.
Survives(v) == \E b \in Branch : \A s \in may[b] : s.real = v

\* tier_helper.py:9-12, "beefy has no UPS": whatever is killed and whenever the
\* power goes, the version the apps left is on disk under its real name on some
\* branch.  The one exception is history: an app acted in a window that the
\* last checks leave open, or edited a file an interrupted move had doubled.
NoLoss == truth # None /\ ~raced => Survives(truth)

\* A move is invisible through the pool: readers of /srv/video get the version
\* the apps left there, from whichever branch has it (tier-move:19-22).
ReadersSeeTheLatest ==
  truth # None /\ ~raced =>
    /\ \E b \in Branch : Has(b)
    /\ \A b \in Branch : Shown(b) => now[b].real = truth

\* The source goes only when every state a power cut may leave on the
\* destination has the very file that is being deleted (tier_helper.py:11).
SourceGoesLast ==
  [][\A j \in Job :
       pc[j] = "unlink" /\ pc'[j] = "syncsrc" /\ ~raced /\ truth # None
         => \A s \in may[dst[j]] : s.real = now[src[j]].real]_vars

\* recover puts a leftover in place as "the only copy" (tier_helper.py:177-181)
\* only for a path the apps have removed: the order of a move never leaves the
\* staged copy as the last one.
OnlyCopyMeansRemoved ==
  [][\A j \in Job :
       pc[j] = "recover" /\ pc'[j] = "recoversync" /\ ~raced => truth = None]_vars

\* Every run ends: the lock wait is bounded and the holder always lets go.
RunsEnd == \A j \in Job : pc[j] # "idle" ~> pc[j] = "idle"

\* tier-move:11, "exit 4 = source changed/vanished during the copy (nothing
\* lost)": the step that exits 4 after the rename leaves the apps' file alone.
ExitFourLosesNothing ==
  [][\A j \in Job :
       pc[j] = "undo" /\ pc'[j] = "idle" /\ now' # now
         => now[dst[j]].real # truth]_vars

-----------------------------------------------------------------------------
(* The inductive invariant behind NoLoss. *)

Settled == truth # None /\ ~raced

\* The holder of the media lock is the one job past the lock.
LockInv == \A j \in Job : pc[j] \in Held <=> lock = j

\* A move has a source, other than its destination, and a signature of it.
RouteInv ==
  \A j \in Job :
    /\ dst[j] \notin todo[j]
    /\ pc[j] \in Moving => src[j] # dst[j] /\ before[j] # None

\* What rsync has finished is a file, not one of its temporaries.
StageInv ==
  \A j \in Job : pc[j] \in {"check1", "verify", "check2", "rename"}
                 => now[dst[j]].stage \in Content

\* No file anywhere is of a version the apps have yet to write.
Fresh(name) == name \in Version => name <= written
FreshInv ==
  /\ \A b \in Branch : \A s \in may[b] : Fresh(s.real) /\ Fresh(s.stage)
  /\ \A j \in Job : Fresh(before[j])

\* Every copy in the pool, or that a power cut can bring back, is the latest.
CleanInv ==
  Settled => \A b \in Branch : \A s \in may[b] : s.real \in {None, truth}

Durable(b) == \A s \in may[b] : s.real = truth

\* What a move knows at each step.
Knows(j) ==
  /\ pc[j] = "check2" => \/ now[dst[j]].stage = before[j]
                         \/ now[src[j]].real # before[j]
  /\ Settled =>
     /\ pc[j] \in Blind => now[src[j]].real = before[j]
     /\ pc[j] = "rename" => now[dst[j]].stage = truth
     /\ pc[j] = "syncout" => now[dst[j]].real = truth
     /\ pc[j] \in {"syncstage", "check3"} => Durable(dst[j])
     /\ pc[j] # "undo"
     /\ pc[j] = "unlink" => ~Has(src[j]) \/ Durable(dst[j])

MoveInv == \A j \in Job : Knows(j)

IInv == /\ TypeOK /\ LockInv /\ RouteInv /\ StageInv /\ FreshInv
        /\ CleanInv /\ NoLoss /\ MoveInv
=============================================================================
