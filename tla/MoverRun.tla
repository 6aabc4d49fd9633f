------------------------------ MODULE MoverRun ------------------------------
(***************************************************************************)
(* beefy_mover.py: the nightly run that takes titles from the SSDs to the  *)
(* HDD, oldest last use first, until the SSDs are at their target.  What   *)
(* tier-move does to one file is module TierMove; here a call of it moves  *)
(* some or all of the files of a title that one SSD holds.                 *)
(*                                                                         *)
(* A file is one unit of space.  Ages are in days, the clock of a run in   *)
(* units of its own.  The run reads dates, files and disk usage once and   *)
(* acts on them while users and apps go on.  No name here is one of        *)
(* Promoter: the proofs take the two together.                             *)
(***************************************************************************)
EXTENDS Integers, FiniteSets

CONSTANTS
  Unit, Ssd, None,            \* the titles, as unit_of sees them, and the SSDs
  Pinned,                     \* titles that a line of beefy-mover-pins names
  Files, Played, Added,       \* the videos of each title, and its ages, at first
  StartUsed, Target, Fallback,\* SSD use, in files
  IdleAge, FallbackAge,       \* IDLE_DAYS, FALLBACK_DAYS
  MaxMove, HddRoom,           \* the cap of a run; the HDD without its reserve
  Deadline, LockWait, Slow,   \* Slow: 1.5 / RATE_MIB_S, per file
  MaxAct, MaxFault            \* bounds: what users and apps do, what fails

ASSUME MoverAssumption ==
  /\ IsFiniteSet(Unit) /\ IsFiniteSet(Ssd)
  /\ Pinned \subseteq Unit /\ None \notin Unit \cup Ssd /\ "night" \notin Unit
  /\ {StartUsed, Target, Fallback, IdleAge, FallbackAge, MaxMove, HddRoom,
      Deadline, LockWait, Slow, MaxAct, MaxFault} \subseteq Nat
  /\ Files \in [Unit -> [Ssd -> Nat]]
  /\ Played \in [Unit -> 0 .. IdleAge] /\ Added \in [Unit -> 0 .. IdleAge]
  /\ FallbackAge <= IdleAge

VARIABLES
  \* The world.
  ssd, ssdUsed, hddUsed,      \* [Unit -> [Ssd -> Nat]], f_bavail of the disks
  played, added,              \* [Unit -> age]
  flags,                      \* [Unit -> SUBSET Flag]
  \* The run.
  pc, mode,                   \* "night", or the title of --only
  snap,                       \* the ages that the apps have told, or None
  known,                      \* jf_paths: the titles that Jellyfin lists
  unit,                       \* [Unit -> [n, flags]], what scan has seen
  todo, cur, brs, from, sel,  \* titles to go; the one at hand, its branches, the files of one
  ssdSeen, hddSeen, moved, elapsed,
  \* History.
  done,                       \* files of the title at hand that are moved
  unseen,                     \* other files on the HDD since its usage was read
  since,                      \* titles used or changed since the run began
  acts, faults

world == <<ssd, ssdUsed, hddUsed, played, added, flags>>
plan == <<mode, snap, known, unit>>
pick == <<todo, cur, brs, from, sel>>
seen == <<ssdSeen, hddSeen, moved>>
mvars == <<world, pc, plan, pick, seen, elapsed, done, unseen, since, acts, faults>>

\* Changed within SETTLE_HOURS, hardlinked (still seeding), open.
Flag == {"new", "linked", "open"}
Nothing == [t \in Unit |-> [n |-> [b \in Ssd |-> 0], flags |-> {}]]

\* The videos of a title, by SSD; those of the titles of S, of which [u] tells.
Videos(n) == UNION {{b} \X (1 .. n[b]) : b \in Ssd}
VideosOf(u, S) == UNION {{t} \X Videos(u[t].n) : t \in S}
Total(n) == Cardinality(Videos(n))
size(t) == Total(unit[t].n)
Branches(t) == {b \in Ssd : unit[t].n[b] > 0}
OnSsd(t) == \E b \in Ssd : ssd[t][b] > 0
Least(a, b) == IF a < b THEN a ELSE b
Fault == faults < MaxFault /\ faults' = faults + 1

MoverInit ==
  /\ ssd = Files /\ played = Played /\ added = Added /\ flags = [t \in Unit |-> {}]
  /\ ssdUsed = Cardinality(UNION {{t} \X Videos(Files[t]) : t \in Unit}) /\ hddUsed = 0
  /\ pc = "off" /\ mode = "night" /\ snap = None /\ known = {} /\ unit = Nothing
  /\ todo = {} /\ cur = None /\ brs = {} /\ from = None /\ sel = 0
  /\ ssdSeen = 0 /\ hddSeen = 0 /\ moved = 0 /\ elapsed = 0
  /\ done = 0 /\ unseen = 0 /\ since = {} /\ acts = 0 /\ faults = 0

-----------------------------------------------------------------------------
(* The run. *)

End ==
  /\ pc' = "off" /\ mode' = "night" /\ snap' = None /\ known' = {} /\ unit' = Nothing
  /\ todo' = {} /\ cur' = None /\ brs' = {} /\ from' = None /\ sel' = 0
  /\ ssdSeen' = 0 /\ hddSeen' = 0 /\ moved' = 0 /\ elapsed' = 0
  /\ done' = 0 /\ unseen' = 0 /\ since' = {}

\* last_use: without Jellyfin a title has its add date only; what the arrs do
\* not know counts as added now.
AgesTold(jf, arr) == [t \in Unit |->
  Least(IF t \in jf THEN played[t] ELSE IdleAge, IF t \in arr THEN added[t] ELSE 0)]

\* main reads the dates before it takes its lock, and starts the clock of the
\* run after that; --only reads none.
Begin ==
  /\ pc = "off"
  /\ pc' = "begin"
  /\ \/ mode' = "night" /\ known' = Unit /\ snap' = AgesTold(Unit, Unit) /\ UNCHANGED faults
     \/ /\ mode' = "night" /\ Fault
        /\ known' \in SUBSET Unit
        /\ \E arr \in SUBSET Unit : snap' \in {AgesTold(known', arr), None}
     \/ mode' \in Unit /\ known' = {} /\ snap' = None /\ Fault
  /\ UNCHANGED <<world, unit, pick, seen, elapsed, done, unseen, since, acts>>

\* Mutant: a library that Jellyfin has not read to its end is believed.
Covered_Any(u) == TRUE

\* coverage: of the videos older than a day, the share that Jellyfin knows.
Aged(u) == {t \in Unit : "new" \notin u[t].flags}
Covered(u) ==
  10 * Cardinality(VideosOf(u, Aged(u) \cap known)) >= 9 * Cardinality(VideosOf(u, Aged(u)))

\* run, up to its loop: the thresholds, the snapshot that fails closed, scan.
Scan ==
  /\ pc = "begin"
  /\ LET u == [t \in Unit |-> [n |-> ssd[t], flags |-> flags[t] \ {"open"}]]
         go == IF mode = "night" THEN ssdUsed >= StartUsed /\ snap # None /\ Covered(u)
                                 ELSE OnSsd(mode)
     IN \/ ~go /\ End
        \/ /\ go
           /\ pc' = "next" /\ unit' = u
           /\ todo' = {t \in Unit : OnSsd(t) /\ mode \in {"night", t}}
           /\ ssdSeen' = ssdUsed /\ hddSeen' = hddUsed /\ unseen' = 0
           /\ UNCHANGED <<mode, snap, known, cur, brs, from, sel, moved, elapsed, done, since>>
  /\ UNCHANGED <<world, acts, faults>>

\* order: the oldest first, as told.
First(t) == t \in todo /\ (mode = "night" => \A u \in todo : snap[t] >= snap[u])

\* Mutant: one wait for the lock per title.
TooLate_OneWait(t) == elapsed + LockWait + Slow * size(t) > Deadline
TooLate(t) == elapsed + LockWait * Cardinality(Branches(t)) + Slow * size(t) > Deadline
TooRecent(t) == snap[t] < (IF ssdSeen < Fallback THEN IdleAge ELSE FallbackAge)
Enough(t) ==
  mode = "night" /\ (ssdSeen <= Target \/ moved + size(t) > MaxMove \/ TooLate(t) \/ TooRecent(t))
skip_reason(t) == t \in Pinned \/ unit[t].flags # {} \/ "open" \in flags[t]
\* Mutant: the title at hand is left out.
NoRoom_Before(t) == hddSeen >= HddRoom
NoRoom(t) == hddSeen + size(t) > HddRoom

Stop ==
  /\ pc = "next"
  /\ todo = {} \/ \E t \in Unit : First(t) /\ (Enough(t) \/ (~skip_reason(t) /\ NoRoom(t)))
  /\ End
  /\ UNCHANGED <<world, acts, faults>>

\* Mutant: a title that may not move ends the run.
Skip_Ends(t) ==
  /\ pc = "next" /\ First(t) /\ ~Enough(t) /\ skip_reason(t)
  /\ End
  /\ UNCHANGED <<world, acts, faults>>

Skip(t) ==
  /\ pc = "next" /\ First(t) /\ ~Enough(t) /\ skip_reason(t)
  /\ todo' = todo \ {t}
  /\ UNCHANGED <<world, pc, plan, cur, brs, from, sel, seen, elapsed, done, unseen, since, acts, faults>>

Take(t) ==
  /\ pc = "next" /\ First(t) /\ ~Enough(t) /\ ~skip_reason(t) /\ ~NoRoom(t)
  /\ pc' = "call" /\ cur' = t /\ brs' = Branches(t) /\ todo' = todo \ {t}
  /\ UNCHANGED <<world, plan, from, sel, seen, elapsed, done, unseen, since, acts, faults>>

\* k files of the title at hand reach the HDD.
Arrive(k) ==
  /\ ssd' = IF k = 0 THEN ssd ELSE [ssd EXCEPT ![cur][from] = @ - k]
  /\ ssdUsed' = ssdUsed - k /\ hddUsed' = hddUsed + k

\* Only a title that has moved as a whole counts, and only after it are the
\* disks looked at again.
NextTitle(whole, k) ==
  /\ pc' = "next" /\ cur' = None /\ brs' = {} /\ from' = None /\ sel' = 0 /\ done' = 0
  /\ IF whole
       THEN /\ moved' = moved + size(cur) /\ unseen' = 0
            /\ ssdSeen' = ssdUsed' /\ hddSeen' = hddUsed'
       ELSE /\ UNCHANGED seen /\ unseen' = unseen + done + k

\* tier-move refuses files that are open or hardlinked, finds none, or waits
\* for the media lock in vain: skip or failed, and on to the next title.
MoveRefused ==
  /\ pc = "call"
  /\ \E b \in brs : \/ ssd[cur][b] = 0 /\ UNCHANGED <<elapsed, faults>>
                    \/ flags[cur] \cap {"linked", "open"} # {} /\ UNCHANGED <<elapsed, faults>>
                    \/ elapsed' = elapsed + LockWait /\ Fault
  /\ NextTitle(FALSE, 0)
  /\ UNCHANGED <<world, plan, todo, since, acts>>

Call ==
  /\ pc = "call"
  /\ pc' = "copy"
  /\ \E b \in brs : /\ ssd[cur][b] > 0 /\ from' = b /\ sel' = ssd[cur][b]
                    /\ brs' = brs \ {b}
  /\ flags[cur] \cap {"linked", "open"} = {}
  /\ elapsed' \in {elapsed, elapsed + LockWait}
  /\ UNCHANGED <<world, plan, todo, cur, seen, done, unseen, since, acts, faults>>

\* Every file that tier-move has selected is on the HDD.
Copied ==
  /\ pc = "copy"
  /\ Arrive(sel)
  /\ elapsed' \in {elapsed, elapsed + Slow * sel}
  /\ IF brs = {} THEN NextTitle(TRUE, sel)
                 ELSE /\ pc' = "call" /\ done' = done + sel /\ from' = None /\ sel' = 0
                      /\ UNCHANGED <<cur, brs, seen, unseen>>
  /\ UNCHANGED <<played, added, flags, plan, todo, since, acts, faults>>

\* It stops at a file, which may have changed, or failed its verification.
CopyStops ==
  /\ pc = "copy" /\ Fault
  /\ \E k \in 0 .. sel - 1 : Arrive(k) /\ NextTitle(FALSE, k)
  /\ elapsed' \in {elapsed, elapsed + Slow * sel}
  /\ UNCHANGED <<played, added, flags, plan, todo, since, acts>>

\* TimeoutStartSec, or the power.
Kill ==
  /\ pc # "off" /\ Fault
  /\ \E k \in 0 .. sel : Arrive(k)
  /\ End
  /\ UNCHANGED <<played, added, flags, acts>>

Run == Scan \/ Stop \/ MoveRefused \/ Call \/ Copied \/ CopyStops
       \/ \E t \in Unit : Skip(t) \/ Take(t)

-----------------------------------------------------------------------------
(* Users and apps. *)

run == <<pc, plan, pick, seen, elapsed, done>>

Act == acts < MaxAct /\ acts' = acts + 1 /\ UNCHANGED <<run, faults>>
Touch(t) == since' = IF pc = "off" THEN {} ELSE since \cup {t}

Play(t) ==
  /\ played' = [played EXCEPT ![t] = 0] /\ flags' = [flags EXCEPT ![t] = @ \cup {"open"}]
  /\ Touch(t) /\ Act
  /\ UNCHANGED <<ssd, ssdUsed, hddUsed, added, unseen>>

\* A file is imported, hardlinked as long as its torrent seeds.
ImportFile(t, b) ==
  /\ ssd' = [ssd EXCEPT ![t][b] = @ + 1] /\ ssdUsed' = ssdUsed + 1
  /\ added' = [added EXCEPT ![t] = 0]
  /\ \E link \in {{}, {"linked"}} : flags' = [flags EXCEPT ![t] = @ \cup {"new"} \cup link]
  /\ Touch(t) /\ Act
  /\ UNCHANGED <<hddUsed, played, unseen>>

\* The apps delete a title; a download lands on the HDD.
RemoveTitle(t) ==
  /\ OnSsd(t) /\ ~(pc = "copy" /\ cur = t)
  /\ ssd' = [ssd EXCEPT ![t] = [b \in Ssd |-> 0]] /\ ssdUsed' = ssdUsed - Total(ssd[t])
  /\ Touch(t) /\ Act
  /\ UNCHANGED <<hddUsed, played, added, flags, unseen>>

Spill ==
  /\ hddUsed' = hddUsed + 1 /\ unseen' = IF pc = "off" THEN 0 ELSE unseen + 1
  /\ Act
  /\ UNCHANGED <<ssd, ssdUsed, played, added, flags, since>>

\* A player closes its file, a torrent is retired.
Free(t) ==
  /\ flags[t] \cap {"open", "linked"} # {}
  /\ flags' = [flags EXCEPT ![t] = @ \cap {"new"}]
  /\ UNCHANGED <<ssd, ssdUsed, hddUsed, played, added, run, unseen, since, acts, faults>>

\* A day goes by between two runs.
Older(ages) == [t \in Unit |-> Least(ages[t] + 1, IdleAge)]
Day ==
  /\ pc = "off"
  /\ played' = Older(played) /\ added' = Older(added)
  /\ flags' = [t \in Unit |-> flags[t] \ {"new"}]
  /\ <<played, added, flags>>' # <<played, added, flags>>
  /\ UNCHANGED <<ssd, ssdUsed, hddUsed, run, unseen, since, acts, faults>>

World == \/ Spill \/ Day
         \/ \E t \in Unit : Play(t) \/ RemoveTitle(t) \/ Free(t) \/ \E b \in Ssd : ImportFile(t, b)

MoverNext == Begin \/ Run \/ Kill \/ World

MoverSpec == MoverInit /\ [][MoverNext]_mvars

\* The timer, the run itself, and time; what fails, fails now and then only.
Fairness == /\ WF_mvars(Begin /\ UNCHANGED faults) /\ WF_mvars(Run /\ UNCHANGED faults) /\ SF_mvars(Day)
            /\ \A t \in Unit : WF_mvars(Free(t))
MoverFairSpec == MoverSpec /\ Fairness

-----------------------------------------------------------------------------
(* Properties. *)

MoverTypeOK ==
  /\ ssd \in [Unit -> [Ssd -> Nat]] /\ ssdUsed \in Int /\ hddUsed \in Nat
  /\ played \in [Unit -> 0 .. IdleAge] /\ added \in [Unit -> 0 .. IdleAge]
  /\ flags \in [Unit -> SUBSET Flag]
  /\ pc \in {"off", "begin", "next", "call", "copy"} /\ mode \in Unit \cup {"night"}
  /\ snap \in [Unit -> 0 .. IdleAge] \cup {None} /\ known \subseteq Unit
  /\ unit \in [Unit -> [n : [Ssd -> Nat], flags : SUBSET Flag]]
  /\ todo \subseteq Unit /\ cur \in Unit \cup {None} /\ brs \subseteq Ssd
  /\ from \in Ssd \cup {None} /\ sel \in Nat
  /\ ssdSeen \in Int /\ hddSeen \in Nat /\ moved \in Nat /\ elapsed \in Nat
  /\ done \in Nat /\ unseen \in Nat /\ since \subseteq Unit
  /\ acts \in 0 .. MaxAct /\ faults \in 0 .. MaxFault

\* What the run knows of the disks, and of the title at hand.
MoverInv ==
  /\ MoverTypeOK
  /\ pc \in {"next", "call", "copy"} => /\ hddUsed = hddSeen + unseen + done
                                        /\ mode = "night" => snap # None
  /\ pc \in {"call", "copy"} <=> cur # None
  /\ pc = "copy" <=> from # None
  /\ pc # "copy" => sel = 0
  /\ pc \notin {"call", "copy"} => done = 0
  /\ pc \in {"call", "copy"} => ~NoRoom(cur) /\ cur \notin Pinned /\ unit[cur].flags = {}
  /\ pc = "copy" => sel <= ssd[cur][from]

\* "HDD_RESERVE_PCT free kept on the HDD" (beefy_mover.py:9): however many
\* titles move, from however many SSDs, the run itself takes no more than the
\* room it was left, but for what arrived unseen: parts of titles whose move
\* stopped halfway, downloads that spilled over, files added to a title after
\* the scan.
Beyond(n) == IF n > size(cur) THEN n - size(cur) ELSE 0
ReserveKept ==
  [][pc = "copy" /\ pc' # "copy" =>
       hddUsed' <= HddRoom + unseen + Beyond(done + hddUsed' - hddUsed)]_mvars

\* The apps get the disks back at the deadline (beefy_mover.py:9): a title is
\* started only if it ends in time, however long tier-move waits for the lock
\* and however many SSDs hold the title.  The clock starts late, after the
\* dates were read, and files added after the scan take their own time.
EndsInTime ==
  mode = "night" /\ pc \in {"call", "copy"} =>
    LET left == LockWait * Cardinality(brs) + Slow * sel
    IN elapsed + left <= Deadline + Slow * Beyond(done + sel)

\* Nobody's film moves away under them: a run at night moves nothing that was
\* played, added or changed within FALLBACK_DAYS before it began, although
\* Jellyfin or the arrs may tell it nothing or half of what they know.  A title
\* that Jellyfin has not told may have been played, but only if it is within
\* the tenth of the videos that coverage lets Jellyfin not know.
RecentStays ==
  [][\A t \in Unit :
       pc = "copy" /\ cur = t /\ mode = "night" /\ hddUsed' # hddUsed /\ t \notin since =>
         /\ flags[t] = {} /\ added[t] >= FallbackAge
         /\ \/ played[t] >= FallbackAge
            \/ t \notin known /\ 10 * size(t) <= Cardinality(VideosOf(unit, Aged(unit)))]_mvars

\* One night after the other makes room: full SSDs do not stay full as long as
\* a title that may move is left, and the HDD has room for every such title.
\* One that is too large for it, for the cap or for the time until the
\* deadline is the first again every night and keeps all the others waiting.
Movable(t) == OnSsd(t) /\ t \notin Pinned
Fits(t) == hddUsed + Total(ssd[t]) <= HddRoom
SpaceIsMade ==
  ssdUsed >= StartUsed ~> \/ ssdUsed < StartUsed
                          \/ \A t \in Unit : ~Movable(t)
                          \/ \E t \in Unit : Movable(t) /\ ~Fits(t)

-----------------------------------------------------------------------------
(* The inductive invariant behind them. *)

\* What is still to wait and to copy of the title at hand ends by the deadline,
\* but for what has been copied of it.
TimeInv ==
  mode = "night" /\ pc \in {"call", "copy"} =>
    elapsed + LockWait * Cardinality(brs) + Slow * size(cur) <= Deadline + Slow * done

\* Of a title that nobody has used or changed since the run began, the run
\* knows no age that is too old, and no flag too few.
AgesInv ==
  /\ pc = "off" => since = {}
  /\ mode = "night" /\ pc # "off" /\ snap # None =>
       \A t \in Unit \ since : snap[t] <= added[t] /\ (t \in known => snap[t] <= played[t])
FlagsInv ==
  /\ pc \in {"next", "call", "copy"} =>
       \A t \in Unit \ since : flags[t] \subseteq unit[t].flags \cup {"open"}
  /\ pc \in {"call", "copy"} => flags[cur] = {} \/ cur \in since

\* A run that moves anything was told enough, and takes what is old enough.
ToldInv ==
  mode = "night" /\ pc \in {"next", "call", "copy"} =>
    /\ snap # None /\ Covered(unit)
    /\ pc # "next" => snap[cur] >= FallbackAge

MoverIInv == MoverInv /\ TimeInv /\ AgesInv /\ FlagsInv /\ ToldInv
=============================================================================
