# HomeLab-BeefyServer: a verification project

The repository configures and automates one home server, *beefy*: a media
server that sleeps most of the day, keeps its films on SSDs and an HDD that
should not spin, updates itself at night and has no UPS.  Most of its 500 files
are scripts that translate data between services.  This project models the part
that can hurt when it goes wrong in an order nobody tested: the code that moves
and deletes the only copy of a file, powers the host off under running jobs,
updates services whose data cannot go back, slows things down and must undo it,
and serves requests from several threads.

TLA+ modules model the code; TLC checks small instances; TLAPS proves the main
invariants for every value of the constants.  `PROJECT.json` names, for each
definition, the source lines it translates.

## 1. The system

All paths are under `src/`.  `Server/3` is short for
`Server/3-Storage-Layout-and-Spindown`, and so on.

| Component | State | Operations | Talks to | Hard part |
|---|---|---|---|---|
| tier-move, tier-helper (`Server/3`) | files on the branches of the mergerfs pool, `.tier-staging`, the media lock | demote, promote; move one file; recover leftovers | called by the mover, the promoter and by hand; races Radarr, Sonarr, original-audio | crashes between rename, fsync and delete; files replaced under the copy |
| mover (`Server/3/beefy_mover.py`) | fill levels, play and add dates, its lock | one nightly run over the titles | tier-move, keep-awake | limits computed before the moves; partial moves |
| promoter (`Server/3/beefy_promoter.py`) | queue, title in flight, history, dedupe times | HTTP request, worker thread, status | tier-move | request threads against the worker; rate limit; timeouts |
| keep-awake hold (`Server/8`, `Server/9`, the units' ExecStartPre/StopPost, the mover, the apt hook) | `/run/beefy-keep-awake` and a mark per taker | take, remember, release | the idle watcher | no owner in the file; look and touch are two steps; killed takers |
| maintenance window (`Server/9`) | its hold, the drain loop | hold, poll the units, release | systemd | asking while jobs start and end |
| idle watcher (`Server/8/beefy_idle_watcher.py`) | idle clock, last sample | sample, decide, power off | every hold, the whole host | a sample is stale when used; failing probes; failing poweroff |
| auto-update, update-project (`Docker/_global/scripts`) | image tags, containers, data, backups, snapshots, `state.json` | pull, back up, recreate, verify, roll back; cool-down, held versions | docker, the registry; auto-update calls update-project | one-way migrations; killed runs; state saved only at the end |
| night downloads (`Docker/Movie-Downloads/scripts`) | state file: stalled since, held by the disk | a run every two minutes: read, decide, call, save, untag | Radarr, Sonarr, qBittorrent, SABnzbd | stale reads; five batches of calls that fail one by one |
| queue watchdog (same place) | state file: alerted, first seen, imports; digest | a run every 15 minutes: fetch, import, send, note | the arrs, Telegram, the hooks' spool directories | written only at the end; lost answers; quiet hours |
| popular request backend (`Docker/Jellyfin/popular`) | data base, `origins.json`, locks, caches | request, reserve, post, settle, export | Seerr; sixteen threads | limits counted by several threads; lost answers |
| playback watch (`Docker/Jellyfin/playback-watch`) | `autofix.json`, what is slowed down | poll, apply, revert, restore | Jellyfin, qBittorrent, SABnzbd, systemd | each call may fail or be done unanswered; restarts in the middle |
| antivirus (`Docker/Antivirus`) | the queue of links, quarantine, `index.txt`, `last-run`, `allow.txt` | hook, worker, `scan.sh new`, `restore` | clamd, the download clients; races the arrs | files change paths while they are scanned |
| download hooks, scouts, subtitle translation, rebuilds, Jellyfin lists, Seerr additions, backup | see `PROJECT.json` | | | data mapping or I/O |

What makes each correct:

* **tier-move**: the version the apps left is never lost and always readable
  through the pool; the source goes last; recovery never resurrects or drops a
  wanted copy; every run ends.
* **keep-awake**: a taker has its hold until it releases it; nobody releases
  another's; nothing is left behind.
* **idle watcher**: no poweroff without a whole idle period; a host that is
  left alone does go to sleep.
* **promoter**: no title twice, every accepted title in turn, no unbounded queue.
* **updates**: the old image never starts on migrated data; an update that is
  not verified is rolled back.
* **mover**: reserve, deadline and "recently used" hold after partial moves and
  half answers; space is made night after night.
* **night downloads**: what one rule stopped is not started by another, and is
  not forgotten; what waits comes.
* **watchdog**: each condition told once, nothing dropped unsaid, one import
  (but for a lost answer, a dead run, a full digest: *Known weaknesses*).
* **auto-update**: what failed is not tried again, nothing is applied early, and
  everything arrives in the end or is held back.
* **requests**: limits hold for parallel requests, no slot is lost, none twice.
* **playback watch**: at every moment enough is on disk to put back what the
  owner had set, and it is put back.
* **antivirus**: whatever hook and worker missed, the next night lists; only
  infected files are taken; none stays (but for those of *Known weaknesses*).

## 2. Modules

| Module | Models | State and actions |
|---|---|---|
| `TierMove` | `tier-move`, `tier_helper.py` | one pool path on every branch: what a reader sees (`now`) and what a power cut may leave (`may`); a program counter per run; one action per system call that matters |
| `TierMoveProofs` | | theorems of `TierMove` |
| `KeepAwake` | the hold and all its takers, the window's drain | the file, one mark per taker, a program counter per job |
| `IdleWatcher` | `beefy_idle_watcher.py`, composed with `KeepAwake` | up/down, the sample, the idle clock; the takers run under it |
| `IdleWatcherProofs` | | theorems of `KeepAwake` and of `IdleWatcher`, which implements it |
| `Promoter` | `beefy_promoter.py` | queue, set, title in flight, history; the place of each title |
| `PoolProofs` | | theorems of `Promoter` and of `MoverRun` |
| `UpdateProject` | `update-project.sh`, with the docker commands around it | tags, compose file, containers and data of one project; the script's variables; one action per block of the script |
| `UpdateProjectProofs` | | theorems of `UpdateProject` |
| `UpdateContract` | what `update-project.sh` promises by its exit code | containers before and after a run; `UpdateProject` implements it, `AutoUpdate` relies on it |
| `AutoUpdate`, `AutoUpdateProofs` | `auto_update.py` | registry, tags, images; the state file and its copy in the run; one project after the other |
| `MoverRun` | `beefy_mover.py` | files, ages and flags of titles, disk usage; what the run has read of them; one `tier-move` call per SSD of a title |
| `NightDownloads` | `night-downloads.py` | downloads as their client shows them, tags, searches, the disk; the run's reads, its plan, its calls one by one |
| `QueueWatchdog` | `queue-watchdog.py` | the queue, the spool, quiet hours; state file, digest and the run's copy |
| `PopularRequests`, `PopularRequestsProofs` | `popular/app.py`, what requests need of it | a program counter per thread, the locks, both tables, the export, Seerr's requests |
| `PlaybackFix`, `PlaybackFixProofs` | `playback-watch`, `autofix.py` | the settings of the two clients and the weights; file and memory; one step per call |
| `DownloadScan` | `clamav-hook.py`, `scan.sh` | inodes and the paths that hold them; a hook per download, the worker, the night's run |
| `DownloadsProofs` | | theorems of `NightDownloads`, `QueueWatchdog` and `DownloadScan` |
| `MC*` | | the instances TLC checks |

Definitions whose name ends in `_Something` and that a comment calls a mutant
are wrong variants of the definition that follows them: with the variant in its
place the property named in `PROJECT.json` fails, so each property does depend
on that line of the code.

### TierMove

A title is many files; `tier-move` handles them one after the other and shares
nothing between them but the lock.  The module follows **one path** and lets
runs for other titles (`S = {}` in `Start`) contend for the lock and recover
this path's leftovers.  A branch holds a `Slot`: the file under its real name
and the one in `.tier-staging`.  Versions are numbers; `sig` (inode, size,
ctime) is the version number, which is what it is for.

*Durability.*  `now[b]` is what the running system sees, `may[b]` the set of
states that a power cut may leave.  A rename or unlink adds to `may`, an fsync
of a directory removes what differs in its names, `drop_cache`'s fsync of the
copy removes torn data.  A power cut picks any element per branch.  This is
weaker than any journaling file system, so a property that holds here does not
rest on ext4's or XFS's ordering.  What the apps write is taken as durable.

*The apps* are external: an import or upgrade puts a new version on one branch
and removes the others, a removal removes all, `original-audio` edits in place
under the lock.  They act at any moment.  Two windows cannot be closed by a
check before a system call; `raced` records that an app acted in one (`Blind`,
`Racing`) or edited a file an interrupted move had doubled.  The properties
exclude those histories, and the run `tier_exit_four` shows one of them.

*Kills*: `Kill` ends a run, `KillShell` is the promoter's timeout, which kills
the script and leaves the helper with the inherited lock, `PowerCut` ends all.

### KeepAwake

`flag` is the file, `mark[t]` what taker `t` remembers (`/run/<unit>-keep-awake`,
`.apt`, the mover's local `mine`), `pc[t]` where it is between the look at the
file, the touch of it and the touch of its mark.  `Claim(t)` says that `t` will
remove the file when it ends.  Two history variables name what the code cannot
prevent: `contested` (two takers looked before either touched, or the owner
changed the file under a claim) and `stray` (a taker died between taking and
being able to release).  The properties are about everything else, and
`NoOrphanHold` says that `stray` is the only way to leave a hold behind.
At most one apt runs (dpkg's lock).  The release is atomic because the mark is
private to its taker.

### IdleWatcher

It EXTENDS `KeepAwake` and runs its steps while the host is up.  A cycle is two
steps, `Sample` and `Decide`, so that anything may happen between the look at
the file and the poweroff.  Time is counted in samples; `calm` counts, as
history, the samples in a row that saw no hold, and `guarded` says who had one at
the last sample: `HoldersStayUp` follows a holder from the look at the file to
the poweroff, over everything the other takers do in between.  A probe that
cannot be run or read in time makes the sample busy; one that ends with an error
status, and a `/proc` file that cannot be read, hide the use they would have
shown, and the file still counts.  A poweroff ends every job and clears `/run` in one step; the
seconds in which systemd stops the jobs one by one are not modelled.

### Promoter

`submit` and the worker's two critical sections are one action each, as the lock
makes them; `tier-move` runs between them.  A refused request changes nothing
and is no step.  `submit` reads the clock before it takes the lock; a time that
is a moment old only makes its two tests stricter.  `late` is the helper that
outlives a timed-out `tier-move`: as it holds the media lock, nothing else moves
meanwhile.  What `tier-move` prints may not be text (`Raised`): nobody catches that
exception, the worker thread ends for good with the title in flight, and
`AcceptedGetsItsTurn` promises nothing from then on; the other properties hold on.
The clock never goes back (it is `time.time()`, so a large step of
NTP would void the dedupe).

### UpdateProject

A newer image may migrate the data it finds, at its start or later, and an older
image cannot read the result.  So an image *is* the number of its release, and
the schema of the data is the number of the release that wrote it last; half
written data and a backup of such are `Partial`.  The compose file names a
service's image by a tag, which the registry moves, or, once the owner has
edited it, by the newest release.

`pc` follows the script: `pull`, `stop`, `backup` (or `abort`), `up`, `stale`,
`verify`; then, for a rollback, `files`, `retag`, `halt`, `data`, `back`,
`check`.  `base` is the script's `oldid`, `snap` the compose snapshot, `copy`
the manifest with what each archive holds, `svcs` the list a rollback recreates
(`Unnamed` is the blank that a missing container leaves in it).  Around the
script containers die, are restarted by docker, migrate late; the owner stops
and edits; other projects' pulls move shared tags; a kill ends the run anywhere.
A compose command may fail for any of its services and leave them as they were,
stopped or removed.

Three history variables mark what the script cannot know of, and the properties
exclude it: `crossed` (another command changed the containers during the run, or
a tag during its rollback; the script takes no lock), `hurt` (a rollback was cut
off or gave up with exit 3) and `astray` (services whose compose ref was put back
to one that they did not run: a pending snapshot taken before another change, or
a service that was stopped when the run took its baseline).

Abstracted: a run's stateful services are those whose paths are on its command
line, as `auto_update.py` writes it; a copy belongs to its run (in the code the
file is named by the day, and a second run of the day overwrites it);
`docker compose stop` works; the rollback tag exists; an edited ref is the newest
release; the refusal of a missing backup path and the Traefik plugin test end a
run before anything happened (the test with exit 1, although the header's exit 2
is "nothing changed") and are left out.

### UpdateContract and AutoUpdate

`UpdateContract` has no script in it: a run starts, containers change, it ends
with a code, and the code says what holds (0: what it found runs, 1: the old
images run again, 2: nothing was updated).  `UpdateProject` implements it
(`KeepsContract`, a refinement by INSTANCE ... WITH, checked and proved), and an
update in `AutoUpdate` is any step the contract allows, so what is proved of
`AutoUpdate` does not depend on how the script does it.  `disturbed` frees a run
of its promise when others changed the project under it.

A digest is the number of a release; the registry moves a tag only on.  `file`
is `state.json`, `mem` the run's copy, written at the end of the run; a kill
drops it.  `shelf` holds the tags whose release has been out for
`COOLDOWN_HOURS`.  A pull that fails may have moved some of the tags.  A version
label may be no number (`None` in `Major`); such a version crosses nothing.  Two
histories are for digests that a run has not judged: `late`, refs that got a
release between the check of their row and its pull, and `moved`, refs whose tag
moved in any way between that check and the update.  `CoolsDown` is about the
moment of the pull and excepts `late` only, `FailedIsHeld` excepts `moved`.

### MoverRun

A file is one unit of space.  A run reads dates, scans the files, reads the
disks, then goes through the titles by age; each call of `tier-move` moves all
of a title's files on one SSD or stops after some.  Meanwhile users play, apps
add and delete, downloads spill over to the HDD.  `unseen` counts what came to
the HDD without the run knowing, `since` what was used after the run began: the
properties say what the run guarantees apart from those.  `Videos` names the
files of a title one by one (SSD and number), so that a size is a `Cardinality`.
A run may believe a Jellyfin that knows nine tenths of the videos (`Covered`);
`RecentStays` therefore leaves out a title Jellyfin has not told, but only if it
is no larger than a tenth of all, counted in files as the code counts them.

### NightDownloads

One action per read and per batch of calls.  A run reads the free space, the
tariff and the queues (`ReadQueues`), then the searches (`ReadCommands`), and an
app may fail at either: after the first its tags are known, and only the untagging
leaves it out.  The space is what the run read at its start (`diskSeen`).  A failing
call leaves the rest of the batches out, as the exception does.  A download is
named after its title; a removed release takes its hash with it, so `Cancel`
forgets it everywhere.

`nightly` are the downloads that are in a night category now.  A press of download
now (`download-now/download_now.py`, `request-tags.sh`) only tags (`RequestTag`),
takes a download out of its night category and starts it (`Release`), or searches
(`SearchNow`); each is one step of the world, and its second call may fail.

Three variables are history.  `stopped`: what the disk hold has stopped.  `lost`:
paused downloads, out of the night, that no file knows (see the weaknesses).
`began`: titles whose download or search began after this run had read the queues
or the searches.  `TagStays` compares each untagging with the real state of that
moment, not with the run's reads; `began` is what it must except.

### QueueWatchdog

A time is the question whether it is older than its limit (`Mark`).  The hour is
read when the run begins (`hush`).  A message may be there although its answer was
lost, and a failed one is tried again.  The digest is pruned as it is written
(`Pruned`): the newest `DIGEST_MAX` entries, and any of the old may be gone.

`mine` and `torn` are history: what a run has done and shown nowhere yet, and
what runs did that died before they could.  `again` counts how often the code has
lost track of a message it sent, by a dead run, a lost answer or an import that
dropped the download from the state: `OnceTold` allows one message more for each.
`cut` holds what a run had too much of for the digest; `EventsKept` allows no
other way for an event to be lost.

### PopularRequests

All entrances end in `Core.send`, one action per call that other threads can
tell apart.  `rows` are the reservations, `made` the request that Seerr created
for a thread, perhaps without its answer.  Times are ages in days, which is what
limits and caps distinguish.  A reservation that a kill left is `torn`, and so is
one whose `settle` raised on a full disk (`SettleFails`), after an answer of Seerr
or without one; `remember` may raise too.

### PlaybackFix

`qbit`, `sab` and `weight` are the settings, with a value of the owner and a slow
one; `disk` is `autofix.json`, `applied` the copy in memory.  Every call may
fail before or after it took effect.  What the sessions say is chosen for every
poll.  An answer that the tracker cannot read (`Poll`, its second half) sets
`last_ok`, may have moved the tracker on or not, and nothing is decided.  A reboot
resets weights (they are set with `--runtime`) and ends
containers, whose scopes never come back by that name.  `behind` says that the
last save failed, `forgot` that the process ended in that state, `unasked` which
weights were lowered by a call whose answer was lost: the code strikes such a
target off its record, so nothing can be claimed of it.  `FixInv` is thus about
kills, reboots and failing calls between saves that worked, and about every
setting of the two clients, whose lost answers do no harm.

The instance has no oneshot unit.  `IsActive` follows `systemctl is-active`,
which says no of a running oneshot unit: such a unit is never lowered.

### DownloadScan

A file is an inode; `at` says which path holds which.  Of ctimes only the order
with `last-run` and `last-run.next` matters (`fresh`, `changed`): links, renames
and removals set it.  `tmp` and `queue` are links in unfinished and finished
jobs.  A scanner notes paths and acts on them later by name; `taken` is history:
paths at which the arrs put another file after they were noted, as long as the
scanner has them noted.

`scan.sh new` counts its errors in its log, and the model as it does (`signs`,
`Good`): a file that cannot be scanned is an error; a hit that cannot be moved is
none, as clamdscan ends with 1; a client that is killed is none either if the log
tells of a file that is gone.  In both cases `last-run` advances although infected
files were passed over.  `missed` names those, until somebody touches them: the
code never lists them again, and the properties say so.  A download is
one file, and completing it sets its ctime.  Jobs may come in any order here,
which allows more than the code's order by time.

## 3. What the runs check

| Run | Bounds | Shows |
|---|---|---|
| `tier_two_jobs` | an SSD and the HDD, 2 runs, 2 versions, 1 fault, fair | no loss, readers see the latest, source last, recovery's "only copy", every run ends |
| `tier_exit_four` | 1 run, no faults | *violation*: the undo of a move deletes an import |
| `watcher` | 3 units, the mover, apt, a job without a hold, 2 starts, 2 faults, 1 mishap, idle limit 2, fair | the hold stands, none is left behind, calm before sleep, no holder is shut down, sleep when left alone |
| `promoter` | 2 titles, one with sidecars, limit 2 per hour, history of 2, fair | dedupe, turns while the worker thread lives |
| `update_project` | a database and a service without data, 2 releases, 1 fault | old image and migrated data, rollbacks, refinement of `UpdateContract` |
| `mover_run` | a series on 2 SSDs, a film, a pinned film, 1 act of the users, 1 fault, fair | deadline, reserve, recent titles, space |
| `night_downloads` | 2 episodes (a dead torrent, an nzb), a torrent of another category, 2 acts, 1 fault, fair | the disk hold's memory, tariff, tags against the real state, turns |
| `queue_watchdog` | a season pack, 3 event files, a digest of one entry, 2 acts, 1 fault, fair | one message per condition and per loss of track, imported once, nothing dropped that fits, told in the end |
| `auto_update` | a project of one image and one of two, 3 releases, 1 act, 1 fault, fair | failed updates, cool-down, arrival |
| `popular_requests` | 2 threads and the refresher, a user and an admin, 2 titles, limits of 1, 1 fault | limits, settled reservations, no request twice, the export only grows |
| `playback_fix` | a unit, a container, both clients, 2 faults, fair | the file knows the owner's values, and they come back |
| `download_scan` | an infected film and a clean file of its title, 2 acts of the arrs, 1 fault, fair | the night covers, only hits taken, infected files leave |

Each instance has between 10⁴ and 2·10⁶ states.

**Why the bounds are enough.**  A move has one source, one destination and one
lock: two runs are every pair of contenders, two versions one change under a
move, and one fault a kill after which the other run recovers.  Three branches,
where mergerfs has an order to choose from, and more faults are in the theorems.
In `watcher` three units give a taker, a second that finds the file and a third
that starts when the first is gone; the idle limit of 2 is the smallest at which
one idle sample is not enough.  A promoter history of 2 with a limit of 2 makes
refusals push promotions out.  In `update_project` one service with data and one
without give every scope; with two faults TLC finds no violation either (2.9
million states), which takes too long to repeat.  A series on two SSDs is the
smallest case in which a move stops between branches, and the pinned film keeps
space that nobody may free.  An episode without peers before one that downloads
is the case the turns are for; `MaxAct = 2` there is a press of download now and a
full disk, or a search and a cancelled release.  A digest of one entry makes any
two of them too many; one fault in the watchdog is a lost answer, a death or an
import without effect, each of which costs a message.  Limits of 1 in the request backend make any two requests a
race for the last slot.  In `playback_fix` two faults are a lost answer and a
power cut.  In `download_scan` two acts are an import and an upgrade over it, or
an upgrade and a restore; two faults as well were checked once without a
violation (over 5 minutes).

**Constraints.**  `tier_two_jobs` stops at states that have `raced`, and
`update_project` at `hurt`, `crossed` or no service left to speak of
(`NothingLost`): the properties claim nothing there, and `RunsEnd` is checked of
behaviours without a race only (no step asks for `raced`).  `popular_requests` is
symmetric in its threads and has no liveness property.

**Fairness.**  `tier_two_jobs`: processes that can run do, and `flock -w` times
out.  `watcher`: the daemon's loop and the jobs run, and each job ends
(systemd's timeouts).  `promoter`: until it dies, the worker runs, and
`subprocess.run` returns within its timeout.  `mover_run`, `night_downloads`, `queue_watchdog`,
`auto_update`: the timer starts the run again, its steps are taken without
failing (faults are bounded), and time goes by: nights, tariffs, ages.  The
users, the registry and the apps are never forced to act, except that in
`mover_run` seeding ends and open files are closed.  `playback_fix`: the daemon runs
and systemd restarts it (`Restart=`); its calls have timeouts.  `download_scan`:
hooks and worker run, and one night follows the other.

**What the violation says.**  `tier_helper.py:143` removes the destination *by
name* when the source has changed.  If Radarr imported a new file there in that
window, which is also why the source changed, the new file is deleted although
exit 4 is documented as "nothing lost".

### Known weaknesses

The models contain these behaviours; the properties except them by a history
variable or by their wording, which is said at each property.

*Hold and host.*  apt finds a hold, so it takes none, and the lender's release
leaves dpkg without one.  The owner who touches the file while a job holds it
loses it when that job ends.  `systemctl is-active` fails for a oneshot unit
that runs, so the maintenance window's drain never waits for one of this
repository's jobs, and playback watch never lowers five of its six units,
although `Jellyfin/README.md:422` says so.  A job that takes the hold after the
last sample of a cycle is shut down.  A probe command that ends with an error
status, or a `/proc` file that cannot be read, reads as idle, against
`beefy_idle_watcher.py:515`.

*tier-move, promoter, mover.*  The unlink of the source is by name, one system
call after the last check.  `recover` places a staged copy that was never
fsynced when the apps removed the title meanwhile.  The promoter's rate limit
counts finished promotions, so the queue has no limit; a demoted title with
sidecars counts as hot; an unexpected exception ends the worker thread for good
(`Raised`), and nothing starts another.
A title too large for the HDD, the cap or the time until the deadline is the
first every night and keeps all others waiting (`beefy_mover.py:428`); what
partly moved is in no sum of the run (457-467), and its clock starts after the
dates were read (386, 558).  A title that was played, and that Jellyfin did not
tell, moves if it is within the tenth that `coverage` lets Jellyfin not know (308).

*Updates.*  `update-project.sh` takes no lock; a second run of a day overwrites
the first one's backup; a pending snapshot of one edit can lead another run back
to an older image.  `auto_update.py` pulls all services of a project, also those
that cool down, are held back or jump a major version (header, line 11); what the
registry gets between the check and the pull is applied unjudged, and a pull that
fails leaves some tags moved for whoever recreates those containers next;
a run that is killed forgets which digests failed; projects that always end in
an error use up the limit of a night.

*Night downloads.*  A run that dies between the stop and its state
file, and a failed restart whose torrents the file no longer names, forget what
they stopped.  An app that cannot be read turns urgent downloads into waiting
ones.  A download or a search that begins after the run has read its app's queue
(669) or searches (674) loses its tag, although the header says that only what
found nothing does (line 5) and `Movie-Downloads/README.md:446` that a grab keeps
it.  A release that the stop of a run overtakes, or that fails after the change of
the category, leaves the download paused for good, although line 441 says it is
never paused by this.

*Watchdog.*  A lost answer of Telegram, a run that dies between a send and its
file, and a commanded import whose download is dropped from the state and comes
back (484) each cost one more message.  A run that dies between its two files
loses the digest an entry; after the import command, the command is given again.
Of more than 40 entries, or of what waits 48 hours, the digest keeps no trace,
although the events are unlinked by then.

*Requests.*  An answer that is lost gives the reservation back although Seerr
made the request.  A request that Seerr finishes only after the next look for it is
not modelled.  Limits count by the day of the reservation.  A kill leaves a
row that counts for the whole period, and one after settling leaves a request
that the pages never hear of; so do a `settle` and a `remember` that raise on a
full disk.

*Playback watch.*  A weight that was set by a call without an answer is struck
off, and the next apply takes it for the owner's (`autofix.py:253`).  After a
revert that failed for one client, the next episode leaves that client alone but
says it is complete (208, 224).  A failed save leaves its record in memory, so the
next apply sets without a save (202, 206), and a kill then forgets.  Answers that
the tracker cannot read renew `last_ok` and decide nothing: as long as they stay
so, the settings stay slow (here `MaxFault` ends it).

*Antivirus.*  A hit that the night cannot move (`scan.sh` 205, 450) ends the scan
with 1, which is no error (441), and `last-run` advances; so does it after a killed
client beside a file that vanished.  What was passed over is never listed again,
although `Docker/Antivirus/README.md:32` says that errors keep the marker and
`clamav-hook.py:349` that the nightly scan covers it.  Once the other links are removed, a failed quarantine followed by
a retry without a verdict drops the last link: the file is gone and not in the
quarantine, against the comment at `clamav-hook.py:407`; nor does a link leave
the queue "only with a verdict" (355): the third failed try, or an error of
clamd, drops it, and the changed ctime sends what is left to the night.  Paths
noted by the walk or the list are acted on by name later, at night hours later;
an upgrade there in between is removed or quarantined although clean
(`scan.sh:206`).  `restore` takes the last line of `index.txt` with the same
base name, and rewrites the file while hook and worker append to it.
`allow.txt` names paths, so an allowed file that is renamed is taken again, and
hook and worker do not read it.  A mv that fails in `quarantine_links` is no
error of the run.  What the mover takes to the HDD before its scan is not
scanned there.

## 4. What is proved

All proofs are for any sets of branches, jobs, units, titles, and any bounds.

* **TierMove** (`TierMoveProofs`).  `NoLoss` is not inductive: it says nothing of
  what a run in the middle of a move knows.  `IInv` adds who holds the lock
  (`LockInv`), that source and destination differ and a signature was taken
  (`RouteInv`), that a finished copy is a file (`StageInv`), that no file is of
  a version not yet written (`FreshInv`), that every copy a power cut can bring
  back is the latest (`CleanInv`), and what each step of a move knows (`Knows`):
  after the fsyncs the destination is durable, so the delete of the source may
  lose nothing.  From `IInv`: `NothingIsLost`, `ReadersSee`, `SourceLast`,
  `OnlyCopy`.
* **KeepAwake** (`IdleWatcherProofs`).  `HoldInv` adds `MarkInv`: at which steps a
  job may have a mark.  From it: `ReleasedOnce`, `HoldLasts`, `OwnersHoldLasts`,
  `NoHoldLeftBehind`.
* **IdleWatcher** (`IdleWatcherProofs`).  Every step of the composed host is a
  step of `KeepAwake` or a stutter; the lemma `ImplementsHold` carries the theorems
  of `KeepAwake` over to the watched host.  `WInv` relates the idle clock to
  `calm`; with it `NeverSleepsEarly`.  That nobody `guarded` is shut down
  (`NobodyIsShutDown`) needs that a sample which saw the hold keeps the host up,
  and that `HoldInv` leaves a holder its file until its own release.
* **Promoter** (`PoolProofs`).  `PInv` adds to `BooksAgree` that an accepted
  title stays due while it waits and is copied (`StaysDue`): only its own
  booking moves its time, because no title is in two places.  From it `OnePlace`
  and `NeverTwice`.
* **UpdateProject** (`UpdateProjectProofs`).  "The old image never starts on
  migrated data" follows from `UInv`, by induction over every step.  It relates the data
  of each service to its container, to what the compose file *would* name after
  the re-tagging (`Aim`), and to its old image: nothing of the scope runs while
  it is copied or put back (`ColdInv`); a rollback either puts back every path or
  has changed no image (`TodoInv`); a copy is no newer than the old image nor
  than what compose will name (`CopyFits`); a service outside of the scope is on
  its old image until the rollback recreates it (`KnownInv`).  From it
  `UpdateOldNeverOnMigrated`; from `KnownInv` alone `UpdateAbort` and
  `UpdateRollback`.  `UpdateKeepsContract` maps every step of the script, and of
  whoever else changes the project, to a step of the contract or a stutter.
* **AutoUpdate** (`AutoUpdateProofs`).  `AInv`: images follow tags and tags the
  registry, an entry is of a release that the registry had and is aged only if
  that has been out for the cool-down, every failure of a finished run is marked
  in the file, and what a run has decided stays true until its update unless the
  tag was `moved` or its digest is `late`.  From it `AutoFailedIsHeld` and
  `AutoCoolsDown`.
* **PopularRequests** (`PopularRequestsProofs`).  `ReqInv`: a thread at work has
  the lock of its user, a row belongs to one thread, is settled or is `torn`, and every
  known request that counts has a row of its own; the limits follow by an
  injection of requests into rows.  From it `PopularSafe`, `PopularCapsHold`,
  `PopularOncePerUser`, `PopularOriginsGrow`.
* **PlaybackFix** (`PlaybackFixProofs`).  `FixInv` speaks of the file only; its
  strengthening `IInv` says what the memory knows at each call: the records in
  memory cover what is slowed down, the file covers the memory unless the last
  save failed, every record holds the owner's values, and a target without a
  record is at its owner's weight (`Unlowered`) unless it is `unasked`.  From it
  `FixSafe`, with its three exceptions: `unasked`, `behind`, `forgot`.

* **MoverRun** (`PoolProofs`).  None of the three properties is inductive: a sum
  is right only because a title that was taken was measured before.  `MoverIInv`
  says, of a run and the title at hand, that the sums agree with the disks
  (`MoverInv`), that what is left to wait for and to copy ends by the deadline
  (`TimeInv`: every wait takes one SSD off what is left, every copy adds to what
  is done), that no age the run knows is too old and no flag is missing unless
  the title was used since (`AgesInv`, `FlagsInv`), and that the run was told
  enough (`ToldInv`).  From it `MoverEndsInTime`, `MoverKeepsReserve` and
  `MoverLeavesRecent`; the last also needs that sizes add up
  (`WithinTenth`: who is not known is in the tenth that is not known).
* **NightDownloads** (`DownloadsProofs`).  `NightInv` speaks of the time between
  two runs.  `HeldInv` carries it through one: what the disk hold has stopped is
  in the state to come, or under the calls that start it; and it is paused, and
  no download of the night.  `CallsInv`: by day the calls to come start only what
  is wanted now.  `KnownInv`: what is there now is in the queues or searches that
  were read, or its app gave no answer, or it `began` since.  From them
  `NightRemembersHeld`, `NightStarts`, `NightKeepsTags`.
* **QueueWatchdog** (`DownloadsProofs`).  "Told once" depends on two copies of
  the state.  `MemoryInv`: until a run evaluates, its copy is the file's.
  `SentInv`: a message that was sent is remembered in the file, or by the run
  that sent it, and what that run will write keeps it unless the download is no
  longer blocked; what is due was not sent more often than its track was lost
  (`again`).  `PostedInv` says the same of import commands.  From them `WatchTellsOnce`, `WatchImportsOnce`; `EventsKept`, with
  what the digest `cut`, is a part of the invariant (`WatchKeepsEvents`).
* **DownloadScan** (`DownloadsProofs`).  `NightCovers` needs what the night knows
  while it works (`CoverInv`): an infected file has changed since the run began,
  or is on its list, or an error will keep `last-run` as it was, or it is `missed`.
  That what is
  taken is infected needs what a scanner noted of its paths: that they are links
  of one file or were taken by the apps since (`NotedInv`, `WorkerInv`), and that
  the path of a download holds that download only (`PlaceInv`).  From them
  `ScanSafe` and `ScanTakesHits`.

The inductive invariants (`IInv` of `TierMove`, `HoldInv`, `WInv`, `PInv`,
`UInv`, and those above) and the properties `OwnersHoldStands` and
`AbortUpdatesNothing` are proved and are in no cfg: the runs spend their time on
what follows from them.

*The proof modules.*  `DownloadsProofs` and `PoolProofs` EXTEND several components,
so these have no name in common: `NightDownloads` and `Promoter` keep the plain
ones (`Init`, `Next`, `Spec`), the others put the component before them
(`WatchInit`, `ScanNext`, `MoverSpec`), and a few words that would clash are
replaced by another of the code's or its comments' (`Unit` for a title of the
mover, `Item` for an entry of Sonarr's queue).

*The assumptions* are the named `ASSUME`s of the modules (distinct sentinels, the
cold branch is a branch, one apt, disjoint kinds of jobs, a finite number of
titles, SSDs and files where they are counted); TLC evaluates them.

Every safety property that a run checks, of states and of steps, is proved.
**Only model-checked**, for the bounds of section 3, is liveness (`RunsEnd`,
`SleepsWhenLeftAlone`, `AcceptedGetsItsTurn`, `SpaceIsMade`, `HeldRuns`,
`NightComes`, `ToldInTheEnd`, `UpdatesArrive`, `SettingsComeBack`,
`InfectedLeave`), which under fairness is out of the prover's reach.

## 5. Not modelled, and the plan

*Parts of modelled components.*  The guards of `tier-move` before the lock (a
refused run moves nothing); the probes of the idle watcher (each is a choice:
idle, busy or failing); sign-in, matching of accounts, rate limits and read paths of the
request backend, and its facade; `request_state` and the public files of night
downloads; which sessions stall in playback watch; `scan.sh all`, the btrfs
listing and `download-integrity.py`; everywhere texts, metrics and logs.

*Components.*  Those listed as `not_modelled` in `PROJECT.json`, each with its
reason.  Most translate data: they read one API and write another, in one
process, with no state that outlives the run; what could be wrong in them is the
mapping, which unit tests of the repository cover and a model would repeat line
by line.  Of those with state, the weekly rebuild follows `UpdateProject`'s
contract with a build instead of a pull, the translation and the scouts keep a
state file each, and Floppy's key rotation makes, verifies and stores the new key
before the old one is deleted.

*Order of work.*  Done: `TierMove`, `KeepAwake` and `IdleWatcher`, `Promoter`,
`UpdateProject`, `AutoUpdate` over `UpdateContract`, `MoverRun`,
`NightDownloads`, `QueueWatchdog`, `PopularRequests`, `PlaybackFix`,
`DownloadScan`.  Next would be:

1. the shared lock and the two writers of `request-state.json`;
2. the weekly rebuild as a second client of `UpdateContract`;
3. a pool file that is written, read and removed as the abstract specification
   that `TierMove` implements.
