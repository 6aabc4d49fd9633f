---------------------------- MODULE DownloadScan ----------------------------
(***************************************************************************)
(* The antivirus scan of downloads: clamav-hook.py when a download ends,   *)
(* its queue and worker in the background, scan.sh new in the night, and   *)
(* scan.sh restore.  Meanwhile the arrs import, upgrade and delete files.  *)
(*                                                                         *)
(* A file is an inode, which several paths may hold.  Whether it is clean  *)
(* is a property of the inode; the scanner may also fail to say.  Of the   *)
(* times of a file only their order with last-run matters: whether its     *)
(* ctime is later than the last good run, and than the run under way.      *)
(* A download has one file.  Files over MAX_BYTES, which nobody scans, and *)
(* the metrics are left out.  No name here is one of QueueWatchdog or of   *)
(* NightDownloads: the proofs take the three together.                     *)
(***************************************************************************)
EXTENDS Integers, FiniteSets

CONSTANTS
  File,         \* inodes; each is one download
  Infected,     \* those in which clamd finds a signature
  Media,        \* those that is_media sends to the queue
  MaxScanFault, \* bound: failing calls and kills
  MaxMoves      \* bound: imports, removals, restores

\* The path of a download is named by its file; one title of the library.
Path == File \cup {"library"}
None == "none"

ASSUME ScanAssumption ==
  /\ Infected \subseteq File /\ Media \subseteq File /\ MaxScanFault \in Nat /\ MaxMoves \in Nat
  /\ IsFiniteSet(File) /\ None \notin File /\ "library" \notin File

VARIABLES
  at,          \* [Path -> the file there]
  quarantine,  \* {<<file, path to restore it to>>}
  lines,       \* [Path -> lines of index.txt that name it and are not restored]
  allow,       \* allow.txt
  fresh,       \* files whose ctime is later than last-run
  changed,     \* files whose ctime is later than last-run.next
  hook,        \* [File -> step of its clamav-hook.py]
  tmp, queue,  \* files linked into an unfinished job, into a job
  worker, link, found, others,   \* the worker: step, link, links found, those not removed yet
  night, list, hits, signs,      \* scan.sh new: step, {<<path, its other links>>}, moved, what went wrong
  taken,       \* history: noted paths whose file was replaced since
  missed,      \* history: infected files that a run passed over and left as they were
  sfaults, moves

stored == <<at, quarantine, lines, allow, fresh, changed, missed>>
worked == <<tmp, queue, worker, link, found, others>>
nights == <<night, list, hits, signs>>
svars == <<stored, hook, worked, nights, taken, sfaults, moves>>

ScanTypeOK ==
  /\ at \in [Path -> File \cup {None}]
  /\ quarantine \subseteq File \X Path /\ lines \in [Path -> Nat] /\ allow \subseteq Path
  /\ fresh \subseteq File /\ changed \subseteq fresh
  /\ hook \in [File -> {"off", "begin", "link", "name", "scan", "move", "done"}]
  /\ tmp \subseteq File /\ queue \subseteq File
  /\ worker \in {"idle", "scan", "walk", "remove", "move"} /\ link \in File \cup {None}
  /\ others \subseteq found /\ found \subseteq Path
  /\ night \in {"off", "list", "scan", "links"} /\ list \subseteq Path \X (SUBSET Path)
  /\ hits \subseteq File \X Path \X (SUBSET Path) /\ signs \subseteq {"error", "silent", "gone"}
  /\ taken \subseteq Path /\ missed \subseteq File /\ sfaults \in 0 .. MaxScanFault /\ moves \in 0 .. MaxMoves

ScanInit ==
  /\ at = [p \in Path |-> None] /\ quarantine = {} /\ lines = [p \in Path |-> 0]
  /\ allow = {} /\ fresh = {} /\ changed = {}
  /\ hook = [f \in File |-> "off"]
  /\ tmp = {} /\ queue = {}
  /\ worker = "idle" /\ link = None /\ found = {} /\ others = {}
  /\ night = "off" /\ list = {} /\ hits = {} /\ signs = {}
  /\ taken = {} /\ missed = {} /\ sfaults = 0 /\ moves = 0

ScanFault == sfaults < MaxScanFault /\ sfaults' = sfaults + 1
Fine == UNCHANGED sfaults
NoWorld == UNCHANGED <<allow, taken, moves>>

Links(f) == {p \in Path : at[p] = f}

\* link, unlink and rename set the ctime of the file; it is listed again.
Touch(files) ==
  fresh' = fresh \cup files /\ changed' = changed \cup files /\ missed' = missed \ files
Untouched == UNCHANGED <<fresh, changed, missed>>

\* The paths that a scanner takes for links of one file.
Noted == {others} \cup {{e[1]} \cup e[2] : e \in list} \cup {{h[2]} \cup h[3] : h \in hits}
Forget == taken' = taken \cap UNION Noted'

\* shutil.move into the quarantine, then a line in index.txt, which a failure
\* or a kill may keep from being written.
Quarantine(f, where) ==
  /\ quarantine' = quarantine \cup {<<f, where>>}
  /\ \/ Fine /\ lines' = [lines EXCEPT ![where] = @ + 1]
     \/ ScanFault /\ UNCHANGED lines

-----------------------------------------------------------------------------
(* The hook *)

Step(f, from) == hook[f] = from /\ NoWorld /\ UNCHANGED nights
Goto(f, step) == hook' = [hook EXCEPT ![f] = step]
NoMove == UNCHANGED <<at, quarantine, lines>>

\* A call on the download fails for sure once it is gone.
Fails(f) == IF at[f] = None THEN Fine ELSE ScanFault

\* files_under, is_media; the folder of a job is made.
Begin(f) ==
  /\ Step(f, "begin") /\ NoMove /\ Untouched /\ UNCHANGED worked
  /\ \/ at[f] = None /\ Fine /\ Goto(f, "done")
     \/ at[f] # None /\ Fine /\ Goto(f, IF f \in Media THEN "link" ELSE "scan")
     \/ at[f] # None /\ f \in Media /\ ScanFault /\ Goto(f, "scan")

\* os.link; what cannot be linked is scanned here.
Link(f) ==
  /\ Step(f, "link") /\ NoMove
  /\ UNCHANGED <<queue, worker, link, found, others>>
  /\ \/ at[f] # None /\ Fine /\ Goto(f, "name") /\ tmp' = tmp \cup {f} /\ Touch({f})
     \/ Fails(f) /\ Goto(f, "scan") /\ UNCHANGED tmp /\ Untouched

\* job.json and the rename of the folder; a job without its name is left to
\* the worker.
Name(f) ==
  /\ Step(f, "name") /\ NoMove /\ Untouched /\ Goto(f, "done")
  /\ UNCHANGED <<worker, link, found, others>>
  /\ \/ Fine /\ tmp' = tmp \ {f} /\ queue' = queue \cup {f}
     \/ ScanFault /\ UNCHANGED <<tmp, queue>>

\* Without a verdict the download goes through.
Scan(f) ==
  /\ Step(f, "scan") /\ NoMove /\ Untouched /\ UNCHANGED worked
  /\ \/ at[f] # None /\ Fine /\ Goto(f, IF f \in Infected THEN "move" ELSE "done")
     \/ Fails(f) /\ Goto(f, "done")

\* quarantine; a file that is gone meanwhile ends the hook.
Move(f) ==
  /\ Step(f, "move") /\ UNCHANGED worked /\ Goto(f, "done")
  /\ \/ /\ at[f] # None /\ Quarantine(f, f)
        /\ at' = [at EXCEPT ![f] = None] /\ Touch({f})
     \/ Fails(f) /\ NoMove /\ Untouched

HookKilled(f) ==
  /\ hook[f] \notin {"off", "done"} /\ ScanFault /\ Goto(f, "done")
  /\ UNCHANGED <<stored, worked, nights, taken, moves>>

Hook(f) == Begin(f) \/ Link(f) \/ Name(f) \/ Scan(f) \/ Move(f)

-----------------------------------------------------------------------------
(* The worker *)

Works(step) == worker = step /\ NoWorld /\ UNCHANGED <<hook, nights>>

\* Mutant: a job that is left half written is skipped for ever.
Adopt_Never(f) == f \in {} /\ UNCHANGED svars

\* pending_jobs: a job that is left half written is taken over after an hour;
\* its hook is long gone.
Adopt(f) ==
  /\ f \in tmp /\ hook[f] = "done"
  /\ worker = "idle" /\ tmp' = tmp \ {f} /\ queue' = queue \cup {f}
  /\ UNCHANGED <<stored, hook, worker, link, found, others, nights, taken, sfaults, moves>>

\* The jobs come in the order of their time; any order is allowed here.
Take(f) ==
  /\ Works("idle") /\ f \in queue /\ NoMove /\ Untouched /\ Fine
  /\ worker' = "scan" /\ link' = f
  /\ UNCHANGED <<tmp, queue, found, others>>

\* process_job.  A clean link is removed; one without a verdict stays, or is
\* dropped at the third try, or at once when clamd answers an error.
Verdict ==
  /\ Works("scan") /\ NoMove /\ UNCHANGED <<tmp, found, others>>
  /\ \/ /\ Fine /\ link \notin Infected
        /\ worker' = "idle" /\ link' = None /\ queue' = queue \ {link} /\ Touch({link})
     \/ Fine /\ link \in Infected /\ worker' = "walk" /\ UNCHANGED <<link, queue>> /\ Untouched
     \/ /\ ScanFault /\ worker' = "idle" /\ link' = None
        /\ \/ UNCHANGED queue /\ Untouched
           \/ queue' = queue \ {link} /\ Touch({link})

\* Mutant: the links are told by their name.
Walk_ByName ==
  /\ Works("walk") /\ NoMove /\ Untouched /\ Fine
  /\ worker' = "remove" /\ found' = {p \in {link, "library"} : at[p] # None} /\ others' = found'
  /\ UNCHANGED <<tmp, queue, link>>

\* other_links
Walk ==
  /\ Works("walk") /\ NoMove /\ Untouched /\ Fine
  /\ worker' = "remove" /\ found' = Links(link) /\ others' = found'
  /\ UNCHANGED <<tmp, queue, link>>

\* handle_hit: the other links first, each by its path; one that cannot be
\* removed is reported.
Remove(p) ==
  /\ Works("remove") /\ p \in others /\ others' = others \ {p}
  /\ UNCHANGED <<quarantine, lines, tmp, queue, worker, link, found>>
  /\ \/ Fine /\ at' = [at EXCEPT ![p] = None] /\ Touch({at[p]} \ {None})
     \/ at[p] # None /\ ScanFault /\ UNCHANGED at /\ Untouched

\* Then the queue's own link, under the name the library has for it.
Where == IF "library" \in found THEN "library"
         ELSE IF found # {} THEN CHOOSE p \in found : TRUE ELSE link
Keep ==
  /\ worker = "remove" /\ others = {}
  /\ UNCHANGED <<at, allow, moves, hook, nights, tmp, others>> /\ Forget
  /\ worker' = "idle" /\ link' = None /\ found' = {}
  /\ \/ Quarantine(link, Where) /\ queue' = queue \ {link} /\ Touch({link})
     \/ ScanFault /\ UNCHANGED <<quarantine, lines, queue>> /\ Untouched

WorkerKilled ==
  /\ worker # "idle" /\ ScanFault
  /\ worker' = "idle" /\ link' = None /\ found' = {} /\ others' = {}
  /\ UNCHANGED <<stored, hook, tmp, queue, nights, moves>> /\ Forget

Worker == Verdict \/ Walk \/ Keep \/ (\E p \in Path : Remove(p))
          \/ (\E f \in File : Adopt(f) \/ Take(f))

-----------------------------------------------------------------------------
(* scan.sh new *)

Nightly(step) == night = step /\ NoWorld /\ UNCHANGED <<hook, worked>>

\* touch last-run.next, before the files are listed
NightStart ==
  /\ Nightly("off") /\ night' = "list" /\ changed' = {}
  /\ UNCHANGED <<at, quarantine, lines, fresh, missed, list, hits, signs, sfaults>>

\* list_find, run_new: of every file changed since last-run one path, unless
\* it is allowed; the others are noted beside it.
List ==
  /\ Nightly("list") /\ night' = "scan" /\ NoMove /\ Untouched /\ UNCHANGED hits
  /\ \E one \in [{f \in fresh : Links(f) # {}} -> Path] :
       /\ \A f \in DOMAIN one : one[f] \in Links(f)
       /\ list' = {<<one[f], Links(f) \ {one[f]}>> : f \in {g \in DOMAIN one : one[g] \notin allow}}
  /\ \/ Fine /\ UNCHANGED signs
     \/ ScanFault /\ signs' = {"error"}

\* Infected files among some, which the run passes over.
Miss(files) == missed' = missed \cup (files \cap Infected) /\ UNCHANGED <<fresh, changed>>

\* clamdscan --move of one path: what is there now.  A file that vanished is
\* dropped before the scan, or counted as gone.  A file that cannot be scanned
\* gives an ERROR line; a hit that cannot be moved gives none that counts, for
\* the run ends with RC 1.
NightScan ==
  /\ Nightly("scan") /\ UNCHANGED <<night, lines>>
  /\ \E e \in list :
       LET p == e[1] IN
       /\ list' = list \ {e}
       /\ \/ at[p] \in Infected /\ Fine
             /\ quarantine' = quarantine \cup {<<at[p], p>>}
             /\ hits' = hits \cup {<<at[p], p, e[2]>>}
             /\ at' = [at EXCEPT ![p] = None] /\ Touch({at[p]}) /\ UNCHANGED signs
          \/ at[p] \in File \ Infected /\ Fine
             /\ UNCHANGED <<at, quarantine, hits, signs>> /\ Untouched
          \/ at[p] = None /\ Fine /\ signs' \in {signs, signs \cup {"gone"}}
             /\ UNCHANGED <<at, quarantine, hits>> /\ Untouched
          \/ at[p] \in File /\ ScanFault /\ signs' = signs \cup {"error"}
             /\ UNCHANGED <<at, quarantine, hits>> /\ Untouched
          \/ at[p] \in Infected /\ ScanFault /\ Miss({at[p]})
             /\ UNCHANGED <<at, quarantine, hits, signs>>

\* A clamdscan client that is killed: RC is 2 or more, without an ERROR line
\* for the rest of its part of the list.
NightSilent ==
  /\ Nightly("scan") /\ UNCHANGED <<night, lines, at, quarantine, hits>>
  /\ \E part \in SUBSET list :
       /\ part # {} /\ list' = list \ part
       /\ ScanFault /\ signs' = signs \cup {"silent"} /\ Miss({at[e[1]] : e \in part})

\* quarantine_links: whatever is at the paths that were noted follows; a mv that
\* fails is no error of the run.
NightLinks ==
  /\ Nightly("scan") /\ list = {} /\ UNCHANGED <<list, signs, lines>>
  /\ \/ \E h \in hits, p \in Path :
          LET rest == (hits \ {h}) \cup {<<h[1], h[2], h[3] \ {p}>>} IN
          /\ p \in h[3] /\ UNCHANGED night
          /\ \/ /\ at[p] # None /\ Fine /\ hits' = rest \cup {<<at[p], p, {}>>}
                /\ quarantine' = quarantine \cup {<<at[p], p>>}
                /\ at' = [at EXCEPT ![p] = None] /\ Touch({at[p]})
             \/ /\ IF at[p] = None THEN Fine ELSE ScanFault
                /\ hits' = rest /\ UNCHANGED <<at, quarantine>> /\ Untouched
     \/ /\ \A h \in hits : h[3] = {}
        /\ night' = "links" /\ Fine /\ UNCHANGED <<at, quarantine, hits>> /\ Untouched

Indexed == [p \in Path |-> lines[p] + Cardinality({h \in hits : h[2] = p})]

\* RC >= 2 counts as an error, unless all that the log tells is files gone.
Good == "error" \notin signs /\ ("silent" \in signs => "gone" \in signs)

\* Mutant: last-run becomes the end of the run.
NightEnd_Now ==
  /\ night = "links" /\ night' = "off" /\ Fine
  /\ UNCHANGED <<allow, moves, hook, worked, at, quarantine>>
  /\ lines' = Indexed /\ hits' = {} /\ signs' = {} /\ UNCHANGED list /\ Forget
  /\ fresh' = (IF Good THEN {} ELSE fresh) /\ changed' = {} /\ missed' = missed \ fresh'

\* index.txt is written at the end; without errors last-run becomes the
\* beginning of this run.
NightEnd ==
  /\ night = "links" /\ night' = "off" /\ Fine
  /\ UNCHANGED <<allow, moves, hook, worked, at, quarantine>>
  /\ lines' = Indexed /\ hits' = {} /\ signs' = {} /\ UNCHANGED list /\ Forget
  /\ fresh' = (IF Good THEN changed ELSE fresh) /\ UNCHANGED changed /\ missed' = missed \ fresh'

NightKilled ==
  /\ night # "off" /\ ScanFault
  /\ night' = "off" /\ list' = {} /\ hits' = {} /\ signs' = {} /\ missed' = missed \ fresh
  /\ UNCHANGED <<at, quarantine, lines, allow, fresh, changed, hook, worked, moves>> /\ Forget

NightRun == NightStart \/ List \/ NightScan \/ NightSilent \/ NightLinks \/ NightEnd

-----------------------------------------------------------------------------
(* The arrs, the download clients, the owner. *)

ScanWorld ==
  moves < MaxMoves /\ moves' = moves + 1 /\ UNCHANGED <<hook, worked, nights, sfaults>>

\* Once another file has the place of one, noted paths are no longer of one file.
Taken(p) == taken' = taken \cup UNION {paths \in Noted : p \in paths}

\* A download is complete.
Complete(f) ==
  /\ hook[f] = "off" /\ Goto(f, "begin")
  /\ at' = [at EXCEPT ![f] = f] /\ Touch({f})
  /\ UNCHANGED <<quarantine, lines, allow, worked, nights, taken, sfaults, moves>>

\* The file of a title, new or an upgrade, linked or moved from its download.
Import(f) ==
  /\ ScanWorld /\ at[f] = f /\ at["library"] # f
  /\ \/ at' = [at EXCEPT !["library"] = f]
     \/ at' = [at EXCEPT !["library"] = f, ![f] = None]
  /\ Touch({f, at["library"]} \ {None})
  /\ Taken("library") /\ UNCHANGED <<quarantine, lines, allow>>

Delete(p) ==
  /\ ScanWorld /\ at[p] # None
  /\ at' = [at EXCEPT ![p] = None] /\ Touch({at[p]})
  /\ UNCHANGED <<quarantine, lines, allow, taken>>

\* scan.sh restore
Restore(f, p) ==
  /\ ScanWorld /\ <<f, p>> \in quarantine /\ lines[p] > 0 /\ at[p] = None
  /\ at' = [at EXCEPT ![p] = f] /\ quarantine' = quarantine \ {<<f, p>>}
  /\ lines' = [lines EXCEPT ![p] = @ - 1] /\ allow' = allow \cup {p} /\ Touch({f})
  /\ Taken(p)

Others == \E f \in File : Complete(f) \/ Import(f) \/ (\E p \in Path : Restore(f, p))

Kills == WorkerKilled \/ NightKilled \/ \E f \in File : HookKilled(f)

ScanNext == (\E f \in File : Hook(f)) \/ Worker \/ NightRun
            \/ Others \/ (\E p \in Path : Delete(p)) \/ Kills

ScanSpec == ScanInit /\ [][ScanNext]_svars

\* Hook and worker run; a night follows the other.
ScanFairSpec ==
  ScanSpec /\ (\A f \in File : WF_svars(Hook(f))) /\ WF_svars(Worker) /\ WF_svars(NightRun)

-----------------------------------------------------------------------------
(* What must hold. *)

\* "The nightly scan covers it" (clamav-hook.py:349): as long as an infected
\* file is anywhere, whatever the hook and the worker made of it and wherever
\* it was linked and moved while a night's run was listing and scanning, the
\* next run lists it, unless the owner restored a path of it.  The code breaks
\* this promise for one kind of file: one that a run passed over, its hit not
\* moved or its client killed, and that nobody has touched since.
NightCovers ==
  \A f \in Infected :
    Links(f) # {} /\ Links(f) \cap allow = {} => f \in fresh \/ f \in missed
ScanInv == ScanTypeOK /\ NightCovers

\* What scanning has secured, and what it may take by mistake: paths it noted
\* that the arrs gave another file while it was at work.
Secured == queue \cup {q[1] : q \in quarantine}
Replaced == taken \cap UNION Noted

\* Scanning takes only infected files away, and a file it takes is secured by
\* then; it stays so while the links go one by one, through failures and
\* kills, but for a link in the queue whose scan fails for good.
OnlyHitsTaken ==
  [][moves' = moves =>
       /\ \A p \in Path : at[p] # None /\ at'[p] # at[p] =>
            p \in Replaced \/ at[p] \in Infected \cap Secured'
       /\ \A f \in Infected \cap Secured :
            f \in Secured' \/ (worker = "scan" /\ link = f /\ sfaults' # sfaults)]_svars

\* The queue is worked off, and no infected file stays that the owner does not
\* want, through failures, kills and imports at any time, but for one that a
\* run passed over.
InfectedLeave ==
  <>[](/\ tmp \cup queue = {}
       /\ \A f \in Infected \ missed : Links(f) # {} => Links(f) \cap allow # {})

-----------------------------------------------------------------------------
(* The inductive invariant behind them. *)

\* The path of a download holds that download only.
Belongs(p, f) == p \in File => p = f

\* Paths that a scanner takes for links of f, and that are, or are gone.
Hold(paths, f) == \A p \in paths : Belongs(p, f) /\ at[p] \in {f, None}

PlaceInv ==
  /\ \A p \in File : at[p] \in {p, None}
  /\ \A q \in quarantine : Belongs(q[2], q[1])

HookInv == \A f \in File : hook[f] = "move" => f \in Infected

\* The worker has a link in the queue, of an infected file once it removes others.
WorkerInv ==
  /\ worker # "idle" => link \in queue
  /\ worker \in {"walk", "remove"} => link \in Infected
  /\ worker # "remove" => found = {}
  /\ \A p \in found : Belongs(p, link)
  /\ \A p \in others : p \in taken \/ at[p] \in {link, None}

\* What the night has noted together belongs together, unless it was taken.
NotedInv ==
  /\ \A e \in list : \/ {e[1]} \cup e[2] \subseteq taken
                     \/ \E f \in File : Hold({e[1]} \cup e[2], f)
  /\ \A h \in hits : h[3] \subseteq taken \/ (h[1] \in Infected /\ Hold(h[3], h[1]))

\* An infected file that the owner has not let in again.
Loose(f) == f \in Infected /\ Links(f) # {} /\ Links(f) \cap allow = {}

\* Such a file has changed since the run began, or is on its list, or the run
\* passed over it, or an error will keep last-run as it was.
CoverInv ==
  /\ NightCovers
  /\ night \in {"scan", "links"} /\ "error" \notin signs =>
       \A f \in File : Loose(f) => \/ f \in changed \/ f \in missed
                                  \/ (night = "scan" /\ \E e \in list : at[e[1]] = f)

ScanIInv == ScanTypeOK /\ PlaceInv /\ HookInv /\ WorkerInv /\ NotedInv /\ CoverInv
=============================================================================
