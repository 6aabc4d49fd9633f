--------------------------- MODULE QueueWatchdog ---------------------------
(***************************************************************************)
(* queue-watchdog.py: what needs a hand is told by Telegram, once, and     *)
(* what is only worth knowing goes to the digest of the morning.  A run    *)
(* works on a copy of its state file, and writes it, and then the digest,  *)
(* at its end: what it has sent, deleted or commanded until then is known  *)
(* to nobody if it dies.                                                   *)
(*                                                                         *)
(* One of the two apps, Sonarr, whose blocked downloads may be imported.   *)
(* A time is the question whether it is longer ago than its limit.  Left   *)
(* out: the texts, the log, and when the held messages were held first,    *)
(* which only the log shows.  The proofs take this component together with *)
(* the other two of the downloads, so no name here is one of theirs.       *)
(***************************************************************************)
EXTENDS Integers, FiniteSets

CONSTANTS
  Item,           \* downloads in Sonarr's queue
  IdMatched,      \* those that Sonarr blocks only with "matched to series by ID"
  Event,          \* files that the hooks leave in the spool directories
  Manual, Broken, \* those to check by hand, and the ones that cannot be parsed
  DigestMax,      \* DIGEST_MAX
  MaxWatchAct, MaxWatchFault

ASSUME WatchdogAssumption ==
  /\ IdMatched \subseteq Item /\ Manual \subseteq Event /\ Broken \subseteq Event
  /\ "indexers" \notin Item \cup Event
  /\ DigestMax \in Nat /\ MaxWatchAct \in Nat /\ MaxWatchFault \in Nat

VARIABLES
  status,   \* [Item -> Status]
  fell,     \* downloads whose sizeleft is less than the state file says
  disabled, \* the app has indexers disabled, which is not expected
  spool,    \* event files
  quiet,    \* in_quiet_hours
  saved,    \* the state file, a Memory
  digest,   \* what the digest file says, of <<kind, subject>>
  wpc, mem,  \* the run, and its copy of the state
  hush,      \* out.quiet
  seen, seenFell, todo, done, alerts, events, \* its records and what it will do with them
  news,     \* out.events
  sent,     \* history: [Item -> Nat], Telegrams since a run has noted that it is not blocked
  again,    \* history: [Item -> Nat], how often since the code has lost track of one
  posted,   \* history: [Item -> Nat], import commands since a run has seen it in the queue
  told,     \* history: event files that were sent
  shown,    \* history: events and failures the digest has said, the latter until a run notes otherwise
  cut,      \* history: what a run had too much of for the digest
  mine,     \* history: what this run sent and commanded and no file shows yet
  torn,     \* history: what runs did and noted that died before a file showed it
  wacts, wfaults

watched == <<status, fell, disabled, spool, quiet>>
records == <<seen, seenFell, todo, done, alerts, events>>
said == <<sent, again, posted, told, shown, cut>>
wvars == <<watched, saved, digest, wpc, mem, hush, records, news, said, mine, torn, wacts, wfaults>>

\* warn: downloading, with a warning.
Status == {"out", "down", "warn", "blocked", "failed"}
Blocked == {"warn", "blocked"}
ACTIVE == {"down", "warn"}
Cond == {"blocked", "stalled", "failed"}
Mark == {"no", "new", "old"}
Memory == [alerted : [Item -> SUBSET Cond], first : [Item -> Mark], since : [Item -> Mark],
           imports : SUBSET Item, indexers : BOOLEAN]
NoRecord == [d \in Item |-> "unread"]
All(x) == [d \in Item |-> x]
WatchFault == wfaults < MaxWatchFault /\ wfaults' = wfaults + 1

WatchInit ==
  /\ status = [d \in Item |-> IF d \in IdMatched THEN "blocked" ELSE "down"] /\ fell = {}
  /\ disabled = FALSE /\ spool = Event /\ quiet = FALSE
  /\ saved = [alerted |-> All({}), first |-> All("no"), since |-> All("no"),
              imports |-> {}, indexers |-> FALSE]
  /\ mem = saved /\ digest = {} /\ wpc = "off" /\ hush = FALSE /\ news = {}
  /\ seen = NoRecord /\ seenFell = {} /\ todo = {} /\ done = {} /\ alerts = {} /\ events = {}
  /\ sent = All(0) /\ again = All(0) /\ posted = All(0) /\ told = {} /\ shown = {} /\ cut = {}
  /\ mine = {} /\ torn = {}
  /\ wacts = 0 /\ wfaults = 0

-----------------------------------------------------------------------------
(* The run. *)

WatchEnd == /\ wpc' = "off" /\ hush' = FALSE /\ news' = {} /\ mem' = saved'
            /\ seen' = NoRecord /\ seenFell' = {}
            /\ todo' = {} /\ done' = {} /\ alerts' = {} /\ events' = {}
            /\ mine' = {}

\* immediate: ok if it counts as sent; held, or failed, if not.  A message whose
\* answer is lost, curl's time being up, is there nevertheless.
Immediate(held, ok, there) ==
  \/ ok = ~held /\ there = ok /\ UNCHANGED wfaults
  \/ ~held /\ ~ok /\ WatchFault

\* The run begins with the hour as it is, then the indexers.
Indexers ==
  /\ wpc = "off" /\ wpc' = "fetch" /\ hush' = quiet
  /\ \/ WatchFault /\ UNCHANGED <<mem, news>>   \* no answer: the state is kept
     \/ /\ disabled /\ ~mem.indexers
        /\ \E ok, there \in BOOLEAN : Immediate(quiet, ok, there) /\ mem' = [mem EXCEPT !.indexers = ok]
        /\ UNCHANGED news
     \/ /\ ~disabled /\ mem.indexers
        /\ mem' = [mem EXCEPT !.indexers = FALSE] /\ news' = news \cup {<<"recovered", "indexers">>}
        /\ UNCHANGED wfaults
     \/ disabled = mem.indexers /\ UNCHANGED <<mem, news, wfaults>>
  /\ UNCHANGED <<watched, saved, digest, records, said, mine, torn, wacts>>

\* The queue is read; of the downloads that left it, no import is remembered.
Fetch ==
  /\ wpc = "fetch"
  /\ \/ /\ WatchFault /\ wpc' = "events" /\ events' = spool
        /\ UNCHANGED <<mem, seen, seenFell, todo, posted>>
     \/ /\ wpc' = "import" /\ seen' = status /\ seenFell' = fell
        /\ mem' = [mem EXCEPT !.imports = {d \in @ : status[d] # "out"}]
        /\ todo' = {d \in IdMatched : status[d] = "blocked"} \ mem'.imports
        /\ posted' = [d \in Item |-> IF status[d] = "out" THEN 0 ELSE posted[d]]
        /\ UNCHANGED <<events, wfaults>>
  /\ UNCHANGED <<watched, saved, digest, hush, done, alerts, news, sent, again, told, shown, cut,
                 mine, torn, wacts>>

\* Mutant: only a command that succeeded is remembered.
Remembered_Answered(d, ok) == IF ok THEN {d} ELSE {}
\* state[key] = now, before the command.
Remembered(d, ok) == {d}

\* The checks refuse the download, or do not get an answer; or they agree and
\* the import is commanded, with or without an answer, with or without effect.
ManualImport(d) ==
  /\ wpc = "import" /\ d \in todo
  /\ todo' = todo \ {d}
  /\ \/ UNCHANGED <<mem, done, news, posted, mine, wfaults>>
     \/ \E ok, effect \in BOOLEAN :
          /\ IF ok THEN effect /\ UNCHANGED wfaults ELSE WatchFault
          /\ mem' = [mem EXCEPT !.imports = @ \cup Remembered(d, ok)]
          /\ done' = IF ok THEN done \cup {d} ELSE done
          /\ news' = IF ok THEN news \cup {<<"imported", d>>} ELSE news
          /\ posted' = IF effect THEN [posted EXCEPT ![d] = @ + 1] ELSE posted
          /\ mine' = mine \cup {<<"posted", d>>}
  /\ UNCHANGED <<watched, saved, digest, wpc, hush, seen, seenFell, alerts, events, sent, again,
                 told, shown, cut, torn, wacts>>

\* evaluate, for one record; ActiveConds is its active.  A download that was
\* imported in this run has none.
Record(d) == seen[d] \notin {"out", "unread"} /\ d \notin done
First(d) == IF ~Record(d) \/ seen[d] \notin Blocked THEN "no"
            ELSE IF mem.first[d] = "no" THEN "new" ELSE mem.first[d]
SinceMark(d) == IF ~Record(d) \/ seen[d] \notin ACTIVE THEN "no"
                ELSE IF mem.since[d] = "no" \/ d \in seenFell THEN "new" ELSE mem.since[d]
ActiveConds(d) ==
  {c \in Cond : Record(d) /\ CASE c = "blocked" -> seen[d] \in Blocked
                              [] c = "stalled" -> seen[d] \in ACTIVE /\ d \notin seenFell
                              [] c = "failed" -> seen[d] = "failed"}
Due(d) == {c \in ActiveConds(d) : CASE c = "blocked" -> mem.first[d] = "old"
                                    [] c = "stalled" -> mem.since[d] = "old"
                                    [] c = "failed" -> TRUE}
\* Mutant: what a condition was is not remembered while it lasts.
Kept_Due(d) == mem.alerted[d] \ Due(d)
Kept(d) == mem.alerted[d] \cap ActiveConds(d)

Evaluate ==
  /\ wpc = "import" /\ todo = {}
  /\ wpc' = "alerts"
  /\ LET new == [d \in Item |-> Due(d) \ Kept(d)]
     IN /\ mem' = [mem EXCEPT !.alerted = [d \in Item |-> Kept(d) \cup new[d]],
                              !.first = [d \in Item |-> First(d)],
                              !.since = [d \in Item |-> SinceMark(d)]]
        /\ alerts' = {d \in Item : "blocked" \in new[d]}
        /\ news' = news \cup {n \in {"stalled", "failed"} \X Item : n[1] \in new[n[2]]}
  /\ UNCHANGED <<watched, saved, digest, hush, seen, seenFell, todo, done, events, said, mine,
                 torn, wacts, wfaults>>

\* Mutant: the download counts as alerted although the message is held.
Unsent_Kept(d) == mem
Unsent(d) == [mem EXCEPT !.alerted[d] = @ \ {"blocked"}]

Alert(d) ==
  /\ wpc = "alerts" /\ d \in alerts
  /\ alerts' = alerts \ {d}
  /\ \E ok, there \in BOOLEAN :
       /\ Immediate(hush, ok, there)
       /\ mem' = IF ok THEN mem ELSE Unsent(d)
       /\ sent' = IF there THEN [sent EXCEPT ![d] = @ + 1] ELSE sent
       /\ again' = IF there /\ ~ok THEN [again EXCEPT ![d] = @ + 1] ELSE again
       /\ mine' = IF ok THEN mine \cup {<<"sent", d>>} ELSE mine
  /\ UNCHANGED <<watched, saved, digest, wpc, hush, seen, seenFell, todo, done, events, news,
                 posted, told, shown, cut, torn, wacts>>

ListEvents ==
  /\ wpc = "alerts" /\ alerts = {}
  /\ wpc' = "events" /\ events' = spool
  /\ UNCHANGED <<watched, saved, digest, mem, hush, seen, seenFell, todo, done, alerts, news,
                 said, mine, torn, wacts, wfaults>>

\* Mutant: the file goes, sent or not.
Gone_Always(e, ok) == TRUE
Gone(e, ok) == e \notin Manual \/ ok

\* send_events: a file that is not sent stays; one that is broken is put aside.
SendEvent(e) ==
  /\ wpc = "events" /\ e \in events
  /\ events' = events \ {e}
  /\ \E ok, there \in BOOLEAN :
       /\ IF e \in Manual \ Broken THEN Immediate(hush, ok, there)
          ELSE ~ok /\ ~there /\ UNCHANGED wfaults
       /\ spool' = IF e \in Broken \/ Gone(e, ok) THEN spool \ {e} ELSE spool
       /\ told' = IF there THEN told \cup {e} ELSE told
  /\ news' = IF e \in Manual \cup Broken THEN news ELSE news \cup {<<"event", e>>}
  /\ UNCHANGED <<status, fell, disabled, quiet, saved, digest, wpc, mem, hush, seen, seenFell, todo,
                 done, alerts, sent, again, posted, shown, cut, mine, torn, wacts>>

\* A run that has read the queue has noted that a download is not blocked; one
\* that it has imported it drops from the state without having noted that.
Cleared(d) == seen[d] \notin Blocked \cup {"unread"}
Dropped(d) == d \in done /\ "blocked" \in saved.alerted[d]

WriteMemory ==
  /\ wpc = "events" /\ events = {}
  /\ wpc' = "digest" /\ saved' = mem /\ fell' = fell \ seenFell /\ mine' = {}
  /\ sent' = [d \in Item |-> IF Cleared(d) THEN 0 ELSE sent[d]]
  /\ again' = [d \in Item |-> IF Cleared(d) THEN 0 ELSE IF Dropped(d) THEN again[d] + 1 ELSE again[d]]
  /\ shown' = {n \in shown : ~(n[1] = "failed" /\ seen[n[2]] \notin {"failed", "unread"})}
  /\ UNCHANGED <<status, disabled, spool, quiet, digest, mem, hush, records, news, posted, told, cut,
                 torn, wacts, wfaults>>

\* What the properties follow through the digest.
Followed(notes) == {n \in notes : n[1] \in {"failed", "event"}}

\* prune_digest: of what the file says and what is new, the newest DIGEST_MAX,
\* and none older than 48 h.
Pruned ==
  {kept \in SUBSET (digest \cup news) :
     /\ Cardinality(kept) <= DigestMax
     /\ news \subseteq kept \/ (kept \subseteq news /\ Cardinality(kept) = DigestMax)}

WriteDigest ==
  /\ wpc = "digest" /\ digest' \in Pruned
  /\ shown' = shown \cup Followed(digest') /\ cut' = cut \cup Followed(news \ digest')
  /\ UNCHANGED saved /\ WatchEnd
  /\ UNCHANGED <<watched, sent, again, posted, told, torn, wacts, wfaults>>

\* The end of the service, of the host, or an exception.
WatchKill ==
  /\ wpc # "off" /\ WatchFault
  /\ torn' = torn \cup mine \cup Followed(news)
  /\ again' = [d \in Item |-> IF <<"sent", d>> \in mine THEN again[d] + 1 ELSE again[d]]
  /\ UNCHANGED saved /\ WatchEnd
  /\ UNCHANGED <<watched, digest, sent, posted, told, shown, cut, wacts>>

WatchRun == \/ Indexers \/ Fetch \/ Evaluate \/ ListEvents \/ WriteMemory \/ WriteDigest
            \/ \E d \in Item : ManualImport(d) \/ Alert(d)
            \/ \E e \in Event : SendEvent(e)

-----------------------------------------------------------------------------
(* Downloads, indexers, time. *)

self == <<wpc, hush, records, news, mine, torn>>
WatchAct == wacts < MaxWatchAct /\ wacts' = wacts + 1 /\ UNCHANGED <<self, digest, wfaults>>

\* A download leaves the queue, returns, or is in another state; a sizeleft falls.
Change(d, s) ==
  /\ status[d] # s /\ WatchAct
  /\ status' = [status EXCEPT ![d] = s]
  /\ UNCHANGED <<fell, disabled, spool, quiet, saved, mem, said>>

Progress(d) ==
  /\ status[d] \in ACTIVE /\ saved.since[d] # "no" /\ fell' = fell \cup {d} /\ WatchAct
  /\ UNCHANGED <<status, disabled, spool, quiet, saved, mem, said>>

IndexersChange ==
  /\ disabled' = ~disabled /\ WatchAct
  /\ UNCHANGED <<status, fell, spool, quiet, saved, mem, said>>

Evening == /\ ~quiet /\ quiet' = TRUE /\ WatchAct
           /\ UNCHANGED <<status, fell, disabled, spool, saved, mem, said>>
Morning == /\ quiet /\ quiet' = FALSE
           /\ UNCHANGED <<status, fell, disabled, spool, saved, mem, said, self, digest, wacts, wfaults>>

\* blocked_min, or stall_hours, go by.
Older(m, d, f) == [m EXCEPT !.first[d] = IF f = "first" /\ @ = "new" THEN "old" ELSE @,
                            !.since[d] = IF f = "since" /\ @ = "new" THEN "old" ELSE @]
Pass(d, f) ==
  /\ saved' = Older(saved, d, f) /\ saved' # saved
  /\ mem' = Older(mem, d, f)
  /\ UNCHANGED <<watched, said, self, digest, wacts, wfaults>>

WatchTime == Morning \/ \E d \in Item, f \in {"first", "since"} : Pass(d, f)
WatchWorld == \/ IndexersChange \/ Evening
              \/ \E d \in Item : Progress(d) \/ \E s \in Status : Change(d, s)

WatchNext == WatchRun \/ WatchKill \/ WatchTime \/ WatchWorld

WatchSpec == WatchInit /\ [][WatchNext]_wvars

\* The timer, the run, and time; few calls fail.
WatchFairSpec == WatchSpec /\ WF_wvars(WatchRun /\ UNCHANGED wfaults) /\ WF_wvars(WatchTime)

-----------------------------------------------------------------------------
(* Properties. *)

WatchTypeOK ==
  /\ status \in [Item -> Status] /\ fell \subseteq Item /\ disabled \in BOOLEAN
  /\ spool \subseteq Event /\ quiet \in BOOLEAN
  /\ {saved, mem} \subseteq Memory
  /\ wpc \in {"off", "fetch", "import", "alerts", "events", "digest"}
  /\ hush \in BOOLEAN /\ seen \in [Item -> Status \cup {"unread"}] /\ seenFell \subseteq Item /\ todo \subseteq IdMatched
  /\ done \subseteq IdMatched /\ alerts \subseteq Item /\ events \subseteq Event
  /\ sent \in [Item -> Nat] /\ again \in [Item -> Nat] /\ posted \in [Item -> Nat]
  /\ told \subseteq Event /\ mine \subseteq {"sent", "posted"} \X Item /\ wacts \in 0 .. MaxWatchAct /\ wfaults \in 0 .. MaxWatchFault

\* "once until the condition clears and returns" (queue-watchdog.py:3): a
\* download that stays blocked is told of once, over failed sends, quiet hours
\* and queues that could not be read.  The code loses track of one that it has
\* told: by the death of the run that told it, by a lost answer of Telegram,
\* and by an import that Sonarr has accepted and not done.  Each costs one
\* message more, and no more than one.
OnceTold == WatchTypeOK /\ \A d \in Item : sent[d] <= 1 + again[d]

\* "ManualImport, once per download" (queue-watchdog.py:7), also when the
\* answer to the command is lost, unless the run that commanded it died.
ImportOnce == \A d \in Item : <<"posted", d>> \notin torn => posted[d] <= 1

\* "the file is deleted once handled" (queue-watchdog.py:4): what a hook has
\* left behind is sent, or noted for the digest, and the digest has said it
\* before it is pruned, unless the run that took it down died or had more than
\* DIGEST_MAX to say.
EventsKept == \A e \in Event \ Broken :
  e \notin spool => e \in told \/ <<"event", e>> \in news \cup shown \cup torn \cup cut

\* Who needs a hand is told of in the end, over quiet hours, failed sends,
\* failed reads and imports that do not help, and so is a failed download in
\* the digest, unless the run that had noted it died or had too much to say.
ToldInTheEnd ==
  /\ \A d \in Item :
       /\ status[d] \in Blocked ~> status[d] \notin Blocked \/ sent[d] > 0
       /\ status[d] = "failed" ~> status[d] # "failed" \/ <<"failed", d>> \in shown \cup torn \cup cut
  /\ \A e \in Manual \ Broken : <>(e \in told)

-----------------------------------------------------------------------------
(* The inductive invariant behind them. *)

\* What the run has not evaluated yet is as the state file says; it evaluates
\* only a queue that it has read.
MemoryInv ==
  /\ wpc \notin {"alerts", "events"} => mem.alerted = saved.alerted
  /\ wpc \notin {"import", "alerts", "events"} => mem.imports = saved.imports
  /\ wpc # "import" => todo = {}
  /\ wpc # "alerts" => alerts = {}
  /\ wpc \in {"off", "fetch", "digest"} => mine = {}
  /\ wpc \in {"import", "alerts"} => \A d \in Item : seen[d] # "unread"

\* A Telegram is remembered, in the state file unless this run has sent it, and
\* in what this run will write, unless the download is no longer blocked or is
\* dropped; or the code has lost track of it.
SentInv ==
  \A d \in Item :
    /\ sent[d] <= 1 + again[d]
    /\ d \in alerts => sent[d] <= again[d] /\ "blocked" \in mem.alerted[d]
    /\ sent[d] > again[d] =>
         /\ (wpc \in {"alerts", "events"} /\ <<"sent", d>> \in mine) \/ "blocked" \in saved.alerted[d]
         /\ wpc \in {"alerts", "events"} => "blocked" \in mem.alerted[d] \/ Cleared(d) \/ Dropped(d)

\* So is an import command.
PostedInv ==
  \A d \in Item : <<"posted", d>> \notin torn =>
    /\ posted[d] <= 1
    /\ d \in todo => posted[d] = 0
    /\ posted[d] = 1 => d \in mem.imports /\ (<<"posted", d>> \in mine \/ d \in saved.imports)

WatchIInv == WatchTypeOK /\ MemoryInv /\ SentInv /\ PostedInv /\ EventsKept
=============================================================================
