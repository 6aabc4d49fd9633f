------------------------------ MODULE Promoter ------------------------------
(***************************************************************************)
(* beefy-promoter (beefy_promoter.py): HTTP requests name a title that is  *)
(* about to be watched; one worker thread has tier-move bring it to an     *)
(* SSD, one title at a time.  What tier-move does to a file is TierMove;    *)
(* here a title has one place, and a folder of sidecars that a demotion    *)
(* leaves on the SSD (tier-move:15-17, 239-241).                           *)
(*                                                                         *)
(* A request that is turned down changes nothing and is no step.  The      *)
(* worker waits 5 s at most whether the Event is set or not, so the Event  *)
(* is left out.                                                            *)
(***************************************************************************)
EXTENDS Integers, Sequences, FiniteSets

CONSTANTS
  Title,      \* title folders under media/
  NoTitle,    \* inflight is None
  Sidecar,    \* the titles with sidecars: their folder stays on the SSD
  Never,      \* done_at has no entry
  Hour,       \* 3600 s, in ticks of the clock
  Dedupe,     \* DEDUPE_SECONDS, in ticks
  PerHour,    \* MAX_PER_HOUR
  MaxRecent,  \* maxlen of recent
  MaxTime     \* bound: when the clock stops

ASSUME TitleAssumption == Sidecar \subseteq Title /\ NoTitle \notin Title
ASSUME NumberAssumption ==
  /\ {Hour, Dedupe, PerHour, MaxRecent} \subseteq Nat \ {0}
  /\ MaxTime \in Nat
  /\ Never \notin Nat

VARIABLES
  clock,    \* time.time()
  video,    \* [Title -> Place], where the video of a title is
  folder,   \* the titles with a folder on an SSD
  q,        \* the titles to promote, oldest first
  queued,   \* the same titles, as a set
  inflight, \* the title the worker has taken
  result,   \* what tier-move came to, until the worker books it
  late,     \* titles whose helper outlives the tier-move that was timed out
  recent,   \* the last outcomes, oldest first
  doneAt    \* [Title -> time of its last promotion]

files == <<video, folder>>
vars == <<clock, files, q, queued, inflight, result, late, recent, doneAt>>

Place == {"hot", "cold", "gone"}
Outcome == {"promoted", "refused", "timeout", "error"}
Time == 0 .. MaxTime

\* A title on the cold branch has left its folder on the SSD, or never had one.
Init ==
  /\ clock = 0
  /\ video \in [Title -> Place]
  /\ folder = {t \in Title : video[t] = "hot"}
  /\ q = <<>> /\ queued = {} /\ inflight = NoTitle /\ result = "none"
  /\ late = {}
  /\ recent = <<>>
  /\ doneAt = [t \in Title |-> Never]

-----------------------------------------------------------------------------
(* A request: submit runs under the lock. *)

\* tier_of: a branch holds the title if the path exists there.
OnHot(t) == video[t] = "hot" \/ t \in folder
OnCold(t) == video[t] = "cold"

PromotedLately(t) == doneAt[t] # Never /\ clock - doneAt[t] < Dedupe

RateLimited ==
  Cardinality({i \in DOMAIN recent : /\ recent[i].outcome = "promoted"
                                     /\ recent[i].at >= clock - Hour}) >= PerHour

Busy(t) == t \in queued \/ t = inflight

\* Mutant: the time of the last promotion is not looked at.
Submit_NoDedupe(t) ==
  /\ ~OnHot(t) /\ OnCold(t)
  /\ ~Busy(t) /\ ~RateLimited
  /\ q' = Append(q, t)
  /\ queued' = queued \cup {t}
  /\ UNCHANGED <<clock, files, inflight, result, late, recent, doneAt>>

Submit(t) ==
  /\ ~OnHot(t) /\ OnCold(t)
  /\ ~Busy(t)
  /\ ~PromotedLately(t)
  /\ ~RateLimited
  /\ q' = Append(q, t)
  /\ queued' = queued \cup {t}
  /\ UNCHANGED <<clock, files, inflight, result, late, recent, doneAt>>

-----------------------------------------------------------------------------
(* The worker thread: it takes a title and books an outcome under the lock, *)
(* and runs tier-move between the two without it.                           *)

Idle == inflight = NoTitle
Running == ~Idle /\ result = "none"

\* Mutant: q.pop() for q.popleft().
Pop_Newest ==
  /\ Idle /\ q # <<>>
  /\ inflight' = q[Len(q)]
  /\ q' = SubSeq(q, 1, Len(q) - 1)
  /\ queued' = queued \ {q[Len(q)]}
  /\ UNCHANGED <<clock, files, result, late, recent, doneAt>>

Pop ==
  /\ Idle /\ q # <<>>
  /\ inflight' = Head(q)
  /\ q' = Tail(q)
  /\ queued' = queued \ {Head(q)}
  /\ UNCHANGED <<clock, files, result, late, recent, doneAt>>

Hold(outcome) ==
  /\ result' = outcome
  /\ UNCHANGED <<clock, q, queued, inflight, recent, doneAt>>

ToHot(t) ==
  /\ video' = [video EXCEPT ![t] = "hot"]
  /\ folder' = folder \cup {t}

\* tier-move exits 0: the title was on the cold branch, and the lock free of a
\* helper that outlived an earlier run.
Promoted ==
  /\ Running
  /\ OnCold(inflight) /\ late = {}
  /\ ToHot(inflight)
  /\ Hold("promoted")
  /\ UNCHANGED late

\* It refuses (in use, seeding, no room, no longer cold, the lock busy), or
\* cannot be started.
Refused(outcome) ==
  /\ Running
  /\ outcome \in {"refused", "error"}
  /\ Hold(outcome)
  /\ UNCHANGED <<files, late>>

\* The timeout kills the script; a helper in the middle of the file lives on.
TimesOut ==
  /\ Running
  /\ \/ UNCHANGED late
     \/ OnCold(inflight) /\ late = {} /\ late' = {inflight}
  /\ Hold("timeout")
  /\ UNCHANGED files

\* What it printed is not text: an exception that nobody catches ends the worker
\* thread, after tier-move has promoted the title or not.  The service stays up.
Raised ==
  /\ Running
  /\ \/ OnCold(inflight) /\ late = {} /\ ToHot(inflight)
     \/ UNCHANGED files
  /\ Hold("raised")
  /\ UNCHANGED late

\* recent is a deque of maxlen entries, that drops its oldest.
Remember(entry) ==
  LET all == Append(recent, entry)
  IN  recent' = IF Len(all) > MaxRecent THEN Tail(all) ELSE all

Book ==
  /\ ~Idle /\ result \in Outcome
  /\ Remember([at |-> clock, outcome |-> result])
  /\ doneAt' = IF result = "promoted" THEN [doneAt EXCEPT ![inflight] = clock]
                                      ELSE doneAt
  /\ inflight' = NoTitle
  /\ result' = "none"
  /\ UNCHANGED <<clock, files, q, queued, late>>

Worker == \/ Pop \/ Promoted \/ TimesOut \/ Raised \/ Book
          \/ \E outcome \in {"refused", "error"} : Refused(outcome)

-----------------------------------------------------------------------------
(* The rest of the host. *)

books == <<q, queued, inflight, result, recent, doneAt>>

\* The helper that was left behind ends, with or without the title moved.
Straggle(t) ==
  /\ t \in late
  /\ late' = late \ {t}
  /\ \/ OnCold(t) /\ ToHot(t)
     \/ UNCHANGED files
  /\ UNCHANGED <<clock, books>>

Tick ==
  /\ clock < MaxTime
  /\ clock' = clock + 1
  /\ UNCHANGED <<files, books, late>>

\* beefy-mover, or the owner's tier-move, under the media lock.
Demote(t) ==
  /\ video[t] = "hot"
  /\ late = {}
  /\ video' = [video EXCEPT ![t] = "cold"]
  /\ folder' = IF t \in Sidecar THEN folder ELSE folder \ {t}
  /\ UNCHANGED <<clock, books, late>>

\* The apps remove a title with its folder, or import one onto an SSD.
Remove(t) ==
  /\ video[t] # "gone"
  /\ video' = [video EXCEPT ![t] = "gone"]
  /\ folder' = folder \ {t}
  /\ UNCHANGED <<clock, books, late>>

Import(t) ==
  /\ video[t] = "gone"
  /\ ToHot(t)
  /\ UNCHANGED <<clock, books, late>>

\* The service is restarted: its processes and its memory are gone.
Restart ==
  /\ q' = <<>> /\ queued' = {} /\ inflight' = NoTitle /\ result' = "none"
  /\ late' = {}
  /\ recent' = <<>>
  /\ doneAt' = [t \in Title |-> Never]
  /\ UNCHANGED <<clock, files>>

Next ==
  \/ \E t \in Title : Submit(t) \/ Straggle(t) \/ Demote(t) \/ Remove(t) \/ Import(t)
  \/ Worker \/ Tick \/ Restart

Spec == Init /\ [][Next]_vars

\* The worker thread runs until it dies; subprocess.run returns in time.
FairSpec == Spec /\ WF_vars(Worker)

-----------------------------------------------------------------------------
(* Properties. *)

TypeOK ==
  /\ clock \in Time
  /\ video \in [Title -> Place]
  /\ folder \subseteq Title
  /\ q \in Seq(Title)
  /\ queued \subseteq Title
  /\ inflight \in Title \cup {NoTitle}
  /\ result \in Outcome \cup {"none", "raised"}
  /\ late \subseteq Title
  /\ recent \in Seq([at : Time, outcome : Outcome])
  /\ doneAt \in [Title -> Time \cup {Never}]

\* The deque, its set and the title in flight are written by the request
\* threads and by the worker (beefy_promoter.py:131-154, 181-185): a title is
\* in one place at most, once, and the set is the deque's.
BooksAgree ==
  /\ queued = {q[i] : i \in 1 .. Len(q)}
  /\ \A i, j \in 1 .. Len(q) : q[i] = q[j] => i = j
  /\ inflight \notin queued
  /\ Idle => result = "none"

\* beefy-promoter.conf:19, "Do not promote the same title twice within this
\* many seconds": however long it waits and is copied, and whatever is demoted
\* meanwhile, unless the service is restarted in between.
NotTwice ==
  [][\A t \in Title : /\ doneAt[t] # Never
                      /\ doneAt'[t] \notin {Never, doneAt[t]}
                      => doneAt'[t] - doneAt[t] >= Dedupe]_vars

\* Nothing waits for ever behind the titles that others keep asking for, as long
\* as the worker thread lives.
AcceptedGetsItsTurn ==
  \A t \in Title : t \in queued ~> t \notin queued \/ result = "raised"

-----------------------------------------------------------------------------
(* The inductive invariant behind NotTwice. *)

\* Once accepted, a title stays due: only its own booking moves its time.
StaysDue == \A t \in queued \cup {inflight} :
              t \in Title => ~PromotedLately(t)

PInv == TypeOK /\ BooksAgree /\ StaysDue
=============================================================================
