--------------------------- MODULE NightDownloads ---------------------------
(***************************************************************************)
(* night-downloads.py: what can wait is downloaded at the low tariff.  A   *)
(* run reads the queues of Radarr and Sonarr and the two download clients, *)
(* decides for each download whether it is resumed or paused, calls the    *)
(* clients, writes its state file, and takes the download-now tag from the *)
(* titles whose search found nothing.  Any read and any call may fail, and *)
(* users, clients and searches go on in between; a press of download now   *)
(* (download_now.py) tags a title, takes its download out of the night     *)
(* category and starts it, or searches.                                    *)
(*                                                                         *)
(* Each title has one download, and is called by its name.  Left out: the  *)
(* clients' own queues (topPrio), request-state.json, and the hook that    *)
(* takes the tag off after the first import.  The grace period of a        *)
(* download that is nearly done is a choice.                               *)
(***************************************************************************)
EXTENDS Integers, FiniteSets

CONSTANTS
  Torrent, Nzb,   \* the downloads, by client
  Night,          \* those that the untagged clients add to a night category
  Tv,             \* those of a series; the others are films
  Place,          \* [Download -> Nat], tv_order: the place in its queue
  Dead,           \* torrents without a peer
  MaxAct, MaxFault

Download == Torrent \cup Nzb

ASSUME NightAssumption ==
  /\ Night \subseteq Download /\ Tv \subseteq Download /\ Dead \subseteq Torrent
  /\ Place \in [Download -> Nat] /\ MaxAct \in Nat /\ MaxFault \in Nat
  /\ \A d, e \in Download : Place[d] = Place[e] => d = e

VARIABLES
  st,        \* [Download -> State], as its client shows it
  nightly,   \* the downloads that are in a night category
  low,       \* low_tariff
  disk,      \* free space: under the minimum, under the margin above it, more
  tag, search, \* titles tagged download-now, titles a search runs for
  searched,  \* titles with a lastSearchTime
  file,      \* the state file: [stalled : [Download -> Since], held : SUBSET Torrent]
  pc,
  urgent, queued, searching, \* what the run has read of the apps
  mute,      \* apps that did not answer all of it
  lowSeen, diskSeen, \* the tariff and the free space of which the run knows
  calls,     \* the calls to come: [start, stop, resume, pause]
  next,      \* the state file to come
  drop,      \* the titles to untag
  stopped,   \* history: torrents, not of the night, that the disk hold has stopped
  lost,      \* history: paused downloads, not of the night, of which no file knows
  began,     \* history: titles with a download or search from after the run's reads
  acts, faults

world == <<st, nightly, low, disk, tag, search, searched>>
read == <<urgent, queued, searching, mute, lowSeen, diskSeen>>
plan == <<calls, next, drop>>
history == <<stopped, lost, began>>
vars == <<world, file, pc, read, plan, history, acts, faults>>

\* none: not added yet; run and stall are among the states of RUNNING_QBIT.
State == {"none", "paused", "run", "stall", "done"}
Since == {"no", "new", "old"}     \* old: stalled for STALL_MIN
App == {"radarr", "sonarr"}
app(d) == IF d \in Tv THEN "sonarr" ELSE "radarr"
Active(d) == st[d] \in {"run", "stall"}
Queued(d) == st[d] \in {"paused", "run", "stall"}

NoCalls == [start |-> {}, stop |-> {}, resume |-> {}, pause |-> {}]
NoFile == [stalled |-> [d \in Download |-> "no"], held |-> {}]
Fault == faults < MaxFault /\ faults' = faults + 1

Init ==
  /\ st = [d \in Download |-> IF d \in Night THEN "paused" ELSE "run"] /\ nightly = Night
  /\ low = FALSE /\ disk = "ok" /\ tag = {} /\ search = {} /\ searched = {}
  /\ file = NoFile /\ pc = "off"
  /\ urgent = {} /\ queued = {} /\ searching = {} /\ mute = {} /\ lowSeen = FALSE
  /\ diskSeen = "unknown"
  /\ calls = NoCalls /\ next = NoFile /\ drop = {}
  /\ stopped = {} /\ lost = {} /\ began = {} /\ acts = 0 /\ faults = 0

-----------------------------------------------------------------------------
(* The run. *)

End == /\ pc' = "off"
       /\ urgent' = {} /\ queued' = {} /\ searching' = {} /\ mute' = {} /\ lowSeen' = FALSE
       /\ diskSeen' = "unknown"
       /\ calls' = NoCalls /\ next' = NoFile /\ drop' = {} /\ began' = {}

\* The free space, the tariff, and the queues of the apps.  Of an app that fails
\* at /queue, or at /tag after it, the run keeps neither tags nor titles.
ReadQueues ==
  /\ pc = "off"
  /\ pc' = "commands" /\ lowSeen' = low
  /\ \/ mute' = {} /\ diskSeen' = disk /\ UNCHANGED faults
     \/ mute' = {} /\ diskSeen' = "unknown" /\ Fault
     \/ \E a \in App : mute' = {a} /\ diskSeen' = disk /\ Fault
  /\ LET told == {d \in Download : Queued(d) /\ app(d) \notin mute'}
     IN urgent' = told \cap tag /\ queued' = told
  /\ UNCHANGED <<world, file, searching, plan, history, acts>>

\* The searches.  An app that fails here has told its tags and titles, but it is
\* left out when the tags are judged.
ReadCommands ==
  /\ pc = "commands"
  /\ pc' = "plan"
  /\ \/ mute' = mute /\ UNCHANGED faults
     \/ \E a \in App : mute' = mute \cup {a} /\ Fault
  /\ searching' = {d \in search : app(d) \notin mute'}
  /\ UNCHANGED <<world, file, urgent, queued, lowSeen, diskSeen, plan, history, acts>>

Items == {d \in nightly : Queued(d)} \ urgent

\* Mutant: the time is counted anew in each run.
Stalled_Anew == [d \in Download |-> IF d \in Torrent \cap Items /\ st[d] = "stall" THEN "new" ELSE "no"]

\* Since when the torrents are stalled: the mark of the last run is kept.
Stalled == [d \in Download |->
              IF d \notin Torrent \cap Items \/ st[d] # "stall" THEN "no"
              ELSE IF file.stalled[d] = "no" THEN "new" ELSE file.stalled[d]]

\* The first series that has not stalled for long has the line to itself.
Waits == {d \in Items \cap Tv : Stalled[d] # "old"}
Turn == {d \in Waits : \A e \in Waits : Place[d] <= Place[e]}

Resumed == (urgent \cap nightly)
           \cup (IF lowSeen THEN (Items \ Tv) \cup Turn ELSE {})
Paused(grace) == IF lowSeen THEN Waits \ Turn ELSE Items \ grace

\* Mutant: the margin is never reached.
Holds_On == diskSeen = "low" \/ file.held # {}

\* disk_hold: under the minimum, and until the margin is reached, no torrent
\* is started and those that download are stopped.
Holds == diskSeen = "low" \/ (file.held # {} /\ diskSeen = "mid")

\* Mutant: the torrents of the night are restarted with the others.
Restarted_All == {d \in file.held : st[d] = "paused"}
Restarted == {d \in file.held \ nightly : st[d] = "paused"}

\* Mutant: only the torrents that are stopped now are remembered.
Held_Now(hold, known, running) == IF hold THEN running ELSE IF known THEN {} ELSE file.held
Held(hold, known, running) ==
  IF hold THEN file.held \cup running ELSE IF known THEN {} ELSE file.held

\* plan and disk_hold, on the clients as they are now.
Plan ==
  /\ pc = "plan"
  /\ pc' = "act"
  /\ \E grace \in SUBSET {d \in Items : st[d] = "run"} :
       LET known == diskSeen # "unknown"
           on == {d \in Resumed : st[d] = "paused"}
           off == {d \in Paused(grace) : Active(d)}
           running == {d \in Torrent : Active(d)}
           hold == known /\ Holds
       IN /\ calls' = [start |-> IF hold THEN {} ELSE
                                   (on \cap Torrent) \cup (IF known THEN Restarted ELSE {}),
                       stop |-> (off \cap Torrent) \cup (IF hold THEN running ELSE {}),
                       resume |-> on \cap Nzb, pause |-> off \cap Nzb]
          /\ next' = [stalled |-> Stalled, held |-> Held(hold, known, running)]
  /\ diskSeen' = "unknown"
  /\ UNCHANGED <<world, file, urgent, queued, searching, mute, lowSeen, drop, history, acts, faults>>

\* A client that does not answer ends the run.
NoClient ==
  /\ pc = "plan" /\ Fault
  /\ End
  /\ UNCHANGED <<world, file, stopped, lost, acts>>

Order == <<"start", "stop", "resume", "pause">>
Now(c) == calls[c] # {} /\ \A i, j \in 1 .. 4 : i < j /\ Order[j] = c => calls[Order[i]] = {}

Set(S, to) == st' = [d \in Download |-> IF d \in S /\ Queued(d) THEN to ELSE st[d]]
Apply(c, S) ==
  /\ Set(S, IF c \in {"start", "resume"} THEN "run" ELSE "paused")
  /\ stopped' = IF c = "stop" THEN stopped \cup {d \in (S \cap next.held) \ nightly : Queued(d)}
                ELSE stopped \ S

\* A download that was planned to wait and has left the night since is paused,
\* and nobody starts it.
Overtaken(c, S) ==
  IF c \in {"stop", "pause"} THEN {d \in S \ (nightly \cup next.held) : Queued(d)} ELSE {}

\* One call for all torrents, one per nzb.
Call(c) ==
  /\ pc = "act" /\ Now(c)
  /\ Apply(c, calls[c])
  /\ lost' = lost \cup Overtaken(c, calls[c])
  /\ calls' = [calls EXCEPT ![c] = {}]
  /\ UNCHANGED <<nightly, low, disk, tag, search, searched, file, pc, read, next, drop, began, acts, faults>>

\* A call fails, before or after it took effect, and the others are left out.
CallFails(c) ==
  /\ pc = "act" /\ Now(c) /\ Fault
  /\ \E S \in SUBSET calls[c] :
       /\ S \in {{}, calls[c]} \/ c \in {"resume", "pause"}
       /\ Apply(c, S)
       /\ lost' = lost \cup Overtaken(c, S) \cup (IF c = "start" THEN stopped' \ next.held ELSE {})
  /\ calls' = NoCalls
  /\ UNCHANGED <<nightly, low, disk, tag, search, searched, file, pc, read, next, drop, began, acts>>

\* The state file.  What the run does not look at again is forgotten.
WriteState ==
  /\ pc = "act" /\ calls = NoCalls
  /\ pc' = "revert" /\ file' = next
  /\ next' = NoFile /\ urgent' = {} /\ lowSeen' = FALSE
  /\ UNCHANGED <<world, queued, searching, mute, diskSeen, calls, drop, history, acts, faults>>

\* Mutant: an app that did not answer has no search.
Unfound_Open(d) == d \in tag /\ d \notin queued \cup searching /\ st[d] # "done" /\ d \in searched

\* revert_unfound: of the titles that are tagged now, those that have been
\* searched and have no file now, and had no download and no search when the
\* run began; only of an app whose searches it knows.
Unfound(d) == d \in tag /\ d \notin queued \cup searching /\ app(d) \notin mute
              /\ st[d] # "done" /\ d \in searched

Revert ==
  /\ pc = "revert"
  /\ pc' = "untag" /\ drop' = {d \in Download : Unfound(d)}
  /\ queued' = {} /\ searching' = {} /\ mute' = {}
  /\ UNCHANGED <<world, file, urgent, lowSeen, diskSeen, calls, next, history, acts, faults>>

\* One call per app; one that fails may have done it, and ends the revert.
Untag ==
  /\ pc = "untag"
  /\ \/ tag' = tag \ drop /\ UNCHANGED faults
     \/ \E A \in SUBSET App : tag' = tag \ {d \in drop : app(d) \in A} /\ Fault
  /\ End
  /\ UNCHANGED <<st, nightly, low, disk, search, searched, file, stopped, lost, acts>>

\* A power cut, or the end of the service.
Kill ==
  /\ pc # "off" /\ Fault
  /\ End
  /\ lost' = lost \cup (stopped \ file.held)
  /\ UNCHANGED <<world, file, stopped, acts>>

Run == ReadCommands \/ Plan \/ WriteState \/ Revert \/ Untag \/ \E c \in DOMAIN NoCalls : Call(c)

-----------------------------------------------------------------------------
(* Users, searches, clients, time. *)

script == <<pc, read, plan, file, stopped>>
Act == acts < MaxAct /\ acts' = acts + 1 /\ UNCHANGED <<script, low, disk>>
Still == UNCHANGED <<script, lost, acts, faults>>

\* Of a run that is under way, what begins when it has read that already.
Begun(d) == IF pc = "off" THEN {} ELSE {d}

\* A request of a title that is there tags it, and no more.
RequestTag(d) ==
  /\ d \notin tag /\ Queued(d) /\ Act
  /\ tag' = tag \cup {d}
  /\ UNCHANGED <<st, nightly, search, searched, lost, began, faults>>

\* Download now of a download of the night: the tag, the category, the start.  A
\* call that fails leaves out the rest.
Release(d) ==
  /\ d \in nightly /\ Queued(d) /\ Act
  /\ tag' = tag \cup {d}
  /\ \/ nightly' = nightly \ {d} /\ st' = [st EXCEPT ![d] = IF @ = "paused" THEN "run" ELSE @]
        /\ UNCHANGED <<lost, faults>>
     \/ nightly' \in {nightly, nightly \ {d}} /\ Fault
        /\ lost' = lost \cup {e \in nightly \ nightly' : st[e] = "paused"} /\ UNCHANGED st
  /\ UNCHANGED <<search, searched, began>>

\* Download now of a missing title: the tag and a search, which is left out when
\* there was one a short while ago, or when a call fails.
SearchNow(d) ==
  /\ st[d] = "none" /\ Act
  /\ tag' = tag \cup {d}
  /\ search' \in {search, search \cup {d}} /\ (search' # search \/ d \notin tag)
  /\ began' = IF search' = search \/ pc = "commands" THEN began ELSE began \cup Begun(d)
  /\ UNCHANGED <<st, nightly, searched, lost, faults>>

\* A search ends; what it grabs is added paused, if it can wait.
SearchEnds(d) ==
  /\ d \in search /\ Still
  /\ search' = search \ {d} /\ searched' = searched \cup {d}
  /\ \/ UNCHANGED <<st, nightly, began>>
     \/ /\ nightly' = IF d \in Night \ tag THEN nightly \cup {d} ELSE nightly
        /\ st' = [st EXCEPT ![d] = IF d \in nightly' THEN "paused" ELSE "run"]
        /\ began' = began \cup Begun(d)
  /\ UNCHANGED <<low, disk, tag>>

\* The download is thrown away: a failed release.  Its hash is unknown to the
\* client from then on; what a later search grabs has another.
Cancel(d) ==
  /\ Queued(d) /\ acts < MaxAct /\ acts' = acts + 1
  /\ st' = [st EXCEPT ![d] = "none"] /\ nightly' = nightly \ {d}
  /\ calls' = [c \in DOMAIN calls |-> calls[c] \ {d}]
  /\ file' = [file EXCEPT !.held = @ \ {d}, !.stalled[d] = "no"]
  /\ next' = [next EXCEPT !.held = @ \ {d}, !.stalled[d] = "no"]
  /\ stopped' = stopped \ {d} /\ lost' = lost \ {d} /\ urgent' = urgent \ {d}
  /\ UNCHANGED <<low, disk, tag, search, searched, pc, queued, searching, mute, lowSeen, diskSeen, drop, began, faults>>

Finish(d) ==
  /\ st[d] = "run" /\ d \notin Dead /\ Still
  /\ st' = [st EXCEPT ![d] = "done"]
  /\ UNCHANGED <<nightly, low, disk, tag, search, searched, began>>

Stall(d) ==
  /\ d \in Dead /\ st[d] = "run" /\ Still
  /\ st' = [st EXCEPT ![d] = "stall"]
  /\ UNCHANGED <<nightly, low, disk, tag, search, searched, began>>

\* STALL_MIN goes by.
LongStalled(d) ==
  /\ file.stalled[d] = "new"
  /\ file' = [file EXCEPT !.stalled[d] = "old"]
  /\ next' = IF next.stalled[d] = "new" THEN [next EXCEPT !.stalled[d] = "old"] ELSE next
  /\ UNCHANGED <<world, pc, read, calls, drop, history, acts, faults>>

DownloadsStay == UNCHANGED <<st, nightly, tag, search, searched, script, lost, began, faults>>
Dusk == ~low /\ low' = TRUE /\ DownloadsStay /\ UNCHANGED <<disk, acts>>
Dawn == low /\ low' = FALSE /\ acts < MaxAct /\ acts' = acts + 1 /\ DownloadsStay /\ UNCHANGED disk

Fill == disk # "low" /\ disk' = "low" /\ acts < MaxAct /\ acts' = acts + 1 /\ DownloadsStay /\ UNCHANGED low
Clear == disk # "ok" /\ disk' = (IF disk = "low" THEN "mid" ELSE "ok") /\ DownloadsStay /\ UNCHANGED <<low, acts>>

Time == Dusk \/ Clear \/ \E d \in Download : Finish(d) \/ Stall(d) \/ LongStalled(d)
World == Dawn \/ Fill \/ \E d \in Download :
           RequestTag(d) \/ Release(d) \/ SearchNow(d) \/ SearchEnds(d) \/ Cancel(d)

Next == \/ ReadQueues \/ Run \/ NoClient \/ Kill \/ Time \/ World
        \/ \E c \in DOMAIN NoCalls : CallFails(c)

Spec == Init /\ [][Next]_vars

\* The timer runs every two minutes, after nights that were too short there is
\* one that is long enough, space is made, and few calls fail.
Fairness ==
  WF_vars(UNCHANGED faults /\ (ReadQueues \/ Run)) /\ WF_vars(Time)

FairSpec == Spec /\ Fairness

-----------------------------------------------------------------------------
(* Properties. *)

TypeOK ==
  /\ st \in [Download -> State] /\ nightly \subseteq Download /\ low \in BOOLEAN /\ disk \in {"low", "mid", "ok"}
  /\ tag \subseteq Download /\ search \subseteq Download /\ searched \subseteq Download
  /\ {file, next} \subseteq [stalled : [Download -> Since], held : SUBSET Torrent]
  /\ pc \in {"off", "commands", "plan", "act", "revert", "untag"}
  /\ urgent \subseteq Download /\ queued \subseteq Download /\ searching \subseteq Download
  /\ mute \subseteq App /\ lowSeen \in BOOLEAN /\ diskSeen \in {"low", "mid", "ok", "unknown"}
  /\ calls \in [start : SUBSET Torrent, stop : SUBSET Torrent, resume : SUBSET Nzb, pause : SUBSET Nzb]
  /\ drop \subseteq Download /\ began \subseteq Download /\ stopped \subseteq Torrent /\ lost \subseteq Download
  /\ acts \in 0 .. MaxAct /\ faults \in 0 .. MaxFault

\* A torrent that the disk hold has stopped is in the state file of the next
\* run, so that it is restarted (night-downloads.py:6).  The exceptions are
\* the code's own: a run that dies between the stop and the file, and a failed
\* restart, whose torrents the file no longer names.
NightInv == TypeOK /\ (pc = "off" => stopped \subseteq file.held \cup lost)

\* They run again in the end, all of them but for those.
HeldRuns == stopped \ lost # {} ~> stopped \subseteq lost

\* The run starts nothing of the night outside of the low tariff, unless it is
\* wanted now; not after a full disk either.
StartsAtNight ==
  [][\A d \in nightly' : pc = "act" /\ st[d] = "paused" /\ st'[d] = "run" => lowSeen \/ d \in urgent]_vars

\* "Searched, nothing queued, no search running, no file"
\* (night-downloads.py:5): a title whose tag the run takes has been searched and,
\* in the step that takes it, has no file, no download and no search, also when
\* an app did not answer.  The exception is the code's own, which asks for
\* downloads and searches once: what began after that.
TagStays ==
  [][\A d \in tag \ tag' : d \in searched /\ ((st[d] = "none" /\ d \notin search) \/ d \in began)]_vars

\* What can wait comes in the end: a film, and every episode in its turn, also
\* behind a torrent that has no peers.  The exceptions are downloads that a
\* press of download now took out of the night and left paused.
NightComes == \A d \in Night \ Dead : st[d] = "paused" ~> st[d] \in {"done", "none"} \/ d \in lost

-----------------------------------------------------------------------------
(* The inductive invariant behind them. *)

\* What the disk hold has stopped is still paused, and is known to the state
\* file; until that is written, to the state to come, or it is about to start.
HeldInv ==
  /\ \A d \in stopped : d \notin nightly /\ st[d] = "paused"
  /\ \A d \in search : st[d] = "none"
  /\ stopped \subseteq lost \cup (IF pc = "act" THEN next.held \cup calls.start ELSE file.held)

\* The calls to come start only what the tariff that was read allows, and no
\* download that is gone.
CallsInv ==
  /\ pc = "act" /\ ~lowSeen => (calls.start \cup calls.resume) \cap nightly \subseteq urgent
  /\ \A d \in calls.start \cup calls.resume : st[d] # "none"

\* What is there is known to the run, or its app was mute, or it has begun since.
KnownInv ==
  /\ pc = "commands" => \A d \in Download : Queued(d) => d \in queued \cup began \/ app(d) \in mute
  /\ pc \in {"plan", "act", "revert"} => \A d \in Download :
       Queued(d) \/ d \in search => d \in queued \cup searching \cup began \/ app(d) \in mute
  /\ pc = "untag" => \A d \in drop :
       d \in searched /\ ((st[d] = "none" /\ d \notin search) \/ d \in began)

NightIInv == TypeOK /\ HeldInv /\ CallsInv /\ KnownInv
=============================================================================
