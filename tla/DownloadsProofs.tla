--------------------------- MODULE DownloadsProofs ---------------------------
(***************************************************************************)
(* What is proved of the programs around the downloads: NightDownloads,    *)
(* QueueWatchdog and DownloadScan, each for every value of its constants.  *)
(***************************************************************************)
EXTENDS NightDownloads, QueueWatchdog, DownloadScan, FiniteSetTheorems, TLAPS

-----------------------------------------------------------------------------
(* NightDownloads. *)

Command == {"start", "stop", "resume", "pause"}
Calls == [start : SUBSET Torrent, stop : SUBSET Torrent, resume : SUBSET Nzb, pause : SUBSET Nzb]
StateFile == [stalled : [Download -> Since], held : SUBSET Torrent]

\* The four calls.
LEMMA CommandNames == DOMAIN NoCalls = Command
  BY DEF NoCalls, Command

\* The calls that are left when one of them is made.
LEMMA CallsLeft ==
  ASSUME NEW k \in Calls, NEW c \in Command
  PROVE  /\ [k EXCEPT ![c] = {}] \in Calls
         /\ [k EXCEPT ![c] = {}].start \subseteq k.start /\ [k EXCEPT ![c] = {}].resume \subseteq k.resume
         /\ c # "start" => [k EXCEPT ![c] = {}].start = k.start
         /\ k[c] \subseteq Download
  BY DEF Calls, Command, Download

\* The calls that are left when a download is gone.
LEMMA CallsWithout ==
  ASSUME NEW k \in Calls, NEW d \in Download
  PROVE  /\ [c \in DOMAIN k |-> k[c] \ {d}] \in Calls
         /\ [c \in DOMAIN k |-> k[c] \ {d}].start = k.start \ {d}
         /\ [c \in DOMAIN k |-> k[c] \ {d}].resume = k.resume \ {d}
<1> DEFINE r == [c \in DOMAIN k |-> k[c] \ {d}]
           s == [start |-> k.start \ {d}, stop |-> k.stop \ {d},
                 resume |-> k.resume \ {d}, pause |-> k.pause \ {d}]
<1>1. DOMAIN k = Command
  BY DEF Calls, Command
<1>2. r = s
  BY <1>1 DEF Command
<1>3. s \in Calls
  BY DEF Calls
<1> HIDE DEF r
<1>4. r \in Calls /\ r.start = k.start \ {d} /\ r.resume = k.resume \ {d}
  BY <1>2, <1>3
<1> QED
  BY <1>4 DEF r

\* A state file of which a download is gone.
LEMMA FileWithout ==
  ASSUME NEW f \in StateFile, NEW d \in Download
  PROVE  /\ [f EXCEPT !.held = @ \ {d}, !.stalled[d] = "no"] \in StateFile
         /\ [f EXCEPT !.held = @ \ {d}, !.stalled[d] = "no"].held = f.held \ {d}
         /\ [f EXCEPT !.stalled[d] = "old"] \in StateFile
         /\ [f EXCEPT !.stalled[d] = "old"].held = f.held
<1> DEFINE no == [f.stalled EXCEPT ![d] = "no"]
           old == [f.stalled EXCEPT ![d] = "old"]
<1>1. no \in [Download -> Since] /\ old \in [Download -> Since]
  BY DEF StateFile, Since
<1>2. /\ [f EXCEPT !.held = @ \ {d}, !.stalled[d] = "no"] = [f EXCEPT !.held = f.held \ {d}, !.stalled = no]
      /\ [f EXCEPT !.stalled[d] = "old"] = [f EXCEPT !.stalled = old]
  BY DEF StateFile
<1> HIDE DEF no, old
<1>3. /\ [f EXCEPT !.held = f.held \ {d}, !.stalled = no] \in StateFile
      /\ [f EXCEPT !.held = f.held \ {d}, !.stalled = no].held = f.held \ {d}
      /\ [f EXCEPT !.stalled = old] \in StateFile
      /\ [f EXCEPT !.stalled = old].held = f.held
  BY <1>1 DEF StateFile
<1> QED
  BY <1>2, <1>3

\* What the plan is.
LEMMA PlanMade ==
  ASSUME TypeOK, Plan
  PROVE  /\ calls' \in Calls /\ next' \in StateFile
         /\ ~lowSeen => (calls'.start \cup calls'.resume) \cap nightly \subseteq urgent
         /\ \A d \in calls'.start \cup calls'.resume : st[d] = "paused"
         /\ \A d \in file.held \ nightly : st[d] = "paused" => d \in next'.held \cup calls'.start
<1> USE NightAssumption
<1>1. /\ urgent \subseteq Download /\ st \in [Download -> State] /\ file \in StateFile
  BY DEF TypeOK, StateFile
<1> DEFINE known == diskSeen # "unknown"
           on == {d \in Resumed : st[d] = "paused"}
           running == {d \in Torrent : Active(d)}
           hold == known /\ Holds
           go == IF hold THEN {} ELSE (on \cap Torrent) \cup (IF known THEN Restarted ELSE {})
           held == Held(hold, known, running)
<1>2. PICK grace \in SUBSET {d \in Items : st[d] = "run"} :
        /\ calls' = [start |-> go,
                     stop |-> ({d \in Paused(grace) : Active(d)} \cap Torrent) \cup (IF hold THEN running ELSE {}),
                     resume |-> on \cap Nzb, pause |-> {d \in Paused(grace) : Active(d)} \cap Nzb]
        /\ next' = [stalled |-> Stalled, held |-> held]
  BY DEF Plan
<1> DEFINE off == {d \in Paused(grace) : Active(d)}
           halt == (off \cap Torrent) \cup (IF hold THEN running ELSE {})
<1>3. /\ calls' = [start |-> go, stop |-> halt, resume |-> on \cap Nzb, pause |-> off \cap Nzb]
      /\ next' = [stalled |-> Stalled, held |-> held]
  BY <1>2
<1>4. /\ Restarted \subseteq Torrent \ nightly /\ \A d \in Restarted : st[d] = "paused"
      /\ \A d \in file.held \ nightly : st[d] = "paused" => d \in Restarted
  BY <1>1 DEF Restarted, StateFile
<1>5. go \subseteq Torrent /\ halt \subseteq Torrent /\ held \subseteq Torrent
  BY <1>1, <1>4 DEF Held, StateFile
<1>6. Stalled \in [Download -> Since]
  BY <1>1 DEF Stalled, Since, StateFile
<1>7. ~lowSeen => on \cap nightly \subseteq urgent
  BY DEF Resumed
<1>8. ~lowSeen => (go \cup (on \cap Nzb)) \cap nightly \subseteq urgent
  BY <1>4, <1>7
<1>9. \A d \in file.held \ nightly : st[d] = "paused" => d \in held \cup go
  BY <1>4 DEF Held
<1>10. \A d \in go \cup (on \cap Nzb) : st[d] = "paused"
  BY <1>4
<1> HIDE DEF on, off, go, halt, held
<1> QED
  BY <1>3, <1>5, <1>6, <1>8, <1>9, <1>10 DEF Calls, StateFile

\* What a call does to the downloads.
LEMMA Applied ==
  ASSUME TypeOK, NEW c \in Command, NEW S \in SUBSET Download, Apply(c, S)
  PROVE  /\ st' \in [Download -> State] /\ stopped' \subseteq Torrent
         /\ stopped' \subseteq IF c = "stop" THEN stopped \cup ((S \cap next.held) \ nightly) ELSE stopped \ S
         /\ \A d \in Download : st[d] = "none" => st'[d] = "none"
         /\ \A d \in Download : st'[d] # st[d] => d \in S /\ Queued(d) /\ st'[d] # "none"
         /\ \A d \in Download : c \notin {"start", "resume"} /\ st[d] = "paused" => st'[d] = "paused"
         /\ c = "stop" => \A d \in stopped' \ stopped : st'[d] = "paused"
<1>1. st \in [Download -> State] /\ stopped \subseteq Torrent /\ next.held \subseteq Torrent
  BY DEF TypeOK
<1>2. st' = [d \in Download |-> IF d \in S /\ Queued(d)
                               THEN (IF c \in {"start", "resume"} THEN "run" ELSE "paused")
                               ELSE st[d]]
  BY DEF Apply, Set
<1>3. stopped' = IF c = "stop" THEN stopped \cup {d \in (S \cap next.held) \ nightly : Queued(d)}
                 ELSE stopped \ S
  BY DEF Apply
<1>4. Torrent \subseteq Download
  BY DEF Download
<1>5. st' \in [Download -> State]
  BY <1>1, <1>2 DEF State
<1>6. stopped' \subseteq Torrent
  BY <1>1, <1>3
<1>7. \A d \in Download : /\ st[d] = "none" => st'[d] = "none"
                          /\ st'[d] # st[d] => d \in S /\ Queued(d) /\ st'[d] # "none"
                          /\ c \notin {"start", "resume"} /\ st[d] = "paused" => st'[d] = "paused"
  BY <1>2 DEF Queued
<1>8. c = "stop" => \A d \in stopped' \ stopped : st'[d] = "paused"
  BY <1>1, <1>2, <1>3, <1>4
<1> QED
  BY <1>3, <1>5, <1>6, <1>7, <1>8

\* Every step keeps the types.
LEMMA NightTypeStep ==
  ASSUME TypeOK, [Next]_vars PROVE TypeOK'
<1> USE NightAssumption DEF TypeOK, world, read, plan, history, script, End, Act, Still, Fault, NoCalls,
       NoFile
<1>1. ASSUME ReadQueues PROVE TypeOK'
  BY <1>1 DEF ReadQueues, App
<1>2. ASSUME ReadCommands PROVE TypeOK'
  BY <1>2 DEF ReadCommands
<1>3. ASSUME Plan PROVE TypeOK'
  <2>1. calls' \in Calls /\ next' \in StateFile
    BY <1>3, PlanMade
  <2> QED
    BY <1>3, <2>1 DEF Plan, Calls, StateFile
<1>4. ASSUME WriteState PROVE TypeOK'
  <2>1. file' \in StateFile /\ next' \in StateFile
    BY <1>4 DEF WriteState, StateFile, Since
  <2> QED
    BY <1>4, <2>1 DEF WriteState, StateFile
<1>5. ASSUME Revert PROVE TypeOK'
  BY <1>5 DEF Revert
<1>6. ASSUME Untag PROVE TypeOK'
  <2>1. next' \in StateFile /\ calls' \in Calls
    BY <1>6 DEF Untag, StateFile, Since, Calls
  <2>2. faults' \in 0 .. MaxFault /\ acts' \in 0 .. MaxAct
    BY <1>6 DEF Untag
  <2>3. /\ pc' \in {"off", "commands", "plan", "act", "revert", "untag"}
        /\ urgent' \subseteq Download /\ queued' \subseteq Download /\ searching' \subseteq Download
        /\ mute' \subseteq App /\ lowSeen' \in BOOLEAN /\ diskSeen' = "unknown" /\ drop' \subseteq Download /\ began' \subseteq Download
    BY <1>6 DEF Untag
  <2>4. /\ UNCHANGED <<st, nightly, low, disk, search, searched, stopped>> /\ tag' \subseteq Download
        /\ lost' \subseteq Download /\ file' \in StateFile
    BY <1>6 DEF Untag, StateFile
  <2> QED
    BY <2>1, <2>2, <2>3, <2>4 DEF StateFile, Calls
<1>7. ASSUME NEW c \in Command, Call(c) PROVE TypeOK'
  <2>1. calls \in Calls /\ calls[c] \in SUBSET Download /\ st' \in [Download -> State]
        /\ stopped' \subseteq Torrent
    <3>1. calls \in Calls
      BY DEF Calls
    <3>2. calls[c] \in SUBSET Download /\ Apply(c, calls[c])
      BY <1>7, <3>1, CallsLeft DEF Call
    <3> QED
      BY <3>1, <3>2, Applied
  <2>2. calls' \in Calls
    BY <1>7, <2>1, CallsLeft DEF Call
  <2>3. lost' \subseteq Download
    BY <1>7, <2>1 DEF Call, Overtaken
  <2> QED
    BY <1>7, <2>1, <2>2, <2>3 DEF Call, Calls
<1>8. ASSUME NoClient PROVE TypeOK'
  <2>1. next' \in StateFile /\ calls' \in Calls
    BY <1>8 DEF NoClient, StateFile, Since, Calls
  <2>2. faults' \in 0 .. MaxFault /\ acts' \in 0 .. MaxAct
    BY <1>8 DEF NoClient
  <2>3. /\ pc' \in {"off", "commands", "plan", "act", "revert", "untag"}
        /\ urgent' \subseteq Download /\ queued' \subseteq Download /\ searching' \subseteq Download
        /\ mute' \subseteq App /\ lowSeen' \in BOOLEAN /\ diskSeen' = "unknown" /\ drop' \subseteq Download /\ began' \subseteq Download
    BY <1>8 DEF NoClient
  <2>4. /\ UNCHANGED <<st, nightly, low, disk, search, searched, stopped>> /\ tag' \subseteq Download
        /\ lost' \subseteq Download /\ file' \in StateFile
    BY <1>8 DEF NoClient, StateFile
  <2> QED
    BY <2>1, <2>2, <2>3, <2>4 DEF StateFile, Calls
<1>9. ASSUME Kill PROVE TypeOK'
  <2>1. next' \in StateFile /\ calls' \in Calls
    BY <1>9 DEF Kill, StateFile, Since, Calls
  <2>2. faults' \in 0 .. MaxFault /\ acts' \in 0 .. MaxAct
    BY <1>9 DEF Kill
  <2>3. /\ pc' \in {"off", "commands", "plan", "act", "revert", "untag"}
        /\ urgent' \subseteq Download /\ queued' \subseteq Download /\ searching' \subseteq Download
        /\ mute' \subseteq App /\ lowSeen' \in BOOLEAN /\ diskSeen' = "unknown" /\ drop' \subseteq Download /\ began' \subseteq Download
    BY <1>9 DEF Kill
  <2>4. /\ UNCHANGED <<st, nightly, low, disk, search, searched, stopped>> /\ tag' \subseteq Download
        /\ lost' \subseteq Download /\ file' \in StateFile
    BY <1>9 DEF Kill, StateFile, Download
  <2> QED
    BY <2>1, <2>2, <2>3, <2>4 DEF StateFile, Calls
<1>10. ASSUME Dusk PROVE TypeOK'
  BY <1>10 DEF Dusk, DownloadsStay
<1>11. ASSUME Clear PROVE TypeOK'
  BY <1>11 DEF Clear, DownloadsStay
<1>12. ASSUME NEW d \in Download, Finish(d) PROVE TypeOK'
  BY <1>12 DEF Finish, State
<1>13. ASSUME NEW d \in Download, Stall(d) PROVE TypeOK'
  BY <1>13 DEF Stall, State
<1>14. ASSUME NEW d \in Download, LongStalled(d) PROVE TypeOK'
  <2>1. file \in StateFile /\ next \in StateFile
    BY DEF StateFile
  <2>2. file' \in StateFile /\ next' \in StateFile
    BY <1>14, <2>1, FileWithout DEF LongStalled
  <2> QED
    BY <1>14, <2>2 DEF LongStalled, StateFile
<1>15. ASSUME Dawn PROVE TypeOK'
  <2>1. low' \in BOOLEAN /\ UNCHANGED <<st, nightly, disk, tag, search, searched, script, lost, began, faults>>
    BY <1>15 DEF Dawn, DownloadsStay
  <2>2. acts' \in 0 .. MaxAct
    BY <1>15 DEF Dawn
  <2> QED
    BY <2>1, <2>2
<1>16. ASSUME Fill PROVE TypeOK'
  BY <1>16 DEF Fill, DownloadsStay
<1>17. ASSUME NEW d \in Download, RequestTag(d) \/ Release(d) \/ SearchNow(d) PROVE TypeOK'
  <2>1. CASE RequestTag(d)
    BY <2>1 DEF RequestTag
  <2>2. CASE Release(d)
    BY <2>2 DEF Release, State
  <2>3. CASE SearchNow(d)
    BY <2>3 DEF SearchNow, Begun
  <2> QED
    BY <1>17, <2>1, <2>2, <2>3
<1>18. ASSUME NEW d \in Download, SearchEnds(d) PROVE TypeOK'
  BY <1>18 DEF SearchEnds, State, Begun
<1>19. ASSUME NEW d \in Download, Cancel(d) PROVE TypeOK'
  <2>1. calls \in Calls /\ file \in StateFile /\ next \in StateFile
    BY DEF Calls, StateFile
  <2>2. calls' \in Calls /\ file' \in StateFile /\ next' \in StateFile
    <3> HIDE DEF TypeOK
    <3>1. /\ calls' = [c \in DOMAIN calls |-> calls[c] \ {d}]
          /\ file' = [file EXCEPT !.held = @ \ {d}, !.stalled[d] = "no"]
          /\ next' = [next EXCEPT !.held = @ \ {d}, !.stalled[d] = "no"]
      BY <1>19 DEF Cancel
    <3> QED
      BY <2>1, <3>1, CallsWithout, FileWithout
  <2>3. st' \in [Download -> State]
    BY <1>19 DEF Cancel, State
  <2> QED
    BY <1>19, <2>2, <2>3 DEF Cancel, Calls, StateFile
<1>20. ASSUME NEW c \in Command, CallFails(c) PROVE TypeOK'
  <2>1. calls \in Calls /\ calls[c] \in SUBSET Download
    <3>1. calls \in Calls
      BY DEF Calls
    <3> QED
      BY <3>1, CallsLeft
  <2>2. PICK S \in SUBSET calls[c] :
          /\ Apply(c, S)
          /\ lost' = lost \cup Overtaken(c, S) \cup (IF c = "start" THEN stopped' \ next.held ELSE {})
    BY <1>20 DEF CallFails
  <2>3. st' \in [Download -> State] /\ stopped' \subseteq Torrent
    BY <2>1, <2>2, Applied
  <2>4. lost' \subseteq Download /\ faults' \in 0 .. MaxFault /\ calls' \in Calls
    BY <1>20, <2>1, <2>2, <2>3 DEF CallFails, Overtaken, Calls, Download
  <2> QED
    BY <1>20, <2>3, <2>4 DEF CallFails, Calls
<1>21. ASSUME UNCHANGED vars PROVE TypeOK'
  BY <1>21 DEF vars
<1> QED
  BY CommandNames, <1>1, <1>2, <1>3, <1>4, <1>5, <1>6, <1>7, <1>8, <1>9, <1>10, <1>11, <1>12, <1>13, <1>14,
         <1>15, <1>16, <1>17, <1>18, <1>19, <1>20, <1>21 DEF Next, Run, Time, World

\* What the disk hold has stopped is paused after a call, too.
LEMMA StoppedStays ==
  ASSUME TypeOK, HeldInv, NEW c \in Command,
         NEW S \in SUBSET Download, Apply(c, S)
  PROVE  \A d \in stopped' : d \notin nightly /\ st'[d] = "paused"
<1>1. /\ stopped \subseteq Download /\ stopped \subseteq Torrent
      /\ \A d \in stopped : d \notin nightly /\ st[d] = "paused"
  BY DEF TypeOK, Download, HeldInv
<1>2. CASE c = "stop"
  <2>1. stopped' \subseteq stopped \cup ((S \cap next.held) \ nightly)
    BY <1>2, Applied
  <2>2. \A d \in stopped : st'[d] = "paused"
    BY <1>1, <1>2, Applied
  <2>3. \A d \in stopped' \ stopped : st'[d] = "paused"
    BY <1>2, Applied
  <2> QED
    BY <1>1, <2>1, <2>2, <2>3
<1>3. CASE c # "stop"
  <2>1. stopped' \subseteq stopped \ S
    BY <1>3, Applied
  <2>2. \A d \in stopped \ S : st'[d] = "paused"
    BY <1>1, Applied
  <2> QED
    BY <1>1, <2>1, <2>2
<1> QED
  BY <1>2, <1>3

\* A torrent that the disk hold has stopped stays known to a file.
LEMMA NightHeldStep ==
  ASSUME TypeOK, HeldInv, [Next]_vars PROVE HeldInv'
<1> USE NightAssumption DEF HeldInv, world, read, plan, history, script, End, Act, Still, Fault, NoCalls,
       NoFile
<1>1. ASSUME ReadQueues PROVE HeldInv'
  BY <1>1 DEF ReadQueues
<1>2. ASSUME ReadCommands PROVE HeldInv'
  BY <1>2 DEF ReadCommands
<1>3. ASSUME Plan PROVE HeldInv'
  <2>1. \A d \in file.held \ nightly : st[d] = "paused" => d \in next'.held \cup calls'.start
    BY <1>3, PlanMade
  <2>2. pc = "plan" /\ pc' = "act" /\ UNCHANGED <<st, nightly, search, stopped, lost>>
    BY <1>3 DEF Plan
  <2> QED
    BY <2>1, <2>2
<1>4. ASSUME WriteState PROVE HeldInv'
  <2>1. calls.start = {} /\ file' = next /\ pc = "act" /\ pc' = "revert"
        /\ UNCHANGED <<st, nightly, search, stopped, lost>>
    BY <1>4 DEF WriteState
  <2> QED
    BY <2>1
<1>5. ASSUME Revert PROVE HeldInv'
  BY <1>5 DEF Revert
<1>6. ASSUME Untag PROVE HeldInv'
  BY <1>6 DEF Untag
<1>7. ASSUME NEW c \in Command, Call(c) PROVE HeldInv'
  <2>1. calls \in Calls /\ calls[c] \in SUBSET Download /\ st \in [Download -> State]
        /\ stopped \subseteq Torrent /\ search \subseteq Download
    BY CallsLeft DEF Calls, TypeOK
  <2>2. Apply(c, calls[c])
    BY <1>7 DEF Call
  <2>3. pc = "act" /\ UNCHANGED <<pc, nightly, search, next, file>> /\ calls' = [calls EXCEPT ![c] = {}]
        /\ lost \subseteq lost'
    BY <1>7 DEF Call
  <2>4. calls'.start = IF c = "start" THEN {} ELSE calls.start
    BY <2>1, <2>3 DEF Calls, Command
  <2>5. c = "start" => calls.start = calls[c]
    BY <2>1 DEF Calls
  <2>6. stopped' \subseteq stopped \cup (next.held \ nightly)
        /\ (c = "start" => stopped' \subseteq stopped \ calls.start)
    BY <2>1, <2>2, <2>5, Applied
  <2>7. \A d \in stopped' : d \notin nightly /\ st'[d] = "paused"
    BY <2>1, <2>2, <2>6, StoppedStays
  <2>8. \A d \in search : st'[d] = "none"
    BY <2>1, <2>2, Applied
  <2> QED
    BY <2>3, <2>4, <2>6, <2>7, <2>8
<1>8. ASSUME NoClient PROVE HeldInv'
  BY <1>8 DEF NoClient
<1>9. ASSUME Kill PROVE HeldInv'
  BY <1>9 DEF Kill
<1>10. ASSUME Dusk PROVE HeldInv'
  BY <1>10 DEF Dusk, DownloadsStay
<1>11. ASSUME Clear PROVE HeldInv'
  BY <1>11 DEF Clear, DownloadsStay
<1>12. ASSUME NEW d \in Download, Finish(d) PROVE HeldInv'
  <2>1. st \in [Download -> State] /\ stopped \subseteq Download /\ search \subseteq Download
    BY DEF TypeOK, Download
  <2> QED
    BY <1>12, <2>1 DEF Finish
<1>13. ASSUME NEW d \in Download, Stall(d) PROVE HeldInv'
  <2>1. st \in [Download -> State] /\ stopped \subseteq Download /\ search \subseteq Download
    BY DEF TypeOK, Download
  <2> QED
    BY <1>13, <2>1 DEF Stall
<1>14. ASSUME NEW d \in Download, LongStalled(d) PROVE HeldInv'
  <2>1. file \in StateFile /\ next \in StateFile
    BY DEF StateFile, TypeOK
  <2>2. file'.held = file.held /\ next'.held = next.held
    BY <1>14, <2>1, FileWithout DEF LongStalled
  <2>3. UNCHANGED <<st, nightly, stopped, lost, search, calls, pc>>
    BY <1>14 DEF LongStalled
  <2> QED
    BY <2>2, <2>3
<1>15. ASSUME Dawn PROVE HeldInv'
  BY <1>15 DEF Dawn, DownloadsStay
<1>16. ASSUME Fill PROVE HeldInv'
  BY <1>16 DEF Fill, DownloadsStay
<1>17. ASSUME NEW d \in Download, RequestTag(d) \/ Release(d) \/ SearchNow(d) PROVE HeldInv'
  <2>1. st \in [Download -> State] /\ stopped \subseteq Download /\ search \subseteq Download
    BY DEF TypeOK, Download
  <2>2. CASE RequestTag(d)
    BY <2>2 DEF RequestTag
  <2>3. CASE Release(d)
    <3>1. /\ nightly' \subseteq nightly /\ lost \subseteq lost' /\ UNCHANGED <<stopped, search, pc, next, calls, file>>
          /\ \A e \in Download : e # d => st'[e] = st[e]
          /\ d \in nightly /\ d \notin search
      BY <2>1, <2>3 DEF Release, Queued
    <3> QED
      BY <2>1, <3>1
  <2>4. CASE SearchNow(d)
    BY <2>1, <2>4 DEF SearchNow
  <2> QED
    BY <1>17, <2>2, <2>3, <2>4
<1>18. ASSUME NEW d \in Download, SearchEnds(d) PROVE HeldInv'
  <2>1. st \in [Download -> State] /\ stopped \subseteq Download /\ search \subseteq Download
    BY DEF TypeOK, Download
  <2> QED
    BY <1>18, <2>1 DEF SearchEnds
<1>19. ASSUME NEW d \in Download, Cancel(d) PROVE HeldInv'
  <2>1. calls \in Calls /\ file \in StateFile /\ next \in StateFile /\ st \in [Download -> State]
    BY DEF Calls, StateFile, TypeOK
  <2>2. calls'.start = calls.start \ {d} /\ file'.held = file.held \ {d} /\ next'.held = next.held \ {d}
    <3>1. /\ calls' = [c \in DOMAIN calls |-> calls[c] \ {d}]
          /\ file' = [file EXCEPT !.held = @ \ {d}, !.stalled[d] = "no"]
          /\ next' = [next EXCEPT !.held = @ \ {d}, !.stalled[d] = "no"]
      BY <1>19 DEF Cancel
    <3> QED
      BY <2>1, <3>1, CallsWithout, FileWithout
  <2>3. st' = [st EXCEPT ![d] = "none"] /\ stopped' = stopped \ {d} /\ lost' = lost \ {d}
        /\ UNCHANGED <<pc, search>> /\ nightly' = nightly \ {d}
    BY <1>19 DEF Cancel
  <2>4. stopped \subseteq Download /\ search \subseteq Download
    BY DEF TypeOK, Download
  <2> QED
    BY <2>1, <2>2, <2>3, <2>4
<1>20. ASSUME NEW c \in Command, CallFails(c) PROVE HeldInv'
  <2>1. calls \in Calls /\ calls[c] \in SUBSET Download /\ st \in [Download -> State]
        /\ stopped \subseteq Torrent /\ search \subseteq Download
    BY CallsLeft DEF Calls, TypeOK
  <2>2. PICK S \in SUBSET calls[c] : Apply(c, S)
    BY <1>20 DEF CallFails
  <2>3. /\ pc = "act" /\ UNCHANGED <<pc, nightly, search, next, file>> /\ calls' = NoCalls
        /\ lost \cup (IF c = "start" THEN stopped' \ next.held ELSE {}) \subseteq lost'
    BY <1>20 DEF CallFails
  <2>4. c # "start" => calls.start = {}
    <3>1. Now(c)
      BY <1>20 DEF CallFails
    <3>2. /\ 1 \in 1 .. 4 /\ 2 \in 1 .. 4 /\ 3 \in 1 .. 4 /\ 4 \in 1 .. 4
          /\ Order[1] = "start" /\ Order[2] = "stop" /\ Order[3] = "resume" /\ Order[4] = "pause"
      BY DEF Order
    <3>3. c # "start" => calls[Order[1]] = {}
      BY <3>1, <3>2 DEF Now, Command
    <3> QED
      BY <2>1, <3>2, <3>3 DEF Calls
  <2>5. stopped' \subseteq stopped \cup (next.held \ nightly)
    BY <2>1, <2>2, Applied
  <2>6. \A d \in stopped' : d \notin nightly /\ st'[d] = "paused"
    BY <2>1, <2>2, <2>5, StoppedStays
  <2>7. \A d \in search : st'[d] = "none"
    BY <2>1, <2>2, Applied
  <2>8. calls'.start = {}
    BY <2>3 DEF NoCalls
  <2> QED
    BY <2>3, <2>4, <2>5, <2>6, <2>7, <2>8
<1>21. ASSUME UNCHANGED vars PROVE HeldInv'
  BY <1>21 DEF vars
<1> QED
  BY CommandNames, <1>1, <1>2, <1>3, <1>4, <1>5, <1>6, <1>7, <1>8, <1>9, <1>10, <1>11, <1>12, <1>13, <1>14,
         <1>15, <1>16, <1>17, <1>18, <1>19, <1>20, <1>21 DEF Next, Run, Time, World

\* The calls to come stay within what the tariff allows.
LEMMA NightCallsStep ==
  ASSUME TypeOK, HeldInv, CallsInv, [Next]_vars PROVE CallsInv'
<1> USE NightAssumption DEF CallsInv, world, read, plan, history, script, End, Act, Still, Fault, NoCalls,
       NoFile
<1>1. ASSUME ReadQueues PROVE CallsInv'
  BY <1>1 DEF ReadQueues
<1>2. ASSUME ReadCommands PROVE CallsInv'
  BY <1>2 DEF ReadCommands
<1>3. ASSUME Plan PROVE CallsInv'
  <2>1. /\ ~lowSeen => (calls'.start \cup calls'.resume) \cap nightly \subseteq urgent
        /\ \A d \in calls'.start \cup calls'.resume : st[d] = "paused"
    BY <1>3, PlanMade
  <2>2. UNCHANGED <<st, nightly, lowSeen, urgent>>
    BY <1>3 DEF Plan
  <2> QED
    BY <2>1, <2>2
<1>4. ASSUME WriteState PROVE CallsInv'
  BY <1>4 DEF WriteState
<1>5. ASSUME Revert PROVE CallsInv'
  BY <1>5 DEF Revert
<1>6. ASSUME Untag PROVE CallsInv'
  BY <1>6 DEF Untag
<1>7. ASSUME NEW c \in Command, Call(c) PROVE CallsInv'
  <2>1. calls \in Calls /\ calls[c] \in SUBSET Download /\ Apply(c, calls[c])
    BY <1>7, CallsLeft DEF Call, TypeOK, Calls
  <2>2. calls'.start \subseteq calls.start /\ calls'.resume \subseteq calls.resume
    BY <1>7, <2>1, CallsLeft DEF Call
  <2>3. \A d \in calls.start \cup calls.resume : st'[d] # "none"
    BY <2>1, Applied DEF Calls, Download
  <2>4. UNCHANGED <<nightly, lowSeen, urgent, pc>>
    BY <1>7 DEF Call
  <2> QED
    BY <2>2, <2>3, <2>4
<1>8. ASSUME NoClient PROVE CallsInv'
  BY <1>8 DEF NoClient
<1>9. ASSUME Kill PROVE CallsInv'
  BY <1>9 DEF Kill
<1>10. ASSUME Dusk PROVE CallsInv'
  BY <1>10 DEF Dusk, DownloadsStay
<1>11. ASSUME Clear PROVE CallsInv'
  BY <1>11 DEF Clear, DownloadsStay
<1>12. ASSUME NEW d \in Download, Finish(d) PROVE CallsInv'
  <2>1. calls \in Calls /\ st \in [Download -> State] /\ calls.start \cup calls.resume \subseteq Download
    BY DEF TypeOK, Calls, Download
  <2> QED
    BY <1>12, <2>1 DEF Finish
<1>13. ASSUME NEW d \in Download, Stall(d) PROVE CallsInv'
  <2>1. calls \in Calls /\ st \in [Download -> State] /\ calls.start \cup calls.resume \subseteq Download
    BY DEF TypeOK, Calls, Download
  <2> QED
    BY <1>13, <2>1 DEF Stall
<1>14. ASSUME NEW d \in Download, LongStalled(d) PROVE CallsInv'
  BY <1>14 DEF LongStalled
<1>15. ASSUME Dawn PROVE CallsInv'
  BY <1>15 DEF Dawn, DownloadsStay
<1>16. ASSUME Fill PROVE CallsInv'
  BY <1>16 DEF Fill, DownloadsStay
<1>17. ASSUME NEW d \in Download, RequestTag(d) \/ Release(d) \/ SearchNow(d) PROVE CallsInv'
  <2>1. calls \in Calls /\ st \in [Download -> State] /\ calls.start \cup calls.resume \subseteq Download
    BY DEF TypeOK, Calls, Download
  <2>2. /\ UNCHANGED <<calls, pc, lowSeen, urgent>> /\ nightly' \subseteq nightly
        /\ \A e \in Download : st'[e] # st[e] => st'[e] # "none"
    BY <1>17, <2>1 DEF RequestTag, Release, SearchNow
  <2> QED
    BY <2>1, <2>2
<1>18. ASSUME NEW d \in Download, SearchEnds(d) PROVE CallsInv'
  <2>1. calls \in Calls /\ st \in [Download -> State] /\ calls.start \cup calls.resume \subseteq Download
    BY DEF TypeOK, Calls, Download
  <2> QED
    BY <1>18, <2>1 DEF SearchEnds, HeldInv
<1>19. ASSUME NEW d \in Download, Cancel(d) PROVE CallsInv'
  <2>1. calls \in Calls /\ st \in [Download -> State] /\ calls.start \cup calls.resume \subseteq Download
    BY DEF TypeOK, Calls, Download
  <2>2. /\ calls' = [c \in DOMAIN calls |-> calls[c] \ {d}] /\ st' = [st EXCEPT ![d] = "none"]
        /\ UNCHANGED <<pc, lowSeen>> /\ nightly' = nightly \ {d} /\ urgent' = urgent \ {d}
    BY <1>19 DEF Cancel
  <2>3. calls'.start = calls.start \ {d} /\ calls'.resume = calls.resume \ {d}
    BY <2>1, <2>2, CallsWithout
  <2> QED
    BY <2>1, <2>2, <2>3
<1>20. ASSUME NEW c \in Command, CallFails(c) PROVE CallsInv'
  BY <1>20 DEF CallFails
<1>21. ASSUME UNCHANGED vars PROVE CallsInv'
  BY <1>21 DEF vars
<1> QED
  BY CommandNames, <1>1, <1>2, <1>3, <1>4, <1>5, <1>6, <1>7, <1>8, <1>9, <1>10, <1>11, <1>12, <1>13, <1>14,
         <1>15, <1>16, <1>17, <1>18, <1>19, <1>20, <1>21 DEF Next, Run, Time, World

\* What is there stays known to the run, or has begun since.
LEMMA NightKnownStep ==
  ASSUME TypeOK, KnownInv, [Next]_vars PROVE KnownInv'
<1> USE NightAssumption DEF KnownInv, world, read, plan, history, script, End, Act, Still, Fault, NoCalls,
       NoFile
<1>1. ASSUME ReadQueues PROVE KnownInv'
  BY <1>1 DEF ReadQueues, Queued
<1>2. ASSUME ReadCommands PROVE KnownInv'
  BY <1>2 DEF ReadCommands, Queued
<1>3. ASSUME Plan PROVE KnownInv'
  BY <1>3 DEF Plan, Queued
<1>4. ASSUME WriteState PROVE KnownInv'
  BY <1>4 DEF WriteState, Queued
<1>5. ASSUME Revert PROVE KnownInv'
  <2>1. st \in [Download -> State]
    BY DEF TypeOK
  <2>2. \A d \in drop' : /\ d \in Download /\ d \in searched /\ st[d] # "done" /\ app(d) \notin mute
                        /\ d \notin queued \cup searching
    BY <1>5 DEF Revert, Unfound
  <2>3. \A d \in Download : Queued(d) \/ d \in search => d \in queued \cup searching \cup began \/ app(d) \in mute
    BY <1>5 DEF Revert
  <2>4. \A d \in drop' : (st[d] = "none" /\ d \notin search) \/ d \in began
    BY <2>1, <2>2, <2>3 DEF Queued, State
  <2>5. pc' = "untag" /\ UNCHANGED <<st, search, searched, began>>
    BY <1>5 DEF Revert
  <2> QED
    BY <2>2, <2>4, <2>5
<1>6. ASSUME Untag PROVE KnownInv'
  BY <1>6 DEF Untag
<1>7. ASSUME NEW c \in Command, Call(c) PROVE KnownInv'
  <2>1. calls \in Calls /\ calls[c] \in SUBSET Download /\ Apply(c, calls[c])
    BY <1>7, CallsLeft DEF Call, TypeOK, Calls
  <2>2. \A d \in Download : st'[d] # st[d] => Queued(d)
    BY <2>1, Applied
  <2>3. pc = "act" /\ UNCHANGED <<pc, search, queued, searching, began, mute>>
    BY <1>7 DEF Call
  <2> QED
    BY <2>2, <2>3 DEF Queued
<1>8. ASSUME NoClient PROVE KnownInv'
  BY <1>8 DEF NoClient
<1>9. ASSUME Kill PROVE KnownInv'
  BY <1>9 DEF Kill
<1>10. ASSUME Dusk PROVE KnownInv'
  BY <1>10 DEF Dusk, DownloadsStay, Queued
<1>11. ASSUME Clear PROVE KnownInv'
  BY <1>11 DEF Clear, DownloadsStay, Queued
<1>12. ASSUME NEW d \in Download, Finish(d) PROVE KnownInv'
  BY <1>12 DEF Finish, Queued, TypeOK
<1>13. ASSUME NEW d \in Download, Stall(d) PROVE KnownInv'
  BY <1>13 DEF Stall, Queued, TypeOK
<1>14. ASSUME NEW d \in Download, LongStalled(d) PROVE KnownInv'
  BY <1>14 DEF LongStalled, Queued
<1>15. ASSUME Dawn PROVE KnownInv'
  BY <1>15 DEF Dawn, DownloadsStay, Queued
<1>16. ASSUME Fill PROVE KnownInv'
  BY <1>16 DEF Fill, DownloadsStay, Queued
<1>17. ASSUME NEW d \in Download, RequestTag(d) \/ Release(d) \/ SearchNow(d) PROVE KnownInv'
  <2>1. CASE RequestTag(d)
    BY <2>1 DEF RequestTag, Queued
  <2>2. CASE Release(d)
    BY <2>2 DEF Release, Queued, TypeOK
  <2>3. CASE SearchNow(d)
    BY <2>3 DEF SearchNow, Begun, Queued
  <2> QED
    BY <1>17, <2>1, <2>2, <2>3
<1>18. ASSUME NEW d \in Download, SearchEnds(d) PROVE KnownInv'
  BY <1>18 DEF SearchEnds, Begun, Queued, TypeOK
<1>19. ASSUME NEW d \in Download, Cancel(d) PROVE KnownInv'
  BY <1>19 DEF Cancel, Queued, TypeOK
<1>20. ASSUME NEW c \in Command, CallFails(c) PROVE KnownInv'
  <2>1. calls \in Calls /\ calls[c] \in SUBSET Download
    BY CallsLeft DEF Calls, TypeOK
  <2>2. PICK S \in SUBSET calls[c] : Apply(c, S)
    BY <1>20 DEF CallFails
  <2>3. \A d \in Download : st'[d] # st[d] => Queued(d)
    BY <2>1, <2>2, Applied
  <2>4. pc = "act" /\ UNCHANGED <<pc, search, queued, searching, began, mute>>
    BY <1>20 DEF CallFails
  <2> QED
    BY <2>3, <2>4 DEF Queued
<1>21. ASSUME UNCHANGED vars PROVE KnownInv'
  BY <1>21 DEF vars, Queued
<1> QED
  BY CommandNames, <1>1, <1>2, <1>3, <1>4, <1>5, <1>6, <1>7, <1>8, <1>9, <1>10, <1>11, <1>12, <1>13, <1>14,
         <1>15, <1>16, <1>17, <1>18, <1>19, <1>20, <1>21 DEF Next, Run, Time, World

\* A call that starts a download of the night may do so.
LEMMA AppliedAtNight ==
  ASSUME TypeOK, CallsInv, NEW c \in Command, NEW S \in SUBSET calls[c], S \subseteq Download, Apply(c, S),
         nightly' = nightly
  PROVE  \A e \in nightly' : pc = "act" /\ st[e] = "paused" /\ st'[e] = "run" => lowSeen \/ e \in urgent
<1> USE NightAssumption
<1>1. SUFFICES ASSUME NEW e \in nightly', pc = "act", st[e] = "paused", st'[e] = "run", ~lowSeen
               PROVE  e \in urgent
  OBVIOUS
<1>2. e \in Download /\ S \in SUBSET Download
  BY DEF Download, TypeOK
<1>3. e \in S /\ c \in {"start", "resume"}
  BY <1>1, <1>2, Applied
<1>4. calls[c] = calls.start \/ calls[c] = calls.resume
  BY <1>3 DEF TypeOK
<1> QED
  BY <1>1, <1>3, <1>4 DEF CallsInv

\* What a step of a run starts of the downloads of the night.
AtNight ==
  \A e \in nightly' : pc = "act" /\ st[e] = "paused" /\ st'[e] = "run" => lowSeen \/ e \in urgent

\* No other step starts one.
LEMMA NightStartsStep ==
  ASSUME TypeOK, CallsInv, [Next]_vars PROVE AtNight
<1> USE NightAssumption DEF AtNight, world, read, plan, history, script, End, Act, Still, Fault, NoCalls,
       NoFile
<1>1. ASSUME ReadQueues PROVE AtNight
  BY <1>1 DEF ReadQueues
<1>2. ASSUME ReadCommands PROVE AtNight
  BY <1>2 DEF ReadCommands
<1>3. ASSUME Plan PROVE AtNight
  BY <1>3 DEF Plan
<1>4. ASSUME WriteState PROVE AtNight
  BY <1>4 DEF WriteState
<1>5. ASSUME Revert PROVE AtNight
  BY <1>5 DEF Revert
<1>6. ASSUME Untag PROVE AtNight
  BY <1>6 DEF Untag
<1>7. ASSUME NEW c \in Command, Call(c) PROVE AtNight
  <2>1. calls \in Calls /\ calls[c] \in SUBSET Download /\ Apply(c, calls[c]) /\ nightly' = nightly
    BY <1>7, CallsLeft DEF Calls, TypeOK, Call
  <2> QED
    BY <2>1, AppliedAtNight
<1>8. ASSUME NoClient PROVE AtNight
  BY <1>8 DEF NoClient
<1>9. ASSUME Kill PROVE AtNight
  BY <1>9 DEF Kill
<1>10. ASSUME Dusk PROVE AtNight
  BY <1>10 DEF Dusk, DownloadsStay
<1>11. ASSUME Clear PROVE AtNight
  BY <1>11 DEF Clear, DownloadsStay
<1>12. ASSUME NEW d \in Download, Finish(d) PROVE AtNight
  BY <1>12 DEF Finish, TypeOK
<1>13. ASSUME NEW d \in Download, Stall(d) PROVE AtNight
  BY <1>13 DEF Stall, TypeOK
<1>14. ASSUME NEW d \in Download, LongStalled(d) PROVE AtNight
  BY <1>14 DEF LongStalled
<1>15. ASSUME Dawn PROVE AtNight
  BY <1>15 DEF Dawn, DownloadsStay
<1>16. ASSUME Fill PROVE AtNight
  BY <1>16 DEF Fill, DownloadsStay
<1>17. ASSUME NEW d \in Download, RequestTag(d) \/ Release(d) \/ SearchNow(d) PROVE AtNight
  BY <1>17 DEF RequestTag, Release, SearchNow, TypeOK
<1>18. ASSUME NEW d \in Download, SearchEnds(d) PROVE AtNight
  BY <1>18 DEF SearchEnds, TypeOK
<1>19. ASSUME NEW d \in Download, Cancel(d) PROVE AtNight
  BY <1>19 DEF Cancel, TypeOK
<1>20. ASSUME NEW c \in Command, CallFails(c) PROVE AtNight
  <2>1. calls \in Calls /\ calls[c] \in SUBSET Download
    BY CallsLeft DEF Calls, TypeOK
  <2>2. PICK S \in SUBSET calls[c] : Apply(c, S)
    BY <1>20 DEF CallFails
  <2>3. nightly' = nightly
    BY <1>20 DEF CallFails
  <2> QED
    BY <2>1, <2>2, <2>3, AppliedAtNight
<1>21. ASSUME UNCHANGED vars PROVE AtNight
  BY <1>21 DEF vars
<1> QED
  BY CommandNames, <1>1, <1>2, <1>3, <1>4, <1>5, <1>6, <1>7, <1>8, <1>9, <1>10, <1>11, <1>12, <1>13, <1>14,
         <1>15, <1>16, <1>17, <1>18, <1>19, <1>20, <1>21 DEF Next, Run, Time, World

\* A host before its first run.
LEMMA NightInit == ASSUME Init PROVE NightIInv
<1> USE NightAssumption
<1>1. TypeOK
  <2>1. st \in [Download -> State]
    BY DEF Init, State
  <2>2. file \in StateFile /\ next \in StateFile
    BY DEF Init, NoFile, StateFile, Since
  <2>3. calls \in Calls
    BY DEF Init, NoCalls, Calls
  <2>4. /\ low \in BOOLEAN /\ disk \in {"low", "mid", "ok"} /\ lowSeen \in BOOLEAN
        /\ tag \subseteq Download /\ search \subseteq Download /\ searched \subseteq Download
        /\ urgent \subseteq Download /\ queued \subseteq Download /\ searching \subseteq Download
        /\ mute \subseteq App /\ drop \subseteq Download /\ began \subseteq Download
        /\ stopped \subseteq Torrent /\ lost \subseteq Download /\ nightly \subseteq Download
        /\ diskSeen \in {"low", "mid", "ok", "unknown"}
    BY DEF Init, Download
  <2>5. acts \in 0 .. MaxAct /\ faults \in 0 .. MaxFault
        /\ pc \in {"off", "commands", "plan", "act", "revert", "untag"}
    BY DEF Init
  <2> QED
    BY <2>1, <2>2, <2>3, <2>4, <2>5 DEF TypeOK, StateFile, Calls
<1>2. HeldInv /\ CallsInv /\ KnownInv
  BY DEF Init, HeldInv, CallsInv, KnownInv, NoCalls
<1> QED
  BY <1>1, <1>2 DEF NightIInv

\* The inductive invariant holds in every state of every instance.
THEOREM NightInvariance == Spec => []NightIInv
<1>1. NightIInv /\ [Next]_vars => NightIInv'
  BY NightTypeStep, NightHeldStep, NightCallsStep, NightKnownStep DEF NightIInv
<1> QED
  BY NightInit, <1>1, PTL DEF Spec

\* night-downloads.py:6: for any torrents, any failed calls and any deaths of
\* the run, a torrent that the disk hold has stopped is in the state file of the
\* next run, or is one of those that the code is known to lose.
THEOREM NightRemembersHeld == Spec => []NightInv
<1>1. NightIInv => NightInv
  BY DEF NightIInv, NightInv, HeldInv
<1> QED
  BY NightInvariance, <1>1, PTL

\* No step of the run starts a download that can wait outside of the low
\* tariff, unless the run has read that it is wanted now.
THEOREM NightStarts == Spec => StartsAtNight
<1>1. NightIInv /\ [Next]_vars =>
        [\A d \in nightly' : pc = "act" /\ st[d] = "paused" /\ st'[d] = "run" => lowSeen \/ d \in urgent]_vars
  BY NightStartsStep DEF NightIInv, AtNight
<1> QED
  BY NightInvariance, <1>1, PTL DEF Spec, StartsAtNight

\* night-downloads.py:5: for any downloads, searches and failed reads, a title
\* whose tag the run takes has been searched and has no file, no download and no
\* search in that very step, unless one began after the run had asked for them.
THEOREM NightKeepsTags == Spec => TagStays
<1> DEFINE StaysTagged == \A d \in tag \ tag' : d \in searched /\ ((st[d] = "none" /\ d \notin search) \/ d \in began)
<1>1. NightIInv /\ [Next]_vars => [StaysTagged]_vars
  <2> SUFFICES ASSUME NightIInv, Next PROVE StaysTagged
    OBVIOUS
  <2>1. ~Untag => tag \subseteq tag'
    BY DEF Next, Run, Time, World, ReadQueues, ReadCommands, Plan, WriteState, Revert, Call, NoClient, Kill,
           Dusk, Clear, Finish, Stall, LongStalled, Dawn, Fill, DownloadsStay, RequestTag, Release, SearchNow,
           SearchEnds, Cancel, CallFails, world
  <2>2. Untag => tag \ tag' \subseteq drop /\ pc = "untag"
    BY DEF Untag
  <2>3. pc = "untag" => \A d \in drop : d \in searched /\ ((st[d] = "none" /\ d \notin search) \/ d \in began)
    BY DEF NightIInv, KnownInv
  <2> QED
    BY <2>1, <2>2, <2>3
<1> QED
  BY NightInvariance, <1>1, PTL DEF Spec, TagStays

-----------------------------------------------------------------------------
(* QueueWatchdog. *)

\* Time that goes by changes marks only, and no mark appears or vanishes.
LEMMA OlderType ==
  ASSUME NEW m \in Memory, NEW d \in Item, NEW f \in {"first", "since"}
  PROVE  /\ Older(m, d, f) \in Memory
         /\ Older(m, d, f).alerted = m.alerted /\ Older(m, d, f).imports = m.imports
         /\ \A c \in Item : Older(m, d, f).first[c] = "no" <=> m.first[c] = "no"
<1> DEFINE a == [m.first EXCEPT ![d] = IF f = "first" /\ @ = "new" THEN "old" ELSE @]
           b == [m.since EXCEPT ![d] = IF f = "since" /\ @ = "new" THEN "old" ELSE @]
<1>1. a \in [Item -> Mark] /\ b \in [Item -> Mark] /\ \A c \in Item : a[c] = "no" <=> m.first[c] = "no"
  BY DEF Memory, Mark
<1>2. Older(m, d, f) = [m EXCEPT !.first = a, !.since = b]
  BY DEF Older, Memory
<1> HIDE DEF a, b
<1> QED
  BY <1>1, <1>2 DEF Memory

\* What evaluate writes into the copy of the state.
LEMMA EvaluateMemory ==
  ASSUME mem \in Memory, Evaluate
  PROVE  /\ mem' \in Memory
         /\ mem'.imports = mem.imports /\ mem'.indexers = mem.indexers
         /\ \A d \in Item : /\ mem'.alerted[d] = Kept(d) \cup (Due(d) \ Kept(d))
                               /\ mem'.first[d] = First(d)
<1> DEFINE a == [d \in Item |-> Kept(d) \cup (Due(d) \ Kept(d))]
           b == [d \in Item |-> First(d)]
           c == [d \in Item |-> SinceMark(d)]
<1>1. mem' = [mem EXCEPT !.alerted = a, !.first = b, !.since = c]
  BY DEF Evaluate
<1>2. \A d \in Item : First(d) \in Mark /\ SinceMark(d) \in Mark
  BY DEF First, SinceMark, Memory, Mark
<1>3. \A d \in Item : Due(d) \subseteq Cond /\ Kept(d) \subseteq Cond
  BY DEF Due, Kept, ActiveConds
<1>4. a \in [Item -> SUBSET Cond] /\ b \in [Item -> Mark] /\ c \in [Item -> Mark]
  BY <1>2, <1>3
<1>5. \A d \in Item : a[d] = Kept(d) \cup (Due(d) \ Kept(d)) /\ b[d] = First(d)
  OBVIOUS
<1> HIDE DEF a, b, c
<1> QED
  BY <1>1, <1>4, <1>5 DEF Memory

\* A message that was not sent is forgotten for its own download only.
LEMMA UnsentMemory ==
  ASSUME mem \in Memory, NEW d \in Item
  PROVE  /\ Unsent(d) \in Memory
         /\ Unsent(d).first = mem.first /\ Unsent(d).imports = mem.imports
         /\ \A c \in Item \ {d} : Unsent(d).alerted[c] = mem.alerted[c]
<1> DEFINE a == [mem.alerted EXCEPT ![d] = @ \ {"blocked"}]
<1>1. a \in [Item -> SUBSET Cond] /\ \A c \in Item \ {d} : a[c] = mem.alerted[c]
  BY DEF Memory
<1>2. Unsent(d) = [mem EXCEPT !.alerted = a]
  BY DEF Unsent, Memory
<1> HIDE DEF a
<1> QED
  BY <1>1, <1>2 DEF Memory

\* Every step keeps the types.
LEMMA WatchTypeStep ==
  ASSUME WatchTypeOK, [WatchNext]_wvars PROVE WatchTypeOK'
<1> USE WatchdogAssumption DEF WatchTypeOK, Memory, Status, Mark, watched, records, said, self, WatchEnd,
       WatchAct, WatchFault, All, NoRecord
<1>1. ASSUME Indexers PROVE WatchTypeOK'
  <2>1. mem' \in Memory
    <3>1. CASE mem' = mem
      BY <3>1
    <3>2. CASE \E ok \in BOOLEAN : mem' = [mem EXCEPT !.indexers = ok]
      BY <3>2
    <3>3. CASE mem' = [mem EXCEPT !.indexers = FALSE]
      BY <3>3
    <3> QED
      BY <1>1, <3>1, <3>2, <3>3 DEF Indexers
  <2>2. saved' = saved
    BY <1>1 DEF Indexers
  <2>3. wfaults' \in 0 .. MaxWatchFault
    BY <1>1 DEF Indexers, Immediate
  <2> QED
    BY <1>1, <2>1, <2>2, <2>3 DEF Indexers
<1>2. ASSUME Fetch PROVE WatchTypeOK'
  BY <1>2 DEF Fetch
<1>3. ASSUME NEW d \in Item, ManualImport(d) PROVE WatchTypeOK'
  BY <1>3 DEF ManualImport, Remembered
<1>4. ASSUME Evaluate PROVE WatchTypeOK'
  <2>1. mem' \in Memory
    BY <1>4, EvaluateMemory
  <2>2. saved' = saved /\ alerts' \subseteq Item
    BY <1>4 DEF Evaluate
  <2> HIDE DEF Memory
  <2> QED
    BY <1>4, <2>1, <2>2 DEF Evaluate
<1>5. ASSUME NEW d \in Item, Alert(d) PROVE WatchTypeOK'
  <2>1. mem' \in Memory
    BY <1>5, UnsentMemory DEF Alert
  <2>2. sent' \in [Item -> Nat] /\ again' \in [Item -> Nat] /\ mine' \subseteq {"sent", "posted"} \X Item
    BY <1>5 DEF Alert
  <2>3. wfaults' \in 0 .. MaxWatchFault /\ alerts' \subseteq Item
    BY <1>5 DEF Alert, Immediate
  <2> HIDE DEF Memory
  <2> QED
    BY <1>5, <2>1, <2>2, <2>3 DEF Alert
<1>6. ASSUME ListEvents PROVE WatchTypeOK'
  BY <1>6 DEF ListEvents
<1>7. ASSUME NEW e \in Event, SendEvent(e) PROVE WatchTypeOK'
  BY <1>7 DEF SendEvent, Immediate, Gone
<1>8. ASSUME WriteMemory PROVE WatchTypeOK'
  BY <1>8 DEF WriteMemory
<1>9. ASSUME WriteDigest PROVE WatchTypeOK'
  BY <1>9 DEF WriteDigest
<1>10. ASSUME WatchKill PROVE WatchTypeOK'
  <2>1. again' \in [Item -> Nat] /\ wfaults' \in 0 .. MaxWatchFault
    BY <1>10 DEF WatchKill
  <2>2. UNCHANGED <<watched, saved, sent, posted, told, wacts>> /\ WatchEnd
    BY <1>10 DEF WatchKill
  <2>3. saved' \in Memory /\ mem' \in Memory /\ seen' \in [Item -> Status \cup {"unread"}]
    BY <2>2
  <2> HIDE DEF Memory
  <2> QED
    BY <2>1, <2>2, <2>3
<1>11. ASSUME IndexersChange PROVE WatchTypeOK'
  BY <1>11 DEF IndexersChange
<1>12. ASSUME Evening PROVE WatchTypeOK'
  BY <1>12 DEF Evening
<1>13. ASSUME NEW d \in Item, Progress(d) PROVE WatchTypeOK'
  BY <1>13 DEF Progress
<1>14. ASSUME NEW d \in Item, NEW s \in Status, Change(d, s) PROVE WatchTypeOK'
  BY <1>14 DEF Change
<1>15. ASSUME Morning PROVE WatchTypeOK'
  BY <1>15 DEF Morning
<1>16. ASSUME NEW d \in Item, NEW f \in {"first", "since"}, Pass(d, f) PROVE WatchTypeOK'
  <2>1. mem' \in Memory /\ saved' \in Memory
    BY <1>16, OlderType DEF Pass
  <2> HIDE DEF Memory
  <2> QED
    BY <1>16, <2>1 DEF Pass
<1>17. ASSUME UNCHANGED wvars PROVE WatchTypeOK'
  BY <1>17 DEF wvars
<1> QED
  BY <1>1, <1>2, <1>3, <1>4, <1>5, <1>6, <1>7, <1>8, <1>9, <1>10, <1>11, <1>12, <1>13, <1>14, <1>15, <1>16,
         <1>17 DEF WatchNext, WatchRun, WatchTime, WatchWorld

\* What the run has not evaluated yet is as the state file says.
LEMMA WatchMemoryStep ==
  ASSUME WatchTypeOK, MemoryInv, [WatchNext]_wvars PROVE MemoryInv'
<1> USE WatchdogAssumption DEF MemoryInv, WatchTypeOK, Memory, watched, records, said, self, WatchEnd,
       WatchAct, WatchFault, All, NoRecord
<1>1. ASSUME Indexers PROVE MemoryInv'
  BY <1>1 DEF Indexers, Immediate
<1>2. ASSUME Fetch PROVE MemoryInv'
  <2>1. CASE wpc' = "events"
    BY <1>2, <2>1 DEF Fetch
  <2>2. CASE wpc' = "import"
    <3>1. \A d \in Item : seen'[d] # "unread"
      BY <1>2, <2>2 DEF Fetch, Status
    <3> QED BY <1>2, <2>2, <3>1 DEF Fetch
  <2> QED BY <1>2, <2>1, <2>2 DEF Fetch
<1>3. ASSUME NEW d \in Item, ManualImport(d) PROVE MemoryInv'
  BY <1>3 DEF ManualImport, Remembered
<1>4. ASSUME Evaluate PROVE MemoryInv'
  BY <1>4 DEF Evaluate
<1>5. ASSUME NEW d \in Item, Alert(d) PROVE MemoryInv'
  BY <1>5 DEF Alert, Immediate, Unsent
<1>6. ASSUME ListEvents PROVE MemoryInv'
  BY <1>6 DEF ListEvents
<1>7. ASSUME NEW e \in Event, SendEvent(e) PROVE MemoryInv'
  BY <1>7 DEF SendEvent, Immediate, Gone
<1>8. ASSUME WriteMemory PROVE MemoryInv'
  BY <1>8 DEF WriteMemory
<1>9. ASSUME WriteDigest PROVE MemoryInv'
  BY <1>9 DEF WriteDigest
<1>10. ASSUME WatchKill PROVE MemoryInv'
  BY <1>10 DEF WatchKill
<1>11. ASSUME IndexersChange PROVE MemoryInv'
  BY <1>11 DEF IndexersChange
<1>12. ASSUME Evening PROVE MemoryInv'
  BY <1>12 DEF Evening
<1>13. ASSUME NEW d \in Item, Progress(d) PROVE MemoryInv'
  BY <1>13 DEF Progress
<1>14. ASSUME NEW d \in Item, NEW s \in Status, Change(d, s) PROVE MemoryInv'
  BY <1>14 DEF Change
<1>15. ASSUME Morning PROVE MemoryInv'
  BY <1>15 DEF Morning
<1>16. ASSUME NEW d \in Item, NEW f \in {"first", "since"}, Pass(d, f) PROVE MemoryInv'
  BY <1>16 DEF Pass, Older
<1>17. ASSUME UNCHANGED wvars PROVE MemoryInv'
  BY <1>17 DEF wvars
<1> QED
  BY <1>1, <1>2, <1>3, <1>4, <1>5, <1>6, <1>7, <1>8, <1>9, <1>10, <1>11, <1>12, <1>13, <1>14, <1>15, <1>16,
         <1>17 DEF WatchNext, WatchRun, WatchTime, WatchWorld

\* A download that was told of is not due again while it stays blocked.
LEMMA SentEvaluate ==
  ASSUME WatchTypeOK, MemoryInv, SentInv, Evaluate PROVE SentInv'
<1>1. mem \in Memory /\ sent \in [Item -> Nat] /\ again \in [Item -> Nat]
  BY DEF WatchTypeOK
<1>2. /\ wpc = "import" /\ wpc' = "alerts" /\ UNCHANGED <<sent, again, saved, mine, seen, done>>
      /\ mem.alerted = saved.alerted
      /\ \A d \in Item : seen[d] # "unread"
      /\ \A d \in Item : d \in alerts' => "blocked" \in Due(d) \ Kept(d)
  BY DEF Evaluate, MemoryInv, said
<1>3. \A d \in Item : mem'.alerted[d] = Kept(d) \cup (Due(d) \ Kept(d))
  BY <1>1, EvaluateMemory
<1>4. ASSUME NEW d \in Item
      PROVE  /\ sent[d] <= 1 + again[d] /\ (sent[d] > again[d] => "blocked" \in saved.alerted[d])
             /\ d \in alerts' => sent[d] <= again[d] /\ "blocked" \in mem'.alerted[d]
             /\ sent[d] > again[d] => "blocked" \in mem'.alerted[d] \/ Cleared(d)' \/ Dropped(d)'
  <2>1. /\ sent[d] \in Nat /\ again[d] \in Nat /\ sent[d] <= 1 + again[d]
        /\ sent[d] > again[d] => "blocked" \in mem.alerted[d] /\ "blocked" \in saved.alerted[d]
    BY <1>1, <1>2 DEF SentInv
  <2>2. "blocked" \in mem.alerted[d] => ("blocked" \in Kept(d) <=> "blocked" \in ActiveConds(d))
    BY DEF Kept
  <2>3. "blocked" \in Due(d) => "blocked" \in ActiveConds(d)
    BY DEF Due
  <2>4. "blocked" \notin ActiveConds(d) => Cleared(d)' \/ d \in done'
    BY <1>2 DEF ActiveConds, Record, Cleared, Cond, Blocked
  <2>5. d \in done' /\ "blocked" \in saved.alerted[d] => Dropped(d)'
    BY <1>2 DEF Dropped
  <2> QED
    BY <1>2, <1>3, <2>1, <2>2, <2>3, <2>4, <2>5
<1> QED
  BY <1>2, <1>4 DEF SentInv

\* One message makes one Telegram, and one that does not count as sent leaves
\* no memory.
LEMMA SentAlert ==
  ASSUME WatchTypeOK, SentInv, NEW d \in Item, Alert(d) PROVE SentInv'
<1>1. mem \in Memory /\ sent \in [Item -> Nat] /\ again \in [Item -> Nat]
  BY DEF WatchTypeOK
<1>2. PICK ok \in BOOLEAN, there \in BOOLEAN :
        /\ ok => there
        /\ mem' = IF ok THEN mem ELSE Unsent(d)
        /\ sent' = IF there THEN [sent EXCEPT ![d] = @ + 1] ELSE sent
        /\ again' = IF there /\ ~ok THEN [again EXCEPT ![d] = @ + 1] ELSE again
        /\ mine' = IF ok THEN mine \cup {<<"sent", d>>} ELSE mine
  BY DEF Alert, Immediate
<1>3. /\ wpc = "alerts" /\ d \in alerts /\ alerts' = alerts \ {d}
      /\ UNCHANGED <<wpc, saved, seen, done>>
  BY DEF Alert
<1>4. ASSUME NEW c \in Item
      PROVE  /\ sent'[c] <= 1 + again'[c]
             /\ c \in alerts' => sent'[c] <= again'[c] /\ "blocked" \in mem'.alerted[c]
             /\ sent'[c] > again'[c] =>
                  /\ <<"sent", c>> \in mine' \/ "blocked" \in saved.alerted[c]
                  /\ "blocked" \in mem'.alerted[c] \/ Cleared(c)' \/ Dropped(c)'
  <2>1. /\ sent[c] \in Nat /\ again[c] \in Nat /\ sent[c] <= 1 + again[c]
        /\ c \in alerts => sent[c] <= again[c] /\ "blocked" \in mem.alerted[c]
        /\ sent[c] > again[c] => /\ <<"sent", c>> \in mine \/ "blocked" \in saved.alerted[c]
                                 /\ "blocked" \in mem.alerted[c] \/ Cleared(c) \/ Dropped(c)
    BY <1>1, <1>3 DEF SentInv
  <2>2. (Cleared(c)' <=> Cleared(c)) /\ (Dropped(c)' <=> Dropped(c))
    BY <1>3 DEF Cleared, Dropped
  <2>3. CASE c = d /\ ok
    <3>1. sent'[c] = sent[c] + 1 /\ again'[c] = again[c] /\ mem' = mem /\ <<"sent", c>> \in mine'
      BY <1>1, <1>2, <2>3
    <3> QED
      BY <1>3, <2>1, <2>3, <3>1
  <2>4. CASE c = d /\ ~ok
    <3>1. \/ sent'[c] = sent[c] /\ again'[c] = again[c]
          \/ sent'[c] = sent[c] + 1 /\ again'[c] = again[c] + 1
      BY <1>1, <1>2, <2>4
    <3> QED
      BY <1>3, <2>1, <2>4, <3>1
  <2>5. CASE c # d
    <3>1. mem'.alerted[c] = mem.alerted[c]
      BY <1>1, <1>2, <2>5, UnsentMemory
    <3>2. sent'[c] = sent[c] /\ again'[c] = again[c]
      BY <1>1, <1>2, <2>5
    <3> QED
      BY <1>2, <1>3, <2>1, <2>2, <2>5, <3>1, <3>2
  <2> QED
    BY <2>3, <2>4, <2>5
<1> QED
  BY <1>3, <1>4 DEF SentInv

\* The run writes down what it has told, but for what has cleared or is dropped.
LEMMA SentWrite ==
  ASSUME WatchTypeOK, SentInv, MemoryInv, WriteMemory PROVE SentInv'
<1>1. /\ sent \in [Item -> Nat] /\ again \in [Item -> Nat]
      /\ wpc = "events" /\ wpc' = "digest" /\ saved' = mem /\ alerts' = {}
      /\ sent' = [d \in Item |-> IF Cleared(d) THEN 0 ELSE sent[d]]
      /\ again' = [d \in Item |-> IF Cleared(d) THEN 0 ELSE IF Dropped(d) THEN again[d] + 1 ELSE again[d]]
  BY DEF WatchTypeOK, WriteMemory, MemoryInv, records
<1>2. ASSUME NEW d \in Item
      PROVE  sent'[d] <= 1 + again'[d] /\ (sent'[d] > again'[d] => "blocked" \in saved'.alerted[d])
  <2>1. /\ sent[d] \in Nat /\ again[d] \in Nat /\ sent[d] <= 1 + again[d]
        /\ sent[d] > again[d] => "blocked" \in mem.alerted[d] \/ Cleared(d) \/ Dropped(d)
    BY <1>1 DEF SentInv
  <2>2. CASE Cleared(d)
    BY <1>1, <2>2
  <2>3. CASE ~Cleared(d) /\ Dropped(d)
    <3>1. sent'[d] = sent[d] /\ again'[d] = again[d] + 1
      BY <1>1, <2>3
    <3> QED BY <2>1, <3>1
  <2>4. CASE ~Cleared(d) /\ ~Dropped(d)
    <3>1. sent'[d] = sent[d] /\ again'[d] = again[d]
      BY <1>1, <2>4
    <3> QED BY <1>1, <2>1, <2>4, <3>1
  <2> QED
    BY <2>2, <2>3, <2>4
<1> QED
  BY <1>1, <1>2 DEF SentInv

\* A run that dies forgets what it has told, and nothing else.
LEMMA SentKill ==
  ASSUME WatchTypeOK, SentInv, WatchKill PROVE SentInv'
<1>1. /\ sent \in [Item -> Nat] /\ again \in [Item -> Nat]
      /\ wpc' = "off" /\ saved' = saved /\ alerts' = {} /\ sent' = sent
      /\ again' = [d \in Item |-> IF <<"sent", d>> \in mine THEN again[d] + 1 ELSE again[d]]
  BY DEF WatchTypeOK, WatchKill, WatchEnd
<1>2. ASSUME NEW d \in Item
      PROVE  sent'[d] <= 1 + again'[d] /\ (sent'[d] > again'[d] => "blocked" \in saved'.alerted[d])
  <2>1. /\ sent[d] \in Nat /\ again[d] \in Nat /\ sent[d] <= 1 + again[d]
        /\ sent[d] > again[d] => <<"sent", d>> \in mine \/ "blocked" \in saved.alerted[d]
    BY <1>1 DEF SentInv
  <2>2. CASE <<"sent", d>> \in mine
    <3>1. again'[d] = again[d] + 1
      BY <1>1, <2>2
    <3> QED BY <1>1, <2>1, <3>1
  <2>3. CASE <<"sent", d>> \notin mine
    <3>1. again'[d] = again[d]
      BY <1>1, <2>3
    <3> QED BY <1>1, <2>1, <2>3, <3>1
  <2> QED
    BY <2>2, <2>3
<1> QED
  BY <1>1, <1>2 DEF SentInv

\* A Telegram that was sent is remembered by the file or by the run.
LEMMA WatchSentStep ==
  ASSUME WatchTypeOK, MemoryInv, SentInv, [WatchNext]_wvars PROVE SentInv'
<1> USE WatchdogAssumption DEF MemoryInv, SentInv, WatchTypeOK, Memory, watched, records, said, self, Cleared, Dropped,
       WatchEnd, WatchAct, WatchFault, All, NoRecord
<1>1. ASSUME Indexers PROVE SentInv'
  BY <1>1 DEF Indexers, Immediate
<1>2. ASSUME Fetch PROVE SentInv'
  BY <1>2 DEF Fetch
<1>3. ASSUME NEW d \in Item, ManualImport(d) PROVE SentInv'
  BY <1>3 DEF ManualImport, Remembered
<1>4. ASSUME Evaluate PROVE SentInv'
  BY <1>4, SentEvaluate
<1>5. ASSUME NEW d \in Item, Alert(d) PROVE SentInv'
  BY <1>5, SentAlert
<1>6. ASSUME ListEvents PROVE SentInv'
  BY <1>6 DEF ListEvents
<1>7. ASSUME NEW e \in Event, SendEvent(e) PROVE SentInv'
  BY <1>7 DEF SendEvent, Immediate, Gone
<1>8. ASSUME WriteMemory PROVE SentInv'
  BY <1>8, SentWrite
<1>9. ASSUME WriteDigest PROVE SentInv'
  BY <1>9 DEF WriteDigest
<1>10. ASSUME WatchKill PROVE SentInv'
  BY <1>10, SentKill
<1>11. ASSUME IndexersChange PROVE SentInv'
  BY <1>11 DEF IndexersChange
<1>12. ASSUME Evening PROVE SentInv'
  BY <1>12 DEF Evening
<1>13. ASSUME NEW d \in Item, Progress(d) PROVE SentInv'
  BY <1>13 DEF Progress
<1>14. ASSUME NEW d \in Item, NEW s \in Status, Change(d, s) PROVE SentInv'
  BY <1>14 DEF Change
<1>15. ASSUME Morning PROVE SentInv'
  BY <1>15 DEF Morning
<1>16. ASSUME NEW d \in Item, NEW f \in {"first", "since"}, Pass(d, f) PROVE SentInv'
  BY <1>16 DEF Pass, Older
<1>17. ASSUME UNCHANGED wvars PROVE SentInv'
  BY <1>17 DEF wvars
<1> HIDE DEF MemoryInv, SentInv, WatchTypeOK, Memory, watched, records, said, self, Cleared, Dropped,
       WatchEnd, WatchAct, WatchFault, All, NoRecord
<1> QED
  BY <1>1, <1>2, <1>3, <1>4, <1>5, <1>6, <1>7, <1>8, <1>9, <1>10, <1>11, <1>12, <1>13, <1>14, <1>15, <1>16,
         <1>17 DEF WatchNext, WatchRun, WatchTime, WatchWorld

\* So is an import command.
LEMMA WatchPostedStep ==
  ASSUME WatchTypeOK, MemoryInv, PostedInv, [WatchNext]_wvars PROVE PostedInv'
<1> USE WatchdogAssumption DEF MemoryInv, PostedInv, WatchTypeOK, Memory, watched, records, said, self,
       WatchEnd, WatchAct, WatchFault, All, NoRecord
<1>1. ASSUME Indexers PROVE PostedInv'
  BY <1>1 DEF Indexers, Immediate
<1>2. ASSUME Fetch PROVE PostedInv'
  BY <1>2 DEF Fetch
<1>3. ASSUME NEW d \in Item, ManualImport(d) PROVE PostedInv'
  BY <1>3 DEF ManualImport, Remembered
<1>4. ASSUME Evaluate PROVE PostedInv'
  BY <1>4 DEF Evaluate
<1>5. ASSUME NEW d \in Item, Alert(d) PROVE PostedInv'
  BY <1>5 DEF Alert, Immediate, Unsent
<1>6. ASSUME ListEvents PROVE PostedInv'
  BY <1>6 DEF ListEvents
<1>7. ASSUME NEW e \in Event, SendEvent(e) PROVE PostedInv'
  BY <1>7 DEF SendEvent, Immediate, Gone
<1>8. ASSUME WriteMemory PROVE PostedInv'
  BY <1>8 DEF WriteMemory
<1>9. ASSUME WriteDigest PROVE PostedInv'
  BY <1>9 DEF WriteDigest
<1>10. ASSUME WatchKill PROVE PostedInv'
  BY <1>10 DEF WatchKill
<1>11. ASSUME IndexersChange PROVE PostedInv'
  BY <1>11 DEF IndexersChange
<1>12. ASSUME Evening PROVE PostedInv'
  BY <1>12 DEF Evening
<1>13. ASSUME NEW d \in Item, Progress(d) PROVE PostedInv'
  BY <1>13 DEF Progress
<1>14. ASSUME NEW d \in Item, NEW s \in Status, Change(d, s) PROVE PostedInv'
  BY <1>14 DEF Change
<1>15. ASSUME Morning PROVE PostedInv'
  BY <1>15 DEF Morning
<1>16. ASSUME NEW d \in Item, NEW f \in {"first", "since"}, Pass(d, f) PROVE PostedInv'
  BY <1>16 DEF Pass, Older
<1>17. ASSUME UNCHANGED wvars PROVE PostedInv'
  BY <1>17 DEF wvars
<1> QED
  BY <1>1, <1>2, <1>3, <1>4, <1>5, <1>6, <1>7, <1>8, <1>9, <1>10, <1>11, <1>12, <1>13, <1>14, <1>15, <1>16,
         <1>17 DEF WatchNext, WatchRun, WatchTime, WatchWorld

\* No event file is lost by a step.
LEMMA WatchEventsStep ==
  ASSUME WatchTypeOK, EventsKept, [WatchNext]_wvars PROVE EventsKept'
<1> USE WatchdogAssumption DEF EventsKept, WatchTypeOK, watched, records, said, self, WatchEnd, WatchAct,
       WatchFault, All, NoRecord
<1>1. ASSUME Indexers PROVE EventsKept'
  BY <1>1 DEF Indexers, Immediate
<1>2. ASSUME Fetch PROVE EventsKept'
  BY <1>2 DEF Fetch
<1>3. ASSUME NEW d \in Item, ManualImport(d) PROVE EventsKept'
  BY <1>3 DEF ManualImport, Remembered
<1>4. ASSUME Evaluate PROVE EventsKept'
  BY <1>4 DEF Evaluate
<1>5. ASSUME NEW d \in Item, Alert(d) PROVE EventsKept'
  BY <1>5 DEF Alert, Immediate, Unsent
<1>6. ASSUME ListEvents PROVE EventsKept'
  BY <1>6 DEF ListEvents
<1>7. ASSUME NEW e \in Event, SendEvent(e) PROVE EventsKept'
  BY <1>7 DEF SendEvent, Immediate, Gone
<1>8. ASSUME WriteMemory PROVE EventsKept'
  BY <1>8 DEF WriteMemory
<1>9. ASSUME WriteDigest PROVE EventsKept'
  <2>1. \A e \in Event : <<"event", e>> \in news => <<"event", e>> \in shown' \cup cut'
    BY <1>9 DEF WriteDigest, Followed
  <2>2. shown \subseteq shown' /\ cut \subseteq cut' /\ UNCHANGED <<spool, told, torn>>
    BY <1>9 DEF WriteDigest
  <2> QED BY <2>1, <2>2
<1>10. ASSUME WatchKill PROVE EventsKept'
  <2>1. \A e \in Event : <<"event", e>> \in news => <<"event", e>> \in torn'
    BY <1>10 DEF WatchKill, Followed
  <2>2. torn \subseteq torn' /\ UNCHANGED <<spool, told, shown, cut>>
    BY <1>10 DEF WatchKill
  <2> QED BY <2>1, <2>2
<1>11. ASSUME IndexersChange PROVE EventsKept'
  BY <1>11 DEF IndexersChange
<1>12. ASSUME Evening PROVE EventsKept'
  BY <1>12 DEF Evening
<1>13. ASSUME NEW d \in Item, Progress(d) PROVE EventsKept'
  BY <1>13 DEF Progress
<1>14. ASSUME NEW d \in Item, NEW s \in Status, Change(d, s) PROVE EventsKept'
  BY <1>14 DEF Change
<1>15. ASSUME Morning PROVE EventsKept'
  BY <1>15 DEF Morning
<1>16. ASSUME NEW d \in Item, NEW f \in {"first", "since"}, Pass(d, f) PROVE EventsKept'
  BY <1>16 DEF Pass, Older
<1>17. ASSUME UNCHANGED wvars PROVE EventsKept'
  BY <1>17 DEF wvars
<1> QED
  BY <1>1, <1>2, <1>3, <1>4, <1>5, <1>6, <1>7, <1>8, <1>9, <1>10, <1>11, <1>12, <1>13, <1>14, <1>15, <1>16,
         <1>17 DEF WatchNext, WatchRun, WatchTime, WatchWorld

\* A host before its first run.
LEMMA WatchInitInv == ASSUME WatchInit PROVE WatchIInv
<1> USE WatchdogAssumption
<1>1. WatchTypeOK
  <2>1. saved \in Memory /\ mem \in Memory
    <3>1. All({}) \in [Item -> SUBSET Cond] /\ All("no") \in [Item -> Mark]
      BY DEF All, Mark
    <3> QED
      BY <3>1 DEF WatchInit, Memory
  <2>2. status \in [Item -> Status] /\ seen \in [Item -> Status \cup {"unread"}]
    BY DEF WatchInit, Status, NoRecord
  <2>3. sent \in [Item -> Nat] /\ again \in [Item -> Nat] /\ posted \in [Item -> Nat]
    BY DEF WatchInit, All
  <2>4. /\ fell \subseteq Item /\ disabled \in BOOLEAN /\ spool \subseteq Event /\ quiet \in BOOLEAN
        /\ seenFell \subseteq Item /\ todo \subseteq IdMatched /\ done \subseteq IdMatched
        /\ alerts \subseteq Item /\ events \subseteq Event /\ told \subseteq Event
        /\ mine \subseteq {"sent", "posted"} \X Item /\ hush \in BOOLEAN
    BY DEF WatchInit
  <2>5. wacts \in 0 .. MaxWatchAct /\ wfaults \in 0 .. MaxWatchFault
        /\ wpc \in {"off", "fetch", "import", "alerts", "events", "digest"}
    BY DEF WatchInit
  <2> QED
    BY <2>1, <2>2, <2>3, <2>4, <2>5 DEF WatchTypeOK
<1>2. \A d \in Item : sent[d] = 0 /\ again[d] = 0 /\ posted[d] = 0
  BY DEF WatchInit, All
<1> QED
  BY <1>1, <1>2 DEF WatchInit, WatchIInv, MemoryInv, SentInv, PostedInv, EventsKept

\* The inductive invariant holds in every state of every instance.
THEOREM WatchInvariance == WatchSpec => []WatchIInv
<1>1. WatchIInv /\ [WatchNext]_wvars => WatchIInv'
  BY WatchTypeStep, WatchMemoryStep, WatchSentStep, WatchPostedStep, WatchEventsStep DEF WatchIInv
<1> QED
  BY WatchInitInv, <1>1, PTL DEF WatchSpec

\* queue-watchdog.py:3: for any number of downloads, over any failures of the
\* calls, any quiet hours and unreadable queues, a download that stays blocked
\* is told of at most once, and once more for each time that the run which
\* told of it died, that Telegram's answer was lost, or that Sonarr accepted an
\* import and did not do it.
THEOREM WatchTellsOnce == WatchSpec => []OnceTold
<1>1. WatchIInv => OnceTold
  BY DEF WatchIInv, OnceTold, SentInv
<1> QED
  BY WatchInvariance, <1>1, PTL

\* queue-watchdog.py:7: an import is commanded once per download, also when
\* the answer to the command is lost.
THEOREM WatchImportsOnce == WatchSpec => []ImportOnce
<1>1. WatchIInv => ImportOnce
  BY DEF WatchIInv, ImportOnce, PostedInv
<1> QED
  BY WatchInvariance, <1>1, PTL

\* queue-watchdog.py:4: an event file that is gone was sent, is noted for the
\* digest or has been in it before it was pruned, unless the run that took it
\* down died or had more than DIGEST_MAX to say.
THEOREM WatchKeepsEvents == WatchSpec => []EventsKept
<1> QED
  BY WatchInvariance, PTL DEF WatchIInv

-----------------------------------------------------------------------------
(* DownloadScan. *)

\* What the nightly scan may find is finite: one hit per link of a file.
LEMMA HitsFinite ==
  ASSUME ScanTypeOK PROVE IsFiniteSet(hits)
<1> DEFINE A == Path \X SUBSET Path
           S == File \X A
           T == File \X Path \X (SUBSET Path)
           m == [x \in S |-> <<x[1], x[2][1], x[2][2]>>]
<1>1. IsFiniteSet(Path)
  BY ScanAssumption, FS_AddElement DEF Path
<1>2. IsFiniteSet(SUBSET Path)
  BY <1>1, FS_SUBSET
<1>3. IsFiniteSet(A)
  BY <1>1, <1>2, FS_Product
<1>4. IsFiniteSet(S)
  BY <1>3, ScanAssumption, FS_Product
<1>5. m \in Surjection(S, T)
  <2>1. m \in [S -> T]
    OBVIOUS
  <2>2. ASSUME NEW t \in T PROVE \E x \in S : m[x] = t
    <3>1. <<t[1], <<t[2], t[3]>>>> \in S
      OBVIOUS
    <3>2. m[<<t[1], <<t[2], t[3]>>>>] = t
      BY <3>1
    <3> QED BY <3>1, <3>2
  <2> QED BY <2>1, <2>2 DEF Surjection
<1>6. IsFiniteSet(T)
  <2> HIDE DEF S, T, m
  <2> QED BY <1>4, <1>5, FS_Surjection
<1> QED BY <1>6, FS_Subset DEF ScanTypeOK

\* Every step keeps the types.
LEMMA ScanTypeStep ==
  ASSUME ScanTypeOK, WorkerInv, [ScanNext]_svars PROVE ScanTypeOK'
<1>0. worker # "idle" => link \in File
  BY DEF ScanTypeOK, WorkerInv
<1> USE ScanAssumption DEF ScanTypeOK, Path, stored, worked, nights, Step, Works, Nightly, ScanWorld, NoWorld,
       NoMove, Untouched, Fine, ScanFault, Goto, Touch, Fails, Quarantine
<1>1. ASSUME NEW f \in File, Begin(f) PROVE ScanTypeOK'
  BY <1>1 DEF Begin
<1>2. ASSUME NEW f \in File, Link(f) PROVE ScanTypeOK'
  BY <1>2 DEF Link
<1>3. ASSUME NEW f \in File, Name(f) PROVE ScanTypeOK'
  BY <1>3 DEF Name
<1>4. ASSUME NEW f \in File, Scan(f) PROVE ScanTypeOK'
  BY <1>4 DEF Scan
<1>5. ASSUME NEW f \in File, Move(f) PROVE ScanTypeOK'
  BY <1>5 DEF Move
<1>6. ASSUME NEW f \in File, HookKilled(f) PROVE ScanTypeOK'
  BY <1>6 DEF HookKilled
<1>7. ASSUME NEW f \in File, Adopt(f) PROVE ScanTypeOK'
  BY <1>7 DEF Adopt
<1>8. ASSUME NEW f \in File, Take(f) PROVE ScanTypeOK'
  BY <1>8 DEF Take
<1>9. ASSUME Verdict PROVE ScanTypeOK'
  BY <1>0, <1>9, SMTT(30) DEF Verdict
<1>10. ASSUME Walk PROVE ScanTypeOK'
  BY <1>10 DEF Walk, Links
<1>11. ASSUME NEW p \in Path, Remove(p) PROVE ScanTypeOK'
  BY <1>11 DEF Remove
<1>12. ASSUME Keep PROVE ScanTypeOK'
  <2>1. Where \in Path
    BY <1>0, <1>12 DEF Keep, Where
  <2>2. taken' \subseteq Path
    BY <1>12 DEF Keep, Forget
  <2>3. (lines \in [Path -> Nat] /\ quarantine \subseteq File \X Path)'
    BY <1>0, <1>12, <2>1 DEF Keep
  <2>4. (fresh \subseteq File /\ changed \subseteq fresh /\ missed \subseteq File /\ queue \subseteq File)'
    BY <1>0, <1>12 DEF Keep
  <2>5. sfaults' \in 0 .. MaxScanFault /\ (worker' = "idle" /\ link' = None /\ found' = {} /\ others' = {})
    BY <1>12 DEF Keep
  <2>6. UNCHANGED <<at, allow, moves, hook, nights, tmp>>
    BY <1>12 DEF Keep
  <2> QED BY <2>2, <2>3, <2>4, <2>5, <2>6
<1>13. ASSUME WorkerKilled PROVE ScanTypeOK'
  BY <1>13 DEF WorkerKilled, Forget
<1>14. ASSUME NightStart PROVE ScanTypeOK'
  BY <1>14 DEF NightStart
<1>15. ASSUME List PROVE ScanTypeOK'
  <2>1. (list \subseteq Path \X (SUBSET Path))'
    BY <1>15 DEF List, Links
  <2>2. (hits \subseteq File \X Path \X (SUBSET Path))'
    BY <1>15 DEF List, Links
  <2>3. night' \in {"scan"} /\ signs' \subseteq {"error", "silent", "gone"} /\ (sfaults' = sfaults \/ ScanFault)
    BY <1>15 DEF List, Links
  <2>4. (at \in [Path -> File \cup {None}] /\ quarantine \subseteq File \X Path)'
    BY <1>15, SMTT(30) DEF List, Links
  <2>5. (fresh \subseteq File /\ changed \subseteq fresh /\ missed \subseteq File)'
    BY <1>15 DEF List, Links
  <2>6. UNCHANGED <<lines, allow, hook, worked, taken, moves>>
    BY <1>15 DEF List, Links
  <2> QED BY <2>1, <2>2, <2>3, <2>4, <2>5, <2>6
<1>16. ASSUME NightScan PROVE ScanTypeOK'
  <2>1. (list \subseteq Path \X (SUBSET Path))'
    BY <1>16 DEF NightScan, Miss
  <2>2. (hits \subseteq File \X Path \X (SUBSET Path))'
    BY <1>16 DEF NightScan, Miss
  <2>3. night' \in {"scan"} /\ signs' \subseteq {"error", "silent", "gone"} /\ (sfaults' = sfaults \/ ScanFault)
    BY <1>16 DEF NightScan, Miss
  <2>4. (at \in [Path -> File \cup {None}] /\ quarantine \subseteq File \X Path)'
    BY <1>16, SMTT(30) DEF NightScan, Miss
  <2>5. (fresh \subseteq File /\ changed \subseteq fresh /\ missed \subseteq File)'
    BY <1>16 DEF NightScan, Miss
  <2>6. UNCHANGED <<lines, allow, hook, worked, taken, moves>>
    BY <1>16 DEF NightScan, Miss
  <2> QED BY <2>1, <2>2, <2>3, <2>4, <2>5, <2>6
<1>17. ASSUME NightLinks PROVE ScanTypeOK'
  BY <1>17 DEF NightLinks
<1>18. ASSUME NightEnd PROVE ScanTypeOK'
  <2>1. ASSUME NEW p \in Path PROVE Indexed[p] \in Nat
    <3> DEFINE H == {h \in hits : h[2] = p}
    <3>1. Cardinality(H) \in Nat
      BY HitsFinite, FS_Subset, FS_CardinalityType
    <3> QED BY <3>1 DEF Indexed
  <2>2. Indexed \in [Path -> Nat]
    BY <2>1 DEF Indexed
  <2>3. taken' \subseteq Path
    BY <1>18 DEF NightEnd, Forget
  <2>4. (fresh \subseteq File /\ changed \subseteq fresh /\ missed \subseteq File)'
    BY <1>18 DEF NightEnd
  <2>5. (lines \in [Path -> Nat])' /\ hits' = {} /\ signs' = {} /\ night' = "off" /\ UNCHANGED list
    BY <1>18, <2>2 DEF NightEnd
  <2>6. UNCHANGED <<allow, moves, hook, worked, at, quarantine, sfaults>>
    BY <1>18 DEF NightEnd
  <2> QED BY <2>3, <2>4, <2>5, <2>6
<1>19. ASSUME NightKilled PROVE ScanTypeOK'
  <2>1. night' = "off" /\ list' = {} /\ hits' = {} /\ signs' = {}
        /\ missed' \subseteq missed /\ taken' \subseteq taken
    BY <1>19 DEF NightKilled, Forget
  <2>2. sfaults' \in 0 .. MaxScanFault
    BY <1>19 DEF NightKilled, Forget
  <2>3. UNCHANGED <<at, quarantine, lines, allow, fresh, changed, hook, worked, moves>>
    BY <1>19 DEF NightKilled
  <2> QED BY <2>1, <2>2, <2>3
<1>20. ASSUME NEW f \in File, Complete(f) PROVE ScanTypeOK'
  BY <1>20 DEF Complete
<1>21. ASSUME NEW f \in File, Import(f) PROVE ScanTypeOK'
  BY <1>21, SMTT(30) DEF Import, Taken, Noted
<1>22. ASSUME NEW p \in Path, Delete(p) PROVE ScanTypeOK'
  BY <1>22, SMTT(30) DEF Delete
<1>23. ASSUME NEW f \in File, NEW p \in Path, Restore(f, p) PROVE ScanTypeOK'
  BY <1>23, SMTT(30) DEF Restore, Taken, Noted
<1>24. ASSUME UNCHANGED svars PROVE ScanTypeOK'
  BY <1>24 DEF svars
<1>25. ASSUME NightSilent PROVE ScanTypeOK'
  BY <1>25 DEF NightSilent, Miss
<1> QED
  BY <1>1, <1>2, <1>3, <1>4, <1>5, <1>6, <1>7, <1>8, <1>9, <1>10, <1>11, <1>12, <1>13, <1>14, <1>15, <1>16,
         <1>17, <1>18, <1>19, <1>20, <1>21, <1>22, <1>23, <1>24, <1>25 DEF ScanNext, Hook, Worker, NightRun, Others,
         Kills

\* A job that a hook has not finished yet is its own link of its own file.
LEMMA ScanHookStep ==
  ASSUME ScanTypeOK, HookInv, [ScanNext]_svars PROVE HookInv'
<1> USE ScanAssumption DEF ScanTypeOK, Path, stored, worked, nights, Step, Works, Nightly, ScanWorld, NoWorld,
       NoMove, Untouched, Fine, ScanFault, Goto, Touch, Fails, Quarantine, HookInv
<1>1. ASSUME NEW f \in File, Begin(f) PROVE HookInv'
  BY <1>1 DEF Begin
<1>2. ASSUME NEW f \in File, Link(f) PROVE HookInv'
  BY <1>2 DEF Link
<1>3. ASSUME NEW f \in File, Name(f) PROVE HookInv'
  BY <1>3 DEF Name
<1>4. ASSUME NEW f \in File, Scan(f) PROVE HookInv'
  BY <1>4 DEF Scan
<1>5. ASSUME NEW f \in File, Move(f) PROVE HookInv'
  BY <1>5 DEF Move
<1>6. ASSUME NEW f \in File, HookKilled(f) PROVE HookInv'
  BY <1>6 DEF HookKilled
<1>7. ASSUME NEW f \in File, Adopt(f) PROVE HookInv'
  BY <1>7 DEF Adopt
<1>8. ASSUME NEW f \in File, Take(f) PROVE HookInv'
  BY <1>8 DEF Take
<1>9. ASSUME Verdict PROVE HookInv'
  BY <1>9 DEF Verdict
<1>10. ASSUME Walk PROVE HookInv'
  BY <1>10 DEF Walk
<1>11. ASSUME NEW p \in Path, Remove(p) PROVE HookInv'
  BY <1>11 DEF Remove
<1>12. ASSUME Keep PROVE HookInv'
  BY <1>12 DEF Keep, Forget
<1>13. ASSUME WorkerKilled PROVE HookInv'
  BY <1>13 DEF WorkerKilled, Forget
<1>14. ASSUME NightStart PROVE HookInv'
  BY <1>14 DEF NightStart
<1>15. ASSUME List PROVE HookInv'
  BY <1>15 DEF List
<1>16. ASSUME NightScan PROVE HookInv'
  BY <1>16 DEF NightScan, Miss
<1>17. ASSUME NightLinks PROVE HookInv'
  BY <1>17 DEF NightLinks
<1>18. ASSUME NightEnd PROVE HookInv'
  BY <1>18 DEF NightEnd, Forget
<1>19. ASSUME NightKilled PROVE HookInv'
  BY <1>19 DEF NightKilled, Forget
<1>20. ASSUME NEW f \in File, Complete(f) PROVE HookInv'
  BY <1>20 DEF Complete
<1>21. ASSUME NEW f \in File, Import(f) PROVE HookInv'
  BY <1>21 DEF Import
<1>22. ASSUME NEW p \in Path, Delete(p) PROVE HookInv'
  BY <1>22 DEF Delete
<1>23. ASSUME NEW f \in File, NEW p \in Path, Restore(f, p) PROVE HookInv'
  BY <1>23 DEF Restore
<1>24. ASSUME UNCHANGED svars PROVE HookInv'
  BY <1>24 DEF svars
<1>25. ASSUME NightSilent PROVE HookInv'
  BY <1>25 DEF NightSilent, Miss
<1> QED
  BY <1>1, <1>2, <1>3, <1>4, <1>5, <1>6, <1>7, <1>8, <1>9, <1>10, <1>11, <1>12, <1>13, <1>14, <1>15, <1>16,
         <1>17, <1>18, <1>19, <1>20, <1>21, <1>22, <1>23, <1>24, <1>25 DEF ScanNext, Hook, Worker, NightRun, Others,
         Kills

\* What is at a path, in quarantine or in the list of allowed files stays
\* where it belongs.
LEMMA ScanPlaceStep ==
  ASSUME ScanTypeOK, PlaceInv, WorkerInv, [ScanNext]_svars PROVE PlaceInv'
<1> USE ScanAssumption DEF ScanTypeOK, Path, stored, worked, nights, Step, Works, Nightly, ScanWorld, NoWorld,
       NoMove, Untouched, Fine, ScanFault, Goto, Touch, Fails, Quarantine, PlaceInv, Belongs
<1>1. ASSUME NEW f \in File, Begin(f) PROVE PlaceInv'
  BY <1>1 DEF Begin
<1>2. ASSUME NEW f \in File, Link(f) PROVE PlaceInv'
  BY <1>2 DEF Link
<1>3. ASSUME NEW f \in File, Name(f) PROVE PlaceInv'
  BY <1>3 DEF Name
<1>4. ASSUME NEW f \in File, Scan(f) PROVE PlaceInv'
  BY <1>4 DEF Scan
<1>5. ASSUME NEW f \in File, Move(f) PROVE PlaceInv'
  BY <1>5 DEF Move
<1>6. ASSUME NEW f \in File, HookKilled(f) PROVE PlaceInv'
  BY <1>6 DEF HookKilled
<1>7. ASSUME NEW f \in File, Adopt(f) PROVE PlaceInv'
  BY <1>7 DEF Adopt
<1>8. ASSUME NEW f \in File, Take(f) PROVE PlaceInv'
  BY <1>8 DEF Take
<1>9. ASSUME Verdict PROVE PlaceInv'
  BY <1>9 DEF Verdict
<1>10. ASSUME Walk PROVE PlaceInv'
  BY <1>10 DEF Walk
<1>11. ASSUME NEW p \in Path, Remove(p) PROVE PlaceInv'
  BY <1>11 DEF Remove
<1>12. ASSUME Keep PROVE PlaceInv'
  <2>1. Belongs(Where, link)
    BY DEF Where, WorkerInv
  <2>2. quarantine' \subseteq quarantine \cup {<<link, Where>>} /\ UNCHANGED at
    BY <1>12 DEF Keep, Forget
  <2> QED BY <2>1, <2>2
<1>13. ASSUME WorkerKilled PROVE PlaceInv'
  BY <1>13 DEF WorkerKilled, Forget
<1>14. ASSUME NightStart PROVE PlaceInv'
  BY <1>14 DEF NightStart
<1>15. ASSUME List PROVE PlaceInv'
  BY <1>15 DEF List
<1>16. ASSUME NightScan PROVE PlaceInv'
  BY <1>16 DEF NightScan, Miss
<1>17. ASSUME NightLinks PROVE PlaceInv'
  BY <1>17 DEF NightLinks
<1>18. ASSUME NightEnd PROVE PlaceInv'
  BY <1>18 DEF NightEnd, Forget
<1>19. ASSUME NightKilled PROVE PlaceInv'
  BY <1>19 DEF NightKilled, Forget
<1>20. ASSUME NEW f \in File, Complete(f) PROVE PlaceInv'
  BY <1>20 DEF Complete
<1>21. ASSUME NEW f \in File, Import(f) PROVE PlaceInv'
  BY <1>21 DEF Import
<1>22. ASSUME NEW p \in Path, Delete(p) PROVE PlaceInv'
  BY <1>22 DEF Delete
<1>23. ASSUME NEW f \in File, NEW p \in Path, Restore(f, p) PROVE PlaceInv'
  BY <1>23 DEF Restore
<1>24. ASSUME UNCHANGED svars PROVE PlaceInv'
  BY <1>24 DEF svars
<1>25. ASSUME NightSilent PROVE PlaceInv'
  BY <1>25 DEF NightSilent, Miss
<1> QED
  BY <1>1, <1>2, <1>3, <1>4, <1>5, <1>6, <1>7, <1>8, <1>9, <1>10, <1>11, <1>12, <1>13, <1>14, <1>15, <1>16,
         <1>17, <1>18, <1>19, <1>20, <1>21, <1>22, <1>23, <1>24, <1>25 DEF ScanNext, Hook, Worker, NightRun, Others,
         Kills

\* The worker's step agrees with the links that it has found.
LEMMA ScanWorkerStep ==
  ASSUME ScanTypeOK, PlaceInv, WorkerInv, [ScanNext]_svars PROVE WorkerInv'
<1> USE ScanAssumption DEF ScanTypeOK, Path, stored, worked, nights, Step, Works, Nightly, ScanWorld, NoWorld,
       NoMove, Untouched, Fine, ScanFault, Goto, Touch, Fails, Quarantine, PlaceInv, WorkerInv, Belongs
<1>1. ASSUME NEW f \in File, Begin(f) PROVE WorkerInv'
  BY <1>1 DEF Begin
<1>2. ASSUME NEW f \in File, Link(f) PROVE WorkerInv'
  BY <1>2 DEF Link
<1>3. ASSUME NEW f \in File, Name(f) PROVE WorkerInv'
  BY <1>3 DEF Name
<1>4. ASSUME NEW f \in File, Scan(f) PROVE WorkerInv'
  BY <1>4 DEF Scan
<1>5. ASSUME NEW f \in File, Move(f) PROVE WorkerInv'
  BY <1>5 DEF Move
<1>6. ASSUME NEW f \in File, HookKilled(f) PROVE WorkerInv'
  BY <1>6 DEF HookKilled
<1>7. ASSUME NEW f \in File, Adopt(f) PROVE WorkerInv'
  BY <1>7 DEF Adopt
<1>8. ASSUME NEW f \in File, Take(f) PROVE WorkerInv'
  BY <1>8 DEF Take
<1>9. ASSUME Verdict PROVE WorkerInv'
  BY <1>9 DEF Verdict
<1>10. ASSUME Walk PROVE WorkerInv'
  BY <1>10 DEF Walk, Links
<1>11. ASSUME NEW p \in Path, Remove(p) PROVE WorkerInv'
  BY <1>11 DEF Remove
<1>12. ASSUME Keep PROVE WorkerInv'
  BY <1>12 DEF Keep, Forget
<1>13. ASSUME WorkerKilled PROVE WorkerInv'
  BY <1>13 DEF WorkerKilled, Forget
<1>14. ASSUME NightStart PROVE WorkerInv'
  BY <1>14 DEF NightStart
<1>15. ASSUME List PROVE WorkerInv'
  BY <1>15 DEF List
<1>16. ASSUME NightScan PROVE WorkerInv'
  BY <1>16 DEF NightScan, Miss
<1>17. ASSUME NightLinks PROVE WorkerInv'
  BY <1>17 DEF NightLinks
<1>18. ASSUME NightEnd PROVE WorkerInv'
  <2>1. UNCHANGED <<at, worked>> /\ Forget
    BY <1>18 DEF NightEnd
  <2>2. taken \cap others \subseteq taken'
    BY <2>1 DEF Forget, Noted
  <2> QED BY <2>1, <2>2
<1>19. ASSUME NightKilled PROVE WorkerInv'
  <2>1. UNCHANGED <<at, worked>> /\ Forget
    BY <1>19 DEF NightKilled
  <2>2. taken \cap others \subseteq taken'
    BY <2>1 DEF Forget, Noted
  <2> QED BY <2>1, <2>2
<1>20. ASSUME NEW f \in File, Complete(f) PROVE WorkerInv'
  BY <1>20 DEF Complete
<1>21. ASSUME NEW f \in File, Import(f) PROVE WorkerInv'
  BY <1>21 DEF Import, Taken, Noted
<1>22. ASSUME NEW p \in Path, Delete(p) PROVE WorkerInv'
  BY <1>22 DEF Delete
<1>23. ASSUME NEW f \in File, NEW p \in Path, Restore(f, p) PROVE WorkerInv'
  BY <1>23 DEF Restore, Taken, Noted
<1>24. ASSUME UNCHANGED svars PROVE WorkerInv'
  BY <1>24 DEF svars
<1>25. ASSUME NightSilent PROVE WorkerInv'
  BY <1>25 DEF NightSilent, Miss
<1> QED
  BY <1>1, <1>2, <1>3, <1>4, <1>5, <1>6, <1>7, <1>8, <1>9, <1>10, <1>11, <1>12, <1>13, <1>14, <1>15, <1>16,
         <1>17, <1>18, <1>19, <1>20, <1>21, <1>22, <1>23, <1>24, <1>25 DEF ScanNext, Hook, Worker, NightRun, Others,
         Kills

\* A path keeps its file, loses it, gets its own download, or is taken, with
\* all that was noted together with it.
AtStep ==
  /\ taken \cap UNION Noted' \subseteq taken'
  /\ \A p \in Path : \/ at'[p] \in {at[p], None} \/ (p \in File /\ at'[p] = p)
                     \/ \A paths \in Noted : p \in paths => paths \subseteq taken'

\* What a path holds after a step that brings no new file.
LEMMA ScanAtStep ==
  ASSUME ScanTypeOK, PlaceInv, WorkerInv, [ScanNext]_svars PROVE AtStep
<1> USE ScanAssumption DEF ScanTypeOK, Path, stored, worked, nights, Step, Works, Nightly, ScanWorld, NoWorld,
       NoMove, Untouched, Fine, ScanFault, Goto, Touch, Fails, Quarantine, PlaceInv, AtStep
<1>1. ASSUME NEW f \in File, Begin(f) PROVE AtStep
  BY <1>1 DEF Begin
<1>2. ASSUME NEW f \in File, Link(f) PROVE AtStep
  BY <1>2 DEF Link
<1>3. ASSUME NEW f \in File, Name(f) PROVE AtStep
  BY <1>3 DEF Name
<1>4. ASSUME NEW f \in File, Scan(f) PROVE AtStep
  BY <1>4 DEF Scan
<1>5. ASSUME NEW f \in File, Move(f) PROVE AtStep
  BY <1>5 DEF Move
<1>6. ASSUME NEW f \in File, HookKilled(f) PROVE AtStep
  BY <1>6 DEF HookKilled
<1>7. ASSUME NEW f \in File, Adopt(f) PROVE AtStep
  BY <1>7 DEF Adopt
<1>8. ASSUME NEW f \in File, Take(f) PROVE AtStep
  BY <1>8 DEF Take
<1>9. ASSUME Verdict PROVE AtStep
  BY <1>9 DEF Verdict
<1>10. ASSUME Walk PROVE AtStep
  BY <1>10 DEF Walk
<1>11. ASSUME NEW p \in Path, Remove(p) PROVE AtStep
  BY <1>11 DEF Remove
<1>12. ASSUME Keep PROVE AtStep
  BY <1>12 DEF Keep, Forget
<1>13. ASSUME WorkerKilled PROVE AtStep
  BY <1>13 DEF WorkerKilled, Forget
<1>14. ASSUME NightStart PROVE AtStep
  BY <1>14 DEF NightStart
<1>15. ASSUME List PROVE AtStep
  BY <1>15 DEF List
<1>16. ASSUME NightScan PROVE AtStep
  BY <1>16 DEF NightScan, Miss
<1>17. ASSUME NightLinks PROVE AtStep
  BY <1>17 DEF NightLinks
<1>18. ASSUME NightEnd PROVE AtStep
  BY <1>18 DEF NightEnd, Forget
<1>19. ASSUME NightKilled PROVE AtStep
  BY <1>19 DEF NightKilled, Forget
<1>20. ASSUME NEW f \in File, Complete(f) PROVE AtStep
  BY <1>20 DEF Complete
<1>21. ASSUME NEW f \in File, Import(f) PROVE AtStep
  BY <1>21 DEF Import, Taken
<1>22. ASSUME NEW p \in Path, Delete(p) PROVE AtStep
  BY <1>22 DEF Delete
<1>23. ASSUME NEW f \in File, NEW p \in Path, Restore(f, p) PROVE AtStep
  BY <1>23 DEF Restore, Taken
<1>24. ASSUME UNCHANGED svars PROVE AtStep
  BY <1>24 DEF svars
<1>25. ASSUME NightSilent PROVE AtStep
  BY <1>25 DEF NightSilent, Miss
<1> QED
  BY <1>1, <1>2, <1>3, <1>4, <1>5, <1>6, <1>7, <1>8, <1>9, <1>10, <1>11, <1>12, <1>13, <1>14, <1>15, <1>16,
         <1>17, <1>18, <1>19, <1>20, <1>21, <1>22, <1>23, <1>24, <1>25 DEF ScanNext, Hook, Worker, NightRun, Others,
         Kills

\* The list of the night names what was fresh, or is being collected.
LEMMA ScanListStep ==
  ASSUME ScanTypeOK, WorkerInv, [ScanNext]_svars PROVE list' \subseteq list \/ List
<1> USE ScanAssumption DEF ScanTypeOK, Path, stored, worked, nights, Step, Works, Nightly, ScanWorld, NoWorld,
       NoMove, Untouched, Fine, ScanFault, Goto, Touch, Fails, Quarantine
<1>1. ASSUME NEW f \in File, Begin(f) PROVE list' \subseteq list \/ List
  BY <1>1 DEF Begin
<1>2. ASSUME NEW f \in File, Link(f) PROVE list' \subseteq list \/ List
  BY <1>2 DEF Link
<1>3. ASSUME NEW f \in File, Name(f) PROVE list' \subseteq list \/ List
  BY <1>3 DEF Name
<1>4. ASSUME NEW f \in File, Scan(f) PROVE list' \subseteq list \/ List
  BY <1>4 DEF Scan
<1>5. ASSUME NEW f \in File, Move(f) PROVE list' \subseteq list \/ List
  BY <1>5 DEF Move
<1>6. ASSUME NEW f \in File, HookKilled(f) PROVE list' \subseteq list \/ List
  BY <1>6 DEF HookKilled
<1>7. ASSUME NEW f \in File, Adopt(f) PROVE list' \subseteq list \/ List
  BY <1>7 DEF Adopt
<1>8. ASSUME NEW f \in File, Take(f) PROVE list' \subseteq list \/ List
  BY <1>8 DEF Take
<1>9. ASSUME Verdict PROVE list' \subseteq list \/ List
  BY <1>9 DEF Verdict
<1>10. ASSUME Walk PROVE list' \subseteq list \/ List
  BY <1>10 DEF Walk
<1>11. ASSUME NEW p \in Path, Remove(p) PROVE list' \subseteq list \/ List
  BY <1>11 DEF Remove
<1>12. ASSUME Keep PROVE list' \subseteq list \/ List
  BY <1>12 DEF Keep, Forget
<1>13. ASSUME WorkerKilled PROVE list' \subseteq list \/ List
  BY <1>13 DEF WorkerKilled, Forget
<1>14. ASSUME NightStart PROVE list' \subseteq list \/ List
  BY <1>14 DEF NightStart
<1>15. ASSUME List PROVE list' \subseteq list \/ List
  BY <1>15 DEF List
<1>16. ASSUME NightScan PROVE list' \subseteq list \/ List
  BY <1>16 DEF NightScan, Miss
<1>17. ASSUME NightLinks PROVE list' \subseteq list \/ List
  BY <1>17 DEF NightLinks
<1>18. ASSUME NightEnd PROVE list' \subseteq list \/ List
  BY <1>18 DEF NightEnd, Forget
<1>19. ASSUME NightKilled PROVE list' \subseteq list \/ List
  BY <1>19 DEF NightKilled, Forget
<1>20. ASSUME NEW f \in File, Complete(f) PROVE list' \subseteq list \/ List
  BY <1>20 DEF Complete
<1>21. ASSUME NEW f \in File, Import(f) PROVE list' \subseteq list \/ List
  BY <1>21 DEF Import
<1>22. ASSUME NEW p \in Path, Delete(p) PROVE list' \subseteq list \/ List
  BY <1>22 DEF Delete
<1>23. ASSUME NEW f \in File, NEW p \in Path, Restore(f, p) PROVE list' \subseteq list \/ List
  BY <1>23 DEF Restore
<1>24. ASSUME UNCHANGED svars PROVE list' \subseteq list \/ List
  BY <1>24 DEF svars
<1>25. ASSUME NightSilent PROVE list' \subseteq list \/ List
  BY <1>25 DEF NightSilent, Miss
<1> QED
  BY <1>1, <1>2, <1>3, <1>4, <1>5, <1>6, <1>7, <1>8, <1>9, <1>10, <1>11, <1>12, <1>13, <1>14, <1>15, <1>16,
         <1>17, <1>18, <1>19, <1>20, <1>21, <1>22, <1>23, <1>24, <1>25 DEF ScanNext, Hook, Worker, NightRun, Others,
         Kills

\* A hit that still stands after a step stood before it.
LEMMA ScanHoldStep ==
  ASSUME AtStep, NEW paths \in Noted, paths \subseteq Path, NEW f \in File, NEW part \in SUBSET paths,
         Hold(part, f)
  PROVE  part \subseteq taken' \/ Hold(part, f)'
<1>1. CASE \E p \in part : at'[p] \notin {at[p], None} /\ ~(p \in File /\ at'[p] = p)
  BY <1>1 DEF AtStep
<1>2. CASE \A p \in part : at'[p] \in {at[p], None} \/ (p \in File /\ at'[p] = p)
  BY <1>2 DEF Hold, Belongs
<1> QED BY <1>1, <1>2

\* The hits of a list that was just scanned name the files as they are.
LEMMA ScanNotedList ==
  ASSUME ScanTypeOK, PlaceInv, WorkerInv, NotedInv, [ScanNext]_svars, NEW e \in list'
  PROVE  ({e[1]} \cup e[2] \subseteq taken \/ \E f \in File : Hold({e[1]} \cup e[2], f))'
<1>1. CASE e \in list
  <2> DEFINE paths == {e[1]} \cup e[2]
  <2>1. paths \in Noted /\ paths \subseteq Path
    BY <1>1 DEF Noted, ScanTypeOK
  <2>2. AtStep
    BY ScanAtStep
  <2>3. CASE paths \subseteq taken
    <3>1. paths \in Noted'
      BY DEF Noted
    <3> QED BY <2>2, <2>3, <3>1 DEF AtStep
  <2>4. CASE \E f \in File : Hold(paths, f)
    <3>1. PICK f \in File : Hold(paths, f)
      BY <2>4
    <3>2. paths \subseteq taken' \/ Hold(paths, f)'
      BY <2>1, <2>2, <3>1, ScanHoldStep
    <3> QED BY <3>2
  <2> QED BY <1>1, <2>3, <2>4 DEF NotedInv
<1>2. CASE e \notin list
  <2>1. List
    BY <1>2, ScanListStep
  <2>2. PICK f \in File, p \in Path : e = <<p, Links(f) \ {p}>> /\ p \in Links(f)
    <3>1. PICK one \in [{f \in fresh : Links(f) # {}} -> Path] :
             /\ \A f \in DOMAIN one : one[f] \in Links(f)
             /\ list' = {<<one[f], Links(f) \ {one[f]}>> : f \in {g \in DOMAIN one : one[g] \notin allow}}
      BY <2>1 DEF List
    <3>2. PICK f \in DOMAIN one : e = <<one[f], Links(f) \ {one[f]}>>
      BY <3>1
    <3>3. f \in File /\ one[f] \in Path /\ one[f] \in Links(f)
      BY <3>1, <3>2 DEF ScanTypeOK
    <3> QED BY <3>2, <3>3
  <2>3. UNCHANGED at
    BY <2>1 DEF List, NoMove
  <2>4. {e[1]} \cup e[2] = Links(f)
    BY <2>2
  <2>5. \A q \in Links(f) : Belongs(q, f) /\ at'[q] = f
    BY <2>3, ScanAssumption DEF Links, Belongs, PlaceInv, ScanTypeOK, Path
  <2>6. Hold({e[1]} \cup e[2], f)'
    BY <2>4, <2>5 DEF Hold, Belongs
  <2> QED BY <2>6
<1> QED BY <1>1, <1>2

\* A hit is only ever dropped, but for the scan itself.
LEMMA ScanHitsStep ==
  ASSUME ScanTypeOK, WorkerInv, [ScanNext]_svars PROVE hits' \subseteq hits \/ NightScan \/ NightLinks
<1> USE ScanAssumption DEF ScanTypeOK, Path, stored, worked, nights, Step, Works, Nightly, ScanWorld, NoWorld,
       NoMove, Untouched, Fine, ScanFault, Goto, Touch, Fails, Quarantine
<1>1. ASSUME NEW f \in File, Begin(f) PROVE hits' \subseteq hits \/ NightScan \/ NightLinks
  BY <1>1 DEF Begin
<1>2. ASSUME NEW f \in File, Link(f) PROVE hits' \subseteq hits \/ NightScan \/ NightLinks
  BY <1>2 DEF Link
<1>3. ASSUME NEW f \in File, Name(f) PROVE hits' \subseteq hits \/ NightScan \/ NightLinks
  BY <1>3 DEF Name
<1>4. ASSUME NEW f \in File, Scan(f) PROVE hits' \subseteq hits \/ NightScan \/ NightLinks
  BY <1>4 DEF Scan
<1>5. ASSUME NEW f \in File, Move(f) PROVE hits' \subseteq hits \/ NightScan \/ NightLinks
  BY <1>5 DEF Move
<1>6. ASSUME NEW f \in File, HookKilled(f) PROVE hits' \subseteq hits \/ NightScan \/ NightLinks
  BY <1>6 DEF HookKilled
<1>7. ASSUME NEW f \in File, Adopt(f) PROVE hits' \subseteq hits \/ NightScan \/ NightLinks
  BY <1>7 DEF Adopt
<1>8. ASSUME NEW f \in File, Take(f) PROVE hits' \subseteq hits \/ NightScan \/ NightLinks
  BY <1>8 DEF Take
<1>9. ASSUME Verdict PROVE hits' \subseteq hits \/ NightScan \/ NightLinks
  BY <1>9 DEF Verdict
<1>10. ASSUME Walk PROVE hits' \subseteq hits \/ NightScan \/ NightLinks
  BY <1>10 DEF Walk
<1>11. ASSUME NEW p \in Path, Remove(p) PROVE hits' \subseteq hits \/ NightScan \/ NightLinks
  BY <1>11 DEF Remove
<1>12. ASSUME Keep PROVE hits' \subseteq hits \/ NightScan \/ NightLinks
  BY <1>12 DEF Keep, Forget
<1>13. ASSUME WorkerKilled PROVE hits' \subseteq hits \/ NightScan \/ NightLinks
  BY <1>13 DEF WorkerKilled, Forget
<1>14. ASSUME NightStart PROVE hits' \subseteq hits \/ NightScan \/ NightLinks
  BY <1>14 DEF NightStart
<1>15. ASSUME List PROVE hits' \subseteq hits \/ NightScan \/ NightLinks
  BY <1>15 DEF List
<1>16. ASSUME NightScan PROVE hits' \subseteq hits \/ NightScan \/ NightLinks
  BY <1>16 DEF NightScan, Miss
<1>17. ASSUME NightLinks PROVE hits' \subseteq hits \/ NightScan \/ NightLinks
  BY <1>17 DEF NightLinks
<1>18. ASSUME NightEnd PROVE hits' \subseteq hits \/ NightScan \/ NightLinks
  BY <1>18 DEF NightEnd, Forget
<1>19. ASSUME NightKilled PROVE hits' \subseteq hits \/ NightScan \/ NightLinks
  BY <1>19 DEF NightKilled, Forget
<1>20. ASSUME NEW f \in File, Complete(f) PROVE hits' \subseteq hits \/ NightScan \/ NightLinks
  BY <1>20 DEF Complete
<1>21. ASSUME NEW f \in File, Import(f) PROVE hits' \subseteq hits \/ NightScan \/ NightLinks
  BY <1>21 DEF Import
<1>22. ASSUME NEW p \in Path, Delete(p) PROVE hits' \subseteq hits \/ NightScan \/ NightLinks
  BY <1>22 DEF Delete
<1>23. ASSUME NEW f \in File, NEW p \in Path, Restore(f, p)
PROVE hits' \subseteq hits \/ NightScan \/ NightLinks
  BY <1>23 DEF Restore
<1>24. ASSUME UNCHANGED svars PROVE hits' \subseteq hits \/ NightScan \/ NightLinks
  BY <1>24 DEF svars
<1>25. ASSUME NightSilent PROVE hits' \subseteq hits \/ NightScan \/ NightLinks
  BY <1>25 DEF NightSilent, Miss
<1> QED
  BY <1>1, <1>2, <1>3, <1>4, <1>5, <1>6, <1>7, <1>8, <1>9, <1>10, <1>11, <1>12, <1>13, <1>14, <1>15, <1>16,
         <1>17, <1>18, <1>19, <1>20, <1>21, <1>22, <1>23, <1>24, <1>25 DEF ScanNext, Hook, Worker, NightRun, Others,
         Kills

\* The hits that remain are as the disk shows them, or their path was taken.
LEMMA ScanNotedHits ==
  ASSUME ScanTypeOK, PlaceInv, WorkerInv, NotedInv, [ScanNext]_svars, NEW h \in hits'
  PROVE  (h[3] \subseteq taken \/ (h[1] \in Infected /\ Hold(h[3], h[1])))'
<1>0. AtStep /\ h[3] \subseteq UNION Noted'
  <2>1. ({h[2]} \cup h[3]) \in Noted'
    BY DEF Noted
  <2> QED BY <2>1, ScanAtStep
<1>1. ASSUME NEW g \in hits, NEW part \in SUBSET g[3], part \subseteq UNION Noted'
      PROVE  (part \subseteq taken \/ (g[1] \in Infected /\ Hold(part, g[1])))'
  <2> DEFINE paths == {g[2]} \cup g[3]
  <2>1. paths \in Noted /\ paths \subseteq Path /\ part \in SUBSET paths
    BY DEF Noted, ScanTypeOK
  <2>2. CASE g[3] \subseteq taken
    BY <1>0, <1>1, <2>2 DEF AtStep
  <2>3. CASE g[1] \in Infected /\ Hold(g[3], g[1])
    <3>1. Hold(part, g[1]) /\ g[1] \in File
      BY <2>3, ScanAssumption DEF Hold
    <3>2. part \subseteq taken' \/ Hold(part, g[1])'
      BY <1>0, <2>1, <3>1, ScanHoldStep
    <3> QED BY <2>3, <3>2
  <2> QED BY <2>2, <2>3 DEF NotedInv
<1>2. CASE NightScan
  <2>1. CASE h \in hits
    BY <1>0, <1>1, <2>1
  <2>2. CASE h \notin hits
    <3>1. PICK e \in list : at[e[1]] \in Infected /\ h = <<at[e[1]], e[1], e[2]>>
      BY <1>2, <2>2 DEF NightScan
    <3>2. e[1] \in Path /\ e[2] \subseteq Path
      BY DEF ScanTypeOK
    <3>3. at' = [at EXCEPT ![e[1]] = None] \/ at' = at
      BY <1>2, <2>2, <3>1 DEF NightScan
    <3>4. UNCHANGED taken
      BY <1>2 DEF NightScan, Nightly, NoWorld
    <3>5. CASE \E f \in File : Hold({e[1]} \cup e[2], f)
      <4>1. PICK f \in File : Hold({e[1]} \cup e[2], f)
        BY <3>5
      <4>2. f = at[e[1]]
        BY <3>1, <4>1, ScanAssumption DEF Hold
      <4>3. \A p \in e[2] : at'[p] \in {at[p], None}
        BY <1>0, <3>2, <3>3 DEF ScanTypeOK
      <4>4. Hold(e[2], f)'
        BY <4>1, <4>3 DEF Hold
      <4> QED BY <3>1, <4>2, <4>4
    <3> QED BY <3>1, <3>4, <3>5 DEF NotedInv
  <2> QED BY <2>1, <2>2
<1>3. CASE NightLinks
  <2>1. CASE h[3] = {}
    BY <2>1
  <2>2. CASE h[3] # {}
    <3>1. CASE h \in hits
      BY <1>0, <1>1, <3>1
    <3>2. CASE h \notin hits
      <4>1. PICK g \in hits, p \in Path :
               hits' \subseteq (hits \ {g}) \cup {<<g[1], g[2], g[3] \ {p}>>} \cup {<<at[p], p, {}>>}
        BY <1>3, <3>2 DEF NightLinks
      <4>2. h = <<g[1], g[2], g[3] \ {p}>>
        BY <2>2, <3>2, <4>1
      <4>3. h[1] = g[1] /\ h[3] \in SUBSET g[3]
        BY <4>2
      <4> QED BY <1>0, <1>1, <4>3
    <3> QED BY <3>1, <3>2
  <2> QED BY <2>1, <2>2
<1>4. CASE hits' \subseteq hits
  BY <1>0, <1>1, <1>4
<1> QED BY <1>2, <1>3, <1>4, ScanHitsStep

\* What a scanner noted of a path is so, or the path was taken since.
LEMMA ScanNotedStep ==
  ASSUME ScanTypeOK, PlaceInv, WorkerInv, NotedInv, [ScanNext]_svars PROVE NotedInv'
BY ScanNotedList, ScanNotedHits DEF NotedInv

\* Whatever comes to a path or leaves it is touched; only the beginning and
\* the end of a night forget a change, and only a touch or the end of a night
\* that lists the file again forgets that it was passed over.
TouchStep ==
  /\ \A p \in Path, f \in File : at'[p] # at[p] /\ f \in {at[p], at'[p]} => f \in changed'
  /\ allow \subseteq allow'
  /\ changed \subseteq changed' \/ (night = "off" /\ night' = "list")
  /\ fresh \subseteq fresh' \/ (night = "links" /\ "error" \notin signs /\ fresh' = changed)
  /\ \/ missed \subseteq missed' \cup changed'
     \/ (missed \subseteq missed' \cup fresh' /\ night' = "off")

\* A file that is loose after a step was so before it, or has just changed.
LEMMA ScanTouchStep ==
  ASSUME ScanTypeOK, PlaceInv, WorkerInv, [ScanNext]_svars PROVE TouchStep
<1> USE ScanAssumption DEF ScanTypeOK, Path, stored, worked, nights, Step, Works, Nightly, ScanWorld, NoWorld,
       NoMove, Untouched, Fine, ScanFault, Goto, Touch, Fails, Quarantine, PlaceInv, TouchStep
<1>1. ASSUME NEW f \in File, Begin(f) PROVE TouchStep
  BY <1>1 DEF Begin
<1>2. ASSUME NEW f \in File, Link(f) PROVE TouchStep
  BY <1>2 DEF Link
<1>3. ASSUME NEW f \in File, Name(f) PROVE TouchStep
  BY <1>3 DEF Name
<1>4. ASSUME NEW f \in File, Scan(f) PROVE TouchStep
  BY <1>4 DEF Scan
<1>5. ASSUME NEW f \in File, Move(f) PROVE TouchStep
  BY <1>5 DEF Move
<1>6. ASSUME NEW f \in File, HookKilled(f) PROVE TouchStep
  BY <1>6 DEF HookKilled
<1>7. ASSUME NEW f \in File, Adopt(f) PROVE TouchStep
  BY <1>7 DEF Adopt
<1>8. ASSUME NEW f \in File, Take(f) PROVE TouchStep
  BY <1>8 DEF Take
<1>9. ASSUME Verdict PROVE TouchStep
  BY <1>9 DEF Verdict
<1>10. ASSUME Walk PROVE TouchStep
  BY <1>10 DEF Walk
<1>11. ASSUME NEW p \in Path, Remove(p) PROVE TouchStep
  BY <1>11 DEF Remove
<1>12. ASSUME Keep PROVE TouchStep
  BY <1>12 DEF Keep, Forget
<1>13. ASSUME WorkerKilled PROVE TouchStep
  BY <1>13 DEF WorkerKilled, Forget
<1>14. ASSUME NightStart PROVE TouchStep
  BY <1>14 DEF NightStart
<1>15. ASSUME List PROVE TouchStep
  BY <1>15 DEF List
<1>16. ASSUME NightScan PROVE TouchStep
  BY <1>16 DEF NightScan, Miss
<1>17. ASSUME NightLinks PROVE TouchStep
  BY <1>17 DEF NightLinks
<1>18. ASSUME NightEnd PROVE TouchStep
  BY <1>18 DEF NightEnd, Good
<1>19. ASSUME NightKilled PROVE TouchStep
  BY <1>19 DEF NightKilled, Forget
<1>20. ASSUME NEW f \in File, Complete(f) PROVE TouchStep
  BY <1>20 DEF Complete
<1>21. ASSUME NEW f \in File, Import(f) PROVE TouchStep
  BY <1>21 DEF Import
<1>22. ASSUME NEW p \in Path, Delete(p) PROVE TouchStep
  BY <1>22 DEF Delete
<1>23. ASSUME NEW f \in File, NEW p \in Path, Restore(f, p) PROVE TouchStep
  BY <1>23 DEF Restore
<1>24. ASSUME UNCHANGED svars PROVE TouchStep
  BY <1>24 DEF svars
<1>25. ASSUME NightSilent PROVE TouchStep
  BY <1>25 DEF NightSilent, Miss
<1> QED
  BY <1>1, <1>2, <1>3, <1>4, <1>5, <1>6, <1>7, <1>8, <1>9, <1>10, <1>11, <1>12, <1>13, <1>14, <1>15, <1>16,
         <1>17, <1>18, <1>19, <1>20, <1>21, <1>22, <1>23, <1>24, <1>25 DEF ScanNext, Hook, Worker, NightRun, Others,
         Kills

\* A loose file was loose before on the same paths, or it has just changed.
LEMMA ScanLooseStep ==
  ASSUME ScanTypeOK, TouchStep, NEW f \in File, Loose(f)'
  PROVE  f \in changed' \/ (Loose(f) /\ \A p \in Path : at[p] = f <=> at'[p] = f)
<1>1. CASE \E p \in Path : at'[p] # at[p] /\ f \in {at[p], at'[p]}
  BY <1>1 DEF TouchStep
<1>2. CASE \A p \in Path : at[p] = f <=> at'[p] = f
  BY <1>2 DEF TouchStep, Loose, Links
<1> QED BY <1>1, <1>2

\* A file that was fresh stays fresh, or listed, until it has been scanned or
\* passed over.
LEMMA ScanListedStep ==
  ASSUME ScanTypeOK, [ScanNext]_svars, night' \in {"scan", "links"}, "error" \notin signs', CoverInv,
         NEW f \in File, Loose(f),
         \A p \in Path : at[p] = f <=> at'[p] = f
  PROVE  f \in changed \/ f \in missed \cup missed' \/ (night' = "scan" /\ \E e \in list' : at'[e[1]] = f)
<1>1. CASE List
  <2>1. (f \in fresh \/ f \in missed) /\ Links(f) # {} /\ Links(f) \cap allow = {} /\ night' = "scan"
    BY <1>1 DEF CoverInv, NightCovers, Loose, List
  <2>2. f \in fresh => \E p \in Path : p \in Links(f) /\ <<p, Links(f) \ {p}>> \in list'
    BY <1>1, <2>1 DEF List
  <2>3. at' = at
    BY <1>1 DEF List, NoMove
  <2> QED BY <2>1, <2>2, <2>3 DEF Links
<1>2. CASE NightScan
  <2>1. night = "scan" /\ night' = "scan" /\ "error" \notin signs
    BY <1>2 DEF NightScan, Nightly
  <2>2. ASSUME NEW e \in list, at[e[1]] = f, f \notin missed' PROVE e \in list'
    <3>1. e[1] \in Path /\ at'[e[1]] = f /\ f # None /\ f \in Infected
      BY <2>2, ScanAssumption DEF ScanTypeOK, Loose
    <3>2. PICK d \in list : /\ list' = list \ {d}
                            /\ \/ at[d[1]] \in Infected /\ at' = [at EXCEPT ![d[1]] = None]
                               \/ at[d[1]] \in File \ Infected
                               \/ at[d[1]] = None
                               \/ Miss({at[d[1]]})
      BY <1>2 DEF NightScan
    <3>3. d # e
      BY <2>2, <3>1, <3>2, ScanAssumption DEF ScanTypeOK, Miss
    <3> QED BY <3>2, <3>3
  <2> QED BY <2>1, <2>2 DEF CoverInv, ScanTypeOK
<1>3. CASE NightSilent
  <2>1. night = "scan" /\ night' = "scan" /\ "error" \notin signs
    BY <1>3 DEF NightSilent, Nightly
  <2>2. PICK part \in SUBSET list : list' = list \ part /\ Miss({at[e[1]] : e \in part}) /\ at' = at
    BY <1>3 DEF NightSilent
  <2>3. ASSUME NEW e \in list, at[e[1]] = f, f \notin missed' PROVE e \in list' /\ at'[e[1]] = f
    BY <2>2, <2>3 DEF Miss, Loose
  <2> QED BY <2>1, <2>3 DEF CoverInv
<1>4. CASE NightLinks
  BY <1>4 DEF NightLinks, Nightly, CoverInv, ScanTypeOK
<1>5. CASE UNCHANGED nights
  BY <1>5 DEF nights, CoverInv, ScanTypeOK
<1>6. CASE NightStart \/ NightEnd \/ NightKilled
  BY <1>6 DEF NightStart, NightEnd, NightKilled
<1>7. List \/ NightScan \/ NightSilent \/ NightLinks \/ UNCHANGED nights
      \/ NightStart \/ NightEnd \/ NightKilled
  BY DEF ScanNext, Hook, Worker, NightRun, Others, Kills, Begin, Link, Name, Scan, Move, Step, HookKilled,
         Adopt, Take, Verdict, Walk, Remove, Keep, Works, WorkerKilled, Complete, Import, Delete, Restore,
         ScanWorld, svars
<1> QED BY <1>1, <1>2, <1>3, <1>4, <1>5, <1>6, <1>7

\* An infected file that is loose is still to be seen by one of the scanners,
\* or a run has passed over it.
LEMMA ScanCoverStep ==
  ASSUME ScanTypeOK, PlaceInv, WorkerInv, CoverInv, [ScanNext]_svars, ScanTypeOK' PROVE CoverInv'
<1>1. TouchStep
  BY ScanTouchStep
<1>2. NightCovers'
  <2> SUFFICES ASSUME NEW f \in File, Loose(f)' PROVE f \in fresh' \/ f \in missed'
    BY ScanAssumption DEF NightCovers, Loose
  <2>1. CASE f \in changed'
    BY <2>1 DEF ScanTypeOK
  <2>2. CASE Loose(f)
    <3>1. f \in fresh \/ f \in missed
      BY <2>2 DEF CoverInv, NightCovers, Loose
    <3>2. night = "links" /\ "error" \notin signs => f \in changed \/ f \in missed
      BY <2>2 DEF CoverInv
    <3>3. f \in missed => f \in missed' \cup fresh'
      BY <1>1 DEF TouchStep, ScanTypeOK
    <3> QED BY <1>1, <3>1, <3>2, <3>3 DEF TouchStep
  <2> QED BY <1>1, <2>1, <2>2, ScanLooseStep
<1>3. ASSUME night' \in {"scan", "links"}, "error" \notin signs', NEW f \in File, Loose(f)'
      PROVE  f \in changed' \/ f \in missed' \/ (night' = "scan" /\ \E e \in list' : at'[e[1]] = f)
  <2>1. changed \subseteq changed' /\ missed \subseteq missed' \cup changed'
    BY <1>1, <1>3 DEF TouchStep
  <2>2. f \in changed' \/ (Loose(f) /\ \A p \in Path : at[p] = f <=> at'[p] = f)
    BY <1>1, <1>3, ScanLooseStep
  <2> QED BY <1>3, <2>1, <2>2, ScanListedStep
<1> QED BY <1>2, <1>3 DEF CoverInv

\* The inductive invariant of the scan.
THEOREM ScanInvariance == ScanSpec => []ScanIInv
<1>1. ScanInit => ScanIInv
  <2> SUFFICES ASSUME ScanInit PROVE ScanIInv
    OBVIOUS
  <2> USE ScanAssumption DEF ScanInit, Path
  <2>1. ScanTypeOK
    <3>1. hits \subseteq File \X Path \X (SUBSET Path) /\ list \subseteq Path \X (SUBSET Path)
          /\ quarantine \subseteq File \X Path
      OBVIOUS
    <3>2. /\ at \in [Path -> File \cup {None}] /\ lines \in [Path -> Nat]
          /\ hook \in [File -> {"off", "begin", "link", "name", "scan", "move", "done"}]
      OBVIOUS
    <3>3. sfaults \in 0 .. MaxScanFault /\ moves \in 0 .. MaxMoves
      OBVIOUS
    <3> QED BY <3>1, <3>2, <3>3 DEF ScanTypeOK
  <2>2. PlaceInv /\ HookInv /\ WorkerInv /\ NotedInv
    BY DEF PlaceInv, HookInv, WorkerInv, NotedInv
  <2>3. \A f \in File : Links(f) = {}
    BY DEF Links
  <2>4. CoverInv
    BY <2>3 DEF CoverInv, NightCovers
  <2> QED BY <2>1, <2>2, <2>4 DEF ScanIInv
<1>2. ScanIInv /\ [ScanNext]_svars => ScanIInv'
  BY ScanTypeStep, ScanPlaceStep, ScanHookStep, ScanWorkerStep, ScanNotedStep, ScanCoverStep DEF ScanIInv
<1> QED BY <1>1, <1>2, PTL DEF ScanSpec

\* clamav-hook.py:349, as far as the code keeps it: for any files, any imports,
\* moves, failures and kills, the next night lists every infected file that is
\* anywhere, unless the owner restored a path of it or an earlier run passed
\* over it, its hit not moved or its scanner killed, and nothing touched it since.
THEOREM ScanSafe == ScanSpec => []ScanInv
<1>1. ScanIInv => ScanInv
  BY DEF ScanIInv, ScanInv, CoverInv
<1> QED BY <1>1, ScanInvariance, PTL

\* Only what is infected leaves its path, and it is secured by then.
LEMMA ScanTakes ==
  ASSUME ScanIInv, [ScanNext]_svars, moves' = moves, NEW p \in Path, at[p] # None, at'[p] # at[p],
         p \notin Replaced
  PROVE  at[p] \in Infected \cap Secured'
<1> USE ScanAssumption DEF ScanIInv, ScanTypeOK, PlaceInv, Path, stored, worked, nights, Step, Works, Nightly,
       ScanWorld, NoWorld, NoMove, Untouched
<1>1. ASSUME NEW f \in File, Move(f) PROVE at[p] \in Infected /\ \E q \in quarantine' : q[1] = at[p]
  <2>1. p = f /\ at[p] = f /\ f \in Infected
    BY <1>1 DEF Move, HookInv
  <2>2. <<f, f>> \in quarantine'
    BY <1>1, <2>1 DEF Move, Quarantine
  <2> QED BY <2>1, <2>2
<1>2. ASSUME NEW q \in Path, Remove(q) PROVE at[p] \in Infected /\ at[p] \in queue'
  <2>1. p = q /\ q \in others /\ q \notin taken
    BY <1>2 DEF Remove, Replaced, Noted
  <2> QED BY <1>2, <2>1 DEF Remove, WorkerInv
<1>3. ASSUME NightScan PROVE at[p] \in Infected /\ \E q \in quarantine' : q[1] = at[p]
  <2>1. PICK e \in list : \/ at' = at
                          \/ /\ at' = [at EXCEPT ![e[1]] = None] /\ at[e[1]] \in Infected
                             /\ quarantine' = quarantine \cup {<<at[e[1]], e[1]>>}
    BY <1>3 DEF NightScan
  <2>2. p = e[1] /\ at[p] \in Infected /\ <<at[p], p>> \in quarantine'
    BY <2>1
  <2> QED BY <2>2
<1>4. ASSUME NightLinks PROVE at[p] \in Infected /\ \E q \in quarantine' : q[1] = at[p]
  <2>0. PICK h \in hits, r \in Path :
          /\ r \in h[3] /\ h \in hits
          /\ at' = at \/ (/\ at' = [at EXCEPT ![r] = None]
                         /\ quarantine' = quarantine \cup {<<at[r], r>>})
    BY <1>4 DEF NightLinks
  <2>1. p \in h[3] /\ quarantine' = quarantine \cup {<<at[p], p>>}
    BY <2>0
  <2>2. p \notin taken
    <3>1. ({h[2]} \cup h[3]) \in Noted
      BY <2>0 DEF Noted
    <3> QED BY <2>1, <3>1 DEF Replaced
  <2>3. at[p] \in Infected
    BY <2>1, <2>2 DEF NotedInv, Hold
  <2>4. <<at[p], p>> \in quarantine' /\ <<at[p], p>>[1] = at[p]
    BY <2>1
  <2> QED BY <2>3, <2>4
<1>5. ASSUME UNCHANGED at PROVE FALSE
  BY <1>5
<1>6. ASSUME NEW f \in File, Complete(f) PROVE FALSE
  BY <1>6 DEF Complete
<1>7. ~ScanWorld
  BY DEF ScanWorld
<1>8. \/ \E f \in File : Move(f) \/ Complete(f)
      \/ \E q \in Path : Remove(q)
      \/ NightScan \/ NightLinks \/ UNCHANGED at
  BY <1>7 DEF ScanNext, Hook, Worker, NightRun, Others, Kills, Begin, Link, Name, Scan, HookKilled, Adopt,
         Take, Verdict, Walk, Keep, WorkerKilled, NightStart, List, NightSilent, NightEnd, NightKilled,
         Import, Delete, Restore, svars
<1> QED BY <1>1, <1>2, <1>3, <1>4, <1>5, <1>6, <1>8 DEF Secured

\* What is secured stays so, but for a link whose scan fails for good.
LEMMA ScanSecured ==
  ASSUME ScanIInv, [ScanNext]_svars, moves' = moves, NEW f \in Infected, f \in Secured
  PROVE  f \in Secured' \/ (worker = "scan" /\ link = f /\ sfaults' # sfaults)
<1> USE ScanAssumption DEF ScanIInv, ScanTypeOK, stored, worked, nights, Step, Works, Nightly, ScanWorld,
       NoWorld, NoMove, Fine, ScanFault, Secured
<1>1. ASSUME queue \subseteq queue', quarantine \subseteq quarantine' PROVE f \in Secured'
  BY <1>1
<1>2. CASE Verdict
  <2>1. UNCHANGED quarantine /\ sfaults \in Nat
    BY <1>2 DEF Verdict
  <2>2. CASE queue' = queue
    BY <1>1, <2>1, <2>2
  <2>3. CASE link \notin Infected /\ queue' = queue \ {link}
    BY <2>1, <2>3
  <2>4. CASE sfaults' = sfaults + 1 /\ queue' = queue \ {link}
    BY <1>2, <2>1, <2>4 DEF Verdict
  <2> QED BY <1>2, <2>2, <2>3, <2>4 DEF Verdict
<1>3. CASE Keep
  <2>1. CASE UNCHANGED <<queue, quarantine>>
    BY <1>1, <2>1
  <2>2. CASE Quarantine(link, Where) /\ queue' = queue \ {link}
    <3>1. quarantine' = quarantine \cup {<<link, Where>>}
      BY <2>2 DEF Quarantine
    <3>2. <<link, Where>> \in quarantine' /\ <<link, Where>>[1] = link
      BY <3>1
    <3> QED BY <2>2, <3>1, <3>2
  <2> QED BY <1>3, <2>1, <2>2 DEF Keep
<1>4. CASE NightScan \/ NightLinks
  BY <1>1, <1>4 DEF NightScan, NightLinks
<1>5. CASE \E g \in File : Name(g) \/ Move(g) \/ Adopt(g)
  BY <1>1, <1>5 DEF Name, Move, Adopt, Quarantine
<1>6. CASE UNCHANGED <<queue, quarantine>>
  BY <1>1, <1>6
<1>7. ~ScanWorld
  BY DEF ScanWorld
<1>8. \/ Verdict \/ Keep \/ NightScan \/ NightLinks \/ \E g \in File : Name(g) \/ Move(g) \/ Adopt(g)
      \/ UNCHANGED <<queue, quarantine>>
  BY <1>7 DEF ScanNext, Hook, Worker, NightRun, Others, Kills, Begin, Link, Scan, HookKilled, Take, Walk,
         Remove, WorkerKilled, NightStart, List, NightSilent, NightEnd, NightKilled, Complete, Import,
         Delete, Restore, svars
<1> QED BY <1>2, <1>3, <1>4, <1>5, <1>6, <1>8

\* clamav-hook.py:406-420: for any files, scanning takes nothing that is not
\* infected, but for noted paths that the apps gave another file meanwhile; what
\* it takes is in the queue or the quarantine by then and stays there through
\* failures and kills, but for a link whose own scan fails for good.
THEOREM ScanTakesHits == ScanSpec => OnlyHitsTaken
<1>1. ScanIInv /\ [ScanNext]_svars =>
        [moves' = moves =>
           /\ \A p \in Path : at[p] # None /\ at'[p] # at[p] =>
                p \in Replaced \/ at[p] \in Infected \cap Secured'
           /\ \A f \in Infected \cap Secured :
                f \in Secured' \/ (worker = "scan" /\ link = f /\ sfaults' # sfaults)]_svars
  BY ScanTakes, ScanSecured
<1> QED BY <1>1, ScanInvariance, PTL DEF ScanSpec, OnlyHitsTaken
=============================================================================
