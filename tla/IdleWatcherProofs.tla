------------------------- MODULE IdleWatcherProofs -------------------------
(***************************************************************************)
(* The hold protocol of KeepAwake, for any set of units, movers and jobs;  *)
(* that the composition of the watcher with the takers of the hold         *)
(* implements it; and that the watcher never sleeps too early.             *)
(***************************************************************************)
EXTENDS IdleWatcher, TLAPS

-----------------------------------------------------------------------------
(* The hold: KeepAwake. *)

\* The initial state: no file, no mark, no job.
LEMMA HoldInvInit == HoldInit => HoldInv
  <1> SUFFICES ASSUME HoldInit PROVE HoldInv
    OBVIOUS
  <1>1. HoldTypeOK /\ MarkInv
    BY DEF HoldInit, HoldTypeOK, MarkInv, PC
  <1>2. ~Claimed
    BY DEF HoldInit, Claimed, Claim
  <1>3. OneReleaser /\ HoldStands
    BY <1>2 DEF OneReleaser, HoldStands, Claimed
  <1>4. OwnersHoldStands /\ NoOrphanHold
    BY DEF HoldInit, OwnersHoldStands, NoOrphanHold
  <1>5. QED
    BY <1>1, <1>3, <1>4 DEF HoldInv

\* Every step of a job, of the window's drain or of the owner keeps the types.
LEMMA HoldTypeStep == HoldTypeOK /\ [HoldNext]_hvars => HoldTypeOK'
  <1> SUFFICES ASSUME HoldTypeOK, [HoldNext]_hvars PROVE HoldTypeOK'
    OBVIOUS
  <1> USE DEF HoldTypeOK, PC, poll, history, Goto
  <1>1. ASSUME NEW t \in Job, Start(t) PROVE HoldTypeOK'
    BY <1>1 DEF Start
  <1>2. ASSUME NEW t \in Job, Look(t) PROVE HoldTypeOK'
    BY <1>2 DEF Look, LookUnit, LookMover, LookApt
  <1>3. ASSUME NEW t \in Job, Take(t) PROVE HoldTypeOK'
    BY <1>3 DEF Take
  <1>4. ASSUME NEW t \in Job, Remember(t) PROVE HoldTypeOK'
    BY <1>4 DEF Remember
  <1>5. ASSUME NEW t \in Job, Finish(t) PROVE HoldTypeOK'
    BY <1>5 DEF Finish
  <1>6. ASSUME NEW t \in Job, StopPost(t) PROVE HoldTypeOK'
    BY <1>6 DEF StopPost, Release
  <1>7. ASSUME NEW t \in Job, Leave(t) PROVE HoldTypeOK'
    BY <1>7 DEF Leave, Release
  <1>8. ASSUME NEW t \in Job, StopUnit(t) PROVE HoldTypeOK'
    BY <1>8 DEF StopUnit, Strike
  <1>9. ASSUME NEW t \in Job, Kill(t) PROVE HoldTypeOK'
    BY <1>9 DEF Kill, Strike
  <1>10. CASE Drain
    BY <1>10 DEF Drain, HoldOver, Ask, PollEnds
  <1>11. CASE OwnerHolds
    BY <1>11 DEF OwnerHolds
  <1>12. CASE OwnerReleases
    BY <1>12 DEF OwnerReleases
  <1>13. CASE Shutdown
    BY <1>13 DEF Shutdown
  <1>14. CASE UNCHANGED hvars
    BY <1>14 DEF hvars, poll, history
  <1>15. QED
    BY <1>1, <1>2, <1>3, <1>4, <1>5, <1>6, <1>7, <1>8, <1>9, <1>10, <1>11, <1>12, <1>13, <1>14 DEF HoldNext, Running, Step

\* Every step keeps the invariant: who claims the file, and what that means.
LEMMA HoldInvStep == HoldInv /\ [HoldNext]_hvars => HoldInv'
  <1> SUFFICES ASSUME HoldInv, [HoldNext]_hvars PROVE HoldInv'
    OBVIOUS
  <1> USE DEF HoldInv, HoldTypeOK, MarkInv, Goto, poll, history, Claim, Claimed
  <1>1. HoldTypeOK'
    BY HoldTypeStep
  <1>2. ASSUME NEW t \in Job, Start(t) PROVE HoldInv'
    <2>1. MarkInv'
      BY <1>2 DEF Start
    <2>2. OneReleaser'
      BY <1>2 DEF Start, OneReleaser
    <2>3. HoldStands'
      BY <1>2 DEF Start, HoldStands
    <2>4. OwnersHoldStands'
      BY <1>2 DEF Start, OwnersHoldStands
    <2>5. NoOrphanHold'
      BY <1>2 DEF Start, NoOrphanHold
    <2>6. QED
      BY <1>1, <2>1, <2>2, <2>3, <2>4, <2>5
  <1>3. ASSUME NEW t \in Job, Look(t) PROVE HoldInv'
    <2>1. MarkInv'
      BY <1>3, JobAssumption DEF Look, LookUnit, LookMover, LookApt
    <2>2. OneReleaser'
      BY <1>3, JobAssumption DEF Look, LookUnit, LookMover, LookApt, OneReleaser, HoldStands
    <2>3. HoldStands'
      BY <1>3 DEF Look, LookUnit, LookMover, LookApt, HoldStands
    <2>4. OwnersHoldStands'
      BY <1>3 DEF Look, LookUnit, LookMover, LookApt, OwnersHoldStands
    <2>5. NoOrphanHold'
      BY <1>3 DEF Look, LookUnit, LookMover, LookApt, NoOrphanHold
    <2>6. QED
      BY <1>1, <2>1, <2>2, <2>3, <2>4, <2>5
  <1>4. ASSUME NEW t \in Job, Take(t) PROVE HoldInv'
    <2>1. MarkInv'
      BY <1>4, JobAssumption DEF Take
    <2>2. OneReleaser'
      BY <1>4, JobAssumption DEF Take, OneReleaser
    <2>3. HoldStands'
      BY <1>4 DEF Take, HoldStands
    <2>4. OwnersHoldStands'
      BY <1>4, JobAssumption DEF Take, OwnersHoldStands
    <2>5. NoOrphanHold'
      <3> SUFFICES ASSUME flag', ~stray', owner' = "no"
                   PROVE  \E u \in Job : Claim(u)' /\ pc'[u] # "off"
        BY DEF NoOrphanHold
      <3>1. CASE t \in Unit \/ t \in Mover \/ mark[t]
        <4>1. Claim(t)' /\ pc'[t] # "off"
          BY <1>4, <3>1 DEF Take
        <4>2. QED
          BY <4>1
      <3>2. CASE t \in Apt /\ ~mark[t]
        <4>1. flag /\ ~stray /\ owner = "no"
          BY <1>4, <3>2 DEF Take
        <4>2. PICK u \in Job : Claim(u) /\ pc[u] # "off"
          BY <4>1 DEF NoOrphanHold
        <4>3. u # t
          BY <1>4, <3>2, <4>2 DEF Take
        <4>4. mark'[u] = mark[u] /\ pc'[u] = pc[u]
          BY <1>4, <4>3 DEF Take
        <4>5. QED
          BY <4>2, <4>4
      <3>3. QED
        BY <1>4, <3>1, <3>2 DEF Take, Job
    <2>6. QED
      BY <1>1, <2>1, <2>2, <2>3, <2>4, <2>5
  <1>5. ASSUME NEW t \in Job, Remember(t) PROVE HoldInv'
    <2>1. MarkInv'
      BY <1>5 DEF Remember
    <2>2. OneReleaser'
      BY <1>5 DEF Remember, OneReleaser
    <2>3. HoldStands'
      BY <1>5 DEF Remember, HoldStands
    <2>4. OwnersHoldStands'
      BY <1>5 DEF Remember, OwnersHoldStands
    <2>5. NoOrphanHold'
      BY <1>5 DEF Remember, NoOrphanHold
    <2>6. QED
      BY <1>1, <2>1, <2>2, <2>3, <2>4, <2>5
  <1>6. ASSUME NEW t \in Job, Finish(t) PROVE HoldInv'
    <2>1. MarkInv'
      BY <1>6, JobAssumption DEF Finish
    <2>2. OneReleaser'
      BY <1>6 DEF Finish, OneReleaser
    <2>3. HoldStands'
      BY <1>6 DEF Finish, HoldStands
    <2>4. OwnersHoldStands'
      BY <1>6 DEF Finish, OwnersHoldStands
    <2>5. NoOrphanHold'
      BY <1>6 DEF Finish, NoOrphanHold
    <2>6. QED
      BY <1>1, <2>1, <2>2, <2>3, <2>4, <2>5
  <1>7. ASSUME NEW t \in Job, StopPost(t) PROVE HoldInv'
    <2>1. MarkInv'
      BY <1>7 DEF StopPost, Release
    <2>2. OneReleaser'
      BY <1>7 DEF StopPost, Release, OneReleaser
    <2>3. HoldStands'
      BY <1>7 DEF StopPost, Release, HoldStands, OneReleaser
    <2>4. OwnersHoldStands'
      BY <1>7 DEF StopPost, Release, OwnersHoldStands
    <2>5. NoOrphanHold'
      BY <1>7 DEF StopPost, Release, NoOrphanHold
    <2>6. QED
      BY <1>1, <2>1, <2>2, <2>3, <2>4, <2>5
  <1>8. ASSUME NEW t \in Job, Leave(t) PROVE HoldInv'
    <2>1. MarkInv'
      BY <1>8 DEF Leave, Release
    <2>2. OneReleaser'
      BY <1>8 DEF Leave, Release, OneReleaser
    <2>3. HoldStands'
      BY <1>8 DEF Leave, Release, HoldStands, OneReleaser
    <2>4. OwnersHoldStands'
      BY <1>8 DEF Leave, Release, OwnersHoldStands
    <2>5. NoOrphanHold'
      BY <1>8 DEF Leave, Release, NoOrphanHold
    <2>6. QED
      BY <1>1, <2>1, <2>2, <2>3, <2>4, <2>5
  <1>9. ASSUME NEW t \in Job, StopUnit(t) PROVE HoldInv'
    <2>1. MarkInv'
      BY <1>9, JobAssumption DEF StopUnit, Strike
    <2>2. OneReleaser'
      BY <1>9 DEF StopUnit, Strike, OneReleaser
    <2>3. HoldStands'
      BY <1>9 DEF StopUnit, Strike, HoldStands
    <2>4. OwnersHoldStands'
      BY <1>9 DEF StopUnit, Strike, OwnersHoldStands
    <2>5. NoOrphanHold'
      BY <1>9 DEF StopUnit, Strike, NoOrphanHold
    <2>6. QED
      BY <1>1, <2>1, <2>2, <2>3, <2>4, <2>5
  <1>10. ASSUME NEW t \in Job, Kill(t) PROVE HoldInv'
    <2>1. MarkInv'
      BY <1>10, JobAssumption DEF Kill, Strike
    <2>2. OneReleaser'
      BY <1>10 DEF Kill, Strike, OneReleaser
    <2>3. HoldStands'
      BY <1>10 DEF Kill, Strike, HoldStands
    <2>4. OwnersHoldStands'
      BY <1>10 DEF Kill, Strike, OwnersHoldStands
    <2>5. NoOrphanHold'
      <3> SUFFICES ASSUME flag', ~stray', owner' = "no"
                   PROVE  \E u \in Job : Claim(u)' /\ pc'[u] # "off"
        BY DEF NoOrphanHold
      <3>1. ~mark[t] /\ pc[t] # "mark"
        BY <1>10 DEF Kill, Job
      <3>2. PICK u \in Job : Claim(u) /\ pc[u] # "off"
        BY <1>10 DEF Kill, NoOrphanHold
      <3>3. u # t
        BY <3>1, <3>2
      <3>4. mark'[u] = mark[u] /\ pc'[u] = pc[u]
        BY <1>10, <3>3 DEF Kill
      <3>5. QED
        BY <3>2, <3>4
    <2>6. QED
      BY <1>1, <2>1, <2>2, <2>3, <2>4, <2>5
  <1>11. CASE Drain
    <2>1. MarkInv'
      BY <1>11, JobAssumption DEF Drain, HoldOver, Ask, PollEnds
    <2>2. OneReleaser'
      BY <1>11 DEF Drain, HoldOver, Ask, PollEnds, OneReleaser
    <2>3. HoldStands'
      BY <1>11 DEF Drain, HoldOver, Ask, PollEnds, HoldStands
    <2>4. OwnersHoldStands'
      BY <1>11 DEF Drain, HoldOver, Ask, PollEnds, OwnersHoldStands
    <2>5. NoOrphanHold'
      BY <1>11 DEF Drain, HoldOver, Ask, PollEnds, NoOrphanHold
    <2>6. QED
      BY <1>1, <2>1, <2>2, <2>3, <2>4, <2>5
  <1>12. CASE OwnerHolds
    <2>1. MarkInv'
      BY <1>12 DEF OwnerHolds
    <2>2. OneReleaser'
      BY <1>12 DEF OwnerHolds, OneReleaser
    <2>3. HoldStands'
      BY <1>12 DEF OwnerHolds, HoldStands
    <2>4. OwnersHoldStands'
      BY <1>12 DEF OwnerHolds, OwnersHoldStands
    <2>5. NoOrphanHold'
      BY <1>12 DEF OwnerHolds, NoOrphanHold
    <2>6. QED
      BY <1>1, <2>1, <2>2, <2>3, <2>4, <2>5
  <1>13. CASE OwnerReleases
    <2>1. MarkInv'
      BY <1>13 DEF OwnerReleases
    <2>2. OneReleaser'
      BY <1>13 DEF OwnerReleases, OneReleaser
    <2>3. HoldStands'
      BY <1>13 DEF OwnerReleases, HoldStands
    <2>4. OwnersHoldStands'
      BY <1>13 DEF OwnerReleases, OwnersHoldStands
    <2>5. NoOrphanHold'
      BY <1>13 DEF OwnerReleases, NoOrphanHold
    <2>6. QED
      BY <1>1, <2>1, <2>2, <2>3, <2>4, <2>5
  <1>14. CASE Shutdown
    <2>1. MarkInv'
      BY <1>14 DEF Shutdown
    <2>2. OneReleaser'
      BY <1>14 DEF Shutdown, OneReleaser
    <2>3. HoldStands'
      BY <1>14 DEF Shutdown, HoldStands
    <2>4. OwnersHoldStands'
      BY <1>14 DEF Shutdown, OwnersHoldStands
    <2>5. NoOrphanHold'
      BY <1>14 DEF Shutdown, NoOrphanHold
    <2>6. QED
      BY <1>1, <2>1, <2>2, <2>3, <2>4, <2>5
  <1>15. CASE UNCHANGED hvars
    <2>1. MarkInv'
      BY <1>15 DEF hvars, poll, history
    <2>2. OneReleaser'
      BY <1>15 DEF hvars, poll, history, OneReleaser
    <2>3. HoldStands'
      BY <1>15 DEF hvars, poll, history, HoldStands
    <2>4. OwnersHoldStands'
      BY <1>15 DEF hvars, poll, history, OwnersHoldStands
    <2>5. NoOrphanHold'
      BY <1>15 DEF hvars, poll, history, NoOrphanHold
    <2>6. QED
      BY <1>1, <2>1, <2>2, <2>3, <2>4, <2>5
  <1>16. QED
    BY <1>2, <1>3, <1>4, <1>5, <1>6, <1>7, <1>8, <1>9, <1>10, <1>11, <1>12, <1>13, <1>14, <1>15 DEF HoldNext, Running, Step

\* Whoever comes and goes, every state satisfies the inductive invariant.
THEOREM HoldInvariance == HoldSpec => []HoldInv
  <1>1. HoldInit => HoldInv
    BY HoldInvInit
  <1>2. HoldInv /\ [HoldNext]_hvars => HoldInv'
    BY HoldInvStep
  <1>3. QED
    BY <1>1, <1>2, PTL DEF HoldSpec

\* At most one of those who hold the host awake will remove the file.
THEOREM ReleasedOnce == HoldSpec => []OneReleaser
  <1>1. HoldInv => OneReleaser
    BY DEF HoldInv
  <1>2. QED
    BY <1>1, HoldInvariance, PTL

\* A run that took the hold has it until it releases it.
THEOREM HoldLasts == HoldSpec => []HoldStands
  <1>1. HoldInv => HoldStands
    BY DEF HoldInv
  <1>2. QED
    BY <1>1, HoldInvariance, PTL

\* A hold the owner put first outlives every job.
THEOREM OwnersHoldLasts == HoldSpec => []OwnersHoldStands
  <1>1. HoldInv => OwnersHoldStands
    BY DEF HoldInv
  <1>2. QED
    BY <1>1, HoldInvariance, PTL

\* Behind every hold is the owner or a run that will remove it.
THEOREM NoHoldLeftBehind == HoldSpec => []NoOrphanHold
  <1>1. HoldInv => NoOrphanHold
    BY DEF HoldInv
  <1>2. QED
    BY <1>1, HoldInvariance, PTL

-----------------------------------------------------------------------------
(* The watcher: IdleWatcher. *)

\* Every step of the composition is a step of the protocol, or leaves it alone.
LEMMA HoldStepOrStutter == [Next]_vars => [HoldNext]_hvars
  <1> SUFFICES ASSUME [Next]_vars PROVE [HoldNext]_hvars
    OBVIOUS
  <1>1. CASE Sample
    BY <1>1 DEF Sample
  <1>2. CASE Decide
    BY <1>2 DEF Decide, Stay, PowerOff, PowerOffFails, HoldNext
  <1>3. CASE Boot \/ UseChanges
    BY <1>3 DEF Boot, UseChanges
  <1>4. CASE HoldStep
    BY <1>4 DEF HoldStep, HoldNext
  <1>5. CASE UNCHANGED vars
    BY <1>5 DEF vars
  <1>6. QED
    BY <1>1, <1>2, <1>3, <1>4, <1>5 DEF Next

\* The composition implements the hold protocol.
LEMMA ImplementsHold == Spec => HoldSpec
  <1>1. Init => HoldInit
    BY DEF Init
  <1>2. QED
    BY <1>1, HoldStepOrStutter, PTL DEF Spec, HoldSpec

\* The idle clock starts with the calm and never gets ahead of it.
LEMMA WInvInit == Init => WInv
  <1> SUFFICES ASSUME Init PROVE WInv
    OBVIOUS
  <1>1. on \in BOOLEAN /\ busy \in BOOLEAN /\ use \in BOOLEAN /\ step = "nap"
    BY DEF Init
  <1>2. idle = 0 /\ calm = 0 /\ guarded = {} /\ mishaps = 0
    BY DEF Init
  <1>3. QED
    BY <1>1, <1>2, LimitAssumption DEF WInv, TypeOK, ClockInv

\* Every step keeps it so: a sample that saw a hold, or failed, counts busy.
LEMMA WInvStep == WInv /\ [Next]_vars => WInv'
  <1> SUFFICES ASSUME WInv, [Next]_vars PROVE WInv'
    OBVIOUS
  <1> USE LimitAssumption DEF WInv, TypeOK, ClockInv, UpdateIdle, Upto
  <1>1. CASE Sample
    <2>1. calm' = IF flag THEN 0 ELSE Upto(calm + 1)
      BY <1>1 DEF Sample
    <2>2. busy' \in BOOLEAN /\ (~busy' => ~flag)
      BY <1>1 DEF Sample, Evaluate
    <2>0. guarded' \subseteq Job
      BY <1>1 DEF Sample
    <2>3. idle <= calm /\ idle' = idle
      BY <1>1 DEF Sample
    <2>6. mishaps' \in Nat
      <3>1. mishaps' = mishaps \/ mishaps' = mishaps + 1
        BY <1>1 DEF Sample, Mishap
      <3>2. QED
        BY <3>1
    <2>4. mishaps' \in Nat /\ step' = "decide" /\ on' = on /\ use' = use
      BY <1>1, <2>6 DEF Sample
    <2>5. ~busy' => UpdateIdle' <= calm'
      BY <2>1, <2>2, <2>3
    <2>7. QED
      BY <2>0, <2>1, <2>2, <2>3, <2>4, <2>5
  <1>2. CASE Stay
    BY <1>2 DEF Stay
  <1>3. CASE PowerOff
    <2>1. on' \in BOOLEAN /\ busy' \in BOOLEAN /\ use' \in BOOLEAN
      BY <1>3 DEF PowerOff
    <2>2. step' = "nap" /\ idle' = 0 /\ calm' = 0 /\ guarded' = {} /\ mishaps' = mishaps
      BY <1>3 DEF PowerOff
    <2>3. QED
      BY <2>1, <2>2
  <1>4. CASE PowerOffFails
    BY <1>4 DEF PowerOffFails, ShouldSleep, Mishap
  <1>5. CASE Boot
    BY <1>5 DEF Boot
  <1>6. CASE UseChanges
    BY <1>6 DEF UseChanges, wvars
  <1>7. CASE HoldStep
    BY <1>7 DEF HoldStep, wvars
  <1>8. CASE UNCHANGED vars
    BY <1>8 DEF vars, wvars
  <1>9. QED
    BY <1>1, <1>2, <1>3, <1>4, <1>5, <1>6, <1>7, <1>8 DEF Next, Decide

\* In every state the idle clock is at most the calm, and the types hold.
THEOREM ClockNeverAhead == Spec => []WInv
  <1>1. Init => WInv
    BY WInvInit
  <1>2. WInv /\ [Next]_vars => WInv'
    BY WInvStep
  <1>3. QED
    BY <1>1, <1>2, PTL DEF Spec

\* No poweroff before Limit samples in a row that saw no hold.
THEOREM NeverSleepsEarly == Spec => SleepsOnlyAfterCalm
  <1>1. WInv /\ [Next]_vars => [on /\ ~on' => calm >= Limit]_vars
    <2> SUFFICES ASSUME WInv, [Next]_vars, on, ~on' PROVE calm >= Limit
      OBVIOUS
    <2>1. PowerOff
      BY DEF Next, Decide, Sample, Stay, PowerOffFails, Boot, UseChanges,
             HoldStep, wvars, vars, WInv, TypeOK
    <2>2. UpdateIdle <= calm /\ UpdateIdle >= Limit
      BY <2>1 DEF PowerOff, ShouldSleep, WInv, ClockInv
    <2>3. UpdateIdle \in Nat /\ calm \in Nat /\ Limit \in Nat
      BY LimitAssumption DEF WInv, TypeOK, UpdateIdle, Upto
    <2>4. QED
      BY <2>2, <2>3
  <1>2. QED
    BY <1>1, ClockNeverAhead, PTL DEF Spec, SleepsOnlyAfterCalm

\* A sample that comes out idle saw no file, so nobody has a hold of his own.
LEMMA GuardStep == TypeOK /\ HoldInv /\ GuardInv /\ [Next]_vars => GuardInv'
  <1> SUFFICES ASSUME TypeOK, HoldInv, GuardInv, [Next]_vars PROVE GuardInv'
    OBVIOUS
  <1> USE DEF GuardInv
  <1>1. CASE Sample
    <2>1. ~busy' => ~flag
      BY <1>1 DEF Sample, Evaluate
    <2>2. ~flag /\ ~contested => \A t \in Job : ~Holds(t)
      BY DEF HoldInv, HoldStands, Claim, Holds
    <2>3. guarded' = {t \in Job : Holds(t)} /\ contested' = contested
      BY <1>1 DEF Sample, hvars, history
    <2>4. QED
      BY <2>1, <2>2, <2>3
  <1>2. CASE Decide
    BY <1>2 DEF Decide, Stay, PowerOff, PowerOffFails
  <1>3. CASE Boot
    BY <1>3 DEF Boot, hvars, history
  <1>4. CASE UseChanges
    BY <1>4 DEF UseChanges, wvars, hvars, history
  <1>5. CASE HoldStep
    <2>1. step' = step /\ busy' = busy /\ guarded' = guarded
      BY <1>5 DEF HoldStep, wvars
    <2>2. contested => contested'
      BY <1>5 DEF HoldStep, Running, Start, Step, Look, Take, Remember, Finish,
                  StopPost, Leave, Release, StopUnit, Kill, Drain, HoldOver, Ask,
                  PollEnds, OwnerHolds, OwnerReleases, history
    <2>3. QED
      BY <2>1, <2>2
  <1>6. CASE UNCHANGED vars
    BY <1>6 DEF vars, wvars, hvars, history
  <1>7. QED
    BY <1>1, <1>2, <1>3, <1>4, <1>5, <1>6 DEF Next

\* The poweroff ends nobody who had the hold when the file was looked at.
THEOREM NobodyIsShutDown == Spec => HoldersStayUp
  <1>1. Init => GuardInv
    BY DEF Init, GuardInv
  <1>2. TypeOK /\ HoldInv /\ GuardInv /\ [Next]_vars => GuardInv'
    BY GuardStep
  <1>3. WInv => TypeOK
    BY DEF WInv
  <1>4. GuardInv /\ [Next]_vars =>
          [on /\ ~on' /\ ~contested => \A t \in Job : Holds(t) => t \notin guarded]_vars
    <2> SUFFICES ASSUME GuardInv, [Next]_vars, on, ~on', ~contested PROVE guarded = {}
      BY DEF vars
    <2>1. PowerOff
      BY DEF Next, Decide, Sample, Stay, PowerOffFails, Boot, UseChanges,
             HoldStep, wvars, vars
    <2>2. QED
      BY <2>1 DEF PowerOff, ShouldSleep, GuardInv
  <1>5. QED
    BY <1>1, <1>2, <1>3, <1>4, ImplementsHold, HoldInvariance, ClockNeverAhead, PTL
       DEF Spec, HoldersStayUp

\* Whoever holds the host awake alone has the file, in the composition too.
THEOREM HoldLastsWatched == Spec => [](OneReleaser /\ HoldStands /\ OwnersHoldStands)
  <1>1. HoldInv => OneReleaser /\ HoldStands /\ OwnersHoldStands
    BY DEF HoldInv
  <1>2. QED
    BY <1>1, ImplementsHold, HoldInvariance, PTL
=============================================================================
