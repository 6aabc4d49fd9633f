--------------------------- MODULE TierMoveProofs ---------------------------
(***************************************************************************)
(* Proofs about TierMove, for any branches, jobs, versions and faults.     *)
(***************************************************************************)
EXTENDS TierMove, TLAPS

\* A change of one branch keeps the disks well typed.
LEMMA ChangeType ==
  ASSUME TypeOK, NEW b \in Branch, NEW slot \in Slot, NEW torn \in SUBSET Slot,
         Change(b, slot, torn)
  PROVE  /\ now' \in [Branch -> Slot]
         /\ may' \in [Branch -> SUBSET Slot]
         /\ \A c \in Branch : now'[c] \in may'[c]
BY DEF TypeOK, Change

LEMMA SyncType ==
  ASSUME TypeOK, NEW b \in Branch, SyncReal(b) \/ SyncStage(b)
  PROVE  /\ now' \in [Branch -> Slot]
         /\ may' \in [Branch -> SUBSET Slot]
         /\ \A c \in Branch : now'[c] \in may'[c]
BY DEF TypeOK, SyncReal, SyncStage

LEMMA GotoType ==
  ASSUME TypeOK, NEW j \in Job, NEW step \in PC, Goto(j, step)
  PROVE  /\ pc' \in [Job -> PC]
         /\ src' \in [Job -> Branch]
         /\ dst' \in [Job -> Branch]
         /\ todo' \in [Job -> SUBSET Branch]
         /\ before' \in [Job -> Name]
BY DEF TypeOK, Goto

LEMMA LeaveType ==
  ASSUME TypeOK, NEW j \in Job, Leave(j)
  PROVE  /\ pc' \in [Job -> PC]
         /\ src' \in [Job -> Branch]
         /\ dst' \in [Job -> Branch]
         /\ todo' \in [Job -> SUBSET Branch]
         /\ before' \in [Job -> Name]
         /\ lock' \in Job \cup {NoJob}
BY BranchAssumption DEF TypeOK, Leave, PC, Name

LEMMA SlotType ==
  ASSUME NEW s \in Slot
  PROVE  /\ s.real \in Name
         /\ s.stage \in Name \cup {Partial}
         /\ [s EXCEPT !.stage = None] \in Slot
         /\ [s EXCEPT !.real = None] \in Slot
         /\ [s EXCEPT !.stage = Partial] \in Slot
         /\ [s EXCEPT !.stage = Torn] \in Slot
BY DEF Slot, Name, Content

LEMMA SlotUpdate ==
  ASSUME NEW s \in Slot, NEW x \in Name
  PROVE  /\ [s EXCEPT !.stage = x] \in Slot
         /\ [s EXCEPT !.real = x] \in Slot
         /\ [real |-> x, stage |-> None] \in Slot
BY DEF Slot, Name

-----------------------------------------------------------------------------
(* Type correctness. *)

\* The part of TypeOK a job can disturb.
DiskType == /\ now \in [Branch -> Slot]
            /\ may \in [Branch -> SUBSET Slot]
            /\ \A b \in Branch : now[b] \in may[b]

JobType == /\ pc \in [Job -> PC]
           /\ src \in [Job -> Branch]
           /\ dst \in [Job -> Branch]
           /\ todo \in [Job -> SUBSET Branch]
           /\ before \in [Job -> Name]
           /\ lock \in Job \cup {NoJob}

AppType == /\ written \in Version
           /\ truth \in Version \cup {None}
           /\ raced \in BOOLEAN
           /\ faults \in Nat

LEMMA TypeParts == TypeOK <=> DiskType /\ JobType /\ AppType
BY DEF TypeOK, DiskType, JobType, AppType

LEMMA ShellType ==
  ASSUME TypeOK, NEW j \in Job,
         Demote(j) \/ Promote(j) \/ Acquire(j) \/ GiveUp(j) \/ NextFile(j)
           \/ LoopEnds(j) \/ KillShell(j)
  PROVE  DiskType' /\ JobType'
<1>. DiskType /\ JobType /\ {"wait", "recover", "copy"} \subseteq PC
  BY TypeParts DEF PC, Held, Recovering, Moving
<1>1. ASSUME NEW d \in Branch, NEW S \in SUBSET Branch, Start(j, d, S)
      PROVE  DiskType' /\ JobType'
  BY <1>1 DEF Start, disk, DiskType, JobType
<1>2. CASE Demote(j)
  <2>1. Cold \in Branch /\ {b \in Hot : Has(b)} \in SUBSET Branch
    BY BranchAssumption DEF Hot
  <2>2. QED  BY <1>1, <1>2, <2>1 DEF Demote
<1>3. CASE Promote(j)
  <2>1. /\ Hot \subseteq Branch
        /\ {b \in {Cold} : Has(b)} \in SUBSET Branch
    BY BranchAssumption DEF Hot
  <2>2. QED  BY <1>1, <1>3, <2>1 DEF Promote
<1>4. CASE Acquire(j)
  <2>1. pc' \in [Job -> PC] /\ lock' \in Job \cup {NoJob} /\ UNCHANGED <<src, dst, todo, before, disk>>
    BY <1>4 DEF Acquire, Goto, JobType
  <2>2. QED  BY <2>1 DEF disk, DiskType, JobType
<1>5. CASE GiveUp(j) \/ LoopEnds(j)
  BY <1>5, LeaveType DEF GiveUp, LoopEnds, disk, DiskType, JobType
<1>6. CASE NextFile(j)
  <2>1. PICK s \in todo[j] : /\ src' = [src EXCEPT ![j] = s]
                             /\ todo' = [todo EXCEPT ![j] = @ \ {s}]
                             /\ before' = [before EXCEPT ![j] = now[s].real]
    BY <1>6 DEF NextFile
  <2>2. s \in Branch /\ now[s] \in Slot /\ now[s].real \in Name
    BY SlotType DEF JobType, DiskType, Name
  <2>3. pc' \in [Job -> PC] /\ UNCHANGED <<dst, lock, now, may>>
    BY <1>6 DEF NextFile, disk, JobType
  <2>4. QED  BY <2>1, <2>2, <2>3 DEF DiskType, JobType
<1>7. CASE KillShell(j)
  BY <1>7 DEF KillShell, disk, DiskType, JobType
<1>8. QED  BY <1>2, <1>3, <1>4, <1>5, <1>6, <1>7

LEMMA RecoverType ==
  ASSUME TypeOK, NEW j \in Job, Recover(j)
  PROVE  DiskType' /\ JobType'
<1>. DEFINE d == dst[j]
<1>. /\ DiskType /\ JobType
     /\ d \in Branch /\ now[d] \in Slot
     /\ {"recover", "recoversync", "next"} \subseteq PC
  BY TypeParts DEF DiskType, JobType, PC, Held, Recovering
<1>. {} \in SUBSET Slot
  OBVIOUS
<1>1. CASE RecoverDrop(j) \/ RecoverKeep(j)
  <2>1. Change(d, [now[d] EXCEPT !.stage = None], {}) /\ UNCHANGED <<jobs, lock>>
    BY <1>1 DEF RecoverDrop, RecoverKeep
  <2>2. [now[d] EXCEPT !.stage = None] \in Slot
    BY SlotType
  <2>3. DiskType'
    BY <2>1, <2>2, ChangeType DEF DiskType
  <2>4. QED  BY <2>1, <2>3 DEF jobs, JobType
<1>2. CASE RecoverPlace(j)
  <2>1. now[d].stage \in Name /\ Change(d, [real |-> now[d].stage, stage |-> None], {})
    BY <1>2, SlotType DEF RecoverPlace
  <2>2. DiskType'
    BY <2>1, SlotUpdate, ChangeType DEF DiskType
  <2>3. QED
    BY <1>2, <2>2, GotoType DEF RecoverPlace, JobType
<1>3. CASE RecoverSync(j)
  BY <1>3, SyncType, GotoType DEF RecoverSync, DiskType, JobType
<1>4. CASE RecoverDone(j)
  BY <1>4, GotoType DEF RecoverDone, disk, DiskType, JobType
<1>5. QED  BY <1>1, <1>2, <1>3, <1>4 DEF Recover

LEMMA MoveType ==
  ASSUME TypeOK, StageInv, NEW j \in Job, Move(j)
  PROVE  DiskType' /\ JobType'
<1>. DEFINE d == dst[j]
            s == src[j]
<1>. /\ DiskType /\ JobType
     /\ d \in Branch /\ now[d] \in Slot
     /\ s \in Branch /\ now[s] \in Slot
     /\ before[j] \in Name
     /\ Moving \subseteq PC /\ "next" \in PC
  BY TypeParts DEF DiskType, JobType, PC, Held
<1>. {} \in SUBSET Slot
  OBVIOUS
<1>1. ASSUME Discard(j)
      PROVE  DiskType' /\ JobType'
  <2>1. Change(d, [now[d] EXCEPT !.stage = None], {}) /\ Leave(j)
    BY <1>1 DEF Discard
  <2>2. [now[d] EXCEPT !.stage = None] \in Slot
    BY SlotType
  <2>3. DiskType'
    BY <2>1, <2>2, ChangeType DEF DiskType
  <2>4. QED  BY <2>1, <2>3, LeaveType DEF JobType
<1>2. CASE RsyncStart(j)
  <2>1. Change(d, [now[d] EXCEPT !.stage = Partial], {}) /\ Goto(j, "copying") /\ lock' = lock
    BY <1>2 DEF RsyncStart
  <2>2. [now[d] EXCEPT !.stage = Partial] \in Slot
    BY SlotType
  <2>3. DiskType'
    BY <2>1, <2>2, ChangeType DEF DiskType
  <2>4. QED  BY <2>1, <2>3, GotoType DEF JobType, Moving
<1>3. CASE RsyncEnd(j)
  <2>1. PICK c \in {before[j], now[s].real} \ {None} :
          Change(d, [now[d] EXCEPT !.stage = c], {[now[d] EXCEPT !.stage = Torn]})
    BY <1>3 DEF RsyncEnd
  <2>2. c \in Name
    BY SlotType
  <2>3. /\ [now[d] EXCEPT !.stage = c] \in Slot
        /\ {[now[d] EXCEPT !.stage = Torn]} \in SUBSET Slot
    BY <2>2, SlotType, SlotUpdate
  <2>4. DiskType'
    BY <2>1, <2>3, ChangeType DEF DiskType
  <2>5. Goto(j, "check1") /\ lock' = lock
    BY <1>3 DEF RsyncEnd
  <2>6. QED  BY <2>4, <2>5, GotoType DEF JobType, Moving
<1>4. CASE RsyncFails(j) \/ VerifyFails(j)
  BY <1>1, <1>4 DEF RsyncFails, VerifyFails
<1>5. CASE Check1(j) \/ Check2(j)
  <2>1. CASE Discard(j)
    BY <1>1, <2>1
  <2>2. ASSUME NEW step \in PC, Goto(j, step), UNCHANGED <<disk, lock>>
        PROVE  DiskType' /\ JobType'
    BY <2>2, GotoType DEF disk, DiskType, JobType
  <2>3. QED  BY <1>5, <2>1, <2>2 DEF Check1, Check2, CheckSource, Moving
<1>6. CASE Verify(j)
  <2>1. now' = now /\ Verified(d) /\ Goto(j, "check2") /\ lock' = lock
    BY <1>6 DEF Verify
  <2>2. DiskType'
    BY <2>1 DEF Verified, DiskType
  <2>3. QED  BY <2>1, <2>2, GotoType DEF JobType, Moving
<1>7. CASE Rename(j)
  <2>1. Change(d, [real |-> now[d].stage, stage |-> None], {}) /\ Goto(j, "syncout") /\ lock' = lock
    BY <1>7 DEF Rename
  <2>2. now[d].stage \in Name
    BY <1>7 DEF Rename, StageInv, Name
  <2>3. DiskType'
    BY <2>1, <2>2, SlotUpdate, ChangeType DEF DiskType
  <2>4. QED  BY <2>1, <2>3, GotoType DEF JobType, Moving
<1>8. CASE FsyncUp(j)
  BY <1>8, SyncType, GotoType DEF FsyncUp, DiskType, JobType, Moving
<1>9. CASE FsyncStage(j)
  BY <1>9, SyncType, GotoType DEF FsyncStage, DiskType, JobType, Moving
<1>10. CASE Check3(j)
  <2>1. PICK step \in {"unlink", "undo"} : Goto(j, step)
    BY <1>10 DEF Check3
  <2>2. UNCHANGED <<disk, lock>>
    BY <1>10 DEF Check3
  <2>3. QED  BY <2>1, <2>2, GotoType DEF disk, DiskType, JobType, Moving
<1>11. CASE Undo(j)
  <2>1. Change(d, [now[d] EXCEPT !.real = None], {}) /\ Leave(j)
    BY <1>11 DEF Undo
  <2>2. [now[d] EXCEPT !.real = None] \in Slot
    BY SlotType
  <2>3. DiskType'
    BY <2>1, <2>2, ChangeType DEF DiskType
  <2>4. QED  BY <2>1, <2>3, LeaveType DEF JobType
<1>12. CASE Unlink(j)
  <2>1. Change(s, [now[s] EXCEPT !.real = None], {}) /\ Goto(j, "syncsrc") /\ lock' = lock
    BY <1>12 DEF Unlink
  <2>2. [now[s] EXCEPT !.real = None] \in Slot
    BY SlotType
  <2>3. DiskType'
    BY <2>1, <2>2, ChangeType DEF DiskType
  <2>4. QED  BY <2>1, <2>3, GotoType DEF JobType, Moving
<1>13. CASE FsyncSource(j)
  BY <1>13, SyncType, GotoType DEF FsyncSource, DiskType, JobType
<1>14. CASE Raise(j)
  BY <1>14, LeaveType DEF Raise, disk, DiskType, JobType
<1>15. QED
  BY <1>2, <1>3, <1>4, <1>5, <1>6, <1>7, <1>8, <1>9, <1>10, <1>11, <1>12,
     <1>13, <1>14 DEF Move

LEMMA AppSlots ==
  ASSUME DiskType, NEW f \in [Branch -> Name], SetReal(f)
  PROVE  DiskType'
<1>1. \A s \in Slot, x \in Name : [s EXCEPT !.real = x] \in Slot
  BY SlotUpdate
<1>2. now' \in [Branch -> Slot]
  BY <1>1 DEF SetReal, DiskType
<1>3. ASSUME NEW b \in Branch
      PROVE  may'[b] \in SUBSET Slot /\ now'[b] \in may'[b]
  <2>1. /\ may'[b] = {[s EXCEPT !.real = f[b]] : s \in may[b]}
        /\ now'[b] = [now[b] EXCEPT !.real = f[b]]
    BY DEF SetReal
  <2>2. may[b] \in SUBSET Slot /\ now[b] \in may[b] /\ f[b] \in Name
    BY DEF DiskType
  <2>3. \A t \in may[b] : [t EXCEPT !.real = f[b]] \in Slot
    BY <1>1, <2>2
  <2>4. QED  BY <2>1, <2>2, <2>3
<1>4. may' \in [Branch -> SUBSET Slot]
  <2>1. may' = [b \in Branch |-> may'[b]]
    BY DEF SetReal
  <2>2. QED  BY <1>3, <2>1
<1>5. QED  BY <1>2, <1>3, <1>4 DEF DiskType

LEMMA AppTypes ==
  ASSUME TypeOK, (\E b \in Branch : AppWrite(b)) \/ AppDelete \/ EditInPlace
  PROVE  DiskType' /\ JobType' /\ written' \in Version
         /\ truth' \in Version \cup {None} /\ raced' \in BOOLEAN
<1>. DiskType /\ JobType /\ AppType
  BY TypeParts
<1>. None \in Name
  BY DEF Name
<1>1. CASE \E b \in Branch : AppWrite(b)
  <2>1. PICK b \in Branch : AppWrite(b)
    BY <1>1
  <2>2. written + 1 \in Version /\ written + 1 \in Name
    BY <2>1, ValueAssumption DEF AppWrite, AppType, Version, Name, Content
  <2>3. DiskType'
    BY <2>1, <2>2, AppSlots DEF AppWrite
  <2>4. raced' \in BOOLEAN
    BY <2>1 DEF AppWrite, AppType
  <2>5. QED  BY <2>1, <2>2, <2>3, <2>4 DEF AppWrite, AppType, JobType, jobs
<1>2. CASE AppDelete
  <2>1. DiskType'
    BY <1>2, AppSlots DEF AppDelete
  <2>2. QED  BY <1>2, <2>1 DEF AppDelete, AppType, JobType, jobs
<1>3. CASE EditInPlace
  <2>1. PICK b \in Branch :
          /\ written' = written + 1
          /\ truth' = written + 1
          /\ raced' = (raced \/ Doubled(b))
          /\ now' = [now EXCEPT ![b].real = written + 1]
          /\ may' = [may EXCEPT ![b] = {[s EXCEPT !.real = written + 1] : s \in @}]
    BY <1>3 DEF EditInPlace
  <2>2. written + 1 \in Version /\ written + 1 \in Name
    BY <1>3, ValueAssumption DEF EditInPlace, AppType, Version, Name, Content
  <2>3. \A s \in Slot : [s EXCEPT !.real = written + 1] \in Slot
    BY <2>2, SlotUpdate
  <2>4. DiskType'
    BY <2>1, <2>3 DEF DiskType
  <2>5. raced' \in BOOLEAN
    BY <2>1 DEF AppType
  <2>6. QED  BY <1>3, <2>1, <2>2, <2>4, <2>5 DEF EditInPlace, JobType, jobs
<1>4. QED  BY <1>1, <1>2, <1>3

LEMMA TypeStep ==
  ASSUME TypeOK, StageInv, Next
  PROVE  TypeOK'
<1>. DiskType /\ JobType /\ AppType
  BY TypeParts
<1>1. ASSUME NEW j \in Job, Demote(j) \/ Promote(j) \/ Step(j) \/ KillShell(j),
             UNCHANGED faults
      PROVE  TypeOK'
  <2>1. DiskType' /\ JobType'
    BY <1>1, ShellType, RecoverType, MoveType DEF Step
  <2>2. UNCHANGED apps
    BY <1>1 DEF Demote, Promote, Start, Step, Acquire, GiveUp, NextFile, LoopEnds,
         KillShell, Recover, RecoverDrop, RecoverPlace, RecoverSync, RecoverKeep,
         RecoverDone, Move, RsyncStart, RsyncEnd, RsyncFails, Check1, Check2,
         CheckSource, Verify, VerifyFails, Rename, FsyncUp, FsyncStage, Check3,
         Undo, Unlink, FsyncSource, Raise
  <2>3. AppType'
    BY <1>1, <2>2 DEF apps, AppType
  <2>4. QED  BY <2>1, <2>3, TypeParts DEF DiskType, JobType, AppType, TypeOK
<1>2. ASSUME (\E b \in Branch : AppWrite(b)) \/ AppDelete \/ EditInPlace,
             UNCHANGED faults
      PROVE  TypeOK'
  BY <1>2, AppTypes DEF DiskType, JobType, AppType, TypeOK
<1>3. ASSUME NEW j \in Job, Kill(j)
      PROVE  TypeOK'
  <2>1. /\ UNCHANGED <<disk, apps>> /\ faults' \in Nat
        /\ Leave(j)
    BY <1>3 DEF Kill, AppType
  <2>2. QED  BY <2>1, LeaveType DEF disk, apps, DiskType, AppType, TypeOK
<1>4. CASE PowerCut
  <2>1. DiskType'
    BY <1>4 DEF PowerCut, DiskType
  <2>2. JobType'
    BY <1>4, BranchAssumption DEF PowerCut, JobType, PC, Name
  <2>3. AppType'
    BY <1>4 DEF PowerCut, AppType, apps
  <2>4. QED  BY <2>1, <2>2, <2>3 DEF DiskType, JobType, AppType, TypeOK
<1>5. QED  BY <1>1, <1>2, <1>3, <1>4 DEF Next

-----------------------------------------------------------------------------
(* Who holds the lock, and what the other jobs may do meanwhile.           *)

LEMMA Holder ==
  ASSUME LockInv, NEW j \in Job, pc[j] \in Held
  PROVE  lock = j /\ \A k \in Job \ {j} : pc[k] \notin Held
BY DEF LockInv

LEMMA HeldSteps ==
  /\ "idle" \notin Held /\ "wait" \notin Held
  /\ {"recover", "recoversync", "next"} \subseteq Held
  /\ Moving \subseteq Held
BY DEF Held, Recovering, Moving

LEMMA LockStep ==
  ASSUME IInv, Next
  PROVE  LockInv'
<1>. TypeOK /\ LockInv
  BY DEF IInv
<1>. pc \in [Job -> PC] /\ lock \in Job \cup {NoJob} /\ NoJob \notin Job
  BY ValueAssumption DEF TypeOK
<1>1. ASSUME NEW j \in Job, Leave(j)
      PROVE  LockInv'
  BY <1>1, HeldSteps DEF Leave, LockInv
<1>2. ASSUME NEW j \in Job, pc[j] \in Held, NEW step \in Held, Goto(j, step), lock' = lock
      PROVE  LockInv'
  BY <1>2 DEF Goto, LockInv
<1>3. ASSUME NEW j \in Job, Step(j)
      PROVE  LockInv'
  <2>1. CASE Acquire(j)
    BY <2>1, HeldSteps DEF Acquire, Goto, LockInv
  <2>2. CASE GiveUp(j) \/ LoopEnds(j)
    BY <1>1, <2>2 DEF GiveUp, LoopEnds
  <2>3. CASE NextFile(j)
    BY <2>3, HeldSteps DEF NextFile, LockInv, Moving
  <2>4. CASE Recover(j)
    <3>1. CASE UNCHANGED <<jobs, lock>>
      BY <3>1 DEF jobs, LockInv
    <3>2. CASE Goto(j, "recoversync") \/ Goto(j, "recover") \/ Goto(j, "next")
      BY <1>2, <2>4, <3>2, HeldSteps DEF Recover, RecoverDrop, RecoverPlace,
         RecoverSync, RecoverKeep, RecoverDone, Leftover
    <3>3. QED  BY <2>4, <3>1, <3>2 DEF Recover, RecoverDrop, RecoverPlace,
         RecoverSync, RecoverKeep, RecoverDone
  <2>5. CASE Move(j)
    <3>1. CASE Leave(j)
      BY <1>1, <3>1
    <3>2. CASE /\ \E step \in Moving \cup {"next"} : Goto(j, step)
               /\ lock' = lock /\ pc[j] \in Moving
      BY <1>2, <3>2, HeldSteps
    <3>3. QED
      BY <2>5, <3>1, <3>2 DEF Move, Moving, Discard, RsyncStart, RsyncEnd, RsyncFails,
         Check1, Check2, CheckSource, Verify, VerifyFails, Rename, FsyncUp,
         FsyncStage, Check3, Undo, Unlink, FsyncSource, Raise
  <2>6. QED  BY <1>3, <2>1, <2>2, <2>3, <2>4, <2>5 DEF Step
<1>4. ASSUME NEW j \in Job, Demote(j) \/ Promote(j)
      PROVE  LockInv'
  BY <1>4, HeldSteps DEF Demote, Promote, Start, LockInv
<1>5. ASSUME NEW j \in Job, KillShell(j)
      PROVE  LockInv'
  BY <1>5 DEF KillShell, LockInv
<1>6. ASSUME NEW j \in Job, Kill(j)
      PROVE  LockInv'
  BY <1>1, <1>6 DEF Kill
<1>7. CASE PowerCut
  BY <1>7, HeldSteps DEF PowerCut, LockInv
<1>8. CASE (\E b \in Branch : AppWrite(b)) \/ AppDelete \/ EditInPlace
  BY <1>8 DEF AppWrite, AppDelete, EditInPlace, jobs, LockInv
<1>9. QED  BY <1>3, <1>4, <1>5, <1>6, <1>7, <1>8 DEF Next

LEMMA RouteStep ==
  ASSUME IInv, Next
  PROVE  RouteInv'
<1>. TypeOK /\ RouteInv /\ ("idle" \notin Moving /\ "wait" \notin Moving)
  BY DEF IInv, Moving
<1>. /\ pc \in [Job -> PC] /\ src \in [Job -> Branch] /\ dst \in [Job -> Branch]
     /\ todo \in [Job -> SUBSET Branch] /\ before \in [Job -> Name]
  BY DEF TypeOK
<1>1. ASSUME NEW j \in Job, Leave(j)
      PROVE  RouteInv'
  BY <1>1 DEF Leave, RouteInv
<1>2. ASSUME NEW j \in Job, NEW step, Goto(j, step), step \in Moving => pc[j] \in Moving
      PROVE  RouteInv'
  BY <1>2 DEF Goto, RouteInv
<1>3. ASSUME NEW j \in Job, Step(j)
      PROVE  RouteInv'
  <2>1. CASE Acquire(j)
    BY <1>2, <2>1 DEF Acquire, Moving
  <2>2. CASE GiveUp(j) \/ LoopEnds(j)
    BY <1>1, <2>2 DEF GiveUp, LoopEnds
  <2>3. CASE NextFile(j)
    BY <2>3 DEF NextFile, RouteInv, Has
  <2>4. CASE Recover(j)
    <3>1. CASE UNCHANGED jobs
      BY <3>1 DEF jobs, RouteInv
    <3>2. CASE Goto(j, "recoversync") \/ Goto(j, "recover") \/ Goto(j, "next")
      BY <1>2, <3>2 DEF Moving
    <3>3. QED  BY <2>4, <3>1, <3>2 DEF Recover, RecoverDrop, RecoverPlace,
         RecoverSync, RecoverKeep, RecoverDone
  <2>5. CASE Move(j)
    <3>1. CASE Leave(j)
      BY <1>1, <3>1
    <3>2. CASE pc[j] \in Moving /\ \E step \in Moving \cup {"next"} : Goto(j, step)
      BY <1>2, <3>2
    <3>3. QED
      BY <2>5, <3>1, <3>2 DEF Move, Moving, Discard, RsyncStart, RsyncEnd, RsyncFails,
         Check1, Check2, CheckSource, Verify, VerifyFails, Rename, FsyncUp,
         FsyncStage, Check3, Undo, Unlink, FsyncSource, Raise
  <2>6. QED  BY <1>3, <2>1, <2>2, <2>3, <2>4, <2>5 DEF Step
<1>4. ASSUME NEW j \in Job, Demote(j) \/ Promote(j)
      PROVE  RouteInv'
  <2>1. PICK d \in Branch, S \in SUBSET Branch : d \notin S /\ Start(j, d, S)
    BY <1>4, BranchAssumption DEF Demote, Promote, Hot
  <2>2. QED  BY <2>1 DEF Start, RouteInv
<1>5. ASSUME NEW j \in Job, KillShell(j)
      PROVE  RouteInv'
  BY <1>5 DEF KillShell, RouteInv
<1>6. ASSUME NEW j \in Job, Kill(j)
      PROVE  RouteInv'
  BY <1>1, <1>6 DEF Kill
<1>7. CASE PowerCut
  BY <1>7 DEF PowerCut, RouteInv
<1>8. CASE (\E b \in Branch : AppWrite(b)) \/ AppDelete \/ EditInPlace
  BY <1>8 DEF AppWrite, AppDelete, EditInPlace, jobs, RouteInv
<1>9. QED  BY <1>3, <1>4, <1>5, <1>6, <1>7, <1>8 DEF Next

-----------------------------------------------------------------------------
(* Most steps of a job change no real name.                                *)

Quiet == \A b \in Branch : /\ now'[b].real = now[b].real
                           /\ \A s \in may'[b] : \E t \in may[b] : s.real = t.real

LEMMA QuietChange ==
  ASSUME TypeOK, NEW b \in Branch, NEW slot \in Slot, NEW torn \in SUBSET Slot,
         slot.real = now[b].real, \A s \in torn : s.real = now[b].real,
         Change(b, slot, torn)
  PROVE  Quiet
BY DEF TypeOK, Change, Quiet

LEMMA QuietStage ==
  ASSUME TypeOK, NEW b \in Branch, NEW x \in Name \cup {Partial},
         Change(b, [now[b] EXCEPT !.stage = x], {})
  PROVE  Quiet
<1>1. /\ now[b] \in Slot
      /\ [now[b] EXCEPT !.stage = x] \in Slot
      /\ [now[b] EXCEPT !.stage = x].real = now[b].real
  BY DEF TypeOK, Slot
<1>2. {} \in SUBSET Slot /\ \A s \in {} : s.real = now[b].real
  OBVIOUS
<1>3. QED  BY <1>1, <1>2, QuietChange

LEMMA QuietSync ==
  ASSUME TypeOK, NEW b \in Branch, SyncReal(b) \/ SyncStage(b) \/ (now' = now /\ Verified(b))
  PROVE  Quiet
BY DEF TypeOK, SyncReal, SyncStage, Verified, Quiet

LEMMA QuietSame ==
  ASSUME TypeOK, UNCHANGED disk
  PROVE  Quiet
BY DEF disk, Quiet

\* The four steps of a job that change a real name.
Loud(j) == RecoverPlace(j) \/ Rename(j) \/ Undo(j) \/ Unlink(j)

LEMMA QuietSteps ==
  ASSUME TypeOK, NEW j \in Job, Step(j), ~Loud(j)
  PROVE  Quiet
<1>. DEFINE d == dst[j]
<1>. d \in Branch /\ src[j] \in Branch /\ before[j] \in Name /\ now[d] \in Slot /\ now[src[j]] \in Slot
  BY DEF TypeOK
<1>. None \in Name /\ Torn \in Name
  BY DEF Name, Content
<1>1. CASE UNCHANGED disk
  BY <1>1, QuietSame
<1>2. CASE Discard(j) \/ RecoverDrop(j) \/ RecoverKeep(j) \/ RsyncStart(j)
  BY <1>2, QuietStage DEF Discard, RecoverDrop, RecoverKeep, RsyncStart
<1>3. CASE RecoverSync(j) \/ FsyncUp(j) \/ FsyncStage(j) \/ FsyncSource(j) \/ Verify(j)
  BY <1>3, QuietSync DEF RecoverSync, FsyncUp, FsyncStage, FsyncSource, Verify
<1>4. CASE RsyncEnd(j)
  <2>1. PICK c \in {before[j], now[src[j]].real} \ {None} :
          Change(d, [now[d] EXCEPT !.stage = c], {[now[d] EXCEPT !.stage = Torn]})
    BY <1>4 DEF RsyncEnd
  <2>2. c \in Name
    BY SlotType
  <2>3. /\ [now[d] EXCEPT !.stage = c] \in Slot
        /\ [now[d] EXCEPT !.stage = c].real = now[d].real
        /\ {[now[d] EXCEPT !.stage = Torn]} \in SUBSET Slot
        /\ [now[d] EXCEPT !.stage = Torn].real = now[d].real
    BY <2>2 DEF Slot
  <2>4. QED  BY <2>1, <2>3, QuietChange
<1>5. CASE Acquire(j) \/ GiveUp(j) \/ NextFile(j) \/ LoopEnds(j)
  BY <1>1, <1>5 DEF Acquire, GiveUp, NextFile, LoopEnds, disk
<1>6. CASE Recover(j)
  BY <1>1, <1>2, <1>3, <1>6 DEF Loud, Recover, RecoverDone, disk
<1>7. CASE Move(j)
  <2>1. CASE RsyncFails(j) \/ VerifyFails(j)
    BY <1>2, <2>1 DEF RsyncFails, VerifyFails
  <2>2. CASE Check1(j) \/ Check2(j) \/ Check3(j) \/ Raise(j)
    BY <1>1, <1>2, <2>2 DEF Check1, Check2, CheckSource, Check3, Raise, disk
  <2>3. QED  BY <1>2, <1>3, <1>4, <1>7, <2>1, <2>2 DEF Loud, Move
<1>8. QED  BY <1>5, <1>6, <1>7 DEF Step

LEMMA QuietKeeps ==
  ASSUME TypeOK, CleanInv, NoLoss, Quiet, UNCHANGED apps
  PROVE  /\ CleanInv' /\ NoLoss'
         /\ \A b \in Branch : Durable(b) => Durable(b)'
BY DEF Quiet, apps, CleanInv, NoLoss, Settled, Survives, Durable

\* Which apps' variables a job touches: none.
LEMMA StepApps ==
  ASSUME NEW j \in Job, Demote(j) \/ Promote(j) \/ Step(j) \/ KillShell(j) \/ Kill(j)
  PROVE  UNCHANGED apps
BY DEF Demote, Promote, Start, Step, Acquire, GiveUp, NextFile, LoopEnds,
   KillShell, Kill, Recover, RecoverDrop, RecoverPlace, RecoverSync, RecoverKeep,
   RecoverDone, Move, RsyncStart, RsyncEnd, RsyncFails, Check1, Check2,
   CheckSource, Verify, VerifyFails, Rename, FsyncUp, FsyncStage, Check3,
   Undo, Unlink, FsyncSource, Raise

\* Until the copy is in place nothing is unlinked but leftovers, so the lock
\* keeps every other job away from the source and the destination.
LEMMA OthersRest ==
  ASSUME TypeOK, LockInv, NEW j \in Job, Step(j), pc[j] \in Held,
         NEW k \in Job \ {j}
  PROVE  pc'[k] = pc[k] /\ pc'[k] \notin Held
<1>1. pc[k] \notin Held
  BY Holder
<1>2. pc'[k] = pc[k]
  BY DEF TypeOK, Step, Goto, Leave, jobs, Acquire, GiveUp, NextFile, LoopEnds,
     Recover, RecoverDrop, RecoverPlace, RecoverSync, RecoverKeep, RecoverDone,
     Move, Discard, RsyncStart, RsyncEnd, RsyncFails, Check1, Check2, CheckSource,
     Verify, VerifyFails, Rename, FsyncUp, FsyncStage, Check3, Undo, Unlink,
     FsyncSource, Raise
<1>3. QED  BY <1>1, <1>2

-----------------------------------------------------------------------------
(* The remaining conjuncts of the inductive invariant.                     *)

\* A step that leaves the disks and the apps alone, and every job but j; j is
\* not at a step of a move afterwards.
Aside(j) == /\ UNCHANGED <<disk, apps>>
            /\ pc'[j] \notin Moving
            /\ \A k \in Job \ {j} : /\ pc'[k] = pc[k] /\ src'[k] = src[k]
                                    /\ dst'[k] = dst[k] /\ before'[k] = before[k]

LEMMA AsideSteps ==
  ASSUME TypeOK, NEW j \in Job,
         Demote(j) \/ Promote(j) \/ Acquire(j) \/ GiveUp(j) \/ LoopEnds(j) \/ Kill(j)
  PROVE  Aside(j)
<1>. pc \in [Job -> PC] /\ src \in [Job -> Branch] /\ dst \in [Job -> Branch] /\ before \in [Job -> Name]
  BY DEF TypeOK
<1>1. CASE Demote(j) \/ Promote(j)
  BY <1>1 DEF Demote, Promote, Start, Moving, Aside
<1>2. CASE Acquire(j)
  BY <1>2 DEF Acquire, Goto, Moving, Aside
<1>3. CASE GiveUp(j) \/ LoopEnds(j) \/ Kill(j)
  BY <1>3 DEF GiveUp, LoopEnds, Kill, Leave, Moving, Aside
<1>4. QED  BY <1>1, <1>2, <1>3

LEMMA StageStep ==
  ASSUME IInv, Next
  PROVE  StageInv'
<1>. DEFINE Copied == {"check1", "verify", "check2", "rename"}
<1>. TypeOK /\ LockInv /\ StageInv /\ Copied \subseteq Held /\ Copied \subseteq Moving
  BY DEF IInv, Held, Moving
<1>. pc \in [Job -> PC] /\ now \in [Branch -> Slot]
  BY DEF TypeOK
<1>1. ASSUME NEW j \in Job, Aside(j)
      PROVE  StageInv'
  BY <1>1 DEF Aside, disk, StageInv
<1>2. ASSUME NEW j \in Job, Step(j), pc[j] \in Held, pc'[j] \notin Copied
      PROVE  StageInv'
  BY <1>2, OthersRest DEF StageInv
<1>3. ASSUME NEW j \in Job, Step(j), pc[j] \in Held, pc'[j] \in Copied
      PROVE  StageInv'
  <2>1. RsyncEnd(j) \/ Check1(j) \/ Verify(j) \/ Check2(j)
    <3>1. CASE Acquire(j) \/ GiveUp(j) \/ NextFile(j) \/ LoopEnds(j)
      BY <1>3, <3>1 DEF Acquire, GiveUp, NextFile, LoopEnds, Goto, Leave
    <3>2. CASE Recover(j)
      BY <1>3, <3>2 DEF Recover, RecoverDrop, RecoverPlace, RecoverSync, RecoverKeep,
         RecoverDone, Leftover, Goto, jobs
    <3>3. CASE Move(j)
      BY <1>3, <3>3 DEF Move, RsyncStart, RsyncFails, Discard, VerifyFails, Rename,
         FsyncUp, FsyncStage, Check3, Undo, Unlink, FsyncSource, Raise, Goto, Leave
    <3>4. QED  BY <1>3, <3>1, <3>2, <3>3 DEF Step
  <2>2. now'[dst'[j]].stage \in Content
    <3>1. CASE RsyncEnd(j)
      <4>1. PICK c \in {before[j], now[src[j]].real} \ {None} :
              Change(dst[j], [now[dst[j]] EXCEPT !.stage = c], {[now[dst[j]] EXCEPT !.stage = Torn]})
        BY <3>1 DEF RsyncEnd
      <4>2. c \in Content /\ dst[j] \in Branch /\ now[dst[j]] \in Slot
        BY DEF TypeOK, Slot, Name
      <4>3. [now[dst[j]] EXCEPT !.stage = c].stage = c
        BY <4>2 DEF Slot
      <4>4. dst' = dst
        BY <3>1 DEF RsyncEnd, Goto
      <4>5. QED  BY <4>1, <4>2, <4>3, <4>4 DEF Change
    <3>2. CASE Check1(j) \/ Verify(j) \/ Check2(j)
      <4>1. pc[j] \in Copied /\ now' = now /\ dst' = dst
        BY <1>3, <3>2 DEF Check1, Check2, CheckSource, Verify, Goto, Discard, Leave, disk
      <4>2. QED  BY <4>1 DEF StageInv
    <3>3. QED  BY <2>1, <3>1, <3>2
  <2>3. QED  BY <1>3, <2>2, OthersRest DEF StageInv
<1>4. ASSUME NEW j \in Job, Step(j), pc[j] \notin Held
      PROVE  Aside(j)
  <2>1. Acquire(j) \/ GiveUp(j)
    BY <1>4, HeldSteps DEF Step, Recover, RecoverDrop, RecoverPlace, RecoverSync,
       RecoverKeep, RecoverDone, Leftover, NextFile, LoopEnds, Move, RsyncStart,
       RsyncEnd, RsyncFails, Check1, Check2, CheckSource, Verify, VerifyFails,
       Rename, FsyncUp, FsyncStage, Check3, Undo, Unlink, FsyncSource, Raise, Moving
  <2>2. QED  BY <2>1, AsideSteps
<1>5. ASSUME NEW j \in Job, KillShell(j)
      PROVE  StageInv'
  BY <1>5 DEF KillShell, disk, StageInv
<1>6. CASE PowerCut
  BY <1>6 DEF PowerCut, StageInv
<1>7. CASE (\E b \in Branch : AppWrite(b)) \/ AppDelete \/ EditInPlace
  <2>1. \A b \in Branch : now'[b].stage = now[b].stage
    BY <1>7 DEF AppWrite, AppDelete, EditInPlace, SetReal, Slot
  <2>2. UNCHANGED jobs /\ dst \in [Job -> Branch]
    BY <1>7 DEF AppWrite, AppDelete, EditInPlace, TypeOK
  <2>3. QED  BY <2>1, <2>2 DEF jobs, StageInv
<1>8. QED  BY <1>1, <1>2, <1>3, <1>4, <1>5, <1>6, <1>7, AsideSteps DEF Next

LEMMA FreshStep ==
  ASSUME IInv, Next
  PROVE  FreshInv'
<1>. TypeOK /\ FreshInv /\ StageInv
  BY DEF IInv
<1>. /\ now \in [Branch -> Slot] /\ may \in [Branch -> SUBSET Slot]
     /\ \A b \in Branch : now[b] \in may[b]
     /\ src \in [Job -> Branch] /\ dst \in [Job -> Branch]
     /\ before \in [Job -> Name] /\ written \in Nat
  BY ValueAssumption DEF TypeOK, Version
<1>. None \notin Version /\ Torn \notin Version /\ Partial \notin Version
  BY ValueAssumption DEF Version
<1>. DEFINE Good(s) == Fresh(s.real) /\ Fresh(s.stage)
<1>0. Fresh(None) /\ Fresh(Torn) /\ Fresh(Partial)
  BY DEF Fresh
<1>1. ASSUME NEW j \in Job, Demote(j) \/ Promote(j) \/ Step(j) \/ Kill(j) \/ KillShell(j)
      PROVE  FreshInv'
  <2>1. UNCHANGED apps
    BY <1>1, StepApps
  <2>2. \A k \in Job : Fresh(before'[k])
    <3>1. \A k \in Job : before'[k] \in {before[k], None} \cup {now[b].real : b \in Branch}
      <4>1. CASE Leave(j)
        BY <4>1 DEF Leave
      <4>2. CASE before' = before
        BY <4>2
      <4>3. CASE NextFile(j)
        BY <4>3 DEF NextFile, TypeOK
      <4>4. QED
        BY <1>1, <4>1, <4>2, <4>3 DEF Demote, Promote, Start, Step, Kill, KillShell, Acquire,
           GiveUp, LoopEnds, Recover, RecoverDrop, RecoverPlace, RecoverSync,
           RecoverKeep, RecoverDone, Move, Discard, RsyncStart, RsyncEnd, RsyncFails,
           Check1, Check2, CheckSource, Verify, VerifyFails, Rename, FsyncUp,
           FsyncStage, Check3, Undo, Unlink, FsyncSource, Raise, Goto, jobs
    <3>2. QED  BY <1>0, <3>1 DEF FreshInv
  <2>3. \A b \in Branch : \A s \in may'[b] : Good(s)
    <3>0. ASSUME NEW b \in Branch, NEW slot, NEW torn, Change(b, slot, torn),
                 Good(slot), \A s \in torn : Good(s)
          PROVE  \A c \in Branch : \A s \in may'[c] : Good(s)
      BY <3>0 DEF Change, FreshInv
    <3>a. ASSUME NEW b \in Branch, NEW slot, Change(b, slot, {}), Good(slot)
          PROVE  \A c \in Branch : \A s \in may'[c] : Good(s)
      BY <3>a DEF Change, FreshInv
    <3>1. \A b \in Branch : Good(now[b]) /\ now[b] \in Slot
      BY DEF FreshInv
    <3>2. \A b \in Branch : \A x : Fresh(x) => Good([now[b] EXCEPT !.stage = x])
      BY <3>1 DEF Slot
    <3>3. \A b \in Branch : Good([now[b] EXCEPT !.real = None])
      BY <1>0, <3>1 DEF Slot
    <3>4. CASE UNCHANGED may
      BY <3>4 DEF FreshInv
    <3>5. CASE \E b \in Branch : SyncReal(b) \/ SyncStage(b) \/ Verified(b)
      BY <3>5 DEF SyncReal, SyncStage, Verified, FreshInv
    <3>6. CASE Discard(j) \/ RecoverDrop(j) \/ RecoverKeep(j) \/ RsyncStart(j)
      <4>1. PICK x \in {None, Partial} : Change(dst[j], [now[dst[j]] EXCEPT !.stage = x], {})
        BY <3>6 DEF Discard, RecoverDrop, RecoverKeep, RsyncStart
      <4>2. dst[j] \in Branch /\ Fresh(x)
        BY <1>0
      <4>3. Good([now[dst[j]] EXCEPT !.stage = x])
        BY <3>2, <4>2
      <4>4. QED  BY <3>a, <4>1, <4>2, <4>3
    <3>7. CASE RsyncEnd(j)
      <4>1. PICK c \in {before[j], now[src[j]].real} \ {None} :
              Change(dst[j], [now[dst[j]] EXCEPT !.stage = c], {[now[dst[j]] EXCEPT !.stage = Torn]})
        BY <3>7 DEF RsyncEnd
      <4>2. Fresh(c)
        BY <3>1 DEF FreshInv
      <4>3. Good([now[dst[j]] EXCEPT !.stage = c]) /\ Good([now[dst[j]] EXCEPT !.stage = Torn])
        BY <1>0, <3>2, <4>2
      <4>4. QED  BY <3>0, <4>1, <4>3
    <3>8. CASE RecoverPlace(j) \/ Rename(j)
      <4>1. Change(dst[j], [real |-> now[dst[j]].stage, stage |-> None], {})
        BY <3>8 DEF RecoverPlace, Rename
      <4>2. Good([real |-> now[dst[j]].stage, stage |-> None])
        BY <1>0, <3>1
      <4>3. QED  BY <3>a, <4>1, <4>2
    <3>9. CASE Undo(j) \/ Unlink(j)
      <4>1. PICK b \in Branch : Change(b, [now[b] EXCEPT !.real = None], {})
        BY <3>9 DEF Undo, Unlink
      <4>2. Good([now[b] EXCEPT !.real = None])
        BY <3>3
      <4>3. QED  BY <3>a, <4>1, <4>2
    <3>10. CASE Move(j)
      <4>1. CASE Check1(j) \/ Check2(j) \/ Check3(j) \/ Raise(j)
        BY <3>4, <3>6, <4>1 DEF Check1, Check2, CheckSource, Check3, Raise, disk
      <4>2. CASE FsyncUp(j) \/ FsyncStage(j) \/ FsyncSource(j) \/ Verify(j)
        BY <3>5, <4>2 DEF FsyncUp, FsyncStage, FsyncSource, Verify
      <4>3. CASE RsyncFails(j) \/ VerifyFails(j)
        BY <3>6, <4>3 DEF RsyncFails, VerifyFails
      <4>4. QED  BY <3>6, <3>7, <3>8, <3>9, <3>10, <4>1, <4>2, <4>3 DEF Move
    <3>11. CASE Recover(j)
      <4>1. CASE RecoverSync(j) \/ RecoverDone(j)
        BY <3>4, <3>5, <4>1 DEF RecoverSync, RecoverDone, disk
      <4>2. QED  BY <3>6, <3>8, <3>11, <4>1 DEF Recover
    <3>12. CASE Demote(j) \/ Promote(j) \/ Acquire(j) \/ GiveUp(j) \/ NextFile(j)
                \/ LoopEnds(j) \/ Kill(j) \/ KillShell(j)
      BY <3>4, <3>12 DEF Demote, Promote, Start, Acquire, GiveUp, NextFile, LoopEnds,
         Kill, KillShell, disk
    <3>13. QED  BY <1>1, <3>10, <3>11, <3>12 DEF Step
  <2>4. QED  BY <2>1, <2>2, <2>3 DEF apps, FreshInv, Fresh
<1>2. CASE PowerCut
  <2>1. UNCHANGED written /\ \A j \in Job : before'[j] = None
    BY <1>2 DEF PowerCut, apps
  <2>2. \A b \in Branch : \A s \in may'[b] : s \in may[b]
    BY <1>2 DEF PowerCut
  <2>3. QED  BY <1>0, <2>1, <2>2 DEF FreshInv, Fresh
<1>3. CASE (\E b \in Branch : AppWrite(b)) \/ AppDelete \/ EditInPlace
  <2>1. /\ written' \in {written, written + 1}
        /\ before' = before
    BY <1>3 DEF AppWrite, AppDelete, EditInPlace, jobs
  <2>3. ASSUME NEW b \in Branch, NEW s \in may'[b]
        PROVE  /\ s.real \in {None, written'} \/ \E t \in may[b] : s.real = t.real
               /\ \E t \in may[b] : s.stage = t.stage
    BY <1>3, <2>3 DEF AppWrite, AppDelete, EditInPlace, SetReal, Slot
  <2>4. \A x : Fresh(x) \/ x \in {None, written'} => (x \in Version => x <= written')
    BY <2>1 DEF Fresh, Version
  <2>5. written <= written' /\ written \in Nat /\ written' \in Nat
    BY <1>0, <2>1
  <2>6. \A x : Fresh(x) => Fresh(x)'
    BY <2>5 DEF Fresh, Version
  <2>7. ASSUME NEW b \in Branch, NEW s \in may'[b]
        PROVE  Fresh(s.real)' /\ Fresh(s.stage)'
    <3>1. \A t \in may[b] : Fresh(t.real) /\ Fresh(t.stage)
      BY DEF FreshInv
    <3>2. Fresh(s.stage)'
      BY <2>3, <2>6, <2>7, <3>1
    <3>3. CASE s.real \in {None, written'}
      BY <2>4, <3>2, <3>3 DEF Fresh
    <3>4. CASE \E t \in may[b] : s.real = t.real
      BY <2>6, <3>1, <3>2, <3>4
    <3>5. QED  BY <2>3, <2>7, <3>3, <3>4
  <2>8. \A k \in Job : Fresh(before'[k])
    BY <2>1 DEF FreshInv
  <2>9. QED  BY <2>1, <2>6, <2>7, <2>8 DEF FreshInv, Fresh
<1>4. QED  BY <1>1, <1>2, <1>3 DEF Next

\* recover finds the staged copy to be the last one only for a path the apps
\* have removed.
LEMMA OnlyCopyRemoved ==
  ASSUME IInv, NEW j \in Job, RecoverPlace(j)
  PROVE  ~Settled
<1>. SUFFICES ASSUME Settled
              PROVE  FALSE
  OBVIOUS
<1>1. PICK b \in Branch : \A s \in may[b] : s.real = truth
  BY DEF IInv, NoLoss, Settled, Survives
<1>2. now[b].real = truth /\ truth # None
  BY <1>1 DEF IInv, TypeOK, Settled
<1>3. Has(b)
  BY <1>2 DEF Has
<1>4. QED  BY <1>3 DEF RecoverPlace, Original

\* No step loses the latest version or puts another one in its place.
LEMMA CopiesStep ==
  ASSUME IInv, Next
  PROVE  CleanInv' /\ NoLoss'
<1>. TypeOK /\ CleanInv /\ NoLoss /\ MoveInv /\ RouteInv /\ StageInv
  BY DEF IInv
<1>. /\ now \in [Branch -> Slot] /\ may \in [Branch -> SUBSET Slot]
     /\ \A b \in Branch : now[b] \in may[b]
     /\ src \in [Job -> Branch] /\ dst \in [Job -> Branch]
  BY DEF TypeOK
<1>1. ASSUME UNCHANGED <<disk, apps>>
      PROVE  CleanInv' /\ NoLoss'
  BY <1>1, QuietSame, QuietKeeps
<1>2. ASSUME NEW j \in Job, Step(j)
      PROVE  CleanInv' /\ NoLoss'
  <2>. UNCHANGED apps
    BY <1>2, StepApps
  <2>1. CASE ~Loud(j)
    BY <1>2, <2>1, QuietSteps, QuietKeeps
  <2>2. CASE RecoverPlace(j)
    BY <2>2, OnlyCopyRemoved DEF apps, CleanInv, NoLoss, Settled
  <2>3. CASE Undo(j)
    BY <2>3 DEF Undo, MoveInv, Knows, apps, CleanInv, NoLoss, Settled
  <2>4. CASE Rename(j)
    <3>1. Settled => now[dst[j]].stage = truth
      BY <2>4 DEF Rename, MoveInv, Knows
    <3>2. may' = [may EXCEPT ![dst[j]] = @ \cup {[real |-> now[dst[j]].stage, stage |-> None]}]
      BY <2>4 DEF Rename, Change
    <3>3. QED  BY <3>1, <3>2 DEF apps, CleanInv, NoLoss, Settled, Survives
  <2>5. CASE Unlink(j)
    <3>1. Settled => Durable(dst[j])
      BY <2>5 DEF Unlink, MoveInv, Knows
    <3>2. dst[j] # src[j]
      BY <2>5 DEF Unlink, RouteInv, Moving
    <3>3. may' = [may EXCEPT ![src[j]] = @ \cup {[now[src[j]] EXCEPT !.real = None]}]
      BY <2>5 DEF Unlink, Change
    <3>4. [now[src[j]] EXCEPT !.real = None].real = None
      BY DEF Slot
    <3>5. QED  BY <3>1, <3>2, <3>3, <3>4 DEF apps, CleanInv, NoLoss, Settled, Survives, Durable
  <2>6. QED  BY <2>1, <2>2, <2>3, <2>4, <2>5 DEF Loud
<1>3. ASSUME NEW j \in Job, Demote(j) \/ Promote(j) \/ KillShell(j) \/ Kill(j)
      PROVE  CleanInv' /\ NoLoss'
  BY <1>1, <1>3 DEF Demote, Promote, Start, KillShell, Kill
<1>4. CASE PowerCut
  <2>1. \A b \in Branch : \A s \in may'[b] : s \in may[b]
    BY <1>4 DEF PowerCut
  <2>2. QED  BY <1>4, <2>1 DEF PowerCut, apps, CleanInv, NoLoss, Settled, Survives
<1>5. CASE \E b \in Branch : AppWrite(b)
  <2>1. PICK b \in Branch : AppWrite(b)
    BY <1>5
  <2>2. \A c \in Branch : \A s \in may'[c] : s.real = IF c = b THEN truth' ELSE None
    BY <2>1 DEF AppWrite, SetReal, Slot
  <2>3. QED  BY <2>2 DEF CleanInv, NoLoss, Settled, Survives
<1>6. CASE AppDelete
  BY <1>6 DEF AppDelete, CleanInv, NoLoss, Settled
<1>7. CASE EditInPlace
  <2>1. PICK b \in Branch :
          /\ truth' = written + 1
          /\ raced' = (raced \/ Doubled(b))
          /\ may' = [may EXCEPT ![b] = {[s EXCEPT !.real = written + 1] : s \in @}]
    BY <1>7 DEF EditInPlace
  <2>2. \A s \in may'[b] : s.real = truth'
    BY <2>1 DEF Slot
  <2>3. Settled' => \A c \in Branch \ {b} : \A s \in may'[c] : s.real = None
    BY <2>1 DEF Settled, Doubled
  <2>4. QED  BY <2>2, <2>3 DEF CleanInv, NoLoss, Settled, Survives
<1>8. QED  BY <1>2, <1>3, <1>4, <1>5, <1>6, <1>7 DEF Next

\* What the job that holds the lock knows after its step.
LEMMA HolderKnows ==
  ASSUME IInv, NEW j \in Job, Step(j), pc[j] \in Held
  PROVE  Knows(j)'
<1>. TypeOK /\ CleanInv /\ Knows(j) /\ RouteInv
  BY DEF IInv, MoveInv
<1>. /\ now \in [Branch -> Slot] /\ may \in [Branch -> SUBSET Slot]
     /\ \A b \in Branch : now[b] \in may[b]
     /\ pc \in [Job -> PC] /\ src[j] \in Branch /\ dst[j] \in Branch
     /\ UNCHANGED apps
  BY StepApps DEF TypeOK
<1>. DEFINE Plain == {"idle", "wait", "recover", "recoversync", "next", "copy",
                      "copying", "check1", "verify", "syncsrc"}
<1>1. ASSUME pc'[j] \in Plain
      PROVE  Knows(j)'
  BY <1>1 DEF Knows, Blind
<1>2. CASE Recover(j) \/ Acquire(j) \/ GiveUp(j) \/ NextFile(j) \/ LoopEnds(j)
  <2>1. pc'[j] \in Plain
    BY <1>2 DEF Recover, RecoverDrop, RecoverPlace, RecoverSync, RecoverKeep,
       RecoverDone, Leftover, Acquire, GiveUp, NextFile, LoopEnds, Goto, Leave, jobs
  <2>2. QED  BY <1>1, <2>1
<1>3. CASE RsyncStart(j) \/ RsyncEnd(j) \/ RsyncFails(j) \/ Check1(j) \/ VerifyFails(j)
           \/ Undo(j) \/ Unlink(j) \/ FsyncSource(j) \/ Raise(j)
  <2>1. pc'[j] \in Plain
    BY <1>3 DEF RsyncStart, RsyncEnd, RsyncFails, Check1, CheckSource, VerifyFails, Undo,
       Unlink, FsyncSource, Raise, Discard, Goto, Leave
  <2>2. QED  BY <1>1, <2>1
<1>4. CASE Verify(j)
  <2>1. /\ pc'[j] = "check2" /\ now' = now /\ UNCHANGED <<src, dst, before>>
        /\ now[src[j]].real = now[dst[j]].stage
    BY <1>4 DEF Verify, Goto
  <2>2. QED  BY <2>1 DEF Knows, Blind
<1>5. CASE Check2(j)
  <2>1. CASE Leave(j)
    BY <1>1, <2>1 DEF Leave
  <2>2. CASE Unchanged(j) /\ Goto(j, "rename") /\ UNCHANGED disk
    <3>1. now[src[j]].real = before[j] /\ now[dst[j]].stage = before[j] /\ before[j] # None
      BY <1>5, <2>2 DEF Check2, CheckSource, Unchanged, Knows, RouteInv, Moving
    <3>2. Settled => before[j] = truth
      BY <3>1 DEF CleanInv
    <3>3. pc'[j] = "rename" /\ UNCHANGED <<now, src, dst, before>>
      BY <2>2 DEF Goto, disk
    <3>4. QED  BY <3>1, <3>2, <3>3 DEF Knows, Blind, Settled, apps
  <2>3. QED  BY <1>5, <2>1, <2>2 DEF Check2, CheckSource, Discard
<1>6. CASE Rename(j)
  <2>1. /\ pc'[j] = "syncout" /\ UNCHANGED <<src, dst, before>>
        /\ now' = [now EXCEPT ![dst[j]] = [real |-> now[dst[j]].stage, stage |-> None]]
    BY <1>6 DEF Rename, Change, Goto
  <2>2. pc[j] = "rename" /\ src[j] # dst[j]
    BY <1>6 DEF Rename, RouteInv, Moving
  <2>3. QED  BY <2>1, <2>2 DEF Knows, Blind, Settled, apps
<1>7. CASE FsyncUp(j)
  <2>1. /\ pc[j] = "syncout" /\ pc'[j] = "syncstage" /\ UNCHANGED <<now, src, dst, before>>
        /\ may'[dst[j]] = {s \in may[dst[j]] : s.real = now[dst[j]].real}
    BY <1>7 DEF FsyncUp, SyncReal, Goto
  <2>2. QED  BY <2>1 DEF Knows, Blind, Settled, Durable, apps
<1>8. CASE FsyncStage(j)
  <2>1. /\ pc[j] = "syncstage" /\ pc'[j] = "check3" /\ UNCHANGED <<now, src, dst, before>>
        /\ may'[dst[j]] \subseteq may[dst[j]]
    BY <1>8 DEF FsyncStage, SyncStage, Goto
  <2>2. QED  BY <2>1 DEF Knows, Blind, Settled, Durable, apps
<1>9. CASE Check3(j)
  <2>1. /\ pc[j] = "check3" /\ UNCHANGED <<now, may, src, dst, before>>
        /\ pc'[j] = IF Unchanged(j) THEN "unlink" ELSE "undo"
    BY <1>9 DEF Check3, Goto, disk
  <2>2. QED  BY <2>1 DEF Knows, Blind, Settled, Durable, Unchanged, apps
<1>10. QED
  BY <1>2, <1>3, <1>4, <1>5, <1>6, <1>7, <1>8, <1>9 DEF Step, Move

LEMMA KnowsStep ==
  ASSUME IInv, Next
  PROVE  MoveInv'
<1>. TypeOK /\ LockInv /\ MoveInv /\ RouteInv /\ FreshInv
  BY DEF IInv
<1>. /\ now \in [Branch -> Slot] /\ pc \in [Job -> PC] /\ dst \in [Job -> Branch]
     /\ src \in [Job -> Branch] /\ written \in Nat
  BY ValueAssumption DEF TypeOK, Version
<1>0. \A j \in Job : pc'[j] \notin Moving => Knows(j)'
  BY DEF Knows, Moving, Blind
<1>1. ASSUME NEW j \in Job, Aside(j)
      PROVE  MoveInv'
  BY <1>0, <1>1 DEF Aside, disk, apps, MoveInv, Knows, Settled, Durable, Has
<1>2. ASSUME NEW j \in Job, Step(j)
      PROVE  MoveInv'
  <2>1. CASE pc[j] \in Held
    BY <1>0, <1>2, <2>1, HolderKnows, OthersRest, HeldSteps DEF MoveInv
  <2>2. CASE pc[j] \notin Held
    <3>1. Acquire(j) \/ GiveUp(j)
      BY <1>2, <2>2, HeldSteps DEF Step, Recover, RecoverDrop, RecoverPlace, RecoverSync,
         RecoverKeep, RecoverDone, Leftover, NextFile, LoopEnds, Move, RsyncStart,
         RsyncEnd, RsyncFails, Check1, Check2, CheckSource, Verify, VerifyFails,
         Rename, FsyncUp, FsyncStage, Check3, Undo, Unlink, FsyncSource, Raise, Moving
    <3>2. QED  BY <1>1, <3>1, AsideSteps
  <2>3. QED  BY <2>1, <2>2
<1>3. ASSUME NEW j \in Job, Demote(j) \/ Promote(j) \/ Kill(j)
      PROVE  MoveInv'
  BY <1>1, <1>3, AsideSteps
<1>4. ASSUME NEW j \in Job, KillShell(j)
      PROVE  MoveInv'
  BY <1>4 DEF KillShell, disk, apps, MoveInv, Knows, Settled, Durable, Has
<1>5. CASE PowerCut
  BY <1>0, <1>5 DEF PowerCut, Moving, MoveInv
<1>6. CASE \E b \in Branch : AppWrite(b)
  <2>1. PICK b \in Branch : AppWrite(b)
    BY <1>6
  <2>2. /\ UNCHANGED <<pc, src, dst, before>>
        /\ \A c \in Branch : now'[c].real = IF c = b THEN written + 1 ELSE None
        /\ raced' = (raced \/ Racing(b))
    BY <2>1 DEF AppWrite, SetReal, jobs, Slot
  <2>3. ASSUME NEW j \in Job
        PROVE  Knows(j)'
    <3>1. pc[j] = "check2" => now'[src[j]].real # before[j]
      <4>. SUFFICES ASSUME pc[j] = "check2"
                    PROVE  now'[src[j]].real # before[j]
        OBVIOUS
      <4>1. before[j] # None
        BY DEF RouteInv, Moving
      <4>2. before[j] # written + 1
        <5>1. before[j] \in Version => before[j] <= written
          BY DEF FreshInv, Fresh
        <5>2. before[j] \in Version \/ before[j] = Torn
          BY <4>1 DEF TypeOK, Name, Content
        <5>3. QED  BY <5>1, <5>2, ValueAssumption
      <4>3. QED  BY <2>2, <4>1, <4>2
    <3>2. Settled' => pc[j] \notin Blind /\ (pc[j] = "unlink" => src[j] # b)
      BY <2>2 DEF Settled, Racing
    <3>3. Settled' => (pc[j] = "unlink" => ~Has(src[j])')
      BY <2>2, <3>2 DEF Has
    <3>4. QED  BY <2>2, <3>1, <3>2, <3>3 DEF Knows, Blind
  <2>4. QED  BY <2>3 DEF MoveInv
<1>7. CASE AppDelete
  <2>1. /\ UNCHANGED <<pc, src, dst, before>> /\ truth' = None
        /\ \A c \in Branch : now'[c].real = None
    BY <1>7 DEF AppDelete, SetReal, jobs, Slot
  <2>2. QED  BY <2>1 DEF MoveInv, Knows, Settled, RouteInv, Moving
<1>8. CASE EditInPlace
  <2>1. \A j \in Job : pc'[j] \notin Held
    BY <1>8, ValueAssumption DEF EditInPlace, LockInv, jobs
  <2>2. QED  BY <1>0, <2>1, HeldSteps DEF MoveInv
<1>9. QED  BY <1>2, <1>3, <1>4, <1>5, <1>6, <1>7, <1>8 DEF Next

\* A job's step moves no other job.
LEMMA OtherStays ==
  ASSUME pc \in [Job -> PC], NEW j \in Job, NEW k \in Job \ {j},
         Demote(k) \/ Promote(k) \/ Step(k) \/ KillShell(k) \/ Kill(k)
  PROVE  pc'[j] = pc[j]
BY DEF Demote, Promote, Start, KillShell, Kill, Step, Goto, Leave, jobs, Acquire, GiveUp,
   NextFile, LoopEnds, Recover, RecoverDrop, RecoverPlace, RecoverSync, RecoverKeep,
   RecoverDone, Move, Discard, RsyncStart, RsyncEnd, RsyncFails, Check1, Check2,
   CheckSource, Verify, VerifyFails, Rename, FsyncUp, FsyncStage, Check3, Undo, Unlink,
   FsyncSource, Raise

-----------------------------------------------------------------------------

LEMMA InvariantInit == Init => IInv
<1>. SUFFICES ASSUME Init
              PROVE  IInv
  OBVIOUS
<1>. USE BranchAssumption, ValueAssumption
<1>1. PICK b \in Branch :
        now = [c \in Branch |-> IF c = b THEN [EmptySlot EXCEPT !.real = 1] ELSE EmptySlot]
  BY DEF Init
<1>2. /\ 1 \in Version /\ EmptySlot \in Slot /\ [EmptySlot EXCEPT !.real = 1] \in Slot
      /\ EmptySlot.real = None /\ EmptySlot.stage = None
      /\ [EmptySlot EXCEPT !.real = 1].real = 1
      /\ [EmptySlot EXCEPT !.real = 1].stage = None
  BY DEF Version, Content, Name, Slot, EmptySlot
<1>3. now \in [Branch -> Slot] /\ \A c \in Branch : may[c] = {now[c]}
  BY <1>1, <1>2 DEF Init
<1>4. TypeOK
  <2>1. /\ now \in [Branch -> Slot]
        /\ may \in [Branch -> SUBSET Slot]
        /\ \A c \in Branch : now[c] \in may[c]
    BY <1>3 DEF Init
  <2>2. /\ lock \in Job \cup {NoJob} /\ pc \in [Job -> PC] /\ src \in [Job -> Branch]
        /\ dst \in [Job -> Branch] /\ todo \in [Job -> SUBSET Branch]
        /\ before \in [Job -> Name]
    BY DEF Init, PC, Name
  <2>3. QED  BY <1>2, <2>1, <2>2 DEF Init, TypeOK
<1>5. LockInv /\ RouteInv /\ StageInv /\ MoveInv
  BY HeldSteps DEF Init, LockInv, RouteInv, StageInv, MoveInv, Knows, Blind, Moving
<1>6. FreshInv
  <2>1. \A c \in Branch : now[c].real \in {1, None} /\ now[c].stage = None
    BY <1>1, <1>2
  <2>2. written = 1 /\ \A j \in Job : before[j] = None
    BY DEF Init
  <2>3. None \notin Version /\ 1 <= 1
    BY DEF Version
  <2>4. QED  BY <1>3, <2>1, <2>2, <2>3 DEF FreshInv, Fresh
<1>7. CleanInv /\ NoLoss
  BY <1>1, <1>2, <1>3 DEF Init, CleanInv, NoLoss, Survives
<1>8. QED  BY <1>4, <1>5, <1>6, <1>7 DEF IInv

LEMMA InvariantStep == IInv /\ [Next]_vars => IInv'
<1>. SUFFICES ASSUME IInv, [Next]_vars
              PROVE  IInv'
  OBVIOUS
<1>1. CASE Next
  <2>1. TypeOK'
    BY <1>1, TypeStep DEF IInv
  <2>2. QED
    BY <1>1, <2>1, LockStep, RouteStep, StageStep, FreshStep, CopiesStep, KnowsStep DEF IInv
<1>2. CASE UNCHANGED vars
  BY <1>2 DEF vars, disk, jobs, apps, IInv, TypeOK, LockInv, RouteInv, StageInv, FreshInv,
     Fresh, CleanInv, NoLoss, Survives, MoveInv, Knows, Settled, Durable, Has
<1>3. QED  BY <1>1, <1>2

\* The inductive invariant holds in every reachable state, for any number of
\* branches, jobs, versions, kills and power cuts.
THEOREM Invariance == Spec => []IInv
<1>1. QED  BY InvariantInit, InvariantStep, PTL DEF Spec

\* tier_helper.py and tier-move keep every variable in its type.
THEOREM TypeCorrect == Spec => []TypeOK
<1>1. IInv => TypeOK
  BY DEF IInv
<1>2. QED  BY <1>1, Invariance, PTL

\* The version the apps left survives every kill and power cut of a move, as
\* long as no app acted in a window the move cannot see.
THEOREM NothingIsLost == Spec => []NoLoss
<1>1. IInv => NoLoss
  BY DEF IInv
<1>2. QED  BY <1>1, Invariance, PTL

\* Readers of the pool get that version throughout.
THEOREM ReadersSee == Spec => []ReadersSeeTheLatest
<1>1. ASSUME IInv
      PROVE  ReadersSeeTheLatest
  <2>. SUFFICES ASSUME Settled
                PROVE  /\ \E b \in Branch : Has(b)
                       /\ \A b \in Branch : Shown(b) => now[b].real = truth
    BY DEF ReadersSeeTheLatest, Settled
  <2>1. \A b \in Branch : now[b] \in may[b]
    BY <1>1 DEF IInv, TypeOK
  <2>2. \E b \in Branch : Has(b)
    BY <1>1, <2>1 DEF IInv, NoLoss, Settled, Survives, Has
  <2>3. \A b \in Branch : Has(b) => now[b].real = truth
    BY <1>1, <2>1 DEF IInv, CleanInv, Has
  <2>4. QED  BY <2>2, <2>3 DEF Shown, Earliest
<1>2. QED  BY <1>1, Invariance, PTL

\* The source is deleted only once the destination's copy survives a power cut.
THEOREM SourceLast == Spec => SourceGoesLast
<1>. DEFINE A == \A j \in Job :
       pc[j] = "unlink" /\ pc'[j] = "syncsrc" /\ ~raced /\ truth # None
         => \A s \in may[dst[j]] : s.real = now[src[j]].real
<1>1. ASSUME IInv, [Next]_vars
      PROVE  A
  <2>. SUFFICES ASSUME NEW j \in Job, pc[j] = "unlink", pc'[j] = "syncsrc", Settled
                PROVE  \A s \in may[dst[j]] : s.real = now[src[j]].real
    BY DEF Settled
  <2>1. pc \in [Job -> PC] /\ src[j] \in Branch
    BY <1>1 DEF IInv, TypeOK
  <2>2. Has(src[j])
    <3>1. Next
      BY <1>1, <2>1 DEF vars, jobs
    <3>2. PICK k \in Job : Demote(k) \/ Promote(k) \/ Step(k) \/ KillShell(k) \/ Kill(k)
      BY <2>1, <3>1 DEF Next, PowerCut, AppWrite, AppDelete, EditInPlace, jobs
    <3>3. CASE k # j
      BY <2>1, <3>2, <3>3, OtherStays
    <3>4. CASE k = j
      BY <2>1, <3>2, <3>4 DEF Demote, Promote, Start, KillShell, Kill, Step, Acquire, GiveUp,
         NextFile, LoopEnds, Recover, RecoverDrop, RecoverPlace, RecoverSync, RecoverKeep,
         RecoverDone, Leftover, Move, RsyncStart, RsyncEnd, RsyncFails, Check1, Check2,
         CheckSource, Verify, VerifyFails, Rename, FsyncUp, FsyncStage, Check3, Undo,
         Unlink, FsyncSource, Raise, Leave
    <3>5. QED  BY <3>3, <3>4
  <2>3. Durable(dst[j]) /\ now[src[j]].real = truth
    BY <1>1, <2>1, <2>2 DEF IInv, MoveInv, Knows, CleanInv, TypeOK, Has
  <2>4. QED  BY <2>3 DEF Durable
<1>2. QED  BY <1>1, Invariance, PTL DEF Spec, SourceGoesLast

\* recover finds an only copy in the staging area only for a removed path.
THEOREM OnlyCopy == Spec => OnlyCopyMeansRemoved
<1>. DEFINE A == \A j \in Job :
       pc[j] = "recover" /\ pc'[j] = "recoversync" /\ ~raced => truth = None
<1>1. ASSUME IInv, [Next]_vars
      PROVE  A
  <2>. SUFFICES ASSUME NEW j \in Job, pc[j] = "recover", pc'[j] = "recoversync"
                PROVE  ~Settled
    BY DEF Settled
  <2>1. pc \in [Job -> PC]
    BY <1>1 DEF IInv, TypeOK
  <2>2. Next
    BY <1>1, <2>1 DEF vars, jobs
  <2>3. PICK k \in Job : Demote(k) \/ Promote(k) \/ Step(k) \/ KillShell(k) \/ Kill(k)
    BY <2>1, <2>2 DEF Next, PowerCut, AppWrite, AppDelete, EditInPlace, jobs
  <2>4. k = j
    BY <2>1, <2>3, OtherStays
  <2>5. RecoverPlace(j)
    BY <2>1, <2>3, <2>4 DEF Demote, Promote, Start, KillShell, Kill, Step, Acquire, GiveUp,
       NextFile, LoopEnds, Recover, RecoverDrop, RecoverSync, RecoverKeep, RecoverDone,
       Move, RsyncStart, RsyncEnd, RsyncFails, Check1, Check2, CheckSource, Verify,
       VerifyFails, Rename, FsyncUp, FsyncStage, Check3, Undo, Unlink, FsyncSource,
       Raise, Goto, Leave, jobs
  <2>6. QED  BY <1>1, <2>5, OnlyCopyRemoved
<1>2. QED  BY <1>1, Invariance, PTL DEF Spec, OnlyCopyMeansRemoved
=============================================================================
