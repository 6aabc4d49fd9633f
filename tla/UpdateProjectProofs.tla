------------------------ MODULE UpdateProjectProofs ------------------------
(***************************************************************************)
(* Theorems of UpdateProject, for any project and any number of releases.  *)
(***************************************************************************)
EXTENDS UpdateProject, TLAPS

\* The fields of a container that has changed its state only.
LEMMA StateField ==
  ASSUME NEW c \in Container, NEW x \in {"run", "dead", "stop", "none"}
  PROVE  /\ [c EXCEPT !.state = x] \in Container
         /\ [c EXCEPT !.state = x].state = x
         /\ [c EXCEPT !.state = x].img = c.img
         /\ [c EXCEPT !.state = x].ref = c.ref
  BY DEF Container

LEMMA MadeType ==
  ASSUME TypeOK, NEW s \in Service
  PROVE  /\ Named(s) \in Release /\ Made(s) \in Container
         /\ Made(s).state = "run" /\ Made(s).img = Named(s) /\ Made(s).ref = file[s]
  BY ReleaseAssumption DEF TypeOK, Named, Made, Container, Release, Ref

LEMMA RetaggedType ==
  ASSUME TypeOK
  PROVE  Retagged \in [Service -> Release]
  BY DEF TypeOK, Retagged, Known, OldImage

LEMMA FaultType ==
  ASSUME faults \in 0 .. MaxFault, Fault \/ UNCHANGED faults
  PROVE  faults' \in 0 .. MaxFault
  BY ReleaseAssumption DEF Fault

\* What docker compose up leaves of each container.
LEMMA UpShape ==
  ASSUME TypeOK, NEW D \in SUBSET Service, NEW made \in [D -> Container], ComposeUp(made)
  PROVE  /\ cont' \in [Service -> Container] /\ faults' \in 0 .. MaxFault
         /\ \A s \in Service :
              \/ cont'[s] = cont[s]
              \/ s \in D /\ cont'[s].img = made[s].img /\ cont'[s].ref = made[s].ref
         /\ \A s \in Service \ D : cont'[s] = cont[s]
<1>1. PICK bad \in SUBSET DOMAIN made, left \in {"as it was", "stop", "none"} :
        /\ IF bad = {} THEN UNCHANGED faults ELSE Fault
        /\ cont' = [s \in Service |->
                  IF s \in bad THEN IF left = "as it was" THEN cont[s]
                                    ELSE [made[s] EXCEPT !.state = left]
                  ELSE IF s \in DOMAIN made THEN made[s]
                  ELSE cont[s]]
  BY Zenon DEF ComposeUp
<1>2. faults' \in 0 .. MaxFault
  <2>1. Fault \/ UNCHANGED faults
    BY <1>1
  <2>2. QED  BY <2>1, FaultType DEF TypeOK
<1>3. ASSUME NEW s \in Service
      PROVE  /\ cont'[s] \in Container
             /\ \/ cont'[s] = cont[s]
                \/ s \in D /\ cont'[s].img = made[s].img /\ cont'[s].ref = made[s].ref
             /\ s \notin D => cont'[s] = cont[s]
  <2>0. DOMAIN made = D /\ cont[s] \in Container /\ (s \in D => made[s] \in Container)
    BY DEF TypeOK
  <2>1. CASE s \in bad /\ left = "as it was"
    BY <1>1, <2>0, <2>1
  <2>2. CASE s \in bad /\ left # "as it was"
    <3>1. cont'[s] = [made[s] EXCEPT !.state = left] /\ left \in {"stop", "none"} /\ s \in D
      BY <1>1, <2>0, <2>2
    <3>2. PICK x \in {"run", "dead", "stop", "none"} : cont'[s] = [made[s] EXCEPT !.state = x]
      BY <3>1
    <3>3. PICK c \in Container : c = made[s]
      BY <2>0, <3>1
    <3>4. /\ [c EXCEPT !.state = x] \in Container
          /\ [c EXCEPT !.state = x].img = c.img
          /\ [c EXCEPT !.state = x].ref = c.ref
      BY StateField, Zenon
    <3>5. QED  BY <3>1, <3>2, <3>3, <3>4
  <2>3. CASE s \notin bad
    BY <1>1, <2>0, <2>3
  <2>4. QED  BY <2>1, <2>2, <2>3
<1>4. QED  BY <1>1, <1>2, <1>3

\* What the containers are when the services of the scope are stopped.
LEMMA StoppedShape ==
  ASSUME TypeOK
  PROVE  /\ Stopped \in [Service -> Container]
         /\ \A s \in Service : /\ Stopped[s].img = cont[s].img /\ Stopped[s].ref = cont[s].ref
                               /\ s \notin scope => Stopped[s] = cont[s]
                               /\ s \in scope => Stopped[s].state \in {"stop", "none"}
  BY StateField DEF TypeOK, Stopped, Exists, Container

LEMMA StartedShape ==
  ASSUME TypeOK
  PROVE  /\ Started \in [Service -> Container]
         /\ \A s \in Service : Started[s].img = cont[s].img /\ Started[s].ref = cont[s].ref
  BY StateField DEF TypeOK, Started, Exists, Container

-----------------------------------------------------------------------------
(* The variables keep their types. *)

LEMMA EndType ==
  ASSUME NEW code \in {0, 1, 2, 3, Killed}, End(code)
  PROVE  /\ pc' = "off" /\ exit' \in {0, 1, 2, 3, Killed}
         /\ scope' \subseteq Service /\ base' \in [Service -> OldImage \cup {None}]
         /\ snap' \in [Service -> Ref] \cup {None} /\ took' \in BOOLEAN
         /\ todo' \subseteq Stateful /\ copy' \in [Service -> Schema \cup {None}]
         /\ failed' \in BOOLEAN /\ svcs' \subseteq Service \cup {Unnamed}
  BY DEF End

LEMMA SetStateType ==
  ASSUME TypeOK, NEW s \in Service, NEW from, NEW to \in {"run", "dead", "stop", "none"},
         SetState(s, from, to)
  PROVE  /\ cont' \in [Service -> Container]
         /\ \A t \in Service : /\ cont'[t].img = cont[t].img /\ cont'[t].ref = cont[t].ref
                               /\ t # s => cont'[t] = cont[t]
         /\ cont'[s].state = to
<1>1. PICK c \in Container : c = cont[s]
  BY DEF TypeOK
<1>2. cont' = [cont EXCEPT ![s] = [c EXCEPT !.state = to]]
  BY <1>1, Zenon DEF SetState
<1>3. /\ [c EXCEPT !.state = to] \in Container /\ [c EXCEPT !.state = to].state = to
      /\ [c EXCEPT !.state = to].img = c.img /\ [c EXCEPT !.state = to].ref = c.ref
  BY StateField
<1>4. PICK d \in Container : d = [c EXCEPT !.state = to]
  BY <1>3
<1>5. cont' = [cont EXCEPT ![s] = d] /\ d.state = to /\ d.img = c.img /\ d.ref = c.ref
  BY <1>2, <1>3, <1>4
<1>6. QED  BY <1>1, <1>5 DEF TypeOK

LEMMA TypeStart ==
  ASSUME TypeOK, TakeSnapshot \/ Begin \/ Kill
  PROVE  TypeOK'
<1>1. CASE TakeSnapshot
  BY <1>1 DEF TypeOK, TakeSnapshot, local, history, Ref
<1>2. CASE Begin
  <2>1. \A s \in Service : [img |-> cont[s].img, ref |-> cont[s].ref] \in OldImage
    BY DEF TypeOK, Container, OldImage
  <2>2. base' \in [Service -> OldImage \cup {None}]
    BY <1>2, <2>1 DEF Begin
  <2>3. scope' \subseteq Service /\ snap' \in [Service -> Ref] \cup {None} /\ took' \in BOOLEAN
    BY <1>2 DEF Begin, TypeOK
  <2>4. QED  BY <1>2, <2>2, <2>3 DEF TypeOK, Begin, history
<1>3. CASE Kill
  <2>1. End(Killed) /\ hurt' \in BOOLEAN
    BY <1>3 DEF Kill, TypeOK
  <2>2. QED  BY <1>3, <2>1, EndType DEF Kill, project, TypeOK
<1>4. QED  BY <1>1, <1>2, <1>3

LEMMA UpStep ==
  ASSUME TypeOK, Up
  PROVE  /\ cont' \in [Service -> Container] /\ faults' \in 0 .. MaxFault
         /\ \A s \in Service \ scope : cont'[s] = cont[s]
         /\ \A s \in Service : \/ cont'[s].img = cont[s].img /\ cont'[s].ref = cont[s].ref
                               \/ cont'[s].img = Named(s) /\ cont'[s].ref = file[s]
<1>1. PICK kept \in SUBSET {s \in scope : Exists(s) /\ cont[s].ref = file[s]} :
        ComposeUp([s \in scope |-> IF s \in kept THEN [cont[s] EXCEPT !.state = "run"]
                                   ELSE Made(s)])
  BY DEF Up
<1> DEFINE made == [s \in scope |-> IF s \in kept THEN [cont[s] EXCEPT !.state = "run"]
                                    ELSE Made(s)]
<1>2. scope \in SUBSET Service /\ made \in [scope -> Container]
  BY StateField, MadeType DEF TypeOK
<1>3. ASSUME NEW s \in scope
      PROVE  \/ made[s].img = cont[s].img /\ made[s].ref = cont[s].ref
             \/ made[s].img = Named(s) /\ made[s].ref = file[s]
  <2>1. CASE s \in kept
    <3>1. PICK c \in Container : c = cont[s]
      BY DEF TypeOK
    <3>2. PICK d \in Container : d = [c EXCEPT !.state = "run"]
      BY StateField, Zenon
    <3>3. d.img = c.img /\ d.ref = c.ref
      BY <3>2, StateField, Zenon
    <3>4. made[s] = d
      BY <2>1, <3>1, <3>2
    <3>5. QED  BY <3>1, <3>3, <3>4
  <2>2. CASE s \notin kept
    BY <2>2, <1>2, MadeType
  <2>3. QED  BY <2>1, <2>2
<1>4. ComposeUp(made)
  BY <1>1
<1> HIDE DEF made
<1>5. QED  BY <1>2, <1>3, <1>4, UpShape

LEMMA StaleStep ==
  ASSUME TypeOK, Stale
  PROVE  /\ cont' \in [Service -> Container] /\ faults' \in 0 .. MaxFault
         /\ \A s \in Service \ StaleOnes : cont'[s] = cont[s]
         /\ \A s \in Service : \/ cont'[s] = cont[s]
                               \/ cont'[s].img = Named(s) /\ cont'[s].ref = file[s]
<1> DEFINE made == [s \in StaleOnes |-> Made(s)]
<1>1. StaleOnes \in SUBSET Service
  BY DEF StaleOnes, TypeOK
<1>2. made \in [StaleOnes -> Container]
  BY <1>1, MadeType
<1>3. \A s \in StaleOnes : made[s].img = Named(s) /\ made[s].ref = file[s]
  BY <1>1, MadeType
<1>4. ComposeUp(made)
  BY DEF Stale
<1> HIDE DEF made
<1>5. QED  BY <1>1, <1>2, <1>3, <1>4, UpShape

LEMMA RecreateStep ==
  ASSUME TypeOK, Recreate
  PROVE  /\ cont' \in [Service -> Container] /\ faults' \in 0 .. MaxFault
         /\ \A s \in Service \ Again : cont'[s] = cont[s]
         /\ \A s \in Service :
              \/ cont'[s] = cont[s]
              \/ ~Pinned(s) /\ cont'[s].img = Named(s) /\ cont'[s].ref = file[s]
              \/ Pinned(s) /\ cont'[s].img = base[s].img /\ cont'[s].ref = "rollback"
<1> DEFINE pin(s) == [state |-> "run", img |-> base[s].img, ref |-> "rollback"]
           made == [s \in Again |-> IF Pinned(s) THEN pin(s) ELSE Made(s)]
<1>1. Again \in SUBSET Service
  BY DEF Again, TypeOK
<1>2. ASSUME NEW s \in Again, Pinned(s)  PROVE pin(s) \in Container
  BY <1>1, <1>2 DEF Pinned, Known, TypeOK, OldImage, Container
<1>3. made \in [Again -> Container]
  BY <1>1, <1>2, MadeType
<1>4. \A s \in Again :
        IF Pinned(s) THEN made[s].img = base[s].img /\ made[s].ref = "rollback"
        ELSE made[s].img = Named(s) /\ made[s].ref = file[s]
  BY <1>1, MadeType
<1>5. ComposeUp(made)
  BY DEF Recreate
<1> HIDE DEF made
<1>6. QED  BY <1>1, <1>3, <1>4, <1>5, UpShape

LEMMA TypeScript ==
  ASSUME TypeOK, StoreInv, Script
  PROVE  TypeOK'
<1>1. CASE Pull
  BY <1>1 DEF TypeOK, Pull, Goto, local, history
<1>2. CASE Stop
  BY <1>2, StoppedShape DEF TypeOK, Stop, Goto, Backups, history
<1>3. CASE BackupsEnd
  BY <1>3 DEF TypeOK, BackupsEnd, Goto, project, local, history
<1>4. CASE Abort
  <2>1. End(2) /\ cont' \in [Service -> Container] /\ faults' \in 0 .. MaxFault
    BY <1>4, StartedShape, FaultType DEF Abort, TypeOK
  <2>2. tag' \in [Service -> Release] /\ pending' \in [Service -> Ref] \cup {None}
    BY <1>4, RetaggedType DEF Abort, TypeOK
  <2>3. QED  BY <1>4, <2>1, <2>2, EndType DEF TypeOK, Abort, history
<1>5. CASE Up
  BY <1>5, UpStep DEF TypeOK, Up, Goto, local, history
<1>6. CASE Stale
  BY <1>6, StaleStep DEF TypeOK, Stale, Goto, local, history
<1>7. CASE Verify
  <2>1. CASE End(0)
    BY <1>7, <2>1, EndType DEF TypeOK, Verify, project, history
  <2>2. CASE ~End(0)
    BY <1>7, <2>2 DEF TypeOK, Verify, Goto, Manifest, project, history
  <2>3. QED  BY <2>1, <2>2
<1>8. CASE RestoreSnapshot
  <2>1. file' = file \/ (file' = snap /\ snap # None)
    BY <1>8 DEF RestoreSnapshot, StoreInv
  <2>2. file' \in [Service -> Ref]
    BY <2>1 DEF TypeOK
  <2>3. QED  BY <1>8, <2>2, FaultType DEF TypeOK, RestoreSnapshot, Goto, local
<1>9. CASE Retag
  BY <1>9, RetaggedType DEF TypeOK, Retag, Goto, local, history
<1>10. CASE Halt
  BY <1>10, StoppedShape DEF TypeOK, Halt, Goto, local, history
<1>11. CASE DataEnd
  <2>1. CASE End(3)
    BY <1>11, <2>1, EndType DEF TypeOK, DataEnd, project
  <2>2. CASE ~End(3)
    BY <1>11, <2>2 DEF TypeOK, DataEnd, Goto, project
  <2>3. QED  BY <2>1, <2>2
<1>12. CASE Recreate
  BY <1>12, RecreateStep DEF TypeOK, Recreate, Goto, local, history
<1>13. CASE VerifyBack
  <2>1. exit' \in {0, 1, 2, 3, Killed} /\ (End(1) \/ End(3))
    BY <1>13 DEF VerifyBack, End
  <2>2. QED  BY <1>13, <2>1, EndType DEF TypeOK, VerifyBack, project
<1>14. ASSUME NEW s \in Service, Backup(s)  PROVE TypeOK'
  BY <1>14, FaultType DEF TypeOK, Backup, Schema, history
<1>15. ASSUME NEW s \in Service, RestoreData(s)  PROVE TypeOK'
  <2>1. copy[s] \in Schema
    BY <1>15 DEF TypeOK, StoreInv, RestoreData, Manifest
  <2>2. data' \in [Service -> Schema] /\ failed' \in BOOLEAN /\ faults' \in 0 .. MaxFault
    BY <1>15, <2>1, FaultType DEF TypeOK, RestoreData, Schema
  <2>3. QED  BY <1>15, <2>2 DEF TypeOK, RestoreData, history
<1>16. QED
  BY <1>1, <1>2, <1>3, <1>4, <1>5, <1>6, <1>7, <1>8, <1>9, <1>10, <1>11, <1>12, <1>13,
     <1>14, <1>15 DEF Script

LEMMA TypeOutside ==
  ASSUME TypeOK, NEW s \in Service,
         Migrate(s) \/ Die(s) \/ Restart(s) \/ OwnerStops(s) \/ OtherPull(s) \/ OtherUp(s) \/ Edit(s)
  PROVE  TypeOK'
<1>1. CASE Migrate(s)
  BY <1>1, ReleaseAssumption DEF TypeOK, Migrate, frame, local, Schema, Release, Container
<1>2. CASE Die(s)
  <2>1. cont' \in [Service -> Container] /\ faults' \in 0 .. MaxFault
    BY <1>2, SetStateType, FaultType DEF Die, TypeOK
  <2>2. QED  BY <1>2, <2>1 DEF TypeOK, Die, SetState, frame, local
<1>3. CASE Restart(s)
  <2>1. cont' \in [Service -> Container]
    BY <1>3, SetStateType DEF Restart
  <2>2. QED  BY <1>3, <2>1 DEF TypeOK, Restart, SetState, frame, local
<1>4. CASE OwnerStops(s)
  <2>1. cont' \in [Service -> Container]
    BY <1>4, SetStateType DEF OwnerStops
  <2>2. QED  BY <1>4, <2>1 DEF TypeOK, OwnerStops, SetState, frame, local
<1>5. CASE OtherPull(s)
  BY <1>5, ReleaseAssumption DEF TypeOK, OtherPull, frame, local, Release
<1>6. CASE OtherUp(s)
  <2>1. cont' \in [Service -> Container]
    BY <1>6, MadeType DEF TypeOK, OtherUp
  <2>2. crossed' \in BOOLEAN
    BY <1>6 DEF TypeOK, OtherUp
  <2>3. QED  BY <1>6, <2>1, <2>2 DEF TypeOK, OtherUp, frame, local
<1>7. CASE Edit(s)
  BY <1>7 DEF TypeOK, Edit, frame, local, Ref
<1>8. QED  BY <1>1, <1>2, <1>3, <1>4, <1>5, <1>6, <1>7

LEMMA StoreStep ==
  ASSUME TypeOK, StoreInv, Next
  PROVE  StoreInv'
<1>1. CASE TakeSnapshot
  BY <1>1 DEF StoreInv, TakeSnapshot, local, project, Manifest
<1>2. CASE Begin
  BY <1>2, NoneAssumption DEF StoreInv, Begin, Manifest, TypeOK, Ref
<1>3. CASE Kill
  BY <1>3 DEF StoreInv, Kill, End, Manifest
<1>4. CASE Script
  <2>1. CASE Pull \/ BackupsEnd \/ Abort \/ Up \/ Stale \/ Retag \/ Halt \/ DataEnd \/ Recreate \/ VerifyBack
    BY <2>1 DEF StoreInv, Manifest, Pull, BackupsEnd, Abort, Up, Stale, Retag, Halt, DataEnd,
       Recreate, VerifyBack, Goto, End, local, project
  <2>2. CASE Stop \/ Verify \/ RestoreSnapshot
    BY <2>2 DEF StoreInv, Manifest, Stop, Verify, RestoreSnapshot, Goto, End, local, project
  <2>3. CASE \E s \in Service : Backup(s) \/ RestoreData(s)
    BY <2>3 DEF StoreInv, Manifest, Backup, RestoreData
  <2>4. QED  BY <1>4, <2>1, <2>2, <2>3 DEF Script
<1>5. CASE \E s \in Service : \/ Migrate(s) \/ Die(s) \/ Restart(s) \/ OwnerStops(s)
                              \/ OtherPull(s) \/ OtherUp(s) \/ Edit(s)
  BY <1>5 DEF StoreInv, Manifest, Migrate, Die, Restart, OwnerStops, OtherPull, OtherUp, Edit,
     SetState, frame, local
<1>6. QED  BY <1>1, <1>2, <1>3, <1>4, <1>5 DEF Next

LEMMA TypeInit ==
  ASSUME Init  PROVE TypeOK /\ StoreInv
<1>1. 0 \in Release /\ 0 \in 0 .. MaxFault
  BY ReleaseAssumption DEF Release
<1>2. [state |-> "run", img |-> 0, ref |-> "tag"] \in Container
  BY <1>1 DEF Container, Ref
<1>3. TypeOK
  BY <1>1, <1>2 DEF Init, TypeOK, Schema, Ref
<1>4. StoreInv
  BY DEF Init, StoreInv
<1>5. QED  BY <1>3, <1>4

LEMMA TypeStep ==
  ASSUME TypeOK, StoreInv, [Next]_vars
  PROVE  TypeOK' /\ StoreInv'
<1>1. CASE Next
  BY <1>1, TypeStart, TypeScript, TypeOutside, StoreStep DEF Next
<1>2. CASE UNCHANGED vars
  BY <1>2 DEF vars, project, local, history, TypeOK, StoreInv, Manifest
<1>3. QED  BY <1>1, <1>2

\* The variables keep their types, and a run that rolls back has a compose
\* file and its copies to put back.
THEOREM UpdateType == Spec => [](TypeOK /\ StoreInv)
<1>1. Init => TypeOK /\ StoreInv
  BY TypeInit
<1>2. TypeOK /\ StoreInv /\ [Next]_vars => TypeOK' /\ StoreInv'
  BY TypeStep
<1>3. QED  BY <1>1, <1>2, PTL DEF Spec

-----------------------------------------------------------------------------
(* What is known of the old containers, as long as the run has the project *)
(* to itself.                                                              *)

LEMMA EndKnown ==
  ASSUME NEW code, End(code), NEW s \in Service
  PROVE  ~Known(s)'
  BY DEF End, Known

\* A history is never forgotten.
LEMMA HistoryStep ==
  ASSUME TypeOK, Next
  PROVE  (hurt => hurt') /\ (crossed => crossed')
<1>1. CASE Kill \/ DataEnd \/ VerifyBack
  BY <1>1 DEF Kill, DataEnd, VerifyBack, TypeOK
<1>2. CASE TakeSnapshot \/ Begin
  BY <1>2 DEF TakeSnapshot, Begin, history
<1>3. CASE \/ Pull \/ Stop \/ BackupsEnd \/ Abort \/ Up \/ Stale \/ Verify
           \/ RestoreSnapshot \/ Retag \/ Halt \/ Recreate
           \/ \E s \in Service : Backup(s) \/ RestoreData(s)
  BY <1>3 DEF Pull, Stop, Backup, BackupsEnd, Abort, Up, Stale, Verify, RestoreSnapshot, Retag,
     Halt, RestoreData, Recreate, history
<1>4. CASE \E s \in Service : \/ Migrate(s) \/ Die(s) \/ Restart(s) \/ OwnerStops(s)
                              \/ OtherPull(s) \/ OtherUp(s) \/ Edit(s)
  BY <1>4 DEF Migrate, Die, Restart, OwnerStops, OtherPull, OtherUp, Edit, SetState, frame, TypeOK
<1>5. QED  BY <1>1, <1>2, <1>3, <1>4 DEF Next, Script

LEMMA KnownStart ==
  ASSUME TypeOK, KnownInv, ~crossed', TakeSnapshot \/ Begin \/ Kill
  PROVE  KnownInv'
<1>1. CASE TakeSnapshot
  BY <1>1 DEF KnownInv, Known, TakeSnapshot, local, project
<1>2. CASE Begin
  BY <1>2 DEF KnownInv, Known, Begin, Before, Rolling, Fragile
<1>3. CASE Kill
  BY <1>3, EndKnown DEF KnownInv, Kill, project
<1>4. QED  BY <1>1, <1>2, <1>3

\* The steps of the script that leave the containers and the tags alone.
LEMMA KnownQuiet ==
  ASSUME KnownInv,
         \/ BackupsEnd \/ Verify \/ RestoreSnapshot \/ DataEnd \/ VerifyBack
         \/ \E s \in Service : Backup(s) \/ RestoreData(s)
  PROVE  KnownInv'
<1>1. CASE \E code : End(code) /\ UNCHANGED cont
  BY <1>1, EndKnown DEF KnownInv
<1>2. CASE BackupsEnd
  BY <1>2 DEF KnownInv, Known, BackupsEnd, Goto, project, local, Before, Rolling, Fragile
<1>3. CASE RestoreSnapshot
  BY <1>3 DEF KnownInv, Known, RestoreSnapshot, Goto, local, Before, Rolling, Fragile
<1>4. CASE Verify
  <2>1. CASE \E code : End(code)
    BY <1>1, <1>4, <2>1 DEF Verify, project
  <2>2. CASE ~\E code : End(code)
    <3>1. /\ pc = "verify" /\ pc' = "files"
          /\ UNCHANGED <<tag, cont, scope, base>>
      BY <1>4, <2>2 DEF Verify, Goto, project
    <3>2. QED  BY <3>1 DEF KnownInv, Known, Before, Rolling, Fragile
  <2>3. QED  BY <2>1, <2>2
<1>5. CASE DataEnd
  <2>1. CASE \E code : End(code)
    BY <1>1, <1>5, <2>1 DEF DataEnd, project
  <2>2. CASE ~\E code : End(code)
    <3>1. /\ pc = "data" /\ pc' = "back"
          /\ UNCHANGED <<tag, cont, scope, base>>
      BY <1>5, <2>2 DEF DataEnd, Goto, project
    <3>2. QED  BY <3>1 DEF KnownInv, Known, Before, Rolling, Fragile
  <2>3. QED  BY <2>1, <2>2
<1>6. CASE VerifyBack
  BY <1>1, <1>6 DEF VerifyBack, project
<1>7. CASE \E s \in Service : Backup(s) \/ RestoreData(s)
  <2>1. UNCHANGED <<tag, cont, scope, base, pc>>
    BY <1>7 DEF Backup, RestoreData
  <2>2. QED  BY <2>1 DEF KnownInv, Known
<1>8. QED  BY <1>2, <1>3, <1>4, <1>5, <1>6, <1>7

LEMMA KnownMoves ==
  ASSUME TypeOK, KnownInv,
         Pull \/ Stop \/ Abort \/ Up \/ Stale \/ Retag \/ Halt \/ Recreate
  PROVE  KnownInv'
<1>1. CASE Pull
  BY <1>1 DEF KnownInv, Known, Pull, Goto, local, Before, Rolling, Fragile
<1>2. CASE Stop
  <2>1. \A s \in Service : cont'[s].img = cont[s].img /\ cont'[s].ref = cont[s].ref
    BY <1>2, StoppedShape DEF Stop
  <2>2. QED  BY <1>2, <2>1 DEF KnownInv, Known, Stop, Goto, Before, Rolling, Fragile
<1>3. CASE Abort
  <2>1. \A s \in Service : cont'[s].img = cont[s].img /\ cont'[s].ref = cont[s].ref
    BY <1>3, StartedShape DEF Abort
  <2>2. \A s \in Service : ~Known(s)'
    BY <1>3, EndKnown DEF Abort
  <2>3. QED  BY <2>1, <2>2 DEF KnownInv
<1>4. CASE Up
  <2>1. \A s \in Service : cont'[s].ref = "edited" => cont'[s].img = Latest
    BY <1>4, UpStep DEF KnownInv, Named
  <2>2. \A s \in Service \ scope : cont'[s] = cont[s]
    BY <1>4, UpStep
  <2>3. /\ pc = "up" /\ pc' = "stale" /\ UNCHANGED <<tag, scope, base>>
    BY <1>4 DEF Up, Goto, local
  <2>4. QED  BY <2>1, <2>2, <2>3 DEF KnownInv, Known, Before, Rolling, Fragile
<1>5. CASE Stale
  <2>1. \A s \in Service : cont'[s].ref = "edited" => cont'[s].img = Latest
    BY <1>5, StaleStep DEF KnownInv, Named
  <2>2. \A s \in Service \ scope : cont'[s] = cont[s]
    BY <1>5, StaleStep DEF StaleOnes
  <2>3. /\ pc = "stale" /\ pc' = "verify" /\ UNCHANGED <<tag, scope, base>>
    BY <1>5 DEF Stale, Goto, local
  <2>4. QED  BY <2>1, <2>2, <2>3 DEF KnownInv, Known, Before, Rolling, Fragile
<1>6. CASE Retag
  <2>1. /\ pc = "retag" /\ pc' \in {"back", "halt"} /\ UNCHANGED <<cont, scope, base>>
        /\ \A s \in Service : Known(s) /\ base[s].ref = "tag" => tag'[s] = base[s].img
    BY <1>6 DEF Retag, Retagged, Goto, local
  <2>2. QED  BY <2>1 DEF KnownInv, Known, Before, Rolling, Fragile
<1>7. CASE Halt
  <2>1. \A s \in Service : cont'[s].img = cont[s].img /\ cont'[s].ref = cont[s].ref
    BY <1>7, StoppedShape DEF Halt
  <2>2. QED  BY <1>7, <2>1 DEF KnownInv, Known, Halt, Goto, local, Before, Rolling, Fragile
<1>8. CASE Recreate
  <2>1. \A s \in Service : cont'[s].ref = "edited" => cont'[s].img = Latest
    BY <1>8, RecreateStep DEF KnownInv, Named
  <2>2. /\ pc = "back" /\ pc' = "check" /\ UNCHANGED <<tag, scope, base>>
    BY <1>8 DEF Recreate, Goto, local
  <2>3. QED  BY <2>1, <2>2 DEF KnownInv, Known, Before, Rolling, Fragile
<1>9. QED  BY <1>1, <1>2, <1>3, <1>4, <1>5, <1>6, <1>7, <1>8

LEMMA KnownOutside ==
  ASSUME TypeOK, KnownInv, ~crossed', NEW s \in Service,
         Migrate(s) \/ Die(s) \/ Restart(s) \/ OwnerStops(s) \/ OtherPull(s) \/ OtherUp(s) \/ Edit(s)
  PROVE  KnownInv'
<1>1. CASE Migrate(s) \/ Edit(s)
  BY <1>1 DEF KnownInv, Known, Migrate, Edit, frame, local
<1>2. CASE Die(s) \/ Restart(s) \/ OwnerStops(s)
  <2>1. \A t \in Service : cont'[t].img = cont[t].img /\ cont'[t].ref = cont[t].ref
    BY <1>2, SetStateType DEF Die, Restart, OwnerStops
  <2>2. UNCHANGED <<tag, scope, base, pc>>
    BY <1>2 DEF Die, Restart, OwnerStops, SetState, frame, local
  <2>3. QED  BY <2>1, <2>2 DEF KnownInv, Known
<1>3. CASE OtherPull(s)
  BY <1>3 DEF KnownInv, Known, OtherPull, frame, local, TypeOK, Fragile
<1>4. CASE OtherUp(s)
  <2>1. pc = "off" /\ UNCHANGED <<tag, scope, base, pc>>
    BY <1>4 DEF OtherUp, frame, local
  <2>2. \A t \in Service : \/ cont'[t] = cont[t]
                           \/ cont'[t].img = Named(t) /\ cont'[t].ref = file[t]
    BY <1>4, MadeType DEF OtherUp, TypeOK
  <2>3. QED  BY <2>1, <2>2 DEF KnownInv, Known, Named, Before, Rolling, Fragile
<1>5. QED  BY <1>1, <1>2, <1>3, <1>4

LEMMA KnownStep ==
  ASSUME TypeOK, ~crossed => KnownInv, [Next]_vars, ~crossed'
  PROVE  KnownInv'
<1>1. CASE UNCHANGED vars
  BY <1>1 DEF vars, project, local, history, KnownInv, Known
<1>2. CASE Next
  <2>1. ~crossed
    BY <1>2, HistoryStep
  <2>2. QED
    BY <1>2, <2>1, KnownStart, KnownQuiet, KnownMoves, KnownOutside DEF Next, Script
<1>3. QED  BY <1>1, <1>2

KnownIInv == TypeOK /\ StoreInv /\ (~crossed => KnownInv)

\* While nobody else touches the project, the old containers keep their images
\* until up -d, those outside of the scope until the rollback recreates them,
\* and the tags name the old images from the re-tagging on.
THEOREM UpdateKnown == Spec => [](~crossed => KnownInv)
<1>1. Init => KnownIInv
  <2> SUFFICES ASSUME Init PROVE KnownIInv
    OBVIOUS
  <2>1. \A s \in Service : cont[s].ref = "tag" /\ ~Known(s)
    BY DEF Init, Known
  <2>2. QED  BY <2>1, TypeInit DEF KnownIInv, KnownInv
<1>2. KnownIInv /\ [Next]_vars => KnownIInv'
  BY TypeStep, KnownStep DEF KnownIInv
<1>3. KnownIInv => (~crossed => KnownInv)
  BY DEF KnownIInv
<1>4. QED  BY <1>1, <1>2, <1>3, PTL DEF Spec

\* The two ways a run leaves the line it is at.
LEMMA LastStep ==
  ASSUME Next, pc \in {"abort", "check"}, pc' = "off", exit' \in {1, 2}
  PROVE  (pc = "abort" /\ Abort) \/ (pc = "check" /\ VerifyBack)
<1>1. ~Kill /\ ~TakeSnapshot /\ ~Begin
  BY DEF Kill, End, Killed, TakeSnapshot, Begin
<1>2. ~\E s \in Service : \/ Migrate(s) \/ Die(s) \/ Restart(s) \/ OwnerStops(s)
                          \/ OtherPull(s) \/ OtherUp(s) \/ Edit(s)
  BY DEF Migrate, Die, Restart, OwnerStops, OtherPull, OtherUp, Edit, SetState, frame
<1>3. Script
  BY <1>1, <1>2 DEF Next
<1>4. QED
  BY <1>3 DEF Script, Pull, Stop, Backup, BackupsEnd, Abort, Up, Stale, Verify, RestoreSnapshot,
     Retag, Halt, RestoreData, DataEnd, Recreate, VerifyBack

\* "ABORTED: nothing updated" is true: no old container has another image, and
\* the tags name the old images.
THEOREM UpdateAbort == Spec => AbortUpdatesNothing
<1> DEFINE Kept == pc = "abort" /\ exit' = 2 /\ pc' = "off" /\ ~crossed
                     => \A s \in Service : Known(s) =>
                          /\ cont'[s].img = base[s].img
                          /\ base[s].ref = "tag" => tag'[s] = base[s].img
<1>1. TypeOK /\ (~crossed => KnownInv) /\ [Next]_vars => [Kept]_vars
  <2> SUFFICES ASSUME TypeOK, KnownInv, Next, pc = "abort", exit' = 2, pc' = "off",
                      NEW s \in Service, Known(s)
               PROVE  cont'[s].img = base[s].img /\ (base[s].ref = "tag" => tag'[s] = base[s].img)
    OBVIOUS
  <2>1. Abort
    BY LastStep
  <2>2. cont'[s].img = cont[s].img
    BY <2>1, StartedShape DEF Abort
  <2>3. cont[s].img = base[s].img
    BY DEF KnownInv, Before
  <2>4. base[s].ref = "tag" => tag'[s] = base[s].img
    BY <2>1 DEF Abort, Retagged
  <2>5. QED  BY <2>2, <2>3, <2>4
<1>2. QED  BY <1>1, UpdateType, UpdateKnown, PTL DEF Spec, AbortUpdatesNothing

\* "ROLLED BACK" lasts: what the compose file names, where it names the ref that
\* the old container was made from, is the old image.
THEOREM UpdateRollback == Spec => RollbackSticks
<1> DEFINE Sticks == pc = "check" /\ exit' = 1 /\ pc' = "off" /\ ~crossed
                       => \A s \in Service : Known(s) /\ base[s].ref = file'[s] =>
                            Named(s)' = base[s].img
<1>1. TypeOK /\ (~crossed => KnownInv) /\ [Next]_vars => [Sticks]_vars
  <2> SUFFICES ASSUME TypeOK, KnownInv, Next, pc = "check", exit' = 1, pc' = "off",
                      NEW s \in Service, Known(s), base[s].ref = file'[s]
               PROVE  Named(s)' = base[s].img
    OBVIOUS
  <2>1. UNCHANGED <<file, tag>>
    BY LastStep DEF VerifyBack, project
  <2>2. CASE file[s] = "tag"
    BY <2>1, <2>2 DEF KnownInv, Fragile, Named
  <2>3. CASE file[s] = "edited"
    BY <2>1, <2>3 DEF KnownInv, Named
  <2>4. file[s] \in {"tag", "edited"}
    BY DEF TypeOK, Ref
  <2>5. QED  BY <2>2, <2>3, <2>4
<1>2. QED  BY <1>1, UpdateType, UpdateKnown, PTL DEF Spec, RollbackSticks

-----------------------------------------------------------------------------
(* Nothing runs while it is copied or put back, and every path is.         *)

\* What the steps outside of the script leave alone.
LEMMA OutsideFrame ==
  ASSUME TypeOK, ~crossed', NEW s \in Service,
         Migrate(s) \/ Die(s) \/ Restart(s) \/ OwnerStops(s) \/ OtherPull(s) \/ OtherUp(s) \/ Edit(s)
  PROVE  /\ UNCHANGED <<pc, scope, base, snap, took, todo, copy, failed, svcs>>
         /\ pc # "off" => \A t \in Service :
              /\ cont'[t].img = cont[t].img
              /\ (cont'[t].state \in {"run", "dead"}) = (cont[t].state \in {"run", "dead"})
              /\ (cont'[t].state = "none") = (cont[t].state = "none")
<1>1. UNCHANGED <<pc, scope, base, snap, took, todo, copy, failed, svcs>>
  BY DEF Migrate, Die, Restart, OwnerStops, OtherPull, OtherUp, Edit, SetState, frame, local
<1>2. CASE Migrate(s) \/ OtherPull(s) \/ Edit(s)
  BY <1>1, <1>2 DEF Migrate, OtherPull, Edit
<1>3. CASE OwnerStops(s) \/ OtherUp(s)
  BY <1>1, <1>3 DEF OwnerStops, OtherUp
<1>4. CASE Die(s) \/ Restart(s)
  BY <1>1, <1>4, SetStateType DEF Die, Restart, SetState
<1>5. QED  BY <1>1, <1>2, <1>3, <1>4

LEMMA ColdStep ==
  ASSUME TypeOK, ColdInv, Next, ~crossed'
  PROVE  ColdInv'
<1>1. CASE TakeSnapshot \/ Begin \/ Kill
  BY <1>1 DEF ColdInv, Live, TakeSnapshot, Begin, Kill, End, local, project
<1>2. CASE Stop \/ Halt
  <2>1. cont' = Stopped /\ scope' = scope
    BY <1>2 DEF Stop, Halt, local
  <2>2. \A s \in scope : cont'[s].state \in {"stop", "none"}
    BY <2>1, StoppedShape DEF TypeOK
  <2>3. QED  BY <2>1, <2>2 DEF ColdInv, Live
<1>3. CASE \E s \in Service : Backup(s) \/ RestoreData(s)
  BY <1>3 DEF ColdInv, Live, Backup, RestoreData
<1>4. CASE \/ Pull \/ BackupsEnd \/ Abort \/ Up \/ Stale \/ Verify \/ RestoreSnapshot
           \/ Retag \/ DataEnd \/ Recreate \/ VerifyBack
  BY <1>4 DEF ColdInv, Pull, BackupsEnd, Abort, Up, Stale, Verify, RestoreSnapshot, Retag,
     DataEnd, Recreate, VerifyBack, Goto, End
<1>5. CASE \E s \in Service : \/ Migrate(s) \/ Die(s) \/ Restart(s) \/ OwnerStops(s)
                              \/ OtherPull(s) \/ OtherUp(s) \/ Edit(s)
  <2>1. UNCHANGED <<pc, scope>> /\ (pc # "off" => \A t \in Service : Live(t)' = Live(t))
    BY <1>5, OutsideFrame, Zenon DEF Live
  <2>2. QED  BY <2>1 DEF ColdInv, TypeOK
<1>6. QED  BY <1>1, <1>2, <1>3, <1>4, <1>5 DEF Next, Script

LEMMA TodoStep ==
  ASSUME TypeOK, StoreInv, TodoInv, Next, ~crossed'
  PROVE  TodoInv'
<1>1. CASE \E code : End(code)
  BY <1>1 DEF TodoInv, End
<1>2. CASE TakeSnapshot \/ Begin
  BY <1>2 DEF TodoInv, TakeSnapshot, Begin, local, project, Backups
<1>3. CASE Pull
  BY <1>3 DEF TodoInv, Pull, Goto, local, Backups, Manifest
<1>4. CASE Stop
  BY <1>4 DEF TodoInv, Stop, Goto, Backups, Manifest
<1>5. ASSUME NEW s \in Service, Backup(s)  PROVE TodoInv'
  <2>1. /\ pc = "backup" /\ s \in todo /\ todo \subseteq Backups /\ todo' = todo \ {s}
        /\ UNCHANGED <<pc, scope>>
    BY <1>5 DEF TodoInv, Backup
  <2>2. CASE failed' = TRUE /\ copy' = copy
    BY <2>1, <2>2 DEF TodoInv, Backups
  <2>3. CASE UNCHANGED failed /\ copy' = [copy EXCEPT ![s] = IF Running(s) THEN Partial ELSE data[s]]
    <3>1. data[s] \in Schema /\ None \notin Schema /\ Partial # None
      BY NoneAssumption, ReleaseAssumption DEF TypeOK, Schema, Release
    <3>2. /\ copy'[s] # None /\ \A t \in Service \ {s} : copy'[t] = copy[t]
      BY <2>3, <3>1 DEF TypeOK
    <3>3. QED  BY <2>1, <2>3, <3>2, NameAssumption DEF TodoInv, Backups, Manifest
  <2>4. QED  BY <1>5, <2>2, <2>3 DEF Backup
<1>6. CASE BackupsEnd
  BY <1>6 DEF TodoInv, BackupsEnd, Goto, local, Backups, Manifest
<1>7. CASE Up \/ Stale
  BY <1>7 DEF TodoInv, Up, Stale, Goto, local, Backups, Manifest
<1>8. CASE Verify /\ ~\E code : End(code)
  <2>1. Manifest = Backups
    BY <1>8, NameAssumption DEF TodoInv, Manifest, Verify, Backups
  <2>2. QED  BY <1>8, <2>1 DEF TodoInv, Verify, Goto, project, Backups, Manifest, Updated, Known, Exists
<1>9. CASE RestoreSnapshot
  BY <1>9 DEF TodoInv, RestoreSnapshot, Goto, local, Backups, Manifest, Updated, Known, Exists
<1>10. CASE Retag \/ Halt
  BY <1>10 DEF TodoInv, Retag, Halt, Goto, local, Backups, Manifest
<1>11. ASSUME NEW s \in Service, RestoreData(s)  PROVE TodoInv'
  BY <1>11 DEF TodoInv, RestoreData, Backups, Manifest
<1>12. CASE DataEnd /\ ~\E code : End(code)
  BY <1>12 DEF TodoInv, DataEnd, Goto, Backups, Manifest
<1>13. CASE Recreate
  BY <1>13 DEF TodoInv, Recreate, Goto, local, Backups
<1>14. CASE \E s \in Service : \/ Migrate(s) \/ Die(s) \/ Restart(s) \/ OwnerStops(s)
                               \/ OtherPull(s) \/ OtherUp(s) \/ Edit(s)
  BY <1>14, OutsideFrame DEF TodoInv, Backups, Manifest, Updated, Known, Exists
<1>15. CASE Kill \/ Abort \/ VerifyBack
  BY <1>1, <1>15 DEF Kill, Abort, VerifyBack
<1>16. QED
  BY <1>1, <1>2, <1>3, <1>4, <1>5, <1>6, <1>7, <1>8, <1>9, <1>10, <1>11, <1>12, <1>13, <1>14,
     <1>15 DEF Next, Script

-----------------------------------------------------------------------------
(* No image meets data newer than itself.                                  *)

\* The numbers that are compared.
LEMMA Numbers ==
  ASSUME TypeOK, NEW s \in Service
  PROVE  /\ Release \subseteq Int /\ Latest \in Release /\ \A r \in Release : r <= Latest
         /\ Partial \notin Release
         /\ cont[s].img \in Release /\ tag[s] \in Release
         /\ Named(s) \in Release /\ Back(s) \in Release /\ Aim(s) \in Release
         /\ Known(s) => base[s].img \in Release
  BY ReleaseAssumption, RetaggedType, MadeType
     DEF TypeOK, Release, Container, OldImage, Known, Named, Back, Aim

\* Where all that counts of a service stays, so does its invariant.
LEMMA FitSame ==
  ASSUME NEW s \in Service, CopyFits(s), DataFits(s),
         UNCHANGED <<tag, file, base, scope, todo, copy, failed, pc>>, data'[s] = data[s],
         cont'[s].img = cont[s].img, Live(s)' => Live(s)
  PROVE  CopyFits(s)' /\ DataFits(s)'
<1>1. Named(s)' = Named(s) /\ Back(s)' = Back(s) /\ Known(s)' = Known(s) /\ Aim(s)' = Aim(s)
  BY DEF Named, Back, Retagged, Known, Aim
<1>2. GivenUp(s)' = GivenUp(s)
  BY DEF GivenUp
<1>3. CopyFits(s)'
  BY <1>1 DEF CopyFits
<1>4. Fits(s) => Fits(s)'
  BY <1>1 DEF Fits
<1>5. DataFits(s)'
  BY <1>1, <1>2, <1>4 DEF DataFits
<1>6. QED  BY <1>3, <1>5

\* A step before the rollback, that stays before it.
LEMMA FitEarly ==
  ASSUME TypeOK, TypeOK', NEW s \in Service, CopyFits(s), DataFits(s),
         pc \notin Fragile, pc # "off", pc' \notin Fragile, data' = data, base' = base,
         Named(s) <= Named(s)', data[s] <= cont'[s].img, cont'[s].img <= Named(s)',
         \/ copy'[s] = copy[s]
         \/ copy'[s] = data[s] /\ (Known(s) => data[s] <= base[s].img)
  PROVE  CopyFits(s)' /\ DataFits(s)'
<1>1. /\ Named(s) \in Int /\ Named(s)' \in Int /\ cont'[s].img \in Int /\ Release \subseteq Int
      /\ Known(s) => base[s].img \in Int
  BY Numbers, ReleaseAssumption DEF TypeOK, Release, Container, Named
<1>2. Known(s)' = Known(s) /\ Aim(s) = Named(s) /\ Aim(s)' = Named(s)'
  BY DEF Known, Aim
<1>3. /\ data[s] \in Release /\ data[s] \in Int /\ data[s] <= Named(s)
      /\ Known(s) => base[s].img <= Named(s)
  BY <1>1, <1>2 DEF DataFits, Fits
<1>4. CopyFits(s)'
  <2>1. CASE copy'[s] = copy[s] /\ copy[s] = None
    BY <2>1 DEF CopyFits
  <2>2. CASE copy'[s] = copy[s] /\ copy[s] # None
    <3>1. copy[s] \in Release /\ copy[s] \in Int /\ copy[s] <= Named(s) /\ copy[s] <= data[s]
          /\ (Known(s) => copy[s] <= base[s].img)
      BY <1>1, <1>2, <2>2 DEF CopyFits, Fragile
    <3>2. copy[s] <= Named(s)'
      BY <1>1, <3>1
    <3>3. QED  BY <1>2, <2>2, <3>1, <3>2 DEF CopyFits
  <2>3. CASE copy'[s] = data[s] /\ (Known(s) => data[s] <= base[s].img)
    <3>1. data[s] <= Named(s)' /\ data[s] <= data[s]
      BY <1>1, <1>3
    <3>2. QED  BY <1>2, <1>3, <2>3, <3>1 DEF CopyFits
  <2>4. QED  BY <2>1, <2>2, <2>3
<1>5. data[s] <= Named(s)' /\ (Known(s) => base[s].img <= Named(s)')
  BY <1>1, <1>3
<1>6. Fits(s)'
  BY <1>2, <1>3, <1>5 DEF Fits
<1>7. DataFits(s)'
  BY <1>2, <1>5, <1>6 DEF DataFits, Fragile, Rolling
<1>8. QED  BY <1>4, <1>7

\* A run ends before it rolls back.
LEMMA FitEnd ==
  ASSUME TypeOK, TypeOK', NEW s \in Service, DataFits(s), pc \notin Fragile,
         NEW code, End(code), UNCHANGED data, cont'[s].img = cont[s].img, cont[s].img <= Named(s)'
  PROVE  CopyFits(s)' /\ DataFits(s)'
<1>1. copy'[s] = None /\ pc' = "off" /\ ~Known(s)'
  BY DEF End, Known
<1>2. data[s] \in Release /\ data[s] <= cont[s].img
  BY DEF DataFits, Fits
<1>3. data[s] \in Int /\ cont[s].img \in Int /\ Named(s)' \in Int
  BY <1>2, Numbers, ReleaseAssumption DEF TypeOK, Release, Container, Named
<1>4. data[s] <= Named(s)'
  BY <1>2, <1>3
<1>5. Fits(s)'
  BY <1>1, <1>2, <1>4 DEF Fits, Aim, Fragile
<1>6. QED  BY <1>1, <1>5 DEF CopyFits, DataFits, Fragile, Rolling

\* What holds of a run that has the project to itself.
Calm == TypeOK /\ StoreInv /\ KnownInv /\ ColdInv /\ TodoInv

LEMMA FitStart ==
  ASSUME Calm, TypeOK', NEW s \in Stateful, CopyFits(s), DataFits(s), ~hurt',
         TakeSnapshot \/ Begin \/ Kill
  PROVE  CopyFits(s)' /\ DataFits(s)'
<1>0. s \in Service
  BY NameAssumption
<1>1. CASE TakeSnapshot
  BY <1>0, <1>1, FitSame DEF TakeSnapshot, local, project, Live
<1>2. CASE Kill
  <2>1. pc \notin Fragile /\ End(Killed) /\ UNCHANGED <<tag, file, cont, data>>
    BY <1>2 DEF Kill, project, Calm, TypeOK
  <2>2. cont[s].img <= Named(s)'
    BY <2>1 DEF DataFits, Named
  <2>3. QED  BY <1>0, <2>1, <2>2, FitEnd DEF Calm
<1>3. CASE Begin
  <2>1. copy'[s] = None
    BY <1>0, <1>3 DEF Begin, Calm, TodoInv, Backups
  <2>2. /\ pc = "off" /\ pc' = "pull" /\ UNCHANGED <<tag, file, cont, data>>
        /\ Known(s)' => base'[s].img = cont[s].img
    BY <1>0, <1>3 DEF Begin, Known
  <2>3. Named(s)' = Named(s) /\ Aim(s)' = Named(s) /\ Aim(s) = Named(s)
    BY <2>2 DEF Named, Aim, Fragile
  <2>4. Fits(s) /\ cont[s].img <= Named(s)
    BY <2>2 DEF DataFits, Fragile
  <2>5. Fits(s)'
    BY <2>2, <2>3, <2>4 DEF Fits
  <2>6. QED  BY <2>1, <2>2, <2>3, <2>4, <2>5 DEF CopyFits, DataFits, Fragile, Rolling
<1>4. QED  BY <1>1, <1>2, <1>3

LEMMA FitForward ==
  ASSUME Calm, TypeOK', NEW s \in Stateful, CopyFits(s), DataFits(s),
         \/ Pull \/ Stop \/ BackupsEnd \/ Abort \/ Up \/ Stale \/ Verify
         \/ \E t \in Service : Backup(t)
  PROVE  CopyFits(s)' /\ DataFits(s)'
<1>0. s \in Service /\ TypeOK
  BY NameAssumption DEF Calm
<1>1. /\ pc \in {"pull", "stop", "backup", "abort", "up", "stale", "verify"}
      /\ pc \notin Fragile /\ pc # "off"
  BY DEF Pull, Stop, BackupsEnd, Abort, Up, Stale, Verify, Backup, Fragile
<1>2. /\ data[s] <= cont[s].img /\ data[s] <= Named(s) /\ cont[s].img <= Named(s)
      /\ data[s] \in Int /\ cont[s].img \in Int /\ Named(s) \in Int
  BY <1>0, <1>1, Numbers, ReleaseAssumption DEF DataFits, Fits, Aim, Release
<1>3. CASE Pull
  <2>1. tag'[s] \in Int /\ tag[s] \in Int
    BY <1>0, ReleaseAssumption DEF TypeOK, Release
  <2>2. Named(s) <= Named(s)' /\ Named(s)' \in Int
    BY <1>0, <1>2, <1>3, <2>1 DEF Named, Pull
  <2>3. /\ pc' \notin Fragile /\ UNCHANGED <<data, base, cont>> /\ copy'[s] = copy[s]
    BY <1>3 DEF Pull, Goto, local, Fragile
  <2>4. cont'[s].img <= Named(s)' /\ data[s] <= cont'[s].img
    BY <1>2, <2>2, <2>3
  <2>5. QED  BY <1>0, <1>1, <2>2, <2>3, <2>4, FitEarly
<1>4. ASSUME pc' \notin Fragile, UNCHANGED <<tag, file, data, base>>, copy'[s] = copy[s],
             cont'[s].img = cont[s].img \/ cont'[s].img = Named(s)
      PROVE  CopyFits(s)' /\ DataFits(s)'
  <2>1. Named(s)' = Named(s)
    BY <1>4 DEF Named
  <2>2. Named(s) <= Named(s)' /\ cont'[s].img <= Named(s)' /\ data[s] <= cont'[s].img
    BY <1>2, <1>4, <2>1
  <2>3. QED  BY <1>0, <1>1, <1>4, <2>2, FitEarly
<1>5. CASE Stop
  <2>1. cont'[s].img = cont[s].img
    BY <1>0, <1>5, StoppedShape DEF Stop
  <2>2. QED  BY <1>4, <1>5, <2>1 DEF Stop, Goto, Fragile
<1>6. CASE BackupsEnd
  BY <1>4, <1>6 DEF BackupsEnd, Goto, local, project, Fragile
<1>7. CASE Up
  <2>1. cont'[s].img = cont[s].img \/ cont'[s].img = Named(s)
    BY <1>0, <1>7, UpStep
  <2>2. QED  BY <1>4, <1>7, <2>1 DEF Up, Goto, local, Fragile
<1>8. CASE Stale
  <2>1. cont'[s].img = cont[s].img \/ cont'[s].img = Named(s)
    BY <1>0, <1>8, StaleStep
  <2>2. QED  BY <1>4, <1>8, <2>1 DEF Stale, Goto, local, Fragile
<1>9. CASE Verify
  <2>1. CASE End(0)
    <3>1. Named(s)' = Named(s) /\ UNCHANGED <<cont, data>>
      BY <1>9 DEF Verify, project, Named
    <3>2. QED  BY <1>0, <1>1, <1>2, <2>1, <3>1, FitEnd
  <2>2. CASE ~End(0)
    BY <1>4, <1>9, <2>2 DEF Verify, Goto, project, Fragile
  <2>3. QED  BY <2>1, <2>2
<1>10. CASE Abort
  <2>1. End(2) /\ UNCHANGED <<file, data>> /\ cont'[s].img = cont[s].img /\ tag' = Retagged
    BY <1>0, <1>10, StartedShape DEF Abort
  <2>2. Known(s) => cont[s].img = base[s].img
    BY <1>0, <1>10 DEF Calm, KnownInv, Before, Abort
  <2>3. Known(s) => base[s].img \in Int
    BY <1>0, Numbers
  <2>4. cont[s].img <= Named(s)'
    BY <1>0, <1>2, <2>1, <2>2, <2>3 DEF Named, Retagged
  <2>5. QED  BY <1>0, <1>1, <2>1, <2>4, FitEnd
<1>11. ASSUME NEW t \in Service, Backup(t)  PROVE CopyFits(s)' /\ DataFits(s)'
  <2>1. /\ pc = "backup" /\ pc' = "backup" /\ UNCHANGED <<tag, file, data, base, cont>>
        /\ \/ copy'[s] = copy[s]
           \/ t = s /\ copy' = [copy EXCEPT ![s] = IF Running(s) THEN Partial ELSE data[s]]
    BY <1>0, <1>11 DEF Backup, TypeOK
  <2>2. CASE copy'[s] = copy[s]
    BY <1>4, <2>1, <2>2 DEF Fragile
  <2>3. CASE t = s /\ copy' = [copy EXCEPT ![s] = IF Running(s) THEN Partial ELSE data[s]]
    <3>1. s \in scope
      BY <1>11, <2>1, <2>3 DEF Backup, Calm, TodoInv, Backups
    <3>2. ~Running(s)
      BY <2>1, <3>1 DEF Calm, ColdInv, Live, Running
    <3>3. copy'[s] = data[s]
      BY <1>0, <2>3, <3>2 DEF TypeOK
    <3>4. Known(s) => data[s] <= base[s].img
      BY <1>0, <1>2, <2>1 DEF Calm, KnownInv, Before
    <3>5. Named(s)' = Named(s) /\ cont'[s].img = cont[s].img
      BY <2>1 DEF Named
    <3>6. Named(s) <= Named(s)' /\ cont'[s].img <= Named(s)' /\ data[s] <= cont'[s].img
      BY <1>2, <3>5
    <3>7. pc' \notin Fragile
      BY <2>1 DEF Fragile
    <3>8. QED  BY <1>0, <1>1, <2>1, <3>3, <3>4, <3>6, <3>7, FitEarly
  <2>4. QED  BY <2>1, <2>2, <2>3
<1>12. QED  BY <1>3, <1>5, <1>6, <1>7, <1>8, <1>9, <1>10, <1>11

LEMMA FitOutside ==
  ASSUME Calm, TypeOK', ~crossed', NEW s \in Stateful, CopyFits(s), DataFits(s), NEW t \in Service,
         Migrate(t) \/ Die(t) \/ Restart(t) \/ OwnerStops(t) \/ OtherPull(t) \/ OtherUp(t) \/ Edit(t)
  PROVE  CopyFits(s)' /\ DataFits(s)'
<1>0. s \in Service /\ TypeOK
  BY NameAssumption DEF Calm
<1>1. UNCHANGED <<pc, scope, base, todo, copy, failed>>
  BY <1>0, OutsideFrame
<1>2. CASE Die(t) \/ Restart(t) \/ OwnerStops(t)
  <2>1. UNCHANGED <<tag, file, data>>
    BY <1>2 DEF Die, Restart, OwnerStops, SetState
  <2>2. cont'[s].img = cont[s].img
    BY <1>0, <1>2, SetStateType DEF Die, Restart, OwnerStops
  <2>3. Live(s)' => Live(s)
    BY <1>0, <1>2, SetStateType DEF Die, Restart, OwnerStops, SetState, Live
  <2>4. QED  BY <1>0, <1>1, <2>1, <2>2, <2>3, FitSame
<1>3. CASE OtherPull(t)
  <2>1. pc \notin Fragile /\ UNCHANGED <<file, data, cont>>
    BY <1>3 DEF OtherPull
  <2>2. Named(s) <= Named(s)' /\ Named(s) \in Int /\ Named(s)' \in Int /\ cont[s].img \in Int
    BY <1>0, <1>3, ReleaseAssumption DEF OtherPull, Named, TypeOK, Release, Container
  <2>3. data[s] \in Int /\ data[s] <= cont[s].img /\ cont[s].img <= Named(s)
    BY <1>0, <2>1, ReleaseAssumption DEF DataFits, Fits, Release
  <2>4. cont'[s].img <= Named(s)' /\ data[s] <= cont'[s].img
    BY <2>1, <2>2, <2>3
  <2>5. CASE pc # "off"
    BY <1>0, <1>1, <2>1, <2>2, <2>4, <2>5, FitEarly
  <2>6. CASE pc = "off"
    <3>1. copy[s] = None
      BY <1>0, <2>6 DEF Calm, TodoInv, Backups
    <3>2. Aim(s)' = Named(s)' /\ data'[s] <= Named(s)'
      BY <1>1, <2>1, <2>2, <2>3, <2>6 DEF Aim, Fragile
    <3>3. Fits(s)'
      BY <2>1, <2>4, <3>2 DEF Fits, DataFits
    <3>4. QED  BY <1>1, <2>4, <2>6, <3>1, <3>3 DEF CopyFits, DataFits, Fragile, Rolling
  <2>7. QED  BY <2>5, <2>6
<1>4. CASE OtherUp(t) \/ Edit(t)
  <2>1. pc = "off" /\ UNCHANGED <<tag, data>>
    BY <1>1, <1>4 DEF OtherUp, Edit
  <2>2. copy[s] = None
    BY <1>0, <2>1 DEF Calm, TodoInv, Backups
  <2>3. /\ data[s] \in Release /\ data[s] <= cont[s].img /\ cont[s].img <= Named(s)
        /\ data[s] <= Named(s)
    BY <2>1 DEF DataFits, Fits, Fragile, Aim
  <2>4. /\ data[s] \in Int
        /\ Release \subseteq Int /\ Latest \in Int /\ cont[s].img \in Int /\ Named(s) \in Int
        /\ cont[s].img <= Latest /\ Named(s) <= Latest
    BY <1>0, <2>3, Numbers
  <2>5. \/ Named(s)' = Named(s) /\ (cont'[s].img = cont[s].img \/ cont'[s].img = Named(s))
        \/ Named(s)' = Latest /\ cont'[s].img = cont[s].img
    <3>1. CASE OtherUp(t)
      BY <1>0, <3>1, MadeType DEF OtherUp, Named, TypeOK
    <3>2. CASE Edit(t)
      BY <1>0, <3>2 DEF Edit, Named, TypeOK
    <3>3. QED  BY <1>4, <3>1, <3>2
  <2>6. cont'[s].img <= Named(s)' /\ data[s] <= cont'[s].img /\ data[s] <= Named(s)'
    BY <2>3, <2>4, <2>5
  <2>7. Aim(s)' = Named(s)'
    BY <1>1, <2>1 DEF Aim, Fragile
  <2>8. Fits(s)'
    BY <2>1, <2>3, <2>6, <2>7 DEF Fits
  <2>9. QED  BY <1>1, <2>1, <2>2, <2>6, <2>8 DEF CopyFits, DataFits, Fragile, Rolling
<1>5. CASE Migrate(t)
  <2>1. CASE t # s
    BY <1>0, <1>1, <1>5, <2>1, FitSame DEF Migrate, TypeOK, Live
  <2>2. CASE t = s
    <3>1. /\ Live(s) /\ data[s] # Partial /\ data[s] < cont[s].img /\ data'[s] = cont[s].img
          /\ UNCHANGED <<tag, file, cont>>
      BY <1>0, <1>5, <2>2 DEF Migrate, Live, Running, TypeOK
    <3>2. /\ data[s] \in Int /\ cont[s].img \in Int /\ cont[s].img \in Release
          /\ Release \subseteq Int /\ Aim(s) \in Int
      BY <1>0, <3>1, Numbers, ReleaseAssumption DEF TypeOK, Schema, Release
    <3>3. Named(s)' = Named(s) /\ Known(s)' = Known(s) /\ Aim(s)' = Aim(s) /\ Live(s)' = Live(s)
          /\ GivenUp(s)' = GivenUp(s)
      BY <1>1, <3>1 DEF Named, Back, Retagged, Known, Aim, Live, GivenUp
    <3>4. CopyFits(s)'
      <4>1. CASE copy[s] = None
        BY <1>1, <4>1 DEF CopyFits
      <4>2. CASE copy[s] # None
        <5>1. copy[s] \in Int
          BY <3>2, <4>2 DEF CopyFits
        <5>2. copy[s] <= data[s] => copy[s] <= data'[s]
          BY <3>1, <3>2, <5>1
        <5>3. QED  BY <1>1, <3>3, <4>2, <5>2 DEF CopyFits
      <4>3. QED  BY <4>1, <4>2
    <3>5. Fits(s) => Fits(s)'
      BY <3>1, <3>2, <3>3 DEF Fits
    <3>6. DataFits(s)'
      BY <1>1, <3>1, <3>2, <3>3, <3>5 DEF DataFits, Fits
    <3>7. QED  BY <3>4, <3>6
  <2>3. QED  BY <2>1, <2>2
<1>6. QED  BY <1>2, <1>3, <1>4, <1>5

\* The compose file is put back: from here on the tags are as good as re-tagged.
LEMMA FitFiles ==
  ASSUME Calm, TypeOK', NEW s \in Stateful \ astray', CopyFits(s), DataFits(s), RestoreSnapshot
  PROVE  CopyFits(s)' /\ DataFits(s)'
<1>1. /\ s \in Service /\ TypeOK /\ pc = "files" /\ pc' = "retag"
      /\ UNCHANGED <<tag, cont, data, scope, base, todo, copy, failed>>
  BY NameAssumption DEF Calm, RestoreSnapshot, Goto, local
<1>2. file'[s] = file[s] \/ (Known(s) /\ base[s].ref = file'[s])
  BY <1>1 DEF RestoreSnapshot
<1>3. Known(s)' = Known(s) /\ Aim(s) = Named(s) /\ Aim(s)' = Back(s)'
      /\ Live(s)' = Live(s) /\ ~GivenUp(s)'
  BY <1>1 DEF Known, Aim, Fragile, Live, GivenUp
<1>4. Fits(s) /\ cont[s].img <= Named(s)
  BY <1>1 DEF DataFits, Fragile
<1>5. /\ Release \subseteq Int /\ Latest \in Int /\ cont[s].img \in Int /\ Named(s) \in Int
      /\ tag[s] \in Int /\ \A r \in Release : r <= Latest
      /\ cont[s].img \in Release
      /\ Known(s) => base[s].img \in Release /\ base[s].img \in Int /\ base[s].img <= Latest
  BY <1>1, Numbers
<1>6. \/ Back(s)' = Named(s)
      \/ Back(s)' = Latest
      \/ Known(s) /\ Back(s)' = base[s].img
  <2>1. CASE file'[s] = "edited"
    BY <1>1, <2>1 DEF Back
  <2>2. CASE file'[s] = "tag" /\ Known(s) /\ base[s].ref = "tag"
    BY <1>1, <2>2 DEF Back, Retagged, Known
  <2>3. CASE file'[s] = "tag" /\ ~(Known(s) /\ base[s].ref = "tag")
    BY <1>1, <1>2, <2>3 DEF Back, Retagged, Known, Named
  <2>4. file'[s] \in {"tag", "edited"}
    BY <1>1 DEF TypeOK, Ref
  <2>5. QED  BY <2>1, <2>2, <2>3, <2>4
<1>7. Known(s) => base[s].img <= Back(s)'
  <2>1. Known(s) => base[s].img <= Named(s)
    BY <1>1, <1>3 DEF DataFits
  <2>2. QED  BY <1>5, <1>6, <2>1
<1>8. ASSUME NEW r \in Release, r <= Named(s), Known(s) => r <= base[s].img
      PROVE  r <= Back(s)'
  BY <1>5, <1>6, <1>8
<1>9. CopyFits(s)'
  <2>1. CASE copy[s] = None
    BY <1>1, <2>1 DEF CopyFits
  <2>2. CASE copy[s] # None
    BY <1>1, <1>3, <1>8, <2>2 DEF CopyFits
  <2>3. QED  BY <2>1, <2>2
<1>10. ~Known(s) => cont[s].img <= Back(s)'
  BY <1>2, <1>4, <1>5, <1>8
<1>11. ASSUME s \in todo  PROVE DataFits(s)'
  BY <1>1, <1>3, <1>4, <1>7, <1>10, <1>11 DEF DataFits, Fits, Fragile, Rolling
<1>12. ASSUME s \notin todo  PROVE DataFits(s)'
  <2>1. Known(s) => cont[s].img = base[s].img
    <3>1. CASE todo = Backups
      BY <1>1, <1>12, <3>1 DEF Backups, Calm, KnownInv
    <3>2. CASE \A t \in Service : ~Updated(t)
      BY <1>1, <3>2 DEF Updated
    <3>3. QED  BY <1>1, <3>1, <3>2 DEF Calm, TodoInv
  <2>2. cont[s].img <= Back(s)'
    BY <1>7, <1>10, <2>1
  <2>3. data[s] \in Release /\ data[s] <= cont[s].img /\ data[s] <= Named(s)
    BY <1>3, <1>4 DEF Fits
  <2>4. data[s] <= Back(s)'
    BY <1>8, <2>1, <2>3
  <2>5. Fits(s)'
    BY <1>1, <1>3, <2>2, <2>3, <2>4 DEF Fits
  <2>6. Known(s) => data[s] <= base[s].img /\ cont[s].img <= base[s].img
    BY <1>5, <2>1, <2>3
  <2>7. QED  BY <1>1, <1>3, <1>7, <1>10, <1>12, <2>5, <2>6 DEF DataFits, Fragile, Rolling
<1>13. QED  BY <1>9, <1>11, <1>12

\* Re-tagging again changes nothing, and then the compose file names what it
\* names after it.
LEMMA RetaggedNames ==
  ASSUME TypeOK, KnownInv, pc \in Fragile \ {"retag"}, NEW s \in Service
  PROVE  Aim(s) = Named(s)
<1>1. Retagged[s] = tag[s]
  BY DEF KnownInv, Retagged
<1>2. Aim(s) = Back(s)
  BY DEF Aim
<1>3. file[s] \in {"tag", "edited"}
  BY DEF TypeOK, Ref
<1>4. QED  BY <1>1, <1>2, <1>3 DEF Back, Named

LEMMA FitRetag ==
  ASSUME Calm, NEW s \in Stateful, CopyFits(s), DataFits(s), Retag
  PROVE  CopyFits(s)' /\ DataFits(s)'
<1>1. /\ s \in Service /\ pc = "retag" /\ tag' = Retagged
      /\ pc' = IF todo = {} THEN "back" ELSE "halt"
      /\ UNCHANGED <<file, cont, data, scope, base, todo, copy, failed>>
  BY NameAssumption DEF Retag, Goto, local
<1>2. Retagged'[s] = Retagged[s]
  BY <1>1 DEF Retagged, Known
<1>3. /\ Known(s)' = Known(s) /\ Back(s)' = Back(s) /\ Aim(s)' = Aim(s) /\ Live(s)' = Live(s)
      /\ ~GivenUp(s) /\ ~GivenUp(s)'
  BY <1>1, <1>2 DEF Known, Back, Aim, Live, Fragile, GivenUp
<1>4. Fits(s)' = Fits(s)
  BY <1>1, <1>3 DEF Fits
<1>5. CopyFits(s)'
  BY <1>1, <1>3 DEF CopyFits
<1>6. DataFits(s)'
  BY <1>1, <1>3, <1>4 DEF DataFits, Fragile, Rolling
<1>7. QED  BY <1>5, <1>6

LEMMA FitHalt ==
  ASSUME Calm, NEW s \in Stateful, CopyFits(s), DataFits(s), Halt
  PROVE  CopyFits(s)' /\ DataFits(s)'
<1>1. /\ s \in Service /\ pc = "halt" /\ pc' = "data" /\ cont' = Stopped /\ TypeOK
      /\ UNCHANGED <<tag, file, data, scope, base, todo, copy, failed>>
  BY NameAssumption DEF Calm, Halt, Goto, local
<1>2. cont'[s].img = cont[s].img /\ (Live(s)' => Live(s))
  BY <1>1, StoppedShape DEF Live
<1>3. Known(s)' = Known(s) /\ Aim(s)' = Aim(s) /\ ~GivenUp(s)
  BY <1>1 DEF Known, Retagged, Back, Aim, Fragile, GivenUp
<1>4. Fits(s) => Fits(s)'
  BY <1>1, <1>2, <1>3 DEF Fits
<1>5. CopyFits(s)'
  BY <1>1, <1>3 DEF CopyFits
<1>6. DataFits(s)'
  BY <1>1, <1>2, <1>3, <1>4 DEF DataFits, Fragile, Rolling
<1>7. QED  BY <1>5, <1>6

LEMMA FitRestore ==
  ASSUME Calm, NEW s \in Stateful, CopyFits(s), DataFits(s), NEW t \in Service, RestoreData(t)
  PROVE  CopyFits(s)' /\ DataFits(s)'
<1>1. /\ s \in Service /\ pc = "data" /\ pc' = "data" /\ t \in todo /\ todo' = todo \ {t} /\ TypeOK
      /\ UNCHANGED <<tag, file, cont, scope, base, copy>>
      /\ failed => failed'
  BY NameAssumption DEF Calm, RestoreData
<1>2. /\ Known(s)' = Known(s) /\ Aim(s)' = Aim(s) /\ Live(s)' = Live(s)
      /\ GivenUp(s) => GivenUp(s)'
  BY <1>1 DEF Known, Named, Retagged, Back, Aim, Live, GivenUp
<1>3. CASE t # s
  <2>1. data'[s] = data[s] /\ (s \in todo' <=> s \in todo)
    BY <1>1, <1>3 DEF RestoreData, TypeOK
  <2>2. Fits(s)' = Fits(s)
    BY <1>1, <1>2, <2>1 DEF Fits
  <2>3. CopyFits(s)'
    BY <1>1, <1>2, <2>1 DEF CopyFits
  <2>4. DataFits(s)'
    BY <1>1, <1>2, <2>1, <2>2 DEF DataFits, Fragile, Rolling
  <2>5. QED  BY <2>3, <2>4
<1>4. CASE t = s
  <2>1. copy[s] # None /\ s \in scope /\ ~Live(s)
    BY <1>1, <1>4 DEF Calm, StoreInv, TodoInv, ColdInv, Manifest, Backups
  <2>2. /\ copy[s] \in Release /\ copy[s] <= Aim(s) /\ copy[s] <= data[s]
        /\ Known(s) => copy[s] <= base[s].img
    BY <1>1, <1>4, <2>1 DEF CopyFits
  <2>3. /\ data[s] \in Release /\ data[s] <= cont[s].img
        /\ Known(s) => base[s].img <= Aim(s)
        /\ ~Known(s) => cont[s].img <= Aim(s)
    BY <1>1, <1>4 DEF DataFits, Rolling
  <2>4. s \notin todo'
    BY <1>1, <1>4
  <2>5. CopyFits(s)'
    BY <1>1, <1>2, <2>2, <2>4 DEF CopyFits
  <2>6. CASE data' = [data EXCEPT ![s] = copy[s]]
    <3>1. data'[s] = copy[s]
      BY <1>1, <2>6 DEF TypeOK
    <3>2. copy[s] <= cont[s].img
      <4>1. copy[s] \in Int /\ data[s] \in Int /\ cont[s].img \in Int
        BY <1>1, <2>2, <2>3, Numbers
      <4>2. QED  BY <2>2, <2>3, <4>1
    <3>3. Fits(s)'
      BY <1>1, <1>2, <2>1, <2>2, <2>3, <3>1, <3>2 DEF Fits
    <3>4. DataFits(s)'
      BY <1>1, <1>2, <2>1, <2>2, <2>3, <2>4, <3>1, <3>3 DEF DataFits, Fragile, Rolling
    <3>5. QED  BY <2>5, <3>4
  <2>7. CASE failed' = TRUE
    <3>1. GivenUp(s)'
      BY <1>1, <2>1, <2>7 DEF GivenUp
    <3>2. DataFits(s)'
      BY <1>1, <1>2, <2>3, <2>4, <3>1 DEF DataFits, Fragile, Rolling
    <3>3. QED  BY <2>5, <3>2
  <2>8. QED  BY <1>4, <2>6, <2>7 DEF RestoreData
<1>5. QED  BY <1>3, <1>4

LEMMA FitDataEnd ==
  ASSUME Calm, NEW s \in Stateful, CopyFits(s), DataFits(s), ~hurt', DataEnd
  PROVE  CopyFits(s)' /\ DataFits(s)'
<1>1. /\ s \in Service /\ pc = "data" /\ pc' = "back" /\ todo = {} /\ ~failed
      /\ UNCHANGED <<tag, file, cont, data, scope, base, todo, copy, failed>>
  BY NameAssumption DEF DataEnd, Goto, project
<1>2. /\ Known(s)' = Known(s) /\ Aim(s)' = Aim(s) /\ Live(s)' = Live(s)
      /\ ~GivenUp(s) /\ ~GivenUp(s)'
  BY <1>1 DEF Known, Retagged, Back, Aim, Fragile, Live, GivenUp
<1>3. Fits(s)' = Fits(s)
  BY <1>1, <1>2 DEF Fits
<1>4. CopyFits(s)'
  BY <1>1, <1>2 DEF CopyFits
<1>5. DataFits(s)'
  BY <1>1, <1>2, <1>3 DEF DataFits, Fragile, Rolling
<1>6. QED  BY <1>4, <1>5

LEMMA FitRecreate ==
  ASSUME Calm, NEW s \in Stateful, CopyFits(s), DataFits(s), Recreate
  PROVE  CopyFits(s)' /\ DataFits(s)'
<1>1. /\ s \in Service /\ pc = "back" /\ pc' = "check" /\ todo = {} /\ TypeOK
      /\ UNCHANGED <<tag, file, data, scope, base, todo, copy, failed>>
  BY NameAssumption DEF Calm, TodoInv, Recreate, Goto, local
<1>2. /\ Known(s)' = Known(s) /\ Aim(s)' = Aim(s) /\ Aim(s) = Named(s) /\ ~GivenUp(s)
  BY <1>1, RetaggedNames DEF Calm, Known, Retagged, Back, Aim, Fragile, GivenUp
<1>3. /\ Fits(s) /\ data[s] \in Release /\ data[s] <= cont[s].img /\ data[s] <= Named(s)
      /\ Known(s) => data[s] <= base[s].img /\ base[s].img <= Named(s)
      /\ ~Known(s) => cont[s].img <= Named(s)
  BY <1>1, <1>2 DEF DataFits, Fits, Rolling
<1>4. Named(s) <= Named(s)
  BY <1>1, Numbers
<1>5. \/ cont'[s] = cont[s]
      \/ cont'[s].img = Named(s)
      \/ Known(s) /\ cont'[s].img = base[s].img
  BY <1>1, RecreateStep DEF Pinned
<1>6. Fits(s)' /\ (~Known(s) => cont'[s].img <= Named(s))
  <2>1. CASE cont'[s] = cont[s]
    BY <1>1, <1>2, <1>3, <2>1 DEF Fits, Live
  <2>2. CASE cont'[s].img = Named(s)
    BY <1>1, <1>2, <1>3, <1>4, <2>2 DEF Fits
  <2>3. CASE Known(s) /\ cont'[s].img = base[s].img
    BY <1>1, <1>2, <1>3, <2>3 DEF Fits
  <2>4. QED  BY <1>5, <2>1, <2>2, <2>3
<1>7. CopyFits(s)'
  BY <1>1, <1>2 DEF CopyFits
<1>8. DataFits(s)'
  BY <1>1, <1>2, <1>3, <1>6 DEF DataFits, Fragile, Rolling
<1>9. QED  BY <1>7, <1>8

LEMMA FitVerifyBack ==
  ASSUME Calm, NEW s \in Stateful, DataFits(s), ~hurt', VerifyBack
  PROVE  CopyFits(s)' /\ DataFits(s)'
<1>1. /\ s \in Service /\ pc = "check" /\ End(1) /\ TypeOK
      /\ UNCHANGED <<tag, file, cont, data>>
      /\ Known(s) => Live(s)
  BY NameAssumption DEF Calm, VerifyBack, End, project, OnOldImage, Running, Live
<1>2. pc' = "off" /\ copy'[s] = None /\ ~Known(s)'
  BY <1>1 DEF End, Known
<1>3. Aim(s) = Named(s) /\ Named(s)' = Named(s) /\ Aim(s)' = Named(s)
  BY <1>1, <1>2, RetaggedNames DEF Calm, Aim, Named, Fragile
<1>4. Fits(s) /\ cont[s].img <= Named(s)
  BY <1>1, <1>3 DEF DataFits, Fits
<1>5. Fits(s)'
  BY <1>1, <1>3, <1>4 DEF Fits
<1>6. QED  BY <1>1, <1>2, <1>3, <1>4, <1>5 DEF CopyFits, DataFits, Fragile, Rolling

-----------------------------------------------------------------------------
(* The theorems.                                                           *)

LEMMA FitStep ==
  ASSUME Calm, TypeOK', FitInv, Next, ~hurt', ~crossed'
  PROVE  FitInv'
<1> SUFFICES ASSUME NEW s \in Stateful, s \notin astray'
             PROVE  CopyFits(s)' /\ DataFits(s)'
  BY DEF FitInv
<1>1. astray \subseteq astray'
  BY DEF Next, TakeSnapshot, Begin, Kill, Script, Pull, Stop, Backup,
     BackupsEnd, Abort, Up, Stale, Verify, RestoreSnapshot, Retag, Halt, RestoreData, DataEnd,
     Recreate, VerifyBack, Migrate, Die, Restart, OwnerStops, OtherPull, OtherUp, Edit,
     SetState, history, frame
<1>2. CopyFits(s) /\ DataFits(s)
  BY <1>1 DEF FitInv
<1>3. CASE TakeSnapshot \/ Begin \/ Kill
  BY <1>2, <1>3, FitStart
<1>4. CASE \/ Pull \/ Stop \/ BackupsEnd \/ Abort \/ Up \/ Stale \/ Verify
           \/ \E t \in Service : Backup(t)
  BY <1>2, <1>4, FitForward
<1>5. CASE \/ RestoreSnapshot \/ Retag \/ Halt \/ DataEnd \/ Recreate \/ VerifyBack
           \/ \E t \in Service : RestoreData(t)
  BY <1>2, <1>5, FitFiles, FitRetag, FitHalt, FitRestore, FitDataEnd, FitRecreate, FitVerifyBack
<1>6. CASE \E t \in Service : \/ Migrate(t) \/ Die(t) \/ Restart(t) \/ OwnerStops(t)
                              \/ OtherPull(t) \/ OtherUp(t) \/ Edit(t)
  BY <1>2, <1>6, FitOutside
<1>7. QED  BY <1>3, <1>4, <1>5, <1>6 DEF Next, Script

LEMMA UInvInit ==
  ASSUME Init  PROVE UInv
<1>1. /\ pc = "off" /\ scope = {}
      /\ \A s \in Service : /\ cont[s].ref = "tag" /\ cont[s].img = 0 /\ data[s] = 0
                            /\ Named(s) = 0 /\ copy[s] = None /\ ~Known(s)
  BY DEF Init, Known, Named
<1>2. KnownInv
  BY <1>1 DEF KnownInv
<1>3. ColdInv /\ TodoInv
  BY <1>1 DEF ColdInv, TodoInv
<1>4. 0 \in Release
  BY ReleaseAssumption DEF Release
<1>5. \A s \in Service : Aim(s) = 0
  BY <1>1 DEF Aim, Fragile
<1>6. FitInv
  BY <1>1, <1>4, <1>5, NameAssumption DEF FitInv, CopyFits, DataFits, Fits, Fragile, Rolling
<1>7. QED  BY <1>2, <1>3, <1>6, TypeInit DEF UInv

LEMMA UInvStep ==
  ASSUME UInv, [Next]_vars  PROVE UInv'
<1>1. TypeOK' /\ StoreInv'
  BY TypeStep DEF UInv
<1>2. ~crossed' => KnownInv'
  BY KnownStep DEF UInv
<1>3. ASSUME ~hurt', ~crossed'  PROVE ColdInv' /\ TodoInv' /\ FitInv'
  <2>1. CASE UNCHANGED vars
    <3>1. ColdInv /\ TodoInv /\ FitInv
      BY <1>3, <2>1 DEF UInv, vars, history
    <3>2. ColdInv' /\ TodoInv'
      <4>1. UNCHANGED <<pc, cont, scope, base, todo, copy, failed>>
        BY <2>1 DEF vars, project, local
      <4>2. ColdInv'
        BY <3>1, <4>1 DEF ColdInv, Live
      <4>3. TodoInv'
        BY <3>1, <4>1 DEF TodoInv, Backups, Manifest, Updated, Known, Exists
      <4>4. QED  BY <4>2, <4>3
    <3>3. ASSUME NEW s \in Stateful, s \notin astray'  PROVE CopyFits(s)' /\ DataFits(s)'
      <4>1. /\ s \in Service /\ CopyFits(s) /\ DataFits(s)
            /\ UNCHANGED <<tag, file, cont, data, base, scope, todo, copy, failed, pc>>
        BY <2>1, <3>1, <3>3, NameAssumption DEF FitInv, vars, project, local, history
      <4>2. QED  BY <4>1, FitSame DEF Live
    <3>4. QED  BY <3>2, <3>3 DEF FitInv
  <2>2. CASE Next
    <3>1. ~hurt /\ ~crossed
      BY <1>3, <2>2, HistoryStep DEF UInv
    <3>2. Calm /\ FitInv
      BY <3>1 DEF UInv, Calm
    <3>3. QED  BY <1>1, <1>3, <2>2, <3>2, ColdStep, TodoStep, FitStep DEF Calm
  <2>3. QED  BY <2>1, <2>2
<1>4. QED  BY <1>1, <1>2, <1>3 DEF UInv

\* The inductive invariant.
THEOREM UpdateUInv == Spec => []UInv
<1>1. Init => UInv
  BY UInvInit
<1>2. UInv /\ [Next]_vars => UInv'
  BY UInvStep
<1>3. QED  BY <1>1, <1>2, PTL DEF Spec

\* The old image never starts on data that a newer one has migrated.
THEOREM UpdateOldNeverOnMigrated == Spec => []OldNeverOnMigrated
<1>1. UInv => OldNeverOnMigrated
  <2> SUFFICES ASSUME UInv, NEW s \in Stateful \ astray, Running(s), ~hurt, ~crossed
               PROVE  data[s] # Partial /\ data[s] <= cont[s].img
    BY DEF OldNeverOnMigrated
  <2>1. s \in Service /\ Partial \notin Release /\ DataFits(s) /\ Live(s)
    BY NameAssumption, Numbers DEF UInv, FitInv, Running, Live
  <2>2. ~GivenUp(s)
    BY <2>1 DEF UInv, ColdInv, GivenUp
  <2>3. data[s] \in Release /\ data[s] <= cont[s].img
    <3>1. CASE pc \notin Fragile \/ pc = "check"
      BY <2>1, <3>1 DEF DataFits, Fits
    <3>2. CASE pc \in Rolling
      BY <2>1, <2>2, <3>2 DEF DataFits, Fits
    <3>3. QED  BY <3>1, <3>2 DEF Fragile, Rolling
  <2>4. QED  BY <2>1, <2>3
<1>2. QED  BY <1>1, UpdateUInv, PTL

-----------------------------------------------------------------------------
(* The script keeps its contract.                                          *)

\* How the variables of the contract are mapped.
Images == [s \in Service |-> cont[s].img]
Olds == [s \in Service |-> IF Known(s) THEN base[s].img ELSE None]

LEMMA ImagesType ==
  ASSUME TypeOK
  PROVE  /\ Images \in [Service -> Release]
         /\ \A s \in Service : (Olds[s] # None) = Known(s)
BY NoneAssumption DEF TypeOK, Images, Olds, Known, Container, OldImage, Release

\* The steps with which a run ends.
LEMMA EndStep ==
  ASSUME Next, pc # "off", pc' = "off"
  PROVE  /\ exit' \in 0 .. 3 \cup {Killed} /\ UNCHANGED crossed
         /\ exit' = 0 => pc = "verify" /\ Verify
         /\ exit' = 1 => pc = "check" /\ VerifyBack
         /\ exit' = 2 => pc = "abort" /\ Abort
<1>1. ~TakeSnapshot /\ ~Begin
  BY DEF TakeSnapshot, Begin
<1>2. ~\E s \in Service : \/ Migrate(s) \/ Die(s) \/ Restart(s) \/ OwnerStops(s)
                          \/ OtherPull(s) \/ OtherUp(s) \/ Edit(s)
  BY DEF Migrate, Die, Restart, OwnerStops, OtherPull, OtherUp, Edit, SetState, frame
<1>3. CASE Kill
  BY <1>3 DEF Kill, End, Killed
<1>4. CASE Script
  <2>1. Abort \/ DataEnd \/ Verify \/ VerifyBack
    BY <1>4 DEF Script, Pull, Stop, Backup, BackupsEnd, Up, Stale, RestoreSnapshot,
       Retag, Halt, RestoreData, Recreate, Goto
  <2>2. QED  BY <2>1 DEF Abort, DataEnd, Verify, VerifyBack, End, Goto, history
<1>5. QED  BY <1>1, <1>2, <1>3, <1>4 DEF Next

LEMMA FinishStep ==
  ASSUME TypeOK, TypeOK', ~crossed => KnownInv, Next, pc # "off", pc' = "off"
  PROVE  Contract!Finish(exit')
<1>1. ASSUME exit' \in {0, 1}, NEW s \in Service, Known(s)  PROVE Running(s)'
  <2>1. CASE Verify /\ pc = "verify"
    BY <1>1, <2>1 DEF Verify, Down, project, Goto, Running
  <2>2. CASE VerifyBack /\ exit' = 1
    BY <1>1, <2>2 DEF VerifyBack, OnOldImage, project, End, Running
  <2>3. QED  BY <1>1, <2>1, <2>2, EndStep
<1>2. ASSUME exit' \in {1, 2}, ~crossed, NEW s \in Service, Known(s)
      PROVE  cont'[s].img = base[s].img
  <2>1. CASE VerifyBack /\ exit' = 1
    BY <1>2, <2>1 DEF VerifyBack, OnOldImage, project, End
  <2>2. CASE pc = "abort" /\ Abort
    BY <1>2, <2>2, StartedShape DEF Abort, KnownInv, Before
  <2>3. QED  BY <1>2, <2>1, <2>2, EndStep
<1>3. \A s \in Service : exit' \in {0, 1} /\ Olds[s] # None => s \in {t \in Service : Running(t)'}
  BY <1>1, ImagesType
<1>4. \A s \in Service : ~crossed /\ exit' \in {1, 2} /\ Olds[s] # None => Images'[s] = Olds[s]
  BY <1>2, ImagesType DEF Olds, Images
<1>5. QED  BY <1>3, <1>4, EndStep DEF Contract!Finish, Contract!Promise, Olds, Images

\* All other steps of a run, and those around it, are work or nothing.
LEMMA WorkStep ==
  ASSUME TypeOK, TypeOK', crossed => crossed', UNCHANGED exit, UNCHANGED base,
         (pc' # "off") <=> (pc # "off")
  PROVE  Contract!Work
BY DEF Contract!Work, Images, Known, TypeOK, Container

\* The script keeps its contract with its callers, UpdateContract.
THEOREM UpdateKeepsContract == Spec => KeepsContract
<1>1. Init => Contract!Init
  <2> SUFFICES ASSUME Init PROVE Contract!Init
    OBVIOUS
  <2>1. 0 \in Release /\ \A s \in Service : cont[s].img = 0 /\ Running(s) /\ ~Known(s)
    BY ReleaseAssumption DEF Init, Release, Running, Known
  <2>2. QED  BY <2>1 DEF Contract!Init, Init
<1>2. KnownIInv /\ KnownIInv' /\ [Next]_vars => [Contract!Next]_(Contract!vars)
  <2> SUFFICES ASSUME KnownIInv, KnownIInv', [Next]_vars
               PROVE  [Contract!Next]_(Contract!vars)
    OBVIOUS
  <2>0. TypeOK /\ TypeOK' /\ (~crossed => KnownInv)
    BY DEF KnownIInv
  <2>1. CASE UNCHANGED vars
    BY <2>1 DEF vars, project, local, history, Contract!vars, Known, Running
  <2>2. CASE Begin
    <3>1. pc = "off" /\ pc' # "off" /\ UNCHANGED <<cont, crossed>>
      BY <2>2 DEF Begin, history
    <3>2. \A s \in Service : Olds'[s] \in {None, Images[s]}
      BY <2>2 DEF Begin, Olds, Images, Known
    <3>3. Contract!Start
      BY <3>1, <3>2 DEF Contract!Start, Olds, Images, Running
    <3>4. QED  BY <3>3 DEF Contract!Next
  <2>3. CASE Next /\ pc # "off" /\ pc' = "off"
    <3>1. Contract!Finish(exit') /\ exit' \in 0 .. 3 \cup {Killed}
      BY <2>0, <2>3, FinishStep, EndStep
    <3>2. QED  BY <3>1 DEF Contract!Next, Contract!Finish
  <2>4. ASSUME Next, ~Begin, pc = "off" \/ pc' # "off"
        PROVE  Contract!Next
    <3>1. ((pc' # "off") <=> (pc # "off")) /\ UNCHANGED exit /\ UNCHANGED base
      <4>1. CASE TakeSnapshot
        BY <4>1 DEF TakeSnapshot, local
      <4>2. CASE Kill
        BY <2>4, <4>2 DEF Kill, End
      <4>3. CASE Script
        BY <2>4, <4>3 DEF Script, Pull, Stop, Backup, BackupsEnd, Abort, Up, Stale, Verify,
           RestoreSnapshot, Retag, Halt, RestoreData, DataEnd, Recreate, VerifyBack, Goto, End, local
      <4>4. ASSUME NEW s \in Service,
                   Migrate(s) \/ Die(s) \/ Restart(s) \/ OwnerStops(s) \/ OtherPull(s) \/ OtherUp(s) \/ Edit(s)
            PROVE  UNCHANGED <<pc, exit, base>>
        BY <4>4 DEF Migrate, Die, Restart, OwnerStops, OtherPull, OtherUp, Edit, SetState, frame, local
      <4>5. QED  BY <2>4, <4>1, <4>2, <4>3, <4>4 DEF Next
    <3>2. QED  BY <2>0, <2>4, <3>1, HistoryStep, WorkStep DEF Contract!Next
  <2>5. QED  BY <2>1, <2>2, <2>3, <2>4
<1>3. Spec => []KnownIInv
  BY UpdateType, UpdateKnown, PTL DEF KnownIInv
<1>4. QED  BY <1>1, <1>2, <1>3, PTL DEF Spec, KeepsContract, Contract!Spec
=============================================================================
