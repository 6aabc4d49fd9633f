------------------------- MODULE PlaybackFixProofs -------------------------
(***************************************************************************)
(* Theorems of PlaybackFix: the file always tells of everything that is    *)
(* slowed down, and with the owner's values, for any units and containers, *)
(* any REVERT_AFTER and any number of failing calls, lost answers, kills   *)
(* and reboots.                                                            *)
(***************************************************************************)
EXTENDS PlaybackFix, TLAPS

\* Every setting that is slowed down has a record.
Covers(file) ==
  /\ qbit.alt = "slow" \/ qbit.mode # qbit.own => file.qbit # No
  /\ sab = "slow" => file.sab # No
  /\ \A t \in Target \ unasked : weight[t] = "slow" => file.units[t] # "no"

\* What the daemon goes by, or the next one will.
Memory == IF pc = "off" THEN disk ELSE applied

\* What one file records the other does too.
Within(file, other) ==
  /\ file.qbit # No => other.qbit # No
  /\ file.sab # No => other.sab # No
  /\ \A t \in Target : file.units[t] # "no" => other.units[t] # "no"

\* What a step of a client, or of a target, knows.
ClientInv ==
  /\ pc = "slow qbit" => applied.qbit # No
  /\ pc \in {"turn on", "turn off"} => applied.qbit # No /\ applied.qbit.mode = 0
  /\ pc = "turn off" => qbit.alt = applied.qbit.value
  /\ pc = "slow sab" => applied.sab # No

LowerInv == pc = "lower" => todo # {} /\ applied.units[First] # "no"
RestoreInv == pc = "restore" => todo \subseteq Known(applied)

\* A new container starts with the default; a daemon that is gone knows nothing.
GoneInv == \A t \in Target : state[t] = "gone" => weight[t] = "own"
OffInv == pc = "off" => applied = Empty /\ ~behind

\* A record that the daemon has is in the file, as long as saves succeed.
FileInv == ~behind => Within(applied, disk)

StepInv == ClientInv /\ LowerInv /\ RestoreInv /\ GoneInv /\ OffInv /\ FileInv

\* What is about to be lowered is its owner's still.
Unlowered == pc = "lower" => weight[First] = "own" \/ First \in unasked

Sound ==
  /\ OwnersValues(disk) /\ OwnersValues(applied)
  /\ Covers(Memory) /\ Unlowered
  /\ qbit.own = 1 => qbit.mode = 1

IInv == TypeOK /\ StepInv /\ (forgot \/ Sound)

LEMMA FirstIsOne == todo # {} => First \in todo
BY DEF First

LEMMA RecordGiven ==
  ASSUME NEW file \in File, NEW entry \in Entry
  PROVE  /\ [file EXCEPT !["qbit"] = entry] \in File
         /\ [file EXCEPT !["sab"] = entry] \in File
BY DEF File

LEMMA WeightGiven ==
  ASSUME NEW file \in File, NEW t \in Target, NEW value \in Value \cup {"no"}
  PROVE  [file EXCEPT !.units[t] = value] \in File
BY DEF File

LEMMA NotPending ==
  ASSUME NEW file \in File
  PROVE  /\ file.qbit # No => [file EXCEPT !["qbit"].pending = FALSE] \in File
         /\ file.sab # No => [file EXCEPT !["sab"].pending = FALSE] \in File
<1>1. ASSUME NEW e \in Entry, e # No PROVE [e EXCEPT !.pending = FALSE] \in Entry
  BY <1>1 DEF Entry
<1>2. file.qbit \in Entry /\ file.sab \in Entry
  BY DEF File
<1>3. /\ file.qbit # No => [file EXCEPT !["qbit"] = [file.qbit EXCEPT !.pending = FALSE]] \in File
      /\ file.sab # No => [file EXCEPT !["sab"] = [file.sab EXCEPT !.pending = FALSE]] \in File
  BY <1>1, <1>2, RecordGiven
<1>4. /\ [file EXCEPT !["qbit"] = [file.qbit EXCEPT !.pending = FALSE]] = [file EXCEPT !["qbit"].pending = FALSE]
      /\ [file EXCEPT !["sab"] = [file.sab EXCEPT !.pending = FALSE]] = [file EXCEPT !["sab"].pending = FALSE]
  BY DEF File
<1>5. QED BY <1>3, <1>4

LEMMA ClientGiven ==
  ASSUME NEW file \in File, NEW e
  PROVE  /\ [file EXCEPT !["qbit"] = e].qbit = e /\ [file EXCEPT !["qbit"] = e].sab = file.sab
         /\ [file EXCEPT !["qbit"] = e].units = file.units
         /\ [file EXCEPT !["sab"] = e].sab = e /\ [file EXCEPT !["sab"] = e].qbit = file.qbit
         /\ [file EXCEPT !["sab"] = e].units = file.units
BY DEF File

LEMMA TargetGiven ==
  ASSUME applied \in File, NEW t \in Target, NEW value
  PROVE  /\ With(t, value).units[t] = value
         /\ \A u \in Target \ {t} : With(t, value).units[u] = applied.units[u]
         /\ With(t, value).qbit = applied.qbit /\ With(t, value).sab = applied.sab
BY DEF With, File

LEMMA NewIsNotNo == ASSUME NEW mode, NEW value PROVE New(mode, value) # No
<1>1. New(mode, value).is = "entry" /\ No.is = "no"
  BY DEF New, No
<1>2. QED BY <1>1

\* What the daemon knows after a step that records nothing new.
LEMMA Lesser ==
  ASSUME applied \in File
  PROVE  /\ Within(Forget("qbit"), applied) /\ Within(Forget("sab"), applied)
         /\ applied.qbit # No => Within(Applied("qbit"), applied)
         /\ applied.sab # No => Within(Applied("sab"), applied)
         /\ \A t \in Target : Within(With(t, "no"), applied)
         /\ Within(applied, applied) /\ \A file : Within(Empty, file)
<1>1. Within(Forget("qbit"), applied) /\ Within(Forget("sab"), applied)
  BY ClientGiven DEF Forget, Within
<1>2. /\ applied.qbit # No => Within(Applied("qbit"), applied)
      /\ applied.sab # No => Within(Applied("sab"), applied)
  BY DEF Applied, Within, File
<1>3. \A t \in Target : Within(With(t, "no"), applied)
  BY TargetGiven DEF Within
<1>4. Within(applied, applied) /\ \A file : Within(Empty, file)
  BY DEF Within, Empty
<1>5. QED BY <1>1, <1>2, <1>3, <1>4

LEMMA Forgotten ==
  ASSUME applied \in File
  PROVE  /\ Forget("qbit").qbit = No /\ Forget("qbit").sab = applied.sab /\ Forget("qbit").units = applied.units
         /\ Forget("sab").sab = No /\ Forget("sab").qbit = applied.qbit /\ Forget("sab").units = applied.units
BY ClientGiven DEF Forget

LEMMA AppliedKnown ==
  ASSUME applied \in File
  PROVE  /\ applied.qbit # No => /\ Applied("qbit").qbit # No /\ Applied("qbit").qbit.mode = applied.qbit.mode
                                 /\ Applied("qbit").qbit.value = applied.qbit.value
                                 /\ Applied("qbit").sab = applied.sab /\ Applied("qbit").units = applied.units
         /\ applied.sab # No => /\ Applied("sab").sab # No /\ Applied("sab").sab.value = applied.sab.value
                                /\ Applied("sab").qbit = applied.qbit /\ Applied("sab").units = applied.units
<1>1. ASSUME NEW e \in Entry, e # No
      PROVE  LET f == [e EXCEPT !.pending = FALSE] IN f # No /\ f.mode = e.mode /\ f.value = e.value
  <2>1. e.is = "entry" /\ No.is = "no"
    BY <1>1 DEF Entry, No
  <2>2. [e EXCEPT !.pending = FALSE].is = "entry"
    BY <1>1, <2>1 DEF Entry
  <2>3. QED BY <1>1, <2>1, <2>2 DEF Entry
<1>2. applied.qbit \in Entry /\ applied.sab \in Entry
  BY DEF File
<1>4. /\ Applied("qbit").qbit = [applied.qbit EXCEPT !.pending = FALSE]
      /\ Applied("qbit").sab = applied.sab /\ Applied("qbit").units = applied.units
  BY DEF Applied, File
<1>5. /\ Applied("sab").sab = [applied.sab EXCEPT !.pending = FALSE]
      /\ Applied("sab").qbit = applied.qbit /\ Applied("sab").units = applied.units
  BY DEF Applied, File
<1>6. ASSUME applied.qbit # No
      PROVE  /\ Applied("qbit").qbit # No /\ Applied("qbit").qbit.mode = applied.qbit.mode
             /\ Applied("qbit").qbit.value = applied.qbit.value
  BY <1>1, <1>2, <1>4, <1>6
<1>7. applied.sab # No => Applied("sab").sab # No /\ Applied("sab").sab.value = applied.sab.value
  BY <1>1, <1>2, <1>5
<1>8. QED BY <1>4, <1>5, <1>6, <1>7

LEMMA EmptyFile == Empty \in File
BY DEF Empty, File, Entry, Value

LEMMA InitInv == Init => IInv
<1>1. SUFFICES ASSUME Init PROVE IInv
  OBVIOUS
<1>2. PICK m \in {0, 1} : qbit = [alt |-> "own", mode |-> m, own |-> m]
  BY <1>1 DEF Init
<1>3. qbit \in [alt : Value, mode : {0, 1}, own : {0, 1}] /\ sab \in Value
  BY <1>1, <1>2 DEF Init, Value
<1>4. weight \in [Target -> Value] /\ state \in [Target -> {"off", "on", "gone"}]
  BY <1>1 DEF Init, Value
<1>5. quiet \in 0 .. After /\ blind \in 0 .. After /\ faults \in 0 .. MaxFault
  BY <1>1, FixAssumption DEF Init
<1>6. TypeOK
  BY <1>1, <1>3, <1>4, <1>5, EmptyFile DEF Init, TypeOK, PC
<1>7. StepInv /\ Sound
  BY <1>1, <1>2 DEF Init, StepInv, ClientInv, LowerInv, RestoreInv, GoneInv, OffInv, FileInv, Sound, Unlowered, Within, Covers, Memory, OwnersValues, Empty, No
<1>8. QED BY <1>6, <1>7 DEF IInv

LEMMA TypeStep == IInv /\ [Next]_vars => TypeOK'
<1> SUFFICES ASSUME IInv, [Next]_vars PROVE TypeOK'
  OBVIOUS
<1>a. faults \in 0 .. MaxFault /\ MaxFault \in Nat
  BY FixAssumption DEF IInv, TypeOK
<1>b. pc \in PC
  BY DEF IInv, TypeOK
<1>c. complete \in BOOLEAN /\ behind \in BOOLEAN /\ forgot \in BOOLEAN /\ stopping \in {"no", "asked", "last"}
  BY DEF IInv, TypeOK
<1>d. reverting \in BOOLEAN /\ was \in BOOLEAN
  BY DEF IInv, TypeOK
<1>e. quiet \in 0 .. After /\ blind \in 0 .. After /\ After \in Nat \ {0}
  BY FixAssumption DEF IInv, TypeOK
<1>f. disk \in File /\ applied \in File
  BY DEF IInv, TypeOK
<1>g. todo \subseteq Target /\ unasked \subseteq Target /\ (todo # {} => First \in todo)
  BY FirstIsOne DEF IInv, TypeOK
<1>h. qbit \in [alt : Value, mode : {0, 1}, own : {0, 1}] /\ sab \in Value
  BY DEF IInv, TypeOK
<1>i. weight \in [Target -> Value] /\ state \in [Target -> {"off", "on", "gone"}]
  BY DEF IInv, TypeOK
<1>j. play \in {"none", "fine", "stutter", "down"}
  BY DEF IInv, TypeOK
<1>k. StepInv
  BY DEF IInv
<1>l. applied.qbit \in Entry /\ applied.sab \in Entry /\ No \in Entry /\ applied.units \in [Target -> Value \cup {"no"}]
  BY <1>f DEF File, Entry
<1>0. CASE UNCHANGED vars
  BY <1>0 DEF IInv, vars, world, watcher, TypeOK
<1>1. CASE AskQbit
  <2>1. faults' \in 0 .. MaxFault
    <3>1. Done \/ Fault
      BY <1>1 DEF AskQbit, Ask, New, Step, NoSave, Saves, SaveFails, Incomplete, Done, watcher
    <3>2. QED BY <3>1, <1>a DEF Done, Fault
  <2>2. pc' \in PC
    BY <1>1, <1>b DEF AskQbit, Ask, Step, NoSave, Saves, SaveFails, Incomplete, PC
  <2>3. complete' \in BOOLEAN /\ behind' \in BOOLEAN /\ forgot' \in BOOLEAN /\ stopping' \in {"no", "asked", "last"}
    BY <1>1, <1>c DEF AskQbit, Ask, Step, NoSave, Saves, SaveFails, Incomplete, watcher
  <2>4. reverting' \in BOOLEAN /\ was' \in BOOLEAN
    BY <1>1, <1>d DEF AskQbit, Ask, Step, NoSave, Saves, SaveFails, Incomplete, watcher
  <2>5. quiet' \in 0 .. After /\ blind' \in 0 .. After
    BY <1>1, <1>e DEF AskQbit, Ask, Step, NoSave, Saves, SaveFails, Incomplete, watcher
  <2>6. todo' \subseteq Target /\ unasked' \subseteq Target
    BY <1>1, <1>g DEF AskQbit, Ask, Step, NoSave, Saves, SaveFails, Incomplete, watcher
  <2>7. qbit' \in [alt : Value, mode : {0, 1}, own : {0, 1}] /\ sab' \in Value
    BY <1>1, <1>h, <1>k, <1>l DEF AskQbit, Ask, Step, NoSave, Saves, SaveFails, Incomplete, watcher, Value, StepInv, ClientInv, LowerInv, RestoreInv, Entry
  <2>8. weight' \in [Target -> Value] /\ state' \in [Target -> {"off", "on", "gone"}]
    BY <1>1, <1>g, <1>i, <1>k, <1>l DEF AskQbit, Ask, Step, NoSave, Saves, SaveFails, Incomplete, watcher, Value, StepInv, LowerInv, RestoreInv, Known
  <2>9. play' \in {"none", "fine", "stutter", "down"}
    BY <1>1, <1>j DEF AskQbit, Ask, Step, NoSave, Saves, SaveFails, Incomplete, watcher
  <2>10. applied' \in File /\ disk' \in File
    <3>1. New(qbit.mode, qbit.alt) \in Entry
      BY <1>h DEF New, Entry
    <3>2. [applied EXCEPT !["qbit"] = New(qbit.mode, qbit.alt)] \in File
      BY <3>1, <1>f, RecordGiven
    <3>3. applied' \in {applied, [applied EXCEPT !["qbit"] = New(qbit.mode, qbit.alt)]} /\ disk' \in {disk, applied'}
      BY <1>1 DEF AskQbit, Ask, Saves, SaveFails, NoSave
    <3>4. QED BY <3>2, <3>3, <1>f
  <2>11. QED BY <2>1, <2>2, <2>3, <2>4, <2>5, <2>6, <2>7, <2>8, <2>9, <2>10 DEF TypeOK
<1>2. CASE SlowQbit
  <2>1. faults' \in 0 .. MaxFault
    <3>1. Done \/ Fault
      BY <1>2 DEF SlowQbit, Step, NoSave, Incomplete, Applied, Done, watcher
    <3>2. QED BY <3>1, <1>a DEF Done, Fault
  <2>2. pc' \in PC
    BY <1>2, <1>b DEF SlowQbit, Step, NoSave, Incomplete, Applied, PC
  <2>3. complete' \in BOOLEAN /\ behind' \in BOOLEAN /\ forgot' \in BOOLEAN /\ stopping' \in {"no", "asked", "last"}
    BY <1>2, <1>c DEF SlowQbit, Step, NoSave, Incomplete, Applied, watcher
  <2>4. reverting' \in BOOLEAN /\ was' \in BOOLEAN
    BY <1>2, <1>d DEF SlowQbit, Step, NoSave, Incomplete, Applied, watcher
  <2>5. quiet' \in 0 .. After /\ blind' \in 0 .. After
    BY <1>2, <1>e DEF SlowQbit, Step, NoSave, Incomplete, Applied, watcher
  <2>6. todo' \subseteq Target /\ unasked' \subseteq Target
    BY <1>2, <1>g DEF SlowQbit, Step, NoSave, Incomplete, Applied, watcher
  <2>7. qbit' \in [alt : Value, mode : {0, 1}, own : {0, 1}] /\ sab' \in Value
    BY <1>2, <1>h, <1>k, <1>l DEF SlowQbit, Step, NoSave, Incomplete, Applied, watcher, Value, StepInv, ClientInv, LowerInv, RestoreInv, Entry
  <2>8. weight' \in [Target -> Value] /\ state' \in [Target -> {"off", "on", "gone"}]
    BY <1>2, <1>g, <1>i, <1>k, <1>l DEF SlowQbit, Step, NoSave, Incomplete, Applied, watcher, Value, StepInv, LowerInv, RestoreInv, Known
  <2>9. play' \in {"none", "fine", "stutter", "down"}
    BY <1>2, <1>j DEF SlowQbit, Step, NoSave, Incomplete, Applied, watcher
  <2>10. applied' \in File /\ disk' \in File
    BY <1>2, <1>f, <1>g, <1>i, <1>k, <1>l, RecordGiven, WeightGiven, NotPending, EmptyFile DEF SlowQbit, Step, NoSave, Incomplete, Applied, watcher, StepInv, ClientInv, LowerInv, RestoreInv
  <2>11. QED BY <2>1, <2>2, <2>3, <2>4, <2>5, <2>6, <2>7, <2>8, <2>9, <2>10 DEF TypeOK
<1>3. CASE TurnOn
  <2>1. faults' \in 0 .. MaxFault
    <3>1. Done \/ Fault
      BY <1>3 DEF TurnOn, Step, NoSave, Incomplete, Applied, Done, watcher
    <3>2. QED BY <3>1, <1>a DEF Done, Fault
  <2>2. pc' \in PC
    BY <1>3, <1>b DEF TurnOn, Step, NoSave, Incomplete, Applied, PC
  <2>3. complete' \in BOOLEAN /\ behind' \in BOOLEAN /\ forgot' \in BOOLEAN /\ stopping' \in {"no", "asked", "last"}
    BY <1>3, <1>c DEF TurnOn, Step, NoSave, Incomplete, Applied, watcher
  <2>4. reverting' \in BOOLEAN /\ was' \in BOOLEAN
    BY <1>3, <1>d DEF TurnOn, Step, NoSave, Incomplete, Applied, watcher
  <2>5. quiet' \in 0 .. After /\ blind' \in 0 .. After
    BY <1>3, <1>e DEF TurnOn, Step, NoSave, Incomplete, Applied, watcher
  <2>6. todo' \subseteq Target /\ unasked' \subseteq Target
    BY <1>3, <1>g DEF TurnOn, Step, NoSave, Incomplete, Applied, watcher
  <2>7. qbit' \in [alt : Value, mode : {0, 1}, own : {0, 1}] /\ sab' \in Value
    BY <1>3, <1>h, <1>k, <1>l DEF TurnOn, Step, NoSave, Incomplete, Applied, watcher, Value, StepInv, ClientInv, LowerInv, RestoreInv, Entry
  <2>8. weight' \in [Target -> Value] /\ state' \in [Target -> {"off", "on", "gone"}]
    BY <1>3, <1>g, <1>i, <1>k, <1>l DEF TurnOn, Step, NoSave, Incomplete, Applied, watcher, Value, StepInv, LowerInv, RestoreInv, Known
  <2>9. play' \in {"none", "fine", "stutter", "down"}
    BY <1>3, <1>j DEF TurnOn, Step, NoSave, Incomplete, Applied, watcher
  <2>10. applied' \in File /\ disk' \in File
    BY <1>3, <1>f, <1>g, <1>i, <1>k, <1>l, RecordGiven, WeightGiven, NotPending, EmptyFile DEF TurnOn, Step, NoSave, Incomplete, Applied, watcher, StepInv, ClientInv, LowerInv, RestoreInv
  <2>11. QED BY <2>1, <2>2, <2>3, <2>4, <2>5, <2>6, <2>7, <2>8, <2>9, <2>10 DEF TypeOK
<1>4. CASE AskSab
  <2>1. faults' \in 0 .. MaxFault
    <3>1. Done \/ Fault
      BY <1>4 DEF AskSab, Ask, New, Step, NoSave, Saves, SaveFails, Incomplete, Done, watcher
    <3>2. QED BY <3>1, <1>a DEF Done, Fault
  <2>2. pc' \in PC
    BY <1>4, <1>b DEF AskSab, Ask, Step, NoSave, Saves, SaveFails, Incomplete, PC
  <2>3. complete' \in BOOLEAN /\ behind' \in BOOLEAN /\ forgot' \in BOOLEAN /\ stopping' \in {"no", "asked", "last"}
    BY <1>4, <1>c DEF AskSab, Ask, Step, NoSave, Saves, SaveFails, Incomplete, watcher
  <2>4. reverting' \in BOOLEAN /\ was' \in BOOLEAN
    BY <1>4, <1>d DEF AskSab, Ask, Step, NoSave, Saves, SaveFails, Incomplete, watcher
  <2>5. quiet' \in 0 .. After /\ blind' \in 0 .. After
    BY <1>4, <1>e DEF AskSab, Ask, Step, NoSave, Saves, SaveFails, Incomplete, watcher
  <2>6. todo' \subseteq Target /\ unasked' \subseteq Target
    BY <1>4, <1>g DEF AskSab, Ask, Step, NoSave, Saves, SaveFails, Incomplete, watcher
  <2>7. qbit' \in [alt : Value, mode : {0, 1}, own : {0, 1}] /\ sab' \in Value
    BY <1>4, <1>h, <1>k, <1>l DEF AskSab, Ask, Step, NoSave, Saves, SaveFails, Incomplete, watcher, Value, StepInv, ClientInv, LowerInv, RestoreInv, Entry
  <2>8. weight' \in [Target -> Value] /\ state' \in [Target -> {"off", "on", "gone"}]
    BY <1>4, <1>g, <1>i, <1>k, <1>l DEF AskSab, Ask, Step, NoSave, Saves, SaveFails, Incomplete, watcher, Value, StepInv, LowerInv, RestoreInv, Known
  <2>9. play' \in {"none", "fine", "stutter", "down"}
    BY <1>4, <1>j DEF AskSab, Ask, Step, NoSave, Saves, SaveFails, Incomplete, watcher
  <2>10. applied' \in File /\ disk' \in File
    <3>1. New(0, sab) \in Entry
      BY <1>h DEF New, Entry
    <3>2. [applied EXCEPT !["sab"] = New(0, sab)] \in File
      BY <3>1, <1>f, RecordGiven
    <3>3. applied' \in {applied, [applied EXCEPT !["sab"] = New(0, sab)]} /\ disk' \in {disk, applied'}
      BY <1>4 DEF AskSab, Ask, Saves, SaveFails, NoSave
    <3>4. QED BY <3>2, <3>3, <1>f
  <2>11. QED BY <2>1, <2>2, <2>3, <2>4, <2>5, <2>6, <2>7, <2>8, <2>9, <2>10 DEF TypeOK
<1>5. CASE SlowSab
  <2>1. faults' \in 0 .. MaxFault
    <3>1. Done \/ Fault
      BY <1>5 DEF SlowSab, Step, NoSave, Incomplete, Applied, Done, watcher
    <3>2. QED BY <3>1, <1>a DEF Done, Fault
  <2>2. pc' \in PC
    BY <1>5, <1>b DEF SlowSab, Step, NoSave, Incomplete, Applied, PC
  <2>3. complete' \in BOOLEAN /\ behind' \in BOOLEAN /\ forgot' \in BOOLEAN /\ stopping' \in {"no", "asked", "last"}
    BY <1>5, <1>c DEF SlowSab, Step, NoSave, Incomplete, Applied, watcher
  <2>4. reverting' \in BOOLEAN /\ was' \in BOOLEAN
    BY <1>5, <1>d DEF SlowSab, Step, NoSave, Incomplete, Applied, watcher
  <2>5. quiet' \in 0 .. After /\ blind' \in 0 .. After
    BY <1>5, <1>e DEF SlowSab, Step, NoSave, Incomplete, Applied, watcher
  <2>6. todo' \subseteq Target /\ unasked' \subseteq Target
    BY <1>5, <1>g DEF SlowSab, Step, NoSave, Incomplete, Applied, watcher
  <2>7. qbit' \in [alt : Value, mode : {0, 1}, own : {0, 1}] /\ sab' \in Value
    BY <1>5, <1>h, <1>k, <1>l DEF SlowSab, Step, NoSave, Incomplete, Applied, watcher, Value, StepInv, ClientInv, LowerInv, RestoreInv, Entry
  <2>8. weight' \in [Target -> Value] /\ state' \in [Target -> {"off", "on", "gone"}]
    BY <1>5, <1>g, <1>i, <1>k, <1>l DEF SlowSab, Step, NoSave, Incomplete, Applied, watcher, Value, StepInv, LowerInv, RestoreInv, Known
  <2>9. play' \in {"none", "fine", "stutter", "down"}
    BY <1>5, <1>j DEF SlowSab, Step, NoSave, Incomplete, Applied, watcher
  <2>10. applied' \in File /\ disk' \in File
    <3>1. applied' \in {applied, Applied("sab")} /\ UNCHANGED disk
      BY <1>5 DEF SlowSab, NoSave
    <3>2. Applied("sab") \in File
      BY <1>5, <1>f, <1>k, NotPending DEF SlowSab, Step, StepInv, ClientInv, Applied
    <3>3. QED BY <3>1, <3>2, <1>f
  <2>11. QED BY <2>1, <2>2, <2>3, <2>4, <2>5, <2>6, <2>7, <2>8, <2>9, <2>10 DEF TypeOK
<1>6. CASE SaveDownloads
  <2>1. faults' \in 0 .. MaxFault
    <3>1. Done \/ Fault
      BY <1>6 DEF SaveDownloads, Step, Saves, SaveFails, Done, watcher
    <3>2. QED BY <3>1, <1>a DEF Done, Fault
  <2>2. pc' \in PC
    BY <1>6, <1>b DEF SaveDownloads, Step, Saves, SaveFails, PC
  <2>3. complete' \in BOOLEAN /\ behind' \in BOOLEAN /\ forgot' \in BOOLEAN /\ stopping' \in {"no", "asked", "last"}
    BY <1>6, <1>c DEF SaveDownloads, Step, Saves, SaveFails, watcher
  <2>4. reverting' \in BOOLEAN /\ was' \in BOOLEAN
    BY <1>6, <1>d DEF SaveDownloads, Step, Saves, SaveFails, watcher
  <2>5. quiet' \in 0 .. After /\ blind' \in 0 .. After
    BY <1>6, <1>e DEF SaveDownloads, Step, Saves, SaveFails, watcher
  <2>6. todo' \subseteq Target /\ unasked' \subseteq Target
    BY <1>6, <1>g DEF SaveDownloads, Step, Saves, SaveFails, watcher
  <2>7. qbit' \in [alt : Value, mode : {0, 1}, own : {0, 1}] /\ sab' \in Value
    BY <1>6, <1>h, <1>k, <1>l DEF SaveDownloads, Step, Saves, SaveFails, watcher, Value, StepInv, ClientInv, LowerInv, RestoreInv, Entry
  <2>8. weight' \in [Target -> Value] /\ state' \in [Target -> {"off", "on", "gone"}]
    BY <1>6, <1>g, <1>i, <1>k, <1>l DEF SaveDownloads, Step, Saves, SaveFails, watcher, Value, StepInv, LowerInv, RestoreInv, Known
  <2>9. play' \in {"none", "fine", "stutter", "down"}
    BY <1>6, <1>j DEF SaveDownloads, Step, Saves, SaveFails, watcher
  <2>10. applied' \in File /\ disk' \in File
    BY <1>6, <1>f, <1>g, <1>i, <1>k, <1>l, RecordGiven, WeightGiven, NotPending, EmptyFile DEF SaveDownloads, Step, Saves, SaveFails, watcher, StepInv, ClientInv, LowerInv, RestoreInv
  <2>11. QED BY <2>1, <2>2, <2>3, <2>4, <2>5, <2>6, <2>7, <2>8, <2>9, <2>10 DEF TypeOK
<1>7. CASE LookUp
  <2>1. faults' \in 0 .. MaxFault
    <3>1. Done \/ Fault
      BY <1>7 DEF LookUp, Step, NoSave, Incomplete, IsActive, Done, watcher
    <3>2. QED BY <3>1, <1>a DEF Done, Fault
  <2>2. pc' \in PC
    BY <1>7, <1>b DEF LookUp, Step, NoSave, Incomplete, IsActive, PC
  <2>3. complete' \in BOOLEAN /\ behind' \in BOOLEAN /\ forgot' \in BOOLEAN /\ stopping' \in {"no", "asked", "last"}
    BY <1>7, <1>c DEF LookUp, Step, NoSave, Incomplete, IsActive, watcher
  <2>4. reverting' \in BOOLEAN /\ was' \in BOOLEAN
    BY <1>7, <1>d DEF LookUp, Step, NoSave, Incomplete, IsActive, watcher
  <2>5. quiet' \in 0 .. After /\ blind' \in 0 .. After
    BY <1>7, <1>e DEF LookUp, Step, NoSave, Incomplete, IsActive, watcher
  <2>6. todo' \subseteq Target /\ unasked' \subseteq Target
    BY <1>7, <1>g DEF LookUp, Step, NoSave, Incomplete, IsActive, watcher
  <2>7. qbit' \in [alt : Value, mode : {0, 1}, own : {0, 1}] /\ sab' \in Value
    BY <1>7, <1>h, <1>k, <1>l DEF LookUp, Step, NoSave, Incomplete, IsActive, watcher, Value, StepInv, ClientInv, LowerInv, RestoreInv, Entry
  <2>8. weight' \in [Target -> Value] /\ state' \in [Target -> {"off", "on", "gone"}]
    BY <1>7, <1>g, <1>i, <1>k, <1>l DEF LookUp, Step, NoSave, Incomplete, IsActive, watcher, Value, StepInv, LowerInv, RestoreInv, Known
  <2>9. play' \in {"none", "fine", "stutter", "down"}
    BY <1>7, <1>j DEF LookUp, Step, NoSave, Incomplete, IsActive, watcher
  <2>10. applied' \in File /\ disk' \in File
    BY <1>7, <1>f, <1>g, <1>i, <1>k, <1>l, RecordGiven, WeightGiven, NotPending, EmptyFile DEF LookUp, Step, NoSave, Incomplete, IsActive, watcher, StepInv, ClientInv, LowerInv, RestoreInv
  <2>11. QED BY <2>1, <2>2, <2>3, <2>4, <2>5, <2>6, <2>7, <2>8, <2>9, <2>10 DEF TypeOK
<1>8. CASE ReadWeights
  <2>1. faults' \in 0 .. MaxFault
    <3>1. Done \/ Fault
      BY <1>8 DEF ReadWeights, Step, NoSave, Saves, SaveFails, Incomplete, With, Done, watcher
    <3>2. QED BY <3>1, <1>a DEF Done, Fault
  <2>2. pc' \in PC
    BY <1>8, <1>b DEF ReadWeights, Step, NoSave, Saves, SaveFails, Incomplete, With, PC
  <2>3. complete' \in BOOLEAN /\ behind' \in BOOLEAN /\ forgot' \in BOOLEAN /\ stopping' \in {"no", "asked", "last"}
    BY <1>8, <1>c DEF ReadWeights, Step, NoSave, Saves, SaveFails, Incomplete, With, watcher
  <2>4. reverting' \in BOOLEAN /\ was' \in BOOLEAN
    BY <1>8, <1>d DEF ReadWeights, Step, NoSave, Saves, SaveFails, Incomplete, With, watcher
  <2>5. quiet' \in 0 .. After /\ blind' \in 0 .. After
    BY <1>8, <1>e DEF ReadWeights, Step, NoSave, Saves, SaveFails, Incomplete, With, watcher
  <2>6. todo' \subseteq Target /\ unasked' \subseteq Target
    BY <1>8, <1>g DEF ReadWeights, Step, NoSave, Saves, SaveFails, Incomplete, With, watcher
  <2>7. qbit' \in [alt : Value, mode : {0, 1}, own : {0, 1}] /\ sab' \in Value
    BY <1>8, <1>h, <1>k, <1>l DEF ReadWeights, Step, NoSave, Saves, SaveFails, Incomplete, With, watcher, Value, StepInv, ClientInv, LowerInv, RestoreInv, Entry
  <2>8. weight' \in [Target -> Value] /\ state' \in [Target -> {"off", "on", "gone"}]
    BY <1>8, <1>g, <1>i, <1>k, <1>l DEF ReadWeights, Step, NoSave, Saves, SaveFails, Incomplete, With, watcher, Value, StepInv, LowerInv, RestoreInv, Known
  <2>9. play' \in {"none", "fine", "stutter", "down"}
    BY <1>8, <1>j DEF ReadWeights, Step, NoSave, Saves, SaveFails, Incomplete, With, watcher
  <2>10. applied' \in File /\ disk' \in File
    BY <1>8, <1>f, <1>g, <1>i, <1>k, <1>l, RecordGiven, WeightGiven, NotPending, EmptyFile DEF ReadWeights, Step, NoSave, Saves, SaveFails, Incomplete, With, watcher, StepInv, ClientInv, LowerInv, RestoreInv
  <2>11. QED BY <2>1, <2>2, <2>3, <2>4, <2>5, <2>6, <2>7, <2>8, <2>9, <2>10 DEF TypeOK
<1>9. CASE Lower
  <2>1. faults' \in 0 .. MaxFault
    <3>1. Done \/ Fault
      BY <1>9 DEF Lower, NoSave, Incomplete, With, Done, watcher
    <3>2. QED BY <3>1, <1>a DEF Done, Fault
  <2>2. pc' \in PC
    BY <1>9, <1>b DEF Lower, NoSave, Incomplete, With, PC
  <2>3. complete' \in BOOLEAN /\ behind' \in BOOLEAN /\ forgot' \in BOOLEAN /\ stopping' \in {"no", "asked", "last"}
    BY <1>9, <1>c DEF Lower, NoSave, Incomplete, With, watcher
  <2>4. reverting' \in BOOLEAN /\ was' \in BOOLEAN
    BY <1>9, <1>d DEF Lower, NoSave, Incomplete, With, watcher
  <2>5. quiet' \in 0 .. After /\ blind' \in 0 .. After
    BY <1>9, <1>e DEF Lower, NoSave, Incomplete, With, watcher
  <2>6. todo' \subseteq Target /\ unasked' \subseteq Target
    <3>1. First \in Target
      BY <1>9, <1>g, <1>k DEF Lower, StepInv, LowerInv
    <3>2. QED BY <1>9, <3>1, <1>g DEF Lower
  <2>7. qbit' \in [alt : Value, mode : {0, 1}, own : {0, 1}] /\ sab' \in Value
    BY <1>9, <1>h, <1>k, <1>l DEF Lower, NoSave, Incomplete, With, watcher, Value, StepInv, ClientInv, LowerInv, RestoreInv, Entry
  <2>8. weight' \in [Target -> Value] /\ state' \in [Target -> {"off", "on", "gone"}]
    BY <1>9, <1>g, <1>i, <1>k, <1>l DEF Lower, NoSave, Incomplete, With, watcher, Value, StepInv, LowerInv, RestoreInv, Known
  <2>9. play' \in {"none", "fine", "stutter", "down"}
    BY <1>9, <1>j DEF Lower, NoSave, Incomplete, With, watcher
  <2>10. applied' \in File /\ disk' \in File
    <3>1. First \in Target
      BY <1>9, <1>g, <1>k DEF Lower, StepInv, LowerInv
    <3>2. With(First, "no") \in File
      BY <3>1, <1>f, WeightGiven DEF With
    <3>3. applied' \in {applied, With(First, "no")} /\ UNCHANGED disk
      BY <1>9 DEF Lower, NoSave
    <3>4. QED BY <3>2, <3>3, <1>f
  <2>11. QED BY <2>1, <2>2, <2>3, <2>4, <2>5, <2>6, <2>7, <2>8, <2>9, <2>10 DEF TypeOK
<1>10. CASE EndApply
  <2>1. faults' \in 0 .. MaxFault
    <3>1. Done \/ Fault
      BY <1>10 DEF EndApply, Step, Saves, SaveFails, Done, watcher
    <3>2. QED BY <3>1, <1>a DEF Done, Fault
  <2>2. pc' \in PC
    BY <1>10, <1>b DEF EndApply, Step, Saves, SaveFails, PC
  <2>3. complete' \in BOOLEAN /\ behind' \in BOOLEAN /\ forgot' \in BOOLEAN /\ stopping' \in {"no", "asked", "last"}
    BY <1>10, <1>c DEF EndApply, Step, Saves, SaveFails, watcher
  <2>4. reverting' \in BOOLEAN /\ was' \in BOOLEAN
    BY <1>10, <1>d DEF EndApply, Step, Saves, SaveFails, watcher
  <2>5. quiet' \in 0 .. After /\ blind' \in 0 .. After
    BY <1>10, <1>e DEF EndApply, Step, Saves, SaveFails, watcher
  <2>6. todo' \subseteq Target /\ unasked' \subseteq Target
    BY <1>10, <1>g DEF EndApply, Step, Saves, SaveFails, watcher
  <2>7. qbit' \in [alt : Value, mode : {0, 1}, own : {0, 1}] /\ sab' \in Value
    BY <1>10, <1>h, <1>k, <1>l DEF EndApply, Step, Saves, SaveFails, watcher, Value, StepInv, ClientInv, LowerInv, RestoreInv, Entry
  <2>8. weight' \in [Target -> Value] /\ state' \in [Target -> {"off", "on", "gone"}]
    BY <1>10, <1>g, <1>i, <1>k, <1>l DEF EndApply, Step, Saves, SaveFails, watcher, Value, StepInv, LowerInv, RestoreInv, Known
  <2>9. play' \in {"none", "fine", "stutter", "down"}
    BY <1>10, <1>j DEF EndApply, Step, Saves, SaveFails, watcher
  <2>10. applied' \in File /\ disk' \in File
    BY <1>10, <1>f, <1>g, <1>i, <1>k, <1>l, RecordGiven, WeightGiven, NotPending, EmptyFile DEF EndApply, Step, Saves, SaveFails, watcher, StepInv, ClientInv, LowerInv, RestoreInv
  <2>11. QED BY <2>1, <2>2, <2>3, <2>4, <2>5, <2>6, <2>7, <2>8, <2>9, <2>10 DEF TypeOK
<1>11. CASE FreeQbit
  <2>1. faults' \in 0 .. MaxFault
    <3>1. Done \/ Fault
      BY <1>11 DEF FreeQbit, Step, NoSave, Forget, Done, watcher
    <3>2. QED BY <3>1, <1>a DEF Done, Fault
  <2>2. pc' \in PC
    BY <1>11, <1>b DEF FreeQbit, Step, NoSave, Forget, PC
  <2>3. complete' \in BOOLEAN /\ behind' \in BOOLEAN /\ forgot' \in BOOLEAN /\ stopping' \in {"no", "asked", "last"}
    BY <1>11, <1>c DEF FreeQbit, Step, NoSave, Forget, watcher
  <2>4. reverting' \in BOOLEAN /\ was' \in BOOLEAN
    BY <1>11, <1>d DEF FreeQbit, Step, NoSave, Forget, watcher
  <2>5. quiet' \in 0 .. After /\ blind' \in 0 .. After
    BY <1>11, <1>e DEF FreeQbit, Step, NoSave, Forget, watcher
  <2>6. todo' \subseteq Target /\ unasked' \subseteq Target
    BY <1>11, <1>g DEF FreeQbit, Step, NoSave, Forget, watcher
  <2>7. qbit' \in [alt : Value, mode : {0, 1}, own : {0, 1}] /\ sab' \in Value
    BY <1>11, <1>h, <1>k, <1>l DEF FreeQbit, Step, NoSave, Forget, watcher, Value, StepInv, ClientInv, LowerInv, RestoreInv, Entry
  <2>8. weight' \in [Target -> Value] /\ state' \in [Target -> {"off", "on", "gone"}]
    BY <1>11, <1>g, <1>i, <1>k, <1>l DEF FreeQbit, Step, NoSave, Forget, watcher, Value, StepInv, LowerInv, RestoreInv, Known
  <2>9. play' \in {"none", "fine", "stutter", "down"}
    BY <1>11, <1>j DEF FreeQbit, Step, NoSave, Forget, watcher
  <2>10. applied' \in File /\ disk' \in File
    <3>1. applied' \in {applied, Forget("qbit")} /\ UNCHANGED disk
      BY <1>11 DEF FreeQbit, NoSave
    <3>2. Forget("qbit") \in File
      BY <1>f, <1>l, RecordGiven DEF Forget
    <3>3. QED BY <3>1, <3>2, <1>f
  <2>11. QED BY <2>1, <2>2, <2>3, <2>4, <2>5, <2>6, <2>7, <2>8, <2>9, <2>10 DEF TypeOK
<1>12. CASE TurnOff
  <2>1. faults' \in 0 .. MaxFault
    <3>1. Done \/ Fault
      BY <1>12 DEF TurnOff, Step, NoSave, Forget, Done, watcher
    <3>2. QED BY <3>1, <1>a DEF Done, Fault
  <2>2. pc' \in PC
    BY <1>12, <1>b DEF TurnOff, Step, NoSave, Forget, PC
  <2>3. complete' \in BOOLEAN /\ behind' \in BOOLEAN /\ forgot' \in BOOLEAN /\ stopping' \in {"no", "asked", "last"}
    BY <1>12, <1>c DEF TurnOff, Step, NoSave, Forget, watcher
  <2>4. reverting' \in BOOLEAN /\ was' \in BOOLEAN
    BY <1>12, <1>d DEF TurnOff, Step, NoSave, Forget, watcher
  <2>5. quiet' \in 0 .. After /\ blind' \in 0 .. After
    BY <1>12, <1>e DEF TurnOff, Step, NoSave, Forget, watcher
  <2>6. todo' \subseteq Target /\ unasked' \subseteq Target
    BY <1>12, <1>g DEF TurnOff, Step, NoSave, Forget, watcher
  <2>7. qbit' \in [alt : Value, mode : {0, 1}, own : {0, 1}] /\ sab' \in Value
    BY <1>12, <1>h, <1>k, <1>l DEF TurnOff, Step, NoSave, Forget, watcher, Value, StepInv, ClientInv, LowerInv, RestoreInv, Entry
  <2>8. weight' \in [Target -> Value] /\ state' \in [Target -> {"off", "on", "gone"}]
    BY <1>12, <1>g, <1>i, <1>k, <1>l DEF TurnOff, Step, NoSave, Forget, watcher, Value, StepInv, LowerInv, RestoreInv, Known
  <2>9. play' \in {"none", "fine", "stutter", "down"}
    BY <1>12, <1>j DEF TurnOff, Step, NoSave, Forget, watcher
  <2>10. applied' \in File /\ disk' \in File
    <3>1. applied' \in {applied, Forget("qbit")} /\ UNCHANGED disk
      BY <1>12 DEF TurnOff, NoSave
    <3>2. Forget("qbit") \in File
      BY <1>f, <1>l, RecordGiven DEF Forget
    <3>3. QED BY <3>1, <3>2, <1>f
  <2>11. QED BY <2>1, <2>2, <2>3, <2>4, <2>5, <2>6, <2>7, <2>8, <2>9, <2>10 DEF TypeOK
<1>13. CASE FreeSab
  <2>1. faults' \in 0 .. MaxFault
    <3>1. Done \/ Fault
      BY <1>13 DEF FreeSab, Step, NoSave, Forget, Known, Done, watcher
    <3>2. QED BY <3>1, <1>a DEF Done, Fault
  <2>2. pc' \in PC
    BY <1>13, <1>b DEF FreeSab, Step, NoSave, Forget, Known, PC
  <2>3. complete' \in BOOLEAN /\ behind' \in BOOLEAN /\ forgot' \in BOOLEAN /\ stopping' \in {"no", "asked", "last"}
    BY <1>13, <1>c DEF FreeSab, Step, NoSave, Forget, Known, watcher
  <2>4. reverting' \in BOOLEAN /\ was' \in BOOLEAN
    BY <1>13, <1>d DEF FreeSab, Step, NoSave, Forget, Known, watcher
  <2>5. quiet' \in 0 .. After /\ blind' \in 0 .. After
    BY <1>13, <1>e DEF FreeSab, Step, NoSave, Forget, Known, watcher
  <2>6. todo' \subseteq Target /\ unasked' \subseteq Target
    BY <1>13, <1>g DEF FreeSab, Step, NoSave, Forget, Known, watcher
  <2>7. qbit' \in [alt : Value, mode : {0, 1}, own : {0, 1}] /\ sab' \in Value
    BY <1>13, <1>h, <1>k, <1>l DEF FreeSab, Step, NoSave, Forget, Known, watcher, Value, StepInv, ClientInv, LowerInv, RestoreInv, Entry
  <2>8. weight' \in [Target -> Value] /\ state' \in [Target -> {"off", "on", "gone"}]
    BY <1>13, <1>g, <1>i, <1>k, <1>l DEF FreeSab, Step, NoSave, Forget, Known, watcher, Value, StepInv, LowerInv, RestoreInv
  <2>9. play' \in {"none", "fine", "stutter", "down"}
    BY <1>13, <1>j DEF FreeSab, Step, NoSave, Forget, Known, watcher
  <2>10. applied' \in File /\ disk' \in File
    BY <1>13, <1>f, <1>g, <1>i, <1>k, <1>l, RecordGiven, WeightGiven, NotPending, EmptyFile DEF FreeSab, Step, NoSave, Forget, Known, watcher, StepInv, ClientInv, LowerInv, RestoreInv
  <2>11. QED BY <2>1, <2>2, <2>3, <2>4, <2>5, <2>6, <2>7, <2>8, <2>9, <2>10 DEF TypeOK
<1>14. CASE Restore
  <2>1. faults' \in 0 .. MaxFault
    <3>1. Done \/ Fault
      BY <1>14 DEF Restore, Step, NoSave, With, Done, watcher
    <3>2. QED BY <3>1, <1>a DEF Done, Fault
  <2>2. pc' \in PC
    BY <1>14, <1>b DEF Restore, Step, NoSave, With, PC
  <2>3. complete' \in BOOLEAN /\ behind' \in BOOLEAN /\ forgot' \in BOOLEAN /\ stopping' \in {"no", "asked", "last"}
    BY <1>14, <1>c DEF Restore, Step, NoSave, With, watcher
  <2>4. reverting' \in BOOLEAN /\ was' \in BOOLEAN
    BY <1>14, <1>d DEF Restore, Step, NoSave, With, watcher
  <2>5. quiet' \in 0 .. After /\ blind' \in 0 .. After
    BY <1>14, <1>e DEF Restore, Step, NoSave, With, watcher
  <2>6. todo' \subseteq Target /\ unasked' \subseteq Target
    BY <1>14, <1>g DEF Restore, Step, NoSave, With, watcher
  <2>7. qbit' \in [alt : Value, mode : {0, 1}, own : {0, 1}] /\ sab' \in Value
    BY <1>14, <1>h, <1>k, <1>l DEF Restore, Step, NoSave, With, watcher, Value, StepInv, ClientInv, LowerInv, RestoreInv, Entry
  <2>8. weight' \in [Target -> Value] /\ state' \in [Target -> {"off", "on", "gone"}]
    BY <1>14, <1>g, <1>i, <1>k, <1>l DEF Restore, Step, NoSave, With, watcher, Value, StepInv, LowerInv, RestoreInv, Known
  <2>9. play' \in {"none", "fine", "stutter", "down"}
    BY <1>14, <1>j DEF Restore, Step, NoSave, With, watcher
  <2>10. applied' \in File /\ disk' \in File
    <3>1. First \in Target
      BY <1>14, <1>g DEF Restore
    <3>2. With(First, "no") \in File
      BY <3>1, <1>f, WeightGiven DEF With
    <3>3. applied' \in {applied, With(First, "no")} /\ UNCHANGED disk
      BY <1>14 DEF Restore, NoSave
    <3>4. QED BY <3>2, <3>3, <1>f
  <2>11. QED BY <2>1, <2>2, <2>3, <2>4, <2>5, <2>6, <2>7, <2>8, <2>9, <2>10 DEF TypeOK
<1>15. CASE EndRevert
  <2>1. faults' \in 0 .. MaxFault
    <3>1. Done \/ Fault
      BY <1>15 DEF EndRevert, Saves, SaveFails, End, active, Done, world
    <3>2. QED BY <3>1, <1>a DEF Done, Fault
  <2>2. pc' \in PC
    BY <1>15, <1>b DEF EndRevert, Saves, SaveFails, End, active, PC
  <2>3. complete' \in BOOLEAN /\ behind' \in BOOLEAN /\ forgot' \in BOOLEAN /\ stopping' \in {"no", "asked", "last"}
    BY <1>15, <1>c DEF EndRevert, Saves, SaveFails, End, active
  <2>4. reverting' \in BOOLEAN /\ was' \in BOOLEAN
    BY <1>15, <1>d DEF EndRevert, Saves, SaveFails, End, active, world
  <2>5. quiet' \in 0 .. After /\ blind' \in 0 .. After
    BY <1>15, <1>e DEF EndRevert, Saves, SaveFails, End, active, world
  <2>6. todo' \subseteq Target /\ unasked' \subseteq Target
    BY <1>15, <1>g DEF EndRevert, Saves, SaveFails, End, active, world
  <2>7. qbit' \in [alt : Value, mode : {0, 1}, own : {0, 1}] /\ sab' \in Value
    BY <1>15, <1>h, <1>k, <1>l DEF EndRevert, Saves, SaveFails, End, active, world, Value, StepInv, ClientInv, LowerInv, RestoreInv, Entry
  <2>8. weight' \in [Target -> Value] /\ state' \in [Target -> {"off", "on", "gone"}]
    BY <1>15, <1>g, <1>i, <1>k, <1>l DEF EndRevert, Saves, SaveFails, End, active, world, Value, StepInv, LowerInv, RestoreInv, Known
  <2>9. play' \in {"none", "fine", "stutter", "down"}
    BY <1>15, <1>j DEF EndRevert, Saves, SaveFails, End, active, world
  <2>10. applied' \in File /\ disk' \in File
    BY <1>15, <1>f, <1>g, <1>i, <1>k, <1>l, RecordGiven, WeightGiven, NotPending, EmptyFile DEF EndRevert, Saves, SaveFails, End, active, world, StepInv, ClientInv, LowerInv, RestoreInv
  <2>11. QED BY <2>1, <2>2, <2>3, <2>4, <2>5, <2>6, <2>7, <2>8, <2>9, <2>10 DEF TypeOK
<1>16. CASE Start
  <2>1. faults' \in 0 .. MaxFault
    <3>1. Done \/ Fault
      BY <1>16 DEF Start, Begin, watcher, world, Done
    <3>2. QED BY <3>1, <1>a DEF Done, Fault
  <2>2. pc' \in PC
    BY <1>16, <1>b DEF Start, Begin, PC
  <2>3. complete' \in BOOLEAN /\ behind' \in BOOLEAN /\ forgot' \in BOOLEAN /\ stopping' \in {"no", "asked", "last"}
    BY <1>16, <1>c DEF Start, Begin, watcher
  <2>4. reverting' \in BOOLEAN /\ was' \in BOOLEAN
    BY <1>16, <1>d DEF Start, Begin, watcher, world
  <2>5. quiet' \in 0 .. After /\ blind' \in 0 .. After
    BY <1>16, <1>e DEF Start, Begin, watcher, world
  <2>6. todo' \subseteq Target /\ unasked' \subseteq Target
    BY <1>16, <1>g DEF Start, Begin, watcher, world
  <2>7. qbit' \in [alt : Value, mode : {0, 1}, own : {0, 1}] /\ sab' \in Value
    BY <1>16, <1>h, <1>k, <1>l DEF Start, Begin, watcher, world, Value, StepInv, ClientInv, LowerInv, RestoreInv, Entry
  <2>8. weight' \in [Target -> Value] /\ state' \in [Target -> {"off", "on", "gone"}]
    BY <1>16, <1>g, <1>i, <1>k, <1>l DEF Start, Begin, watcher, world, Value, StepInv, LowerInv, RestoreInv, Known
  <2>9. play' \in {"none", "fine", "stutter", "down"}
    BY <1>16, <1>j DEF Start, Begin, watcher, world
  <2>10. applied' \in File /\ disk' \in File
    BY <1>16, <1>f, <1>g, <1>i, <1>k, <1>l, RecordGiven, WeightGiven, NotPending, EmptyFile DEF Start, Begin, watcher, world, StepInv, ClientInv, LowerInv, RestoreInv
  <2>11. QED BY <2>1, <2>2, <2>3, <2>4, <2>5, <2>6, <2>7, <2>8, <2>9, <2>10 DEF TypeOK
<1>17. CASE Poll
  <2>1. faults' \in 0 .. MaxFault
    <3>1. Done \/ Fault
      BY <1>17 DEF Poll, Update, Decide, Begin, Reverts, active, Upto, world, Done
    <3>2. QED BY <3>1, <1>a DEF Done, Fault
  <2>2. pc' \in PC
    BY <1>17, <1>b DEF Poll, Update, Decide, Begin, Reverts, active, PC
  <2>3. complete' \in BOOLEAN /\ behind' \in BOOLEAN /\ forgot' \in BOOLEAN /\ stopping' \in {"no", "asked", "last"}
    BY <1>17, <1>c DEF Poll, Update, Decide, Begin, Reverts, active
  <2>4. reverting' \in BOOLEAN /\ was' \in BOOLEAN
    BY <1>17, <1>d DEF Poll, Update, Decide, Begin, Reverts, active, Upto, world
  <2>5. quiet' \in 0 .. After /\ blind' \in 0 .. After
    <3>1. quiet' \in {0, Upto(quiet)} /\ blind' = 0
      BY <1>17 DEF Poll, Update
    <3>2. QED BY <3>1, <1>e DEF Upto
  <2>6. todo' \subseteq Target /\ unasked' \subseteq Target
    BY <1>17, <1>g DEF Poll, Update, Decide, Begin, Reverts, active, Upto, world
  <2>7. qbit' \in [alt : Value, mode : {0, 1}, own : {0, 1}] /\ sab' \in Value
    BY <1>17, <1>h, <1>k, <1>l DEF Poll, Update, Decide, Begin, Reverts, active, Upto, world, Value, StepInv, ClientInv, LowerInv, RestoreInv, Entry
  <2>8. weight' \in [Target -> Value] /\ state' \in [Target -> {"off", "on", "gone"}]
    BY <1>17, <1>g, <1>i, <1>k, <1>l DEF Poll, Update, Decide, Begin, Reverts, active, Upto, world, Value, StepInv, LowerInv, RestoreInv, Known
  <2>9. play' \in {"none", "fine", "stutter", "down"}
    BY <1>17, <1>j DEF Poll, Update, Decide, Begin, Reverts, active, Upto, world
  <2>10. applied' \in File /\ disk' \in File
    BY <1>17, <1>f, <1>g, <1>i, <1>k, <1>l, RecordGiven, WeightGiven, NotPending, EmptyFile DEF Poll, Update, Decide, Begin, Reverts, active, Upto, world, StepInv, ClientInv, LowerInv, RestoreInv
  <2>11. QED BY <2>1, <2>2, <2>3, <2>4, <2>5, <2>6, <2>7, <2>8, <2>9, <2>10 DEF TypeOK
<1>18. CASE PollFails
  <2>1. faults' \in 0 .. MaxFault
    <3>1. Done \/ Fault
      BY <1>18 DEF PollFails, Begin, Reverts, active, Upto, world, Done
    <3>2. QED BY <3>1, <1>a DEF Done, Fault
  <2>2. pc' \in PC
    BY <1>18, <1>b DEF PollFails, Begin, Reverts, active, PC
  <2>3. complete' \in BOOLEAN /\ behind' \in BOOLEAN /\ forgot' \in BOOLEAN /\ stopping' \in {"no", "asked", "last"}
    BY <1>18, <1>c DEF PollFails, Begin, Reverts, active
  <2>4. reverting' \in BOOLEAN /\ was' \in BOOLEAN
    BY <1>18, <1>d DEF PollFails, Begin, Reverts, active, Upto, world
  <2>5. quiet' \in 0 .. After /\ blind' \in 0 .. After
    <3>1. quiet' = Upto(quiet) /\ blind' = Upto(blind)
      BY <1>18 DEF PollFails
    <3>2. QED BY <3>1, <1>e DEF Upto
  <2>6. todo' \subseteq Target /\ unasked' \subseteq Target
    BY <1>18, <1>g DEF PollFails, Begin, Reverts, active, Upto, world
  <2>7. qbit' \in [alt : Value, mode : {0, 1}, own : {0, 1}] /\ sab' \in Value
    BY <1>18, <1>h, <1>k, <1>l DEF PollFails, Begin, Reverts, active, Upto, world, Value, StepInv, ClientInv, LowerInv, RestoreInv, Entry
  <2>8. weight' \in [Target -> Value] /\ state' \in [Target -> {"off", "on", "gone"}]
    BY <1>18, <1>g, <1>i, <1>k, <1>l DEF PollFails, Begin, Reverts, active, Upto, world, Value, StepInv, LowerInv, RestoreInv, Known
  <2>9. play' \in {"none", "fine", "stutter", "down"}
    BY <1>18, <1>j DEF PollFails, Begin, Reverts, active, Upto, world
  <2>10. applied' \in File /\ disk' \in File
    BY <1>18, <1>f, <1>g, <1>i, <1>k, <1>l, RecordGiven, WeightGiven, NotPending, EmptyFile DEF PollFails, Begin, Reverts, active, Upto, world, StepInv, ClientInv, LowerInv, RestoreInv
  <2>11. QED BY <2>1, <2>2, <2>3, <2>4, <2>5, <2>6, <2>7, <2>8, <2>9, <2>10 DEF TypeOK
<1>19. CASE Stopped
  <2>1. faults' \in 0 .. MaxFault
    <3>1. Done \/ Fault
      BY <1>19 DEF Stopped, Begin, End, active, watcher, world, Done
    <3>2. QED BY <3>1, <1>a DEF Done, Fault
  <2>2. pc' \in PC
    BY <1>19, <1>b DEF Stopped, Begin, End, active, PC
  <2>3. complete' \in BOOLEAN /\ behind' \in BOOLEAN /\ forgot' \in BOOLEAN /\ stopping' \in {"no", "asked", "last"}
    BY <1>19, <1>c DEF Stopped, Begin, End, active, watcher
  <2>4. reverting' \in BOOLEAN /\ was' \in BOOLEAN
    BY <1>19, <1>d DEF Stopped, Begin, End, active, watcher, world
  <2>5. quiet' \in 0 .. After /\ blind' \in 0 .. After
    <3>1. quiet' \in {0, quiet} /\ blind' \in {0, blind}
      BY <1>19 DEF Stopped, Begin, End, watcher
    <3>2. QED BY <3>1, <1>e
  <2>6. todo' \subseteq Target /\ unasked' \subseteq Target
    BY <1>19, <1>g DEF Stopped, Begin, End, active, watcher, world
  <2>7. qbit' \in [alt : Value, mode : {0, 1}, own : {0, 1}] /\ sab' \in Value
    BY <1>19, <1>h, <1>k, <1>l DEF Stopped, Begin, End, active, watcher, world, Value, StepInv, ClientInv, LowerInv, RestoreInv, Entry
  <2>8. weight' \in [Target -> Value] /\ state' \in [Target -> {"off", "on", "gone"}]
    BY <1>19, <1>g, <1>i, <1>k, <1>l DEF Stopped, Begin, End, active, watcher, world, Value, StepInv, LowerInv, RestoreInv, Known
  <2>9. play' \in {"none", "fine", "stutter", "down"}
    BY <1>19, <1>j DEF Stopped, Begin, End, active, watcher, world
  <2>10. applied' \in File /\ disk' \in File
    BY <1>19, <1>f, <1>g, <1>i, <1>k, <1>l, RecordGiven, WeightGiven, NotPending, EmptyFile DEF Stopped, Begin, End, active, watcher, world, StepInv, ClientInv, LowerInv, RestoreInv
  <2>11. QED BY <2>1, <2>2, <2>3, <2>4, <2>5, <2>6, <2>7, <2>8, <2>9, <2>10 DEF TypeOK
<1>20. CASE Sigterm
  <2>1. faults' \in 0 .. MaxFault
    <3>1. Done \/ Fault
      BY <1>20 DEF Sigterm, watcher, world, Done
    <3>2. QED BY <3>1, <1>a DEF Done, Fault
  <2>2. pc' \in PC
    BY <1>20, <1>b DEF Sigterm, PC
  <2>3. complete' \in BOOLEAN /\ behind' \in BOOLEAN /\ forgot' \in BOOLEAN /\ stopping' \in {"no", "asked", "last"}
    BY <1>20, <1>c DEF Sigterm, watcher
  <2>4. reverting' \in BOOLEAN /\ was' \in BOOLEAN
    BY <1>20, <1>d DEF Sigterm, watcher, world
  <2>5. quiet' \in 0 .. After /\ blind' \in 0 .. After
    BY <1>20, <1>e DEF Sigterm, watcher, world
  <2>6. todo' \subseteq Target /\ unasked' \subseteq Target
    BY <1>20, <1>g DEF Sigterm, watcher, world
  <2>7. qbit' \in [alt : Value, mode : {0, 1}, own : {0, 1}] /\ sab' \in Value
    BY <1>20, <1>h, <1>k, <1>l DEF Sigterm, watcher, world, Value, StepInv, ClientInv, LowerInv, RestoreInv, Entry
  <2>8. weight' \in [Target -> Value] /\ state' \in [Target -> {"off", "on", "gone"}]
    BY <1>20, <1>g, <1>i, <1>k, <1>l DEF Sigterm, watcher, world, Value, StepInv, LowerInv, RestoreInv, Known
  <2>9. play' \in {"none", "fine", "stutter", "down"}
    BY <1>20, <1>j DEF Sigterm, watcher, world
  <2>10. applied' \in File /\ disk' \in File
    BY <1>20, <1>f, <1>g, <1>i, <1>k, <1>l, RecordGiven, WeightGiven, NotPending, EmptyFile DEF Sigterm, watcher, world, StepInv, ClientInv, LowerInv, RestoreInv
  <2>11. QED BY <2>1, <2>2, <2>3, <2>4, <2>5, <2>6, <2>7, <2>8, <2>9, <2>10 DEF TypeOK
<1>21. CASE Kill
  <2>1. faults' \in 0 .. MaxFault
    <3>1. Done \/ Fault
      BY <1>21 DEF Kill, End, Done
    <3>2. QED BY <3>1, <1>a DEF Done, Fault
  <2>2. pc' \in PC
    BY <1>21, <1>b DEF Kill, End, PC
  <2>3. complete' \in BOOLEAN /\ behind' \in BOOLEAN /\ forgot' \in BOOLEAN /\ stopping' \in {"no", "asked", "last"}
    BY <1>21, <1>c DEF Kill, End
  <2>4. reverting' \in BOOLEAN /\ was' \in BOOLEAN
    BY <1>21, <1>d DEF Kill, End
  <2>5. quiet' \in 0 .. After /\ blind' \in 0 .. After
    BY <1>21, <1>e DEF Kill, End
  <2>6. todo' \subseteq Target /\ unasked' \subseteq Target
    BY <1>21, <1>g DEF Kill, End
  <2>7. qbit' \in [alt : Value, mode : {0, 1}, own : {0, 1}] /\ sab' \in Value
    BY <1>21, <1>h, <1>k, <1>l DEF Kill, End, Value, StepInv, ClientInv, LowerInv, RestoreInv, Entry
  <2>8. weight' \in [Target -> Value] /\ state' \in [Target -> {"off", "on", "gone"}]
    <3>1. weight' \in {weight, [t \in Target |-> "own"]}
      BY <1>21 DEF Kill
    <3>2. state' \in {state, [t \in Target |-> IF state[t] = "on" /\ t \in Scope THEN "gone" ELSE state[t]]}
      BY <1>21 DEF Kill
    <3>3. QED BY <3>1, <3>2, <1>i DEF Value
  <2>9. play' \in {"none", "fine", "stutter", "down"}
    BY <1>21, <1>j DEF Kill, End
  <2>10. applied' \in File /\ disk' \in File
    BY <1>21, <1>f, <1>g, <1>i, <1>k, <1>l, RecordGiven, WeightGiven, NotPending, EmptyFile DEF Kill, End, StepInv, ClientInv, LowerInv, RestoreInv
  <2>11. QED BY <2>1, <2>2, <2>3, <2>4, <2>5, <2>6, <2>7, <2>8, <2>9, <2>10 DEF TypeOK
<1>22. CASE Viewers
  <2>1. faults' \in 0 .. MaxFault
    <3>1. Done \/ Fault
      BY <1>22 DEF Viewers, watcher, Done
    <3>2. QED BY <3>1, <1>a DEF Done, Fault
  <2>2. pc' \in PC
    BY <1>22, <1>b DEF Viewers, PC
  <2>3. complete' \in BOOLEAN /\ behind' \in BOOLEAN /\ forgot' \in BOOLEAN /\ stopping' \in {"no", "asked", "last"}
    BY <1>22, <1>c DEF Viewers, watcher
  <2>4. reverting' \in BOOLEAN /\ was' \in BOOLEAN
    BY <1>22, <1>d DEF Viewers, watcher
  <2>5. quiet' \in 0 .. After /\ blind' \in 0 .. After
    BY <1>22, <1>e DEF Viewers, watcher
  <2>6. todo' \subseteq Target /\ unasked' \subseteq Target
    BY <1>22, <1>g DEF Viewers, watcher
  <2>7. qbit' \in [alt : Value, mode : {0, 1}, own : {0, 1}] /\ sab' \in Value
    BY <1>22, <1>h, <1>k, <1>l DEF Viewers, watcher, Value, StepInv, ClientInv, LowerInv, RestoreInv, Entry
  <2>8. weight' \in [Target -> Value] /\ state' \in [Target -> {"off", "on", "gone"}]
    BY <1>22, <1>g, <1>i, <1>k, <1>l DEF Viewers, watcher, Value, StepInv, LowerInv, RestoreInv, Known
  <2>9. play' \in {"none", "fine", "stutter", "down"}
    BY <1>22, <1>j DEF Viewers, watcher
  <2>10. applied' \in File /\ disk' \in File
    BY <1>22, <1>f, <1>g, <1>i, <1>k, <1>l, RecordGiven, WeightGiven, NotPending, EmptyFile DEF Viewers, watcher, StepInv, ClientInv, LowerInv, RestoreInv
  <2>11. QED BY <2>1, <2>2, <2>3, <2>4, <2>5, <2>6, <2>7, <2>8, <2>9, <2>10 DEF TypeOK
<1>23. CASE Jobs
  <2>1. faults' \in 0 .. MaxFault
    <3>1. Done \/ Fault
      BY <1>23 DEF Jobs, watcher, Done
    <3>2. QED BY <3>1, <1>a DEF Done, Fault
  <2>2. pc' \in PC
    BY <1>23, <1>b DEF Jobs, PC
  <2>3. complete' \in BOOLEAN /\ behind' \in BOOLEAN /\ forgot' \in BOOLEAN /\ stopping' \in {"no", "asked", "last"}
    BY <1>23, <1>c DEF Jobs, watcher
  <2>4. reverting' \in BOOLEAN /\ was' \in BOOLEAN
    BY <1>23, <1>d DEF Jobs, watcher
  <2>5. quiet' \in 0 .. After /\ blind' \in 0 .. After
    BY <1>23, <1>e DEF Jobs, watcher
  <2>6. todo' \subseteq Target /\ unasked' \subseteq Target
    BY <1>23, <1>g DEF Jobs, watcher
  <2>7. qbit' \in [alt : Value, mode : {0, 1}, own : {0, 1}] /\ sab' \in Value
    BY <1>23, <1>h, <1>k, <1>l DEF Jobs, watcher, Value, StepInv, ClientInv, LowerInv, RestoreInv, Entry
  <2>8. weight' \in [Target -> Value] /\ state' \in [Target -> {"off", "on", "gone"}]
    BY <1>23, <1>g, <1>i, <1>k, <1>l DEF Jobs, watcher, Value, StepInv, LowerInv, RestoreInv, Known
  <2>9. play' \in {"none", "fine", "stutter", "down"}
    BY <1>23, <1>j DEF Jobs, watcher
  <2>10. applied' \in File /\ disk' \in File
    BY <1>23, <1>f, <1>g, <1>i, <1>k, <1>l, RecordGiven, WeightGiven, NotPending, EmptyFile DEF Jobs, watcher, StepInv, ClientInv, LowerInv, RestoreInv
  <2>11. QED BY <2>1, <2>2, <2>3, <2>4, <2>5, <2>6, <2>7, <2>8, <2>9, <2>10 DEF TypeOK
<1>24. QED
  BY <1>0, <1>1, <1>2, <1>3, <1>4, <1>5, <1>6, <1>7, <1>8, <1>9, <1>10, <1>11, <1>12, <1>13, <1>14, <1>15, <1>16, <1>17, <1>18, <1>19, <1>20, <1>21, <1>22, <1>23 DEF Next, Daemon, Apply, Revert

LEMMA ClientStep == IInv /\ [Next]_vars => ClientInv'
<1> SUFFICES ASSUME IInv, [Next]_vars PROVE ClientInv'
  OBVIOUS
<1>a. disk \in File /\ applied \in File
  BY DEF IInv, TypeOK
<1>b. applied.units \in [Target -> Value \cup {"no"}] /\ disk.units \in [Target -> Value \cup {"no"}]
  BY <1>a DEF File
<1>c. todo \subseteq Target /\ (todo # {} => First \in todo)
  BY FirstIsOne DEF IInv, TypeOK
<1>d. weight \in [Target -> Value] /\ state \in [Target -> {"off", "on", "gone"}]
  BY DEF IInv, TypeOK
<1>e. ClientInv /\ LowerInv /\ RestoreInv /\ GoneInv /\ OffInv /\ FileInv
  BY DEF IInv, StepInv
<1>0. CASE UNCHANGED vars
  BY <1>0, <1>e DEF vars, world, watcher, ClientInv
<1>1. CASE AskQbit
  <2>1. /\ pc' = "slow qbit" => applied.qbit # No \/ applied' = [applied EXCEPT !["qbit"] = New(qbit.mode, qbit.alt)]
        /\ applied' \in {applied, [applied EXCEPT !["qbit"] = New(qbit.mode, qbit.alt)]}
        /\ pc' \notin {"turn on", "turn off", "slow sab"}
    BY <1>1 DEF AskQbit, Ask
  <2>0. [applied EXCEPT !["qbit"] = New(qbit.mode, qbit.alt)].qbit # No
    BY <1>a, ClientGiven, NewIsNotNo
  <2>2. pc' = "slow qbit" => applied'.qbit # No
    BY <2>1, <2>0
  <2>3. QED BY <2>1, <2>2 DEF ClientInv
<1>2. CASE SlowQbit
  BY <1>2, <1>a, <1>e DEF SlowQbit, Step, NoSave, Incomplete, Applied, watcher, ClientInv, File, Entry
<1>3. CASE TurnOn
  BY <1>3, <1>a, <1>e DEF TurnOn, Step, NoSave, Incomplete, Applied, watcher, ClientInv, File, Entry
<1>4. CASE AskSab
  <2>1. /\ pc' = "slow sab" => applied.sab # No \/ applied' = [applied EXCEPT !["sab"] = New(0, sab)]
        /\ applied' \in {applied, [applied EXCEPT !["sab"] = New(0, sab)]}
        /\ pc' \notin {"turn on", "turn off", "slow qbit"}
    BY <1>4 DEF AskSab, Ask
  <2>0. [applied EXCEPT !["sab"] = New(0, sab)].sab # No
    BY <1>a, ClientGiven, NewIsNotNo
  <2>2. pc' = "slow sab" => applied'.sab # No
    BY <2>1, <2>0
  <2>3. QED BY <2>1, <2>2 DEF ClientInv
<1>5. CASE SlowSab
  BY <1>5, <1>a, <1>e DEF SlowSab, Step, NoSave, Incomplete, Applied, watcher, ClientInv, File, Entry
<1>6. CASE SaveDownloads
  BY <1>6, <1>a, <1>e DEF SaveDownloads, Step, Saves, SaveFails, watcher, ClientInv, File, Entry
<1>7. CASE LookUp
  BY <1>7, <1>a, <1>e DEF LookUp, Step, NoSave, Incomplete, IsActive, watcher, ClientInv, File, Entry
<1>8. CASE ReadWeights
  BY <1>8, <1>a, <1>e DEF ReadWeights, Step, NoSave, Saves, SaveFails, Incomplete, With, watcher, ClientInv, File, Entry
<1>9. CASE Lower
  BY <1>9, <1>a, <1>e DEF Lower, NoSave, Incomplete, With, watcher, ClientInv, File, Entry
<1>10. CASE EndApply
  BY <1>10, <1>a, <1>e DEF EndApply, Step, Saves, SaveFails, watcher, ClientInv, File, Entry
<1>11. CASE FreeQbit
  <2>1. /\ pc' \in {"free sab", "turn off"}
        /\ pc' = "turn off" => /\ applied' = applied /\ applied.qbit # No /\ applied.qbit.mode = 0
                               /\ qbit' = [qbit EXCEPT !.alt = applied.qbit.value]
    BY <1>11 DEF FreeQbit
  <2>2. qbit \in [alt : Value, mode : {0, 1}, own : {0, 1}]
    BY DEF IInv, TypeOK
  <2>3. QED BY <2>1, <2>2 DEF ClientInv
<1>12. CASE TurnOff
  BY <1>12, <1>a, <1>e DEF TurnOff, Step, NoSave, Forget, watcher, ClientInv, File, Entry
<1>13. CASE FreeSab
  BY <1>13, <1>a, <1>e DEF FreeSab, Step, NoSave, Forget, Known, watcher, ClientInv, File, Entry
<1>14. CASE Restore
  BY <1>14, <1>a, <1>e DEF Restore, Step, NoSave, With, watcher, ClientInv, File, Entry
<1>15. CASE EndRevert
  BY <1>15, <1>a, <1>e DEF EndRevert, Saves, SaveFails, End, active, world, ClientInv, File, Entry
<1>16. CASE Start
  BY <1>16, <1>a, <1>e DEF Start, Begin, watcher, world, ClientInv, File, Entry
<1>17. CASE Poll
  BY <1>17, <1>a, <1>e DEF Poll, Update, Decide, Begin, Reverts, active, world, ClientInv, File, Entry
<1>18. CASE PollFails
  BY <1>18, <1>a, <1>e DEF PollFails, Begin, Reverts, active, world, ClientInv, File, Entry
<1>19. CASE Stopped
  BY <1>19, <1>a, <1>e DEF Stopped, Begin, End, active, watcher, world, ClientInv, File, Entry
<1>20. CASE Sigterm
  BY <1>20, <1>a, <1>e DEF Sigterm, watcher, world, ClientInv, File, Entry
<1>21. CASE Kill
  BY <1>21, <1>a, <1>e DEF Kill, End, ClientInv, File, Entry
<1>22. CASE Viewers
  BY <1>22, <1>a, <1>e DEF Viewers, watcher, ClientInv, File, Entry
<1>23. CASE Jobs
  BY <1>23, <1>a, <1>e DEF Jobs, watcher, ClientInv, File, Entry
<1>24. QED
  BY <1>0, <1>1, <1>2, <1>3, <1>4, <1>5, <1>6, <1>7, <1>8, <1>9, <1>10, <1>11, <1>12, <1>13, <1>14, <1>15, <1>16, <1>17, <1>18, <1>19, <1>20, <1>21, <1>22, <1>23 DEF Next, Daemon, Apply, Revert

LEMMA RestoreStep == IInv /\ [Next]_vars => RestoreInv'
<1> SUFFICES ASSUME IInv, [Next]_vars PROVE RestoreInv'
  OBVIOUS
<1>a. disk \in File /\ applied \in File
  BY DEF IInv, TypeOK
<1>b. applied.units \in [Target -> Value \cup {"no"}] /\ disk.units \in [Target -> Value \cup {"no"}]
  BY <1>a DEF File
<1>c. todo \subseteq Target /\ (todo # {} => First \in todo)
  BY FirstIsOne DEF IInv, TypeOK
<1>d. weight \in [Target -> Value] /\ state \in [Target -> {"off", "on", "gone"}]
  BY DEF IInv, TypeOK
<1>e. ClientInv /\ LowerInv /\ RestoreInv /\ GoneInv /\ OffInv /\ FileInv
  BY DEF IInv, StepInv
<1>0. CASE UNCHANGED vars
  BY <1>0, <1>e DEF vars, world, watcher, RestoreInv, Known
<1>1. CASE AskQbit
  BY <1>1, <1>a, <1>b, <1>c, <1>e DEF AskQbit, Ask, Step, NoSave, Saves, SaveFails, Incomplete, watcher, RestoreInv, Known
<1>2. CASE SlowQbit
  BY <1>2, <1>a, <1>b, <1>c, <1>e DEF SlowQbit, Step, NoSave, Incomplete, Applied, watcher, RestoreInv, Known
<1>3. CASE TurnOn
  BY <1>3, <1>a, <1>b, <1>c, <1>e DEF TurnOn, Step, NoSave, Incomplete, Applied, watcher, RestoreInv, Known
<1>4. CASE AskSab
  BY <1>4, <1>a, <1>b, <1>c, <1>e DEF AskSab, Ask, Step, NoSave, Saves, SaveFails, Incomplete, watcher, RestoreInv, Known
<1>5. CASE SlowSab
  BY <1>5, <1>a, <1>b, <1>c, <1>e DEF SlowSab, Step, NoSave, Incomplete, Applied, watcher, RestoreInv, Known
<1>6. CASE SaveDownloads
  BY <1>6, <1>a, <1>b, <1>c, <1>e DEF SaveDownloads, Step, Saves, SaveFails, watcher, RestoreInv, Known
<1>7. CASE LookUp
  BY <1>7, <1>a, <1>b, <1>c, <1>e DEF LookUp, Step, NoSave, Incomplete, IsActive, watcher, RestoreInv, Known
<1>8. CASE ReadWeights
  BY <1>8, <1>a, <1>b, <1>c, <1>e DEF ReadWeights, Step, NoSave, Saves, SaveFails, Incomplete, With, watcher, RestoreInv, Known
<1>9. CASE Lower
  BY <1>9, <1>a, <1>b, <1>c, <1>e DEF Lower, NoSave, Incomplete, With, watcher, RestoreInv, Known
<1>10. CASE EndApply
  BY <1>10, <1>a, <1>b, <1>c, <1>e DEF EndApply, Step, Saves, SaveFails, watcher, RestoreInv, Known
<1>11. CASE FreeQbit
  BY <1>11, <1>a, <1>b, <1>c, <1>e DEF FreeQbit, Step, NoSave, Forget, watcher, RestoreInv, Known
<1>12. CASE TurnOff
  BY <1>12, <1>a, <1>b, <1>c, <1>e DEF TurnOff, Step, NoSave, Forget, watcher, RestoreInv, Known
<1>13. CASE FreeSab
  <2>1. applied' \in {applied, Forget("sab")} /\ todo' = Known(applied)
    BY <1>13 DEF FreeSab
  <2>2. applied'.units = applied.units
    BY <2>1, <1>a, Forgotten
  <2>3. QED BY <2>1, <2>2 DEF RestoreInv, Known
<1>14. CASE Restore
  <2>1. applied' \in {applied, With(First, "no")} /\ todo' = todo \ {First} /\ pc = "restore" /\ First \in Target
    BY <1>14, <1>c DEF Restore, Step
  <2>2. \A t \in Target \ {First} : applied'.units[t] = applied.units[t]
    BY <2>1, <1>a, TargetGiven
  <2>3. QED BY <2>1, <2>2, <1>c, <1>e DEF RestoreInv, Known
<1>15. CASE EndRevert
  BY <1>15, <1>a, <1>b, <1>c, <1>e DEF EndRevert, Saves, SaveFails, End, active, world, RestoreInv, Known
<1>16. CASE Start
  BY <1>16, <1>a, <1>b, <1>c, <1>e DEF Start, Begin, watcher, world, RestoreInv, Known
<1>17. CASE Poll
  BY <1>17, <1>a, <1>b, <1>c, <1>e DEF Poll, Update, Decide, Begin, Reverts, active, world, RestoreInv, Known
<1>18. CASE PollFails
  BY <1>18, <1>a, <1>b, <1>c, <1>e DEF PollFails, Begin, Reverts, active, world, RestoreInv, Known
<1>19. CASE Stopped
  BY <1>19, <1>a, <1>b, <1>c, <1>e DEF Stopped, Begin, End, active, watcher, world, RestoreInv, Known
<1>20. CASE Sigterm
  BY <1>20, <1>a, <1>b, <1>c, <1>e DEF Sigterm, watcher, world, RestoreInv, Known
<1>21. CASE Kill
  BY <1>21, <1>a, <1>b, <1>c, <1>e DEF Kill, End, RestoreInv, Known
<1>22. CASE Viewers
  BY <1>22, <1>a, <1>b, <1>c, <1>e DEF Viewers, watcher, RestoreInv, Known
<1>23. CASE Jobs
  BY <1>23, <1>a, <1>b, <1>c, <1>e DEF Jobs, watcher, RestoreInv, Known
<1>24. QED
  BY <1>0, <1>1, <1>2, <1>3, <1>4, <1>5, <1>6, <1>7, <1>8, <1>9, <1>10, <1>11, <1>12, <1>13, <1>14, <1>15, <1>16, <1>17, <1>18, <1>19, <1>20, <1>21, <1>22, <1>23 DEF Next, Daemon, Apply, Revert

LEMMA GoneStep == IInv /\ [Next]_vars => GoneInv'
<1> SUFFICES ASSUME IInv, [Next]_vars PROVE GoneInv'
  OBVIOUS
<1>a. disk \in File /\ applied \in File
  BY DEF IInv, TypeOK
<1>b. applied.units \in [Target -> Value \cup {"no"}] /\ disk.units \in [Target -> Value \cup {"no"}]
  BY <1>a DEF File
<1>c. todo \subseteq Target /\ (todo # {} => First \in todo)
  BY FirstIsOne DEF IInv, TypeOK
<1>d. weight \in [Target -> Value] /\ state \in [Target -> {"off", "on", "gone"}]
  BY DEF IInv, TypeOK
<1>e. ClientInv /\ LowerInv /\ RestoreInv /\ GoneInv /\ OffInv /\ FileInv
  BY DEF IInv, StepInv
<1>0. CASE UNCHANGED vars
  BY <1>0, <1>e DEF vars, world, watcher, GoneInv
<1>1. CASE AskQbit
  BY <1>1, <1>c, <1>d, <1>e DEF AskQbit, Ask, Step, NoSave, Saves, SaveFails, Incomplete, watcher, GoneInv
<1>2. CASE SlowQbit
  BY <1>2, <1>c, <1>d, <1>e DEF SlowQbit, Step, NoSave, Incomplete, Applied, watcher, GoneInv
<1>3. CASE TurnOn
  BY <1>3, <1>c, <1>d, <1>e DEF TurnOn, Step, NoSave, Incomplete, Applied, watcher, GoneInv
<1>4. CASE AskSab
  BY <1>4, <1>c, <1>d, <1>e DEF AskSab, Ask, Step, NoSave, Saves, SaveFails, Incomplete, watcher, GoneInv
<1>5. CASE SlowSab
  BY <1>5, <1>c, <1>d, <1>e DEF SlowSab, Step, NoSave, Incomplete, Applied, watcher, GoneInv
<1>6. CASE SaveDownloads
  BY <1>6, <1>c, <1>d, <1>e DEF SaveDownloads, Step, Saves, SaveFails, watcher, GoneInv
<1>7. CASE LookUp
  BY <1>7, <1>c, <1>d, <1>e DEF LookUp, Step, NoSave, Incomplete, IsActive, watcher, GoneInv
<1>8. CASE ReadWeights
  BY <1>8, <1>c, <1>d, <1>e DEF ReadWeights, Step, NoSave, Saves, SaveFails, Incomplete, With, watcher, GoneInv
<1>9. CASE Lower
  BY <1>9, <1>c, <1>d, <1>e DEF Lower, NoSave, Incomplete, With, watcher, GoneInv
<1>10. CASE EndApply
  BY <1>10, <1>c, <1>d, <1>e DEF EndApply, Step, Saves, SaveFails, watcher, GoneInv
<1>11. CASE FreeQbit
  BY <1>11, <1>c, <1>d, <1>e DEF FreeQbit, Step, NoSave, Forget, watcher, GoneInv
<1>12. CASE TurnOff
  BY <1>12, <1>c, <1>d, <1>e DEF TurnOff, Step, NoSave, Forget, watcher, GoneInv
<1>13. CASE FreeSab
  BY <1>13, <1>c, <1>d, <1>e DEF FreeSab, Step, NoSave, Forget, Known, watcher, GoneInv
<1>14. CASE Restore
  BY <1>14, <1>c, <1>d, <1>e DEF Restore, Step, NoSave, With, watcher, GoneInv
<1>15. CASE EndRevert
  BY <1>15, <1>c, <1>d, <1>e DEF EndRevert, Saves, SaveFails, End, active, world, GoneInv
<1>16. CASE Start
  BY <1>16, <1>c, <1>d, <1>e DEF Start, Begin, watcher, world, GoneInv
<1>17. CASE Poll
  BY <1>17, <1>c, <1>d, <1>e DEF Poll, Update, Decide, Begin, Reverts, active, world, GoneInv
<1>18. CASE PollFails
  BY <1>18, <1>c, <1>d, <1>e DEF PollFails, Begin, Reverts, active, world, GoneInv
<1>19. CASE Stopped
  BY <1>19, <1>c, <1>d, <1>e DEF Stopped, Begin, End, active, watcher, world, GoneInv
<1>20. CASE Sigterm
  BY <1>20, <1>c, <1>d, <1>e DEF Sigterm, watcher, world, GoneInv
<1>21. CASE Kill
  BY <1>21, <1>c, <1>d, <1>e DEF Kill, End, GoneInv
<1>22. CASE Viewers
  BY <1>22, <1>c, <1>d, <1>e DEF Viewers, watcher, GoneInv
<1>23. CASE Jobs
  BY <1>23, <1>c, <1>d, <1>e DEF Jobs, watcher, GoneInv
<1>24. QED
  BY <1>0, <1>1, <1>2, <1>3, <1>4, <1>5, <1>6, <1>7, <1>8, <1>9, <1>10, <1>11, <1>12, <1>13, <1>14, <1>15, <1>16, <1>17, <1>18, <1>19, <1>20, <1>21, <1>22, <1>23 DEF Next, Daemon, Apply, Revert

LEMMA OffStep == IInv /\ [Next]_vars => OffInv'
<1> SUFFICES ASSUME IInv, [Next]_vars PROVE OffInv'
  OBVIOUS
<1>a. disk \in File /\ applied \in File
  BY DEF IInv, TypeOK
<1>b. applied.units \in [Target -> Value \cup {"no"}] /\ disk.units \in [Target -> Value \cup {"no"}]
  BY <1>a DEF File
<1>c. todo \subseteq Target /\ (todo # {} => First \in todo)
  BY FirstIsOne DEF IInv, TypeOK
<1>d. weight \in [Target -> Value] /\ state \in [Target -> {"off", "on", "gone"}]
  BY DEF IInv, TypeOK
<1>e. ClientInv /\ LowerInv /\ RestoreInv /\ GoneInv /\ OffInv /\ FileInv
  BY DEF IInv, StepInv
<1>0. CASE UNCHANGED vars
  BY <1>0, <1>e DEF vars, world, watcher, OffInv
<1>1. CASE AskQbit
  BY <1>1, <1>e DEF AskQbit, Ask, Step, NoSave, Saves, SaveFails, Incomplete, watcher, OffInv
<1>2. CASE SlowQbit
  BY <1>2, <1>e DEF SlowQbit, Step, NoSave, Incomplete, Applied, watcher, OffInv
<1>3. CASE TurnOn
  BY <1>3, <1>e DEF TurnOn, Step, NoSave, Incomplete, Applied, watcher, OffInv
<1>4. CASE AskSab
  BY <1>4, <1>e DEF AskSab, Ask, Step, NoSave, Saves, SaveFails, Incomplete, watcher, OffInv
<1>5. CASE SlowSab
  BY <1>5, <1>e DEF SlowSab, Step, NoSave, Incomplete, Applied, watcher, OffInv
<1>6. CASE SaveDownloads
  BY <1>6, <1>e DEF SaveDownloads, Step, Saves, SaveFails, watcher, OffInv
<1>7. CASE LookUp
  BY <1>7, <1>e DEF LookUp, Step, NoSave, Incomplete, IsActive, watcher, OffInv
<1>8. CASE ReadWeights
  BY <1>8, <1>e DEF ReadWeights, Step, NoSave, Saves, SaveFails, Incomplete, With, watcher, OffInv
<1>9. CASE Lower
  BY <1>9, <1>e DEF Lower, NoSave, Incomplete, With, watcher, OffInv
<1>10. CASE EndApply
  BY <1>10, <1>e DEF EndApply, Step, Saves, SaveFails, watcher, OffInv
<1>11. CASE FreeQbit
  BY <1>11, <1>e DEF FreeQbit, Step, NoSave, Forget, watcher, OffInv
<1>12. CASE TurnOff
  BY <1>12, <1>e DEF TurnOff, Step, NoSave, Forget, watcher, OffInv
<1>13. CASE FreeSab
  BY <1>13, <1>e DEF FreeSab, Step, NoSave, Forget, Known, watcher, OffInv
<1>14. CASE Restore
  BY <1>14, <1>e DEF Restore, Step, NoSave, With, watcher, OffInv
<1>15. CASE EndRevert
  BY <1>15, <1>e DEF EndRevert, Saves, SaveFails, End, active, world, OffInv
<1>16. CASE Start
  BY <1>16, <1>e DEF Start, Begin, watcher, world, OffInv
<1>17. CASE Poll
  BY <1>17, <1>e DEF Poll, Update, Decide, Begin, Reverts, active, world, OffInv
<1>18. CASE PollFails
  BY <1>18, <1>e DEF PollFails, Begin, Reverts, active, world, OffInv
<1>19. CASE Stopped
  BY <1>19, <1>e DEF Stopped, Begin, End, active, watcher, world, OffInv
<1>20. CASE Sigterm
  BY <1>20, <1>e DEF Sigterm, watcher, world, OffInv
<1>21. CASE Kill
  BY <1>21, <1>e DEF Kill, End, OffInv
<1>22. CASE Viewers
  BY <1>22, <1>e DEF Viewers, watcher, OffInv
<1>23. CASE Jobs
  BY <1>23, <1>e DEF Jobs, watcher, OffInv
<1>24. QED
  BY <1>0, <1>1, <1>2, <1>3, <1>4, <1>5, <1>6, <1>7, <1>8, <1>9, <1>10, <1>11, <1>12, <1>13, <1>14, <1>15, <1>16, <1>17, <1>18, <1>19, <1>20, <1>21, <1>22, <1>23 DEF Next, Daemon, Apply, Revert

LEMMA LowerStep == IInv /\ [Next]_vars => LowerInv'
<1> SUFFICES ASSUME IInv, [Next]_vars PROVE LowerInv'
  OBVIOUS
<1>a. disk \in File /\ applied \in File
  BY DEF IInv, TypeOK
<1>b. applied.units \in [Target -> Value \cup {"no"}] /\ disk.units \in [Target -> Value \cup {"no"}]
  BY <1>a DEF File
<1>c. todo \subseteq Target /\ (todo # {} => First \in todo)
  BY FirstIsOne DEF IInv, TypeOK
<1>d. weight \in [Target -> Value] /\ state \in [Target -> {"off", "on", "gone"}]
  BY DEF IInv, TypeOK
<1>e. ClientInv /\ LowerInv /\ RestoreInv /\ GoneInv /\ OffInv /\ FileInv
  BY DEF IInv, StepInv
<1>0. CASE UNCHANGED vars
  BY <1>0, <1>e DEF vars, world, watcher, LowerInv, First
<1>1. CASE AskQbit
  BY <1>1, <1>a, <1>b, <1>c, <1>e DEF AskQbit, Ask, Step, NoSave, Saves, SaveFails, Incomplete, watcher, LowerInv, First
<1>2. CASE SlowQbit
  BY <1>2, <1>a, <1>b, <1>c, <1>e DEF SlowQbit, Step, NoSave, Incomplete, Applied, watcher, LowerInv, First
<1>3. CASE TurnOn
  BY <1>3, <1>a, <1>b, <1>c, <1>e DEF TurnOn, Step, NoSave, Incomplete, Applied, watcher, LowerInv, First
<1>4. CASE AskSab
  BY <1>4, <1>a, <1>b, <1>c, <1>e DEF AskSab, Ask, Step, NoSave, Saves, SaveFails, Incomplete, watcher, LowerInv, First
<1>5. CASE SlowSab
  BY <1>5, <1>a, <1>b, <1>c, <1>e DEF SlowSab, Step, NoSave, Incomplete, Applied, watcher, LowerInv, First
<1>6. CASE SaveDownloads
  BY <1>6, <1>a, <1>b, <1>c, <1>e DEF SaveDownloads, Step, Saves, SaveFails, watcher, LowerInv, First
<1>7. CASE LookUp
  BY <1>7, <1>a, <1>b, <1>c, <1>e DEF LookUp, Step, NoSave, Incomplete, IsActive, watcher, LowerInv, First
<1>8. CASE ReadWeights
  <2>1. /\ todo # {} /\ First \in Target
        /\ pc' = "lower" => todo' = todo /\ applied' = With(First, weight[First])
    BY <1>8, <1>c DEF ReadWeights, Step
  <2>2. pc' = "lower" => applied'.units[First] = weight[First] /\ weight[First] # "no"
    BY <2>1, <1>a, <1>d, TargetGiven DEF Value
  <2>3. QED BY <2>1, <2>2 DEF LowerInv, First
<1>9. CASE Lower
  BY <1>9, <1>a, <1>b, <1>c, <1>e DEF Lower, NoSave, Incomplete, With, watcher, LowerInv, First
<1>10. CASE EndApply
  BY <1>10, <1>a, <1>b, <1>c, <1>e DEF EndApply, Step, Saves, SaveFails, watcher, LowerInv, First
<1>11. CASE FreeQbit
  BY <1>11, <1>a, <1>b, <1>c, <1>e DEF FreeQbit, Step, NoSave, Forget, watcher, LowerInv, First
<1>12. CASE TurnOff
  BY <1>12, <1>a, <1>b, <1>c, <1>e DEF TurnOff, Step, NoSave, Forget, watcher, LowerInv, First
<1>13. CASE FreeSab
  BY <1>13, <1>a, <1>b, <1>c, <1>e DEF FreeSab, Step, NoSave, Forget, Known, watcher, LowerInv, First
<1>14. CASE Restore
  BY <1>14, <1>a, <1>b, <1>c, <1>e DEF Restore, Step, NoSave, With, watcher, LowerInv, First
<1>15. CASE EndRevert
  BY <1>15, <1>a, <1>b, <1>c, <1>e DEF EndRevert, Saves, SaveFails, End, active, world, LowerInv, First
<1>16. CASE Start
  BY <1>16, <1>a, <1>b, <1>c, <1>e DEF Start, Begin, watcher, world, LowerInv, First
<1>17. CASE Poll
  BY <1>17, <1>a, <1>b, <1>c, <1>e DEF Poll, Update, Decide, Begin, Reverts, active, world, LowerInv, First
<1>18. CASE PollFails
  BY <1>18, <1>a, <1>b, <1>c, <1>e DEF PollFails, Begin, Reverts, active, world, LowerInv, First
<1>19. CASE Stopped
  BY <1>19, <1>a, <1>b, <1>c, <1>e DEF Stopped, Begin, End, active, watcher, world, LowerInv, First
<1>20. CASE Sigterm
  BY <1>20, <1>a, <1>b, <1>c, <1>e DEF Sigterm, watcher, world, LowerInv, First
<1>21. CASE Kill
  BY <1>21, <1>a, <1>b, <1>c, <1>e DEF Kill, End, LowerInv, First
<1>22. CASE Viewers
  BY <1>22, <1>a, <1>b, <1>c, <1>e DEF Viewers, watcher, LowerInv, First
<1>23. CASE Jobs
  BY <1>23, <1>a, <1>b, <1>c, <1>e DEF Jobs, watcher, LowerInv, First
<1>24. QED
  BY <1>0, <1>1, <1>2, <1>3, <1>4, <1>5, <1>6, <1>7, <1>8, <1>9, <1>10, <1>11, <1>12, <1>13, <1>14, <1>15, <1>16, <1>17, <1>18, <1>19, <1>20, <1>21, <1>22, <1>23 DEF Next, Daemon, Apply, Revert

LEMMA FileStep == IInv /\ [Next]_vars => FileInv'
<1> SUFFICES ASSUME IInv, [Next]_vars PROVE FileInv'
  OBVIOUS
<1>a. disk \in File /\ applied \in File
  BY DEF IInv, TypeOK
<1>b. applied.units \in [Target -> Value \cup {"no"}] /\ disk.units \in [Target -> Value \cup {"no"}]
  BY <1>a DEF File
<1>c. todo \subseteq Target /\ (todo # {} => First \in todo)
  BY FirstIsOne DEF IInv, TypeOK
<1>d. weight \in [Target -> Value] /\ state \in [Target -> {"off", "on", "gone"}]
  BY DEF IInv, TypeOK
<1>e. ClientInv /\ LowerInv /\ RestoreInv /\ GoneInv /\ OffInv /\ FileInv
  BY DEF IInv, StepInv
<1>0. CASE UNCHANGED vars
  BY <1>0, <1>e DEF vars, world, watcher, FileInv, Within
<1>1. CASE AskQbit
  BY <1>1, <1>a, <1>e DEF AskQbit, Ask, Step, NoSave, Saves, SaveFails, Incomplete, watcher, FileInv, Within
<1>2. CASE SlowQbit
  <2>1. applied' \in {applied, Applied("qbit")} /\ UNCHANGED <<disk, behind>>
    BY <1>2 DEF SlowQbit, NoSave
  <2>2. Within(Applied("qbit"), applied)
    BY <1>2, <1>a, <1>e, Lesser DEF SlowQbit, Step, ClientInv
  <2>3. QED BY <2>1, <2>2, <1>e DEF FileInv, Within
<1>3. CASE TurnOn
  <2>1. applied' \in {applied, Applied("qbit")} /\ UNCHANGED <<disk, behind>>
    BY <1>3 DEF TurnOn, NoSave
  <2>2. Within(Applied("qbit"), applied)
    BY <1>3, <1>a, <1>e, Lesser DEF TurnOn, Step, ClientInv
  <2>3. QED BY <2>1, <2>2, <1>e DEF FileInv, Within
<1>4. CASE AskSab
  BY <1>4, <1>a, <1>e DEF AskSab, Ask, Step, NoSave, Saves, SaveFails, Incomplete, watcher, FileInv, Within
<1>5. CASE SlowSab
  <2>1. applied' \in {applied, Applied("sab")} /\ UNCHANGED <<disk, behind>>
    BY <1>5 DEF SlowSab, NoSave
  <2>2. Within(Applied("sab"), applied)
    BY <1>5, <1>a, <1>e, Lesser DEF SlowSab, Step, ClientInv
  <2>3. QED BY <2>1, <2>2, <1>e DEF FileInv, Within
<1>6. CASE SaveDownloads
  BY <1>6, <1>a, <1>e DEF SaveDownloads, Step, Saves, SaveFails, watcher, FileInv, Within
<1>7. CASE LookUp
  BY <1>7, <1>a, <1>e DEF LookUp, Step, NoSave, Incomplete, IsActive, watcher, FileInv, Within
<1>8. CASE ReadWeights
  BY <1>8, <1>a, <1>e DEF ReadWeights, Step, NoSave, Saves, SaveFails, Incomplete, With, watcher, FileInv, Within
<1>9. CASE Lower
  <2>1. applied' \in {applied, With(First, "no")} /\ UNCHANGED <<disk, behind>>
    BY <1>9 DEF Lower, NoSave
  <2>2. Within(With(First, "no"), applied)
    BY <1>9, <1>a, <1>c, <1>e, Lesser DEF Lower, LowerInv
  <2>3. QED BY <2>1, <2>2, <1>e DEF FileInv, Within
<1>10. CASE EndApply
  BY <1>10, <1>a, <1>e DEF EndApply, Step, Saves, SaveFails, watcher, FileInv, Within
<1>11. CASE FreeQbit
  <2>1. applied' \in {applied, Forget("qbit")} /\ UNCHANGED <<disk, behind>>
    BY <1>11 DEF FreeQbit, NoSave
  <2>2. Within(Forget("qbit"), applied)
    BY <1>a, Lesser
  <2>3. QED BY <2>1, <2>2, <1>e DEF FileInv, Within
<1>12. CASE TurnOff
  <2>1. applied' \in {applied, Forget("qbit")} /\ UNCHANGED <<disk, behind>>
    BY <1>12 DEF TurnOff, NoSave
  <2>2. Within(Forget("qbit"), applied)
    BY <1>a, Lesser
  <2>3. QED BY <2>1, <2>2, <1>e DEF FileInv, Within
<1>13. CASE FreeSab
  <2>1. applied' \in {applied, Forget("sab")} /\ UNCHANGED <<disk, behind>>
    BY <1>13 DEF FreeSab, NoSave
  <2>2. Within(Forget("sab"), applied)
    BY <1>a, Lesser
  <2>3. QED BY <2>1, <2>2, <1>e DEF FileInv, Within
<1>14. CASE Restore
  <2>1. applied' \in {applied, With(First, "no")} /\ UNCHANGED <<disk, behind>>
    BY <1>14 DEF Restore, NoSave
  <2>2. Within(With(First, "no"), applied)
    BY <1>14, <1>a, <1>c, Lesser DEF Restore
  <2>3. QED BY <2>1, <2>2, <1>e DEF FileInv, Within
<1>15. CASE EndRevert
  <2>1. \/ disk' = applied /\ applied' \in {applied, Empty}
        \/ behind' = TRUE
        \/ applied' = Empty
    BY <1>15 DEF EndRevert, Saves, SaveFails, End
  <2>2. QED BY <2>1, <1>a, Lesser DEF FileInv, Within, Empty
<1>16. CASE Start
  BY <1>16, <1>a, <1>e DEF Start, Begin, watcher, world, FileInv, Within
<1>17. CASE Poll
  BY <1>17, <1>a, <1>e DEF Poll, Update, Decide, Begin, Reverts, active, world, FileInv, Within
<1>18. CASE PollFails
  BY <1>18, <1>a, <1>e DEF PollFails, Begin, Reverts, active, world, FileInv, Within
<1>19. CASE Stopped
  <2>1. applied' = Empty \/ UNCHANGED <<applied, disk, behind>>
    BY <1>19 DEF Stopped, End
  <2>2. QED BY <2>1, <1>e DEF FileInv, Within, Empty
<1>20. CASE Sigterm
  BY <1>20, <1>a, <1>e DEF Sigterm, watcher, world, FileInv, Within
<1>21. CASE Kill
  <2>1. applied' = Empty
    BY <1>21 DEF Kill, End
  <2>2. QED BY <2>1 DEF FileInv, Within, Empty
<1>22. CASE Viewers
  BY <1>22, <1>a, <1>e DEF Viewers, watcher, FileInv, Within
<1>23. CASE Jobs
  BY <1>23, <1>a, <1>e DEF Jobs, watcher, FileInv, Within
<1>24. QED
  BY <1>0, <1>1, <1>2, <1>3, <1>4, <1>5, <1>6, <1>7, <1>8, <1>9, <1>10, <1>11, <1>12, <1>13, <1>14, <1>15, <1>16, <1>17, <1>18, <1>19, <1>20, <1>21, <1>22, <1>23 DEF Next, Daemon, Apply, Revert

LEMMA ForgotStep == IInv /\ [Next]_vars => (forgot => forgot')
<1> SUFFICES ASSUME IInv, [Next]_vars PROVE (forgot => forgot')
  OBVIOUS
<1>0. CASE UNCHANGED vars
  BY <1>0 DEF vars
<1>1. CASE AskQbit
  BY <1>1 DEF AskQbit, Ask, Step, NoSave, Saves, SaveFails, Incomplete, watcher
<1>2. CASE SlowQbit
  BY <1>2 DEF SlowQbit, Step, NoSave, Incomplete, Applied, watcher
<1>3. CASE TurnOn
  BY <1>3 DEF TurnOn, Step, NoSave, Incomplete, Applied, watcher
<1>4. CASE AskSab
  BY <1>4 DEF AskSab, Ask, Step, NoSave, Saves, SaveFails, Incomplete, watcher
<1>5. CASE SlowSab
  BY <1>5 DEF SlowSab, Step, NoSave, Incomplete, Applied, watcher
<1>6. CASE SaveDownloads
  BY <1>6 DEF SaveDownloads, Step, Saves, SaveFails, watcher
<1>7. CASE LookUp
  BY <1>7 DEF LookUp, Step, NoSave, Incomplete, IsActive, watcher
<1>8. CASE ReadWeights
  BY <1>8 DEF ReadWeights, Step, NoSave, Saves, SaveFails, Incomplete, With, watcher
<1>9. CASE Lower
  BY <1>9 DEF Lower, NoSave, Incomplete, With, watcher
<1>10. CASE EndApply
  BY <1>10 DEF EndApply, Step, Saves, SaveFails, watcher
<1>11. CASE FreeQbit
  BY <1>11 DEF FreeQbit, Step, NoSave, Forget, watcher
<1>12. CASE TurnOff
  BY <1>12 DEF TurnOff, Step, NoSave, Forget, watcher
<1>13. CASE FreeSab
  BY <1>13 DEF FreeSab, Step, NoSave, Forget, Known, watcher
<1>14. CASE Restore
  BY <1>14 DEF Restore, Step, NoSave, With, watcher
<1>15. CASE EndRevert
  BY <1>15 DEF EndRevert, Saves, SaveFails, End, active, world
<1>16. CASE Start
  BY <1>16 DEF Start, Begin, watcher, world
<1>17. CASE Poll
  BY <1>17 DEF Poll, Update, Decide, Begin, Reverts, active, world
<1>18. CASE PollFails
  BY <1>18 DEF PollFails, Begin, Reverts, active, world
<1>19. CASE Stopped
  BY <1>19 DEF Stopped, Begin, End, active, watcher, world
<1>20. CASE Sigterm
  BY <1>20 DEF Sigterm, watcher, world
<1>21. CASE Kill
  BY <1>21 DEF Kill, End
<1>22. CASE Viewers
  BY <1>22 DEF Viewers, watcher
<1>23. CASE Jobs
  BY <1>23 DEF Jobs, watcher
<1>24. QED
  BY <1>0, <1>1, <1>2, <1>3, <1>4, <1>5, <1>6, <1>7, <1>8, <1>9, <1>10, <1>11, <1>12, <1>13, <1>14, <1>15, <1>16, <1>17, <1>18, <1>19, <1>20, <1>21, <1>22, <1>23 DEF Next, Daemon, Apply, Revert

LEMMA ModeStep == IInv /\ [Next]_vars => (~forgot' => (qbit.own = 1 => qbit.mode = 1)')
<1> SUFFICES ASSUME IInv, [Next]_vars PROVE (~forgot' => (qbit.own = 1 => qbit.mode = 1)')
  OBVIOUS
<1>a. disk \in File /\ applied \in File
  BY DEF IInv, TypeOK
<1>b. applied.units \in [Target -> Value \cup {"no"}] /\ disk.units \in [Target -> Value \cup {"no"}]
  BY <1>a DEF File
<1>c. todo \subseteq Target /\ (todo # {} => First \in todo)
  BY FirstIsOne DEF IInv, TypeOK
<1>d. weight \in [Target -> Value] /\ state \in [Target -> {"off", "on", "gone"}]
  BY DEF IInv, TypeOK
<1>e. ClientInv /\ LowerInv /\ RestoreInv /\ GoneInv /\ OffInv /\ FileInv
  BY DEF IInv, StepInv
<1>s. ~forgot' => OwnersValues(disk) /\ OwnersValues(applied) /\ Covers(Memory) /\ Unlowered /\ (qbit.own = 1 => qbit.mode = 1)
  BY ForgotStep DEF IInv, Sound
<1>q. qbit \in [alt : Value, mode : {0, 1}, own : {0, 1}] /\ sab \in Value /\ unasked \subseteq Target
  BY DEF IInv, TypeOK
<1>0. CASE UNCHANGED vars
  BY <1>0, <1>s DEF vars, world
<1>1. CASE AskQbit
  BY <1>1, <1>e, <1>q, <1>s DEF AskQbit, Ask, Step, NoSave, Saves, SaveFails, Incomplete, watcher, OwnersValues, ClientInv
<1>2. CASE SlowQbit
  BY <1>2, <1>e, <1>q, <1>s DEF SlowQbit, Step, NoSave, Incomplete, Applied, watcher, OwnersValues, ClientInv
<1>3. CASE TurnOn
  BY <1>3, <1>e, <1>q, <1>s DEF TurnOn, Step, NoSave, Incomplete, Applied, watcher, OwnersValues, ClientInv
<1>4. CASE AskSab
  BY <1>4, <1>e, <1>q, <1>s DEF AskSab, Ask, Step, NoSave, Saves, SaveFails, Incomplete, watcher, OwnersValues, ClientInv
<1>5. CASE SlowSab
  BY <1>5, <1>e, <1>q, <1>s DEF SlowSab, Step, NoSave, Incomplete, Applied, watcher, OwnersValues, ClientInv
<1>6. CASE SaveDownloads
  BY <1>6, <1>e, <1>q, <1>s DEF SaveDownloads, Step, Saves, SaveFails, watcher, OwnersValues, ClientInv
<1>7. CASE LookUp
  BY <1>7, <1>e, <1>q, <1>s DEF LookUp, Step, NoSave, Incomplete, IsActive, watcher, OwnersValues, ClientInv
<1>8. CASE ReadWeights
  BY <1>8, <1>e, <1>q, <1>s DEF ReadWeights, Step, NoSave, Saves, SaveFails, Incomplete, With, watcher, OwnersValues, ClientInv
<1>9. CASE Lower
  BY <1>9, <1>e, <1>q, <1>s DEF Lower, NoSave, Incomplete, With, watcher, OwnersValues, ClientInv
<1>10. CASE EndApply
  BY <1>10, <1>e, <1>q, <1>s DEF EndApply, Step, Saves, SaveFails, watcher, OwnersValues, ClientInv
<1>11. CASE FreeQbit
  BY <1>11, <1>e, <1>q, <1>s DEF FreeQbit, Step, NoSave, Forget, watcher, OwnersValues, ClientInv
<1>12. CASE TurnOff
  BY <1>12, <1>e, <1>q, <1>s DEF TurnOff, Step, NoSave, Forget, watcher, OwnersValues, ClientInv
<1>13. CASE FreeSab
  BY <1>13, <1>e, <1>q, <1>s DEF FreeSab, Step, NoSave, Forget, Known, watcher, OwnersValues, ClientInv
<1>14. CASE Restore
  BY <1>14, <1>e, <1>q, <1>s DEF Restore, Step, NoSave, With, watcher, OwnersValues, ClientInv
<1>15. CASE EndRevert
  BY <1>15, <1>e, <1>q, <1>s DEF EndRevert, Saves, SaveFails, End, active, world, OwnersValues, ClientInv
<1>16. CASE Start
  BY <1>16, <1>e, <1>q, <1>s DEF Start, Begin, watcher, world, OwnersValues, ClientInv
<1>17. CASE Poll
  BY <1>17, <1>e, <1>q, <1>s DEF Poll, Update, Decide, Begin, Reverts, active, world, OwnersValues, ClientInv
<1>18. CASE PollFails
  BY <1>18, <1>e, <1>q, <1>s DEF PollFails, Begin, Reverts, active, world, OwnersValues, ClientInv
<1>19. CASE Stopped
  BY <1>19, <1>e, <1>q, <1>s DEF Stopped, Begin, End, active, watcher, world, OwnersValues, ClientInv
<1>20. CASE Sigterm
  BY <1>20, <1>e, <1>q, <1>s DEF Sigterm, watcher, world, OwnersValues, ClientInv
<1>21. CASE Kill
  BY <1>21, <1>e, <1>q, <1>s DEF Kill, End, OwnersValues, ClientInv
<1>22. CASE Viewers
  BY <1>22, <1>e, <1>q, <1>s DEF Viewers, watcher, OwnersValues, ClientInv
<1>23. CASE Jobs
  BY <1>23, <1>e, <1>q, <1>s DEF Jobs, watcher, OwnersValues, ClientInv
<1>24. QED
  BY <1>0, <1>1, <1>2, <1>3, <1>4, <1>5, <1>6, <1>7, <1>8, <1>9, <1>10, <1>11, <1>12, <1>13, <1>14, <1>15, <1>16, <1>17, <1>18, <1>19, <1>20, <1>21, <1>22, <1>23 DEF Next, Daemon, Apply, Revert

LEMMA OwnersStep == IInv /\ [Next]_vars => (~forgot' => OwnersValues(disk)' /\ OwnersValues(applied)')
<1> SUFFICES ASSUME IInv, [Next]_vars PROVE (~forgot' => OwnersValues(disk)' /\ OwnersValues(applied)')
  OBVIOUS
<1>a. disk \in File /\ applied \in File
  BY DEF IInv, TypeOK
<1>b. applied.units \in [Target -> Value \cup {"no"}] /\ disk.units \in [Target -> Value \cup {"no"}]
  BY <1>a DEF File
<1>c. todo \subseteq Target /\ (todo # {} => First \in todo)
  BY FirstIsOne DEF IInv, TypeOK
<1>d. weight \in [Target -> Value] /\ state \in [Target -> {"off", "on", "gone"}]
  BY DEF IInv, TypeOK
<1>e. ClientInv /\ LowerInv /\ RestoreInv /\ GoneInv /\ OffInv /\ FileInv
  BY DEF IInv, StepInv
<1>s. ~forgot' => OwnersValues(disk) /\ OwnersValues(applied) /\ Covers(Memory) /\ Unlowered /\ (qbit.own = 1 => qbit.mode = 1)
  BY ForgotStep DEF IInv, Sound
<1>q. qbit \in [alt : Value, mode : {0, 1}, own : {0, 1}] /\ sab \in Value /\ unasked \subseteq Target
  BY DEF IInv, TypeOK
<1>0. CASE UNCHANGED vars
  BY <1>0, <1>s DEF vars, world, watcher, OwnersValues
<1>1. CASE AskQbit
  <2>1. /\ applied' = applied \/ (applied.qbit = No /\ applied' = [applied EXCEPT !["qbit"] = New(qbit.mode, qbit.alt)])
        /\ disk' \in {disk, applied'}
        /\ qbit'.own = qbit.own /\ unasked \subseteq unasked'
    BY <1>1 DEF AskQbit, Ask, Step, NoSave, Saves, SaveFails
  <2>2. ASSUME ~forgot', applied.qbit = No
        PROVE  OwnersValues([applied EXCEPT !["qbit"] = New(qbit.mode, qbit.alt)])
    <3>1. qbit.alt = "own" /\ qbit.mode = qbit.own
      BY <2>2, <1>1, <1>q, <1>s DEF AskQbit, Step, Memory, Covers, Value
    <3>2. /\ [applied EXCEPT !["qbit"] = New(qbit.mode, qbit.alt)].qbit = New(qbit.mode, qbit.alt)
          /\ [applied EXCEPT !["qbit"] = New(qbit.mode, qbit.alt)].sab = applied.sab
          /\ [applied EXCEPT !["qbit"] = New(qbit.mode, qbit.alt)].units = applied.units
      BY <1>a, ClientGiven
    <3>3. New(qbit.mode, qbit.alt).mode = qbit.mode /\ New(qbit.mode, qbit.alt).value = qbit.alt
      BY DEF New
    <3>4. QED BY <2>2, <3>1, <3>2, <3>3, <1>s DEF OwnersValues
  <2>3. QED BY <2>1, <2>2, <1>s DEF OwnersValues
<1>2. CASE SlowQbit
  <2>1. /\ applied' \in {applied, Applied("qbit")}
        /\ disk' \in {disk, applied'}
        /\ qbit'.own = qbit.own /\ unasked \subseteq unasked'
    BY <1>2, <1>q DEF SlowQbit, Step, NoSave
  <2>2. ASSUME ~forgot' PROVE OwnersValues(Applied("qbit"))
    <3>1. applied.qbit # No
      BY <1>2, <1>e DEF SlowQbit, Step, ClientInv
    <3>2. QED BY <2>2, <3>1, <1>a, <1>s, AppliedKnown DEF OwnersValues
  <2>3. QED BY <2>1, <2>2, <1>s DEF OwnersValues
<1>3. CASE TurnOn
  <2>1. /\ applied' \in {applied, Applied("qbit")}
        /\ disk' \in {disk, applied'}
        /\ qbit'.own = qbit.own /\ unasked \subseteq unasked'
    BY <1>3, <1>q DEF TurnOn, Step, NoSave
  <2>2. ASSUME ~forgot' PROVE OwnersValues(Applied("qbit"))
    <3>1. applied.qbit # No
      BY <1>3, <1>e DEF TurnOn, Step, ClientInv
    <3>2. QED BY <2>2, <3>1, <1>a, <1>s, AppliedKnown DEF OwnersValues
  <2>3. QED BY <2>1, <2>2, <1>s DEF OwnersValues
<1>4. CASE AskSab
  <2>1. /\ applied' = applied \/ (applied.sab = No /\ applied' = [applied EXCEPT !["sab"] = New(0, sab)])
        /\ disk' \in {disk, applied'}
        /\ qbit'.own = qbit.own /\ unasked \subseteq unasked'
    BY <1>4 DEF AskSab, Ask, Step, NoSave, Saves, SaveFails
  <2>2. ASSUME ~forgot', applied.sab = No
        PROVE  OwnersValues([applied EXCEPT !["sab"] = New(0, sab)])
    <3>1. sab = "own"
      BY <2>2, <1>4, <1>q, <1>s DEF AskSab, Step, Memory, Covers, Value
    <3>2. /\ [applied EXCEPT !["sab"] = New(0, sab)].sab = New(0, sab)
          /\ [applied EXCEPT !["sab"] = New(0, sab)].qbit = applied.qbit
          /\ [applied EXCEPT !["sab"] = New(0, sab)].units = applied.units
      BY <1>a, ClientGiven
    <3>3. New(0, sab).mode = 0 /\ New(0, sab).value = sab
      BY DEF New
    <3>4. QED BY <2>2, <3>1, <3>2, <3>3, <1>s DEF OwnersValues
  <2>3. QED BY <2>1, <2>2, <1>s DEF OwnersValues
<1>5. CASE SlowSab
  <2>1. /\ applied' \in {applied, Applied("sab")}
        /\ disk' \in {disk, applied'}
        /\ qbit'.own = qbit.own /\ unasked \subseteq unasked'
    BY <1>5, <1>q DEF SlowSab, Step, NoSave
  <2>2. ASSUME ~forgot' PROVE OwnersValues(Applied("sab"))
    <3>1. applied.sab # No
      BY <1>5, <1>e DEF SlowSab, Step, ClientInv
    <3>2. QED BY <2>2, <3>1, <1>a, <1>s, AppliedKnown DEF OwnersValues
  <2>3. QED BY <2>1, <2>2, <1>s DEF OwnersValues
<1>6. CASE SaveDownloads
  BY <1>6, <1>a, <1>c, <1>d, <1>e, <1>q, <1>s DEF SaveDownloads, Step, Saves, SaveFails, watcher, OwnersValues
<1>7. CASE LookUp
  BY <1>7, <1>a, <1>c, <1>d, <1>e, <1>q, <1>s DEF LookUp, Step, NoSave, Incomplete, IsActive, watcher, OwnersValues
<1>8. CASE ReadWeights
  <2>1. /\ applied' = applied \/ (applied.units[First] = "no" /\ applied' = With(First, weight[First]))
        /\ disk' \in {disk, applied'}
        /\ qbit'.own = qbit.own /\ unasked \subseteq unasked' /\ First \in Target
    BY <1>8, <1>c DEF ReadWeights, Step, NoSave, Saves, SaveFails
  <2>2. ASSUME ~forgot', applied.units[First] = "no"
        PROVE  OwnersValues(With(First, weight[First]))
    <3>1. First \notin unasked => weight[First] = "own"
      BY <2>1, <2>2, <1>8, <1>d, <1>s DEF ReadWeights, Step, Memory, Covers, Value
    <3>2. QED BY <2>1, <2>2, <3>1, <1>a, <1>s, TargetGiven DEF OwnersValues
  <2>3. QED BY <2>1, <2>2, <1>s DEF OwnersValues
<1>9. CASE Lower
  <2>1. /\ applied' \in {applied, With(First, "no")}
        /\ disk' \in {disk, applied'}
        /\ qbit'.own = qbit.own /\ unasked \subseteq unasked'
    BY <1>9, <1>q DEF Lower, NoSave
  <2>2. ASSUME ~forgot' PROVE OwnersValues(With(First, "no"))
    BY <2>2, <1>9, <1>a, <1>c, <1>e, <1>s, TargetGiven DEF Lower, LowerInv, OwnersValues
  <2>3. QED BY <2>1, <2>2, <1>s DEF OwnersValues
<1>10. CASE EndApply
  BY <1>10, <1>a, <1>c, <1>d, <1>e, <1>q, <1>s DEF EndApply, Step, Saves, SaveFails, watcher, OwnersValues
<1>11. CASE FreeQbit
  <2>1. /\ applied' \in {applied, Forget("qbit")}
        /\ disk' \in {disk, applied'}
        /\ qbit'.own = qbit.own /\ unasked \subseteq unasked'
    BY <1>11, <1>q DEF FreeQbit, Step, NoSave
  <2>2. ASSUME ~forgot' PROVE OwnersValues(Forget("qbit"))
    BY <2>2, <1>a, <1>s, Forgotten DEF OwnersValues
  <2>3. QED BY <2>1, <2>2, <1>s DEF OwnersValues
<1>12. CASE TurnOff
  <2>1. /\ applied' \in {applied, Forget("qbit")}
        /\ disk' \in {disk, applied'}
        /\ qbit'.own = qbit.own /\ unasked \subseteq unasked'
    BY <1>12, <1>q DEF TurnOff, Step, NoSave
  <2>2. ASSUME ~forgot' PROVE OwnersValues(Forget("qbit"))
    BY <2>2, <1>a, <1>s, Forgotten DEF OwnersValues
  <2>3. QED BY <2>1, <2>2, <1>s DEF OwnersValues
<1>13. CASE FreeSab
  <2>1. /\ applied' \in {applied, Forget("sab")}
        /\ disk' \in {disk, applied'}
        /\ qbit'.own = qbit.own /\ unasked \subseteq unasked'
    BY <1>13, <1>q DEF FreeSab, Step, NoSave
  <2>2. ASSUME ~forgot' PROVE OwnersValues(Forget("sab"))
    BY <2>2, <1>a, <1>s, Forgotten DEF OwnersValues
  <2>3. QED BY <2>1, <2>2, <1>s DEF OwnersValues
<1>14. CASE Restore
  <2>1. /\ applied' \in {applied, With(First, "no")}
        /\ disk' \in {disk, applied'}
        /\ qbit'.own = qbit.own /\ unasked \subseteq unasked'
    BY <1>14, <1>q DEF Restore, Step, NoSave
  <2>2. ASSUME ~forgot' PROVE OwnersValues(With(First, "no"))
    BY <2>2, <1>14, <1>a, <1>c, <1>s, TargetGiven DEF Restore, OwnersValues
  <2>3. QED BY <2>1, <2>2, <1>s DEF OwnersValues
<1>15. CASE EndRevert
  <2>1. /\ applied' \in {applied, Empty} /\ disk' \in {disk, applied}
        /\ UNCHANGED <<qbit, unasked>>
    BY <1>15 DEF EndRevert, Saves, SaveFails, End, world
  <2>2. OwnersValues(Empty)
    BY DEF OwnersValues, Empty
  <2>3. QED BY <2>1, <2>2, <1>s DEF OwnersValues
<1>16. CASE Start
  BY <1>16, <1>a, <1>c, <1>d, <1>e, <1>q, <1>s DEF Start, Begin, watcher, world, OwnersValues
<1>17. CASE Poll
  BY <1>17, <1>a, <1>c, <1>d, <1>e, <1>q, <1>s DEF Poll, Update, Decide, Begin, Reverts, active, world, OwnersValues
<1>18. CASE PollFails
  BY <1>18, <1>a, <1>c, <1>d, <1>e, <1>q, <1>s DEF PollFails, Begin, Reverts, active, world, OwnersValues
<1>19. CASE Stopped
  BY <1>19, <1>a, <1>c, <1>d, <1>e, <1>q, <1>s DEF Stopped, Begin, End, active, watcher, world, OwnersValues
<1>20. CASE Sigterm
  BY <1>20, <1>a, <1>c, <1>d, <1>e, <1>q, <1>s DEF Sigterm, watcher, world, OwnersValues
<1>21. CASE Kill
  <2>1. applied' = Empty /\ UNCHANGED <<disk, qbit, unasked>>
    BY <1>21 DEF Kill, End
  <2>2. OwnersValues(Empty)
    BY DEF OwnersValues, Empty
  <2>3. QED BY <2>1, <2>2, <1>s DEF OwnersValues
<1>22. CASE Viewers
  BY <1>22, <1>a, <1>c, <1>d, <1>e, <1>q, <1>s DEF Viewers, watcher, OwnersValues
<1>23. CASE Jobs
  BY <1>23, <1>a, <1>c, <1>d, <1>e, <1>q, <1>s DEF Jobs, watcher, OwnersValues
<1>24. QED
  BY <1>0, <1>1, <1>2, <1>3, <1>4, <1>5, <1>6, <1>7, <1>8, <1>9, <1>10, <1>11, <1>12, <1>13, <1>14, <1>15, <1>16, <1>17, <1>18, <1>19, <1>20, <1>21, <1>22, <1>23 DEF Next, Daemon, Apply, Revert

LEMMA CoversStep == IInv /\ [Next]_vars => (~forgot' => Covers(Memory)')
<1> SUFFICES ASSUME IInv, [Next]_vars PROVE (~forgot' => Covers(Memory)')
  OBVIOUS
<1>a. disk \in File /\ applied \in File
  BY DEF IInv, TypeOK
<1>b. applied.units \in [Target -> Value \cup {"no"}] /\ disk.units \in [Target -> Value \cup {"no"}]
  BY <1>a DEF File
<1>c. todo \subseteq Target /\ (todo # {} => First \in todo)
  BY FirstIsOne DEF IInv, TypeOK
<1>d. weight \in [Target -> Value] /\ state \in [Target -> {"off", "on", "gone"}]
  BY DEF IInv, TypeOK
<1>e. ClientInv /\ LowerInv /\ RestoreInv /\ GoneInv /\ OffInv /\ FileInv
  BY DEF IInv, StepInv
<1>s. ~forgot' => OwnersValues(disk) /\ OwnersValues(applied) /\ Covers(Memory) /\ Unlowered /\ (qbit.own = 1 => qbit.mode = 1)
  BY ForgotStep DEF IInv, Sound
<1>q. qbit \in [alt : Value, mode : {0, 1}, own : {0, 1}] /\ sab \in Value /\ unasked \subseteq Target
  BY DEF IInv, TypeOK
<1>0. CASE UNCHANGED vars
  BY <1>0, <1>s DEF vars, world, watcher, Covers, Memory
<1>1. CASE AskQbit
  <2>1. applied' \in {applied, [applied EXCEPT !["qbit"] = New(qbit.mode, qbit.alt)]}
    BY <1>1 DEF AskQbit, Ask
  <2>2. Within(applied, [applied EXCEPT !["qbit"] = New(qbit.mode, qbit.alt)])
    BY <1>a, ClientGiven, NewIsNotNo DEF Within
  <2>3. pc # "off" /\ pc' # "off" /\ UNCHANGED <<qbit, sab, weight, unasked>>
    BY <1>1 DEF AskQbit, Ask, Step
  <2>4. QED BY <2>1, <2>2, <2>3, <1>s DEF Covers, Memory, Within
<1>2. CASE SlowQbit
  <2>1. applied' \in {applied, Applied("qbit")} /\ applied.qbit # No
    BY <1>2, <1>e DEF SlowQbit, Step, ClientInv
  <2>2. applied'.qbit # No /\ applied'.sab = applied.sab /\ applied'.units = applied.units
    BY <2>1, <1>a, AppliedKnown
  <2>3. pc # "off" /\ pc' # "off" /\ UNCHANGED <<sab, weight, unasked>>
    BY <1>2 DEF SlowQbit, Step
  <2>4. QED BY <2>2, <2>3, <1>s DEF Covers, Memory
<1>3. CASE TurnOn
  <2>1. applied' \in {applied, Applied("qbit")} /\ applied.qbit # No
    BY <1>3, <1>e DEF TurnOn, Step, ClientInv
  <2>2. applied'.qbit # No /\ applied'.sab = applied.sab /\ applied'.units = applied.units
    BY <2>1, <1>a, AppliedKnown
  <2>3. pc # "off" /\ pc' # "off" /\ UNCHANGED <<sab, weight, unasked>>
    BY <1>3 DEF TurnOn, Step
  <2>4. QED BY <2>2, <2>3, <1>s DEF Covers, Memory
<1>4. CASE AskSab
  <2>1. applied' \in {applied, [applied EXCEPT !["sab"] = New(0, sab)]}
    BY <1>4 DEF AskSab, Ask
  <2>2. Within(applied, [applied EXCEPT !["sab"] = New(0, sab)])
    BY <1>a, ClientGiven, NewIsNotNo DEF Within
  <2>3. pc # "off" /\ pc' # "off" /\ UNCHANGED <<qbit, sab, weight, unasked>>
    BY <1>4 DEF AskSab, Ask, Step
  <2>4. QED BY <2>1, <2>2, <2>3, <1>s DEF Covers, Memory, Within
<1>5. CASE SlowSab
  <2>1. applied' \in {applied, Applied("sab")} /\ applied.sab # No
    BY <1>5, <1>e DEF SlowSab, Step, ClientInv
  <2>2. applied'.sab # No /\ applied'.qbit = applied.qbit /\ applied'.units = applied.units
    BY <2>1, <1>a, AppliedKnown
  <2>3. pc # "off" /\ pc' # "off" /\ UNCHANGED <<qbit, weight, unasked>>
    BY <1>5 DEF SlowSab, Step
  <2>4. QED BY <2>2, <2>3, <1>s DEF Covers, Memory
<1>6. CASE SaveDownloads
  BY <1>6, <1>a, <1>c, <1>d, <1>e, <1>q, <1>s DEF SaveDownloads, Step, Saves, SaveFails, watcher, Covers, Memory
<1>7. CASE LookUp
  BY <1>7, <1>a, <1>c, <1>d, <1>e, <1>q, <1>s DEF LookUp, Step, NoSave, Incomplete, IsActive, watcher, Covers, Memory
<1>8. CASE ReadWeights
  <2>1. /\ pc # "off" /\ pc' # "off" /\ UNCHANGED <<qbit, sab, weight, unasked>>
        /\ applied' \in {applied, With(First, weight[First])} /\ First \in Target
    BY <1>8, <1>c DEF ReadWeights, Step
  <2>2. Within(applied, With(First, weight[First]))
    BY <2>1, <1>a, <1>d, TargetGiven DEF Within, Value
  <2>3. QED BY <2>1, <2>2, <1>s DEF Covers, Memory, Within
<1>9. CASE Lower
  <2>1. /\ pc # "off" /\ pc' # "off" /\ UNCHANGED <<qbit, sab>>
        /\ First \in Target /\ applied.units[First] # "no"
    BY <1>9, <1>c, <1>e DEF Lower, LowerInv
  <2>2. /\ \A t \in Target \ {First} : weight'[t] = weight[t]
        /\ unasked \subseteq unasked'
    BY <1>9, <1>d DEF Lower
  <2>3. \/ applied' = applied
        \/ /\ applied' = With(First, "no")
           /\ \/ First \in unasked'
              \/ weight' = weight /\ unasked' = unasked
    BY <1>9 DEF Lower
  <2>4. QED
    <3>1. CASE applied' = applied
      BY <2>1, <2>2, <3>1, <1>s DEF Covers, Memory
    <3>2. CASE applied' = With(First, "no") /\ First \in unasked'
      BY <2>1, <2>2, <3>2, <1>a, <1>s, TargetGiven DEF Covers, Memory
    <3>3. CASE applied' = With(First, "no") /\ First \notin unasked /\ weight' = weight /\ unasked' = unasked
      BY <2>1, <2>2, <3>3, <1>9, <1>a, <1>s, TargetGiven DEF Lower, Unlowered, Covers, Memory
    <3>4. QED BY <2>2, <2>3, <3>1, <3>2, <3>3
<1>10. CASE EndApply
  BY <1>10, <1>a, <1>c, <1>d, <1>e, <1>q, <1>s DEF EndApply, Step, Saves, SaveFails, watcher, Covers, Memory
<1>11. CASE FreeQbit
  <2>1. pc # "off" /\ pc' # "off" /\ UNCHANGED <<sab, weight, unasked>>
    BY <1>11 DEF FreeQbit, Step
  <2>2. ASSUME ~forgot'
        PROVE  \/ applied' = applied /\ (qbit' = qbit \/ applied.qbit # No)
               \/ applied' = Forget("qbit") /\ qbit'.alt = "own" /\ qbit'.mode = qbit'.own
    <3>1. CASE applied.qbit = No
      BY <1>11, <3>1 DEF FreeQbit
    <3>2. CASE applied.qbit # No
      <4>1. applied.qbit.value = "own" /\ applied.qbit.mode = qbit.own
        BY <2>2, <3>2, <1>s DEF OwnersValues
      <4>2. \/ applied' = applied
            \/ /\ applied' = Forget("qbit") /\ applied.qbit.mode # 0
               /\ qbit' = [qbit EXCEPT !.alt = applied.qbit.value]
        BY <1>11, <3>2 DEF FreeQbit
      <4>3. QED BY <2>2, <3>2, <4>1, <4>2, <1>q, <1>s
    <3>3. QED BY <3>1, <3>2
  <2>3. QED BY <2>1, <2>2, <1>a, <1>s, Forgotten DEF Covers, Memory
<1>12. CASE TurnOff
  <2>1. pc = "turn off" /\ pc' # "off" /\ UNCHANGED <<sab, weight, unasked>>
    BY <1>12 DEF TurnOff, Step
  <2>2. ASSUME ~forgot'
        PROVE  \/ applied' = applied /\ applied.qbit # No
               \/ applied' = Forget("qbit") /\ qbit'.alt = "own" /\ qbit'.mode = qbit'.own
    <3>1. applied.qbit # No /\ applied.qbit.mode = 0 /\ qbit.alt = applied.qbit.value
      BY <2>1, <1>e DEF ClientInv
    <3>2. qbit.alt = "own" /\ qbit.own = 0
      BY <2>2, <3>1, <1>s DEF OwnersValues
    <3>3. applied' = applied \/ (applied' = Forget("qbit") /\ qbit' = [qbit EXCEPT !.mode = 0])
      BY <1>12 DEF TurnOff
    <3>4. QED BY <3>1, <3>2, <3>3, <1>q
  <2>3. QED BY <2>1, <2>2, <1>a, <1>s, Forgotten DEF Covers, Memory
<1>13. CASE FreeSab
  <2>1. pc # "off" /\ pc' # "off" /\ UNCHANGED <<qbit, weight, unasked>>
    BY <1>13 DEF FreeSab, Step
  <2>2. ASSUME ~forgot'
        PROVE  \/ applied' = applied /\ (sab' = sab \/ applied.sab # No)
               \/ applied' = Forget("sab") /\ sab' = "own"
    BY <2>2, <1>13, <1>s DEF FreeSab, OwnersValues
  <2>3. QED BY <2>1, <2>2, <1>a, <1>s, Forgotten DEF Covers, Memory
<1>14. CASE Restore
  <2>1. /\ pc = "restore" /\ pc' # "off" /\ UNCHANGED <<qbit, sab, unasked>>
        /\ First \in Target /\ applied.units[First] # "no"
    BY <1>14, <1>c, <1>e DEF Restore, Step, RestoreInv, Known
  <2>2. \A t \in Target \ {First} : weight'[t] = weight[t]
    BY <1>14, <1>d DEF Restore
  <2>3. ASSUME ~forgot', First \notin unasked
        PROVE  applied' = applied \/ (applied' = With(First, "no") /\ weight'[First] = "own")
    <3>1. applied.units[First] = "own"
      BY <2>1, <2>3, <1>b, <1>s DEF OwnersValues, Value
    <3>2. state[First] = "gone" => weight[First] = "own"
      BY <2>1, <1>e DEF GoneInv
    <3>3. QED BY <2>1, <3>1, <3>2, <1>14, <1>d DEF Restore
  <2>4. applied' \in {applied, With(First, "no")}
    BY <1>14 DEF Restore
  <2>5. QED BY <2>1, <2>2, <2>3, <2>4, <1>a, <1>s, TargetGiven DEF Covers, Memory
<1>15. CASE EndRevert
  BY <1>15, <1>a, <1>c, <1>d, <1>e, <1>q, <1>s DEF EndRevert, Saves, SaveFails, End, active, world, Covers, Memory
<1>16. CASE Start
  BY <1>16, <1>a, <1>c, <1>d, <1>e, <1>q, <1>s DEF Start, Begin, watcher, world, Covers, Memory
<1>17. CASE Poll
  BY <1>17, <1>a, <1>c, <1>d, <1>e, <1>q, <1>s DEF Poll, Update, Decide, Begin, Reverts, active, world, Covers, Memory
<1>18. CASE PollFails
  BY <1>18, <1>a, <1>c, <1>d, <1>e, <1>q, <1>s DEF PollFails, Begin, Reverts, active, world, Covers, Memory
<1>19. CASE Stopped
  <2>1. pc # "off" /\ UNCHANGED <<qbit, sab, weight, unasked, disk>>
    BY <1>19 DEF Stopped, world
  <2>2. CASE active
    BY <1>19, <2>1, <2>2, <1>s DEF Stopped, Begin, Covers, Memory
  <2>3. CASE ~active
    BY <2>1, <2>3, <1>s DEF active, Empty, Covers, Memory
  <2>4. QED BY <2>2, <2>3
<1>20. CASE Sigterm
  BY <1>20, <1>a, <1>c, <1>d, <1>e, <1>q, <1>s DEF Sigterm, watcher, world, Covers, Memory
<1>21. CASE Kill
  <2>1. /\ pc # "off" /\ pc' = "off" /\ UNCHANGED <<qbit, sab, unasked, disk>>
        /\ weight' \in {weight, [t \in Target |-> "own"]}
        /\ ~forgot' => ~behind
    BY <1>21 DEF Kill, End
  <2>2. \A t \in Target : weight'[t] = "slow" => weight[t] = "slow"
    BY <2>1
  <2>3. ~forgot' => Within(applied, disk)
    BY <2>1, <1>e DEF FileInv
  <2>4. QED BY <2>1, <2>2, <2>3, <1>s DEF Covers, Memory, Within
<1>22. CASE Viewers
  BY <1>22, <1>a, <1>c, <1>d, <1>e, <1>q, <1>s DEF Viewers, watcher, Covers, Memory
<1>23. CASE Jobs
  BY <1>23, <1>a, <1>c, <1>d, <1>e, <1>q, <1>s DEF Jobs, watcher, Covers, Memory
<1>24. QED
  BY <1>0, <1>1, <1>2, <1>3, <1>4, <1>5, <1>6, <1>7, <1>8, <1>9, <1>10, <1>11, <1>12, <1>13, <1>14, <1>15, <1>16, <1>17, <1>18, <1>19, <1>20, <1>21, <1>22, <1>23 DEF Next, Daemon, Apply, Revert

LEMMA UnloweredStep == IInv /\ [Next]_vars => (~forgot' => Unlowered')
<1> SUFFICES ASSUME IInv, [Next]_vars PROVE (~forgot' => Unlowered')
  OBVIOUS
<1>a. disk \in File /\ applied \in File
  BY DEF IInv, TypeOK
<1>b. applied.units \in [Target -> Value \cup {"no"}] /\ disk.units \in [Target -> Value \cup {"no"}]
  BY <1>a DEF File
<1>c. todo \subseteq Target /\ (todo # {} => First \in todo)
  BY FirstIsOne DEF IInv, TypeOK
<1>d. weight \in [Target -> Value] /\ state \in [Target -> {"off", "on", "gone"}]
  BY DEF IInv, TypeOK
<1>e. ClientInv /\ LowerInv /\ RestoreInv /\ GoneInv /\ OffInv /\ FileInv
  BY DEF IInv, StepInv
<1>s. ~forgot' => OwnersValues(disk) /\ OwnersValues(applied) /\ Covers(Memory) /\ Unlowered /\ (qbit.own = 1 => qbit.mode = 1)
  BY ForgotStep DEF IInv, Sound
<1>q. qbit \in [alt : Value, mode : {0, 1}, own : {0, 1}] /\ sab \in Value /\ unasked \subseteq Target
  BY DEF IInv, TypeOK
<1>0. CASE UNCHANGED vars
  BY <1>0, <1>s DEF vars, world, watcher, Unlowered, First
<1>1. CASE AskQbit
  BY <1>1 DEF AskQbit, Ask, Step, NoSave, Saves, SaveFails, Incomplete, watcher, Unlowered
<1>2. CASE SlowQbit
  BY <1>2 DEF SlowQbit, Step, NoSave, Incomplete, Applied, watcher, Unlowered
<1>3. CASE TurnOn
  BY <1>3 DEF TurnOn, Step, NoSave, Incomplete, Applied, watcher, Unlowered
<1>4. CASE AskSab
  BY <1>4 DEF AskSab, Ask, Step, NoSave, Saves, SaveFails, Incomplete, watcher, Unlowered
<1>5. CASE SlowSab
  BY <1>5 DEF SlowSab, Step, NoSave, Incomplete, Applied, watcher, Unlowered
<1>6. CASE SaveDownloads
  BY <1>6 DEF SaveDownloads, Step, Saves, SaveFails, watcher, Unlowered
<1>7. CASE LookUp
  BY <1>7 DEF LookUp, Step, NoSave, Incomplete, IsActive, watcher, Unlowered
<1>8. CASE ReadWeights
  <2>1. /\ First \in Target /\ UNCHANGED <<weight, unasked>>
        /\ pc' = "lower" => todo' = todo /\ applied.units[First] = "no"
    BY <1>8, <1>c DEF ReadWeights, Step
  <2>2. pc' = "lower" => First' = First
    BY <2>1 DEF First
  <2>3. ASSUME ~forgot', pc' = "lower" PROVE weight[First] = "own" \/ First \in unasked
    BY <2>1, <2>3, <1>8, <1>d, <1>s DEF ReadWeights, Step, Covers, Memory, Value
  <2>4. QED BY <2>1, <2>2, <2>3 DEF Unlowered
<1>9. CASE Lower
  BY <1>9 DEF Lower, NoSave, Incomplete, With, watcher, Unlowered
<1>10. CASE EndApply
  BY <1>10 DEF EndApply, Step, Saves, SaveFails, watcher, Unlowered
<1>11. CASE FreeQbit
  BY <1>11 DEF FreeQbit, Step, NoSave, Forget, watcher, Unlowered
<1>12. CASE TurnOff
  BY <1>12 DEF TurnOff, Step, NoSave, Forget, watcher, Unlowered
<1>13. CASE FreeSab
  BY <1>13 DEF FreeSab, Step, NoSave, Forget, Known, watcher, Unlowered
<1>14. CASE Restore
  BY <1>14 DEF Restore, Step, NoSave, With, watcher, Unlowered
<1>15. CASE EndRevert
  BY <1>15 DEF EndRevert, Saves, SaveFails, End, active, world, Unlowered
<1>16. CASE Start
  BY <1>16 DEF Start, Begin, watcher, world, Unlowered
<1>17. CASE Poll
  BY <1>17 DEF Poll, Update, Decide, Begin, Reverts, active, world, Unlowered
<1>18. CASE PollFails
  BY <1>18 DEF PollFails, Begin, Reverts, active, world, Unlowered
<1>19. CASE Stopped
  BY <1>19 DEF Stopped, Begin, End, active, watcher, world, Unlowered
<1>20. CASE Sigterm
  <2>1. UNCHANGED <<todo, pc, unasked, weight>>
    BY <1>20 DEF Sigterm, world
  <2>2. QED BY <2>1, <1>s DEF Unlowered, First
<1>21. CASE Kill
  BY <1>21 DEF Kill, End, Unlowered
<1>22. CASE Viewers
  <2>1. UNCHANGED <<todo, pc, unasked, weight>>
    BY <1>22 DEF Viewers, world
  <2>2. QED BY <2>1, <1>s DEF Unlowered, First
<1>23. CASE Jobs
  <2>1. UNCHANGED <<todo, pc, unasked>> /\ \A t \in Target : weight[t] = "own" => weight'[t] = "own"
    BY <1>23, <1>d DEF Jobs
  <2>2. pc = "lower" => First \in Target /\ First' = First
    BY <2>1, <1>c, <1>e DEF First, LowerInv
  <2>3. QED BY <2>1, <2>2, <1>s DEF Unlowered
<1>24. QED
  BY <1>0, <1>1, <1>2, <1>3, <1>4, <1>5, <1>6, <1>7, <1>8, <1>9, <1>10, <1>11, <1>12, <1>13, <1>14, <1>15, <1>16, <1>17, <1>18, <1>19, <1>20, <1>21, <1>22, <1>23 DEF Next, Daemon, Apply, Revert


LEMMA InvStep == IInv /\ [Next]_vars => IInv'
<1> SUFFICES ASSUME IInv, [Next]_vars PROVE IInv'
  OBVIOUS
<1>1. TypeOK'
  BY TypeStep
<1>2. StepInv'
  BY ClientStep, LowerStep, RestoreStep, GoneStep, OffStep, FileStep DEF StepInv
<1>3. ~forgot' => Sound'
  BY OwnersStep, CoversStep, UnloweredStep, ModeStep DEF Sound
<1>4. QED BY <1>1, <1>2, <1>3 DEF IInv

\* As long as saves succeed, what memory knows the file knows.
LEMMA FixInvHolds == IInv => FixInv
<1> SUFFICES ASSUME IInv PROVE FixInv
  OBVIOUS
<1>1. ASSUME ~forgot, ~behind PROVE Covers(disk)
  <2>1. Covers(Memory) /\ Within(applied, disk)
    BY <1>1 DEF IInv, Sound, StepInv, FileInv
  <2>2. QED BY <2>1 DEF Memory, Covers, Within
<1>2. Recorded
  BY <1>1 DEF Recorded, Covers
<1>3. QED BY <1>2 DEF IInv, Sound, FixInv

\* Whichever calls fail, and whenever the daemon is killed or the server reboots:
\* AutoFix.apply saves before it sets, so autofix.json records every client that
\* is slowed down and every lowered weight, with the owner's values.  Excepted
\* are weights lowered by a call without an answer, the time while the last save
\* failed, and all that follows the end of a process in that state.
THEOREM FixSafe == Spec => []FixInv
<1>1. Init => IInv
  BY InitInv
<1>2. IInv /\ [Next]_vars => IInv'
  BY InvStep
<1>3. IInv => FixInv
  BY FixInvHolds
<1>4. QED BY <1>1, <1>2, <1>3, PTL DEF Spec
=============================================================================
