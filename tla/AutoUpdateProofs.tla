-------------------------- MODULE AutoUpdateProofs --------------------------
(* Theorems of AutoUpdate, for any projects, registries and bounds. *)
EXTENDS AutoUpdate, TLAPS

\* What a run has yet to do with the refs it has decided for.
Deciding == {"gate", "pull", "major"}
Doing == Deciding \cup {"update"}

\* Images follow their tags, tags the registry, and entries what it has said.
OrderInv ==
  /\ \A r \in Ref : image[r] <= tag[r] /\ tag[r] <= remote[r]
  /\ \A t \in tried \cup fresh : t[2] <= remote[t[1]]

\* An entry is of a release that the registry had; it is aged only if the
\* release has been out for the cool-down.
Honest(f) ==
  \A r \in Ref : /\ f[r].digest # None => f[r].digest <= remote[r]
                 /\ f[r].aged /\ f[r].digest = remote[r] => r \in shelf

\* What has failed, and is still what the registry offers, is marked.
Marks(f, failures) ==
  \A t \in failures : remote[t[1]] = t[2] /\ image[t[1]] # t[2] =>
    f[t[1]].bad /\ f[t[1]].digest = t[2]

\* What a run has decided is so until the update, but for a tag that moves.
Decided(r) ==
  /\ pc \in Doing => mem[r].digest = remote[r]
  /\ pc \in Deciding => ~mem[r].bad
  /\ pc \in {"major", "update"} => tag[r] = remote[r]

TypeInv ==
  /\ TypeOK
  /\ pc \in Doing => row <= Rows /\ todo \subseteq In(row)
  /\ pc = "update" => old = [r \in Ref |-> IF r \in In(row) THEN image[r] ELSE None]

RunInv ==
  /\ pc \in Doing => \A r \in todo \ moved : Decided(r)
  /\ pc \in {"major", "update"} =>
       \A r \in todo : tag[r] = remote[r] \/ \A t \in tried : t[1] = r => t[2] # remote[r]
  /\ pc \in {"gate", "pull"} => todo \subseteq shelf \cup late
  /\ \A t \in fresh : rowOf[t[1]] < row
  /\ pc = "off" => fresh = {}

AInv == /\ TypeInv /\ OrderInv /\ Honest(file) /\ Honest(mem) /\ RunInv
        /\ Marks(file, tried) /\ (pc # "off" => Marks(mem, tried \cup fresh))

-----------------------------------------------------------------------------
(* Types.                                                                  *)

LEMMA EntryField ==
  ASSUME NEW e \in Entry
  PROVE  /\ [e EXCEPT !.bad = TRUE] \in Entry /\ [e EXCEPT !.aged = TRUE] \in Entry
         /\ [e EXCEPT !.bad = TRUE].bad /\ [e EXCEPT !.bad = TRUE].digest = e.digest
         /\ [e EXCEPT !.bad = TRUE].aged = e.aged
         /\ [e EXCEPT !.aged = TRUE].bad = e.bad /\ [e EXCEPT !.aged = TRUE].digest = e.digest
BY DEF Entry

LEMMA Numbers ==
  /\ Release \subseteq Nat /\ 0 \in Release /\ None \notin Release /\ None \notin Int
  /\ Rows \in Nat /\ Latest \in Nat /\ MaxApply \in Nat \ {0} /\ MaxAct \in Nat /\ MaxFault \in Nat
  /\ Last \in [Ref -> Release] /\ rowOf \in [Ref -> 1 .. Rows]
  /\ NoEntry \in Entry /\ NoEntry.digest = None /\ ~NoEntry.aged
  /\ NoOld \in [Ref -> Release \cup {None}]
<1>1. {Rows, MaxApply, Latest, MaxAct, MaxFault} \subseteq Nat /\ MaxApply > 0 /\ None \notin Int
  BY AutoAssumption
<1>2. Latest \in Nat /\ Rows \in Nat /\ MaxApply \in Nat /\ MaxAct \in Nat /\ MaxFault \in Nat
  BY <1>1
<1>3. QED  BY <1>1, <1>2, AutoAssumption DEF Release, NoEntry, NoOld, Entry

LEMMA KnownType ==
  ASSUME TypeOK, NEW r \in Ref
  PROVE  /\ Known(r) \in Entry /\ Known(r).digest = remote[r]
         /\ Known(r) = mem[r] \/ ~Known(r).aged
         /\ mem[r].digest = remote[r] => Known(r) = mem[r]
BY Numbers DEF TypeOK, Known, Entry, NoEntry

LEMMA AgeType ==
  ASSUME TypeOK, NEW f \in [Ref -> Entry], NEW r \in Ref
  PROVE  /\ Age(f, r) \in [Ref -> Entry]
         /\ \A q \in Ref : /\ Age(f, r)[q].digest = f[q].digest /\ Age(f, r)[q].bad = f[q].bad
                           /\ \/ Age(f, r)[q].aged = f[q].aged
                              \/ f[q].digest = remote[q] /\ q \in shelf
<1>1. PICK e \in Entry : e = f[r]
  OBVIOUS
<1>2. Age(f, r) = f \/ (e.digest = remote[r] /\ r \in shelf
                       /\ Age(f, r) = [f EXCEPT ![r] = [e EXCEPT !.aged = TRUE]])
  BY <1>1 DEF Age
<1>3. QED  BY <1>1, <1>2, EntryField

LEMMA FaultType ==
  ASSUME TypeOK, Fault \/ UNCHANGED faults
  PROVE  faults' \in 0 .. MaxFault
BY Numbers DEF TypeOK, Fault

LEMMA NextRowType ==
  ASSUME TypeOK, NextRow, row <= Rows
  PROVE  /\ pc' = "row" /\ row' = row + 1 /\ row' \in 1 .. Rows + 1
         /\ todo' \subseteq Ref /\ old' \in [Ref -> Release \cup {None}]
BY Numbers DEF TypeOK, NextRow

LEMMA TypeRun ==
  ASSUME TypeInv, Begin \/ Check \/ Gate \/ Pull \/ Write \/ Kill
  PROVE  TypeInv'
<1>1. CASE Begin
  BY <1>1, Numbers DEF TypeInv, TypeOK, Doing, Deciding, Begin, world
<1>2. CASE Check
  <2>1. mem' \in [Ref -> Entry]
    BY <1>2, KnownType, Numbers DEF Check, TypeInv, TypeOK
  <2>2. faults' \in 0 .. MaxFault
    BY <1>2, FaultType DEF Check, TypeInv
  <2>3. \/ NextRow /\ row <= Rows
        \/ /\ pc' = "gate" /\ todo' \subseteq In(row) /\ row <= Rows
           /\ UNCHANGED <<row, old>>
    BY <1>2 DEF Check
  <2>4. QED
    BY <1>2, <2>1, <2>2, <2>3, NextRowType DEF TypeInv, TypeOK, Doing, Deciding, Check, world, In
<1>3. CASE Gate
  <2>1. faults' \in 0 .. MaxFault
    BY <1>3, FaultType DEF Gate, TypeInv
  <2>2. \/ NextRow /\ row <= Rows
        \/ pc' = "pull" /\ UNCHANGED <<row, todo, old>>
    BY <1>3 DEF Gate, TypeInv, Doing, Deciding
  <2>3. applied' \in 0 .. MaxApply
    BY <1>3, Numbers DEF TypeInv, TypeOK, Gate, Counted
  <2>4. QED
    BY <1>3, <2>1, <2>2, <2>3, NextRowType DEF TypeInv, TypeOK, Doing, Deciding, Gate, world
<1>4. CASE Pull
  <2>1. faults' \in 0 .. MaxFault
    BY <1>4, FaultType DEF Pull, Pulled, TypeInv
  <2>2. \/ NextRow /\ row <= Rows
        \/ pc' = "major" /\ UNCHANGED <<row, todo, old>>
    BY <1>4 DEF Pull, Pulled, TypeInv, Doing, Deciding
  <2>3. QED
    BY <1>4, <2>1, <2>2, NextRowType DEF TypeInv, TypeOK, Doing, Deciding, Pull, Pulled
<1>5. CASE Write
  BY <1>5, Numbers DEF TypeInv, TypeOK, Doing, Deciding, Write, world
<1>6. CASE Kill
  BY <1>6, Numbers, FaultType DEF TypeInv, TypeOK, Doing, Deciding, Kill
<1>7. QED  BY <1>1, <1>2, <1>3, <1>4, <1>5, <1>6

LEMMA HoldMajorType ==
  ASSUME TypeInv, HoldMajor
  PROVE  /\ TypeInv' /\ row <= Rows
         /\ \A r \in Ref : mem'[r].digest = mem[r].digest /\ mem'[r].aged = mem[r].aged
                          /\ (mem[r].bad => mem'[r].bad)
<1>1. ASSUME NEW r \in Ref
      PROVE  /\ mem'[r] \in Entry /\ mem'[r].digest = mem[r].digest
             /\ mem'[r].aged = mem[r].aged /\ (mem[r].bad => mem'[r].bad)
  <2>1. PICK e \in Entry : e = mem[r]
    BY DEF TypeInv, TypeOK
  <2>2. mem'[r] = e \/ mem'[r] = [e EXCEPT !.bad = TRUE]
    BY <2>1 DEF HoldMajor
  <2>3. QED  BY <2>1, <2>2, EntryField
<1>2. mem' \in [Ref -> Entry]
  BY <1>1 DEF HoldMajor
<1>3. row <= Rows
  BY DEF HoldMajor, TypeInv, Doing, Deciding
<1>4. \/ NextRow
      \/ /\ pc' = "update" /\ todo' \subseteq todo /\ UNCHANGED row
         /\ old' = [r \in Ref |-> IF r \in In(row) THEN image[r] ELSE None]
  BY DEF HoldMajor, Pending
<1>5. QED
  BY <1>1, <1>2, <1>3, <1>4, NextRowType DEF TypeInv, TypeOK, Doing, Deciding, HoldMajor

\* What a run remembers of a ref when its update has ended with c.
Keeps(r, c) ==
  \/ c = 0 /\ r \in todo /\ mem'[r] = NoEntry
  \/ /\ mem'[r].digest = mem[r].digest /\ mem'[r].aged = mem[r].aged
     /\ (mem[r].bad \/ (r \in todo /\ c \in {1, 3})) => mem'[r].bad

LEMMA ReturnType ==
  ASSUME TypeInv, NEW c \in 0 .. 3, Return(c)
  PROVE  /\ TypeInv' /\ row <= Rows
         /\ \A r \in Ref : Keeps(r, c)
<1>1. ASSUME NEW r \in Ref
      PROVE  mem'[r] \in Entry /\ Keeps(r, c)
  <2>1. PICK e \in Entry : e = mem[r]
    BY DEF TypeInv, TypeOK
  <2>2. /\ [e EXCEPT !.bad = TRUE] \in Entry /\ [e EXCEPT !.bad = TRUE].bad
        /\ [e EXCEPT !.bad = TRUE].digest = e.digest /\ [e EXCEPT !.bad = TRUE].aged = e.aged
    BY EntryField
  <2>3. \/ c = 0 /\ r \in todo /\ mem'[r] = NoEntry
        \/ (r \notin todo \/ c = 2) /\ mem'[r] = e
        \/ c \in {1, 3} /\ r \in todo /\ mem'[r] = [e EXCEPT !.bad = TRUE]
    BY <2>1 DEF Return, Failed
  <2>4. mem'[r] \in Entry
    BY <2>2, <2>3, Numbers
  <2>5. Keeps(r, c)
    <3>1. CASE c = 0 /\ r \in todo /\ mem'[r] = NoEntry
      BY <3>1 DEF Keeps
    <3>2. CASE (r \notin todo \/ c = 2) /\ mem'[r] = e
      BY <2>1, <3>2 DEF Keeps
    <3>3. CASE c \in {1, 3} /\ r \in todo /\ mem'[r] = [e EXCEPT !.bad = TRUE]
      <4>1. mem'[r].bad /\ mem'[r].digest = mem[r].digest /\ mem'[r].aged = mem[r].aged
        BY <2>1, <2>2, <3>3
      <4>2. QED  BY <4>1 DEF Keeps
    <3>4. QED  BY <2>3, <3>1, <3>2, <3>3
  <2>6. QED  BY <2>4, <2>5
<1>2. mem' \in [Ref -> Entry]
  BY <1>1 DEF Return
<1>3. row <= Rows
  BY DEF Return, TypeInv, Doing, Deciding
<1>4. tag' \in [Ref -> Release]
  <2>1. \A r \in In(row) : r \in Ref /\ old[r] \in Release
    BY DEF Return, TypeInv, TypeOK, In
  <2>2. QED
    BY <2>1 DEF Return, TypeInv, TypeOK
<1>5. faults' \in 0 .. MaxFault
  BY FaultType DEF Return, TypeInv
<1>6. /\ pc' = "row" /\ row' \in 1 .. Rows + 1
      /\ todo' \subseteq Ref /\ old' \in [Ref -> Release \cup {None}]
  BY <1>3, NextRowType DEF Return, TypeInv
<1>7. image' \in [Ref -> Release]
  BY DEF Return
<1>8. fresh' \subseteq Ref \X Release
  BY DEF Return, TypeInv, TypeOK
<1>9. TypeInv'
  BY <1>2, <1>4, <1>5, <1>6, <1>7, <1>8 DEF TypeInv, TypeOK, Doing, Deciding, Return
<1>10. QED  BY <1>1, <1>3, <1>9
LEMMA TypeAround ==
  ASSUME TypeInv, NEW r \in Ref,
         Publish(r) \/ Shelf(r) \/ Cool(r) \/ OwnerPull(r) \/ OwnerUp(r)
  PROVE  TypeInv'
<1>1. CASE Publish(r)
  <2>1. remote[r] \in Nat /\ Last[r] \in 0 .. Latest /\ remote[r] < Last[r]
    BY <1>1, Numbers DEF Publish, TypeInv, TypeOK, Release
  <2>2. remote[r] + 1 \in Release
    BY <2>1, Numbers DEF Release
  <2>3. QED
    BY <1>1, <2>2 DEF TypeInv, TypeOK, Publish, self, Moves
<1>2. CASE Shelf(r)
  BY <1>2 DEF TypeInv, TypeOK, Shelf, self
<1>3. CASE Cool(r)
  <2>1. file \in [Ref -> Entry] /\ mem \in [Ref -> Entry]
    BY DEF TypeInv, TypeOK
  <2>2. file' \in [Ref -> Entry] /\ mem' \in [Ref -> Entry]
    BY <1>3, <2>1, AgeType DEF Cool, TypeInv
  <2>3. QED
    BY <1>3, <2>2 DEF TypeInv, TypeOK, Cool, self, world
<1>4. CASE OwnerPull(r)
  BY <1>4, Numbers DEF TypeInv, TypeOK, OwnerPull, self, Moves
<1>5. CASE OwnerUp(r)
  BY <1>5, Numbers DEF TypeInv, TypeOK, OwnerUp, self, Moves
<1>6. QED  BY <1>1, <1>2, <1>3, <1>4, <1>5

LEMMA TypeInit ==
  ASSUME Init  PROVE TypeInv
BY Numbers DEF Init, TypeInv, TypeOK, Doing, Deciding

LEMMA TypeStep ==
  ASSUME TypeInv, [Next]_vars  PROVE TypeInv'
<1>1. CASE UNCHANGED vars
  BY <1>1 DEF vars, world, TypeInv, TypeOK
<1>2. CASE Next
  BY <1>2, TypeRun, HoldMajorType, ReturnType, TypeAround DEF Next, Run, Time, World
<1>3. QED  BY <1>1, <1>2

\* The variables keep their types: no row, ref or digest is made up.
THEOREM AutoType == Spec => []TypeOK
<1>1. Spec => []TypeInv
  BY TypeInit, TypeStep, PTL DEF Spec
<1>2. TypeInv => TypeOK
  BY DEF TypeInv
<1>3. QED  BY <1>1, <1>2, PTL
-----------------------------------------------------------------------------
(* Images, tags and the registry.                                          *)

\* How the steps of a run change images and tags.
LEMMA ImageStep ==
  ASSUME TypeInv, OrderInv, Run \/ Kill \/ Begin, NEW r \in Ref
  PROVE  /\ UNCHANGED remote
         /\ image'[r] \in {image[r], tag[r]}
         /\ image'[r] <= tag'[r] /\ tag'[r] <= remote[r]
<1>0. /\ image[r] \in Nat /\ tag[r] \in Nat /\ remote[r] \in Nat
      /\ image[r] <= tag[r] /\ tag[r] <= remote[r]
  BY Numbers DEF TypeInv, TypeOK, OrderInv
<1>1. CASE Begin \/ Check \/ Gate \/ Write
  BY <1>0, <1>1 DEF Begin, Check, Gate, Write, world
<1>2. CASE Pull
  BY <1>0, <1>2 DEF Pull, Pulled, TypeInv, TypeOK
<1>3. CASE HoldMajor
  BY <1>0, <1>3 DEF HoldMajor, TypeInv, TypeOK
<1>4. CASE Kill
  BY <1>0, <1>4 DEF Kill, TypeInv, TypeOK
<1>5. ASSUME NEW c \in 0 .. 3, Return(c)  PROVE
        /\ UNCHANGED remote
        /\ image'[r] \in {image[r], tag[r]}
        /\ image'[r] <= tag'[r] /\ tag'[r] <= remote[r]
  <2>1. /\ pc = "update" /\ UNCHANGED remote
        /\ \A q \in Ref : old[q] = IF q \in In(row) THEN image[q] ELSE None
    BY <1>5 DEF Return, TypeInv
  <2>2. PICK new \in [Ref -> Release] : Outcome(c, new) /\ image' = new
    BY <1>5 DEF Return
  <2>3. image'[r] \in {image[r], tag[r]} /\ (r \notin In(row) => image'[r] = image[r])
    BY <2>2 DEF Outcome
  <2>4. tag'[r] = IF c \in {1, 2} /\ r \in In(row) THEN old[r] ELSE tag[r]
    BY <1>5 DEF Return, TypeInv, TypeOK
  <2>5. CASE c \in {1, 2} /\ r \in In(row)
    <3>1. old[r] = image[r] /\ old[r] # None
      BY <1>0, <2>1, <2>5, Numbers DEF TypeInv, TypeOK
    <3>2. image'[r] = image[r]
      BY <2>2, <2>5, <3>1 DEF Outcome, Contract!Promise
    <3>3. QED  BY <1>0, <2>1, <2>4, <2>5, <3>1, <3>2
  <2>6. CASE ~(c \in {1, 2} /\ r \in In(row))
    BY <1>0, <2>1, <2>3, <2>4, <2>6
  <2>7. QED  BY <2>5, <2>6
<1>6. QED  BY <1>1, <1>2, <1>3, <1>4, <1>5 DEF Run

\* What the owner and the registry change.
LEMMA WorldStep ==
  ASSUME TypeInv, OrderInv, NEW q \in Ref,
         Publish(q) \/ Shelf(q) \/ Cool(q) \/ OwnerPull(q) \/ OwnerUp(q), NEW r \in Ref
  PROVE  /\ remote[r] <= remote'[r] /\ (remote'[r] # remote[r] => r \in moved' \/ pc \notin Doing)
         /\ image'[r] \in {image[r], tag[r]}
         /\ image'[r] <= tag'[r] /\ tag'[r] <= remote'[r]
<1>0. /\ image[r] \in Nat /\ tag[r] \in Nat /\ remote[r] \in Nat
      /\ image[r] <= tag[r] /\ tag[r] <= remote[r]
  BY Numbers DEF TypeInv, TypeOK, OrderInv
<1>1. CASE Publish(q)
  BY <1>0, <1>1 DEF Publish, Moves, Doing, Deciding, TypeInv, TypeOK
<1>2. CASE Shelf(q) \/ Cool(q)
  BY <1>0, <1>2 DEF Shelf, Cool, world
<1>3. CASE OwnerPull(q)
  BY <1>0, <1>3 DEF OwnerPull, TypeInv, TypeOK
<1>4. CASE OwnerUp(q)
  BY <1>0, <1>4 DEF OwnerUp, TypeInv, TypeOK
<1>5. QED  BY <1>1, <1>2, <1>3, <1>4

LEMMA OrderStep ==
  ASSUME TypeInv, OrderInv, Next
  PROVE  OrderInv'
<1>1. \A r \in Ref : image'[r] <= tag'[r] /\ tag'[r] <= remote'[r] /\ remote[r] <= remote'[r]
  <2> SUFFICES ASSUME NEW r \in Ref
               PROVE  image'[r] <= tag'[r] /\ tag'[r] <= remote'[r] /\ remote[r] <= remote'[r]
    OBVIOUS
  <2>1. CASE Begin \/ Run \/ Kill
    <3>1. UNCHANGED remote /\ image'[r] <= tag'[r] /\ tag'[r] <= remote[r]
      BY <2>1, ImageStep
    <3>2. remote[r] \in Nat
      BY Numbers DEF TypeInv, TypeOK
    <3>3. QED  BY <3>1, <3>2
  <2>2. CASE Time \/ World
    BY <2>2, WorldStep DEF Time, World
  <2>3. QED  BY <2>1, <2>2 DEF Next
<1>2. ASSUME NEW t \in (tried \cup fresh)'  PROVE t[2] <= remote'[t[1]]
  <2>1. CASE t \in tried \cup fresh
    <3>1. t[1] \in Ref /\ t[2] \in Nat /\ t[2] <= remote[t[1]] /\ remote[t[1]] \in Nat
      BY <2>1, Numbers DEF TypeInv, TypeOK, OrderInv
    <3>2. remote'[t[1]] \in Nat
      BY <3>1, TypeStep, Numbers DEF TypeInv, TypeOK
    <3>3. QED  BY <1>1, <3>1, <3>2
  <2>2. CASE t \notin tried \cup fresh
    <3>1. PICK c \in 0 .. 3 : Return(c)
      BY <1>2, <2>2 DEF Next, Begin, Run, Check, Gate, Pull, Pulled, HoldMajor, Write, Kill, Time, World,
         Publish, Shelf, Cool, OwnerPull, OwnerUp, self
    <3>2. UNCHANGED remote /\ \E r \in todo : t = <<r, tag[r]>>
      BY <1>2, <2>2, <3>1 DEF Return
    <3>3. QED  BY <3>2 DEF OrderInv, TypeInv, TypeOK
  <2>3. QED  BY <2>1, <2>2
<1>3. QED  BY <1>1, <1>2 DEF OrderInv

-----------------------------------------------------------------------------
(* What entries say.                                                       *)

\* What may be said of a ref whose release is out, and on the shelf or not.
Truthful(e, out, on) ==
  /\ e.digest # None => e.digest <= out
  /\ e.aged /\ e.digest = out => on

\* An entry stays truthful while the registry offers the same or more.
LEMMA TruthStays ==
  ASSUME TypeInv, OrderInv, Next, NEW r \in Ref, NEW e \in Entry, Truthful(e, remote[r], r \in shelf)
  PROVE  Truthful(e, remote'[r], r \in shelf')
<1>1. remote[r] \in Nat /\ (e.digest = None \/ e.digest \in Nat)
  BY Numbers DEF TypeInv, TypeOK, Entry
<1>2. CASE Begin \/ Run \/ Kill
  <2>1. UNCHANGED <<remote, shelf>>
    BY <1>2, ImageStep DEF Begin, Run, Kill, world, Check, Gate, Pull, Pulled, HoldMajor, Return, Write
  <2>2. QED  BY <2>1 DEF Truthful
<1>3. ASSUME NEW q \in Ref, Publish(q)  PROVE Truthful(e, remote'[r], r \in shelf')
  <2>1. CASE q = r
    <3>1. remote'[r] = remote[r] + 1
      BY <1>3, <2>1 DEF Publish, TypeInv, TypeOK
    <3>2. remote[r] + 1 # None /\ remote[r] + 1 \in Nat
      BY <1>1, Numbers
    <3>3. CASE e.digest = None
      BY <3>1, <3>2, <3>3 DEF Truthful
    <3>4. CASE e.digest \in Nat
      <4>1. e.digest <= remote[r]
        BY <3>4, Numbers DEF Truthful
      <4>2. e.digest <= remote'[r] /\ e.digest # remote'[r]
        BY <1>1, <3>1, <3>4, <4>1
      <4>3. QED  BY <4>2 DEF Truthful
    <3>5. QED  BY <1>1, <3>3, <3>4
  <2>2. CASE q # r
    BY <1>3, <2>2 DEF Publish, Truthful, TypeInv, TypeOK
  <2>3. QED  BY <2>1, <2>2
<1>4. ASSUME NEW q \in Ref, Shelf(q) \/ Cool(q) \/ OwnerPull(q) \/ OwnerUp(q)
      PROVE  Truthful(e, remote'[r], r \in shelf')
  BY <1>4 DEF Shelf, Cool, OwnerPull, OwnerUp, world, Truthful
<1>5. QED  BY <1>2, <1>3, <1>4 DEF Next, Time, World

LEMMA HonestStep ==
  ASSUME TypeInv, OrderInv, Honest(file), Honest(mem), Next
  PROVE  Honest(file)' /\ Honest(mem)'
<1> SUFFICES ASSUME NEW r \in Ref
             PROVE  /\ Truthful(file'[r], remote'[r], r \in shelf')
                    /\ Truthful(mem'[r], remote'[r], r \in shelf')
  BY DEF Honest, Truthful
<1>0. /\ file[r] \in Entry /\ mem[r] \in Entry
      /\ Truthful(file[r], remote[r], r \in shelf)
      /\ Truthful(mem[r], remote[r], r \in shelf)
  BY DEF TypeInv, TypeOK, Honest, Truthful
<1>1. /\ Truthful(file[r], remote'[r], r \in shelf')
      /\ Truthful(mem[r], remote'[r], r \in shelf')
  BY <1>0, TruthStays
<1>2. CASE Begin \/ Gate \/ Pull \/ Write \/ Kill
  <2>1. file' \in {file, mem} /\ mem' \in {file, mem}
    BY <1>2 DEF Begin, Gate, Pull, Pulled, Write, Kill
  <2>2. QED  BY <1>1, <2>1
<1>3. CASE Check
  <2>1. UNCHANGED <<file, remote, shelf>>
    BY <1>3 DEF Check, world
  <2>2. mem'[r] = mem[r] \/ mem'[r] = NoEntry \/ mem'[r] = Known(r)
    BY <1>3 DEF Check
  <2>3. /\ Truthful(NoEntry, remote[r], r \in shelf)
        /\ Truthful(Known(r), remote[r], r \in shelf)
    <3>1. Known(r) = mem[r] \/ (~Known(r).aged /\ Known(r).digest = remote[r])
      BY KnownType DEF TypeInv
    <3>2. remote[r] \in Nat
      BY Numbers DEF TypeInv, TypeOK
    <3>3. QED  BY <1>0, <3>1, <3>2, Numbers DEF Truthful
  <2>4. QED  BY <1>1, <2>1, <2>2, <2>3 DEF Truthful
<1>4. CASE HoldMajor
  <2>1. file'[r] = file[r] /\ mem'[r].digest = mem[r].digest /\ mem'[r].aged = mem[r].aged
    BY <1>4, HoldMajorType DEF HoldMajor
  <2>2. QED  BY <1>1, <2>1 DEF Truthful
<1>5. ASSUME NEW c \in 0 .. 3, Return(c)
      PROVE  /\ Truthful(file'[r], remote'[r], r \in shelf')
             /\ Truthful(mem'[r], remote'[r], r \in shelf')
  <2>1. file'[r] = file[r] /\ Keeps(r, c)
    BY <1>5, ReturnType DEF Return
  <2>2. QED  BY <1>1, <2>1, Numbers DEF Truthful, Keeps
<1>6. ASSUME NEW q \in Ref, Publish(q) \/ Shelf(q) \/ OwnerPull(q) \/ OwnerUp(q)
      PROVE  /\ Truthful(file'[r], remote'[r], r \in shelf')
             /\ Truthful(mem'[r], remote'[r], r \in shelf')
  <2>1. UNCHANGED <<file, mem>>
    BY <1>6 DEF Publish, Shelf, OwnerPull, OwnerUp
  <2>2. QED  BY <1>1, <2>1
<1>7. ASSUME NEW q \in Ref, Cool(q)
      PROVE  /\ Truthful(file'[r], remote'[r], r \in shelf')
             /\ Truthful(mem'[r], remote'[r], r \in shelf')
  <2>1. /\ file' = Age(file, q) /\ mem' = Age(mem, q) /\ UNCHANGED <<remote, shelf>>
        /\ file \in [Ref -> Entry] /\ mem \in [Ref -> Entry]
    BY <1>7 DEF Cool, world, TypeInv, TypeOK
  <2>2. /\ file'[r].digest = file[r].digest
        /\ file'[r].aged = file[r].aged \/ (file[r].digest = remote[r] /\ r \in shelf)
        /\ mem'[r].digest = mem[r].digest
        /\ mem'[r].aged = mem[r].aged \/ (mem[r].digest = remote[r] /\ r \in shelf)
    BY <2>1, AgeType DEF TypeInv
  <2>3. QED  BY <1>0, <2>1, <2>2 DEF Truthful
<1>8. QED  BY <1>2, <1>3, <1>4, <1>5, <1>6, <1>7 DEF Next, Run, Time, World

-----------------------------------------------------------------------------
(* What has failed.                                                        *)

\* A failure that matters after a step mattered before it: releases only go up.
LEMMA MatteredBefore ==
  ASSUME TypeInv, OrderInv, Next, NEW t \in tried \cup fresh,
         remote'[t[1]] = t[2], image'[t[1]] # t[2]
  PROVE  t[1] \in Ref /\ remote[t[1]] = t[2] /\ image[t[1]] # t[2]
<1>1. t[1] \in Ref /\ t[2] \in Nat /\ t[2] <= remote[t[1]]
  BY Numbers DEF TypeInv, TypeOK, OrderInv
<1>2. PICK r \in Ref : r = t[1]
  BY <1>1
<1>3. /\ remote[r] \in Nat /\ tag[r] \in Nat /\ image[r] \in Nat
      /\ image[r] <= tag[r] /\ tag[r] <= remote[r]
  BY Numbers DEF TypeInv, TypeOK, OrderInv
<1>4. remote[r] <= remote'[r] /\ image'[r] \in {image[r], tag[r]}
  <2>1. CASE Begin \/ Run \/ Kill
    BY <1>3, <2>1, ImageStep
  <2>2. CASE Time \/ World
    BY <2>2, WorldStep DEF Time, World
  <2>3. QED  BY <2>1, <2>2 DEF Next
<1>5. remote'[r] \in Nat
  BY TypeStep, Numbers DEF TypeInv, TypeOK
<1>6. remote[r] = t[2]
  BY <1>1, <1>2, <1>3, <1>4, <1>5
<1>7. image[r] # t[2]
  BY <1>2, <1>3, <1>4, <1>6
<1>8. QED  BY <1>2, <1>6, <1>7

LEMMA FileMarks ==
  ASSUME AInv, Next
  PROVE  Marks(file, tried)'
<1>1. ASSUME NEW t \in tried', remote'[t[1]] = t[2], image'[t[1]] # t[2],
             t \in tried, UNCHANGED file
      PROVE  file'[t[1]].bad /\ file'[t[1]].digest = t[2]
  <2>1. remote[t[1]] = t[2] /\ image[t[1]] # t[2]
    BY <1>1, MatteredBefore DEF AInv
  <2>2. QED  BY <1>1, <2>1 DEF AInv, Marks
<1>2. CASE Write
  BY <1>2 DEF Write, AInv, Marks, world
<1>3. ASSUME NEW q \in Ref, Cool(q)  PROVE Marks(file, tried)'
  <2>1. /\ UNCHANGED <<remote, image, tried>>
        /\ \A r \in Ref : file'[r].bad = file[r].bad /\ file'[r].digest = file[r].digest
    BY <1>3, AgeType DEF Cool, world, AInv, TypeInv, TypeOK
  <2>2. \A t \in tried : t[1] \in Ref
    BY DEF AInv, TypeInv, TypeOK
  <2>3. QED  BY <2>1, <2>2 DEF AInv, Marks
<1>4. CASE ~Write /\ ~\E q \in Ref : Cool(q)
  <2>1. UNCHANGED file /\ tried' \subseteq tried
    BY <1>4 DEF Next, Begin, Run, Check, Gate, Pull, Pulled, HoldMajor, Return, Kill, Time, World,
       Publish, Shelf, OwnerPull, OwnerUp, self
  <2>2. QED  BY <1>1, <2>1 DEF Marks
<1>5. QED  BY <1>2, <1>3, <1>4

LEMMA MemMarks ==
  ASSUME AInv, Next, pc' # "off"
  PROVE  Marks(mem, tried \cup fresh)'
<1> SUFFICES ASSUME NEW t \in (tried \cup fresh)', remote'[t[1]] = t[2], image'[t[1]] # t[2]
             PROVE  mem'[t[1]].bad /\ mem'[t[1]].digest = t[2]
  BY DEF Marks
<1>1. CASE Begin
  <2>1. t \in tried /\ mem' = file /\ UNCHANGED <<remote, image>>
    BY <1>1 DEF Begin, AInv, RunInv, world
  <2>2. QED  BY <2>1 DEF AInv, Marks
<1>2. ASSUME pc # "off", t \in tried \cup fresh
      PROVE  /\ t[1] \in Ref /\ remote[t[1]] = t[2] /\ image[t[1]] # t[2]
             /\ mem[t[1]].bad /\ mem[t[1]].digest = t[2]
  <2>1. t[1] \in Ref /\ remote[t[1]] = t[2] /\ image[t[1]] # t[2]
    BY <1>2, MatteredBefore DEF AInv
  <2>2. QED  BY <1>2, <2>1 DEF AInv, Marks
<1>3. CASE Check
  <2>1. pc # "off" /\ t \in tried \cup fresh
    BY <1>3 DEF Check
  <2>2. mem'[t[1]] = mem[t[1]]
    <3>1. PICK r \in Ref : r = t[1]
      BY <1>2, <2>1
    <3>2. Known(r) = mem[r] /\ remote[r] # image[r]
      BY <1>2, <2>1, <3>1, KnownType DEF AInv, TypeInv
    <3>3. mem'[r] = mem[r]
      BY <1>3, <3>2 DEF Check
    <3>4. QED  BY <3>1, <3>3
  <2>3. QED  BY <1>2, <2>1, <2>2
<1>4. CASE Gate \/ Pull
  BY <1>2, <1>4 DEF Gate, Pull, Pulled
<1>5. CASE HoldMajor
  <2>1. pc # "off" /\ t \in tried \cup fresh
    BY <1>5 DEF HoldMajor
  <2>2. QED  BY <1>2, <1>5, <2>1, HoldMajorType DEF AInv
<1>6. ASSUME NEW c \in 0 .. 3, Return(c)
      PROVE  mem'[t[1]].bad /\ mem'[t[1]].digest = t[2]
  <2>0. pc = "update" /\ UNCHANGED <<tried, remote>> /\ todo \subseteq In(row)
    BY <1>6 DEF Return, AInv, TypeInv, Doing
  <2>1. CASE t \in tried \cup fresh
    <3>1. PICK r \in Ref : r = t[1]
      BY <1>2, <2>0, <2>1
    <3>2. /\ remote[r] = t[2] /\ image'[r] # t[2]
          /\ mem[r].bad /\ mem[r].digest = t[2] /\ Keeps(r, c)
      BY <1>2, <1>6, <2>0, <2>1, <3>1, ReturnType DEF AInv
    <3>3. ~(c = 0 /\ r \in todo)
      <4>1. SUFFICES ASSUME c = 0, r \in todo  PROVE FALSE
        OBVIOUS
      <4>2. image'[r] = tag[r]
        BY <1>6, <2>0, <4>1 DEF Return, Outcome
      <4>3. tag[r] # remote[r]
        BY <3>2, <4>2
      <4>4. t \in fresh
        BY <2>0, <2>1, <3>1, <3>2, <4>1, <4>3 DEF AInv, RunInv
      <4>5. rowOf[r] < row /\ rowOf[r] = row /\ row \in Nat
        BY <2>0, <3>1, <4>1, <4>4, Numbers DEF AInv, RunInv, In, TypeInv, TypeOK
      <4>6. QED  BY <4>5
    <3>4. QED  BY <3>1, <3>2, <3>3 DEF Keeps
  <2>2. CASE t \notin tried \cup fresh
    <3>1. PICK r \in todo \ moved : t = <<r, tag[r]>> /\ c \in {1, 3}
      BY <1>6, <2>0, <2>2 DEF Return
    <3>2. r \in Ref /\ Decided(r) /\ Keeps(r, c)
      BY <1>6, <2>0, <3>1, ReturnType DEF AInv, RunInv, Doing, In
    <3>3. mem'[r].bad /\ mem'[r].digest = mem[r].digest
      BY <3>1, <3>2 DEF Keeps
    <3>4. mem[r].digest = remote[r]
      BY <2>0, <3>2 DEF Decided, Doing
    <3>5. QED  BY <2>0, <3>1, <3>3, <3>4
  <2>3. QED  BY <2>1, <2>2
<1>7. ASSUME NEW q \in Ref, Cool(q)  PROVE mem'[t[1]].bad /\ mem'[t[1]].digest = t[2]
  <2>1. /\ pc # "off" /\ t \in tried \cup fresh
        /\ \A r \in Ref : mem'[r].bad = mem[r].bad /\ mem'[r].digest = mem[r].digest
    BY <1>7, AgeType DEF Cool, self, world, AInv, TypeInv, TypeOK
  <2>2. QED  BY <1>2, <2>1
<1>8. ASSUME NEW q \in Ref, Publish(q) \/ Shelf(q) \/ OwnerPull(q) \/ OwnerUp(q)
      PROVE  mem'[t[1]].bad /\ mem'[t[1]].digest = t[2]
  <2>1. pc # "off" /\ t \in tried \cup fresh /\ UNCHANGED mem
    BY <1>8 DEF Publish, Shelf, OwnerPull, OwnerUp, self
  <2>2. QED  BY <1>2, <2>1
<1>9. QED
  BY <1>1, <1>3, <1>4, <1>5, <1>6, <1>7, <1>8 DEF Next, Run, Kill, Write, Time, World

-----------------------------------------------------------------------------
(* What a run has decided.                                                 *)

LEMMA RunRun ==
  ASSUME AInv, Run \/ Begin \/ Kill
  PROVE  RunInv'
<1>0. /\ row \in Nat /\ \A t \in fresh : t[1] \in Ref /\ rowOf[t[1]] \in Nat /\ rowOf[t[1]] < row
  BY Numbers DEF AInv, RunInv, TypeInv, TypeOK
<1>1. CASE Begin \/ Kill \/ Write
  BY <1>1 DEF Begin, Kill, Write, RunInv, AInv, Doing, Deciding
<1>2. ASSUME NextRow, UNCHANGED fresh, pc # "off"  PROVE RunInv'
  BY <1>0, <1>2 DEF NextRow, RunInv, Doing, Deciding
<1>3. CASE Check /\ ~NextRow
  <2>1. PICK mute \in SUBSET In(row) :
          /\ mem' = [r \in Ref |-> IF r \notin In(row) \ mute THEN mem[r]
                                   ELSE IF remote[r] = image[r] THEN NoEntry ELSE Known(r)]
          /\ pc' = "gate" /\ todo' = {r \in In(row) \ mute : Apply(r)}
    BY <1>3 DEF Check
  <2>2. UNCHANGED <<remote, shelf, moved, late, tried, fresh, row>>
    BY <1>3 DEF Check, world
  <2>3. ASSUME NEW r \in todo'  PROVE Decided(r)' /\ r \in shelf'
    <3>1. r \in Ref /\ mem'[r] = Known(r) /\ ~Known(r).bad /\ Known(r).aged
      BY <2>1, <2>3 DEF Apply, In
    <3>2. Known(r) = mem[r] /\ mem[r].digest = remote[r]
      BY <3>1, KnownType DEF AInv, TypeInv
    <3>3. r \in shelf
      BY <3>1, <3>2 DEF AInv, Honest
    <3>4. QED  BY <2>1, <2>2, <3>1, <3>2, <3>3 DEF Decided, Doing, Deciding
  <2>4. QED  BY <1>0, <2>1, <2>2, <2>3 DEF RunInv
<1>4. CASE Gate /\ ~NextRow
  BY <1>4 DEF Gate, world, AInv, RunInv, Decided, Doing, Deciding
<1>5. CASE Pull /\ ~NextRow
  <2>1. /\ pc = "pull" /\ pc' = "major" /\ todo \subseteq In(row)
        /\ UNCHANGED <<remote, shelf, mem, moved, late, tried, fresh, row, todo>>
        /\ \A r \in In(row) : r \in Ref /\ tag'[r] = remote[r]
    BY <1>5 DEF Pull, Pulled, AInv, TypeInv, Doing, Deciding, In
  <2>2. QED  BY <2>1 DEF AInv, RunInv, Decided, Doing, Deciding
<1>6. CASE HoldMajor /\ ~NextRow
  <2>1. /\ pc = "major" /\ pc' = "update" /\ todo' \subseteq todo
        /\ UNCHANGED <<remote, shelf, moved, late, tried, fresh, row>>
        /\ \A r \in todo' : tag'[r] = tag[r] /\ mem'[r].digest = mem[r].digest
    <3>1. todo' = Pending /\ pc = "major" /\ pc' = "update"
          /\ UNCHANGED <<remote, shelf, moved, late, tried, fresh, row>>
      BY <1>6 DEF HoldMajor
    <3>2. ASSUME NEW r \in Pending  PROVE tag'[r] = tag[r] /\ mem'[r].digest = mem[r].digest
      BY <1>6, HoldMajorType DEF HoldMajor, Pending, AInv, TypeInv, TypeOK
    <3>3. QED  BY <3>1, <3>2 DEF Pending
  <2>2. QED  BY <2>1 DEF AInv, RunInv, Decided, Doing, Deciding
<1>7. ASSUME NEW c \in 0 .. 3, Return(c)  PROVE RunInv'
  <2>1. /\ pc' = "row" /\ row' = row + 1
        /\ \A t \in fresh' : t \in fresh \/ \E r \in todo : t[1] = r
    BY <1>7 DEF Return, NextRow
  <2>2. \A r \in todo : rowOf[r] = row
    BY <1>7 DEF Return, AInv, TypeInv, Doing, In
  <2>3. QED  BY <1>0, <2>1, <2>2 DEF RunInv, Doing, Deciding
<1>8. ASSUME Check \/ Gate \/ Pull \/ HoldMajor, NextRow  PROVE RunInv'
  BY <1>2, <1>8 DEF Check, Gate, Pull, Pulled, HoldMajor
<1>9. QED  BY <1>1, <1>3, <1>4, <1>5, <1>6, <1>7, <1>8 DEF Run

LEMMA RunWorld ==
  ASSUME AInv, NEW q \in Ref,
         Publish(q) \/ Shelf(q) \/ Cool(q) \/ OwnerPull(q) \/ OwnerUp(q)
  PROVE  RunInv'
<1>0. UNCHANGED <<pc, row, todo, fresh>> /\ moved \subseteq moved'
  BY DEF Publish, Shelf, Cool, OwnerPull, OwnerUp, self, Moves
<1>1. ASSUME pc \in Doing, NEW r \in todo \ moved'  PROVE Decided(r)'
  <2>1. Decided(r) /\ r \in Ref
    BY <1>0, <1>1 DEF AInv, TypeInv, RunInv, In
  <2>2. /\ remote'[r] = remote[r] /\ tag'[r] = tag[r] /\ (r \in shelf => r \in shelf')
        /\ mem'[r].digest = mem[r].digest /\ mem'[r].bad = mem[r].bad
    <3>1. CASE Publish(q)
      <4>1. q # r
        BY <1>1, <3>1 DEF Publish, Moves, Doing, Deciding
      <4>2. QED  BY <2>1, <3>1, <4>1 DEF Publish, AInv, TypeInv, TypeOK
    <3>2. CASE Shelf(q)
      BY <3>2 DEF Shelf
    <3>3. CASE Cool(q)
      <4>1. mem' = Age(mem, q) /\ mem \in [Ref -> Entry] /\ UNCHANGED world
        BY <3>3 DEF Cool, AInv, TypeInv, TypeOK
      <4>2. QED  BY <2>1, <4>1, AgeType DEF world, AInv, TypeInv
    <3>4. CASE OwnerPull(q)
      <4>1. q # r
        BY <1>1, <3>4 DEF OwnerPull, Moves, Doing, Deciding
      <4>2. QED  BY <2>1, <3>4, <4>1 DEF OwnerPull, AInv, TypeInv, TypeOK
    <3>5. CASE OwnerUp(q)
      BY <3>5 DEF OwnerUp
    <3>6. QED  BY <3>1, <3>2, <3>3, <3>4, <3>5
  <2>3. QED  BY <1>0, <2>1, <2>2 DEF Decided
<1>2. ASSUME pc \in {"major", "update"}, NEW r \in todo
      PROVE  tag'[r] = remote'[r] \/ \A t \in tried' : t[1] = r => t[2] # remote'[r]
  <2>1. /\ r \in Ref
        /\ tag[r] = remote[r] \/ \A t \in tried : t[1] = r => t[2] # remote[r]
    BY <1>2 DEF AInv, TypeInv, RunInv, In, Doing, Deciding
  <2>2. CASE Publish(q) /\ q = r
    <3>1. remote'[r] = remote[r] + 1 /\ remote[r] \in Nat /\ UNCHANGED tried
      BY <2>1, <2>2, Numbers DEF Publish, AInv, TypeInv, TypeOK
    <3>2. \A t \in tried : t[1] = r => t[2] \in Nat /\ t[2] <= remote[r]
      BY Numbers DEF AInv, TypeInv, TypeOK, OrderInv
    <3>3. QED  BY <3>1, <3>2
  <2>3. CASE Publish(q) /\ q # r
    BY <2>1, <2>3 DEF Publish, AInv, TypeInv, TypeOK
  <2>4. CASE Shelf(q) \/ Cool(q) \/ OwnerUp(q)
    BY <2>1, <2>4 DEF Shelf, Cool, OwnerUp, world
  <2>5. CASE OwnerPull(q)
    BY <2>1, <2>5 DEF OwnerPull, AInv, TypeInv, TypeOK
  <2>6. QED  BY <2>2, <2>3, <2>4, <2>5
<1>3. ASSUME pc \in {"gate", "pull"}, NEW r \in todo  PROVE r \in shelf' \cup late'
  <2>1. r \in shelf \cup late
    BY <1>3 DEF AInv, RunInv
  <2>2. CASE Publish(q)
    BY <1>3, <2>1, <2>2 DEF Publish
  <2>3. CASE Shelf(q) \/ Cool(q) \/ OwnerPull(q) \/ OwnerUp(q)
    BY <2>1, <2>3 DEF Shelf, Cool, OwnerPull, OwnerUp, world
  <2>4. QED  BY <2>2, <2>3
<1>4. QED  BY <1>0, <1>1, <1>2, <1>3 DEF AInv, RunInv, Doing

\* What a run knows of its row agrees with state.json and with the registries,
\* and what failed in a run that ended is marked bad.
THEOREM AutoAInv == Spec => []AInv
<1>1. Init => AInv
  <2> SUFFICES ASSUME Init PROVE AInv
    OBVIOUS
  <2>1. \A r \in Ref : file[r] = NoEntry /\ mem[r] = NoEntry /\ image[r] = 0 /\ tag[r] = 0 /\ remote[r] = 0
    BY DEF Init
  <2>2. QED
    BY <2>1, TypeInit, Numbers
       DEF Init, AInv, OrderInv, Honest, RunInv, Marks, Doing, Deciding
<1>2. AInv /\ [Next]_vars => AInv'
  <2>1. CASE UNCHANGED vars
    BY <2>1 DEF vars, world, AInv, TypeInv, TypeOK, OrderInv, Honest, RunInv, Decided, Marks
  <2>2. ASSUME AInv, Next  PROVE AInv'
    <3>1. TypeInv' /\ OrderInv' /\ Honest(file)' /\ Honest(mem)'
      BY <2>2, TypeStep, OrderStep, HonestStep DEF AInv
    <3>2. RunInv'
      BY <2>2, RunRun, RunWorld DEF Next, Time, World
    <3>3. QED  BY <2>2, <3>1, <3>2, FileMarks, MemMarks DEF AInv
  <2>3. QED  BY <2>1, <2>2
<1>3. QED  BY <1>1, <1>2, PTL DEF Spec

\* The step from the decision to the update.
LEMMA Handover ==
  ASSUME Next, pc = "major", pc' = "update"
  PROVE  HoldMajor /\ todo' = Pending /\ UNCHANGED moved
BY DEF Next, Begin, Run, Check, Gate, Pull, Pulled, HoldMajor, Return, NextRow, Write, Kill, Time, World,
   Publish, Shelf, Cool, OwnerPull, OwnerUp, self

\* No update is tried again that has failed in a run which came to its end.
THEOREM AutoFailedIsHeld == Spec => FailedIsHeld
<1> DEFINE Held == pc = "major" /\ pc' = "update" =>
                     \A r \in todo' \ moved : <<r, tag[r]>> \notin tried
<1>1. AInv /\ [Next]_vars => [Held]_vars
  <2> SUFFICES ASSUME AInv, Next, pc = "major", pc' = "update",
                      NEW r \in todo' \ moved, <<r, tag[r]>> \in tried
               PROVE  FALSE
    OBVIOUS
  <2>1. r \in todo /\ tag[r] # image[r]
    BY Handover DEF Pending
  <2>2. Decided(r)
    BY <2>1 DEF AInv, RunInv, Doing, Deciding
  <2>3. tag[r] = remote[r] /\ ~mem[r].bad
    BY <2>2 DEF Decided, Deciding
  <2>4. mem[r].bad
    BY <2>1, <2>3 DEF AInv, Marks
  <2>5. QED  BY <2>3, <2>4
<1>2. QED  BY <1>1, AutoAInv, PTL DEF Spec, FailedIsHeld

\* What a run pulls for a ref it has decided for has been out for the cool-down,
\* unless the registry got it after the check.
THEOREM AutoCoolsDown == Spec => CoolsDown
<1>1. AInv /\ [Next]_vars =>
        [pc = "pull" /\ pc' = "major" => todo \subseteq shelf \cup late]_vars
  BY DEF AInv, RunInv
<1>2. QED  BY <1>1, AutoAInv, PTL DEF Spec, CoolsDown
=============================================================================
