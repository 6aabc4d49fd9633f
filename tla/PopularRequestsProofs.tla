----------------------- MODULE PopularRequestsProofs -----------------------
(* Theorems of PopularRequests, for any users, titles, threads and limits. *)
EXTENDS PopularRequests, FiniteSetTheorems, TLAPS

\* Where a thread has yet to post its request, and where it holds a row that no
\* request is known for.
Before == {"reserve", "reserved", "svclock", "make"}
Unused == {"reserved", "svclock", "make", "drop"}
Flying == Unused \cup {"keep"}

\* A request that counts against the limits by the row it was made on.
Counts(i) == created[i].known /\ created[i].age < Days

\* A thread at work has the lock of its user, and a request that its user has
\* not made before.
WorkInv(t) ==
  /\ pc[t] # "idle" => job[t] # NoJob /\ userLock[job[t].user] = t
  /\ pc[t] \in Before =>
       \A i \in DOMAIN created : created[i].live =>
         <<created[i].user, created[i].title>> # <<job[t].user, job[t].title>>

\* Its row is its own, and is kept for the request that is known.
SlotInv(t) ==
  /\ pc[t] \in Flying => row[t] \in DOMAIN rows /\ rows[row[t]].user = job[t].user
  /\ pc[t] \in Flying => \A w \in Worker \ {t} : pc[w] \in Flying => row[w] # row[t]
  /\ pc[t] \in Unused => \A i \in DOMAIN created : Counts(i) => created[i].row # row[t]

LockInv ==
  /\ \A t \in Thread : pc[t] = "write" => exportLock = t
  /\ \A t \in Worker : pc[t] = "make" => svcLock = t /\ svcs = 0
  /\ OneServiceUser

\* What is written is never behind what was.
FileInv ==
  /\ file \subseteq asked /\ CacheIsTrue
  /\ \A t \in Thread : snap[t] \subseteq asked /\ (pc[t] = "write" => file \subseteq snap[t])

\* Every known request has a row of its own, and the rows are within the caps.
RowInv ==
  /\ \A i \in DOMAIN created : Counts(i) =>
       /\ created[i].row \in DOMAIN rows
       /\ rows[created[i].row].user = created[i].user
       /\ rows[created[i].row].age = created[i].age
  /\ \A i, k \in DOMAIN created :
       Counts(i) /\ Counts(k) /\ created[i].row = created[k].row => i = k
  /\ \A u \in User \ Admin : Cardinality(Mine(u)) <= Limit
  /\ Cardinality(Today) <= DailyMax

ReqInv ==
  /\ TypeOK /\ LockInv /\ FileInv /\ RowInv /\ SlotsReturned /\ OncePerUser
  /\ \A t \in Worker : WorkInv(t) /\ SlotInv(t)

-----------------------------------------------------------------------------
(* Types.                                                                  *)

Row == [user : User, age : 0 .. Days, done : BOOLEAN]
Request == [user : User, title : Title, age : 0 .. Days, row : RowId, live : BOOLEAN, known : BOOLEAN]
Places == Sending \cup {"idle", "export", "write"}

LEMMA Numbers ==
  /\ Days \in Nat \ {0} /\ Limit \in Nat /\ DailyMax \in Nat /\ MaxFault \in Nat
  /\ IsFiniteSet(RowId) /\ RowId \subseteq Nat \ {0} /\ 0 \notin RowId
  /\ Refresher \notin Worker /\ Refresher \in Thread /\ Worker \subseteq Thread
  /\ None \notin Worker /\ None \notin User /\ None # Refresher
BY PopAssumption DEF Thread

LEMMA JobType ==
  ASSUME TypeOK, NEW t \in Worker, job[t] # NoJob
  PROVE  job[t].user \in User /\ job[t].title \in Title
BY DEF TypeOK

LEMMA OlderType ==
  /\ \A r \in Row : /\ Older(r) \in Row /\ Older(r).user = r.user /\ Older(r).done = r.done
                    /\ Older(r).age = IF r.age < Days THEN r.age + 1 ELSE r.age
  /\ \A r \in Request :
       /\ Older(r) \in Request /\ Older(r).user = r.user /\ Older(r).title = r.title
       /\ Older(r).row = r.row /\ Older(r).live = r.live /\ Older(r).known = r.known
       /\ Older(r).age = IF r.age < Days THEN r.age + 1 ELSE r.age
BY Numbers DEF Older, Row, Request

\* What happens to the thread that leaves, and to no other.
LEMMA LeaveType ==
  ASSUME TypeOK, NEW t \in Worker, Leave(t), job[t] # NoJob
  PROVE  /\ pc' \in [Thread -> Places] /\ pc'[t] = "idle"
         /\ job' \in [Worker -> [user : User, title : Title] \cup {NoJob}]
         /\ row' \in [Worker -> RowId \cup {0}] /\ made' \in [Worker -> Nat]
         /\ userLock' \in [User -> Worker \cup {None}]
         /\ \A w \in Thread \ {t} : pc'[w] = pc[w]
         /\ \A w \in Worker \ {t} : job'[w] = job[w] /\ row'[w] = row[w] /\ made'[w] = made[w]
         /\ \A u \in User \ {job[t].user} : userLock'[u] = userLock[u]
BY Numbers DEF TypeOK, Leave, Goto, Places, Sending

LEMMA SeqAppend ==
  ASSUME NEW S, NEW s \in Seq(S), NEW e \in S
  PROVE  /\ Append(s, e) \in Seq(S) /\ DOMAIN Append(s, e) = DOMAIN s \cup {Len(s) + 1}
         /\ Len(s) + 1 \notin DOMAIN s /\ Append(s, e)[Len(s) + 1] = e
         /\ \A i \in DOMAIN s : Append(s, e)[i] = s[i]
OBVIOUS

LEMMA SeqMap ==
  ASSUME NEW S, NEW s \in Seq(S), NEW f \in [DOMAIN s -> S]
  PROVE  f \in Seq(S)
OBVIOUS

\* A thread at work has a request, and where it holds a row there is one.
LEMMA AtWork ==
  ASSUME ReqInv, NEW t \in Worker, pc[t] # "idle"
  PROVE  /\ TypeOK /\ job[t] # NoJob /\ job[t].user \in User /\ job[t].title \in Title
         /\ userLock[job[t].user] = t
         /\ pc[t] \in Flying => row[t] \in DOMAIN rows /\ row[t] \in RowId /\ rows[row[t]] \in Row
BY JobType DEF ReqInv, WorkInv, SlotInv, TypeOK, Row

\* The check that is passed, and the row that is added.
LEMMA ReserveShape ==
  ASSUME ReqInv, NEW t \in Worker, Reserve(t)
  PROVE  \/ Leave(t) /\ UNCHANGED rows
         \/ /\ Left(job[t].user) /\ Cardinality(Today) < DailyMax
            /\ NewId \in RowId /\ NewId \notin DOMAIN rows /\ DOMAIN rows' = DOMAIN rows \cup {NewId}
            /\ rows'[NewId] = [user |-> job[t].user, age |-> 0, done |-> FALSE]
            /\ \A i \in DOMAIN rows : rows'[i] = rows[i]
            /\ row' = [row EXCEPT ![t] = NewId] /\ Goto(t, "reserved")
            /\ UNCHANGED <<job, made, userLock>>
<1>1. RowId \ DOMAIN rows # {}
  BY DEF Reserve
<1>2. NewId \in RowId \ DOMAIN rows
  BY <1>1 DEF NewId
<1>3. QED  BY <1>2 DEF Reserve

LEMMA PostShape ==
  ASSUME ReqInv, NEW t \in Worker, Post(t)
  PROVE  /\ pc[t] = "reserved" /\ UNCHANGED <<job, row, snap, locks, db, origins, svcs, history>>
         /\ \/ /\ UNCHANGED created
               /\ (Goto(t, "keep") \/ Goto(t, "drop")) /\ UNCHANGED made
            \/ \E known \in BOOLEAN :
               /\ Creates(t, known)
               /\ \/ known /\ Goto(t, "keep") /\ made' = [made EXCEPT ![t] = Len(created) + 1]
                  \/ ~known /\ Goto(t, "drop") /\ UNCHANGED made
BY DEF Post, At

LEMMA CreatesShape ==
  ASSUME ReqInv, NEW t \in Worker, pc[t] \in Flying, NEW known \in BOOLEAN, Creates(t, known)
  PROVE  LET n == Len(created) + 1 IN
         /\ created' \in Seq(Request) /\ n \notin DOMAIN created /\ n \in Nat
         /\ DOMAIN created' = DOMAIN created \cup {n}
         /\ \A i \in DOMAIN created : created'[i] = created[i]
         /\ created'[n] = [user |-> job[t].user, title |-> job[t].title,
                           age |-> rows[row[t]].age, row |-> row[t],
                           live |-> TRUE, known |-> known]
<1>1. created \in Seq(Request)
  BY DEF ReqInv, TypeOK, Request
<1>2. [user |-> job[t].user, title |-> job[t].title, age |-> rows[row[t]].age, row |-> row[t],
       live |-> TRUE, known |-> known] \in Request
  BY AtWork DEF Flying, Unused, Request, Row
<1>3. Len(created) + 1 \in Nat
  BY <1>1
<1>4. QED  BY <1>1, <1>2, <1>3, SeqAppend DEF Creates

\* A day, or the removal of a title: whose, which and on what row stays.
LEMMA WorldShape ==
  ASSUME ReqInv, NewDay \/ \E x \in Title : Remove(x)
  PROVE  /\ created' \in Seq(Request) /\ DOMAIN created' = DOMAIN created
         /\ \A i \in DOMAIN created :
              /\ created'[i].user = created[i].user /\ created'[i].title = created[i].title
              /\ created'[i].row = created[i].row /\ created'[i].known = created[i].known
              /\ created'[i].live => created[i].live
              /\ NewDay \/ created'[i].age = created[i].age
<1>1. created \in Seq(Request)
  BY DEF ReqInv, TypeOK, Request
<1>2. \A i \in DOMAIN created : created[i] \in Request
  BY <1>1
<1>3. CASE NewDay
  BY <1>1, <1>2, <1>3, OlderType, SeqMap DEF NewDay
<1>4. ASSUME NEW x \in Title, Remove(x)
      PROVE  /\ created' \in Seq(Request) /\ DOMAIN created' = DOMAIN created
             /\ \A i \in DOMAIN created :
                  /\ created'[i].user = created[i].user /\ created'[i].title = created[i].title
                  /\ created'[i].row = created[i].row /\ created'[i].known = created[i].known
                  /\ created'[i].live => created[i].live
                  /\ created'[i].age = created[i].age
  <2>1. \A r \in Request : LET d == [r EXCEPT !.live = FALSE] IN
          /\ d \in Request /\ d.user = r.user /\ d.title = r.title /\ d.row = r.row
          /\ d.known = r.known /\ d.age = r.age /\ ~d.live
    BY DEF Request
  <2>2. QED  BY <1>1, <1>2, <1>4, <2>1, SeqMap DEF Remove
<1>5. QED  BY <1>3, <1>4

LEMMA NewDayShape ==
  ASSUME ReqInv, NewDay
  PROVE  /\ DOMAIN rows' \subseteq DOMAIN rows /\ rows' \in [DOMAIN rows' -> Row]
         /\ \A i \in DOMAIN rows : rows[i].age \in Nat /\ (i \in DOMAIN rows' <=> rows[i].age < Days)
         /\ \A i \in DOMAIN rows' : /\ rows'[i].user = rows[i].user /\ rows'[i].done = rows[i].done
                                   /\ rows'[i].age = rows[i].age + 1
         /\ \A i \in DOMAIN created :
              /\ created[i].age \in Nat
              /\ created'[i].age = IF created[i].age < Days THEN created[i].age + 1 ELSE created[i].age
<1>0. (\A r \in Row : r.age \in Nat) /\ \A r \in Request : r.age \in Nat
  BY Numbers DEF Row, Request
<1>1. /\ \A i \in DOMAIN rows : rows[i] \in Row /\ rows[i].age \in Nat
      /\ \A i \in DOMAIN created : created[i] \in Request /\ created[i].age \in Nat
  <2>1. rows \in [DOMAIN rows -> Row] /\ created \in Seq(Request)
    BY DEF ReqInv, TypeOK, Row, Request
  <2>2. QED  BY <1>0, <2>1
<1>2. rows' = [i \in {k \in DOMAIN rows : rows[k].age < Days} |-> Older(rows[i])]
  BY DEF NewDay
<1>3. created' = [i \in DOMAIN created |-> Older(created[i])]
  BY DEF NewDay
<1>4. QED  BY <1>1, <1>2, <1>3, OlderType

LEMMA TypeSend ==
  ASSUME ReqInv, NEW t \in Worker, Send(t)
  PROVE  TypeOK'
<1>0. TypeOK /\ pc[t] # "idle" /\ job[t] # NoJob
  BY AtWork DEF ReqInv, Send, Reserve, FindNone, FindAgain, Make, Post, SettleOk, SettleDrop,
     SettleFails, Remember, At
<1>1. CASE Reserve(t)
  <2>1. CASE Leave(t) /\ UNCHANGED rows
    BY <1>0, <1>1, <2>1, LeaveType DEF Reserve, TypeOK, origins, seerr, history, Places, Sending
  <2>2. CASE ~(Leave(t) /\ UNCHANGED rows)
    <3>1. rows' \in [DOMAIN rows' -> Row] /\ DOMAIN rows' \subseteq RowId
      <4>1. [user |-> job[t].user, age |-> 0, done |-> FALSE] \in Row
        BY <1>0, JobType, Numbers DEF Row
      <4>2. rows' = [i \in DOMAIN rows \cup {NewId} |->
                      IF i = NewId THEN [user |-> job[t].user, age |-> 0, done |-> FALSE] ELSE rows[i]]
        BY <1>1, <2>2 DEF Reserve
      <4>3. rows \in [DOMAIN rows -> Row] /\ DOMAIN rows \subseteq RowId
        BY <1>0 DEF TypeOK, Row
      <4>4. NewId \in RowId
        BY <1>1, <2>2, ReserveShape
      <4>5. QED  BY <4>1, <4>2, <4>3, <4>4
    <3>2. row' \in [Worker -> RowId \cup {0}] /\ Goto(t, "reserved") /\ UNCHANGED <<job, made, userLock>>
      BY <1>0, <1>1, <2>2, ReserveShape DEF TypeOK
    <3>3. QED
      BY <1>0, <1>1, <3>1, <3>2 DEF Reserve, Goto, TypeOK, origins, seerr, history, Sending, Row
  <2>3. QED  BY <2>1, <2>2
<1>2. CASE FindNone(t)
  <2>1. pc' \in [Thread -> Places]
    BY <1>0, <1>2 DEF FindNone, Goto, TypeOK, Places, Sending
  <2>2. QED
    BY <1>0, <1>2, <2>1 DEF FindNone, TypeOK, own, locks, db, origins, seerr, history, Places
<1>3. CASE FindAgain(t)
  <2>1. pc' \in [Thread -> Places]
    BY <1>0, <1>3 DEF FindAgain, Goto, TypeOK, Places, Sending
  <2>2. svcLock' \in Worker \cup {None}
    BY <1>0, <1>3 DEF FindAgain, TypeOK
  <2>3. QED
    BY <1>0, <1>3, <2>1, <2>2 DEF FindAgain, TypeOK, own, db, origins, seerr, history, Places
<1>4. CASE Make(t)
  <2>1. pc' \in [Thread -> Places]
    BY <1>0, <1>4 DEF Make, Goto, TypeOK, Places, Sending
  <2>2. svcs' \in Nat /\ svcLock' \in Worker \cup {None}
    BY <1>0, <1>4 DEF Make, TypeOK
  <2>3. QED
    BY <1>0, <1>4, <2>1, <2>2 DEF Make, TypeOK, own, db, origins, history, Places
<1>5. CASE Post(t)
  <2>1. created' \in Seq(Request) /\ made' \in [Worker -> Nat]
    <3>1. pc[t] \in Flying /\ created \in Seq(Request)
      BY <1>0, <1>5, PostShape DEF Flying, Unused, TypeOK, Request
    <3>2. QED  BY <1>0, <1>5, <3>1, PostShape, CreatesShape DEF TypeOK
  <2>2. pc' \in [Thread -> Places]
    BY <1>0, <1>5, PostShape DEF TypeOK, Goto, Places, Sending
  <2>3. QED
    BY <1>0, <1>5, <2>1, <2>2, PostShape DEF TypeOK, Request, Places, locks, db, origins, history
<1>6. CASE SettleOk(t)
  <2>1. \A r \in Row : [r EXCEPT !.done = TRUE] \in Row
    BY DEF Row
  <2>2. rows' \in [DOMAIN rows' -> Row] /\ DOMAIN rows' \subseteq RowId
    BY <1>0, <1>6, <2>1 DEF SettleOk, TypeOK, Row
  <2>3. faults' \in 0 .. MaxFault
    BY <1>0, <1>6, Numbers DEF SettleOk, TypeOK
  <2>4. \/ Leave(t)
        \/ Goto(t, "remember") /\ UNCHANGED <<job, row, made, userLock>>
    BY <1>6 DEF SettleOk
  <2>5. QED
    BY <1>0, <1>6, <2>2, <2>3, <2>4, LeaveType DEF SettleOk, Goto, TypeOK, origins, seerr, Places,
       Sending, Row
<1>7. CASE SettleDrop(t)
  <2>1. rows' \in [DOMAIN rows' -> Row] /\ DOMAIN rows' \subseteq RowId
    BY <1>0, <1>7 DEF SettleDrop, TypeOK, Row, Restrict
  <2>2. QED
    BY <1>0, <1>7, <2>1, LeaveType DEF SettleDrop, TypeOK, origins, seerr, history, Places, Sending, Row
<1>8. CASE SettleFails(t)
  <2>1. row[t] \in RowId
    BY <1>8, AtWork DEF SettleFails, Flying, Unused
  <2>2. faults' \in 0 .. MaxFault /\ torn' \subseteq RowId
    BY <1>0, <1>8, <2>1, Numbers DEF SettleFails, TypeOK
  <2>3. QED
    BY <1>0, <1>8, <2>2, LeaveType DEF SettleFails, TypeOK, db, origins, seerr, Places, Sending
<1>9. CASE Remember(t)
  <2>1. asked' \subseteq Nat /\ faults' \in 0 .. MaxFault
    BY <1>0, <1>9, Numbers DEF Remember, TypeOK
  <2>2. CASE Leave(t)
    BY <1>0, <1>9, <2>1, <2>2, LeaveType DEF Remember, TypeOK, origins, seerr, Places, Sending
  <2>3. CASE Goto(t, "export") /\ UNCHANGED <<job, row, made, userLock>>
    <3>1. pc' \in [Thread -> Places]
      BY <1>0, <2>3 DEF Goto, TypeOK, Places
    <3>2. QED
      BY <1>0, <1>9, <2>1, <2>3, <3>1 DEF Remember, TypeOK, origins, seerr, Places
  <2>4. QED  BY <1>9, <2>2, <2>3 DEF Remember
<1>10. QED  BY <1>1, <1>2, <1>3, <1>4, <1>5, <1>6, <1>7, <1>8, <1>9 DEF Send

LEMMA TypeStep ==
  ASSUME ReqInv, [Next]_vars
  PROVE  TypeOK'
<1>0. TypeOK
  BY DEF ReqInv
<1>1. ASSUME NEW t \in Worker, NEW u \in User, NEW x \in Title, Ask(t, u, x)  PROVE TypeOK'
  BY <1>0, <1>1 DEF Ask, Goto, TypeOK, db, origins, seerr, history, Sending
<1>2. ASSUME NEW t \in Thread, ReadRows(t)  PROVE TypeOK'
  BY <1>0, <1>2 DEF ReadRows, Goto, TypeOK, db, origins, seerr, history
<1>3. ASSUME NEW t \in Thread, Write(t)  PROVE TypeOK'
  <2>1. faults' \in 0 .. MaxFault /\ file' \subseteq Nat /\ exported' \in (SUBSET Nat) \cup {None}
    BY <1>0, <1>3, Numbers DEF Write, TypeOK, origins
  <2>2. CASE t \in Worker /\ Leave(t)
    <3>1. job[t] # NoJob
      BY <1>3, <2>2, AtWork DEF Write, At
    <3>2. QED
      BY <1>0, <1>3, <2>1, <2>2, <3>1, LeaveType
         DEF Write, ExportEnds, TypeOK, db, seerr, Places, Sending
  <2>3. CASE t = Refresher /\ Goto(t, "idle") /\ UNCHANGED <<job, row, made, userLock>>
    BY <1>0, <1>3, <2>1, <2>3 DEF Write, ExportEnds, Goto, TypeOK, db, seerr
  <2>4. QED  BY <1>3, <2>2, <2>3 DEF Write, ExportEnds
<1>4. CASE Restart
  <2>1. faults' \in 0 .. MaxFault /\ torn' \subseteq RowId
    BY <1>0, <1>4, Numbers DEF Restart, TypeOK
  <2>2. file' \subseteq Nat /\ exported' \in (SUBSET Nat) \cup {None}
    BY <1>0, <1>4 DEF Restart, TypeOK
  <2>3. /\ pc' \in [Thread -> Places] /\ job' \in [Worker -> [user : User, title : Title] \cup {NoJob}]
        /\ row' \in [Worker -> RowId \cup {0}] /\ made' \in [Worker -> Nat]
        /\ snap' \in [Thread -> SUBSET Nat] /\ userLock' \in [User -> Worker \cup {None}]
        /\ svcLock' \in Worker \cup {None} /\ exportLock' \in Thread \cup {None}
    BY <1>4 DEF Restart, Places
  <2>4. QED
    BY <1>0, <1>4, <2>1, <2>2, <2>3 DEF Restart, TypeOK, db, seerr, Places
<1>5. CASE NewDay
  BY <1>0, <1>5, NewDayShape, WorldShape
     DEF NewDay, TypeOK, own, locks, origins, Row, Request
<1>6. ASSUME NEW x \in Title, Remove(x)  PROVE TypeOK'
  <2>1. created' \in Seq(Request)
    BY <1>6, WorldShape
  <2>2. QED  BY <1>0, <1>6, <2>1 DEF Remove, TypeOK, own, locks, db, origins, history, Request
<1>7. CASE UNCHANGED vars
  BY <1>0, <1>7 DEF vars, own, locks, db, origins, seerr, history, TypeOK
<1>8. QED
  BY <1>1, <1>2, <1>3, <1>4, <1>5, <1>6, <1>7, TypeSend DEF Next, World, Export

\* A thread changes what is its own, and the lock of its user.
Serves(t) == Send(t) \/ \E u \in User, x \in Title : Ask(t, u, x)

LEMMA OneMoves ==
  ASSUME ReqInv, NEW t \in Thread, (t \in Worker /\ Serves(t)) \/ Export(t)
  PROVE  /\ \A w \in Thread \ {t} : pc'[w] = pc[w]
         /\ \A w \in Worker \ {t} : job'[w] = job[w] /\ row'[w] = row[w] /\ made'[w] = made[w]
         /\ \A w \in Thread \ {t} : snap'[w] = snap[w]
<1>0. TypeOK
  BY DEF ReqInv
<1>1. CASE t \in Worker /\ Leave(t)
  <2>1. pc[t] # "idle"
    BY <1>0, <1>1 DEF Serves, Ask, Send, Reserve, FindNone, FindAgain, Make, Post, SettleOk, SettleDrop,
       SettleFails, Remember, Export, ReadRows, Write, Ready, At, Goto, Leave, TypeOK, Thread
  <2>2. job[t] # NoJob
    BY <1>1, <2>1, AtWork
  <2>3. \A w \in Thread \ {t} : snap'[w] = snap[w]
    BY <1>0, <1>1 DEF Serves, Ask, Send, Reserve, FindNone, FindAgain, Make, Post, SettleOk, SettleDrop,
       SettleFails, Remember, Export, ReadRows, Write, ExportEnds, TypeOK, own
  <2>4. QED  BY <1>0, <1>1, <2>2, <2>3, LeaveType
<1>2. CASE ~(t \in Worker /\ Leave(t)) /\ t \in Worker /\ Serves(t)
  BY <1>0, <1>2 DEF Serves, Ask, Send, Reserve, FindNone, FindAgain, Make, Post, SettleOk, SettleDrop,
     SettleFails, Remember, Goto, TypeOK, own
<1>3. CASE ~(t \in Worker /\ Leave(t)) /\ Export(t)
  BY <1>0, <1>3 DEF Export, ReadRows, Write, ExportEnds, Goto, TypeOK
<1>4. QED  BY <1>1, <1>2, <1>3

-----------------------------------------------------------------------------
(* The service user and the export.                                        *)

LEMMA LockStep ==
  ASSUME ReqInv, Next
  PROVE  LockInv'
<1>0. TypeOK /\ LockInv /\ svcs \in Nat /\ None \notin Thread
  BY Numbers DEF ReqInv, TypeOK, Thread
<1>1. CASE Restart
  BY <1>0, <1>1 DEF Restart, LockInv, OneServiceUser, db, seerr, Thread
<1>2. CASE World
  BY <1>0, <1>2 DEF World, NewDay, Remove, LockInv, OneServiceUser, locks
<1>3. ASSUME NEW t \in Thread, Export(t)  PROVE LockInv'
  <2>1. \A w \in Thread \ {t} : pc'[w] = pc[w]
    BY <1>3, OneMoves
  <2>2. pc'[t] \in {"write", "idle"} /\ UNCHANGED <<svcLock, svcs>>
    BY <1>0, <1>3, AtWork, LeaveType
       DEF Export, ReadRows, Write, ExportEnds, Goto, TypeOK, seerr, At, Leave, Thread
  <2>3. \/ exportLock = None /\ exportLock' = t
        \/ pc[t] = "write" /\ exportLock = t /\ exportLock' = None /\ pc'[t] = "idle"
    BY <1>0, <1>3 DEF Export, ReadRows, Write, ExportEnds, At, Goto, Leave, LockInv, TypeOK
  <2>4. QED  BY <1>0, <2>1, <2>2, <2>3, Numbers DEF LockInv, OneServiceUser
<1>4. ASSUME NEW t \in Worker, Serves(t)  PROVE LockInv'
  <2>0. t \in Thread /\ \A w \in Thread \ {t} : pc'[w] = pc[w]
    BY <1>4, OneMoves DEF Thread
  <2>1. pc[t] # "write" /\ pc'[t] # "write" /\ UNCHANGED exportLock
    BY <1>0, <1>4, <2>0 DEF Serves, Ask, Send, Reserve, FindNone, FindAgain, Make, Post, SettleOk,
       SettleDrop, SettleFails, Remember, At, Goto, Leave, locks, TypeOK
  <2>2. CASE FindAgain(t)
    <3>1. /\ svcLock = None /\ UNCHANGED svcs
          /\ \/ svcs = 0 /\ svcLock' = t
             \/ pc'[t] # "make" /\ UNCHANGED svcLock
      BY <1>0, <2>0, <2>2 DEF FindAgain, Goto, seerr, TypeOK
    <3>2. \A w \in Worker : pc[w] # "make"
      BY <1>0, <3>1 DEF LockInv, Thread
    <3>3. QED  BY <1>0, <2>0, <2>1, <3>1, <3>2 DEF LockInv, OneServiceUser, Thread
  <2>3. CASE Make(t)
    <3>1. svcs = 0 /\ svcLock = t /\ svcLock' = None /\ svcs' <= 1 /\ pc'[t] # "make"
      BY <1>0, <2>0, <2>3 DEF Make, At, Goto, LockInv, TypeOK
    <3>2. QED  BY <1>0, <2>0, <2>1, <3>1, Numbers DEF LockInv, OneServiceUser
  <2>4. CASE ~FindAgain(t) /\ ~Make(t)
    <3>1. pc'[t] # "make" /\ UNCHANGED <<svcLock, svcs>>
      BY <1>0, <1>4, <2>0, <2>4 DEF Serves, Ask, Send, Reserve, FindNone, Post, SettleOk,
         SettleDrop, SettleFails, Remember, Goto, Leave, locks, seerr, TypeOK
    <3>2. \A w \in Thread : pc'[w] = "write" => pc[w] = "write"
      BY <2>0, <2>1
    <3>3. \A w \in Worker : pc'[w] = "make" => pc[w] = "make"
      BY <2>0, <3>1, Numbers
    <3>4. QED  BY <1>0, <2>1, <3>1, <3>2, <3>3 DEF LockInv, OneServiceUser
  <2>5. QED  BY <2>2, <2>3, <2>4
<1>5. QED  BY <1>1, <1>2, <1>3, <1>4 DEF Next, Serves

\* What is asked for is never forgotten, and what is written never shrinks.
LEMMA FileStep ==
  ASSUME ReqInv, Next
  PROVE  FileInv' /\ file \subseteq file'
<1>0. TypeOK /\ FileInv /\ LockInv
  BY DEF ReqInv
<1>1. CASE Restart
  BY <1>0, <1>1 DEF Restart, FileInv, CacheIsTrue, db, Thread
<1>2. CASE World
  BY <1>0, <1>2 DEF World, NewDay, Remove, FileInv, CacheIsTrue, own, db, origins
<1>3. ASSUME NEW t \in Thread, ReadRows(t)  PROVE FileInv' /\ file \subseteq file'
  <2>1. /\ UNCHANGED <<asked, file, exported>> /\ snap'[t] = asked
        /\ \A w \in Thread \ {t} : pc'[w] = pc[w] /\ snap'[w] = snap[w]
    BY <1>0, <1>3, OneMoves DEF ReadRows, Export, db, origins, TypeOK
  <2>2. QED  BY <1>0, <2>1 DEF FileInv, CacheIsTrue
<1>4. ASSUME NEW t \in Thread, Write(t)  PROVE FileInv' /\ file \subseteq file'
  <2>1. /\ UNCHANGED asked /\ snap'[t] = {} /\ pc'[t] = "idle"
        /\ pc[t] = "write" /\ file \subseteq snap[t] /\ snap[t] \subseteq asked
    BY <1>0, <1>4 DEF Write, ExportEnds, At, db, Goto, Leave, FileInv, TypeOK
  <2>2. \A w \in Thread \ {t} : pc'[w] = pc[w] /\ snap'[w] = snap[w] /\ pc[w] # "write"
    BY <1>0, <1>4, <2>1, OneMoves DEF Export, LockInv
  <2>3. \/ file' = snap[t] /\ exported' = snap[t]
        \/ UNCHANGED <<file, exported>>
    BY <1>4 DEF Write, origins
  <2>4. QED  BY <1>0, <2>1, <2>2, <2>3 DEF FileInv, CacheIsTrue
<1>5. ASSUME NEW t \in Worker, Serves(t)  PROVE FileInv' /\ file \subseteq file'
  <2>1. t \in Thread /\ \A w \in Thread \ {t} : pc'[w] = pc[w]
    BY <1>5, OneMoves DEF Thread
  <2>2. /\ UNCHANGED <<file, exported, snap>> /\ asked \subseteq asked' /\ pc'[t] # "write"
    BY <1>0, <1>5, <2>1 DEF Serves, Ask, Send, Reserve, FindNone, FindAgain, Make, Post, SettleOk,
       SettleDrop, SettleFails, Remember, Goto, Leave, db, origins, own, TypeOK
  <2>3. QED  BY <1>0, <2>1, <2>2 DEF FileInv, CacheIsTrue
<1>6. QED  BY <1>1, <1>2, <1>3, <1>4, <1>5 DEF Next, Export, Serves

-----------------------------------------------------------------------------
(* One request of a user for a title.                                      *)

\* Requests are made only where a thread posts, for the user it serves.
LEMMA CreatedStep ==
  ASSUME ReqInv, NEW t \in Thread, (t \in Worker /\ Serves(t)) \/ Export(t)
  PROVE  \/ UNCHANGED created
         \/ /\ t \in Worker /\ Post(t) /\ pc[t] = "reserved"
            /\ pc'[t] \in {"keep", "drop"} /\ UNCHANGED <<job, row, rows, userLock>>
            /\ \E known \in BOOLEAN : Creates(t, known) /\ (pc'[t] = "drop" => ~known)
<1>1. CASE t \in Worker /\ Post(t) /\ ~UNCHANGED created
  <2>1. t \in Thread /\ pc \in [Thread -> Places]
    BY DEF ReqInv, TypeOK, Places
  <2>2. PICK known \in BOOLEAN : Creates(t, known) /\ (known => Goto(t, "keep")) /\ (~known => Goto(t, "drop"))
    BY <1>1, PostShape
  <2>3. QED  BY <1>1, <2>1, <2>2, PostShape DEF Goto, db, locks
<1>2. CASE ~(t \in Worker /\ Post(t))
  BY <1>2 DEF Serves, Ask, Send, Reserve, FindNone, FindAgain, Make, SettleOk, SettleDrop,
     SettleFails, Remember, Export, ReadRows, Write, seerr
<1>3. QED  BY <1>1, <1>2

LEMMA UserLockStep ==
  ASSUME ReqInv, NEW t \in Thread, (t \in Worker /\ Serves(t)) \/ Export(t),
         NEW w \in Worker \ {t}, pc[w] # "idle"
  PROVE  userLock'[job[w].user] = w
<1>0. /\ TypeOK /\ job[w].user \in User /\ userLock[job[w].user] = w
      /\ userLock \in [User -> Worker \cup {None}] /\ w # None
  BY AtWork, Numbers DEF TypeOK
<1>1. CASE t \in Worker /\ Leave(t)
  <2>1. pc[t] # "idle"
    BY <1>0, <1>1 DEF Serves, Ask, Send, Reserve, FindNone, FindAgain, Make, Post, SettleOk, SettleDrop,
       SettleFails, Remember, Export, ReadRows, Write, Ready, At, Goto, Leave, TypeOK, Thread
  <2>2. userLock[job[t].user] = t
    BY <1>1, <2>1, AtWork
  <2>3. job[w].user # job[t].user
    BY <1>0, <2>2
  <2>4. QED  BY <1>0, <1>1, <2>3 DEF Leave
<1>2. ASSUME NEW u \in User, NEW x \in Title, t \in Worker, Ask(t, u, x)
      PROVE  userLock'[job[w].user] = w
  BY <1>0, <1>2 DEF Ask
<1>3. CASE ~(t \in Worker /\ Leave(t)) /\ ~(t \in Worker /\ \E u \in User, x \in Title : Ask(t, u, x))
  <2>1. UNCHANGED userLock
    BY <1>3 DEF Serves, Send, Reserve, FindNone, FindAgain, Make, Post, SettleOk, SettleDrop,
       SettleFails, Remember, Export, ReadRows, Write, ExportEnds, locks, own
  <2>2. QED  BY <1>0, <2>1
<1>4. QED  BY <1>1, <1>2, <1>3

LEMMA WorkStep ==
  ASSUME ReqInv, Next
  PROVE  OncePerUser' /\ \A w \in Worker : WorkInv(w)'
<1>0. TypeOK /\ OncePerUser /\ (\A w \in Worker : WorkInv(w)) /\ Worker \subseteq Thread
  BY Numbers DEF ReqInv
<1>1. CASE Restart
  <2>1. UNCHANGED created /\ \A w \in Worker : pc'[w] = "idle"
    BY <1>1 DEF Restart, seerr, Thread
  <2>2. QED  BY <1>0, <2>1 DEF OncePerUser, WorkInv, Before
<1>2. CASE World
  <2>1. UNCHANGED <<pc, job, userLock>>
    BY <1>2 DEF World, NewDay, Remove, own, locks
  <2>2. DOMAIN created' = DOMAIN created
        /\ \A i \in DOMAIN created :
              /\ created'[i].user = created[i].user /\ created'[i].title = created[i].title
              /\ created'[i].live => created[i].live
    BY <1>2, WorldShape DEF World
  <2>3. QED  BY <1>0, <2>1, <2>2 DEF OncePerUser, WorkInv
<1>3. ASSUME NEW t \in Thread, (t \in Worker /\ Serves(t)) \/ Export(t)
      PROVE  OncePerUser' /\ \A w \in Worker : WorkInv(w)'
  <2>0. \A w \in Worker \ {t} : pc'[w] = pc[w] /\ job'[w] = job[w]
    BY <1>0, <1>3, OneMoves
  <2>1. CASE UNCHANGED created
    <3>1. OncePerUser'
      BY <1>0, <2>1 DEF OncePerUser
    <3>2. ASSUME NEW w \in Worker \ {t}  PROVE WorkInv(w)'
      BY <1>0, <1>3, <2>0, <2>1, <3>2, UserLockStep DEF WorkInv
    <3>3. ASSUME t \in Worker  PROVE WorkInv(t)'
      <4>1. CASE pc'[t] = "idle"
        BY <4>1 DEF WorkInv, Before
      <4>2. ASSUME NEW u \in User, NEW x \in Title, Ask(t, u, x)  PROVE WorkInv(t)'
        <5>1. /\ x \notin Taken /\ job'[t] = [user |-> u, title |-> x] /\ userLock'[u] = t
          BY <1>0, <3>3, <4>2 DEF Ask, TypeOK
        <5>2. job'[t] # NoJob
          BY <5>1, Numbers DEF NoJob
        <5>3. QED  BY <2>1, <5>1, <5>2 DEF WorkInv, Taken
      <4>3. CASE ~\E u \in User, x \in Title : Ask(t, u, x)
        <5>1. CASE Leave(t)
          BY <1>0, <3>3, <4>1, <5>1 DEF Leave, Goto, TypeOK
        <5>2. CASE ~Leave(t)
          <6>1. /\ UNCHANGED <<job, userLock>> /\ pc[t] # "idle" /\ (pc'[t] \in Before => pc[t] \in Before)
            BY <1>0, <1>3, <3>3, <4>3, <5>2, Numbers
               DEF Serves, Send, Reserve, FindNone, FindAgain, Make, Post, SettleOk, SettleDrop,
               SettleFails, Remember, Export, ReadRows, Write, ExportEnds, At, Ready, Goto, locks, own, Before, TypeOK
          <6>2. QED  BY <1>0, <2>1, <3>3, <6>1 DEF WorkInv
        <5>3. QED  BY <5>1, <5>2
      <4>4. QED  BY <4>2, <4>3
    <3>4. QED  BY <3>1, <3>2, <3>3
  <2>2. CASE ~UNCHANGED created
    <3>1. PICK known \in BOOLEAN :
            /\ t \in Worker /\ pc[t] = "reserved" /\ pc'[t] \in {"keep", "drop"}
            /\ UNCHANGED <<job, userLock>> /\ Creates(t, known)
      BY <1>3, <2>2, CreatedStep
    <3>2. PICK n : /\ n \notin DOMAIN created /\ DOMAIN created' = DOMAIN created \cup {n}
                   /\ \A i \in DOMAIN created : created'[i] = created[i]
                   /\ created'[n].user = job[t].user /\ created'[n].title = job[t].title
      <4>1. pc[t] \in Flying
        BY <3>1 DEF Flying, Unused
      <4> DEFINE n == Len(created) + 1
      <4>2. /\ n \notin DOMAIN created /\ DOMAIN created' = DOMAIN created \cup {n}
            /\ \A i \in DOMAIN created : created'[i] = created[i]
            /\ created'[n] = [user |-> job[t].user, title |-> job[t].title,
                              age |-> rows[row[t]].age, row |-> row[t], live |-> TRUE, known |-> known]
        BY <3>1, <4>1, CreatesShape
      <4>3. created'[n].user = job[t].user /\ created'[n].title = job[t].title
        BY <4>2
      <4> HIDE DEF n
      <4>4. QED  BY <4>2, <4>3
    <3>3. \A i \in DOMAIN created : created[i].live =>
            <<created[i].user, created[i].title>> # <<job[t].user, job[t].title>>
      BY <1>0, <3>1 DEF WorkInv, Before
    <3>4. OncePerUser'
      BY <1>0, <3>2, <3>3 DEF OncePerUser
    <3>5. WorkInv(t)'
      BY <1>0, <3>1 DEF WorkInv, Before
    <3>6. ASSUME NEW w \in Worker \ {t}  PROVE WorkInv(w)'
      <4>1. pc[w] # "idle" => job[w].user # job[t].user
        BY <3>1, AtWork
      <4>2. QED  BY <1>0, <2>0, <3>1, <3>2, <4>1 DEF WorkInv, Before
    <3>7. QED  BY <3>4, <3>5, <3>6
  <2>3. QED  BY <2>1, <2>2
<1>4. CASE \E t \in Worker : Serves(t)
  BY <1>0, <1>3, <1>4
<1>5. CASE \E t \in Thread : Export(t)
  BY <1>3, <1>5
<1>6. QED  BY <1>1, <1>2, <1>4, <1>5 DEF Next, Serves

-----------------------------------------------------------------------------
(* Rows and the requests made on them.                                     *)

\* The four ways in which a step of a thread changes the rows; what is settled
\* may have been kept by a settle that failed.
Same(t) ==
  /\ UNCHANGED rows
  /\ pc[t] \in Flying => pc'[t] \in Flying
  /\ pc'[t] \in Flying => pc[t] \in Flying /\ row'[t] = row[t] /\ job'[t] = job[t]
  /\ pc'[t] \in Unused => pc[t] \in Unused

Added(t) ==
  /\ Left(job[t].user) /\ Cardinality(Today) < DailyMax /\ pc[t] \notin Flying /\ pc'[t] \in Unused
  /\ row'[t] \in RowId /\ row'[t] \notin DOMAIN rows /\ DOMAIN rows' = DOMAIN rows \cup {row'[t]}
  /\ \A i \in DOMAIN rows : rows'[i] = rows[i]
  /\ rows'[row'[t]].user = job[t].user /\ job'[t] = job[t]
  /\ rows'[row'[t]].age = 0

Settled(t) ==
  /\ pc'[t] \notin Flying /\ DOMAIN rows' = DOMAIN rows
  /\ \A i \in DOMAIN rows : /\ rows'[i].user = rows[i].user /\ rows'[i].age = rows[i].age
                            /\ rows[i].done => rows'[i].done
                            /\ i = row[t] => rows'[i].done \/ i \in torn'

Dropped(t) ==
  /\ pc[t] = "drop" /\ pc'[t] \notin Flying /\ DOMAIN rows' = DOMAIN rows \ {row[t]}
  /\ \A i \in DOMAIN rows' : rows'[i] = rows[i]

LEMMA RowsStep ==
  ASSUME ReqInv, NEW t \in Worker, Serves(t) \/ Export(t)
  PROVE  /\ torn \subseteq torn'
         /\ Same(t) \/ Added(t) \/ Settled(t) \/ Dropped(t)
<1>0. TypeOK /\ pc[t] \in Places /\ t \in Thread
  BY DEF ReqInv, TypeOK, Places, Thread
<1>1. CASE Reserve(t) /\ ~UNCHANGED rows
  <2>1. /\ row' = [row EXCEPT ![t] = NewId] /\ Goto(t, "reserved") /\ UNCHANGED job
        /\ Left(job[t].user) /\ Cardinality(Today) < DailyMax
        /\ NewId \in RowId /\ NewId \notin DOMAIN rows /\ DOMAIN rows' = DOMAIN rows \cup {NewId}
        /\ rows'[NewId] = [user |-> job[t].user, age |-> 0, done |-> FALSE]
        /\ \A i \in DOMAIN rows : rows'[i] = rows[i]
    BY <1>1, ReserveShape
  <2>2. row'[t] = NewId /\ pc'[t] = "reserved"
    BY <1>0, <2>1 DEF TypeOK, Goto
  <2>3. rows'[NewId].user = job[t].user /\ rows'[NewId].age = 0
    BY <2>1
  <2>4. Added(t)
    <3>1. pc[t] = "reserve"
      BY <1>1 DEF Reserve, At
    <3>2. QED  BY <2>1, <2>2, <2>3, <3>1 DEF Added, Unused, Flying
  <2>5. UNCHANGED torn
    BY <1>1 DEF Reserve, history
  <2>6. QED  BY <2>4, <2>5
<1>2. CASE SettleOk(t)
  <2>1. pc'[t] \notin Flying
    BY <1>0, <1>2 DEF SettleOk, Goto, Leave, TypeOK, Flying, Unused
  <2>2. \A r \in Row : LET d == [r EXCEPT !.done = TRUE] IN d.user = r.user /\ d.age = r.age /\ d.done = TRUE
    BY DEF Row
  <2>3. \A i \in DOMAIN rows : rows[i] \in Row
    BY <1>0 DEF TypeOK, Row
  <2>4. rows' = [i \in DOMAIN rows |-> IF i = row[t] THEN [rows[i] EXCEPT !.done = TRUE] ELSE rows[i]]
    BY <1>2 DEF SettleOk
  <2>5. ASSUME NEW i \in DOMAIN rows
        PROVE  /\ rows'[i].user = rows[i].user /\ rows'[i].age = rows[i].age
               /\ rows[i].done => rows'[i].done
               /\ i = row[t] => rows'[i].done
    <3>1. rows[i].done \in BOOLEAN
      BY <2>3 DEF Row
    <3>2. QED  BY <2>2, <2>3, <2>4, <3>1
  <2>6. QED  BY <1>2, <2>1, <2>4, <2>5 DEF Settled, SettleOk
<1>3. CASE SettleDrop(t)
  BY <1>0, <1>3 DEF SettleDrop, Dropped, At, Leave, Goto, TypeOK, Flying, Unused, Restrict, history
<1>4. CASE SettleFails(t)
  BY <1>0, <1>4 DEF SettleFails, Settled, Leave, Goto, TypeOK, Flying, Unused, db
<1>5. CASE UNCHANGED rows /\ ~SettleOk(t) /\ ~SettleDrop(t) /\ ~SettleFails(t)
  <2>1. CASE Leave(t)
    <3>1. pc[t] \in {"reserve", "remember", "write"} /\ pc'[t] = "idle" /\ UNCHANGED torn
      BY <1>0, <1>5, <2>1 DEF Serves, Ask, Send, Reserve, FindNone, FindAgain, Make, Post,
         Remember, Export, ReadRows, Write, At, Goto, Leave, history, TypeOK
    <3>2. QED  BY <1>5, <3>1 DEF Same, Flying, Unused
  <2>2. CASE ~Leave(t)
    <3>0. ~Reserve(t)
      BY <1>5, <2>2, ReserveShape
    <3>1. CASE \E u \in User, x \in Title : Ask(t, u, x)
      <4>1. pc[t] = "idle" /\ pc'[t] = "reserve" /\ UNCHANGED torn
        BY <1>0, <3>1 DEF Ask, At, Goto, history, TypeOK
      <4>2. QED  BY <1>5, <4>1 DEF Same, Flying, Unused
    <3>2. CASE FindNone(t) \/ FindAgain(t) \/ Make(t)
      <4>1. /\ pc[t] \in {"reserved", "svclock", "make"} /\ UNCHANGED <<torn, row, job>>
            /\ pc'[t] \in {"reserved", "svclock", "make", "drop"}
        BY <1>0, <3>2 DEF FindNone, FindAgain, Make, At, Goto, own, history, TypeOK
      <4>2. QED  BY <1>5, <4>1 DEF Same, Flying, Unused
    <3>3. CASE Post(t)
      <4>1. pc[t] = "reserved" /\ pc'[t] \in {"keep", "drop"} /\ UNCHANGED <<torn, row, job>>
        BY <1>0, <3>3 DEF Post, At, Goto, history, TypeOK
      <4>2. QED  BY <1>5, <4>1 DEF Same, Flying, Unused
    <3>4. CASE Remember(t)
      <4>1. pc[t] = "remember" /\ pc'[t] = "export" /\ UNCHANGED torn
        BY <1>0, <2>2, <3>4 DEF Remember, At, Goto, history, TypeOK
      <4>2. QED  BY <1>5, <4>1 DEF Same, Flying, Unused
    <3>5. CASE Export(t)
      <4>1. pc[t] \in {"export", "write"} /\ pc'[t] \in {"write", "idle"} /\ UNCHANGED torn
        BY <1>0, <2>2, <3>5, Numbers DEF Export, ReadRows, Write, ExportEnds, Ready, At, Goto, history, TypeOK
      <4>2. QED  BY <1>5, <4>1 DEF Same, Flying, Unused
    <3>6. QED  BY <1>5, <3>0, <3>1, <3>2, <3>3, <3>4, <3>5 DEF Serves, Send
  <2>3. QED  BY <2>1, <2>2
<1>6. QED
  BY <1>1, <1>2, <1>3, <1>4, <1>5 DEF Serves, Ask, Send, FindNone, FindAgain, Make, Post, Remember,
     Export, ReadRows, Write, db

\* Of the step of a thread: the other threads keep their rows, and a request is
\* made on the row of the thread, which is known only where the row is kept.
LEMMA OthersStay ==
  ASSUME ReqInv, NEW t \in Thread, (t \in Worker /\ Serves(t)) \/ Export(t)
  PROVE  /\ torn \subseteq torn'
         /\ \A w \in Worker \ {t} : pc'[w] = pc[w] /\ row'[w] = row[w] /\ job'[w] = job[w]
         /\ t \notin Worker => UNCHANGED rows
         /\ t \in Worker => Same(t) \/ Added(t) \/ Settled(t) \/ Dropped(t)
         /\ \/ UNCHANGED created
            \/ /\ t \in Worker /\ pc[t] = "reserved" /\ UNCHANGED <<row, rows, job>>
               /\ \E n : /\ n \notin DOMAIN created /\ DOMAIN created' = DOMAIN created \cup {n}
                         /\ \A i \in DOMAIN created : created'[i] = created[i]
                         /\ created'[n].row = row[t] /\ created'[n].user = job[t].user
                         /\ created'[n].age = rows[row[t]].age
                         /\ pc'[t] = "drop" => ~created'[n].known
                         /\ pc'[t] \in {"keep", "drop"}
<1>1. torn \subseteq torn' /\ (t \notin Worker => UNCHANGED rows)
  <2>1. CASE t \in Worker
    BY <2>1, RowsStep
  <2>2. CASE t \notin Worker
    BY <2>2 DEF Export, ReadRows, Write, db, history
  <2>3. QED  BY <2>1, <2>2
<1>2. CASE UNCHANGED created
  BY <1>1, <1>2, OneMoves, RowsStep DEF Thread
<1>3. CASE ~UNCHANGED created
  <2>1. PICK known \in BOOLEAN :
          /\ t \in Worker /\ pc[t] = "reserved" /\ pc'[t] \in {"keep", "drop"}
          /\ UNCHANGED <<job, row, rows>> /\ Creates(t, known) /\ (pc'[t] = "drop" => ~known)
    BY <1>3, CreatedStep
  <2>2. pc[t] \in Flying
    BY <2>1 DEF Flying, Unused
  <2> DEFINE n == Len(created) + 1
  <2>3. /\ n \notin DOMAIN created /\ DOMAIN created' = DOMAIN created \cup {n}
        /\ \A i \in DOMAIN created : created'[i] = created[i]
        /\ created'[n] = [user |-> job[t].user, title |-> job[t].title,
                          age |-> rows[row[t]].age, row |-> row[t], live |-> TRUE, known |-> known]
    BY <2>1, <2>2, CreatesShape
  <2>4. /\ created'[n].row = row[t] /\ created'[n].user = job[t].user
        /\ created'[n].age = rows[row[t]].age /\ created'[n].known = known
    BY <2>3
  <2> HIDE DEF n
  <2>5. QED  BY <1>1, <2>1, <2>3, <2>4, OneMoves, RowsStep DEF Thread
<1>4. QED  BY <1>2, <1>3

LEMMA SlotStep ==
  ASSUME ReqInv, Next
  PROVE  \A w \in Worker : SlotInv(w)'
<1>0. TypeOK /\ RowInv /\ (\A w \in Worker : SlotInv(w)) /\ Worker \subseteq Thread
  BY Numbers DEF ReqInv
<1>1. CASE Restart
  <2>1. \A w \in Worker : pc'[w] = "idle"
    BY <1>1 DEF Restart, Thread
  <2>2. QED  BY <2>1 DEF SlotInv, Flying, Unused
<1>2. CASE NewDay
  <2>1. UNCHANGED <<pc, row, job>>
    BY <1>2 DEF NewDay, own
  <2>2. \A w \in Worker : pc[w] \in Flying =>
          row[w] \in DOMAIN rows' /\ rows'[row[w]].user = rows[row[w]].user
    <3>1. ASSUME NEW w \in Worker, pc[w] \in Flying  PROVE rows[row[w]].age = 0
      BY <1>2, <3>1 DEF NewDay, InFlight, Flying, Unused
    <3>2. QED  BY <1>0, <1>2, <3>1, NewDayShape, Numbers DEF SlotInv
  <2>3. \A i \in DOMAIN created' : i \in DOMAIN created /\ created'[i].row = created[i].row
                                  /\ (Counts(i)' => Counts(i))
    BY <1>2, NewDayShape, WorldShape, Numbers DEF Counts
  <2>4. QED  BY <1>0, <2>1, <2>2, <2>3 DEF SlotInv, Unused, Flying
<1>3. ASSUME NEW x \in Title, Remove(x)  PROVE \A w \in Worker : SlotInv(w)'
  <2>1. UNCHANGED <<pc, row, job, rows>>
    BY <1>3 DEF Remove, own, db
  <2>2. \A i \in DOMAIN created' : i \in DOMAIN created /\ created'[i].row = created[i].row
                                  /\ (Counts(i)' => Counts(i) \/ NewDay)
    BY <1>3, WorldShape DEF Counts
  <2>3. CASE NewDay
    BY <1>2, <2>3
  <2>4. CASE ~NewDay
    BY <1>0, <2>1, <2>2, <2>4 DEF SlotInv
  <2>5. QED  BY <2>3, <2>4
<1>4. ASSUME NEW t \in Thread, (t \in Worker /\ Serves(t)) \/ Export(t), NEW w \in Worker
      PROVE  SlotInv(w)'
  <2>0. t \in Worker => Same(t) \/ Added(t) \/ Settled(t) \/ Dropped(t)
    BY <1>4, OthersStay
  <2>1. w # t => pc'[w] = pc[w] /\ row'[w] = row[w] /\ job'[w] = job[w]
    BY <1>4, OthersStay
  <2>2. ASSUME NEW i \in DOMAIN created', Counts(i)', w # t, pc[w] \in Unused
        PROVE  created'[i].row # row[w]
    <3>1. CASE i \in DOMAIN created /\ created'[i] = created[i]
      BY <1>0, <2>2, <3>1 DEF SlotInv, Counts
    <3>2. CASE t \in Worker /\ pc[t] = "reserved" /\ created'[i].row = row[t]
      BY <1>0, <2>2, <3>2 DEF SlotInv, Flying, Unused
    <3>3. QED  BY <1>4, <2>2, <3>1, <3>2, OthersStay
  <2>3. ASSUME w # t, pc[w] \in Flying
        PROVE  row[w] \in DOMAIN rows' /\ rows'[row[w]].user = rows[row[w]].user
    <3>1. row[w] \in DOMAIN rows /\ (t \in Worker /\ pc[t] \in Flying => row[t] # row[w])
      BY <1>0, <2>3 DEF SlotInv
    <3>2. QED  BY <1>4, <3>1, OthersStay DEF Same, Added, Settled, Dropped, Flying, Unused
  <2>4. ASSUME NEW v \in Worker, v # t, pc'[t] \in Flying, pc[v] \in Flying, t \in Worker
        PROVE  row'[t] # row[v]
    <3>1. /\ row[v] \in DOMAIN rows
          /\ pc[t] \in Flying => row[t] # row[v]
      BY <1>0, <2>4 DEF SlotInv
    <3>2. QED  BY <2>0, <2>4, <3>1 DEF Same, Added, Settled, Dropped
  <2>5. CASE w # t
    <3>1. ASSUME NEW v \in Worker, v # w, pc'[w] \in Flying, pc'[v] \in Flying
          PROVE  row'[v] # row'[w]
      BY <1>0, <1>4, <2>1, <2>4, <2>5, <3>1, OthersStay DEF SlotInv
    <3>2. QED  BY <1>0, <2>1, <2>2, <2>3, <2>5, <3>1 DEF SlotInv
  <2>6. CASE w = t
    <3>1. ASSUME NEW v \in Worker, v # t, pc'[t] \in Flying, pc'[v] \in Flying
          PROVE  row'[v] # row'[t]
      BY <1>4, <2>4, <2>6, <3>1, OthersStay
    <3>2. pc'[t] \in Flying => row'[t] \in DOMAIN rows' /\ rows'[row'[t]].user = job'[t].user
      <4>1. pc[t] \in Flying => row[t] \in DOMAIN rows /\ rows[row[t]].user = job[t].user
        BY <1>0, <2>6 DEF SlotInv
      <4>2. QED  BY <2>0, <2>6, <4>1 DEF Same, Added, Settled, Dropped
    <3>3. ASSUME pc'[t] \in Unused, NEW i \in DOMAIN created', Counts(i)'
          PROVE  created'[i].row # row'[t]
      <4>1. CASE ~UNCHANGED created
        <5>1. /\ pc[t] = "reserved" /\ UNCHANGED row
              /\ (i \in DOMAIN created /\ created'[i] = created[i]) \/ (pc'[t] = "drop" => ~created'[i].known)
              /\ pc'[t] \in {"keep", "drop"}
          BY <1>4, <4>1, OthersStay
        <5>2. i \in DOMAIN created /\ created'[i] = created[i]
          BY <3>3, <5>1 DEF Counts, Unused
        <5>3. QED  BY <1>0, <2>6, <3>3, <5>1, <5>2 DEF SlotInv, Counts, Unused
      <4>2. CASE UNCHANGED created
        <5>1. i \in DOMAIN created /\ Counts(i) /\ created[i].row \in DOMAIN rows
          BY <1>0, <3>3, <4>2 DEF Counts, RowInv
        <5>2. (pc[t] \in Unused /\ row'[t] = row[t]) \/ row'[t] \notin DOMAIN rows
          BY <2>0, <2>6, <3>3 DEF Same, Added, Settled, Dropped, Flying
        <5>3. QED  BY <1>0, <2>6, <4>2, <5>1, <5>2 DEF SlotInv
      <4>3. QED  BY <4>1, <4>2
    <3>4. QED  BY <2>6, <3>1, <3>2, <3>3 DEF SlotInv
  <2>7. QED  BY <2>5, <2>6
<1>5. CASE \E t \in Worker : Serves(t)
  BY <1>0, <1>4, <1>5
<1>6. CASE \E t \in Thread : Export(t)
  BY <1>4, <1>6
<1>7. QED  BY <1>1, <1>2, <1>3, <1>5, <1>6 DEF Next, Serves, World

LEMMA ReturnedStep ==
  ASSUME ReqInv, Next
  PROVE  SlotsReturned'
<1>0. TypeOK /\ SlotsReturned /\ (\A w \in Worker : SlotInv(w)) /\ Worker \subseteq Thread
  BY Numbers DEF ReqInv
<1>1. CASE Restart
  BY <1>1 DEF Restart, SlotsReturned, db
<1>2. CASE NewDay
  <2>1. UNCHANGED <<pc, row>> /\ torn' = torn \cap DOMAIN rows'
    BY <1>2 DEF NewDay, own
  <2>2. \A i \in DOMAIN rows' : i \in DOMAIN rows /\ rows'[i].done = rows[i].done
    BY <1>2, NewDayShape
  <2>3. QED  BY <1>0, <2>1, <2>2 DEF SlotsReturned, InFlight
<1>3. ASSUME NEW x \in Title, Remove(x)  PROVE SlotsReturned'
  <2>1. UNCHANGED <<pc, row, rows, torn>>
    BY <1>3 DEF Remove, own, db, history
  <2>2. QED  BY <1>0, <2>1 DEF SlotsReturned, InFlight
<1>4. ASSUME NEW t \in Thread, (t \in Worker /\ Serves(t)) \/ Export(t)  PROVE SlotsReturned'
  <2>1. InFlight = {w \in Worker : pc[w] \in Flying} /\ InFlight' = {w \in Worker : pc'[w] \in Flying}
    BY DEF InFlight, Flying, Unused
  <2>2. torn \subseteq torn' /\ \A w \in Worker \ {t} : pc'[w] = pc[w] /\ row'[w] = row[w]
    BY <1>4, OthersStay
  <2>3. (t \notin Worker => UNCHANGED rows) /\ (t \in Worker => Same(t) \/ Added(t) \/ Settled(t) \/ Dropped(t))
    BY <1>4, OthersStay
  <2>4. ASSUME NEW i \in DOMAIN rows'
        PROVE  rows'[i].done \/ i \in torn' \/ \E w \in InFlight' : row'[w] = i
    <3>1. CASE i \notin DOMAIN rows
      <4>1. t \in Worker /\ pc'[t] \in Flying /\ row'[t] = i
        BY <2>3, <2>4, <3>1 DEF Same, Added, Settled, Dropped, Flying
      <4>2. QED  BY <2>1, <4>1
    <3>2. CASE i \in DOMAIN rows /\ (rows[i].done \/ i \in torn)
      BY <2>2, <2>3, <2>4, <3>2 DEF Same, Added, Settled, Dropped
    <3>3. CASE i \in DOMAIN rows /\ \E w \in InFlight : row[w] = i
      <4>1. PICK w \in Worker : pc[w] \in Flying /\ row[w] = i
        BY <2>1, <3>3
      <4>2. CASE w # t
        BY <2>1, <2>2, <4>1, <4>2
      <4>3. CASE w = t
        <5>1. rows'[i].done \/ i \in torn' \/ (pc'[t] \in Flying /\ row'[t] = i)
          BY <2>3, <2>4, <3>3, <4>1, <4>3 DEF Same, Added, Settled, Dropped
        <5>2. QED  BY <2>1, <4>1, <4>3, <5>1
      <4>4. QED  BY <4>2, <4>3
    <3>4. QED  BY <1>0, <3>1, <3>2, <3>3 DEF SlotsReturned
  <2>5. QED  BY <2>4 DEF SlotsReturned
<1>5. CASE \E t \in Worker : Serves(t)
  BY <1>0, <1>4, <1>5
<1>6. CASE \E t \in Thread : Export(t)
  BY <1>4, <1>6
<1>7. QED  BY <1>1, <1>2, <1>3, <1>5, <1>6 DEF Next, Serves, World

-----------------------------------------------------------------------------
(* The caps.                                                               *)

LEMMA CapSets ==
  ASSUME TypeOK
  PROVE  /\ IsFiniteSet(Today) /\ Cardinality(Today) \in Nat
         /\ \A u \in User : IsFiniteSet(Mine(u)) /\ Cardinality(Mine(u)) \in Nat
<1>1. IsFiniteSet(DOMAIN rows)
  BY Numbers, FS_Subset DEF TypeOK
<1>2. Today \in SUBSET (DOMAIN rows) /\ \A u \in User : Mine(u) \in SUBSET (DOMAIN rows)
  BY DEF Today, Mine
<1>3. IsFiniteSet(Today) /\ \A u \in User : IsFiniteSet(Mine(u))
  BY <1>1, <1>2, FS_Subset
<1>4. QED  BY <1>3, FS_CardinalityType

\* Rows that are gone, settled or older count no more than they did.
LEMMA FewerRows ==
  ASSUME ReqInv, Today' \subseteq Today, \A u \in User : Mine(u)' \subseteq Mine(u)
  PROVE  /\ \A u \in User \ Admin : Cardinality(Mine(u))' <= Limit
         /\ Cardinality(Today)' <= DailyMax
<1>0. TypeOK /\ RowInv
  BY DEF ReqInv
<1>1. IsFiniteSet(Today') /\ Cardinality(Today') <= Cardinality(Today) /\ Cardinality(Today') \in Nat
  BY <1>0, CapSets, FS_Subset, FS_CardinalityType
<1>2. ASSUME NEW u \in User \ Admin  PROVE Cardinality(Mine(u)') <= Limit
  <2>1. Cardinality(Mine(u)') <= Cardinality(Mine(u)) /\ Cardinality(Mine(u)') \in Nat
    BY <1>0, CapSets, FS_Subset, FS_CardinalityType
  <2>2. Cardinality(Mine(u)) <= Limit /\ Cardinality(Mine(u)) \in Nat
    BY <1>0, CapSets DEF RowInv
  <2>3. QED  BY <2>1, <2>2, Numbers
<1>3. Cardinality(Today') <= DailyMax
  BY <1>0, <1>1, CapSets, Numbers DEF RowInv
<1>4. QED  BY <1>2, <1>3

\* The row that is added was checked for, in the same transaction.
LEMMA OneMoreRow ==
  ASSUME ReqInv, NEW t \in Worker, Added(t)
  PROVE  /\ \A u \in User \ Admin : Cardinality(Mine(u))' <= Limit
         /\ Cardinality(Today)' <= DailyMax
<1>0. TypeOK /\ RowInv
  BY DEF ReqInv
<1>1. Today' = Today \cup {row'[t]} /\ row'[t] \notin Today
  BY DEF Added, Today
<1>2. Cardinality(Today') <= DailyMax
  <2>1. Cardinality(Today') = Cardinality(Today) + 1 /\ Cardinality(Today) \in Nat
    BY <1>0, <1>1, CapSets, FS_AddElement
  <2>2. QED  BY <2>1, Numbers DEF Added
<1>3. ASSUME NEW u \in User \ Admin  PROVE Cardinality(Mine(u)') <= Limit
  <2>1. IsFiniteSet(Mine(u)) /\ Cardinality(Mine(u)) \in Nat /\ Cardinality(Mine(u)) <= Limit
    BY <1>0, CapSets DEF RowInv
  <2>2. CASE u = job[t].user
    <3>1. Mine(u)' = Mine(u) \cup {row'[t]} /\ row'[t] \notin Mine(u)
      BY <2>2, Numbers DEF Added, Mine
    <3>2. Cardinality(Mine(u)') = Cardinality(Mine(u)) + 1
      BY <2>1, <3>1, FS_AddElement
    <3>3. Cardinality(Mine(u)) < Limit
      BY <2>2 DEF Added, Left
    <3>4. QED  BY <2>1, <3>2, <3>3, Numbers
  <2>3. CASE u # job[t].user
    <3>1. Mine(u)' = Mine(u)
      BY <2>3 DEF Added, Mine
    <3>2. QED  BY <2>1, <3>1
  <2>4. QED  BY <2>2, <2>3
<1>4. QED  BY <1>2, <1>3

LEMMA RowStep ==
  ASSUME ReqInv, Next
  PROVE  RowInv'
<1>0. TypeOK /\ RowInv /\ (\A w \in Worker : SlotInv(w)) /\ Worker \subseteq Thread
  BY Numbers DEF ReqInv
<1>1. ASSUME UNCHANGED <<rows, created>>  PROVE RowInv'
  BY <1>0, <1>1 DEF RowInv, Counts, Mine, Today
<1>2. CASE NewDay
  <2>1. \A i \in DOMAIN created' :
          /\ i \in DOMAIN created /\ created'[i].row = created[i].row /\ created'[i].user = created[i].user
          /\ Counts(i)' => Counts(i) /\ created[i].age < Days /\ created'[i].age = created[i].age + 1
    BY <1>2, NewDayShape, WorldShape, Numbers DEF Counts
  <2>2. \A i \in DOMAIN rows : i \in DOMAIN rows' <=> rows[i].age < Days
    BY <1>2, NewDayShape
  <2>3. \A i \in DOMAIN rows' : /\ i \in DOMAIN rows /\ rows[i].age \in Nat /\ rows'[i].user = rows[i].user
                               /\ rows'[i].age = rows[i].age + 1
    BY <1>2, NewDayShape
  <2>4. Today' \subseteq Today /\ \A u \in User : Mine(u)' \subseteq Mine(u)
    BY <2>3, Numbers DEF Today, Mine
  <2>5. /\ \A u \in User \ Admin : Cardinality(Mine(u))' <= Limit
        /\ Cardinality(Today)' <= DailyMax
    BY <2>4, FewerRows
  <2>6. ASSUME NEW i \in DOMAIN created', Counts(i)'
        PROVE  /\ created'[i].row \in DOMAIN rows'
               /\ rows'[created'[i].row].user = created'[i].user
               /\ rows'[created'[i].row].age = created'[i].age
    BY <1>0, <2>1, <2>2, <2>3, <2>6 DEF RowInv
  <2>7. \A i, k \in DOMAIN created' :
          Counts(i)' /\ Counts(k)' /\ created'[i].row = created'[k].row => i = k
    BY <1>0, <2>1 DEF RowInv
  <2>8. QED  BY <2>5, <2>6, <2>7 DEF RowInv
<1>3. ASSUME NEW x \in Title, Remove(x), ~NewDay  PROVE RowInv'
  <2>1. /\ UNCHANGED rows /\ DOMAIN created' = DOMAIN created
        /\ \A i \in DOMAIN created :
             /\ created'[i].user = created[i].user /\ created'[i].row = created[i].row
             /\ created'[i].age = created[i].age /\ created'[i].known = created[i].known
    BY <1>3, WorldShape DEF Remove, db
  <2>2. QED  BY <1>0, <2>1 DEF RowInv, Counts, Mine, Today
<1>4. ASSUME NEW t \in Thread, (t \in Worker /\ Serves(t)) \/ Export(t)  PROVE RowInv'
  <2>0. (t \notin Worker => UNCHANGED rows) /\ (t \in Worker => Same(t) \/ Added(t) \/ Settled(t) \/ Dropped(t))
    BY <1>4, OthersStay
  <2>1. CASE UNCHANGED created
    <3>1. CASE UNCHANGED rows
      BY <1>1, <2>1, <3>1
    <3>2. ASSUME t \in Worker, Added(t) \/ Settled(t) \/ Dropped(t)  PROVE RowInv'
      <4>1. /\ \A u \in User \ Admin : Cardinality(Mine(u))' <= Limit
            /\ Cardinality(Today)' <= DailyMax
        <5>1. CASE Added(t)
          BY <3>2, <5>1, OneMoreRow
        <5>2. CASE Settled(t) \/ Dropped(t)
          <6>1. Today' \subseteq Today /\ \A u \in User : Mine(u)' \subseteq Mine(u)
            BY <5>2 DEF Settled, Dropped, Today, Mine
          <6>2. QED  BY <6>1, FewerRows
        <5>3. QED  BY <3>2, <5>1, <5>2
      <4>2. ASSUME NEW i \in DOMAIN created, Counts(i)
            PROVE  /\ created[i].row \in DOMAIN rows' /\ rows'[created[i].row].user = created[i].user
                   /\ rows'[created[i].row].age = created[i].age
        <5>1. /\ created[i].row \in DOMAIN rows /\ rows[created[i].row].user = created[i].user
              /\ rows[created[i].row].age = created[i].age
          BY <1>0, <4>2 DEF RowInv
        <5>2. pc[t] = "drop" => created[i].row # row[t]
          BY <1>0, <3>2, <4>2 DEF SlotInv, Unused
        <5>3. QED  BY <3>2, <5>1, <5>2 DEF Added, Settled, Dropped
      <4>3. QED  BY <1>0, <2>1, <4>1, <4>2 DEF RowInv, Counts
    <3>3. QED  BY <2>0, <3>1, <3>2 DEF Same
  <2>2. CASE ~UNCHANGED created
    <3>1. PICK n : /\ t \in Worker /\ pc[t] = "reserved" /\ UNCHANGED rows
                   /\ n \notin DOMAIN created /\ DOMAIN created' = DOMAIN created \cup {n}
                   /\ \A i \in DOMAIN created : created'[i] = created[i]
                   /\ created'[n].row = row[t] /\ created'[n].user = job[t].user
                   /\ created'[n].age = rows[row[t]].age
      BY <1>4, <2>2, OthersStay
    <3>2. /\ row[t] \in DOMAIN rows /\ rows[row[t]].user = job[t].user
          /\ \A i \in DOMAIN created : Counts(i) => created[i].row # row[t]
      BY <1>0, <3>1 DEF SlotInv, Flying, Unused
    <3>3. \A i \in DOMAIN created : Counts(i)' <=> Counts(i)
      BY <3>1 DEF Counts
    <3>4. \A i \in DOMAIN created' : Counts(i)' =>
            /\ created'[i].row \in DOMAIN rows' /\ rows'[created'[i].row].user = created'[i].user
            /\ rows'[created'[i].row].age = created'[i].age
      BY <1>0, <3>1, <3>2, <3>3 DEF RowInv
    <3>5. \A i, k \in DOMAIN created' :
            Counts(i)' /\ Counts(k)' /\ created'[i].row = created'[k].row => i = k
      BY <1>0, <3>1, <3>2, <3>3 DEF RowInv
    <3>6. Today' = Today /\ \A u \in User : Mine(u)' = Mine(u)
      BY <3>1 DEF Today, Mine
    <3>7. QED  BY <1>0, <3>4, <3>5, <3>6 DEF RowInv
  <2>3. QED  BY <2>1, <2>2
<1>5. CASE Restart
  BY <1>1, <1>5 DEF Restart, db, seerr
<1>6. CASE \E t \in Worker : Serves(t)
  BY <1>0, <1>4, <1>6
<1>7. CASE \E t \in Thread : Export(t)
  BY <1>4, <1>7
<1>8. QED  BY <1>2, <1>3, <1>5, <1>6, <1>7 DEF Next, Serves, World

-----------------------------------------------------------------------------
(* The theorems.                                                           *)

LEMMA ReqInit ==
  ASSUME Init
  PROVE  ReqInv
<1>1. \A S : << >> \in Seq(S)
  OBVIOUS
<1>2. TypeOK
  BY <1>1, Numbers DEF Init, TypeOK, Thread
<1>3. LockInv /\ FileInv
  BY Numbers DEF Init, LockInv, FileInv, OneServiceUser, CacheIsTrue
<1>4. Today = {} /\ (\A u \in User : Mine(u) = {}) /\ DOMAIN created = {} /\ DOMAIN rows = {}
  BY DEF Init, Today, Mine
<1>5. RowInv
  <2>1. Cardinality({}) = 0
    BY FS_EmptySet
  <2>2. Cardinality(Today) <= DailyMax /\ \A u \in User \ Admin : Cardinality(Mine(u)) <= Limit
    <3>1. Cardinality(Today) = 0 /\ \A u \in User \ Admin : Cardinality(Mine(u)) = 0
      BY <1>4, <2>1, Zenon
    <3>2. 0 <= DailyMax /\ 0 <= Limit
      BY Numbers
    <3>3. QED  BY <3>1, <3>2, Zenon
  <2>3. QED  BY <1>4, <2>2 DEF RowInv
<1>6. SlotsReturned /\ OncePerUser
  BY <1>4 DEF SlotsReturned, OncePerUser
<1>7. \A t \in Worker : WorkInv(t) /\ SlotInv(t)
  BY Numbers DEF Init, WorkInv, SlotInv, Before, Flying, Unused
<1>8. QED  BY <1>2, <1>3, <1>5, <1>6, <1>7 DEF ReqInv

LEMMA ReqStep ==
  ASSUME ReqInv, [Next]_vars
  PROVE  ReqInv'
<1>1. CASE Next
  BY <1>1, TypeStep, LockStep, FileStep, WorkStep, SlotStep, ReturnedStep, RowStep DEF ReqInv
<1>2. CASE UNCHANGED vars
  <2>1. UNCHANGED <<pc, job, row, made, snap, userLock, svcLock, exportLock, rows, asked, file,
                    exported, created, svcs, faults, torn>>
    BY <1>2 DEF vars, own, locks, db, origins, seerr, history
  <2>2. TypeOK' /\ LockInv' /\ FileInv' /\ SlotsReturned' /\ OncePerUser'
    BY <2>1, TypeStep DEF ReqInv, LockInv, FileInv, SlotsReturned, OncePerUser, OneServiceUser,
       CacheIsTrue, InFlight
  <2>3. RowInv'
    BY <2>1 DEF ReqInv, RowInv, Counts, Mine, Today
  <2>4. \A t \in Worker : WorkInv(t)' /\ SlotInv(t)'
    BY <2>1 DEF ReqInv, WorkInv, SlotInv, Counts
  <2>5. QED  BY <2>2, <2>3, <2>4 DEF ReqInv
<1>3. QED  BY <1>1, <1>2

\* The inductive invariant: a thread at work has the lock of its user, a row is
\* its thread's or settled, and every request that is known and still counts
\* has a row of its own, of the same user and age.
THEOREM PopularInvariant == Spec => []ReqInv
<1>1. Init => ReqInv
  BY ReqInit
<1>2. ReqInv /\ [Next]_vars => ReqInv'
  BY ReqStep
<1>3. QED  BY <1>1, <1>2, PTL DEF Spec

\* Types hold, a reservation is settled unless the process was killed or settle
\* raised, there is one service user, and the refresher never takes for written
\* what is not.
THEOREM PopularSafe == Spec => []PopInv
<1>1. ReqInv => PopInv
  BY DEF ReqInv, PopInv, LockInv, FileInv
<1>2. QED  BY <1>1, PopularInvariant, PTL

\* From two devices, after a lost answer or after a kill: no user has two
\* requests for a title at the same time.
THEOREM PopularOncePerUser == Spec => []OncePerUser
<1>1. ReqInv => OncePerUser
  BY DEF ReqInv
<1>2. QED  BY <1>1, PopularInvariant, PTL

\* An export never drops a request that an earlier one had written.
THEOREM PopularOriginsGrow == Spec => OriginsGrow
<1>1. ReqInv /\ [Next]_vars => [file \subseteq file']_vars
  BY FileStep
<1>2. QED  BY <1>1, PopularInvariant, PTL DEF Spec, OriginsGrow

\* A set of known requests that count is no larger than that of their rows.
LEMMA AsManyRows ==
  ASSUME RowInv, NEW S \in SUBSET {i \in DOMAIN created : Counts(i)},
         NEW R, IsFiniteSet(R), \A i \in S : created[i].row \in R
  PROVE  IsFiniteSet(S) /\ Cardinality(S) <= Cardinality(R)
<1> DEFINE f == [i \in S |-> created[i].row]
<1>1. f \in Injection(S, R)
  <2>1. f \in [S -> R]
    OBVIOUS
  <2>2. IsInjective(f)
    BY DEF IsInjective, RowInv
  <2>3. QED  BY <2>1, <2>2 DEF Injection
<1>2. QED  BY <1>1, FS_Injection

\* However many threads reserve and post at the same time, the requests that
\* are known to have been made stay within the limits.
THEOREM PopularCapsHold == Spec => []CapsHold
<1>1. ReqInv => CapsHold
  <2> SUFFICES ASSUME ReqInv  PROVE CapsHold
    OBVIOUS
  <2>0. TypeOK /\ RowInv /\ created \in Seq(Request)
    BY DEF ReqInv, TypeOK, Request
  <2>1. \A i \in DOMAIN created : created[i].age \in Nat
    <3>1. \A i \in DOMAIN created : created[i] \in Request
      BY <2>0
    <3>2. \A r \in Request : r.age \in Nat
      BY Numbers DEF Request
    <3>3. QED  BY <3>1, <3>2
  <2>2. ASSUME NEW u \in User \ Admin
        PROVE  Cardinality({i \in Within(Days) : created[i].user = u}) <= Limit
    <3> DEFINE S == {i \in Within(Days) : created[i].user = u}
    <3>1. S \in SUBSET {i \in DOMAIN created : Counts(i)}
      BY DEF Within, Counts
    <3>2. \A i \in S : created[i].row \in Mine(u)
      BY <2>0 DEF RowInv, Within, Counts, Mine
    <3>3. IsFiniteSet(Mine(u)) /\ Cardinality(Mine(u)) \in Nat /\ Cardinality(Mine(u)) <= Limit
      BY <2>0, CapSets DEF RowInv
    <3> HIDE DEF S
    <3>4. IsFiniteSet(S) /\ Cardinality(S) <= Cardinality(Mine(u))
      BY <2>0, <3>1, <3>2, <3>3, AsManyRows
    <3>5. Cardinality(S) \in Nat
      BY <3>4, FS_CardinalityType
    <3>6. Cardinality(S) <= Limit
      BY <3>3, <3>4, <3>5, Numbers
    <3>7. QED  BY <3>6 DEF S
  <2>3. Cardinality(Within(1)) <= DailyMax
    <3>1. Within(1) \in SUBSET {i \in DOMAIN created : Counts(i)}
      BY <2>1, Numbers DEF Within, Counts
    <3>2. \A i \in Within(1) : created[i].row \in Today
      <4>1. \A i \in Within(1) : i \in DOMAIN created /\ Counts(i) /\ created[i].age = 0
        BY <2>1, Numbers DEF Within, Counts
      <4>2. QED  BY <2>0, <4>1 DEF RowInv, Today
    <3>3. IsFiniteSet(Today) /\ Cardinality(Today) \in Nat /\ Cardinality(Today) <= DailyMax
      BY <2>0, CapSets DEF RowInv
    <3>4. IsFiniteSet(Within(1)) /\ Cardinality(Within(1)) <= Cardinality(Today)
      BY <2>0, <3>1, <3>2, <3>3, AsManyRows
    <3>5. Cardinality(Within(1)) \in Nat
      BY <3>4, FS_CardinalityType
    <3>6. QED  BY <3>3, <3>4, <3>5, Numbers
  <2>4. QED  BY <2>2, <2>3 DEF CapsHold
<1>2. QED  BY <1>1, PopularInvariant, PTL
=============================================================================
