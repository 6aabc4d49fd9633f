--------------------------- MODULE PopularRequests ---------------------------
(***************************************************************************)
(* The request backend of the Popular page (popular/app.py): the page, the *)
(* TV hook and the Seerr facade all end in Core.send, run by a pool of     *)
(* threads in one process.  send looks a title up in Seerr, reserves one   *)
(* of the user's requests in a data base, finds out as whom to ask, posts  *)
(* the request, settles the reservation, remembers the request and exports *)
(* all of them for the Seerr pages.  Only requests of one user wait for    *)
(* each other; everything else interleaves.                                *)
(*                                                                         *)
(* A Seerr call may fail, or be carried out and lose its answer.  The      *)
(* process may be killed at any step; the data base and the file stay.     *)
(* Times are ages in days: that is what limits, days and caps tell apart.  *)
(* A step that only reads is one with the step after it, where nothing     *)
(* can come between that they would tell.  Left out: rate limits, the      *)
(* allow list (any title may be asked for), the names in the export, the   *)
(* matching of accounts and the cache of the service user (choices).       *)
(***************************************************************************)
EXTENDS Integers, Sequences, FiniteSets, Functions

CONSTANTS
  User, Admin, Title,
  Worker,          \* threads of the servers
  Refresher,       \* refresh_origins_forever
  Limit, Days,     \* requests of a user within so many days
  DailyMax,        \* requests of all users in a day
  RowId,           \* ids of the table; bound: how many rows there may be at once
  MaxReq,          \* bound: requests that Seerr creates
  MaxFault,        \* bound: kills, full disks
  None

ASSUME PopAssumption ==
  /\ Admin \subseteq User /\ Refresher \notin Worker
  /\ None \notin Worker \cup {Refresher} \cup User
  /\ Limit \in Nat /\ DailyMax \in Nat /\ Days \in Nat \ {0}
  /\ RowId \subseteq Nat \ {0} /\ IsFiniteSet(RowId) /\ MaxReq \in Nat /\ MaxFault \in Nat

Thread == Worker \cup {Refresher}

VARIABLES
  pc,        \* [Thread -> where it is]
  job,       \* [Worker -> the request it serves]
  row,       \* [Worker -> the row it reserved]
  made,      \* [Worker -> the request Seerr created for it, or 0]
  snap,      \* [Thread -> rows read for the export]
  userLock,  \* [User -> Thread or None], user_locks
  svcLock, exportLock,
  rows,      \* table requests: id -> whose, how old, done
  asked,     \* table user_requests: ids of Seerr's requests
  file,      \* ids in origins.json
  exported,  \* cache["exported"]
  created,   \* Seerr's requests, in the order of their ids
  svcs,      \* service users in Seerr
  faults,
  torn       \* history: rows left by a kill, or by a settle that failed

own == <<job, row, made, snap>>
locks == <<userLock, svcLock, exportLock>>
db == <<rows, asked>>
origins == <<file, exported>>
seerr == <<created, svcs>>
history == <<faults, torn>>
vars == <<pc, own, locks, db, origins, seerr, history>>

NoJob == [user |-> None, title |-> None]
Sending == {"reserve", "reserved", "svclock", "make", "keep", "drop", "remember"}
InFlight == {t \in Worker : pc[t] \in {"reserved", "svclock", "make", "keep", "drop"}}

TypeOK ==
  /\ pc \in [Thread -> Sending \cup {"idle", "export", "write"}]
  /\ job \in [Worker -> [user : User, title : Title] \cup {NoJob}]
  /\ row \in [Worker -> RowId \cup {0}] /\ made \in [Worker -> Nat]
  /\ snap \in [Thread -> SUBSET Nat]
  /\ userLock \in [User -> Worker \cup {None}]
  /\ svcLock \in Worker \cup {None} /\ exportLock \in Thread \cup {None}
  /\ DOMAIN rows \subseteq RowId
  /\ rows \in [DOMAIN rows -> [user : User, age : 0 .. Days, done : BOOLEAN]]
  /\ asked \subseteq Nat /\ file \subseteq Nat /\ exported \in (SUBSET Nat) \cup {None}
  /\ created \in Seq([user : User, title : Title, age : 0 .. Days, row : RowId,
                      live : BOOLEAN, known : BOOLEAN])
  /\ svcs \in Nat
  /\ faults \in 0 .. MaxFault /\ torn \subseteq RowId

Init ==
  /\ pc = [t \in Thread |-> "idle"] /\ job = [t \in Worker |-> NoJob]
  /\ row = [t \in Worker |-> 0] /\ made = [t \in Worker |-> 0]
  /\ snap = [t \in Thread |-> {}]
  /\ userLock = [u \in User |-> None] /\ svcLock = None /\ exportLock = None
  /\ rows = << >> /\ asked = {} /\ file = {} /\ exported = {}
  /\ created = << >> /\ svcs = 0
  /\ faults = 0 /\ torn = {}

At(t, here) == pc[t] = here
Goto(t, there) == pc' = [pc EXCEPT ![t] = there]

\* The thread is done with its request: all that is its own is gone.
Leave(t) ==
  /\ Goto(t, "idle")
  /\ job' = [job EXCEPT ![t] = NoJob] /\ row' = [row EXCEPT ![t] = 0]
  /\ made' = [made EXCEPT ![t] = 0] /\ userLock' = [userLock EXCEPT ![job[t].user] = None]

-----------------------------------------------------------------------------
(* The limits *)

\* Titles that Seerr holds a request for.
Taken == {created[i].title : i \in {k \in DOMAIN created : created[k].live}}

Ask_NoLock(t, u, x) ==
  /\ At(t, "idle") /\ Len(created) + Cardinality({w \in Worker : pc[w] # "idle"}) < MaxReq
  /\ x \notin Taken
  /\ job' = [job EXCEPT ![t] = [user |-> u, title |-> x]] /\ Goto(t, "reserve")
  /\ UNCHANGED <<row, made, snap, locks, db, origins, seerr, history>>

\* A request of the page, the TV or the facade comes in, waits for those of the
\* same user and looks the title up.  One that is there, requested or declined
\* in Seerr is refused, and so is a check or a read that fails: nothing happens.
Ask(t, u, x) ==
  /\ At(t, "idle") /\ Len(created) + Cardinality({w \in Worker : pc[w] # "idle"}) < MaxReq
  /\ userLock[u] = None /\ x \notin Taken
  /\ userLock' = [userLock EXCEPT ![u] = t]
  /\ job' = [job EXCEPT ![t] = [user |-> u, title |-> x]] /\ Goto(t, "reserve")
  /\ UNCHANGED <<row, made, snap, svcLock, exportLock, db, origins, seerr, history>>

Mine(u) == {i \in DOMAIN rows : rows[i].user = u /\ rows[i].age < Days}

Today_Done == {i \in DOMAIN rows : rows[i].age = 0 /\ rows[i].done}

Today == {i \in DOMAIN rows : rows[i].age = 0}

Left(u) == u \in Admin \/ Cardinality(Mine(u)) < Limit

\* sqlite gives a new row an id that no other row has; of deleted ones it may.
NewId == CHOOSE i \in RowId \ DOMAIN rows : TRUE

\* The check and the reservation are one transaction.
Reserve(t) ==
  LET u == job[t].user
      new == [i \in DOMAIN rows \cup {NewId} |->
                IF i = NewId THEN [user |-> u, age |-> 0, done |-> FALSE] ELSE rows[i]]
  IN /\ At(t, "reserve") /\ RowId \ DOMAIN rows # {}
     /\ \/ /\ Left(u) /\ Cardinality(Today) < DailyMax
           /\ rows' = new
           /\ row' = [row EXCEPT ![t] = NewId] /\ Goto(t, "reserved")
           /\ UNCHANGED <<job, made, userLock>>
        \/ /\ ~(Left(u) /\ Cardinality(Today) < DailyMax)
           /\ Leave(t) /\ UNCHANGED rows
     /\ UNCHANGED <<snap, svcLock, exportLock, asked, origins, seerr, history>>

-----------------------------------------------------------------------------
(* As whom to ask, and the request *)

\* Who has no account that may ask is served by the service user, and there is
\* none; the facade makes no user, and gives up.
FindNone(t) ==
  /\ At(t, "reserved") /\ svcs = 0 /\ Goto(t, "svclock")
  /\ UNCHANGED <<own, locks, db, origins, seerr, history>>

\* The second look, under the lock; it may fail.
FindAgain(t) ==
  /\ At(t, "svclock") /\ svcLock = None
  /\ \/ svcs = 0 /\ svcLock' = t /\ Goto(t, "make")
     \/ ((svcs > 0 /\ Goto(t, "reserved")) \/ Goto(t, "drop")) /\ UNCHANGED svcLock
  /\ UNCHANGED <<own, userLock, exportLock, db, origins, seerr, history>>

\* The user is made, and the answer comes or is lost; or he is not made.
Make(t) ==
  /\ At(t, "make") /\ svcLock' = None
  /\ svcs' \in {svcs, svcs + 1} /\ (Goto(t, "drop") \/ (svcs' > svcs /\ Goto(t, "reserved")))
  /\ UNCHANGED <<own, userLock, exportLock, db, origins, created, history>>

Creates(t, known) ==
  created' = Append(created, [user |-> job[t].user, title |-> job[t].title,
                              age |-> rows[row[t]].age, row |-> row[t],
                              live |-> TRUE, known |-> known])

\* Seerr creates the request and says so; or answers without an id, when the
\* title has just been requested; or creates it and the answer is lost; or
\* nothing is posted or created: no download-now tag, no account, a refusal.
Post(t) ==
  /\ At(t, "reserved")
  /\ \/ Creates(t, TRUE) /\ made' = [made EXCEPT ![t] = Len(created) + 1] /\ Goto(t, "keep")
     \/ job[t].title \in Taken /\ Goto(t, "keep") /\ UNCHANGED <<made, created>>
     \/ Creates(t, FALSE) /\ Goto(t, "drop") /\ UNCHANGED made
     \/ Goto(t, "drop") /\ UNCHANGED <<made, created>>
  /\ UNCHANGED <<job, row, snap, locks, db, origins, svcs, history>>

\* settle(rid, True).  The exception of an audit log that cannot be written
\* ends the thread here, and so does an answer without an id.
SettleOk(t) ==
  /\ At(t, "keep")
  /\ rows' = [i \in DOMAIN rows |-> IF i = row[t] THEN [rows[i] EXCEPT !.done = TRUE] ELSE rows[i]]
  /\ \/ made[t] # 0 /\ Goto(t, "remember") /\ UNCHANGED <<job, row, made, userLock, faults>>
     \/ made[t] = 0 /\ Leave(t) /\ UNCHANGED faults
     \/ faults < MaxFault /\ faults' = faults + 1 /\ Leave(t)
  /\ UNCHANGED <<snap, svcLock, exportLock, asked, origins, seerr, torn>>

SettleDrop_Stays(t) ==
  /\ At(t, "drop") /\ Leave(t)
  /\ UNCHANGED <<snap, svcLock, exportLock, db, origins, seerr, history>>

\* settle(rid, False), after any refusal, error or exception.
SettleDrop(t) ==
  /\ At(t, "drop") /\ Leave(t) /\ rows' = Restrict(rows, DOMAIN rows \ {row[t]})
  /\ UNCHANGED <<snap, svcLock, exportLock, asked, origins, seerr, history>>

\* Either settle may raise, on a full disk: the row stays, unsettled, and what
\* Seerr has made is not remembered.
SettleFails(t) ==
  /\ pc[t] \in {"keep", "drop"} /\ Leave(t)
  /\ faults < MaxFault /\ faults' = faults + 1 /\ torn' = torn \cup {row[t]}
  /\ UNCHANGED <<snap, svcLock, exportLock, db, origins, seerr>>

Remember(t) ==
  /\ At(t, "remember")
  /\ \/ asked' = asked \cup {made[t]} /\ Goto(t, "export") /\ UNCHANGED <<job, row, made, userLock, faults>>
     \/ faults < MaxFault /\ faults' = faults + 1 /\ Leave(t) /\ UNCHANGED asked
  /\ UNCHANGED <<snap, svcLock, exportLock, rows, origins, seerr, torn>>

-----------------------------------------------------------------------------
(* The export *)

\* The refresher wakes up every five minutes.
Ready(t) == At(t, IF t = Refresher THEN "idle" ELSE "export")

ReadRows_NoLock(t) ==
  /\ Ready(t) /\ exportLock' = t /\ snap' = [snap EXCEPT ![t] = asked] /\ Goto(t, "write")
  /\ UNCHANGED <<job, row, made, userLock, svcLock, db, origins, seerr, history>>

\* The rows are read under the lock; the refresher writes only what is new.
ReadRows(t) ==
  /\ Ready(t) /\ exportLock = None /\ (t = Refresher => asked # exported)
  /\ exportLock' = t /\ snap' = [snap EXCEPT ![t] = asked] /\ Goto(t, "write")
  /\ UNCHANGED <<job, row, made, userLock, svcLock, db, origins, seerr, history>>

ExportEnds(t) ==
  /\ exportLock' = None /\ snap' = [snap EXCEPT ![t] = {}]
  /\ \/ t \in Worker /\ Leave(t)
     \/ t = Refresher /\ Goto(t, "idle") /\ UNCHANGED <<job, row, made, userLock>>

\* The file is replaced as a whole, or stays as it is on a full disk.
Write(t) ==
  /\ At(t, "write") /\ ExportEnds(t)
  /\ \/ file' = snap[t] /\ exported' = snap[t] /\ UNCHANGED faults
     \/ faults < MaxFault /\ faults' = faults + 1 /\ UNCHANGED origins
  /\ UNCHANGED <<svcLock, db, seerr, torn>>

-----------------------------------------------------------------------------
(* The process and the world *)

\* The process is killed and comes back; opening the data base exports once.
Restart ==
  /\ faults < MaxFault /\ faults' = faults + 1
  /\ pc' = [t \in Thread |-> "idle"] /\ job' = [t \in Worker |-> NoJob]
  /\ row' = [t \in Worker |-> 0] /\ made' = [t \in Worker |-> 0]
  /\ snap' = [t \in Thread |-> {}]
  /\ userLock' = [u \in User |-> None] /\ svcLock' = None /\ exportLock' = None
  /\ \/ file' = asked /\ exported' = asked
     \/ file' = file /\ exported' = None
  /\ torn' = {i \in DOMAIN rows : ~rows[i].done}
  /\ UNCHANGED <<db, seerr>>

Older(r) == [r EXCEPT !.age = IF @ < Days THEN @ + 1 ELSE @]

\* A request takes seconds: it sees one midnight at most.  Rows that no count
\* takes in any more are not told apart from deleted ones (KEEP_DAYS is longer).
NewDay ==
  /\ \A t \in InFlight : rows[row[t]].age = 0
  /\ rows' = [i \in {k \in DOMAIN rows : rows[k].age < Days} |-> Older(rows[i])]
  /\ created' = [i \in DOMAIN created |-> Older(created[i])]
  /\ torn' = torn \cap DOMAIN rows'
  /\ UNCHANGED <<pc, own, locks, asked, origins, svcs, faults>>

\* A title is removed in Seerr, and its requests with it.
Remove(x) ==
  /\ x \in Taken
  /\ created' = [i \in DOMAIN created |->
                   IF created[i].title = x THEN [created[i] EXCEPT !.live = FALSE] ELSE created[i]]
  /\ UNCHANGED <<pc, own, locks, db, origins, svcs, history>>

Send(t) ==
  \/ Reserve(t) \/ FindNone(t) \/ FindAgain(t) \/ Make(t) \/ Post(t)
  \/ SettleOk(t) \/ SettleDrop(t) \/ SettleFails(t) \/ Remember(t)

Export(t) == ReadRows(t) \/ Write(t)

World == NewDay \/ \E x \in Title : Remove(x)

Next ==
  \/ \E t \in Worker : Send(t) \/ \E u \in User, x \in Title : Ask(t, u, x)
  \/ \E t \in Thread : Export(t)
  \/ Restart \/ World

Spec == Init /\ [][Next]_vars

-----------------------------------------------------------------------------
(* What must hold. *)

\* Whatever the threads do at the same time, Seerr gets no more requests than a
\* user may make within days, nor than daily_max in a day, counted by the days
\* of their reservations (app.py:404, "parallel requests cannot pass the caps
\* together").  A request whose answer was lost is not known to have been made.
Within(days) == {i \in DOMAIN created : created[i].known /\ created[i].age < days}
CapsHold ==
  /\ \A u \in User \ Admin : Cardinality({i \in Within(Days) : created[i].user = u}) <= Limit
  /\ Cardinality(Within(1)) <= DailyMax

\* A reservation is settled by whoever made it: no refusal, error or exception
\* costs a user one of his requests, except a kill of the process and a settle
\* that the disk has no room for.
SlotsReturned ==
  \A i \in DOMAIN rows : rows[i].done \/ i \in torn \/ \E t \in InFlight : row[t] = i

\* A user never makes a second request for a title while Seerr holds his first:
\* from two devices at once, after a lost answer or after a kill.
OncePerUser ==
  \A i, k \in DOMAIN created :
    i # k /\ created[i].live /\ created[k].live
    => <<created[i].user, created[i].title>> # <<created[k].user, created[k].title>>

\* There is one service user, however many threads find that there is none.
OneServiceUser == svcs <= 1

\* A request that the pages have been told of stays in origins.json: an older
\* view never overwrites a newer one.
OriginsGrow == [][file \subseteq file']_vars

\* The refresher writes only what has changed: what it takes for written is
\* what the pages read, over full disks, kills and exports of other threads.
CacheIsTrue == exported \in {None, file}

PopInv == TypeOK /\ SlotsReturned /\ OneServiceUser /\ CacheIsTrue
=============================================================================
