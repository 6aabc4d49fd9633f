----------------------------- MODULE PoolProofs -----------------------------
(***************************************************************************)
(* What is proved of the two programs that move titles between the SSDs    *)
(* and the HDD: Promoter, for any library, any limits and any number of    *)
(* requests, and MoverRun, for any titles, SSDs, ages and limits.          *)
(***************************************************************************)
EXTENDS Promoter, MoverRun, FiniteSetTheorems, SequenceTheorems, TLAPS

-----------------------------------------------------------------------------
(* Promoter. *)


USE DEF Place, Outcome, Time

\* Append puts the new element last and leaves the others where they were.
LEMMA AppendElements ==
  ASSUME NEW S, NEW s \in Seq(S), NEW e \in S
  PROVE  /\ Append(s, e) \in Seq(S)
         /\ Len(Append(s, e)) = Len(s) + 1
         /\ \A i \in 1 .. Len(s) : Append(s, e)[i] = s[i]
         /\ Append(s, e)[Len(s) + 1] = e
OBVIOUS

\* Tail drops the first element and moves the others up by one.
LEMMA TailElements ==
  ASSUME NEW S, NEW s \in Seq(S), s # <<>>
  PROVE  /\ Tail(s) \in Seq(S)
         /\ Len(Tail(s)) = Len(s) - 1
         /\ \A i \in 1 .. Len(s) - 1 : Tail(s)[i] = s[i + 1]
         /\ Head(s) = s[1]
         /\ Len(s) \in Nat \ {0}
OBVIOUS

\* The titles of a deque, as a set.
Elements(s) == {s[i] : i \in 1 .. Len(s)}

\* A title that is put at the end of a deque without it stays alone there.
LEMMA AppendTitle ==
  ASSUME NEW s \in Seq(Title), NEW t \in Title, t \notin Elements(s),
         \A i, j \in 1 .. Len(s) : s[i] = s[j] => i = j
  PROVE  /\ Append(s, t) \in Seq(Title)
         /\ Elements(Append(s, t)) = Elements(s) \cup {t}
         /\ \A i, j \in 1 .. Len(Append(s, t)) :
               Append(s, t)[i] = Append(s, t)[j] => i = j
<1> DEFINE a == Append(s, t)
<1>1. /\ a \in Seq(Title) /\ Len(a) = Len(s) + 1 /\ Len(s) \in Nat
      /\ \A i \in 1 .. Len(s) : a[i] = s[i]
      /\ a[Len(s) + 1] = t
  BY AppendElements
<1>2. 1 .. Len(a) = (1 .. Len(s)) \cup {Len(s) + 1}
  BY <1>1
<1>3. \A i \in 1 .. Len(s) : s[i] # t
  BY DEF Elements
<1> HIDE DEF a
<1>4. Elements(a) = Elements(s) \cup {t}
  BY <1>1, <1>2 DEF Elements
<1>5. \A i, j \in 1 .. Len(a) : a[i] = a[j] => i = j
  BY <1>1, <1>2, <1>3
<1> QED BY <1>1, <1>4, <1>5 DEF a

\* The deque without its head: the head is gone from it.
LEMMA TakeTitle ==
  ASSUME NEW s \in Seq(Title), s # <<>>,
         \A i, j \in 1 .. Len(s) : s[i] = s[j] => i = j
  PROVE  /\ Tail(s) \in Seq(Title)
         /\ Head(s) \in Title
         /\ Head(s) \in Elements(s)
         /\ Elements(Tail(s)) = Elements(s) \ {Head(s)}
         /\ \A i, j \in 1 .. Len(Tail(s)) : Tail(s)[i] = Tail(s)[j] => i = j
<1> DEFINE r == Tail(s)
<1>1. /\ r \in Seq(Title) /\ Len(r) = Len(s) - 1
      /\ \A i \in 1 .. Len(s) - 1 : r[i] = s[i + 1]
      /\ Head(s) = s[1]
      /\ Len(s) \in Nat \ {0}
  BY TailElements
<1> HIDE DEF r
<1>2. \A i \in 1 .. Len(s) : s[i] \in Title
  OBVIOUS
<1>3. \A i, j \in 1 .. Len(r) : r[i] = r[j] => i = j
  <2> SUFFICES ASSUME NEW i \in 1 .. Len(r), NEW j \in 1 .. Len(r), r[i] = r[j]
               PROVE  i = j
    OBVIOUS
  <2>1. i + 1 \in 1 .. Len(s) /\ j + 1 \in 1 .. Len(s)
    BY <1>1
  <2>2. s[i + 1] = s[j + 1]
    BY <1>1
  <2> QED BY <1>1, <2>1, <2>2
<1>4. Elements(r) = Elements(s) \ {Head(s)}
  <2>1. ASSUME NEW i \in 1 .. Len(r)
        PROVE  r[i] \in Elements(s) /\ r[i] # Head(s)
    <3>1. i + 1 \in 1 .. Len(s) /\ i + 1 # 1 /\ 1 \in 1 .. Len(s) /\ r[i] = s[i + 1]
      BY <1>1
    <3> QED BY <1>1, <3>1 DEF Elements
  <2>2. ASSUME NEW i \in 1 .. Len(s), s[i] # Head(s)
        PROVE  s[i] \in Elements(r)
    <3>1. i # 1
      BY <1>1, <2>2
    <3>2. i - 1 \in 1 .. Len(r) /\ i - 1 \in 1 .. Len(s) - 1
      BY <1>1, <3>1
    <3>3. r[i - 1] = s[(i - 1) + 1]
      BY <1>1, <3>2
    <3>4. (i - 1) + 1 = i
      OBVIOUS
    <3> QED BY <3>2, <3>3, <3>4 DEF Elements
  <2> QED BY <2>1, <2>2 DEF Elements
<1> QED BY <1>1, <1>2, <1>3, <1>4 DEF r, Elements

-----------------------------------------------------------------------------
(* The parts of BooksAgree, as one predicate of the deque. *)

Distinct(s) == \A i, j \in 1 .. Len(s) : s[i] = s[j] => i = j

\* The bounded history keeps its type.
LEMMA RememberType ==
  ASSUME recent \in Seq([at : Time, outcome : Outcome]),
         NEW e \in [at : Time, outcome : Outcome],
         Remember(e)
  PROVE  recent' \in Seq([at : Time, outcome : Outcome])
<1> DEFINE E == [at : Time, outcome : Outcome]
<1>1. Append(recent, e) \in Seq(E) /\ Append(recent, e) # <<>>
  <2>1. Append(recent, e) \in Seq(E) /\ Len(Append(recent, e)) = Len(recent) + 1
    BY AppendElements
  <2> QED BY <2>1
<1>2. Tail(Append(recent, e)) \in Seq(E)
  BY <1>1
<1> HIDE DEF E
<1> QED BY <1>1, <1>2 DEF Remember, E

\* Init establishes the invariant.
LEMMA InitPInv == Init => PInv
<1> SUFFICES ASSUME Init PROVE PInv
  OBVIOUS
<1>1. TypeOK
  BY TitleAssumption, NumberAssumption DEF Init, TypeOK
<1>2. BooksAgree
  BY TitleAssumption DEF Init, BooksAgree, Idle
<1>3. StaysDue
  BY DEF Init, StaysDue, PromotedLately
<1> QED BY <1>1, <1>2, <1>3 DEF PInv

\* Steps that leave the promoter's own books alone: the files' place, the
\* helper left behind and the clock may change under it.
LEMMA OutsideStep ==
  ASSUME PInv, clock' >= clock,
         UNCHANGED <<q, queued, inflight, result, recent, doneAt>>,
         clock' \in Time, video' \in [Title -> Place],
         folder' \subseteq Title, late' \subseteq Title
  PROVE  PInv'
<1>1. TypeOK'
  BY DEF PInv, TypeOK
<1>2. BooksAgree'
  BY DEF PInv, BooksAgree, Idle
<1>3. StaysDue'
  BY NumberAssumption DEF PInv, TypeOK, StaysDue, PromotedLately
<1> QED BY <1>1, <1>2, <1>3 DEF PInv

\* A request that is accepted keeps the books.
LEMMA SubmitStep ==
  ASSUME PInv, NEW t \in Title, Submit(t)
  PROVE  PInv'
<1>1. t \notin Elements(q) /\ Distinct(q) /\ queued = Elements(q) /\ q \in Seq(Title)
  BY DEF PInv, TypeOK, BooksAgree, Submit, Busy, Elements, Distinct
<1>2. /\ q' \in Seq(Title)
      /\ Elements(q') = Elements(q) \cup {t}
      /\ Distinct(q')
  <2>1. q' = Append(q, t)
    BY DEF Submit
  <2> QED BY <1>1, <2>1, AppendTitle DEF Distinct
<1>3. TypeOK'
  BY <1>2 DEF PInv, TypeOK, Submit, files
<1>4. BooksAgree'
  BY <1>1, <1>2 DEF PInv, BooksAgree, Submit, Busy, Idle, Elements, Distinct
<1>5. StaysDue'
  BY DEF PInv, StaysDue, PromotedLately, Submit
<1> QED BY <1>3, <1>4, <1>5 DEF PInv

\* So does the worker that takes a title,
LEMMA PopStep ==
  ASSUME PInv, Pop
  PROVE  PInv'
<1>1. Distinct(q) /\ queued = Elements(q) /\ q \in Seq(Title) /\ q # <<>>
  BY DEF PInv, TypeOK, BooksAgree, Pop, Elements, Distinct
<1>2. /\ q' \in Seq(Title)
      /\ inflight' \in Title
      /\ inflight' \in queued
      /\ Elements(q') = queued'
      /\ inflight' \notin queued'
      /\ queued' \subseteq queued
      /\ Distinct(q')
  BY <1>1, TakeTitle DEF Distinct, Pop
<1>3. TypeOK'
  BY <1>2 DEF PInv, TypeOK, Pop, files
<1>4. BooksAgree'
  <2>1. inflight' # NoTitle
    BY <1>2, TitleAssumption
  <2> QED BY <1>2, <2>1 DEF BooksAgree, Idle, Elements, Distinct
<1>5. StaysDue'
  BY <1>2 DEF PInv, StaysDue, PromotedLately, Pop
<1> QED BY <1>3, <1>4, <1>5 DEF PInv

\* tier-move runs: only the outcome and the files change.
LEMMA RunStep ==
  ASSUME PInv, Promoted \/ TimesOut \/ Raised \/ \E o \in {"refused", "error"} : Refused(o)
  PROVE  PInv'
<1>1. /\ UNCHANGED <<clock, q, queued, inflight, recent, doneAt>>
      /\ result' \in Outcome \cup {"raised"}
      /\ ~Idle /\ inflight \in Title
      /\ late' \subseteq Title
  BY DEF Promoted, TimesOut, Raised, Refused, Hold, Running, Idle, PInv, TypeOK
<1>2. video' \in [Title -> Place] /\ folder' \subseteq Title
  BY <1>1 DEF Promoted, TimesOut, Raised, Refused, ToHot, files, PInv, TypeOK
<1>3. TypeOK'
  BY <1>1, <1>2 DEF PInv, TypeOK
<1>4. BooksAgree'
  BY <1>1 DEF PInv, BooksAgree, Idle
<1>5. StaysDue'
  BY <1>1 DEF PInv, StaysDue, PromotedLately
<1> QED BY <1>3, <1>4, <1>5 DEF PInv

\* its booking,
LEMMA BookStep ==
  ASSUME PInv, Book
  PROVE  PInv'
<1>1. /\ inflight \in Title /\ inflight \notin queued
      /\ [at |-> clock, outcome |-> result] \in [at : Time, outcome : Outcome]
      /\ UNCHANGED <<clock, files, q, queued, late>>
      /\ inflight' = NoTitle /\ result' = "none"
  BY DEF PInv, TypeOK, BooksAgree, Book, Idle
<1>2. recent' \in Seq([at : Time, outcome : Outcome])
  BY <1>1, RememberType DEF Book, PInv, TypeOK
<1>3. doneAt' \in [Title -> Time \cup {Never}]
  BY DEF Book, PInv, TypeOK
<1>4. \A t \in Title \ {inflight} : doneAt'[t] = doneAt[t]
  BY DEF Book, PInv, TypeOK
<1>5. TypeOK'
  BY <1>1, <1>2, <1>3 DEF PInv, TypeOK, files
<1>6. BooksAgree'
  BY <1>1, TitleAssumption DEF PInv, BooksAgree, TypeOK, Idle
<1>7. StaysDue'
  BY <1>1, <1>4, TitleAssumption DEF PInv, StaysDue, PromotedLately
<1> QED BY <1>5, <1>6, <1>7 DEF PInv

\* a restart,
LEMMA RestartStep ==
  ASSUME PInv, Restart
  PROVE  PInv'
<1>1. TypeOK'
  BY DEF PInv, TypeOK, Restart, files
<1>2. BooksAgree'
  BY TitleAssumption DEF BooksAgree, Restart, Idle
<1>3. StaysDue'
  BY DEF StaysDue, PromotedLately, Restart
<1> QED BY <1>1, <1>2, <1>3 DEF PInv

\* and what users, apps and time do to the disks.
LEMMA HostStep ==
  ASSUME PInv,
         \/ \E t \in Title : Straggle(t) \/ Demote(t) \/ Remove(t) \/ Import(t)
         \/ Tick
  PROVE  PInv'
<1>1. /\ UNCHANGED <<q, queued, inflight, result, recent, doneAt>>
      /\ clock' >= clock /\ clock' \in Time
  BY NumberAssumption DEF PInv, TypeOK, Straggle, Demote, Remove, Import, Tick, books
<1>2. video' \in [Title -> Place]
  BY DEF PInv, TypeOK, Straggle, Demote, Remove, Import, Tick, ToHot, files
<1>3. folder' \subseteq Title
  BY DEF PInv, TypeOK, Straggle, Demote, Remove, Import, Tick, ToHot, files
<1>4. late' \subseteq Title
  BY DEF PInv, TypeOK, Straggle, Demote, Remove, Import, Tick
<1> QED BY <1>1, <1>2, <1>3, <1>4, OutsideStep

\* Every step keeps the books.
LEMMA NextPInv == PInv /\ [Next]_vars => PInv'
<1> SUFFICES ASSUME PInv, [Next]_vars PROVE PInv'
  OBVIOUS
<1>1. ASSUME NEW t \in Title, Submit(t) PROVE PInv'
  BY <1>1, SubmitStep
<1>2. CASE Pop
  BY <1>2, PopStep
<1>3. CASE Book
  BY <1>3, BookStep
<1>4. CASE Restart
  BY <1>4, RestartStep
<1>5. CASE Promoted \/ TimesOut \/ Raised \/ \E o \in {"refused", "error"} : Refused(o)
  BY <1>5, RunStep
<1>6. CASE \/ \E t \in Title : Straggle(t) \/ Demote(t) \/ Remove(t) \/ Import(t)
           \/ Tick
  BY <1>6, HostStep
<1>7. CASE UNCHANGED vars
  <2>1. clock \in Int
    BY NumberAssumption DEF PInv, TypeOK
  <2> QED BY <1>7, <2>1, OutsideStep DEF PInv, TypeOK, vars, files
<1> QED BY <1>1, <1>2, <1>3, <1>4, <1>5, <1>6, <1>7 DEF Next, Worker

\* The books of the request threads and of the worker agree in every state
\* (beefy_promoter.py:122-185), and an accepted title stays due.
THEOREM PromoterInvariance == Spec => []PInv
<1> QED BY InitPInv, NextPInv, PTL DEF Spec

\* No title is in the queue twice, nor while it is being promoted.
THEOREM OnePlace == Spec => []BooksAgree
<1>1. PInv => BooksAgree
  BY DEF PInv
<1> QED BY <1>1, PromoterInvariance, PTL

\* DEDUPE_SECONDS holds across any wait in the queue and any demotion.
THEOREM NeverTwice == Spec => NotTwice
<1> DEFINE Rested == \A t \in Title : /\ doneAt[t] # Never
                                      /\ doneAt'[t] \notin {Never, doneAt[t]}
                                      => doneAt'[t] - doneAt[t] >= Dedupe
<1>1. PInv /\ [Next]_vars => [Rested]_vars
  <2> SUFFICES ASSUME PInv, Next PROVE Rested
    BY DEF vars
  <2>1. CASE Book
    <3> SUFFICES ASSUME NEW t \in Title, doneAt[t] # Never,
                        doneAt'[t] \notin {Never, doneAt[t]}
                 PROVE  doneAt'[t] - doneAt[t] >= Dedupe
      OBVIOUS
    <3>1. t = inflight /\ doneAt'[t] = clock
      BY <2>1 DEF Book, PInv, TypeOK
    <3>2. ~(clock - doneAt[t] < Dedupe)
      BY <3>1 DEF PInv, StaysDue, PromotedLately
    <3>3. doneAt[t] \in Int /\ clock \in Int /\ Dedupe \in Int
      BY NumberAssumption DEF PInv, TypeOK
    <3> QED BY <3>1, <3>2, <3>3
  <2>2. CASE Restart
    BY <2>2 DEF Restart
  <2>3. CASE ~Book /\ ~Restart
    <3>1. UNCHANGED doneAt
      BY <2>3 DEF Next, Worker, Submit, Pop, Promoted, TimesOut, Raised, Refused, Hold, Straggle, Demote, Remove,
             Import, Tick, books
    <3> QED BY <3>1
  <2> QED BY <2>1, <2>2, <2>3
<1>2. NotTwice <=> [][Rested]_vars
  BY DEF NotTwice
<1> QED BY <1>1, <1>2, PromoterInvariance, PTL DEF Spec

-----------------------------------------------------------------------------
(* MoverRun. *)

\* The number of videos of a title is a number.
LEMMA VideosFinite ==
  ASSUME NEW n \in [Ssd -> Nat]
  PROVE  IsFiniteSet(Videos(n)) /\ Total(n) \in Nat
<1> USE MoverAssumption
<1>1. ASSUME NEW b \in Ssd PROVE IsFiniteSet({b} \X (1 .. n[b]))
  <2>1. IsFiniteSet({b})
    BY FS_Singleton
  <2>2. n[b] \in Int /\ 1 \in Int
    BY <1>1
  <2>3. IsFiniteSet(1 .. n[b])
    BY <2>2, FS_Interval
  <2> QED
    BY <2>1, <2>3, FS_Product
<1> DEFINE S == {{b} \X (1 .. n[b]) : b \in Ssd}
<1>2. IsFiniteSet(S)
  <2> DEFINE f == [b \in Ssd |-> {b} \X (1 .. n[b])]
  <2>1. f \in Surjection(Ssd, S)
    BY DEF Surjection
  <2> QED
    BY <2>1, FS_Surjection
<1>3. \A X \in S : IsFiniteSet(X)
  BY <1>1
<1>4. IsFiniteSet(UNION S)
  <2> HIDE DEF S
  <2> QED
    BY <1>2, <1>3, FS_UNION
<1> QED
  BY <1>4, FS_CardinalityType DEF Videos, Total

\* So is that of several titles.
LEMMA VideosOfFinite ==
  ASSUME NEW u \in [Unit -> [n : [Ssd -> Nat], flags : SUBSET Flag]], NEW S \in SUBSET Unit
  PROVE  IsFiniteSet(VideosOf(u, S))
<1> USE MoverAssumption
<1>1. ASSUME NEW t \in S PROVE IsFiniteSet({t} \X Videos(u[t].n))
  <2>1. IsFiniteSet({t}) /\ IsFiniteSet(Videos(u[t].n))
    BY FS_Singleton, VideosFinite
  <2> QED
    BY <2>1, FS_Product
<1> DEFINE T == {{t} \X Videos(u[t].n) : t \in S}
<1>2. IsFiniteSet(S)
  BY FS_Subset
<1>3. IsFiniteSet(T)
  <2> DEFINE f == [t \in S |-> {t} \X Videos(u[t].n)]
  <2>1. f \in Surjection(S, T)
    BY DEF Surjection
  <2> QED
    BY <1>2, <2>1, FS_Surjection
<1>4. \A X \in T : IsFiniteSet(X)
  BY <1>1
<1>5. IsFiniteSet(UNION T)
  <2> HIDE DEF T
  <2> QED
    BY <1>3, <1>4, FS_UNION
<1> QED
  BY <1>5 DEF VideosOf

\* What a run does to the disks by bringing files to the HDD.
LEMMA Arrived ==
  ASSUME MoverTypeOK, NEW k \in Nat, Arrive(k),
         k = 0 \/ (cur \in Unit /\ from \in Ssd /\ k <= ssd[cur][from])
  PROVE  ssd' \in [Unit -> [Ssd -> Nat]] /\ ssdUsed' \in Int /\ hddUsed' \in Nat /\ hddUsed' = hddUsed + k
<1>1. ssd \in [Unit -> [Ssd -> Nat]] /\ ssdUsed \in Int /\ hddUsed \in Nat
  BY DEF MoverTypeOK
<1>2. CASE k = 0
  BY <1>1, <1>2 DEF Arrive
<1>3. CASE k # 0
  <2>1. ssd[cur][from] - k \in Nat
    BY <1>1, <1>3
  <2>2. ssd' = [ssd EXCEPT ![cur] = [ssd[cur] EXCEPT ![from] = ssd[cur][from] - k]]
    BY <1>1, <1>3 DEF Arrive
  <2>3. [ssd[cur] EXCEPT ![from] = ssd[cur][from] - k] \in [Ssd -> Nat]
    BY <1>1, <1>3, <2>1
  <2> QED
    BY <1>1, <2>2, <2>3 DEF Arrive
<1> QED
  BY <1>2, <1>3

\* What the apps tell are ages.
LEMMA AgesAreAges ==
  ASSUME MoverTypeOK, NEW jf, NEW arr PROVE AgesTold(jf, arr) \in [Unit -> 0 .. IdleAge]
<1> USE MoverAssumption
<1>1. played \in [Unit -> 0 .. IdleAge] /\ added \in [Unit -> 0 .. IdleAge] /\ IdleAge \in Nat
  BY DEF MoverTypeOK
<1> QED
  BY <1>1 DEF AgesTold, Least

\* The size of a title is a number.
LEMMA SizeIsNat == ASSUME MoverTypeOK, NEW t \in Unit PROVE size(t) \in Nat
  BY VideosFinite DEF MoverTypeOK, size

\* The files that are selected are there.
LEMMA SelThere ==
  ASSUME MoverInv, pc # "off", NEW k \in 0 .. sel
  PROVE  k \in Nat /\ (k = 0 \/ (cur \in Unit /\ from \in Ssd /\ k <= ssd[cur][from]))
<1>1. CASE pc = "copy"
  <2>1. cur \in Unit /\ from \in Ssd /\ sel \in Nat /\ ssd[cur][from] \in Nat /\ sel <= ssd[cur][from]
    BY <1>1 DEF MoverInv, MoverTypeOK
  <2> QED
    BY <2>1
<1>2. CASE pc # "copy"
  BY <1>2 DEF MoverInv
<1> QED
  BY <1>1, <1>2

\* Before the scan no title has a video.
LEMMA NothingSeen == Nothing \in [Unit -> [n : [Ssd -> Nat], flags : SUBSET Flag]]
  BY DEF Nothing

\* Every step keeps the types.
LEMMA MoverTypeStep ==
  ASSUME MoverTypeOK, MoverInv, [MoverNext]_mvars PROVE MoverTypeOK'
<1> USE MoverAssumption DEF world, plan, pick, seen, run, Act, Touch, End, Fault
<1>1. ASSUME Begin PROVE MoverTypeOK'
  <2>1. ssd' \in [Unit -> [Ssd -> Nat]] /\ ssdUsed' \in Int /\ hddUsed' \in Nat
    BY <1>1 DEF Begin, MoverTypeOK
  <2>2. played' \in [Unit -> 0 .. IdleAge] /\ added' \in [Unit -> 0 .. IdleAge]
        /\ flags' \in [Unit -> SUBSET Flag]
    BY <1>1 DEF Begin, MoverTypeOK
  <2>3. /\ pc' \in {"off", "begin", "next", "call", "copy"} /\ mode' \in Unit \cup {"night"}
        /\ snap' \in [Unit -> 0 .. IdleAge] \cup {None} /\ known' \subseteq Unit
        /\ unit' \in [Unit -> [n : [Ssd -> Nat], flags : SUBSET Flag]]
    <3>1. snap' \in [Unit -> 0 .. IdleAge] \cup {None}
      BY <1>1, AgesAreAges DEF Begin
    <3> QED
      BY <1>1, <3>1 DEF Begin, MoverTypeOK
  <2>4. /\ todo' \subseteq Unit /\ cur' \in Unit \cup {None} /\ brs' \subseteq Ssd /\ since' \subseteq Unit
        /\ from' \in Ssd \cup {None} /\ sel' \in Nat
    BY <1>1 DEF Begin, MoverTypeOK
  <2>5. /\ ssdSeen' \in Int /\ hddSeen' \in Nat /\ moved' \in Nat /\ done' \in Nat /\ unseen' \in Nat
    BY <1>1 DEF Begin, MoverTypeOK
  <2>6. elapsed' \in Nat
    BY <1>1 DEF Begin, MoverTypeOK
  <2>7. acts' \in 0 .. MaxAct /\ faults' \in 0 .. MaxFault
    BY <1>1 DEF Begin, MoverTypeOK
  <2> QED
    BY <2>1, <2>2, <2>3, <2>4, <2>5, <2>6, <2>7 DEF MoverTypeOK
<1>2. ASSUME Scan PROVE MoverTypeOK'
  <2>1. ssd' \in [Unit -> [Ssd -> Nat]] /\ ssdUsed' \in Int /\ hddUsed' \in Nat
    BY <1>2 DEF Scan, MoverTypeOK
  <2>2. played' \in [Unit -> 0 .. IdleAge] /\ added' \in [Unit -> 0 .. IdleAge]
        /\ flags' \in [Unit -> SUBSET Flag]
    BY <1>2 DEF Scan, MoverTypeOK
  <2>3. /\ pc' \in {"off", "begin", "next", "call", "copy"} /\ mode' \in Unit \cup {"night"}
        /\ snap' \in [Unit -> 0 .. IdleAge] \cup {None} /\ known' \subseteq Unit
        /\ unit' \in [Unit -> [n : [Ssd -> Nat], flags : SUBSET Flag]]
    <3>1. CASE unit' = [t \in Unit |-> [n |-> ssd[t], flags |-> flags[t] \ {"open"}]]
               /\ UNCHANGED <<mode, snap, known>> /\ pc' = "next"
      <4>1. unit' \in [Unit -> [n : [Ssd -> Nat], flags : SUBSET Flag]]
        BY <3>1 DEF MoverTypeOK
      <4> QED
        BY <3>1, <4>1 DEF MoverTypeOK
    <3>2. CASE End
      BY <3>2, NothingSeen DEF End
    <3> QED
      BY <1>2, <3>1, <3>2 DEF Scan
  <2>4. /\ todo' \subseteq Unit /\ cur' \in Unit \cup {None} /\ brs' \subseteq Ssd /\ since' \subseteq Unit
        /\ from' \in Ssd \cup {None} /\ sel' \in Nat
    <3>1. CASE UNCHANGED <<cur, brs, from, sel, since>>
               /\ todo' = {t \in Unit : OnSsd(t) /\ mode \in {"night", t}}
      BY <3>1 DEF MoverTypeOK
    <3>2. CASE End
      BY <3>2 DEF End
    <3> QED
      BY <1>2, <3>1, <3>2 DEF Scan
  <2>5. /\ ssdSeen' \in Int /\ hddSeen' \in Nat /\ moved' \in Nat /\ done' \in Nat /\ unseen' \in Nat
    BY <1>2 DEF Scan, MoverTypeOK
  <2>6. elapsed' \in Nat
    BY <1>2 DEF Scan, MoverTypeOK
  <2>7. acts' \in 0 .. MaxAct /\ faults' \in 0 .. MaxFault
    BY <1>2 DEF Scan, MoverTypeOK
  <2> QED
    BY <2>1, <2>2, <2>3, <2>4, <2>5, <2>6, <2>7 DEF MoverTypeOK
<1>3. ASSUME Stop PROVE MoverTypeOK'
  <2>1. ssd' \in [Unit -> [Ssd -> Nat]] /\ ssdUsed' \in Int /\ hddUsed' \in Nat
    BY <1>3 DEF Stop, MoverTypeOK
  <2>2. played' \in [Unit -> 0 .. IdleAge] /\ added' \in [Unit -> 0 .. IdleAge]
        /\ flags' \in [Unit -> SUBSET Flag]
    BY <1>3 DEF Stop, MoverTypeOK
  <2>3. /\ pc' \in {"off", "begin", "next", "call", "copy"} /\ mode' \in Unit \cup {"night"}
        /\ snap' \in [Unit -> 0 .. IdleAge] \cup {None} /\ known' \subseteq Unit
        /\ unit' \in [Unit -> [n : [Ssd -> Nat], flags : SUBSET Flag]]
    BY <1>3, NothingSeen DEF Stop, End
  <2>4. /\ todo' \subseteq Unit /\ cur' \in Unit \cup {None} /\ brs' \subseteq Ssd /\ since' \subseteq Unit
        /\ from' \in Ssd \cup {None} /\ sel' \in Nat
    BY <1>3 DEF Stop, MoverTypeOK
  <2>5. /\ ssdSeen' \in Int /\ hddSeen' \in Nat /\ moved' \in Nat /\ done' \in Nat /\ unseen' \in Nat
    BY <1>3 DEF Stop, MoverTypeOK
  <2>6. elapsed' \in Nat
    BY <1>3 DEF Stop, MoverTypeOK
  <2>7. acts' \in 0 .. MaxAct /\ faults' \in 0 .. MaxFault
    BY <1>3 DEF Stop, MoverTypeOK
  <2> QED
    BY <2>1, <2>2, <2>3, <2>4, <2>5, <2>6, <2>7 DEF MoverTypeOK
<1>4. ASSUME NEW t \in Unit, Skip(t) PROVE MoverTypeOK'
  <2>1. ssd' \in [Unit -> [Ssd -> Nat]] /\ ssdUsed' \in Int /\ hddUsed' \in Nat
    BY <1>4 DEF Skip, MoverTypeOK
  <2>2. played' \in [Unit -> 0 .. IdleAge] /\ added' \in [Unit -> 0 .. IdleAge]
        /\ flags' \in [Unit -> SUBSET Flag]
    BY <1>4 DEF Skip, MoverTypeOK
  <2>3. /\ pc' \in {"off", "begin", "next", "call", "copy"} /\ mode' \in Unit \cup {"night"}
        /\ snap' \in [Unit -> 0 .. IdleAge] \cup {None} /\ known' \subseteq Unit
        /\ unit' \in [Unit -> [n : [Ssd -> Nat], flags : SUBSET Flag]]
    BY <1>4 DEF Skip, MoverTypeOK
  <2>4. /\ todo' \subseteq Unit /\ cur' \in Unit \cup {None} /\ brs' \subseteq Ssd /\ since' \subseteq Unit
        /\ from' \in Ssd \cup {None} /\ sel' \in Nat
    BY <1>4 DEF Skip, MoverTypeOK
  <2>5. /\ ssdSeen' \in Int /\ hddSeen' \in Nat /\ moved' \in Nat /\ done' \in Nat /\ unseen' \in Nat
    BY <1>4 DEF Skip, MoverTypeOK
  <2>6. elapsed' \in Nat
    BY <1>4 DEF Skip, MoverTypeOK
  <2>7. acts' \in 0 .. MaxAct /\ faults' \in 0 .. MaxFault
    BY <1>4 DEF Skip, MoverTypeOK
  <2> QED
    BY <2>1, <2>2, <2>3, <2>4, <2>5, <2>6, <2>7 DEF MoverTypeOK
<1>5. ASSUME NEW t \in Unit, Take(t) PROVE MoverTypeOK'
  <2>1. ssd' \in [Unit -> [Ssd -> Nat]] /\ ssdUsed' \in Int /\ hddUsed' \in Nat
    BY <1>5 DEF Take, MoverTypeOK
  <2>2. played' \in [Unit -> 0 .. IdleAge] /\ added' \in [Unit -> 0 .. IdleAge]
        /\ flags' \in [Unit -> SUBSET Flag]
    BY <1>5 DEF Take, MoverTypeOK
  <2>3. /\ pc' \in {"off", "begin", "next", "call", "copy"} /\ mode' \in Unit \cup {"night"}
        /\ snap' \in [Unit -> 0 .. IdleAge] \cup {None} /\ known' \subseteq Unit
        /\ unit' \in [Unit -> [n : [Ssd -> Nat], flags : SUBSET Flag]]
    BY <1>5 DEF Take, MoverTypeOK
  <2>4. /\ todo' \subseteq Unit /\ cur' \in Unit \cup {None} /\ brs' \subseteq Ssd /\ since' \subseteq Unit
        /\ from' \in Ssd \cup {None} /\ sel' \in Nat
    BY <1>5 DEF Take, MoverTypeOK, Branches
  <2>5. /\ ssdSeen' \in Int /\ hddSeen' \in Nat /\ moved' \in Nat /\ done' \in Nat /\ unseen' \in Nat
    BY <1>5 DEF Take, MoverTypeOK
  <2>6. elapsed' \in Nat
    BY <1>5 DEF Take, MoverTypeOK
  <2>7. acts' \in 0 .. MaxAct /\ faults' \in 0 .. MaxFault
    BY <1>5 DEF Take, MoverTypeOK
  <2> QED
    BY <2>1, <2>2, <2>3, <2>4, <2>5, <2>6, <2>7 DEF MoverTypeOK
<1>6. ASSUME MoveRefused PROVE MoverTypeOK'
  <2>1. ssd' \in [Unit -> [Ssd -> Nat]] /\ ssdUsed' \in Int /\ hddUsed' \in Nat
    BY <1>6 DEF MoveRefused, MoverTypeOK
  <2>2. played' \in [Unit -> 0 .. IdleAge] /\ added' \in [Unit -> 0 .. IdleAge]
        /\ flags' \in [Unit -> SUBSET Flag]
    BY <1>6 DEF MoveRefused, MoverTypeOK
  <2>3. /\ pc' \in {"off", "begin", "next", "call", "copy"} /\ mode' \in Unit \cup {"night"}
        /\ snap' \in [Unit -> 0 .. IdleAge] \cup {None} /\ known' \subseteq Unit
        /\ unit' \in [Unit -> [n : [Ssd -> Nat], flags : SUBSET Flag]]
    BY <1>6 DEF MoveRefused, MoverTypeOK, NextTitle
  <2>4. /\ todo' \subseteq Unit /\ cur' \in Unit \cup {None} /\ brs' \subseteq Ssd /\ since' \subseteq Unit
        /\ from' \in Ssd \cup {None} /\ sel' \in Nat
    BY <1>6 DEF MoveRefused, MoverTypeOK, NextTitle
  <2>5. /\ ssdSeen' \in Int /\ hddSeen' \in Nat /\ moved' \in Nat /\ done' \in Nat /\ unseen' \in Nat
    BY <1>6 DEF MoveRefused, MoverTypeOK, NextTitle
  <2>6. elapsed' \in Nat
    BY <1>6 DEF MoveRefused, MoverTypeOK
  <2>7. acts' \in 0 .. MaxAct /\ faults' \in 0 .. MaxFault
    BY <1>6 DEF MoveRefused, MoverTypeOK
  <2> QED
    BY <2>1, <2>2, <2>3, <2>4, <2>5, <2>6, <2>7 DEF MoverTypeOK
<1>7. ASSUME Call PROVE MoverTypeOK'
  <2>1. ssd' \in [Unit -> [Ssd -> Nat]] /\ ssdUsed' \in Int /\ hddUsed' \in Nat
    BY <1>7 DEF Call, MoverTypeOK
  <2>2. played' \in [Unit -> 0 .. IdleAge] /\ added' \in [Unit -> 0 .. IdleAge]
        /\ flags' \in [Unit -> SUBSET Flag]
    BY <1>7 DEF Call, MoverTypeOK
  <2>3. /\ pc' \in {"off", "begin", "next", "call", "copy"} /\ mode' \in Unit \cup {"night"}
        /\ snap' \in [Unit -> 0 .. IdleAge] \cup {None} /\ known' \subseteq Unit
        /\ unit' \in [Unit -> [n : [Ssd -> Nat], flags : SUBSET Flag]]
    BY <1>7 DEF Call, MoverTypeOK
  <2>4. /\ todo' \subseteq Unit /\ cur' \in Unit \cup {None} /\ brs' \subseteq Ssd /\ since' \subseteq Unit
        /\ from' \in Ssd \cup {None} /\ sel' \in Nat
    BY <1>7 DEF Call, MoverTypeOK
  <2>5. /\ ssdSeen' \in Int /\ hddSeen' \in Nat /\ moved' \in Nat /\ done' \in Nat /\ unseen' \in Nat
    BY <1>7 DEF Call, MoverTypeOK
  <2>6. elapsed' \in Nat
    BY <1>7 DEF Call, MoverTypeOK
  <2>7. acts' \in 0 .. MaxAct /\ faults' \in 0 .. MaxFault
    BY <1>7 DEF Call, MoverTypeOK
  <2> QED
    BY <2>1, <2>2, <2>3, <2>4, <2>5, <2>6, <2>7 DEF MoverTypeOK
<1>8. ASSUME Copied PROVE MoverTypeOK'
  <2>1. ssd' \in [Unit -> [Ssd -> Nat]] /\ ssdUsed' \in Int /\ hddUsed' \in Nat
    <3>1. sel \in 0 .. sel /\ pc # "off"
      BY <1>8 DEF Copied, MoverTypeOK
    <3>2. Arrive(sel)
      BY <1>8 DEF Copied
    <3> QED
      BY <3>1, <3>2, SelThere, Arrived
  <2>2. played' \in [Unit -> 0 .. IdleAge] /\ added' \in [Unit -> 0 .. IdleAge]
        /\ flags' \in [Unit -> SUBSET Flag]
    BY <1>8 DEF Copied, MoverTypeOK
  <2>3. /\ pc' \in {"off", "begin", "next", "call", "copy"} /\ mode' \in Unit \cup {"night"}
        /\ snap' \in [Unit -> 0 .. IdleAge] \cup {None} /\ known' \subseteq Unit
        /\ unit' \in [Unit -> [n : [Ssd -> Nat], flags : SUBSET Flag]]
    BY <1>8 DEF Copied, MoverTypeOK, NextTitle
  <2>4. /\ todo' \subseteq Unit /\ cur' \in Unit \cup {None} /\ brs' \subseteq Ssd /\ since' \subseteq Unit
        /\ from' \in Ssd \cup {None} /\ sel' \in Nat
    BY <1>8 DEF Copied, MoverTypeOK, NextTitle
  <2>5. /\ ssdSeen' \in Int /\ hddSeen' \in Nat /\ moved' \in Nat /\ done' \in Nat /\ unseen' \in Nat
    <3>1. hddUsed' \in Nat /\ ssdUsed' \in Int
      BY <2>1
    <3>2. CASE brs = {}
      <4>1. size(cur) \in Nat
        <5>1. cur \in Unit
          BY <1>8 DEF Copied, MoverTypeOK, MoverInv
        <5> QED
          BY <5>1, SizeIsNat
      <4> QED
        BY <1>8, <3>1, <3>2, <4>1 DEF Copied, NextTitle, MoverTypeOK
    <3>3. CASE brs # {}
      <4>1. done' = done + sel /\ UNCHANGED <<seen, unseen>>
        BY <1>8, <3>3 DEF Copied
      <4> QED
        BY <4>1 DEF MoverTypeOK
    <3> QED
      BY <3>2, <3>3
  <2>6. elapsed' \in Nat
    <3>1. Slow * sel \in Nat
      BY DEF MoverTypeOK
    <3> QED
      BY <1>8, <3>1 DEF Copied, MoverTypeOK
  <2>7. acts' \in 0 .. MaxAct /\ faults' \in 0 .. MaxFault
    BY <1>8 DEF Copied, MoverTypeOK
  <2> QED
    BY <2>1, <2>2, <2>3, <2>4, <2>5, <2>6, <2>7 DEF MoverTypeOK
<1>9. ASSUME CopyStops PROVE MoverTypeOK'
  <2>1. ssd' \in [Unit -> [Ssd -> Nat]] /\ ssdUsed' \in Int /\ hddUsed' \in Nat
    <3>1. PICK k \in 0 .. sel - 1 : Arrive(k)
      BY <1>9 DEF CopyStops
    <3>2. k \in 0 .. sel /\ pc # "off"
      BY <1>9 DEF CopyStops, MoverTypeOK
    <3> QED
      BY <3>1, <3>2, SelThere, Arrived
  <2>2. played' \in [Unit -> 0 .. IdleAge] /\ added' \in [Unit -> 0 .. IdleAge]
        /\ flags' \in [Unit -> SUBSET Flag]
    BY <1>9 DEF CopyStops, MoverTypeOK
  <2>3. /\ pc' \in {"off", "begin", "next", "call", "copy"} /\ mode' \in Unit \cup {"night"}
        /\ snap' \in [Unit -> 0 .. IdleAge] \cup {None} /\ known' \subseteq Unit
        /\ unit' \in [Unit -> [n : [Ssd -> Nat], flags : SUBSET Flag]]
    BY <1>9 DEF CopyStops, MoverTypeOK, NextTitle
  <2>4. /\ todo' \subseteq Unit /\ cur' \in Unit \cup {None} /\ brs' \subseteq Ssd /\ since' \subseteq Unit
        /\ from' \in Ssd \cup {None} /\ sel' \in Nat
    BY <1>9 DEF CopyStops, MoverTypeOK, NextTitle
  <2>5. /\ ssdSeen' \in Int /\ hddSeen' \in Nat /\ moved' \in Nat /\ done' \in Nat /\ unseen' \in Nat
    BY <1>9 DEF CopyStops, MoverTypeOK, NextTitle
  <2>6. elapsed' \in Nat
    <3>1. Slow * sel \in Nat
      BY DEF MoverTypeOK
    <3> QED
      BY <1>9, <3>1 DEF CopyStops, MoverTypeOK
  <2>7. acts' \in 0 .. MaxAct /\ faults' \in 0 .. MaxFault
    BY <1>9 DEF CopyStops, MoverTypeOK
  <2> QED
    BY <2>1, <2>2, <2>3, <2>4, <2>5, <2>6, <2>7 DEF MoverTypeOK
<1>10. ASSUME Kill PROVE MoverTypeOK'
  <2>1. ssd' \in [Unit -> [Ssd -> Nat]] /\ ssdUsed' \in Int /\ hddUsed' \in Nat
    <3>1. PICK k \in 0 .. sel : Arrive(k)
      BY <1>10 DEF Kill
    <3> QED
      BY <1>10, <3>1, SelThere, Arrived DEF Kill, MoverInv
  <2>2. played' \in [Unit -> 0 .. IdleAge] /\ added' \in [Unit -> 0 .. IdleAge]
        /\ flags' \in [Unit -> SUBSET Flag]
    BY <1>10 DEF Kill, MoverTypeOK
  <2>3. /\ pc' \in {"off", "begin", "next", "call", "copy"} /\ mode' \in Unit \cup {"night"}
        /\ snap' \in [Unit -> 0 .. IdleAge] \cup {None} /\ known' \subseteq Unit
        /\ unit' \in [Unit -> [n : [Ssd -> Nat], flags : SUBSET Flag]]
    BY <1>10, NothingSeen DEF Kill, End
  <2>4. /\ todo' \subseteq Unit /\ cur' \in Unit \cup {None} /\ brs' \subseteq Ssd /\ since' \subseteq Unit
        /\ from' \in Ssd \cup {None} /\ sel' \in Nat
    BY <1>10 DEF Kill, MoverTypeOK
  <2>5. /\ ssdSeen' \in Int /\ hddSeen' \in Nat /\ moved' \in Nat /\ done' \in Nat /\ unseen' \in Nat
    BY <1>10 DEF Kill, MoverTypeOK
  <2>6. elapsed' \in Nat
    BY <1>10 DEF Kill, MoverTypeOK
  <2>7. acts' \in 0 .. MaxAct /\ faults' \in 0 .. MaxFault
    BY <1>10 DEF Kill, MoverTypeOK
  <2> QED
    BY <2>1, <2>2, <2>3, <2>4, <2>5, <2>6, <2>7 DEF MoverTypeOK
<1>11. ASSUME NEW t \in Unit, Play(t) PROVE MoverTypeOK'
  <2>1. ssd' \in [Unit -> [Ssd -> Nat]] /\ ssdUsed' \in Int /\ hddUsed' \in Nat
    BY <1>11 DEF Play, MoverTypeOK
  <2>2. played' \in [Unit -> 0 .. IdleAge] /\ added' \in [Unit -> 0 .. IdleAge]
        /\ flags' \in [Unit -> SUBSET Flag]
    BY <1>11 DEF Play, MoverTypeOK, Flag
  <2>3. /\ pc' \in {"off", "begin", "next", "call", "copy"} /\ mode' \in Unit \cup {"night"}
        /\ snap' \in [Unit -> 0 .. IdleAge] \cup {None} /\ known' \subseteq Unit
        /\ unit' \in [Unit -> [n : [Ssd -> Nat], flags : SUBSET Flag]]
    BY <1>11 DEF Play, MoverTypeOK
  <2>4. /\ todo' \subseteq Unit /\ cur' \in Unit \cup {None} /\ brs' \subseteq Ssd /\ since' \subseteq Unit
        /\ from' \in Ssd \cup {None} /\ sel' \in Nat
    BY <1>11 DEF Play, MoverTypeOK
  <2>5. /\ ssdSeen' \in Int /\ hddSeen' \in Nat /\ moved' \in Nat /\ done' \in Nat /\ unseen' \in Nat
    BY <1>11 DEF Play, MoverTypeOK
  <2>6. elapsed' \in Nat
    BY <1>11 DEF Play, MoverTypeOK
  <2>7. acts' \in 0 .. MaxAct /\ faults' \in 0 .. MaxFault
    BY <1>11 DEF Play, MoverTypeOK
  <2> QED
    BY <2>1, <2>2, <2>3, <2>4, <2>5, <2>6, <2>7 DEF MoverTypeOK
<1>12. ASSUME NEW t \in Unit, NEW b \in Ssd, ImportFile(t, b) PROVE MoverTypeOK'
  <2>1. ssd' \in [Unit -> [Ssd -> Nat]] /\ ssdUsed' \in Int /\ hddUsed' \in Nat
    <3>1. ssd' = [ssd EXCEPT ![t] = [ssd[t] EXCEPT ![b] = ssd[t][b] + 1]]
      BY <1>12 DEF ImportFile, MoverTypeOK
    <3>2. [ssd[t] EXCEPT ![b] = ssd[t][b] + 1] \in [Ssd -> Nat]
      BY DEF MoverTypeOK
    <3> QED
      BY <1>12, <3>1, <3>2 DEF ImportFile, MoverTypeOK
  <2>2. played' \in [Unit -> 0 .. IdleAge] /\ added' \in [Unit -> 0 .. IdleAge]
        /\ flags' \in [Unit -> SUBSET Flag]
    <3>1. PICK link \in {{}, {"linked"}} : flags' = [flags EXCEPT ![t] = @ \cup {"new"} \cup link]
      BY <1>12 DEF ImportFile
    <3>2. flags' \in [Unit -> SUBSET Flag]
      BY <3>1 DEF Flag, MoverTypeOK
    <3> QED
      BY <1>12, <3>2 DEF ImportFile, MoverTypeOK
  <2>3. /\ pc' \in {"off", "begin", "next", "call", "copy"} /\ mode' \in Unit \cup {"night"}
        /\ snap' \in [Unit -> 0 .. IdleAge] \cup {None} /\ known' \subseteq Unit
        /\ unit' \in [Unit -> [n : [Ssd -> Nat], flags : SUBSET Flag]]
    BY <1>12 DEF ImportFile, MoverTypeOK
  <2>4. /\ todo' \subseteq Unit /\ cur' \in Unit \cup {None} /\ brs' \subseteq Ssd /\ since' \subseteq Unit
        /\ from' \in Ssd \cup {None} /\ sel' \in Nat
    BY <1>12 DEF ImportFile, MoverTypeOK
  <2>5. /\ ssdSeen' \in Int /\ hddSeen' \in Nat /\ moved' \in Nat /\ done' \in Nat /\ unseen' \in Nat
    BY <1>12 DEF ImportFile, MoverTypeOK
  <2>6. elapsed' \in Nat
    BY <1>12 DEF ImportFile, MoverTypeOK
  <2>7. acts' \in 0 .. MaxAct /\ faults' \in 0 .. MaxFault
    BY <1>12 DEF ImportFile, MoverTypeOK
  <2> QED
    BY <2>1, <2>2, <2>3, <2>4, <2>5, <2>6, <2>7 DEF MoverTypeOK
<1>13. ASSUME NEW t \in Unit, RemoveTitle(t) PROVE MoverTypeOK'
  <2>1. ssd' \in [Unit -> [Ssd -> Nat]] /\ ssdUsed' \in Int /\ hddUsed' \in Nat
    <3>1. Total(ssd[t]) \in Nat
      BY VideosFinite DEF MoverTypeOK
    <3> QED
      BY <1>13, <3>1 DEF RemoveTitle, MoverTypeOK
  <2>2. played' \in [Unit -> 0 .. IdleAge] /\ added' \in [Unit -> 0 .. IdleAge]
        /\ flags' \in [Unit -> SUBSET Flag]
    BY <1>13 DEF RemoveTitle, MoverTypeOK
  <2>3. /\ pc' \in {"off", "begin", "next", "call", "copy"} /\ mode' \in Unit \cup {"night"}
        /\ snap' \in [Unit -> 0 .. IdleAge] \cup {None} /\ known' \subseteq Unit
        /\ unit' \in [Unit -> [n : [Ssd -> Nat], flags : SUBSET Flag]]
    BY <1>13 DEF RemoveTitle, MoverTypeOK
  <2>4. /\ todo' \subseteq Unit /\ cur' \in Unit \cup {None} /\ brs' \subseteq Ssd /\ since' \subseteq Unit
        /\ from' \in Ssd \cup {None} /\ sel' \in Nat
    BY <1>13 DEF RemoveTitle, MoverTypeOK
  <2>5. /\ ssdSeen' \in Int /\ hddSeen' \in Nat /\ moved' \in Nat /\ done' \in Nat /\ unseen' \in Nat
    BY <1>13 DEF RemoveTitle, MoverTypeOK
  <2>6. elapsed' \in Nat
    BY <1>13 DEF RemoveTitle, MoverTypeOK
  <2>7. acts' \in 0 .. MaxAct /\ faults' \in 0 .. MaxFault
    BY <1>13 DEF RemoveTitle, MoverTypeOK
  <2> QED
    BY <2>1, <2>2, <2>3, <2>4, <2>5, <2>6, <2>7 DEF MoverTypeOK
<1>14. ASSUME Spill PROVE MoverTypeOK'
  <2>1. ssd' \in [Unit -> [Ssd -> Nat]] /\ ssdUsed' \in Int /\ hddUsed' \in Nat
    BY <1>14 DEF Spill, MoverTypeOK
  <2>2. played' \in [Unit -> 0 .. IdleAge] /\ added' \in [Unit -> 0 .. IdleAge]
        /\ flags' \in [Unit -> SUBSET Flag]
    BY <1>14 DEF Spill, MoverTypeOK, Flag
  <2>3. /\ pc' \in {"off", "begin", "next", "call", "copy"} /\ mode' \in Unit \cup {"night"}
        /\ snap' \in [Unit -> 0 .. IdleAge] \cup {None} /\ known' \subseteq Unit
        /\ unit' \in [Unit -> [n : [Ssd -> Nat], flags : SUBSET Flag]]
    BY <1>14 DEF Spill, MoverTypeOK
  <2>4. /\ todo' \subseteq Unit /\ cur' \in Unit \cup {None} /\ brs' \subseteq Ssd /\ since' \subseteq Unit
        /\ from' \in Ssd \cup {None} /\ sel' \in Nat
    BY <1>14 DEF Spill, MoverTypeOK
  <2>5. /\ ssdSeen' \in Int /\ hddSeen' \in Nat /\ moved' \in Nat /\ done' \in Nat /\ unseen' \in Nat
    BY <1>14 DEF Spill, MoverTypeOK
  <2>6. elapsed' \in Nat
    BY <1>14 DEF Spill, MoverTypeOK
  <2>7. acts' \in 0 .. MaxAct /\ faults' \in 0 .. MaxFault
    BY <1>14 DEF Spill, MoverTypeOK
  <2> QED
    BY <2>1, <2>2, <2>3, <2>4, <2>5, <2>6, <2>7 DEF MoverTypeOK
<1>15. ASSUME NEW t \in Unit, Free(t) PROVE MoverTypeOK'
  <2>1. ssd' \in [Unit -> [Ssd -> Nat]] /\ ssdUsed' \in Int /\ hddUsed' \in Nat
    BY <1>15 DEF Free, MoverTypeOK
  <2>2. played' \in [Unit -> 0 .. IdleAge] /\ added' \in [Unit -> 0 .. IdleAge]
        /\ flags' \in [Unit -> SUBSET Flag]
    BY <1>15 DEF Free, MoverTypeOK, Flag
  <2>3. /\ pc' \in {"off", "begin", "next", "call", "copy"} /\ mode' \in Unit \cup {"night"}
        /\ snap' \in [Unit -> 0 .. IdleAge] \cup {None} /\ known' \subseteq Unit
        /\ unit' \in [Unit -> [n : [Ssd -> Nat], flags : SUBSET Flag]]
    BY <1>15 DEF Free, MoverTypeOK
  <2>4. /\ todo' \subseteq Unit /\ cur' \in Unit \cup {None} /\ brs' \subseteq Ssd /\ since' \subseteq Unit
        /\ from' \in Ssd \cup {None} /\ sel' \in Nat
    BY <1>15 DEF Free, MoverTypeOK
  <2>5. /\ ssdSeen' \in Int /\ hddSeen' \in Nat /\ moved' \in Nat /\ done' \in Nat /\ unseen' \in Nat
    BY <1>15 DEF Free, MoverTypeOK
  <2>6. elapsed' \in Nat
    BY <1>15 DEF Free, MoverTypeOK
  <2>7. acts' \in 0 .. MaxAct /\ faults' \in 0 .. MaxFault
    BY <1>15 DEF Free, MoverTypeOK
  <2> QED
    BY <2>1, <2>2, <2>3, <2>4, <2>5, <2>6, <2>7 DEF MoverTypeOK
<1>16. ASSUME Day PROVE MoverTypeOK'
  <2>1. ssd' \in [Unit -> [Ssd -> Nat]] /\ ssdUsed' \in Int /\ hddUsed' \in Nat
    BY <1>16 DEF Day, MoverTypeOK
  <2>2. played' \in [Unit -> 0 .. IdleAge] /\ added' \in [Unit -> 0 .. IdleAge]
        /\ flags' \in [Unit -> SUBSET Flag]
    <3>1. Older(played) \in [Unit -> 0 .. IdleAge] /\ Older(added) \in [Unit -> 0 .. IdleAge]
      BY DEF Older, Least, MoverTypeOK
    <3> QED
      BY <1>16, <3>1 DEF Day, MoverTypeOK
  <2>3. /\ pc' \in {"off", "begin", "next", "call", "copy"} /\ mode' \in Unit \cup {"night"}
        /\ snap' \in [Unit -> 0 .. IdleAge] \cup {None} /\ known' \subseteq Unit
        /\ unit' \in [Unit -> [n : [Ssd -> Nat], flags : SUBSET Flag]]
    BY <1>16 DEF Day, MoverTypeOK
  <2>4. /\ todo' \subseteq Unit /\ cur' \in Unit \cup {None} /\ brs' \subseteq Ssd /\ since' \subseteq Unit
        /\ from' \in Ssd \cup {None} /\ sel' \in Nat
    BY <1>16 DEF Day, MoverTypeOK
  <2>5. /\ ssdSeen' \in Int /\ hddSeen' \in Nat /\ moved' \in Nat /\ done' \in Nat /\ unseen' \in Nat
    BY <1>16 DEF Day, MoverTypeOK
  <2>6. elapsed' \in Nat
    BY <1>16 DEF Day, MoverTypeOK
  <2>7. acts' \in 0 .. MaxAct /\ faults' \in 0 .. MaxFault
    BY <1>16 DEF Day, MoverTypeOK
  <2> QED
    BY <2>1, <2>2, <2>3, <2>4, <2>5, <2>6, <2>7 DEF MoverTypeOK
<1>17. ASSUME UNCHANGED mvars PROVE MoverTypeOK'
  BY <1>17 DEF mvars, MoverTypeOK
<1> QED
  BY <1>1, <1>2, <1>3, <1>4, <1>5, <1>6, <1>7, <1>8, <1>9, <1>10, <1>11, <1>12, <1>13, <1>14, <1>15, <1>16,
         <1>17 DEF MoverNext, Run, World

\* The sums of the run agree with the disks, and it works on a title that may
\* move.
LEMMA MoverInvStep ==
  ASSUME MoverTypeOK, MoverInv, MoverTypeOK', [MoverNext]_mvars PROVE MoverInv'
<1> USE MoverAssumption DEF MoverInv, NoRoom, size, world, plan, pick, seen, run, Act, Touch, End, Fault
<1>a. /\ hddUsed \in Nat /\ hddSeen \in Nat /\ unseen \in Nat /\ done \in Nat /\ sel \in Nat
      /\ cur \in Unit \cup {None} /\ from \in Ssd \cup {None} /\ mode \in Unit \cup {"night"}
      /\ None \notin Unit /\ None \notin Ssd /\ "night" \notin Unit
      /\ ssd \in [Unit -> [Ssd -> Nat]] /\ todo \subseteq Unit
  BY DEF MoverTypeOK
<1>1. ASSUME Begin PROVE MoverInv'
  BY <1>1, <1>a DEF Begin
<1>2. ASSUME Scan PROVE MoverInv'
  <2>1. CASE End
    BY <1>2, <2>1 DEF Scan
  <2>2. CASE pc' = "next"
    <3>1. mode = "night" => snap # None
      BY <1>2, <2>2 DEF Scan
    <3> QED
      BY <1>2, <1>a, <2>2, <3>1 DEF Scan
  <2> QED
    BY <1>2, <2>1, <2>2 DEF Scan
<1>3. ASSUME Stop PROVE MoverInv'
  BY <1>3, <1>a DEF Stop
<1>4. ASSUME NEW t \in Unit, Skip(t) PROVE MoverInv'
  BY <1>4, <1>a DEF Skip
<1>5. ASSUME NEW t \in Unit, Take(t) PROVE MoverInv'
  <2>1. t # None /\ pc = "next" /\ pc' = "call" /\ cur' = t
        /\ UNCHANGED <<world, plan, from, sel, seen, done, unseen>>
    BY <1>5, <1>a DEF Take
  <2>2. t \notin Pinned /\ unit[t].flags = {} /\ ~NoRoom(t)
    BY <1>5 DEF Take, skip_reason
  <2> QED
    BY <1>a, <2>1, <2>2
<1>6. ASSUME MoveRefused PROVE MoverInv'
  BY <1>6, <1>a DEF MoveRefused, NextTitle
<1>7. ASSUME Call PROVE MoverInv'
  <2>1. PICK b \in brs : ssd[cur][b] > 0 /\ from' = b /\ sel' = ssd[cur][b]
    BY <1>7 DEF Call
  <2>2. b \in Ssd /\ b # None
    BY <1>a DEF MoverTypeOK
  <2> QED
    BY <1>7, <1>a, <2>1, <2>2 DEF Call
<1>8. ASSUME Copied PROVE MoverInv'
  <2>1. hddUsed' = hddUsed + sel /\ pc = "copy"
    BY <1>8 DEF Copied, Arrive
  <2>2. CASE brs = {}
    BY <1>8, <1>a, <2>1, <2>2 DEF Copied, NextTitle
  <2>3. CASE brs # {}
    <3>1. /\ pc' = "call" /\ done' = done + sel /\ from' = None /\ sel' = 0
          /\ UNCHANGED <<cur, brs, seen, unseen, plan, todo>>
      BY <1>8, <2>3 DEF Copied
    <3> QED
      BY <1>a, <2>1, <3>1
  <2> QED
    BY <2>2, <2>3
<1>9. ASSUME CopyStops PROVE MoverInv'
  <2>1. PICK k \in 0 .. sel - 1 : Arrive(k) /\ NextTitle(FALSE, k)
    BY <1>9 DEF CopyStops
  <2>2. k \in Nat /\ hddUsed' = hddUsed + k
    BY <1>a, <2>1 DEF Arrive
  <2> QED
    BY <1>9, <1>a, <2>1, <2>2 DEF CopyStops, NextTitle
<1>10. ASSUME Kill PROVE MoverInv'
  BY <1>10, <1>a DEF Kill
<1>11. ASSUME NEW t \in Unit, Play(t) PROVE MoverInv'
  BY <1>11, <1>a DEF Play
<1>12. ASSUME NEW t \in Unit, NEW b \in Ssd, ImportFile(t, b) PROVE MoverInv'
  <2>1. pc = "copy" => ssd'[cur][from] >= ssd[cur][from]
    <3>1. ssd' = [ssd EXCEPT ![t] = [ssd[t] EXCEPT ![b] = ssd[t][b] + 1]]
      BY <1>12, <1>a DEF ImportFile
    <3>2. \A c \in Unit, a \in Ssd : ssd[c][a] \in Nat /\ ssd'[c][a] >= ssd[c][a]
      BY <1>a, <3>1
    <3> QED
      BY <1>a, <3>2
  <2>2. pc = "copy" => ssd[cur][from] \in Nat /\ ssd'[cur][from] \in Nat
    BY <1>a DEF MoverTypeOK
  <2> QED
    BY <1>12, <1>a, <2>1, <2>2 DEF ImportFile
<1>13. ASSUME NEW t \in Unit, RemoveTitle(t) PROVE MoverInv'
  <2>1. pc = "copy" => ssd'[cur] = ssd[cur]
    BY <1>13, <1>a DEF RemoveTitle
  <2> QED
    BY <1>13, <1>a, <2>1 DEF RemoveTitle
<1>14. ASSUME Spill PROVE MoverInv'
  BY <1>14, <1>a DEF Spill
<1>15. ASSUME NEW t \in Unit, Free(t) PROVE MoverInv'
  BY <1>15, <1>a DEF Free
<1>16. ASSUME Day PROVE MoverInv'
  BY <1>16, <1>a DEF Day
<1>17. ASSUME UNCHANGED mvars PROVE MoverInv'
  BY <1>17, <1>a DEF mvars
<1> QED
  BY <1>1, <1>2, <1>3, <1>4, <1>5, <1>6, <1>7, <1>8, <1>9, <1>10, <1>11, <1>12, <1>13, <1>14, <1>15, <1>16,
         <1>17 DEF MoverNext, Run, World

\* A wait that is over; a copy that has taken its time.
LEMMA OneWaitLess == ASSUME NEW a \in Nat, NEW c \in Nat PROVE a * (c - 1) = a * c - a /\ a * c \in Nat
  OBVIOUS

\* A copy that has taken its time.
LEMMA ClockAfter ==
  ASSUME NEW k \in Nat, NEW w \in Nat, NEW y \in Nat, NEW z \in Nat, NEW c \in Nat, NEW d \in Nat,
         k + w + y <= d + z, NEW l \in {k, k + c}
  PROVE  l + w + y <= d + (z + c)
  OBVIOUS

\* A title is on a number of SSDs.
LEMMA BranchesFinite == ASSUME NEW t PROVE Cardinality(Branches(t)) \in Nat
  BY MoverAssumption, FS_Subset, FS_CardinalityType DEF Branches

\* So is the title at hand, on those that are left.
LEMMA BrsFinite == ASSUME MoverTypeOK PROVE IsFiniteSet(brs) /\ Cardinality(brs) \in Nat
  BY MoverAssumption, FS_Subset, FS_CardinalityType DEF MoverTypeOK

\* What is left of the title at hand still ends by the deadline.
LEMMA MoverTimeStep ==
  ASSUME MoverTypeOK, MoverInv, TimeInv, [MoverNext]_mvars PROVE TimeInv'
<1> USE MoverAssumption DEF TimeInv, world, plan, pick, seen, run, Act, Touch, End, Fault
<1>a. /\ elapsed \in Nat /\ done \in Nat /\ sel \in Nat /\ LockWait \in Nat /\ Slow \in Nat
         /\ Deadline \in Nat
      /\ cur \in Unit \cup {None}
  BY DEF MoverTypeOK
<1>1. ASSUME Begin PROVE TimeInv'
  BY <1>1 DEF Begin
<1>2. ASSUME Scan PROVE TimeInv'
  BY <1>2 DEF Scan
<1>3. ASSUME Stop PROVE TimeInv'
  BY <1>3 DEF Stop
<1>4. ASSUME NEW t \in Unit, Skip(t) PROVE TimeInv'
  <2>1. UNCHANGED <<mode, pc, elapsed, brs, cur, unit, done>>
    BY <1>4 DEF Skip
  <2>2. size(cur)' = size(cur)
    BY <2>1 DEF size
  <2> QED
    BY <2>1, <2>2
<1>5. ASSUME NEW t \in Unit, Take(t) PROVE TimeInv'
  <2>1. mode = "night" => elapsed + LockWait * Cardinality(Branches(t)) + Slow * size(t) <= Deadline
    <3>1. Cardinality(Branches(t)) \in Nat /\ size(t) \in Nat
      BY BranchesFinite, SizeIsNat
    <3>2. LockWait * Cardinality(Branches(t)) \in Nat /\ Slow * size(t) \in Nat
      BY <3>1
    <3>3. mode = "night" => ~(elapsed + LockWait * Cardinality(Branches(t)) + Slow * size(t) > Deadline)
      BY <1>5 DEF Take, Enough, TooLate
    <3> QED
      BY <1>a, <3>2, <3>3
  <2>2. done = 0 /\ Slow * 0 = 0
    BY <1>5 DEF Take, MoverInv
  <2>3. cur' = t /\ brs' = Branches(t) /\ UNCHANGED <<mode, unit, elapsed, done>>
    BY <1>5 DEF Take
  <2> QED
    BY <2>1, <2>2, <2>3 DEF size
<1>6. ASSUME MoveRefused PROVE TimeInv'
  BY <1>6 DEF MoveRefused, NextTitle
<1>7. ASSUME Call PROVE TimeInv'
  <2>1. PICK b \in brs : brs' = brs \ {b}
    BY <1>7 DEF Call
  <2>2. /\ pc = "call" /\ UNCHANGED <<mode, unit, cur, done>> /\ elapsed' \in {elapsed, elapsed + LockWait}
    BY <1>7 DEF Call
  <2>3. Cardinality(brs) \in Nat /\ Cardinality(brs') = Cardinality(brs) - 1
    BY <2>1, BrsFinite, FS_CardinalityType, FS_RemoveElement
  <2>4. LockWait * Cardinality(brs') = LockWait * Cardinality(brs) - LockWait
        /\ LockWait * Cardinality(brs) \in Nat
    BY <1>a, <2>3, OneWaitLess
  <2>5. ASSUME mode = "night"
        PROVE  elapsed' + LockWait * Cardinality(brs') + Slow * size(cur) <= Deadline + Slow * done
    <3>1. elapsed + LockWait * Cardinality(brs) + Slow * size(cur) <= Deadline + Slow * done
      BY <2>2, <2>5
    <3>2. cur \in Unit /\ size(cur) \in Nat /\ Slow * size(cur) \in Nat /\ Slow * done \in Nat
      <4>1. cur \in Unit
        BY <1>a, <2>2 DEF MoverInv
      <4> QED
        BY <1>a, <4>1, SizeIsNat
    <3> DEFINE w == LockWait * Cardinality(brs)
               x == LockWait * Cardinality(brs')
               y == Slow * size(cur)
               z == Slow * done
    <3>3. w \in Nat /\ x = w - LockWait /\ y \in Nat /\ z \in Nat /\ elapsed + w + y <= Deadline + z
      BY <2>4, <3>1, <3>2
    <3> HIDE DEF w, x, y, z
    <3>4. elapsed' + x + y <= Deadline + z
      BY <1>a, <2>2, <3>3
    <3> QED
      BY <3>4 DEF x, y, z
  <2>6. mode' = mode /\ size(cur)' = size(cur) /\ done' = done
    BY <2>2 DEF size
  <2> QED
    BY <2>5, <2>6
<1>8. ASSUME Copied PROVE TimeInv'
  <2>1. CASE brs = {}
    BY <1>8, <2>1 DEF Copied, NextTitle
  <2>2. CASE brs # {}
    <3>1. /\ pc = "copy" /\ done' = done + sel /\ UNCHANGED <<mode, unit, cur, brs>>
             /\ elapsed' \in {elapsed, elapsed + Slow * sel}
      BY <1>8, <2>2 DEF Copied
    <3>2. ASSUME mode = "night"
          PROVE  elapsed' + LockWait * Cardinality(brs) + Slow * size(cur) <= Deadline + Slow * (done + sel)
      <4> DEFINE w == LockWait * Cardinality(brs)
                 y == Slow * size(cur)
                 z == Slow * done
                 c == Slow * sel
      <4>1. cur \in Unit /\ Cardinality(brs) \in Nat
        BY <1>a, <3>1, BrsFinite, FS_CardinalityType DEF MoverInv
      <4>2. size(cur) \in Nat
        BY <4>1, SizeIsNat
      <4>3. w \in Nat /\ y \in Nat /\ z \in Nat /\ c \in Nat
        BY <1>a, <4>1, <4>2
      <4>6. Slow * (done + sel) = z + c
        BY <1>a
      <4>4. elapsed + w + y <= Deadline + z /\ elapsed' \in {elapsed, elapsed + c}
        BY <3>1, <3>2
      <4> HIDE DEF w, y, z, c
      <4>5. elapsed' + w + y <= Deadline + (z + c)
        BY <1>a, <4>3, <4>4, ClockAfter
      <4> QED
        BY <4>6, <4>5 DEF w, y
    <3>3. size(cur)' = size(cur)
      BY <3>1 DEF size
    <3> QED
      BY <3>1, <3>2, <3>3
  <2> QED
    BY <2>1, <2>2
<1>9. ASSUME CopyStops PROVE TimeInv'
  BY <1>9 DEF CopyStops, NextTitle
<1>10. ASSUME Kill PROVE TimeInv'
  BY <1>10 DEF Kill
<1>11. ASSUME NEW t \in Unit, Play(t) PROVE TimeInv'
  <2>1. UNCHANGED <<mode, pc, elapsed, brs, cur, unit, done>>
    BY <1>11 DEF Play
  <2>2. size(cur)' = size(cur)
    BY <2>1 DEF size
  <2> QED
    BY <2>1, <2>2
<1>12. ASSUME NEW t \in Unit, NEW b \in Ssd, ImportFile(t, b) PROVE TimeInv'
  <2>1. UNCHANGED <<mode, pc, elapsed, brs, cur, unit, done>>
    BY <1>12 DEF ImportFile
  <2>2. size(cur)' = size(cur)
    BY <2>1 DEF size
  <2> QED
    BY <2>1, <2>2
<1>13. ASSUME NEW t \in Unit, RemoveTitle(t) PROVE TimeInv'
  <2>1. UNCHANGED <<mode, pc, elapsed, brs, cur, unit, done>>
    BY <1>13 DEF RemoveTitle
  <2>2. size(cur)' = size(cur)
    BY <2>1 DEF size
  <2> QED
    BY <2>1, <2>2
<1>14. ASSUME Spill PROVE TimeInv'
  <2>1. UNCHANGED <<mode, pc, elapsed, brs, cur, unit, done>>
    BY <1>14 DEF Spill
  <2>2. size(cur)' = size(cur)
    BY <2>1 DEF size
  <2> QED
    BY <2>1, <2>2
<1>15. ASSUME NEW t \in Unit, Free(t) PROVE TimeInv'
  <2>1. UNCHANGED <<mode, pc, elapsed, brs, cur, unit, done>>
    BY <1>15 DEF Free
  <2>2. size(cur)' = size(cur)
    BY <2>1 DEF size
  <2> QED
    BY <2>1, <2>2
<1>16. ASSUME Day PROVE TimeInv'
  BY <1>16 DEF Day
<1>17. ASSUME UNCHANGED mvars PROVE TimeInv'
  <2>1. UNCHANGED <<mode, pc, elapsed, brs, cur, unit, done>>
    BY <1>17 DEF mvars
  <2>2. size(cur)' = size(cur)
    BY <2>1 DEF size
  <2> QED
    BY <2>1, <2>2
<1> QED
  BY <1>1, <1>2, <1>3, <1>4, <1>5, <1>6, <1>7, <1>8, <1>9, <1>10, <1>11, <1>12, <1>13, <1>14, <1>15, <1>16,
         <1>17 DEF MoverNext, Run, World

\* What the run knows of the ages is not too old, but for what has been used
\* since.
LEMMA MoverAgesStep ==
  ASSUME MoverTypeOK, AgesInv, [MoverNext]_mvars PROVE AgesInv'
<1> USE MoverAssumption DEF AgesInv, world, plan, pick, seen, run, Act, Touch, End, Fault
<1>1. ASSUME Begin PROVE AgesInv'
  <2>1. \A t \in Unit : played[t] \in 0 .. IdleAge /\ added[t] \in 0 .. IdleAge
    BY DEF MoverTypeOK
  <2>2. ASSUME NEW jf, NEW arr, NEW t \in Unit
        PROVE  AgesTold(jf, arr)[t] <= added[t] /\ (t \in jf => AgesTold(jf, arr)[t] <= played[t])
    BY <2>1 DEF AgesTold, Least
  <2>3. mode' = "night" /\ snap' # None => \E arr : snap' = AgesTold(known', arr)
    BY <1>1 DEF Begin
  <2>4. pc' # "off" /\ UNCHANGED <<played, added>>
    BY <1>1 DEF Begin
  <2> QED
    BY <2>2, <2>3, <2>4
<1>2. ASSUME Scan PROVE AgesInv'
  <2>1. CASE End
    BY <2>1
  <2>2. CASE UNCHANGED <<mode, snap, known, since>> /\ pc = "begin" /\ pc' = "next" /\ UNCHANGED world
    BY <2>2
  <2> QED
    BY <1>2, <2>1, <2>2 DEF Scan
<1>3. ASSUME Stop PROVE AgesInv'
  BY <1>3 DEF Stop
<1>4. ASSUME NEW t \in Unit, Skip(t) PROVE AgesInv'
  BY <1>4 DEF Skip
<1>5. ASSUME NEW t \in Unit, Take(t) PROVE AgesInv'
  BY <1>5 DEF Take
<1>6. ASSUME MoveRefused PROVE AgesInv'
  BY <1>6 DEF MoveRefused, NextTitle
<1>7. ASSUME Call PROVE AgesInv'
  BY <1>7 DEF Call
<1>8. ASSUME Copied PROVE AgesInv'
  <2>1. pc = "copy" /\ pc' # "off" /\ UNCHANGED <<mode, snap, known, since, played, added>>
    BY <1>8 DEF Copied, NextTitle
  <2> QED
    BY <2>1
<1>9. ASSUME CopyStops PROVE AgesInv'
  <2>1. pc = "copy" /\ pc' # "off" /\ UNCHANGED <<mode, snap, known, since, played, added>>
    BY <1>9 DEF CopyStops, NextTitle
  <2> QED
    BY <2>1
<1>10. ASSUME Kill PROVE AgesInv'
  BY <1>10 DEF Kill
<1>11. ASSUME NEW t \in Unit, Play(t) PROVE AgesInv'
  <2>1. \A c \in Unit \ {t} : played'[c] = played[c]
    BY <1>11 DEF Play, MoverTypeOK
  <2> QED
    BY <1>11, <2>1 DEF Play
<1>12. ASSUME NEW t \in Unit, NEW b \in Ssd, ImportFile(t, b) PROVE AgesInv'
  <2>1. \A c \in Unit \ {t} : added'[c] = added[c]
    BY <1>12 DEF ImportFile, MoverTypeOK
  <2> QED
    BY <1>12, <2>1 DEF ImportFile
<1>13. ASSUME NEW t \in Unit, RemoveTitle(t) PROVE AgesInv'
  BY <1>13 DEF RemoveTitle
<1>14. ASSUME Spill PROVE AgesInv'
  BY <1>14 DEF Spill
<1>15. ASSUME NEW t \in Unit, Free(t) PROVE AgesInv'
  BY <1>15 DEF Free
<1>16. ASSUME Day PROVE AgesInv'
  BY <1>16 DEF Day
<1>17. ASSUME UNCHANGED mvars PROVE AgesInv'
  BY <1>17 DEF mvars
<1> QED
  BY <1>1, <1>2, <1>3, <1>4, <1>5, <1>6, <1>7, <1>8, <1>9, <1>10, <1>11, <1>12, <1>13, <1>14, <1>15, <1>16,
         <1>17 DEF MoverNext, Run, World

\* Nor does it miss a flag, but for what has been changed since.
LEMMA MoverFlagsStep ==
  ASSUME MoverTypeOK, MoverInv, FlagsInv, [MoverNext]_mvars PROVE FlagsInv'
<1> USE MoverAssumption DEF FlagsInv, world, plan, pick, seen, run, Act, Touch, End, Fault
<1>1. ASSUME Begin PROVE FlagsInv'
  BY <1>1 DEF Begin
<1>2. ASSUME Scan PROVE FlagsInv'
  <2>1. CASE End
    BY <2>1
  <2>2. CASE pc' = "next" /\ unit' = [t \in Unit |-> [n |-> ssd[t], flags |-> flags[t] \ {"open"}]]
             /\ UNCHANGED <<flags, since>>
    BY <2>2
  <2> QED
    BY <1>2, <2>1, <2>2 DEF Scan
<1>3. ASSUME Stop PROVE FlagsInv'
  BY <1>3 DEF Stop
<1>4. ASSUME NEW t \in Unit, Skip(t) PROVE FlagsInv'
  BY <1>4 DEF Skip
<1>5. ASSUME NEW t \in Unit, Take(t) PROVE FlagsInv'
  <2>1. unit[t].flags = {} /\ "open" \notin flags[t] /\ cur' = t /\ pc = "next"
        /\ UNCHANGED <<flags, unit, since>>
    BY <1>5 DEF Take, skip_reason
  <2> QED
    BY <2>1
<1>6. ASSUME MoveRefused PROVE FlagsInv'
  BY <1>6 DEF MoveRefused, NextTitle
<1>7. ASSUME Call PROVE FlagsInv'
  BY <1>7 DEF Call
<1>8. ASSUME Copied PROVE FlagsInv'
  <2>1. pc = "copy" /\ pc' # "off" /\ UNCHANGED <<unit, since, flags>> /\ (pc' = "next" \/ cur' = cur)
    BY <1>8 DEF Copied, NextTitle
  <2> QED
    BY <2>1
<1>9. ASSUME CopyStops PROVE FlagsInv'
  <2>1. pc = "copy" /\ pc' = "next" /\ UNCHANGED <<unit, since, flags>>
    BY <1>9 DEF CopyStops, NextTitle
  <2> QED
    BY <2>1
<1>10. ASSUME Kill PROVE FlagsInv'
  BY <1>10 DEF Kill
<1>11. ASSUME NEW t \in Unit, Play(t) PROVE FlagsInv'
  <2>1. \A c \in Unit \ {t} : flags'[c] = flags[c]
    BY <1>11 DEF Play, MoverTypeOK
  <2>2. pc \in {"call", "copy"} => cur \in Unit
    BY DEF MoverInv, MoverTypeOK
  <2> QED
    BY <1>11, <2>1, <2>2 DEF Play
<1>12. ASSUME NEW t \in Unit, NEW b \in Ssd, ImportFile(t, b) PROVE FlagsInv'
  <2>1. PICK link \in {{}, {"linked"}} : flags' = [flags EXCEPT ![t] = @ \cup {"new"} \cup link]
    BY <1>12 DEF ImportFile
  <2>2. \A c \in Unit \ {t} : flags'[c] = flags[c]
    BY <2>1 DEF MoverTypeOK
  <2>3. pc \in {"call", "copy"} => cur \in Unit
    BY DEF MoverInv, MoverTypeOK
  <2> QED
    BY <1>12, <2>2, <2>3 DEF ImportFile
<1>13. ASSUME NEW t \in Unit, RemoveTitle(t) PROVE FlagsInv'
  BY <1>13 DEF RemoveTitle
<1>14. ASSUME Spill PROVE FlagsInv'
  BY <1>14 DEF Spill
<1>15. ASSUME NEW t \in Unit, Free(t) PROVE FlagsInv'
  <2>1. \A c \in Unit : flags'[c] \subseteq flags[c]
    BY <1>15 DEF Free, MoverTypeOK
  <2>2. pc \in {"call", "copy"} => cur \in Unit
    BY DEF MoverInv, MoverTypeOK
  <2> QED
    BY <1>15, <2>1, <2>2 DEF Free
<1>16. ASSUME Day PROVE FlagsInv'
  BY <1>16 DEF Day
<1>17. ASSUME UNCHANGED mvars PROVE FlagsInv'
  BY <1>17 DEF mvars
<1> QED
  BY <1>1, <1>2, <1>3, <1>4, <1>5, <1>6, <1>7, <1>8, <1>9, <1>10, <1>11, <1>12, <1>13, <1>14, <1>15, <1>16,
         <1>17 DEF MoverNext, Run, World

\* A run that moves titles has been told enough.
LEMMA MoverToldStep ==
  ASSUME MoverTypeOK, ToldInv, [MoverNext]_mvars PROVE ToldInv'
<1> USE MoverAssumption DEF ToldInv, world, plan, pick, seen, run, Act, Touch, End, Fault
<1>1. ASSUME Begin PROVE ToldInv'
  BY <1>1 DEF Begin
<1>2. ASSUME Scan PROVE ToldInv'
  <2>1. CASE End
    BY <2>1
  <2>2. CASE pc' = "next"
    <3> DEFINE u == [t \in Unit |-> [n |-> ssd[t], flags |-> flags[t] \ {"open"}]]
    <3>1. unit' = u /\ UNCHANGED <<mode, snap, known>> /\ (mode = "night" => snap # None /\ Covered(u))
      BY <1>2, <2>2 DEF Scan
    <3>2. Covered(unit)' <=> Covered(u)
      BY <3>1 DEF Covered, Aged
    <3> QED
      BY <2>2, <3>1, <3>2
  <2> QED
    BY <1>2, <2>1, <2>2 DEF Scan
<1>3. ASSUME Stop PROVE ToldInv'
  BY <1>3 DEF Stop
<1>4. ASSUME NEW t \in Unit, Skip(t) PROVE ToldInv'
  <2>1. UNCHANGED <<mode, snap, known, unit, pc, cur>>
    BY <1>4 DEF Skip
  <2>2. Covered(unit)' = Covered(unit)
    BY <2>1 DEF Covered, Aged
  <2> QED
    BY <2>1, <2>2
<1>5. ASSUME NEW t \in Unit, Take(t) PROVE ToldInv'
  <2>1. cur' = t /\ pc = "next" /\ UNCHANGED <<mode, snap, known, unit>>
    BY <1>5 DEF Take
  <2>2. Covered(unit)' = Covered(unit)
    BY <2>1 DEF Covered, Aged
  <2>3. ASSUME mode = "night" PROVE snap[t] >= FallbackAge
    <3>1. snap[t] \in Nat /\ IdleAge \in Nat /\ FallbackAge \in Nat /\ FallbackAge <= IdleAge
      BY <2>1, <2>3 DEF MoverTypeOK
    <3>2. ~(snap[t] < (IF ssdSeen < Fallback THEN IdleAge ELSE FallbackAge))
      BY <1>5, <2>3 DEF Take, Enough, TooRecent
    <3> QED
      BY <3>1, <3>2
  <2> QED
    BY <2>1, <2>2, <2>3
<1>6. ASSUME MoveRefused PROVE ToldInv'
  <2>1. UNCHANGED <<mode, snap, known, unit>> /\ pc \in {"call", "copy"} /\ (pc' = "next" \/ cur' = cur)
    BY <1>6 DEF MoveRefused, NextTitle
  <2>2. Covered(unit)' = Covered(unit)
    BY <2>1 DEF Covered, Aged
  <2> QED
    BY <2>1, <2>2
<1>7. ASSUME Call PROVE ToldInv'
  <2>1. UNCHANGED <<mode, snap, known, unit>> /\ pc \in {"call", "copy"} /\ (pc' = "next" \/ cur' = cur)
    BY <1>7 DEF Call, NextTitle
  <2>2. Covered(unit)' = Covered(unit)
    BY <2>1 DEF Covered, Aged
  <2> QED
    BY <2>1, <2>2
<1>8. ASSUME Copied PROVE ToldInv'
  <2>1. UNCHANGED <<mode, snap, known, unit>> /\ pc \in {"call", "copy"} /\ (pc' = "next" \/ cur' = cur)
    BY <1>8 DEF Copied, NextTitle
  <2>2. Covered(unit)' = Covered(unit)
    BY <2>1 DEF Covered, Aged
  <2> QED
    BY <2>1, <2>2
<1>9. ASSUME CopyStops PROVE ToldInv'
  <2>1. UNCHANGED <<mode, snap, known, unit>> /\ pc \in {"call", "copy"} /\ (pc' = "next" \/ cur' = cur)
    BY <1>9 DEF CopyStops, NextTitle
  <2>2. Covered(unit)' = Covered(unit)
    BY <2>1 DEF Covered, Aged
  <2> QED
    BY <2>1, <2>2
<1>10. ASSUME Kill PROVE ToldInv'
  BY <1>10 DEF Kill
<1>11. ASSUME NEW t \in Unit, Play(t) PROVE ToldInv'
  <2>1. UNCHANGED <<mode, snap, known, unit, pc, cur>>
    BY <1>11 DEF Play
  <2>2. Covered(unit)' = Covered(unit)
    BY <2>1 DEF Covered, Aged
  <2> QED
    BY <2>1, <2>2
<1>12. ASSUME NEW t \in Unit, NEW b \in Ssd, ImportFile(t, b) PROVE ToldInv'
  <2>1. UNCHANGED <<mode, snap, known, unit, pc, cur>>
    BY <1>12 DEF ImportFile
  <2>2. Covered(unit)' = Covered(unit)
    BY <2>1 DEF Covered, Aged
  <2> QED
    BY <2>1, <2>2
<1>13. ASSUME NEW t \in Unit, RemoveTitle(t) PROVE ToldInv'
  <2>1. UNCHANGED <<mode, snap, known, unit, pc, cur>>
    BY <1>13 DEF RemoveTitle
  <2>2. Covered(unit)' = Covered(unit)
    BY <2>1 DEF Covered, Aged
  <2> QED
    BY <2>1, <2>2
<1>14. ASSUME Spill PROVE ToldInv'
  <2>1. UNCHANGED <<mode, snap, known, unit, pc, cur>>
    BY <1>14 DEF Spill
  <2>2. Covered(unit)' = Covered(unit)
    BY <2>1 DEF Covered, Aged
  <2> QED
    BY <2>1, <2>2
<1>15. ASSUME NEW t \in Unit, Free(t) PROVE ToldInv'
  <2>1. UNCHANGED <<mode, snap, known, unit, pc, cur>>
    BY <1>15 DEF Free
  <2>2. Covered(unit)' = Covered(unit)
    BY <2>1 DEF Covered, Aged
  <2> QED
    BY <2>1, <2>2
<1>16. ASSUME Day PROVE ToldInv'
  <2>1. UNCHANGED <<mode, snap, known, unit, pc, cur>>
    BY <1>16 DEF Day
  <2>2. Covered(unit)' = Covered(unit)
    BY <2>1 DEF Covered, Aged
  <2> QED
    BY <2>1, <2>2
<1>17. ASSUME UNCHANGED mvars PROVE ToldInv'
  <2>1. UNCHANGED <<mode, snap, known, unit, pc, cur>>
    BY <1>17 DEF mvars
  <2>2. Covered(unit)' = Covered(unit)
    BY <2>1 DEF Covered, Aged
  <2> QED
    BY <2>1, <2>2
<1> QED
  BY <1>1, <1>2, <1>3, <1>4, <1>5, <1>6, <1>7, <1>8, <1>9, <1>10, <1>11, <1>12, <1>13, <1>14, <1>15, <1>16,
         <1>17 DEF MoverNext, Run, World

\* A title of which Jellyfin lists nothing, taken by a run that was told
\* enough, is within the tenth of the videos that it may not know.
LEMMA WithinTenth ==
  ASSUME MoverTypeOK, Covered(unit), NEW t \in Unit \ known, unit[t].flags = {}
  PROVE  10 * size(t) <= Cardinality(VideosOf(unit, Aged(unit)))
<1> DEFINE A == VideosOf(unit, Aged(unit) \cap known)
           B == {t} \X Videos(unit[t].n)
           C == VideosOf(unit, Aged(unit))
<1>1. t \in Aged(unit)
  BY DEF Aged
<1>2. A \subseteq C /\ B \subseteq C
  BY <1>1 DEF VideosOf
<1>3. A \cap B = {}
  BY DEF VideosOf
<1>4. IsFiniteSet(C)
  BY VideosOfFinite DEF MoverTypeOK, Aged
<1>5. IsFiniteSet(A) /\ IsFiniteSet(B)
  BY <1>2, <1>4, FS_Subset
<1>6. /\ Cardinality(A) \in Nat /\ Cardinality(B) \in Nat /\ Cardinality(C) \in Nat
      /\ Cardinality(A) + Cardinality(B) <= Cardinality(C)
  <2>1. Cardinality(A) \in Nat /\ Cardinality(B) \in Nat /\ Cardinality(C) \in Nat
    BY <1>4, <1>5, FS_CardinalityType
  <2>2. Cardinality(A \cup B) = Cardinality(A) + Cardinality(B) - Cardinality({})
    <3> HIDE DEF A, B
    <3> QED
      BY <1>3, <1>5, FS_Union
  <2>3. A \cup B \in SUBSET C
    BY <1>2
  <2>4. Cardinality(A \cup B) <= Cardinality(C)
    <3> HIDE DEF A, B, C
    <3> QED
      BY <1>4, <2>3, FS_Subset
  <2> QED
    BY <2>1, <2>2, <2>4, FS_EmptySet
<1>7. Cardinality(B) = size(t)
  <2>1. IsFiniteSet(Videos(unit[t].n)) /\ Cardinality(Videos(unit[t].n)) \in Nat
    BY VideosFinite, FS_CardinalityType DEF MoverTypeOK
  <2>2. IsFiniteSet({t}) /\ Cardinality({t}) = 1
    BY FS_Singleton
  <2>3. Cardinality(B) = 1 * Cardinality(Videos(unit[t].n))
    BY <2>1, <2>2, FS_Product
  <2> QED
    BY <2>1, <2>3 DEF size, Total
<1>8. 10 * Cardinality(A) >= 9 * Cardinality(C)
  BY DEF Covered
<1> HIDE DEF A, B, C
<1>9. 10 * Cardinality(B) <= Cardinality(C)
  BY <1>6, <1>8
<1> QED
  BY <1>7, <1>9 DEF C

\* A host before its first run.
LEMMA MoverInitInv == ASSUME MoverInit PROVE MoverIInv
<1> USE MoverAssumption
<1>1. Cardinality(UNION {{t} \X Videos(Files[t]) : t \in Unit}) \in Int
  <2> DEFINE u == [t \in Unit |-> [n |-> Files[t], flags |-> {}]]
  <2>1. u \in [Unit -> [n : [Ssd -> Nat], flags : SUBSET Flag]]
    OBVIOUS
  <2>2. VideosOf(u, Unit) = UNION {{t} \X Videos(Files[t]) : t \in Unit}
    BY DEF VideosOf
  <2>3. IsFiniteSet(VideosOf(u, Unit))
    BY <2>1, VideosOfFinite
  <2>4. Cardinality(VideosOf(u, Unit)) \in Nat
    <3> HIDE DEF u
    <3> QED
      BY <2>3, FS_CardinalityType
  <2> HIDE DEF u
  <2>5. Cardinality(UNION {{t} \X Videos(Files[t]) : t \in Unit}) \in Nat
    BY <2>2, <2>4, Zenon
  <2> QED
    BY <2>5
<1>2. MoverTypeOK
  <2>1. ssd \in [Unit -> [Ssd -> Nat]] /\ ssdUsed \in Int /\ hddUsed \in Nat
    BY <1>1 DEF MoverInit
  <2>2. played \in [Unit -> 0 .. IdleAge] /\ added \in [Unit -> 0 .. IdleAge]
        /\ flags \in [Unit -> SUBSET Flag]
    BY DEF MoverInit
  <2>3. unit \in [Unit -> [n : [Ssd -> Nat], flags : SUBSET Flag]]
    BY NothingSeen DEF MoverInit
  <2>4. acts \in 0 .. MaxAct /\ faults \in 0 .. MaxFault
    BY DEF MoverInit
  <2> QED
    BY <2>1, <2>2, <2>3, <2>4 DEF MoverInit, MoverTypeOK
<1>3. MoverInv
  BY <1>2 DEF MoverInit, MoverInv
<1> QED
  BY <1>3 DEF MoverInit, MoverIInv, TimeInv, AgesInv, FlagsInv, ToldInv

\* The inductive invariant holds in every state of every instance.
THEOREM MoverInvariance == MoverSpec => []MoverIInv
<1>1. MoverIInv /\ [MoverNext]_mvars => MoverIInv'
  <2> SUFFICES ASSUME MoverIInv, [MoverNext]_mvars PROVE MoverIInv'
    OBVIOUS
  <2>1. MoverTypeOK /\ MoverInv /\ TimeInv /\ AgesInv /\ FlagsInv /\ ToldInv
    BY DEF MoverIInv, MoverInv
  <2>2. MoverTypeOK'
    BY <2>1, MoverTypeStep
  <2>3. MoverInv'
    BY <2>1, <2>2, MoverInvStep
  <2>4. TimeInv' /\ AgesInv' /\ FlagsInv' /\ ToldInv'
    BY <2>1, MoverTimeStep, MoverAgesStep, MoverFlagsStep, MoverToldStep
  <2> QED
    BY <2>3, <2>4 DEF MoverIInv
<1> QED
  BY MoverInitInv, <1>1, PTL DEF MoverSpec

\* Time per file, over what was scanned and what came later.
LEMMA SlowSum ==
  ASSUME NEW a \in Nat, NEW x \in Nat, NEW y \in Nat, NEW z \in Nat, NEW o \in Nat, o >= x + y - z
  PROVE  a * o \in Nat /\ a * o >= a * x + a * y - a * z
<1>1. a * o >= a * (x + y - z)
  OBVIOUS
<1>2. a * (x + y - z) = a * x + a * y - a * z
  OBVIOUS
<1>3. a * o \in Nat /\ a * (x + y - z) \in Int /\ a * x + a * y - a * z \in Int
  OBVIOUS
<1> QED
  BY <1>1, <1>2, <1>3

\* beefy_mover.py:9: for any titles, SSDs, waits and speeds, what is left of
\* the title at hand ends by the deadline, but for what was added to it.
THEOREM MoverEndsInTime == MoverSpec => []EndsInTime
<1>1. MoverIInv => EndsInTime
  <2> SUFFICES ASSUME MoverIInv, mode = "night", pc \in {"call", "copy"}
               PROVE  elapsed + (LockWait * Cardinality(brs) + Slow * sel)
                         <= Deadline + Slow * Beyond(done + sel)
    BY DEF EndsInTime
  <2>1. /\ elapsed \in Nat /\ done \in Nat /\ sel \in Nat /\ LockWait \in Nat /\ Slow \in Nat
           /\ Deadline \in Nat
        /\ cur \in Unit /\ Cardinality(brs) \in Nat
    BY MoverAssumption, BrsFinite DEF MoverIInv, MoverInv, MoverTypeOK
  <2>2. size(cur) \in Nat
    BY <2>1, SizeIsNat DEF MoverIInv, MoverInv
  <2> DEFINE w == LockWait * Cardinality(brs)
             y == Slow * size(cur)
             z == Slow * done
             c == Slow * sel
             o == Slow * Beyond(done + sel)
  <2>3. w \in Nat /\ y \in Nat /\ z \in Nat /\ c \in Nat
    BY <2>1, <2>2
  <2>4. o \in Nat /\ (o >= z + c - y)
    <3>1. Beyond(done + sel) \in Nat /\ Beyond(done + sel) >= done + sel - size(cur)
      BY <2>1, <2>2 DEF Beyond
    <3> QED
      BY <2>1, <2>2, <3>1, SlowSum
  <2>5. elapsed + w + y <= Deadline + z
    BY DEF MoverIInv, TimeInv
  <2> HIDE DEF w, y, z, c, o
  <2>6. elapsed + (w + c) <= Deadline + o
    BY <2>1, <2>3, <2>4, <2>5
  <2> QED
    BY <2>6 DEF w, c, o
<1> QED
  BY MoverInvariance, <1>1, PTL

\* beefy_mover.py:9: whatever fails and whoever uses the disks, the run itself
\* takes no more of the HDD than the room it was left.
THEOREM MoverKeepsReserve == MoverSpec => ReserveKept
<1>1. MoverIInv /\ [MoverNext]_mvars =>
        [pc = "copy" /\ pc' # "copy" =>
           hddUsed' <= HddRoom + unseen + Beyond(done + hddUsed' - hddUsed)]_mvars
  <2> SUFFICES ASSUME MoverIInv, MoverNext, pc = "copy", pc' # "copy"
               PROVE  hddUsed' <= HddRoom + unseen + Beyond(done + hddUsed' - hddUsed)
    OBVIOUS
  <2>1. /\ hddUsed \in Nat /\ hddSeen \in Nat /\ unseen \in Nat /\ done \in Nat /\ sel \in Nat /\ cur \in Unit
        /\ hddUsed = hddSeen + unseen + done /\ HddRoom \in Nat /\ ~(hddSeen + size(cur) > HddRoom)
    BY MoverAssumption DEF MoverIInv, MoverInv, MoverTypeOK, NoRoom
  <2>2. size(cur) \in Nat
    BY <2>1, SizeIsNat DEF MoverIInv, MoverInv
  <2>3. PICK k \in 0 .. sel : hddUsed' = hddUsed + k
    <3>1. Copied \/ CopyStops \/ Kill
      BY DEF MoverNext, Run, World, Begin, Scan, Stop, Skip, Take, MoveRefused, Call, Play, ImportFile,
             RemoveTitle, Spill, Free, Day, Act, run
    <3>2. CASE Copied
      BY <2>1, <3>2 DEF Copied, Arrive
    <3>3. CASE CopyStops
      <4>1. PICK k \in 0 .. sel - 1 : Arrive(k)
        BY <3>3 DEF CopyStops
      <4> QED
        BY <2>1, <4>1 DEF Arrive
    <3>4. CASE Kill
      BY <3>4 DEF Kill, Arrive
    <3> QED
      BY <3>1, <3>2, <3>3, <3>4
  <2> QED
    BY <2>1, <2>2, <2>3 DEF Beyond
<1> QED
  BY MoverInvariance, <1>1, PTL DEF MoverSpec, ReserveKept

\* A run at night moves nothing that was added or changed, or that Jellyfin
\* has told was played, within FALLBACK_DAYS before it began; a title that
\* Jellyfin has not told is within the tenth that it may not know.
THEOREM MoverLeavesRecent == MoverSpec => RecentStays
<1>1. ASSUME MoverIInv, NEW t \in Unit, pc = "copy", cur = t, mode = "night", t \notin since
      PROVE  /\ flags[t] = {} /\ added[t] >= FallbackAge
             /\ \/ played[t] >= FallbackAge
                \/ t \notin known /\ 10 * size(t) <= Cardinality(VideosOf(unit, Aged(unit)))
  <2>1. /\ flags[t] = {} /\ snap # None /\ snap[t] >= FallbackAge /\ Covered(unit) /\ unit[t].flags = {}
        /\ snap[t] <= added[t] /\ (t \in known => snap[t] <= played[t])
    BY <1>1 DEF MoverIInv, MoverInv, FlagsInv, ToldInv, AgesInv
  <2>2. snap[t] \in Nat /\ added[t] \in Nat /\ played[t] \in Nat /\ FallbackAge \in Nat
    BY <1>1, <2>1, MoverAssumption DEF MoverIInv, MoverInv, MoverTypeOK
  <2>3. t \notin known => 10 * size(t) <= Cardinality(VideosOf(unit, Aged(unit)))
    BY <1>1, <2>1, WithinTenth DEF MoverIInv, MoverInv
  <2> QED
    BY <2>1, <2>2, <2>3
<1>2. MoverIInv =>
        [\A t \in Unit :
           pc = "copy" /\ cur = t /\ mode = "night" /\ hddUsed' # hddUsed /\ t \notin since =>
             /\ flags[t] = {} /\ added[t] >= FallbackAge
             /\ \/ played[t] >= FallbackAge
                \/ t \notin known /\ 10 * size(t) <= Cardinality(VideosOf(unit, Aged(unit)))]_mvars
  BY <1>1
<1> QED
  BY MoverInvariance, <1>2, PTL DEF RecentStays
=============================================================================
