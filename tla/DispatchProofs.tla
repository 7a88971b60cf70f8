--------------------------- MODULE DispatchProofs ---------------------------
(***************************************************************************)
(* Theorems about Dispatch for every value of its constants: an event is   *)
(* in one place, the batch is fired in time, and the requests of the rules *)
(* come first.                                                             *)
(***************************************************************************)
EXTENDS Dispatch, FiniteSetTheorems, SequenceTheorems, WellFoundedInduction, TLAPS

-----------------------------------------------------------------------------
(* The inductive invariant.                                                *)

Ids == Nat \ {0}

\* The events that a command or rule, the batch or the engine hold.
RunIds(R)       == {d.e.id : d \in R}
BatchIds(b)     == {b[k].id : k \in DOMAIN b}
QueueIds(q)     == UNION {ToSet(q[k].events) : k \in DOMAIN q}
EngineIds(q, a) == QueueIds(q) \cup ToSet(a.events)
KeptIds(b, q, a) == BatchIds(b) \cup EngineIds(q, a)

\* The requests of the engine share no event; the batch holds none twice.
QueueOnce(q) ==
  \A j, k \in DOMAIN q : j # k => ToSet(q[j].events) \cap ToSet(q[k].events) = {}
EngineOnce(q, a) == QueueOnce(q) /\ QueueIds(q) \cap ToSet(a.events) = {}
BatchOnce(b) == \A j, k \in DOMAIN b : b[j].id = b[k].id => j = k

\* Nor does what runs, with all that is kept for the brain; n events came in.
RunOnce(R) == \A d1, d2 \in R : d1.e.id = d2.e.id => d1 = d2
Runs(R, K, n) ==
  /\ RunOnce(R) /\ RunIds(R) \cap K = {}
  /\ RunIds(R) \cup K \subseteq 1..n

\* The engine takes x before y; its queue is in that order, and empty when
\* it is idle.
Before(x, y) == x.prio < y.prio \/ (x.prio = y.prio /\ x.no < y.no)
Ordered(q, n) ==
  /\ \A j, k \in DOMAIN q : j < k => Before(q[j], q[k])
  /\ \A k \in DOMAIN q : q[k].no <= n
Engine(q, a, n) == Ordered(q, n) /\ (a = Idle => q = <<>>)

\* The first event of the batch has waited longest, none longer than it is
\* old; and the batch would have been fired.
Timed(b) ==
  /\ \A k \in DOMAIN b : b[k].waited <= b[k].age /\ b[k].waited <= b[1].waited
  /\ MaxWait > 0 => \A k \in DOMAIN b : b[k].waited < MaxWait
  /\ b # <<>> => b[Len(b)].waited < IF Quiet > 0 THEN Quiet ELSE 1

EngineSafe(q, a, n) ==
  /\ q \in Seq(Request) /\ a \in Request \cup {Idle} /\ n \in Nat
  /\ Engine(q, a, n) /\ EngineOnce(q, a)
BatchSafe(b, w) == b \in Seq(Waiting) /\ w \subseteq Counted /\ BatchOnce(b) /\ Timed(b)
Kept(b, w, q, a, n) ==
  BatchSafe(b, w) /\ EngineSafe(q, a, n) /\ BatchIds(b) \cap EngineIds(q, a) = {}

IInv ==
  /\ TypeOK
  /\ Kept(batch, window, queue, active, asked)
  /\ Runs(running, KeptIds(batch, queue, active), seq)

-----------------------------------------------------------------------------
(* The first index that passes a test.                                     *)

LEMMA NatMin ==
  ASSUME NEW T, T \subseteq Nat, T # {}
  PROVE  Min(T) \in T /\ \A y \in T : Min(T) <= y
<1>1. PICK x \in T : \A y \in T : ~ (<<y, x>> \in OpToRel(<, Nat))
  BY NatLessThanWellFounded, WFMin, Zenon
<1>2. \A y \in T : x <= y
  <2> TAKE y \in T
  <2>1. y \in Nat /\ x \in Nat
    OBVIOUS
  <2>2. ~ (y < x)
    BY <1>1, <2>1 DEF OpToRel
  <2> QED BY <2>1, <2>2
<1> QED BY <1>2 DEF Min

\* findIndex() for the rules that are not cooling down.
First(I) == IF I # {} THEN Min(I) ELSE 0

LEMMA FirstIs ==
  ASSUME NEW n \in Nat, NEW I, I \subseteq 1..n
  PROVE  /\ First(I) \in 0..n
         /\ First(I) = 0 => I = {}
         /\ First(I) # 0 => First(I) \in I /\ \A k \in I : First(I) <= k
<1>1. CASE I = {}
  BY <1>1 DEF First
<1>2. CASE I # {}
  <2>1. I \subseteq Nat
    OBVIOUS
  <2>2. Min(I) \in I /\ \A y \in I : Min(I) <= y
    BY <1>2, <2>1, NatMin
  <2>3. First(I) = Min(I)
    BY <1>2 DEF First
  <2>4. First(I) \in I /\ \A y \in I : First(I) <= y
    BY <2>2, <2>3, Zenon
  <2>5. First(I) \in 1..n
    BY <2>4
  <2>6. First(I) # 0 /\ First(I) \in 0..n
    BY <2>5
  <2> QED BY <2>4, <2>6, Zenon
<1> QED BY <1>1, <1>2

\* request() puts the request before the first of a lower priority.
LEMMA InsertIs ==
  ASSUME NEW q \in Seq(Request), NEW r \in Request
  PROVE  \E i \in 1..(Len(q) + 1) :
           /\ Insert(q, r) \in Seq(Request) /\ Len(Insert(q, r)) = Len(q) + 1
           /\ Insert(q, r)[i] = r
           /\ \A j \in 1..(i - 1) : Insert(q, r)[j] = q[j] /\ q[j].prio <= r.prio
           /\ \A j \in i..Len(q) : Insert(q, r)[j + 1] = q[j]
           /\ i <= Len(q) => q[i].prio > r.prio
<1> DEFINE I == {k \in 1..Len(q) : q[k].prio > r.prio}
<1>1. PICK at : at = First(I)
  OBVIOUS
<1>2. Insert(q, r) = IF at = 0 THEN Append(q, r) ELSE InsertAt(q, at, r)
  BY <1>1 DEF Insert, SelectInSeq, First
<1>3. /\ at \in 0..Len(q)
      /\ at = 0 => I = {}
      /\ at # 0 => at \in I /\ \A k \in I : at <= k
  <2>1. Len(q) \in Nat /\ I \subseteq 1..Len(q)
    OBVIOUS
  <2> HIDE DEF I
  <2> QED BY <1>1, <2>1, FirstIs, Zenon
<1>4. \A k \in 1..Len(q) : q[k] \in Request /\ q[k].prio \in {0, 1}
  <2> TAKE k \in 1..Len(q)
  <2>1. q[k] \in Request
    OBVIOUS
  <2> QED BY <2>1 DEF Request
<1>5. r.prio \in {0, 1}
  BY DEF Request
<1>6. CASE at = 0
  <2>1. Insert(q, r) = Append(q, r)
    BY <1>2, <1>6
  <2>2. \A j \in 1..Len(q) : q[j].prio <= r.prio
    BY <1>3, <1>4, <1>5, <1>6
  <2> QED BY <2>1, <2>2
<1>7. CASE at # 0
  <2>1. Insert(q, r) = SubSeq(q, 1, at - 1) \o <<r>> \o SubSeq(q, at, Len(q))
    BY <1>2, <1>7 DEF InsertAt
  <2>2. at \in 1..Len(q) /\ q[at].prio > r.prio
    BY <1>3, <1>7
  <2>3. \A j \in 1..(at - 1) : q[j].prio <= r.prio
    BY <1>3, <1>4, <1>5, <1>7
  <2>4. /\ Insert(q, r) \in Seq(Request) /\ Len(Insert(q, r)) = Len(q) + 1
        /\ Insert(q, r)[at] = r
        /\ \A j \in 1..(at - 1) : Insert(q, r)[j] = q[j]
        /\ \A j \in at..Len(q) : Insert(q, r)[j + 1] = q[j]
    <3> DEFINE s == SubSeq(q, 1, at - 1)
               t == SubSeq(q, at, Len(q))
    <3>1. /\ s \in Seq(Request) /\ Len(s) = at - 1
          /\ \A j \in 1..(at - 1) : s[j] = q[j]
      BY <2>2
    <3>2. /\ t \in Seq(Request) /\ Len(t) = Len(q) - at + 1
          /\ \A j \in at..Len(q) : t[j - at + 1] = q[j]
      BY <2>2
    <3> HIDE DEF s, t
    <3>3. Insert(q, r) = s \o <<r>> \o t
      BY <2>1 DEF s, t
    <3> DEFINE u == s \o <<r>>
    <3>4. /\ u \in Seq(Request) /\ Len(u) = at /\ u[at] = r
          /\ \A j \in 1..(at - 1) : u[j] = q[j]
      BY <2>2, <3>1
    <3> HIDE DEF u
    <3>5. Insert(q, r) = u \o t
      BY <3>3 DEF u
    <3>6. /\ u \o t \in Seq(Request) /\ Len(u \o t) = Len(q) + 1
          /\ \A j \in 1..at : (u \o t)[j] = u[j]
      BY <2>2, <3>2, <3>4
    <3>7. \A j \in at..Len(q) : (u \o t)[j + 1] = q[j]
      <4> TAKE j \in at..Len(q)
      <4>1. (u \o t)[j + 1] = t[j - at + 1]
        BY <2>2, <3>2, <3>4
      <4> QED BY <3>2, <4>1
    <3> QED BY <2>2, <3>4, <3>5, <3>6, <3>7
  <2> QED BY <2>2, <2>3, <2>4
<1> QED BY <1>6, <1>7

-----------------------------------------------------------------------------
(* The engine.                                                             *)

LEMMA InsertOnce ==
  ASSUME NEW q \in Seq(Request), NEW r \in Request,
         QueueOnce(q), ToSet(r.events) \cap QueueIds(q) = {}
  PROVE  /\ QueueOnce(Insert(q, r))
         /\ QueueIds(Insert(q, r)) = QueueIds(q) \cup ToSet(r.events)
<1>1. PICK i \in 1..(Len(q) + 1) :
        /\ Insert(q, r) \in Seq(Request) /\ Len(Insert(q, r)) = Len(q) + 1
        /\ Insert(q, r)[i] = r
        /\ \A j \in 1..(i - 1) : Insert(q, r)[j] = q[j] /\ q[j].prio <= r.prio
        /\ \A j \in i..Len(q) : Insert(q, r)[j + 1] = q[j]
        /\ i <= Len(q) => q[i].prio > r.prio
  BY InsertIs
<1>2. PICK s : s = Insert(q, r)
  OBVIOUS
<1> DEFINE From(j) == IF j < i THEN j ELSE j - 1
<1>3. DOMAIN s = 1..(Len(q) + 1) /\ DOMAIN q = 1..Len(q) /\ s[i] = r
  BY <1>1, <1>2
<1>4. \A j \in DOMAIN s : j # i => From(j) \in DOMAIN q /\ s[j] = q[From(j)]
  <2> TAKE j \in DOMAIN s
  <2> HAVE j # i
  <2>1. CASE j < i
    BY <1>1, <1>2, <1>3, <2>1
  <2>2. CASE j > i
    <3>1. j - 1 \in i..Len(q) /\ (j - 1) + 1 = j
      BY <1>3, <2>2
    <3>2. s[j] = q[j - 1]
      BY <1>1, <1>2, <3>1
    <3> QED BY <1>3, <2>2, <3>1, <3>2
  <2> QED BY <1>3, <2>1, <2>2
<1>5. \A j, k \in DOMAIN s : j # k /\ j # i /\ k # i => From(j) # From(k)
  BY <1>3
<1>6. \A j \in DOMAIN q : \E k \in DOMAIN s : s[k] = q[j]
  <2> TAKE j \in DOMAIN q
  <2>1. CASE j < i
    BY <1>1, <1>2, <1>3, <2>1
  <2>2. CASE j >= i
    BY <1>1, <1>2, <1>3, <2>2
  <2> QED BY <1>3, <2>1, <2>2
<1> HIDE DEF From
<1>7. \A j \in DOMAIN q : ToSet(r.events) \cap ToSet(q[j].events) = {}
  BY DEF QueueIds
<1>8. QueueOnce(s)
  <2> SUFFICES ASSUME NEW j \in DOMAIN s, NEW k \in DOMAIN s, j # k
               PROVE  ToSet(s[j].events) \cap ToSet(s[k].events) = {}
    BY DEF QueueOnce
  <2>1. CASE j = i
    BY <1>3, <1>4, <1>7, <2>1
  <2>2. CASE k = i
    BY <1>3, <1>4, <1>7, <2>2
  <2>3. CASE j # i /\ k # i
    BY <1>4, <1>5, <2>3 DEF QueueOnce
  <2> QED BY <2>1, <2>2, <2>3
<1>9. QueueIds(s) \subseteq QueueIds(q) \cup ToSet(r.events)
  BY <1>3, <1>4 DEF QueueIds
<1>10. QueueIds(q) \cup ToSet(r.events) \subseteq QueueIds(s)
  BY <1>3, <1>6 DEF QueueIds
<1> QED BY <1>2, <1>8, <1>9, <1>10

LEMMA InsertOrdered ==
  ASSUME NEW q \in Seq(Request), NEW r \in Request, NEW n \in Nat,
         Ordered(q, n), r.no = n + 1
  PROVE  Ordered(Insert(q, r), n + 1)
<1>1. PICK i \in 1..(Len(q) + 1) :
        /\ Insert(q, r) \in Seq(Request) /\ Len(Insert(q, r)) = Len(q) + 1
        /\ Insert(q, r)[i] = r
        /\ \A j \in 1..(i - 1) : Insert(q, r)[j] = q[j] /\ q[j].prio <= r.prio
        /\ \A j \in i..Len(q) : Insert(q, r)[j + 1] = q[j]
        /\ i <= Len(q) => q[i].prio > r.prio
  BY InsertIs
<1>2. PICK s : s = Insert(q, r)
  OBVIOUS
<1>3. DOMAIN s = 1..(Len(q) + 1) /\ s[i] = r
  BY <1>1, <1>2
<1>4. \A j \in DOMAIN s : j < i => j \in DOMAIN q /\ s[j] = q[j] /\ q[j].prio <= r.prio
  BY <1>1, <1>2, <1>3
<1>5. \A j \in DOMAIN s : j > i => (j - 1) \in DOMAIN q /\ j - 1 >= i /\ s[j] = q[j - 1]
  <2> TAKE j \in DOMAIN s
  <2> HAVE j > i
  <2>1. j - 1 \in i..Len(q) /\ (j - 1) + 1 = j
    BY <1>3
  <2> QED BY <1>1, <1>2, <2>1
<1>6. \A j \in DOMAIN q : q[j].prio \in {0, 1} /\ q[j].no \in Nat /\ q[j].no <= n
  <2> TAKE j \in DOMAIN q
  <2>1. q[j] \in Request
    OBVIOUS
  <2> QED BY <2>1 DEF Request, Ordered
<1>7. r.prio \in {0, 1} /\ r.no = n + 1
  BY DEF Request
<1>8. \A j \in DOMAIN q : j >= i => q[j].prio > r.prio
  <2> TAKE j \in DOMAIN q
  <2> HAVE j >= i
  <2>1. i \in DOMAIN q /\ q[i].prio > r.prio
    BY <1>1
  <2>2. j = i \/ Before(q[i], q[j])
    BY <2>1 DEF Ordered
  <2> QED BY <1>6, <1>7, <2>1, <2>2 DEF Before
<1>9. \A j, k \in DOMAIN s : j < k => Before(s[j], s[k])
  <2> TAKE j, k \in DOMAIN s
  <2> HAVE j < k
  <2>1. CASE k < i
    <3>1. j < i
      BY <1>3, <2>1
    <3>2. j \in DOMAIN q /\ k \in DOMAIN q /\ s[j] = q[j] /\ s[k] = q[k]
      BY <1>4, <2>1, <3>1
    <3> QED BY <3>2 DEF Ordered
  <2>2. CASE k = i
    <3>1. j \in DOMAIN q /\ s[j] = q[j] /\ q[j].prio <= r.prio
      BY <1>4, <2>2
    <3> QED BY <1>3, <1>6, <1>7, <2>2, <3>1 DEF Before
  <2>3. CASE j < i /\ i < k
    <3>1. j \in DOMAIN q /\ k - 1 \in DOMAIN q /\ s[j] = q[j] /\ s[k] = q[k - 1]
      BY <1>4, <1>5, <2>3
    <3>2. j < k - 1
      BY <1>3, <2>3
    <3> QED BY <3>1, <3>2 DEF Ordered
  <2>4. CASE j = i
    <3>1. k - 1 \in DOMAIN q /\ s[k] = q[k - 1] /\ q[k - 1].prio > r.prio
      BY <1>5, <1>8, <2>4
    <3> QED BY <1>3, <1>6, <1>7, <2>4, <3>1 DEF Before
  <2>5. CASE i < j
    <3>1. i < k
      BY <1>3, <2>5
    <3>2. j - 1 \in DOMAIN q /\ k - 1 \in DOMAIN q /\ s[j] = q[j - 1] /\ s[k] = q[k - 1]
      BY <1>5, <2>5, <3>1
    <3>3. j - 1 < k - 1
      BY <1>3
    <3> QED BY <3>2, <3>3 DEF Ordered
  <2> QED BY <1>3, <2>1, <2>2, <2>3, <2>4, <2>5
<1>10. \A k \in DOMAIN s : s[k].no <= n + 1
  <2> TAKE k \in DOMAIN s
  <2>1. CASE k < i
    BY <1>4, <1>6, <2>1
  <2>2. CASE k = i
    BY <1>3, <1>7, <2>2
  <2>3. CASE k > i
    BY <1>5, <1>6, <2>3
  <2> QED BY <1>3, <2>1, <2>2, <2>3
<1> QED BY <1>2, <1>9, <1>10 DEF Ordered

LEMMA AskIs ==
  ASSUME EngineSafe(queue, active, asked),
         NEW prio \in {0, 1}, NEW evs \in Seq(Ids),
         ToSet(evs) \cap EngineIds(queue, active) = {}, Ask(prio, evs)
  PROVE  /\ EngineSafe(queue', active', asked')
         /\ EngineIds(queue', active') = EngineIds(queue, active) \cup ToSet(evs)
<1> DEFINE r == [prio |-> prio, no |-> asked + 1, events |-> evs]
<1>1. /\ queue \in Seq(Request) /\ active \in Request \cup {Idle} /\ asked \in Nat
      /\ Ordered(queue, asked) /\ (active = Idle => queue = <<>>)
      /\ QueueOnce(queue) /\ QueueIds(queue) \cap ToSet(active.events) = {}
  BY DEF EngineSafe, Engine, EngineOnce
<1>2. r \in Request /\ r.no = asked + 1 /\ r.events = evs /\ r # Idle
  BY <1>1 DEF Request, Ids, Idle
<1>3. asked' = asked + 1 /\ asked' \in Nat
  BY <1>1 DEF Ask
<1>4. \/ active = Idle /\ active' = Head(Insert(queue, r)) /\ queue' = Tail(Insert(queue, r))
      \/ active # Idle /\ queue' = Insert(queue, r) /\ active' = active
  BY DEF Ask
<1> HIDE DEF r
<1>5. CASE active = Idle
  <2>1. Len(queue) = 0
    BY <1>1, <1>5
  <2>2. PICK i \in 1..(Len(queue) + 1) :
          /\ Insert(queue, r) \in Seq(Request) /\ Len(Insert(queue, r)) = Len(queue) + 1
          /\ Insert(queue, r)[i] = r
    BY <1>1, <1>2, InsertIs
  <2>3. i = 1 /\ Len(Insert(queue, r)) = 1
    BY <2>1, <2>2
  <2>4. active' = r /\ queue' = <<>>
    BY <1>4, <1>5, <2>2, <2>3
  <2>5. QueueIds(queue) = {} /\ QueueIds(queue') = {}
    BY <1>1, <1>5, <2>4 DEF QueueIds
  <2>6. ToSet(active.events) = {}
    BY <1>5 DEF Idle, ToSet
  <2>7. Engine(queue', active', asked') /\ EngineOnce(queue', active')
    BY <1>2, <2>4, <2>5 DEF Engine, Ordered, EngineOnce, QueueOnce
  <2>8. EngineSafe(queue', active', asked')
    BY <1>2, <1>3, <2>4, <2>7 DEF EngineSafe
  <2> QED BY <1>2, <2>4, <2>5, <2>6, <2>8 DEF EngineIds
<1>6. CASE active # Idle
  <2>1. queue' = Insert(queue, r) /\ active' = active
    BY <1>4, <1>6
  <2>2. ToSet(r.events) \cap QueueIds(queue) = {} /\ ToSet(r.events) \cap ToSet(active.events) = {}
    BY <1>2 DEF EngineIds
  <2>3. QueueOnce(queue') /\ QueueIds(queue') = QueueIds(queue) \cup ToSet(r.events)
    BY <1>1, <1>2, <2>1, <2>2, InsertOnce
  <2>4. Ordered(queue', asked')
    BY <1>1, <1>2, <1>3, <2>1, InsertOrdered
  <2>5. queue' \in Seq(Request)
    BY <1>1, <1>2, <2>1, InsertIs
  <2>6. EngineOnce(queue', active')
    BY <1>1, <2>1, <2>2, <2>3 DEF EngineOnce
  <2>7. EngineSafe(queue', active', asked')
    BY <1>1, <1>3, <1>6, <2>1, <2>4, <2>5, <2>6 DEF EngineSafe, Engine
  <2> QED BY <1>2, <2>1, <2>3, <2>7 DEF EngineIds
<1> QED BY <1>5, <1>6

LEMMA ThoughtIs ==
  ASSUME EngineSafe(queue, active, asked), Thought
  PROVE  /\ EngineSafe(queue', active', asked')
         /\ EngineIds(queue', active') \subseteq EngineIds(queue, active)
<1>1. /\ queue \in Seq(Request) /\ active \in Request \cup {Idle} /\ asked \in Nat
      /\ Ordered(queue, asked) /\ QueueOnce(queue)
  BY DEF EngineSafe, Engine, EngineOnce
<1>2. asked' = asked
  BY DEF Thought
<1>3. CASE queue = <<>>
  <2>1. active' = Idle /\ queue' = queue
    BY <1>3 DEF Thought
  <2>2. QueueIds(queue') = {} /\ ToSet(active'.events) = {}
    BY <1>3, <2>1 DEF QueueIds, Idle, ToSet
  <2> QED BY <1>1, <1>2, <1>3, <2>1, <2>2 DEF EngineSafe, Engine, EngineOnce, EngineIds
<1>4. CASE queue # <<>>
  <2>1. active' = queue[1] /\ queue' = Tail(queue)
    BY <1>1, <1>4 DEF Thought
  <2>2. /\ Len(queue) >= 1 /\ queue' \in Seq(Request) /\ DOMAIN queue' = 1..(Len(queue) - 1)
        /\ DOMAIN queue = 1..Len(queue)
        /\ \A k \in DOMAIN queue' : queue'[k] = queue[k + 1]
    BY <1>1, <1>4, <2>1
  <2>3. \A k \in DOMAIN queue' : k + 1 \in DOMAIN queue /\ k + 1 # 1
    BY <2>2
  <2>4. 1 \in DOMAIN queue /\ queue[1] \in Request
    BY <1>1, <2>2
  <2>5. \A k \in DOMAIN queue' : ToSet(queue'[k].events) \cap ToSet(active'.events) = {}
    BY <1>1, <2>1, <2>2, <2>3, <2>4 DEF QueueOnce
  <2>6. \A j, k \in DOMAIN queue' : j # k => j + 1 # k + 1
    BY <2>2
  <2>7. QueueOnce(queue')
    BY <1>1, <2>2, <2>3, <2>6 DEF QueueOnce
  <2>8. EngineOnce(queue', active')
    BY <2>5, <2>7 DEF EngineOnce, QueueIds
  <2>9. \A j, k \in DOMAIN queue' : j < k => j + 1 < k + 1
    BY <2>2
  <2>10. Ordered(queue', asked')
    BY <1>1, <1>2, <2>2, <2>3, <2>9 DEF Ordered
  <2>11. active' # Idle
    BY <2>1, <2>4 DEF Request, Idle
  <2>12. EngineSafe(queue', active', asked')
    BY <1>1, <1>2, <2>1, <2>2, <2>4, <2>8, <2>10, <2>11 DEF EngineSafe, Engine
  <2>13. EngineIds(queue', active') \subseteq QueueIds(queue)
    BY <2>1, <2>2, <2>3, <2>4 DEF EngineIds, QueueIds
  <2> QED BY <2>12, <2>13 DEF EngineIds
<1> QED BY <1>3, <1>4

-----------------------------------------------------------------------------
(* The batcher.                                                            *)

LEMMA FireIs ==
  ASSUME EngineSafe(queue, active, asked), NEW b \in Seq(Waiting),
         BatchIds(b) \cap EngineIds(queue, active) = {}, Fire(b)
  PROVE  /\ Kept(batch', window', queue', active', asked')
         /\ KeptIds(batch', queue', active') = BatchIds(b) \cup EngineIds(queue, active)
<1> DEFINE evs == [k \in DOMAIN b |-> b[k].id]
<1>1. \A k \in 1..Len(b) : b[k].id \in Ids
  <2> TAKE k \in 1..Len(b)
  <2>1. b[k] \in Waiting
    OBVIOUS
  <2> QED BY <2>1 DEF Waiting, Ids
<1>2. evs \in Seq(Ids)
  BY <1>1
<1>3. ToSet(evs) = BatchIds(b)
  BY DEF ToSet, BatchIds
<1>4. Ask(1, evs) /\ batch' = <<>> /\ window' = {}
  BY DEF Fire
<1> HIDE DEF evs
<1>5. /\ EngineSafe(queue', active', asked')
      /\ EngineIds(queue', active') = EngineIds(queue, active) \cup ToSet(evs)
  BY <1>2, <1>3, <1>4, AskIs
<1>6. BatchSafe(batch', window') /\ BatchIds(batch') = {}
  BY <1>4 DEF BatchSafe, BatchOnce, Timed, BatchIds
<1> QED BY <1>3, <1>5, <1>6 DEF Kept, KeptIds

\* The batch with one more event.
LEMMA AppendIs ==
  ASSUME NEW b \in Seq(Waiting), NEW x \in Waiting,
         BatchOnce(b), Timed(b), x.id \notin BatchIds(b), x.waited = 0
  PROVE  /\ Append(b, x) \in Seq(Waiting) /\ BatchOnce(Append(b, x))
         /\ Timed(Append(b, x))
         /\ BatchIds(Append(b, x)) = BatchIds(b) \cup {x.id}
<1>1. PICK c : c = Append(b, x)
  OBVIOUS
<1>2. /\ c \in Seq(Waiting) /\ Len(c) = Len(b) + 1 /\ c[Len(b) + 1] = x
      /\ DOMAIN c = 1..(Len(b) + 1) /\ DOMAIN b = 1..Len(b) /\ Len(b) \in Nat
      /\ \A k \in DOMAIN b : c[k] = b[k]
  BY <1>1
<1>3. \A k \in DOMAIN c : (k \in DOMAIN b /\ c[k] = b[k]) \/ (k = Len(b) + 1 /\ c[k] = x)
  BY <1>2
<1>4. DOMAIN b \subseteq DOMAIN c /\ Len(b) + 1 \in DOMAIN c
  BY <1>2
<1>5. BatchIds(c) = BatchIds(b) \cup {x.id}
  BY <1>2, <1>3, <1>4 DEF BatchIds
<1>6. BatchOnce(c)
  BY <1>3 DEF BatchOnce, BatchIds
<1>7. \A k \in DOMAIN c : c[k].age \in Nat /\ c[k].waited \in Nat
  <2> TAKE k \in DOMAIN c
  <2>1. c[k] \in Waiting
    BY <1>2
  <2> QED BY <2>1 DEF Waiting
<1>8. \A k \in DOMAIN c : c[k].waited <= c[k].age /\ c[k].waited <= c[1].waited
  <2> TAKE k \in DOMAIN c
  <2>1. 1 \in DOMAIN c
    BY <1>2
  <2>2. CASE k \in DOMAIN b
    <3>1. 1 \in DOMAIN b
      BY <1>2, <2>2
    <3> QED BY <1>2, <2>2, <3>1 DEF Timed
  <2>3. CASE k = Len(b) + 1
    BY <1>2, <1>7, <2>1, <2>3
  <2> QED BY <1>3, <2>2, <2>3
<1>9. MaxWait > 0 => \A k \in DOMAIN c : c[k].waited < MaxWait
  BY <1>3, DispatchAssumption DEF Timed
<1>10. c[Len(c)].waited < IF Quiet > 0 THEN Quiet ELSE 1
  BY <1>2, DispatchAssumption
<1>11. Timed(c)
  BY <1>8, <1>9, <1>10 DEF Timed
<1> QED BY <1>1, <1>2, <1>5, <1>6, <1>11

LEMMA PushIs ==
  ASSUME Kept(batch, window, queue, active, asked),
         NEW e \in Event, e.id \notin KeptIds(batch, queue, active), Push(e)
  PROVE  /\ Kept(batch', window', queue', active', asked')
         /\ KeptIds(batch', queue', active') \subseteq KeptIds(batch, queue, active) \cup {e.id}
<1>1. BatchSafe(batch, window) /\ EngineSafe(queue, active, asked)
  BY DEF Kept
<1>2. CASE UNCHANGED <<batch, window, queue, active, asked>>
  BY <1>2
<1>3. CASE ~(~(e.kind.collect /\ merge))
  <2> DEFINE x == [id |-> e.id, age |-> e.age, waited |-> 0]
             b == Append(batch, x)
             w == Pruned(window \cup {[id |-> e.id, age |-> e.age]}, e.age)
  <2>1. x \in Waiting /\ x.id = e.id /\ x.waited = 0
    BY DEF Event, Waiting
  <2>2. [id |-> e.id, age |-> e.age] \in Counted
    BY DEF Event, Counted
  <2>3. w \subseteq Counted
    BY <1>1, <2>2 DEF Pruned, BatchSafe
  <2>4. \/ Fire(b)
        \/ batch' = b /\ window' = w /\ AskNothing
    BY <1>3 DEF Push
  <2> HIDE DEF x, w
  <2>5. x.id \notin BatchIds(batch)
    BY <2>1 DEF KeptIds
  <2>6. /\ b \in Seq(Waiting) /\ BatchOnce(b) /\ Timed(b)
        /\ BatchIds(b) = BatchIds(batch) \cup {e.id}
    BY <1>1, <2>1, <2>5, AppendIs DEF BatchSafe
  <2> HIDE DEF b
  <2>7. BatchIds(b) \cap EngineIds(queue, active) = {}
    BY <2>6 DEF Kept, KeptIds
  <2>8. CASE Fire(b)
    <3>1. /\ Kept(batch', window', queue', active', asked')
          /\ KeptIds(batch', queue', active') = BatchIds(b) \cup EngineIds(queue, active)
      BY <1>1, <2>6, <2>7, <2>8, FireIs
    <3> QED BY <2>6, <3>1 DEF KeptIds
  <2>9. CASE batch' = b /\ window' = w /\ AskNothing
    <3>1. UNCHANGED <<queue, active, asked>>
      BY <2>9 DEF AskNothing
    <3>2. BatchSafe(batch', window')
      BY <2>3, <2>6, <2>9 DEF BatchSafe
    <3> QED BY <1>1, <2>6, <2>7, <2>9, <3>1, <3>2 DEF Kept, KeptIds
  <2> QED BY <2>4, <2>8, <2>9
<1> QED BY <1>2, <1>3 DEF Push, AskNothing

\* A tick, whose batch b has aged.
LEMMA TickIs ==
  ASSUME EngineSafe(queue, active, asked),
         NEW b \in Seq(Waiting), NEW w, w \subseteq Counted, BatchOnce(b),
         BatchIds(b) \cap EngineIds(queue, active) = {},
         \A k \in DOMAIN b : b[k].waited <= b[k].age /\ b[k].waited <= b[1].waited,
         TickBatch(b, w)
  PROVE  /\ Kept(batch', window', queue', active', asked')
         /\ KeptIds(batch', queue', active') \subseteq BatchIds(b) \cup EngineIds(queue, active)
<1> DEFINE due == /\ b # <<>> /\ merge
                  /\ \/ MaxWait > 0 /\ Head(b).age >= MaxWait
                     \/ Last(b).age >= Quiet
<1>1. CASE due
  <2>1. Fire(b)
    BY <1>1 DEF TickBatch
  <2> QED BY <2>1, FireIs
<1>2. CASE ~due
  <2>1. batch' = (IF merge THEN b ELSE <<>>) /\ window' = w /\ AskNothing
    BY <1>2 DEF TickBatch
  <2>2. UNCHANGED <<queue, active, asked>>
    BY <2>1 DEF AskNothing
  <2>3. CASE ~merge \/ b = <<>>
    <3>1. batch' = <<>>
      BY <2>1, <2>3
    <3>2. BatchSafe(batch', window') /\ BatchIds(batch') = {}
      BY <2>1, <3>1 DEF BatchSafe, BatchOnce, Timed, BatchIds
    <3> QED BY <2>2, <3>2 DEF Kept, KeptIds
  <2>4. CASE merge /\ b # <<>>
    <3>1. batch' = b
      BY <2>1, <2>4
    <3>2. Len(b) \in DOMAIN b /\ 1 \in DOMAIN b /\ Len(b) \in Nat
      BY <2>4
    <3>3. Head(b) = b[1] /\ Last(b) = b[Len(b)]
      BY <2>4 DEF Last
    <3>4. (MaxWait > 0 => ~(b[1].age >= MaxWait)) /\ ~(b[Len(b)].age >= Quiet)
      BY <1>2, <2>4, <3>3
    <3>5. \A k \in DOMAIN b : b[k].age \in Nat /\ b[k].waited \in Nat
      <4> TAKE k \in DOMAIN b
      <4>1. b[k] \in Waiting
        OBVIOUS
      <4> QED BY <4>1 DEF Waiting
    <3>6. MaxWait > 0 => \A k \in DOMAIN b : b[k].waited < MaxWait
      <4> SUFFICES ASSUME MaxWait > 0, NEW k \in DOMAIN b PROVE b[k].waited < MaxWait
        OBVIOUS
      <4>1. b[k].waited <= b[1].waited /\ b[1].waited <= b[1].age /\ ~(b[1].age >= MaxWait)
        BY <3>2, <3>4
      <4> QED BY <3>2, <3>5, <4>1, DispatchAssumption
    <3>7. b[Len(b)].waited < IF Quiet > 0 THEN Quiet ELSE 1
      <4>1. b[Len(b)].waited <= b[Len(b)].age /\ ~(b[Len(b)].age >= Quiet)
        BY <3>2, <3>4
      <4> QED BY <3>2, <3>5, <4>1, DispatchAssumption
    <3>8. Timed(b)
      BY <3>6, <3>7 DEF Timed
    <3>9. BatchSafe(batch', window')
      BY <2>1, <3>1, <3>8 DEF BatchSafe
    <3> QED BY <2>2, <3>1, <3>9 DEF Kept, KeptIds
  <2> QED BY <2>3, <2>4
<1> QED BY <1>1, <1>2

-----------------------------------------------------------------------------
(* The rules.                                                              *)

LEMMA InstantIs ==
  ASSUME Kept(batch, window, queue, active, asked),
         NEW n \in Nat, NEW e \in Event, e.id \in 1..n,
         NEW S \in [Starts -> Nat], NEW R, R \subseteq Run,
         Runs(R, KeptIds(batch, queue, active), n),
         e.id \notin RunIds(R) \cup KeptIds(batch, queue, active), Instant(e, S, R)
  PROVE  /\ since' \in [Starts -> Nat] /\ running' \subseteq Run
         /\ Kept(batch', window', queue', active', asked')
         /\ Runs(running', KeptIds(batch', queue', active'), n)
<1> DEFINE fit == SelectInSeq(e.kind.rules, LAMBDA r : S[r] >= Cooldown[r])
           r   == e.kind.rules[fit]
           K   == KeptIds(batch, queue, active)
<1>1. e.id \in Ids /\ e.kind.rules \in Seq(Rules)
  BY DispatchAssumption DEF Event, Ids
<1>2. fit \in 0..Len(e.kind.rules)
  <2> DEFINE I == {k \in 1..Len(e.kind.rules) : S[e.kind.rules[k]] >= Cooldown[e.kind.rules[k]]}
  <2>1. fit = First(I)
    BY DEF SelectInSeq, First
  <2>2. Len(e.kind.rules) \in Nat /\ I \subseteq 1..Len(e.kind.rules)
    BY <1>1
  <2> HIDE DEF I, fit
  <2> QED BY <2>1, <2>2, FirstIs, Zenon
<1>3. fit # 0 => r \in Rules
  <2> HIDE DEF fit
  <2> QED BY <1>1, <1>2
<1>4. \A K1 : K1 \subseteq K \cup {e.id} => Runs(R, K1, n)
  BY DEF Runs
<1>5. \/ fit = 0 /\ Push(e) /\ since' = S /\ running' = R
      \/ /\ fit # 0 /\ Ask(0, <<e.id>>) /\ since' = [S EXCEPT ![r] = 0] /\ running' = R
         /\ UNCHANGED <<batch, window>>
      \/ /\ fit # 0 /\ since' = IF Action[r] = "run-ability" THEN [S EXCEPT ![r] = 0] ELSE S
         /\ running' = R \cup {[e |-> e, on |-> r]}
         /\ AskNothing /\ UNCHANGED <<batch, window>>
  BY DEF Instant
<1> HIDE DEF fit, r
<1>6. CASE fit = 0 /\ Push(e) /\ since' = S /\ running' = R
  <2>1. /\ Kept(batch', window', queue', active', asked')
        /\ KeptIds(batch', queue', active') \subseteq K \cup {e.id}
    BY <1>6, PushIs
  <2> HIDE DEF K
  <2> QED BY <1>4, <1>6, <2>1
<1>7. CASE /\ fit # 0 /\ Ask(0, <<e.id>>) /\ since' = [S EXCEPT ![r] = 0] /\ running' = R
           /\ UNCHANGED <<batch, window>>
  <2>1. <<e.id>> \in Seq(Ids) /\ ToSet(<<e.id>>) = {e.id}
    BY <1>1 DEF ToSet
  <2>2. {e.id} \cap EngineIds(queue, active) = {} /\ {e.id} \cap BatchIds(batch) = {}
    BY DEF KeptIds
  <2>3. EngineSafe(queue, active, asked) /\ BatchSafe(batch, window)
    BY DEF Kept
  <2>4. /\ EngineSafe(queue', active', asked')
        /\ EngineIds(queue', active') = EngineIds(queue, active) \cup {e.id}
    BY <1>7, <2>1, <2>2, <2>3, AskIs
  <2>5. Kept(batch', window', queue', active', asked')
    BY <1>7, <2>2, <2>3, <2>4 DEF Kept
  <2>6. KeptIds(batch', queue', active') \subseteq K \cup {e.id}
    BY <1>7, <2>4 DEF KeptIds
  <2>7. since' \in [Starts -> Nat]
    BY <1>7
  <2> HIDE DEF K
  <2> QED BY <1>4, <1>7, <2>5, <2>6, <2>7
<1>8. CASE /\ fit # 0 /\ since' = IF Action[r] = "run-ability" THEN [S EXCEPT ![r] = 0] ELSE S
           /\ running' = R \cup {[e |-> e, on |-> r]}
           /\ AskNothing /\ UNCHANGED <<batch, window>>
  <2>1. UNCHANGED <<batch, window, queue, active, asked>>
    BY <1>8 DEF AskNothing
  <2>2. since' \in [Starts -> Nat]
    BY <1>8
  <2>3. [e |-> e, on |-> r] \in Run
    BY <1>3, <1>8 DEF Run, Starts
  <2>4. RunOnce(running') /\ RunIds(running') = RunIds(R) \cup {e.id}
    <3>1. PICK x : x = [e |-> e, on |-> r]
      OBVIOUS
    <3>2. x.e = e /\ running' = R \cup {x}
      BY <1>8, <3>1
    <3>3. \A d \in R : d.e.id # e.id
      BY DEF RunIds
    <3>4. RunOnce(R)
      BY DEF Runs
    <3> QED BY <3>2, <3>3, <3>4 DEF RunOnce, RunIds
  <2>5. Runs(running', K, n)
    BY <2>4 DEF Runs
  <2> QED BY <1>8, <2>1, <2>2, <2>3, <2>5
<1> QED BY <1>5, <1>6, <1>7, <1>8

-----------------------------------------------------------------------------
(* Every step keeps the invariant.                                         *)

\* What is left when events are done with.
LEMMA RunsLeft ==
  ASSUME NEW R, NEW K, NEW n \in Nat, Runs(R, K, n),
         NEW R1, R1 \subseteq R, NEW K1, K1 \subseteq K, NEW m \in Nat, n <= m
  PROVE  Runs(R1, K1, m)
<1>1. RunIds(R1) \subseteq RunIds(R) /\ RunOnce(R1)
  BY DEF RunIds, RunOnce, Runs
<1> QED BY <1>1 DEF Runs

LEMMA InitInvariant == Init => IInv
<1> SUFFICES ASSUME Init PROVE IInv
  OBVIOUS
<1>1. TypeOK
  BY DispatchAssumption DEF Init, TypeOK
<1>2. EngineSafe(queue, active, asked) /\ EngineIds(queue, active) = {}
  BY DEF Init, EngineSafe, Engine, Ordered, EngineOnce, QueueOnce, EngineIds, QueueIds, Idle, ToSet
<1>3. BatchSafe(batch, window) /\ BatchIds(batch) = {}
  BY DEF Init, BatchSafe, BatchOnce, Timed, BatchIds
<1>4. Runs(running, {}, seq)
  BY DEF Init, Runs, RunOnce, RunIds
<1> QED BY <1>1, <1>2, <1>3, <1>4 DEF IInv, Kept, KeptIds

\* The parts make the invariant of the next state.
LEMMA Together ==
  ASSUME seq' \in Nat, running' \subseteq Run, since' \in [Starts -> Nat],
         merge' \in BOOLEAN, toggles' \in Nat,
         Kept(batch', window', queue', active', asked'),
         Runs(running', KeptIds(batch', queue', active'), seq')
  PROVE  IInv'
BY DEF IInv, TypeOK, Kept, BatchSafe, EngineSafe

\* A new event is one that nobody holds.
LEMMA NewEvent ==
  ASSUME IInv, NEW R, R \subseteq running
  PROVE  LET K == KeptIds(batch, queue, active)
         IN /\ seq + 1 \notin RunIds(R) \cup K /\ seq + 1 \in 1..(seq + 1)
            /\ Runs(R, K, seq + 1) /\ Runs(R, K, seq)
<1>1. seq \in Nat /\ Runs(running, KeptIds(batch, queue, active), seq)
  BY DEF IInv, TypeOK
<1>2. /\ Runs(R, KeptIds(batch, queue, active), seq)
      /\ Runs(R, KeptIds(batch, queue, active), seq + 1)
  BY <1>1, RunsLeft
<1> QED BY <1>1, <1>2 DEF Runs

LEMMA IngestKeeps ==
  ASSUME IInv, NEW k \in Kinds, NEW lag \in 0..MaxLag, Ingest(k, lag) PROVE IInv'
<1> DEFINE K == KeptIds(batch, queue, active)
<1>1. PICK e : e = [id |-> seq + 1, kind |-> k, age |-> lag]
  OBVIOUS
<1>2. /\ seq \in Nat /\ seq' = seq + 1 /\ merge' = merge /\ toggles' = toggles
      /\ merge \in BOOLEAN /\ toggles \in Nat
  BY DEF IInv, TypeOK, Ingest
<1>3. e \in Event /\ e.id = seq + 1
  BY <1>1, <1>2, DispatchAssumption DEF Event
<1>4. /\ e.id \notin RunIds(running) \cup K /\ e.id \in 1..(seq + 1)
      /\ Runs(running, K, seq + 1)
  BY <1>3, NewEvent
<1>5. CASE k.cmd # None /\ Passes(k.cmd)
  <2>1. /\ running' = running \cup {[e |-> e, on |-> k.cmd]}
        /\ UNCHANGED <<since, batch, window, queue, active, asked>>
    BY <1>1, <1>5 DEF Ingest, AskNothing
  <2>2. k.cmd \in Starts
    BY <1>5, DispatchAssumption DEF Starts
  <2>3. PICK x : x = [e |-> e, on |-> k.cmd]
    OBVIOUS
  <2>4. x \in Run /\ x.e = e
    BY <1>3, <2>2, <2>3 DEF Run
  <2>5. \A d \in running : d.e.id # e.id
    BY <1>4 DEF RunIds
  <2>6. RunOnce(running)
    BY <1>4 DEF Runs
  <2>7. RunOnce(running') /\ RunIds(running') = RunIds(running) \cup {e.id}
    BY <2>1, <2>3, <2>4, <2>5, <2>6 DEF RunOnce, RunIds
  <2>8. Runs(running', K, seq + 1)
    BY <1>4, <2>7 DEF Runs
  <2>9. running' \subseteq Run
    BY <2>1, <2>3, <2>4 DEF IInv, TypeOK
  <2> QED BY <1>2, <2>1, <2>8, <2>9, Together DEF IInv, TypeOK
<1>6. CASE ~(k.cmd # None /\ Passes(k.cmd))
  <2>1. Instant(e, since, running)
    BY <1>1, <1>6 DEF Ingest
  <2>2. /\ since \in [Starts -> Nat] /\ running \subseteq Run
        /\ Kept(batch, window, queue, active, asked) /\ seq + 1 \in Nat
    BY <1>2 DEF IInv, TypeOK
  <2>3. /\ since' \in [Starts -> Nat] /\ running' \subseteq Run
        /\ Kept(batch', window', queue', active', asked')
        /\ Runs(running', KeptIds(batch', queue', active'), seq + 1)
    BY <1>3, <1>4, <2>1, <2>2, InstantIs
  <2> QED BY <1>2, <2>2, <2>3, Together
<1> QED BY <1>5, <1>6

LEMMA AnnounceIs ==
  ASSUME IInv, NEW S \in [Starts -> Nat], NEW R, R \subseteq running, Announce(S, R)
  PROVE  /\ seq' \in Nat /\ running' \subseteq Run /\ since' \in [Starts -> Nat]
         /\ Kept(batch', window', queue', active', asked')
         /\ Runs(running', KeptIds(batch', queue', active'), seq')
<1> DEFINE K == KeptIds(batch, queue, active)
<1>1. seq \in Nat /\ R \subseteq Run /\ Kept(batch, window, queue, active, asked)
  BY DEF IInv, TypeOK
<1>2. /\ seq + 1 \notin RunIds(R) \cup K /\ seq + 1 \in 1..(seq + 1)
      /\ Runs(R, K, seq + 1) /\ Runs(R, K, seq)
  BY NewEvent
<1>3. CASE /\ since' = S /\ running' = R
           /\ AskNothing /\ UNCHANGED <<seq, batch, window>>
  BY <1>1, <1>2, <1>3 DEF AskNothing
<1>4. CASE /\ seq' = seq + 1
           /\ \E k \in Kinds :
                /\ k.cmd = None /\ ~k.collect
                /\ Instant([id |-> seq + 1, kind |-> k, age |-> 0], S, R)
  <2>1. PICK k \in Kinds : Instant([id |-> seq + 1, kind |-> k, age |-> 0], S, R)
    BY <1>4
  <2>2. PICK e : e = [id |-> seq + 1, kind |-> k, age |-> 0]
    OBVIOUS
  <2>3. e \in Event /\ e.id = seq + 1 /\ seq + 1 \in Nat
    BY <1>1, <2>2 DEF Event
  <2>4. Instant(e, S, R)
    BY <2>1, <2>2
  <2> QED BY <1>1, <1>2, <1>4, <2>3, <2>4, InstantIs
<1> QED BY <1>3, <1>4 DEF Announce

LEMMA AnswerKeeps ==
  ASSUME IInv, NEW d \in running, CommandDone(d) \/ RuleDone(d) \/ RuleFails(d)
  PROVE  IInv'
<1> DEFINE R == running \ {d}
           K == KeptIds(batch, queue, active)
<1>1. /\ R \subseteq running /\ R \subseteq Run /\ since \in [Starts -> Nat] /\ d \in Run
      /\ merge' = merge /\ toggles' = toggles /\ merge \in BOOLEAN /\ toggles \in Nat
      /\ seq \in Nat
  BY DEF IInv, TypeOK, CommandDone, RuleDone, RuleFails
<1>2. CASE CommandDone(d) \/ RuleDone(d)
  <2>1. PICK S \in [Starts -> Nat] : Announce(S, R)
    <3>1. CASE CommandDone(d)
      <4>1. [since EXCEPT ![d.on] = 0] \in [Starts -> Nat]
        BY <1>1
      <4> QED BY <3>1, <4>1 DEF CommandDone
    <3>2. CASE RuleDone(d)
      <4>1. PICK sent \in BOOLEAN :
              Announce(IF sent /\ Action[d.on] = "send-text"
                         THEN [since EXCEPT ![d.on] = 0] ELSE since, R)
        BY <3>2 DEF RuleDone
      <4>2. (IF sent /\ Action[d.on] = "send-text"
               THEN [since EXCEPT ![d.on] = 0] ELSE since) \in [Starts -> Nat]
        BY <1>1
      <4> QED BY <4>1, <4>2
    <3> QED BY <1>2, <3>1, <3>2
  <2> HIDE DEF R
  <2>2. /\ seq' \in Nat /\ running' \subseteq Run /\ since' \in [Starts -> Nat]
        /\ Kept(batch', window', queue', active', asked')
        /\ Runs(running', KeptIds(batch', queue', active'), seq')
    BY <1>1, <2>1, AnnounceIs
  <2> QED BY <1>1, <2>2, Together
<1>3. CASE RuleFails(d)
  <2>1. running' = R /\ Push(d.e) /\ since' = since /\ seq' = seq
    BY <1>3 DEF RuleFails
  <2>2. d.e \in Event
    BY <1>1 DEF Run
  <2>3. Runs(running, K, seq) /\ Runs(R, K, seq)
    BY <1>1, NewEvent
  <2>4. d.e.id \in RunIds(running) /\ d.e.id \notin RunIds(R)
    BY <2>3 DEF Runs, RunOnce, RunIds
  <2>5. d.e.id \notin K /\ d.e.id \in 1..seq
    BY <2>3, <2>4 DEF Runs
  <2>6. Kept(batch, window, queue, active, asked)
    BY DEF IInv
  <2>7. /\ Kept(batch', window', queue', active', asked')
        /\ KeptIds(batch', queue', active') \subseteq K \cup {d.e.id}
    BY <2>1, <2>2, <2>5, <2>6, PushIs
  <2> HIDE DEF R, K
  <2>8. Runs(running', KeptIds(batch', queue', active'), seq')
    BY <2>1, <2>3, <2>4, <2>5, <2>7 DEF Runs
  <2> QED BY <1>1, <2>1, <2>7, <2>8, Together
<1> QED BY <1>2, <1>3

LEMMA ManualKeeps == ASSUME IInv, Manual PROVE IInv'
<1> DEFINE K == KeptIds(batch, queue, active)
<1>1. /\ seq \in Nat /\ seq' = seq + 1 /\ Ask(1, <<seq + 1>>)
      /\ UNCHANGED <<running, since, merge, toggles, batch, window>>
  BY DEF IInv, TypeOK, Manual
<1>2. /\ seq + 1 \notin RunIds(running) \cup K /\ seq + 1 \in 1..(seq + 1)
      /\ Runs(running, K, seq + 1)
  BY NewEvent
<1>3. <<seq + 1>> \in Seq(Ids) /\ ToSet(<<seq + 1>>) = {seq + 1}
  BY <1>1 DEF Ids, ToSet
<1>4. EngineSafe(queue, active, asked) /\ BatchSafe(batch, window)
  BY DEF IInv, Kept
<1>5. {seq + 1} \cap EngineIds(queue, active) = {} /\ {seq + 1} \cap BatchIds(batch) = {}
  BY <1>2 DEF KeptIds
<1>6. /\ EngineSafe(queue', active', asked')
      /\ EngineIds(queue', active') = EngineIds(queue, active) \cup {seq + 1}
  BY <1>1, <1>3, <1>4, <1>5, AskIs
<1>7. Kept(batch', window', queue', active', asked')
  BY <1>1, <1>4, <1>5, <1>6 DEF IInv, Kept
<1>8. KeptIds(batch', queue', active') = K \cup {seq + 1}
  BY <1>1, <1>6 DEF KeptIds
<1>9. Runs(running', KeptIds(batch', queue', active'), seq')
  <2> HIDE DEF K
  <2> QED BY <1>1, <1>2, <1>8 DEF Runs
<1> QED BY <1>1, <1>7, <1>9, Together DEF IInv, TypeOK

LEMMA ThoughtKeeps == ASSUME IInv, Thought PROVE IInv'
<1>1. /\ seq \in Nat /\ UNCHANGED <<seq, running, since, merge, toggles, batch, window>>
      /\ BatchSafe(batch, window) /\ EngineSafe(queue, active, asked)
  BY DEF IInv, TypeOK, Kept, Thought
<1>2. /\ EngineSafe(queue', active', asked')
      /\ EngineIds(queue', active') \subseteq EngineIds(queue, active)
  BY <1>1, ThoughtIs
<1>3. Kept(batch', window', queue', active', asked')
  BY <1>1, <1>2 DEF IInv, Kept
<1>4. KeptIds(batch', queue', active') \subseteq KeptIds(batch, queue, active)
  BY <1>1, <1>2 DEF KeptIds
<1>5. Runs(running', KeptIds(batch', queue', active'), seq')
  BY <1>1, <1>4, RunsLeft DEF IInv
<1> QED BY <1>1, <1>3, <1>5, Together DEF IInv, TypeOK

LEMMA TickKeeps == ASSUME IInv, Tick PROVE IInv'
<1>1. /\ seq \in Nat /\ running \subseteq Run /\ since \in [Starts -> Nat]
      /\ batch \in Seq(Waiting) /\ window \subseteq Counted
      /\ EngineSafe(queue, active, asked) /\ BatchOnce(batch) /\ Timed(batch)
      /\ BatchIds(batch) \cap EngineIds(queue, active) = {}
  BY DEF IInv, TypeOK, Kept, BatchSafe
<1>2. \A a \in Nat : Older(a) \in Nat
  BY DEF Older
<1>3. \A a, c \in Nat : a <= c => Older(a) <= Older(c)
  BY DispatchAssumption DEF Older
<1> DEFINE Aged(k) == [id |-> batch[k].id, age |-> Older(batch[k].age),
                       waited |-> Older(batch[k].waited)]
<1>4. PICK b : b = [k \in DOMAIN batch |-> Aged(k)]
  OBVIOUS
<1>5. PICK w : w = {[id |-> x.id, age |-> Older(x.age)] : x \in window}
  OBVIOUS
<1>6. TickBatch(b, w)
  BY <1>4, <1>5 DEF Tick
<1>7. \A k \in DOMAIN batch : /\ batch[k].id \in Ids
                              /\ batch[k].age \in Nat /\ batch[k].waited \in Nat
  <2> TAKE k \in DOMAIN batch
  <2>1. batch[k] \in Waiting
    BY <1>1
  <2> QED BY <2>1 DEF Waiting, Ids
<1>8. /\ DOMAIN b = DOMAIN batch
      /\ \A k \in DOMAIN batch : /\ b[k].id = batch[k].id /\ b[k].age = Older(batch[k].age)
                                 /\ b[k].waited = Older(batch[k].waited)
  BY <1>4
<1>9. b \in Seq(Waiting)
  <2>1. \A k \in DOMAIN batch : Aged(k) \in Waiting
    BY <1>2, <1>7 DEF Waiting, Ids
  <2> HIDE DEF Aged
  <2> QED BY <1>1, <1>4, <2>1
<1>10. w \subseteq Counted
  BY <1>1, <1>2, <1>5 DEF Counted
<1>11. BatchOnce(b) /\ BatchIds(b) = BatchIds(batch)
  BY <1>1, <1>8 DEF BatchOnce, BatchIds
<1>12. \A k \in DOMAIN b : b[k].waited <= b[k].age /\ b[k].waited <= b[1].waited
  <2> TAKE k \in DOMAIN b
  <2>1. k \in DOMAIN batch /\ 1 \in DOMAIN batch
    BY <1>1, <1>8
  <2>2. batch[k].waited <= batch[k].age /\ batch[k].waited <= batch[1].waited
    BY <1>1, <2>1 DEF Timed
  <2> QED BY <1>3, <1>7, <1>8, <2>1, <2>2
<1>13. /\ Kept(batch', window', queue', active', asked')
       /\ KeptIds(batch', queue', active') \subseteq KeptIds(batch, queue, active)
  <2>1. BatchIds(b) \cap EngineIds(queue, active) = {}
    BY <1>1, <1>11
  <2> QED BY <1>1, <1>6, <1>9, <1>10, <1>11, <1>12, <2>1, TickIs DEF KeptIds
<1> DEFINE Turn(d) == [e |-> [id |-> d.e.id, kind |-> d.e.kind, age |-> d.e.age + 1], on |-> d.on]
<1>14. running' = {Turn(d) : d \in running}
  BY DEF Tick
<1>15. \A d \in running : Turn(d) \in Run /\ Turn(d).e.id = d.e.id
  <2> TAKE d \in running
  <2>1. d.e \in Event /\ d.on \in Starts
    BY <1>1 DEF Run
  <2>2. [id |-> d.e.id, kind |-> d.e.kind, age |-> d.e.age + 1] \in Event
    BY <2>1 DEF Event
  <2> QED BY <2>1, <2>2 DEF Run
<1> HIDE DEF Turn
<1>16. running' \subseteq Run /\ RunIds(running') = RunIds(running)
  BY <1>14, <1>15 DEF RunIds
<1>17. RunOnce(running')
  <2>1. RunOnce(running)
    BY DEF IInv, Runs
  <2> QED BY <1>14, <1>15, <2>1 DEF RunOnce
<1>18. Runs(running', KeptIds(batch', queue', active'), seq)
  BY <1>13, <1>16, <1>17 DEF IInv, Runs
<1>19. since' \in [Starts -> Nat]
  BY <1>1, <1>2 DEF Tick
<1>20. UNCHANGED <<seq, merge, toggles>> /\ merge \in BOOLEAN /\ toggles \in Nat
  BY DEF Tick, IInv, TypeOK
<1> QED BY <1>1, <1>13, <1>16, <1>18, <1>19, <1>20, Together

LEMMA NextKeeps == IInv /\ [Next]_vars => IInv'
<1> SUFFICES ASSUME IInv, [Next]_vars PROVE IInv'
  OBVIOUS
<1>1. CASE \E k \in Kinds, lag \in 0..MaxLag : Ingest(k, lag)
  BY <1>1, IngestKeeps
<1>2. CASE Answer
  BY <1>2, AnswerKeeps DEF Answer
<1>3. CASE ToggleMerge
  <2>1. /\ merge' \in BOOLEAN /\ toggles' \in Nat
        /\ UNCHANGED <<seq, running, since, batch, window, queue, active, asked>>
    BY <1>3 DEF ToggleMerge, IInv, TypeOK
  <2> QED BY <2>1, Together DEF IInv, TypeOK
<1>4. CASE UNCHANGED vars
  <2>1. /\ UNCHANGED <<seq, running, since, merge, toggles>>
        /\ UNCHANGED <<batch, window, queue, active, asked>>
    BY <1>4 DEF vars
  <2> QED BY <2>1, Together DEF IInv, TypeOK
<1> QED BY <1>1, <1>2, <1>3, <1>4, ManualKeeps, TickKeeps, ThoughtKeeps DEF Next

-----------------------------------------------------------------------------
(* Only the end of a thought takes a request of several.                   *)

LEMMA AskTakes ==
  ASSUME active = Idle => queue = <<>>, NEW prio, NEW evs, Ask(prio, evs)
  PROVE  active' = active \/ queue' = <<>>
<1> DEFINE r == [prio |-> prio, no |-> asked + 1, events |-> evs]
<1>1. Insert(<<>>, r) = <<r>>
  <2>1. {k \in 1..Len(<<>>) : <<>>[k].prio > r.prio} = {}
    OBVIOUS
  <2>2. SelectInSeq(<<>>, LAMBDA x : x.prio > r.prio) = 0
    BY <2>1 DEF SelectInSeq
  <2> HIDE DEF r
  <2> QED BY <2>2 DEF Insert
<1>2. active # Idle => active' = active
  BY DEF Ask
<1>3. active = Idle => queue' = Tail(Insert(<<>>, r))
  BY DEF Ask
<1> HIDE DEF r
<1>4. Tail(<<r>>) = <<>>
  OBVIOUS
<1> QED BY <1>1, <1>2, <1>3, <1>4

LEMMA PushTakes ==
  ASSUME active = Idle => queue = <<>>, NEW e, Push(e)
  PROVE  active' = active \/ queue' = <<>>
<1>1. ASSUME NEW b, Fire(b) PROVE active' = active \/ queue' = <<>>
  BY <1>1, AskTakes DEF Fire
<1>2. AskNothing \/ \E b : Fire(b)
  BY DEF Push
<1> QED BY <1>1, <1>2 DEF AskNothing

LEMMA InstantTakes ==
  ASSUME active = Idle => queue = <<>>, NEW e, NEW S, NEW R, Instant(e, S, R)
  PROVE  active' = active \/ queue' = <<>>
<1>1. Push(e) \/ Ask(0, <<e.id>>) \/ AskNothing
  BY DEF Instant
<1> QED BY <1>1, PushTakes, AskTakes DEF AskNothing

LEMMA OnlyThoughtTakes ==
  ASSUME active = Idle => queue = <<>>, Next
  PROVE  Thought \/ active' = active \/ queue' = <<>>
<1>1. CASE \E k \in Kinds, lag \in 0..MaxLag : Ingest(k, lag)
  <2>1. PICK k \in Kinds, lag \in 0..MaxLag : Ingest(k, lag)
    BY <1>1
  <2>2. AskNothing \/ Instant([id |-> seq + 1, kind |-> k, age |-> lag], since, running)
    BY <2>1 DEF Ingest
  <2> QED BY <2>2, InstantTakes DEF AskNothing
<1>2. ASSUME NEW S, NEW R, Announce(S, R) PROVE active' = active \/ queue' = <<>>
  <2>1. AskNothing \/ \E k \in Kinds : Instant([id |-> seq + 1, kind |-> k, age |-> 0], S, R)
    BY <1>2 DEF Announce
  <2> QED BY <2>1, InstantTakes DEF AskNothing
<1>3. CASE Answer
  <2>1. PICK d \in running : CommandDone(d) \/ RuleDone(d) \/ RuleFails(d)
    BY <1>3 DEF Answer
  <2>2. (\E S, R : Announce(S, R)) \/ Push(d.e)
    BY <2>1 DEF CommandDone, RuleDone, RuleFails
  <2> QED BY <1>2, <2>2, PushTakes
<1>4. CASE Manual
  BY <1>4, AskTakes DEF Manual
<1>5. CASE ToggleMerge
  BY <1>5 DEF ToggleMerge
<1>6. CASE Tick
  <2>1. AskNothing \/ \E b : Fire(b)
    BY <1>6 DEF Tick, TickBatch
  <2>2. ASSUME NEW b, Fire(b) PROVE active' = active \/ queue' = <<>>
    BY <2>2, AskTakes DEF Fire
  <2> QED BY <2>1, <2>2 DEF AskNothing
<1> QED BY <1>1, <1>3, <1>4, <1>5, <1>6 DEF Next

-----------------------------------------------------------------------------
(* The theorems.                                                           *)

\* The inductive invariant holds from an event's dispatch (index.ts) to the
\* cognition engine, whatever the events, the rules and the settings are.
THEOREM Invariance == Spec => []IInv
<1>1. Init => IInv
  BY InitInvariant
<1>2. IInv /\ [Next]_vars => IInv'
  BY NextKeeps
<1> QED BY <1>1, <1>2, PTL DEF Spec

\* An event is never both acted on by a command or rule and thought about,
\* nor thought about twice.
THEOREM EveryEventOnce == Spec => []Safe
<1>1. IInv => Safe
  <2> SUFFICES ASSUME IInv PROVE OnlyOnce
    BY DEF IInv, Safe
  <2>1. /\ RunOnce(running) /\ RunIds(running) \cap KeptIds(batch, queue, active) = {}
        /\ BatchOnce(batch) /\ QueueOnce(queue)
        /\ QueueIds(queue) \cap ToSet(active.events) = {}
        /\ BatchIds(batch) \cap EngineIds(queue, active) = {}
    BY DEF IInv, Runs, Kept, BatchSafe, EngineSafe, EngineOnce
  <2>2. Held = <<RunIds(running), BatchIds(batch), QueueIds(queue), ToSet(active.events)>>
    BY DEF Held, RunIds, BatchIds, QueueIds
  <2>3. \A j, k \in 1..4 : j # k => Held[j] \cap Held[k] = {}
    <3> DEFINE r == RunIds(running)
               b == BatchIds(batch)
               q == QueueIds(queue)
               a == ToSet(active.events)
    <3>1. /\ r \cap b = {} /\ r \cap q = {} /\ r \cap a = {}
          /\ b \cap q = {} /\ b \cap a = {} /\ q \cap a = {}
      BY <2>1 DEF KeptIds, EngineIds
    <3>2. Held[1] = r /\ Held[2] = b /\ Held[3] = q /\ Held[4] = a
      BY <2>2
    <3> HIDE DEF r, b, q, a
    <3>3. \A j \in 1..4 : j = 1 \/ j = 2 \/ j = 3 \/ j = 4
      OBVIOUS
    <3> QED BY <3>1, <3>2, <3>3, Zenon
  <2> QED BY <2>1, <2>3 DEF OnlyOnce, RunOnce, BatchOnce, QueueOnce
<1> QED BY <1>1, Invariance, PTL

\* The batcher fires in time: no event waits for MaxWait in the batch, nor
\* the last one for the quiet time, late events included.
THEOREM NeverLate == Spec => []FiredInTime
<1>1. IInv => FiredInTime
  <2> SUFFICES ASSUME IInv PROVE FiredInTime
    OBVIOUS
  <2>1. Timed(batch) /\ batch \in Seq(Waiting)
    BY DEF IInv, Kept, BatchSafe
  <2>2. Last(batch) = batch[Len(batch)]
    BY DEF Last
  <2> QED BY <2>1, <2>2 DEF Timed, FiredInTime
<1> QED BY <1>1, Invariance, PTL

\* The cognition engine takes the requests of the rules before those of the
\* batcher, and each sort in the order of request().
THEOREM UrgentRequestsFirst == Spec => UrgentFirst
<1> DEFINE First1 == active' # active /\ active' # Idle =>
                       \A k \in DOMAIN queue' :
                         \/ active'.prio < queue'[k].prio
                         \/ active'.prio = queue'[k].prio /\ active'.no < queue'[k].no
<1>1. IInv /\ [Next]_vars => [First1]_vars
  <2> SUFFICES ASSUME IInv, Next, active' # active, active' # Idle, NEW k \in DOMAIN queue'
               PROVE  Before(active', queue'[k])
    BY DEF Before, vars
  <2>1. /\ queue \in Seq(Request) /\ asked \in Nat /\ Ordered(queue, asked)
        /\ active = Idle => queue = <<>>
    BY DEF IInv, Kept, EngineSafe, Engine
  <2>2. CASE Thought
    <3>1. queue # <<>> /\ active' = queue[1] /\ queue' = Tail(queue)
      BY <2>1, <2>2 DEF Thought
    <3>2. 1 \in DOMAIN queue /\ k + 1 \in DOMAIN queue /\ 1 < k + 1 /\ queue'[k] = queue[k + 1]
      BY <2>1, <3>1
    <3> QED BY <2>1, <3>1, <3>2 DEF Ordered
  <2>3. CASE active' = active \/ queue' = <<>>
    BY <2>3
  <2> QED BY <2>1, <2>2, <2>3, OnlyThoughtTakes
<1> QED BY <1>1, Invariance, PTL DEF Spec, UrgentFirst

=============================================================================
