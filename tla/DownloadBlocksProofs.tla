------------------------ MODULE DownloadBlocksProofs ------------------------
(***************************************************************************)
(* Proofs about DownloadBlocks for any range of heights, any number of     *)
(* tasks, any max_q and any maxBackLog.                                    *)
(***************************************************************************)
EXTENDS DownloadBlocks, FiniteSetTheorems, WellFoundedInduction, NaturalsInduction, TLAPS

Message == Height \cup {Success, Errored}

Has(p, x) == \E i \in DOMAIN p : p[i] = x

\* No height is posted twice.
Once(p) == \A i, j \in DOMAIN p : p[i] \in Height /\ p[i] = p[j] => i = j

\* No block follows a success.
SuccessLast(p) ==
  \A i, j \in DOMAIN p : p[i] = Success /\ i < j => p[j] \notin Height

\* How many gets a task whose next height is n has begun.
Gets(t, n) == (n - From(t)) \div NTasks

\* Height n is one the task gets, if it is not above EndHeight.
Follows(t, n) == \E k \in Int : n = From(t) + NTasks * k

\* Of the gets a task has begun, g brought a block, w are under way and the others failed.
\* Those under way or queued (a) are the first one alone, or as many as q_ct says: max_q or
\* all that are left.
CountOK(t, n, g, q, a, w, failed) ==
  LET k == Gets(t, n)
      e == k - (g + w)
  IN /\ n = From(t) + NTasks * k /\ k \in 0..NToDL(t)
     /\ e \in Nat /\ (e > 0 => failed)
     /\ g < NToDL(t) =>
          \/ g = 0 /\ q = 0 /\ a + w + e = 1
          \/ g > 0 /\ q = a + w + e
             /\ q = IF MaxQ < NToDL(t) - g THEN MaxQ ELSE NToDL(t) - g

\* A height that is throttled (T), asked for (A), posted (p) or put aside (B) is in one of these
\* places only, with its owner, which will not get it again.
PlacedOK(t, n, T, A, p, B) ==
  /\ T \cap A = {}
  /\ \A h \in T \cup A : Owns(t, h) /\ h < n /\ ~ Has(p, h) /\ h \notin B
  /\ \A h \in Height : Has(p, h) => Owns(t, h) /\ h < n /\ h \notin B
  /\ \A h \in B : Owns(t, h) => h < n
  /\ Once(p)

\* Every height of the task from m on is put aside, or somewhere with the task that runs.
CoveredOK(t, m, run, n, T, A, p, B) ==
  \A h \in Height :
    Owns(t, h) /\ m <= h => h \in B \/ (run /\ (n <= h \/ h \in T \/ h \in A \/ Has(p, h)))

\* No block was asked for that is above height m.
NearOK(m, A, p, B) == \A h \in Height : h \in A \/ Has(p, h) \/ h \in B => h <= m

Shape ==
  /\ sm \in {"downloading", "finished", "failed", "none"}
  /\ ppBlkHtNext \in Base .. EndHeight + 1 /\ ppBlocks \subseteq Height
  /\ posted \in [Task -> Seq(Message)]
  /\ next \in [Task -> Nat] /\ goodCt \in [Task -> Nat] /\ q_ct \in [Task -> Nat]
  /\ again \in [Task -> Nat]
  /\ throttled \in [Task -> SUBSET Height] /\ asked \in [Task -> SUBSET Height]

UnderWay(t) == Cardinality(throttled[t]) + Cardinality(asked[t])

TaskInv(t) ==
  /\ CountOK(t, next[t], goodCt[t], q_ct[t], again[t], UnderWay(t), Has(posted[t], Errored))
  /\ PlacedOK(t, next[t], throttled[t], asked[t], posted[t], ppBlocks)
  /\ SuccessLast(posted[t])
  /\ Has(posted[t], Success) => goodCt[t] >= NToDL(t)
  /\ sm = "downloading" /\ ~ Has(posted[t], Errored) =>
       CoveredOK(t, ppBlkHtNext, Running(t), next[t], throttled[t], asked[t], posted[t], ppBlocks)
  /\ sm # "none" => NearOK(ppBlkHtNext + MaxBackLog, asked[t], posted[t], ppBlocks)

\* The inductive invariant.
IInv == Shape /\ \A t \in Task : TaskInv(t)

-----------------------------------------------------------------------------
(* Arithmetic.                                                             *)

\* There is a task, and none without a height.
LEMMA Tasks ==
  /\ NTasks \in Nat \ {0} /\ NTasks <= EndHeight - Base + 1
  /\ Base \in Nat /\ EndHeight \in Nat /\ MaxQ \in Nat \ {0} /\ MaxBackLog \in Nat
BY DownloadAssumption DEF NTasks

\* Division with remainder ...
LEMMA Division ==
  ASSUME NEW a \in Int, NEW n \in Nat \ {0}
  PROVE  a \div n \in Int /\ a % n \in 0..n-1 /\ a = n * (a \div n) + (a % n)
OBVIOUS

\* ... has one result.
LEMMA DivisionUnique ==
  ASSUME NEW a \in Int, NEW n \in Nat \ {0}, NEW q \in Int, NEW r \in 0..n-1, a = n * q + r
  PROVE  a \div n = q /\ a % n = r
OBVIOUS

\* The multiples of n.
LEMMA Multiple ==
  ASSUME NEW a \in Int, NEW n \in Nat \ {0}
  PROVE  /\ a % n = 0 => a \div n \in Int /\ a = n * (a \div n)
         /\ \A k \in Int : a = n * k => a % n = 0 /\ a \div n = k
<1>1. a \div n \in Int /\ a = n * (a \div n) + (a % n)
  BY Division
<1>2. a % n = 0 => a = n * (a \div n)
  BY <1>1
<1>3. ASSUME NEW k \in Int, a = n * k PROVE a % n = 0 /\ a \div n = k
  <2>1. a = n * k + 0 /\ 0 \in 0..n-1
    BY <1>3
  <2> QED BY <2>1, DivisionUnique
<1> QED BY <1>1, <1>2, <1>3

\* Multiples of n are at least n apart.
LEMMA Apart ==
  ASSUME NEW n \in Nat \ {0}, NEW p \in Int, NEW q \in Int
  PROVE  n * p \in Int /\ n * q \in Int /\ (p < q => n * p + n <= n * q) /\ n * (p + 1) = n * p + n
OBVIOUS

\* A task owns at least one height, and expectedCt is the number of the gets that begin at or
\* below EndHeight.
LEMMA Expected ==
  ASSUME NEW t \in Task
  PROVE  /\ From(t) \in Nat /\ From(t) <= EndHeight /\ NToDL(t) \in Nat \ {0}
         /\ \A k \in Int : From(t) + NTasks * k <= EndHeight <=> k < NToDL(t)
<1> DEFINE d == EndHeight - From(t) + NTasks
           E == d \div NTasks
           r == d % NTasks
<1>1. t \in Nat /\ From(t) \in Nat /\ From(t) <= EndHeight /\ d \in Int /\ NTasks <= d
  BY Tasks DEF Task, From
<1>2. NToDL(t) = E
  <2>1. ((EndHeight - From(t)) + 1 + NTasks - 1) = d
    BY <1>1, Tasks
  <2> QED BY <2>1 DEF NToDL
<1>3. E \in Int /\ r \in 0..NTasks - 1 /\ d = NTasks * E + r
  BY <1>1, Tasks, Division
<1> HIDE DEF E, r
<1>4. 0 < E
  <2>1. E < 1 => NTasks * E + NTasks <= NTasks * 1
    BY <1>3, Tasks, Apart
  <2> QED BY <1>1, <1>3, <2>1, Tasks
<1>5. ASSUME NEW k \in Int PROVE From(t) + NTasks * k <= EndHeight <=> k < E
  <2>1. CASE k < E
    <3>1. NTasks * k \in Int /\ NTasks * E \in Int /\ NTasks * k + NTasks <= NTasks * E
      BY <1>3, <2>1, Tasks, Apart
    <3> QED BY <1>1, <1>3, <2>1, <3>1, Tasks
  <2>2. CASE ~ (k < E)
    <3>1. NTasks * k \in Int /\ NTasks * E \in Int /\ NTasks * E <= NTasks * k
      <4>1. k = E \/ E < k
        BY <1>3, <2>2
      <4>2. NTasks * k \in Int /\ NTasks * E \in Int /\ (E < k => NTasks * E + NTasks <= NTasks * k)
        BY <1>3, Tasks, Apart
      <4> QED BY <4>1, <4>2, Tasks
    <3> QED BY <1>1, <1>3, <2>2, <3>1, Tasks
  <2> QED BY <2>1, <2>2
<1> QED BY <1>1, <1>2, <1>3, <1>4, <1>5

\* Of a height that is owned, the place among the heights of its task.
LEMMA OwnedIs ==
  ASSUME NEW t \in Task, NEW h, Owns(t, h)
  PROVE  \E c \in Int : NTasks * c \in Int /\ h = From(t) + NTasks * c
<1>1. h \in Int /\ From(t) \in Int /\ (h - From(t)) % NTasks = 0
  BY Tasks DEF Owns, Height, From, Task
<1> DEFINE d == h - From(t)
<1>2. d \in Int /\ d % NTasks = 0 /\ h = From(t) + d
  BY <1>1
<1> HIDE DEF d
<1>3. d = NTasks * (d \div NTasks) /\ d \div NTasks \in Int
  BY <1>2, Tasks, Multiple
<1> QED BY <1>2, <1>3

\* The heights a task gets are its own ...
LEMMA OwnsNext ==
  ASSUME NEW t \in Task, NEW k \in Int, NEW n \in Height, n = From(t) + NTasks * k
  PROVE  Owns(t, n)
<1> DEFINE d == n - From(t)
<1>1. d \in Int /\ d = NTasks * k
  <2>1. NTasks * k \in Int /\ From(t) \in Int
    BY Tasks, Apart DEF From, Task
  <2> QED BY <2>1 DEF Height
<1>2. d % NTasks = 0
  <2> HIDE DEF d
  <2> QED BY <1>1, Tasks, Multiple
<1> QED BY <1>2 DEF Owns

\* ... and it skips none.
LEMMA OwnsAfter ==
  ASSUME NEW t \in Task, NEW k \in Int, NEW n \in Int, n = From(t) + NTasks * k,
         NEW h, Owns(t, h), n <= h
  PROVE  h = n \/ n + NTasks <= h
<1>1. PICK c \in Int : NTasks * c \in Int /\ h = From(t) + NTasks * c
  BY OwnedIs
<1>2. NTasks * k \in Int /\ From(t) \in Int
  BY Tasks, Apart DEF From, Task
<1>3. (c < k => NTasks * c + NTasks <= NTasks * k) /\ (k < c => NTasks * k + NTasks <= NTasks * c)
  BY Tasks, Apart
<1>4. c < k \/ c = k \/ k < c
  OBVIOUS
<1> QED BY <1>1, <1>2, <1>3, <1>4, Tasks

\* Every height has one owner.
LEMMA Owner ==
  ASSUME NEW h \in Height
  PROVE  /\ \E t \in Task : Owns(t, h)
         /\ \A t, u \in Task : Owns(t, h) /\ Owns(u, h) => t = u
<1>1. \E t \in Task : Owns(t, h)
  <2> DEFINE s == (h - Base) % NTasks
             q == (h - Base) \div NTasks
  <2>1. h - Base \in Int /\ h \in Int /\ Base \in Int
    BY Tasks DEF Height
  <2>2. q \in Int /\ s \in 0..NTasks - 1 /\ h - Base = NTasks * q + s
    BY <2>1, Tasks, Division
  <2> HIDE DEF s, q
  <2>3. NTasks * q \in Int
    BY <2>2, Tasks, Apart
  <2> DEFINE d == h - From(s)
  <2>4. d \in Int /\ d = NTasks * q
    BY <2>1, <2>2, <2>3, Tasks DEF From
  <2>5. d % NTasks = 0
    <3> HIDE DEF d
    <3> QED BY <2>2, <2>4, Tasks, Multiple
  <2> QED BY <2>2, <2>5 DEF Owns, Task
<1>2. ASSUME NEW t \in Task, NEW u \in Task, Owns(t, h), Owns(u, h) PROVE ~ (t < u)
  <2>1. PICK b \in Int : NTasks * b \in Int /\ h = From(t) + NTasks * b
    BY <1>2, OwnedIs
  <2>2. PICK c \in Int : NTasks * c \in Int /\ h = From(u) + NTasks * c
    BY <1>2, OwnedIs
  <2>3. (c < b => NTasks * c + NTasks <= NTasks * b) /\ (b < c => NTasks * b + NTasks <= NTasks * c)
    BY Tasks, Apart
  <2>4. b < c \/ b = c \/ c < b
    OBVIOUS
  <2>5. t \in 0..NTasks - 1 /\ u \in 0..NTasks - 1 /\ From(t) = Base + t /\ From(u) = Base + u
    BY DEF Task, From
  <2> QED BY <2>1, <2>2, <2>3, <2>4, <2>5, Tasks
<1>3. ASSUME NEW t \in Task, NEW u \in Task, Owns(t, h), Owns(u, h) PROVE t = u
  <2>1. ~ (t < u) /\ ~ (u < t)
    BY <1>2, <1>3
  <2> QED BY <2>1, Tasks DEF Task
<1> QED BY <1>1, <1>3

\* The number of gets begun.
LEMMA GetsIs ==
  ASSUME NEW t \in Task, NEW k \in Int
  PROVE  /\ NTasks * k \in Int
         /\ Gets(t, From(t) + NTasks * k) = k
         /\ Gets(t, From(t) + NTasks * k + NTasks) = k + 1
         /\ From(t) + NTasks * k + NTasks = From(t) + NTasks * (k + 1)
<1>1. From(t) \in Int /\ NTasks * k \in Int /\ NTasks * (k + 1) = NTasks * k + NTasks
  BY Tasks, Apart DEF From, Task
<1>2. /\ (From(t) + NTasks * k) - From(t) = NTasks * k + 0
      /\ (From(t) + NTasks * k + NTasks) - From(t) = NTasks * (k + 1) + 0
  BY <1>1, Tasks
<1>3. /\ ((From(t) + NTasks * k) - From(t)) \div NTasks = k
      /\ ((From(t) + NTasks * k + NTasks) - From(t)) \div NTasks = k + 1
  <2>1. NTasks * (k + 1) \in Int /\ k + 1 \in Int /\ 0 \in 0..NTasks - 1
    BY <1>1, Tasks
  <2> QED BY <1>1, <1>2, <2>1, Tasks, DivisionUnique
<1> QED BY <1>1, <1>3, Tasks DEF Gets

-----------------------------------------------------------------------------
(* What a task counts.                                                     *)

\* What is under way, when E heights are expected and e gets have failed.
Pace(E, g, q, a, w, e) ==
  g < E => \/ g = 0 /\ q = 0 /\ a + w + e = 1
           \/ g > 0 /\ q = a + w + e /\ q = IF MaxQ < E - g THEN MaxQ ELSE E - g

\* The task has begun k gets, of which e failed.
Begun(t, n, g, q, a, w, failed, k, e) ==
  /\ n = From(t) + NTasks * k /\ k <= NToDL(t) /\ k = g + w + e
  /\ (e > 0 => failed) /\ Pace(NToDL(t), g, q, a, w, e)

\* CountOK speaks of the gets begun and the gets that failed.
LEMMA CountIs ==
  ASSUME NEW t \in Task, NEW n, NEW g \in Nat, NEW q \in Nat, NEW a \in Nat, NEW w \in Nat,
         NEW failed
  PROVE  CountOK(t, n, g, q, a, w, failed) <=>
           \E k, e \in Nat : Begun(t, n, g, q, a, w, failed, k, e)
<1>1. NToDL(t) \in Nat
  BY Expected
<1>2. ASSUME CountOK(t, n, g, q, a, w, failed)
      PROVE  \E k, e \in Nat : Begun(t, n, g, q, a, w, failed, k, e)
  <2> DEFINE k == Gets(t, n)
             e == k - (g + w)
  <2>1. /\ n = From(t) + NTasks * k /\ k \in 0..NToDL(t) /\ e \in Nat /\ (e > 0 => failed)
        /\ Pace(NToDL(t), g, q, a, w, e)
    BY <1>2 DEF CountOK, Pace
  <2>2. k \in Nat /\ k <= NToDL(t) /\ k = g + w + e
    BY <1>1, <2>1
  <2>3. k \in Nat /\ e \in Nat /\ Begun(t, n, g, q, a, w, failed, k, e)
    BY <2>1, <2>2 DEF Begun
  <2> HIDE DEF k, e
  <2> QED BY <2>3
<1>3. ASSUME NEW k \in Nat, NEW e \in Nat, Begun(t, n, g, q, a, w, failed, k, e)
      PROVE  CountOK(t, n, g, q, a, w, failed)
  <2>1. Gets(t, n) = k
    BY <1>3, GetsIs DEF Begun
  <2>2. k - (g + w) = e /\ k \in 0..NToDL(t)
    BY <1>1, <1>3 DEF Begun
  <2> QED BY <1>3, <2>1, <2>2 DEF CountOK, Pace, Begun
<1> QED BY <1>2, <1>3

\* A task that has heights left and no failure has a get under way or queued, it never has more
\* than max_q, and it has none once all blocks are there.
LEMMA CountShows ==
  ASSUME NEW t \in Task, NEW n, NEW g \in Nat, NEW q \in Nat, NEW a \in Nat, NEW w \in Nat,
         NEW failed, CountOK(t, n, g, q, a, w, failed)
  PROVE  /\ n <= EndHeight => g < NToDL(t) /\ (a + w > 0 \/ failed)
         /\ g < NToDL(t) => a + w <= MaxQ
         /\ g >= NToDL(t) => w = 0 /\ EndHeight < n
         /\ \E k \in Nat : n = From(t) + NTasks * k
<1>0. PICK k, e \in Nat : Begun(t, n, g, q, a, w, failed, k, e)
  BY CountIs, Zenon
<1>1. /\ n = From(t) + NTasks * k /\ k <= NToDL(t) /\ k = g + w + e
      /\ (e > 0 => failed) /\ Pace(NToDL(t), g, q, a, w, e)
  BY <1>0 DEF Begun
<1>2. NToDL(t) \in Nat \ {0} /\ (n <= EndHeight <=> k < NToDL(t)) /\ n \in Int
  <2>1. From(t) \in Nat /\ NTasks * k \in Int
    BY Expected, GetsIs
  <2> QED BY <1>1, <2>1, Expected
<1>3. g < NToDL(t) => a + w + e > 0 /\ a + w + e <= MaxQ
  BY <1>1, <1>2, Tasks DEF Pace
<1>4. g >= NToDL(t) => w = 0 /\ ~ (k < NToDL(t))
  BY <1>1, <1>2
<1>5. k < NToDL(t) => g < NToDL(t)
  BY <1>1, <1>2
<1>6. a + w > 0 \/ e > 0 \/ ~ (a + w + e > 0)
  OBVIOUS
<1>7. a + w + e <= MaxQ => a + w <= MaxQ
  BY Tasks
<1>8. n <= EndHeight \/ EndHeight < n
  BY <1>2, Tasks
<1> QED BY <1>1, <1>2, <1>3, <1>4, <1>5, <1>6, <1>7, <1>8

\* A task that has all its blocks has no get under way.
LEMMA CountFull ==
  ASSUME NEW t \in Task, NEW n, NEW g \in Nat, NEW q \in Nat, NEW a \in Nat, NEW w \in Nat,
         NEW failed, CountOK(t, n, g, q, a, w, failed), g >= NToDL(t)
  PROVE  w = 0 /\ EndHeight < n
BY CountShows

\* A task with a get under way does not have all its blocks.
LEMMA CountBusy ==
  ASSUME NEW t \in Task, NEW n, NEW g \in Nat, NEW q \in Nat, NEW a \in Nat, NEW w \in Nat,
         NEW failed, CountOK(t, n, g, q, a, w, failed), w > 0
  PROVE  ~ (g >= NToDL(t))
BY CountFull

\* A task that has heights left and no failure has a get under way or queued.
LEMMA CountLeft ==
  ASSUME NEW t \in Task, NEW n, NEW g \in Nat, NEW q \in Nat, NEW a \in Nat, NEW w \in Nat,
         CountOK(t, n, g, q, a, w, FALSE), n <= EndHeight
  PROVE  a + w > 0
BY CountShows

\* A task that does not have all its blocks has at most max_q gets under way or queued.
LEMMA CountRoom ==
  ASSUME NEW t \in Task, NEW n, NEW g \in Nat, NEW q \in Nat, NEW a \in Nat, NEW w \in Nat,
         NEW failed, CountOK(t, n, g, q, a, w, failed), g < NToDL(t)
  PROVE  a + w <= MaxQ
BY CountShows

\* process() begins a get ...
LEMMA CountGet ==
  ASSUME NEW t \in Task, NEW n, NEW g \in Nat, NEW q \in Nat, NEW a \in Nat, NEW w \in Nat,
         NEW failed, CountOK(t, n, g, q, a, w, failed), n <= EndHeight, a > 0
  PROVE  CountOK(t, n + NTasks, g, q, a - 1, w + 1, failed)
<1>0. PICK k, e \in Nat : Begun(t, n, g, q, a, w, failed, k, e)
  BY CountIs, Zenon
<1>1. /\ n = From(t) + NTasks * k /\ k <= NToDL(t) /\ k = g + w + e
      /\ (e > 0 => failed) /\ Pace(NToDL(t), g, q, a, w, e)
  BY <1>0 DEF Begun
<1>2. NToDL(t) \in Nat \ {0} /\ k < NToDL(t)
  BY <1>1, Expected
<1>3. n + NTasks = From(t) + NTasks * (k + 1) /\ k + 1 \in Nat /\ a - 1 \in Nat /\ w + 1 \in Nat
  BY <1>1, GetsIs
<1>4. k + 1 <= NToDL(t) /\ k + 1 = g + (w + 1) + e
  BY <1>1, <1>2
<1>5. Pace(NToDL(t), g, q, a - 1, w + 1, e)
  <2>1. (a - 1) + (w + 1) + e = a + w + e
    OBVIOUS
  <2> QED BY <1>1, <2>1 DEF Pace
<1>6. Begun(t, n + NTasks, g, q, a - 1, w + 1, failed, k + 1, e)
  BY <1>1, <1>3, <1>4, <1>5 DEF Begun
<1> QED BY <1>3, <1>6, CountIs

\* ... or finds none left, and this only when all blocks are there.
LEMMA CountDone ==
  ASSUME NEW t \in Task, NEW n, NEW g \in Nat, NEW q \in Nat, NEW a \in Nat, NEW w \in Nat,
         NEW failed, CountOK(t, n, g, q, a, w, failed), n > EndHeight, a > 0
  PROVE  g >= NToDL(t) /\ CountOK(t, n, g, q, a - 1, w, failed)
<1>0. PICK k, e \in Nat : Begun(t, n, g, q, a, w, failed, k, e)
  BY CountIs, Zenon
<1>1. /\ n = From(t) + NTasks * k /\ k <= NToDL(t) /\ k = g + w + e
      /\ (e > 0 => failed) /\ Pace(NToDL(t), g, q, a, w, e)
  BY <1>0 DEF Begun
<1>2. NToDL(t) \in Nat \ {0} /\ k = NToDL(t)
  <2>1. From(t) \in Nat /\ NTasks * k \in Int
    BY Expected, GetsIs
  <2>2. ~ (k < NToDL(t)) /\ NToDL(t) \in Nat \ {0}
    BY <1>1, <2>1, Expected, Tasks
  <2> QED BY <1>1, <2>2
<1>3. g >= NToDL(t)
  <2> SUFFICES ASSUME g < NToDL(t) PROVE FALSE
    BY <1>2
  <2> QED BY <1>1, <1>2, Tasks DEF Pace
<1>4. Pace(NToDL(t), g, q, a - 1, w, e) /\ a - 1 \in Nat
  BY <1>2, <1>3 DEF Pace
<1>5. Begun(t, n, g, q, a - 1, w, failed, k, e)
  BY <1>1, <1>4 DEF Begun
<1> QED BY <1>3, <1>4, <1>5, CountIs

\* A block arrives: q_ct and AGAIN keep pace.
LEMMA CountBlock ==
  ASSUME NEW t \in Task, NEW n, NEW g \in Nat, NEW q \in Nat, NEW a \in Nat, NEW w \in Nat,
         NEW failed, CountOK(t, n, g, q, a, w, failed), w > 0
  PROVE  LET good == g + 1
             r == OneLess(q)
             more == IF QueueMore(t, good, r) > 0 THEN QueueMore(t, good, r) ELSE 0
             done == good >= NToDL(t)
             newQ == IF done THEN r ELSE r + more
             newA == IF done THEN a + 1 ELSE a + more
         IN newQ \in Nat /\ newA \in Nat /\ CountOK(t, n, good, newQ, newA, w - 1, failed)
<1>0. PICK k, e \in Nat : Begun(t, n, g, q, a, w, failed, k, e)
  BY CountIs, Zenon
<1>1. /\ n = From(t) + NTasks * k /\ k <= NToDL(t) /\ k = g + w + e
      /\ (e > 0 => failed) /\ Pace(NToDL(t), g, q, a, w, e)
  BY <1>0 DEF Begun
<1> DEFINE E == NToDL(t)
           r == OneLess(q)
           room == QueueMore(t, g + 1, r)
           more == IF room > 0 THEN room ELSE 0
           newQ == IF g + 1 >= E THEN r ELSE r + more
           newA == IF g + 1 >= E THEN a + 1 ELSE a + more
<1>2. E \in Nat \ {0} /\ g < E
  BY <1>1, Expected
<1>3. r \in Nat /\ r = IF q > 0 THEN q - 1 ELSE 0
  BY DEF OneLess
<1>4. room = IF MaxQ - r < E - (g + 1) - r THEN MaxQ - r ELSE E - (g + 1) - r
  BY DEF QueueMore
<1>p. Pace(E, g, q, a, w, e)
  BY <1>1
<1> HIDE DEF E, r, room
<1>5. newQ \in Nat /\ newA \in Nat /\ w - 1 \in Nat
  BY <1>2, <1>3, <1>4, Tasks
<1>6. Pace(E, g + 1, newQ, newA, w - 1, e)
  <2> SUFFICES ASSUME g + 1 < E
               PROVE  /\ newQ = newA + (w - 1) + e
                      /\ newQ = IF MaxQ < E - (g + 1) THEN MaxQ ELSE E - (g + 1)
    BY <1>2 DEF Pace
  <2>1. CASE g = 0 /\ q = 0 /\ a + w + e = 1
    BY <1>2, <1>3, <1>4, <2>1, Tasks
  <2>2. CASE g > 0 /\ q = a + w + e /\ q = IF MaxQ < E - g THEN MaxQ ELSE E - g
    BY <1>2, <1>3, <1>4, <2>2, Tasks
  <2> QED BY <1>2, <1>p, <2>1, <2>2 DEF Pace
<1>7. k = (g + 1) + (w - 1) + e
  BY <1>1
<1>8. CountOK(t, n, g + 1, newQ, newA, w - 1, failed)
  <2>1. g + 1 \in Nat
    OBVIOUS
  <2> HIDE DEF newQ, newA
  <2>2. Begun(t, n, g + 1, newQ, newA, w - 1, failed, k, e)
    BY <1>1, <1>5, <1>6, <1>7 DEF Begun, E
  <2> QED BY <1>5, <2>1, <2>2, CountIs
<1> QED BY <1>5, <1>8 DEF E, r, room

\* A get fails.
LEMMA CountError ==
  ASSUME NEW t \in Task, NEW n, NEW g \in Nat, NEW q \in Nat, NEW a \in Nat, NEW w \in Nat,
         NEW failed, CountOK(t, n, g, q, a, w, failed), w > 0
  PROVE  CountOK(t, n, g, q, a, w - 1, TRUE)
<1>0. PICK k, e \in Nat : Begun(t, n, g, q, a, w, failed, k, e)
  BY CountIs, Zenon
<1>1. /\ n = From(t) + NTasks * k /\ k <= NToDL(t) /\ k = g + w + e
      /\ (e > 0 => failed) /\ Pace(NToDL(t), g, q, a, w, e)
  BY <1>0 DEF Begun
<1>2. w - 1 \in Nat /\ e + 1 \in Nat /\ k = g + (w - 1) + (e + 1)
  BY <1>1
<1>3. Pace(NToDL(t), g, q, a, w - 1, e + 1)
  <2>1. a + (w - 1) + (e + 1) = a + w + e
    OBVIOUS
  <2> QED BY <1>1, <2>1 DEF Pace
<1>4. Begun(t, n, g, q, a, w - 1, TRUE, k, e + 1)
  BY <1>1, <1>2, <1>3 DEF Begun
<1> QED BY <1>2, <1>4, CountIs

-----------------------------------------------------------------------------
(* What a task posts.                                                      *)

\* Success and errored are no heights.
LEMMA NoHeight == Success \notin Height /\ Errored \notin Height /\ Success # Errored
BY Tasks DEF Success, Errored, Height

\* One message more.
LEMMA PostHas ==
  ASSUME NEW p \in Seq(Message), NEW x \in Message
  PROVE  /\ p \o <<x>> \in Seq(Message)
         /\ \A y : Has(p \o <<x>>, y) <=> Has(p, y) \/ y = x
<1> DEFINE s == p \o <<x>>
<1>1. /\ s \in Seq(Message) /\ DOMAIN p = 1..Len(p) /\ DOMAIN s = 1..Len(p) + 1 /\ Len(p) \in Nat
      /\ s[Len(p) + 1] = x /\ \A i \in 1..Len(p) : s[i] = p[i]
  OBVIOUS
<1> HIDE DEF s
<1>2. ASSUME NEW i \in DOMAIN p PROVE i \in DOMAIN s /\ s[i] = p[i]
  BY <1>1
<1>3. Len(p) + 1 \in DOMAIN s /\ s[Len(p) + 1] = x
  BY <1>1
<1>4. ASSUME NEW i \in DOMAIN s PROVE s[i] = x \/ (i \in DOMAIN p /\ s[i] = p[i])
  BY <1>1
<1>5. ASSUME NEW y PROVE Has(s, y) <=> Has(p, y) \/ y = x
  BY <1>2, <1>3, <1>4, Zenon DEF Has
<1> QED BY <1>1, <1>5 DEF s

\* A message that is no height, or a height that was not posted.
LEMMA PostOnce ==
  ASSUME NEW p \in Seq(Message), NEW x \in Message, Once(p), x \notin Height \/ ~ Has(p, x)
  PROVE  Once(p \o <<x>>)
<1> DEFINE s == p \o <<x>>
<1>1. /\ DOMAIN p = 1..Len(p) /\ DOMAIN s = 1..Len(p) + 1 /\ Len(p) \in Nat
      /\ s[Len(p) + 1] = x /\ \A i \in 1..Len(p) : s[i] = p[i]
  OBVIOUS
<1> HIDE DEF s
<1>2. ASSUME NEW i \in DOMAIN s
      PROVE  (i = Len(p) + 1 /\ s[i] = x) \/ (i \in DOMAIN p /\ s[i] = p[i])
  BY <1>1
<1>3. ASSUME NEW i \in DOMAIN s, NEW j \in DOMAIN s, s[i] \in Height, s[i] = s[j] PROVE i = j
  BY <1>2, <1>3 DEF Once, Has
<1> QED BY <1>3 DEF Once, s

\* A message that is no height, or any before a success.
LEMMA PostSuccessLast ==
  ASSUME NEW p \in Seq(Message), NEW x \in Message, SuccessLast(p),
         x \notin Height \/ ~ Has(p, Success)
  PROVE  SuccessLast(p \o <<x>>)
<1> DEFINE s == p \o <<x>>
<1>1. /\ DOMAIN p = 1..Len(p) /\ DOMAIN s = 1..Len(p) + 1 /\ Len(p) \in Nat
      /\ s[Len(p) + 1] = x /\ \A i \in 1..Len(p) : s[i] = p[i]
  OBVIOUS
<1> HIDE DEF s
<1>2. ASSUME NEW i \in DOMAIN s
      PROVE  (i = Len(p) + 1 /\ s[i] = x) \/ (i \in DOMAIN p /\ s[i] = p[i])
  BY <1>1
<1>3. ASSUME NEW i \in DOMAIN s, NEW j \in DOMAIN s, s[i] = Success, i < j PROVE s[j] \notin Height
  <2>1. i \in DOMAIN p /\ s[i] = p[i]
    BY <1>1, <1>3
  <2>2. Has(p, Success)
    BY <1>3, <2>1 DEF Has
  <2>3. CASE j = Len(p) + 1 /\ s[j] = x
    BY <2>2, <2>3
  <2>4. CASE j \in DOMAIN p /\ s[j] = p[j]
    BY <1>3, <2>1, <2>4 DEF SuccessLast
  <2> QED BY <1>2, <2>3, <2>4
<1> QED BY <1>3 DEF SuccessLast, s

\* The Controller receives the first message.
LEMMA Popped ==
  ASSUME NEW p \in Seq(Message), p # <<>>
  PROVE  /\ Tail(p) \in Seq(Message) /\ Head(p) \in Message
         /\ \A y : Has(p, y) <=> y = Head(p) \/ Has(Tail(p), y)
         /\ Once(p) => Once(Tail(p)) /\ (Head(p) \in Height => ~ Has(Tail(p), Head(p)))
         /\ SuccessLast(p) =>
              /\ SuccessLast(Tail(p))
              /\ Head(p) = Success => \A y \in Height : ~ Has(p, y)
<1> DEFINE s == Tail(p)
           m == Len(p)
<1>1. /\ s \in Seq(Message) /\ Head(p) \in Message /\ m \in Nat /\ m > 0
      /\ DOMAIN p = 1..m /\ DOMAIN s = 1..(m - 1) /\ Head(p) = p[1]
      /\ \A i \in 1..(m - 1) : s[i] = p[i + 1]
  OBVIOUS
<1> HIDE DEF s, m
<1>2. 1 \in DOMAIN p /\ p[1] = Head(p)
  BY <1>1
<1>3. ASSUME NEW i \in DOMAIN s PROVE i + 1 \in DOMAIN p /\ s[i] = p[i + 1] /\ i + 1 # 1
  BY <1>1
<1>4. ASSUME NEW i \in DOMAIN p, i # 1 PROVE i - 1 \in DOMAIN s /\ s[i - 1] = p[i]
  BY <1>1, <1>4
<1>5. ASSUME NEW y PROVE Has(p, y) <=> y = Head(p) \/ Has(s, y)
  <2>1. ASSUME NEW i \in DOMAIN p, p[i] = y PROVE y = Head(p) \/ Has(s, y)
    BY <1>1, <1>4, <2>1 DEF Has
  <2>2. ASSUME NEW i \in DOMAIN s, s[i] = y PROVE Has(p, y)
    BY <1>3, <2>2 DEF Has
  <2> QED BY <1>2, <2>1, <2>2 DEF Has
<1>6. ASSUME Once(p) PROVE Once(s) /\ (Head(p) \in Height => ~ Has(s, Head(p)))
  <2>1. ASSUME NEW i \in DOMAIN s, NEW j \in DOMAIN s, s[i] \in Height, s[i] = s[j] PROVE i = j
    <3>1. i + 1 = j + 1
      BY <1>3, <1>6, <2>1 DEF Once
    <3> QED BY <1>1, <3>1
  <2>2. ASSUME Head(p) \in Height, NEW i \in DOMAIN s, s[i] = Head(p) PROVE FALSE
    BY <1>2, <1>3, <1>6, <2>2 DEF Once
  <2> QED BY <2>1, <2>2 DEF Once, Has
<1>7. ASSUME SuccessLast(p)
      PROVE  /\ SuccessLast(s)
             /\ Head(p) = Success => \A y \in Height : ~ Has(p, y)
  <2>1. ASSUME NEW i \in DOMAIN s, NEW j \in DOMAIN s, s[i] = Success, i < j PROVE s[j] \notin Height
    <3>1. i + 1 < j + 1
      BY <1>1, <2>1
    <3> QED BY <1>3, <1>7, <2>1, <3>1 DEF SuccessLast
  <2>2. ASSUME Head(p) = Success, NEW y \in Height, NEW i \in DOMAIN p, p[i] = y PROVE FALSE
    <3>1. CASE i = 1
      BY <1>1, <2>2, <3>1, NoHeight
    <3>2. CASE i # 1
      <4>1. 1 < i
        BY <1>1, <3>2
      <4> QED BY <1>2, <1>7, <2>2, <4>1 DEF SuccessLast
    <3> QED BY <3>1, <3>2
  <2> QED BY <2>1, <2>2 DEF SuccessLast, Has
<1> QED BY <1>1, <1>5, <1>6, <1>7 DEF s

-----------------------------------------------------------------------------
(* Where the heights of a task are.                                        *)

\* A get begins, throttled or not.
LEMMA PlacedGet ==
  ASSUME NEW t \in Task, NEW n \in Height, Follows(t, n),
         NEW T \in SUBSET Height, NEW A \in SUBSET Height, NEW p, NEW B \in SUBSET Height,
         PlacedOK(t, n, T, A, p, B)
  PROVE  /\ n \notin T \cup A
         /\ PlacedOK(t, n + NTasks, T \cup {n}, A, p, B)
         /\ PlacedOK(t, n + NTasks, T \ {n}, A \cup {n}, p, B)
         /\ \A m, run : CoveredOK(t, m, run, n, T, A, p, B) =>
              /\ CoveredOK(t, m, run, n + NTasks, T \cup {n}, A, p, B)
              /\ CoveredOK(t, m, run, n + NTasks, T \ {n}, A \cup {n}, p, B)
<1> PICK k \in Int : n = From(t) + NTasks * k
  BY DEF Follows
<1>1. Owns(t, n) /\ n \in Int /\ \A h \in Height : h \in Int
  <2>1. Owns(t, n)
    BY OwnsNext
  <2> QED BY <2>1, Tasks DEF Height
<1>2. n \notin T \cup A /\ ~ Has(p, n) /\ n \notin B
  <2>1. ~ (n < n)
    BY <1>1
  <2> QED BY <1>1, <2>1, Zenon DEF PlacedOK
<1>3. n < n + NTasks /\ \A h \in Height : h < n => h < n + NTasks
  BY <1>1, Tasks
<1>4. \A h \in Height : Owns(t, h) /\ n <= h => h = n \/ n + NTasks <= h
  BY <1>1, OwnsAfter
<1> HIDE DEF Owns
<1>5. PlacedOK(t, n + NTasks, T \cup {n}, A, p, B)
  BY <1>1, <1>2, <1>3 DEF PlacedOK
<1>6. PlacedOK(t, n + NTasks, T \ {n}, A \cup {n}, p, B)
  BY <1>1, <1>2, <1>3 DEF PlacedOK
<1>7. ASSUME NEW m, NEW run, CoveredOK(t, m, run, n, T, A, p, B)
      PROVE  /\ CoveredOK(t, m, run, n + NTasks, T \cup {n}, A, p, B)
             /\ CoveredOK(t, m, run, n + NTasks, T \ {n}, A \cup {n}, p, B)
  BY <1>4, <1>7, Zenon DEF CoveredOK
<1> QED BY <1>2, <1>5, <1>6, <1>7

\* The timer of a throttled get fires.
LEMMA PlacedTimer ==
  ASSUME NEW t \in Task, NEW n, NEW T, NEW A, NEW p, NEW B, NEW h \in T,
         PlacedOK(t, n, T, A, p, B)
  PROVE  /\ h \notin A /\ T \cup {h} = T
         /\ PlacedOK(t, n, T \ {h}, A \cup {h}, p, B)
         /\ \A m, run : CoveredOK(t, m, run, n, T, A, p, B) =>
                          CoveredOK(t, m, run, n, T \ {h}, A \cup {h}, p, B)
<1>1. h \notin A /\ T \cup {h} = T
  BY DEF PlacedOK
<1>2. (T \ {h}) \cap (A \cup {h}) = {} /\ (T \ {h}) \cup (A \cup {h}) = T \cup A
  BY <1>1 DEF PlacedOK
<1>3. PlacedOK(t, n, T \ {h}, A \cup {h}, p, B)
  BY <1>2, Zenon DEF PlacedOK
<1>4. ASSUME NEW m, NEW run, CoveredOK(t, m, run, n, T, A, p, B)
      PROVE  CoveredOK(t, m, run, n, T \ {h}, A \cup {h}, p, B)
  BY <1>4, Zenon DEF CoveredOK
<1> QED BY <1>1, <1>3, <1>4

\* A block arrives.
LEMMA PlacedBlock ==
  ASSUME NEW t \in Task, NEW n, NEW T, NEW A \in SUBSET Height, NEW p \in Seq(Message), NEW B,
         NEW h \in A, PlacedOK(t, n, T, A, p, B)
  PROVE  /\ PlacedOK(t, n, T, A \ {h}, p \o <<h>>, B)
         /\ \A m, run : CoveredOK(t, m, run, n, T, A, p, B) =>
                          CoveredOK(t, m, run, n, T, A \ {h}, p \o <<h>>, B)
<1> DEFINE s == p \o <<h>>
<1>1. h \in Message /\ h \in Height
  BY DEF Message
<1>2. h \notin T /\ Owns(t, h) /\ h < n /\ ~ Has(p, h) /\ h \notin B
  BY DEF PlacedOK
<1>3. (\A y : Has(s, y) <=> Has(p, y) \/ y = h) /\ Once(s)
  BY <1>1, <1>2, PostHas, PostOnce DEF PlacedOK
<1> HIDE DEF s, Owns
<1>4. PlacedOK(t, n, T, A \ {h}, s, B)
  <2>1. T \cap (A \ {h}) = {}
    BY DEF PlacedOK
  <2>2. ASSUME NEW g \in T \cup (A \ {h})
        PROVE  Owns(t, g) /\ g < n /\ ~ Has(s, g) /\ g \notin B
    <3>1. g # h /\ g \in T \cup A
      BY <1>2
    <3> QED BY <1>3, <3>1, Zenon DEF PlacedOK
  <2>3. ASSUME NEW g \in Height, Has(s, g) PROVE Owns(t, g) /\ g < n /\ g \notin B
    BY <1>2, <1>3, <2>3, Zenon DEF PlacedOK
  <2>4. \A g \in B : Owns(t, g) => g < n
    BY DEF PlacedOK
  <2> QED BY <1>3, <2>1, <2>2, <2>3, <2>4, Zenon DEF PlacedOK
<1>5. ASSUME NEW m, NEW run, CoveredOK(t, m, run, n, T, A, p, B)
      PROVE  CoveredOK(t, m, run, n, T, A \ {h}, s, B)
  BY <1>3, <1>5, Zenon DEF CoveredOK
<1> QED BY <1>4, <1>5 DEF s

\* A message that is no block.
LEMMA PlacedOther ==
  ASSUME NEW t \in Task, NEW n, NEW T, NEW A, NEW p \in Seq(Message), NEW B, NEW x \in Message,
         x \notin Height, NEW R \in SUBSET A, PlacedOK(t, n, T, A, p, B)
  PROVE  /\ PlacedOK(t, n, T, R, p \o <<x>>, B)
         /\ \A m, run : CoveredOK(t, m, run, n, T, A, p, B) =>
                          CoveredOK(t, m, run, n, T, A, p \o <<x>>, B)
<1> DEFINE s == p \o <<x>>
<1>1. (\A y : Has(s, y) <=> Has(p, y) \/ y = x) /\ Once(s)
  BY PostHas, PostOnce DEF PlacedOK
<1> HIDE DEF s, Owns
<1>2. ASSUME NEW h, Owns(t, h) PROVE h # x
  BY <1>2 DEF Owns
<1>3. PlacedOK(t, n, T, R, s, B)
  <2>1. T \cap R = {} /\ T \cup R \subseteq T \cup A
    BY DEF PlacedOK
  <2>2. ASSUME NEW g \in T \cup R PROVE Owns(t, g) /\ g < n /\ ~ Has(s, g) /\ g \notin B
    BY <1>1, <1>2, <2>1, Zenon DEF PlacedOK
  <2>3. ASSUME NEW g \in Height, Has(s, g) PROVE Owns(t, g) /\ g < n /\ g \notin B
    BY <1>1, <2>3, Zenon DEF PlacedOK
  <2>4. \A g \in B : Owns(t, g) => g < n
    BY DEF PlacedOK
  <2> QED BY <1>1, <2>1, <2>2, <2>3, <2>4, Zenon DEF PlacedOK
<1>4. ASSUME NEW m, NEW run, CoveredOK(t, m, run, n, T, A, p, B)
      PROVE  CoveredOK(t, m, run, n, T, A, s, B)
  BY <1>1, <1>4, Zenon DEF CoveredOK
<1> QED BY <1>3, <1>4 DEF s

\* The Controller receives a block of the task, and puts it aside or not.
LEMMA PlacedPut ==
  ASSUME NEW t \in Task, NEW n, NEW T, NEW A, NEW p \in Seq(Message), p # <<>>,
         Head(p) \in Height, NEW B, NEW C \in SUBSET (B \cup {Head(p)}), PlacedOK(t, n, T, A, p, B)
  PROVE  PlacedOK(t, n, T, A, Tail(p), C)
<1> DEFINE s == Tail(p)
           h == Head(p)
<1>1. (\A y : Has(p, y) <=> y = h \/ Has(s, y)) /\ Once(s) /\ ~ Has(s, h)
  BY Popped DEF PlacedOK
<1>2. h \in Height /\ C \subseteq B \cup {h}
  OBVIOUS
<1> HIDE DEF s, h, Owns
<1>3. Owns(t, h) /\ h < n
  BY <1>1, <1>2, Zenon DEF PlacedOK
<1>4. ASSUME NEW g \in T \cup A PROVE Owns(t, g) /\ g < n /\ ~ Has(s, g) /\ g \notin C
  BY <1>1, <1>2, Zenon DEF PlacedOK
<1>5. ASSUME NEW g \in Height, Has(s, g) PROVE Owns(t, g) /\ g < n /\ g \notin C
  BY <1>1, <1>2, <1>5, Zenon DEF PlacedOK
<1>6. ASSUME NEW g \in C, Owns(t, g) PROVE g < n
  BY <1>2, <1>3, <1>6, Zenon DEF PlacedOK
<1>7. T \cap A = {}
  BY DEF PlacedOK
<1>8. PlacedOK(t, n, T, A, s, C)
  BY <1>1, <1>4, <1>5, <1>6, <1>7, Zenon DEF PlacedOK
<1> QED BY <1>8 DEF s

\* The other tasks do not own it.
LEMMA PlacedElsewhere ==
  ASSUME NEW t \in Task, NEW n, NEW T, NEW A, NEW p, NEW B, NEW h, ~ Owns(t, h),
         NEW C \in SUBSET (B \cup {h}), PlacedOK(t, n, T, A, p, B)
  PROVE  PlacedOK(t, n, T, A, p, C)
<1>1. ASSUME NEW g \in C, Owns(t, g) PROVE g \in B
  BY <1>1
<1> HIDE DEF Owns
<1> QED BY <1>1, Zenon DEF PlacedOK

\* The Controller adds the blocks below height l.
LEMMA CoveredPut ==
  ASSUME NEW t \in Task, NEW m \in Int, NEW l \in Int, m <= l, NEW run, NEW n, NEW T, NEW A,
         NEW p, NEW s, NEW B, NEW h, \A y : Has(p, y) => y = h \/ Has(s, y),
         CoveredOK(t, m, run, n, T, A, p, B)
  PROVE  CoveredOK(t, l, run, n, T, A, s, {g \in B \cup {h} : g >= l})
<1>1. ASSUME NEW g \in Height, l <= g PROVE m <= g /\ g >= l
  BY <1>1, Tasks DEF Height
<1> HIDE DEF Owns
<1> QED BY <1>1, Zenon DEF CoveredOK

\* A task that has succeeded has nothing left.
LEMMA CoveredEnded ==
  ASSUME NEW t \in Task, NEW m, NEW run, NEW n \in Int, EndHeight < n, NEW T, T = {}, NEW A, A = {},
         NEW p, \A h \in Height : ~ Has(p, h), NEW B,
         CoveredOK(t, m, run, n, T, A, p, B)
  PROVE  CoveredOK(t, m, FALSE, n, T, A, p, B)
<1>1. ASSUME NEW h \in Height PROVE ~ (n <= h)
  BY Tasks DEF Height
<1> HIDE DEF Owns
<1> QED BY <1>1, Zenon DEF CoveredOK

-----------------------------------------------------------------------------
(* The steps.                                                              *)

\* Sets of heights are counted.
LEMMA Sizes ==
  ASSUME NEW S \in SUBSET Height
  PROVE  /\ Cardinality(S) \in Nat /\ (Cardinality(S) = 0 => S = {})
         /\ \A h : h \notin S => Cardinality(S \cup {h}) = Cardinality(S) + 1
         /\ \A h \in S : Cardinality(S \ {h}) = Cardinality(S) - 1 /\ Cardinality(S) > 0
<1>1. IsFiniteSet(S)
  <2>1. IsFiniteSet(Height)
    BY Tasks, FS_Interval DEF Height
  <2> QED BY <2>1, FS_Subset
<1>2. Cardinality(S) \in Nat /\ (Cardinality(S) = 0 => S = {})
  BY <1>1, FS_CardinalityType, FS_EmptySet
<1>3. ASSUME NEW h, h \notin S PROVE Cardinality(S \cup {h}) = Cardinality(S) + 1
  BY <1>1, <1>3, FS_AddElement
<1>4. ASSUME NEW h \in S PROVE Cardinality(S \ {h}) = Cardinality(S) - 1 /\ Cardinality(S) > 0
  <2>1. Cardinality(S \ {h}) = Cardinality(S) - 1
    BY <1>1, FS_RemoveElement
  <2>2. Cardinality(S) # 0
    BY <1>2
  <2> QED BY <1>2, <2>1, <2>2
<1> QED BY <1>2, <1>3, <1>4

\* A non-empty set of heights has a least element.
LEMMA LeastHeight ==
  ASSUME NEW S \in SUBSET Nat, S # {}
  PROVE  \E h \in S : \A k \in S : h <= k
<1>1. PICK x \in S : \A y \in S : ~ (<<y, x>> \in OpToRel(<, Nat))
  BY NatLessThanWellFounded, WFMin
<1>2. ASSUME NEW y \in S PROVE x <= y
  <2>1. ~ (<<y, x>> \in OpToRel(<, Nat))
    BY <1>1
  <2>2. ~ (y < x)
    BY <2>1 DEF OpToRel
  <2> QED BY <2>2
<1> QED BY <1>1, <1>2

\* process_DownloadingBlocks stops at the first height that is missing.
LEMMA FirstMissingIs ==
  ASSUME ppBlkHtNext \in Base .. EndHeight + 1, NEW S \in SUBSET Height
  PROVE  /\ FirstMissing(S) \in ppBlkHtNext .. EndHeight + 1 /\ FirstMissing(S) \notin S
         /\ ppBlkHtNext .. FirstMissing(S) - 1 \subseteq S
<1> DEFINE M == {h \in ppBlkHtNext .. EndHeight + 1 : h \notin S}
<1>1. M \subseteq Nat /\ EndHeight + 1 \in M
  BY Tasks DEF Height
<1>2. PICK h \in M : \A k \in M : h <= k
  BY <1>1, LeastHeight
<1>3. h \in ppBlkHtNext .. EndHeight + 1 /\ h \notin S
  BY <1>2
<1>4. ASSUME NEW g \in ppBlkHtNext .. h - 1 PROVE g \in S
  <2>1. g \in ppBlkHtNext .. EndHeight + 1 /\ ~ (h <= g)
    BY <1>3, Tasks
  <2> QED BY <1>2, <2>1
<1>5. \E g \in ppBlkHtNext .. EndHeight + 1 : g \notin S /\ ppBlkHtNext .. g - 1 \subseteq S
  BY <1>3, <1>4
<1> QED BY <1>5, Zenon DEF FirstMissing

\* The invariant of a task depends on the task's own variables and on the machine's.
LEMMA Frame ==
  ASSUME NEW u \in Task, TaskInv(u), UNCHANGED <<sm, ppBlkHtNext, ppBlocks>>,
         posted'[u] = posted[u], next'[u] = next[u], goodCt'[u] = goodCt[u], q_ct'[u] = q_ct[u],
         again'[u] = again[u], throttled'[u] = throttled[u], asked'[u] = asked[u],
         u \in deleted' <=> u \in deleted
  PROVE  TaskInv(u)'
<1>1. UnderWay(u)' = UnderWay(u)
  BY DEF UnderWay
<1>2. Running(u)' = Running(u)
  BY DEF Running
<1>3. CountOK(u, next[u], goodCt[u], q_ct[u], again[u], UnderWay(u), Has(posted[u], Errored))'
  BY <1>1, Zenon DEF TaskInv
<1>4. /\ PlacedOK(u, next[u], throttled[u], asked[u], posted[u], ppBlocks)'
      /\ SuccessLast(posted[u])' /\ (Has(posted[u], Success) => goodCt[u] >= NToDL(u))'
  BY Zenon DEF TaskInv
<1>5. (sm = "downloading" /\ ~ Has(posted[u], Errored) =>
         CoveredOK(u, ppBlkHtNext, Running(u), next[u], throttled[u], asked[u], posted[u], ppBlocks))'
  BY <1>2, Zenon DEF TaskInv
<1>6. (sm # "none" => NearOK(ppBlkHtNext + MaxBackLog, asked[u], posted[u], ppBlocks))'
  BY Zenon DEF TaskInv
<1> QED BY <1>3, <1>4, <1>5, <1>6, Zenon DEF TaskInv

\* do_get.
LEMMA DoGetIs ==
  ASSUME Shape, NEW t \in Task, NEW h \in Height, DoGet(t, h)
  PROVE  /\ throttled' \in [Task -> SUBSET Height] /\ asked' \in [Task -> SUBSET Height]
         /\ \A u \in Task \ {t} : throttled'[u] = throttled[u] /\ asked'[u] = asked[u]
         /\ \/ throttled'[t] = throttled[t] \cup {h} /\ asked'[t] = asked[t]
            \/ /\ throttled'[t] = throttled[t] \ {h} /\ asked'[t] = asked[t] \cup {h}
               /\ sm # "none" => h <= ppBlkHtNext + MaxBackLog
<1>1. throttled \in [Task -> SUBSET Height] /\ asked \in [Task -> SUBSET Height]
  BY DEF Shape
<1>2. ~ Throttle(h) /\ sm # "none" => h <= ppBlkHtNext + MaxBackLog
  BY Tasks DEF Throttle, Shape, Height
<1>3. CASE Throttle(h)
  <2>1. throttled' = [throttled EXCEPT ![t] = throttled[t] \cup {h}] /\ asked' = asked
    BY <1>3 DEF DoGet
  <2> QED BY <1>1, <2>1
<1>4. CASE ~ Throttle(h)
  <2>1. /\ throttled' = [throttled EXCEPT ![t] = throttled[t] \ {h}]
        /\ asked' = [asked EXCEPT ![t] = asked[t] \cup {h}]
    BY <1>4 DEF DoGet
  <2> QED BY <1>1, <1>2, <1>4, <2>1
<1> QED BY <1>3, <1>4

\* The types of the variables of a task.
LEMMA TypesOf ==
  ASSUME Shape, NEW t \in Task
  PROVE  /\ posted[t] \in Seq(Message) /\ next[t] \in Nat /\ goodCt[t] \in Nat /\ q_ct[t] \in Nat
         /\ again[t] \in Nat /\ throttled[t] \in SUBSET Height /\ asked[t] \in SUBSET Height
         /\ Cardinality(throttled[t]) \in Nat /\ Cardinality(asked[t]) \in Nat
         /\ UnderWay(t) \in Nat /\ UnderWay(t) = Cardinality(throttled[t]) + Cardinality(asked[t])
<1>1. /\ posted[t] \in Seq(Message) /\ next[t] \in Nat /\ goodCt[t] \in Nat /\ q_ct[t] \in Nat
      /\ again[t] \in Nat /\ throttled[t] \in SUBSET Height /\ asked[t] \in SUBSET Height
  BY DEF Shape
<1>2. Cardinality(throttled[t]) \in Nat /\ Cardinality(asked[t]) \in Nat
  BY <1>1, Sizes
<1> QED BY <1>1, <1>2 DEF UnderWay

\* The height a task gets next is its own.
LEMMA NextIs ==
  ASSUME Shape, NEW t \in Task, TaskInv(t)
  PROVE  Follows(t, next[t]) /\ (next[t] <= EndHeight => next[t] \in Height)
<1>1. PICK k \in Nat : next[t] = From(t) + NTasks * k
  <2>1. CountOK(t, next[t], goodCt[t], q_ct[t], again[t], UnderWay(t), Has(posted[t], Errored))
    BY Zenon DEF TaskInv
  <2> QED BY <2>1, TypesOf, CountShows, Zenon
<1>2. k \in Int /\ From(t) \in Nat /\ Base <= From(t) /\ NTasks * k \in Nat
  BY Tasks DEF From, Task
<1>3. next[t] <= EndHeight => next[t] \in Height
  BY <1>1, <1>2, Tasks DEF Height
<1> QED BY <1>1, <1>2, <1>3 DEF Follows

\* A get begins.
LEMMA ProcessGetStep ==
  ASSUME IInv, NEW t \in Task, ProcessGet(t)
  PROVE  IInv'
<1>1. Shape /\ TaskInv(t)
  BY DEF IInv
<1> DEFINE n == next[t]
           T == throttled[t]
           A == asked[t]
           p == posted[t]
<1>2. /\ again[t] > 0 /\ n <= EndHeight /\ DoGet(t, n)
      /\ again' = [again EXCEPT ![t] = again[t] - 1]
      /\ next' = [next EXCEPT ![t] = next[t] + NTasks]
      /\ UNCHANGED <<ctlVars, posted, goodCt, q_ct>>
  BY DEF ProcessGet
<1>3. Follows(t, n) /\ n \in Height
  BY <1>1, <1>2, NextIs
<1>4. /\ throttled' \in [Task -> SUBSET Height] /\ asked' \in [Task -> SUBSET Height]
      /\ \A u \in Task \ {t} : throttled'[u] = throttled[u] /\ asked'[u] = asked[u]
      /\ \/ throttled'[t] = T \cup {n} /\ asked'[t] = A
         \/ /\ throttled'[t] = T \ {n} /\ asked'[t] = A \cup {n}
            /\ sm # "none" => n <= ppBlkHtNext + MaxBackLog
  BY <1>1, <1>2, <1>3, DoGetIs
<1>5. /\ next'[t] = n + NTasks /\ again'[t] = again[t] - 1
      /\ posted' = posted /\ goodCt' = goodCt /\ q_ct' = q_ct
      /\ sm' = sm /\ ppBlkHtNext' = ppBlkHtNext /\ ppBlocks' = ppBlocks /\ deleted' = deleted
      /\ \A u \in Task \ {t} : next'[u] = next[u] /\ again'[u] = again[u]
  BY <1>1, <1>2 DEF Shape, ctlVars
<1>6. Shape'
  <2>1. again[t] - 1 \in Nat /\ n + NTasks \in Nat
    BY <1>1, <1>2, TypesOf, Tasks
  <2> QED BY <1>1, <1>2, <1>4, <1>5, <2>1 DEF Shape
<1>7. ASSUME NEW u \in Task, u # t PROVE TaskInv(u)'
  <2>1. TaskInv(u)
    BY DEF IInv
  <2> QED BY <1>4, <1>5, <1>7, <2>1, Frame
<1>8. PlacedOK(t, n, T, A, p, ppBlocks)
  BY <1>1, Zenon DEF TaskInv
<1>9. /\ n \notin T \cup A
      /\ PlacedOK(t, n + NTasks, T \cup {n}, A, p, ppBlocks)
      /\ PlacedOK(t, n + NTasks, T \ {n}, A \cup {n}, p, ppBlocks)
      /\ \A m, run : CoveredOK(t, m, run, n, T, A, p, ppBlocks) =>
           /\ CoveredOK(t, m, run, n + NTasks, T \cup {n}, A, p, ppBlocks)
           /\ CoveredOK(t, m, run, n + NTasks, T \ {n}, A \cup {n}, p, ppBlocks)
  <2>1. T \in SUBSET Height /\ A \in SUBSET Height /\ ppBlocks \in SUBSET Height
    BY <1>1, TypesOf DEF Shape
  <2> HIDE DEF n, T, A, p
  <2> QED BY <1>3, <1>8, <2>1, PlacedGet, Zenon
<1>10. UnderWay(t)' = UnderWay(t) + 1
  <2>1. T \in SUBSET Height /\ A \in SUBSET Height /\ T \ {n} = T
    BY <1>1, <1>9, TypesOf
  <2>2. Cardinality(T \cup {n}) = Cardinality(T) + 1 /\ Cardinality(A \cup {n}) = Cardinality(A) + 1
    BY <1>9, <2>1, Sizes
  <2>3. Cardinality(T) \in Nat /\ Cardinality(A) \in Nat
    BY <2>1, Sizes
  <2>4. CASE throttled'[t] = T \cup {n} /\ asked'[t] = A
    <3>1. UnderWay(t)' = Cardinality(T \cup {n}) + Cardinality(A)
      BY <2>4, Zenon DEF UnderWay
    <3> QED BY <2>2, <2>3, <3>1 DEF UnderWay
  <2>5. CASE throttled'[t] = T \ {n} /\ asked'[t] = A \cup {n}
    <3>1. UnderWay(t)' = Cardinality(T) + Cardinality(A \cup {n})
      BY <2>1, <2>5, Zenon DEF UnderWay
    <3> QED BY <2>2, <2>3, <3>1 DEF UnderWay
  <2> QED BY <1>4, <2>4, <2>5
<1>11. CountOK(t, next[t], goodCt[t], q_ct[t], again[t], UnderWay(t), Has(posted[t], Errored))'
  <2>1. CountOK(t, n, goodCt[t], q_ct[t], again[t], UnderWay(t), Has(p, Errored))
    BY <1>1, Zenon DEF TaskInv
  <2>2. CountOK(t, n + NTasks, goodCt[t], q_ct[t], again[t] - 1, UnderWay(t) + 1, Has(p, Errored))
    BY <1>1, <1>2, <2>1, TypesOf, CountGet, Zenon
  <2> QED BY <1>5, <1>10, <2>2, Zenon
<1>12. PlacedOK(t, next[t], throttled[t], asked[t], posted[t], ppBlocks)'
  BY <1>4, <1>5, <1>9, Zenon
<1>13. /\ SuccessLast(posted[t])'
       /\ (Has(posted[t], Success) => goodCt[t] >= NToDL(t))'
  BY <1>1, <1>5, Zenon DEF TaskInv
<1>14. (sm = "downloading" /\ ~ Has(posted[t], Errored) =>
          CoveredOK(t, ppBlkHtNext, Running(t), next[t], throttled[t], asked[t], posted[t], ppBlocks))'
  <2>1. Running(t)' = Running(t)
    BY <1>5 DEF Running
  <2>2. sm = "downloading" /\ ~ Has(p, Errored) =>
          CoveredOK(t, ppBlkHtNext, Running(t), n, T, A, p, ppBlocks)
    BY <1>1, Zenon DEF TaskInv
  <2>3. sm = "downloading" /\ ~ Has(p, Errored) =>
          CoveredOK(t, ppBlkHtNext, Running(t), n + NTasks, throttled'[t], asked'[t], p, ppBlocks)
    <3>1. CASE throttled'[t] = T \cup {n} /\ asked'[t] = A
      BY <1>9, <2>2, <3>1, Zenon
    <3>2. CASE throttled'[t] = T \ {n} /\ asked'[t] = A \cup {n}
      <4>1. CoveredOK(t, ppBlkHtNext, Running(t), n, T, A, p, ppBlocks) =>
              CoveredOK(t, ppBlkHtNext, Running(t), n + NTasks, T \ {n}, A \cup {n}, p, ppBlocks)
        BY <1>9
      <4> QED BY <2>2, <3>2, <4>1, Zenon
    <3> QED BY <1>4, <3>1, <3>2, Zenon
  <2> QED BY <1>5, <2>1, <2>3, Zenon
<1>15. (sm # "none" => NearOK(ppBlkHtNext + MaxBackLog, asked[t], posted[t], ppBlocks))'
  <2>1. sm # "none" => NearOK(ppBlkHtNext + MaxBackLog, A, p, ppBlocks)
    BY <1>1, Zenon DEF TaskInv
  <2>2. sm # "none" => NearOK(ppBlkHtNext + MaxBackLog, asked'[t], p, ppBlocks)
    BY <1>4, <2>1, Zenon DEF NearOK
  <2> QED BY <1>5, <2>2, Zenon
<1>16. TaskInv(t)'
  BY <1>11, <1>12, <1>13, <1>14, <1>15, Zenon DEF TaskInv
<1> QED BY <1>6, <1>7, <1>16, Zenon DEF IInv

\* process() finds no height left: the task has all its blocks.
LEMMA ProcessDoneStep ==
  ASSUME IInv, NEW t \in Task, ProcessDone(t)
  PROVE  IInv'
<1>1. Shape /\ TaskInv(t)
  BY DEF IInv
<1> DEFINE p == posted[t]
           s == p \o <<Success>>
<1>2. /\ again[t] > 0 /\ next[t] > EndHeight
      /\ again' = [again EXCEPT ![t] = again[t] - 1]
      /\ IF goodCt[t] >= NToDL(t) THEN posted' = [posted EXCEPT ![t] = s] ELSE posted' = posted
      /\ UNCHANGED <<ctlVars, next, goodCt, q_ct, throttled, asked>>
  BY DEF ProcessDone, Post
<1>3. /\ p \in Seq(Message) /\ Success \in Message /\ Success \notin Height
      /\ Success # Errored
  BY <1>1, TypesOf, NoHeight DEF Message
<1>4. /\ goodCt[t] >= NToDL(t)
      /\ CountOK(t, next[t], goodCt[t], q_ct[t], again[t] - 1, UnderWay(t), Has(p, Errored))
  <2>1. CountOK(t, next[t], goodCt[t], q_ct[t], again[t], UnderWay(t), Has(p, Errored))
    BY <1>1, Zenon DEF TaskInv
  <2> QED BY <1>1, <1>2, <2>1, TypesOf, CountDone, Zenon
<1>5. /\ s \in Seq(Message) /\ \A y : Has(s, y) <=> Has(p, y) \/ y = Success
  BY <1>3, PostHas
<1>6. /\ posted'[t] = s /\ again'[t] = again[t] - 1
      /\ next' = next /\ goodCt' = goodCt /\ q_ct' = q_ct /\ throttled' = throttled /\ asked' = asked
      /\ sm' = sm /\ ppBlkHtNext' = ppBlkHtNext /\ ppBlocks' = ppBlocks /\ deleted' = deleted
      /\ \A u \in Task \ {t} : posted'[u] = posted[u] /\ again'[u] = again[u]
  BY <1>1, <1>2, <1>4 DEF Shape, ctlVars
<1>7. Shape'
  <2>1. again[t] - 1 \in Nat
    BY <1>1, <1>2, TypesOf
  <2>2. posted' \in [Task -> Seq(Message)]
    BY <1>1, <1>2, <1>4, <1>5 DEF Shape
  <2> QED BY <1>1, <1>2, <1>6, <2>1, <2>2 DEF Shape
<1>8. ASSUME NEW u \in Task, u # t PROVE TaskInv(u)'
  <2>1. TaskInv(u)
    BY DEF IInv
  <2> QED BY <1>6, <1>8, <2>1, Frame
<1> HIDE DEF s
<1>9. CountOK(t, next[t], goodCt[t], q_ct[t], again[t], UnderWay(t), Has(posted[t], Errored))'
  <2>1. UnderWay(t)' = UnderWay(t)
    BY <1>6 DEF UnderWay
  <2>2. Has(posted'[t], Errored) = Has(p, Errored)
    <3>1. Has(s, Errored) <=> Has(p, Errored)
      BY <1>3, <1>5
    <3> QED BY <1>6, <3>1, Zenon DEF Has
  <2> QED BY <1>4, <1>6, <2>1, <2>2, Zenon
<1>10. /\ PlacedOK(t, next[t], throttled[t], asked[t], s, ppBlocks)
       /\ \A m, run : CoveredOK(t, m, run, next[t], throttled[t], asked[t], p, ppBlocks) =>
                        CoveredOK(t, m, run, next[t], throttled[t], asked[t], s, ppBlocks)
  <2>1. PlacedOK(t, next[t], throttled[t], asked[t], p, ppBlocks)
    BY <1>1, Zenon DEF TaskInv
  <2>2. asked[t] \in SUBSET asked[t]
    OBVIOUS
  <2> QED BY <1>3, <2>1, <2>2, PlacedOther, Zenon DEF s
<1>11. SuccessLast(s)
  BY <1>1, <1>3, PostSuccessLast, Zenon DEF TaskInv, s
<1>12. sm = "downloading" /\ ~ Has(s, Errored) =>
         CoveredOK(t, ppBlkHtNext, Running(t), next[t], throttled[t], asked[t], s, ppBlocks)
  <2>1. ~ Has(s, Errored) => ~ Has(p, Errored)
    BY <1>5
  <2>2. sm = "downloading" /\ ~ Has(p, Errored) =>
          CoveredOK(t, ppBlkHtNext, Running(t), next[t], throttled[t], asked[t], p, ppBlocks)
    BY <1>1, Zenon DEF TaskInv
  <2> QED BY <1>10, <2>1, <2>2, Zenon
<1>13. sm # "none" => NearOK(ppBlkHtNext + MaxBackLog, asked[t], s, ppBlocks)
  <2>1. sm # "none" => NearOK(ppBlkHtNext + MaxBackLog, asked[t], p, ppBlocks)
    BY <1>1, Zenon DEF TaskInv
  <2>2. \A h \in Height : Has(s, h) => Has(p, h)
    BY <1>3, <1>5
  <2> QED BY <2>1, <2>2, Zenon DEF NearOK
<1>14. Running(t)' = Running(t)
  BY <1>6 DEF Running
<1>15. /\ PlacedOK(t, next[t], throttled[t], asked[t], posted[t], ppBlocks)'
       /\ SuccessLast(posted[t])' /\ (Has(posted[t], Success) => goodCt[t] >= NToDL(t))'
  BY <1>4, <1>6, <1>10, <1>11, Zenon
<1>16. (sm = "downloading" /\ ~ Has(posted[t], Errored) =>
          CoveredOK(t, ppBlkHtNext, Running(t), next[t], throttled[t], asked[t], posted[t], ppBlocks))'
  BY <1>6, <1>12, <1>14, Zenon
<1>17. (sm # "none" => NearOK(ppBlkHtNext + MaxBackLog, asked[t], posted[t], ppBlocks))'
  BY <1>6, <1>13, Zenon
<1>18. TaskInv(t)'
  BY <1>9, <1>15, <1>16, <1>17, Zenon DEF TaskInv
<1> QED BY <1>7, <1>8, <1>18, Zenon DEF IInv

\* The timer of a throttled get fires.
LEMMA ThrottleTimerStep ==
  ASSUME IInv, NEW t \in Task, ThrottleTimer(t)
  PROVE  IInv'
<1>1. Shape /\ TaskInv(t)
  BY DEF IInv
<1>2. PICK h \in throttled[t] : DoGet(t, h)
  BY DEF ThrottleTimer
<1> DEFINE T == throttled[t]
           A == asked[t]
           p == posted[t]
           n == next[t]
<1>3. /\ posted' = posted /\ next' = next /\ goodCt' = goodCt /\ q_ct' = q_ct /\ again' = again
      /\ sm' = sm /\ ppBlkHtNext' = ppBlkHtNext /\ ppBlocks' = ppBlocks /\ deleted' = deleted
  BY DEF ThrottleTimer, ctlVars
<1>4. T \in SUBSET Height /\ A \in SUBSET Height /\ h \in Height
  BY <1>1, <1>2, TypesOf
<1>5. PlacedOK(t, n, T, A, p, ppBlocks)
  BY <1>1, Zenon DEF TaskInv
<1>6. /\ h \notin A /\ T \cup {h} = T
      /\ PlacedOK(t, n, T \ {h}, A \cup {h}, p, ppBlocks)
      /\ \A m, run : CoveredOK(t, m, run, n, T, A, p, ppBlocks) =>
                       CoveredOK(t, m, run, n, T \ {h}, A \cup {h}, p, ppBlocks)
  <2> HIDE DEF n, T, A, p
  <2> QED BY <1>2, <1>5, PlacedTimer, Zenon DEF T
<1>7. /\ throttled' \in [Task -> SUBSET Height] /\ asked' \in [Task -> SUBSET Height]
      /\ \A u \in Task \ {t} : throttled'[u] = throttled[u] /\ asked'[u] = asked[u]
      /\ \/ throttled'[t] = T /\ asked'[t] = A
         \/ /\ throttled'[t] = T \ {h} /\ asked'[t] = A \cup {h}
            /\ sm # "none" => h <= ppBlkHtNext + MaxBackLog
  BY <1>1, <1>2, <1>4, <1>6, DoGetIs
<1>8. Shape'
  BY <1>1, <1>3, <1>7 DEF Shape
<1>9. ASSUME NEW u \in Task, u # t PROVE TaskInv(u)'
  <2>1. TaskInv(u)
    BY DEF IInv
  <2> QED BY <1>3, <1>7, <1>9, <2>1, Frame
<1>10. CASE throttled'[t] = T /\ asked'[t] = A
  <2>1. TaskInv(t)'
    BY <1>1, <1>3, <1>10, Frame
  <2> QED BY <1>8, <1>9, <2>1, Zenon DEF IInv
<1>11. CASE /\ throttled'[t] = T \ {h} /\ asked'[t] = A \cup {h}
            /\ sm # "none" => h <= ppBlkHtNext + MaxBackLog
  <2>1. UnderWay(t)' = UnderWay(t)
    <3>1. /\ Cardinality(T \ {h}) = Cardinality(T) - 1 /\ Cardinality(A \cup {h}) = Cardinality(A) + 1
          /\ Cardinality(T) \in Nat /\ Cardinality(A) \in Nat
      BY <1>2, <1>4, <1>6, Sizes
    <3>2. UnderWay(t)' = Cardinality(T \ {h}) + Cardinality(A \cup {h})
      BY <1>11, Zenon DEF UnderWay
    <3> QED BY <3>1, <3>2 DEF UnderWay
  <2>2. CountOK(t, next[t], goodCt[t], q_ct[t], again[t], UnderWay(t), Has(posted[t], Errored))'
    <3>1. CountOK(t, n, goodCt[t], q_ct[t], again[t], UnderWay(t), Has(p, Errored))
      BY <1>1, Zenon DEF TaskInv
    <3> QED BY <1>3, <2>1, <3>1, Zenon
  <2>3. /\ PlacedOK(t, next[t], throttled[t], asked[t], posted[t], ppBlocks)'
        /\ SuccessLast(posted[t])' /\ (Has(posted[t], Success) => goodCt[t] >= NToDL(t))'
    BY <1>1, <1>3, <1>6, <1>11, Zenon DEF TaskInv
  <2>4. Running(t)' = Running(t)
    BY <1>3 DEF Running
  <2>5. (sm = "downloading" /\ ~ Has(posted[t], Errored) =>
           CoveredOK(t, ppBlkHtNext, Running(t), next[t], throttled[t], asked[t], posted[t], ppBlocks))'
    <3>1. sm = "downloading" /\ ~ Has(p, Errored) =>
            CoveredOK(t, ppBlkHtNext, Running(t), n, T, A, p, ppBlocks)
      BY <1>1, Zenon DEF TaskInv
    <3>2. sm = "downloading" /\ ~ Has(p, Errored) =>
            CoveredOK(t, ppBlkHtNext, Running(t), n, T \ {h}, A \cup {h}, p, ppBlocks)
      BY <1>6, <3>1
    <3> QED BY <1>3, <1>11, <2>4, <3>2, Zenon
  <2>6. (sm # "none" => NearOK(ppBlkHtNext + MaxBackLog, asked[t], posted[t], ppBlocks))'
    <3>1. sm # "none" => NearOK(ppBlkHtNext + MaxBackLog, A, p, ppBlocks)
      BY <1>1, Zenon DEF TaskInv
    <3>2. sm # "none" => NearOK(ppBlkHtNext + MaxBackLog, A \cup {h}, p, ppBlocks)
      BY <1>11, <3>1, Zenon DEF NearOK
    <3> QED BY <1>3, <1>11, <3>2, Zenon
  <2>7. TaskInv(t)'
    BY <2>2, <2>3, <2>5, <2>6, Zenon DEF TaskInv
  <2> QED BY <1>8, <1>9, <2>7, Zenon DEF IInv
<1> QED BY <1>7, <1>10, <1>11, Zenon

\* A block arrives.
LEMMA GotBlockStep ==
  ASSUME IInv, NEW t \in Task, NEW h, GotBlock(t, h)
  PROVE  IInv'
<1>1. Shape /\ TaskInv(t)
  BY DEF IInv
<1> DEFINE p == posted[t]
           s == p \o <<h>>
           A == asked[t]
           R == A \ {h}
           n == next[t]
           w == UnderWay(t)
           g == goodCt[t] + 1
           q == OneLess(q_ct[t])
           more == IF QueueMore(t, g, q) > 0 THEN QueueMore(t, g, q) ELSE 0
           newQ == IF g >= NToDL(t) THEN q ELSE q + more
           newA == IF g >= NToDL(t) THEN again[t] + 1 ELSE again[t] + more
<1>2. /\ h \in A /\ asked' = [asked EXCEPT ![t] = R]
      /\ goodCt' = [goodCt EXCEPT ![t] = g] /\ q_ct' = [q_ct EXCEPT ![t] = newQ]
      /\ again' = [again EXCEPT ![t] = newA] /\ posted' = [posted EXCEPT ![t] = s]
      /\ UNCHANGED <<ctlVars, next, throttled>>
  BY DEF GotBlock, Post
<1>3. /\ p \in Seq(Message) /\ A \in SUBSET Height /\ h \in Message /\ h \in Height
      /\ h # Success /\ h # Errored
  BY <1>1, <1>2, TypesOf, NoHeight DEF Message
<1>4. w \in Nat /\ w > 0
  <2>1. Cardinality(A) \in Nat /\ Cardinality(A) > 0 /\ Cardinality(throttled[t]) \in Nat
    BY <1>1, <1>2, <1>3, Sizes, TypesOf
  <2> QED BY <2>1 DEF UnderWay
<1>5. CountOK(t, n, goodCt[t], q_ct[t], again[t], w, Has(p, Errored))
  BY <1>1, Zenon DEF TaskInv
<1>6. newQ \in Nat /\ newA \in Nat /\ CountOK(t, n, g, newQ, newA, w - 1, Has(p, Errored))
  <2>1. /\ goodCt[t] \in Nat /\ q_ct[t] \in Nat /\ again[t] \in Nat
    BY <1>1, TypesOf
  <2> HIDE DEF w, p, n
  <2> QED BY <1>4, <1>5, <2>1, CountBlock, Zenon
<1> HIDE DEF newQ, newA
<1>7. ~ Has(p, Success)
  <2>1. ~ (goodCt[t] >= NToDL(t))
    <3>1. /\ goodCt[t] \in Nat /\ q_ct[t] \in Nat /\ again[t] \in Nat
      BY <1>1, TypesOf
    <3> HIDE DEF w, p, n
    <3> QED BY <1>4, <1>5, <3>1, CountBusy, Zenon
  <2>2. Has(p, Success) => goodCt[t] >= NToDL(t)
    BY <1>1, Zenon DEF TaskInv
  <2> QED BY <2>1, <2>2
<1>8. s \in Seq(Message) /\ \A y : Has(s, y) <=> Has(p, y) \/ y = h
  BY <1>3, PostHas
<1>9. /\ posted'[t] = s /\ asked'[t] = R /\ goodCt'[t] = g /\ q_ct'[t] = newQ /\ again'[t] = newA
      /\ next' = next /\ throttled' = throttled
      /\ sm' = sm /\ ppBlkHtNext' = ppBlkHtNext /\ ppBlocks' = ppBlocks /\ deleted' = deleted
  BY <1>1, <1>2 DEF Shape, ctlVars
<1>10. \A u \in Task \ {t} : /\ posted'[u] = posted[u] /\ asked'[u] = asked[u]
                             /\ goodCt'[u] = goodCt[u] /\ q_ct'[u] = q_ct[u] /\ again'[u] = again[u]
  BY <1>1, <1>2 DEF Shape
<1>11. Shape'
  <2>1. goodCt[t] \in Nat
    BY <1>1, TypesOf, Zenon
  <2>2. g \in Nat
    BY <2>1
  <2>3. R \in SUBSET Height
    BY <1>3
  <2> HIDE DEF g, R, s
  <2> QED BY <1>1, <1>2, <1>6, <1>8, <1>9, <2>2, <2>3 DEF Shape
<1>12. ASSUME NEW u \in Task, u # t PROVE TaskInv(u)'
  <2>1. TaskInv(u)
    BY DEF IInv
  <2> QED BY <1>9, <1>10, <1>12, <2>1, Frame
<1> HIDE DEF s
<1>13. CountOK(t, next[t], goodCt[t], q_ct[t], again[t], UnderWay(t), Has(posted[t], Errored))'
  <2>1. UnderWay(t)' = w - 1
    <3>1. /\ Cardinality(R) = Cardinality(A) - 1 /\ Cardinality(A) \in Nat
          /\ Cardinality(throttled[t]) \in Nat
      BY <1>1, <1>2, <1>3, Sizes, TypesOf
    <3>2. UnderWay(t)' = Cardinality(throttled[t]) + Cardinality(R)
      BY <1>9, Zenon DEF UnderWay
    <3> QED BY <3>1, <3>2 DEF UnderWay
  <2>2. Has(posted'[t], Errored) = Has(p, Errored)
    <3>1. Has(s, Errored) <=> Has(p, Errored)
      BY <1>3, <1>8
    <3> QED BY <1>9, <3>1, Zenon DEF Has
  <2> QED BY <1>6, <1>9, <2>1, <2>2, Zenon
<1>14. /\ PlacedOK(t, n, throttled[t], R, s, ppBlocks)
       /\ \A m, run : CoveredOK(t, m, run, n, throttled[t], A, p, ppBlocks) =>
                        CoveredOK(t, m, run, n, throttled[t], R, s, ppBlocks)
  <2>1. PlacedOK(t, n, throttled[t], A, p, ppBlocks)
    BY <1>1, Zenon DEF TaskInv
  <2> HIDE DEF n, A, p
  <2> QED BY <1>2, <1>3, <2>1, PlacedBlock, Zenon DEF s
<1>15. SuccessLast(s)
  BY <1>1, <1>3, <1>7, PostSuccessLast, Zenon DEF TaskInv, s
<1>16. ~ Has(s, Success)
  BY <1>3, <1>7, <1>8
<1>17. sm = "downloading" /\ ~ Has(s, Errored) =>
         CoveredOK(t, ppBlkHtNext, Running(t), n, throttled[t], R, s, ppBlocks)
  <2>1. ~ Has(s, Errored) => ~ Has(p, Errored)
    BY <1>8
  <2>2. sm = "downloading" /\ ~ Has(p, Errored) =>
          CoveredOK(t, ppBlkHtNext, Running(t), n, throttled[t], A, p, ppBlocks)
    BY <1>1, Zenon DEF TaskInv
  <2>3. CoveredOK(t, ppBlkHtNext, Running(t), n, throttled[t], A, p, ppBlocks) =>
          CoveredOK(t, ppBlkHtNext, Running(t), n, throttled[t], R, s, ppBlocks)
    BY <1>14
  <2> QED BY <2>1, <2>2, <2>3, Zenon
<1>18. sm # "none" => NearOK(ppBlkHtNext + MaxBackLog, R, s, ppBlocks)
  <2>1. sm # "none" => NearOK(ppBlkHtNext + MaxBackLog, A, p, ppBlocks)
    BY <1>1, Zenon DEF TaskInv
  <2>2. \A y \in Height : y \in R \/ Has(s, y) => y \in A \/ Has(p, y)
    BY <1>2, <1>8
  <2> HIDE DEF R, A, p
  <2> QED BY <2>1, <2>2, Zenon DEF NearOK
<1>19. Running(t)' = Running(t)
  BY <1>9 DEF Running
<1>20. /\ PlacedOK(t, next[t], throttled[t], asked[t], posted[t], ppBlocks)'
       /\ SuccessLast(posted[t])' /\ (Has(posted[t], Success) => goodCt[t] >= NToDL(t))'
  BY <1>9, <1>14, <1>15, <1>16, Zenon
<1>21. (sm = "downloading" /\ ~ Has(posted[t], Errored) =>
          CoveredOK(t, ppBlkHtNext, Running(t), next[t], throttled[t], asked[t], posted[t], ppBlocks))'
  BY <1>9, <1>17, <1>19, Zenon
<1>22. (sm # "none" => NearOK(ppBlkHtNext + MaxBackLog, asked[t], posted[t], ppBlocks))'
  BY <1>9, <1>18, Zenon
<1>23. TaskInv(t)'
  BY <1>13, <1>20, <1>21, <1>22, Zenon DEF TaskInv
<1> QED BY <1>11, <1>12, <1>23, Zenon DEF IInv

\* A get fails.
LEMMA GotErrorStep ==
  ASSUME IInv, NEW t \in Task, NEW h, GotError(t, h)
  PROVE  IInv'
<1>1. Shape /\ TaskInv(t)
  BY DEF IInv
<1> DEFINE p == posted[t]
           s == p \o <<Errored>>
           A == asked[t]
           R == A \ {h}
           n == next[t]
           w == UnderWay(t)
<1>2. /\ h \in A /\ asked' = [asked EXCEPT ![t] = R] /\ posted' = [posted EXCEPT ![t] = s]
      /\ UNCHANGED <<ctlVars, next, goodCt, q_ct, again, throttled>>
  BY DEF GotError, Post
<1>3. /\ p \in Seq(Message) /\ A \in SUBSET Height /\ Errored \in Message /\ Errored \notin Height
      /\ Errored # Success
  BY <1>1, TypesOf, NoHeight DEF Message
<1>4. w \in Nat /\ w > 0
  <2>1. Cardinality(A) \in Nat /\ Cardinality(A) > 0 /\ Cardinality(throttled[t]) \in Nat
    BY <1>1, <1>2, <1>3, Sizes, TypesOf
  <2> QED BY <2>1 DEF UnderWay
<1>5. CountOK(t, n, goodCt[t], q_ct[t], again[t], w - 1, TRUE)
  <2>1. CountOK(t, n, goodCt[t], q_ct[t], again[t], w, Has(p, Errored))
    BY <1>1, Zenon DEF TaskInv
  <2> QED BY <1>1, <1>4, <2>1, TypesOf, CountError, Zenon
<1>6. s \in Seq(Message) /\ \A y : Has(s, y) <=> Has(p, y) \/ y = Errored
  BY <1>3, PostHas
<1>7. /\ posted'[t] = s /\ asked'[t] = R /\ goodCt' = goodCt /\ q_ct' = q_ct /\ again' = again
      /\ next' = next /\ throttled' = throttled
      /\ sm' = sm /\ ppBlkHtNext' = ppBlkHtNext /\ ppBlocks' = ppBlocks /\ deleted' = deleted
      /\ \A u \in Task \ {t} : posted'[u] = posted[u] /\ asked'[u] = asked[u]
  BY <1>1, <1>2 DEF Shape, ctlVars
<1>8. Shape'
  <2>1. R \in SUBSET Height
    BY <1>3
  <2> HIDE DEF R, s
  <2> QED BY <1>1, <1>2, <1>6, <1>7, <2>1 DEF Shape
<1>9. ASSUME NEW u \in Task, u # t PROVE TaskInv(u)'
  <2>1. TaskInv(u)
    BY DEF IInv
  <2> QED BY <1>7, <1>9, <2>1, Frame
<1> HIDE DEF s
<1>10. Has(posted'[t], Errored) = TRUE
  <2>1. Has(s, Errored)
    BY <1>6
  <2> QED BY <1>7, <2>1, Zenon DEF Has
<1>11. CountOK(t, next[t], goodCt[t], q_ct[t], again[t], UnderWay(t), Has(posted[t], Errored))'
  <2>1. UnderWay(t)' = w - 1
    <3>1. /\ Cardinality(R) = Cardinality(A) - 1 /\ Cardinality(A) \in Nat
          /\ Cardinality(throttled[t]) \in Nat
      BY <1>1, <1>2, <1>3, Sizes, TypesOf
    <3>2. UnderWay(t)' = Cardinality(throttled[t]) + Cardinality(R)
      BY <1>7, Zenon DEF UnderWay
    <3> QED BY <3>1, <3>2 DEF UnderWay
  <2> QED BY <1>5, <1>7, <1>10, <2>1, Zenon
<1>12. PlacedOK(t, n, throttled[t], R, s, ppBlocks)
  <2>1. PlacedOK(t, n, throttled[t], A, p, ppBlocks)
    BY <1>1, Zenon DEF TaskInv
  <2>2. R \in SUBSET A
    OBVIOUS
  <2> HIDE DEF n, A, p, R
  <2> QED BY <1>3, <2>1, <2>2, PlacedOther, Zenon DEF s
<1>13. SuccessLast(s)
  BY <1>1, <1>3, PostSuccessLast, Zenon DEF TaskInv, s
<1>14. Has(s, Success) => goodCt[t] >= NToDL(t)
  BY <1>1, <1>3, <1>6, Zenon DEF TaskInv
<1>15. sm # "none" => NearOK(ppBlkHtNext + MaxBackLog, R, s, ppBlocks)
  <2>1. sm # "none" => NearOK(ppBlkHtNext + MaxBackLog, A, p, ppBlocks)
    BY <1>1, Zenon DEF TaskInv
  <2>2. \A y \in Height : y \in R \/ Has(s, y) => y \in A \/ Has(p, y)
    BY <1>2, <1>3, <1>6
  <2> HIDE DEF R, A, p
  <2> QED BY <2>1, <2>2, Zenon DEF NearOK
<1>16. /\ PlacedOK(t, next[t], throttled[t], asked[t], posted[t], ppBlocks)'
       /\ SuccessLast(posted[t])' /\ (Has(posted[t], Success) => goodCt[t] >= NToDL(t))'
  BY <1>7, <1>12, <1>13, <1>14, Zenon
<1>17. (sm # "none" => NearOK(ppBlkHtNext + MaxBackLog, asked[t], posted[t], ppBlocks))'
  BY <1>7, <1>15, Zenon
<1>18. TaskInv(t)'
  BY <1>10, <1>11, <1>16, <1>17, Zenon DEF TaskInv
<1> QED BY <1>8, <1>9, <1>18, Zenon DEF IInv

\* The Controller goes on to height l.
LEMMA Further ==
  ASSUME NEW m \in Base .. EndHeight + 1, NEW l \in m .. EndHeight + 1
  PROVE  /\ m \in Int /\ l \in Int /\ m <= l /\ l \in Base .. EndHeight + 1
         /\ \A y \in Height : y <= m + MaxBackLog => y <= l + MaxBackLog
<1>1. m \in Int /\ l \in Int /\ m <= l /\ l \in Base .. EndHeight + 1
  BY Tasks
<1> QED BY <1>1, Tasks DEF Height

\* The Controller takes a block from a task.  It adds the blocks below its new ppBlkHtNext to
\* Storage, and while it goes on it keeps all others.
LEMMA TakeBlockStep ==
  ASSUME IInv, NEW t \in Task, HeadIsBlock(t),
         ppBlkHtNext' \in ppBlkHtNext .. EndHeight + 1,
         ppBlocks' \in SUBSET (ppBlocks \cup {Head(posted[t])}),
         sm' \in {"downloading", "finished", "failed", "none"},
         sm' # "none" => sm # "none",
         sm' = "downloading" =>
           /\ sm = "downloading"
           /\ ppBlocks' = {g \in ppBlocks \cup {Head(posted[t])} : g >= ppBlkHtNext'},
         posted' = [posted EXCEPT ![t] = Tail(posted[t])],
         UNCHANGED <<deleted, next, goodCt, q_ct, again, throttled, asked>>
  PROVE  IInv'
<1>1. Shape /\ TaskInv(t)
  BY DEF IInv
<1> DEFINE h == Head(posted[t])
           m == ppBlkHtNext
           l == ppBlkHtNext'
           B == ppBlocks
           C == ppBlocks'
<1>2. posted[t] \in Seq(Message) /\ posted[t] # <<>> /\ h \in Height
  BY <1>1, TypesOf DEF HeadIsBlock
<1>3. /\ m \in Int /\ l \in Int /\ m <= l /\ l \in Base .. EndHeight + 1
      /\ \A y \in Height : y <= m + MaxBackLog => y <= l + MaxBackLog
  <2>1. m \in Base .. EndHeight + 1
    BY <1>1 DEF Shape
  <2> QED BY <2>1, Further
<1>4. /\ posted'[t] = Tail(posted[t]) /\ Tail(posted[t]) \in Seq(Message)
      /\ \A u \in Task \ {t} : posted'[u] = posted[u]
      /\ next' = next /\ goodCt' = goodCt /\ q_ct' = q_ct /\ again' = again
      /\ throttled' = throttled /\ asked' = asked /\ deleted' = deleted
  BY <1>1, <1>2, Popped DEF Shape
<1>5. Shape'
  <2>1. C \subseteq Height
    BY <1>1, <1>2 DEF Shape
  <2> QED BY <1>1, <1>3, <1>4, <2>1 DEF Shape
<1>6. /\ \A y : Has(posted[t], y) <=> y = h \/ Has(posted'[t], y)
      /\ SuccessLast(posted[t]) => SuccessLast(posted'[t])
  BY <1>2, <1>4, Popped
<1>7. PlacedOK(t, next[t], throttled[t], asked[t], posted[t], B)
  BY <1>1, Zenon DEF TaskInv
<1>8. Owns(t, h) /\ Has(posted[t], h)
  <2>1. Has(posted[t], h)
    BY <1>6
  <2> QED BY <1>2, <1>7, <2>1, Zenon DEF PlacedOK
<1>9. ASSUME NEW u \in Task PROVE TaskInv(u)'
  <2> DEFINE p == posted[u]
             s == posted'[u]
  <2>1. TaskInv(u)
    BY DEF IInv
  <2>2. /\ \A y : Has(p, y) => y = h \/ Has(s, y)
        /\ \A y : Has(s, y) => Has(p, y)
        /\ SuccessLast(p) => SuccessLast(s)
    <3>1. CASE u = t
      BY <1>6, <3>1
    <3>2. CASE u # t
      BY <1>4, <3>2
    <3> QED BY <3>1, <3>2
  <2>3. UnderWay(u)' = UnderWay(u) /\ Running(u)' = Running(u)
    BY <1>4 DEF UnderWay, Running
  <2>4. Has(s, Errored) = Has(p, Errored)
    <3>1. h # Errored
      BY <1>2, NoHeight
    <3>2. Has(s, Errored) <=> Has(p, Errored)
      BY <2>2, <3>1, Zenon
    <3> QED BY <3>2, Zenon DEF Has
  <2>5. CountOK(u, next[u], goodCt[u], q_ct[u], again[u], UnderWay(u), Has(posted[u], Errored))'
    <3>1. CountOK(u, next[u], goodCt[u], q_ct[u], again[u], UnderWay(u), Has(p, Errored))
      BY <2>1, Zenon DEF TaskInv
    <3> QED BY <1>4, <2>3, <2>4, <3>1, Zenon
  <2>6. PlacedOK(u, next[u], throttled[u], asked[u], s, C)
    <3>1. CASE u = t
      <4> HIDE DEF B, C
      <4>1. C \in SUBSET (B \cup {Head(posted[t])})
        BY DEF B, C
      <4>2. PlacedOK(t, next[t], throttled[t], asked[t], Tail(posted[t]), C)
        BY <1>2, <1>7, <4>1, PlacedPut, Zenon
      <4> QED BY <1>4, <3>1, <4>2, Zenon
    <3>2. CASE u # t
      <4>1. ~ Owns(u, h)
        BY <1>2, <1>8, <3>2, Owner, Zenon
      <4>2. PlacedOK(u, next[u], throttled[u], asked[u], p, B)
        BY <2>1, Zenon DEF TaskInv
      <4>3. C \in SUBSET (B \cup {h}) /\ s = p
        BY <1>4, <3>2
      <4> HIDE DEF B, C, h, p, s
      <4>4. PlacedOK(u, next[u], throttled[u], asked[u], p, C)
        BY <4>1, <4>2, <4>3, PlacedElsewhere, Zenon
      <4> QED BY <4>3, <4>4, Zenon
    <3> QED BY <3>1, <3>2
  <2>7. sm' = "downloading" /\ ~ Has(s, Errored) =>
          CoveredOK(u, l, Running(u), next[u], throttled[u], asked[u], s, C)
    <3> SUFFICES ASSUME sm' = "downloading", ~ Has(s, Errored)
                 PROVE  CoveredOK(u, l, Running(u), next[u], throttled[u], asked[u], s, C)
      OBVIOUS
    <3>1. sm = "downloading" /\ ~ Has(p, Errored)
      BY <2>4, Zenon
    <3>2. CoveredOK(u, m, Running(u), next[u], throttled[u], asked[u], p, B)
      BY <2>1, <3>1, Zenon DEF TaskInv
    <3>3. C = {g \in B \cup {h} : g >= l}
      OBVIOUS
    <3>4. CoveredOK(u, l, Running(u), next[u], throttled[u], asked[u], s, {g \in B \cup {h} : g >= l})
      <4> HIDE DEF B, C, h, p, s, m, l
      <4> QED BY <1>3, <2>2, <3>2, CoveredPut
    <3> HIDE DEF B, C, h, p, s, m, l
    <3> QED BY <3>3, <3>4
  <2>8. sm' # "none" => NearOK(l + MaxBackLog, asked[u], s, C)
    <3> SUFFICES ASSUME sm' # "none" PROVE NearOK(l + MaxBackLog, asked[u], s, C)
      OBVIOUS
    <3>1. /\ NearOK(m + MaxBackLog, asked[u], p, B)
          /\ NearOK(m + MaxBackLog, asked[t], posted[t], B)
      BY <1>1, <2>1, Zenon DEF TaskInv
    <3>2. \A y \in Height : y \in asked[u] \/ Has(s, y) \/ y \in C => y <= m + MaxBackLog
      <4>1. h <= m + MaxBackLog
        BY <1>2, <1>8, <3>1, Zenon DEF NearOK
      <4>2. \A y \in C : y \in B \/ y = h
        OBVIOUS
      <4> HIDE DEF B, C, h, p, s, m, l
      <4> QED BY <2>2, <3>1, <4>1, <4>2, Zenon DEF NearOK
    <3> HIDE DEF B, C, h, p, s, m, l
    <3> QED BY <1>3, <3>2, Zenon DEF NearOK
  <2>9. SuccessLast(s) /\ (Has(s, Success) => goodCt[u] >= NToDL(u))
    BY <2>1, <2>2, Zenon DEF TaskInv
  <2>10. /\ PlacedOK(u, next[u], throttled[u], asked[u], posted[u], ppBlocks)'
         /\ SuccessLast(posted[u])' /\ (Has(posted[u], Success) => goodCt[u] >= NToDL(u))'
    BY <1>4, <2>6, <2>9, Zenon
  <2>11. (sm = "downloading" /\ ~ Has(posted[u], Errored) =>
            CoveredOK(u, ppBlkHtNext, Running(u), next[u], throttled[u], asked[u], posted[u], ppBlocks))'
    BY <1>4, <2>3, <2>7, Zenon
  <2>12. (sm # "none" => NearOK(ppBlkHtNext + MaxBackLog, asked[u], posted[u], ppBlocks))'
    BY <1>4, <2>8, Zenon
  <2> QED BY <2>5, <2>10, <2>11, <2>12, Zenon DEF TaskInv
<1> QED BY <1>5, <1>9, Zenon DEF IInv

\* on_putBlock.
LEMMA PutBlockStep ==
  ASSUME IInv, NEW t \in Task, PutBlock(t) \/ PutBlockRejected(t)
  PROVE  IInv'
<1> DEFINE S == ppBlocks \cup {Head(posted[t])}
           f == FirstMissing(S)
<1>1. /\ HeadIsBlock(t) /\ posted' = [posted EXCEPT ![t] = Tail(posted[t])]
      /\ UNCHANGED <<deleted, next, goodCt, q_ct, again, throttled, asked>>
  BY DEF PutBlock, PutBlockRejected
<1>2. /\ sm \in {"downloading", "finished", "failed", "none"}
      /\ ppBlkHtNext \in Base .. EndHeight + 1 /\ S \in SUBSET Height
  BY <1>1 DEF IInv, Shape, HeadIsBlock
<1>3. f \in ppBlkHtNext .. EndHeight + 1
  BY <1>2, FirstMissingIs
<1>4. CASE PutBlock(t) /\ sm # "downloading"
  <2>1. sm' = sm /\ ppBlkHtNext' = ppBlkHtNext /\ ppBlocks' = ppBlocks
    BY <1>4 DEF PutBlock
  <2>2. ppBlkHtNext' \in ppBlkHtNext .. EndHeight + 1 /\ ppBlocks' \in SUBSET S
    BY <1>2, <2>1, Tasks
  <2> QED BY <1>1, <1>2, <1>4, <2>1, <2>2, TakeBlockStep
<1>5. CASE PutBlock(t) /\ sm = "downloading"
  <2>1. /\ ppBlkHtNext' = f /\ ppBlocks' = {h \in S : h >= f}
        /\ sm' \in {"finished", "downloading"}
    BY <1>5 DEF PutBlock
  <2> HIDE DEF f
  <2>2. ppBlkHtNext' \in ppBlkHtNext .. EndHeight + 1 /\ ppBlocks' \in SUBSET S
    BY <1>3, <2>1
  <2>3. ppBlocks' = {h \in S : h >= ppBlkHtNext'}
    BY <2>1
  <2> QED BY <1>1, <1>5, <2>1, <2>2, <2>3, TakeBlockStep
<1>6. CASE PutBlockRejected(t)
  <2>1. sm = "downloading" /\ sm' = "failed"
    BY <1>6 DEF PutBlockRejected
  <2>2. PICK h \in ppBlkHtNext .. f - 1 : ppBlkHtNext' = h + 1 /\ ppBlocks' = {g \in S : g > h}
    BY <1>6 DEF PutBlockRejected
  <2> HIDE DEF f
  <2>3. ppBlkHtNext' \in ppBlkHtNext .. EndHeight + 1 /\ ppBlocks' \in SUBSET S
    BY <1>2, <1>3, <2>2, Tasks
  <2> QED BY <1>1, <2>1, <2>3, TakeBlockStep
<1> QED BY <1>4, <1>5, <1>6

\* A step of the Controller's machine alone.
LEMMA MachineFrame ==
  ASSUME NEW u \in Task, TaskInv(u), UNCHANGED <<ppBlkHtNext, ppBlocks, taskVars>>,
         sm' # "none" => sm # "none",
         sm' = "downloading" /\ ~ Has(posted[u], Errored) =>
           CoveredOK(u, ppBlkHtNext, Running(u)', next[u], throttled[u], asked[u], posted[u], ppBlocks)
  PROVE  TaskInv(u)'
<1>1. /\ posted' = posted /\ next' = next /\ goodCt' = goodCt /\ q_ct' = q_ct /\ again' = again
      /\ throttled' = throttled /\ asked' = asked /\ ppBlkHtNext' = ppBlkHtNext /\ ppBlocks' = ppBlocks
  BY DEF taskVars
<1>2. UnderWay(u)' = UnderWay(u)
  BY <1>1 DEF UnderWay
<1>3. CountOK(u, next[u], goodCt[u], q_ct[u], again[u], UnderWay(u), Has(posted[u], Errored))'
  <2>1. CountOK(u, next[u], goodCt[u], q_ct[u], again[u], UnderWay(u), Has(posted[u], Errored))
    BY Zenon DEF TaskInv
  <2> QED BY <1>1, <1>2, <2>1, Zenon
<1>4. /\ PlacedOK(u, next[u], throttled[u], asked[u], posted[u], ppBlocks)'
      /\ SuccessLast(posted[u])' /\ (Has(posted[u], Success) => goodCt[u] >= NToDL(u))'
  BY <1>1, Zenon DEF TaskInv
<1>5. (sm = "downloading" /\ ~ Has(posted[u], Errored) =>
         CoveredOK(u, ppBlkHtNext, Running(u), next[u], throttled[u], asked[u], posted[u], ppBlocks))'
  BY <1>1, Zenon
<1>6. (sm # "none" => NearOK(ppBlkHtNext + MaxBackLog, asked[u], posted[u], ppBlocks))'
  <2>1. sm # "none" => NearOK(ppBlkHtNext + MaxBackLog, asked[u], posted[u], ppBlocks)
    BY Zenon DEF TaskInv
  <2> QED BY <1>1, <2>1, Zenon
<1> QED BY <1>3, <1>4, <1>5, <1>6, Zenon DEF TaskInv

\* A task is stopped: it succeeded and nothing of it is left, or the machine fails.
LEMMA TaskEndedStep ==
  ASSUME IInv, NEW t \in Task, TaskEnded(t)
  PROVE  IInv'
<1>1. Shape /\ TaskInv(t)
  BY DEF IInv
<1> DEFINE p == posted[t]
<1>2. /\ p # <<>> /\ Head(p) \notin Height /\ deleted' = deleted \cup {t}
      /\ sm' = IF Head(p) = Errored /\ sm = "downloading" THEN "failed" ELSE sm
      /\ UNCHANGED <<ppBlkHtNext, ppBlocks, taskVars>>
  BY DEF TaskEnded, HeadIsBlock
<1>3. p \in Seq(Message) /\ Head(p) \in {Success, Errored} /\ Has(p, Head(p))
  <2>1. p \in Seq(Message)
    BY <1>1, TypesOf
  <2> QED BY <1>2, <2>1, Popped DEF Message
<1>4. Shape'
  <2>1. sm' \in {"downloading", "finished", "failed", "none"}
    BY <1>1, <1>2 DEF Shape
  <2> QED BY <1>1, <1>2, <2>1 DEF Shape, taskVars
<1>5. /\ sm' # "none" => sm # "none"
      /\ sm' = "downloading" => sm = "downloading" /\ Head(p) # Errored
  BY <1>2
<1>6. ASSUME NEW u \in Task, u # t PROVE TaskInv(u)'
  <2>1. TaskInv(u)
    BY DEF IInv
  <2>2. Running(u)' = Running(u)
    BY <1>2, <1>6 DEF Running
  <2>3. sm = "downloading" /\ ~ Has(posted[u], Errored) =>
          CoveredOK(u, ppBlkHtNext, Running(u), next[u], throttled[u], asked[u], posted[u], ppBlocks)
    BY <2>1, Zenon DEF TaskInv
  <2>4. sm' = "downloading" /\ ~ Has(posted[u], Errored) =>
          CoveredOK(u, ppBlkHtNext, Running(u)', next[u], throttled[u], asked[u], posted[u], ppBlocks)
    BY <1>5, <2>2, <2>3, Zenon
  <2> QED BY <1>2, <1>5, <2>1, <2>4, MachineFrame, Zenon
<1>7. TaskInv(t)'
  <2>1. ASSUME sm' = "downloading", ~ Has(p, Errored)
        PROVE  CoveredOK(t, ppBlkHtNext, Running(t)', next[t], throttled[t], asked[t], p, ppBlocks)
    <3>1. sm = "downloading" /\ Head(p) = Success
      BY <1>3, <1>5, <2>1
    <3>2. \A y \in Height : ~ Has(p, y)
      <4>1. SuccessLast(p)
        BY <1>1, Zenon DEF TaskInv
      <4> QED BY <1>2, <1>3, <3>1, <4>1, Popped
    <3>3. UnderWay(t) = 0 /\ EndHeight < next[t]
      <4>1. goodCt[t] >= NToDL(t)
        BY <1>1, <1>3, <3>1, Zenon DEF TaskInv
      <4>2. CountOK(t, next[t], goodCt[t], q_ct[t], again[t], UnderWay(t), Has(p, Errored))
        BY <1>1, Zenon DEF TaskInv
      <4>3. goodCt[t] \in Nat /\ q_ct[t] \in Nat /\ again[t] \in Nat /\ UnderWay(t) \in Nat
        BY <1>1, TypesOf
      <4> HIDE DEF p
      <4> QED BY <4>1, <4>2, <4>3, CountFull, Zenon
    <3>4. throttled[t] = {} /\ asked[t] = {} /\ next[t] \in Int
      <4>1. /\ Cardinality(throttled[t]) \in Nat /\ Cardinality(asked[t]) \in Nat /\ next[t] \in Int
            /\ throttled[t] \in SUBSET Height /\ asked[t] \in SUBSET Height
            /\ UnderWay(t) = Cardinality(throttled[t]) + Cardinality(asked[t])
        BY <1>1, TypesOf
      <4>2. Cardinality(throttled[t]) = 0 /\ Cardinality(asked[t]) = 0
        BY <3>3, <4>1
      <4> QED BY <4>1, <4>2, Sizes
    <3>5. CoveredOK(t, ppBlkHtNext, Running(t), next[t], throttled[t], asked[t], p, ppBlocks)
      BY <1>1, <2>1, <3>1, Zenon DEF TaskInv
    <3>6. CoveredOK(t, ppBlkHtNext, FALSE, next[t], throttled[t], asked[t], p, ppBlocks)
      BY <3>2, <3>3, <3>4, <3>5, CoveredEnded, Zenon
    <3>7. Running(t)' = FALSE
      BY <1>2 DEF Running
    <3> QED BY <3>6, <3>7, Zenon
  <2>2. sm' = "downloading" /\ ~ Has(posted[t], Errored) =>
          CoveredOK(t, ppBlkHtNext, Running(t)', next[t], throttled[t], asked[t], posted[t], ppBlocks)
    BY <2>1, Zenon
  <2> QED BY <1>1, <1>2, <1>5, <2>2, MachineFrame, Zenon
<1> QED BY <1>4, <1>6, <1>7, Zenon DEF IInv

\* The machine is reset.
LEMMA ResetMachineStep ==
  ASSUME IInv, ResetMachine
  PROVE  IInv'
<1>1. sm' = "none" /\ UNCHANGED <<ppBlkHtNext, ppBlocks, taskVars>>
  BY DEF ResetMachine
<1>2. "none" # "downloading"
  OBVIOUS
<1>3. Shape'
  BY <1>1 DEF IInv, Shape, taskVars
<1>4. ASSUME NEW u \in Task PROVE TaskInv(u)'
  <2>1. TaskInv(u)
    BY DEF IInv
  <2> QED BY <1>1, <1>2, <2>1, MachineFrame, Zenon
<1> QED BY <1>3, <1>4, Zenon DEF IInv

\* The tasks start.
LEMMA Start == Init => IInv
<1> SUFFICES ASSUME Init PROVE IInv
  OBVIOUS
<1>1. Shape
  <2>1. Base \in Base .. EndHeight + 1 /\ \A t \in Task : From(t) \in Nat
    BY DownloadAssumption, Expected
  <2>2. <<>> \in Seq(Message)
    OBVIOUS
  <2> QED BY <2>1, <2>2 DEF Init, Shape
<1>2. ASSUME NEW t \in Task PROVE TaskInv(t)
  <2>1. /\ sm = "downloading" /\ ppBlkHtNext = Base /\ ppBlocks = {} /\ deleted = {}
        /\ posted[t] = <<>> /\ next[t] = From(t) /\ goodCt[t] = 0 /\ q_ct[t] = 0 /\ again[t] = 1
        /\ throttled[t] = {} /\ asked[t] = {}
    BY DEF Init
  <2>2. /\ \A y : ~ Has(<<>>, y) /\ SuccessLast(<<>>) /\ Once(<<>>)
    BY DEF Has, SuccessLast, Once
  <2>3. UnderWay(t) = 0
    BY <2>1, FS_EmptySet DEF UnderWay
  <2>4. CountOK(t, From(t), 0, 0, 1, 0, Has(<<>>, Errored))
    <3>1. NTasks * 0 = 0 /\ From(t) = From(t) + NTasks * 0 /\ NToDL(t) \in Nat \ {0}
      BY Expected, Tasks
    <3>2. Begun(t, From(t), 0, 0, 1, 0, Has(<<>>, Errored), 0, 0)
      BY <3>1 DEF Begun, Pace
    <3>3. 0 \in Nat /\ 1 \in Nat
      OBVIOUS
    <3> QED BY <3>2, <3>3, CountIs, Zenon
  <2>5. PlacedOK(t, From(t), {}, {}, <<>>, {})
    BY <2>2, Zenon DEF PlacedOK
  <2>6. CoveredOK(t, Base, Running(t), From(t), {}, {}, <<>>, {})
    <3>1. Running(t)
      BY <2>1 DEF Running
    <3>2. ASSUME NEW h \in Height, Owns(t, h) PROVE From(t) <= h
      <4>1. PICK c \in Int : NTasks * c \in Int /\ h = From(t) + NTasks * c
        BY <3>2, OwnedIs
      <4>2. 0 <= c
        <5>1. SUFFICES ASSUME c < 0 PROVE FALSE
          BY <4>1
        <5>2. NTasks * c + NTasks <= NTasks * 0
          BY <5>1, Tasks, Apart
        <5>3. NTasks * c + NTasks <= 0
          BY <5>2, Tasks
        <5>4. Base <= h /\ t \in Int /\ t < NTasks /\ From(t) = Base + t
          BY Tasks DEF Height, From, Task
        <5> HIDE DEF Task, Height
        <5> QED BY <4>1, <5>3, <5>4, Tasks
      <4>3. 0 <= NTasks * c
        BY <4>2, Tasks
      <4> QED BY <4>1, <4>3, Expected
    <3> QED BY <3>1, <3>2, Zenon DEF CoveredOK
  <2>7. NearOK(ppBlkHtNext + MaxBackLog, {}, <<>>, {})
    BY <2>2, Zenon DEF NearOK
  <2>8. /\ CountOK(t, next[t], goodCt[t], q_ct[t], again[t], UnderWay(t), Has(posted[t], Errored))
        /\ PlacedOK(t, next[t], throttled[t], asked[t], posted[t], ppBlocks)
        /\ SuccessLast(posted[t]) /\ ~ Has(posted[t], Success)
    BY <2>1, <2>2, <2>3, <2>4, <2>5, Zenon
  <2>9. CoveredOK(t, ppBlkHtNext, Running(t), next[t], throttled[t], asked[t], posted[t], ppBlocks)
    BY <2>1, <2>6, Zenon
  <2>10. NearOK(ppBlkHtNext + MaxBackLog, asked[t], posted[t], ppBlocks)
    BY <2>1, <2>7, Zenon
  <2> QED BY <2>8, <2>9, <2>10, Zenon DEF TaskInv
<1> QED BY <1>1, <1>2, Zenon DEF IInv

-----------------------------------------------------------------------------
(* The theorems.                                                           *)

\* The inductive invariant holds in every state.
THEOREM Invariance == Spec => []IInv
<1>1. IInv /\ [Next]_vars => IInv'
  <2> SUFFICES ASSUME IInv, [Next]_vars PROVE IInv'
    OBVIOUS
  <2>1. ASSUME NEW t \in Task, ProcessGet(t) PROVE IInv'
    BY <2>1, ProcessGetStep
  <2>2. ASSUME NEW t \in Task, ProcessDone(t) PROVE IInv'
    BY <2>2, ProcessDoneStep
  <2>3. ASSUME NEW t \in Task, ThrottleTimer(t) PROVE IInv'
    BY <2>3, ThrottleTimerStep
  <2>4. ASSUME NEW t \in Task, NEW h \in asked[t], GotBlock(t, h) PROVE IInv'
    BY <2>4, GotBlockStep
  <2>5. ASSUME NEW t \in Task, NEW h \in asked[t], GotError(t, h) PROVE IInv'
    BY <2>5, GotErrorStep
  <2>6. ASSUME NEW t \in Task, PutBlock(t) \/ PutBlockRejected(t) PROVE IInv'
    BY <2>6, PutBlockStep
  <2>7. ASSUME NEW t \in Task, TaskEnded(t) PROVE IInv'
    BY <2>7, TaskEndedStep
  <2>8. CASE ResetMachine
    BY <2>8, ResetMachineStep
  <2>9. CASE UNCHANGED vars
    <3>1. /\ UNCHANGED <<sm, ppBlkHtNext, ppBlocks, deleted, posted, next, goodCt, q_ct, again,
                         throttled, asked>>
      BY <2>9 DEF vars, ctlVars, taskVars
    <3>2. Shape'
      BY <3>1 DEF IInv, Shape
    <3>3. ASSUME NEW u \in Task PROVE TaskInv(u)'
      <4>1. TaskInv(u)
        BY DEF IInv
      <4> QED BY <3>1, <4>1, Frame
    <3> QED BY <3>2, <3>3, Zenon DEF IInv
  <2> QED BY <2>1, <2>2, <2>3, <2>4, <2>5, <2>6, <2>7, <2>8, <2>9, Zenon DEF Next
<1> QED BY <1>1, Start, PTL DEF Spec

\* Height h is in a place of task t.
At(k, t, h) ==
  \/ k = "to get" /\ Running(t) /\ Owns(t, h) /\ next[t] <= h
  \/ k = "throttled" /\ Running(t) /\ h \in throttled[t]
  \/ k = "asked" /\ Running(t) /\ h \in asked[t]
  \/ k = "posted" /\ Running(t) /\ Has(posted[t], h)
  \/ k = "put aside" /\ Owns(t, h) /\ h \in ppBlocks

\* Places(h) are the places h is in.
LEMMA PlacesAre ==
  ASSUME NEW h
  PROVE  \A p : p \in Places(h) <=>
           \E k \in {"to get", "throttled", "asked", "posted", "put aside"}, t \in Task :
             p = <<k, t>> /\ At(k, t, h)
<1> DEFINE K == {"to get", "throttled", "asked", "posted", "put aside"}
<1>1. ASSUME NEW k \in K, NEW t \in Task PROVE <<k, t>> \in Places(h) <=> At(k, t, h)
  <2>1. <<k, t>> \in K \X Task /\ <<k, t>>[1] = k /\ <<k, t>>[2] = t
    OBVIOUS
  <2>2. CASE k = "to get"
    BY <2>1, <2>2 DEF Places, At
  <2>3. CASE k = "throttled"
    BY <2>1, <2>3 DEF Places, At
  <2>4. CASE k = "asked"
    BY <2>1, <2>4 DEF Places, At
  <2>5. CASE k = "posted"
    BY <2>1, <2>5 DEF Places, At, Has
  <2>6. CASE k = "put aside"
    BY <2>1, <2>6 DEF Places, At
  <2> QED BY <2>2, <2>3, <2>4, <2>5, <2>6
<1>2. ASSUME NEW p \in Places(h) PROVE \E k \in K, t \in Task : p = <<k, t>>
  <2> HIDE DEF K
  <2>1. Places(h) \subseteq K \X Task
    BY Zenon DEF Places, K
  <2> QED BY <1>2, <2>1
<1> HIDE DEF K
<1>3. \A p : p \in Places(h) <=> \E k \in K, t \in Task : p = <<k, t>> /\ At(k, t, h)
  <2>1. ASSUME NEW p \in Places(h)
        PROVE  \E k \in K, t \in Task : p = <<k, t>> /\ At(k, t, h)
    <3>1. PICK k \in K, t \in Task : p = <<k, t>>
      BY <1>2
    <3>2. At(k, t, h)
      BY <1>1, <3>1
    <3> QED BY <3>1, <3>2
  <2> QED BY <1>1, <2>1
<1> QED BY <1>3 DEF K

\* A height that is in a place of a task is the task's, ...
LEMMA AtOwner ==
  ASSUME IInv, NEW h \in Height, NEW k, NEW u \in Task, At(k, u, h)
  PROVE  Owns(u, h)
<1>1. PlacedOK(u, next[u], throttled[u], asked[u], posted[u], ppBlocks)
  BY Zenon DEF IInv, TaskInv
<1> QED BY <1>1, Zenon DEF At, PlacedOK

\* ... and in no other place of it.
LEMMA AtOnce ==
  ASSUME IInv, NEW h \in Height, NEW j, NEW k, NEW u \in Task, At(j, u, h), At(k, u, h)
  PROVE  j = k
<1>1. PlacedOK(u, next[u], throttled[u], asked[u], posted[u], ppBlocks)
  BY Zenon DEF IInv, TaskInv
<1>2. ~ (next[u] <= h /\ h < next[u])
  BY Tasks DEF IInv, Shape, Height
<1>3. ~ (h \in throttled[u] /\ h \in asked[u])
  BY <1>1, Zenon DEF PlacedOK
<1>4. /\ h \in throttled[u] \/ h \in asked[u] => h < next[u] /\ ~ Has(posted[u], h) /\ h \notin ppBlocks
      /\ Has(posted[u], h) => h < next[u] /\ h \notin ppBlocks
      /\ h \in ppBlocks /\ Owns(u, h) => h < next[u]
  BY <1>1, Zenon DEF PlacedOK
<1>5. CASE j = "to get"
  BY <1>2, <1>4, <1>5 DEF At
<1>6. CASE j = "throttled"
  BY <1>2, <1>3, <1>4, <1>6 DEF At
<1>7. CASE j = "asked"
  BY <1>2, <1>3, <1>4, <1>7 DEF At
<1>8. CASE j = "posted"
  BY <1>2, <1>4, <1>8 DEF At
<1>9. CASE j = "put aside"
  BY <1>2, <1>4, <1>9 DEF At
<1> QED BY <1>5, <1>6, <1>7, <1>8, <1>9, Zenon DEF At

\* While the download runs and no task has failed, every height that Storage does not have is in
\* exactly one place: it is still to get, throttled, asked for, posted or put aside, with its
\* owner, and the owner is not removed before the block is put aside.
THEOREM EveryHeightSomewhere == Spec => []NoHeightLost
<1>1. IInv => NoHeightLost
  <2> SUFFICES ASSUME IInv, sm = "downloading",
                      \A t \in Task : \A i \in DOMAIN posted[t] : posted[t][i] # Errored,
                      NEW h \in ppBlkHtNext .. EndHeight
               PROVE  Cardinality(Places(h)) = 1
    BY DEF NoHeightLost
  <2>1. h \in Height /\ ppBlkHtNext <= h
    BY Tasks DEF IInv, Shape, Height
  <2>2. PICK t \in Task : Owns(t, h)
    BY <2>1, Owner
  <2>3. CoveredOK(t, ppBlkHtNext, Running(t), next[t], throttled[t], asked[t], posted[t], ppBlocks)
    <3>1. ~ Has(posted[t], Errored)
      BY DEF Has
    <3> QED BY <3>1, Zenon DEF IInv, TaskInv
  <2>4. PICK k \in {"to get", "throttled", "asked", "posted", "put aside"} : At(k, t, h)
    <3>1. h \in ppBlocks \/ (Running(t) /\ (next[t] <= h \/ h \in throttled[t] \/ h \in asked[t]
                                            \/ Has(posted[t], h)))
      BY <2>1, <2>2, <2>3, Zenon DEF CoveredOK
    <3> QED BY <2>2, <3>1, Zenon DEF At
  <2>5. Places(h) = {<<k, t>>}
    <3>1. <<k, t>> \in Places(h)
      BY <2>4, PlacesAre
    <3>2. ASSUME NEW p \in Places(h) PROVE p = <<k, t>>
      <4>1. PICK j \in {"to get", "throttled", "asked", "posted", "put aside"}, u \in Task :
              p = <<j, u>> /\ At(j, u, h)
        BY <3>2, PlacesAre
      <4>2. u = t
        BY <2>1, <2>2, <4>1, AtOwner, Owner, Zenon
      <4>3. j = k
        BY <2>1, <2>4, <4>1, <4>2, AtOnce, Zenon
      <4> QED BY <4>1, <4>2, <4>3
    <3> QED BY <3>1, <3>2
  <2> QED BY <2>5, FS_Singleton
<1> QED BY <1>1, Invariance, PTL

\* What CountOK says of a task.
LEMMA CountOf ==
  ASSUME IInv, NEW t \in Task
  PROVE  /\ next[t] <= EndHeight => again[t] + UnderWay(t) > 0 \/ Has(posted[t], Errored)
         /\ goodCt[t] < NToDL(t) => again[t] + UnderWay(t) <= MaxQ
<1>1. CountOK(t, next[t], goodCt[t], q_ct[t], again[t], UnderWay(t), Has(posted[t], Errored))
  BY Zenon DEF IInv, TaskInv
<1>2. goodCt[t] \in Nat /\ q_ct[t] \in Nat /\ again[t] \in Nat /\ UnderWay(t) \in Nat
  BY TypesOf DEF IInv
<1>3. next[t] <= EndHeight => again[t] + UnderWay(t) > 0 \/ Has(posted[t], Errored)
  <2> SUFFICES ASSUME next[t] <= EndHeight, ~ Has(posted[t], Errored)
               PROVE  again[t] + UnderWay(t) > 0
    OBVIOUS
  <2>1. Has(posted[t], Errored) = FALSE
    BY Zenon DEF Has
  <2>2. CountOK(t, next[t], goodCt[t], q_ct[t], again[t], UnderWay(t), FALSE)
    BY <1>1, <2>1, Zenon
  <2> QED BY <1>2, <2>2, CountLeft, Zenon
<1>4. goodCt[t] < NToDL(t) => again[t] + UnderWay(t) <= MaxQ
  BY <1>1, <1>2, CountRoom, Zenon
<1> QED BY <1>3, <1>4, Zenon

\* A task that has heights left to get always has a process() call queued, a timer running or a
\* request under way, or it has reported its failure.
THEOREM TasksGoOn == Spec => []NeverStalls
<1>1. IInv => NeverStalls
  <2> SUFFICES ASSUME IInv, NEW t \in Task, next[t] <= EndHeight
               PROVE  \/ again[t] > 0 \/ throttled[t] # {} \/ asked[t] # {}
                      \/ \E i \in DOMAIN posted[t] : posted[t][i] = Errored
    BY Zenon DEF NeverStalls
  <2>1. again[t] + UnderWay(t) > 0 \/ Has(posted[t], Errored)
    BY CountOf
  <2>2. throttled[t] = {} /\ asked[t] = {} => UnderWay(t) = 0
    BY FS_EmptySet DEF UnderWay
  <2>3. again[t] \in Nat
    BY TypesOf DEF IInv
  <2>4. UnderWay(t) = 0 /\ again[t] + UnderWay(t) > 0 => again[t] > 0
    BY <2>3
  <2> QED BY <2>1, <2>2, <2>4, Zenon DEF Has
<1> QED BY <1>1, Invariance, PTL

\* Until it has all its blocks, a task never has more than max_q gets under way or queued.
THEOREM QueueBounded == Spec => []RequestsBounded
<1>1. IInv => RequestsBounded
  <2> SUFFICES ASSUME IInv, NEW t \in Task, goodCt[t] < NToDL(t)
               PROVE  again[t] + Cardinality(throttled[t]) + Cardinality(asked[t]) <= MaxQ
    BY DEF RequestsBounded
  <2>1. again[t] + UnderWay(t) <= MaxQ
    BY CountOf
  <2>2. /\ again[t] \in Nat /\ Cardinality(throttled[t]) \in Nat /\ Cardinality(asked[t]) \in Nat
        /\ UnderWay(t) = Cardinality(throttled[t]) + Cardinality(asked[t])
    BY TypesOf DEF IInv
  <2> QED BY <2>1, <2>2, Tasks
<1> QED BY <1>1, Invariance, PTL

\* While the machine lives, no block is asked for or put aside that is more than maxBackLog above
\* the next one to add.
THEOREM MemoryBounded == Spec => []BacklogBounded
<1>1. IInv => BacklogBounded
  <2> SUFFICES ASSUME IInv, sm # "none", NEW t \in Task, NEW h \in ppBlocks \cup asked[t]
               PROVE  h <= ppBlkHtNext + MaxBackLog
    BY DEF BacklogBounded
  <2>1. NearOK(ppBlkHtNext + MaxBackLog, asked[t], posted[t], ppBlocks)
    BY Zenon DEF IInv, TaskInv
  <2>2. h \in Height
    BY DEF IInv, Shape
  <2> QED BY <2>1, <2>2, Zenon DEF NearOK
<1> QED BY <1>1, Invariance, PTL
=============================================================================
