------------------------- MODULE ReplayClient_proofs -------------------------
(***************************************************************************)
(* For every number of rows, generations, page sizes and faults of         *)
(* ReplayClient: its types; that a client never steps over a row between   *)
(* its baseline and its cursor, and that the chat it shows has no hole     *)
(* above its history cursor; that its status is never behind what it       *)
(* applied.                                                                *)
(***************************************************************************)
EXTENDS ReplayClient, FiniteSetTheorems, SequenceTheorems, WellFoundedInduction, TLAPS

-----------------------------------------------------------------------------
(* Numbers, and the pages of the journal.                                    *)

\* A set of numbers has a least one.
LEMMA LeastExists ==
  ASSUME NEW S \in SUBSET Nat, S # {}
  PROVE  \E m \in S : \A x \in S : m <= x
<1> DEFINE T == {1 .. x : x \in S}
<1>1. T \subseteq FiniteSubsetsOf(Nat) /\ T # {}
  <2>1. ASSUME NEW x \in S PROVE 1 .. x \in FiniteSubsetsOf(Nat)
    <3>1. x \in Int /\ 1 \in Int
      OBVIOUS
    <3>2. IsFiniteSet(1 .. x)
      BY <3>1, FS_Interval
    <3>3. 1 .. x \subseteq Nat
      BY <3>1
    <3>4. QED BY <3>2, <3>3 DEF FiniteSubsetsOf
  <2>2. QED BY <2>1
<1>2. PICK t \in T : \A y \in T : ~(<<y, t>> \in StrictSubsetOrdering(Nat))
  <2>1. IsWellFoundedOn(StrictSubsetOrdering(Nat), FiniteSubsetsOf(Nat))
    BY FS_StrictSubsetOrderingWellFounded
  <2> HIDE DEF T
  <2>2. QED BY <1>1, <2>1, WFMin
<1>3. PICK m \in S : t = 1 .. m
  OBVIOUS
<1>4. ASSUME NEW x \in S, ~(m <= x)
      PROVE  FALSE
  <2>1. m \in Nat /\ x \in Nat /\ x < m
    BY <1>4
  <2>2. 1 .. x \subseteq 1 .. m /\ m \in 1 .. m /\ m \notin 1 .. x
    BY <2>1
  <2>3. 1 .. x \in SUBSET Nat /\ 1 .. m \in SUBSET Nat
    BY <2>1
  <2>4. <<1 .. x, 1 .. m>> \in StrictSubsetOrdering(Nat)
    BY <2>2, <2>3 DEF StrictSubsetOrdering
  <2>5. QED BY <1>2, <1>3, <2>4
<1>5. QED BY <1>4

\* A bounded one has a greatest.
LEMMA GreatestExists ==
  ASSUME NEW n \in Nat, NEW S \in SUBSET (0 .. n), S # {}
  PROVE  \E m \in S : \A x \in S : x <= m
<1> DEFINE T == {n - x : x \in S}
<1>1. T \in SUBSET Nat /\ T # {}
  <2>1. \A x \in S : n - x \in Nat
    OBVIOUS
  <2>2. QED BY <2>1
<1>2. PICK t \in T : \A y \in T : t <= y
  <2> HIDE DEF T
  <2>1. QED BY <1>1, LeastExists
<1>3. PICK m \in S : t = n - m
  OBVIOUS
<1>4. \A x \in S : x <= m
  <2>1. \A x \in S : n - m <= n - x
    BY <1>2, <1>3
  <2>2. \A x \in S : x \in 0 .. n /\ m \in 0 .. n
    OBVIOUS
  <2>3. QED BY <2>1, <2>2
<1>5. QED BY <1>4

LEMMA MinIsLeast ==
  ASSUME NEW S \in SUBSET Nat, S # {}
  PROVE  Min(S) \in S /\ \A x \in S : Min(S) <= x
BY LeastExists DEF Min

LEMMA MaxIsGreatest ==
  ASSUME NEW n \in Nat, NEW S \in SUBSET (0 .. n), S # {}
  PROVE  Max(S) \in S /\ \A x \in S : x <= Max(S)
<1>1. \E m \in S : \A x \in S : m >= x
  BY GreatestExists
<1>2. QED BY <1>1 DEF Max

LEMMA Constants ==
  /\ MaxSeq \in Nat \ {0} /\ MaxGen \in Nat \ {0} /\ PageMax \in Nat \ {0} /\ HistMax \in Nat \ {0}
  /\ PendingMax \in Nat \ {0} /\ MaxLoads \in Nat \ {0} /\ MaxFaults \in Nat /\ Held \subseteq 0..MaxSeq
  /\ Seqs = 0..MaxSeq /\ Rows = 1..MaxSeq /\ Slots = 1..MaxLoads /\ 1 \in Slots
  /\ Seqs \subseteq Nat /\ Rows \subseteq Nat /\ Gens \subseteq Nat
BY BoundsAssumption DEF Seqs, Rows, Gens, Slots

\* Consecutive rows in their order.
LEMMA SortedInterval ==
  ASSUME NEW a \in Nat, NEW b \in Nat, a <= b
  PROVE  Sorted((a + 1)..b) = [i \in 1..(b - a) |-> a + i]
<1> DEFINE S == (a + 1)..b
<1>1. ASSUME NEW x \in Nat, NEW y \in Nat, x <= y
      PROVE  Cardinality((x + 1)..y) = y - x
  <2>1. x + 1 \in Int /\ y \in Int
    OBVIOUS
  <2>2. Cardinality((x + 1)..y) = IF x + 1 > y THEN 0 ELSE y - (x + 1) + 1
    BY <2>1, FS_Interval
  <2>3. QED BY <1>1, <2>2
<1>2. Cardinality(S) = b - a
  BY <1>1
<1>3. ASSUME NEW i \in 1..(b - a)
      PROVE  (CHOOSE r \in S : Cardinality({q \in S : q <= r}) = i) = a + i
  <2>1. \A r \in S : Cardinality({q \in S : q <= r}) = r - a
    <3>1. TAKE r \in S
    <3>2. {q \in S : q <= r} = (a + 1)..r
      OBVIOUS
    <3>3. r \in Nat /\ a <= r
      OBVIOUS
    <3>4. QED BY <1>1, <3>2, <3>3
  <2>2. a + i \in S /\ \A r \in S : r - a = i => r = a + i
    OBVIOUS
  <2> HIDE DEF S
  <2>3. QED BY <2>1, <2>2
<1>4. QED BY <1>2, <1>3 DEF Sorted

\* boundedReplayPage() above a cursor up to which nothing above was deleted.
LEMMA PageOfRows ==
  ASSUME NEW c \in Seqs, NEW t \in Seqs, journal.gone \cap (c + 1)..t = {}
  PROVE  \E m \in Nat : /\ Page(c, t).rows = [i \in 1..m |-> c + i]
                        /\ Page(c, t).last = c + m
                        /\ m = 0 \/ c + m <= t
<1> USE Constants
<1> DEFINE n == IF c <= t THEN t - c ELSE 0
           s == Sorted(Present(c, t))
<1>1. n \in Nat
  OBVIOUS
<1>2. s = [i \in 1..n |-> c + i]
  <2>1. CASE c <= t
    <3>1. Present(c, t) = (c + 1)..t
      BY DEF Present
    <3>2. QED BY <2>1, <3>1, SortedInterval
  <2>2. CASE ~(c <= t)
    <3>1. Present(c, t) = (c + 1)..c
      BY <2>2 DEF Present
    <3>2. c \in Nat /\ c - c = 0 /\ n = 0 /\ c <= c
      BY <2>2
    <3>3. Sorted((c + 1)..c) = [i \in 1..(c - c) |-> c + i]
      BY <3>2, SortedInterval
    <3>4. QED BY <3>1, <3>2, <3>3
  <2>3. QED BY <2>1, <2>2
<1>3. Len(s) = n
  BY <1>1, <1>2
<1> DEFINE m == IF PageMax < n THEN PageMax ELSE n
<1>4. m \in Nat /\ m <= n /\ (m = 0 \/ c + m <= t)
  OBVIOUS
<1>5. Take(s, PageMax) = [i \in 1..m |-> c + i]
  <2>1. Take(s, PageMax) = SubSeq(s, 1, m)
    BY <1>3 DEF Take
  <2>2. SubSeq(s, 1, m) = [i \in 1..m |-> s[i + 1 - 1]]
    BY <1>4 DEF SubSeq
  <2>3. \A i \in 1..m : s[i + 1 - 1] = c + i
    BY <1>2, <1>4
  <2> HIDE DEF m, s
  <2>4. QED BY <2>1, <2>2, <2>3
<1> HIDE DEF s, n, m
<1>6. Page(c, t).rows = [i \in 1..m |-> c + i]
  BY <1>5 DEF Page, s
<1>7. Page(c, t).last = c + m
  <2> DEFINE rows == Take(s, PageMax)
  <2>1. Page(c, t).last = IF rows = <<>> THEN c ELSE rows[Len(rows)]
    BY DEF Page, s
  <2>2. Len(rows) = m
    BY <1>4, <1>5
  <2>3. CASE m = 0
    <3>1. rows = <<>>
      BY <1>5, <2>3
    <3>2. QED BY <2>1, <2>3, <3>1
  <2>4. CASE m # 0
    <3>1. rows # <<>> /\ rows[m] = c + m
      BY <1>4, <1>5, <2>2, <2>4
    <3>2. QED BY <2>1, <2>2, <3>1
  <2>5. QED BY <2>3, <2>4
<1>8. QED BY <1>4, <1>6, <1>7

\* The newest of S are those with fewer than HistMax newer ones: with one, all after it.
LEMMA HistoryOfRows ==
  ASSUME NEW b \in 1..(MaxSeq + 1)
  PROVE  LET page == HistoryPage(b) IN
         /\ page.rows \subseteq Rows /\ page.older \in Seqs
         /\ \A r \in Present(0, b - 1) : page.older <= r => r \in page.rows
<1> USE Constants
<1> DEFINE all == Present(0, b - 1)
           rows == {r \in all : Cardinality({q \in all : q > r}) < HistMax}
<1>0. HistoryPage(b) = [rows |-> rows, older |-> IF rows = all THEN 0 ELSE Min(rows)]
  BY DEF HistoryPage
<1>a. /\ HistoryPage(b).rows = rows
      /\ HistoryPage(b).older = IF rows = all THEN 0 ELSE Min(rows)
  BY <1>0
<1>1. all \subseteq Rows /\ rows \subseteq all /\ \A x \in all : x \in 1..MaxSeq
  BY DEF Present
<1>2. IsFiniteSet(all)
  <2>1. IsFiniteSet(1..MaxSeq)
    <3>1. 1 \in Int /\ MaxSeq \in Int
      OBVIOUS
    <3>2. QED BY <3>1, FS_Interval
  <2> HIDE DEF all
  <2>2. QED BY <1>1, <2>1, FS_Subset
<1> HIDE DEF all
<1>3. ASSUME NEW x \in rows, NEW r \in all, x <= r
      PROVE  r \in rows
  <2>0. x \in Nat /\ r \in Nat /\ \A q \in all : q \in Nat
    BY <1>1, <1>3
  <2>1. {q \in all : q > r} \subseteq {q \in all : q > x}
    <3>1. \A q \in all : q > r => q > x
      BY <1>3, <2>0
    <3>2. QED BY <3>1
  <2>2. IsFiniteSet({q \in all : q > x}) /\ IsFiniteSet({q \in all : q > r})
    BY <1>2, FS_Subset
  <2>3. /\ Cardinality({q \in all : q > r}) \in Nat /\ Cardinality({q \in all : q > x}) \in Nat
        /\ Cardinality({q \in all : q > r}) <= Cardinality({q \in all : q > x})
    BY <2>1, <2>2, FS_Subset, FS_CardinalityType
  <2>4. QED BY <1>3, <2>3
<1>4. ASSUME rows = {}
      PROVE  all = {}
  <2> SUFFICES ASSUME all # {} PROVE FALSE
    OBVIOUS
  <2>1. PICK m \in all : \A x \in all : x <= m
    <3>1. all \in SUBSET (0..MaxSeq) /\ MaxSeq \in Nat
      BY <1>1
    <3>2. QED BY <3>1, GreatestExists
  <2>2. {q \in all : q > m} = {}
    <3>1. \A x \in all : x \in Nat /\ m \in Nat
      BY <1>1, <2>1
    <3>2. QED BY <2>1, <3>1
  <2>3. Cardinality({q \in all : q > m}) = 0
    BY <2>2, FS_EmptySet
  <2>4. QED BY <1>4, <2>3
<1>5. CASE rows = all
  <2> HIDE DEF rows
  <2>1. QED BY <1>a, <1>1, <1>5 DEF all
<1>6. CASE rows # all
  <2>1. rows # {}
    BY <1>1, <1>4, <1>6
  <2>2. Min(rows) \in rows
    <3>1. rows \in SUBSET Nat
      BY <1>1
    <3> HIDE DEF rows
    <3>2. QED BY <2>1, <3>1, MinIsLeast
  <2> HIDE DEF rows
  <2>3. HistoryPage(b).older = Min(rows) /\ HistoryPage(b).rows = rows
    BY <1>a, <1>6
  <2>4. Min(rows) \in Seqs
    <3>1. Min(rows) \in all
      BY <1>1, <2>2
    <3>2. Min(rows) \in 1..MaxSeq
      BY <1>1, <3>1
    <3>3. QED BY <3>2
  <2>5. \A r \in all : Min(rows) <= r => r \in rows
    BY <1>3, <2>2
  <2>6. QED BY <1>1, <2>3, <2>4, <2>5 DEF all
<1>7. QED BY <1>5, <1>6

-----------------------------------------------------------------------------
(* Sequences of rows without a jump.                                         *)

\* Each element of q is at most one above n or one before it in q.
Before(q, i) == {q[j] : j \in 1..(i - 1)}
Follows(q, n) == \A i \in DOMAIN q : \E b \in {n} \union Before(q, i) : q[i] <= b + 1

\* What a client applies of such a sequence is everything up to its highest row.
LEMMA FreshCovers ==
  ASSUME NEW c, c.last \in Seqs, NEW q \in Seq(Rows), Follows(q, c.last),
         NEW k \in DOMAIN q, NEW n \in Rows, c.last < n, n <= q[k]
  PROVE  n \in Fresh(c, q)
<1> USE Constants
<1> DEFINE S == {j \in DOMAIN q : n <= q[j]}
<1>1. DOMAIN q = 1..Len(q) /\ Len(q) \in Nat /\ \A j \in DOMAIN q : q[j] \in Rows
  OBVIOUS
<1>2. PICK j \in S : \A x \in S : j <= x
  <2>1. S \in SUBSET Nat /\ S # {}
    BY <1>1
  <2> HIDE DEF S
  <2>2. QED BY <2>1, LeastExists
<1>3. \A i \in 1..(j - 1) : q[i] < n
  <2>1. TAKE i \in 1..(j - 1)
  <2>2. i \in DOMAIN q /\ i \notin S
    <3>1. j \in DOMAIN q /\ j \in Nat /\ i \in Nat /\ i < j
      BY <1>1, <1>2
    <3>2. i \in DOMAIN q
      BY <1>1, <3>1
    <3> HIDE DEF S
    <3>3. i \notin S
      BY <1>2, <3>1
    <3>4. QED BY <3>2, <3>3
  <2>3. QED BY <1>1, <2>2
<1>4. q[j] <= n
  <2>1. PICK b \in {c.last} \union Before(q, j) : q[j] <= b + 1
    BY DEF Follows
  <2>2. b \in Nat /\ b < n
    BY <1>1, <1>3, <2>1 DEF Before
  <2>3. QED BY <1>1, <2>1, <2>2
<1>5. q[j] = n /\ j \in DOMAIN q
  BY <1>1, <1>4
<1>6. QED BY <1>3, <1>5 DEF Fresh

\* apply(): the cursor moves to the highest row, every row up to there is on screen, and
\* the status is that of the last one.
LEMMA ApplyAll ==
  ASSUME NEW c, NEW v, NEW q, NEW a, a = Apply(c, v, q), q \in Seq(Rows),
         c.last \in Seqs, v.rows \subseteq Rows, v.status \in Seqs, v.fence \in Seqs, Follows(q, c.last)
  PROVE  /\ a.last \in Seqs /\ a.rows \subseteq Rows /\ a.status \in Seqs /\ a.fence \in Seqs
         /\ c.last <= a.last /\ \A i \in DOMAIN q : q[i] <= a.last
         /\ a.last = c.last \/ \E i \in DOMAIN q : a.last = q[i]
         /\ v.rows \subseteq a.rows /\ (c.last + 1)..a.last \subseteq a.rows
         /\ IF a.last = c.last THEN a.status = v.status /\ a.fence = v.fence
            ELSE a.status = a.last /\ a.fence = a.last
<1> USE Constants
<1> DEFINE new == Fresh(c, q)
<1>1. \A i \in DOMAIN q : q[i] \in Rows
  OBVIOUS
<1>2. \A x \in new : x \in Rows /\ x > c.last /\ \E i \in DOMAIN q : x = q[i]
  BY <1>1 DEF Fresh
<1>3. \A i \in DOMAIN q : q[i] <= c.last \/ q[i] \in new
  <2>1. TAKE i \in DOMAIN q
  <2>2. CASE c.last < q[i]
    <3>1. q[i] \in Rows /\ i \in DOMAIN q /\ q[i] <= q[i]
      BY <1>1
    <3>2. q[i] \in Fresh(c, q)
      BY <2>2, <3>1, FreshCovers
    <3>3. QED BY <3>2
  <2>3. QED BY <1>1, <2>2
<1>4. a = IF new = {} THEN [last |-> c.last, rows |-> v.rows, status |-> v.status, fence |-> v.fence]
          ELSE [last |-> Max(new), rows |-> v.rows \union new, status |-> Max(new), fence |-> Max(new)]
  BY DEF Apply
<1>5. CASE new = {}
  <2>1. a.last = c.last /\ a.rows = v.rows /\ a.status = v.status /\ a.fence = v.fence
    BY <1>4, <1>5
  <2>2. \A i \in DOMAIN q : q[i] <= c.last
    BY <1>3, <1>5
  <2>3. (c.last + 1)..a.last = {}
    BY <2>1
  <2>4. QED BY <2>1, <2>2, <2>3
<1>6. CASE new # {}
  <2>1. Max(new) \in new /\ \A x \in new : x <= Max(new)
    <3>1. new \in SUBSET (0..MaxSeq) /\ MaxSeq \in Nat
      BY <1>2
    <3> HIDE DEF new
    <3>2. QED BY <1>6, <3>1, MaxIsGreatest
  <2>2. a.last = Max(new) /\ a.rows = v.rows \union new /\ a.status = Max(new) /\ a.fence = Max(new)
    BY <1>4, <1>6
  <2>3. Max(new) \in Rows /\ Max(new) > c.last
    BY <1>2, <2>1
  <2>4. \A i \in DOMAIN q : q[i] <= Max(new)
    <3>1. TAKE i \in DOMAIN q
    <3>2. q[i] \in Rows
      OBVIOUS
    <3>3. QED BY <1>3, <2>1, <2>3, <3>2
  <2>5. PICK k \in DOMAIN q : Max(new) = q[k]
    BY <1>2, <2>1
  <2>6. (c.last + 1)..Max(new) \subseteq new
    <3> SUFFICES ASSUME NEW n \in (c.last + 1)..Max(new) PROVE n \in Fresh(c, q)
      OBVIOUS
    <3> HIDE DEF new
    <3>2. n \in Rows /\ c.last < n /\ n <= q[k]
      BY <2>3, <2>5
    <3>3. QED BY <3>2, FreshCovers
  <2> HIDE DEF new
  <2>7. QED BY <1>2, <2>2, <2>3, <2>4, <2>5, <2>6
<1>7. QED BY <1>5, <1>6

-----------------------------------------------------------------------------
(* The inductive invariant of the replay.                                    *)

JournalType == [high : Seqs, gone : SUBSET Rows, gen : Gens, floor : Seqs]
CheckType == [gen : Gens, high : Seqs, floor : Seqs]
StreamType == [st : {"none", "asked", "started", "live", "polled"}, gen : 0..MaxGen, cursor : Seqs,
               check : CheckType]
Frame == [t : {"row"}, gen : {0}, floor : {0}, seq : Rows]
         \union [t : {"start", "done", "reset"}, gen : 0..MaxGen, floor : Seqs, seq : {0}]
RefreshType == [st : {"no", "asked", "read"}, gen : 0..MaxGen, high : Seqs]
ClientType == [gen : 0..MaxGen, base : Seqs, last : Seqs, pending : Seq(Rows), staging : BOOLEAN,
               staged : Seq(Rows), timer : BOOLEAN, refresh : RefreshType]
ViewType == [rows : SUBSET Rows, older : Seqs, pulled : BOOLEAN, loading : BOOLEAN, failed : BOOLEAN,
             status : Seqs, fence : Seqs]
LoadType == [st : {"free", "latest", "older"}, before : 1..(MaxSeq + 1), late : BOOLEAN]
SyncType == [st : {"idle", "asked", "read"}, from : Seqs, ver : Seqs, crossed : BOOLEAN]

\* The shape of everything, buffers and frames on the wire included.
Typed ==
  /\ journal \in JournalType /\ stream \in StreamType /\ wire \in Seq(Frame)
  /\ ws \in {"none", "open", "closing"} /\ client \in ClientType /\ view \in ViewType
  /\ load \in [Slots -> LoadType] /\ sync \in SyncType /\ faults \in 0..MaxFaults

\* Nobody knows of a row the journal does not have; deleted rows are below the reset floor.
Bounded ==
  /\ journal.gone \subseteq 1..journal.floor /\ journal.floor <= journal.high
  /\ stream.cursor <= journal.high /\ stream.check.high <= journal.high
  /\ client.base <= client.last /\ client.last <= journal.high
  /\ \A i \in DOMAIN wire : wire[i].seq <= journal.high
  /\ \A i \in DOMAIN client.pending : client.pending[i] <= journal.high
  /\ \A i \in DOMAIN client.staged : client.staged[i] <= journal.high
  /\ client.refresh.high <= journal.high

\* Whoever has the journal's generation has a cursor at or above its reset floor.
GenKnown ==
  /\ client.gen <= journal.gen /\ (client.gen = journal.gen => journal.floor <= client.last)
  /\ stream.gen <= journal.gen /\ (stream.gen = journal.gen => journal.floor <= stream.cursor)
  /\ \A i \in DOMAIN wire : wire[i].t = "start" =>
       wire[i].gen <= journal.gen /\ (wire[i].gen = journal.gen => wire[i].floor = journal.floor)
  /\ client.refresh.gen <= journal.gen
  /\ client.refresh.gen = journal.gen => journal.floor <= client.refresh.high

\* replay-start is the first frame of a socket and comes before any staging; a socket, the
\* reconnect timer and a baseline read exclude each other, and without a socket nothing flows.
Ordered ==
  /\ ws # "open" => wire = <<>> /\ stream = NoStream /\ ~client.staging
  /\ ws = "open" => ~client.timer /\ client.refresh.st = "no"
  /\ ~(client.timer /\ client.refresh.st # "no")
  /\ ~client.staging => client.staged = <<>>
  /\ stream.st = "asked" => wire = <<>> /\ ~client.staging
  /\ \A i \in DOMAIN wire : wire[i].t = "start" => i = 1 /\ ~client.staging

\* The rows on the wire continue what the client has: its cursor, and its buffer, but not
\* the one left from an earlier socket when a replay is still to start.
StartDue == stream.st = "asked" \/ \E i \in DOMAIN wire : wire[i].t = "start"
Buffer == IF client.staging THEN client.staged ELSE IF StartDue THEN <<>> ELSE client.pending
Had == {client.last} \union {Buffer[i] : i \in DOMAIN Buffer}
Lead(w, k) == {w[j].seq : j \in 1..k}
NoJump ==
  /\ Follows(client.pending, client.last) /\ Follows(client.staged, client.last)
  /\ \A i \in DOMAIN wire : \E b \in Had \union Lead(wire, i - 1) : wire[i].seq <= b + 1
  /\ \E b \in Had \union Lead(wire, Len(wire)) : stream.cursor <= b

IInv == Typed /\ Bounded /\ GenKnown /\ Ordered /\ NoJump /\ ReplayWhole

LEMMA LeadHas ==
  ASSUME NEW w, NEW k, NEW j \in 1..k
  PROVE  w[j].seq \in Lead(w, k)
BY DEF Lead

LEMMA LeadFrom ==
  ASSUME NEW w, NEW k, NEW x \in Lead(w, k)
  PROVE  \E j \in 1..k : x = w[j].seq
BY DEF Lead

LEMMA LeadGrows ==
  ASSUME NEW w, NEW z, NEW n \in Nat, NEW k \in Nat, n <= k, \A j \in 1..n : z[j] = w[j]
  PROVE  Lead(w, n) \subseteq Lead(z, k)
<1> SUFFICES ASSUME NEW x \in Lead(w, n) PROVE x \in Lead(z, k)
  OBVIOUS
<1>1. PICK j \in 1..n : x = w[j].seq
  BY LeadFrom
<1>2. j \in 1..k /\ x = z[j].seq
  BY <1>1
<1>3. QED BY <1>2, LeadHas

LEMMA FrameGives ==
  ASSUME NEW f \in Frame
  PROVE  /\ f.seq \in Seqs /\ f.floor \in Seqs /\ f.gen \in 0..MaxGen
         /\ f.t \in {"start", "row", "done", "reset"}
         /\ IF f.t = "row" THEN f.seq \in Rows ELSE f.seq = 0
<1>1. 0 \in Seqs /\ 0 \in 0..MaxGen /\ \A r \in Rows : r \in Seqs
  BY Constants
<1>2. CASE f \in [t : {"row"}, gen : {0}, floor : {0}, seq : Rows]
  BY <1>1, <1>2
<1>3. CASE f \in [t : {"start", "done", "reset"}, gen : 0..MaxGen, floor : Seqs, seq : {0}]
  BY <1>1, <1>3
<1>4. QED BY <1>2, <1>3 DEF Frame

LEMMA TypedGives ==
  ASSUME Typed
  PROVE  /\ journal.high \in Seqs /\ journal.gone \subseteq Rows /\ journal.gen \in Gens /\ journal.floor \in Seqs
         /\ stream.st \in {"none", "asked", "started", "live", "polled"} /\ stream.gen \in 0..MaxGen
         /\ stream.cursor \in Seqs /\ stream.check \in CheckType /\ stream.check.high \in Seqs
         /\ wire \in Seq(Frame) /\ Len(wire) \in Nat /\ DOMAIN wire = 1..Len(wire)
         /\ \A i \in DOMAIN wire : wire[i] \in Frame /\ wire[i].seq \in Seqs /\ wire[i].floor \in Seqs
                                   /\ wire[i].gen \in 0..MaxGen
         /\ client.gen \in 0..MaxGen /\ client.base \in Seqs /\ client.last \in Seqs
         /\ client.pending \in Seq(Rows) /\ client.staged \in Seq(Rows)
         /\ client.staging \in BOOLEAN /\ client.timer \in BOOLEAN
         /\ client.refresh \in RefreshType /\ client.refresh.gen \in 0..MaxGen /\ client.refresh.high \in Seqs
         /\ client.refresh.st \in {"no", "asked", "read"}
<1> USE DEF Typed
<1>1. /\ journal.high \in Seqs /\ journal.gone \subseteq Rows /\ journal.gen \in Gens /\ journal.floor \in Seqs
  BY DEF JournalType
<1>2. /\ stream.st \in {"none", "asked", "started", "live", "polled"} /\ stream.gen \in 0..MaxGen
      /\ stream.cursor \in Seqs /\ stream.check \in CheckType
  BY DEF StreamType
<1>3. stream.check.high \in Seqs
  BY <1>2 DEF CheckType
<1>4. wire \in Seq(Frame) /\ Len(wire) \in Nat /\ DOMAIN wire = 1..Len(wire) /\ \A i \in DOMAIN wire : wire[i] \in Frame
  <2> HIDE DEF Frame
  <2>1. QED OBVIOUS
<1>5. \A i \in DOMAIN wire : wire[i].seq \in Seqs /\ wire[i].floor \in Seqs /\ wire[i].gen \in 0..MaxGen
  BY <1>4, FrameGives
<1>6. /\ client.gen \in 0..MaxGen /\ client.base \in Seqs /\ client.last \in Seqs
      /\ client.pending \in Seq(Rows) /\ client.staged \in Seq(Rows)
      /\ client.staging \in BOOLEAN /\ client.timer \in BOOLEAN /\ client.refresh \in RefreshType
  BY DEF ClientType
<1>7. client.refresh.gen \in 0..MaxGen /\ client.refresh.high \in Seqs
      /\ client.refresh.st \in {"no", "asked", "read"}
  BY <1>6 DEF RefreshType
<1>8. QED BY <1>1, <1>2, <1>3, <1>4, <1>5, <1>6, <1>7

LEMMA HadType ==
  ASSUME Typed
  PROVE  Buffer \in Seq(Rows) /\ Had \subseteq Seqs /\ client.last \in Had
<1>1. client.pending \in Seq(Rows) /\ client.staged \in Seq(Rows) /\ client.last \in Seqs
  BY TypedGives
<1>2. Buffer \in Seq(Rows)
  <2>1. <<>> \in Seq(Rows)
    OBVIOUS
  <2>2. QED BY <1>1, <2>1 DEF Buffer
<1>3. \A i \in DOMAIN Buffer : Buffer[i] \in Seqs
  <2>1. \A i \in DOMAIN Buffer : Buffer[i] \in Rows
    BY <1>2
  <2>2. QED BY <2>1, Constants
<1>4. QED BY <1>1, <1>2, <1>3 DEF Had

\* A step that touches neither the journal nor the socket nor the replay cursor.
LEMMA ReplaySame ==
  ASSUME IInv, UNCHANGED <<journal, stream, wire, ws, client>>, view.rows \subseteq view'.rows,
         view' \in ViewType, load' \in [Slots -> LoadType], sync' \in SyncType, faults' \in 0..MaxFaults
  PROVE  IInv'
<1> USE DEF IInv
<1>1. Typed'
  BY DEF Typed
<1>2. Bounded' /\ GenKnown' /\ Ordered'
  BY DEF Bounded, GenKnown, Ordered
<1>3. Had' = Had
  BY DEF Had, Buffer, StartDue
<1>4. NoJump'
  BY <1>3 DEF NoJump
<1>5. ReplayWhole'
  BY DEF ReplayWhole
<1>6. QED BY <1>1, <1>2, <1>4, <1>5

\* A generation in which rows are deleted is one nobody has yet.
LEMMA JournalMoves ==
  ASSUME IInv, AppendRow \/ Condense
  PROVE  IInv'
<1> USE DEF IInv
<1>1. UNCHANGED <<stream, wire, ws, client, view, load, sync, faults>>
  BY DEF AppendRow, Condense
<1>2. /\ journal' \in JournalType
      /\ journal.high <= journal'.high /\ journal'.gone \subseteq 1..journal'.floor
      /\ journal'.floor <= journal'.high
      /\ \/ journal'.gen = journal.gen /\ journal'.floor = journal.floor
         \/ journal'.gen = journal.gen + 1
  <2>1. /\ journal.high \in Seqs /\ journal.gone \subseteq Rows /\ journal.gen \in Gens /\ journal.floor \in Seqs
        /\ journal.gone \subseteq 1..journal.floor /\ journal.floor <= journal.high /\ journal \in JournalType
    BY TypedGives DEF Bounded, Typed
  <2>2. CASE AppendRow
    <3>1. journal' = [journal EXCEPT !.high = journal.high + 1] /\ journal.high < MaxSeq
      BY <2>2 DEF AppendRow
    <3>2. journal.high + 1 \in Seqs
      BY <2>1, <3>1, Constants
    <3>3. /\ journal' \in JournalType /\ journal'.high = journal.high + 1 /\ journal'.gone = journal.gone
          /\ journal'.gen = journal.gen /\ journal'.floor = journal.floor
      BY <2>1, <3>1, <3>2 DEF JournalType
    <3>4. QED BY <2>1, <3>2, <3>3, Constants
  <2>3. CASE Condense
    <3>1. PICK D \in SUBSET Present(0, journal.high - 1), anchor \in {0, 1} :
            /\ D # {} /\ journal.gen < MaxGen
            /\ journal.high + anchor <= MaxSeq
            /\ journal' = [high  |-> journal.high + anchor,
                           gone  |-> journal.gone \union D,
                           gen   |-> journal.gen + 1,
                           floor |-> Max({journal.floor} \union D)]
      BY <2>3 DEF Condense
    <3>i. journal.high \in Nat /\ journal.floor \in Nat /\ journal.floor <= MaxSeq /\ MaxSeq \in Nat
      BY <2>1, Constants
    <3>j. \A x \in Present(0, journal.high - 1) : x \in Rows /\ x <= journal.high - 1
      BY DEF Present
    <3>2. D \subseteq Rows /\ \A x \in D : x \in 1..MaxSeq /\ x <= journal.high
      <4>1. \A x \in D : x \in Rows /\ x <= journal.high - 1
        BY <3>j
      <4>2. \A x \in D : x \in 1..MaxSeq
        BY <4>1, Constants
      <4>3. QED BY <3>i, <4>1, <4>2
    <3>3. PICK f : f = Max({journal.floor} \union D)
      OBVIOUS
    <3>4. f \in {journal.floor} \union D /\ \A x \in {journal.floor} \union D : x <= f
      <4>1. \A x \in {journal.floor} \union D : x \in 0..MaxSeq
        <5>1. journal.floor \in 0..MaxSeq
          BY ONLY <3>i
        <5>2. \A x \in D : x \in 0..MaxSeq
          BY ONLY <3>2, <3>i
        <5>3. QED BY ONLY <5>1, <5>2
      <4>2. {journal.floor} \union D \in SUBSET (0..MaxSeq) /\ {journal.floor} \union D # {}
        BY ONLY <4>1
      <4>3. QED BY ONLY <3>3, <3>i, <4>2, MaxIsGreatest
    <3>5. f \in Seqs /\ f <= journal.high /\ f \in Nat /\ journal.floor <= f
      <4>1. CASE f = journal.floor
        BY <2>1, <3>i, <4>1
      <4>2. CASE f \in D
        <5>1. f \in 1..MaxSeq /\ f <= journal.high
          BY ONLY <4>2, <3>2
        <5>2. f \in 0..MaxSeq
          BY ONLY <5>1, <3>i
        <5>3. QED BY <5>1, <5>2, <3>4, Constants
      <4>3. QED BY <3>4, <4>1, <4>2
    <3>6. journal.gone \union D \subseteq 1..f /\ journal.gone \union D \subseteq Rows
      <4>1. \A x \in journal.gone : x \in 1..f
        <5>1. \A x \in journal.gone : x \in 1..journal.floor
          BY <2>1
        <5>2. QED BY ONLY <5>1, <3>5, <3>i
      <4>2. \A x \in D : x \in 1..f
        BY ONLY <3>2, <3>4, <3>5
      <4>3. QED BY <2>1, <3>2, <4>1, <4>2
    <3>7. journal.high + anchor \in Seqs /\ journal.high <= journal.high + anchor /\ journal.gen + 1 \in Gens
      BY <2>1, <3>1, Constants DEF Gens
    <3>8. journal' = [high |-> journal.high + anchor, gone |-> journal.gone \union D,
                      gen |-> journal.gen + 1, floor |-> f]
      BY <3>1, <3>3
    <3>9. /\ journal'.high = journal.high + anchor /\ journal'.gone = journal.gone \union D
          /\ journal'.gen = journal.gen + 1 /\ journal'.floor = f
      BY <3>8
    <3>10. journal' \in JournalType
      BY <3>5, <3>6, <3>7, <3>8 DEF JournalType
    <3>11. f <= journal.high + anchor
      BY <2>1, <3>5, <3>7, Constants
    <3>12. QED BY <3>6, <3>7, <3>9, <3>10, <3>11
  <2>4. QED BY <2>2, <2>3
<1>3. journal.high \in Nat /\ journal'.high \in Nat /\ journal.gen \in Nat /\ journal'.gen \in Nat
  BY <1>2, TypedGives, Constants DEF JournalType
<1>4. Typed'
  BY <1>1, <1>2 DEF Typed
<1>5. Bounded'
  <2>1. /\ stream.cursor \in Nat /\ stream.check.high \in Nat /\ client.last \in Nat /\ client.refresh.high \in Nat
        /\ \A i \in DOMAIN wire : wire[i].seq \in Nat
        /\ \A i \in DOMAIN client.pending : client.pending[i] \in Nat
        /\ \A i \in DOMAIN client.staged : client.staged[i] \in Nat
    <3>1. \A q \in Seq(Rows) : \A i \in DOMAIN q : q[i] \in Rows
      OBVIOUS
    <3>2. QED BY <3>1, TypedGives, Constants
  <2>2. QED BY <1>1, <1>2, <1>3, <2>1 DEF Bounded
<1>6. GenKnown'
  <2>1. /\ client.gen \in Nat /\ stream.gen \in Nat /\ client.refresh.gen \in Nat
        /\ \A i \in DOMAIN wire : wire[i].gen \in Nat
    BY TypedGives, Constants
  <2>2. CASE journal'.gen = journal.gen /\ journal'.floor = journal.floor
    BY <1>1, <2>2 DEF GenKnown
  <2>3. CASE journal'.gen = journal.gen + 1
    BY <1>1, <1>3, <2>1, <2>3 DEF GenKnown
  <2>4. QED BY <1>2, <2>2, <2>3
<1>7. Ordered'
  BY <1>1 DEF Ordered
<1>8. Had' = Had
  BY <1>1 DEF Had, Buffer, StartDue
<1>9. NoJump' /\ ReplayWhole'
  BY <1>1, <1>8 DEF NoJump, ReplayWhole
<1>10. QED BY <1>4, <1>5, <1>6, <1>7, <1>9

-----------------------------------------------------------------------------
(* The hub's end of the socket.                                              *)

\* What the hub adds to the wire continues the row its stream has reached.
LEMMA HubSends ==
  ASSUME IInv, NEW fs \in Seq(Frame), wire' = wire \o fs, stream.st # "none",
         UNCHANGED <<journal, ws, client, view, load, sync, faults>>,
         stream' \in StreamType, stream'.st # "asked",
         stream'.cursor <= journal.high, stream'.check.high <= journal.high,
         stream'.gen <= journal.gen, stream'.gen = journal.gen => journal.floor <= stream'.cursor,
         \A i \in DOMAIN fs : fs[i].seq <= journal.high,
         \A i \in DOMAIN fs : fs[i].t = "start" =>
           i = 1 /\ stream.st = "asked" /\ fs[i].gen = journal.gen /\ fs[i].floor = journal.floor,
         \A i \in DOMAIN fs : fs[i].seq <= stream.cursor + 1
                              \/ \E j \in 1..(i - 1) : fs[i].seq <= fs[j].seq + 1,
         stream'.cursor <= stream.cursor \/ \E i \in DOMAIN fs : stream'.cursor <= fs[i].seq
  PROVE  IInv'
<1> USE DEF IInv
<1>n. PICK n : n = Len(wire)
  OBVIOUS
<1>m. PICK m : m = n + Len(fs)
  OBVIOUS
<1>1. /\ wire \in Seq(Frame) /\ n \in Nat /\ DOMAIN wire = 1..n
      /\ Len(fs) \in Nat /\ DOMAIN fs = 1..Len(fs)
      /\ \A i \in DOMAIN fs : fs[i] \in Frame
  <2>1. /\ wire \in Seq(Frame) /\ n \in Nat /\ DOMAIN wire = 1..n
    BY <1>n, TypedGives
  <2> HIDE DEF Frame
  <2>2. QED BY <2>1
<1>2. /\ wire' \in Seq(Frame) /\ DOMAIN wire' = 1..(n + Len(fs)) /\ Len(wire') = n + Len(fs)
      /\ \A i \in 1..n : wire'[i] = wire[i]
      /\ \A i \in 1..Len(fs) : wire'[n + i] = fs[i]
      /\ \A i \in DOMAIN wire' : i \in 1..n \/ (i - n \in 1..Len(fs) /\ wire'[i] = fs[i - n])
  <2>1. /\ wire \o fs \in Seq(Frame) /\ Len(wire \o fs) = n + Len(fs)
        /\ \A i \in 1..(n + Len(fs)) : (wire \o fs)[i] = IF i <= n THEN wire[i] ELSE fs[i - n]
    <3> HIDE DEF Frame
    <3>1. QED BY <1>1, ConcatProperties
  <2>2. DOMAIN wire' = 1..(n + Len(fs)) /\ wire' \in Seq(Frame) /\ Len(wire') = n + Len(fs)
    <3> HIDE DEF Frame
    <3>1. QED BY <2>1
  <2>3. \A i \in 1..(n + Len(fs)) : wire'[i] = IF i <= n THEN wire[i] ELSE fs[i - n]
    BY <2>1
  <2>4. \A i \in 1..n : i \in 1..(n + Len(fs)) /\ i <= n
    BY <1>1
  <2>5. \A i \in 1..Len(fs) : n + i \in 1..(n + Len(fs)) /\ ~(n + i <= n) /\ n + i - n = i
    BY <1>1
  <2>6. \A i \in 1..(n + Len(fs)) : i \in 1..n \/ (i - n \in 1..Len(fs) /\ ~(i <= n))
    BY <1>1
  <2>7. \A i \in 1..Len(fs) : wire'[n + i] = fs[i]
    <3>1. TAKE i \in 1..Len(fs)
    <3>2. n + i \in 1..(n + Len(fs)) /\ ~(n + i <= n) /\ n + i - n = i
      BY <2>5
    <3>3. PICK k : k = n + i
      OBVIOUS
    <3>5. k \in 1..(n + Len(fs)) /\ ~(k <= n) /\ k - n = i
      BY <1>1, <3>2, <3>3
    <3>4. wire'[k] = fs[i]
      BY <2>3, <3>5
    <3>6. QED BY <3>3, <3>4
  <2>8. QED BY <2>2, <2>3, <2>4, <2>6, <2>7
<1>3. /\ journal.high \in Nat /\ journal.gen \in Nat /\ stream.cursor \in Nat /\ stream'.cursor \in Nat
      /\ \A i \in 1..n : wire[i].seq \in Nat
      /\ \A i \in DOMAIN fs : fs[i].seq \in Nat
  <2>1. \A i \in DOMAIN fs : fs[i].seq \in Seqs
    BY <1>1, FrameGives
  <2>2. stream'.cursor \in Seqs
    BY DEF StreamType
  <2>3. QED BY <1>1, <2>1, <2>2, TypedGives, Constants
<1>4. ws = "open"
  BY DEF Ordered, NoStream
<1>5. Typed'
  BY <1>2 DEF Typed
<1>6. Bounded'
  <2>1. \A i \in DOMAIN wire' : wire'[i].seq <= journal.high
    BY <1>1, <1>2 DEF Bounded
  <2>2. QED BY <2>1 DEF Bounded
<1>7. GenKnown'
  <2>1. \A i \in DOMAIN wire' : wire'[i].t = "start" =>
          wire'[i].gen <= journal.gen /\ (wire'[i].gen = journal.gen => wire'[i].floor = journal.floor)
    BY <1>1, <1>2, <1>3 DEF GenKnown
  <2>2. QED BY <2>1 DEF GenKnown
<1>8. Ordered'
  <2>1. \A i \in DOMAIN wire' : wire'[i].t = "start" => i = 1 /\ ~client.staging
    <3>1. SUFFICES ASSUME NEW i \in DOMAIN wire', wire'[i].t = "start"
                   PROVE  i = 1 /\ ~client.staging
      OBVIOUS
    <3>2. CASE i \in 1..n
      BY <1>1, <1>2, <3>1, <3>2 DEF Ordered
    <3>3. CASE i - n \in 1..Len(fs) /\ wire'[i] = fs[i - n]
      <4>1. i - n = 1 /\ stream.st = "asked"
        BY <1>1, <3>1, <3>3
      <4>2. wire = <<>> /\ ~client.staging
        BY <4>1 DEF Ordered
      <4>3. n = 0
        BY <1>n, <4>2
      <4>4. i \in Nat
        BY <1>1, <1>2
      <4>5. QED BY <4>1, <4>2, <4>3, <4>4
    <3>4. QED BY <1>2, <3>2, <3>3
  <2>2. QED BY <1>4, <2>1 DEF Ordered
<1>9. Had \subseteq Had'
  <2>1. StartDue' => StartDue
    <3>1. SUFFICES ASSUME NEW i \in DOMAIN wire', wire'[i].t = "start" PROVE StartDue
      BY DEF StartDue
    <3>2. QED BY <1>1, <1>2, <3>1 DEF StartDue
  <2>2. Buffer' = Buffer \/ Buffer = <<>>
    BY <2>1 DEF Buffer
  <2>3. QED BY <2>2 DEF Had
<1>10. \A i \in 1..n : Lead(wire, i - 1) \subseteq Lead(wire', i - 1)
  <2>0. TAKE i \in 1..n
  <2>1. PICK k : k = i - 1
    OBVIOUS
  <2>2. k \in Nat /\ k <= k /\ \A j \in 1..k : j \in 1..n
    BY <1>1, <2>1
  <2>3. \A j \in 1..k : wire'[j] = wire[j]
    BY <1>2, <2>2
  <2>4. Lead(wire, k) \subseteq Lead(wire', k)
    BY <2>2, <2>3, LeadGrows
  <2>5. QED BY <2>1, <2>4
<1>11. ASSUME NEW k \in Nat, n <= k
       PROVE  Lead(wire, n) \subseteq Lead(wire', k)
  BY <1>1, <1>2, <1>11, LeadGrows
<1>12. ASSUME NEW k \in Nat, NEW j \in DOMAIN fs, n + j <= k
       PROVE  fs[j].seq \in Lead(wire', k)
  <2>1. PICK h : h = n + j
    OBVIOUS
  <2>2. h \in 1..k /\ wire'[h] = fs[j]
    BY <1>1, <1>2, <1>12, <2>1
  <2>3. QED BY <2>2, LeadHas
<1>13. PICK b0 \in Had \union Lead(wire, n) : stream.cursor <= b0
  BY <1>n DEF NoJump
<1>14. b0 \in Nat
  <2>1. \A x \in Lead(wire, n) : x \in Nat
    BY <1>3, LeadFrom
  <2>2. \A x \in Had : x \in Nat
    BY HadType, Constants
  <2>3. QED BY <1>13, <2>1, <2>2
<1>15. \A i \in DOMAIN wire' : \E b \in Had' \union Lead(wire', i - 1) : wire'[i].seq <= b + 1
  <2>1. TAKE i \in DOMAIN wire'
  <2>2. CASE i \in 1..n
    <3>1. \E b \in Had \union Lead(wire, i - 1) : wire[i].seq <= b + 1
      BY <1>1, <2>2 DEF NoJump
    <3>2. QED BY <1>2, <1>9, <1>10, <2>2, <3>1
  <2>3. CASE i - n \in 1..Len(fs) /\ wire'[i] = fs[i - n]
    <3>1. PICK k \in DOMAIN fs : i = n + k /\ wire'[i] = fs[k]
      <4>1. i - n \in DOMAIN fs /\ i = n + (i - n)
        BY <1>1, <1>2, <2>3
      <4>2. QED BY <2>3, <4>1
    <3>2. k \in Nat /\ i - 1 \in Nat /\ n <= i - 1
      BY <1>1, <3>1
    <3>3. CASE fs[k].seq <= stream.cursor + 1
      <4>1. fs[k].seq <= b0 + 1
        BY <1>3, <1>13, <1>14, <3>3
      <4>2. b0 \in Had' \union Lead(wire', i - 1)
        BY <1>9, <1>11, <1>13, <3>2
      <4>3. QED BY <3>1, <4>1, <4>2
    <3>4. ASSUME NEW j \in 1..(k - 1), fs[k].seq <= fs[j].seq + 1
          PROVE  \E b \in Had' \union Lead(wire', i - 1) : wire'[i].seq <= b + 1
      <4>1. j \in DOMAIN fs /\ n + j <= i - 1
        BY <1>1, <3>1, <3>2
      <4>2. fs[j].seq \in Lead(wire', i - 1)
        BY <1>12, <3>2, <4>1
      <4>3. QED BY <3>1, <3>4, <4>2
    <3>5. QED BY <3>3, <3>4
  <2>4. QED BY <1>2, <2>2, <2>3
<1>16. \E b \in Had' \union Lead(wire', m) : stream'.cursor <= b
  <2>0. m \in Nat /\ n <= m
    BY <1>1, <1>m
  <2>1. CASE stream'.cursor <= stream.cursor
    <3>1. stream'.cursor <= b0
      BY <1>3, <1>13, <1>14, <2>1
    <3>2. b0 \in Had' \union Lead(wire', m)
      BY <1>9, <1>11, <1>13, <2>0
    <3>3. QED BY <3>1, <3>2
  <2>2. ASSUME NEW i \in DOMAIN fs, stream'.cursor <= fs[i].seq
        PROVE  \E b \in Had' \union Lead(wire', m) : stream'.cursor <= b
    <3>1. n + i <= m
      BY <1>1, <1>m
    <3>2. QED BY <1>12, <2>0, <2>2, <3>1
  <2>3. QED BY <2>1, <2>2
<1>17. NoJump' /\ ReplayWhole'
  <2>1. m = Len(wire')
    BY <1>2, <1>m
  <2>2. client' = client /\ view' = view
    OBVIOUS
  <2>3. NoJump
    OBVIOUS
  <2>4. QED BY <1>15, <1>16, <2>1, <2>2, <2>3 DEF NoJump, ReplayWhole
<1>18. QED BY <1>5, <1>6, <1>7, <1>8, <1>17

LEMMA FramesTyped ==
  /\ \A c : c.gen \in Gens /\ c.floor \in Seqs => StartFrame(c) \in Frame
  /\ \A r \in Rows : RowFrame(r) \in Frame
  /\ \A g \in Gens : DoneFrame(g) \in Frame
  /\ ResetFrame \in Frame
<1>1. 0 \in 0..MaxGen /\ 0 \in Seqs /\ (\A g \in Gens : g \in 0..MaxGen) /\ \A r \in Rows : r \in Seqs
  BY Constants DEF Gens
<1>2. QED BY <1>1 DEF StartFrame, RowFrame, DoneFrame, ResetFrame, Frame

LEMMA NoStreamTyped ==
  NoStream \in StreamType /\ NoStream.st = "none" /\ NoStream.cursor = 0 /\ NoStream.gen = 0
  /\ NoStream.check.high = 0
<1>1. 0 \in 0..MaxGen /\ 0 \in Seqs /\ 1 \in Gens
  BY Constants DEF Gens
<1>2. NoCheck \in CheckType
  BY <1>1 DEF NoCheck, CheckType
<1>3. QED BY <1>1, <1>2 DEF NoStream, NoCheck, StreamType

\* A reset ends the stream.
LEMMA Refuses ==
  ASSUME IInv, stream.st # "none", Refuse, UNCHANGED <<journal, ws, client, view, load, sync, faults>>
  PROVE  IInv'
<1> DEFINE fs == <<ResetFrame>>
<1>1. Typed /\ journal.high \in Nat /\ journal.gen \in Nat /\ journal.gen # 0 /\ stream.cursor \in Nat
  <2>1. Typed
    BY DEF IInv
  <2>2. journal.gen \in 1..MaxGen
    BY <2>1, TypedGives DEF Gens
  <2>3. journal.high \in Nat /\ stream.cursor \in Nat
    BY <2>1, TypedGives, Constants
  <2>4. journal.gen \in Nat /\ journal.gen # 0
    BY <2>2, Constants
  <2>5. QED BY <2>1, <2>3, <2>4
<1>2. fs \in Seq(Frame) /\ DOMAIN fs = 1..1 /\ fs[1] = ResetFrame
  BY FramesTyped
<1>3. wire' = wire \o fs
  BY DEF Refuse
<1>4. stream' = NoStream
  BY DEF Refuse
<1>5. ResetFrame.seq = 0 /\ ResetFrame.t = "reset"
  BY DEF ResetFrame
<1>6. \A i \in DOMAIN fs : fs[i] = ResetFrame
  BY <1>2
<1> HIDE DEF fs
<1>7. /\ \A i \in DOMAIN fs : fs[i].seq <= journal.high
      /\ \A i \in DOMAIN fs : fs[i].t # "start"
      /\ \A i \in DOMAIN fs : fs[i].seq <= stream.cursor + 1
  BY <1>1, <1>5, <1>6
<1>8. /\ stream' \in StreamType /\ stream'.st # "asked" /\ stream'.cursor <= journal.high
      /\ stream'.check.high <= journal.high /\ stream'.gen <= journal.gen /\ stream'.gen # journal.gen
      /\ stream'.cursor <= stream.cursor
  BY <1>1, <1>4, NoStreamTyped
<1>9. QED BY <1>2, <1>3, <1>7, <1>8, HubSends

LEMMA StreamStartKeeps ==
  ASSUME IInv, StreamStart
  PROVE  IInv'
<1>1. stream.st = "asked" /\ UNCHANGED <<journal, ws, client, view, load, sync, faults>>
  BY DEF StreamStart
<1>2. CASE Refused(Checkpoint)
  <2>1. Refuse
    BY <1>2 DEF StreamStart
  <2>2. QED BY <1>1, <2>1, Refuses
<1>3. CASE ~Refused(Checkpoint)
  <2> DEFINE f == StartFrame(Checkpoint)
             fs == <<f>>
  <2>1. wire' = wire \o fs
    BY <1>3 DEF StreamStart
  <2>2. stream' = [stream EXCEPT !.st = "started", !.gen = journal.gen, !.check = Checkpoint]
    BY <1>3 DEF StreamStart
  <2>3. Typed /\ Bounded /\ GenKnown
    BY DEF IInv
  <2>4. /\ journal.high \in Nat /\ journal.gen \in Nat /\ journal.floor \in Nat /\ stream.cursor \in Nat
        /\ journal.gen \in Gens /\ journal.floor \in Seqs /\ journal.high \in Seqs /\ journal.gen \in 0..MaxGen
    BY <2>3, TypedGives, Constants DEF Gens
  <2>5. Checkpoint \in CheckType /\ Checkpoint.high = journal.high
    BY <2>4 DEF Checkpoint, CheckType
  <2>6. stream \in StreamType
    BY <2>3 DEF Typed
  <2>7. /\ stream' \in StreamType /\ stream'.st = "started" /\ stream'.gen = journal.gen
        /\ stream'.cursor = stream.cursor /\ stream'.check.high = journal.high
    BY <2>2, <2>4, <2>5, <2>6 DEF StreamType
  <2>8. /\ f \in Frame /\ f.seq = 0 /\ f.gen = journal.gen /\ f.floor = journal.floor
    <3>1. Checkpoint.gen = journal.gen /\ Checkpoint.floor = journal.floor
      BY DEF Checkpoint
    <3>2. f \in Frame
      BY <2>4, <3>1, FramesTyped
    <3>3. QED BY <3>1, <3>2 DEF StartFrame
  <2>9. journal.floor <= stream.cursor
    <3>1. stream.gen # journal.gen => ~(stream.cursor < journal.floor)
      BY <1>3 DEF Refused, Checkpoint
    <3>2. QED BY <2>3, <2>4, <3>1 DEF GenKnown
  <2> HIDE DEF f
  <2>10. fs \in Seq(Frame) /\ DOMAIN fs = {1} /\ fs[1] = f
    BY <2>8
  <2> HIDE DEF fs
  <2>11. /\ \A i \in DOMAIN fs : fs[i].seq <= journal.high
         /\ \A i \in DOMAIN fs : i = 1 /\ fs[i].gen = journal.gen /\ fs[i].floor = journal.floor
         /\ \A i \in DOMAIN fs : fs[i].seq <= stream.cursor + 1
    BY <2>4, <2>8, <2>10
  <2>12. stream'.cursor <= journal.high /\ stream'.cursor <= stream.cursor /\ stream'.check.high <= journal.high
         /\ stream'.gen <= journal.gen
    BY <2>3, <2>4, <2>7 DEF Bounded
  <2>13. QED BY <1>1, <2>1, <2>7, <2>9, <2>10, <2>11, <2>12, HubSends
<1>4. QED BY <1>2, <1>3

LEMMA Numbers ==
  ASSUME Typed
  PROVE  /\ journal.high \in Nat /\ journal.high \in Seqs /\ journal.high <= MaxSeq /\ MaxSeq \in Nat
         /\ journal.gen \in Nat /\ journal.gen \in Gens /\ journal.gen \in 0..MaxGen
         /\ journal.floor \in Nat /\ journal.floor \in Seqs
         /\ stream.cursor \in Nat /\ stream.cursor \in Seqs
         /\ stream.check.high \in Nat /\ stream.check.high \in Seqs
         /\ stream \in StreamType /\ stream.check \in CheckType /\ wire \in Seq(Frame)
<1>1. journal.gen \in 1..MaxGen /\ MaxGen \in Nat
  BY TypedGives, Constants DEF Gens
<1>2. journal.gen \in Nat /\ journal.gen \in 0..MaxGen
  BY <1>1
<1>3. journal.high \in 0..MaxSeq /\ MaxSeq \in Nat
  BY TypedGives, Constants
<1>4. journal.high \in Nat /\ journal.high <= MaxSeq
  BY <1>3
<1>5. /\ journal.floor \in Nat /\ stream.cursor \in Nat /\ stream.check.high \in Nat
      /\ journal.high \in Seqs /\ journal.gen \in Gens /\ journal.floor \in Seqs
      /\ stream.cursor \in Seqs /\ stream.check.high \in Seqs
      /\ stream.check \in CheckType /\ wire \in Seq(Frame)
  BY TypedGives, Constants
<1>6. stream \in StreamType
  BY DEF Typed
<1>7. QED BY <1>2, <1>3, <1>4, <1>5, <1>6

LEMMA FramesConcat ==
  ASSUME NEW a \in Seq(Frame), NEW b \in Seq(Frame), NEW c \in Seq(Frame)
  PROVE  a \o b \o c = a \o (b \o c)
BY ConcatAssociative

LEMMA PollKeeps ==
  ASSUME IInv, Poll
  PROVE  IInv'
<1>1. stream.st = "live" /\ UNCHANGED <<journal, ws, client, view, load, sync, faults>>
  BY DEF Poll
<1>2. CASE journal.gen # stream.gen /\ stream.cursor < journal.floor
  <2>1. Refuse
    BY <1>2 DEF Poll
  <2>2. QED BY <1>1, <2>1, Refuses
<1>3. CASE ~(journal.gen # stream.gen /\ stream.cursor < journal.floor)
  <2>1. wire' = wire
    BY <1>3 DEF Poll
  <2>2. PICK st \in {"live", "polled"} :
          stream' = [stream EXCEPT !.gen = journal.gen, !.check = Checkpoint, !.st = st]
    <3>1. stream' = [stream EXCEPT !.gen = journal.gen, !.check = Checkpoint,
                       !.st = IF journal.high > stream.cursor THEN "polled" ELSE stream.st]
      BY <1>3 DEF Poll
    <3>2. (IF journal.high > stream.cursor THEN "polled" ELSE stream.st) \in {"live", "polled"}
      BY <1>1
    <3>3. QED BY <3>1, <3>2
  <2>3. Typed /\ Bounded /\ GenKnown
    BY DEF IInv
  <2>4. /\ journal.high \in Nat /\ journal.gen \in Nat /\ journal.floor \in Nat /\ stream.cursor \in Nat
        /\ journal.gen \in Gens /\ journal.floor \in Seqs /\ journal.high \in Seqs /\ journal.gen \in 0..MaxGen
        /\ wire \in Seq(Frame)
    BY <2>3, Numbers
  <2>5. Checkpoint \in CheckType /\ Checkpoint.high = journal.high
    BY <2>4 DEF Checkpoint, CheckType
  <2>6. stream \in StreamType
    BY <2>3 DEF Typed
  <2>7. /\ stream' \in StreamType /\ stream'.st = st /\ stream'.gen = journal.gen
        /\ stream'.cursor = stream.cursor /\ stream'.check.high = journal.high
    BY <2>2, <2>4, <2>5, <2>6 DEF StreamType
  <2>8. stream'.cursor <= journal.high /\ stream'.cursor <= stream.cursor /\ stream'.check.high <= journal.high
        /\ stream'.gen <= journal.gen
    BY <2>3, <2>4, <2>7 DEF Bounded
  <2>9. journal.floor <= stream'.cursor
    BY <1>3, <2>3, <2>4, <2>7 DEF GenKnown
  <2>10. PICK fs : fs = <<>>
    OBVIOUS
  <2>11. fs \in Seq(Frame) /\ DOMAIN fs = {}
    <3> HIDE DEF Frame
    <3>1. QED BY <2>10
  <2>12. wire' = wire \o fs
    <3>1. wire \o <<>> = wire
      <4> HIDE DEF Frame
      <4>1. QED BY <2>4, ConcatEmptySeq
    <3>2. QED BY <2>1, <2>10, <3>1
  <2>13. stream'.st # "asked"
    BY <2>2, <2>7
  <2>14. QED BY <1>1, <2>7, <2>8, <2>9, <2>11, <2>12, <2>13, HubSends
<1>4. QED BY <1>2, <1>3

\* A page sent behind a cursor that no deletion has passed is consecutive.
LEMMA SendPageKeeps ==
  ASSUME IInv, SendPage
  PROVE  IInv'
<1> DEFINE page == Page(stream.cursor, stream.check.high)
           rows == [i \in 1..Len(page.rows) |-> RowFrame(page.rows[i])]
           done == IF stream.st = "started" THEN <<DoneFrame(journal.gen)>> ELSE <<>>
<1>1. stream.st # "none" /\ UNCHANGED <<journal, ws, client, view, load, sync, faults>>
  BY DEF SendPage
<1>2. CASE (journal.gen # stream.gen /\ stream.cursor < journal.floor) \/ page.more
  <2>1. Refuse
    BY <1>2 DEF SendPage
  <2>2. QED BY <1>1, <2>1, Refuses
<1>3. CASE ~((journal.gen # stream.gen /\ stream.cursor < journal.floor) \/ page.more)
  <2>1. /\ wire' = wire \o rows \o done
        /\ stream' = [stream EXCEPT !.st = "live", !.gen = journal.gen, !.cursor = page.last]
    BY <1>3 DEF SendPage
  <2>2. ~(journal.gen # stream.gen /\ stream.cursor < journal.floor)
    BY <1>3
  <2>3. Typed /\ Bounded /\ GenKnown
    BY DEF IInv
  <2>4. /\ journal.high \in Nat /\ journal.gen \in Nat /\ journal.floor \in Nat /\ stream.cursor \in Nat
        /\ stream.check.high \in Nat /\ stream.check.high \in Seqs /\ stream.cursor \in Seqs
        /\ journal.gen \in Gens /\ journal.gen \in 0..MaxGen /\ journal.high <= MaxSeq /\ MaxSeq \in Nat
        /\ wire \in Seq(Frame) /\ stream \in StreamType /\ stream.check \in CheckType
    BY <2>3, Numbers
  <2>5. /\ journal.floor <= stream.cursor /\ stream.cursor <= journal.high
        /\ stream.check.high <= journal.high /\ journal.gone \subseteq 1..journal.floor
    BY <2>2, <2>3, <2>4 DEF GenKnown, Bounded
  <2>6. journal.gone \cap (stream.cursor + 1)..stream.check.high = {}
    <3>1. ASSUME NEW x \in journal.gone, x \in (stream.cursor + 1)..stream.check.high
          PROVE  FALSE
      <4>1. x \in 1..journal.floor
        BY <2>5
      <4>2. QED BY <2>4, <2>5, <3>1, <4>1
    <3>2. QED BY <3>1
  <2>7. PICK m \in Nat : /\ page.rows = [i \in 1..m |-> stream.cursor + i]
                         /\ page.last = stream.cursor + m
                         /\ m = 0 \/ stream.cursor + m <= stream.check.high
    BY <2>4, <2>6, PageOfRows
  <2> HIDE DEF page
  <2>8. stream.cursor + m <= journal.high /\ stream.cursor + m \in Seqs
    BY <2>4, <2>5, <2>7, Constants
  <2>9. \A i \in 1..m : stream.cursor + i \in Rows
    <3>1. TAKE i \in 1..m
    <3>2. PICK r : r = stream.cursor + i
      OBVIOUS
    <3>3. r \in Nat /\ 1 <= r /\ r <= MaxSeq
      BY <2>4, <2>8, <3>2
    <3>4. QED BY <3>2, <3>3, Constants
  <2>10. Len(page.rows) = m /\ rows = [i \in 1..m |-> RowFrame(stream.cursor + i)]
    <3>1. Len(page.rows) = m
      BY <2>7
    <3>2. QED BY <2>7, <3>1
  <2> HIDE DEF rows
  <2>11. rows \in Seq(Frame) /\ Len(rows) = m
    <3>1. \A i \in 1..m : RowFrame(stream.cursor + i) \in Frame
      BY <2>9, FramesTyped
    <3> HIDE DEF Frame
    <3>2. QED BY <2>10, <3>1
  <2>12. PICK d \in 0..1 : done \in Seq(Frame) /\ Len(done) = d /\ \A i \in 1..d : done[i] = DoneFrame(journal.gen)
    <3>1. DoneFrame(journal.gen) \in Frame
      BY <2>4, FramesTyped
    <3> HIDE DEF Frame
    <3>2. QED BY <3>1
  <2> HIDE DEF done
  <2>13. PICK fs : fs = rows \o done
    OBVIOUS
  <2>14. /\ fs \in Seq(Frame) /\ DOMAIN fs = 1..(m + d)
         /\ \A i \in 1..(m + d) : fs[i] = IF i <= m THEN rows[i] ELSE done[i - m]
    <3> HIDE DEF Frame
    <3>1. /\ fs \in Seq(Frame) /\ Len(fs) = m + d
          /\ \A i \in 1..(m + d) : fs[i] = IF i <= m THEN rows[i] ELSE done[i - m]
      BY <2>11, <2>12, <2>13, ConcatProperties
    <3>2. QED BY <3>1
  <2>15. \A i \in 1..m : fs[i] = RowFrame(stream.cursor + i)
    <3>1. \A i \in 1..m : i \in 1..(m + d) /\ i <= m
      BY <2>12
    <3>2. QED BY <2>10, <2>14, <3>1
  <2>16. \A i \in DOMAIN fs : i \in 1..m \/ fs[i] = DoneFrame(journal.gen)
    <3>1. \A i \in 1..(m + d) : i \in 1..m \/ (i - m \in 1..d /\ ~(i <= m))
      BY <2>12
    <3>2. QED BY <2>12, <2>14, <3>1
  <2>17. wire' = wire \o fs
    <3>1. wire \o rows \o done = wire \o (rows \o done)
      <4> HIDE DEF Frame
      <4>1. wire \in Seq(Frame) /\ rows \in Seq(Frame) /\ done \in Seq(Frame)
        BY <2>4, <2>11, <2>12
      <4>2. QED BY <4>1, FramesConcat
    <3>2. QED BY <2>1, <2>13, <3>1
  <2>18. /\ \A i \in 1..m : fs[i].seq = stream.cursor + i /\ fs[i].t = "row"
         /\ \A i \in DOMAIN fs : i \in 1..m \/ (fs[i].seq = 0 /\ fs[i].t = "done")
    <3>1. \A r : RowFrame(r).seq = r /\ RowFrame(r).t = "row"
      BY DEF RowFrame
    <3>2. \A g : DoneFrame(g).seq = 0 /\ DoneFrame(g).t = "done"
      BY DEF DoneFrame
    <3>3. \A i \in 1..m : fs[i].seq = stream.cursor + i /\ fs[i].t = "row"
      BY <2>15, <3>1
    <3>4. QED BY <2>16, <3>2, <3>3
  <2>19. \A i \in DOMAIN fs : fs[i].seq <= journal.high /\ fs[i].t # "start"
    BY <2>4, <2>8, <2>18
  <2>20. \A i \in DOMAIN fs : fs[i].seq <= stream.cursor + 1
                              \/ \E j \in 1..(i - 1) : fs[i].seq <= fs[j].seq + 1
    <3>1. TAKE i \in DOMAIN fs
    <3>2. CASE i \in 1..m /\ i # 1
      <4>1. i - 1 \in 1..m /\ i - 1 \in 1..(i - 1)
        BY <3>2
      <4>2. fs[i].seq = stream.cursor + i /\ fs[i - 1].seq = stream.cursor + (i - 1)
        BY <2>18, <3>2, <4>1
      <4>3. fs[i].seq <= fs[i - 1].seq + 1
        BY <2>4, <3>2, <4>2
      <4>4. QED BY <4>1, <4>3
    <3>3. CASE i = 1 /\ i \in 1..m
      BY <2>4, <2>18, <3>3
    <3>4. CASE i \notin 1..m
      BY <2>4, <2>18, <3>4
    <3>5. QED BY <3>2, <3>3, <3>4
  <2>21. /\ stream' \in StreamType /\ stream'.st = "live" /\ stream'.gen = journal.gen
         /\ stream'.cursor = stream.cursor + m /\ stream'.check = stream.check
    BY <2>1, <2>4, <2>7, <2>8 DEF StreamType
  <2>22. stream'.cursor <= stream.cursor \/ \E i \in DOMAIN fs : stream'.cursor <= fs[i].seq
    <3>1. CASE m = 0
      BY <2>4, <2>21, <3>1
    <3>2. CASE m # 0
      <4>1. m \in 1..m /\ m \in 1..(m + d)
        BY <2>12, <3>2
      <4>2. m \in DOMAIN fs /\ fs[m].seq = stream.cursor + m /\ stream'.cursor = stream.cursor + m
        BY <2>14, <2>18, <2>21, <4>1
      <4>3. stream'.cursor <= fs[m].seq
        BY <2>4, <4>2
      <4>4. QED BY <4>2, <4>3
    <3>3. QED BY <3>1, <3>2
  <2>23. /\ stream'.cursor <= journal.high /\ stream'.check.high <= journal.high /\ stream'.gen <= journal.gen
         /\ journal.floor <= stream'.cursor
    BY <2>4, <2>5, <2>8, <2>21
  <2>24. QED BY <1>1, <2>14, <2>17, <2>19, <2>20, <2>21, <2>22, <2>23, HubSends
<1>4. QED BY <1>2, <1>3

-----------------------------------------------------------------------------
(* The client's end of the socket.                                           *)

LEMMA FollowsEmpty ==
  ASSUME NEW B
  PROVE  Follows(<<>>, B)
BY DEF Follows

LEMMA FollowsLater ==
  ASSUME NEW a \in Nat, NEW b \in Nat, a <= b, NEW q \in Seq(Rows), Follows(q, a)
  PROVE  Follows(q, b)
<1>1. \A i \in DOMAIN q : q[i] \in Nat
  BY Constants
<1>2. SUFFICES ASSUME NEW i \in DOMAIN q PROVE \E x \in {b} \union Before(q, i) : q[i] <= x + 1
  BY DEF Follows
<1>3. PICK x \in {a} \union Before(q, i) : q[i] <= x + 1
  BY DEF Follows
<1>4. CASE x = a
  BY <1>1, <1>3, <1>4
<1>5. CASE x \in Before(q, i)
  BY <1>3, <1>5
<1>6. QED BY <1>3, <1>4, <1>5

Joins(r, p, q) == r = p \o q
Extends(r, q, x) == r = Append(q, x)

LEMMA FollowsConcat ==
  ASSUME NEW a, NEW p, NEW q, NEW r, Joins(r, p, q),
         a \in Nat, p \in Seq(Rows), q \in Seq(Rows), Follows(p, a), Follows(q, a)
  PROVE  /\ r \in Seq(Rows) /\ Follows(r, a)
         /\ \A i \in DOMAIN r : \/ \E k \in DOMAIN p : r[i] = p[k]
                               \/ \E k \in DOMAIN q : r[i] = q[k]
         /\ \A k \in DOMAIN q : \E i \in DOMAIN r : r[i] = q[k]
<1>1. r = p \o q
  BY DEF Joins
<1>2. /\ r \in Seq(Rows) /\ DOMAIN r = 1..(Len(p) + Len(q))
      /\ \A i \in 1..(Len(p) + Len(q)) : r[i] = IF i <= Len(p) THEN p[i] ELSE q[i - Len(p)]
      /\ Len(p) \in Nat /\ Len(q) \in Nat /\ DOMAIN p = 1..Len(p) /\ DOMAIN q = 1..Len(q)
  BY <1>1, ConcatProperties
<1>3. PICK n : n = Len(p)
  OBVIOUS
<1>4. \A i \in DOMAIN p : i \in DOMAIN r /\ r[i] = p[i]
  BY <1>2
<1>5. \A i \in DOMAIN q : n + i \in DOMAIN r /\ r[n + i] = q[i]
  <2>1. TAKE i \in DOMAIN q
  <2>2. PICK k : k = n + i
    OBVIOUS
  <2>3. k \in 1..(Len(p) + Len(q)) /\ ~(k <= Len(p)) /\ k - Len(p) = i
    BY <1>2, <1>3, <2>2
  <2>4. QED BY <1>2, <2>2, <2>3
<1>6. \A i \in DOMAIN r : i \in DOMAIN p \/ \E k \in DOMAIN q : i = n + k
  <2>1. TAKE i \in DOMAIN r
  <2>2. CASE ~(i \in DOMAIN p)
    <3>1. i - n \in DOMAIN q /\ i = n + (i - n)
      BY <1>2, <1>3, <2>2
    <3>2. QED BY <3>1
  <2>3. QED BY <2>2
<1>7. Follows(r, a)
  <2>1. SUFFICES ASSUME NEW i \in DOMAIN r PROVE \E x \in {a} \union Before(r, i) : r[i] <= x + 1
    BY DEF Follows
  <2>2. CASE i \in DOMAIN p
    <3>1. PICK x \in {a} \union Before(p, i) : p[i] <= x + 1
      BY <2>2 DEF Follows
    <3>2. x \in {a} \union Before(r, i)
      <4>1. \A j \in 1..(i - 1) : r[j] = p[j]
        <5>1. \A j \in 1..(i - 1) : j \in DOMAIN p
          BY <1>2, <2>2
        <5>2. QED BY <1>4, <5>1
      <4>2. QED BY <3>1, <4>1 DEF Before
    <3>3. QED BY <1>4, <2>2, <3>1, <3>2
  <2>3. ASSUME NEW k \in DOMAIN q, i = n + k
        PROVE  \E x \in {a} \union Before(r, i) : r[i] <= x + 1
    <3>1. PICK x \in {a} \union Before(q, k) : q[k] <= x + 1
      BY DEF Follows
    <3>2. x \in {a} \union Before(r, i)
      <4>1. CASE x \in Before(q, k)
        <5>1. PICK j \in 1..(k - 1) : x = q[j]
          BY <4>1 DEF Before
        <5>2. PICK h : h = n + j
          OBVIOUS
        <5>3. j \in DOMAIN q /\ h \in 1..(i - 1)
          BY <1>2, <1>3, <2>3, <5>2
        <5>4. r[h] = x
          BY <1>5, <5>1, <5>2, <5>3
        <5>5. QED BY <5>3, <5>4 DEF Before
      <4>2. QED BY <3>1, <4>1
    <3>3. QED BY <1>5, <2>3, <3>1, <3>2
  <2>4. QED BY <1>6, <2>2, <2>3
<1>8. QED BY <1>1, <1>2, <1>4, <1>5, <1>6, <1>7

LEMMA FollowsAppend ==
  ASSUME NEW a, NEW q, NEW x, NEW b, NEW r, Extends(r, q, x),
         a \in Nat, q \in Seq(Rows), Follows(q, a), x \in Rows,
         b = a \/ \E i \in DOMAIN q : b = q[i], x <= b + 1
  PROVE  /\ r \in Seq(Rows) /\ Follows(r, a)
         /\ DOMAIN r = 1..(Len(q) + 1) /\ r[Len(q) + 1] = x
         /\ \A i \in DOMAIN q : i \in DOMAIN r /\ r[i] = q[i]
<1>0. r = Append(q, x)
  BY DEF Extends
<1>1. PICK n : n = Len(q)
  OBVIOUS
<1>2. /\ r \in Seq(Rows) /\ DOMAIN r = 1..(n + 1) /\ r[n + 1] = x /\ n \in Nat /\ DOMAIN q = 1..n
      /\ \A i \in 1..n : r[i] = q[i]
  BY <1>0, <1>1
<1>3. Follows(r, a)
  <2>1. SUFFICES ASSUME NEW i \in DOMAIN r PROVE \E y \in {a} \union Before(r, i) : r[i] <= y + 1
    BY DEF Follows
  <2>2. CASE i \in 1..n
    <3>1. PICK y \in {a} \union Before(q, i) : q[i] <= y + 1
      BY <1>2, <2>2 DEF Follows
    <3>2. y \in {a} \union Before(r, i)
      <4>1. \A j \in 1..(i - 1) : r[j] = q[j]
        <5>1. \A j \in 1..(i - 1) : j \in 1..n
          BY <1>2, <2>2
        <5>2. QED BY <1>2, <5>1
      <4>2. QED BY <3>1, <4>1 DEF Before
    <3>3. QED BY <1>2, <2>2, <3>1, <3>2
  <2>3. CASE i = n + 1
    <3>1. b \in {a} \union Before(r, i)
      <4>1. \A j \in 1..n : j \in 1..(i - 1) /\ r[j] = q[j]
        BY <1>2, <2>3
      <4>2. QED BY <1>2, <4>1 DEF Before
    <3>2. QED BY <1>2, <2>3, <3>1
  <2>4. QED BY <1>2, <2>2, <2>3
<1>4. QED BY <1>1, <1>2, <1>3

\* The client takes k frames off the wire, and for all it had before, or takes, it has
\* something as high afterwards.
LEMMA ClientMoves ==
  ASSUME IInv, NEW k \in 0..1, UNCHANGED <<journal, stream, ws, load, sync, faults>>,
         wire' \in Seq(Frame), k <= Len(wire), Len(wire') = Len(wire) - k,
         \A i \in DOMAIN wire' : wire'[i] = wire[i + k],
         client' \in ClientType, view' \in ViewType,
         k = 1 => ws = "open", k = 0 => client'.staging = client.staging,
         ~client'.staging => client'.staged = <<>>,
         UNCHANGED <<client.base, client.timer, client.refresh>>,
         client.last <= client'.last, client'.last <= journal.high,
         client'.gen <= journal.gen, client'.gen = journal.gen => journal.floor <= client'.last,
         \A i \in DOMAIN client'.pending : client'.pending[i] <= journal.high,
         \A i \in DOMAIN client'.staged : client'.staged[i] <= journal.high,
         Follows(client'.pending, client'.last), Follows(client'.staged, client'.last),
         \A b \in Had : \E x \in Had' : b <= x,
         k = 1 => \E x \in Had' : wire[1].seq <= x,
         ReplayWhole'
  PROVE  IInv'
<1> USE DEF IInv
<1>n. PICK n, m : n = Len(wire) /\ m = Len(wire')
  OBVIOUS
<1>1. /\ n \in Nat /\ DOMAIN wire = 1..n /\ m \in Nat /\ DOMAIN wire' = 1..m /\ m = n - k /\ k <= n
      /\ \A i \in 1..m : i + k \in 1..n /\ wire'[i] = wire[i + k]
  <2>1. n \in Nat /\ DOMAIN wire = 1..n
    BY <1>n, TypedGives
  <2>2. m \in Nat /\ DOMAIN wire' = 1..m
    BY <1>n
  <2>3. m = n - k /\ k <= n
    BY <1>n
  <2>4. \A i \in 1..m : i + k \in 1..n
    BY <2>1, <2>2, <2>3
  <2>5. \A i \in 1..m : wire'[i] = wire[i + k]
    BY <2>2
  <2>6. QED BY <2>1, <2>2, <2>3, <2>4, <2>5
<1>2. Typed'
  BY DEF Typed
<1>3. Bounded'
  <2>1. client'.base <= client'.last
    <3>1. client.base \in Nat /\ client.last \in Nat /\ client'.last \in Nat
      BY <1>2, TypedGives, Constants DEF Typed, ClientType
    <3>2. QED BY <3>1 DEF Bounded
  <2>2. \A i \in DOMAIN wire' : wire'[i].seq <= journal.high
    BY <1>1 DEF Bounded
  <2>3. QED BY <2>1, <2>2 DEF Bounded
<1>4. GenKnown'
  <2>1. \A i \in DOMAIN wire' : wire'[i].t = "start" =>
          wire'[i].gen <= journal.gen /\ (wire'[i].gen = journal.gen => wire'[i].floor = journal.floor)
    BY <1>1 DEF GenKnown
  <2>2. QED BY <2>1 DEF GenKnown
<1>5. k = 1 => \A i \in DOMAIN wire' : wire'[i].t # "start"
  <2>1. SUFFICES ASSUME k = 1, NEW i \in DOMAIN wire' PROVE wire'[i].t # "start"
    OBVIOUS
  <2>2. i + 1 \in DOMAIN wire /\ i + 1 # 1 /\ wire'[i] = wire[i + 1]
    BY <1>1, <2>1
  <2>3. QED BY <2>2 DEF Ordered
<1>6. k = 0 => wire' = wire
  <2>1. SUFFICES ASSUME k = 0 PROVE wire' = wire
    OBVIOUS
  <2>2. wire \in Seq(Frame) /\ m = n
    BY <1>1, <2>1, TypedGives
  <2>3. \A i \in 1..n : wire'[i] = wire[i]
    <3>1. TAKE i \in 1..n
    <3>2. i + k = i
      BY <2>1
    <3>3. QED BY <1>1, <2>2, <3>2
  <2> HIDE DEF Frame
  <2>4. QED BY <1>n, <2>2, <2>3, SeqEqual
<1>7. k = 1 => wire # <<>>
  BY <1>1
<1>8. Ordered'
  <2>1. /\ ws # "open" => wire' = <<>> /\ stream = NoStream /\ ~client'.staging
        /\ stream.st = "asked" => wire' = <<>> /\ ~client'.staging
        /\ \A i \in DOMAIN wire' : wire'[i].t = "start" => i = 1 /\ ~client'.staging
    <3>1. CASE k = 0
      BY <1>6, <3>1 DEF Ordered
    <3>2. CASE k = 1
      BY <1>5, <1>7, <3>2 DEF Ordered
    <3>3. QED BY <3>1, <3>2
  <2>2. QED BY <2>1 DEF Ordered
<1>9. ASSUME NEW j \in Nat, NEW b \in Had \union Lead(wire, j + k), j <= m
      PROVE  \E x \in Had' \union Lead(wire', j) : b <= x
  <2>1. CASE b \in Had
    BY <2>1
  <2>2. CASE b \in Lead(wire, j + k)
    <3>1. PICK i \in 1..(j + k) : b = wire[i].seq
      BY <2>2, LeadFrom
    <3>2. CASE i <= k
      <4>1. i = 1 /\ k = 1
        BY <3>2
      <4>2. QED BY <3>1, <4>1
    <3>3. CASE ~(i <= k)
      <4>1. PICK h : h = i - k
        OBVIOUS
      <4>2. h \in 1..j /\ h \in 1..m /\ h + k = i
        BY <1>1, <1>9, <3>3, <4>1
      <4>3. wire'[h] = wire[i] /\ wire'[h].seq \in Lead(wire', j)
        BY <1>1, <4>2, LeadHas
      <4>4. b \in Nat /\ b \in Lead(wire', j)
        <5>1. i \in DOMAIN wire
          BY <1>1, <4>2
        <5>2. QED BY <3>1, <4>3, <5>1, TypedGives, Constants
      <4>5. QED BY <4>4
    <3>4. QED BY <3>2, <3>3
  <2>3. QED BY <1>9, <2>1, <2>2
<1>10. \A j \in Nat : j + k <= n => \A b \in Had \union Lead(wire, j + k) : b \in Nat
  <2>1. TAKE j \in Nat
  <2>2. HAVE j + k <= n
  <2>3. \A i \in 1..(j + k) : wire[i].seq \in Nat
    <3>1. \A i \in 1..(j + k) : i \in DOMAIN wire
      BY <1>1, <2>2
    <3>2. QED BY <3>1, TypedGives, Constants
  <2>4. \A b \in Lead(wire, j + k) : b \in Nat
    BY <2>3, LeadFrom
  <2>5. \A b \in Had : b \in Nat
    BY HadType, Constants
  <2>6. QED BY <2>4, <2>5
<1>11. ASSUME NEW j \in Nat, j <= m
       PROVE  \A x \in Had' \union Lead(wire', j) : x \in Nat
  <2>1. \A i \in 1..j : wire'[i].seq \in Nat
    <3>1. \A i \in 1..j : i + k \in DOMAIN wire /\ wire'[i] = wire[i + k]
      BY <1>1, <1>11
    <3>2. QED BY <3>1, TypedGives, Constants
  <2>2. \A x \in Lead(wire', j) : x \in Nat
    BY <2>1, LeadFrom
  <2>3. \A x \in Had' : x \in Nat
    <3>1. client'.pending \in Seq(Rows) /\ client'.staged \in Seq(Rows) /\ client'.last \in Nat
      BY Constants DEF ClientType
    <3>2. Buffer' \in Seq(Rows)
      <4>1. <<>> \in Seq(Rows)
        OBVIOUS
      <4>2. QED BY <3>1, <4>1 DEF Buffer
    <3>3. \A i \in DOMAIN Buffer' : Buffer'[i] \in Nat
      <4>1. \A i \in DOMAIN Buffer' : Buffer'[i] \in Rows
        BY <3>2
      <4>2. QED BY <4>1, Constants
    <3>4. QED BY <3>1, <3>3 DEF Had
  <2>4. QED BY <2>2, <2>3
<1>12. \A i \in DOMAIN wire' : \E b \in Had' \union Lead(wire', i - 1) : wire'[i].seq <= b + 1
  <2>1. TAKE i \in DOMAIN wire'
  <2>2. PICK j, h : j = i - 1 /\ h = i + k
    OBVIOUS
  <2>3. j \in Nat /\ h \in DOMAIN wire /\ h - 1 = j + k /\ wire'[i] = wire[h] /\ j <= m /\ j + k <= n
    BY <1>1, <2>2
  <2>4. PICK b \in Had \union Lead(wire, j + k) : wire[h].seq <= b + 1
    BY <2>3 DEF NoJump
  <2>5. PICK x \in Had' \union Lead(wire', j) : b <= x
    BY <1>9, <2>3
  <2>6. b \in Nat /\ x \in Nat /\ wire[h].seq \in Nat
    BY <1>10, <1>11, <2>3, TypedGives, Constants
  <2>7. wire'[i].seq <= x + 1
    BY <2>3, <2>4, <2>5, <2>6
  <2>8. QED BY <2>2, <2>5, <2>7
<1>13. \E b \in Had' \union Lead(wire', m) : stream.cursor <= b
  <2>1. m + k = n /\ m <= m
    BY <1>1
  <2>2. PICK b \in Had \union Lead(wire, m + k) : stream.cursor <= b
    BY <1>n, <2>1 DEF NoJump
  <2>3. PICK x \in Had' \union Lead(wire', m) : b <= x
    BY <1>1, <1>9, <2>1
  <2>4. m \in Nat /\ m + k <= n
    BY <1>1, <2>1
  <2>5. b \in Nat
    BY <1>10, <2>2, <2>4
  <2>6. x \in Nat
    BY <1>11, <2>1, <2>3, <2>4
  <2>7. stream.cursor \in Nat
    BY TypedGives, Constants
  <2>8. QED BY <2>2, <2>3, <2>5, <2>6, <2>7
<1>14. NoJump'
  BY <1>n, <1>12, <1>13 DEF NoJump
<1>15. QED BY <1>2, <1>3, <1>4, <1>8, <1>14

\* What is left of a buffer at most continues the cursor; sockets that end or begin have
\* nothing on the wire, and a new one is asked for the rows after the cursor.
LEMMA Cut ==
  ASSUME IInv, UNCHANGED journal, wire' = <<>>, stream' \in StreamType, client' \in ClientType,
         ws' \in {"none", "open", "closing"}, view' \in ViewType, load' \in [Slots -> LoadType],
         sync' \in SyncType, faults' \in 0..MaxFaults,
         ~client'.staging, client'.staged = <<>>,
         client'.pending = <<>> \/ (client'.pending = client.pending /\ client'.last = client.last),
         \/ stream' = NoStream /\ ws' # "open"
         \/ /\ ws' = "open" /\ stream'.st = "asked" /\ stream'.gen = client'.gen
            /\ stream'.cursor = client'.last /\ stream'.check = NoCheck
            /\ ~client'.timer /\ client'.refresh.st = "no",
         ~(client'.timer /\ client'.refresh.st # "no"),
         client'.base <= client'.last, client'.last <= journal.high, client'.gen <= journal.gen,
         client'.gen = journal.gen => journal.floor <= client'.last,
         client'.refresh.high <= journal.high, client'.refresh.gen <= journal.gen,
         client'.refresh.gen = journal.gen => journal.floor <= client'.refresh.high,
         ReplayWhole'
  PROVE  IInv'
<1> USE DEF IInv
<1>1. DOMAIN wire' = {} /\ Len(wire') = 0 /\ wire' \in Seq(Frame)
  <2> HIDE DEF Frame
  <2>1. QED OBVIOUS
<1>2. Typed'
  BY <1>1 DEF Typed
<1>3. /\ journal.gen \in Nat /\ journal.gen # 0 /\ journal.high \in Nat /\ client'.last \in Nat
      /\ client'.last \in Had'
  <2>1. journal.gen \in 1..MaxGen /\ MaxGen \in Nat
    BY TypedGives, Constants DEF Gens
  <2>2. journal.gen \in Nat /\ journal.gen # 0
    BY <2>1
  <2>3. client'.last \in Had'
    BY DEF Had
  <2>4. QED BY <2>2, <2>3, TypedGives, Constants DEF ClientType
<1>4. /\ stream'.cursor <= journal.high /\ stream'.check.high <= journal.high
      /\ stream'.gen <= journal.gen /\ (stream'.gen = journal.gen => journal.floor <= stream'.cursor)
      /\ stream'.cursor <= client'.last
  <2>1. CASE stream' = NoStream
    BY <1>3, <2>1, NoStreamTyped
  <2>2. CASE stream'.gen = client'.gen /\ stream'.cursor = client'.last /\ stream'.check = NoCheck
    <3>1. stream'.check.high = 0
      BY <2>2 DEF NoCheck
    <3>2. QED BY <1>3, <2>2, <3>1
  <2>3. QED BY <2>1, <2>2
<1>5. Bounded'
  <2>1. \A i \in DOMAIN client'.pending : client'.pending[i] <= journal.high
    <3>1. CASE client'.pending = <<>>
      BY <3>1
    <3>2. CASE client'.pending = client.pending
      BY <3>2 DEF Bounded
    <3>3. QED BY <3>1, <3>2
  <2>2. \A i \in DOMAIN client'.staged : client'.staged[i] <= journal.high
    OBVIOUS
  <2>3. QED BY <1>1, <1>4, <2>1, <2>2 DEF Bounded
<1>6. GenKnown'
  BY <1>1, <1>4 DEF GenKnown
<1>7. Ordered'
  BY <1>1 DEF Ordered
<1>8. NoJump'
  <2>1. Follows(client'.pending, client'.last)
    BY FollowsEmpty DEF NoJump
  <2>2. Follows(client'.staged, client'.last)
    BY FollowsEmpty
  <2>3. QED BY <1>1, <1>3, <1>4, <2>1, <2>2 DEF NoJump
<1>9. QED BY <1>2, <1>5, <1>6, <1>7, <1>8

\* A flush applies what is buffered, and nothing it steps over is missing.
LEMMA Applies ==
  ASSUME IInv, NEW rest \in Seq(Rows), Flushed(client, view, client.pending, rest)
  PROVE  /\ client' \in ClientType /\ client'.pending = rest
         /\ UNCHANGED <<client.gen, client.base, client.staging, client.staged, client.timer, client.refresh>>
         /\ client.last <= client'.last /\ client'.last \in Nat /\ client'.last <= journal.high
         /\ \A i \in DOMAIN client.pending : client.pending[i] <= client'.last
         /\ view' \in ViewType /\ ReplayWhole' /\ view.rows \subseteq view'.rows
         /\ (client.last + 1)..client'.last \subseteq view'.rows
         /\ UNCHANGED <<view.older, view.pulled, view.loading, view.failed>>
         /\ IF client'.last = client.last
              THEN view'.status = view.status /\ view'.fence = view.fence
              ELSE view'.status = client'.last /\ view'.fence = client'.last
<1> USE DEF IInv
<1>1. PICK a : a = Apply(client, view, client.pending)
  OBVIOUS
<1>2. /\ client' = [client EXCEPT !.last = a.last, !.pending = rest]
      /\ view' = [view EXCEPT !.rows = a.rows, !.status = a.status, !.fence = a.fence]
  BY <1>1 DEF Flushed
<1>3. client \in ClientType /\ view \in ViewType
  BY DEF Typed
<1>4. view.rows \subseteq Rows /\ view.status \in Seqs /\ view.fence \in Seqs
  BY <1>3 DEF ViewType
<1>5. client.last \in Seqs /\ client.pending \in Seq(Rows) /\ Follows(client.pending, client.last)
  BY TypedGives DEF NoJump
<1>6. /\ a.last \in Seqs /\ a.rows \subseteq Rows /\ a.status \in Seqs /\ a.fence \in Seqs
      /\ client.last <= a.last /\ \A i \in DOMAIN client.pending : client.pending[i] <= a.last
  BY <1>1, <1>4, <1>5, ApplyAll
<1>7. /\ a.last = client.last \/ \E i \in DOMAIN client.pending : a.last = client.pending[i]
      /\ view.rows \subseteq a.rows /\ (client.last + 1)..a.last \subseteq a.rows
      /\ IF a.last = client.last THEN a.status = view.status /\ a.fence = view.fence
         ELSE a.status = a.last /\ a.fence = a.last
  BY <1>1, <1>4, <1>5, ApplyAll
<1>8. /\ client' \in ClientType /\ client'.pending = rest /\ client'.last = a.last
      /\ UNCHANGED <<client.gen, client.base, client.staging, client.staged, client.timer, client.refresh>>
  BY <1>2, <1>3, <1>6 DEF ClientType
<1>9. /\ view' \in ViewType /\ view'.rows = a.rows /\ view'.status = a.status /\ view'.fence = a.fence
      /\ UNCHANGED <<view.older, view.pulled, view.loading, view.failed>>
  BY <1>2, <1>3, <1>6 DEF ViewType
<1>10. a.last <= journal.high /\ a.last \in Nat
  BY <1>6, <1>7, Constants DEF Bounded
<1>11. ReplayWhole'
  <2>1. \A x \in (client.base + 1)..a.last : x \in (client.base + 1)..client.last \/ x \in (client.last + 1)..a.last
    <3>1. client.last \in Nat /\ client.base \in Nat
      BY TypedGives, Constants
    <3>2. QED BY <1>10, <3>1
  <2>2. (client.base + 1)..a.last \subseteq a.rows
    BY <1>7, <2>1 DEF ReplayWhole
  <2>3. QED BY <1>8, <1>9, <2>2 DEF ReplayWhole
<1>12. QED BY <1>6, <1>7, <1>8, <1>9, <1>10, <1>11

LEMMA FlushKeeps ==
  ASSUME IInv, Flush
  PROVE  IInv'
<1>1. /\ UNCHANGED <<journal, stream, wire, ws, load, sync, faults>>
      /\ Flushed(client, view, client.pending, <<>>)
  BY DEF Flush
<1>2. Typed /\ Bounded /\ GenKnown /\ Ordered /\ NoJump
  BY DEF IInv
<1>3. PICK none : none = <<>>
  OBVIOUS
<1>4. none \in Seq(Rows)
  BY <1>3
<1>5. /\ client' \in ClientType /\ client'.pending = none
      /\ UNCHANGED <<client.gen, client.base, client.staging, client.staged, client.timer, client.refresh>>
      /\ client.last <= client'.last /\ client'.last \in Nat /\ client'.last <= journal.high
      /\ \A i \in DOMAIN client.pending : client.pending[i] <= client'.last
      /\ view' \in ViewType /\ ReplayWhole'
  BY <1>1, <1>3, <1>4, Applies
<1>6. client.last \in Nat /\ journal.floor \in Nat /\ client.staged \in Seq(Rows)
  BY <1>2, TypedGives, Constants
<1>7. Follows(client'.pending, client'.last) /\ Follows(client'.staged, client'.last)
  <2>1. Follows(client.staged, client.last)
    BY <1>2 DEF NoJump
  <2>2. Follows(client.staged, client'.last)
    BY <1>5, <1>6, <2>1, FollowsLater
  <2>3. QED BY <1>3, <1>5, <2>2, FollowsEmpty
<1>8. client'.gen <= journal.gen /\ (client'.gen = journal.gen => journal.floor <= client'.last)
  BY <1>2, <1>5, <1>6 DEF GenKnown
<1>9. /\ \A i \in DOMAIN client'.pending : client'.pending[i] <= journal.high
      /\ \A i \in DOMAIN client'.staged : client'.staged[i] <= journal.high
  BY <1>2, <1>3, <1>5 DEF Bounded
<1>10. \A b \in Had : \E x \in Had' : b <= x
  <2>1. TAKE b \in Had
  <2>2. client'.last \in Had'
    BY DEF Had
  <2>3. CASE b = client.last
    BY <1>5, <2>2, <2>3
  <2>4. CASE \E i \in DOMAIN client.pending : b = client.pending[i]
    BY <1>5, <2>2, <2>4
  <2>5. CASE client.staging /\ \E i \in DOMAIN client.staged : b = client.staged[i]
    <3>1. b \in Had' /\ b \in Nat
      <4>1. client'.staging /\ client'.staged = client.staged
        BY <1>5, <2>5
      <4>2. b \in Had'
        BY <2>5, <4>1 DEF Had, Buffer
      <4>3. b \in Nat
        BY <1>2, HadType, Constants
      <4>4. QED BY <4>2, <4>3
    <3>2. QED BY <3>1
  <2>6. QED BY <2>1, <2>3, <2>4, <2>5 DEF Had, Buffer
<1>11. wire \in Seq(Frame) /\ Len(wire) \in Nat /\ DOMAIN wire = 1..Len(wire)
  BY <1>2, TypedGives
<1>12. PICK k \in 0..1 : k = 0
  OBVIOUS
<1>13. /\ wire' \in Seq(Frame) /\ k <= Len(wire) /\ Len(wire') = Len(wire) - k
       /\ \A i \in DOMAIN wire' : wire'[i] = wire[i + k]
  <2>1. \A i \in 1..Len(wire) : i + k = i
    BY <1>12
  <2>2. QED BY <1>1, <1>11, <1>12, <2>1
<1>14. ~client'.staging => client'.staged = <<>>
  BY <1>2, <1>5 DEF Ordered
<1>15. (k = 1 => ws = "open") /\ (k = 0 => client'.staging = client.staging)
       /\ (k = 1 => \E x \in Had' : wire[1].seq <= x)
  BY <1>5, <1>12
<1>16. UNCHANGED <<client.base, client.timer, client.refresh>> /\ UNCHANGED <<journal, stream, ws, load, sync, faults>>
  BY <1>1, <1>5
<1>17. client' \in ClientType /\ view' \in ViewType /\ client.last <= client'.last /\ client'.last <= journal.high
       /\ ReplayWhole'
  BY <1>5
<1>18. QED BY <1>7, <1>8, <1>9, <1>10, <1>13, <1>14, <1>15, <1>16, <1>17, ClientMoves

-----------------------------------------------------------------------------
(* A frame arrives.                                                          *)

LEMMA HeadGone ==
  ASSUME Typed, wire # <<>>, wire' = Tail(wire)
  PROVE  /\ wire' \in Seq(Frame) /\ 1 <= Len(wire) /\ Len(wire') = Len(wire) - 1
         /\ \A i \in DOMAIN wire' : wire'[i] = wire[i + 1]
         /\ Head(wire) = wire[1] /\ 1 \in DOMAIN wire /\ wire[1] \in Frame
<1>1. wire \in Seq(Frame) /\ Len(wire) \in Nat /\ DOMAIN wire = 1..Len(wire)
  BY TypedGives
<1>2. Len(wire) # 0
  BY <1>1
<1>3. 1 <= Len(wire) /\ 1 \in DOMAIN wire /\ Head(wire) = wire[1] /\ wire[1] \in Frame
  BY <1>1, <1>2
<1>4. wire' \in Seq(Frame) /\ Len(wire') = Len(wire) - 1 /\ \A i \in DOMAIN wire' : wire'[i] = wire[i + 1]
  BY <1>1, <1>3
<1>5. QED BY <1>3, <1>4

\* ClientMoves, when a frame is taken and the replay cursor stays.
LEMMA Takes ==
  ASSUME IInv, UNCHANGED <<journal, stream, ws, load, sync, faults>>,
         ws = "open", wire # <<>>, wire' = Tail(wire),
         client' \in ClientType, view' \in ViewType, view.rows \subseteq view'.rows,
         ~client'.staging => client'.staged = <<>>,
         UNCHANGED <<client.base, client.last, client.timer, client.refresh>>,
         client'.gen <= journal.gen, client'.gen = journal.gen => journal.floor <= client.last,
         \A i \in DOMAIN client'.pending : client'.pending[i] <= journal.high,
         \A i \in DOMAIN client'.staged : client'.staged[i] <= journal.high,
         Follows(client'.pending, client.last), Follows(client'.staged, client.last),
         Had \subseteq Had', wire[1].seq <= client.last \/ wire[1].seq \in Had'
  PROVE  IInv'
<1>1. /\ wire' \in Seq(Frame) /\ 1 <= Len(wire) /\ Len(wire') = Len(wire) - 1
      /\ \A i \in DOMAIN wire' : wire'[i] = wire[i + 1] /\ wire[1] \in Frame
  BY HeadGone DEF IInv
<1>2. client.last \in Nat /\ client.last <= journal.high
  BY TypedGives, Constants DEF IInv, Bounded
<1>3. \A b \in Had : \E x \in Had' : b <= x
  <2>1. \A b \in Had : b \in Had' /\ b \in Nat
    BY HadType, Constants DEF IInv
  <2>2. \A b \in Had : b <= b
    BY <2>1
  <2>3. QED BY <2>1, <2>2
<1>4. \E x \in Had' : wire[1].seq <= x
  <2>1. client.last \in Had'
    BY DEF Had
  <2>2. wire[1].seq \in Nat
    <3>1. 1 \in DOMAIN wire
      BY HeadGone DEF IInv
    <3>2. QED BY <3>1, TypedGives, Constants DEF IInv
  <2>3. wire[1].seq <= wire[1].seq
    BY <2>2
  <2>4. QED BY <2>1, <2>3
<1>5. ReplayWhole'
  BY DEF IInv, ReplayWhole
<1>6. PICK k \in 0..1 : k = 1
  OBVIOUS
<1>7. /\ k <= Len(wire) /\ Len(wire') = Len(wire) - k /\ \A i \in DOMAIN wire' : wire'[i] = wire[i + k]
      /\ (k = 1 => ws = "open") /\ (k = 0 => client'.staging = client.staging)
      /\ (k = 1 => \E x \in Had' : wire[1].seq <= x)
  <2>1. \A i \in DOMAIN wire' : wire'[i] = wire[i + 1]
    BY <1>1
  <2>2. QED BY <1>1, <1>4, <1>6, <2>1
<1>8. /\ client.last <= client'.last /\ client'.last <= journal.high
      /\ (client'.gen = journal.gen => journal.floor <= client'.last)
      /\ Follows(client'.pending, client'.last) /\ Follows(client'.staged, client'.last)
  BY <1>2
<1>9. QED BY <1>1, <1>3, <1>5, <1>7, <1>8, ClientMoves

\* ingest() of a reset, an unusable start or an unusable tail
LEMMA RequireBaselineKeeps ==
  ASSUME IInv, RequireBaseline, UNCHANGED <<journal, load, sync, faults>>, ws = "open"
  PROVE  IInv'
<1>1. Typed /\ Bounded /\ GenKnown /\ Ordered /\ ReplayWhole
  BY DEF IInv
<1>2. client \in ClientType /\ view \in ViewType /\ load \in [Slots -> LoadType] /\ sync \in SyncType
      /\ faults \in 0..MaxFaults
  BY <1>1 DEF Typed
<1>3. PICK r : r = [NoRefresh EXCEPT !.st = "asked"]
  OBVIOUS
<1>4. r \in RefreshType /\ r.st = "asked" /\ r.gen = 0 /\ r.high = 0
  <2>1. 0 \in 0..MaxGen /\ 0 \in Seqs
    BY Constants
  <2>2. QED BY <1>3, <2>1 DEF NoRefresh, RefreshType
<1>d. PICK none : none = <<>>
  OBVIOUS
<1>5. none \in Seq(Rows) /\ none = <<>>
  BY <1>d
<1>6. client' = [client EXCEPT !.staging = FALSE, !.staged = none, !.pending = none, !.refresh = r]
  BY <1>3, <1>5 DEF RequireBaseline
<1>7. /\ client' \in ClientType /\ ~client'.staging /\ client'.staged = none /\ client'.pending = none
      /\ client'.refresh = r /\ UNCHANGED <<client.gen, client.base, client.last, client.timer>>
  BY <1>2, <1>4, <1>5, <1>6 DEF ClientType
<1>8. ~client.timer
  BY <1>1 DEF Ordered
<1>9. ws' = "closing" /\ wire' = <<>> /\ stream' = NoStream /\ view' = view
  BY DEF RequireBaseline
<1>10. journal.gen \in Nat /\ journal.gen # 0 /\ journal.high \in Nat
  <2>1. journal.gen \in 1..MaxGen /\ MaxGen \in Nat
    BY <1>1, TypedGives, Constants DEF Gens
  <2>2. QED BY <1>1, <2>1, Numbers
<1>11. /\ client'.refresh.high <= journal.high /\ client'.refresh.gen <= journal.gen
       /\ client'.refresh.gen # journal.gen
  BY <1>4, <1>7, <1>10
<1>12. /\ client'.base <= client'.last /\ client'.last <= journal.high /\ client'.gen <= journal.gen
       /\ (client'.gen = journal.gen => journal.floor <= client'.last) /\ ReplayWhole'
  BY <1>1, <1>7, <1>9 DEF Bounded, GenKnown, ReplayWhole
<1>13. QED BY <1>2, <1>5, <1>7, <1>8, <1>9, <1>11, <1>12, NoStreamTyped, Cut

LEMMA ReceiveGives ==
  ASSUME IInv, ws = "open", wire # <<>>
  PROVE  /\ client \in ClientType /\ view \in ViewType /\ 1 \in DOMAIN wire /\ Head(wire) = wire[1]
         /\ wire[1] \in Frame /\ wire[1].seq \in Seqs /\ wire[1].gen \in 0..MaxGen
         /\ (IF wire[1].t = "row" THEN wire[1].seq \in Rows ELSE wire[1].seq = 0)
         /\ wire[1].t # "start" => ~StartDue
         /\ wire[1].t = "start" => ~client.staging /\ StartDue
         /\ wire[1].seq <= journal.high
         /\ \E b \in Had : wire[1].seq <= b + 1
<1> USE DEF IInv
<1>1. wire \in Seq(Frame) /\ Len(wire) \in Nat /\ DOMAIN wire = 1..Len(wire)
  BY TypedGives
<1>2. Len(wire) # 0
  BY <1>1
<1>3. 1 \in DOMAIN wire /\ Head(wire) = wire[1] /\ wire[1] \in Frame
  BY <1>1, <1>2
<1>4. /\ wire[1].seq \in Seqs /\ wire[1].gen \in 0..MaxGen
      /\ IF wire[1].t = "row" THEN wire[1].seq \in Rows ELSE wire[1].seq = 0
  BY <1>3, FrameGives
<1>5. wire[1].t # "start" => ~StartDue
  BY DEF StartDue, Ordered
<1>6. wire[1].t = "start" => ~client.staging /\ StartDue
  BY <1>3 DEF StartDue, Ordered
<1>7. wire[1].seq <= journal.high
  BY <1>3 DEF Bounded
<1>8. \E b \in Had : wire[1].seq <= b + 1
  <2>1. Lead(wire, 1 - 1) = {}
    BY DEF Lead
  <2>2. QED BY <1>3, <2>1 DEF NoJump
<1>9. client \in ClientType /\ view \in ViewType
  BY DEF Typed
<1>10. QED BY <1>3, <1>4, <1>5, <1>6, <1>7, <1>8, <1>9

LEMMA ReceiveStartKeeps ==
  ASSUME IInv, ws = "open", wire # <<>>, ReceiveStart(wire[1]), UNCHANGED <<journal, load, sync, faults>>
  PROVE  IInv'
<1> DEFINE g == wire[1].gen
<1>1. wire[1].t = "start"
  BY DEF ReceiveStart
<1>2. CASE g # client.gen /\ client.last < wire[1].floor
  <2>1. RequireBaseline
    BY <1>2 DEF ReceiveStart
  <2>2. QED BY <2>1, RequireBaselineKeeps
<1>3. CASE ~(g # client.gen /\ client.last < wire[1].floor)
  <2>1. /\ client' = [client EXCEPT !.gen = g, !.staging = TRUE, !.staged = <<>>]
        /\ wire' = Tail(wire) /\ UNCHANGED <<ws, stream, view>>
    BY <1>3 DEF ReceiveStart, Keep
  <2>2. Typed /\ Bounded /\ GenKnown /\ Ordered /\ NoJump
    BY DEF IInv
  <2>3. /\ client \in ClientType /\ view \in ViewType /\ g \in 0..MaxGen /\ 1 \in DOMAIN wire
        /\ wire[1].seq = 0 /\ ~client.staging /\ StartDue
    BY <1>1, ReceiveGives
  <2>4. PICK none : none = <<>>
    OBVIOUS
  <2>5. none \in Seq(Rows)
    BY <2>4
  <2>6. client' = [client EXCEPT !.gen = g, !.staging = TRUE, !.staged = none]
    BY <2>1, <2>4
  <2>7. /\ client' \in ClientType /\ client'.gen = g /\ client'.staging /\ client'.staged = none
        /\ UNCHANGED <<client.base, client.last, client.pending, client.timer, client.refresh>>
    BY <2>3, <2>5, <2>6 DEF ClientType
  <2>8. g <= journal.gen /\ (g = journal.gen => wire[1].floor = journal.floor)
    BY <1>1, <2>2, <2>3 DEF GenKnown
  <2>9. client.last \in Nat /\ journal.floor \in Nat
    BY <2>2, TypedGives, Constants
  <2>10. client'.gen <= journal.gen /\ (client'.gen = journal.gen => journal.floor <= client.last)
    BY <1>3, <2>2, <2>7, <2>8, <2>9 DEF GenKnown
  <2>11. /\ \A i \in DOMAIN client'.pending : client'.pending[i] <= journal.high
         /\ \A i \in DOMAIN client'.staged : client'.staged[i] <= journal.high
         /\ Follows(client'.pending, client.last) /\ Follows(client'.staged, client.last)
    BY <2>2, <2>4, <2>7, FollowsEmpty DEF Bounded, NoJump
  <2>12. Had \subseteq Had'
    <3>1. Had = {client.last}
      BY <2>3 DEF Had, Buffer
    <3>2. client'.last \in Had'
      BY DEF Had
    <3>3. QED BY <2>7, <3>1, <3>2
  <2>13. wire[1].seq <= client.last
    BY <2>3, <2>9
  <2>14. QED BY <2>1, <2>7, <2>10, <2>11, <2>12, <2>13, Takes, <2>3
<1>4. QED BY <1>2, <1>3

LEMMA ReceiveStagedKeeps ==
  ASSUME IInv, ws = "open", wire # <<>>, ReceiveStaged(wire[1]), UNCHANGED <<journal, load, sync, faults>>
  PROVE  IInv'
<1> DEFINE f == wire[1]
<1>1. client.staging
  BY DEF ReceiveStaged
<1>2. Typed /\ Bounded /\ GenKnown /\ Ordered /\ NoJump
  BY DEF IInv
<1>3. /\ client \in ClientType /\ view \in ViewType /\ f.seq \in Seqs /\ f.seq <= journal.high
      /\ (IF f.t = "row" THEN f.seq \in Rows ELSE f.seq = 0)
      /\ f.t # "start" => ~StartDue
      /\ \E b \in Had : f.seq <= b + 1
  BY ReceiveGives
<1>4. /\ client.last \in Nat /\ journal.floor \in Nat /\ client.staged \in Seq(Rows) /\ client.pending \in Seq(Rows)
  BY <1>2, TypedGives, Constants
<1>5. Had = {client.last} \union {client.staged[i] : i \in DOMAIN client.staged}
  BY <1>1 DEF Had, Buffer
<1>6. Follows(client.pending, client.last) /\ Follows(client.staged, client.last)
  BY <1>2 DEF NoJump
<1>7. CASE f.t = "row" /\ Keep([client EXCEPT !.staged = Append(client.staged, f.seq)])
  <2>1. PICK q : q = Append(client.staged, f.seq)
    OBVIOUS
  <2>2. /\ q \in Seq(Rows) /\ Follows(q, client.last) /\ DOMAIN q = 1..(Len(client.staged) + 1)
        /\ q[Len(client.staged) + 1] = f.seq
        /\ \A i \in DOMAIN client.staged : i \in DOMAIN q /\ q[i] = client.staged[i]
    <3>1. PICK b \in Had : f.seq <= b + 1
      BY <1>3
    <3>2. b = client.last \/ \E i \in DOMAIN client.staged : b = client.staged[i]
      BY <1>5
    <3>3. f.seq \in Rows
      BY <1>3, <1>7
    <3> HIDE DEF f
    <3>4. Extends(q, client.staged, f.seq)
      BY <2>1 DEF Extends
    <3>5. QED BY <1>4, <1>6, <3>1, <3>2, <3>3, <3>4, FollowsAppend
  <2>3. client' = [client EXCEPT !.staged = q] /\ wire' = Tail(wire) /\ UNCHANGED <<ws, stream, view>>
    BY <1>7, <2>1 DEF Keep
  <2>4. /\ client' \in ClientType /\ client'.staged = q /\ client'.staging
        /\ UNCHANGED <<client.gen, client.base, client.last, client.pending, client.timer, client.refresh>>
    BY <1>1, <1>3, <2>2, <2>3 DEF ClientType
  <2>5. /\ client'.gen <= journal.gen /\ (client'.gen = journal.gen => journal.floor <= client.last)
        /\ \A i \in DOMAIN client'.pending : client'.pending[i] <= journal.high
    BY <1>2, <2>4 DEF GenKnown, Bounded
  <2>6. \A i \in DOMAIN q : (i \in DOMAIN client.staged /\ q[i] = client.staged[i]) \/ q[i] = f.seq
    <3>1. Len(client.staged) \in Nat /\ DOMAIN client.staged = 1..Len(client.staged)
      BY <1>4
    <3>2. \A i \in 1..(Len(client.staged) + 1) : i \in 1..Len(client.staged) \/ i = Len(client.staged) + 1
      BY <3>1
    <3>3. QED BY <2>2, <3>1, <3>2
  <2>7. \A i \in DOMAIN client'.staged : client'.staged[i] <= journal.high
    BY <1>2, <1>3, <2>4, <2>6 DEF Bounded
  <2>8. Had' = {client.last} \union {q[i] : i \in DOMAIN q}
    <3>1. Buffer' = q /\ client'.last = client.last
      BY <2>4 DEF Buffer
    <3>2. QED BY <3>1 DEF Had
  <2>9. Had \subseteq Had'
    BY <1>5, <2>2, <2>8
  <2>10. f.seq \in Had'
    <3>1. Len(client.staged) + 1 \in DOMAIN q
      <4>1. Len(client.staged) \in Nat
        BY <1>4
      <4>2. QED BY <2>2, <4>1
    <3>2. QED BY <2>2, <2>8, <3>1
  <2>11. Follows(client'.pending, client.last) /\ Follows(client'.staged, client.last)
    BY <1>6, <2>2, <2>4
  <2>12. QED BY <1>3, <2>3, <2>4, <2>5, <2>7, <2>9, <2>10, <2>11, Takes
<1>8. CASE RequireBaseline
  BY <1>8, RequireBaselineKeeps
<1>9. CASE f.t = "done" /\ Keep([client EXCEPT !.staging = FALSE, !.staged = <<>>,
                                               !.pending = client.pending \o client.staged])
  <2>1. PICK q, none : q = client.pending \o client.staged /\ none = <<>>
    OBVIOUS
  <2>2. /\ q \in Seq(Rows) /\ Follows(q, client.last)
        /\ \A i \in DOMAIN q : (\E k \in DOMAIN client.pending : q[i] = client.pending[k])
                               \/ \E k \in DOMAIN client.staged : q[i] = client.staged[k]
        /\ \A k \in DOMAIN client.staged : \E i \in DOMAIN q : q[i] = client.staged[k]
    <3>1. Joins(q, client.pending, client.staged)
      BY <2>1 DEF Joins
    <3>2. QED BY <1>4, <1>6, <3>1, FollowsConcat
  <2>3. none \in Seq(Rows) /\ none = <<>>
    BY <2>1
  <2>4. /\ client' = [client EXCEPT !.staging = FALSE, !.staged = none, !.pending = q]
        /\ wire' = Tail(wire) /\ UNCHANGED <<ws, stream, view>>
    BY <1>9, <2>1 DEF Keep
  <2>5. /\ client' \in ClientType /\ client'.staged = none /\ ~client'.staging /\ client'.pending = q
        /\ UNCHANGED <<client.gen, client.base, client.last, client.timer, client.refresh>>
    BY <1>3, <2>2, <2>3, <2>4 DEF ClientType
  <2>6. client'.gen <= journal.gen /\ (client'.gen = journal.gen => journal.floor <= client.last)
    BY <1>2, <2>5 DEF GenKnown
  <2>7. \A i \in DOMAIN client'.pending : client'.pending[i] <= journal.high
    BY <1>2, <2>2, <2>5 DEF Bounded
  <2>8. \A i \in DOMAIN client'.staged : client'.staged[i] <= journal.high
    BY <2>3, <2>5
  <2>9. ~StartDue'
    <3>1. ~StartDue
      BY <1>3, <1>9
    <3>2. \A i \in DOMAIN wire' : wire'[i] = wire[i + 1] /\ i + 1 \in DOMAIN wire
      <4>1. \A i \in DOMAIN wire' : wire'[i] = wire[i + 1]
        BY <1>2, <2>4, HeadGone
      <4>2. wire' \in Seq(Frame) /\ Len(wire') = Len(wire) - 1
        BY <1>2, <2>4, HeadGone
      <4>3. Len(wire) \in Nat /\ DOMAIN wire = 1..Len(wire)
        BY <1>2, TypedGives
      <4>4. DOMAIN wire' = 1..Len(wire')
        BY <4>2
      <4>5. \A i \in 1..(Len(wire) - 1) : i + 1 \in 1..Len(wire)
        BY <4>3
      <4>6. QED BY <4>1, <4>2, <4>3, <4>4, <4>5
    <3>3. QED BY <2>4, <3>1, <3>2 DEF StartDue
  <2>10. Had' = {client.last} \union {q[i] : i \in DOMAIN q}
    <3>1. Buffer' = q /\ client'.last = client.last
      BY <2>5, <2>9 DEF Buffer
    <3>2. QED BY <3>1 DEF Had
  <2>11. Had \subseteq Had'
    BY <1>5, <2>2, <2>10
  <2>12. f.seq <= client.last
    BY <1>3, <1>4, <1>9
  <2>13. Follows(client'.pending, client.last) /\ Follows(client'.staged, client.last)
    BY <2>2, <2>3, <2>5, FollowsEmpty
  <2>14. QED BY <1>3, <2>3, <2>4, <2>5, <2>6, <2>7, <2>8, <2>11, <2>12, <2>13, Takes
<1>10. QED BY <1>7, <1>8, <1>9 DEF ReceiveStaged

LEMMA ReceiveLiveKeeps ==
  ASSUME IInv, ws = "open", wire # <<>>, ReceiveLive(wire[1]), UNCHANGED <<journal, load, sync, faults>>
  PROVE  IInv'
<1> DEFINE f == wire[1]
<1>1. ~client.staging /\ f.t = "row" /\ wire' = Tail(wire) /\ UNCHANGED <<ws, stream>>
  BY DEF ReceiveLive
<1>2. Typed /\ Bounded /\ GenKnown /\ Ordered /\ NoJump
  BY DEF IInv
<1>3. /\ client \in ClientType /\ view \in ViewType /\ f.seq \in Rows /\ f.seq <= journal.high
      /\ ~StartDue /\ \E b \in Had : f.seq <= b + 1
  BY <1>1, ReceiveGives
<1>4. /\ client.last \in Nat /\ journal.floor \in Nat /\ client.pending \in Seq(Rows) /\ journal.high \in Nat
      /\ client.staged = <<>>
  BY <1>1, <1>2, TypedGives, Constants DEF Ordered
<1>5. Had = {client.last} \union {client.pending[i] : i \in DOMAIN client.pending}
  BY <1>1, <1>3 DEF Had, Buffer
<1>6. Follows(client.pending, client.last)
  BY <1>2 DEF NoJump
<1>7. ~StartDue'
  <2>1. \A i \in DOMAIN wire' : wire'[i] = wire[i + 1] /\ i + 1 \in DOMAIN wire
    <3>1. \A i \in DOMAIN wire' : wire'[i] = wire[i + 1]
      BY <1>1, <1>2, HeadGone
    <3>2. wire' \in Seq(Frame) /\ Len(wire') = Len(wire) - 1
      BY <1>1, <1>2, HeadGone
    <3>3. Len(wire) \in Nat /\ DOMAIN wire = 1..Len(wire)
      BY <1>2, TypedGives
    <3>4. DOMAIN wire' = 1..Len(wire')
      BY <3>2
    <3>5. \A i \in 1..(Len(wire) - 1) : i + 1 \in 1..Len(wire)
      BY <3>3
    <3>6. QED BY <3>1, <3>2, <3>3, <3>4, <3>5
  <2>2. QED BY <1>1, <1>3, <2>1 DEF StartDue
<1>8. PICK b \in Had : f.seq <= b + 1
  BY <1>3
<1>9. CASE client' = [client EXCEPT !.pending = Append(client.pending, f.seq)] /\ view' = view
  <2>1. PICK q : q = Append(client.pending, f.seq)
    OBVIOUS
  <2>2. /\ q \in Seq(Rows) /\ Follows(q, client.last) /\ DOMAIN q = 1..(Len(client.pending) + 1)
        /\ q[Len(client.pending) + 1] = f.seq
        /\ \A i \in DOMAIN client.pending : i \in DOMAIN q /\ q[i] = client.pending[i]
    <3>1. b = client.last \/ \E i \in DOMAIN client.pending : b = client.pending[i]
      BY <1>5
    <3>2. f.seq \in Rows /\ f.seq <= b + 1
      BY <1>3, <1>8
    <3>3. Extends(q, client.pending, f.seq)
      BY <2>1 DEF Extends
    <3> HIDE DEF f
    <3>4. QED BY <1>4, <1>6, <3>1, <3>2, <3>3, FollowsAppend
  <2>3. client' = [client EXCEPT !.pending = q]
    BY <1>9, <2>1
  <2>4. /\ client' \in ClientType /\ client'.pending = q
        /\ UNCHANGED <<client.gen, client.base, client.last, client.staging, client.staged,
                       client.timer, client.refresh>>
    BY <1>3, <2>2, <2>3 DEF ClientType
  <2>5. client'.gen <= journal.gen /\ (client'.gen = journal.gen => journal.floor <= client.last)
    BY <1>2, <2>4 DEF GenKnown
  <2>6. \A i \in DOMAIN q : (i \in DOMAIN client.pending /\ q[i] = client.pending[i]) \/ q[i] = f.seq
    <3>1. Len(client.pending) \in Nat /\ DOMAIN client.pending = 1..Len(client.pending)
      BY <1>4
    <3>2. \A i \in 1..(Len(client.pending) + 1) : i \in 1..Len(client.pending) \/ i = Len(client.pending) + 1
      BY <3>1
    <3>3. QED BY <2>2, <3>1, <3>2
  <2>7. /\ \A i \in DOMAIN client'.pending : client'.pending[i] <= journal.high
        /\ \A i \in DOMAIN client'.staged : client'.staged[i] <= journal.high
    BY <1>2, <1>3, <2>4, <2>6 DEF Bounded
  <2>8. Had' = {client.last} \union {q[i] : i \in DOMAIN q}
    <3>1. Buffer' = q /\ client'.last = client.last
      BY <1>1, <1>7, <2>4 DEF Buffer
    <3>2. QED BY <3>1 DEF Had
  <2>9. Had \subseteq Had'
    BY <1>5, <2>2, <2>8
  <2>10. f.seq \in Had'
    <3>1. Len(client.pending) + 1 \in DOMAIN q
      <4>1. Len(client.pending) \in Nat
        BY <1>4
      <4>2. QED BY <2>2, <4>1
    <3>2. QED BY <2>2, <2>8, <3>1
  <2>11. Follows(client'.pending, client.last) /\ Follows(client'.staged, client.last)
    BY <1>4, <2>2, <2>4, FollowsEmpty
  <2>12. ~client'.staging => client'.staged = <<>>
    BY <1>4, <2>4
  <2>13. view' \in ViewType /\ view.rows \subseteq view'.rows
    BY <1>3, <1>9
  <2>14. QED BY <1>1, <2>4, <2>5, <2>7, <2>9, <2>10, <2>11, <2>12, <2>13, Takes
<1>10. CASE Flushed(client, view, client.pending, <<f.seq>>)
  <2>1. PICK q : q = <<f.seq>>
    OBVIOUS
  <2>2. q \in Seq(Rows) /\ DOMAIN q = {1} /\ q[1] = f.seq
    BY <1>3, <2>1
  <2>3. /\ client' \in ClientType /\ client'.pending = q
        /\ UNCHANGED <<client.gen, client.base, client.staging, client.staged, client.timer, client.refresh>>
        /\ client.last <= client'.last /\ client'.last \in Nat /\ client'.last <= journal.high
        /\ \A i \in DOMAIN client.pending : client.pending[i] <= client'.last
        /\ view' \in ViewType /\ ReplayWhole'
    BY <1>10, <2>1, <2>2, Applies
  <2>4. \A x \in Had : x <= client'.last /\ x \in Nat
    <3>1. \A x \in Had : x \in Nat
      BY <1>2, HadType, Constants
    <3>2. QED BY <1>5, <2>3, <3>1
  <2>5. f.seq \in Nat /\ f.seq <= client'.last + 1
    <3>1. f.seq \in Nat
      BY <1>3, Constants
    <3> HIDE DEF f
    <3>2. b \in Nat /\ b <= client'.last /\ f.seq <= b + 1
      BY <1>8, <2>4
    <3>3. QED BY <2>3, <3>1, <3>2
  <2>6. Follows(client'.pending, client'.last)
    BY <2>2, <2>3, <2>5 DEF Follows
  <2>7. Follows(client'.staged, client'.last)
    BY <1>4, <2>3, FollowsEmpty
  <2>8. Had' = {client'.last, f.seq}
    <3>1. Buffer' = q
      BY <1>1, <1>7, <2>3 DEF Buffer
    <3>2. QED BY <2>2, <3>1 DEF Had
  <2>9. \A x \in Had : \E y \in Had' : x <= y
    BY <2>4, <2>8
  <2>10. \E y \in Had' : f.seq <= y
    BY <2>5, <2>8
  <2>11. client'.gen <= journal.gen /\ (client'.gen = journal.gen => journal.floor <= client'.last)
    BY <1>2, <1>4, <2>3 DEF GenKnown
  <2>12. /\ \A i \in DOMAIN client'.pending : client'.pending[i] <= journal.high
         /\ \A i \in DOMAIN client'.staged : client'.staged[i] <= journal.high
    BY <1>3, <1>4, <2>2, <2>3
  <2>13. PICK k \in 0..1 : k = 1
    OBVIOUS
  <2>14. /\ wire' \in Seq(Frame) /\ k <= Len(wire) /\ Len(wire') = Len(wire) - k
         /\ \A i \in DOMAIN wire' : wire'[i] = wire[i + k]
    <3>1. /\ wire' \in Seq(Frame) /\ 1 <= Len(wire) /\ Len(wire') = Len(wire) - 1
          /\ \A i \in DOMAIN wire' : wire'[i] = wire[i + 1]
      BY <1>1, <1>2, HeadGone
    <3>2. QED BY <2>13, <3>1
  <2>15. /\ (k = 1 => ws = "open") /\ (k = 0 => client'.staging = client.staging)
         /\ (k = 1 => \E x \in Had' : wire[1].seq <= x)
         /\ (~client'.staging => client'.staged = <<>>)
    BY <1>4, <2>3, <2>10, <2>13
  <2>16. UNCHANGED <<client.base, client.timer, client.refresh>>
         /\ UNCHANGED <<journal, stream, ws, load, sync, faults>>
         /\ client' \in ClientType /\ view' \in ViewType /\ client.last <= client'.last
         /\ client'.last <= journal.high /\ ReplayWhole'
    BY <1>1, <2>3
  <2>17. QED BY <2>6, <2>7, <2>9, <2>11, <2>12, <2>14, <2>15, <2>16, ClientMoves
<1>11. QED BY <1>9, <1>10 DEF ReceiveLive

LEMMA ReceiveKeeps ==
  ASSUME IInv, Receive
  PROVE  IInv'
<1>1. ws = "open" /\ wire # <<>> /\ UNCHANGED <<journal, load, sync, faults>>
  BY DEF Receive
<1>2. Head(wire) = wire[1]
  BY <1>1, ReceiveGives
<1>3. \/ ReceiveStart(wire[1]) \/ ReceiveStaged(wire[1]) \/ ReceiveLive(wire[1]) \/ RequireBaseline
  BY <1>2 DEF Receive
<1>4. QED BY <1>1, <1>3, ReceiveStartKeeps, ReceiveStagedKeeps, ReceiveLiveKeeps, RequireBaselineKeeps

-----------------------------------------------------------------------------
(* Sockets that close and reopen, and the baseline.                          *)

\* What Cut asks for, of a client that keeps its cursor.
LEMMA CutKeeping ==
  ASSUME IInv, UNCHANGED <<journal, view, load, sync>>, faults' \in 0..MaxFaults,
         wire' = <<>>, stream' \in StreamType, client' \in ClientType,
         ws' \in {"none", "open", "closing"}, ~client'.staging, client'.staged = <<>>,
         UNCHANGED <<client.base, client.last, client.pending>>,
         client'.gen = client.gen \/ client'.gen = 0,
         \/ stream' = NoStream /\ ws' # "open"
         \/ /\ ws' = "open" /\ stream'.st = "asked" /\ stream'.gen = client'.gen
            /\ stream'.cursor = client'.last /\ stream'.check = NoCheck
            /\ ~client'.timer /\ client'.refresh.st = "no",
         ~(client'.timer /\ client'.refresh.st # "no"),
         \/ client'.refresh = client.refresh
         \/ client'.refresh.gen = 0 /\ client'.refresh.high = 0
         \/ client'.refresh.gen = journal.gen /\ client'.refresh.high = journal.high
  PROVE  IInv'
<1>1. Typed /\ Bounded /\ GenKnown /\ ReplayWhole
  BY DEF IInv
<1>2. view' \in ViewType /\ load' \in [Slots -> LoadType] /\ sync' \in SyncType
  BY <1>1 DEF Typed
<1>3. /\ journal.gen \in Nat /\ journal.gen # 0 /\ journal.high \in Nat /\ journal.floor \in Nat
      /\ journal.floor <= journal.high
  <2>1. journal.gen \in 1..MaxGen /\ MaxGen \in Nat
    BY <1>1, TypedGives, Constants DEF Gens
  <2>2. journal.gen \in Nat /\ journal.gen # 0
    BY <2>1
  <2>3. QED BY <1>1, <2>2, Numbers DEF Bounded
<1>4. /\ client'.refresh.high <= journal.high /\ client'.refresh.gen <= journal.gen
      /\ (client'.refresh.gen = journal.gen => journal.floor <= client'.refresh.high)
  <2>1. CASE client'.refresh = client.refresh
    BY <1>1, <2>1 DEF Bounded, GenKnown
  <2>2. CASE client'.refresh.gen = 0 /\ client'.refresh.high = 0
    BY <1>3, <2>2
  <2>3. CASE client'.refresh.gen = journal.gen /\ client'.refresh.high = journal.high
    BY <1>3, <2>3
  <2>4. QED BY <2>1, <2>2, <2>3
<1>5. /\ client'.base <= client'.last /\ client'.last <= journal.high /\ client'.gen <= journal.gen
      /\ (client'.gen = journal.gen => journal.floor <= client'.last)
  BY <1>1, <1>3 DEF Bounded, GenKnown
<1>6. ReplayWhole'
  BY <1>1 DEF ReplayWhole
<1>7. QED BY <1>2, <1>4, <1>5, <1>6, Cut

LEMMA SocketClosedKeeps ==
  ASSUME IInv, SocketClosed, ws # "none", UNCHANGED <<journal, load, sync>>, faults' \in 0..MaxFaults
  PROVE  IInv'
<1>1. Typed /\ Ordered
  BY DEF IInv
<1>2. client \in ClientType
  BY <1>1 DEF Typed
<1>3. PICK none : none = <<>>
  OBVIOUS
<1>4. none \in Seq(Rows)
  BY <1>3
<1>5. PICK c : c = [client EXCEPT !.staging = FALSE, !.staged = none]
  OBVIOUS
<1>6. /\ c \in ClientType /\ ~c.staging /\ c.staged = none /\ c.base = client.base /\ c.last = client.last
      /\ c.pending = client.pending /\ c.gen = client.gen /\ c.refresh = client.refresh /\ c.timer = client.timer
  BY <1>2, <1>4, <1>5 DEF ClientType
<1>7. client' = WithTimer(c)
  BY <1>3, <1>5 DEF SocketClosed
<1>8. ~(client.timer /\ client.refresh.st # "no")
  BY <1>1 DEF Ordered
<1>9. /\ client' \in ClientType /\ ~client'.staging /\ client'.staged = none
      /\ client'.base = client.base /\ client'.last = client.last /\ client'.pending = client.pending
      /\ client'.gen = client.gen /\ client'.refresh = client.refresh
      /\ ~(client'.timer /\ client'.refresh.st # "no")
  <2>1. CASE c.refresh.st # "no"
    BY <1>6, <1>7, <1>8, <2>1 DEF WithTimer
  <2>2. CASE c.refresh.st = "no"
    <3>1. client' = [c EXCEPT !.timer = TRUE]
      BY <1>7, <2>2 DEF WithTimer
    <3>2. QED BY <1>6, <2>2, <3>1 DEF ClientType
  <2>3. QED BY <2>1, <2>2
<1>10. ws' = "none" /\ wire' = <<>> /\ stream' = NoStream /\ view' = view
  BY DEF SocketClosed
<1>11. QED BY <1>3, <1>9, <1>10, NoStreamTyped, CutKeeping

\* connect() with a cursor
LEMMA DialedGives ==
  ASSUME NEW c \in ClientType, Dialed(c)
  PROVE  /\ wire' = <<>> /\ ws' = "open" /\ stream' \in StreamType /\ stream'.st = "asked"
         /\ stream'.gen = c.gen /\ stream'.cursor = c.last /\ stream'.check = NoCheck
         /\ client' \in ClientType /\ ~client'.timer
         /\ client'.base = c.base /\ client'.last = c.last /\ client'.pending = c.pending
         /\ client'.gen = c.gen /\ client'.refresh = c.refresh
         /\ client'.staging = c.staging /\ client'.staged = c.staged
<1>1. wire' = <<>> /\ ws' = "open"
  BY DEF Dialed
<1>2. stream' = [NoStream EXCEPT !.st = "asked", !.gen = c.gen, !.cursor = c.last]
  BY DEF Dialed
<1>3. client' = [c EXCEPT !.timer = FALSE]
  BY DEF Dialed
<1>4. c.gen \in 0..MaxGen /\ c.last \in Seqs
  BY DEF ClientType
<1>5. NoStream \in StreamType /\ NoStream.check = NoCheck
  BY NoStreamTyped DEF NoStream
<1>6. /\ stream' \in StreamType /\ stream'.st = "asked"
      /\ stream'.gen = c.gen /\ stream'.cursor = c.last /\ stream'.check = NoCheck
  BY <1>2, <1>4, <1>5 DEF StreamType
<1>7. /\ client' \in ClientType /\ ~client'.timer
      /\ client'.base = c.base /\ client'.last = c.last /\ client'.pending = c.pending
      /\ client'.gen = c.gen /\ client'.refresh = c.refresh
      /\ client'.staging = c.staging /\ client'.staged = c.staged
  BY <1>3 DEF ClientType
<1>8. QED BY <1>1, <1>6, <1>7

LEMMA TimerFiresKeeps ==
  ASSUME IInv, TimerFires
  PROVE  IInv'
<1>1. client.timer /\ UNCHANGED <<journal, view, load, sync, faults>>
  BY DEF TimerFires
<1>2. Typed /\ Ordered
  BY DEF IInv
<1>3. client \in ClientType /\ ws \in {"none", "open", "closing"} /\ faults \in 0..MaxFaults
  BY <1>2 DEF Typed
<1>4. /\ ws # "open" /\ client.refresh.st = "no" /\ wire = <<>> /\ stream = NoStream
      /\ ~client.staging /\ client.staged = <<>>
  BY <1>1, <1>2 DEF Ordered
<1>5. CASE client.gen = 0
  <2>1. PICK r : r = [NoRefresh EXCEPT !.st = "asked"]
    OBVIOUS
  <2>2. r \in RefreshType /\ r.gen = 0 /\ r.high = 0
    <3>1. 0 \in 0..MaxGen /\ 0 \in Seqs
      BY Constants
    <3>2. QED BY <2>1, <3>1 DEF NoRefresh, RefreshType
  <2>3. client' = [client EXCEPT !.timer = FALSE, !.refresh = r] /\ UNCHANGED <<ws, wire, stream>>
    BY <1>5, <2>1 DEF TimerFires
  <2>4. /\ client' \in ClientType /\ ~client'.timer /\ client'.refresh = r
        /\ UNCHANGED <<client.gen, client.base, client.last, client.pending, client.staging, client.staged>>
    BY <1>3, <2>2, <2>3 DEF ClientType
  <2>5. ws' \in {"none", "open", "closing"} /\ ws' # "open" /\ wire' = <<>> /\ stream' = NoStream
        /\ ~client'.staging /\ client'.staged = <<>> /\ faults' \in 0..MaxFaults
    BY <1>1, <1>3, <1>4, <2>3, <2>4
  <2>6. QED BY <1>1, <2>2, <2>4, <2>5, NoStreamTyped, CutKeeping
<1>6. CASE client.gen # 0
  <2>1. Dialed(client)
    BY <1>6 DEF TimerFires
  <2>2. QED BY <1>1, <1>3, <1>4, <2>1, DialedGives, CutKeeping
<1>7. QED BY <1>5, <1>6

LEMMA BaselineReadKeeps ==
  ASSUME IInv, BaselineRead
  PROVE  IInv'
<1>1. client.refresh.st = "asked" /\ UNCHANGED <<journal, stream, wire, ws, view, load, sync, faults>>
  BY DEF BaselineRead
<1>2. Typed /\ Ordered
  BY DEF IInv
<1>3. client \in ClientType /\ ws \in {"none", "open", "closing"} /\ faults \in 0..MaxFaults
  BY <1>2 DEF Typed
<1>4. /\ ws # "open" /\ ~client.timer /\ wire = <<>> /\ stream = NoStream
      /\ ~client.staging /\ client.staged = <<>>
  BY <1>1, <1>2 DEF Ordered
<1>5. PICK r : r = [st |-> "read", gen |-> journal.gen, high |-> journal.high]
  OBVIOUS
<1>6. r \in RefreshType /\ r.gen = journal.gen /\ r.high = journal.high
  BY <1>2, <1>5, Numbers DEF RefreshType
<1>7. client' = [client EXCEPT !.refresh = r]
  BY <1>5 DEF BaselineRead
<1>8. /\ client' \in ClientType /\ client'.refresh = r
      /\ UNCHANGED <<client.gen, client.base, client.last, client.pending, client.staging, client.staged, client.timer>>
  BY <1>3, <1>6, <1>7 DEF ClientType
<1>9. ws' \in {"none", "open", "closing"} /\ ws' # "open" /\ wire' = <<>> /\ stream' = NoStream
      /\ ~client'.staging /\ client'.staged = <<>> /\ faults' \in 0..MaxFaults /\ ~client'.timer
  BY <1>1, <1>3, <1>4, <1>8
<1>10. QED BY <1>1, <1>6, <1>8, <1>9, NoStreamTyped, CutKeeping

LEMMA BaselineFailsKeeps ==
  ASSUME IInv, BaselineFails
  PROVE  IInv'
<1>1. client.refresh.st # "no" /\ UNCHANGED <<journal, stream, wire, ws, view, load, sync>>
  BY DEF BaselineFails
<1>2. Typed /\ Ordered
  BY DEF IInv
<1>3. client \in ClientType /\ ws \in {"none", "open", "closing"}
  BY <1>2 DEF Typed
<1>4. /\ ws # "open" /\ ~client.timer /\ wire = <<>> /\ stream = NoStream
      /\ ~client.staging /\ client.staged = <<>>
  BY <1>1, <1>2 DEF Ordered
<1>5. faults' \in 0..MaxFaults
  BY <1>2, Constants DEF BaselineFails, Fault, Typed
<1>6. NoRefresh \in RefreshType /\ NoRefresh.gen = 0 /\ NoRefresh.high = 0 /\ NoRefresh.st = "no" /\ 0 \in 0..MaxGen
  <2>1. 0 \in 0..MaxGen /\ 0 \in Seqs
    BY Constants
  <2>2. QED BY <2>1 DEF NoRefresh, RefreshType
<1>7. PICK c : c = [client EXCEPT !.refresh = NoRefresh, !.gen = 0]
  OBVIOUS
<1>8. /\ c \in ClientType /\ c.refresh = NoRefresh /\ c.gen = 0 /\ c.base = client.base /\ c.last = client.last
      /\ c.pending = client.pending /\ c.staging = client.staging /\ c.staged = client.staged
  BY <1>3, <1>6, <1>7 DEF ClientType
<1>9. client' = [c EXCEPT !.timer = TRUE]
  BY <1>6, <1>7, <1>8 DEF BaselineFails, WithTimer
<1>10. /\ client' \in ClientType /\ client'.refresh = NoRefresh /\ client'.gen = 0
       /\ client'.base = client.base /\ client'.last = client.last
       /\ client'.pending = client.pending /\ client'.staging = client.staging /\ client'.staged = client.staged
  BY <1>8, <1>9 DEF ClientType
<1>11. ws' \in {"none", "open", "closing"} /\ ws' # "open" /\ wire' = <<>> /\ stream' = NoStream
       /\ ~client'.staging /\ client'.staged = <<>>
  BY <1>1, <1>3, <1>4, <1>10
<1>12. QED BY <1>1, <1>5, <1>6, <1>10, <1>11, NoStreamTyped, CutKeeping

LEMMA LoadTypes ==
  /\ NoLoad \in LoadType
  /\ \A kind \in {"latest", "older"}, b \in 1..(MaxSeq + 1) : NewLoad(kind, b) \in LoadType
<1>1. 1 \in 1..(MaxSeq + 1)
  BY Constants
<1>2. QED BY <1>1 DEF NoLoad, NewLoad, LoadType

LEMMA BaselineArrivesKeeps ==
  ASSUME IInv, BaselineArrives
  PROVE  IInv'
<1> DEFINE same == client.refresh.gen = client.gen /\ client.refresh.high >= client.last
           kept == IF same THEN view ELSE [view EXCEPT !.rows = {}, !.older = 0]
           left == IF same THEN load ELSE [i \in Slots |-> NoLoad]
<1>1. client.refresh.st = "read" /\ UNCHANGED <<journal, faults>>
  BY DEF BaselineArrives
<1>2. Typed /\ Bounded /\ GenKnown /\ Ordered
  BY DEF IInv
<1>3. /\ client \in ClientType /\ view \in ViewType /\ load \in [Slots -> LoadType] /\ sync \in SyncType
      /\ faults \in 0..MaxFaults /\ client.refresh.gen \in 0..MaxGen /\ client.refresh.high \in Seqs
  BY <1>2, TypedGives DEF Typed
<1>4. PICK g, h, none : g = client.refresh.gen /\ h = client.refresh.high /\ none = <<>>
  OBVIOUS
<1>5. none \in Seq(Rows) /\ g \in 0..MaxGen /\ h \in Seqs
  BY <1>3, <1>4
<1>6. NoRefresh \in RefreshType /\ NoRefresh.gen = 0 /\ NoRefresh.high = 0 /\ NoRefresh.st = "no"
  <2>1. 0 \in 0..MaxGen /\ 0 \in Seqs
    BY Constants
  <2>2. QED BY <2>1 DEF NoRefresh, RefreshType
<1>7. PICK c : c = [client EXCEPT !.gen = g, !.base = h, !.last = h, !.pending = none,
                                  !.staging = FALSE, !.staged = none, !.refresh = NoRefresh]
  OBVIOUS
<1>8. /\ c \in ClientType /\ c.gen = g /\ c.base = h /\ c.last = h /\ c.pending = none
      /\ ~c.staging /\ c.staged = none /\ c.refresh = NoRefresh
  BY <1>3, <1>5, <1>6, <1>7 DEF ClientType
<1>9. Dialed(c)
  BY <1>4, <1>7 DEF BaselineArrives
<1>10. /\ wire' = <<>> /\ ws' = "open" /\ stream' \in StreamType /\ stream'.st = "asked"
       /\ stream'.gen = c.gen /\ stream'.cursor = c.last /\ stream'.check = NoCheck
       /\ client' \in ClientType /\ ~client'.timer
       /\ client'.base = c.base /\ client'.last = c.last /\ client'.pending = c.pending
       /\ client'.gen = c.gen /\ client'.refresh = c.refresh
       /\ client'.staging = c.staging /\ client'.staged = c.staged
  BY <1>8, <1>9, DialedGives
<1>11. load' \in [Slots -> LoadType]
  <2>1. left \in [Slots -> LoadType]
    <3>1. [i \in Slots |-> NoLoad] \in [Slots -> LoadType]
      BY LoadTypes
    <3>2. QED BY <1>3, <3>1
  <2>2. PICK i \in FreeSlot(left) : load' = [left EXCEPT ![i] = NewLoad("latest", client.refresh.high + 1)]
    BY DEF BaselineArrives
  <2>3. NewLoad("latest", client.refresh.high + 1) \in LoadType
    <3>1. client.refresh.high + 1 \in 1..(MaxSeq + 1)
      BY <1>3, Constants
    <3>2. QED BY <3>1, LoadTypes
  <2> HIDE DEF left
  <2>4. QED BY <2>1, <2>2, <2>3
<1>12. view' \in ViewType
  <2>1. kept \in ViewType
    <3>1. 0 \in Seqs /\ {} \in SUBSET Rows
      BY Constants
    <3>2. [view EXCEPT !.rows = {}, !.older = 0] \in ViewType
      BY <1>3, <3>1 DEF ViewType
    <3>3. QED BY <1>3, <3>2
  <2>2. view' = [kept EXCEPT !.status = client.refresh.high, !.fence = 0, !.pulled = TRUE,
                             !.loading = TRUE, !.failed = FALSE]
    BY DEF BaselineArrives
  <2>3. 0 \in Seqs
    BY Constants
  <2> HIDE DEF kept
  <2>4. QED BY <1>3, <2>1, <2>2, <2>3 DEF ViewType
<1>13. sync' \in SyncType
  <2>1. sync' = IF sync.st = "idle" THEN sync ELSE [sync EXCEPT !.crossed = TRUE]
    BY DEF BaselineArrives
  <2>2. QED BY <1>3, <2>1 DEF SyncType
<1>14. h \in Nat /\ journal.gen \in Nat /\ journal.gen # 0 /\ journal.high \in Nat
  <2>1. journal.gen \in 1..MaxGen /\ MaxGen \in Nat
    BY <1>2, TypedGives, Constants DEF Gens
  <2>2. journal.gen \in Nat /\ journal.gen # 0
    BY <2>1
  <2>3. QED BY <1>2, <1>5, <2>2, Numbers, Constants
<1>15. h <= journal.high /\ g <= journal.gen /\ (g = journal.gen => journal.floor <= h)
  BY <1>2, <1>4 DEF Bounded, GenKnown
<1>16. ReplayWhole'
  <2>1. client'.base = h /\ client'.last = h
    BY <1>8, <1>10
  <2>2. (h + 1)..h = {}
    BY <1>14
  <2>3. QED BY <2>1, <2>2 DEF ReplayWhole
<1>17. /\ client'.base <= client'.last /\ client'.last <= journal.high /\ client'.gen <= journal.gen
       /\ (client'.gen = journal.gen => journal.floor <= client'.last)
       /\ client'.refresh.high <= journal.high /\ client'.refresh.gen <= journal.gen
       /\ client'.refresh.gen # journal.gen /\ client'.refresh.st = "no"
       /\ ~client'.staging /\ client'.staged = <<>> /\ client'.pending = <<>>
  BY <1>4, <1>6, <1>8, <1>10, <1>14, <1>15
<1>18. UNCHANGED journal /\ faults' \in 0..MaxFaults
  BY <1>1, <1>3
<1>19. ws' \in {"none", "open", "closing"} /\ stream'.gen = client'.gen /\ stream'.cursor = client'.last
  BY <1>10
<1>20. QED BY <1>10, <1>11, <1>12, <1>13, <1>16, <1>17, <1>18, <1>19, Cut

-----------------------------------------------------------------------------
(* History reads and the roster.                                             *)

LEMMA LoadStepKeeps ==
  ASSUME IInv, LoadArrives \/ LoadFails \/ LoadOlder \/ EnsureHistory
  PROVE  IInv'
<1>1. Typed /\ Bounded
  BY DEF IInv
<1>2. /\ view \in ViewType /\ load \in [Slots -> LoadType] /\ sync \in SyncType /\ faults \in 0..MaxFaults
      /\ client.base \in Seqs /\ \A i \in Slots : load[i] \in LoadType /\ load[i].before \in 1..(MaxSeq + 1)
  BY <1>1, TypedGives DEF Typed, LoadType
<1>3. CASE LoadArrives
  <2>1. PICK i \in Slots, more \in BOOLEAN :
          LET l == load[i]
              page == HistoryPage(l.before)
              others == [j \in Slots |->
                          IF l.st = "latest" /\ load[j].st # "free"
                            THEN [load[j] EXCEPT !.late = TRUE] ELSE load[j]]
          IN  /\ more => l.st = "latest" /\ page.older # 0
              /\ load' = [others EXCEPT ![i] = IF more THEN NewLoad("older", page.older) ELSE NoLoad]
              /\ view' = [view EXCEPT !.rows = view.rows \union page.rows, !.older = page.older,
                                      !.loading = more]
    BY <1>3 DEF LoadArrives
  <2> DEFINE others == [j \in Slots |->
                          IF load[i].st = "latest" /\ load[j].st # "free"
                            THEN [load[j] EXCEPT !.late = TRUE] ELSE load[j]]
  <2>2. PICK p : p = HistoryPage(load[i].before)
    OBVIOUS
  <2>3. p.rows \subseteq Rows /\ p.older \in Seqs
    BY <1>2, <2>2, HistoryOfRows
  <2>4. others \in [Slots -> LoadType]
    <3>1. \A j \in Slots : [load[j] EXCEPT !.late = TRUE] \in LoadType
      BY <1>2 DEF LoadType
    <3>2. QED BY <1>2, <3>1
  <2>5. (IF more THEN NewLoad("older", p.older) ELSE NoLoad) \in LoadType
    <3>1. more => p.older \in 1..(MaxSeq + 1)
      <4>1. more => p.older # 0
        BY <2>1, <2>2
      <4>2. QED BY <2>3, <4>1, Constants
    <3>2. QED BY <3>1, LoadTypes
  <2>6. load' = [others EXCEPT ![i] = IF more THEN NewLoad("older", p.older) ELSE NoLoad]
    BY <2>1, <2>2
  <2>7. load' \in [Slots -> LoadType]
    <3> HIDE DEF others
    <3>1. QED BY <2>4, <2>5, <2>6
  <2>8. view' = [view EXCEPT !.rows = view.rows \union p.rows, !.older = p.older, !.loading = more]
    BY <2>1, <2>2
  <2>9. view.rows \subseteq Rows
    BY <1>2 DEF ViewType
  <2>10. view' \in ViewType /\ view.rows \subseteq view'.rows
    BY <1>2, <2>3, <2>8, <2>9 DEF ViewType
  <2>11. UNCHANGED <<journal, stream, wire, ws, client, sync, faults>>
    BY <1>3 DEF LoadArrives
  <2>12. QED BY <1>2, <2>7, <2>10, <2>11, ReplaySame
<1>4. CASE LoadFails
  <2>1. PICK i \in Slots :
          /\ IF load[i].late THEN UNCHANGED faults ELSE Fault
          /\ load' = [load EXCEPT ![i] = NoLoad]
          /\ view' = [view EXCEPT !.failed = TRUE, !.loading = FALSE,
                                  !.pulled = view.pulled /\ load[i].st # "latest"]
          /\ UNCHANGED <<journal, stream, wire, ws, client, sync>>
    BY <1>4 DEF LoadFails
  <2>2. faults' \in 0..MaxFaults
    BY <1>2, <2>1, Constants DEF Fault
  <2>3. load' \in [Slots -> LoadType]
    BY <1>2, <2>1, LoadTypes
  <2>4. view' \in ViewType /\ view'.rows = view.rows
    <3>1. (view.pulled /\ load[i].st # "latest") \in BOOLEAN
      OBVIOUS
    <3>2. QED BY <1>2, <2>1, <3>1 DEF ViewType
  <2>5. QED BY <1>2, <2>1, <2>2, <2>3, <2>4, ReplaySame
<1>5. CASE LoadOlder
  <2>1. PICK i \in FreeSlot(load) : load' = [load EXCEPT ![i] = NewLoad("older", view.older)]
    BY <1>5 DEF LoadOlder
  <2>2. /\ view.older # 0 /\ view' = [view EXCEPT !.loading = TRUE, !.failed = FALSE]
        /\ UNCHANGED <<journal, stream, wire, ws, client, sync, faults>>
    BY <1>5 DEF LoadOlder
  <2>3. NewLoad("older", view.older) \in LoadType
    <3>1. view.older \in 1..(MaxSeq + 1)
      BY <1>2, <2>2, Constants DEF ViewType
    <3>2. QED BY <3>1, LoadTypes
  <2>4. load' \in [Slots -> LoadType]
    BY <1>2, <2>1, <2>3
  <2>5. view' \in ViewType /\ view'.rows = view.rows
    BY <1>2, <2>2 DEF ViewType
  <2>6. QED BY <1>2, <2>2, <2>4, <2>5, ReplaySame
<1>6. CASE EnsureHistory
  <2>1. PICK i \in FreeSlot(load) : load' = [load EXCEPT ![i] = NewLoad("latest", client.base + 1)]
    BY <1>6 DEF EnsureHistory
  <2>2. /\ view' = [view EXCEPT !.loading = TRUE, !.failed = FALSE, !.pulled = TRUE]
        /\ UNCHANGED <<journal, stream, wire, ws, client, sync, faults>>
    BY <1>6 DEF EnsureHistory
  <2>3. NewLoad("latest", client.base + 1) \in LoadType
    <3>1. client.base + 1 \in 1..(MaxSeq + 1)
      BY <1>2, Constants
    <3>2. QED BY <3>1, LoadTypes
  <2>4. load' \in [Slots -> LoadType]
    BY <1>2, <2>1, <2>3
  <2>5. view' \in ViewType /\ view'.rows = view.rows
    BY <1>2, <2>2 DEF ViewType
  <2>6. QED BY <1>2, <2>2, <2>4, <2>5, ReplaySame
<1>7. QED BY <1>3, <1>4, <1>5, <1>6

LEMMA SyncStepKeeps ==
  ASSUME IInv, SyncStart \/ SyncStep
  PROVE  IInv'
<1>1. Typed
  BY DEF IInv
<1>2. /\ view \in ViewType /\ load \in [Slots -> LoadType] /\ sync \in SyncType /\ faults \in 0..MaxFaults
      /\ client.last \in Seqs /\ journal.high \in Seqs /\ sync.ver \in Seqs
  BY <1>1, TypedGives DEF Typed, SyncType
<1>3. NoSync \in SyncType /\ 0 \in Seqs
  <2>1. 0 \in Seqs
    BY Constants
  <2>2. QED BY <2>1 DEF NoSync, SyncType
<1>4. CASE SyncStart
  <2>1. sync' = [NoSync EXCEPT !.st = "asked", !.from = client.last]
        /\ UNCHANGED <<journal, stream, wire, ws, client, view, load, faults>>
    BY <1>4 DEF SyncStart
  <2>2. sync' \in SyncType
    BY <1>2, <1>3, <2>1 DEF SyncType
  <2>3. QED BY <1>2, <2>1, <2>2, ReplaySame
<1>5. CASE SyncRead
  <2>1. sync' = [sync EXCEPT !.st = "read", !.ver = journal.high]
        /\ UNCHANGED <<journal, stream, wire, ws, client, view, load, faults>>
    BY <1>5 DEF SyncRead
  <2>2. sync' \in SyncType
    BY <1>2, <2>1 DEF SyncType
  <2>3. QED BY <1>2, <2>1, <2>2, ReplaySame
<1>6. CASE SyncArrives
  <2>1. /\ view' = IF view.fence <= sync.from THEN [view EXCEPT !.status = sync.ver] ELSE view
        /\ sync' = NoSync
        /\ UNCHANGED <<journal, stream, wire, ws, client, load, faults>>
    BY <1>6 DEF SyncArrives
  <2>2. [view EXCEPT !.status = sync.ver] \in ViewType /\ [view EXCEPT !.status = sync.ver].rows = view.rows
    BY <1>2 DEF ViewType
  <2>3. view' \in ViewType /\ view'.rows = view.rows
    BY <1>2, <2>1, <2>2
  <2>4. QED BY <1>2, <1>3, <2>1, <2>3, ReplaySame
<1>7. CASE SyncFails
  <2>1. /\ IF sync.crossed THEN UNCHANGED faults ELSE Fault
        /\ sync' = NoSync
        /\ UNCHANGED <<journal, stream, wire, ws, client, view, load>>
    BY <1>7 DEF SyncFails
  <2>2. faults' \in 0..MaxFaults
    BY <1>2, <2>1, Constants DEF Fault
  <2>3. QED BY <1>2, <1>3, <2>1, <2>2, ReplaySame
<1>8. QED BY <1>4, <1>5, <1>6, <1>7 DEF SyncStep

-----------------------------------------------------------------------------
(* The invariant holds from the start and in every step.                     *)

LEMMA InitHolds ==
  ASSUME Init
  PROVE  IInv
<1>1. PICK h \in Held :
        /\ journal = [high |-> h, gone |-> {}, gen |-> 1, floor |-> 0]
        /\ client = [gen |-> 1, base |-> h, last |-> h, pending |-> <<>>, staging |-> FALSE,
                     staged |-> <<>>, timer |-> FALSE, refresh |-> NoRefresh]
        /\ view = [rows |-> {}, older |-> 0, pulled |-> TRUE, loading |-> TRUE,
                   failed |-> FALSE, status |-> h, fence |-> 0]
        /\ load = [[i \in Slots |-> NoLoad] EXCEPT ![1] = NewLoad("latest", h + 1)]
        /\ stream = [NoStream EXCEPT !.st = "asked", !.gen = 1, !.cursor = h]
  BY DEF Init
<1>2. wire = <<>> /\ ws = "open" /\ sync = NoSync /\ faults = 0
  BY DEF Init
<1>3. h \in Seqs /\ h \in Nat /\ 0 \in Seqs /\ 1 \in Gens /\ 1 \in 0..MaxGen /\ 0 \in 0..MaxGen /\ h + 1 \in 1..(MaxSeq + 1)
      /\ h <= h /\ 0 <= h
  <2>1. h \in 0..MaxSeq /\ MaxSeq \in Nat /\ MaxGen \in Nat \ {0} /\ Seqs = 0..MaxSeq
    BY Constants
  <2>2. QED BY <2>1 DEF Gens
<1>4. NoRefresh \in RefreshType /\ NoRefresh.st = "no" /\ NoRefresh.gen = 0 /\ NoRefresh.high = 0
  BY <1>3 DEF NoRefresh, RefreshType
<1>5. PICK none : none = <<>>
  OBVIOUS
<1>6. none \in Seq(Rows)
  BY <1>5
<1>7. /\ journal \in JournalType /\ journal.high = h /\ journal.gone = {} /\ journal.gen = 1 /\ journal.floor = 0
  BY <1>1, <1>3 DEF JournalType
<1>8. client = [gen |-> 1, base |-> h, last |-> h, pending |-> none, staging |-> FALSE,
                staged |-> none, timer |-> FALSE, refresh |-> NoRefresh]
  BY <1>1, <1>5
<1>9. /\ client \in ClientType /\ client.gen = 1 /\ client.base = h /\ client.last = h /\ client.pending = none
      /\ ~client.staging /\ client.staged = none /\ ~client.timer /\ client.refresh = NoRefresh
  BY <1>3, <1>4, <1>6, <1>8 DEF ClientType
<1>10. view \in ViewType
  <2>1. {} \in SUBSET Rows
    OBVIOUS
  <2>2. QED BY <1>1, <1>3, <2>1 DEF ViewType
<1>11. load \in [Slots -> LoadType]
  <2>1. [i \in Slots |-> NoLoad] \in [Slots -> LoadType] /\ NewLoad("latest", h + 1) \in LoadType
    BY <1>3, LoadTypes
  <2>2. QED BY <1>1, <2>1
<1>12. /\ stream \in StreamType /\ stream.st = "asked" /\ stream.gen = 1 /\ stream.cursor = h
       /\ stream.check.high = 0
  BY <1>1, <1>3, NoStreamTyped DEF StreamType
<1>13. wire \in Seq(Frame) /\ DOMAIN wire = {} /\ Len(wire) = 0
  <2> HIDE DEF Frame
  <2>1. QED BY <1>2
<1>14. sync \in SyncType
  BY <1>2, <1>3 DEF NoSync, SyncType
<1>15. Typed
  <2>1. 0 \in 0..MaxFaults
    BY Constants
  <2>2. QED BY <1>2, <1>7, <1>9, <1>10, <1>11, <1>12, <1>13, <1>14, <2>1 DEF Typed
<1>16. Bounded
  <2>1. DOMAIN none = {}
    BY <1>5
  <2>2. QED BY <1>3, <1>4, <1>7, <1>9, <1>12, <1>13, <2>1 DEF Bounded
<1>17. GenKnown
  BY <1>3, <1>4, <1>7, <1>9, <1>12, <1>13 DEF GenKnown
<1>18. Ordered
  BY <1>2, <1>4, <1>5, <1>9, <1>12, <1>13 DEF Ordered
<1>19. NoJump
  <2>1. client.last \in Had
    BY DEF Had
  <2>2. QED BY <1>3, <1>5, <1>9, <1>12, <1>13, <2>1, FollowsEmpty DEF NoJump
<1>20. ReplayWhole
  BY <1>3, <1>9 DEF ReplayWhole
<1>21. QED BY <1>15, <1>16, <1>17, <1>18, <1>19, <1>20 DEF IInv

LEMMA StepKeeps ==
  ASSUME IInv, [Next]_vars
  PROVE  IInv'
<1>1. CASE AppendRow \/ Condense
  BY <1>1, JournalMoves
<1>2. CASE HubStep
  BY <1>2, StreamStartKeeps, PollKeeps, SendPageKeeps DEF HubStep
<1>3. CASE Flush
  BY <1>3, FlushKeeps
<1>4. CASE Receive
  BY <1>4, ReceiveKeeps
<1>5. faults \in 0..MaxFaults
  BY DEF IInv, Typed
<1>6. CASE CloseSeen
  <2>1. SocketClosed /\ ws # "none" /\ UNCHANGED <<journal, load, sync>> /\ faults' \in 0..MaxFaults
    BY <1>5, <1>6 DEF CloseSeen
  <2>2. QED BY <2>1, SocketClosedKeeps
<1>7. CASE Drop
  <2>1. faults' \in 0..MaxFaults
    BY <1>5, <1>7, Constants DEF Drop, Fault
  <2>2. SocketClosed /\ ws # "none" /\ UNCHANGED <<journal, load, sync>>
    BY <1>7 DEF Drop
  <2>3. QED BY <2>1, <2>2, SocketClosedKeeps
<1>8. CASE TimerFires
  BY <1>8, TimerFiresKeeps
<1>9. CASE BaselineRead
  BY <1>9, BaselineReadKeeps
<1>10. CASE BaselineArrives
  BY <1>10, BaselineArrivesKeeps
<1>11. CASE BaselineFails
  BY <1>11, BaselineFailsKeeps
<1>12. CASE LoadStep \/ LoadOlder \/ EnsureHistory
  BY <1>12, LoadStepKeeps DEF LoadStep
<1>13. CASE SyncStart \/ SyncStep
  BY <1>13, SyncStepKeeps
<1>14. CASE UNCHANGED vars
  <2>1. UNCHANGED <<journal, stream, wire, ws, client, view, load, sync, faults>>
    BY <1>14 DEF vars
  <2>2. view' \in ViewType /\ load' \in [Slots -> LoadType] /\ sync' \in SyncType /\ faults' \in 0..MaxFaults
    BY <2>1 DEF IInv, Typed
  <2>3. QED BY <2>1, <2>2, ReplaySame
<1>15. QED BY <1>1, <1>2, <1>3, <1>4, <1>6, <1>7, <1>8, <1>9, <1>10, <1>11, <1>12, <1>13, <1>14 DEF Next

LEMMA InvariantHolds == Spec => []IInv
<1>1. Init => IInv
  BY InitHolds
<1>2. IInv /\ [Next]_vars => IInv'
  BY StepKeeps
<1>3. QED BY <1>1, <1>2, PTL DEF Spec

LEMMA IInvTyped ==
  ASSUME IInv
  PROVE  TypeOK
<1>1. Typed /\ Bounded /\ Ordered
  BY DEF IInv
<1>2. journal \in [high : Seqs, gone : SUBSET Rows, gen : Gens, floor : Seqs]
  BY <1>1 DEF Typed, JournalType
<1>3. /\ stream.st \in {"none", "asked", "started", "live", "polled"}
      /\ stream.gen \in 0..MaxGen /\ stream.cursor \in Seqs
      /\ client.gen \in 0..MaxGen /\ client.base \in Seqs /\ client.last \in Seqs
  BY <1>1, TypedGives
<1>4. /\ view.rows \subseteq Rows /\ view.older \in Seqs /\ view.status \in Seqs /\ view.fence \in Seqs
  BY <1>1 DEF Typed, ViewType
<1>5. \A i \in Slots : load[i].st \in {"free", "latest", "older"}
  BY <1>1 DEF Typed, LoadType
<1>6. sync.st \in {"idle", "asked", "read"} /\ faults \in 0..MaxFaults /\ ws \in {"none", "open", "closing"}
  BY <1>1 DEF Typed, SyncType
<1>7. client.base <= client.last /\ ~(client.timer /\ client.refresh.st # "no")
  BY <1>1 DEF Bounded, Ordered
<1>8. QED BY <1>2, <1>3, <1>4, <1>5, <1>6, <1>7 DEF TypeOK

\* The journal, the stream and the client hold values of their types, and at most one of
\* the reconnect timer and the baseline read is pending (scheduleReconnect()).
THEOREM TypeCorrect == Spec => []TypeOK
BY InvariantHolds, IInvTyped, PTL

\* Whatever else happens, a client has applied every row between its baseline and its
\* cursor: no page, reset, deletion of rows, lost socket or reconnect lets it step over one
\* (attachReplayStream(), ingest(), apply()).
THEOREM ReplayWholeCorrect == Spec => []ReplayWhole
<1>1. IInv => ReplayWhole
  BY DEF IInv
<1>2. QED BY <1>1, InvariantHolds, PTL

-----------------------------------------------------------------------------
(* What is on screen.                                                        *)

Latest(i) == load[i].st = "latest"
Older(i) == load[i].st = "older" /\ ~load[i].late

\* Each row that is left, from the history cursor to the last applied one, is on screen.
Covered == \A r \in Present(0, client.last) : view.older <= r => r \in view.rows

\* While no error shows, either a latest page is awaited, for all rows up to the baseline
\* unless it is too late for it, or there is no hole, and at most one older page is awaited,
\* which continues what is on screen.
Shown ==
  ~view.failed =>
    IF \E i \in Slots : Latest(i)
    THEN \E i \in Slots : Latest(i) /\ (load[i].late \/ load[i].before = client.base + 1)
    ELSE /\ Covered
         /\ \A i \in Slots : Older(i) => /\ load[i].before = view.older /\ view.loading
                                         /\ \A j \in Slots : Older(j) => j = i

\* A roster read that began before a status row was applied meets its fence.
Fenced ==
  /\ view.status >= client.last
  /\ sync.st # "idle" /\ ~sync.crossed =>
       /\ sync.from <= client.last /\ (client.last > sync.from => view.fence > sync.from)
       /\ sync.st = "read" => sync.ver >= sync.from

\* Every other step leaves the reads alone and only adds rows that follow the cursor.
LEMMA OthersMove ==
  ASSUME IInv, [Next]_vars,
         ~BaselineArrives, ~(LoadStep \/ LoadOlder \/ EnsureHistory), ~(SyncStart \/ SyncStep)
  PROVE  /\ UNCHANGED <<load, sync, view.older, view.loading, view.failed, client.base>>
         /\ journal.gone \subseteq journal'.gone
         /\ client.last <= client'.last /\ client'.last \in Nat /\ view.rows \subseteq view'.rows
         /\ (client.last + 1)..client'.last \subseteq view'.rows
         /\ IF client'.last = client.last
              THEN view'.status = view.status /\ view'.fence = view.fence
              ELSE view'.status = client'.last /\ view'.fence = client'.last
<1>1. client \in ClientType /\ client.last \in Nat
  BY TypedGives, Constants DEF IInv, Typed
<1>2. SUFFICES ASSUME ~(/\ UNCHANGED <<load, sync, view, client.base, client.last>>
                        /\ journal.gone \subseteq journal'.gone)
               PROVE  /\ UNCHANGED <<load, sync, view.older, view.loading, view.failed, client.base>>
                      /\ journal.gone \subseteq journal'.gone
                      /\ client.last <= client'.last /\ client'.last \in Nat /\ view.rows \subseteq view'.rows
                      /\ (client.last + 1)..client'.last \subseteq view'.rows
                      /\ IF client'.last = client.last
                           THEN view'.status = view.status /\ view'.fence = view.fence
                           ELSE view'.status = client'.last /\ view'.fence = client'.last
  <2>1. (client.last + 1)..client.last = {}
    BY <1>1
  <2>2. QED BY <1>1, <2>1
<1>3. CASE AppendRow \/ Condense
  <2>1. UNCHANGED <<client, view, load, sync>>
    BY <1>3 DEF AppendRow, Condense
  <2>2. journal.gone \subseteq journal'.gone
    <3>1. CASE AppendRow
      <4>1. journal \in JournalType /\ journal' = [journal EXCEPT !.high = journal.high + 1]
        BY <3>1 DEF AppendRow, IInv, Typed
      <4>2. QED BY <4>1 DEF JournalType
    <3>2. CASE Condense
      BY <3>2 DEF Condense
    <3>3. QED BY <1>3, <3>1, <3>2
  <2>3. QED BY <1>2, <2>1, <2>2
<1>4. CASE HubStep
  BY <1>2, <1>4 DEF HubStep, StreamStart, Poll, SendPage
<1>5. CASE Flush
  <2>1. Flushed(client, view, client.pending, <<>>) /\ UNCHANGED <<journal, load, sync>>
    BY <1>5 DEF Flush
  <2>2. <<>> \in Seq(Rows)
    OBVIOUS
  <2>3. QED BY <2>1, <2>2, Applies
<1>6. ASSUME RequireBaseline, UNCHANGED <<journal, load, sync>>
      PROVE  FALSE
  <2>1. client.base = client'.base /\ client.last = client'.last
    BY <1>1, <1>6 DEF RequireBaseline, ClientType
  <2>2. QED BY <1>2, <1>6, <2>1 DEF RequireBaseline
<1>7. ASSUME SocketClosed, UNCHANGED <<journal, load, sync>>
      PROVE  FALSE
  <2>1. PICK c : c = [client EXCEPT !.staging = FALSE, !.staged = <<>>]
    OBVIOUS
  <2>2. PICK none : none = <<>>
    OBVIOUS
  <2>3. none \in Seq(Rows) /\ c = [client EXCEPT !.staging = FALSE, !.staged = none]
    BY <2>1, <2>2
  <2>4. c \in ClientType /\ c.base = client.base /\ c.last = client.last
    BY <1>1, <2>3 DEF ClientType
  <2>5. client' = c \/ client' = [c EXCEPT !.timer = TRUE]
    BY <1>7, <2>1 DEF SocketClosed, WithTimer
  <2>6. client.base = client'.base /\ client.last = client'.last
    BY <2>4, <2>5 DEF ClientType
  <2>7. QED BY <1>2, <1>7, <2>6 DEF SocketClosed
<1>8. CASE Receive
  <2>1. ws = "open" /\ wire # <<>> /\ UNCHANGED <<journal, load, sync>>
    BY <1>8 DEF Receive
  <2>2. Head(wire) = wire[1]
    BY <2>1, ReceiveGives
  <2>3. CASE ReceiveStart(wire[1])
    <3>1. Keep([client EXCEPT !.gen = wire[1].gen, !.staging = TRUE, !.staged = <<>>])
      BY <1>6, <2>1, <2>3 DEF ReceiveStart
    <3>2. client.base = client'.base /\ client.last = client'.last /\ view' = view
      BY <1>1, <3>1 DEF Keep, ClientType
    <3>3. QED BY <1>2, <2>1, <3>2
  <2>4. CASE ReceiveStaged(wire[1])
    <3>1. \/ Keep([client EXCEPT !.staged = Append(client.staged, wire[1].seq)])
          \/ Keep([client EXCEPT !.staging = FALSE, !.staged = <<>>, !.pending = client.pending \o client.staged])
      BY <1>6, <2>1, <2>4 DEF ReceiveStaged
    <3>2. client.base = client'.base /\ client.last = client'.last /\ view' = view
      BY <1>1, <3>1 DEF Keep, ClientType
    <3>3. QED BY <1>2, <2>1, <3>2
  <2>5. CASE ReceiveLive(wire[1])
    <3>1. CASE Flushed(client, view, client.pending, <<wire[1].seq>>)
      <4>1. wire[1].seq \in Rows
        BY <2>1, <2>5, ReceiveGives DEF ReceiveLive
      <4>2. <<wire[1].seq>> \in Seq(Rows)
        BY <4>1
      <4>3. QED BY <2>1, <3>1, <4>2, Applies
    <3>2. CASE client' = [client EXCEPT !.pending = Append(client.pending, wire[1].seq)] /\ view' = view
      <4>1. client.base = client'.base /\ client.last = client'.last
        BY <1>1, <3>2 DEF ClientType
      <4>2. QED BY <1>2, <2>1, <3>2, <4>1
    <3>3. QED BY <2>5, <3>1, <3>2 DEF ReceiveLive
  <2>6. QED BY <1>6, <1>8, <2>1, <2>2, <2>3, <2>4, <2>5 DEF Receive
<1>9. CASE CloseSeen \/ Drop
  BY <1>7, <1>9 DEF CloseSeen, Drop
<1>10. CASE TimerFires
  <2>1. client.base = client'.base /\ client.last = client'.last
    <3>1. CASE client.gen = 0
      BY <1>1, <1>10, <3>1 DEF TimerFires, ClientType
    <3>2. CASE client.gen # 0
      <4>1. Dialed(client)
        BY <1>10, <3>2 DEF TimerFires
      <4>2. QED BY <1>1, <4>1, DialedGives
    <3>3. QED BY <3>1, <3>2
  <2>2. QED BY <1>2, <1>10, <2>1 DEF TimerFires
<1>11. CASE BaselineRead
  <2>1. client.base = client'.base /\ client.last = client'.last
    BY <1>1, <1>11 DEF BaselineRead, ClientType
  <2>2. QED BY <1>2, <1>11, <2>1 DEF BaselineRead
<1>12. CASE BaselineFails
  <2>1. client.base = client'.base /\ client.last = client'.last
    <3>1. PICK c : c = [client EXCEPT !.refresh = NoRefresh, !.gen = 0]
      OBVIOUS
    <3>2. client' = c \/ client' = [c EXCEPT !.timer = TRUE]
      BY <1>12, <3>1 DEF BaselineFails, WithTimer
    <3>3. QED BY <1>1, <3>1, <3>2 DEF ClientType
  <2>2. QED BY <1>2, <1>12, <2>1 DEF BaselineFails
<1>13. CASE UNCHANGED vars
  BY <1>2, <1>13 DEF vars
<1>14. QED BY <1>3, <1>4, <1>5, <1>8, <1>9, <1>10, <1>11, <1>12, <1>13 DEF Next, LoadStep

LEMMA PaneTypes ==
  ASSUME IInv
  PROVE  /\ view \in ViewType /\ load \in [Slots -> LoadType] /\ sync \in SyncType /\ client \in ClientType
         /\ client.last \in Nat /\ client.base \in Nat /\ client.base <= client.last
         /\ client.base \in Seqs /\ client.last <= journal.high /\ journal.high \in Nat
         /\ \A i \in Slots : load[i] \in LoadType /\ load[i].before \in 1..(MaxSeq + 1)
         /\ view.older \in Nat /\ view.status \in Nat /\ view.fence \in Nat
         /\ sync.from \in Nat /\ sync.ver \in Nat
<1>1. Typed /\ Bounded
  BY DEF IInv
<1>2. view \in ViewType /\ load \in [Slots -> LoadType] /\ sync \in SyncType /\ client \in ClientType
  BY <1>1 DEF Typed
<1>3. /\ client.last \in Nat /\ client.base \in Nat /\ client.base <= client.last
      /\ client.base \in Seqs /\ client.last <= journal.high /\ journal.high \in Nat
  BY <1>1, TypedGives, Constants DEF Bounded
<1>4. \A i \in Slots : load[i] \in LoadType /\ load[i].before \in 1..(MaxSeq + 1)
  BY <1>2 DEF LoadType
<1>5. view.older \in Nat /\ view.status \in Nat /\ view.fence \in Nat /\ sync.from \in Nat /\ sync.ver \in Nat
  BY <1>2, Constants DEF ViewType, SyncType
<1>6. QED BY <1>2, <1>3, <1>4, <1>5

LEMMA ShownOthers ==
  ASSUME IInv, Shown,
         UNCHANGED <<load, view.older, view.loading, view.failed, client.base>>,
         journal.gone \subseteq journal'.gone,
         client.last <= client'.last, client'.last \in Nat, view.rows \subseteq view'.rows,
         (client.last + 1)..client'.last \subseteq view'.rows
  PROVE  Shown'
<1>1. (\E i \in Slots : Latest(i)') <=> \E i \in Slots : Latest(i)
  BY DEF Latest
<1>2. ASSUME Covered PROVE Covered'
  <2>1. SUFFICES ASSUME NEW r \in Present(0, client.last)', view.older <= r PROVE r \in view'.rows
    BY DEF Covered
  <2>2. r \in Rows /\ r \in Nat /\ r <= client'.last /\ r \notin journal.gone /\ 0 < r
    BY Constants DEF Present
  <2>3. CASE r <= client.last
    <3>1. r \in Present(0, client.last)
      BY <2>2, <2>3 DEF Present
    <3>2. QED BY <1>2, <2>1, <3>1 DEF Covered
  <2>4. CASE ~(r <= client.last)
    <3>1. r \in (client.last + 1)..client'.last
      BY <2>2, <2>4, PaneTypes
    <3>2. QED BY <3>1
  <2>5. QED BY <2>3, <2>4
<1>3. CASE view.failed
  BY <1>3 DEF Shown
<1>4. CASE ~view.failed /\ \E i \in Slots : Latest(i)
  <2>1. PICK i \in Slots : Latest(i) /\ (load[i].late \/ load[i].before = client.base + 1)
    BY <1>4 DEF Shown
  <2>2. Latest(i)' /\ (load'[i].late \/ load'[i].before = client'.base + 1)
    BY <2>1 DEF Latest
  <2>3. QED BY <2>2 DEF Shown
<1>5. CASE ~view.failed /\ ~\E i \in Slots : Latest(i)
  <2>1. /\ Covered
        /\ \A i \in Slots : Older(i) => /\ load[i].before = view.older /\ view.loading
                                        /\ \A j \in Slots : Older(j) => j = i
    BY <1>5 DEF Shown
  <2>2. \A i \in Slots : Older(i)' <=> Older(i)
    BY DEF Older
  <2>3. QED BY <1>1, <1>2, <1>5, <2>1, <2>2 DEF Shown
<1>6. QED BY <1>3, <1>4, <1>5

LEMMA ShownBaseline ==
  ASSUME IInv, BaselineArrives
  PROVE  Shown'
<1> DEFINE same == client.refresh.gen = client.gen /\ client.refresh.high >= client.last
           left == IF same THEN load ELSE [i \in Slots |-> NoLoad]
<1>1. PICK i \in FreeSlot(left) : load' = [left EXCEPT ![i] = NewLoad("latest", client.refresh.high + 1)]
  BY DEF BaselineArrives
<1>2. i \in Slots
  BY DEF FreeSlot, Free
<1>3. left \in [Slots -> LoadType]
  <2>1. [k \in Slots |-> NoLoad] \in [Slots -> LoadType]
    BY LoadTypes
  <2>2. QED BY <2>1, PaneTypes
<1> HIDE DEF left
<1>4. load'[i] = NewLoad("latest", client.refresh.high + 1)
  BY <1>1, <1>2, <1>3
<1>5. client'.base = client.refresh.high
  <2>1. PICK c : c = [client EXCEPT !.gen = client.refresh.gen, !.base = client.refresh.high,
                        !.last = client.refresh.high, !.pending = <<>>, !.staging = FALSE, !.staged = <<>>,
                        !.refresh = NoRefresh]
    OBVIOUS
  <2>2. client' = [c EXCEPT !.timer = FALSE]
    BY <2>1 DEF BaselineArrives, Dialed
  <2>3. c.base = client.refresh.high /\ DOMAIN c = DOMAIN client
    BY <2>1, PaneTypes DEF ClientType
  <2>4. QED BY <2>2, <2>3, PaneTypes DEF ClientType
<1>6. Latest(i)' /\ load'[i].before = client'.base + 1
  BY <1>4, <1>5 DEF Latest, NewLoad
<1>7. QED BY <1>2, <1>6 DEF Shown

\* A page that is installed reaches down to its cursor, and what is asked for next continues it.
LEMMA ShownArrives ==
  ASSUME IInv, Shown, LoadArrives, "lateHistory" \notin Env
  PROVE  Shown'
<1>1. PICK i \in Slots, more \in BOOLEAN :
        LET l == load[i]
            page == HistoryPage(l.before)
            others == [j \in Slots |->
                        IF l.st = "latest" /\ load[j].st # "free"
                          THEN [load[j] EXCEPT !.late = TRUE] ELSE load[j]]
        IN  /\ l.st # "free" /\ ~l.late
            /\ more => l.st = "latest" /\ page.older # 0
            /\ load' = [others EXCEPT ![i] = IF more THEN NewLoad("older", page.older) ELSE NoLoad]
            /\ view' = [view EXCEPT !.rows = view.rows \union page.rows, !.older = page.older,
                                    !.loading = more]
  BY DEF LoadArrives
<1>2. UNCHANGED <<journal, client>>
  BY DEF LoadArrives
<1> DEFINE others == [j \in Slots |->
                        IF load[i].st = "latest" /\ load[j].st # "free"
                          THEN [load[j] EXCEPT !.late = TRUE] ELSE load[j]]
<1>3. PICK p, b : p = HistoryPage(b) /\ b = load[i].before
  OBVIOUS
<1>4. /\ p.rows \subseteq Rows /\ p.older \in Seqs /\ b \in 1..(MaxSeq + 1) /\ p.older \in Nat
      /\ \A r \in Present(0, b - 1) : p.older <= r => r \in p.rows
  <2>1. b \in 1..(MaxSeq + 1)
    BY <1>3, PaneTypes
  <2>2. /\ p.rows \subseteq Rows /\ p.older \in Seqs
        /\ \A r \in Present(0, b - 1) : p.older <= r => r \in p.rows
    BY <1>3, <2>1, HistoryOfRows
  <2>3. QED BY <2>1, <2>2, Constants
<1>5. /\ load[i].st # "free" /\ ~load[i].late
      /\ more => load[i].st = "latest" /\ p.older # 0
      /\ load' = [others EXCEPT ![i] = IF more THEN NewLoad("older", p.older) ELSE NoLoad]
  BY <1>1, <1>3
<1>6. /\ view'.rows = view.rows \union p.rows /\ view'.older = p.older /\ view'.loading = more
      /\ view'.failed = view.failed
  <2>1. view' = [view EXCEPT !.rows = view.rows \union p.rows, !.older = p.older, !.loading = more]
    BY <1>1, <1>3
  <2>2. QED BY <2>1, PaneTypes DEF ViewType
<1>7. \A j \in Slots : j # i => load'[j] = IF load[i].st = "latest" /\ load[j].st # "free"
                                             THEN [load[j] EXCEPT !.late = TRUE] ELSE load[j]
  BY <1>5
<1>8. load'[i] = IF more THEN NewLoad("older", p.older) ELSE NoLoad
  BY <1>5
<1>9. load'[i].st \in {"free", "older"} /\ (load'[i].st = "older" => load'[i].before = p.older /\ more)
  BY <1>8 DEF NewLoad, NoLoad
<1>10. \A j \in Slots : j # i => load'[j].st = load[j].st
  <2>1. \A j \in Slots : [load[j] EXCEPT !.late = TRUE].st = load[j].st
    BY PaneTypes DEF LoadType
  <2>2. QED BY <1>7, <2>1
<1> HIDE DEF others
<1>11. CASE view.failed
  BY <1>6, <1>11 DEF Shown
<1>12. CASE ~view.failed /\ load[i].st = "latest"
  <2>1. \A j \in Slots : j # i /\ load[j].st # "free" => load'[j].late
    <3>1. \A j \in Slots : [load[j] EXCEPT !.late = TRUE].late
      BY PaneTypes DEF LoadType
    <3>2. QED BY <1>7, <1>12, <3>1
  <2>2. ASSUME NEW j \in Slots, Latest(j)'
        PROVE  Latest(j)' /\ load'[j].late
    <3>1. j # i
      BY <1>9, <2>2 DEF Latest
    <3>2. load[j].st = "latest"
      BY <1>10, <2>2, <3>1 DEF Latest
    <3>3. QED BY <2>1, <2>2, <3>1, <3>2
  <2>3. CASE \E j \in Slots : Latest(j)'
    BY <2>2, <2>3 DEF Shown
  <2>4. CASE ~\E j \in Slots : Latest(j)'
    <3>1. \A j \in Slots : Latest(j) => j = i
      BY <1>10, <2>4 DEF Latest
    <3>2. b = client.base + 1
      <4>1. PICK k \in Slots : Latest(k) /\ (load[k].late \/ load[k].before = client.base + 1)
        BY <1>12 DEF Shown, Latest
      <4>2. k = i
        BY <3>1, <4>1
      <4>3. QED BY <1>3, <1>5, <4>1, <4>2
    <3>3. Covered'
      <4>1. SUFFICES ASSUME NEW r \in Present(0, client.last), p.older <= r
                     PROVE  r \in view.rows \union p.rows
        BY <1>2, <1>6 DEF Covered, Present
      <4>2. r \in Rows /\ r \in Nat /\ r <= client.last /\ 0 < r /\ r \notin journal.gone
        BY Constants DEF Present
      <4>3. CASE r <= client.base
        <5>1. r <= b - 1
          BY <3>2, <4>2, <4>3, PaneTypes
        <5>2. r \in Present(0, b - 1)
          BY <4>2, <5>1 DEF Present
        <5>3. QED BY <1>4, <4>1, <5>2
      <4>4. CASE ~(r <= client.base)
        <5>1. r \in (client.base + 1)..client.last
          BY <4>2, <4>4, PaneTypes
        <5>2. QED BY <5>1 DEF IInv, ReplayWhole
      <4>5. QED BY <4>3, <4>4
    <3>4. \A j \in Slots : Older(j)' => j = i
      <4>1. SUFFICES ASSUME NEW j \in Slots, Older(j)', j # i PROVE FALSE
        OBVIOUS
      <4>2. load[j].st # "free"
        BY <1>10, <4>1 DEF Older
      <4>3. QED BY <2>1, <4>1, <4>2 DEF Older
    <3>5. Older(i)' => load'[i].before = view'.older /\ view'.loading
      BY <1>6, <1>9 DEF Older
    <3>6. QED BY <2>4, <3>3, <3>4, <3>5 DEF Shown
  <2>5. QED BY <2>3, <2>4
<1>13. CASE ~view.failed /\ load[i].st # "latest"
  <2>1. \A j \in Slots : j # i => load'[j] = load[j]
    BY <1>7, <1>13
  <2>2. ~more /\ load'[i].st = "free"
    BY <1>5, <1>9, <1>13
  <2>3. load[i].st = "older" /\ Older(i)
    BY <1>5, <1>13, PaneTypes DEF Older, LoadType
  <2>4. CASE \E j \in Slots : Latest(j)
    <3>1. PICK k \in Slots : Latest(k) /\ (load[k].late \/ load[k].before = client.base + 1)
      BY <1>13, <2>4 DEF Shown
    <3>2. k # i
      BY <1>13, <3>1 DEF Latest
    <3>3. Latest(k)' /\ (load'[k].late \/ load'[k].before = client'.base + 1)
      BY <1>2, <2>1, <3>1, <3>2 DEF Latest
    <3>4. QED BY <3>3 DEF Shown
  <2>5. CASE ~\E j \in Slots : Latest(j)
    <3>1. Covered /\ b = view.older /\ \A j \in Slots : Older(j) => j = i
      BY <1>3, <1>13, <2>3, <2>5 DEF Shown
    <3>2. ~\E j \in Slots : Latest(j)'
      BY <2>1, <2>2, <2>5 DEF Latest
    <3>3. \A j \in Slots : ~Older(j)'
      BY <2>1, <2>2, <3>1 DEF Older
    <3>4. Covered'
      <4>1. SUFFICES ASSUME NEW r \in Present(0, client.last), p.older <= r
                     PROVE  r \in view.rows \union p.rows
        BY <1>2, <1>6 DEF Covered, Present
      <4>2. r \in Rows /\ r \in Nat /\ r <= client.last /\ 0 < r /\ r \notin journal.gone
        BY Constants DEF Present
      <4>3. CASE view.older <= r
        BY <3>1, <4>3 DEF Covered
      <4>4. CASE ~(view.older <= r)
        <5>1. r <= b - 1
          BY <3>1, <4>2, <4>4, PaneTypes
        <5>2. r \in Present(0, b - 1)
          BY <4>2, <5>1 DEF Present
        <5>3. QED BY <1>4, <4>1, <5>2
      <4>5. QED BY <4>3, <4>4
    <3>5. QED BY <3>2, <3>3, <3>4 DEF Shown
  <2>6. QED BY <2>4, <2>5
<1>14. QED BY <1>11, <1>12, <1>13

LEMMA ShownFails ==
  ASSUME IInv, LoadFails
  PROVE  Shown'
<1>1. PICK i \in Slots : view' = [view EXCEPT !.failed = TRUE, !.loading = FALSE,
                                              !.pulled = view.pulled /\ load[i].st # "latest"]
  BY DEF LoadFails
<1>2. view'.failed
  BY <1>1, PaneTypes DEF ViewType
<1>3. QED BY <1>2 DEF Shown

LEMMA ShownOlder ==
  ASSUME IInv, Shown, LoadOlder, "retryOlder" \notin Env
  PROVE  Shown'
<1>1. /\ ~view.loading /\ ~view.failed /\ UNCHANGED <<journal, client>>
      /\ view' = [view EXCEPT !.loading = TRUE, !.failed = FALSE]
  BY DEF LoadOlder
<1>2. PICK i \in FreeSlot(load) : load' = [load EXCEPT ![i] = NewLoad("older", view.older)]
  BY DEF LoadOlder
<1>3. i \in Slots /\ load[i].st = "free"
  BY DEF FreeSlot, Free
<1>4. view'.rows = view.rows /\ view'.older = view.older /\ view'.loading /\ ~view'.failed
  BY <1>1, PaneTypes DEF ViewType
<1>5. load'[i] = NewLoad("older", view.older) /\ \A j \in Slots : j # i => load'[j] = load[j]
  BY <1>2, <1>3, PaneTypes
<1>6. load'[i].st = "older" /\ load'[i].before = view.older
  BY <1>5 DEF NewLoad
<1>7. CASE \E j \in Slots : Latest(j)
  <2>1. PICK k \in Slots : Latest(k) /\ (load[k].late \/ load[k].before = client.base + 1)
    BY <1>1, <1>7 DEF Shown
  <2>2. k # i
    BY <1>3, <2>1 DEF Latest
  <2>3. Latest(k)' /\ (load'[k].late \/ load'[k].before = client'.base + 1)
    BY <1>1, <1>5, <2>1, <2>2 DEF Latest
  <2>4. QED BY <2>3 DEF Shown
<1>8. CASE ~\E j \in Slots : Latest(j)
  <2>1. Covered /\ \A j \in Slots : ~Older(j)
    BY <1>1, <1>8 DEF Shown
  <2>2. ~\E j \in Slots : Latest(j)'
    BY <1>5, <1>6, <1>8 DEF Latest
  <2>3. \A j \in Slots : Older(j)' => j = i
    BY <1>5, <2>1 DEF Older
  <2>4. Covered'
    BY <1>1, <1>4, <2>1 DEF Covered, Present
  <2>5. QED BY <1>4, <1>6, <2>2, <2>3, <2>4 DEF Shown
<1>9. QED BY <1>7, <1>8

LEMMA ShownEnsure ==
  ASSUME IInv, EnsureHistory
  PROVE  Shown'
<1>1. PICK i \in FreeSlot(load) : load' = [load EXCEPT ![i] = NewLoad("latest", client.base + 1)]
  BY DEF EnsureHistory
<1>2. i \in Slots /\ client' = client
  BY DEF FreeSlot, Free, EnsureHistory
<1>3. load'[i] = NewLoad("latest", client.base + 1)
  BY <1>1, <1>2, PaneTypes
<1>4. Latest(i)' /\ load'[i].before = client'.base + 1
  BY <1>2, <1>3 DEF Latest, NewLoad
<1>5. QED BY <1>2, <1>4 DEF Shown

LEMMA ShownSync ==
  ASSUME IInv, Shown, SyncStart \/ SyncStep
  PROVE  Shown'
<1>1. UNCHANGED <<journal, client, load>>
  BY DEF SyncStart, SyncStep, SyncRead, SyncArrives, SyncFails
<1>2. \/ view' = view
      \/ view' = [view EXCEPT !.status = sync.ver]
  BY DEF SyncStart, SyncStep, SyncRead, SyncArrives, SyncFails
<1>3. UNCHANGED <<view.rows, view.older, view.loading, view.failed>>
  BY <1>2, PaneTypes DEF ViewType
<1>4. (client.last + 1)..client.last = {} /\ client.last <= client.last /\ client.last \in Nat
  BY PaneTypes
<1>5. /\ UNCHANGED <<load, view.older, view.loading, view.failed, client.base>>
      /\ journal.gone \subseteq journal'.gone
      /\ client.last <= client'.last /\ client'.last \in Nat /\ view.rows \subseteq view'.rows
      /\ (client.last + 1)..client'.last \subseteq view'.rows
  BY <1>1, <1>3, <1>4
<1>6. QED BY <1>5, ShownOthers

LEMMA ShownStep ==
  ASSUME IInv, Shown, [Next]_vars, Env \cap {"lateHistory", "retryOlder"} = {}
  PROVE  Shown'
<1>1. "lateHistory" \notin Env /\ "retryOlder" \notin Env
  OBVIOUS
<1>2. CASE BaselineArrives
  BY <1>2, ShownBaseline
<1>3. CASE LoadStep \/ LoadOlder \/ EnsureHistory
  BY <1>1, <1>3, ShownArrives, ShownFails, ShownOlder, ShownEnsure DEF LoadStep
<1>4. CASE SyncStart \/ SyncStep
  BY <1>4, ShownSync
<1>5. CASE ~BaselineArrives /\ ~(LoadStep \/ LoadOlder \/ EnsureHistory) /\ ~(SyncStart \/ SyncStep)
  BY <1>5, OthersMove, ShownOthers
<1>6. QED BY <1>2, <1>3, <1>4, <1>5

LEMMA ShownInit ==
  ASSUME Init
  PROVE  Shown
<1>1. PICK h \in Held :
        /\ client = [gen |-> 1, base |-> h, last |-> h, pending |-> <<>>, staging |-> FALSE,
                     staged |-> <<>>, timer |-> FALSE, refresh |-> NoRefresh]
        /\ load = [[i \in Slots |-> NoLoad] EXCEPT ![1] = NewLoad("latest", h + 1)]
  BY DEF Init
<1>2. 1 \in Slots
  BY Constants
<1>3. load[1] = NewLoad("latest", h + 1) /\ client.base = h
  BY <1>1, <1>2
<1>4. Latest(1) /\ load[1].before = client.base + 1
  BY <1>3 DEF Latest, NewLoad
<1>5. QED BY <1>2, <1>4 DEF Shown

LEMMA ShownIsWhole ==
  ASSUME IInv, Shown
  PROVE  PaneWhole
<1>1. ReplayWhole
  BY DEF IInv
<1>2. TranscriptWhole
  <2>1. SUFFICES ASSUME ~Loading, ~view.failed PROVE Covered
    BY DEF TranscriptWhole, Covered
  <2>2. ~\E i \in Slots : Latest(i)
    BY <2>1 DEF Loading, Latest
  <2>3. QED BY <2>1, <2>2 DEF Shown
<1>3. QED BY <1>1, <1>2 DEF PaneWhole

\* Unless an answer to an overtaken history read is installed, or a failed read is retried
\* over an open older page: the live stream and the history reads, which install their rows
\* independently, together leave no hole above the history cursor (installReplayBaseline(),
\* ensureHistory(), loadOlderHistory(), apply()).
THEOREM PaneWholeCorrect ==
  ASSUME Env \cap {"lateHistory", "retryOlder"} = {}
  PROVE  Spec => []PaneWhole
<1>1. Init => Shown
  BY ShownInit
<1>2. IInv /\ Shown /\ [Next]_vars => Shown'
  BY ShownStep
<1>3. IInv /\ Shown => PaneWhole
  BY ShownIsWhole
<1>4. QED BY <1>1, <1>2, <1>3, InvariantHolds, PTL DEF Spec

-----------------------------------------------------------------------------
(* The status that is shown.                                                 *)

LEMMA FencedInit ==
  ASSUME Init
  PROVE  Fenced
<1>1. PICK h \in Held :
        /\ client = [gen |-> 1, base |-> h, last |-> h, pending |-> <<>>, staging |-> FALSE,
                     staged |-> <<>>, timer |-> FALSE, refresh |-> NoRefresh]
        /\ view = [rows |-> {}, older |-> 0, pulled |-> TRUE, loading |-> TRUE,
                   failed |-> FALSE, status |-> h, fence |-> 0]
  BY DEF Init
<1>2. h \in Nat
  <2>1. h \in 0..MaxSeq
    BY Constants
  <2>2. QED BY <2>1
<1>3. sync.st = "idle"
  BY DEF Init, NoSync
<1>4. view.status >= client.last
  <2>1. view.status = h /\ client.last = h
    BY <1>1
  <2>2. QED BY <1>2, <2>1
<1>5. QED BY <1>3, <1>4 DEF Fenced

LEMMA FencedOthers ==
  ASSUME IInv, Fenced, UNCHANGED sync, client.last <= client'.last, client'.last \in Nat,
         IF client'.last = client.last
           THEN view'.status = view.status /\ view'.fence = view.fence
           ELSE view'.status = client'.last /\ view'.fence = client'.last
  PROVE  Fenced'
<1>1. client.last \in Nat /\ sync.from \in Nat /\ view.status \in Nat /\ view.fence \in Nat
  BY PaneTypes
<1>2. CASE client'.last = client.last
  BY <1>2 DEF Fenced
<1>3. CASE client'.last # client.last
  BY <1>1, <1>3 DEF Fenced
<1>4. QED BY <1>2, <1>3

LEMMA FencedBaseline ==
  ASSUME IInv, BaselineArrives
  PROVE  Fenced'
<1> DEFINE same == client.refresh.gen = client.gen /\ client.refresh.high >= client.last
           kept == IF same THEN view ELSE [view EXCEPT !.rows = {}, !.older = 0]
<1>1. PICK h : h = client.refresh.high
  OBVIOUS
<1>2. h \in Nat
  BY <1>1, TypedGives, Constants DEF IInv
<1>3. client'.last = h
  <2>1. PICK c : c = [client EXCEPT !.gen = client.refresh.gen, !.base = client.refresh.high,
                        !.last = client.refresh.high, !.pending = <<>>, !.staging = FALSE, !.staged = <<>>,
                        !.refresh = NoRefresh]
    OBVIOUS
  <2>2. client' = [c EXCEPT !.timer = FALSE]
    BY <2>1 DEF BaselineArrives, Dialed
  <2>3. c.last = h /\ DOMAIN c = DOMAIN client
    BY <1>1, <2>1, PaneTypes DEF ClientType
  <2>4. QED BY <2>2, <2>3, PaneTypes DEF ClientType
<1>4. view'.status = h
  <2>1. kept \in ViewType
    <3>1. 0 \in Seqs /\ {} \in SUBSET Rows
      BY Constants
    <3>2. [view EXCEPT !.rows = {}, !.older = 0] \in ViewType
      BY <3>1, PaneTypes DEF ViewType
    <3>3. QED BY <3>2, PaneTypes
  <2>2. view' = [kept EXCEPT !.status = h, !.fence = 0, !.pulled = TRUE, !.loading = TRUE, !.failed = FALSE]
    BY <1>1 DEF BaselineArrives
  <2> HIDE DEF kept
  <2>3. QED BY <2>1, <2>2 DEF ViewType
<1>5. sync'.st = "idle" \/ sync'.crossed
  <2>1. sync' = IF sync.st = "idle" THEN sync ELSE [sync EXCEPT !.crossed = TRUE]
    BY DEF BaselineArrives
  <2>2. QED BY <2>1, PaneTypes DEF SyncType
<1>6. QED BY <1>2, <1>3, <1>4, <1>5 DEF Fenced

LEMMA FencedLoads ==
  ASSUME IInv, Fenced, LoadStep \/ LoadOlder \/ EnsureHistory
  PROVE  Fenced'
<1>1. UNCHANGED <<client, sync>>
  BY DEF LoadStep, LoadArrives, LoadFails, LoadOlder, EnsureHistory
<1>2. view'.status = view.status /\ view'.fence = view.fence
  <2>1. CASE LoadArrives
    <3>1. PICK i \in Slots, more \in BOOLEAN :
            view' = [view EXCEPT !.rows = view.rows \union HistoryPage(load[i].before).rows,
                                 !.older = HistoryPage(load[i].before).older, !.loading = more]
      BY <2>1 DEF LoadArrives
    <3>2. QED BY <3>1, PaneTypes DEF ViewType
  <2>2. CASE LoadFails
    <3>1. PICK pulled : view' = [view EXCEPT !.failed = TRUE, !.loading = FALSE, !.pulled = pulled]
      BY <2>2 DEF LoadFails
    <3>2. QED BY <3>1, PaneTypes DEF ViewType
  <2>3. CASE LoadOlder
    BY <2>3, PaneTypes DEF LoadOlder, ViewType
  <2>4. CASE EnsureHistory
    BY <2>4, PaneTypes DEF EnsureHistory, ViewType
  <2>5. QED BY <2>1, <2>2, <2>3, <2>4 DEF LoadStep
<1>3. QED BY <1>1, <1>2 DEF Fenced

LEMMA FencedSync ==
  ASSUME IInv, Fenced, SyncStart \/ SyncStep, "staleRoster" \notin Env
  PROVE  Fenced'
<1>1. /\ client.last \in Nat /\ client.last <= journal.high /\ journal.high \in Nat /\ sync \in SyncType
      /\ sync.from \in Nat /\ sync.ver \in Nat /\ view.status \in Nat /\ view.fence \in Nat
  BY PaneTypes
<1>2. CASE SyncStart
  <2>1. sync' = [NoSync EXCEPT !.st = "asked", !.from = client.last] /\ UNCHANGED <<client, view>>
    BY <1>2 DEF SyncStart
  <2>2. sync'.from = client.last /\ sync'.st = "asked"
    BY <2>1 DEF NoSync
  <2>3. QED BY <1>1, <2>1, <2>2 DEF Fenced
<1>3. CASE SyncRead
  <2>1. sync' = [sync EXCEPT !.st = "read", !.ver = journal.high] /\ sync.st = "asked" /\ UNCHANGED <<client, view>>
    BY <1>3 DEF SyncRead
  <2>2. sync'.from = sync.from /\ sync'.crossed = sync.crossed /\ sync'.ver = journal.high
    BY <1>1, <2>1 DEF SyncType
  <2>3. QED BY <1>1, <2>1, <2>2 DEF Fenced
<1>4. CASE SyncArrives
  <2>1. /\ sync.st = "read" /\ ~sync.crossed /\ sync' = NoSync /\ client' = client
        /\ view' = IF view.fence <= sync.from THEN [view EXCEPT !.status = sync.ver] ELSE view
    BY <1>4 DEF SyncArrives
  <2>2. sync'.st = "idle"
    BY <2>1 DEF NoSync
  <2>3. view'.status >= client.last
    <3>1. CASE view.fence <= sync.from
      <4>1. view'.status = sync.ver
        BY <2>1, <3>1, PaneTypes DEF ViewType
      <4>2. sync.from <= client.last /\ sync.ver >= sync.from /\ ~(client.last > sync.from)
        BY <1>1, <2>1, <3>1 DEF Fenced
      <4>3. QED BY <1>1, <4>1, <4>2
    <3>2. CASE ~(view.fence <= sync.from)
      BY <2>1, <3>2 DEF Fenced
    <3>3. QED BY <3>1, <3>2
  <2>4. QED BY <2>1, <2>2, <2>3 DEF Fenced
<1>5. CASE SyncFails
  <2>1. sync' = NoSync /\ UNCHANGED <<client, view>>
    BY <1>5 DEF SyncFails
  <2>2. sync'.st = "idle"
    BY <2>1 DEF NoSync
  <2>3. QED BY <2>1, <2>2 DEF Fenced
<1>6. QED BY <1>2, <1>3, <1>4, <1>5 DEF SyncStep

LEMMA FencedStep ==
  ASSUME IInv, Fenced, [Next]_vars, "staleRoster" \notin Env
  PROVE  Fenced'
<1>1. CASE BaselineArrives
  BY <1>1, FencedBaseline
<1>2. CASE LoadStep \/ LoadOlder \/ EnsureHistory
  BY <1>2, FencedLoads
<1>3. CASE SyncStart \/ SyncStep
  BY <1>3, FencedSync
<1>4. CASE ~BaselineArrives /\ ~(LoadStep \/ LoadOlder \/ EnsureHistory) /\ ~(SyncStart \/ SyncStep)
  BY <1>4, OthersMove, FencedOthers
<1>5. QED BY <1>1, <1>2, <1>3, <1>4

\* Unless a roster read answers after a baseline was installed meanwhile: the status of a
\* chat is never older than the applied events, since a roster read that began before a
\* status event was applied is not taken (latestStatusSeq in syncRecordsFromHub()).
THEOREM StatusNotBehindCorrect ==
  ASSUME "staleRoster" \notin Env
  PROVE  Spec => []StatusNotBehind
<1>1. Init => Fenced
  BY FencedInit
<1>2. IInv /\ Fenced /\ [Next]_vars => Fenced'
  BY FencedStep
<1>3. Fenced => StatusNotBehind
  BY DEF Fenced, StatusNotBehind
<1>4. QED BY <1>1, <1>2, <1>3, InvariantHolds, PTL DEF Spec

=============================================================================
