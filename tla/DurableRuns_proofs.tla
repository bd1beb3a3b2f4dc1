------------------------- MODULE DurableRuns_proofs -------------------------
(***************************************************************************)
(* For every set of hubs, runs, resources and faults of DurableRuns: its   *)
(* types, that a run happens once, and (while none of the troubles of Env  *)
(* is let in) that what is recorded of a command is what it did and that   *)
(* commands that need one resource are never at work together.             *)
(***************************************************************************)
EXTENDS DurableRuns, FiniteSetTheorems, WellFoundedInduction, TLAPS

-----------------------------------------------------------------------------
(* The inductive invariant.                                                  *)

\* The tasks of all hubs.
Due == {t \in Tasks : \E h \in Hubs : \E i \in DOMAIN hub[h].todo : hub[h].todo[i] = t}

\* Launching a run and journaling its end are due once in all hubs together, and a run
\* just claimed is launched before anything else.
Single == {"launch", "journal"}
DueOnce ==
  /\ \A h, g \in Hubs : \A i \in DOMAIN hub[h].todo, j \in DOMAIN hub[g].todo :
       hub[h].todo[i].do \in Single /\ hub[h].todo[i] = hub[g].todo[j] => h = g /\ i = j
  /\ \A h \in Hubs : \A i \in DOMAIN hub[h].todo : hub[h].todo[i].do = "launch" => i = 1
  /\ \A t \in Due : t.do \notin {"reconcile", "pending", "pump"} => t.run \in Runs

NoProc == [st |-> "none", starts |-> 0]

\* Nothing was done about starting the command ...
Untouched(r) ==
  /\ mon[r].at = "none" /\ <<r, "start">> \notin net
  /\ target.receipt[r] = "none" /\ proc[r] = NoProc

\* ... or something that will start it is on its way.
OnItsWay(r) == <<r, "start">> \in net /\ target.receipt[r] = "none"
Startable(r) == Task("launch", r) \in Due \/ mon[r].at = "prep" \/ OnItsWay(r)

\* A launch due, preparations under way, a request without a receipt: one of them at
\* most, and before the command was started.
StartsOnce ==
  \A r \in Runs :
    /\ row[r].state \in {"none", "queued"} => Untouched(r) /\ Task("launch", r) \notin Due
    /\ Task("launch", r) \in Due => Untouched(r)
    /\ mon[r].at = "prep" => <<r, "start">> \notin net /\ target.receipt[r] = "none"
    /\ Startable(r) => proc[r] = NoProc
    /\ proc[r].starts <= 1 /\ (proc[r].starts = 0 <=> proc[r].st = "none")

\* The receipt and the row of a command that succeeded tell the truth, and what may start
\* or was started has its prerequisite.
Cleared(r) == row[r].dep # None => row[row[r].dep].state = "succeeded"
PrerequisiteMet ==
  \A r \in Runs :
    /\ target.receipt[r] \notin {"none", "running"} => proc[r].st = target.receipt[r]
    /\ row[r].state = "succeeded" => proc[r].st = "succeeded"
    /\ row[r].dep # None => row[row[r].dep].state # "none"
    /\ row[r].state = "running" \/ Startable(r) \/ proc[r].starts > 0 => Cleared(r)

\* The end of a run is journaled after it came and once.
Reports ==
  \A r \in Runs :
    /\ told[r].rows \in {<<>>, <<row[r].state>>} /\ told[r].notices <= 1
    /\ row[r].state \notin Ended => told[r].rows = <<>> /\ Task("journal", r) \notin Due
    /\ Task("journal", r) \in Due => told[r].rows = <<>>

IInv == TypeOK /\ DueOnce /\ StartsOnce /\ PrerequisiteMet /\ Reports

\* A running run holds all its resources.
HoldsAll == \A r \in Runs : row[r].state = "running" => \A x \in Needs[r] : lease[x] = r

\* An answer is one to the request, a refusal means that there is nothing to refuse
\* any more, and what failed or was cancelled will not start.
Answers ==
  \A r \in Runs :
    /\ mon[r].answer # "none" => mon[r].at = "start"
    /\ mon[r].at = "start" /\ mon[r].answer = "none" => target.receipt[r] = "none"
    /\ mon[r].answer = "refused" => target.receipt[r] = "none" /\ <<r, "start">> \notin net
                                  /\ proc[r] = NoProc
    /\ Startable(r) => row[r].state \in {"running", "outcome_unknown"}
    /\ mon[r].at # "none" => row[r].remote
    /\ row[r].remote /\ target.receipt[r] = "none" => proc[r] = NoProc

\* A command at work has a row that says so or that does not know.
AliveKnown ==
  \A r \in Runs : proc[r].st = "alive" => row[r].state \in {"running", "outcome_unknown"}

HInv == HoldsAll /\ Answers /\ OutcomeHonest /\ AliveKnown

-----------------------------------------------------------------------------
(* Lemmas about the operators: creation times, and one task per run of a set. *)

\* A set of numbers has a least one.
LEMMA LeastExists ==
  ASSUME NEW S \in SUBSET Nat, S # {}
  PROVE  \E m \in S : \A y \in S : m <= y
<1> DEFINE T == {1 .. y : y \in S}
<1>1. T \subseteq FiniteSubsetsOf(Nat) /\ T # {}
  <2>1. ASSUME NEW y \in S PROVE 1 .. y \in FiniteSubsetsOf(Nat)
    <3>1. y \in Int /\ 1 \in Int
      OBVIOUS
    <3>2. IsFiniteSet(1 .. y)
      BY <3>1, FS_Interval
    <3>3. 1 .. y \subseteq Nat
      BY <3>1
    <3>4. QED BY <3>2, <3>3 DEF FiniteSubsetsOf
  <2>2. QED BY <2>1
<1>2. PICK t \in T : \A y \in T : ~(<<y, t>> \in StrictSubsetOrdering(Nat))
  <2>1. IsWellFoundedOn(StrictSubsetOrdering(Nat), FiniteSubsetsOf(Nat))
    BY FS_StrictSubsetOrderingWellFounded
  <2> HIDE DEF T
  <2>2. QED BY <1>1, <2>1, WFMin
<1>3. PICK m \in S : t = 1 .. m
  OBVIOUS
<1>4. ASSUME NEW y \in S, ~(m <= y)
      PROVE  FALSE
  <2>1. m \in Nat /\ y \in Nat /\ y < m
    BY <1>4
  <2>2. 1 .. y \subseteq 1 .. m /\ m \in 1 .. m /\ m \notin 1 .. y
    BY <2>1
  <2>3. 1 .. y \in SUBSET Nat /\ 1 .. m \in SUBSET Nat
    BY <2>1
  <2>4. <<1 .. y, 1 .. m>> \in StrictSubsetOrdering(Nat)
    BY <2>2, <2>3 DEF StrictSubsetOrdering
  <2>5. QED BY <1>2, <1>3, <2>4
<1>5. QED BY <1>4

\* Every run has a place in the order of creation, and no other run has it.
LEMMA PlaceIsPlace ==
  ASSUME NEW r \in Runs
  PROVE  Place(r) \in 1 .. Len(Order) /\ Order[Place(r)] = r
<1>1. Order \in Seq(Runs) /\ \E i \in DOMAIN Order : Order[i] = r
  BY RunsAssumption
<1>2. Place(r) \in DOMAIN Order /\ Order[Place(r)] = r
  BY <1>1 DEF Place
<1>3. DOMAIN Order = 1 .. Len(Order)
  BY <1>1
<1>4. QED BY <1>2, <1>3

LEMMA PlacesDiffer ==
  ASSUME NEW r \in Runs, NEW q \in Runs, r # q
  PROVE  Place(r) < Place(q) \/ Place(q) < Place(r)
<1>1. /\ Place(r) \in 1 .. Len(Order) /\ Order[Place(r)] = r
      /\ Place(q) \in 1 .. Len(Order) /\ Order[Place(q)] = q
  BY PlaceIsPlace
<1>2. Place(r) # Place(q)
  BY <1>1
<1>3. Len(Order) \in Nat
  BY RunsAssumption
<1>4. QED BY <1>1, <1>2, <1>3

LEMMA RunsFinite == IsFiniteSet(Runs)
<1> DEFINE n == Len(Order)
<1>1. Order \in Seq(Runs) /\ n \in Nat /\ DOMAIN Order = 1 .. n
  BY RunsAssumption
<1>2. IsFiniteSet(1 .. n)
  BY <1>1, FS_Interval
<1>3. Order \in [1 .. n -> Runs]
  BY <1>1
<1>4. \A r \in Runs : \E i \in 1 .. n : Order[i] = r
  BY <1>1, RunsAssumption
<1>5. Order \in Surjection(1 .. n, Runs)
  BY <1>3, <1>4 DEF Surjection
<1>6. QED BY <1>2, <1>5, FS_Surjection

\* The youngest of some runs.
LEMMA YoungestExists ==
  ASSUME NEW S \in SUBSET Runs, S # {}
  PROVE  \E y \in S : \A r \in S \ {y} : Place(r) < Place(y)
<1> DEFINE n == Len(Order)
           T == {n - Place(r) : r \in S}
<1>1. n \in Nat
  BY RunsAssumption
<1>2. \A r \in S : Place(r) \in 1 .. n /\ n - Place(r) \in Nat
  BY <1>1, PlaceIsPlace
<1>3. T \in SUBSET Nat /\ T # {}
  BY <1>2
<1>4. PICK t \in T : \A u \in T : t <= u
  <2> HIDE DEF T
  <2>1. QED BY <1>3, LeastExists
<1>5. PICK y \in S : t = n - Place(y)
  OBVIOUS
<1>6. ASSUME NEW r \in S \ {y}
      PROVE  Place(r) < Place(y)
  <2>1. n - Place(y) <= n - Place(r)
    BY <1>4, <1>5
  <2>2. Place(r) <= Place(y)
    BY <1>1, <1>2, <2>1
  <2>3. Place(r) < Place(y) \/ Place(y) < Place(r)
    BY PlacesDiffer
  <2>4. QED BY <1>2, <2>2, <2>3
<1>7. QED BY <1>6

\* Any runs can be listed oldest first.
LEMMA ListExists ==
  ASSUME NEW S \in SUBSET Runs
  PROVE  /\ Cardinality(S) \in Nat
         /\ \E q \in [1 .. Cardinality(S) -> S] : OldestFirst(q)
<1> DEFINE Listed(U) == \E q \in [1 .. Cardinality(U) -> U] : OldestFirst(q)
           Bad == {n \in Nat : \E U \in SUBSET Runs : Cardinality(U) = n /\ ~Listed(U)}
<1>1. \A U \in SUBSET Runs : IsFiniteSet(U) /\ Cardinality(U) \in Nat
  BY RunsFinite, FS_Subset, FS_CardinalityType
<1>2. SUFFICES ASSUME Bad # {} PROVE FALSE
  BY <1>1
<1>3. PICK n \in Bad : \A k \in Bad : n <= k
  <2>1. Bad \in SUBSET Nat
    OBVIOUS
  <2> HIDE DEF Bad
  <2>2. QED BY <1>2, <2>1, LeastExists
<1>4. PICK U \in SUBSET Runs : Cardinality(U) = n /\ ~Listed(U)
  OBVIOUS
<1>5. U # {}
  <2>1. ASSUME U = {} PROVE Listed(U)
    <3>1. Cardinality(U) = 0
      BY <2>1, FS_EmptySet
    <3>2. <<>> \in [1 .. 0 -> U] /\ OldestFirst(<<>>)
      BY DEF OldestFirst
    <3>3. QED BY <3>1, <3>2
  <2>2. QED BY <1>4, <2>1
<1>6. PICK y \in U : \A r \in U \ {y} : Place(r) < Place(y)
  BY <1>5, YoungestExists
<1> DEFINE V == U \ {y}
<1>7. Cardinality(V) = n - 1 /\ V \in SUBSET Runs /\ n \in Nat \ {0}
  <2>1. Cardinality(V) = Cardinality(U) - 1 /\ Cardinality(V) \in Nat
    BY <1>1, FS_RemoveElement
  <2>2. QED BY <1>4, <2>1
<1>8. Listed(V)
  <2>1. n - 1 \in Nat /\ ~(n <= n - 1)
    BY <1>7
  <2>2. n - 1 \notin Bad
    BY <1>3, <2>1
  <2>3. QED BY <1>7, <2>1, <2>2
<1>9. PICK q \in [1 .. (n - 1) -> V] : OldestFirst(q)
  BY <1>7, <1>8
<1> DEFINE p == [i \in 1 .. n |-> IF i = n THEN y ELSE q[i]]
<1>10. p \in [1 .. n -> U]
  <2>1. \A i \in 1 .. n : i # n => i \in 1 .. (n - 1)
    BY <1>7
  <2>2. QED BY <1>9, <2>1
<1>11. OldestFirst(p)
  <2> SUFFICES ASSUME NEW i \in 1 .. n, NEW j \in 1 .. n, i < j
               PROVE  Place(p[i]) < Place(p[j])
    BY <1>10 DEF OldestFirst
  <2>1. i \in 1 .. (n - 1) /\ p[i] = q[i] /\ q[i] \in V
    BY <1>7, <1>9
  <2>2. CASE j = n
    BY <1>6, <2>1, <2>2
  <2>3. CASE j # n
    <3>1. j \in 1 .. (n - 1) /\ p[j] = q[j]
      BY <1>7, <2>3
    <3>2. QED BY <1>9, <2>1, <3>1 DEF OldestFirst
  <2>4. QED BY <2>2, <2>3
<1>12. QED BY <1>4, <1>10, <1>11

\* Each() has one task per run.
LEMMA EachIsEach ==
  ASSUME NEW d \in Duties, NEW S \in SUBSET Runs
  PROVE  /\ Each(d, S) \in Seq(Tasks)
         /\ \A k \in DOMAIN Each(d, S) : \E r \in S : Each(d, S)[k] = Task(d, r)
         /\ \A k, l \in DOMAIN Each(d, S) : Each(d, S)[k] = Each(d, S)[l] => k = l
<1> DEFINE n == Cardinality(S)
           q == CHOOSE f \in [1 .. n -> S] : OldestFirst(f)
<1>1. n \in Nat /\ q \in [1 .. n -> S] /\ OldestFirst(q)
  BY ListExists
<1>2. Each(d, S) = [i \in 1 .. n |-> Task(d, q[i])]
  BY DEF Each
<1>3. \A i \in 1 .. n : q[i] \in S /\ q[i] \in Runs /\ Task(d, q[i]) \in Tasks
  BY <1>1 DEF Task, Tasks
<1>4. \A i, j \in 1 .. n : q[i] = q[j] => i = j
  <2> SUFFICES ASSUME NEW i \in 1 .. n, NEW j \in 1 .. n, i < j, q[i] = q[j] PROVE FALSE
    BY <1>1
  <2>1. Place(q[i]) < Place(q[j])
    BY <1>1 DEF OldestFirst
  <2>2. Place(q[i]) \in Int
    BY <1>3, PlaceIsPlace
  <2>3. QED BY <2>1, <2>2
<1> HIDE DEF q, n
<1>5. DOMAIN Each(d, S) = 1 .. n /\ Each(d, S) \in Seq(Tasks)
  BY <1>1, <1>2, <1>3
<1>6. ASSUME NEW k \in 1 .. n
      PROVE  \E r \in S : Each(d, S)[k] = Task(d, r)
  BY <1>2, <1>3, <1>6
<1>7. ASSUME NEW k \in 1 .. n, NEW l \in 1 .. n, Each(d, S)[k] = Each(d, S)[l]
      PROVE  k = l
  <2>1. Task(d, q[k]) = Task(d, q[l])
    BY <1>2, <1>7
  <2>2. q[k] = q[l]
    BY <2>1 DEF Task
  <2>3. QED BY <1>4, <2>2
<1>8. QED BY <1>5, <1>6, <1>7

-----------------------------------------------------------------------------
(* Lemmas about types and about what is due.                                  *)

RowType == [state : States, remote : BOOLEAN, dep : Runs \cup {None},
            cancel : BOOLEAN, stale : BOOLEAN, notified : BOOLEAN]
HubType == [st : {"off", "up", "draining", "closing"}, todo : Seq(Tasks), own : SUBSET Runs]
MonType == [by : Hubs \cup {None}, at : {"none", "prep", "start", "poll"},
            answer : {"none", "running", "refused", "unknown"}, gone : BOOLEAN, sent : BOOLEAN]
ProcType == [st : {"none", "alive", "succeeded", "failed", "cancelled"}, starts : Nat]
ToldType == [rows : Seq(States), notices : Nat]

LEMMA Types ==
  TypeOK <=> /\ row \in [Runs -> RowType]
             /\ lease \in [Res -> Runs \cup {None}]
             /\ hub \in [Hubs -> HubType]
             /\ mon \in [Runs -> MonType]
             /\ net \in SUBSET (Runs \X {"start", "cancel"})
             /\ target \in [receipt : [Runs -> {"none", "running"} \cup Ended],
                            jobs : SUBSET Runs, aborted : SUBSET Runs]
             /\ proc \in [Runs -> ProcType]
             /\ told \in [Runs -> ToldType]
             /\ faults \in 0 .. MaxFaults
BY DEF TypeOK, RowType, HubType, MonType, ProcType, ToldType

\* The head of a list of tasks is a task.
LEMMA HeadIsTask ==
  ASSUME TypeOK, NEW h \in Hubs, hub[h].todo # <<>>
  PROVE  /\ hub[h].todo \in Seq(Tasks) /\ 1 \in DOMAIN hub[h].todo
         /\ Head(hub[h].todo) = hub[h].todo[1] /\ Head(hub[h].todo) \in Tasks
         /\ Tail(hub[h].todo) \in Seq(Tasks)
         /\ Head(hub[h].todo) \in Due
<1> USE DEF TypeOK
<1>1. hub[h].todo \in Seq(Tasks)
  OBVIOUS
<1>2. 1 \in DOMAIN hub[h].todo /\ Head(hub[h].todo) = hub[h].todo[1]
      /\ Tail(hub[h].todo) \in Seq(Tasks) /\ Head(hub[h].todo) \in Tasks
  BY <1>1
<1>3. QED BY <1>1, <1>2 DEF Due

\* A task whose duty concerns a run names one.
LEMMA NowIsRun ==
  ASSUME TypeOK, DueOnce, NEW h \in Hubs, NEW d \in {"launch", "journal", "notify", "mark"},
         Do(h, d)
  PROVE  /\ Now(h) \in Runs /\ Task(d, Now(h)) \in Due /\ Head(hub[h].todo) = Task(d, Now(h))
         /\ hub[h].todo # <<>>
<1>1. hub[h].todo # <<>> /\ Head(hub[h].todo).do = d
  BY DEF Do
<1>2. Head(hub[h].todo) \in Tasks /\ Head(hub[h].todo) \in Due
  BY <1>1, HeadIsTask
<1>3. Head(hub[h].todo).run \in Runs
  BY <1>1, <1>2 DEF DueOnce
<1>4. Head(hub[h].todo) = [do |-> d, run |-> Now(h)]
  BY <1>1, <1>2 DEF Tasks, Now
<1>5. QED BY <1>1, <1>2, <1>3, <1>4 DEF Now, Task

\* Tasks put first on one hub's list, in place of its head or of all it had: what must be
\* due once still is, and nothing else became due.
LEMMA TodoStep ==
  ASSUME TypeOK, DueOnce, NEW h \in Hubs, NEW s \in Seq(Tasks), NEW rest \in Seq(Tasks),
         rest = <<>> \/ (hub[h].todo # <<>> /\ rest = Tail(hub[h].todo)),
         \A g \in Hubs : hub'[g].todo = IF g = h THEN s \o rest ELSE hub[g].todo,
         \A k \in DOMAIN s : s[k].do \in Single => s[k] \notin Due,
         \A k, l \in DOMAIN s : s[k].do \in Single /\ s[k] = s[l] => k = l,
         \A k \in DOMAIN s : s[k].do = "launch" => k = 1,
         \A k \in DOMAIN s : s[k].do \notin {"reconcile", "pending", "pump"} => s[k].run \in Runs
  PROVE  /\ DueOnce'
         /\ \A t \in Due' : t \in Due \/ \E k \in DOMAIN s : s[k] = t
         /\ hub[h].todo # <<>> /\ Head(hub[h].todo).do \in Single =>
              Head(hub[h].todo) \notin Due'
<1> DEFINE old == hub[h].todo
           new == s \o rest
           n == Len(s)
<1>1. old \in Seq(Tasks) /\ n \in Nat /\ DOMAIN s = 1 .. n /\ DOMAIN old = 1 .. Len(old)
  BY DEF TypeOK
<1>2. /\ new \in Seq(Tasks) /\ DOMAIN new = 1 .. (n + Len(rest)) /\ Len(rest) \in Nat
      /\ \A i \in 1 .. n : new[i] = s[i]
      /\ \A i \in DOMAIN new : i > n => new[i] = rest[i - n] /\ i - n \in 1 .. Len(rest)
  BY <1>1
<1>3. \A i \in 1 .. Len(rest) : i + 1 \in DOMAIN old /\ rest[i] = old[i + 1]
  <2>1. CASE rest = <<>>
    BY <2>1
  <2>2. CASE old # <<>> /\ rest = Tail(old)
    <3> HIDE DEF old
    <3>1. Len(rest) = Len(old) - 1 /\ \A i \in 1 .. Len(old) - 1 : rest[i] = old[i + 1]
      BY <1>1, <2>2
    <3>2. Len(old) \in Nat /\ Len(old) # 0
      BY <1>1, <2>2
    <3>3. \A i \in 1 .. Len(rest) : i \in 1 .. Len(old) - 1 /\ i + 1 \in 1 .. Len(old)
      BY <3>1, <3>2
    <3>4. QED BY <1>1, <3>1, <3>3
  <2>3. QED BY <2>1, <2>2
<1>4. ASSUME NEW i \in DOMAIN new, i > n
      PROVE  /\ i - n + 1 \in DOMAIN old /\ i - n + 1 # 1 /\ new[i] = old[i - n + 1]
             /\ new[i] \in Due
  <2>1. i - n + 1 \in DOMAIN old /\ new[i] = old[i - n + 1] /\ i - n + 1 # 1
    BY <1>1, <1>2, <1>3, <1>4
  <2>2. old[i - n + 1] \in Tasks
    BY <1>1, <2>1
  <2>3. QED BY <2>1, <2>2 DEF Due
<1>5. ASSUME NEW g \in Hubs, g # h, NEW i \in DOMAIN hub[g].todo
      PROVE  hub'[g].todo = hub[g].todo /\ hub[g].todo[i] \in Due
  <2>1. hub[g].todo[i] \in Tasks
    BY DEF TypeOK
  <2>2. QED BY <1>5, <2>1 DEF Due
<1>6. hub'[h].todo = new
  OBVIOUS
<1>7. \A i \in DOMAIN new : i > n \/ (i \in 1 .. n /\ new[i] = s[i])
  BY <1>1, <1>2
<1>8. ASSUME NEW t \in Due'
      PROVE  t \in Due \/ \E k \in DOMAIN s : s[k] = t
  <2>1. PICK g \in Hubs : \E i \in DOMAIN hub'[g].todo : hub'[g].todo[i] = t
    BY DEF Due
  <2>2. PICK i \in DOMAIN hub'[g].todo : hub'[g].todo[i] = t
    BY <2>1
  <2>3. CASE g = h
    <3>1. i \in DOMAIN new /\ new[i] = t
      BY <1>6, <2>2, <2>3
    <3> HIDE DEF new, n
    <3>2. QED BY <1>1, <1>4, <1>7, <3>1
  <2>4. CASE g # h
    BY <1>5, <2>2, <2>4
  <2>5. QED BY <2>3, <2>4
<1> HIDE DEF old, new, n
<1>9. ASSUME NEW g \in Hubs, NEW f \in Hubs, NEW i \in DOMAIN hub'[g].todo, NEW j \in DOMAIN hub'[f].todo,
             hub'[g].todo[i].do \in Single, hub'[g].todo[i] = hub'[f].todo[j]
      PROVE  g = f /\ i = j
  <2>1. CASE g = h /\ f = h
    <3>1. i \in DOMAIN new /\ j \in DOMAIN new /\ new[i].do \in Single /\ new[i] = new[j]
      BY <1>6, <1>9, <2>1
    <3>2. CASE i \in 1 .. n /\ j \in 1 .. n
      BY <1>1, <1>2, <2>1, <3>1, <3>2
    <3>3. CASE i > n /\ j > n
      <4>1. i - n + 1 = j - n + 1
        BY <1>4, <3>1, <3>3 DEF DueOnce, old
      <4>2. i \in Nat /\ j \in Nat
        BY <1>1, <1>2, <3>1
      <4>3. QED BY <1>1, <2>1, <4>1, <4>2
    <3>4. CASE i \in 1 .. n /\ j > n
      BY <1>1, <1>2, <1>4, <3>1, <3>4
    <3>5. CASE i > n /\ j \in 1 .. n
      BY <1>1, <1>2, <1>4, <3>1, <3>5
    <3>6. QED BY <1>7, <3>1, <3>2, <3>3, <3>4, <3>5
  <2>2. CASE g = h /\ f # h
    <3>1. i \in DOMAIN new /\ new[i].do \in Single /\ new[i] = hub[f].todo[j]
          /\ j \in DOMAIN hub[f].todo /\ new[i] \in Due
      BY <1>5, <1>6, <1>9, <2>2
    <3>2. i > n
      BY <1>1, <1>2, <1>7, <3>1
    <3>3. h = f
      BY <1>4, <3>1, <3>2 DEF DueOnce, old
    <3>4. QED BY <2>2, <3>3
  <2>3. CASE g # h /\ f = h
    <3>1. j \in DOMAIN new /\ new[j].do \in Single /\ new[j] = hub[g].todo[i]
          /\ i \in DOMAIN hub[g].todo /\ new[j] \in Due
      BY <1>5, <1>6, <1>9, <2>3
    <3>2. j > n
      BY <1>1, <1>2, <1>7, <3>1
    <3>3. h = g
      BY <1>4, <3>1, <3>2 DEF DueOnce, old
    <3>4. QED BY <2>3, <3>3
  <2>4. CASE g # h /\ f # h
    BY <1>5, <1>9, <2>4 DEF DueOnce
  <2>5. QED BY <2>1, <2>2, <2>3, <2>4
<1>10. ASSUME NEW g \in Hubs, NEW i \in DOMAIN hub'[g].todo, hub'[g].todo[i].do = "launch"
       PROVE  i = 1
  <2>1. CASE g = h
    <3>1. i \in DOMAIN new /\ new[i].do = "launch"
      BY <1>6, <1>10, <2>1
    <3>2. ~(i > n)
      BY <1>4, <3>1 DEF DueOnce, old
    <3>3. QED BY <1>1, <1>7, <3>1, <3>2
  <2>2. CASE g # h
    BY <1>5, <1>10, <2>2 DEF DueOnce
  <2>3. QED BY <2>1, <2>2
<1>11. ASSUME NEW t \in Due', t.do \notin {"reconcile", "pending", "pump"}
       PROVE  t.run \in Runs
  BY <1>8, <1>11 DEF DueOnce
<1>12. DueOnce'
  BY <1>9, <1>10, <1>11 DEF DueOnce
<1>13. ASSUME old # <<>>, Head(old).do \in Single
       PROVE  Head(old) \notin Due'
  <2> SUFFICES ASSUME Head(old) \in Due' PROVE FALSE
    OBVIOUS
  <2>1. 1 \in DOMAIN old /\ Head(old) = old[1] /\ old[1] \in Due
    BY <1>13, HeadIsTask DEF old
  <2>2. PICK g \in Hubs : \E i \in DOMAIN hub'[g].todo : hub'[g].todo[i] = old[1]
    BY <2>1 DEF Due
  <2>3. PICK i \in DOMAIN hub'[g].todo : hub'[g].todo[i] = old[1]
    BY <2>2
  <2>4. CASE g = h
    <3>1. i \in DOMAIN new /\ new[i] = old[1]
      BY <1>6, <2>3, <2>4
    <3>2. i > n
      BY <1>1, <1>2, <1>7, <1>13, <2>1, <3>1
    <3>3. i - n + 1 = 1
      BY <1>4, <1>13, <2>1, <3>1, <3>2 DEF DueOnce, old
    <3>4. QED BY <1>4, <3>1, <3>2, <3>3
  <2>5. CASE g # h
    <3>1. hub[g].todo[i] = old[1] /\ i \in DOMAIN hub[g].todo
      BY <1>5, <2>3, <2>5
    <3>2. QED BY <1>13, <2>1, <2>5, <3>1 DEF DueOnce, old
  <2>6. QED BY <2>4, <2>5
<1>14. QED BY <1>8, <1>12, <1>13 DEF old

-----------------------------------------------------------------------------
(* What most steps have in common: runs end or stay as they are, and nothing  *)
(* is done that starts a command.                                             *)

CalmTasks == [do : {"reconcile", "pending", "pump", "notify", "mark"}, run : Runs \cup {None}]

\* Nothing that must be due once became due.
DueCalm == \A t \in Due' : t.do \in Single => t \in Due

Moves ==
  \A r \in Runs :
    /\ row'[r].dep = row[r].dep /\ row'[r].remote = row[r].remote
    /\ \/ row'[r].state = row[r].state
       \/ row[r].state \in {"queued", "running"} /\ row'[r].state \in Ended

NoNewStart ==
  \A r \in Runs :
    /\ mon'[r].at = "prep" => mon[r].at = "prep"
    /\ mon[r].at = "none" => mon'[r].at = "none"
    /\ <<r, "start">> \in net' => <<r, "start">> \in net
    /\ target'.receipt[r] = target.receipt[r] /\ proc'[r] = proc[r]
    /\ Task("launch", r) \in Due' => Task("launch", r) \in Due

\* An end is journaled by the step it comes in, and leaves other runs their resources.
Ends ==
  \A r \in Runs :
    /\ row'[r].state = "succeeded" => proc[r].st = "succeeded"
    /\ Task("journal", r) \in Due' => Task("journal", r) \in Due \/ row'[r].state # row[r].state
    /\ row'[r].state = "running" => \A y \in Needs[r] : lease[y] = r => lease'[y] = r

Quietly == DueOnce' /\ Moves /\ NoNewStart /\ Ends

RowsKept == \A r \in Runs : told'[r].rows = told[r].rows /\ told'[r].notices <= 1

LEMMA QuietStarts ==
  ASSUME TypeOK, StartsOnce, PrerequisiteMet, Quietly
  PROVE  StartsOnce' /\ PrerequisiteMet'
<1>1. ASSUME NEW r \in Runs
      PROVE  /\ Startable(r)' => Startable(r)
             /\ Untouched(r) => Untouched(r)'
             /\ Cleared(r) => Cleared(r)'
  <2>1. Startable(r)' => Startable(r)
    BY DEF Startable, OnItsWay, Quietly, NoNewStart
  <2>2. Untouched(r) => Untouched(r)'
    BY DEF Untouched, Quietly, NoNewStart, NoProc
  <2>3. Cleared(r) => Cleared(r)'
    <3>1. row[r].dep \in Runs \cup {None}
      BY DEF TypeOK
    <3>2. row'[r].dep = row[r].dep
      BY DEF Quietly, Moves
    <3>3. ASSUME row[r].dep # None, row[row[r].dep].state = "succeeded"
          PROVE  row'[row[r].dep].state = "succeeded"
      BY <3>1, <3>3 DEF Quietly, Moves
    <3>4. QED BY <3>2, <3>3 DEF Cleared
  <2>4. QED BY <2>1, <2>2, <2>3
<1>2. ASSUME NEW r \in Runs
      PROVE  /\ row'[r].state \in {"none", "queued"} => Untouched(r)' /\ Task("launch", r) \notin Due'
             /\ Task("launch", r) \in Due' => Untouched(r)'
             /\ mon'[r].at = "prep" => <<r, "start">> \notin net' /\ target'.receipt[r] = "none"
             /\ Startable(r)' => proc'[r] = NoProc
             /\ proc'[r].starts <= 1 /\ (proc'[r].starts = 0 <=> proc'[r].st = "none")
  <2>1. row'[r].state \in {"none", "queued"} => row'[r].state = row[r].state
    BY DEF Quietly, Moves, Ended
  <2>2. row[r].state \in {"none", "queued"} => Untouched(r) /\ Task("launch", r) \notin Due
    BY DEF StartsOnce
  <2>3. Task("launch", r) \in Due => Untouched(r)
    BY DEF StartsOnce
  <2>4. mon[r].at = "prep" => <<r, "start">> \notin net /\ target.receipt[r] = "none"
    BY DEF StartsOnce
  <2>5. Startable(r) => proc[r] = NoProc
    BY DEF StartsOnce
  <2>6. proc[r].starts <= 1 /\ (proc[r].starts = 0 <=> proc[r].st = "none")
    BY DEF StartsOnce
  <2>7. QED BY <1>1, <2>1, <2>2, <2>3, <2>4, <2>5, <2>6 DEF Quietly, NoNewStart
<1>3. StartsOnce'
  BY <1>2 DEF StartsOnce, Untouched, NoProc, Startable, OnItsWay
<1>4. ASSUME NEW r \in Runs
      PROVE  /\ target'.receipt[r] \notin {"none", "running"} => proc'[r].st = target'.receipt[r]
             /\ row'[r].state = "succeeded" => proc'[r].st = "succeeded"
             /\ row'[r].dep # None => row'[row'[r].dep].state # "none"
             /\ row'[r].state = "running" \/ Startable(r)' \/ proc'[r].starts > 0 => Cleared(r)'
  <2>1. target'.receipt[r] \notin {"none", "running"} => proc'[r].st = target'.receipt[r]
    BY DEF Quietly, NoNewStart, PrerequisiteMet
  <2>2. row'[r].state = "succeeded" => proc'[r].st = "succeeded"
    BY DEF Quietly, NoNewStart, Ends
  <2>3. row'[r].dep # None => row'[row'[r].dep].state # "none"
    <3>1. row[r].dep \in Runs \cup {None} /\ row'[r].dep = row[r].dep
      BY DEF TypeOK, Quietly, Moves
    <3>2. CASE row[r].dep # None
      <4>1. row[r].dep \in Runs /\ row[row[r].dep].state # "none"
        BY <3>1, <3>2 DEF PrerequisiteMet
      <4>2. QED BY <3>1, <4>1 DEF Quietly, Moves, Ended
    <3>3. QED BY <3>1, <3>2
  <2>4. row'[r].state = "running" \/ Startable(r)' \/ proc'[r].starts > 0 => Cleared(r)'
    <3>1. row'[r].state = "running" => row[r].state = "running"
      BY DEF Quietly, Moves, Ended
    <3>2. proc'[r].starts > 0 => proc[r].starts > 0
      BY DEF Quietly, NoNewStart
    <3>3. QED BY <1>1, <3>1, <3>2 DEF PrerequisiteMet
  <2>5. QED BY <2>1, <2>2, <2>3, <2>4
<1>5. PrerequisiteMet'
  BY <1>4 DEF PrerequisiteMet, Cleared, Startable, OnItsWay
<1>6. QED BY <1>3, <1>5

LEMMA QuietReports ==
  ASSUME TypeOK, Reports, Quietly, RowsKept
  PROVE  Reports'
<1> SUFFICES ASSUME NEW r \in Runs
             PROVE  /\ told'[r].rows \in {<<>>, <<row'[r].state>>} /\ told'[r].notices <= 1
                    /\ row'[r].state \notin Ended =>
                         told'[r].rows = <<>> /\ Task("journal", r) \notin Due'
                    /\ Task("journal", r) \in Due' => told'[r].rows = <<>>
  BY DEF Reports, Task
<1>1. told'[r].rows = told[r].rows /\ told'[r].notices <= 1
  BY DEF RowsKept
<1>2. CASE row'[r].state = row[r].state
  BY <1>1, <1>2 DEF Reports, Quietly, Ends
<1>3. CASE row[r].state \in {"queued", "running"} /\ row'[r].state \in Ended
  <2>1. row[r].state \notin Ended
    BY <1>3 DEF Ended
  <2>2. QED BY <1>1, <1>3, <2>1 DEF Reports
<1>4. QED BY <1>2, <1>3 DEF Quietly, Moves

LEMMA QuietHoldsAll ==
  ASSUME TypeOK, HoldsAll, Quietly
  PROVE  HoldsAll'
BY DEF HoldsAll, Quietly, Moves, Ends, Ended

\* The hubs' lists as they were.
LEMMA DueSame ==
  ASSUME TypeOK, DueOnce, \A h \in Hubs : hub'[h].todo = hub[h].todo
  PROVE  DueOnce' /\ Due' = Due
<1>1. Due' = Due
  BY DEF Due
<1>2. QED BY <1>1 DEF DueOnce

\* Tasks put first that may be due any number of times.
LEMMA CalmStep ==
  ASSUME TypeOK, DueOnce, NEW h \in Hubs, NEW s \in Seq(CalmTasks), NEW rest \in Seq(Tasks),
         rest = <<>> \/ (hub[h].todo # <<>> /\ rest = Tail(hub[h].todo)),
         \A g \in Hubs : hub'[g].todo = IF g = h THEN s \o rest ELSE hub[g].todo,
         \A k \in DOMAIN s : s[k].do \in {"notify", "mark"} => s[k].run \in Runs
  PROVE  /\ DueOnce' /\ DueCalm
         /\ hub[h].todo # <<>> /\ Head(hub[h].todo).do \in Single =>
              Head(hub[h].todo) \notin Due'
<1>1. \A k \in DOMAIN s : s[k].do \in {"reconcile", "pending", "pump", "notify", "mark"} /\ s[k] \in Tasks
  <2>1. \A k \in DOMAIN s : s[k] \in CalmTasks
    OBVIOUS
  <2>2. QED BY <2>1 DEF CalmTasks, Tasks, Duties
<1>2. s \in Seq(Tasks)
  BY <1>1
<1>3. \A k \in DOMAIN s : s[k].do \notin Single
  BY <1>1 DEF Single
<1>4. /\ DueOnce'
      /\ \A t \in Due' : t \in Due \/ \E k \in DOMAIN s : s[k] = t
      /\ hub[h].todo # <<>> /\ Head(hub[h].todo).do \in Single => Head(hub[h].todo) \notin Due'
  BY <1>1, <1>2, <1>3, TodoStep DEF Single
<1>5. QED BY <1>3, <1>4 DEF DueCalm

\* One new end, journaled first by the hub that recorded it.
LEMMA EndStep ==
  ASSUME TypeOK, DueOnce, Reports, NEW h \in Hubs, NEW r \in Runs, row[r].state \notin Ended,
         NEW s \in {<<Task("journal", r)>>, <<Task("journal", r), Pump>>,
                    <<Task("journal", r), Task("pump", r)>>},
         NEW rest \in Seq(Tasks),
         rest = <<>> \/ (hub[h].todo # <<>> /\ rest = Tail(hub[h].todo)),
         \A g \in Hubs : hub'[g].todo = IF g = h THEN s \o rest ELSE hub[g].todo
  PROVE  /\ DueOnce'
         /\ \A t \in Due' : t.do \in Single => t \in Due \/ t = Task("journal", r)
         /\ hub[h].todo # <<>> /\ Head(hub[h].todo).do \in Single =>
              Head(hub[h].todo) \notin Due'
<1>1. Task("journal", r) \in Tasks /\ Task("pump", r) \in Tasks /\ Pump \in Tasks
  BY DEF Task, Tasks, Duties, Pump
<1>2. s \in Seq(Tasks)
  <2>1. <<Task("journal", r)>> \in Seq(Tasks)
    BY <1>1
  <2>2. <<Task("journal", r), Pump>> \in Seq(Tasks)
    BY <1>1
  <2>3. <<Task("journal", r), Task("pump", r)>> \in Seq(Tasks)
    BY <1>1
  <2>4. QED BY <2>1, <2>2, <2>3
<1>3. \A k \in DOMAIN s : (k = 1 /\ s[k] = Task("journal", r)) \/ s[k].do = "pump"
  BY DEF Task, Pump
<1>4. Task("journal", r) \notin Due
  BY DEF Reports
<1>5. \A k \in DOMAIN s : s[k].do \in Single => k = 1 /\ s[k] = Task("journal", r)
  BY <1>3 DEF Single
<1>6. \A k \in DOMAIN s : s[k].do # "launch" /\
        (s[k].do \notin {"reconcile", "pending", "pump"} => s[k].run \in Runs)
  BY <1>3 DEF Task
<1>7. /\ DueOnce'
      /\ \A t \in Due' : t \in Due \/ \E k \in DOMAIN s : s[k] = t
      /\ hub[h].todo # <<>> /\ Head(hub[h].todo).do \in Single => Head(hub[h].todo) \notin Due'
  <2>1. \A k \in DOMAIN s : s[k].do \in Single => s[k] \notin Due
    BY <1>4, <1>5
  <2>2. \A k, l \in DOMAIN s : s[k].do \in Single /\ s[k] = s[l] => k = l
    BY <1>5
  <2>3. QED BY <1>2, <1>6, <2>1, <2>2, TodoStep
<1>8. QED BY <1>5, <1>7

\* The hub had nothing else to do.
LEMMA EndAlone ==
  ASSUME TypeOK, DueOnce, Reports, NEW h \in Hubs, NEW r \in Runs, row[r].state \notin Ended,
         \A g \in Hubs : hub'[g].todo =
           IF g = h THEN <<Task("journal", r), Pump>> ELSE hub[g].todo
  PROVE  DueOnce' /\ \A t \in Due' : t.do \in Single => t \in Due \/ t = Task("journal", r)
<1> DEFINE s == <<Task("journal", r), Pump>>
           none == <<>>
<1>1. s \in Seq(Tasks)
  BY DEF Task, Tasks, Duties, Pump
<1>2. s \o none = s /\ none \in Seq(Tasks)
  BY <1>1
<1>3. \A g \in Hubs : hub'[g].todo = IF g = h THEN s \o none ELSE hub[g].todo
  BY <1>2
<1>4. s \in {<<Task("journal", r)>>, <<Task("journal", r), Pump>>,
            <<Task("journal", r), Task("pump", r)>>}
  OBVIOUS
<1>5. none = <<>>
  OBVIOUS
<1> HIDE DEF none
<1>6. QED BY <1>2, <1>3, <1>4, <1>5, EndStep

\* What activate() and the monitor do is calm.
LEMMA RoundCalm ==
  ASSUME NEW h \in Hubs
  PROVE  /\ Round(h) \in Seq(CalmTasks) /\ Round(h) \in Seq(Tasks)
         /\ \A k \in DOMAIN Round(h) : Round(h)[k].do \notin {"notify", "mark"}
<1> DEFINE C == [do : {"reconcile", "pending", "pump"}, run : Runs \cup {None}]
           a == IF Abandoned(h) # {} THEN <<Task("reconcile", None)>> ELSE <<>>
           b == IF Unnotified # {} THEN <<Task("pending", None)>> ELSE <<>>
           c == IF \E r \in In("queued") : Blocked(r) \/ Claimable(r) THEN <<Pump>> ELSE <<>>
<1>1. Task("reconcile", None) \in C /\ Task("pending", None) \in C /\ Pump \in C
  BY DEF Task, Pump
<1>2. a \in Seq(C) /\ b \in Seq(C) /\ c \in Seq(C)
  <2> HIDE DEF C
  <2>1. QED BY <1>1
<1>3. Round(h) = a \o b \o c
  BY DEF Round
<1>4. Round(h) \in Seq(C)
  <2> HIDE DEF C, a, b, c
  <2>1. QED BY <1>2, <1>3
<1>5. C \subseteq CalmTasks /\ C \subseteq Tasks
  BY DEF CalmTasks, Tasks, Duties
<1>6. \A k \in DOMAIN Round(h) : Round(h)[k] \in C
  <2> HIDE DEF C
  <2>1. QED BY <1>4
<1> HIDE DEF C
<1>7. Round(h) \in Seq(CalmTasks) /\ Round(h) \in Seq(Tasks)
  BY <1>4, <1>5
<1>8. QED BY <1>6, <1>7 DEF C

-----------------------------------------------------------------------------
(* The quiet steps, one by one.                                               *)

LEMMA AfterType ==
  ASSUME TypeOK, NEW h \in Hubs, NEW s \in Seq(Tasks), hub[h].todo # <<>>
  PROVE  /\ After(h, s) \in [Hubs -> HubType]
         /\ \A g \in Hubs : After(h, s)[g].todo = IF g = h THEN s \o Tail(hub[h].todo) ELSE hub[g].todo
         /\ Tail(hub[h].todo) \in Seq(Tasks)
<1>1. hub \in [Hubs -> HubType] /\ hub[h].todo \in Seq(Tasks)
  BY Types DEF HubType
<1>2. Tail(hub[h].todo) \in Seq(Tasks) /\ s \o Tail(hub[h].todo) \in Seq(Tasks)
  BY <1>1
<1>3. After(h, s) = [hub EXCEPT ![h].todo = s \o Tail(hub[h].todo)]
  BY <1>1 DEF After, HubType
<1> DEFINE l == s \o Tail(hub[h].todo)
<1>4. l \in Seq(Tasks) /\ After(h, s) = [hub EXCEPT ![h].todo = l]
  BY <1>2, <1>3
<1> HIDE DEF l
<1>5. After(h, s) \in [Hubs -> HubType] /\ \A g \in Hubs : After(h, s)[g].todo = IF g = h THEN l ELSE hub[g].todo
  BY <1>1, <1>4 DEF HubType
<1>6. QED BY <1>2, <1>5 DEF l

\* The current task done and calm ones put in its place.
LEMMA AfterCalm ==
  ASSUME TypeOK, DueOnce, NEW h \in Hubs, hub[h].todo # <<>>, NEW s \in Seq(CalmTasks),
         hub' = After(h, s),
         \A k \in DOMAIN s : s[k].do \in {"notify", "mark"} => s[k].run \in Runs
  PROVE  /\ hub' \in [Hubs -> HubType] /\ DueOnce' /\ DueCalm
         /\ Head(hub[h].todo).do \in Single => Head(hub[h].todo) \notin Due'
<1>1. s \in Seq(Tasks)
  <2>1. CalmTasks \subseteq Tasks
    BY DEF CalmTasks, Tasks, Duties
  <2> HIDE DEF CalmTasks, Tasks
  <2>2. QED BY <2>1
<1>2. /\ hub' \in [Hubs -> HubType]
      /\ \A g \in Hubs : hub'[g].todo = IF g = h THEN s \o Tail(hub[h].todo) ELSE hub[g].todo
      /\ Tail(hub[h].todo) \in Seq(Tasks)
  BY <1>1, AfterType
<1>3. QED BY <1>2, CalmStep

LEMMA NothingPut == <<>> \in Seq(CalmTasks) /\ DOMAIN <<>> = {}
OBVIOUS

\* Steps that change no run's state, no part of a start and no row of the journal.
LEMMA QuietWhen ==
  ASSUME IInv, DueOnce', DueCalm, NoNewStart,
         \A r \in Runs : /\ row'[r].state = row[r].state /\ row'[r].dep = row[r].dep
                         /\ row'[r].remote = row[r].remote,
         lease' = lease
  PROVE  Quietly
<1>1. Moves
  BY DEF Moves
<1>2. \A r \in Runs : Task("journal", r) \in Due' => Task("journal", r) \in Due
  BY DEF DueCalm, Task, Single
<1>3. Ends
  BY <1>2 DEF Ends, IInv, PrerequisiteMet
<1>4. QED BY <1>1, <1>3 DEF Quietly

\* Nothing of a start is touched.
LEMMA NoStartWhen ==
  ASSUME DueCalm, mon' = mon, net' = net, target' = target, proc' = proc
  PROVE  NoNewStart
BY DEF NoNewStart, DueCalm, Task, Single

LEMMA RowsKeptWhen ==
  ASSUME Reports, told' = told
  PROVE  RowsKept
BY DEF RowsKept, Reports

LEMMA PumpDoneQuiet ==
  ASSUME IInv, NEW h \in Hubs, PumpDone(h)
  PROVE  TypeOK' /\ Quietly /\ RowsKept
<1> USE DEF IInv
<1>1. hub[h].todo # <<>> /\ hub' = After(h, <<>>)
  BY DEF PumpDone, Do, Skip
<1>2. hub' \in [Hubs -> HubType] /\ DueOnce' /\ DueCalm
  BY <1>1, NothingPut, AfterCalm
<1>3. UNCHANGED <<row, lease, mon, net, target, proc, told, faults>>
  BY DEF PumpDone, outside
<1>4. TypeOK'
  BY <1>2, <1>3, Types DEF TypeOK, HubType
<1>5. NoNewStart
  BY <1>2, <1>3, NoStartWhen
<1>6. Quietly
  BY <1>2, <1>3, <1>5, QuietWhen
<1>7. QED BY <1>3, <1>4, <1>6, RowsKeptWhen

LEMMA NotifyFailsQuiet ==
  ASSUME IInv, NEW h \in Hubs, NotifyFails(h)
  PROVE  TypeOK' /\ Quietly /\ RowsKept
<1> USE DEF IInv
<1>1. hub[h].todo # <<>> /\ hub' = After(h, <<>>)
  BY DEF NotifyFails, Do, Skip
<1>2. hub' \in [Hubs -> HubType] /\ DueOnce' /\ DueCalm
  BY <1>1, NothingPut, AfterCalm
<1>3. UNCHANGED <<row, lease, mon, net, target, proc, told>>
  BY DEF NotifyFails, outside
<1>4. faults' \in 0 .. MaxFaults
  BY RunsAssumption DEF NotifyFails, Fault, TypeOK
<1>5. TypeOK'
  BY <1>2, <1>3, <1>4, Types DEF TypeOK, HubType
<1>6. NoNewStart
  BY <1>2, <1>3, NoStartWhen
<1>7. Quietly
  BY <1>2, <1>3, <1>6, QuietWhen
<1>8. QED BY <1>3, <1>5, <1>7, RowsKeptWhen

LEMMA MarkQuiet ==
  ASSUME IInv, NEW h \in Hubs, Mark(h)
  PROVE  TypeOK' /\ Quietly /\ RowsKept
<1> USE DEF IInv
<1>1. hub[h].todo # <<>> /\ hub' = After(h, <<>>) /\ Do(h, "mark")
  BY DEF Mark, Do, Skip
<1>2. hub' \in [Hubs -> HubType] /\ DueOnce' /\ DueCalm
  BY <1>1, NothingPut, AfterCalm
<1>3. UNCHANGED <<lease, mon, net, target, proc, told, faults>>
  BY DEF Mark, outside
<1>4. Now(h) \in Runs
  BY <1>1, NowIsRun
<1>5. row' = [row EXCEPT ![Now(h)].notified = TRUE]
  BY DEF Mark
<1> DEFINE r == Now(h)
<1> HIDE DEF r
<1>6. row \in [Runs -> RowType] /\ row' = [row EXCEPT ![r].notified = TRUE] /\ r \in Runs
  BY <1>4, <1>5, Types DEF r
<1>7. row' \in [Runs -> RowType]
  BY <1>6 DEF RowType
<1>8. \A q \in Runs : /\ row'[q].state = row[q].state /\ row'[q].dep = row[q].dep
                      /\ row'[q].remote = row[q].remote
  BY <1>6 DEF RowType
<1>9. TypeOK'
  BY <1>2, <1>3, <1>7, Types DEF TypeOK, HubType, RowType
<1>10. NoNewStart
  BY <1>2, <1>3, NoStartWhen
<1>11. Quietly
  BY <1>2, <1>3, <1>8, <1>10, QuietWhen
<1>12. QED BY <1>3, <1>9, <1>11, RowsKeptWhen

LEMMA PendingQuiet ==
  ASSUME IInv, NEW h \in Hubs, Pending(h)
  PROVE  TypeOK' /\ Quietly /\ RowsKept
<1> USE DEF IInv
<1> DEFINE s == Each("notify", Unnotified)
<1>1. hub[h].todo # <<>> /\ hub' = After(h, s)
  BY DEF Pending, Do
<1>2. Unnotified \in SUBSET Runs /\ "notify" \in Duties
  BY DEF Unnotified, Terminal, Duties
<1>3. s \in Seq(Tasks) /\ \A k \in DOMAIN s : \E r \in Unnotified : s[k] = Task("notify", r)
  BY <1>2, EachIsEach
<1>4. \A k \in DOMAIN s : s[k] \in CalmTasks /\ s[k].run \in Runs
  BY <1>2, <1>3 DEF CalmTasks, Task
<1>5. s \in Seq(CalmTasks)
  <2> HIDE DEF s, CalmTasks, Tasks
  <2>1. QED BY <1>3, <1>4
<1> HIDE DEF s
<1>6. hub' \in [Hubs -> HubType] /\ DueOnce' /\ DueCalm
  BY <1>1, <1>4, <1>5, AfterCalm
<1>7. UNCHANGED <<row, lease, mon, net, target, proc, told, faults>>
  BY DEF Pending, outside
<1>8. TypeOK'
  BY <1>6, <1>7, Types DEF TypeOK, HubType
<1>9. NoNewStart
  BY <1>6, <1>7, NoStartWhen
<1>10. Quietly
  BY <1>6, <1>7, <1>9, QuietWhen
<1>11. QED BY <1>7, <1>8, <1>10, RowsKeptWhen

LEMMA NotifyQuiet ==
  ASSUME IInv, NEW h \in Hubs, Notify(h)
  PROVE  TypeOK' /\ Quietly /\ RowsKept
<1> USE DEF IInv
<1>1. hub[h].todo # <<>> /\ hub' = After(h, <<Task("mark", Now(h))>>) /\ Do(h, "notify")
  BY DEF Notify, Do
<1>2. Now(h) \in Runs
  BY <1>1, NowIsRun
<1> DEFINE r == Now(h)
           s == <<Task("mark", r)>>
<1>3. Task("mark", r) \in CalmTasks
  BY <1>2 DEF Task, CalmTasks
<1>4. s \in Seq(CalmTasks) /\ \A k \in DOMAIN s : s[k].run \in Runs
  BY <1>2, <1>3 DEF Task
<1> HIDE DEF s
<1>5. hub' \in [Hubs -> HubType] /\ DueOnce' /\ DueCalm
  BY <1>1, <1>4, AfterCalm DEF s
<1>6. UNCHANGED <<row, lease, mon, net, target, proc, faults>>
  BY DEF Notify, outside
<1>7. told' = [told EXCEPT ![r].notices = IF @ = 0 THEN 1 ELSE @]
  BY DEF Notify, Notice
<1> HIDE DEF r
<1>8. told \in [Runs -> ToldType] /\ r \in Runs
  BY <1>2, Types DEF r
<1>9. told' \in [Runs -> ToldType] /\ \A q \in Runs : told'[q].rows = told[q].rows
  BY <1>7, <1>8 DEF ToldType
<1>10. \A q \in Runs : told[q].notices <= 1
  BY DEF Reports
<1>11. \A q \in Runs : told'[q].notices <= 1
  BY <1>7, <1>8, <1>10 DEF ToldType
<1>12. TypeOK'
  BY <1>5, <1>6, <1>9, Types DEF TypeOK, HubType, ToldType
<1>13. NoNewStart
  BY <1>5, <1>6, NoStartWhen
<1>14. Quietly
  BY <1>5, <1>6, <1>13, QuietWhen
<1>15. QED BY <1>9, <1>11, <1>12, <1>14 DEF RowsKept

\* The end of a run is journaled: its one row is there, and no more is due.
LEMMA JournalReports ==
  ASSUME IInv, NEW h \in Hubs, Journal(h)
  PROVE  TypeOK' /\ Quietly /\ Reports'
<1> USE DEF IInv
<1>1. hub[h].todo # <<>> /\ hub' = After(h, <<Task("notify", Now(h))>>) /\ Do(h, "journal")
  BY DEF Journal, Do
<1>2. /\ Now(h) \in Runs /\ Task("journal", Now(h)) \in Due
      /\ Head(hub[h].todo) = Task("journal", Now(h))
  BY <1>1, NowIsRun
<1> DEFINE r == Now(h)
           s == <<Task("notify", r)>>
<1>3. Task("notify", r) \in CalmTasks
  BY <1>2 DEF Task, CalmTasks
<1>4. s \in Seq(CalmTasks) /\ \A k \in DOMAIN s : s[k].run \in Runs
  BY <1>2, <1>3 DEF Task
<1> HIDE DEF s
<1>5. /\ hub' \in [Hubs -> HubType] /\ DueOnce' /\ DueCalm
      /\ Head(hub[h].todo).do \in Single => Head(hub[h].todo) \notin Due'
  BY <1>1, <1>4, AfterCalm DEF s
<1>6. Task("journal", r) \notin Due'
  BY <1>2, <1>5 DEF Task, Single
<1>7. UNCHANGED <<row, lease, mon, net, target, proc, faults>>
  BY DEF Journal, outside
<1>8. told' = [told EXCEPT ![r].rows = Append(@, row[r].state)]
  BY DEF Journal
<1> HIDE DEF r
<1>9. told \in [Runs -> ToldType] /\ r \in Runs /\ row[r].state \in States
  BY <1>2 DEF r, TypeOK, ToldType
<1>10. told[r].rows = <<>> /\ told[r].notices <= 1 /\ row[r].state \in Ended
  BY <1>2, <1>9 DEF Reports, r
<1>11. told' = [told EXCEPT ![r].rows = <<row[r].state>>]
  BY <1>8, <1>9, <1>10 DEF ToldType
<1>12. <<row[r].state>> \in Seq(States)
  BY <1>9
<1> DEFINE l == <<row[r].state>>
<1>13. told' = [told EXCEPT ![r].rows = l] /\ l \in Seq(States)
  BY <1>11, <1>12
<1> HIDE DEF l
<1>14. /\ told' \in [Runs -> ToldType]
       /\ \A q \in Runs : told'[q].notices = told[q].notices
       /\ \A q \in Runs : told'[q].rows = IF q = r THEN l ELSE told[q].rows
  BY <1>9, <1>13 DEF ToldType
<1>15. TypeOK'
  BY <1>5, <1>7, <1>14, Types DEF TypeOK, HubType, ToldType
<1>16. NoNewStart
  BY <1>5, <1>7, NoStartWhen
<1>17. Quietly
  BY <1>5, <1>7, <1>16, QuietWhen
<1>18. ASSUME NEW q \in Runs
       PROVE  /\ told'[q].rows \in {<<>>, <<row'[q].state>>} /\ told'[q].notices <= 1
              /\ row'[q].state \notin Ended =>
                   told'[q].rows = <<>> /\ Task("journal", q) \notin Due'
              /\ Task("journal", q) \in Due' => told'[q].rows = <<>>
  <2>1. CASE q = r
    BY <1>6, <1>7, <1>10, <1>14, <2>1 DEF l
  <2>2. CASE q # r
    <3>1. Task("journal", q) \in Due' => Task("journal", q) \in Due
      BY <1>5 DEF DueCalm, Task, Single
    <3>2. QED BY <1>7, <1>14, <2>2, <3>1 DEF Reports
  <2>3. QED BY <2>1, <2>2
<1>19. Reports'
  BY <1>18 DEF Reports, Task
<1>20. QED BY <1>15, <1>17, <1>19

\* What a run that ends does to its row, and to the leases.
LEMMA RowEnds ==
  ASSUME TypeOK, NEW r \in Runs, NEW s \in Ended, row[r].state \in {"queued", "running"},
         row' = [row EXCEPT ![r].state = s]
  PROVE  /\ row' \in [Runs -> RowType] /\ Moves /\ row'[r].state # row[r].state
         /\ \A q \in Runs : row'[q].state = IF q = r THEN s ELSE row[q].state
<1>1. row \in [Runs -> RowType] /\ s \in States
  BY Types DEF States
<1>2. row' \in [Runs -> RowType] /\ \A q \in Runs : row'[q].state = IF q = r THEN s ELSE row[q].state
  BY <1>1 DEF RowType
<1>3. \A q \in Runs : row'[q].dep = row[q].dep /\ row'[q].remote = row[q].remote
  BY <1>1 DEF RowType
<1>4. QED BY <1>2, <1>3 DEF Moves, Ended

LEMMA FreedType ==
  ASSUME TypeOK, NEW S
  PROVE  /\ Freed(S) \in [Res -> Runs \cup {None}]
         /\ \A y \in Res : lease[y] \notin S => Freed(S)[y] = lease[y]
BY DEF Freed, TypeOK

LEMMA FailBlockedQuiet ==
  ASSUME IInv, NEW h \in Hubs, NEW r \in Runs, FailBlocked(h, r)
  PROVE  TypeOK' /\ Quietly /\ RowsKept /\ row[r].state = "queued"
<1> USE DEF IInv
<1> DEFINE s == <<Task("journal", r), Task("pump", r)>>
<1>1. hub[h].todo # <<>> /\ hub' = After(h, s) /\ Do(h, "pump") /\ row[r].state = "queued"
  BY DEF FailBlocked, Turn, Do, Ahead, In
<1>2. s \in Seq(Tasks)
  BY DEF Task, Tasks, Duties
<1>3. /\ hub' \in [Hubs -> HubType] /\ Tail(hub[h].todo) \in Seq(Tasks)
      /\ \A g \in Hubs : hub'[g].todo = IF g = h THEN s \o Tail(hub[h].todo) ELSE hub[g].todo
  BY <1>1, <1>2, AfterType
<1>4. row[r].state \notin Ended
  BY <1>1 DEF Ended
<1>5. DueOnce' /\ \A t \in Due' : t.do \in Single => t \in Due \/ t = Task("journal", r)
  BY <1>1, <1>3, <1>4, EndStep
<1>6. UNCHANGED <<lease, mon, net, target, proc, told, faults>>
  BY DEF FailBlocked, outside
<1>7. /\ row' \in [Runs -> RowType] /\ Moves /\ row'[r].state # row[r].state
      /\ \A q \in Runs : row'[q].state = IF q = r THEN "failed" ELSE row[q].state
  BY <1>1, RowEnds DEF FailBlocked, Ended
<1>8. TypeOK'
  BY <1>3, <1>6, <1>7, Types DEF TypeOK, HubType, RowType
<1>9. NoNewStart
  BY <1>5, <1>6 DEF NoNewStart, Task, Single
<1>10. Ends
  <2>1. \A q \in Runs : Task("journal", q) \in Due' =>
          Task("journal", q) \in Due \/ row'[q].state # row[q].state
    BY <1>5, <1>7 DEF Task, Single
  <2>2. \A q \in Runs : row'[q].state = "succeeded" => proc[q].st = "succeeded"
    BY <1>7 DEF PrerequisiteMet
  <2>3. QED BY <1>6, <2>1, <2>2 DEF Ends
<1>11. QED BY <1>1, <1>5, <1>6, <1>7, <1>8, <1>9, <1>10, RowsKeptWhen DEF Quietly

LEMMA ReconcileQuiet ==
  ASSUME IInv, NEW h \in Hubs, Reconcile(h)
  PROVE  TypeOK' /\ Quietly /\ RowsKept
         /\ \A r \in Runs : row'[r].state # row[r].state => row'[r].state = "outcome_unknown"
<1> USE DEF IInv
<1> DEFINE S == Abandoned(h)
           s == Each("journal", S)
<1>1. hub[h].todo # <<>> /\ hub' = After(h, s)
  BY DEF Reconcile, Do
<1>2. S \in SUBSET Runs /\ "journal" \in Duties /\ \A r \in S : row[r].state = "running"
  BY DEF Abandoned, Duties, In
<1>3. /\ s \in Seq(Tasks)
      /\ \A k \in DOMAIN s : \E r \in S : s[k] = Task("journal", r)
      /\ \A k, l \in DOMAIN s : s[k] = s[l] => k = l
  BY <1>2, EachIsEach
<1>4. UNCHANGED <<mon, net, target, proc, told, faults>>
  BY DEF Reconcile, outside
<1>5. row' = [r \in Runs |-> IF r \in S THEN [row[r] EXCEPT !.state = "outcome_unknown"] ELSE row[r]]
  BY DEF Reconcile
<1>6. lease' = Freed(S)
  BY DEF Reconcile
<1> HIDE DEF S, s
<1>7. /\ hub' \in [Hubs -> HubType] /\ Tail(hub[h].todo) \in Seq(Tasks)
      /\ \A g \in Hubs : hub'[g].todo = IF g = h THEN s \o Tail(hub[h].todo) ELSE hub[g].todo
  BY <1>1, <1>3, AfterType
<1>8. \A r \in S : Task("journal", r) \notin Due /\ row[r].state \notin Ended
  BY <1>2 DEF Reports, Ended
<1>9. DueOnce' /\ \A t \in Due' : t \in Due \/ \E k \in DOMAIN s : s[k] = t
  <2>1. \A k \in DOMAIN s : s[k] \notin Due
    BY <1>3, <1>8
  <2>2. \A k \in DOMAIN s : s[k].do = "journal" /\ s[k].run \in Runs
    BY <1>2, <1>3 DEF Task
  <2>3. QED BY <1>1, <1>3, <1>7, <2>1, <2>2, TodoStep
<1>10. \A t \in Due' : t \in Due \/ \E r \in S : t = Task("journal", r)
  BY <1>3, <1>9
<1>11. row \in [Runs -> RowType]
  BY Types
<1>12. row' \in [Runs -> RowType]
  BY <1>5, <1>11 DEF RowType, States, Ended
<1>13. \A q \in Runs : /\ row'[q].state = IF q \in S THEN "outcome_unknown" ELSE row[q].state
                       /\ row'[q].dep = row[q].dep /\ row'[q].remote = row[q].remote
  BY <1>5, <1>11 DEF RowType
<1>14. Moves
  BY <1>2, <1>13 DEF Moves, Ended
<1>15. lease' \in [Res -> Runs \cup {None}] /\ \A y \in Res : lease[y] \notin S => lease'[y] = lease[y]
  BY <1>6, FreedType
<1>16. TypeOK'
  BY <1>4, <1>7, <1>12, <1>15, Types DEF TypeOK, HubType, RowType
<1>17. NoNewStart
  BY <1>4, <1>10 DEF NoNewStart, Task
<1>18. Ends
  <2>1. \A q \in Runs : Task("journal", q) \in Due' =>
          Task("journal", q) \in Due \/ row'[q].state # row[q].state
    BY <1>2, <1>10, <1>13 DEF Task
  <2>2. \A q \in Runs : row'[q].state = "succeeded" => proc[q].st = "succeeded"
    BY <1>13 DEF PrerequisiteMet
  <2>3. \A q \in Runs : row'[q].state = "running" => \A y \in Needs[q] : lease[y] = q => lease'[y] = q
    BY <1>13, <1>15, RunsAssumption
  <2>4. QED BY <2>1, <2>2, <2>3 DEF Ends
<1>19. QED BY <1>4, <1>9, <1>13, <1>14, <1>16, <1>17, <1>18, RowsKeptWhen DEF Quietly

\* A hub takes up a round of work, whatever it had to do before.
LEMMA RoundStep ==
  ASSUME IInv, NEW h \in Hubs,
         \A g \in Hubs : hub'[g].todo = IF g = h THEN Round(h) ELSE hub[g].todo
  PROVE  DueOnce' /\ DueCalm
<1> USE DEF IInv
<1> DEFINE s == Round(h)
           rest == <<>>
<1>1. /\ s \in Seq(CalmTasks) /\ s \in Seq(Tasks)
      /\ \A k \in DOMAIN s : s[k].do \notin {"notify", "mark"}
  BY RoundCalm
<1> HIDE DEF s
<1>2. s \o rest = s /\ rest \in Seq(Tasks)
  BY <1>1
<1>3. \A g \in Hubs : hub'[g].todo = IF g = h THEN s \o rest ELSE hub[g].todo
  BY <1>2 DEF s
<1>4. QED BY <1>1, <1>2, <1>3, CalmStep

LEMMA TickQuiet ==
  ASSUME IInv, NEW h \in Hubs, Tick(h)
  PROVE  TypeOK' /\ Quietly /\ RowsKept
<1> USE DEF IInv
<1>1. hub' = [hub EXCEPT ![h].todo = Round(h)]
  BY DEF Tick
<1>2. hub \in [Hubs -> HubType] /\ Round(h) \in Seq(Tasks)
  BY Types, RoundCalm
<1>3. hub' \in [Hubs -> HubType]
  BY <1>1, <1>2 DEF HubType
<1>4. \A g \in Hubs : hub'[g].todo = IF g = h THEN Round(h) ELSE hub[g].todo
  BY <1>1, <1>2 DEF HubType
<1>5. DueOnce' /\ DueCalm
  BY <1>4, RoundStep
<1>6. UNCHANGED <<row, lease, mon, net, target, proc, told, faults>>
  BY DEF Tick, outside
<1>7. TypeOK'
  BY <1>3, <1>6, Types DEF TypeOK, HubType
<1>8. NoNewStart
  BY <1>5, <1>6, NoStartWhen
<1>9. Quietly
  BY <1>5, <1>6, <1>8, QuietWhen
<1>10. QED BY <1>6, <1>7, <1>9, RowsKeptWhen

LEMMA BootQuiet ==
  ASSUME IInv, NEW h \in Hubs, Boot(h)
  PROVE  TypeOK' /\ Quietly /\ RowsKept
<1> USE DEF IInv
<1>1. hub' = [hub EXCEPT ![h].st = "up", ![h].todo = Round(h)]
  BY DEF Boot
<1>2. hub \in [Hubs -> HubType] /\ Round(h) \in Seq(Tasks)
  BY Types, RoundCalm
<1>3. hub' \in [Hubs -> HubType]
  <2> DEFINE l == Round(h)
  <2>1. hub' = [hub EXCEPT ![h].st = "up", ![h].todo = l] /\ l \in Seq(Tasks)
    BY <1>1, <1>2
  <2> HIDE DEF l
  <2>2. QED BY <1>2, <2>1 DEF HubType
<1>4. \A g \in Hubs : hub'[g].todo = IF g = h THEN Round(h) ELSE hub[g].todo
  BY <1>1, <1>2 DEF HubType
<1>5. DueOnce' /\ DueCalm
  BY <1>4, RoundStep
<1>6. UNCHANGED <<row, lease, mon, net, target, proc, told, faults>>
  BY DEF Boot, outside
<1>7. TypeOK'
  BY <1>3, <1>6, Types DEF TypeOK, HubType
<1>8. NoNewStart
  BY <1>5, <1>6, NoStartWhen
<1>9. Quietly
  BY <1>5, <1>6, <1>8, QuietWhen
<1>10. QED BY <1>6, <1>7, <1>9, RowsKeptWhen

LEMMA TakeOverQuiet ==
  ASSUME IInv, NEW h \in Hubs, NEW g \in Hubs, TakeOver(h, g)
  PROVE  TypeOK' /\ Quietly /\ RowsKept
<1> USE DEF IInv
<1>1. hub' = [hub EXCEPT ![h].st = "up", ![h].todo = Round(h), ![g].st = "draining"]
  BY DEF TakeOver
<1>2. hub \in [Hubs -> HubType] /\ Round(h) \in Seq(Tasks)
  BY Types, RoundCalm
<1>3. hub' \in [Hubs -> HubType]
  <2> DEFINE l == Round(h)
             m == [hub EXCEPT ![h].st = "up", ![h].todo = l]
  <2>1. hub' = [m EXCEPT ![g].st = "draining"] /\ l \in Seq(Tasks)
    BY <1>1, <1>2
  <2> HIDE DEF l
  <2>2. m \in [Hubs -> HubType]
    BY <1>2, <2>1 DEF HubType
  <2> HIDE DEF m
  <2>3. QED BY <2>1, <2>2 DEF HubType
<1>4. \A f \in Hubs : hub'[f].todo = IF f = h THEN Round(h) ELSE hub[f].todo
  BY <1>1, <1>2 DEF HubType
<1>5. DueOnce' /\ DueCalm
  BY <1>4, RoundStep
<1>6. UNCHANGED <<row, lease, mon, net, target, proc, told>>
  BY DEF TakeOver, outside
<1>7. faults' \in 0 .. MaxFaults
  BY RunsAssumption DEF TakeOver, Fault, TypeOK
<1>8. TypeOK'
  BY <1>3, <1>6, <1>7, Types DEF TypeOK, HubType
<1>9. NoNewStart
  BY <1>5, <1>6, NoStartWhen
<1>10. Quietly
  BY <1>5, <1>6, <1>9, QuietWhen
<1>11. QED BY <1>6, <1>8, <1>10, RowsKeptWhen

\* A process's commands are forgotten with its memory.
LEMMA LosesType ==
  ASSUME TypeOK, NEW h \in Hubs, Loses(h)
  PROVE  /\ mon' \in [Runs -> MonType]
         /\ \A r \in Runs : mon'[r] = IF mon[r].by = h THEN NoMon ELSE mon[r]
<1>1. NoMon \in MonType
  BY DEF NoMon, MonType
<1>2. mon \in [Runs -> MonType] /\ mon' = [r \in Runs |-> IF mon[r].by = h THEN NoMon ELSE mon[r]]
  BY Types DEF Loses
<1> HIDE DEF NoMon, MonType
<1>3. QED BY <1>1, <1>2

LEMMA NoStartForgotten ==
  ASSUME DueCalm, net' = net, target' = target, proc' = proc,
         \A r \in Runs : mon'[r] = mon[r] \/ mon'[r] = NoMon
  PROVE  NoNewStart
<1>1. NoMon.at = "none"
  BY DEF NoMon
<1>2. QED BY <1>1 DEF NoNewStart, DueCalm, Task, Single

LEMMA ShutdownQuiet ==
  ASSUME IInv, NEW h \in Hubs, Shutdown(h)
  PROVE  TypeOK' /\ Quietly /\ RowsKept
<1> USE DEF IInv
<1>1. hub' = [hub EXCEPT ![h].st = "closing", ![h].own = {}] /\ hub \in [Hubs -> HubType]
  BY Types DEF Shutdown
<1>2. hub' \in [Hubs -> HubType] /\ \A g \in Hubs : hub'[g].todo = hub[g].todo
  BY <1>1 DEF HubType
<1>3. DueOnce' /\ DueCalm
  BY <1>2, DueSame DEF DueCalm
<1>4. UNCHANGED <<row, lease, net, target, proc, told>>
  BY DEF Shutdown, outside
<1>5. faults' \in 0 .. MaxFaults
  BY RunsAssumption DEF Shutdown, Fault, TypeOK
<1>6. /\ mon' \in [Runs -> MonType]
      /\ \A r \in Runs : mon'[r] = IF mon[r].by = h THEN NoMon ELSE mon[r]
  BY LosesType DEF Shutdown
<1>7. TypeOK'
  BY <1>2, <1>4, <1>5, <1>6, Types DEF TypeOK, HubType, MonType
<1>8. NoNewStart
  BY <1>3, <1>4, <1>6, NoStartForgotten
<1>9. Quietly
  BY <1>3, <1>4, <1>8, QuietWhen
<1>10. QED BY <1>4, <1>7, <1>9, RowsKeptWhen

LEMMA KillQuiet ==
  ASSUME IInv, NEW h \in Hubs, Kill(h)
  PROVE  TypeOK' /\ Quietly /\ RowsKept
<1> USE DEF IInv
<1> DEFINE s == <<>>
           rest == <<>>
<1>1. hub' = [hub EXCEPT ![h] = [st |-> "off", todo |-> <<>>, own |-> {}]] /\ hub \in [Hubs -> HubType]
  BY Types DEF Kill
<1>2. <<>> \in Seq(Tasks) /\ <<>> \in Seq(CalmTasks) /\ s \o rest = <<>> /\ DOMAIN s = {}
  OBVIOUS
<1>3. hub' \in [Hubs -> HubType] /\ \A g \in Hubs : hub'[g].todo = IF g = h THEN s \o rest ELSE hub[g].todo
  BY <1>1, <1>2 DEF HubType
<1>4. DueOnce' /\ DueCalm
  <2> HIDE DEF s, rest
  <2>1. s \in Seq(CalmTasks) /\ rest \in Seq(Tasks) /\ rest = <<>> /\ DOMAIN s = {}
    BY <1>2 DEF s, rest
  <2>2. QED BY <1>3, <2>1, CalmStep
<1>5. UNCHANGED <<row, lease, net, target, proc, told>>
  BY DEF Kill, outside
<1>6. faults' \in 0 .. MaxFaults
  BY RunsAssumption DEF Kill, Fault, TypeOK
<1>7. /\ mon' \in [Runs -> MonType]
      /\ \A r \in Runs : mon'[r] = IF mon[r].by = h THEN NoMon ELSE mon[r]
  BY LosesType DEF Kill
<1>8. TypeOK'
  BY <1>3, <1>5, <1>6, <1>7, Types DEF TypeOK, HubType, MonType
<1>9. NoNewStart
  BY <1>4, <1>5, <1>7, NoStartForgotten
<1>10. Quietly
  BY <1>4, <1>5, <1>9, QuietWhen
<1>11. QED BY <1>5, <1>8, <1>10, RowsKeptWhen

LEMMA RebindQuiet ==
  ASSUME IInv, NEW h \in Hubs, Rebind(h)
  PROVE  TypeOK' /\ Quietly /\ RowsKept
<1> USE DEF IInv
<1>1. hub' = [hub EXCEPT ![h].st = "up"] /\ hub \in [Hubs -> HubType]
  BY Types DEF Rebind
<1>2. hub' \in [Hubs -> HubType] /\ \A g \in Hubs : hub'[g].todo = hub[g].todo
  BY <1>1 DEF HubType
<1>3. DueOnce' /\ DueCalm
  BY <1>2, DueSame DEF DueCalm
<1>4. UNCHANGED <<row, lease, mon, net, target, proc, told, faults>>
  BY DEF Rebind, outside
<1>5. TypeOK'
  BY <1>2, <1>4, Types DEF TypeOK, HubType
<1>6. NoNewStart
  BY <1>3, <1>4, NoStartWhen
<1>7. Quietly
  BY <1>3, <1>4, <1>6, QuietWhen
<1>8. QED BY <1>4, <1>5, <1>7, RowsKeptWhen

\* Heartbeats, and their absence.
LEMMA StaleQuiet ==
  ASSUME IInv, NEW r \in Runs, NEW b \in BOOLEAN, row' = [row EXCEPT ![r].stale = b],
         UNCHANGED <<lease, hub, mon, outside, told>>, faults' \in 0 .. MaxFaults
  PROVE  TypeOK' /\ Quietly /\ RowsKept
<1> USE DEF IInv
<1>1. row \in [Runs -> RowType]
  BY Types
<1>2. row' \in [Runs -> RowType]
      /\ \A q \in Runs : /\ row'[q].state = row[q].state /\ row'[q].dep = row[q].dep
                         /\ row'[q].remote = row[q].remote
  BY <1>1 DEF RowType
<1>3. DueOnce' /\ DueCalm
  BY DueSame DEF DueCalm
<1>4. TypeOK'
  BY <1>2, Types DEF TypeOK, RowType, outside
<1>5. NoNewStart
  BY <1>3, NoStartWhen DEF outside
<1>6. Quietly
  BY <1>2, <1>3, <1>5, QuietWhen
<1>7. QED BY <1>4, <1>6, RowsKeptWhen

LEMMA HeartbeatsQuiet ==
  ASSUME IInv, NEW h \in Hubs, NEW r \in Runs, Heartbeat(h, r)
  PROVE  TypeOK' /\ Quietly /\ RowsKept
<1>1. faults \in 0 .. MaxFaults
  BY DEF IInv, TypeOK
<1>2. QED BY <1>1, StaleQuiet DEF Heartbeat

LEMMA TimeQuiet ==
  ASSUME IInv, NEW r \in Runs, GoStale(r) \/ Sleep(r)
  PROVE  TypeOK' /\ Quietly /\ RowsKept
<1>1. faults \in 0 .. MaxFaults /\ MaxFaults \in Nat
  BY RunsAssumption DEF IInv, TypeOK
<1>2. CASE GoStale(r)
  BY <1>1, <1>2, StaleQuiet DEF GoStale
<1>3. CASE Sleep(r)
  <2>1. faults' \in 0 .. MaxFaults
    BY <1>1, <1>3 DEF Sleep, Fault
  <2>2. QED BY <1>3, <2>1, StaleQuiet DEF Sleep
<1>4. QED BY <1>2, <1>3

\* A cancelled run had not begun, or goes on.
LEMMA CancelQuiet ==
  ASSUME IInv, NEW h \in Hubs, NEW r \in Runs, Cancel(h, r)
  PROVE  /\ TypeOK' /\ Quietly /\ RowsKept
         /\ \A q \in Runs : row'[q].state # row[q].state =>
              q = r /\ row[q].state = "queued" /\ row'[q].state = "cancelled"
<1> USE DEF IInv
<1>1. UNCHANGED <<lease, mon, net, target, proc, told, faults>> /\ row \in [Runs -> RowType]
      /\ hub \in [Hubs -> HubType]
  BY Types DEF Cancel, outside
<1>2. CASE /\ row[r].state = "queued"
           /\ row' = [row EXCEPT ![r].state = "cancelled", ![r].cancel = TRUE]
           /\ hub' = [hub EXCEPT ![h].todo = <<Task("journal", r), Pump>>]
  <2> DEFINE s == <<Task("journal", r), Pump>>
  <2>1. s \in Seq(Tasks)
    BY DEF Task, Tasks, Duties, Pump
  <2>2. hub' = [hub EXCEPT ![h].todo = s]
    BY <1>2
  <2> HIDE DEF s
  <2>3. hub' \in [Hubs -> HubType] /\ \A g \in Hubs : hub'[g].todo = IF g = h THEN s ELSE hub[g].todo
    BY <1>1, <2>1, <2>2 DEF HubType
  <2>4. row[r].state \notin Ended
    BY <1>2 DEF Ended
  <2>5. DueOnce' /\ \A t \in Due' : t.do \in Single => t \in Due \/ t = Task("journal", r)
    BY <2>3, <2>4, EndAlone DEF s
  <2>6. row' \in [Runs -> RowType]
    BY <1>1, <1>2 DEF RowType, States, Ended
  <2>7. \A q \in Runs : /\ row'[q].state = IF q = r THEN "cancelled" ELSE row[q].state
                        /\ row'[q].dep = row[q].dep /\ row'[q].remote = row[q].remote
    BY <1>1, <1>2 DEF RowType
  <2>8. Moves
    BY <1>2, <2>7 DEF Moves, Ended
  <2>9. TypeOK'
    BY <1>1, <2>3, <2>6, Types DEF TypeOK, HubType, RowType
  <2>10. NoNewStart
    BY <1>1, <2>5 DEF NoNewStart, Task, Single
  <2>11. Ends
    <3>1. \A q \in Runs : Task("journal", q) \in Due' =>
            Task("journal", q) \in Due \/ row'[q].state # row[q].state
      <4>1. row'[r].state = "cancelled" /\ row[r].state = "queued"
        BY <1>2, <2>7
      <4>2. \A q \in Runs : Task("journal", q) \in Due' => Task("journal", q) \in Due \/ q = r
        BY <2>5 DEF Task, Single
      <4>3. QED BY <4>1, <4>2
    <3>2. \A q \in Runs : row'[q].state = "succeeded" => proc[q].st = "succeeded"
      BY <2>7 DEF PrerequisiteMet
    <3>3. QED BY <1>1, <3>1, <3>2 DEF Ends
  <2>12. QED BY <1>1, <1>2, <2>5, <2>7, <2>8, <2>9, <2>10, <2>11, RowsKeptWhen DEF Quietly
<1>3. CASE row' = [row EXCEPT ![r].cancel = TRUE] /\ UNCHANGED hub
  <2>1. row' \in [Runs -> RowType]
        /\ \A q \in Runs : /\ row'[q].state = row[q].state /\ row'[q].dep = row[q].dep
                           /\ row'[q].remote = row[q].remote
    BY <1>1, <1>3 DEF RowType
  <2>2. DueOnce' /\ DueCalm
    BY <1>3, DueSame DEF DueCalm
  <2>3. TypeOK'
    BY <1>1, <1>3, <2>1, Types DEF TypeOK, RowType
  <2>4. NoNewStart
    BY <1>1, <2>2, NoStartWhen
  <2>5. Quietly
    BY <1>1, <2>1, <2>2, <2>4, QuietWhen
  <2>6. QED BY <1>1, <2>1, <2>3, <2>5, RowsKeptWhen
<1>4. QED BY <1>2, <1>3 DEF Cancel

-----------------------------------------------------------------------------
(* Ends recorded by finish(), and the watch over remote commands.             *)

\* What finish() may change: one running run ends, with its journal row due.
Finished(r, s) ==
  /\ row' \in [Runs -> RowType] /\ lease' \in [Res -> Runs \cup {None}]
  /\ hub' \in [Hubs -> HubType] /\ DueOnce' /\ Moves
  /\ \A t \in Due' : t.do \in Single => t \in Due \/ (t = Task("journal", r) /\ row[r].state = "running")
  /\ \A q \in Runs : row'[q].state = IF q = r /\ row[r].state = "running" THEN s ELSE row[q].state
  /\ \A q \in Runs : q # r => \A y \in Res : lease[y] = q => lease'[y] = q

LEMMA FinishStep ==
  ASSUME IInv, NEW h \in Hubs, NEW r \in Runs, NEW s \in Ended, Finish(h, r, s)
  PROVE  Finished(r, s)
<1> USE DEF IInv
<1>1. /\ row \in [Runs -> RowType] /\ hub \in [Hubs -> HubType] /\ lease \in [Res -> Runs \cup {None}]
      /\ r \in hub[h].own
  BY Types DEF Finish
<1>2. CASE row[r].state = "running"
  <2> DEFINE l == <<Task("journal", r), Pump>>
             o == hub[h].own \ {r}
  <2>1. /\ row' = [row EXCEPT ![r].state = s] /\ lease' = Freed({r})
        /\ hub' = [hub EXCEPT ![h].own = o, ![h].todo = l]
    BY <1>1, <1>2 DEF Finish, HubType
  <2>2. l \in Seq(Tasks) /\ o \in SUBSET Runs
    BY <1>1 DEF Task, Tasks, Duties, Pump, HubType
  <2> HIDE DEF l, o
  <2>3. hub' \in [Hubs -> HubType] /\ \A g \in Hubs : hub'[g].todo = IF g = h THEN l ELSE hub[g].todo
    BY <1>1, <2>1, <2>2 DEF HubType
  <2>4. row[r].state \notin Ended
    BY <1>2 DEF Ended
  <2>5. DueOnce' /\ \A t \in Due' : t.do \in Single => t \in Due \/ t = Task("journal", r)
    BY <2>3, <2>4, EndAlone DEF l
  <2>6. /\ row' \in [Runs -> RowType] /\ Moves
        /\ \A q \in Runs : row'[q].state = IF q = r THEN s ELSE row[q].state
    BY <1>2, <2>1, RowEnds
  <2>7. lease' \in [Res -> Runs \cup {None}] /\ \A y \in Res : lease[y] # r => lease'[y] = lease[y]
    BY <2>1, FreedType
  <2>8. QED BY <1>2, <2>3, <2>5, <2>6, <2>7 DEF Finished
<1>3. CASE row[r].state # "running"
  <2> DEFINE l == <<Pump>>
             rest == <<>>
             o == hub[h].own \ {r}
  <2>1. row' = row /\ lease' = lease /\ hub' = [hub EXCEPT ![h].own = o, ![h].todo = l]
    BY <1>1, <1>3 DEF Finish, HubType
  <2>2. /\ l \in Seq(Tasks) /\ l \in Seq(CalmTasks) /\ o \in SUBSET Runs /\ rest \in Seq(Tasks)
        /\ l \o rest = l /\ rest = <<>>
    BY <1>1 DEF Task, Tasks, Duties, Pump, HubType, CalmTasks
  <2>3. \A k \in DOMAIN l : l[k].do \notin {"notify", "mark"}
    BY DEF Pump, Task
  <2> HIDE DEF l, o, rest
  <2>4. hub' \in [Hubs -> HubType] /\ \A g \in Hubs : hub'[g].todo = IF g = h THEN l \o rest ELSE hub[g].todo
    BY <1>1, <2>1, <2>2 DEF HubType
  <2>5. DueOnce' /\ DueCalm
    BY <2>2, <2>3, <2>4, CalmStep
  <2>6. QED BY <1>1, <1>3, <2>1, <2>4, <2>5 DEF Finished, Moves, DueCalm
<1>4. QED BY <1>2, <1>3

\* A recorded end is true when a recorded success is.
LEMMA FinishedQuiet ==
  ASSUME IInv, NEW r \in Runs, NEW s \in Ended, Finished(r, s),
         s = "succeeded" => proc[r].st = "succeeded",
         NoNewStart, told' = told, mon' \in [Runs -> MonType],
         UNCHANGED <<net, target, proc, faults>>
  PROVE  TypeOK' /\ Quietly /\ RowsKept
<1> USE DEF IInv
<1>1. TypeOK'
  BY Types DEF Finished, TypeOK, RowType, HubType, MonType
<1>2. \A q \in Runs : row'[q].state = "succeeded" => proc[q].st = "succeeded"
  BY DEF Finished, PrerequisiteMet
<1>3. \A q \in Runs : Task("journal", q) \in Due' => Task("journal", q) \in Due \/ row'[q].state # row[q].state
  <2> SUFFICES ASSUME NEW q \in Runs, Task("journal", q) \in Due', Task("journal", q) \notin Due
               PROVE  row'[q].state # row[q].state
    OBVIOUS
  <2>1. q = r /\ row[r].state = "running"
    BY DEF Finished, Task, Single
  <2>2. row'[r].state = s
    BY <2>1 DEF Finished
  <2>3. QED BY <2>1, <2>2 DEF Ended
<1>4. \A q \in Runs : row'[q].state = "running" => \A y \in Needs[q] : lease[y] = q => lease'[y] = q
  <2> SUFFICES ASSUME NEW q \in Runs, row'[q].state = "running", NEW y \in Needs[q], lease[y] = q
               PROVE  lease'[y] = q
    OBVIOUS
  <2>1. q # r
    <3>1. row'[r].state = IF row[r].state = "running" THEN s ELSE row[r].state
      BY DEF Finished
    <3>2. row'[r].state # "running"
      BY <3>1 DEF Ended
    <3>3. QED BY <3>2
  <2>2. y \in Res
    BY RunsAssumption
  <2>3. QED BY <2>1, <2>2 DEF Finished
<1>5. Ends
  BY <1>2, <1>3, <1>4 DEF Ends
<1>6. QED BY <1>1, <1>5, RowsKeptWhen DEF Finished, Quietly

LEMMA FinishedNoStart ==
  ASSUME IInv, NEW r \in Runs, NEW s, Finished(r, s), UNCHANGED <<net, target, proc>>,
         \A q \in Runs : mon'[q] = mon[q] \/ mon'[q] = NoMon
  PROVE  NoNewStart
<1>1. NoMon.at = "none"
  BY DEF NoMon
<1>2. \A q \in Runs : Task("launch", q) \in Due' => Task("launch", q) \in Due
  BY DEF Finished, Task, Single
<1>3. QED BY <1>1, <1>2 DEF NoNewStart

LEMMA SettleQuiet ==
  ASSUME IInv, NEW h \in Hubs, NEW r \in Runs, Settle(h, r)
  PROVE  /\ TypeOK' /\ Quietly /\ RowsKept
         /\ \E s \in Ended : Finished(r, s) /\ s \in {"cancelled", proc[r].st}
         /\ proc[r].st \notin {"none", "alive"}
<1> USE DEF IInv
<1> DEFINE s == IF row[r].cancel THEN "cancelled" ELSE proc[r].st
<1>1. proc[r].st \in {"succeeded", "failed", "cancelled"}
  BY DEF Settle, TypeOK
<1>2. s \in Ended /\ s \in {"cancelled", proc[r].st} /\ (s = "succeeded" => proc[r].st = "succeeded")
  BY <1>1 DEF Ended
<1>3. Finish(h, r, s) /\ UNCHANGED <<mon, net, target, proc, told, faults>>
  BY DEF Settle, outside
<1> HIDE DEF s
<1>4. Finished(r, s)
  BY <1>2, <1>3, FinishStep
<1>5. mon' \in [Runs -> MonType] /\ NoNewStart
  BY <1>3, <1>4, Types, FinishedNoStart
<1>6. QED BY <1>1, <1>2, <1>3, <1>4, <1>5, FinishedQuiet

LEMMA ForgetType ==
  ASSUME TypeOK, NEW r \in Runs, Forget(r)
  PROVE  /\ mon' \in [Runs -> MonType]
         /\ \A q \in Runs : mon'[q] = IF q = r THEN NoMon ELSE mon[q]
<1>1. NoMon \in MonType
  BY DEF NoMon, MonType
<1>2. mon \in [Runs -> MonType] /\ mon' = [mon EXCEPT ![r] = NoMon]
  BY Types DEF Forget
<1> HIDE DEF NoMon, MonType
<1>3. QED BY <1>1, <1>2

\* The result of a remote command comes in, and a success is one.
LEMMA RemoteResultQuiet ==
  ASSUME IInv, NEW h \in Hubs, NEW r \in Runs, NEW s \in Ended, RemoteResult(h, r, s),
         s = "succeeded" => proc[r].st = "succeeded", UNCHANGED <<net, faults>>
  PROVE  /\ TypeOK' /\ Quietly /\ RowsKept
         /\ Finished(r, s) \/ (Env # {} /\ Finished(r, "failed"))
         /\ \A q \in Runs : mon'[q] = IF q = r THEN NoMon ELSE mon[q]
<1>1. /\ mon' \in [Runs -> MonType]
      /\ \A q \in Runs : mon'[q] = IF q = r THEN NoMon ELSE mon[q]
  BY ForgetType DEF RemoteResult, IInv
<1>2. UNCHANGED <<target, proc, told>>
  BY DEF RemoteResult
<1>3. CASE Finish(h, r, s)
  <2>1. Finished(r, s)
    BY <1>3, FinishStep
  <2>2. NoNewStart
    BY <1>1, <1>2, <2>1, FinishedNoStart
  <2>3. QED BY <1>1, <1>2, <2>1, <2>2, FinishedQuiet
<1>4. CASE "resultWriteFails" \in Env /\ Finish(h, r, "failed")
  <2>1. "failed" \in Ended
    BY DEF Ended
  <2>2. Finished(r, "failed")
    BY <1>4, <2>1, FinishStep
  <2>3. NoNewStart
    BY <1>1, <1>2, <2>2, FinishedNoStart
  <2>4. QED BY <1>1, <1>2, <1>4, <2>1, <2>2, <2>3, FinishedQuiet
<1>5. QED BY <1>3, <1>4 DEF RemoteResult

\* The source's notes on a command change, and no start comes of it.
LEMMA WatchQuiet ==
  ASSUME IInv, mon' \in [Runs -> MonType], net' \in SUBSET (Runs \X {"start", "cancel"}),
         \A q \in Runs : /\ mon'[q].at = "prep" => mon[q].at = "prep"
                         /\ mon[q].at = "none" => mon'[q].at = "none"
                         /\ <<q, "start">> \in net' => <<q, "start">> \in net,
         UNCHANGED <<row, lease, hub, proc, told>>, faults' \in 0 .. MaxFaults,
         target'.receipt = target.receipt,
         target' \in [receipt : [Runs -> {"none", "running"} \cup Ended],
                      jobs : SUBSET Runs, aborted : SUBSET Runs]
  PROVE  TypeOK' /\ Quietly /\ RowsKept
<1> USE DEF IInv
<1>1. DueOnce' /\ DueCalm
  BY DueSame DEF DueCalm
<1>2. TypeOK'
  BY Types DEF TypeOK, MonType
<1>3. NoNewStart
  BY <1>1 DEF NoNewStart, DueCalm, Task, Single
<1>4. Quietly
  BY <1>1, <1>3, QuietWhen
<1>5. QED BY <1>2, <1>4, RowsKeptWhen

LEMMA PrepareFailsQuiet ==
  ASSUME IInv, NEW h \in Hubs, NEW r \in Runs, PrepareFails(h, r)
  PROVE  TypeOK' /\ Quietly /\ RowsKept
<1>1. "failed" \in Ended
  BY DEF Ended
<1>2. QED BY <1>1, RemoteResultQuiet DEF PrepareFails

LEMMA GiveUpQuiet ==
  ASSUME IInv, NEW h \in Hubs, NEW r \in Runs, GiveUp(h, r)
  PROVE  TypeOK' /\ Quietly /\ RowsKept
<1>1. "outcome_unknown" \in Ended
  BY DEF Ended
<1>2. QED BY <1>1, RemoteResultQuiet DEF GiveUp

LEMMA StartAnsweredQuiet ==
  ASSUME IInv, NEW h \in Hubs, NEW r \in Runs, StartAnswered(h, r)
  PROVE  TypeOK' /\ Quietly /\ RowsKept
<1> USE DEF IInv
<1>1. "failed" \in Ended /\ "outcome_unknown" \in Ended
  BY DEF Ended
<1>2. CASE RemoteResult(h, r, "failed")
  BY <1>1, <1>2, RemoteResultQuiet DEF StartAnswered
<1>3. CASE RemoteResult(h, r, "outcome_unknown")
  BY <1>1, <1>3, RemoteResultQuiet DEF StartAnswered
<1>4. CASE /\ mon' = [mon EXCEPT ![r].at = "poll", ![r].answer = "none"]
           /\ UNCHANGED <<row, lease, hub, target, proc, told>>
  <2>1. mon \in [Runs -> MonType] /\ mon[r].at = "start"
    BY Types DEF StartAnswered, At
  <2>2. /\ mon' \in [Runs -> MonType]
        /\ \A q \in Runs : mon'[q].at = IF q = r THEN "poll" ELSE mon[q].at
    BY <1>4, <2>1 DEF MonType
  <2>3. UNCHANGED <<net, faults>> /\ faults \in 0 .. MaxFaults
        /\ net \in SUBSET (Runs \X {"start", "cancel"})
        /\ target \in [receipt : [Runs -> {"none", "running"} \cup Ended],
                      jobs : SUBSET Runs, aborted : SUBSET Runs]
    BY DEF StartAnswered, TypeOK
  <2>4. QED BY <1>4, <2>1, <2>2, <2>3, WatchQuiet
<1>5. QED BY <1>2, <1>3, <1>4 DEF StartAnswered

LEMMA StatusIsTrue ==
  ASSUME IInv, NEW r \in Runs
  PROVE  /\ Status(r) \in {"none", "running"} \cup Ended
         /\ Status(r) \in Ended => target.receipt[r] # "none"
         /\ Status(r) \in Ended \ {"outcome_unknown"} => proc[r].st = Status(r)
<1>1. target.receipt[r] \in {"none", "running"} \cup Ended
  BY DEF IInv, TypeOK
<1>2. CASE target.receipt[r] \in {"none", "running"}
  BY <1>2 DEF Status, Ended
<1>3. CASE target.receipt[r] \notin {"none", "running"}
  <2>1. Status(r) = target.receipt[r] /\ proc[r].st = target.receipt[r]
    BY <1>3 DEF Status, IInv, PrerequisiteMet
  <2>2. QED BY <1>1, <1>3, <2>1
<1>4. QED BY <1>2, <1>3

LEMMA PollQuiet ==
  ASSUME IInv, NEW h \in Hubs, NEW r \in Runs, Poll(h, r)
  PROVE  TypeOK' /\ Quietly /\ RowsKept
<1> USE DEF IInv
<1>1. CASE Status(r) \in Ended /\ RemoteResult(h, r, Status(r))
  <2>1. Status(r) = "succeeded" => proc[r].st = "succeeded"
    BY <1>1, StatusIsTrue
  <2>2. QED BY <1>1, <2>1, RemoteResultQuiet DEF Poll
<1>2. CASE Observed(r, FALSE) \/ Observed(r, TRUE)
  <2>1. mon \in [Runs -> MonType] /\ UNCHANGED <<row, lease, hub, target, proc, told>>
    BY <1>2, Types DEF Observed
  <2>2. PICK b \in BOOLEAN : mon' = [mon EXCEPT ![r].gone = b]
    BY <1>2 DEF Observed
  <2>3. mon' \in [Runs -> MonType] /\ \A q \in Runs : mon'[q].at = mon[q].at
    BY <2>1, <2>2 DEF MonType
  <2>4. UNCHANGED <<net, faults>> /\ faults \in 0 .. MaxFaults
        /\ net \in SUBSET (Runs \X {"start", "cancel"})
        /\ target \in [receipt : [Runs -> {"none", "running"} \cup Ended],
                      jobs : SUBSET Runs, aborted : SUBSET Runs]
    BY DEF Poll, TypeOK
  <2>5. QED BY <2>1, <2>3, <2>4, WatchQuiet
<1>3. QED BY <1>1, <1>2 DEF Poll

\* Observations, requests to stop, and what becomes of messages and of the executor.
LEMMA NotesQuiet ==
  ASSUME IInv, NEW h \in Hubs, NEW r \in Runs,
         SendCancel(h, r) \/ StartTimesOut(h, r) \/ PollLost(h, r)
  PROVE  TypeOK' /\ Quietly /\ RowsKept
<1> USE DEF IInv
<1>1. mon \in [Runs -> MonType] /\ faults \in 0 .. MaxFaults /\ MaxFaults \in Nat
      /\ net \in SUBSET (Runs \X {"start", "cancel"})
      /\ target \in [receipt : [Runs -> {"none", "running"} \cup Ended],
                     jobs : SUBSET Runs, aborted : SUBSET Runs]
  BY Types, RunsAssumption DEF TypeOK
<1>2. CASE SendCancel(h, r)
  <2>1. mon' = [mon EXCEPT ![r].sent = TRUE] /\ net' = net \cup {<<r, "cancel">>}
        /\ UNCHANGED <<row, lease, hub, target, proc, told, faults>>
    BY <1>2 DEF SendCancel
  <2>2. mon' \in [Runs -> MonType] /\ \A q \in Runs : mon'[q].at = mon[q].at
    BY <1>1, <2>1 DEF MonType
  <2>3. net' \in SUBSET (Runs \X {"start", "cancel"}) /\ \A q : <<q, "start">> \in net' => <<q, "start">> \in net
    BY <1>1, <2>1
  <2>4. QED BY <1>1, <2>1, <2>2, <2>3, WatchQuiet
<1>3. CASE StartTimesOut(h, r)
  <2>1. mon' = [mon EXCEPT ![r].at = "poll", ![r].answer = "none"] /\ mon[r].at = "start"
        /\ UNCHANGED <<row, lease, hub, net, target, proc, told>>
    BY <1>3 DEF StartTimesOut, At, outside
  <2>2. /\ mon' \in [Runs -> MonType]
        /\ \A q \in Runs : mon'[q].at = IF q = r THEN "poll" ELSE mon[q].at
    <3> DEFINE n == [mon[r] EXCEPT !.at = "poll", !.answer = "none"]
    <3>1. n \in MonType /\ n.at = "poll"
      BY <1>1 DEF MonType
    <3>2. mon' = [mon EXCEPT ![r] = n]
      BY <1>1, <2>1
    <3> HIDE DEF n
    <3>3. QED BY <1>1, <3>1, <3>2
  <2>3. faults' \in 0 .. MaxFaults
    BY <1>1, <1>3 DEF StartTimesOut, Fault
  <2>4. QED BY <1>1, <2>1, <2>2, <2>3, WatchQuiet
<1>4. CASE PollLost(h, r)
  <2>1. mon' = [mon EXCEPT ![r].gone = TRUE] /\ UNCHANGED <<row, lease, hub, net, target, proc, told>>
    BY <1>4 DEF PollLost, Observed
  <2>2. mon' \in [Runs -> MonType] /\ \A q \in Runs : mon'[q].at = mon[q].at
    BY <1>1, <2>1 DEF MonType
  <2>3. faults' \in 0 .. MaxFaults
    BY <1>1, <1>4 DEF PollLost, Fault
  <2>4. QED BY <1>1, <2>1, <2>2, <2>3, WatchQuiet
<1>5. QED BY <1>2, <1>3, <1>4

LEMMA NetworkQuiet ==
  ASSUME IInv, NEW r \in Runs, TargetRefuses(r) \/ TargetCancel(r)
  PROVE  TypeOK' /\ Quietly /\ RowsKept
<1> USE DEF IInv
<1>1. mon \in [Runs -> MonType] /\ faults \in 0 .. MaxFaults /\ MaxFaults \in Nat
      /\ net \in SUBSET (Runs \X {"start", "cancel"})
      /\ target \in [receipt : [Runs -> {"none", "running"} \cup Ended],
                     jobs : SUBSET Runs, aborted : SUBSET Runs]
  BY Types, RunsAssumption DEF TypeOK
<1>2. CASE TargetRefuses(r)
  <2>1. net' = net \ {<<r, "start">>} /\ UNCHANGED <<row, lease, hub, target, proc, told, faults>>
        /\ mon' \in {[mon EXCEPT ![r].answer = "refused"], mon}
    BY <1>2 DEF TargetRefuses, Reply
  <2>2. mon' \in [Runs -> MonType] /\ \A q \in Runs : mon'[q].at = mon[q].at
    BY <1>1, <2>1 DEF MonType
  <2>3. QED BY <1>1, <2>1, <2>2, WatchQuiet
<1>3. CASE TargetCancel(r)
  <2>1. net' = net \ {<<r, "cancel">>} /\ UNCHANGED <<row, lease, hub, mon, proc, told, faults>>
        /\ target' = [target EXCEPT !.aborted = @ \cup ({r} \cap target.jobs)]
    BY <1>3 DEF TargetCancel
  <2>2. QED BY <1>1, <2>1, WatchQuiet
<1>4. QED BY <1>2, <1>3

LEMMA LossQuiet ==
  ASSUME IInv, Lose \/ TargetRestart
  PROVE  TypeOK' /\ Quietly /\ RowsKept
<1> USE DEF IInv
<1>1. mon \in [Runs -> MonType] /\ faults \in 0 .. MaxFaults /\ MaxFaults \in Nat
      /\ net \in SUBSET (Runs \X {"start", "cancel"})
      /\ target \in [receipt : [Runs -> {"none", "running"} \cup Ended],
                     jobs : SUBSET Runs, aborted : SUBSET Runs]
  BY Types, RunsAssumption DEF TypeOK
<1>2. CASE Lose
  <2>1. net' \subseteq net /\ UNCHANGED <<row, lease, hub, mon, target, proc, told>> /\ faults' \in 0 .. MaxFaults
    BY <1>1, <1>2 DEF Lose, Fault
  <2>2. QED BY <1>1, <2>1, WatchQuiet
<1>3. CASE TargetRestart
  <2>1. UNCHANGED <<row, lease, hub, mon, net, proc, told>> /\ faults' \in 0 .. MaxFaults
        /\ target' = [target EXCEPT !.jobs = {}, !.aborted = {}]
    BY <1>1, <1>3 DEF TargetRestart, Fault
  <2>2. QED BY <1>1, <2>1, WatchQuiet
<1>4. QED BY <1>2, <1>3

-----------------------------------------------------------------------------
(* The steps on the way to a command's start, and its end.                    *)

LEMMA ReportsKept ==
  ASSUME TypeOK, Reports, RowsKept,
         \A r \in Runs : row'[r].state = row[r].state \/ row[r].state \notin Ended,
         \A r \in Runs : Task("journal", r) \in Due' =>
           Task("journal", r) \in Due \/ (row[r].state \notin Ended /\ row'[r].state \in Ended)
  PROVE  Reports'
<1> SUFFICES ASSUME NEW r \in Runs
             PROVE  /\ told'[r].rows \in {<<>>, <<row'[r].state>>} /\ told'[r].notices <= 1
                    /\ row'[r].state \notin Ended =>
                         told'[r].rows = <<>> /\ Task("journal", r) \notin Due'
                    /\ Task("journal", r) \in Due' => told'[r].rows = <<>>
  BY DEF Reports, Task
<1>1. told'[r].rows = told[r].rows /\ told'[r].notices <= 1
  BY DEF RowsKept
<1>2. CASE row'[r].state = row[r].state
  BY <1>1, <1>2 DEF Reports
<1>3. CASE row[r].state \notin Ended
  BY <1>1, <1>3 DEF Reports
<1>4. QED BY <1>2, <1>3

\* Run r gets nearer to its start, the others stay where they are or end.
LEMMA OneStarts ==
  ASSUME IInv, NEW r \in Runs,
         \A q \in Runs : /\ row'[q].dep = row[q].dep
                         /\ row[q].state = "succeeded" => row'[q].state = "succeeded"
                         /\ row[q].state # "none" => row'[q].state # "none",
         \A q \in Runs \ {r} :
           /\ row'[q].state = row[q].state
           /\ mon'[q].at = mon[q].at /\ (<<q, "start">> \in net' <=> <<q, "start">> \in net)
           /\ target'.receipt[q] = target.receipt[q] /\ proc'[q] = proc[q]
           /\ Task("launch", q) \in Due' => Task("launch", q) \in Due,
         row'[r].state \notin {"none", "queued"},
         Task("launch", r) \in Due' => Untouched(r)',
         mon'[r].at = "prep" => <<r, "start">> \notin net' /\ target'.receipt[r] = "none",
         Startable(r)' => proc'[r] = NoProc,
         proc'[r].starts <= 1 /\ (proc'[r].starts = 0 <=> proc'[r].st = "none"),
         target'.receipt[r] \notin {"none", "running"} => proc'[r].st = target'.receipt[r],
         row'[r].state = "succeeded" => proc'[r].st = "succeeded",
         Cleared(r)
  PROVE  StartsOnce' /\ PrerequisiteMet'
<1> USE DEF IInv
<1>1. ASSUME NEW q \in Runs
      PROVE  Cleared(q) => Cleared(q)'
  <2>1. row[q].dep \in Runs \cup {None} /\ row'[q].dep = row[q].dep
    BY DEF TypeOK
  <2>2. QED BY <2>1 DEF Cleared
<1>2. ASSUME NEW q \in Runs \ {r}
      PROVE  (Startable(q)' => Startable(q)) /\ (Untouched(q) => Untouched(q)')
  BY DEF Startable, OnItsWay, Untouched, NoProc
<1>3. ASSUME NEW q \in Runs
      PROVE  /\ row'[q].state \in {"none", "queued"} => Untouched(q)' /\ Task("launch", q) \notin Due'
             /\ Task("launch", q) \in Due' => Untouched(q)'
             /\ mon'[q].at = "prep" => <<q, "start">> \notin net' /\ target'.receipt[q] = "none"
             /\ Startable(q)' => proc'[q] = NoProc
             /\ proc'[q].starts <= 1 /\ (proc'[q].starts = 0 <=> proc'[q].st = "none")
  <2>1. CASE q = r
    BY <2>1
  <2>2. CASE q # r
    <3>1. row[q].state \in {"none", "queued"} => Untouched(q) /\ Task("launch", q) \notin Due
      BY DEF StartsOnce
    <3>2. Task("launch", q) \in Due => Untouched(q)
      BY DEF StartsOnce
    <3>3. mon[q].at = "prep" => <<q, "start">> \notin net /\ target.receipt[q] = "none"
      BY DEF StartsOnce
    <3>4. Startable(q) => proc[q] = NoProc
      BY DEF StartsOnce
    <3>5. proc[q].starts <= 1 /\ (proc[q].starts = 0 <=> proc[q].st = "none")
      BY DEF StartsOnce
    <3>6. QED BY <1>2, <2>2, <3>1, <3>2, <3>3, <3>4, <3>5
  <2>3. QED BY <2>1, <2>2
<1>4. StartsOnce'
  BY <1>3 DEF StartsOnce, Untouched, NoProc, Startable, OnItsWay
<1>5. ASSUME NEW q \in Runs
      PROVE  /\ target'.receipt[q] \notin {"none", "running"} => proc'[q].st = target'.receipt[q]
             /\ row'[q].state = "succeeded" => proc'[q].st = "succeeded"
             /\ row'[q].dep # None => row'[row'[q].dep].state # "none"
             /\ row'[q].state = "running" \/ Startable(q)' \/ proc'[q].starts > 0 => Cleared(q)'
  <2>1. row'[q].dep # None => row'[row'[q].dep].state # "none"
    <3>1. row[q].dep \in Runs \cup {None} /\ row'[q].dep = row[q].dep
      BY DEF TypeOK
    <3>2. row[q].dep # None => row[row[q].dep].state # "none"
      BY DEF PrerequisiteMet
    <3>3. QED BY <3>1, <3>2
  <2>2. CASE q = r
    BY <1>1, <2>1, <2>2
  <2>3. CASE q # r
    <3>1. target.receipt[q] \notin {"none", "running"} => proc[q].st = target.receipt[q]
      BY DEF PrerequisiteMet
    <3>2. row[q].state = "succeeded" => proc[q].st = "succeeded"
      BY DEF PrerequisiteMet
    <3>3. row[q].state = "running" \/ Startable(q) \/ proc[q].starts > 0 => Cleared(q)
      BY DEF PrerequisiteMet
    <3>4. QED BY <1>1, <1>2, <2>1, <2>3, <3>1, <3>2, <3>3
  <2>4. QED BY <2>2, <2>3
<1>6. PrerequisiteMet'
  BY <1>5 DEF PrerequisiteMet, Cleared, Startable, OnItsWay
<1>7. QED BY <1>4, <1>6

LEMMA CreateStep ==
  ASSUME IInv, NEW h \in Hubs, NEW r \in Runs, Create(h, r)
  PROVE  /\ IInv' /\ DueCalm /\ row[r].state = "none" /\ row'[r].state = "queued"
         /\ \A q \in Runs \ {r} : row'[q] = row[q]
<1> USE DEF IInv
<1>1. PICK away \in BOOLEAN, d \in {None} \cup {q \in Runs : row[q].state # "none"} :
        row' = [row EXCEPT ![r].state = "queued", ![r].remote = away, ![r].dep = d]
  BY DEF Create
<1> DEFINE n == [row[r] EXCEPT !.state = "queued", !.remote = away, !.dep = d]
<1>2. row \in [Runs -> RowType] /\ hub \in [Hubs -> HubType] /\ away \in BOOLEAN
      /\ row[r].state = "none"
  BY Types DEF Create
<1>3. n \in RowType /\ n.state = "queued" /\ n.dep = d
  BY <1>1, <1>2 DEF RowType, States
<1>4. row' = [row EXCEPT ![r] = n]
  BY <1>1, <1>2
<1> HIDE DEF n
<1>5. row' \in [Runs -> RowType] /\ \A q \in Runs : row'[q] = IF q = r THEN n ELSE row[q]
  BY <1>2, <1>3, <1>4
<1>6. UNCHANGED <<lease, mon, net, target, proc, told, faults>>
  BY DEF Create, outside
<1>7. hub' \in [Hubs -> HubType] /\ DueOnce' /\ DueCalm
  <2>1. CASE hub' = hub
    BY <1>2, <2>1, DueSame DEF DueCalm
  <2>2. CASE hub' = [hub EXCEPT ![h].todo = <<Pump>>]
    <3> DEFINE l == <<Pump>>
               rest == <<>>
    <3>1. l \in Seq(Tasks) /\ l \in Seq(CalmTasks) /\ rest \in Seq(Tasks) /\ l \o rest = l /\ rest = <<>>
      BY DEF Task, Tasks, Duties, Pump, CalmTasks
    <3>2. \A k \in DOMAIN l : l[k].do \notin {"notify", "mark"}
      BY DEF Pump, Task
    <3>3. hub' = [hub EXCEPT ![h].todo = l]
      BY <2>2
    <3> HIDE DEF l, rest
    <3>4. hub' \in [Hubs -> HubType] /\ \A g \in Hubs : hub'[g].todo = IF g = h THEN l \o rest ELSE hub[g].todo
      BY <1>2, <3>1, <3>3 DEF HubType
    <3>5. QED BY <3>1, <3>2, <3>4, CalmStep
  <2>3. QED BY <2>1, <2>2 DEF Create
<1>8. TypeOK'
  BY <1>5, <1>6, <1>7, Types DEF TypeOK, RowType, HubType
<1>9. \A q \in Runs : /\ Task("launch", q) \in Due' => Task("launch", q) \in Due
                      /\ Task("journal", q) \in Due' => Task("journal", q) \in Due
  BY <1>7 DEF DueCalm, Task, Single
<1>10. ASSUME NEW q \in Runs
       PROVE  (Startable(q)' => Startable(q)) /\ (Untouched(q) => Untouched(q)')
  BY <1>6, <1>9 DEF Startable, OnItsWay, Untouched, NoProc
<1>11. \A q \in Runs : /\ row'[q].state \in {"none", "queued"} => row[q].state \in {"none", "queued"}
                       /\ row'[q].state \notin {"none", "queued"} => row'[q] = row[q]
  BY <1>2, <1>3, <1>5
<1>12. StartsOnce'
  <2> SUFFICES ASSUME NEW q \in Runs
               PROVE  /\ row'[q].state \in {"none", "queued"} => Untouched(q)' /\ Task("launch", q) \notin Due'
                      /\ Task("launch", q) \in Due' => Untouched(q)'
                      /\ mon[q].at = "prep" => <<q, "start">> \notin net /\ target.receipt[q] = "none"
                      /\ Startable(q)' => proc[q] = NoProc
                      /\ proc[q].starts <= 1 /\ (proc[q].starts = 0 <=> proc[q].st = "none")
    BY <1>6 DEF StartsOnce, Untouched, NoProc, Startable, OnItsWay
  <2>1. row[q].state \in {"none", "queued"} => Untouched(q) /\ Task("launch", q) \notin Due
    BY DEF StartsOnce
  <2>2. Task("launch", q) \in Due => Untouched(q)
    BY DEF StartsOnce
  <2>3. mon[q].at = "prep" => <<q, "start">> \notin net /\ target.receipt[q] = "none"
    BY DEF StartsOnce
  <2>4. Startable(q) => proc[q] = NoProc
    BY DEF StartsOnce
  <2>5. proc[q].starts <= 1 /\ (proc[q].starts = 0 <=> proc[q].st = "none")
    BY DEF StartsOnce
  <2>6. QED BY <1>9, <1>10, <1>11, <2>1, <2>2, <2>3, <2>4, <2>5
<1>13. Untouched(r) /\ Task("launch", r) \notin Due
  BY <1>2 DEF StartsOnce
<1>14. PrerequisiteMet'
  <2> SUFFICES ASSUME NEW q \in Runs
               PROVE  /\ target.receipt[q] \notin {"none", "running"} => proc[q].st = target.receipt[q]
                      /\ row'[q].state = "succeeded" => proc[q].st = "succeeded"
                      /\ row'[q].dep # None => row'[row'[q].dep].state # "none"
                      /\ row'[q].state = "running" \/ Startable(q)' \/ proc[q].starts > 0 => Cleared(q)'
    BY <1>6 DEF PrerequisiteMet, Startable, OnItsWay, Cleared
  <2>1. target.receipt[q] \notin {"none", "running"} => proc[q].st = target.receipt[q]
    BY DEF PrerequisiteMet
  <2>2. row'[q].state = "succeeded" => proc[q].st = "succeeded"
    BY <1>11 DEF PrerequisiteMet
  <2>3. CASE q = r
    <3>1. ~Startable(r)' /\ ~(proc[r].starts > 0) /\ row'[r].state = "queued" /\ row'[r].dep = d
      BY <1>3, <1>5, <1>10, <1>13 DEF Startable, OnItsWay, Untouched, NoProc
    <3>2. d # None => d \in Runs /\ d # r /\ row[d].state # "none"
      BY <1>2
    <3>3. d # None => row'[d].state # "none"
      BY <1>5, <3>2
    <3>4. QED BY <2>1, <2>2, <2>3, <3>1, <3>3
  <2>4. CASE q # r
    <3>1. row'[q] = row[q] /\ row[q].dep \in Runs \cup {None}
      BY <1>2, <1>5, <2>4 DEF RowType
    <3>2. row[q].dep # None => row[row[q].dep].state # "none" /\ row[q].dep # r
      BY <1>2 DEF PrerequisiteMet
    <3>3. row[q].dep # None => row'[row[q].dep] = row[row[q].dep]
      BY <1>5, <3>1, <3>2
    <3>4. row[q].state = "running" \/ Startable(q) \/ proc[q].starts > 0 => Cleared(q)
      BY DEF PrerequisiteMet
    <3>5. QED BY <1>10, <2>1, <2>2, <3>1, <3>2, <3>3, <3>4 DEF Cleared
  <2>5. QED BY <2>3, <2>4
<1>15. Reports'
  <2>1. RowsKept
    BY <1>6, RowsKeptWhen
  <2>2. \A q \in Runs : row'[q].state = row[q].state \/ row[q].state \notin Ended
    BY <1>2, <1>5 DEF Ended
  <2>3. QED BY <1>9, <2>1, <2>2, ReportsKept
<1>16. QED BY <1>2, <1>3, <1>5, <1>7, <1>8, <1>12, <1>14, <1>15

\* A run is claimed when its prerequisite succeeded and all it needs is free, and holds it then.
LEMMA ClaimStep ==
  ASSUME IInv, NEW h \in Hubs, NEW r \in Runs, Claim(h, r)
  PROVE  /\ IInv' /\ row[r].state = "queued" /\ row'[r].state = "running"
         /\ \A q \in Runs \ {r} : row'[q].state = row[q].state
         /\ \A q \in Runs : row'[q].remote = row[q].remote
         /\ \A t \in Due' : t.do \in Single => t \in Due \/ t = Task("launch", r)
         /\ HoldsAll => HoldsAll'
<1> USE DEF IInv
<1> DEFINE s == <<Task("launch", r), Task("pump", r)>>
<1>1. hub[h].todo # <<>> /\ hub' = After(h, s) /\ Do(h, "pump") /\ row[r].state = "queued"
  BY DEF Claim, Turn, Do, Ahead, In
<1>2. row' = [row EXCEPT ![r].state = "running", ![r].stale = FALSE] /\ Claimable(r)
      /\ lease' = [x \in Res |-> IF x \in Needs[r] THEN r ELSE lease[x]]
  BY DEF Claim
<1>3. UNCHANGED <<mon, net, target, proc, told, faults>> /\ row \in [Runs -> RowType]
      /\ lease \in [Res -> Runs \cup {None}]
  BY Types DEF Claim, outside
<1>4. Task("launch", r) \notin Due /\ Untouched(r)
  BY <1>1 DEF StartsOnce
<1>5. s \in Seq(Tasks) /\ DOMAIN s = 1 .. 2 /\ s[1] = Task("launch", r) /\ s[2] = Task("pump", r)
  BY DEF Task, Tasks, Duties
<1> HIDE DEF s
<1>6. /\ hub' \in [Hubs -> HubType] /\ Tail(hub[h].todo) \in Seq(Tasks)
      /\ \A g \in Hubs : hub'[g].todo = IF g = h THEN s \o Tail(hub[h].todo) ELSE hub[g].todo
  BY <1>1, <1>5, AfterType
<1>7. \A k \in DOMAIN s : k = 1 \/ s[k].do = "pump"
  BY <1>5 DEF Task
<1>8. DueOnce' /\ \A t \in Due' : t \in Due \/ \E k \in DOMAIN s : s[k] = t
  <2>1. \A k \in DOMAIN s : s[k].do \in Single => k = 1 /\ s[k] \notin Due
    BY <1>4, <1>5, <1>7 DEF Single
  <2>2. \A k \in DOMAIN s : s[k].do = "launch" => k = 1
    BY <1>7
  <2>3. \A k \in DOMAIN s : s[k].do \notin {"reconcile", "pending", "pump"} => s[k].run \in Runs
    BY <1>5, <1>7 DEF Task
  <2>4. \A k, l \in DOMAIN s : s[k].do \in Single /\ s[k] = s[l] => k = l
    BY <2>1
  <2>5. s \in Seq(Tasks) /\ \A k \in DOMAIN s : s[k].do \in Single => s[k] \notin Due
    BY <1>5, <2>1
  <2>6. hub[h].todo # <<>>
    BY <1>1
  <2>7. QED BY <1>6, <2>2, <2>3, <2>4, <2>5, <2>6, TodoStep
<1>9. \A t \in Due' : t.do \in Single => t \in Due \/ t = Task("launch", r)
  BY <1>5, <1>7, <1>8 DEF Single
<1>10. row' \in [Runs -> RowType]
       /\ \A q \in Runs : /\ row'[q].state = IF q = r THEN "running" ELSE row[q].state
                          /\ row'[q].dep = row[q].dep /\ row'[q].remote = row[q].remote
  <2> DEFINE n == [row[r] EXCEPT !.state = "running", !.stale = FALSE]
  <2>1. n \in RowType /\ n.state = "running" /\ n.dep = row[r].dep /\ n.remote = row[r].remote
    BY <1>3 DEF RowType, States
  <2>2. row' = [row EXCEPT ![r] = n]
    BY <1>2, <1>3
  <2> HIDE DEF n
  <2>3. QED BY <1>3, <2>1, <2>2
<1>11. lease' \in [Res -> Runs \cup {None}]
  BY <1>2, <1>3
<1>12. TypeOK'
  BY <1>3, <1>6, <1>10, <1>11, Types DEF TypeOK, RowType, HubType
<1>13. \A q \in Runs : /\ Task("launch", q) \in Due' => Task("launch", q) \in Due \/ q = r
                       /\ Task("journal", q) \in Due' => Task("journal", q) \in Due
  BY <1>9 DEF Task, Single
<1>14. Cleared(r)
  <2>1. ASSUME row[r].dep # None PROVE row[row[r].dep].state = "succeeded"
    <3>1. row[r].dep \in Runs
      BY <1>3, <2>1 DEF RowType
    <3>2. row[row[r].dep].state \in States /\ row[row[r].dep].state # "none"
      BY <1>3, <2>1, <3>1 DEF RowType, PrerequisiteMet
    <3>3. QED BY <1>2, <2>1, <3>2 DEF Claimable, Blocked, Waits, States
  <2>2. QED BY <2>1 DEF Cleared
<1>15. StartsOnce' /\ PrerequisiteMet'
  <2>1. Untouched(r)' /\ (Startable(r)' => proc'[r] = NoProc)
    BY <1>3, <1>4 DEF Untouched, NoProc
  <2>2. proc[r].starts <= 1 /\ (proc[r].starts = 0 <=> proc[r].st = "none")
    BY DEF StartsOnce
  <2>3. QED BY <1>1, <1>3, <1>4, <1>10, <1>13, <1>14, <2>1, <2>2, OneStarts DEF Untouched
<1>16. Reports'
  <2>1. RowsKept
    BY <1>3, RowsKeptWhen
  <2>2. \A q \in Runs : row'[q].state = row[q].state \/ row[q].state \notin Ended
    BY <1>1, <1>10 DEF Ended
  <2>3. QED BY <1>13, <2>1, <2>2, ReportsKept
<1>17. ASSUME HoldsAll PROVE HoldsAll'
  <2> SUFFICES ASSUME NEW q \in Runs, row'[q].state = "running", NEW y \in Needs[q]
               PROVE  lease'[y] = q
    BY DEF HoldsAll
  <2>1. y \in Res
    BY RunsAssumption
  <2>2. CASE q = r
    BY <1>2, <2>1, <2>2
  <2>3. CASE q # r
    <3>1. lease[y] = q
      BY <1>10, <1>17, <2>3 DEF HoldsAll
    <3>2. y \notin Needs[r]
      BY <1>2, <2>3, <3>1, RunsAssumption DEF Claimable, CanHold
    <3>3. QED BY <1>2, <2>1, <3>1, <3>2
  <2>4. QED BY <2>2, <2>3
<1>18. QED BY <1>1, <1>8, <1>9, <1>10, <1>12, <1>15, <1>16, <1>17

\* The end is journaled before anything else the hub has to do.
LEMMA EndFirst ==
  ASSUME TypeOK, DueOnce, Reports, NEW h \in Hubs, NEW r \in Runs, row[r].state \notin Ended,
         hub[h].todo # <<>>,
         \A g \in Hubs : hub'[g].todo =
           IF g = h THEN <<Task("journal", r)>> \o Tail(hub[h].todo) ELSE hub[g].todo
  PROVE  /\ DueOnce' /\ \A t \in Due' : t.do \in Single => t \in Due \/ t = Task("journal", r)
         /\ Head(hub[h].todo).do \in Single => Head(hub[h].todo) \notin Due'
<1> DEFINE s == <<Task("journal", r)>>
           rest == Tail(hub[h].todo)
<1>1. rest \in Seq(Tasks) /\ rest = Tail(hub[h].todo)
  BY HeadIsTask
<1>2. s \in {<<Task("journal", r)>>, <<Task("journal", r), Pump>>,
            <<Task("journal", r), Task("pump", r)>>}
  OBVIOUS
<1>3. \A g \in Hubs : hub'[g].todo = IF g = h THEN s \o rest ELSE hub[g].todo
  OBVIOUS
<1> HIDE DEF rest
<1>4. QED BY <1>1, <1>2, <1>3, EndStep

\* A launch takes the run's one launch off the list.
LEMMA LaunchTaken ==
  ASSUME IInv, NEW h \in Hubs, Do(h, "launch"), NEW r, r = Now(h),
         NEW s \in {<<>>, <<Task("journal", r)>>}, s # <<>> => row[r].state = "running",
         \A g \in Hubs : hub'[g].todo = IF g = h THEN s \o Tail(hub[h].todo) ELSE hub[g].todo
  PROVE  /\ r \in Runs /\ DueOnce' /\ Untouched(r) /\ Startable(r)
         /\ Task("launch", r) \in Due /\ Task("launch", r) \notin Due'
         /\ row[r].state \notin {"none", "queued"} /\ Cleared(r)
         /\ \A q \in Runs :
              /\ Task("launch", q) \in Due' => Task("launch", q) \in Due
              /\ Task("journal", q) \in Due' => Task("journal", q) \in Due \/ (q = r /\ s # <<>>)
<1> USE DEF IInv
<1>1. /\ r \in Runs /\ Task("launch", r) \in Due /\ Head(hub[h].todo) = Task("launch", r)
      /\ hub[h].todo # <<>>
  BY NowIsRun
<1>2. Tail(hub[h].todo) \in Seq(Tasks)
  BY <1>1, HeadIsTask
<1>3. Head(hub[h].todo).do \in Single
  BY <1>1 DEF Task, Single
<1>4. /\ DueOnce' /\ Task("launch", r) \notin Due'
      /\ \A t \in Due' : t.do \in Single => t \in Due \/ (t = Task("journal", r) /\ s # <<>>)
  <2>1. CASE s = <<>>
    <3> DEFINE e == <<>>
    <3>1. e \in Seq(CalmTasks) /\ DOMAIN e = {} /\ s = e
      BY <2>1
    <3> HIDE DEF e
    <3>2. \A g \in Hubs : hub'[g].todo = IF g = h THEN e \o Tail(hub[h].todo) ELSE hub[g].todo
      BY <3>1
    <3>3. DueOnce' /\ DueCalm /\ Head(hub[h].todo) \notin Due'
      BY <1>1, <1>2, <1>3, <3>1, <3>2, CalmStep
    <3>4. QED BY <1>1, <3>3 DEF DueCalm
  <2>2. CASE s = <<Task("journal", r)>>
    <3>1. s # <<>>
      BY <2>2
    <3>2. row[r].state \notin Ended
      BY <3>1 DEF Ended
    <3>3. \A g \in Hubs : hub'[g].todo =
            IF g = h THEN <<Task("journal", r)>> \o Tail(hub[h].todo) ELSE hub[g].todo
      BY <2>2
    <3>4. /\ DueOnce' /\ Head(hub[h].todo) \notin Due'
          /\ \A t \in Due' : t.do \in Single => t \in Due \/ t = Task("journal", r)
      <4>1. hub[h].todo # <<>> /\ r \in Runs
        BY <1>1
      <4>2. QED BY <1>3, <3>2, <3>3, <4>1, EndFirst
    <3>5. QED BY <1>1, <3>1, <3>4
  <2>3. QED BY <2>1, <2>2
<1>5. Untouched(r) /\ row[r].state \notin {"none", "queued"}
  BY <1>1 DEF StartsOnce
<1>6. Startable(r) /\ Cleared(r)
  BY <1>1 DEF Startable, PrerequisiteMet
<1>7. QED BY <1>1, <1>4, <1>5, <1>6 DEF Task, Single

LEMMA LaunchStep ==
  ASSUME IInv, NEW h \in Hubs, Launch(h)
  PROVE  IInv' /\ (HoldsAll => HoldsAll')
<1> USE DEF IInv
<1>1. Do(h, "launch") /\ hub[h].todo # <<>> /\ UNCHANGED <<net, target, told>>
  BY DEF Launch, Do
<1>2. PICK r \in Runs : r = Now(h)
  BY <1>1, NowIsRun
<1>3. /\ row \in [Runs -> RowType] /\ mon \in [Runs -> MonType] /\ proc \in [Runs -> ProcType]
      /\ hub \in [Hubs -> HubType] /\ faults \in 0 .. MaxFaults /\ MaxFaults \in Nat
  BY Types, RunsAssumption
<1> DEFINE none == <<>>
<1>4. /\ After(h, none) \in [Hubs -> HubType] /\ Tail(hub[h].todo) \in Seq(Tasks)
      /\ \A g \in Hubs : After(h, none)[g].todo = IF g = h THEN none \o Tail(hub[h].todo) ELSE hub[g].todo
  <2>1. none \in Seq(Tasks)
    OBVIOUS
  <2> HIDE DEF none
  <2>2. QED BY <1>1, <2>1, AfterType
<1>5. RowsKept
  BY <1>1, RowsKeptWhen
<1>6. CASE /\ row[r].remote
           /\ mon' = [mon EXCEPT ![r] = [NoMon EXCEPT !.by = h, !.at = "prep"]]
           /\ hub' = [After(h, none) EXCEPT ![h].own = @ \cup {r}]
           /\ UNCHANGED <<row, lease, proc, faults>>
  <2> DEFINE n == [NoMon EXCEPT !.by = h, !.at = "prep"]
             a == After(h, none)
  <2>1. n \in MonType /\ n.at = "prep"
    BY DEF NoMon, MonType
  <2>2. mon' = [mon EXCEPT ![r] = n] /\ hub' = [a EXCEPT ![h].own = @ \cup {r}]
    BY <1>6
  <2> HIDE DEF n, a, none
  <2>3. mon' \in [Runs -> MonType] /\ \A q \in Runs : mon'[q] = IF q = r THEN n ELSE mon[q]
    BY <1>2, <1>3, <2>1, <2>2
  <2>4. hub' \in [Hubs -> HubType] /\ \A g \in Hubs : hub'[g].todo = a[g].todo
    BY <1>2, <1>4, <2>2 DEF HubType, a
  <2>5. \A g \in Hubs : hub'[g].todo = IF g = h THEN none \o Tail(hub[h].todo) ELSE hub[g].todo
    BY <1>4, <2>4 DEF a, none
  <2>6. /\ DueOnce' /\ Untouched(r) /\ Task("launch", r) \notin Due'
        /\ row[r].state \notin {"none", "queued"} /\ Cleared(r)
        /\ \A q \in Runs : /\ Task("launch", q) \in Due' => Task("launch", q) \in Due
                           /\ Task("journal", q) \in Due' => Task("journal", q) \in Due
    <3>1. none \in {<<>>, <<Task("journal", r)>>} /\ none = <<>>
      BY DEF none
    <3>2. QED BY <1>1, <1>2, <2>5, <3>1, LaunchTaken
  <2>7. TypeOK'
    BY <1>1, <1>6, <2>3, <2>4, Types DEF TypeOK, MonType, HubType
  <2>8. StartsOnce' /\ PrerequisiteMet'
    <3>1. Startable(r)' => proc'[r] = NoProc
      BY <1>6, <2>6 DEF Untouched
    <3>2. <<r, "start">> \notin net' /\ target'.receipt[r] = "none" /\ proc'[r] = NoProc
      BY <1>1, <1>6, <2>6 DEF Untouched
    <3>3. proc'[r].starts <= 1 /\ (proc'[r].starts = 0 <=> proc'[r].st = "none")
      BY <3>2 DEF NoProc
    <3>4. row'[r].state = "succeeded" => proc'[r].st = "succeeded"
      BY <1>2, <1>6 DEF PrerequisiteMet
    <3>5. UNCHANGED <<row, proc, net, target>>
      BY <1>1, <1>6
    <3>6. QED BY <1>2, <2>3, <2>6, <3>1, <3>2, <3>3, <3>4, <3>5, OneStarts
  <2>9. Reports'
    BY <1>5, <1>6, <2>6, ReportsKept
  <2>10. HoldsAll => HoldsAll'
    BY <1>6 DEF HoldsAll
  <2>11. QED BY <2>6, <2>7, <2>8, <2>9, <2>10
<1>7. ASSUME proc' = Started(r), mon' = mon, row' \in [Runs -> RowType],
             lease' \in [Res -> Runs \cup {None}], hub' \in [Hubs -> HubType],
             faults' \in 0 .. MaxFaults, Moves,
             \A q \in Runs \ {r} : row'[q].state = row[q].state,
             row'[r].state = "succeeded" => row[r].state = "succeeded",
             DueOnce', Untouched(r), Task("launch", r) \notin Due',
             row[r].state \notin {"none", "queued"}, Cleared(r),
             \A q \in Runs :
               /\ Task("launch", q) \in Due' => Task("launch", q) \in Due
               /\ Task("journal", q) \in Due' =>
                    Task("journal", q) \in Due \/ (row[q].state \notin Ended /\ row'[q].state \in Ended)
      PROVE  IInv'
  <2>1. proc' \in [Runs -> ProcType]
        /\ \A q \in Runs : proc'[q] = IF q = r THEN [st |-> "alive", starts |-> 1] ELSE proc[q]
    <3>1. proc[r].starts = 0
      BY <1>7 DEF Untouched, NoProc
    <3>2. proc' = [proc EXCEPT ![r] = [st |-> "alive", starts |-> 1]]
      BY <1>3, <1>7, <3>1 DEF Started
    <3>3. [st |-> "alive", starts |-> 1] \in ProcType
      BY DEF ProcType
    <3>4. QED BY <1>2, <1>3, <3>2, <3>3
  <2>2. TypeOK'
    BY <1>1, <1>7, <2>1, Types DEF TypeOK, RowType, HubType, ProcType
  <2>3. ~Startable(r)'
    <3>1. mon[r].at # "prep" /\ <<r, "start">> \notin net
      BY <1>7 DEF Untouched
    <3>2. QED BY <1>1, <1>7, <3>1 DEF Startable, OnItsWay
  <2>4. StartsOnce' /\ PrerequisiteMet'
    <3>1. \A q \in Runs : /\ row'[q].dep = row[q].dep
                          /\ row[q].state = "succeeded" => row'[q].state = "succeeded"
                          /\ row[q].state # "none" => row'[q].state # "none"
      BY <1>7 DEF Moves, Ended
    <3>2. row'[r].state \notin {"none", "queued"}
      BY <1>2, <1>7 DEF Moves, Ended
    <3>3. row'[r].state # "succeeded"
      <4>1. proc[r].st # "succeeded"
        BY <1>7 DEF Untouched, NoProc
      <4>2. QED BY <1>2, <1>7, <4>1 DEF PrerequisiteMet
    <3>4. mon'[r].at # "prep" /\ target'.receipt[r] = "none" /\ UNCHANGED <<net, target, mon>>
      BY <1>1, <1>7 DEF Untouched
    <3>5. proc'[r].starts <= 1 /\ (proc'[r].starts = 0 <=> proc'[r].st = "none")
      BY <1>2, <2>1
    <3>6. QED BY <1>2, <1>7, <2>1, <2>3, <3>1, <3>2, <3>3, <3>4, <3>5, OneStarts
  <2>5. Reports'
    <3>1. \A q \in Runs : row'[q].state = row[q].state \/ row[q].state \notin Ended
      BY <1>7 DEF Moves, Ended
    <3>2. QED BY <1>5, <1>7, <3>1, ReportsKept
  <2>6. QED BY <1>7, <2>2, <2>4, <2>5
<1>8. CASE /\ ~row[r].remote
           /\ proc' = Started(r)
           /\ hub' = [After(h, none) EXCEPT ![h].own = @ \cup {r}]
           /\ UNCHANGED <<row, lease, mon, faults>>
  <2> DEFINE a == After(h, none)
  <2>1. hub' = [a EXCEPT ![h].own = @ \cup {r}]
    BY <1>8
  <2> HIDE DEF a, none
  <2>2. hub' \in [Hubs -> HubType] /\ \A g \in Hubs : hub'[g].todo = a[g].todo
    <3>1. QED BY <1>2, <1>4, <2>1 DEF HubType, a
  <2>3. \A g \in Hubs : hub'[g].todo = IF g = h THEN none \o Tail(hub[h].todo) ELSE hub[g].todo
    BY <1>4, <2>2 DEF a, none
  <2>4. /\ DueOnce' /\ Untouched(r) /\ Task("launch", r) \notin Due'
        /\ row[r].state \notin {"none", "queued"} /\ Cleared(r)
        /\ \A q \in Runs : /\ Task("launch", q) \in Due' => Task("launch", q) \in Due
                           /\ Task("journal", q) \in Due' => Task("journal", q) \in Due
    <3>1. none \in {<<>>, <<Task("journal", r)>>} /\ none = <<>>
      BY DEF none
    <3>2. QED BY <1>1, <1>2, <2>3, <3>1, LaunchTaken
  <2>5. UNCHANGED <<row, lease, mon, faults>> /\ proc' = Started(r) /\ Moves
        /\ lease \in [Res -> Runs \cup {None}]
    BY <1>8, Types DEF Moves
  <2>6. IInv'
    BY <1>3, <1>7, <2>2, <2>4, <2>5
  <2>7. HoldsAll => HoldsAll'
    BY <2>5 DEF HoldsAll
  <2>8. QED BY <2>6, <2>7
<1>9. CASE /\ "journalFails" \in Env /\ Fault /\ ~row[r].remote
           /\ proc' = Started(r)
           /\ row[r].state = "running"
           /\ row' = [row EXCEPT ![r].state = "failed"]
           /\ lease' = Freed({r})
           /\ hub' = After(h, <<Task("journal", r)>>)
           /\ UNCHANGED mon
  <2> DEFINE s == <<Task("journal", r)>>
  <2>1. s \in Seq(Tasks) /\ s # <<>> /\ hub' = After(h, s)
    BY <1>2, <1>9 DEF Task, Tasks, Duties
  <2>2. s \in {<<>>, <<Task("journal", r)>>}
    OBVIOUS
  <2> HIDE DEF s
  <2>3. hub' \in [Hubs -> HubType]
        /\ \A g \in Hubs : hub'[g].todo = IF g = h THEN s \o Tail(hub[h].todo) ELSE hub[g].todo
    BY <1>1, <2>1, AfterType
  <2>4. /\ DueOnce' /\ Untouched(r) /\ Task("launch", r) \notin Due'
        /\ row[r].state \notin {"none", "queued"} /\ Cleared(r)
        /\ \A q \in Runs : /\ Task("launch", q) \in Due' => Task("launch", q) \in Due
                           /\ Task("journal", q) \in Due' => Task("journal", q) \in Due \/ q = r
    <3>1. row[r].state = "running"
      BY <1>9
    <3>2. QED BY <1>1, <1>2, <2>2, <2>3, <3>1, LaunchTaken DEF s
  <2>5. /\ row' \in [Runs -> RowType] /\ Moves
        /\ \A q \in Runs : row'[q].state = IF q = r THEN "failed" ELSE row[q].state
    <3>1. "failed" \in Ended
      BY DEF Ended
    <3>2. row[r].state \in {"queued", "running"} /\ row' = [row EXCEPT ![r].state = "failed"]
      BY <1>9
    <3>3. QED BY <1>2, <3>1, <3>2, RowEnds
  <2>6. lease' \in [Res -> Runs \cup {None}] /\ \A y \in Res : lease[y] # r => lease'[y] = lease[y]
    BY <1>9, FreedType
  <2>7. \A q \in Runs : Task("journal", q) \in Due' =>
          Task("journal", q) \in Due \/ (row[q].state \notin Ended /\ row'[q].state \in Ended)
    <3>1. row[r].state \notin Ended /\ row'[r].state \in Ended
      BY <1>2, <1>9, <2>5 DEF Ended
    <3>2. QED BY <2>4, <3>1
  <2>8. faults' \in 0 .. MaxFaults
    BY <1>3, <1>9 DEF Fault
  <2>9. IInv'
    <3>1. proc' = Started(r) /\ mon' = mon /\ row'[r].state # "succeeded"
      BY <1>2, <1>9, <2>5
    <3>2. \A q \in Runs \ {r} : row'[q].state = row[q].state
      BY <2>5
    <3>3. QED BY <1>7, <2>3, <2>4, <2>5, <2>6, <2>7, <2>8, <3>1, <3>2
  <2>10. HoldsAll => HoldsAll'
    <3> SUFFICES ASSUME HoldsAll, NEW q \in Runs, row'[q].state = "running", NEW y \in Needs[q]
                 PROVE  lease'[y] = q
      BY DEF HoldsAll
    <3>1. q # r /\ row[q].state = "running" /\ y \in Res
      BY <2>5, RunsAssumption
    <3>2. lease[y] = q
      BY <3>1 DEF HoldsAll
    <3>3. QED BY <2>6, <3>1, <3>2
  <2>11. QED BY <2>9, <2>10
<1>10. CASE /\ "journalFails" \in Env /\ Fault /\ ~row[r].remote
            /\ proc' = Started(r)
            /\ Skip(h) /\ UNCHANGED <<row, lease>>
            /\ UNCHANGED mon
  <2>1. hub' \in [Hubs -> HubType] /\ none \in {<<>>, <<Task("journal", r)>>} /\ none = <<>>
    BY <1>4, <1>10 DEF Skip
  <2>2. \A g \in Hubs : hub'[g].todo = IF g = h THEN none \o Tail(hub[h].todo) ELSE hub[g].todo
    BY <1>4, <1>10 DEF Skip
  <2> HIDE DEF none
  <2>3. /\ DueOnce' /\ Untouched(r) /\ Task("launch", r) \notin Due'
        /\ row[r].state \notin {"none", "queued"} /\ Cleared(r)
        /\ \A q \in Runs : /\ Task("launch", q) \in Due' => Task("launch", q) \in Due
                           /\ Task("journal", q) \in Due' => Task("journal", q) \in Due
    BY <1>1, <1>2, <2>1, <2>2, LaunchTaken
  <2>4. UNCHANGED <<row, lease, mon>> /\ proc' = Started(r) /\ Moves
        /\ lease \in [Res -> Runs \cup {None}]
    BY <1>10, Types DEF Moves
  <2>5. faults' \in 0 .. MaxFaults
    BY <1>3, <1>10 DEF Fault
  <2>6. IInv'
    BY <1>3, <1>7, <2>1, <2>3, <2>4, <2>5
  <2>7. HoldsAll => HoldsAll'
    BY <2>4 DEF HoldsAll
  <2>8. QED BY <2>6, <2>7
<1>11. QED BY <1>2, <1>6, <1>8, <1>9, <1>10 DEF Launch

LEMMA SendStartStep ==
  ASSUME IInv, NEW h \in Hubs, NEW r \in Runs, SendStart(h, r)
  PROVE  IInv' /\ (HoldsAll => HoldsAll')
<1> USE DEF IInv
<1>1. /\ mon[r].at = "prep" /\ mon' = [mon EXCEPT ![r].at = "start"]
      /\ net' = net \cup {<<r, "start">>}
      /\ UNCHANGED <<row, lease, hub, target, proc, told, faults>>
  BY DEF SendStart, At
<1>2. mon \in [Runs -> MonType] /\ net \in SUBSET (Runs \X {"start", "cancel"})
  BY Types DEF TypeOK
<1>3. mon' \in [Runs -> MonType] /\ \A q \in Runs : mon'[q].at = IF q = r THEN "start" ELSE mon[q].at
  BY <1>1, <1>2 DEF MonType
<1>4. DueOnce' /\ Due' = Due
  BY <1>1, DueSame
<1>5. TypeOK'
  BY <1>1, <1>2, <1>3, Types DEF TypeOK, MonType
<1>6. proc[r] = NoProc /\ Cleared(r)
  BY <1>1 DEF StartsOnce, PrerequisiteMet, Startable
<1>7. StartsOnce' /\ PrerequisiteMet'
  <2>1. row[r].state \notin {"none", "queued"} /\ Task("launch", r) \notin Due
    BY <1>1 DEF StartsOnce, Untouched
  <2>2. Task("launch", r) \notin Due' /\ row'[r].state \notin {"none", "queued"}
    BY <1>1, <1>4, <2>1
  <2>3. \A q \in Runs \ {r} : <<q, "start">> \in net' <=> <<q, "start">> \in net
    BY <1>1
  <2>4. mon'[r].at # "prep"
    BY <1>3
  <2>5. proc[r].starts <= 1 /\ (proc[r].starts = 0 <=> proc[r].st = "none")
    BY DEF StartsOnce
  <2>6. target.receipt[r] \notin {"none", "running"} => proc[r].st = target.receipt[r]
    BY DEF PrerequisiteMet
  <2>7. row[r].state = "succeeded" => proc[r].st = "succeeded"
    BY DEF PrerequisiteMet
  <2>8. UNCHANGED <<row, target, proc>>
    BY <1>1
  <2>9. QED BY <1>3, <1>4, <1>6, <2>2, <2>3, <2>4, <2>5, <2>6, <2>7, <2>8, OneStarts
<1>8. Reports'
  <2>1. RowsKept
    BY <1>1, RowsKeptWhen
  <2>2. QED BY <1>1, <1>4, <2>1, ReportsKept
<1>9. HoldsAll => HoldsAll'
  BY <1>1 DEF HoldsAll
<1>10. QED BY <1>4, <1>5, <1>7, <1>8, <1>9

LEMMA ReplyType ==
  ASSUME TypeOK, NEW r \in Runs, NEW a \in {"running", "refused", "unknown"}, Reply(r, a)
  PROVE  /\ mon' \in [Runs -> MonType]
         /\ \A q \in Runs : mon'[q].at = mon[q].at
         /\ \A q \in Runs \ {r} : mon'[q] = mon[q]
         /\ mon'[r].answer = IF mon[r].at = "start" /\ mon[r].answer = "none" THEN a ELSE mon[r].answer
<1>1. mon \in [Runs -> MonType]
  BY Types
<1>2. CASE mon' = [mon EXCEPT ![r].answer = a] /\ mon[r].at = "start" /\ mon[r].answer = "none"
  BY <1>1, <1>2 DEF MonType
<1>3. CASE mon' = mon /\ ~(mon[r].at = "start" /\ mon[r].answer = "none")
  BY <1>1, <1>3
<1>4. QED BY <1>2, <1>3 DEF Reply

LEMMA TargetStartStep ==
  ASSUME IInv, NEW r \in Runs, TargetStart(r)
  PROVE  IInv' /\ (HoldsAll => HoldsAll')
<1> USE DEF IInv
<1>1. /\ <<r, "start">> \in net /\ net' \subseteq net /\ UNCHANGED <<row, lease, hub, told>>
      /\ \A q \in Runs \ {r} : <<q, "start">> \in net' <=> <<q, "start">> \in net
  BY DEF TargetStart
<1>2. /\ proc \in [Runs -> ProcType] /\ net \in SUBSET (Runs \X {"start", "cancel"})
      /\ target \in [receipt : [Runs -> {"none", "running"} \cup Ended],
                     jobs : SUBSET Runs, aborted : SUBSET Runs]
      /\ faults \in 0 .. MaxFaults /\ MaxFaults \in Nat
  BY Types, RunsAssumption
<1>3. faults' \in 0 .. MaxFaults
  BY <1>2 DEF TargetStart, Fault
<1>4. DueOnce' /\ Due' = Due
  BY <1>1, DueSame
<1>5. Reports'
  <2>1. RowsKept
    BY <1>1, RowsKeptWhen
  <2>2. QED BY <1>1, <1>4, <2>1, ReportsKept
<1>6. HoldsAll => HoldsAll'
  BY <1>1 DEF HoldsAll
<1>7. ASSUME target.receipt[r] # "none", Reply(r, "unknown"), UNCHANGED <<target, proc>>
      PROVE  IInv'
  <2>1. mon' \in [Runs -> MonType] /\ \A q \in Runs : mon'[q].at = mon[q].at
    BY <1>7, ReplyType
  <2>2. TypeOK' /\ Quietly
    BY <1>1, <1>2, <1>3, <1>7, <2>1, WatchQuiet
  <2>3. QED BY <1>4, <1>5, <2>2, QuietStarts
<1>8. ASSUME Admit(r), NEW a \in {"running", "refused", "unknown"}, Reply(r, a)
      PROVE  IInv'
  <2>1. mon' \in [Runs -> MonType] /\ \A q \in Runs : mon'[q].at = mon[q].at
    BY <1>8, ReplyType
  <2>2. target.receipt[r] = "none" /\ proc[r] = NoProc /\ Cleared(r)
    BY <1>1, <1>8 DEF Admit, StartsOnce, PrerequisiteMet, Startable, OnItsWay
  <2>3. target' = [target EXCEPT !.receipt[r] = "running", !.jobs = @ \cup {r}]
    BY <1>8 DEF Admit
  <2>4. /\ target' \in [receipt : [Runs -> {"none", "running"} \cup Ended],
                        jobs : SUBSET Runs, aborted : SUBSET Runs]
        /\ \A q \in Runs : target'.receipt[q] = IF q = r THEN "running" ELSE target.receipt[q]
    <3> DEFINE c == [target.receipt EXCEPT ![r] = "running"]
               j == target.jobs \cup {r}
    <3>1. c \in [Runs -> {"none", "running"} \cup Ended] /\ j \in SUBSET Runs
          /\ \A q \in Runs : c[q] = IF q = r THEN "running" ELSE target.receipt[q]
      BY <1>2
    <3>2. target' = [target EXCEPT !.receipt = c, !.jobs = j]
      BY <1>2, <2>3
    <3> HIDE DEF c, j
    <3>3. QED BY <1>2, <3>1, <3>2
  <2>5. proc' \in [Runs -> ProcType]
        /\ \A q \in Runs : proc'[q] = IF q = r THEN [st |-> "alive", starts |-> 1] ELSE proc[q]
    <3>1. proc[r].starts = 0
      BY <2>2 DEF NoProc
    <3>2. proc' = [proc EXCEPT ![r] = [st |-> "alive", starts |-> 1]]
      BY <1>2, <1>8, <3>1 DEF Started, Admit
    <3>3. [st |-> "alive", starts |-> 1] \in ProcType
      BY DEF ProcType
    <3>4. QED BY <1>2, <3>2, <3>3
  <2>6. TypeOK'
    BY <1>1, <1>2, <1>3, <2>1, <2>4, <2>5, Types DEF TypeOK, MonType, ProcType
  <2>7. mon[r].at # "prep" /\ Task("launch", r) \notin Due /\ row[r].state \notin {"none", "queued"}
    BY <1>1 DEF StartsOnce, Untouched
  <2>8. ~Startable(r)'
    <3>1. target'.receipt[r] # "none" /\ mon'[r].at # "prep"
      BY <2>1, <2>4, <2>7
    <3>2. QED BY <1>4, <2>7, <3>1 DEF Startable, OnItsWay
  <2>9. StartsOnce' /\ PrerequisiteMet'
    <3>1. row[r].state # "succeeded"
      BY <2>2 DEF PrerequisiteMet, NoProc
    <3>2. proc'[r].starts <= 1 /\ (proc'[r].starts = 0 <=> proc'[r].st = "none")
      BY <2>5
    <3>3. Task("launch", r) \notin Due' /\ mon'[r].at # "prep" /\ row' = row
          /\ target'.receipt[r] = "running"
      BY <1>1, <1>4, <2>1, <2>4, <2>7
    <3>4. QED BY <1>1, <1>4, <2>1, <2>2, <2>4, <2>5, <2>7, <2>8, <3>1, <3>2, <3>3, OneStarts
  <2>10. QED BY <1>4, <1>5, <2>6, <2>9
<1>9. QED BY <1>6, <1>7, <1>8 DEF TargetStart

\* A command ends, and its receipt says how if the executor can write it.
LEMMA ExitFacts ==
  ASSUME IInv, NEW r \in Runs, Exit(r)
  PROVE  \E s \in {"succeeded", "cancelled", "failed"} :
           /\ proc[r].st = "alive" /\ proc' \in [Runs -> ProcType]
           /\ \A q \in Runs : proc'[q].st = IF q = r THEN s ELSE proc[q].st
           /\ \A q \in Runs : proc'[q].starts = proc[q].starts /\ (q # r => proc'[q] = proc[q])
           /\ target' \in [receipt : [Runs -> {"none", "running"} \cup Ended],
                           jobs : SUBSET Runs, aborted : SUBSET Runs]
           /\ \A q \in Runs \ {r} : target'.receipt[q] = target.receipt[q]
           /\ target'.receipt[r] = target.receipt[r] \/ (row[r].remote /\ target'.receipt[r] = s)
<1>1. /\ proc \in [Runs -> ProcType] /\ proc[r].st = "alive"
      /\ target \in [receipt : [Runs -> {"none", "running"} \cup Ended],
                     jobs : SUBSET Runs, aborted : SUBSET Runs]
  BY Types DEF IInv, Exit
<1>2. PICK s \in {"succeeded", "cancelled", "failed"} :
        /\ proc' = [proc EXCEPT ![r].st = s]
        /\ \/ row[r].remote /\ target' = [target EXCEPT !.receipt[r] = s, !.jobs = @ \ {r}]
           \/ UNCHANGED target
  BY DEF Exit
<1>3. /\ proc' \in [Runs -> ProcType]
      /\ \A q \in Runs : proc'[q].st = IF q = r THEN s ELSE proc[q].st
      /\ \A q \in Runs : proc'[q].starts = proc[q].starts /\ (q # r => proc'[q] = proc[q])
  BY <1>1, <1>2 DEF ProcType
<1>4. CASE row[r].remote /\ target' = [target EXCEPT !.receipt[r] = s, !.jobs = @ \ {r}]
  <2> DEFINE c == [target.receipt EXCEPT ![r] = s]
             j == target.jobs \ {r}
  <2>1. c \in [Runs -> {"none", "running"} \cup Ended] /\ j \in SUBSET Runs
        /\ \A q \in Runs : c[q] = IF q = r THEN s ELSE target.receipt[q]
    BY <1>1 DEF Ended
  <2>2. target' = [target EXCEPT !.receipt = c, !.jobs = j]
    BY <1>1, <1>4
  <2> HIDE DEF c, j
  <2>3. /\ target' \in [receipt : [Runs -> {"none", "running"} \cup Ended],
                        jobs : SUBSET Runs, aborted : SUBSET Runs]
        /\ target'.receipt = c
    BY <1>1, <2>1, <2>2
  <2>4. QED BY <1>1, <1>3, <1>4, <2>1, <2>3
<1>5. CASE UNCHANGED target
  BY <1>1, <1>3, <1>5
<1>6. QED BY <1>2, <1>4, <1>5

LEMMA ExitStep ==
  ASSUME IInv, NEW r \in Runs, Exit(r)
  PROVE  IInv' /\ (HoldsAll => HoldsAll')
<1> USE DEF IInv
<1>1. PICK s \in {"succeeded", "cancelled", "failed"} :
           /\ proc[r].st = "alive" /\ proc' \in [Runs -> ProcType]
           /\ \A q \in Runs : proc'[q].st = IF q = r THEN s ELSE proc[q].st
           /\ \A q \in Runs : proc'[q].starts = proc[q].starts /\ (q # r => proc'[q] = proc[q])
           /\ target' \in [receipt : [Runs -> {"none", "running"} \cup Ended],
                           jobs : SUBSET Runs, aborted : SUBSET Runs]
           /\ \A q \in Runs \ {r} : target'.receipt[q] = target.receipt[q]
           /\ target'.receipt[r] = target.receipt[r] \/ (row[r].remote /\ target'.receipt[r] = s)
  BY ExitFacts
<1>2. UNCHANGED <<row, lease, hub, mon, net, told, faults>>
  BY DEF Exit
<1>3. DueOnce' /\ Due' = Due
  BY <1>2, DueSame
<1>4. TypeOK'
  BY <1>1, <1>2, Types DEF TypeOK, ProcType
<1>5. ~Startable(r) /\ row[r].state \notin {"none", "queued"} /\ proc[r].starts > 0 /\ proc[r].starts <= 1
  <2>1. proc[r] # NoProc
    BY <1>1 DEF NoProc
  <2>2. proc[r].starts <= 1 /\ proc[r].starts # 0 /\ proc[r].starts \in Nat
    BY <1>1 DEF StartsOnce, TypeOK
  <2>3. ~Startable(r)
    BY <2>1 DEF StartsOnce
  <2>4. row[r].state \notin {"none", "queued"}
    BY <2>1 DEF StartsOnce, Untouched
  <2>5. QED BY <2>2, <2>3, <2>4
<1>6. ~Startable(r)' /\ mon[r].at # "prep" /\ Task("launch", r) \notin Due'
  BY <1>1, <1>2, <1>3, <1>5 DEF Startable, OnItsWay
<1>7. StartsOnce' /\ PrerequisiteMet'
  <2>1. Cleared(r)
    BY <1>5 DEF PrerequisiteMet
  <2>2. row[r].state # "succeeded"
    BY <1>1 DEF PrerequisiteMet
  <2>3. target'.receipt[r] \notin {"none", "running"} => proc'[r].st = target'.receipt[r]
    <3>1. target.receipt[r] \in {"none", "running"} \cup Ended
      BY DEF TypeOK
    <3>2. target.receipt[r] \in {"none", "running"}
      BY <1>1, <3>1 DEF PrerequisiteMet, Ended
    <3>3. QED BY <1>1, <3>2
  <2>4. proc'[r].starts <= 1 /\ (proc'[r].starts = 0 <=> proc'[r].st = "none")
    BY <1>1, <1>5
  <2>5. QED BY <1>1, <1>2, <1>3, <1>5, <1>6, <2>1, <2>2, <2>3, <2>4, OneStarts
<1>8. Reports'
  <2>1. RowsKept
    BY <1>2, RowsKeptWhen
  <2>2. QED BY <1>2, <1>3, <2>1, ReportsKept
<1>9. HoldsAll => HoldsAll'
  BY <1>2 DEF HoldsAll
<1>10. QED BY <1>3, <1>4, <1>7, <1>8, <1>9

-----------------------------------------------------------------------------
(* The invariant.                                                             *)

LEMMA InitHolds == Init => IInv /\ HInv
<1> SUFFICES ASSUME Init PROVE IInv /\ HInv
  OBVIOUS
<1> USE DEF Init
<1>1. TypeOK
  <2>1. First \in Hubs \/ Hubs = {}
    BY DEF First
  <2>2. hub \in [Hubs -> HubType]
    <3>1. \A h \in Hubs : hub[h] = [st |-> IF h = First THEN "up" ELSE "off", todo |-> <<>>, own |-> {}]
      OBVIOUS
    <3>2. <<>> \in Seq(Tasks)
      OBVIOUS
    <3>3. QED BY <3>1, <3>2 DEF HubType
  <2>3. row \in [Runs -> RowType] /\ lease \in [Res -> Runs \cup {None}]
    BY DEF RowType, States
  <2>4. mon \in [Runs -> MonType]
    BY DEF MonType, NoMon
  <2>5. proc \in [Runs -> ProcType] /\ told \in [Runs -> ToldType]
    BY DEF ProcType, ToldType
  <2>6. faults \in 0 .. MaxFaults
    BY RunsAssumption
  <2>7. target \in [receipt : [Runs -> {"none", "running"} \cup Ended], jobs : SUBSET Runs, aborted : SUBSET Runs]
    OBVIOUS
  <2>8. net \in SUBSET (Runs \X {"start", "cancel"})
    OBVIOUS
  <2>9. QED BY <2>2, <2>3, <2>4, <2>5, <2>6, <2>7, <2>8, Types
<1>2. \A h \in Hubs : DOMAIN hub[h].todo = {}
  OBVIOUS
<1>3. Due = {}
  BY <1>2 DEF Due
<1>4. DueOnce
  BY <1>2, <1>3 DEF DueOnce
<1>5. \A r \in Runs : Untouched(r) /\ ~Startable(r) /\ Cleared(r) /\ row[r].state = "none" /\ proc[r] = NoProc
  BY <1>3 DEF Untouched, Startable, OnItsWay, NoProc, Cleared, NoMon
<1>6. StartsOnce
  BY <1>3, <1>5 DEF StartsOnce, NoProc, NoMon
<1>7. PrerequisiteMet
  BY <1>5 DEF PrerequisiteMet, NoProc
<1>8. Reports
  BY <1>3 DEF Reports
<1>9. HInv
  BY <1>5 DEF HInv, HoldsAll, Answers, OutcomeHonest, AliveKnown, NoMon, NoProc
<1>10. QED BY <1>1, <1>4, <1>6, <1>7, <1>8, <1>9 DEF IInv

\* Every step keeps the invariant: most of them quietly.
LEMMA QuietKeeps ==
  ASSUME IInv, TypeOK', Quietly, RowsKept \/ Reports'
  PROVE  IInv' /\ (HoldsAll => HoldsAll')
<1> USE DEF IInv
<1>1. StartsOnce' /\ PrerequisiteMet'
  BY QuietStarts
<1>2. Reports'
  BY QuietReports
<1>3. HoldsAll => HoldsAll'
  BY QuietHoldsAll
<1>4. QED BY <1>1, <1>2, <1>3 DEF Quietly

LEMMA StepKeeps ==
  ASSUME IInv, [Next]_vars
  PROVE  IInv' /\ (HoldsAll => HoldsAll')
<1>1. CASE UNCHANGED vars
  <2>1. UNCHANGED <<row, lease, hub, mon, net, target, proc, told, faults>>
    BY <1>1 DEF vars
  <2>2. Due' = Due
    BY <2>1 DEF Due
  <2>3. TypeOK' /\ DueOnce'
    BY <2>1, <2>2 DEF IInv, TypeOK, DueOnce
  <2>4. StartsOnce' /\ PrerequisiteMet' /\ Reports'
    BY <2>1, <2>2 DEF IInv, StartsOnce, PrerequisiteMet, Reports, Untouched, Startable, OnItsWay, Cleared
  <2>5. HoldsAll => HoldsAll'
    BY <2>1 DEF HoldsAll
  <2>6. QED BY <2>3, <2>4, <2>5 DEF IInv
<1>2. ASSUME NEW h \in Hubs, Work(h) \/ NotifyFails(h)
      PROVE  IInv' /\ (HoldsAll => HoldsAll')
  <2>1. CASE PumpDone(h)
    BY <2>1, PumpDoneQuiet, QuietKeeps
  <2>2. ASSUME NEW r \in Runs, FailBlocked(h, r)
        PROVE  IInv' /\ (HoldsAll => HoldsAll')
    BY <2>2, FailBlockedQuiet, QuietKeeps
  <2>3. ASSUME NEW r \in Runs, Claim(h, r)
        PROVE  IInv' /\ (HoldsAll => HoldsAll')
    BY <2>3, ClaimStep
  <2>4. CASE Launch(h)
    BY <2>4, LaunchStep
  <2>5. CASE Journal(h)
    BY <2>5, JournalReports, QuietKeeps
  <2>6. CASE Notify(h)
    BY <2>6, NotifyQuiet, QuietKeeps
  <2>7. CASE Mark(h)
    BY <2>7, MarkQuiet, QuietKeeps
  <2>8. CASE Pending(h)
    BY <2>8, PendingQuiet, QuietKeeps
  <2>9. CASE Reconcile(h)
    BY <2>9, ReconcileQuiet, QuietKeeps
  <2>10. CASE NotifyFails(h)
    BY <2>10, NotifyFailsQuiet, QuietKeeps
  <2>11. QED BY <1>2, <2>1, <2>2, <2>3, <2>4, <2>5, <2>6, <2>7, <2>8, <2>9, <2>10 DEF Work
<1>3. ASSUME NEW h \in Hubs,
             Tick(h) \/ Boot(h) \/ Rebind(h) \/ Shutdown(h) \/ Kill(h) \/ \E g \in Hubs : TakeOver(h, g)
      PROVE  IInv' /\ (HoldsAll => HoldsAll')
  <2>1. CASE Tick(h)
    BY <2>1, TickQuiet, QuietKeeps
  <2>2. CASE Boot(h)
    BY <2>2, BootQuiet, QuietKeeps
  <2>3. CASE Rebind(h)
    BY <2>3, RebindQuiet, QuietKeeps
  <2>4. CASE Shutdown(h)
    BY <2>4, ShutdownQuiet, QuietKeeps
  <2>5. CASE Kill(h)
    BY <2>5, KillQuiet, QuietKeeps
  <2>6. CASE \E g \in Hubs : TakeOver(h, g)
    BY <2>6, TakeOverQuiet, QuietKeeps
  <2>7. QED BY <1>3, <2>1, <2>2, <2>3, <2>4, <2>5, <2>6
<1>4. ASSUME NEW h \in Hubs, NEW r \in Runs,
             \/ Create(h, r) \/ Settle(h, r) \/ Cancel(h, r) \/ Heartbeat(h, r)
             \/ Watch(h, r) \/ SendCancel(h, r) \/ StartTimesOut(h, r) \/ PollLost(h, r)
      PROVE  IInv' /\ (HoldsAll => HoldsAll')
  <2>1. CASE Create(h, r)
    <3>1. IInv' /\ \A q \in Runs : row'[q].state = "running" => row'[q] = row[q]
      BY <2>1, CreateStep
    <3>2. lease' = lease
      BY <2>1 DEF Create
    <3>3. QED BY <3>1, <3>2 DEF HoldsAll
  <2>2. CASE Settle(h, r)
    BY <2>2, SettleQuiet, QuietKeeps
  <2>3. CASE Cancel(h, r)
    BY <2>3, CancelQuiet, QuietKeeps
  <2>4. CASE Heartbeat(h, r)
    BY <2>4, HeartbeatsQuiet, QuietKeeps
  <2>5. CASE PrepareFails(h, r)
    BY <2>5, PrepareFailsQuiet, QuietKeeps
  <2>6. CASE SendStart(h, r)
    BY <2>6, SendStartStep
  <2>7. CASE StartAnswered(h, r)
    BY <2>7, StartAnsweredQuiet, QuietKeeps
  <2>8. CASE Poll(h, r)
    BY <2>8, PollQuiet, QuietKeeps
  <2>9. CASE GiveUp(h, r)
    BY <2>9, GiveUpQuiet, QuietKeeps
  <2>10. CASE SendCancel(h, r) \/ StartTimesOut(h, r) \/ PollLost(h, r)
    BY <2>10, NotesQuiet, QuietKeeps
  <2>11. QED
    BY <1>4, <2>1, <2>2, <2>3, <2>4, <2>5, <2>6, <2>7, <2>8, <2>9, <2>10 DEF Watch
<1>5. ASSUME NEW r \in Runs,
             TargetStart(r) \/ TargetRefuses(r) \/ TargetCancel(r) \/ Exit(r) \/ GoStale(r) \/ Sleep(r)
      PROVE  IInv' /\ (HoldsAll => HoldsAll')
  <2>1. CASE TargetStart(r)
    BY <2>1, TargetStartStep
  <2>2. CASE TargetRefuses(r) \/ TargetCancel(r)
    BY <2>2, NetworkQuiet, QuietKeeps
  <2>3. CASE Exit(r)
    BY <2>3, ExitStep
  <2>4. CASE GoStale(r) \/ Sleep(r)
    BY <2>4, TimeQuiet, QuietKeeps
  <2>5. QED BY <1>5, <2>1, <2>2, <2>3, <2>4
<1>6. CASE Lose \/ TargetRestart
  BY <1>6, LossQuiet, QuietKeeps
<1>7. QED BY <1>1, <1>2, <1>3, <1>4, <1>5, <1>6 DEF Next

\* A run happens once whatever goes wrong: every command starts at most once and after its
\* prerequisite, and the end of every run is journaled once and told once.
THEOREM TypeCorrect == Spec => []TypeOK
<1>1. Init => IInv
  BY InitHolds
<1>2. IInv /\ [Next]_vars => IInv'
  BY StepKeeps
<1>3. IInv => TypeOK
  BY DEF IInv
<1>4. QED BY <1>1, <1>2, <1>3, PTL DEF Spec

LEMMA IInvOnce == IInv => OncePerRun
<1> SUFFICES ASSUME IInv, NEW r \in Runs
             PROVE  /\ proc[r].starts <= 1
                    /\ proc[r].starts > 0 /\ row[r].dep # None => proc[row[r].dep].st = "succeeded"
                    /\ told[r].rows \in {<<>>, <<row[r].state>>}
                    /\ told[r].notices <= 1
  BY DEF OncePerRun, StartedOnce, ReportedOnce
<1> USE DEF IInv
<1>1. proc[r].starts <= 1
  BY DEF StartsOnce
<1>2. ASSUME proc[r].starts > 0, row[r].dep # None
      PROVE  proc[row[r].dep].st = "succeeded"
  <2>1. row[r].dep \in Runs
    BY <1>2 DEF TypeOK
  <2>2. row[row[r].dep].state = "succeeded"
    BY <1>2 DEF PrerequisiteMet, Cleared
  <2>3. QED BY <2>1, <2>2 DEF PrerequisiteMet
<1>3. told[r].rows \in {<<>>, <<row[r].state>>} /\ told[r].notices <= 1
  BY DEF Reports
<1>4. QED BY <1>1, <1>2, <1>3

THEOREM OncePerRunCorrect == Spec => []OncePerRun
<1>1. Init => IInv
  BY InitHolds
<1>2. IInv /\ [Next]_vars => IInv'
  BY StepKeeps
<1>3. QED BY <1>1, <1>2, IInvOnce, PTL DEF Spec

-----------------------------------------------------------------------------
(* While none of the troubles of Env is let in: what is recorded of a command  *)
(* is what it did.                                                             *)

\* Answers, OutcomeHonest and AliveKnown, of one run.
HonestRun(r) ==
  /\ mon[r].answer # "none" => mon[r].at = "start"
  /\ mon[r].at = "start" /\ mon[r].answer = "none" => target.receipt[r] = "none"
  /\ mon[r].answer = "refused" => target.receipt[r] = "none" /\ <<r, "start">> \notin net
                                /\ proc[r] = NoProc
  /\ Startable(r) => row[r].state \in {"running", "outcome_unknown"}
  /\ mon[r].at # "none" => row[r].remote
  /\ row[r].remote /\ target.receipt[r] = "none" => proc[r] = NoProc
  /\ row[r].state = "succeeded" => proc[r].st = "succeeded"
  /\ row[r].state = "failed" => proc[r].st \in {"none", "failed", "cancelled"}
  /\ row[r].state = "cancelled" => proc[r].st # "alive"
  /\ proc[r].st = "alive" => row[r].state \in {"running", "outcome_unknown"}

Honest == \A r \in Runs : HonestRun(r)

LEMMA HonestParts == Honest <=> Answers /\ OutcomeHonest /\ AliveKnown
<1>1. ASSUME Honest PROVE Answers /\ OutcomeHonest /\ AliveKnown
  BY <1>1 DEF Honest, HonestRun, Answers, OutcomeHonest, AliveKnown
<1>2. ASSUME Answers, OutcomeHonest, AliveKnown PROVE Honest
  <2> SUFFICES ASSUME NEW r \in Runs PROVE HonestRun(r)
    BY DEF Honest
  <2>1. QED BY <1>2 DEF HonestRun, Answers, OutcomeHonest, AliveKnown
<1>3. QED BY <1>1, <1>2

\* A run ends as it went, or in a way nobody claims to know.
EndsHonest ==
  \A r \in Runs : row'[r].state # row[r].state =>
    \/ row'[r].state = "outcome_unknown"
    \/ /\ ~Startable(r)' /\ proc[r].st # "alive"
       /\ row'[r].state = "failed" => proc[r].st \in {"none", "failed", "cancelled"}

AnswersKept ==
  \A r \in Runs :
    /\ mon'[r].answer # "none" => mon'[r].at = "start"
    /\ mon'[r].at = "start" /\ mon'[r].answer = "none" => mon[r].at = "start" /\ mon[r].answer = "none"
    /\ mon'[r].answer = "refused" =>
         \/ mon[r].answer = "refused"
         \/ target.receipt[r] = "none" /\ <<r, "start">> \notin net' /\ proc[r] = NoProc

LEMMA QuietHonest ==
  ASSUME IInv, Honest, Quietly, EndsHonest, AnswersKept
  PROVE  Honest'
<1> SUFFICES ASSUME NEW r \in Runs PROVE HonestRun(r)'
  BY DEF Honest
<1>1. /\ mon[r].at = "none" => mon'[r].at = "none"
      /\ <<r, "start">> \in net' => <<r, "start">> \in net
      /\ target'.receipt[r] = target.receipt[r] /\ proc'[r] = proc[r]
      /\ row'[r].remote = row[r].remote
  BY DEF Quietly, NoNewStart, Moves
<1>2. Startable(r)' => Startable(r)
  BY DEF Startable, OnItsWay, Quietly, NoNewStart
<1>3. row'[r].state = row[r].state \/ (row[r].state \in {"queued", "running"} /\ row'[r].state \in Ended)
  BY DEF Quietly, Moves
<1>4. HonestRun(r)
  BY DEF Honest
<1>5. /\ mon'[r].answer # "none" => mon'[r].at = "start"
      /\ mon'[r].at = "start" /\ mon'[r].answer = "none" => target'.receipt[r] = "none"
      /\ mon'[r].answer = "refused" => target'.receipt[r] = "none" /\ <<r, "start">> \notin net'
                                     /\ proc'[r] = NoProc
      /\ mon'[r].at # "none" => row'[r].remote
      /\ row'[r].remote /\ target'.receipt[r] = "none" => proc'[r] = NoProc
  BY <1>1, <1>4 DEF AnswersKept, HonestRun
<1>6. row'[r].state = "succeeded" => proc'[r].st = "succeeded"
  BY <1>1 DEF Quietly, Ends
<1>7. /\ Startable(r)' => row'[r].state \in {"running", "outcome_unknown"}
      /\ row'[r].state = "failed" => proc'[r].st \in {"none", "failed", "cancelled"}
      /\ row'[r].state = "cancelled" => proc'[r].st # "alive"
      /\ proc'[r].st = "alive" => row'[r].state \in {"running", "outcome_unknown"}
  <2>1. CASE row'[r].state = row[r].state
    BY <1>1, <1>2, <1>4, <2>1 DEF HonestRun
  <2>2. CASE row'[r].state = "outcome_unknown"
    BY <2>2
  <2>3. CASE /\ ~Startable(r)' /\ proc[r].st # "alive"
             /\ row'[r].state = "failed" => proc[r].st \in {"none", "failed", "cancelled"}
    BY <1>1, <2>3
  <2>4. QED BY <2>1, <2>2, <2>3 DEF EndsHonest
<1>8. QED BY <1>5, <1>6, <1>7 DEF HonestRun, Startable, OnItsWay, Task, NoProc

\* The steps that record no end.
LEMMA NoEndHonest ==
  ASSUME \A r \in Runs : row'[r].state = row[r].state
  PROVE  EndsHonest
BY DEF EndsHonest

LEMMA ForgetsHonest ==
  ASSUME Honest, \A r \in Runs : mon'[r] = mon[r] \/ mon'[r] = NoMon
  PROVE  AnswersKept
<1>1. NoMon.answer = "none" /\ NoMon.at = "none"
  BY DEF NoMon
<1>2. \A r \in Runs : mon[r].answer # "none" => mon[r].at = "start"
  BY DEF Honest, HonestRun
<1>3. QED BY <1>1, <1>2 DEF AnswersKept

\* A run not yet claimed, and one whose command ended, will not be started.
LEMMA NotStartable ==
  ASSUME IInv, NEW r \in Runs, Quietly,
         row[r].state = "queued" \/ proc[r].st # "none" \/ (mon[r].at \in {"start", "poll"} /\ target.receipt[r] # "none")
  PROVE  ~Startable(r)' /\ (row[r].state = "queued" => proc[r] = NoProc)
<1> USE DEF IInv
<1>1. Startable(r)' => Startable(r)
  BY DEF Startable, OnItsWay, Quietly, NoNewStart
<1>2. CASE row[r].state = "queued"
  BY <1>1, <1>2 DEF StartsOnce, Untouched, Startable, OnItsWay
<1>3. CASE proc[r].st # "none"
  <2>1. proc[r] # NoProc
    BY <1>3 DEF NoProc
  <2>2. ~Startable(r) /\ row[r].state # "queued"
    BY <2>1 DEF StartsOnce, Untouched
  <2>3. QED BY <1>1, <2>2
<1>4. CASE mon[r].at \in {"start", "poll"} /\ target.receipt[r] # "none"
  <2>1. ~Startable(r)
    BY <1>4 DEF StartsOnce, Startable, OnItsWay, Untouched
  <2>2. row[r].state # "queued"
    BY <1>4 DEF StartsOnce, Untouched
  <2>3. QED BY <1>1, <2>1, <2>2
<1>5. QED BY <1>2, <1>3, <1>4

LEMMA UnblockedHonest ==
  ASSUME IInv, Honest, NEW h \in Hubs, NEW r \in Runs, FailBlocked(h, r) \/ Cancel(h, r)
  PROVE  Honest'
<1> USE DEF IInv
<1>1. UNCHANGED mon /\ Quietly
      /\ \A q \in Runs : row'[q].state # row[q].state => row[q].state = "queued"
  <2>1. CASE FailBlocked(h, r)
    <3>1. row \in [Runs -> RowType]
      BY Types
    <3>2. row[r].state = "queued" /\ row' = [row EXCEPT ![r].state = "failed"]
      BY <2>1 DEF FailBlocked, Turn, Ahead, In
    <3>3. \A q \in Runs : row'[q].state # row[q].state => row[q].state = "queued"
      BY <3>1, <3>2 DEF RowType
    <3>4. QED BY <2>1, <3>3, FailBlockedQuiet DEF FailBlocked
  <2>2. CASE Cancel(h, r)
    BY <2>2, CancelQuiet DEF Cancel
  <2>3. QED BY <2>1, <2>2
<1>2. EndsHonest
  <2> SUFFICES ASSUME NEW q \in Runs, row'[q].state # row[q].state
               PROVE  ~Startable(q)' /\ proc[q].st \notin {"alive"} /\ proc[q].st = "none"
    BY DEF EndsHonest
  <2>1. row[q].state = "queued"
    BY <1>1
  <2>2. ~Startable(q)' /\ proc[q] = NoProc
    BY <1>1, <2>1, NotStartable
  <2>3. QED BY <2>2 DEF NoProc
<1>3. AnswersKept
  BY <1>1, ForgetsHonest
<1>4. QED BY <1>1, <1>2, <1>3, QuietHonest

LEMMA SettleHonest ==
  ASSUME IInv, Honest, NEW h \in Hubs, NEW r \in Runs, Settle(h, r)
  PROVE  Honest'
<1>1. UNCHANGED mon /\ Quietly /\ proc[r].st \notin {"none", "alive"}
  BY SettleQuiet DEF Settle
<1>2. PICK s \in Ended : Finished(r, s) /\ s \in {"cancelled", proc[r].st}
  BY SettleQuiet
<1>3. \A q \in Runs : row'[q].state # row[q].state => q = r /\ row'[q].state \in {"cancelled", proc[r].st}
  BY <1>2 DEF Finished
<1>4. ~Startable(r)'
  BY <1>1, NotStartable
<1>5. EndsHonest
  BY <1>1, <1>3, <1>4 DEF EndsHonest
<1>6. AnswersKept
  BY <1>1, ForgetsHonest
<1>7. QED BY <1>1, <1>5, <1>6, QuietHonest

\* What the watch over a remote command may report.
LEMMA ResultHonest ==
  ASSUME IInv, Honest, Env = {}, NEW h \in Hubs, NEW r \in Runs, NEW s \in Ended,
         RemoteResult(h, r, s), UNCHANGED <<net, faults>>,
         s = "succeeded" => proc[r].st = "succeeded",
         \/ s = "outcome_unknown"
         \/ /\ mon[r].at = "prep" \/ ~Startable(r)
            /\ proc[r].st # "alive" /\ (s = "failed" => proc[r].st \in {"none", "failed", "cancelled"})
  PROVE  Honest'
<1>1. /\ TypeOK' /\ Quietly /\ Finished(r, s)
      /\ \A q \in Runs : mon'[q] = IF q = r THEN NoMon ELSE mon[q]
  BY RemoteResultQuiet
<1>2. AnswersKept
  BY <1>1, ForgetsHonest
<1>3. \A q \in Runs : row'[q].state # row[q].state => q = r /\ row'[q].state = s
  BY <1>1 DEF Finished
<1>4. CASE s = "outcome_unknown"
  <2>1. EndsHonest
    BY <1>3, <1>4 DEF EndsHonest
  <2>2. QED BY <1>1, <1>2, <2>1, QuietHonest
<1>5. CASE /\ mon[r].at = "prep" \/ ~Startable(r)
           /\ proc[r].st # "alive" /\ (s = "failed" => proc[r].st \in {"none", "failed", "cancelled"})
  <2>1. ~Startable(r)'
    <3>1. CASE ~Startable(r)
      BY <1>1, <3>1 DEF Startable, OnItsWay, Quietly, NoNewStart
    <3>2. CASE mon[r].at = "prep"
      <4>1. <<r, "start">> \notin net' /\ Task("launch", r) \notin Due'
        BY <1>1, <3>2 DEF IInv, StartsOnce, Untouched, Quietly, NoNewStart
      <4>2. mon'[r].at # "prep"
        BY <1>1 DEF NoMon
      <4>3. QED BY <4>1, <4>2 DEF Startable, OnItsWay, Task
    <3>3. QED BY <1>5, <3>1, <3>2
  <2>2. EndsHonest
    BY <1>3, <1>5, <2>1 DEF EndsHonest
  <2>3. QED BY <1>1, <1>2, <2>2, QuietHonest
<1>6. QED BY <1>4, <1>5

\* Steps of the watch that only note something.
LEMMA NoteHonest ==
  ASSUME IInv, Honest, Quietly, row' = row, NEW r \in Runs,
         \A q \in Runs \ {r} : mon'[q] = mon[q],
         mon'[r].answer # "none" => mon'[r] = mon[r] \/ (mon'[r].at = "start" /\ mon[r].answer = mon'[r].answer),
         mon'[r].at = "start" => mon[r].at = "start" /\ (mon'[r].answer = "none" => mon[r].answer = "none")
  PROVE  Honest'
<1>1. EndsHonest
  BY NoEndHonest
<1>2. AnswersKept
  <2>1. \A q \in Runs : mon[q].answer # "none" => mon[q].at = "start"
    BY DEF Honest, HonestRun
  <2>2. QED BY <2>1 DEF AnswersKept
<1>3. QED BY <1>1, <1>2, QuietHonest

LEMMA PrepareFailsHonest ==
  ASSUME IInv, Honest, Env = {}, NEW h \in Hubs, NEW r \in Runs, PrepareFails(h, r)
  PROVE  Honest'
<1>1. /\ mon[r].at = "prep" /\ RemoteResult(h, r, "failed") /\ UNCHANGED <<net, faults>>
      /\ "failed" \in Ended
  BY DEF PrepareFails, At, Ended
<1>2. proc[r].st = "none"
  <2>1. proc[r] = NoProc
    BY <1>1 DEF IInv, StartsOnce, Startable
  <2>2. QED BY <2>1 DEF NoProc
<1>3. QED BY <1>1, <1>2, ResultHonest

LEMMA GiveUpHonest ==
  ASSUME IInv, Honest, Env = {}, NEW h \in Hubs, NEW r \in Runs, GiveUp(h, r)
  PROVE  Honest'
<1>1. RemoteResult(h, r, "outcome_unknown") /\ UNCHANGED <<net, faults>> /\ "outcome_unknown" \in Ended
  BY DEF GiveUp, Ended
<1>2. QED BY <1>1, ResultHonest

LEMMA StartAnsweredHonest ==
  ASSUME IInv, Honest, Env = {}, NEW h \in Hubs, NEW r \in Runs, StartAnswered(h, r)
  PROVE  Honest'
<1>1. UNCHANGED <<net, faults>> /\ "failed" \in Ended /\ "outcome_unknown" \in Ended /\ mon[r].at = "start"
  BY DEF StartAnswered, Ended, At
<1>2. CASE mon[r].answer = "refused" /\ RemoteResult(h, r, "failed")
  <2>1. target.receipt[r] = "none" /\ <<r, "start">> \notin net /\ proc[r] = NoProc
    BY <1>2 DEF Honest, HonestRun
  <2>2. proc[r].st = "none"
    BY <2>1 DEF NoProc
  <2>3. ~Startable(r)
    BY <1>1, <2>1 DEF Startable, OnItsWay, IInv, StartsOnce, Untouched
  <2>4. QED BY <1>1, <1>2, <2>2, <2>3, ResultHonest
<1>3. CASE mon[r].answer = "unknown" /\ RemoteResult(h, r, "outcome_unknown")
  BY <1>1, <1>3, ResultHonest
<1>4. CASE /\ mon' = [mon EXCEPT ![r].at = "poll", ![r].answer = "none"]
           /\ UNCHANGED <<row, lease, hub, target, proc, told>>
  <2>1. mon \in [Runs -> MonType]
    BY Types DEF IInv
  <2>2. /\ mon'[r].answer = "none" /\ mon'[r].at = "poll"
        /\ \A q \in Runs \ {r} : mon'[q] = mon[q]
    BY <1>4, <2>1 DEF MonType
  <2>3. Quietly
    BY StartAnsweredQuiet
  <2>4. QED BY <1>4, <2>2, <2>3, NoteHonest
<1>5. QED BY <1>2, <1>3, <1>4 DEF StartAnswered

LEMMA PollHonest ==
  ASSUME IInv, Honest, Env = {}, NEW h \in Hubs, NEW r \in Runs, Poll(h, r)
  PROVE  Honest'
<1>1. UNCHANGED <<net, faults>> /\ mon[r].at = "poll"
  BY DEF Poll, At
<1>2. CASE Status(r) \in Ended /\ RemoteResult(h, r, Status(r))
  <2>1. target.receipt[r] # "none" /\ (Status(r) # "outcome_unknown" => proc[r].st = Status(r))
    BY <1>2, StatusIsTrue
  <2>2. ~Startable(r)
    BY <1>1, <2>1 DEF Startable, OnItsWay, IInv, StartsOnce, Untouched
  <2>3. QED BY <1>1, <1>2, <2>1, <2>2, ResultHonest DEF Ended
<1>3. CASE \E b \in BOOLEAN : Observed(r, b)
  <2>1. PICK b \in BOOLEAN : mon' = [mon EXCEPT ![r].gone = b] /\ row' = row
    BY <1>3 DEF Observed
  <2>2. mon \in [Runs -> MonType]
    BY Types DEF IInv
  <2>3. /\ mon'[r].answer = mon[r].answer /\ mon'[r].at = mon[r].at
        /\ \A q \in Runs \ {r} : mon'[q] = mon[q]
    BY <2>1, <2>2 DEF MonType
  <2>4. mon[r].answer = "none"
    BY <1>1 DEF Honest, HonestRun
  <2>5. Quietly
    BY PollQuiet
  <2>6. QED BY <1>1, <2>1, <2>3, <2>4, <2>5, NoteHonest
<1>4. QED BY <1>2, <1>3 DEF Poll

LEMMA NotesHonest ==
  ASSUME IInv, Honest, NEW h \in Hubs, NEW r \in Runs,
         SendCancel(h, r) \/ StartTimesOut(h, r) \/ PollLost(h, r)
  PROVE  Honest'
<1>1. mon \in [Runs -> MonType] /\ (mon[r].answer # "none" => mon[r].at = "start")
  BY Types DEF IInv, Honest, HonestRun
<1>2. Quietly
  BY NotesQuiet
<1>3. CASE SendCancel(h, r)
  <2>1. mon' = [mon EXCEPT ![r].sent = TRUE] /\ row' = row /\ mon[r].at = "poll"
    BY <1>3 DEF SendCancel, At
  <2>2. /\ mon'[r].answer = mon[r].answer /\ mon'[r].at = mon[r].at
        /\ \A q \in Runs \ {r} : mon'[q] = mon[q]
    BY <1>1, <2>1 DEF MonType
  <2>3. QED BY <1>1, <1>2, <2>1, <2>2, NoteHonest
<1>4. CASE StartTimesOut(h, r)
  <2>1. mon' = [mon EXCEPT ![r].at = "poll", ![r].answer = "none"] /\ row' = row
    BY <1>4 DEF StartTimesOut
  <2>2. /\ mon'[r].answer = "none" /\ mon'[r].at = "poll"
        /\ \A q \in Runs \ {r} : mon'[q] = mon[q]
    BY <1>1, <2>1 DEF MonType
  <2>3. QED BY <1>2, <2>1, <2>2, NoteHonest
<1>5. CASE PollLost(h, r)
  <2>1. mon' = [mon EXCEPT ![r].gone = TRUE] /\ row' = row /\ mon[r].at = "poll"
    BY <1>5 DEF PollLost, Observed, At
  <2>2. /\ mon'[r].answer = mon[r].answer /\ mon'[r].at = mon[r].at
        /\ \A q \in Runs \ {r} : mon'[q] = mon[q]
    BY <1>1, <2>1 DEF MonType
  <2>3. QED BY <1>1, <1>2, <2>1, <2>2, NoteHonest
<1>6. QED BY <1>3, <1>4, <1>5

LEMMA NetworkHonest ==
  ASSUME IInv, Honest, NEW r \in Runs, TargetRefuses(r) \/ TargetCancel(r)
  PROVE  Honest'
<1>1. Quietly /\ row' = row
  BY NetworkQuiet DEF TargetRefuses, TargetCancel
<1>2. CASE TargetRefuses(r)
  <2>1. /\ \A q \in Runs : mon'[q].at = mon[q].at
        /\ \A q \in Runs \ {r} : mon'[q] = mon[q]
        /\ mon'[r].answer = IF mon[r].at = "start" /\ mon[r].answer = "none" THEN "refused" ELSE mon[r].answer
    BY <1>2, ReplyType DEF TargetRefuses, IInv
  <2>2. <<r, "start">> \notin net'
    BY <1>2 DEF TargetRefuses
  <2>3. AnswersKept
    <3> SUFFICES ASSUME NEW q \in Runs
                 PROVE  /\ mon'[q].answer # "none" => mon'[q].at = "start"
                        /\ mon'[q].at = "start" /\ mon'[q].answer = "none" =>
                             mon[q].at = "start" /\ mon[q].answer = "none"
                        /\ mon'[q].answer = "refused" =>
                             \/ mon[q].answer = "refused"
                             \/ target.receipt[q] = "none" /\ <<q, "start">> \notin net' /\ proc[q] = NoProc
      BY DEF AnswersKept
    <3>1. HonestRun(q)
      BY DEF Honest
    <3>2. CASE q = r /\ mon[r].at = "start" /\ mon[r].answer = "none"
      <4>1. target.receipt[r] = "none" /\ proc[r] = NoProc
        BY <3>1, <3>2 DEF HonestRun
      <4>2. QED BY <2>1, <2>2, <3>2, <4>1
    <3>3. CASE ~(q = r /\ mon[r].at = "start" /\ mon[r].answer = "none")
      <4>1. mon'[q].at = mon[q].at /\ mon'[q].answer = mon[q].answer
        BY <2>1, <3>3
      <4>2. QED BY <3>1, <4>1 DEF HonestRun
    <3>4. QED BY <3>2, <3>3
  <2>4. QED BY <1>1, <2>3, NoEndHonest, QuietHonest
<1>3. CASE TargetCancel(r)
  <2>1. mon' = mon
    BY <1>3 DEF TargetCancel
  <2>2. QED BY <1>1, <2>1, NoEndHonest, ForgetsHonest, QuietHonest
<1>4. QED BY <1>2, <1>3

-----------------------------------------------------------------------------
(* The steps that start a command or end it.                                  *)

\* What a step that concerns one run leaves of the others.
Aside(r) ==
  \A q \in Runs \ {r} :
    /\ row'[q].state = row[q].state /\ row'[q].remote = row[q].remote
    /\ mon'[q].at = mon[q].at /\ mon'[q].answer = mon[q].answer
    /\ <<q, "start">> \in net' => <<q, "start">> \in net
    /\ target'.receipt[q] = target.receipt[q] /\ proc'[q] = proc[q]
    /\ Task("launch", q) \in Due' => Task("launch", q) \in Due

LEMMA AsideHonest ==
  ASSUME Honest, NEW r \in Runs, Aside(r), HonestRun(r)'
  PROVE  Honest'
<1> SUFFICES ASSUME NEW q \in Runs \ {r} PROVE HonestRun(q)'
  BY DEF Honest
<1>1. Startable(q)' => Startable(q)
  BY DEF Startable, OnItsWay, Aside, Task
<1>2. HonestRun(q)
  BY DEF Honest
<1>3. /\ row'[q].state = row[q].state /\ row'[q].remote = row[q].remote
      /\ mon'[q].at = mon[q].at /\ mon'[q].answer = mon[q].answer
      /\ <<q, "start">> \in net' => <<q, "start">> \in net
      /\ target'.receipt[q] = target.receipt[q] /\ proc'[q] = proc[q]
  BY DEF Aside
<1>4. QED BY <1>1, <1>2, <1>3 DEF HonestRun, NoProc

LEMMA CreateHonest ==
  ASSUME IInv, Honest, NEW h \in Hubs, NEW r \in Runs, Create(h, r)
  PROVE  Honest'
<1>1. /\ DueCalm /\ row[r].state = "none" /\ row'[r].state = "queued"
      /\ \A q \in Runs \ {r} : row'[q] = row[q]
  BY CreateStep
<1>2. UNCHANGED <<mon, net, target, proc>>
  BY DEF Create, outside
<1>3. Aside(r)
  BY <1>1, <1>2 DEF Aside, DueCalm, Task, Single
<1>4. /\ mon[r].at = "none" /\ <<r, "start">> \notin net /\ target.receipt[r] = "none" /\ proc[r] = NoProc
      /\ Task("launch", r) \notin Due
  BY <1>1 DEF IInv, StartsOnce, Untouched
<1>5. ~Startable(r)'
  BY <1>1, <1>2, <1>4 DEF Startable, OnItsWay, DueCalm, Task, Single
<1>6. proc[r].st = "none"
  BY <1>4 DEF NoProc
<1>7. mon[r].answer = "none"
  BY <1>4 DEF Honest, HonestRun
<1>8. HonestRun(r)'
  BY <1>1, <1>2, <1>4, <1>5, <1>6, <1>7 DEF HonestRun, NoProc
<1>9. QED BY <1>3, <1>8, AsideHonest

LEMMA ClaimHonest ==
  ASSUME IInv, Honest, NEW h \in Hubs, NEW r \in Runs, Claim(h, r)
  PROVE  Honest'
<1>1. /\ row[r].state = "queued" /\ row'[r].state = "running"
      /\ \A q \in Runs \ {r} : row'[q].state = row[q].state
      /\ \A q \in Runs : row'[q].remote = row[q].remote
      /\ \A t \in Due' : t.do \in Single => t \in Due \/ t = Task("launch", r)
  BY ClaimStep
<1>2. UNCHANGED <<mon, net, target, proc>>
  BY DEF Claim, outside
<1>3. Aside(r)
  BY <1>1, <1>2 DEF Aside, Task, Single
<1>4. HonestRun(r)
  BY DEF Honest
<1>5. HonestRun(r)'
  BY <1>1, <1>2, <1>4 DEF HonestRun, NoProc
<1>6. QED BY <1>3, <1>5, AsideHonest

LEMMA LaunchHonest ==
  ASSUME IInv, Honest, Env = {}, NEW h \in Hubs, Launch(h)
  PROVE  Honest'
<1> DEFINE none == <<>>
<1>1. Do(h, "launch") /\ UNCHANGED <<row, net, target>>
  BY DEF Launch
<1>2. PICK r \in Runs : r = Now(h)
  BY <1>1, NowIsRun DEF IInv
<1>3. none \in Seq(Tasks) /\ hub[h].todo # <<>> /\ TypeOK
  BY <1>1 DEF Do, IInv
<1>4. /\ \A g \in Hubs : hub'[g].todo = IF g = h THEN none \o Tail(hub[h].todo) ELSE hub[g].todo
  <2>1. \A g \in Hubs : After(h, none)[g].todo = IF g = h THEN none \o Tail(hub[h].todo) ELSE hub[g].todo
    <3> HIDE DEF none
    <3>1. QED BY <1>3, AfterType
  <2>2. After(h, none) \in [Hubs -> HubType]
    <3> HIDE DEF none
    <3>1. QED BY <1>3, AfterType
  <2>3. hub' = [After(h, none) EXCEPT ![h].own = @ \cup {r}]
    BY <1>2 DEF Launch
  <2> HIDE DEF none
  <2>4. \A g \in Hubs : hub'[g].todo = After(h, none)[g].todo
    BY <2>2, <2>3 DEF HubType
  <2>5. QED BY <2>1, <2>4
<1>5. /\ Untouched(r) /\ Startable(r) /\ Task("launch", r) \notin Due'
      /\ \A q \in Runs : Task("launch", q) \in Due' => Task("launch", q) \in Due
  <2>1. none \in {<<>>, <<Task("journal", r)>>} /\ ~(none # <<>>)
    OBVIOUS
  <2> HIDE DEF none
  <2>2. QED BY <1>1, <1>2, <1>4, <2>1, LaunchTaken
<1>6. row[r].state \in {"running", "outcome_unknown"} /\ HonestRun(r)
  BY <1>5 DEF Honest, HonestRun
<1>7. mon \in [Runs -> MonType] /\ proc \in [Runs -> ProcType]
  BY <1>3, Types
<1>8. CASE /\ row[r].remote /\ mon' = [mon EXCEPT ![r] = [NoMon EXCEPT !.by = h, !.at = "prep"]]
           /\ proc' = proc
  <2>1. mon'[r].at = "prep" /\ mon'[r].answer = "none" /\ \A q \in Runs \ {r} : mon'[q] = mon[q]
    BY <1>7, <1>8 DEF NoMon, MonType
  <2>2. Aside(r)
    BY <1>1, <1>5, <1>8, <2>1 DEF Aside
  <2>3. HonestRun(r)'
    BY <1>1, <1>6, <1>8, <2>1 DEF HonestRun, NoProc
  <2>4. QED BY <2>2, <2>3, AsideHonest
<1>9. CASE ~row[r].remote /\ proc' = Started(r) /\ mon' = mon
  <2>1. proc'[r].st = "alive" /\ \A q \in Runs \ {r} : proc'[q] = proc[q]
    BY <1>7, <1>9 DEF Started, ProcType
  <2>2. Aside(r)
    BY <1>1, <1>5, <1>9, <2>1 DEF Aside
  <2>3. mon[r].at = "none" /\ mon[r].answer = "none"
    BY <1>5, <1>6 DEF Untouched, HonestRun
  <2>4. HonestRun(r)'
    BY <1>1, <1>6, <1>9, <2>1, <2>3 DEF HonestRun, NoProc
  <2>5. QED BY <2>2, <2>4, AsideHonest
<1>10. QED BY <1>2, <1>8, <1>9 DEF Launch

LEMMA SendStartHonest ==
  ASSUME IInv, Honest, NEW h \in Hubs, NEW r \in Runs, SendStart(h, r)
  PROVE  Honest'
<1>1. /\ UNCHANGED <<row, lease, hub, target, proc>> /\ mon[r].at = "prep"
      /\ mon' = [mon EXCEPT ![r].at = "start"] /\ net' = net \cup {<<r, "start">>}
  BY DEF SendStart, At
<1>2. mon \in [Runs -> MonType]
  BY Types DEF IInv
<1>3. /\ mon'[r].at = "start" /\ mon'[r].answer = mon[r].answer
      /\ \A q \in Runs \ {r} : mon'[q] = mon[q] /\ (<<q, "start">> \in net' => <<q, "start">> \in net)
  BY <1>1, <1>2 DEF MonType
<1>4. Due' = Due
  BY <1>1 DEF Due
<1>5. Aside(r)
  BY <1>1, <1>3, <1>4 DEF Aside
<1>6. HonestRun(r) /\ Startable(r) /\ target.receipt[r] = "none"
  BY <1>1 DEF Honest, Startable, IInv, StartsOnce
<1>7. mon[r].answer = "none"
  BY <1>1, <1>6 DEF HonestRun
<1>8. HonestRun(r)'
  BY <1>1, <1>3, <1>6, <1>7 DEF HonestRun, NoProc
<1>9. QED BY <1>5, <1>8, AsideHonest

LEMMA TargetStartHonest ==
  ASSUME IInv, Honest, Env = {}, NEW r \in Runs, TargetStart(r)
  PROVE  Honest'
<1>1. /\ UNCHANGED <<row, lease, hub>> /\ <<r, "start">> \in net /\ net' \subseteq net
  BY DEF TargetStart
<1>2. Due' = Due
  BY <1>1 DEF Due
<1>3. HonestRun(r) /\ mon[r].answer # "refused"
  BY <1>1 DEF Honest, HonestRun
<1>4. proc \in [Runs -> ProcType] /\ TypeOK
        /\ target \in [receipt : [Runs -> {"none", "running"} \cup Ended],
                       jobs : SUBSET Runs, aborted : SUBSET Runs]
  BY Types DEF IInv
<1>5. ASSUME NEW a \in {"running", "unknown"}, Reply(r, a)
      PROVE  /\ mon'[r].at = mon[r].at /\ mon'[r].answer # "refused"
             /\ mon'[r].answer # "none" => mon'[r].at = "start"
             /\ mon'[r].at = "start" => mon'[r].answer # "none"
             /\ \A q \in Runs \ {r} : mon'[q] = mon[q]
  BY <1>3, <1>4, <1>5, ReplyType DEF HonestRun
<1>6. CASE Admit(r) /\ Reply(r, "running")
  <2>1. Startable(r) /\ target.receipt[r] = "none"
    BY <1>1, <1>6 DEF Admit, Startable, OnItsWay
  <2>2. row[r].state \in {"running", "outcome_unknown"}
    BY <1>3, <2>1 DEF HonestRun
  <2>3. /\ target' = [target EXCEPT !.receipt[r] = "running", !.jobs = @ \cup {r}] /\ proc' = Started(r)
    BY <1>6 DEF Admit
  <2>4. /\ target'.receipt[r] = "running" /\ proc'[r].st = "alive"
        /\ \A q \in Runs \ {r} : target'.receipt[q] = target.receipt[q] /\ proc'[q] = proc[q]
    BY <1>4, <2>3 DEF Started, ProcType
  <2>5. mon[r].at # "prep" /\ Task("launch", r) \notin Due
    BY <1>1 DEF IInv, StartsOnce, Untouched
  <2>6. ~Startable(r)'
    BY <1>2, <1>5, <1>6, <2>4, <2>5 DEF Startable, OnItsWay, Task
  <2>7. Aside(r)
    BY <1>1, <1>2, <1>5, <1>6, <2>4 DEF Aside
  <2>8. HonestRun(r)'
    BY <1>1, <1>3, <1>5, <1>6, <2>2, <2>4, <2>6 DEF HonestRun
  <2>9. QED BY <2>7, <2>8, AsideHonest
<1>7. CASE target.receipt[r] # "none" /\ Reply(r, "unknown") /\ UNCHANGED <<target, proc>>
  <2>1. Aside(r)
    BY <1>1, <1>2, <1>5, <1>7 DEF Aside
  <2>2. Startable(r)' => Startable(r)
    BY <1>1, <1>2, <1>5, <1>7 DEF Startable, OnItsWay, Task
  <2>3. HonestRun(r)'
    BY <1>1, <1>3, <1>5, <1>7, <2>2 DEF HonestRun
  <2>4. QED BY <2>1, <2>3, AsideHonest
<1>8. QED BY <1>6, <1>7 DEF TargetStart

LEMMA ExitHonest ==
  ASSUME IInv, Honest, NEW r \in Runs, Exit(r)
  PROVE  Honest'
<1>1. PICK s \in {"succeeded", "cancelled", "failed"} :
        /\ proc[r].st = "alive"
        /\ \A q \in Runs : proc'[q].st = IF q = r THEN s ELSE proc[q].st
        /\ \A q \in Runs : q # r => proc'[q] = proc[q]
        /\ \A q \in Runs \ {r} : target'.receipt[q] = target.receipt[q]
        /\ target'.receipt[r] = target.receipt[r] \/ (row[r].remote /\ target'.receipt[r] = s)
  BY ExitFacts
<1>2. UNCHANGED <<row, lease, hub, mon, net>>
  BY DEF Exit
<1>3. Due' = Due
  BY <1>2 DEF Due
<1>4. Aside(r)
  BY <1>1, <1>2, <1>3 DEF Aside
<1>5. HonestRun(r) /\ proc[r] # NoProc
  BY <1>1 DEF Honest, NoProc
<1>6. row[r].state \in {"running", "outcome_unknown"}
  BY <1>1, <1>5 DEF HonestRun
<1>7. /\ mon[r].answer # "refused" /\ ~(row[r].remote /\ target.receipt[r] = "none") /\ ~Startable(r)
  BY <1>5 DEF HonestRun, IInv, StartsOnce
<1>8. ~(row[r].remote /\ target'.receipt[r] = "none")
  BY <1>1, <1>7
<1>9. ~(mon[r].at = "start" /\ mon[r].answer = "none")
  BY <1>5, <1>7 DEF HonestRun
<1>10. ~Startable(r)'
  <2>1. Task("launch", r) \notin Due /\ mon[r].at # "prep" /\ ~OnItsWay(r)
    BY <1>7 DEF Startable
  <2>2. target'.receipt[r] = "none" => target.receipt[r] = "none"
    BY <1>1
  <2>3. QED BY <1>2, <1>3, <2>1, <2>2 DEF Startable, OnItsWay, Task
<1>11. HonestRun(r)'
  BY <1>1, <1>2, <1>5, <1>6, <1>7, <1>8, <1>9, <1>10 DEF HonestRun
<1>12. QED BY <1>4, <1>11, AsideHonest

\* The rest: nothing of a run changes but its place in the hubs' lists, its report, or
\* the memory of a hub that forgets it.
LEMMA CalmHonest ==
  ASSUME IInv, Honest, Quietly,
         \A q \in Runs : row'[q].state = row[q].state \/ row'[q].state = "outcome_unknown",
         \A q \in Runs : mon'[q] = mon[q] \/ mon'[q] = NoMon
  PROVE  Honest'
<1>1. EndsHonest
  BY DEF EndsHonest
<1>2. QED BY <1>1, ForgetsHonest, QuietHonest

LEMMA WorkHonest ==
  ASSUME IInv, Honest, Env = {}, NEW h \in Hubs, Work(h) \/ NotifyFails(h)
  PROVE  Honest'
<1> DEFINE Calm ==
      /\ \A q \in Runs : row'[q].state = row[q].state \/ row'[q].state = "outcome_unknown"
      /\ \A q \in Runs : mon'[q] = mon[q] \/ mon'[q] = NoMon
<1>1. CASE PumpDone(h)
  <2>1. Quietly /\ Calm
    BY <1>1, PumpDoneQuiet DEF PumpDone
  <2>2. QED BY <2>1, CalmHonest
<1>2. ASSUME NEW r \in Runs, FailBlocked(h, r)
      PROVE  Honest'
  BY <1>2, UnblockedHonest
<1>3. ASSUME NEW r \in Runs, Claim(h, r)
      PROVE  Honest'
  BY <1>3, ClaimHonest
<1>4. CASE Launch(h)
  BY <1>4, LaunchHonest
<1>5. CASE Journal(h)
  <2>1. Quietly /\ Calm
    BY <1>5, JournalReports DEF Journal
  <2>2. QED BY <2>1, CalmHonest
<1>6. CASE Notify(h)
  <2>1. Quietly /\ Calm
    BY <1>6, NotifyQuiet DEF Notify
  <2>2. QED BY <2>1, CalmHonest
<1>7. CASE Mark(h)
  <2>1. Now(h) \in Runs /\ row \in [Runs -> RowType]
    BY <1>7, NowIsRun, Types DEF Mark, IInv
  <2>2. Calm
    BY <1>7, <2>1 DEF Mark, RowType
  <2>3. QED BY <1>7, <2>2, MarkQuiet, CalmHonest
<1>8. CASE Pending(h)
  <2>1. Quietly /\ Calm
    BY <1>8, PendingQuiet DEF Pending
  <2>2. QED BY <2>1, CalmHonest
<1>9. CASE Reconcile(h)
  <2>1. mon' = mon /\ row \in [Runs -> RowType]
        /\ row' = [r \in Runs |-> IF r \in Abandoned(h) THEN [row[r] EXCEPT !.state = "outcome_unknown"] ELSE row[r]]
    BY <1>9, Types DEF Reconcile, IInv
  <2>2. Calm
    BY <2>1 DEF RowType
  <2>3. QED BY <1>9, <2>2, ReconcileQuiet, CalmHonest
<1>10. CASE NotifyFails(h)
  <2>1. Quietly /\ Calm
    BY <1>10, NotifyFailsQuiet DEF NotifyFails
  <2>2. QED BY <2>1, CalmHonest
<1>11. QED BY <1>1, <1>2, <1>3, <1>4, <1>5, <1>6, <1>7, <1>8, <1>9, <1>10 DEF Work

LEMMA LifeHonest ==
  ASSUME IInv, Honest, NEW h \in Hubs,
         Tick(h) \/ Boot(h) \/ Rebind(h) \/ Shutdown(h) \/ Kill(h) \/ \E g \in Hubs : TakeOver(h, g)
  PROVE  Honest'
<1>1. row' = row
  BY DEF Tick, Boot, Rebind, Shutdown, Kill, TakeOver
<1>2. Quietly
  BY TickQuiet, BootQuiet, RebindQuiet, ShutdownQuiet, KillQuiet, TakeOverQuiet
<1>3. \A q \in Runs : mon'[q] = mon[q] \/ mon'[q] = NoMon
  BY DEF Tick, Boot, Rebind, Shutdown, Kill, TakeOver, Loses
<1>4. QED BY <1>1, <1>2, <1>3, CalmHonest

LEMMA TimeHonest ==
  ASSUME IInv, Honest, NEW r \in Runs,
         GoStale(r) \/ Sleep(r) \/ \E h \in Hubs : Heartbeat(h, r)
  PROVE  Honest'
<1>1. Quietly /\ mon' = mon /\ \E b \in BOOLEAN : row' = [row EXCEPT ![r].stale = b]
  BY TimeQuiet, HeartbeatsQuiet DEF GoStale, Sleep, Heartbeat
<1>2. row \in [Runs -> RowType]
  BY Types DEF IInv
<1>3. \A q \in Runs : row'[q].state = row[q].state
  BY <1>1, <1>2 DEF RowType
<1>4. QED BY <1>1, <1>3, CalmHonest

LEMMA StepHonest ==
  ASSUME IInv, Honest, Env = {}, [Next]_vars
  PROVE  Honest'
<1>1. CASE UNCHANGED vars
  <2>1. UNCHANGED <<row, lease, hub, mon, net, target, proc, told, faults>>
    BY <1>1 DEF vars
  <2>2. Due' = Due
    BY <2>1 DEF Due
  <2>3. QED BY <2>1, <2>2 DEF Honest, HonestRun, Startable, OnItsWay
<1>2. ASSUME NEW h \in Hubs, NEW r \in Runs,
             \/ Create(h, r) \/ Settle(h, r) \/ Cancel(h, r) \/ Heartbeat(h, r)
             \/ Watch(h, r) \/ SendCancel(h, r) \/ StartTimesOut(h, r) \/ PollLost(h, r)
      PROVE  Honest'
  <2>1. CASE Watch(h, r)
    BY <2>1, PrepareFailsHonest, SendStartHonest, StartAnsweredHonest, PollHonest, GiveUpHonest DEF Watch
  <2>2. CASE Create(h, r) \/ Settle(h, r) \/ Cancel(h, r) \/ Heartbeat(h, r)
    BY <2>2, CreateHonest, SettleHonest, UnblockedHonest, TimeHonest
  <2>3. CASE SendCancel(h, r) \/ StartTimesOut(h, r) \/ PollLost(h, r)
    BY <2>3, NotesHonest
  <2>4. QED BY <1>2, <2>1, <2>2, <2>3
<1>3. ASSUME NEW r \in Runs,
             TargetStart(r) \/ TargetRefuses(r) \/ TargetCancel(r) \/ Exit(r) \/ GoStale(r) \/ Sleep(r)
      PROVE  Honest'
  BY <1>3, TargetStartHonest, NetworkHonest, ExitHonest, TimeHonest
<1>4. CASE Lose \/ TargetRestart
  <2>1. UNCHANGED <<row, mon>>
    BY <1>4 DEF Lose, TargetRestart
  <2>2. QED BY <1>4, <2>1, LossQuiet, CalmHonest
<1>5. ASSUME NEW h \in Hubs, Work(h) \/ NotifyFails(h)
      PROVE  Honest'
  BY <1>5, WorkHonest
<1>6. ASSUME NEW h \in Hubs,
             Tick(h) \/ Boot(h) \/ Rebind(h) \/ Shutdown(h) \/ Kill(h) \/ \E g \in Hubs : TakeOver(h, g)
      PROVE  Honest'
  BY <1>6, LifeHonest
<1>7. QED BY <1>1, <1>2, <1>3, <1>4, <1>5, <1>6 DEF Next

\* While a journal append, the writing of a result and the HTTP layer of the target do not
\* fail, the record of a run is what its command did ...
THEOREM OutcomeHonestCorrect == ASSUME Env = {} PROVE Spec => []OutcomeHonest
<1>1. Init => IInv /\ Honest
  BY InitHolds, HonestParts DEF HInv
<1>2. IInv /\ Honest /\ [Next]_vars => IInv' /\ Honest'
  BY StepKeeps, StepHonest
<1>3. Honest => OutcomeHonest
  BY HonestParts
<1>4. QED BY <1>1, <1>2, <1>3, PTL DEF Spec

\* ... and two commands that need one resource are never at work together: the command of
\* a running run holds all its leases, and one that is not running any more has ended.
THEOREM ResourceAloneCorrect == ASSUME Env = {} PROVE Spec => []ResourceAlone
<1>1. Init => IInv /\ Honest /\ HoldsAll
  BY InitHolds, HonestParts DEF HInv
<1>2. IInv /\ Honest /\ HoldsAll /\ [Next]_vars => IInv' /\ Honest' /\ HoldsAll'
  BY StepKeeps, StepHonest
<1>3. Honest /\ HoldsAll => ResourceAlone
  <2> SUFFICES ASSUME Honest, HoldsAll, NEW r \in Runs, NEW q \in Runs, r # q,
                      proc[r].st = "alive", proc[q].st = "alive", Needs[r] \cap Needs[q] # {},
                      row[r].state # "outcome_unknown", row[q].state # "outcome_unknown"
               PROVE  FALSE
    BY DEF ResourceAlone
  <2>1. row[r].state = "running" /\ row[q].state = "running"
    BY HonestParts DEF AliveKnown
  <2>2. QED BY <2>1 DEF HoldsAll
<1>4. QED BY <1>1, <1>2, <1>3, PTL DEF Spec

=============================================================================
