------------------------ MODULE JournalPruning_proofs ------------------------
(***************************************************************************)
(* For every set of peers, every history and every bound of JournalPruning:*)
(* its types, that deleting rows takes nothing a reader needs, and that    *)
(* what is deleted stays on as many assigned peers as had to hold it.      *)
(***************************************************************************)
EXTENDS JournalPruning, FiniteSetTheorems, WellFoundedInduction, TLAPS

-----------------------------------------------------------------------------
(* The inductive invariant.                                                  *)

Rows == 1 .. Len(log)
Checks == {s \in Rows : log[s].k = "check"}

\* A row that may go: a delta whose item has its terminal, or a diff with a newer one. That
\* the row it goes for is still there is not said, so that no deletion can end it.
Redundant(s) ==
  /\ s \in Rows
  /\ \/ log[s].k = "delta" /\ \E e \in Rows : log[e].k = "end"
     \/ log[s].k = "diff" /\ \E d \in Rows : d > s /\ log[d].k = "diff"

\* Where the cursor stands, and that no row of its era has a higher number.
CursorStands ==
  /\ cursor.at = 0 => cursor.w = 0
  /\ cursor.at > 0 => log[cursor.at].w = cursor.w
  /\ cursor.at \notin gone
  /\ \A s \in Rows : log[s].w <= cursor.w \/ \E r \in Rows : r >= s /\ log[r].k = "reset"
  /\ \A s \in Rows : log[s].k = "reset" => log[s].w = 0 /\ s <= cursor.at
  /\ \A s \in Rows : log[s].k \in {"delta", "diff"} => log[s].w > 0

\* What is deleted and what a child is about to delete is redundant and in a recovery
\* generation, although the other child deletes in between.
PicksSafe ==
  /\ \A s \in gone : Redundant(s) /\ s <= strong
  /\ \A c \in Kids : /\ kid[c].through <= strong
                     /\ \A s \in kid[c].pick : Redundant(s) /\ s <= strong

\* As many checkpoints as deleted rows at most, and numbers no higher than rows of the history.
Counted ==
  /\ Cardinality(Own) <= MaxRows
  /\ Cardinality(Checks) <= Cardinality(gone)
  /\ cursor.w <= Cardinality(Own)

\* A snapshot has every row up to its highest that is not deleted.
SnapsWhole ==
  \A g \in Gens : /\ snap[g].at = 0 => snap[g].rows = {}
                  /\ \A s \in Rows \ gone : s <= snap[g].at => s \in snap[g].rows

Holders(s) == {p \in repl.peers : \E g \in Gens : <<g, p>> \in acks /\ s \in snap[g].rows}

\* Row s is on n peers, and a snapshot that has it is reserved for n.
Held(s, n) ==
  n > 0 => /\ Cardinality(Holders(s)) >= n
           /\ \E g \in Gens : s \in snap[g].rows /\ prot[g] >= n

PicksHeld ==
  /\ \A s \in gone : Held(s, due[s])
  /\ \A c \in Kids : \A s \in kid[c].pick : Held(s, kid[c].need)

IInv == TypeOK /\ CursorStands /\ PicksSafe /\ Counted /\ SnapsWhole /\ PicksHeld

-----------------------------------------------------------------------------
(* Lemmas about the operators: least and greatest numbers, and the peers with *)
(* the highest snapshots.                                                     *)

\* A set of numbers has a least one.
LEMMA LeastExists ==
  ASSUME NEW S \in SUBSET Nat, S # {}
  PROVE  \E m \in S : \A x \in S : m <= x
<1> DEFINE T == {1 .. x : x \in S}
<1>1. T \subseteq FiniteSubsetsOf(Nat) /\ T # {}
  <2>1. ASSUME NEW x \in S PROVE 1 .. x \in FiniteSubsetsOf(Nat)
    <3>1. x \in Int /\ 1 \in Int
      OBVIOUS
    <3>2. IsFiniteSet(1 .. x)
      BY <3>1, FS_Interval
    <3>3. 1 .. x \subseteq Nat
      BY <3>1
    <3>4. QED BY <3>2, <3>3 DEF FiniteSubsetsOf
  <2>2. QED BY <2>1
<1>2. PICK t \in T : \A y \in T : ~(<<y, t>> \in StrictSubsetOrdering(Nat))
  <2>1. IsWellFoundedOn(StrictSubsetOrdering(Nat), FiniteSubsetsOf(Nat))
    BY FS_StrictSubsetOrderingWellFounded
  <2> HIDE DEF T
  <2>2. QED BY <1>1, <2>1, WFMin
<1>3. PICK m \in S : t = 1 .. m
  OBVIOUS
<1>4. ASSUME NEW x \in S, ~(m <= x)
      PROVE  FALSE
  <2>1. m \in Nat /\ x \in Nat /\ x < m
    BY <1>4
  <2>2. 1 .. x \subseteq 1 .. m /\ m \in 1 .. m /\ m \notin 1 .. x
    BY <2>1
  <2>3. 1 .. x \in SUBSET Nat /\ 1 .. m \in SUBSET Nat
    BY <2>1
  <2>4. <<1 .. x, 1 .. m>> \in StrictSubsetOrdering(Nat)
    BY <2>2, <2>3 DEF StrictSubsetOrdering
  <2>5. QED BY <1>2, <1>3, <2>4
<1>5. QED BY <1>4

\* A bounded one has a greatest.
LEMMA GreatestExists ==
  ASSUME NEW n \in Nat, NEW S \in SUBSET (0 .. n), S # {}
  PROVE  \E m \in S : \A x \in S : x <= m
<1> DEFINE T == {n - x : x \in S}
<1>1. T \in SUBSET Nat /\ T # {}
  <2>1. \A x \in S : n - x \in Nat
    OBVIOUS
  <2>2. QED BY <2>1
<1>2. PICK t \in T : \A y \in T : t <= y
  <2> HIDE DEF T
  <2>1. QED BY <1>1, LeastExists
<1>3. PICK m \in S : t = n - m
  OBVIOUS
<1>4. \A x \in S : x <= m
  <2>1. \A x \in S : n - m <= n - x
    BY <1>2, <1>3
  <2>2. \A x \in S : x \in 0 .. n /\ m \in 0 .. n
    OBVIOUS
  <2>3. QED BY <2>1, <2>2
<1>5. QED BY <1>4

LEMMA MinIsLeast ==
  ASSUME NEW S \in SUBSET Nat, S # {}
  PROVE  Min(S) \in S /\ \A x \in S : Min(S) <= x
BY LeastExists DEF Min

LEMMA MaxIsGreatest ==
  ASSUME NEW n \in Nat, NEW S \in SUBSET (0 .. n), S # {}
  PROVE  Max(S) \in S /\ \A x \in S : x <= Max(S)
<1>1. \E m \in S : \A x \in S : m >= x
  BY GreatestExists
<1>2. QED BY <1>1 DEF Max

\* Highest() is 0 of no row and the greatest of some.
LEMMA HighestIsGreatest ==
  ASSUME NEW n \in Nat, NEW S \in SUBSET (0 .. n)
  PROVE  /\ Highest(S) \in 0 .. n
         /\ \A x \in S : x <= Highest(S)
         /\ S = {} => Highest(S) = 0
         /\ S # {} => Highest(S) \in S
<1>1. CASE S = {}
  BY <1>1 DEF Highest
<1>2. CASE S # {}
  <2>1. Max(S) \in S /\ \A x \in S : x <= Max(S)
    BY <1>2, MaxIsGreatest
  <2>2. Highest(S) = Max(S)
    BY <1>2 DEF Highest
  <2>3. QED BY <1>2, <2>1, <2>2
<1>3. QED BY <1>1, <1>2

LEMMA TwoNumbers ==
  ASSUME NEW a \in Nat, NEW b \in Nat
  PROVE  /\ Min({a, b}) = IF a <= b THEN a ELSE b
         /\ Max({a, b}) = IF a >= b THEN a ELSE b
<1>1. Min({a, b}) \in {a, b} /\ Min({a, b}) <= a /\ Min({a, b}) <= b
  <2>1. {a, b} \in SUBSET Nat /\ {a, b} # {}
    OBVIOUS
  <2>2. QED BY <2>1, MinIsLeast
<1>2. Max({a, b}) \in {a, b} /\ a <= Max({a, b}) /\ b <= Max({a, b})
  <2>1. {a, b} \in SUBSET (0 .. a + b) /\ {a, b} # {} /\ a + b \in Nat
    OBVIOUS
  <2>2. QED BY <2>1, MaxIsGreatest
<1>3. QED BY <1>1, <1>2

\* Of a finite set with values, any number of elements with the highest can be taken.
LEMMA TopExists ==
  ASSUME NEW V, IsFiniteSet(V), NEW n \in Nat, NEW val \in [V -> 0 .. n],
         NEW k \in Nat, k <= Cardinality(V)
  PROVE  \E S \in SUBSET V : /\ Cardinality(S) = k
                            /\ \A p \in S, q \in V \ S : val[p] >= val[q]
<1> DEFINE Top(S) == \A p \in S, q \in V \ S : val[p] >= val[q]
           Has(j) == \E S \in SUBSET V : Cardinality(S) = j /\ Top(S)
           Bad == {j \in 0 .. k : ~Has(j)}
<1>1. SUFFICES ASSUME Bad # {} PROVE FALSE
  <2>1. k \in 0 .. k
    OBVIOUS
  <2>2. QED BY <2>1
<1>2. PICK j \in Bad : \A i \in Bad : j <= i
  <2>1. Bad \in SUBSET Nat
    OBVIOUS
  <2> HIDE DEF Bad
  <2>2. QED BY <1>1, <2>1, LeastExists
<1>3. j # 0
  <2>1. {} \in SUBSET V /\ Cardinality({}) = 0 /\ Top({})
    BY FS_EmptySet
  <2>2. QED BY <2>1
<1>4. j - 1 \in 0 .. k /\ j - 1 \notin Bad /\ j \in 1 .. k
  BY <1>2, <1>3
<1>5. PICK S \in SUBSET V : Cardinality(S) = j - 1 /\ Top(S)
  BY <1>4
<1>6. V \ S # {}
  <2>1. Cardinality(V) \in Nat
    BY FS_CardinalityType
  <2>2. S # V
    BY <1>4, <1>5, <2>1
  <2>3. QED BY <2>2
<1>7. PICK p \in V \ S : \A q \in V \ S : val[q] <= val[p]
  <2> DEFINE W == {val[q] : q \in V \ S}
  <2>1. W \in SUBSET (0 .. n) /\ W # {}
    BY <1>6
  <2>2. PICK m \in W : \A x \in W : x <= m
    <3> HIDE DEF W
    <3>1. QED BY <2>1, GreatestExists
  <2>3. QED BY <2>2
<1>8. S \cup {p} \in SUBSET V
  OBVIOUS
<1>9. Cardinality(S \cup {p}) = j
  <2>1. IsFiniteSet(S)
    BY FS_Subset
  <2>2. Cardinality(S \cup {p}) = Cardinality(S) + 1
    BY <2>1, FS_AddElement
  <2>3. QED BY <1>4, <1>5, <2>2
<1>10. Top(S \cup {p})
  <2> SUFFICES ASSUME NEW r \in S \cup {p}, NEW q \in V \ (S \cup {p})
               PROVE  val[r] >= val[q]
    OBVIOUS
  <2>1. q \in V \ S
    OBVIOUS
  <2>2. CASE r \in S
    BY <1>5, <2>1, <2>2
  <2>3. CASE r = p
    <3>1. val[p] \in 0 .. n /\ val[q] \in 0 .. n
      OBVIOUS
    <3>2. val[q] <= val[p]
      BY <1>7, <2>1
    <3>3. QED BY <2>3, <3>1, <3>2
  <2>4. QED BY <2>2, <2>3
<1>11. Has(j)
  BY <1>8, <1>9, <1>10
<1>12. QED BY <1>11, <1>2

-----------------------------------------------------------------------------
(* Lemmas about the state.                                                    *)

RowType == [k : {"delta", "end", "diff", "reset", "check"}, w : 0 .. MaxRows]

\* The log only grows: what was inserted keeps its place.
LogKept == Len(log') >= Len(log) /\ \A s \in Rows : log'[s] = log[s]

LEMMA PeersFinite ==
  TypeOK => /\ IsFiniteSet(repl.peers) /\ repl.peers \subseteq Peers
            /\ Cardinality(Peers) \in Nat /\ repl.need \in 0 .. Cardinality(Peers)
            /\ \A S \in SUBSET Peers : IsFiniteSet(S) /\ Cardinality(S) \in 0 .. Cardinality(Peers)
<1> SUFFICES ASSUME TypeOK PROVE /\ IsFiniteSet(repl.peers) /\ repl.peers \subseteq Peers
            /\ Cardinality(Peers) \in Nat /\ repl.need \in 0 .. Cardinality(Peers)
            /\ \A S \in SUBSET Peers : IsFiniteSet(S) /\ Cardinality(S) \in 0 .. Cardinality(Peers)
  OBVIOUS
<1>1. IsFiniteSet(Peers) /\ Cardinality(Peers) \in Nat
  BY PruningAssumption, FS_CardinalityType
<1>2. repl.peers \subseteq Peers /\ repl.need \in 0 .. Cardinality(Peers)
  BY DEF TypeOK
<1>3. ASSUME NEW S \in SUBSET Peers
      PROVE  IsFiniteSet(S) /\ Cardinality(S) \in 0 .. Cardinality(Peers)
  <2>1. IsFiniteSet(S) /\ Cardinality(S) <= Cardinality(Peers)
    BY <1>1, FS_Subset
  <2>2. Cardinality(S) \in Nat
    BY <2>1, FS_CardinalityType
  <2>3. QED BY <1>1, <2>1, <2>2
<1>4. QED BY <1>1, <1>2, <1>3

\* Sets of rows are finite, and a part of one has no more elements.
LEMMA RowSets ==
  ASSUME TypeOK, NEW S, NEW T \in SUBSET S, S \subseteq Rows
  PROVE  /\ IsFiniteSet(S) /\ IsFiniteSet(T)
         /\ Cardinality(S) \in Nat /\ Cardinality(T) \in Nat
         /\ Cardinality(T) <= Cardinality(S)
<1>1. Len(log) \in Int
  BY DEF TypeOK
<1>2. IsFiniteSet(Rows)
  BY <1>1, FS_Interval DEF Rows
<1>3. IsFiniteSet(S)
  BY <1>2, FS_Subset
<1>4. IsFiniteSet(T) /\ Cardinality(T) <= Cardinality(S)
  BY <1>3, FS_Subset
<1>5. QED BY <1>3, <1>4, FS_CardinalityType

\* Every row is one of a history or a checkpoint; only rows of a history go.
LEMMA RowCount ==
  ASSUME TypeOK, PicksSafe, Counted
  PROVE  /\ Len(log) = Cardinality(Own) + Cardinality(Checks)
         /\ Cardinality(Own) \in Nat /\ Cardinality(Checks) \in Nat /\ Cardinality(gone) \in Nat
         /\ Cardinality(gone) <= Cardinality(Own)
<1>1. Own \subseteq Rows /\ Checks \subseteq Rows /\ Own \cup Checks = Rows /\ Own \cap Checks = {}
  BY DEF Own, Checks, Rows
<1>2. gone \subseteq Own
  BY DEF PicksSafe, Redundant, Own, Rows
<1>3. /\ IsFiniteSet(Own) /\ Cardinality(Own) \in Nat /\ Cardinality(gone) \in Nat
      /\ Cardinality(gone) <= Cardinality(Own)
  BY <1>1, <1>2, RowSets
<1>4. IsFiniteSet(Checks) /\ Cardinality(Checks) \in Nat
  BY <1>1, RowSets
<1>5. Cardinality(Rows) = Cardinality(Own) + Cardinality(Checks) - Cardinality(Own \cap Checks)
  BY <1>1, <1>3, <1>4, FS_Union
<1>6. Cardinality(Own \cap Checks) = 0
  BY <1>1, FS_EmptySet
<1>7. Cardinality(Rows) = Len(log)
  <2>1. Len(log) \in Nat
    BY DEF TypeOK
  <2>2. 1 \in Int /\ Len(log) \in Int
    BY <2>1
  <2>3. Cardinality(1 .. Len(log)) = IF 1 > Len(log) THEN 0 ELSE Len(log) - 1 + 1
    BY <2>2, FS_Interval
  <2>4. QED BY <2>1, <2>3 DEF Rows
<1>8. QED BY <1>3, <1>4, <1>5, <1>6, <1>7

\* An inserted row is the last, and the cursor stays or moves to it.
LEMMA InsertKeeps ==
  ASSUME TypeOK, NEW row \in RowType, Insert(row), Len(log) < MaxSeq
  PROVE  /\ log' \in Seq(RowType) /\ Len(log') = Len(log) + 1 /\ Len(log') <= MaxSeq
         /\ log'[Len(log) + 1] = row
         /\ LogKept
         /\ cursor' \in [w : 0 .. MaxRows, at : 0 .. Len(log')]
         /\ cursor' = IF row.k = "reset" THEN [w |-> 0, at |-> Len(log) + 1]
                      ELSE IF row.w > 0 /\ row.w >= cursor.w THEN [w |-> row.w, at |-> Len(log) + 1]
                      ELSE cursor
<1>1. log \in Seq(RowType) /\ cursor \in [w : 0 .. MaxRows, at : 0 .. Len(log)]
  BY DEF TypeOK, RowType
<1>2. log' = Append(log, row)
  BY DEF Insert
<1>3. /\ log' \in Seq(RowType) /\ Len(log') = Len(log) + 1 /\ log'[Len(log) + 1] = row
      /\ \A s \in 1 .. Len(log) : log'[s] = log[s]
  <2> HIDE DEF RowType
  <2>1. QED BY <1>1, <1>2
<1>4. cursor' = IF row.k = "reset" THEN [w |-> 0, at |-> Len(log) + 1]
                ELSE IF row.w > 0 /\ row.w >= cursor.w THEN [w |-> row.w, at |-> Len(log) + 1]
                ELSE cursor
  BY DEF Insert
<1>5. Len(log) \in Nat /\ MaxRows \in Nat /\ MaxSeq \in Nat
  BY <1>1, PruningAssumption DEF MaxSeq
<1>6. row.w \in 0 .. MaxRows
  BY DEF RowType
<1>7. cursor' \in [w : 0 .. MaxRows, at : 0 .. Len(log')]
  BY <1>1, <1>3, <1>4, <1>5, <1>6
<1>8. QED BY <1>3, <1>4, <1>5, <1>7 DEF LogKept, Rows

\* Redundant rows stay redundant.
LEMMA RedundantStays ==
  ASSUME TypeOK, LogKept, Len(log') \in Nat, NEW s, Redundant(s)
  PROVE  Redundant(s)'
<1>1. Len(log) \in Nat /\ Rows' = 1 .. Len(log')
  BY DEF TypeOK, Rows
<1>2. \A r \in Rows : r \in Rows' /\ log'[r] = log[r]
  BY <1>1 DEF LogKept, Rows
<1>3. s \in Rows
  BY DEF Redundant
<1>4. CASE log[s].k = "delta" /\ \E e \in Rows : log[e].k = "end"
  BY <1>2, <1>3, <1>4 DEF Redundant
<1>5. CASE log[s].k = "diff" /\ \E d \in Rows : d > s /\ log[d].k = "diff"
  BY <1>2, <1>3, <1>5 DEF Redundant
<1>6. QED BY <1>4, <1>5 DEF Redundant

LEMMA SupersededRedundant ==
  ASSUME NEW s \in Superseded
  PROVE  s \in Rows \ gone /\ Redundant(s)
BY DEF Superseded, Alive, Redundant, Rows

\* A pass goes no further than its bound.
LEMMA FrontierWithin ==
  ASSUME TypeOK, NEW t \in Nat
  PROVE  Frontier(t) \in 0 .. Len(log) /\ Frontier(t) <= t
<1> DEFINE S == {s \in Superseded : s <= t}
<1>1. Len(log) \in Nat
  BY DEF TypeOK
<1>2. S \in SUBSET (0 .. Len(log)) /\ \A s \in S : s <= t
  BY <1>1, SupersededRedundant DEF Rows
<1> HIDE DEF S
<1>3. Highest(S) \in 0 .. Len(log) /\ (S = {} => Highest(S) = 0) /\ (S # {} => Highest(S) \in S)
  BY <1>1, <1>2, HighestIsGreatest
<1>4. Highest(S) <= t
  BY <1>1, <1>2, <1>3
<1>5. Frontier(t) = Highest(S)
  BY DEF Frontier, S
<1>6. QED BY <1>3, <1>4, <1>5

\* The highest snapshot a peer acknowledged is one it acknowledged.
LEMMA BestAcked ==
  ASSUME TypeOK, NEW p, AckedBy(p) # {}
  PROVE  Best(p) \in AckedBy(p)
<1>1. Len(log) \in Nat /\ MaxGen \in Nat /\ AckedBy(p) \subseteq 1 .. MaxGen
      /\ \A g \in AckedBy(p) : snap[g].at \in 0 .. Len(log)
  BY PruningAssumption DEF TypeOK, AckedBy, Gens
<1> DEFINE A == {snap[g].at : g \in AckedBy(p)}
<1>2. A \in SUBSET (0 .. Len(log)) /\ A # {}
  BY <1>1
<1>3. PICK m \in A : \A x \in A : x <= m
  <2> HIDE DEF A
  <2>1. QED BY <1>1, <1>2, GreatestExists
<1> DEFINE G == {g \in AckedBy(p) : snap[g].at = m}
<1>4. G \in SUBSET (0 .. MaxGen) /\ G # {}
  BY <1>1
<1>5. PICK b \in G : \A g \in G : g <= b
  <2> HIDE DEF G
  <2>1. QED BY <1>1, <1>4, GreatestExists
<1>6. ASSUME NEW h \in AckedBy(p)
      PROVE  snap[h].at < snap[b].at \/ (snap[h].at = snap[b].at /\ h <= b)
  <2>1. snap[h].at <= m /\ snap[b].at = m /\ snap[h].at \in Nat /\ m \in Nat
    BY <1>1, <1>2, <1>3
  <2>2. CASE snap[h].at = m
    BY <1>5, <2>1, <2>2
  <2>3. QED BY <2>1, <2>2
<1>7. QED BY <1>6 DEF Best

\* Supporting is of peers assigned now, as many as are required, or of none; it is of some when
\* rows may go at all, and no row above what they hold may go.
LEMMA GateFacts ==
  ASSUME TypeOK
  PROVE  /\ \A p \in Supporting : /\ p \in repl.peers /\ Best(p) \in Gens
                                  /\ <<Best(p), p>> \in acks
                                  /\ repl.need > 0 => snap[Best(p)].at >= MaxPrunable
         /\ Supporting # {} => Cardinality(Supporting) = repl.need
         /\ MaxPrunable \in Nat
         /\ repl.need > 0 /\ MaxPrunable > 0 => Supporting # {}
         /\ repl.need = 0 => Supporting = {}
<1>1. /\ repl.need \in Nat /\ Len(log) \in Nat /\ IsFiniteSet(Verified) /\ Verified \subseteq repl.peers
      /\ \A p \in Verified : AckedBy(p) # {}
  <2>1. Verified \subseteq Peers
    BY PeersFinite DEF Verified
  <2>2. repl.need \in Nat /\ Len(log) \in Nat
    BY DEF TypeOK
  <2>3. QED BY <2>1, <2>2, PeersFinite DEF Verified
<1>2. \A p \in Verified : /\ p \in repl.peers /\ Best(p) \in Gens /\ <<Best(p), p>> \in acks
                          /\ snap[Best(p)].at \in 0 .. Len(log)
  <2> SUFFICES ASSUME NEW p \in Verified
               PROVE  /\ Best(p) \in Gens /\ <<Best(p), p>> \in acks
                      /\ snap[Best(p)].at \in 0 .. Len(log)
    BY <1>1
  <2>1. Best(p) \in AckedBy(p)
    BY <1>1, BestAcked
  <2>2. Best(p) \in Gens /\ <<Best(p), p>> \in acks
    BY <2>1 DEF AckedBy
  <2>3. QED BY <2>2 DEF TypeOK
<1> DEFINE Top(S) == /\ Cardinality(S) = repl.need
                     /\ \A p \in S, q \in Verified \ S : snap[Best(p)].at >= snap[Best(q)].at
<1>3. CASE Cardinality(Verified) < repl.need
  <2>1. Supporting = {}
    BY <1>3 DEF Supporting
  <2>2. Cardinality(Verified) \in Nat
    BY <1>1, FS_CardinalityType
  <2>3. repl.need # 0
    BY <1>1, <1>3, <2>2
  <2>4. MaxPrunable = 0
    BY <2>1, <2>3 DEF MaxPrunable
  <2>5. QED BY <2>1, <2>3, <2>4
<1>4. CASE ~(Cardinality(Verified) < repl.need)
  <2>1. \E S \in SUBSET Verified : Top(S)
    <3> DEFINE val == [p \in Verified |-> snap[Best(p)].at]
    <3>1. val \in [Verified -> 0 .. Len(log)] /\ \A p \in Verified : val[p] = snap[Best(p)].at
      BY <1>2
    <3>2. repl.need <= Cardinality(Verified)
      BY <1>1, <1>4, FS_CardinalityType
    <3> HIDE DEF val
    <3>3. PICK S \in SUBSET Verified : /\ Cardinality(S) = repl.need
                                       /\ \A p \in S, q \in Verified \ S : val[p] >= val[q]
      BY <1>1, <3>1, <3>2, TopExists
    <3>4. \A p \in S, q \in Verified \ S : snap[Best(p)].at >= snap[Best(q)].at
      BY <3>1, <3>3
    <3>5. QED BY <3>3, <3>4
  <2>2. Supporting = CHOOSE S \in SUBSET Verified : Top(S)
    BY <1>4 DEF Supporting
  <2>3. Supporting \in SUBSET Verified /\ Cardinality(Supporting) = repl.need
    BY <2>1, <2>2
  <2>4. repl.need = 0 => Supporting = {}
    <3>1. IsFiniteSet(Supporting)
      BY <1>1, <2>3, FS_Subset
    <3>2. QED BY <2>3, <3>1, FS_EmptySet
  <2>5. CASE repl.need = 0
    BY <1>1, <2>4, <2>5 DEF MaxPrunable
  <2>6. CASE repl.need # 0
    <3>1. Supporting # {}
      BY <2>3, <2>6, FS_EmptySet
    <3> DEFINE A == {snap[g].at : g \in SupportingGens}
    <3>2. MaxPrunable = Min(A)
      BY <2>6, <3>1 DEF MaxPrunable
    <3>3. A \in SUBSET Nat /\ A # {}
      <4>1. \A p \in Supporting : snap[Best(p)].at \in Nat
        <5>1. \A p \in Supporting : snap[Best(p)].at \in 0 .. Len(log)
          BY <1>2, <2>3
        <5>2. QED BY <1>1, <5>1
      <4>2. \A g \in SupportingGens : snap[g].at \in Nat
        BY <4>1 DEF SupportingGens
      <4>3. SupportingGens # {}
        BY <3>1 DEF SupportingGens
      <4>4. QED BY <4>2, <4>3
    <3>4. \A p \in Supporting : snap[Best(p)].at \in A
      BY DEF SupportingGens
    <3> HIDE DEF A
    <3>5. Min(A) \in A /\ \A x \in A : Min(A) <= x
      BY <3>3, MinIsLeast
    <3>6. \A p \in Supporting : snap[Best(p)].at >= MaxPrunable
      <4>1. \A p \in Supporting : snap[Best(p)].at \in Nat /\ MaxPrunable \in Nat
        <5>1. \A p \in Supporting : snap[Best(p)].at \in 0 .. Len(log)
          BY <1>2, <2>3
        <5>2. MaxPrunable \in Nat
          BY <3>2, <3>3, <3>5
        <5>3. QED BY <1>1, <5>1, <5>2
      <4>2. QED BY <3>2, <3>4, <3>5, <4>1
    <3>7. MaxPrunable \in Nat
      BY <3>2, <3>3, <3>5
    <3>8. QED BY <1>2, <2>3, <2>6, <3>1, <3>6, <3>7
  <2>7. QED BY <2>5, <2>6
<1>5. QED BY <1>3, <1>4

-----------------------------------------------------------------------------
(* What single steps keep.                                                    *)

\* The cursor after an insertion: every row of its era is still at most where it stands.
LEMMA InsertStands ==
  ASSUME TypeOK, CursorStands, NEW row \in RowType, Insert(row), Len(log) < MaxSeq,
         Len(log) + 1 \notin gone',
         row.w = 0 \/ row.w >= cursor.w,
         row.k = "reset" => row.w = 0,
         row.k \in {"delta", "diff"} => row.w > 0,
         cursor.at \notin gone' \/ (row.w > 0 /\ row.w >= cursor.w)
  PROVE  CursorStands'
<1> DEFINE N == Len(log) + 1
<1>1. /\ log' \in Seq(RowType) /\ Len(log') = N /\ log'[N] = row /\ LogKept
      /\ cursor' = IF row.k = "reset" THEN [w |-> 0, at |-> N]
                   ELSE IF row.w > 0 /\ row.w >= cursor.w THEN [w |-> row.w, at |-> N]
                   ELSE cursor
  BY InsertKeeps
<1>2. /\ Len(log) \in Nat /\ N \in Nat /\ N > 0 /\ Rows' = 1 .. N /\ row.w \in Nat
      /\ cursor.w \in Nat /\ cursor.at \in 0 .. Len(log)
      /\ \A s \in Rows : log[s].w \in Nat
  <2>1. log \in Seq(RowType) /\ Len(log) \in Nat /\ cursor.w \in Nat /\ cursor.at \in 0 .. Len(log)
    BY DEF TypeOK, RowType
  <2>2. \A s \in Rows : log[s] \in RowType
    <3> HIDE DEF RowType
    <3>1. QED BY <2>1 DEF Rows
  <2>3. QED BY <1>1, <2>1, <2>2 DEF Rows, RowType
<1>3. /\ \A s \in Rows : log'[s] = log[s] /\ s \in Rows' /\ s < N
      /\ \A s \in Rows' : s \in Rows \/ s = N
      /\ N \in Rows'
  BY <1>1, <1>2 DEF LogKept, Rows
<1>4. /\ cursor'.at = 0 => cursor'.w = 0
      /\ cursor'.at > 0 => log'[cursor'.at].w = cursor'.w
  <2>1. CASE cursor' = cursor
    BY <1>2, <1>3, <2>1 DEF CursorStands, Rows
  <2>2. CASE cursor'.at = N /\ cursor'.w = row.w
    BY <1>1, <1>2, <2>2
  <2>3. QED BY <1>1, <2>1, <2>2
<1>5. cursor'.at \notin gone'
  BY <1>1
<1>6. \A s \in Rows' : log'[s].w <= cursor'.w \/ \E r \in Rows' : r >= s /\ log'[r].k = "reset"
  <2> SUFFICES ASSUME NEW s \in Rows'
               PROVE  log'[s].w <= cursor'.w \/ \E r \in Rows' : r >= s /\ log'[r].k = "reset"
    OBVIOUS
  <2>1. CASE row.k = "reset"
    BY <1>1, <1>2, <1>3, <2>1
  <2>2. CASE row.k # "reset" /\ s = N
    <3>1. cursor'.w >= row.w
      BY <1>1, <1>2, <2>2
    <3>2. QED BY <1>1, <1>2, <2>2, <3>1
  <2>3. CASE row.k # "reset" /\ s \in Rows
    <3>1. cursor'.w >= cursor.w /\ cursor'.w \in Nat
      BY <1>1, <1>2, <2>3
    <3>2. log[s].w <= cursor.w \/ \E r \in Rows : r >= s /\ log[r].k = "reset"
      BY <2>3 DEF CursorStands
    <3>3. CASE log[s].w <= cursor.w
      BY <1>2, <1>3, <2>3, <3>1, <3>3
    <3>4. CASE \E r \in Rows : r >= s /\ log[r].k = "reset"
      BY <1>3, <3>4
    <3>5. QED BY <3>2, <3>3, <3>4
  <2>4. QED BY <1>3, <2>1, <2>2, <2>3
<1>7. \A s \in Rows' : log'[s].k = "reset" => log'[s].w = 0 /\ s <= cursor'.at
  <2> SUFFICES ASSUME NEW s \in Rows', log'[s].k = "reset"
               PROVE  log'[s].w = 0 /\ s <= cursor'.at
    OBVIOUS
  <2>1. CASE s = N
    BY <1>1, <1>2, <2>1
  <2>2. CASE s \in Rows
    <3>1. log[s].w = 0 /\ s <= cursor.at /\ log'[s].w = 0
      BY <1>3, <2>2 DEF CursorStands
    <3>2. cursor'.at >= cursor.at /\ cursor'.at \in Nat
      BY <1>1, <1>2
    <3>3. QED BY <1>2, <2>2, <3>1, <3>2 DEF Rows
  <2>3. QED BY <1>3, <2>1, <2>2
<1>8. \A s \in Rows' : log'[s].k \in {"delta", "diff"} => log'[s].w > 0
  BY <1>1, <1>3 DEF CursorStands
<1>9. QED BY <1>4, <1>5, <1>6, <1>7, <1>8 DEF CursorStands

\* What an insertion leaves as it was.
LEMMA InsertLeaves ==
  ASSUME TypeOK, SnapsWhole, LogKept, log' \in Seq(RowType), Len(log') = Len(log) + 1,
         gone \subseteq gone', UNCHANGED snap
  PROVE  SnapsWhole'
<1>1. Len(log) \in Nat /\ \A g \in Gens : snap[g].at \in 0 .. Len(log)
  BY DEF TypeOK
<1>2. ASSUME NEW g \in Gens, NEW s \in Rows' \ gone', s <= snap[g].at
      PROVE  s \in snap[g].rows
  <2>1. s \in Rows \ gone
    BY <1>1, <1>2 DEF Rows
  <2>2. QED BY <1>2, <2>1 DEF SnapsWhole
<1>3. QED BY <1>2 DEF SnapsWhole

\* Reservations are not lowered.
LEMMA ProtectRaises ==
  ASSUME TypeOK, NEW gens, Protect(gens, repl.need)
  PROVE  /\ prot' \in [Gens -> 0 .. Cardinality(Peers)]
         /\ \A g \in Gens : prot'[g] >= prot[g] /\ (g \in gens => prot'[g] >= repl.need)
<1>1. /\ Cardinality(Peers) \in Nat /\ repl.need \in 0 .. Cardinality(Peers)
      /\ prot \in [Gens -> 0 .. Cardinality(Peers)]
  BY PeersFinite DEF TypeOK
<1>2. \A g \in Gens : Max({prot[g], repl.need}) = IF prot[g] >= repl.need THEN prot[g] ELSE repl.need
  <2>1. \A g \in Gens : prot[g] \in Nat /\ repl.need \in Nat
    BY <1>1
  <2>2. QED BY <2>1, TwoNumbers
<1>3. prot' = [g \in Gens |-> IF g \in gens THEN Max({prot[g], repl.need}) ELSE prot[g]]
  BY DEF Protect
<1>4. \A g \in Gens : prot'[g] = IF g \in gens /\ prot[g] < repl.need THEN repl.need ELSE prot[g]
  BY <1>1, <1>2, <1>3
<1>5. QED BY <1>1, <1>3, <1>4

\* A row that is held stays held while assignments stay.
LEMMA HeldStays ==
  ASSUME TypeOK, UNCHANGED repl, acks \subseteq acks',
         \A g \in Gens : prot'[g] >= prot[g] /\ snap[g].rows \subseteq snap'[g].rows,
         prot' \in [Gens -> 0 .. Cardinality(Peers)],
         NEW s, NEW n \in 0 .. Cardinality(Peers), Held(s, n)
  PROVE  Held(s, n)'
<1> SUFFICES ASSUME n > 0
             PROVE  /\ Cardinality(Holders(s)') >= n
                    /\ \E g \in Gens : s \in snap'[g].rows /\ prot'[g] >= n
  BY DEF Held
<1>1. Cardinality(Holders(s)) >= n /\ \E g \in Gens : s \in snap[g].rows /\ prot[g] >= n
  BY DEF Held
<1>2. Holders(s) \subseteq Holders(s)' /\ Holders(s)' \subseteq Peers
  BY PeersFinite DEF Holders
<1>3. IsFiniteSet(Holders(s)') /\ Cardinality(Holders(s)') \in Nat
  BY <1>2, PeersFinite
<1>4. Cardinality(Holders(s)) <= Cardinality(Holders(s)')
  BY <1>2, <1>3, FS_Subset
<1>5. Cardinality(Holders(s)) \in Nat /\ n \in Nat
  BY <1>2, <1>3, FS_Subset, FS_CardinalityType, PeersFinite
<1>6. Cardinality(Holders(s)') >= n
  BY <1>1, <1>3, <1>4, <1>5
<1>7. \A g \in Gens : prot[g] \in Nat /\ prot'[g] \in Nat
  BY PeersFinite DEF TypeOK
<1>8. QED BY <1>1, <1>5, <1>6, <1>7

\* The numbers a row is held for.
LEMMA NeedsTyped ==
  TypeOK => /\ \A s \in gone : due[s] \in 0 .. Cardinality(Peers)
            /\ \A c \in Kids : kid[c].need \in 0 .. Cardinality(Peers)
            /\ gone \subseteq Rows /\ gone \subseteq Seqs
<1> SUFFICES ASSUME TypeOK
             PROVE  /\ \A s \in gone : due[s] \in 0 .. Cardinality(Peers)
                    /\ \A c \in Kids : kid[c].need \in 0 .. Cardinality(Peers)
                    /\ gone \subseteq Rows /\ gone \subseteq Seqs
  OBVIOUS
<1>1. Len(log) \in Nat /\ MaxSeq \in Nat
  BY PruningAssumption DEF TypeOK, MaxSeq
<1>2. gone \subseteq Rows /\ gone \subseteq Seqs
  BY <1>1 DEF TypeOK, Rows, Seqs
<1>3. QED BY <1>2 DEF TypeOK

\* With no row deleted and no child further on, what was held is held.
LEMMA AllHeldStay ==
  ASSUME TypeOK, PicksHeld, UNCHANGED <<repl, gone, due>>, acks \subseteq acks',
         \A g \in Gens : prot'[g] >= prot[g] /\ snap[g].rows \subseteq snap'[g].rows,
         prot' \in [Gens -> 0 .. Cardinality(Peers)],
         \A c \in Kids : kid'[c].pick = {} \/ \E b \in Kids : kid'[c].pick = kid[b].pick
                                                          /\ kid'[c].need = kid[b].need
  PROVE  PicksHeld'
<1>1. \A s \in gone' : Held(s, due[s])'
  <2> SUFFICES ASSUME NEW s \in gone PROVE Held(s, due[s])'
    OBVIOUS
  <2>1. Held(s, due[s]) /\ due[s] \in 0 .. Cardinality(Peers)
    BY NeedsTyped DEF PicksHeld
  <2>2. QED BY <2>1, HeldStays
<1>2. ASSUME NEW c \in Kids, NEW s \in kid'[c].pick
      PROVE  Held(s, kid[c].need)'
  <2>1. PICK b \in Kids : kid'[c].pick = kid[b].pick /\ kid'[c].need = kid[b].need
    BY <1>2
  <2>2. Held(s, kid[b].need) /\ kid[b].need \in 0 .. Cardinality(Peers)
    BY <1>2, <2>1, NeedsTyped DEF PicksHeld
  <2>3. QED BY <2>1, <2>2, HeldStays
<1>3. QED BY <1>1, <1>2 DEF PicksHeld

LEMMA Frames ==
  /\ UNCHANGED <<log, cursor, gone>> /\ CursorStands => CursorStands'
  /\ UNCHANGED <<log, cursor, gone>> /\ Counted => Counted'
  /\ UNCHANGED <<log, gone, snap>> /\ SnapsWhole => SnapsWhole'
  /\ UNCHANGED log /\ TypeOK => LogKept /\ Len(log') \in Nat
<1>1. UNCHANGED <<log, cursor, gone>> /\ CursorStands => CursorStands'
  BY DEF CursorStands, Rows
<1>2. UNCHANGED <<log, cursor, gone>> /\ Counted => Counted'
  BY DEF Counted, Own, Checks, Rows
<1>3. UNCHANGED <<log, gone, snap>> /\ SnapsWhole => SnapsWhole'
  BY DEF SnapsWhole, Rows
<1>4. UNCHANGED log /\ TypeOK => LogKept /\ Len(log') \in Nat
  BY DEF LogKept, TypeOK
<1>5. QED BY <1>1, <1>2, <1>3, <1>4

\* With no row deleted, no further one picked and no pass beyond the recovery generation.
LEMMA PicksSafeStay ==
  ASSUME TypeOK, PicksSafe, LogKept, Len(log') \in Nat, UNCHANGED gone,
         strong' \in Nat, strong' >= strong,
         \A c \in Kids : /\ kid'[c].through \in Nat
                         /\ kid'[c].through <= strong \/ kid'[c].through = 0
                         /\ \A s \in kid'[c].pick : \E b \in Kids : s \in kid[b].pick
  PROVE  PicksSafe'
<1>1. strong \in Nat
  BY DEF TypeOK
<1>2. \A s \in gone' : Redundant(s)' /\ s <= strong'
  <2> SUFFICES ASSUME NEW s \in gone PROVE Redundant(s)' /\ s <= strong'
    OBVIOUS
  <2>1. Redundant(s) /\ s <= strong
    BY DEF PicksSafe
  <2>2. s \in Nat
    BY <2>1 DEF Redundant, Rows
  <2>3. QED BY <1>1, <2>1, <2>2, RedundantStays
<1>3. ASSUME NEW c \in Kids
      PROVE  /\ kid'[c].through <= strong'
             /\ \A s \in kid'[c].pick : Redundant(s)' /\ s <= strong'
  <2>1. kid'[c].through <= strong'
    BY <1>1
  <2>2. ASSUME NEW s \in kid'[c].pick
        PROVE  Redundant(s)' /\ s <= strong'
    <3>1. Redundant(s) /\ s <= strong
      BY <2>2 DEF PicksSafe
    <3>2. s \in Nat
      BY <3>1 DEF Redundant, Rows
    <3>3. QED BY <1>1, <3>1, <3>2, RedundantStays
  <2>3. QED BY <2>1, <2>2
<1>4. QED BY <1>2, <1>3 DEF PicksSafe

LEMMA SameRows ==
  ASSUME TypeOK, UNCHANGED <<prot, snap>>
  PROVE  /\ \A g \in Gens : prot'[g] >= prot[g] /\ snap[g].rows \subseteq snap'[g].rows
         /\ prot' \in [Gens -> 0 .. Cardinality(Peers)]
<1>1. prot \in [Gens -> 0 .. Cardinality(Peers)] /\ Cardinality(Peers) \in Nat
  BY PeersFinite DEF TypeOK
<1>2. QED BY <1>1

LEMMA SameKids ==
  ASSUME TypeOK, UNCHANGED kid
  PROVE  /\ \A c \in Kids :
              \/ kid'[c].pick = {}
              \/ \E b \in Kids : kid'[c].pick = kid[b].pick /\ kid'[c].need = kid[b].need
         /\ PicksSafe => \A c \in Kids :
              /\ kid'[c].through \in Nat
              /\ kid'[c].through <= strong \/ kid'[c].through = 0
              /\ \A s \in kid'[c].pick : \E b \in Kids : s \in kid[b].pick
<1>1. \A c \in Kids : kid[c].through \in 0 .. Len(log)
  BY DEF TypeOK
<1>2. Len(log) \in Nat
  BY DEF TypeOK
<1>3. QED BY <1>1, <1>2 DEF PicksSafe

-----------------------------------------------------------------------------
(* Every step keeps the inductive invariant.                                  *)

LEMMA InitInv == Init => IInv
<1> SUFFICES ASSUME Init PROVE IInv
  OBVIOUS
<1>1. Cardinality(Peers) \in Nat /\ Cardinality({}) = 0 /\ MaxRows \in Nat /\ MaxGen \in Nat
  BY PruningAssumption, FS_CardinalityType, FS_EmptySet
<1>2. Len(log) = 0 /\ log = <<>> /\ Rows = {}
  BY DEF Init, Rows
<1>3. TypeOK
  BY <1>1, <1>2 DEF Init, TypeOK, Idle, Kids, MaxSeq, Seqs, Gens
<1>4. CursorStands
  BY <1>2 DEF Init, CursorStands
<1>5. PicksSafe
  BY <1>2 DEF Init, PicksSafe, Idle, Kids
<1>6. Own = {} /\ Checks = {}
  BY <1>2 DEF Own, Checks, Rows
<1>7. Counted
  BY <1>1, <1>6 DEF Init, Counted
<1>8. SnapsWhole
  BY <1>2 DEF Init, SnapsWhole, Gens
<1>9. PicksHeld
  BY DEF Init, PicksHeld, Idle, Kids
<1>10. QED BY <1>3, <1>4, <1>5, <1>7, <1>8, <1>9 DEF IInv

\* The hub appends the next row of a history: one more of its rows, none deleted.
LEMMA AppendInv == ASSUME IInv, AppendRow PROVE IInv'
<1> USE DEF IInv
<1> DEFINE n == Cardinality(Own)
           N == Len(log) + 1
<1>1. PICK h \in Histories :
        /\ n < Len(h)
        /\ Insert([k |-> h[n + 1], w |-> IF h[n + 1] \in {"delta", "diff"} THEN cursor.w + 1 ELSE 0])
  BY DEF AppendRow
<1> DEFINE row == [k |-> h[n + 1], w |-> IF h[n + 1] \in {"delta", "diff"} THEN cursor.w + 1 ELSE 0]
<1>2. UNCHANGED <<gone, strong, due, repl, snap, prot, acks, copy, kid>>
  BY DEF AppendRow
<1>3. /\ Len(log) = n + Cardinality(Checks) /\ n \in Nat /\ Cardinality(Checks) \in Nat
      /\ Cardinality(gone) \in Nat /\ Cardinality(gone) <= n
  BY RowCount
<1>4. /\ h \in Seq({"delta", "end", "diff", "reset"}) /\ Len(h) <= MaxRows /\ MaxRows \in Nat
  BY PruningAssumption
<1>5. n + 1 \in 1 .. Len(h) /\ n + 1 <= MaxRows /\ h[n + 1] \in {"delta", "end", "diff", "reset"}
  <2>1. n + 1 \in 1 .. Len(h) /\ n + 1 <= MaxRows
    BY <1>1, <1>3, <1>4
  <2>2. QED BY <1>4, <2>1
<1>6. Len(log) < MaxSeq
  <2>1. Cardinality(Checks) <= n
    BY <1>3 DEF Counted
  <2>2. QED BY <1>3, <1>4, <1>5, <2>1 DEF MaxSeq
<1>7. cursor.w <= n /\ cursor.w \in Nat /\ cursor.at \in 0 .. Len(log) /\ Len(log) \in Nat
  BY DEF Counted, TypeOK
<1>8. row \in RowType
  BY <1>3, <1>5, <1>7, <1>4 DEF RowType
<1>9. Insert(row)
  BY <1>1
<1>10. /\ row.w = 0 \/ (row.w = cursor.w + 1 /\ row.k \in {"delta", "diff"})
       /\ row.k \in {"delta", "diff"} => row.w = cursor.w + 1
       /\ row.k # "check"
  BY <1>5
<1> HIDE DEF row, n
<1>11. /\ log' \in Seq(RowType) /\ Len(log') = N /\ Len(log') <= MaxSeq /\ log'[N] = row /\ LogKept
       /\ cursor' \in [w : 0 .. MaxRows, at : 0 .. Len(log')]
       /\ cursor' = IF row.k = "reset" THEN [w |-> 0, at |-> N]
                    ELSE IF row.w > 0 /\ row.w >= cursor.w THEN [w |-> row.w, at |-> N]
                    ELSE cursor
  BY <1>6, <1>8, <1>9, InsertKeeps
<1>12. TypeOK'
  <2>1. \A i \in 0 .. Len(log) : i \in 0 .. Len(log')
    BY <1>7, <1>11
  <2>2. gone' \subseteq 1 .. Len(log') /\ strong' \in 0 .. Len(log')
    BY <1>2, <1>7, <1>11 DEF TypeOK
  <2>3. snap' \in [Gens -> [at : 0 .. Len(log'), rows : SUBSET Seqs]]
    <3>1. snap \in [Gens -> [at : 0 .. Len(log), rows : SUBSET Seqs]]
      BY DEF TypeOK
    <3>2. QED BY <1>2, <2>1, <3>1
  <2>4. kid' \in [Kids -> [at : {"idle", "batch", "picked"}, through : 0 .. Len(log'),
                           need : 0 .. Cardinality(Peers), pick : SUBSET Seqs]]
    <3>1. kid \in [Kids -> [at : {"idle", "batch", "picked"}, through : 0 .. Len(log),
                            need : 0 .. Cardinality(Peers), pick : SUBSET Seqs]]
      BY DEF TypeOK
    <3>2. QED BY <1>2, <2>1, <3>1
  <2>5. log' \in Seq([k : {"delta", "end", "diff", "reset", "check"}, w : 0 .. MaxRows])
    BY <1>11 DEF RowType
  <2>6. QED BY <1>2, <1>11, <2>2, <2>3, <2>4, <2>5 DEF TypeOK
<1>13. CursorStands'
  <2>1. N \notin gone' /\ cursor.at \notin gone'
    BY <1>2, <1>7 DEF TypeOK, CursorStands
  <2>2. QED BY <1>6, <1>7, <1>8, <1>9, <1>10, <2>1, InsertStands
<1>14. PicksSafe'
  <2>1. Len(log') \in Nat /\ strong \in Nat /\ strong' = strong
    BY <1>2, <1>7, <1>11 DEF TypeOK
  <2>2. QED BY <1>2, <1>11, <2>1, SameKids, PicksSafeStay
<1>15. Counted'
  <2>1. Own' = Own \cup {N} /\ Checks' = Checks /\ N \notin Own
    <3>1. \A s \in 1 .. Len(log') : s \in 1 .. Len(log) \/ s = N
      BY <1>7, <1>11
    <3>2. \A s \in 1 .. Len(log) : log'[s] = log[s] /\ s \in 1 .. Len(log') /\ s # N
      BY <1>7, <1>11 DEF LogKept, Rows
    <3>3. N \in 1 .. Len(log') /\ log'[N].k # "check"
      BY <1>7, <1>10, <1>11
    <3>4. QED BY <3>1, <3>2, <3>3 DEF Own, Checks, Rows
  <2>2. IsFiniteSet(Own)
    BY RowSets DEF Own, Rows
  <2>3. Cardinality(Own') = n + 1
    BY <2>1, <2>2, FS_AddElement DEF n
  <2>4. cursor'.w <= n + 1
    BY <1>3, <1>7, <1>10, <1>11
  <2>5. QED BY <1>2, <1>5, <2>1, <2>3, <2>4 DEF Counted
<1>16. SnapsWhole'
  BY <1>2, <1>11, InsertLeaves
<1>17. PicksHeld'
  BY <1>2, SameRows, SameKids, AllHeldStay
<1>18. QED BY <1>12, <1>13, <1>14, <1>15, <1>16, <1>17

\* A backup only raises what the newest generation has.
LEMMA BackupInv == ASSUME IInv, Backup PROVE IInv'
<1> USE DEF IInv
<1>1. UNCHANGED <<log, gone, cursor, due, repl, snap, prot, acks, copy, kid>>
  BY DEF Backup
<1>2. strong' \in 0 .. Len(log) /\ strong' > strong /\ strong \in Nat /\ Len(log) \in Nat
  <2>1. Len(log) \in Nat /\ strong \in Nat
    BY DEF TypeOK
  <2>2. Alive \in SUBSET (0 .. Len(log))
    BY <2>1 DEF Alive
  <2>3. Highest(Alive) \in 0 .. Len(log)
    BY <2>1, <2>2, HighestIsGreatest
  <2>4. QED BY <2>1, <2>3 DEF Backup
<1>3. TypeOK'
  BY <1>1, <1>2 DEF TypeOK
<1>4. CursorStands' /\ Counted' /\ SnapsWhole'
  BY <1>1, Frames
<1>5. PicksSafe'
  BY <1>1, <1>2, Frames, SameKids, PicksSafeStay
<1>6. PicksHeld'
  BY <1>1, SameRows, SameKids, AllHeldStay
<1>7. QED BY <1>3, <1>4, <1>5, <1>6

LEMMA ProtectInv == ASSUME IInv, ProtectOnly PROVE IInv'
<1> USE DEF IInv
<1>1. UNCHANGED <<log, gone, cursor, strong, due, repl, snap, acks, copy, kid>>
  BY DEF ProtectOnly, journal
<1>2. /\ prot' \in [Gens -> 0 .. Cardinality(Peers)]
      /\ \A g \in Gens : prot'[g] >= prot[g]
  BY ProtectRaises DEF ProtectOnly
<1>3. TypeOK'
  BY <1>1, <1>2 DEF TypeOK
<1>4. CursorStands' /\ Counted' /\ SnapsWhole'
  BY <1>1, Frames
<1>5. PicksSafe'
  <2>1. strong' \in Nat /\ strong' >= strong
    BY <1>1 DEF TypeOK
  <2>2. QED BY <1>1, <2>1, Frames, SameKids, PicksSafeStay
<1>6. PicksHeld'
  BY <1>1, <1>2, SameKids, AllHeldStay
<1>7. QED BY <1>3, <1>4, <1>5, <1>6

\* Steps of children that delete nothing and reserve nothing.
LEMMA KidsInv ==
  ASSUME IInv, UNCHANGED <<journal, repl, snap, prot, acks, copy>>,
         kid' \in [Kids -> [at : {"idle", "batch", "picked"}, through : 0 .. Len(log),
                            need : 0 .. Cardinality(Peers), pick : SUBSET Seqs]],
         \A c \in Kids :
           \/ kid'[c].pick = {} /\ kid'[c].through <= strong
           \/ \E b \in Kids : kid'[c] = kid[b]
  PROVE  IInv'
<1> USE DEF IInv
<1>1. UNCHANGED <<log, gone, cursor, strong, due>>
  BY DEF journal
<1>2. TypeOK'
  BY <1>1 DEF TypeOK
<1>3. CursorStands' /\ Counted' /\ SnapsWhole'
  BY <1>1, Frames
<1>4. PicksSafe'
  <2>1. strong \in Nat /\ strong' = strong /\ Len(log) \in Nat
    BY <1>1 DEF TypeOK
  <2>2. \A c \in Kids : kid[c].through <= strong
    BY DEF PicksSafe
  <2>3. \A c \in Kids : /\ kid'[c].through \in Nat
                        /\ kid'[c].through <= strong \/ kid'[c].through = 0
                        /\ \A s \in kid'[c].pick : \E b \in Kids : s \in kid[b].pick
    BY <2>1, <2>2
  <2>4. QED BY <1>1, <2>1, <2>3, Frames, PicksSafeStay
<1>5. PicksHeld'
  <2>1. \A c \in Kids : kid'[c].pick = {} \/ \E b \in Kids : kid'[c].pick = kid[b].pick
                                                          /\ kid'[c].need = kid[b].need
    OBVIOUS
  <2>2. QED BY <1>1, <2>1, SameRows, AllHeldStay
<1>6. QED BY <1>2, <1>3, <1>4, <1>5

LEMMA KidsTyped ==
  TypeOK => /\ kid \in [Kids -> [at : {"idle", "batch", "picked"}, through : 0 .. Len(log),
                                 need : 0 .. Cardinality(Peers), pick : SUBSET Seqs]]
            /\ Idle \in [at : {"idle", "batch", "picked"}, through : 0 .. Len(log),
                         need : 0 .. Cardinality(Peers), pick : SUBSET Seqs]
            /\ Kids = {"own", "orphan"}
            /\ strong \in Nat /\ strong <= Len(log) /\ Len(log) \in Nat
<1> SUFFICES ASSUME TypeOK
             PROVE  /\ kid \in [Kids -> [at : {"idle", "batch", "picked"}, through : 0 .. Len(log),
                                         need : 0 .. Cardinality(Peers), pick : SUBSET Seqs]]
                    /\ Idle \in [at : {"idle", "batch", "picked"}, through : 0 .. Len(log),
                                 need : 0 .. Cardinality(Peers), pick : SUBSET Seqs]
                    /\ Kids = {"own", "orphan"}
                    /\ strong \in Nat /\ strong <= Len(log) /\ Len(log) \in Nat
  OBVIOUS
<1>1. Len(log) \in Nat /\ Cardinality(Peers) \in Nat /\ strong \in 0 .. Len(log)
  BY PeersFinite DEF TypeOK
<1>2. QED BY <1>1 DEF TypeOK, Idle, Kids

LEMMA StartPassInv == ASSUME IInv, StartPass PROVE IInv'
<1> USE DEF IInv
<1> DEFINE newest == Frontier(Len(log))
           through == IF newest > strong THEN Frontier(strong) ELSE newest
<1>1. /\ UNCHANGED <<journal, repl, snap, prot, acks, copy>>
      /\ kid' = [kid EXCEPT !["own"] = [Idle EXCEPT !.at = "batch", !.through = through]]
  BY DEF StartPass, Go
<1>2. through \in 0 .. Len(log) /\ through <= strong
  BY KidsTyped, FrontierWithin
<1> HIDE DEF through
<1> DEFINE k == [Idle EXCEPT !.at = "batch", !.through = through]
<1>3. /\ k \in [at : {"idle", "batch", "picked"}, through : 0 .. Len(log),
                need : 0 .. Cardinality(Peers), pick : SUBSET Seqs]
      /\ k.pick = {} /\ k.through = through
  BY <1>2, KidsTyped DEF Idle
<1> HIDE DEF k
<1>4. \A c \in Kids : kid'[c] = IF c = "own" THEN k ELSE kid[c]
  BY <1>1, KidsTyped DEF k
<1>5. kid' \in [Kids -> [at : {"idle", "batch", "picked"}, through : 0 .. Len(log),
                         need : 0 .. Cardinality(Peers), pick : SUBSET Seqs]]
  BY <1>1, <1>3, KidsTyped DEF k
<1>6. QED BY <1>1, <1>2, <1>3, <1>4, <1>5, KidsInv

LEMMA KidDiesInv == ASSUME IInv, NEW c \in Kids, KidDies(c) PROVE IInv'
<1> USE DEF IInv
<1>1. UNCHANGED <<journal, repl, snap, prot, acks, copy>> /\ kid' = [kid EXCEPT ![c] = Idle]
  BY DEF KidDies, Go
<1>2. \A b \in Kids : kid'[b] = Idle \/ kid'[b] = kid[b]
  BY <1>1, KidsTyped
<1>3. kid' \in [Kids -> [at : {"idle", "batch", "picked"}, through : 0 .. Len(log),
                         need : 0 .. Cardinality(Peers), pick : SUBSET Seqs]]
  <2> HIDE DEF Idle
  <2>1. QED BY <1>1, KidsTyped
<1>4. Idle.pick = {} /\ Idle.through <= strong
  BY KidsTyped DEF Idle
<1>5. QED BY <1>1, <1>2, <1>3, <1>4, KidsInv

LEMMA HubRestartsInv == ASSUME IInv, HubRestarts PROVE IInv'
<1> USE DEF IInv
<1>1. /\ UNCHANGED <<journal, repl, snap, prot, acks, copy>>
      /\ kid' = [own |-> Idle, orphan |-> kid["own"]]
  BY DEF HubRestarts
<1>2. kid'["own"] = Idle /\ kid'["orphan"] = kid["own"]
  BY <1>1
<1>3. kid' \in [Kids -> [at : {"idle", "batch", "picked"}, through : 0 .. Len(log),
                         need : 0 .. Cardinality(Peers), pick : SUBSET Seqs]]
  BY <1>1, KidsTyped
<1>4. Idle.pick = {} /\ Idle.through <= strong
  BY KidsTyped DEF Idle
<1>5. \A c \in Kids : kid'[c] = Idle \/ \E b \in Kids : kid'[c] = kid[b]
  BY <1>2, KidsTyped
<1>6. QED BY <1>1, <1>3, <1>4, <1>5, KidsInv

\* What a child picks is redundant, behind the recovery generation and the gate; the gate's
\* peers hold it, and their snapshots are reserved in the same transaction.
LEMMA PickInv == ASSUME IInv, NEW c \in Kids, Pick(c) PROVE IInv'
<1> USE DEF IInv
<1> DEFINE through == kid[c].through
           S == {s \in Superseded : s <= Min({MaxPrunable, through})}
           batch == {s \in S : Cardinality({t \in S : t < s}) < BatchMax}
           k == IF S = {} THEN Idle
                ELSE [kid[c] EXCEPT !.at = "picked", !.need = repl.need, !.pick = batch]
<1>1. /\ UNCHANGED <<log, gone, cursor, strong, due, repl, snap, acks, copy>>
      /\ Protect(SupportingGens, repl.need)
      /\ kid' = [kid EXCEPT ![c] = k]
  BY DEF Pick, Go, journal
<1>2. /\ MaxPrunable \in Nat /\ through \in Nat /\ through <= strong /\ strong \in Nat
      /\ repl.need \in 0 .. Cardinality(Peers)
  BY GateFacts, KidsTyped, PeersFinite DEF PicksSafe
<1>3. \A s \in batch : s \in Rows \ gone /\ Redundant(s) /\ s <= MaxPrunable /\ s <= through
  <2>1. Min({MaxPrunable, through}) = IF MaxPrunable <= through THEN MaxPrunable ELSE through
    BY <1>2, TwoNumbers
  <2>2. \A s \in batch : s \in Superseded /\ s <= Min({MaxPrunable, through})
    OBVIOUS
  <2>3. \A s \in batch : s \in Rows \ gone /\ Redundant(s) /\ s \in Nat
    BY <2>2, SupersededRedundant DEF Rows
  <2>4. QED BY <1>2, <2>1, <2>2, <2>3
<1> HIDE DEF S, batch
<1>4. batch \subseteq Seqs
  <2>1. Len(log) \in Nat /\ Len(log) <= MaxSeq /\ MaxSeq \in Nat
    BY PruningAssumption DEF TypeOK, MaxSeq
  <2>2. QED BY <1>3, <2>1 DEF Rows, Seqs
<1>5. /\ k \in [at : {"idle", "batch", "picked"}, through : 0 .. Len(log),
                need : 0 .. Cardinality(Peers), pick : SUBSET Seqs]
      /\ k.through = 0 \/ k.through = through
      /\ k.pick = {} \/ (k.pick = batch /\ k.need = repl.need)
  <2>1. CASE S = {}
    BY <2>1, KidsTyped DEF Idle
  <2>2. CASE S # {}
    BY <1>2, <1>4, <2>2, KidsTyped
  <2>3. QED BY <2>1, <2>2
<1> HIDE DEF k
<1>6. /\ kid' \in [Kids -> [at : {"idle", "batch", "picked"}, through : 0 .. Len(log),
                            need : 0 .. Cardinality(Peers), pick : SUBSET Seqs]]
      /\ \A b \in Kids : kid'[b] = IF b = c THEN k ELSE kid[b]
  BY <1>1, <1>5, KidsTyped
<1>7. /\ prot' \in [Gens -> 0 .. Cardinality(Peers)]
      /\ \A g \in Gens : prot'[g] >= prot[g] /\ (g \in SupportingGens => prot'[g] >= repl.need)
  BY <1>1, ProtectRaises
<1>8. TypeOK'
  BY <1>1, <1>6, <1>7 DEF TypeOK
<1>9. CursorStands' /\ Counted' /\ SnapsWhole'
  BY <1>1, Frames
<1>10. LogKept /\ Len(log') \in Nat
  BY <1>1, Frames
<1>11. PicksSafe'
  <2>1. \A s \in gone' : Redundant(s)' /\ s <= strong'
    BY <1>1, <1>10, RedundantStays DEF PicksSafe
  <2>2. ASSUME NEW b \in Kids, NEW s \in kid'[b].pick
        PROVE  Redundant(s) /\ s <= strong
    <3>1. CASE b = c
      <4>1. s \in batch
        BY <1>5, <1>6, <2>2, <3>1
      <4>2. s \in Nat
        BY <1>3, <4>1 DEF Rows
      <4>3. QED BY <1>2, <1>3, <4>1, <4>2
    <3>2. CASE b # c
      BY <1>6, <2>2, <3>2 DEF PicksSafe
    <3>3. QED BY <3>1, <3>2
  <2>3. \A b \in Kids : \A s \in kid'[b].pick : Redundant(s)' /\ s <= strong'
    BY <1>1, <1>10, <2>2, RedundantStays
  <2>4. \A b \in Kids : kid'[b].through <= strong'
    BY <1>1, <1>2, <1>5, <1>6 DEF PicksSafe
  <2>5. QED BY <2>1, <2>3, <2>4 DEF PicksSafe
<1>12. ASSUME NEW s \in batch
       PROVE  Held(s, repl.need)'
  <2> SUFFICES ASSUME repl.need > 0
               PROVE  /\ Cardinality(Holders(s)') >= repl.need
                      /\ \E g \in Gens : s \in snap'[g].rows /\ prot'[g] >= repl.need
    BY <1>1 DEF Held
  <2>1. MaxPrunable > 0
    BY <1>2, <1>3 DEF Rows
  <2>2. /\ Supporting # {} /\ Cardinality(Supporting) = repl.need
        /\ \A p \in Supporting : /\ p \in repl.peers /\ Best(p) \in Gens
                                 /\ <<Best(p), p>> \in acks
                                 /\ snap[Best(p)].at >= MaxPrunable
    BY <2>1, GateFacts
  <2>3. ASSUME NEW p \in Supporting
        PROVE  s \in snap[Best(p)].rows
    <3>1. snap[Best(p)].at \in Nat /\ s \in Nat
      <4>1. \A g \in Gens : snap[g].at \in 0 .. Len(log)
        BY DEF TypeOK
      <4>2. snap[Best(p)].at \in 0 .. Len(log)
        BY <2>2, <4>1
      <4>3. s \in 1 .. Len(log) /\ Len(log) \in Nat
        BY <1>3, KidsTyped DEF Rows
      <4>4. QED BY <4>2, <4>3
    <3>2. s <= snap[Best(p)].at
      <4>1. s <= MaxPrunable
        BY <1>3
      <4>2. snap[Best(p)].at >= MaxPrunable
        BY <2>2
      <4>3. QED BY <1>2, <3>1, <4>1, <4>2
    <3>3. QED BY <1>3, <2>2, <3>2 DEF SnapsWhole
  <2>4. Supporting \subseteq Holders(s)'
    BY <1>1, <2>2, <2>3 DEF Holders
  <2>5. IsFiniteSet(Holders(s)') /\ Cardinality(Holders(s)') \in Nat
    <3>1. Holders(s)' \subseteq Peers
      BY <1>1, PeersFinite DEF Holders
    <3>2. QED BY <3>1, PeersFinite
  <2>6. Cardinality(Supporting) <= Cardinality(Holders(s)')
    BY <2>4, <2>5, FS_Subset
  <2>7. \E g \in Gens : s \in snap'[g].rows /\ prot'[g] >= repl.need
    BY <1>1, <1>7, <2>2, <2>3 DEF SupportingGens
  <2>8. QED BY <1>2, <2>2, <2>5, <2>6, <2>7
<1>13. PicksHeld'
  <2>1. \A g \in Gens : prot'[g] >= prot[g] /\ snap[g].rows \subseteq snap'[g].rows
    BY <1>1, <1>7
  <2>2. \A s \in gone' : Held(s, due[s])'
    <3> SUFFICES ASSUME NEW s \in gone PROVE Held(s, due[s])'
      BY <1>1
    <3>1. Held(s, due[s]) /\ due[s] \in 0 .. Cardinality(Peers) /\ due' = due
      BY <1>1, NeedsTyped DEF PicksHeld
    <3>2. QED BY <1>1, <1>7, <2>1, <3>1, HeldStays
  <2>3. ASSUME NEW b \in Kids, NEW s \in kid'[b].pick
        PROVE  Held(s, kid[b].need)'
    <3>1. CASE b = c
      BY <1>1, <1>5, <1>6, <1>12, <2>3, <3>1
    <3>2. CASE b # c
      <4>1. s \in kid[b].pick /\ kid'[b] = kid[b]
        BY <1>6, <2>3, <3>2
      <4>2. Held(s, kid[b].need) /\ kid[b].need \in 0 .. Cardinality(Peers)
        BY <4>1, NeedsTyped DEF PicksHeld
      <4>3. QED BY <1>1, <1>7, <2>1, <4>1, <4>2, HeldStays
    <3>3. QED BY <3>1, <3>2
  <2>4. QED BY <2>2, <2>3 DEF PicksHeld
<1>14. QED BY <1>8, <1>9, <1>11, <1>13

\* The rows go as they were picked, and a checkpoint takes the place of the anchor.
LEMMA DeleteInv == ASSUME IInv, NEW c \in Kids, Delete(c) PROVE IInv'
<1> USE DEF IInv
<1> DEFINE pick == kid[c].pick
           k == [Idle EXCEPT !.at = "batch", !.through = kid[c].through]
           N == Len(log) + 1
           row == [k |-> "check", w |-> cursor.w]
<1>1. /\ UNCHANGED <<strong, repl, snap, prot, acks, copy>>
      /\ IF cursor.at \in pick \ gone THEN Insert(row) ELSE UNCHANGED <<log, cursor>>
      /\ gone' = gone \cup pick
      /\ due' = [s \in Seqs |-> IF s \in pick \ gone THEN kid[c].need ELSE due[s]]
      /\ kid' = [kid EXCEPT ![c] = k]
  BY DEF Delete, Go
<1>2. /\ Len(log) \in Nat /\ strong \in Nat /\ strong <= Len(log)
      /\ pick \subseteq Rows /\ pick \subseteq Seqs
      /\ \A s \in pick : Redundant(s) /\ s <= strong
      /\ kid[c].through <= strong /\ kid[c].through \in 0 .. Len(log)
      /\ kid[c].need \in 0 .. Cardinality(Peers)
  BY KidsTyped DEF PicksSafe, Redundant
<1>3. /\ Len(log) = Cardinality(Own) + Cardinality(Checks)
      /\ Cardinality(Own) \in Nat /\ Cardinality(Checks) \in Nat /\ Cardinality(gone) \in Nat
      /\ Cardinality(Checks) <= Cardinality(gone)
      /\ Cardinality(Own) <= MaxRows
  BY RowCount DEF Counted
<1>4. /\ gone' \subseteq Own /\ gone' \subseteq Rows
      /\ Cardinality(gone') \in Nat /\ Cardinality(gone) <= Cardinality(gone')
      /\ Cardinality(gone') <= Cardinality(Own)
      /\ cursor.at \in pick \ gone => Cardinality(gone') >= Cardinality(gone) + 1
  <2>1. gone' \subseteq Own /\ Own \subseteq Rows
    BY <1>1, <1>2 DEF PicksSafe, Redundant, Own, Rows
  <2>2. IsFiniteSet(Own) /\ Cardinality(gone') \in Nat /\ Cardinality(gone') <= Cardinality(Own)
    BY <2>1, RowSets
  <2>3. gone \subseteq gone' /\ gone' \subseteq Rows
    BY <1>1, <2>1
  <2>4. IsFiniteSet(gone) /\ IsFiniteSet(gone') /\ Cardinality(gone) <= Cardinality(gone')
    BY <2>3, RowSets
  <2>5. ASSUME cursor.at \in pick \ gone
        PROVE  Cardinality(gone') >= Cardinality(gone) + 1
    <3>1. gone \cup {cursor.at} \subseteq gone' /\ cursor.at \notin gone
      BY <1>1, <2>5
    <3>2. Cardinality(gone \cup {cursor.at}) = Cardinality(gone) + 1
      BY <2>4, <3>1, FS_AddElement
    <3>3. Cardinality(gone \cup {cursor.at}) <= Cardinality(gone')
      BY <2>4, <3>1, FS_Subset
    <3>4. QED BY <3>2, <3>3
  <2>6. QED BY <2>1, <2>2, <2>3, <2>4, <2>5
<1>5. \* The anchor is a numbered row, so that the checkpoint takes the cursor.
      ASSUME cursor.at \in pick \ gone
      PROVE  /\ row \in RowType /\ Insert(row) /\ Len(log) < MaxSeq
             /\ row.k = "check" /\ row.w = cursor.w /\ cursor.w > 0
  <2>1. cursor.at \in Rows /\ log[cursor.at].k \in {"delta", "diff"}
    BY <1>2, <1>5 DEF Redundant
  <2>2. log[cursor.at].w > 0 /\ cursor.at > 0
    BY <1>2, <2>1 DEF CursorStands, Rows
  <2>3. cursor.w > 0 /\ cursor.w \in 0 .. MaxRows
    BY <2>2 DEF CursorStands, TypeOK
  <2>4. Len(log) < MaxSeq
    BY <1>3, <1>4, <1>5, PruningAssumption DEF MaxSeq
  <2>5. QED BY <1>1, <1>5, <2>3, <2>4 DEF RowType
<1>6. ASSUME cursor.at \in pick \ gone
      PROVE  /\ log' \in Seq(RowType) /\ Len(log') = N /\ Len(log') <= MaxSeq /\ log'[N] = row
             /\ LogKept
             /\ cursor' \in [w : 0 .. MaxRows, at : 0 .. Len(log')]
             /\ cursor'.w = cursor.w
  <2> HIDE DEF row
  <2>1. /\ log' \in Seq(RowType) /\ Len(log') = N /\ Len(log') <= MaxSeq /\ log'[N] = row
        /\ LogKept
        /\ cursor' \in [w : 0 .. MaxRows, at : 0 .. Len(log')]
        /\ cursor' = IF row.k = "reset" THEN [w |-> 0, at |-> N]
                     ELSE IF row.w > 0 /\ row.w >= cursor.w THEN [w |-> row.w, at |-> N]
                     ELSE cursor
    BY <1>5, <1>6, InsertKeeps
  <2>2. cursor'.w = cursor.w
    BY <1>5, <1>6, <2>1
  <2>3. QED BY <2>1, <2>2
<1>7. /\ LogKept /\ log' \in Seq(RowType) /\ Len(log') <= MaxSeq
      /\ Len(log') \in {Len(log), N} /\ Len(log') \in Nat
      /\ cursor' \in [w : 0 .. MaxRows, at : 0 .. Len(log')] /\ cursor'.w = cursor.w
  <2>1. CASE cursor.at \in pick \ gone
    BY <1>2, <1>6, <2>1
  <2>2. CASE ~(cursor.at \in pick \ gone)
    BY <1>1, <1>2, <2>2, Frames DEF TypeOK, RowType
  <2>3. QED BY <2>1, <2>2
<1>8. /\ k.pick = {} /\ k.through = kid[c].through
      /\ k \in [at : {"idle", "batch", "picked"}, through : 0 .. Len(log),
                need : 0 .. Cardinality(Peers), pick : SUBSET Seqs]
  BY <1>2, KidsTyped DEF Idle
<1> HIDE DEF k
<1>9. /\ kid' \in [Kids -> [at : {"idle", "batch", "picked"}, through : 0 .. Len(log),
                            need : 0 .. Cardinality(Peers), pick : SUBSET Seqs]]
      /\ \A b \in Kids : kid'[b] = IF b = c THEN k ELSE kid[b]
  BY <1>1, <1>8, KidsTyped
<1>10. TypeOK'
  <2>1. \A i \in 0 .. Len(log) : i \in 0 .. Len(log')
    BY <1>2, <1>7
  <2>2. gone' \subseteq 1 .. Len(log') /\ strong' \in 0 .. Len(log')
    BY <1>1, <1>2, <1>4, <1>7 DEF Rows
  <2>3. snap' \in [Gens -> [at : 0 .. Len(log'), rows : SUBSET Seqs]]
    <3>1. snap \in [Gens -> [at : 0 .. Len(log), rows : SUBSET Seqs]]
      BY DEF TypeOK
    <3>2. QED BY <1>1, <2>1, <3>1
  <2>4. kid' \in [Kids -> [at : {"idle", "batch", "picked"}, through : 0 .. Len(log'),
                           need : 0 .. Cardinality(Peers), pick : SUBSET Seqs]]
    BY <1>9, <2>1
  <2>5. due' \in [Seqs -> 0 .. Cardinality(Peers)]
    BY <1>1, <1>2 DEF TypeOK
  <2>6. log' \in Seq([k : {"delta", "end", "diff", "reset", "check"}, w : 0 .. MaxRows])
    BY <1>7 DEF RowType
  <2>7. QED BY <1>1, <1>7, <2>2, <2>3, <2>4, <2>5, <2>6 DEF TypeOK
<1>11. CursorStands'
  <2>1. CASE cursor.at \in pick \ gone
    <3>1. Len(log) + 1 \notin gone'
      BY <1>2, <1>4 DEF Rows
    <3>2. row.w >= cursor.w
      BY <1>7 DEF TypeOK
    <3> HIDE DEF row
    <3>3. QED BY <1>5, <2>1, <3>1, <3>2, InsertStands
  <2>2. CASE ~(cursor.at \in pick \ gone)
    <3>1. UNCHANGED <<log, cursor>> /\ cursor.at \notin gone'
      BY <1>1, <2>2 DEF CursorStands
    <3>2. QED BY <3>1 DEF CursorStands, Rows
  <2>3. QED BY <2>1, <2>2
<1>12. PicksSafe'
  <2>1. \A s : Redundant(s) => Redundant(s)'
    BY <1>7, RedundantStays
  <2>2. \A s \in gone' : Redundant(s)' /\ s <= strong'
    BY <1>1, <1>2, <2>1 DEF PicksSafe
  <2>3. \A b \in Kids : kid'[b].through <= strong' /\ \A s \in kid'[b].pick : Redundant(s)' /\ s <= strong'
    BY <1>1, <1>2, <1>8, <1>9, <2>1 DEF PicksSafe
  <2>4. QED BY <2>2, <2>3 DEF PicksSafe
<1>13. Counted'
  <2>1. CASE cursor.at \in pick \ gone
    <3>1. Own' = Own /\ Checks' = Checks \cup {N} /\ N \notin Checks
      <4>1. \A s \in 1 .. Len(log') : s \in 1 .. Len(log) \/ s = N
        BY <1>2, <1>6, <2>1
      <4>2. \A s \in 1 .. Len(log) : log'[s] = log[s] /\ s \in 1 .. Len(log') /\ s # N
        BY <1>2, <1>6, <2>1 DEF LogKept, Rows
      <4>3. N \in 1 .. Len(log') /\ log'[N].k = "check"
        BY <1>2, <1>6, <2>1
      <4>4. QED BY <4>1, <4>2, <4>3 DEF Own, Checks, Rows
    <3>2. IsFiniteSet(Checks)
      BY RowSets DEF Checks, Rows
    <3>3. Cardinality(Checks') = Cardinality(Checks) + 1
      BY <3>1, <3>2, FS_AddElement
    <3>4. QED BY <1>3, <1>4, <1>7, <2>1, <3>1, <3>3 DEF Counted
  <2>2. CASE ~(cursor.at \in pick \ gone)
    <3>1. Own' = Own /\ Checks' = Checks /\ cursor' = cursor
      BY <1>1, <2>2 DEF Own, Checks, Rows
    <3>2. QED BY <1>3, <1>4, <3>1 DEF Counted
  <2>3. QED BY <2>1, <2>2
<1>14. SnapsWhole'
  <2>1. CASE cursor.at \in pick \ gone
    <3>1. gone \subseteq gone' /\ UNCHANGED snap
      BY <1>1
    <3>2. QED BY <1>6, <2>1, <3>1, InsertLeaves
  <2>2. CASE ~(cursor.at \in pick \ gone)
    BY <1>1, <2>2 DEF SnapsWhole, Rows
  <2>3. QED BY <2>1, <2>2
<1>15. PicksHeld'
  <2>1. \A s, n : Held(s, n)' <=> Held(s, n)
    BY <1>1 DEF Held, Holders
  <2>2. ASSUME NEW s \in gone'
        PROVE  Held(s, due'[s])
    <3>1. s \in Seqs
      BY <1>1, <1>2, <2>2, NeedsTyped
    <3>2. CASE s \in pick \ gone
      BY <1>1, <3>1, <3>2 DEF PicksHeld
    <3>3. CASE s \in gone
      BY <1>1, <3>1, <3>3 DEF PicksHeld
    <3>4. QED BY <1>1, <2>2, <3>2, <3>3
  <2>3. \A b \in Kids : \A s \in kid'[b].pick : Held(s, kid'[b].need)
    BY <1>8, <1>9 DEF PicksHeld
  <2>4. QED BY <2>1, <2>2, <2>3 DEF PicksHeld
<1>16. QED BY <1>10, <1>11, <1>12, <1>13, <1>14, <1>15

\* A snapshot has the rows that are there; its number was not used before.
LEMMA SnapshotInv == ASSUME IInv, NEW g \in Gens, Snapshot(g) PROVE IInv'
<1> USE DEF IInv
<1>1. /\ UNCHANGED <<log, gone, cursor, strong, due, repl, prot, acks, copy, kid>>
      /\ snap[g].at = 0
      /\ snap' = [snap EXCEPT ![g] = [at |-> Highest(Alive), rows |-> Alive]]
  BY DEF Snapshot, journal
<1>2. Alive \subseteq Seqs /\ Alive = Rows \ gone /\ Highest(Alive) \in 0 .. Len(log)
  <2>1. Len(log) \in Nat /\ Len(log) <= MaxSeq /\ MaxSeq \in Nat
    BY PruningAssumption DEF TypeOK, MaxSeq
  <2>2. Alive \in SUBSET (0 .. Len(log)) /\ Alive \subseteq Seqs
    BY <2>1 DEF Alive, Seqs
  <2>3. Highest(Alive) \in 0 .. Len(log)
    BY <2>1, <2>2, HighestIsGreatest
  <2>4. QED BY <2>2, <2>3 DEF Alive, Rows
<1>3. /\ snap' \in [Gens -> [at : 0 .. Len(log), rows : SUBSET Seqs]]
      /\ \A h \in Gens : snap'[h] = IF h = g THEN [at |-> Highest(Alive), rows |-> Alive] ELSE snap[h]
  BY <1>1, <1>2 DEF TypeOK
<1>4. TypeOK'
  BY <1>1, <1>3 DEF TypeOK
<1>5. CursorStands' /\ Counted' /\ LogKept /\ Len(log') \in Nat
  BY <1>1, Frames
<1>6. PicksSafe'
  <2>1. strong' \in Nat /\ strong' >= strong
    BY <1>1, KidsTyped
  <2>2. QED BY <1>1, <1>5, <2>1, SameKids, PicksSafeStay
<1>7. SnapsWhole'
  <2>1. ASSUME NEW h \in Gens
        PROVE  /\ snap'[h].at = 0 => snap'[h].rows = {}
               /\ \A s \in Rows \ gone : s <= snap'[h].at => s \in snap'[h].rows
    <3>1. CASE h = g
      <4>1. snap'[h].at = Highest(Alive) /\ snap'[h].rows = Alive
        BY <1>3, <3>1
      <4>2. Alive # {}
        BY DEF Snapshot
      <4>3. Highest(Alive) # 0
        <5>1. Len(log) \in Nat /\ Alive \in SUBSET (0 .. Len(log)) /\ 0 \notin Alive
          BY KidsTyped DEF Alive
        <5>2. Highest(Alive) \in Alive
          BY <4>2, <5>1, HighestIsGreatest
        <5>3. QED BY <5>1, <5>2
      <4>4. QED BY <1>2, <4>1, <4>3
    <3>2. CASE h # g
      BY <1>3, <3>2 DEF SnapsWhole
    <3>3. QED BY <3>1, <3>2
  <2>2. QED BY <1>1, <2>1 DEF SnapsWhole, Rows
<1>8. PicksHeld'
  <2>1. snap[g].rows = {}
    BY <1>1 DEF SnapsWhole
  <2>2. \A h \in Gens : snap[h].rows \subseteq snap'[h].rows
    BY <1>3, <2>1
  <2>3. prot' \in [Gens -> 0 .. Cardinality(Peers)] /\ \A h \in Gens : prot'[h] >= prot[h]
    BY <1>1, PeersFinite DEF TypeOK
  <2>4. QED BY <1>1, <2>2, <2>3, SameKids, AllHeldStay
<1>9. QED BY <1>4, <1>5, <1>6, <1>7, <1>8

\* Copies and acknowledgements are only added.
LEMMA CopiesInv ==
  ASSUME IInv, UNCHANGED <<journal, repl, snap, prot, kid>>,
         acks \subseteq acks', acks' \subseteq copy', copy' \subseteq Gens \X Peers
  PROVE  IInv'
<1> USE DEF IInv
<1>1. UNCHANGED <<log, gone, cursor, strong, due>>
  BY DEF journal
<1>2. TypeOK'
  BY <1>1 DEF TypeOK
<1>3. CursorStands' /\ Counted' /\ SnapsWhole' /\ LogKept /\ Len(log') \in Nat
  BY <1>1, Frames
<1>4. PicksSafe'
  <2>1. strong' \in Nat /\ strong' >= strong
    BY <1>1, KidsTyped
  <2>2. QED BY <1>1, <1>3, <2>1, SameKids, PicksSafeStay
<1>5. PicksHeld'
  BY <1>1, SameRows, SameKids, AllHeldStay
<1>6. QED BY <1>2, <1>3, <1>4, <1>5

LEMMA TransferInv == ASSUME IInv, NEW g \in Gens, NEW p \in Peers, Transfer(g, p) PROVE IInv'
<1>1. acks \subseteq copy /\ copy \subseteq Gens \X Peers
  BY DEF IInv, TypeOK
<1>2. QED BY <1>1, CopiesInv DEF Transfer

LEMMA AcknowledgeInv == ASSUME IInv, NEW g \in Gens, NEW p \in Peers, Acknowledge(g, p) PROVE IInv'
<1>1. acks \subseteq copy /\ copy \subseteq Gens \X Peers
  BY DEF IInv, TypeOK
<1>2. QED BY <1>1, CopiesInv DEF Acknowledge

\* Assignments change, and what is held for n peers is still held by n: either no peer left,
\* or those that stay have every reserved snapshot.
LEMMA ConfigureInv ==
  ASSUME IInv, NEW need \in 1 .. Cardinality(Peers), NEW peers \in SUBSET Peers,
         Configure(need, peers)
  PROVE  IInv'
<1> USE DEF IInv
<1>1. /\ UNCHANGED <<log, gone, cursor, strong, due, snap, prot, acks, copy, kid>>
      /\ repl' = [need |-> need, peers |-> peers]
      /\ need \in 1 .. Cardinality(peers)
      /\ HandedOver(peers)
  BY DEF Configure, journal
<1>2. /\ Cardinality(Peers) \in Nat
      /\ \A S \in SUBSET Peers : IsFiniteSet(S) /\ Cardinality(S) \in 0 .. Cardinality(Peers)
  BY PeersFinite
<1>3. TypeOK'
  <2>1. /\ repl' \in [need : 0 .. Cardinality(Peers), peers : SUBSET Peers]
        /\ repl'.need <= Cardinality(repl'.peers)
    BY <1>1, <1>2
  <2>2. QED BY <1>1, <2>1 DEF TypeOK
<1>4. CursorStands' /\ Counted' /\ SnapsWhole' /\ LogKept /\ Len(log') \in Nat
  BY <1>1, Frames
<1>5. PicksSafe'
  <2>1. strong' \in Nat /\ strong' >= strong
    BY <1>1, KidsTyped
  <2>2. QED BY <1>1, <1>4, <2>1, SameKids, PicksSafeStay
<1>6. ASSUME NEW s, NEW n \in 0 .. Cardinality(Peers), Held(s, n)
      PROVE  Held(s, n)'
  <2> SUFFICES ASSUME n > 0
               PROVE  /\ Cardinality(Holders(s)') >= n
                      /\ \E g \in Gens : s \in snap'[g].rows /\ prot'[g] >= n
    BY DEF Held
  <2>1. Cardinality(Holders(s)) >= n
    BY <1>6 DEF Held
  <2>2. PICK g \in Gens : s \in snap[g].rows /\ prot[g] >= n
    BY <1>6 DEF Held
  <2>3. /\ Holders(s) \subseteq Peers /\ Holders(s)' \subseteq Peers
        /\ IsFiniteSet(Holders(s)') /\ Cardinality(Holders(s)') \in Nat
        /\ Cardinality(Holders(s)) \in Nat
    <3>1. Holders(s) \subseteq Peers /\ Holders(s)' \subseteq Peers
      BY <1>1, PeersFinite DEF Holders
    <3>2. QED BY <1>2, <3>1
  <2>4. CASE repl.peers \subseteq peers
    <3>1. Holders(s) \subseteq Holders(s)'
      BY <1>1, <2>4 DEF Holders
    <3>2. Cardinality(Holders(s)) <= Cardinality(Holders(s)')
      BY <2>3, <3>1, FS_Subset
    <3>3. QED BY <1>1, <2>1, <2>2, <2>3, <3>2
  <2>5. CASE \A h \in Gens : Cardinality({p \in peers : <<h, p>> \in acks}) >= prot[h]
    <3> DEFINE P == {p \in peers : <<g, p>> \in acks}
    <3>1. P \subseteq Holders(s)' /\ Cardinality(P) >= prot[g]
      BY <1>1, <2>2, <2>5 DEF Holders
    <3>2. Cardinality(P) <= Cardinality(Holders(s)') /\ Cardinality(P) \in Nat
      BY <2>3, <3>1, FS_Subset, FS_CardinalityType
    <3>3. prot[g] \in Nat /\ n \in Nat
      BY <1>2 DEF TypeOK
    <3> HIDE DEF P
    <3>4. Cardinality(Holders(s)') >= n
      BY <2>2, <2>3, <3>1, <3>2, <3>3
    <3>5. QED BY <1>1, <2>2, <3>4
  <2>6. QED BY <1>1, <2>4, <2>5 DEF HandedOver
<1>7. PicksHeld'
  <2>1. \A s \in gone' : Held(s, due[s])'
    <3> SUFFICES ASSUME NEW s \in gone PROVE Held(s, due[s])'
      BY <1>1
    <3>1. Held(s, due[s]) /\ due[s] \in 0 .. Cardinality(Peers) /\ due' = due
      BY <1>1, NeedsTyped DEF PicksHeld
    <3>2. QED BY <1>6, <3>1
  <2>2. ASSUME NEW c \in Kids, NEW s \in kid'[c].pick
        PROVE  Held(s, kid[c].need)'
    <3>1. Held(s, kid[c].need) /\ kid[c].need \in 0 .. Cardinality(Peers) /\ kid' = kid
      BY <1>1, <2>2, NeedsTyped DEF PicksHeld
    <3>2. QED BY <1>6, <3>1
  <2>3. QED BY <2>1, <2>2 DEF PicksHeld
<1>8. QED BY <1>3, <1>4, <1>5, <1>7

LEMMA StutterInv == ASSUME IInv, UNCHANGED vars PROVE IInv'
<1>1. acks \subseteq copy /\ copy \subseteq Gens \X Peers
  BY DEF IInv, TypeOK
<1>2. QED BY <1>1, CopiesInv DEF vars, journal

LEMMA StepInv == IInv /\ [Next]_vars => IInv'
<1> SUFFICES ASSUME IInv, [Next]_vars PROVE IInv'
  OBVIOUS
<1>1. CASE AppendRow
  BY <1>1, AppendInv
<1>2. CASE Backup
  BY <1>2, BackupInv
<1>3. CASE ProtectOnly
  BY <1>3, ProtectInv
<1>4. CASE StartPass
  BY <1>4, StartPassInv
<1>5. CASE HubRestarts
  BY <1>5, HubRestartsInv
<1>6. CASE \E c \in Kids : KidStep(c) \/ KidDies(c)
  BY <1>6, PickInv, DeleteInv, KidDiesInv DEF KidStep
<1>7. CASE \E g \in Gens : Snapshot(g)
  BY <1>7, SnapshotInv
<1>8. CASE \E g \in Gens, p \in Peers : Transfer(g, p) \/ Acknowledge(g, p)
  BY <1>8, TransferInv, AcknowledgeInv
<1>9. CASE \E need \in 1 .. Cardinality(Peers), peers \in SUBSET Peers : Configure(need, peers)
  BY <1>9, ConfigureInv
<1>10. CASE UNCHANGED vars
  BY <1>10, StutterInv
<1>11. QED BY <1>1, <1>2, <1>3, <1>4, <1>5, <1>6, <1>7, <1>8, <1>9, <1>10 DEF Next

LEMMA Inductive == Spec => []IInv
BY InitInv, StepInv, PTL DEF Spec

-----------------------------------------------------------------------------
(* What follows from it.                                                      *)

\* The newest diff of all is never deleted, nor is a terminal.
LEMMA WitnessesLive ==
  ASSUME IInv, NEW s \in gone
  PROVE  \/ log[s].k = "delta" /\ \E e \in Alive : log[e].k = "end"
         \/ log[s].k = "diff" /\ \E d \in Alive : d > s /\ log[d].k = "diff"
<1>1. /\ \A t \in gone : Redundant(t)
      /\ Alive = Rows \ gone /\ Len(log) \in Nat /\ Rows \subseteq Nat /\ Rows = 1 .. Len(log)
  BY KidsTyped DEF IInv, PicksSafe, Alive, Rows
<1>2. CASE log[s].k = "delta" /\ \E e \in Rows : log[e].k = "end"
  <2>1. PICK e \in Rows : log[e].k = "end"
    BY <1>2
  <2>2. e \notin gone
    BY <1>1, <2>1 DEF Redundant
  <2>3. QED BY <1>1, <1>2, <2>1, <2>2
<1>3. CASE log[s].k = "diff" /\ \E d \in Rows : d > s /\ log[d].k = "diff"
  <2> DEFINE D == {d \in Rows : log[d].k = "diff"}
  <2>1. D \in SUBSET (0 .. Len(log)) /\ D # {}
    BY <1>1, <1>3
  <2>2. PICK m \in D : \A d \in D : d <= m
    <3> HIDE DEF D
    <3>1. QED BY <1>1, <2>1, GreatestExists
  <2>3. m \notin gone
    BY <1>1, <2>2 DEF Redundant
  <2>4. m > s
    <3>1. PICK d \in Rows : d > s /\ log[d].k = "diff"
      BY <1>3
    <3>2. d <= m /\ m \in Rows
      BY <2>2, <3>1
    <3>3. s \in Nat /\ d \in Nat /\ m \in Nat
      BY <1>1, <3>2 DEF Redundant
    <3>4. QED BY <3>1, <3>2, <3>3
  <2>5. QED BY <1>1, <1>3, <2>2, <2>3, <2>4
<1>4. QED BY <1>1, <1>2, <1>3 DEF Redundant

\* An older hub, which takes the highest number after the last reset, reads the cursor.
LEMMA OldReaderAgrees == IInv => OldReader = cursor.w
<1> SUFFICES ASSUME IInv PROVE OldReader = cursor.w
  OBVIOUS
<1> DEFINE R == {s \in Alive : log[s].k = "reset"}
           reset == Highest(R)
           S == {log[s].w : s \in {t \in Alive : t > reset}}
<1>1. /\ Len(log) \in Nat /\ MaxRows \in Nat /\ Rows = 1 .. Len(log) /\ Alive = Rows \ gone
      /\ cursor.w \in Nat /\ cursor.at \in 0 .. Len(log)
      /\ \A s \in Rows : log[s].w \in 0 .. MaxRows
  <2>1. /\ log \in Seq(RowType) /\ Len(log) \in Nat /\ cursor.w \in Nat /\ cursor.at \in 0 .. Len(log)
        /\ MaxRows \in Nat
    BY PruningAssumption DEF IInv, TypeOK, RowType
  <2>2. \A s \in Rows : log[s] \in RowType
    <3> HIDE DEF RowType
    <3>1. QED BY <2>1 DEF Rows
  <2>3. QED BY <2>1, <2>2 DEF Alive, Rows, RowType
<1>2. \A s \in Rows : log[s].k = "reset" => s \in R
  BY <1>1 DEF IInv, PicksSafe, Redundant
<1>3. R \in SUBSET (0 .. Len(log)) /\ S \in SUBSET (0 .. MaxRows)
  <2>1. Alive \subseteq Rows /\ \A s \in Rows : s \in 0 .. Len(log)
    BY <1>1
  <2>2. \A s \in Alive : log[s].w \in 0 .. MaxRows
    BY <1>1, <2>1
  <2>3. QED BY <2>1, <2>2
<1>4. /\ reset \in 0 .. Len(log) /\ \A s \in R : s <= reset
      /\ R = {} => reset = 0
      /\ R # {} => reset \in R
  <2> HIDE DEF R
  <2>1. QED BY <1>1, <1>3, HighestIsGreatest
<1>5. /\ Highest(S) \in 0 .. MaxRows /\ \A x \in S : x <= Highest(S)
      /\ S = {} => Highest(S) = 0
      /\ S # {} => Highest(S) \in S
  <2> HIDE DEF S
  <2>1. QED BY <1>1, <1>3, HighestIsGreatest
<1>6. OldReader = Highest(S)
  BY DEF OldReader
<1> HIDE DEF reset
<1>7. \A x \in S : x <= cursor.w
  <2> SUFFICES ASSUME NEW s \in Alive, s > reset PROVE log[s].w <= cursor.w
    OBVIOUS
  <2>1. s \in Rows /\ (log[s].w <= cursor.w \/ \E r \in Rows : r >= s /\ log[r].k = "reset")
    BY <1>1 DEF IInv, CursorStands
  <2>2. ASSUME NEW r \in Rows, r >= s, log[r].k = "reset" PROVE FALSE
    <3>1. r <= reset
      BY <1>2, <1>4, <2>2
    <3>2. QED BY <1>1, <1>4, <2>1, <2>2, <3>1
  <2>3. QED BY <2>1, <2>2
<1>8. Highest(S) <= cursor.w
  <2> HIDE DEF S, reset
  <2>1. CASE S = {}
    BY <1>1, <1>5, <2>1
  <2>2. CASE S # {}
    BY <1>5, <1>7, <2>2
  <2>3. QED BY <2>1, <2>2
<1>9. cursor.w > 0 => cursor.w \in S
  <2> SUFFICES ASSUME cursor.w > 0 PROVE cursor.w \in S
    OBVIOUS
  <2>1. cursor.at > 0 /\ log[cursor.at].w = cursor.w /\ cursor.at \notin gone
    BY <1>1 DEF IInv, CursorStands
  <2>2. cursor.at \in Alive
    BY <1>1, <2>1
  <2>3. ~(cursor.at <= reset)
    <3> SUFFICES ASSUME cursor.at <= reset PROVE FALSE
      OBVIOUS
    <3>1. reset \in R /\ reset \in Rows
      BY <1>1, <1>4, <2>1
    <3>2. log[reset].w = 0 /\ reset <= cursor.at
      BY <3>1 DEF IInv, CursorStands
    <3>3. reset = cursor.at
      BY <1>1, <1>4, <3>2
    <3>4. QED BY <1>1, <2>1, <3>2, <3>3
  <2>4. cursor.at > reset
    BY <1>1, <1>4, <2>3
  <2>5. QED BY <2>1, <2>2, <2>4
<1> HIDE DEF S
<1>10. cursor.w <= Highest(S) /\ Highest(S) \in Nat
  <2>1. CASE cursor.w > 0
    BY <1>1, <1>5, <1>9, <2>1
  <2>2. CASE ~(cursor.w > 0)
    BY <1>1, <1>5, <2>2
  <2>3. QED BY <2>1, <2>2
<1>11. Highest(S) = cursor.w
  BY <1>1, <1>8, <1>10
<1>12. QED BY <1>6, <1>11

\* Deletion never breaks a type: the log stays within twice the longest history because each
\* checkpoint stands for a deleted row.
THEOREM TypeCorrect == Spec => []TypeOK
BY Inductive, PTL DEF IInv

\* Whatever passes run at once and whatever dies between selection and deletion, the worker
\* cursor stands, an older hub reads the same one, every deleted row has the row it was
\* deleted for, and lies in a recovery generation.
THEOREM NothingLostCorrect == Spec => []NothingLost
<1>1. ASSUME IInv PROVE NothingLost
  <2>1. cursor.at \notin gone
    BY <1>1 DEF IInv, CursorStands
  <2>2. gone \subseteq 1 .. strong
    <3>1. strong \in Nat /\ \A s \in gone : s \in Nat /\ s >= 1 /\ s <= strong
      BY <1>1, KidsTyped DEF IInv, PicksSafe, Redundant, Rows
    <3>2. QED BY <3>1
  <2>3. QED BY <1>1, <2>1, <2>2, OldReaderAgrees, WitnessesLive DEF NothingLost
<1>2. IInv => NothingLost
  BY <1>1
<1>3. QED BY <1>2, Inductive, PTL

\* Whatever is reconfigured, acknowledged or snapshotted between passes, a deleted row is in
\* certified copies on as many of the peers assigned now as had to hold it when it went.
THEOREM PrunedCoveredCorrect == Spec => []PrunedCovered
<1>1. ASSUME IInv, NEW s \in gone
      PROVE  Cardinality({p \in repl.peers : \E g \in Gens :
                            <<g, p>> \in copy /\ s \in snap[g].rows}) >= due[s]
  <2> DEFINE C == {p \in repl.peers : \E g \in Gens : <<g, p>> \in copy /\ s \in snap[g].rows}
  <2>1. Held(s, due[s]) /\ due[s] \in 0 .. Cardinality(Peers) /\ acks \subseteq copy
    BY <1>1, NeedsTyped DEF IInv, PicksHeld, TypeOK
  <2>2. Holders(s) \subseteq C /\ C \subseteq Peers
    BY <1>1, <2>1, PeersFinite DEF Holders, IInv
  <2>3. IsFiniteSet(C) /\ Cardinality(C) \in Nat
    BY <1>1, <2>2, PeersFinite DEF IInv
  <2>4. Cardinality(Holders(s)) <= Cardinality(C) /\ Cardinality(Holders(s)) \in Nat
    BY <2>2, <2>3, FS_Subset, FS_CardinalityType
  <2>5. Cardinality(Peers) \in Nat /\ due[s] \in Nat
    BY <1>1, <2>1, PeersFinite DEF IInv
  <2>6. Cardinality(C) >= due[s]
    BY <2>1, <2>3, <2>4, <2>5 DEF Held
  <2>7. QED BY <2>6
<1>2. IInv => PrunedCovered
  BY <1>1 DEF PrunedCovered
<1>3. QED BY <1>2, Inductive, PTL
=============================================================================
