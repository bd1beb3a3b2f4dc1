--------------------------- MODULE JournalPruning ---------------------------
(* Deletion of journal rows, and what has to hold them before they go. A      *)
(* maintenance child of the hub deletes rows that later rows supersede        *)
(* (journalMaintenance.ts, journal.ts): only behind the newest strong         *)
(* recovery generation, only below what enough assigned peers acknowledged,   *)
(* and without moving the worker cursor that such a row may anchor. Replicas  *)
(* are made by hand (journalReplication.ts and its CLI): snapshot, transfer,  *)
(* acknowledgement, assignment. Children and commands die between any two     *)
(* durable steps, and a child outlives a hub that is killed.                  *)
(*                                                                            *)
(* One session, one turn and one item; a row is named by its seq.             *)
EXTENDS Naturals, Sequences, FiniteSets, FiniteSetsExt

CONSTANTS
  Peers,      \* nodes a replica may be assigned to
  Histories,  \* kinds of the rows the hub appends, in order
  MaxRows,    \* length of the longest history
  MaxGen,     \* snapshots for replicas
  BatchMax    \* rows one transaction deletes

ASSUME PruningAssumption ==
  /\ IsFiniteSet(Peers) /\ MaxRows \in Nat \ {0} /\ MaxGen \in Nat \ {0}
  /\ BatchMax \in Nat \ {0}
  /\ \A h \in Histories : h \in Seq({"delta", "end", "diff", "reset"}) /\ Len(h) <= MaxRows

VARIABLES
  log,     \* every row ever inserted: its kind, and its wseq or 0 for none
  gone,    \* the rows deleted
  cursor,  \* worker_cursors: a wseq and the row it stands on
  strong,  \* highest row of the newest strong recovery generation
  repl,    \* policy and assignments of replication; need = 0 when none is configured
  snap,    \* per snapshot: its rows and the highest of them; at = 0 before it is made
  prot,    \* per snapshot: protected_replicas, 0 when it is not protected
  acks,    \* <<snapshot, peer>> acknowledged
  copy,    \* <<snapshot, peer>>: a whole replica with its marker
  kid,     \* maintenance children: the hub's own, and one whose hub was killed
  due      \* ghost: on how many peers a deleted row had to be when it went

vars == <<log, gone, cursor, strong, repl, snap, prot, acks, copy, kid, due>>
journal == <<log, gone, cursor, strong, due>>

Gens == 1 .. MaxGen
\* Each deleted anchor leaves one checkpoint, and checkpoints are not deleted.
MaxSeq == 2 * MaxRows
Seqs == 1 .. MaxSeq
Kids == {"own", "orphan"}

Idle == [at |-> "idle", through |-> 0, need |-> 0, pick |-> {}]

TypeOK ==
  /\ log \in Seq([k : {"delta", "end", "diff", "reset", "check"}, w : 0 .. MaxRows])
  /\ Len(log) <= MaxSeq /\ gone \subseteq 1 .. Len(log)
  /\ cursor \in [w : 0 .. MaxRows, at : 0 .. Len(log)]
  /\ strong \in 0 .. Len(log)
  /\ repl \in [need : 0 .. Cardinality(Peers), peers : SUBSET Peers]
  /\ repl.need <= Cardinality(repl.peers)
  /\ snap \in [Gens -> [at : 0 .. Len(log), rows : SUBSET Seqs]]
  /\ prot \in [Gens -> 0 .. Cardinality(Peers)]
  /\ acks \subseteq copy /\ copy \subseteq Gens \X Peers
  /\ kid \in [Kids -> [at : {"idle", "batch", "picked"},
                       through : 0 .. Len(log),
                       need : 0 .. Cardinality(Peers), pick : SUBSET Seqs]]
  /\ due \in [Seqs -> 0 .. Cardinality(Peers)]

Init ==
  /\ log = <<>> /\ gone = {} /\ cursor = [w |-> 0, at |-> 0]
  /\ strong = 0
  /\ repl = [need |-> 0, peers |-> {}]
  /\ snap = [g \in Gens |-> [at |-> 0, rows |-> {}]]
  /\ prot = [g \in Gens |-> 0] /\ acks = {} /\ copy = {}
  /\ kid = [c \in Kids |-> Idle]
  /\ due = [s \in Seqs |-> 0]

-----------------------------------------------------------------------------
(* Rows.                                                                       *)

Alive == (1 .. Len(log)) \ gone
Highest(S) == IF S = {} THEN 0 ELSE Max(S)

\* The triggers on events: a reset rebases the cursor, a numbered row not below it moves it.
Insert(row) ==
  LET seq == Len(log) + 1 IN
  /\ log' = Append(log, row)
  /\ cursor' = IF row.k = "reset" THEN [w |-> 0, at |-> seq]
               ELSE IF row.w > 0 /\ row.w >= cursor.w THEN [w |-> row.w, at |-> seq]
               ELSE cursor

\* The rows that are not checkpoints, and the place of one of them among those.
Own == {s \in 1 .. Len(log) : log[s].k # "check"}
Place(s) == Cardinality({t \in Own : t <= s})

\* The hub appends a row of its worker, a terminal without a number, or the start of a new
\* era of wseqs, as one of the histories has it.
AppendRow ==
  /\ \E h \in Histories :
       /\ Cardinality(Own) < Len(h)
       /\ \A s \in Own : log[s].k = h[Place(s)]
       /\ LET k == h[Cardinality(Own) + 1] IN
          Insert([k |-> k, w |-> IF k \in {"delta", "diff"} THEN cursor.w + 1 ELSE 0])
  /\ UNCHANGED <<gone, strong, due, repl, snap, prot, acks, copy, kid>>

\* A backup publishes the next recovery generation (JournalRecovery).
Backup ==
  /\ strong < Highest(Alive)
  /\ strong' = Highest(Alive)
  /\ UNCHANGED <<log, gone, cursor, due, repl, snap, prot, acks, copy, kid>>

\* Rows that a later row makes redundant: a delta whose item has a terminal, and every diff
\* of the turn but the newest. Time is left out: the grace period may be over for any row.
Superseded ==
  {s \in Alive : \/ log[s].k = "delta" /\ (\E e \in Alive : log[e].k = "end")
                 \/ log[s].k = "diff" /\ \E d \in Alive : d > s /\ log[d].k = "diff"}

Frontier(through) == Highest({s \in Superseded : s <= through})

-----------------------------------------------------------------------------
(* The replication gate.                                                       *)

AckedBy(p) == {g \in Gens : <<g, p>> \in acks}
Verified == {p \in repl.peers : AckedBy(p) # {}}
\* The highest snapshot a peer has acknowledged.
Best(p) == CHOOSE g \in AckedBy(p) : \A h \in AckedBy(p) :
             snap[h].at < snap[g].at \/ (snap[h].at = snap[g].at /\ h <= g)
\* The peers with the highest ones, as many as are required; none when they are too few.
Supporting ==
  IF Cardinality(Verified) < repl.need THEN {}
  ELSE CHOOSE S \in SUBSET Verified :
         /\ Cardinality(S) = repl.need
         /\ \A p \in S, q \in Verified \ S : snap[Best(p)].at >= snap[Best(q)].at

SupportingGens == {Best(p) : p \in Supporting}
MaxPrunable ==
  IF repl.need = 0 THEN Len(log)
  ELSE IF Supporting = {} THEN 0
  ELSE Min({snap[g].at : g \in SupportingGens})

\* Mutant: rows go first, what held them is reserved by a later pass.
ProtectNothing(gens, need) == prot' = prot

Protect(gens, need) ==
  prot' = [g \in Gens |-> IF g \in gens THEN Max({prot[g], need}) ELSE prot[g]]

\* The protect command, or a maintenance pass that finds nothing to delete.
ProtectOnly ==
  /\ Supporting # {}
  /\ Protect(SupportingGens, repl.need)
  /\ UNCHANGED <<journal, repl, snap, acks, copy, kid>>

-----------------------------------------------------------------------------
(* A maintenance child's pass: frontier and claim, then batch after batch.     *)

Go(c, k) == kid' = [kid EXCEPT ![c] = k]

\* Mutant: a generation has to cover the newest candidate.
StartPassNewest ==
  /\ kid["own"].at = "idle"
  /\ Frontier(Len(log)) > 0 /\ Frontier(Len(log)) <= strong
  /\ Go("own", [Idle EXCEPT !.at = "batch", !.through = Frontier(Len(log))])
  /\ UNCHANGED <<journal, repl, snap, prot, acks, copy>>

\* The newest superseded row or, if the newest generation does not reach it, the newest that
\* generation reaches; then the generation is verified. With no such row it defers.
StartPass ==
  LET newest == Frontier(Len(log))
      through == IF newest > strong THEN Frontier(strong) ELSE newest IN
  /\ kid["own"].at = "idle"
  /\ through > 0
  /\ Go("own", [Idle EXCEPT !.at = "batch", !.through = through])
  /\ UNCHANGED <<journal, repl, snap, prot, acks, copy>>

\* computePruneGate() commits the reservation of what it relies on before candidates are
\* selected, oldest first. The pass ends when there are none.
Pick(c) ==
  LET S == {s \in Superseded : s <= Min({MaxPrunable, kid[c].through})}
      batch == {s \in S : Cardinality({t \in S : t < s}) < BatchMax} IN
  /\ kid[c].at = "batch"
  /\ Protect(SupportingGens, repl.need)
  /\ Go(c, IF S = {} THEN Idle
           ELSE [kid[c] EXCEPT !.at = "picked", !.need = repl.need, !.pick = batch])
  /\ UNCHANGED <<journal, repl, snap, acks, copy>>

\* Mutant: the anchor goes with the rest, no checkpoint in its place.
DeleteNoCheckpoint(c) ==
  /\ kid[c].at = "picked"
  /\ gone' = gone \cup kid[c].pick
  /\ due' = [s \in Seqs |-> IF s \in kid[c].pick \ gone THEN kid[c].need ELSE due[s]]
  /\ Go(c, [Idle EXCEPT !.at = "batch", !.through = kid[c].through])
  /\ UNCHANGED <<log, cursor, strong, repl, snap, prot, acks, copy>>

\* One transaction: a checkpoint in place of the anchor if it goes, then the rows.
Delete(c) ==
  LET pick == kid[c].pick IN
  /\ kid[c].at = "picked"
  /\ IF cursor.at \in pick \ gone
     THEN Insert([k |-> "check", w |-> cursor.w])
     ELSE UNCHANGED <<log, cursor>>
  /\ gone' = gone \cup pick
  /\ due' = [s \in Seqs |-> IF s \in pick \ gone THEN kid[c].need ELSE due[s]]
  /\ Go(c, [Idle EXCEPT !.at = "batch", !.through = kid[c].through])
  /\ UNCHANGED <<strong, repl, snap, prot, acks, copy>>

KidStep(c) == Pick(c) \/ Delete(c)

\* The work budget, the watchdog, the end of the hub, a kill.
KidDies(c) ==
  /\ kid[c].at # "idle" /\ Go(c, Idle)
  /\ UNCHANGED <<journal, repl, snap, prot, acks, copy>>

\* The hub is killed outright and starts again; nobody ends the child it leaves behind.
HubRestarts ==
  /\ kid["own"].at # "idle" /\ kid["orphan"].at = "idle"
  /\ kid' = [own |-> Idle, orphan |-> kid["own"]]
  /\ UNCHANGED <<journal, repl, snap, prot, acks, copy>>

-----------------------------------------------------------------------------
(* Replicas, by commands of the user.                                          *)

\* createJournalSnapshot() puts the directory in place and registers it. A kill between the
\* two leaves what cannot be acknowledged until a snapshot of the same rows registers it.
Snapshot(g) ==
  /\ Alive # {}
  /\ snap[g].at = 0 /\ \A h \in Gens : h < g => snap[h].at > 0
  /\ snap' = [snap EXCEPT ![g] = [at |-> Highest(Alive), rows |-> Alive]]
  /\ UNCHANGED <<journal, repl, prot, acks, copy, kid>>

\* transferJournalSnapshot(): chunk by chunk into a partial file, which takes its name when
\* it is whole, and then its marker. Until then nothing counts it; a later call resumes.
Transfer(g, p) ==
  /\ snap[g].at > 0 /\ <<g, p>> \notin copy
  /\ copy' = copy \cup {<<g, p>>}
  /\ UNCHANGED <<journal, repl, snap, prot, acks, kid>>

\* recordReplicaVerification(): the copy is verified and noted.
Acknowledge(g, p) ==
  /\ p \in repl.peers /\ <<g, p>> \in copy \ acks
  /\ acks' = acks \cup {<<g, p>>}
  /\ UNCHANGED <<journal, repl, snap, prot, copy, kid>>

\* What a change of assignments has to keep: the copies of protected snapshots.
HandedOver(peers) ==
  \/ repl.peers \subseteq peers
  \/ \A g \in Gens : Cardinality({p \in peers : <<g, p>> \in acks}) >= prot[g]

\* Mutant: more replicas required than peers assigned.
ConfigureShort(need, peers) ==
  /\ HandedOver(peers)
  /\ repl' = [need |-> need, peers |-> peers]
  /\ UNCHANGED <<journal, snap, prot, acks, copy, kid>>

\* configureJournalReplication(): its check and its transaction in one.
Configure(need, peers) ==
  /\ need \in 1 .. Cardinality(peers)
  /\ [need |-> need, peers |-> peers] # repl
  /\ HandedOver(peers)
  /\ repl' = [need |-> need, peers |-> peers]
  /\ UNCHANGED <<journal, snap, prot, acks, copy, kid>>

Next ==
  \/ AppendRow \/ Backup
  \/ ProtectOnly
  \/ StartPass \/ HubRestarts
  \/ \E c \in Kids : KidStep(c) \/ KidDies(c)
  \/ \E g \in Gens : Snapshot(g)
  \/ \E g \in Gens, p \in Peers : Transfer(g, p) \/ Acknowledge(g, p)
  \/ \E need \in 1 .. Cardinality(Peers), peers \in SUBSET Peers : Configure(need, peers)

Spec == Init /\ [][Next]_vars

\* A pass is due every few minutes; its budget is looked at between batches, so that of the
\* passes that reach a batch one is let to finish it.
FairSpec == Spec /\ WF_vars(StartPass) /\ SF_vars(Pick("own")) /\ SF_vars(Delete("own"))

-----------------------------------------------------------------------------
(* What deleting rows must keep.                                               *)

\* SAFETY: every deleted row is in certified copies on as many of the peers assigned now as
\* had to hold it when it went: assignments cannot drop the copies a pass relied on, whatever
\* passes, kills and later snapshots come between.
PrunedCovered ==
  \A s \in gone : Cardinality({p \in repl.peers : \E g \in Gens :
      <<g, p>> \in copy /\ s \in snap[g].rows}) >= due[s]

\* MAX(wseq) after the last reset: how older hubs, which have no worker_cursors, read it.
OldReader ==
  LET reset == Highest({s \in Alive : log[s].k = "reset"}) IN
  Highest({log[s].w : s \in {t \in Alive : t > reset}})

\* SAFETY: deletion changes nothing a reader needs. The worker cursor stands on a row that is
\* still there and an older hub reads the same one; every deleted row has the row it was
\* deleted for, and lies in a recovery generation. Two passes may run at once, each with
\* what it selected before the other deleted.
NothingLost ==
  /\ OldReader = cursor.w
  /\ cursor.at \notin gone
  /\ \A s \in gone : \/ log[s].k = "delta" /\ (\E e \in Alive : log[e].k = "end")
                     \/ log[s].k = "diff" /\ (\E d \in Alive : d > s /\ log[d].k = "diff")
  /\ gone \subseteq 1 .. strong

\* LIVENESS: a row that could be deleted is deleted, or stops being deletable: a newer
\* candidate that no generation covers yet does not hold up the older ones.
Reclaimable(s) == s \in Superseded /\ s <= Min({strong, MaxPrunable})
Reclaims == \A s \in 1 .. MaxRows : []<>~Reclaimable(s)
=============================================================================
