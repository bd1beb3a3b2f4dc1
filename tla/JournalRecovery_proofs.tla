----------------------- MODULE JournalRecovery_proofs -----------------------
(***************************************************************************)
(* For every set of hubs, every number of generations, events, retained    *)
(* generations and faults of JournalRecovery, and with both troubles of    *)
(* Env: its types; that captured files are never lost, that files of two   *)
(* families never meet at the journal's path, and that no hub serves less  *)
(* than the last one did without journaling that a recovery took place.    *)
(***************************************************************************)
EXTENDS JournalRecovery, FiniteSetTheorems, WellFoundedInduction, TLAPS

-----------------------------------------------------------------------------
(* The inductive invariant.                                                  *)

\* From the moment the recovery worker holds the lease no hub has it, and a plan is made
\* only where there was none.
Locked ==
  /\ step \notin {"none", "lock"} => LeaseHolders = {}
  /\ step \in {"reconcile", "classified"} => plan = NoPlan

\* Files named in a manifest are in quarantine for good; those of the plan are on their way.
EvidenceSafe == evidence \subseteq quar /\ plan.family \subseteq live \cup quar

\* A plan that counts as completed has its database in place, sound and without its notice.
InstalledBy(p) == live = {<<"db", p>>} /\ fam[p].ok /\ p \notin fam[p].told
PlanStands ==
  /\ plan.phase = "none" <=> plan = NoPlan
  /\ plan # NoPlan => plan.id \in Plans /\ plan.gen \in Gens /\ plan.prior \in Gens
  /\ plan = NoPlan => live # {}
  /\ plan # NoPlan /\ plan.id \in root.completed =>
       plan.phase = "cleaning" /\ InstalledBy(plan.id)

\* Recoveries are numbered in order, and every one answers a damage of its own: so many
\* were completed as there were faults, one less while one is owed.
Owed == (plan = NoPlan /\ Damaged) \/ (plan # NoPlan /\ plan.id \notin root.completed)
Counted ==
  /\ root.completed = 1 .. Op - 1
  /\ Op - 1 <= faults /\ (Owed => Op <= faults)
  /\ plan # NoPlan /\ plan.id \notin root.completed => plan.id = Op

\* No copy has notices of recoveries that were not completed; what was published, and what
\* is copied from a serving hub, has events.
CopiesKnown ==
  /\ \A n \in Gens : gens[n].of.told \subseteq root.completed
                     /\ (gens[n].st = "full" => gens[n].of.hw >= 1)
  /\ \A h \in Hubs : pub[h].of.told \subseteq root.completed
                     /\ (pub[h].at # "idle" => pub[h].of.hw >= 1)
                     /\ (pub[h].at \in {"staged", "dir", "full", "checked"} => pub[h].gen \in Gens)

\* A journal behind the one last served lacks a notice, was put back, or is being replaced.
JournalKnown ==
  /\ \A f \in Families : fam[f].told \subseteq root.completed
  /\ PortHolders # {} => Live.hw >= 1
  /\ plan = NoPlan => Live.hw >= seen \/ Live.told # root.completed \/ Live.hw = 0

IInv == TypeOK /\ Locked /\ FamilyNeverMixed /\ EvidenceSafe /\ PlanStands /\ Counted
        /\ CopiesKnown /\ JournalKnown

-----------------------------------------------------------------------------
(* Lemmas about the operators.                                               *)

\* A set of generations has a newest one.
LEMMA NewestIsNewest ==
  ASSUME NEW S \in SUBSET Gens, S # {}
  PROVE  Max(S) \in S /\ \A n \in S : Max(S) >= n
<1> DEFINE T == {n .. MaxGen : n \in S}
<1>1. MaxGen \in Nat
  BY RecoveryAssumption
<1>2. T \subseteq FiniteSubsetsOf(Nat) /\ T # {}
  <2>1. ASSUME NEW n \in S PROVE n .. MaxGen \in FiniteSubsetsOf(Nat)
    <3>1. n \in Int /\ MaxGen \in Int /\ n .. MaxGen \subseteq Nat
      BY <1>1 DEF Gens
    <3>2. IsFiniteSet(n .. MaxGen)
      BY <3>1, FS_Interval
    <3>3. QED BY <3>1, <3>2 DEF FiniteSubsetsOf
  <2>2. QED BY <2>1
<1>3. PICK t \in T : \A y \in T : ~(<<y, t>> \in StrictSubsetOrdering(Nat))
  <2>1. IsWellFoundedOn(StrictSubsetOrdering(Nat), FiniteSubsetsOf(Nat))
    BY FS_StrictSubsetOrderingWellFounded
  <2> HIDE DEF T
  <2>2. QED BY <1>2, <2>1, WFMin
<1>4. PICK m \in S : t = m .. MaxGen
  OBVIOUS
<1>5. ASSUME NEW n \in S, ~(m >= n)
      PROVE  FALSE
  <2>1. m \in Nat /\ n \in Nat /\ m < n /\ n <= MaxGen
    BY <1>1, <1>5 DEF Gens
  <2>2. n .. MaxGen \subseteq m .. MaxGen /\ m \in m .. MaxGen /\ m \notin n .. MaxGen
    BY <1>1, <2>1
  <2>3. n .. MaxGen \in SUBSET Nat /\ m .. MaxGen \in SUBSET Nat
    BY <1>1, <2>1
  <2>4. <<n .. MaxGen, m .. MaxGen>> \in StrictSubsetOrdering(Nat)
    BY <2>2, <2>3 DEF StrictSubsetOrdering
  <2>5. QED BY <1>3, <1>4, <2>4
<1>6. \E x \in S : \A n \in S : x >= n
  BY <1>5
<1>7. QED BY <1>6 DEF Max

\* Recoveries are numbered from one.
LEMMA NumberedFromOne ==
  ASSUME NEW k \in Nat
  PROVE  Cardinality(1 .. k) = k /\ (1 .. k) \cup {k + 1} = 1 .. (k + 1) /\ k + 1 \notin 1 .. k
<1>1. 1 \in Int /\ k \in Int
  OBVIOUS
<1>2. Cardinality(1 .. k) = IF 1 > k THEN 0 ELSE k - 1 + 1
  BY <1>1, FS_Interval
<1>3. QED BY <1>2

\* The files at the journal's path name the live family.
LEMMA LiveFamilyIs ==
  ASSUME NEW x \in live, \A y, z \in live : y[2] = z[2]
  PROVE  LiveFamily = x[2]
BY DEF LiveFamily

-----------------------------------------------------------------------------
(* The types, with names for the records.                                    *)

HubType == [st : {"none", "boot", "serve", "drain"}, own : BOOLEAN]
PubType == [at : {"idle", "copied", "staged", "dir", "full", "checked"}, gen : {0} \cup Gens, of : Contents]
GenType == [st : {"none", "dir", "full"}, of : Contents]
TransType == [prev : {0} \cup Gens, restored : {0} \cup Gens, plan : {0} \cup Plans, receipt : BOOLEAN]
RootType == [next : 1 .. MaxGen + 1, active : Gens, completed : SUBSET Plans, trans : TransType]
PlanType == [id : {0} \cup Plans, gen : {0} \cup Gens, prior : {0} \cup Gens, family : SUBSET Files,
             phase : {"none", "prepared", "quarantining", "publishing", "verifying", "cleaning"}]
Steps == {"none", "lock", "reconcile", "classified", "planned", "run", "done"}

LEMMA Types ==
  TypeOK <=> /\ sup \in {"up", "repair", "fresh", "offline", "dead"}
             /\ step \in Steps /\ (sup # "repair" => step = "none")
             /\ hub \in [Hubs -> HubType]
             /\ pub \in [Hubs -> PubType]
             /\ live \subseteq Files /\ quar \subseteq Files /\ evidence \subseteq Files
             /\ fam \in [Families -> Contents]
             /\ gens \in [Gens -> GenType]
             /\ root \in RootType
             /\ plan \in PlanType
             /\ staging \subseteq Staged
             /\ receipts \subseteq Plans
             /\ seen \in 0 .. MaxHw /\ faults \in 0 .. MaxFaults
BY DEF TypeOK, HubType, PubType, GenType, TransType, RootType, PlanType, Steps

LEMMA TypesNext ==
  TypeOK' <=> /\ sup' \in {"up", "repair", "fresh", "offline", "dead"}
             /\ step' \in Steps /\ (sup' # "repair" => step' = "none")
             /\ hub' \in [Hubs -> HubType]
             /\ pub' \in [Hubs -> PubType]
             /\ live' \subseteq Files /\ quar' \subseteq Files /\ evidence' \subseteq Files
             /\ fam' \in [Families -> Contents]
             /\ gens' \in [Gens -> GenType]
             /\ root' \in RootType
             /\ plan' \in PlanType
             /\ staging' \subseteq Staged
             /\ receipts' \subseteq Plans
             /\ seen' \in 0 .. MaxHw /\ faults' \in 0 .. MaxFaults
BY DEF TypeOK, HubType, PubType, GenType, TransType, RootType, PlanType, Steps

LEMMA Constants ==
  /\ MaxGen \in Nat \ {0} /\ MaxHw \in Nat \ {0} /\ MaxFaults \in Nat
  /\ Gens \subseteq Nat /\ Plans \subseteq Nat /\ 0 \in Families /\ Plans \subseteq Families
  /\ Empty \in Contents /\ Idle \in PubType /\ NoPlan \in PlanType /\ NoTrans \in TransType
  /\ Gone \in HubType
BY RecoveryAssumption DEF Gens, Plans, Families, Empty, Idle, NoPlan, NoTrans, Contents, PubType,
   PlanType, TransType, Gone, HubType

LEMMA LiveFamilyType ==
  ASSUME TypeOK
  PROVE  LiveFamily \in Families /\ Live \in Contents
<1>1. live \subseteq {"db", "wal"} \X Families /\ 0 \in Families
  BY Types, Constants DEF Files
<1>2. LiveFamily \in Families
  <2>1. CASE live = {}
    BY <1>1, <2>1 DEF LiveFamily
  <2>2. CASE live # {}
    <3>1. PICK x \in live : x = CHOOSE y \in live : TRUE
      BY <2>2
    <3>2. x[2] \in Families
      BY <1>1, <3>1
    <3>3. QED BY <2>2, <3>1, <3>2 DEF LiveFamily
  <2>3. QED BY <2>1, <2>2
<1>3. QED BY <1>2, Types DEF Live

-----------------------------------------------------------------------------
(* Steps that leave the journal, its plan and what is quarantined alone.     *)

LEMMA JournalSame ==
  ASSUME UNCHANGED <<live, fam>>
  PROVE  LiveFamily' = LiveFamily /\ Live' = Live /\ Damaged' = Damaged
<1>1. LiveFamily' = LiveFamily
  BY DEF LiveFamily
<1>2. QED BY <1>1 DEF Live, Damaged

LEMMA OpIsNumber ==
  ASSUME TypeOK, Counted
  PROVE  /\ Op \in Ops /\ Op \in Nat /\ Op - 1 \in Nat /\ Op - 1 <= faults /\ faults \in Nat
         /\ Owed => Op \in Plans
         /\ Op \notin root.completed
<1>1. IsFiniteSet(root.completed)
  <2>1. root.completed \subseteq 1 .. MaxFaults /\ 1 \in Int /\ MaxFaults \in Int
    BY Types, Constants DEF RootType, Plans
  <2>2. IsFiniteSet(1 .. MaxFaults)
    BY <2>1, FS_Interval
  <2>3. QED BY <2>1, <2>2, FS_Subset
<1>2. Cardinality(root.completed) \in Nat
  BY <1>1, FS_CardinalityType
<1>3. Op \in Nat /\ Op >= 1
  BY <1>2 DEF Op
<1>4. Op - 1 <= faults /\ (Owed => Op <= faults) /\ faults \in 0 .. MaxFaults /\ MaxFaults \in Nat
      /\ root.completed = 1 .. Op - 1
  BY Types, Constants DEF Counted
<1>5. QED BY <1>3, <1>4 DEF Ops, Plans

LEMMA JournalKept ==
  ASSUME IInv, TypeOK', Locked', CopiesKnown', UNCHANGED <<live, fam, plan, quar, evidence, seen>>,
         root'.completed = root.completed, faults' >= faults, PortHolders' \subseteq PortHolders
  PROVE  IInv'
<1> USE DEF IInv
<1>1. LiveFamily' = LiveFamily /\ Live' = Live /\ Damaged' = Damaged
  BY JournalSame
<1>2. FamilyNeverMixed' /\ EvidenceSafe'
  BY DEF FamilyNeverMixed, EvidenceSafe
<1>3. PlanStands'
  BY <1>1 DEF PlanStands, InstalledBy
<1>4. Op' = Op
  BY DEF Op
<1>5. Owed' = Owed
  BY <1>1 DEF Owed
<1>6. Counted'
  <2>1. faults \in Nat /\ faults' \in Nat
    BY Types, TypesNext
  <2>2. root'.completed = 1 .. Op' - 1
    BY <1>4 DEF Counted
  <2>3. plan' # NoPlan /\ plan'.id \notin root'.completed => plan'.id = Op'
    BY <1>4 DEF Counted
  <2>4. Op - 1 <= faults /\ (Owed => Op <= faults) /\ Op \in Nat
    BY OpIsNumber DEF Counted
  <2>5. Op' - 1 <= faults' /\ (Owed' => Op' <= faults')
    BY <1>4, <1>5, <2>1, <2>4
  <2>6. QED BY <2>2, <2>3, <2>5 DEF Counted
<1>7. JournalKnown'
  BY <1>1 DEF JournalKnown
<1>8. QED BY <1>2, <1>3, <1>6, <1>7

\* Processes and the supervisor: hubs come, while no recovery is under way, and go.
LEMMA HubsKeep ==
  ASSUME IInv, sup' \in {"up", "repair", "fresh", "offline", "dead"}, step' \in Steps,
         sup' # "repair" => step' = "none", step' \in {"none", "lock"} \/ step' = step,
         hub' \in [Hubs -> HubType], pub' \in [Hubs -> PubType],
         \A h \in Hubs : pub'[h] = pub[h] \/ pub'[h] = Idle,
         \A h \in Hubs : \/ hub'[h].st = hub[h].st \/ hub'[h].st = "none"
                         \/ hub'[h].st = "boot" /\ step' = "none",
         UNCHANGED <<disk, seen>>, faults' \in 0 .. MaxFaults, faults' >= faults
  PROVE  IInv'
<1> USE DEF IInv, disk
<1>1. TypeOK'
  BY Types, TypesNext
<1>2. Locked'
  <2>1. CASE step' \in {"none", "lock"}
    BY <2>1 DEF Locked
  <2>2. CASE step' = step /\ step' # "none"
    BY <2>2 DEF Locked, LeaseHolders
  <2>3. QED BY <2>1, <2>2
<1>3. CopiesKnown'
  <2>1. Idle.at = "idle" /\ Idle.of.told = {}
    BY DEF Idle
  <2>2. QED BY <2>1 DEF CopiesKnown
<1>4. PortHolders' \subseteq PortHolders
  BY DEF PortHolders
<1>5. QED BY <1>1, <1>2, <1>3, <1>4, JournalKept

LEMMA FaultCounts ==
  ASSUME TypeOK
  PROVE  /\ Fault => faults' \in 0 .. MaxFaults /\ faults' >= faults
         /\ faults' = faults => faults' \in 0 .. MaxFaults /\ faults' >= faults
BY Types, Constants DEF Fault

LEMMA HubStepsKeep ==
  ASSUME IInv, NEW h \in Hubs,
         Spawn(h) \/ BindLost(h) \/ Refused(h) \/ Retire(h) \/ HubCrash(h) \/ PubDies(h) \/ OrphanExits(h)
  PROVE  IInv'
<1> USE DEF IInv
<1>1. /\ sup \in {"up", "repair", "fresh", "offline", "dead"} /\ step \in Steps
      /\ sup # "repair" => step = "none"
      /\ hub \in [Hubs -> HubType] /\ pub \in [Hubs -> PubType] /\ Gone \in HubType /\ Idle \in PubType
  BY Types, Constants
<1>2. Gone.st = "none" /\ "lock" \in Steps /\ "none" \in Steps
  BY DEF Gone, Steps
<1>3. faults' \in 0 .. MaxFaults /\ faults' >= faults
  BY FaultCounts DEF Spawn, BindLost, Refused, Retire, HubCrash, PubDies, OrphanExits
<1>4. UNCHANGED <<disk, seen>>
  BY DEF Spawn, BindLost, Refused, Retire, HubCrash, PubDies, OrphanExits
<1>5. /\ pub' \in [Hubs -> PubType] /\ \A g \in Hubs : pub'[g] = pub[g] \/ pub'[g] = Idle
  <2>1. CASE pub' = pub
    BY <1>1, <2>1
  <2>2. CASE pub' = [pub EXCEPT ![h] = Idle]
    BY <1>1, <2>2
  <2>3. CASE pub' = [g \in Hubs |-> IF Own(g) THEN Idle ELSE pub[g]]
    <3> HIDE DEF IInv, Own
    <3>1. QED BY <1>1, <2>3
  <2>4. QED BY <2>1, <2>2, <2>3 DEF Spawn, BindLost, Refused, Retire, HubCrash, PubDies, OrphanExits, Die, Stops
<1>6. /\ sup' \in {"up", "repair", "fresh", "offline", "dead"} /\ step' \in Steps
      /\ sup' # "repair" => step' = "none"
      /\ step' \in {"none", "lock"} \/ step' = step
  BY <1>1, <1>2 DEF Spawn, BindLost, Refused, Retire, HubCrash, PubDies, OrphanExits
<1>7. /\ hub' \in [Hubs -> HubType]
      /\ \A g \in Hubs : \/ hub'[g].st = hub[g].st \/ hub'[g].st = "none"
                         \/ hub'[g].st = "boot" /\ step' = "none"
  <2>1. CASE hub' = hub
    BY <1>1, <2>1
  <2>2. CASE hub' = [hub EXCEPT ![h] = Gone]
    BY <1>1, <1>2, <2>2
  <2>3. CASE hub' = [g \in Hubs |-> IF Own(g) THEN Gone ELSE hub[g]]
    <3> HIDE DEF IInv, Own
    <3>1. QED BY <1>1, <1>2, <2>3
  <2>4. CASE Spawn(h)
    <3>1. hub' = [hub EXCEPT ![h] = [st |-> "boot", own |-> TRUE]] /\ step' = "none"
      BY <1>1, <2>4 DEF Spawn
    <3>2. QED BY <1>1, <3>1 DEF HubType
  <2>5. QED BY <2>1, <2>2, <2>3, <2>4 DEF BindLost, Refused, Retire, HubCrash, PubDies, OrphanExits, Die
<1>8. QED BY <1>3, <1>4, <1>5, <1>6, <1>7, HubsKeep

LEMMA SupervisorKeeps ==
  ASSUME IInv, SupDies \/ StartApp \/ PlanFails
  PROVE  IInv'
<1> USE DEF IInv
<1>1. /\ hub \in [Hubs -> HubType] /\ pub \in [Hubs -> PubType]
  BY Types
<1>2. faults' \in 0 .. MaxFaults /\ faults' >= faults
  BY FaultCounts DEF SupDies, StartApp, PlanFails
<1>3. UNCHANGED <<disk, seen, pub>>
  BY DEF SupDies, StartApp, PlanFails
<1>4. /\ hub' \in [Hubs -> HubType] /\ \A g \in Hubs : hub'[g].st = hub[g].st
  <2>1. CASE hub' = hub
    BY <1>1, <2>1
  <2>2. CASE hub' = [g \in Hubs |-> [hub[g] EXCEPT !.own = FALSE]]
    BY <1>1, <2>2 DEF HubType
  <2>3. QED BY <2>1, <2>2 DEF SupDies, StartApp, PlanFails
<1>5. sup' \in {"up", "repair", "fresh", "offline", "dead"} /\ sup' # "repair" /\ step' = "none"
  <2>1. StartApp => step = "none"
    BY Types DEF StartApp
  <2>2. QED BY <2>1 DEF SupDies, StartApp, PlanFails, GiveUp
<1>6. "none" \in Steps
  BY DEF Steps
<1>7. QED BY <1>1, <1>2, <1>3, <1>4, <1>5, <1>6, HubsKeep

\* The worker's own steps: nobody holds the lease from the lock on.
LEMMA WorkerKeeps ==
  ASSUME IInv, sup = "repair", step # "none",
         sup' \in {"repair", "offline", "fresh"}, step' \in Steps, sup' # "repair" => step' = "none",
         step' \notin {"none", "lock"} => LeaseHolders = {},
         step' \in {"reconcile", "classified"} => plan' = NoPlan,
         root' \in RootType, root'.completed = root.completed, gens' \in [Gens -> GenType],
         \A n \in Gens : gens'[n] = gens[n] \/ gens'[n] = [st |-> "none", of |-> Empty],
         staging' \subseteq Staged, receipts' \subseteq Plans,
         UNCHANGED <<hub, pub, live, fam, plan, quar, evidence, seen, faults>>
  PROVE  IInv'
<1> USE DEF IInv
<1>1. TypeOK'
  BY Types, TypesNext
<1>2. Locked'
  BY DEF Locked, LeaseHolders
<1>3. CopiesKnown'
  <2>1. Empty.told = {}
    BY DEF Empty
  <2>2. QED BY <2>1 DEF CopiesKnown
<1>4. PortHolders' \subseteq PortHolders /\ faults' >= faults
  BY Types DEF PortHolders
<1>5. QED BY <1>1, <1>2, <1>3, <1>4, JournalKept

LEMMA ReconcileKeeps ==
  ASSUME IInv, Lock \/ ClearStaging \/ ClearUnfinished \/ Adopt \/ Classify \/ Conclude
  PROVE  IInv'
<1> USE DEF IInv
<1>1. sup = "repair" /\ step # "none" /\ "none" \in Steps /\ "run" \in Steps /\ "reconcile" \in Steps
      /\ "classified" \in Steps
  BY DEF Lock, ClearStaging, ClearUnfinished, Adopt, Classify, Conclude, Working, Steps
<1>2. /\ root \in RootType /\ gens \in [Gens -> GenType] /\ staging \subseteq Staged /\ receipts \subseteq Plans
      /\ [st |-> "none", of |-> Empty] \in GenType
  BY Types, Constants DEF GenType
<1>3. step \notin {"none", "lock"} => LeaseHolders = {}
  BY DEF Locked
<1>4. step \in {"reconcile", "classified"} => plan = NoPlan
  BY DEF Locked
<1>5. CASE Lock
  <2>1. sup' \in {"repair", "offline"} /\ step' \in Steps /\ (sup' # "repair" => step' = "none")
    BY <1>1, <1>5 DEF Lock, GiveUp
  <2>2. step' \notin {"none", "lock"} => LeaseHolders = {}
    BY <1>5 DEF Lock, GiveUp
  <2>3. step' \in {"reconcile", "classified"} => plan = NoPlan
    BY <1>5 DEF Lock, GiveUp
  <2>4. UNCHANGED <<hub, pub, disk, seen, faults>>
    BY <1>5 DEF Lock
  <2>5. QED BY <1>1, <1>2, <2>1, <2>2, <2>3, <2>4, WorkerKeeps DEF disk
<1>6. CASE ClearStaging
  <2>1. staging' \subseteq Staged
    BY <1>2, <1>6 DEF ClearStaging
  <2>2. UNCHANGED <<sup, step, hub, pub, live, fam, gens, root, plan, quar, evidence, receipts, seen, faults>>
    BY <1>6 DEF ClearStaging
  <2>3. step = "reconcile"
    BY <1>6 DEF ClearStaging, Working
  <2>4. QED BY <1>1, <1>2, <1>3, <1>4, <2>1, <2>2, <2>3, WorkerKeeps
<1>7. CASE ClearUnfinished
  <2>1. /\ gens' \in [Gens -> GenType]
        /\ \A n \in Gens : gens'[n] = gens[n] \/ gens'[n] = [st |-> "none", of |-> Empty]
    BY <1>2, <1>7 DEF ClearUnfinished
  <2>2. UNCHANGED <<sup, step, hub, pub, live, fam, staging, root, plan, quar, evidence, receipts, seen, faults>>
    BY <1>7 DEF ClearUnfinished
  <2>3. step = "reconcile"
    BY <1>7 DEF ClearUnfinished, Working
  <2>4. QED BY <1>1, <1>2, <1>3, <1>4, <2>1, <2>2, <2>3, WorkerKeeps
<1>8. CASE Adopt
  <2>1. PICK n \in Adoptable : root' = [root EXCEPT !.active = n, !.trans = NoTrans]
    BY <1>8 DEF Adopt
  <2>2. n \in Gens
    <3>1. n = Max(Published) /\ root.active \in Published /\ Published \in SUBSET Gens
      BY <2>1 DEF Adoptable, Highest, Published
    <3>2. QED BY <3>1, NewestIsNewest
  <2>3. root' \in RootType /\ root'.completed = root.completed
    BY <1>2, <2>1, <2>2, Constants DEF RootType
  <2>4. UNCHANGED <<sup, step, hub, pub, live, fam, gens, staging, plan, quar, evidence, receipts, seen, faults>>
    BY <1>8 DEF Adopt
  <2>5. step = "reconcile"
    BY <1>8 DEF Adopt, Working
  <2>6. QED BY <1>1, <1>2, <1>3, <1>4, <2>3, <2>4, <2>5, WorkerKeeps
<1>9. CASE Classify
  <2>1. step = "reconcile" /\ plan = NoPlan /\ LeaseHolders = {}
    BY <1>3, <1>4, <1>9 DEF Classify, Working
  <2>2. <<"classifier", Op>> \in Staged
    <3>1. Op \in Ops
      BY OpIsNumber
    <3>2. QED BY <3>1 DEF Staged
  <2>3. staging' \subseteq Staged
    BY <1>2, <1>9, <2>2 DEF Classify
  <2>4. sup' \in {"repair", "offline"} /\ step' \in Steps /\ (sup' # "repair" => step' = "none")
    BY <1>1, <1>9 DEF Classify, GiveUp
  <2>5. UNCHANGED <<hub, pub, live, fam, gens, root, plan, quar, evidence, receipts, seen, faults>>
    BY <1>9 DEF Classify
  <2>6. QED BY <1>1, <1>2, <2>1, <2>3, <2>4, <2>5, WorkerKeeps
<1>10. CASE Conclude
  <2>1. sup' \in {"fresh", "offline"} /\ step' = "none" /\ staging' \subseteq Staged
    BY <1>10 DEF Conclude, GiveUp
  <2>2. UNCHANGED <<hub, pub, live, fam, gens, root, plan, quar, evidence, receipts, seen, faults>>
    BY <1>10 DEF Conclude
  <2>3. QED BY <1>1, <1>2, <2>1, <2>2, WorkerKeeps
<1>11. QED BY <1>5, <1>6, <1>7, <1>8, <1>9, <1>10

LEMMA StagingKeeps ==
  ASSUME IInv, Restore \/ DropClassifier \/ UnlinkStaged \/ WriteReceipt
  PROVE  IInv'
<1> USE DEF IInv
<1>1. /\ sup = "repair" /\ step \in {"classified", "planned", "done", "run"}
      /\ step' \in {"classified", "run", "none"} /\ "run" \in Steps /\ "classified" \in Steps /\ "none" \in Steps
      /\ sup' \in {"repair", "fresh"} /\ (sup' # "repair" => step' = "none")
      /\ step' = "classified" => step = "classified"
  BY DEF Restore, DropClassifier, UnlinkStaged, WriteReceipt, Running, Working, Steps
<1>2. LeaseHolders = {} /\ (step = "classified" => plan = NoPlan)
  BY <1>1 DEF Locked
<1>3. <<"restore", Op>> \in Staged
  BY OpIsNumber DEF Staged
<1>4. staging' \subseteq Staged
  BY <1>3, Types DEF Restore, DropClassifier, UnlinkStaged, WriteReceipt
<1>5. receipts' \subseteq Plans
  <2>1. CASE WriteReceipt
    <3>1. plan # NoPlan
      BY <2>1 DEF WriteReceipt, Running, PlanStands
    <3>2. plan.id \in Plans /\ receipts' = receipts \cup {plan.id}
      BY <2>1, <3>1 DEF PlanStands, WriteReceipt
    <3>3. QED BY <3>2, Types
  <2>2. CASE receipts' = receipts
    BY <2>2, Types
  <2>3. QED BY <2>1, <2>2 DEF Restore, DropClassifier, UnlinkStaged
<1>6. UNCHANGED <<hub, pub, live, fam, gens, root, plan, quar, evidence, seen, faults>>
  BY DEF Restore, DropClassifier, UnlinkStaged, WriteReceipt
<1>7. root \in RootType /\ gens \in [Gens -> GenType]
  BY Types
<1>8. QED BY <1>1, <1>2, <1>4, <1>5, <1>6, <1>7, WorkerKeeps

-----------------------------------------------------------------------------
(* The plan.                                                                 *)

\* The worker's steps that make a plan, run it or end it.
LEMMA PlanStepKeeps ==
  ASSUME IInv, sup = "repair", step \notin {"none", "lock"}, step' \in {"planned", "run", "done"},
         plan' \in PlanType, live' \subseteq Files, quar' \subseteq Files, evidence' \subseteq Files,
         fam' \in [Families -> Contents], root' \in RootType,
         root.completed \subseteq root'.completed,
         UNCHANGED <<sup, hub, pub, gens, staging, receipts, seen, faults>>,
         \A x, y \in live' : x[2] = y[2], \A f \in Families : fam'[f].told \subseteq root'.completed,
         EvidenceSafe', PlanStands', Counted',
         plan' = NoPlan => Live'.hw >= seen' \/ Live'.told # root'.completed \/ Live'.hw = 0
  PROVE  IInv'
<1> USE DEF IInv
<1>1. LeaseHolders = {}
  BY DEF Locked
<1>2. PortHolders' = {} /\ LeaseHolders' = {}
  BY <1>1 DEF PortHolders, LeaseHolders
<1>3. TypeOK'
  BY Types, TypesNext DEF Steps
<1>4. Locked' /\ FamilyNeverMixed'
  BY <1>2 DEF Locked, FamilyNeverMixed
<1>5. CopiesKnown'
  BY DEF CopiesKnown
<1>6. JournalKnown'
  BY <1>2 DEF JournalKnown
<1>7. QED BY <1>3, <1>4, <1>5, <1>6

LEMMA RunningPlan ==
  ASSUME IInv, Working("run"), NEW ph \in {"prepared", "quarantining", "publishing", "verifying", "cleaning"},
         plan.phase = ph
  PROVE  /\ sup = "repair" /\ step = "run" /\ plan # NoPlan
         /\ plan.id \in Plans /\ plan.gen \in Gens /\ plan.prior \in Gens
         /\ ph # "cleaning" => plan.id \notin root.completed /\ plan.id = Op
         /\ plan \in PlanType /\ root \in RootType /\ live \subseteq Files /\ quar \subseteq Files
         /\ evidence \subseteq Files /\ fam \in [Families -> Contents]
         /\ \A x, y \in live : x[2] = y[2]
         /\ \A f \in Families : fam[f].told \subseteq root.completed
<1> USE DEF IInv
<1>1. plan # NoPlan /\ sup = "repair" /\ step = "run"
  BY DEF PlanStands, Working
<1>2. /\ plan.id \in Plans /\ plan.gen \in Gens /\ plan.prior \in Gens
      /\ ph # "cleaning" => plan.id \notin root.completed /\ plan.id = Op
  BY <1>1 DEF PlanStands, Counted
<1>3. QED BY <1>1, <1>2, Types DEF FamilyNeverMixed, JournalKnown

\* The plan goes on, or stays as it is, with the journal, the quarantine and the manifests
\* as they are.
LEMMA PlanGoesOn ==
  ASSUME IInv, Working("run"), plan.phase \in {"prepared", "quarantining", "publishing", "verifying", "cleaning"},
         \/ plan' = plan
         \/ \E ph \in {"quarantining", "publishing", "verifying", "cleaning"} : Phase(ph) /\ plan.phase # "cleaning",
         root' \in RootType, root'.completed = root.completed, evidence' \subseteq quar,
         UNCHANGED <<sup, step, hub, pub, live, fam, gens, staging, quar, receipts, seen, faults>>
  PROVE  IInv'
<1> USE DEF IInv
<1>1. /\ sup = "repair" /\ step = "run" /\ plan # NoPlan /\ plan.id \in Plans /\ plan.gen \in Gens
      /\ plan.prior \in Gens /\ (plan.phase # "cleaning" => plan.id \notin root.completed)
      /\ plan \in PlanType /\ live \subseteq Files /\ quar \subseteq Files /\ fam \in [Families -> Contents]
      /\ \A x, y \in live : x[2] = y[2]
      /\ \A f \in Families : fam[f].told \subseteq root.completed
  BY RunningPlan
<1>2. /\ plan' \in PlanType /\ plan'.id = plan.id /\ plan'.gen = plan.gen /\ plan'.prior = plan.prior
      /\ plan'.family = plan.family /\ plan'.phase # "none"
      /\ plan.phase = "cleaning" => plan'.phase = "cleaning"
  <2>1. CASE plan' = plan
    BY <1>1, <2>1
  <2>2. CASE \E ph \in {"quarantining", "publishing", "verifying", "cleaning"} : Phase(ph) /\ plan.phase # "cleaning"
    <3>1. PICK ph \in {"quarantining", "publishing", "verifying", "cleaning"} : Phase(ph) /\ plan.phase # "cleaning"
      BY <2>2
    <3>2. QED BY <1>1, <3>1 DEF Phase, PlanType
  <2>3. QED BY <2>1, <2>2
<1>3. plan' # NoPlan
  BY <1>2 DEF NoPlan
<1>4. Op' = Op /\ Op \in Nat
  BY OpIsNumber DEF Op
<1>5. EvidenceSafe'
  BY <1>2 DEF EvidenceSafe
<1>6. PlanStands'
  BY <1>1, <1>2, <1>3 DEF PlanStands, InstalledBy
<1>7. Counted'
  <2>1. Owed' => Owed
    BY <1>1, <1>2, <1>3 DEF Owed
  <2>2. root'.completed = 1 .. Op' - 1
    BY <1>4 DEF Counted
  <2>3. Op' - 1 <= faults' /\ (Owed' => Op' <= faults')
    BY <1>4, <2>1 DEF Counted
  <2>4. plan' # NoPlan /\ plan'.id \notin root'.completed => plan'.id = Op'
    BY <1>1, <1>2, <1>4 DEF Counted
  <2>5. QED BY <2>2, <2>3, <2>4 DEF Counted
<1>8. QED BY <1>1, <1>2, <1>3, <1>5, <1>6, <1>7, PlanStepKeeps

LEMMA PhasesKeep ==
  ASSUME IInv, BeginQuarantine \/ EndQuarantine \/ EndPublish \/ SwitchHead \/ BeginCleaning
  PROVE  IInv'
<1> USE DEF IInv
<1>1. /\ Working("run") /\ plan.phase \in {"prepared", "quarantining", "publishing", "verifying"}
      /\ UNCHANGED <<sup, step, hub, pub, live, fam, gens, staging, quar, receipts, seen, faults>>
      /\ \/ plan' = plan
         \/ \E ph \in {"quarantining", "publishing", "verifying", "cleaning"} : Phase(ph)
  BY DEF BeginQuarantine, EndQuarantine, EndPublish, SwitchHead, BeginCleaning, Running
<1>2. /\ plan.id \in Plans /\ plan.gen \in Gens /\ plan.prior \in Gens /\ root \in RootType
      /\ plan \in PlanType
  BY <1>1, RunningPlan
<1>3. evidence' \subseteq quar
  BY DEF BeginQuarantine, EndQuarantine, EndPublish, SwitchHead, BeginCleaning, EvidenceSafe
<1>4. root' \in RootType /\ root'.completed = root.completed
  <2>1. CASE SwitchHead
    <3> DEFINE t == IF plan.gen >= plan.prior THEN NoTrans
                    ELSE [prev |-> plan.prior, restored |-> plan.gen, plan |-> plan.id, receipt |-> FALSE]
    <3>1. t \in TransType
      BY <1>2, Constants DEF TransType
    <3>2. root' = [root EXCEPT !.active = plan.gen, !.trans = t]
      BY <2>1 DEF SwitchHead
    <3> HIDE DEF t
    <3>3. QED BY <1>2, <3>1, <3>2 DEF RootType
  <2>2. CASE root' = root
    BY <1>2, <2>2
  <2>3. QED BY <2>1, <2>2 DEF BeginQuarantine, EndQuarantine, EndPublish, BeginCleaning
<1>5. QED BY <1>1, <1>3, <1>4, PlanGoesOn

LEMMA PublishPlanKeeps ==
  ASSUME IInv, PublishPlan
  PROVE  IInv'
<1> USE DEF IInv
<1> DEFINE S == {n \in Gens : Verifies(n)}
<1>1. /\ sup = "repair" /\ step = "classified" /\ Damaged /\ S # {} /\ step' = "planned"
      /\ plan' = [id |-> Op, gen |-> Max(S), prior |-> root.active, family |-> live, phase |-> "prepared"]
      /\ UNCHANGED <<sup, hub, pub, live, fam, gens, root, staging, quar, evidence, receipts, seen, faults>>
  BY DEF PublishPlan, Working, Captured
<1>2. plan = NoPlan
  BY <1>1 DEF Locked
<1>3. Op \in Plans /\ Op \notin root.completed /\ Op <= faults
  BY <1>1, <1>2, OpIsNumber DEF Owed, Counted
<1>4. Max(S) \in Gens
  BY <1>1, NewestIsNewest
<1>5. root \in RootType /\ live \subseteq Files /\ quar \subseteq Files /\ evidence \subseteq Files
      /\ fam \in [Families -> Contents]
  BY Types
<1>6. plan' \in PlanType
  BY <1>1, <1>3, <1>4, <1>5 DEF PlanType, RootType
<1>7. plan' # NoPlan /\ plan'.id = Op /\ plan'.phase = "prepared" /\ plan'.family = live
  BY <1>1 DEF NoPlan
<1>8. EvidenceSafe'
  BY <1>1, <1>7 DEF EvidenceSafe
<1>9. PlanStands'
  BY <1>1, <1>3, <1>4, <1>5, <1>7 DEF PlanStands, RootType
<1>10. Counted'
  <2>1. Op' = Op
    BY <1>1 DEF Op
  <2>2. QED BY <1>1, <1>3, <1>7, <2>1 DEF Counted
<1>11. \A x, y \in live' : x[2] = y[2]
  BY <1>1 DEF FamilyNeverMixed
<1>12. \A f \in Families : fam'[f].told \subseteq root'.completed
  BY <1>1 DEF JournalKnown
<1>13. QED BY <1>1, <1>5, <1>6, <1>7, <1>8, <1>9, <1>10, <1>11, <1>12, PlanStepKeeps

\* Files of the family move to quarantine, or the restored copy to the journal's path.
LEMMA FilesMove ==
  ASSUME IInv, Working("run"), plan.phase \in {"quarantining", "publishing"},
         live' \subseteq Files, quar' \subseteq Files, fam' \in [Families -> Contents],
         UNCHANGED <<sup, step, hub, pub, gens, root, plan, staging, evidence, receipts, seen, faults>>,
         \A x, y \in live' : x[2] = y[2], \A f \in Families : fam'[f].told \subseteq root.completed,
         quar \subseteq quar', plan.family \subseteq live' \cup quar'
  PROVE  IInv'
<1> USE DEF IInv
<1>1. /\ sup = "repair" /\ step = "run" /\ plan # NoPlan /\ plan.id \in Plans
      /\ plan.id \notin root.completed /\ plan \in PlanType /\ root \in RootType /\ evidence \subseteq Files
  BY RunningPlan
<1>2. EvidenceSafe'
  BY DEF EvidenceSafe
<1>3. PlanStands'
  BY <1>1 DEF PlanStands
<1>4. Counted'
  <2>1. Op' = Op
    BY DEF Op
  <2>2. Owed
    BY <1>1 DEF Owed
  <2>3. QED BY <2>1, <2>2 DEF Counted
<1>5. QED BY <1>1, <1>2, <1>3, <1>4, PlanStepKeeps

LEMMA LinksKeep ==
  ASSUME IInv, NEW x \in plan.family, Link(x) \/ Unlink(x)
  PROVE  IInv'
<1>1. /\ Working("run") /\ plan.phase = "quarantining"
      /\ UNCHANGED <<sup, step, hub, pub, fam, gens, root, plan, staging, evidence, receipts, seen, faults>>
  BY DEF Link, Unlink, Running
<1>2. /\ live \subseteq Files /\ quar \subseteq Files /\ fam \in [Families -> Contents]
      /\ \A y, z \in live : y[2] = z[2]
      /\ \A f \in Families : fam[f].told \subseteq root.completed
  BY <1>1, RunningPlan
<1>3. plan.family \subseteq live \cup quar
  BY DEF IInv, EvidenceSafe
<1>4. /\ live' \subseteq live /\ quar' \subseteq quar \cup live /\ quar \subseteq quar'
      /\ plan.family \subseteq live' \cup quar'
  BY <1>3 DEF Link, Unlink
<1>5. live' \subseteq Files /\ quar' \subseteq Files /\ \A y, z \in live' : y[2] = z[2]
  <2>1. live' \subseteq Files
    BY <1>2, <1>4
  <2>2. quar' \subseteq Files
    BY <1>2, <1>4
  <2>3. \A y, z \in live' : y[2] = z[2]
    BY <1>2, <1>4
  <2>4. QED BY <2>1, <2>2, <2>3
<1>6. QED BY <1>1, <1>2, <1>4, <1>5, FilesMove

LEMMA PublishDbKeeps ==
  ASSUME IInv, PublishDb
  PROVE  IInv'
<1>1. /\ Working("run") /\ plan.phase = "publishing" /\ live = {} /\ live' = {<<"db", plan.id>>}
      /\ fam' = [fam EXCEPT ![plan.id] = gens[plan.gen].of] /\ quar' = quar
      /\ UNCHANGED <<sup, step, hub, pub, gens, root, plan, staging, evidence, receipts, seen, faults>>
  BY DEF PublishDb, Running, NewDb
<1>2. /\ plan.id \in Plans /\ plan.gen \in Gens /\ quar \subseteq Files /\ fam \in [Families -> Contents]
      /\ \A f \in Families : fam[f].told \subseteq root.completed
  BY <1>1, RunningPlan
<1>3. plan.family \subseteq live \cup quar
  BY DEF IInv, EvidenceSafe
<1>4. gens[plan.gen].of \in Contents /\ gens[plan.gen].of.told \subseteq root.completed
  <2>1. gens \in [Gens -> GenType]
    BY Types DEF IInv
  <2>2. QED BY <1>2, <2>1 DEF IInv, CopiesKnown, GenType
<1> DEFINE c == gens[plan.gen].of
<1>5. fam' = [fam EXCEPT ![plan.id] = c] /\ c \in Contents /\ c.told \subseteq root.completed
  BY <1>1, <1>4
<1> HIDE DEF c
<1>6. fam' \in [Families -> Contents] /\ \A f \in Families : fam'[f].told \subseteq root.completed
  BY <1>2, <1>5, Constants
<1>7. live' \subseteq Files /\ \A y, z \in live' : y[2] = z[2]
  <2>1. plan.id \in Families
    BY <1>2, Constants
  <2>2. <<"db", plan.id>> \in Files
    BY <2>1 DEF Files
  <2>3. QED BY <1>1, <2>2
<1>8. plan.family \subseteq live' \cup quar'
  BY <1>1, <1>3
<1>9. QED BY <1>1, <1>2, <1>6, <1>7, <1>8, FilesMove

\* The database a plan put in place is sound.
LEMMA InPlaceIsSound ==
  ASSUME InPlace
  PROVE  live = {<<"db", plan.id>>} /\ LiveFamily = plan.id /\ fam[plan.id].ok
<1>1. live = {<<"db", plan.id>>} /\ ~Damaged
  BY DEF InPlace, NewDb
<1>2. LiveFamily = plan.id
  <2>1. <<"db", plan.id>> \in live /\ \A y, z \in live : y = z
    BY <1>1
  <2>2. LiveFamily = <<"db", plan.id>>[2]
    BY <2>1, LiveFamilyIs
  <2>3. QED BY <2>2
<1>3. QED BY <1>1, <1>2 DEF Damaged, Live

LEMMA CompleteKeeps ==
  ASSUME IInv, Complete
  PROVE  IInv'
<1> USE DEF IInv
<1>1. /\ Working("run") /\ plan.phase = "cleaning" /\ InPlace /\ plan.id \notin root.completed
      /\ root' = [root EXCEPT !.completed = @ \cup {plan.id},
                    !.trans.receipt = IF root.trans.plan = plan.id THEN TRUE ELSE @]
      /\ UNCHANGED <<sup, step, hub, pub, live, fam, gens, plan, staging, quar, evidence, receipts, seen, faults>>
  BY DEF Complete, Running
<1>2. /\ sup = "repair" /\ step = "run" /\ plan # NoPlan /\ plan.id \in Plans
      /\ plan.gen \in Gens /\ plan.prior \in Gens
      /\ plan \in PlanType /\ root \in RootType /\ live \subseteq Files /\ quar \subseteq Files
      /\ evidence \subseteq Files /\ fam \in [Families -> Contents]
      /\ \A x, y \in live : x[2] = y[2]
      /\ \A f \in Families : fam[f].told \subseteq root.completed
  BY <1>1, RunningPlan
<1>3. plan.id = Op /\ Op <= faults /\ Op \in Nat /\ Op - 1 \in Nat /\ root.completed = 1 .. Op - 1
  BY <1>1, <1>2, OpIsNumber DEF Counted, Owed
<1>4. root' \in RootType /\ root'.completed = root.completed \cup {plan.id}
  <2> DEFINE c == root.completed \cup {plan.id}
             b == IF root.trans.plan = plan.id THEN TRUE ELSE root.trans.receipt
             t == [root.trans EXCEPT !.receipt = b]
  <2>1. c \in SUBSET Plans /\ b \in BOOLEAN /\ root.trans \in TransType
    BY <1>2 DEF RootType, TransType
  <2>2. t \in TransType
    <3> HIDE DEF b
    <3>1. QED BY <2>1 DEF TransType
  <2>3. root' = [root EXCEPT !.completed = c, !.trans = t]
    BY <1>1, <1>2 DEF RootType, TransType
  <2> HIDE DEF c, b, t
  <2>4. root' \in RootType /\ root'.completed = c
    BY <1>2, <2>1, <2>2, <2>3 DEF RootType
  <2>5. QED BY <2>4 DEF c
<1>5. root'.completed = 1 .. Op /\ Op' = Op + 1
  <2>1. root'.completed = 1 .. Op
    BY <1>3, <1>4
  <2>2. Op' = 1 + Cardinality(1 .. Op)
    BY <2>1 DEF Op
  <2>3. QED BY <1>3, <2>1, <2>2, NumberedFromOne
<1>6. InstalledBy(plan.id)
  BY <1>1, <1>2, InPlaceIsSound, Constants DEF InstalledBy
<1>7. PlanStands'
  BY <1>1, <1>2, <1>6 DEF PlanStands, InstalledBy
<1>8. Counted'
  <2>1. plan'.id \in root'.completed /\ ~Owed'
    BY <1>1, <1>2, <1>4 DEF Owed
  <2>2. QED BY <1>1, <1>3, <1>5, <2>1 DEF Counted
<1>9. EvidenceSafe'
  BY <1>1 DEF EvidenceSafe
<1>10. \A f \in Families : fam'[f].told \subseteq root'.completed
  BY <1>1, <1>2, <1>4
<1>11. QED BY <1>1, <1>2, <1>4, <1>7, <1>8, <1>9, <1>10, PlanStepKeeps

LEMMA DropPlanKeeps ==
  ASSUME IInv, DropPlan
  PROVE  IInv'
<1> USE DEF IInv
<1>1. /\ Working("run") /\ plan.phase = "cleaning" /\ plan.id \in root.completed
      /\ plan' = NoPlan /\ step' = "done"
      /\ UNCHANGED <<sup, hub, pub, live, fam, gens, root, staging, quar, evidence, receipts, seen, faults>>
  BY DEF DropPlan, Running
<1>2. /\ sup = "repair" /\ step = "run" /\ plan # NoPlan /\ plan.id \in Plans
      /\ root \in RootType /\ live \subseteq Files /\ quar \subseteq Files
      /\ evidence \subseteq Files /\ fam \in [Families -> Contents]
      /\ \A x, y \in live : x[2] = y[2]
      /\ \A f \in Families : fam[f].told \subseteq root.completed
  BY <1>1, RunningPlan
<1>3. live = {<<"db", plan.id>>} /\ fam[plan.id].ok /\ plan.id \notin fam[plan.id].told
  BY <1>1, <1>2 DEF PlanStands, InstalledBy
<1>4. LiveFamily = plan.id
  <2>1. <<"db", plan.id>> \in live /\ \A y, z \in live : y = z
    BY <1>3
  <2>2. LiveFamily = <<"db", plan.id>>[2]
    BY <2>1, LiveFamilyIs
  <2>3. QED BY <2>2
<1>5. ~Damaged /\ Live.told # root.completed
  BY <1>1, <1>3, <1>4 DEF Damaged, Live
<1>6. Live' = Live /\ Damaged' = Damaged
  BY <1>1, JournalSame
<1>7. NoPlan.phase = "none" /\ NoPlan.family = {} /\ NoPlan \in PlanType
  BY Constants DEF NoPlan
<1>8. PlanStands'
  BY <1>1, <1>3, <1>7 DEF PlanStands
<1>9. Counted'
  <2>1. Op' = Op /\ ~Owed'
    BY <1>1, <1>5, <1>6 DEF Op, Owed
  <2>2. QED BY <1>1, <2>1 DEF Counted
<1>10. EvidenceSafe'
  BY <1>1, <1>7 DEF EvidenceSafe
<1>11. QED BY <1>1, <1>2, <1>5, <1>6, <1>7, <1>8, <1>9, <1>10, PlanStepKeeps

-----------------------------------------------------------------------------
(* Generations, and the backups that publish them.                           *)

\* What changes the generations, the backup children and the active generation.
LEMMA CopiesKeep ==
  ASSUME IInv, pub' \in [Hubs -> PubType], gens' \in [Gens -> GenType], root' \in RootType,
         staging' \subseteq Staged, faults' \in 0 .. MaxFaults, faults' >= faults,
         root'.completed = root.completed,
         UNCHANGED <<sup, step, hub, live, fam, plan, quar, evidence, receipts, seen>>,
         \A h \in Hubs :
           \/ pub'[h] = pub[h] \/ pub'[h] = Idle
           \/ /\ pub'[h].of.told \subseteq root.completed /\ pub'[h].of.hw >= 1
              /\ pub'[h].at \in {"staged", "dir", "full", "checked"} => pub'[h].gen \in Gens,
         \A n \in Gens :
           \/ gens'[n] = gens[n] \/ gens'[n] = [st |-> "none", of |-> Empty]
           \/ /\ gens'[n].of.told \subseteq root.completed
              /\ gens'[n].st = "full" => gens'[n].of.hw >= 1
  PROVE  IInv'
<1> USE DEF IInv
<1>1. TypeOK'
  BY Types, TypesNext
<1>2. Locked'
  BY DEF Locked, LeaseHolders
<1>3. CopiesKnown'
  <2>1. Idle.at = "idle" /\ Idle.of.told = {} /\ Empty.told = {}
    BY DEF Idle, Empty
  <2>2. \A n \in Gens : gens'[n].of.told \subseteq root'.completed
                        /\ (gens'[n].st = "full" => gens'[n].of.hw >= 1)
    BY <2>1 DEF CopiesKnown
  <2>3. \A h \in Hubs : pub'[h].of.told \subseteq root'.completed
                        /\ (pub'[h].at # "idle" => pub'[h].of.hw >= 1)
                        /\ (pub'[h].at \in {"staged", "dir", "full", "checked"} => pub'[h].gen \in Gens)
    BY <2>1 DEF CopiesKnown
  <2>4. QED BY <2>2, <2>3 DEF CopiesKnown
<1>4. PortHolders' \subseteq PortHolders
  BY DEF PortHolders
<1>5. QED BY <1>1, <1>2, <1>3, <1>4, JournalKept

LEMMA KeepingType ==
  ASSUME TypeOK, NEW k
  PROVE  /\ Keeping(k) \in [Gens -> GenType]
         /\ \A n \in Gens : Keeping(k)[n] = gens[n] \/ Keeping(k)[n] = [st |-> "none", of |-> Empty]
<1>1. gens \in [Gens -> GenType] /\ [st |-> "none", of |-> Empty] \in GenType
  BY Types, Constants DEF GenType
<1> HIDE DEF GenType
<1>2. QED BY <1>1 DEF Keeping

LEMMA CopyKeeps ==
  ASSUME IInv, NEW h \in Hubs, Copy(h)
  PROVE  IInv'
<1> USE DEF IInv
<1>1. /\ hub[h].st = "serve" /\ pub' = [pub EXCEPT ![h] = [at |-> "copied", gen |-> 0, of |-> Live]]
      /\ UNCHANGED <<sup, step, hub, disk, seen, faults>>
  BY DEF Copy
<1>2. Live \in Contents /\ Live.told \subseteq root.completed
  BY LiveFamilyType DEF Live, JournalKnown
<1>3. Live.hw >= 1
  BY <1>1 DEF JournalKnown, PortHolders
<1> DEFINE c == Live
           p == [at |-> "copied", gen |-> 0, of |-> c]
<1>4. p \in PubType /\ p.of.told \subseteq root.completed /\ p.of.hw >= 1 /\ p.at = "copied"
  <2>1. c \in Contents /\ c.told \subseteq root.completed /\ c.hw >= 1
    BY <1>2, <1>3
  <2> HIDE DEF c
  <2>2. QED BY <2>1 DEF PubType
<1>5. pub' = [pub EXCEPT ![h] = p] /\ pub \in [Hubs -> PubType]
  BY <1>1, Types
<1> HIDE DEF p
<1>6. pub' \in [Hubs -> PubType] /\ pub'[h] = p /\ \A g \in Hubs : g # h => pub'[g] = pub[g]
  BY <1>4, <1>5
<1>7. /\ gens' \in [Gens -> GenType] /\ root' \in RootType /\ staging' \subseteq Staged
      /\ faults' \in 0 .. MaxFaults /\ faults' >= faults
  BY <1>1, Types DEF disk
<1>8. QED BY <1>1, <1>4, <1>6, <1>7, CopiesKeep DEF disk

\* What becomes of a backup child: it goes on with its copy, or stops.
LEMMA ChildGoesOn ==
  ASSUME IInv, NEW h \in Hubs, pub[h].at \in {"copied", "staged", "dir", "full", "checked"},
         \/ Stops(h) \/ pub' = pub
         \/ \E a \in {"dir", "full", "checked"} : Goes(h, a) /\ pub[h].at # "copied"
         \/ \E n \in Gens : pub' = [pub EXCEPT ![h].at = "staged", ![h].gen = n]
  PROVE  /\ pub' \in [Hubs -> PubType]
         /\ \A g \in Hubs :
              \/ pub'[g] = pub[g] \/ pub'[g] = Idle
              \/ /\ pub'[g].of.told \subseteq root.completed /\ pub'[g].of.hw >= 1
                 /\ pub'[g].at \in {"staged", "dir", "full", "checked"} => pub'[g].gen \in Gens
<1> USE DEF IInv
<1>1. pub \in [Hubs -> PubType] /\ Idle \in PubType
  BY Types, Constants
<1>2. /\ pub[h].of.told \subseteq root.completed /\ pub[h].of.hw >= 1
      /\ pub[h].at # "copied" => pub[h].gen \in Gens
  BY DEF CopiesKnown
<1>3. CASE Stops(h) \/ pub' = pub
  <2> HIDE DEF PubType
  <2>1. QED BY <1>1, <1>3 DEF Stops
<1>4. CASE \E a \in {"dir", "full", "checked"} : Goes(h, a) /\ pub[h].at # "copied"
  <2>1. PICK a \in {"dir", "full", "checked"} : Goes(h, a) /\ pub[h].at # "copied"
    BY <1>4
  <2>2. /\ pub' \in [Hubs -> PubType] /\ pub'[h].of = pub[h].of /\ pub'[h].gen = pub[h].gen
        /\ \A g \in Hubs : g # h => pub'[g] = pub[g]
    BY <1>1, <2>1 DEF Goes, PubType
  <2>3. QED BY <1>2, <2>1, <2>2
<1>5. CASE \E n \in Gens : pub' = [pub EXCEPT ![h].at = "staged", ![h].gen = n]
  <2>1. PICK n \in Gens : pub' = [pub EXCEPT ![h].at = "staged", ![h].gen = n]
    BY <1>5
  <2>2. /\ pub' \in [Hubs -> PubType] /\ pub'[h].of = pub[h].of /\ pub'[h].gen = n
        /\ \A g \in Hubs : g # h => pub'[g] = pub[g]
    BY <1>1, <2>1 DEF PubType
  <2>3. QED BY <1>2, <2>1, <2>2
<1>6. QED BY <1>3, <1>4, <1>5

LEMMA BackupKeeps ==
  ASSUME IInv, NEW h \in Hubs, Reserve(h) \/ CheckPublished(h) \/ Activate(h)
  PROVE  IInv'
<1> USE DEF IInv
<1> DEFINE May == HeadControls /\ pub[h].of.hw >= gens[root.active].of.hw /\ root.next <= MaxGen
<1>1. /\ UNCHANGED <<sup, step, hub, live, fam, plan, quar, evidence, receipts, seen, faults>>
      /\ pub[h].at \in {"copied", "staged", "dir", "full", "checked"}
  BY DEF Reserve, CheckPublished, Activate, At
<1>2. /\ pub \in [Hubs -> PubType] /\ gens \in [Gens -> GenType] /\ root \in RootType /\ staging \subseteq Staged
      /\ faults' \in 0 .. MaxFaults /\ faults' >= faults /\ NoTrans \in TransType
  BY <1>1, Types, FaultCounts, Constants
<1>3. CASE Reserve(h) /\ May
  <2>1. /\ root' = [root EXCEPT !.next = @ + 1] /\ root.next <= MaxGen
        /\ staging' = staging \cup {<<"gen", root.next>>} /\ gens' = gens
        /\ pub' = [pub EXCEPT ![h].at = "staged", ![h].gen = root.next]
    BY <1>3 DEF Reserve
  <2>2. root.next \in Gens /\ root.next + 1 \in 1 .. MaxGen + 1
    BY <1>2, <2>1, Constants DEF RootType, Gens
  <2>3. <<"gen", root.next>> \in Staged
    BY <2>2 DEF Staged
  <2> DEFINE n == root.next + 1
  <2>4. root' = [root EXCEPT !.next = n] /\ n \in 1 .. MaxGen + 1
    BY <2>1, <2>2
  <2> HIDE DEF n
  <2>5. root' \in RootType /\ root'.completed = root.completed
    BY <1>2, <2>4 DEF RootType
  <2>6. /\ pub' \in [Hubs -> PubType]
        /\ \A g \in Hubs :
              \/ pub'[g] = pub[g] \/ pub'[g] = Idle
              \/ /\ pub'[g].of.told \subseteq root.completed /\ pub'[g].of.hw >= 1
                 /\ pub'[g].at \in {"staged", "dir", "full", "checked"} => pub'[g].gen \in Gens
    BY <1>1, <2>1, <2>2, ChildGoesOn
  <2>7. staging' \subseteq Staged
    BY <1>2, <2>1, <2>3
  <2>8. QED BY <1>1, <1>2, <2>1, <2>5, <2>6, <2>7, CopiesKeep
<1>4. CASE (Reserve(h) /\ ~May) \/ CheckPublished(h)
  <2>1. gens' = gens /\ root' = root /\ staging' \subseteq staging
    BY <1>4 DEF Reserve, CheckPublished
  <2>2. Stops(h) \/ (Goes(h, "checked") /\ pub[h].at # "copied")
    BY <1>4 DEF Reserve, CheckPublished, At
  <2>3. /\ pub' \in [Hubs -> PubType]
        /\ \A g \in Hubs :
              \/ pub'[g] = pub[g] \/ pub'[g] = Idle
              \/ /\ pub'[g].of.told \subseteq root.completed /\ pub'[g].of.hw >= 1
                 /\ pub'[g].at \in {"staged", "dir", "full", "checked"} => pub'[g].gen \in Gens
    BY <1>1, <2>2, ChildGoesOn
  <2>4. QED BY <1>1, <1>2, <2>1, <2>3, CopiesKeep
<1>5. CASE Activate(h)
  <2>1. /\ root' = [root EXCEPT !.active = pub[h].gen, !.trans = NoTrans] /\ gens' = Keeping(Keep)
        /\ Stops(h) /\ staging' = staging /\ pub[h].at = "checked"
    BY <1>5 DEF Activate, At
  <2>2. pub[h].gen \in Gens
    BY <2>1 DEF CopiesKnown
  <2>3. root' \in RootType /\ root'.completed = root.completed
    BY <1>2, <2>1, <2>2 DEF RootType
  <2>4. /\ gens' \in [Gens -> GenType]
        /\ \A n \in Gens : gens'[n] = gens[n] \/ gens'[n] = [st |-> "none", of |-> Empty]
    BY <2>1, KeepingType
  <2>5. /\ pub' \in [Hubs -> PubType]
        /\ \A g \in Hubs :
              \/ pub'[g] = pub[g] \/ pub'[g] = Idle
              \/ /\ pub'[g].of.told \subseteq root.completed /\ pub'[g].of.hw >= 1
                 /\ pub'[g].at \in {"staged", "dir", "full", "checked"} => pub'[g].gen \in Gens
    BY <1>1, <2>1, ChildGoesOn
  <2>6. QED BY <1>1, <1>2, <2>1, <2>3, <2>4, <2>5, CopiesKeep
<1>6. QED BY <1>3, <1>4, <1>5

LEMMA PublishKeeps ==
  ASSUME IInv, NEW h \in Hubs, Publish(h)
  PROVE  IInv'
<1> USE DEF IInv
<1>1. /\ UNCHANGED <<sup, step, hub, live, fam, root, plan, quar, evidence, receipts, seen, faults>>
      /\ pub[h].at \in {"staged", "dir"}
  BY DEF Publish
<1>2. /\ pub \in [Hubs -> PubType] /\ gens \in [Gens -> GenType] /\ root \in RootType /\ staging \subseteq Staged
      /\ faults' \in 0 .. MaxFaults /\ faults' >= faults /\ Empty \in Contents
  BY <1>1, Types, FaultCounts, Constants
<1>3. pub[h].gen \in Gens /\ pub[h].of \in Contents /\ pub[h].of.told \subseteq root.completed /\ pub[h].of.hw >= 1
  BY <1>1, <1>2 DEF CopiesKnown, PubType
<1>4. staging' \subseteq Staged
  BY <1>2 DEF Publish
<1>5. /\ pub' \in [Hubs -> PubType]
      /\ \A g \in Hubs :
            \/ pub'[g] = pub[g] \/ pub'[g] = Idle
            \/ /\ pub'[g].of.told \subseteq root.completed /\ pub'[g].of.hw >= 1
               /\ pub'[g].at \in {"staged", "dir", "full", "checked"} => pub'[g].gen \in Gens
  <2>1. Stops(h) \/ \E a \in {"dir", "full", "checked"} : Goes(h, a) /\ pub[h].at # "copied"
    BY <1>1 DEF Publish
  <2>2. QED BY <1>1, <2>1, ChildGoesOn
<1>6. /\ gens' \in [Gens -> GenType]
      /\ \A n \in Gens :
           \/ gens'[n] = gens[n]
           \/ /\ gens'[n].of.told \subseteq root.completed
              /\ gens'[n].st = "full" => gens'[n].of.hw >= 1
  <2>1. CASE gens' = gens
    BY <1>2, <2>1
  <2>2. CASE gens' = [gens EXCEPT ![pub[h].gen] =
               IF At(h, "staged") THEN [st |-> "dir", of |-> Empty] ELSE [st |-> "full", of |-> pub[h].of]]
    <3> DEFINE c == IF At(h, "staged") THEN [st |-> "dir", of |-> Empty] ELSE [st |-> "full", of |-> pub[h].of]
    <3>1. c \in GenType /\ c.of.told \subseteq root.completed /\ (c.st = "full" => c.of.hw >= 1)
      <4>1. Empty.told = {}
        BY DEF Empty
      <4>2. CASE At(h, "staged")
        BY <1>2, <4>1, <4>2 DEF GenType
      <4>3. CASE ~At(h, "staged")
        BY <1>3, <4>3 DEF GenType
      <4>4. QED BY <4>2, <4>3
    <3>2. gens' = [gens EXCEPT ![pub[h].gen] = c]
      BY <2>2
    <3> HIDE DEF c
    <3>3. QED BY <1>2, <1>3, <3>1, <3>2
  <2>3. QED BY <2>1, <2>2 DEF Publish
<1>7. QED BY <1>1, <1>2, <1>4, <1>5, <1>6, CopiesKeep

LEMMA PruneKeeps ==
  ASSUME IInv, NEW h \in Hubs, Prune(h)
  PROVE  IInv'
<1> USE DEF IInv
<1>1. UNCHANGED <<sup, step, hub, pub, live, fam, root, plan, staging, quar, evidence, receipts, seen, faults>>
  BY DEF Prune
<1>2. /\ gens' \in [Gens -> GenType]
      /\ \A n \in Gens : gens'[n] = gens[n] \/ gens'[n] = [st |-> "none", of |-> Empty]
  <2>1. PICK k : gens' = Keeping(k)
    BY DEF Prune
  <2>2. QED BY <2>1, KeepingType
<1>3. /\ pub \in [Hubs -> PubType] /\ root \in RootType /\ staging \subseteq Staged
      /\ faults' \in 0 .. MaxFaults /\ faults' >= faults
  BY <1>1, Types, FaultCounts
<1>4. QED BY <1>1, <1>2, <1>3, CopiesKeep

LEMMA RotKeeps ==
  ASSUME IInv, NEW n \in Gens, Rot(n)
  PROVE  IInv'
<1> USE DEF IInv
<1>1. /\ UNCHANGED <<sup, step, hub, pub, live, fam, root, plan, staging, quar, evidence, receipts, seen>>
      /\ gens' = [gens EXCEPT ![n].of.ok = FALSE]
  BY DEF Rot, NoTouch
<1>2. /\ pub \in [Hubs -> PubType] /\ root \in RootType /\ staging \subseteq Staged /\ gens \in [Gens -> GenType]
      /\ faults' \in 0 .. MaxFaults /\ faults' >= faults
  BY Types, FaultCounts DEF Rot
<1> DEFINE c == [gens[n].of EXCEPT !.ok = FALSE]
           d == [gens[n] EXCEPT !.of = c]
<1>3. c \in Contents /\ c.told = gens[n].of.told /\ c.hw = gens[n].of.hw
  BY <1>2 DEF GenType, Contents
<1>4. gens' = [gens EXCEPT ![n] = d]
  BY <1>1, <1>2 DEF GenType
<1> HIDE DEF c
<1>5. d \in GenType /\ d.of = c /\ d.st = gens[n].st
  BY <1>2, <1>3 DEF GenType
<1> HIDE DEF d
<1>6. gens' \in [Gens -> GenType] /\ gens'[n] = d /\ \A m \in Gens : m # n => gens'[m] = gens[m]
  BY <1>2, <1>4, <1>5
<1>7. \A m \in Gens :
        \/ gens'[m] = gens[m]
        \/ /\ gens'[m].of.told \subseteq root.completed
           /\ gens'[m].st = "full" => gens'[m].of.hw >= 1
  <2>1. gens'[n].of.told \subseteq root.completed /\ (gens'[n].st = "full" => gens'[n].of.hw >= 1)
    BY <1>3, <1>5, <1>6 DEF CopiesKnown
  <2>2. QED BY <1>6, <2>1
<1>8. QED BY <1>1, <1>2, <1>6, <1>7, CopiesKeep

-----------------------------------------------------------------------------
(* The journal: hubs that serve it, and harm that comes to it.               *)

\* Nobody serves or writes while there is a plan, and the lease holders are not locked out
\* while somebody serves.
LEMMA ServingAlone ==
  ASSUME IInv, PortHolders # {}
  PROVE  plan = NoPlan /\ step \in {"none", "lock"} /\ live # {} /\ Live.hw >= 1
         /\ (Live.hw >= seen \/ Live.told # root.completed)
<1> USE DEF IInv
<1>1. plan = NoPlan /\ Live.hw >= 1
  BY DEF FamilyNeverMixed, JournalKnown
<1>2. LeaseHolders # {}
  BY DEF PortHolders, LeaseHolders
<1>3. step \in {"none", "lock"}
  BY <1>2 DEF Locked
<1>4. Live.hw >= seen \/ Live.told # root.completed
  <2>1. Live \in Contents
    BY LiveFamilyType
  <2>2. Live.hw # 0
    BY <1>1, <2>1 DEF Contents
  <2>3. QED BY <1>1, <2>2 DEF JournalKnown
<1>5. QED BY <1>1, <1>3, <1>4 DEF PlanStands

\* Steps that change the journal while there is no plan.
LEMMA JournalStepKeeps ==
  ASSUME IInv, plan = NoPlan, sup' \in {"up", "repair", "fresh", "offline", "dead"},
         sup' # "repair" => step = "none", hub' \in [Hubs -> HubType], Locked',
         UNCHANGED <<step, pub, gens, root, plan, staging, quar, evidence, receipts>>,
         live' \subseteq {"db", "wal"} \X {LiveFamily}, live' # {},
         NEW c \in Contents, fam' = [fam EXCEPT ![LiveFamily] = c], c.told \subseteq root.completed,
         seen' \in 0 .. MaxHw, faults' \in 0 .. MaxFaults, faults' >= faults,
         \/ faults' = faults + 1
         \/ (c.ok = Live.ok /\ (<<"db", LiveFamily>> \in live => <<"db", LiveFamily>> \in live')),
         PortHolders' # {} => c.hw >= 1,
         c.hw >= seen' \/ c.told # root.completed \/ c.hw = 0
  PROVE  IInv' /\ LiveFamily' = LiveFamily /\ Live' = c
<1> USE DEF IInv
<1> DEFINE F == LiveFamily
<1>1. F \in Families /\ fam \in [Families -> Contents] /\ {"db", "wal"} \X {F} \subseteq Files
  BY LiveFamilyType, Types DEF Files
<1>2. LiveFamily' = F
  <2>1. PICK x \in live' : x = CHOOSE y \in live' : TRUE
    OBVIOUS
  <2>2. x[2] = F
    BY <2>1
  <2>3. QED BY <2>1, <2>2 DEF LiveFamily
<1>3. fam' \in [Families -> Contents] /\ Live' = c /\ \A f \in Families : f # F => fam'[f] = fam[f]
  BY <1>1, <1>2 DEF Live
<1>4. TypeOK'
  BY <1>1, <1>3, Types, TypesNext
<1>5. FamilyNeverMixed'
  <2>1. \A x, y \in live' : x[2] = y[2]
    BY <1>1
  <2>2. QED BY <2>1 DEF FamilyNeverMixed
<1>6. EvidenceSafe'
  BY DEF EvidenceSafe, NoPlan
<1>7. PlanStands'
  BY DEF PlanStands
<1>8. Counted'
  <2>1. Op' = Op /\ Op \in Nat /\ faults \in Nat /\ faults' \in Nat /\ Op - 1 <= faults
    BY OpIsNumber, Types DEF Op
  <2>2. CASE faults' = faults + 1
    BY <2>1, <2>2 DEF Counted
  <2>3. CASE c.ok = Live.ok /\ (<<"db", LiveFamily>> \in live => <<"db", LiveFamily>> \in live')
    <3>1. Damaged' => Damaged
      BY <1>2, <1>3, <2>3 DEF Damaged, PlanStands
    <3>2. Owed' => Owed
      BY <3>1 DEF Owed
    <3>3. Op' <= faults' \/ ~Owed'
      BY <2>1, <3>2 DEF Counted
    <3>4. QED BY <2>1, <3>3 DEF Counted
  <2>4. QED BY <2>2, <2>3
<1>9. CopiesKnown'
  BY DEF CopiesKnown
<1>10. JournalKnown'
  <2>1. \A f \in Families : fam'[f].told \subseteq root'.completed
    <3>1. fam'[F] = c
      BY <1>1
    <3>2. QED BY <1>3, <3>1 DEF JournalKnown
  <2>2. QED BY <1>3, <2>1 DEF JournalKnown
<1>11. QED BY <1>2, <1>3, <1>4, <1>5, <1>6, <1>7, <1>8, <1>9, <1>10

\* The files at the journal's path are those of the live family.
LEMMA LiveIsOfFamily ==
  ASSUME TypeOK, \A x, y \in live : x[2] = y[2]
  PROVE  live \subseteq {"db", "wal"} \X {LiveFamily}
<1> SUFFICES ASSUME NEW x \in live PROVE x \in {"db", "wal"} \X {LiveFamily}
  OBVIOUS
<1>1. x \in {"db", "wal"} \X Families
  BY Types DEF Files
<1>2. LiveFamily = x[2]
  BY LiveFamilyIs
<1>3. QED BY <1>1, <1>2

LEMMA ServeKeeps ==
  ASSUME IInv, NEW h \in Hubs, Serve(h)
  PROVE  IInv' /\ (Live.hw >= seen \/ fam'[LiveFamily].told # Live.told)
<1> USE DEF IInv
<1>1. /\ hub[h].st = "boot" /\ ~BootRefused
      /\ hub' = [g \in Hubs |-> IF g = h THEN [hub[h] EXCEPT !.st = "serve"]
                            ELSE IF hub[g].st = "serve" THEN [hub[g] EXCEPT !.st = "drain"]
                            ELSE hub[g]]
      /\ fam' = [fam EXCEPT ![LiveFamily].told = root.completed]
      /\ seen' = Live.hw
      /\ sup' = IF sup = "fresh" THEN "up" ELSE sup
      /\ UNCHANGED <<step, pub, live, gens, root, plan, staging, quar, evidence, receipts, faults>>
  BY DEF Serve
<1>2. plan = NoPlan /\ live # {} /\ root.active \in Published /\ Live.hw >= gens[root.active].of.hw
  BY <1>1 DEF BootRefused, HeadControls, LineageHolds
<1>3. /\ hub \in [Hubs -> HubType] /\ fam \in [Families -> Contents] /\ root \in RootType
      /\ gens \in [Gens -> GenType] /\ LiveFamily \in Families /\ Live \in Contents
      /\ sup \in {"up", "repair", "fresh", "offline", "dead"} /\ (sup # "repair" => step = "none")
  BY Types, LiveFamilyType
<1>4. Live.hw >= 1
  <2>1. gens[root.active].of.hw >= 1 /\ gens[root.active] \in GenType
    BY <1>2, <1>3 DEF Published, CopiesKnown
  <2>2. gens[root.active].of.hw \in Nat /\ Live.hw \in Nat
    BY <1>3, <2>1 DEF GenType, Contents
  <2>3. QED BY <1>2, <2>1, <2>2
<1> DEFINE c == [Live EXCEPT !.told = root.completed]
<1>5. fam' = [fam EXCEPT ![LiveFamily] = c] /\ c \in Contents /\ c.told = root.completed
      /\ c.hw = Live.hw /\ c.ok = Live.ok
  BY <1>1, <1>3 DEF Live, Contents, RootType
<1>6. hub' \in [Hubs -> HubType] /\ LeaseHolders # {}
  BY <1>1, <1>3 DEF HubType, LeaseHolders
<1>7. step \in {"none", "lock"}
  BY <1>6 DEF Locked
<1>8. Locked'
  BY <1>1, <1>7 DEF Locked
<1>9. live' \subseteq {"db", "wal"} \X {LiveFamily} /\ live' # {}
  BY <1>1, <1>2, LiveIsOfFamily DEF FamilyNeverMixed
<1>10. /\ sup' \in {"up", "repair", "fresh", "offline", "dead"} /\ (sup' # "repair" => step = "none")
       /\ seen' \in 0 .. MaxHw /\ faults' \in 0 .. MaxFaults /\ faults' >= faults
  BY <1>1, <1>3, FaultCounts DEF Contents
<1>11. c.hw >= seen'
  BY <1>1, <1>3, <1>5 DEF Contents
<1> HIDE DEF c
<1>12. IInv'
  BY <1>1, <1>2, <1>4, <1>5, <1>6, <1>8, <1>9, <1>10, <1>11, JournalStepKeeps
<1>13. Live.hw >= seen \/ fam'[LiveFamily].told # Live.told
  <2>1. fam'[LiveFamily] = c
    BY <1>3, <1>5
  <2>2. Live.hw # 0
    BY <1>3, <1>4 DEF Contents
  <2>3. QED BY <1>2, <1>5, <2>1, <2>2 DEF JournalKnown
<1>14. QED BY <1>12, <1>13

LEMMA WriteKeeps ==
  ASSUME IInv, NEW h \in Hubs, Write(h)
  PROVE  IInv'
<1> USE DEF IInv
<1>1. /\ hub[h].st \in {"serve", "drain"} /\ Live.hw < MaxHw
      /\ fam' = [fam EXCEPT ![LiveFamily].hw = @ + 1]
      /\ live' = live \cup {<<"wal", LiveFamily>>}
      /\ seen' = Live.hw + 1
      /\ UNCHANGED <<sup, step, hub, pub, gens, root, plan, staging, quar, evidence, receipts, faults>>
  BY DEF Write
<1>2. plan = NoPlan /\ step \in {"none", "lock"} /\ live # {}
  <2>1. PortHolders # {}
    BY <1>1 DEF PortHolders
  <2>2. QED BY <2>1, ServingAlone
<1>3. /\ hub \in [Hubs -> HubType] /\ fam \in [Families -> Contents] /\ LiveFamily \in Families
      /\ Live \in Contents /\ MaxHw \in Nat
      /\ sup \in {"up", "repair", "fresh", "offline", "dead"} /\ (sup # "repair" => step = "none")
  BY Types, LiveFamilyType, Constants
<1>4. Live.hw \in Nat /\ Live.hw + 1 \in 0 .. MaxHw /\ Live.told \subseteq root.completed
  BY <1>1, <1>3 DEF Contents, JournalKnown, Live
<1> DEFINE c == [Live EXCEPT !.hw = Live.hw + 1]
<1>5. fam' = [fam EXCEPT ![LiveFamily] = c] /\ c \in Contents /\ c.told \subseteq root.completed
      /\ c.hw = Live.hw + 1 /\ c.ok = Live.ok
  BY <1>1, <1>3, <1>4 DEF Live, Contents
<1>6. Locked'
  BY <1>1, <1>2 DEF Locked
<1>7. live' \subseteq {"db", "wal"} \X {LiveFamily} /\ live' # {}
  <2>1. TypeOK /\ \A x, y \in live : x[2] = y[2]
    BY DEF FamilyNeverMixed
  <2>2. live \subseteq {"db", "wal"} \X {LiveFamily}
    BY <2>1, LiveIsOfFamily
  <2>3. <<"wal", LiveFamily>> \in {"db", "wal"} \X {LiveFamily}
    OBVIOUS
  <2>4. live' = live \cup {<<"wal", LiveFamily>>}
    BY <1>1
  <2> HIDE DEF IInv
  <2>5. QED BY <2>2, <2>3, <2>4
<1>8. faults' \in 0 .. MaxFaults /\ faults' >= faults
  BY <1>1, FaultCounts
<1>9. c.hw >= 1 /\ c.hw >= seen' /\ seen' \in 0 .. MaxHw
  BY <1>1, <1>4, <1>5
<1>10. <<"db", LiveFamily>> \in live => <<"db", LiveFamily>> \in live'
  BY <1>1
<1> HIDE DEF c
<1>11. QED BY <1>1, <1>2, <1>3, <1>5, <1>6, <1>7, <1>8, <1>9, <1>10, JournalStepKeeps

\* What harms the journal while no plan is made for it: its contents go bad, its database is
\* lost from under the log, or an old copy is put in its place.
LEMMA HarmKeeps ==
  ASSUME IInv, Corrupt \/ LoseDb \/ PutBack
  PROVE  IInv'
<1> USE DEF IInv
<1>1. /\ Fault /\ plan = NoPlan
      /\ UNCHANGED <<sup, step, hub, pub, seen, gens, root, plan, staging, quar, evidence, receipts>>
  BY DEF Corrupt, LoseDb, PutBack, Spared, NoTouch
<1>2. /\ hub \in [Hubs -> HubType] /\ fam \in [Families -> Contents] /\ LiveFamily \in Families
      /\ Live \in Contents /\ Empty \in Contents /\ faults \in Nat /\ seen \in 0 .. MaxHw
      /\ sup \in {"up", "repair", "fresh", "offline", "dead"} /\ (sup # "repair" => step = "none")
  BY Types, LiveFamilyType, Constants
<1>3. /\ faults' = faults + 1 /\ faults' \in 0 .. MaxFaults /\ faults' >= faults
  BY <1>1, FaultCounts DEF Fault
<1>4. Locked' /\ PortHolders' = PortHolders
  BY <1>1 DEF Locked, LeaseHolders, PortHolders
<1>5. live \subseteq {"db", "wal"} \X {LiveFamily} /\ live # {}
  BY <1>1, LiveIsOfFamily DEF FamilyNeverMixed, PlanStands
<1>6. Live.told \subseteq root.completed
  BY <1>2 DEF JournalKnown, Live
<1>7. Live.hw >= seen \/ Live.told # root.completed \/ Live.hw = 0
  BY <1>1 DEF JournalKnown
<1>8. PortHolders # {} => Live.hw >= 1
  BY DEF JournalKnown
<1>9. CASE Corrupt
  <2> DEFINE c == [Live EXCEPT !.ok = FALSE]
  <2>1. fam' = [fam EXCEPT ![LiveFamily] = c] /\ c \in Contents /\ c.hw = Live.hw /\ c.told = Live.told
    BY <1>2, <1>9 DEF Corrupt, Live, Contents
  <2>2. live' = live
    BY <1>9 DEF Corrupt
  <2> HIDE DEF c
  <2>3. QED BY <1>1, <1>2, <1>3, <1>4, <1>5, <1>6, <1>7, <1>8, <2>1, <2>2, JournalStepKeeps
<1>10. CASE LoseDb
  <2>1. fam' = [fam EXCEPT ![LiveFamily] = Live]
    BY <1>2, <1>10 DEF LoseDb, Live
  <2>2. live' \subseteq {"db", "wal"} \X {LiveFamily} /\ live' # {}
    BY <1>5, <1>10 DEF LoseDb
  <2>3. QED BY <1>1, <1>2, <1>3, <1>4, <1>6, <1>7, <1>8, <2>1, <2>2, JournalStepKeeps
<1>11. CASE PutBack
  <2>1. fam' = [fam EXCEPT ![LiveFamily] = Empty] /\ live' = live
    BY <1>11 DEF PutBack
  <2>2. PortHolders = {}
    BY <1>11 DEF PutBack, PortHolders, LeaseHolders
  <2>3. Empty.hw = 0 /\ Empty.told \subseteq root.completed
    BY DEF Empty
  <2>4. QED BY <1>1, <1>2, <1>3, <1>4, <1>5, <2>1, <2>2, <2>3, JournalStepKeeps
<1>12. QED BY <1>9, <1>10, <1>11

-----------------------------------------------------------------------------
(* The invariant, and the theorems.                                          *)

LEMMA InitHolds ==
  ASSUME Init
  PROVE  IInv
<1> USE DEF Init
<1>1. 1 \in Gens /\ 0 \in Families /\ MaxGen \in Nat \ {0} /\ MaxHw \in Nat \ {0} /\ MaxFaults \in Nat
      /\ Empty \in Contents /\ Idle \in PubType /\ NoPlan \in PlanType /\ NoTrans \in TransType
      /\ Gone \in HubType /\ [st |-> "boot", own |-> TRUE] \in HubType
  BY Constants DEF Gens, HubType
<1>2. [Empty EXCEPT !.hw = 1] \in Contents /\ [Empty EXCEPT !.hw = 1].hw = 1 /\ [Empty EXCEPT !.hw = 1].ok
      /\ [Empty EXCEPT !.hw = 1].told = {} /\ Empty.told = {} /\ Empty.hw = 0
  <2>1. Empty.told = {} /\ Empty.hw = 0 /\ Empty.ok
    BY DEF Empty
  <2>2. /\ [Empty EXCEPT !.hw = 1] \in Contents /\ [Empty EXCEPT !.hw = 1].hw = 1
        /\ [Empty EXCEPT !.hw = 1].ok = Empty.ok /\ [Empty EXCEPT !.hw = 1].told = Empty.told
    BY <1>1 DEF Contents
  <2>3. QED BY <2>1, <2>2
<1>3. LiveFamily = 0 /\ Live = [Empty EXCEPT !.hw = 1]
  BY <1>1 DEF LiveFamily, Live
<1>4. ~Damaged
  BY <1>2, <1>3 DEF Damaged
<1>5. PortHolders = {}
  BY DEF PortHolders, Gone
<1>6. TypeOK
  <2>1. root \in RootType
    BY <1>1 DEF RootType, Gens
  <2>2. /\ hub \in [Hubs -> HubType] /\ pub \in [Hubs -> PubType] /\ fam \in [Families -> Contents]
    BY <1>1, <1>2
  <2>3. gens \in [Gens -> GenType]
    BY <1>1, <1>2 DEF GenType
  <2>4. live \subseteq Files
    BY <1>1 DEF Files
  <2>5. seen \in 0 .. MaxHw /\ faults \in 0 .. MaxFaults /\ "none" \in Steps
    BY <1>1 DEF Steps
  <2>6. QED BY <1>1, <2>1, <2>2, <2>3, <2>4, <2>5, Types
<1>7. Locked
  BY DEF Locked
<1>8. FamilyNeverMixed
  BY DEF FamilyNeverMixed
<1>9. EvidenceSafe
  BY DEF EvidenceSafe, NoPlan
<1>10. PlanStands
  BY DEF PlanStands, NoPlan
<1>11. Counted
  <2>1. Cardinality(root.completed) = 0
    BY FS_EmptySet
  <2>2. Op = 1
    BY <2>1 DEF Op
  <2>3. ~Owed
    BY <1>4 DEF Owed
  <2>4. 1 .. Op - 1 = {} /\ Op - 1 <= faults
    BY <2>2
  <2>5. QED BY <2>3, <2>4 DEF Counted
<1>12. CopiesKnown
  <2>1. \A n \in Gens : gens[n].of.told \subseteq root.completed /\ (gens[n].st = "full" => gens[n].of.hw >= 1)
    BY <1>2
  <2>2. Idle.of.told = {} /\ Idle.at = "idle"
    BY DEF Idle
  <2>3. \A h \in Hubs : pub[h] = Idle
    OBVIOUS
  <2>4. QED BY <2>1, <2>2, <2>3 DEF CopiesKnown
<1>13. JournalKnown
  <2>1. \A f \in Families : fam[f].told = {}
    BY <1>2
  <2>2. Live.hw >= seen
    BY <1>2, <1>3
  <2>3. QED BY <1>5, <2>1, <2>2 DEF JournalKnown
<1>14. QED BY <1>6, <1>7, <1>8, <1>9, <1>10, <1>11, <1>12, <1>13 DEF IInv

LEMMA StandsStill ==
  ASSUME IInv, UNCHANGED vars
  PROVE  IInv'
<1> USE DEF IInv, vars
<1>1. TypeOK'
  BY Types, TypesNext
<1>2. Locked' /\ CopiesKnown' /\ PortHolders' \subseteq PortHolders
  BY DEF Locked, LeaseHolders, CopiesKnown, PortHolders
<1>3. faults' >= faults /\ root'.completed = root.completed
  BY FaultCounts
<1>4. QED BY <1>1, <1>2, <1>3, JournalKept

LEMMA StepKeeps ==
  ASSUME IInv, [Next]_vars
  PROVE  IInv'
<1>1. CASE UNCHANGED vars
  BY <1>1, StandsStill
<1>2. ASSUME NEW h \in Hubs,
             \/ Spawn(h) \/ Serve(h) \/ BindLost(h) \/ Refused(h) \/ Retire(h)
             \/ Write(h) \/ Prune(h) \/ Copy(h)
             \/ Reserve(h) \/ Publish(h) \/ CheckPublished(h) \/ Activate(h)
             \/ HubCrash(h) \/ PubDies(h) \/ OrphanExits(h)
      PROVE  IInv'
  BY <1>2, HubStepsKeep, ServeKeeps, WriteKeeps, PruneKeeps, CopyKeeps, BackupKeeps, PublishKeeps
<1>3. CASE Lock \/ ClearStaging \/ ClearUnfinished \/ Adopt \/ Classify \/ Conclude
  BY <1>3, ReconcileKeeps
<1>4. CASE Restore \/ PublishPlan \/ DropClassifier
  BY <1>4, StagingKeeps, PublishPlanKeeps
<1>5. CASE BeginQuarantine \/ EndQuarantine \/ \E x \in plan.family : Link(x) \/ Unlink(x)
  BY <1>5, PhasesKeep, LinksKeep
<1>6. CASE PublishDb \/ EndPublish \/ SwitchHead \/ BeginCleaning
  BY <1>6, PublishDbKeeps, PhasesKeep
<1>7. CASE UnlinkStaged \/ WriteReceipt \/ Complete \/ DropPlan \/ PlanFails
  BY <1>7, StagingKeeps, CompleteKeeps, DropPlanKeeps, SupervisorKeeps
<1>8. CASE SupDies \/ StartApp \/ Corrupt \/ LoseDb \/ PutBack \/ \E n \in Gens : Rot(n)
  BY <1>8, SupervisorKeeps, HarmKeeps, RotKeeps
<1>9. QED BY <1>1, <1>2, <1>3, <1>4, <1>5, <1>6, <1>7, <1>8 DEF Next

LEMMA Invariant == Spec => []IInv
<1>1. Init => IInv
  BY InitHolds
<1>2. IInv /\ [Next]_vars => IInv'
  BY StepKeeps
<1>3. QED BY <1>1, <1>2, PTL DEF Spec

\* Every variable keeps its type; with it the plan's number stays among those the faults
\* allow, though a completed recovery frees the way for the next one.
THEOREM TypeCorrect == Spec => []TypeOK
<1>1. IInv => TypeOK
  BY DEF IInv
<1>2. QED BY <1>1, Invariant, PTL

\* What runPlan() captures of the broken journal is at every moment at the journal's path or
\* in quarantine, wherever processes die between link, unlink and manifest.
THEOREM EvidenceKeptCorrect == Spec => []EvidenceKept
<1>1. IInv => EvidenceKept
  BY DEF IInv, EvidenceSafe, EvidenceKept
<1>2. QED BY <1>1, Invariant, PTL

\* A restored database never meets the log of the one it replaced, and no hub serves or
\* drains while a recovery plan is in force.
THEOREM FamilyNeverMixedCorrect == Spec => []FamilyNeverMixed
<1>1. IInv => FamilyNeverMixed
  BY DEF IInv
<1>2. QED BY <1>1, Invariant, PTL

\* Only Serve makes a booting hub a serving one.
LEMMA OnlyServes ==
  ASSUME IInv, Next, NEW h \in Hubs, hub[h].st = "boot", hub'[h].st = "serve"
  PROVE  Serve(h)
<1>1. hub \in [Hubs -> HubType]
  BY Types DEF IInv
<1>2. ASSUME UNCHANGED hub PROVE FALSE
  BY <1>2
<1>3. ASSUME NEW g \in Hubs,
             Spawn(g) \/ BindLost(g) \/ Refused(g) \/ Retire(g) \/ HubCrash(g) \/ OrphanExits(g)
      PROVE  FALSE
  <2>1. Gone.st = "none"
    BY DEF Gone
  <2>2. hub'[h] = hub[h] \/ hub'[h] = Gone \/ hub'[h] = [st |-> "boot", own |-> TRUE]
    BY <1>1, <1>3 DEF Spawn, BindLost, Refused, Retire, HubCrash, OrphanExits, Die
  <2>3. QED BY <2>1, <2>2
<1>4. ASSUME NEW g \in Hubs, Serve(g) PROVE g = h
  BY <1>4 DEF Serve
<1>5. ASSUME NEW g \in Hubs,
             \/ Write(g) \/ Prune(g) \/ Copy(g) \/ PubDies(g)
             \/ Reserve(g) \/ Publish(g) \/ CheckPublished(g) \/ Activate(g)
      PROVE  FALSE
  BY <1>2, <1>5 DEF Write, Prune, Copy, PubDies, Reserve, Publish, CheckPublished, Activate
<1>6. CASE SupDies \/ StartApp
  <2>1. hub'[h].st = hub[h].st
    BY <1>1, <1>6 DEF SupDies, StartApp, HubType
  <2>2. QED BY <2>1
<1>7. CASE Lock \/ ClearStaging \/ ClearUnfinished \/ Adopt \/ Classify \/ Conclude
           \/ Restore \/ PublishPlan \/ DropClassifier
  BY <1>2, <1>7 DEF Lock, ClearStaging, ClearUnfinished, Adopt, Classify, Conclude, Restore,
     PublishPlan, DropClassifier
<1>8. CASE BeginQuarantine \/ EndQuarantine \/ (\E x \in plan.family : Link(x) \/ Unlink(x))
           \/ PublishDb \/ EndPublish \/ SwitchHead \/ BeginCleaning
  BY <1>2, <1>8 DEF BeginQuarantine, EndQuarantine, Link, Unlink, PublishDb, EndPublish, SwitchHead,
     BeginCleaning
<1>9. CASE UnlinkStaged \/ WriteReceipt \/ Complete \/ DropPlan \/ PlanFails
  BY <1>2, <1>9 DEF UnlinkStaged, WriteReceipt, Complete, DropPlan, PlanFails
<1>10. CASE Corrupt \/ LoseDb \/ PutBack \/ \E n \in Gens : Rot(n)
  BY <1>2, <1>10 DEF Corrupt, LoseDb, PutBack, Rot, NoTouch
<1>11. QED BY <1>3, <1>4, <1>5, <1>6, <1>7, <1>8, <1>9, <1>10 DEF Next

\* A hub that begins to serve knows every event the last one had, or journals in doing so
\* the notice of a recovery: a backup put in place never silently becomes the history.
THEOREM NoSilentRegressCorrect == Spec => NoSilentRegress
<1>1. IInv /\ [Next]_vars =>
        [\A h \in Hubs : hub[h].st = "boot" /\ hub'[h].st = "serve" =>
           Live.hw >= seen \/ fam'[LiveFamily].told # Live.told]_vars
  <2>1. SUFFICES ASSUME IInv, Next, NEW h \in Hubs, hub[h].st = "boot", hub'[h].st = "serve"
                 PROVE  Live.hw >= seen \/ fam'[LiveFamily].told # Live.told
    OBVIOUS
  <2>2. Serve(h)
    BY <2>1, OnlyServes
  <2>3. QED BY <2>1, <2>2, ServeKeeps
<1>2. QED BY <1>1, Invariant, PTL DEF Spec, NoSilentRegress

=============================================================================
