--------------------------- MODULE JournalRecovery ---------------------------
(* Backup and recovery of the journal database: hubs hold a shared lease on    *)
(* the data root and check it before they open it (index.ts); a child process  *)
(* of the live hub publishes verified generations (journalBackup.ts); when a   *)
(* boot is refused the supervisor kills its hubs, takes the lease exclusively, *)
(* classifies the database and, when it is damaged, replaces it by the newest  *)
(* verifiable generation under a durable plan (hubctl.ts, journalRecovery.ts). *)
(* Processes die between any two durable steps.                                *)
(*                                                                             *)
(* A family is the database and its write-ahead log. Family 0 is the original, *)
(* family p the one plan p puts in its place. Contents are event high-water    *)
(* marks; head.json, derived from the root binding, is left out.               *)
EXTENDS Naturals, FiniteSets, FiniteSetsExt

CONSTANTS
  Hubs,       \* processes; a name is used again once its process is gone
  MaxGen,     \* backup generations
  MaxHw,      \* events
  Keep,       \* generations retention keeps, if their size allows
  MaxFaults,  \* crashes and damages in one behaviour; also bounds the plans
  Env         \* troubles let in beside those: "pruneActive", "latePublisher"

ASSUME RecoveryAssumption ==
  /\ MaxGen \in Nat \ {0} /\ MaxHw \in Nat \ {0} /\ Keep \in Nat \ {0} /\ MaxFaults \in Nat
  /\ IsFiniteSet(Hubs)

VARIABLES
  sup,       \* the supervisor
  step,      \* where the recovery worker is, while sup = "repair"
  hub,       \* per name: its process, and whether this supervisor started it
  pub,       \* the backup child of each hub
  live,      \* files at the journal's path: <<member, family>>
  fam,       \* contents of each family
  gens,      \* recovery/generations
  root,      \* the root binding: ordinals, rollback in force, completed recoveries
  plan,      \* the active plan, or NoPlan
  staging,   \* recovery/staging: <<kind, number>>
  quar,      \* quarantined files
  evidence,  \* files named by the evidence manifests
  receipts,  \* plans with a receipt
  seen,      \* the high-water mark when a hub last served
  faults

vars == <<sup, step, hub, pub, live, fam, gens, root, plan, staging, quar, evidence,
          receipts, seen, faults>>
disk == <<live, fam, gens, root, plan, staging, quar, evidence, receipts>>

Gens == 1 .. MaxGen
Plans == 1 .. MaxFaults
Families == {0} \cup Plans
Files == {"db", "wal"} \X Families
Contents == [hw : 0 .. MaxHw, ok : BOOLEAN, told : SUBSET Plans]
Ops == 1 .. MaxFaults + 1
Staged == ({"gen"} \X Gens) \cup ({"classifier", "restore"} \X Ops)

NoTrans == [prev |-> 0, restored |-> 0, plan |-> 0, receipt |-> FALSE]
NoPlan == [id |-> 0, gen |-> 0, prior |-> 0, family |-> {}, phase |-> "none"]
Gone == [st |-> "none", own |-> FALSE]
Idle == [at |-> "idle", gen |-> 0, of |-> [hw |-> 0, ok |-> TRUE, told |-> {}]]

TypeOK ==
  /\ sup \in {"up", "repair", "fresh", "offline", "dead"}
  /\ step \in {"none", "lock", "reconcile", "classified", "planned", "run", "done"}
  /\ hub \in [Hubs -> [st : {"none", "boot", "serve", "drain"}, own : BOOLEAN]]
  /\ pub \in [Hubs -> [at : {"idle", "copied", "staged", "dir", "full", "checked"},
                       gen : {0} \cup Gens, of : Contents]]
  /\ live \subseteq Files /\ quar \subseteq Files /\ evidence \subseteq Files
  /\ fam \in [Families -> Contents]
  /\ gens \in [Gens -> [st : {"none", "dir", "full"}, of : Contents]]
  /\ root \in [next : 1 .. MaxGen + 1, active : Gens, completed : SUBSET Plans,
               trans : [prev : {0} \cup Gens, restored : {0} \cup Gens,
                        plan : {0} \cup Plans, receipt : BOOLEAN]]
  /\ plan \in [id : {0} \cup Plans, gen : {0} \cup Gens, prior : {0} \cup Gens, family : SUBSET Files,
               phase : {"none", "prepared", "quarantining", "publishing", "verifying", "cleaning"}]
  /\ staging \subseteq Staged
  /\ receipts \subseteq Plans
  /\ seen \in 0 .. MaxHw /\ faults \in 0 .. MaxFaults
  /\ sup # "repair" => step = "none"

Empty == [hw |-> 0, ok |-> TRUE, told |-> {}]
First == CHOOSE h \in Hubs : TRUE

\* An enrolled root whose first generation is published and active.
Init ==
  /\ sup = "up" /\ step = "none"
  /\ hub = [h \in Hubs |-> IF h = First THEN [st |-> "boot", own |-> TRUE] ELSE Gone]
  /\ pub = [h \in Hubs |-> Idle]
  /\ live = {<<"db", 0>>}
  /\ fam = [f \in Families |-> IF f = 0 THEN [Empty EXCEPT !.hw = 1] ELSE Empty]
  /\ gens = [n \in Gens |-> IF n = 1 THEN [st |-> "full", of |-> [Empty EXCEPT !.hw = 1]]
                            ELSE [st |-> "none", of |-> Empty]]
  /\ root = [next |-> 2, active |-> 1, completed |-> {}, trans |-> NoTrans]
  /\ plan = NoPlan /\ staging = {} /\ quar = {} /\ evidence = {} /\ receipts = {}
  /\ seen = 1 /\ faults = 0

-----------------------------------------------------------------------------
(* What the disk says.                                                         *)

\* A manifest and a marker that agree are lineage authority, readable snapshot or not ...
Published == {n \in Gens : gens[n].st = "full"}
Highest == Max(Published)
\* ... but only a snapshot that passes inspection may be restored.
Verifies(n) == n \in Published /\ gens[n].of.ok

LiveFamily == IF live = {} THEN 0 ELSE (CHOOSE x \in live : TRUE)[2]
Live == fam[LiveFamily]
\* What makes recovery eligible: an unreadable database, or a log without one.
Damaged == live # {} /\ (<<"db", LiveFamily>> \notin live \/ ~Live.ok)

\* Generations above the active one that never got as far as a verifiable publication.
Unfinished == {n \in Gens : /\ gens[n].st # "none" /\ n > root.active
                            /\ n # root.trans.prev /\ ~Verifies(n)}
TransitionProved == /\ root.trans.restored = root.active /\ root.trans.receipt
                    /\ root.trans.plan \in receipts
\* A verified generation newer than the active one, whose activation was cut short.
Adoptable == IF /\ root.active \in Published /\ root.active < Highest
                /\ \/ root.trans = NoTrans
                   \/ TransitionProved /\ Highest > root.trans.prev
             THEN {Highest} ELSE {}
\* The active generation is the newest, or a completed recovery put it below the newest.
HeadControls == /\ root.active \in Published
                /\ \/ root.active = Highest
                   \/ TransitionProved /\ root.trans.prev = Highest
\* The live journal not held against the active generation.
LineageUnchecked == root.active \in Published

LineageHolds == Live.hw >= gens[root.active].of.hw
ReceiptsHold == receipts = root.completed

BootRefused ==
  \/ plan # NoPlan \/ staging # {}
  \/ live = {} \/ Damaged
  \/ Unfinished # {} \/ Adoptable # {} \/ ~HeadControls
  \/ ~LineageHolds \/ ~ReceiptsHold

\* A hub still checking the journal counted as no holder of the lease.
LeaseHoldersServing == {h \in Hubs : hub[h].st \in {"serve", "drain"}}

\* The shared lease: every hub process holds it from its first step to its end.
LeaseHolders == {h \in Hubs : hub[h].st # "none"}
Own(h) == hub[h].st # "none" /\ hub[h].own
PortHolders == {h \in Hubs : hub[h].st \in {"serve", "drain"}}

-----------------------------------------------------------------------------
(* Hubs.                                                                       *)

Die(h) == /\ hub' = [hub EXCEPT ![h] = Gone]
          /\ pub' = [pub EXCEPT ![h] = Idle]

\* boot(), reviveLiveHub() and restart(): a first hub, or a second beside the live one. The
\* child asks for the shared lease, which the recovery worker does not hold when hubs start.
Spawn(h) ==
  /\ sup \in {"up", "fresh"}
  /\ hub[h].st = "none" /\ pub[h] = Idle
  /\ \A g \in Hubs : Own(g) => sup = "up" /\ hub[g].st = "serve"
  /\ hub' = [hub EXCEPT ![h] = [st |-> "boot", own |-> TRUE]]
  /\ UNCHANGED <<sup, step, pub, disk, seen, faults>>

\* Preflight, lineage and receipts found good: the journal is opened, every completed
\* recovery not yet noted in it is noted, and the hub serves. The one it replaces has paused
\* its backup, and drains.
Serve(h) ==
  /\ hub[h].st = "boot" /\ ~BootRefused
  /\ \A g \in PortHolders : Own(h) /\ Own(g) /\ pub[g] = Idle
  /\ hub' = [g \in Hubs |-> IF g = h THEN [hub[h] EXCEPT !.st = "serve"]
                            ELSE IF hub[g].st = "serve" THEN [hub[g] EXCEPT !.st = "drain"]
                            ELSE hub[g]]
  /\ fam' = [fam EXCEPT ![LiveFamily].told = root.completed]
  /\ seen' = Live.hw
  /\ sup' = IF sup = "fresh" THEN "up" ELSE sup
  /\ UNCHANGED <<step, pub, live, gens, root, plan, staging, quar, evidence, receipts, faults>>

\* The port belongs to a hub of a supervisor that died: bind fails, an ordinary failure.
BindLost(h) ==
  /\ hub[h].st = "boot" /\ ~BootRefused
  /\ \E g \in PortHolders : ~Own(g)
  /\ hub[h].own
  /\ hub' = [hub EXCEPT ![h] = Gone]
  /\ sup' = IF sup = "fresh" THEN "offline" ELSE sup
  /\ UNCHANGED <<step, pub, disk, seen, faults>>

\* enterRecoveryPoison(): a refusal of a hub of this supervisor ends all its hubs, with their
\* children, and starts one recovery; a refusal of the hub started by one ends it offline.
Refused(h) ==
  /\ hub[h].st = "boot" /\ BootRefused
  /\ IF ~hub[h].own THEN Die(h) /\ UNCHANGED <<sup, step>>
     ELSE /\ hub' = [g \in Hubs |-> IF Own(g) THEN Gone ELSE hub[g]]
          /\ pub' = [g \in Hubs |-> IF Own(g) THEN Idle ELSE pub[g]]
          /\ sup' = IF sup = "fresh" THEN "offline" ELSE "repair"
          /\ step' = IF sup = "fresh" THEN "none" ELSE "lock"
  /\ UNCHANGED <<disk, seen, faults>>

\* The drained hub leaves.
Retire(h) ==
  /\ hub[h].st = "drain"
  /\ Die(h)
  /\ UNCHANGED <<sup, step, disk, seen, faults>>

\* A hub journals an event: it goes to the log.
Write(h) ==
  /\ hub[h].st \in {"serve", "drain"} /\ Live.hw < MaxHw
  /\ fam' = [fam EXCEPT ![LiveFamily].hw = @ + 1]
  /\ live' = live \cup {<<"wal", LiveFamily>>}
  /\ seen' = Live.hw + 1
  /\ UNCHANGED <<sup, step, hub, pub, gens, root, plan, staging, quar, evidence, receipts, faults>>

\* Retention: the newest k stay, where the count and the byte limit allow k.
Retained(k) == {n \in Published : Cardinality({m \in Published : m > n}) < k}
Keeping(k) == [n \in Gens |-> IF n \in Published \ Retained(k)
                              THEN [st |-> "none", of |-> Empty] ELSE gens[n]]

\* Post-ready maintenance, never while this hub's backup runs.
Prune(h) ==
  /\ hub[h].st = "serve" /\ pub[h] = Idle
  /\ \E k \in 1 .. Keep :
       /\ Retained(k) # Published
       /\ "pruneActive" \in Env \/ root.active \in Retained(k)
       /\ gens' = Keeping(k)
  /\ UNCHANGED <<sup, step, hub, pub, live, fam, root, plan, staging, quar, evidence, receipts, seen, faults>>

-----------------------------------------------------------------------------
(* The backup child: snapshotJournal() and publishRecoveryGeneration().        *)

At(h, a) == pub[h].at = a
Goes(h, a) == pub' = [pub EXCEPT ![h].at = a]
Stops(h) == pub' = [pub EXCEPT ![h] = Idle]
Debris(h) == <<"gen", pub[h].gen>>

\* A consistent copy of the journal; one that fails verification goes no further.
Copy(h) ==
  /\ hub[h].st = "serve" /\ At(h, "idle") /\ root.next <= MaxGen
  /\ Live.ok
  /\ pub' = [pub EXCEPT ![h] = [at |-> "copied", gen |-> 0, of |-> Live]]
  /\ UNCHANGED <<sup, step, hub, disk, seen, faults>>

\* The snapshot may not be behind the controlling head; an ordinal is reserved in the root
\* binding before any file carries it.
Reserve(h) ==
  /\ At(h, "copied")
  /\ IF HeadControls /\ pub[h].of.hw >= gens[root.active].of.hw /\ root.next <= MaxGen
     THEN /\ root' = [root EXCEPT !.next = @ + 1]
          /\ staging' = staging \cup {<<"gen", root.next>>}
          /\ pub' = [pub EXCEPT ![h].at = "staged", ![h].gen = root.next]
     ELSE Stops(h) /\ UNCHANGED <<root, staging>>
  /\ UNCHANGED <<sup, step, hub, live, fam, gens, plan, quar, evidence, receipts, seen, faults>>

\* mkdir of the final directory, then the snapshot, the manifest and the marker move there,
\* the marker last; a staging directory that is gone fails the publication.
Publish(h) ==
  /\ pub[h].at \in {"staged", "dir"}
  /\ IF At(h, "staged") \/ (Debris(h) \in staging /\ gens[pub[h].gen].st = "dir")
     THEN /\ Goes(h, IF At(h, "staged") THEN "dir" ELSE "full")
          /\ gens' = [gens EXCEPT ![pub[h].gen] =
                        IF At(h, "staged") THEN [st |-> "dir", of |-> Empty]
                        ELSE [st |-> "full", of |-> pub[h].of]]
          /\ UNCHANGED staging
     ELSE /\ Stops(h) /\ staging' = staging \ {Debris(h)} /\ UNCHANGED gens
  /\ UNCHANGED <<sup, step, hub, live, fam, root, plan, quar, evidence, receipts, seen, faults>>

\* The emptied staging directory is removed and the generation verified where it now is.
CheckPublished(h) ==
  /\ At(h, "full")
  /\ staging' = staging \ {Debris(h)}
  /\ IF Verifies(pub[h].gen) /\ Debris(h) \in staging THEN Goes(h, "checked") ELSE Stops(h)
  /\ UNCHANGED <<sup, step, hub, live, fam, gens, root, plan, quar, evidence, receipts, seen, faults>>

Activate(h) ==
  /\ At(h, "checked")
  /\ root' = [root EXCEPT !.active = pub[h].gen, !.trans = NoTrans]
  /\ gens' = Keeping(Keep)
  /\ Stops(h)
  /\ UNCHANGED <<sup, step, hub, live, fam, plan, staging, quar, evidence, receipts, seen, faults>>

-----------------------------------------------------------------------------
(* The recovery worker: bootstrapJournalRecovery().                            *)

Working(s) == sup = "repair" /\ step = s
\* The worker's place left behind by an attempt given up.
GiveUpHalf == sup' = "offline" /\ UNCHANGED step

GiveUp == sup' = "offline" /\ step' = "none"

\* The port must come free and no hub may hold the lease. A plan found is resumed.
Lock ==
  /\ Working("lock")
  /\ IF PortHolders # {} \/ LeaseHolders # {} THEN GiveUp
     ELSE step' = (IF plan # NoPlan THEN "run" ELSE "reconcile") /\ UNCHANGED sup
  /\ UNCHANGED <<hub, pub, disk, seen, faults>>

\* With no plan, whatever lies in staging is an unpublished copy.
ClearStaging ==
  /\ Working("reconcile") /\ staging # {}
  /\ \E s \in staging : staging' = staging \ {s}
  /\ UNCHANGED <<sup, step, hub, pub, live, fam, gens, root, plan, quar, evidence, receipts, seen, faults>>

ClearUnfinished ==
  /\ Working("reconcile") /\ staging = {}
  /\ \E n \in Unfinished : gens' = [gens EXCEPT ![n] = [st |-> "none", of |-> Empty]]
  /\ UNCHANGED <<sup, step, hub, pub, live, fam, root, plan, staging, quar, evidence, receipts, seen, faults>>

Adopt ==
  /\ Working("reconcile") /\ staging = {} /\ Unfinished = {}
  /\ \E n \in Adoptable : root' = [root EXCEPT !.active = n, !.trans = NoTrans]
  /\ UNCHANGED <<sup, step, hub, pub, live, fam, gens, plan, staging, quar, evidence, receipts, seen, faults>>

\* The family is copied aside and the copy classified under the identifier of the operation.
Op == 1 + Cardinality(root.completed)
Classify ==
  /\ Working("reconcile") /\ staging = {} /\ Unfinished = {} /\ Adoptable = {}
  /\ IF HeadControls
     THEN step' = "classified" /\ staging' = {<<"classifier", Op>>} /\ UNCHANGED sup
     ELSE GiveUp /\ UNCHANGED staging
  /\ UNCHANGED <<hub, pub, live, fam, gens, root, plan, quar, evidence, receipts, seen, faults>>

\* Nothing to recover: the copy goes; sound, one fresh boot; otherwise offline.
Conclude ==
  /\ Working("classified")
  /\ Damaged => \A n \in Gens : ~Verifies(n)
  /\ staging' = {}
  /\ IF ~Damaged /\ LineageHolds THEN sup' = "fresh" /\ step' = "none" ELSE GiveUp
  /\ UNCHANGED <<hub, pub, live, fam, gens, root, plan, quar, evidence, receipts, seen, faults>>

\* The newest generation that verifies is copied to staging ...
Restore ==
  /\ Working("classified") /\ Damaged /\ \E n \in Gens : Verifies(n)
  /\ <<"restore", Op>> \notin staging
  /\ staging' = staging \cup {<<"restore", Op>>}
  /\ UNCHANGED <<sup, step, hub, pub, live, fam, gens, root, plan, quar, evidence, receipts, seen, faults>>

\* ... and the plan is published, naming the captured family and the head it replaces.
Captured == live
PublishPlan ==
  /\ Working("classified") /\ Damaged /\ \E n \in Gens : Verifies(n)
  /\ <<"restore", Op>> \in staging
  /\ plan' = [id |-> Op, gen |-> Max({n \in Gens : Verifies(n)}), prior |-> root.active,
              family |-> Captured, phase |-> "prepared"]
  /\ step' = "planned"
  /\ UNCHANGED <<sup, hub, pub, live, fam, gens, root, staging, quar, evidence, receipts, seen, faults>>

\* The classifier's copy goes: before its plan runs, or after a plan found on disk has run.
DropClassifier ==
  /\ sup = "repair" /\ step \in {"planned", "done"}
  /\ staging' = {s \in staging : s[1] # "classifier"}
  /\ IF step = "planned" THEN step' = "run" /\ UNCHANGED sup ELSE sup' = "fresh" /\ step' = "none"
  /\ UNCHANGED <<hub, pub, live, fam, gens, root, plan, quar, evidence, receipts, seen, faults>>

-----------------------------------------------------------------------------
(* runPlan(): each step looks at the disk, so that a plan cut short anywhere   *)
(* is taken up where it stands.                                                *)

Running(ph) == Working("run") /\ plan.phase = ph /\ Verifies(plan.gen)
Restored == <<"restore", plan.id>>
NewDb == <<"db", plan.id>>
Phase(ph) == plan' = [plan EXCEPT !.phase = ph]

\* Nothing is touched while the family differs from the one classified.
BeginQuarantine ==
  /\ Running("prepared") /\ live = plan.family
  /\ Phase("quarantining")
  /\ UNCHANGED <<sup, step, hub, pub, live, fam, gens, root, staging, quar, evidence, receipts, seen, faults>>

\* quarantineOne(), the database before its log: a second link, then the first one goes.
Turn(x) == \/ x[1] = "db"
           \/ \A y \in plan.family : y[1] = "db" => y \notin live
Link(x) ==
  /\ Running("quarantining") /\ x \in plan.family /\ Turn(x)
  /\ x \in live \ quar
  /\ quar' = quar \cup {x}
  /\ UNCHANGED <<sup, step, hub, pub, live, fam, gens, root, plan, staging, evidence, receipts, seen, faults>>

\* The first link gone before the second is made.
UnlinkFirst(x) ==
  /\ Running("quarantining") /\ x \in plan.family /\ Turn(x)
  /\ x \in live
  /\ live' = live \ {x}
  /\ UNCHANGED <<sup, step, hub, pub, fam, gens, root, plan, staging, quar, evidence, receipts, seen, faults>>

Unlink(x) ==
  /\ Running("quarantining") /\ x \in plan.family /\ Turn(x)
  /\ x \in live \cap quar
  /\ live' = live \ {x}
  /\ UNCHANGED <<sup, step, hub, pub, fam, gens, root, plan, staging, quar, evidence, receipts, seen, faults>>

\* No member may be left or have come back; the manifest of the evidence is written.
EndQuarantine ==
  /\ Running("quarantining")
  /\ live = {} /\ plan.family \subseteq quar
  /\ evidence' = evidence \cup plan.family
  /\ Phase("publishing")
  /\ UNCHANGED <<sup, step, hub, pub, live, fam, gens, root, staging, quar, receipts, seen, faults>>

\* The staged copy is linked to the journal's path.
PublishDb ==
  /\ Running("publishing") /\ live = {} /\ Restored \in staging
  /\ live' = {NewDb}
  /\ fam' = [fam EXCEPT ![plan.id] = gens[plan.gen].of]
  /\ UNCHANGED <<sup, step, hub, pub, gens, root, plan, staging, quar, evidence, receipts, seen, faults>>

InPlace == live = {NewDb} /\ ~Damaged /\ Live.hw = gens[plan.gen].of.hw /\ plan.family \subseteq quar
EndPublish ==
  /\ Running("publishing") /\ live = {NewDb}
  /\ Phase("verifying")
  /\ UNCHANGED <<sup, step, hub, pub, live, fam, gens, root, staging, quar, evidence, receipts, seen, faults>>

\* The restored generation becomes the active one; when that is a step back, the root binding
\* says which generation it was taken from.
SwitchHead ==
  /\ Running("verifying") /\ InPlace /\ root.active # plan.gen
  /\ root' = [root EXCEPT !.active = plan.gen,
                !.trans = IF plan.gen >= plan.prior THEN NoTrans
                          ELSE [prev |-> plan.prior, restored |-> plan.gen,
                                plan |-> plan.id, receipt |-> FALSE]]
  /\ UNCHANGED <<sup, step, hub, pub, live, fam, gens, plan, staging, quar, evidence, receipts, seen, faults>>

BeginCleaning ==
  /\ Running("verifying") /\ InPlace /\ root.active = plan.gen
  /\ Phase("cleaning")
  /\ UNCHANGED <<sup, step, hub, pub, live, fam, gens, root, staging, quar, evidence, receipts, seen, faults>>

UnlinkStaged ==
  /\ Running("cleaning") /\ InPlace /\ Restored \in staging
  /\ staging' = staging \ {Restored}
  /\ UNCHANGED <<sup, step, hub, pub, live, fam, gens, root, plan, quar, evidence, receipts, seen, faults>>

WriteReceipt ==
  /\ Running("cleaning") /\ InPlace /\ Restored \notin staging /\ plan.id \notin receipts
  /\ receipts' = receipts \cup {plan.id}
  /\ UNCHANGED <<sup, step, hub, pub, live, fam, gens, root, plan, staging, quar, evidence, seen, faults>>

\* The rollback in force left without its receipt.
CompleteWithout ==
  /\ Running("cleaning") /\ InPlace /\ plan.id \in receipts \ root.completed
  /\ root' = [root EXCEPT !.completed = @ \cup {plan.id}]
  /\ UNCHANGED <<sup, step, hub, pub, live, fam, gens, plan, staging, quar, evidence, receipts, seen, faults>>

\* completeRecoveryTransition(): the root binding takes the receipt's digest.
Complete ==
  /\ Running("cleaning") /\ InPlace /\ plan.id \in receipts \ root.completed
  /\ root' = [root EXCEPT !.completed = @ \cup {plan.id},
                !.trans.receipt = IF root.trans.plan = plan.id THEN TRUE ELSE @]
  /\ UNCHANGED <<sup, step, hub, pub, live, fam, gens, plan, staging, quar, evidence, receipts, seen, faults>>

DropPlan ==
  /\ Running("cleaning") /\ plan.id \in receipts \cap root.completed
  /\ plan' = NoPlan /\ step' = "done"
  /\ UNCHANGED <<sup, hub, pub, live, fam, gens, root, staging, quar, evidence, receipts, seen, faults>>

\* A check of the plan against the disk fails: the plan stays, the root stays offline.
PlanFails ==
  /\ Working("run")
  /\ \/ ~Verifies(plan.gen)
     \/ plan.phase = "prepared" /\ live # plan.family
     \/ plan.phase = "quarantining" /\ ~(live \subseteq plan.family /\ plan.family \subseteq live \cup quar)
     \/ plan.phase = "publishing" /\ live # {NewDb} /\ (live # {} \/ Restored \notin staging)
     \/ plan.phase \in {"verifying", "cleaning"} /\ ~InPlace
  /\ GiveUp
  /\ UNCHANGED <<hub, pub, disk, seen, faults>>

-----------------------------------------------------------------------------
(* Crashes, damage, and the user.                                              *)

Fault == faults < MaxFaults /\ faults' = faults + 1
NoTouch == UNCHANGED <<sup, step, hub, pub, seen>>
\* The files a plan is made for come to no harm meanwhile.
Spared == plan = NoPlan /\ step # "classified"

\* A hub exits and its exit handler kills its backup child, or is killed and the child lives on.
HubCrash(h) ==
  /\ Fault /\ hub[h].st # "none"
  /\ hub' = [hub EXCEPT ![h] = Gone]
  /\ \/ pub' = [pub EXCEPT ![h] = Idle]
     \/ "latePublisher" \in Env /\ UNCHANGED pub
  /\ sup' = IF sup = "fresh" /\ hub[h].own THEN "offline" ELSE sup
  /\ UNCHANGED <<step, disk, seen>>

\* The backup child is killed between two steps, or one of them fails.
PubDies(h) == Fault /\ ~At(h, "idle") /\ Stops(h) /\ UNCHANGED <<sup, step, hub, disk, seen>>

\* The supervisor dies, a recovery under way with it; its hubs live on for a while.
SupDies ==
  /\ Fault /\ sup # "dead"
  /\ sup' = "dead" /\ step' = "none"
  /\ hub' = [h \in Hubs |-> [hub[h] EXCEPT !.own = FALSE]]
  /\ UNCHANGED <<pub, disk, seen>>

OrphanExits(h) ==
  /\ hub[h].st # "none" /\ ~hub[h].own
  /\ Die(h)
  /\ UNCHANGED <<sup, step, disk, seen, faults>>

\* The user starts the app, or restarts the one that stays offline.
StartApp ==
  /\ sup \in {"dead", "offline"}
  /\ sup' = "up"
  /\ hub' = [h \in Hubs |-> [hub[h] EXCEPT !.own = FALSE]]
  /\ UNCHANGED <<step, pub, disk, seen, faults>>

Corrupt ==
  /\ Fault /\ Spared /\ ~Damaged
  /\ fam' = [fam EXCEPT ![LiveFamily].ok = FALSE]
  /\ NoTouch /\ UNCHANGED <<live, gens, root, plan, staging, quar, evidence, receipts>>

\* The database file is lost from under its log.
LoseDb ==
  /\ Fault /\ Spared /\ LeaseHolders = {} /\ <<"wal", LiveFamily>> \in live /\ <<"db", LiveFamily>> \in live
  /\ live' = live \ {<<"db", LiveFamily>>}
  /\ NoTouch /\ UNCHANGED <<fam, gens, root, plan, staging, quar, evidence, receipts>>

\* Someone puts an old copy of the database back.
PutBack ==
  /\ Fault /\ Spared /\ LeaseHolders = {} /\ LineageHolds /\ ~Damaged /\ sup # "repair"
  /\ fam' = [fam EXCEPT ![LiveFamily] = Empty]
  /\ NoTouch /\ UNCHANGED <<live, gens, root, plan, staging, quar, evidence, receipts>>

\* A snapshot becomes unreadable; its manifest and marker still agree.
Rot(n) ==
  /\ Fault /\ Verifies(n)
  /\ gens' = [gens EXCEPT ![n].of.ok = FALSE]
  /\ NoTouch /\ UNCHANGED <<live, fam, root, plan, staging, quar, evidence, receipts>>

-----------------------------------------------------------------------------
Backup(h) == Reserve(h) \/ Publish(h) \/ CheckPublished(h) \/ Activate(h)
Reconcile == Lock \/ ClearStaging \/ ClearUnfinished \/ Adopt \/ Classify \/ Conclude
Prepare == Restore \/ PublishPlan \/ DropClassifier
Quarantine == BeginQuarantine \/ EndQuarantine \/ \E x \in plan.family : Link(x) \/ Unlink(x)
Install == PublishDb \/ EndPublish \/ SwitchHead \/ BeginCleaning
Settle == UnlinkStaged \/ WriteReceipt \/ Complete \/ DropPlan \/ PlanFails
Repair == Reconcile \/ Prepare \/ Quarantine \/ Install \/ Settle

Next ==
  \/ \E h \in Hubs :
       \/ Spawn(h) \/ Serve(h) \/ BindLost(h) \/ Refused(h) \/ Retire(h)
       \/ Write(h) \/ Prune(h) \/ Copy(h)
       \/ Reserve(h) \/ Publish(h) \/ CheckPublished(h) \/ Activate(h)
       \/ HubCrash(h) \/ PubDies(h) \/ OrphanExits(h)
  \/ Lock \/ ClearStaging \/ ClearUnfinished \/ Adopt \/ Classify \/ Conclude
  \/ Restore \/ PublishPlan \/ DropClassifier
  \/ BeginQuarantine \/ EndQuarantine \/ \E x \in plan.family : Link(x) \/ Unlink(x)
  \/ PublishDb \/ EndPublish \/ SwitchHead \/ BeginCleaning
  \/ UnlinkStaged \/ WriteReceipt \/ Complete \/ DropPlan \/ PlanFails
  \/ SupDies \/ StartApp \/ Corrupt \/ LoseDb \/ PutBack \/ \E n \in Gens : Rot(n)

Spec == Init /\ [][Next]_vars

\* Started processes run, the recovery worker runs, hubs without a supervisor end, and the
\* user starts the app again. Not fair: events, backups, pruning, flips, and what goes wrong.
SpawnFirst == (\A g \in Hubs : ~Own(g)) /\ \E h \in Hubs : Spawn(h)
FairSpec ==
  /\ Spec
  /\ \A h \in Hubs : WF_vars(Serve(h) \/ BindLost(h) \/ Refused(h)) /\ WF_vars(Backup(h))
                     /\ WF_vars(Retire(h)) /\ WF_vars(OrphanExits(h))
  /\ WF_vars(SpawnFirst) /\ WF_vars(Repair) /\ WF_vars(StartApp)

-----------------------------------------------------------------------------
(* Properties.                                                                 *)

\* What was captured as evidence is at every moment at the journal's path or in quarantine,
\* through crashes between link, unlink and manifest, and for ever after.
EvidenceKept == plan.family \cup evidence \subseteq live \cup quar

\* The files at the journal's path belong to one family: a restored database never meets the
\* log of the one it replaced, from a quarantine cut short or from a hub still writing.
FamilyNeverMixed ==
  /\ \A x, y \in live : x[2] = y[2]
  /\ plan # NoPlan => PortHolders = {}

\* A hub that begins to serve knows at least what the last one served, or journals the notice
\* of a recovery in doing so.
NoSilentRegress ==
  [][\A h \in Hubs : hub[h].st = "boot" /\ hub'[h].st = "serve" =>
       Live.hw >= seen \/ fam'[LiveFamily].told # Live.told]_vars

\* Nothing left to restore, a journal put back from outside the lineage, or a plan whose
\* generation has become unreadable: it is never given up for another generation.
Hopeless ==
  \/ plan # NoPlan /\ ~Verifies(plan.gen)
  \/ Damaged /\ plan = NoPlan /\ \A n \in Gens : ~Verifies(n)
  \/ ~Damaged /\ plan = NoPlan /\ ~LineageHolds

\* Whatever was cut short or damaged, a hub serves again, unless nothing can be restored.
ComesBack == []<>(PortHolders # {} \/ Hopeless)

=============================================================================
