--------------------------- MODULE BlueGreenFlip ---------------------------
(***************************************************************************)
(* The blue-green restart: one supervisor (hubctl.ts) that replaces the    *)
(* live hub by a fresh one, rolls back when a step fails, and revives a    *)
(* hub that died.  Four things must have one holder while processes come   *)
(* and go: the public listener (a port), the question lifecycle, the       *)
(* profile authority (an epoch) and the journal backups (a SQLite lease).  *)
(*                                                                         *)
(* A hub is a record of its process, its listener, its roles and the one   *)
(* restart operation it is in (restartController.ts).  The supervisor is a *)
(* record with two programs that the code keeps apart only by flags: the   *)
(* flip (restart(), rollbackToBlue) and the revival (boot(),               *)
(* reviveLiveHub, enterRecoveryPoison).  Node's IPC is two FIFOs per hub;  *)
(* an exit is noticed some time after it happened, possibly before         *)
(* messages sent earlier.                                                  *)
(*                                                                         *)
(* Time is abstract.  A wait whose answer can still come may be given up   *)
(* at the price of one of MaxFaults faults; a wait on a process known to   *)
(* be gone is given up freely.  A crash, a failed SQLite write, a failed   *)
(* health check, a preflight refusal and a boot that outruns the death of  *)
(* its predecessor are faults too.                                         *)
(***************************************************************************)
EXTENDS Naturals, Sequences, FiniteSets

CONSTANTS Hubs,       \* process identities; an identity is reused once forgotten
          None,       \* no hub
          MaxFaults,  \* bound on crashes, refusals, timeouts and failed writes
          MaxFlips,   \* bound on restart requests
          MayOrphan   \* may the supervisor itself die?

ASSUME FlipAssumption ==
  /\ None \notin Hubs
  /\ MaxFaults \in Nat
  /\ MaxFlips \in Nat
  /\ MayOrphan \in BOOLEAN

VARIABLES hub,     \* Hubs -> the state of the process, see Fresh
          inbox,   \* Hubs -> messages from the supervisor, in order
          outbox,  \* Hubs -> messages to the supervisor, in order
          sup,     \* the supervisor, see SupInit
          faults,  \* faults so far
          flips    \* restart requests so far

vars == <<hub, inbox, outbox, sup, faults, flips>>

-----------------------------------------------------------------------------
(* Processes. *)

Fresh(standby, epoch) ==
  [st |-> "boot",          \* "dead", "boot", "up", or "killed" (kill sent, not yet reaped)
   standby |-> standby,    \* a green: boots on an ephemeral port, without authority
   port |-> "no",          \* "no", "eph" or "pub"
   draining |-> FALSE,     \* 503 for everything that mutates
   question |-> FALSE,     \* owns the question lifecycle
   profile |-> ~standby,   \* holds the profile authority, at epoch ep
   ep |-> epoch,
   active |-> FALSE,       \* may start journal backups
   lease |-> FALSE,        \* holds the cross-process backup lease
   snap |-> FALSE,         \* a snapshot generation is in flight
   ctl |-> 0,              \* epoch of the newest backup command
   pausing |-> 0,          \* epoch of a pause that waits for the snapshot
   op |-> "idle",          \* "idle", "logins", "turns", "closing", "promote"
   fenced |-> FALSE,       \* the drain in progress was aborted
   abort |-> FALSE,        \* an abort waits for the operation in progress
   grant |-> 0,            \* the profile epoch the promote or abort carries
   orphan |-> FALSE]       \* resolved the supervisor's disappearance by staying

Gone(epoch) == [Fresh(TRUE, epoch) EXCEPT !.st = "dead"]

Running(h) == hub[h].st \in {"boot", "up"}
PublicFree == \A h \in Hubs : hub[h].port # "pub"
LeaseFree == \A h \in Hubs : ~hub[h].lease

(* A dead process holds nothing; a killed one runs no more code but keeps  *)
(* its port and its lease until the operating system has reaped it.        *)
Die(h) == hub' = [hub EXCEPT ![h] = Gone(@.ep)]
Killed(f, S) ==
  [h \in Hubs |-> IF h \in S /\ f[h].st \in {"boot", "up"}
                  THEN [f[h] EXCEPT !.st = "killed"] ELSE f[h]]
Emptied(f, S) == [h \in Hubs |-> IF h \in S THEN <<>> ELSE f[h]]

Fault == faults < MaxFaults /\ faults' = faults + 1
NoFault == UNCHANGED faults

Msg(type, n, ok) == [type |-> type, n |-> n, ok |-> ok]
Say(h, m) == outbox' = [outbox EXCEPT ![h] = Append(@, m)]

-----------------------------------------------------------------------------
(* The hub process. *)

(* index.ts: a green binds an ephemeral port and claims nothing; any other *)
(* hub binds the public port and claims the questions in the listening     *)
(* callback.  Losing the bind exits the process.                           *)
HubReady(h) ==
  /\ hub[h].st = "boot"
  /\ \/ /\ hub[h].standby
        /\ hub' = [hub EXCEPT ![h].st = "up", ![h].port = "eph"]
        /\ Say(h, Msg("ready", 0, TRUE))
        /\ NoFault
     \/ /\ ~hub[h].standby /\ PublicFree
        /\ hub' = [hub EXCEPT ![h].st = "up", ![h].port = "pub", ![h].question = TRUE]
        /\ Say(h, Msg("ready", 0, TRUE))
        /\ NoFault
     \/ /\ ~hub[h].standby /\ ~PublicFree
        /\ Die(h)
        /\ UNCHANGED outbox
        /\ Fault
  /\ UNCHANGED <<inbox, sup, flips>>

(* A preflight that refuses reports why and exits: auto says whether the   *)
(* refusal may start the automatic journal recovery.                       *)
HubRefuse(h) ==
  /\ hub[h].st = "boot"
  /\ Fault
  /\ \E auto \in BOOLEAN : Say(h, Msg("refused", 0, auto))
  /\ Die(h)
  /\ UNCHANGED <<inbox, sup, flips>>

HubCrash(h) ==
  /\ Running(h)
  /\ Fault
  /\ Die(h)
  /\ inbox' = [inbox EXCEPT ![h] = <<>>]
  /\ UNCHANGED <<outbox, sup, flips>>

Reap(h) ==
  /\ hub[h].st = "killed"
  /\ Die(h)
  /\ UNCHANGED <<inbox, outbox, sup, faults, flips>>

(* journalBackup.ts applyControl: an older or equal epoch is refused; a    *)
(* pause stops new generations at once but answers, and gives up the       *)
(* lease, only when the generation in flight has settled.                  *)
Handles(h, type) ==
  /\ hub[h].st = "up"
  /\ inbox[h] # <<>>
  /\ Head(inbox[h]).type = type
  /\ inbox' = [inbox EXCEPT ![h] = Tail(@)]

HubPause(h) ==
  /\ Handles(h, "pause")
  /\ LET e == Head(inbox[h]).n IN
     IF e <= hub[h].ctl
     THEN Say(h, Msg("ctl", e, FALSE)) /\ UNCHANGED hub
     ELSE IF hub[h].snap
     THEN /\ hub' = [hub EXCEPT ![h].ctl = e, ![h].active = FALSE, ![h].pausing = e]
          /\ UNCHANGED outbox
     ELSE /\ hub' = [hub EXCEPT ![h].ctl = e, ![h].active = FALSE, ![h].lease = FALSE]
          /\ Say(h, Msg("ctl", e, TRUE))
  /\ UNCHANGED <<sup, faults, flips>>

HubResume(h) ==
  /\ Handles(h, "resume")
  /\ LET e == Head(inbox[h]).n
         ok == hub[h].lease \/ LeaseFree
     IN IF e <= hub[h].ctl
        THEN Say(h, Msg("ctl", e, FALSE)) /\ UNCHANGED hub
        ELSE /\ hub' = [hub EXCEPT ![h].ctl = e, ![h].active = ok, ![h].lease = ok]
             /\ Say(h, Msg("ctl", e, ok))
  /\ UNCHANGED <<sup, faults, flips>>

SnapStart(h) ==
  /\ hub[h].st = "up" /\ hub[h].active /\ ~hub[h].snap
  /\ hub' = [hub EXCEPT ![h].snap = TRUE]
  /\ UNCHANGED <<inbox, outbox, sup, faults, flips>>

SnapEnd(h) ==
  /\ hub[h].st = "up" /\ hub[h].snap
  /\ hub' = [hub EXCEPT ![h].snap = FALSE, ![h].pausing = 0,
                        ![h].lease = IF hub[h].pausing # 0 THEN hub[h].active ELSE @]
  /\ IF hub[h].pausing # 0
     THEN Say(h, Msg("ctl", hub[h].pausing, hub[h].pausing = hub[h].ctl))
     ELSE UNCHANGED outbox
  /\ UNCHANGED <<inbox, sup, faults, flips>>

-----------------------------------------------------------------------------
(* Drain, promote, abort (restartController.ts). *)

(* Blue stops admitting mutations, then settles the sign-ins in progress.  *)
HubDrain(h) ==
  /\ Handles(h, "drain")
  /\ hub' = IF hub[h].op # "idle" THEN hub
            ELSE [hub EXCEPT ![h].op = "logins", ![h].draining = TRUE, ![h].fenced = FALSE]
  /\ UNCHANGED <<outbox, sup, faults, flips>>

(* Mutant: A drain that leaves the questions open. *)
DrainLoginsOpen(h) ==
  /\ hub[h].st = "up" /\ hub[h].op = "logins"
  /\ hub' = IF hub[h].fenced
            THEN [hub EXCEPT ![h].op = "idle", ![h].draining = FALSE]
            ELSE [hub EXCEPT ![h].op = "turns"]
  /\ UNCHANGED <<inbox, outbox, sup, faults, flips>>

(* After the sign-ins: an aborted drain reopens the hub; otherwise every   *)
(* question is closed durably and the turns that asked get a grace.        *)
DrainLogins(h) ==
  /\ hub[h].st = "up" /\ hub[h].op = "logins"
  /\ hub' = IF hub[h].fenced
            THEN [hub EXCEPT ![h].op = "idle", ![h].draining = FALSE]
            ELSE [hub EXCEPT ![h].op = "turns", ![h].question = FALSE]
  /\ UNCHANGED <<inbox, outbox, sup, faults, flips>>

(* A drain that fails while the listener is still bound takes back what it *)
(* gave up; when even that fails it closes the listener.                   *)
DrainFails(h) ==
  /\ hub[h].st = "up"
  /\ \/ /\ hub[h].op \in {"logins", "turns"}
        /\ Fault
        /\ hub' = [hub EXCEPT ![h].op = "idle", ![h].draining = FALSE, ![h].question = TRUE]
     \/ /\ hub[h].op = "turns"
        /\ faults + 1 < MaxFaults
        /\ faults' = faults + 2
        /\ hub' = [hub EXCEPT ![h].op = "idle", ![h].port = "no"]
  /\ Say(h, Msg("drain-failed", 0, FALSE))
  /\ UNCHANGED <<inbox, sup, flips>>

(* Mutant: Blue closes its listener and keeps the profile authority. *)
DrainTurnsKeeps(h) ==
  /\ hub[h].st = "up" /\ hub[h].op = "turns"
  /\ hub' = IF hub[h].fenced
            THEN [hub EXCEPT ![h].op = "idle"]
            ELSE [hub EXCEPT ![h].op = "closing", ![h].port = "no"]
  /\ UNCHANGED <<inbox, outbox, sup, faults, flips>>

(* After the grace: an aborted drain stops here, listener bound; otherwise *)
(* the profile authority is dropped and the listener closed.               *)
DrainTurns(h) ==
  /\ hub[h].st = "up" /\ hub[h].op = "turns"
  /\ hub' = IF hub[h].fenced
            THEN [hub EXCEPT ![h].op = "idle"]
            ELSE [hub EXCEPT ![h].op = "closing", ![h].profile = FALSE, ![h].port = "no"]
  /\ UNCHANGED <<inbox, outbox, sup, faults, flips>>

DrainClosed(h) ==
  /\ hub[h].st = "up" /\ hub[h].op = "closing"
  /\ hub' = [hub EXCEPT ![h].op = "idle"]
  /\ IF hub[h].fenced THEN UNCHANGED outbox ELSE Say(h, Msg("released", 0, TRUE))
  /\ UNCHANGED <<inbox, sup, faults, flips>>

(* Green closes its ephemeral listener first, then binds the public port.  *)
HubPromote(h) ==
  /\ Handles(h, "promote")
  /\ hub' = [hub EXCEPT ![h].op = "promote", ![h].port = "no",
                        ![h].grant = Head(inbox[h]).n]
  /\ UNCHANGED <<outbox, sup, faults, flips>>

Owning(r, epoch) ==
  [r EXCEPT !.port = "pub", !.op = "idle", !.profile = TRUE, !.ep = epoch,
            !.question = TRUE, !.draining = FALSE, !.abort = FALSE, !.grant = 0]
Disowning(r) ==
  [r EXCEPT !.port = "no", !.op = "idle", !.profile = FALSE,
            !.question = FALSE, !.draining = TRUE, !.abort = FALSE, !.grant = 0]

(* The listening callback claims the profile authority, which takes only a *)
(* newer epoch, and the questions, before any request is served.           *)
Claimable(h) == PublicFree /\ hub[h].grant > hub[h].ep

PromoteBinds(h) ==
  /\ hub[h].st = "up" /\ hub[h].op = "promote"
  /\ IF Claimable(h)
     THEN /\ hub' = [hub EXCEPT ![h] = Owning(@, hub[h].grant)]
          /\ Say(h, Msg("promoted", hub[h].grant, TRUE))
     ELSE /\ hub' = [hub EXCEPT ![h] = Disowning(@)]
          /\ Say(h, Msg("promote-failed", 0, FALSE))
  /\ UNCHANGED <<inbox, sup, faults, flips>>

PromoteFails(h) ==
  /\ hub[h].st = "up" /\ hub[h].op = "promote"
  /\ Fault
  /\ hub' = [hub EXCEPT ![h] = Disowning(@)]
  /\ Say(h, Msg("promote-failed", 0, FALSE))
  /\ UNCHANGED <<inbox, sup, flips>>

(* An abort fences the drain in progress, then waits for it.               *)
HubAbort(h) ==
  /\ Handles(h, "abort")
  /\ hub' = [hub EXCEPT ![h].abort = TRUE, ![h].grant = Head(inbox[h]).n,
                        ![h].fenced = hub[h].op # "idle"]
  /\ UNCHANGED <<outbox, sup, faults, flips>>

(* ... unless its first journal write fails: the drain is fenced all the   *)
(* same, and nothing takes back what it had given up.                      *)
HubAbortFails(h) ==
  /\ Handles(h, "abort")
  /\ Fault
  /\ hub' = [hub EXCEPT ![h].draining = TRUE, ![h].fenced = hub[h].op # "idle"]
  /\ Say(h, Msg("rb-failed", 0, FALSE))
  /\ UNCHANGED <<sup, flips>>

(* Blue keeps a listener that is still bound and binds it again otherwise; *)
(* then it claims profiles and questions under the new epoch.              *)
AbortRebinds(h) ==
  /\ hub[h].st = "up" /\ hub[h].abort /\ hub[h].op = "idle"
  /\ IF \/ hub[h].port = "pub" /\ hub[h].grant > hub[h].ep
        \/ Claimable(h)
     THEN /\ hub' = [hub EXCEPT ![h] = Owning(@, hub[h].grant)]
          /\ Say(h, Msg("rebound", hub[h].grant, TRUE))
     ELSE /\ hub' = [hub EXCEPT ![h] = Disowning(@)]
          /\ Say(h, Msg("rb-failed", 0, FALSE))
  /\ UNCHANGED <<inbox, sup, faults, flips>>

AbortFails(h) ==
  /\ hub[h].st = "up" /\ hub[h].abort /\ hub[h].op = "idle"
  /\ Fault
  /\ hub' = [hub EXCEPT ![h] = Disowning(@)]
  /\ Say(h, Msg("rb-failed", 0, FALSE))
  /\ UNCHANGED <<inbox, sup, flips>>

(* Blue retires once green is live: it stops its backups and exits.        *)
HubRetire(h) ==
  /\ Handles(h, "retire")
  /\ Die(h)
  /\ UNCHANGED <<outbox, sup, faults, flips>>

(* Mutant: Any listener, a green's too, keeps an orphan alive. *)
HubOrphanAnyPort(h) ==
  /\ ~sup.alive /\ Running(h) /\ inbox[h] = <<>>
  /\ hub[h].op = "idle" /\ ~hub[h].abort /\ ~hub[h].orphan
  /\ IF hub[h].port # "no"
     THEN hub' = [hub EXCEPT ![h].orphan = TRUE]
     ELSE Die(h)
  /\ UNCHANGED <<inbox, outbox, sup, faults, flips>>

(* The supervisor is gone: once no listener transition is in progress, the *)
(* process bound to the public port stays and takes the backups, any other *)
(* process stops.                                                          *)
HubOrphan(h) ==
  /\ ~sup.alive /\ Running(h) /\ inbox[h] = <<>>
  /\ hub[h].op = "idle" /\ ~hub[h].abort /\ ~hub[h].orphan
  /\ IF hub[h].port = "pub"
     THEN hub' = [hub EXCEPT ![h].orphan = TRUE]
     ELSE Die(h)
  /\ UNCHANGED <<inbox, outbox, sup, faults, flips>>

(* activateStandalone, and its retries.                                    *)
OrphanActivates(h) ==
  /\ hub[h].st = "up" /\ hub[h].orphan /\ ~hub[h].active
  /\ hub[h].lease \/ LeaseFree
  /\ hub' = [hub EXCEPT ![h].active = TRUE, ![h].lease = TRUE]
  /\ UNCHANGED <<inbox, outbox, sup, faults, flips>>

-----------------------------------------------------------------------------
(* The supervisor (hubctl.ts). *)

SupInit ==
  [alive |-> TRUE,
   live |-> None,        \* the hub it believes serves the public port
   flip |-> "idle",      \* "idle", "ready", "pause", "released", "promoted", "act",
                         \* then, rolling back: "exit", "rebind", "resume", "abandon";
                         \* "poison" while it waits for a journal recovery
   blue |-> None, green |-> None,   \* the two hubs of the flip in progress
   mayOwn |-> FALSE,     \* promotion was sent: green may hold the public port
   reviving |-> TRUE,    \* boot() or reviveLiveHub runs
   boot |-> "wait",      \* the replacement it boots: "no", "wait", "ready", "act"
   cand |-> None,        \* ... and its process
   pending |-> FALSE,    \* the live hub died during the flip: revive afterwards
   poison |-> "no",      \* journal recovery: "no", "stop", "boot", "offline"
   auto |-> FALSE,       \* ... may run by itself
   owner |-> None,       \* the process it granted the backups to
   bepoch |-> 0,         \* epoch of its newest backup command
   pepoch |-> 0,         \* newest profile epoch it handed out
   epochOf |-> [h \in Hubs |-> 0],  \* the profile epoch it gave each hub
   retired |-> {},       \* hubs whose exit it expects
   seen |-> Hubs]        \* hubs whose exit it has noticed

Idle(h) == hub[h].st = "dead" /\ h \in sup.seen
           /\ h \notin {sup.live, sup.blue, sup.green, sup.cand, sup.owner}
AnIdle == CHOOSE h \in Hubs : Idle(h)

Hears(h, type) ==
  /\ sup.alive
  /\ outbox[h] # <<>>
  /\ Head(outbox[h]).type = type
  /\ outbox' = [outbox EXCEPT ![h] = Tail(@)]
(* An answer to the newest backup command; older ones match no waiter.     *)
HearsCtl(h, ok) == /\ Hears(h, "ctl")
                   /\ Head(outbox[h]).n = sup.bepoch
                   /\ Head(outbox[h]).ok = ok

Sent(f, h, m) == IF Running(h) THEN [f EXCEPT ![h] = Append(@, m)] ELSE f

(* JournalBackupOwnershipProtocol: an owner that is known to be dead       *)
(* forfeits; ownership is the candidate's from before the command is sent. *)
Grantable(h) == sup.owner \in {None, h} \cup sup.seen
Granted(s, h) == [s EXCEPT !.owner = h, !.bepoch = @ + 1]
Resume(s) == Msg("resume", s.bepoch + 1, TRUE)

SetLive(s, h) == [s EXCEPT !.live = h, !.retired = @ \ {h}, !.pending = FALSE]

(* The finally of restart(): a death deferred by the flip starts a revival *)
(* unless some hub is live.                                                *)
EndFlip(s) ==
  LET revive == s.poison = "no" /\ s.pending /\ s.live = None /\ ~s.reviving
  IN [s EXCEPT !.flip = "idle", !.blue = None, !.green = None, !.mayOwn = FALSE,
               !.pending = FALSE,
               !.reviving = @ \/ revive, !.boot = IF revive THEN "wait" ELSE @]

(* The caller of enterRecoveryPoison returns when the recovery is over.    *)
EndPoison(s) ==
  LET t == [s EXCEPT !.reviving = FALSE, !.boot = "no", !.cand = None]
  IN IF s.flip = "idle" THEN t ELSE EndFlip(t)

(* Kill every process, expect no exit, keep the root offline.              *)
Poisoned(s, implicated, auto) ==
  [s EXCEPT !.poison = "stop", !.auto = auto, !.live = None, !.boot = "no",
            !.cand = None, !.retired = @ \cup (implicated \ {None})]

KillAll == /\ hub' = Killed(hub, Hubs)
           /\ inbox' = Emptied(inbox, Hubs)
Kill(S) == /\ hub' = Killed(hub, S)
           /\ inbox' = Emptied(inbox, S)

Exit(h) ==
  /\ sup.alive
  /\ hub[h].st = "dead" /\ h \notin sup.seen
  /\ \A i \in DOMAIN outbox[h] : outbox[h][i].type # "refused"
  /\ outbox' = [outbox EXCEPT ![h] = <<>>]
  /\ LET s == [sup EXCEPT !.seen = @ \cup {h}]
         lost == sup.live = h /\ h \notin sup.retired
         revive == lost /\ sup.poison = "no" /\ sup.flip = "idle" /\ ~sup.reviving
     IN sup' = IF ~lost THEN s
               ELSE [s EXCEPT !.live = None,
                              !.pending = @ \/ (sup.poison = "no" /\ sup.flip # "idle"),
                              !.reviving = @ \/ revive,
                              !.boot = IF revive THEN "wait" ELSE @]
  /\ UNCHANGED <<hub, inbox, faults, flips>>

(* boot(), reviveLiveHub, and the fresh blue of a recovery.                *)
BootSpawn ==
  /\ sup.alive /\ sup.boot = "wait"
  /\ \E h \in Hubs : Idle(h)
  /\ LET h == AnIdle
         e == sup.pepoch + 1
     IN /\ hub' = [hub EXCEPT ![h] = Fresh(FALSE, e)]
        /\ inbox' = [inbox EXCEPT ![h] = <<>>]
        /\ outbox' = [outbox EXCEPT ![h] = <<>>]
        /\ sup' = [sup EXCEPT !.boot = "ready", !.cand = h, !.pepoch = e,
                              !.epochOf[h] = e, !.seen = @ \ {h}, !.retired = @ \ {h}]
  /\ UNCHANGED <<faults, flips>>

BootFailed(s) ==
  IF s.poison = "boot"
  THEN EndPoison([s EXCEPT !.poison = "offline"])
  ELSE [s EXCEPT !.boot = "wait", !.cand = None]

BootReady ==
  /\ sup.boot = "ready"
  /\ Hears(sup.cand, "ready")
  /\ IF Grantable(sup.cand)
     THEN /\ sup' = [Granted(sup, sup.cand) EXCEPT !.boot = "act"]
          /\ inbox' = Sent(inbox, sup.cand, Resume(sup))
          /\ UNCHANGED hub
          /\ NoFault
     ELSE /\ sup' = BootFailed(sup)
          /\ Kill({sup.cand})
          /\ Fault
  /\ UNCHANGED flips

BootRefused ==
  /\ sup.boot = "ready"
  /\ Hears(sup.cand, "refused")
  /\ sup' = IF sup.poison = "boot" THEN BootFailed(sup)
            ELSE Poisoned(sup, {sup.cand}, Head(outbox[sup.cand]).ok)
  /\ IF sup.poison = "boot" THEN Kill({sup.cand}) ELSE KillAll
  /\ UNCHANGED <<faults, flips>>

BootLive ==
  /\ sup.boot = "act"
  /\ HearsCtl(sup.cand, TRUE)
  /\ LET s == [SetLive(sup, sup.cand) EXCEPT !.boot = "no", !.cand = None,
                                             !.reviving = FALSE, !.poison = "no"]
     IN sup' = IF sup.flip = "idle" THEN s ELSE EndFlip(s)
  /\ UNCHANGED <<hub, inbox, faults, flips>>

BootFails ==
  /\ sup.alive
  /\ \/ /\ sup.boot \in {"ready", "act"} /\ sup.cand \in sup.seen
        /\ UNCHANGED outbox
     \/ /\ sup.boot = "act" /\ HearsCtl(sup.cand, FALSE)
  /\ sup' = BootFailed(sup)
  /\ Kill({sup.cand})
  /\ UNCHANGED <<faults, flips>>

BootTimeout ==
  /\ sup.alive /\ sup.boot \in {"ready", "act"}
  /\ Fault
  /\ sup' = BootFailed(sup)
  /\ Kill({sup.cand})
  /\ UNCHANGED <<outbox, flips>>

(* enterRecoveryPoison: every process has exited, then the classifier runs *)
(* if the refusal allows it; what it returns is a fault or a fresh boot.   *)
PoisonStopped ==
  /\ sup.alive /\ sup.poison = "stop"
  /\ \A h \in Hubs : h \in sup.seen
  /\ sup' = IF sup.auto THEN [sup EXCEPT !.poison = "boot", !.boot = "wait"]
            ELSE EndPoison([sup EXCEPT !.poison = "offline"])
  /\ UNCHANGED <<hub, inbox, outbox, faults, flips>>

PoisonFails ==
  /\ sup.alive /\ sup.poison = "stop"
  /\ Fault
  /\ sup' = EndPoison([sup EXCEPT !.poison = "offline"])
  /\ UNCHANGED <<hub, inbox, outbox, flips>>

(* restart(): ignored while poisoned, flipping or without a live hub.      *)
RestartRequest ==
  /\ sup.alive /\ sup.poison = "no" /\ sup.flip = "idle" /\ sup.live # None
  /\ flips < MaxFlips
  /\ \E h \in Hubs : Idle(h)
  /\ flips' = flips + 1
  /\ LET g == AnIdle
         e == sup.epochOf[sup.live]
     IN /\ hub' = [hub EXCEPT ![g] = Fresh(TRUE, e)]
        /\ inbox' = [inbox EXCEPT ![g] = <<>>]
        /\ outbox' = [outbox EXCEPT ![g] = <<>>]
        /\ sup' = [sup EXCEPT !.flip = "ready", !.blue = sup.live, !.green = g,
                              !.epochOf[g] = e, !.seen = @ \ {g}, !.retired = @ \ {g}]
  /\ UNCHANGED faults

FlipPause ==
  /\ sup.flip = "ready"
  /\ Hears(sup.green, "ready")
  /\ Grantable(sup.blue)
  /\ inbox' = Sent(inbox, sup.blue, Msg("pause", sup.bepoch + 1, TRUE))
  /\ sup' = [sup EXCEPT !.flip = "pause", !.bepoch = @ + 1,
                        !.owner = IF sup.owner \in sup.seen THEN None ELSE @]
  /\ UNCHANGED <<hub, faults, flips>>

FlipRefused ==
  /\ sup.flip = "ready"
  /\ Hears(sup.green, "refused")
  /\ sup' = [Poisoned(sup, {sup.blue, sup.green}, Head(outbox[sup.green]).ok)
               EXCEPT !.flip = "poison"]
  /\ KillAll
  /\ UNCHANGED <<faults, flips>>

FlipDrain ==
  /\ sup.flip = "pause"
  /\ HearsCtl(sup.blue, TRUE)
  /\ inbox' = Sent(inbox, sup.blue, Msg("drain", 0, TRUE))
  /\ sup' = [sup EXCEPT !.flip = "released",
                        !.owner = IF @ = sup.blue THEN None ELSE @]
  /\ UNCHANGED <<hub, faults, flips>>

(* From here green may hold the port even if its answer is lost.           *)
FlipPromote ==
  /\ sup.flip = "released"
  /\ Hears(sup.blue, "released")
  /\ inbox' = Sent(inbox, sup.green, Msg("promote", sup.pepoch + 1, TRUE))
  /\ sup' = [sup EXCEPT !.flip = "promoted", !.mayOwn = TRUE, !.pepoch = @ + 1]
  /\ UNCHANGED <<hub, faults, flips>>

FlipActivate ==
  /\ sup.flip = "promoted"
  /\ Hears(sup.green, "promoted")
  /\ Head(outbox[sup.green]).n = sup.pepoch
  /\ Grantable(sup.green)
  /\ inbox' = Sent(inbox, sup.green, Resume(sup))
  /\ sup' = [Granted(sup, sup.green) EXCEPT !.flip = "act",
                                            !.epochOf[sup.green] = sup.pepoch]
  /\ UNCHANGED <<hub, faults, flips>>

(* The commit: green is live, blue retires; reap() kills a blue that stays.*)
FlipCommit ==
  /\ sup.flip = "act"
  /\ HearsCtl(sup.green, TRUE)
  /\ inbox' = Sent(inbox, sup.blue, Msg("retire", 0, TRUE))
  /\ LET s == SetLive(sup, sup.green)
     IN sup' = EndFlip([s EXCEPT !.retired = @ \cup {sup.blue}])
  /\ UNCHANGED <<hub, faults, flips>>

(* Mutant: An abandoned blue that nobody replaces. *)
AbandonedForGood(s) ==
  [s EXCEPT !.flip = "abandon", !.retired = @ \cup {s.blue},
            !.live = IF @ = s.blue THEN None ELSE @]

(* rollbackToBlue: kill green; if it may have bound the port, wait for its *)
(* exit and for the port; then ask blue to take the listener back.         *)
Abandoned(s) ==
  [s EXCEPT !.flip = "abandon", !.pending = TRUE, !.retired = @ \cup {s.blue},
            !.live = IF @ = s.blue THEN None ELSE @]

(* Mutant: A rebind under the epoch that is already handed out, plus one. *)
RequestRebindUncounted(s, S) ==
  IF s.blue \in s.seen
  THEN /\ sup' = Abandoned(s)
       /\ Kill(S \cup {s.blue})
  ELSE /\ sup' = [s EXCEPT !.flip = "rebind"]
       /\ hub' = Killed(hub, S)
       /\ inbox' = Sent(Emptied(inbox, S), s.blue, Msg("abort", s.pepoch + 1, TRUE))

RequestRebind(s, S) ==
  IF s.blue \in s.seen
  THEN /\ sup' = Abandoned(s)
       /\ Kill(S \cup {s.blue})
  ELSE /\ sup' = [s EXCEPT !.flip = "rebind", !.pepoch = @ + 1]
       /\ hub' = Killed(hub, S)
       /\ inbox' = Sent(Emptied(inbox, S), s.blue, Msg("abort", s.pepoch + 1, TRUE))

RollBack ==
  LET s == [sup EXCEPT !.retired = @ \cup {sup.green}]
  IN IF s.mayOwn
     THEN /\ sup' = [s EXCEPT !.flip = "exit"]
          /\ Kill({s.green})
     ELSE RequestRebind(s, {s.green})

AwaitedHub == CASE sup.flip \in {"ready", "promoted", "act"} -> sup.green
                [] sup.flip \in {"pause", "released", "rebind", "resume"} -> sup.blue
                [] OTHER -> None

Forward == {"ready", "pause", "released", "promoted", "act"}

(* The awaited hub is gone or answered with a failure.                     *)
FlipFails ==
  /\ sup.alive /\ sup.flip \in Forward
  /\ \/ AwaitedHub \in sup.seen /\ UNCHANGED outbox
     \/ sup.flip = "ready" /\ ~Grantable(sup.blue) /\ Hears(sup.green, "ready")
     \/ sup.flip = "released" /\ Hears(sup.blue, "drain-failed")
     \/ sup.flip = "promoted" /\ Hears(sup.green, "promote-failed")
     \/ sup.flip \in {"pause", "act"} /\ HearsCtl(AwaitedHub, FALSE)
  /\ RollBack
  /\ UNCHANGED <<faults, flips>>

FlipTimeout ==
  /\ sup.alive /\ sup.flip \in Forward
  /\ Fault
  /\ RollBack
  /\ UNCHANGED <<outbox, flips>>

RollbackFreed ==
  /\ sup.alive /\ sup.flip = "exit"
  /\ sup.green \in sup.seen /\ PublicFree
  /\ RequestRebind(sup, {})
  /\ UNCHANGED <<outbox, faults, flips>>

RollbackResume ==
  /\ sup.flip = "rebind"
  /\ Hears(sup.blue, "rebound")
  /\ Head(outbox[sup.blue]).n = sup.pepoch
  /\ Grantable(sup.blue)
  /\ inbox' = Sent(inbox, sup.blue, Resume(sup))
  /\ sup' = [Granted(sup, sup.blue) EXCEPT !.flip = "resume"]
  /\ UNCHANGED <<hub, faults, flips>>

RolledBack ==
  /\ sup.flip = "resume"
  /\ HearsCtl(sup.blue, TRUE)
  /\ sup' = EndFlip([sup EXCEPT !.epochOf[sup.blue] = sup.pepoch])
  /\ UNCHANGED <<hub, inbox, faults, flips>>

(* The resume is retried while blue lives, then given up.                  *)
RollbackRetry ==
  /\ sup.alive /\ sup.flip = "resume"
  /\ Fault
  /\ inbox' = Sent(inbox, sup.blue, Resume(sup))
  /\ sup' = Granted(sup, sup.blue)
  /\ UNCHANGED <<hub, outbox, flips>>

(* abandonLiveForRevival: forget blue, kill it, revive after the flip.     *)
RollbackFails ==
  /\ sup.alive
  /\ \/ sup.flip \in {"rebind", "resume"} /\ sup.blue \in sup.seen /\ UNCHANGED outbox
     \/ sup.flip = "rebind" /\ Hears(sup.blue, "rb-failed")
     \/ sup.flip = "resume" /\ HearsCtl(sup.blue, FALSE)
  /\ sup' = Abandoned(sup)
  /\ Kill({sup.blue})
  /\ UNCHANGED <<faults, flips>>

RollbackTimeout ==
  /\ sup.alive /\ sup.flip \in {"exit", "rebind", "resume"}
  /\ Fault
  /\ sup' = Abandoned(sup)
  /\ Kill({sup.blue})
  /\ UNCHANGED <<outbox, flips>>

AbandonDone ==
  /\ sup.alive /\ sup.flip = "abandon"
  /\ \/ sup.blue \in sup.seen /\ NoFault
     \/ Fault
  /\ sup' = EndFlip(sup)
  /\ UNCHANGED <<hub, inbox, outbox, flips>>

(* A message nobody waits for any more.                                    *)
Awaited(h, m) ==
  \/ h = sup.cand /\ sup.boot = "ready" /\ m.type \in {"ready", "refused"}
  \/ h = sup.cand /\ sup.boot = "act" /\ m.type = "ctl" /\ m.n = sup.bepoch
  \/ h = AwaitedHub /\
     \/ sup.flip = "ready" /\ m.type \in {"ready", "refused"}
     \/ sup.flip \in {"pause", "act", "resume"} /\ m.type = "ctl" /\ m.n = sup.bepoch
     \/ sup.flip = "released" /\ m.type \in {"released", "drain-failed"}
     \/ sup.flip = "promoted" /\ m.type \in {"promoted", "promote-failed"}
     \/ sup.flip = "rebind" /\ m.type \in {"rebound", "rb-failed"}

Ignore(h) ==
  /\ sup.alive /\ outbox[h] # <<>>
  /\ ~Awaited(h, Head(outbox[h]))
  /\ outbox' = [outbox EXCEPT ![h] = Tail(@)]
  /\ UNCHANGED <<hub, inbox, sup, faults, flips>>

SupDies ==
  /\ MayOrphan /\ sup.alive
  /\ sup' = [sup EXCEPT !.alive = FALSE]
  /\ UNCHANGED <<hub, inbox, outbox, faults, flips>>

-----------------------------------------------------------------------------
Init ==
  /\ hub = [h \in Hubs |-> Gone(0)]
  /\ inbox = [h \in Hubs |-> <<>>]
  /\ outbox = [h \in Hubs |-> <<>>]
  /\ sup = SupInit
  /\ faults = 0 /\ flips = 0

Listens(h) == HubReady(h) \/ Reap(h)
Serves(h) ==
  \/ HubPause(h) \/ HubResume(h) \/ HubRetire(h)
  \/ HubDrain(h) \/ DrainLogins(h) \/ DrainTurns(h) \/ DrainClosed(h)
  \/ HubPromote(h) \/ PromoteBinds(h)
  \/ HubAbort(h) \/ AbortRebinds(h)
Adopts(h) == HubOrphan(h) \/ OrphanActivates(h)
HubFault(h) ==
  \/ HubRefuse(h) \/ HubCrash(h) \/ DrainFails(h) \/ PromoteFails(h)
  \/ HubAbortFails(h) \/ AbortFails(h)

Hearing(h) == Exit(h) \/ Ignore(h)
Boots == BootSpawn \/ BootReady \/ BootRefused \/ BootLive \/ BootFails \/ PoisonStopped
Flips ==
  \/ FlipPause \/ FlipRefused \/ FlipDrain \/ FlipPromote \/ FlipActivate \/ FlipCommit
  \/ FlipFails \/ RollbackFreed \/ RollbackResume \/ RolledBack \/ RollbackFails
  \/ AbandonDone
SupFault == BootTimeout \/ PoisonFails \/ FlipTimeout \/ RollbackRetry \/ RollbackTimeout

Next ==
  \/ \E h \in Hubs : \/ Listens(h) \/ Serves(h) \/ Adopts(h) \/ HubFault(h)
                     \/ SnapStart(h) \/ SnapEnd(h) \/ Hearing(h)
  \/ Boots \/ Flips \/ SupFault
  \/ RestartRequest \/ SupDies

(* The operating system starts and reaps processes and delivers messages   *)
(* and exits; a process runs its ready callbacks; a snapshot that started  *)
(* settles.  No fault, no request and no death of the supervisor is owed.  *)
Fairness ==
  /\ \A h \in Hubs : /\ WF_vars(Listens(h)) /\ WF_vars(Serves(h)) /\ WF_vars(SnapEnd(h))
                     /\ WF_vars(Adopts(h)) /\ WF_vars(Hearing(h))
  /\ WF_vars(Boots) /\ WF_vars(Flips)

Spec == Init /\ [][Next]_vars /\ Fairness

-----------------------------------------------------------------------------
(* Every field in its range; the supervisor names only hubs or None.       *)
TypeOK ==
  /\ \A h \in Hubs :
       /\ hub[h].st \in {"dead", "boot", "up", "killed"}
       /\ hub[h].port \in {"no", "eph", "pub"}
       /\ hub[h].op \in {"idle", "logins", "turns", "closing", "promote"}
       /\ hub[h].ep \in 0..sup.pepoch /\ hub[h].ctl \in 0..sup.bepoch
  /\ {sup.live, sup.blue, sup.green, sup.cand, sup.owner} \subseteq Hubs \cup {None}
  /\ sup.flip \in Forward \cup {"idle", "exit", "rebind", "resume", "abandon", "poison"}
  /\ sup.boot \in {"no", "wait", "ready", "act"}
  /\ sup.poison \in {"no", "stop", "boot", "offline"}
  /\ faults \in 0..MaxFaults /\ flips \in 0..MaxFlips

(* No two running hubs hold the question lifecycle, nor the profile        *)
(* authority, however a flip, its rollback and a revival interleave with   *)
(* crashes, late answers and the supervisor's own death.                   *)
Holders(role) == {h \in Hubs : Running(h) /\ hub[h][role]}
SoleAuthority ==
  /\ Cardinality(Holders("question")) <= 1
  /\ Cardinality(Holders("profile")) <= 1

(* Two hubs never write a journal snapshot at the same time, and a hub     *)
(* that may start one holds the lease: the pause waits for the generation  *)
(* in flight before the next owner is granted.                             *)
OneBackupWriter ==
  /\ Cardinality(Holders("snap")) <= 1
  /\ \A h \in Hubs : Running(h) /\ (hub[h].active \/ hub[h].snap) => hub[h].lease

(* SAFETY: questions, profiles and backups are each in the hands of at     *)
(* most one of the hubs of a flip.                                         *)
OneOwner == SoleAuthority /\ OneBackupWriter

(* After the last fault and the last request the root is served for good,  *)
(* by a hub with every role, or deliberately offline.                      *)
Served ==
  /\ sup.live # None
  /\ LET r == hub[sup.live] IN
     /\ r.st = "up" /\ r.port = "pub" /\ ~r.draining
     /\ r.question /\ r.profile /\ r.active
Recovers == <>[](sup.alive => Served \/ sup.poison = "offline")

(* When the supervisor dies, every hub but the one on the public port      *)
(* stops, and that one takes the backups over; it answers questions too,   *)
(* unless the abort that fenced its drain failed (HubAbortFails).          *)
Settled ==
  /\ Cardinality({h \in Hubs : hub[h].st # "dead"}) <= 1
  /\ \A h \in Hubs : hub[h].st # "dead" =>
       /\ hub[h].port = "pub" /\ hub[h].active
       /\ hub[h].question \/ hub[h].fenced
OrphansSettle == (~sup.alive) ~> Settled

(* The question lifecycle as an abstract role with one holder.             *)
Role == INSTANCE PublicRole WITH holders <- Holders("question")
RoleHandedOver == Role!Spec
=============================================================================
