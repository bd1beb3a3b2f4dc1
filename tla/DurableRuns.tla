---------------------------- MODULE DurableRuns ----------------------------
(* Durable runs: build and test commands that outlive a turn, queued in a     *)
(* table all hub processes share, claimed under exclusive resource leases,    *)
(* executed by a child process of a hub (durableRuns.ts) or by the device     *)
(* executor of another machine (remoteDevices.ts), and reported to the chat   *)
(* that asked for them. Hubs crash, restart and overlap (blue/green);         *)
(* requests to a target are lost, late or delivered twice; a target restarts. *)
(*                                                                            *)
(* Every database statement or transaction is a step. What one hub does       *)
(* without awaiting is its "todo": other hubs and crashes come between its    *)
(* steps, other callbacks of the same hub do not.                             *)
EXTENDS Naturals, Sequences, FiniteSets

CONSTANTS
  Hubs,       \* hub processes; a restarted hub keeps its name
  Runs,       \* runs that may be requested
  Order,      \* the runs by creation time
  Away,       \* those that may be sent to another machine
  Doubtful,   \* those whose owner may think better of it and cancel
  Res,        \* resource keys
  Needs,      \* the resource keys of a run
  MaxFaults,  \* crashes, hand-overs, losses and failures in one behaviour
  Env,        \* troubles let in beside those: "journalFails", "resultWriteFails", "httpError"
  None

ASSUME RunsAssumption ==
  /\ Order \in Seq(Runs) /\ Away \cup Doubtful \subseteq Runs /\ None \notin Runs \cup Hubs
  /\ \A r \in Runs : \E i \in DOMAIN Order : Order[i] = r
  /\ \A i, j \in DOMAIN Order : Order[i] = Order[j] => i = j
  /\ Needs \in [Runs -> SUBSET Res]
  /\ MaxFaults \in Nat

VARIABLES
  row,     \* durable_runs: state, executed elsewhere, prerequisite, cancelRequested,
           \* heartbeat over 30 s old, continuationAt set
  lease,   \* durable_run_leases: the run holding each resource
  hub,     \* per process: its life, the work under way, the runs it owns
  mon,     \* the source's side of a remote command
  net,     \* requests on their way to the target
  target,  \* the executor's receipts (on disk), live jobs and aborts (in memory)
  proc,    \* what became of the command itself, and how often it was started
  told,    \* what was reported: terminal journal rows, notices in the owner's inbox
  faults

vars == <<row, lease, hub, mon, net, target, proc, told, faults>>

Ended == {"succeeded", "failed", "cancelled", "outcome_unknown"}
States == {"none", "queued", "running"} \cup Ended
Duties == {"reconcile", "pending", "pump", "launch", "journal", "notify", "mark"}
Tasks == [do : Duties, run : Runs \cup {None}]
NoMon == [by |-> None, at |-> "none", answer |-> "none", gone |-> FALSE, sent |-> FALSE]

TypeOK ==
  /\ row \in [Runs -> [state : States, remote : BOOLEAN, dep : Runs \cup {None},
                    cancel : BOOLEAN, stale : BOOLEAN, notified : BOOLEAN]]
  /\ lease \in [Res -> Runs \cup {None}]
  /\ hub \in [Hubs -> [st : {"off", "up", "draining", "closing"}, todo : Seq(Tasks), own : SUBSET Runs]]
  /\ mon \in [Runs -> [by : Hubs \cup {None}, at : {"none", "prep", "start", "poll"},
                       answer : {"none", "running", "refused", "unknown"},
                       gone : BOOLEAN, sent : BOOLEAN]]
  /\ net \in SUBSET (Runs \X {"start", "cancel"})
  /\ target \in [receipt : [Runs -> {"none", "running"} \cup Ended],
                 jobs : SUBSET Runs, aborted : SUBSET Runs]
  /\ proc \in [Runs -> [st : {"none", "alive", "succeeded", "failed", "cancelled"}, starts : Nat]]
  /\ told \in [Runs -> [rows : Seq(States), notices : Nat]]
  /\ faults \in 0 .. MaxFaults

\* The hub that starts when no other is up; which name it has is of no consequence.
First == CHOOSE h \in Hubs : TRUE

Init ==
  /\ row = [r \in Runs |-> [state |-> "none", remote |-> FALSE, dep |-> None,
                        cancel |-> FALSE, stale |-> FALSE, notified |-> FALSE]]
  /\ lease = [x \in Res |-> None]
  /\ hub = [h \in Hubs |-> [st |-> IF h = First THEN "up" ELSE "off", todo |-> <<>>, own |-> {}]]
  /\ mon = [r \in Runs |-> NoMon]
  /\ net = {}
  /\ target = [receipt |-> [r \in Runs |-> "none"], jobs |-> {}, aborted |-> {}]
  /\ proc = [r \in Runs |-> [st |-> "none", starts |-> 0]]
  /\ told = [r \in Runs |-> [rows |-> <<>>, notices |-> 0]]
  /\ faults = 0

In(s) == {r \in Runs : row[r].state = s}
Terminal == {r \in Runs : row[r].state \in Ended}
\* A draining hub has given the public port to its successor, and works on until it is retired.
Up(h) == hub[h].st \in {"up", "draining"}
Public(h) == hub[h].st = "up"
Idle(h) == Up(h) /\ hub[h].todo = <<>>
Fault == faults < MaxFaults /\ faults' = faults + 1
outside == <<net, target, proc>>

Task(d, r) == [do |-> d, run |-> r]
Pump == Task("pump", None)
Place(r) == CHOOSE i \in DOMAIN Order : Order[i] = r
OldestFirst(q) ==
  \A i, j \in DOMAIN q : i < j => Place(q[i]) < Place(q[j])
\* One task per run of S, oldest run first.
Each(d, S) ==
  LET q == CHOOSE q \in [1 .. Cardinality(S) -> S] : OldestFirst(q)
  IN [i \in 1 .. Cardinality(S) |-> Task(d, q[i])]

Do(h, d) == Up(h) /\ hub[h].todo # <<>> /\ Head(hub[h].todo).do = d
Now(h) == Head(hub[h].todo).run
\* The current task of h is done, tasks s come first among what is left.
After(h, s) == [hub EXCEPT ![h].todo = s \o Tail(@)]
Skip(h) == hub' = After(h, <<>>)

Freed(S) == [x \in Res |-> IF lease[x] \in S THEN None ELSE lease[x]]

-----------------------------------------------------------------------------
(* The queue *)

\* DurableRunController.start(): the run is created after an await, so also by a hub
\* that was shut down meanwhile; its pump does nothing then.
Create(h, r) ==
  /\ (Idle(h) /\ Public(h)) \/ hub[h].st = "closing"
  /\ row[r].state = "none"
  /\ \E i \in DOMAIN Order : Order[i] = r /\ \A j \in 1 .. i - 1 : row[Order[j]].state # "none"
  /\ \E away \in BOOLEAN, d \in {None} \cup {q \in Runs : row[q].state # "none"} :
       /\ away => r \in Away
       /\ row' = [row EXCEPT ![r].state = "queued", ![r].remote = away, ![r].dep = d]
  /\ hub' = IF Up(h) THEN [hub EXCEPT ![h].todo = <<Pump>>] ELSE hub
  /\ UNCHANGED <<lease, mon, outside, told, faults>>

Blocked(r) == row[r].dep # None /\ row[row[r].dep].state \in Ended \ {"succeeded"}
Waits(r) == row[r].dep # None /\ row[row[r].dep].state \in {"queued", "running"}
\* Mutant: a run asked to stop counts as having let its resources go.
CanHoldStopping(r) == \A x \in Needs[r] : lease[x] \notin {None, r} => row[lease[x]].cancel

CanHold(r) == \A x \in Needs[r] : lease[x] \in {None, r}
Claimable(r) == ~Blocked(r) /\ ~Waits(r) /\ CanHold(r)

\* pump() looks at each queued run once, oldest first; r is the next it can do something
\* about. (The run of the task is the last one looked at.)
Ahead(h) ==
  {r \in In("queued") : (Now(h) = None \/ Place(Now(h)) < Place(r)) /\ (Blocked(r) \/ Claimable(r))}
Turn(h, r) == Do(h, "pump") /\ r \in Ahead(h) /\ \A q \in Ahead(h) : Place(r) <= Place(q)

PumpDone(h) ==
  /\ Do(h, "pump") /\ Ahead(h) = {} /\ Skip(h)
  /\ UNCHANGED <<row, lease, mon, outside, told, faults>>

\* A run whose prerequisite did not succeed never starts.
FailBlocked(h, r) ==
  /\ Turn(h, r) /\ Blocked(r)
  /\ row' = [row EXCEPT ![r].state = "failed"]
  /\ hub' = After(h, <<Task("journal", r), Task("pump", r)>>)
  /\ UNCHANGED <<lease, mon, outside, told, faults>>

\* claimTx: all resources or none, and only from the queue.
Claim(h, r) ==
  /\ Turn(h, r) /\ Claimable(r)
  /\ row' = [row EXCEPT ![r].state = "running", ![r].stale = FALSE]
  /\ lease' = [x \in Res |-> IF x \in Needs[r] THEN r ELSE lease[x]]
  /\ hub' = After(h, <<Task("launch", r), Task("pump", r)>>)
  /\ UNCHANGED <<mon, outside, told, faults>>

Started(r) == [proc EXCEPT ![r] = [st |-> "alive", starts |-> @.starts + 1]]

\* launchRemote() begins its preparations, launchLocal() spawns the child and then journals
\* run/started. When that append throws, failLaunch() forgets the child, which goes on, and
\* finishes the run if it still runs; its pump falls into the one under way.
Launch(h) ==
  LET r == Now(h) IN
  /\ Do(h, "launch")
  /\ \/ /\ row[r].remote
        /\ mon' = [mon EXCEPT ![r] = [NoMon EXCEPT !.by = h, !.at = "prep"]]
        /\ hub' = [After(h, <<>>) EXCEPT ![h].own = @ \cup {r}]
        /\ UNCHANGED <<row, lease, proc, faults>>
     \/ /\ ~row[r].remote
        /\ proc' = Started(r)
        /\ hub' = [After(h, <<>>) EXCEPT ![h].own = @ \cup {r}]
        /\ UNCHANGED <<row, lease, mon, faults>>
     \/ /\ "journalFails" \in Env /\ Fault /\ ~row[r].remote
        /\ proc' = Started(r)
        /\ IF row[r].state = "running"
           THEN /\ row' = [row EXCEPT ![r].state = "failed"]
                /\ lease' = Freed({r})
                /\ hub' = After(h, <<Task("journal", r)>>)
           ELSE Skip(h) /\ UNCHANGED <<row, lease>>
        /\ UNCHANGED mon
  /\ UNCHANGED <<net, target, told>>

-----------------------------------------------------------------------------
(* The end of a run and its report *)

\* finish() takes effect on a running run only; h no longer owns it either way.
Finish(h, r, s) ==
  /\ Idle(h) /\ r \in hub[h].own
  /\ IF row[r].state = "running"
     THEN /\ row' = [row EXCEPT ![r].state = s]
          /\ lease' = Freed({r})
          /\ hub' = [hub EXCEPT ![h].own = @ \ {r}, ![h].todo = <<Task("journal", r), Pump>>]
     ELSE /\ hub' = [hub EXCEPT ![h].own = @ \ {r}, ![h].todo = <<Pump>>]
          /\ UNCHANGED <<row, lease>>

\* Mutant: the outcome is read when the child is asked to stop, not when it ended.
SettleEarly(h, r) ==
  /\ ~row[r].remote
  /\ Finish(h, r, proc[r].st)
  /\ UNCHANGED <<mon, outside, told, faults>>

\* settle(): the child of this hub ended.
Settle(h, r) ==
  /\ ~row[r].remote /\ proc[r].st \notin {"none", "alive"}
  /\ Finish(h, r, IF row[r].cancel THEN "cancelled" ELSE proc[r].st)
  /\ UNCHANGED <<mon, outside, told, faults>>

\* recordTerminal(): the journal row, the notice, and the mark that it was given.
Journal(h) ==
  LET r == Now(h) IN
  /\ Do(h, "journal")
  /\ told' = [told EXCEPT ![r].rows = Append(@, row[r].state)]
  /\ hub' = After(h, <<Task("notify", r)>>)
  /\ UNCHANGED <<row, lease, mon, outside, faults>>

\* reportDurableRunTerminal() posts under a receipt key of the run: a second post adds nothing.
Notice(r) == [told EXCEPT ![r].notices = IF @ = 0 THEN 1 ELSE @]
Notify(h) ==
  /\ Do(h, "notify")
  /\ told' = Notice(Now(h))
  /\ hub' = After(h, <<Task("mark", Now(h))>>)
  /\ UNCHANGED <<row, lease, mon, outside, faults>>

\* Mutant: a notice that could not be posted is marked as given.
NotifyFailsMarked(h) ==
  /\ Fault /\ Do(h, "notify") /\ Skip(h)
  /\ row' = [row EXCEPT ![Now(h)].notified = TRUE]
  /\ UNCHANGED <<lease, mon, outside, told>>

NotifyFails(h) ==
  /\ Fault /\ Do(h, "notify") /\ Skip(h)
  /\ UNCHANGED <<row, lease, mon, outside, told>>

Mark(h) ==
  /\ Do(h, "mark") /\ Skip(h)
  /\ row' = [row EXCEPT ![Now(h)].notified = TRUE]
  /\ UNCHANGED <<lease, mon, outside, told, faults>>

\* notifyPendingContinuations()
Unnotified == {r \in Terminal : ~row[r].notified}
Pending(h) ==
  /\ Do(h, "pending")
  /\ hub' = After(h, Each("notify", Unnotified))
  /\ UNCHANGED <<row, lease, mon, outside, told, faults>>

\* reconcileInterrupted(): a run nobody kept alive for 30 s ended in a way nobody saw.
Abandoned(h) == {r \in In("running") : row[r].stale /\ r \notin hub[h].own}
Reconcile(h) ==
  LET S == Abandoned(h) IN
  /\ Do(h, "reconcile")
  /\ row' = [r \in Runs |-> IF r \in S THEN [row[r] EXCEPT !.state = "outcome_unknown"] ELSE row[r]]
  /\ lease' = Freed(S)
  /\ hub' = After(h, Each("journal", S))
  /\ UNCHANGED <<mon, outside, told, faults>>

\* cancel(): a queued run is over; a running one is asked to stop, a remote one only by
\* the hub that can reach it.
Cancel(h, r) ==
  /\ Idle(h) /\ Public(h) /\ r \in Doubtful
  /\ \/ /\ row[r].state = "queued"
        /\ row' = [row EXCEPT ![r].state = "cancelled", ![r].cancel = TRUE]
        /\ hub' = [hub EXCEPT ![h].todo = <<Task("journal", r), Pump>>]
     \/ /\ row[r].state = "running" /\ ~row[r].cancel
        /\ row[r].remote => mon[r].by = h /\ mon[r].at \in {"start", "poll"}
        /\ row' = [row EXCEPT ![r].cancel = TRUE]
        /\ UNCHANGED hub
  /\ UNCHANGED <<lease, mon, outside, told, faults>>

-----------------------------------------------------------------------------
(* A remote command, seen from the source (monitorDurable) *)

At(h, r, phase) == Idle(h) /\ mon[r].by = h /\ mon[r].at = phase
Forget(r) == mon' = [mon EXCEPT ![r] = NoMon]

\* launchRemote(): the result is in. Writing its logs may throw after a success.
RemoteResult(h, r, s) ==
  /\ \/ Finish(h, r, s)
     \/ "resultWriteFails" \in Env /\ Finish(h, r, "failed")
  /\ Forget(r)
  /\ UNCHANGED <<target, proc, told>>

\* Preparing the checkout, the inspection and the capabilities come before the command.
PrepareFails(h, r) ==
  /\ At(h, r, "prep") /\ RemoteResult(h, r, "failed") /\ UNCHANGED <<net, faults>>

SendStart(h, r) ==
  /\ At(h, r, "prep")
  /\ mon' = [mon EXCEPT ![r].at = "start"]
  /\ net' = net \cup {<<r, "start">>}
  /\ UNCHANGED <<row, lease, hub, target, proc, told, faults>>

StartAnswered(h, r) ==
  /\ At(h, r, "start")
  /\ \/ mon[r].answer = "refused" /\ RemoteResult(h, r, "failed")
     \/ mon[r].answer = "unknown" /\ RemoteResult(h, r, "outcome_unknown")
     \/ /\ mon[r].answer = "running"
        /\ mon' = [mon EXCEPT ![r].at = "poll", ![r].answer = "none"]
        /\ UNCHANGED <<row, lease, hub, target, proc, told>>
  /\ UNCHANGED <<net, faults>>

\* A start is never sent again: the receipt is read instead. The request may be lost, or
\* (a fault) still on its way, or answered in vain.
StartTimesOut(h, r) ==
  /\ At(h, r, "start")
  /\ IF <<r, "start">> \notin net /\ mon[r].answer = "none" THEN UNCHANGED faults ELSE Fault
  /\ mon' = [mon EXCEPT ![r].at = "poll", ![r].answer = "none"]
  /\ UNCHANGED <<row, lease, hub, outside, told>>

SendCancel(h, r) ==
  /\ At(h, r, "poll") /\ row[r].cancel /\ ~mon[r].sent
  /\ mon' = [mon EXCEPT ![r].sent = TRUE]
  /\ net' = net \cup {<<r, "cancel">>}
  /\ UNCHANGED <<row, lease, hub, target, proc, told, faults>>

\* Mutant: a job the executor does not know has failed.
StatusFailed(r) ==
  IF target.receipt[r] = "running" /\ r \notin target.jobs THEN "failed" ELSE target.receipt[r]

\* exec_status: the receipt as the executor reads it, "none" when there is none.
Status(r) ==
  IF target.receipt[r] = "running" /\ r \notin target.jobs THEN "outcome_unknown"
  ELSE target.receipt[r]

Observed(r, lost) == mon' = [mon EXCEPT ![r].gone = lost] /\ UNCHANGED <<row, lease, hub, target, proc, told>>

Poll(h, r) ==
  /\ At(h, r, "poll")
  /\ \/ Status(r) \in Ended /\ RemoteResult(h, r, Status(r))
     \/ Status(r) = "running" /\ mon[r].gone /\ Observed(r, FALSE)
     \/ Status(r) = "none" /\ ~mon[r].gone /\ Observed(r, TRUE)
  /\ UNCHANGED <<net, faults>>

PollLost(h, r) ==
  /\ Fault /\ At(h, r, "poll") /\ ~mon[r].gone /\ Observed(r, TRUE)
  /\ UNCHANGED net

\* 60 s without an observation.
GiveUp(h, r) ==
  /\ At(h, r, "poll") /\ mon[r].gone
  /\ RemoteResult(h, r, "outcome_unknown")
  /\ UNCHANGED <<net, faults>>

-----------------------------------------------------------------------------
(* The target, the processes and the network *)

Reply(r, a) ==
  mon' = IF mon[r].at = "start" /\ mon[r].answer = "none" THEN [mon EXCEPT ![r].answer = a] ELSE mon

\* Mutant: the receipt is written over an earlier one.
AdmitAgain(r) ==
  /\ target' = [target EXCEPT !.receipt[r] = "running", !.jobs = @ \cup {r}]
  /\ proc' = Started(r)

\* exec_start: the receipt is created exclusively before the spawn.
Admit(r) ==
  /\ target.receipt[r] = "none"
  /\ target' = [target EXCEPT !.receipt[r] = "running", !.jobs = @ \cup {r}]
  /\ proc' = Started(r)

TargetStart(r) ==
  /\ <<r, "start">> \in net
  /\ \/ net' = net \ {<<r, "start">>} /\ UNCHANGED faults
     \/ Fault /\ UNCHANGED net                            \* delivered twice
  /\ \/ Admit(r) /\ Reply(r, "running")
     \/ "httpError" \in Env /\ Admit(r) /\ Reply(r, "refused")
     \/ target.receipt[r] # "none" /\ Reply(r, "unknown") /\ UNCHANGED <<target, proc>>
  /\ UNCHANGED <<row, lease, hub, told>>

\* Access was revoked, or the command is not acceptable.
TargetRefuses(r) ==
  /\ <<r, "start">> \in net
  /\ net' = net \ {<<r, "start">>} /\ Reply(r, "refused")
  /\ UNCHANGED <<row, lease, hub, target, proc, told, faults>>

TargetCancel(r) ==
  /\ <<r, "cancel">> \in net /\ net' = net \ {<<r, "cancel">>}
  /\ target' = [target EXCEPT !.aborted = @ \cup ({r} \cap target.jobs)]
  /\ UNCHANGED <<row, lease, hub, mon, proc, told, faults>>

\* A request is lost; the source times out.
Lose ==
  /\ Fault /\ \E m \in net : net' = net \ {m}
  /\ UNCHANGED <<row, lease, hub, mon, target, proc, told>>

\* A command ends. The executor that started it writes the receipt; one that has since
\* restarted does not know of it, unless the old process is still there to write it.
Exit(r) ==
  /\ proc[r].st = "alive"
  /\ \E s \in {"succeeded", IF r \in target.aborted THEN "cancelled" ELSE "failed"} :
       /\ proc' = [proc EXCEPT ![r].st = s]
       /\ \/ row[r].remote /\ target' = [target EXCEPT !.receipt[r] = s, !.jobs = @ \ {r}]
          \/ r \notin target.jobs /\ UNCHANGED target
  /\ UNCHANGED <<row, lease, hub, mon, net, told, faults>>

TargetRestart ==
  /\ Fault /\ target.jobs # {}
  /\ target' = [target EXCEPT !.jobs = {}, !.aborted = {}]
  /\ UNCHANGED <<row, lease, hub, mon, net, proc, told>>

-----------------------------------------------------------------------------
(* Time and the life of a hub *)

Launching(h) == IF Do(h, "launch") THEN {Now(h)} ELSE {}
Kept(r) == \E h \in Hubs : Up(h) /\ r \in hub[h].own \cup Launching(h)

\* 30 s without a heartbeat: the owner is gone ...
GoStale(r) ==
  /\ row[r].state = "running" /\ ~row[r].stale /\ ~Kept(r)
  /\ row' = [row EXCEPT ![r].stale = TRUE]
  /\ UNCHANGED <<lease, hub, mon, outside, told, faults>>

\* ... or asleep.
Sleep(r) ==
  /\ Fault /\ row[r].state = "running" /\ ~row[r].stale /\ Kept(r)
  /\ row' = [row EXCEPT ![r].stale = TRUE]
  /\ UNCHANGED <<lease, hub, mon, outside, told>>

Heartbeat(h, r) ==
  /\ Idle(h) /\ r \in hub[h].own /\ row[r].state = "running" /\ row[r].stale
  /\ row' = [row EXCEPT ![r].stale = FALSE]
  /\ UNCHANGED <<lease, hub, mon, outside, told, faults>>

\* What activate() and the 5 s monitor do, without the parts that would find nothing.
Round(h) ==
  (IF Abandoned(h) # {} THEN <<Task("reconcile", None)>> ELSE <<>>) \o
  (IF Unnotified # {} THEN <<Task("pending", None)>> ELSE <<>>) \o
  (IF \E r \in In("queued") : Blocked(r) \/ Claimable(r) THEN <<Pump>> ELSE <<>>)

Tick(h) ==
  /\ Idle(h) /\ Round(h) # <<>>
  /\ hub' = [hub EXCEPT ![h].todo = Round(h)]
  /\ UNCHANGED <<row, lease, mon, outside, told, faults>>

\* activate(), once the process serves the public port: alone, or taking it over from one
\* that drains. What was still closing of a process of that name has ended.
Boot(h) ==
  /\ ~Up(h) /\ h = First /\ \A g \in Hubs : ~Up(g)
  /\ hub' = [hub EXCEPT ![h].st = "up", ![h].todo = Round(h)]
  /\ UNCHANGED <<row, lease, mon, outside, told, faults>>

TakeOver(h, g) ==
  /\ Fault /\ ~Up(h) /\ Idle(g) /\ Public(g)
  /\ hub' = [hub EXCEPT ![h].st = "up", ![h].todo = Round(h), ![g].st = "draining"]
  /\ UNCHANGED <<row, lease, mon, outside, told>>

\* The successor is gone: the draining hub is rebound to the public port.
Rebind(h) ==
  /\ hub[h].st = "draining" /\ \A g \in Hubs : ~Public(g)
  /\ hub' = [hub EXCEPT ![h].st = "up"]
  /\ UNCHANGED <<row, lease, mon, outside, told, faults>>

\* The process's memory goes; its children and remote commands do not.
Loses(h) == mon' = [r \in Runs |-> IF mon[r].by = h THEN NoMon ELSE mon[r]]

Shutdown(h) ==
  /\ Idle(h) /\ Loses(h)
  /\ IF Public(h) THEN Fault ELSE UNCHANGED faults
  /\ hub' = [hub EXCEPT ![h].st = "closing", ![h].own = {}]
  /\ UNCHANGED <<row, lease, outside, told>>

Kill(h) ==
  /\ Fault /\ Up(h) /\ Loses(h)
  /\ hub' = [hub EXCEPT ![h] = [st |-> "off", todo |-> <<>>, own |-> {}]]
  /\ UNCHANGED <<row, lease, outside, told>>

Work(h) ==
  \/ PumpDone(h) \/ \E r \in Runs : FailBlocked(h, r) \/ Claim(h, r)
  \/ Launch(h) \/ Journal(h) \/ Notify(h) \/ Mark(h)
  \/ Pending(h) \/ Reconcile(h)

Watch(h, r) ==
  \/ PrepareFails(h, r) \/ SendStart(h, r) \/ StartAnswered(h, r) \/ Poll(h, r) \/ GiveUp(h, r)

Next ==
  \/ \E h \in Hubs :
       \/ Work(h) \/ NotifyFails(h)
       \/ Tick(h) \/ Boot(h) \/ Rebind(h) \/ Shutdown(h) \/ Kill(h)
       \/ \E g \in Hubs : TakeOver(h, g)
       \/ \E r \in Runs :
            \/ Create(h, r) \/ Settle(h, r) \/ Cancel(h, r) \/ Heartbeat(h, r)
            \/ Watch(h, r) \/ SendCancel(h, r) \/ StartTimesOut(h, r) \/ PollLost(h, r)
  \/ \E r \in Runs : TargetStart(r) \/ TargetRefuses(r) \/ TargetCancel(r)
                     \/ Exit(r) \/ GoStale(r) \/ Sleep(r)
  \/ Lose \/ TargetRestart

Spec == Init /\ [][Next]_vars

HubStep(h) ==
  \/ Work(h) \/ Tick(h)
  \/ \E r \in Runs : Settle(h, r) \/ Watch(h, r) \/ StartTimesOut(h, r)

\* The event loop runs its callbacks and timers, the supervisor keeps a hub up, a request
\* arrives, is lost or times out, commands end, and time passes.
Fairness ==
  /\ \A h \in Hubs : WF_vars(HubStep(h))
  /\ WF_vars(Boot(First))
  /\ WF_vars(\E r \in Runs : TargetStart(r) \/ Exit(r) \/ GoStale(r))

FairSpec == Spec /\ Fairness

-----------------------------------------------------------------------------
(* Properties *)

\* Two commands that need one resource are never at work together, unless the hub has
\* recorded that it does not know how one of them ended (and let its lease go).
ResourceAlone ==
  \A r, q \in Runs :
    /\ r # q /\ proc[r].st = "alive" /\ proc[q].st = "alive" /\ Needs[r] \cap Needs[q] # {}
    => "outcome_unknown" \in {row[r].state, row[q].state}

\* What is recorded of a command is what it did: a success succeeded, a failure did not
\* start or failed, and a cancelled one is not still at work.
OutcomeHonest ==
  \A r \in Runs :
    /\ row[r].state = "succeeded" => proc[r].st = "succeeded"
    /\ row[r].state = "failed" => proc[r].st \in {"none", "failed", "cancelled"}
    /\ row[r].state = "cancelled" => proc[r].st # "alive"

\* A command is started at most once, by whatever crash, hand-over or second delivery,
\* and only after its prerequisite succeeded.
StartedOnce ==
  \A r \in Runs :
    /\ proc[r].starts <= 1
    /\ proc[r].starts > 0 /\ row[r].dep # None => proc[row[r].dep].st = "succeeded"

\* However many hubs see a run end, it has one end, one journal row that names it, and
\* one notice in its owner's inbox.
ReportedOnce ==
  \A r \in Runs :
    /\ told[r].rows \in {<<>>, <<row[r].state>>}
    /\ told[r].notices <= 1

\* A run happens once, for the machine and for the reader.
OncePerRun == StartedOnce /\ ReportedOnce

\* A requested run ends and the chat that asked for it is told, whatever happens to the
\* hubs, the network and the target.
OwnerTold == \A r \in Runs : row[r].state = "queued" ~> told[r].notices > 0

=============================================================================
