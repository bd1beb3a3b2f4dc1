------------------------------ MODULE RelayLane ------------------------------
(***************************************************************************)
(* The relay lane: a tool call of an agent that needs the hub is relayed   *)
(* by the worker and stays pending there until some hub answers it         *)
(* (workerTransport.ts).  A relay that was not answered is sent again to   *)
(* whichever hub attaches next, so each hub must recognise what it, or its *)
(* predecessor, has already done: calls that write are answered from a     *)
(* cache (workerExecutor.ts), approvals are recognised by an id derived    *)
(* from their content (approvals.ts).                                      *)
(*                                                                         *)
(* The hubs are the processes hubctl starts one after another: blue, green *)
(* or, after a crash, a new one.  All approvals modelled ask for the same  *)
(* payload and so carry the same id; those of other payloads never meet    *)
(* them.                                                                   *)
(***************************************************************************)
EXTENDS Integers, Sequences, FiniteSets

CONSTANTS
  Kinds,      \* the relays the agents issue, see AllKinds
  Env,        \* what the environment may do, see EnvKinds
  QueueMax,   \* RELAY_QUEUE_MAX
  MaxHubs,    \* bound: hub processes started
  MaxRelays,  \* bound: relays issued
  MaxFaults   \* bound: socket drops, hub crashes and worker deaths

AllKinds ==
  { "write",     \* an rpc of WRITE_RELAY_METHODS, answered in the callback that receives it
    "action",    \* any other rpc that changes durable state, answered some time later
    "approval" }

EnvKinds ==
  { "flap",        \* the socket between the worker and a hub drops
    "hubCrash",    \* the serving hub dies outside a flip
    "respawn",     \* the worker dies and is started again
    "flip",        \* hubctl replaces the serving hub, or fails to
    "auto",        \* a policy approves a request without the operator
    "review",      \* a scoped reviewer may decide in the operator's place
    "staleReply",  \* an rpc of a dead worker process is answered to its successor
    "quickRepeat", \* an identical approval is requested while the last one is still answered
    "quickAbort" } \* a flip is aborted before its traces on the sockets were noticed

ASSUME KindsAssumption == Kinds \subseteq AllKinds
ASSUME EnvAssumption == Env \subseteq EnvKinds
ASSUME BoundsAssumption ==
  QueueMax \in Nat /\ MaxHubs \in Nat \ {0} /\ MaxRelays \in Nat /\ MaxFaults \in Nat

Hubs == 1 .. MaxHubs
None == 0            \* no hub

VARIABLES
  \* the hubs and their sockets
  hub, chan,
  \* hubctl: a flip is in progress; the last epoch given out
  flipping, clock,
  \* the worker: process generation, callSeq, pendingRelays, current channel, its epoch
  gen, seq, pend, current, currentEpoch, draining,
  \* durable: the latest approval/resolved row and the latest approval_decisions decider
  resolved, decider,
  \* ghosts: relays issued, executions per hub, answered relays, the hubs that decided a request
  issued, effects, answers, decided,
  faults

supervisor == <<flipping, clock>>
worker     == <<gen, seq, pend, current, currentEpoch, draining>>
durable    == <<resolved, decider>>
ghosts     == <<issued, effects, answers, decided>>
vars       == <<hub, chan, supervisor, worker, durable, ghosts, faults>>

\* A relay: rpcs are identified by callId, unique within a worker process; approvals
\* share id 0.  `of` is a ghost: the worker generation of an rpc, the serial number of
\* an approval.
Requests == [kind : AllKinds, id : Nat, of : Nat]

Roles == {"off", "live", "standby", "draining", "dead"}

HubStates ==
  [role : Roles, epoch : Nat,
   att : BOOLEAN,                      \* the worker's welcome was received on this socket
   gen : Nat,                          \* currentGeneration (0: none yet)
   served : SUBSET [id : Nat, of : Nat],  \* servedWrites; a lookup compares the id only
   running : Seq(Requests),            \* rpcs not answered yet
   asked : Nat,                        \* the pending approval's latest invocation (0: none)
   waiting : Nat,                      \* relays to answer when it is decided
   recovers : BOOLEAN]                 \* the id is not in recoveredIds, and
                                       \* RESOLVED_RECOVERY_WINDOW_MS has not elapsed

NoHub(role) ==
  [role |-> role, epoch |-> 0, att |-> FALSE, gen |-> 0, served |-> {}, running |-> << >>,
   asked |-> 0, waiting |-> 0, recovers |-> FALSE]

NewHub(role, e) == [NoHub(role) EXCEPT !.epoch = e, !.recovers = TRUE]

Alive(h) == hub[h].role \in {"live", "standby", "draining"}

Deciders == {"operator", "reviewer", "policy", "system"}

Hello(e)     == [t |-> "hello", epoch |-> e]
Draining(on) == [t |-> "draining", on |-> on]
\* `of`, `by` and `who` are ghosts: what the answer was made for, by which hub and whom.
Reply(r, of, by, who) == [t |-> "reply", id |-> r.id, of |-> of, by |-> by, who |-> who]
Welcome(g)   == [t |-> "welcome", gen |-> g]
Relayed(r)   == [t |-> "relay", req |-> r]

\* "hubGone", "workerGone": that end is closed, the other has not noticed yet.
Links == {"none", "open", "hubGone", "workerGone"}
Closed == [link |-> "none", toHub |-> << >>, toWorker |-> << >>]

-----------------------------------------------------------------------------
(* The worker: WorkerServer.                                               *)

Timers == {"none", "reach", "backstop"}

\* channelReady(): a current channel that is not draining.
Ready == current # None /\ ~draining

\* WorkerFrameChannel.send() on the worker's side: lost when the hub's end is gone.
ToHub(c, h, ms) == [c EXCEPT ![h].toHub = IF c[h].link = "open" THEN @ \o ms ELSE @]

\* Mutant: the backstop timer of an rpc is looked up by kind.
DeliveredTimerByKind(r) == IF r.kind = "approval" THEN "none" ELSE r.kind

\* armDeliveredBackstop(): an approval may wait for a human, an rpc may not.
DeliveredTimer(r) == IF r.kind = "approval" THEN "none" ELSE "backstop"

\* detach(): every relay gets the bound for reaching a hub.
Detached(p) == [i \in DOMAIN p |-> [p[i] EXCEPT !.timer = "reach"]]

\* flushRelays(): every relay is sent, in order, and counts as delivered.
Flushed(p) == [i \in DOMAIN p |-> [p[i] EXCEPT !.timer = DeliveredTimer(p[i].req)]]

Frames(p) == [i \in DOMAIN p |-> Relayed(p[i].req)]

Without(q, i) == SubSeq(q, 1, i - 1) \o SubSeq(q, i + 1, Len(q))

\* relay(): refused when the lane is full; sent now, or held until a hub attaches.
Relay(r) ==
  IF Len(pend) >= QueueMax THEN UNCHANGED <<pend, chan>>
  ELSE /\ pend' = Append(pend, [req |-> r, timer |-> IF Ready THEN DeliveredTimer(r) ELSE "reach"])
       /\ chan' = IF Ready THEN ToHub(chan, current, <<Relayed(r)>>) ELSE chan

\* relayRpc(): every logical call gets a callId of its own.
Call ==
  /\ issued < MaxRelays /\ issued' = issued + 1
  /\ seq' = seq + 1
  /\ decided' = Append(decided, {})
  /\ \E k \in Kinds \ {"approval"} : Relay([kind |-> k, id |-> seq', of |-> gen])
  /\ UNCHANGED <<hub, supervisor, gen, current, currentEpoch, draining, durable, effects, answers, faults>>

\* The relay, or an answer to it, is on some socket.
Travelling(id) ==
  \E h \in Hubs :
    \/ \E i \in DOMAIN chan[h].toHub : chan[h].toHub[i].t = "relay" /\ chan[h].toHub[i].req.id = id
    \/ \E i \in DOMAIN chan[h].toWorker : chan[h].toWorker[i].t = "reply" /\ chan[h].toWorker[i].id = id

\* relayApprovalDetailed(): a request that repeats a pending one joins it, so a new one
\* is only sent when none is pending.
Ask ==
  /\ "approval" \in Kinds
  /\ issued < MaxRelays /\ issued' = issued + 1
  /\ \A i \in DOMAIN pend : pend[i].req.id # 0
  /\ Travelling(0) => "quickRepeat" \in Env
  /\ decided' = Append(decided, {})
  /\ Relay([kind |-> "approval", id |-> 0, of |-> issued'])
  /\ UNCHANGED <<hub, supervisor, gen, seq, current, currentEpoch, draining, durable, effects, answers, faults>>

\* An armed timer fires: the caller is told that no hub is available.  Its 45 s and more
\* outlast any frame on a socket.
RelayTimeout ==
  /\ \E i \in DOMAIN pend :
       /\ pend[i].timer # "none" /\ ~Travelling(pend[i].req.id)
       /\ pend' = Without(pend, i)
  /\ UNCHANGED <<hub, chan, supervisor, gen, seq, current, currentEpoch, draining, durable, ghosts, faults>>

\* The next frame from hub h.
FromHub(h, t) ==
  /\ chan[h].link \in {"open", "hubGone"} /\ chan[h].toWorker # << >>
  /\ Head(chan[h].toWorker).t = t

ReadFrom(h) == [chan EXCEPT ![h].toWorker = Tail(@)]

\* destroy() of the channel to hub h: what was written before may still arrive.
Destroyed(c, h) ==
  [c EXCEPT ![h] = CASE @.link = "open"       -> [@ EXCEPT !.link = "workerGone", !.toWorker = << >>]
                     [] @.link = "workerGone" -> @
                     [] OTHER                 -> Closed]

\* Mutant: the lane counts as delivered to a hub it was not sent to.
RecvHelloUnflushed(h) ==
  /\ FromHub(h, "hello")
  /\ IF Head(chan[h].toWorker).epoch < currentEpoch
     THEN chan' = Destroyed(ReadFrom(h), h) /\ UNCHANGED <<pend, current, currentEpoch, draining>>
     ELSE LET prev == IF current \in {None, h} THEN ReadFrom(h) ELSE Destroyed(ReadFrom(h), current)
          IN  /\ chan' = ToHub(prev, h, <<Welcome(gen)>>)
              /\ pend' = Flushed(pend)
              /\ current' = h /\ currentEpoch' = Head(chan[h].toWorker).epoch
              /\ draining' = FALSE
  /\ UNCHANGED <<hub, supervisor, gen, seq, durable, ghosts, faults>>

\* attach(): a hello below the promoted epoch is refused; otherwise its channel replaces
\* the current one, is welcomed, and gets the whole lane.
RecvHello(h) ==
  /\ FromHub(h, "hello")
  /\ IF Head(chan[h].toWorker).epoch < currentEpoch
     THEN chan' = Destroyed(ReadFrom(h), h) /\ UNCHANGED <<pend, current, currentEpoch, draining>>
     ELSE LET prev == IF current \in {None, h} THEN ReadFrom(h) ELSE Destroyed(ReadFrom(h), current)
          IN  /\ chan' = ToHub(prev, h, <<Welcome(gen)>> \o Frames(pend))
              /\ pend' = Flushed(pend)
              /\ current' = h /\ currentEpoch' = Head(chan[h].toWorker).epoch
              /\ draining' = FALSE
  /\ UNCHANGED <<hub, supervisor, gen, seq, durable, ghosts, faults>>

\* dispatch(): a push is ignored while another hub is current.  setDraining() holds the
\* lane; release() sends it again in place, if a hub is current.
RecvDraining(h) ==
  /\ FromHub(h, "draining")
  /\ LET on == Head(chan[h].toWorker).on
     IN  CASE current \notin {None, h} ->
                chan' = ReadFrom(h) /\ UNCHANGED <<pend, draining>>
           [] current \in {None, h} /\ (on \/ current = None) ->
                chan' = ReadFrom(h) /\ pend' = (IF on THEN Detached(pend) ELSE pend) /\ draining' = on
           [] OTHER ->
                chan' = ToHub(ReadFrom(h), h, Frames(pend)) /\ pend' = Flushed(pend) /\ draining' = FALSE
  /\ UNCHANGED <<hub, supervisor, gen, seq, current, currentEpoch, durable, ghosts, faults>>

\* resolveRelay(): by id, from any channel; a reply to nothing pending is dropped.
RecvReply(h) ==
  /\ FromHub(h, "reply")
  /\ chan' = ReadFrom(h)
  /\ LET m    == Head(chan[h].toWorker)
         hits == {i \in DOMAIN pend : pend[i].req.id = m.id}
     IN  IF hits = {} THEN UNCHANGED <<pend, answers>>
         ELSE \E i \in hits :
                /\ pend' = Without(pend, i)
                /\ answers' = answers \cup {[req |-> pend[i].req, reply |-> m, at |-> h]}
  /\ UNCHANGED <<hub, supervisor, gen, seq, current, currentEpoch, draining, durable, issued, effects, decided, faults>>

\* Mutant: the lane is not held against the reach-a-hub bound when the channel closes.
WorkerNoticesUnarmed(h) ==
  /\ chan[h].link = "hubGone" /\ chan[h].toWorker = << >>
  /\ chan' = [chan EXCEPT ![h] = Closed]
  /\ current' = IF current = h THEN None ELSE current
  /\ UNCHANGED <<hub, supervisor, pend, gen, seq, currentEpoch, draining, durable, ghosts, faults>>

\* onChannelClosed().
WorkerNotices(h) ==
  /\ chan[h].link = "hubGone" /\ chan[h].toWorker = << >>
  /\ chan' = [chan EXCEPT ![h] = Closed]
  /\ IF current = h THEN current' = None /\ pend' = Detached(pend) ELSE UNCHANGED <<current, pend>>
  /\ UNCHANGED <<hub, supervisor, gen, seq, currentEpoch, draining, durable, ghosts, faults>>

\* The worker process dies with its lane and is started again.
WorkerDeath ==
  /\ "respawn" \in Env /\ faults < MaxFaults /\ faults' = faults + 1
  /\ gen' = gen + 1 /\ seq' = 0 /\ pend' = << >>
  /\ current' = None /\ currentEpoch' = 0 /\ draining' = FALSE
  /\ chan' = [h \in Hubs |-> Destroyed(chan, h)[h]]
  /\ UNCHANGED <<hub, supervisor, durable, ghosts>>

-----------------------------------------------------------------------------
(* The hub: WorkerClient and WorkerExecutor.                               *)

\* WorkerClient.send(): dropped unless attached, lost when the worker's end is gone.
ToWorker(c, h, ms) ==
  [c EXCEPT ![h].toWorker = IF hub[h].att /\ c[h].link = "open" THEN @ \o ms ELSE @]

\* connect() and its hello; the reconnect timer calls it until it succeeds.
Connect(h) ==
  /\ Alive(h) /\ chan[h].link = "none"
  /\ chan' = [chan EXCEPT ![h] = [Closed EXCEPT !.link = "open", !.toWorker = <<Hello(hub[h].epoch)>>]]
  /\ UNCHANGED <<hub, supervisor, worker, durable, ghosts, faults>>

HubNotices(h) ==
  /\ Alive(h) /\ chan[h].link = "workerGone" /\ chan[h].toHub = << >>
  /\ chan' = [chan EXCEPT ![h] = Closed]
  /\ hub' = [hub EXCEPT ![h].att = FALSE]
  /\ UNCHANGED <<supervisor, worker, durable, ghosts, faults>>

\* The next frame from the worker.
FromWorker(h, t) ==
  /\ Alive(h) /\ chan[h].link \in {"open", "workerGone"} /\ chan[h].toHub # << >>
  /\ Head(chan[h].toHub).t = t

ReadBy(h) == [chan EXCEPT ![h].toHub = Tail(@)]

\* Mutant: the cache outlives the worker process.
RecvWelcomeKeepingCache(h) ==
  /\ FromWorker(h, "welcome")
  /\ hub' = [hub EXCEPT ![h].att = TRUE, ![h].gen = Head(chan[h].toHub).gen]
  /\ chan' = ReadBy(h)
  /\ UNCHANGED <<supervisor, worker, durable, ghosts, faults>>

\* Mutant: the cache is dropped on every attach.
RecvWelcomeDroppingCache(h) ==
  /\ FromWorker(h, "welcome")
  /\ hub' = [hub EXCEPT ![h].att = TRUE, ![h].gen = Head(chan[h].toHub).gen, ![h].served = {}]
  /\ chan' = ReadBy(h)
  /\ UNCHANGED <<supervisor, worker, durable, ghosts, faults>>

\* onWorkerGeneration(): another worker process starts its callIds afresh.
RecvWelcome(h) ==
  /\ FromWorker(h, "welcome")
  /\ LET g == Head(chan[h].toHub).gen
     IN  hub' = [hub EXCEPT ![h].att = TRUE, ![h].gen = g,
                            ![h].served = IF hub[h].gen \in {0, g} THEN @ ELSE {}]
  /\ chan' = ReadBy(h)
  /\ UNCHANGED <<supervisor, worker, durable, ghosts, faults>>

\* The relay at the head of the channel.
Request(h) == Head(chan[h].toHub).req

Executed(h) == effects' = [effects EXCEPT ![h] = Append(@, Request(h))]

\* dispatchRpc() of a write: answered from the cache, or executed, cached and answered.
ServeWrite(h) ==
  /\ FromWorker(h, "relay") /\ Request(h).kind = "write"
  /\ LET r    == Request(h)
         hits == {s \in hub[h].served : s.id = r.id}
     IN  IF hits # {}
         THEN /\ \E s \in hits : chan' = ToWorker(ReadBy(h), h, <<Reply(r, s.of, h, "hub")>>)
              /\ UNCHANGED <<hub, effects>>
         ELSE /\ Executed(h)
              /\ hub' = [hub EXCEPT ![h].served = @ \cup {[id |-> r.id, of |-> r.of]}]
              /\ chan' = ToWorker(ReadBy(h), h, <<Reply(r, r.of, h, "hub")>>)
  /\ UNCHANGED <<supervisor, worker, durable, issued, answers, decided, faults>>

\* dispatchRpc() of a method that is not cached: executed whenever it arrives.
StartAction(h) ==
  /\ FromWorker(h, "relay") /\ Request(h).kind = "action"
  /\ Executed(h)
  /\ hub' = [hub EXCEPT ![h].running = Append(@, Request(h))]
  /\ chan' = ReadBy(h)
  /\ UNCHANGED <<supervisor, worker, durable, issued, answers, decided, faults>>

FinishAction(h) ==
  /\ Alive(h)
  /\ \E i \in DOMAIN hub[h].running :
       LET r == hub[h].running[i]
       IN  /\ r.of = gen \/ "staleReply" \in Env
           /\ hub' = [hub EXCEPT ![h].running = Without(@, i)]
           /\ chan' = ToWorker(chan, h, <<Reply(r, r.of, h, "hub")>>)
  /\ UNCHANGED <<supervisor, worker, durable, ghosts, faults>>

-----------------------------------------------------------------------------
(* The hub: ApprovalService.                                               *)

NoDecision == [of |-> 0, by |-> None, who |-> "system"]

\* An approval request that is not pending on hub h arrives.
AskArrives(h) == FromWorker(h, "relay") /\ Request(h).kind = "approval" /\ hub[h].asked = 0

\* The reply a recorded decision gives.
Recorded(h, d) == Reply(Request(h), d.of, d.by, d.who)

\* A decision may be one of a predecessor whose answer was lost.
MayRecover(h) == hub[h].recovers /\ (decider = "reviewer" \/ resolved # NoDecision)

\* request() of an id already pending: both wait for the same decision.
JoinAsk(h) ==
  /\ FromWorker(h, "relay") /\ Request(h).kind = "approval" /\ hub[h].asked # 0
  /\ hub' = [hub EXCEPT ![h].asked = Request(h).of, ![h].waiting = @ + 1]
  /\ chan' = ReadBy(h)
  /\ UNCHANGED <<supervisor, worker, durable, ghosts, faults>>

\* Shortly after its start a hub applies a decision on record, once per id; one of a
\* scoped reviewer is refused instead.
RecoverDecision(h) ==
  /\ AskArrives(h) /\ MayRecover(h)
  /\ hub' = [hub EXCEPT ![h].recovers = FALSE]
  /\ chan' = ToWorker(ReadBy(h), h,
               IF decider = "reviewer" THEN <<Reply(Request(h), Request(h).of, h, "system")>>
               ELSE <<Recorded(h, resolved)>>)
  /\ UNCHANGED <<supervisor, worker, durable, ghosts, faults>>

\* autoApprove(): recorded among the decisions, but not as approval/resolved.
AutoApprove(h) ==
  /\ "auto" \in Env
  /\ AskArrives(h) /\ ~MayRecover(h)
  /\ decider' = "policy"
  /\ chan' = ToWorker(ReadBy(h), h, <<Reply(Request(h), Request(h).of, h, "policy")>>)
  /\ UNCHANGED <<hub, supervisor, worker, resolved, ghosts, faults>>

AskOperator(h) ==
  /\ AskArrives(h) /\ ~MayRecover(h)
  /\ hub' = [hub EXCEPT ![h].asked = Request(h).of, ![h].waiting = 1]
  /\ chan' = ReadBy(h)
  /\ UNCHANGED <<supervisor, worker, durable, ghosts, faults>>

\* Environment assumption without "quickRepeat": hub h does not decide an invocation
\* the worker gave up, while a later identical one has not reached it.
Outdated(h) ==
  /\ hub[h].att /\ chan[h].link = "open"
  /\ \E i \in DOMAIN pend : pend[i].req.id = 0 /\ pend[i].req.of # hub[h].asked

\* finish(): the decision becomes durable, then everyone waiting is answered.
Finish(h, who) ==
  /\ Alive(h) /\ hub[h].asked # 0
  /\ Outdated(h) => "quickRepeat" \in Env
  /\ LET d == [of |-> hub[h].asked, by |-> h, who |-> who]
     IN  /\ resolved' = d
         /\ chan' = ToWorker(chan, h, [i \in 1 .. hub[h].waiting |->
                      Reply([id |-> 0], d.of, d.by, d.who)])
  /\ decider' = who
  /\ hub' = [hub EXCEPT ![h].asked = 0, ![h].waiting = 0, ![h].recovers = FALSE]

\* resolve(): the operator, or a scoped reviewer, decides on the hub that owns the port.
Decide(h) ==
  /\ hub[h].role = "live"
  /\ Finish(h, "operator") \/ ("review" \in Env /\ Finish(h, "reviewer"))
  /\ decided' = [decided EXCEPT ![hub[h].asked] = @ \cup {h}]
  /\ UNCHANGED <<supervisor, worker, issued, effects, answers, faults>>

\* The request's own timeout.
Expire(h) ==
  /\ Finish(h, "system")
  /\ UNCHANGED <<supervisor, worker, ghosts, faults>>

CloseWindow(h) ==
  /\ Alive(h) /\ hub[h].recovers
  /\ hub' = [hub EXCEPT ![h].recovers = FALSE]
  /\ UNCHANGED <<chan, supervisor, worker, durable, ghosts, faults>>

-----------------------------------------------------------------------------
(* hubctl and the faults of hubs and sockets.                              *)

Startable(h) == hub[h].role = "off" /\ \A k \in 1 .. h - 1 : hub[k].role # "off"

\* WorkerClient's constructor takes the start time as its epoch.
Start(h, role) == hub' = [hub EXCEPT ![h] = NewHub(role, clock + 1)] /\ clock' = clock + 1

\* A hub attaches to the worker as soon as it runs: green does before blue is drained.
BootGreen(h) ==
  /\ "flip" \in Env /\ ~flipping /\ flipping' = TRUE
  /\ Startable(h) /\ \E b \in Hubs : hub[b].role = "live"
  /\ Start(h, "standby")
  /\ UNCHANGED <<chan, worker, durable, ghosts, faults>>

Drain(b) ==
  /\ flipping /\ hub[b].role = "live" /\ \E g \in Hubs : hub[g].role = "standby"
  /\ hub' = [hub EXCEPT ![b].role = "draining"]
  /\ chan' = ToWorker(chan, b, <<Draining(TRUE)>>)
  /\ UNCHANGED <<supervisor, worker, durable, ghosts, faults>>

Promote(g) ==
  /\ hub[g].role = "standby" /\ \A b \in Hubs : hub[b].role # "live"
  /\ hub' = [hub EXCEPT ![g].role = "live"]
  /\ flipping' = FALSE
  /\ UNCHANGED <<chan, clock, worker, durable, ghosts, faults>>

\* The process ends: what it had written to the socket may still arrive.
Die(h) ==
  /\ hub' = [hub EXCEPT ![h] = NoHub("dead")]
  /\ chan' = [chan EXCEPT ![h] = CASE @.link = "open"    -> [@ EXCEPT !.link = "hubGone", !.toHub = << >>]
                                    [] @.link = "hubGone" -> @
                                    [] OTHER              -> Closed]

Retire(b) ==
  /\ ~flipping /\ hub[b].role = "draining"
  /\ Die(b)
  /\ UNCHANGED <<supervisor, worker, durable, ghosts, faults>>

\* Green crashes, or hubctl kills it to roll the flip back.
GreenDies(g) ==
  /\ hub[g].role = "standby"
  /\ Die(g)
  /\ UNCHANGED <<supervisor, worker, durable, ghosts, faults>>

\* Environment assumption without "quickAbort": the worker has read what green left on
\* its socket, and blue has seen its own channel displaced.
Noticed(b) == (\A k \in Hubs : chan[k].link # "hubGone") /\ (hub[b].att => chan[b].link = "open")

\* Mutant: the rolled-back hub keeps its epoch.
RollbackSameEpoch(b) ==
  /\ flipping /\ flipping' = FALSE
  /\ hub[b].role \in {"live", "draining"} /\ \A g \in Hubs : hub[g].role # "standby"
  /\ Noticed(b) \/ "quickAbort" \in Env
  /\ hub' = [hub EXCEPT ![b].role = "live"]
  /\ chan' = ToWorker(chan, b, <<Draining(FALSE)>>)
  /\ UNCHANGED <<clock, worker, durable, ghosts, faults>>

\* abort() of a rolled-back flip: signalDraining(false) releases the lane in place, or
\* takes a fresh epoch for the next hello.
Rollback(b) ==
  /\ flipping /\ flipping' = FALSE
  /\ hub[b].role \in {"live", "draining"} /\ \A g \in Hubs : hub[g].role # "standby"
  /\ Noticed(b) \/ "quickAbort" \in Env
  /\ IF hub[b].att
     THEN /\ hub' = [hub EXCEPT ![b].role = "live"]
          /\ chan' = ToWorker(chan, b, <<Draining(FALSE)>>)
          /\ UNCHANGED clock
     ELSE /\ hub' = [hub EXCEPT ![b].role = "live", ![b].epoch = clock + 1]
          /\ clock' = clock + 1 /\ UNCHANGED chan
  /\ UNCHANGED <<worker, durable, ghosts, faults>>

\* Bound: a process is left to be started.
HubCrash(h) ==
  /\ "hubCrash" \in Env /\ faults < MaxFaults /\ faults' = faults + 1
  /\ hub[h].role = "live" /\ ~flipping /\ \E k \in Hubs : hub[k].role = "off"
  /\ Die(h)
  /\ UNCHANGED <<supervisor, worker, durable, ghosts>>

\* reviveLiveHub().
Revive(h) ==
  /\ Startable(h) /\ \A k \in Hubs : ~Alive(k)
  /\ Start(h, "live")
  /\ UNCHANGED <<chan, flipping, worker, durable, ghosts, faults>>

\* The socket breaks, with whatever was on it; either end notices first.
Flap(h) ==
  /\ "flap" \in Env /\ faults < MaxFaults /\ faults' = faults + 1
  /\ chan[h].link = "open"
  /\ \/ /\ chan' = [chan EXCEPT ![h] = [Closed EXCEPT !.link = "hubGone"]]
        /\ hub' = [hub EXCEPT ![h].att = FALSE]
        /\ UNCHANGED <<pend, current>>
     \/ /\ chan' = [chan EXCEPT ![h] = [Closed EXCEPT !.link = "workerGone"]]
        /\ IF current = h THEN current' = None /\ pend' = Detached(pend) ELSE UNCHANGED <<current, pend>>
        /\ UNCHANGED hub
  /\ UNCHANGED <<supervisor, gen, seq, currentEpoch, draining, durable, ghosts>>

-----------------------------------------------------------------------------
Init ==
  /\ hub = [h \in Hubs |-> IF h = 1 THEN NewHub("live", 1) ELSE NoHub("off")]
  /\ chan = [h \in Hubs |-> Closed]
  /\ flipping = FALSE /\ clock = 1
  /\ gen = 1 /\ seq = 0 /\ pend = << >> /\ current = None /\ currentEpoch = 0 /\ draining = FALSE
  /\ resolved = NoDecision /\ decider = "system"
  /\ issued = 0 /\ effects = [h \in Hubs |-> << >>] /\ answers = {} /\ decided = << >>
  /\ faults = 0

WorkerSteps(h) == RecvHello(h) \/ RecvDraining(h) \/ RecvReply(h) \/ WorkerNotices(h)

HubSteps(h) ==
  \/ Connect(h) \/ HubNotices(h) \/ RecvWelcome(h)
  \/ ServeWrite(h) \/ StartAction(h)
  \/ JoinAsk(h) \/ RecoverDecision(h) \/ AutoApprove(h) \/ AskOperator(h)

Supervision(h) == Drain(h) \/ Promote(h) \/ Retire(h) \/ Rollback(h) \/ Revive(h)

Next ==
  \/ Call \/ Ask \/ RelayTimeout
  \/ \E h \in Hubs :
       \/ WorkerSteps(h) \/ HubSteps(h) \/ Supervision(h)
       \/ FinishAction(h) \/ Decide(h) \/ Expire(h) \/ CloseWindow(h)
       \/ BootGreen(h) \/ GreenDies(h) \/ HubCrash(h) \/ Flap(h)
  \/ WorkerDeath

\* Frames are read, sockets reconnected, timers fire and hubctl finishes what it began;
\* agents, operators and faults are not obliged to do anything.
Fairness ==
  /\ \A h \in Hubs :
       /\ WF_vars(WorkerSteps(h)) /\ WF_vars(HubSteps(h)) /\ WF_vars(Expire(h))
  /\ WF_vars(\E h \in Hubs : Supervision(h))
  /\ WF_vars(RelayTimeout)

Spec == Init /\ [][Next]_vars
FairSpec == Spec /\ Fairness

-----------------------------------------------------------------------------
(* Properties.                                                             *)

ToHubMsgs == [t : {"welcome"}, gen : Nat] \cup [t : {"relay"}, req : Requests]

Replies ==
  [t : {"reply"}, id : Nat, of : Nat, by : Nat, who : Deciders \cup {"hub"}]

ToWorkerMsgs == [t : {"hello"}, epoch : Nat] \cup [t : {"draining"}, on : BOOLEAN] \cup Replies

Channels == [link : Links, toHub : Seq(ToHubMsgs), toWorker : Seq(ToWorkerMsgs)]

SupervisorOK == flipping \in BOOLEAN /\ clock \in Nat

WorkerOK ==
  /\ gen \in Nat /\ seq \in Nat /\ pend \in Seq([req : Requests, timer : Timers])
  /\ current \in Hubs \cup {None} /\ currentEpoch \in Nat /\ draining \in BOOLEAN

DurableOK == resolved \in [of : Nat, by : Nat, who : Deciders] /\ decider \in Deciders

GhostsOK ==
  /\ issued \in Nat /\ effects \in [Hubs -> Seq(Requests)] /\ decided \in Seq(SUBSET Hubs)
  /\ answers \subseteq [req : Requests, reply : Replies, at : Hubs]

\* Every variable has the shape its code counterpart has.
TypeOK ==
  /\ hub \in [Hubs -> HubStates] /\ chan \in [Hubs -> Channels]
  /\ SupervisorOK /\ WorkerOK /\ DurableOK /\ GhostsOK /\ faults \in Nat

\* The current hub has the relay, or its answer is on its way.
InHand(r) ==
  \/ \E i \in DOMAIN chan[current].toHub :
       chan[current].toHub[i].t = "relay" /\ chan[current].toHub[i].req.id = r.id
  \/ r.id = 0 /\ hub[current].asked # 0
  \/ \E i \in DOMAIN chan[current].toWorker :
       chan[current].toWorker[i].t = "reply" /\ chan[current].toWorker[i].id = r.id

\* A relay that no timer bounds is in the hands of the current hub, unless that hub's
\* end of the socket is closed, which the worker is about to notice: whatever drops,
\* displaces, drains or releases the channel, no tool call is left waiting for nobody.
NoOrphanedRelay ==
  \A i \in DOMAIN pend :
    pend[i].timer = "none" =>
      current # None /\ (chan[current].link = "hubGone" \/ InHand(pend[i].req))

Executions(h, r) == {i \in DOMAIN effects[h] : effects[h][i] = r}

\* However often the lane is sent again, a hub process executes a write once.
WriteOncePerHub ==
  \A h \in Hubs : \A i, j \in DOMAIN effects[h] :
    effects[h][i].kind = "write" /\ effects[h][i] = effects[h][j] => i = j

\* An rpc is answered with the result of its own execution, never with that of a call
\* of an earlier worker process that had the same callId.
AnsweredByItself ==
  \A a \in answers : a.req.kind # "approval" =>
    a.reply.of = a.req.of /\ \E h \in Hubs : Executions(h, a.req) # {}

\* A decision answers the invocation it was made for; any other one it answers at
\* most once per hub process, and never in the process that made it.
NoStandingGrant ==
  \A a \in answers : a.req.kind = "approval" /\ a.reply.of # a.req.of =>
    /\ a.reply.by # a.at
    /\ \A b \in answers :
         b.req.kind = "approval" /\ b.reply.of # b.req.of /\ b.at = a.at => b = a

\* Whatever is relayed, an rpc or an approval, is answered by what was done for it.
AnswersFit == AnsweredByItself /\ NoStandingGrant

Pending(n, g) == \E i \in DOMAIN pend : pend[i].req.id = n /\ pend[i].req.of = g

\* Every relayed tool call is answered or told that no hub is available.
RelaySettled ==
  \A n \in 0 .. MaxRelays, g \in 1 .. MaxRelays : Pending(n, g) ~> ~Pending(n, g)

\* A hub that serves the operator gets the worker's channel: also one that a flip had
\* displaced and that was rolled back.
LiveHubAttaches ==
  \A h \in Hubs : (hub[h].role = "live" /\ ~flipping) ~> (hub[h].att \/ hub[h].role # "live" \/ flipping)

=============================================================================
