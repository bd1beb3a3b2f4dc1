---------------------------- MODULE SessionInbox ----------------------------
(***************************************************************************)
(* What one chat session is given to do: operator input and teammate mail, *)
(* from their acceptance by the hub to the model that reads them           *)
(* (sessions.ts, bus.ts, workerExecutor.ts, agentWorker.ts).               *)
(*                                                                         *)
(* Input reaches the model as a fresh turn, as a steer into the running    *)
(* turn, or, when a teammate's turn is running and does not take the       *)
(* steer, as a queued turn of its own.  Mail rides with an operator's      *)
(* turn, is steered into a running one, or starts a turn by itself.  A     *)
(* turn acts with the operator's authority only if the hub believes that   *)
(* it carries operator input.                                              *)
(*                                                                         *)
(* The hub learns the fate of what it sent from acknowledgements and turn  *)
(* markers on a socket that can drop, and both processes can die.  A       *)
(* chunk can hold several frames: they are all handled before the promise  *)
(* continuation of the first (Env kind "sameChunk").                       *)
(*                                                                         *)
(* The recipient is an ordinary chat: neither the Overseer nor a manager,  *)
(* without a closed plan, its account usable, never stopped.               *)
(***************************************************************************)
EXTENDS Naturals, Sequences, FiniteSets, SequencesExt

CONSTANTS
  Providers,   \* subset of {"claude", "codex"}: the session's vendor
  Steering,    \* subset of BOOLEAN: the preference steerMessagesAtToolBoundary
  Inputs,      \* what the operator types
  Mail,        \* teammate messages addressed to the session
  Env,         \* narrow interleavings that may happen, see EnvKinds
  MaxFaults    \* bound on drops, crashes, timeouts, freezes and vendor errors

EnvKinds ==
  { "sameChunk",   \* a frame is handled before the continuation of a reply ahead of it
    "steerLost",   \* contact is lost while an operator steer is unanswered
    "fastTurn",    \* a codex turn ends before its start was acknowledged
    "attachLost",  \* a call of attachWorker() times out, which is not tried again
    "earlyTurn",   \* a turn is started while attachWorker() is running
    "turnLost",    \* contact is lost while the hub is not sure of a running turn
    "handoffLost", \* a handoff of queued input whose hub died meets the end of another turn
    "secondWake",  \* codex: mail starts a turn while the hub is starting one for earlier mail
    "strangerMail" \* mail is left for a successor hub although no worker holds the session
  }

ASSUME InboxAssumption ==
  /\ Providers \subseteq {"claude", "codex"}
  /\ Steering \subseteq BOOLEAN
  /\ Inputs \cap Mail = {}
  /\ IsFiniteSet(Inputs) /\ IsFiniteSet(Mail)
  /\ Env \subseteq EnvKinds
  /\ MaxFaults \in Nat

VARIABLES
  provider, steers,  \* never change
  box,       \* durable: bus_messages of the session: Mail -> "none", "pending", "delivered"
  fyi,       \* durable: mail with wake = 0
  queue,     \* durable: record.deferredOperatorTurns, each entry with its place in the order
  stored,    \* durable: the persisted status
  origin,    \* durable: the latest session/turn-origin row
  noticed,   \* durable: a pending-notice row is newer than that row
  hub,       \* the hub process, see Booted
  calls,     \* calls to the worker in flight or settled, their continuation due
  worker,    \* the worker process, see Spawned
  link,      \* is the socket open?
  toHub, toWorker,
  seen,      \* ghost: how often the model was given an input or a message
  told,      \* ghost: what the operator sent
  unsure,    \* ghost: inputs the hub reported as refused, failed or not confirmed
  faults

durable == <<box, fyi, queue, stored, origin, noticed>>
channel == <<link, toHub, toWorker>>
ghosts  == <<seen, told, unsure>>
vars == <<provider, steers, durable, hub, calls, worker, channel, ghosts, faults>>

Booted(s) ==
  [up |-> FALSE, status |-> s,
   busy |-> FALSE,         \* WorkerExecutor.busySessions
   fresh |-> {},           \* listLive() calls since which the busy bit has not been set
   opTurn |-> FALSE,       \* operatorTurnSessions
   busTurn |-> FALSE,      \* busTurnSessions
   steering |-> FALSE,     \* busSteerInFlight
   bundling |-> FALSE,     \* operatorBusDeliveryInFlight
   dispatching |-> FALSE,  \* deferredOperatorDispatches
   notice |-> FALSE,       \* busNoticeTurns
   frozen |-> FALSE,       \* restartTurnAdmissionFrozen
   due |-> FALSE]          \* a setImmediate(deliverBus) is scheduled

Spawned(n) ==
  [held |-> FALSE,         \* there is a driver or thread for the session
   on |-> FALSE,           \* a turn is running
   n |-> n,                \* turns started so far
   op |-> FALSE,           \* ghost: the turn was given operator input
   active |-> FALSE,       \* activeTurns: the last marker was a start
   owed |-> {},            \* runTurn calls of codex not yet acknowledged
   steers |-> {},          \* steers the driver has not taken yet, with their turn
   marks |-> <<>>,         \* the last turn markers
   missed |-> 0]           \* how many of them no hub was sent

-----------------------------------------------------------------------------
(* Calls and frames. *)

\* kind: "fresh", "bus" and "deferred" start a turn; "confer" and "kept" steer
\* operator input, "mail" steers mail; "first", "attach" and "second" are the
\* calls of attachWorker(), "recheck" the listLive() of a failed mail steer.
\* outcome: "sent", "ok" or "fail"; held and on: what a listLive() answered.
Call(kind, is, ms) ==
  [kind |-> kind, inputs |-> is, mails |-> ms, outcome |-> "sent", held |-> FALSE, on |-> FALSE]
TurnKinds == {"fresh", "bus", "deferred"}
SteerKinds == {"confer", "kept", "mail"}
ListKinds == {"first", "second", "recheck"}

Answered(c, o) == [c EXCEPT !.outcome = o]
Settled == {c \in calls : c.outcome # "sent"}

Ack(c, ok)     == [t |-> "ack", call |-> c, ok |-> ok]
Mark(k, of)    == [t |-> "mark", kind |-> k, of |-> of, replay |-> FALSE]
Live(c)        == [t |-> "live", call |-> c, held |-> worker.held,
                   on |-> IF provider = "claude" THEN worker.on ELSE worker.active]

Do(c)  == [t |-> "do", call |-> c]
Notice == [t |-> "notice"]

SendHub(ms) == toHub' = IF link THEN toHub \o ms ELSE toHub

\* WorkerClient.call(): rejected at once when unattached.
Issue(c) ==
  /\ calls' = calls \cup {IF link THEN c ELSE Answered(c, "fail")}
  /\ toWorker' = IF link THEN Append(toWorker, Do(c)) ELSE toWorker
NoCall == UNCHANGED <<calls, toWorker>>

Pending == {m \in Mail : box[m] = "pending"}
Delivered(b, ms) == [m \in Mail |-> IF m \in ms THEN "delivered" ELSE b[m]]
Read(items) == seen' = [x \in Inputs \cup Mail |-> IF x \in items THEN seen[x] + 1 ELSE seen[x]]

Fault == faults < MaxFaults /\ faults' = faults + 1 /\ (hub.up => Settled = {})

-----------------------------------------------------------------------------
(* The hub: status, provenance and the queue. *)

\* setBusy(): a listLive() in flight no longer repairs the bit.
SetBusy(r, b) == [r EXCEPT !.busy = b, !.fresh = {}]

\* setStatus(): a turn that is over leaves no provenance; idle delivers mail.
SetStatus(r, s) ==
  [r EXCEPT !.status = s,
            !.opTurn = @ /\ s = "active", !.busTurn = @ /\ s = "active",
            !.notice = @ /\ s = "active", !.due = @ \/ s = "idle"]

\* Mutant: the end of a turn settles every queued input, sent or not.
WaitingNone(q) == {}

Waiting(q) == {e \in q : e.st = "pending"}
Sent(q) == {e.input : e \in q \ Waiting(q)}
Oldest(q) == CHOOSE e \in q : \A f \in q : e.at <= f.at

\* Mutant: only the operator's turns journal their origin.
NewTurnUnlessBus(o) == origin' = (IF o = "bus" THEN origin ELSE o) /\ noticed' = FALSE

NewTurn(o) == origin' = o /\ noticed' = FALSE

\* A continuation or a frame is handled before anything scheduled or external;
\* without "earlyTurn" these wait for attachWorker(), too.
AttachKinds == {"first", "attach", "second"}
Attaching ==
  \/ \E c \in calls : c.kind \in AttachKinds
  \/ \E f \in ToSet(toWorker) : f.t = "do" /\ f.call.kind = "attach"
  \/ \E f \in ToSet(toHub) : f.t = "mark" /\ f.replay
HubTick == hub.up /\ Settled = {} /\ ("earlyTurn" \in Env \/ ~Attaching)

-----------------------------------------------------------------------------
(* deliverBus(), from the hub state r and the mail b. *)

\* The worker is asked to start a turn with the given content.
StartTurn(r, c) == hub' = SetBusy(r, TRUE) /\ Issue(c)

\* dispatchDeferredOperatorTurn(): a handoff whose outcome no live turn can
\* confirm is given up; otherwise the queued inputs, up to a size, go as one.
DispatchDeferred(r) ==
  \/ /\ r.dispatching \/ r.busy
     /\ hub' = r
     /\ NoCall
     /\ UNCHANGED <<queue, stored, origin, noticed, unsure>>
  \/ /\ ~r.dispatching /\ ~r.busy /\ Oldest(queue).st = "dispatching"
     /\ queue' = Waiting(queue)
     /\ unsure' = unsure \cup Sent(queue)
     /\ hub' = SetStatus(r, "error")
     /\ stored' = "error"
     /\ NoCall
     /\ UNCHANGED <<origin, noticed>>
  \/ /\ ~r.dispatching /\ ~r.busy /\ Oldest(queue).st = "pending"
     /\ \E last \in queue :
          LET batch == {e \in queue : e.at <= last.at}
          IN /\ queue' = (queue \ batch) \cup {[e EXCEPT !.st = "dispatching"] : e \in batch}
             /\ StartTurn([r EXCEPT !.dispatching = TRUE, !.opTurn = TRUE],
                          Call("deferred", {e.input : e \in batch}, {}))
     /\ NewTurn("operator")
     /\ UNCHANGED <<stored, unsure>>

\* noticePendingBus(): the attempt is journaled before it crosses the socket.
NoticePendingBus(r, b) ==
  LET again == r.notice \/ noticed IN
  /\ hub' = [r EXCEPT !.notice = again \/ \E m \in Mail : b[m] = "pending"]
  /\ noticed' = (noticed \/ hub'.notice)
  /\ toWorker' = IF ~again /\ hub'.notice /\ link THEN Append(toWorker, Notice) ELSE toWorker
  /\ UNCHANGED <<calls, queue, stored, origin, unsure>>

DeliverBus(r, b, f) ==
  LET ms == {m \in Mail : b[m] = "pending"}
      nothing == /\ hub' = r
                 /\ box' = b
                 /\ NoCall
                 /\ UNCHANGED <<queue, stored, origin, noticed, unsure>>
  IN
  IF r.frozen \/ r.bundling THEN nothing
  ELSE IF r.status = "idle" /\ queue # {} THEN DispatchDeferred(r) /\ box' = b
  ELSE IF r.status = "idle" /\ r.opTurn THEN nothing
  ELSE IF r.status = "active" /\ ~steers THEN
    IF r.steering THEN nothing ELSE NoticePendingBus(r, b) /\ box' = b
  ELSE IF r.status = "active" THEN
    IF r.steering \/ ms = {} THEN nothing
    ELSE /\ hub' = [r EXCEPT !.steering = TRUE]
         /\ box' = b
         /\ Issue(Call("mail", {}, ms))
         /\ UNCHANGED <<queue, stored, origin, noticed, unsure>>
  ELSE IF r.status # "idle" \/ (provider = "claude" /\ r.busy) \/ ms \subseteq f THEN nothing
  ELSE /\ box' = Delivered(b, ms)
       /\ NewTurn("bus")
       /\ StartTurn([r EXCEPT !.busTurn = TRUE], Call("bus", {}, ms))
       /\ UNCHANGED <<queue, stored, unsure>>

-----------------------------------------------------------------------------
(* Operator and teammates. *)

\* send() while a turn runs: into an operator's turn at once; into another turn
\* only once the provider took it, the durable queue being the fallback.
SendSteer(i) ==
  /\ HubTick /\ ~hub.frozen
  /\ i \notin told
  /\ steers /\ (hub.status = "active" \/ hub.busy)
  /\ told' = told \cup {i}
  /\ IF hub.opTurn
     THEN /\ Issue(Call("kept", {i}, {}))
          /\ UNCHANGED queue
     ELSE /\ queue' = queue \cup {[input |-> i, st |-> "pending", at |-> Cardinality(told)]}
          /\ Issue(Call("confer", {i}, {}))
  /\ UNCHANGED <<provider, steers, box, fyi, stored, origin, noticed, hub, worker,
                 link, toHub, seen, unsure, faults>>

\* Without "handoffLost" such a handoff is given up before another turn starts.
FreshSafe == "handoffLost" \in Env \/ hub.dispatching \/ Sent(queue) = {}

\* send() to a session at rest: waiting mail rides along, marked once accepted.
SendFresh(i) ==
  /\ HubTick /\ ~hub.frozen
  /\ i \notin told
  /\ hub.status # "active" /\ ~hub.busy /\ FreshSafe
  /\ told' = told \cup {i}
  /\ NewTurn("operator")
  /\ StartTurn([hub EXCEPT !.opTurn = TRUE, !.bundling = @ \/ Pending # {}],
               Call("fresh", {i}, Pending))
  /\ UNCHANGED <<provider, steers, box, fyi, queue, stored, worker, link, toHub,
                 seen, unsure, faults>>

\* Without "secondWake" nothing is delivered to a codex session whose turn is being started.
WakeSafe ==
  "secondWake" \in Env \/ ~(provider = "codex" /\ hub.status = "idle" /\ hub.busy)

\* busSend(): the row is durable, then deliverBus() runs in the same callback.
Post(m) ==
  /\ HubTick /\ WakeSafe
  /\ box[m] = "none"
  /\ \E wake \in BOOLEAN :
       /\ fyi' = IF wake THEN fyi ELSE fyi \cup {m}
       /\ DeliverBus(hub, [box EXCEPT ![m] = "pending"], fyi')
  /\ UNCHANGED <<provider, steers, worker, link, toHub, seen, told, faults>>

\* The scheduled deliverBus().
Deliver ==
  /\ HubTick /\ WakeSafe /\ hub.due
  /\ DeliverBus([hub EXCEPT !.due = FALSE], box, fyi)
  /\ UNCHANGED <<provider, steers, fyi, worker, link, toHub, seen, told, faults>>

\* busInbox(): the running agent reads its messages itself.
ReadInbox ==
  /\ HubTick /\ link /\ worker.on /\ Pending # {}
  /\ box' = Delivered(box, Pending)
  /\ Read(Pending)
  /\ UNCHANGED <<provider, steers, fyi, queue, stored, origin, noticed, hub, calls,
                 worker, channel, told, unsure, faults>>

\* setRestartTurnAdmissionFrozen(): a drain, and its rollback.
Freeze ==
  /\ HubTick /\ ~hub.frozen
  /\ Fault
  /\ hub' = [hub EXCEPT !.frozen = TRUE]
  /\ UNCHANGED <<provider, steers, durable, calls, worker, channel, ghosts>>

\* Mutant: a rolled-back drain delivers nothing.
ThawQuietly ==
  /\ HubTick /\ hub.frozen
  /\ hub' = [hub EXCEPT !.frozen = FALSE]
  /\ UNCHANGED <<provider, steers, durable, calls, worker, channel, ghosts, faults>>

Thaw ==
  /\ HubTick /\ hub.frozen
  /\ hub' = [hub EXCEPT !.frozen = FALSE, !.due = @ \/ hub.status \in {"idle", "active"}]
  /\ UNCHANGED <<provider, steers, durable, calls, worker, channel, ghosts, faults>>

-----------------------------------------------------------------------------
(* Continuations of settled calls. *)

Continue(c) == c \in Settled /\ hub.up
Closes(c) == calls' = calls \ {c}
Asks(c, kind) ==
  /\ calls' = (calls \ {c}) \cup {Call(kind, {}, {})}
  /\ toWorker' = Append(toWorker, Do(Call(kind, {}, {})))

\* Mutant: an unconfirmed turn leaves a status of its own.
UnconfirmedNew(r) == SetStatus(SetBusy(r, FALSE), "unconfirmed")

\* WorkerExecutor.runTurn() never rejects: it reports an unconfirmed turn as a
\* turn error, which settles a dispatching batch and leaves the session idle.
Unconfirmed(r) == SetStatus(SetBusy(r, FALSE), "idle")

TurnReturns(c) ==
  /\ Continue(c) /\ c.kind \in TurnKinds
  /\ LET r == IF c.outcome = "ok" THEN hub ELSE Unconfirmed(hub)
     IN hub' = [r EXCEPT !.bundling = @ /\ c.kind # "fresh",
                         !.dispatching = @ /\ c.kind # "deferred"]
  /\ stored' = IF c.outcome = "ok" THEN stored ELSE "idle"
  /\ box' = IF c.kind = "fresh" THEN Delivered(box, c.mails) ELSE box
  /\ queue' = IF c.kind = "deferred" \/ c.outcome # "ok" THEN Waiting(queue) ELSE queue
  /\ unsure' = IF c.outcome = "ok" THEN unsure ELSE unsure \cup c.inputs \cup Sent(queue)
  /\ Closes(c)
  /\ UNCHANGED <<provider, steers, fyi, origin, noticed, toWorker, worker, link, toHub,
                 seen, told, faults>>

\* Mutant: the queued fallback of an accepted steer stays.
ConfersKeeping(c) ==
  /\ Continue(c) /\ c.kind = "confer" /\ c.outcome = "ok"
  /\ hub' = [hub EXCEPT !.busTurn = FALSE, !.opTurn = TRUE]
  /\ NewTurn("operator")
  /\ Closes(c)
  /\ UNCHANGED <<provider, steers, box, fyi, queue, stored, toWorker, worker, link, toHub,
                 ghosts, faults>>

\* An accepted steer confers the operator's authority on what follows it.
Confers(c) ==
  /\ Continue(c) /\ c.kind = "confer" /\ c.outcome = "ok"
  /\ queue' = {e \in queue : e.input \notin c.inputs}
  /\ hub' = [hub EXCEPT !.busTurn = FALSE, !.opTurn = TRUE]
  /\ NewTurn("operator")
  /\ Closes(c)
  /\ UNCHANGED <<provider, steers, box, fyi, stored, toWorker, worker, link, toHub,
                 ghosts, faults>>

StaysQueued(c) ==
  /\ Continue(c) /\ c.kind = "confer" /\ c.outcome = "fail"
  /\ hub' = [hub EXCEPT !.due = TRUE]
  /\ Closes(c)
  /\ UNCHANGED <<provider, steers, durable, toWorker, worker, link, toHub, ghosts, faults>>

\* A steer into the operator's own turn: a refused one is refused to the client.
KeptReturns(c) ==
  /\ Continue(c) /\ c.kind = "kept"
  /\ unsure' = IF c.outcome = "ok" THEN unsure ELSE unsure \cup c.inputs
  /\ Closes(c)
  /\ UNCHANGED <<provider, steers, durable, hub, toWorker, worker, link, toHub, seen,
                 told, faults>>

\* The end of steerBus(): what remains is delivered later.
SteerEnds(r, accepted, b) ==
  [r EXCEPT !.steering = FALSE,
            !.due = @ \/ (~accepted /\ r.status = "idle")
                      \/ (accepted /\ \E m \in Mail : b[m] = "pending")]

MailTaken(c) ==
  /\ Continue(c) /\ c.kind = "mail" /\ c.outcome = "ok"
  /\ box' = Delivered(box, c.mails)
  /\ hub' = SteerEnds(hub, TRUE, box')
  /\ Closes(c)
  /\ UNCHANGED <<provider, steers, fyi, queue, stored, origin, noticed, toWorker, worker,
                 link, toHub, ghosts, faults>>

\* A refused mail steer consults the worker; if that fails too, it just ends.
MailRefused(c) ==
  /\ Continue(c) /\ c.kind = "mail" /\ c.outcome = "fail"
  /\ IF link
     THEN /\ Asks(c, "recheck")
          /\ hub' = [hub EXCEPT !.fresh = @ \cup {"recheck"}]
     ELSE /\ Closes(c)
          /\ hub' = SteerEnds(hub, FALSE, box)
          /\ UNCHANGED toWorker
  /\ UNCHANGED <<provider, steers, durable, worker, link, toHub, ghosts, faults>>

\* WorkerExecutor.listLive(): the worker's answer repairs the busy bit unless
\* the bit was set since the call.
Repaired(r, c) ==
  IF c.kind \notin r.fresh THEN r
  ELSE IF c.held THEN SetBusy(r, c.on)
  ELSE IF r.busy THEN SetBusy(r, FALSE) ELSE r

Rechecked(c) ==
  /\ Continue(c) /\ c.kind = "recheck"
  /\ LET r == IF c.outcome = "ok" THEN Repaired(hub, c) ELSE hub
         idle == c.outcome = "ok" /\ c.held /\ ~c.on /\ r.status = "active"
     IN /\ hub' = SteerEnds(IF idle THEN SetStatus(r, "idle") ELSE r, FALSE, box)
        /\ stored' = IF idle THEN "idle" ELSE stored
  /\ Closes(c)
  /\ UNCHANGED <<provider, steers, box, fyi, queue, origin, noticed, toWorker, worker,
                 link, toHub, ghosts, faults>>

\* attachWorker(): a running turn gets back the provenance it was started with,
\* then the worker replays what was missed.
AttachFirst(c) ==
  /\ Continue(c) /\ c.kind = "first" /\ c.outcome = "ok"
  /\ LET r == Repaired(hub, c)
     IN IF ~c.held
        THEN /\ hub' = [r EXCEPT !.fresh = @ \cup {"second"}]
             /\ Asks(c, "second")
             /\ UNCHANGED stored
        ELSE /\ Asks(c, "attach")
             /\ IF c.on
                THEN /\ hub' = [r EXCEPT !.status = "active",
                                         !.opTurn = @ \/ origin = "operator",
                                         !.busTurn = @ \/ origin = "bus"]
                     /\ UNCHANGED stored
                ELSE hub' = SetStatus(r, "idle") /\ stored' = "idle"
  /\ UNCHANGED <<provider, steers, box, fyi, queue, origin, noticed, worker, link, toHub,
                 ghosts, faults>>

AttachReplayed(c) ==
  /\ Continue(c) /\ c.kind = "attach" /\ c.outcome = "ok"
  /\ hub' = [hub EXCEPT !.fresh = @ \cup {"second"}]
  /\ Asks(c, "second")
  /\ UNCHANGED <<provider, steers, durable, worker, link, toHub, ghosts, faults>>

\* The stale sweep, then mail is delivered to a session the worker holds idle,
\* queued input to any idle session.
AttachSecond(c) ==
  /\ Continue(c) /\ c.kind = "second" /\ c.outcome = "ok"
  /\ LET r == Repaired(hub, c)
         stale == ~c.held /\ r.status = "active"
         s == IF stale THEN SetStatus(r, "idle") ELSE r
         rearm == c.held /\ ~c.on /\ s.status = "idle"
     IN /\ hub' = [s EXCEPT !.notice = @ /\ ~rearm,
                            !.due = @ \/ rearm \/ (s.status = "idle" /\ queue # {})]
        /\ stored' = IF stale THEN "idle" ELSE stored
  /\ Closes(c)
  /\ UNCHANGED <<provider, steers, box, fyi, queue, origin, noticed, toWorker, worker,
                 link, toHub, ghosts, faults>>

AttachFails(c) ==
  /\ Continue(c) /\ c.kind \in AttachKinds /\ c.outcome = "fail"
  /\ Closes(c)
  /\ UNCHANGED <<provider, steers, durable, hub, toWorker, worker, link, toHub, ghosts, faults>>

-----------------------------------------------------------------------------
(* Frames of the worker. *)

\* A chunk with several frames is handled before the continuation of the first.
Reads(t) ==
  /\ hub.up /\ link /\ toHub # <<>>
  /\ "sameChunk" \in Env \/ Settled = {}
  /\ Head(toHub).t = t
  /\ toHub' = Tail(toHub)

\* A reply to a call that was given up is dropped.
HubReply ==
  /\ Reads("ack") \/ Reads("live")
  /\ LET m == Head(toHub)
         c == m.call
         answer == IF m.t = "live" THEN [c EXCEPT !.outcome = "ok", !.held = m.held, !.on = m.on]
                   ELSE Answered(c, IF m.ok THEN "ok" ELSE "fail")
     IN calls' = IF c \in calls \ Settled THEN (calls \ {c}) \cup {answer} ELSE calls
  /\ UNCHANGED <<provider, steers, durable, hub, toWorker, worker, link, ghosts, faults>>

\* applyLifecycle(): a replayed marker restores the status and nothing else.
HubMark ==
  /\ Reads("mark")
  /\ LET m == Head(toHub)
         s == CASE m.kind = "started" -> "active"
                [] m.kind = "completed" -> "idle"
                [] m.kind = "errored" -> "error"
         r == SetBusy(hub, m.kind = "started")
     IN /\ hub' = IF m.replay THEN [r EXCEPT !.status = s] ELSE SetStatus(r, s)
        /\ stored' = s
        /\ queue' = IF m.kind = "started" THEN queue ELSE Waiting(queue)
        /\ unsure' = IF m.kind # "errored" THEN unsure
                     ELSE unsure \cup Sent(queue) \cup IF m.replay THEN {} ELSE m.of
  /\ UNCHANGED <<provider, steers, box, fyi, origin, noticed, calls, toWorker, worker, link,
                 seen, told, faults>>

-----------------------------------------------------------------------------
(* The worker. *)

MarksKept == 2  \* bound: the ring keeps thousands of events
AtMost(k) == IF k > MarksKept THEN MarksKept ELSE k

Emitted(ms) ==
  LET all == worker.marks \o ms IN
  [worker EXCEPT !.marks = SubSeq(all, Len(all) - AtMost(Len(all)) + 1, Len(all)),
                 !.missed = IF link THEN @ ELSE AtMost(@ + Len(ms)),
                 !.active = ms[Len(ms)].kind = "started"]

Handles(kinds) ==
  /\ toWorker # <<>> /\ Head(toWorker).t = "do" /\ Head(toWorker).call.kind \in kinds
  /\ toWorker' = Tail(toWorker)

\* handleRunTurn(): claude acknowledges at once, codex when the vendor took the turn.
WorkerStart ==
  /\ Handles(TurnKinds) /\ ~worker.on
  /\ LET c == Head(toWorker).call
         start == <<Mark("started", {})>>
     IN /\ worker' = [Emitted(start) EXCEPT
                        !.held = TRUE, !.on = TRUE, !.n = @ + 1,
                        !.op = c.inputs # {},
                        !.owed = IF provider = "codex" THEN @ \cup {c} ELSE @]
        /\ SendHub(IF provider = "codex" THEN start ELSE Append(start, Ack(c, TRUE)))
        /\ Read(c.inputs \cup c.mails)
  /\ UNCHANGED <<provider, steers, durable, hub, calls, link, told, unsure, faults>>

\* The vendor fails, or a turn is running already: the start is followed by an error.
WorkerRefuse ==
  /\ Handles(TurnKinds)
  /\ IF worker.on THEN UNCHANGED faults ELSE Fault
  /\ LET c == Head(toWorker).call
         ms == <<Mark("started", {}), Mark("errored", c.inputs)>>
     IN /\ worker' = [Emitted(ms) EXCEPT !.held = TRUE]
        /\ SendHub(IF provider = "codex" THEN Append(ms, Ack(c, TRUE))
                   ELSE <<ms[1], Ack(c, TRUE), ms[2]>>)
  /\ UNCHANGED <<provider, steers, durable, hub, calls, link, ghosts>>

WorkerAckStart ==
  \E c \in worker.owed :
    /\ worker' = [worker EXCEPT !.owed = @ \ {c}]
    /\ SendHub(<<Ack(c, TRUE)>>)
    /\ UNCHANGED <<provider, steers, durable, hub, calls, link, toWorker, ghosts, faults>>

WorkerSteer ==
  /\ Handles(SteerKinds)
  /\ LET c == Head(toWorker).call
     IN IF worker.on
        THEN /\ worker' = [worker EXCEPT !.steers = @ \cup {[call |-> c, n |-> worker.n]}]
             /\ UNCHANGED toHub
        ELSE SendHub(<<Ack(c, FALSE)>>) /\ UNCHANGED worker
  /\ UNCHANGED <<provider, steers, durable, hub, calls, link, ghosts, faults>>

\* The turn takes the steer at a tool boundary, or is over before.
VendorSteer ==
  \E s \in worker.steers :
    LET takes == worker.on /\ s.n = worker.n IN
    /\ worker' = [worker EXCEPT !.steers = @ \ {s},
                                !.op = @ \/ (takes /\ s.call.inputs # {})]
    /\ SendHub(<<Ack(s.call, takes)>>)
    /\ IF takes THEN Read(s.call.inputs \cup s.call.mails) ELSE UNCHANGED seen
    /\ UNCHANGED <<provider, steers, durable, hub, calls, link, toWorker, told, unsure, faults>>

WorkerNotice ==
  /\ toWorker # <<>> /\ Head(toWorker) = Notice
  /\ toWorker' = Tail(toWorker)
  /\ UNCHANGED <<provider, steers, durable, hub, calls, worker, link, toHub, ghosts, faults>>

WorkerList ==
  /\ Handles(ListKinds)
  /\ SendHub(<<Live(Head(toWorker).call)>>)
  /\ UNCHANGED <<provider, steers, durable, hub, calls, worker, link, ghosts, faults>>

\* attach(): the markers above the hub's cursor, those it never got included.
WorkerAttach ==
  /\ Handles({"attach"})
  /\ \E k \in worker.missed..Len(worker.marks) :
       LET n == Len(worker.marks)
           again == [j \in 1..k |-> [worker.marks[n - k + j] EXCEPT !.replay = TRUE]]
       IN SendHub(Append(again, Ack(Head(toWorker).call, TRUE)))
  /\ worker' = [worker EXCEPT !.missed = 0]
  /\ UNCHANGED <<provider, steers, durable, hub, calls, link, ghosts, faults>>

VendorEnd ==
  /\ worker.on
  /\ worker.owed = {} \/ "fastTurn" \in Env
  /\ \E k \in {"completed", "errored"} :
       /\ IF k = "errored" THEN Fault ELSE UNCHANGED faults
       /\ worker' = [Emitted(<<Mark(k, {})>>) EXCEPT !.on = FALSE]
       /\ SendHub(<<Mark(k, {})>>)
  /\ UNCHANGED <<provider, steers, durable, hub, calls, link, toWorker, ghosts>>

-----------------------------------------------------------------------------
(* Failures. *)

\* What was on the socket is gone; markers among it are replayed later.
LostMarks == AtMost(worker.missed + Cardinality({j \in DOMAIN toHub : toHub[j].t = "mark"}))
Closed == link' = FALSE /\ toHub' = <<>> /\ toWorker' = <<>>
Failed == {IF c.outcome = "sent" THEN Answered(c, "fail") ELSE c : c \in calls}

\* What was given up goes on, but its reply finds no call: a request id is used once.
GivenUp(c, cs) == IF c \in cs THEN Answered(c, "fail") ELSE c
FrameWithout(f, cs) == IF f.t \in {"do", "ack", "live"} THEN [f EXCEPT !.call = GivenUp(@, cs)] ELSE f
FramesWithout(fs, cs) == [j \in DOMAIN fs |-> FrameWithout(fs[j], cs)]
WorkerWithout(cs) ==
  [worker EXCEPT !.owed = {GivenUp(c, cs) : c \in @},
                 !.steers = {[s EXCEPT !.call = GivenUp(@, cs)] : s \in @}]

\* Without "steerLost" an operator steer is answered before contact is lost.
SteerSafe ==
  \/ "steerLost" \in Env
  \/ \A c \in calls : c.kind = "confer" => c.outcome = "fail"

\* Without "turnLost" the hub knows of a running turn before contact is lost.
TurnSafe ==
  \/ "turnLost" \in Env
  \/ worker.on => hub.status = "active" /\ \A c \in calls : c.kind \notin TurnKinds

\* Without "handoffLost" a hub that dies during the handoff of queued input
\* leaves no earlier turn's end that the worker could replay.
HandoffSafe == "handoffLost" \in Env \/ Sent(queue) = {} \/ worker.marks = <<>>

\* Without "strangerMail" waiting mail finds the session held by the worker, or
\* its turn known, whenever a process starts afresh.
StrangerSafe(held) ==
  "strangerMail" \in Env \/ held \/ hub.status = "active" \/ Pending \subseteq fyi

Drop ==
  /\ hub.up /\ link /\ Fault /\ SteerSafe /\ TurnSafe
  /\ Closed
  /\ calls' = Failed
  /\ worker' = [WorkerWithout(calls) EXCEPT !.missed = LostMarks]
  /\ UNCHANGED <<provider, steers, durable, hub, ghosts>>

\* The worker dies with its turn and is started again.
Respawn ==
  /\ Fault /\ SteerSafe /\ StrangerSafe(FALSE)
  /\ Closed
  /\ calls' = Failed
  /\ worker' = Spawned(worker.n)
  /\ UNCHANGED <<provider, steers, durable, hub, ghosts>>

\* The hub crashes, or retires at the end of a drain.
HubEnds ==
  /\ hub.up /\ SteerSafe /\ TurnSafe /\ HandoffSafe /\ StrangerSafe(worker.held)
  /\ Settled = {}
  /\ IF hub.frozen THEN UNCHANGED faults ELSE Fault
  /\ Closed
  /\ calls' = {}
  /\ hub' = Booted(stored)
  /\ worker' = [WorkerWithout(calls) EXCEPT !.missed = LostMarks]
  /\ UNCHANGED <<provider, steers, durable, ghosts>>

HubBoots ==
  /\ ~hub.up
  /\ hub' = [hub EXCEPT !.up = TRUE]
  /\ UNCHANGED <<provider, steers, durable, calls, worker, channel, ghosts, faults>>

\* The worker executor reattaches: attachWorker() asks what the worker holds.
Connect ==
  /\ hub.up /\ ~link
  /\ Settled = {}
  /\ link' = TRUE
  /\ calls' = calls \cup {Call("first", {}, {})}
  /\ toWorker' = <<Do(Call("first", {}, {}))>>
  /\ hub' = [hub EXCEPT !.fresh = @ \cup {"first"}]
  /\ UNCHANGED <<provider, steers, durable, worker, toHub, ghosts, faults>>

Timeout ==
  /\ Fault
  /\ \E c \in calls : /\ c.outcome = "sent"
                      /\ c.kind = "confer" => "steerLost" \in Env
                      /\ c.kind \in TurnKinds => "turnLost" \in Env
                      /\ c.kind \in AttachKinds => "attachLost" \in Env
                      /\ calls' = (calls \ {c}) \cup {Answered(c, "fail")}
                      /\ toHub' = FramesWithout(toHub, {c})
                      /\ toWorker' = FramesWithout(toWorker, {c})
                      /\ worker' = WorkerWithout({c})
  /\ UNCHANGED <<provider, steers, durable, hub, link, ghosts>>

-----------------------------------------------------------------------------
Init ==
  /\ provider \in Providers /\ steers \in Steering
  /\ box = [m \in Mail |-> "none"] /\ fyi = {}
  /\ queue = {} /\ stored = "idle" /\ origin = "none" /\ noticed = FALSE
  /\ hub = Booted("idle") /\ calls = {}
  /\ worker = Spawned(0)
  /\ link = FALSE /\ toHub = <<>> /\ toWorker = <<>>
  /\ seen = [x \in Inputs \cup Mail |-> 0]
  /\ told = {} /\ unsure = {}
  /\ faults = 0

Continuation ==
  \E c \in calls :
    \/ TurnReturns(c) \/ Confers(c) \/ StaysQueued(c) \/ KeptReturns(c)
    \/ MailTaken(c) \/ MailRefused(c) \/ Rechecked(c)
    \/ AttachFirst(c) \/ AttachReplayed(c) \/ AttachSecond(c) \/ AttachFails(c)

WorkerStep ==
  \/ WorkerStart \/ WorkerRefuse \/ WorkerSteer \/ WorkerNotice \/ WorkerList \/ WorkerAttach

Request ==
  \/ \E i \in Inputs : SendSteer(i) \/ SendFresh(i)
  \/ \E m \in Mail : Post(m)
  \/ ReadInbox

Failure == Drop \/ Respawn \/ HubEnds \/ Timeout \/ Freeze

Next ==
  \/ Request \/ Deliver \/ Thaw \/ Continuation \/ HubReply \/ HubMark
  \/ WorkerStep \/ WorkerAckStart \/ VendorSteer \/ VendorEnd
  \/ HubBoots \/ Connect \/ Failure

\* Callbacks that are due run, frames arrive, hub and socket come back, a drain
\* ends one way or the other, vendors take steers and end their turns.
Spec ==
  /\ Init /\ [][Next]_vars
  /\ WF_vars(Deliver) /\ WF_vars(Continuation) /\ WF_vars(HubReply \/ HubMark)
  /\ WF_vars(WorkerStep) /\ WF_vars(WorkerAckStart) /\ WF_vars(VendorSteer) /\ WF_vars(VendorEnd)
  /\ WF_vars(HubBoots) /\ WF_vars(Connect) /\ WF_vars(Thaw \/ HubEnds)

-----------------------------------------------------------------------------
(* Properties. *)

Kinds == TurnKinds \cup SteerKinds \cup ListKinds \cup {"attach"}
Turns == {"started", "completed", "errored"}
CallSet ==
  [kind : Kinds, inputs : SUBSET Inputs, mails : SUBSET Mail,
   outcome : {"sent", "ok", "fail"}, held : BOOLEAN, on : BOOLEAN]
FrameOK(f) ==
  \/ f.t = "ack" /\ f.call \in CallSet /\ f.ok \in BOOLEAN
  \/ f.t = "mark" /\ f.kind \in Turns /\ f.of \subseteq Inputs /\ f.replay \in BOOLEAN
  \/ f.t = "live" /\ f.call \in CallSet /\ f.held \in BOOLEAN /\ f.on \in BOOLEAN

TypeOK ==
  /\ provider \in Providers /\ steers \in Steering
  /\ box \in [Mail -> {"none", "pending", "delivered"}] /\ fyi \subseteq Mail
  /\ queue \subseteq [input : Inputs, st : {"pending", "dispatching"}, at : Nat]
  /\ stored \in {"idle", "active", "error"}
  /\ origin \in {"none", "operator", "bus"} /\ noticed \in BOOLEAN
  /\ hub.status \in {"idle", "active", "error"} /\ hub.fresh \subseteq ListKinds
  /\ \A f \in DOMAIN hub \ {"status", "fresh"} : hub[f] \in BOOLEAN
  /\ calls \subseteq CallSet
  /\ worker.owed \subseteq CallSet /\ worker.n \in Nat /\ worker.missed \in 0..MarksKept
  /\ \A w \in worker.steers : w.call \in CallSet /\ w.n \in 0..worker.n
  /\ \A k \in DOMAIN worker.marks : FrameOK(worker.marks[k])
  /\ link \in BOOLEAN
  /\ \A f \in ToSet(toHub) : FrameOK(f)
  /\ \A f \in ToSet(toWorker) : f = Notice \/ f.call \in CallSet
  /\ seen \in [Inputs \cup Mail -> Nat]
  /\ told \subseteq Inputs /\ unsure \subseteq Inputs
  /\ faults \in 0..MaxFaults

\* A turn the hub takes for the operator's (operatorTurnSessions, on which
\* auto-approval rests) was given operator input by the worker: a mark set for a
\* turn that never ran, or restored after a crash, does not stick to mail's turn.
OperatorAuthorityEarned ==
  hub.opTurn /\ hub.status = "active" /\ worker.on => worker.op

\* The model reads what the operator typed at most once, although a steer keeps
\* the durable queue as its fallback and both are retried after failures.
InputOnce == \A i \in Inputs : seen[i] <= 1

Queued == {e.input : e \in queue}

\* Input leaves the durable queue only if the model has read it or the operator
\* is told, now or by an error the worker has reported, that it may not have.
QueueAccounted ==
  [][\A i \in Queued \ Queued' :
       \/ seen'[i] > 0 \/ i \in unsure'
       \/ \E k \in DOMAIN worker'.marks : i \in worker'.marks[k].of]_vars

\* Mail marked delivered was injected into the model's context, or its call runs.
DeliveredIsInjected ==
  \A m \in Mail : box[m] = "delivered" /\ (\A c \in calls : m \notin c.mails) => seen[m] > 0

\* Wakeable mail is not left waiting: every early return of deliverBus() is
\* followed by another delivery, unless the session stands in error.
MailMoves ==
  \A m \in Mail : (box[m] = "pending" /\ m \notin fyi) ~> (box[m] = "delivered" \/ hub.status = "error")

\* Queued operator input is dispatched, taken as a steer or given up with notice.
QueuedSettles ==
  \A i \in Inputs : (i \in Queued) ~> (i \notin Queued \/ hub.status = "error")

\* LIVENESS: neither of the two waits of a session, for mail and for queued input, starves
\* the other or is forgotten at one of the exits of deliverBus() and the queue's dispatch.
NothingWaitsForever == MailMoves /\ QueuedSettles
=============================================================================
