--------------------------- MODULE WorkerReattach ---------------------------
(***************************************************************************)
(* One chat session between the hub and the long-lived agent worker: the   *)
(* worker numbers and buffers the session's events (agentWorker.ts,        *)
(* wseqBuffer.ts), the hub journals them exactly once (sessions.ts,        *)
(* journal.ts), and after every (re)connect attachWorker() reconciles the  *)
(* two over a socket that can drop, while either process can restart       *)
(* (workerTransport.ts, workerExecutor.ts).                                *)
(*                                                                         *)
(* Everything the code keeps per session id is kept here for one arbitrary *)
(* session; the loops of the code treat sessions independently.            *)
(*                                                                         *)
(* A JavaScript process runs one callback at a time.  A promise            *)
(* continuation runs after the callback that settled it: since one 'data'  *)
(* callback emits every frame of its chunk, frames that were already       *)
(* received can be handled between a reply and its continuation.           *)
(***************************************************************************)
EXTENDS WseqBuffer

CONSTANTS
  Providers,   \* subset of {"claude", "codex"}: the session's vendor
  Runs,        \* concurrent attachWorker() calls: {"attached"} or {"attached", "promote"}
  Env,         \* what the environment may do, see EnvKinds
  MaxWseq,     \* bound: vendor events are emitted only up to this wseq
  MaxTurns,    \* bound: turns the operator or a teammate starts
  MaxFaults    \* bound: socket drops, crashes and timeouts

EnvKinds ==
  { "flap",       \* the socket between the hub and the worker drops
    "hubCrash",   \* the hub process ends without warning
    "respawn",    \* the worker process dies and is started again
    "stop",       \* the operator stops and reopens the session
    "handoff",    \* the session is a manager whose role moves to a successor
    "retiredRuns",\* a handed-off session still runs a turn, or is reopened
    "timeout",    \* a call to the worker outlives its 45 s bound
    "gapEmit",    \* the worker emits on a new link before the gap was replayed on it
    "earlyTurn",  \* a turn is admitted while attachWorker() is still running
    "busTurn",    \* a second teammate message starts a codex turn before turnStarted is in
    "slowResume", \* attachWorker() starts while a codex thread is being resumed
    "coldStart",  \* hub and worker both restarted under an idle session, which runs again
    "coalesce" }  \* one data callback carries several frames

ASSUME EnvAssumption == Env \subseteq EnvKinds
ASSUME ProvidersAssumption == Providers \subseteq {"claude", "codex"}
ASSUME RunsAssumption == "attached" \in Runs /\ Runs \subseteq {"attached", "promote"}
ASSUME BoundsAssumption == MaxWseq \in Nat /\ MaxTurns \in Nat /\ MaxFaults \in Nat

VARIABLES
  provider,    \* the session's vendor; never changes
  \* durable: the SQLite journal and the session snapshot
  journal,     \* the session's rows that matter to the cursor, oldest first
  cursor,      \* worker_cursors.wseq, kept by triggers on the events table
  stored,      \* the persisted record's status
  shown,       \* the last journaled session/status: what a connected client shows
  retired,     \* managerReassignedToSessionId is set
  \* the hub process
  hubUp, status, guard, pending, busy, calling, attached, run,
  \* the worker process
  ring, turn, activeTurn, held, accepting,
  \* ghost: the wseqs of the vendor events of every worker era
  produced,
  \* the socket
  link, toHub, toWorker,
  \* ghosts: the ring was replayed on this link; a call was given up on this link, or the
  \* refusal of a second turn was announced as the end of the one that runs
  synced, doubtful,
  \* bounds
  faults, turns

durable == <<journal, cursor, stored, shown, retired>>
hub     == <<hubUp, status, guard, pending, busy, calling, attached, run>>
worker  == <<ring, turn, activeTurn, held, accepting, produced>>
channel == <<link, toHub, toWorker, synced, doubtful>>
vars    == <<provider, durable, hub, worker, channel, faults, turns>>

Statuses == {"idle", "active", "error", "stopped"}   \* "starting" counts as "active"
NoGuard  == -1                                       \* ingestedWseq has no entry
NoCursor == -1                                       \* attach() names other sessions only
Pendings == [era : Nat, wseq : Nat, of : SUBSET Nat] \* a session's pendingCommandOutput
NoDelta  == [era |-> 0, wseq |-> 0, of |-> {}]       \* it has none

RingKinds == {"text", "delta", "started", "completed", "errored"}
Lifecycle == {"started", "completed", "errored"}

\* A journal row: "event" carries the vendor events `of` (several when command
\* output was merged), "gap" is worker/attach-gap, "reset" the wseq-reset marker,
\* "stale" session/restored-stale.
Rows == [kind : {"event", "gap", "reset", "stale"}, era : Nat, wseq : Nat, of : SUBSET Nat]

ResetRow == [kind |-> "reset", era |-> 0, wseq |-> 0, of |-> {}]
StaleRow == [kind |-> "stale", era |-> 0, wseq |-> 0, of |-> {}]
DeltaRow(p) == [kind |-> "event", era |-> p.era, wseq |-> p.wseq, of |-> p.of]

Larger(a, b) == IF a >= b THEN a ELSE b

Era == Len(produced)

-----------------------------------------------------------------------------
(* Messages.  An event carries the ghost era of the worker that emitted it. *)

Welcome            == [t |-> "welcome"]
EventMsg(e, w, k)  == [t |-> "event", era |-> e, wseq |-> w, kind |-> k]
TurnMsg(k, replay) == [t |-> "turn", kind |-> k, replay |-> replay]
LiveMsg(r, h, b)   == [t |-> "live", run |-> r, held |-> h, busy |-> b]
AckMsg(n)          == [t |-> "ack", call |-> n]           \* of a runTurn
AttachAck(r)       == [t |-> "attachAck", run |-> r]

ToHubMsgs ==
  [t : {"welcome"}]
    \cup [t : {"event"}, era : Nat, wseq : Nat, kind : {"text", "delta", "gap"}]
    \cup [t : {"turn"}, kind : Lifecycle, replay : BOOLEAN]
    \cup [t : {"live"}, run : Runs, held : BOOLEAN, busy : BOOLEAN]
    \cup [t : {"ack"}, call : Nat]
    \cup [t : {"attachAck"}, run : Runs]

ListLive(r)  == [t |-> "listLive", run |-> r]
Attach(r, c) == [t |-> "attach", run |-> r, since |-> c]
RunTurn(n)   == [t |-> "runTurn", call |-> n]
StopSession  == [t |-> "stopSession"]

ToWorkerMsgs ==
  [t : {"listLive"}, run : Runs]
    \cup [t : {"attach"}, run : Runs, since : Nat \cup {NoCursor}]
    \cup [t : {"runTurn"}, call : Nat]
    \cup [t : {"stopSession"}]

-----------------------------------------------------------------------------
(* attachWorker() calls in progress.                                       *)

\* "listed", "drained" and "relisted": the reply is in, the continuation is due.
RunPcs == {"none", "ready", "listing", "listed", "attaching", "drained", "relisting", "relisted"}

RunStates == [pc : RunPcs, touched : BOOLEAN, busyAt : BOOLEAN, held : BOOLEAN, busy : BOOLEAN]

IdleRun == [pc |-> "none", touched |-> FALSE, busyAt |-> FALSE, held |-> FALSE, busy |-> FALSE]

\* Before the first connection: promote() has not called reconcileStale() yet.
BootRuns == [r \in Runs |-> IF r = "promote" THEN [IdleRun EXCEPT !.pc = "ready"] ELSE IdleRun]

\* executor.listLive() as it is sent: it remembers the busy bit it may repair.
Listing(pc) == [IdleRun EXCEPT !.pc = pc, !.busyAt = busy]

\* setBusy() bumps the session's busy version, which a listLive() in flight notices.
Touched(rs) ==
  [r \in Runs |-> IF rs[r].pc \in {"listing", "listed", "relisting", "relisted"}
                  THEN [rs[r] EXCEPT !.touched = TRUE] ELSE rs[r]]

Due == \E r \in Runs : run[r].pc \in {"listed", "drained", "relisted"}

\* A hub callback other than a frame of the current chunk runs when no continuation is due.
HubTick == hubUp /\ ~Due

Attaching == \E r \in Runs : run[r].pc \notin {"none", "ready"}

-----------------------------------------------------------------------------
(* The journal.                                                            *)

\* Mutant: the reset marker does not rebase the cursor.
AdvanceWithoutRebase(c, row) ==
  IF row.kind \in {"reset", "stale"} \/ row.wseq < c THEN c ELSE row.wseq

\* The triggers on the events table: a worker row advances the cursor unless
\* it is older, a reset marker rebases it.
Advance(c, row) ==
  CASE row.kind = "reset" -> 0
    [] row.kind = "stale" -> c
    [] OTHER -> IF row.wseq >= c THEN row.wseq ELSE c

\* flushCommandOutputDelta(): the pending text becomes a row before anything newer.
Flushed == IF pending = NoDelta THEN journal ELSE Append(journal, DeltaRow(pending))

CursorFlushed == IF pending = NoDelta THEN cursor ELSE Advance(cursor, DeltaRow(pending))

GuardFlushed ==
  IF pending = NoDelta THEN guard
  ELSE Larger(IF guard = NoGuard THEN 0 ELSE guard, pending.wseq)

FlushCommandOutputDelta ==
  /\ journal' = Flushed
  /\ cursor' = CursorFlushed
  /\ guard' = GuardFlushed
  /\ pending' = NoDelta

\* setStatus(): memory, the persisted snapshot and the journaled status move together.
SetStatus(s) == status' = s /\ stored' = s /\ shown' = s

-----------------------------------------------------------------------------
(* The worker.                                                             *)

\* WorkerServer.send(): a best-effort or event frame is written only to a live channel.
Send(ms) == toHub' = IF link = "open" THEN toHub \o ms ELSE toHub

\* Environment assumption without "gapEmit": an event is not emitted on a link
\* whose hub has not yet replayed what this ring held when the link opened.
MayEmit == "gapEmit" \in Env \/ link # "open" \/ synced

\* Environment assumption without "slowResume": no turn is between its start and
\* the registration of its codex thread when attachWorker() starts.
Resumed ==
  \/ "slowResume" \in Env
  \/ provider = "claude" \/ held
  \/ turn # "resuming" /\ (attached => calling = 0 /\ ~doubtful)

\* emitEvent(): append to the ring, stream to the hub.
Emit ==
  /\ turn = "live" /\ MayEmit /\ ring.last < MaxWseq
  /\ \E k \in IF provider = "codex" THEN {"text", "delta"} ELSE {"text"} :
       /\ ring' = RingAppend(ring, k)
       /\ Send(<<EventMsg(Era, ring.last + 1, k)>>)
  /\ produced' = [produced EXCEPT ![Era] = @ \cup {ring.last + 1}]
  /\ UNCHANGED <<provider, durable, hub, turn, activeTurn, held, accepting, link, toWorker, synced, doubtful,
                 faults, turns>>

\* The turn ends: emitTurnCompleted() or emitTurnError().  A codex thread that
\* cannot be resumed ends its turn with an error, and its call is acknowledged.
EndTurn ==
  /\ \/ /\ turn = "live"
        /\ \E k \in {"completed", "errored"} :
             ring' = RingAppend(ring, k) /\ Send(<<TurnMsg(k, FALSE)>>)
     \/ /\ turn = "resuming"
        /\ ring' = RingAppend(ring, "errored")
        /\ Send(<<TurnMsg("errored", FALSE), AckMsg(accepting)>>)
  /\ turn' = "none"
  /\ activeTurn' = FALSE
  /\ UNCHANGED <<provider, durable, hub, held, accepting, produced, link, toWorker, synced, doubtful, faults,
                 turns>>

\* ensureCodexThread() after resumeThread(): the thread is registered, its event
\* emitted, the turn accepted.
ResumeThread ==
  /\ turn = "resuming"
  /\ turn' = "live"
  /\ held' = TRUE
  /\ ring' = RingAppend(ring, "text")
  /\ produced' = [produced EXCEPT ![Era] = @ \cup {ring.last + 1}]
  /\ Send(<<EventMsg(Era, ring.last + 1, "text"), AckMsg(accepting)>>)
  /\ UNCHANGED <<provider, durable, hub, activeTurn, accepting, link, toWorker, synced, doubtful, faults, turns>>

\* What listLive() reports of the session: a claude driver's own busy flag, a
\* codex thread's activeTurns entry.
ReportedBusy == held /\ (IF provider = "claude" THEN turn = "live" ELSE activeTurn)

\* The next command of the socket.  A hub that is gone may have left commands behind.
Command(type) == link \in {"open", "hubGone"} /\ toWorker # << >> /\ Head(toWorker).t = type

HandleListLive ==
  /\ Command("listLive")
  /\ toWorker' = Tail(toWorker)
  /\ Send(<<LiveMsg(Head(toWorker).run, held, ReportedBusy)>>)
  /\ UNCHANGED <<provider, durable, hub, worker, link, synced, doubtful, faults, turns>>

\* replayMessage(): a buffered marker becomes its lifecycle message again.
ReplayMessage(ev) ==
  IF ev.kind \in Lifecycle THEN TurnMsg(ev.kind, TRUE) ELSE EventMsg(Era, ev.wseq, ev.kind)

Replay(since) ==
  LET evs == Since(ring, since) IN [i \in 1 .. Len(evs) |-> ReplayMessage(evs[i])]

\* attach(): re-send the ring past the hub's cursor, then acknowledge.
HandleAttach ==
  /\ Command("attach")
  /\ toWorker' = Tail(toWorker)
  /\ LET c == Head(toWorker)
     IN  /\ Send((IF c.since = NoCursor THEN << >> ELSE Replay(c.since)) \o <<AttachAck(c.run)>>)
         /\ synced' = (synced \/ c.since # NoCursor)
  /\ UNCHANGED <<provider, durable, hub, worker, link, doubtful, faults, turns>>

\* handleRunTurn() with no live turn: a codex thread the worker does not hold is resumed first.
HandleRunTurn ==
  /\ Command("runTurn") /\ turn = "none"
  /\ toWorker' = Tail(toWorker)
  /\ accepting' = Head(toWorker).call
  /\ ring' = RingAppend(ring, "started")
  /\ activeTurn' = TRUE
  /\ IF provider = "claude" \/ held
     THEN /\ turn' = "live" /\ held' = TRUE
          /\ Send(<<TurnMsg("started", FALSE), AckMsg(accepting')>>)
     ELSE /\ turn' = "resuming" /\ UNCHANGED held
          /\ Send(<<TurnMsg("started", FALSE)>>)
  /\ UNCHANGED <<provider, durable, hub, produced, link, synced, doubtful, faults, turns>>

\* handleRunTurn() during a live turn: announced, then refused by the driver or the
\* app-server and reported as a turn error; the first turn goes on.
RefuseRunTurn ==
  /\ Command("runTurn") /\ turn = "live"
  /\ toWorker' = Tail(toWorker)
  /\ ring' = RingAppend(RingAppend(ring, "started"), "errored")
  /\ activeTurn' = FALSE
  /\ held' = TRUE
  /\ Send(<<TurnMsg("started", FALSE), AckMsg(Head(toWorker).call), TurnMsg("errored", FALSE)>>)
  /\ UNCHANGED <<provider, durable, hub, turn, accepting, produced, link, synced, doubtful, faults, turns>>

\* stopSession(): the driver or thread and the ring are dropped; the next event is wseq 1.
HandleStopSession ==
  /\ Command("stopSession")
  /\ toWorker' = Tail(toWorker)
  /\ ring' = EmptyRing
  /\ produced' = Append(produced, {})
  /\ held' = FALSE
  /\ activeTurn' = FALSE
  /\ UNCHANGED <<provider, durable, hub, turn, accepting, link, toHub, synced, doubtful, faults, turns>>

\* A hello with a current epoch is promoted and answered with welcome.
Accept ==
  /\ link = "hello"
  /\ Resumed
  /\ link' = "open"
  /\ toHub' = <<Welcome>>
  /\ synced' = (ring = EmptyRing)
  /\ doubtful' = (turn # "none" /\ ~activeTurn)
  /\ UNCHANGED <<provider, durable, hub, worker, toWorker, faults, turns>>

\* The worker process dies and is started again with nothing in memory.
WorkerDeath ==
  /\ "respawn" \in Env /\ faults < MaxFaults
  /\ faults' = faults + 1
  /\ ring' = EmptyRing
  /\ produced' = Append(produced, {})
  /\ turn' = "none" /\ activeTurn' = FALSE /\ held' = FALSE /\ accepting' = 0
  /\ link' = CASE link \in {"open", "hello"} -> "workerGone"
               [] link = "hubGone" -> "none"
               [] OTHER -> link
  /\ toWorker' = << >>
  /\ synced' = TRUE
  /\ UNCHANGED <<provider, durable, hub, toHub, doubtful, turns>>

-----------------------------------------------------------------------------
(* The hub: the process and the socket.                                    *)

ClearHubMemory ==
  /\ guard' = NoGuard /\ pending' = NoDelta
  /\ busy' = FALSE /\ calling' = 0 /\ attached' = FALSE
  /\ run' = BootRuns

HubCrash ==
  /\ "hubCrash" \in Env /\ faults < MaxFaults
  /\ hubUp
  /\ faults' = faults + 1
  /\ hubUp' = FALSE
  /\ ClearHubMemory
  /\ link' = IF link = "open" THEN "hubGone" ELSE "none"
  /\ toHub' = << >>
  /\ toWorker' = IF link = "open" THEN toWorker ELSE << >>
  /\ UNCHANGED <<provider, durable, status, worker, synced, doubtful, turns>>

\* boot(): the records come back from the store; in worker mode nothing else happens yet.
HubBoot ==
  /\ ~hubUp
  /\ hubUp' = TRUE
  /\ status' = stored
  /\ UNCHANGED <<provider, durable, guard, pending, busy, calling, attached, run, worker,
                 channel, faults, turns>>

\* connect() and its hello; a successor's hello displaces the predecessor's channel.
Connect ==
  /\ hubUp /\ ~attached
  /\ link \in {"none", "hubGone"}
  /\ link' = "hello"
  /\ toHub' = << >> /\ toWorker' = << >>
  /\ UNCHANGED <<provider, durable, hub, worker, synced, doubtful, faults, turns>>

\* applyLifecycle() of the turnError that runTurn() synthesizes for a failed call:
\* an unconfirmed turn leaves the session idle, a stopped one stays stopped.
UnconfirmedTurn ==
  /\ FlushCommandOutputDelta
  /\ IF status = "stopped" THEN UNCHANGED <<status, stored, shown>> ELSE SetStatus("idle")

\* The socket closes: every call in flight is rejected, so attachWorker() ends.
Drop ==
  /\ HubTick
  /\ \/ link = "workerGone" /\ UNCHANGED faults
     \/ /\ "flap" \in Env /\ link \in {"open", "hello"}
        /\ faults < MaxFaults /\ faults' = faults + 1
  /\ link' = "none"
  /\ toHub' = << >> /\ toWorker' = << >>
  /\ attached' = FALSE
  /\ run' = [r \in Runs |-> IF run[r].pc = "ready" THEN run[r] ELSE IdleRun]
  /\ calling' = 0
  /\ IF calling # 0 THEN busy' = FALSE /\ UnconfirmedTurn
                ELSE UNCHANGED <<busy, journal, cursor, stored, shown, status, guard, pending>>
  /\ UNCHANGED <<provider, retired, hubUp, worker, synced, doubtful, turns>>

\* A runTurn that is not acknowledged in 45 s is reported as unconfirmed; its late
\* acknowledgement finds no entry.
CallTimeout ==
  /\ "timeout" \in Env /\ faults < MaxFaults
  /\ HubTick /\ calling # 0
  /\ faults' = faults + 1
  /\ calling' = 0 /\ busy' = FALSE
  /\ doubtful' = TRUE
  /\ run' = Touched(run)
  /\ UnconfirmedTurn
  /\ UNCHANGED <<provider, retired, hubUp, attached, worker, link, toHub, toWorker, synced,
                 turns>>

-----------------------------------------------------------------------------
(* The hub: frames from the worker.                                        *)

\* The next frame.  With a continuation due it must belong to the same chunk.
Frame(type) ==
  /\ hubUp /\ link \in {"open", "workerGone"}
  /\ Due => "coalesce" \in Env
  /\ toHub # << >> /\ Head(toHub).t = type
  /\ toHub' = Tail(toHub)

\* The authenticated welcome: 'attached' starts attachWorker().
RecvWelcome ==
  /\ Frame("welcome")
  /\ attached' = TRUE
  /\ run' = [run EXCEPT !["attached"] = Listing("listing")]
  /\ toWorker' = Append(toWorker, ListLive("attached"))
  /\ UNCHANGED <<provider, durable, hubUp, status, guard, pending, busy, calling, worker,
                 link, synced, doubtful, faults, turns>>

\* The highest wseq journaled or buffered: what ingestWorkerEvent() calls seen.
Seen == Larger(IF guard = NoGuard THEN 0 ELSE guard, pending.wseq)

\* bufferCommandOutputDelta(): merged into the pending text of the same command, or
\* pending in its place once that is flushed.
BufferDelta(e) ==
  \/ /\ pending # NoDelta /\ pending.era = e.era
     /\ pending' = [pending EXCEPT !.wseq = e.wseq, !.of = @ \cup {e.wseq}]
     /\ UNCHANGED <<journal, cursor, guard>>
  \/ /\ journal' = Flushed /\ cursor' = CursorFlushed /\ guard' = GuardFlushed
     /\ pending' = [era |-> e.era, wseq |-> e.wseq, of |-> {e.wseq}]

EventRow(e) ==
  IF e.kind = "gap" THEN [kind |-> "gap", era |-> e.era, wseq |-> e.wseq, of |-> {}]
  ELSE [kind |-> "event", era |-> e.era, wseq |-> e.wseq, of |-> {e.wseq}]

\* Mutant: an event does not flush the command output pending before it.
JournalEventUnflushed(e) ==
  /\ journal' = Append(journal, EventRow(e))
  /\ cursor' = Advance(cursor, EventRow(e))
  /\ guard' = e.wseq
  /\ UNCHANGED pending

\* The pending text is flushed, then the event's own row is appended.
JournalEvent(e) ==
  /\ journal' = Append(Flushed, EventRow(e))
  /\ cursor' = Advance(CursorFlushed, EventRow(e))
  /\ guard' = e.wseq
  /\ pending' = NoDelta

\* ingestWorkerEvent(): a wseq at or below the mark is dropped.  Command output above
\* the size limit is journaled directly.
RecvEvent ==
  /\ Frame("event")
  /\ LET e == Head(toHub)
     IN  IF e.wseq <= Seen
         THEN UNCHANGED <<journal, cursor, guard, pending>>
         ELSE \/ e.kind = "delta" /\ BufferDelta(e)
              \/ JournalEvent(e)
  /\ UNCHANGED <<provider, stored, shown, retired, hubUp, status, busy, calling, attached, run, worker,
                 link, toWorker, synced, doubtful, faults, turns>>

\* Mutant: the message's own kind becomes the status.
OutcomesUnmapped(m) == {m.kind}

\* The status a lifecycle message leads to; a live error right after an operator
\* interrupt ends the turn as idle.
Outcomes(m) ==
  CASE m.kind = "started"   -> {"active"}
    [] m.kind = "completed" -> {"idle"}
    [] m.kind = "errored"   -> IF m.replay THEN {"error"} ELSE {"error", "idle"}

\* The busy bit, then applyLifecycle(): a replayed marker moves memory and the
\* snapshot but journals nothing; a stopped session keeps its status.
RecvTurn ==
  /\ Frame("turn")
  /\ LET m == Head(toHub)
     IN  /\ busy' = (m.kind = "started")
         /\ IF status = "stopped" THEN UNCHANGED <<status, stored, shown>>
            ELSE \E s \in Outcomes(m) :
                   /\ status' = s /\ stored' = s
                   /\ shown' = IF m.replay THEN shown ELSE s
  /\ run' = Touched(run)
  /\ FlushCommandOutputDelta
  /\ UNCHANGED <<provider, retired, hubUp, calling, attached, worker, link, toWorker, synced,
                 doubtful, faults, turns>>

RecvLive ==
  /\ Frame("live")
  /\ LET m == Head(toHub)
         r == run[m.run]
     IN  run' = [run EXCEPT ![m.run] =
           [r EXCEPT !.pc = IF r.pc = "listing" THEN "listed" ELSE "relisted",
                     !.held = m.held, !.busy = m.busy]]
  /\ UNCHANGED <<provider, durable, hubUp, status, guard, pending, busy, calling, attached,
                 worker, link, toWorker, synced, doubtful, faults, turns>>

\* A late acknowledgement of a call that was given up finds no entry.
RecvAck ==
  /\ Frame("ack")
  /\ calling' = IF calling = Head(toHub).call THEN 0 ELSE calling
  /\ UNCHANGED <<provider, durable, hubUp, status, guard, pending, busy, attached, run, worker,
                 link, toWorker, synced, doubtful, faults, turns>>

RecvAttachAck ==
  /\ Frame("attachAck")
  /\ run' = [run EXCEPT ![Head(toHub).run] = [@ EXCEPT !.pc = "drained"]]
  /\ UNCHANGED <<provider, durable, hubUp, status, guard, pending, busy, calling, attached,
                 worker, link, toWorker, synced, doubtful, faults, turns>>

-----------------------------------------------------------------------------
(* The hub: attachWorker().                                                *)

\* executor.listLive() settles: a busy bit nobody changed since the request is repaired.
Repairs(r) == ~run[r].touched /\ (run[r].held \/ run[r].busyAt)

RepairedBusy(r) ==
  IF ~Repairs(r) THEN busy ELSE run[r].held /\ run[r].busy

RunsAfter(r) == IF Repairs(r) THEN Touched(run) ELSE run

\* The call proceeds to its next await, listing again with the busy bit as it is now.
Await(r, pc) ==
  run' = [RunsAfter(r) EXCEPT ![r] = [IdleRun EXCEPT !.pc = pc, !.busyAt = busy']]

\* Mutant: a stopped session is reconciled like any other.
ClaimStopped(r) ==
  /\ run[r].held
  /\ guard' = Larger(IF guard = NoGuard THEN cursor ELSE guard, cursor)
  /\ IF run[r].busy THEN status' = "active" /\ UNCHANGED <<stored, shown>>
                    ELSE SetStatus("idle")
  /\ Await(r, "attaching")
  /\ toWorker' = Append(toWorker, Attach(r, cursor))

\* Mutant: only live turns get a replay cursor, idle sessions are left out.
ClaimLiveOnly(r) ==
  /\ run[r].held /\ status # "stopped"
  /\ IF run[r].busy
     THEN /\ guard' = Larger(IF guard = NoGuard THEN cursor ELSE guard, cursor)
          /\ status' = "active" /\ UNCHANGED <<stored, shown>>
          /\ Await(r, "attaching") /\ toWorker' = Append(toWorker, Attach(r, cursor))
     ELSE /\ SetStatus("idle") /\ UNCHANGED guard
          /\ Await(r, "relisting") /\ toWorker' = Append(toWorker, ListLive(r))

\* The worker holds the session and the operator has not stopped it: seed the mark
\* from the durable cursor, never lowering it, take over the status, ask for the gap.
ClaimSession(r) ==
  /\ run[r].held /\ status # "stopped"
  /\ guard' = Larger(IF guard = NoGuard THEN cursor ELSE guard, cursor)
  /\ IF run[r].busy THEN status' = "active" /\ UNCHANGED <<stored, shown>>
                    ELSE SetStatus("idle")
  /\ Await(r, "attaching")
  /\ toWorker' = Append(toWorker, Attach(r, cursor))

\* Otherwise the session stays out of the cursors: attach() is called for the
\* other sessions, if the worker holds any, or skipped.
PassOver(r) ==
  /\ ~run[r].held \/ status = "stopped"
  /\ UNCHANGED <<guard, status, stored, shown>>
  /\ \/ Await(r, "attaching") /\ toWorker' = Append(toWorker, Attach(r, NoCursor))
     \/ Await(r, "relisting") /\ toWorker' = Append(toWorker, ListLive(r))

Reconcile(r) ==
  /\ hubUp /\ run[r].pc = "listed"
  /\ busy' = RepairedBusy(r)
  /\ ClaimSession(r) \/ PassOver(r)
  /\ UNCHANGED <<provider, journal, cursor, retired, hubUp, pending, calling, attached, worker, link,
                 toHub, synced, doubtful, faults, turns>>

\* attach() is acknowledged: the fresh listLive() for the stale sweep.
Relist(r) ==
  /\ hubUp /\ run[r].pc = "drained"
  /\ run' = [run EXCEPT ![r] = Listing("relisting")]
  /\ toWorker' = Append(toWorker, ListLive(r))
  /\ UNCHANGED <<provider, durable, hubUp, status, guard, pending, busy, calling, attached,
                 worker, link, toHub, synced, doubtful, faults, turns>>

\* The sweep over sessions the worker does not hold: the mark is dropped and the
\* durable cursor rebased; one that was live is marked stale and set idle.
SweepStale ==
  LET hadGuard == GuardFlushed # NoGuard
      wasLive  == status = "active"
      swept    == IF ~hadGuard /\ ~wasLive THEN << >>
                  ELSE IF wasLive THEN <<ResetRow, StaleRow>> ELSE <<ResetRow>>
  IN  /\ journal' = Flushed \o swept
      /\ cursor' = IF swept = << >> THEN CursorFlushed ELSE Advance(CursorFlushed, ResetRow)
      /\ guard' = NoGuard
      /\ pending' = NoDelta
      /\ IF wasLive THEN SetStatus("idle") ELSE UNCHANGED <<status, stored, shown>>

\* Mutant: a session whose driver is idle is swept as if it were not held.
SweepIdle(r) ==
  /\ hubUp /\ run[r].pc = "relisted"
  /\ busy' = RepairedBusy(r)
  /\ run' = [RunsAfter(r) EXCEPT ![r] = IdleRun]
  /\ IF run[r].held /\ run[r].busy
     THEN UNCHANGED <<journal, cursor, stored, shown, status, guard, pending>>
     ELSE SweepStale
  /\ UNCHANGED <<provider, retired, hubUp, calling, attached, worker, channel, faults, turns>>

Sweep(r) ==
  /\ hubUp /\ run[r].pc = "relisted"
  /\ busy' = RepairedBusy(r)
  /\ run' = [RunsAfter(r) EXCEPT ![r] = IdleRun]
  /\ IF run[r].held THEN UNCHANGED <<journal, cursor, stored, shown, status, guard, pending>>
     ELSE SweepStale
  /\ UNCHANGED <<provider, retired, hubUp, calling, attached, worker, channel, faults, turns>>

\* reconcileStale() of a promoted hub: one more attachWorker(), rejected at once when
\* the worker is not attached.
ReconcileStale ==
  /\ HubTick /\ "promote" \in Runs /\ run["promote"].pc = "ready"
  /\ Resumed
  /\ run' = [run EXCEPT !["promote"] = IF attached THEN Listing("listing") ELSE IdleRun]
  /\ toWorker' = IF attached THEN Append(toWorker, ListLive("promote")) ELSE toWorker
  /\ UNCHANGED <<provider, durable, hubUp, status, guard, pending, busy, calling, attached,
                 worker, link, toHub, synced, doubtful, faults, turns>>

-----------------------------------------------------------------------------
(* The hub: timers and operator requests.                                  *)

\* The 250 ms flush timer of the pending command output.
FlushTimer ==
  /\ HubTick /\ pending # NoDelta
  /\ FlushCommandOutputDelta
  /\ UNCHANGED <<provider, stored, shown, retired, hubUp, status, busy, calling, attached, run, worker,
                 channel, faults, turns>>

\* send() or deliverBus() admits a turn: not while one is live, not when stopped.
\* deliverBus() asks for the busy bit of a claude session only ("busTurn").
\* Environment assumptions: without "earlyTurn", not during attachWorker(); without "coldStart",
\* not to a worker that the cursor is ahead of, which is then one of an earlier worker.
Admits ==
  /\ status \in {"idle", "error"}
  /\ ~busy \/ ("busTurn" \in Env /\ provider = "codex" /\ status = "idle")
  /\ "earlyTurn" \in Env \/ ~Attaching
  /\ "coldStart" \in Env \/ ~attached \/ link # "open" \/ cursor <= ring.last

\* executor.runTurn() with a worker: busy at once, confirmed by the acknowledgement.
SendTurn ==
  /\ HubTick /\ Admits /\ attached
  /\ turns < MaxTurns /\ turns' = turns + 1
  /\ busy' = TRUE /\ calling' = turns'
  /\ run' = Touched(run)
  /\ toWorker' = Append(toWorker, RunTurn(turns'))
  /\ UNCHANGED <<provider, durable, hubUp, status, guard, pending, attached, worker, link,
                 toHub, synced, doubtful, faults>>

\* executor.runTurn() without a worker: call() rejects at once.
SendTurnUnattached ==
  /\ HubTick /\ Admits /\ ~attached
  /\ turns < MaxTurns /\ turns' = turns + 1
  /\ UnconfirmedTurn
  /\ UNCHANGED <<provider, retired, hubUp, busy, calling, attached, run, worker, channel, faults>>

\* stop(): interrupt, then the status; the turn's own end arrives whenever it does.
Stop ==
  /\ "stop" \in Env
  /\ HubTick /\ status # "stopped"
  /\ SetStatus("stopped")
  /\ UNCHANGED <<provider, journal, cursor, retired, hubUp, guard, pending, busy, calling, attached, run,
                 worker, channel, faults, turns>>

\* reopen() does not ask whether the session was handed off.
Reopen ==
  /\ retired => "retiredRuns" \in Env
  /\ HubTick /\ status \in {"stopped", "error"}
  /\ SetStatus("idle")
  /\ UNCHANGED <<provider, journal, cursor, retired, hubUp, guard, pending, busy, calling, attached, run,
                 worker, channel, faults, turns>>

\* reassignProjectManager(), the predecessor's part: stopped, and executor.stopSession().
Handoff ==
  /\ "handoff" \in Env
  /\ HubTick /\ status # "active" /\ ~busy /\ ~retired
  /\ (turn = "none" /\ ~doubtful) \/ "retiredRuns" \in Env
  /\ retired' = TRUE
  /\ SetStatus("stopped")
  /\ busy' = FALSE
  /\ run' = Touched(run)
  /\ toWorker' = IF attached THEN Append(toWorker, StopSession) ELSE toWorker
  /\ UNCHANGED <<provider, journal, cursor, hubUp, guard, pending, calling, attached, worker, link,
                 toHub, synced, doubtful, faults, turns>>

-----------------------------------------------------------------------------
Init ==
  /\ provider \in Providers
  /\ journal = << >> /\ cursor = 0 /\ stored = "idle" /\ shown = "idle"
  /\ retired = FALSE
  /\ hubUp = TRUE /\ status = "idle" /\ guard = NoGuard /\ pending = NoDelta
  /\ busy = FALSE /\ calling = 0 /\ attached = FALSE /\ run = BootRuns
  /\ ring = EmptyRing /\ turn = "none" /\ activeTurn = FALSE /\ accepting = 0
  /\ held = (provider = "codex")      \* create() started a codex thread
  /\ produced = <<{}>>
  /\ link = "none" /\ toHub = << >> /\ toWorker = << >> /\ synced = TRUE /\ doubtful = FALSE
  /\ faults = 0 /\ turns = 0

WorkerSystem ==
  \/ ResumeThread
  \/ HandleListLive \/ HandleAttach \/ HandleRunTurn \/ RefuseRunTurn \/ HandleStopSession
  \/ Accept

HubSystem ==
  \/ HubBoot \/ Connect
  \/ RecvWelcome \/ RecvEvent \/ RecvTurn \/ RecvLive \/ RecvAck \/ RecvAttachAck
  \/ \E r \in Runs : Reconcile(r) \/ Relist(r) \/ Sweep(r)
  \/ ReconcileStale \/ FlushTimer

Environment ==
  \/ Emit \/ EndTurn
  \/ SendTurn \/ SendTurnUnattached \/ Stop \/ Reopen \/ Handoff
  \/ WorkerDeath \/ HubCrash \/ CallTimeout

Next == WorkerSystem \/ HubSystem \/ Drop \/ Environment

\* The processes' own steps happen; vendors, operators and faults are not obliged to.
\* A socket whose other end is gone is eventually seen to close.
Fairness ==
  /\ WF_vars(WorkerSystem)
  /\ WF_vars(HubSystem)
  /\ WF_vars(link = "workerGone" /\ Drop)

Spec == Init /\ [][Next]_vars
FairSpec == Spec /\ Fairness

-----------------------------------------------------------------------------
(* Properties.                                                             *)

DurableOK ==
  /\ provider \in Providers
  /\ journal \in Seq(Rows) /\ cursor \in Nat
  /\ stored \in Statuses /\ shown \in Statuses
  /\ retired \in BOOLEAN

HubOK ==
  /\ hubUp \in BOOLEAN /\ status \in Statuses
  /\ guard \in Nat \cup {NoGuard} /\ pending \in Pendings
  /\ busy \in BOOLEAN /\ calling \in Nat /\ attached \in BOOLEAN
  /\ run \in [Runs -> RunStates]

WorkerOK ==
  /\ ring \in Rings(RingKinds)
  /\ turn \in {"none", "resuming", "live"} /\ activeTurn \in BOOLEAN /\ held \in BOOLEAN
  /\ accepting \in Nat
  /\ produced \in Seq(SUBSET Nat)

ChannelOK ==
  /\ link \in {"none", "hello", "open", "hubGone", "workerGone"}
  /\ toHub \in Seq(ToHubMsgs) /\ toWorker \in Seq(ToWorkerMsgs)
  /\ synced \in BOOLEAN /\ doubtful \in BOOLEAN

\* Every variable has the shape its code counterpart has.
TypeOK == DurableOK /\ HubOK /\ WorkerOK /\ ChannelOK /\ faults \in Nat /\ turns \in Nat

IsWorkerRow(row) == row.kind \in {"event", "gap"}

WorkerRow(i) == IsWorkerRow(journal[i])

\* The wseqs of worker rows after the latest reset marker of j.
SinceReset(j) ==
  {j[i].wseq : i \in {k \in DOMAIN j :
     IsWorkerRow(j[k]) /\ \A l \in k .. Len(j) : j[l].kind # "reset"}}

HighWater(j, c) == c \in SinceReset(j) \cup {0} /\ \A w \in SinceReset(j) : w <= c

\* lastJournaledWseq() is the highest worker wseq journaled since the latest reset
\* marker, whatever order rows, merged output and markers arrive in.
CursorIsHighWater == HighWater(journal, cursor)

\* The event is in the journal, or a gap row says that it is not.
Accounted(e, w) ==
  \E i \in DOMAIN journal :
    /\ journal[i].era = e
    /\ w \in journal[i].of \/ (journal[i].kind = "gap" /\ w <= journal[i].wseq)

\* No vendor event is passed over silently, that is, no
\* later event of its era is journaled without it.
NoSilentLoss ==
  \A e \in DOMAIN produced : \A w \in produced[e] :
    (\E i \in DOMAIN journal : journal[i].era = e /\ WorkerRow(i) /\ journal[i].wseq > w)
      => Accounted(e, w)

\* The wseq-reset marker precedes the rows of the era it makes room for: it never
\* splits an era, which would let a later cursor fall below rows already journaled.
ResetBetweenEras ==
  \A i, k, j \in DOMAIN journal :
    i < k /\ k < j /\ journal[k].kind = "reset" /\ WorkerRow(i) /\ WorkerRow(j)
      => journal[i].era # journal[j].era

\* Only the operator's Reopen ends a Stop: no terminal event, re-attach, sweep or
\* restart changes the record, its snapshot or what clients see.
StopHolds ==
  [][ /\ stored = "stopped" /\ stored' # "stopped" => Reopen
      /\ shown = "stopped" /\ shown' # "stopped" => Reopen
      /\ hubUp /\ status = "stopped" /\ status' # "stopped" => Reopen ]_vars

\* A turn is sent to the worker only when the worker runs none, unless an earlier
\* call on this link was given up while the worker had taken its turn, or the refusal of
\* a second turn was announced as the end of the first.
OneTurnAtATime ==
  link = "open" /\ ~doubtful /\ (\E i \in DOMAIN toWorker : toWorker[i].t = "runTurn") => turn = "none"

\* The three together: nothing lost, no era split, no turn on top of another.
IngestSafe == NoSilentLoss /\ ResetBetweenEras /\ OneTurnAtATime

\* A produced event of the current era reaches the journal, or its era ends.
EventuallyAccounted ==
  \A e \in 1 .. MaxFaults + 1 : \A w \in 1 .. MaxWseq + 1 :
    (e = Era /\ w \in produced[e]) ~> (Accounted(e, w) \/ e # Era)

\* Once the worker runs no turn, the session accepts input again.
SessionUnsticks ==
  (busy \/ status = "active") ~> ((~busy /\ status # "active") \/ turn # "none")

\* LIVENESS: re-attach finishes what it started, for the events and for the session's status:
\* attachWorker(), its replay and the repair of the busy bit, over drops and restarts.
SessionSettles == EventuallyAccounted /\ SessionUnsticks

=============================================================================
