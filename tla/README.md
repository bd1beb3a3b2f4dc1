# AllMyAgents: TLA+ verification project

AllMyAgents runs many coding agents (Claude, Codex) behind one *hub*. The hub is restarted often: to
upgrade itself, because an agent asked for it, or because it crashed. The agents are to go on working
meanwhile, so they run in a long-lived *agent worker*, and almost everything that is hard in this program
is about two or more processes that can each restart while they hold parts of the same fact: which output
has been journaled, which turn is running, which tool call has been executed, which hub owns the port,
which rows a peer has a copy of.

These modules model that code, check it with TLC on small instances and prove much of it with TLAPS for
every value of the constants. Paths below are relative to `src/apps/hub/src/` unless they start with
`src/`; `store.svelte.ts` is `src/apps/web/src/lib/store.svelte.ts`.

## 1. Inventory

### Processes

| process | code | what it holds |
|---|---|---|
| supervisor | `hubctl.ts` | which hub is live, the flip in progress, epochs, backup ownership, recovery |
| hub (blue, green) | `index.ts`, `server.ts`, `sessions.ts` | session records, pending approvals, runs it executes |
| agent worker | `agentWorker.ts` | vendor drivers and threads, per-session rings, pending relays |
| maintenance child | `journalMaintenance.ts` | its selection of rows to delete |
| backup child | `journalBackup.ts` | the generation it is publishing |
| vendors | `adapters/` | external processes that run turns and emit events |
| device executors | `remoteDevices.ts` | receipts and jobs of commands of another machine |
| clients | `src/apps/web`, `src/apps/desktop` | a replayed view of the journal |

Hub and worker talk over one Unix socket (`workerTransport.ts`); hubs and the supervisor over child-process
messages; hubs of one machine share the SQLite file and the data root with its recovery directory; clients
read the journal through a bounded replay stream and HTTP pages.

### Components

For each: the state it keeps (S), its operations (O), how it meets the others (I), what is hard (H) and
what makes it correct (C).

* **Per-session event ring** (`wseqBuffer.ts`). S: the last events of a session and their numbers (`wseq`).
  O: append, since, forget. I: filled by the worker's emit, read by its attach. H: overflow while no hub is
  attached, the off-by-one at the oldest retained event. C: `since` returns every retained newer event once,
  and a sentinel exactly when newer events were trimmed.
* **Worker re-attach and ingest** (`sessions.ts`, `workerExecutor.ts`, `agentWorker.ts`, `journal.ts`).
  S: the high-water mark (`ingestedWseq`), the durable cursor (`worker_cursors`), merged command output, busy
  bits, session status in memory, in the snapshot and as journaled. O: ingest, lifecycle, `attachWorker`,
  send, stop, reopen, hand-off, boot. I: calls with 45 s bounds, pushed events. H: crashes of either end,
  replies that are stale when the continuation runs, replay racing live events, two concurrent attaches.
  C: output is journaled exactly once or visibly missing; one turn at a time; a stop holds; sessions do not
  get stuck.
* **Session operations** (`sessions.ts`, `bus.ts`). S: the durable queue of operator input, mail and its
  delivered marks, turn provenance. O: send (fresh turn, steer, queue), deliver, inbox, continue, freeze.
  H: marked delivered before the worker took the turn, a steer whose acknowledgement is lost, an end that is
  replayed, marks of turns that never ran. C: input and mail are read once; no turn has authority nobody gave;
  nothing waits for ever.
* **Worker relay lane** (`workerTransport.ts`, `workerExecutor.ts`). S: pending relays with timers, current
  channel and its epoch, draining; the cache of served writes and the worker generation. O: relay, attach,
  drain, release, channel close, dispatch. I: an agent's tool call goes worker to hub and its answer back.
  H: the answer is lost and the call sent again, to the same hub or its successor; the channel is displaced
  while a hub answers on it. C: no call is left waiting for nobody; each is executed once; no answer reaches
  another call.
* **Approvals** (`approvals.ts`). S: pending prompts, recorded decisions, ids already recovered. O: request,
  resolve, expire, automatic approval, recovery after a restart. H: ids derived from content, so that a
  repeated call and a re-sent call look the same; decisions made while the worker cannot be told. C: a
  decision answers what it was made for.
* **Blue-green restart** (`hubctl.ts`, `restartController.ts`, `restartHandshake.ts`, `restartRollback.ts`,
  `journalBackupOwnership.ts`). S: who listens, who owns questions, profiles and backups. O: boot green,
  drain, promote, activate, retire, abort, roll back, revive. H: either hub can die between any two steps,
  acknowledgements can be lost. C: never two owners of the port or the backups; finally one.
* **Durable runs** (`durableRuns.ts`, `remoteDevices.ts`). S: runs, leases, receipts of the target. O: request,
  claim, launch, start, exit, cancel, heartbeat, reconcile, report. H: commands that outlive their hub, requests
  lost or delivered twice, heartbeats that only look dead. C: one command at a time on a resource; a run starts
  once and is reported once and truthfully.
* **Journal storage** (`journal*.ts`). S: events, cursors, replay generation and reset floor. O: append,
  bounded pages, selection and deletion of superseded rows. H: two maintenance children, rows that the cursor
  stands on. C: deletion loses nothing a reader needs.
* **Journal replication, backup, recovery** (`journalReplication.ts`, `journalBackup*.ts`,
  `journalRecovery*.ts`). S: replica snapshots, acknowledgements, assignments; recovery generations, the root
  binding, the data-root lease, the recovery plan and its receipts. O: snapshot, transfer, acknowledge,
  configure, prune gate; publish, activate, retain; classify, quarantine, restore, finish. H: a death between
  any two durable steps, a hub of a dead supervisor, old copies put back. C: evidence is never lost, files of
  two databases never mix, nothing is forgotten silently, a hub serves again; deleted rows are where they had
  to be.
* **Hub server and client replay, web client** (`replayStream.ts`, `journal.ts`, `store.svelte.ts`). S: the
  client's cursor, baseline, staged and pending rows, history pages, statuses. O: stream, poll, reset,
  baseline, flush, history reads, roster reads, reconnect. H: rows deleted between two reads of the journal,
  answers that arrive out of order, several ways to lose the socket. C: no row is stepped over, no hole in the
  open chat, statuses do not go back, a client catches up.
* **Questions**, **profile ownership and login**, **projects and deletion**, **file transfers**, **plans,
  tasks and teams**: not modelled yet, see sections 5 and 6. The components of `PROJECT.json` list these and
  the rest (approval policy, adapters, agent tools, GitHub automation, desktop shell, scripts, and the
  repository's own TLA+ of a planned customs policy), each with the reason.

## 2. Modules

| module | models | kind |
|---|---|---|
| `WseqBuffer` | `wseqBuffer.ts` | operators on one ring, no state of its own |
| `WorkerReattach` | one session between worker and hub | state machine, extends `WseqBuffer` |
| `ExactlyOnceLog` | what the journal promises | abstract specification |
| `WorkerReattachLog` | `WorkerReattach` implements `ExactlyOnceLog` | refinement mapping |
| `RelayLane` | relayed tool calls and approvals across hubs | state machine |
| `BlueGreenFlip` | the supervisor, its hubs and their restarts | state machine |
| `PublicRole` | how an exclusive role passes between processes | abstract specification of `BlueGreenFlip` |
| `SessionInbox` | operator input and mail of one session | state machine |
| `DurableRuns` | queued commands, local and remote | state machine |
| `ReplayClient` | a client's copy of the journal | state machine |
| `JournalRecovery` | backups, refused boots and recovery of a root | state machine |
| `JournalPruning` | deletion of rows, replicas and the prune gate | state machine |
| `MC*` | one per state machine: instance for TLC | MC modules |
| `*_proofs` | theorems, see section 4 | TLAPS |

A JavaScript callback is one atomic step everywhere; a continuation after an `await` is another. What one
callback writes to durable storage in several transactions is several steps wherever a crash between them
matters (`DurableRuns`, `JournalRecovery`, `JournalPruning`).

### WorkerReattach

One arbitrary session: the code keeps everything per session id, and its loops treat sessions independently.

| code | model |
|---|---|
| events table rows of the session; `worker_cursors` with its triggers | `journal`; `cursor`, `Advance` |
| persisted `record.status`; last `session/status` row | `stored`; `shown` |
| `record.status`, `ingestedWseq`, `pendingCommandOutput` | `status`, `guard`, `pending` |
| `WorkerExecutor` busy bit, the call in flight, `isAttached` | `busy`, `calling`, `attached` |
| each running `attachWorker()`, with the place of its next await | `run[r]` |
| ring, driver or thread, `activeTurns`, session table of the worker | `ring`, `turn`, `activeTurn`, `held` |
| socket buffers, half-open ends | `toHub`, `toWorker`, `link` |

A reply and its continuation are two steps: with Env kind `coalesce` the frames of the same chunk come
between them, because one `data` callback emits all of them first. Ghosts (`produced`, eras in messages,
`synced`, `doubtful`) record what properties and environment assumptions need; no guard of a code action
reads them.

Simplifications: status "starting" counts as "active"; commands wait while a Codex resume is in progress;
steering a live turn is not modelled here; a hand-off is one step on the predecessor's side; deletion is not
modelled; a row carries the set of event numbers it covers, not their text.

### RelayLane

Hub processes are started one after another and never come back: blue, green, or the one that replaces a
crashed hub. `hub[h]` is one process (role in the flip, attach epoch, generation, served writes, running
calls, the pending approval), `chan[h]` its socket with what is on it, `pend` the worker's lane in order,
each relay with the timer that bounds it. `resolved` and `decider` are the two durable records approvals
leave: the latest `approval/resolved` event and the latest `approval_decisions` row. They are separate
because the code reads them separately. `issued`, `effects`, `answers` and `decided` are ghosts.

Simplifications: all modelled approvals ask for the same payload, hence share one id: those of other
payloads never meet them. Writes answer in the callback that receives them and do not fail; expiry of the
cache of served writes is left out. Questions travel on the same lane but are not modelled. A reconnect
follows the close of the old socket. Of `hubctl` only the order of start, drain, promote, retire, kill and
roll back is kept, and a killed process cannot act later.

### BlueGreenFlip and PublicRole

`hub[h]` is one process: its life, listener (none, ephemeral, public), the roles it holds (question owner,
profile epoch, backup writer with its SQLite lease), and the one restart operation it is in
(`restartController.ts`). `inbox` and `outbox` are its IPC channels. `sup` holds two programs that the code
keeps apart by flags: the flip (`restart()`, `rollbackToBlue()`) and the revival (`boot()`,
`reviveLiveHub()`, `enterRecoveryPoison()`), whose actions are the steps between two awaits. A hub that was
killed stays in "killed" until its exit is noticed.

Simplifications: a wait whose answer can still come may be given up at the price of a fault; a bind that is
lost to a process not yet gone counts as a fault; the health check is merged with "ready"; messages of a
process that has exited are dropped, except its refusal to boot. `PublicRole` says that an exclusive role
passes on only through a moment in which nobody has it; `RoleHandedOver` instantiates it with the hubs that
hold the public listener.

### SessionInbox

| code | model |
|---|---|
| `bus_messages`, wake flag; `record.deferredOperatorTurns` | `box`, `fyi`; `queue` |
| persisted status; latest `session/turn-origin` row | `stored`; `origin`, `noticed` |
| session record, busy bit, `operatorTurnSessions`, marks and timers of the hub | `hub` |
| calls to the worker and their due continuations | `calls` |
| turn, driver and steers in the worker | `worker` |
| socket | `link`, `toHub`, `toWorker` |

`seen` (how often the model was given an input or a message), `told` and `unsure` are ghosts. The recipient is
an ordinary chat: not the Overseer, not a manager, no closed plan, never stopped. A session has one input and
one message in the passing run; the marks of recently ended turns are bounded (`MarksKept`). The queue is a set of
entries with their place in the order. A call that was given up (timeout, drop, death of the hub) goes on in the
worker, but its reply finds no call any more: request ids are not used twice within a hub process
(`GivenUp`, `WorkerWithout`). A new hub process starts again at `r1`; that a late reply to the old one might meet an id
of the new one is left out.

### DurableRuns

`row` and `lease` are the tables, shared by all hubs; `hub[h]` holds the work of one process, its synchronous
code as a `todo` list whose steps crashes and other hubs come between; `mon` is the source's monitor of a
remote command, `net` the requests on their way, `target` the executor's receipts and jobs, `proc` what became
of the command itself (ghost: how often it was started), `told` the journal rows and notices. `TakeOver` is a
drained blue with its promoted green; `Kill` leaves orphaned children; `Sleep` is a hub whose heartbeats were
missed. A request is delivered a second time only when nothing was refused in between.

### ReplayClient

`journal` is the rows (as numbers) with generation and reset floor, `stream` the server side of the socket
(checkpoint, poll and page are separate reads), `wire` the frames in flight, `client` the store's cursor,
baseline, staged and pending rows and its timer, `view` the open chat with its history cursor and status,
`load` and `sync` the history and roster reads in flight. A condensation deletes rows and starts a generation;
every row belongs to the one modelled chat and changes its status.

### JournalRecovery

A *family* is a database with its log, named by the plan that put it in place. Contents are event high-water
marks. `sup` is the supervisor, `step` the place of the recovery worker between durable operations, `hub` and
`pub` the hubs and their backup children, `live` the files at the journal's path, `gens` and `staging` the
directories, `root` the root binding, `plan`, `quar`, `evidence`, `receipts` the recovery's own records.
`seen` is a ghost: what the last hub that served knew.

Simplifications: `head.json` is derived from the root binding and left out; waits for port and lease are one
action; the check a boot makes is atomic; a failed preflight of the resumed path and a refused fresh boot both
end offline, until the user starts the app again; damage spares the very files a plan is made for while it is
made, but not its generation.

### JournalPruning

`log` and `gone` are the rows inserted and deleted, `cursor` the worker cursor with the row it stands on,
`strong` the newest recovery generation, `repl`, `snap`, `prot`, `acks`, `copy` the replication state, `kid`
the maintenance children: the live hub's, and one that a killed hub left behind. `due` is a ghost: on how many
peers a deleted row had to be. One session, one turn, one item; rows are named by their number and have a
kind (delta, terminal, diff, reset).

Simplifications: grace periods are left out, so that more is deleted than in the code; a snapshot is created
and registered in one step and transferred whole; the gate's read and its reservation are one step, and so are
the check and the transaction of `Configure` (see section 6); roll-up of history, which is disabled, pressure
levels and payload externalisation are not modelled.

### Environment kinds

Most modules take a set `Env`: what may happen around the program. Some kinds are ordinary faults and the
passing runs allow them all together: drops, crashes, respawns, flips, timeouts, stops, coalesced frames.
Others are narrow interleavings under which the code does not keep a promise; the passing runs leave them
out, and the theorems say which of them they exclude (most exclude none). They are:

| module | kind | interleaving | touches |
|---|---|---|---|
| WorkerReattach | `gapEmit` | an event is emitted on a new link before the gap was replayed on it | NoSilentLoss (run `reattach_gap_emit`) |
| | `earlyTurn` | a turn is admitted while `attachWorker()` runs | OneTurnAtATime, ResetBetweenEras |
| | `busTurn` | a second teammate message before `turnStarted` is back | OneTurnAtATime |
| | `slowResume` | `attachWorker()` starts while a Codex thread is being resumed | OneTurnAtATime |
| | `retiredRuns` | a handed-off session still runs, or is reopened | NoSilentLoss |
| | `coldStart` | hub and worker both restarted under an idle session, which runs again (`sessions.ts:5190`) | NoSilentLoss (run `reattach_cold_start`) |
| RelayLane | `staleReply` | an rpc of a dead worker is answered to its successor | AnsweredByItself |
| | `quickRepeat` | an approval is requested again while the last answer is still travelling | NoStandingGrant |
| | `quickAbort` | a rollback before the sockets of the flip were seen to close | LiveHubAttaches |
| SessionInbox | `sameChunk` | a frame is handled before the continuation of a reply ahead of it | NothingWaitsForever |
| | `secondWake` | mail reaches a Codex session whose turn for earlier mail is being started (`sessions.ts:12086`) | OperatorAuthorityEarned, InputOnce, QueueAccounted |
| | `steerLost` | contact is lost while an operator steer is unanswered | InputOnce |
| | `fastTurn` | a Codex turn ends before its start was acknowledged | MailMoves |
| | `attachLost` | a call of `attachWorker()` times out, which is not tried again | NothingWaitsForever |
| | `earlyTurn` | a turn starts while `attachWorker()` runs (comment near `sessions.ts:5200`) | OperatorAuthorityEarned, InputOnce (two inputs), QueueAccounted |
| | `turnLost` | contact is lost while the hub is not sure of a running turn | OperatorAuthorityEarned, InputOnce, QueueAccounted |
| | `handoffLost` | a handoff of queued input whose hub died meets the end of another turn (`sessions.ts:1330`) | QueueAccounted |
| | `strangerMail` | mail is left for a successor although no worker holds the session | MailMoves |
| DurableRuns | `journalFails`, `resultWriteFails`, `httpError` | an append, a result write or an HTTP answer of the target fails | ResourceAlone, OutcomeHonest |
| JournalRecovery | `pruneActive` | retention removes the generation still named as active (`journalRecovery.ts:2107`) | ComesBack |
| | `latePublisher` | the backup child of a killed hub lives on and publishes later | ComesBack |
| ReplayClient | `staleRoster` | a roster read answers after a baseline was installed (`store.svelte.ts:936`) | StatusNotBehind |
| | `lateHistory` | an overtaken history answer is installed (`store.svelte.ts:4467`) | TranscriptWhole |
| | `retryOlder` | Retry after a failed read with an older page open (`store.svelte.ts:4603`) | TranscriptWhole |

So a passing run reads: *apart from these named interleavings, the property holds*.

## 3. Runs

| run | bounds | what it shows |
|---|---|---|
| `reattach` | ring 2, vendor events up to wseq 3, 2 turns, 2 faults, both vendors, one `attachWorker()` at a time | exactly-once ingest: the cursor is the high-water mark, nothing is passed over silently, resets do not split an era, one turn at a time (`IngestSafe`); a stop holds; the journal implements `ExactlyOnceLog` |
| `reattach_live` | events up to wseq 2, 1 turn, 1 fault, `promote()`'s attach beside the other | output reaches the journal, sessions accept input again |
| `reattach_gap_emit` | violation | a live event overtakes the replay: the gap is lost silently |
| `reattach_cold_start` | violation | the cursor of a dead worker outlives a restart of both processes and hides what its successor emits |
| `relay` | 2 hubs, 2 relays (writes, approvals), lane of 1, 1 fault | no orphaned relay, a hub executes a write once, no answer crosses worker processes, a decision is no standing grant |
| `relay_live` | 2 hubs, 1 relay (actions, approvals), 1 fault | every relayed call ends; the live hub gets the channel, also after a rollback |
| `flip` | 3 hubs, 2 restarts, 2 faults, the supervisor may die | one holder of port, questions, profiles and backups; roles are handed over as `PublicRole` says; every outage ends; orphaned hubs stay or stop |
| `inbox` | 1 input, 1 message, both vendors, steering on and off, 2 faults | operator authority is earned, input is read once, queued input is accounted for, mail and queue keep moving |
| `replay` | 3 rows, 2 generations, pages of 1, 2 history reads, 1 fault | nothing is stepped over, no hole in the open chat, its status never goes back, the client catches up |
| `runs` | 2 runs on one resource, 2 hubs, one run may be remote and may be cancelled, 2 faults | one command at a time, started and reported once and truthfully, its owner is told |
| `recovery` | 2 hubs, 2 generations, 2 events, 3 faults | evidence survives, files of two databases never mix, nothing is forgotten silently, a hub serves again |
| `pruning` | 3 histories of 3 rows, 2 peers, 1 snapshot, 2 maintenance children | deleted rows are held where they had to be, cursor and superseding rows stay, what may go goes |

Both violation runs contradict a comment that `PROJECT.json` quotes under "findings" with the line
where the code departs from it.

**Bounds.** Each bound is named in its module and set in the `.cfg`.
A ring of two overflows with the third event; three and more events let a gap, merged output and a fresh row
meet; two eras need one respawn or hand-off, and a second fault lets a drop or crash hit the recovery of the
first. Turn markers are numbered like events and come on top of the bound of vendor events. In `RelayLane`,
two relays and a lane of one fill it; two hubs are one flip, or one crash and revival; two approvals of one
payload are the shortest history in which one could answer the other. `BlueGreenFlip` needs three processes
for the hub that dies during a flip, its successor and its revival; the second request meets what the first
left. `SessionInbox`: one message and one input compete for the one turn; two faults make a lost call and its
lost repair. `ReplayClient`: three rows are one before, one at and one after the cursor; pages of one row put
every other step between two pages; the second generation is a reset. `DurableRuns`: two runs that need one
resource, two hubs that overlap. `JournalRecovery`: two generations are the newest and the one to fall back
to; three faults are a damage, a death during its recovery and one more. `JournalPruning`: each history is one
reason why a row must stay.

By hand, larger instances were run with the same result: the safety invariants of `SessionInbox` with two messages
(Codex, one fault, all kinds but `secondWake` that do not touch them, 6 649 092 states) and its
`OperatorAuthorityEarned` with two inputs (4 717 960 states) and with three faults (798 654); `JournalRecovery` with three generations and events (2 780 072), `DurableRuns` with both runs cancellable
(643 911), `JournalPruning` with two snapshots (535 547), `ReplayClient` with rows at the start (1 460 633) and
with all Env kinds for the inductive invariant of section 4 (3 016 045), the safety parts of `WorkerReattach`
with three faults (3 073 694), and with `promote()`'s `attachWorker()` beside the other (13 103 566).

**Fairness.** `WF` of the processes' own steps: Node's event loop runs due callbacks, sockets deliver or
close, timers fire, the supervisor finishes what it began, a socket whose other end is gone is seen to close.
Vendors, agents, operators and faults are never obliged to act, except where a run says that a command or a
vendor turn ends (`DurableRuns`, `SessionInbox`). `JournalRecovery` assumes that the user starts the
application again when the supervisor gave up. Strong fairness is used once: of the maintenance passes that
reach a batch before their budget ends, one is let to finish it (`JournalPruning`).

**Deadlock** is not checked (`CHECK_DEADLOCK FALSE`): with its bounded input used up, an idle system
legitimately has no step. That work in progress goes on is what the liveness properties say.

Every property of a passing run has a mutant in `PROJECT.json`: a definition replaced by one with a
plausible bug (a missing rebase, a dropped guard, a skipped flush, a kept cache), which makes TLC find that
property violated under the run's own configuration.

## 4. Proofs

Eight modules hold the proofs. Every theorem is about the specification of the module named like its own, for
every value of its constants (`WorkerReattach_proofs` also of `WorkerReattachLog`); "every Env"
means that the proof holds with all interleavings of section 2.
Each proof module states an inductive invariant, shows that `Init` implies it and that every action keeps it
(one lemma per action or group of actions, one step per conjunct it can disturb), and derives the properties.
The invariants were checked by TLC on the instances of section 3 before they were proved.

**`WorkerReattach_proofs`** (every Env). Of the ring, `WseqBuffer`, for every bound and cursor: `AppendKeepsWindow`,
a ring is a window of consecutive numbers that ends at the last one appended, no larger than its bound;
`SinceIsComplete`, `since` returns exactly the retained numbers above the cursor, once and in order, with a sentinel
exactly when newer ones were trimmed. Of the session: `TypeCorrect`: the invariant adds that the ring is a window and that
there is a current era. `CursorCorrect`: `[]CursorIsHighWater`. Each append to the journal is one of a worker
row, pending output, a gap, a reset, a stale mark; a lemma shows for each that `Advance` computes the new
maximum of the rows since the last reset. `StopIsFinal`: `StopHolds`, an action property. Every action but
`Reopen` that writes `status`, `stored` or `shown` either writes "stopped" or is guarded by a status other
than "stopped"; this needs that a running hub's `status` and `stored` agree on being stopped.

*Ingest* (the second part of the module). `IngestSafeCorrect`: `[]IngestSafe`, if none of the six kinds of `WorkerReattach` in the
table above is in Env (`Ordinary`). With each of them TLC violates one part of it, so they are exactly what must
be excluded; drops, crashes, respawns, stops, hand-offs, timeouts and coalesced frames remain, in any number.
`IngestSafe` says what must be true of the journal and of a turn just sent; why it stays true is a matter of
everything under way, so the invariant describes that:

* *Protocol* (`ProtocolOK`): which frames a socket in each state can carry; that each `attachWorker()` awaits at most
  one reply, of the kind its place asks for; that an unacknowledged `runTurn` is the hub's current call unless that
  was given up, and lies ahead of what a re-attach asks; that a turn runs only in a session the worker holds.
* *What was reported* (`HeldOK`): a session reported as not held emits nothing behind the report, and the report is
  true as long as the link is open.
* *The hub's view of the turn* (`ViewOK`): a turn that runs, or whose marker is the next to arrive, makes the hub
  hold the session for busy or is about to be told to it; replayed markers are followed by their acknowledgement and
  do not end with the end of a turn that another one followed. Hence a turn is sent only when none runs.
* *What is journaled* (`IngestOK`): the two marks tell the truth, for the current era and for that of the events on
  the wire: what is at or below the mark is journaled, pending or declared lost, what is at or below the cursor is
  journaled or declared lost. An event on the wire comes after every earlier one the hub has not seen
  (`FramesOK`); pending text follows everything before it; a session that is not held has emitted nothing in its
  era, so a reset splits none (`UnheldOK`); and a link that replays has on it, or is asked for, all that the hub has
  not seen (`ReplayOK`).

There is one lemma per action. Proving it found what no run had: a turn whose call was not confirmed can be sent
again, and refused, see the observation in section 6.

*The log.* `ImplementsLogCorrect`: the refinement `ImplementsLog`, under the same hypothesis `Ordinary`.
Each row of the journal is an entry of `ExactlyOnceLog`; markers are entries of no era. A step of the log may append an
entry only if none of its events is recorded yet and all before them are, so the proof needs two facts about the
one event at the head of the socket. That nothing before it is left out is `FramesOK` and `TruthOK` above. That it is
not recorded yet is `LogOK`: while events of an era are on the wire, or may come because the link has replayed the
ring or was asked to (`Heard`), the mark in memory covers every event of the era that the journal has
(`MarkedOf`); so an event above the mark is new. At the claim of a re-attach this follows from
`CursorIsHighWater`, the durable cursor having lost nothing, and from the era not being split by a reset. Merged
command output is new and in place for the same reasons (`PendingFresh`). One lemma per kind of row says that it may
stand where it is appended, one per action which of these happens. The abstract `Produce` demands besides that no
entry accounts for what is yet to come: a gap declares nothing lost ahead of time.

**`SessionInbox_proofs`**. `TypeCorrect` (every Env) and `OperatorAuthorityCorrect`: `[]OperatorAuthorityEarned`, if none of
`turnLost`, `earlyTurn` and `secondWake` is in Env (`Careful`); with each of them TLC violates it. The hub learns what
becomes of a turn by markers, acknowledgements and answers to `listLive()`, all of which may be late, so what it
believes is bounded by two invariants:

* `CallInv` (every Env) says which calls and frames can be under way together: a frame carries a call of its own kind
  that the hub has not yet taken for answered (`FramesFit`); `attachWorker()` and the mail steer are chains of which
  one link at a time is a call (`Chains`); a list or an attach that was not given up is on its way once, as
  command or as reply (`Requests`); nothing of this outlives the hub or the socket (`Down`).
* `TurnInv` (`Careful`) says what of the running turn is under way to the hub. The last marker on the socket, and the last one
  in the worker's ring, tell whether a turn runs (`MarksTrue`, `RingTrue`). A turn on its way is the only one, with
  nothing of an earlier one left (`OneTurn`, `FirstStart`). Nothing that only a turn can cause reaches the hub ahead
  of that turn's start (`Evidence`), so a hub without marker under way knows of the turn (`Knows`). An answer to
  `listLive()` that no turn runs is true when it is read, or of a call since which the busy bit was set (`ListSays`,
  `ListSaid`). With this the authority follows: when it is set the turn that runs was given the input, or none
  runs and the next start clears it (`Authority`).

There is one lemma per action for each of the two. The attempt found that the passing run, with its one message, says too
much for two: to Codex a second message starts a second turn (`secondWake`; observation in section 6). It also found
that the model let a late reply find a call that had been given up, which the code's `pending` table does not.

**`RelayLane_proofs`**. `TypeCorrect`, `WriteOnceCorrect` and `NoOrphanCorrect` (every Env);
`AnsweredByItselfCorrect` if `staleReply` is not in Env, `NoStandingGrantCorrect` if `quickRepeat` is not in Env, and
`AnswersFitCorrect` if neither is. With each kind TLC violates the corresponding half.

*A write once* (`[]WriteOncePerHub`). The property is not inductive: a hub drops its cache when it meets another worker
process, so a late relay of the old process would be executed again. The invariant adds that no such relay
exists: what is queued towards a hub is of one worker generation, that of the welcome at its head or of the
last one read (`Sockets`); what is pending was issued by the current process (`LaneOK`); and the writes of a
hub's current generation that it has executed are in its cache (`Caches`).

*No relay left to nobody* (`[]NoOrphanedRelay`). A relay without a timer is an approval that was sent, and the lane
holds one at most (`LaneShape`). It is followed through the hub: on its way there, asked, answered (`Held`). Two facts
that no single step shows make this inductive: a hub drops what it sends before it has read the welcome, so a socket to
the current hub carries the welcome ahead of every relay (`HandOK`); and a request that is asked has a relay to answer
(`Waits`), because every further request joins the one that is pending.

*Answers fit: calls* (`[]AnsweredByItself`). An answer carries only a callId, and those start afresh with each worker
process. So every answer on its way to the worker must be of the running process and for something its hub executed
(`RepliesOK`), and a callId and a generation must name one call wherever it is known (`Numbered`). This holds
because a channel closes with its process, and a hub that is attached on an open one has read the newest welcome
and keeps only the cache of its generation (`RpcOK`, `CallsOK`).

*Answers fit: approvals* (`[]NoStandingGrant`). All approvals of one payload share an id, so an answer fits whatever is
pending when it arrives. What is on its way to a hub, and what a hub itself answered, is for the pending invocation
(`AsksFit`, `OwnFit`). Only a decision on record can be for another one. The invariant counts these per hub process:
at most one is on the socket or was delivered, never both, and only of another process (`GrantOK`). One is applied
only while the process may still recover, which it may not after that nor after deciding anything itself; and a hub
that has not started yet has decided and delivered nothing.

**`BlueGreenFlip_proofs`** (any set of hubs, any number of faults and requests, with or without the death of the
supervisor). `TypeCorrect`, `OneOwnerCorrect`: `[]OneOwner`, and `RoleHandedOverCorrect`: the refinement of `PublicRole`.
That one hub *holds* an authority at a time is not inductive: what counts is who may still be given one. A hub is
therefore a *claimant* while it holds an authority, boots to get one, is draining, promoting or aborting, or
has such a request in its inbox. The invariant says that every running claimant is `Owner`, the one hub that the
supervisor's place in the flip and in the revival names:

* blue from the start of a flip until the promotion is sent, green from then on; after a rollback began nobody until
  green is dead and the port is free, then blue; outside a flip the live hub, or the candidate of a boot.
* The owner passes from blue to green when blue has answered that it let go. That this answer is one to *this*
  drain, and is still true when it is read, needs a description of what the owner is doing for the supervisor at each
  place (`Phase`): the request is in the inbox, in progress, or answered, never two of these (`Drained`, `Promoted`);
  a drain that is aborted may still be answered, but not after its abort (`Rebound`).
* In every other change of owner the old one is dead or was sent a kill: a dead process whose exit was noticed has
  left no answers (`seen`), a poisoned root has no running process.
* Answers are told apart by epochs, which must not run ahead of those handed out (`EpochsBounded`).

The backups need none of this: the lease is the database's, and that its holder is unique and alone writes
(`LeaseInv`) survives every step of a hub and every kill. For the refinement, a step either concerns one hub or kills
some; a hub that gains the questions in a step is then the only one that changed, so nobody lost them in the same step.

**`JournalPruning_proofs`**. `TypeCorrect`, `NothingLostCorrect`, `PrunedCoveredCorrect`. The difficulty is
that two children delete what each selected before the other deleted. The invariant therefore states why a
row may go without the word "still there": the newest diff of all, or a terminal, is never redundant, so it is
never picked and the row that supersedes another is alive (`PicksSafe`); checkpoints do not outgrow the
deleted rows (`Counted`); a snapshot has every row not deleted up to its highest (`SnapsWhole`); and a picked or
deleted row is *held*: as many assigned peers as the policy asked for acknowledged a snapshot with it, and
some snapshot with it is reserved for as many (`PicksHeld`), which is what `Configure` then respects.

**`DurableRuns_proofs`**. `TypeCorrect` and `OncePerRunCorrect` (every Env): a launch is due once in all hubs
together and first in its hub's list (`DueOnce`); a launch due, a preparation under way and a request without
receipt exclude each other and precede the start (`StartsOnce`); the prerequisite has succeeded
(`PrerequisiteMet`); a journal task is due only after the end and before the row (`Reports`).
`OutcomeHonestCorrect`, `ResourceAloneCorrect` under `Env = {}`: an answer is one to the request, a refusal means
that nothing is left to refuse, what failed or was cancelled will not start, and a running run holds all its
leases. Under each Env kind TLC violates both, so the hypothesis is needed. Looking for the
invariant found an error of the model: a failing `run/started` append wrote "failed" over a row that had
already ended, which the guarded UPDATE of the code does not.

**`JournalRecovery_proofs`** (every Env). `TypeCorrect`, `EvidenceKeptCorrect`, `FamilyNeverMixedCorrect`,
`NoSilentRegressCorrect` (an action property). While the recovery worker has the lock no hub holds the lease,
and no hub boots into a root with a plan, so files move only while nobody writes (`Locked`). At each link
and unlink the plan's family is at the path or in quarantine (`EvidenceSafe`). Recoveries are numbered
consecutively and each answers a damage of its own (`Counted`), so their numbers stay in their bound. A
completed plan that is not yet dropped has its sound database in place without its own notice (`PlanStands`). No
copy anywhere carries the notice of a recovery that is not completed (`CopiesKnown`). A journal that is behind
what the last hub served lacks a notice, or was put back and is refused by its lineage, or is under a plan
(`JournalKnown`); and only `Serve` makes a booting hub serve.

**`ReplayClient_proofs`**. `TypeCorrect` and `ReplayWholeCorrect` (every Env): nobody knows a row the journal
does not have; deleted rows lie at or below the reset floor, and whoever holds the journal's generation has a
cursor at or above that floor (`GenKnown`), so that a page read now continues the cursor without a jump; what
is on the wire and in the buffers continues what the client has (`NoJump`; what an earlier socket left does
not count until the new one's start frame), and applying a sequence without jumps covers everything up to its
highest row. `PaneWholeCorrect`, if `lateHistory` and `retryOlder` are not in Env: while no error shows, either
a latest page is awaited or everything from the history cursor to the last applied row is on screen.
`StatusNotBehindCorrect`, if `staleRoster` is not in Env: a roster read that began before a status row was
applied is fenced. These hypotheses are those of the run; with each kind TLC violates the property.

**Assumptions** are the named `ASSUME`s of the modules, all of them typing of constants, and what a theorem
says of `Env`. TLC evaluates the former in every run.

**Only model-checked.** All liveness (`SessionSettles`, `RelaySettled`, `LiveHubAttaches`, `Recovers`,
`OrphansSettle`, `NothingWaitsForever`, `CatchesUp`, `OwnerTold`, `ComesBack`,
`Reclaims`): fairness and `ENABLED` are beyond the prover. Of the safety properties: `InputOnce` and the action
property `QueueAccounted` of `SessionInbox`.

## 5. Plan

Done: the modules and theorems above.

Proofs: `InputOnce` and `QueueAccounted` of `SessionInbox`, on top of `CallInv` and `TurnInv`: that an input is in
one place (the queue, one steer, one turn on its way) until the model reads it.

Models: `ProfileLogin` (`profileOwnership.ts`, `loginLauncher.ts`: who may change a vendor credential across
flips); `Questions` (owner hand-over and expiry, on `RelayLane`'s lane); deletion of sessions and projects;
`TaskBoard` and `FileTransfers`, as small state machines.

## 6. Not modelled, and observations

Vendor processes beyond the turns and events they produce; HTTP routes, rendering, statistics, policy
decisions (any decision may happen); SQL, files and git as such; fleet and mesh; the web and desktop user
interfaces; installers and scripts. Each has a component entry in `PROJECT.json` with the reason.

While reading and modelling we noted the following. Those marked (TLC) were shown on an instance of the model
that is not among the runs; the others come from reading and no run shows them.

* Relay lane (TLC): a write that blue executed is executed again by its successor, which starts with an empty
  cache (`workerExecutor.ts:104`, against the comment at :99); an uncached call is executed again by the same
  hub when its answer is lost; a decided approval is offered again after a promotion (`approvals.ts:203`); a
  scoped reviewer's decision can answer a later identical invocation.
* Inbox (TLC): `deliverBus()` marks mail as delivered and journals `bus/delivered` before it calls `runTurn()`
  (`sessions.ts:12149`), which reports an unconfirmed turn when there is no worker (`workerExecutor.ts:189`): mail
  posted while the socket is down is consumed unread (`DeliveredIsInjected` of `SessionInbox`), although
  `docs/inter-agent-comms.md:213` explains the row as "injected/buffered into a recipient".
* Inbox (TLC, two messages, Codex, no fault): `deliverBus()` asks `executor.isBusy` for Claude only (`sessions.ts:12086`).
  A second message that arrives before the first one's `turnStarted` is back starts a second turn. The worker refuses
  it, the refusal puts the session in error while the first turn runs on, and all that rests on the hub's view of the
  running turn can fail: the authority, the single reading of input, the account of the queue. `busTurn` is the
  same of `WorkerReattach`.
* Re-attach (TLC): clients keep `idle` while a turn runs that was found running at attach.
* Re-attach (found by the proof, then by TLC with three turns and without that exemption): when a `runTurn` was not confirmed in
  time although the worker took it, the hub may send another. The worker refuses it and announces the refusal with
  `emitTurnError`, which deletes the session's entry of `activeTurns` (`agentWorker.ts:1091`) while the first turn goes
  on. After a reconnect `attached()` finds a codex session, for which that entry is what says that it is busy, and
  takes it for idle. `OneTurnAtATime` therefore speaks of a hub that gave up no call (`doubtful`), also when
  it reconnects in that state.
* Durable runs: a crash between the end of a run and its journal append loses that row for good, the notice
  does not; `terminateTree` signals only the direct child on POSIX; `requestCancel` reads and then updates
  in two statements (`durableRuns.ts:694`).
* Flip: when the abort of a restart fails in the hub and the supervisor then dies, an orphan is left that is
  bound to the port but draining.
* Recovery: a flip while blue's backup child has a staging directory refuses green and takes the whole root
  through recovery; after a backup child died between publication and activation all later backups fail until
  the next reconciliation; a plan whose generation rots is never given up.
* Pruning: `configureJournalReplication` checks and applies (`journalReplication.ts:817`), and the gate reads and
  reserves (:745, :774), in separate statements: a configuration in between can unassign the only holder.
  The doc comment of `condenseCompletedCodex` (near `journal.ts:1918`) says that diff snapshots wait for the end
  of the turn; the code keeps the newest per turn without waiting, as its inline comment says.
* Profile login: after a second takeover by another supervisor the reconciliation of an interrupted login
  answers "conflict" for good, since the takeover proof keeps the first predecessor; a restart that fails
  before the drain gives blue a new profile epoch and so voids a sign-in in progress, although the comment at
  `restartController.ts:388` says the listener is merely acknowledged.

## 7. Running

    tlc -config MCWorkerReattach.cfg MCWorkerReattach       # and the other MC*.cfg with their MC module
    tlc -config ReattachGapEmit.cfg MCWorkerReattach        # the two violation runs
    tlc -config ReattachColdStart.cfg MCWorkerReattach
    tlapm WorkerReattach_proofs.tla                         # and the other *_proofs modules

The passing runs take between half a minute and two and a half minutes each on two cores and reach between
about 110 000 and 1.3 million states. The longest proofs are those of `WorkerReattach_proofs` and
`SessionInbox_proofs`, which take about twelve minutes each from nothing on four cores.
